\* One io_context thread (processor_count <= 2); a free port always opens.
SPECIFICATION Spec
CONSTANTS
    p1 = p1
    p2 = p2
    Port = {p1, p2}
    NoPort = NoPort
    Request <- TwoPorts
    NoRequest = NoRequest
    Threads = 1
    OpenFaults = FALSE
    MaxSession = 3
    MaxCommand = 2
    MaxFind = 1
INVARIANTS SendingDataExact PollChain NoneLeftBehind
PROPERTIES StopIsLast ChannelSpec
