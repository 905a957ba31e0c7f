\* Three io_context threads; opening a port may fail, and a mode may be named.
SPECIFICATION Spec
CONSTANTS
    p1 = p1
    p2 = p2
    Port = {p1}
    NoPort = NoPort
    Request <- Mixed
    NoRequest = NoRequest
    Threads = 3
    OpenFaults = TRUE
    MaxSession = 2
    MaxCommand = 2
    MaxFind = 1
INVARIANTS TypeOK SendingDataExact
PROPERTIES LookupStable ChannelSpec
