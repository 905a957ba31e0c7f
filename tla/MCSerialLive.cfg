\* Two threads, one port, one command before the signal: lookups and liveness.
SPECIFICATION FairSpec
CONSTANTS
    p1 = p1
    p2 = p2
    Port = {p1}
    NoPort = NoPort
    Request <- OnePort
    NoRequest = NoRequest
    Threads = 2
    OpenFaults = FALSE
    MaxSession = 2
    MaxCommand = 1
    MaxFind = 1
INVARIANT OpenFound
PROPERTIES ShutdownEnds DataReleased SessionNamed
