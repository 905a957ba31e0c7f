\* The stop command that close() sends, with a second thread.
SPECIFICATION Spec
CONSTANTS
    p1 = p1
    p2 = p2
    Port = {p1}
    NoPort = NoPort
    Request <- OnePort
    NoRequest = NoRequest
    Threads = 2
    OpenFaults = FALSE
    MaxSession = 2
    MaxCommand = 2
    MaxFind = 1
PROPERTY StopIsLast
