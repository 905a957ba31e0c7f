\* Every kind of request, and every direction and speed of setState.
SPECIFICATION Spec
CONSTANTS
    Code <- Codes
    MaxLen = 2
INVARIANTS OpNeverReachesPort CommandFaithful
