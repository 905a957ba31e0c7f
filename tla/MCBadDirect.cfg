\* The branch for a bad direction.
SPECIFICATION Spec
CONSTANTS
    Code <- Codes
    MaxLen = 2
INVARIANT BadDirectIsBad
