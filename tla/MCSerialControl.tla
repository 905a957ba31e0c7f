--------------------------- MODULE MCSerialControl ---------------------------
(* Small instances of SerialControl for TLC. *)
EXTENDS SerialRefinement, TLC

CONSTANTS p1, p2

\* Two requests that move the device on p1, one with a named mode, one for p2.
Forward  == [com |-> p1, none |-> TRUE,  cmd |-> 50]
Backward == [com |-> p1, none |-> TRUE,  cmd |-> 228]
Named    == [com |-> p1, none |-> FALSE, cmd |-> 50]
Other    == [com |-> p2, none |-> TRUE,  cmd |-> 10]

OnePort  == {Forward}
TwoPorts == {Forward, Other}
Mixed    == {Forward, Backward, Named}
=============================================================================
