-------------------------- MODULE MCCommandDecode --------------------------
(* Characters that bring a number's text to every branch it can reach. *)
EXTENDS CommandDecode, TLC

\* "!", "0", "1", "2", "d" (100), "e" (101) and the highest code
Codes == {33, 48, 49, 50, 100, 101, 255}
=============================================================================
