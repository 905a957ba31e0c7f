-------------------------- MODULE MCActionSchedule --------------------------
(* All the actions of a few items that end within a few ticks. *)
EXTENDS ActionSchedule, TLC

CONSTANTS MaxItems, MaxTick

Sequences == UNION {[1..n -> 0..MaxTick] : n \in 1..MaxItems}
Actions == {o \in Sequences : Sorted(o) /\ o[Len(o)] > 0}
=============================================================================
