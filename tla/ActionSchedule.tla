--------------------------- MODULE ActionSchedule ---------------------------
(***************************************************************************)
(* ActionSession::getNowAction: which item of a recorded action is played  *)
(* at a moment.  An action is the sequence of its items' timeTicks; the    *)
(* direction and the speed of an item play no part in the choice.          *)
(*                                                                         *)
(* The search is std::upper_bound, step by step: `first` and `count`       *)
(* delimit the items still in question.  Positions count from 1.           *)
(*                                                                         *)
(* A definition whose comment starts with "Variant" is not part of the     *)
(* model: it is a slip that a property would notice.                       *)
(***************************************************************************)
EXTENDS Integers, Sequences

CONSTANTS
    Action,      \* the actions, as sequences of timeTicks
    MsPerTick,   \* length of a tick in milliseconds
    MaxTime      \* bound: milliseconds since the session was made

Sorted(o) == \A i, j \in DOMAIN o : i <= j => o[i] <= o[j]

\* "ops must sort by ActionItem::timeTick" (ActionModeManager.h:85); the code also
\* divides by MsPerTick and by the last timeTick.
ASSUME ActionsOK ==
    /\ \A o \in Action : /\ o \in Seq(Nat) /\ o # <<>>
                         /\ Sorted(o) /\ o[Len(o)] > 0
    /\ MsPerTick \in Nat \ {0}
    /\ MaxTime \in Nat

VARIABLES
    ops,         \* the session's action
    dt,          \* steady_clock's time since initTime, in milliseconds
    tick,        \* where the call in progress is in the action
    round,       \* history: in which repetition of the action that is
    first, count,\* upper_bound's range
    pc,          \* "idle", "search", "found", "throw"
    played       \* history: the item returned last and its repetition

vars == <<ops, dt, tick, round, first, count, pc, played>>

-----------------------------------------------------------------------------
Init ==
    /\ ops \in Action
    /\ dt = 0 /\ tick = 0 /\ round = 0
    /\ first = 1 /\ count = 0
    /\ pc = "idle"
    /\ played = [round |-> 0, item |-> 1]

\* The clock goes on, whatever the caller does.
Elapse ==
    /\ dt < MaxTime
    /\ dt' = dt + 1
    /\ UNCHANGED <<ops, tick, round, first, count, pc, played>>

\* Variant: the action is taken to be one tick longer than it is.
GetNowActionPast ==
    /\ pc \in {"idle", "found"}
    /\ tick' = (dt \div MsPerTick) % (ops[Len(ops)] + 1)
    /\ round' = (dt \div MsPerTick) \div (ops[Len(ops)] + 1)
    /\ first' = 1 /\ count' = Len(ops)
    /\ pc' = IF dt < 0 THEN "throw" ELSE "search"
    /\ UNCHANGED <<ops, dt, played>>

\* Variant: the milliseconds are taken modulo the length, then divided.
GetNowActionSwapped ==
    /\ pc \in {"idle", "found"}
    /\ tick' = (dt % ops[Len(ops)]) \div MsPerTick
    /\ round' = (dt \div MsPerTick) \div ops[Len(ops)]
    /\ first' = 1 /\ count' = Len(ops)
    /\ pc' = IF dt < 0 THEN "throw" ELSE "search"
    /\ UNCHANGED <<ops, dt, played>>

\* getNowAction up to the search: the clock has not gone back, or it throws; the tick,
\* modulo the length of the action.
GetNowAction ==
    /\ pc \in {"idle", "found"}
    /\ tick' = (dt \div MsPerTick) % ops[Len(ops)]
    /\ round' = (dt \div MsPerTick) \div ops[Len(ops)]
    /\ first' = 1 /\ count' = Len(ops)
    /\ pc' = IF dt < 0 THEN "throw" ELSE "search"
    /\ UNCHANGED <<ops, dt, played>>

\* Variant: lower_bound, the first item that is not before the tick.
SearchLower ==
    /\ pc = "search" /\ count > 0
    /\ LET half == count \div 2
           mid  == first + half
       IN  IF tick <= ops[mid]
           THEN count' = half /\ UNCHANGED first
           ELSE first' = mid + 1 /\ count' = count - half - 1
    /\ UNCHANGED <<ops, dt, tick, round, pc, played>>

\* std::upper_bound: halve the range, keeping the half that holds the end of the
\* items that are not after the tick.
Search ==
    /\ pc = "search" /\ count > 0
    /\ LET half == count \div 2
           mid  == first + half
       IN  IF tick < ops[mid]
           THEN count' = half /\ UNCHANGED first
           ELSE first' = mid + 1 /\ count' = count - half - 1
    /\ UNCHANGED <<ops, dt, tick, round, pc, played>>

\* The search is over: the item, or the exception when there is none.
Return ==
    /\ pc = "search" /\ count = 0
    /\ IF first = Len(ops) + 1
       THEN pc' = "throw" /\ UNCHANGED played
       ELSE pc' = "found" /\ played' = [round |-> round, item |-> first]
    /\ UNCHANGED <<ops, dt, tick, round, first, count>>

Next == Elapse \/ GetNowAction \/ Search \/ Return

Spec == Init /\ [][Next]_vars
-----------------------------------------------------------------------------
\* The two exceptions commented "never into there" are never thrown: with a clock that does
\* not go back (ActionModeManager.h:106-110) the tick is always before the end of the last
\* item, and the search finds that (lines 131-135).
NeverIntoThere == pc # "throw"

\* getNowAction is to "find the first item that timeTick bigger than tick"
\* (ActionModeManager.h:115): the halving search returns what the linear scan of
\* "way 2" (lines 120-128) would, whatever items share a timeTick.
NowItem ==
    pc = "found" =>
        /\ first \in DOMAIN ops
        /\ tick < ops[first]
        /\ \A i \in 1..(first - 1) : ops[i] <= tick

\* "the tick of first item is how the first item long, the tick of last item is how the
\* all item long" (ActionModeManager.h:57-63): from one call to the next the items come
\* in order, and an earlier one comes back only in a later repetition of the action.
PlaysInOrder ==
    [][played' # played =>
        \/ played'.round > played.round
        \/ played'.round = played.round /\ played'.item > played.item]_vars
=============================================================================
