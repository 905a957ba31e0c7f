------------------------- MODULE ActionScheduleProofs -------------------------
(* For every sorted action, of any number of items, and at any time. *)
EXTENDS ActionSchedule, TLAPS

TypeInv ==
    /\ ops \in Action
    /\ dt \in Nat /\ tick \in Nat
    /\ first \in Nat /\ count \in Nat

\* The loop invariant of the search: the items before the range are not after the tick,
\* those behind the range are, and the last item is after the tick from the start.
Halving ==
    pc = "search" =>
        /\ first >= 1 /\ first + count <= Len(ops) + 1
        /\ tick < ops[Len(ops)]
        /\ \A i \in 1..(first - 1) : ops[i] <= tick
        /\ \A i \in (first + count)..Len(ops) : tick < ops[i]

Inv == TypeInv /\ Halving /\ NowItem /\ NeverIntoThere

LEMMA OpsFacts ==
    ASSUME NEW o \in Action
    PROVE  /\ Len(o) \in Nat \ {0} /\ DOMAIN o = 1..Len(o)
           /\ \A i \in 1..Len(o) : o[i] \in Nat
           /\ \A i, j \in 1..Len(o) : i <= j => o[i] <= o[j]
           /\ o[Len(o)] \in Nat \ {0}
<1>1. o \in Seq(Nat) /\ o # <<>> /\ Sorted(o) /\ o[Len(o)] > 0 BY ActionsOK
<1>2. Len(o) \in Nat \ {0} /\ DOMAIN o = 1..Len(o) BY <1>1
<1>3. \A i \in 1..Len(o) : o[i] \in Nat BY <1>1, <1>2
<1> QED BY <1>1, <1>2, <1>3 DEF Sorted

\* The tick of a call is before the end of the last item.
LEMMA TickInAction ==
    ASSUME NEW t \in Nat, NEW n \in Nat \ {0}
    PROVE  (t \div MsPerTick) % n \in 0..(n - 1)
<1>1. t \div MsPerTick \in Nat BY ActionsOK
<1> QED BY <1>1

LEMMA InitOK == Init => Inv
BY DEF Init, Inv, TypeInv, Halving, NowItem, NeverIntoThere

LEMMA StepOK == Inv /\ [Next]_vars => Inv'
<1> SUFFICES ASSUME Inv, [Next]_vars PROVE Inv'
    OBVIOUS
<1> USE DEF Inv
<1>0. /\ Len(ops) \in Nat \ {0} /\ DOMAIN ops = 1..Len(ops)
      /\ \A i \in 1..Len(ops) : ops[i] \in Nat
      /\ \A i, j \in 1..Len(ops) : i <= j => ops[i] <= ops[j]
      /\ ops[Len(ops)] \in Nat \ {0}
    BY OpsFacts DEF TypeInv
<1>1. CASE Elapse
    BY <1>1 DEF Elapse, TypeInv, Halving, NowItem, NeverIntoThere
<1>2. CASE GetNowAction
    <2>1. tick' \in 0..(ops[Len(ops)] - 1)
        BY <1>0, <1>2, TickInAction DEF GetNowAction, TypeInv
    <2>2. TypeInv' BY <1>0, <1>2, <2>1 DEF GetNowAction, TypeInv
    <2>3. Halving' BY <1>0, <1>2, <2>1 DEF GetNowAction, Halving
    <2>4. pc' = "search" BY <1>2 DEF GetNowAction, TypeInv
    <2> QED BY <2>2, <2>3, <2>4 DEF NowItem, NeverIntoThere
<1>3. CASE Search
    <2> DEFINE half == count \div 2
               mid == first + half
    <2>1. half \in 0..(count - 1) BY <1>3 DEF Search, TypeInv
    <2>2. mid \in first..(first + count - 1) BY <2>1 DEF TypeInv
    <2>3. mid \in 1..Len(ops) BY <1>0, <1>3, <2>2 DEF Search, Halving, TypeInv
    <2>4. CASE tick < ops[mid]
        <3>1. first' = first /\ count' = half /\ ops' = ops /\ tick' = tick /\ dt' = dt
              /\ pc' = pc
            BY <1>3, <2>4 DEF Search
        <3>2. \A i \in mid..Len(ops) : tick < ops[i]
            BY <1>0, <2>3, <2>4 DEF TypeInv
        <3>3. TypeInv' BY <2>1, <3>1 DEF TypeInv
        <3>4. Halving' BY <1>0, <1>3, <2>1, <2>2, <3>1, <3>2 DEF Search, Halving, TypeInv
        <3> QED BY <1>3, <3>1, <3>3, <3>4 DEF Search, NowItem, NeverIntoThere
    <2>5. CASE ~(tick < ops[mid])
        <3>1. /\ first' = mid + 1 /\ count' = count - half - 1
              /\ ops' = ops /\ tick' = tick /\ dt' = dt /\ pc' = pc
            BY <1>3, <2>5 DEF Search
        <3>2. \A i \in 1..mid : ops[i] <= tick
            BY <1>0, <2>3, <2>5 DEF TypeInv
        <3>3. TypeInv' BY <2>1, <2>2, <3>1 DEF TypeInv
        <3>4. first' + count' = first + count BY <2>1, <3>1 DEF TypeInv
        <3>5. Halving' BY <1>3, <2>2, <3>1, <3>2, <3>4 DEF Search, Halving, TypeInv
        <3> QED BY <1>3, <3>1, <3>3, <3>5 DEF Search, NowItem, NeverIntoThere
    <2> QED BY <2>4, <2>5
<1>4. CASE Return
    <2>1. first \in 1..(Len(ops) + 1) BY <1>0, <1>4 DEF Return, Halving, TypeInv
    <2>2. first # Len(ops) + 1
        <3>1. first = Len(ops) + 1 => ops[Len(ops)] <= tick
            BY <1>0, <1>4 DEF Return, Halving
        <3> QED BY <1>0, <1>4, <3>1 DEF Return, Halving, TypeInv
    <2>3. first \in 1..Len(ops) BY <1>0, <2>1, <2>2
    <2>4. tick < ops[first]
        BY <1>0, <1>4, <2>3 DEF Return, Halving, TypeInv
    <2> QED BY <1>0, <1>4, <2>2, <2>3, <2>4
            DEF Return, TypeInv, Halving, NowItem, NeverIntoThere
<1>5. CASE UNCHANGED vars
    BY <1>5 DEF vars, TypeInv, Halving, NowItem, NeverIntoThere
<1> QED BY <1>1, <1>2, <1>3, <1>4, <1>5 DEF Next

LEMMA Invariance == Spec => []Inv
BY InitOK, StepOK, PTL DEF Spec

\* The search finds the item that the linear scan of "way 2" finds
\* (ActionModeManager.h:115-129).
THEOREM SearchCorrect == Spec => []NowItem
BY Invariance, PTL DEF Inv

\* The exceptions for a clock that went back and for a wrong tick are never thrown
\* (ActionModeManager.h:106-110, 131-135).
THEOREM NeverThrows == Spec => []NeverIntoThere
BY Invariance, PTL DEF Inv
-----------------------------------------------------------------------------
(* The order of the items that are played.  A moment of an action is a repetition and  *)
(* a tick within it; what was played last began at or before the moment of the call.   *)

Length == ops[Len(ops)]
Ticks == dt \div MsPerTick

\* Moment (r, t) is not after moment (u, v).
NotAfter(r, t, u, v) == r < u \/ (r = u /\ t <= v)

\* The tick at which item i begins.
Begin(i) == IF i = 1 THEN 0 ELSE ops[i - 1]

\* What was played last has begun, and so has the moment of the call; during a call what
\* was played last began at or before its moment.
PlayedSoFar ==
    /\ round \in Nat
    /\ DOMAIN played = {"round", "item"}
    /\ played = [round |-> played.round, item |-> played.item]
    /\ played.round \in Nat /\ played.item \in 1..Len(ops)
    /\ NotAfter(round, tick, Ticks \div Length, Ticks % Length)
    /\ NotAfter(played.round, Begin(played.item), Ticks \div Length, Ticks % Length)
    /\ pc = "search" => NotAfter(played.round, Begin(played.item), round, tick)

LEMMA QuotientTypes ==
    ASSUME NEW a \in Nat, NEW n \in Nat \ {0}
    PROVE  a \div n \in Nat /\ a % n \in Nat
OBVIOUS

\* Quotients and remainders keep the order of the dividends.
LEMMA QuotientFacts ==
    ASSUME NEW a \in Nat, NEW n \in Nat \ {0}
    PROVE  /\ a \div n \in Nat /\ a % n \in 0..(n - 1)
           /\ a = n * (a \div n) + (a % n)
OBVIOUS

LEMMA ProductOrder ==
    ASSUME NEW n \in Nat \ {0}, NEW p \in Nat, NEW q \in Nat, p < q
    PROVE  n * p + n <= n * q
<1>1. PICK k \in Nat : q = p + 1 + k
    <2>1. q - p - 1 \in Nat /\ q = p + 1 + (q - p - 1) OBVIOUS
    <2> QED BY <2>1
<1>2. n * q = n * p + n + n * k BY <1>1
<1>3. n * k \in Nat /\ n * p \in Nat OBVIOUS
<1> QED BY <1>2, <1>3

LEMMA QuotientOrder ==
    ASSUME NEW a \in Nat, NEW b \in Nat, NEW n \in Nat \ {0}, a <= b
    PROVE  NotAfter(a \div n, a % n, b \div n, b % n)
<1> DEFINE p == a \div n
           q == b \div n
           r == a % n
           s == b % n
<1>1. /\ p \in Nat /\ q \in Nat /\ r \in 0..(n - 1) /\ s \in 0..(n - 1)
      /\ a = n * p + r /\ b = n * q + s
    BY QuotientFacts
<1> HIDE DEF p, q, r, s
<1>2. ~(q < p)
    <2>1. SUFFICES ASSUME q < p PROVE FALSE OBVIOUS
    <2>2. n * q + n <= n * p BY <1>1, <2>1, ProductOrder
    <2>3. n * q \in Nat /\ n * p \in Nat BY <1>1
    <2> QED BY <1>1, <2>2, <2>3
<1>3. p = q => r <= s
    <2>1. SUFFICES ASSUME p = q PROVE r <= s OBVIOUS
    <2>2. n * p = n * q /\ n * p \in Nat BY <1>1, <2>1
    <2> QED BY <1>1, <2>2
<1>4. NotAfter(p, r, q, s) BY <1>1, <1>2, <1>3 DEF NotAfter
<1> QED BY <1>4 DEF p, q, r, s

LEMMA NotAfterTransitive ==
    ASSUME NEW r \in Int, NEW t \in Int, NEW u \in Int, NEW v \in Int,
           NEW w \in Int, NEW x \in Int,
           NotAfter(r, t, u, v), NotAfter(u, v, w, x)
    PROVE  NotAfter(r, t, w, x)
BY DEF NotAfter

LEMMA ClockFacts ==
    ASSUME TypeInv
    PROVE  /\ Ticks \in Nat /\ Length \in Nat \ {0}
           /\ Ticks \div Length \in Nat /\ Ticks % Length \in Nat
<1>1. Ticks \in Nat BY ActionsOK, QuotientFacts DEF TypeInv, Ticks
<1>2. Length \in Nat \ {0} BY OpsFacts DEF TypeInv, Length
<1> QED BY <1>1, <1>2, QuotientFacts

LEMMA PlayedInit == Init => PlayedSoFar
<1> SUFFICES ASSUME Init PROVE PlayedSoFar
    OBVIOUS
<1>1. TypeInv BY DEF Init, TypeInv
<1>2. Len(ops) \in Nat \ {0} BY <1>1, OpsFacts DEF TypeInv
<1> QED BY <1>1, <1>2, ClockFacts DEF Init, PlayedSoFar, NotAfter, Begin

\* When an item is found, it has begun and the items before what was played last have ended.
LEMMA FoundInOrder ==
    ASSUME Inv, PlayedSoFar, pc = "search", count = 0
    PROVE  /\ NotAfter(round, Begin(first), round, tick)
           /\ first \in 1..Len(ops) =>
                \/ played.round < round
                \/ played.round = round /\ played.item <= first
<1>0. /\ Len(ops) \in Nat \ {0}
      /\ \A i \in 1..Len(ops) : ops[i] \in Nat
      /\ \A i, j \in 1..Len(ops) : i <= j => ops[i] <= ops[j]
    BY OpsFacts DEF Inv, TypeInv
<1>1. /\ first \in Nat \ {0} /\ first <= Len(ops) + 1 /\ tick \in Nat
      /\ \A i \in 1..(first - 1) : ops[i] <= tick
      /\ \A i \in first..Len(ops) : tick < ops[i]
    BY DEF Inv, TypeInv, Halving
<1>2. Begin(first) <= tick
    BY <1>1 DEF Begin
<1>3. /\ played.round \in Nat /\ round \in Nat /\ played.item \in 1..Len(ops)
      /\ NotAfter(played.round, Begin(played.item), round, tick)
    BY DEF PlayedSoFar
<1>4. ASSUME first \in 1..Len(ops), played.round = round PROVE played.item <= first
    <2>1. Begin(played.item) <= tick BY <1>3, <1>4 DEF NotAfter
    <2>2. SUFFICES ASSUME first < played.item PROVE FALSE BY <1>3, <1>4
    <2>3. played.item - 1 \in first..Len(ops) /\ played.item # 1 BY <1>0, <1>1, <1>3, <2>2
    <2> QED BY <1>0, <1>1, <2>1, <2>3 DEF Begin
<1> QED BY <1>2, <1>3, <1>4 DEF NotAfter

LEMMA PlayedStep == Inv /\ Inv' /\ PlayedSoFar /\ [Next]_vars => PlayedSoFar'
<1> SUFFICES ASSUME Inv, Inv', PlayedSoFar, [Next]_vars PROVE PlayedSoFar'
    OBVIOUS
<1>0. TypeInv /\ TypeInv'
    BY DEF Inv
<1>1. /\ Ticks \in Nat /\ Length \in Nat \ {0}
      /\ Ticks \div Length \in Nat /\ Ticks % Length \in Nat
    BY <1>0, ClockFacts
<1>2. Len(ops) \in Nat \ {0} /\ \A i \in 1..Len(ops) : ops[i] \in Nat
    BY <1>0, OpsFacts DEF TypeInv
<1>3. Begin(played.item) \in Nat
    BY <1>2 DEF Begin, PlayedSoFar
<1>4. CASE Elapse
    <2>1. /\ ops' = ops /\ Length' = Length /\ round' = round /\ tick' = tick
          /\ played' = played /\ pc' = pc /\ dt' = dt + 1
        BY <1>4 DEF Elapse, Length
    <2>2. Begin(played.item)' = Begin(played.item)
        BY <2>1 DEF Begin
    <2>3. Ticks' \in Nat /\ Ticks <= Ticks'
        <3>1. dt \in Nat /\ dt' = dt + 1 /\ MsPerTick \in Nat \ {0}
            BY <1>0, <2>1, ActionsOK DEF TypeInv
        <3>2. dt' \in Nat /\ dt <= dt'
            BY <3>1
        <3>3. NotAfter(dt \div MsPerTick, dt % MsPerTick, dt' \div MsPerTick, dt' % MsPerTick)
            BY <3>1, <3>2, QuotientOrder
        <3>4. dt \div MsPerTick \in Nat /\ dt' \div MsPerTick \in Nat
            BY <3>1, <3>2, QuotientTypes
        <3>5. dt \div MsPerTick <= dt' \div MsPerTick
            BY <3>3, <3>4 DEF NotAfter
        <3>6. MsPerTick' = MsPerTick
            OBVIOUS
        <3> QED BY <3>4, <3>5, <3>6 DEF Ticks
    <2>4. NotAfter(Ticks \div Length, Ticks % Length, Ticks' \div Length, Ticks' % Length)
        BY <1>1, <2>3, QuotientOrder
    <2>5. Ticks' \div Length \in Nat /\ Ticks' % Length \in Nat
        BY <1>1, <2>3, QuotientTypes
    <2> DEFINE q == Ticks \div Length
               m == Ticks % Length
               u == Ticks' \div Length
               v == Ticks' % Length
    <2>6. /\ q \in Nat /\ m \in Nat /\ u \in Nat /\ v \in Nat /\ NotAfter(q, m, u, v)
          /\ NotAfter(round, tick, q, m) /\ NotAfter(played.round, Begin(played.item), q, m)
        BY <1>1, <2>4, <2>5 DEF PlayedSoFar
    <2>7. round \in Nat /\ tick \in Nat /\ played.round \in Nat
        BY <1>0 DEF TypeInv, PlayedSoFar
    <2> HIDE DEF q, m, u, v
    <2>8. NotAfter(round, tick, u, v)
        BY <2>6, <2>7, NotAfterTransitive
    <2>9. NotAfter(played.round, Begin(played.item), u, v)
        BY <1>3, <2>6, <2>7, NotAfterTransitive
    <2>10. NotAfter(round, tick, Ticks' \div Length, Ticks' % Length)
        BY <2>8 DEF u, v
    <2>11. NotAfter(played.round, Begin(played.item), Ticks' \div Length, Ticks' % Length)
        BY <2>9 DEF u, v
    <2> QED BY <2>1, <2>2, <2>10, <2>11 DEF PlayedSoFar
<1>5. CASE GetNowAction
    <2>1. /\ ops' = ops /\ Length' = Length /\ Ticks' = Ticks /\ played' = played
          /\ tick' = Ticks % Length /\ round' = Ticks \div Length
        BY <1>5 DEF GetNowAction, Length, Ticks
    <2>2. Begin(played.item)' = Begin(played.item)
        BY <2>1 DEF Begin
    <2>3. NotAfter(round, tick, Ticks \div Length, Ticks % Length)'
        BY <1>1, <2>1 DEF NotAfter
    <2> QED BY <1>1, <2>1, <2>2, <2>3 DEF PlayedSoFar
<1>6. CASE Search
    <2>1. /\ ops' = ops /\ Length' = Length /\ Ticks' = Ticks /\ round' = round /\ tick' = tick
          /\ played' = played /\ pc' = pc
        BY <1>6 DEF Search, Length, Ticks
    <2>2. Begin(played.item)' = Begin(played.item)
        BY <2>1 DEF Begin
    <2> QED BY <2>1, <2>2 DEF PlayedSoFar
<1>7. CASE Return
    <2>1. /\ ops' = ops /\ Length' = Length /\ Ticks' = Ticks /\ round' = round /\ tick' = tick
          /\ pc = "search" /\ count = 0 /\ first' = first /\ pc' \in {"throw", "found"}
        BY <1>7 DEF Return, Length, Ticks
    <2>2. CASE played' = played
        <3>1. Begin(played.item)' = Begin(played.item)
            BY <2>1, <2>2 DEF Begin
        <3> QED BY <2>1, <2>2, <3>1 DEF PlayedSoFar
    <2>3. CASE played' # played
        <3>1. played' = [round |-> round, item |-> first] /\ pc' = "found"
            BY <1>7, <2>3 DEF Return
        <3>2. first \in 1..Len(ops)
            BY <1>2, <2>1, <3>1 DEF Inv, NowItem, TypeInv
        <3>3. NotAfter(round, Begin(first), round, tick)
            BY <2>1, FoundInOrder
        <3>4. Begin(first) \in Nat
            BY <1>2, <3>2 DEF Begin
        <3>5. NotAfter(round, Begin(first), Ticks \div Length, Ticks % Length)
            <4> DEFINE q == Ticks \div Length
                       m == Ticks % Length
            <4>1. q \in Nat /\ m \in Nat /\ NotAfter(round, tick, q, m)
                BY <1>1 DEF PlayedSoFar
            <4>2. round \in Nat /\ tick \in Nat
                BY <1>0 DEF TypeInv, PlayedSoFar
            <4> HIDE DEF q, m
            <4>3. NotAfter(round, Begin(first), q, m)
                BY <3>3, <3>4, <4>1, <4>2, NotAfterTransitive
            <4> QED BY <4>3 DEF q, m
        <3>6. Begin(played.item)' = Begin(first)
            BY <2>1, <3>1 DEF Begin
        <3> QED BY <2>1, <3>1, <3>2, <3>5, <3>6 DEF PlayedSoFar
    <2> QED BY <2>2, <2>3
<1>8. CASE UNCHANGED vars
    BY <1>8 DEF vars, PlayedSoFar, Begin, Length, Ticks
<1> QED BY <1>4, <1>5, <1>6, <1>7, <1>8 DEF Next

\* From one call to the next the items of an action come in their order, and an earlier
\* one comes back only in a later repetition (ActionModeManager.h:57-63), whatever time
\* passes between the calls and during them.
THEOREM ItemsInOrder == Spec => PlaysInOrder
<1>1. Inv /\ PlayedSoFar /\ [Next]_vars =>
        [played' # played =>
            \/ played'.round > played.round
            \/ played'.round = played.round /\ played'.item > played.item]_vars
    <2> SUFFICES ASSUME Inv, PlayedSoFar, Next, played' # played
                 PROVE  \/ played'.round > played.round
                        \/ played'.round = played.round /\ played'.item > played.item
        OBVIOUS
    <2>1. Return
        BY DEF Next, Elapse, GetNowAction, Search
    <2>2. /\ played' = [round |-> round, item |-> first]
          /\ pc = "search" /\ count = 0 /\ first # Len(ops) + 1
        BY <2>1 DEF Return
    <2>3. Len(ops) \in Nat \ {0}
        BY OpsFacts DEF Inv, TypeInv
    <2>4. first \in 1..Len(ops)
        BY <2>2, <2>3 DEF Inv, Halving, TypeInv
    <2>5. \/ played.round < round
          \/ played.round = round /\ played.item <= first
        BY <2>2, <2>4, FoundInOrder
    <2>6. played'.round = round /\ played'.item = first
        BY <2>2
    <2>7. played.round = round => played.item # first
        BY <2>2 DEF PlayedSoFar
    <2>8. /\ played.round \in Nat /\ round \in Nat /\ played.item \in Nat /\ first \in Nat
        BY <2>3, <2>4 DEF PlayedSoFar
    <2> QED BY <2>5, <2>6, <2>7, <2>8
<1> QED BY <1>1, InitOK, StepOK, PlayedInit, PlayedStep, PTL DEF Spec, PlaysInOrder
=============================================================================
