\* Up to four items share or divide up to four ticks of two milliseconds; two rounds and more.
SPECIFICATION Spec
CONSTANTS
    MaxItems = 4
    MaxTick = 4
    Action <- Actions
    MsPerTick = 2
    MaxTime = 17
INVARIANTS NeverIntoThere NowItem
PROPERTY PlaysInOrder
