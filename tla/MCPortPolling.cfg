\* One to three threads; a period of 3, a delay of 1, queries shorter and longer than the period.
SPECIFICATION Spec
CONSTANTS
    ThreadCounts = {1, 2, 3}
    QueryTimes = {2, 3, 4}
    Period = 3
    Delay = 1
    MaxTime = 16
INVARIANTS TypeOK Backlog Fresh ExitInTime CrashOnlyQueuedTick
PROPERTIES ResultsInOrder AssignedOnWeb
CHECK_DEADLOCK FALSE
