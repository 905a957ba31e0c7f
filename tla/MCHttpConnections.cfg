\* Three connections, each with its races between request, response and deadline.
SPECIFICATION FairSpec
CONSTANT MaxConn = 3
INVARIANTS TypeOK DeadlineAhead OneAccept
PROPERTY Released
CHECK_DEADLOCK FALSE
