\* Two requests, sent at any time.
SPECIFICATION FairSpec
CONSTANT MaxRequest = 2
INVARIANTS TypeOK RepliesInOrder NotFoundVanished
PROPERTY Released
