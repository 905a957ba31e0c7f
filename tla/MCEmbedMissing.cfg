\* The answer for a file that is not there.
SPECIFICATION Spec
CONSTANT MaxRequest = 1
INVARIANT MissingNotFound
