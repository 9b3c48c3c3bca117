SPECIFICATION Spec
CONSTANT MaxChunks = 4
INVARIANT NoStaleClosure
CHECK_DEADLOCK FALSE
