CONSTANT MaxAmount = 3
SPECIFICATION Spec
INVARIANT NoGarbageStored
CHECK_DEADLOCK FALSE
