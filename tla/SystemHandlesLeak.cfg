SPECIFICATION Spec
INVARIANT ReadFindsTheFile
CHECK_DEADLOCK FALSE
