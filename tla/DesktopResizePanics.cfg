SPECIFICATION Spec
INVARIANT FramesStayInside
CHECK_DEADLOCK FALSE
