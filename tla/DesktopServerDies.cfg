SPECIFICATION Spec
INVARIANT ServerSurvives
CHECK_DEADLOCK FALSE
