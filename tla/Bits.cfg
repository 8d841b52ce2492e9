CONSTANT Width = 7
SPECIFICATION Spec
CHECK_DEADLOCK FALSE
INVARIANT MatchesReference
