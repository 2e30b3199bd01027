SPECIFICATION Spec
CONSTANTS
 Pulls = {1,2}
 MaxFixAttempts = 1
 MaxEscalateAttempts = 1
 Scenarios <- MCScenarios
INVARIANTS OneWriter AttemptsBounded
PROPERTIES EscalationStands HandOffLast LoopEnds
CHECK_DEADLOCK FALSE
