SPECIFICATION Spec
CONSTANTS
 Nobody = Nobody
 Scenarios <- MCScenarios
INVARIANTS IncogniGuarded
PROPERTIES ReadyGuarded CloneUndisturbed CallEnds
CHECK_DEADLOCK FALSE
