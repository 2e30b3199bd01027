SPECIFICATION Spec
CONSTANTS
 r1 = r1
 r2 = r2
 None = None
 Host = Host
 Runs = {r1, r2}
 MaxGeneration = 3
 Scenarios <- MCScenarios
INVARIANTS NoGhostHome
PROPERTIES FamilyKept AdoptNoRegress MasterHeals
ACTION_CONSTRAINT InOrder
CHECK_DEADLOCK FALSE
