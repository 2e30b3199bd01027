SPECIFICATION Spec
CONSTANTS
 Schedules = {s1}
 Runs = {r1,r2}
 NoSched = NoSched
 NoRun = NoRun
 Due <- MCDue
 MaxTime = 4
 Minute = 2
 Cap = 1
 Budget = 2
 PauseThreshold = 2
 Others = 1
 Casts <- MCCasts
SYMMETRY Symmetry
INVARIANTS OneLiveRun SlotFiredOnce EngineWithinCap
PROPERTIES LatestSlot
