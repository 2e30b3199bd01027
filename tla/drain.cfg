SPECIFICATION LiveSpec
CONSTANTS
 Runs = {r1}
 Issues = {i1}
 Labels = {m1}
 NoRun = NoRun
 NoName = NoName
 Actors = {"reaper","stop","discard"}
 Faults = {"stop","launch"}
PROPERTIES ZombieDrained DeadRunReaped
