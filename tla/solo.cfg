SPECIFICATION Spec
CONSTANTS
 Runs = {r1}
 Issues = {i1}
 Labels = {m1}
 NoRun = NoRun
 NoName = NoName
 Actors = {"reaper","sweep","stop","deadsweep","restart"}
 Faults = {"launch","git","stop"}
PROPERTIES OutcomeFinal LaunchUntouched
