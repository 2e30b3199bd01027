SPECIFICATION Spec
CONSTANTS
 Runs = {r1,r2}
 Issues = {i1}
 Labels = {}
 NoRun = NoRun
 NoName = NoName
 Actors = {"reaper","stop","restart"}
 Faults = {"launch"}
SYMMETRY Symmetry
INVARIANTS ClaimExclusive ClaimHeld SessionOwner OneAutoRun
PROPERTIES ReapedAfterLaunch NoWorkLost KeepsLedger
