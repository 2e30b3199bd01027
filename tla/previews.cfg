SPECIFICATION Spec
CONSTANTS
 r1 = r1
 r2 = r2
 web = web
 api = api
 p1 = p1
 p2 = p2
 None = None
 Runs = {r1, r2}
 Names = {web, api}
 Procs = {p1, p2}
 Casts <- MCCasts
 Scenarios <- MCScenarios
 MaxConns = 3
 MaxPerRun = 1
INVARIANTS TunnelOfHolder EndedHoldsNothing StoppedStays
PROPERTIES Settles
CHECK_DEADLOCK FALSE
