SPECIFICATION Spec
CONSTANTS
 None = None
 Cadences <- MCInputs
 Zones <- MCZones
 Starts <- MCStarts
 MaxFirings = 3
INVARIANTS OncePerMinute
PROPERTIES NothingSkipped
CHECK_DEADLOCK FALSE
