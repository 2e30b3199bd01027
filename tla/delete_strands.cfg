SPECIFICATION Spec
CONSTANTS
 Nobody = Nobody
 Scenarios <- MCHangup
INVARIANTS NoStrand
CHECK_DEADLOCK FALSE
