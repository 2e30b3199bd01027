SPECIFICATION Spec
CONSTANTS
 h1 = h1
 c1 = c1
 c2 = c2
 q1 = q1
 q2 = q2
 None = None
 Heads = {h1}
 CRs = {c1, c2}
 Calls = {q1, q2}
 Scenarios <- MCScenarios
 MaxCommits = 1
INVARIANT UnrecordedKeepsHead
CHECK_DEADLOCK FALSE
