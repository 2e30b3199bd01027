----------------------------- MODULE MCPreviews -----------------------------
EXTENDS Previews
CONSTANTS r1, r2, web, api, p1, p2

\* Two processes: of one run on one name, of two runs on one name, of one run on
\* two names.
MCCasts == {[p \in Procs |-> [run |-> r1, name |-> web]],
            [p \in Procs |-> [run |-> IF p = p1 THEN r1 ELSE r2, name |-> web]],
            [p \in Procs |-> [run |-> r1, name |-> IF p = p1 THEN web ELSE api]]}

MCScenarios == {{"drop", "stop", "signal"}, {"drop", "stop", "end", "kill"},
                {"crash", "drop", "stop"}, {"crash", "drop", "end"}}
=============================================================================
