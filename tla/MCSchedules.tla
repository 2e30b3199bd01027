----------------------------- MODULE MCSchedules -----------------------------
EXTENDS Schedules, TLC

\* The matches of every Schedule's cadence.
MCDue == [s \in Schedules |-> {2, 4}]

\* The reaper, whose strikes pause a Schedule, meets neither Run now nor a
\* restart nor the sweep: the product of the two is too large to search.
MCCasts == {{"runnow", "stop", "restart", "sweep", "edit"},
            {"reaper", "edit", "others", "stop"}}

Symmetry == Permutations(Runs)
===============================================================================
