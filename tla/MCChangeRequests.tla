-------------------------- MODULE MCChangeRequests --------------------------
EXTENDS ChangeRequests
CONSTANTS h1, c1, c2, q1, q2

\* What meets: a second change request of the head, filed while the first is open
\* or after it; faults and restarts with a base that moves.
MCScenarios == {{"again"}, {"crash", "outside"}, {"fail"}, {"discard"}, {"resolve"}}
=============================================================================
