--------------------------- MODULE MCCredentials ---------------------------
EXTENDS Credentials
CONSTANTS r1, r2

MCScenarios == {{"crash"}, {"login"}, {"stuck"}, {"nofan"}, {"noadopt"}, {"rollback"}, {"race"}}

\* The runs are alike: it is enough to look at behaviours that launch r1 first.
\* Launches are asked nothing by fairness, so that liveness is not touched.
InOrder == phase'[r2] # "none" => phase[r1] # "none"
=============================================================================
