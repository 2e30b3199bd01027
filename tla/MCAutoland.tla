----------------------------- MODULE MCAutoland -----------------------------
EXTENDS Autoland

\* Combinations of gestures that meet: a marker deleted and a re-arm, a pull
\* closed and its issue claimed again, a review and a Stop; a crash and a record
\* that cannot be written.
MCScenarios ==
  {{"unmark", "rearm"}, {"land", "requeue"}, {"review", "stop"}, {"crash", "unrecorded"}}
=============================================================================
