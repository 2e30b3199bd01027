---------------------------- MODULE SchedulesProofs ----------------------------
(***************************************************************************)
(* For any number of Schedules, runs, firings and other sessions, any cap, *)
(* and whoever takes part: one live run per Schedule, one run per match of *)
(* the cadence, the latest match only, and no launch of the engine above   *)
(* the cap.                                                                *)
(*                                                                         *)
(* The engine lock and spawnMu carry it: what a launch checked under them  *)
(* stays true until it has its row, and its session.  The memos never run  *)
(* ahead of the clock, and what was launched lies behind them.             *)
(***************************************************************************)
EXTENDS Schedules, WellFoundedInduction, FiniteSetTheorems, TLAPS

Schedule0 == Schedules \cup {NoSched}
Run0 == Runs \cup {NoRun}
Locked == {"row", "overlap", "cap", "label", "claim", "spawn"}
Pass == [pc : {"idle", "list", "gather"} \cup Locked, live : Nat, at : Nat,
         todo : SUBSET Schedules, cands : SUBSET Schedules, extra : Schedule0,
         cand : Schedule0, onDemand : BOOLEAN, run : Run0]
Reap == [pc : {"idle", "next", "claimed", "pause"}, at : Nat, todo : SUBSET Runs,
         run : Run0, sched : Schedule0]

TypedClock == now \in Times /\ engineStart \in 1..now
TypedRows ==
  /\ rows \subseteq Schedules /\ enabled \subseteq rows /\ paused \subseteq rows
  /\ strikes \in [Schedules -> Nat]
TypedRuns ==
  /\ link \in [Runs -> Schedule0] /\ slot \in [Runs -> Nat] /\ fired \in [Runs -> 0..now]
  /\ outcome \in [Runs -> {"none", "active"} \cup Ended]
  /\ alive \subseteq Runs /\ IsFiniteSet(alive) /\ parked \subseteq Runs
TypedOthers ==
  /\ others \in 0..Others /\ manuals \in Nat /\ starts \in Nat /\ starts + manuals <= Others
TypedThreads == pass \in Pass /\ reaper \in Reap /\ runNow \in Schedule0

\* The passes read a clock of this incarnation, and have walked past nothing that
\* a launch of theirs does not know.
PassTimes ==
  /\ pass.at <= now
  /\ pass.todo # {} => /\ pass.pc = "gather" /\ pass.at >= engineStart
                       /\ \A r \in Runs : slot[r] <= pass.at
  /\ pass.pc = "claim" => pass.at >= 1 /\ \A s \in Schedules : checked[s] <= pass.at

\* The launch under way has a Schedule, and a run from its row to its session.
Launching ==
  /\ pass.pc \in Locked => pass.cand \in Schedules
  /\ pass.run # NoRun <=> pass.pc = "spawn"
  /\ reaper.pc = "claimed" => reaper.run \in Runs
  /\ reaper.pc = "pause" => reaper.sched \in Schedules

\* What is owed is the last match that was walked over, of this incarnation.
Owing ==
  /\ checked \in [Schedules -> 0..now] /\ pending \in [Schedules -> Nat]
  /\ \A s \in Schedules :
       /\ pending[s] \in {NoTime} \cup Due[s] /\ pending[s] <= checked[s]
       /\ checked[s] # NoTime => checked[s] >= engineStart
       /\ pending[s] # NoTime => /\ pending[s] > engineStart
                                 /\ \A t \in Due[s] : t <= checked[s] => t <= pending[s]

\* What was launched lies behind the walk, and behind what is owed, but for the
\* launch that is between its row and its session.
underWay(r, s) == pass.pc = "spawn" /\ pass.run = r /\ pass.cand = s /\ ~pass.onDemand
Behind ==
  \A r \in Runs :
    /\ outcome[r] = "none" <=> fired[r] = NoTime
    /\ slot[r] <= fired[r]
    /\ \A s \in Schedules : link[r] = s =>
         /\ checked[s] # NoTime => slot[r] <= checked[s]
         /\ (pending[s] # NoTime /\ slot[r] # NoTime) => slot[r] < pending[s] \/ underWay(r, s)

\* One live run, and none of the candidate once that was checked.
Single ==
  /\ \A q, r \in Runs : (outcome[q] = "active" /\ outcome[r] = "active" /\ link[q] = link[r]
                         /\ link[q] # NoSched) => q = r
  /\ pass.pc \in {"cap", "label", "claim"} =>
       \A r \in Runs : outcome[r] = "active" => link[r] # pass.cand

\* Once the cap was checked, there is room until the session is there.
Room ==
  /\ Cardinality(alive) + others <= Cap
  /\ pass.pc \in {"label", "claim", "spawn"} => Cardinality(alive) + others < Cap

IInv == /\ TypedClock /\ TypedRows /\ TypedRuns /\ TypedOthers /\ TypedThreads
        /\ PassTimes /\ Launching /\ Owing /\ Behind /\ Single /\ Room /\ SlotFiredOnce

USE DEF Schedule0, Run0, Locked, Pass, Reap, NoTime, Times, Ended

LEMMA InitKeeps == Init => IInv
<1> SUFFICES ASSUME Init PROVE IInv OBVIOUS
<1> USE DEF Init, idlePass, idleReaper
<1>1. TypedClock /\ TypedRows /\ TypedRuns /\ TypedOthers
  BY TimeAssumption, CapAssumption, FS_EmptySet
  DEF TypedClock, TypedRows, TypedRuns, TypedOthers
<1>2. TypedThreads /\ PassTimes /\ Launching
  BY DEF TypedThreads, PassTimes, Launching
<1>3. Owing /\ Behind /\ Single /\ SlotFiredOnce BY DEF Owing, Behind, Single, SlotFiredOnce
<1>4. Room BY CapAssumption, FS_EmptySet DEF Room
<1> QED BY <1>1, <1>2, <1>3, <1>4 DEF IInv

LEMMA NatOthers == Others \in Nat /\ Cap \in Nat /\ MaxTime \in Nat
BY TimeAssumption, CapAssumption

\* Of fewer sessions, there are fewer.
LEMMA Fewer ==
  ASSUME IInv, NEW A \in SUBSET alive
  PROVE  /\ IsFiniteSet(A) /\ Cardinality(A) \in Nat /\ Cardinality(A) <= Cardinality(alive)
         /\ Cardinality(alive) \in Nat
BY FS_Subset, FS_CardinalityType DEF IInv, TypedRuns

(***************************************************************************)
(* Quiet steps: no launch, no memo, and time stands still.                 *)
(***************************************************************************)
LEMMA QuietKeeps ==
  ASSUME IInv, UNCHANGED <<now, engineStart, memoVars, slot, fired, pass>>,
         TypedRows', reaper' \in Reap, runNow' \in Schedule0,
         reaper'.pc = "claimed" => reaper'.run \in Runs,
         reaper'.pc = "pause" => reaper'.sched \in Schedules,
         link' \in [Runs -> Schedule0], outcome' \in [Runs -> {"none", "active"} \cup Ended],
         \A r \in Runs : link'[r] \in {link[r], NoSched},
         \A r \in Runs : outcome'[r] = outcome[r] \/ (outcome[r] = "active" /\ outcome'[r] \in Ended),
         alive' \subseteq alive, parked' \subseteq Runs,
         TypedOthers', others' <= others
  PROVE  IInv'
<1> USE DEF memoVars
<1>1. TypedClock' /\ TypedThreads' /\ PassTimes' /\ Launching'
  BY DEF IInv, TypedClock, TypedThreads, PassTimes, Launching
<1>2. TypedRuns' BY Fewer DEF IInv, TypedRuns
<1>3. Owing' BY DEF IInv, Owing
<1>4. Behind'
  <2>1. \A r \in Runs, s \in Schedules : link'[r] = s => link[r] = s BY NoSchedIsNoSched
  <2> QED BY <2>1 DEF IInv, Behind, underWay
<1>5. Single'
  <2>1. \A r \in Runs : outcome'[r] = "active" => outcome[r] = "active" OBVIOUS
  <2>2. pass.pc \in {"cap", "label", "claim"} => pass.cand # NoSched
    BY NoSchedIsNoSched DEF IInv, Launching
  <2> QED BY <2>1, <2>2 DEF IInv, Single
<1>6. Room' BY Fewer, NatOthers DEF IInv, Room, TypedOthers
<1>7. SlotFiredOnce' BY DEF IInv, SlotFiredOnce
<1> QED BY <1>1, <1>2, <1>3, <1>4, <1>5, <1>6, <1>7, <1>1 DEF IInv

\* What a step that leaves these alone inherits.
LEMMA SameRows == ASSUME IInv, UNCHANGED rowVars PROVE TypedRows'
BY DEF IInv, TypedRows, rowVars

LEMMA SameOthers == ASSUME IInv, UNCHANGED otherVars PROVE TypedOthers' /\ others' <= others
BY DEF IInv, TypedOthers, otherVars

LEMMA SameRuns ==
  ASSUME IInv, UNCHANGED <<link, outcome, alive, parked>>
  PROVE  /\ link' \in [Runs -> Schedule0] /\ outcome' \in [Runs -> {"none", "active"} \cup Ended]
         /\ \A r \in Runs : link'[r] \in {link[r], NoSched}
         /\ \A r \in Runs : outcome'[r] = outcome[r]
         /\ alive' \subseteq alive /\ parked' \subseteq Runs
BY DEF IInv, TypedRuns

LEMMA SameThreads ==
  ASSUME IInv
  PROVE  /\ reaper \in Reap /\ runNow \in Schedule0 /\ pass \in Pass
         /\ reaper.pc = "claimed" => reaper.run \in Runs
         /\ reaper.pc = "pause" => reaper.sched \in Schedules
BY DEF IInv, TypedThreads, Launching

LEMMA OperatorKeeps == ASSUME IInv, OperatorNext PROVE IInv'
<1> USE DEF timeVars, runVars
<1>1. ASSUME NEW s \in Schedules, RunNowRequest(s) PROVE IInv'
  <2>1. runNow' \in Schedule0 BY <1>1 DEF RunNowRequest
  <2> QED BY <1>1, <2>1, SameRows, SameOthers, SameRuns, SameThreads, QuietKeeps
          DEF RunNowRequest
<1>2. ASSUME NEW s \in Schedules, SetEnabled(s) \/ ReenableSchedule(s) PROVE IInv'
  <2>1. TypedRows' BY <1>2 DEF SetEnabled, ReenableSchedule, IInv, TypedRows
  <2>2. UNCHANGED <<timeVars, memoVars, runVars, otherVars, runNow, pass, reaper>>
    BY <1>2 DEF SetEnabled, ReenableSchedule
  <2> QED BY <2>1, <2>2, SameOthers, SameRuns, SameThreads, QuietKeeps
<1>3. ASSUME NEW s \in Schedules, DeleteSchedule(s) PROVE IInv'
  <2>1. TypedRows' BY <1>3 DEF DeleteSchedule, IInv, TypedRows
  <2>2. /\ link' \in [Runs -> Schedule0]
        /\ \A r \in Runs : link'[r] \in {link[r], NoSched}
    BY <1>3 DEF DeleteSchedule, IInv, TypedRuns
  <2>3. UNCHANGED <<timeVars, memoVars, slot, fired, outcome, alive, parked, otherVars, runNow,
                    pass, reaper>>
    BY <1>3 DEF DeleteSchedule
  <2>4. outcome \in [Runs -> {"none", "active"} \cup Ended] /\ parked \subseteq Runs
    BY DEF IInv, TypedRuns
  <2> QED BY <2>1, <2>2, <2>3, <2>4, SameOthers, SameThreads, QuietKeeps
<1>4. ASSUME NEW r \in Runs, StopRun(r) PROVE IInv'
  <2>1. /\ outcome' \in [Runs -> {"none", "active"} \cup Ended] /\ alive' \subseteq alive
        /\ \A q \in Runs : outcome'[q] = outcome[q] \/ (outcome[q] = "active" /\ outcome'[q] \in Ended)
    BY <1>4 DEF StopRun, IInv, TypedRuns
  <2>2. UNCHANGED <<timeVars, rowVars, memoVars, link, slot, fired, parked, otherVars, runNow,
                    pass, reaper>>
    BY <1>4 DEF StopRun
  <2>3. link \in [Runs -> Schedule0] /\ parked \subseteq Runs BY DEF IInv, TypedRuns
  <2> QED BY <2>1, <2>2, <2>3, SameRows, SameOthers, SameThreads, QuietKeeps
<1>5. CASE StartCheck \/ StartSpawn \/ StartFails
  <2>1. TypedOthers' /\ others' <= others
    BY <1>5, NatOthers DEF StartCheck, StartSpawn, StartFails, IInv, TypedOthers
  <2>2. UNCHANGED <<timeVars, rowVars, memoVars, runVars, runNow, pass, reaper>>
    BY <1>5 DEF StartCheck, StartSpawn, StartFails
  <2> QED BY <2>1, <2>2, SameRows, SameRuns, SameThreads, QuietKeeps
<1> QED BY <1>1, <1>2, <1>3, <1>4, <1>5 DEF OperatorNext

LEMMA ReaperKeeps == ASSUME IInv, ReaperNext PROVE IInv'
<1> USE DEF timeVars, runVars
<1>1. CASE ReapList \/ ReapDone \/ \E r \in Runs : ReapSkip(r)
  <2>1. /\ reaper' \in Reap /\ reaper'.pc \notin {"claimed", "pause"}
        /\ UNCHANGED <<timeVars, rowVars, memoVars, runVars, otherVars, runNow, pass>>
    <3>1. CASE ReapList
      <4> DEFINE T == {r \in Runs : outcome[r] = "active"}
      <4>1. T \subseteq Runs /\ now \in Nat BY TimeAssumption DEF IInv, TypedClock
      <4>2. reaper' = [idleReaper EXCEPT !.pc = "next", !.at = now, !.todo = T]
        BY <3>1 DEF ReapList
      <4>3. idleReaper \in Reap BY DEF idleReaper
      <4> HIDE DEF T
      <4>4. reaper' \in Reap /\ reaper'.pc = "next" BY <4>1, <4>2, <4>3
      <4> QED BY <3>1, <4>4 DEF ReapList
    <3>2. CASE ReapDone BY <3>2 DEF ReapDone, idleReaper
    <3>3. ASSUME NEW r \in Runs, ReapSkip(r)
          PROVE  reaper' \in Reap /\ reaper'.pc \notin {"claimed", "pause"}
      BY <3>3, SameThreads DEF ReapSkip
    <3> QED BY <1>1, <3>1, <3>2, <3>3 DEF ReapList, ReapDone, ReapSkip
  <2> QED BY <2>1, SameRows, SameOthers, SameRuns, SameThreads, QuietKeeps
<1>2. ASSUME NEW r \in Runs, ReapClaim(r) PROVE IInv'
  <2>1. /\ outcome' \in [Runs -> {"none", "active"} \cup Ended]
        /\ \A q \in Runs : outcome'[q] = outcome[q] \/ (outcome[q] = "active" /\ outcome'[q] \in Ended)
    BY <1>2 DEF ReapClaim, IInv, TypedRuns
  <2>2. reaper' \in Reap /\ reaper'.pc = "claimed" /\ reaper'.run = r
    BY <1>2, SameThreads DEF ReapClaim
  <2>3. UNCHANGED <<timeVars, rowVars, memoVars, link, slot, fired, alive, parked, otherVars,
                    runNow, pass>>
    BY <1>2 DEF ReapClaim
  <2>4. link \in [Runs -> Schedule0] /\ parked \subseteq Runs BY DEF IInv, TypedRuns
  <2> QED BY <2>1, <2>2, <2>3, <2>4, SameRows, SameOthers, SameThreads, QuietKeeps
<1>3. CASE ReapRun
  <2>1. reaper.run \in Runs /\ link[reaper.run] \in Schedule0
    BY <1>3, SameThreads DEF ReapRun, IInv, TypedRuns
  <2>2. TypedRows'
    <3>1. rows' = rows /\ enabled' = enabled /\ paused' = paused BY <1>3 DEF ReapRun
    <3>2. strikes' \in [Schedules -> Nat] BY <1>3, <2>1 DEF ReapRun, IInv, TypedRows
    <3> QED BY <3>1, <3>2 DEF IInv, TypedRows
  <2>3. /\ reaper' \in Reap /\ reaper'.pc # "claimed"
        /\ reaper'.pc = "pause" => reaper'.sched \in Schedules
    BY <1>3, <2>1, SameThreads DEF ReapRun, reaped
  <2>4. /\ UNCHANGED <<timeVars, memoVars, link, slot, fired, outcome, otherVars, runNow, pass>>
        /\ alive' \subseteq alive /\ parked' \subseteq Runs
    BY <1>3 DEF ReapRun, IInv, TypedRuns
  <2>5. link \in [Runs -> Schedule0] /\ outcome \in [Runs -> {"none", "active"} \cup Ended]
    BY DEF IInv, TypedRuns
  <2> QED BY <2>2, <2>3, <2>4, <2>5, SameOthers, SameThreads, QuietKeeps
<1>4. CASE ReapPause
  <2>1. TypedRows' BY <1>4, SameThreads DEF ReapPause, PauseScheduleIfStruck, IInv, TypedRows
  <2>2. reaper' \in Reap /\ reaper'.pc = "next" BY <1>4, SameThreads DEF ReapPause, reaped
  <2>3. UNCHANGED <<timeVars, memoVars, runVars, otherVars, runNow, pass>> BY <1>4 DEF ReapPause
  <2> QED BY <2>1, <2>2, <2>3, SameOthers, SameRuns, SameThreads, QuietKeeps
<1>5. ASSUME NEW r \in Runs, Drain(r) PROVE IInv'
  <2>1. /\ UNCHANGED <<timeVars, rowVars, memoVars, link, slot, fired, outcome, parked, otherVars,
                       runNow, pass, reaper>>
        /\ alive' \subseteq alive
    BY <1>5 DEF Drain
  <2>2. link \in [Runs -> Schedule0] /\ outcome \in [Runs -> {"none", "active"} \cup Ended]
        /\ parked \subseteq Runs
    BY DEF IInv, TypedRuns
  <2> QED BY <2>1, <2>2, SameRows, SameOthers, SameThreads, QuietKeeps
<1> QED BY <1>1, <1>2, <1>3, <1>4, <1>5 DEF ReaperNext

(***************************************************************************)
(* The rest of the world.                                                  *)
(***************************************************************************)
LEMMA TickKeeps == ASSUME IInv, Tick PROVE IInv'
<1>1. now \in Nat /\ now' = now + 1 /\ now' \in Times BY TimeAssumption DEF Tick, IInv, TypedClock
<1>2. UNCHANGED <<engineStart, rows, enabled, paused, strikes, pending, checked, link, slot, fired,
                  outcome, alive, parked, others, manuals, starts, runNow, pass, reaper>>
  BY DEF Tick, rowVars, memoVars, runVars, otherVars
<1>3. TypedClock' BY <1>1, <1>2 DEF IInv, TypedClock
<1>4. TypedRows' /\ TypedOthers' /\ TypedThreads' /\ Launching'
  BY <1>2 DEF IInv, TypedRows, TypedOthers, TypedThreads, Launching
<1>5. TypedRuns' BY <1>1, <1>2 DEF IInv, TypedRuns
<1>6. PassTimes' BY <1>1, <1>2 DEF IInv, PassTimes, TypedThreads
<1>7. Owing' BY <1>1, <1>2 DEF IInv, Owing
<1>8. Behind' /\ Single' /\ Room' /\ SlotFiredOnce'
  BY <1>2 DEF IInv, Behind, underWay, Single, Room, SlotFiredOnce
<1> QED BY <1>3, <1>4, <1>5, <1>6, <1>7, <1>8 DEF IInv

LEMMA OtherLaunchKeeps == ASSUME IInv, OtherLaunch PROVE IInv'
<1>1. UNCHANGED <<now, engineStart, rows, enabled, paused, strikes, pending, checked, link, slot, fired,
                  outcome, alive, parked, manuals, starts, runNow, reaper>>
  BY DEF OtherLaunch, timeVars, rowVars, memoVars, runVars
<1>2. /\ pass' \in Pass /\ pass'.pc = pass.pc /\ pass.pc \notin Locked /\ pass'.at = pass.at
      /\ pass'.todo = pass.todo /\ pass'.cand = pass.cand /\ pass'.run = pass.run
  BY SameThreads DEF OtherLaunch, MuHeldByPass
<1>3. /\ others \in Nat /\ others' = others + 1 /\ others' \in 0..Others
      /\ Cardinality(alive) + others' <= Cap
  <2>1. Cardinality(alive) \in Nat BY Fewer
  <2>2. others \in Nat /\ manuals \in Nat BY NatOthers DEF IInv, TypedOthers
  <2> QED BY <2>1, <2>2, NatOthers DEF OtherLaunch, LiveInstanceCount
<1>4. TypedClock' /\ TypedRows' /\ TypedRuns'
  BY <1>1 DEF IInv, TypedClock, TypedRows, TypedRuns
<1>5. TypedOthers' /\ TypedThreads' /\ Launching'
  BY <1>1, <1>2, <1>3 DEF IInv, TypedOthers, TypedThreads, Launching
<1>6. PassTimes' /\ Owing' BY <1>1, <1>2 DEF IInv, PassTimes, Owing
<1>7. Behind' /\ SlotFiredOnce' /\ Single'
  BY <1>1, <1>2 DEF IInv, Behind, underWay, SlotFiredOnce, Single
<1>8. Room' BY <1>1, <1>2, <1>3 DEF Room
<1> QED BY <1>4, <1>5, <1>6, <1>7, <1>8 DEF IInv

LEMMA RestartKeeps == ASSUME IInv, Restart PROVE IInv'
<1>1. /\ now \in Nat /\ now' = now + 1 /\ now' \in Times /\ engineStart' = now'
  BY TimeAssumption DEF Restart, IInv, TypedClock
<1>2. UNCHANGED <<rows, enabled, paused, strikes, link, slot, fired>> BY DEF Restart, rowVars
<1>3. /\ pass' = idlePass /\ reaper' = idleReaper /\ runNow' = NoSched /\ starts' = 0
      /\ pending' = [s \in Schedules |-> NoTime] /\ checked' = [s \in Schedules |-> NoTime]
  BY DEF Restart
<1>4. /\ outcome' \in [Runs -> {"none", "active"} \cup Ended]
      /\ \A r \in Runs : outcome'[r] = outcome[r] \/ (outcome[r] = "active" /\ outcome'[r] \in Ended)
  BY DEF Restart, IInv, TypedRuns
<1>5. alive' \subseteq alive /\ parked' \subseteq Runs BY DEF Restart, IInv, TypedRuns
<1>6. TypedOthers' /\ others' <= others BY NatOthers DEF Restart, IInv, TypedOthers
<1>7. TypedClock' BY <1>1 DEF TypedClock
<1>8. TypedRows' BY <1>2 DEF IInv, TypedRows
<1>9. TypedRuns' BY <1>1, <1>2, <1>4, <1>5, Fewer DEF IInv, TypedRuns
<1>10. TypedThreads' /\ PassTimes' /\ Launching' /\ Owing'
  <2> USE <1>1, <1>3 DEF idlePass, idleReaper
  <2>1. TypedThreads' BY DEF TypedThreads
  <2>2. PassTimes' BY DEF PassTimes
  <2>3. Launching' BY DEF Launching
  <2>4. Owing' BY DEF Owing
  <2> QED BY <2>1, <2>2, <2>3, <2>4
<1>11. Behind' BY <1>2, <1>3, <1>4 DEF IInv, Behind
<1>12. Single'
  <2>1. \A r \in Runs : outcome'[r] = "active" => outcome[r] = "active" BY <1>4
  <2> QED BY <1>2, <1>3, <2>1 DEF IInv, Single, idlePass
<1>13. Room' BY <1>3, <1>5, <1>6, Fewer, NatOthers DEF IInv, Room, TypedOthers, idlePass
<1>14. SlotFiredOnce' BY <1>2 DEF IInv, SlotFiredOnce
<1> QED BY <1>6, <1>7, <1>8, <1>9, <1>10, <1>11, <1>12, <1>13, <1>14 DEF IInv

LEMMA WorldKeeps == ASSUME IInv, WorldNext PROVE IInv'
<1>1. ASSUME NEW r \in Runs, SessionExits(r) \/ BranchGone(r) PROVE IInv'
  <2>1. /\ UNCHANGED <<timeVars, rowVars, memoVars, link, slot, fired, outcome, otherVars,
                       runNow, pass, reaper>>
        /\ alive' \subseteq alive /\ parked' \subseteq Runs
    BY <1>1 DEF SessionExits, BranchGone, IInv, TypedRuns
  <2>2. link \in [Runs -> Schedule0] /\ outcome \in [Runs -> {"none", "active"} \cup Ended]
    BY DEF IInv, TypedRuns
  <2> QED BY <2>1, <2>2, SameRows, SameOthers, SameThreads, QuietKeeps DEF timeVars
<1>2. CASE OtherExits
  <2>1. TypedOthers' /\ others' <= others BY <1>2, NatOthers DEF OtherExits, IInv, TypedOthers
  <2>2. UNCHANGED <<timeVars, rowVars, memoVars, runVars, starts, runNow, pass, reaper>>
    BY <1>2 DEF OtherExits
  <2> QED BY <2>1, <2>2, SameRows, SameRuns, SameThreads, QuietKeeps DEF timeVars, runVars
<1> QED BY <1>1, <1>2, TickKeeps, OtherLaunchKeeps, RestartKeeps DEF WorldNext

(***************************************************************************)
(* The spawn pass, but for what it gathers, launches and gives up.         *)
(***************************************************************************)
LEMMA PassMoves ==
  ASSUME IInv, pass' \in Pass, runNow' \in Schedule0,
         UNCHANGED <<now, engineStart, rowVars, runVars, otherVars, reaper>>,
         pass.pc # "spawn", pass'.pc # "spawn", pass'.run = NoRun,
         pending' \in [Schedules -> Nat], checked' \in [Schedules -> 0..now],
         \A s \in Schedules : /\ pending'[s] \in {pending[s], NoTime}
                             /\ \/ checked'[s] = checked[s]
                                \/ checked'[s] = NoTime /\ pending'[s] = NoTime,
         pass'.at <= now,
         pass'.todo # {} => /\ pass'.pc = "gather" /\ pass'.at >= engineStart
                            /\ \A r \in Runs : slot[r] <= pass'.at,
         pass'.pc = "claim" => pass'.at >= 1 /\ \A s \in Schedules : checked'[s] <= pass'.at,
         pass'.pc \in Locked => pass'.cand \in Schedules,
         pass'.pc \in {"cap", "label", "claim"} =>
           \A r \in Runs : outcome[r] = "active" => link[r] # pass'.cand,
         pass'.pc \in {"label", "claim"} => Cardinality(alive) + others < Cap
  PROVE  IInv'
<1> USE DEF rowVars, runVars, otherVars
<1>1. TypedClock' /\ TypedRows' /\ TypedRuns' /\ TypedOthers'
  BY DEF IInv, TypedClock, TypedRows, TypedRuns, TypedOthers
<1>2. TypedThreads' /\ Launching' BY DEF IInv, TypedThreads, Launching
<1>3. PassTimes' BY DEF IInv, PassTimes
<1>4. Owing' BY DEF IInv, Owing
<1>5. Behind' BY DEF IInv, Behind, underWay
<1>6. Single' /\ Room' /\ SlotFiredOnce' BY DEF IInv, Single, Room, SlotFiredOnce
<1> QED BY <1>1, <1>2, <1>3, <1>4, <1>5, <1>6 DEF IInv

LEMMA SameMemos ==
  ASSUME IInv
  PROVE  /\ pending \in [Schedules -> Nat] /\ checked \in [Schedules -> 0..now]
         /\ now \in Nat /\ engineStart \in Nat /\ engineStart <= now /\ now >= 1
         /\ \A r \in Runs : slot[r] \in Nat /\ slot[r] <= now
BY TimeAssumption DEF IInv, Owing, TypedClock, TypedRuns, Behind

\* On to the next candidate, the firing spent or kept.
LEMMA NextCandidateKeeps ==
  ASSUME IInv, pass.pc \in Locked \ {"spawn"}, Consumed \/ Kept,
         NEW l \in Nat, pass' = [nextCandidate EXCEPT !.live = l],
         UNCHANGED <<timeVars, rowVars, checked, runVars, otherVars, runNow, reaper>>
  PROVE  IInv'
<1>1. /\ pass' \in Pass /\ pass'.pc = "gather" /\ pass'.at = NoTime /\ pass'.todo = pass.todo
      /\ pass'.run = NoRun
  BY SameThreads DEF nextCandidate
<1>2. pass.todo = {} BY DEF IInv, PassTimes
<1>3. /\ pending' \in [Schedules -> Nat]
      /\ \A s \in Schedules : pending'[s] \in {pending[s], NoTime}
  BY SameMemos DEF Consumed, Kept
<1> QED BY <1>1, <1>2, <1>3, SameMemos, SameThreads, PassMoves DEF timeVars

LEMMA MaxNat == ASSUME NEW a \in Nat, NEW b \in Nat PROVE Max({a, b}) \in Nat
<1>1. \E x \in {a, b} : \A y \in {a, b} : x >= y OBVIOUS
<1> QED BY <1>1 DEF Max

LEMMA NextCandidateSame == ASSUME IInv PROVE nextCandidate = [nextCandidate EXCEPT !.live = pass.live]
BY SameThreads DEF nextCandidate

LEMMA PassKeeps ==
  ASSUME IInv,
         \/ \E s \in Schedule0 : PassStart(s)
         \/ \E s \in Schedules : PassPick(s)
         \/ PassList \/ PassRow \/ PassOverlap \/ PassCap \/ PassLabel
         \/ PassClaimFails \/ PassDone \/ PassAborts
  PROVE  IInv'
<1> USE DEF timeVars, memoVars
<1>1. ASSUME NEW s \in Schedule0, PassStart(s) PROVE IInv'
  <2>1. LiveInstanceCount \in Nat
    BY Fewer, NatOthers DEF LiveInstanceCount, IInv, TypedOthers
  <2>2. /\ pass' \in Pass /\ pass'.pc = "list" /\ pass'.at = NoTime /\ pass'.todo = {}
        /\ pass'.run = NoRun
    BY <1>1, <2>1 DEF PassStart, idlePass
  <2>3. /\ runNow' \in Schedule0 /\ pass.pc = "idle"
        /\ UNCHANGED <<timeVars, rowVars, memoVars, runVars, otherVars, reaper>>
    BY <1>1, SameThreads DEF PassStart
  <2> QED BY <2>2, <2>3, SameMemos, PassMoves
<1>2. ASSUME NEW s \in Schedules, PassPick(s) PROVE IInv'
  <2>1. pass.run = NoRun BY <1>2 DEF PassPick, IInv, Launching
  <2>2. /\ pass' \in Pass /\ pass'.pc \in {"gather", "row"} /\ pass'.at = pass.at
        /\ pass'.todo = {} /\ pass'.run = NoRun /\ (pass'.pc = "row" => pass'.cand = s)
    BY <1>2, <2>1, SameThreads DEF PassPick
  <2>3. /\ pass.at <= now /\ pass.pc = "gather"
        /\ UNCHANGED <<timeVars, rowVars, memoVars, runVars, otherVars, runNow, reaper>>
    BY <1>2 DEF PassPick, IInv, PassTimes
  <2> QED BY <2>2, <2>3, SameThreads, SameMemos, PassMoves
<1>3. CASE PassList
  <2>1. pass.run = NoRun /\ pass.todo = {} /\ pass.at <= now
    BY <1>3 DEF PassList, IInv, Launching, PassTimes
  <2>2. /\ pass' \in Pass /\ pass'.pc = "gather" /\ pass'.run = NoRun
        /\ (pass'.at = now \/ (pass'.at = pass.at /\ pass'.todo = {}))
    <3>1. EnabledSchedules \in SUBSET Schedules BY DEF EnabledSchedules, IInv, TypedRows
    <3> QED BY <1>3, <2>1, <3>1, SameThreads, SameMemos DEF PassList
  <2>3. /\ pending' \in [Schedules -> Nat] /\ checked' \in [Schedules -> 0..now]
        /\ \A s \in Schedules : /\ pending'[s] \in {pending[s], NoTime}
                                /\ \/ checked'[s] = checked[s]
                                   \/ checked'[s] = NoTime /\ pending'[s] = NoTime
    BY <1>3, SameMemos DEF PassList
  <2> QED BY <1>3, <2>1, <2>2, <2>3, SameThreads, SameMemos, PassMoves DEF PassList
<1>4. CASE PassRow
  <2>1. CASE pass' = nextCandidate
    BY <1>4, <2>1, NextCandidateKeeps, NextCandidateSame, SameThreads DEF PassRow
  <2>2. CASE Kept /\ pass' = [pass EXCEPT !.pc = "overlap"]
    <3>1. /\ pass' \in Pass /\ pass'.pc = "overlap" /\ pass'.at = pass.at /\ pass'.todo = pass.todo
          /\ pass'.run = pass.run /\ pass'.cand = pass.cand
      BY <2>2, SameThreads
    <3>2. pass.pc = "row" /\ pass.run = NoRun /\ pass.todo = {} /\ pass.at <= now /\ pass.cand \in Schedules
      BY <1>4 DEF PassRow, IInv, Launching, PassTimes
    <3> QED BY <1>4, <2>2, <3>1, <3>2, SameThreads, SameMemos, PassMoves DEF PassRow, Kept
  <2> QED BY <1>4, <2>1, <2>2 DEF PassRow
<1>5. CASE PassOverlap
  <2>1. CASE pass' = nextCandidate
    BY <1>5, <2>1, NextCandidateKeeps, NextCandidateSame, SameThreads DEF PassOverlap
  <2>2. CASE ActiveRunForSchedule(pass.cand) = {} /\ Kept /\ pass' = [pass EXCEPT !.pc = "cap"]
    <3>1. /\ pass' \in Pass /\ pass'.pc = "cap" /\ pass'.at = pass.at /\ pass'.todo = pass.todo
          /\ pass'.run = pass.run /\ pass'.cand = pass.cand
      BY <2>2, SameThreads
    <3>2. pass.pc = "overlap" /\ pass.run = NoRun /\ pass.todo = {} /\ pass.at <= now /\ pass.cand \in Schedules
      BY <1>5 DEF PassOverlap, IInv, Launching, PassTimes
    <3>3. \A r \in Runs : outcome[r] = "active" => link[r] # pass.cand
      BY <2>2 DEF ActiveRunForSchedule, ScheduleRuns
    <3> QED BY <1>5, <2>2, <3>1, <3>2, <3>3, SameThreads, SameMemos, PassMoves DEF PassOverlap, Kept
  <2> QED BY <1>5, <2>1, <2>2 DEF PassOverlap
<1>6. CASE PassCap
  <2>1. CASE pass' = nextCandidate
    BY <1>6, <2>1, NextCandidateKeeps, NextCandidateSame, SameThreads DEF PassCap
  <2>2. CASE pass' = [nextCandidate EXCEPT !.live = Max({pass.live, Cap})]
    <3>1. Max({pass.live, Cap}) \in Nat BY SameThreads, NatOthers, MaxNat
    <3> QED BY <1>6, <2>2, <3>1, NextCandidateKeeps DEF PassCap
  <2>3. CASE LiveInstanceCount < Cap /\ pass' = [pass EXCEPT !.pc = "label"]
    <3>1. /\ pass' \in Pass /\ pass'.pc = "label" /\ pass'.at = pass.at /\ pass'.todo = pass.todo
          /\ pass'.run = pass.run /\ pass'.cand = pass.cand
      BY <2>3, SameThreads
    <3>2. pass.pc = "cap" /\ pass.run = NoRun /\ pass.todo = {} /\ pass.at <= now /\ pass.cand \in Schedules
      BY <1>6 DEF PassCap, IInv, Launching, PassTimes
    <3>3. \A r \in Runs : outcome[r] = "active" => link[r] # pass.cand
      BY <3>2 DEF IInv, Single
    <3>4. Cardinality(alive) + others < Cap
      BY <2>3, Fewer, NatOthers DEF LiveInstanceCount, IInv, TypedOthers
    <3> QED BY <1>6, <3>1, <3>2, <3>3, <3>4, SameThreads, SameMemos, PassMoves DEF PassCap, Kept
  <2> QED BY <1>6, <2>1, <2>2, <2>3 DEF PassCap
<1>7. CASE PassLabel
  <2>1. CASE pass' = nextCandidate
    BY <1>7, <2>1, NextCandidateKeeps, NextCandidateSame, SameThreads DEF PassLabel, Kept
  <2>2. CASE pass' = [pass EXCEPT !.pc = "claim", !.at = now]
    <3>1. /\ pass' \in Pass /\ pass'.pc = "claim" /\ pass'.at = now /\ pass'.todo = pass.todo
          /\ pass'.run = pass.run /\ pass'.cand = pass.cand
      BY <2>2, SameThreads, SameMemos
    <3>2. pass.pc = "label" /\ pass.run = NoRun /\ pass.todo = {} /\ pass.cand \in Schedules
      BY <1>7 DEF PassLabel, IInv, Launching, PassTimes
    <3>3. \A r \in Runs : outcome[r] = "active" => link[r] # pass.cand
      BY <3>2 DEF IInv, Single
    <3>4. Cardinality(alive) + others < Cap BY <3>2 DEF IInv, Room
    <3>5. \A s \in Schedules : checked[s] <= now BY SameMemos
    <3> QED BY <1>7, <3>1, <3>2, <3>3, <3>4, <3>5, SameThreads, SameMemos, PassMoves DEF PassLabel
  <2> QED BY <1>7, <2>1, <2>2 DEF PassLabel
<1>8. CASE PassClaimFails
  BY <1>8, NextCandidateKeeps, NextCandidateSame, SameThreads DEF PassClaimFails
<1>9. CASE PassDone
  <2>1. /\ pass' \in Pass /\ pass'.pc = "idle" /\ pass'.at = NoTime /\ pass'.todo = {}
        /\ pass'.run = NoRun
    BY <1>9 DEF PassDone, idlePass
  <2>2. pass.pc = "gather" BY <1>9 DEF PassDone
  <2> QED BY <1>9, <2>1, <2>2, SameThreads, SameMemos, PassMoves DEF PassDone
<1>10. CASE PassAborts
  <2>1. runNow' \in Schedule0 BY <1>10 DEF PassAborts
  <2> QED BY <1>10, <2>1, SameRows, SameOthers, SameRuns, SameThreads, QuietKeeps
          DEF PassAborts, runVars
<1> QED BY <1>1, <1>2, <1>3, <1>4, <1>5, <1>6, <1>7, <1>8, <1>9, <1>10

(***************************************************************************)
(* The gather: what is owed is the latest match.                           *)
(***************************************************************************)
\* A set of ticks that is not empty has a greatest one.
LEMMA GreatestMatch ==
  ASSUME NEW M \in SUBSET (1..MaxTime), M # {}
  PROVE  Max(M) \in M /\ \A t \in M : t <= Max(M)
<1> DEFINE R == OpToRel(<, Nat)
           T == {n \in Nat : \E m \in M : n = MaxTime - m}
<1>1. IsWellFoundedOn(R, Nat) BY NatLessThanWellFounded
<1>2. T \subseteq Nat /\ T # {}
  <2>1. PICK k \in M : k \in 1..MaxTime OBVIOUS
  <2>2. MaxTime - k \in Nat BY <2>1, TimeAssumption
  <2>3. MaxTime - k \in T BY <2>1, <2>2
  <2> QED BY <2>3
<1>3. \A x, y \in Nat : y < x => <<y, x>> \in R BY DEF OpToRel
<1> HIDE DEF R, T
<1>4. PICK n \in T : \A y \in T : ~(<<y, n>> \in R) BY <1>1, <1>2, WFMin
<1> USE DEF T
<1>5. PICK m \in M : n = MaxTime - m OBVIOUS
<1>6. ASSUME NEW t \in M PROVE t <= m
  <2>1. MaxTime - t \in T BY TimeAssumption
  <2>2. ~(MaxTime - t < n) BY <1>2, <1>3, <1>4, <2>1
  <2> QED BY <1>5, <2>2, TimeAssumption
<1>7. \E x \in M : \A y \in M : x >= y BY <1>6
<1>8. Max(M) \in M /\ \A y \in M : Max(M) >= y BY <1>7 DEF Max
<1> QED BY <1>8, TimeAssumption

LEMMA OwedRight ==
  ASSUME IInv, NEW s \in pass.todo, pass.pc = "gather", checked[s] # NoTime, pass.at > checked[s]
  PROVE  /\ Owed(s) \in {NoTime} \cup Due[s] /\ Owed(s) \in Nat /\ Owed(s) <= pass.at
         /\ Owed(s) # NoTime =>
              /\ Owed(s) > engineStart
              /\ \A t \in Due[s] : t <= pass.at => t <= Owed(s)
              /\ \A r \in Runs : (link[r] = s /\ slot[r] # NoTime) => slot[r] < Owed(s)
<1>1. /\ s \in Schedules /\ pass.at \in Nat /\ checked[s] \in Nat /\ pending[s] \in Nat
      /\ \A r \in Runs : slot[r] \in Nat
  BY SameThreads, SameMemos
<1>2. Due[s] \in SUBSET (1..MaxTime) BY <1>1, DueAssumption
<1>3. \A t \in Due[s] : t \in Nat BY <1>2
<1>4. engineStart \in Nat /\ checked[s] >= engineStart BY <1>1, SameMemos DEF IInv, Owing
<1>5. CASE Matches(s) = {}
  <2>1. Owed(s) = pending[s] BY <1>5 DEF Owed
  <2>2. \A t \in Due[s] : t <= pass.at => t <= checked[s] BY <1>1, <1>3, <1>5 DEF Matches
  <2>3. /\ pending[s] \in {NoTime} \cup Due[s] /\ pending[s] <= checked[s]
        /\ pending[s] # NoTime => /\ pending[s] > engineStart
                                  /\ \A t \in Due[s] : t <= checked[s] => t <= pending[s]
    BY <1>1 DEF IInv, Owing
  <2>4. \A r \in Runs : (link[r] = s /\ slot[r] # NoTime /\ pending[s] # NoTime) => slot[r] < pending[s]
    BY <1>1 DEF IInv, Behind, underWay
  <2> QED BY <1>1, <2>1, <2>2, <2>3, <2>4
<1>6. CASE Matches(s) # {}
  <2>1. Owed(s) = Max(Matches(s)) BY <1>6 DEF Owed
  <2>2. Matches(s) \in SUBSET (1..MaxTime) BY <1>2 DEF Matches
  <2>3. Owed(s) \in Matches(s) /\ \A t \in Matches(s) : t <= Owed(s)
    BY <1>6, <2>1, <2>2, GreatestMatch
  <2>4. Owed(s) \in Due[s] /\ Owed(s) > checked[s] /\ Owed(s) <= pass.at
    BY <1>1, <1>3, <2>3 DEF Matches
  <2>5. \A t \in Due[s] : t <= pass.at => t <= Owed(s)
    BY <1>1, <1>3, <2>3, <2>4 DEF Matches
  <2>6. \A r \in Runs : link[r] = s => slot[r] <= checked[s] BY <1>1 DEF IInv, Behind
  <2> QED BY <1>1, <1>3, <1>4, <2>4, <2>5, <2>6
<1> QED BY <1>5, <1>6

LEMMA GatherKeeps == ASSUME IInv, NEW s \in Schedules, PassGather(s) PROVE IInv'
<1>1. pass.pc = "gather" /\ s \in pass.todo /\ pass.run = NoRun
  BY DEF PassGather, IInv, Launching
<1>2. UNCHANGED <<now, engineStart, rows, enabled, paused, strikes, link, slot, fired, outcome, alive,
                  parked, others, manuals, starts, runNow, reaper>>
  BY DEF PassGather, timeVars, rowVars, runVars, otherVars
<1>3. /\ pass' \in Pass /\ pass'.pc = "gather" /\ pass'.at = pass.at /\ pass'.todo \subseteq pass.todo
      /\ pass'.run = NoRun /\ pass'.cand = pass.cand
  <2>1. pass' = gathered(s) \/ pass' = candidate(s)
    BY DEF PassGather, GatherFirst, GatherWalk, GatherNot
  <2> DEFINE T == pass.todo \ {s}  C == pass.cands \cup {s}
  <2>2. T \in SUBSET Schedules /\ T \subseteq pass.todo /\ C \in SUBSET Schedules BY SameThreads
  <2>3. pass' = [pass EXCEPT !.todo = T] \/ pass' = [pass EXCEPT !.todo = T, !.cands = C]
    BY <2>1, SameThreads DEF gathered, candidate
  <2> HIDE DEF T, C
  <2> QED BY <1>1, <2>2, <2>3, SameThreads
<1>4. /\ pass.at \in Nat /\ pass.at <= now /\ pass.at >= engineStart
      /\ \A r \in Runs : slot[r] <= pass.at
  BY <1>1, SameThreads DEF IInv, PassTimes
<1>5. \/ pending' = pending /\ checked' = checked
      \/ /\ checked' = [checked EXCEPT ![s] = pass.at] /\ pending' = pending /\ pending[s] = NoTime
      \/ /\ checked' = [checked EXCEPT ![s] = pass.at]
         /\ pass.at > checked[s] /\ checked[s] # NoTime
         /\ \E p \in {NoTime, Owed(s)} : pending' = [pending EXCEPT ![s] = p]
  <2>1. CASE GatherFirst(s)
    <3>1. pending[s] = NoTime BY <2>1, SameMemos DEF GatherFirst, IInv, Owing
    <3> QED BY <2>1, <3>1 DEF GatherFirst
  <2>2. CASE GatherWalk(s) BY <2>2 DEF GatherWalk
  <2>3. CASE GatherNot(s) BY <2>3 DEF GatherNot, memoVars
  <2> QED BY <2>1, <2>2, <2>3 DEF PassGather
<1>6. TypedClock' /\ TypedRows' /\ TypedRuns' /\ TypedOthers'
  BY <1>2 DEF IInv, TypedClock, TypedRows, TypedRuns, TypedOthers
<1>7. TypedThreads' /\ Launching' BY <1>2, <1>3 DEF IInv, TypedThreads, Launching
<1>8. PassTimes' BY <1>1, <1>2, <1>3, <1>4 DEF PassTimes
<1>9. Single' /\ Room' /\ SlotFiredOnce' BY <1>2, <1>3 DEF IInv, Single, Room, SlotFiredOnce
<1>10. Owing' /\ Behind'
  <2>1. CASE pending' = pending /\ checked' = checked
    BY <1>1, <1>2, <1>3, <2>1 DEF IInv, Owing, Behind, underWay
  <2>2. CASE /\ checked' = [checked EXCEPT ![s] = pass.at] /\ pending' = pending
             /\ pending[s] = NoTime
    <3>1. /\ checked'[s] = pass.at /\ \A t \in Schedules : t # s => checked'[t] = checked[t]
          /\ checked' \in [Schedules -> 0..now]
      BY <1>4, <2>2, SameMemos
    <3>2. Owing' BY <1>2, <1>4, <2>2, <3>1 DEF IInv, Owing
    <3>3. Behind' BY <1>1, <1>2, <1>3, <1>4, <2>2, <3>1 DEF IInv, Behind, underWay
    <3> QED BY <3>2, <3>3
  <2>3. ASSUME NEW p \in {NoTime, Owed(s)}, pass.at > checked[s], checked[s] # NoTime,
               checked' = [checked EXCEPT ![s] = pass.at], pending' = [pending EXCEPT ![s] = p]
        PROVE  Owing' /\ Behind'
    <3>1. /\ p \in {NoTime} \cup Due[s] /\ p \in Nat /\ p <= pass.at
          /\ p # NoTime =>
               /\ p > engineStart
               /\ \A t \in Due[s] : t <= pass.at => t <= p
               /\ \A r \in Runs : (link[r] = s /\ slot[r] # NoTime) => slot[r] < p
      BY <1>1, <1>4, <2>3, OwedRight
    <3>2. /\ checked'[s] = pass.at /\ \A t \in Schedules : t # s => checked'[t] = checked[t]
          /\ checked' \in [Schedules -> 0..now]
          /\ pending'[s] = p /\ \A t \in Schedules : t # s => pending'[t] = pending[t]
          /\ pending' \in [Schedules -> Nat]
      BY <1>4, <2>3, <3>1, SameMemos
    <3>3. Owing' BY <1>2, <1>4, <3>1, <3>2 DEF IInv, Owing
    <3>4. Behind' BY <1>1, <1>2, <1>3, <1>4, <3>1, <3>2 DEF IInv, Behind, underWay
    <3> QED BY <3>3, <3>4
  <2> QED BY <1>5, <2>1, <2>2, <2>3
<1> QED BY <1>6, <1>7, <1>8, <1>9, <1>10 DEF IInv

(***************************************************************************)
(* The launch of a candidate: its row, its session, its rollback.          *)
(***************************************************************************)
LEMMA ClaimKeeps == ASSUME IInv, NEW r \in Runs, PassClaim(r) PROVE IInv'
<1> DEFINE s == pass.cand  n == IF pass.onDemand THEN NoTime ELSE pending[s]
<1>1. /\ pass.pc = "claim" /\ s \in Schedules /\ pass.run = NoRun /\ pass.todo = {}
      /\ pass.at \in Nat /\ pass.at >= 1 /\ pass.at <= now
      /\ \A t \in Schedules : checked[t] <= pass.at
  BY SameThreads DEF PassClaim, IInv, Launching, PassTimes
<1>2. UNCHANGED <<now, engineStart, rows, enabled, paused, strikes, pending, checked, alive,
                  others, manuals, starts, runNow, reaper>>
  BY DEF PassClaim, timeVars, rowVars, memoVars, otherVars
<1>3. /\ pass' \in Pass /\ pass'.pc = "spawn" /\ pass'.run = r /\ pass'.cand = s
      /\ pass'.todo = pass.todo /\ pass'.at = pass.at /\ pass'.onDemand = pass.onDemand
  BY SameThreads DEF PassClaim
<1>4. /\ outcome[r] = "none" /\ link[r] \in Schedule0 /\ n \in Nat /\ n <= pass.at
      /\ n # NoTime => n = pending[s] /\ ~pass.onDemand /\ n <= checked[s]
      /\ n <= checked[s]
  <2>1. pending[s] \in Nat /\ checked[s] \in Nat /\ pending[s] <= checked[s]
    BY <1>1, SameMemos DEF IInv, Owing
  <2>2. outcome[r] = "none" /\ link[r] \in Schedule0 BY DEF PassClaim, IInv, TypedRuns
  <2> QED BY <1>1, <2>1, <2>2
<1>5. /\ link' = [link EXCEPT ![r] = s] /\ slot' = [slot EXCEPT ![r] = n]
      /\ fired' = [fired EXCEPT ![r] = pass.at] /\ outcome' = [outcome EXCEPT ![r] = "active"]
      /\ parked' = parked \cup {r}
  BY DEF PassClaim
<1> HIDE DEF s, n
<1>6. /\ link'[r] = s /\ slot'[r] = n /\ fired'[r] = pass.at /\ outcome'[r] = "active"
      /\ \A q \in Runs : q # r => /\ link'[q] = link[q] /\ slot'[q] = slot[q]
                                 /\ fired'[q] = fired[q] /\ outcome'[q] = outcome[q]
  BY <1>5 DEF IInv, TypedRuns
<1>7. TypedClock' /\ TypedRows' /\ TypedOthers'
  BY <1>2 DEF IInv, TypedClock, TypedRows, TypedOthers
<1>8. TypedRuns' BY <1>1, <1>2, <1>4, <1>5, SameMemos DEF IInv, TypedRuns
<1>9. TypedThreads' /\ PassTimes' /\ Launching' /\ Owing'
  <2>1. TypedThreads' BY <1>2, <1>3 DEF IInv, TypedThreads
  <2>2. PassTimes' BY <1>1, <1>2, <1>3 DEF PassTimes
  <2>3. Launching' BY <1>1, <1>2, <1>3, NoRunIsNoRunId DEF IInv, Launching
  <2>4. Owing' BY <1>2 DEF IInv, Owing
  <2> QED BY <2>1, <2>2, <2>3, <2>4
<1>10. Behind'
  <2>1. ASSUME NEW q \in Runs, q # r
        PROVE  /\ outcome'[q] = "none" <=> fired'[q] = NoTime
               /\ slot'[q] <= fired'[q]
               /\ \A t \in Schedules : link'[q] = t =>
                    /\ checked'[t] # NoTime => slot'[q] <= checked'[t]
                    /\ (pending'[t] # NoTime /\ slot'[q] # NoTime) => slot'[q] < pending'[t]
    BY <1>1, <1>2, <1>6, <2>1 DEF IInv, Behind, underWay
  <2>2. \A t \in Schedules : link'[r] = t =>
          /\ checked'[t] # NoTime => slot'[r] <= checked'[t]
          /\ (pending'[t] # NoTime /\ slot'[r] # NoTime) => (underWay(r, t))'
    BY <1>2, <1>3, <1>4, <1>6 DEF underWay
  <2>3. outcome'[r] # "none" /\ fired'[r] # NoTime /\ slot'[r] <= fired'[r]
    BY <1>1, <1>4, <1>6
  <2> QED BY <2>1, <2>2, <2>3 DEF Behind
<1>11. Single'
  <2>1. \A q \in Runs : (q # r /\ outcome'[q] = "active") => link'[q] # s
    BY <1>1, <1>6 DEF IInv, Single, s
  <2>2. ASSUME NEW p \in Runs, NEW q \in Runs, outcome'[p] = "active", outcome'[q] = "active",
               link'[p] = link'[q], link'[p] # NoSched
        PROVE  p = q
    <3>1. CASE p = r \/ q = r BY <1>6, <2>1, <2>2, <3>1
    <3>2. CASE p # r /\ q # r BY <1>6, <2>2, <3>2 DEF IInv, Single
    <3> QED BY <3>1, <3>2
  <2> QED BY <1>3, <2>2 DEF Single
<1>12. Room' BY <1>1, <1>2, <1>3 DEF IInv, Room
<1>13. SlotFiredOnce'
  <2>1. ASSUME NEW q \in Runs, q # r, link'[q] = s, slot'[q] # NoTime, n # NoTime
        PROVE  slot'[q] # n
    <3>1. slot[q] < pending[s] \/ underWay(q, s)
      BY <1>1, <1>4, <1>6, <2>1 DEF IInv, Behind, s
    <3>2. ~underWay(q, s) BY <1>1 DEF underWay
    <3>3. slot[q] \in Nat /\ pending[s] \in Nat BY <1>1, SameMemos
    <3> QED BY <1>4, <1>6, <2>1, <3>1, <3>2, <3>3
  <2>2. ASSUME NEW p \in Runs, NEW q \in Runs, p # q, link'[p] # NoSched, link'[p] = link'[q],
               slot'[p] # NoTime
        PROVE  slot'[p] # slot'[q]
    <3>1. CASE p = r BY <1>6, <2>1, <2>2, <3>1
    <3>2. CASE q = r BY <1>6, <2>1, <2>2, <3>2
    <3>3. CASE p # r /\ q # r BY <1>6, <2>2, <3>3 DEF IInv, SlotFiredOnce
    <3> QED BY <3>1, <3>2, <3>3
  <2> QED BY <2>2 DEF SlotFiredOnce
<1> QED BY <1>7, <1>8, <1>9, <1>10, <1>11, <1>12, <1>13 DEF IInv

\* The launch is over, with its session or rolled back, and the firing is spent.
LEMMA SpawnKeeps == ASSUME IInv, PassSpawn \/ PassSpawnFails PROVE IInv'
<1> DEFINE r == pass.run
<1>1. /\ pass.pc = "spawn" /\ r \in Runs /\ pass.cand \in Schedules /\ pass.todo = {}
      /\ Consumed
  BY SameThreads DEF PassSpawn, PassSpawnFails, IInv, Launching, PassTimes
<1>2. UNCHANGED <<now, engineStart, rows, enabled, paused, strikes, checked, others, manuals, starts,
                  runNow, reaper>>
  BY DEF PassSpawn, PassSpawnFails, timeVars, rowVars, otherVars
<1>3. /\ pass' \in Pass /\ pass'.pc = "gather" /\ pass'.run = NoRun /\ pass'.todo = {}
      /\ pass'.at = NoTime
  <2>1. pass' = nextCandidate \/ pass' = [nextCandidate EXCEPT !.live = @ + 1]
    BY DEF PassSpawn, PassSpawnFails
  <2>2. PICK l \in Nat : pass' = [nextCandidate EXCEPT !.live = l]
    <3>1. nextCandidate.live \in Nat BY SameThreads DEF nextCandidate
    <3> QED BY <2>1, <3>1, NextCandidateSame, SameThreads
  <2>3. nextCandidate \in Pass /\ nextCandidate.pc = "gather" /\ nextCandidate.run = NoRun
        /\ nextCandidate.todo = {} /\ nextCandidate.at = NoTime
    BY <1>1, SameThreads DEF nextCandidate
  <2> HIDE DEF r
  <2> QED BY <2>2, <2>3
<1>4. /\ pending' \in [Schedules -> Nat]
      /\ \A s \in Schedules : pending'[s] \in {pending[s], NoTime}
      /\ ~pass.onDemand => pending'[pass.cand] = NoTime
  BY <1>1, SameMemos DEF Consumed
<1>5. /\ link' \in [Runs -> Schedule0] /\ slot' \in [Runs -> Nat] /\ fired' \in [Runs -> 0..now]
      /\ outcome' \in [Runs -> {"none", "active"} \cup Ended] /\ parked' \subseteq Runs
      /\ \A q \in Runs :
           \/ link'[q] = link[q] /\ slot'[q] = slot[q] /\ fired'[q] = fired[q] /\ outcome'[q] = outcome[q]
           \/ link'[q] = NoSched /\ slot'[q] = NoTime /\ fired'[q] = NoTime /\ outcome'[q] = "none"
  <2>1. CASE PassSpawn BY <2>1 DEF PassSpawn, IInv, TypedRuns
  <2>2. CASE PassSpawnFails BY <1>1, <2>2, SameMemos DEF PassSpawnFails, IInv, TypedRuns
  <2> QED BY <2>1, <2>2
<1>6. /\ alive' \subseteq Runs /\ IsFiniteSet(alive') /\ Cardinality(alive') + others <= Cap
  <2>1. others \in Nat /\ Cardinality(alive) \in Nat /\ IsFiniteSet(alive) /\ alive \subseteq Runs
    BY Fewer, NatOthers DEF IInv, TypedOthers, TypedRuns
  <2>2. Cardinality(alive) + others < Cap BY <1>1 DEF IInv, Room
  <2>3. CASE PassSpawn
    <3>1. alive' = alive \cup {r} BY <2>3 DEF PassSpawn
    <3>2. /\ IsFiniteSet(alive')
          /\ Cardinality(alive') = IF r \in alive THEN Cardinality(alive) ELSE Cardinality(alive) + 1
      BY <2>1, <3>1, FS_AddElement
    <3> QED BY <1>1, <2>1, <2>2, <3>1, <3>2, NatOthers
  <2>4. CASE PassSpawnFails BY <2>1, <2>2, <2>4, NatOthers DEF PassSpawnFails
  <2> QED BY <2>3, <2>4
<1>7. TypedClock' /\ TypedRows' /\ TypedOthers'
  BY <1>2 DEF IInv, TypedClock, TypedRows, TypedOthers
<1>8. TypedRuns' BY <1>2, <1>5, <1>6 DEF TypedRuns
<1>9. TypedThreads' /\ PassTimes' /\ Launching' /\ Owing'
  <2>1. TypedThreads' BY <1>2, <1>3 DEF IInv, TypedThreads
  <2>2. PassTimes' BY <1>2, <1>3, SameMemos DEF PassTimes
  <2>3. Launching' BY <1>2, <1>3 DEF IInv, Launching
  <2>4. Owing' BY <1>2, <1>4 DEF IInv, Owing
  <2> QED BY <2>1, <2>2, <2>3, <2>4
<1>10. Behind'
  <2> SUFFICES ASSUME NEW q \in Runs
               PROVE  /\ outcome'[q] = "none" <=> fired'[q] = NoTime
                      /\ slot'[q] <= fired'[q]
                      /\ \A t \in Schedules : link'[q] = t =>
                           /\ checked'[t] # NoTime => slot'[q] <= checked'[t]
                           /\ (pending'[t] # NoTime /\ slot'[q] # NoTime) => slot'[q] < pending'[t]
    BY DEF Behind
  <2>1. CASE link'[q] = link[q] /\ slot'[q] = slot[q] /\ fired'[q] = fired[q] /\ outcome'[q] = outcome[q]
    BY <1>2, <1>4, <2>1 DEF IInv, Behind, underWay
  <2>2. CASE link'[q] = NoSched /\ slot'[q] = NoTime /\ fired'[q] = NoTime /\ outcome'[q] = "none"
    BY <2>2, NoSchedIsNoSched
  <2> QED BY <1>5, <2>1, <2>2
<1>11. Single'
  <2>1. \A q \in Runs : outcome'[q] = "active" => outcome[q] = "active" /\ link'[q] = link[q] BY <1>5
  <2> QED BY <1>3, <2>1 DEF IInv, Single
<1>12. Room' BY <1>2, <1>3, <1>6 DEF Room
<1>13. SlotFiredOnce'
  <2>1. \A q \in Runs : link'[q] # NoSched => link'[q] = link[q] /\ slot'[q] = slot[q] BY <1>5
  <2> QED BY <2>1 DEF IInv, SlotFiredOnce
<1> QED BY <1>7, <1>8, <1>9, <1>10, <1>11, <1>12, <1>13 DEF IInv

(***************************************************************************)
(* The theorems.                                                           *)
(***************************************************************************)
LEMMA NextKeeps == IInv /\ [Next]_vars => IInv'
<1> SUFFICES ASSUME IInv, [Next]_vars PROVE IInv' OBVIOUS
<1>1. CASE PassNext
  BY <1>1, PassKeeps, GatherKeeps, ClaimKeeps, SpawnKeeps DEF PassNext
<1>2. CASE OperatorNext BY <1>2, OperatorKeeps
<1>3. CASE ReaperNext BY <1>3, ReaperKeeps
<1>4. CASE WorldNext BY <1>4, WorldKeeps
<1>5. CASE UNCHANGED vars
  <2>1. UNCHANGED <<timeVars, rowVars, memoVars, runVars, otherVars, runNow, pass, reaper>>
    BY <1>5 DEF vars
  <2> QED BY <2>1, SameRows, SameOthers, SameRuns, SameThreads, QuietKeeps DEF timeVars, runVars
<1> QED BY <1>1, <1>2, <1>3, <1>4, <1>5 DEF Next

\* The invariant of the spawn pass, the memos and the runs, for any number of
\* Schedules, runs and firings.
THEOREM SchedulesInvariant == Spec => []IInv
BY InitKeeps, NextKeeps, PTL DEF Spec

\* One live run per Schedule, whichever path launched it: launchScheduledRun looks
\* under the engine lock, and nobody else launches.
THEOREM OneLiveRunCorrect == Spec => []OneLiveRun
<1>1. IInv => TypeOK
  BY NatOthers DEF IInv, TypedClock, TypedRows, TypedRuns, TypedOthers, TypedThreads, Launching,
                   Owing, Behind, TypeOK
<1>2. ASSUME IInv, NEW s \in Schedules PROVE Cardinality(ActiveRunForSchedule(s)) <= 1
  <2>1. \A q, r \in ActiveRunForSchedule(s) : q = r
    BY <1>2, NoSchedIsNoSched DEF ActiveRunForSchedule, ScheduleRuns, IInv, Single
  <2>2. CASE ActiveRunForSchedule(s) = {} BY <2>2, FS_EmptySet
  <2>3. CASE ActiveRunForSchedule(s) # {}
    <3>1. PICK r : ActiveRunForSchedule(s) = {r} BY <2>1, <2>3
    <3> QED BY <3>1, FS_Singleton
  <2> QED BY <2>2, <2>3
<1>3. IInv => OneLiveRun BY <1>1, <1>2 DEF OneLiveRun
<1> QED BY <1>3, SchedulesInvariant, PTL

\* A match of the cadence launches at most one run, over restarts, switching off
\* and on, and re-enabling: the memos never move back behind what was launched.
THEOREM SlotFiredOnceCorrect == Spec => []SlotFiredOnce
<1>1. IInv => SlotFiredOnce BY DEF IInv
<1> QED BY <1>1, SchedulesInvariant, PTL

\* What the cadence launches is the last match the pass has walked over, and of
\* this incarnation of the engine (scheduleCandidates).
THEOREM LatestSlotCorrect == Spec => LatestSlot
<1>1. ASSUME IInv, Next, NEW r \in Runs, launches(r), slot'[r] # NoTime
      PROVE  /\ slot'[r] > engineStart
             /\ \A t \in Due[link'[r]] : t <= checked[link'[r]] => t <= slot'[r]
  <2>1. PICK q \in Runs : PassClaim(q)
    <3>1. ~OperatorNext /\ ~WorldNext /\ ~ReaperNext
      <4> USE <1>1 DEF launches, runVars
      <4>1. \A p \in Runs : ~StopRun(p) /\ ~ReapClaim(p) BY DEF StopRun, ReapClaim, IInv, TypedRuns
      <4>2. ~OperatorNext
        BY <4>1 DEF OperatorNext, RunNowRequest, SetEnabled, ReenableSchedule, DeleteSchedule,
                    StartCheck, StartSpawn, StartFails
      <4>3. ~Restart BY DEF Restart, IInv, TypedRuns
      <4>4. ~WorldNext
        BY <4>3 DEF WorldNext, Tick, OtherLaunch, OtherExits, SessionExits, BranchGone
      <4>5. ~ReaperNext
        BY <4>1 DEF ReaperNext, ReapList, ReapSkip, ReapRun, ReapPause, ReapDone, Drain
      <4> QED BY <4>2, <4>4, <4>5
    <3>2. PassNext BY <1>1, <3>1 DEF Next
    <3>3. ~PassSpawnFails BY <1>1 DEF launches, PassSpawnFails, IInv, TypedRuns
    <3>4. outcome' # outcome BY <1>1 DEF launches
    <3> QED BY <3>2, <3>3, <3>4 DEF PassNext, PassStart, PassGather, PassPick, PassList, PassRow,
              PassOverlap, PassCap, PassLabel, PassClaimFails, PassSpawn, PassDone, PassAborts, runVars
  <2>2. q = r BY <1>1, <2>1 DEF launches, PassClaim, IInv, TypedRuns
  <2>3. pass.cand \in Schedules /\ link'[r] = pass.cand /\ slot'[r] = pending[pass.cand]
    BY <1>1, <2>1, <2>2 DEF PassClaim, IInv, TypedRuns, Launching
  <2> QED BY <1>1, <2>3 DEF IInv, Owing
<1>2. ASSUME UNCHANGED vars, NEW r \in Runs PROVE ~launches(r)
  BY <1>2 DEF vars, runVars, launches
<1>3. IInv /\ [Next]_vars =>
        (\A r \in Runs : launches(r) /\ slot'[r] # NoTime =>
          /\ slot'[r] > engineStart
          /\ \A t \in Due[link'[r]] : t <= checked[link'[r]] => t <= slot'[r])
  BY <1>1, <1>2
<1> QED BY <1>3, SchedulesInvariant, PTL DEF LatestSlot, Spec

\* The engine alone never exceeds the cap: it counts again under its lock, and who
\* holds no lock only leaves (launchScheduledRun).
THEOREM EngineWithinCapCorrect == Spec => []EngineWithinCap
<1>1. IInv => EngineWithinCap BY DEF IInv, Room, EngineWithinCap
<1> QED BY <1>1, SchedulesInvariant, PTL
===============================================================================
