------------------------------ MODULE Schedules -----------------------------
(***************************************************************************)
(* Scheduled runs: the cadence, the one spawn pass that launches them, Run *)
(* now, and the per-Schedule strikes the reaper keeps.                     *)
(*                                                                         *)
(* A spawn pass holds spawnMu throughout.  It reads the session list and   *)
(* the enabled Schedules, advances the in-memory memos, gathers candidates *)
(* and launches them one by one, each under the engine lock, re-reading    *)
(* what the gather saw.  The row and the session of one launch, and the    *)
(* reap, are those of Lab, in fewer steps.                                 *)
(*                                                                         *)
(* Time is counted in ticks, Minute of them in a minute; it does not go    *)
(* back.  Due gives the matches of each Schedule's cron expression.        *)
(***************************************************************************)
EXTENDS Naturals, FiniteSets, FiniteSetsExt

CONSTANTS
  Schedules, Runs, NoSched, NoRun,
  Due,             \* per Schedule, the ticks its cadence matches
  MaxTime,         \* bound on the clock
  Minute,          \* ticks in a minute
  Cap,             \* the live-instance cap
  Budget,          \* a run's budget, in ticks
  PauseThreshold,  \* strikes that pause a Schedule
  Casts,           \* sets of who may take part, together, beside the spawn pass
  Others           \* bound on the other engine sessions, and on the manual ones

ASSUME DueAssumption == Due \in [Schedules -> SUBSET (1..MaxTime)]
ASSUME TimeAssumption == MaxTime \in Nat \ {0} /\ Minute \in Nat \ {0} /\ Budget \in Nat
ASSUME CapAssumption == Cap \in Nat /\ PauseThreshold \in Nat \ {0} /\ Others \in Nat
AllActors == {"reaper", "runnow", "edit", "stop", "sweep", "others", "restart"}
ASSUME CastsAssumption == Casts \subseteq SUBSET AllActors
ASSUME NoSchedIsNoSched == NoSched \notin Schedules
ASSUME NoRunIsNoRunId == NoRun \notin Runs

VARIABLES
  now, engineStart,
  rows, enabled, paused, strikes,   \* the schedules table
  pending, checked,                 \* schedulePending, scheduleChecked; 0 is "no entry"
  link, slot, fired, outcome,       \* the scheduled runs: schedule_id, the due
                                    \* time (0 for Run now), the label's time
  alive, parked,                    \* runs with a live session; with a branch
  others, manuals,                  \* live sessions of the other engine kinds; of
                                    \* manual instances
  starts,                           \* instance.Start calls past their cap check
  runNow,                           \* a Run now request past its prechecks
  pass, reaper,
  cast                              \* who takes part in this behaviour

rowVars  == <<rows, enabled, paused, strikes>>
memoVars == <<pending, checked>>
runVars  == <<link, slot, fired, outcome, alive, parked>>
timeVars == <<now, engineStart>>
otherVars == <<others, manuals, starts>>
vars == <<timeVars, rowVars, memoVars, runVars, otherVars, runNow, pass, reaper, cast>>

NoTime == 0
Times == 0..MaxTime
Ended == {"success", "death", "stopped"}

idlePass == [pc |-> "idle", live |-> 0, at |-> NoTime, todo |-> {}, cands |-> {},
             extra |-> NoSched, cand |-> NoSched, onDemand |-> FALSE, run |-> NoRun]
idleReaper == [pc |-> "idle", at |-> NoTime, todo |-> {}, run |-> NoRun, sched |-> NoSched]

Init ==
  /\ now = 1 /\ engineStart = 1
  /\ rows = Schedules /\ enabled = Schedules /\ paused = {}
  /\ strikes = [s \in Schedules |-> 0]
  /\ pending = [s \in Schedules |-> NoTime] /\ checked = [s \in Schedules |-> NoTime]
  /\ link = [r \in Runs |-> NoSched] /\ slot = [r \in Runs |-> NoTime]
  /\ fired = [r \in Runs |-> NoTime] /\ outcome = [r \in Runs |-> "none"]
  /\ alive = {} /\ parked = {} /\ runNow = NoSched
  /\ others = 0 /\ manuals = 0 /\ starts = 0
  /\ pass = idlePass /\ reaper = idleReaper /\ cast \in Casts

LiveInstanceCount == Cardinality(alive) + others + manuals
EnabledSchedules == {s \in rows : s \in enabled /\ s \notin paused}

ScheduleRuns(s) == {r \in Runs : link[r] = s /\ outcome[r] # "none"}
ActiveRunForSchedule(s) == {r \in ScheduleRuns(s) : outcome[r] = "active"}
LatestRunForSchedule(s) ==
  {r \in ScheduleRuns(s) : \A q \in ScheduleRuns(s) : fired[q] <= fired[r]}

\* The minute stamp of a label: the label of a Schedule's run, its branch and
\* its session name are this stamp and the Schedule.
ScheduleLabel(t) == t \div Minute

\* The branch of s and this label exists.
BranchTaken(s, label) ==
  \E r \in parked : link[r] = s /\ ScheduleLabel(fired[r]) = label

\* runNowIdentityFree: neither the newest run of s nor a branch has the label.
IdentityFree(s, label) ==
  /\ \A r \in LatestRunForSchedule(s) : ScheduleLabel(fired[r]) # label
  /\ ~BranchTaken(s, label)

(***************************************************************************)
(* The spawn pass: snapshot, listing, gather.                              *)
(***************************************************************************)
PassStart(extra) ==
  /\ pass.pc = "idle"
  /\ extra \in {NoSched, runNow}
  /\ pass' = [idlePass EXCEPT !.pc = "list", !.live = LiveInstanceCount, !.extra = extra]
  /\ runNow' = IF extra = NoSched THEN runNow ELSE NoSched
  /\ UNCHANGED <<timeVars, rowVars, memoVars, runVars, otherVars, reaper>>

\* EnabledSchedules, the clean-up of stray memos, and the clock of the gather;
\* an unreadable listing gathers nothing.
PassList ==
  LET forget(f) == [s \in Schedules |-> IF s \in EnabledSchedules THEN f[s] ELSE NoTime] IN
  /\ pass.pc = "list"
  /\ \/ /\ pending' = forget(pending) /\ checked' = forget(checked)
        /\ pass' = [pass EXCEPT !.pc = "gather", !.todo = EnabledSchedules, !.at = now]
     \/ pass' = [pass EXCEPT !.pc = "gather"] /\ UNCHANGED memoVars
  /\ UNCHANGED <<timeVars, rowVars, runVars, otherVars, runNow, reaper>>

Matches(s) == {t \in Due[s] : checked[s] < t /\ t <= pass.at}

\* Mutant of Owed: the firing already pending is kept.
OwedFirst(s) == IF pending[s] # NoTime \/ Matches(s) = {} THEN pending[s] ELSE Max(Matches(s))

\* The one owed firing: the latest match supersedes what was pending.
Owed(s) == IF Matches(s) = {} THEN pending[s] ELSE Max(Matches(s))

\* The gather is done with s, and may have made it a candidate.
gathered(s) == [pass EXCEPT !.todo = @ \ {s}]
candidate(s) == [pass EXCEPT !.todo = @ \ {s}, !.cands = @ \cup {s}]

\* First sighting arms the cadence forward only.
GatherFirst(s) ==
  /\ checked[s] = NoTime
  /\ checked' = [checked EXCEPT ![s] = pass.at]
  /\ pending' = pending
  /\ pass' = gathered(s)

\* The walk and the overlap skip.  The firing stays pending for the next pass
\* when the snapshot meets the cap, the store cannot be read or the provider
\* is logged out: the second disjunct, which is also the one with nothing due.
GatherWalk(s) ==
  /\ checked[s] # NoTime /\ pass.at > checked[s]
  /\ checked' = [checked EXCEPT ![s] = pass.at]
  /\ \/ /\ Owed(s) # NoTime /\ ActiveRunForSchedule(s) # {}
        /\ pending' = [pending EXCEPT ![s] = NoTime]
        /\ pass' = gathered(s)
     \/ /\ pending' = [pending EXCEPT ![s] = Owed(s)]
        /\ pass' = gathered(s)
     \/ /\ Owed(s) # NoTime /\ ActiveRunForSchedule(s) = {} /\ pass.live < Cap
        /\ pending' = [pending EXCEPT ![s] = Owed(s)]
        /\ pass' = candidate(s)

\* A mark not behind the clock, or a repository that is not ready: the mark
\* does not move.
GatherNot(s) ==
  /\ pass' = gathered(s)
  /\ UNCHANGED memoVars

PassGather(s) ==
  /\ pass.pc = "gather"
  /\ s \in pass.todo
  /\ GatherFirst(s) \/ GatherWalk(s) \/ GatherNot(s)
  /\ UNCHANGED <<timeVars, rowVars, runVars, otherVars, runNow, reaper>>

(***************************************************************************)
(* The spawn pass: launchScheduledRun, candidate by candidate, under mu.   *)
(***************************************************************************)
\* The next candidate: producers' before Run now, and only below the cap of
\* the snapshot.
PassPick(s) ==
  /\ pass.pc = "gather" /\ pass.todo = {}
  /\ s \in pass.cands \/ (pass.cands = {} /\ s = pass.extra)
  /\ LET rest == IF s \in pass.cands THEN [pass EXCEPT !.cands = @ \ {s}]
                                     ELSE [pass EXCEPT !.extra = NoSched]
     IN pass' = IF pass.live >= Cap THEN rest
                ELSE [rest EXCEPT !.pc = "row", !.cand = s, !.onDemand = s \notin pass.cands]
  /\ UNCHANGED <<timeVars, rowVars, memoVars, runVars, otherVars, runNow, reaper>>

nextCandidate == [pass EXCEPT !.pc = "gather", !.cand = NoSched, !.onDemand = FALSE,
                              !.run = NoRun, !.at = NoTime]

\* The candidate's answer: a firing that is spent leaves the memo, a Run now
\* never touches it.
Consumed ==
  pending' = IF pass.onDemand THEN pending ELSE [pending EXCEPT ![pass.cand] = NoTime]
Kept == pending' = pending

\* Deleted, paused, or switched off meanwhile: dropped, and so it is when the
\* repository is gone or not ready.  Unreadable: kept, as at every step up to
\* the cap.
PassRow ==
  LET s == pass.cand
      armed == s \in rows /\ s \notin paused /\ (s \in enabled \/ pass.onDemand)
  IN
  /\ pass.pc = "row"
  /\ \/ Consumed /\ pass' = nextCandidate
     \/ Kept /\ pass' = nextCandidate
     \/ armed /\ Kept /\ pass' = [pass EXCEPT !.pc = "overlap"]
  /\ UNCHANGED <<timeVars, rowVars, checked, runVars, otherVars, runNow, reaper>>

\* Mutant of PassOverlap: the check of the producer is trusted.
PassOverlapTrusted ==
  /\ pass.pc = "overlap"
  /\ Kept /\ pass' = [pass EXCEPT !.pc = "cap"]
  /\ UNCHANGED <<timeVars, rowVars, checked, runVars, otherVars, runNow, reaper>>

\* One live run per Schedule, whichever path launched it.  The firing is spent
\* on a live one, and on an empty prompt.
PassOverlap ==
  /\ pass.pc = "overlap"
  /\ \/ Consumed /\ pass' = nextCandidate
     \/ Kept /\ pass' = nextCandidate
     \/ /\ ActiveRunForSchedule(pass.cand) = {}
        /\ Kept /\ pass' = [pass EXCEPT !.pc = "cap"]
  /\ UNCHANGED <<timeVars, rowVars, checked, runVars, otherVars, runNow, reaper>>

\* Mutant of PassCap: the snapshot's count is trusted.
PassCapTrusted ==
  /\ pass.pc = "cap"
  /\ Kept /\ pass' = [pass EXCEPT !.pc = "label"]
  /\ UNCHANGED <<timeVars, rowVars, checked, runVars, otherVars, runNow, reaper>>

\* The cap against fresh liveness: at the cap the firing is kept, and the
\* snapshot is raised to it.
PassCap ==
  /\ pass.pc = "cap"
  /\ Kept
  /\ \/ LiveInstanceCount >= Cap /\ pass' = [nextCandidate EXCEPT !.live = Max({pass.live, Cap})]
     \/ pass' = nextCandidate
     \/ LiveInstanceCount < Cap /\ pass' = [pass EXCEPT !.pc = "label"]
  /\ UNCHANGED <<timeVars, rowVars, checked, runVars, otherVars, runNow, reaper>>

\* The label of this very minute; only a Run now looks whether it is free.
PassLabel ==
  /\ pass.pc = "label"
  /\ pass' = IF pass.onDemand /\ ~IdentityFree(pass.cand, ScheduleLabel(now))
             THEN nextCandidate
             ELSE [pass EXCEPT !.pc = "claim", !.at = now]
  /\ UNCHANGED <<timeVars, rowVars, memoVars, runVars, otherVars, runNow, reaper>>

\* instance.Launch up to the row.  git refuses a branch that exists, the store
\* a Schedule that does not; a hard error spends the firing.
PassClaim(r) ==
  LET s == pass.cand IN
  /\ pass.pc = "claim"
  /\ outcome[r] = "none"
  /\ ~BranchTaken(s, ScheduleLabel(pass.at))
  /\ s \in rows
  /\ link' = [link EXCEPT ![r] = s]
  /\ slot' = [slot EXCEPT ![r] = IF pass.onDemand THEN NoTime ELSE pending[s]]
  /\ fired' = [fired EXCEPT ![r] = pass.at]
  /\ outcome' = [outcome EXCEPT ![r] = "active"]
  /\ parked' = parked \cup {r}
  /\ pass' = [pass EXCEPT !.pc = "spawn", !.run = r]
  /\ UNCHANGED <<timeVars, rowVars, memoVars, alive, otherVars, runNow, reaper>>

PassClaimFails ==
  /\ pass.pc = "claim"
  /\ Consumed /\ pass' = nextCandidate
  /\ UNCHANGED <<timeVars, rowVars, checked, runVars, otherVars, runNow, reaper>>

\* Mutant of PassSpawn: a firing that launched stays owed.
PassSpawnKept ==
  /\ pass.pc = "spawn"
  /\ alive' = alive \cup {pass.run}
  /\ Kept /\ pass' = [nextCandidate EXCEPT !.live = @ + 1]
  /\ UNCHANGED <<timeVars, rowVars, checked, link, slot, fired, outcome, parked, otherVars,
                 runNow, reaper>>

PassSpawn ==
  /\ pass.pc = "spawn"
  /\ alive' = alive \cup {pass.run}
  /\ Consumed /\ pass' = [nextCandidate EXCEPT !.live = @ + 1]
  /\ UNCHANGED <<timeVars, rowVars, checked, link, slot, fired, outcome, parked, otherVars,
                 runNow, reaper>>

\* The rollback deletes branch and row.
PassSpawnFails ==
  /\ pass.pc = "spawn"
  /\ outcome' = [outcome EXCEPT ![pass.run] = "none"]
  /\ link' = [link EXCEPT ![pass.run] = NoSched]
  /\ slot' = [slot EXCEPT ![pass.run] = NoTime]
  /\ fired' = [fired EXCEPT ![pass.run] = NoTime]
  /\ parked' = parked \ {pass.run}
  /\ Consumed /\ pass' = nextCandidate
  /\ UNCHANGED <<timeVars, rowVars, checked, alive, otherVars, runNow, reaper>>

PassDone ==
  /\ pass.pc = "gather" /\ pass.todo = {} /\ pass.cands = {} /\ pass.extra = NoSched
  /\ pass' = idlePass
  /\ UNCHANGED <<timeVars, rowVars, memoVars, runVars, otherVars, runNow, reaper>>

\* The pass aborts on its listings; a Run now with it.
PassAborts ==
  /\ pass.pc = "idle" /\ runNow # NoSched
  /\ runNow' = NoSched
  /\ UNCHANGED <<timeVars, rowVars, memoVars, runVars, otherVars, pass, reaper>>

PassNext ==
  \/ \E s \in Schedules \cup {NoSched} : PassStart(s)
  \/ \E s \in Schedules : PassGather(s) \/ PassPick(s)
  \/ \E r \in Runs : PassClaim(r)
  \/ PassList \/ PassRow \/ PassOverlap \/ PassCap \/ PassLabel
  \/ PassClaimFails \/ PassSpawn \/ PassSpawnFails \/ PassDone \/ PassAborts

\* The engine lock is held by the launch of a candidate.
MuHeldByPass == pass.pc \in {"row", "overlap", "cap", "label", "claim", "spawn"}

(***************************************************************************)
(* The operator.                                                           *)
(***************************************************************************)
\* RunScheduleNow up to the pass.  It works on a Schedule that is switched off.
RunNowRequest(s) ==
  /\ "runnow" \in cast
  /\ runNow = NoSched
  /\ s \in rows \ paused
  /\ ActiveRunForSchedule(s) = {}
  /\ IdentityFree(s, ScheduleLabel(now))
  /\ runNow' = s
  /\ UNCHANGED <<timeVars, rowVars, memoVars, runVars, otherVars, pass, reaper>>

SetEnabled(s) ==
  /\ "edit" \in cast
  /\ s \in rows
  /\ enabled' \in {enabled \cup {s}, enabled \ {s}}
  /\ UNCHANGED <<timeVars, rows, paused, strikes, memoVars, runVars, otherVars, runNow,
                 pass, reaper>>

\* The pause and the strikes go together.
ReenableSchedule(s) ==
  /\ "edit" \in cast
  /\ s \in rows
  /\ s \in paused \/ strikes[s] # 0
  /\ paused' = paused \ {s}
  /\ strikes' = [strikes EXCEPT ![s] = 0]
  /\ UNCHANGED <<timeVars, rows, enabled, memoVars, runVars, otherVars, runNow, pass, reaper>>

\* The run of a deleted Schedule goes on, its link nulled.
DeleteSchedule(s) ==
  /\ "edit" \in cast
  /\ s \in rows
  /\ rows' = rows \ {s} /\ enabled' = enabled \ {s} /\ paused' = paused \ {s}
  /\ strikes' = [strikes EXCEPT ![s] = 0]
  /\ link' = [r \in Runs |-> IF link[r] = s THEN NoSched ELSE link[r]]
  /\ UNCHANGED <<timeVars, memoVars, slot, fired, outcome, alive, parked, otherVars, runNow,
                 pass, reaper>>

\* StopAFK: neutral, no strike, the branch stays.
StopRun(r) ==
  /\ "stop" \in cast
  /\ outcome[r] = "active"
  /\ outcome' = [outcome EXCEPT ![r] = "stopped"]
  /\ alive' = alive \ {r}
  /\ UNCHANGED <<timeVars, rowVars, memoVars, link, slot, fired, parked, otherVars, runNow,
                 pass, reaper>>

\* instance.Start checks the cap and launches later, under no lock.
StartCheck ==
  /\ "others" \in cast
  /\ starts + manuals < Others
  /\ LiveInstanceCount < Cap
  /\ starts' = starts + 1
  /\ UNCHANGED <<timeVars, rowVars, memoVars, runVars, others, manuals, runNow, pass, reaper>>

StartSpawn ==
  /\ starts > 0
  /\ starts' = starts - 1 /\ manuals' = manuals + 1
  /\ UNCHANGED <<timeVars, rowVars, memoVars, runVars, others, runNow, pass, reaper>>

StartFails ==
  /\ starts > 0
  /\ starts' = starts - 1
  /\ UNCHANGED <<timeVars, rowVars, memoVars, runVars, others, manuals, runNow, pass, reaper>>

OperatorNext ==
  \/ \E s \in Schedules :
       RunNowRequest(s) \/ SetEnabled(s) \/ ReenableSchedule(s) \/ DeleteSchedule(s)
  \/ \E r \in Runs : StopRun(r)
  \/ StartCheck \/ StartSpawn \/ StartFails

(***************************************************************************)
(* The reaper, one tick: now is read once, at its start.                   *)
(***************************************************************************)
ReapList ==
  /\ "reaper" \in cast
  /\ reaper.pc = "idle"
  /\ \E r \in Runs : outcome[r] = "active"
  /\ reaper' = [idleReaper EXCEPT !.pc = "next", !.at = now,
                                  !.todo = {r \in Runs : outcome[r] = "active"}]
  /\ UNCHANGED <<timeVars, rowVars, memoVars, runVars, otherVars, runNow, pass>>

midLaunch(r) == pass.pc = "spawn" /\ pass.run = r

\* classifyAndClaim for the kind: past the budget every end is a success.
ReapClaim(r) ==
  LET expired == reaper.at >= fired[r] + Budget IN
  /\ reaper.pc = "next" /\ r \in reaper.todo
  /\ outcome[r] = "active" /\ ~midLaunch(r)
  /\ expired \/ r \notin alive
  /\ outcome' = [outcome EXCEPT ![r] = IF expired THEN "success" ELSE "death"]
  /\ reaper' = [reaper EXCEPT !.pc = "claimed", !.run = r, !.todo = @ \ {r}]
  /\ UNCHANGED <<timeVars, rowVars, memoVars, link, slot, fired, alive, parked, otherVars,
                 runNow, pass>>

\* Not claimed: still running, ended meanwhile, mid-launch, or unreadable.
ReapSkip(r) ==
  /\ reaper.pc = "next" /\ r \in reaper.todo
  /\ reaper' = [reaper EXCEPT !.todo = @ \ {r}]
  /\ UNCHANGED <<timeVars, rowVars, memoVars, runVars, otherVars, runNow, pass>>

reaped == [reaper EXCEPT !.pc = "next", !.run = NoRun, !.sched = NoSched]

\* reapRun: the session, the guarded teardown, which may delete the branch,
\* and the strikes of the Schedule when it still exists.
ReapRun ==
  LET r == reaper.run
      s == link[r]
      n == IF outcome[r] = "death" THEN strikes[s] + 1 ELSE 0
  IN
  /\ reaper.pc = "claimed"
  /\ alive' = alive \ {r}
  /\ parked' \in {parked, parked \ {r}}
  /\ \/ /\ s # NoSched
        /\ strikes' = [strikes EXCEPT ![s] = n]
        /\ reaper' = IF n >= PauseThreshold
                     THEN [reaper EXCEPT !.pc = "pause", !.sched = s] ELSE reaped
     \/ s = NoSched /\ reaper' = reaped /\ UNCHANGED strikes
  /\ UNCHANGED <<timeVars, rows, enabled, paused, memoVars, link, slot, fired, outcome,
                 otherVars, runNow, pass>>

\* One statement: the strikes are read again with the write.
PauseScheduleIfStruck(s) ==
  paused' = IF s \in rows /\ strikes[s] >= PauseThreshold THEN paused \cup {s} ELSE paused

ReapPause ==
  /\ reaper.pc = "pause"
  /\ PauseScheduleIfStruck(reaper.sched)
  /\ reaper' = reaped
  /\ UNCHANGED <<timeVars, rows, enabled, strikes, memoVars, runVars, otherVars, runNow, pass>>

ReapDone ==
  /\ reaper.pc = "next" /\ reaper.todo = {}
  /\ reaper' = idleReaper
  /\ UNCHANGED <<timeVars, rowVars, memoVars, runVars, otherVars, runNow, pass>>

\* drainZombies: a live session whose row has ended.
Drain(r) ==
  /\ "reaper" \in cast
  /\ reaper.pc = "idle" /\ r \in alive
  /\ outcome[r] # "active" /\ ~midLaunch(r)
  /\ alive' = alive \ {r}
  /\ UNCHANGED <<timeVars, rowVars, memoVars, link, slot, fired, outcome, parked, otherVars,
                 runNow, pass, reaper>>

ReaperNext ==
  \/ ReapList \/ ReapRun \/ ReapPause \/ ReapDone
  \/ \E r \in Runs : ReapClaim(r) \/ ReapSkip(r) \/ Drain(r)

(***************************************************************************)
(* The rest of the world.                                                  *)
(***************************************************************************)
Tick ==
  /\ now < MaxTime
  /\ now' = now + 1
  /\ UNCHANGED <<engineStart, rowVars, memoVars, runVars, otherVars, runNow, pass, reaper>>

SessionExits(r) ==
  /\ r \in alive
  /\ alive' = alive \ {r}
  /\ UNCHANGED <<timeVars, rowVars, memoVars, link, slot, fired, outcome, parked, otherVars,
                 runNow, pass, reaper>>

\* The runtime sweep or a Discard deletes the branch of an ended run.
BranchGone(r) ==
  /\ "sweep" \in cast
  /\ r \in parked \ alive
  /\ outcome[r] # "active" /\ ~midLaunch(r)
  /\ parked' = parked \ {r}
  /\ UNCHANGED <<timeVars, rowVars, memoVars, link, slot, fired, outcome, alive, otherVars,
                 runNow, pass, reaper>>

\* A launch of another kind under the engine lock; the pass counts its own.
OtherLaunch ==
  /\ "others" \in cast
  /\ ~MuHeldByPass
  /\ others < Others /\ LiveInstanceCount < Cap
  /\ others' = others + 1
  /\ \/ UNCHANGED pass
     \/ /\ pass.pc = "gather" /\ pass.todo = {} /\ pass.live < Cap
        /\ pass' = [pass EXCEPT !.live = @ + 1]
  /\ UNCHANGED <<timeVars, rowVars, memoVars, runVars, manuals, starts, runNow, reaper>>

OtherExits ==
  /\ \/ others > 0 /\ others' = others - 1 /\ UNCHANGED manuals
     \/ manuals > 0 /\ manuals' = manuals - 1 /\ UNCHANGED others
  /\ UNCHANGED <<timeVars, rowVars, memoVars, runVars, starts, runNow, pass, reaper>>

\* The process dies and comes back, at a later time; sessions outlive it or
\* die with the host.  Startup ends the rows without a session, and counts no
\* strike for them.
Restart ==
  /\ "restart" \in cast
  /\ now < MaxTime
  /\ now' = now + 1 /\ engineStart' = now + 1
  /\ alive' \in {alive, {}}
  /\ outcome' = [r \in Runs |-> IF outcome[r] = "active" /\ r \notin alive'
                                THEN "death" ELSE outcome[r]]
  /\ parked' \in {parked, parked \cap alive'}
  /\ pending' = [s \in Schedules |-> NoTime] /\ checked' = [s \in Schedules |-> NoTime]
  /\ \/ UNCHANGED <<others, manuals>>
     \/ alive' = {} /\ others' = 0 /\ manuals' = 0
  /\ starts' = 0 /\ runNow' = NoSched /\ pass' = idlePass /\ reaper' = idleReaper
  /\ UNCHANGED <<rowVars, link, slot, fired>>

WorldNext ==
  \/ Tick \/ OtherLaunch \/ OtherExits \/ Restart
  \/ \E r \in Runs : SessionExits(r) \/ BranchGone(r)

Next == (PassNext \/ OperatorNext \/ ReaperNext \/ WorldNext) /\ UNCHANGED cast
Spec == Init /\ [][Next]_vars

(***************************************************************************)
(* Properties.                                                             *)
(***************************************************************************)
\* Types, and the ties between the pass record, the memos and the clock: a
\* firing owed is a match of the cadence, and the pass names a run exactly
\* while it is between that run's row and its session.
TypeOK ==
  /\ now \in Times /\ engineStart \in 1..now
  /\ rows \subseteq Schedules /\ enabled \subseteq rows /\ paused \subseteq rows
  /\ strikes \in [Schedules -> Nat]
  /\ \A s \in Schedules : pending[s] \in {NoTime} \cup Due[s] /\ pending[s] <= checked[s]
  /\ \A s \in Schedules : checked[s] \in 0..now
  /\ \A r \in Runs : outcome[r] = "none" <=> fired[r] = NoTime
  /\ outcome \in [Runs -> {"none", "active"} \cup Ended]
  /\ link \in [Runs -> Schedules \cup {NoSched}] /\ fired \in [Runs -> 0..now]
  /\ \A r \in Runs : slot[r] <= fired[r]
  /\ alive \cup parked \subseteq Runs
  /\ others \in 0..Others /\ starts + manuals \in 0..Others
  /\ pass.run # NoRun <=> pass.pc = "spawn"

\* One live run per Schedule, whichever path launched it: the cadence, Run now
\* and a delayed reap included (store.ActiveRunForSchedule, launchScheduledRun).
OneLiveRun ==
  /\ TypeOK
  /\ \A s \in Schedules : Cardinality(ActiveRunForSchedule(s)) <= 1

\* A match of the cadence launches at most one run: consumed is consumed, over
\* restarts, switching off and on, and re-enabling (the memos of
\* scheduleCandidates and the consumed answer of launchScheduled).
SlotFiredOnce ==
  \A q, r \in Runs :
    q # r /\ link[q] # NoSched /\ link[q] = link[r] /\ slot[q] # NoTime => slot[q] # slot[r]

\* No catch-up: what the cadence launches belongs to this incarnation of the
\* engine, and is the last match the pass has walked over, never an older one
\* (first sighting and supersession in scheduleCandidates).
launches(r) == outcome[r] = "none" /\ outcome'[r] = "active"
LatestSlot ==
  [][\A r \in Runs : launches(r) /\ slot'[r] # NoTime =>
       /\ slot'[r] > engineStart
       /\ \A t \in Due[link'[r]] : t <= checked[link'[r]] => t <= slot'[r]]_vars

\* The engine alone never exceeds the cap: the snapshot of the pass is a hint,
\* the count under the lock the authority (spawnPass, launchScheduledRun).
EngineWithinCap == Cardinality(alive) + others <= Cap

\* The cap that start.go says a direct POST must not exceed.
CapHeld == LiveInstanceCount <= Cap

\* A firing of the cadence finds its label free, as the comments say.
CadenceLabelFree ==
  pass.pc = "claim" /\ ~pass.onDemand => ~BranchTaken(pass.cand, ScheduleLabel(pass.at))
=============================================================================
