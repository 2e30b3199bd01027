# A verification project for lab

lab runs coding agents. For every registered repository it keeps a bare clone;
every agent works in a tmux session of its own, in a git worktree on a branch of
its own, and is recorded as a row in the `runs` table. Some sessions are started
by people (manual instances), some by lab for an issue of the tracker (AFK runs).
A reaper watches the AFK runs, loops reconcile what a crash or a failed step left
behind, and operators may stop or discard anything at any time.

The state of one run is spread over four witnesses that fail independently: the
store, tmux, git, and the memory of the lab process. Nearly every hard bug of
this code is a disagreement between two of them, seen by a goroutine that read
them one after the other. That is what this project models first.

## 1. Inventory

| component (under `src/internal`) | state | operations | talks to | hard behaviour | correct when |
|---|---|---|---|---|---|
| `instance` launch, start, stop | none of its own | `Launch` with its rollback, `Start`, `Stop`, `StopAll` | store, git, tmux, startguard, homes | several failing steps; no lock around manual starts | a failed launch leaves nothing; a session has one owner |
| `afk` engine: launch, reaper, stop | locks `mu`, `runsMu`, `spawnMu` | `launch`, `ReapOnce`, `StopAFK` | `instance`, store, tracker, tmux, git | reap against launch against Stop | one claim per issue, one auto run, one final outcome |
| `afk` engine: schedule, spawn, autoland | memos of due slots, pull verdicts | `SpawnOnce`, `launchScheduledRun`, `RunScheduleNow`, lander/fix/escalate | as above | time, cap, retries | a slot fires at most once; the cap holds |
| `reconcile` | none | `StartupReconcile`, `RuntimeSweep`, `sweepDeadSessions`, `Discard` | git, tmux, store, startguard, homes | stale reads; crash recovery | nothing owned is touched, nothing dead stays |
| `startguard` | the set of names mid-Start | `Mark`, `Clear`, `Has`, `Snapshot` | everybody | a set, though two launches may share a name | covers every launch from Mark to Clear |
| `store` | rows | `CreateRun`, `EndRun`, `DeleteRun`, tokens, counters | SQL | concurrent writers | the first terminal outcome wins |
| `gitx` | branches, worktrees | claim, guarded teardown, merged test | git | read, then act by force | unmerged and unsaved work survives |
| `tmuxx` | sessions | `Start`, `Stop`, `List` | tmux | idempotent start adopts a live name | |
| `instancehome` | per-run trees | `Materialize`, `Wipe`, `SweepAll` | disk | age-guarded sweep | a launch in flight keeps its home |
| `preview` | a registry in memory: names, tunnels, tombstones, ended runs | `Reserve`, `Attach`, `Stop`, `CloseRun` | `agentapi`, `labctl expose`, the sites that end runs | four steps of one handler; reconnects; a lost registry | a name serves its holder only; ended runs hold none |
| `crmerge`, builtin tracker | change requests; a mutex each | `CreatePull`, `Merge`, `Close`, `DeleteHead` | origin, the clone, `reconcile` | origin first, store second; retries | the store never claims what origin can contradict |
| `credrotate` | last signature of each master store | `tick`, `AdoptCheck` | provider files, homes, store | CLIs that rotate a shared token by themselves | the newest generation is never lost |
| `cronx` | none | `Parse`, `Matches`, `Next` | schedules, the form | calendar edges, clock changes | agrees with a reading minute by minute |
| `reposvc` | the registry of clone jobs, `mu` | `Add`, `Delete`, `Retry`, `UpdateSettings`, `StartupHeal`, `Close` | store, git, the guard of `seeder`, `instance` | a clone beside every call; requests that are aborted; a restart half way | ready means guarded; nobody takes a clone's directory; calls return |
| `events`, `presence`, `push`, `pull` | registries in memory | subscribe, publish, pull | HTTP | full buffers, single flight | not modelled, see section 8 |
| `httpapi`, `agentapi`, `labctl`, `provider*`, `tracker`, `vault`, `secrets`, `warpgate`, `onecli`, `podmanx`, `seeder`, `readiness`, `chat`, web | mostly none | requests, clients, files | outside services | I/O | not modelled, see section 8 |

How they interact: the AFK engine has two long-lived goroutines. `ReaperLoop`
reaps, drains, runs the spawn pass and, every few minutes, the runtime sweep, one
after another. The scheduler loop runs the spawn pass too. `DeadSessionLoop`
is a third goroutine. HTTP handlers run `Start`, `StartManualAFK`, `Stop` and
`Discard` concurrently with all of them. There are two locks that matter here:
`mu` is held from the selection of an issue until its launch returned; `runsMu`
is held by the reaper for one classification, and by `StopAFK` throughout. Manual
starts, manual stops, the sweeps, Discard, a rollback and the side effects of a
reap hold no lock.

## 2. The modules

| module | models |
|---|---|
| `LabState` | the variables, the store (`EndRun`, `RunBySession`, ...), tmux (`StopSession`), git (`TeardownDecision`, `TeardownApply`, ...), types |
| `Launch` | `instance.Launch` step by step, its rollback, and its callers `afk.launch` and `instance.Start` |
| `Reaper` | `ReapOnce`: `reapActiveRuns`, `classifyAndClaim`, `reapRun`, `drainZombies` |
| `Operator` | `StopAFK`, `teardownManualRun`, `Discard` |
| `Reconcile` | `RuntimeSweep`, `sweepDeadSessions`, crash and `StartupReconcile` |
| `Lab` | composes them with the agents and the forge; fairness; the properties |
| `RunLedger` | abstract: what lab promises about the rows of one repository |
| `Schedules` | scheduled runs of one engine: the spawn pass, the cadence memos, Run now, strikes and the pause, the cap |
| `Autoland` | the pull requests of one claim branch: verdicts, lander, fix and escalate runs, attempts, re-arms |
| `Previews` | the preview registry, the handler of an exposure and the `labctl expose` process |
| `ChangeRequests` | the builtin tracker's change requests: create, merge, close, and the collection of their heads |
| `Credentials` | one token family in the master store and in the homes of runs; the rotation loop |
| `Cron` | cron expressions: parsing and the scan for the next firing |
| `Repositories` | one repository: its row, its bare clone with the pre-push guard, the clone job, and the calls of `reposvc` |
| `MCLab`, `MCSchedules`, `MCAutoland`, `MCPreviews`, `MCChangeRequests`, `MCCredentials`, `MCCron`, `MCRepositories` | these for TLC |
| `LabProofs`, `SchedulesProofs`, `AutolandProofs`, `PreviewsProofs`, `ChangeRequestsProofs`, `CredentialsProofs`, `CronProofs`, `RepositoriesProofs` | theorems about `Lab`, `Schedules`, `Autoland`, `Previews`, `ChangeRequests`, `Credentials`, `Cron` and `Repositories`, proved |

How state corresponds to the code:

- A run is an element of `Runs`, as a run id is chosen once (`ids.NewID`).
  `pc[r]` says where its `Launch` call stands. `name[r]` is the session name it
  was given; kind, issue, branch and worktree path all follow from it. A session
  name is `<<kind, target>>`: the names `afk-7` and `afk-auto-7` differ, but share
  branch and worktree, as in the code.
- `outcome[r]` is the row (`"none"` when there is none), `tokens`, `homes` and
  `failures` are what their names say.
- `session[n]` is the run whose spawn created the live session `n`. The code does
  not know it (tmux has names only), no action reads it but to see whether `n` is
  live; it is there so that a property can say whose session it is.
- `branch[t]` is `absent`, `merged` (contained in mainline, a fresh fork included)
  or `ahead`; `worktree[t]` is `none`, `clean` or `dirty`.
- `starting`, `mu`, `runsMu` are the startguard and the two locks. `reaper`,
  `sweep`, `op`, `dead` are the local variables of the goroutines that run those
  functions, `op` those of the one operator request in flight.

One action is one access to shared state: a store call, a tmux call, a git
command, a lock. Where code reads two witnesses one after the other there are two
actions. The guarded teardown is split in two between its reads and its force, the undo
of a launch between the row and the home, and a Discard between the look-up of the run,
its end, its tokens and its home.
`"late"` in the classification stands for a passed budget deadline: a run that is
seen late is ended at once, so no clock is needed.

Steps taken together. A rollback that has deleted its row wipes the home, clears the
name and returns in one action (`RollbackWipe`, `instance/launch.go:473-481`): the home is
the run's own, and the name and the lock are given up last in the code too. In `Autoland`
the pass reads the thread and the reviews in one action, the runs on the branch and the
last re-arm in a second, the escalation and the attempts in a third (`PassRead`, `PassBranch`,
`PassDecide`, `afk/autoland.go:80-231`), where the code makes a call of the forge or of the
store for each; what the properties are about, a thread that is older than the look at
the branch, that older than the rows, and all older than the launch, stays apart. In `ChangeRequests` the
record of a merge and the release of its mutex are one action (`MergeRecord`): nothing
is read in between, and the fetch before it is one of its own (`MergeRefresh`).

Errors: `Faults` names the parts of the environment that may fail: `"launch"`
(any step of a launch, including a spawn that reports an error although the
session is live), `"stop"` (a kill that does nothing; every caller logs and goes
on), `"git"` (a removal or deletion that does nothing). Reads that fail make the
reaper skip: `ReapSkip`, `ClaimDeclined`, `DrainSkip` are always possible.
A `Restart` loses the memory of the process at any point, may lose the tmux server
too (a reboot), and is followed by `StartupReconcile`, which lab runs before it
starts any other goroutine: one action.

`Schedules` is a second, coarser view of the same engine, not composed with `Lab`.
What `Lab` splits (the steps of one `Launch`, of a reap, of a Stop) is a step or two
here; what `Lab` leaves out (time, the cap, who asks for a launch) is the subject.
A spawn pass is a record, `pass`: its snapshot of the session count, the time the
producer read, what is left to gather, the candidates, and the step of
`launchScheduledRun` it is at. `pending` and `checked` are the memos
`schedulePending` and `scheduleChecked`, 0 for "no entry". A run keeps the
`schedule_id` (`link`), the due time it was launched for (`slot`, 0 for a Run now) and
the time its label was stamped (`fired`); its branch and session name are
determined by `link` and the minute of `fired`. Time is counted in ticks, a cadence
is the set of ticks it matches, and clocks do not go back. Everything that may fail
for a while (a listing, a row, the provider's login, the repository's readiness) may
fail at every step that reads it. Launches of the other kinds are one action under
the engine lock; a manual Start is two, since it holds none. `cast`, chosen once, is who
takes part in a behaviour.

The six modules that follow share nothing with `Lab` but the meaning of a run, and
are not composed with it: each takes the steps of a run it needs (its row ends, its
session dies, its home is wiped) as actions of its own, so the order in which they
come is free.

`Autoland` polls, as the code does: `pass` holds what one spawn pass has read so far (the
thread, then whether a run is active on the branch, then the rows and the moment of the
last re-arm), `reaper` what `ReapOnce` has read of one run. `pull[p].thread` is the
list of comments whose first word lab parses. `attempts` and `escalated` are rows.
Moments matter only against the last re-arm, so a moment is the number of re-arms
before it. Launch and reap are single steps here. After a launch comes the record of its
attempt, which may fail: that is logged, and the launch is not counted
(`PassBurnFails`, `afk/autoland.go:338-343`).

`Previews` has one action per critical section of the registry (`Reserve`, `Attach`,
`Detach`, `Stop`, `CloseRun`) and per step of a client; a connection that breaks before
its tunnel is installed leaves the reservation as it is (`AttachFails`). A tunnel is named by the
connection that carries it, `<<process, attempt>>`. `conn[t].lab` is where the handler of
the connection stands, `conn[t].up` whether the link is up, `conn[t].msg` the last control
message written to it. `endsite[r]` is the site that ends a run between `EndRun` and
`CloseRun`; a crash between the two loses the second for good.

In `ChangeRequests` a ref is the set of commits it reaches, so that "merged" is
set inclusion; `origin` and `clone` are two repositories, and `clone.base` is the tracking
ref that lags. `call[q].pc` walks through one HTTP request, from the mutex over the
temporary worktree and the push to the record, the issues and the head. A crash frees
the mutexes and leaves origin and the store as they are.

`Credentials` abstracts a credential file to `<<grant, generation>>`; `latest` is what the
provider honours. A signature of a file is compared with the last one lab stamped, so
`base[r]` is `"none"`, `"same"` or `"diverged"`. `order` is the set of pairs of homes the
first of which has the older file, which is how a tick picks among several. `cli[h]` is a refresh a CLI has been
answered and not written yet. `work` is the holder of the service's mutex and its
position in a tick or a pre-wipe check. A fan-out into a home is two steps, the injection
and the stamp of the signature it left, since the CLIs hold no lock and may write in
between (`"race"`). A pre-wipe adoption that fails is logged and the wipe goes on
(`"noadopt"`); a launch that is rolled back deletes its row before the wipe, whose check
then finds no signature to compare with (`"rollback"`).

`Cron` is one search, turn by turn: `day` is the cursor of the loop in `Next`. Items of a
field are records; masks are sets. A zone has two offsets and one change each way,
and for clocks that come twice or never the model takes either reading, since
package `time` leaves it open. Days are numbered from the first of 2020; the calendar has
a leap year every four years, which is right from 2020 to 2099.

`Repositories` follows the code statement by statement where it reads or writes shared
state: `job` is the entry of `Service.jobs` with the step its goroutine is at, `call[c]`
the step of one request, `held` the requests that wait for the `done` of the job now
registered, `mu` the Retry that holds the lock (the others hold it for one statement).
`dir` is `none`, `hollow` (directories the guard made on its way), `partial` (git is at
work, or was) or `whole`; `hook` is the guard's content. A job that failed asks whether
it was killed in one step and marks its row in another (`JobFailed`, `JobMarksError`). Calls are named by what they ask
for, each is made at most once, and two of the same kind (`retry`, `again`) may meet.

## 3. The properties and the hazards they are for

In `Lab`:

- `ClaimExclusive` -- two AFK runs never hold the same issue, from the claim to the
  end of the run or its rollback.
- `OneAutoRun` -- the gate reads rows, the row comes late, the lock covers the gap.
- `ReapedAfterLaunch` -- a row is active before its session is live; the reaper may
  not take it for a dead run.
- `LaunchUntouched` -- neither sweep tears down under a launch, or ends its row.
- `OutcomeFinal` -- five threads end runs without a common lock; the first one wins.
- `SessionOwner` -- a live session of a launched, active run is its own and not one an
  earlier run left behind.
- `ClaimHeld` -- nobody tears down under an active run.
- `NoWorkLost` -- guarded teardown, whose status read is older than its force.
- `KeepsLedger` -- everything together implements `RunLedger`: serialised admission,
  a row written once by its own launch, ended once, forgotten only by its own
  launch.
- `ZombieDrained`, `DeadRunReaped` -- liveness.

In `Schedules`:

- `OneLiveRun` -- the producer's overlap read is a hint, the one under the lock counts.
- `SlotFiredOnce`, `LatestSlot` -- the memos are lost by a restart and by leaving the
  listing, kept over a full cap and over reads that fail: a match launches at most once,
  never from before the engine's start, and the newest supersedes.
- `EngineWithinCap` -- the pass spends a snapshot.

In `Autoland`:

- `OneWriter` -- the gate on the branch and the launch are apart, and the done-signals
  lean on one marker writer per branch.
- `AttemptsBounded` -- the attempt is recorded after the launch; at most the bound is
  launched between two re-arms, and one more for each record that was lost: by a crash in
  between, or because `RecordAutolandAttempt` failed, which the code only logs
  (`afk/autoland.go:338-343`).
- `EscalationStands` -- a recorded escalation is terminal, though the pass read the
  thread earlier and a human may delete the marker.
- `HandOffLast` -- a re-arm restores moment and budget together.
- `LoopEnds` -- sessions that reject each other's work, or die without a word, run out of
  attempts. Landers have no bound, so the promise is made up to landers that die for ever.

In `Previews`:

- `TunnelOfHolder` -- between `Reserve` and `Attach` the name may be stopped and taken by
  another run; a browser never reaches a sibling's application.
- `EndedHoldsNothing` -- a request authenticated before the end of its run reserves after
  its `CloseRun`; a restart loses a `CloseRun` altogether.
- `StoppedStays` -- a process that reconnects does not undo a Stop.
- `Settles` -- everybody leaves or serves the tunnel that is installed, whatever late
  detach of an old one is still to come.

In `ChangeRequests`:

- `MergedIsPublished` -- push first, record second; the issue is closed with it.
- `NothingLost` -- whether a head is merged is asked of a tracking ref that lags, while
  the session commits on.
- `LandsWhileOpen` -- a close arrives in the git window of a merge.
- `HeadsSpared` -- sweep and merge delete heads; a request filed in between, or a merge
  not recorded, must keep its own.
- `CallsReturn` -- the mutex is released by hand on one path and deferred on the others.

In `Credentials`:

- `NoGhostHome` -- a fan-out and a wipe of the same home.
- `FamilyKept` -- no adopt, fan-out or wipe destroys the last copy of the generation the
  provider honours. It is claimed up to the first disturbance: a crash, a login, a removal,
  a fan-out step or an adoption that fails, a launch that is rolled back, a CLI that writes
  between injection and stamp.
- `AdoptNoRegress` -- up to the first disturbance an older generation never overwrites an
  honoured one; through all of them lab logs nobody out.
- `MasterHeals` -- again and again no session is ahead of the master store: what one
  refreshed by itself gets there, or is rotated away by another, through crashes, logins, failed removals and failed steps of a fan-out. A failed adoption, a
  rollback and a write that was stamped as the baseline are exempt: there it does not.

In `Cron`:

- `NothingSkipped` -- a search that ends returned the first moment that is due after the one
  it was given, or none where none is due up to the limit: the jumps over months and days,
  the gap and the overlap of clocks, the bound of five years, the one answer that a day may
  give, against a reading of the text minute by minute (`found`).
- `OncePerMinute` -- feeding a firing back in never returns the same wall clock minute,
  though clocks go back.

In `Repositories`:

- `ReadyGuarded` -- every writer of the row and of the directory has its own idea of the
  moment; none may leave a ready repository without a guard.
- `IncogniGuarded` -- the toggle and the clone each read one witness and write the other;
  failed installs, clients that hang up and crashes come in between. Two cases are exempt
  until the next start: toggles and clones that overlap (`overlapped`), and a start that
  finds the guard out of step with the row, above all after a clone it heals, and cannot
  install it, which is logged only (`unhealed`, `reposvc/reposvc.go:1298-1300`).
- `CloneUndisturbed` -- a second Retry, a failed job that is still registered, a Delete.
- `CallEnds` -- a Delete waits for a clone that has no timeout; Retry keeps `mu`.

Each property of a passing run is refuted by a named mutant of a definition it
depends on; the mutants stand before the definition they alter. The types of `Lab` are
proved (`TypeCorrect`) and in no run. The type invariants of `Schedules`, `Autoland`, `ChangeRequests`, `Credentials` and `Repositories` are the first
conjunct of `OneLiveRun`, `OneWriter`, `MergedIsPublished`, `NoGhostHome` and `IncogniGuarded`.

### What the code does not keep

Two disagreements have a run each, `merge_stranded` and `delete_strands`, and are
recorded as findings. The others are stated in the modules, as properties no run
checks, or are described here.

- `LaunchUntouched` fails for two manual Starts of one minute: both find the label free
  (`instance/start.go:92`), both mark the name, and the deferred Clear of the loser
  (`instance/launch.go:254`) uncovers the winner, which the dead-session sweep then reaps
  mid-Start, against `reconcile/sweep.go:109-110`. It also fails when a rolled-back launch
  is followed by a second one between two reads of one sweep (`reconcile/sweep.go:19-20`).
- `ClaimExclusive`, `ClaimHeld` and `SessionOwner` end with what section 6 calls a `Breach`,
  which the code does not rule out. The runtime sweep takes the merged branch of an active
  run whose session has exited; a Discard takes the claim of a launch in flight; and after
  a kill that fails the next launch of the issue adopts the session that survived.
- `NoWorkLost` (`Lab`) fails once the runtime sweep takes part: it collects the merged claim
  of a dead run that is not reaped yet, the issue is launched again on the same path, and
  the reap of the old run removes the new run's worktree by force after a status read that
  an edit outran (`gitx/teardown.go:66` against 21-22).
  It also fails for a manual run stopped between its row and its spawn: the Stop kills no
  session, reads a clean worktree, the Start brings the agent up, and what it edits goes
  with the forced removal (`instance/stop.go:131-142`).
- `StopKeepsClaim` (`Lab`): a Stop of a run whose spawn then fails; the rollback
  (`instance/launch.go:463`) deletes the branch that `afk/stop.go:15-16` keeps.
- `DrainSpares` (`Lab`): the drain reads guard and row, a launch of the same name starts
  its session, and the kill hits it (`afk/reaper.go:195-201`).
- A Discard mid-launch leaves an active row, the issue is launched again, and two active
  rows share a session name, although `store/runs.go:176-179` says at most one does.
- Manual AFK runs do move the failure counter (`afk/reaper.go:486`), although
  `afk/launch.go:80-82` says they never do.
- `CadenceLabelFree` (`Schedules`): a Run now that is stopped keeps the label the cadence
  slot of the same minute wants (`afk/schedule.go:533-536`); the slot is lost.
- `CapHeld` (`Schedules`): a manual Start counts sessions long before its own exists
  (`instance/start.go:78-84`).
- A Schedule can be paused with zero strikes (`afk/reaper.go:549`): a run launched between
  the death of its predecessor and the pause succeeds later and resets the counter.
- `FixNotDoneAtLaunch` (`Autoland`): the pass may launch a fix after the previous fix run
  posted its marker and was reaped, so `afk/decide.go:207-208` ("guaranteed false at
  launch") does not hold; the new run is done as soon as it is launched.
- `RearmHonoured` (`Autoland`): the moment of an escalation is the tick that ends its run.
  A re-arm between the marker and that tick is overtaken, and the pull request stays
  terminal (`afk/autoland.go:147-149`).
- `StopIsFinal` (`Previews`): a second Stop of a name overwrites its one tombstone, and a
  Reserve by somebody else clears it; a process whose stopped message was lost then
  returns (`preview/tunnel.go:120-124`). `ReplacedByNewer`: two connections of a process may
  attach in the reverse order, and the newer one is told it was replaced.
- A launch that is rolled back after its row was written closes no exposures
  (`instance/launch.go:431-481` against `preview/preview.go:306-308`).
- `OneOpenPerHead` (`ChangeRequests`): the duplicate check and the insert are two
  statements (`tracker/builtin/builtin.go:246-248`). `DeletedHeadLanded`: a commit pushed
  to the head during its merge is deleted on origin with it; the clone keeps it.
- A crash between the record of a merge and its issues leaves the issues open for ever.
- `WipeSpares` (`Credentials`): a refresh that a CLI writes between the
  injection into its home and the reading of the signature (`credrotate/credrotate.go:302-308`)
  becomes the baseline, is never adopted while the run lives, and goes with the wipe of
  the home, against `credrotate/credrotate.go:316-318`.
- A wipe destroys the newest generation also when its adoption fails, which is logged and
  swallowed (`credrotate/credrotate.go:349-357`), and when a launch is rolled back, whose row
  is deleted first (`instance/launch.go:468-478`).
- In `Credentials` besides: the first fan-out after a start overwrites a home that has just
  refreshed by itself; a home adopted right before a crash, a failed step of the fan-out or a
  failed removal is adopted once more and may put an older generation over a newer one;
  a new login is overwritten by an adoption in the same tick, as only homes are compared by
  age; a row created after a fan-out keeps the older file.
- In `Repositories`: `IncogniKept`, against `reposvc/reposvc.go:845-848` ("whichever writer
  acted second still lands the guard"): a clone that read the flag before the toggle wrote it
  renders the plain guard after the toggle rendered the patterned one, until the next start.
  Two toggles that overlap may end the same way.
- `NoStrand` also fails when an import is declared between the forced Delete's own check and
  the transaction: the job is killed, and the delete is then refused.
- A Delete that found no job does not look again: an Add between its create and its
  registration, or a Retry, starts a clone for a row that goes, and its directory stays.
- A session started after the Delete's count outlives its repository, although
  `reposvc/reposvc.go:922-925` says none does.
- A half-finished clone whose process died may answer `git rev-parse --git-dir`; startup
  calls it ready (`reposvc/reposvc.go:1045-1052`).

## 4. The runs

`Actors` and `Faults` in a cfg of `Lab` say who takes part and what may fail, `Casts` in that
of `Schedules` the sets of actors one of which takes part. The
modules other than `Lab` and `Schedules` have `Scenarios` instead: sets of disturbances
that may meet in one behaviour, each at most once. A behaviour commits to no scenario;
what has happened so far must fit into one of them.

| run | module | instance | shows |
|---|---|---|---|
| `restart` | `MCLab` | 2 runs, 1 issue; reaper, stop, restart; launch faults | claims, session ownership, one auto run, no reap mid-launch, no work lost, `RunLedger` implemented |
| `solo` | `MCLab` | 1 run, 1 issue, 1 label; reaper, both sweeps, stop, restart; all faults | final outcomes, sweeps against one launch |
| `drain` | `MCLab` | 1 run, 1 issue, 1 label; reaper, stop, discard; stop and launch faults; fair | liveness |
| `schedules` | `MCSchedules` | 1 Schedule, 2 slots, 2 runs, cap 1; one cast of Run now, stop, sweep, edits, restart, and one of reaper, stop, edits, other sessions | overlap, slots, cap |
| `landing` | `MCAutoland` | 2 pull requests of one branch, 1 fix, 1 hand-off; reviews, merges, re-arms, Stop, crash, a failed record; fair | one writer, bounded attempts, escalations, an end |
| `previews` | `MCPreviews` | 2 processes of one run or two, on one name or two, 3 connections each; drops, Stop, end of run, crash; fair | the registry and its clients |
| `merging` | `MCChangeRequests` | 1 head, 2 change requests, 2 requests under way; crash, failures, a base that moves, discard; fair | origin, clone and store agree; answers |
| `creds` | `MCCredentials` | 2 runs, 3 generations; one of crash, login, a removal, fan-out step or adoption that fails, a rollback, a write between injection and stamp; fair | the newest generation survives and spreads; no home is written while it goes |
| `cron` | `MCCron` | 54 expressions, 3 zones with 2 readings, 7 moments, 3 firings | the scan against a definition |
| `repos` | `MCRepositories` | 1 repository; Add, 2 Deletes, 2 Retries, 2 toggles; 7 scenarios of calls, failures, hang-ups, crash and close; fair | guard, directory, answers |
| `merge_stranded` | `MCChangeRequests` | as `merging` | `UnrecordedKeepsHead` violated |
| `delete_strands` | `MCRepositories` | a forced Delete and a hang-up | `NoStrand` violated |

Bounds. In `Lab`, `Runs` bounds the number of launches in a behaviour, since a run id is
used once; nothing else is bounded. Two runs on one issue is the case the code is
about: a run and its successor on the same branch, worktree path and name; without
the engine lock two auto runs select that issue before either has claimed it. `failures` is bounded by the number
of reaps. Symmetry is used over runs and issues in the runs without liveness; no
property names one of them. In `Schedules`, `MaxTime` 4 with slots at 2 and 4 and two
ticks to a minute has a slot before and after everything else (a restart, a full cap,
a Run now) and each minute long enough for two launches; a cap of 1 makes every slot
contended; two strikes pause, so a pause takes both runs and a reset can fall between. The
product of both casts is too large to search, so the reaper meets neither Run now nor a
restart.
`Others` bounds the sessions of other kinds.

In `Autoland` one fix and one hand-off reach every stage and every exhausted budget; the
second pull request is there because rows outlive the first. In `Previews` three
connections (`MaxConns`) are an attempt, a reconnect, and a reconnect whose
predecessor's handler is still to detach. In `ChangeRequests` one commit per session
(`MaxCommits`) separates merged from unmerged, and two requests under way are every
pair of create, merge and close. In `Credentials` three generations (`MaxGeneration`) make
a newest, an older and an oldest one; the two runs are alike, so only behaviours that
launch the first one first are explored (`InOrder`); the clock of a token is its `token` age, and the
module assumes that an access token outlives one whole tick after it was written, and a
wipe that goes through (they live for hours, a tick is a minute). In `Cron`, three firings
(`MaxFirings`) chain over both changes of a clock; the expressions are chosen for each
branch of the parser and the scan. A zone whose clock goes back over midnight, and whose
doubled hour is read in winter time, is left out (`ZonesAssumption`): TLC refutes
`NothingSkipped` there, for a search from within the first of the two hours starts on the
later day and passes over the rest of the earlier one. A change by an hour on the hour is
not of this kind, also at midnight: its doubled hour lies in one day.
In `Repositories` two Retries and two toggles are a call and its overtaker, and each
scenario pairs calls with the failures that meet them: a Delete with both Retries, a
toggle with a failed install, a clone or a crash, a Retry with a store that refuses.

What holds in one instance and fails in another is the result, not an accident:
`LaunchUntouched` holds against one launch and fails with two (section 3); `NoWorkLost`
holds with the reaper alone and fails when the sweep collects a claim the reaper
has not yet reaped. The findings say which comment each one contradicts.

## 5. Fairness

`LiveSpec` of `Lab` adds what the goroutines justify. A launch or an operator request in
flight runs to completion (weak fairness of its steps: each is a call that
returns). The reaper's ticker fires for as long as lab runs. Strong fairness is
asked for the outcomes a tick may miss but a later tick gets again: reading the
tracker, taking `runsMu` (a Go mutex starves nobody for long), finding the name
unmarked, and a kill that works. Nothing is asked of agents, operators, launches
that have not started, or the sweeps.

`Autoland`: the pass and the reaper tick, and a claim under `runsMu` is not missed for
ever; sessions, humans and launches may do nothing or fail. Reads refused for ever are a
disjunct of `LoopEnds`, not an assumption; in its run one crash and one failed record
lose an attempt each. `Previews`: handlers and processes go on,
the signal, the Stop and the faults need not come. `ChangeRequests`: a
request goes on, and a mutex is given to whoever waits (strong fairness).
`Credentials`: a tick once started goes on, the loop starts one again and again although
pre-wipe checks take the mutex in between, and those get it in turn (strong fairness of
both); nothing is asked of the CLIs. `Cron`: the loop turns. `Repositories`: requests and the
clone job go on, whose critical sections never wait for each other; git, which has no
timeout there, ends for certain only once it is killed, so that `CallEnds` rests on the kill.

## 6. What is proved

### The runs of one repository

`LabProofs` proves, for every set of runs, issues, labels, actors and faults,
from the four assumptions on constants in `LabState` (targets and non-values are
distinct; actors and faults are known ones):

- `TypeCorrect`, `OneAutoRunCorrect`: invariants;
- `ReapedAfterLaunchCorrect`, `OutcomeFinalCorrect`: action properties;
- `LabImplementsLedger`: the refinement of `RunLedger`.

None of the three safety arguments is inductive by itself. `IInv` adds what the
threads rely on: a run is named exactly when it left `idle` (`Named`); rows appear
late (`RowsLate`); an AFK launch in flight holds `mu` (`MuHeld`), so there is at most
one; the startguard contains the name of every AFK launch from Mark to Clear
(`GuardCovers`); what the reaper and the dead-session sweep remember are runs of
the right kind whose launch has a row, and the run being classified has been
launched (`ReaperKnows`, `DeadKnows`). `GuardCovers` is where `mu` is needed: the
deferred Clear of one launch would uncover another of the same name, which is
what happens to manual starts (section 3). That is why the invariant speaks
of AFK runs only.

The proof treats every thread but launches and restarts alike. Such a step is
"quiet" (`QuietStep`): it leaves names, launches, `mu` and `starting` alone and ends
at most one active run. A launch step is an admission, an advance or a return
(`LaunchShape`). The invariant, the action properties and the refinement are
proved for these shapes, so each action is opened once for its shape and once
for its types.

### The claims of one repository

The second part of `LabProofs` builds on `IInv` and proves, for every set of runs, issues
and labels:

- `ClaimExclusiveCorrect`, `ClaimHeldCorrect`, `SessionOwnerCorrect`, with every actor and
  every fault: the property holds until a `Breach`.
- `ReapKeepsWorkCorrect`, the same for the reaper: the status it read is still true when
  it removes the worktree by force, so that no reap takes work. What the runtime sweep, a
  manual Stop and a Discard remove is not covered: those do lose work (section 3).
- `MidStartSparedCorrect`, with every actor and fault: no run is reaped while its Start is
  under way, in behaviours where no name is started again while its first launch is in
  flight (`OneStart`).
- `LaunchUntouchedCorrect`: with the runtime sweep and every fault but without Discard, in
  behaviours where no two runs have the same issue or label (`Distinct`).

A `Breach` is one step, of one of two kinds, and each is something the code lets happen.
`KillFails`: a rollback or a reap goes on to take the claim although its kill did nothing
and its session is live. `ClaimTaken`: the runtime sweep or a Discard, which look at git
and tmux and own no claim, take the branch or the worktree of a run that still has to
do with it. So the theorems say more than that the properties hold without sweep, Discard
and failing kills: those actors may come at any time, and only these two steps of theirs
end the promise, as section 3 shows they do. They are stated as `Spec /\ [][~Breach]_vars
=> []X`. Nothing in the code enforces `OneStart` for manual Starts, and `Distinct` fails for
an issue that is rolled back and launched again between two reads of the sweep (section 3).

The invariant `CInv` says who has anything to do with an issue (`OnClaim`): an active row, a
launch past `git worktree add`, a live session, or the reaper between its decision and the
end of its teardown. At most one run at a time does (`Alone`), and unless it is being rolled
back its branch and its worktree are on disk (`OnDisk`); `Spawned`, `Silenced` and `Reaped`
say which kills have happened. `git worktree add -b` then is a lock: it succeeds only when
nobody is on the claim. `Decided` adds that the reaper's reading of the work is still true
when it removes: the session it killed was the only one that could make any (`NobodyWorks`).

For launches in flight, `GuardAll` extends the startguard to manual runs, which is what
`OneStart` is for. `Counted` follows the sweep through its reads: a launch that has a
worktree was marked before the snapshot, or its branch was made after the listing; so
its branch is owned when the sweep comes to act. `DeadCounts` does the same for the
dead-session sweep, whose list in the end holds returned launches only. TLC checked these
invariants on instances of two runs before they were proved.

### Scheduled runs

`SchedulesProofs` proves, for every set of Schedules and runs, every cadence, cap, budget
and cast, any length of the clock, from the six assumptions in `Schedules`:
`SchedulesInvariant`, `OneLiveRunCorrect` (with the types), `SlotFiredOnceCorrect`,
`LatestSlotCorrect` and `EngineWithinCapCorrect`.

The invariant says what each check of a launch is good for until the launch is done.
`Single` and `Room` hold the answers of the overlap check and of the cap check: nobody
but the pass launches a scheduled run, and another launch of the engine waits for the
lock, so both stay true until the row, and the session. `Owing` says that a firing owed
is the last match that was walked over, later than the start of the engine; `Behind`,
that the walk is past every match that was launched, and that the match owed is later
still, but for the launch between its row and its session, whose firing is spent with
the session. A restart and a disabled Schedule forget the memos, and then the first
sighting starts at the clock, which is past every launch (`PassTimes`: the listing read
it after the last one). The greatest element of a set of matches is found by
well-foundedness, as induction is out of reach. Steps that launch nothing and leave the
memos and the pass alone are proved together (`QuietKeeps`), and so are those that only
move the pass on (`PassMoves`).

### Autoland

`AutolandProofs` proves, for any number of pull requests of a branch, any bounds on the
attempts and every set of gestures, from the three assumptions in `Autoland`:
`AutolandInvariant`, `OneWriterCorrect` (with the types), `AttemptsBoundedCorrect`,
`EscalationStandsCorrect` and `HandOffLastCorrect`.

The pass decides on a thread, a review and budgets that may be stale when it launches.
The invariant says which of its answers last. `Alone`: from the gate on the branch to the
launch no run of autoland is on it, since nobody but the pass launches one. Then nobody
can record an escalation either, for only the claim of an escalate run does, so what
`Deciding` keeps, that the last escalation is older than the last re-arm, lasts as well;
a re-arm meanwhile only helps. `Watching` dates the escalation: the reaper's row is the
one it listed, or there was a Stop since, and its moment is not after the last re-arm of
that row's pull. `Counted` relates what was launched to what was recorded: they differ by
the launch whose record is due, and by one for each record that a crash or a failed
write has lost; what is about to be
launched, or recorded, is under the bound, and a re-arm, which zeroes the record, leaves a
launch in flight the whole budget. `Spent` holds the fact a hand-off was decided on,
unless a re-arm came since. The two action properties follow from `Launching`: a run
that starts is the one the pass decided.

### The preview registry

`PreviewsProofs` proves, for every set of runs, names, processes, casts and scenarios, any
number of connections and any limit of names per run, from the four assumptions in
`Previews`: `PreviewsTypeCorrect`, `TunnelOfHolderCorrect`, `EndedHoldsNothingCorrect` and
`StoppedStaysCorrect`.

Neither invariant is inductive. `IInv` adds `Typed`; `Named` (a session and a tombstone
belong to processes of their name); `Fresh` (a connection not opened yet has no
handler); `Linked` (only the latest connection of a process is up, and none while it backs
off); and `Vouched`: an active run has not been ended, and a request that passed
authentication is of a run that lives, whose end is under way, or that the registry
remembers in `ended`. `Vouched` carries `EndedHoldsNothing`: the token was checked
long before `Reserve`, and only the memory of ended runs makes the old answer harmless;
a restart forgets `ended`, but it ends every handler that could profit, and the outcome
that `EndRun` wrote first keeps new ones out. `TunnelOfHolder` follows from the second
check in `Attach`. There is one lemma per action, with one step per conjunct.

`StoppedStays` adds `Buried`: a session that was stopped has its tombstone, or is of a run
the registry remembers as ended, and its name is free. The last part is what makes one
tombstone per name enough: a second Stop overwrites it, but only after somebody reserved
the name in between, and that is where the promise to the first session ends.

### The repository service

`RepositoriesProofs` proves, for every set of scenarios, from the two assumptions in
`Repositories`: `RepositoriesInvariant`, `ReadyGuardedCorrect`, `CloneUndisturbedCorrect`
and `IncogniGuardedCorrect` (with the types).

The first two properties speak of one step, and neither follows without knowing who may be at work
together. `IInv` says it: a Retry past its check holds `mu`, and while somebody holds it
there is no job (`Locked`); nothing but Add touches the repository before Add has
registered its job (`Adding`); a job at work means that the row says cloning or is gone
(`Cloning`), since the status is written before the job leaves the registry; a Retry
clears a failed clone only (`Retrying`); a Delete takes the row before the directory
(`Deleting`); the guard is there before the status (`Guarded`); and nobody is at work
while the process is down (`Rested`). There is one step per action, and the theorems
follow from what each step does to `hook` and `dir`.

`IncogniGuarded` needs a second invariant, `Incogni`, which follows a toggle over its
steps. Without an overlap, and since a start that found the guard in step or installed it, a clone that has read the flag holds the one in the row
(`Apart`); a repository about to be ready has its directory (`OnDisk`), so a toggle that
turns the flag on after the row is on a repository that is neither ready nor past that
reading, and the clone's own guard comes after it; otherwise the guard is written first
(`Toggling`). `Fits` then holds at every moment lab serves, not only at rest. All scenarios
may meet in one behaviour here, where a run explores seven sets of them.

### The change requests

`ChangeRequestsProofs` proves, for every set of heads, change requests and requests under
way, any number of commits and every set of disturbances, from the two assumptions in
`ChangeRequests`: `ChangeRequestsInvariant`, `MergedIsPublishedCorrect`,
`LandsWhileOpenCorrect`, `NothingLostCorrect` and `HeadsSparedCorrect`.

The mutex is the argument. Who is at git holds the mutex of its change request, nobody
else holds one, and while it is held the change request stays open (`Held`): Close takes
the mutex first, and a merge reads the row again once it has it. So what is recorded was
pushed while it was open, and it was pushed: a ref that is not empty (`Landing`), on
origin's base, which only grows. The tail of a merge runs for a merged change request
only (`Recorded`), and its head is that of the request (`About`), hence what `DeleteHead`
deletes. `Spared` is the reason for the order in `gatherRefs`: what the sweep may collect
had no live session when the sessions were listed, a session does not come back, and
only a live one files a change request. `NothingLost` is inductive with one fact from
the types, that the tracking ref never runs ahead of origin. There is one lemma per
group of actions of one shape: a request that moves without the mutex
(`RequestMoves`), one that takes or keeps it (`GitMoves`), one that releases it
(`GitLeaves`), an end of a session (`SessionGoes`).

### Credentials

`CredentialsProofs` proves, for every set of runs, any number of generations and every set
of disturbances, from the two assumptions in `Credentials`: `CredentialsInvariant`,
`NoGhostHomeCorrect` (with the types), `AdoptNoRegressCorrect` and `FamilyKeptCorrect`.

`IInv` has two halves. `Always` holds through every disturbance: the ages of the files are
a strict order that tells them apart (`Ordered`), a CLI lives only in the session of a
live run and what was never injected has nothing to lose (`Housed`), and whoever holds the
mutex works on homes that are not on their way out (`Working`): this half alone gives
`NoGhostHome`. `Calm` holds until the first disturbance (a write of a CLI between injection and stamp is
one: what is stamped must be what was injected, `Clean`) and is a clock argument without a
clock. A family rotates only while its access token is due, and a token comes due only
after a whole tick has passed over it with no home half removed. The tick that watches a
token (`Watched`) comes to every home that had moved before it, so when the next rotation
may happen nothing that moved is left (`InForce`). Hence what an adoption finds is in
force however many candidates there are, the newest of them or not; what is fanned out is in
force but for the first fan-out of a start (`Fanned`); and a home whose signature did not
move holds nothing that the master store has not (`Backed`), so that a wipe, or the poke
that finds the host logged out, loses nothing. The two action properties then follow from
who writes which file (`MasterWrites`, `HomeWrites`), at the first disturbance as well.
`MasterHeals` is liveness, and rests on TLC.

### Cron expressions

`CronProofs` proves, for every set of expressions, every zone, every set of moments to start
from and chains of any length, from the four assumptions in `Cron`: `CronInvariant`,
`OncePerMinuteCorrect` and `NothingSkippedCorrect`. The assumptions say that a field is a
list of items, that a change of the clock is shorter than a day and than the summer, that
an hour read in winter time does not come twice about a midnight (section 4), and that
moments are whole minutes.

The proof has no induction over days. The calendar is a closed form: a day's year follows
from its place in a cycle of 1461 days, its month from the one sum of month lengths that
reaches it, and `DateOf` and `NumberOf` say that dates and numbers of days are inverse.
Hence `nextDay` is the next number, and `nextMonth` passes over days of one month only
(`RestOfMonth`). Local time is a case split on which of the two readings of a minute exist
(`InstantIs`). Where the day, the hour and the minute read back, so does the whole clock,
since a change is shorter than a day (`ReadsBack`); moments that are the reading of their
own minute are in the order of their clocks (`Ascending`), which is `OncePerMinute`; no
earlier day comes back after any moment (`NoDayBack`), which is why the scan may start on
the day of the moment given, and up to the limit the clock shows nothing later than the
limit's (`NothingLater`), which is why it may compare dates to stop.

`Masks` says that a mask selects a value where the text does: ranges by step become
remainders (`Progression`), and 7 is folded onto 0. `Due` then turns the reading of a day
minute by minute into the tests that the code makes. The invariant holds what a turn of the
loop leaves behind: the masks are those of the text (`Read`), the moments returned are
readings of their own minutes and in order (`Chain`), and nothing was due on a day between
that of the moment given and the cursor (`Scanned`). A day without a hit has nothing due
(`NoHit`), and the least candidate of a day is the first moment due on it (`Hit`), though
candidates are ordered by the wall clock and firings by time.

### Only model-checked

Liveness and fairness are out of the prover's reach: `ZombieDrained` and `DeadRunReaped` of
`Lab`, `LoopEnds` of `Autoland`, `Settles` of `Previews`, `CallsReturn` of `ChangeRequests`,
`MasterHeals` of `Credentials` and `CallEnds` of `Repositories`. Every invariant and
every action property that a run checks is proved as well, but for `NoWorkLost` of `Lab`: it is
checked where no sweep, Discard or manual run takes part, and `ReapKeepsWorkCorrect` proves
what is left of it beside them. The two findings are properties that the code does not
have.

## 7. Plan

Done: the runs of one repository and `RunLedger`; `Schedules`; `Autoland`; `Previews`;
`ChangeRequests`; `Credentials`; `Cron`; `Repositories`; proofs about all of them.

Next, in this order:

1. The agent API's tokens against Stop, reap and rollback, on top of `Lab`.
2. `Events` and `Pull`: a lossy fan-out, and single flight.
3. The identities of a repository at the gateway and the bastion, on top of `Repositories`.

## 8. Not modelled

In `Lab`: the instance cap, the failure pause and the readiness checks (they only
refuse a launch; here every launch they could allow happens); lander, fix,
escalate and scheduled runs; change-request heads that the sweep of a builtin
tracker also protects; containers, credential files, bastion keys and exposures
of a run; notifications and metrics; failing writes to the store, which the code
logs and does not retry, a `DeleteRun` that fails in a rollback among them. An operator serves one request at a time, so two
concurrent Stops are not explored.

In `Schedules`: prompts, knobs and their resolution, the missed-slot log, a cadence
that is edited, the creation of a Schedule; clocks that step back (the walk skips
until they have caught up); sessions whose kill fails, and the names of sessions.

In `Autoland`: prompts, labels and the provider chain of a run; the pause after failures; the teardown of its
claim; merges of a forge that fail half way. In `Previews`: the bytes that are
proxied, and the keepalive timers (a dropped link is noticed at some point). In
`ChangeRequests`: authors, messages, diffs and credentials of a push (each failure is one
failure), and several heads, which share only the base. In `Credentials`: more than one
provider, and the durations of ticks and pokes. In `Cron`: the month and weekday
names of a field, which are their numbers. In `Repositories`: settings other than incogni,
the default branch a clone detects, the identities at the gateway and the bastion, and
several repositories at once, which share `mu` and imports only.

Elsewhere: request parsing and rendering (`httpapi`, most of `agentapi`, `labctl`, web),
clients of outside services (`tracker`, `warpgate`, `onecli`, `provider`), file and
command plumbing (most of `seeder`, `podmanx`, `vault`, `fsx`), and helpers. They hold
no state of their own that several actors share, or hold it on another machine. `events`
loses hints by design, and every subscriber re-reads; `presence` and `push` decide who is
told; `pull` hands one podman process to several waiters.
