--------------------------------- MODULE Lab ---------------------------------
(***************************************************************************)
(* One repository of lab, whole: launches, the reaper goroutine, the       *)
(* reconcile loops, operator requests and restarts, interleaved with the   *)
(* agents working in the live sessions and with the forge.                 *)
(***************************************************************************)
EXTENDS Launch, Reaper, Reconcile, Operator

(***************************************************************************)
(* The agents and the forge: everything lab does not do itself.            *)
(***************************************************************************)
AgentEdits(n) ==
  /\ n \in Live
  /\ worktree[Target(n)] = "clean"
  /\ worktree' = [worktree EXCEPT ![Target(n)] = "dirty"]
  /\ UNCHANGED branch

AgentCommits(n) ==
  /\ n \in Live
  /\ worktree[Target(n)] = "dirty"
  /\ worktree' = [worktree EXCEPT ![Target(n)] = "clean"]
  /\ branch' = [branch EXCEPT ![Target(n)] = "ahead"]

AgentWorks ==
  /\ \E n \in Names : AgentEdits(n) \/ AgentCommits(n)
  /\ UNCHANGED <<storeVars, session, pulls, lockVars, pc, reaper, sweep, op, dead>>

\* A pull request is opened from a claim branch that carries work.
OpenPull(n) ==
  /\ n \in Live
  /\ Target(n) \in Issues \ pulls
  /\ branch[Target(n)] = "ahead"
  /\ pulls' = pulls \cup {Target(n)}
  /\ UNCHANGED <<storeVars, session, branch, worktree, lockVars, pc, reaper, sweep, op, dead>>

\* The pull request is merged: the branch is contained in mainline.
MergePull(t) ==
  /\ t \in pulls
  /\ branch[t] = "ahead"
  /\ branch' = [branch EXCEPT ![t] = "merged"]
  /\ UNCHANGED <<storeVars, session, worktree, pulls, lockVars, pc, reaper, sweep, op, dead>>

\* The agent process ends, for whatever reason.
SessionExits(n) ==
  /\ n \in Live
  /\ session' = Killed(n)
  /\ UNCHANGED <<storeVars, gitVars, lockVars, pc, reaper, sweep, op, dead>>

AgentNext ==
  \/ AgentWorks
  \/ \E n \in Names : OpenPull(n) \/ SessionExits(n)
  \/ \E t \in Issues : MergePull(t)

Next ==
  \/ LaunchNext \/ ReaperNext \/ SweepNext \/ DeadNext \/ OperatorNext
  \/ Restart \/ AgentNext

Spec == Init /\ [][Next]_vars

(***************************************************************************)
(* Fairness.  Launches and requests in flight run to completion; the       *)
(* reaper's ticker keeps firing.  Strong fairness stands for what a later  *)
(* tick gets right after earlier ticks could not: reading the tracker, the *)
(* store and tmux, taking runsMu (Go mutexes starve nobody), killing.      *)
(***************************************************************************)
Fairness ==
  /\ \A r \in Runs : WF_vars(LaunchStep(r)) /\ SF_vars(ReapRead(r))
  /\ WF_vars(OperatorStep)
  /\ WF_vars(ReapList) /\ WF_vars(ReaperStep)
  /\ SF_vars(ClaimRow) /\ SF_vars(ClaimGuard) /\ SF_vars(ClaimOutcome)
  /\ SF_vars(DrainRow)
  /\ SF_vars(DrainKill /\ session' = Killed(reaper.zombie))

LiveSpec == Spec /\ Fairness

(***************************************************************************)
(* Safety.                                                                 *)
(***************************************************************************)
AFK(r) == name[r] # NoName /\ Kind(name[r]) \in AFKKinds

InFlight(r) == pc[r] \in {"selected"} \cup MidStart

\* At most one auto run per repository is launching or active.  The gate
\* (ActiveAutoRunForRepo) sees only rows, and a launch has no row for most of
\* its way: afk.launch relies on mu being held from the gate to the return.
AutoInFlight == {r \in Runs : /\ AFK(r) /\ Kind(name[r]) = "afk_auto"
                              /\ outcome[r] = "active" \/ InFlight(r)}
OneAutoRun == \A r1, r2 \in AutoInFlight : r1 = r2

\* classifyAndClaim never ends an AFK run whose Launch has not returned: the
\* row is active before the session is live, and only the startguard tells
\* such a run from a dead one.
ReapedAfterLaunch ==
  [][\A r \in Runs : AFK(r) /\ outcome[r] = "active" /\ outcome'[r] \in Terminal \ {"stopped"}
                     => pc'[r] = "done"]_vars

\* The first terminal outcome of a run is final, although the reaper, Stop,
\* Discard, the dead-session sweep and a restart all write outcomes and share
\* no lock.  Only the run's own rollback may still delete the row.
OutcomeFinal ==
  [][\A r \in Runs : outcome[r] \in Terminal /\ pc[r] # "rb_row" => outcome'[r] = outcome[r]]_vars

\* The branch is the claim: no two AFK runs hold the same issue, from the
\* moment `git worktree add -b` succeeded to the end of the run or of its
\* rollback.
HoldsClaim(r) == outcome[r] = "active" \/ pc[r] \in {"claimed"} \cup RollingBack

ClaimExclusive ==
  \A r1, r2 \in Runs : /\ r1 # r2 /\ AFK(r1) /\ AFK(r2)
                       /\ HoldsClaim(r1) /\ HoldsClaim(r2)
                       => Target(name[r1]) # Target(name[r2])

\* An active AFK run that is not being rolled back has its claim branch and
\* its worktree on disk, across restarts too: no teardown of another thread
\* (Pass A, Pass B, an earlier run's reap) takes them away.
ClaimHeld ==
  \A r \in Runs : AFK(r) /\ outcome[r] = "active" /\ pc[r] \notin RollingBack
                  => branch[Target(name[r])] # "absent" /\ worktree[Target(name[r])] # "none"

\* A launched, active AFK run whose name is live in tmux is the run that
\* spawned that session: runner.Start accepts a name that is already live, so
\* a session left behind by an earlier run of the issue would be adopted.
SessionOwner ==
  \A r \in Runs : /\ AFK(r) /\ outcome[r] = "active" /\ pc[r] = "done"
                  /\ session[name[r]] # NoRun
                  => session[name[r]] = r

\* Guarded teardown loses no work: an uncommitted change or a commit that is
\* not merged goes only with a launch that rolls back, although the status is
\* read before the worktree is removed by force.
RollsBack(t) == \E r \in Runs : pc[r] \in RollingBack /\ Target(name[r]) = t

NoWorkLost ==
  [][\A t \in Targets :
       /\ worktree[t] = "dirty" /\ worktree'[t] = "none" => RollsBack(t)
       /\ branch[t] = "ahead" /\ branch'[t] = "absent" => RollsBack(t)]_vars

\* The zombie drain kills no session that belongs to an active run or to a
\* launch in flight: drainZombies leaves a mid-Launch session alone
\* (reaper.go:197), but checks guard and row before it kills.
DrainSpares ==
  [][reaper.pc = "kill_z" /\ reaper.zombie \in Live /\ session'[reaper.zombie] = NoRun
       /\ reaper'.pc = "drain"
     => reaper.zombie \notin starting /\ RunBySession(reaper.zombie) = {}]_vars

\* The sweeps act on readings that are older than what they decide, and never hit
\* a launch: the runtime sweep does not take the worktree of a launch in flight,
\* and the dead-session sweep does not reap a manual run mid-Start, whose row is
\* active before its session is live ("a run mid-Start must never be reaped",
\* reconcile/sweep.go:110).
LaunchUntouched ==
  [][\A r \in Runs :
       /\ AFK(r) /\ pc[r] \in Building \ {"marked"} /\ pc'[r] # "done"
            /\ worktree[Target(name[r])] # "none" => worktree'[Target(name[r])] # "none"
       /\ name[r] # NoName /\ outcome[r] = "active" /\ outcome'[r] = "death" => pc'[r] = "done"]_vars

\* The launches the ledger counts: a rollback leaves it with its row.
Launching(r) == InFlight(r) /\ pc[r] # "rb_wipe"

\* The runs ledger of a repository, as RunLedger states it.
Ledger == INSTANCE RunLedger WITH
  kind <- [r \in Runs |-> IF name[r] = NoName THEN "none" ELSE Kind(name[r])],
  ledger <- outcome,
  launching <- {r \in Runs : Launching(r)}

\* Every thread of lab keeps to the ledger's rules: a row is written by its
\* launch, ended once, and no AFK run is ended under its own launch.
KeepsLedger == Ledger!LedgerSpec

(***************************************************************************)
(* Liveness.                                                               *)
(***************************************************************************)

\* A session whose kill failed after its run ended is drained in the end,
\* unless its name comes to belong to a launch or a run again.
Zombie(n) == n \in Live /\ RunBySession(n) = {} /\ n \notin starting

ZombieDrained == \A n \in Names : Zombie(n) ~> ~Zombie(n)

\* A launched AFK run whose session is gone is ended in the end.
Orphan(r) == AFK(r) /\ outcome[r] = "active" /\ pc[r] = "done" /\ session[name[r]] = NoRun

DeadRunReaped == \A r \in Runs : Orphan(r) ~> outcome[r] # "active"

(***************************************************************************)
(* A claim of the repository the code does not keep.                       *)
(***************************************************************************)

\* A stopped AFK run's claim branch is kept (afk/stop.go:15-17).
StopKeepsClaim ==
  [][\A r \in Runs : AFK(r) /\ outcome[r] = "stopped" /\ branch[Target(name[r])] # "absent"
       => branch'[Target(name[r])] # "absent"]_vars
=============================================================================
