----------------------------- MODULE Reconcile ------------------------------
(***************************************************************************)
(* internal/reconcile: the throttled runtime sweep (it runs on the reaper  *)
(* goroutine, between two ticks), the dead-session sweep of manual runs (a *)
(* goroutine of its own), and the startup reconciliation that follows a    *)
(* restart of the lab process.                                             *)
(*                                                                         *)
(* The sweep decides on reads taken in a fixed order (branches, worktrees, *)
(* the starting snapshot, and the live sessions last) and acts on them     *)
(* afterwards, branch by branch.                                           *)
(***************************************************************************)
EXTENDS LabState

(***************************************************************************)
(* RuntimeSweep: gatherRefs.                                               *)
(***************************************************************************)
SweepBranches ==
  /\ "sweep" \in Actors
  /\ reaper.pc = "idle" /\ sweep.pc = "idle"
  /\ sweep' = [idleSweep EXCEPT !.pc = "worktrees",
                                !.branches = {t \in Targets : branch[t] # "absent"}]
  /\ UNCHANGED <<storeVars, session, gitVars, lockVars, pc, reaper, op, dead>>

SweepWorktrees ==
  /\ sweep.pc = "worktrees"
  /\ sweep' = [sweep EXCEPT !.pc = "snapshot",
                            !.worktrees = {t \in Targets : worktree[t] # "none"}]
  /\ UNCHANGED <<storeVars, session, gitVars, lockVars, pc, reaper, op, dead>>

\* Mutant of SweepSnapshot: launches in flight are not counted as owners.
SweepSnapshotEmpty ==
  /\ sweep.pc = "snapshot"
  /\ sweep' = [sweep EXCEPT !.pc = "list"]
  /\ UNCHANGED <<storeVars, session, gitVars, lockVars, pc, reaper, op, dead>>

SweepSnapshot ==
  /\ sweep.pc = "snapshot"
  /\ sweep' = [sweep EXCEPT !.pc = "list", !.starting = starting]
  /\ UNCHANGED <<storeVars, session, gitVars, lockVars, pc, reaper, op, dead>>

SweepList ==
  /\ sweep.pc = "list"
  /\ sweep' = [sweep EXCEPT !.pc = "next", !.starting = {},
                            !.owned = ownedBranches(sweep.starting \cup Live)]
  /\ UNCHANGED <<storeVars, session, gitVars, lockVars, pc, reaper, op, dead>>

\* sweepProject, one branch: merged-only, owned branches never touched.  A
\* branch that had a worktree goes through the guarded teardown, whose
\* status and merged reads are taken here.
SweepBranch(t) ==
  /\ sweep.pc = "next"
  /\ t \in sweep.branches
  /\ LET rest == [sweep EXCEPT !.branches = @ \ {t}] IN
     IF t \in sweep.owned \/ ~BranchMerged(t)
     THEN sweep' = rest /\ UNCHANGED branch
     ELSE IF t \in sweep.worktrees
     THEN /\ sweep' = [rest EXCEPT !.pc = "remove", !.target = t,
                                   !.act = TeardownDecision(t)]
          /\ UNCHANGED branch
     ELSE DeleteBranch(t) /\ sweep' = rest
  /\ UNCHANGED <<storeVars, session, worktree, pulls, lockVars, pc, reaper, op, dead>>

SweepRemove ==
  /\ sweep.pc = "remove"
  /\ TeardownApply(sweep.target, sweep.act)
  /\ sweep' = [sweep EXCEPT !.pc = "next", !.target = NoName, !.act = KeepBoth]
  /\ UNCHANGED <<storeVars, session, pulls, lockVars, pc, reaper, op, dead>>

\* The home keep-set: active runs live in tmux, plus the homes too young to
\* reap, which cover every launch in flight.
Kept == {r \in ActiveRuns : name[r] \in Live}

SweepHomes ==
  /\ sweep.pc = "next"
  /\ sweep.branches = {}
  /\ \E young \in SUBSET homes :
       /\ {r \in homes : pc[r] \in MidStart} \subseteq young
       /\ homes' = homes \cap (Kept \cup young)
  /\ sweep' = idleSweep
  /\ UNCHANGED <<name, outcome, tokens, failures, session, gitVars, lockVars, pc,
                 reaper, op, dead>>

SweepStep ==
  \/ SweepWorktrees \/ SweepSnapshot \/ SweepList \/ SweepRemove \/ SweepHomes
  \/ \E t \in Targets : SweepBranch(t)

SweepNext == SweepBranches \/ SweepStep

(***************************************************************************)
(* sweepDeadSessions: rows first, then the starting snapshot, tmux last.   *)
(***************************************************************************)
DeadRows ==
  /\ "deadsweep" \in Actors
  /\ dead.pc = "idle"
  /\ dead' = [idleDead EXCEPT !.pc = "snapshot",
                              !.runs = {r \in ActiveRuns : Kind(name[r]) = "manual"}]
  /\ UNCHANGED <<storeVars, session, gitVars, lockVars, pc, reaper, sweep, op>>

DeadSnapshot ==
  /\ dead.pc = "snapshot"
  /\ dead' = [dead EXCEPT !.pc = "list", !.owned = starting]
  /\ UNCHANGED <<storeVars, session, gitVars, lockVars, pc, reaper, sweep, op>>

DeadList ==
  /\ dead.pc = "list"
  /\ dead' = [dead EXCEPT !.pc = "end", !.owned = {},
                !.runs = {r \in dead.runs : name[r] \notin dead.owned \cup Live}]
  /\ UNCHANGED <<storeVars, session, gitVars, lockVars, pc, reaper, sweep, op>>

DeadEnd(r) ==
  /\ dead.pc = "end"
  /\ r \in dead.runs
  /\ EndRun(r, "death")
  /\ dead' = [dead EXCEPT !.runs = @ \ {r}]
  /\ UNCHANGED <<name, tokens, homes, failures, session, gitVars, lockVars, pc,
                 reaper, sweep, op>>

DeadDone ==
  /\ dead.pc = "end"
  /\ dead.runs = {}
  /\ dead' = idleDead
  /\ UNCHANGED <<storeVars, session, gitVars, lockVars, pc, reaper, sweep, op>>

DeadStep ==
  DeadSnapshot \/ DeadList \/ DeadDone \/ \E r \in Runs : DeadEnd(r)

DeadNext == DeadRows \/ DeadStep

(***************************************************************************)
(* The lab process dies at any point and comes back.  Its memory is gone:  *)
(* the startguard, both locks, every launch, request and loop.  tmux       *)
(* sessions outlive the process, or die with the host.  StartupReconcile   *)
(* then runs before anything else of lab does: re-adoption, Pass A, Pass B *)
(* and the home keep-set cleanup.                                          *)
(***************************************************************************)
Restart ==
  /\ "restart" \in Actors
  /\ session' \in {session, [n \in Names |-> NoRun]}
  /\ LET alive == {n \in Names : session'[n] # NoRun}
         owned == ownedBranches(alive)
     IN
     /\ outcome' = [r \in Runs |-> IF outcome[r] = "active" /\ name[r] \notin alive
                                   THEN "death" ELSE outcome[r]]
     \* Pass A tears down, guarded, every worktree no live session owns.
     /\ worktree' = [t \in Targets |->
          IF t \notin owned /\ TeardownDecision(t).worktree THEN "none" ELSE worktree[t]]
     \* Pass A for a branch with a worktree, Pass B for a bare one.
     /\ branch' = [t \in Targets |->
          IF /\ t \notin owned
             /\ IF worktree[t] = "none" THEN BranchMerged(t) ELSE TeardownDecision(t).branch
          THEN "absent" ELSE branch[t]]
     /\ \E young \in SUBSET homes :
          homes' = homes \cap (young \cup {r \in Runs : outcome[r] = "active" /\ name[r] \in alive})
  /\ pc' = [r \in Runs |-> IF pc[r] = "idle" THEN "idle" ELSE "done"]
  /\ starting' = {} /\ mu' = NoRun /\ runsMu' = "free"
  /\ reaper' = idleReaper /\ sweep' = idleSweep /\ op' = idleOp /\ dead' = idleDead
  /\ UNCHANGED <<name, tokens, failures, pulls>>
=============================================================================
