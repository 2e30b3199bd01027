------------------------------- MODULE Reaper -------------------------------
(***************************************************************************)
(* afk.ReapOnce, one goroutine: classify every active AFK run and reap the *)
(* finished ones, then drain zombie sessions.                              *)
(*                                                                         *)
(* The done signal is read from the tracker without any lock.  The         *)
(* decision is made under runsMu in three reads that other threads can     *)
(* slip between (the row, the startguard, liveness), and its side effects  *)
(* run after the lock is released.                                         *)
(***************************************************************************)
EXTENDS LabState

idle == reaper.pc = "idle" /\ sweep.pc = "idle"

\* Mutant of Classify: a session that is gone is no longer a death.
ClassifyNoDeath(prPresent, sessionAlive, late) ==
  IF prPresent THEN "success"
  ELSE IF sessionAlive /\ late THEN "timeout" ELSE "running"

\* The terminal outcome of a run, or "running".
Classify(prPresent, sessionAlive, late) ==
  CASE prPresent -> "success"
    [] ~prPresent /\ ~sessionAlive -> "death"
    [] ~prPresent /\ sessionAlive /\ late -> "timeout"
    [] OTHER -> "running"

ReapList ==
  /\ "reaper" \in Actors
  /\ idle
  /\ reaper' = [idleReaper EXCEPT !.pc = "next", !.todo = ActiveAFKRuns]
  /\ UNCHANGED <<storeVars, session, gitVars, lockVars, pc, sweep, op, dead>>

\* PullsForHead, unlocked: the done signal classifyAndClaim is given.
ReapRead(r) ==
  /\ reaper.pc = "next"
  /\ r \in reaper.todo
  /\ reaper' = [reaper EXCEPT !.pc = "locked", !.todo = @ \ {r}, !.run = r,
                              !.done = Target(name[r]) \in pulls]
  /\ UNCHANGED <<storeVars, session, gitVars, lockVars, pc, sweep, op, dead>>

\* An unreadable tracker skips the run for this tick.
ReapSkip(r) ==
  /\ reaper.pc = "next"
  /\ r \in reaper.todo
  /\ reaper' = [reaper EXCEPT !.todo = @ \ {r}]
  /\ UNCHANGED <<storeVars, session, gitVars, lockVars, pc, sweep, op, dead>>

toNext == [reaper EXCEPT !.pc = "next", !.run = NoRun, !.done = FALSE, !.alive = FALSE,
                         !.act = KeepBoth, !.outcome = "none"]

\* classifyAndClaim takes runsMu and re-reads the row by session name.
ClaimRow ==
  /\ reaper.pc = "locked"
  /\ runsMu = "free"
  /\ reaper.run \in RunBySession(name[reaper.run])
  /\ runsMu' = "reaper"
  /\ reaper' = [reaper EXCEPT !.pc = "guard"]
  /\ UNCHANGED <<storeVars, session, gitVars, starting, mu, pc, sweep, op, dead>>

\* Mutant of ClaimGuard: the startguard is not consulted.
ClaimGuardUnchecked ==
  /\ reaper.pc = "guard"
  /\ reaper' = [reaper EXCEPT !.pc = "classify"]
  /\ UNCHANGED <<storeVars, session, gitVars, lockVars, pc, sweep, op, dead>>

\* A name in the starting set is mid-Launch.
ClaimGuard ==
  /\ reaper.pc = "guard"
  /\ name[reaper.run] \notin starting
  /\ reaper' = [reaper EXCEPT !.pc = "classify"]
  /\ UNCHANGED <<storeVars, session, gitVars, lockVars, pc, sweep, op, dead>>

\* The classification and the claim: EndRun on a row that is still active.
\* late stands for now >= budget deadline; a run seen late is ended at once,
\* so time needs no variable.
ClaimOutcome ==
  LET r == reaper.run
      alive == session[name[r]] # NoRun
  IN
  /\ reaper.pc = "classify"
  /\ outcome[r] = "active"
  /\ \E late \in BOOLEAN :
       LET o == Classify(reaper.done, alive, late) IN
       /\ o # "running"
       /\ EndRun(r, o)
       /\ reaper' = [reaper EXCEPT !.pc = "stop", !.alive = alive, !.outcome = o]
  /\ runsMu' = "free"
  /\ UNCHANGED <<name, tokens, homes, failures, session, gitVars, starting, mu, pc,
                 sweep, op, dead>>

\* The run is left alone this tick: no row, another run's row, mid-Launch,
\* still running, ended meanwhile, or the store or tmux cannot be read.
ClaimDeclined ==
  /\ \/ reaper.pc = "locked" /\ runsMu = "free"
     \/ reaper.pc \in {"guard", "classify"}
  /\ runsMu' = "free"
  /\ reaper' = toNext
  /\ UNCHANGED <<storeVars, session, gitVars, starting, mu, pc, sweep, op, dead>>

(***************************************************************************)
(* reapRun: the side effects of a claimed outcome.                         *)
(***************************************************************************)
ReapStop ==
  /\ reaper.pc = "stop"
  /\ IF reaper.alive THEN StopSession(name[reaper.run]) ELSE UNCHANGED session
  /\ reaper' = [reaper EXCEPT !.pc = "teardown", !.alive = FALSE]
  /\ UNCHANGED <<storeVars, gitVars, lockVars, pc, sweep, op, dead>>

ReapTeardown ==
  /\ reaper.pc = "teardown"
  /\ reaper' = [reaper EXCEPT !.pc = "remove",
                              !.act = TeardownDecision(Target(name[reaper.run]))]
  /\ UNCHANGED <<storeVars, session, gitVars, lockVars, pc, sweep, op, dead>>

ReapRemove ==
  /\ reaper.pc = "remove"
  /\ TeardownApply(Target(name[reaper.run]), reaper.act)
  /\ reaper' = [reaper EXCEPT !.pc = "wipe", !.act = KeepBoth]
  /\ UNCHANGED <<storeVars, session, pulls, lockVars, pc, sweep, op, dead>>

ReapWipe ==
  /\ reaper.pc = "wipe"
  /\ tokens' = tokens \ {reaper.run}
  /\ homes' = homes \ {reaper.run}
  /\ reaper' = [reaper EXCEPT !.pc = "count"]
  /\ UNCHANGED <<name, outcome, failures, session, gitVars, lockVars, pc, sweep, op, dead>>

\* The consecutive-failure counter, then the next run of the tick.
ReapCount ==
  /\ reaper.pc = "count"
  /\ failures' = IF reaper.outcome = "success" THEN 0 ELSE failures + 1
  /\ reaper' = toNext
  /\ UNCHANGED <<name, outcome, tokens, homes, session, gitVars, lockVars, pc,
                 sweep, op, dead>>

(***************************************************************************)
(* drainZombies: kill live sessions that have no active row and are not    *)
(* mid-Launch.                                                             *)
(***************************************************************************)
DrainList ==
  /\ reaper.pc = "next"
  /\ reaper.todo = {}
  /\ reaper' = [reaper EXCEPT !.pc = "drain", !.names = Live]
  /\ UNCHANGED <<storeVars, session, gitVars, lockVars, pc, sweep, op, dead>>

toDrain == [reaper EXCEPT !.pc = "drain", !.zombie = NoName]

DrainNext(n) ==
  /\ reaper.pc = "drain"
  /\ n \in reaper.names
  /\ reaper' = [reaper EXCEPT !.pc = "guard_z", !.names = @ \ {n}, !.zombie = n]
  /\ UNCHANGED <<storeVars, session, gitVars, lockVars, pc, sweep, op, dead>>

DrainGuard ==
  /\ reaper.pc = "guard_z"
  /\ reaper.zombie \notin starting
  /\ reaper' = [reaper EXCEPT !.pc = "row_z"]
  /\ UNCHANGED <<storeVars, session, gitVars, lockVars, pc, sweep, op, dead>>

\* Mutant of DrainRow: a row of any outcome counts as an owner.
DrainRowAnyOutcome ==
  /\ reaper.pc = "row_z"
  /\ \A r \in Runs : ~(name[r] = reaper.zombie /\ outcome[r] # "none")
  /\ reaper' = [reaper EXCEPT !.pc = "kill_z"]
  /\ UNCHANGED <<storeVars, session, gitVars, lockVars, pc, sweep, op, dead>>

DrainRow ==
  /\ reaper.pc = "row_z"
  /\ RunBySession(reaper.zombie) = {}
  /\ reaper' = [reaper EXCEPT !.pc = "kill_z"]
  /\ UNCHANGED <<storeVars, session, gitVars, lockVars, pc, sweep, op, dead>>

\* Mid-Launch, owned by an active run, or an unreadable row: not a zombie.
DrainSkip ==
  /\ \/ reaper.pc = "guard_z" /\ reaper.zombie \in starting
     \/ reaper.pc = "row_z"
  /\ reaper' = toDrain
  /\ UNCHANGED <<storeVars, session, gitVars, lockVars, pc, sweep, op, dead>>

DrainKill ==
  /\ reaper.pc = "kill_z"
  /\ StopSession(reaper.zombie)
  /\ reaper' = toDrain
  /\ UNCHANGED <<storeVars, gitVars, lockVars, pc, sweep, op, dead>>

\* End of the tick.
DrainDone ==
  /\ reaper.pc = "drain"
  /\ reaper.names = {}
  /\ reaper' = idleReaper
  /\ UNCHANGED <<storeVars, session, gitVars, lockVars, pc, sweep, op, dead>>

ReaperStep ==
  \/ \E r \in Runs : ReapRead(r) \/ ReapSkip(r)
  \/ ClaimRow \/ ClaimGuard \/ ClaimOutcome \/ ClaimDeclined
  \/ ReapStop \/ ReapTeardown \/ ReapRemove \/ ReapWipe \/ ReapCount
  \/ DrainList \/ DrainGuard \/ DrainRow \/ DrainSkip \/ DrainKill \/ DrainDone
  \/ \E n \in Names : DrainNext(n)

ReaperNext == ReapList \/ ReaperStep
=============================================================================
