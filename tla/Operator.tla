------------------------------ MODULE Operator ------------------------------
(***************************************************************************)
(* The operator requests that end runs, one in flight at a time:           *)
(*                                                                         *)
(*   - Stop on an AFK session (afk.StopAFK): neutral.  The row is ended    *)
(*     before the session is killed, all under runsMu; worktree and claim  *)
(*     branch stay.                                                        *)
(*   - Stop on a manual session (instance.teardownManualRun): unlocked;    *)
(*     the session is killed and the worktree torn down first.             *)
(*   - Discard (reconcile.Discard): the unguarded destroyer of one branch. *)
(***************************************************************************)
EXTENDS LabState

StopAFK(n, r) ==
  /\ "stop" \in Actors
  /\ op.pc = "idle"
  /\ runsMu = "free"
  /\ Kind(n) \in AFKKinds
  /\ r \in RunBySession(n)
  /\ runsMu' = "operator"
  /\ EndRun(r, "stopped")
  /\ op' = [idleOp EXCEPT !.pc = "tokens_a", !.run = r, !.name = n]
  /\ UNCHANGED <<name, tokens, homes, failures, session, gitVars, starting, mu, pc,
                 reaper, sweep, dead>>

StopAFKTokens ==
  /\ op.pc = "tokens_a"
  /\ tokens' = tokens \ {op.run}
  /\ op' = [op EXCEPT !.pc = "stop_a"]
  /\ UNCHANGED <<name, outcome, homes, failures, session, gitVars, lockVars, pc,
                 reaper, sweep, dead>>

StopAFKSession ==
  /\ op.pc = "stop_a"
  /\ StopSession(op.name)
  /\ op' = [op EXCEPT !.pc = "wipe_a"]
  /\ UNCHANGED <<storeVars, gitVars, lockVars, pc, reaper, sweep, dead>>

StopAFKWipe ==
  /\ op.pc = "wipe_a"
  /\ homes' = homes \ {op.run}
  /\ runsMu' = "free"
  /\ op' = idleOp
  /\ UNCHANGED <<name, outcome, tokens, failures, session, gitVars, starting, mu, pc,
                 reaper, sweep, dead>>

StopManual(n, r) ==
  /\ "stop" \in Actors
  /\ op.pc = "idle"
  /\ Kind(n) = "manual"
  /\ r \in RunBySession(n)
  /\ op' = [idleOp EXCEPT !.pc = "stop_m", !.run = r, !.name = n]
  /\ UNCHANGED <<storeVars, session, gitVars, lockVars, pc, reaper, sweep, dead>>

StopManualSession ==
  /\ op.pc = "stop_m"
  /\ StopSession(op.name)
  /\ op' = [op EXCEPT !.pc = "teardown_m"]
  /\ UNCHANGED <<storeVars, gitVars, lockVars, pc, reaper, sweep, dead>>

StopManualTeardown ==
  /\ op.pc = "teardown_m"
  /\ op' = [op EXCEPT !.pc = "remove_m", !.act = TeardownDecision(Target(op.name))]
  /\ UNCHANGED <<storeVars, session, gitVars, lockVars, pc, reaper, sweep, dead>>

StopManualRemove ==
  /\ op.pc = "remove_m"
  /\ TeardownApply(Target(op.name), op.act)
  /\ op' = [op EXCEPT !.pc = "end_m", !.act = KeepBoth]
  /\ UNCHANGED <<storeVars, session, pulls, lockVars, pc, reaper, sweep, dead>>

StopManualEnd ==
  /\ op.pc = "end_m"
  /\ EndRun(op.run, "stopped")
  /\ op' = [op EXCEPT !.pc = "wipe_m"]
  /\ UNCHANGED <<name, tokens, homes, failures, session, gitVars, lockVars, pc,
                 reaper, sweep, dead>>

StopManualWipe ==
  /\ op.pc = "wipe_m"
  /\ tokens' = tokens \ {op.run}
  /\ homes' = homes \ {op.run}
  /\ op' = idleOp
  /\ UNCHANGED <<name, outcome, failures, session, gitVars, lockVars, pc,
                 reaper, sweep, dead>>

(***************************************************************************)
(* Discard: kill the live sessions on the branch (a run is only ended when *)
(* its session is live), then force-remove the worktree, then force-delete *)
(* the branch.                                                             *)
(***************************************************************************)
Discard(t) ==
  /\ "discard" \in Actors
  /\ op.pc = "idle"
  /\ branch[t] # "absent"
  /\ op' = [idleOp EXCEPT !.pc = "kill_d", !.target = t,
                          !.names = {n \in Live : Target(n) = t}]
  /\ UNCHANGED <<storeVars, session, gitVars, lockVars, pc, reaper, sweep, dead>>

DiscardKill(n) ==
  /\ op.pc = "kill_d"
  /\ n \in op.names
  /\ StopSession(n)
  /\ op' = [op EXCEPT !.pc = "row_d", !.names = @ \ {n}, !.name = n]
  /\ UNCHANGED <<storeVars, gitVars, lockVars, pc, reaper, sweep, dead>>

\* The row of the session that was killed, if one is still active.
DiscardRow ==
  /\ op.pc = "row_d"
  /\ \/ /\ RunBySession(op.name) = {}
        /\ op' = [op EXCEPT !.pc = "kill_d", !.name = NoName]
     \/ \E r \in RunBySession(op.name) : op' = [op EXCEPT !.pc = "end_d", !.run = r]
  /\ UNCHANGED <<storeVars, session, gitVars, lockVars, pc, reaper, sweep, dead>>

DiscardEnd ==
  /\ op.pc = "end_d"
  /\ EndRun(op.run, "stopped")
  /\ op' = [op EXCEPT !.pc = "tokens_d"]
  /\ UNCHANGED <<name, tokens, homes, failures, session, gitVars, lockVars, pc,
                 reaper, sweep, dead>>

DiscardTokens ==
  /\ op.pc = "tokens_d"
  /\ tokens' = tokens \ {op.run}
  /\ op' = [op EXCEPT !.pc = "wipe_d"]
  /\ UNCHANGED <<name, outcome, homes, failures, session, gitVars, lockVars, pc,
                 reaper, sweep, dead>>

DiscardWipe ==
  /\ op.pc = "wipe_d"
  /\ homes' = homes \ {op.run}
  /\ op' = [op EXCEPT !.pc = "kill_d", !.run = NoRun, !.name = NoName]
  /\ UNCHANGED <<name, outcome, tokens, failures, session, gitVars, lockVars, pc,
                 reaper, sweep, dead>>

\* A failed remove ends the request with an error: the branch is kept.
DiscardWorktree ==
  /\ op.pc = "kill_d"
  /\ op.names = {}
  /\ RemoveWorktree(op.target)
  /\ op' = IF worktree'[op.target] = "none"
           THEN [op EXCEPT !.pc = "branch_d"] ELSE idleOp
  /\ UNCHANGED <<storeVars, session, branch, pulls, lockVars, pc, reaper, sweep, dead>>

DiscardBranch ==
  /\ op.pc = "branch_d"
  /\ DeleteBranch(op.target)
  /\ op' = idleOp
  /\ UNCHANGED <<storeVars, session, worktree, pulls, lockVars, pc, reaper, sweep, dead>>

OperatorStep ==
  \/ StopAFKTokens \/ StopAFKSession \/ StopAFKWipe
  \/ StopManualSession \/ StopManualTeardown \/ StopManualRemove
  \/ StopManualEnd \/ StopManualWipe
  \/ DiscardRow \/ DiscardEnd \/ DiscardTokens \/ DiscardWipe
  \/ DiscardWorktree \/ DiscardBranch
  \/ \E n \in Names : DiscardKill(n)

OperatorRequest ==
  \/ \E n \in Names : \E r \in Runs : StopAFK(n, r) \/ StopManual(n, r)
  \/ \E t \in Targets : Discard(t)

OperatorNext == OperatorRequest \/ OperatorStep
=============================================================================
