------------------------------- MODULE Launch -------------------------------
(***************************************************************************)
(* instance.Launch, the one path that turns a claim into a live seeded     *)
(* session, and its two callers: afk.launch, which selects an issue and    *)
(* launches under the engine lock mu, and instance.Start, which picks a    *)
(* manual label and launches under no lock at all.                         *)
(*                                                                         *)
(* One Launch call is one element of Runs; pc[r] is the step it is at:     *)
(*                                                                         *)
(*   selected   the spec is resolved, nothing exists                       *)
(*   marked     guard.Mark done, home materialised                         *)
(*   claimed    worktree and branch exist                                  *)
(*   rowed      runs row written                                           *)
(*   tokened    run token written                                          *)
(*   started    runner.Start returned nil                                  *)
(*   rb_*       the rollback closure, step by step                         *)
(*   done       returned; the deferred guard.Clear and mu.Unlock have run  *)
(*                                                                         *)
(* The instance cap and the failure pause only ever refuse a launch: they  *)
(* are left out here, so every launch they allow is allowed.               *)
(***************************************************************************)
EXTENDS LabState

\* Mutant of AFKSelect: the gate is read, the engine lock is not held.
AFKSelectUnlocked(r, n) ==
  /\ pc[r] = "idle"
  /\ Kind(n) \in AFKKinds /\ branch[Target(n)] = "absent"
  /\ Kind(n) = "afk_auto" => ActiveAutoRunForRepo = {}
  /\ name' = [name EXCEPT ![r] = n]
  /\ pc' = [pc EXCEPT ![r] = "selected"]
  /\ UNCHANGED <<outcome, tokens, homes, failures, session, gitVars, starting, mu, runsMu,
                 reaper, sweep, op, dead>>

\* afk.launch: select under mu.  The issue must have no claim branch, and an
\* auto launch needs a repository without an active auto run.
AFKSelect(r, n) ==
  /\ pc[r] = "idle"
  /\ mu = NoRun
  /\ Kind(n) \in AFKKinds
  /\ branch[Target(n)] = "absent"
  /\ Kind(n) = "afk_auto" => ActiveAutoRunForRepo = {}
  /\ mu' = r
  /\ name' = [name EXCEPT ![r] = n]
  /\ pc' = [pc EXCEPT ![r] = "selected"]
  /\ UNCHANGED <<outcome, tokens, homes, failures, session, gitVars, starting, runsMu,
                 reaper, sweep, op, dead>>

\* instance.Start: the label is unique among the sessions live right now.
ManualStart(r, n) ==
  /\ pc[r] = "idle"
  /\ Kind(n) = "manual"
  /\ n \notin Live
  /\ name' = [name EXCEPT ![r] = n]
  /\ pc' = [pc EXCEPT ![r] = "selected"]
  /\ UNCHANGED <<outcome, tokens, homes, failures, session, gitVars, lockVars,
                 reaper, sweep, op, dead>>

\* The deferred calls of a Launch that returns: guard.Clear, and the caller's
\* mu.Unlock when this launch ran under the engine lock.
Return(r) ==
  /\ pc' = [pc EXCEPT ![r] = "done"]
  /\ starting' = starting \ {name[r]}
  /\ mu' = IF mu = r THEN NoRun ELSE mu

\* A precheck refuses (runner, image, gateway, bastion): nothing was marked.
Refuse(r) ==
  /\ pc[r] = "selected"
  /\ "launch" \in Faults
  /\ pc' = [pc EXCEPT ![r] = "done"]
  /\ mu' = IF mu = r THEN NoRun ELSE mu
  /\ UNCHANGED <<storeVars, session, gitVars, starting, runsMu, reaper, sweep, op, dead>>

Mark(r) ==
  /\ pc[r] = "selected"
  /\ starting' = starting \cup {name[r]}
  /\ homes' = homes \cup {r}
  /\ pc' = [pc EXCEPT ![r] = "marked"]
  /\ UNCHANGED <<name, outcome, tokens, failures, session, gitVars, mu, runsMu,
                 reaper, sweep, op, dead>>

\* git worktree add -b: a fresh fork is clean and reads as merged.
AddWorktree(r) ==
  LET t == Target(name[r]) IN
  /\ pc[r] = "marked"
  /\ branch[t] = "absent" /\ worktree[t] = "none"
  /\ branch' = [branch EXCEPT ![t] = "merged"]
  /\ worktree' = [worktree EXCEPT ![t] = "clean"]
  /\ pc' = [pc EXCEPT ![r] = "claimed"]
  /\ UNCHANGED <<storeVars, session, pulls, lockVars, reaper, sweep, op, dead>>

\* A failure before the claim exists, or git refusing the claim because the
\* branch or the path is taken: wipe the home and return.
AddWorktreeFails(r) ==
  LET t == Target(name[r]) IN
  /\ pc[r] = "marked"
  /\ "launch" \in Faults \/ branch[t] # "absent" \/ worktree[t] # "none"
  /\ homes' = homes \ {r}
  /\ Return(r)
  /\ UNCHANGED <<name, outcome, tokens, failures, session, gitVars, runsMu,
                 reaper, sweep, op, dead>>

CreateRun(r) ==
  /\ pc[r] = "claimed"
  /\ outcome' = [outcome EXCEPT ![r] = "active"]
  /\ pc' = [pc EXCEPT ![r] = "rowed"]
  /\ UNCHANGED <<name, tokens, homes, failures, session, gitVars, lockVars,
                 reaper, sweep, op, dead>>

\* Mutant of CreateRunToken: the guard is cleared before the session starts.
CreateRunTokenClears(r) ==
  /\ pc[r] = "rowed"
  /\ tokens' = tokens \cup {r}
  /\ starting' = starting \ {name[r]}
  /\ pc' = [pc EXCEPT ![r] = "tokened"]
  /\ UNCHANGED <<name, outcome, homes, failures, session, gitVars, mu, runsMu,
                 reaper, sweep, op, dead>>

CreateRunToken(r) ==
  /\ pc[r] = "rowed"
  /\ tokens' = tokens \cup {r}
  /\ pc' = [pc EXCEPT ![r] = "tokened"]
  /\ UNCHANGED <<name, outcome, homes, failures, session, gitVars, lockVars,
                 reaper, sweep, op, dead>>

\* runner.Start: a name that is already live is left alone and reported as
\* started.
Started(r) ==
  IF session[name[r]] = NoRun THEN [session EXCEPT ![name[r]] = r] ELSE session

StartSession(r) ==
  /\ pc[r] = "tokened"
  /\ session' = Started(r)
  /\ pc' = [pc EXCEPT ![r] = "started"]
  /\ UNCHANGED <<storeVars, gitVars, lockVars, reaper, sweep, op, dead>>

\* runner.Start may report an error although the session is live.
StartSessionFails(r) ==
  /\ pc[r] = "tokened"
  /\ "launch" \in Faults
  /\ session' \in {session, Started(r)}
  /\ pc' = [pc EXCEPT ![r] = "rb_stop"]
  /\ UNCHANGED <<storeVars, gitVars, lockVars, reaper, sweep, op, dead>>

\* Seeding, the row insert or the token insert fails.
StepFails(r) ==
  /\ pc[r] \in {"claimed", "rowed"}
  /\ "launch" \in Faults
  /\ pc' = [pc EXCEPT ![r] = "rb_stop"]
  /\ UNCHANGED <<storeVars, session, gitVars, lockVars, reaper, sweep, op, dead>>

Finish(r) ==
  /\ pc[r] = "started"
  /\ Return(r)
  /\ UNCHANGED <<storeVars, session, gitVars, runsMu, reaper, sweep, op, dead>>

(***************************************************************************)
(* The rollback closure: every step is attempted, none is retried.         *)
(***************************************************************************)
\* Mutant of RollbackStop: the session of a failed start is not killed.
RollbackStopSkipped(r) ==
  /\ pc[r] = "rb_stop"
  /\ pc' = [pc EXCEPT ![r] = "rb_worktree"]
  /\ UNCHANGED <<storeVars, session, gitVars, lockVars, reaper, sweep, op, dead>>

RollbackStop(r) ==
  /\ pc[r] = "rb_stop"
  /\ StopSession(name[r])
  /\ pc' = [pc EXCEPT ![r] = "rb_worktree"]
  /\ UNCHANGED <<storeVars, gitVars, lockVars, reaper, sweep, op, dead>>

RollbackWorktree(r) ==
  /\ pc[r] = "rb_worktree"
  /\ RemoveWorktree(Target(name[r]))
  /\ pc' = [pc EXCEPT ![r] = "rb_branch"]
  /\ UNCHANGED <<storeVars, session, branch, pulls, lockVars, reaper, sweep, op, dead>>

RollbackBranch(r) ==
  /\ pc[r] = "rb_branch"
  /\ DeleteBranch(Target(name[r]))
  /\ pc' = [pc EXCEPT ![r] = "rb_row"]
  /\ UNCHANGED <<storeVars, session, worktree, pulls, lockVars, reaper, sweep, op, dead>>

\* Mutant of RollbackRow: the row survives its rollback.
RollbackRowKept(r) ==
  /\ pc[r] = "rb_row"
  /\ pc' = [pc EXCEPT ![r] = "rb_wipe"]
  /\ UNCHANGED <<storeVars, session, gitVars, lockVars, reaper, sweep, op, dead>>

\* DeleteRun, whose tokens cascade, whatever the row's outcome is by now.
RollbackRow(r) ==
  /\ pc[r] = "rb_row"
  /\ outcome' = [outcome EXCEPT ![r] = "none"]
  /\ tokens' = tokens \ {r}
  /\ pc' = [pc EXCEPT ![r] = "rb_wipe"]
  /\ UNCHANGED <<name, homes, failures, session, gitVars, lockVars, reaper, sweep, op, dead>>

\* The home wipe comes last, and the launch returns.
RollbackWipe(r) ==
  /\ pc[r] = "rb_wipe"
  /\ homes' = homes \ {r}
  /\ Return(r)
  /\ UNCHANGED <<name, outcome, tokens, failures, session, gitVars, runsMu,
                 reaper, sweep, op, dead>>

LaunchStep(r) ==
  \/ Refuse(r) \/ Mark(r)
  \/ AddWorktree(r) \/ AddWorktreeFails(r)
  \/ CreateRun(r) \/ CreateRunToken(r)
  \/ StartSession(r) \/ StartSessionFails(r) \/ StepFails(r)
  \/ Finish(r)
  \/ RollbackStop(r) \/ RollbackWorktree(r) \/ RollbackBranch(r) \/ RollbackRow(r)
  \/ RollbackWipe(r)

LaunchNext ==
  \E r \in Runs :
    \/ \E n \in Names : AFKSelect(r, n) \/ ManualStart(r, n)
    \/ LaunchStep(r)
=============================================================================
