------------------------------ MODULE LabProofs -----------------------------
(***************************************************************************)
(* Theorems about Lab, for every set of runs, issues, labels, actors and   *)
(* faults.                                                                 *)
(*                                                                         *)
(* The inductive invariant IInv says what every thread may rely on about   *)
(* the launches in flight: who holds mu, which names the startguard        *)
(* covers, which rows exist.  Its heart is GuardCovers, which fails for    *)
(* manual names: only mu makes deferred Clears harmless.                   *)
(*                                                                         *)
(* All threads but the launches and a restart take "quiet" steps, which    *)
(* leave the launches alone and at most end one active run.                *)
(***************************************************************************)
EXTENDS Lab, TLAPS

(***************************************************************************)
(* The inductive invariant.                                                *)
(***************************************************************************)

\* The steps of a launch that has written no row yet.
NoRow == {"idle", "selected", "marked", "claimed"}

Named == \A r \in Runs : name[r] = NoName <=> pc[r] = "idle"

RowsLate == \A r \in Runs : outcome[r] # "none" => pc[r] \notin NoRow \cup {"rb_wipe"}

MuHeld == \A r \in Runs : AFK(r) /\ InFlight(r) => mu = r

GuardCovers == \A r \in Runs : AFK(r) /\ pc[r] \in MidStart => name[r] \in starting

\* What the reaper remembers of the runs it listed: they are AFK runs with a
\* row, and the one it classifies is launched.
ReaperKnows ==
  /\ \A r \in reaper.todo \cup ({reaper.run} \ {NoRun}) : AFK(r) /\ pc[r] \notin NoRow
  /\ reaper.pc \in {"locked", "guard", "classify"} => reaper.run \in Runs
  /\ reaper.pc = "classify" => pc[reaper.run] = "done"

DeadKnows == \A r \in dead.runs : ~AFK(r) /\ pc[r] \notin NoRow

IInv ==
  /\ TypeOK /\ Named /\ RowsLate /\ MuHeld /\ GuardCovers
  /\ ReaperKnows /\ DeadKnows /\ OneAutoRun

(***************************************************************************)
(* Quiet steps.                                                            *)
(***************************************************************************)
EndStep(r, o) ==
  /\ outcome[r] = "active"
  /\ AFK(r) /\ o # "stopped" => pc[r] = "done"
  /\ outcome' = [outcome EXCEPT ![r] = o]

QuietStep ==
  /\ name' = name /\ pc' = pc /\ mu' = mu /\ starting' = starting
  /\ outcome' = outcome \/ \E r \in Runs, o \in Terminal : EndStep(r, o)

QuietNext == ReaperNext \/ SweepNext \/ DeadNext \/ OperatorNext \/ AgentNext

USE DEF storeVars, gitVars, lockVars

\* The sets of launch steps, spelled out (pc of instance.Launch).
LEMMA PCs ==
  /\ MidStart = {"marked", "claimed", "rowed", "tokened", "started",
                 "rb_stop", "rb_worktree", "rb_branch", "rb_row", "rb_wipe"}
  /\ LaunchPCs = {"idle", "selected", "done"} \cup MidStart
BY DEF LaunchPCs, MidStart, Building, RollingBack

\* A session name has a known kind and a target of the repository.
LEMMA KindsOfNames == \A n \in Names : Kind(n) \in AFKKinds \cup {"manual"} /\ Target(n) \in Targets
BY DEF Names, Kind, Target, Targets, AFKKinds

\* A guarded EndRun on a row ends that run or changes nothing.
LEMMA EndRunEnds ==
  ASSUME TypeOK, NEW r \in Runs, NEW o \in Terminal, EndRun(r, o),
         AFK(r) /\ o # "stopped" => pc[r] = "done"
  PROVE  outcome' = outcome \/ EndStep(r, o)
BY DEF EndRun, EndStep

(***************************************************************************)
(* Every step of every thread but a launch and a restart is quiet.         *)
(***************************************************************************)
\* The reaper only ends rows, AFK ones, and never one mid-Launch.
LEMMA ReaperQuiet == IInv /\ ReaperNext => QuietStep
<1> SUFFICES ASSUME IInv, ReaperNext PROVE QuietStep
  OBVIOUS
<1>1. CASE ClaimOutcome
  <2> DEFINE alive == session[name[reaper.run]] # NoRun
  <2>1. PICK late \in BOOLEAN :
               /\ Classify(reaper.done, alive, late) # "running"
               /\ EndRun(reaper.run, Classify(reaper.done, alive, late))
    BY <1>1 DEF ClaimOutcome
  <2>2. Classify(reaper.done, alive, late) \in Terminal
    BY <2>1 DEF Classify, Terminal
  <2>3. reaper.run \in Runs /\ pc[reaper.run] = "done"
    BY <1>1 DEF ClaimOutcome, IInv, ReaperKnows
  <2>4. outcome' = outcome \/ EndStep(reaper.run, Classify(reaper.done, alive, late))
    BY <2>1, <2>2, <2>3, EndRunEnds DEF IInv
  <2>5. UNCHANGED <<name, pc, mu, starting>>
    BY <1>1 DEF ClaimOutcome
  <2> QED BY <2>2, <2>3, <2>4, <2>5 DEF QuietStep
<1>2. CASE ReaperNext /\ ~ClaimOutcome
  <2>1. UNCHANGED <<name, pc, mu, starting, outcome>>
    BY <1>2 DEF ReaperNext, ReaperStep, ReapList, ReapRead, ReapSkip, ClaimRow, ClaimGuard,
                ClaimDeclined, ReapStop, ReapTeardown, ReapRemove, ReapWipe, ReapCount,
                DrainList, DrainNext, DrainGuard, DrainRow, DrainSkip, DrainKill, DrainDone
  <2> QED BY <2>1 DEF QuietStep
<1> QED BY <1>1, <1>2

\* The runtime sweep touches no row, no lock and no launch.
LEMMA SweepQuiet == SweepNext => QuietStep
<1> SUFFICES ASSUME SweepNext PROVE UNCHANGED <<name, pc, mu, starting, outcome>>
  BY DEF QuietStep
<1> QED
  BY DEF SweepNext, SweepStep, SweepBranches, SweepWorktrees, SweepSnapshot, SweepList,
         SweepBranch, SweepRemove, SweepHomes

\* The dead-session sweep only ends rows, manual ones.
LEMMA DeadQuiet == IInv /\ DeadNext => QuietStep
<1> SUFFICES ASSUME IInv, DeadNext PROVE QuietStep
  OBVIOUS
<1>1. ASSUME NEW r \in Runs, DeadEnd(r) PROVE QuietStep
  <2>1. EndRun(r, "death") /\ ~AFK(r) /\ UNCHANGED <<name, pc, mu, starting>>
    BY <1>1 DEF DeadEnd, IInv, DeadKnows
  <2>2. "death" \in Terminal
    BY DEF Terminal
  <2>3. outcome' = outcome \/ EndStep(r, "death")
    BY <2>1, <2>2, EndRunEnds DEF IInv
  <2> QED BY <2>1, <2>2, <2>3 DEF QuietStep
<1>2. CASE DeadRows \/ DeadSnapshot \/ DeadList \/ DeadDone
  BY <1>2 DEF DeadRows, DeadSnapshot, DeadList, DeadDone, QuietStep
<1> QED BY <1>1, <1>2 DEF DeadNext, DeadStep

\* Stop and Discard only end rows, as stopped.
LEMMA OperatorQuiet == IInv /\ OperatorNext => QuietStep
<1> SUFFICES ASSUME IInv, OperatorNext PROVE QuietStep
  OBVIOUS
<1>1. ASSUME NEW r \in Runs, EndRun(r, "stopped"), UNCHANGED <<name, pc, mu, starting>>
      PROVE  QuietStep
  <2>1. "stopped" \in Terminal
    BY DEF Terminal
  <2>2. outcome' = outcome \/ EndStep(r, "stopped")
    BY <1>1, <2>1, EndRunEnds DEF IInv
  <2> QED BY <1>1, <2>1, <2>2 DEF QuietStep
<1>2. ASSUME NEW n \in Names, NEW r \in Runs, StopAFK(n, r) PROVE QuietStep
  BY <1>1, <1>2 DEF StopAFK
<1>3. CASE StopManualEnd
  BY <1>1, <1>3 DEF StopManualEnd, EndRun, QuietStep, IInv, TypeOK, StoreTypeOK, Ops
<1>4. CASE DiscardEnd
  BY <1>1, <1>4 DEF DiscardEnd, EndRun, QuietStep, IInv, TypeOK, StoreTypeOK, Ops
<1>5. ASSUME NEW n \in Names, NEW r \in Runs, StopManual(n, r) PROVE QuietStep
  BY <1>5 DEF StopManual, QuietStep
<1>6. ASSUME NEW n \in Names, DiscardKill(n) PROVE QuietStep
  BY <1>6 DEF DiscardKill, QuietStep
<1>7. ASSUME NEW t \in Targets, Discard(t) PROVE QuietStep
  BY <1>7 DEF Discard, QuietStep
<1>8. CASE \/ StopAFKTokens \/ StopAFKSession \/ StopAFKWipe
           \/ StopManualSession \/ StopManualTeardown \/ StopManualRemove
           \/ StopManualWipe \/ DiscardRow \/ DiscardTokens \/ DiscardWipe
           \/ DiscardWorktree \/ DiscardBranch
  BY <1>8 DEF StopAFKTokens, StopAFKSession, StopAFKWipe, StopManualSession,
              StopManualTeardown, StopManualRemove, StopManualWipe, DiscardRow, DiscardTokens,
              DiscardWipe, DiscardWorktree, DiscardBranch, QuietStep
<1> QED
  BY <1>2, <1>3, <1>4, <1>5, <1>6, <1>7, <1>8 DEF OperatorNext, OperatorRequest, OperatorStep

\* Agents and the forge touch no row, no lock and no launch.
LEMMA AgentQuiet == AgentNext => QuietStep
BY DEF AgentNext, AgentWorks, OpenPull, MergePull, SessionExits, QuietStep

\* Every step of a thread other than a launch or a restart is quiet.
LEMMA Quiet == IInv /\ QuietNext => QuietStep
BY ReaperQuiet, SweepQuiet, DeadQuiet, OperatorQuiet, AgentQuiet DEF QuietNext

(***************************************************************************)
(* Type correctness, thread by thread.                                     *)
(***************************************************************************)
\* Every step of instance.Launch and its callers keeps the types.
LEMMA TypeLaunch == ASSUME TypeOK, Named, LaunchNext PROVE TypeOK'
<1> USE DEF TypeOK, StoreTypeOK, WorldTypeOK, LaunchTypeOK
<1> PICK r \in Runs : (\E n \in Names : AFKSelect(r, n) \/ ManualStart(r, n)) \/ LaunchStep(r)
  BY DEF LaunchNext
<1>1. ASSUME NEW n \in Names, AFKSelect(r, n) \/ ManualStart(r, n) PROVE TypeOK'
  BY <1>1, PCs DEF AFKSelect, ManualStart
<1>2. CASE Refuse(r)
  BY <1>2, PCs DEF Refuse
<1>3. CASE Mark(r)
  BY <1>3, PCs DEF Mark, Named
<1>4. CASE AddWorktree(r)
  BY <1>4, PCs DEF AddWorktree
<1>5. CASE AddWorktreeFails(r)
  BY <1>5, PCs DEF AddWorktreeFails, Return
<1>6. CASE CreateRun(r)
  BY <1>6, PCs DEF CreateRun, Outcomes
<1>7. CASE CreateRunToken(r)
  BY <1>7, PCs DEF CreateRunToken
<1>8. CASE StartSession(r) \/ StartSessionFails(r)
  BY <1>8, PCs DEF StartSession, StartSessionFails, Started
<1>9. CASE StepFails(r)
  BY <1>9, PCs DEF StepFails
<1>10. CASE Finish(r)
  BY <1>10, PCs DEF Finish, Return
<1>11. CASE RollbackStop(r)
  BY <1>11, PCs DEF RollbackStop, StopSession, Killed
<1>12. CASE RollbackWorktree(r)
  BY <1>12, PCs DEF RollbackWorktree, RemoveWorktree
<1>13. CASE RollbackBranch(r)
  BY <1>13, PCs DEF RollbackBranch, DeleteBranch
<1>14. CASE RollbackRow(r)
  BY <1>14, PCs DEF RollbackRow, Outcomes
<1>15. CASE RollbackWipe(r)
  BY <1>15, PCs DEF RollbackWipe, Return
<1> QED
  BY <1>1, <1>2, <1>3, <1>4, <1>5, <1>6, <1>7, <1>8, <1>9, <1>10, <1>11, <1>12, <1>13, <1>14,
     <1>15 DEF LaunchStep

\* Whatever git answers, a guarded teardown decides on two booleans.
LEMMA TypeDecision == \A t : TeardownDecision(t) \in TeardownActions
BY DEF TeardownDecision, TeardownActions, KeepBoth, decideTeardown, BranchMerged

\* Every step of ReapOnce keeps the types; failures only grows or is reset.
LEMMA TypeReaper == ASSUME IInv, ReaperNext PROVE TypeOK'
<1> USE DEF TypeOK, StoreTypeOK, WorldTypeOK, LaunchTypeOK, IInv, Reapers, ReaperPCs
<1>0. KeepBoth \in TeardownActions
  BY DEF KeepBoth, TeardownActions
<1>1. CASE ReapList
  BY <1>0, <1>1 DEF ReapList, idleReaper, ActiveAFKRuns, ActiveRuns
<1>2. ASSUME NEW r \in Runs, ReapRead(r) \/ ReapSkip(r) PROVE TypeOK'
  <2>1. CASE ReapRead(r)
    <3> DEFINE seen == Target(name[r]) \in pulls
    <3>1. seen \in BOOLEAN
      OBVIOUS
    <3> HIDE DEF seen
    <3>2. reaper' = [reaper EXCEPT !.pc = "locked", !.todo = @ \ {r}, !.run = r, !.done = seen]
      BY <2>1 DEF ReapRead, seen
    <3>3. reaper' \in Reapers
      BY <3>1, <3>2
    <3> QED BY <2>1, <3>3 DEF ReapRead
  <2>2. CASE ReapSkip(r)
    BY <2>2 DEF ReapSkip
  <2> QED BY <1>2, <2>1, <2>2
<1>3. CASE ClaimRow \/ ClaimGuard
  BY <1>3 DEF ClaimRow, ClaimGuard
<1>4. CASE ClaimOutcome
  <2> DEFINE alive == session[name[reaper.run]] # NoRun
  <2>1. PICK late \in BOOLEAN :
               LET o == Classify(reaper.done, alive, late) IN
               /\ o # "running"
               /\ EndRun(reaper.run, o)
               /\ reaper' = [reaper EXCEPT !.pc = "stop", !.alive = alive, !.outcome = o]
    BY <1>4 DEF ClaimOutcome
  <2> DEFINE o == Classify(reaper.done, alive, late)
  <2>2. alive \in BOOLEAN /\ o \in Terminal
    BY <2>1 DEF Classify, Terminal
  <2>3. EndRun(reaper.run, o)
    BY <2>1
  <2>4. reaper' = [reaper EXCEPT !.pc = "stop", !.alive = alive, !.outcome = o]
    BY <2>1
  <2> HIDE DEF alive, o
  <2>5. reaper' \in Reapers
    BY <2>2, <2>4
  <2>6. outcome' \in [Runs -> Outcomes]
    BY <2>2, <2>3 DEF EndRun, Outcomes
  <2> QED BY <1>4, <2>5, <2>6 DEF ClaimOutcome
<1>5. CASE ClaimDeclined
  BY <1>0, <1>5 DEF ClaimDeclined, toNext
<1>6. CASE ReapStop
  BY <1>6 DEF ReapStop, StopSession, Killed
<1>7. CASE ReapTeardown
  BY <1>7, TypeDecision DEF ReapTeardown
<1>8. CASE ReapRemove
  BY <1>0, <1>8 DEF ReapRemove, TeardownApply
<1>9. CASE ReapWipe
  BY <1>9 DEF ReapWipe
<1>10. CASE ReapCount
  <2>1. reaper' \in Reapers
    BY <1>0, <1>10 DEF ReapCount, toNext
  <2>2. failures' \in Nat
    BY <1>10 DEF ReapCount
  <2> QED BY <1>10, <2>1, <2>2 DEF ReapCount
<1>11. CASE DrainList
  BY <1>11 DEF DrainList, Live
<1>12. ASSUME NEW n \in Names, DrainNext(n) PROVE TypeOK'
  BY <1>12 DEF DrainNext
<1>13. CASE DrainGuard \/ DrainRow \/ DrainSkip
  BY <1>13 DEF DrainGuard, DrainRow, DrainSkip, toDrain
<1>14. CASE DrainKill
  BY <1>14 DEF DrainKill, toDrain, StopSession, Killed
<1>15. CASE DrainDone
  BY <1>0, <1>15 DEF DrainDone, idleReaper
<1> QED
  BY <1>1, <1>2, <1>3, <1>4, <1>5, <1>6, <1>7, <1>8, <1>9, <1>10, <1>11, <1>12, <1>13, <1>14, <1>15
     DEF ReaperNext, ReaperStep

\* Every step of RuntimeSweep keeps the types.
LEMMA TypeSweep == ASSUME IInv, SweepNext PROVE TypeOK'
<1> USE DEF TypeOK, StoreTypeOK, WorldTypeOK, LaunchTypeOK, IInv, Sweeps, SweepPCs
<1>0. KeepBoth \in TeardownActions
  BY DEF KeepBoth, TeardownActions
<1>1. CASE SweepBranches
  BY <1>0, <1>1 DEF SweepBranches, idleSweep
<1>2. CASE SweepWorktrees \/ SweepSnapshot
  BY <1>2 DEF SweepWorktrees, SweepSnapshot
<1>3. CASE SweepList
  <2>1. ownedBranches(sweep.starting \cup Live) \subseteq Targets
    BY KindsOfNames DEF ownedBranches, Live
  <2> QED BY <1>3, <2>1 DEF SweepList
<1>4. ASSUME NEW t \in Targets, SweepBranch(t) PROVE TypeOK'
  <2>1. sweep' \in Sweeps
    <3> DEFINE rest == [sweep EXCEPT !.branches = @ \ {t}]
    <3>1. rest \in Sweeps
      OBVIOUS
    <3>2. \/ sweep' = rest
          \/ sweep' = [rest EXCEPT !.pc = "remove", !.target = t, !.act = TeardownDecision(t)]
      BY <1>4 DEF SweepBranch
    <3> HIDE DEF rest
    <3> DEFINE act == TeardownDecision(t)
    <3>3. act \in TeardownActions
      BY TypeDecision
    <3> HIDE DEF act
    <3>4. [rest EXCEPT !.pc = "remove", !.target = t, !.act = act] \in Sweeps
      BY <3>1, <3>3
    <3> QED BY <3>1, <3>2, <3>4 DEF act
  <2>2. branch' \in [Targets -> {"absent", "merged", "ahead"}]
    BY <1>4 DEF SweepBranch, DeleteBranch
  <2> QED BY <1>4, <2>1, <2>2 DEF SweepBranch
<1>5. CASE SweepRemove
  BY <1>0, <1>5 DEF SweepRemove, TeardownApply
<1>6. CASE SweepHomes
  BY <1>0, <1>6 DEF SweepHomes, idleSweep
<1> QED BY <1>1, <1>2, <1>3, <1>4, <1>5, <1>6 DEF SweepNext, SweepStep

\* Every step of sweepDeadSessions keeps the types.
LEMMA TypeDead == ASSUME IInv, DeadNext PROVE TypeOK'
<1> USE DEF TypeOK, StoreTypeOK, WorldTypeOK, LaunchTypeOK, IInv, Deads, DeadPCs
<1>1. CASE DeadRows \/ DeadSnapshot \/ DeadList \/ DeadDone
  <2>1. CASE DeadRows
    BY <2>1 DEF DeadRows, idleDead, ActiveRuns
  <2>2. CASE DeadSnapshot
    BY <2>2 DEF DeadSnapshot
  <2>3. CASE DeadList
    BY <2>3 DEF DeadList
  <2>4. CASE DeadDone
    BY <2>4 DEF DeadDone, idleDead
  <2> QED BY <1>1, <2>1, <2>2, <2>3, <2>4
<1>2. ASSUME NEW r \in Runs, DeadEnd(r) PROVE TypeOK'
  BY <1>2 DEF DeadEnd, EndRun, Outcomes, Terminal
<1> QED BY <1>1, <1>2 DEF DeadNext, DeadStep

\* Every step of StopAFK, a manual Stop and Discard keeps the types.
LEMMA TypeOperator == ASSUME IInv, OperatorNext PROVE TypeOK'
<1> USE DEF TypeOK, StoreTypeOK, WorldTypeOK, LaunchTypeOK, IInv, Ops, OpPCs
<1>0. KeepBoth \in TeardownActions /\ idleOp \in Ops
  BY DEF KeepBoth, TeardownActions, idleOp
<1>1. ASSUME NEW n \in Names, NEW r \in Runs, StopAFK(n, r) \/ StopManual(n, r) PROVE TypeOK'
  <2>1. op' \in Ops
    <3>1. CASE StopAFK(n, r)
      BY <1>0, <3>1 DEF StopAFK, idleOp
    <3>2. CASE StopManual(n, r)
      BY <1>0, <3>2 DEF StopManual, idleOp
    <3> QED BY <1>1, <3>1, <3>2
  <2>2. outcome' \in [Runs -> Outcomes]
    BY <1>1 DEF StopAFK, StopManual, EndRun, Outcomes, Terminal
  <2>3. CASE StopAFK(n, r)
    BY <2>1, <2>2, <2>3 DEF StopAFK
  <2>4. CASE StopManual(n, r)
    BY <2>1, <2>2, <2>4 DEF StopManual
  <2> QED BY <1>1, <2>3, <2>4
<1>2. ASSUME NEW t \in Targets, Discard(t) PROVE TypeOK'
  BY <1>0, <1>2 DEF Discard, idleOp, Live
<1>3. ASSUME NEW n \in Names, DiscardKill(n) PROVE TypeOK'
  BY <1>3 DEF DiscardKill, StopSession, Killed
<1>4. CASE StopAFKTokens \/ StopAFKSession \/ StopAFKWipe
  BY <1>0, <1>4 DEF StopAFKTokens, StopAFKSession, StopAFKWipe, StopSession, Killed
<1>5. CASE StopManualSession \/ StopManualTeardown
  <2>1. CASE StopManualSession
    BY <2>1 DEF StopManualSession, StopSession, Killed
  <2>2. CASE StopManualTeardown
    BY <2>2, TypeDecision DEF StopManualTeardown
  <2> QED BY <1>5, <2>1, <2>2
<1>6. CASE StopManualRemove
  BY <1>0, <1>6 DEF StopManualRemove, TeardownApply
<1>7. CASE StopManualEnd \/ StopManualWipe
  BY <1>0, <1>7 DEF StopManualEnd, StopManualWipe, EndRun, Outcomes, Terminal
<1>8. CASE DiscardRow \/ DiscardEnd \/ DiscardTokens \/ DiscardWipe
  <2>1. CASE DiscardRow
    BY <2>1 DEF DiscardRow, RunBySession
  <2>2. CASE DiscardEnd
    BY <2>2 DEF DiscardEnd, EndRun, Outcomes, Terminal
  <2>3. CASE DiscardTokens \/ DiscardWipe
    BY <2>3 DEF DiscardTokens, DiscardWipe
  <2> QED BY <1>8, <2>1, <2>2, <2>3
<1>9. CASE DiscardWorktree
  BY <1>0, <1>9 DEF DiscardWorktree, RemoveWorktree
<1>10. CASE DiscardBranch
  BY <1>0, <1>10 DEF DiscardBranch, DeleteBranch
<1> QED
  BY <1>1, <1>2, <1>3, <1>4, <1>5, <1>6, <1>7, <1>8, <1>9, <1>10
     DEF OperatorNext, OperatorRequest, OperatorStep

\* What agents and the forge do keeps the types.
LEMMA TypeAgent == ASSUME TypeOK, AgentNext PROVE TypeOK'
<1> USE DEF TypeOK, StoreTypeOK, WorldTypeOK, LaunchTypeOK
<1>1. CASE AgentWorks
  BY <1>1 DEF AgentWorks, AgentEdits, AgentCommits
<1>2. ASSUME NEW n \in Names, OpenPull(n) \/ SessionExits(n) PROVE TypeOK'
  BY <1>2 DEF OpenPull, SessionExits, Killed
<1>3. ASSUME NEW t \in Issues, MergePull(t) PROVE TypeOK'
  BY <1>3 DEF MergePull
<1> QED BY <1>1, <1>2, <1>3 DEF AgentNext

\* A crash followed by StartupReconcile keeps the types.
LEMMA TypeRestart == ASSUME TypeOK, Restart PROVE TypeOK'
<1> USE DEF TypeOK, StoreTypeOK, WorldTypeOK, LaunchTypeOK
<1>1. idleReaper \in Reapers /\ idleSweep \in Sweeps /\ idleOp \in Ops /\ idleDead \in Deads
  BY DEF idleReaper, idleSweep, idleOp, idleDead, Reapers, Sweeps, Ops, Deads, ReaperPCs,
         SweepPCs, OpPCs, DeadPCs, KeepBoth, TeardownActions
<1>2. outcome' \in [Runs -> Outcomes]
  BY DEF Restart, Outcomes, Terminal
<1>3. session' \in [Names -> Runs \cup {NoRun}] /\ branch' \in [Targets -> {"absent", "merged", "ahead"}]
  BY DEF Restart
<1>4. worktree' \in [Targets -> {"none", "clean", "dirty"}] /\ homes' \subseteq Runs
  BY DEF Restart
<1>5. pc' \in [Runs -> LaunchPCs]
  BY PCs DEF Restart
<1> QED BY <1>1, <1>2, <1>3, <1>4, <1>5 DEF Restart

(***************************************************************************)
(* The steps of a launch: it is admitted, advances, and returns.           *)
(***************************************************************************)
Admits(r, n) ==
  /\ pc[r] = "idle"
  /\ Kind(n) \in AFKKinds => mu = NoRun /\ mu' = r
  /\ Kind(n) \notin AFKKinds => Kind(n) = "manual" /\ mu' = mu
  /\ Kind(n) = "afk_auto" => ActiveAutoRunForRepo = {}
  /\ name' = [name EXCEPT ![r] = n]
  /\ pc' = [pc EXCEPT ![r] = "selected"]
  /\ UNCHANGED <<outcome, starting>>

Advances(r, q) ==
  /\ InFlight(r)
  /\ q \in MidStart
  /\ pc[r] \notin NoRow => q \notin NoRow
  /\ pc' = [pc EXCEPT ![r] = q]
  /\ starting' = IF pc[r] = "selected" THEN starting \cup {name[r]} ELSE starting
  /\ pc[r] # "rb_wipe"
  /\ \/ q # "rb_wipe" /\ outcome' = outcome
     \/ /\ q \notin NoRow \cup {"rb_wipe"} /\ outcome[r] = "none"
        /\ outcome' = [outcome EXCEPT ![r] = "active"]
     \/ /\ q = "rb_wipe" /\ pc[r] = "rb_row"
        /\ outcome' = [outcome EXCEPT ![r] = "none"]
  /\ UNCHANGED <<name, mu>>

Returns(r) ==
  /\ InFlight(r)
  /\ pc' = [pc EXCEPT ![r] = "done"]
  /\ starting \ {name[r]} \subseteq starting'
  /\ mu' = IF mu = r THEN NoRun ELSE mu
  /\ UNCHANGED <<name, outcome>>

\* A step of a launch admits a run, advances it or returns from it.
LEMMA LaunchShape ==
  ASSUME IInv, LaunchNext
  PROVE  /\ UNCHANGED <<reaper, sweep, op, dead>>
         /\ \E r \in Runs : \/ \E n \in Names : Admits(r, n)
                            \/ \E q \in MidStart : Advances(r, q)
                            \/ Returns(r)
<1> PICK r \in Runs : (\E n \in Names : AFKSelect(r, n) \/ ManualStart(r, n)) \/ LaunchStep(r)
  BY DEF LaunchNext
<1> USE DEF InFlight, NoRow
<1>1. ASSUME NEW n \in Names, AFKSelect(r, n) \/ ManualStart(r, n)
      PROVE  Admits(r, n) /\ UNCHANGED <<reaper, sweep, op, dead>>
  BY <1>1 DEF AFKSelect, ManualStart, Admits, AFKKinds
<1>2. ASSUME Mark(r) PROVE Advances(r, "marked") /\ UNCHANGED <<reaper, sweep, op, dead>>
  BY <1>2, PCs DEF Mark, Advances
<1>3. ASSUME AddWorktree(r) PROVE Advances(r, "claimed") /\ UNCHANGED <<reaper, sweep, op, dead>>
  BY <1>3, PCs DEF AddWorktree, Advances
<1>4. ASSUME CreateRun(r) PROVE Advances(r, "rowed") /\ UNCHANGED <<reaper, sweep, op, dead>>
  BY <1>4, PCs DEF CreateRun, Advances, IInv, RowsLate
<1>5. ASSUME CreateRunToken(r) PROVE Advances(r, "tokened") /\ UNCHANGED <<reaper, sweep, op, dead>>
  BY <1>5, PCs DEF CreateRunToken, Advances
<1>6. ASSUME StartSession(r) PROVE Advances(r, "started") /\ UNCHANGED <<reaper, sweep, op, dead>>
  BY <1>6, PCs DEF StartSession, Advances
<1>7. ASSUME StartSessionFails(r) \/ StepFails(r)
      PROVE  Advances(r, "rb_stop") /\ UNCHANGED <<reaper, sweep, op, dead>>
  BY <1>7, PCs DEF StartSessionFails, StepFails, Advances
<1>8. ASSUME RollbackStop(r) PROVE Advances(r, "rb_worktree") /\ UNCHANGED <<reaper, sweep, op, dead>>
  BY <1>8, PCs DEF RollbackStop, Advances
<1>9. ASSUME RollbackWorktree(r) PROVE Advances(r, "rb_branch") /\ UNCHANGED <<reaper, sweep, op, dead>>
  BY <1>9, PCs DEF RollbackWorktree, Advances
<1>10. ASSUME RollbackBranch(r) PROVE Advances(r, "rb_row") /\ UNCHANGED <<reaper, sweep, op, dead>>
  BY <1>10, PCs DEF RollbackBranch, Advances
<1>11. ASSUME Refuse(r) PROVE Returns(r) /\ UNCHANGED <<reaper, sweep, op, dead>>
  BY <1>11 DEF Refuse, Returns
<1>12. ASSUME AddWorktreeFails(r) \/ Finish(r) PROVE Returns(r) /\ UNCHANGED <<reaper, sweep, op, dead>>
  BY <1>12, PCs DEF AddWorktreeFails, Finish, Return, Returns
<1>13. ASSUME RollbackRow(r) PROVE Advances(r, "rb_wipe") /\ UNCHANGED <<reaper, sweep, op, dead>>
  BY <1>13, PCs DEF RollbackRow, Advances
<1>14. ASSUME RollbackWipe(r) PROVE Returns(r) /\ UNCHANGED <<reaper, sweep, op, dead>>
  BY <1>14, PCs DEF RollbackWipe, Return, Returns
<1> QED
  BY <1>1, <1>2, <1>3, <1>4, <1>5, <1>6, <1>7, <1>8, <1>9, <1>10, <1>11, <1>12, <1>13, <1>14, PCs
     DEF LaunchStep

(***************************************************************************)
(* The invariant is inductive.                                             *)
(***************************************************************************)
\* The invariant holds of a fresh store, before any launch.
LEMMA InitInv == Init => IInv
<1> SUFFICES ASSUME Init PROVE IInv
  OBVIOUS
<1>1. TypeOK
  <2>1. idleReaper \in Reapers /\ idleSweep \in Sweeps /\ idleOp \in Ops /\ idleDead \in Deads
    BY DEF idleReaper, idleSweep, idleOp, idleDead, Reapers, Sweeps, Ops, Deads, ReaperPCs,
           SweepPCs, OpPCs, DeadPCs, KeepBoth, TeardownActions
  <2> QED
    BY <2>1, PCs DEF Init, TypeOK, StoreTypeOK, WorldTypeOK, LaunchTypeOK, Outcomes
<1>2. Named /\ RowsLate /\ MuHeld /\ GuardCovers /\ OneAutoRun
  BY PCs DEF Init, Named, RowsLate, MuHeld, GuardCovers, OneAutoRun, AutoInFlight, InFlight, AFK
<1>3. ReaperKnows /\ DeadKnows
  BY DEF Init, ReaperKnows, DeadKnows, idleReaper, idleDead
<1> QED BY <1>1, <1>2, <1>3 DEF IInv

\* afk.launch's select (under mu, past the auto gate) and instance.Start keep
\* the invariant.
LEMMA AdmitKeeps ==
  ASSUME IInv, NEW r \in Runs, NEW n \in Names, Admits(r, n), UNCHANGED <<reaper, dead>>
  PROVE  /\ Named' /\ RowsLate' /\ MuHeld' /\ GuardCovers'
         /\ ReaperKnows' /\ DeadKnows' /\ OneAutoRun'
<1> USE DEF IInv, TypeOK, StoreTypeOK, LaunchTypeOK
<1>1. Named'
  BY NoNameIsNoName DEF Named, Admits
<1>2. RowsLate'
  BY DEF RowsLate, Admits, NoRow
<1>3. \A s \in Runs : s # r => (AFK(s)' <=> AFK(s)) /\ (InFlight(s)' <=> InFlight(s))
  BY DEF Admits, AFK, InFlight
<1>4. AFK(r)' => Kind(n) \in AFKKinds
  BY DEF Admits, AFK
<1>5. MuHeld'
  BY <1>3, <1>4, NoRunIsNoRun DEF MuHeld, Admits
<1>6. GuardCovers'
  BY <1>3, <1>4, PCs DEF GuardCovers, Admits, AFK
<1>7. ReaperKnows'
  BY <1>3 DEF ReaperKnows, Admits, NoRow, Reapers
<1>8. DeadKnows'
  BY <1>3 DEF DeadKnows, Admits, NoRow, Deads
<1>9. OneAutoRun'
  <2>1. \A s \in Runs : s # r => (s \in AutoInFlight' <=> s \in AutoInFlight)
    BY <1>3 DEF AutoInFlight, Admits, AFK
  <2>2. CASE Kind(n) = "afk_auto"
    <3>1. mu = NoRun /\ ActiveAutoRunForRepo = {}
      BY <2>2 DEF Admits, AFKKinds
    <3>2. AutoInFlight = {}
      BY <3>1, NoRunIsNoRun DEF AutoInFlight, MuHeld, ActiveAutoRunForRepo, ActiveRuns
    <3> QED BY <2>1, <3>2 DEF OneAutoRun, AutoInFlight
  <2>3. CASE Kind(n) # "afk_auto"
    <3>1. r \notin AutoInFlight'
      BY <2>3 DEF AutoInFlight, Admits
    <3> QED BY <2>1, <3>1 DEF OneAutoRun, AutoInFlight
  <2> QED BY <2>2, <2>3
<1> QED BY <1>1, <1>2, <1>5, <1>6, <1>7, <1>8, <1>9

\* A step that keeps names and the kinds of runs.
LEMMA AdvanceKeeps ==
  ASSUME IInv, NEW r \in Runs, NEW q \in MidStart, Advances(r, q), UNCHANGED <<reaper, dead>>
  PROVE  /\ Named' /\ RowsLate' /\ MuHeld' /\ GuardCovers'
         /\ ReaperKnows' /\ DeadKnows' /\ OneAutoRun'
<1> USE DEF IInv, TypeOK, StoreTypeOK, LaunchTypeOK
<1>1. \A s \in Runs : (AFK(s)' <=> AFK(s)) /\ (InFlight(s)' <=> InFlight(s))
  BY DEF Advances, AFK, InFlight
<1>2. \A s \in Runs : pc[s] \notin NoRow => pc'[s] \notin NoRow
  BY DEF Advances
<1>3. Named'
  BY PCs DEF Named, Advances, InFlight
<1>4. RowsLate'
  BY <1>2 DEF RowsLate, Advances
<1>5. MuHeld'
  BY <1>1 DEF MuHeld, Advances
<1>6. GuardCovers'
  BY <1>1 DEF GuardCovers, Advances, InFlight
<1>7. ReaperKnows'
  <2>1. pc[reaper.run] = "done" /\ reaper.run \in Runs => pc'[reaper.run] = "done"
    BY PCs DEF Advances, InFlight
  <2> QED BY <1>1, <1>2, <2>1 DEF ReaperKnows, Reapers
<1>8. DeadKnows'
  BY <1>1, <1>2 DEF DeadKnows, Deads
<1>9. OneAutoRun'
  <2>1. \A s \in AutoInFlight' : s \in AutoInFlight
    BY <1>1 DEF AutoInFlight, Advances
  <2> QED BY <2>1 DEF OneAutoRun
<1> QED BY <1>3, <1>4, <1>5, <1>6, <1>7, <1>8, <1>9

\* The deferred guard.Clear and mu.Unlock, with or without a rollback, keep the
\* invariant.
LEMMA ReturnKeeps ==
  ASSUME IInv, NEW r \in Runs, Returns(r), UNCHANGED <<reaper, dead>>
  PROVE  /\ Named' /\ RowsLate' /\ MuHeld' /\ GuardCovers'
         /\ ReaperKnows' /\ DeadKnows' /\ OneAutoRun'
<1> USE DEF IInv, TypeOK, StoreTypeOK, LaunchTypeOK
<1>1. \A s \in Runs : (AFK(s)' <=> AFK(s)) /\ (InFlight(s)' <=> InFlight(s) /\ s # r)
  BY PCs DEF Returns, AFK, InFlight
<1>2. \A s \in Runs : pc[s] \notin NoRow => pc'[s] \notin NoRow
  BY DEF Returns, NoRow
<1>3. Named'
  BY PCs DEF Named, Returns, InFlight
<1>4. RowsLate'
  BY <1>2 DEF RowsLate, Returns, NoRow
<1>5. MuHeld'
  BY <1>1 DEF MuHeld, Returns
<1>6. GuardCovers'
  \* r is an AFK launch, so it holds mu and no other one is in flight.
  <2> SUFFICES ASSUME NEW s \in Runs, AFK(s), pc'[s] \in MidStart
               PROVE  name'[s] \in starting'
    BY <1>1 DEF GuardCovers
  <2>1. s # r /\ pc[s] \in MidStart /\ InFlight(s)
    BY PCs DEF Returns, InFlight
  <2>2. mu = s /\ name[s] \in starting
    BY <2>1 DEF MuHeld, GuardCovers
  <2>3. ~AFK(r)
    BY <2>1, <2>2 DEF MuHeld, Returns
  <2>4. name[s] # name[r]
    BY <2>3, <2>1 DEF AFK
  <2> QED BY <2>2, <2>4 DEF Returns
<1>7. ReaperKnows'
  <2>1. pc[reaper.run] = "done" /\ reaper.run \in Runs => pc'[reaper.run] = "done"
    BY DEF Returns
  <2> QED BY <1>1, <1>2, <2>1 DEF ReaperKnows, Reapers
<1>8. DeadKnows'
  BY <1>1, <1>2 DEF DeadKnows, Deads
<1>9. OneAutoRun'
  <2>1. \A s \in AutoInFlight' : s \in AutoInFlight
    BY <1>1 DEF AutoInFlight, Returns
  <2> QED BY <2>1 DEF OneAutoRun
<1> QED BY <1>3, <1>4, <1>5, <1>6, <1>7, <1>8, <1>9

\* A quiet step disturbs none of it, but may teach the reaper and the
\* dead-session sweep something.
LEMMA QuietKeeps ==
  ASSUME IInv, QuietStep
  PROVE  Named' /\ RowsLate' /\ MuHeld' /\ GuardCovers' /\ OneAutoRun'
<1> USE DEF IInv, TypeOK, StoreTypeOK, LaunchTypeOK
<1>1. \A s \in Runs : (AFK(s)' <=> AFK(s)) /\ (InFlight(s)' <=> InFlight(s))
  BY DEF QuietStep, AFK, InFlight
<1>2. \A s \in Runs : outcome'[s] = outcome[s] \/ (outcome[s] = "active" /\ outcome'[s] \in Terminal)
  BY DEF QuietStep, EndStep
<1>3. Named' /\ MuHeld' /\ GuardCovers'
  BY <1>1 DEF QuietStep, Named, MuHeld, GuardCovers
<1>4. RowsLate'
  BY <1>2 DEF QuietStep, RowsLate
<1>5. OneAutoRun'
  <2>1. \A s \in AutoInFlight' : s \in AutoInFlight
    BY <1>1, <1>2 DEF AutoInFlight, QuietStep, Terminal
  <2> QED BY <2>1 DEF OneAutoRun
<1> QED BY <1>3, <1>4, <1>5

\* What the reaper knows past the startguard check: its run's launch returned.
LEMMA ReaperLearns == ASSUME IInv, ReaperNext PROVE ReaperKnows'
<1> USE DEF IInv, TypeOK, StoreTypeOK, LaunchTypeOK
<1>1. QuietStep
  BY ReaperQuiet
<1>2. \A s : AFK(s)' <=> AFK(s)
  BY <1>1 DEF QuietStep, AFK
<1>3. CASE ReapList
  BY <1>1, <1>3, PCs DEF ReapList, idleReaper, ActiveAFKRuns, ActiveRuns, ReaperKnows, QuietStep,
     RowsLate, Named, NoRow, AFK
<1>4. CASE ClaimGuard
  <2>1. pc[reaper.run] = "done"
    <3>1. reaper.run \in Runs /\ AFK(reaper.run) /\ pc[reaper.run] \notin NoRow
      BY <1>4, NoRunIsNoRun DEF ClaimGuard, ReaperKnows
    <3>2. pc[reaper.run] \notin MidStart
      BY <1>4, <3>1 DEF ClaimGuard, GuardCovers
    <3> QED BY <3>1, <3>2, PCs DEF NoRow
  <2> QED BY <1>1, <1>2, <1>4, <2>1 DEF ClaimGuard, ReaperKnows, QuietStep, Reapers
<1>5. CASE \E r \in Runs : ReapRead(r) \/ ReapSkip(r)
  <2> PICK r \in Runs : ReapRead(r) \/ ReapSkip(r)
    BY <1>5
  <2>1. /\ reaper'.todo \cup ({reaper'.run} \ {NoRun}) \subseteq
             reaper.todo \cup ({reaper.run} \ {NoRun})
        /\ reaper'.pc = "next" \/ (reaper'.pc = "locked" /\ reaper'.run = r)
    <3>1. CASE ReapRead(r)
      <4> DEFINE seen == Target(name[r]) \in pulls
      <4> HIDE DEF seen
      <4>1. r \in reaper.todo
        BY <3>1 DEF ReapRead
      <4>2. reaper' = [reaper EXCEPT !.pc = "locked", !.todo = @ \ {r}, !.run = r, !.done = seen]
        BY <3>1 DEF ReapRead, seen
      <4> QED BY <4>1, <4>2 DEF Reapers
    <3>2. CASE ReapSkip(r)
      BY <3>2 DEF ReapSkip, Reapers
    <3> QED BY <3>1, <3>2
  <2> QED BY <1>1, <1>2, <2>1 DEF ReaperKnows, QuietStep
<1>6. CASE ClaimRow \/ ClaimOutcome \/ ClaimDeclined
  BY <1>1, <1>2, <1>6 DEF ClaimRow, ClaimOutcome, ClaimDeclined, toNext, ReaperKnows, QuietStep, Reapers
<1>7. CASE ReapStop \/ ReapTeardown \/ ReapRemove \/ ReapWipe \/ ReapCount
  BY <1>1, <1>2, <1>7 DEF ReapStop, ReapTeardown, ReapRemove, ReapWipe, ReapCount, toNext,
     ReaperKnows, QuietStep, Reapers
<1>8. CASE \/ DrainList \/ DrainGuard \/ DrainRow \/ DrainSkip \/ DrainKill \/ DrainDone
           \/ \E n \in Names : DrainNext(n)
  <2>1. /\ reaper'.todo \subseteq reaper.todo
        /\ reaper'.run = reaper.run \/ reaper'.run = NoRun
        /\ reaper'.pc \in {"drain", "guard_z", "row_z", "kill_z", "idle"}
    <3>1. CASE DrainList \/ DrainGuard \/ DrainRow
      BY <3>1 DEF DrainList, DrainGuard, DrainRow, Reapers
    <3>2. CASE DrainSkip \/ DrainKill
      BY <3>2 DEF DrainSkip, DrainKill, toDrain, Reapers
    <3>3. CASE DrainDone
      BY <3>3 DEF DrainDone, idleReaper
    <3>4. CASE \E n \in Names : DrainNext(n)
      BY <3>4 DEF DrainNext, Reapers
    <3> QED BY <1>8, <3>1, <3>2, <3>3, <3>4
  <2> QED BY <1>1, <1>2, <2>1 DEF ReaperKnows, QuietStep
<1> QED BY <1>3, <1>4, <1>5, <1>6, <1>7, <1>8 DEF ReaperNext, ReaperStep

\* What the dead-session sweep holds: manual runs that have a row.
LEMMA DeadLearns == ASSUME IInv, DeadNext PROVE DeadKnows'
<1> USE DEF IInv, TypeOK, StoreTypeOK, LaunchTypeOK
<1>1. UNCHANGED <<name, pc>>
  BY DeadQuiet DEF QuietStep
<1>2. CASE DeadRows
  BY <1>1, <1>2 DEF DeadRows, idleDead, DeadKnows, ActiveRuns, AFK, AFKKinds, RowsLate
<1>3. CASE DeadSnapshot \/ DeadList \/ DeadDone \/ \E r \in Runs : DeadEnd(r)
  <2>1. dead'.runs \subseteq dead.runs
    <3>1. CASE DeadSnapshot \/ DeadList
      BY <3>1 DEF DeadSnapshot, DeadList, Deads
    <3>2. CASE DeadDone
      BY <3>2 DEF DeadDone, idleDead
    <3>3. CASE \E r \in Runs : DeadEnd(r)
      BY <3>3 DEF DeadEnd, Deads
    <3> QED BY <1>3, <3>1, <3>2, <3>3
  <2> QED BY <1>1, <2>1 DEF DeadKnows, AFK
<1> QED BY <1>2, <1>3 DEF DeadNext, DeadStep

\* The control state of the reaper and of the dead-session sweep is their own.
LEMMA ReaperOwn == SweepNext \/ DeadNext \/ OperatorNext \/ AgentNext => reaper' = reaper
<1>1. SweepNext => reaper' = reaper
  BY DEF SweepNext, SweepStep, SweepBranches, SweepWorktrees, SweepSnapshot, SweepList,
         SweepBranch, SweepRemove, SweepHomes
<1>2. DeadNext => reaper' = reaper
  BY DEF DeadNext, DeadStep, DeadRows, DeadSnapshot, DeadList, DeadEnd, DeadDone
<1>3. OperatorNext => reaper' = reaper
  BY DEF OperatorNext, OperatorRequest, OperatorStep, StopAFK, StopManual, Discard,
         StopAFKTokens, StopAFKSession, StopAFKWipe, StopManualSession, StopManualTeardown,
         StopManualRemove, StopManualEnd, StopManualWipe, DiscardKill, DiscardRow,
         DiscardEnd, DiscardTokens, DiscardWipe,
         DiscardWorktree, DiscardBranch
<1>4. AgentNext => reaper' = reaper
  BY DEF AgentNext, AgentWorks, OpenPull, MergePull, SessionExits
<1> QED BY <1>1, <1>2, <1>3, <1>4

\* Likewise the state of the dead-session sweep.
LEMMA DeadOwn == ReaperNext \/ SweepNext \/ OperatorNext \/ AgentNext => dead' = dead
<1>1. SweepNext => dead' = dead
  BY DEF SweepNext, SweepStep, SweepBranches, SweepWorktrees, SweepSnapshot, SweepList,
         SweepBranch, SweepRemove, SweepHomes
<1>2. ReaperNext => dead' = dead
  BY DEF ReaperNext, ReaperStep, ReapList, ReapRead, ReapSkip, ClaimRow, ClaimGuard,
         ClaimOutcome, ClaimDeclined, ReapStop, ReapTeardown, ReapRemove, ReapWipe, ReapCount,
         DrainList, DrainNext, DrainGuard, DrainRow, DrainSkip, DrainKill, DrainDone
<1>3. OperatorNext => dead' = dead
  BY DEF OperatorNext, OperatorRequest, OperatorStep, StopAFK, StopManual, Discard,
         StopAFKTokens, StopAFKSession, StopAFKWipe, StopManualSession, StopManualTeardown,
         StopManualRemove, StopManualEnd, StopManualWipe, DiscardKill, DiscardRow,
         DiscardEnd, DiscardTokens, DiscardWipe,
         DiscardWorktree, DiscardBranch
<1>4. AgentNext => dead' = dead
  BY DEF AgentNext, AgentWorks, OpenPull, MergePull, SessionExits
<1> QED BY <1>1, <1>2, <1>3, <1>4

\* A restart forgets guard, locks and threads, and keeps the invariant.
LEMMA RestartKeeps == ASSUME IInv, Restart PROVE IInv'
<1> USE DEF IInv, LaunchTypeOK
<1>1. TypeOK'
  BY TypeRestart
<1>2. \A s \in Runs : pc'[s] \in {"idle", "done"} /\ (pc'[s] = "idle" <=> pc[s] = "idle")
  BY DEF Restart, TypeOK
<1>3. name' = name /\ reaper' = idleReaper /\ dead' = idleDead
  BY DEF Restart
<1>4. \A s \in Runs : outcome'[s] = "none" <=> outcome[s] = "none"
  BY DEF Restart
<1>5. \A s \in Runs : outcome'[s] = "active" => outcome[s] = "active"
  BY DEF Restart
<1>6. Named' /\ RowsLate'
  BY <1>2, <1>3, <1>4 DEF Named, RowsLate, NoRow
<1>7. MuHeld' /\ GuardCovers'
  BY <1>2, PCs DEF MuHeld, GuardCovers, InFlight
<1>8. ReaperKnows' /\ DeadKnows'
  BY <1>3 DEF ReaperKnows, DeadKnows, idleReaper, idleDead
<1>9. OneAutoRun'
  <2>1. \A s \in AutoInFlight' : s \in AutoInFlight
    BY <1>2, <1>3, <1>5, PCs DEF AutoInFlight, InFlight, AFK
  <2> QED BY <2>1 DEF OneAutoRun
<1> QED BY <1>1, <1>6, <1>7, <1>8, <1>9

\* Every step, or a stutter, keeps the invariant.
LEMMA NextInv == IInv /\ [Next]_vars => IInv'
<1> SUFFICES ASSUME IInv, [Next]_vars PROVE IInv'
  OBVIOUS
<1>1. CASE LaunchNext
  <2>1. TypeOK'
    BY <1>1, TypeLaunch DEF IInv
  <2>2. UNCHANGED <<reaper, dead>>
    BY <1>1, LaunchShape
  <2>3. PICK r \in Runs : \/ \E n \in Names : Admits(r, n)
                          \/ \E q \in MidStart : Advances(r, q)
                          \/ Returns(r)
    BY <1>1, LaunchShape
  <2> QED BY <2>1, <2>2, <2>3, AdmitKeeps, AdvanceKeeps, ReturnKeeps DEF IInv
<1>2. CASE QuietNext
  <2>1. Named' /\ RowsLate' /\ MuHeld' /\ GuardCovers' /\ OneAutoRun'
    BY <1>2, Quiet, QuietKeeps
  <2>2. TypeOK'
    BY <1>2, TypeReaper, TypeSweep, TypeDead, TypeOperator, TypeAgent DEF QuietNext, IInv
  <2>3. UNCHANGED <<name, pc>>
    BY <1>2, Quiet DEF QuietStep
  <2>4. ReaperKnows'
    BY <1>2, <2>3, ReaperLearns, ReaperOwn DEF QuietNext, IInv, ReaperKnows, AFK
  <2>5. DeadKnows'
    BY <1>2, <2>3, DeadLearns, DeadOwn DEF QuietNext, IInv, DeadKnows, AFK
  <2> QED BY <2>1, <2>2, <2>4, <2>5 DEF IInv
<1>3. CASE Restart
  BY <1>3, RestartKeeps
<1>4. CASE UNCHANGED vars
  BY <1>4 DEF vars, IInv, TypeOK, StoreTypeOK, WorldTypeOK, LaunchTypeOK, Named, RowsLate,
     MuHeld, GuardCovers, ReaperKnows, DeadKnows, OneAutoRun, AutoInFlight, InFlight, AFK
<1> QED BY <1>1, <1>2, <1>3, <1>4 DEF Next, QuietNext

\* The invariant the theorems below rest on: what the threads of lab may rely
\* on about the launches in flight.
THEOREM LabInvariant == Spec => []IInv
BY InitInv, NextInv, PTL DEF Spec

\* Every variable of the store, tmux, git and the threads keeps its type.
THEOREM TypeCorrect == Spec => []TypeOK
<1>1. IInv => TypeOK
  BY DEF IInv
<1> QED BY <1>1, LabInvariant, PTL

\* At most one auto run per repository is launching or active, because mu is
\* held from afk.launch's gate to its return.
THEOREM OneAutoRunCorrect == Spec => []OneAutoRun
<1>1. IInv => OneAutoRun
  BY DEF IInv
<1> QED BY <1>1, LabInvariant, PTL

(***************************************************************************)
(* What a step may do to an outcome.                                       *)
(***************************************************************************)
\* How one step may change the outcome of one row.
LEMMA OutcomeSteps ==
  ASSUME IInv, Next
  PROVE  \A s \in Runs : \/ outcome'[s] = outcome[s]
                         \/ outcome[s] = "none" /\ outcome'[s] = "active"
                         \/ pc[s] = "rb_row" /\ outcome'[s] = "none"
                         \/ /\ outcome[s] = "active" /\ outcome'[s] \in Terminal
                            /\ AFK(s) /\ outcome'[s] # "stopped" => pc'[s] = "done"
<1> USE DEF IInv, TypeOK, StoreTypeOK, LaunchTypeOK
<1>1. CASE LaunchNext
  <2> PICK r \in Runs : \/ \E n \in Names : Admits(r, n)
                        \/ \E q \in MidStart : Advances(r, q)
                        \/ Returns(r)
    BY <1>1, LaunchShape
  <2> QED BY DEF Admits, Advances, Returns
<1>2. CASE QuietNext
  BY <1>2, Quiet DEF QuietStep, EndStep
<1>3. CASE Restart
  <2> SUFFICES ASSUME NEW s \in Runs, outcome'[s] # outcome[s]
               PROVE  outcome[s] = "active" /\ outcome'[s] = "death" /\ pc'[s] = "done"
    BY <1>3 DEF Terminal
  <2>1. outcome[s] = "active" /\ outcome'[s] = "death"
    BY <1>3 DEF Restart
  <2>2. pc[s] # "idle"
    BY <2>1 DEF RowsLate, NoRow
  <2> QED BY <1>3, <2>1, <2>2 DEF Restart
<1> QED BY <1>1, <1>2, <1>3 DEF Next, QuietNext

\* No AFK run is reaped before its Launch has returned, whatever else runs:
\* the startguard covers every AFK launch that has a row.
THEOREM ReapedAfterLaunchCorrect == Spec => ReapedAfterLaunch
<1>1. IInv /\ [Next]_vars =>
        [\A r \in Runs : AFK(r) /\ outcome[r] = "active" /\ outcome'[r] \in Terminal \ {"stopped"}
                         => pc'[r] = "done"]_vars
  BY OutcomeSteps DEF Terminal
<1> QED BY <1>1, LabInvariant, PTL DEF Spec, ReapedAfterLaunch

\* A terminal outcome is never overwritten, and only its own rollback deletes
\* the row.
THEOREM OutcomeFinalCorrect == Spec => OutcomeFinal
<1>1. IInv /\ [Next]_vars =>
        [\A r \in Runs : outcome[r] \in Terminal /\ pc[r] # "rb_row" => outcome'[r] = outcome[r]]_vars
  BY OutcomeSteps DEF Terminal
<1> QED BY <1>1, LabInvariant, PTL DEF Spec, OutcomeFinal

(***************************************************************************)
(* Lab implements RunLedger.                                               *)
(***************************************************************************)
kindBar == [r \in Runs |-> IF name[r] = NoName THEN "none" ELSE Kind(name[r])]
launchingBar == {r \in Runs : Launching(r)}

\* A fresh lab is a fresh ledger.
LEMMA LedgerInitMaps == Init => Ledger!LedgerInit
BY PCs DEF Init, Ledger!LedgerInit, Launching, InFlight

\* Selecting a target admits the run: mu keeps AFK launches apart, the gate and
\* mu together keep a second auto run out.
LEMMA AdmitMaps ==
  ASSUME IInv, NEW r \in Runs, NEW n \in Names, Admits(r, n)
  PROVE  Ledger!Admit(r, Kind(n))
<1> USE DEF IInv, TypeOK, StoreTypeOK, LaunchTypeOK
<1>1. kindBar[r] = "none" /\ Kind(n) \in {"manual"} \cup Ledger!Unattended
  BY KindsOfNames DEF Admits, kindBar, Named, Ledger!Unattended, AFKKinds
<1>2. ASSUME Kind(n) \in Ledger!Unattended
      PROVE  \A s \in launchingBar : kindBar[s] \notin Ledger!Unattended
  <2>1. mu = NoRun
    BY <1>2 DEF Admits, AFKKinds, Ledger!Unattended
  <2> QED
    BY <2>1, NoRunIsNoRun DEF launchingBar, Launching, kindBar, MuHeld, AFK, AFKKinds, Ledger!Unattended
<1>3. ASSUME Kind(n) = "afk_auto" PROVE Ledger!AutoRuns = {}
  <2>1. mu = NoRun /\ ActiveAutoRunForRepo = {}
    BY <1>3 DEF Admits, AFKKinds
  <2> SUFFICES ASSUME NEW s \in Runs, kindBar[s] = "afk_auto", outcome[s] = "active" \/ Launching(s)
               PROVE  FALSE
    BY DEF Ledger!AutoRuns, kindBar
  <2>2. AFK(s) /\ Kind(name[s]) = "afk_auto"
    BY DEF kindBar, AFK, AFKKinds
  <2> QED BY <2>1, <2>2, NoRunIsNoRun DEF MuHeld, ActiveAutoRunForRepo, ActiveRuns, Launching
<1>4. kindBar' = [kindBar EXCEPT ![r] = Kind(n)]
  BY NoNameIsNoName DEF Admits, kindBar
<1>5. launchingBar' = launchingBar \cup {r}
  BY DEF Admits, launchingBar, Launching, InFlight
<1> QED BY <1>1, <1>2, <1>3, <1>4, <1>5 DEF Admits, Ledger!Admit, kindBar, launchingBar

\* An advancing launch writes its row, takes it back or does nothing the ledger
\* sees.
LEMMA AdvanceMaps ==
  ASSUME IInv, NEW r \in Runs, NEW q \in MidStart, Advances(r, q)
  PROVE  Ledger!Record(r) \/ Ledger!Forget(r) \/ UNCHANGED Ledger!ledgerVars
<1> USE DEF IInv, TypeOK, StoreTypeOK, LaunchTypeOK
<1>1. kindBar' = kindBar
  BY DEF Advances, kindBar
<1>2. CASE q # "rb_wipe"
  <2>1. launchingBar' = launchingBar /\ r \in launchingBar
    BY <1>2 DEF Advances, launchingBar, Launching, InFlight
  <2> QED
    BY <1>1, <1>2, <2>1 DEF Advances, Ledger!Record, Ledger!ledgerVars, kindBar, launchingBar
<1>3. CASE q = "rb_wipe"
  <2>1. launchingBar' = launchingBar \ {r} /\ r \in launchingBar
    BY <1>3 DEF Advances, launchingBar, Launching, InFlight
  <2> QED BY <1>1, <1>3, <2>1 DEF Advances, Ledger!Forget, kindBar, launchingBar
<1> QED BY <1>2, <1>3

\* A launch that returns leaves the ledger; one that rolled back has left it.
LEMMA ReturnMaps ==
  ASSUME IInv, NEW r \in Runs, Returns(r)
  PROVE  Ledger!Return(r) \/ UNCHANGED Ledger!ledgerVars
<1> USE DEF IInv, TypeOK, StoreTypeOK, LaunchTypeOK
<1>1. kindBar' = kindBar
  BY DEF Returns, kindBar
<1>2. launchingBar' = launchingBar \ {r} /\ (pc[r] # "rb_wipe" <=> r \in launchingBar)
  BY PCs DEF Returns, launchingBar, Launching, InFlight
<1>3. CASE r \in launchingBar
  BY <1>1, <1>2, <1>3 DEF Returns, Ledger!Return, kindBar, launchingBar
<1>4. CASE r \notin launchingBar
  BY <1>1, <1>2, <1>4 DEF Returns, Ledger!ledgerVars, kindBar, launchingBar
<1> QED BY <1>3, <1>4

\* A quiet step ends one row of the ledger or stutters.
LEMMA QuietMaps ==
  ASSUME IInv, QuietStep
  PROVE  (\E r \in Runs, o \in Terminal : Ledger!End(r, o)) \/ UNCHANGED Ledger!ledgerVars
<1>1. kindBar' = kindBar /\ launchingBar' = launchingBar
  BY DEF QuietStep, kindBar, launchingBar, Launching, InFlight
<1>2. ASSUME NEW r \in Runs, NEW o \in Terminal, EndStep(r, o) PROVE Ledger!End(r, o)
  <2>1. kindBar[r] \in Ledger!Unattended => AFK(r)
    BY DEF kindBar, AFK, AFKKinds, Ledger!Unattended
  <2>2. pc[r] = "done" => r \notin launchingBar
    BY PCs DEF launchingBar, Launching, InFlight
  <2> QED BY <1>1, <1>2, <2>1, <2>2 DEF EndStep, Ledger!End, kindBar, launchingBar
<1> QED BY <1>1, <1>2 DEF QuietStep, Ledger!ledgerVars, kindBar, launchingBar

\* A restart is a crash of the ledger: launches are lost, finished runs are not.
LEMMA RestartMaps == ASSUME IInv, Restart PROVE Ledger!Crash
<1> USE DEF IInv, TypeOK, StoreTypeOK, LaunchTypeOK
<1>1. kindBar' = kindBar
  BY DEF Restart, kindBar
<1>2. launchingBar' = {}
  BY PCs DEF Restart, launchingBar, Launching, InFlight
<1> DEFINE lost == {r \in Runs : outcome[r] = "active" /\ outcome'[r] = "death"}
<1>3. outcome' = [r \in Runs |-> IF r \in lost THEN "death" ELSE outcome[r]]
  BY DEF Restart
<1>4. lost \in SUBSET {r \in Runs : outcome[r] = "active"}
  OBVIOUS
<1> HIDE DEF lost
<1> QED BY <1>1, <1>2, <1>3, <1>4 DEF Ledger!Crash, kindBar, launchingBar

\* Lab implements RunLedger: every step of its threads is a step of the
\* ledger or changes nothing the ledger sees.
THEOREM LabImplementsLedger == Spec => KeepsLedger
<1>1. IInv /\ [Next]_vars => [Ledger!LedgerNext]_(Ledger!ledgerVars)
  <2> SUFFICES ASSUME IInv, [Next]_vars
               PROVE  Ledger!LedgerNext \/ UNCHANGED Ledger!ledgerVars
    OBVIOUS
  <2>1. CASE LaunchNext
    <3> PICK r \in Runs : \/ \E n \in Names : Admits(r, n)
                          \/ \E q \in MidStart : Advances(r, q)
                          \/ Returns(r)
      BY <2>1, LaunchShape
    <3>1. ASSUME NEW n \in Names, Admits(r, n) PROVE Ledger!LedgerNext
      BY <3>1, AdmitMaps, KindsOfNames DEF Ledger!LedgerNext, Ledger!Unattended, AFKKinds
    <3> QED BY <3>1, AdvanceMaps, ReturnMaps DEF Ledger!LedgerNext
  <2>2. CASE QuietNext
    BY <2>2, Quiet, QuietMaps DEF Ledger!LedgerNext, Ledger!Ended, Terminal
  <2>3. CASE Restart
    BY <2>3, RestartMaps DEF Ledger!LedgerNext
  <2>4. CASE UNCHANGED vars
    BY <2>4 DEF vars, Ledger!ledgerVars, Launching, InFlight
  <2> QED BY <2>1, <2>2, <2>3, <2>4 DEF Next, QuietNext
<1> QED BY <1>1, LabInvariant, LedgerInitMaps, PTL DEF Spec, KeepsLedger, Ledger!LedgerSpec

(***************************************************************************)
(* Part two, the claims of a repository of lab: the claim branch and the   *)
(* worktree of an issue, the session that works in them, and the work      *)
(* itself.                                                                 *)
(*                                                                         *)
(* With every actor at work and every operation failing, they are lost in  *)
(* two ways only, which Breach names: a kill fails whose run is about to   *)
(* lose its worktree, or the runtime sweep or a Discard takes the claim of *)
(* an issue that some run still has to do with.  The theorems say that     *)
(* nothing else breaks them: not the reaper, whose decision and removal    *)
(* are apart, not a Stop, a rollback, a failing git or a restart.          *)
(*                                                                         *)
(* CInv stands on IInv.  Its heart is Alone: at most one run has anything  *)
(* to do with an issue, counting a run whose row has ended but whose       *)
(* session is live or whose worktree the reaper is about to take.          *)
(*                                                                         *)
(* The last part is about the launches in flight and the sweeps, which     *)
(* decide on old readings.                                                 *)
(***************************************************************************)
(***************************************************************************)
(* The inductive invariant.                                                *)
(***************************************************************************)

\* The steps of a launch between `git worktree add` and its return, and those
\* past the kill of a rollback.
Forked == {"claimed", "rowed", "tokened", "started"} \cup RollingBack
Undone == {"rb_worktree", "rb_branch", "rb_row", "rb_wipe"}

\* The reaper's steps from the claim of an outcome to the end of the teardown.
Reaping == {"stop", "teardown", "remove"}

\* A run that has something to do with its issue.
OnClaim(r) ==
  /\ AFK(r)
  /\ \/ outcome[r] = "active"
     \/ pc[r] \in Forked
     \/ session[name[r]] = r
     \/ reaper.run = r /\ reaper.pc \in Reaping

Present(t) == branch[t] # "absent" /\ worktree[t] # "none"

\* kill-session fails for a rollback, which then takes the worktree, or for a reap.
KillFails ==
  /\ UNCHANGED session
  /\ \/ \E r \in Runs : RollbackStop(r) /\ session[name[r]] = r
     \/ ReapStop /\ session[name[reaper.run]] = reaper.run

\* A thread that owns no claim takes one that a run still has.
ClaimTaken ==
  /\ SweepNext \/ DiscardWorktree \/ DiscardBranch
  /\ \E r \in Runs : /\ OnClaim(r) /\ pc[r] \notin Undone
                     /\ Present(Target(name[r])) /\ ~Present(Target(name[r]))'

Breach == KillFails \/ ClaimTaken

Alone ==
  \A r1, r2 \in Runs : OnClaim(r1) /\ OnClaim(r2) /\ Target(name[r1]) = Target(name[r2]) => r1 = r2

OnDisk == \A r \in Runs : OnClaim(r) /\ pc[r] \notin Undone => Present(Target(name[r]))

\* A live AFK session was spawned by a run of its name.
Spawned == \A n \in Names : Kind(n) \in AFKKinds /\ session[n] # NoRun => name[session[n]] = n

\* A rollback past its kill left no session behind.
Silenced == \A r \in Runs : AFK(r) /\ pc[r] \in Undone => session[name[r]] # r

\* The run being reaped is launched and ended, and dead once it was killed.
Reaped ==
  reaper.pc \in Reaping =>
    /\ reaper.run \in Runs
    /\ pc[reaper.run] = "done" /\ outcome[reaper.run] \in Terminal
    /\ reaper.pc # "stop" \/ ~reaper.alive => session[name[reaper.run]] # reaper.run

\* A manual Stop tears down a manual branch.
ManualPCs == {"stop_m", "teardown_m", "remove_m", "end_m", "wipe_m"}
DiscardPCs == {"kill_d", "row_d", "end_d", "tokens_d", "wipe_d", "worktree_d", "branch_d"}
Tame == op.pc \in ManualPCs => op.name \in Names /\ Kind(op.name) = "manual"

CInv == Alone /\ OnDisk /\ Spawned /\ Silenced /\ Reaped /\ Tame

\* The teardown the reaper decided on is still right when it is applied.
Decided ==
  reaper.pc = "remove" =>
    /\ reaper.act.worktree => worktree[Target(name[reaper.run])] # "dirty"
    /\ reaper.act.branch => branch[Target(name[reaper.run])] # "ahead"
(***************************************************************************)
(* Names, targets and the three things a calm step may not do.             *)
(***************************************************************************)
\* The steps of the launch that bear on a claim.
LEMMA ForkedPCs ==
  /\ Forked = {"claimed", "rowed", "tokened", "started", "rb_stop", "rb_worktree", "rb_branch",
               "rb_row", "rb_wipe"}
  /\ Forked \subseteq MidStart /\ Undone \subseteq Forked
  /\ Forked \cap {"idle", "selected", "marked", "done"} = {}
BY PCs DEF Forked, RollingBack, Undone

\* An AFK run's name is a session name of one of the issues.
LEMMA AFKName ==
  ASSUME TypeOK, NEW r \in Runs, AFK(r)
  PROVE  name[r] \in Names /\ Kind(name[r]) \in AFKKinds /\ Target(name[r]) \in Issues
BY DEF TypeOK, StoreTypeOK, AFK, Names, Kind, Target, AFKKinds

\* A manual name belongs to no issue.
LEMMA ManualName == \A n \in Names : Kind(n) = "manual" => Target(n) \in Labels /\ Target(n) \notin Issues
BY TargetsDisjoint DEF Names, Kind, Target, AFKKinds

\* Whoever spawned the live session of an AFK name has to do with the issue.
LEMMA SpawnerOnClaim ==
  ASSUME IInv, CInv, NEW n \in Names, Kind(n) \in AFKKinds, session[n] # NoRun
  PROVE  session[n] \in Runs /\ OnClaim(session[n]) /\ name[session[n]] = n
<1>1. session[n] \in Runs
  BY DEF IInv, TypeOK, WorldTypeOK
<1>2. name[session[n]] = n
  BY DEF CInv, Spawned
<1> QED BY <1>1, <1>2, NoNameIsNoName DEF OnClaim, AFK

\* The run being reaped has to do with its issue.
LEMMA ReapedOnClaim ==
  ASSUME IInv, CInv, reaper.pc \in Reaping
  PROVE  reaper.run \in Runs /\ OnClaim(reaper.run) /\ AFK(reaper.run)
<1>1. reaper.run \in Runs
  BY DEF CInv, Reaped
<1> QED BY <1>1, NoRunIsNoRun DEF IInv, ReaperKnows, OnClaim

\* Where no run newly comes to a claim, and git takes nothing from those that
\* stay, Alone and OnDisk are kept.
LEMMA ClaimsStay ==
  ASSUME CInv,
         \A r \in Runs : OnClaim(r)' => OnClaim(r) /\ name'[r] = name[r],
         \A r \in Runs : OnClaim(r)' /\ pc'[r] \notin Undone =>
             pc[r] \notin Undone /\ (Present(Target(name[r])) => Present(Target(name[r]))')
  PROVE  Alone' /\ OnDisk'
<1>1. Alone'
  BY DEF CInv, Alone
<1>2. OnDisk'
  BY DEF CInv, OnDisk
<1> QED BY <1>1, <1>2

\* A step outside the launches, the reaper and a restart: it may end rows and
\* kill sessions, and takes from git nothing that a run has to do with.
Calm ==
  /\ UNCHANGED <<name, pc, reaper>>
  /\ \A r \in Runs : outcome'[r] = outcome[r] \/ (outcome[r] = "active" /\ outcome'[r] \in Terminal)
  /\ \A n \in Names : session'[n] \in {session[n], NoRun}
  /\ \A r \in Runs : OnClaim(r) /\ pc[r] \notin Undone /\ Present(Target(name[r]))
                     => Present(Target(name[r]))'

\* One that takes nothing of any issue is calm in that.
LEMMA IssuesStay ==
  ASSUME TypeOK, UNCHANGED name, \A t \in Issues : Present(t) => Present(t)'
  PROVE  \A r \in Runs : OnClaim(r) /\ pc[r] \notin Undone /\ Present(Target(name[r]))
                     => Present(Target(name[r]))'
  BY AFKName DEF OnClaim

\* A calm step keeps what the invariant says of runs, sessions and branches.
LEMMA CalmKeeps ==
  ASSUME IInv, CInv, Calm
  PROVE  Alone' /\ OnDisk' /\ Spawned' /\ Silenced' /\ Reaped'
<1>0. TypeOK
  BY DEF IInv
<1>1. \A r \in Runs : AFK(r) => name[r] \in Names /\ Target(name[r]) \in Issues
  BY <1>0, AFKName
<1>2. \A r \in Runs : AFK(r) => (session'[name[r]] = r => session[name[r]] = r)
  BY <1>1, NoRunIsNoRun DEF Calm
<1>3. \A r \in Runs : OnClaim(r)' => OnClaim(r)
  BY <1>2 DEF Calm, OnClaim, AFK, Terminal
<1>4. Alone' /\ OnDisk'
  BY <1>1, <1>3, ClaimsStay DEF Calm, OnClaim
<1>5. Spawned'
  BY DEF CInv, Spawned, Calm
<1>6. Silenced'
  BY <1>2 DEF CInv, Silenced, Calm, AFK
<1>7. Reaped'
  <2> SUFFICES ASSUME reaper.pc \in Reaping
               PROVE  /\ reaper.run \in Runs
                      /\ pc[reaper.run] = "done" /\ outcome'[reaper.run] \in Terminal
                      /\ reaper.pc # "stop" \/ ~reaper.alive => session'[name[reaper.run]] # reaper.run
    BY DEF Reaped, Calm
  <2>1. reaper.run \in Runs /\ AFK(reaper.run)
    BY ReapedOnClaim
  <2> QED BY <1>2, <2>1 DEF CInv, Reaped, Calm, Terminal
<1> QED BY <1>4, <1>5, <1>6, <1>7
(***************************************************************************)
(* The calm threads.                                                       *)
(***************************************************************************)
\* A quiet step ends at most one active row.
LEMMA QuietEnds ==
  ASSUME IInv, QuietStep
  PROVE  \A r \in Runs : outcome'[r] = outcome[r] \/ (outcome[r] = "active" /\ outcome'[r] \in Terminal)
BY DEF QuietStep, EndStep, IInv, TypeOK, StoreTypeOK

\* kill-session kills that session and no other, or fails.
LEMMA StopKills ==
  ASSUME TypeOK, NEW n, StopSession(n)
  PROVE  /\ UNCHANGED session \/ (n \in Names => session'[n] = NoRun)
         /\ \A m \in Names : session'[m] \in {session[m], NoRun}
BY DEF StopSession, Killed, TypeOK, WorldTypeOK

\* A guarded teardown touches the one target it was decided for.
LEMMA TeardownLocal ==
  ASSUME TypeOK, NEW t, NEW act, TeardownApply(t, act)
  PROVE  \A s \in Targets : s # t => branch'[s] = branch[s] /\ worktree'[s] = worktree[s]
BY DEF TypeOK, WorldTypeOK, TeardownApply

\* The agents edit, commit, open pull requests and exit: no branch or worktree
\* goes away.
LEMMA AgentCalm == ASSUME IInv, AgentNext PROVE Calm /\ UNCHANGED op
<1> USE DEF IInv, TypeOK, WorldTypeOK
<1>0. Issues \subseteq Targets
  BY DEF Targets
<1>1. \A t \in Issues : Present(t) => Present(t)'
  <2>1. CASE AgentWorks
    BY <1>0, <2>1 DEF AgentWorks, AgentEdits, AgentCommits, Present
  <2>2. ASSUME NEW n \in Names, OpenPull(n) \/ SessionExits(n) PROVE \A t \in Issues : Present(t) => Present(t)'
    BY <2>2 DEF OpenPull, SessionExits, Present
  <2>3. ASSUME NEW t \in Issues, MergePull(t) PROVE \A s \in Issues : Present(s) => Present(s)'
    BY <1>0, <2>3 DEF MergePull, Present
  <2> QED BY <2>1, <2>2, <2>3 DEF AgentNext
<1>2. /\ UNCHANGED <<name, pc, reaper, outcome, op>>
      /\ \A n \in Names : session'[n] \in {session[n], NoRun}
  BY DEF AgentNext, AgentWorks, AgentEdits, AgentCommits, OpenPull, MergePull, SessionExits, Killed
<1> QED BY <1>1, <1>2, IssuesStay DEF Calm

\* The dead-session sweep only ends rows.
LEMMA DeadCalm == ASSUME IInv, DeadNext PROVE Calm /\ UNCHANGED op
<1>1. UNCHANGED <<session, gitVars, reaper, sweep, op>>
  BY DEF DeadNext, DeadStep, DeadRows, DeadSnapshot, DeadList, DeadEnd, DeadDone
<1>2. QuietStep
  BY DeadQuiet
<1> QED BY <1>1, <1>2, QuietEnds DEF Calm, QuietStep, Present

\* The runtime sweep ends no row and kills nothing.
LEMMA SweepCalm == ASSUME IInv, SweepNext, ~ClaimTaken PROVE Calm /\ UNCHANGED op
<1>1. UNCHANGED <<name, pc, outcome, session, reaper, op>>
  BY DEF SweepNext, SweepStep, SweepBranches, SweepWorktrees, SweepSnapshot, SweepList,
         SweepBranch, SweepRemove, SweepHomes
<1> QED BY <1>1 DEF Calm, ClaimTaken

\* The control state of the sweep and of the operator's request is their own.
LEMMA SweepOwn == ReaperNext \/ DeadNext \/ OperatorNext \/ AgentNext => sweep' = sweep
<1>1. ReaperNext => sweep' = sweep
  BY DEF ReaperNext, ReaperStep, ReapList, ReapRead, ReapSkip, ClaimRow, ClaimGuard,
         ClaimOutcome, ClaimDeclined, ReapStop, ReapTeardown, ReapRemove, ReapWipe, ReapCount,
         DrainList, DrainNext, DrainGuard, DrainRow, DrainSkip, DrainKill, DrainDone
<1>2. DeadNext => sweep' = sweep
  BY DEF DeadNext, DeadStep, DeadRows, DeadSnapshot, DeadList, DeadEnd, DeadDone
<1>3. OperatorNext => sweep' = sweep
  BY DEF OperatorNext, OperatorRequest, OperatorStep, StopAFK, StopManual, Discard,
         StopAFKTokens, StopAFKSession, StopAFKWipe, StopManualSession, StopManualTeardown,
         StopManualRemove, StopManualEnd, StopManualWipe, DiscardKill, DiscardRow,
         DiscardEnd, DiscardTokens, DiscardWipe,
         DiscardWorktree, DiscardBranch
<1>4. AgentNext => sweep' = sweep
  BY DEF AgentNext, AgentWorks, OpenPull, MergePull, SessionExits
<1> QED BY <1>1, <1>2, <1>3, <1>4

\* The operator's requests: Stop on an AFK run keeps branch and worktree, Stop on a
\* manual one tears down its own, and a Discard that is no breach takes a branch
\* nobody has to do with.
LEMMA OperatorCalm ==
  ASSUME IInv, CInv, OperatorNext, ~ClaimTaken
  PROVE  Calm /\ Tame'
<1>0. TypeOK /\ QuietStep /\ op \in Ops /\ reaper' = reaper
  BY OperatorQuiet, ReaperOwn DEF IInv, TypeOK
<1>1. UNCHANGED <<name, pc>> /\
      \A r \in Runs : outcome'[r] = outcome[r] \/ (outcome[r] = "active" /\ outcome'[r] \in Terminal)
  BY <1>0, QuietEnds DEF QuietStep
<1>2. op.pc \in ManualPCs => op.name \in Names /\ Kind(op.name) = "manual"
  BY DEF CInv, Tame
<1> USE DEF Ops
<1>3. ASSUME UNCHANGED session, UNCHANGED <<branch, worktree>> PROVE Calm
  BY <1>0, <1>1, <1>3 DEF Calm, Present
<1>4. ASSUME NEW n, StopSession(n), UNCHANGED <<branch, worktree>> PROVE Calm
  BY <1>0, <1>1, <1>4, StopKills DEF Calm, Present
<1>5. ASSUME op' = idleOp PROVE Tame'
  BY <1>0, <1>5 DEF Tame, idleOp, ManualPCs
<1>6. ASSUME NEW n \in Names, NEW r \in Runs, StopAFK(n, r) PROVE Calm /\ Tame'
  BY <1>0, <1>3, <1>6 DEF StopAFK, Tame, idleOp, ManualPCs
<1>7. ASSUME NEW n \in Names, NEW r \in Runs, StopManual(n, r) PROVE Calm /\ Tame'
  BY <1>0, <1>3, <1>7 DEF StopManual, Tame, idleOp, ManualPCs
<1>8. CASE StopAFKTokens \/ StopAFKWipe \/ StopAFKSession
  <2>1. CASE StopAFKTokens
    BY <1>0, <1>2, <1>3, <2>1 DEF StopAFKTokens, Tame, ManualPCs
  <2>2. CASE StopAFKWipe
    BY <1>0, <1>3, <1>5, <2>2 DEF StopAFKWipe
  <2>3. CASE StopAFKSession
    BY <1>0, <1>2, <1>4, <2>3 DEF StopAFKSession, Tame, ManualPCs
  <2> QED BY <1>8, <2>1, <2>2, <2>3
<1>9. CASE StopManualSession
  BY <1>0, <1>2, <1>4, <1>9 DEF StopManualSession, Tame, ManualPCs
<1>10. CASE StopManualTeardown
  BY <1>0, <1>2, <1>3, <1>10 DEF StopManualTeardown, Tame, ManualPCs
<1>11. CASE StopManualRemove
  <2>1. Target(op.name) \notin Issues
    BY <1>2, <1>11, ManualName DEF StopManualRemove, ManualPCs
  <2>2. \A t \in Issues : Present(t) => Present(t)'
    BY <1>0, <2>1, <1>11, TeardownLocal DEF StopManualRemove, Present, Targets
  <2>3. UNCHANGED session
    BY <1>11 DEF StopManualRemove
  <2>4. Calm
    BY <1>0, <1>1, <2>2, <2>3, IssuesStay DEF Calm
  <2> QED BY <1>0, <1>2, <1>11, <2>4 DEF StopManualRemove, Tame, ManualPCs
<1>12. CASE StopManualEnd
  BY <1>0, <1>2, <1>3, <1>12 DEF StopManualEnd, Tame, ManualPCs
<1>13. CASE StopManualWipe
  BY <1>0, <1>3, <1>5, <1>13 DEF StopManualWipe
<1>14. ASSUME NEW t \in Targets, Discard(t) PROVE Calm /\ Tame'
  BY <1>0, <1>3, <1>14 DEF Discard, Tame, idleOp, ManualPCs
<1>15. ASSUME NEW n \in Names, DiscardKill(n) PROVE Calm /\ Tame'
  BY <1>0, <1>4, <1>15 DEF DiscardKill, Tame, ManualPCs
<1>16. CASE DiscardRow \/ DiscardEnd \/ DiscardTokens \/ DiscardWipe
  BY <1>0, <1>3, <1>16 DEF DiscardRow, DiscardEnd, DiscardTokens, DiscardWipe, Tame, ManualPCs
<1>17. CASE DiscardWorktree
  <2>1. UNCHANGED session /\ Tame'
    BY <1>0, <1>17 DEF DiscardWorktree, Tame, idleOp, ManualPCs
  <2> QED BY <1>0, <1>1, <1>17, <2>1 DEF Calm, ClaimTaken
<1>18. CASE DiscardBranch
  <2>1. UNCHANGED session /\ op' = idleOp
    BY <1>18 DEF DiscardBranch
  <2> QED BY <1>0, <1>1, <1>5, <1>18, <2>1 DEF Calm, ClaimTaken
<1> QED
  BY <1>6, <1>7, <1>8, <1>9, <1>10, <1>11, <1>12, <1>13, <1>14, <1>15, <1>16, <1>17, <1>18
     DEF OperatorNext, OperatorRequest, OperatorStep

(***************************************************************************)
(* The reaper.                                                             *)
(***************************************************************************)
\* The reaper neither selects names nor moves launches, sweeps or requests.
LEMMA ReaperLocal == ReaperNext => UNCHANGED <<name, pc, sweep, op>>
BY DEF ReaperNext, ReaperStep, ReapList, ReapRead, ReapSkip, ClaimRow, ClaimGuard,
       ClaimOutcome, ClaimDeclined, ReapStop, ReapTeardown, ReapRemove, ReapWipe, ReapCount,
       DrainList, DrainNext, DrainGuard, DrainRow, DrainSkip, DrainKill, DrainDone

\* The steps before an outcome is claimed and after the teardown: they touch no
\* branch, and kill sessions at most.
LEMMA ReaperIdles ==
  ASSUME IInv, CInv, ReaperNext, ~ClaimOutcome, ~ReapStop, ~ReapTeardown, ~ReapRemove
  PROVE  /\ UNCHANGED <<outcome, branch, worktree>>
         /\ reaper.pc \notin Reaping /\ reaper'.pc \notin Reaping
         /\ \A n \in Names : session'[n] \in {session[n], NoRun}
<1> USE DEF Reaping
<1>0. TypeOK /\ reaper \in Reapers
  BY DEF IInv, TypeOK
<1>1. CASE \/ ReapList \/ (\E r \in Runs : ReapRead(r) \/ ReapSkip(r)) \/ ClaimRow
           \/ ClaimGuard \/ ClaimDeclined \/ ReapWipe \/ ReapCount
  <2>1. UNCHANGED <<outcome, branch, worktree, session>>
    BY <1>1 DEF ReapList, ReapRead, ReapSkip, ClaimRow, ClaimGuard, ClaimDeclined, ReapWipe, ReapCount
  <2>2. reaper.pc \notin Reaping
    BY <1>1 DEF ReapList, idle, ReapRead, ReapSkip, ClaimRow, ClaimGuard, ClaimDeclined, ReapWipe, ReapCount
  <2>3. CASE ReapList \/ ClaimRow \/ ClaimGuard
    BY <1>0, <2>1, <2>2, <2>3 DEF ReapList, idleReaper, ClaimRow, ClaimGuard, Reapers
  <2>4. ASSUME NEW r \in Runs, ReapRead(r) \/ ReapSkip(r) PROVE reaper'.pc \notin Reaping
    <3>1. CASE ReapSkip(r)
      BY <1>0, <3>1 DEF ReapSkip, Reapers
    <3>2. CASE ReapRead(r)
      <4> DEFINE seen == Target(name[r]) \in pulls
      <4> HIDE DEF seen
      <4>1. reaper' = [reaper EXCEPT !.pc = "locked", !.todo = @ \ {r}, !.run = r, !.done = seen]
        BY <3>2 DEF ReapRead, seen
      <4> QED BY <1>0, <4>1 DEF Reapers
    <3> QED BY <2>4, <3>1, <3>2
  <2>5. CASE ClaimDeclined \/ ReapWipe \/ ReapCount
    BY <1>0, <2>1, <2>2, <2>5 DEF ClaimDeclined, ReapWipe, ReapCount, toNext, Reapers
  <2> QED BY <1>1, <2>1, <2>2, <2>3, <2>4, <2>5
<1>2. CASE \/ DrainList \/ DrainGuard \/ DrainRow \/ DrainSkip \/ DrainKill \/ DrainDone
           \/ \E n \in Names : DrainNext(n)
  <2>1. UNCHANGED <<outcome, branch, worktree>> /\ reaper.pc \notin Reaping
    BY <1>2 DEF DrainList, DrainGuard, DrainRow, DrainSkip, DrainKill, DrainDone, DrainNext
  <2>2. reaper'.pc \notin Reaping
    <3>1. CASE DrainList \/ DrainGuard \/ DrainRow
      BY <1>0, <3>1 DEF DrainList, DrainGuard, DrainRow, Reapers
    <3>2. CASE DrainSkip \/ DrainKill
      BY <1>0, <3>2 DEF DrainSkip, DrainKill, toDrain, Reapers
    <3>3. CASE DrainDone
      BY <3>3 DEF DrainDone, idleReaper
    <3>4. CASE \E n \in Names : DrainNext(n)
      BY <1>0, <3>4 DEF DrainNext, Reapers
    <3> QED BY <1>2, <3>1, <3>2, <3>3, <3>4
  <2>3. CASE DrainKill
    BY <1>0, <2>1, <2>2, <2>3, StopKills DEF DrainKill
  <2>4. CASE ~DrainKill
    BY <1>2, <2>1, <2>2, <2>4 DEF DrainList, DrainGuard, DrainRow, DrainSkip, DrainDone, DrainNext
  <2> QED BY <2>3, <2>4
<1> QED BY <1>1, <1>2 DEF ReaperNext, ReaperStep

\* Classifying, killing and tearing down, the reaper stays on the claim of the
\* run whose outcome it claimed.
LEMMA ReaperKeeps == ASSUME IInv, CInv, ReaperNext, ~KillFails PROVE CInv'
<1>0. TypeOK /\ reaper \in Reapers /\ UNCHANGED <<name, pc, sweep, op>>
  BY ReaperLocal DEF IInv, TypeOK
<1>1. Tame'
  BY <1>0 DEF CInv, Tame
<1>2. \A r \in Runs : AFK(r) => name[r] \in Names /\ Kind(name[r]) \in AFKKinds /\ Target(name[r]) \in Issues
  BY <1>0, AFKName
<1>3. \A r \in Runs : AFK(r)' <=> AFK(r)
  BY <1>0 DEF AFK
\* A step that keeps rows and branches, and at most kills sessions.
<1>4. ASSUME UNCHANGED <<outcome, branch, worktree>>,
             \A n \in Names : session'[n] \in {session[n], NoRun},
             reaper'.pc \in Reaping => reaper.pc \in Reaping /\ reaper'.run = reaper.run
      PROVE  Alone' /\ OnDisk' /\ Spawned' /\ Silenced'
  <2>1. \A r \in Runs : AFK(r) => (session'[name[r]] = r => session[name[r]] = r)
    BY <1>2, <1>4, NoRunIsNoRun
  <2>2. \A r \in Runs : OnClaim(r)' => OnClaim(r)
    BY <1>0, <1>3, <1>4, <2>1 DEF OnClaim
  <2>3. Alone' /\ OnDisk'
    BY <1>0, <1>4, <2>2, ClaimsStay DEF Present
  <2>4. Spawned'
    BY <1>0, <1>4 DEF CInv, Spawned
  <2>5. Silenced'
    BY <1>0, <1>3, <2>1 DEF CInv, Silenced
  <2> QED BY <2>3, <2>4, <2>5
<1>5. CASE ClaimOutcome
  <2> DEFINE r == reaper.run
             alive == session[name[r]] # NoRun
  <2>1. PICK late \in BOOLEAN :
               LET o == Classify(reaper.done, alive, late) IN
               /\ o # "running"
               /\ EndRun(r, o)
               /\ reaper' = [reaper EXCEPT !.pc = "stop", !.alive = alive, !.outcome = o]
    BY <1>5 DEF ClaimOutcome
  <2> DEFINE o == Classify(reaper.done, alive, late)
  <2>2. alive \in BOOLEAN /\ o \in Terminal
    BY <2>1 DEF Classify, Terminal
  <2>3. EndRun(r, o)
    BY <2>1
  <2>4. reaper' = [reaper EXCEPT !.pc = "stop", !.alive = alive, !.outcome = o]
    BY <2>1
  <2> HIDE DEF o
  <2>5. r \in Runs /\ AFK(r) /\ pc[r] = "done" /\ outcome[r] = "active"
    BY <1>5, NoRunIsNoRun DEF ClaimOutcome, IInv, ReaperKnows
  <2>6. outcome' = [outcome EXCEPT ![r] = o] /\ UNCHANGED <<session, branch, worktree>>
    BY <1>5, <2>3, <2>5 DEF EndRun, ClaimOutcome
  <2>7. \A s \in Runs : OnClaim(s)' => OnClaim(s)
    <3> SUFFICES ASSUME NEW s \in Runs, OnClaim(s)' PROVE OnClaim(s)
      OBVIOUS
    <3>1. CASE s = r
      BY <2>5, <3>1 DEF OnClaim
    <3>2. CASE s # r
      <4>1. reaper'.run = r
        BY <1>0, <2>4 DEF Reapers
      <4>2. outcome'[s] = outcome[s]
        BY <3>2, <2>6, <1>0 DEF TypeOK, StoreTypeOK
      <4> QED BY <1>0, <1>3, <2>6, <3>2, <4>1, <4>2 DEF OnClaim
    <3> QED BY <3>1, <3>2
  <2>8. Alone' /\ OnDisk'
    BY <1>0, <2>6, <2>7, ClaimsStay DEF Present
  <2>9. Spawned' /\ Silenced'
    BY <1>0, <1>3, <2>6 DEF CInv, Spawned, Silenced
  <2>10. Reaped'
    <3>1. reaper'.run = r /\ reaper'.alive = alive
      <4> HIDE DEF alive, r
      <4> QED BY <1>0, <2>2, <2>4 DEF Reapers, r
    <3>2. outcome'[r] \in Terminal
      BY <1>0, <2>2, <2>5, <2>6 DEF TypeOK, StoreTypeOK
    <3>3. ~alive => session'[name'[r]] # r
      BY <1>0, <2>5, <2>6, NoRunIsNoRun
    <3>4. reaper'.pc = "stop"
      <4> HIDE DEF alive, r
      <4> QED BY <1>0, <2>2, <2>4 DEF Reapers
    <3>5. r \in Runs /\ pc'[r] = "done"
      BY <1>0, <2>5
    <3> HIDE DEF alive, r
    <3> QED BY <3>1, <3>2, <3>3, <3>4, <3>5 DEF Reaped
  <2> QED BY <1>1, <2>8, <2>9, <2>10 DEF CInv
<1>6. CASE ReapStop
  <2>1. reaper.pc = "stop" /\ reaper'.pc = "teardown" /\ reaper'.run = reaper.run
    BY <1>0, <1>6 DEF ReapStop, Reapers
  <2>2. UNCHANGED <<outcome, branch, worktree>> /\ \A n \in Names : session'[n] \in {session[n], NoRun}
    BY <1>0, <1>6, StopKills DEF ReapStop
  <2>3. Alone' /\ OnDisk' /\ Spawned' /\ Silenced'
    BY <1>4, <2>1, <2>2 DEF Reaping
  <2>4. reaper.run \in Runs /\ AFK(reaper.run)
    BY <2>1, ReapedOnClaim DEF Reaping
  <2>5. session'[name[reaper.run]] # reaper.run
    <3>1. CASE reaper.alive
      BY <1>0, <1>2, <1>6, <2>4, <3>1, StopKills, NoRunIsNoRun DEF ReapStop, KillFails
    <3>2. CASE ~reaper.alive
      BY <1>6, <2>1, <3>2 DEF ReapStop, CInv, Reaped, Reaping
    <3> QED BY <3>1, <3>2
  <2> QED BY <1>0, <1>1, <2>1, <2>2, <2>3, <2>5 DEF CInv, Reaped, Reaping
<1>7. CASE ReapTeardown
  <2>1. reaper.pc = "teardown" /\ reaper'.pc = "remove" /\ reaper'.run = reaper.run /\ reaper'.alive = reaper.alive
    BY <1>0, <1>7 DEF ReapTeardown, Reapers
  <2>2. UNCHANGED <<outcome, branch, worktree, session>>
    BY <1>7 DEF ReapTeardown
  <2>3. Alone' /\ OnDisk' /\ Spawned' /\ Silenced'
    BY <1>4, <2>1, <2>2 DEF Reaping
  <2> QED BY <1>0, <1>1, <2>1, <2>2, <2>3 DEF CInv, Reaped, Reaping
<1>8. CASE ReapRemove
  <2> DEFINE t == Target(name[reaper.run])
  <2>1. reaper.pc = "remove" /\ reaper'.pc = "wipe" /\ TeardownApply(t, reaper.act)
        /\ UNCHANGED <<outcome, session>>
    BY <1>0, <1>8 DEF ReapRemove, Reapers
  <2>2. reaper.run \in Runs /\ OnClaim(reaper.run) /\ AFK(reaper.run)
    BY <2>1, ReapedOnClaim DEF Reaping
  <2>3. pc[reaper.run] = "done" /\ outcome[reaper.run] \in Terminal /\ session[name[reaper.run]] # reaper.run
    BY <2>1 DEF CInv, Reaped, Reaping
  <2>4. \A s \in Runs : s = reaper.run => ~OnClaim(s)'
    BY <1>0, <2>1, <2>3, ForkedPCs DEF OnClaim, Reaping, Terminal
  <2>5. \A s \in Runs : OnClaim(s)' => OnClaim(s)
    BY <1>0, <1>3, <2>1 DEF OnClaim, Reaping
  <2>6. \A s \in Runs : OnClaim(s)' => Target(name[s]) # t
    BY <2>2, <2>4, <2>5 DEF CInv, Alone
  <2>7. \A s \in Runs : OnClaim(s)' => (Present(Target(name[s])) => Present(Target(name[s]))')
    BY <1>0, <1>2, <2>1, <2>5, <2>6, TeardownLocal DEF OnClaim, Present, Targets
  <2>8. Alone' /\ OnDisk'
    BY <1>0, <2>5, <2>7, ClaimsStay
  <2>9. Spawned' /\ Silenced'
    BY <1>0, <1>3, <2>1 DEF CInv, Spawned, Silenced
  <2> QED BY <1>1, <2>1, <2>8, <2>9 DEF CInv, Reaped, Reaping
<1>9. CASE ~(ClaimOutcome \/ ReapStop \/ ReapTeardown \/ ReapRemove)
  BY <1>1, <1>4, <1>9, ReaperIdles DEF CInv, Reaped
<1> QED BY <1>5, <1>6, <1>7, <1>8, <1>9

(***************************************************************************)
(* The launches.                                                           *)
(***************************************************************************)
\* What a step of the launch of r may do when it comes to no new claim: write
\* r's own name, step and row, start r's own session, kill sessions, and take
\* from git what r has a claim on.
Local(r) ==
  /\ pc[r] # "done" /\ reaper' = reaper
  /\ \A s \in Runs \ {r} : name'[s] = name[s] /\ pc'[s] = pc[s] /\ outcome'[s] = outcome[s]
  /\ name'[r] = name[r] \/ name[r] = NoName
  /\ \A n \in Names : session'[n] \in {session[n], NoRun} \/ (session'[n] = r /\ n = name'[r])
  /\ OnClaim(r)' => OnClaim(r) /\ name'[r] = name[r]
  /\ AFK(r)' /\ pc'[r] \in Undone => session'[name'[r]] # r
  /\ OnClaim(r)' /\ pc'[r] \notin Undone => Present(Target(name[r]))'
  /\ \A t \in Issues : (Present(t) => Present(t)') \/ (OnClaim(r) /\ t = Target(name[r]))

\* Such a step keeps what the invariant says of runs, sessions and branches.
LEMMA LocalKeeps ==
  ASSUME IInv, CInv, NEW r \in Runs, Local(r)
  PROVE  Alone' /\ OnDisk' /\ Spawned' /\ Silenced' /\ Reaped'
<1>0. TypeOK
  BY DEF IInv
<1>1. \A s \in Runs : AFK(s) => name[s] \in Names /\ Kind(name[s]) \in AFKKinds /\ Target(name[s]) \in Issues
  BY <1>0, AFKName
<1>2. \A s \in Runs \ {r} : (AFK(s)' <=> AFK(s))
  BY DEF Local, AFK
<1>3. \A s \in Runs \ {r} : AFK(s) => (session'[name'[s]] = s => session[name[s]] = s)
  BY <1>1, NoRunIsNoRun DEF Local
<1>4. \A s \in Runs : OnClaim(s)' => OnClaim(s) /\ name'[s] = name[s]
  BY <1>2, <1>3 DEF Local, OnClaim
<1>5. Alone' /\ OnDisk'
  <2> SUFFICES ASSUME NEW s \in Runs, OnClaim(s)', pc'[s] \notin Undone, s # r
               PROVE  pc[s] \notin Undone /\ (Present(Target(name[s])) => Present(Target(name[s]))')
    <3>1. OnClaim(r)' /\ pc'[r] \notin Undone => Present(Target(name[r]))'
      BY DEF Local
    <3>2. Alone'
      BY <1>4 DEF CInv, Alone
    <3>3. \A s \in Runs \ {r} : OnClaim(s)' /\ pc'[s] \notin Undone => Present(Target(name[s]))'
      BY <1>4 DEF CInv, OnDisk
    <3>4. OnDisk'
      BY <1>4, <3>1, <3>3 DEF OnDisk
    <3> QED BY <3>2, <3>4
  <2>1. OnClaim(s) /\ AFK(s)
    BY <1>4 DEF OnClaim
  <2>2. ~(OnClaim(r) /\ Target(name[s]) = Target(name[r]))
    BY <2>1 DEF CInv, Alone
  <2> QED BY <1>1, <2>1, <2>2 DEF Local
<1>6. Spawned'
  <2> SUFFICES ASSUME NEW n \in Names, Kind(n) \in AFKKinds, session'[n] # NoRun
               PROVE  name'[session'[n]] = n
    BY DEF Spawned
  <2>1. CASE session'[n] = r /\ n = name'[r]
    BY <2>1
  <2>2. CASE session'[n] = session[n]
    <3>1. session[n] \in Runs /\ name[session[n]] = n
      BY <2>2, SpawnerOnClaim
    <3> QED BY <2>2, <3>1, NoNameIsNoName DEF Local
  <2> QED BY <2>1, <2>2 DEF Local
<1>7. Silenced'
  BY <1>2, <1>3 DEF CInv, Silenced, Local
<1>8. Reaped'
  <2> SUFFICES ASSUME reaper.pc \in Reaping
               PROVE  /\ reaper.run \in Runs
                      /\ pc'[reaper.run] = "done" /\ outcome'[reaper.run] \in Terminal
                      /\ reaper.pc # "stop" \/ ~reaper.alive => session'[name'[reaper.run]] # reaper.run
    BY DEF Reaped, Local
  <2>1. reaper.run \in Runs /\ AFK(reaper.run)
    BY ReapedOnClaim
  <2>2. reaper.run # r
    BY DEF CInv, Reaped, Local
  <2> QED BY <1>3, <2>1, <2>2 DEF CInv, Reaped, Local
<1> QED BY <1>5, <1>6, <1>7, <1>8

\* A run that has not spawned anything is the owner of no AFK session.
LEMMA NoSessionYet ==
  ASSUME IInv, CInv, NEW r \in Runs, pc[r] = "idle"
  PROVE  \A n \in Names : Kind(n) \in AFKKinds => session[n] # r
BY NoNameIsNoName, NoRunIsNoRun DEF IInv, Named, CInv, Spawned

\* Selecting a target claims nothing.
LEMMA SelectLocal ==
  ASSUME IInv, CInv, NEW r \in Runs, NEW n \in Names, AFKSelect(r, n) \/ ManualStart(r, n)
  PROVE  Local(r)
<1>1. /\ pc[r] = "idle" /\ pc' = [pc EXCEPT ![r] = "selected"]
      /\ name' = [name EXCEPT ![r] = n]
      /\ UNCHANGED <<outcome, session, branch, worktree, reaper>>
  BY DEF AFKSelect, ManualStart
<1>2. name[r] = NoName /\ outcome[r] = "none" /\ name'[r] = n /\ pc'[r] = "selected"
  BY <1>1 DEF IInv, Named, RowsLate, NoRow, TypeOK, StoreTypeOK, LaunchTypeOK
<1>3. AFK(r)' => session[n] # r
  BY <1>1, <1>2, NoSessionYet DEF AFK
<1>4. ~OnClaim(r)'
  BY <1>1, <1>2, <1>3, ForkedPCs DEF OnClaim, CInv, Reaped
<1> QED
  BY <1>1, <1>2, <1>4 DEF Local, Present, Undone, IInv, TypeOK, StoreTypeOK, LaunchTypeOK

\* The steps of a launch that leave sessions, branches and worktrees alone.
LEMMA PaperLocal ==
  ASSUME IInv, CInv, NEW r \in Runs,
         \/ Refuse(r) \/ Mark(r) \/ AddWorktreeFails(r) \/ CreateRun(r) \/ CreateRunToken(r)
         \/ StepFails(r) \/ Finish(r) \/ RollbackWipe(r)
  PROVE  Local(r)
<1> USE DEF IInv, TypeOK, StoreTypeOK, LaunchTypeOK
<1>1. UNCHANGED <<name, session, branch, worktree, reaper>> /\ pc[r] \in LaunchPCs \ {"idle", "done"}
  BY PCs DEF Refuse, Mark, AddWorktreeFails, CreateRun, CreateRunToken, StepFails, Finish,
     RollbackWipe, Return
<1>2. /\ \A s \in Runs \ {r} : pc'[s] = pc[s] /\ outcome'[s] = outcome[s]
      /\ pc'[r] \notin Undone
  BY DEF Refuse, Mark, AddWorktreeFails, CreateRun, CreateRunToken, StepFails, Finish,
     RollbackWipe, Return, Undone
<1>3. outcome'[r] = "active" \/ pc'[r] \in Forked => outcome[r] = "active" \/ pc[r] \in Forked
  BY ForkedPCs DEF Refuse, Mark, AddWorktreeFails, CreateRun, CreateRunToken, StepFails, Finish,
     RollbackWipe, Return
<1>4. OnClaim(r)' => OnClaim(r)
  BY <1>1, <1>3 DEF OnClaim, AFK
<1>5. OnClaim(r)' => Present(Target(name[r]))
  <2>1. CASE RollbackWipe(r)
    <3>1. outcome'[r] = "none" /\ pc'[r] = "done"
      BY <2>1 DEF RollbackWipe, Return, RowsLate
    <3>2. AFK(r) => session[name[r]] # r
      BY <2>1 DEF RollbackWipe, CInv, Silenced, Undone
    <3>3. ~(reaper.run = r /\ reaper.pc \in Reaping)
      BY <2>1 DEF RollbackWipe, CInv, Reaped
    <3> QED BY <1>1, <3>1, <3>2, <3>3, ForkedPCs DEF OnClaim, AFK
  <2>2. CASE ~RollbackWipe(r)
    <3>1. pc[r] \notin Undone
      BY <2>2 DEF Refuse, Mark, AddWorktreeFails, CreateRun, CreateRunToken, StepFails, Finish, Undone
    <3> QED BY <1>4, <3>1 DEF CInv, OnDisk
  <2> QED BY <2>1, <2>2
<1> QED BY <1>1, <1>2, <1>4, <1>5 DEF Local, Present

\* A manual launch is no one's business here: it touches a label.
LEMMA ManualTarget ==
  ASSUME TypeOK, NEW r \in Runs, name[r] # NoName, ~AFK(r)
  PROVE  Target(name[r]) \notin Issues
<1>1. name[r] \in Names /\ Kind(name[r]) \notin AFKKinds
  BY DEF TypeOK, StoreTypeOK, AFK
<1> QED BY <1>1, KindsOfNames, ManualName

\* The session a launch starts, or kills when it rolls back, is that of its own
\* claim.
LEMMA SessionLocal ==
  ASSUME IInv, CInv, NEW r \in Runs, ~KillFails,
         StartSession(r) \/ StartSessionFails(r) \/ RollbackStop(r)
  PROVE  Local(r)
<1> USE DEF IInv, TypeOK, StoreTypeOK, WorldTypeOK, LaunchTypeOK
<1>1. UNCHANGED <<name, outcome, branch, worktree, reaper>>
  BY DEF StartSession, StartSessionFails, RollbackStop
<1>2. /\ pc[r] \in Forked \ Undone
      /\ \A s \in Runs \ {r} : pc'[s] = pc[s]
      /\ pc'[r] \in Undone => RollbackStop(r)
  BY ForkedPCs DEF StartSession, StartSessionFails, RollbackStop, Undone
<1>3. name[r] \in Names
  BY <1>2, ForkedPCs DEF Named
<1>4. \A n \in Names : session'[n] \in {session[n], NoRun} \/ (session'[n] = r /\ n = name'[r])
  <2>1. CASE StartSession(r) \/ StartSessionFails(r)
    BY <1>1, <1>3, <2>1 DEF StartSession, StartSessionFails, Started
  <2>2. CASE RollbackStop(r)
    BY <2>2, StopKills DEF RollbackStop
  <2> QED BY <2>1, <2>2
<1>5. RollbackStop(r) => session'[name[r]] # r
  BY <1>3, StopKills, NoRunIsNoRun DEF RollbackStop, KillFails
<1>6. AFK(r) => OnClaim(r) /\ Present(Target(name[r]))
  BY <1>2 DEF OnClaim, CInv, OnDisk
<1>7. OnClaim(r)' => OnClaim(r) /\ Present(Target(name[r]))
  BY <1>1, <1>6 DEF OnClaim, AFK
<1> QED BY <1>1, <1>2, <1>4, <1>5, <1>7, ForkedPCs DEF Local, Present

\* A rollback takes the worktree, the branch and the row of its own claim.
LEMMA UndoLocal ==
  ASSUME IInv, CInv, NEW r \in Runs, RollbackWorktree(r) \/ RollbackBranch(r) \/ RollbackRow(r)
  PROVE  Local(r)
<1> USE DEF IInv, TypeOK, StoreTypeOK, WorldTypeOK, LaunchTypeOK
<1>1. /\ UNCHANGED <<name, session, reaper>>
      /\ pc[r] \in Undone /\ pc'[r] \in Undone
      /\ \A s \in Runs \ {r} : pc'[s] = pc[s] /\ outcome'[s] = outcome[s]
  BY DEF RollbackWorktree, RollbackBranch, RollbackRow, Undone
<1>2. \A t \in Targets \ {Target(name[r])} : branch'[t] = branch[t] /\ worktree'[t] = worktree[t]
  BY DEF RollbackWorktree, RollbackBranch, RollbackRow, RemoveWorktree, DeleteBranch
<1>3. AFK(r) => OnClaim(r)
  BY <1>1, ForkedPCs DEF OnClaim
<1>4. \A t \in Issues : (Present(t) => Present(t)') \/ (OnClaim(r) /\ t = Target(name[r]))
  <2>1. name[r] # NoName
    BY <1>1, ForkedPCs DEF Named
  <2> QED BY <1>2, <1>3, <2>1, ManualTarget DEF Present, Targets
<1>5. AFK(r)' => session'[name'[r]] # r
  BY <1>1 DEF CInv, Silenced, AFK
<1>6. OnClaim(r)' => OnClaim(r)
  BY <1>1, <1>3 DEF OnClaim, AFK
<1>7. pc[r] # "done"
  BY <1>1 DEF Undone
<1> QED BY <1>1, <1>4, <1>5, <1>6, <1>7 DEF Local

\* `git worktree add -b` succeeds where no branch is: nobody has anything to do
\* with the issue, a rollback in flight holding mu like the launch itself.
LEMMA AddWorktreeClaims ==
  ASSUME IInv, CInv, NEW r \in Runs, AddWorktree(r)
  PROVE  Alone' /\ OnDisk' /\ Spawned' /\ Silenced' /\ Reaped'
<1> USE DEF IInv, TypeOK, StoreTypeOK, WorldTypeOK, LaunchTypeOK
<1> DEFINE t == Target(name[r])
<1>1. /\ UNCHANGED <<name, outcome, session, reaper>>
      /\ pc[r] = "marked" /\ pc' = [pc EXCEPT ![r] = "claimed"]
      /\ branch[t] = "absent" /\ worktree[t] = "none"
      /\ branch' = [branch EXCEPT ![t] = "merged"] /\ worktree' = [worktree EXCEPT ![t] = "clean"]
  BY DEF AddWorktree
<1>2. name[r] \in Names /\ t \in Targets
  BY <1>1, KindsOfNames DEF Named
<1>3. Present(t)' /\ \A s \in Targets : Present(s) => Present(s)'
  BY <1>1, <1>2 DEF Present
<1>4. \A s \in Runs : OnClaim(s)' => s = r \/ OnClaim(s)
  BY <1>1 DEF OnClaim, AFK
<1>5. ASSUME AFK(r) PROVE \A s \in Runs \ {r} : OnClaim(s) => Target(name[s]) # t
  <2> SUFFICES ASSUME NEW s \in Runs \ {r}, OnClaim(s), Target(name[s]) = t PROVE FALSE
    OBVIOUS
  <2>1. pc[s] \in Undone
    BY <1>1 DEF CInv, OnDisk, Present
  <2>2. mu = s /\ mu = r
    BY <1>1, <1>5, <2>1, ForkedPCs, PCs DEF OnClaim, MuHeld, InFlight
  <2> QED BY <2>2
<1>6. Alone'
  <2>1. OnClaim(r)' => AFK(r)
    BY <1>1 DEF OnClaim, AFK
  <2> QED BY <1>1, <1>4, <1>5, <2>1 DEF CInv, Alone
<1>7. OnDisk'
  <2>1. \A s \in Runs : OnClaim(s) => Target(name[s]) \in Targets
    BY AFKName DEF OnClaim, Targets
  <2>2. \A s \in Runs \ {r} : pc'[s] = pc[s]
    BY <1>1
  <2> QED BY <1>1, <1>3, <1>4, <2>1, <2>2 DEF CInv, OnDisk
<1>8. Spawned' /\ Silenced'
  BY <1>1 DEF CInv, Spawned, Silenced, Undone, AFK
<1>9. Reaped'
  BY <1>1 DEF CInv, Reaped
<1> QED BY <1>6, <1>7, <1>8, <1>9

\* Every step of a launch keeps the invariant.
LEMMA LaunchKeeps == ASSUME IInv, CInv, LaunchNext, ~KillFails PROVE CInv'
<1> PICK r \in Runs : (\E n \in Names : AFKSelect(r, n) \/ ManualStart(r, n)) \/ LaunchStep(r)
  BY DEF LaunchNext
<1>1. Tame'
  BY LaunchShape DEF CInv, Tame
<1>2. Local(r) \/ AddWorktree(r)
  BY SelectLocal, PaperLocal, SessionLocal, UndoLocal DEF LaunchStep
<1> QED BY <1>1, <1>2, LocalKeeps, AddWorktreeClaims DEF CInv

(***************************************************************************)
(* The claims.                                                             *)
(***************************************************************************)
\* Nothing is claimed in a fresh lab.
LEMMA ClaimInit == Init => CInv
<1> SUFFICES ASSUME Init PROVE CInv
  OBVIOUS
<1>1. \A r \in Runs : ~AFK(r) /\ ~OnClaim(r)
  BY DEF Init, AFK, OnClaim
<1>2. reaper.pc = "idle" /\ op.pc = "idle"
  BY DEF Init, idleReaper, idleOp
<1> QED
  BY <1>1, <1>2 DEF Init, CInv, Alone, OnDisk, Spawned, Silenced, Reaped, Tame, Reaping, ManualPCs

\* A run that has to do with an issue after a restart has its session: Pass A
\* and Pass B left its worktree and its branch.
LEMMA RestartClaims == ASSUME IInv, CInv, Restart PROVE CInv'
<1>0. TypeOK /\ TypeOK' /\ IInv'
  BY RestartKeeps DEF IInv
<1>1. name' = name /\ reaper'.pc = "idle" /\ op'.pc = "idle"
  BY DEF Restart, idleReaper, idleOp
<1>2. \A r \in Runs : pc'[r] \in {"idle", "done"}
  BY DEF Restart
<1>3. session' = session \/ \A n \in Names : session'[n] = NoRun
  BY DEF Restart
<1>4. ASSUME NEW r \in Runs, OnClaim(r)'
      PROVE  /\ OnClaim(r) /\ pc[r] \notin Undone
             /\ Present(Target(name[r])) => Present(Target(name[r]))'
  <2>1. AFK(r) /\ name[r] \in Names /\ Kind(name[r]) \in AFKKinds /\ Target(name[r]) \in Targets
    BY <1>0, <1>1, <1>4, AFKName DEF OnClaim, AFK, Targets
  <2>2. session'[name[r]] = r \/ outcome'[r] = "active"
    BY <1>1, <1>2, <1>4, ForkedPCs DEF OnClaim, Reaping
  <2>3. session'[name[r]] # NoRun
    BY <2>1, <2>2, NoRunIsNoRun DEF Restart
  <2>4. session' = session
    BY <1>3, <2>1, <2>3
  <2>5. OnClaim(r)
    BY <2>1, <2>2, <2>4 DEF OnClaim, Restart
  <2>6. session[name[r]] = r
    BY <2>1, <2>3, <2>4, <2>5, SpawnerOnClaim DEF CInv, Alone
  <2>7. Target(name[r]) \in ownedBranches({n \in Names : session'[n] # NoRun})
    BY <2>1, <2>3 DEF ownedBranches
  <2>8. /\ branch'[Target(name[r])] = branch[Target(name[r])]
        /\ worktree'[Target(name[r])] = worktree[Target(name[r])]
    BY <2>1, <2>7 DEF Restart
  <2> QED BY <1>1, <2>1, <2>5, <2>6, <2>8 DEF CInv, Silenced, Present
<1>5. Alone' /\ OnDisk'
  BY <1>1, <1>4, ClaimsStay
<1>6. Spawned'
  BY <1>1, <1>3 DEF CInv, Spawned
<1>7. Silenced'
  BY <1>2 DEF Silenced, Undone
<1>8. Reaped' /\ Tame'
  BY <1>1 DEF Reaped, Tame, Reaping, ManualPCs
<1> QED BY <1>5, <1>6, <1>7, <1>8 DEF CInv

\* Every step that is no breach, or a stutter, keeps the invariant.
LEMMA ClaimNext == ASSUME IInv, CInv, [Next]_vars, [~Breach]_vars PROVE CInv'
<1>1. CASE UNCHANGED vars
  BY <1>1 DEF vars, CInv, Alone, OnDisk, Spawned, Silenced, Reaped, Tame, OnClaim, AFK, Present
<1>2. CASE Next /\ ~KillFails /\ ~ClaimTaken
  <2>1. CASE LaunchNext
    BY <1>2, <2>1, LaunchKeeps
  <2>2. CASE ReaperNext
    BY <1>2, <2>2, ReaperKeeps
  <2>3. CASE DeadNext \/ AgentNext \/ SweepNext
    BY <1>2, <2>3, DeadCalm, AgentCalm, SweepCalm, CalmKeeps DEF CInv, Tame, Calm
  <2>4. CASE OperatorNext
    BY <1>2, <2>4, OperatorCalm, CalmKeeps DEF CInv
  <2>5. CASE Restart
    BY <2>5, RestartClaims
  <2> QED BY <1>2, <2>1, <2>2, <2>3, <2>4, <2>5 DEF Next
<1> QED BY <1>1, <1>2 DEF Breach

\* The invariant the theorems below rest on.
LEMMA ClaimInvariant == Spec /\ [][~Breach]_vars => []CInv
<1>1. IInv /\ CInv /\ [Next]_vars /\ [~Breach]_vars => CInv'
  BY ClaimNext
<1> QED BY <1>1, ClaimInit, LabInvariant, PTL DEF Spec

\* No two AFK runs hold the same issue (git worktree add -b is the claim), for
\* any number of runs, through rollbacks, reaps, Stops, Discards, sweeps and
\* restarts, as long as no kill fails on the way to a teardown and neither a sweep
\* nor a Discard takes the claim of a run.
THEOREM ClaimExclusiveCorrect == Spec /\ [][~Breach]_vars => []ClaimExclusive
<1>1. CInv => ClaimExclusive
  BY ForkedPCs DEF CInv, Alone, OnClaim, ClaimExclusive, HoldsClaim, Forked
<1> QED BY <1>1, ClaimInvariant, PTL

\* An active AFK run that is not rolling back has its branch and its worktree: of
\* the teardowns, only a sweep or a Discard can take them, or a reap or a rollback
\* whose kill failed and whose issue was launched again.
THEOREM ClaimHeldCorrect == Spec /\ [][~Breach]_vars => []ClaimHeld
<1>1. CInv => ClaimHeld
  BY DEF CInv, OnDisk, OnClaim, ClaimHeld, Present, Undone, RollingBack
<1> QED BY <1>1, ClaimInvariant, PTL

\* A launched, active AFK run whose name is live spawned that session: no
\* session of an earlier run of the issue is adopted by the idempotent start,
\* also where a Stop, a Discard or the drain fails to kill it.
THEOREM SessionOwnerCorrect == Spec /\ [][~Breach]_vars => []SessionOwner
<1>1. IInv /\ CInv => SessionOwner
  <2> SUFFICES ASSUME IInv, CInv, NEW r \in Runs, AFK(r), outcome[r] = "active",
                      session[name[r]] # NoRun
               PROVE  session[name[r]] = r
    BY DEF SessionOwner
  <2>1. name[r] \in Names /\ Kind(name[r]) \in AFKKinds /\ OnClaim(r)
    BY AFKName DEF IInv, OnClaim
  <2> QED BY <2>1, SpawnerOnClaim DEF CInv, Alone
<1> QED BY <1>1, ClaimInvariant, LabInvariant, PTL

(***************************************************************************)
(* The work.                                                               *)
(***************************************************************************)
\* Only the agents make work.
NoNewWork ==
  \A t \in Targets : /\ worktree'[t] = "dirty" => worktree[t] = "dirty"
                     /\ branch'[t] = "ahead" => branch[t] = "ahead"

\* A guarded teardown decides to remove neither a dirty worktree nor a branch
\* that is ahead, and does what was decided at most.
LEMMA DecisionGuards ==
  \A t : /\ TeardownDecision(t).worktree => worktree[t] # "dirty"
         /\ TeardownDecision(t).branch => branch[t] # "ahead"
BY DEF TeardownDecision, KeepBoth, decideTeardown, BranchMerged

LEMMA TeardownTakes ==
  ASSUME TypeOK, NEW t, NEW act, TeardownApply(t, act)
  PROVE  /\ NoNewWork
         /\ \A s \in Targets :
              /\ worktree'[s] # worktree[s] => s = t /\ act.worktree
              /\ branch'[s] # branch[s] => s = t /\ act.branch
BY DEF TypeOK, WorldTypeOK, TeardownApply, NoNewWork

\* No step but one of the agents makes a worktree dirty or a branch ahead.
LEMMA WorkIsAgents == ASSUME IInv, Next, ~AgentWorks PROVE NoNewWork
<1>0. TypeOK
  BY DEF IInv
<1> USE DEF TypeOK, WorldTypeOK
<1>1. UNCHANGED <<branch, worktree>> => NoNewWork
  BY DEF NoNewWork
<1>2. CASE LaunchNext
  <2> PICK r \in Runs : (\E n \in Names : AFKSelect(r, n) \/ ManualStart(r, n)) \/ LaunchStep(r)
    BY <1>2 DEF LaunchNext
  <2>1. CASE AddWorktree(r) \/ RollbackWorktree(r) \/ RollbackBranch(r)
    BY <1>0, <2>1 DEF AddWorktree, RollbackWorktree, RollbackBranch, RemoveWorktree, DeleteBranch, NoNewWork
  <2>2. CASE ~(AddWorktree(r) \/ RollbackWorktree(r) \/ RollbackBranch(r))
    BY <1>1, <2>2 DEF LaunchStep, AFKSelect, ManualStart, Refuse, Mark, AddWorktreeFails, CreateRun,
       CreateRunToken, StartSession, StartSessionFails, StepFails, Finish, RollbackStop, RollbackRow,
       RollbackWipe, Return
  <2> QED BY <2>1, <2>2
<1>3. CASE ReaperNext
  <2>1. CASE ReapRemove
    BY <1>0, <2>1, TeardownTakes DEF ReapRemove
  <2>2. CASE ~ReapRemove
    BY <1>1, <1>3, <2>2 DEF ReaperNext, ReaperStep, ReapList, ReapRead, ReapSkip, ClaimRow, ClaimGuard,
       ClaimOutcome, ClaimDeclined, ReapStop, ReapTeardown, ReapWipe, ReapCount,
       DrainList, DrainNext, DrainGuard, DrainRow, DrainSkip, DrainKill, DrainDone
  <2> QED BY <2>1, <2>2
<1>4. CASE SweepNext
  <2>1. CASE SweepRemove
    BY <1>0, <2>1, TeardownTakes DEF SweepRemove
  <2>2. ASSUME NEW t \in Targets, SweepBranch(t) PROVE NoNewWork
    BY <1>0, <2>2 DEF SweepBranch, DeleteBranch, NoNewWork
  <2>3. CASE SweepBranches \/ SweepWorktrees \/ SweepSnapshot \/ SweepList \/ SweepHomes
    BY <1>1, <2>3 DEF SweepBranches, SweepWorktrees, SweepSnapshot, SweepList, SweepHomes
  <2> QED BY <1>4, <2>1, <2>2, <2>3 DEF SweepNext, SweepStep
<1>5. CASE DeadNext
  BY <1>1, <1>5 DEF DeadNext, DeadStep, DeadRows, DeadSnapshot, DeadList, DeadEnd, DeadDone
<1>6. CASE OperatorNext
  <2>1. CASE StopManualRemove
    BY <1>0, <2>1, TeardownTakes DEF StopManualRemove
  <2>2. CASE DiscardWorktree \/ DiscardBranch
    BY <1>0, <2>2 DEF DiscardWorktree, DiscardBranch, RemoveWorktree, DeleteBranch, NoNewWork
  <2>3. CASE ~(StopManualRemove \/ DiscardWorktree \/ DiscardBranch)
    BY <1>1, <1>6, <2>3 DEF OperatorNext, OperatorRequest, OperatorStep, StopAFK, StopManual, Discard,
       StopAFKTokens, StopAFKSession, StopAFKWipe, StopManualSession, StopManualTeardown,
       StopManualEnd, StopManualWipe, DiscardKill, DiscardRow,
         DiscardEnd, DiscardTokens, DiscardWipe
  <2> QED BY <2>1, <2>2, <2>3
<1>7. CASE AgentNext /\ ~AgentWorks
  BY <1>0, <1>1, <1>7 DEF AgentNext, OpenPull, MergePull, SessionExits, NoNewWork
<1>8. CASE Restart
  BY <1>0, <1>8 DEF Restart, NoNewWork
<1> QED BY <1>2, <1>3, <1>4, <1>5, <1>6, <1>7, <1>8 DEF Next

\* Nobody works in a worktree the reaper is about to remove: its run's session
\* is dead, and no other run has anything to do with the issue.
LEMMA NobodyWorks ==
  ASSUME IInv, CInv, reaper.pc = "remove", NEW n \in Names, n \in Live
  PROVE  Target(n) # Target(name[reaper.run])
<1> SUFFICES ASSUME Target(n) = Target(name[reaper.run]) PROVE FALSE
  OBVIOUS
<1>1. reaper.run \in Runs /\ OnClaim(reaper.run) /\ AFK(reaper.run)
  BY ReapedOnClaim DEF Reaping
<1>2. Target(n) \in Issues
  BY <1>1, AFKName DEF IInv
<1>3. Kind(n) \in AFKKinds
  BY <1>2, KindsOfNames, ManualName
<1>4. session[n] \in Runs /\ OnClaim(session[n]) /\ name[session[n]] = n
  BY <1>3, SpawnerOnClaim DEF Live
<1>5. session[n] = reaper.run
  BY <1>1, <1>4 DEF CInv, Alone
<1> QED BY <1>4, <1>5 DEF CInv, Reaped, Reaping

\* The reaper remembers what it decided until it applies it, and the work in
\* the worktree cannot have changed meanwhile.
LEMMA DecidedKeeps == ASSUME IInv, CInv, Decided, [Next]_vars PROVE Decided'
<1>0. TypeOK /\ reaper \in Reapers
  BY DEF IInv, TypeOK
<1>1. CASE UNCHANGED vars
  BY <1>1 DEF vars, Decided
<1>2. CASE ReapTeardown
  <2> DEFINE act == TeardownDecision(Target(name[reaper.run]))
  <2>1. /\ act.worktree => worktree[Target(name[reaper.run])] # "dirty"
        /\ act.branch => branch[Target(name[reaper.run])] # "ahead"
    BY DecisionGuards
  <2> HIDE DEF act
  <2>2. reaper'.run = reaper.run /\ reaper'.act = act /\ UNCHANGED <<name, branch, worktree>>
    BY <1>0, <1>2 DEF ReapTeardown, Reapers, act
  <2> QED BY <2>1, <2>2 DEF Decided
<1>3. CASE ReaperNext /\ ~ReapTeardown
  <2> SUFFICES ASSUME reaper'.pc = "remove" PROVE FALSE
    BY DEF Decided
  <2>1. CASE ReapRemove \/ ReapStop
    BY <1>0, <2>1 DEF ReapRemove, ReapStop, Reapers
  <2>2. CASE ClaimOutcome
    <3> DEFINE alive == session[name[reaper.run]] # NoRun
    <3>1. PICK late \in BOOLEAN : reaper' = [reaper EXCEPT !.pc = "stop", !.alive = alive,
                                    !.outcome = Classify(reaper.done, alive, late)]
      BY <2>2 DEF ClaimOutcome
    <3> DEFINE o == Classify(reaper.done, alive, late)
    <3>2. reaper' = [reaper EXCEPT !.pc = "stop", !.alive = alive, !.outcome = o]
      BY <3>1
    <3> HIDE DEF alive, o
    <3> QED BY <1>0, <3>2 DEF Reapers
  <2>3. CASE ReapList \/ ClaimRow \/ ClaimGuard \/ ClaimDeclined \/ ReapWipe \/ ReapCount
    BY <1>0, <2>3 DEF ReapList, idleReaper, ClaimRow, ClaimGuard, ClaimDeclined, ReapWipe, ReapCount,
       toNext, Reapers
  <2>4. ASSUME NEW r \in Runs, ReapRead(r) \/ ReapSkip(r) PROVE FALSE
    <3>1. CASE ReapSkip(r)
      BY <1>0, <3>1 DEF ReapSkip, Reapers
    <3>2. CASE ReapRead(r)
      <4> DEFINE seen == Target(name[r]) \in pulls
      <4> HIDE DEF seen
      <4>1. reaper' = [reaper EXCEPT !.pc = "locked", !.todo = @ \ {r}, !.run = r, !.done = seen]
        BY <3>2 DEF ReapRead, seen
      <4> QED BY <1>0, <4>1 DEF Reapers
    <3> QED BY <2>4, <3>1, <3>2
  <2>5. CASE DrainList \/ DrainGuard \/ DrainRow \/ \E n \in Names : DrainNext(n)
    BY <1>0, <2>5 DEF DrainList, DrainGuard, DrainRow, DrainNext, Reapers
  <2>6. CASE DrainSkip \/ DrainKill
    BY <1>0, <2>6 DEF DrainSkip, DrainKill, toDrain, Reapers
  <2>7. CASE DrainDone
    BY <2>7 DEF DrainDone, idleReaper
  <2> QED BY <1>3, <2>1, <2>2, <2>3, <2>4, <2>5, <2>6, <2>7 DEF ReaperNext, ReaperStep
<1>4. CASE Next /\ ~ReaperNext
  <2> SUFFICES ASSUME reaper'.pc = "remove" PROVE Decided'
    BY DEF Decided
  <2>1. ~Restart
    BY DEF Restart, idleReaper
  <2>2. reaper' = reaper
    BY <1>4, <2>1, LaunchShape, ReaperOwn DEF Next
  <2>3. reaper.run \in Runs /\ AFK(reaper.run) /\ pc[reaper.run] = "done"
    BY <2>2, ReapedOnClaim DEF Reaping, CInv, Reaped
  <2>4. name'[reaper.run] = name[reaper.run]
    <3>1. CASE LaunchNext
      <4> PICK r \in Runs : \/ \E n \in Names : Admits(r, n)
                            \/ \E q \in MidStart : Advances(r, q)
                            \/ Returns(r)
        BY <3>1, LaunchShape
      <4> QED BY <1>0, <2>3 DEF Admits, Advances, Returns, TypeOK, StoreTypeOK
    <3>2. CASE QuietNext
      BY <3>2, Quiet DEF QuietStep
    <3> QED BY <1>4, <2>1, <3>1, <3>2 DEF Next, QuietNext
  <2> DEFINE t == Target(name[reaper.run])
  <2>5. t \in Targets
    BY <1>0, <2>3, AFKName DEF Targets
  <2>6. /\ worktree'[t] = "dirty" => worktree[t] = "dirty"
        /\ branch'[t] = "ahead" => branch[t] = "ahead"
    <3>1. CASE AgentWorks
      <4>1. PICK n \in Names : AgentEdits(n) \/ AgentCommits(n)
        BY <3>1 DEF AgentWorks
      <4>2. Target(n) # t
        BY <2>2, <4>1, NobodyWorks DEF AgentEdits, AgentCommits
      <4> QED BY <1>0, <2>5, <4>1, <4>2 DEF AgentEdits, AgentCommits, TypeOK, WorldTypeOK
    <3>2. CASE ~AgentWorks
      BY <1>4, <2>5, <3>2, WorkIsAgents DEF NoNewWork
    <3> QED BY <3>1, <3>2
  <2> QED BY <2>2, <2>4, <2>6 DEF Decided
<1> QED BY <1>1, <1>2, <1>3, <1>4 DEF ReaperNext, ReaperStep

\* Removals that are decided on an older reading, or without any.
Removal == SweepRemove \/ StopManualRemove \/ DiscardWorktree \/ DiscardBranch

\* A step that takes uncommitted or unmerged work is one of those, or a launch
\* rolling back.
LEMMA WorkStep ==
  ASSUME IInv, Decided, Next, ~Removal, NEW t \in Targets
  PROVE  /\ worktree[t] = "dirty" /\ worktree'[t] = "none" => RollsBack(t)
         /\ branch[t] = "ahead" /\ branch'[t] = "absent" => RollsBack(t)
<1>0. TypeOK
  BY DEF IInv
<1> USE DEF TypeOK, WorldTypeOK
<1>1. CASE LaunchNext
  <2> PICK r \in Runs : (\E n \in Names : AFKSelect(r, n) \/ ManualStart(r, n)) \/ LaunchStep(r)
    BY <1>1 DEF LaunchNext
  <2>1. CASE RollbackWorktree(r) \/ RollbackBranch(r)
    BY <1>0, <2>1 DEF RollbackWorktree, RollbackBranch, RemoveWorktree, DeleteBranch, RollsBack, RollingBack
  <2>2. CASE AddWorktree(r)
    BY <1>0, <2>2 DEF AddWorktree
  <2>3. CASE ~(AddWorktree(r) \/ RollbackWorktree(r) \/ RollbackBranch(r))
    BY <2>3 DEF LaunchStep, AFKSelect, ManualStart, Refuse, Mark, AddWorktreeFails, CreateRun,
       CreateRunToken, StartSession, StartSessionFails, StepFails, Finish, RollbackStop, RollbackRow,
       RollbackWipe, Return
  <2> QED BY <2>1, <2>2, <2>3
<1>2. CASE ReaperNext
  <2>1. CASE ReapRemove
    BY <1>0, <2>1, TeardownTakes DEF ReapRemove, Decided
  <2>2. CASE ~ReapRemove
    BY <1>2, <2>2 DEF ReaperNext, ReaperStep, ReapList, ReapRead, ReapSkip, ClaimRow, ClaimGuard,
       ClaimOutcome, ClaimDeclined, ReapStop, ReapTeardown, ReapWipe, ReapCount,
       DrainList, DrainNext, DrainGuard, DrainRow, DrainSkip, DrainKill, DrainDone
  <2> QED BY <2>1, <2>2
<1>3. CASE SweepNext /\ ~SweepRemove
  <2>1. ASSUME NEW s \in Targets, SweepBranch(s)
        PROVE  worktree' = worktree /\ (branch[t] = "ahead" => branch'[t] = "ahead")
    <3>1. worktree' = worktree /\ (branch' = branch \/ (BranchMerged(s) /\ DeleteBranch(s)))
      BY <2>1 DEF SweepBranch
    <3> QED BY <1>0, <3>1 DEF DeleteBranch, BranchMerged
  <2>2. CASE SweepBranches \/ SweepWorktrees \/ SweepSnapshot \/ SweepList \/ SweepHomes
    BY <2>2 DEF SweepBranches, SweepWorktrees, SweepSnapshot, SweepList, SweepHomes
  <2> QED BY <1>3, <2>1, <2>2 DEF SweepNext, SweepStep
<1>4. CASE DeadNext
  BY <1>4 DEF DeadNext, DeadStep, DeadRows, DeadSnapshot, DeadList, DeadEnd, DeadDone
<1>5. CASE OperatorNext /\ ~Removal
  BY <1>5 DEF Removal, OperatorNext, OperatorRequest, OperatorStep, StopAFK, StopManual, Discard,
     StopAFKTokens, StopAFKSession, StopAFKWipe, StopManualSession, StopManualTeardown,
     StopManualEnd, StopManualWipe, DiscardKill, DiscardRow,
         DiscardEnd, DiscardTokens, DiscardWipe
<1>6. CASE AgentNext
  <2>1. CASE AgentWorks
    BY <1>0, <2>1 DEF AgentWorks, AgentEdits, AgentCommits
  <2>2. CASE ~AgentWorks
    BY <1>0, <1>6, <2>2 DEF AgentNext, OpenPull, MergePull, SessionExits
  <2> QED BY <2>1, <2>2
<1>7. CASE Restart
  BY <1>0, <1>7, DecisionGuards DEF Restart, BranchMerged
<1> QED BY <1>1, <1>2, <1>3, <1>4, <1>5, <1>6, <1>7 DEF Next, Removal

\* No reap and no restart loses work, nor does any thread but a launch that rolls
\* back and the removals above: the status the reaper reads before it removes the
\* worktree by force is still true when it does.
ReapKeepsWork ==
  [][\A t \in Targets :
       /\ worktree[t] = "dirty" /\ worktree'[t] = "none" => RollsBack(t) \/ Removal
       /\ branch[t] = "ahead" /\ branch'[t] = "absent" => RollsBack(t) \/ Removal]_vars

\* Nothing that is done between the reaper's reading and its forced removal makes
\* work in the worktree it removes (gitx/teardown.go), as long as no kill fails and
\* no claim is taken.  What the sweep, a manual Stop and Discard remove is not
\* covered: those do lose work.
THEOREM ReapKeepsWorkCorrect == Spec /\ [][~Breach]_vars => ReapKeepsWork
<1>1. Init => Decided
  BY DEF Init, Decided, idleReaper
<1>2. IInv /\ CInv /\ Decided /\ [Next]_vars => Decided'
  BY DecidedKeeps
<1>3. IInv /\ Decided /\ [Next]_vars =>
        [\A t \in Targets :
           /\ worktree[t] = "dirty" /\ worktree'[t] = "none" => RollsBack(t) \/ Removal
           /\ branch[t] = "ahead" /\ branch'[t] = "absent" => RollsBack(t) \/ Removal]_vars
  BY WorkStep
<1> QED BY <1>1, <1>2, <1>3, ClaimInvariant, LabInvariant, PTL DEF Spec, ReapKeepsWork

(***************************************************************************)
(* The sweeps and the launches in flight.                                  *)
(*                                                                         *)
(* Where no label is started twice at once, the startguard covers every    *)
(* launch, manual ones included, and the order of the sweeps' reads does   *)
(* the rest.                                                               *)
(***************************************************************************)
\* No name is started a second time while its first launch is in flight.  AFK
\* launches are one at a time; nothing in the code serialises manual Starts.
OneStart ==
  \A r1, r2 \in Runs : InFlight(r1) /\ InFlight(r2) /\ name[r1] = name[r2] => r1 = r2

\* No two runs share an issue or a label.
Distinct ==
  \A r1, r2 \in Runs :
    name[r1] # NoName /\ name[r2] # NoName /\ Target(name[r1]) = Target(name[r2]) => r1 = r2

GuardAll == \A r \in Runs : pc[r] \in MidStart => name[r] \in starting

\* A branch or a worktree that is on disk, or that the sweep has listed, was
\* made by a launch.
Makes(r, t) == name[r] # NoName /\ Target(name[r]) = t /\ pc[r] \notin {"idle", "selected", "marked"}
Listed(t) == t \in sweep.branches \/ (sweep.pc = "remove" /\ t = sweep.target)
OnGit(t) == branch[t] # "absent" \/ worktree[t] # "none"
Made == \A t \in Targets : OnGit(t) \/ Listed(t) => \E r \in Runs : Makes(r, t)

\* The sweep counts the launches in flight that it may meet as owners.
Counted(r) ==
  LET t == Target(name[r]) IN
  /\ sweep.pc = "list" /\ t \in sweep.branches => name[r] \in sweep.starting
  /\ sweep.pc \in {"next", "remove"} /\ t \in sweep.branches => t \in sweep.owned
  /\ sweep.pc = "remove" => t # sweep.target
SweepCounts == \A r \in Runs : pc[r] \in Building \ {"marked"} => Counted(r)

\* So does the dead-session sweep, whose list ends with launched runs only.
DeadCounts ==
  /\ dead.pc = "list" => \A r \in dead.runs : pc[r] = "done" \/ name[r] \in dead.owned
  /\ dead.pc = "end" => \A r \in dead.runs : pc[r] = "done"

ReapsDone == reaper.pc \in Reaping => reaper.run \in Runs /\ pc[reaper.run] = "done"

NoDiscard ==
  /\ op.pc \notin DiscardPCs
  /\ op.pc \in ManualPCs => op.name \in Names /\ Kind(op.name) = "manual"

\* What no launch can be reaped for, and what its worktree rests on.
SInv == GuardAll /\ DeadCounts
DInv == SInv /\ Made /\ SweepCounts /\ ReapsDone /\ NoDiscard

\* A run keeps its name once it has one, and its launch never goes back.
LEMMA RunsGoOn ==
  ASSUME IInv, Next
  PROVE  \A r \in Runs :
           /\ pc[r] # "idle" => name'[r] = name[r]
           /\ pc[r] = "done" => pc'[r] = "done"
           /\ pc[r] \notin {"idle", "selected", "marked"} => pc'[r] \notin {"idle", "selected", "marked"}
<1> USE DEF IInv, TypeOK, StoreTypeOK, LaunchTypeOK
<1>1. CASE LaunchNext
  <2> PICK r \in Runs : (\E n \in Names : AFKSelect(r, n) \/ ManualStart(r, n)) \/ LaunchStep(r)
    BY <1>1 DEF LaunchNext
  <2> QED
    BY DEF LaunchStep, AFKSelect, ManualStart, Refuse, Mark, AddWorktree, AddWorktreeFails,
       CreateRun, CreateRunToken, StartSession, StartSessionFails, StepFails, Finish,
       RollbackStop, RollbackWorktree, RollbackBranch, RollbackRow, RollbackWipe,
       Return
<1>2. CASE QuietNext
  BY <1>2, Quiet DEF QuietStep
<1>3. CASE Restart
  BY <1>3 DEF Restart
<1> QED BY <1>1, <1>2, <1>3 DEF Next, QuietNext

\* A deferred Clear drops no mark another launch relies on, its name being its own.
LEMMA GuardKeeps == ASSUME IInv, OneStart, GuardAll, Next PROVE GuardAll'
<1> USE DEF IInv, TypeOK, StoreTypeOK, LaunchTypeOK
<1>1. CASE LaunchNext
  <2> PICK r \in Runs : \/ \E n \in Names : Admits(r, n)
                        \/ \E q \in MidStart : Advances(r, q)
                        \/ Returns(r)
    BY <1>1, LaunchShape
  <2>1. ASSUME NEW n \in Names, Admits(r, n) PROVE GuardAll'
    BY <2>1, PCs DEF Admits, GuardAll
  <2>2. ASSUME NEW q \in MidStart, Advances(r, q) PROVE GuardAll'
    BY <2>2 DEF Advances, GuardAll, InFlight
  <2>3. CASE Returns(r)
    <3> SUFFICES ASSUME NEW s \in Runs, pc'[s] \in MidStart PROVE name'[s] \in starting'
      BY DEF GuardAll
    <3>1. s # r /\ pc[s] \in MidStart /\ name[s] \in starting
      BY <2>3, PCs DEF Returns, GuardAll
    <3>2. InFlight(s) /\ InFlight(r)
      BY <2>3, <3>1, PCs DEF Returns, InFlight
    <3>3. name[s] # name[r]
      BY <3>1, <3>2 DEF OneStart
    <3> QED BY <2>3, <3>1, <3>3 DEF Returns
  <2> QED BY <2>1, <2>2, <2>3
<1>2. CASE QuietNext
  BY <1>2, Quiet DEF QuietStep, GuardAll
<1>3. CASE Restart
  BY <1>3, PCs DEF Restart, GuardAll
<1> QED BY <1>1, <1>2, <1>3 DEF Next, QuietNext

\* Only `git worktree add -b` makes a branch or a worktree.
LEMMA BranchesMade ==
  ASSUME IInv, Next, NEW t \in Targets, OnGit(t)'
  PROVE  OnGit(t) \/ \E r \in Runs : pc[r] = "marked" /\ AddWorktree(r) /\ Target(name[r]) = t
<1>0. TypeOK
  BY DEF IInv
<1> USE DEF TypeOK, WorldTypeOK, OnGit
<1>1. CASE LaunchNext
  <2> PICK r \in Runs : (\E n \in Names : AFKSelect(r, n) \/ ManualStart(r, n)) \/ LaunchStep(r)
    BY <1>1 DEF LaunchNext
  <2>1. CASE AddWorktree(r)
    BY <1>0, <2>1 DEF AddWorktree
  <2>2. CASE RollbackBranch(r) \/ RollbackWorktree(r)
    BY <1>0, <2>2 DEF RollbackBranch, DeleteBranch, RollbackWorktree, RemoveWorktree
  <2>3. CASE ~(AddWorktree(r) \/ RollbackBranch(r) \/ RollbackWorktree(r))
    BY <2>3 DEF LaunchStep, AFKSelect, ManualStart, Refuse, Mark, AddWorktreeFails, CreateRun,
       CreateRunToken, StartSession, StartSessionFails, StepFails, Finish, RollbackStop,
       RollbackRow, RollbackWipe, Return
  <2> QED BY <2>1, <2>2, <2>3
<1>2. CASE ReaperNext
  <2>1. CASE ReapRemove
    BY <1>0, <2>1 DEF ReapRemove, TeardownApply
  <2>2. CASE ~ReapRemove
    BY <1>2, <2>2 DEF ReaperNext, ReaperStep, ReapList, ReapRead, ReapSkip, ClaimRow, ClaimGuard,
       ClaimOutcome, ClaimDeclined, ReapStop, ReapTeardown, ReapWipe, ReapCount,
       DrainList, DrainNext, DrainGuard, DrainRow, DrainSkip, DrainKill, DrainDone
  <2> QED BY <2>1, <2>2
<1>3. CASE SweepNext
  <2>1. CASE SweepRemove
    BY <1>0, <2>1 DEF SweepRemove, TeardownApply
  <2>2. ASSUME NEW u \in Targets, SweepBranch(u) PROVE OnGit(t)
    BY <1>0, <2>2 DEF SweepBranch, DeleteBranch
  <2>3. CASE SweepBranches \/ SweepWorktrees \/ SweepSnapshot \/ SweepList \/ SweepHomes
    BY <2>3 DEF SweepBranches, SweepWorktrees, SweepSnapshot, SweepList, SweepHomes
  <2> QED BY <1>3, <2>1, <2>2, <2>3 DEF SweepNext, SweepStep
<1>4. CASE DeadNext
  BY <1>4 DEF DeadNext, DeadStep, DeadRows, DeadSnapshot, DeadList, DeadEnd, DeadDone
<1>5. CASE OperatorNext
  <2>1. CASE StopManualRemove
    BY <1>0, <2>1 DEF StopManualRemove, TeardownApply
  <2>2. CASE DiscardBranch \/ DiscardWorktree
    BY <1>0, <2>2 DEF DiscardBranch, DeleteBranch, DiscardWorktree, RemoveWorktree
  <2>3. CASE ~(StopManualRemove \/ DiscardBranch \/ DiscardWorktree)
    BY <1>5, <2>3 DEF OperatorNext, OperatorRequest, OperatorStep, StopAFK, StopManual, Discard,
       StopAFKTokens, StopAFKSession, StopAFKWipe, StopManualSession, StopManualTeardown,
       StopManualEnd, StopManualWipe, DiscardKill, DiscardRow,
         DiscardEnd, DiscardTokens, DiscardWipe
  <2> QED BY <2>1, <2>2, <2>3
<1>6. CASE AgentNext
  BY <1>0, <1>6 DEF AgentNext, AgentWorks, AgentEdits, AgentCommits, OpenPull, MergePull, SessionExits,
     Live, Targets
<1>7. CASE Restart
  BY <1>0, <1>7 DEF Restart
<1> QED BY <1>1, <1>2, <1>3, <1>4, <1>5, <1>6, <1>7 DEF Next

\* What the sweep has listed it has read from git.
LEMMA ListedKeeps ==
  ASSUME IInv, Next, NEW t \in Targets, Listed(t)'
  PROVE  Listed(t) \/ OnGit(t)
<1>0. sweep \in Sweeps
  BY DEF IInv, TypeOK
<1>1. CASE SweepBranches
  BY <1>1 DEF SweepBranches, idleSweep, Listed, OnGit
<1>2. CASE SweepWorktrees \/ SweepSnapshot \/ SweepList \/ SweepRemove
  <2>1. CASE SweepWorktrees
    BY <1>0, <2>1 DEF SweepWorktrees, Listed, Sweeps
  <2>2. CASE SweepSnapshot
    BY <1>0, <2>2 DEF SweepSnapshot, Listed, Sweeps
  <2>3. CASE SweepList
    BY <1>0, <2>3 DEF SweepList, Listed, Sweeps
  <2>4. CASE SweepRemove
    BY <1>0, <2>4 DEF SweepRemove, Listed, Sweeps
  <2> QED BY <1>2, <2>1, <2>2, <2>3, <2>4
<1>3. ASSUME NEW u \in Targets, SweepBranch(u) PROVE Listed(t)
  <2> DEFINE act == TeardownDecision(u)
  <2> HIDE DEF act
  <2>1. /\ u \in sweep.branches
        /\ \/ sweep' = [sweep EXCEPT !.branches = @ \ {u}]
           \/ sweep' = [[sweep EXCEPT !.branches = @ \ {u}] EXCEPT !.pc = "remove", !.target = u, !.act = act]
    BY <1>3 DEF SweepBranch, act
  <2> QED BY <1>0, <1>3, <2>1 DEF Listed, Sweeps, SweepBranch
<1>4. CASE SweepHomes
  BY <1>4 DEF SweepHomes, idleSweep, Listed
<1>5. CASE Restart
  BY <1>5 DEF Restart, idleSweep, Listed
<1>6. CASE LaunchNext \/ ReaperNext \/ DeadNext \/ OperatorNext \/ AgentNext
  BY <1>6, LaunchShape, SweepOwn DEF Listed
<1> QED BY <1>1, <1>2, <1>3, <1>4, <1>5, <1>6 DEF Next, SweepNext, SweepStep

\* Every branch, and every branch the sweep remembers, was made by a launch.
LEMMA MadeKeeps == ASSUME IInv, Made, Next PROVE Made'
<1> SUFFICES ASSUME NEW t \in Targets, OnGit(t)' \/ Listed(t)'
             PROVE  \E r \in Runs : Makes(r, t)'
  BY DEF Made
<1>1. ASSUME NEW r \in Runs, Makes(r, t) PROVE Makes(r, t)'
  BY <1>1, RunsGoOn DEF Makes
<1>2. ASSUME NEW r \in Runs, pc[r] = "marked", AddWorktree(r), Target(name[r]) = t PROVE Makes(r, t)'
  BY <1>2 DEF AddWorktree, Makes, IInv, Named, TypeOK, LaunchTypeOK
<1>3. CASE OnGit(t) \/ Listed(t)
  BY <1>1, <1>3 DEF Made
<1>4. CASE ~(OnGit(t) \/ Listed(t))
  BY <1>2, <1>4, BranchesMade, ListedKeeps
<1> QED BY <1>3, <1>4

\* The sweep's reads in their order: a launch that has a worktree was marked
\* before the snapshot, or its branch was not there to be listed.
LEMMA SweepCountsKeeps ==
  ASSUME IInv, Distinct, GuardAll, Made, SweepCounts, Next
  PROVE  SweepCounts'
<1> USE DEF IInv, TypeOK, LaunchTypeOK
<1>0. sweep \in Sweeps
  OBVIOUS
<1> SUFFICES ASSUME NEW r \in Runs, pc'[r] \in Building \ {"marked"} PROVE Counted(r)'
  BY DEF SweepCounts
<1>1. pc[r] \in MidStart /\ name[r] \in starting /\ name'[r] = name[r] /\ Target(name[r]) \in Targets
      /\ (pc[r] \in Building \ {"marked"} \/ (pc[r] = "marked" /\ UNCHANGED sweep))
  <2>1. CASE LaunchNext
    <3> PICK s \in Runs : (\E n \in Names : AFKSelect(s, n) \/ ManualStart(s, n)) \/ LaunchStep(s)
      BY <2>1 DEF LaunchNext
    <3>1. pc[r] \in Building
      BY DEF LaunchStep, AFKSelect, ManualStart, Refuse, Mark, AddWorktree, AddWorktreeFails,
         CreateRun, CreateRunToken, StartSession, StartSessionFails, StepFails, Finish,
         RollbackStop, RollbackWorktree, RollbackBranch, RollbackRow, RollbackWipe,
         Return, Building
    <3>2. pc[r] \in MidStart /\ pc[r] # "idle"
      BY <3>1, PCs DEF Building
    <3> QED
      BY <2>1, <3>1, <3>2, LaunchShape, RunsGoOn, KindsOfNames DEF GuardAll, Named, StoreTypeOK
  <2>2. CASE QuietNext
    <3>1. UNCHANGED <<name, pc>>
      BY <2>2, Quiet DEF QuietStep
    <3>2. pc[r] \in MidStart /\ pc[r] # "idle"
      BY <3>1, PCs DEF Building
    <3> QED
      BY <2>2, <3>1, <3>2, KindsOfNames DEF GuardAll, Named, StoreTypeOK
  <2>3. CASE Restart
    BY <2>3 DEF Restart, Building
  <2> QED BY <2>1, <2>2, <2>3 DEF Next, QuietNext
<1> DEFINE t == Target(name[r])
<1>2. CASE pc[r] = "marked" /\ UNCHANGED sweep
  <2>1. ~Listed(t)
    <3> SUFFICES ASSUME NEW s \in Runs, Makes(s, t) PROVE FALSE
      BY <1>1 DEF Made
    <3>1. s = r
      BY <1>2 DEF Makes, Distinct, Named
    <3> QED BY <1>2, <3>1 DEF Makes
  <2> QED BY <1>1, <1>2, <2>1 DEF Counted, Listed
<1>3. CASE pc[r] \in Building \ {"marked"}
  <2>0. Counted(r)
    BY <1>3 DEF SweepCounts
  <2>1. CASE UNCHANGED sweep
    BY <1>1, <2>0, <2>1 DEF Counted
  <2>2. CASE SweepBranches
    BY <2>2 DEF SweepBranches, idleSweep, Counted
  <2>3. CASE SweepWorktrees
    BY <1>0, <2>3 DEF SweepWorktrees, Counted, Sweeps
  <2>4. CASE SweepSnapshot
    BY <1>0, <1>1, <2>4 DEF SweepSnapshot, Counted, Sweeps
  <2>5. CASE SweepList
    <3>1. t \in sweep.branches => t \in ownedBranches(sweep.starting \cup Live)
      BY <2>0, <2>5 DEF SweepList, Counted, ownedBranches
    <3> QED BY <1>0, <1>1, <2>5, <3>1 DEF SweepList, Counted, Sweeps
  <2>6. ASSUME NEW u \in Targets, SweepBranch(u) PROVE Counted(r)'
    <3> DEFINE act == TeardownDecision(u)
    <3> HIDE DEF act
    <3>1. /\ sweep.pc = "next" /\ u \in sweep.branches
          /\ \/ sweep' = [sweep EXCEPT !.branches = @ \ {u}]
             \/ /\ u \notin sweep.owned
                /\ sweep' = [[sweep EXCEPT !.branches = @ \ {u}]
                                       EXCEPT !.pc = "remove", !.target = u, !.act = act]
      BY <2>6 DEF SweepBranch, act
    <3>2. t \in sweep.branches => t \in sweep.owned
      BY <2>0, <3>1 DEF Counted
    <3> QED BY <1>0, <1>1, <3>1, <3>2 DEF Counted, Sweeps
  <2>7. CASE SweepRemove
    BY <1>0, <1>1, <2>0, <2>7 DEF SweepRemove, Counted, Sweeps
  <2>8. CASE SweepHomes
    BY <2>8 DEF SweepHomes, idleSweep, Counted
  <2>9. CASE Restart
    BY <2>9 DEF Restart, idleSweep, Counted
  <2> QED
    BY <2>1, <2>2, <2>3, <2>4, <2>5, <2>6, <2>7, <2>8, <2>9, LaunchShape, SweepOwn
       DEF Next, SweepNext, SweepStep
<1> QED BY <1>1, <1>2, <1>3

\* The dead-session sweep reads rows, marks and sessions in this order: a run
\* that is not marked any more has been launched.
LEMMA DeadCountsKeeps ==
  ASSUME IInv, GuardAll, DeadCounts, Next
  PROVE  DeadCounts'
<1> USE DEF IInv, TypeOK, LaunchTypeOK
<1>0. dead \in Deads
  OBVIOUS
<1>1. \A r \in dead.runs : r \in Runs /\ pc[r] \notin NoRow /\ name'[r] = name[r]
                           /\ (pc[r] = "done" => pc'[r] = "done")
  BY <1>0, RunsGoOn DEF DeadKnows, Deads, NoRow
<1>2. \A r \in dead.runs : pc[r] = "done" \/ name[r] \in starting
  BY <1>1, PCs DEF GuardAll, NoRow
<1>3. CASE dead' = dead
  BY <1>1, <1>3 DEF DeadCounts
<1>4. CASE DeadRows
  BY <1>4 DEF DeadRows, idleDead, DeadCounts
<1>5. CASE DeadSnapshot
  BY <1>0, <1>1, <1>2, <1>5 DEF DeadSnapshot, DeadCounts, Deads
<1>6. CASE DeadList
  BY <1>0, <1>1, <1>6 DEF DeadList, DeadCounts, Deads
<1>7. ASSUME NEW r \in Runs, DeadEnd(r) PROVE DeadCounts'
  BY <1>0, <1>1, <1>7 DEF DeadEnd, DeadCounts, Deads
<1>8. CASE DeadDone
  BY <1>8 DEF DeadDone, idleDead, DeadCounts
<1>9. CASE Restart
  BY <1>9 DEF Restart, idleDead, DeadCounts
<1> QED
  BY <1>3, <1>4, <1>5, <1>6, <1>7, <1>8, <1>9, LaunchShape, DeadOwn DEF Next, DeadNext, DeadStep

\* The reaper kills and tears down for a run whose launch had returned when its
\* outcome was claimed.
LEMMA ReapsDoneKeeps == ASSUME IInv, ReapsDone, Next PROVE ReapsDone'
<1> USE DEF Reaping
<1>0. reaper \in Reapers
  BY DEF IInv, TypeOK
<1>1. CASE reaper' = reaper
  BY <1>1, RunsGoOn DEF ReapsDone
<1>2. CASE ReaperNext
  <2>0. UNCHANGED <<name, pc, sweep, op>>
    BY <1>2, ReaperLocal
  <2>1. CASE ClaimOutcome
    <3>1. reaper.run \in Runs /\ pc[reaper.run] = "done"
      BY <2>1 DEF ClaimOutcome, IInv, ReaperKnows
    <3>2. reaper'.run = reaper.run
      BY <1>0, <2>1 DEF ClaimOutcome, Reapers
    <3> QED BY <2>0, <3>1, <3>2 DEF ReapsDone
  <2>2. CASE ReapStop \/ ReapTeardown
    <3>1. reaper.pc \in Reaping /\ reaper'.run = reaper.run
      <4>1. CASE ReapStop
        BY <1>0, <4>1 DEF ReapStop, Reapers
      <4>2. CASE ReapTeardown
        <5> DEFINE act == TeardownDecision(Target(name[reaper.run]))
        <5> HIDE DEF act
        <5>1. reaper.pc = "teardown" /\ reaper' = [reaper EXCEPT !.pc = "remove", !.act = act]
          BY <4>2 DEF ReapTeardown, act
        <5> QED BY <1>0, <5>1 DEF Reapers
      <4> QED BY <2>2, <4>1, <4>2
    <3> QED BY <2>0, <3>1 DEF ReapsDone
  <2>3. CASE ReapRemove \/ ReapWipe \/ ReapCount
    <3>1. CASE ReapRemove
      BY <1>0, <3>1 DEF ReapRemove, ReapsDone, Reapers
    <3>2. CASE ReapWipe
      BY <1>0, <3>2 DEF ReapWipe, ReapsDone, Reapers
    <3>3. CASE ReapCount
      BY <1>0, <3>3 DEF ReapCount, toNext, ReapsDone, Reapers
    <3> QED BY <2>3, <3>1, <3>2, <3>3
  <2>4. CASE ReapList \/ ClaimRow \/ ClaimGuard \/ ClaimDeclined
    <3>1. CASE ReapList
      BY <3>1 DEF ReapList, idleReaper, ReapsDone
    <3>2. CASE ClaimRow
      BY <1>0, <3>2 DEF ClaimRow, ReapsDone, Reapers
    <3>3. CASE ClaimGuard
      BY <1>0, <3>3 DEF ClaimGuard, ReapsDone, Reapers
    <3>4. CASE ClaimDeclined
      BY <1>0, <3>4 DEF ClaimDeclined, toNext, ReapsDone, Reapers
    <3> QED BY <2>4, <3>1, <3>2, <3>3, <3>4
  <2>5. ASSUME NEW r \in Runs, ReapRead(r) \/ ReapSkip(r) PROVE ReapsDone'
    <3>1. CASE ReapSkip(r)
      BY <1>0, <3>1 DEF ReapSkip, ReapsDone, Reapers
    <3>2. CASE ReapRead(r)
      <4> DEFINE seen == Target(name[r]) \in pulls
      <4> HIDE DEF seen
      <4>1. reaper' = [reaper EXCEPT !.pc = "locked", !.todo = @ \ {r}, !.run = r, !.done = seen]
        BY <3>2 DEF ReapRead, seen
      <4> QED BY <1>0, <4>1 DEF ReapsDone, Reapers
    <3> QED BY <2>5, <3>1, <3>2
  <2>6. CASE \/ DrainList \/ DrainGuard \/ DrainRow \/ DrainSkip \/ DrainKill \/ DrainDone
             \/ \E n \in Names : DrainNext(n)
    <3>1. CASE DrainList \/ DrainGuard \/ DrainRow
      BY <1>0, <3>1 DEF DrainList, DrainGuard, DrainRow, ReapsDone, Reapers
    <3>2. CASE DrainSkip \/ DrainKill
      BY <1>0, <3>2 DEF DrainSkip, DrainKill, toDrain, ReapsDone, Reapers
    <3>3. CASE DrainDone
      BY <3>3 DEF DrainDone, idleReaper, ReapsDone
    <3>4. CASE \E n \in Names : DrainNext(n)
      BY <1>0, <3>4 DEF DrainNext, ReapsDone, Reapers
    <3> QED BY <2>6, <3>1, <3>2, <3>3, <3>4
  <2> QED BY <1>2, <2>1, <2>2, <2>3, <2>4, <2>5, <2>6 DEF ReaperNext, ReaperStep
<1>3. CASE Restart
  BY <1>3 DEF Restart, idleReaper, ReapsDone
<1> QED BY <1>1, <1>2, <1>3, LaunchShape, ReaperOwn DEF Next

\* The sweep and the agents do not touch the operator's request.
LEMMA OpOwn == SweepNext \/ AgentNext => op' = op
<1>1. SweepNext => op' = op
  BY DEF SweepNext, SweepStep, SweepBranches, SweepWorktrees, SweepSnapshot, SweepList,
         SweepBranch, SweepRemove, SweepHomes
<1>2. AgentNext => op' = op
  BY DEF AgentNext, AgentWorks, OpenPull, MergePull, SessionExits
<1> QED BY <1>1, <1>2

\* With no Discard, the operator ends runs and tears down manual ones.
LEMMA NoDiscardKeeps ==
  ASSUME "discard" \notin Actors, IInv, NoDiscard, Next
  PROVE  NoDiscard'
<1> USE DEF Ops, DiscardPCs, ManualPCs, NoDiscard
<1>0. op \in Ops
  BY DEF IInv, TypeOK
<1>1. CASE op' = op
  BY <1>1
<1>2. CASE op' = idleOp
  BY <1>2 DEF idleOp
<1>3. CASE OperatorNext
  <2>1. ASSUME NEW n \in Names, NEW r \in Runs, StopAFK(n, r) \/ StopManual(n, r) PROVE NoDiscard'
    BY <2>1 DEF StopAFK, StopManual, idleOp
  <2>2. CASE StopAFKTokens \/ StopAFKSession \/ StopAFKWipe \/ StopManualWipe
    BY <1>0, <1>2, <2>2 DEF StopAFKTokens, StopAFKSession, StopAFKWipe, StopManualWipe
  <2>3. CASE StopManualSession
    BY <1>0, <2>3 DEF StopManualSession
  <2>4. CASE StopManualTeardown
    <3> DEFINE act == TeardownDecision(Target(op.name))
    <3> HIDE DEF act
    <3>1. op.pc = "teardown_m" /\ op' = [op EXCEPT !.pc = "remove_m", !.act = act]
      BY <2>4 DEF StopManualTeardown, act
    <3> QED BY <1>0, <3>1
  <2>5. CASE StopManualRemove
    BY <1>0, <2>5 DEF StopManualRemove
  <2>6. CASE StopManualEnd
    BY <1>0, <2>6 DEF StopManualEnd
  <2>7. ~(DiscardRow \/ DiscardEnd \/ DiscardTokens \/ DiscardWipe \/ DiscardWorktree \/ DiscardBranch)
        /\ ~(\E n \in Names : DiscardKill(n)) /\ ~(\E t \in Targets : Discard(t))
    BY DEF DiscardRow, DiscardEnd, DiscardTokens, DiscardWipe, DiscardWorktree, DiscardBranch,
         DiscardKill, Discard
  <2> QED
    BY <1>3, <2>1, <2>2, <2>3, <2>4, <2>5, <2>6, <2>7 DEF OperatorNext, OperatorRequest, OperatorStep
<1>4. ~OperatorNext => op' = op \/ op' = idleOp
  BY LaunchShape, ReaperLocal, DeadCalm, OpOwn DEF Next, Restart
<1> QED BY <1>1, <1>2, <1>3, <1>4

LEMMA UntouchedInit == Init => DInv
<1> SUFFICES ASSUME Init PROVE DInv
  OBVIOUS
<1> QED
  BY PCs DEF Init, DInv, SInv, GuardAll, Made, OnGit, Listed, SweepCounts, Building, DeadCounts, ReapsDone,
     NoDiscard, Reaping, DiscardPCs, ManualPCs, idleReaper, idleSweep, idleDead, idleOp

LEMMA SparedNext == ASSUME IInv, OneStart, SInv, [Next]_vars PROVE SInv'
<1>1. CASE Next
  BY <1>1, GuardKeeps, DeadCountsKeeps DEF SInv
<1>2. CASE UNCHANGED vars
  BY <1>2 DEF vars, SInv, GuardAll, DeadCounts
<1> QED BY <1>1, <1>2

\* Names of their own are started once.
LEMMA DistinctStarts == ASSUME IInv, Distinct PROVE OneStart
BY PCs DEF IInv, Named, InFlight, Distinct, OneStart

LEMMA UntouchedNext ==
  ASSUME "discard" \notin Actors, IInv, Distinct, DInv, [Next]_vars
  PROVE  DInv'
<1>1. SInv'
  BY DistinctStarts, SparedNext DEF DInv
<1>2. CASE Next
  BY <1>1, <1>2, MadeKeeps, SweepCountsKeeps, ReapsDoneKeeps, NoDiscardKeeps DEF DInv, SInv
<1>3. CASE UNCHANGED vars
  BY <1>1, <1>3 DEF vars, DInv, Made, OnGit, Listed, Makes, SweepCounts, Counted, ReapsDone, NoDiscard
<1> QED BY <1>2, <1>3

\* Nobody takes the worktree of a launch in flight, its own rollback aside.
LEMMA WorktreeStays ==
  ASSUME IInv, Distinct, DInv, Next, NEW r \in Runs,
         AFK(r), pc[r] \in Building \ {"marked"}, pc'[r] # "done",
         worktree[Target(name[r])] # "none"
  PROVE  worktree'[Target(name[r])] # "none"
<1> DEFINE t == Target(name[r])
<1>0. /\ TypeOK /\ t \in Issues /\ t \in Targets /\ name[r] # NoName
      /\ pc[r] \in {"claimed", "rowed", "tokened", "started"}
  BY AFKName DEF IInv, AFK, Targets, Building
<1>1. \A s \in Runs : name[s] # NoName /\ Target(name[s]) = t => s = r
  BY <1>0 DEF Distinct
<1>2. CASE LaunchNext
  <2> PICK s \in Runs : (\E n \in Names : AFKSelect(s, n) \/ ManualStart(s, n)) \/ LaunchStep(s)
    BY <1>2 DEF LaunchNext
  <2>1. CASE RollbackWorktree(s)
    <3>1. pc[s] = "rb_worktree" /\ name[s] # NoName
      BY <2>1 DEF RollbackWorktree, IInv, Named
    <3>2. Target(name[s]) # t
      BY <1>0, <1>1, <3>1
    <3> QED BY <1>0, <2>1, <3>2 DEF RollbackWorktree, RemoveWorktree, TypeOK, WorldTypeOK
  <2>2. CASE AddWorktree(s)
    BY <1>0, <2>2 DEF AddWorktree, TypeOK, WorldTypeOK
  <2>3. CASE ~(AddWorktree(s) \/ RollbackWorktree(s))
    BY <1>0, <2>3 DEF LaunchStep, AFKSelect, ManualStart, Refuse, Mark, AddWorktreeFails, CreateRun,
       CreateRunToken, StartSession, StartSessionFails, StepFails, Finish, RollbackStop,
       RollbackBranch, RollbackRow, RollbackWipe, Return
  <2> QED BY <2>1, <2>2, <2>3
<1>3. CASE ReaperNext
  <2>1. CASE ReapRemove
    <3>1. reaper.run \in Runs /\ pc[reaper.run] = "done"
      BY <2>1 DEF ReapRemove, Reaping, DInv, ReapsDone
    <3>2. name[reaper.run] # NoName
      BY <3>1 DEF IInv, Named
    <3>3. Target(name[reaper.run]) # t
      BY <1>0, <1>1, <3>1, <3>2
    <3> QED BY <1>0, <2>1, <3>3, TeardownLocal DEF ReapRemove
  <2>2. CASE ~ReapRemove
    BY <1>0, <1>3, <2>2 DEF ReaperNext, ReaperStep, ReapList, ReapRead, ReapSkip, ClaimRow, ClaimGuard,
       ClaimOutcome, ClaimDeclined, ReapStop, ReapTeardown, ReapWipe, ReapCount,
       DrainList, DrainNext, DrainGuard, DrainRow, DrainSkip, DrainKill, DrainDone
  <2> QED BY <2>1, <2>2
<1>4. CASE SweepNext
  <2>1. CASE SweepRemove
    <3>1. sweep.target # t
      BY <2>1 DEF SweepRemove, DInv, SweepCounts, Counted
    <3> QED BY <1>0, <2>1, <3>1, TeardownLocal DEF SweepRemove
  <2>2. ASSUME NEW u \in Targets, SweepBranch(u) PROVE worktree'[t] # "none"
    BY <1>0, <2>2 DEF SweepBranch
  <2>3. CASE SweepBranches \/ SweepWorktrees \/ SweepSnapshot \/ SweepList \/ SweepHomes
    BY <1>0, <2>3 DEF SweepBranches, SweepWorktrees, SweepSnapshot, SweepList, SweepHomes
  <2> QED BY <1>4, <2>1, <2>2, <2>3 DEF SweepNext, SweepStep
<1>5. CASE DeadNext
  BY <1>5 DEF DeadNext, DeadStep, DeadRows, DeadSnapshot, DeadList, DeadEnd, DeadDone
<1>6. CASE OperatorNext
  <2>1. CASE StopManualRemove
    <3>1. Target(op.name) # t
      BY <1>0, <2>1, ManualName DEF StopManualRemove, DInv, NoDiscard, ManualPCs
    <3> QED BY <1>0, <2>1, <3>1, TeardownLocal DEF StopManualRemove
  <2>2. ~DiscardWorktree
    BY DEF DiscardWorktree, DInv, NoDiscard, DiscardPCs
  <2>3. CASE ~StopManualRemove
    BY <1>0, <1>6, <2>2, <2>3 DEF OperatorNext, OperatorRequest, OperatorStep, StopAFK, StopManual,
       Discard, StopAFKTokens, StopAFKSession, StopAFKWipe, StopManualSession, StopManualTeardown,
       StopManualEnd, StopManualWipe, DiscardKill, DiscardRow,
         DiscardEnd, DiscardTokens, DiscardWipe, DiscardBranch
  <2> QED BY <2>1, <2>3
<1>7. CASE AgentNext
  BY <1>0, <1>7 DEF AgentNext, AgentWorks, AgentEdits, AgentCommits, OpenPull, MergePull, SessionExits,
     TypeOK, WorldTypeOK
<1>8. CASE Restart
  BY <1>0, <1>8 DEF Restart
<1> QED BY <1>2, <1>3, <1>4, <1>5, <1>6, <1>7, <1>8 DEF Next

\* The reaper claims outcomes of AFK runs.
LEMMA ClaimEndsAFK ==
  ASSUME IInv, ClaimOutcome, NEW r \in Runs, outcome'[r] # outcome[r]
  PROVE  AFK(r)
<1>1. reaper.run \in Runs
  BY DEF ClaimOutcome, IInv, ReaperKnows
<1>2. reaper.run # NoRun
  BY <1>1, NoRunIsNoRun
<1>3. AFK(reaper.run)
  BY <1>2 DEF IInv, ReaperKnows
<1>4. r = reaper.run
  BY <1>1 DEF ClaimOutcome, EndRun, IInv, TypeOK, StoreTypeOK
<1> QED BY <1>3, <1>4

\* Nobody reaps a run that is mid-Start.
LEMMA DeathIsLate ==
  ASSUME IInv, SInv, Next, NEW r \in Runs,
         name[r] # NoName, outcome[r] = "active", outcome'[r] = "death"
  PROVE  pc'[r] = "done"
<1>1. CASE AFK(r)
  BY <1>1, OutcomeSteps DEF Terminal
<1>2. CASE DeadNext
  <2>1. PICK s \in Runs : DeadEnd(s)
    BY <1>2 DEF DeadNext, DeadStep, DeadRows, DeadSnapshot, DeadList, DeadDone
  <2>2. s = r /\ pc[s] = "done"
    BY <2>1 DEF DeadEnd, EndRun, SInv, DeadCounts, IInv, TypeOK, StoreTypeOK
  <2> QED BY <2>1, <2>2 DEF DeadEnd
<1>3. CASE Restart
  BY <1>3 DEF Restart, IInv, Named, TypeOK, LaunchTypeOK
<1>4. CASE ~AFK(r) /\ ~DeadNext /\ ~Restart
  <2>1. CASE ReaperNext
    <3>1. ~ClaimOutcome
      BY <1>4, ClaimEndsAFK
    <3> QED BY <2>1, <3>1 DEF ReaperNext, ReaperStep, ReapList, ReapRead, ReapSkip, ClaimRow, ClaimGuard,
       ClaimDeclined, ReapStop, ReapTeardown, ReapRemove, ReapWipe, ReapCount,
       DrainList, DrainNext, DrainGuard, DrainRow, DrainSkip, DrainKill, DrainDone
  <2>2. CASE LaunchNext
    <3> PICK s \in Runs : \/ \E n \in Names : Admits(s, n)
                          \/ \E q \in MidStart : Advances(s, q)
                          \/ Returns(s)
      BY <2>2, LaunchShape
    <3> QED BY DEF Admits, Advances, Returns, IInv, TypeOK, StoreTypeOK
  <2>3. CASE OperatorNext
    <3> USE DEF EndRun, IInv, TypeOK, StoreTypeOK
    <3>1. CASE OperatorRequest
      BY <3>1 DEF OperatorRequest, StopAFK, StopManual, Discard
    <3>2. CASE OperatorStep
      BY <3>2 DEF OperatorStep, StopAFKTokens, StopAFKSession, StopAFKWipe, StopManualSession,
         StopManualTeardown, StopManualRemove, StopManualEnd, StopManualWipe,
         DiscardKill, DiscardRow,
         DiscardEnd, DiscardTokens, DiscardWipe, DiscardWorktree, DiscardBranch
    <3> QED BY <2>3, <3>1, <3>2 DEF OperatorNext
  <2>4. CASE SweepNext
    BY <2>4 DEF SweepNext, SweepStep, SweepBranches, SweepWorktrees, SweepSnapshot, SweepList,
       SweepBranch, SweepRemove, SweepHomes
  <2>5. CASE AgentNext
    BY <2>5 DEF AgentNext, AgentWorks, OpenPull, MergePull, SessionExits
  <2> QED BY <1>4, <2>1, <2>2, <2>3, <2>4, <2>5 DEF Next
<1> QED BY <1>1, <1>2, <1>3, <1>4

\* "A run mid-Start must never be reaped" (reconcile/sweep.go:109).
MidStartSpared ==
  [][\A r \in Runs :
       name[r] # NoName /\ outcome[r] = "active" /\ outcome'[r] = "death" => pc'[r] = "done"]_vars

\* The dead-session sweep, the reaper and a restart reap no run whose Start is
\* still under way, whatever else the operator and the sweeps do, unless its label
\* is started a second time meanwhile.
THEOREM MidStartSparedCorrect == Spec /\ []OneStart => MidStartSpared
<1>1. Init => SInv
  BY UntouchedInit DEF DInv
<1>2. IInv /\ OneStart /\ SInv /\ [Next]_vars => SInv'
  BY SparedNext
<1>3. IInv /\ SInv /\ [Next]_vars =>
        [\A r \in Runs :
           name[r] # NoName /\ outcome[r] = "active" /\ outcome'[r] = "death" => pc'[r] = "done"]_vars
  BY DeathIsLate
<1> QED BY <1>1, <1>2, <1>3, LabInvariant, PTL DEF Spec, MidStartSpared

\* The sweeps act on readings that are older than what they decide, and never hit
\* a launch in flight, where no issue and no label is launched twice.
THEOREM LaunchUntouchedCorrect ==
  "discard" \notin Actors => (Spec /\ []Distinct => LaunchUntouched)
<1> SUFFICES ASSUME "discard" \notin Actors PROVE Spec /\ []Distinct => LaunchUntouched
  OBVIOUS
<1>1. IInv /\ Distinct /\ DInv /\ [Next]_vars => DInv'
  BY UntouchedNext
<1>2. IInv /\ Distinct /\ DInv /\ [Next]_vars =>
        [\A r \in Runs :
           /\ AFK(r) /\ pc[r] \in Building \ {"marked"} /\ pc'[r] # "done"
                /\ worktree[Target(name[r])] # "none" => worktree'[Target(name[r])] # "none"
           /\ name[r] # NoName /\ outcome[r] = "active" /\ outcome'[r] = "death" => pc'[r] = "done"]_vars
  BY WorktreeStays, DeathIsLate DEF DInv
<1> QED BY <1>1, <1>2, UntouchedInit, LabInvariant, PTL DEF Spec, LaunchUntouched
=============================================================================
