------------------------------ MODULE LabState ------------------------------
(***************************************************************************)
(* The state one repository of lab shares between its goroutines and       *)
(* request handlers, and the operations of the four witnesses it is spread *)
(* over:                                                                   *)
(*                                                                         *)
(*   - the store (internal/store): the runs rows, the run tokens and the   *)
(*     repository's consecutive-failure counter;                           *)
(*   - tmux (internal/tmuxx): which session names are live;                *)
(*   - git (internal/gitx): managed branches and their worktrees.  A local *)
(*     branch IS the claim on an issue;                                    *)
(*   - memory: the startguard set, the two engine locks, and where each    *)
(*     thread stands.  A crash of the lab process loses exactly this part. *)
(*                                                                         *)
(* A run is identified by an element of Runs, chosen once and never        *)
(* reused, like the run ids of internal/ids.                               *)
(***************************************************************************)
EXTENDS Naturals, FiniteSets

CONSTANTS
  Runs,     \* run ids the store may ever hand out in a behaviour
  Issues,   \* ready-for-agent issues: the targets of AFK runs
  Labels,   \* minute-stamped labels: the targets of manual instances
  NoRun,    \* "no such run", "nobody holds the lock"
  NoName,   \* "no session name", "no target"
  Actors,   \* the goroutines and request handlers that take part
  Faults    \* the environment operations that may fail

AllActors == {"reaper", "sweep", "stop", "discard", "deadsweep", "restart"}
AllFaults == {"launch", "stop", "git"}

ASSUME TargetsDisjoint == Issues \cap Labels = {}
ASSUME NoRunIsNoRun == NoRun \notin Runs
ASSUME ActorsAssumption == Actors \subseteq AllActors
ASSUME FaultsAssumption == Faults \subseteq AllFaults

Targets == Issues \cup Labels

AFKKinds == {"afk_manual", "afk_auto"}

(***************************************************************************)
(* A session name, <repo>~<label>: afk-<N>, afk-auto-<N> or a manual       *)
(* label.  The branch and the worktree path depend on the target alone, so *)
(* the two AFK names of an issue share both.                               *)
(***************************************************************************)
Names == (AFKKinds \X Issues) \cup ({"manual"} \X Labels)

Kind(n) == n[1]
Target(n) == n[2]

ASSUME NoNameIsNoName == NoName \notin Names

VARIABLES
  name,      \* runs.session_name (with it runs.kind and runs.branch)
  outcome,   \* runs.outcome; "none" when the row does not exist
  tokens,    \* runs that own a run token
  homes,     \* runs whose private home tree exists on disk
  failures,  \* repos.consecutive_failures
  session,   \* live tmux sessions: the run whose spawn created each
  branch,    \* managed branches: absent, contained in mainline, or ahead
  worktree,  \* managed worktrees: none, clean or dirty
  pulls,     \* issues whose claim branch heads an open or merged PR
  starting,  \* startguard: names marked as mid-Start
  mu,        \* the launch in flight under the engine's claim lock
  runsMu,    \* the holder of the reap-versus-Stop lock
  pc,        \* where each instance.Launch call stands
  reaper,    \* the ReaperLoop goroutine: reap, zombie drain
  sweep,     \* the same goroutine inside RuntimeSweep
  op,        \* the operator request being served
  dead       \* the DeadSessionLoop goroutine

storeVars == <<name, outcome, tokens, homes, failures>>
gitVars   == <<branch, worktree, pulls>>
lockVars  == <<starting, mu, runsMu>>
vars == <<storeVars, session, gitVars, lockVars, pc, reaper, sweep, op, dead>>

Terminal == {"success", "death", "timeout", "stopped"}
Outcomes == {"none", "active"} \cup Terminal

(***************************************************************************)
(* Store.                                                                  *)
(***************************************************************************)

\* Mutant of EndRun: the UPDATE lost its AND outcome = 'active'.
EndRunUnguarded(r, o) == outcome' = [outcome EXCEPT ![r] = o]

\* UPDATE runs SET outcome = o WHERE id = r AND outcome = 'active'.
EndRun(r, o) ==
  outcome' = IF outcome[r] = "active" THEN [outcome EXCEPT ![r] = o] ELSE outcome

\* The rows RunBySession(n) may answer with.
RunBySession(n) == {r \in Runs : name[r] = n /\ outcome[r] = "active"}

ActiveRuns == {r \in Runs : outcome[r] = "active"}
ActiveAFKRuns == {r \in ActiveRuns : Kind(name[r]) \in AFKKinds}
ActiveAutoRunForRepo == {r \in ActiveRuns : Kind(name[r]) = "afk_auto"}

(***************************************************************************)
(* tmux.                                                                   *)
(***************************************************************************)
Live == {n \in Names : session[n] # NoRun}

Killed(n) == [session EXCEPT ![n] = NoRun]

\* kill-session: idempotent, and best effort at every call site.
StopSession(n) ==
  \/ session' = Killed(n)
  \/ "stop" \in Faults /\ session' = session

(***************************************************************************)
(* git.                                                                    *)
(***************************************************************************)
BranchMerged(t) == branch[t] = "merged"

\* The guarded teardown rule over (dirty, merged).
KeepBoth == [worktree |-> FALSE, branch |-> FALSE]
\* Mutant of decideTeardown: a dirty worktree is removed like a clean one.
decideTeardownDirty(dirty, merged) == [worktree |-> TRUE, branch |-> merged]
decideTeardown(dirty, merged) ==
  IF dirty THEN KeepBoth ELSE [worktree |-> TRUE, branch |-> merged]

TeardownActions == [worktree : BOOLEAN, branch : BOOLEAN]

\* First half of TeardownGuarded: an unreadable status or merged check (a
\* worktree or a branch that is gone) keeps both.
TeardownDecision(t) ==
  IF worktree[t] = "none" \/ branch[t] = "absent"
  THEN KeepBoth
  ELSE decideTeardown(worktree[t] = "dirty", BranchMerged(t))

\* Second half: `worktree remove --force`, then `branch -D`; a failed remove
\* skips the delete.
TeardownApply(t, act) ==
  \/ /\ act.worktree /\ worktree[t] # "none"
     /\ worktree' = [worktree EXCEPT ![t] = "none"]
     /\ \/ branch' = IF act.branch THEN [branch EXCEPT ![t] = "absent"] ELSE branch
        \/ "git" \in Faults /\ branch' = branch
  \/ /\ ~act.worktree \/ worktree[t] = "none" \/ "git" \in Faults
     /\ UNCHANGED <<branch, worktree>>

\* `git branch -D`: refused while the branch is checked out in a worktree.
DeleteBranch(t) ==
  \/ branch' = IF worktree[t] = "none" THEN [branch EXCEPT ![t] = "absent"] ELSE branch
  \/ "git" \in Faults /\ branch' = branch

RemoveWorktree(t) ==
  \/ worktree' = [worktree EXCEPT ![t] = "none"]
  \/ "git" \in Faults /\ worktree' = worktree

\* Mutant of ownedBranches: no session name parses to its branch.
ownedBranchesUnparsed(sessions) == {n \in sessions : n \notin Names}
\* The branches a set of session names occupies.
ownedBranches(sessions) == {Target(n) : n \in sessions}

(***************************************************************************)
(* Threads.                                                                *)
(***************************************************************************)
Building == {"marked", "claimed", "rowed", "tokened", "started"}
RollingBack == {"rb_stop", "rb_worktree", "rb_branch", "rb_row", "rb_wipe"}
\* The window the startguard must cover: Mark to Clear.
MidStart == Building \cup RollingBack
LaunchPCs == {"idle", "selected", "done"} \cup MidStart

idleReaper == [pc |-> "idle", todo |-> {}, run |-> NoRun, done |-> FALSE,
               alive |-> FALSE, outcome |-> "none", act |-> KeepBoth,
               names |-> {}, zombie |-> NoName]
idleSweep == [pc |-> "idle", branches |-> {}, worktrees |-> {}, starting |-> {},
              owned |-> {}, target |-> NoName, act |-> KeepBoth]
idleOp == [pc |-> "idle", run |-> NoRun, name |-> NoName, target |-> NoName,
           names |-> {}, act |-> KeepBoth]
idleDead == [pc |-> "idle", runs |-> {}, owned |-> {}]

ReaperPCs == {"idle", "next", "locked", "guard", "classify", "stop", "teardown",
              "remove", "wipe", "count", "drain", "guard_z", "row_z", "kill_z"}
SweepPCs == {"idle", "worktrees", "snapshot", "list", "next", "remove", "homes"}
OpPCs == {"idle", "tokens_a", "stop_a", "wipe_a",
          "stop_m", "teardown_m", "remove_m", "end_m", "wipe_m",
          "kill_d", "row_d", "end_d", "tokens_d", "wipe_d", "worktree_d", "branch_d"}
DeadPCs == {"idle", "snapshot", "list", "end"}

Init ==
  /\ name = [r \in Runs |-> NoName]
  /\ outcome = [r \in Runs |-> "none"]
  /\ tokens = {} /\ homes = {} /\ failures = 0
  /\ session = [n \in Names |-> NoRun]
  /\ branch = [t \in Targets |-> "absent"]
  /\ worktree = [t \in Targets |-> "none"]
  /\ pulls = {}
  /\ starting = {} /\ mu = NoRun /\ runsMu = "free"
  /\ pc = [r \in Runs |-> "idle"]
  /\ reaper = idleReaper /\ sweep = idleSweep /\ op = idleOp /\ dead = idleDead

Reapers == [pc : ReaperPCs, todo : SUBSET Runs, run : Runs \cup {NoRun},
            done : BOOLEAN, alive : BOOLEAN, outcome : {"none"} \cup Terminal,
            act : TeardownActions, names : SUBSET Names, zombie : Names \cup {NoName}]
Sweeps == [pc : SweepPCs, branches : SUBSET Targets, worktrees : SUBSET Targets,
           starting : SUBSET Names, owned : SUBSET Targets,
           target : Targets \cup {NoName}, act : TeardownActions]
Ops == [pc : OpPCs, run : Runs \cup {NoRun}, name : Names \cup {NoName},
        target : Targets \cup {NoName}, names : SUBSET Names, act : TeardownActions]
Deads == [pc : DeadPCs, runs : SUBSET Runs, owned : SUBSET Names]

StoreTypeOK ==
  /\ name \in [Runs -> Names \cup {NoName}]
  /\ outcome \in [Runs -> Outcomes]
  /\ tokens \subseteq Runs /\ homes \subseteq Runs
  /\ failures \in Nat

WorldTypeOK ==
  /\ session \in [Names -> Runs \cup {NoRun}]
  /\ branch \in [Targets -> {"absent", "merged", "ahead"}]
  /\ worktree \in [Targets -> {"none", "clean", "dirty"}]
  /\ pulls \subseteq Issues

LaunchTypeOK ==
  /\ starting \subseteq Names
  /\ mu \in Runs \cup {NoRun}
  /\ runsMu \in {"free", "reaper", "operator"}
  /\ pc \in [Runs -> LaunchPCs]

\* Every variable has its type: what the store, tmux, git and the threads of
\* the lab process can hold.
TypeOK ==
  /\ StoreTypeOK /\ WorldTypeOK /\ LaunchTypeOK
  /\ reaper \in Reapers /\ sweep \in Sweeps /\ op \in Ops /\ dead \in Deads
=============================================================================
