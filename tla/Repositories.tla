---------------------------- MODULE Repositories ----------------------------
(***************************************************************************)
(* A repository (reposvc.Service): its row, its bare clone on disk with    *)
(* the pre-push guard in it, and the clone job that makes it ready.        *)
(*                                                                         *)
(* Add and Retry register a job and return; Delete refuses a repository    *)
(* that is being cloned, or kills the job and waits for it; a settings     *)
(* PATCH toggles incogni and renders the guard again.  Service.mu guards   *)
(* the registry of jobs only, except that Retry holds it throughout.  The  *)
(* store and the disk are under no lock.                                   *)
(*                                                                         *)
(* One repository: ids are never used again, and two repositories meet in  *)
(* mu and in imports only.  A call is named by what it asks for and is     *)
(* made at most once.                                                      *)
(***************************************************************************)
EXTENDS FiniteSets

CONSTANTS
  Scenarios,      \* bound: sets of gestures, each of which happens at most once
  Nobody

Deletes == {"delete", "force"}
Retries == {"retry", "again"}
Toggles == {"on", "off"}
Calls == {"add"} \cup Deletes \cup Retries \cup Toggles
AllGestures == (Calls \ {"add"}) \cup {"import", "session", "hangup", "crash", "close",
                                        "giterr", "hookerr", "storeerr", "rmerr"}
ASSUME ScenariosAssumption == Scenarios \subseteq SUBSET AllGestures
ASSUME NobodyAssumption == Nobody \notin Calls

VARIABLES
  row,         \* clone_status; none before the create, gone after the delete
  incogni,     \* the flag of the row
  imported,    \* another repository imports this one
  session,     \* a session of the repository is live
  dir, hook,   \* the bare clone and its pre-push hook
  job,         \* the registered clone job: where it is, its context, the flag it read
  mu,          \* the Retry that holds Service.mu
  call,        \* where each call is
  held,        \* who waits for the job now registered: its done channel is theirs
  hung,        \* calls whose client has hung up: their context is dead
  phase,       \* of the process
  overlapped,  \* history: writers of the guard have overlapped since the last start
  unhealed,    \* history: the last start left a ready repository a guard that does not fit
  gestures     \* gestures so far

store == <<row, incogni, imported>>
disk == <<dir, hook>>
world == <<imported, session, phase>>
faults == <<overlapped, unhealed>>
vars == <<store, session, disk, job, mu, call, held, hung, phase, faults, gestures>>

NoJob == [pc |-> "none", cancelled |-> FALSE, flag |-> FALSE]
newJob == [NoJob EXCEPT !.pc = "start"]
Exists == row \notin {"none", "gone"}
InFlight(c) == call[c] \notin {"idle", "done"}
Serving == phase \in {"up", "closing"}

Init ==
  /\ row = "none" /\ incogni \in BOOLEAN /\ imported = FALSE /\ session = FALSE
  /\ dir = "none" /\ hook = "none" /\ job = NoJob /\ mu = Nobody
  /\ call = [c \in Calls |-> "idle"] /\ held = {} /\ hung = {}
  /\ phase = "up" /\ overlapped = FALSE /\ unhealed = FALSE /\ gestures = {}

Gesture(g) ==
  /\ g \notin gestures /\ \E s \in Scenarios : gestures \cup {g} \subseteq s
  /\ gestures' = gestures \cup {g}
calm == UNCHANGED gestures

(***************************************************************************)
(* The guard.  installGuardHook writes the hook by a rename, creating the  *)
(* directories on its way, and then pins core.hooksPath, which works in a  *)
(* git directory only; what a clone under way has is one or not yet.       *)
(***************************************************************************)
Guard(flag) == IF flag THEN "patterned" ELSE "plain"

GuardWritten(flag) ==
  /\ hook' = Guard(flag)
  /\ dir' = IF dir = "none" THEN "hollow" ELSE dir

InstallGuard(flag) ==
  /\ dir \in {"partial", "whole"}
  /\ GuardWritten(flag) /\ calm

InstallFails(flag) ==
  \/ dir \in {"none", "hollow", "partial"} /\ GuardWritten(flag) /\ calm
  \/ Gesture("hookerr") /\ (UNCHANGED disk \/ GuardWritten(flag))

(***************************************************************************)
(* The clone job (runClone, clone): its context is its own, its writes to  *)
(* the store have a fresh one.                                             *)
(***************************************************************************)
startCloneJob == job' = IF job.pc = "none" THEN newJob ELSE job

JobGoes(pc) == job' = [job EXCEPT !.pc = pc]
JobOnly == UNCHANGED <<session, imported, incogni, mu, call, held, hung, phase>>
\* What a write to the row answers: done, NotFound (deleted meanwhile), or an error.
RowGone == row = "gone"

\* Materializing the credential may fail; git refuses a directory that is there.
JobStarts ==
  /\ job.pc = "start" /\ JobOnly /\ UNCHANGED <<row, faults>>
  /\ \/ /\ dir = "none" /\ ~job.cancelled
        /\ dir' = "partial" /\ hook' = "none" /\ JobGoes("git") /\ calm
     \/ /\ dir # "none" \/ job.cancelled
        /\ UNCHANGED disk /\ JobGoes("failed") /\ calm
     \/ Gesture("giterr") /\ UNCHANGED disk /\ JobGoes("failed")

GitDone ==
  /\ job.pc = "git" /\ dir = "partial"
  /\ dir' = "whole" /\ JobGoes("branch")
  /\ JobOnly /\ calm /\ UNCHANGED <<row, hook, faults>>

Cleared == dir' = "none" /\ hook' = "none"

\* CloneBare removes what it began, also when git was killed.
GitFails ==
  /\ job.pc = "git"
  /\ \/ (job.cancelled \/ dir # "partial") /\ calm
     \/ Gesture("giterr")
  /\ Cleared /\ JobGoes("failed")
  /\ JobOnly /\ UNCHANGED <<row, faults>>

JobStoreFails ==
  /\ job.pc \in {"branch", "reread", "ready"} /\ ~RowGone
  /\ Gesture("storeerr") /\ JobGoes("failed")
  /\ JobOnly /\ UNCHANGED <<row, disk, faults>>

JobNotFound ==
  /\ job.pc \in {"branch", "reread", "ready"} /\ RowGone
  /\ JobGoes("end")
  /\ JobOnly /\ calm /\ UNCHANGED <<row, disk, faults>>

JobBranch ==
  /\ job.pc = "branch" /\ ~RowGone
  /\ JobGoes("reread")
  /\ JobOnly /\ calm /\ UNCHANGED <<row, disk, faults>>

\* The row is read again for the flag: a PATCH during the clone is honoured.
JobReread ==
  /\ job.pc = "reread" /\ ~RowGone
  /\ job' = [job EXCEPT !.pc = "hook", !.flag = incogni]
  /\ overlapped' = (overlapped \/ \E t \in Toggles : InFlight(t))
  /\ JobOnly /\ calm /\ UNCHANGED <<row, disk, unhealed>>

JobHookUnguarded ==   \* mutant: a failed install is logged only
  /\ job.pc = "hook" /\ JobGoes("ready")
  /\ \/ InstallGuard(job.flag)
     \/ InstallFails(job.flag)
  /\ JobOnly /\ UNCHANGED <<row, faults>>

\* No repository reaches ready unguarded: a failed install fails the clone.
JobHook ==
  /\ job.pc = "hook"
  /\ \/ InstallGuard(job.flag) /\ JobGoes("ready")
     \/ InstallFails(job.flag) /\ JobGoes("failed")
  /\ JobOnly /\ UNCHANGED <<row, faults>>

JobReady ==
  /\ job.pc = "ready" /\ ~RowGone
  /\ row' = "ready" /\ JobGoes("end")
  /\ JobOnly /\ calm /\ UNCHANGED <<disk, faults>>

\* A job found cancelled writes no status: its row is about to go.
JobFailed ==
  /\ job.pc = "failed" /\ JobGoes(IF job.cancelled THEN "end" ELSE "mark")
  /\ JobOnly /\ calm /\ UNCHANGED <<row, disk, faults>>

\* It may be cancelled by now.  A write that fails is logged only.
JobMarksError ==
  /\ job.pc = "mark" /\ JobGoes("end")
  /\ \/ ~RowGone /\ row' = "error" /\ calm
     \/ UNCHANGED row /\ ((RowGone /\ calm) \/ Gesture("storeerr"))
  /\ JobOnly /\ UNCHANGED <<disk, faults>>

\* The status is written before the job leaves the registry; done closes last.
JobEnds ==
  /\ job.pc = "end" /\ mu = Nobody
  /\ job' = NoJob /\ held' = {}
  /\ calm /\ UNCHANGED <<store, session, disk, mu, call, hung, phase, faults>>

JobRuns == \/ JobStarts \/ JobStoreFails \/ JobNotFound \/ JobBranch \/ JobReread
           \/ JobHook \/ JobReady \/ JobFailed \/ JobMarksError \/ JobEnds
JobNext == Serving /\ (JobRuns \/ GitDone \/ GitFails)

(***************************************************************************)
(* Calls.                                                                  *)
(***************************************************************************)
Goes(c, pc) == call' = [call EXCEPT ![c] = pc]
Begins(c) == phase = "up" /\ call[c] = "idle" /\ Exists /\ Gesture(c)
Dead(c) == c \in hung

\* Add: the row is there, and published, before the job is.
AddCreate ==
  /\ phase = "up" /\ call["add"] = "idle"
  /\ row' = "cloning" /\ Goes("add", "spawn")
  /\ calm /\ UNCHANGED <<incogni, imported, session, disk, job, mu, held, hung, phase, faults>>

AddSpawn ==
  /\ call["add"] = "spawn" /\ mu = Nobody
  /\ startCloneJob /\ Goes("add", "done")
  /\ calm /\ UNCHANGED <<store, session, disk, mu, held, hung, phase, faults>>

\* Delete.  An imported repository is refused first, forced or not.
DeleteBegins(d) ==
  /\ Begins(d)
  /\ Goes(d, IF imported THEN "done" ELSE "jobs")
  /\ UNCHANGED <<store, session, disk, job, mu, held, hung, phase, faults>>

DeleteReadsJobs(d) ==
  /\ call[d] = "jobs" /\ mu = Nobody
  /\ \/ job.pc = "none" /\ Goes(d, "live") /\ UNCHANGED held
     \/ job.pc # "none" /\ d = "delete" /\ Goes(d, "done") /\ UNCHANGED held
     \/ job.pc # "none" /\ d = "force" /\ Goes(d, "cancel") /\ held' = held \cup {d}
  /\ calm /\ UNCHANGED <<store, session, disk, job, mu, hung, phase, faults>>

DeleteOnlyWaits(d) ==   \* mutant: the job is awaited, not killed
  /\ call[d] = "cancel" /\ Goes(d, "await")
  /\ calm /\ UNCHANGED <<store, session, disk, job, mu, held, hung, phase, faults>>

\* The job captured may have ended, and another may be registered, by now.
DeleteCancels(d) ==
  /\ call[d] = "cancel"
  /\ job' = IF d \in held THEN [job EXCEPT !.cancelled = TRUE] ELSE job
  /\ Goes(d, "await")
  /\ calm /\ UNCHANGED <<store, session, disk, mu, held, hung, phase, faults>>

DeleteAwaits(d) ==
  /\ call[d] = "await" /\ d \notin held
  /\ Goes(d, "live")
  /\ calm /\ UNCHANGED <<store, session, disk, job, mu, held, hung, phase, faults>>

\* liveInstances reads with the context of the request.  StopAll does its best.
DeleteCountsLive(d) ==
  /\ call[d] = "live"
  /\ \/ /\ ((Dead(d) \/ RowGone) /\ calm) \/ Gesture("storeerr")
        /\ Goes(d, "done") /\ UNCHANGED session
     \/ /\ ~Dead(d) /\ ~RowGone /\ calm
        /\ Goes(d, IF session /\ d = "delete" THEN "done" ELSE "row")
        /\ session' \in (IF session /\ d = "force" THEN BOOLEAN ELSE {session})
  /\ UNCHANGED <<store, disk, job, mu, held, hung, phase, faults>>

\* The transaction asks for importers once more.
DeleteTakesRow(d) ==
  /\ call[d] = "row"
  /\ \/ /\ ((imported \/ RowGone) /\ calm) \/ Gesture("storeerr")
        /\ Goes(d, "done") /\ UNCHANGED row
     \/ ~imported /\ ~RowGone /\ calm /\ row' = "gone" /\ Goes(d, "dir")
  /\ UNCHANGED <<incogni, imported, session, disk, job, mu, held, hung, phase, faults>>

\* A failure is logged only.
DeleteTakesDir(d) ==
  /\ call[d] = "dir" /\ Goes(d, "done")
  /\ \/ Cleared /\ calm
     \/ UNCHANGED disk /\ Gesture("rmerr")
  /\ UNCHANGED <<store, session, job, mu, held, hung, phase, faults>>

RetryBeginsUnlocked(r) ==   \* mutant: mu is released after the check
  /\ Begins(r) /\ mu = Nobody
  /\ Goes(r, IF job.pc = "none" /\ row = "error" THEN "clear" ELSE "done")
  /\ UNCHANGED <<store, session, disk, job, mu, held, hung, phase, faults>>

\* Retry holds mu from its check to the registration of the job.
RetryBegins(r) ==
  /\ Begins(r) /\ mu = Nobody
  /\ IF job.pc = "none" /\ row = "error"
     THEN mu' = r /\ Goes(r, "clear")
     ELSE UNCHANGED mu /\ Goes(r, "done")
  /\ UNCHANGED <<store, session, disk, job, held, hung, phase, faults>>

RetryClears(r) ==
  /\ call[r] = "clear"
  /\ \/ Cleared /\ Goes(r, "mark") /\ calm /\ UNCHANGED mu
     \/ UNCHANGED disk /\ Goes(r, "done") /\ Gesture("rmerr") /\ mu' = Nobody
  /\ UNCHANGED <<store, session, job, held, hung, phase, faults>>

RetryMarks(r) ==
  /\ call[r] = "mark"
  /\ \/ ~Dead(r) /\ ~RowGone /\ row' = "cloning" /\ Goes(r, "spawn") /\ calm /\ UNCHANGED mu
     \/ /\ UNCHANGED row /\ Goes(r, "done") /\ mu' = Nobody
        /\ \/ (Dead(r) \/ RowGone) /\ calm
           \/ Gesture("storeerr")
  /\ UNCHANGED <<incogni, imported, session, disk, job, held, hung, phase, faults>>

RetrySpawns(r) ==
  /\ call[r] = "spawn"
  /\ startCloneJob /\ mu' = Nobody /\ Goes(r, "done")
  /\ calm /\ UNCHANGED <<store, session, disk, held, hung, phase, faults>>

(***************************************************************************)
(* The incogni toggle of UpdateSettings.  On: the guard before the row, or *)
(* after it where there was no clone to guard yet.  Off: after the row.    *)
(***************************************************************************)
asked(t) == t = "on"

ToggleBeginsRowFirst(t) ==   \* mutant: the guard is rendered after the row, both ways
  /\ Begins(t) /\ Goes(t, "row_late")
  /\ overlapped' = \/ overlapped \/ job.pc = "hook"
                   \/ \E u \in Toggles \ {t} : InFlight(u)
  /\ UNCHANGED <<store, session, disk, job, mu, held, hung, phase, unhealed>>

ToggleBegins(t) ==
  /\ Begins(t)
  /\ Goes(t, IF t = "on" /\ dir # "none" THEN "guard" ELSE "row_late")
  /\ overlapped' = \/ overlapped \/ job.pc = "hook"
                   \/ \E u \in Toggles \ {t} : InFlight(u)
  /\ UNCHANGED <<store, session, disk, job, mu, held, hung, phase, unhealed>>

ToggleGuards(t) ==
  /\ call[t] = "guard"
  /\ \/ ~Dead(t) /\ InstallGuard(TRUE) /\ Goes(t, "row")
     \/ InstallFails(TRUE) /\ Goes(t, "done")
     \/ Dead(t) /\ GuardWritten(TRUE) /\ calm /\ Goes(t, "done")
  /\ UNCHANGED <<store, session, job, mu, held, hung, phase, faults>>

ToggleWritesRow(t) ==
  /\ call[t] \in {"row", "row_late"}
  /\ \/ /\ ~Dead(t) /\ ~RowGone /\ calm
        /\ incogni' = asked(t) /\ Goes(t, IF call[t] = "row" THEN "done" ELSE "look")
     \/ /\ UNCHANGED incogni /\ Goes(t, "done")
        /\ \/ (Dead(t) \/ RowGone) /\ calm
           \/ Gesture("storeerr")
  /\ UNCHANGED <<row, imported, session, disk, job, mu, held, hung, phase, faults>>

ToggleLooks(t) ==
  /\ call[t] = "look"
  /\ Goes(t, IF dir = "none" THEN "done" ELSE "render")
  /\ calm /\ UNCHANGED <<store, session, disk, job, mu, held, hung, phase, faults>>

\* A failure is logged only, of the pin by a dead context too.
ToggleRenders(t) ==
  /\ call[t] = "render" /\ Goes(t, "done")
  /\ InstallGuard(asked(t)) \/ InstallFails(asked(t))
  /\ UNCHANGED <<store, session, job, mu, held, hung, phase, faults>>

CallStep(c) ==
  /\ Serving
  /\ \/ c = "add" /\ AddSpawn
     \/ /\ c \in Deletes
        /\ \/ DeleteReadsJobs(c) \/ DeleteCancels(c) \/ DeleteAwaits(c)
           \/ DeleteCountsLive(c) \/ DeleteTakesRow(c) \/ DeleteTakesDir(c)
     \/ c \in Retries /\ (RetryClears(c) \/ RetryMarks(c) \/ RetrySpawns(c))
     \/ /\ c \in Toggles
        /\ ToggleGuards(c) \/ ToggleWritesRow(c) \/ ToggleLooks(c) \/ ToggleRenders(c)

CallBegins ==
  \/ AddCreate
  \/ \E d \in Deletes : DeleteBegins(d)
  \/ \E r \in Retries : RetryBegins(r)
  \/ \E t \in Toggles : ToggleBegins(t)

(***************************************************************************)
(* The rest of the world, and the process.                                 *)
(***************************************************************************)
HangsUp ==
  \E c \in Calls :
    /\ InFlight(c) /\ Gesture("hangup") /\ hung' = hung \cup {c}
    /\ UNCHANGED <<store, session, disk, job, mu, call, held, phase, faults>>

Imports ==
  /\ phase = "up" /\ Exists
  /\ \/ ~imported /\ Gesture("import") /\ imported' = TRUE
     \/ imported /\ calm /\ imported' = FALSE
  /\ UNCHANGED <<row, incogni, session, disk, job, mu, call, held, hung, phase, faults>>

Sessions ==
  /\ \/ phase = "up" /\ row = "ready" /\ ~session /\ Gesture("session") /\ session' = TRUE
     \/ session /\ calm /\ session' = FALSE
  /\ UNCHANGED <<store, disk, job, mu, call, held, hung, phase, faults>>

\* Close cancels the job it finds and waits for it, behind the servers' shutdown.
Close ==
  /\ phase = "up" /\ Gesture("close")
  /\ phase' = "closing"
  /\ IF job.pc = "none" THEN UNCHANGED <<job, held>>
     ELSE job' = [job EXCEPT !.cancelled = TRUE] /\ held' = held \cup {"close"}
  /\ UNCHANGED <<store, session, disk, mu, call, hung, faults>>

\* Threads end with the process.  A clone under way leaves what it has, or git,
\* which finds its pipe closed, cleans up.
Down ==
  /\ phase' = "down"
  /\ job' = NoJob /\ mu' = Nobody /\ held' = {} /\ hung' = {}
  /\ call' = [c \in Calls |-> IF call[c] = "idle" THEN "idle" ELSE "done"]
  /\ \/ UNCHANGED disk
     \/ job.pc = "git" /\ Cleared
  /\ UNCHANGED <<store, session, faults>>

Stops == phase = "closing" /\ "close" \notin held /\ calm /\ Down
Crash == phase # "down" /\ Gesture("crash") /\ Down

\* StartupHeal, before lab serves: an interrupted clone is probed, and what
\* answers `git rev-parse --git-dir` is ready.
HealClones ==
  /\ phase = "down" /\ phase' = "healed"
  /\ \/ row = "cloning" /\ dir \in {"partial", "whole"} /\ row' = "ready"
     \/ row = "cloning" /\ dir \in {"partial", "hollow", "none"} /\ row' = "error"
     \/ row # "cloning" /\ UNCHANGED row
  /\ calm /\ UNCHANGED <<incogni, imported, session, disk, job, mu, call, held, hung, faults>>

\* reconcileGuardHooks: a failure is logged only.
HealGuards ==
  /\ phase = "healed" /\ phase' = "up"
  /\ \/ row # "ready" /\ UNCHANGED disk /\ calm
     \/ row = "ready" /\ InstallGuard(incogni)
     \/ /\ row = "ready" /\ Gesture("hookerr")
        /\ UNCHANGED disk \/ GuardWritten(incogni)
  /\ overlapped' = FALSE /\ unhealed' = (row = "ready" /\ hook' # Guard(incogni))
  /\ UNCHANGED <<store, session, job, mu, call, held, hung>>

WorldNext == HangsUp \/ Imports \/ Sessions \/ Close \/ Stops \/ Crash \/ HealClones \/ HealGuards

Next == JobNext \/ CallBegins \/ (\E c \in Calls : CallStep(c)) \/ WorldNext

\* Threads run on; a clone has no timeout, so git ends for certain only when it is
\* killed.
Fairness ==
  /\ WF_vars(Serving /\ JobRuns)
  /\ WF_vars(Serving /\ job.cancelled /\ (GitDone \/ GitFails))
  /\ \A c \in Calls : WF_vars(CallStep(c))

Spec == Init /\ [][Next]_vars /\ Fairness

(***************************************************************************)
(* Properties.                                                             *)
(***************************************************************************)
Types ==
  /\ row \in {"none", "cloning", "ready", "error", "gone"}
  /\ {incogni, imported, session, overlapped, unhealed} \subseteq BOOLEAN
  /\ dir \in {"none", "hollow", "partial", "whole"}
  /\ hook \in {"none", "plain", "patterned"} /\ (dir = "none" => hook = "none")
  /\ job.pc \in {"none", "start", "git", "branch", "reread", "hook", "ready", "failed", "mark", "end"}
  /\ mu \in Retries \cup {Nobody} /\ (mu # Nobody => call[mu] \in {"clear", "mark", "spawn"})
  /\ held \subseteq Calls \cup {"close"} /\ (held # {} => job.pc # "none")

\* A repository becomes ready with its guard installed, whatever Deletes, Retries,
\* toggles and clones did before ("no repo reaches ready unguarded", clone), and a
\* guard that is there stays while the repository is ready.  Startup is exempt: it
\* logs an install that fails.
ReadyGuarded ==
  [][Serving /\ row' = "ready" /\ (row # "ready" \/ hook # "none") => hook' # "none"]_vars

\* At rest a ready incogni repository has the incogni patterns in its guard, after
\* failed installs and writes, clients that hang up, retries and crashes
\* ("a failed install never leaves an incogni row without its patterned guard",
\* UpdateSettings).  Two cases are exempt until the next start.  A toggle that
\* overlaps another one, or a clone that has read the flag: IncogniKept says what
\* the code fails there.  And a start that finds the guard out of step with the row,
\* after a crash between the two or a clone that it heals, and cannot install it:
\* reconcileGuardHooks only logs that, and lab serves the repository as it is.
AtRest == phase = "up" /\ job.pc = "none" /\ \A c \in Calls : ~InFlight(c)
Exposed == row = "ready" /\ incogni /\ hook # "patterned"
IncogniGuarded == Types /\ (AtRest /\ ~overlapped /\ ~unhealed => ~Exposed)

\* "Whichever writer acted second still lands the guard": not so.  A clone that has
\* read the flag before the toggle's write renders the guard after the toggle's.
IncogniKept == AtRest => ~Exposed

\* The directory a git process is cloning into is not taken from it, by a second
\* Retry above all, while the row is there.  A Delete that found no job, or whose
\* job ended and was retried, does take it: its row has gone first.
CloneUndisturbed ==
  [][job.pc = "git" /\ dir = "partial" /\ dir' = "none"
       => row = "gone" \/ job'.pc = "failed" \/ phase' = "down"]_vars

\* Every call returns: a forced Delete gets past the job it waits for, although a
\* clone has no timeout, and nobody waits for mu for ever.
CallEnds == \A c \in Calls : InFlight(c) ~> ~InFlight(c)

\* A row says cloning only while somebody is on it: aborting a Delete after the kill
\* "would strand the repo in clone_status 'cloning' with no job" (Delete).
OnIt == \/ job.pc # "none" \/ call["force"] \in {"await", "live", "row"}
        \/ \E c \in {"add"} \cup Retries : call[c] = "spawn"
NoStrand == phase = "up" /\ row = "cloning" => OnIt
=============================================================================
