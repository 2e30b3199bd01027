------------------------- MODULE RepositoriesProofs -------------------------
(***************************************************************************)
(* For every set of scenarios, a repository becomes ready with its guard   *)
(* installed and keeps it, and a clone under way keeps its directory while *)
(* the row is there.  Both rest on who may be at work together: a Retry    *)
(* past its check excludes a job, because it holds mu until it registers   *)
(* one, and a job at work means that the row says cloning or is gone.      *)
(***************************************************************************)
EXTENDS Repositories, TLAPS

JobPcs == {"none", "start", "git", "branch", "reread", "hook", "ready", "failed", "mark", "end"}
CallPcs == {"idle", "done", "spawn", "jobs", "cancel", "await", "live", "row", "dir",
            "clear", "mark", "guard", "row_late", "look", "render"}

Typed ==
  /\ row \in {"none", "cloning", "ready", "error", "gone"}
  /\ incogni \in BOOLEAN
  /\ hook \in {"none", "plain", "patterned"}
  /\ job \in [pc : JobPcs, cancelled : BOOLEAN, flag : BOOLEAN]
  /\ call \in [Calls -> CallPcs]
  /\ mu \in Retries \cup {Nobody}
  /\ phase \in {"up", "closing", "down", "healed"}

\* A Retry past its check holds mu, and there is no job then.
Locked ==
  /\ \A r \in Retries : call[r] \in {"clear", "mark", "spawn"} => mu = r
  /\ mu # Nobody => job.pc = "none"

\* Nothing happens before the create, and no job or Retry before Add's own job.
Adding ==
  /\ call["add"] = "idle" => row = "none"
  /\ row = "none" =>
       job.pc = "none" /\ mu = Nobody /\ \A c \in Calls : call[c] \in {"idle", "done"}
  /\ call["add"] = "spawn" => job.pc = "none" /\ mu = Nobody /\ row \in {"cloning", "gone"}

\* A job at work is on a row that says cloning, or is gone.
Cloning == job.pc \notin {"none", "end"} => row \in {"cloning", "gone"}

\* A Retry clears the directory of a failed clone only.
Retrying ==
  \A r \in Retries :
    /\ call[r] \in {"clear", "mark"} => row \in {"error", "gone"}
    /\ call[r] = "spawn" => row \in {"cloning", "gone"}

\* A Delete takes the row before the directory.
Deleting == \A d \in Deletes : call[d] = "dir" => row = "gone"

\* The guard is there before the status is written.
Guarded == job.pc = "ready" => row = "gone" \/ hook # "none"

\* Nobody is at work while the process is down or heals.
Rested ==
  phase \in {"down", "healed"} =>
    job.pc = "none" /\ mu = Nobody /\ \A c \in Calls : call[c] \in {"idle", "done"}

IInv == Typed /\ Locked /\ Adding /\ Cloning /\ Retrying /\ Deleting /\ Guarded /\ Rested

\* The states of the calls and of the job that a step reads or writes.
USE DEF Deletes, Retries, Toggles, Calls, JobPcs, CallPcs

LEMMA InitKeeps == Init => IInv
  BY DEF Init, IInv, Typed, Locked, Adding, Cloning, Retrying, Deleting, Guarded, Rested, NoJob

LEMMA NobodyElse == Nobody \notin Calls
  BY NobodyAssumption

\* The job: its own status, and the guard before the last one.
LEMMA JobKeeps ==
  ASSUME IInv, JobNext
  PROVE  IInv'
<1> USE DEF IInv, Typed, Locked, Adding, Cloning, Retrying, Deleting, Guarded, Rested,
            JobGoes, JobOnly, RowGone, Cleared, store, disk, faults, calm
<1>0. Serving BY DEF JobNext
<1>1. CASE JobStarts BY <1>0, <1>1, NobodyElse DEF JobStarts, Serving
<1>2. CASE JobStoreFails BY <1>0, <1>2, NobodyElse DEF JobStoreFails, Serving
<1>3. CASE JobNotFound BY <1>0, <1>3, NobodyElse DEF JobNotFound, Serving
<1>4. CASE JobBranch BY <1>0, <1>4, NobodyElse DEF JobBranch, Serving
<1>5. CASE JobReread BY <1>0, <1>5, NobodyElse DEF JobReread, Serving
<1>6. CASE JobHook
  BY <1>0, <1>6, NobodyElse DEF JobHook, InstallGuard, InstallFails, GuardWritten, Guard, Serving
<1>7. CASE JobReady BY <1>0, <1>7, NobodyElse DEF JobReady, Serving
<1>8. CASE JobFailed \/ JobMarksError
  BY <1>0, <1>8, NobodyElse DEF JobFailed, JobMarksError, Serving
<1>9. CASE JobEnds BY <1>0, <1>9, NobodyElse DEF JobEnds, NoJob, Serving
<1>10. CASE GitDone BY <1>0, <1>10, NobodyElse DEF GitDone, Serving
<1>11. CASE GitFails BY <1>0, <1>11, NobodyElse DEF GitFails, Serving
<1> QED BY <1>1, <1>2, <1>3, <1>4, <1>5, <1>6, <1>7, <1>8, <1>9, <1>10, <1>11
        DEF JobNext, JobRuns
\* The calls that begin.
LEMMA CallBeginsKeeps ==
  ASSUME IInv, CallBegins
  PROVE  IInv'
<1> USE DEF IInv, Typed, Locked, Adding, Cloning, Retrying, Deleting, Guarded, Rested,
            Goes, RowGone, Cleared, store, disk, faults, calm, Serving, Begins, Exists
<1>1. CASE AddCreate BY <1>1, NobodyElse DEF AddCreate
<1>2. ASSUME NEW d \in Deletes, DeleteBegins(d) PROVE IInv'
  BY <1>2, NobodyElse DEF DeleteBegins
<1>3. ASSUME NEW r \in Retries, RetryBegins(r) PROVE IInv'
  BY <1>3, NobodyElse DEF RetryBegins
<1>4. ASSUME NEW t \in Toggles, ToggleBegins(t) PROVE IInv'
  BY <1>4, NobodyElse DEF ToggleBegins
<1> QED BY <1>1, <1>2, <1>3, <1>4 DEF CallBegins

\* The calls that are under way.
LEMMA CallStepKeeps ==
  ASSUME IInv, NEW c \in Calls, CallStep(c)
  PROVE  IInv'
<1> USE DEF IInv, Typed, Locked, Adding, Cloning, Retrying, Deleting, Guarded, Rested,
            Goes, RowGone, Cleared, store, disk, faults, calm, Serving
<1>0. Serving BY DEF CallStep
<1>1. CASE c = "add" /\ AddSpawn
  BY <1>0, <1>1, NobodyElse DEF AddSpawn, startCloneJob, newJob, NoJob
<1>2. ASSUME c \in Deletes
      PROVE  /\ DeleteReadsJobs(c) => IInv'
             /\ DeleteCancels(c) => IInv'
             /\ DeleteAwaits(c) => IInv'
             /\ DeleteCountsLive(c) => IInv'
             /\ DeleteTakesRow(c) => IInv'
             /\ DeleteTakesDir(c) => IInv'
  <2>1. DeleteReadsJobs(c) => IInv' BY <1>0, <1>2, NobodyElse DEF DeleteReadsJobs
  <2>2. ASSUME DeleteCancels(c) PROVE IInv'
    <3>1. job' \in [pc : JobPcs, cancelled : BOOLEAN, flag : BOOLEAN] /\ job'.pc = job.pc
      BY <2>2 DEF DeleteCancels
    <3> QED BY <1>0, <1>2, <2>2, <3>1, NobodyElse DEF DeleteCancels
  <2>3. DeleteAwaits(c) => IInv' BY <1>0, <1>2, NobodyElse DEF DeleteAwaits
  <2>4. DeleteCountsLive(c) => IInv' BY <1>0, <1>2, NobodyElse DEF DeleteCountsLive
  <2>5. DeleteTakesRow(c) => IInv' BY <1>0, <1>2, NobodyElse DEF DeleteTakesRow
  <2>6. DeleteTakesDir(c) => IInv' BY <1>0, <1>2, NobodyElse DEF DeleteTakesDir
  <2> QED BY <2>1, <2>2, <2>3, <2>4, <2>5, <2>6
<1>3. ASSUME c \in Retries
      PROVE  /\ RetryClears(c) => IInv'
             /\ RetryMarks(c) => IInv'
             /\ RetrySpawns(c) => IInv'
  <2>1. RetryClears(c) => IInv' BY <1>0, <1>3, NobodyElse DEF RetryClears
  <2>2. RetryMarks(c) => IInv' BY <1>0, <1>3, NobodyElse DEF RetryMarks
  <2>3. ASSUME RetrySpawns(c) PROVE IInv'
    <3>1. mu = c /\ job.pc = "none" BY <1>3, <2>3, NobodyElse DEF RetrySpawns
    <3>2. job' = [pc |-> "start", cancelled |-> FALSE, flag |-> FALSE]
      BY <2>3, <3>1 DEF RetrySpawns, startCloneJob, newJob, NoJob
    <3> QED BY <1>0, <1>3, <2>3, <3>1, <3>2, NobodyElse DEF RetrySpawns
  <2> QED BY <2>1, <2>2, <2>3
<1>4. ASSUME c \in Toggles
      PROVE  /\ ToggleGuards(c) => IInv'
             /\ ToggleWritesRow(c) => IInv'
             /\ ToggleLooks(c) => IInv'
             /\ ToggleRenders(c) => IInv'
  <2> USE DEF InstallGuard, InstallFails, GuardWritten, Guard, asked
  <2>1. ToggleGuards(c) => IInv' BY <1>0, <1>4, NobodyElse DEF ToggleGuards
  <2>2. ToggleWritesRow(c) => IInv' BY <1>0, <1>4, NobodyElse DEF ToggleWritesRow
  <2>3. ToggleLooks(c) => IInv' BY <1>0, <1>4, NobodyElse DEF ToggleLooks
  <2>4. ToggleRenders(c) => IInv' BY <1>0, <1>4, NobodyElse DEF ToggleRenders
  <2> QED BY <2>1, <2>2, <2>3, <2>4
<1> QED
  <2> HIDE DEF IInv
  <2> QED BY <1>1, <1>2, <1>3, <1>4 DEF CallStep

\* The world: only startup writes the row, and nobody is at work then.
LEMMA WorldKeeps ==
  ASSUME IInv, WorldNext
  PROVE  IInv'
<1> USE DEF IInv, Typed, Locked, Adding, Cloning, Retrying, Deleting, Guarded, Rested,
            Goes, RowGone, Cleared, store, disk, faults, calm, Serving, Exists
<1>1. CASE HangsUp BY <1>1 DEF HangsUp
<1>2. CASE Imports BY <1>2 DEF Imports
<1>3. CASE Sessions BY <1>3 DEF Sessions
<1>4. CASE Close
  <2>1. job' \in [pc : JobPcs, cancelled : BOOLEAN, flag : BOOLEAN] /\ job'.pc = job.pc
    BY <1>4 DEF Close
  <2> QED BY <1>4, <2>1, NobodyElse DEF Close
<1>5. CASE Down BY <1>5, NobodyElse DEF Down, NoJob
<1>6. CASE HealClones BY <1>6, NobodyElse DEF HealClones
<1>7. CASE HealGuards
  BY <1>7, NobodyElse DEF HealGuards, InstallGuard, GuardWritten, Guard
<1> QED BY <1>1, <1>2, <1>3, <1>4, <1>5, <1>6, <1>7 DEF WorldNext, Stops, Crash

LEMMA StutterKeeps ==
  ASSUME IInv, UNCHANGED vars
  PROVE  IInv'
  BY DEF IInv, Typed, Locked, Adding, Cloning, Retrying, Deleting, Guarded, Rested,
         vars, store, disk, faults

\* Who may be at work together, in every reachable state.
THEOREM RepositoriesInvariant == Spec => []IInv
<1>1. Init => IInv BY InitKeeps
<1>2. IInv /\ [Next]_vars => IInv'
  BY JobKeeps, CallBeginsKeeps, CallStepKeeps, WorldKeeps, StutterKeeps DEF Next
<1> QED BY <1>1, <1>2, PTL DEF Spec

\* What every step keeps, as ReadyGuarded and CloneUndisturbed say it of one step.
StaysGuarded ==
  Serving /\ row' = "ready" /\ (row # "ready" \/ hook # "none") => hook' # "none"
StaysOnDisk ==
  job.pc = "git" /\ dir = "partial" /\ dir' = "none"
    => row = "gone" \/ job'.pc = "failed" \/ phase' = "down"

\* Only JobReady makes a row ready, and its guard is there; a job takes the
\* directory away at its beginning and when git fails, on a row that says cloning.
LEMMA JobGuards ==
  ASSUME IInv, JobNext
  PROVE  StaysGuarded /\ StaysOnDisk
<1> USE DEF IInv, Typed, Cloning, Guarded, StaysGuarded, StaysOnDisk,
            JobGoes, JobOnly, RowGone, Cleared, store, disk, faults, calm
<1>1. CASE JobStarts BY <1>1 DEF JobStarts
<1>2. CASE JobStoreFails BY <1>2 DEF JobStoreFails
<1>3. CASE JobNotFound BY <1>3 DEF JobNotFound
<1>4. CASE JobBranch BY <1>4 DEF JobBranch
<1>5. CASE JobReread BY <1>5 DEF JobReread
<1>6. CASE JobHook BY <1>6 DEF JobHook, InstallGuard, InstallFails, GuardWritten, Guard
<1>7. CASE JobReady BY <1>7 DEF JobReady
<1>8. CASE JobFailed \/ JobMarksError BY <1>8 DEF JobFailed, JobMarksError
<1>9. CASE JobEnds BY <1>9 DEF JobEnds
<1>10. CASE GitDone BY <1>10 DEF GitDone
<1>11. CASE GitFails BY <1>11 DEF GitFails
<1> QED BY <1>1, <1>2, <1>3, <1>4, <1>5, <1>6, <1>7, <1>8, <1>9, <1>10, <1>11
        DEF JobNext, JobRuns

\* A call takes the directory in two places: a Delete whose row is gone, and a
\* Retry, which holds mu and has found the row failed.
LEMMA CallGuards ==
  ASSUME IInv, CallBegins \/ \E c \in Calls : CallStep(c)
  PROVE  StaysGuarded /\ StaysOnDisk
<1> USE DEF IInv, Typed, StaysGuarded, StaysOnDisk, RowGone, Cleared, store, disk, faults, calm
<1>1. CASE CallBegins
  BY <1>1 DEF CallBegins, AddCreate, DeleteBegins, RetryBegins, ToggleBegins
<1>2. ASSUME NEW c \in Calls, CallStep(c)
      PROVE  StaysGuarded /\ StaysOnDisk
  <2>1. CASE AddSpawn BY <2>1 DEF AddSpawn
  <2>2. ASSUME c \in Deletes, \/ DeleteReadsJobs(c) \/ DeleteCancels(c) \/ DeleteAwaits(c)
                              \/ DeleteCountsLive(c) \/ DeleteTakesRow(c)
        PROVE  StaysGuarded /\ StaysOnDisk
    BY <2>2 DEF DeleteReadsJobs, DeleteCancels, DeleteAwaits, DeleteCountsLive, DeleteTakesRow
  <2>3. CASE c \in Deletes /\ DeleteTakesDir(c) BY <2>3 DEF DeleteTakesDir, Deleting
  <2>4. CASE c \in Retries /\ RetryClears(c)
    <3>1. job.pc = "none" BY <2>4, NobodyElse DEF RetryClears, Locked
    <3>2. row \in {"error", "gone"} BY <2>4 DEF RetryClears, Retrying
    <3> QED BY <2>4, <3>1, <3>2 DEF RetryClears
  <2>5. CASE c \in Retries /\ (RetryMarks(c) \/ RetrySpawns(c))
    BY <2>5 DEF RetryMarks, RetrySpawns
  <2>6. CASE c \in Toggles /\ (ToggleGuards(c) \/ ToggleRenders(c))
    BY <2>6 DEF ToggleGuards, ToggleRenders, InstallGuard, InstallFails, GuardWritten, Guard
  <2>7. CASE c \in Toggles /\ (ToggleWritesRow(c) \/ ToggleLooks(c))
    BY <2>7 DEF ToggleWritesRow, ToggleLooks
  <2> HIDE DEF IInv, StaysGuarded, StaysOnDisk
  <2> QED BY <1>2, <2>1, <2>2, <2>3, <2>4, <2>5, <2>6, <2>7 DEF CallStep
<1> HIDE DEF IInv, StaysGuarded, StaysOnDisk
<1> QED BY <1>1, <1>2

\* The world touches the disk at startup and at the end of a process only.
LEMMA WorldGuards ==
  ASSUME IInv, WorldNext \/ UNCHANGED vars
  PROVE  StaysGuarded /\ StaysOnDisk
<1> USE DEF IInv, Typed, Cloning, Rested, StaysGuarded, StaysOnDisk, Serving, Cleared, store, disk, faults
<1>1. CASE HangsUp \/ Imports \/ Sessions \/ Close
  BY <1>1 DEF HangsUp, Imports, Sessions, Close
<1>2. CASE Down BY <1>2 DEF Down
<1>3. CASE HealClones BY <1>3 DEF HealClones
<1>4. CASE HealGuards BY <1>4 DEF HealGuards, InstallGuard, GuardWritten, Guard
<1>5. CASE UNCHANGED vars BY <1>5 DEF vars
<1> QED BY <1>1, <1>2, <1>3, <1>4, <1>5 DEF WorldNext, Stops, Crash

LEMMA StepGuards == IInv /\ [Next]_vars => StaysGuarded /\ StaysOnDisk
  BY JobGuards, CallGuards, WorldGuards DEF Next

\* A repository becomes ready with its guard installed and keeps it ("no repo
\* reaches ready unguarded", clone), startup excepted.
THEOREM ReadyGuardedCorrect == Spec => ReadyGuarded
<1>1. IInv /\ [Next]_vars => [StaysGuarded]_vars BY StepGuards
<1>2. Spec => [][StaysGuarded]_vars BY RepositoriesInvariant, <1>1, PTL DEF Spec
<1> QED BY <1>2, PTL DEF ReadyGuarded, StaysGuarded

\* The directory of a clone under way is not taken from it while its row is there
\* (Retry, DeleteRepo), except by the clone itself or the end of the process.
THEOREM CloneUndisturbedCorrect == Spec => CloneUndisturbed
<1>1. IInv /\ [Next]_vars => [StaysOnDisk]_vars BY StepGuards
<1>2. Spec => [][StaysOnDisk]_vars BY RepositoriesInvariant, <1>1, PTL DEF Spec
<1> QED BY <1>2, PTL DEF CloneUndisturbed, StaysOnDisk

(***************************************************************************)
(* Incogni.  Toggles that do not overlap, neither with each other nor with *)
(* a clone that has read the flag, leave a guard that fits the row.        *)
(***************************************************************************)
\* The rest of the types.
Shaped ==
  /\ imported \in BOOLEAN /\ session \in BOOLEAN /\ overlapped \in BOOLEAN /\ unhealed \in BOOLEAN
  /\ dir \in {"none", "hollow", "partial", "whole"} /\ (dir = "none" => hook = "none")
  /\ mu # Nobody => call[mu] \in {"clear", "mark", "spawn"}
  /\ held \subseteq Calls \cup {"close"} /\ (held # {} => job.pc # "none")

\* A repository that is ready, or about to be, has its directory.
Almost == row # "gone" /\ (row = "ready" \/ job.pc = "ready")
OnDisk == Almost => dir # "none"

\* Two toggles under way overlap; so does one under way with a clone past its reading.
Apart ==
  /\ (InFlight("on") /\ InFlight("off")) => overlapped
  /\ job.pc = "hook" => overlapped \/ (job.flag = incogni /\ ~InFlight("on") /\ ~InFlight("off"))

\* Where each toggle is.  On comes after the row only where there was no clone yet.
Toggling ==
  /\ call["on"] \in {"idle", "done", "guard", "row", "row_late", "look", "render"}
  /\ call["off"] \in {"idle", "done", "row_late", "look", "render"}
  /\ ~overlapped =>
       /\ call["on"] = "row" /\ Almost => hook = "patterned"
       /\ call["on"] \in {"row_late", "look", "render"} => ~Almost
       /\ call["off"] \in {"look", "render"} => ~incogni

\* While lab serves, the guard fits the row.
Fits == Serving /\ Almost /\ ~overlapped /\ ~unhealed /\ incogni => hook = "patterned"

Incogni == Shaped /\ OnDisk /\ Apart /\ Toggling /\ Fits

LEMMA InitIncogni == Init => Incogni
<1> SUFFICES ASSUME Init PROVE Incogni OBVIOUS
<1>1. /\ \A c \in Calls : call[c] = "idle"
      /\ job.pc = "none" /\ row = "none" /\ mu = Nobody /\ held = {}
      /\ imported = FALSE /\ session = FALSE /\ overlapped = FALSE /\ unhealed = FALSE
      /\ dir = "none" /\ hook = "none"
  BY DEF Init, NoJob
<1>2. Shaped BY <1>1 DEF Shaped
<1>3. OnDisk /\ Apart BY <1>1 DEF OnDisk, Almost, Apart, InFlight
<1>4. Toggling BY <1>1 DEF Toggling, Almost
<1>5. Fits BY <1>1 DEF Fits, Almost
<1> QED BY <1>2, <1>3, <1>4, <1>5 DEF Incogni

LEMMA JobIncogni ==
  ASSUME IInv, Incogni, JobNext
  PROVE  Incogni'
<1> USE DEF IInv, Typed, Locked, Cloning, Rested, Incogni, Shaped, OnDisk, Apart, Toggling, Fits, Almost,
            InFlight, Serving, JobGoes, JobOnly, RowGone, Cleared, store, disk, faults, calm
<1>0. Serving BY DEF JobNext
<1>1. CASE JobStarts BY <1>0, <1>1, NobodyElse DEF JobStarts
<1>2. CASE JobStoreFails BY <1>0, <1>2, NobodyElse DEF JobStoreFails
<1>3. CASE JobNotFound BY <1>0, <1>3, NobodyElse DEF JobNotFound
<1>4. CASE JobBranch BY <1>0, <1>4, NobodyElse DEF JobBranch
<1>5. CASE JobReread
  <2>1. /\ job.pc = "reread" /\ job' = [job EXCEPT !.pc = "hook", !.flag = incogni]
        /\ UNCHANGED <<row, disk, session, imported, incogni, mu, call, held, phase>>
    BY <1>5 DEF JobReread
  <2>2. job'.pc = "hook" /\ job'.flag = incogni BY <2>1
  <2>3. overlapped' \in BOOLEAN /\ (overlapped => overlapped') /\ UNCHANGED unhealed
    BY <1>5 DEF JobReread
  <2>4. InFlight("on") \/ InFlight("off") => overlapped' BY <1>5 DEF JobReread
  <2>5. Shaped' BY <2>1, <2>2, <2>3
  <2>6. OnDisk' /\ Fits' BY <2>1, <2>2, <2>3
  <2>7. Apart' BY <2>1, <2>2, <2>3, <2>4
  <2>8. Toggling' BY <2>1, <2>2, <2>3, <2>4
  <2> QED BY <2>5, <2>6, <2>7, <2>8
<1>6. CASE JobHook
  BY <1>0, <1>6, NobodyElse DEF JobHook, InstallGuard, InstallFails, GuardWritten, Guard
<1>7. CASE JobReady BY <1>0, <1>7, NobodyElse DEF JobReady
<1>8. CASE JobFailed \/ JobMarksError BY <1>0, <1>8, NobodyElse DEF JobFailed, JobMarksError
<1>9. CASE JobEnds BY <1>0, <1>9, NobodyElse DEF JobEnds, NoJob
<1>10. CASE GitDone BY <1>0, <1>10, NobodyElse DEF GitDone
<1>11. CASE GitFails BY <1>0, <1>11, NobodyElse DEF GitFails
<1> QED BY <1>1, <1>2, <1>3, <1>4, <1>5, <1>6, <1>7, <1>8, <1>9, <1>10, <1>11
        DEF JobNext, JobRuns

LEMMA BeginsIncogni ==
  ASSUME IInv, Incogni, CallBegins
  PROVE  Incogni'
<1> USE DEF IInv, Typed, Locked, Adding, Cloning, Rested, Incogni, Shaped, OnDisk, Apart, Toggling, Fits,
            Almost, InFlight, Serving, Goes, Begins, Exists, store, disk, faults, calm
<1>1. CASE AddCreate BY <1>1, NobodyElse DEF AddCreate
<1>2. ASSUME NEW d \in Deletes, DeleteBegins(d) PROVE Incogni'
  BY <1>2, NobodyElse DEF DeleteBegins
<1>3. ASSUME NEW r \in Retries, RetryBegins(r) PROVE Incogni'
  BY <1>3, NobodyElse DEF RetryBegins
<1>4. ASSUME NEW t \in Toggles, ToggleBegins(t) PROVE Incogni'
  BY <1>4, NobodyElse DEF ToggleBegins
<1> QED BY <1>1, <1>2, <1>3, <1>4 DEF CallBegins

LEMMA StepIncogni ==
  ASSUME IInv, Incogni, NEW c \in Calls, CallStep(c)
  PROVE  Incogni'
<1> USE DEF IInv, Typed, Locked, Adding, Cloning, Retrying, Deleting, Rested,
            Incogni, Shaped, OnDisk, Apart, Toggling, Fits, Almost,
            InFlight, Serving, Goes, RowGone, Cleared, store, disk, faults, calm
<1>0. Serving BY DEF CallStep
<1>1. CASE c = "add" /\ AddSpawn
  BY <1>0, <1>1, NobodyElse DEF AddSpawn, startCloneJob, newJob, NoJob
<1>2. ASSUME c \in Deletes
      PROVE  /\ DeleteReadsJobs(c) => Incogni'
             /\ DeleteCancels(c) => Incogni'
             /\ DeleteAwaits(c) => Incogni'
             /\ DeleteCountsLive(c) => Incogni'
             /\ DeleteTakesRow(c) => Incogni'
             /\ DeleteTakesDir(c) => Incogni'
  <2>1. ASSUME DeleteReadsJobs(c) PROVE Incogni'
    <3>1. /\ UNCHANGED <<row, incogni, imported, session, dir, hook, job, mu, phase, faults>>
          /\ call' = [call EXCEPT ![c] = call'[c]] /\ call[c] = "jobs"
          /\ call'[c] \in {"live", "done", "cancel"}
          /\ held' = held \/ (job.pc # "none" /\ held' = held \cup {c})
      BY <1>2, <2>1 DEF DeleteReadsJobs
    <3>2. Shaped'
      <4>1. held' \subseteq Calls \cup {"close"} /\ (held' # {} => job'.pc # "none") BY <3>1
      <4>2. mu # Nobody => mu # c BY <1>2, NobodyElse
      <4>3. mu # Nobody => call'[mu] = call[mu] BY <3>1, <4>2
      <4> QED BY <3>1, <4>1, <4>3
    <3>3. (OnDisk /\ Apart /\ Toggling /\ Fits)' BY <1>2, <3>1
    <3> QED BY <3>2, <3>3
  <2>2. ASSUME DeleteCancels(c) PROVE Incogni'
    <3>1. job'.pc = job.pc /\ job'.flag = job.flag BY <2>2 DEF DeleteCancels
    <3> QED BY <1>0, <1>2, <2>2, <3>1, NobodyElse DEF DeleteCancels
  <2>3. DeleteAwaits(c) => Incogni' BY <1>0, <1>2, NobodyElse DEF DeleteAwaits
  <2>4. DeleteCountsLive(c) => Incogni' BY <1>0, <1>2, NobodyElse DEF DeleteCountsLive
  <2>5. DeleteTakesRow(c) => Incogni' BY <1>0, <1>2, NobodyElse DEF DeleteTakesRow
  <2>6. DeleteTakesDir(c) => Incogni' BY <1>0, <1>2, NobodyElse DEF DeleteTakesDir
  <2> QED BY <2>1, <2>2, <2>3, <2>4, <2>5, <2>6
<1>3. ASSUME c \in Retries
      PROVE  /\ RetryClears(c) => Incogni'
             /\ RetryMarks(c) => Incogni'
             /\ RetrySpawns(c) => Incogni'
  <2>1. RetryClears(c) => Incogni' BY <1>0, <1>3, NobodyElse DEF RetryClears
  <2>2. RetryMarks(c) => Incogni' BY <1>0, <1>3, NobodyElse DEF RetryMarks
  <2>3. ASSUME RetrySpawns(c) PROVE Incogni'
    <3>1. mu = c /\ job.pc = "none" BY <1>3, <2>3, NobodyElse DEF RetrySpawns
    <3>2. job' = [pc |-> "start", cancelled |-> FALSE, flag |-> FALSE]
      BY <2>3, <3>1 DEF RetrySpawns, startCloneJob, newJob, NoJob
    <3> QED BY <1>0, <1>3, <2>3, <3>1, <3>2, NobodyElse DEF RetrySpawns
  <2> QED BY <2>1, <2>2, <2>3
<1>4. ASSUME c \in Toggles
      PROVE  /\ ToggleGuards(c) => Incogni'
             /\ ToggleWritesRow(c) => Incogni'
             /\ ToggleLooks(c) => Incogni'
             /\ ToggleRenders(c) => Incogni'
  <2> USE DEF InstallGuard, InstallFails, GuardWritten, Guard, asked
  <2>1. ToggleGuards(c) => Incogni' BY <1>0, <1>4, NobodyElse DEF ToggleGuards
  <2>2. ToggleWritesRow(c) => Incogni' BY <1>0, <1>4, NobodyElse DEF ToggleWritesRow
  <2>3. ToggleLooks(c) => Incogni' BY <1>0, <1>4, NobodyElse DEF ToggleLooks
  <2>4. ToggleRenders(c) => Incogni' BY <1>0, <1>4, NobodyElse DEF ToggleRenders
  <2> QED BY <2>1, <2>2, <2>3, <2>4
<1> QED
  <2> HIDE DEF Incogni
  <2> QED BY <1>1, <1>2, <1>3, <1>4 DEF CallStep

LEMMA WorldIncogni ==
  ASSUME IInv, Incogni, WorldNext
  PROVE  Incogni'
<1> USE DEF IInv, Typed, Cloning, Rested, Incogni, Shaped, OnDisk, Apart, Toggling, Fits, Almost, InFlight,
            Serving, Exists, Cleared, store, disk, faults, calm
<1>1. CASE HangsUp BY <1>1 DEF HangsUp
<1>2. CASE Imports
  <2>1. /\ imported' \in BOOLEAN
        /\ UNCHANGED <<row, incogni, session, disk, job, mu, call, held, phase, faults>>
    BY <1>2 DEF Imports
  <2> QED BY <2>1
<1>3. CASE Sessions
  <2>1. /\ session' \in BOOLEAN
        /\ UNCHANGED <<row, incogni, imported, disk, job, mu, call, held, phase, faults>>
    BY <1>3 DEF Sessions
  <2> QED BY <2>1
<1>4. CASE Close
  <2>1. job'.pc = job.pc /\ job'.flag = job.flag BY <1>4 DEF Close
  <2> QED BY <1>4, <2>1, NobodyElse DEF Close
<1>5. CASE Down BY <1>5, NobodyElse DEF Down, NoJob
<1>6. CASE HealClones BY <1>6, NobodyElse DEF HealClones
<1>7. CASE HealGuards
  <2>1. /\ phase = "healed" /\ phase' = "up"
        /\ UNCHANGED <<row, incogni, imported, session, job, mu, call, held>>
        /\ overlapped' = FALSE /\ unhealed' = (row = "ready" /\ hook' # Guard(incogni))
        /\ \/ UNCHANGED <<dir, hook>>
           \/ hook' = Guard(incogni) /\ dir' = IF dir = "none" THEN "hollow" ELSE dir
    BY <1>7 DEF HealGuards, InstallGuard, GuardWritten
  <2>2. job.pc = "none" /\ mu = Nobody /\ \A c \in Calls : ~InFlight(c) BY <2>1
  <2>3. Shaped' BY <2>1, <2>2 DEF Guard
  <2>4. OnDisk' BY <2>1, <2>2
  <2>5. Apart' /\ Toggling' BY <2>1, <2>2
  <2>6. Fits' BY <2>1, <2>2 DEF Guard
  <2> QED BY <2>3, <2>4, <2>5, <2>6
<1> QED BY <1>1, <1>2, <1>3, <1>4, <1>5, <1>6, <1>7 DEF WorldNext, Stops, Crash

\* At rest a ready incogni repository has the patterns in its guard, after failed
\* installs and writes, clients that hang up, crashes, retries and deletes in any
\* number, unless toggles and clones have overlapped since the last start, or that
\* start found the guard out of step and could not install it (reconcileGuardHooks).
THEOREM IncogniGuardedCorrect == Spec => []IncogniGuarded
<1>1. Init => IInv /\ Incogni BY InitKeeps, InitIncogni
<1>2. Incogni /\ UNCHANGED vars => Incogni'
  BY DEF Incogni, Shaped, OnDisk, Apart, Toggling, Fits, Almost, InFlight, Serving, vars, store, disk, faults
<1>3. IInv /\ Incogni /\ [Next]_vars => Incogni'
  BY <1>2, JobIncogni, BeginsIncogni, StepIncogni, WorldIncogni DEF Next
<1>4. IInv /\ Incogni => IncogniGuarded
  BY NobodyElse DEF IInv, Typed, Incogni, Shaped, Fits, Almost, IncogniGuarded, Types, AtRest, Exposed, Serving
<1> QED BY <1>1, <1>3, <1>4, RepositoriesInvariant, PTL DEF Spec
=============================================================================
