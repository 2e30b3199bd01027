--------------------------- MODULE ChangeRequests ---------------------------
(***************************************************************************)
(* ChangeRequests: the pull requests of a builtin tracker, from `labctl pr *)
(* create` to the merge (crmerge.Service) and the collection of the head.  *)
(*                                                                         *)
(* A merge pushes to origin first and records in the store after: between  *)
(* the two lab may crash, a fetch may fail, the operator may close, the    *)
(* sweep may collect the head and origin may move.  Everything is built so *)
(* that a retry converges.                                                 *)
(*                                                                         *)
(* A ref is the set of the commits it reaches; {} is a ref that is absent. *)
(***************************************************************************)
EXTENDS Integers, FiniteSets

CONSTANTS
  Heads,         \* managed branches, one session each
  CRs,           \* change requests
  Calls,         \* requests under way: HTTP handlers
  MaxCommits,    \* bound: commits per session
  Scenarios,     \* bound: sets of disturbances, each of which happens at most once
  None

AllTrouble == {"again", "crash", "fail", "outside", "discard", "resolve"}
ASSUME NoneAssumption == None \notin Calls
ASSUME BoundsAssumption == MaxCommits \in Nat \ {0} /\ Scenarios \subseteq SUBSET AllTrouble

VARIABLES
  origin,      \* the repository on the forge: base and heads
  clone,       \* lab's bare clone: the tracking ref of base, and the local heads
  session,     \* the session and run of each head
  made,        \* history: commits per session
  cr, issue,   \* the store: the change requests, and the issue each one closes
  lock,        \* keyedMutex: who holds the mutex of each change request
  call,        \* the requests
  sweep,       \* the sweep, or the startup pass
  trouble      \* disturbances so far

store == <<cr, issue>>
repos == <<origin, clone>>
runs == <<session, made>>
vars == <<origin, clone, session, made, cr, issue, lock, call, sweep, trouble>>

Fork == {<<"out", 0>>}
NoCR == [state |-> "none", head |-> None, commit |-> {}]
Idle == [pc |-> "idle", cr |-> None, head |-> None, sha |-> {}, new |-> {}]
Resting == [pc |-> "idle", todo |-> {}]

Init ==
  /\ origin = [base |-> Fork, heads |-> [h \in Heads |-> {}]]
  /\ clone = [base |-> Fork, heads |-> [h \in Heads |-> Fork]]
  /\ session = [h \in Heads |-> "live"] /\ made = [h \in Heads |-> 0]
  /\ cr = [c \in CRs |-> NoCR] /\ issue = [c \in CRs |-> "open"]
  /\ lock = [c \in CRs |-> None]
  /\ call = [q \in Calls |-> Idle] /\ sweep = Resting
  /\ trouble = {}

open(c) == cr[c].state = "open"
\* Mutant: the ancestor test, with its arguments swapped.
MergedSwapped(h) == clone.base \subseteq clone.heads[h]
Merged(h) == clone.heads[h] \subseteq clone.base           \* BranchMerged

happens(t) == /\ t \notin trouble /\ trouble' = trouble \cup {t}
              /\ \E s \in Scenarios : trouble' \subseteq s

goes(q, pc) == call' = [call EXCEPT ![q].pc = pc]
leaves(q) == call' = [call EXCEPT ![q] = Idle]
release(c) == lock' = [lock EXCEPT ![c] = None]
deleteLocal(h) == clone' = [clone EXCEPT !.heads[h] = {}]
\* A request of labctl is cancelled when its session dies; a merge is not.
cancelled(h) == [q \in Calls |-> IF call[q].pc = "insert" /\ call[q].head = h THEN Idle ELSE call[q]]

(***************************************************************************)
(* Sessions, and what happens on origin.                                   *)
(***************************************************************************)
Commit(h) ==
  /\ session[h] = "live" /\ made[h] < MaxCommits
  /\ made' = [made EXCEPT ![h] = @ + 1]
  /\ clone' = [clone EXCEPT !.heads[h] = @ \cup {<<h, made[h] + 1>>}]
  /\ UNCHANGED <<origin, session, store, lock, call, sweep, trouble>>

PushHead(h) ==
  /\ session[h] = "live" /\ origin.heads[h] \subseteq clone.heads[h]
  /\ origin' = [origin EXCEPT !.heads[h] = clone.heads[h]]
  /\ UNCHANGED <<clone, runs, store, lock, call, sweep, trouble>>

\* A lander resolves a conflict on a detached HEAD and pushes it to the head.
LanderResolves(h) ==
  /\ origin.heads[h] # {} /\ happens("resolve")
  /\ origin' = [origin EXCEPT !.heads[h] = @ \cup origin.base \cup {<<h, 0>>}]
  /\ UNCHANGED <<clone, runs, store, lock, call, sweep>>

OutsidePush ==
  /\ happens("outside")
  /\ origin' = [origin EXCEPT !.base = @ \cup {<<"out", 1>>}]
  /\ UNCHANGED <<clone, runs, store, lock, call, sweep>>

SessionExits(h) ==
  /\ session[h] = "live" /\ session' = [session EXCEPT ![h] = "dead"]
  /\ call' = cancelled(h)
  /\ UNCHANGED <<repos, made, store, lock, sweep, trouble>>

\* Stop, or a reap: the session is killed and the worktree torn down.  A dirty
\* worktree keeps everything, a clean one loses its branch when it is merged.
TeardownGuarded(h) ==
  /\ session[h] \in {"live", "dead"} /\ session' = [session EXCEPT ![h] = "ended"]
  /\ call' = cancelled(h)
  /\ \E dirty \in BOOLEAN : IF ~dirty /\ Merged(h) THEN deleteLocal(h) ELSE UNCHANGED clone
  /\ UNCHANGED <<origin, made, store, lock, sweep, trouble>>

\* The operator throws the branch away, merged or not.
Discard(h) ==
  /\ clone.heads[h] # {} /\ happens("discard")
  /\ session' = [session EXCEPT ![h] = "ended"] /\ call' = cancelled(h) /\ deleteLocal(h)
  /\ UNCHANGED <<origin, made, store, lock, sweep>>

(***************************************************************************)
(* labctl pr create: the duplicate check and the insert.                   *)
(***************************************************************************)
CreatePull(q, h) ==
  /\ call[q] = Idle /\ session[h] = "live"
  /\ ~\E c \in CRs : open(c) /\ cr[c].head = h                 \* OpenCRByHead
  /\ call' = [call EXCEPT ![q] = [Idle EXCEPT !.pc = "insert", !.head = h]]
  /\ IF (\E c \in CRs : cr[c] # NoCR) \/ (\E p \in Calls : call[p].pc = "insert")
     THEN happens("again") ELSE UNCHANGED trouble
  /\ UNCHANGED <<repos, runs, store, lock, sweep>>

CreateCR(q, c) ==
  /\ call[q].pc = "insert" /\ cr[c] = NoCR
  /\ cr' = [cr EXCEPT ![c] = [NoCR EXCEPT !.state = "open", !.head = call[q].head]]
  /\ leaves(q)
  /\ UNCHANGED <<repos, runs, issue, lock, sweep, trouble>>

(***************************************************************************)
(* Merge, of the operator's route and of the agent's (MergePull).          *)
(***************************************************************************)
MergeRequest(q, c) ==
  /\ call[q] = Idle /\ cr[c] # NoCR
  /\ call' = [call EXCEPT ![q] = [Idle EXCEPT !.pc = "lock", !.cr = c, !.head = cr[c].head]]
  /\ UNCHANGED <<repos, runs, store, lock, sweep, trouble>>

\* The setting merge_delete_head may be on or off.
goesTail(q) == goes(q, "delete") \/ leaves(q)

\* Not open, under the lock: no git runs.  The operator is told; the agent's
\* re-merge converges, and deletes the head again.
notOpen(q) == IF cr[call[q].cr].state = "merged" THEN goesTail(q) ELSE leaves(q)

\* Under the lock: the row is read again, and the local head is resolved.
MergeEnter(q) ==
  LET c == call[q].cr  sha == clone.heads[call[q].head] IN
  /\ call[q].pc = "lock" /\ lock[c] = None
  /\ IF open(c) /\ sha # {}
     THEN lock' = [lock EXCEPT ![c] = q] /\ call' = [call EXCEPT ![q].pc = "fetch", ![q].sha = sha]
     ELSE UNCHANGED lock /\ IF open(c) THEN leaves(q) ELSE notOpen(q)      \* ErrHeadMissing
  /\ UNCHANGED <<repos, runs, store, sweep, trouble>>

\* What is pushed: the head when base is its ancestor, else a merge commit, which
\* is base itself when the head is merged already.
landing(q, base) ==
  LET sha == call[q].sha IN
  IF base \subseteq sha THEN sha
  ELSE IF sha \subseteq base THEN base ELSE base \cup sha \cup {<<call[q].cr, 0>>}

\* Fetch, and build what will be pushed.
MergeBuild(q) ==
  /\ call[q].pc = "fetch" /\ clone' = [clone EXCEPT !.base = origin.base]
  /\ call' = [call EXCEPT ![q].pc = "push", ![q].sha = {}, ![q].new = landing(q, origin.base)]
  /\ UNCHANGED <<origin, runs, store, lock, sweep, trouble>>

\* Mutant: this way out keeps the mutex.
MergeConflictLocked(q) ==
  /\ call[q].pc = "fetch" /\ landing(q, origin.base) \notin {call[q].sha, origin.base}
  /\ leaves(q)
  /\ UNCHANGED <<repos, runs, store, lock, sweep, trouble>>

MergeConflict(q) ==
  /\ call[q].pc = "fetch" /\ landing(q, origin.base) \notin {call[q].sha, origin.base}
  /\ clone' = [clone EXCEPT !.base = origin.base]
  /\ release(call[q].cr) /\ leaves(q)
  /\ UNCHANGED <<origin, runs, store, sweep, trouble>>

\* Mutant: the rejection goes unnoticed.
MergePushDeaf(q) ==
  /\ call[q].pc = "push" /\ goes(q, "pushed")
  /\ origin' = IF origin.base \subseteq call[q].new THEN [origin EXCEPT !.base = call[q].new] ELSE origin
  /\ UNCHANGED <<clone, runs, store, lock, sweep, trouble>>

\* An accepted push moves the tracking ref too; one that is no fast-forward is rejected.
MergePush(q) ==
  /\ call[q].pc = "push"
  /\ IF origin.base \subseteq call[q].new
     THEN /\ origin' = [origin EXCEPT !.base = call[q].new]
          /\ clone' = [clone EXCEPT !.base = call[q].new]
          /\ goes(q, "pushed") /\ UNCHANGED lock
     ELSE release(call[q].cr) /\ leaves(q) /\ UNCHANGED repos
  /\ UNCHANGED <<runs, store, sweep, trouble>>

\* The refresh fetch of a push that landed: the tracking ref is origin's base again.
MergeRefresh(q) ==
  /\ call[q].pc = "pushed" /\ goes(q, "record")
  /\ clone' = [clone EXCEPT !.base = origin.base]
  /\ UNCHANGED <<origin, runs, store, lock, sweep, trouble>>

\* store.MergeCR (conditional on the state), and the mutex is released by hand.
MergeRecord(q) ==
  LET c == call[q].cr IN
  /\ call[q].pc = "record" /\ release(c)
  /\ IF open(c)
     THEN cr' = [cr EXCEPT ![c].state = "merged", ![c].commit = call[q].new] /\ call' = [call EXCEPT ![q].pc = "issues", ![q].new = {}]
     ELSE notOpen(q) /\ UNCHANGED cr
  /\ UNCHANGED <<repos, runs, issue, sweep, trouble>>

MergeIssues(q) ==
  /\ call[q].pc = "issues" /\ issue' = [issue EXCEPT ![call[q].cr] = "closed"] /\ goesTail(q)
  /\ UNCHANGED <<repos, runs, cr, lock, sweep, trouble>>

DeleteHead(q) ==
  /\ call[q].pc = "delete" /\ origin' = [origin EXCEPT !.heads[call[q].head] = {}] /\ leaves(q)
  /\ UNCHANGED <<clone, runs, store, lock, sweep, trouble>>

\* A step fails: configuration, credential, network, hook or database.  Only what
\* precedes the record gives the merge up; the tail is best effort.
MergeFails(q) ==
  /\ happens("fail")
  /\ \/ call[q].pc \in {"fetch", "push", "pushed", "record"} /\ release(call[q].cr) /\ leaves(q)
     \/ call[q].pc = "issues" /\ goesTail(q) /\ UNCHANGED lock
     \/ call[q].pc = "delete" /\ leaves(q) /\ UNCHANGED lock
  /\ UNCHANGED <<repos, runs, store, sweep>>

CloseRequest(q, c) ==
  /\ call[q] = Idle /\ cr[c] # NoCR
  /\ call' = [call EXCEPT ![q] = [Idle EXCEPT !.pc = "close", !.cr = c, !.head = cr[c].head]]
  /\ UNCHANGED <<repos, runs, store, lock, sweep, trouble>>

\* Mutant: the store's condition on the state is enough.
CloseUnlocked(q) ==
  LET c == call[q].cr IN
  /\ call[q].pc = "close"
  /\ cr' = IF open(c) THEN [cr EXCEPT ![c].state = "closed"] ELSE cr
  /\ leaves(q)
  /\ UNCHANGED <<repos, runs, issue, lock, sweep, trouble>>

Close(q) ==
  LET c == call[q].cr IN
  /\ call[q].pc = "close" /\ lock[c] = None
  /\ cr' = IF open(c) THEN [cr EXCEPT ![c].state = "closed"] ELSE cr
  /\ leaves(q)
  /\ UNCHANGED <<repos, runs, issue, lock, sweep, trouble>>

(***************************************************************************)
(* The sweep: gatherRefs, then one branch after the other.                 *)
(***************************************************************************)
\* RuntimeSweep fetches first, and goes on with the last-known ref when that fails.
SweepFetch ==
  /\ sweep.pc = "idle" /\ sweep' = [sweep EXCEPT !.pc = "list"]
  /\ clone' \in {clone, [clone EXCEPT !.base = origin.base]}
  /\ UNCHANGED <<origin, runs, store, lock, call, trouble>>

withSession == {h \in Heads : session[h] = "live"}
withCR == {cr[c].head : c \in {d \in CRs : open(d)}}

\* Mutant: the change requests are listed first.
SweepGatherSwapped ==
  /\ \/ /\ sweep.pc = "list"
        /\ sweep' = [pc |-> "crs", todo |-> {h \in Heads : clone.heads[h] # {}} \ withCR]
     \/ sweep.pc = "crs" /\ sweep' = [pc |-> "walk", todo |-> sweep.todo \ withSession]
  /\ UNCHANGED <<repos, runs, store, lock, call, trouble>>

\* gatherRefs: the branches, then the sessions, then the open change requests; the
\* branches of the one and the heads of the other are owned.
SweepGather ==
  /\ \/ /\ sweep.pc = "list"
        /\ sweep' = [pc |-> "crs", todo |-> {h \in Heads : clone.heads[h] # {}} \ withSession]
     \/ sweep.pc = "crs" /\ sweep' = [pc |-> "walk", todo |-> sweep.todo \ withCR]
  /\ UNCHANGED <<repos, runs, store, lock, call, trouble>>

\* A merged branch is deleted, unless its worktree is dirty or git fails.
SweepBranch(h) ==
  /\ sweep.pc = "walk" /\ h \in sweep.todo /\ sweep' = [sweep EXCEPT !.todo = @ \ {h}]
  /\ \/ Merged(h) /\ deleteLocal(h)
     \/ UNCHANGED clone
  /\ UNCHANGED <<origin, runs, store, lock, call, trouble>>

SweepEnds ==
  /\ sweep.pc = "walk" /\ sweep.todo = {} /\ sweep' = Resting
  /\ UNCHANGED <<repos, runs, store, lock, call, trouble>>

\* lab restarts: requests and mutexes are gone, and the startup pass runs, which
\* reads the last-known ref.
Restart ==
  /\ happens("crash")
  /\ call' = [q \in Calls |-> Idle] /\ lock' = [c \in CRs |-> None]
  /\ sweep' = [Resting EXCEPT !.pc = "list"]
  /\ UNCHANGED <<repos, runs, store>>

MergeStep(q) ==
  \/ \E c \in CRs : CreateCR(q, c)
  \/ MergeBuild(q) \/ MergeConflict(q) \/ MergePush(q) \/ MergeRefresh(q)
  \/ MergeRecord(q) \/ MergeIssues(q) \/ DeleteHead(q) \/ MergeFails(q)
Locks(q) == MergeEnter(q) \/ Close(q)
Requests(q) ==
  \/ \E h \in Heads : CreatePull(q, h)
  \/ \E c \in CRs : MergeRequest(q, c) \/ CloseRequest(q, c)
SweepNext ==
  \/ SweepFetch \/ SweepGather \/ SweepEnds
  \/ \E h \in Heads : SweepBranch(h)
SessionNext(h) ==
  \/ Commit(h) \/ PushHead(h) \/ LanderResolves(h) \/ SessionExits(h)
  \/ TeardownGuarded(h) \/ Discard(h)

Next ==
  \/ \E q \in Calls : MergeStep(q) \/ Locks(q) \/ Requests(q)
  \/ \E h \in Heads : SessionNext(h)
  \/ SweepNext \/ OutsidePush \/ Restart

\* A handler goes on by itself, its git commands are bounded by timeouts; the
\* mutex is taken in turn (a waiter of sync.Mutex is not passed over for ever).
Spec == Init /\ [][Next]_vars /\ \A q \in Calls : WF_vars(MergeStep(q)) /\ SF_vars(Locks(q))

(***************************************************************************)
(* Properties.                                                             *)
(***************************************************************************)
Commits == ((Heads \cup CRs) \X (0..MaxCommits)) \cup {<<"out", i>> : i \in 0..1}
Pcs == {"idle", "insert", "lock", "fetch", "push", "pushed", "record", "issues", "delete", "close"}

TypeOK ==
  /\ origin.base \subseteq Commits /\ clone.base \subseteq origin.base
  /\ \A h \in Heads : origin.heads[h] \subseteq Commits /\ clone.heads[h] \subseteq Commits
  /\ \A c \in CRs : /\ cr[c].state \in {"none", "open", "merged", "closed"}
                    /\ (cr[c] # NoCR) => (cr[c].head \in Heads)
                    /\ (lock[c] # None) => (call[lock[c]].cr = c)
  /\ \A q \in Calls : call[q].pc \in Pcs
  /\ sweep.todo \subseteq Heads

\* What the store calls merged is on origin's base: recorded after the push, of a
\* push that was accepted, whatever failed in between (ADR-0011: "the DB must
\* never claim what origin can contradict"); and its issue is closed, or about to
\* be, unless lab crashed or the update failed: a re-merge does not close it.
MergedIsPublished ==
  /\ TypeOK
  /\ \A c \in CRs : cr[c].state = "merged" =>
       /\ cr[c].commit # {} /\ cr[c].commit \subseteq origin.base
       /\ issue[c] = "open" => \/ \E q \in Calls : call[q].pc = "issues" /\ call[q].cr = c
                               \/ trouble \cap {"crash", "fail"} # {}

\* A change request that reads closed is never landed afterwards: a Close waits
\* for a merge in its git window, and a merge that waited reads the row again.
LandsWhileOpen ==
  [][\A q \in Calls : (call[q].pc = "push" /\ call'[q].pc = "pushed") => open(call[q].cr)]_vars

\* A commit of a session is on its branch or on origin's base, unless the branch
\* was discarded: no merge, teardown or sweep loses work, with a tracking ref that
\* lags origin, and with commits made while the merge ran.
NothingLost ==
  \A h \in Heads : "discard" \notin trouble =>
    \A i \in 1..made[h] : <<h, i>> \in clone.heads[h] \cup origin.base

\* The sweep never collects the head of an open change request, one that was
\* filed during the sweep included (gatherRefs lists the sessions first); and a
\* head leaves origin only when a change request of it is recorded as merged.
HeadsSpared ==
  [][\A h \in Heads :
       /\ (clone.heads[h] # clone'.heads[h] /\ sweep' # sweep) => ~\E c \in CRs : open(c) /\ cr[c].head = h
       /\ (origin.heads[h] # {} /\ origin'.heads[h] = {}) =>
            \E c \in CRs : cr[c].head = h /\ cr[c].state = "merged"]_vars

\* Every request is answered: nobody keeps a mutex.
CallsReturn == \A q \in Calls : call[q].pc # "idle" ~> call[q].pc = "idle"

\* "An open CR's head branch is owned": of a merge that was pushed and not
\* recorded, the head is there for the retry.
UnrecordedKeepsHead ==
  \A c \in CRs : (open(c) /\ lock[c] = None /\ <<cr[c].head, 1>> \in origin.base /\ "discard" \notin trouble)
                   => clone.heads[cr[c].head] # {}

\* "One head carries at most one open CR."
OneOpenPerHead ==
  \A c, d \in CRs : (open(c) /\ open(d) /\ cr[c].head = cr[d].head) => c = d

\* The head that a merge deletes on origin was landed.
DeletedHeadLanded ==
  [][\A h \in Heads : (origin.heads[h] # {} /\ origin'.heads[h] = {}) =>
       origin.heads[h] \subseteq origin.base \cup clone.heads[h]]_vars
=============================================================================
