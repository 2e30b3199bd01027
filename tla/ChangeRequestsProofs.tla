------------------------ MODULE ChangeRequestsProofs ------------------------
(***************************************************************************)
(* For any number of heads, change requests, requests under way and        *)
(* commits, and every set of disturbances: the store never claims a merge  *)
(* that origin does not have, a merge lands only what is open, no commit   *)
(* is lost, and the sweep spares the heads of open change requests.        *)
(*                                                                         *)
(* The mutex of a change request carries the first two: whoever is at git  *)
(* holds it, and while it is held the change request stays open.           *)
(***************************************************************************)
EXTENDS ChangeRequests, TLAPS

States == {"none", "open", "merged", "closed"}
Git == {"fetch", "push", "pushed", "record"}
Epilogue == {"issues", "delete"}
Refs == [base : SUBSET Commits, heads : [Heads -> SUBSET Commits]]
Requested == [state : States, head : Heads \cup {None}, commit : SUBSET Commits]
Request == [pc : Pcs, cr : CRs \cup {None}, head : Heads \cup {None},
            sha : SUBSET Commits, new : SUBSET Commits]

Typed ==
  /\ origin \in Refs /\ clone \in Refs /\ clone.base \subseteq origin.base
  /\ session \in [Heads -> {"live", "dead", "ended"}]
  /\ made \in [Heads -> 0..MaxCommits]
  /\ cr \in [CRs -> Requested] /\ issue \in [CRs -> {"open", "closed"}]
  /\ lock \in [CRs -> Calls \cup {None}]
  /\ call \in [Calls -> Request]
  /\ sweep \in [pc : {"idle", "list", "crs", "walk"}, todo : SUBSET Heads]
  /\ trouble \subseteq AllTrouble

\* A change request that was filed keeps its head, and is never unfiled.
Filed == \A c \in CRs : cr[c].state = "none" => cr[c] = NoCR
FiledHead == \A c \in CRs : cr[c].state # "none" => cr[c].head \in Heads

\* A request of a session is of one that lives; the others are about a change
\* request that was filed, and about its head.
About ==
  \A q \in Calls :
    /\ call[q].pc = "insert" => call[q].head \in Heads /\ session[call[q].head] = "live"
    /\ call[q].pc \notin {"idle", "insert"} =>
         /\ call[q].cr \in CRs /\ cr[call[q].cr].state # "none"
         /\ call[q].head = cr[call[q].cr].head

\* The mutex is held by whoever is at git, and by nobody else; the change request
\* is open then.
Held ==
  /\ \A q \in Calls : call[q].pc \in Git => lock[call[q].cr] = q /\ open(call[q].cr)
  /\ \A c \in CRs : lock[c] # None => call[lock[c]].pc \in Git /\ call[lock[c]].cr = c

\* What is pushed is not nothing, and what was pushed is on origin.
Landing ==
  \A q \in Calls :
    /\ call[q].pc = "fetch" => call[q].sha # {}
    /\ call[q].pc \in {"push", "pushed", "record"} => call[q].new # {}
    /\ call[q].pc \in {"pushed", "record"} => call[q].new \subseteq origin.base

\* What comes after the record is about a merged change request.
Recorded == \A q \in Calls : call[q].pc \in Epilogue => cr[call[q].cr].state = "merged"

Published ==
  \A c \in CRs : cr[c].state = "merged" =>
    /\ cr[c].commit # {} /\ cr[c].commit \subseteq origin.base
    /\ issue[c] = "open" => \/ \E q \in Calls : call[q].pc = "issues" /\ call[q].cr = c
                            \/ trouble \cap {"crash", "fail"} # {}

\* What the sweep may collect has no session that could file a change request,
\* and once the store was read no open one either.
Spared ==
  \A h \in sweep.todo :
    /\ sweep.pc \in {"crs", "walk"} => session[h] # "live"
    /\ sweep.pc = "walk" => \A c \in CRs : open(c) => cr[c].head # h

IInv == /\ Typed /\ Filed /\ FiledHead /\ About /\ Held /\ Landing /\ Recorded
        /\ Published /\ Spared /\ NothingLost

USE DEF States, Git, Epilogue, Refs, Requested, Request, Pcs, open

LEMMA Happened ==
  \A t : happens(t) => trouble' \subseteq AllTrouble /\ trouble' = trouble \cup {t}
BY BoundsAssumption DEF happens

LEMMA SomeCommits ==
  /\ Fork \subseteq Commits /\ <<"out", 1>> \in Commits
  /\ \A x \in Heads \cup CRs, i \in 0..MaxCommits : <<x, i>> \in Commits
  /\ 0 \in 0..MaxCommits /\ MaxCommits \in Nat
BY BoundsAssumption DEF Fork, Commits

\* A head of a repository is set.
LEMMA HeadSet ==
  ASSUME NEW r \in Refs, NEW h \in Heads, NEW s \in SUBSET Commits
  PROVE  LET t == [r EXCEPT !.heads[h] = s] IN
           /\ t \in Refs /\ t.base = r.base
           /\ t.heads = [r.heads EXCEPT ![h] = s]
           /\ t.heads[h] = s
           /\ \A g \in Heads : g # h => t.heads[g] = r.heads[g]
<1>1. r.heads \in [Heads -> SUBSET Commits] BY DEF Refs
<1>2. [r.heads EXCEPT ![h] = s] \in [Heads -> SUBSET Commits] BY <1>1
<1>3. [r EXCEPT !.heads[h] = s] = [r EXCEPT !.heads = [r.heads EXCEPT ![h] = s]] OBVIOUS
<1> QED BY <1>1, <1>2, <1>3 DEF Refs

LEMMA InitKeeps == Init => IInv
<1> SUFFICES ASSUME Init PROVE IInv OBVIOUS
<1> USE SomeCommits DEF Init, Idle, Resting, NoCR
<1>1. Typed BY DEF Typed
<1>2. Filed /\ FiledHead /\ About /\ Held /\ Landing /\ Recorded /\ Published /\ Spared
  BY NoneAssumption DEF Filed, FiledHead, About, Held, Landing, Recorded, Published, Spared
<1>3. NothingLost BY DEF NothingLost
<1> QED BY <1>1, <1>2, <1>3 DEF IInv

(***************************************************************************)
(* Sessions, and what happens on origin.                                   *)
(***************************************************************************)
LEMMA CommitKeeps == ASSUME IInv, NEW h \in Heads, Commit(h) PROVE IInv'
<1> DEFINE s == clone.heads[h] \cup {<<h, made[h] + 1>>}
<1> USE SomeCommits DEF store
<1>1. made[h] + 1 \in 0..MaxCommits BY DEF IInv, Typed, Commit
<1>2. /\ clone' \in Refs /\ clone'.base = clone.base /\ clone'.heads[h] = s
      /\ \A g \in Heads : g # h => clone'.heads[g] = clone.heads[g]
  <2>1. s \in SUBSET Commits BY <1>1 DEF IInv, Typed
  <2>2. clone \in Refs /\ clone' = [clone EXCEPT !.heads[h] = s] BY DEF IInv, Typed, Commit
  <2> QED BY <2>1, <2>2, HeadSet
<1> USE DEF Commit
<1>3. Typed' BY <1>1, <1>2 DEF IInv, Typed
<1>4. /\ Filed' /\ FiledHead' /\ About' /\ Held' /\ Landing' /\ Recorded' /\ Published'
      /\ Spared'
  BY DEF IInv, Filed, FiledHead, About, Held, Landing, Recorded, Published, Spared
<1>5. NothingLost'
  <2> SUFFICES ASSUME NEW g \in Heads, "discard" \notin trouble, NEW i \in 1..made'[g]
               PROVE <<g, i>> \in clone'.heads[g] \cup origin.base
    BY DEF NothingLost
  <2>1. i \in 1..made[g] \/ (g = h /\ i = made[h] + 1) BY DEF IInv, Typed
  <2>2. i \in 1..made[g] => <<g, i>> \in clone.heads[g] \cup origin.base BY DEF IInv, NothingLost
  <2>3. clone.heads[g] \subseteq clone'.heads[g] BY <1>2
  <2>4. <<h, made[h] + 1>> \in clone'.heads[h] BY <1>2
  <2> QED BY <2>1, <2>2, <2>3, <2>4
<1> QED BY <1>3, <1>4, <1>5 DEF IInv

\* origin's heads may change, and its base may grow.
LEMMA OriginGrows ==
  ASSUME IInv, origin' \in Refs, origin.base \subseteq origin'.base,
         trouble' \subseteq AllTrouble, trouble \subseteq trouble',
         UNCHANGED <<clone, runs, store, lock, call, sweep>>
  PROVE  IInv'
<1> USE DEF runs, store
<1>1. Typed' BY DEF IInv, Typed
<1>2. Filed' /\ FiledHead' /\ About' /\ Held' /\ Landing' /\ Recorded' /\ Spared'
  BY DEF IInv, Filed, FiledHead, About, Held, Landing, Recorded, Spared
<1>3. Published' BY DEF IInv, Published
<1>4. NothingLost' BY DEF IInv, NothingLost
<1> QED BY <1>1, <1>2, <1>3, <1>4 DEF IInv

LEMMA OriginKeeps ==
  ASSUME IInv, OutsidePush \/ \E h \in Heads : PushHead(h) \/ LanderResolves(h)
  PROVE  IInv'
<1>1. CASE OutsidePush
  <2>1. origin' \in Refs /\ origin.base \subseteq origin'.base
    BY <1>1, SomeCommits DEF OutsidePush, IInv, Typed
  <2> QED BY <1>1, <2>1, Happened, OriginGrows DEF OutsidePush
<1>2. ASSUME NEW h \in Heads, PushHead(h) PROVE IInv'
  <2>1. origin' \in Refs /\ origin'.base = origin.base
    BY <1>2, HeadSet DEF PushHead, IInv, Typed
  <2>2. trouble' \subseteq AllTrouble /\ trouble \subseteq trouble'
    BY <1>2 DEF PushHead, IInv, Typed
  <2> QED BY <1>2, <2>1, <2>2, OriginGrows DEF PushHead
<1>3. ASSUME NEW h \in Heads, LanderResolves(h) PROVE IInv'
  <2>1. origin' \in Refs /\ origin'.base = origin.base
    <3> DEFINE s == origin.heads[h] \cup origin.base \cup {<<h, 0>>}
    <3>1. s \in SUBSET Commits BY SomeCommits DEF IInv, Typed
    <3>2. origin \in Refs /\ origin' = [origin EXCEPT !.heads[h] = s]
      BY <1>3 DEF LanderResolves, IInv, Typed
    <3> QED BY <3>1, <3>2, HeadSet
  <2> QED BY <1>3, <2>1, Happened, OriginGrows DEF LanderResolves
<1> QED BY <1>1, <1>2, <1>3

\* A local head goes: it is merged, or it was discarded.
LEMMA HeadDropped ==
  ASSUME IInv, NEW h \in Heads, deleteLocal(h), Merged(h) \/ "discard" \in trouble',
         trouble \subseteq trouble', UNCHANGED <<made, origin>>
  PROVE  clone' \in Refs /\ clone'.base = clone.base /\ NothingLost'
<1>1. /\ clone' \in Refs /\ clone'.base = clone.base
      /\ \A g \in Heads : g # h => clone'.heads[g] = clone.heads[g]
  <2>1. clone \in Refs /\ clone' = [clone EXCEPT !.heads[h] = {}] /\ {} \in SUBSET Commits
    BY DEF IInv, Typed, deleteLocal
  <2> QED BY <2>1, HeadSet
<1>2. ASSUME NEW g \in Heads, "discard" \notin trouble', NEW i \in 1..made[g]
      PROVE  <<g, i>> \in clone'.heads[g] \cup origin.base
  <2>1. <<g, i>> \in clone.heads[g] \cup origin.base BY <1>2 DEF IInv, NothingLost
  <2>2. CASE g # h BY <1>1, <2>1, <2>2
  <2>3. CASE g = h
    <3>1. clone.heads[g] \subseteq clone.base BY <1>2, <2>3 DEF Merged
    <3>2. clone.base \subseteq origin.base BY DEF IInv, Typed
    <3> QED BY <2>1, <3>1, <3>2
  <2> QED BY <2>2, <2>3
<1> QED BY <1>1, <1>2 DEF NothingLost

\* A session ends, with its requests.
LEMMA SessionGoes ==
  ASSUME IInv, NEW h \in Heads, NEW e \in {"dead", "ended"},
         session' = [session EXCEPT ![h] = e], call' = cancelled(h),
         clone' \in Refs, clone'.base = clone.base, NothingLost',
         trouble' \subseteq AllTrouble, trouble \subseteq trouble',
         UNCHANGED <<origin, made, store, lock, sweep>>
  PROVE  IInv'
<1> USE DEF store
<1>1. \A q \in Calls : \/ call'[q] = call[q] /\ ~(call[q].pc = "insert" /\ call[q].head = h)
                       \/ call[q].pc = "insert" /\ call'[q] = Idle
  BY DEF cancelled
<1>2. Idle \in Request BY DEF Idle
<1>3. call' \in [Calls -> Request] BY <1>2 DEF cancelled, IInv, Typed
<1>4. Typed' BY <1>3 DEF IInv, Typed
<1>5. Filed' /\ FiledHead' BY DEF IInv, Filed, FiledHead
<1>6. About' BY <1>1 DEF IInv, Typed, About, Idle
<1>7. Held' /\ Landing' /\ Recorded'
  <2>1. \A q \in Calls : call'[q].pc \in Git \cup Epilogue => call'[q] = call[q] BY <1>1 DEF Idle
  <2>2. \A q \in Calls : call[q].pc \in Git \cup Epilogue => call'[q] = call[q] BY <1>1
  <2>3. Held'
    <3>1. ASSUME NEW c \in CRs, lock[c] # None
          PROVE  call'[lock[c]].pc \in Git /\ call'[lock[c]].cr = c
      BY <2>2, <3>1 DEF IInv, Typed, Held
    <3> QED BY <2>1, <3>1 DEF IInv, Held
  <2>4. Landing' BY <2>1 DEF IInv, Landing
  <2>5. Recorded' BY <2>1 DEF IInv, Recorded
  <2> QED BY <2>3, <2>4, <2>5
<1>8. Published' BY <1>1 DEF IInv, Published
<1>9. Spared' BY DEF IInv, Typed, Spared
<1> QED BY <1>4, <1>5, <1>6, <1>7, <1>8, <1>9 DEF IInv

LEMMA SessionsKeep ==
  ASSUME IInv, NEW h \in Heads, SessionExits(h) \/ TeardownGuarded(h) \/ Discard(h)
  PROVE  IInv'
<1> USE DEF store, repos
<1>1. CASE SessionExits(h)
  <2>1. clone' \in Refs /\ clone'.base = clone.base /\ NothingLost'
    BY <1>1 DEF SessionExits, IInv, Typed, NothingLost
  <2>2. trouble' \subseteq AllTrouble /\ trouble \subseteq trouble'
    BY <1>1 DEF SessionExits, IInv, Typed
  <2> QED BY <1>1, <2>1, <2>2, SessionGoes DEF SessionExits
<1>2. CASE TeardownGuarded(h)
  <2>1. trouble' \subseteq AllTrouble /\ trouble \subseteq trouble'
    BY <1>2 DEF TeardownGuarded, IInv, Typed
  <2>2. clone' \in Refs /\ clone'.base = clone.base /\ NothingLost'
    <3>1. CASE clone' = clone BY <1>2, <3>1 DEF TeardownGuarded, IInv, Typed, NothingLost
    <3>2. CASE Merged(h) /\ deleteLocal(h) BY <1>2, <2>1, <3>2, HeadDropped DEF TeardownGuarded
    <3> QED BY <1>2, <3>1, <3>2 DEF TeardownGuarded
  <2> QED BY <1>2, <2>1, <2>2, SessionGoes DEF TeardownGuarded
<1>3. CASE Discard(h)
  <2>1. trouble' \subseteq AllTrouble /\ trouble \subseteq trouble' /\ "discard" \in trouble'
    BY <1>3, Happened DEF Discard
  <2>2. clone' \in Refs /\ clone'.base = clone.base /\ NothingLost'
    BY <1>3, <2>1, HeadDropped DEF Discard
  <2> QED BY <1>3, <2>1, <2>2, SessionGoes DEF Discard
<1> QED BY <1>1, <1>2, <1>3

(***************************************************************************)
(* The sweep.                                                              *)
(***************************************************************************)
LEMMA SweepKeeps == ASSUME IInv, SweepNext PROVE IInv'
<1>1. /\ clone' \in Refs /\ clone'.base \subseteq origin.base /\ NothingLost'
      /\ UNCHANGED <<origin, runs, store, lock, call, trouble>>
  <2>1. CASE SweepFetch
    <3>1. clone' \in Refs /\ clone'.heads = clone.heads /\ clone'.base \subseteq origin.base
      BY <2>1 DEF SweepFetch, IInv, Typed
    <3> QED BY <2>1, <3>1 DEF SweepFetch, runs, IInv, NothingLost
  <2>2. CASE SweepGather \/ SweepEnds
    BY <2>2 DEF SweepGather, SweepEnds, runs, repos, IInv, Typed, NothingLost
  <2>3. ASSUME NEW h \in Heads, SweepBranch(h)
        PROVE  /\ clone' \in Refs /\ clone'.base \subseteq origin.base /\ NothingLost'
               /\ UNCHANGED <<origin, runs, store, lock, call, trouble>>
    <3>1. UNCHANGED <<origin, runs, store, lock, call, trouble>> BY <2>3 DEF SweepBranch
    <3>2. CASE clone' = clone BY <3>1, <3>2 DEF runs, IInv, Typed, NothingLost
    <3>3. CASE Merged(h) /\ deleteLocal(h) BY <3>1, <3>3, HeadDropped DEF runs, IInv, Typed
    <3> QED BY <2>3, <3>1, <3>2, <3>3 DEF SweepBranch
  <2> QED BY <2>1, <2>2, <2>3 DEF SweepNext
<1>2. sweep' \in [pc : {"idle", "list", "crs", "walk"}, todo : SUBSET Heads] /\ Spared'
  <2> USE <1>1 DEF runs, store
  <2>1. CASE SweepFetch \/ SweepEnds
    BY <2>1 DEF SweepFetch, SweepEnds, Resting, IInv, Typed, Spared
  <2>2. CASE SweepGather BY <2>2 DEF SweepGather, withSession, withCR, IInv, Typed, Spared
  <2>3. ASSUME NEW h \in Heads, SweepBranch(h)
        PROVE  sweep' \in [pc : {"idle", "list", "crs", "walk"}, todo : SUBSET Heads] /\ Spared'
    BY <2>3 DEF SweepBranch, IInv, Typed, Spared
  <2> QED BY <2>1, <2>2, <2>3 DEF SweepNext
<1>3. Typed' BY <1>1, <1>2 DEF IInv, Typed, runs, store
<1>4. Filed' /\ FiledHead' /\ About' /\ Held' /\ Landing' /\ Recorded' /\ Published'
  BY <1>1 DEF runs, store, IInv, Filed, FiledHead, About, Held, Landing, Recorded, Published
<1> QED BY <1>1, <1>2, <1>3, <1>4 DEF IInv

(***************************************************************************)
(* Requests that are not at git: they hold no mutex.                       *)
(***************************************************************************)
LEMMA RequestMoves ==
  ASSUME IInv, NEW q \in Calls, NEW r \in Request, call' = [call EXCEPT ![q] = r],
         call[q].pc \notin Git, r.pc \notin Git,
         r.pc = "insert" => r.head \in Heads /\ session[r.head] = "live",
         r.pc \notin {"idle", "insert"} =>
           r.cr \in CRs /\ cr[r.cr].state # "none" /\ r.head = cr[r.cr].head,
         r.pc \in Epilogue => cr[r.cr].state = "merged",
         issue' \in [CRs -> {"open", "closed"}],
         \A c \in CRs : issue'[c] = "open" => issue[c] = "open",
         call[q].pc = "issues" => issue'[call[q].cr] = "closed" \/ "fail" \in trouble',
         origin' \in Refs, origin'.base = origin.base,
         trouble' \subseteq AllTrouble, trouble \subseteq trouble',
         UNCHANGED <<clone, runs, cr, lock, sweep>>
  PROVE  IInv'
<1> USE DEF runs
<1>1. /\ call' \in [Calls -> Request] /\ call'[q] = r
      /\ \A p \in Calls : p # q => call'[p] = call[p]
  BY DEF IInv, Typed
<1>2. Typed' BY <1>1 DEF IInv, Typed
<1>3. Filed' /\ FiledHead' /\ Spared' BY DEF IInv, Filed, FiledHead, Spared
<1>4. About' BY <1>1 DEF IInv, About
<1>5. Held'
  <2>1. \A p \in Calls : call'[p].pc \in Git => p # q BY <1>1
  <2>2. \A c \in CRs : lock[c] # None => lock[c] \in Calls /\ lock[c] # q
    BY DEF IInv, Typed, Held
  <2> QED BY <1>1, <2>1, <2>2 DEF IInv, Held
<1>6. Landing' /\ Recorded' BY <1>1 DEF IInv, Landing, Recorded
<1>7. Published'
  <2> SUFFICES ASSUME NEW c \in CRs, cr[c].state = "merged", issue'[c] = "open",
                      trouble' \cap {"crash", "fail"} = {}
               PROVE  \E p \in Calls : call'[p].pc = "issues" /\ call'[p].cr = c
    BY DEF IInv, Published
  <2>1. PICK p \in Calls : call[p].pc = "issues" /\ call[p].cr = c BY DEF IInv, Published
  <2>2. p # q BY <2>1
  <2> QED BY <1>1, <2>1, <2>2
<1>8. NothingLost' BY DEF IInv, NothingLost
<1> QED BY <1>2, <1>3, <1>4, <1>5, <1>6, <1>7, <1>8 DEF IInv

LEMMA RequestsKeep ==
  ASSUME IInv, NEW q \in Calls, Requests(q)
  PROVE  IInv'
<1> USE DEF store, repos
<1>1. ASSUME NEW h \in Heads, CreatePull(q, h) PROVE IInv'
  <2> DEFINE r == [Idle EXCEPT !.pc = "insert", !.head = h]
  <2>1. r \in Request /\ r.pc = "insert" /\ r.head = h BY DEF Idle
  <2>2. trouble' \subseteq AllTrouble /\ trouble \subseteq trouble'
    BY <1>1, Happened DEF CreatePull, IInv, Typed
  <2>3. call[q].pc = "idle" BY <1>1 DEF CreatePull, Idle
  <2>4. call' = [call EXCEPT ![q] = r] /\ session[h] = "live" BY <1>1 DEF CreatePull
  <2>5. UNCHANGED <<origin, clone, runs, cr, issue, lock, sweep>> BY <1>1 DEF CreatePull
  <2> HIDE DEF r
  <2> QED BY <2>1, <2>2, <2>3, <2>4, <2>5, RequestMoves DEF IInv, Typed
<1>2. ASSUME NEW c \in CRs, MergeRequest(q, c) \/ CloseRequest(q, c) PROVE IInv'
  <2>1. PICK pc \in {"lock", "close"} :
          call' = [call EXCEPT ![q] = [Idle EXCEPT !.pc = pc, !.cr = c, !.head = cr[c].head]]
    BY <1>2 DEF MergeRequest, CloseRequest
  <2> DEFINE r == [Idle EXCEPT !.pc = pc, !.cr = c, !.head = cr[c].head]
  <2>2. cr[c] # NoCR /\ call[q].pc = "idle"
    BY <1>2 DEF MergeRequest, CloseRequest, Idle
  <2>3. cr[c].state # "none" /\ cr[c].head \in Heads BY <2>2 DEF IInv, Filed, FiledHead
  <2>4. r \in Request /\ r.pc = pc /\ r.cr = c /\ r.head = cr[c].head BY <2>3 DEF Idle
  <2>5. UNCHANGED <<origin, clone, runs, cr, issue, lock, sweep, trouble>>
    BY <1>2 DEF MergeRequest, CloseRequest
  <2>6. call' = [call EXCEPT ![q] = r] BY <2>1
  <2> HIDE DEF r
  <2> QED BY <2>2, <2>3, <2>4, <2>5, <2>6, RequestMoves DEF IInv, Typed
<1> QED BY <1>1, <1>2 DEF Requests

\* A request that goes on from `pc', or leaves.
LEMMA TailMoves ==
  ASSUME IInv, NEW q \in Calls, goesTail(q) \/ leaves(q),
         call[q].pc \notin Git, call[q].pc # "insert",
         call[q].pc # "idle", goesTail(q) => cr[call[q].cr].state = "merged" \/ leaves(q),
         issue' \in [CRs -> {"open", "closed"}],
         \A c \in CRs : issue'[c] = "open" => issue[c] = "open",
         call[q].pc = "issues" => issue'[call[q].cr] = "closed" \/ "fail" \in trouble',
         origin' \in Refs, origin'.base = origin.base,
         trouble' \subseteq AllTrouble, trouble \subseteq trouble',
         UNCHANGED <<clone, runs, cr, lock, sweep>>
  PROVE  IInv'
<1>1. PICK r \in {Idle, [call[q] EXCEPT !.pc = "delete"]} :
        call' = [call EXCEPT ![q] = r] /\ (r.pc = "delete" => cr[call[q].cr].state = "merged")
  <2>1. CASE leaves(q) BY <2>1 DEF leaves, Idle
  <2>2. CASE goes(q, "delete") /\ cr[call[q].cr].state = "merged" BY <2>2 DEF goes
  <2> QED BY <2>1, <2>2 DEF goesTail
<1>2. r \in Request
  <2>1. Idle \in Request BY DEF Idle
  <2>2. call[q] \in Request BY DEF IInv, Typed
  <2>3. [call[q] EXCEPT !.pc = "delete"] \in Request BY <2>2
  <2> QED BY <1>1, <2>1, <2>3
<1>3. \/ r.pc = "idle"
      \/ r.pc = "delete" /\ r.cr = call[q].cr /\ r.head = call[q].head
  BY <1>1 DEF Idle, IInv, Typed
<1>4. call[q].cr \in CRs /\ cr[call[q].cr].state # "none" /\ call[q].head = cr[call[q].cr].head
  BY DEF IInv, Typed, About
<1> QED BY <1>1, <1>2, <1>3, <1>4, RequestMoves

LEMMA TailKeeps ==
  ASSUME IInv, NEW q \in Calls,
         \/ MergeIssues(q) \/ DeleteHead(q)
         \/ MergeFails(q) /\ call[q].pc \notin Git
  PROVE  IInv'
<1> USE DEF store, repos
<1>1. CASE MergeIssues(q)
  <2>1. call[q].pc = "issues" /\ cr[call[q].cr].state = "merged" /\ call[q].cr \in CRs
    BY <1>1 DEF MergeIssues, IInv, Recorded, About, Typed
  <2>2. /\ issue' \in [CRs -> {"open", "closed"}] /\ issue'[call[q].cr] = "closed"
        /\ \A c \in CRs : issue'[c] = "open" => issue[c] = "open"
    BY <1>1, <2>1 DEF MergeIssues, IInv, Typed
  <2>3. goesTail(q) /\ UNCHANGED <<origin, clone, runs, cr, lock, sweep, trouble>>
    BY <1>1 DEF MergeIssues
  <2>4. origin \in Refs /\ trouble \subseteq AllTrouble BY DEF IInv, Typed
  <2> QED BY <2>1, <2>2, <2>3, <2>4, TailMoves
<1>2. CASE DeleteHead(q)
  <2>1. call[q].pc = "delete" /\ call[q].head \in Heads
    BY <1>2 DEF DeleteHead, IInv, About, FiledHead
  <2>2. origin' \in Refs /\ origin'.base = origin.base
    BY <1>2, <2>1, HeadSet DEF DeleteHead, IInv, Typed
  <2>3. leaves(q) /\ UNCHANGED <<clone, runs, cr, issue, lock, sweep, trouble>>
    BY <1>2 DEF DeleteHead
  <2>4. issue \in [CRs -> {"open", "closed"}] /\ trouble \subseteq AllTrouble BY DEF IInv, Typed
  <2> QED BY <2>1, <2>2, <2>3, <2>4, TailMoves
<1>3. CASE MergeFails(q) /\ call[q].pc \notin Git
  <2>1. /\ call[q].pc \in Epilogue /\ (goesTail(q) \/ leaves(q)) /\ lock' = lock
        /\ cr[call[q].cr].state = "merged"
    BY <1>3 DEF MergeFails, IInv, Recorded
  <2>2. trouble' \subseteq AllTrouble /\ trouble \subseteq trouble' /\ "fail" \in trouble'
    BY <1>3, Happened DEF MergeFails
  <2>3. UNCHANGED <<origin, clone, runs, cr, issue, sweep>> BY <1>3 DEF MergeFails
  <2>4. issue \in [CRs -> {"open", "closed"}] /\ origin \in Refs BY DEF IInv, Typed
  <2> QED BY <2>1, <2>2, <2>3, <2>4, TailMoves
<1> QED BY <1>1, <1>2, <1>3

(***************************************************************************)
(* The change request itself: filed by its session, closed by the operator.*)
(***************************************************************************)
LEMMA CreateKeeps == ASSUME IInv, NEW q \in Calls, NEW c \in CRs, CreateCR(q, c) PROVE IInv'
<1> USE DEF store, repos, runs
<1>1. /\ call' \in [Calls -> Request] /\ call'[q] = Idle /\ call[q].pc = "insert"
      /\ \A p \in Calls : p # q => call'[p] = call[p]
  <2>1. Idle \in Request BY DEF Idle
  <2> QED BY <2>1 DEF CreateCR, leaves, IInv, Typed
<1>2. call[q].head \in Heads /\ session[call[q].head] = "live" BY <1>1 DEF IInv, About
<1> DEFINE n == [NoCR EXCEPT !.state = "open", !.head = call[q].head]
<1>3. n \in Requested /\ n.state = "open" /\ n.head = call[q].head BY <1>2 DEF NoCR
<1>4. /\ cr' \in [CRs -> Requested] /\ cr'[c] = n
      /\ \A d \in CRs : d # c => cr'[d] = cr[d]
  <2>1. cr' = [cr EXCEPT ![c] = n] BY DEF CreateCR
  <2> QED BY <1>3, <2>1 DEF IInv, Typed
<1>5. cr[c].state = "none" BY DEF CreateCR, NoCR
<1>6. UNCHANGED <<origin, clone, session, made, issue, lock, sweep, trouble>> BY DEF CreateCR
<1> HIDE DEF n
<1>7. Typed' BY <1>1, <1>4, <1>6 DEF IInv, Typed
<1>8. Filed' /\ FiledHead' BY <1>2, <1>3, <1>4 DEF IInv, Filed, FiledHead
<1>9. Idle.pc = "idle" BY DEF Idle
<1>10. About' BY <1>1, <1>4, <1>5, <1>6, <1>9 DEF IInv, About
<1>11. Held'
  <2>1. \A p \in Calls : call[p].pc \in Git => p # q /\ call[p].cr # c
    BY <1>1, <1>5 DEF IInv, Held
  <2>2. ASSUME NEW p \in Calls, call'[p].pc \in Git
        PROVE  lock[call'[p].cr] = p /\ cr'[call'[p].cr].state = "open"
    <3>1. p # q /\ call'[p] = call[p] BY <1>1, <1>9, <2>2
    <3>2. call[p].cr \in CRs /\ call[p].cr # c /\ lock[call[p].cr] = p /\ cr[call[p].cr].state = "open"
      BY <2>1, <2>2, <3>1 DEF IInv, Held, About
    <3> QED BY <1>4, <3>1, <3>2
  <2>3. \A d \in CRs : lock[d] # None => lock[d] \in Calls /\ call[lock[d]].pc \in Git
    BY DEF IInv, Typed, Held
  <2>4. \A d \in CRs : lock[d] # None => call'[lock[d]] = call[lock[d]] BY <1>1, <2>1, <2>3
  <2> QED BY <1>6, <2>2, <2>4 DEF IInv, Held
<1>12. Landing' BY <1>1, <1>6, <1>9 DEF IInv, Landing
<1>13. Recorded'
  <2> SUFFICES ASSUME NEW p \in Calls, call'[p].pc \in Epilogue
               PROVE  cr'[call'[p].cr].state = "merged"
    BY DEF Recorded
  <2>1. call'[p] = call[p] BY <1>1, <1>9
  <2>2. cr[call[p].cr].state = "merged" /\ call[p].cr \in CRs BY <2>1 DEF IInv, Recorded, About
  <2> QED BY <1>4, <1>5, <2>1, <2>2
<1>14. Published'
  <2> SUFFICES ASSUME NEW d \in CRs, cr'[d].state = "merged"
               PROVE  /\ cr'[d].commit # {} /\ cr'[d].commit \subseteq origin.base
                      /\ issue[d] = "open" =>
                           \/ \E p \in Calls : call'[p].pc = "issues" /\ call'[p].cr = d
                           \/ trouble \cap {"crash", "fail"} # {}
    BY <1>6 DEF Published
  <2>1. d # c /\ cr'[d] = cr[d] BY <1>3, <1>4
  <2>2. \A p \in Calls : call[p].pc = "issues" => call'[p] = call[p] BY <1>1
  <2> QED BY <2>1, <2>2 DEF IInv, Published
<1>15. Spared'
  <2>1. \A h \in sweep.todo : sweep.pc = "walk" => call[q].head # h BY <1>2 DEF IInv, Spared
  <2> QED BY <1>3, <1>4, <1>6, <2>1 DEF IInv, Typed, Spared
<1>16. NothingLost' BY <1>6 DEF IInv, NothingLost
<1> QED BY <1>7, <1>8, <1>10, <1>11, <1>12, <1>13, <1>14, <1>15, <1>16 DEF IInv

LEMMA CloseKeeps == ASSUME IInv, NEW q \in Calls, Close(q) PROVE IInv'
<1> DEFINE c == call[q].cr
<1> USE DEF store, repos, runs
<1>1. /\ call' \in [Calls -> Request] /\ call'[q] = Idle /\ call[q].pc = "close"
      /\ \A p \in Calls : p # q => call'[p] = call[p]
  <2>1. Idle \in Request BY DEF Idle
  <2> QED BY <2>1 DEF Close, leaves, IInv, Typed
<1>2. c \in CRs /\ lock[c] = None BY <1>1 DEF IInv, About, Close
<1>3. UNCHANGED <<origin, clone, session, made, issue, lock, sweep, trouble>> BY DEF Close
<1>4. Idle.pc = "idle" BY DEF Idle
<1>5. /\ cr' \in [CRs -> Requested]
      /\ \A d \in CRs : /\ cr'[d].head = cr[d].head /\ cr'[d].commit = cr[d].commit
                        /\ cr'[d] = cr[d] \/ (d = c /\ cr[d].state = "open" /\ cr'[d].state = "closed")
  <2>1. CASE ~open(c) BY <2>1 DEF Close, IInv, Typed
  <2>2. CASE open(c)
    <3>1. [cr[c] EXCEPT !.state = "closed"] \in Requested
      <4>1. cr[c] \in Requested BY <1>2 DEF IInv, Typed
      <4> QED BY <4>1
    <3>2. cr' = [cr EXCEPT ![c] = [cr[c] EXCEPT !.state = "closed"]] BY <2>2 DEF Close
    <3> QED BY <1>2, <2>2, <3>1, <3>2 DEF IInv, Typed
  <2> QED BY <2>1, <2>2
<1>6. \A p \in Calls : call'[p].pc # "idle" => p # q /\ call'[p] = call[p] BY <1>1, <1>4
<1> HIDE DEF c
<1>7. Typed' BY <1>1, <1>3, <1>5 DEF IInv, Typed
<1>8. Filed' /\ FiledHead' BY <1>5 DEF IInv, Filed, FiledHead
<1>9. About' BY <1>3, <1>5, <1>6 DEF IInv, About
<1>10. Held'
  <2>1. ASSUME NEW p \in Calls, call'[p].pc \in Git
        PROVE  lock[call'[p].cr] = p /\ cr'[call'[p].cr].state = "open"
    <3>1. call'[p] = call[p] /\ call[p].cr \in CRs /\ lock[call[p].cr] = p /\ open(call[p].cr)
      BY <1>6, <2>1 DEF IInv, Held, About
    <3>2. call[p].cr # c BY <1>2, <3>1, NoneAssumption
    <3> QED BY <1>5, <3>1, <3>2
  <2>2. ASSUME NEW d \in CRs, lock[d] # None
        PROVE  call'[lock[d]].pc \in Git /\ call'[lock[d]].cr = d
    <3>1. lock[d] \in Calls /\ call[lock[d]].pc \in Git /\ call[lock[d]].cr = d
      BY <2>2 DEF IInv, Typed, Held
    <3>2. lock[d] # q BY <1>1, <3>1
    <3> QED BY <1>1, <3>1, <3>2
  <2> QED BY <1>3, <2>1, <2>2 DEF Held
<1>11. Landing' BY <1>3, <1>6 DEF IInv, Landing
<1>12. Recorded' BY <1>5, <1>6 DEF IInv, Recorded, About
<1>13. Published'
  <2>1. \A p \in Calls : call[p].pc = "issues" => call'[p] = call[p] BY <1>1
  <2> QED BY <1>3, <1>5, <2>1 DEF IInv, Published
<1>14. Spared' BY <1>3, <1>5 DEF IInv, Spared
<1>15. NothingLost' BY <1>3 DEF IInv, NothingLost
<1> QED BY <1>7, <1>8, <1>9, <1>10, <1>11, <1>12, <1>13, <1>14, <1>15 DEF IInv

(***************************************************************************)
(* The merge at git: it takes the mutex, goes on, and releases it.         *)
(***************************************************************************)
\* The tracking ref follows origin, whose base may grow.
LEMMA RefsFollow ==
  ASSUME IInv, clone' \in Refs, clone'.heads = clone.heads, origin.base \subseteq origin'.base,
         UNCHANGED <<made, trouble>>
  PROVE  NothingLost'
BY DEF IInv, NothingLost

LEMMA GitMoves ==
  ASSUME IInv, NEW q \in Calls, NEW r \in Request, call' = [call EXCEPT ![q] = r],
         call[q].pc \in Git \cup {"lock"}, r.pc \in Git,
         r.cr = call[q].cr, r.head = call[q].head, open(r.cr),
         lock[r.cr] \in {None, q}, lock' = [lock EXCEPT ![r.cr] = q],
         r.pc = "fetch" => r.sha # {}, r.pc \in {"push", "pushed", "record"} => r.new # {},
         r.pc \in {"pushed", "record"} => r.new \subseteq origin'.base,
         origin' \in Refs, origin.base \subseteq origin'.base,
         clone' \in Refs, clone'.heads = clone.heads, clone'.base \subseteq origin'.base,
         UNCHANGED <<runs, store, sweep, trouble>>
  PROVE  IInv'
<1> USE DEF runs, store
<1>1. /\ call' \in [Calls -> Request] /\ call'[q] = r
      /\ \A p \in Calls : p # q => call'[p] = call[p]
  BY DEF IInv, Typed
<1>2. /\ r.cr \in CRs /\ cr[r.cr].state # "none" /\ r.head = cr[r.cr].head
  BY DEF IInv, About
<1>3. /\ lock' \in [CRs -> Calls \cup {None}] /\ lock'[r.cr] = q
      /\ \A c \in CRs : c # r.cr => lock'[c] = lock[c]
  BY <1>2 DEF IInv, Typed
<1>4. Typed' BY <1>1, <1>3 DEF IInv, Typed
<1>5. Filed' /\ FiledHead' /\ Spared' BY DEF IInv, Filed, FiledHead, Spared
<1>6. About' BY <1>1, <1>2 DEF IInv, About
<1>7. Held'
  <2>1. ASSUME NEW p \in Calls, call'[p].pc \in Git
        PROVE  lock'[call'[p].cr] = p /\ open(call'[p].cr)
    <3>1. CASE p = q BY <1>1, <1>3, <3>1
    <3>2. CASE p # q
      <4>1. call'[p] = call[p] /\ call[p].cr \in CRs /\ lock[call[p].cr] = p /\ open(call[p].cr)
        BY <1>1, <2>1, <3>2 DEF IInv, Held, About
      <4>2. call[p].cr # r.cr BY <3>2, <4>1, NoneAssumption
      <4> QED BY <1>3, <4>1, <4>2
    <3> QED BY <3>1, <3>2
  <2>2. ASSUME NEW c \in CRs, lock'[c] # None
        PROVE  call'[lock'[c]].pc \in Git /\ call'[lock'[c]].cr = c
    <3>1. CASE c = r.cr BY <1>1, <1>3, <3>1
    <3>2. CASE c # r.cr
      <4>1. lock'[c] = lock[c] /\ lock[c] \in Calls /\ call[lock[c]].pc \in Git /\ call[lock[c]].cr = c
        BY <1>3, <2>2, <3>2 DEF IInv, Typed, Held
      <4>2. lock[c] # q BY <3>2, <4>1
      <4> QED BY <1>1, <4>1, <4>2
    <3> QED BY <3>1, <3>2
  <2> QED BY <2>1, <2>2 DEF Held
<1>8. Landing' BY <1>1 DEF IInv, Landing
<1>9. Recorded' BY <1>1 DEF IInv, Recorded
<1>10. Published'
  <2>1. \A p \in Calls : call[p].pc = "issues" => call'[p] = call[p] BY <1>1
  <2> QED BY <2>1 DEF IInv, Published
<1>11. NothingLost' BY RefsFollow
<1> QED BY <1>4, <1>5, <1>6, <1>7, <1>8, <1>9, <1>10, <1>11 DEF IInv

\* The step of a merge that holds the mutex keeps it.
LEMMA HeldSame ==
  ASSUME IInv, NEW q \in Calls, call[q].pc \in Git
  PROVE  /\ call[q].cr \in CRs /\ open(call[q].cr) /\ lock[call[q].cr] = q
         /\ lock = [lock EXCEPT ![call[q].cr] = q]
BY DEF IInv, Typed, Held, About

LEMMA EnterKeeps == ASSUME IInv, NEW q \in Calls, MergeEnter(q) PROVE IInv'
<1> DEFINE c == call[q].cr  sha == clone.heads[call[q].head]
<1> USE DEF store, repos
<1>1. call[q].pc = "lock" /\ lock[c] = None BY DEF MergeEnter
<1>2. c \in CRs /\ call[q].head \in Heads BY <1>1 DEF IInv, About, FiledHead
<1>3. sha \in SUBSET Commits /\ call[q] \in Request BY <1>2 DEF IInv, Typed
<1>4. UNCHANGED <<origin, clone, runs, cr, issue, sweep, trouble>> BY DEF MergeEnter
<1>5. origin \in Refs /\ clone \in Refs /\ clone.base \subseteq origin.base
  BY DEF IInv, Typed
<1>6. CASE open(c) /\ sha # {}
  <2> DEFINE r == [call[q] EXCEPT !.pc = "fetch", !.sha = sha]
  <2>1. /\ r \in Request /\ r.pc = "fetch" /\ r.sha = sha /\ r.cr = c /\ r.head = call[q].head
    BY <1>3
  <2>2. call' = [call EXCEPT ![q] = r] /\ lock' = [lock EXCEPT ![c] = q]
    BY <1>6, <1>3 DEF MergeEnter, IInv, Typed
  <2> HIDE DEF r
  <2> QED BY <1>1, <1>4, <1>5, <1>6, <2>1, <2>2, GitMoves
<1>7. CASE ~(open(c) /\ sha # {})
  <2>1. /\ lock' = lock /\ (goesTail(q) \/ leaves(q))
        /\ goesTail(q) => cr[c].state = "merged" \/ leaves(q)
    BY <1>7 DEF MergeEnter, notOpen, goesTail, goes, leaves
  <2>2. issue \in [CRs -> {"open", "closed"}] /\ trouble \subseteq AllTrouble BY DEF IInv, Typed
  <2> QED BY <1>1, <1>4, <1>5, <2>1, <2>2, TailMoves
<1> QED BY <1>6, <1>7

\* What is pushed holds the head, and so is not nothing.
LEMMA LandingHolds ==
  ASSUME NEW q \in Calls, call[q].cr \in CRs, call[q].sha \in SUBSET Commits, call[q].sha # {},
         NEW base \in SUBSET Commits
  PROVE  landing(q, base) \in SUBSET Commits /\ landing(q, base) # {}
<1>1. <<call[q].cr, 0>> \in Commits BY SomeCommits
<1>2. CASE base \subseteq call[q].sha BY <1>2 DEF landing
<1>3. CASE ~(base \subseteq call[q].sha) /\ call[q].sha \subseteq base BY <1>3 DEF landing
<1>4. CASE ~(base \subseteq call[q].sha) /\ ~(call[q].sha \subseteq base)
  BY <1>1, <1>4 DEF landing
<1> QED BY <1>2, <1>3, <1>4

LEMMA BuildKeeps == ASSUME IInv, NEW q \in Calls, MergeBuild(q) PROVE IInv'
<1> USE DEF store
<1>1. /\ call[q].pc = "fetch" /\ call[q] \in Request
      /\ UNCHANGED <<origin, runs, cr, issue, lock, sweep, trouble>>
  BY DEF MergeBuild, IInv, Typed
<1>2. origin \in Refs /\ origin.base \in SUBSET Commits BY DEF IInv, Typed
<1>3. clone' \in Refs /\ clone'.heads = clone.heads /\ clone'.base = origin.base
  BY <1>2 DEF MergeBuild, IInv, Typed
<1> DEFINE n == landing(q, origin.base)
<1>4. n \in SUBSET Commits /\ n # {} BY <1>1, <1>2, HeldSame, LandingHolds DEF IInv, Landing
<1> HIDE DEF n
<1> DEFINE r == [call[q] EXCEPT !.pc = "push", !.sha = {}, !.new = n]
<1>5. /\ r \in Request /\ r.pc = "push" /\ r.new = n /\ r.cr = call[q].cr
      /\ r.head = call[q].head
  BY <1>1, <1>4
<1>6. call' = [call EXCEPT ![q] = r] BY <1>1 DEF MergeBuild, n, IInv, Typed
<1> HIDE DEF r
<1>7. open(r.cr) /\ lock[r.cr] = q /\ lock' = [lock EXCEPT ![r.cr] = q]
  BY <1>1, <1>5, HeldSame
<1> QED BY <1>1, <1>2, <1>3, <1>4, <1>5, <1>6, <1>7, GitMoves

LEMMA GitLeaves ==
  ASSUME IInv, NEW q \in Calls, call[q].pc \in Git, release(call[q].cr), leaves(q),
         trouble' \subseteq AllTrouble, trouble \subseteq trouble',
         clone' \in Refs, clone'.heads = clone.heads, clone'.base \subseteq origin.base,
         UNCHANGED <<origin, runs, store, sweep>>
  PROVE  IInv'
<1> USE DEF runs, store
<1> DEFINE c == call[q].cr
<1>1. /\ call' \in [Calls -> Request] /\ call'[q].pc = "idle"
      /\ \A p \in Calls : p # q => call'[p] = call[p]
  <2>1. Idle \in Request /\ Idle.pc = "idle" BY DEF Idle
  <2> QED BY <2>1 DEF leaves, IInv, Typed
<1>2. c \in CRs /\ lock[c] = q BY HeldSame
<1>3. /\ lock' \in [CRs -> Calls \cup {None}] /\ lock'[c] = None
      /\ \A d \in CRs : d # c => lock'[d] = lock[d]
  BY <1>2 DEF release, IInv, Typed
<1> HIDE DEF c
<1>4. \A p \in Calls : call'[p].pc # "idle" => p # q /\ call'[p] = call[p] BY <1>1
<1>5. Typed' BY <1>1, <1>3 DEF IInv, Typed
<1>6. Filed' /\ FiledHead' /\ Spared' BY DEF IInv, Filed, FiledHead, Spared
<1>7. About' BY <1>4 DEF IInv, About
<1>8. Held'
  <2>1. ASSUME NEW p \in Calls, call'[p].pc \in Git
        PROVE  lock'[call'[p].cr] = p /\ open(call'[p].cr)
    <3>1. p # q /\ call'[p] = call[p] BY <1>4, <2>1
    <3>2. call[p].cr \in CRs /\ lock[call[p].cr] = p /\ open(call[p].cr)
      BY <2>1, <3>1 DEF IInv, Held, About
    <3>3. call[p].cr # c BY <1>2, <3>1, <3>2
    <3> QED BY <1>3, <3>1, <3>2, <3>3
  <2>2. ASSUME NEW d \in CRs, lock'[d] # None
        PROVE  call'[lock'[d]].pc \in Git /\ call'[lock'[d]].cr = d
    <3>1. d # c /\ lock'[d] = lock[d] BY <1>3, <2>2
    <3>2. lock[d] \in Calls /\ call[lock[d]].pc \in Git /\ call[lock[d]].cr = d
      BY <2>2, <3>1 DEF IInv, Typed, Held
    <3>3. lock[d] # q BY <3>1, <3>2 DEF c
    <3> QED BY <1>1, <3>1, <3>2, <3>3
  <2> QED BY <2>1, <2>2 DEF Held
<1>9. Landing' /\ Recorded' BY <1>4 DEF IInv, Landing, Recorded
<1>10. Published'
  <2>1. \A p \in Calls : call[p].pc = "issues" => call'[p] = call[p] BY <1>1
  <2> QED BY <2>1 DEF IInv, Published
<1>11. NothingLost' BY DEF IInv, NothingLost
<1> QED BY <1>5, <1>6, <1>7, <1>8, <1>9, <1>10, <1>11 DEF IInv

LEMMA LeavingKeeps ==
  ASSUME IInv, NEW q \in Calls,
         \/ MergeConflict(q)
         \/ MergePush(q) /\ ~(origin.base \subseteq call[q].new)
         \/ MergeFails(q) /\ call[q].pc \in Git
  PROVE  IInv'
<1> USE DEF repos
<1>1. clone \in Refs /\ clone.base \subseteq origin.base /\ origin.base \in SUBSET Commits
      /\ trouble \subseteq AllTrouble
  BY DEF IInv, Typed
<1>2. CASE MergeConflict(q)
  <2>1. clone' \in Refs /\ clone'.heads = clone.heads /\ clone'.base = origin.base
    BY <1>1, <1>2 DEF MergeConflict
  <2> QED BY <1>1, <1>2, <2>1, GitLeaves DEF MergeConflict
<1>3. CASE MergePush(q) /\ ~(origin.base \subseteq call[q].new)
  BY <1>1, <1>3, GitLeaves DEF MergePush
<1>4. CASE MergeFails(q) /\ call[q].pc \in Git
  <2>1. trouble' \subseteq AllTrouble /\ trouble \subseteq trouble'
    BY <1>4, Happened DEF MergeFails
  <2> QED BY <1>1, <1>4, <2>1, GitLeaves DEF MergeFails
<1> QED BY <1>2, <1>3, <1>4

LEMMA PushKeeps ==
  ASSUME IInv, NEW q \in Calls, MergePush(q), origin.base \subseteq call[q].new
  PROVE  IInv'
<1> USE DEF store
<1>1. /\ call[q].pc = "push" /\ call[q] \in Request /\ call[q].new \in SUBSET Commits
      /\ UNCHANGED <<runs, cr, issue, lock, sweep, trouble>>
  BY DEF MergePush, IInv, Typed
<1>2. call[q].new # {} BY <1>1 DEF IInv, Landing
<1>3. /\ origin' \in Refs /\ origin'.base = call[q].new
      /\ clone' \in Refs /\ clone'.heads = clone.heads /\ clone'.base = call[q].new
  BY <1>1 DEF MergePush, IInv, Typed
<1> DEFINE r == [call[q] EXCEPT !.pc = "pushed"]
<1>4. /\ r \in Request /\ r.pc = "pushed" /\ r.new = call[q].new /\ r.cr = call[q].cr
      /\ r.head = call[q].head
  BY <1>1
<1>5. call' = [call EXCEPT ![q] = r] BY DEF MergePush, goes
<1> HIDE DEF r
<1>6. open(r.cr) /\ lock[r.cr] = q /\ lock' = [lock EXCEPT ![r.cr] = q]
  BY <1>1, <1>4, HeldSame
<1> QED BY <1>1, <1>2, <1>3, <1>4, <1>5, <1>6, GitMoves

LEMMA RefreshKeeps == ASSUME IInv, NEW q \in Calls, MergeRefresh(q) PROVE IInv'
<1> USE DEF store
<1>1. /\ call[q].pc = "pushed" /\ call[q] \in Request
      /\ UNCHANGED <<origin, runs, cr, issue, lock, sweep, trouble>>
  BY DEF MergeRefresh, IInv, Typed
<1>2. call[q].new # {} /\ call[q].new \subseteq origin.base BY <1>1 DEF IInv, Landing
<1>3. /\ origin' \in Refs /\ origin'.base = origin.base
      /\ clone' \in Refs /\ clone'.heads = clone.heads /\ clone'.base = origin.base
  BY <1>1 DEF MergeRefresh, IInv, Typed
<1> DEFINE r == [call[q] EXCEPT !.pc = "record"]
<1>4. /\ r \in Request /\ r.pc = "record" /\ r.new = call[q].new /\ r.cr = call[q].cr
      /\ r.head = call[q].head
  BY <1>1 DEF Request, Pcs
<1>5. call' = [call EXCEPT ![q] = r] BY DEF MergeRefresh, goes
<1> HIDE DEF r
<1>6. open(r.cr) /\ lock[r.cr] = q /\ lock' = [lock EXCEPT ![r.cr] = q]
  BY <1>1, <1>4, HeldSame
<1> QED BY <1>1, <1>2, <1>3, <1>4, <1>5, <1>6, GitMoves

LEMMA RecordKeeps == ASSUME IInv, NEW q \in Calls, MergeRecord(q) PROVE IInv'
<1> DEFINE c == call[q].cr  new == call[q].new
<1> USE DEF store, runs
<1>1. /\ call[q].pc = "record" /\ call[q] \in Request
      /\ UNCHANGED <<origin, clone, session, made, issue, sweep, trouble>>
  BY DEF MergeRecord, repos, IInv, Typed
<1>2. c \in CRs /\ open(c) /\ lock[c] = q BY <1>1, HeldSame
<1>3. new \in SUBSET Commits /\ new # {} /\ new \subseteq origin.base
  BY <1>1 DEF IInv, Landing
<1> DEFINE m == [cr[c] EXCEPT !.state = "merged", !.commit = new]
           r == [call[q] EXCEPT !.pc = "issues", !.new = {}]
<1>4. cr' = [cr EXCEPT ![c] = m] /\ call' = [call EXCEPT ![q] = r]
  <2>1. /\ cr' = [cr EXCEPT ![c].state = "merged", ![c].commit = new]
        /\ call' = [call EXCEPT ![q].pc = "issues", ![q].new = {}]
    BY <1>2 DEF MergeRecord
  <2>2. cr \in [CRs -> Requested] /\ call \in [Calls -> Request] BY DEF IInv, Typed
  <2>3. call' = [call EXCEPT ![q] = r] BY <2>1, <2>2
  <2>4. cr' = [cr EXCEPT ![c] = m] BY <1>2, <2>1, <2>2
  <2> QED BY <2>3, <2>4
<1>5. /\ m \in Requested /\ m.state = "merged" /\ m.commit = new /\ m.head = cr[c].head
      /\ r \in Request /\ r.pc = "issues" /\ r.cr = c /\ r.head = call[q].head
  <2>1. cr[c] \in Requested BY <1>2 DEF IInv, Typed
  <2>2. /\ m \in Requested /\ m.state = "merged" /\ m.commit = new /\ m.head = cr[c].head
    BY <1>3, <2>1
  <2>3. /\ r \in Request /\ r.pc = "issues" /\ r.cr = c /\ r.head = call[q].head
    BY <1>1
  <2> QED BY <2>2, <2>3
<1> HIDE DEF m, r
<1>6. /\ cr' \in [CRs -> Requested] /\ cr'[c] = m
      /\ \A d \in CRs : d # c => cr'[d] = cr[d]
      /\ \A d \in CRs : cr'[d].head = cr[d].head
  BY <1>2, <1>4, <1>5 DEF IInv, Typed
<1>7. /\ call' \in [Calls -> Request] /\ call'[q] = r
      /\ \A p \in Calls : p # q => call'[p] = call[p]
  BY <1>4, <1>5 DEF IInv, Typed
<1>8. /\ lock' \in [CRs -> Calls \cup {None}] /\ lock'[c] = None
      /\ \A d \in CRs : d # c => lock'[d] = lock[d]
  <2>1. lock' = [lock EXCEPT ![c] = None] BY DEF MergeRecord, release
  <2> QED BY <1>2, <2>1 DEF IInv, Typed
<1>9. clone' \in Refs /\ clone'.heads = clone.heads /\ clone'.base \subseteq origin.base
  BY <1>1 DEF IInv, Typed
<1> HIDE DEF c, new
<1>10. Typed' BY <1>1, <1>6, <1>7, <1>8, <1>9 DEF IInv, Typed
<1>11. Filed' /\ FiledHead' BY <1>2, <1>5, <1>6 DEF IInv, Filed, FiledHead
<1>12. About'
  <2>1. call[q].cr = c /\ call[q].head = cr[c].head BY <1>1 DEF c, IInv, About
  <2>2. \A d \in CRs : cr[d].state # "none" => cr'[d].state # "none" BY <1>5, <1>6
  <2>3. ASSUME NEW p \in Calls, p # q
        PROVE  /\ call'[p].pc = "insert" => call'[p].head \in Heads /\ session'[call'[p].head] = "live"
               /\ call'[p].pc \notin {"idle", "insert"} =>
                    /\ call'[p].cr \in CRs /\ cr'[call'[p].cr].state # "none"
                    /\ call'[p].head = cr'[call'[p].cr].head
    BY <1>1, <1>6, <1>7, <2>2, <2>3 DEF IInv, About
  <2> QED BY <1>2, <1>5, <1>6, <1>7, <2>1, <2>3 DEF About
<1>13. Held'
  <2>1. ASSUME NEW p \in Calls, call'[p].pc \in Git
        PROVE  lock'[call'[p].cr] = p /\ cr'[call'[p].cr].state = "open"
    <3>1. p # q /\ call'[p] = call[p] BY <1>5, <1>7, <2>1
    <3>2. call[p].cr \in CRs /\ lock[call[p].cr] = p /\ cr[call[p].cr].state = "open"
      BY <2>1, <3>1 DEF IInv, Held, About
    <3>3. call[p].cr # c BY <1>2, <3>1, <3>2
    <3> QED BY <1>6, <1>8, <3>1, <3>2, <3>3
  <2>2. ASSUME NEW d \in CRs, lock'[d] # None
        PROVE  call'[lock'[d]].pc \in Git /\ call'[lock'[d]].cr = d
    <3>1. d # c /\ lock'[d] = lock[d] BY <1>8, <2>2
    <3>2. lock[d] \in Calls /\ call[lock[d]].pc \in Git /\ call[lock[d]].cr = d
      BY <2>2, <3>1 DEF IInv, Typed, Held
    <3>3. lock[d] # q BY <3>1, <3>2 DEF c
    <3> QED BY <1>7, <3>1, <3>2, <3>3
  <2> QED BY <2>1, <2>2 DEF Held
<1>14. Landing' BY <1>1, <1>5, <1>7 DEF IInv, Landing
<1>15. Recorded'
  <2> SUFFICES ASSUME NEW p \in Calls, call'[p].pc \in Epilogue
               PROVE  cr'[call'[p].cr].state = "merged"
    BY DEF Recorded
  <2>1. CASE p = q BY <1>5, <1>6, <1>7, <2>1
  <2>2. CASE p # q
    <3>1. call'[p] = call[p] /\ call[p].cr \in CRs /\ cr[call[p].cr].state = "merged"
      BY <1>7, <2>2 DEF IInv, Recorded, About
    <3> QED BY <1>5, <1>6, <3>1
  <2> QED BY <2>1, <2>2
<1>16. Published'
  <2> SUFFICES ASSUME NEW d \in CRs, cr'[d].state = "merged"
               PROVE  /\ cr'[d].commit # {} /\ cr'[d].commit \subseteq origin.base
                      /\ issue[d] = "open" =>
                           \/ \E p \in Calls : call'[p].pc = "issues" /\ call'[p].cr = d
                           \/ trouble \cap {"crash", "fail"} # {}
    BY <1>1 DEF Published
  <2>1. CASE d = c BY <1>3, <1>5, <1>6, <1>7, <2>1
  <2>2. CASE d # c
    <3>1. \A p \in Calls : call[p].pc = "issues" => call'[p] = call[p] BY <1>1, <1>7
    <3> QED BY <1>6, <2>2, <3>1 DEF IInv, Published
  <2> QED BY <2>1, <2>2
<1>17. Spared'
  <2>1. \A d \in CRs : cr'[d].state = "open" => cr[d].state = "open" BY <1>5, <1>6
  <2> QED BY <1>1, <1>6, <2>1 DEF IInv, Spared
<1>18. NothingLost' BY <1>1, <1>9 DEF IInv, NothingLost
<1> QED
  BY <1>10, <1>11, <1>12, <1>13, <1>14, <1>15, <1>16, <1>17, <1>18 DEF IInv

LEMMA RestartKeeps == ASSUME IInv, Restart PROVE IInv'
<1> USE DEF repos, runs, store
<1>1. /\ call' \in [Calls -> Request] /\ \A q \in Calls : call'[q].pc = "idle"
      /\ lock' \in [CRs -> Calls \cup {None}] /\ \A c \in CRs : lock'[c] = None
      /\ sweep' \in [pc : {"idle", "list", "crs", "walk"}, todo : SUBSET Heads]
      /\ sweep'.todo = {}
  BY DEF Restart, Idle, Resting
<1>2. /\ trouble' \subseteq AllTrouble /\ trouble \subseteq trouble' /\ "crash" \in trouble'
  BY Happened DEF Restart
<1>3. UNCHANGED <<origin, clone, session, made, cr, issue>> BY DEF Restart
<1>4. Typed' BY <1>1, <1>2, <1>3 DEF IInv, Typed
<1>5. Filed' /\ FiledHead' /\ About' /\ Held' /\ Landing' /\ Recorded' /\ Spared'
  BY <1>1, <1>3 DEF IInv, Filed, FiledHead, About, Held, Landing, Recorded, Spared
<1>6. Published' BY <1>2, <1>3 DEF IInv, Published
<1>7. NothingLost' BY <1>2, <1>3 DEF IInv, NothingLost
<1> QED BY <1>4, <1>5, <1>6, <1>7 DEF IInv

(***************************************************************************)
(* The theorems.                                                           *)
(***************************************************************************)
LEMMA NextKeeps == IInv /\ [Next]_vars => IInv'
<1> SUFFICES ASSUME IInv, [Next]_vars PROVE IInv' OBVIOUS
<1>1. ASSUME NEW q \in Calls, MergeStep(q) PROVE IInv'
  <2>1. ASSUME NEW c \in CRs, CreateCR(q, c) PROVE IInv' BY <2>1, CreateKeeps
  <2>2. CASE MergeBuild(q) BY <2>2, BuildKeeps
  <2>3. CASE MergeConflict(q) BY <2>3, LeavingKeeps
  <2>4. CASE MergePush(q) BY <2>4, PushKeeps, LeavingKeeps
  <2>5. CASE MergeRefresh(q) \/ MergeRecord(q) BY <2>5, RefreshKeeps, RecordKeeps
  <2>6. CASE MergeIssues(q) \/ DeleteHead(q) BY <2>6, TailKeeps
  <2>7. CASE MergeFails(q) BY <2>7, TailKeeps, LeavingKeeps
  <2> QED BY <1>1, <2>1, <2>2, <2>3, <2>4, <2>5, <2>6, <2>7 DEF MergeStep
<1>2. ASSUME NEW q \in Calls, Locks(q) PROVE IInv'
  BY <1>2, EnterKeeps, CloseKeeps DEF Locks
<1>3. ASSUME NEW q \in Calls, Requests(q) PROVE IInv' BY <1>3, RequestsKeep
<1>4. ASSUME NEW h \in Heads, SessionNext(h) PROVE IInv'
  BY <1>4, CommitKeeps, OriginKeeps, SessionsKeep DEF SessionNext
<1>5. CASE SweepNext BY <1>5, SweepKeeps
<1>6. CASE OutsidePush BY <1>6, OriginKeeps
<1>7. CASE Restart BY <1>7, RestartKeeps
<1>8. CASE UNCHANGED vars
  <2> USE <1>8 DEF vars, runs, store
  <2>1. UNCHANGED <<origin, clone, session, made, cr, issue, lock, call, sweep, trouble>> OBVIOUS
  <2>2. origin \in Refs /\ trouble \subseteq AllTrouble BY DEF IInv, Typed
  <2> QED BY <2>1, <2>2, OriginGrows
<1> QED BY <1>1, <1>2, <1>3, <1>4, <1>5, <1>6, <1>7, <1>8 DEF Next

\* Of every instance, the invariant holds in every state lab can reach.
THEOREM ChangeRequestsInvariant == Spec => []IInv
BY InitKeeps, NextKeeps, PTL DEF Spec

\* The store never calls merged what origin's base does not hold (MergeLocked
\* records after an accepted push, store.MergeCR), and leaves the issue of a
\* merged change request open only while it is about to close it, or when a crash
\* or a failed update came between.
THEOREM MergedIsPublishedCorrect == Spec => []MergedIsPublished
<1>1. IInv => MergedIsPublished
  <2> SUFFICES ASSUME IInv PROVE MergedIsPublished OBVIOUS
  <2>1. \A c \in CRs : (cr[c] # NoCR) => (cr[c].head \in Heads)
    BY DEF IInv, Filed, FiledHead
  <2>2. \A c \in CRs : (lock[c] # None) => (call[lock[c]].cr = c) BY DEF IInv, Held
  <2>3. TypeOK BY <2>1, <2>2 DEF TypeOK, IInv, Typed
  <2> QED BY <2>3 DEF MergedIsPublished, IInv, Published
<1> QED BY <1>1, ChangeRequestsInvariant, PTL

\* A push of a merge lands only while the change request is open: Close takes the
\* mutex that the merge holds from its re-read of the row to the record.
THEOREM LandsWhileOpenCorrect == Spec => LandsWhileOpen
<1>1. IInv => (\A q \in Calls : (call[q].pc = "push" /\ call'[q].pc = "pushed") => open(call[q].cr))
  BY DEF IInv, Held
<1> QED BY <1>1, ChangeRequestsInvariant, PTL DEF LandsWhileOpen

\* No merge, teardown or sweep loses a commit of a session whose branch was not
\* discarded, with a tracking ref that may lag origin.
THEOREM NothingLostCorrect == Spec => []NothingLost
<1>1. IInv => NothingLost BY DEF IInv
<1> QED BY <1>1, ChangeRequestsInvariant, PTL

\* The sweep spares the head of every open change request, also of one that is
\* filed while it runs, and only the tail of a merge deletes a head on origin.
THEOREM HeadsSparedCorrect == Spec => HeadsSpared
<1>1. ASSUME IInv, Next, NEW h \in Heads, clone.heads[h] # clone'.heads[h], sweep' # sweep
      PROVE  ~\E c \in CRs : open(c) /\ cr[c].head = h
  <2>1. PICK g \in Heads : SweepBranch(g)
    <3>1. ~Restart BY <1>1 DEF Restart, repos
    <3>2. ~(SweepFetch \/ SweepGather \/ SweepEnds)
      BY <1>1 DEF SweepFetch, SweepGather, SweepEnds, repos, IInv, Typed
    <3>3. ~OutsidePush /\ \A g \in Heads : ~SessionNext(g)
      BY <1>1 DEF OutsidePush, SessionNext, Commit, PushHead, LanderResolves, SessionExits,
                  TeardownGuarded, Discard
    <3>4. \A q \in Calls : ~MergeStep(q)
      BY <1>1 DEF MergeStep, CreateCR, MergeBuild, MergeConflict, MergePush, MergeRefresh, MergeRecord,
                  MergeIssues, DeleteHead, MergeFails
    <3>5. \A q \in Calls : ~Locks(q) /\ ~Requests(q)
      BY <1>1 DEF Locks, MergeEnter, Close, Requests, CreatePull, MergeRequest, CloseRequest
    <3> QED BY <1>1, <3>1, <3>2, <3>3, <3>4, <3>5 DEF Next, SweepNext
  <2>2. g = h
    <3>1. clone \in Refs /\ {} \in SUBSET Commits BY <1>1 DEF IInv, Typed
    <3> QED BY <1>1, <2>1, <3>1, HeadSet DEF SweepBranch, deleteLocal
  <2> QED BY <1>1, <2>1, <2>2 DEF SweepBranch, IInv, Spared
<1>2. ASSUME IInv, Next, NEW h \in Heads, origin.heads[h] # {}, origin'.heads[h] = {}
      PROVE  \E c \in CRs : cr[c].head = h /\ cr[c].state = "merged"
  <2>1. origin \in Refs /\ {} \in SUBSET Commits BY <1>2 DEF IInv, Typed
  <2>2. PICK q \in Calls : DeleteHead(q)
    <3>1. ~Restart /\ ~SweepNext
      BY <1>2 DEF Restart, repos, SweepNext, SweepFetch, SweepGather, SweepEnds, SweepBranch
    <3>2. ~OutsidePush BY <1>2, <2>1 DEF OutsidePush
    <3>3. ASSUME NEW g \in Heads PROVE ~SessionNext(g)
      <4>1. ~Commit(g) /\ ~SessionExits(g) /\ ~TeardownGuarded(g) /\ ~Discard(g)
        BY <1>2 DEF Commit, SessionExits, TeardownGuarded, Discard, repos
      <4>2. ~PushHead(g)
        <5>1. clone.heads[g] \in SUBSET Commits BY <1>2 DEF IInv, Typed
        <5> QED BY <1>2, <2>1, <5>1, HeadSet DEF PushHead
      <4>3. ~LanderResolves(g)
        <5> DEFINE s == origin.heads[g] \cup origin.base \cup {<<g, 0>>}
        <5>1. s \in SUBSET Commits BY <2>1, SomeCommits
        <5>2. LanderResolves(g) => origin' = [origin EXCEPT !.heads[g] = s]
          BY <2>1 DEF LanderResolves
        <5>3. s # {} OBVIOUS
        <5> HIDE DEF s
        <5> QED BY <1>2, <2>1, <5>1, <5>2, <5>3, HeadSet
      <4> QED BY <4>1, <4>2, <4>3 DEF SessionNext
    <3>4. \A q \in Calls : ~Locks(q) /\ ~Requests(q)
      BY <1>2 DEF Locks, MergeEnter, Close, Requests, CreatePull, MergeRequest, CloseRequest, repos
    <3>5. \A q \in Calls : ~MergePush(q)
      BY <1>2, <2>1 DEF MergePush, repos
    <3>6. \A q \in Calls : MergeStep(q) => DeleteHead(q)
      BY <1>2, <3>5 DEF MergeStep, CreateCR, MergeBuild, MergeConflict, MergeRefresh, MergeRecord,
                  MergeIssues, MergeFails, repos
    <3> QED BY <1>2, <3>1, <3>2, <3>3, <3>4, <3>6 DEF Next
  <2>3. /\ call[q].pc = "delete" /\ call[q].cr \in CRs
        /\ call[q].head = cr[call[q].cr].head /\ call[q].head \in Heads
        /\ cr[call[q].cr].state = "merged"
    BY <1>2, <2>2 DEF DeleteHead, IInv, About, Recorded, FiledHead
  <2>4. call[q].head = h BY <1>2, <2>1, <2>2, <2>3, HeadSet DEF DeleteHead
  <2> QED BY <2>3, <2>4
<1>3. ASSUME IInv, UNCHANGED vars, NEW h \in Heads
      PROVE  clone.heads[h] = clone'.heads[h] /\ origin.heads[h] = origin'.heads[h]
  BY <1>3 DEF vars
<1>4. IInv /\ [Next]_vars =>
        (\A h \in Heads :
          /\ (clone.heads[h] # clone'.heads[h] /\ sweep' # sweep) => ~\E c \in CRs : open(c) /\ cr[c].head = h
          /\ (origin.heads[h] # {} /\ origin'.heads[h] = {}) =>
               \E c \in CRs : cr[c].head = h /\ cr[c].state = "merged")
  BY <1>1, <1>2, <1>3
<1> QED BY <1>4, ChangeRequestsInvariant, PTL DEF HeadsSpared, Spec
=============================================================================
