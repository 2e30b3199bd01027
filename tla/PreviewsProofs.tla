--------------------------- MODULE PreviewsProofs ---------------------------
(***************************************************************************)
(* Theorems about Previews, for every set of runs, names and processes,    *)
(* any number of connections and every set of disturbances.                *)
(*                                                                         *)
(* The registry trusts no earlier check: what Auth saw may be over when    *)
(* Reserve runs, what Reserve saw when Attach runs.  Vouched says what an  *)
(* old check still guarantees, and it is the ended set that makes it hold. *)
(***************************************************************************)
EXTENDS Previews, TLAPS

(***************************************************************************)
(* The inductive invariant.                                                *)
(***************************************************************************)
Labs == {"none", "auth", "reserve", "switch", "attach", "blocked", "gone"}
Conns == [lab : Labs, up : BOOLEAN, msg : Controls \cup {"none"}]
Exposures == [run : Runs \cup {None}, session : Procs \cup {None}, tun : Tunnels \cup {None}]

Typed ==
  /\ cast \in [Procs -> [run : Runs, name : Names]]
  /\ outcome \in [Runs -> {"active", "ended"}]
  /\ endsite \in [Runs -> {"none", "closing", "closed", "crashed"}]
  /\ byName \in [Names -> Exposures]
  /\ tombstones \in [Names -> Procs \cup {None}]
  /\ ended \subseteq Runs
  /\ client \in [Procs -> [pc : ClientPcs, n : 0..MaxConns]]
  /\ conn \in [Tunnels -> Conns]
  /\ gestures \subseteq AllGestures

\* An exposure without a run is free; sessions are remembered under their name.
Named ==
  \A n \in Names : /\ byName[n].run = None => byName[n] = Free
                   /\ byName[n].session # None => name(byName[n].session) = n
                   /\ tombstones[n] # None => name(tombstones[n]) = n

\* A connection that was not opened yet has no handler.
Fresh == \A t \in Tunnels : t[2] > client[t[1]].n => conn[t].lab = "none"

\* Only the latest connection of a process is up, and none while it backs off.
Linked ==
  \A t \in Tunnels : conn[t].up => current(t) /\ client[t[1]].pc \notin {"off", "backoff"}

\* A run whose outcome is active was not ended; a request that was authenticated
\* is of a run that lives, whose end is under way, or that the registry remembers.
Vouched ==
  /\ \A r \in Runs : outcome[r] = "active" => endsite[r] = "none"
  /\ \A t \in Tunnels : conn[t].lab = "reserve" =>
       endsite[run(t[1])] \in {"none", "closing"} \/ run(t[1]) \in ended

IInv == Typed /\ Named /\ Fresh /\ Linked /\ Vouched /\ TunnelOfHolder /\ EndedHoldsNothing

USE DEF registry, Labs, Conns, Exposures, Controls

\* A tunnel is a process and a number.
LEMMA TunnelParts ==
  /\ \A t \in Tunnels : t[1] \in Procs /\ t[2] \in Numbers /\ t = <<t[1], t[2]>> /\ t # None
  /\ \A p \in Procs, n \in Numbers : <<p, n>> \in Tunnels
BY NoneAssumption DEF Tunnels

\* The invariant holds of an empty registry.
LEMMA InitInv == Init => IInv
<1> SUFFICES ASSUME Init PROVE IInv
  OBVIOUS
<1> USE NoneAssumption, CastsAssumption, BoundsAssumption, TunnelParts
<1>1. Typed
  BY DEF Init, Typed, NoConn, Free, ClientPcs
<1>2. Named /\ TunnelOfHolder /\ EndedHoldsNothing
  BY DEF Init, Named, TunnelOfHolder, EndedHoldsNothing, Free
<1>3. Fresh /\ Linked /\ Vouched
  BY DEF Init, Fresh, Linked, Vouched, NoConn
<1> QED BY <1>1, <1>2, <1>3 DEF IInv

(***************************************************************************)
(* The process opens a connection; the handler authenticates it.           *)
(***************************************************************************)
LEMMA OpenKeeps ==
  ASSUME IInv, NEW p \in Procs, ExposeOpen(p)
  PROVE  IInv'
<1> USE DEF IInv
<1> DEFINE n == client[p].n + 1  u == <<p, n>>
<1>1. /\ n \in Numbers /\ u \in Tunnels /\ client[p].pc \in {"off", "backoff"}
      /\ client' = [client EXCEPT ![p] = [pc |-> "opening", n |-> n]]
      /\ conn' = [conn EXCEPT ![u] = [lab |-> "auth", up |-> TRUE, msg |-> "none"]]
      /\ UNCHANGED <<cast, outcome, endsite, registry, gestures>>
  BY TunnelParts DEF ExposeOpen
<1>2. conn[u].lab = "none"
  BY <1>1, BoundsAssumption DEF Fresh, Typed, Numbers
<1>3. Typed'
  BY <1>1, BoundsAssumption DEF Typed, ClientPcs, Numbers
<1>4. Named'
  BY <1>1 DEF Named, name
<1>5. Fresh'
  BY <1>1, TunnelParts, BoundsAssumption DEF Fresh, Typed, Numbers
<1>6. Linked'
  BY <1>1, TunnelParts, BoundsAssumption DEF Linked, Typed, Numbers, current
<1>7. Vouched'
  BY <1>1 DEF Vouched, Typed, run
<1>8. TunnelOfHolder'
  <2>1. \A m \in Names : byName[m].tun # None => byName[m].tun \in Tunnels /\ byName[m].tun # u
    BY <1>2, TunnelParts DEF TunnelOfHolder, Typed
  <2> QED BY <1>1, <2>1 DEF TunnelOfHolder, Typed, run, name
<1>9. EndedHoldsNothing'
  BY <1>1 DEF EndedHoldsNothing
<1> QED BY <1>3, <1>4, <1>5, <1>6, <1>7, <1>8, <1>9

\* A handler answers and leaves its connection: nothing of the registry changes.
LEMMA LeaveKeeps ==
  ASSUME IInv, NEW t \in Tunnels, NEW how \in ClientPcs \ {"off", "backoff"},
         conn[t].lab \in {"auth", "reserve", "switch", "attach"}, conn' = leave(t),
         client' = exits(t, how) \/ client' = client,
         UNCHANGED <<cast, outcome, endsite, registry, gestures>>
  PROVE  IInv'
<1> USE DEF IInv
<1> DEFINE q == t[1]
<1>q. q \in Procs /\ how \in ClientPcs
  BY TunnelParts
<1>0. client' = client \/ client' = [client EXCEPT ![q].pc = how]
  BY DEF exits
<1> HIDE DEF q
<1>1. \A p \in Procs : /\ client'[p].n = client[p].n
                       /\ client'[p].pc = client[p].pc \/ client'[p].pc = how
  <2>1. CASE client' = client
    BY <2>1
  <2>2. CASE client' = [client EXCEPT ![q].pc = how]
    <3>1. client' = [client EXCEPT ![q] = [client[q] EXCEPT !.pc = how]]
      BY <2>2, <1>q DEF Typed
    <3>2. client[q] \in [pc : ClientPcs, n : 0..MaxConns]
      BY <1>q DEF Typed
    <3> QED BY <3>1, <3>2, <1>q DEF Typed
  <2> QED BY <1>0, <2>1, <2>2
<1>2. Typed'
  <2>1. client' \in [Procs -> [pc : ClientPcs, n : 0..MaxConns]]
    BY <1>0, <1>q DEF Typed
  <2>2. conn' \in [Tunnels -> Conns]
    BY DEF Typed, leave
  <2> QED BY <2>1, <2>2 DEF Typed
<1>3. Named'
  BY DEF Named, name
<1>4. Fresh'
  BY <1>1, TunnelParts DEF Fresh, Typed, leave
<1>5. Linked'
  BY <1>1, TunnelParts DEF Linked, Typed, leave, current
<1>6. Vouched'
  BY DEF Vouched, Typed, run, leave
<1>7. TunnelOfHolder'
  BY DEF TunnelOfHolder, Typed, run, name, leave
<1>8. EndedHoldsNothing'
  BY DEF EndedHoldsNothing
<1> QED BY <1>2, <1>3, <1>4, <1>5, <1>6, <1>7, <1>8

LEMMA AuthKeeps ==
  ASSUME IInv, NEW t \in Tunnels, Auth(t)
  PROVE  IInv'
<1>1. CASE outcome[run(t[1])] # "active"
  BY <1>1, LeaveKeeps DEF Auth, ClientPcs
<1>2. CASE outcome[run(t[1])] = "active"
  <2> USE DEF IInv
  <2>1. /\ conn[t].lab = "auth" /\ conn' = [conn EXCEPT ![t].lab = "reserve"]
        /\ UNCHANGED <<cast, outcome, endsite, registry, gestures, client>>
    BY <1>2 DEF Auth
  <2>2. Typed'
    BY <2>1 DEF Typed
  <2>3. Named'
    BY <2>1 DEF Named, name
  <2>4. Fresh'
    BY <2>1 DEF Fresh, Typed
  <2>5. Linked'
    BY <2>1 DEF Linked, Typed, current
  <2>6. Vouched'
    BY <2>1, <1>2, TunnelParts DEF Vouched, Typed, run
  <2>7. TunnelOfHolder'
    BY <2>1 DEF TunnelOfHolder, Typed, run, name
  <2>8. EndedHoldsNothing'
    BY <2>1 DEF EndedHoldsNothing
  <2> QED BY <2>2, <2>3, <2>4, <2>5, <2>6, <2>7, <2>8
<1> QED BY <1>1, <1>2

(***************************************************************************)
(* Steps that open no connection.                                          *)
(***************************************************************************)
LEMMA GestureTyped == \A g : gesture(g) => gestures' \subseteq AllGestures
BY ScenariosAssumption DEF gesture

\* Links only go down, connections are not renumbered.
NoOpening ==
  /\ \A t \in Tunnels : /\ conn'[t].lab = "none" <=> conn[t].lab = "none"
                        /\ conn'[t].up => conn[t].up /\ client'[t[1]].pc \notin {"off", "backoff"}
  /\ \A p \in Procs : client'[p].n = client[p].n

LEMMA NetKeeps ==
  ASSUME IInv, NoOpening
  PROVE  Fresh' /\ Linked'
BY TunnelParts DEF IInv, NoOpening, Fresh, Linked, current

\* A step that leaves the registry alone, and every handler where it is.
LEMMA QuietKeeps ==
  ASSUME IInv, NoOpening, UNCHANGED <<cast, outcome, endsite, registry>>,
         gestures' \subseteq AllGestures,
         client' \in [Procs -> [pc : ClientPcs, n : 0..MaxConns]], conn' \in [Tunnels -> Conns],
         \A t \in Tunnels : conn'[t].lab = conn[t].lab
  PROVE  IInv'
<1> USE DEF IInv
<1>1. Typed'
  BY DEF Typed
<1>2. Named'
  BY DEF Named, name
<1>3. Fresh' /\ Linked'
  BY NetKeeps
<1>4. Vouched'
  BY DEF Vouched, run
<1>5. TunnelOfHolder'
  BY DEF TunnelOfHolder, Typed, run, name
<1>6. EndedHoldsNothing'
  BY DEF EndedHoldsNothing
<1> QED BY <1>1, <1>2, <1>3, <1>4, <1>5, <1>6

LEMMA DeliverKeeps ==
  ASSUME IInv, NEW t \in Tunnels, Deliver(t)
  PROVE  IInv'
<1> USE DEF IInv
<1> DEFINE q == t[1]
<1>q. q \in Procs
  BY TunnelParts
<1>1. client' = [client EXCEPT ![q].pc = conn[t].msg] /\ conn[t].msg \in Controls
  BY DEF Deliver, exits, Typed
<1> HIDE DEF q
<1>2. client' \in [Procs -> [pc : ClientPcs, n : 0..MaxConns]]
  BY <1>1, <1>q DEF Typed, ClientPcs
<1>3. conn' \in [Tunnels -> Conns] /\ \A u \in Tunnels : conn'[u].lab = conn[u].lab
  BY DEF Typed, Deliver
<1>4. NoOpening
  <2>1. \A p \in Procs : client'[p].n = client[p].n
    BY <1>1, <1>q DEF Typed
  <2>2. \A p \in Procs : client'[p].pc = client[p].pc \/ client'[p].pc \in Controls
    BY <1>1, <1>q DEF Typed
  <2>3. \A u \in Tunnels : conn'[u].up => conn[u].up
    BY DEF Typed, Deliver
  <2> QED BY <2>1, <2>2, <2>3, <1>3, TunnelParts DEF NoOpening, Linked
<1> QED BY <1>2, <1>3, <1>4, QuietKeeps DEF Deliver, Typed

LEMMA InterruptKeeps ==
  ASSUME IInv, NEW p \in Procs, Interrupt(p)
  PROVE  IInv'
<1> USE DEF IInv
<1> DEFINE u == <<p, client[p].n>>
<1>1. client' = [client EXCEPT ![p].pc = "stopping"] /\ conn' = [conn EXCEPT ![u].up = FALSE]
  BY DEF Interrupt
<1> HIDE DEF u
<1>2. client' \in [Procs -> [pc : ClientPcs, n : 0..MaxConns]]
  BY <1>1 DEF Typed, ClientPcs
<1>3. conn' \in [Tunnels -> Conns] /\ \A t \in Tunnels : conn'[t].lab = conn[t].lab /\ (conn'[t].up => conn[t].up)
  <2>1. CASE u \in Tunnels
    <3>1. conn[u] \in Conns /\ [conn[u] EXCEPT !.up = FALSE] \in Conns
      BY <2>1 DEF Typed
    <3>2. conn' = [conn EXCEPT ![u] = [conn[u] EXCEPT !.up = FALSE]]
      BY <1>1, <2>1 DEF Typed
    <3> QED BY <3>1, <3>2, <2>1 DEF Typed
  <2>2. CASE u \notin Tunnels
    <3>1. conn' = conn
      BY <1>1, <2>2 DEF Typed
    <3> QED BY <3>1 DEF Typed
  <2> QED BY <2>1, <2>2
<1>4. NoOpening
  <2>1. \A q \in Procs : client'[q].n = client[q].n /\ client'[q].pc \in {client[q].pc, "stopping"}
    BY <1>1 DEF Typed
  <2> QED BY <2>1, <1>3, TunnelParts DEF NoOpening, Linked
<1> QED BY <1>2, <1>3, <1>4, QuietKeeps, GestureTyped DEF Interrupt

LEMMA DropKeeps ==
  ASSUME IInv, NEW t \in Tunnels, Drop(t)
  PROVE  IInv'
<1> USE DEF IInv
<1> DEFINE q == t[1]
<1>q. q \in Procs /\ conn[t].up /\ client[q].n = t[2]
  BY TunnelParts DEF Drop, Linked, current
<1>1. /\ client' = [client EXCEPT ![q] = afterDrop(client[q])]
      /\ conn' = [conn EXCEPT ![t].up = FALSE]
  BY <1>q DEF Drop, Typed
<1>2. /\ afterDrop(client[q]) \in [pc : ClientPcs, n : 0..MaxConns]
      /\ afterDrop(client[q]).n = client[q].n
  BY <1>q DEF Typed, afterDrop, ClientPcs
<1>3. client' \in [Procs -> [pc : ClientPcs, n : 0..MaxConns]]
  BY <1>1, <1>2, <1>q DEF Typed
<1>4. conn' \in [Tunnels -> Conns] /\ \A u \in Tunnels : conn'[u].lab = conn[u].lab
  BY <1>1 DEF Typed
<1>5. NoOpening
  <2>1. \A p \in Procs : client'[p].n = client[p].n /\ (p # q => client'[p] = client[p])
    BY <1>1, <1>2, <1>q DEF Typed
  <2>2. \A u \in Tunnels : conn'[u].up => conn[u].up /\ u # t
    BY <1>1 DEF Typed
  <2>3. \A u \in Tunnels : conn[u].up /\ u # t => u[1] # q
    BY <1>q, TunnelParts DEF Linked, current
  <2> QED BY <2>1, <2>2, <2>3, <1>4, TunnelParts DEF NoOpening, Linked
<1> QED BY <1>3, <1>4, <1>5, QuietKeeps, GestureTyped DEF Drop

LEMMA KillKeeps ==
  ASSUME IInv, NEW r \in Runs, KillSession(r)
  PROVE  IInv'
<1> USE DEF IInv
<1>1. client' \in [Procs -> [pc : ClientPcs, n : 0..MaxConns]]
  BY DEF Typed, ClientPcs, KillSession
<1>2. conn' \in [Tunnels -> Conns] /\ \A t \in Tunnels : conn'[t].lab = conn[t].lab /\ (conn'[t].up => conn[t].up)
  <2>1. conn' = [t \in Tunnels |-> IF run(t[1]) = r THEN [conn[t] EXCEPT !.up = FALSE] ELSE conn[t]]
    BY DEF KillSession
  <2>2. \A t \in Tunnels : conn[t] \in Conns /\ [conn[t] EXCEPT !.up = FALSE] \in Conns
    BY DEF Typed
  <2> QED BY <2>1, <2>2
<1>3. NoOpening
  <2>1. \A p \in Procs : client'[p].n = client[p].n /\ client'[p].pc \in {client[p].pc, "killed"}
    BY DEF Typed, KillSession
  <2> QED BY <2>1, <1>2, TunnelParts DEF NoOpening, Linked
<1> QED BY <1>1, <1>2, <1>3, QuietKeeps, GestureTyped DEF KillSession

(***************************************************************************)
(* The registry.  The cast never changes: what Named and TunnelOfHolder    *)
(* ask of the next state, in terms of the cast of this one.                *)
(***************************************************************************)
LEMMA NamedNext ==
  ASSUME UNCHANGED cast,
         \A n \in Names : /\ byName'[n].run = None => byName'[n] = Free
                          /\ byName'[n].session # None => name(byName'[n].session) = n
                          /\ tombstones'[n] # None => name(tombstones'[n]) = n
  PROVE  Named'
BY DEF Named, name, Free

LEMMA HolderNext ==
  ASSUME UNCHANGED cast,
         \A n \in Names : byName'[n].tun # None =>
           /\ run(byName'[n].tun[1]) = byName'[n].run /\ name(byName'[n].tun[1]) = n
           /\ conn'[byName'[n].tun].lab = "blocked"
  PROVE  TunnelOfHolder'
BY DEF TunnelOfHolder, run, name

\* What they say of this one.
LEMMA HolderNow ==
  ASSUME IInv, NEW n \in Names, byName[n].tun # None
  PROVE  /\ byName[n].tun \in Tunnels /\ conn[byName[n].tun].lab = "blocked"
         /\ run(byName[n].tun[1]) = byName[n].run /\ name(byName[n].tun[1]) = n
BY DEF IInv, Typed, TunnelOfHolder

\* The refusals of Reserve.
LEMMA ReserveErrors ==
  ASSUME NEW p \in Procs
  PROVE  /\ reserveError(p) \in {"failed", "stopped", "none"}
         /\ reserveError(p) = "none" => run(p) \notin ended /\ byName[name(p)].run \in {None, run(p)}
BY DEF reserveError

LEMMA ReserveKeeps ==
  ASSUME IInv, NEW t \in Tunnels, Reserve(t)
  PROVE  IInv'
<1> DEFINE p == t[1]
<1>p. p \in Procs
  BY TunnelParts
<1>e. /\ reserveError(p) \in {"failed", "stopped", "none"}
      /\ reserveError(p) = "none" => run(p) \notin ended /\ byName[name(p)].run \in {None, run(p)}
  BY <1>p, ReserveErrors
<1>1. CASE reserveError(p) # "none"
  <2>1. reserveError(p) \in ClientPcs \ {"off", "backoff"}
    BY <1>e, <1>1 DEF ClientPcs
  <2>2. /\ conn[t].lab = "reserve" /\ conn' = leave(t) /\ client' = exits(t, reserveError(p))
        /\ UNCHANGED <<cast, outcome, endsite, registry, gestures>>
    BY <1>1 DEF Reserve
  <2> QED BY <2>1, <2>2, LeaveKeeps
<1>2. CASE reserveError(p) = "none"
  <2> DEFINE m == name(p)
  <2>1. /\ conn[t].lab = "reserve" /\ conn' = [conn EXCEPT ![t].lab = "switch"]
        /\ byName' = [byName EXCEPT ![m].run = run(p), ![m].session = p]
        /\ tombstones' = [tombstones EXCEPT ![m] = None]
        /\ UNCHANGED <<cast, outcome, endsite, ended, client, gestures>>
    BY <1>2 DEF Reserve
  <2>m. m \in Names /\ run(p) \in Runs /\ byName[m] \in Exposures
    BY <1>p DEF IInv, Typed, name, run
  <2> HIDE DEF m
  <2>2. /\ byName'[m].run = run(p) /\ byName'[m].session = p /\ byName'[m].tun = byName[m].tun
        /\ byName'[m] \in Exposures
        /\ \A n \in Names : n # m => byName'[n] = byName[n]
    BY <2>1, <2>m, <1>p DEF IInv, Typed
  <2>3. /\ \A u \in Tunnels : u # t => conn'[u] = conn[u]
        /\ conn'[t].lab = "switch" /\ conn'[t].up = conn[t].up /\ conn' \in [Tunnels -> Conns]
    BY <2>1 DEF IInv, Typed
  <2>4. Typed'
    <3>1. byName' \in [Names -> Exposures]
      BY <2>1, <2>2 DEF IInv, Typed
    <3>2. tombstones' \in [Names -> Procs \cup {None}]
      BY <2>1 DEF IInv, Typed
    <3> QED BY <2>1, <2>3, <3>1, <3>2 DEF IInv, Typed
  <2>5. Named'
    <3>1. \A n \in Names : byName[n].run = None => byName[n] = Free
      BY DEF IInv, Named
    <3>3. \A n \in Names : tombstones'[n] \in {tombstones[n], None}
      BY <2>1 DEF IInv, Typed
    <3>4. tombstones'[m] = None
      BY <2>1, <2>m DEF IInv, Typed
    <3> SUFFICES ASSUME NEW n \in Names
                 PROVE  /\ byName'[n].run = None => byName'[n] = Free
                        /\ byName'[n].session # None => name(byName'[n].session) = n
                        /\ tombstones'[n] # None => name(tombstones'[n]) = n
      BY <2>1, NamedNext
    <3>5. CASE n = m
      BY <3>5, <2>2, <2>m, <3>4, NoneAssumption DEF m
    <3>6. CASE n # m
      BY <3>6, <2>1, <2>2, <3>3 DEF IInv, Named
    <3> QED BY <3>5, <3>6
  <2>6. Fresh' /\ Linked'
    <3>1. NoOpening
      BY <2>1, <2>3, TunnelParts DEF NoOpening, IInv, Linked
    <3> QED BY <3>1, NetKeeps
  <2>7. Vouched'
    BY <2>1, <2>3 DEF IInv, Vouched, run
  <2>8. TunnelOfHolder'
    <3>1. byName[m].tun # None => run(byName[m].tun[1]) = run(p)
      BY <1>e, <1>2, <2>m DEF IInv, Named, TunnelOfHolder, Free, m
    <3>2. \A n \in Names : byName[n].tun # None => byName[n].tun \in Tunnels /\ byName[n].tun # t
      BY <2>1 DEF IInv, Typed, TunnelOfHolder
    <3> SUFFICES ASSUME NEW n \in Names, byName'[n].tun # None
                 PROVE  /\ run(byName'[n].tun[1]) = byName'[n].run /\ name(byName'[n].tun[1]) = n
                        /\ conn'[byName'[n].tun].lab = "blocked"
      BY <2>1, HolderNext
    <3>3. byName'[n].tun = byName[n].tun /\ conn'[byName[n].tun] = conn[byName[n].tun]
      BY <2>2, <2>3, <3>2
    <3>4. CASE n = m
      BY <3>1, <3>3, <3>4, <2>2, HolderNow
    <3>5. CASE n # m
      BY <3>3, <3>5, <2>2, HolderNow
    <3> QED BY <3>4, <3>5
  <2>9. EndedHoldsNothing'
    <3>1. endsite[run(p)] \in {"none", "closing"}
      BY <2>1, <1>e, <1>2 DEF IInv, Vouched
    <3> QED BY <2>1, <2>2, <2>m, <3>1 DEF IInv, EndedHoldsNothing
  <2> QED BY <2>4, <2>5, <2>6, <2>7, <2>8, <2>9 DEF IInv
<1> QED BY <1>1, <1>2, <1>e

LEMMA SwitchKeeps ==
  ASSUME IInv, NEW t \in Tunnels, Switch(t)
  PROVE  IInv'
<1>1. CASE conn' = leave(t) /\ UNCHANGED client
  <2>1. "failed" \in ClientPcs \ {"off", "backoff"}
    BY DEF ClientPcs
  <2> QED BY <1>1, <2>1, LeaveKeeps DEF Switch
<1>2. CASE conn' = [conn EXCEPT ![t].lab = "attach"] /\ client' = exits(t, "serving")
  <2> DEFINE p == t[1]
  <2>p. p \in Procs
    BY TunnelParts
  <2>1. client' = client \/ client' = [client EXCEPT ![p].pc = "serving"]
    BY <1>2 DEF exits
  <2> HIDE DEF p
  <2>2. client' \in [Procs -> [pc : ClientPcs, n : 0..MaxConns]]
    BY <2>p, <2>1 DEF IInv, Typed, ClientPcs
  <2>3. \A q \in Procs : client'[q].n = client[q].n /\ client'[q].pc \in {client[q].pc, "serving"}
    BY <2>p, <2>1 DEF IInv, Typed
  <2>4. /\ \A u \in Tunnels : u # t => conn'[u] = conn[u]
        /\ conn'[t].lab = "attach" /\ conn'[t].up = conn[t].up /\ conn' \in [Tunnels -> Conns]
        /\ conn[t].lab = "switch" /\ UNCHANGED <<cast, outcome, endsite, registry, gestures>>
    BY <1>2 DEF Switch, IInv, Typed
  <2>5. Typed' /\ Named'
    BY <2>2, <2>4 DEF IInv, Typed, Named, name
  <2>6. NoOpening
    BY <2>3, <2>4, TunnelParts DEF NoOpening, IInv, Linked
  <2>7. Fresh' /\ Linked'
    BY <2>6, NetKeeps
  <2>8. Vouched' /\ EndedHoldsNothing'
    BY <2>4 DEF IInv, Vouched, run, EndedHoldsNothing
  <2>9. TunnelOfHolder'
    BY <2>4 DEF IInv, Typed, TunnelOfHolder, run, name
  <2> QED BY <2>5, <2>7, <2>8, <2>9 DEF IInv
<1> QED BY <1>1, <1>2 DEF Switch

LEMMA AttachFailsKeeps ==
  ASSUME IInv, NEW t \in Tunnels, AttachFails(t)
  PROVE  IInv'
<1>1. "failed" \in ClientPcs \ {"off", "backoff"}
  BY DEF ClientPcs
<1> QED BY <1>1, LeaveKeeps DEF AttachFails

\* A control message changes neither a handler nor a link.
LEMMA EndingParts ==
  ASSUME Typed, NEW u \in Tunnels \cup {None}, NEW m \in Controls
  PROVE  /\ ending(conn, u, m) \in [Tunnels -> Conns]
         /\ \A v \in Tunnels : /\ ending(conn, u, m)[v].lab = conn[v].lab
                               /\ ending(conn, u, m)[v].up = conn[v].up
<1>1. CASE u = None \/ conn[u].msg # "none"
  BY <1>1 DEF ending, Typed
<1>2. CASE u \in Tunnels /\ ending(conn, u, m) = [conn EXCEPT ![u].msg = m]
  <2>1. conn[u] \in Conns
    BY <1>2 DEF Typed
  <2>m. [conn[u] EXCEPT !.msg = m] \in Conns
    BY <2>1
  <2>2. ending(conn, u, m) = [conn EXCEPT ![u] = [conn[u] EXCEPT !.msg = m]]
    BY <1>2 DEF Typed
  <2> QED BY <1>2, <2>1, <2>m, <2>2 DEF Typed
<1> QED BY <1>1, <1>2 DEF ending

LEMMA AttachKeeps ==
  ASSUME IInv, NEW t \in Tunnels, Attach(t)
  PROVE  IInv'
<1> DEFINE p == t[1]  m == name(p)  c == ending(conn, byName[m].tun, "replaced")
           d == ending(conn, t, IF run(p) \in ended THEN "run-ended" ELSE "stopped")
<1>p. p \in Procs /\ t # None
  BY TunnelParts
<1>m. m \in Names /\ run(p) \in Runs /\ byName[m] \in Exposures
  BY <1>p DEF IInv, Typed, name, run
<1>0. /\ conn[t].lab = "attach"
      /\ UNCHANGED <<cast, outcome, endsite, tombstones, ended, client, gestures>>
  BY DEF Attach
<1>c. /\ c \in [Tunnels -> Conns] /\ \A v \in Tunnels : c[v].lab = conn[v].lab /\ c[v].up = conn[v].up
      /\ d \in [Tunnels -> Conns] /\ \A v \in Tunnels : d[v].lab = conn[v].lab /\ d[v].up = conn[v].up
  <2>1. byName[m].tun \in Tunnels \cup {None}
    BY <1>m
  <2>2. "replaced" \in Controls /\ (IF run(p) \in ended THEN "run-ended" ELSE "stopped") \in Controls
    OBVIOUS
  <2> QED BY <2>1, <2>2, EndingParts DEF IInv
<1>1. /\ conn' \in [Tunnels -> Conns] /\ conn'[t].lab = "blocked" /\ conn'[t].up = conn[t].up
      /\ \A v \in Tunnels : v # t => conn'[v].lab = conn[v].lab /\ conn'[v].up = conn[v].up
  <2>1. CASE conn' = [c EXCEPT ![t].lab = "blocked"]
    <3> HIDE DEF c
    <3>1. [c[t] EXCEPT !.lab = "blocked"] \in Conns
      BY <1>c
    <3>2. conn' = [c EXCEPT ![t] = [c[t] EXCEPT !.lab = "blocked"]]
      BY <2>1, <1>c
    <3> QED BY <3>1, <3>2, <1>c
  <2>2. CASE conn' = [d EXCEPT ![t].lab = "blocked"]
    <3> HIDE DEF d
    <3>1. [d[t] EXCEPT !.lab = "blocked"] \in Conns
      BY <1>c
    <3>2. conn' = [d EXCEPT ![t] = [d[t] EXCEPT !.lab = "blocked"]]
      BY <2>2, <1>c
    <3> QED BY <3>1, <3>2, <1>c
  <2> QED BY <2>1, <2>2 DEF Attach
<1>2. \/ byName' = byName
      \/ byName[m].run = run(p) /\ byName' = [byName EXCEPT ![m].tun = t]
  BY DEF Attach, holds
<1> HIDE DEF c, d, m, p
<1>3. /\ byName' \in [Names -> Exposures]
      /\ \A n \in Names : /\ byName'[n].run = byName[n].run /\ byName'[n].session = byName[n].session
                          /\ \/ byName'[n] = byName[n]
                             \/ n = m /\ byName[n].run = run(p) /\ byName'[n].tun = t
  <2>1. CASE byName' = byName
    BY <2>1 DEF IInv, Typed
  <2>2. CASE byName[m].run = run(p) /\ byName' = [byName EXCEPT ![m].tun = t]
    <3>1. [byName[m] EXCEPT !.tun = t] \in Exposures
      BY <1>m
    <3>2. byName' = [byName EXCEPT ![m] = [byName[m] EXCEPT !.tun = t]]
      BY <2>2, <1>m DEF IInv, Typed
    <3> QED BY <2>2, <3>1, <3>2, <1>m DEF IInv, Typed
  <2> QED BY <1>2, <2>1, <2>2
<1>4. Typed'
  BY <1>0, <1>1, <1>3 DEF IInv, Typed
<1>5. Named'
  <2>1. run(p) # None
    BY <1>m, NoneAssumption
  <2> QED BY <1>0, <1>3, <2>1 DEF IInv, Named, name, Free
<1>6. Fresh' /\ Linked'
  <2>1. NoOpening
    BY <1>0, <1>1, TunnelParts DEF NoOpening, IInv, Linked
  <2> QED BY <2>1, NetKeeps
<1>7. Vouched'
  BY <1>0, <1>1 DEF IInv, Vouched, run
<1>8. TunnelOfHolder'
  <2> SUFFICES ASSUME NEW n \in Names, byName'[n].tun # None
               PROVE  /\ run(byName'[n].tun[1]) = byName'[n].run /\ name(byName'[n].tun[1]) = n
                      /\ conn'[byName'[n].tun].lab = "blocked"
    BY <1>0, HolderNext
  <2>1. CASE byName'[n] = byName[n]
    <3>1. byName[n].tun \in Tunnels /\ byName[n].tun # t
      BY <2>1, <1>0, HolderNow
    <3> QED BY <2>1, <3>1, <1>1, HolderNow
  <2>2. CASE n = m /\ byName[n].run = run(p) /\ byName'[n].tun = t
    BY <2>2, <1>1, <1>3 DEF m, p
  <2> QED BY <2>1, <2>2, <1>3
<1>9. EndedHoldsNothing'
  BY <1>0, <1>3 DEF IInv, EndedHoldsNothing
<1> QED BY <1>4, <1>5, <1>6, <1>7, <1>8, <1>9 DEF IInv

LEMMA DetachKeeps ==
  ASSUME IInv, NEW t \in Tunnels, Detach(t)
  PROVE  IInv'
<1> DEFINE m == name(t[1])
<1>m. m \in Names /\ t # None
  BY TunnelParts DEF IInv, Typed, name
<1>0. /\ conn[t].lab = "blocked" /\ ~conn[t].up
      /\ conn' = [conn EXCEPT ![t] = [NoConn EXCEPT !.lab = "gone"]]
      /\ UNCHANGED <<cast, outcome, endsite, tombstones, ended, client, gestures>>
  BY DEF Detach
<1>1. /\ conn' \in [Tunnels -> Conns] /\ conn'[t].lab = "gone" /\ ~conn'[t].up
      /\ \A v \in Tunnels : v # t => conn'[v] = conn[v]
  <2> DEFINE c == [NoConn EXCEPT !.lab = "gone"]
  <2>1. c \in Conns /\ c.lab = "gone" /\ ~c.up
    BY DEF NoConn
  <2> HIDE DEF c
  <2>2. conn' = [conn EXCEPT ![t] = c]
    BY <1>0 DEF c
  <2> QED BY <2>1, <2>2 DEF IInv, Typed
<1>2. /\ byName[m].tun = t => byName' = [byName EXCEPT ![m].tun = None]
      /\ byName[m].tun # t => byName' = byName
  BY DEF Detach
<1> HIDE DEF m
<1>3. /\ byName' \in [Names -> Exposures]
      /\ \A n \in Names : /\ byName'[n].run = byName[n].run /\ byName'[n].session = byName[n].session
                          /\ \/ byName'[n] = byName[n] /\ (n = m => byName[n].tun # t)
                             \/ n = m /\ byName'[n].tun = None /\ byName[n].tun = t
  <2>1. CASE byName[m].tun # t
    BY <1>2, <2>1 DEF IInv, Typed
  <2>2. CASE byName[m].tun = t
    <3>0. byName[m] \in Exposures
      BY <1>m DEF IInv, Typed
    <3>1. [byName[m] EXCEPT !.tun = None] \in Exposures
      BY <3>0
    <3>2. byName' = [byName EXCEPT ![m] = [byName[m] EXCEPT !.tun = None]]
      BY <1>2, <2>2, <1>m DEF IInv, Typed
    <3> QED BY <2>2, <3>0, <3>1, <3>2, <1>m DEF IInv, Typed
  <2> QED BY <2>1, <2>2
<1>4. Typed'
  BY <1>0, <1>1, <1>3 DEF IInv, Typed
<1>5. Named'
  <2>1. \A n \in Names : byName[n].run = None => byName[n].tun = None
    BY DEF IInv, Named, Free
  <2> SUFFICES ASSUME NEW n \in Names
               PROVE  /\ byName'[n].run = None => byName'[n] = Free
                      /\ byName'[n].session # None => name(byName'[n].session) = n
                      /\ tombstones'[n] # None => name(tombstones'[n]) = n
    BY <1>0, NamedNext
  <2>2. byName'[n].run = None => byName'[n] = byName[n]
    BY <1>3, <1>m, <2>1
  <2>3. byName'[n].run = byName[n].run /\ byName'[n].session = byName[n].session
    BY <1>3
  <2> QED BY <1>0, <2>2, <2>3 DEF IInv, Named
<1>6. Fresh' /\ Linked'
  <2>1. NoOpening
    BY <1>0, <1>1, TunnelParts DEF NoOpening, IInv, Linked
  <2> QED BY <2>1, NetKeeps
<1>7. Vouched'
  BY <1>0, <1>1 DEF IInv, Vouched, run
<1>8. TunnelOfHolder'
  <2> SUFFICES ASSUME NEW n \in Names, byName'[n].tun # None
               PROVE  /\ run(byName'[n].tun[1]) = byName'[n].run /\ name(byName'[n].tun[1]) = n
                      /\ conn'[byName'[n].tun].lab = "blocked"
    BY <1>0, HolderNext
  <2>1. byName'[n] = byName[n] /\ (n = m => byName[n].tun # t)
    BY <1>3
  <2>2. byName[n].tun # t
    BY <2>1, HolderNow DEF m
  <2> QED BY <1>1, <2>1, <2>2, HolderNow
<1>9. EndedHoldsNothing'
  BY <1>0, <1>3 DEF IInv, EndedHoldsNothing
<1> QED BY <1>4, <1>5, <1>6, <1>7, <1>8, <1>9 DEF IInv

\* Names are released, handlers stay or are gone, and a run is closed only with
\* its names released.
LEMMA ReleaseKeeps ==
  ASSUME IInv, NoOpening, UNCHANGED cast,
         \A n \in Names : byName'[n] = byName[n] \/ byName'[n] = Free,
         \A n \in Names : tombstones'[n] \in {tombstones[n], byName[n].session, None},
         byName' \in [Names -> Exposures], tombstones' \in [Names -> Procs \cup {None}],
         ended' \subseteq Runs,
         outcome' \in [Runs -> {"active", "ended"}],
         endsite' \in [Runs -> {"none", "closing", "closed", "crashed"}],
         gestures' \subseteq AllGestures,
         client' \in [Procs -> [pc : ClientPcs, n : 0..MaxConns]], conn' \in [Tunnels -> Conns],
         \A t \in Tunnels : \/ conn'[t].lab = conn[t].lab
                            \/ conn'[t].lab = "gone" /\ \A n \in Names : byName'[n] = Free,
         Vouched', EndedHoldsNothing'
  PROVE  IInv'
<1>1. Typed'
  BY DEF IInv, Typed
<1>2. Named'
  <2> SUFFICES ASSUME NEW n \in Names
               PROVE  /\ byName'[n].run = None => byName'[n] = Free
                      /\ byName'[n].session # None => name(byName'[n].session) = n
                      /\ tombstones'[n] # None => name(tombstones'[n]) = n
    BY NamedNext
  <2> QED BY DEF IInv, Named, Free
<1>3. Fresh' /\ Linked'
  BY NetKeeps
<1>4. TunnelOfHolder'
  <2> SUFFICES ASSUME NEW n \in Names, byName'[n].tun # None
               PROVE  /\ run(byName'[n].tun[1]) = byName'[n].run /\ name(byName'[n].tun[1]) = n
                      /\ conn'[byName'[n].tun].lab = "blocked"
    BY HolderNext
  <2>1. byName'[n] = byName[n]
    BY DEF Free
  <2> QED BY <2>1, HolderNow DEF Free
<1> QED BY <1>1, <1>2, <1>3, <1>4 DEF IInv

\* The registry's part of a Stop.
LEMMA StopParts ==
  ASSUME IInv, NEW n \in Names, Stop(n)
  PROVE  /\ \A m \in Names : byName'[m] = byName[m] \/ byName'[m] = Free
         /\ \A m \in Names : tombstones'[m] \in {tombstones[m], byName[m].session, None}
         /\ byName' \in [Names -> Exposures] /\ tombstones' \in [Names -> Procs \cup {None}]
<1>1. Free \in Exposures /\ byName[n].session \in Procs \cup {None}
  BY DEF Free, IInv, Typed
<1> QED BY <1>1 DEF IInv, Typed, Stop

\* Releasing names never gives an ended run a name.
LEMMA EndedNext ==
  ASSUME IInv, UNCHANGED endsite, \A n \in Names : byName'[n] = byName[n] \/ byName'[n] = Free
  PROVE  EndedHoldsNothing'
BY DEF IInv, EndedHoldsNothing, Free

LEMMA ExposeStopKeeps ==
  ASSUME IInv, NEW n \in Names, ExposeStop(n)
  PROVE  IInv'
<1>1. conn' = ending(conn, byName[n].tun, "stopped") /\ Stop(n)
      /\ UNCHANGED <<cast, outcome, endsite, ended, client>> /\ gestures' \subseteq AllGestures
  BY GestureTyped DEF ExposeStop
<1>2. byName[n].tun \in Tunnels \cup {None}
  BY DEF IInv, Typed
<1>3. /\ conn' \in [Tunnels -> Conns]
      /\ \A v \in Tunnels : conn'[v].lab = conn[v].lab /\ conn'[v].up = conn[v].up
  BY <1>1, <1>2, EndingParts DEF IInv
<1>4. NoOpening
  BY <1>1, <1>3, TunnelParts DEF NoOpening, IInv, Linked
<1>5. Vouched'
  BY <1>1, <1>3 DEF IInv, Vouched, run
<1>6. EndedHoldsNothing'
  BY <1>1, StopParts, EndedNext
<1> QED BY <1>1, <1>3, <1>4, <1>5, <1>6, StopParts, ReleaseKeeps DEF IInv, Typed

LEMMA InterruptedKeeps ==
  ASSUME IInv, NEW p \in Procs, Interrupted(p)
  PROVE  IInv'
<1>1. /\ client[p].pc = "stopping" /\ client' = [client EXCEPT ![p].pc = "stopped"]
      /\ UNCHANGED <<cast, outcome, endsite, ended, gestures>>
  BY DEF Interrupted
<1>2. /\ client' \in [Procs -> [pc : ClientPcs, n : 0..MaxConns]]
      /\ \A q \in Procs : client'[q].n = client[q].n /\ client'[q].pc \in {client[q].pc, "stopped"}
  BY <1>1 DEF IInv, Typed, ClientPcs
<1>n. name(p) \in Names
  BY DEF IInv, Typed, name
<1>3. /\ conn' \in [Tunnels -> Conns]
      /\ \A v \in Tunnels : conn'[v].lab = conn[v].lab /\ conn'[v].up = conn[v].up
  <2>1. byName[name(p)].tun \in Tunnels \cup {None}
    BY <1>n DEF IInv, Typed
  <2>2. CASE conn' = ending(conn, byName[name(p)].tun, "stopped")
    BY <2>1, <2>2, EndingParts DEF IInv
  <2>3. CASE conn' = conn
    BY <2>3 DEF IInv, Typed
  <2> QED BY <2>2, <2>3 DEF Interrupted
<1>4. /\ \A n \in Names : byName'[n] = byName[n] \/ byName'[n] = Free
      /\ \A n \in Names : tombstones'[n] \in {tombstones[n], byName[n].session, None}
      /\ byName' \in [Names -> Exposures] /\ tombstones' \in [Names -> Procs \cup {None}]
  <2>1. CASE Stop(name(p))
    BY <2>1, <1>n, StopParts
  <2>2. CASE UNCHANGED <<byName, tombstones>>
    BY <2>2 DEF IInv, Typed
  <2> QED BY <2>1, <2>2 DEF Interrupted
<1>5. NoOpening
  BY <1>2, <1>3, TunnelParts DEF NoOpening, IInv, Linked
<1>6. Vouched'
  BY <1>1, <1>3 DEF IInv, Vouched, run
<1>7. EndedHoldsNothing'
  BY <1>1, <1>4, EndedNext
<1> QED BY <1>1, <1>2, <1>3, <1>4, <1>5, <1>6, <1>7, ReleaseKeeps DEF IInv, Typed

(***************************************************************************)
(* The end of a run, and of lab.                                           *)
(***************************************************************************)
LEMMA EndRunKeeps ==
  ASSUME IInv, NEW r \in Runs, EndRun(r)
  PROVE  IInv'
<1>1. /\ outcome[r] = "active" /\ gestures' \subseteq AllGestures
      /\ outcome' = [outcome EXCEPT ![r] = "ended"] /\ endsite' = [endsite EXCEPT ![r] = "closing"]
      /\ UNCHANGED <<cast, registry, client, conn>>
  BY GestureTyped DEF EndRun
<1>2. /\ outcome' \in [Runs -> {"active", "ended"}]
      /\ endsite' \in [Runs -> {"none", "closing", "closed", "crashed"}]
      /\ \A s \in Runs : /\ outcome'[s] = "active" => outcome[s] = "active" /\ s # r
                         /\ endsite'[s] = IF s = r THEN "closing" ELSE endsite[s]
  BY <1>1 DEF IInv, Typed
<1>3. NoOpening
  BY <1>1 DEF NoOpening, IInv, Linked
<1>4. Vouched'
  <2>1. \A t \in Tunnels : run(t[1]) \in Runs
    BY TunnelParts DEF IInv, Typed, run
  <2>2. \A t \in Tunnels : conn'[t].lab = "reserve" =>
          endsite'[run(t[1])] \in {"none", "closing"} \/ run(t[1]) \in ended'
    BY <1>1, <1>2, <2>1 DEF IInv, Vouched
  <2>3. \A s \in Runs : outcome'[s] = "active" => endsite'[s] = "none"
    BY <1>2 DEF IInv, Vouched
  <2> QED BY <1>1, <2>2, <2>3 DEF Vouched, run
<1>5. EndedHoldsNothing'
  <2>1. \A n \in Names : byName[n].run \in Runs \cup {None}
    BY DEF IInv, Typed
  <2> QED BY <1>1, <1>2, <2>1 DEF IInv, EndedHoldsNothing
<1>6. /\ \A n \in Names : byName'[n] = byName[n]
      /\ \A n \in Names : tombstones'[n] = tombstones[n]
      /\ \A t \in Tunnels : conn'[t].lab = conn[t].lab
  BY <1>1
<1> QED BY <1>1, <1>2, <1>3, <1>4, <1>5, <1>6, ReleaseKeeps DEF IInv, Typed

LEMMA CloseRunKeeps ==
  ASSUME IInv, NEW r \in Runs, CloseRun(r)
  PROVE  IInv'
<1>1. /\ endsite[r] = "closing" /\ endsite' = [endsite EXCEPT ![r] = "closed"]
      /\ ended' = ended \cup {r} /\ UNCHANGED <<cast, outcome, client, gestures>>
      /\ byName' = [n \in Names |-> IF n \in held(r) THEN Free ELSE byName[n]]
      /\ tombstones' = [n \in Names |->
           IF tombstones[n] # None /\ run(tombstones[n]) = r THEN None ELSE tombstones[n]]
  BY DEF CloseRun
<1>2. /\ endsite' \in [Runs -> {"none", "closing", "closed", "crashed"}]
      /\ \A s \in Runs : endsite'[s] = IF s = r THEN "closed" ELSE endsite[s]
  BY <1>1 DEF IInv, Typed
<1>3. /\ conn' \in [Tunnels -> Conns]
      /\ \A t \in Tunnels : conn'[t].lab = conn[t].lab /\ conn'[t].up = conn[t].up
  <2> SUFFICES ASSUME NEW t \in Tunnels
               PROVE  conn'[t] \in Conns /\ conn'[t].lab = conn[t].lab /\ conn'[t].up = conn[t].up
    BY DEF CloseRun
  <2>1. conn'[t] \in {ending(conn, t, "run-ended")[t], conn[t]}
    BY DEF CloseRun
  <2>2. /\ ending(conn, t, "run-ended")[t] \in Conns /\ conn[t] \in Conns
        /\ ending(conn, t, "run-ended")[t].lab = conn[t].lab
        /\ ending(conn, t, "run-ended")[t].up = conn[t].up
    BY EndingParts DEF IInv, Typed
  <2> QED BY <2>1, <2>2
<1>4. /\ \A n \in Names : byName'[n] = byName[n] \/ byName'[n] = Free
      /\ \A n \in Names : tombstones'[n] \in {tombstones[n], None}
      /\ byName' \in [Names -> Exposures] /\ tombstones' \in [Names -> Procs \cup {None}]
  <2>1. Free \in Exposures
    BY DEF Free
  <2> QED BY <1>1, <2>1 DEF IInv, Typed
<1>5. NoOpening
  BY <1>1, <1>3, TunnelParts DEF NoOpening, IInv, Linked
<1>6. Vouched'
  <2>1. \A t \in Tunnels : run(t[1]) \in Runs
    BY TunnelParts DEF IInv, Typed, run
  <2>2. \A t \in Tunnels : conn'[t].lab = "reserve" =>
          endsite'[run(t[1])] \in {"none", "closing"} \/ run(t[1]) \in ended'
    BY <1>1, <1>2, <1>3, <2>1 DEF IInv, Vouched
  <2>3. \A s \in Runs : outcome'[s] = "active" => endsite'[s] = "none"
    BY <1>1, <1>2 DEF IInv, Vouched
  <2> QED BY <1>1, <2>2, <2>3 DEF Vouched, run
<1>7. EndedHoldsNothing'
  <2> SUFFICES ASSUME NEW n \in Names, byName'[n].run # None
               PROVE  endsite'[byName'[n].run] \in {"none", "closing"}
    BY DEF EndedHoldsNothing
  <2>1. byName'[n] = byName[n] /\ byName[n].run # r
    BY <1>1, NoneAssumption DEF held, Free
  <2>2. byName[n].run \in Runs
    BY <2>1 DEF IInv, Typed
  <2> QED BY <2>1, <2>2, <1>2 DEF IInv, EndedHoldsNothing
<1> QED BY <1>1, <1>2, <1>3, <1>4, <1>5, <1>6, <1>7, ReleaseKeeps DEF IInv, Typed

\* lab restarts: nobody holds a name, no handler is left.
LEMMA RestartKeeps ==
  ASSUME IInv, Restart
  PROVE  IInv'
<1>1. /\ gestures' \subseteq AllGestures /\ ended' = {} /\ UNCHANGED <<cast, outcome>>
      /\ byName' = [n \in Names |-> Free] /\ tombstones' = [n \in Names |-> None]
      /\ endsite' = [s \in Runs |-> IF endsite[s] = "closing" THEN "crashed" ELSE endsite[s]]
      /\ client' = [p \in Procs |-> afterDrop(client[p])]
      /\ conn' = [t \in Tunnels |-> IF conn[t].lab = "none" THEN NoConn ELSE [NoConn EXCEPT !.lab = "gone"]]
  BY GestureTyped DEF Restart
<1>2. endsite' \in [Runs -> {"none", "closing", "closed", "crashed"}]
  BY <1>1 DEF IInv, Typed
<1>3. /\ client' \in [Procs -> [pc : ClientPcs, n : 0..MaxConns]]
      /\ \A p \in Procs : client'[p].n = client[p].n
  <2> SUFFICES ASSUME NEW p \in Procs
               PROVE  afterDrop(client[p]) \in [pc : ClientPcs, n : 0..MaxConns] /\ afterDrop(client[p]).n = client[p].n
    BY <1>1
  <2>1. client[p] \in [pc : ClientPcs, n : 0..MaxConns]
    BY DEF IInv, Typed
  <2> QED BY <2>1 DEF afterDrop, ClientPcs
<1>4. /\ conn' \in [Tunnels -> Conns]
      /\ \A t \in Tunnels : /\ ~conn'[t].up
                            /\ conn[t].lab = "none" => conn'[t].lab = "none"
                            /\ conn[t].lab # "none" => conn'[t].lab = "gone"
  BY <1>1 DEF NoConn
<1>5. NoOpening
  BY <1>3, <1>4 DEF NoOpening
<1>6. /\ \A n \in Names : byName'[n] = Free /\ tombstones'[n] = None
      /\ byName' \in [Names -> Exposures] /\ tombstones' \in [Names -> Procs \cup {None}]
  BY <1>1 DEF Free
<1>7. Vouched'
  BY <1>1, <1>4 DEF IInv, Vouched
<1>8. EndedHoldsNothing'
  BY <1>6 DEF EndedHoldsNothing, Free
<1> QED BY <1>1, <1>2, <1>3, <1>4, <1>5, <1>6, <1>7, <1>8, ReleaseKeeps DEF IInv, Typed

(***************************************************************************)
(* The theorems.                                                           *)
(***************************************************************************)
LEMMA NextKeeps == IInv /\ [Next]_vars => IInv'
<1> SUFFICES ASSUME IInv, [Next]_vars PROVE IInv'
  OBVIOUS
<1>1. CASE LabNext
  <2> PICK t \in Tunnels : LabStep(t)
    BY <1>1 DEF LabNext
  <2> QED BY AuthKeeps, ReserveKeeps, SwitchKeeps, AttachKeeps, AttachFailsKeeps,
         DeliverKeeps, DetachKeeps DEF LabStep
<1>2. CASE ClientNext
  BY <1>2, OpenKeeps, InterruptedKeeps DEF ClientNext
<1>3. CASE EndNext
  BY <1>3, CloseRunKeeps DEF EndNext
<1>4. CASE WorldNext
  BY <1>4, RestartKeeps, ExposeStopKeeps, InterruptKeeps, EndRunKeeps, KillKeeps, DropKeeps DEF WorldNext
<1>5. CASE UNCHANGED vars
  <2>1. UNCHANGED <<cast, outcome, endsite, registry, client, conn, gestures>>
    BY <1>5 DEF vars
  <2>2. Typed' /\ Named' /\ Fresh' /\ Linked'
    BY <2>1 DEF IInv, Typed, Named, name, Fresh, Linked, current
  <2>3. Vouched' /\ TunnelOfHolder' /\ EndedHoldsNothing'
    BY <2>1 DEF IInv, Vouched, TunnelOfHolder, EndedHoldsNothing, run, name
  <2> QED BY <2>2, <2>3 DEF IInv
<1> QED BY <1>1, <1>2, <1>3, <1>4, <1>5 DEF Next

\* The inductive invariant holds in every reachable state, whatever requests,
\* reconnects, Stops, ends of runs, dropped links and restarts there are.
THEOREM PreviewsInvariant == Spec => []IInv
BY InitInv, NextKeeps, PTL DEF Spec

\* Every variable of the registry, the processes and the handlers keeps its type.
THEOREM PreviewsTypeCorrect == Spec => []TypeOK
<1>1. IInv => TypeOK
  <2> SUFFICES ASSUME IInv PROVE TypeOK
    OBVIOUS
  <2>1. \A n \in Names : /\ byName[n].run \in Runs \cup {None}
                         /\ (byName[n].run = None) => byName[n] = Free
                         /\ byName[n].tun \in Tunnels \cup {None}
                         /\ (tombstones[n] # None) => name(tombstones[n]) = n
    BY DEF IInv, Typed, Named
  <2>2. \A p \in Procs : client[p].pc \in ClientPcs /\ client[p].n \in 0..MaxConns
    BY DEF IInv, Typed
  <2>3. \A t \in Tunnels : conn[t].msg \in Controls \cup {"none"} /\ (conn[t].up => current(t))
    BY DEF IInv, Typed, Linked
  <2> QED BY <2>1, <2>2, <2>3 DEF TypeOK, IInv, Typed
<1> QED BY <1>1, PreviewsInvariant, PTL

\* A browser on a name reaches the run that holds it, and no other: Attach checks
\* the reservation under the lock that installs the tunnel.
THEOREM TunnelOfHolderCorrect == Spec => []TunnelOfHolder
<1>1. IInv => TunnelOfHolder
  BY DEF IInv
<1> QED BY <1>1, PreviewsInvariant, PTL

\* An ended run keeps no name: until its CloseRun the registry may still serve it,
\* afterwards the ended set refuses what Auth let through, and after a restart Auth
\* refuses everything.
THEOREM EndedHoldsNothingCorrect == Spec => []EndedHoldsNothing
<1>1. IInv => EndedHoldsNothing
  BY DEF IInv
<1> QED BY <1>1, PreviewsInvariant, PTL

(***************************************************************************)
(* A Stop is remembered: by the tombstone, or because the run has ended.   *)
(***************************************************************************)
Buried ==
  /\ \A n \in Names : byName[n].run # None => byName[n].session \in Procs
  /\ \A p \in stopped.session :
       p \in Procs /\ byName[name(p)].run = None /\ (tombstones[name(p)] = p \/ run(p) \in ended)

LEMMA SameBuried ==
  ASSUME IInv, Buried, UNCHANGED <<cast, tombstones, ended, stopped>>,
         \A n \in Names : byName'[n].run = byName[n].run /\ byName'[n].session = byName[n].session
  PROVE  Buried'
<1>1. \A p \in Procs : name(p) \in Names BY DEF IInv, Typed, name
<1> QED BY <1>1 DEF Buried, name, run

\* Attach and Detach touch the tunnel of a name only.
LEMMA TunnelBuried ==
  ASSUME IInv, Buried, NEW t \in Tunnels, Attach(t) \/ Detach(t)
  PROVE  Buried'
<1>1. UNCHANGED <<cast, tombstones, ended, stopped>> BY DEF Attach, Detach
<1>2. t[1] \in Procs BY TunnelParts
<1>3. name(t[1]) \in Names /\ byName \in [Names -> Exposures] BY <1>2 DEF IInv, Typed, name
<1>4. PICK v \in Tunnels \cup {None} : byName' = byName \/ byName' = [byName EXCEPT ![name(t[1])].tun = v]
  BY DEF Attach, Detach
<1>5. \A n \in Names : byName'[n].run = byName[n].run /\ byName'[n].session = byName[n].session
  BY <1>3, <1>4
<1> QED BY <1>1, <1>5, SameBuried

\* A session that was stopped is refused, and any other one is a new holder.
LEMMA ReserveBuried ==
  ASSUME IInv, Buried, NEW t \in Tunnels, Reserve(t)
  PROVE  Buried'
<1> DEFINE p == t[1]
<1>1. p \in Procs /\ name(p) \in Names /\ byName \in [Names -> Exposures]
  BY TunnelParts DEF IInv, Typed, name
<1>2. CASE reserveError(p) # "none"
  <2>1. UNCHANGED <<cast, registry, stopped>> BY <1>2 DEF Reserve
  <2> QED BY <2>1, SameBuried
<1>3. CASE reserveError(p) = "none"
  <2>1. /\ byName' = [byName EXCEPT ![name(p)].run = run(p), ![name(p)].session = p]
        /\ tombstones' = [tombstones EXCEPT ![name(p)] = None] /\ UNCHANGED <<cast, ended>>
        /\ stopped'.session = {q \in stopped.session : q = p \/ name(q) # name(p)}
    BY <1>3 DEF Reserve
  <2>2. run(p) \notin ended /\ tombstones[name(p)] # p BY <1>3 DEF reserveError
  <2>3. p \notin stopped.session BY <2>2 DEF Buried
  <2> HIDE DEF p
  <2>4. /\ byName'[name(p)].session = p
        /\ \A n \in Names : n # name(p) => byName'[n] = byName[n] /\ tombstones'[n] = tombstones[n]
    BY <1>1, <2>1 DEF IInv, Typed
  <2>5. \A q \in stopped'.session : /\ q \in stopped.session /\ q \in Procs
                                    /\ name(q) \in Names /\ name(q) # name(p)
    BY <2>1, <2>3 DEF Buried, IInv, Typed, name
  <2> QED BY <1>1, <2>1, <2>4, <2>5 DEF Buried, name, run
<1> QED BY <1>2, <1>3

\* Nobody has reserved a name since the session it was stopped for.
LEMMA StopBuried ==
  ASSUME IInv, Buried, NEW n \in Names, Stop(n), byName[n].run # None, UNCHANGED <<cast, ended>>
  PROVE  Buried'
<1> DEFINE s == byName[n].session
<1>1. s \in Procs /\ name(s) = n BY NoneAssumption DEF Buried, IInv, Named
<1> HIDE DEF s
<1>2. /\ byName' = [byName EXCEPT ![n] = Free] /\ tombstones' = [tombstones EXCEPT ![n] = s]
      /\ stopped'.session = stopped.session \cup {s}
  BY DEF Stop, s
<1>3. /\ byName'[n].run = None /\ tombstones'[n] = s
      /\ \A m \in Names : m # n => byName'[m] = byName[m] /\ tombstones'[m] = tombstones[m]
  BY <1>2 DEF IInv, Typed, Free
<1>4. \A q \in stopped.session : q \in Procs /\ name(q) \in Names /\ name(q) # n
  BY DEF Buried, IInv, Typed, name
<1> QED BY <1>1, <1>2, <1>3, <1>4 DEF Buried, name, run

\* The memory of an ended run stands for the tombstones it takes along.
LEMMA CloseRunBuried ==
  ASSUME IInv, Buried, NEW r \in Runs, CloseRun(r)
  PROVE  Buried'
<1>1. /\ ended' = ended \cup {r} /\ UNCHANGED <<cast, stopped>>
      /\ byName' = [n \in Names |-> IF n \in held(r) THEN Free ELSE byName[n]]
      /\ tombstones' = [n \in Names |->
           IF tombstones[n] # None /\ run(tombstones[n]) = r THEN None ELSE tombstones[n]]
  BY DEF CloseRun
<1>2. \A n \in Names : byName'[n] = byName[n] \/ byName'[n].run = None BY <1>1 DEF Free
<1>3. \A p \in stopped.session : p \in Procs /\ name(p) \in Names BY DEF Buried, IInv, Typed, name
<1>4. \A p \in stopped.session : tombstones[name(p)] = p => tombstones'[name(p)] = p \/ run(p) \in ended'
  BY <1>1, <1>3
<1>5. \A p \in stopped.session : byName'[name(p)].run = None
  BY <1>2, <1>3 DEF Buried
<1> QED BY <1>1, <1>2, <1>3, <1>4, <1>5 DEF Buried, name, run

\* A session whose exposure was stopped does not come back: it is refused by its
\* tombstone, or as one of an ended run (Reserve, CloseRun), until somebody else
\* reserved the name or lab restarted.
THEOREM StoppedStaysCorrect == Spec => []StoppedStays
<1>1. Init => Buried BY DEF Init, Buried, Free
<1>2. IInv /\ Buried /\ [Next]_vars => Buried'
  <2> SUFFICES ASSUME IInv, Buried, [Next]_vars PROVE Buried' OBVIOUS
  <2>1. ASSUME UNCHANGED <<cast, registry, stopped>> PROVE Buried' BY <2>1, SameBuried
  <2>2. CASE LabNext
    <3> PICK t \in Tunnels : LabStep(t) BY <2>2 DEF LabNext
    <3>1. CASE Auth(t) \/ Switch(t) \/ AttachFails(t) \/ Deliver(t)
      BY <2>1, <3>1 DEF Auth, Switch, AttachFails, Deliver
    <3> QED BY <3>1, ReserveBuried, TunnelBuried DEF LabStep
  <2>3. CASE ClientNext
    <3>1. ASSUME NEW p \in Procs, ExposeOpen(p) PROVE Buried' BY <2>1, <3>1 DEF ExposeOpen
    <3>2. ASSUME NEW p \in Procs, Interrupted(p) PROVE Buried'
      <4>1. UNCHANGED <<cast, ended>> /\ name(p) \in Names BY <3>2 DEF Interrupted, IInv, Typed, name
      <4>2. CASE holds(p) /\ Stop(name(p))
        <5>1. run(p) \in Runs BY DEF IInv, Typed, run
        <5>2. byName[name(p)].run # None BY <4>2, <5>1, NoneAssumption DEF holds
        <5> QED BY <4>1, <4>2, <5>2, StopBuried
      <4>3. CASE UNCHANGED <<byName, tombstones, stopped>> BY <2>1, <4>1, <4>3
      <4> QED BY <3>2, <4>2, <4>3 DEF Interrupted
    <3> QED BY <2>3, <3>1, <3>2 DEF ClientNext
  <2>4. CASE EndNext BY <2>4, CloseRunBuried DEF EndNext
  <2>5. CASE WorldNext
    <3>1. CASE Restart BY <3>1 DEF Restart, Buried, Free
    <3>2. ASSUME NEW n \in Names, ExposeStop(n) PROVE Buried' BY <3>2, StopBuried DEF ExposeStop
    <3>3. ASSUME \/ \E p \in Procs : Interrupt(p)
                 \/ \E r \in Runs : EndRun(r) \/ KillSession(r)
                 \/ \E t \in Tunnels : Drop(t)
          PROVE  Buried'
      BY <2>1, <3>3 DEF Interrupt, EndRun, KillSession, Drop
    <3> QED BY <2>5, <3>1, <3>2, <3>3 DEF WorldNext
  <2>6. CASE UNCHANGED vars BY <2>1, <2>6 DEF vars
  <2> QED BY <2>2, <2>3, <2>4, <2>5, <2>6 DEF Next
<1>3. IInv /\ Buried => StoppedStays
  BY NoneAssumption DEF IInv, Named, Typed, Buried, StoppedStays, Free, name
<1> QED BY <1>1, <1>2, <1>3, PreviewsInvariant, InitInv, PTL DEF Spec
=============================================================================
