------------------------------ MODULE Previews ------------------------------
(***************************************************************************)
(* Previews: `labctl expose` and the registry that serves it.              *)
(*                                                                         *)
(* A labctl process opens a connection, lab authenticates its run,         *)
(* reserves the name, answers 101 and attaches the tunnel: four steps of   *)
(* one handler, between which the run may end, the name may be stopped,    *)
(* the connection may drop and a reconnect of the same process may be      *)
(* served by another handler.  The registry is in memory; the runs and     *)
(* the labctl processes survive a restart of lab, the tunnels do not.      *)
(*                                                                         *)
(* A tunnel is named by the connection that carries it, <<process, n>>.    *)
(***************************************************************************)
EXTENDS Integers, FiniteSets

CONSTANTS
  Runs, Names, Procs,
  Casts,         \* who runs where: functions from Procs to [run, name]
  Scenarios,     \* sets of disturbances, each of which happens at most once
  MaxConns,      \* bound: connections per process
  MaxPerRun, None

AllGestures == {"drop", "stop", "signal", "end", "kill", "crash"}
ASSUME CastsAssumption == Casts \subseteq [Procs -> [run : Runs, name : Names]] /\ Casts # {}
ASSUME BoundsAssumption == MaxConns \in Nat \ {0} /\ MaxPerRun \in Nat \ {0}
ASSUME ScenariosAssumption == Scenarios \subseteq SUBSET AllGestures

VARIABLES
  cast,        \* the run and the name of each process
  outcome,     \* the store: whether the run is active
  endsite,     \* the site that ends the run: nothing, EndRun done, CloseRun done, crashed
  byName, tombstones, ended,    \* the registry
  client,      \* the processes: where they are, and their latest connection
  conn,        \* per connection: the handler, the link, the control message
  gestures,
  stopped      \* history: the sessions, and the tunnels, that a Stop ended

registry == <<byName, tombstones, ended>>
vars == <<cast, outcome, endsite, registry, client, conn, gestures, stopped>>

Numbers == 1..MaxConns
Tunnels == Procs \X Numbers
ASSUME NoneAssumption == None \notin Runs \cup Procs \cup Tunnels
Controls == {"stopped", "run-ended", "replaced"}
NoConn == [lab |-> "none", up |-> FALSE, msg |-> "none"]
Free == [run |-> None, session |-> None, tun |-> None]

Init ==
  /\ cast \in Casts
  /\ outcome = [r \in Runs |-> "active"] /\ endsite = [r \in Runs |-> "none"]
  /\ byName = [n \in Names |-> Free] /\ tombstones = [n \in Names |-> None] /\ ended = {}
  /\ client = [p \in Procs |-> [pc |-> "off", n |-> 0]]
  /\ conn = [t \in Tunnels |-> NoConn]
  /\ gestures = {} /\ stopped = [session |-> {}, tunnel |-> {}]

run(p) == cast[p].run
name(p) == cast[p].name
holds(p) == byName[name(p)].run = run(p)
current(t) == client[t[1]].n = t[2]

(***************************************************************************)
(* The process: exposeLoop.                                                *)
(***************************************************************************)
\* The first attempt, or the next one after a backoff.
ExposeOpen(p) ==
  LET n == client[p].n + 1 IN
  /\ client[p].pc \in {"off", "backoff"} /\ n \in Numbers
  /\ client' = [client EXCEPT ![p] = [pc |-> "opening", n |-> n]]
  /\ conn' = [conn EXCEPT ![<<p, n>>] = [lab |-> "auth", up |-> TRUE, msg |-> "none"]]
  /\ UNCHANGED <<cast, outcome, endsite, registry, gestures, stopped>>

\* A process whose connection is gone: it reconnects, except on its first attempt.
afterDrop(c) == IF c.pc = "serving" \/ (c.pc = "opening" /\ c.n > 1) THEN [c EXCEPT !.pc = "backoff"]
                ELSE IF c.pc = "opening" THEN [c EXCEPT !.pc = "failed"] ELSE c

\* A final answer reaches the process only over a link that is up.
exits(t, how) == IF conn[t].up THEN [client EXCEPT ![t[1]].pc = how] ELSE client

(***************************************************************************)
(* The handler: AuthMiddleware, Reserve, the 101, Attach.                  *)
(***************************************************************************)
leave(t) == [conn EXCEPT ![t].lab = "gone", ![t].up = FALSE]

\* The token of an ended run is refused, whether its row is deleted or not.
Auth(t) ==
  /\ conn[t].lab = "auth"
  /\ IF outcome[run(t[1])] = "active"
     THEN conn' = [conn EXCEPT ![t].lab = "reserve"] /\ UNCHANGED client
     ELSE conn' = leave(t) /\ client' = exits(t, "failed")
  /\ UNCHANGED <<cast, outcome, endsite, registry, gestures, stopped>>

held(r) == {n \in Names : byName[n].run = r}

\* Mutant of reserveError: no tombstones.
reserveErrorForgets(p) ==
  CASE run(p) \in ended -> "failed"
    [] byName[name(p)].run \notin {None, run(p)} -> "failed"
    [] ~holds(p) /\ Cardinality(held(run(p))) >= MaxPerRun -> "failed"
    [] OTHER -> "none"

\* The refusals of Reserve, in order, as labctl ends on them (410 is "stopped").
reserveError(p) ==
  CASE run(p) \in ended -> "failed"
    [] tombstones[name(p)] = p -> "stopped"
    [] byName[name(p)].run \notin {None, run(p)} -> "failed"
    [] ~holds(p) /\ Cardinality(held(run(p))) >= MaxPerRun -> "failed"
    [] OTHER -> "none"

\* Reserve: one critical section.  A stopped session is forgotten once somebody
\* else reserved the name.
Reserve(t) ==
  LET p == t[1] IN
  /\ conn[t].lab = "reserve"
  /\ \/ /\ reserveError(p) # "none"
        /\ conn' = leave(t) /\ client' = exits(t, reserveError(p))
        /\ UNCHANGED <<registry, stopped>>
     \/ /\ reserveError(p) = "none"
        /\ byName' = [byName EXCEPT ![name(p)].run = run(p), ![name(p)].session = p]
        /\ tombstones' = [tombstones EXCEPT ![name(p)] = None]
        /\ conn' = [conn EXCEPT ![t].lab = "switch"]
        /\ LET kept(S) == {q \in S : q = p \/ name(q) # name(p)} IN
           stopped' = [session |-> kept(stopped.session), tunnel |-> kept(stopped.tunnel)]
        /\ UNCHANGED <<ended, client>>
  /\ UNCHANGED <<cast, outcome, endsite, gestures>>

\* The 101.  A write to a peer that is gone fails, or is swallowed once.
Switch(t) ==
  /\ conn[t].lab = "switch"
  /\ \/ /\ conn' = [conn EXCEPT ![t].lab = "attach"]
        /\ client' = exits(t, "serving")
     \/ /\ ~conn[t].up /\ conn' = leave(t)
        /\ UNCHANGED client
  /\ UNCHANGED <<cast, outcome, endsite, registry, gestures, stopped>>

\* The control message of a tunnel; only the first call of end has an effect.
ending(c, tun, msg) ==
  IF tun # None /\ c[tun].msg = "none" THEN [c EXCEPT ![tun].msg = msg] ELSE c

\* Mutant of Attach: the reservation is not checked again.
AttachUnchecked(t) ==
  /\ conn[t].lab = "attach"
  /\ byName' = [byName EXCEPT ![name(t[1])].tun = t]
  /\ conn' = [ending(conn, byName[name(t[1])].tun, "replaced") EXCEPT ![t].lab = "blocked"]
  /\ UNCHANGED <<cast, outcome, endsite, tombstones, ended, client, gestures, stopped>>

\* Attach: the reservation is checked under the lock that installs the tunnel.
Attach(t) ==
  LET p == t[1] IN
  /\ conn[t].lab = "attach"
  /\ IF holds(p)
     THEN /\ byName' = [byName EXCEPT ![name(p)].tun = t]
          /\ conn' = [ending(conn, byName[name(p)].tun, "replaced") EXCEPT ![t].lab = "blocked"]
     ELSE /\ conn' = [ending(conn, t, IF run(p) \in ended THEN "run-ended" ELSE "stopped")
                        EXCEPT ![t].lab = "blocked"]
          /\ UNCHANGED byName
  /\ UNCHANGED <<cast, outcome, endsite, tombstones, ended, client, gestures, stopped>>

\* The yamux session or its control stream fails: the link is down, and the
\* reservation stays as it is.
AttachFails(t) ==
  /\ conn[t].lab = "attach" /\ ~conn[t].up /\ conn' = leave(t)
  /\ UNCHANGED <<cast, outcome, endsite, registry, client, gestures, stopped>>

\* tunnel.end: the message is read, labctl leaves, the session closes.
Deliver(t) ==
  /\ conn[t].msg # "none" /\ conn[t].up
  /\ client' = exits(t, conn[t].msg)
  /\ conn' = [conn EXCEPT ![t].up = FALSE]
  /\ UNCHANGED <<cast, outcome, endsite, registry, gestures, stopped>>

\* Mutant of Detach: whatever tunnel is installed is taken out.
DetachAny(t) ==
  /\ conn[t].lab = "blocked" /\ ~conn[t].up
  /\ conn' = [conn EXCEPT ![t] = [NoConn EXCEPT !.lab = "gone"]]
  /\ byName' = [byName EXCEPT ![name(t[1])].tun = None]
  /\ UNCHANGED <<cast, outcome, endsite, tombstones, ended, client, gestures, stopped>>

\* The session died: the exposure stays reserved, but only the tunnel that is
\* still installed is taken out.
Detach(t) ==
  /\ conn[t].lab = "blocked" /\ ~conn[t].up
  /\ conn' = [conn EXCEPT ![t] = [NoConn EXCEPT !.lab = "gone"]]
  /\ byName' = IF byName[name(t[1])].tun = t THEN [byName EXCEPT ![name(t[1])].tun = None] ELSE byName
  /\ UNCHANGED <<cast, outcome, endsite, tombstones, ended, client, gestures, stopped>>

LabStep(t) ==
  \/ Auth(t) \/ Reserve(t) \/ Switch(t) \/ Attach(t) \/ AttachFails(t)
  \/ Deliver(t) \/ Detach(t)

(***************************************************************************)
(* Stop, and the end of a run.                                             *)
(***************************************************************************)
gesture(g) ==
  /\ g \notin gestures /\ \E s \in Scenarios : gestures \cup {g} \subseteq s
  /\ gestures' = gestures \cup {g}

\* Stop: the name is free at once, the message follows.
Stop(n) ==
  LET e == byName[n] IN
  /\ byName' = [byName EXCEPT ![n] = Free]
  /\ tombstones' = [tombstones EXCEPT ![n] = e.session]
  /\ stopped' = [session |-> stopped.session \cup {e.session},
                 tunnel |-> stopped.tunnel \cup (IF e.tun = None THEN {} ELSE {e.tun[1]})]

\* labctl expose stop, from the run that holds the name.
ExposeStop(n) ==
  /\ gesture("stop") /\ byName[n].run # None /\ outcome[byName[n].run] = "active"
  /\ Stop(n)
  /\ conn' = ending(conn, byName[n].tun, "stopped")
  /\ UNCHANGED <<cast, outcome, endsite, ended, client>>

\* SIGINT: the process drops its tunnel, then stops the name of its run.
Interrupt(p) ==
  /\ client[p].pc \in {"opening", "serving", "backoff"} /\ gesture("signal")
  /\ client' = [client EXCEPT ![p].pc = "stopping"]
  /\ conn' = [conn EXCEPT ![<<p, client[p].n>>].up = FALSE]
  /\ UNCHANGED <<cast, outcome, endsite, registry, stopped>>

\* The DELETE: the name of the run, whichever process serves it; best effort.
Interrupted(p) ==
  /\ client[p].pc = "stopping"
  /\ client' = [client EXCEPT ![p].pc = "stopped"]
  /\ \/ /\ holds(p) /\ outcome[run(p)] = "active"
        /\ Stop(name(p))
        /\ conn' = ending(conn, byName[name(p)].tun, "stopped")
     \/ UNCHANGED <<byName, tombstones, stopped, conn>>
  /\ UNCHANGED <<cast, outcome, endsite, ended, gestures>>

\* EndRun at any of the sites that end a run.
EndRun(r) ==
  /\ outcome[r] = "active" /\ gesture("end")
  /\ outcome' = [outcome EXCEPT ![r] = "ended"]
  /\ endsite' = [endsite EXCEPT ![r] = "closing"]
  /\ UNCHANGED <<cast, registry, client, conn, stopped>>

\* Mutant of CloseRun: the names go, the run is not remembered.
CloseRunForgets(r) ==
  LET names == {n \in Names : byName[n].run = r} IN
  /\ endsite[r] = "closing" /\ endsite' = [endsite EXCEPT ![r] = "closed"]
  /\ byName' = [n \in Names |-> IF n \in names THEN Free ELSE byName[n]]
  /\ UNCHANGED <<cast, outcome, tombstones, ended, client, gestures, stopped, conn>>

\* CloseRun, right after the tokens are deleted.
CloseRun(r) ==
  LET names == held(r)
      tuns == {byName[n].tun : n \in names} \ {None}
  IN
  /\ endsite[r] = "closing" /\ endsite' = [endsite EXCEPT ![r] = "closed"]
  /\ ended' = ended \cup {r}
  /\ tombstones' = [n \in Names |->
       IF tombstones[n] # None /\ run(tombstones[n]) = r THEN None ELSE tombstones[n]]
  /\ byName' = [n \in Names |-> IF n \in names THEN Free ELSE byName[n]]
  /\ conn' = [t \in Tunnels |-> IF t \in tuns THEN ending(conn, t, "run-ended")[t] ELSE conn[t]]
  /\ UNCHANGED <<cast, outcome, client, gestures, stopped>>

(***************************************************************************)
(* Faults.                                                                 *)
(***************************************************************************)
\* A link drops, or a control message times out on a wedged peer.
Drop(t) ==
  /\ conn[t].up /\ gesture("drop")
  /\ conn' = [conn EXCEPT ![t].up = FALSE]
  /\ client' = [client EXCEPT ![t[1]] = afterDrop(@)]
  /\ UNCHANGED <<cast, outcome, endsite, registry, stopped>>

\* The session of a run dies with its processes.
KillSession(r) ==
  /\ gesture("kill")
  /\ client' = [p \in Procs |-> IF run(p) = r THEN [client[p] EXCEPT !.pc = "killed"] ELSE client[p]]
  /\ conn' = [t \in Tunnels |-> IF run(t[1]) = r THEN [conn[t] EXCEPT !.up = FALSE] ELSE conn[t]]
  /\ UNCHANGED <<cast, outcome, endsite, registry, stopped>>

\* lab restarts: the registry, the handlers and the sites are gone.
Restart ==
  /\ gesture("crash")
  /\ byName' = [n \in Names |-> Free] /\ tombstones' = [n \in Names |-> None] /\ ended' = {}
  /\ endsite' = [r \in Runs |-> IF endsite[r] = "closing" THEN "crashed" ELSE endsite[r]]
  /\ client' = [p \in Procs |-> afterDrop(client[p])]
  /\ conn' = [t \in Tunnels |-> IF conn[t].lab = "none" THEN NoConn ELSE [NoConn EXCEPT !.lab = "gone"]]
  /\ stopped' = [session |-> {}, tunnel |-> {}]
  /\ UNCHANGED <<cast, outcome>>

LabNext == \E t \in Tunnels : LabStep(t)
ClientNext == \E p \in Procs : ExposeOpen(p) \/ Interrupted(p)
EndNext == \E r \in Runs : CloseRun(r)
WorldNext ==
  \/ Restart
  \/ \E n \in Names : ExposeStop(n)
  \/ \E p \in Procs : Interrupt(p)
  \/ \E r \in Runs : EndRun(r) \/ KillSession(r)
  \/ \E t \in Tunnels : Drop(t)

Next == LabNext \/ ClientNext \/ EndNext \/ WorldNext

\* Goroutines run, keepalives expire, backoffs end; every connection takes
\* finitely many steps, so one weak fairness each is enough.
Spec == Init /\ [][Next]_vars /\ WF_vars(LabNext) /\ WF_vars(ClientNext) /\ WF_vars(EndNext)

(***************************************************************************)
(* Properties.                                                             *)
(***************************************************************************)
ClientPcs == {"off", "opening", "serving", "backoff", "stopping", "failed", "killed"} \cup Controls

TypeOK ==
  /\ \A n \in Names : /\ byName[n].run \in Runs \cup {None}
                      /\ (byName[n].run = None) => byName[n] = Free
                      /\ byName[n].tun \in Tunnels \cup {None}
                      /\ (tombstones[n] # None) => name(tombstones[n]) = n
  /\ \A p \in Procs : client[p].pc \in ClientPcs /\ client[p].n \in 0..MaxConns
  /\ \A t \in Tunnels : /\ conn[t].msg \in Controls \cup {"none"}
                        /\ (conn[t].up => current(t))
  /\ ended \subseteq Runs /\ gestures \subseteq AllGestures

\* The tunnel that serves a name belongs to the run that holds it: however a
\* Reserve, a Stop, another run's Reserve and the first one's Attach interleave, a
\* browser on the name never reaches a sibling's app (Attach checks again).
TunnelOfHolder ==
  \A n \in Names : byName[n].tun # None =>
    LET t == byName[n].tun IN run(t[1]) = byName[n].run /\ name(t[1]) = n /\ conn[t].lab = "blocked"

\* An ended run keeps no name: not after its CloseRun, although a request that
\* was authenticated before may still reserve or attach, nor after a restart that
\* lost the CloseRun (Registry.ended; the order EndRun, tokens, CloseRun).
EndedHoldsNothing ==
  \A n \in Names : byName[n].run # None => endsite[byName[n].run] \in {"none", "closing"}

\* A session whose exposure was stopped between its tunnels does not come back,
\* until somebody else reserved the name or lab restarted (Registry.tombstones).
StoppedStays == \A p \in stopped.session : byName[name(p)].session # p

\* What is left when the disturbances end: every process has left, or serves the
\* tunnel that is installed; no browser waits on a process that is gone, and no
\* process on a tunnel lab has dropped.
Settled ==
  /\ \A p \in Procs : \/ client[p].pc \in {"failed", "killed"} \cup Controls
                      \/ client[p].pc = "serving" /\ byName[name(p)].tun = <<p, client[p].n>>
  /\ \A n \in Names : byName[n].tun # None => client[byName[n].tun[1]].pc = "serving"
Settles == <>[]Settled

\* "A message lost anyway is not a resurrection risk": a process whose tunnel was
\* stopped does not attach again, until somebody else reserved the name.
StopIsFinal == \A p \in stopped.tunnel : byName[name(p)].session # p

\* "replaced" tells of a newer tunnel: of another process, or of a later attempt.
ReplacedByNewer ==
  [][\A t \in Tunnels : (conn[t].msg = "none" /\ conn'[t].msg = "replaced") =>
       LET u == byName'[name(t[1])].tun IN u[1] # t[1] \/ u[2] > t[2]]_vars
=============================================================================
