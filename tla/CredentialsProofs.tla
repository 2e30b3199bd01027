------------------------- MODULE CredentialsProofs -------------------------
(***************************************************************************)
(* For any number of runs, any number of generations and every set of      *)
(* disturbances: no adoption regresses, no step of lab destroys the last   *)
(* copy of the family in force, nothing is written into a home on its way  *)
(* out.                                                                    *)
(*                                                                         *)
(* A family rotates only while its access token is due, and a token comes  *)
(* due only after a whole tick has passed over it.  So the files that      *)
(* moved by themselves are adopted, or gone, before the next rotation: at  *)
(* any time all of them hold the family in force, or are logged out.       *)
(***************************************************************************)
EXTENDS Credentials, FiniteSetTheorems, TLAPS

Hosts == Runs \cup {Host}
Phases == {"none", "injected", "live", "ended", "rolled", "checked", "bare", "gone"}
Work == [by : {None} \cup Hosts,
         pc : {"idle", "scan", "adopt", "poke", "poking", "compare", "fan", "stamp"},
         at : {None} \cup Runs, live : SUBSET Runs, cands : Seq(Runs), todo : SUBSET Runs, then : {"idle", "poke"}]

Typed ==
  /\ latest \in [Grants -> Nat] /\ token \in {"new", "watched", "old", "due"}
  /\ master \in Credentials /\ home \in [Runs -> Credentials]
  /\ base \in [Runs -> {"none", "same", "diverged"}]
  /\ phase \in [Runs -> Phases]
  /\ cli \in [Hosts -> [there : BOOLEAN, answer : Credentials]]
  /\ seen \in {"none", "same", "changed"} /\ work \in Work /\ trouble \subseteq AllTrouble

\* The ages of the files are a strict order, and tell those that exist apart.
Ordered ==
  \A r, s \in Runs : /\ <<r, s>> \in order => <<s, r>> \notin order
                     /\ (r # s /\ home[r] # Out) => <<r, s>> \in order \/ <<s, r>> \in order

\* A CLI lives in its session, and presents what its home holds.
Housed ==
  /\ \A h \in Hosts : ~cli[h].there => cli[h].answer = Out
  /\ \A r \in Runs : /\ cli[r].there => phase[r] = "live"
                     /\ home[r] = Out => cli[r].answer = Out
                     /\ phase[r] \in {"none", "gone"} => base[r] = "none" /\ home[r] = Out
                     /\ base[r] = "diverged" => phase[r] \notin {"none", "injected", "gone"}

\* Who holds mu, and which homes it has in hand.
Working ==
  /\ work.by = None => work = Rest
  /\ work.by # None => work.pc # "idle"
  /\ work.by \in Runs => work.pc \in {"fan", "stamp"} /\ work.then = "idle" /\ phase[work.by] = "ended"
  /\ work.pc = "poking" <=> cli[Host].there
  /\ work.pc \in {"fan", "stamp"} => master # Out
  /\ \A r \in work.live \cup work.todo : phase[r] \in {"live", "ended", "rolled"}
  /\ work.pc = "stamp" => work.at \in Runs /\ phase[work.at] \in {"live", "ended", "rolled"}
  /\ \A i \in DOMAIN work.cands : work.cands[i] \in work.live

\* The homes whose CLI refreshed by itself, and is logged in; lab's own write moves
\* a signature until it is read back.
Moved == {r \in Runs : base[r] = "diverged" /\ home[r] # Out /\ ~stamping(r)}

\* Without a disturbance there is one grant, and nothing is ahead of the provider.
OneGrant ==
  /\ latest[2] = 0
  /\ \A f \in {master} \cup {home[r] : r \in Runs} \cup {cli[h].answer : h \in Hosts} :
       f = Out \/ (f[1] = 1 /\ f[2] <= latest[1])

\* What moved is in force, and nothing has moved when the next rotation is due.
InForce ==
  /\ \A r \in Moved : valid(home[r])
  /\ \A h \in Hosts : cli[h].answer # Out => valid(cli[h].answer) /\ token = "new"
  /\ token = "due" => Moved = {}

\* The tick that watches a token comes to every home that moved before it.
inHand(r) ==
  CASE work.pc = "scan" -> r \in work.live
    [] work.pc = "adopt" -> \E i \in DOMAIN work.cands : work.cands[i] = r
    [] work.pc \in {"fan", "stamp"} -> r \in work.todo
    [] OTHER -> FALSE
Watched ==
  /\ token = "watched" => work.by = Host /\ \A r \in Moved : phase[r] = "live" => inHand(r)
  /\ token = "old" => \A r \in Moved : phase[r] # "live"
  /\ work.pc = "adopt" => \A i \in DOMAIN work.cands : base[work.cands[i]] = "diverged"

\* A home lab wrote, or may wipe, holds nothing the master store has not.
Backed ==
  /\ \A r \in Runs : (base[r] # "diverged" \/ phase[r] = "checked") /\ valid(home[r]) => valid(master)
  /\ work.pc = "poking" /\ cli[Host].answer = Out => ~valid(master)

\* What is fanned out is in force, but for the first fan-out of a start.
unseen == seen = "none" /\ work.by = Host /\ work.then = "idle"
Fanned ==
  /\ work.pc \in {"fan", "stamp"} /\ ~unseen =>
       /\ valid(master) /\ token # "due"
       /\ token = "old" => \E r \in Runs : phase[r] = "ended"
  /\ work.pc = "compare" /\ seen = "changed" => master = Out \/ (valid(master) /\ token = "new")
  /\ seen = "changed" => work.pc \in {"fan", "stamp", "compare"}

\* What is stamped is what was injected; a home without a signature is empty.
Clean ==
  /\ work.pc = "stamp" => home[work.at] = master
  /\ \A r \in Runs : /\ phase[r] \notin {"rolled", "bare"}
                     /\ base[r] = "none" => home[r] = Out \/ stamping(r)

Calm == OneGrant /\ InForce /\ Watched /\ Backed /\ Fanned
Always == Typed /\ Ordered /\ Housed /\ Working
IInv == Always /\ (trouble = {} => Calm /\ Clean)

USE DEF Hosts, Phases, Grants, stamping, wipeable

LEMMA Names == None # Host /\ None \notin Runs /\ Host \notin Runs /\ MaxGeneration \in Nat /\ MaxGeneration >= 1
BY NamesAssumption, BoundsAssumption

LEMMA Credential ==
  /\ Out \in Credentials /\ Out[1] = 0 /\ Out[2] = 0
  /\ \A f \in Credentials : f = Out \/ (f[1] \in Grants /\ f[2] \in 1..MaxGeneration /\ f # Out)
  /\ \A g \in Grants, n \in 1..MaxGeneration : <<g, n>> \in Credentials /\ <<g, n>> # Out
BY Names DEF Credentials, Families, Out

LEMMA RestShape ==
  /\ Rest \in Work /\ Rest.by = None /\ Rest.pc = "idle" /\ Rest.live = {} /\ Rest.todo = {}
  /\ Rest.then = "idle" /\ Rest.cands = <<>> /\ Rest.at = None
<1>1. <<>> \in Seq(Runs) OBVIOUS
<1> QED BY <1>1 DEF Rest, Work

LEMMA QuietShape ==
  /\ Quiet \in [there : BOOLEAN, answer : Credentials] /\ Quiet.there = FALSE /\ Quiet.answer = Out
BY Credential DEF Quiet

LEMMA FanShape ==
  ASSUME work \in Work, NEW by \in Hosts, NEW todo \in SUBSET Runs, NEW then \in {"idle", "poke"}
  PROVE  LET w == fan(by, todo, then) IN
         /\ w \in Work /\ w.by = by /\ w.pc = "fan" /\ w.live = work.live /\ w.todo = todo
         /\ w.then = then /\ w.cands = <<>>
<1>1. <<>> \in Seq(Runs) OBVIOUS
<1> QED BY <1>1 DEF fan, Work

LEMMA LiveRuns == live \subseteq Runs BY DEF live

\* A request: the family rotates, or its CLI is refused.
LEMMA Requested ==
  ASSUME Typed, NEW h \in Hosts, NEW f \in Credentials, request(h, f)
  PROVE  /\ latest' \in [Grants -> Nat] /\ token' \in {"new", "watched", "old", "due"}
         /\ cli' \in [Hosts -> [there : BOOLEAN, answer : Credentials]]
         /\ ~cli[h].there /\ cli'[h].there /\ \A j \in Hosts : j # h => cli'[j] = cli[j]
         /\ f # Out
         /\ \/ /\ valid(f) /\ token = "due" /\ token' = "new"
               /\ latest' = [latest EXCEPT ![f[1]] = @ + 1]
               /\ cli'[h].answer = <<f[1], f[2] + 1>> /\ cli'[h].answer # Out
            \/ /\ ~valid(f) /\ UNCHANGED provider /\ cli'[h].answer = Out
<1>0. /\ latest \in [Grants -> Nat] /\ cli \in [Hosts -> [there : BOOLEAN, answer : Credentials]]
      /\ token \in {"new", "watched", "old", "due"}
  BY DEF Typed
<1>1. CASE valid(f)
  <2>1. /\ f # Out /\ ~cli[h].there /\ token = "due" /\ latest[1] + latest[2] < MaxGeneration
        /\ latest' = [latest EXCEPT ![f[1]] = @ + 1] /\ token' = "new"
        /\ cli' = [cli EXCEPT ![h] = [there |-> TRUE, answer |-> <<f[1], f[2] + 1>>]]
    BY <1>1 DEF request
  <2>2. f[1] \in Grants /\ f[2] \in 1..MaxGeneration /\ latest[f[1]] = f[2]
    BY <1>1, <2>1, Credential DEF valid
  <2>3. f[2] + 1 \in 1..MaxGeneration
    <3>1. latest[1] \in Nat /\ latest[2] \in Nat BY <1>0
    <3> QED BY <2>1, <2>2, <3>1, Names
  <2> DEFINE a == <<f[1], f[2] + 1>>
  <2>4. a \in Credentials /\ a # Out BY <2>2, <2>3, Credential
  <2>5. latest' \in [Grants -> Nat] BY <1>0, <2>1, <2>2
  <2> HIDE DEF a
  <2>6. cli' = [cli EXCEPT ![h] = [there |-> TRUE, answer |-> a]] BY <2>1 DEF a
  <2>7. /\ cli' \in [Hosts -> [there : BOOLEAN, answer : Credentials]]
        /\ cli'[h].there /\ cli'[h].answer = a /\ \A j \in Hosts : j # h => cli'[j] = cli[j]
    BY <1>0, <2>4, <2>6
  <2> QED BY <1>1, <2>1, <2>4, <2>5, <2>7 DEF a
<1>2. CASE ~valid(f)
  <2>1. /\ f # Out /\ ~cli[h].there /\ UNCHANGED provider
        /\ cli' = [cli EXCEPT ![h] = [there |-> TRUE, answer |-> Out]]
    BY <1>2 DEF request
  <2>2. Out \in Credentials BY Credential
  <2> QED BY <1>0, <1>2, <2>1, <2>2 DEF provider
<1> QED BY <1>1, <1>2

\* A file that is written is the newest, and the order stays one.
LEMMA Touched ==
  ASSUME Ordered, NEW r \in Runs, touched(r),
         \A s \in Runs : s # r => (home'[s] # Out => home[s] # Out)
  PROVE  Ordered'
<1>1. \A a, b \in Runs :
        <<a, b>> \in order' <=> (a # r /\ b # r /\ <<a, b>> \in order) \/ (a # r /\ b = r)
  BY DEF touched
<1> QED BY <1>1 DEF Ordered

LEMMA Untouched ==
  ASSUME Ordered, order' = order, \A s \in Runs : home'[s] # Out => home[s] # Out
  PROVE  Ordered'
BY DEF Ordered

LEMMA InitKeeps == Init => IInv
<1> SUFFICES ASSUME Init PROVE IInv OBVIOUS
<1> USE Names, Credential, RestShape, QuietShape DEF Init
<1>1. Typed
  <2>1. <<1, 1>> \in Credentials OBVIOUS
  <2>2. work \in Work BY RestShape
  <2>3. cli \in [Hosts -> [there : BOOLEAN, answer : Credentials]] BY QuietShape
  <2> QED BY <2>1, <2>2, <2>3 DEF Typed
<1>2. Ordered BY DEF Ordered
<1>3. Housed BY QuietShape DEF Housed
<1>4. Working BY RestShape, QuietShape DEF Working
<1>5. OneGrant BY QuietShape DEF OneGrant
<1>6. InForce /\ Watched /\ Backed /\ Fanned
  BY RestShape, QuietShape DEF InForce, Watched, Backed, Fanned, Moved, valid
<1>7. Clean BY RestShape DEF Clean
<1> QED BY <1>1, <1>2, <1>3, <1>4, <1>5, <1>6, <1>7 DEF IInv, Always, Calm

(***************************************************************************)
(* What always holds.                                                      *)
(***************************************************************************)
\* A step at the provider and at the CLIs.
LEMMA WorldAlways ==
  ASSUME Always,
         Ages \/ LogIn \/ \E r \in Runs : Refresh(r) \/ Refreshed(r)
  PROVE  Always'
<1> USE DEF Always
<1>1. CASE Ages
  <2>1. token' = "due" /\ UNCHANGED <<latest, files, phase, cli, seen, work, trouble>>
    BY <1>1 DEF Ages
  <2> QED BY <2>1 DEF Typed, Ordered, Housed, Working, files
<1>2. CASE LogIn
  <2>1. /\ latest' = [latest EXCEPT ![2] = 1] /\ master' = <<2, 1>> /\ seen' = changed
        /\ token' = "new" /\ trouble' = trouble \cup {"login"}
        /\ UNCHANGED <<home, base, order, phase, cli, work>>
    BY <1>2 DEF LogIn, happens
  <2>2. master' \in Credentials /\ master' # Out BY <2>1, Credential, Names
  <2>3. Typed' BY <2>1, <2>2 DEF Typed, changed, AllTrouble
  <2>4. (Ordered /\ Housed /\ Working)' BY <2>1, <2>2 DEF Ordered, Housed, Working
  <2> QED BY <2>3, <2>4
<1>3. ASSUME NEW r \in Runs, Refresh(r) PROVE Always'
  <2>1. active(r) /\ request(r, home[r]) /\ UNCHANGED <<files, phase, seen, work, trouble>>
    BY <1>3 DEF Refresh
  <2>2. home[r] \in Credentials BY DEF Typed
  <2>3. /\ latest' \in [Grants -> Nat] /\ token' \in {"new", "watched", "old", "due"}
        /\ cli' \in [Hosts -> [there : BOOLEAN, answer : Credentials]]
        /\ cli'[r].there /\ \A j \in Hosts : j # r => cli'[j] = cli[j]
        /\ home[r] # Out
    BY <2>1, <2>2, Requested
  <2>4. Typed' BY <2>1, <2>3 DEF Typed, files
  <2>5. Ordered' BY <2>1 DEF Ordered, files
  <2>6. Housed' BY <2>1, <2>3 DEF Housed, files, active
  <2>7. Working' BY <2>1, <2>3, Names DEF Working, files
  <2> QED BY <2>4, <2>5, <2>6, <2>7
<1>4. ASSUME NEW r \in Runs, Refreshed(r) PROVE Always'
  <2>1. /\ cli[r].there /\ cli' = [cli EXCEPT ![r] = Quiet]
        /\ home' = [home EXCEPT ![r] = cli[r].answer] /\ base' = [base EXCEPT ![r] = moved(@)]
        /\ touched(r) /\ token' \in {token, "new"}
        /\ trouble' = trouble \/ trouble' = trouble \cup {"race"}
        /\ UNCHANGED <<latest, master, phase, seen, work>>
    BY <1>4 DEF Refreshed, happens
  <2>2. /\ home \in [Runs -> Credentials] /\ base \in [Runs -> {"none", "same", "diverged"}]
        /\ cli \in [Hosts -> [there : BOOLEAN, answer : Credentials]]
    BY DEF Typed
  <2>3. /\ cli' \in [Hosts -> [there : BOOLEAN, answer : Credentials]]
        /\ cli'[r] = Quiet /\ \A j \in Hosts : j # r => cli'[j] = cli[j]
    BY <2>1, <2>2, QuietShape
  <2>4. /\ home' \in [Runs -> Credentials] /\ home'[r] = cli[r].answer
        /\ \A s \in Runs : s # r => home'[s] = home[s]
    BY <2>1, <2>2
  <2>5. moved(base[r]) \in {"none", "diverged"} /\ (moved(base[r]) = "none" <=> base[r] = "none")
    BY DEF moved
  <2>6. /\ base' \in [Runs -> {"none", "same", "diverged"}]
        /\ base'[r] = moved(base[r]) /\ \A s \in Runs : s # r => base'[s] = base[s]
    BY <2>1, <2>2, <2>5
  <2>7. Typed' BY <2>1, <2>3, <2>4, <2>6 DEF Typed, AllTrouble
  <2>8. Ordered' BY <2>1, <2>4, Touched
  <2>9. Housed' BY <2>1, <2>3, <2>4, <2>5, <2>6, QuietShape, Names DEF Housed
  <2>10. Working' BY <2>1, <2>3, Names DEF Working
  <2> QED BY <2>7, <2>8, <2>9, <2>10
<1> QED BY <1>1, <1>2, <1>3, <1>4

\* A run from its launch to the removal of its home.
LEMMA RunAlways ==
  ASSUME Always, NEW r \in Runs,
         Inject(r) \/ CreateRun(r) \/ EndRun(r) \/ Rollback(r) \/ Wipe(r) \/ WipeFails(r)
  PROVE  Always'
<1> USE DEF Always
<1>0. /\ home \in [Runs -> Credentials] /\ base \in [Runs -> {"none", "same", "diverged"}]
      /\ cli \in [Hosts -> [there : BOOLEAN, answer : Credentials]] /\ phase \in [Runs -> Phases]
      /\ master \in Credentials
  BY DEF Typed
<1>1. CASE Inject(r)
  <2>1. /\ phase[r] = "none" /\ phase' = [phase EXCEPT ![r] = "injected"]
        /\ home' = [home EXCEPT ![r] = master] /\ base' = [base EXCEPT ![r] = stamp(master)]
        /\ touched(r) /\ UNCHANGED <<provider, master, cli, seen, work, trouble>>
    BY <1>1 DEF Inject
  <2>2. stamp(master) \in {"none", "same"} /\ (stamp(master) = "none" <=> master = Out)
    BY DEF stamp
  <2>3. /\ phase' \in [Runs -> Phases] /\ home' \in [Runs -> Credentials]
        /\ base' \in [Runs -> {"none", "same", "diverged"}]
        /\ phase'[r] = "injected" /\ home'[r] = master /\ base'[r] = stamp(master)
        /\ \A s \in Runs : s # r => home'[s] = home[s] /\ base'[s] = base[s] /\ phase'[s] = phase[s]
    BY <1>0, <2>1, <2>2
  <2>4. Typed' BY <2>1, <2>3 DEF Typed, provider
  <2>5. Ordered' BY <2>1, <2>3, Touched
  <2>6. Housed' BY <2>1, <2>2, <2>3 DEF Housed
  <2>7. Working' BY <2>1, <2>3 DEF Working
  <2> QED BY <2>4, <2>5, <2>6, <2>7
<1>2. CASE CreateRun(r)
  <2>1. /\ phase[r] = "injected" /\ phase' = [phase EXCEPT ![r] = "live"]
        /\ UNCHANGED <<provider, files, cli, seen, work, trouble>>
    BY <1>2 DEF CreateRun
  <2>2. /\ phase' \in [Runs -> Phases] /\ phase'[r] = "live"
        /\ \A s \in Runs : s # r => phase'[s] = phase[s]
    BY <1>0, <2>1
  <2>3. Typed' /\ Ordered' BY <2>1, <2>2 DEF Typed, Ordered, provider, files
  <2>4. Housed' /\ Working' BY <2>1, <2>2 DEF Housed, Working, files
  <2> QED BY <2>3, <2>4
<1>3. CASE EndRun(r)
  <2>1. /\ phase[r] = "live" /\ phase' = [phase EXCEPT ![r] = "ended"]
        /\ cli' = [cli EXCEPT ![r] = Quiet]
        /\ UNCHANGED <<provider, files, seen, work, trouble>>
    BY <1>3 DEF EndRun
  <2>2. /\ phase' \in [Runs -> Phases] /\ phase'[r] = "ended"
        /\ \A s \in Runs : s # r => phase'[s] = phase[s]
    BY <1>0, <2>1
  <2>3. /\ cli' \in [Hosts -> [there : BOOLEAN, answer : Credentials]]
        /\ cli'[r] = Quiet /\ \A j \in Hosts : j # r => cli'[j] = cli[j]
    BY <1>0, <2>1, QuietShape
  <2>4. Typed' /\ Ordered' BY <2>1, <2>2, <2>3 DEF Typed, Ordered, provider, files
  <2>5. Housed' /\ Working' BY <2>1, <2>2, <2>3, QuietShape, Names DEF Housed, Working, files
  <2> QED BY <2>4, <2>5
<1>6. CASE Rollback(r)
  <2>1. /\ phase[r] \in {"injected", "live"} /\ phase' = [phase EXCEPT ![r] = "rolled"]
        /\ cli' = [cli EXCEPT ![r] = Quiet] /\ trouble' = trouble \cup {"rollback"}
        /\ UNCHANGED <<provider, files, seen, work>>
    BY <1>6 DEF Rollback, happens
  <2>2. /\ phase' \in [Runs -> Phases] /\ phase'[r] = "rolled"
        /\ \A s \in Runs : s # r => phase'[s] = phase[s]
    BY <1>0, <2>1
  <2>3. /\ cli' \in [Hosts -> [there : BOOLEAN, answer : Credentials]]
        /\ cli'[r] = Quiet /\ \A j \in Hosts : j # r => cli'[j] = cli[j]
    BY <1>0, <2>1, QuietShape
  <2>4. Typed' /\ Ordered' BY <2>1, <2>2, <2>3 DEF Typed, Ordered, provider, files, AllTrouble
  <2>5. Housed' /\ Working' BY <2>1, <2>2, <2>3, QuietShape, Names DEF Housed, Working, files
  <2> QED BY <2>4, <2>5
<1>4. CASE Wipe(r)
  <2>1. /\ wipeable(r) /\ phase' = [phase EXCEPT ![r] = "gone"]
        /\ home' = [home EXCEPT ![r] = Out] /\ base' = [base EXCEPT ![r] = "none"]
        /\ UNCHANGED <<provider, master, order, cli, seen, work, trouble>>
    BY <1>4 DEF Wipe
  <2>2. /\ phase' \in [Runs -> Phases] /\ home' \in [Runs -> Credentials]
        /\ base' \in [Runs -> {"none", "same", "diverged"}]
        /\ phase'[r] = "gone" /\ home'[r] = Out /\ base'[r] = "none"
        /\ \A s \in Runs : s # r => home'[s] = home[s] /\ base'[s] = base[s] /\ phase'[s] = phase[s]
    BY <1>0, <2>1, Credential
  <2>3. Typed' BY <2>1, <2>2 DEF Typed, provider
  <2>4. Ordered' BY <2>1, <2>2 DEF Ordered
  <2>5. ~cli[r].there BY <2>1 DEF Housed
  <2>6. Housed' /\ Working' BY <2>1, <2>2, <2>5 DEF Housed, Working
  <2> QED BY <2>3, <2>4, <2>6
<1>5. CASE WipeFails(r)
  <2> DEFINE p == IF phase[r] = "bare" THEN "rolled" ELSE "ended"
  <2>1. /\ wipeable(r) /\ phase' = [phase EXCEPT ![r] = p]
        /\ trouble' = trouble \cup {"stuck"} /\ UNCHANGED <<provider, files, cli, seen, work>>
    BY <1>5 DEF WipeFails, happens
  <2>2. /\ phase' \in [Runs -> Phases] /\ phase'[r] \in {"ended", "rolled"}
        /\ \A s \in Runs : s # r => phase'[s] = phase[s]
    BY <1>0, <2>1
  <2>3. Typed' /\ Ordered' BY <2>1, <2>2 DEF Typed, Ordered, provider, files, AllTrouble
  <2>4. Housed' /\ Working' BY <2>1, <2>2 DEF Housed, Working, files
  <2> QED BY <2>3, <2>4
<1> QED BY <1>1, <1>2, <1>3, <1>4, <1>5, <1>6

\* A step of the holder of mu that touches no home and no CLI.
LEMMA HolderAlways ==
  ASSUME Always, UNCHANGED <<latest, home, base, order, cli>>,
         token' \in {"new", "watched", "old", "due"}, master' \in Credentials,
         phase' \in [Runs -> Phases], seen' \in {"none", "same", "changed"},
         trouble' \subseteq AllTrouble, work' \in Work,
         \A r \in Runs : phase'[r] = phase[r] \/ (phase[r] \in {"ended", "rolled"} /\ phase'[r] \in {"checked", "bare"}),
         Working'
  PROVE  Always'
<1> USE DEF Always
<1>1. Typed' BY DEF Typed
<1>2. Ordered' BY DEF Ordered
<1>3. Housed' BY DEF Housed
<1> QED BY <1>1, <1>2, <1>3

LEMMA CheckAlways == ASSUME Always, NEW r \in Runs, AdoptCheck(r) PROVE Always'
<1> USE DEF Always
<1>1. /\ phase[r] = "ended" /\ work = Rest
      /\ UNCHANGED <<latest, token, home, base, order, cli, trouble>>
  BY DEF AdoptCheck, provider
<1>2. /\ home \in [Runs -> Credentials] /\ phase \in [Runs -> Phases] /\ work \in Work
      /\ master \in Credentials /\ seen \in {"none", "same", "changed"}
      /\ token \in {"new", "watched", "old", "due"} /\ trouble \subseteq AllTrouble
  BY DEF Typed
<1>3. CASE nothing(r)
  <2>1. phase' = [phase EXCEPT ![r] = "checked"] /\ UNCHANGED <<master, seen, work>>
    BY <1>3 DEF AdoptCheck
  <2>2. /\ phase' \in [Runs -> Phases] /\ phase'[r] = "checked"
        /\ \A s \in Runs : s # r => phase'[s] = phase[s]
    BY <1>2, <2>1
  <2>3. Working' BY <1>1, <2>1, <2>2, RestShape, Names DEF Working
  <2> QED BY <1>1, <1>2, <2>1, <2>2, <2>3, HolderAlways
<1>4. CASE ~nothing(r)
  <2>1. /\ master' = home[r] /\ seen' = changed /\ work' = fan(r, live, "idle") /\ phase' = phase
    BY <1>4 DEF AdoptCheck
  <2>2. master' \in Credentials /\ master' # Out /\ seen' \in {"none", "same", "changed"}
    BY <1>2, <1>4, <2>1 DEF nothing, changed
  <2>3. /\ work' \in Work /\ work'.by = r /\ work'.pc = "fan" /\ work'.live = {} /\ work'.todo = live
        /\ work'.then = "idle" /\ work'.cands = <<>>
    BY <1>1, <1>2, <2>1, FanShape, LiveRuns, RestShape
  <2>4. ~cli[Host].there BY <1>1, RestShape DEF Working
  <2>5. \A s \in live : phase[s] = "live" BY DEF live, active
  <2>6. Working' BY <1>1, <2>1, <2>2, <2>3, <2>4, <2>5, Names DEF Working
  <2> QED BY <1>1, <1>2, <2>1, <2>2, <2>3, <2>6, HolderAlways
<1> QED BY <1>3, <1>4

LEMMA CheckFailsAlways ==
  ASSUME Always, NEW r \in Runs, AdoptCheckFails(r) \/ AdoptCheckNoRow(r)
  PROVE  Always'
<1> USE DEF Always
<1>1. /\ phase[r] \in {"ended", "rolled"} /\ work = Rest
      /\ UNCHANGED <<latest, token, master, home, base, order, cli, seen, work>>
      /\ trouble' \subseteq AllTrouble
      /\ \E p \in {"checked", "bare"} : phase' = [phase EXCEPT ![r] = p]
  BY DEF AdoptCheckFails, AdoptCheckNoRow, happens, provider, files, Typed, AllTrouble
<1>2. phase \in [Runs -> Phases] /\ Rest \in Work BY RestShape DEF Typed
<1>3. /\ phase' \in [Runs -> Phases] /\ phase'[r] \in {"checked", "bare"}
      /\ \A s \in Runs : s # r => phase'[s] = phase[s]
  BY <1>1, <1>2
<1>4. Working' BY <1>1, <1>3, RestShape, Names DEF Working
<1> QED BY <1>1, <1>2, <1>3, <1>4, HolderAlways DEF Typed

LEMMA AdoptFailsAlways == ASSUME Always, AdoptFails PROVE Always'
<1> USE DEF Always
<1>1. /\ work.pc = "adopt" /\ work' = [work EXCEPT !.cands = Tail(@)] /\ work.cands # <<>>
      /\ UNCHANGED <<latest, token, master, home, base, order, phase, cli, seen>>
      /\ trouble' \subseteq AllTrouble
  BY DEF AdoptFails, happens, provider, files, Typed, AllTrouble
<1>2. work \in Work /\ work.cands \in Seq(Runs) BY DEF Typed, Work
<1>3. /\ Tail(work.cands) \in Seq(Runs)
      /\ \A i \in DOMAIN Tail(work.cands) :
           i + 1 \in DOMAIN work.cands /\ Tail(work.cands)[i] = work.cands[i + 1]
  BY <1>1, <1>2
<1>4. /\ work' \in Work /\ work'.pc = "adopt" /\ work'.by = work.by /\ work'.live = work.live
      /\ work'.todo = work.todo /\ work'.cands = Tail(work.cands)
  BY <1>1, <1>2, <1>3 DEF Work
<1>5. work.by # None BY <1>1, RestShape DEF Working
<1>6. Working' BY <1>1, <1>3, <1>4, <1>5 DEF Working
<1> QED BY <1>1, <1>4, <1>6, HolderAlways DEF Typed

LEMMA TickAlways ==
  ASSUME Always, TickStart \/ Adopt \/ Poke \/ PokeIdle \/ Poked \/ Compare \/ FanOutDone
  PROVE  Always'
<1> USE DEF Always
<1>0. /\ home \in [Runs -> Credentials] /\ phase \in [Runs -> Phases] /\ work \in Work
      /\ master \in Credentials /\ seen \in {"none", "same", "changed"}
      /\ token \in {"new", "watched", "old", "due"} /\ trouble \subseteq AllTrouble
      /\ cli \in [Hosts -> [there : BOOLEAN, answer : Credentials]]
  BY DEF Typed
<1>1. CASE TickStart
  <2>1. /\ work = Rest /\ work' = [Rest EXCEPT !.by = Host, !.pc = "scan", !.live = live]
        /\ token' \in {token, "watched"} /\ UNCHANGED <<latest, files, phase, cli, seen, trouble>>
    BY <1>1 DEF TickStart
  <2>2. /\ work' \in Work /\ work'.by = Host /\ work'.pc = "scan" /\ work'.live = live
        /\ work'.todo = {} /\ work'.then = "idle" /\ work'.cands = <<>>
    <3> HIDE DEF Always
    <3> QED BY <2>1, RestShape, LiveRuns DEF Work
  <2>3. ~cli[Host].there BY <2>1, RestShape DEF Working
  <2>4. \A s \in live : phase[s] = "live" BY DEF live, active
  <2>5. Working' BY <2>1, <2>2, <2>3, <2>4, Names DEF Working, files
  <2> QED BY <1>0, <2>1, <2>2, <2>5, HolderAlways DEF files
<1>2. CASE Adopt
  <2>1. /\ work.pc = "adopt"
        /\ UNCHANGED <<latest, token, home, base, order, phase, cli, trouble>>
    BY <1>2 DEF Adopt, provider
  <2>2. work.by # None /\ work.by = Host /\ ~cli[Host].there
    BY <1>0, <2>1, RestShape DEF Working, Work
  <2>3. CASE work.cands = <<>>
    <3>1. work' = [work EXCEPT !.pc = "poke"] /\ UNCHANGED <<master, seen>> BY <1>2, <2>3 DEF Adopt
    <3>2. /\ work' \in Work /\ work'.pc = "poke" /\ work'.by = work.by /\ work'.live = work.live
          /\ work'.todo = work.todo /\ work'.cands = work.cands
      BY <1>0, <3>1 DEF Work
    <3>3. Working' BY <2>1, <2>2, <3>1, <3>2, Names DEF Working
    <3> QED BY <1>0, <2>1, <3>1, <3>2, <3>3, HolderAlways
  <2>4. CASE work.cands # <<>> /\ refused(Head(work.cands))
    <3>1. work' = [work EXCEPT !.cands = Tail(@)] /\ UNCHANGED <<master, seen>>
      BY <1>2, <2>4 DEF Adopt
    <3>2. work.cands \in Seq(Runs) /\ work.cands # <<>> BY <1>0, <2>4 DEF Work
    <3>3. /\ Tail(work.cands) \in Seq(Runs)
          /\ \A i \in DOMAIN Tail(work.cands) :
               i + 1 \in DOMAIN work.cands /\ Tail(work.cands)[i] = work.cands[i + 1]
      BY <3>2
    <3>4. /\ work' \in Work /\ work'.pc = "adopt" /\ work'.by = work.by /\ work'.live = work.live
          /\ work'.todo = work.todo /\ work'.cands = Tail(work.cands)
      BY <1>0, <2>1, <3>1, <3>3 DEF Work
    <3>5. Working' BY <2>1, <2>2, <3>1, <3>3, <3>4, Names DEF Working
    <3> QED BY <1>0, <2>1, <3>1, <3>4, <3>5, HolderAlways
  <2>5. CASE work.cands # <<>> /\ ~refused(Head(work.cands))
    <3>1. /\ master' = home[Head(work.cands)] /\ seen' = changed
          /\ work' = fan(Host, work.live, "poke")
      BY <1>2, <2>5 DEF Adopt
    <3>2. work.cands \in Seq(Runs) /\ work.live \subseteq Runs BY <1>0 DEF Work
    <3>3. Head(work.cands) \in Runs BY <2>5, <3>2
    <3>4. master' \in Credentials /\ master' # Out /\ seen' \in {"none", "same", "changed"}
      BY <1>0, <2>5, <3>1, <3>3 DEF refused, changed
    <3>5. /\ work' \in Work /\ work'.by = Host /\ work'.pc = "fan" /\ work'.live = work.live
          /\ work'.todo = work.live /\ work'.then = "poke" /\ work'.cands = <<>>
      <4>1. work' = fan(Host, work.live, "poke") /\ work \in Work BY <1>0, <3>1
      <4>2. work.live \in SUBSET Runs BY <3>2
      <4> QED BY <4>1, <4>2, FanShape
    <3>6. Working' BY <2>1, <2>2, <3>4, <3>5, Names DEF Working
    <3> QED BY <1>0, <2>1, <3>4, <3>5, <3>6, HolderAlways
  <2> QED BY <2>3, <2>4, <2>5
<1>3. CASE PokeIdle
  <2>1. /\ work.pc = "poke" /\ work' = [work EXCEPT !.pc = "compare"]
        /\ UNCHANGED <<latest, token, files, phase, cli, seen, trouble>>
    BY <1>3 DEF PokeIdle, provider
  <2>2. /\ work' \in Work /\ work'.pc = "compare" /\ work'.by = work.by /\ work'.live = work.live
        /\ work'.todo = work.todo /\ work'.cands = work.cands
    BY <1>0, <2>1 DEF Work
  <2>3. work.by # None BY <2>1, RestShape DEF Working
  <2>4. Working' BY <2>1, <2>2, <2>3 DEF Working, files
  <2> QED BY <1>0, <2>1, <2>2, <2>4, HolderAlways DEF files
<1>4. CASE Compare
  <2>1. work.pc = "compare" /\ UNCHANGED <<latest, files, phase, cli, trouble>>
    BY <1>4 DEF Compare
  <2>2. token' \in {token, "old"} BY <1>4 DEF Compare, ticked
  <2>3. work.by = Host /\ ~cli[Host].there BY <1>0, <2>1, RestShape DEF Working, Work
  <2>4. CASE master # Out /\ seen # "same"
    <3>1. work' = fan(Host, work.live, "idle") /\ seen' = seen BY <1>4, <2>4 DEF Compare
    <3>2. work.live \subseteq Runs BY <1>0 DEF Work
    <3>3. /\ work' \in Work /\ work'.by = Host /\ work'.pc = "fan" /\ work'.live = work.live
          /\ work'.todo = work.live /\ work'.then = "idle" /\ work'.cands = <<>>
      <4>1. work' = fan(Host, work.live, "idle") /\ work \in Work BY <1>0, <3>1
      <4>2. work.live \in SUBSET Runs BY <3>2
      <4> QED BY <4>1, <4>2, FanShape
    <3>4. Working' BY <2>1, <2>3, <2>4, <3>3, Names DEF Working, files
    <3> QED BY <1>0, <2>1, <2>2, <3>1, <3>3, <3>4, HolderAlways DEF files
  <2>5. CASE ~(master # Out /\ seen # "same")
    <3>1. work' = Rest /\ seen' = "same" BY <1>4, <2>5 DEF Compare
    <3>2. Working' BY <2>1, <2>3, <3>1, RestShape, Names DEF Working, files
    <3> QED BY <1>0, <2>1, <2>2, <3>1, <3>2, RestShape, HolderAlways DEF files
  <2> QED BY <2>4, <2>5
<1>5. CASE FanOutDone
  <2>1. /\ work.pc = "fan" /\ work.todo = {} /\ seen' = "same"
        /\ work' = IF work.then = "idle" THEN Rest ELSE [work EXCEPT !.pc = work.then]
        /\ phase' = IF work.by \in Runs THEN [phase EXCEPT ![work.by] = "checked"] ELSE phase
        /\ UNCHANGED <<latest, files, cli, trouble>>
    BY <1>5 DEF FanOutDone
  <2>2. token' \in {token, "old"} BY <1>5 DEF FanOutDone, ticked
  <2>3. work.by # None /\ ~cli[Host].there BY <2>1, RestShape DEF Working
  <2>4. /\ phase' \in [Runs -> Phases]
        /\ \A r \in Runs : phase'[r] = phase[r] \/ (phase[r] = "ended" /\ phase'[r] = "checked")
    BY <1>0, <2>1 DEF Working
  <2>5. CASE work.then = "idle"
    <3>1. work' = Rest /\ cli' = cli BY <2>1, <2>5
    <3>2. Working' BY <2>3, <3>1, RestShape, Names DEF Working
    <3> QED BY <1>0, <2>1, <2>2, <2>4, <3>1, <3>2, RestShape, HolderAlways DEF files
  <2>6. CASE work.then # "idle"
    <3>1. work.then = "poke" /\ work' = [work EXCEPT !.pc = "poke"] BY <1>0, <2>1, <2>6 DEF Work
    <3>2. work.by = Host BY <1>0, <2>3, <2>6 DEF Working, Work
    <3>3. phase' = phase BY <2>1, <3>2, Names
    <3>4. /\ work' \in Work /\ work'.pc = "poke" /\ work'.by = work.by /\ work'.live = work.live
          /\ work'.todo = work.todo /\ work'.cands = work.cands
      BY <1>0, <3>1 DEF Work
    <3>5. Working' BY <2>1, <2>3, <3>2, <3>3, <3>4, Names DEF Working, files
    <3> QED BY <1>0, <2>1, <2>2, <2>4, <3>4, <3>5, HolderAlways DEF files
  <2> QED BY <2>5, <2>6
<1>6. CASE Poke
  <2>1. /\ work.pc = "poke" /\ request(Host, master) /\ work' = [work EXCEPT !.pc = "poking"]
        /\ UNCHANGED <<files, phase, seen, trouble>>
    BY <1>6 DEF Poke
  <2>2. /\ latest' \in [Grants -> Nat] /\ token' \in {"new", "watched", "old", "due"}
        /\ cli' \in [Hosts -> [there : BOOLEAN, answer : Credentials]]
        /\ cli'[Host].there /\ \A j \in Hosts : j # Host => cli'[j] = cli[j]
    BY <1>0, <2>1, Requested
  <2>3. /\ work' \in Work /\ work'.pc = "poking" /\ work'.by = work.by /\ work'.live = work.live
        /\ work'.todo = work.todo /\ work'.cands = work.cands
    BY <1>0, <2>1 DEF Work
  <2>4. Typed' /\ Ordered' BY <2>1, <2>2, <2>3 DEF Typed, Ordered, files
  <2>5. Housed' BY <2>1, <2>2, Names DEF Housed, files
  <2>6. work.by # None BY <2>1, RestShape DEF Working
  <2>7. Working' BY <2>1, <2>2, <2>3, <2>6 DEF Working, files
  <2> QED BY <2>4, <2>5, <2>7
<1>7. CASE Poked
  <2>1. /\ work.pc = "poking" /\ cli' = [cli EXCEPT ![Host] = Quiet]
        /\ master' = cli[Host].answer /\ seen' = changed /\ work' = [work EXCEPT !.pc = "compare"]
        /\ token' \in {token, "new"} /\ UNCHANGED <<latest, home, base, order, phase, trouble>>
    BY <1>7 DEF Poked
  <2>2. /\ cli' \in [Hosts -> [there : BOOLEAN, answer : Credentials]]
        /\ cli'[Host] = Quiet /\ \A j \in Hosts : j # Host => cli'[j] = cli[j]
    BY <1>0, <2>1, QuietShape
  <2>3. /\ work' \in Work /\ work'.pc = "compare" /\ work'.by = work.by /\ work'.live = work.live
        /\ work'.todo = work.todo /\ work'.cands = work.cands
    BY <1>0, <2>1 DEF Work
  <2>4. Typed' /\ Ordered' BY <1>0, <2>1, <2>2, <2>3 DEF Typed, Ordered, changed
  <2>5. Housed' BY <2>1, <2>2, QuietShape, Names DEF Housed
  <2>6. work.by # None BY <2>1, RestShape DEF Working
  <2>7. Working' BY <2>1, <2>2, <2>3, <2>6, QuietShape DEF Working
  <2> QED BY <2>4, <2>5, <2>7
<1> QED BY <1>1, <1>2, <1>3, <1>4, <1>5, <1>6, <1>7

\* The scan lists every home that moved, and no other.
LEMMA Scanned ==
  ASSUME work \in Work, Scan
  PROVE  \E cands \in Seq(Runs) :
           /\ \A i \in DOMAIN cands : cands[i] \in candidates
           /\ \A r \in candidates : \E i \in DOMAIN cands : cands[i] = r
           /\ work' = [work EXCEPT !.cands = cands, !.pc = IF candidates = {} THEN "poke" ELSE "adopt"]
<1>1. candidates \subseteq Runs BY DEF candidates, Work
<1>2. Cardinality(candidates) \in Nat BY <1>1, NamesAssumption, FS_Subset, FS_CardinalityType
<1>3. PICK cands \in [1..Cardinality(candidates) -> candidates] :
        /\ ToSet(cands) = candidates
        /\ work' = [work EXCEPT !.cands = cands, !.pc = IF candidates = {} THEN "poke" ELSE "adopt"]
  BY DEF Scan
<1>4. cands \in Seq(candidates) BY <1>2
<1>5. cands \in Seq(Runs) BY <1>1, <1>4
<1>6. \A r \in candidates : \E i \in DOMAIN cands : cands[i] = r BY <1>3 DEF ToSet
<1> QED BY <1>3, <1>5, <1>6

LEMMA HomesAlways ==
  ASSUME Always,
         Scan \/ FanStamp \/ FanStampFails \/ \E r \in Runs : FanInject(r) \/ FanInjectFails(r)
  PROVE  Always'
<1> USE DEF Always
<1>0. /\ home \in [Runs -> Credentials] /\ base \in [Runs -> {"none", "same", "diverged"}]
      /\ master \in Credentials /\ work \in Work
  BY DEF Typed
<1>a. \A f : stamp(f) \in {"none", "same"} /\ (stamp(f) = "none" <=> f = Out) BY DEF stamp
<1>1. CASE Scan
  <2>1. /\ work.pc = "scan" /\ UNCHANGED <<provider, master, home, order, phase, cli, seen, trouble>>
        /\ base' = [r \in Runs |-> IF r \in work.live /\ base[r] = "none" THEN stamped(r) ELSE base[r]]
    BY <1>1 DEF Scan
  <2>2. PICK cands \in Seq(Runs) :
          /\ \A i \in DOMAIN cands : cands[i] \in candidates
          /\ work' = [work EXCEPT !.cands = cands, !.pc = IF candidates = {} THEN "poke" ELSE "adopt"]
    BY <1>0, <1>1, Scanned
  <2> DEFINE p == IF candidates = {} THEN "poke" ELSE "adopt"
  <2>3. p \in {"poke", "adopt"} OBVIOUS
  <2> HIDE DEF p
  <2>4. /\ work' \in Work /\ work'.pc = p /\ work'.by = work.by /\ work'.live = work.live
        /\ work'.todo = work.todo /\ work'.cands = cands
    <3>1. work' = [work EXCEPT !.cands = cands, !.pc = p] BY <2>2 DEF p
    <3> QED BY <1>0, <2>3, <3>1 DEF Work
  <2>5. work.live \subseteq Runs BY <1>0 DEF Work
  <2>6. \A r \in Runs : base'[r] = base[r] \/ (r \in work.live /\ base'[r] \in {"none", "same"})
    BY <1>a, <2>1 DEF stamped
  <2>7. base' \in [Runs -> {"none", "same", "diverged"}] BY <1>0, <1>a, <2>1 DEF stamped
  <2>8. Typed' BY <2>1, <2>4, <2>7 DEF Typed, provider
  <2>9. Ordered' BY <2>1 DEF Ordered
  <2>10. Housed' BY <2>1, <2>6 DEF Housed, Working
  <2>11. candidates \subseteq work.live BY DEF candidates
  <2>12. work.by = Host BY <1>0, <2>1, RestShape DEF Working, Work
  <2>13. Working' BY <2>1, <2>2, <2>3, <2>4, <2>11, <2>12, Names DEF Working
  <2> QED BY <2>8, <2>9, <2>10, <2>13
<1>2. ASSUME NEW r \in Runs, FanInject(r) PROVE Always'
  <2>1. /\ work.pc = "fan" /\ r \in work.todo
        /\ work' = [work EXCEPT !.pc = "stamp", !.at = r, !.todo = @ \ {r}]
        /\ home' = [home EXCEPT ![r] = master] /\ base' = [base EXCEPT ![r] = moved(@)]
        /\ touched(r) /\ UNCHANGED <<provider, master, phase, cli, seen, trouble>>
    BY <1>2 DEF FanInject
  <2>2. master # Out /\ moved(base[r]) \in {"none", "diverged"} BY <2>1 DEF Working, moved
  <2>3. /\ home' \in [Runs -> Credentials] /\ base' \in [Runs -> {"none", "same", "diverged"}]
        /\ home'[r] = master /\ base'[r] = moved(base[r])
        /\ \A s \in Runs : s # r => home'[s] = home[s] /\ base'[s] = base[s]
    BY <1>0, <2>1, <2>2
  <2>4. /\ work' \in Work /\ work'.pc = "stamp" /\ work'.at = r /\ work'.by = work.by
        /\ work'.live = work.live /\ work'.todo = work.todo \ {r} /\ work'.cands = work.cands
        /\ work'.then = work.then
    BY <1>0, <2>1 DEF Work
  <2>5. phase[r] \in {"live", "ended", "rolled"} BY <2>1 DEF Working
  <2>6. Typed' BY <2>1, <2>3, <2>4 DEF Typed, provider
  <2>7. Ordered' BY <2>1, <2>3, Touched
  <2>8. Housed' BY <2>1, <2>2, <2>3, <2>5 DEF Housed
  <2>9. work.by # None BY <2>1, RestShape DEF Working
  <2>10. Working' BY <2>1, <2>4, <2>5, <2>9 DEF Working
  <2> QED BY <2>6, <2>7, <2>8, <2>10
<1>3. ASSUME NEW r \in Runs, FanInjectFails(r) PROVE Always'
  <2>1. /\ work.pc = "fan" /\ work' = [work EXCEPT !.todo = @ \ {r}]
        /\ trouble' = trouble \cup {"nofan"} /\ UNCHANGED <<provider, files, phase, cli, seen>>
    BY <1>3 DEF FanInjectFails, happens
  <2>2. /\ work' \in Work /\ work'.pc = work.pc /\ work'.by = work.by /\ work'.live = work.live
        /\ work'.todo = work.todo \ {r} /\ work'.cands = work.cands /\ work'.then = work.then
    BY <1>0, <2>1 DEF Work
  <2>3. Typed' BY <2>1, <2>2 DEF Typed, provider, files, AllTrouble
  <2>4. Ordered' /\ Housed' BY <2>1 DEF Ordered, Housed, files
  <2>5. work.by # None BY <2>1, RestShape DEF Working
  <2>6. Working' BY <2>1, <2>2, <2>5 DEF Working, files
  <2> QED BY <2>3, <2>4, <2>6
<1>4. CASE FanStamp \/ FanStampFails
  <2> DEFINE r == work.at
  <2>1. /\ work.pc = "stamp" /\ work' = [work EXCEPT !.pc = "fan", !.at = None]
        /\ base' = base \/ base' = [base EXCEPT ![r] = stamped(r)]
        /\ trouble' \subseteq AllTrouble /\ UNCHANGED <<provider, master, home, order, phase, cli, seen>>
    BY <1>4 DEF FanStamp, FanStampFails, happens, files, Typed, AllTrouble
  <2>2. r \in Runs /\ phase[r] \in {"live", "ended", "rolled"} /\ master # Out /\ work.by # None
    BY <2>1, RestShape DEF Working
  <2> HIDE DEF r
  <2>3. stamped(r) \in {"none", "same", "diverged"} BY <1>0, <1>a, <2>2 DEF stamped
  <2>4. /\ base' \in [Runs -> {"none", "same", "diverged"}]
        /\ \A s \in Runs : s # r => base'[s] = base[s]
    BY <1>0, <2>1, <2>2, <2>3
  <2>5. /\ work' \in Work /\ work'.pc = "fan" /\ work'.by = work.by /\ work'.live = work.live
        /\ work'.todo = work.todo /\ work'.cands = work.cands /\ work'.then = work.then
    BY <1>0, <2>1 DEF Work
  <2>6. Typed' BY <2>1, <2>4, <2>5 DEF Typed, provider
  <2>7. Ordered' BY <2>1 DEF Ordered
  <2>8. Housed' BY <2>1, <2>2, <2>4 DEF Housed
  <2>9. Working' BY <2>1, <2>2, <2>5 DEF Working
  <2> QED BY <2>6, <2>7, <2>8, <2>9
<1> QED BY <1>1, <1>2, <1>3, <1>4

LEMMA RestartAlways == ASSUME Always, Restart PROVE Always'
<1> USE DEF Always
<1>0. /\ home \in [Runs -> Credentials] /\ base \in [Runs -> {"none", "same", "diverged"}]
      /\ cli \in [Hosts -> [there : BOOLEAN, answer : Credentials]] /\ phase \in [Runs -> Phases]
  BY DEF Typed
<1>1. /\ trouble' = trouble \cup {"crash"} /\ work' = Rest /\ seen' = "none"
      /\ phase' = [r \in Runs |-> IF phase[r] = "injected" THEN "gone"
                                  ELSE IF phase[r] = "checked" THEN "ended"
                                  ELSE IF phase[r] = "bare" THEN "rolled" ELSE phase[r]]
      /\ home' = [r \in Runs |-> IF phase[r] = "injected" THEN Out ELSE home[r]]
      /\ base' = [r \in Runs |-> IF phase[r] = "injected" THEN "none" ELSE base[r]]
      /\ cli' = [cli EXCEPT ![Host] = Quiet] /\ token' \in {token, "old"}
      /\ UNCHANGED <<latest, master, order>>
  BY DEF Restart, happens
<1>2. phase' \in [Runs -> Phases] /\ home' \in [Runs -> Credentials]
      /\ base' \in [Runs -> {"none", "same", "diverged"}]
  BY <1>0, <1>1, Credential
<1>3. /\ cli' \in [Hosts -> [there : BOOLEAN, answer : Credentials]]
      /\ cli'[Host] = Quiet /\ \A r \in Runs : cli'[r] = cli[r]
  BY <1>0, <1>1, QuietShape, Names
<1>4. Typed' BY <1>1, <1>2, <1>3, RestShape DEF Typed, AllTrouble
<1>5. Ordered' BY <1>1, Untouched
<1>6. Housed' BY <1>1, <1>3, QuietShape DEF Housed
<1>7. Working' BY <1>1, <1>3, RestShape, QuietShape, Names DEF Working
<1> QED BY <1>4, <1>5, <1>6, <1>7

LEMMA AlwaysKeeps == Always /\ [Next]_vars => Always'
<1> SUFFICES ASSUME Always, [Next]_vars PROVE Always' OBVIOUS
<1>1. CASE WorldNext BY <1>1, WorldAlways DEF WorldNext
<1>2. CASE LabNext
  BY <1>2, RunAlways, CheckAlways, CheckFailsAlways, AdoptFailsAlways, TickAlways, HomesAlways,
     RestartAlways
  DEF LabNext, Tick
<1>3. CASE UNCHANGED vars
  BY <1>3 DEF vars, provider, files, Always, Typed, Ordered, Housed, Working
<1> QED BY <1>1, <1>2, <1>3 DEF Next

(***************************************************************************)
(* What holds until a disturbance.                                         *)
(***************************************************************************)
Undisturbed == Always /\ Calm /\ Clean /\ trouble = {} /\ trouble' = {}

\* A rotation: every copy of the family is out of force, but for the answer.
LEMMA Rotates ==
  ASSUME Undisturbed, NEW h \in Hosts, NEW f \in Credentials, request(h, f), valid(f),
         f[1] = 1, UNCHANGED <<files, phase, seen>>,
         work' = work \/ (work'.pc = "poking" /\ work.pc = "poke" /\ work'.cands = work.cands)
  PROVE  Calm'
<1> USE DEF Undisturbed, Always, Calm
<1>1. /\ latest \in [Grants -> Nat] /\ master \in Credentials /\ home \in [Runs -> Credentials]
      /\ cli \in [Hosts -> [there : BOOLEAN, answer : Credentials]]
  BY DEF Typed
<1>2. /\ token = "due" /\ token' = "new" /\ latest' = [latest EXCEPT ![1] = @ + 1]
      /\ cli'[h].answer = <<1, f[2] + 1>> /\ cli'[h].answer # Out /\ cli'[h].there
      /\ \A j \in Hosts : j # h => cli'[j] = cli[j]
  <2>1. Typed OBVIOUS
  <2> QED BY <2>1, Requested
<1>3. latest'[1] = latest[1] + 1 /\ latest'[2] = 0 /\ latest[1] \in Nat
  BY <1>1, <1>2 DEF OneGrant
<1>4. \A j \in Hosts : cli[j].answer = Out BY <1>2 DEF InForce
<1>5. f[2] = latest[1] BY DEF valid
<1>6. cli'[h].answer[1] = 1 /\ cli'[h].answer[2] = latest'[1] BY <1>2, <1>3, <1>5
<1>7. /\ master = Out \/ (master[1] = 1 /\ master[2] <= latest[1])
      /\ \A r \in Runs : home[r] = Out \/ (home[r][1] = 1 /\ home[r][2] <= latest[1])
  BY DEF OneGrant
<1>8. master[2] \in Nat /\ \A r \in Runs : home[r][2] \in Nat BY <1>1, Credential, Names
<1>9. ~valid(master)' /\ \A r \in Runs : ~(home[r] # Out /\ latest'[home[r][1]] = home[r][2])
  BY <1>3, <1>7, <1>8 DEF files, valid
<1>10. OneGrant'
  <2>1. \A j \in Hosts : cli'[j].answer = Out
          \/ (cli'[j].answer[1] = 1 /\ cli'[j].answer[2] <= latest'[1])
    BY <1>2, <1>3, <1>4, <1>6
  <2>2. /\ master = Out \/ (master[1] = 1 /\ master[2] <= latest'[1])
        /\ \A r \in Runs : home[r] = Out \/ (home[r][1] = 1 /\ home[r][2] <= latest'[1])
    BY <1>3, <1>7, <1>8
  <2> QED BY <1>3, <2>1, <2>2 DEF OneGrant, files
<1>11. InForce'
  <2>1. Moved' = Moved /\ Moved = {} BY <1>2 DEF InForce, Moved, files
  <2>2. \A j \in Hosts : cli'[j].answer # Out => j = h BY <1>2, <1>4
  <2>3. valid(cli[h].answer)' BY <1>2, <1>6 DEF valid
  <2> QED BY <1>2, <2>1, <2>2, <2>3 DEF InForce
<1>12. Watched' BY <1>2 DEF Watched, files
<1>13. Backed'
  <2>1. \A r \in Runs : ~valid(home[r])' BY <1>9 DEF files, valid
  <2> QED BY <1>9, <2>1 DEF Backed
<1>14. Fanned'
  <2>1. CASE work' = work BY <1>2, <2>1 DEF Fanned, unseen, files
  <2>2. CASE work' # work BY <2>2 DEF Fanned
  <2> QED BY <2>1, <2>2
<1> QED BY <1>10, <1>11, <1>12, <1>13, <1>14

\* A refusal moves nothing.
LEMMA Refused ==
  ASSUME Undisturbed, NEW h \in Hosts, NEW f \in Credentials, request(h, f), ~valid(f),
         UNCHANGED <<files, phase, seen>>,
         work' = work \/ (work'.pc = "poking" /\ work.pc = "poke" /\ h = Host /\ f = master /\ work'.by = work.by)
  PROVE  Calm'
<1> USE DEF Undisturbed, Always, Calm
<1>1. /\ UNCHANGED provider /\ cli'[h].answer = Out /\ cli'[h].there
      /\ \A j \in Hosts : j # h => cli'[j] = cli[j]
  <2>1. Typed OBVIOUS
  <2> QED BY <2>1, Requested
<1>2. \A j \in Hosts : cli'[j].answer = Out \/ cli'[j].answer = cli[j].answer BY <1>1
<1>3. OneGrant' BY <1>1, <1>2 DEF OneGrant, provider, files
<1>4. Moved' = Moved BY DEF Moved, files
<1>5. InForce' BY <1>1, <1>2, <1>4 DEF InForce, provider, files, valid
<1>6. Watched' BY <1>1, <1>4 DEF Watched, inHand, provider, files
<1>7. valid(master)' = valid(master) /\ \A r \in Runs : valid(home[r])' = valid(home[r])
  BY <1>1 DEF valid, provider, files
<1>8. Backed'
  <2>1. work'.pc = "poking" /\ cli'[Host].answer = Out => ~valid(master)
    <3>1. CASE work' = work
      BY <1>1, <3>1, Requested DEF Backed, Working
    <3>2. CASE work' # work BY <3>2
    <3> QED BY <3>1, <3>2
  <2> QED BY <1>7, <2>1 DEF Backed, files
<1>9. Fanned'
  <2>1. work'.pc \in {"fan", "stamp", "compare"} => work' = work OBVIOUS
  <2>2. seen' = "changed" => work'.pc \in {"fan", "stamp", "compare"} BY DEF Fanned
  <2> QED BY <1>1, <1>7, <2>1, <2>2 DEF Fanned, unseen, provider, files
<1> QED BY <1>3, <1>5, <1>6, <1>8, <1>9

LEMMA RefreshCalm == ASSUME Undisturbed, NEW r \in Runs, Refresh(r) PROVE Calm'
<1> USE DEF Undisturbed, Always, Calm
<1>1. active(r) /\ request(r, home[r]) /\ UNCHANGED <<files, phase, seen, work, trouble>>
  BY DEF Refresh
<1>2. home[r] \in Credentials BY DEF Typed
<1>3. CASE valid(home[r])
  <2>1. home[r][1] = 1 BY <1>3 DEF OneGrant, valid
  <2> QED BY <1>1, <1>2, <1>3, <2>1, Rotates
<1>4. CASE ~valid(home[r]) BY <1>1, <1>2, <1>4, Refused
<1> QED BY <1>3, <1>4

LEMMA PokeCalm == ASSUME Undisturbed, Poke PROVE Calm'
<1> USE DEF Undisturbed, Always, Calm
<1>1. /\ work.pc = "poke" /\ request(Host, master) /\ work' = [work EXCEPT !.pc = "poking"]
      /\ UNCHANGED <<files, phase, seen, trouble>>
  BY DEF Poke
<1>2. master \in Credentials /\ work \in Work BY DEF Typed
<1>3. work'.pc = "poking" /\ work'.cands = work.cands /\ work'.by = work.by BY <1>1, <1>2 DEF Work
<1>4. CASE valid(master)
  <2>1. master[1] = 1 BY <1>4 DEF OneGrant, valid
  <2> QED BY <1>1, <1>2, <1>3, <1>4, <2>1, Rotates
<1>5. CASE ~valid(master) BY <1>1, <1>2, <1>3, <1>5, Refused
<1> QED BY <1>4, <1>5

\* When a token comes due nobody is on the way out, so nothing moved is left.
LEMMA AgesCalm == ASSUME Undisturbed, Ages PROVE Calm'
<1> USE DEF Undisturbed, Always, Calm
<1>1. /\ token = "old" /\ token' = "due" /\ \A h \in DOMAIN cli : cli[h] = Quiet
      /\ \A r \in Runs : phase[r] \notin {"ended", "rolled", "checked", "bare"}
      /\ UNCHANGED <<latest, files, phase, cli, seen, work>>
  BY DEF Ages
<1>2. \A h \in Hosts : cli[h].answer = Out BY <1>1, QuietShape DEF Typed
<1>3. Moved = {} /\ Moved' = Moved
  <2>1. \A r \in Moved : /\ r \in Runs /\ phase[r] # "live"
                         /\ phase[r] \notin {"none", "injected", "gone"}
    BY <1>1 DEF Moved, Watched, Housed
  <2>2. \A r \in Runs : phase[r] \in Phases BY DEF Typed
  <2>3. Moved = {} BY <1>1, <2>1, <2>2
  <2>4. Moved' = Moved BY <1>1 DEF Moved, files
  <2> QED BY <2>3, <2>4
<1>4. OneGrant' BY <1>1 DEF OneGrant, files
<1>5. InForce' BY <1>1, <1>2, <1>3 DEF InForce
<1>6. Watched' BY <1>1 DEF Watched, files
<1>7. Backed' BY <1>1 DEF Backed, files, valid
<1>8. Fanned' BY <1>1 DEF Fanned, files, valid, unseen
<1> QED BY <1>4, <1>5, <1>6, <1>7, <1>8

\* A refresh writes the family in force, or logs the home out.
LEMMA RefreshedCalm == ASSUME Undisturbed, NEW r \in Runs, Refreshed(r) PROVE Calm'
<1> USE DEF Undisturbed, Always, Calm
<1> DEFINE a == cli[r].answer
<1>1. /\ cli[r].there /\ cli' = [cli EXCEPT ![r] = Quiet]
      /\ home' = [home EXCEPT ![r] = a] /\ base' = [base EXCEPT ![r] = moved(@)]
      /\ token' = IF valid(a) THEN "new" ELSE token
      /\ UNCHANGED <<latest, master, phase, seen, work>> /\ ~stamping(r)
  BY DEF Refreshed, happens
<1>2. /\ home \in [Runs -> Credentials] /\ base \in [Runs -> {"none", "same", "diverged"}]
      /\ cli \in [Hosts -> [there : BOOLEAN, answer : Credentials]]
  BY DEF Typed
<1>3. a = Out \/ (valid(a) /\ token = "new") BY DEF InForce
<1>4. token' = token /\ phase[r] = "live" /\ r # Host BY <1>1, <1>3, Names DEF Housed, valid
<1>5. /\ home'[r] = a /\ base'[r] = moved(base[r]) /\ cli'[r].answer = Out
      /\ \A s \in Runs : s # r => home'[s] = home[s] /\ base'[s] = base[s]
      /\ \A h \in Hosts : h # r => cli'[h] = cli[h]
  BY <1>1, <1>2, QuietShape
<1>6. IF base[r] = "none" THEN base'[r] = "none" /\ a = Out ELSE base'[r] = "diverged"
  BY <1>1, <1>5 DEF moved, Housed, Clean
<1> HIDE DEF a
<1>7. \A s \in Runs : s \in Moved' => (s \in Moved /\ s # r) \/ (s = r /\ a # Out)
  BY <1>1, <1>5 DEF Moved
<1>8. OneGrant'
  <2>1. a = Out \/ (a[1] = 1 /\ a[2] <= latest[1]) BY DEF OneGrant, a
  <2>2. \A h \in Hosts : cli'[h].answer \in {Out, cli[h].answer} BY <1>5
  <2> QED BY <1>1, <1>5, <2>1, <2>2 DEF OneGrant
<1>9. InForce'
  <2>1. \A s \in Runs : valid(home[s])' <=> home'[s] # Out /\ latest[home'[s][1]] = home'[s][2]
    BY <1>1 DEF valid
  <2>2. \A s \in Moved' : valid(home[s])' BY <1>3, <1>5, <1>7, <2>1 DEF InForce, valid, Moved
  <2>3. \A h \in Hosts : cli'[h].answer # Out => valid(cli[h].answer)' /\ token' = "new"
    BY <1>1, <1>4, <1>5 DEF InForce, valid
  <2>4. token' = "due" => Moved' = {} BY <1>3, <1>4, <1>7 DEF InForce, Moved
  <2> QED BY <2>2, <2>3, <2>4 DEF InForce
<1>10. Watched'
  <2>1. token' \in {"watched", "old"} => Moved' \subseteq Moved
    BY <1>3, <1>4, <1>7 DEF Moved
  <2>2. \A s \in Runs : inHand(s)' = inHand(s) BY <1>1 DEF inHand
  <2>3. \A s \in Runs : base[s] = "diverged" => base'[s] = "diverged" BY <1>5, <1>6
  <2>4. work.pc = "adopt" => \A i \in DOMAIN work.cands : base'[work.cands[i]] = "diverged"
    <3>1. \A i \in DOMAIN work.cands : work.cands[i] \in Runs BY DEF Typed, Work
    <3> QED BY <2>3, <3>1 DEF Watched
  <2>5. Moved \subseteq Runs BY DEF Moved
  <2> QED BY <1>1, <1>4, <2>1, <2>2, <2>4, <2>5 DEF Watched
<1>11. Backed'
  <2>1. \A s \in Runs : s # r => valid(home[s])' = valid(home[s]) BY <1>1, <1>5 DEF valid
  <2>2. valid(master)' = valid(master) BY <1>1 DEF valid
  <2>3. (base'[r] # "diverged" \/ phase'[r] = "checked") => ~valid(home[r])'
    BY <1>1, <1>4, <1>5, <1>6 DEF valid
  <2>4. cli'[Host] = cli[Host] BY <1>4, <1>5
  <2> QED BY <1>1, <1>5, <2>1, <2>2, <2>3, <2>4 DEF Backed
<1>12. Fanned' BY <1>1, <1>4 DEF Fanned, valid, unseen
<1> QED BY <1>8, <1>9, <1>10, <1>11, <1>12

\* A launch injects what the master store has.
LEMMA InjectCalm == ASSUME Undisturbed, NEW r \in Runs, Inject(r) PROVE Calm'
<1> USE DEF Undisturbed, Always, Calm
<1>1. /\ phase[r] = "none" /\ phase' = [phase EXCEPT ![r] = "injected"]
      /\ home' = [home EXCEPT ![r] = master] /\ base' = [base EXCEPT ![r] = stamp(master)]
      /\ UNCHANGED <<latest, token, master, cli, seen, work>>
  BY DEF Inject, provider
<1>2. /\ home \in [Runs -> Credentials] /\ base \in [Runs -> {"none", "same", "diverged"}]
      /\ phase \in [Runs -> Phases]
  BY DEF Typed
<1>3. /\ home'[r] = master /\ base'[r] # "diverged" /\ phase'[r] = "injected"
      /\ \A s \in Runs : s # r => home'[s] = home[s] /\ base'[s] = base[s] /\ phase'[s] = phase[s]
  BY <1>1, <1>2 DEF stamp
<1>4. base[r] = "none" BY <1>1 DEF Housed
<1>5. Moved' = Moved BY <1>1, <1>3, <1>4 DEF Moved
<1>6. \A s \in Runs : s # r => valid(home[s])' = valid(home[s]) BY <1>1, <1>3 DEF valid
<1>7. valid(master)' = valid(master) /\ valid(home[r])' = valid(master) BY <1>1, <1>3 DEF valid
<1>8. OneGrant' BY <1>1, <1>3 DEF OneGrant
<1>9. InForce'
  <2>1. \A h \in Hosts : valid(cli[h].answer)' = valid(cli[h].answer) BY <1>1 DEF valid
  <2>2. r \notin Moved /\ Moved \subseteq Runs BY <1>4 DEF Moved
  <2> QED BY <1>1, <1>5, <1>6, <2>1, <2>2 DEF InForce
<1>10. Watched'
  <2>1. \A i \in DOMAIN work.cands : work.cands[i] \in Runs /\ work.cands[i] # r
    BY <1>1 DEF Working, Typed, Work
  <2>2. \A s \in Moved : s \in Runs /\ s # r BY <1>4 DEF Moved
  <2> QED BY <1>1, <1>3, <1>5, <2>1, <2>2 DEF Watched, inHand
<1>11. Backed' BY <1>1, <1>3, <1>6, <1>7 DEF Backed
<1>12. Fanned' BY <1>1, <1>3, <1>7 DEF Fanned, unseen
<1> QED BY <1>8, <1>9, <1>10, <1>11, <1>12

\* The home of a run that is not live yet has not moved, and one that ends was live.
LEMMA PhaseCalm ==
  ASSUME Undisturbed, NEW r \in Runs, NEW p \in {"live", "ended"},
         phase[r] = (IF p = "live" THEN "injected" ELSE "live"), phase' = [phase EXCEPT ![r] = p],
         \A h \in Hosts : cli'[h].answer \in {Out, cli[h].answer},
         cli'[Host] = cli[Host], UNCHANGED <<provider, files, seen, work>>
  PROVE  Calm'
<1> USE DEF Undisturbed, Always, Calm
<1>1. phase \in [Runs -> Phases] BY DEF Typed
<1>2. phase'[r] = p /\ \A s \in Runs : s # r => phase'[s] = phase[s] BY <1>1
<1>3. latest' = latest /\ token' = token /\ master' = master /\ home' = home /\ base' = base
  BY DEF provider, files
<1>4. Moved' = Moved BY <1>3 DEF Moved
<1>5. p = "live" => r \notin Moved BY DEF Housed, Moved
<1>7. OneGrant' BY <1>3 DEF OneGrant
<1>8. InForce'
  <2>1. \A h \in Hosts : cli'[h].answer # Out => valid(cli[h].answer)' /\ token' = "new"
    BY <1>3 DEF InForce, valid
  <2>2. \A s \in Runs : valid(home[s])' = valid(home[s]) BY <1>3 DEF valid
  <2> QED BY <1>3, <1>4, <2>1, <2>2 DEF InForce, Moved
<1>9. Watched'
  <2>1. \A s \in Moved : s \in Runs /\ (phase'[s] = "live" => phase[s] = "live")
    BY <1>2, <1>5 DEF Moved
  <2> QED BY <1>3, <1>4, <2>1 DEF Watched, inHand
<1>10. Backed' BY <1>2, <1>3 DEF Backed, valid
<1>11. Fanned'
  <2>1. \A s \in Runs : phase[s] = "ended" => phase'[s] = "ended" BY <1>2
  <2> QED BY <1>3, <2>1 DEF Fanned, valid, unseen
<1> QED BY <1>7, <1>8, <1>9, <1>10, <1>11

LEMMA StartEndCalm == ASSUME Undisturbed, NEW r \in Runs, CreateRun(r) \/ EndRun(r) PROVE Calm'
<1> USE DEF Undisturbed, Always, Calm
<1>1. CASE CreateRun(r)
  <2>1. /\ phase[r] = "injected" /\ phase' = [phase EXCEPT ![r] = "live"]
        /\ UNCHANGED <<provider, files, cli, seen, work>>
    BY <1>1 DEF CreateRun
  <2> QED BY <2>1, PhaseCalm
<1>2. CASE EndRun(r)
  <2>1. /\ phase[r] = "live" /\ phase' = [phase EXCEPT ![r] = "ended"]
        /\ cli' = [cli EXCEPT ![r] = Quiet] /\ UNCHANGED <<provider, files, seen, work>>
    BY <1>2 DEF EndRun
  <2>2. cli \in [Hosts -> [there : BOOLEAN, answer : Credentials]] BY DEF Typed
  <2>3. cli'[Host] = cli[Host] /\ \A h \in Hosts : cli'[h].answer \in {Out, cli[h].answer}
    BY <2>1, <2>2, QuietShape, Names
  <2> QED BY <2>1, <2>3, PhaseCalm
<1> QED BY <1>1, <1>2

\* A home that is wiped was in nobody's hands.
LEMMA WipeCalm == ASSUME Undisturbed, NEW r \in Runs, Wipe(r) PROVE Calm'
<1> USE DEF Undisturbed, Always, Calm
<1>1. /\ phase[r] = "checked" /\ phase' = [phase EXCEPT ![r] = "gone"]
      /\ home' = [home EXCEPT ![r] = Out] /\ base' = [base EXCEPT ![r] = "none"]
      /\ UNCHANGED <<latest, token, master, cli, seen, work>>
  BY DEF Wipe, provider, Clean
<1>2. /\ home \in [Runs -> Credentials] /\ base \in [Runs -> {"none", "same", "diverged"}]
      /\ phase \in [Runs -> Phases]
  BY DEF Typed
<1>3. /\ home'[r] = Out /\ base'[r] = "none" /\ phase'[r] = "gone"
      /\ \A s \in Runs : s # r => home'[s] = home[s] /\ base'[s] = base[s] /\ phase'[s] = phase[s]
  BY <1>1, <1>2
<1>4. Moved' \subseteq Moved \ {r} BY <1>1, <1>3 DEF Moved
<1>5. \A s \in Runs : s # r => valid(home[s])' = valid(home[s]) BY <1>1, <1>3 DEF valid
<1>6. valid(master)' = valid(master) /\ ~valid(home[r])' BY <1>1, <1>3 DEF valid
<1>7. OneGrant' BY <1>1, <1>3 DEF OneGrant
<1>8. InForce'
  <2>1. \A h \in Hosts : valid(cli[h].answer)' = valid(cli[h].answer) BY <1>1 DEF valid
  <2>2. Moved \subseteq Runs BY DEF Moved
  <2> QED BY <1>1, <1>4, <1>5, <2>1, <2>2 DEF InForce
<1>9. Watched'
  <2>1. \A i \in DOMAIN work.cands : work.cands[i] \in Runs /\ work.cands[i] # r
    BY <1>1 DEF Working, Typed, Work
  <2>2. \A s \in Moved' : s \in Moved /\ s \in Runs /\ s # r BY <1>4 DEF Moved
  <2> QED BY <1>1, <1>3, <2>1, <2>2 DEF Watched, inHand
<1>10. Backed' BY <1>1, <1>3, <1>5, <1>6 DEF Backed
<1>11. Fanned' BY <1>1, <1>3, <1>6 DEF Fanned, unseen
<1> QED BY <1>7, <1>8, <1>9, <1>10, <1>11

\* The check before a wipe adopts what moved, and lets the rest go.
LEMMA AdoptCheckCalm == ASSUME Undisturbed, NEW r \in Runs, AdoptCheck(r) PROVE Calm'
<1> USE DEF Undisturbed, Always, Calm
<1>1. /\ phase[r] = "ended" /\ work = Rest
      /\ UNCHANGED <<latest, token, home, base, order, cli>>
  BY DEF AdoptCheck, provider
<1>2. work.pc = "idle" /\ work.by = None /\ seen # "changed" BY <1>1, RestShape DEF Fanned
<1>3. token # "watched" BY <1>2, Names DEF Watched
<1>4. Moved' = Moved /\ phase \in [Runs -> Phases]
  <2>1. nothing(r) => work' = work BY DEF AdoptCheck
  <2>2. ~nothing(r) => work' = fan(r, live, "idle") BY DEF AdoptCheck
  <2>3. work'.pc # "stamp" BY <1>2, <2>1, <2>2, FanShape, LiveRuns DEF Typed
  <2> QED BY <1>1, <1>2, <2>3 DEF Moved, Typed
<1>5. \A s \in Runs : valid(home[s])' = valid(home[s]) BY <1>1 DEF valid
<1>6. InForce'
  <2>1. \A h \in Hosts : valid(cli[h].answer)' = valid(cli[h].answer) BY <1>1 DEF valid
  <2> QED BY <1>1, <1>4, <1>5, <2>1 DEF InForce, Moved
<1>7. CASE nothing(r)
  <2>1. phase' = [phase EXCEPT ![r] = "checked"] /\ UNCHANGED <<master, seen, work>>
    BY <1>7 DEF AdoptCheck
  <2>2. /\ phase'[r] = "checked" /\ \A s \in Runs : s # r => phase'[s] = phase[s]
        /\ valid(master)' = valid(master)
    BY <1>1, <1>4, <2>1 DEF valid
  <2>3. OneGrant' BY <1>1, <2>1 DEF OneGrant
  <2>4. Watched'
    <3>1. \A s \in Moved : s \in Runs BY DEF Moved
    <3> QED BY <1>1, <1>2, <1>3, <1>4, <2>1, <2>2, <3>1 DEF Watched
  <2>5. Backed' BY <1>1, <1>2, <1>5, <1>7, <2>1, <2>2 DEF Backed, nothing, valid
  <2>6. Fanned' BY <1>2, <2>1 DEF Fanned
  <2> QED BY <1>6, <2>3, <2>4, <2>5, <2>6
<1>8. CASE ~nothing(r)
  <2>1. /\ master' = home[r] /\ seen' = changed /\ work' = fan(r, live, "idle") /\ phase' = phase
    BY <1>8 DEF AdoptCheck
  <2>2. /\ work'.by = r /\ work'.pc = "fan"
    BY <2>1, FanShape, LiveRuns DEF Typed
  <2>3. r \in Moved /\ valid(home[r]) /\ token # "due" BY <1>2, <1>8 DEF nothing, Moved, InForce
  <2>4. valid(master)' BY <1>1, <2>1, <2>3 DEF valid
  <2>5. OneGrant' BY <1>1, <2>1 DEF OneGrant
  <2>6. Watched' BY <1>1, <1>3, <1>4, <2>1, <2>2 DEF Watched, Moved
  <2>7. Backed' BY <2>2, <2>4 DEF Backed
  <2>8. Fanned' BY <1>1, <2>1, <2>2, <2>3, <2>4, Names DEF Fanned, unseen
  <2> QED BY <1>6, <2>5, <2>6, <2>7, <2>8
<1> QED BY <1>7, <1>8

\* Steps of the tick that only look.
LEMMA LookCalm ==
  ASSUME Undisturbed, TickStart \/ Scan \/ PokeIdle
  PROVE  Calm'
<1> USE DEF Undisturbed, Always, Calm
<1>0. work \in Work /\ cli \in [Hosts -> [there : BOOLEAN, answer : Credentials]] BY DEF Typed
<1>1. /\ UNCHANGED <<latest, master, home, phase, cli, seen>> /\ base' = base
      /\ token' = token \/ (token = "new" /\ token' = "watched")
  <2>1. CASE TickStart BY <2>1 DEF TickStart, files
  <2>2. CASE PokeIdle BY <2>2 DEF PokeIdle, files, provider
  <2>3. CASE Scan
    <3>1. /\ base' = [r \in Runs |-> IF r \in work.live /\ base[r] = "none" THEN stamped(r) ELSE base[r]]
          /\ work.pc = "scan"
      BY <2>3 DEF Scan
    <3>2. base \in [Runs -> {"none", "same", "diverged"}] BY DEF Typed
    <3>3. \A r \in Runs : base'[r] = base[r] BY <3>1 DEF Clean, stamped, stamp
    <3>4. base' = base BY <3>1, <3>2, <3>3
    <3> QED BY <2>3, <3>4 DEF Scan, provider
  <2> QED BY <2>1, <2>2, <2>3
<1>w. work.pc # "stamp" /\ work'.pc # "stamp"
  <2>1. CASE TickStart BY <2>1, RestShape DEF TickStart, Rest
  <2>2. CASE PokeIdle BY <1>0, <2>2 DEF PokeIdle, Work
  <2>3. CASE Scan
    <3>1. PICK cands \in Seq(Runs) :
            work' = [work EXCEPT !.cands = cands, !.pc = IF candidates = {} THEN "poke" ELSE "adopt"]
      BY <1>0, <2>3, Scanned
    <3> QED BY <1>0, <2>3, <3>1 DEF Scan, Work
  <2> QED BY <2>1, <2>2, <2>3
<1>2. Moved' = Moved /\ \A r \in Moved : r \in Runs BY <1>1, <1>w DEF Moved
<1>3. valid(master)' = valid(master) /\ \A r \in Runs : valid(home[r])' = valid(home[r])
  BY <1>1 DEF valid
<1>4. \A h \in Hosts : valid(cli[h].answer)' = valid(cli[h].answer) BY <1>1 DEF valid
<1>5. OneGrant' BY <1>1 DEF OneGrant
<1>6. CASE TickStart
  <2>1. /\ work = Rest /\ work' = [Rest EXCEPT !.by = Host, !.pc = "scan", !.live = live]
        /\ token' = IF token = "new" /\ \A h \in DOMAIN cli : cli[h] = Quiet THEN "watched" ELSE token
    BY <1>6 DEF TickStart
  <2>2. work'.by = Host /\ work'.pc = "scan" /\ work'.live = live BY <2>1 DEF Rest
  <2>3. work.pc = "idle" /\ work.by = None BY <2>1, RestShape
  <2>4. seen # "changed" BY <2>3 DEF Fanned
  <2>5. InForce'
    <3>1. token' # token => \A h \in Hosts : cli'[h].answer = Out BY <1>0, <1>1, <2>1, QuietShape
    <3>2. token' = "due" => token = "due" BY <1>1
    <3> QED BY <1>1, <1>2, <1>3, <1>4, <3>1, <3>2 DEF InForce
  <2>6. Watched'
    <3>1. token # "watched" BY <2>3, Names DEF Watched
    <3>2. \A r \in Moved : phase[r] = "live" => r \in live BY <1>2 DEF live, active
    <3>3. token' = "old" => token = "old" BY <1>1
    <3> QED BY <1>1, <1>2, <2>2, <3>1, <3>2, <3>3 DEF Watched, inHand
  <2>7. Backed' BY <1>1, <1>3, <2>2 DEF Backed
  <2>8. Fanned' BY <1>1, <2>2, <2>4 DEF Fanned
  <2> QED BY <1>5, <2>5, <2>6, <2>7, <2>8
<1>7. CASE Scan \/ PokeIdle
  <2>1. token' = token /\ work.pc \in {"scan", "poke"} BY <1>7 DEF Scan, PokeIdle, provider
  <2>2. seen # "changed" BY <2>1 DEF Fanned
  <2>3. InForce' BY <1>1, <1>2, <1>3, <1>4, <2>1 DEF InForce
  <2>4. work'.pc \in {"poke", "adopt", "compare"} /\ work'.by = work.by
    <3>1. CASE PokeIdle BY <1>0, <3>1 DEF PokeIdle, Work
    <3>2. CASE Scan
      <4>1. PICK cands \in Seq(Runs) :
              work' = [work EXCEPT !.cands = cands, !.pc = IF candidates = {} THEN "poke" ELSE "adopt"]
        BY <1>0, <3>2, Scanned
      <4> QED BY <1>0, <4>1 DEF Work
    <3> QED BY <1>7, <3>1, <3>2
  <2>5. Backed' BY <1>1, <1>3, <2>4 DEF Backed
  <2>6. Fanned' BY <1>1, <2>2, <2>4 DEF Fanned
  <2>7. Watched'
    <3>1. CASE PokeIdle
      <4>1. work.pc = "poke" /\ work'.pc = "compare" BY <1>0, <3>1 DEF PokeIdle, Work
      <4> QED BY <1>1, <1>2, <2>1, <2>4, <4>1 DEF Watched, inHand
    <3>2. CASE Scan
      <4>1. PICK cands \in Seq(Runs) :
              /\ \A i \in DOMAIN cands : cands[i] \in candidates
              /\ \A r \in candidates : \E i \in DOMAIN cands : cands[i] = r
              /\ work' = [work EXCEPT !.cands = cands, !.pc = IF candidates = {} THEN "poke" ELSE "adopt"]
        BY <1>0, <3>2, Scanned
      <4>2. work'.cands = cands /\ work'.pc = IF candidates = {} THEN "poke" ELSE "adopt"
        BY <1>0, <4>1 DEF Work
      <4>3. work.pc = "scan" BY <3>2 DEF Scan
      <4>4. \A r \in Moved : r \in work.live => r \in candidates BY DEF Moved, candidates
      <4>5. \A r \in Moved : r \in work.live => inHand(r)' BY <4>1, <4>2, <4>4 DEF inHand
      <4>6. \A i \in DOMAIN work'.cands : base'[work'.cands[i]] = "diverged"
        BY <1>1, <4>1, <4>2 DEF candidates
      <4>7. token = "watched" => \A r \in Moved : phase[r] = "live" => r \in work.live
        BY <4>3 DEF Watched, inHand
      <4> QED BY <1>1, <1>2, <2>1, <2>4, <4>5, <4>6, <4>7 DEF Watched
    <3> QED BY <1>7, <3>1, <3>2
  <2> QED BY <1>5, <2>3, <2>5, <2>6, <2>7
<1> QED BY <1>6, <1>7

\* The newest home that moved holds the family in force.
LEMMA AdoptCalm == ASSUME Undisturbed, Adopt PROVE Calm'
<1> USE DEF Undisturbed, Always, Calm
<1>0. work \in Work BY DEF Typed
<1>1. work.pc = "adopt" /\ UNCHANGED <<latest, token, home, base, order, phase, cli>>
  BY DEF Adopt, provider
<1>w. work'.pc # "stamp"
  <2>1. work.live \in SUBSET Runs BY <1>0 DEF Work
  <2>2. fan(Host, work.live, "poke").pc = "fan" BY <1>0, <2>1, FanShape
  <2> QED BY <1>0, <1>1, <2>2 DEF Adopt, Work
<1>2. Moved' = Moved /\ \A r \in Moved : r \in Runs BY <1>1, <1>w DEF Moved
<1>3. \A r \in Runs : valid(home[r])' = valid(home[r]) BY <1>1 DEF valid
<1>4. InForce'
  <2>1. \A h \in Hosts : valid(cli[h].answer)' = valid(cli[h].answer) BY <1>1 DEF valid
  <2> QED BY <1>1, <1>2, <1>3, <2>1 DEF InForce
<1>5. work.by = Host BY <1>0, <1>1, RestShape DEF Working, Work
<1>6. seen # "changed" BY <1>1 DEF Fanned
<1>7. CASE UNCHANGED <<master, seen>> /\ work'.pc \in {"adopt", "poke"} /\ Watched'
  <2>1. OneGrant' BY <1>1, <1>7 DEF OneGrant
  <2>2. Backed' BY <1>1, <1>3, <1>7 DEF Backed, valid
  <2>3. Fanned' BY <1>6, <1>7 DEF Fanned
  <2> QED BY <1>4, <1>7, <2>1, <2>2, <2>3
<1>8. CASE work.cands = <<>>
  <2>1. work' = [work EXCEPT !.pc = "poke"] /\ UNCHANGED <<master, seen>> BY <1>8 DEF Adopt
  <2>2. work'.pc = "poke" /\ work'.by = work.by BY <1>0, <2>1 DEF Work
  <2>3. \A r : ~inHand(r) BY <1>1, <1>8 DEF inHand
  <2>4. Watched' BY <1>1, <1>2, <2>2, <2>3 DEF Watched
  <2> QED BY <1>7, <2>1, <2>2, <2>4
<1>9. CASE work.cands # <<>> /\ refused(Head(work.cands))
  <2>1. work' = [work EXCEPT !.cands = Tail(@)] /\ UNCHANGED <<master, seen>> BY <1>9 DEF Adopt
  <2>2. work.cands \in Seq(Runs) BY <1>0 DEF Work
  <2>3. work'.pc = "adopt" /\ work'.by = work.by /\ work'.cands = Tail(work.cands)
    BY <1>0, <1>1, <2>1 DEF Work
  <2>4. /\ Len(work.cands) \in Nat \ {0} /\ DOMAIN work'.cands = 1..(Len(work.cands) - 1)
        /\ \A i \in DOMAIN work'.cands : work'.cands[i] = work.cands[i + 1]
    BY <1>9, <2>2, <2>3
  <2>5. \A i \in DOMAIN work'.cands : i + 1 \in DOMAIN work.cands BY <2>2, <2>4
  <2>6. \A i \in DOMAIN work'.cands : base'[work'.cands[i]] = "diverged"
    BY <1>1, <2>4, <2>5 DEF Watched
  <2>7. \A r \in Moved : inHand(r) => inHand(r)'
    <3> SUFFICES ASSUME NEW r \in Moved, inHand(r) PROVE inHand(r)' OBVIOUS
    <3>1. PICK i \in DOMAIN work.cands : work.cands[i] = r BY <1>1 DEF inHand
    <3>2. home[r] # Out /\ home[work.cands[1]] = Out BY <1>9, <2>2 DEF Moved, refused
    <3>3. i # 1 /\ i \in 1..Len(work.cands) BY <2>2, <3>1, <3>2
    <3>4. i - 1 \in DOMAIN work'.cands BY <2>4, <3>3
    <3>5. work'.cands[i - 1] = r
      <4>1. (i - 1) + 1 = i BY <3>3
      <4> QED BY <2>4, <3>1, <3>4, <4>1
    <3> QED BY <2>3, <3>4, <3>5 DEF inHand
  <2>8. Watched' BY <1>1, <1>2, <2>3, <2>6, <2>7 DEF Watched
  <2> QED BY <1>7, <2>1, <2>3, <2>8
<1>10. CASE work.cands # <<>> /\ ~refused(Head(work.cands))
  <2> DEFINE c == Head(work.cands)
  <2>1. master' = home[c] /\ seen' = changed /\ work' = fan(Host, work.live, "poke")
    BY <1>10 DEF Adopt
  <2>2. work.live \in SUBSET Runs BY <1>0 DEF Work
  <2>3. work'.by = Host /\ work'.pc = "fan" /\ work'.todo = work.live /\ work'.then = "poke"
    BY <1>0, <2>1, <2>2, FanShape
  <2>4. 1 \in DOMAIN work.cands /\ c = work.cands[1] BY <1>0, <1>10 DEF Work
  <2>5. base[c] = "diverged" /\ c \in work.live BY <1>1, <2>4 DEF Watched, Working
  <2>6. c \in Runs /\ c \in Moved BY <1>1, <1>10, <2>2, <2>5 DEF Moved, refused
  <2>7. valid(home[c]) /\ token # "due" BY <2>6 DEF InForce
  <2>8. token = "old" => phase[c] = "ended"
    <3>1. phase[c] \in {"live", "ended"} BY <2>5, <2>6 DEF Working, Clean
    <3> QED BY <2>6, <3>1 DEF Watched
  <2> HIDE DEF c
  <2>9. valid(master)' BY <1>1, <2>1, <2>7 DEF valid
  <2>10. OneGrant' BY <1>1, <2>1, <2>6 DEF OneGrant
  <2>11. Watched'
    <3>1. \A r \in Moved : inHand(r) => r \in work.live BY <1>1 DEF inHand, Working
    <3> QED BY <1>1, <1>2, <1>5, <2>3, <3>1 DEF Watched, inHand
  <2>12. Backed' BY <2>3, <2>9 DEF Backed
  <2>13. Fanned' BY <1>1, <2>1, <2>3, <2>6, <2>7, <2>8, <2>9 DEF Fanned, unseen
  <2> QED BY <1>4, <2>10, <2>11, <2>12, <2>13
<1> QED BY <1>8, <1>9, <1>10

LEMMA FanInjectCalm == ASSUME Undisturbed, NEW r \in Runs, FanInject(r) PROVE Calm'
<1> USE DEF Undisturbed, Always, Calm
<1>0. /\ home \in [Runs -> Credentials] /\ base \in [Runs -> {"none", "same", "diverged"}]
      /\ work \in Work
  BY DEF Typed
<1>1. /\ work.pc = "fan" /\ work' = [work EXCEPT !.pc = "stamp", !.at = r, !.todo = @ \ {r}]
      /\ home' = [home EXCEPT ![r] = master] /\ base' = [base EXCEPT ![r] = moved(@)]
      /\ UNCHANGED <<latest, token, master, phase, cli, seen>>
  BY DEF FanInject, provider
<1>2. /\ home'[r] = master /\ (base'[r] # "diverged" => base[r] # "diverged")
      /\ \A s \in Runs : s # r => home'[s] = home[s] /\ base'[s] = base[s]
  BY <1>0, <1>1 DEF moved
<1>3. /\ work'.pc = "stamp" /\ work'.at = r /\ work'.by = work.by /\ work'.then = work.then
      /\ work'.todo = work.todo \ {r}
  BY <1>0, <1>1 DEF Work
<1>4. Moved' \subseteq Moved \ {r} /\ \A s \in Moved : s \in Runs BY <1>1, <1>2, <1>3 DEF Moved
<1>5. \A s \in Runs : s # r => valid(home[s])' = valid(home[s]) BY <1>1, <1>2 DEF valid
<1>6. valid(master)' = valid(master) /\ valid(home[r])' = valid(master) BY <1>1, <1>2 DEF valid
<1>7. OneGrant' BY <1>1, <1>2 DEF OneGrant
<1>8. InForce'
  <2>1. \A h \in Hosts : valid(cli[h].answer)' = valid(cli[h].answer) BY <1>1 DEF valid
  <2> QED BY <1>1, <1>4, <1>5, <2>1 DEF InForce
<1>9. Watched' BY <1>1, <1>3, <1>4 DEF Watched, inHand
<1>10. Backed' BY <1>1, <1>2, <1>3, <1>5, <1>6 DEF Backed
<1>11. Fanned' BY <1>1, <1>3, <1>6 DEF Fanned, unseen
<1> QED BY <1>7, <1>8, <1>9, <1>10, <1>11

\* The signature that is read is the one of what was injected.
LEMMA FanStampCalm == ASSUME Undisturbed, FanStamp PROVE Calm'
<1> USE DEF Undisturbed, Always, Calm
<1> DEFINE r == work.at
<1>0. base \in [Runs -> {"none", "same", "diverged"}] /\ work \in Work BY DEF Typed
<1>1. /\ work.pc = "stamp" /\ work' = [work EXCEPT !.pc = "fan", !.at = None]
      /\ base' = [base EXCEPT ![r] = stamped(r)]
      /\ UNCHANGED <<latest, token, master, home, phase, cli, seen>>
  BY DEF FanStamp, provider
<1>2. r \in Runs /\ home[r] = master /\ stamped(r) # "diverged"
  BY <1>1 DEF Working, Clean, stamped, stamp
<1>3. base'[r] # "diverged" /\ \A s \in Runs : s # r => base'[s] = base[s] BY <1>0, <1>1, <1>2
<1>4. /\ work'.pc = "fan" /\ work'.by = work.by /\ work'.then = work.then /\ work'.todo = work.todo
  BY <1>0, <1>1 DEF Work
<1>5. Moved' = Moved /\ \A s \in Moved : s \in Runs
  <2>1. r \notin Moved /\ r \notin Moved' BY <1>1, <1>3 DEF Moved
  <2>2. \A s \in Runs : s # r => (s \in Moved' <=> s \in Moved) BY <1>1, <1>3, <1>4 DEF Moved
  <2>3. Moved \subseteq Runs /\ Moved' \subseteq Runs BY DEF Moved
  <2> QED BY <2>1, <2>2, <2>3
<1> HIDE DEF r
<1>6. \A s \in Runs : valid(home[s])' = valid(home[s]) BY <1>1 DEF valid
<1>7. valid(master)' = valid(master) /\ valid(home[r]) = valid(master) BY <1>1, <1>2 DEF valid
<1>8. OneGrant' BY <1>1 DEF OneGrant
<1>9. InForce'
  <2>1. \A h \in Hosts : valid(cli[h].answer)' = valid(cli[h].answer) BY <1>1 DEF valid
  <2> QED BY <1>1, <1>5, <1>6, <2>1 DEF InForce
<1>10. Watched' BY <1>1, <1>4, <1>5 DEF Watched, inHand
<1>11. Backed'
  <2>1. \A s \in Runs : (base'[s] # "diverged" \/ phase[s] = "checked") /\ valid(home[s]) => valid(master)
    BY <1>3, <1>7 DEF Backed
  <2> QED BY <1>1, <1>4, <1>6, <1>7, <2>1 DEF Backed
<1>12. Fanned' BY <1>1, <1>4, <1>7 DEF Fanned, unseen
<1> QED BY <1>8, <1>9, <1>10, <1>11, <1>12

\* The mutex is released, or the tick goes on: no moved home of a live run is left.
LEMMA FanOutDoneCalm == ASSUME Undisturbed, FanOutDone PROVE Calm'
<1> USE DEF Undisturbed, Always, Calm
<1>0. work \in Work /\ phase \in [Runs -> Phases] BY DEF Typed
<1>1. /\ work.pc = "fan" /\ work.todo = {} /\ seen' = "same"
      /\ work' = IF work.then = "idle" THEN Rest ELSE [work EXCEPT !.pc = work.then]
      /\ phase' = IF work.by \in Runs THEN [phase EXCEPT ![work.by] = "checked"] ELSE phase
      /\ token' = IF work'.by = None /\ work.by = Host /\ token = "watched" THEN "old" ELSE token
      /\ UNCHANGED <<latest, files, cli>>
  BY DEF FanOutDone, ticked
<1>w. work'.pc # "stamp" BY <1>0, <1>1, RestShape DEF Work
<1>2. Moved' = Moved /\ \A r \in Moved : r \in Runs BY <1>1, <1>w DEF Moved, files
<1>3. token = "watched" => work.by = Host /\ \A r \in Moved : phase[r] # "live"
  BY <1>1 DEF Watched, inHand
<1>4. /\ work'.pc \in {"idle", "poke"}
      /\ work'.by = None \/ (work'.by = work.by /\ work'.pc = "poke")
  BY <1>0, <1>1, RestShape DEF Work
<1>5. work.by = Host => phase' = phase BY <1>1, Names
<1>6. \A r \in Runs : \/ phase'[r] = phase[r]
                      \/ r = work.by /\ phase'[r] = "checked" /\ phase[r] = "ended"
  BY <1>0, <1>1 DEF Working
<1>7. token' = token \/ (token = "watched" /\ token' = "old" /\ work.by = Host) BY <1>1
<1>8. OneGrant' BY <1>1 DEF OneGrant, files
<1>9. InForce'
  <2>1. \A h \in Hosts : valid(cli[h].answer)' = valid(cli[h].answer) BY <1>1 DEF valid
  <2>2. \A r \in Runs : valid(home[r])' = valid(home[r]) BY <1>1 DEF valid, files
  <2>3. token = "new" => token' = "new" BY <1>7
  <2>4. token' = "due" => token = "due" BY <1>7
  <2> QED BY <1>1, <1>2, <2>1, <2>2, <2>3, <2>4 DEF InForce
<1>10. Watched'
  <2>1. token' = "watched" => work'.by = Host /\ \A r \in Moved : phase'[r] # "live"
    BY <1>1, <1>2, <1>3, <1>4, <1>5, <1>7, Names
  <2>2. token' = "old" => \A r \in Moved : phase'[r] # "live"
    BY <1>2, <1>3, <1>5, <1>6, <1>7 DEF Watched
  <2> QED BY <1>2, <1>4, <2>1, <2>2 DEF Watched
<1>11. Backed'
  <2>1. \A r \in Runs : valid(home[r])' = valid(home[r]) BY <1>1 DEF valid, files
  <2>2. valid(master)' = valid(master) BY <1>1 DEF valid, files
  <2>3. work.by \in Runs => valid(master) BY <1>1, Names DEF Fanned, unseen
  <2> QED BY <1>1, <1>4, <1>6, <2>1, <2>2, <2>3 DEF Backed, files
<1>12. Fanned' BY <1>1, <1>4 DEF Fanned
<1> QED BY <1>8, <1>9, <1>10, <1>11, <1>12

\* The poke brings the family in force home, or finds the host logged out.
LEMMA PokedCalm == ASSUME Undisturbed, Poked PROVE Calm'
<1> USE DEF Undisturbed, Always, Calm
<1> DEFINE a == cli[Host].answer
<1>0. work \in Work /\ cli \in [Hosts -> [there : BOOLEAN, answer : Credentials]] BY DEF Typed
<1>1. /\ work.pc = "poking" /\ cli' = [cli EXCEPT ![Host] = Quiet]
      /\ master' = a /\ seen' = changed /\ work' = [work EXCEPT !.pc = "compare"]
      /\ token' = IF valid(a) THEN "new" ELSE token
      /\ UNCHANGED <<latest, home, base, order, phase>>
  BY DEF Poked
<1>2. a = Out \/ (valid(a) /\ token = "new") BY DEF InForce
<1>3. token' = token BY <1>1, <1>2 DEF valid
<1>4. work'.pc = "compare" /\ work'.by = work.by BY <1>0, <1>1 DEF Work
<1>5. cli'[Host].answer = Out /\ \A h \in Hosts : h # Host => cli'[h] = cli[h]
  BY <1>0, <1>1, QuietShape
<1>6. Moved' = Moved BY <1>1, <1>4 DEF Moved
<1>7. \A r \in Runs : valid(home[r])' = valid(home[r]) BY <1>1 DEF valid
<1>8. valid(master)' = valid(a) BY <1>1 DEF valid
<1>9. OneGrant'
  <2>1. a = Out \/ (a[1] = 1 /\ a[2] <= latest[1]) BY DEF OneGrant
  <2> HIDE DEF a
  <2> QED BY <1>1, <1>5, <2>1 DEF OneGrant
<1>10. InForce'
  <2>1. \A h \in Hosts : cli'[h].answer # Out => valid(cli[h].answer)' /\ token' = "new"
    BY <1>1, <1>3, <1>5 DEF InForce, valid
  <2>2. \A r \in Moved : r \in Runs BY DEF Moved
  <2> QED BY <1>3, <1>6, <1>7, <2>1, <2>2 DEF InForce
<1>11. Watched' BY <1>1, <1>3, <1>4, <1>6 DEF Watched, inHand
<1>12. Backed'
  <2>1. a = Out => ~valid(master) BY <1>1 DEF Backed
  <2> HIDE DEF a
  <2> QED BY <1>1, <1>2, <1>4, <1>7, <1>8, <2>1 DEF Backed
<1>13. Fanned' BY <1>1, <1>2, <1>3, <1>4, <1>8 DEF Fanned
<1> QED BY <1>9, <1>10, <1>11, <1>12, <1>13

LEMMA CompareCalm == ASSUME Undisturbed, Compare PROVE Calm'
<1> USE DEF Undisturbed, Always, Calm
<1>0. work \in Work BY DEF Typed
<1>1. /\ work.pc = "compare" /\ UNCHANGED <<latest, files, phase, cli>>
      /\ token' = IF work'.by = None /\ work.by = Host /\ token = "watched" THEN "old" ELSE token
  BY DEF Compare, ticked
<1>2. work.by = Host BY <1>0, <1>1, RestShape DEF Working, Work
<1>w. work'.pc # "stamp"
  <2>1. work.live \in SUBSET Runs BY <1>0 DEF Work
  <2>2. fan(Host, work.live, "idle").pc = "fan" BY <1>0, <2>1, FanShape
  <2> QED BY <2>2, RestShape DEF Compare
<1>3. Moved' = Moved /\ \A r \in Moved : r \in Runs BY <1>1, <1>w DEF Moved, files
<1>4. token = "watched" => \A r \in Moved : phase[r] # "live" BY <1>1 DEF Watched, inHand
<1>5. OneGrant' BY <1>1 DEF OneGrant, files
<1>6. valid(master)' = valid(master) /\ \A r \in Runs : valid(home[r])' = valid(home[r])
  BY <1>1 DEF valid, files
<1>7. InForce'
  <2>1. \A h \in Hosts : valid(cli[h].answer)' = valid(cli[h].answer) BY <1>1 DEF valid
  <2>2. (token = "new" => token' = "new") /\ (token' = "due" => token = "due") BY <1>1
  <2> QED BY <1>1, <1>3, <1>6, <2>1, <2>2 DEF InForce
<1>8. CASE master # Out /\ seen # "same"
  <2>1. work' = fan(Host, work.live, "idle") /\ seen' = seen BY <1>8 DEF Compare
  <2>2. work.live \in SUBSET Runs BY <1>0 DEF Work
  <2>3. work'.by = Host /\ work'.pc = "fan" /\ work'.then = "idle"
    BY <1>0, <2>1, <2>2, FanShape
  <2>4. token' = token BY <1>1, <2>3, Names
  <2>5. Watched' BY <1>1, <1>3, <1>4, <2>3, <2>4 DEF Watched
  <2>6. Backed' BY <1>1, <1>6, <2>3 DEF Backed, files
  <2>7. seen # "none" => valid(master) /\ token = "new" BY <1>1, <1>8 DEF Fanned, Typed
  <2>8. Fanned' BY <1>6, <2>1, <2>3, <2>4, <2>7 DEF Fanned, unseen
  <2> QED BY <1>5, <1>7, <2>5, <2>6, <2>8
<1>9. CASE ~(master # Out /\ seen # "same")
  <2>1. work' = Rest /\ seen' = "same" BY <1>9 DEF Compare
  <2>2. work'.pc = "idle" /\ work'.by = None BY <2>1, RestShape
  <2>3. token' = IF token = "watched" THEN "old" ELSE token BY <1>1, <1>2, <2>2
  <2>4. Watched' BY <1>1, <1>3, <1>4, <2>2, <2>3 DEF Watched
  <2>5. Backed' BY <1>1, <1>6, <2>2 DEF Backed, files
  <2>6. Fanned' BY <2>1, <2>2 DEF Fanned
  <2> QED BY <1>5, <1>7, <2>4, <2>5, <2>6
<1> QED BY <1>8, <1>9

\* A disturbance leaves nothing to claim.
Disturbance ==
  \/ LogIn \/ Restart \/ AdoptFails \/ FanStampFails
  \/ \E r \in Runs : WipeFails(r) \/ Rollback(r) \/ AdoptCheckFails(r) \/ FanInjectFails(r)

LEMMA Disturbances == ASSUME trouble = {}, Disturbance PROVE trouble' # {}
<1>1. \E t \in AllTrouble : happens(t)
  BY DEF Disturbance, LogIn, Restart, AdoptFails, FanStampFails, WipeFails, Rollback, AdoptCheckFails,
         FanInjectFails, AllTrouble
<1> QED BY <1>1 DEF happens

LEMMA TroubleStays == [Next]_vars => trouble \subseteq trouble'
BY DEF Next, WorldNext, LabNext, Tick, vars, happens, Ages, LogIn, Refresh, Refreshed, Inject,
       CreateRun, EndRun, Rollback, Wipe, WipeFails, AdoptCheck, AdoptCheckFails, AdoptCheckNoRow,
       TickStart, Scan, Adopt, AdoptFails, FanInject, FanInjectFails, FanStamp, FanStampFails,
       FanOutDone, Poke, Poked, PokeIdle, Compare, Restart

LEMMA NoRowCalm == Undisturbed => \A r \in Runs : ~AdoptCheckNoRow(r)
BY DEF Undisturbed, Clean, AdoptCheckNoRow

LEMMA CalmKeeps == IInv /\ [Next]_vars /\ trouble' = {} => Calm'
<1> SUFFICES ASSUME IInv, [Next]_vars, trouble' = {} PROVE Calm' OBVIOUS
<1>1. trouble = {} BY TroubleStays
<1>2. Undisturbed BY <1>1 DEF Undisturbed, IInv
<1>3. ~Disturbance /\ \A r \in Runs : ~AdoptCheckNoRow(r) BY <1>1, <1>2, Disturbances, NoRowCalm
<1>4. CASE WorldNext
  BY <1>2, <1>3, <1>4, AgesCalm, RefreshCalm, RefreshedCalm DEF WorldNext, Disturbance
<1>5. CASE LabNext
  BY <1>2, <1>3, <1>5, InjectCalm, StartEndCalm, WipeCalm, AdoptCheckCalm, LookCalm, AdoptCalm,
     FanInjectCalm, FanStampCalm, FanOutDoneCalm, PokeCalm, PokedCalm, CompareCalm
  DEF LabNext, Tick, Disturbance
<1>6. CASE UNCHANGED vars
  BY <1>2, <1>6 DEF Undisturbed, Calm, vars, OneGrant, InForce, Watched, Backed, Fanned, valid, Moved,
     inHand, unseen
<1> QED BY <1>4, <1>5, <1>6 DEF Next

\* A step of another than the holder of mu, which waits to stamp a home.
LEMMA CleanStays ==
  ASSUME Undisturbed, work' = work, master' = master,
         \A r \in Runs : /\ phase'[r] \in {phase[r], "injected", "live", "ended", "checked", "gone"}
                         /\ base'[r] = "none" => home'[r] = Out \/ (base[r] = "none" /\ home'[r] = home[r]),
         work.pc = "stamp" => home'[work.at] = home[work.at]
  PROVE  Clean'
BY DEF Undisturbed, Clean

LEMMA CleanKeeps == IInv /\ [Next]_vars /\ trouble' = {} => Clean'
<1> SUFFICES ASSUME IInv, [Next]_vars, trouble' = {} PROVE Clean' OBVIOUS
<1>1. trouble = {} BY TroubleStays
<1>2. Undisturbed BY <1>1 DEF Undisturbed, IInv
<1>3. ~Disturbance /\ \A r \in Runs : ~AdoptCheckNoRow(r) BY <1>1, <1>2, Disturbances, NoRowCalm
<1>t. /\ Typed /\ Housed /\ Working /\ Clean
      /\ home \in [Runs -> Credentials] /\ base \in [Runs -> {"none", "same", "diverged"}]
      /\ phase \in [Runs -> Phases] /\ work \in Work
  BY <1>2 DEF Undisturbed, Always, Typed
<1>4. ASSUME NEW r \in Runs, Inject(r) PROVE Clean'
  <2>1. /\ phase[r] = "none" /\ phase' = [phase EXCEPT ![r] = "injected"]
        /\ home' = [home EXCEPT ![r] = master] /\ base' = [base EXCEPT ![r] = stamp(master)]
        /\ master' = master /\ work' = work
    BY <1>4 DEF Inject
  <2>2. \A s \in Runs : /\ s # r => phase'[s] = phase[s] /\ home'[s] = home[s] /\ base'[s] = base[s]
                        /\ s = r => phase'[s] = "injected" /\ home'[s] = master
                                    /\ (base'[s] = "none" => master = Out)
    BY <1>t, <2>1 DEF stamp
  <2>3. work.pc = "stamp" => work.at \in Runs /\ work.at # r BY <1>t, <2>1 DEF Working
  <2>4. \A s \in Runs : base'[s] = "none" => home'[s] = Out \/ (base[s] = "none" /\ home'[s] = home[s])
    BY <2>2
  <2> QED BY <1>2, <2>1, <2>2, <2>3, <2>4, CleanStays
<1>5. ASSUME NEW r \in Runs, CreateRun(r) \/ EndRun(r) PROVE Clean'
  <2>1. /\ work' = work /\ master' = master /\ home' = home /\ base' = base
        /\ phase' = [phase EXCEPT ![r] = "live"] \/ phase' = [phase EXCEPT ![r] = "ended"]
    BY <1>5 DEF CreateRun, EndRun, files
  <2> QED BY <1>t, <1>2, <2>1, CleanStays
<1>6. ASSUME NEW r \in Runs, Wipe(r) PROVE Clean'
  <2>1. /\ phase[r] \in {"checked", "bare"} /\ phase' = [phase EXCEPT ![r] = "gone"]
        /\ home' = [home EXCEPT ![r] = Out] /\ base' = [base EXCEPT ![r] = "none"]
        /\ master' = master /\ work' = work
    BY <1>6 DEF Wipe
  <2>2. \A s \in Runs : /\ s # r => phase'[s] = phase[s] /\ home'[s] = home[s] /\ base'[s] = base[s]
                        /\ s = r => phase'[s] = "gone" /\ home'[s] = Out
    BY <1>t, <2>1
  <2>3. work.pc = "stamp" => work.at \in Runs /\ work.at # r BY <1>t, <2>1 DEF Working
  <2>4. \A s \in Runs : base'[s] = "none" => home'[s] = Out \/ (base[s] = "none" /\ home'[s] = home[s])
    BY <2>2
  <2> QED BY <1>2, <2>1, <2>2, <2>3, <2>4, CleanStays
<1>7. ASSUME NEW r \in Runs, Refreshed(r) PROVE Clean'
  <2>1. /\ ~stamping(r) /\ home' = [home EXCEPT ![r] = cli[r].answer]
        /\ base' = [base EXCEPT ![r] = moved(@)] /\ UNCHANGED <<master, phase, work>>
    BY <1>1, <1>7 DEF Refreshed, happens
  <2>2. \A s \in Runs : /\ s # r => home'[s] = home[s] /\ base'[s] = base[s]
                        /\ s = r => home'[s] = cli[r].answer /\ (base'[s] = "none" => base[s] = "none")
    BY <1>t, <2>1 DEF moved
  <2>3. base[r] = "none" => cli[r].answer = Out BY <1>t, <2>1 DEF Clean, Housed
  <2>4. \A s \in Runs : base'[s] = "none" => home'[s] = Out \/ (base[s] = "none" /\ home'[s] = home[s])
    BY <2>2, <2>3
  <2>5. work.pc = "stamp" => work.at \in Runs /\ work.at # r BY <1>t, <2>1 DEF Working
  <2> QED BY <1>2, <2>1, <2>2, <2>4, <2>5, CleanStays
<1>8. ASSUME NEW r \in Runs, FanInject(r) PROVE Clean'
  <2>1. /\ work.pc = "fan" /\ work' = [work EXCEPT !.pc = "stamp", !.at = r, !.todo = @ \ {r}]
        /\ home' = [home EXCEPT ![r] = master] /\ base' = [base EXCEPT ![r] = moved(@)]
        /\ UNCHANGED <<master, phase>>
    BY <1>8 DEF FanInject
  <2>2. work'.pc = "stamp" /\ work'.at = r BY <1>t, <2>1 DEF Work
  <2>3. home'[r] = master /\ \A s \in Runs : s # r => home'[s] = home[s] /\ base'[s] = base[s]
    BY <1>t, <2>1
  <2> QED BY <1>t, <2>1, <2>2, <2>3 DEF Clean
<1>9. CASE FanStamp
  <2>1. /\ work.pc = "stamp" /\ work' = [work EXCEPT !.pc = "fan", !.at = None]
        /\ base' = [base EXCEPT ![work.at] = stamped(work.at)]
        /\ UNCHANGED <<master, home, phase>>
    BY <1>9 DEF FanStamp
  <2>2. work'.pc = "fan" /\ work.at \in Runs /\ master # Out /\ home[work.at] = master
    BY <1>t, <2>1 DEF Work, Working, Clean
  <2>3. stamped(work.at) = "same" BY <1>t, <2>2 DEF Clean, stamped, stamp
  <2>4. base'[work.at] = "same" /\ \A s \in Runs : s # work.at => base'[s] = base[s]
    BY <1>t, <2>1, <2>2, <2>3
  <2> QED BY <1>t, <2>1, <2>2, <2>4 DEF Clean
<1>10. CASE Scan
  <2>1. /\ work.pc = "scan" /\ UNCHANGED <<master, home, phase>>
        /\ base' = [r \in Runs |-> IF r \in work.live /\ base[r] = "none" THEN stamped(r) ELSE base[r]]
    BY <1>10 DEF Scan
  <2>2. PICK cands \in Seq(Runs) :
          work' = [work EXCEPT !.cands = cands, !.pc = IF candidates = {} THEN "poke" ELSE "adopt"]
    BY <1>t, <1>10, Scanned
  <2>3. work'.pc # "stamp" BY <1>t, <2>2 DEF Work
  <2>4. \A r \in Runs : base'[r] = "none" => base[r] = "none" BY <2>1
  <2> QED BY <1>t, <2>1, <2>3, <2>4 DEF Clean
<1>11. CASE TickStart \/ Adopt \/ FanOutDone \/ Poke \/ PokeIdle \/ Poked \/ Compare
            \/ \E r \in Runs : AdoptCheck(r)
  <2>1. /\ UNCHANGED <<home, base>> /\ work.pc # "stamp"
        /\ \A r \in Runs : phase'[r] \in {phase[r], "checked"}
    BY <1>t, <1>11, RestShape
    DEF TickStart, Adopt, FanOutDone, Poke, PokeIdle, Poked, Compare, AdoptCheck, files
  <2>2. work'.pc # "stamp"
    <3>1. work.live \in SUBSET Runs BY <1>t DEF Work
    <3>2. fan(Host, work.live, "idle").pc = "fan" /\ fan(Host, work.live, "poke").pc = "fan"
      BY <1>t, <3>1, FanShape
    <3>3. \A r \in Runs : fan(r, live, "idle").pc = "fan" BY <1>t, LiveRuns, FanShape
    <3>4. CASE Adopt \/ Compare BY <1>t, <2>1, <3>2, <3>4, RestShape DEF Adopt, Compare, Work
    <3>5. CASE TickStart BY <3>5 DEF TickStart, Rest
    <3>6. CASE FanOutDone BY <1>t, <3>6, RestShape DEF FanOutDone, Work
    <3>7. CASE Poke \/ PokeIdle \/ Poked BY <1>t, <3>7 DEF Poke, PokeIdle, Poked, Work
    <3>8. ASSUME NEW r \in Runs, AdoptCheck(r) PROVE work'.pc # "stamp"
      BY <2>1, <3>3, <3>8 DEF AdoptCheck
    <3> QED BY <1>11, <3>4, <3>5, <3>6, <3>7, <3>8
  <2> QED BY <1>t, <2>1, <2>2 DEF Clean
<1>12. CASE Ages \/ (\E r \in Runs : Refresh(r)) \/ UNCHANGED vars
  <2>1. UNCHANGED <<master, home, base, phase, work>> BY <1>12 DEF Ages, Refresh, vars, files
  <2> QED BY <1>t, <2>1 DEF Clean
<1> QED
  BY <1>3, <1>4, <1>5, <1>6, <1>7, <1>8, <1>9, <1>10, <1>11, <1>12
  DEF Next, WorldNext, LabNext, Tick, Disturbance

\* What the proof keeps: the types, the owners of the mutex and of the homes, and,
\* until a disturbance, that what moved is in force.
THEOREM CredentialsInvariant == Spec => []IInv
<1>1. IInv /\ [Next]_vars => IInv' BY AlwaysKeeps, CalmKeeps, CleanKeeps DEF IInv
<1> QED BY <1>1, InitKeeps, PTL DEF Spec

(***************************************************************************)
(* Who writes which file.                                                  *)
(***************************************************************************)
\* The master store is written by a login, by a poke, and from a home that has
\* credentials; until a disturbance, from one that moved.
LEMMA MasterWrites ==
  ASSUME IInv, Next, master' # master
  PROVE  \/ master' = <<2, 1>> /\ valid(master)' /\ latest' # latest
         \/ cli[Host].there /\ cli' # cli
         \/ \E r \in Runs : /\ home[r] # Out /\ master' = home[r] /\ UNCHANGED <<latest, home>>
                            /\ trouble = {} => r \in Moved
<1>0. Typed /\ Working /\ work \in Work BY DEF IInv, Always, Typed
<1>1. CASE LogIn
  <2>1. latest[2] = 0 /\ latest' = [latest EXCEPT ![2] = 1] /\ master' = <<2, 1>> BY <1>1 DEF LogIn
  <2>2. latest'[2] = 1 BY <1>0, <2>1 DEF Typed
  <2>3. master' # Out /\ latest'[master'[1]] = master'[2] BY <2>1, <2>2 DEF Out
  <2> QED BY <2>1, <2>2, <2>3 DEF valid
<1>2. CASE Poked
  <2>1. cli[Host].there /\ cli' = [cli EXCEPT ![Host] = Quiet] BY <1>0, <1>2 DEF Poked, Working
  <2>2. cli'[Host].there = FALSE BY <1>0, <2>1, QuietShape DEF Typed
  <2> QED BY <2>1, <2>2
<1>3. ASSUME NEW r \in Runs, AdoptCheck(r)
      PROVE  home[r] # Out /\ master' = home[r] /\ UNCHANGED <<latest, home>> /\ r \in Moved
  BY <1>3, RestShape DEF AdoptCheck, nothing, provider, Moved
<1>4. CASE Adopt
  <2> DEFINE c == Head(work.cands)
  <2>1. /\ work.pc = "adopt" /\ work.cands # <<>> /\ home[c] # Out /\ master' = home[c]
        /\ UNCHANGED <<latest, home>>
    BY <1>4 DEF Adopt, refused, provider
  <2>2. 1 \in DOMAIN work.cands /\ c = work.cands[1] BY <1>0, <2>1 DEF Work
  <2>3. c \in Runs BY <1>0, <2>2 DEF Working, Work
  <2>4. trouble = {} => base[c] = "diverged" BY <2>1, <2>2 DEF IInv, Calm, Watched
  <2> HIDE DEF c
  <2> QED BY <2>1, <2>3, <2>4 DEF Moved
<1>5. Poked \/ LogIn \/ Adopt \/ \E r \in Runs : AdoptCheck(r)
  BY DEF Next, WorldNext, LabNext, Tick, files, Ages, Refresh, Refreshed, Inject, CreateRun, EndRun,
         Rollback, Wipe, WipeFails, AdoptCheckFails, AdoptCheckNoRow, TickStart, Scan, AdoptFails,
         FanInject, FanInjectFails, FanStamp, FanStampFails, FanOutDone, Poke, PokeIdle, Compare, Restart
<1> QED BY <1>1, <1>2, <1>3, <1>4, <1>5

\* A home is written at its launch, by its CLI, by the fan-out, and on its way out.
LEMMA HomeWrites ==
  ASSUME IInv, Next, NEW r \in Runs, home'[r] # home[r]
  PROVE  \/ home[r] = Out
         \/ cli[r].there /\ cli' # cli
         \/ /\ home'[r] = Out /\ phase'[r] = "gone" /\ UNCHANGED <<latest, master>>
            /\ base[r] # "diverged" \/ phase[r] \in {"checked", "bare"}
         \/ work.pc = "fan" /\ home'[r] = master /\ master # Out /\ UNCHANGED <<latest, master>>
<1>0. Typed /\ Working /\ Housed BY DEF IInv, Always
<1>t. /\ home \in [Runs -> Credentials] /\ phase \in [Runs -> Phases]
      /\ cli \in [Hosts -> [there : BOOLEAN, answer : Credentials]]
  BY <1>0 DEF Typed
<1>1. ASSUME NEW s \in Runs, Inject(s) PROVE home[r] = Out
  <2>1. s = r BY <1>t, <1>1 DEF Inject
  <2> QED BY <1>0, <1>1, <2>1 DEF Inject, Housed
<1>2. ASSUME NEW s \in Runs, Refreshed(s) PROVE cli[r].there /\ cli' # cli
  <2>1. s = r BY <1>t, <1>2 DEF Refreshed
  <2>2. cli[r].there /\ cli' = [cli EXCEPT ![r] = Quiet] BY <1>2, <2>1 DEF Refreshed
  <2>3. cli'[r].there = FALSE BY <1>t, <2>2, QuietShape
  <2> QED BY <2>2, <2>3
<1>3. ASSUME NEW s \in Runs, Wipe(s)
      PROVE  home'[r] = Out /\ phase'[r] = "gone" /\ UNCHANGED <<latest, master>> /\ wipeable(r)
  <2>1. s = r BY <1>t, <1>3 DEF Wipe
  <2> QED BY <1>t, <1>3, <2>1 DEF Wipe, provider
<1>4. ASSUME NEW s \in Runs, FanInject(s)
      PROVE  work.pc = "fan" /\ home'[r] = master /\ master # Out /\ UNCHANGED <<latest, master>>
  <2>1. s = r BY <1>t, <1>4 DEF FanInject
  <2> QED BY <1>0, <1>t, <1>4, <2>1 DEF FanInject, provider, Working
<1>5. ASSUME Restart
      PROVE  home'[r] = Out /\ phase'[r] = "gone" /\ UNCHANGED <<latest, master>> /\ base[r] # "diverged"
  <2>1. phase[r] = "injected" BY <1>t, <1>5 DEF Restart
  <2> QED BY <1>0, <1>5, <2>1 DEF Restart, Housed
<1>6. Restart \/ \E s \in Runs : Inject(s) \/ Refreshed(s) \/ Wipe(s) \/ FanInject(s)
  BY DEF Next, WorldNext, LabNext, Tick, files, Ages, LogIn, Refresh, CreateRun, EndRun, Rollback,
         AdoptCheck, AdoptCheckFails, AdoptCheckNoRow, WipeFails, TickStart, Scan, Adopt, AdoptFails,
         FanInjectFails, FanStamp, FanStampFails, FanOutDone, Poke, Poked, PokeIdle, Compare
<1> QED BY <1>1, <1>2, <1>3, <1>4, <1>5, <1>6

(***************************************************************************)
(* The properties.                                                         *)
(***************************************************************************)
\* The fan-out never writes into the home of a run that is being removed.
THEOREM NoGhostHomeCorrect == Spec => []NoGhostHome
<1>1. IInv => NoGhostHome
  <2> SUFFICES ASSUME IInv PROVE NoGhostHome OBVIOUS
  <2> USE DEF IInv, Always
  <2>1. TypeOK
    <3>1. \A h \in DOMAIN cli : cli[h].answer \in Credentials BY DEF Typed
    <3>2. work.by \in {None, Host} \cup Runs BY DEF Typed, Work
    <3>3. \A r \in Runs : phase[r] \in Phases BY DEF Typed
    <3> QED BY <3>1, <3>2, <3>3 DEF TypeOK, Typed, Ordered, Working
  <2>2. \A r \in work.todo : phase[r] \in {"live", "ended", "rolled"} BY DEF Working
  <2>3. work.todo \subseteq Runs BY DEF Typed, Work
  <2> QED BY <2>1, <2>2, <2>3 DEF NoGhostHome, exists
<1> QED BY <1>1, CredentialsInvariant, PTL

\* An adoption never puts a family that was rotated away over one that is honoured,
\* and lab never logs the master store or the home of a run out.
THEOREM AdoptNoRegressCorrect == Spec => AdoptNoRegress
<1> DEFINE Kept ==
      /\ (trouble = {} /\ master # master' /\ UNCHANGED cli /\ valid(master)) => valid(master)'
      /\ (master # Out /\ master' = Out) => cli[Host].there
      /\ \A r \in Runs : (home[r] # Out /\ home'[r] = Out) => cli[r].there \/ ~exists(r)'
<1>1. ASSUME IInv, Next PROVE Kept
  <2>1. trouble = {} /\ master # master' /\ UNCHANGED cli => valid(master)'
    BY <1>1, MasterWrites DEF IInv, Calm, InForce, valid
  <2>2. master # Out /\ master' = Out => cli[Host].there
    <3>1. <<2, 1>> # Out BY DEF Out
    <3> QED BY <1>1, <3>1, MasterWrites
  <2>3. \A r \in Runs : home[r] # Out /\ home'[r] = Out => cli[r].there \/ ~exists(r)'
    BY <1>1, HomeWrites DEF exists
  <2> QED BY <2>1, <2>2, <2>3
<1>2. IInv /\ [Next]_vars => [Kept]_vars BY <1>1
<1>3. Spec => [][Kept]_vars BY <1>2, CredentialsInvariant, PTL DEF Spec
<1> QED BY <1>3 DEF AdoptNoRegress

\* No adoption, fan-out or wipe destroys the last copy of the family in force.
THEOREM FamilyKeptCorrect == Spec => FamilyKept
<1> DEFINE Kept == (seen # "none" /\ trouble = {}) => ~lost(1)
<1>1. ASSUME IInv, Next PROVE Kept
  <2> SUFFICES ASSUME seen # "none", trouble = {}, holders(1) # {}, UNCHANGED <<latest, cli>>
               PROVE  holders(1)' # {}
    BY DEF lost
  <2>0. Calm /\ Typed /\ Typed' BY <1>1, AlwaysKeeps DEF IInv, Always
  <2>1. \A f \in Credentials : valid(f) => f[1] = 1
    BY <2>0, Credential DEF OneGrant, Calm, valid
  <2>2. PICK h \in Hosts : \/ valid(cli[h].answer) /\ cli[h].answer[1] = 1
                           \/ h = Host /\ valid(master)
                           \/ h \in Runs /\ valid(home[h])
    BY DEF holders
  <2>3. valid(master)' => Host \in holders(1)'
    BY <2>0, <2>1 DEF holders, valid, Typed
  <2>4. \A r \in Runs : valid(home[r])' => r \in holders(1)'
    BY <2>0, <2>1, Names DEF holders, valid, Typed
  <2>5. CASE valid(cli[h].answer) /\ cli[h].answer[1] = 1
    <3>1. h \in holders(1)' BY <2>5 DEF holders, valid
    <3> QED BY <3>1
  <2>6. valid(master) => valid(master)'
    BY <1>1, <2>0, MasterWrites DEF Calm, InForce, valid
  <2>7. CASE h \in Runs /\ valid(home[h])
    <3>1. CASE home'[h] = home[h] BY <2>4, <2>7, <3>1 DEF valid
    <3>2. CASE home'[h] # home[h]
      <4>1. home[h] # Out BY <2>7 DEF valid
      <4>2. \/ base[h] # "diverged" \/ phase[h] = "checked"
            \/ work.pc = "fan" /\ home'[h] = master /\ UNCHANGED master
        BY <1>1, <2>7, <3>2, <4>1, HomeWrites DEF IInv, Clean
      <4>3. ~unseen BY DEF unseen
      <4>4. valid(master) BY <2>0, <2>7, <4>2, <4>3 DEF Calm, Backed, Fanned
      <4> QED BY <2>3, <2>6, <4>4
    <3> QED BY <3>1, <3>2
  <2>8. CASE h = Host /\ valid(master) BY <2>3, <2>6, <2>8
  <2> QED BY <2>2, <2>5, <2>7, <2>8
<1>2. IInv /\ [Next]_vars => [Kept]_vars BY <1>1
<1>3. Spec => [][Kept]_vars BY <1>2, CredentialsInvariant, PTL DEF Spec
<1> QED BY <1>3 DEF FamilyKept
=============================================================================
