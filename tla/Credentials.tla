---------------------------- MODULE Credentials ----------------------------
(***************************************************************************)
(* Credentials: one OAuth token family of a provider, copied into the      *)
(* private home of every run (credrotate.Service).                         *)
(*                                                                         *)
(* A refresh, by whichever CLI, rotates the family: the provider honours   *)
(* the newest generation only, and a CLI that presents an older one clears *)
(* its tokens in place.  lab never reads a token.  It compares signatures: *)
(* a home whose file changed since lab wrote it has refreshed by itself;   *)
(* lab adopts that file into the master store and fans it out, before any  *)
(* wipe destroys it.  The loop and the pre-wipe checks hold one mutex, the *)
(* CLIs hold none.                                                         *)
(***************************************************************************)
EXTENDS Integers, Sequences, FiniteSets, SequencesExt

CONSTANTS
  Runs,
  MaxGeneration,   \* bound: generations of all grants
  Scenarios,       \* bound: sets of disturbances, each of which happens at most once
  None, Host       \* nobody; the CLI that the poke runs on the master store

\* A crash; an operator's login; a removal, a step of a fan-out, an adoption that
\* fails; a launch rolled back; a CLI that writes while its home is being stamped.
AllTrouble == {"crash", "login", "stuck", "nofan", "noadopt", "rollback", "race"}
ASSUME BoundsAssumption == MaxGeneration \in Nat \ {0} /\ Scenarios \subseteq SUBSET AllTrouble
ASSUME NamesAssumption == None # Host /\ None \notin Runs /\ Host \notin Runs /\ IsFiniteSet(Runs)

VARIABLES
  latest,      \* the provider: the newest generation of each grant
  token,       \* the age of the newest access token: new, watched, old, due
  master,      \* the master store
  home,        \* the credential file in the home of each run
  base,        \* cred_sig against that file: never stamped, the same, diverged
  order,       \* the ages of their files: pairs of homes, the older first
  phase,       \* the run of each home
  cli,         \* a refresh under way: the answer its CLI will write
  seen,        \* lastMaster against the master store: none, the same, changed
  work,        \* who holds mu, and where it is
  trouble      \* disturbances so far

provider == <<latest, token>>
files == <<master, home, base, order>>
vars == <<latest, token, master, home, base, order, phase, cli, seen, work, trouble>>

Grants == 1..2
Out == <<0, 0>>                        \* cleared, unreadable or absent: not logged in
Families == Grants \X (1..MaxGeneration)
valid(f) == f # Out /\ latest[f[1]] = f[2]
Rest == [by |-> None, pc |-> "idle", at |-> None, live |-> {}, cands |-> <<>>, todo |-> {},
         then |-> "idle"]
Quiet == [there |-> FALSE, answer |-> Out]

Init ==
  /\ latest = [g \in Grants |-> IF g = 1 THEN 1 ELSE 0] /\ token = "old"
  /\ master = <<1, 1>>
  /\ home = [r \in Runs |-> Out] /\ base = [r \in Runs |-> "none"] /\ order = {}
  /\ phase = [r \in Runs |-> "none"]
  /\ cli = [h \in Runs \cup {Host} |-> Quiet]
  /\ seen = "none" /\ work = Rest /\ trouble = {}

happens(t) == /\ t \notin trouble /\ trouble' = trouble \cup {t}
              /\ \E s \in Scenarios : trouble' \subseteq s

exists(r) == phase[r] \notin {"none", "gone"}
wipeable(r) == phase[r] \in {"checked", "bare"}   \* the hook returned; bare without a row
active(r) == phase[r] = "live"         \* the row is active and the home is there

\* A write to the file of a home is its newest; whoever writes, the signature moves.
touched(r) == order' = {p \in order : r \notin {p[1], p[2]}} \cup ((Runs \ {r}) \X {r})
moved(b) == IF b = "none" THEN "none" ELSE "diverged"
changed == IF seen = "none" THEN "none" ELSE "changed"
\* The signature read back right after an injection.
stamp(f) == IF f = Out THEN "none" ELSE "same"

(***************************************************************************)
(* The provider and the CLIs.                                              *)
(***************************************************************************)
\* The newest access token comes near its end.  It lives for hours: it outlives a
\* whole tick, and the wipe of a home that goes through.
Ages ==
  /\ token = "old" /\ token' = "due" /\ \A h \in DOMAIN cli : cli[h] = Quiet
  /\ \A r \in Runs : phase[r] \in {"ended", "rolled", "checked", "bare"} => "stuck" \in trouble
  /\ UNCHANGED <<latest, files, phase, cli, seen, work, trouble>>

\* A CLI refreshes what is expiring or was rotated away: the provider rotates the
\* newest generation and refuses any other (invalid_grant).
request(h, f) ==
  /\ f # Out /\ ~cli[h].there
  /\ IF valid(f)
     THEN /\ token = "due" /\ latest[1] + latest[2] < MaxGeneration
          /\ latest' = [latest EXCEPT ![f[1]] = @ + 1] /\ token' = "new"
          /\ cli' = [cli EXCEPT ![h] = [there |-> TRUE, answer |-> <<f[1], f[2] + 1>>]]
     ELSE /\ cli' = [cli EXCEPT ![h] = [there |-> TRUE, answer |-> Out]] /\ UNCHANGED provider

Refresh(r) ==
  /\ active(r) /\ request(r, home[r])
  /\ UNCHANGED <<files, phase, seen, work, trouble>>

\* Between an injection and the reading of its signature: the CLIs take no lock.
stamping(r) == work.pc = "stamp" /\ work.at = r

\* The answer is written in place; after a refusal the tokens are cleared.
Refreshed(r) ==
  /\ IF stamping(r) THEN happens("race") ELSE UNCHANGED trouble
  /\ cli[r].there /\ cli' = [cli EXCEPT ![r] = Quiet]
  /\ home' = [home EXCEPT ![r] = cli[r].answer] /\ base' = [base EXCEPT ![r] = moved(@)]
  /\ touched(r) /\ token' = IF valid(cli[r].answer) THEN "new" ELSE token
  /\ UNCHANGED <<latest, master, phase, seen, work>>

\* The operator logs in again: another grant, in the master store.
LogIn ==
  /\ happens("login") /\ latest[2] = 0 /\ latest[1] + 1 < MaxGeneration
  /\ latest' = [latest EXCEPT ![2] = 1] /\ master' = <<2, 1>> /\ seen' = changed
  /\ token' = "new"
  /\ UNCHANGED <<home, base, order, phase, cli, work>>

(***************************************************************************)
(* Runs.                                                                   *)
(***************************************************************************)
\* Launch: the home is made and injected, and its signature read.
Inject(r) ==
  /\ phase[r] = "none" /\ phase' = [phase EXCEPT ![r] = "injected"]
  /\ home' = [home EXCEPT ![r] = master] /\ base' = [base EXCEPT ![r] = stamp(master)] /\ touched(r)
  /\ UNCHANGED <<provider, master, cli, seen, work, trouble>>

\* The row is active, and the session starts.
CreateRun(r) ==
  /\ phase[r] = "injected" /\ phase' = [phase EXCEPT ![r] = "live"]
  /\ UNCHANGED <<provider, files, cli, seen, work, trouble>>

\* Stop, reap or discard: the session dies with its CLI, the row ends.
EndRun(r) ==
  /\ phase[r] = "live" /\ phase' = [phase EXCEPT ![r] = "ended"]
  /\ cli' = [cli EXCEPT ![r] = Quiet]
  /\ UNCHANGED <<provider, files, seen, work, trouble>>

\* The launch fails once the home is there: the session is killed and the row
\* deleted, if there were any, before the tree is removed.
Rollback(r) ==
  /\ happens("rollback") /\ phase[r] \in {"injected", "live"}
  /\ phase' = [phase EXCEPT ![r] = "rolled"] /\ cli' = [cli EXCEPT ![r] = Quiet]
  /\ UNCHANGED <<provider, files, seen, work>>

\* Mutant: the tree is removed as soon as the run has ended.
WipeUnchecked(r) ==
  /\ exists(r) /\ phase[r] \notin {"injected", "live"} /\ phase' = [phase EXCEPT ![r] = "gone"]
  /\ home' = [home EXCEPT ![r] = Out] /\ base' = [base EXCEPT ![r] = "none"]
  /\ UNCHANGED <<provider, master, order, cli, seen, work, trouble>>

\* The tree is removed once the hook has returned.
Wipe(r) ==
  /\ wipeable(r) /\ phase' = [phase EXCEPT ![r] = "gone"]
  /\ home' = [home EXCEPT ![r] = Out] /\ base' = [base EXCEPT ![r] = "none"]
  /\ UNCHANGED <<provider, master, order, cli, seen, work, trouble>>

\* The removal fails: SweepAll comes back to the orphan, hook and all.
WipeFails(r) ==
  /\ happens("stuck") /\ wipeable(r)
  /\ phase' = [phase EXCEPT ![r] = IF @ = "bare" THEN "rolled" ELSE "ended"]
  /\ UNCHANGED <<provider, files, cli, seen, work>>

(***************************************************************************)
(* AdoptCheck and the tick, each under mu.                                 *)
(***************************************************************************)
live == {r \in Runs : active(r)}
fan(by, todo, then) == [work EXCEPT !.by = by, !.pc = "fan", !.todo = todo, !.then = then, !.cands = <<>>]

\* Mutant: an adoption is for a host that is logged out.
refusedUnlessOut(r) == home[r] = Out \/ master # Out

\* The file is gone, or logged out (ErrCredentialsLoggedOut).
refused(r) == home[r] = Out

\* Mutant: any file there is, whether or not it moved.
nothingUnread(r) == home[r] = Out

\* Nothing to adopt: no baseline, no credentials, or those lab injected.
nothing(r) == base[r] # "diverged" \/ home[r] = Out

AdoptCheck(r) ==
  /\ phase[r] = "ended" /\ work = Rest
  /\ IF nothing(r)
     THEN phase' = [phase EXCEPT ![r] = "checked"] /\ UNCHANGED <<master, seen, work>>
     ELSE /\ master' = home[r] /\ seen' = changed
          /\ work' = fan(r, live, "idle") /\ UNCHANGED phase
  /\ UNCHANGED <<provider, home, base, order, cli, trouble>>

\* The adoption fails: logged and swallowed, and the tree goes.
AdoptCheckFails(r) ==
  /\ phase[r] = "ended" /\ work = Rest /\ ~nothing(r) /\ happens("noadopt")
  /\ phase' = [phase EXCEPT ![r] = "checked"]
  /\ UNCHANGED <<provider, files, cli, seen, work>>

\* There is no row to compare with.
AdoptCheckNoRow(r) ==
  /\ phase[r] = "rolled" /\ work = Rest /\ phase' = [phase EXCEPT ![r] = "bare"]
  /\ UNCHANGED <<provider, files, cli, seen, work, trouble>>

\* A whole tick has passed over the token.
ticked == token' = IF work'.by = None /\ work.by = Host /\ token = "watched" THEN "old" ELSE token

TickStart ==
  /\ work = Rest /\ work' = [Rest EXCEPT !.by = Host, !.pc = "scan", !.live = live]
  /\ token' = IF token = "new" /\ \A h \in DOMAIN cli : cli[h] = Quiet THEN "watched" ELSE token
  /\ UNCHANGED <<latest, files, phase, cli, seen, trouble>>

\* The homes that diverged, newest file first.
candidates == {r \in work.live : base[r] = "diverged" /\ home[r] # Out}
newestFirst(cands) == \A i, j \in DOMAIN cands : i < j => <<cands[j], cands[i]>> \in order

\* The signature read back, into the row if it is still there.
stamped(r) == IF phase[r] = "rolled" THEN base[r] ELSE stamp(home[r])

\* A row that was never stamped gets its baseline.
Scan ==
  /\ work.pc = "scan"
  /\ base' = [r \in Runs |-> IF r \in work.live /\ base[r] = "none" THEN stamped(r) ELSE base[r]]
  /\ \E cands \in [1..Cardinality(candidates) -> candidates] :
       /\ ToSet(cands) = candidates /\ newestFirst(cands)
       /\ work' = [work EXCEPT !.cands = cands, !.pc = IF candidates = {} THEN "poke" ELSE "adopt"]
  /\ UNCHANGED <<provider, master, home, order, phase, cli, seen, trouble>>

\* AdoptCredentials of the newest candidate; of the next when it is refused.
Adopt ==
  /\ work.pc = "adopt"
  /\ IF work.cands = <<>>
     THEN work' = [work EXCEPT !.pc = "poke"] /\ UNCHANGED <<master, seen>>
     ELSE IF refused(Head(work.cands))
          THEN work' = [work EXCEPT !.cands = Tail(@)] /\ UNCHANGED <<master, seen>>
          ELSE /\ master' = home[Head(work.cands)] /\ seen' = changed
               /\ work' = fan(Host, work.live, "poke")
  /\ UNCHANGED <<provider, home, base, order, phase, cli, trouble>>

\* AdoptCredentials fails for another reason: the next-newest is tried.
AdoptFails ==
  /\ work.pc = "adopt" /\ work.cands # <<>> /\ happens("noadopt")
  /\ work' = [work EXCEPT !.cands = Tail(@)]
  /\ UNCHANGED <<provider, files, phase, cli, seen>>

\* fanOut, one home after another: the master file into the home,
FanInject(r) ==
  /\ work.pc = "fan" /\ r \in work.todo
  /\ work' = [work EXCEPT !.pc = "stamp", !.at = r, !.todo = @ \ {r}]
  /\ home' = [home EXCEPT ![r] = master] /\ base' = [base EXCEPT ![r] = moved(@)] /\ touched(r)
  /\ UNCHANGED <<provider, master, phase, cli, seen, trouble>>

\* then the signature of what is there by now into the row.
FanStamp ==
  /\ work.pc = "stamp" /\ work' = [work EXCEPT !.pc = "fan", !.at = None]
  /\ base' = [base EXCEPT ![work.at] = stamped(work.at)]
  /\ UNCHANGED <<provider, master, home, order, phase, cli, seen, trouble>>

\* One bad home does not stop the others: no file, or no signature in the row.
FanInjectFails(r) ==
  /\ work.pc = "fan" /\ r \in work.todo /\ happens("nofan")
  /\ work' = [work EXCEPT !.todo = @ \ {r}]
  /\ UNCHANGED <<provider, files, phase, cli, seen>>

\* Nor does one whose account could not be mirrored, after its file was written.
FanStampFails ==
  /\ work.pc = "stamp" /\ happens("nofan")
  /\ work' = [work EXCEPT !.pc = "fan", !.at = None]
  /\ UNCHANGED <<provider, files, phase, cli, seen>>

\* lastMaster is what the master store is by now.
FanOutDone ==
  LET r == work.by IN
  /\ work.pc = "fan" /\ work.todo = {} /\ seen' = "same"
  /\ work' = IF work.then = "idle" THEN Rest ELSE [work EXCEPT !.pc = work.then]
  /\ phase' = IF r \in Runs THEN [phase EXCEPT ![r] = "checked"] ELSE phase
  /\ ticked
  /\ UNCHANGED <<latest, files, cli, trouble>>

\* The poke, when its time has come: the CLI refreshes the master store, or not.
Poke ==
  /\ work.pc = "poke" /\ master # Out
  /\ request(Host, master) /\ work' = [work EXCEPT !.pc = "poking"]
  /\ UNCHANGED <<files, phase, seen, trouble>>

Poked ==
  /\ work.pc = "poking" /\ cli' = [cli EXCEPT ![Host] = Quiet]
  /\ master' = cli[Host].answer /\ seen' = changed /\ work' = [work EXCEPT !.pc = "compare"]
  /\ token' = IF valid(cli[Host].answer) THEN "new" ELSE token
  /\ UNCHANGED <<latest, home, base, order, phase, trouble>>

\* Not its time, nothing to refresh, or the CLI fails.
PokeIdle ==
  /\ work.pc = "poke" /\ work' = [work EXCEPT !.pc = "compare"]
  /\ UNCHANGED <<provider, files, phase, cli, seen, trouble>>

\* A master store that changed, or that is seen for the first time, is fanned out.
Compare ==
  /\ work.pc = "compare"
  /\ IF master # Out /\ seen # "same"
     THEN work' = fan(Host, work.live, "idle") /\ UNCHANGED seen
     ELSE work' = Rest /\ seen' = "same"
  /\ ticked
  /\ UNCHANGED <<latest, files, phase, cli, trouble>>

\* lab restarts: the mutex and the observations are gone.  The homes stay, and the
\* sessions; a launch half way leaves an orphan without a row.
Restart ==
  /\ happens("crash") /\ work' = Rest /\ seen' = "none"
  /\ phase' = [r \in Runs |-> IF phase[r] = "injected" THEN "gone"
                             ELSE IF phase[r] = "checked" THEN "ended"
                             ELSE IF phase[r] = "bare" THEN "rolled" ELSE phase[r]]
  /\ home' = [r \in Runs |-> IF phase[r] = "injected" THEN Out ELSE home[r]]
  /\ base' = [r \in Runs |-> IF phase[r] = "injected" THEN "none" ELSE base[r]]
  /\ cli' = [cli EXCEPT ![Host] = Quiet]
  /\ token' \in {token, "old"}                                   \* a long downtime
  /\ UNCHANGED <<latest, master, order>>

Tick ==
  \/ Scan \/ Adopt \/ FanStamp \/ FanOutDone \/ Poke \/ PokeIdle \/ Poked \/ Compare
  \/ \E r \in Runs : FanInject(r)
LabNext ==
  \/ TickStart \/ Tick \/ AdoptFails \/ FanStampFails \/ Restart
  \/ \E r \in Runs :
       \/ Inject(r) \/ CreateRun(r) \/ EndRun(r) \/ Rollback(r) \/ Wipe(r) \/ WipeFails(r)
       \/ AdoptCheck(r) \/ AdoptCheckFails(r) \/ AdoptCheckNoRow(r) \/ FanInjectFails(r)
WorldNext == Ages \/ LogIn \/ \E r \in Runs : Refresh(r) \/ Refreshed(r)

Next == LabNext \/ WorldNext

\* The loop ticks, the CLI of a poke is bounded by a timeout, and a file that is
\* being written is written.  mu is taken in turn.
Fairness ==
  /\ WF_vars(Tick) /\ SF_vars(TickStart)
  /\ \A r \in Runs : SF_vars(AdoptCheck(r)) /\ WF_vars(Wipe(r))

Spec == Init /\ [][Next]_vars /\ Fairness

(***************************************************************************)
(* Properties.                                                             *)
(***************************************************************************)
Credentials == Families \cup {Out}

TypeOK ==
  /\ master \in Credentials /\ \A r \in Runs : home[r] \in Credentials
  /\ \A r \in Runs : /\ base[r] \in {"none", "same", "diverged"}
                     /\ phase[r] \in {"none", "injected", "live", "ended", "rolled", "checked", "bare", "gone"}
  /\ \A h \in DOMAIN cli : cli[h].answer \in Credentials
  /\ \A r, s \in Runs : /\ <<r, s>> \in order => <<s, r>> \notin order
                        /\ (r # s /\ home[r] # Out) => <<r, s>> \in order \/ <<s, r>> \in order
  /\ work.by \in {None, Host} \cup Runs /\ (work.by = None => work = Rest)
  /\ seen \in {"none", "same", "changed"} /\ token \in {"new", "watched", "old", "due"}

holders(g) == {h \in Runs \cup {Host} :
                 LET f == IF h = Host THEN master ELSE home[h] IN
                 \/ valid(f) /\ f[1] = g
                 \/ valid(cli[h].answer) /\ cli[h].answer[1] = g}

lost(g) == holders(g) # {} /\ UNCHANGED <<latest, cli>> /\ holders(g)' = {}

\* No adopt, fan-out or wipe destroys the last copy of the family the provider
\* honours.  Before its first tick is over lab fans out unconditionally; and a home
\* whose moved signature outlives its adoption, because lab crashed, an injection or
\* a removal failed, is adopted once more: the property claims neither.
FamilyKept == [][(seen # "none" /\ trouble = {}) => ~lost(1)]_vars

\* An adopt never puts a family that was rotated away over one that is honoured,
\* and lab never logs the master store or a home out.
AdoptNoRegress ==
  [][/\ (trouble = {} /\ master # master' /\ UNCHANGED cli /\ valid(master)) => valid(master)'
     /\ (master # Out /\ master' = Out) => cli[Host].there
     /\ \A r \in Runs : (home[r] # Out /\ home'[r] = Out) => cli[r].there \/ ~exists(r)']_vars

\* The fan-out never writes into the home of a run that is being removed.
NoGhostHome ==
  /\ TypeOK
  /\ work.pc = "fan" => \A r \in work.todo : exists(r) /\ ~wipeable(r)

\* A family a session refreshed by itself reaches the master store, or is rotated
\* away by another session, whatever the session does next; unless an adoption
\* failed, a launch was rolled back, or a signature was taken for the one of an
\* injection.
unadopted == trouble \cap {"noadopt", "rollback", "race"} # {}
ahead(r) == base[r] = "diverged" /\ valid(home[r]) /\ ~valid(master)
MasterHeals == []<>(unadopted \/ \A r \in Runs : ~ahead(r))

\* "A wipe must never destroy the only valid family", failed adoptions apart
\* (AdoptCheck's comment, issue #222 decision 4): what the removal of a home
\* destroys is held by the master store or another home.  Not so: a rolled-back row
\* has no signature, and one may have been stamped after a CLI's own write.
WipeSpares ==
  [][(\E r \in Runs : Wipe(r)) /\ "noadopt" \notin trouble => ~lost(1)]_vars
=============================================================================
