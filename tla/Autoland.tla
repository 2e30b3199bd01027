------------------------------ MODULE Autoland ------------------------------
(***************************************************************************)
(* Autoland: the fix-forward loop that validates, repairs and hands off    *)
(* the pull requests of a claim branch.                                    *)
(*                                                                         *)
(* Nothing is message-passed.  The spawn pass polls the forge -- the pull, *)
(* its reviews, the verdict markers in its comments -- and the runs store, *)
(* one read after another, decides, and launches; the runs post their      *)
(* verdicts; the reaper polls the same thread for each run's done-signal,  *)
(* then ends the run under runsMu.  Humans review, merge, close, delete    *)
(* the escalate marker, re-arm, stop runs.                                 *)
(*                                                                         *)
(* Moments are compared only with the last re-arm of their pull request,   *)
(* so a moment is the number of re-arms before it, and "after the re-arm"  *)
(* is "not less than".  The launch itself, its rollback and the teardown   *)
(* are Lab's; here a launch succeeds or fails in one step.                 *)
(***************************************************************************)
EXTENDS Integers, Sequences, FiniteSets, SequencesExt

CONSTANTS
  Pulls,               \* the pull requests of one claim branch, 1..n in order
  MaxFixAttempts, MaxEscalateAttempts,
  Scenarios            \* sets of gestures, each of which happens at most once

ASSUME PullsAssumption == IsFiniteSet(Pulls) /\ Pulls # {} /\ Pulls = 1..Cardinality(Pulls)
ASSUME BoundsAssumption ==
  /\ MaxFixAttempts \in Nat /\ MaxEscalateAttempts \in Nat \ {0}
\* What humans do, the crash of the engine, and a record that cannot be written.
AllGestures == {"review", "land", "unmark", "rearm", "stop", "requeue", "crash", "unrecorded"}
ASSUME ScenariosAssumption == Scenarios \subseteq SUBSET AllGestures

VARIABLES
  pull,       \* the forge: per pull its state, thread and standing review
  attempts,   \* autoland_attempts
  rearms,     \* re-arms so far; the moment PullRearmedAt answers
  escalated,  \* EscalatedRunForPull: the moment, or Never
  run,        \* the active run of each kind on the branch, or NoRun
  pass,       \* the spawn pass
  reaper,
  gestures,   \* those that happened
  spawned     \* fix and escalate launches since the last re-arm, one in flight then included

vars == <<pull, attempts, rearms, escalated, run, pass, reaper, gestures, spawned>>

Kinds == {"author", "lander", "fix", "escalate"}
Bounded == {"fix", "escalate"}
Words == {"pass", "reject", "fix-done", "escalate"}
Never == -1
Moments == 0..1

NoRun == [id |-> {}, pull |-> 0, posted |-> FALSE, approveOnly |-> FALSE]
\* Session names are reused, row ids are not.  Only a Stop can put another row
\* under a name while the reaper looks at it, so the gestures so far tell rows apart.
newRun(p) == [NoRun EXCEPT !.id = gestures, !.pull = p]

idlePass == [pc |-> "idle", pull |-> 0, thread |-> <<>>, review |-> "none",
             since |-> 0, action |-> "none", approveOnly |-> FALSE]
idleReaper == [pc |-> "idle", kind |-> "author", id |-> {}, at |-> 0, done |-> FALSE,
               marker |-> FALSE]

Init ==
  /\ pull = [p \in Pulls |-> [state |-> "none", thread |-> <<>>, review |-> "none"]]
  /\ attempts = [p \in Pulls |-> [k \in Bounded |-> 0]]
  /\ spawned = attempts
  /\ rearms = [p \in Pulls |-> 0] /\ escalated = [p \in Pulls |-> Never]
  /\ pass = idlePass /\ reaper = idleReaper
  /\ gestures = {}
  /\ run = [k \in Kinds |-> IF k = "author" THEN newRun(1) ELSE NoRun]

\* What disturbs the loop, once each.
gesture(g) ==
  /\ g \notin gestures /\ \E s \in Scenarios : gestures \cup {g} \subseteq s
  /\ gestures' = gestures \cup {g}

active(k) == run[k].pull # 0
ActiveRunOnBranch == \E k \in Kinds : active(k)

(***************************************************************************)
(* The readings of a thread (decide.go).                                   *)
(***************************************************************************)
\* The newest word; an unknown word in between would be skipped.
LastVerdictWord(thread) == IF thread = <<>> THEN "" ELSE Last(thread).word

DropSupersededEscalations(thread, since) ==
  SelectSeq(thread, LAMBDA c : c.word # "escalate" \/ c.at >= since)

LiveReview(review) == review # "none"
HumanRejected(review) == review = "changes"

\* DecideAutoland below the gates on escalation and on the branch: one action.
DecideAutoland(thread, review, fixes, escalates) ==
  LET last == LastVerdictWord(thread) IN
  CASE thread = <<>> /\ ~LiveReview(review) -> "lander"
    [] last = "fix-done" -> "lander"
    [] (last = "reject" \/ HumanRejected(review)) /\ last # "fix-done"
       -> IF fixes < MaxFixAttempts THEN "fix"
          ELSE IF escalates < MaxEscalateAttempts THEN "escalate" ELSE "none"
    [] OTHER -> "none"

PullMerged(p) == pull[p].state = "merged"
\* DonePull on the branch: open beats merged; a closed pull is none.
DonePull ==
  LET open == {p \in Pulls : pull[p].state = "open"}
      merged == {p \in Pulls : PullMerged(p)}
  IN IF open # {} THEN open ELSE merged

\* LanderDone, FixDone, EscalateDelivered: merged, or the last word its own.
DoneWords(k) == CASE k = "lander" -> {"pass", "reject"}
                  [] k = "fix" -> {"fix-done"}
                  [] k = "escalate" -> {"escalate"}
                  [] OTHER -> {}
verdictDone(k, p) ==
  \/ k = "author" \/ PullMerged(p)
  \/ LastVerdictWord(pull[p].thread) \in DoneWords(k)
viaMarker(k, p) ==
  k = "escalate" /\ ~PullMerged(p) /\ LastVerdictWord(pull[p].thread) = "escalate"

(***************************************************************************)
(* The spawn pass: one read after another, then the launch.                *)
(***************************************************************************)
\* A repo that is not paused; its open pull; its reviews and comments.
PassRead(p) ==
  /\ pass.pc = "idle"
  /\ pull[p].state = "open"
  /\ pass' = [idlePass EXCEPT !.pc = "branch", !.pull = p, !.thread = pull[p].thread,
                              !.review = pull[p].review]
  /\ UNCHANGED <<pull, attempts, rearms, escalated, run, reaper, gestures, spawned>>

toDecide == [pass EXCEPT !.pc = "decide", !.since = rearms[pass.pull]]

\* Mutant of PassBranch: the gate on active runs is missing.
PassBranchOpen ==
  /\ pass.pc = "branch"
  /\ pass' = toDecide
  /\ UNCHANGED <<pull, attempts, rearms, escalated, run, reaper, gestures, spawned>>

\* ActiveRunOnBranch, read after the thread; then PullRearmedAt.
PassBranch ==
  /\ pass.pc = "branch"
  /\ pass' = IF ActiveRunOnBranch THEN idlePass ELSE toDecide
  /\ UNCHANGED <<pull, attempts, rearms, escalated, run, reaper, gestures, spawned>>

\* Mutant of Terminal: the comments only.
TerminalMarker(thread, at, since) == \E i \in DOMAIN thread : thread[i].word = "escalate"

\* The marker half of the gate, then the run half, against the moment read.
Terminal(thread, at, since) ==
  \/ \E i \in DOMAIN thread : thread[i].word = "escalate"
  \/ at # Never /\ at >= since

\* The decision; the attempts are read only where they matter.
PassDecide ==
  LET p == pass.pull
      thread == DropSupersededEscalations(pass.thread, pass.since)
      action == DecideAutoland(thread, pass.review, attempts[p]["fix"], attempts[p]["escalate"])
  IN
  /\ pass.pc = "decide"
  /\ pass' = IF Terminal(thread, escalated[p], pass.since) \/ action = "none" THEN idlePass
             ELSE [pass EXCEPT !.pc = "launch", !.action = action,
                     !.approveOnly = action = "lander" /\ thread # <<>> /\ HumanRejected(pass.review)]
  /\ UNCHANGED <<pull, attempts, rearms, escalated, run, reaper, gestures, spawned>>

\* A failed read of the store, or the login of the action's provider missing.
PassGivesUp ==
  /\ pass.pc \in {"branch", "decide"}
  /\ pass' = idlePass
  /\ UNCHANGED <<pull, attempts, rearms, escalated, run, reaper, gestures, spawned>>

burned == IF pass.action \in Bounded
          THEN [idlePass EXCEPT !.pc = "burn", !.pull = pass.pull, !.action = pass.action]
          ELSE idlePass

\* The count stops at three over the larger bound, one over what is promised.
SpawnedBound == 3 + Max({MaxFixAttempts, MaxEscalateAttempts})
burns == IF pass.action \in Bounded /\ spawned[pass.pull][pass.action] < SpawnedBound
         THEN [spawned EXCEPT ![pass.pull][pass.action] = @ + 1] ELSE spawned

\* The locked launch, which reads neither the thread nor the branch again.
PassLaunch ==
  LET k == pass.action IN
  /\ pass.pc = "launch" /\ ~active(k)
  /\ run' = [run EXCEPT ![k] = [newRun(pass.pull) EXCEPT !.approveOnly = pass.approveOnly]]
  /\ spawned' = burns
  /\ pass' = burned
  /\ UNCHANGED <<pull, attempts, rearms, escalated, reaper, gestures>>

\* The launch fails, on the pad or for a name in use: it is burned all the same.
PassLaunchFails ==
  /\ pass.pc = "launch" /\ pass.action \in Bounded
  /\ spawned' = burns
  /\ pass' = burned
  /\ UNCHANGED <<pull, attempts, rearms, escalated, run, reaper, gestures>>

\* ErrOverCap, or a lander's launch that fails: nothing is burned.
PassSkip ==
  /\ pass.pc = "launch"
  /\ pass' = idlePass
  /\ UNCHANGED <<pull, attempts, rearms, escalated, run, reaper, gestures, spawned>>

\* Mutant of PassBurn: only what failed counts, as rows that survive would not.
PassBurnLost ==
  /\ pass.pc = "burn"
  /\ pass' = idlePass
  /\ attempts' = IF active(pass.action) THEN attempts
                 ELSE [attempts EXCEPT ![pass.pull][pass.action] = @ + 1]
  /\ UNCHANGED <<pull, rearms, escalated, run, reaper, gestures, spawned>>

\* RecordAutolandAttempt, after the launch returned.
PassBurn ==
  /\ pass.pc = "burn"
  /\ attempts' = [attempts EXCEPT ![pass.pull][pass.action] = @ + 1]
  /\ pass' = idlePass
  /\ UNCHANGED <<pull, rearms, escalated, run, reaper, gestures, spawned>>

\* The write fails: log only, "a dropped increment costs one extra attempt".
PassBurnFails ==
  /\ pass.pc = "burn" /\ gesture("unrecorded")
  /\ pass' = idlePass
  /\ UNCHANGED <<pull, attempts, rearms, escalated, run, reaper, spawned>>

PassStep == PassBranch \/ PassDecide \/ PassLaunch \/ PassBurn
PassNext ==
  \/ PassStep \/ PassGivesUp \/ PassLaunchFails \/ PassSkip \/ PassBurnFails
  \/ \E p \in Pulls : PassRead(p)

(***************************************************************************)
(* The reaper.                                                             *)
(***************************************************************************)
\* A tick stamps its moment first; every row it ends carries it.
ReapStart(k) ==
  /\ reaper.pc = "idle" /\ active(k)
  /\ reaper' = [idleReaper EXCEPT !.pc = "read", !.kind = k, !.id = run[k].id,
                                  !.at = rearms[run[k].pull]]
  /\ UNCHANGED <<pull, attempts, rearms, escalated, run, pass, gestures, spawned>>

\* The forge reads of verdictDoneSignal, without the lock.
ReapRead ==
  LET k == reaper.kind IN
  /\ reaper.pc = "read"
  /\ \/ /\ DonePull = {}
        /\ reaper' = [reaper EXCEPT !.pc = "claim"]
     \/ \E p \in DonePull :
          reaper' = [reaper EXCEPT !.pc = "claim", !.done = verdictDone(k, p),
                                   !.marker = viaMarker(k, p)]
  /\ UNCHANGED <<pull, attempts, rearms, escalated, run, pass, gestures, spawned>>

\* The forge cannot be read this tick: never classified on missing data.
ReapUnreadable ==
  /\ reaper.pc = "read"
  /\ reaper' = idleReaper
  /\ UNCHANGED <<pull, attempts, rearms, escalated, run, pass, gestures, spawned>>

\* Classify, and the promotion of a delivered escalation.  A run without its
\* done-signal is lost when its session is dead or its budget over, which the
\* reap can find at any time; else it is running.
claimable == {IF reaper.marker THEN "escalated" ELSE IF reaper.done THEN "success" ELSE "lost"}

\* classifyAndClaim, under runsMu, on the row of the listing.
ReapClaim ==
  LET k == reaper.kind
      p == run[k].pull
  IN
  /\ reaper.pc = "claim"
  /\ active(k) /\ run[k].id = reaper.id
  /\ \E outcome \in claimable :
       /\ run' = [run EXCEPT ![k] = NoRun]
       /\ escalated' = IF outcome = "escalated" /\ reaper.at > escalated[p]
                       THEN [escalated EXCEPT ![p] = reaper.at] ELSE escalated
  /\ reaper' = idleReaper
  /\ UNCHANGED <<pull, attempts, rearms, pass, gestures, spawned>>

\* Not claimed: the row ended meanwhile, or its run is in progress.
ReapSkip ==
  /\ reaper.pc = "claim"
  /\ (active(reaper.kind) /\ run[reaper.kind].id = reaper.id) => ~reaper.done
  /\ reaper' = idleReaper
  /\ UNCHANGED <<pull, attempts, rearms, escalated, run, pass, gestures, spawned>>

ReapNext == ReapRead \/ ReapUnreadable \/ ReapClaim \/ ReapSkip \/ \E k \in Kinds : ReapStart(k)

(***************************************************************************)
(* The sessions: each does what its seed prompt asks, once.                *)
(***************************************************************************)
works(k) == active(k) /\ ~run[k].posted

\* labctl pr create: one open pull of the branch.
OpenPull ==
  LET p == run["author"].pull IN
  /\ works("author") /\ pull[p].state = "none"
  /\ pull' = [pull EXCEPT ![p].state = "open"]
  /\ run' = [run EXCEPT !["author"].posted = TRUE]
  /\ UNCHANGED <<attempts, rearms, escalated, pass, reaper, gestures, spawned>>

\* labctl pr reject, approve, rerequest, escalate.
Post(k, word) ==
  LET p == run[k].pull IN
  /\ works(k) /\ word \in DoneWords(k)
  /\ pull' = [pull EXCEPT ![p].thread = Append(@, [word |-> word, at |-> rearms[p]])]
  /\ run' = [run EXCEPT ![k].posted = TRUE]
  /\ UNCHANGED <<attempts, rearms, escalated, pass, reaper, gestures, spawned>>

\* labctl pr merge, by a lander that was not told to approve and stop.
LanderMerges ==
  LET p == run["lander"].pull IN
  /\ works("lander") /\ ~run["lander"].approveOnly /\ pull[p].state = "open"
  /\ pull' = [pull EXCEPT ![p].state = "merged"]
  /\ run' = [run EXCEPT !["lander"].posted = TRUE]
  /\ UNCHANGED <<attempts, rearms, escalated, pass, reaper, gestures, spawned>>

SessionNext ==
  \/ OpenPull \/ LanderMerges
  \/ \E k \in Kinds, w \in Words : Post(k, w)

(***************************************************************************)
(* Humans, and crashes.                                                    *)
(***************************************************************************)
\* A review or a dismissal; a merge or a close; the marker comment deleted.
HumanOnForge(p) ==
  /\ pull[p].state = "open"
  /\ \/ /\ gesture("review")
        /\ \E r \in {"none", "approved", "changes"} : pull' = [pull EXCEPT ![p].review = r]
     \/ /\ gesture("land")
        /\ \E s \in {"merged", "closed"} : pull' = [pull EXCEPT ![p].state = s]
     \/ /\ gesture("unmark") /\ LastVerdictWord(pull[p].thread) = "escalate"
        /\ pull' = [pull EXCEPT ![p].thread = Front(@)]
  /\ UNCHANGED <<attempts, rearms, escalated, run, pass, reaper, spawned>>

\* Mutant of RearmPull: the budgets stay spent.
RearmPullBudgetKept(p) ==
  /\ rearms' = [rearms EXCEPT ![p] = @ + 1]
  /\ UNCHANGED attempts

\* One transaction: the moment, and the attempts of the pull.
RearmPull(p) ==
  /\ rearms' = [rearms EXCEPT ![p] = @ + 1]
  /\ attempts' = [attempts EXCEPT ![p] = [k \in Bounded |-> 0]]

HumanRearms(p) ==
  /\ gesture("rearm") /\ pull[p].state = "open"
  /\ RearmPull(p)
  /\ spawned' = [spawned EXCEPT ![p] = [k \in Bounded |->
                    IF pass.pc = "burn" /\ pass.pull = p /\ pass.action = k THEN 1 ELSE 0]]
  /\ UNCHANGED <<pull, escalated, run, pass, reaper>>

\* StopAFK: neither success nor failure.
StopAFK(k) ==
  /\ gesture("stop") /\ active(k)
  /\ run' = [run EXCEPT ![k] = NoRun]
  /\ UNCHANGED <<pull, attempts, rearms, escalated, pass, reaper, spawned>>

\* The claim is discarded and the issue claimed again: the next pull request
\* comes to the same branch.
Requeue(p) ==
  /\ gesture("requeue") /\ pull[p].state = "closed" /\ p + 1 \in Pulls /\ pull[p + 1].state = "none"
  /\ ~ActiveRunOnBranch
  /\ run' = [run EXCEPT !["author"] = newRun(p + 1)]
  /\ UNCHANGED <<pull, attempts, rearms, escalated, pass, reaper, spawned>>

\* The pass and the tick are in memory; the sessions live on.
Restart ==
  /\ gesture("crash")
  /\ pass' = idlePass /\ reaper' = idleReaper
  /\ UNCHANGED <<pull, attempts, rearms, escalated, run, spawned>>

WorldNext ==
  \/ Restart
  \/ \E k \in Kinds : StopAFK(k)
  \/ \E p \in Pulls : HumanOnForge(p) \/ HumanRearms(p) \/ Requeue(p)

Next == PassNext \/ ReapNext \/ SessionNext \/ WorldNext

\* The loops keep ticking and deadlines come.  A run ends once it is
\* claimed, so the tick needs no fairness per kind.  Nothing is asked of the
\* sessions, of humans, or of the launches.
Fairness ==
  /\ WF_vars(PassStep) /\ WF_vars(\E p \in Pulls : PassRead(p))
  /\ WF_vars(\E k \in Kinds : ReapStart(k)) /\ WF_vars(ReapRead \/ ReapSkip)
  /\ SF_vars(ReapClaim)

Spec == Init /\ [][Next]_vars /\ Fairness

(***************************************************************************)
(* Properties.                                                             *)
(***************************************************************************)
Comments == [word : Words, at : Moments]

\* Types, and the ties between the pass, the moments and the rows.
TypeOK ==
  /\ \A p \in Pulls : /\ pull[p].state \in {"none", "open", "merged", "closed"}
                      /\ \A i \in DOMAIN pull[p].thread : pull[p].thread[i] \in Comments
                      /\ escalated[p] \in {Never} \cup 0..rearms[p]
  /\ \A k \in Kinds : run[k].pull \in {0} \cup Pulls /\ run[k].id \subseteq gestures
  /\ \A k \in Kinds : active(k) => pull[run[k].pull].state # "none" \/ k = "author"
  /\ gestures \subseteq AllGestures
  /\ pass.action \in Kinds \cup {"none"}
  /\ pass.pc = "burn" => pass.action \in Bounded
  /\ reaper.id \subseteq gestures /\ reaper.at \in Moments

launches(k) == ~active(k) /\ run'[k].pull # 0

\* One marker writer per branch: never two autoland runs at once, although the
\* gate on the branch and the launch are apart (DecideAutoland case 2; the
\* readings of the done-signals lean on it).
OneWriter ==
  /\ TypeOK
  /\ Cardinality({k \in Kinds \ {"author"} : active(k)}) <= 1

\* The attempt bounds are on intents: between two re-arms at most the bound is
\* launched, failed launches included, one more for each record that is lost: a
\* crash between a launch and its record, or a RecordAutolandAttempt that fails,
\* which is only logged (autolandLaunch).
lost == (IF "crash" \in gestures THEN 1 ELSE 0) + (IF "unrecorded" \in gestures THEN 1 ELSE 0)
AttemptsBounded ==
  \A p \in Pulls : /\ spawned[p]["fix"] <= MaxFixAttempts + lost
                   /\ spawned[p]["escalate"] <= MaxEscalateAttempts + lost

\* A recorded escalation stands until a re-arm: no run of autoland starts on the
\* pull, whatever the pass read before, and although a human may delete the
\* marker (EscalatedRunForPull is read after the branch).
EscalationStands ==
  [][\A k \in Kinds \ {"author"} : launches(k) =>
       escalated[run'[k].pull] < rearms[run'[k].pull]]_vars

\* A hand-off comes after the repairs that the last re-arm paid for: RearmPull
\* restores the budget together with the moment (pass.since tells the passes
\* that saw that re-arm).
HandOffLast ==
  [][launches("escalate") /\ pass.since = rearms[pass.pull] =>
       spawned[pass.pull]["fix"] >= MaxFixAttempts]_vars

\* "guaranteed false at launch": the done-signal of a fix run.
FixNotDoneAtLaunch ==
  [][launches("fix") => LastVerdictWord(pull[run'["fix"].pull].thread) # "fix-done"]_vars

\* The human's gesture is the newest information: after a re-arm nothing is
\* terminal until another escalation is posted.
RearmHonoured ==
  \A p \in Pulls :
    (\A i \in DOMAIN pull[p].thread :
       pull[p].thread[i].word = "escalate" => pull[p].thread[i].at < rearms[p])
    => rearms[p] = 0 \/ escalated[p] < rearms[p]

\* Every pull of the branch that is open is validated, handed off, paused, or out
\* of attempts, and no run is left.
Settled ==
  /\ ~ActiveRunOnBranch
  /\ \A p \in Pulls : pull[p].state = "open" =>
       LET thread == DropSupersededEscalations(pull[p].thread, rearms[p]) IN
       \/ Terminal(thread, escalated[p], rearms[p])
       \/ DecideAutoland(thread, pull[p].review, attempts[p]["fix"], attempts[p]["escalate"]) = "none"

landerLost == ReapClaim /\ reaper.kind = "lander" /\ ~reaper.done

\* The fix-forward loop ends, however often the sessions reject, die or post
\* nothing: fixes and hand-offs are bounded.  Landers are not, so the promise is
\* made up to landers that are lost forever, and up to passes and forge reads
\* that are refused forever.
LoopEnds ==
  \/ []<><<landerLost>>_vars
  \/ []<><<PassSkip \/ PassGivesUp \/ ReapUnreadable>>_vars
  \/ <>[]Settled
=============================================================================
