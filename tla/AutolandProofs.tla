---------------------------- MODULE AutolandProofs ----------------------------
(***************************************************************************)
(* For any number of pull requests of a branch, any bounds on the attempts *)
(* and every set of gestures: one writer of markers per branch, attempts   *)
(* within their bounds, an escalation that stands until a re-arm, and the  *)
(* hand-off after the repairs.                                             *)
(*                                                                         *)
(* The pass decides on what it read some time ago.  That is enough because *)
(* nobody but the pass launches: a branch it found without a run has none  *)
(* of autoland until it launches, so nobody can post, and no escalation    *)
(* can be recorded.                                                        *)
(***************************************************************************)
EXTENDS Autoland, FiniteSetTheorems, TLAPS

Landing == {"lander", "fix", "escalate"}
Forge == [state : {"none", "open", "merged", "closed"}, thread : Seq(Comments),
          review : {"none", "approved", "changes"}]
Row == [id : SUBSET AllGestures, pull : {0} \cup Pulls, posted : BOOLEAN, approveOnly : BOOLEAN]
Pass == [pc : {"idle", "branch", "decide", "launch", "burn"}, pull : {0} \cup Pulls,
         thread : Seq(Comments), review : {"none", "approved", "changes"}, since : Moments,
         action : Landing \cup {"none"}, approveOnly : BOOLEAN]
Reap == [pc : {"idle", "read", "claim"}, kind : Kinds, id : SUBSET AllGestures, at : Moments,
         done : BOOLEAN, marker : BOOLEAN]

Typed ==
  /\ pull \in [Pulls -> Forge]
  /\ attempts \in [Pulls -> [Bounded -> Nat]] /\ spawned \in [Pulls -> [Bounded -> Nat]]
  /\ rearms \in [Pulls -> Moments] /\ escalated \in [Pulls -> {Never} \cup Moments]
  /\ run \in [Kinds -> Row] /\ pass \in Pass /\ reaper \in Reap
  /\ gestures \subseteq AllGestures

\* A re-arm happens once; what was recorded is not later than the last one.
Moved == \A p \in Pulls : /\ rearms[p] = 1 => "rearm" \in gestures
                          /\ escalated[p] \in {Never} \cup 0..rearms[p]

\* A row carries the gestures before it, and is of a pull request that was opened.
Rows == \A k \in Kinds : /\ run[k].id \subseteq gestures
                         /\ (active(k) /\ k # "author") => pull[run[k].pull].state # "none"

\* The row the reaper looks at is the one it listed, or there was a Stop since.
watches == active(reaper.kind) /\ run[reaper.kind].id = reaper.id
Watching ==
  /\ reaper.id \subseteq gestures
  /\ reaper.marker => reaper.kind = "escalate"
  /\ reaper.pc # "idle" =>
       /\ watches => reaper.at <= rearms[run[reaper.kind].pull]
       /\ ~watches => "stop" \in gestures \ reaper.id

\* From the gate on the branch to the launch, nobody else is on the branch.
Alone ==
  /\ \A j, k \in Landing : (active(j) /\ active(k)) => j = k
  /\ pass.pc \in {"decide", "launch"} => \A k \in Landing : ~active(k)

\* What the pass is about, and what it may still rely on.
Deciding ==
  /\ pass.pc # "idle" => pass.pull \in Pulls /\ pull[pass.pull].state # "none"
  /\ pass.pc \in {"decide", "launch"} => pass.since <= rearms[pass.pull]
  /\ pass.pc = "launch" => pass.action \in Landing /\ escalated[pass.pull] < rearms[pass.pull]
  /\ pass.pc = "burn" => pass.action \in Bounded

\* An attempt is recorded after its launch, unless the process died between.
Limit(k) == IF k = "fix" THEN MaxFixAttempts ELSE MaxEscalateAttempts
burning(p, k) == IF pass.pc = "burn" /\ pass.pull = p /\ pass.action = k THEN 1 ELSE 0
Counted ==
  \A p \in Pulls, k \in Bounded :
    /\ attempts[p][k] + burning(p, k) <= spawned[p][k]
    /\ spawned[p][k] <= attempts[p][k] + burning(p, k) + lost
    /\ spawned[p][k] <= Limit(k) + lost
    /\ (pass.pc \in {"launch", "burn"} /\ pass.pull = p /\ pass.action = k)
         => attempts[p][k] < Limit(k)

\* A hand-off is decided when the repairs are spent.
Spent ==
  (pass.pc = "launch" /\ pass.action = "escalate" /\ pass.since = rearms[pass.pull])
    => attempts[pass.pull]["fix"] >= MaxFixAttempts

IInv == Typed /\ Moved /\ Rows /\ Watching /\ Alone /\ Deciding /\ Counted /\ Spent

USE DEF Landing, Forge, Row, Pass, Reap, Kinds, Bounded, Words, Never, Moments, active

LEMMA Known ==
  /\ MaxFixAttempts \in Nat /\ MaxEscalateAttempts \in Nat /\ MaxEscalateAttempts >= 1
  /\ 0 \notin Pulls /\ Pulls \subseteq Nat /\ 1 \in Pulls
<1>1. Cardinality(Pulls) \in Nat BY PullsAssumption, FS_CardinalityType
<1>2. ASSUME NEW n \in Nat, 1..n # {} PROVE 1 \in 1..n
  BY <1>2
<1> QED BY <1>1, <1>2, BoundsAssumption, PullsAssumption

LEMMA LostOnce == lost \in 0..2
BY DEF lost

LEMMA InitKeeps == Init => IInv
<1> SUFFICES ASSUME Init PROVE IInv OBVIOUS
<1> USE Known DEF Init, idlePass, idleReaper, NoRun, newRun
<1>1. Typed
  <2>2. <<>> \in Seq(Comments) OBVIOUS
  <2>3. run \in [Kinds -> Row] OBVIOUS
  <2>4. pull \in [Pulls -> Forge] /\ pass \in Pass BY <2>2
  <2> QED BY <2>3, <2>4 DEF Typed
<1>2. Moved /\ Rows /\ Watching /\ Alone /\ Deciding /\ Spent
  BY DEF Moved, Rows, Watching, watches, Alone, Deciding, Spent
<1>3. Counted BY LostOnce DEF Counted, burning, Limit
<1> QED BY <1>1, <1>2, <1>3 DEF IInv

\* A gesture happens once.
LEMMA Gestured ==
  \A g : gesture(g) => g \notin gestures /\ gestures' = gestures \cup {g} /\ gestures' \subseteq AllGestures
BY ScenariosAssumption DEF gesture

\* What the decision says of the budgets.
LEMMA Decided ==
  ASSUME NEW thread, NEW review, NEW fixes, NEW escalates,
         DecideAutoland(thread, review, fixes, escalates) # "none"
  PROVE  LET action == DecideAutoland(thread, review, fixes, escalates) IN
         /\ action \in Landing
         /\ action = "fix" => fixes < MaxFixAttempts
         /\ action = "escalate" => ~(fixes < MaxFixAttempts) /\ escalates < MaxEscalateAttempts
BY DEF DecideAutoland

\* A step that changes the pass alone.
passRest == <<pull, attempts, rearms, escalated, run, reaper, gestures, spawned>>
LEMMA PassAlone ==
  ASSUME IInv, UNCHANGED passRest, pass' \in Pass,
         pass'.pc \in {"decide", "launch"} => \A k \in Landing : ~active(k),
         Deciding', Spent',
         \A p \in Pulls, k \in Bounded : burning(p, k)' = burning(p, k),
         \A p \in Pulls, k \in Bounded :
           (pass'.pc \in {"launch", "burn"} /\ pass'.pull = p /\ pass'.action = k)
             => attempts[p][k] < Limit(k)
  PROVE  IInv'
<1> USE DEF IInv, passRest
<1>1. Typed' BY DEF Typed
<1>2. (Moved /\ Rows /\ Watching)' BY DEF Moved, Rows, Watching, watches
<1>3. Alone' BY DEF Alone
<1>4. Counted'
  <2>1. \A k \in Bounded : Limit(k)' = Limit(k) BY DEF Limit
  <2>2. lost' = lost BY DEF lost
  <2>3. ASSUME NEW p \in Pulls, NEW k \in Bounded
        PROVE /\ attempts[p][k] + burning(p, k)' <= spawned[p][k]
              /\ spawned[p][k] <= attempts[p][k] + burning(p, k)' + lost
              /\ spawned[p][k] <= Limit(k) + lost
    BY DEF Counted
  <2> QED BY <2>1, <2>2, <2>3 DEF Counted
<1> QED BY <1>1, <1>2, <1>3, <1>4

LEMMA PassKeeps ==
  ASSUME IInv,
         (\E p \in Pulls : PassRead(p)) \/ PassBranch \/ PassDecide \/ PassGivesUp \/ PassSkip
  PROVE  IInv'
<1> USE DEF IInv
<1>0. idlePass \in Pass BY Known DEF idlePass
<1>1. ASSUME UNCHANGED passRest, pass' = idlePass, pass.pc # "burn" PROVE IInv'
  <2>1. Deciding' /\ Spent' BY <1>1 DEF Deciding, Spent, idlePass
  <2>2. \A p \in Pulls, k \in Bounded : burning(p, k)' = burning(p, k)
    BY <1>1 DEF burning, idlePass
  <2> QED BY <1>0, <1>1, <2>1, <2>2, PassAlone DEF idlePass
<1>2. CASE PassGivesUp \/ PassSkip BY <1>1, <1>2 DEF PassGivesUp, PassSkip, passRest
<1>3. ASSUME NEW p \in Pulls, PassRead(p) PROVE IInv'
  <2>1. /\ pass' = [idlePass EXCEPT !.pc = "branch", !.pull = p, !.thread = pull[p].thread,
                                    !.review = pull[p].review]
        /\ UNCHANGED passRest /\ pass.pc = "idle" /\ pull[p].state = "open"
    BY <1>3 DEF PassRead, passRest
  <2>2. pull[p] \in Forge BY DEF Typed
  <2>3. pass' \in Pass BY <1>0, <2>1, <2>2
  <2>4. pass'.pc = "branch" /\ pass'.pull = p BY <2>1, Known DEF idlePass
  <2>5. Deciding' /\ Spent' BY <2>1, <2>4 DEF Deciding, Spent, passRest
  <2>6. \A q \in Pulls, k \in Bounded : burning(q, k)' = burning(q, k)
    BY <2>1, <2>4 DEF burning
  <2> QED BY <2>1, <2>3, <2>4, <2>5, <2>6, PassAlone
<1>4. CASE PassBranch
  <2>1. CASE ActiveRunOnBranch
    BY <1>1, <1>4, <2>1 DEF PassBranch, passRest
  <2>2. CASE ~ActiveRunOnBranch
    <3>1. pass' = toDecide /\ UNCHANGED passRest /\ pass.pc = "branch"
      BY <1>4, <2>2 DEF PassBranch, passRest
    <3>2. pass.pull \in Pulls /\ pull[pass.pull].state # "none" BY <3>1 DEF Deciding
    <3>3. pass \in Pass /\ rearms[pass.pull] \in Moments BY <3>2 DEF Typed
    <3>4. /\ pass' \in Pass /\ pass'.pc = "decide" /\ pass'.pull = pass.pull
          /\ pass'.since = rearms[pass.pull]
      BY <3>1, <3>3 DEF toDecide
    <3>5. \A k \in Landing : ~active(k) BY <2>2 DEF ActiveRunOnBranch
    <3>6. Deciding' /\ Spent' BY <3>1, <3>2, <3>3, <3>4 DEF Deciding, Spent, passRest
    <3>7. \A q \in Pulls, k \in Bounded : burning(q, k)' = burning(q, k)
      BY <3>1, <3>4 DEF burning
    <3> QED BY <3>1, <3>4, <3>5, <3>6, <3>7, PassAlone
  <2> QED BY <2>1, <2>2
<1>5. CASE PassDecide
  <2> DEFINE p == pass.pull
             thread == DropSupersededEscalations(pass.thread, pass.since)
             action == DecideAutoland(thread, pass.review, attempts[p]["fix"], attempts[p]["escalate"])
  <2>1. CASE pass' = idlePass
    BY <1>1, <1>5, <2>1 DEF PassDecide, passRest
  <2>2. CASE pass' # idlePass
    <3> DEFINE only == action = "lander" /\ thread # <<>> /\ HumanRejected(pass.review)
    <3>1. /\ pass' = [pass EXCEPT !.pc = "launch", !.action = action, !.approveOnly = only]
          /\ ~Terminal(thread, escalated[p], pass.since) /\ action # "none"
          /\ UNCHANGED passRest /\ pass.pc = "decide"
      BY <1>5, <2>2 DEF PassDecide, passRest
    <3>2. /\ action \in Landing
          /\ action = "fix" => attempts[p]["fix"] < MaxFixAttempts
          /\ action = "escalate" => /\ ~(attempts[p]["fix"] < MaxFixAttempts)
                                    /\ attempts[p]["escalate"] < MaxEscalateAttempts
      BY <3>1, Decided
    <3>3. ~(escalated[p] # Never /\ escalated[p] >= pass.since) BY <3>1 DEF Terminal
    <3>4. p \in Pulls /\ pull[p].state # "none" /\ pass.since <= rearms[p]
      BY <3>1 DEF Deciding
    <3>5. /\ pass \in Pass /\ rearms[p] \in Moments /\ escalated[p] \in {Never} \cup Moments
          /\ attempts[p] \in [Bounded -> Nat]
      BY <3>4 DEF Typed
    <3>6. only \in BOOLEAN OBVIOUS
    <3> HIDE DEF action, only
    <3>7. /\ pass' \in Pass /\ pass'.pc = "launch" /\ pass'.pull = p /\ pass'.action = action
          /\ pass'.since = pass.since
      BY <3>1, <3>2, <3>5, <3>6
    <3>8. escalated[p] < rearms[p] BY <3>3, <3>4, <3>5
    <3>9. Deciding' BY <3>1, <3>2, <3>4, <3>7, <3>8 DEF Deciding, passRest
    <3>10. Spent' BY <3>1, <3>2, <3>5, <3>7, Known DEF Spent, passRest
    <3>11. \A q \in Pulls, k \in Bounded : burning(q, k)' = burning(q, k)
      BY <3>1, <3>7 DEF burning
    <3>12. \A q \in Pulls, k \in Bounded :
             (pass'.pull = q /\ pass'.action = k) => attempts[q][k] < Limit(k)
      BY <3>2, <3>7 DEF Limit
    <3>13. \A k \in Landing : ~active(k) BY <3>1 DEF Alone
    <3> QED BY <3>1, <3>7, <3>9, <3>10, <3>11, <3>12, <3>13, PassAlone
  <2> QED BY <2>1, <2>2
<1> QED BY <1>2, <1>3, <1>4, <1>5

\* A step that changes the reaper alone.
reaperRest == <<pull, attempts, rearms, escalated, run, pass, gestures, spawned>>
LEMMA ReaperAlone ==
  ASSUME IInv, UNCHANGED reaperRest, reaper' \in Reap, Watching'
  PROVE  IInv'
<1> USE DEF IInv, reaperRest
<1>1. Typed' BY DEF Typed
<1>2. (Moved /\ Rows /\ Alone /\ Deciding /\ Spent)' BY DEF Moved, Rows, Alone, Deciding, Spent
<1>3. Counted' BY DEF Counted, burning, lost, Limit
<1> QED BY <1>1, <1>2, <1>3

LEMMA ReaperKeeps ==
  ASSUME IInv,
         (\E k \in Kinds : ReapStart(k)) \/ ReapRead \/ ReapUnreadable \/ ReapSkip
  PROVE  IInv'
<1> USE DEF IInv
<1>0. reaper \in Reap /\ run \in [Kinds -> Row] /\ idleReaper \in Reap BY DEF Typed, idleReaper
<1>1. CASE ReapUnreadable \/ ReapSkip
  <2>1. reaper' = idleReaper /\ UNCHANGED reaperRest
    BY <1>1 DEF ReapUnreadable, ReapSkip, reaperRest
  <2>2. Watching' BY <2>1 DEF Watching, watches, idleReaper
  <2> QED BY <1>0, <2>1, <2>2, ReaperAlone
<1>2. ASSUME NEW k \in Kinds, ReapStart(k) PROVE IInv'
  <2>1. /\ reaper' = [idleReaper EXCEPT !.pc = "read", !.kind = k, !.id = run[k].id,
                                        !.at = rearms[run[k].pull]]
        /\ UNCHANGED reaperRest /\ run[k].pull # 0
    BY <1>2 DEF ReapStart, reaperRest
  <2>2. run[k].pull \in Pulls /\ run[k].id \subseteq AllGestures BY <1>0, <2>1
  <2>3. rearms[run[k].pull] \in Moments BY <2>2 DEF Typed
  <2>4. reaper' \in Reap BY <1>0, <2>1, <2>2, <2>3
  <2>5. /\ reaper'.kind = k /\ reaper'.id = run[k].id /\ reaper'.at = rearms[run[k].pull]
        /\ reaper'.marker = FALSE
    BY <2>1 DEF idleReaper
  <2>6. run[k].id \subseteq gestures BY DEF Rows
  <2>7. Watching' BY <2>1, <2>3, <2>5, <2>6 DEF Watching, watches, reaperRest
  <2> QED BY <2>1, <2>4, <2>7, ReaperAlone
<1>3. CASE ReapRead
  <2>1. PICK d \in BOOLEAN, m \in BOOLEAN :
          /\ reaper' = [reaper EXCEPT !.pc = "claim", !.done = d, !.marker = m]
          /\ m => reaper.marker \/ reaper.kind = "escalate"
    <3>1. CASE DonePull = {} /\ reaper' = [reaper EXCEPT !.pc = "claim"]
      <4>1. reaper' = [reaper EXCEPT !.pc = "claim", !.done = reaper.done, !.marker = reaper.marker]
        BY <1>0, <3>1
      <4> QED BY <1>0, <4>1
    <3>2. ASSUME NEW p \in DonePull,
                 reaper' = [reaper EXCEPT !.pc = "claim", !.done = verdictDone(reaper.kind, p),
                                          !.marker = viaMarker(reaper.kind, p)]
          PROVE  \E d \in BOOLEAN, m \in BOOLEAN :
                   /\ reaper' = [reaper EXCEPT !.pc = "claim", !.done = d, !.marker = m]
                   /\ m => reaper.marker \/ reaper.kind = "escalate"
      <4>1. verdictDone(reaper.kind, p) \in BOOLEAN /\ viaMarker(reaper.kind, p) \in BOOLEAN
        BY DEF verdictDone, viaMarker
      <4>2. viaMarker(reaper.kind, p) => reaper.kind = "escalate" BY DEF viaMarker
      <4> QED BY <3>2, <4>1, <4>2
    <3> QED BY <1>3, <3>1, <3>2 DEF ReapRead
  <2>2. UNCHANGED reaperRest /\ reaper.pc = "read" BY <1>3 DEF ReapRead, reaperRest
  <2>3. /\ reaper' \in Reap /\ reaper'.kind = reaper.kind /\ reaper'.id = reaper.id
        /\ reaper'.at = reaper.at /\ reaper'.marker = m
    BY <1>0, <2>1
  <2>4. Watching' BY <2>1, <2>2, <2>3 DEF Watching, watches, reaperRest
  <2> QED BY <2>2, <2>3, <2>4, ReaperAlone
<1> QED BY <1>1, <1>2, <1>3

\* A step that changes the forge, and of the rows nothing but what was posted.
forgeRest == <<attempts, rearms, escalated, pass, reaper, spawned>>
LEMMA ForgeAlone ==
  ASSUME IInv, UNCHANGED forgeRest, pull' \in [Pulls -> Forge], run' \in [Kinds -> Row],
         \A p \in Pulls : pull[p].state # "none" => pull'[p].state # "none",
         \A k \in Kinds : run'[k].pull = run[k].pull /\ run'[k].id = run[k].id,
         gestures \subseteq gestures', gestures' \subseteq AllGestures,
         \A g \in {"crash", "unrecorded"} : g \in gestures' <=> g \in gestures
  PROVE  IInv'
<1> USE DEF IInv, forgeRest
<1>1. Typed' BY DEF Typed
<1>2. (Moved /\ Alone /\ Deciding /\ Spent)' BY DEF Moved, Alone, Deciding, Spent
<1>3. Rows'
  <2>1. \A k \in Kinds : active(k) => run[k].pull \in Pulls BY DEF Typed
  <2> QED BY <2>1 DEF Rows
<1>4. Watching'
  <2>1. reaper.kind \in Kinds BY DEF Typed
  <2> QED BY <2>1 DEF Watching, watches
<1>5. Counted'
  <2>1. lost' = lost BY DEF lost
  <2> QED BY <2>1 DEF Counted, burning, Limit
<1> QED BY <1>1, <1>2, <1>3, <1>4, <1>5

LEMMA ForgeKeeps ==
  ASSUME IInv,
         \/ OpenPull \/ LanderMerges \/ (\E k \in Kinds, w \in Words : Post(k, w))
         \/ \E p \in Pulls : HumanOnForge(p)
  PROVE  IInv'
<1> USE DEF IInv
<1>0. pull \in [Pulls -> Forge] /\ run \in [Kinds -> Row] /\ rearms \in [Pulls -> Moments]
      /\ gestures \subseteq AllGestures
  BY DEF Typed
<1>1. ASSUME NEW k \in Kinds, active(k), NEW f \in Forge, f.state # "none",
             pull' = [pull EXCEPT ![run[k].pull] = f], run' = [run EXCEPT ![k].posted = TRUE],
             UNCHANGED forgeRest, gestures' = gestures
      PROVE  IInv'
  <2>1. run[k].pull \in Pulls BY <1>0, <1>1
  <2>2. pull' \in [Pulls -> Forge] BY <1>0, <1>1, <2>1
  <2>3. \A p \in Pulls : pull[p].state # "none" => pull'[p].state # "none"
    BY <1>0, <1>1, <2>1
  <2>4. run' \in [Kinds -> Row] /\ \A j \in Kinds : run'[j].pull = run[j].pull /\ run'[j].id = run[j].id
    BY <1>0, <1>1
  <2> QED BY <1>0, <1>1, <2>2, <2>3, <2>4, ForgeAlone
<1>2. CASE OpenPull
  <2> DEFINE p == run["author"].pull
             f == [pull[p] EXCEPT !.state = "open"]
  <2>1. active("author") /\ p \in Pulls BY <1>0, <1>2 DEF OpenPull, works
  <2>2. f \in Forge /\ f.state = "open"
    <3>1. pull[p] \in Forge BY <1>0, <2>1
    <3> HIDE DEF p
    <3> QED BY <3>1
  <2>3. pull' = [pull EXCEPT ![p] = f] BY <1>0, <1>2 DEF OpenPull
  <2>4. run' = [run EXCEPT !["author"].posted = TRUE] /\ UNCHANGED forgeRest /\ gestures' = gestures
    BY <1>2 DEF OpenPull, forgeRest
  <2> HIDE DEF f
  <2> QED BY <1>1, <2>1, <2>2, <2>3, <2>4
<1>3. CASE LanderMerges
  <2> DEFINE p == run["lander"].pull
             f == [pull[p] EXCEPT !.state = "merged"]
  <2>1. active("lander") /\ p \in Pulls BY <1>0, <1>3 DEF LanderMerges, works
  <2>2. f \in Forge /\ f.state = "merged"
    <3>1. pull[p] \in Forge BY <1>0, <2>1
    <3> HIDE DEF p
    <3> QED BY <3>1
  <2>3. pull' = [pull EXCEPT ![p] = f] BY <1>0, <1>3 DEF LanderMerges
  <2>4. run' = [run EXCEPT !["lander"].posted = TRUE] /\ UNCHANGED forgeRest /\ gestures' = gestures
    BY <1>3 DEF LanderMerges, forgeRest
  <2> HIDE DEF f
  <2> QED BY <1>1, <2>1, <2>2, <2>3, <2>4
<1>4. ASSUME NEW k \in Kinds, NEW w \in Words, Post(k, w) PROVE IInv'
  <2> DEFINE p == run[k].pull
             c == [word |-> w, at |-> rearms[p]]
             th == Append(pull[p].thread, c)
             f == [pull[p] EXCEPT !.thread = th]
  <2>1. active(k) /\ p \in Pulls BY <1>0, <1>4 DEF Post, works
  <2>2. c \in Comments BY <1>0, <2>1 DEF Comments
  <2>3. th \in Seq(Comments)
    <3> HIDE DEF c
    <3> QED BY <1>0, <2>1, <2>2
  <2>4. k # "author" BY <1>4 DEF Post, DoneWords
  <2>5. pull[p].state # "none" BY <2>1, <2>4 DEF Rows
  <2>6. f \in Forge /\ f.state = pull[p].state
    <3>1. pull[p] \in Forge BY <1>0, <2>1
    <3> HIDE DEF th, p
    <3> QED BY <2>3, <3>1
  <2>7. pull' = [pull EXCEPT ![p] = f] BY <1>0, <2>1, <1>4 DEF Post
  <2>8. run' = [run EXCEPT ![k].posted = TRUE] /\ UNCHANGED forgeRest /\ gestures' = gestures
    BY <1>4 DEF Post, forgeRest
  <2> HIDE DEF f
  <2> QED BY <1>1, <2>1, <2>5, <2>6, <2>7, <2>8
<1>5. ASSUME NEW p \in Pulls, HumanOnForge(p) PROVE IInv'
  <2>1. PICK f \in Forge : pull' = [pull EXCEPT ![p] = f] /\ f.state # "none"
    <3>1. pull[p] \in Forge /\ pull[p].state = "open" BY <1>0, <1>5 DEF HumanOnForge
    <3>2. ASSUME NEW r \in {"none", "approved", "changes"}, pull' = [pull EXCEPT ![p].review = r]
          PROVE  \E f \in Forge : pull' = [pull EXCEPT ![p] = f] /\ f.state # "none"
      <4>1. [pull[p] EXCEPT !.review = r] \in Forge /\ [pull[p] EXCEPT !.review = r].state # "none"
        BY <3>1
      <4> QED BY <4>1, <1>0, <3>1, <3>2
    <3>3. ASSUME NEW st \in {"merged", "closed"}, pull' = [pull EXCEPT ![p].state = st]
          PROVE  \E f \in Forge : pull' = [pull EXCEPT ![p] = f] /\ f.state # "none"
      <4>1. [pull[p] EXCEPT !.state = st] \in Forge /\ [pull[p] EXCEPT !.state = st].state # "none"
        BY <3>1
      <4> QED BY <4>1, <1>0, <3>1, <3>3
    <3>4. ASSUME LastVerdictWord(pull[p].thread) = "escalate",
                 pull' = [pull EXCEPT ![p].thread = Front(@)]
          PROVE  \E f \in Forge : pull' = [pull EXCEPT ![p] = f] /\ f.state # "none"
      <4>1. pull[p].thread # <<>> BY <3>4 DEF LastVerdictWord
      <4>2. Front(pull[p].thread) \in Seq(Comments) BY <3>1, <4>1 DEF Front
      <4> DEFINE f == [pull[p] EXCEPT !.thread = Front(@)]
      <4>3. f \in Forge /\ f.state # "none" BY <3>1, <4>2
      <4> QED BY <4>3, <1>0, <3>1, <3>4
    <3> QED BY <1>5, <3>2, <3>3, <3>4 DEF HumanOnForge
  <2>2. pull' \in [Pulls -> Forge] BY <1>0, <2>1
  <2>3. \A q \in Pulls : pull[q].state # "none" => pull'[q].state # "none" BY <1>0, <2>1
  <2>4. PICK g \in {"review", "land", "unmark"} : gesture(g) BY <1>5 DEF HumanOnForge
  <2>5. gestures' = gestures \cup {g} /\ gestures' \subseteq AllGestures BY <2>4, Gestured
  <2>6. UNCHANGED forgeRest /\ run' = run BY <1>5 DEF HumanOnForge, forgeRest
  <2> QED BY <1>0, <2>2, <2>3, <2>5, <2>6, ForgeAlone
<1> QED BY <1>2, <1>3, <1>4, <1>5

\* The cap of the count lies over every bound: it is never met.
LEMMA BoundAbove ==
  SpawnedBound \in Nat /\ \A k \in Bounded : Limit(k) \in Nat /\ Limit(k) + 2 <= SpawnedBound
<1> DEFINE S == {MaxFixAttempts, MaxEscalateAttempts}
<1>1. \E x \in S : \A y \in S : x >= y BY Known
<1>2. Max(S) \in S /\ \A y \in S : Max(S) >= y BY <1>1 DEF Max
<1> QED BY <1>2, Known DEF SpawnedBound, Limit

\* A new row is of its pull, and carries the gestures before it.
LEMMA NewRow ==
  ASSUME NEW p \in Pulls, gestures \subseteq AllGestures
  PROVE  newRun(p) \in Row /\ newRun(p).pull = p /\ newRun(p).id = gestures
<1>1. NoRun \in Row BY DEF NoRun
<1> QED BY <1>1 DEF newRun

\* The launch counts at once, its record follows.
LEMMA LaunchCounts ==
  ASSUME IInv, pass.pc = "launch", spawned' = burns, pass' = burned,
         UNCHANGED <<pull, attempts, rearms, escalated, reaper, gestures>>
  PROVE  /\ spawned' \in [Pulls -> [Bounded -> Nat]] /\ pass' \in Pass
         /\ pass'.pc \in {"idle", "burn"} /\ Deciding' /\ Counted' /\ Spent'
<1> DEFINE p == pass.pull
           k == pass.action
<1> USE DEF IInv
<1>1. p \in Pulls /\ k \in Landing /\ pull[p].state # "none" BY DEF Deciding
<1>2. /\ spawned \in [Pulls -> [Bounded -> Nat]] /\ attempts \in [Pulls -> [Bounded -> Nat]]
      /\ pass \in Pass
  BY DEF Typed
<1>3. CASE k \in Bounded
  <2>1. spawned[p][k] <= attempts[p][k] + lost /\ attempts[p][k] < Limit(k)
    <3>1. burning(p, k) = 0 BY DEF burning
    <3>2. spawned[p][k] <= attempts[p][k] + burning(p, k) + lost /\ attempts[p][k] < Limit(k)
      BY <1>1, <1>3 DEF Counted
    <3>3. attempts[p][k] \in Nat BY <1>1, <1>2, <1>3
    <3> QED BY <3>1, <3>2, <3>3, LostOnce
  <2>2. spawned[p][k] < SpawnedBound BY <1>1, <1>2, <1>3, <2>1, BoundAbove, LostOnce
  <2>3. spawned' = [spawned EXCEPT ![p][k] = @ + 1] BY <1>3, <2>2 DEF burns
  <2>4. pass' = [idlePass EXCEPT !.pc = "burn", !.pull = p, !.action = k] BY <1>3 DEF burned
  <2>5. idlePass \in Pass BY Known DEF idlePass
  <2>6. pass' \in Pass /\ pass'.pc = "burn" /\ pass'.pull = p /\ pass'.action = k
    <3> HIDE DEF p, k
    <3> QED BY <1>1, <1>3, <2>4, <2>5
  <2>7. spawned' \in [Pulls -> [Bounded -> Nat]]
    <3> HIDE DEF p, k
    <3> QED BY <1>1, <1>2, <1>3, <2>3
  <2>8. Deciding' /\ Spent' BY <1>1, <1>3, <2>6 DEF Deciding, Spent
  <2>9. Counted'
    <3> SUFFICES ASSUME NEW q \in Pulls, NEW j \in Bounded
                 PROVE  /\ attempts[q][j] + burning(q, j)' <= spawned'[q][j]
                        /\ spawned'[q][j] <= attempts[q][j] + burning(q, j)' + lost
                        /\ spawned'[q][j] <= Limit(j) + lost
                        /\ (pass'.pull = q /\ pass'.action = j) => attempts[q][j] < Limit(j)
      BY DEF Counted, lost, Limit
    <3>1. /\ attempts[q][j] + burning(q, j) <= spawned[q][j]
          /\ spawned[q][j] <= attempts[q][j] + burning(q, j) + lost
          /\ spawned[q][j] <= Limit(j) + lost
      BY DEF Counted
    <3>2. burning(q, j) = 0 BY DEF burning
    <3> HIDE DEF p, k
    <3>3. burning(q, j)' = IF q = p /\ j = k THEN 1 ELSE 0 BY <2>6 DEF burning
    <3>4. spawned'[q][j] = spawned[q][j] + (IF q = p /\ j = k THEN 1 ELSE 0)
      BY <1>1, <1>2, <1>3, <2>3
    <3>5. attempts[q][j] \in Nat /\ spawned[q][j] \in Nat /\ Limit(j) \in Nat
      BY <1>2, BoundAbove
    <3>6. CASE q = p /\ j = k BY <2>1, <3>1, <3>2, <3>3, <3>4, <3>5, <3>6, LostOnce
    <3>7. CASE ~(q = p /\ j = k) BY <2>6, <3>1, <3>2, <3>3, <3>4, <3>5, <3>7, LostOnce
    <3> QED BY <3>6, <3>7
  <2> QED BY <2>6, <2>7, <2>8, <2>9
<1>4. CASE k \notin Bounded
  <2>1. spawned' = spawned /\ pass' = idlePass BY <1>4 DEF burns, burned
  <2>2. pass' \in Pass /\ pass'.pc = "idle" BY <2>1, Known DEF idlePass
  <2>3. Deciding' /\ Spent' BY <2>2 DEF Deciding, Spent
  <2>4. \A q \in Pulls, j \in Bounded : burning(q, j)' = burning(q, j) BY <2>2 DEF burning
  <2>5. Counted' BY <2>1, <2>2, <2>4 DEF Counted, lost, Limit
  <2> QED BY <1>2, <2>1, <2>2, <2>3, <2>5
<1> QED BY <1>3, <1>4

LEMMA LaunchKeeps == ASSUME IInv, PassLaunch \/ PassLaunchFails PROVE IInv'
<1> USE DEF IInv
<1>0. run \in [Kinds -> Row] /\ reaper \in Reap /\ gestures \subseteq AllGestures BY DEF Typed
<1>1. /\ pass.pc = "launch" /\ spawned' = burns /\ pass' = burned
      /\ UNCHANGED <<pull, attempts, rearms, escalated, reaper, gestures>>
  BY DEF PassLaunch, PassLaunchFails
<1>2. /\ spawned' \in [Pulls -> [Bounded -> Nat]] /\ pass' \in Pass
      /\ pass'.pc \in {"idle", "burn"} /\ Deciding' /\ Counted' /\ Spent'
  BY <1>1, LaunchCounts
<1>3. Moved' BY <1>1 DEF Moved
<1>4. CASE PassLaunchFails
  <2>1. run' = run BY <1>4 DEF PassLaunchFails
  <2>2. Typed' BY <1>1, <1>2, <2>1 DEF Typed
  <2>3. (Rows /\ Watching /\ Alone)' BY <1>1, <1>2, <2>1 DEF Rows, Watching, watches, Alone
  <2> QED BY <1>2, <1>3, <2>2, <2>3
<1>5. CASE PassLaunch
  <2> DEFINE k == pass.action
             p == pass.pull
             r == [newRun(p) EXCEPT !.approveOnly = pass.approveOnly]
  <2>1. run' = [run EXCEPT ![k] = r] /\ ~active(k) BY <1>5 DEF PassLaunch
  <2>2. p \in Pulls /\ k \in Landing /\ pull[p].state # "none" BY <1>1 DEF Deciding
  <2>3. pass.approveOnly \in BOOLEAN BY DEF Typed
  <2>4. r \in Row /\ r.pull = p /\ r.id = gestures
    <3>1. newRun(p) \in Row /\ newRun(p).pull = p /\ newRun(p).id = gestures
      BY <1>0, <2>2, NewRow
    <3> HIDE DEF p
    <3> QED BY <2>3, <3>1
  <2> HIDE DEF r, p, k
  <2>5. run' \in [Kinds -> Row] BY <1>0, <2>1, <2>2, <2>4
  <2>6. run'[k] = r /\ \A j \in Kinds : j # k => run'[j] = run[j] BY <1>0, <2>1, <2>2
  <2>7. Typed' BY <1>1, <1>2, <2>5 DEF Typed
  <2>8. Rows' BY <1>1, <2>2, <2>4, <2>6 DEF Rows
  <2>9. \A j \in Landing : ~active(j) BY <1>1 DEF Alone
  <2>10. Alone' BY <1>2, <2>2, <2>6, <2>9 DEF Alone
  <2>11. Watching'
    <3>1. CASE reaper.kind = k BY <1>0, <1>1, <2>1, <2>2, <2>4, <2>6, <3>1 DEF Watching, watches
    <3>2. CASE reaper.kind # k BY <1>0, <1>1, <2>6, <3>2 DEF Watching, watches
    <3> QED BY <3>1, <3>2
  <2> QED BY <1>2, <1>3, <2>7, <2>8, <2>10, <2>11
<1> QED BY <1>4, <1>5

\* A launch in flight whose record is lost: one more is allowed for.
LEMMA RecordLost ==
  ASSUME IInv, UNCHANGED <<attempts, spawned>>, pass'.pc = "idle",
         NEW g \in {"crash", "unrecorded"}, g \notin gestures, gestures' = gestures \cup {g}
  PROVE  Counted'
<1> USE DEF IInv
<1> SUFFICES ASSUME NEW q \in Pulls, NEW j \in Bounded
             PROVE  /\ attempts[q][j] + burning(q, j)' <= spawned[q][j]
                    /\ spawned[q][j] <= attempts[q][j] + burning(q, j)' + lost'
                    /\ spawned[q][j] <= Limit(j) + lost'
  BY DEF Counted, Limit
<1>1. /\ attempts[q][j] + burning(q, j) <= spawned[q][j]
      /\ spawned[q][j] <= attempts[q][j] + burning(q, j) + lost
      /\ spawned[q][j] <= Limit(j) + lost
  BY DEF Counted
<1>2. lost \in 0..1 /\ lost' = lost + 1 BY DEF lost
<1>3. burning(q, j) \in {0, 1} /\ burning(q, j)' = 0 BY DEF burning
<1>4. attempts[q][j] \in Nat /\ spawned[q][j] \in Nat /\ Limit(j) \in Nat
  BY BoundAbove DEF Typed
<1> QED BY <1>1, <1>2, <1>3, <1>4

LEMMA BurnKeeps == ASSUME IInv, PassBurn PROVE IInv'
<1> USE DEF IInv
<1> DEFINE p == pass.pull
           k == pass.action
<1>1. /\ pass.pc = "burn" /\ pass' = idlePass /\ attempts' = [attempts EXCEPT ![p][k] = @ + 1]
      /\ UNCHANGED <<pull, rearms, escalated, run, reaper, gestures, spawned>>
  BY DEF PassBurn
<1>2. p \in Pulls /\ k \in Bounded BY <1>1 DEF Deciding
<1>3. attempts \in [Pulls -> [Bounded -> Nat]] /\ spawned \in [Pulls -> [Bounded -> Nat]]
  BY DEF Typed
<1>4. attempts' \in [Pulls -> [Bounded -> Nat]]
  <2> HIDE DEF p, k
  <2> QED BY <1>1, <1>2, <1>3
<1>5. pass' \in Pass /\ pass'.pc = "idle" BY <1>1, Known DEF idlePass
<1>6. Typed' BY <1>1, <1>4, <1>5 DEF Typed
<1>7. (Moved /\ Rows /\ Watching /\ Alone /\ Deciding /\ Spent)'
  BY <1>1, <1>5 DEF Moved, Rows, Watching, watches, Alone, Deciding, Spent
<1>8. Counted'
  <2> SUFFICES ASSUME NEW q \in Pulls, NEW j \in Bounded
               PROVE  /\ attempts'[q][j] + burning(q, j)' <= spawned[q][j]
                      /\ spawned[q][j] <= attempts'[q][j] + burning(q, j)' + lost
                      /\ spawned[q][j] <= Limit(j) + lost
    BY <1>1, <1>5 DEF Counted, lost, Limit
  <2>1. /\ attempts[q][j] + burning(q, j) <= spawned[q][j]
        /\ spawned[q][j] <= attempts[q][j] + burning(q, j) + lost
        /\ spawned[q][j] <= Limit(j) + lost
    BY DEF Counted
  <2>2. burning(q, j)' = 0 BY <1>5 DEF burning
  <2>3. burning(q, j) = IF q = p /\ j = k THEN 1 ELSE 0 BY <1>1 DEF burning
  <2> HIDE DEF p, k
  <2>4. attempts'[q][j] = attempts[q][j] + (IF q = p /\ j = k THEN 1 ELSE 0)
    BY <1>1, <1>2, <1>3
  <2>5. attempts[q][j] \in Nat /\ spawned[q][j] \in Nat BY <1>3
  <2> QED BY <2>1, <2>2, <2>3, <2>4, <2>5, LostOnce
<1> QED BY <1>6, <1>7, <1>8

\* A record that cannot be written is a record less than there were launches.
LEMMA BurnFailsKeeps == ASSUME IInv, PassBurnFails PROVE IInv'
<1> USE DEF IInv
<1>1. /\ pass.pc = "burn" /\ pass' = idlePass
      /\ UNCHANGED <<pull, attempts, rearms, escalated, run, reaper, spawned>>
  BY DEF PassBurnFails
<1>2. /\ "unrecorded" \notin gestures /\ gestures' = gestures \cup {"unrecorded"}
      /\ gestures' \subseteq AllGestures
  BY Gestured DEF PassBurnFails
<1>3. pass' \in Pass /\ pass'.pc = "idle" BY <1>1, Known DEF idlePass
<1>4. Typed' BY <1>1, <1>2, <1>3 DEF Typed
<1>5. (Moved /\ Rows /\ Watching /\ Alone /\ Deciding /\ Spent)'
  BY <1>1, <1>2, <1>3 DEF Moved, Rows, Watching, watches, Alone, Deciding, Spent
<1>6. Counted' BY <1>1, <1>2, <1>3, RecordLost
<1> QED BY <1>4, <1>5, <1>6

\* A run that ends leaves the others as they are.
LEMMA RunEnds ==
  ASSUME IInv, NEW k \in Kinds, run' = [run EXCEPT ![k] = NoRun],
         UNCHANGED <<pull, attempts, rearms, pass, spawned>>,
         gestures \subseteq gestures', gestures' \subseteq AllGestures,
         \A g \in {"crash", "unrecorded"} : g \in gestures' <=> g \in gestures
  PROVE  /\ run' \in [Kinds -> Row] /\ ~active(k)'
         /\ \A j \in Kinds : j # k => run'[j] = run[j]
         /\ Rows' /\ Alone' /\ Counted' /\ Spent'
<1> USE DEF IInv
<1>1. run \in [Kinds -> Row] BY DEF Typed
<1>2. NoRun \in Row /\ NoRun.pull = 0 /\ NoRun.id = {} BY DEF NoRun
<1>3. /\ run' \in [Kinds -> Row] /\ run'[k] = NoRun
      /\ \A j \in Kinds : j # k => run'[j] = run[j]
  BY <1>1, <1>2
<1>4. Rows' BY <1>2, <1>3 DEF Rows
<1>5. Alone' BY <1>2, <1>3 DEF Alone
<1>6. Counted'
  <2>1. lost' = lost BY DEF lost
  <2> QED BY <2>1 DEF Counted, burning, Limit
<1>7. Spent' BY DEF Spent
<1> QED BY <1>2, <1>3, <1>4, <1>5, <1>6, <1>7

LEMMA StopKeeps == ASSUME IInv, NEW k \in Kinds, StopAFK(k) PROVE IInv'
<1> USE DEF IInv
<1>1. /\ run' = [run EXCEPT ![k] = NoRun]
      /\ UNCHANGED <<pull, attempts, rearms, escalated, pass, reaper, spawned>>
  BY DEF StopAFK
<1>2. "stop" \notin gestures /\ gestures' = gestures \cup {"stop"} /\ gestures' \subseteq AllGestures
  BY Gestured DEF StopAFK
<1>3. /\ run' \in [Kinds -> Row] /\ ~active(k)'
      /\ \A j \in Kinds : j # k => run'[j] = run[j]
      /\ Rows' /\ Alone' /\ Counted' /\ Spent'
  BY <1>1, <1>2, RunEnds
<1>4. Typed' BY <1>1, <1>2, <1>3 DEF Typed
<1>5. Moved' /\ Deciding' BY <1>1, <1>2 DEF Moved, Deciding
<1>6. Watching'
  <2>1. reaper.kind \in Kinds BY DEF Typed
  <2>2. "stop" \in gestures' \ reaper.id BY <1>2 DEF Watching
  <2> QED BY <1>1, <1>2, <1>3, <2>1, <2>2 DEF Watching, watches
<1> QED BY <1>3, <1>4, <1>5, <1>6

LEMMA ClaimKeeps == ASSUME IInv, ReapClaim PROVE IInv'
<1> USE DEF IInv
<1>0. PICK k \in Kinds : reaper.kind = k BY DEF Typed
<1> DEFINE p == run[k].pull
<1>1. PICK outcome \in claimable :
        /\ run' = [run EXCEPT ![k] = NoRun]
        /\ escalated' = IF outcome = "escalated" /\ reaper.at > escalated[p]
                        THEN [escalated EXCEPT ![p] = reaper.at] ELSE escalated
  BY <1>0 DEF ReapClaim
<1>2. /\ reaper.pc = "claim" /\ active(k) /\ run[k].id = reaper.id /\ reaper' = idleReaper
      /\ UNCHANGED <<pull, attempts, rearms, pass, gestures, spawned>>
  BY <1>0 DEF ReapClaim
<1>3. /\ k \in Kinds /\ run \in [Kinds -> Row] /\ gestures \subseteq AllGestures
      /\ escalated \in [Pulls -> {Never} \cup Moments] /\ rearms \in [Pulls -> Moments]
      /\ reaper.at \in Moments
  BY DEF Typed
<1>4. p \in Pulls BY <1>2, <1>3
<1>5. /\ run' \in [Kinds -> Row] /\ ~active(k)'
      /\ \A j \in Kinds : j # k => run'[j] = run[j]
      /\ Rows' /\ Alone' /\ Counted' /\ Spent'
  BY <1>1, <1>2, <1>3, RunEnds
<1>6. reaper.at <= rearms[p] BY <1>0, <1>2 DEF Watching, watches
<1>7. reaper' \in Reap /\ reaper'.pc = "idle" /\ reaper'.id = {} /\ reaper'.marker = FALSE
  BY <1>2 DEF idleReaper
<1> HIDE DEF p
<1>8. escalated' \in [Pulls -> {Never} \cup Moments] BY <1>1, <1>3, <1>4
<1>9. Typed' BY <1>2, <1>5, <1>7, <1>8 DEF Typed
<1>10. Moved' BY <1>1, <1>2, <1>3, <1>4, <1>6 DEF Moved
<1>11. Watching' BY <1>7 DEF Watching
<1>12. Deciding'
  <2>1. CASE escalated' = escalated BY <1>2, <2>1 DEF Deciding
  <2>2. CASE escalated' # escalated
    <3>1. outcome = "escalated" BY <1>1, <2>2
    <3>2. reaper.marker BY <3>1 DEF claimable
    <3>3. k \in Landing BY <1>0, <3>2 DEF Watching
    <3>4. pass.pc \notin {"decide", "launch"} BY <1>2, <3>3 DEF Alone
    <3> QED BY <1>2, <3>4 DEF Deciding
  <2> QED BY <2>1, <2>2
<1> QED BY <1>5, <1>9, <1>10, <1>11, <1>12

LEMMA RequeueKeeps == ASSUME IInv, NEW p \in Pulls, Requeue(p) PROVE IInv'
<1> USE DEF IInv
<1>1. /\ p + 1 \in Pulls /\ ~ActiveRunOnBranch /\ run' = [run EXCEPT !["author"] = newRun(p + 1)]
      /\ UNCHANGED <<pull, attempts, rearms, escalated, pass, reaper, spawned>>
  BY DEF Requeue
<1>2. /\ "requeue" \notin gestures /\ gestures' = gestures \cup {"requeue"}
      /\ gestures' \subseteq AllGestures
  BY Gestured DEF Requeue
<1>3. run \in [Kinds -> Row] /\ gestures \subseteq AllGestures /\ reaper.kind \in Kinds BY DEF Typed
<1>4. \A k \in Kinds : ~active(k) BY <1>1 DEF ActiveRunOnBranch
<1>5. /\ newRun(p + 1) \in Row /\ newRun(p + 1).id = gestures
  BY <1>1, <1>3, NewRow
<1>6. /\ run' \in [Kinds -> Row] /\ run'["author"].id = gestures
      /\ \A k \in Kinds \ {"author"} : run'[k] = run[k]
  BY <1>1, <1>3, <1>5
<1>7. Typed' BY <1>1, <1>2, <1>6 DEF Typed
<1>8. (Moved /\ Deciding /\ Spent)' BY <1>1, <1>2 DEF Moved, Deciding, Spent
<1>9. Rows' BY <1>1, <1>2, <1>6 DEF Rows
<1>10. Alone' BY <1>1, <1>6 DEF Alone
<1>11. Watching'
  <2>1. ~watches BY <1>3, <1>4 DEF watches
  <2>2. reaper.pc # "idle" => "stop" \in gestures \ reaper.id BY <2>1 DEF Watching
  <2>3. reaper.pc # "idle" => ~watches' BY <1>1, <1>3, <1>4, <1>6, <2>2 DEF watches
  <2> QED BY <1>1, <1>2, <2>2, <2>3 DEF Watching
<1>12. Counted'
  <2>1. lost' = lost BY <1>2 DEF lost
  <2> QED BY <1>1, <2>1 DEF Counted, burning, Limit
<1> QED BY <1>7, <1>8, <1>9, <1>10, <1>11, <1>12

LEMMA RestartKeeps == ASSUME IInv, Restart PROVE IInv'
<1> USE DEF IInv
<1>1. /\ pass' = idlePass /\ reaper' = idleReaper
      /\ UNCHANGED <<pull, attempts, rearms, escalated, run, spawned>>
  BY DEF Restart
<1>2. /\ "crash" \notin gestures /\ gestures' = gestures \cup {"crash"}
      /\ gestures' \subseteq AllGestures
  BY Gestured DEF Restart
<1>3. /\ pass' \in Pass /\ pass'.pc = "idle" /\ reaper' \in Reap /\ reaper'.pc = "idle"
      /\ reaper'.id = {} /\ reaper'.marker = FALSE
  BY <1>1, Known DEF idlePass, idleReaper
<1>4. Typed' BY <1>1, <1>2, <1>3 DEF Typed
<1>5. (Moved /\ Rows /\ Watching /\ Alone /\ Deciding /\ Spent)'
  BY <1>1, <1>2, <1>3 DEF Moved, Rows, Watching, Alone, Deciding, Spent
<1>6. Counted' BY <1>1, <1>2, <1>3, RecordLost
<1> QED BY <1>4, <1>5, <1>6

LEMMA RearmKeeps == ASSUME IInv, NEW p \in Pulls, HumanRearms(p) PROVE IInv'
<1> USE DEF IInv
<1> DEFINE zero == [k \in Bounded |-> 0]
           begun == [k \in Bounded |->
                       IF pass.pc = "burn" /\ pass.pull = p /\ pass.action = k THEN 1 ELSE 0]
<1>1. /\ rearms' = [rearms EXCEPT ![p] = @ + 1] /\ attempts' = [attempts EXCEPT ![p] = zero]
      /\ spawned' = [spawned EXCEPT ![p] = begun] /\ pull[p].state = "open"
      /\ UNCHANGED <<pull, escalated, run, pass, reaper>>
  BY DEF HumanRearms, RearmPull
<1>2. /\ "rearm" \notin gestures /\ gestures' = gestures \cup {"rearm"}
      /\ gestures' \subseteq AllGestures
  BY Gestured DEF HumanRearms
<1>3. /\ attempts \in [Pulls -> [Bounded -> Nat]] /\ spawned \in [Pulls -> [Bounded -> Nat]]
      /\ rearms \in [Pulls -> Moments] /\ escalated \in [Pulls -> {Never} \cup Moments]
      /\ pass \in Pass /\ reaper \in Reap /\ run \in [Kinds -> Row]
  BY DEF Typed
<1>4. zero \in [Bounded -> Nat] /\ begun \in [Bounded -> Nat] OBVIOUS
<1>5. rearms[p] = 0 BY <1>2, <1>3 DEF Moved
<1>6. rearms'[p] = 1 /\ \A q \in Pulls : q # p => rearms'[q] = rearms[q]
  BY <1>1, <1>3, <1>5
<1>7. \A q \in Pulls : rearms[q] \in 0..1 /\ rearms'[q] \in 0..1 /\ rearms[q] <= rearms'[q]
  <2> TAKE q \in Pulls
  <2>1. rearms[q] \in 0..1 BY <1>3
  <2>2. CASE q = p BY <1>5, <1>6, <2>2
  <2>3. CASE q # p
    <3>1. rearms'[q] = rearms[q] BY <1>6, <2>3
    <3> QED BY <2>1, <3>1
  <2> QED BY <2>2, <2>3
<1> HIDE DEF zero, begun
<1>8. /\ attempts' \in [Pulls -> [Bounded -> Nat]] /\ spawned' \in [Pulls -> [Bounded -> Nat]]
      /\ rearms' \in [Pulls -> Moments]
  BY <1>1, <1>3, <1>4, <1>5, <1>6
<1>9. Typed' BY <1>1, <1>2, <1>8 DEF Typed
<1>10. Moved' BY <1>1, <1>2, <1>3, <1>6 DEF Moved
<1>11. (Rows /\ Alone)' BY <1>1, <1>2 DEF Rows, Alone
<1>12. Watching'
  <2>1. reaper.pc # "idle" /\ watches => run[reaper.kind].pull \in Pulls
    BY <1>3 DEF watches
  <2>2. reaper.pc # "idle" /\ watches => reaper.at <= rearms[run[reaper.kind].pull]
    BY DEF Watching
  <2>3. reaper.at \in 0..1 BY <1>3
  <2>4. reaper.pc # "idle" /\ watches => reaper.at <= rearms'[run[reaper.kind].pull]
    BY <2>1, <2>2, <2>3, <1>6, <1>7
  <2> QED BY <1>1, <1>2, <2>4 DEF Watching, watches
<1>13. Deciding'
  <2>1. pass.pc # "idle" => pass.pull \in Pulls BY DEF Deciding
  <2>2. pass.pc \in {"decide", "launch"} => pass.since <= rearms'[pass.pull]
    <3>1. pass.since \in 0..1 BY <1>3
    <3>2. pass.pc \in {"decide", "launch"} => pass.since <= rearms[pass.pull] BY DEF Deciding
    <3> QED BY <1>7, <2>1, <3>1, <3>2
  <2>3. pass.pc = "launch" => escalated[pass.pull] < rearms'[pass.pull]
    <3>1. pass.pc = "launch" => escalated[pass.pull] < rearms[pass.pull] BY DEF Deciding
    <3>2. pass.pc = "launch" => escalated[pass.pull] \in -1..1 BY <1>3, <2>1
    <3> QED BY <1>7, <2>1, <3>1, <3>2
  <2> QED BY <1>1, <2>2, <2>3 DEF Deciding
<1>14. Counted'
  <2> SUFFICES ASSUME NEW q \in Pulls, NEW j \in Bounded
               PROVE  /\ attempts'[q][j] + burning(q, j) <= spawned'[q][j]
                      /\ spawned'[q][j] <= attempts'[q][j] + burning(q, j) + lost
                      /\ spawned'[q][j] <= Limit(j) + lost
                      /\ (pass.pc \in {"launch", "burn"} /\ pass.pull = q /\ pass.action = j)
                           => attempts'[q][j] < Limit(j)
    BY <1>1, <1>2 DEF Counted, lost, Limit, burning
  <2>1. /\ attempts[q][j] + burning(q, j) <= spawned[q][j]
        /\ spawned[q][j] <= attempts[q][j] + burning(q, j) + lost
        /\ spawned[q][j] <= Limit(j) + lost
        /\ (pass.pc \in {"launch", "burn"} /\ pass.pull = q /\ pass.action = j)
             => attempts[q][j] < Limit(j)
    BY DEF Counted
  <2>2. CASE q # p BY <1>1, <1>3, <2>1, <2>2
  <2>3. CASE q = p
    <3>1. attempts'[p] = zero /\ spawned'[p] = begun BY <1>1, <1>3
    <3>2. attempts'[q][j] = 0 BY <2>3, <3>1 DEF zero
    <3>3. spawned'[q][j] = burning(q, j) BY <2>3, <3>1 DEF begun, burning
    <3>4. burning(q, j) \in {0, 1} BY DEF burning
    <3>5. attempts[q][j] \in Nat /\ Limit(j) \in Nat BY <1>3, BoundAbove
    <3>6. burning(q, j) = 1 => attempts[q][j] < Limit(j) BY <2>1 DEF burning
    <3> QED BY <2>1, <3>2, <3>3, <3>4, <3>5, <3>6, LostOnce
  <2> QED BY <2>2, <2>3
<1>15. Spent'
  <2>1. CASE pass.pc = "launch" /\ pass.action = "escalate" /\ pass.since = rearms'[pass.pull]
    <3>1. pass.pull \in Pulls /\ pass.since <= rearms[pass.pull] BY <2>1 DEF Deciding
    <3>2. pass.pull # p BY <1>3, <1>5, <1>6, <2>1, <3>1
    <3>3. rearms'[pass.pull] = rearms[pass.pull] /\ attempts'[pass.pull] = attempts[pass.pull]
      BY <1>1, <1>3, <1>6, <3>1, <3>2
    <3> QED BY <1>1, <2>1, <3>3 DEF Spent
  <2>2. CASE ~(pass.pc = "launch" /\ pass.action = "escalate" /\ pass.since = rearms'[pass.pull])
    BY <1>1, <2>2 DEF Spent
  <2> QED BY <2>1, <2>2
<1> QED BY <1>9, <1>10, <1>11, <1>12, <1>13, <1>14, <1>15

\* Only the pass launches a run of autoland, and only what it decided.
LEMMA Launching ==
  ASSUME IInv, [Next]_vars, NEW k \in Landing, launches(k)
  PROVE  /\ PassLaunch /\ pass.pc = "launch" /\ k = pass.action /\ run'[k].pull = pass.pull
         /\ pass.pull \in Pulls
<1> USE DEF IInv, launches
<1>1. run \in [Kinds -> Row] BY DEF Typed
<1>2. k \in Kinds /\ run[k].pull = 0 /\ run'[k].pull # 0 OBVIOUS
<1>3. CASE PassLaunch
  <2>1. /\ run' = [run EXCEPT ![pass.action] = [newRun(pass.pull) EXCEPT !.approveOnly = pass.approveOnly]]
        /\ pass.pc = "launch"
    BY <1>3 DEF PassLaunch
  <2>2. pass.action \in Kinds /\ pass.pull \in Pulls BY <2>1 DEF Deciding
  <2>3. newRun(pass.pull) \in Row /\ newRun(pass.pull).pull = pass.pull
    BY <2>2, NewRow DEF Typed
  <2> DEFINE a == pass.action
             r == [newRun(pass.pull) EXCEPT !.approveOnly = pass.approveOnly]
  <2>4. r.pull = pass.pull BY <2>3
  <2> HIDE DEF a, r
  <2>5. run' = [run EXCEPT ![a] = r] BY <2>1 DEF a, r
  <2>6. k = a BY <1>1, <1>2, <2>5, <2>2 DEF a
  <2> QED BY <1>1, <1>2, <1>3, <2>1, <2>2, <2>4, <2>5, <2>6 DEF a
<1>4. CASE run' = run BY <1>2, <1>4
<1>5. ASSUME NEW j \in Kinds, run' = [run EXCEPT ![j] = NoRun] PROVE FALSE
  BY <1>1, <1>2, <1>5 DEF NoRun
<1>6. ASSUME NEW j \in Kinds, run' = [run EXCEPT ![j].posted = TRUE] PROVE FALSE
  BY <1>1, <1>2, <1>6
<1>7. ASSUME NEW p \in Pulls, Requeue(p) PROVE FALSE
  <2>1. run' = [run EXCEPT !["author"] = newRun(p + 1)] BY <1>7 DEF Requeue
  <2>2. k # "author" OBVIOUS
  <2> QED BY <1>1, <1>2, <2>1, <2>2
<1>8. CASE PassNext
  BY <1>3, <1>4, <1>8 DEF PassNext, PassStep, PassRead, PassBranch, PassDecide, PassBurn,
    PassBurnFails, PassGivesUp, PassLaunchFails, PassSkip
<1>9. CASE ReapNext
  <2>1. ASSUME ReapClaim PROVE FALSE
    <3>1. PICK j \in Kinds : reaper.kind = j BY DEF Typed
    <3> QED BY <1>5, <2>1, <3>1 DEF ReapClaim
  <2> QED BY <1>4, <1>9, <2>1 DEF ReapNext, ReapStart, ReapRead, ReapUnreadable, ReapSkip
<1>10. CASE SessionNext
  BY <1>6, <1>10 DEF SessionNext, OpenPull, LanderMerges, Post
<1>11. CASE WorldNext
  BY <1>4, <1>5, <1>7, <1>11 DEF WorldNext, Restart, StopAFK, HumanOnForge, HumanRearms
<1>12. CASE UNCHANGED vars BY <1>4, <1>12 DEF vars
<1> QED BY <1>8, <1>9, <1>10, <1>11, <1>12 DEF Next

LEMMA StepKeeps == IInv /\ [Next]_vars => IInv'
<1> SUFFICES ASSUME IInv, [Next]_vars PROVE IInv' OBVIOUS
<1>1. CASE PassNext
  BY <1>1, PassKeeps, LaunchKeeps, BurnKeeps, BurnFailsKeeps DEF PassNext, PassStep
<1>2. CASE ReapNext BY <1>2, ReaperKeeps, ClaimKeeps DEF ReapNext
<1>3. CASE SessionNext BY <1>3, ForgeKeeps DEF SessionNext
<1>4. CASE WorldNext
  BY <1>4, ForgeKeeps, RearmKeeps, StopKeeps, RequeueKeeps, RestartKeeps DEF WorldNext
<1>5. CASE UNCHANGED vars
  <2> USE DEF vars, IInv
  <2>1. (Typed /\ Moved /\ Rows)' BY <1>5 DEF Typed, Moved, Rows
  <2>4. (Watching /\ Alone)' BY <1>5 DEF Watching, watches, Alone
  <2>5. (Deciding /\ Spent)' BY <1>5 DEF Deciding, Spent
  <2>2. lost' = lost BY <1>5 DEF vars, lost
  <2>3. Counted' BY <1>5, <2>2 DEF vars, IInv, Counted, burning, Limit
  <2> QED BY <2>1, <2>3, <2>4, <2>5
<1> QED BY <1>1, <1>2, <1>3, <1>4, <1>5 DEF Next

\* The inductive invariant holds of every state.
THEOREM AutolandInvariant == Spec => []IInv
<1>1. Init => IInv BY InitKeeps
<1>2. IInv /\ [Next]_vars => IInv' BY StepKeeps
<1> QED BY <1>1, <1>2, PTL DEF Spec

LEMMA Invariants == IInv => OneWriter /\ AttemptsBounded
<1> SUFFICES ASSUME IInv PROVE OneWriter /\ AttemptsBounded OBVIOUS
<1> USE DEF IInv
<1>1. /\ pull \in [Pulls -> Forge] /\ run \in [Kinds -> Row] /\ pass \in Pass /\ reaper \in Reap
      /\ gestures \subseteq AllGestures
  BY DEF Typed
<1>2. TypeOK
  <2>1. ASSUME NEW p \in Pulls
        PROVE  /\ pull[p].state \in {"none", "open", "merged", "closed"}
               /\ \A i \in DOMAIN pull[p].thread : pull[p].thread[i] \in Comments
               /\ escalated[p] \in {Never} \cup 0..rearms[p]
    <3>1. pull[p] \in Forge BY <1>1
    <3>2. pull[p].thread \in Seq(Comments) BY <3>1
    <3>3. \A i \in DOMAIN pull[p].thread : pull[p].thread[i] \in Comments BY <3>2
    <3> QED BY <3>1, <3>3 DEF Moved
  <2>2. \A k \in Kinds : run[k].pull \in {0} \cup Pulls /\ run[k].id \subseteq gestures
    BY <1>1 DEF Rows
  <2>3. \A k \in Kinds : active(k) => pull[run[k].pull].state # "none" \/ k = "author"
    BY DEF Rows
  <2>4. pass.action \in Kinds \cup {"none"} /\ (pass.pc = "burn" => pass.action \in Bounded)
    BY <1>1 DEF Deciding
  <2>5. reaper.id \subseteq gestures /\ reaper.at \in Moments BY <1>1 DEF Watching
  <2> QED BY <1>1, <2>1, <2>2, <2>3, <2>4, <2>5 DEF TypeOK
<1>3. Cardinality({k \in Kinds \ {"author"} : active(k)}) <= 1
  <2> DEFINE W == {k \in Kinds \ {"author"} : active(k)}
  <2>1. \A j, k \in W : j = k BY DEF Alone
  <2>2. CASE W = {} BY <2>2, FS_EmptySet
  <2>3. CASE W # {}
    <3>1. PICK k \in W : TRUE BY <2>3
    <3>2. W = {k} BY <2>1, <3>1
    <3>3. Cardinality(W) = 1
      <4> HIDE DEF W
      <4> QED BY <3>2, FS_Singleton
    <3> QED BY <3>3
  <2> QED BY <2>2, <2>3
<1>4. AttemptsBounded BY DEF AttemptsBounded, Counted, Limit
<1> QED BY <1>2, <1>3, <1>4 DEF OneWriter

\* One writer of markers per branch (ActiveRunOnBranch), with the types.
THEOREM OneWriterCorrect == Spec => []OneWriter
BY AutolandInvariant, Invariants, PTL

\* The bounds are on intents (RecordAutolandAttempt).
THEOREM AttemptsBoundedCorrect == Spec => []AttemptsBounded
BY AutolandInvariant, Invariants, PTL

\* What was found not to be terminal is not terminal at the launch.
THEOREM EscalationStandsCorrect == Spec => EscalationStands
<1> DEFINE Stands == \A k \in Kinds \ {"author"} : launches(k) =>
                       escalated[run'[k].pull] < rearms[run'[k].pull]
<1>1. IInv /\ [Next]_vars => [Stands]_vars
  <2> SUFFICES ASSUME IInv, [Next]_vars, NEW k \in Landing, launches(k)
               PROVE  escalated[run'[k].pull] < rearms[run'[k].pull]
    OBVIOUS
  <2> QED BY Launching DEF IInv, Deciding
<1> QED BY <1>1, AutolandInvariant, PTL DEF Spec, EscalationStands

\* The hand-off comes after the repairs of the last re-arm.
THEOREM HandOffLastCorrect == Spec => HandOffLast
<1> DEFINE After == launches("escalate") /\ pass.since = rearms[pass.pull] =>
                      spawned[pass.pull]["fix"] >= MaxFixAttempts
<1>1. IInv /\ [Next]_vars => [After]_vars
  <2> SUFFICES ASSUME IInv, [Next]_vars, launches("escalate"), pass.since = rearms[pass.pull]
               PROVE  spawned[pass.pull]["fix"] >= MaxFixAttempts
    OBVIOUS
  <2> DEFINE p == pass.pull
  <2>1. pass.pc = "launch" /\ pass.action = "escalate" /\ p \in Pulls BY Launching
  <2>2. attempts[p]["fix"] >= MaxFixAttempts BY <2>1 DEF IInv, Spent
  <2>3. attempts[p]["fix"] + burning(p, "fix") <= spawned[p]["fix"] BY <2>1 DEF IInv, Counted
  <2>4. burning(p, "fix") = 0 BY <2>1 DEF burning
  <2>5. attempts[p]["fix"] \in Nat /\ spawned[p]["fix"] \in Nat BY <2>1 DEF IInv, Typed
  <2> HIDE DEF p
  <2>6. spawned[p]["fix"] >= MaxFixAttempts BY <2>2, <2>3, <2>4, <2>5, Known
  <2> QED BY <2>6 DEF p
<1> QED BY <1>1, AutolandInvariant, PTL DEF Spec, HandOffLast
===============================================================================
