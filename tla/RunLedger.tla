------------------------------ MODULE RunLedger -----------------------------
(***************************************************************************)
(* What lab promises about the runs of one repository, whoever ends them:  *)
(*                                                                         *)
(*   - unattended (AFK) launches are serialised, and at most one auto run  *)
(*     is launching or active;                                             *)
(*   - a row appears only while its launch is in flight, ends once, and    *)
(*     never changes after that unless its own launch takes it back;       *)
(*   - lab itself never ends an unattended run before its launch returned, *)
(*     only an operator's Stop does; a crash may lose any active run, but  *)
(*     loses no finished one.                                              *)
(*                                                                         *)
(* There are no sessions, branches, threads or locks here: Lab implements  *)
(* this specification with them.                                           *)
(***************************************************************************)
EXTENDS Naturals

CONSTANTS Runs

VARIABLES
  kind,       \* what the run was admitted as, "none" before
  ledger,     \* outcome of the row, "none" while there is no row
  launching   \* runs whose launch has not returned

ledgerVars == <<kind, ledger, launching>>

Unattended == {"afk_manual", "afk_auto"}
Ended == {"success", "death", "timeout", "stopped"}

LedgerTypeOK ==
  /\ kind \in [Runs -> {"none", "manual"} \cup Unattended]
  /\ ledger \in [Runs -> {"none", "active"} \cup Ended]
  /\ launching \subseteq Runs

LedgerInit ==
  /\ kind = [r \in Runs |-> "none"]
  /\ ledger = [r \in Runs |-> "none"]
  /\ launching = {}

AutoRuns == {r \in Runs : kind[r] = "afk_auto" /\ (ledger[r] = "active" \/ r \in launching)}

Admit(r, k) ==
  /\ kind[r] = "none"
  /\ k \in Unattended => \A s \in launching : kind[s] \notin Unattended
  /\ k = "afk_auto" => AutoRuns = {}
  /\ kind' = [kind EXCEPT ![r] = k]
  /\ launching' = launching \cup {r}
  /\ ledger' = ledger

Record(r) ==
  /\ r \in launching
  /\ ledger[r] = "none"
  /\ ledger' = [ledger EXCEPT ![r] = "active"]
  /\ UNCHANGED <<kind, launching>>

Return(r) ==
  /\ r \in launching
  /\ launching' = launching \ {r}
  /\ UNCHANGED <<kind, ledger>>

\* A launch that rolls back takes its row with it, whatever became of it.
Forget(r) ==
  /\ r \in launching
  /\ ledger' = [ledger EXCEPT ![r] = "none"]
  /\ launching' = launching \ {r}
  /\ kind' = kind

End(r, o) ==
  /\ ledger[r] = "active"
  /\ kind[r] \in Unattended /\ o # "stopped" => r \notin launching
  /\ ledger' = [ledger EXCEPT ![r] = o]
  /\ UNCHANGED <<kind, launching>>

\* The lab process dies: no launch survives it, and the runs whose session
\* is gone when it comes back are dead.
Crash ==
  /\ launching' = {}
  /\ \E lost \in SUBSET {r \in Runs : ledger[r] = "active"} :
       ledger' = [r \in Runs |-> IF r \in lost THEN "death" ELSE ledger[r]]
  /\ kind' = kind

LedgerNext ==
  \/ \E r \in Runs :
       \/ \E k \in {"manual"} \cup Unattended : Admit(r, k)
       \/ Record(r) \/ Return(r) \/ Forget(r)
       \/ \E o \in Ended : End(r, o)
  \/ Crash

LedgerSpec == LedgerInit /\ [][LedgerNext]_ledgerVars
=============================================================================
