----------------------------- MODULE CaseLedger -----------------------------
(***************************************************************************)
(* What the case store promises its readers: a case is written once, with  *)
(* the record taken at alert time, and only its disposition ever changes   *)
(* (cases/store.py:1-12, cases/case.py:1-8).                               *)
(***************************************************************************)
EXTENDS Naturals

CONSTANTS Snapshots,    \* alert-time records
          NoDisposition \* the disposition a case is opened with

VARIABLE ledger         \* case id -> [snapshot, disposition]

OthersUnchanged(id) ==
  /\ DOMAIN ledger' = DOMAIN ledger \cup {id}
  /\ \A x \in DOMAIN ledger \ {id} : ledger'[x] = ledger[x]

Init == ledger = <<>>

Open(id) ==
  /\ id \notin DOMAIN ledger
  /\ OthersUnchanged(id)
  /\ ledger'[id].snapshot \in Snapshots
  /\ ledger'[id].disposition = NoDisposition

\* A verdict is about the record the case was opened with.
Dispose(id) ==
  /\ id \in DOMAIN ledger
  /\ OthersUnchanged(id)
  /\ ledger'[id].snapshot = ledger[id].snapshot
  /\ ledger'[id].disposition.of = ledger[id].snapshot

Next == \E id \in DOMAIN ledger' : Open(id) \/ Dispose(id)

Spec == Init /\ [][Next]_ledger
=============================================================================
