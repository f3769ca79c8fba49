--------------------------- MODULE EscalationGate ---------------------------
(***************************************************************************)
(* What the escalation log promises a reader of the log alone: for every   *)
(* recommendation a record that is written once, decided at most once and  *)
(* by a named person, and carried out only if that decision approved it.   *)
(* Nothing is ever withdrawn, edited or skipped                            *)
(* (escalation.py:1-16, recommendation_store.py:1-8).                      *)
(***************************************************************************)
EXTENDS Naturals

CONSTANTS Contents, People

VARIABLE ledger         \* recommendation id -> what the log says of it

Written(id) ==
  /\ DOMAIN ledger' = DOMAIN ledger \cup {id}
  /\ \A x \in DOMAIN ledger \ {id} : ledger'[x] = ledger[x]

Fresh(c) == [content |-> c, status |-> "pending", decided_by |-> "",
             decided_at |-> 0, executed |-> FALSE, executed_at |-> 0]

Init == ledger = <<>>

Propose(id) ==
  /\ id \notin DOMAIN ledger
  /\ Written(id)
  /\ \E c \in Contents : ledger'[id] = Fresh(c)

Decide(id) ==
  /\ id \in DOMAIN ledger
  /\ ledger[id].status = "pending"
  /\ Written(id)
  /\ ledger'[id].decided_at > 0
  /\ \E p \in People, s \in {"approved", "rejected"} :
       ledger'[id] = [ledger[id] EXCEPT !.status = s, !.decided_by = p,
                        !.decided_at = ledger'[id].decided_at]

\* Carrying out may be reported again, with a later time.
Execute(id) ==
  /\ id \in DOMAIN ledger
  /\ ledger[id].status = "approved"
  /\ Written(id)
  /\ ledger'[id].executed_at > ledger[id].executed_at
  /\ ledger'[id].executed_at > ledger[id].decided_at
  /\ ledger'[id] = [ledger[id] EXCEPT !.executed = TRUE,
                       !.executed_at = ledger'[id].executed_at]

Next == \E id \in DOMAIN ledger' : Propose(id) \/ Decide(id) \/ Execute(id)

Spec == Init /\ [][Next]_ledger
=============================================================================
