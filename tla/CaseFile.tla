------------------------------ MODULE CaseFile ------------------------------
(***************************************************************************)
(* The case file (src/sentinel/cases/evidence.py), the template that       *)
(* writes a report from a case file (narrative/str_narrative.py) and the   *)
(* two scripts that measure the verifier and the template.  Pure           *)
(* definitions: Drafting is the server that uses them.                     *)
(*                                                                         *)
(* Abstracted: texts, as in Citation; a row of the compiled stream is its  *)
(* time and its two accounts.                                              *)
(***************************************************************************)
EXTENDS Citation, Integers, Sequences, FiniteSetsExt

CONSTANTS
  Window,          \* WINDOW_MINUTES
  EvidenceShown,   \* transactions cited per member in WHO (3)
  HeadShown,       \* transactions cited at the head of WHAT (5)
  ListShown,       \* transactions listed one by one in WHAT (20)
  PromptShown      \* MAX_TRANSACTIONS_IN_PROMPT

ASSUME CaseFileAssumption ==
  /\ Window \in Nat
  /\ EvidenceShown \in Nat \ {0} /\ HeadShown \in Nat \ {0}
  /\ ListShown \in Nat /\ PromptShown \in Nat

-----------------------------------------------------------------------------
(* Citable ids                                                             *)

TxnId(i) == <<"txn", i>>
AccountId(a) == <<"account", a>>
CaseId(c) == <<"case", c>>
REGULATORY_CITATIONS == {<<"reg", "RBI_PA_2025">>, <<"reg", "PMLA_MOR_2005">>,
                         <<"reg", "DPDP_2023">>}

-----------------------------------------------------------------------------
(* build_case_file                                                         *)

\* The rows of the compiled stream, both of whose ends are members, in
\* [opened - Window, opened]; their positions are their ids.
build_transactions(members, opened, rows) ==
  {i \in 1..Len(rows) :
     /\ rows[i].ts >= opened - Window /\ rows[i].ts <= opened
     /\ rows[i].src \in members /\ rows[i].dst \in members}

classify_role(n_in, n_out) ==
  IF n_in > 0 /\ n_out > 0 THEN "PASS_THROUGH"
  ELSE IF n_out > 0 THEN "SOURCE"
  ELSE IF n_in > 0 THEN "SINK" ELSE "ISOLATED"

build_member_roles(members, ledger, rows) ==
  [m \in members |->
     LET paid == {i \in ledger : rows[i].src = m}
         got == {i \in ledger : rows[i].dst = m}
     IN [role |-> classify_role(Cardinality(got), Cardinality(paid)),
         evidence |-> paid \cup got]]

\* The first test that a candidate's features pass names its typology.
Typologies == <<"CYCLE", "STACK", "BIPARTITE", "SCATTER_GATHER",
                "GATHER_SCATTER", "FAN", "CLUSTER">>

\* stack_score and bipartite_score: whether the score reaches one half
TypologyTests(f) ==
  <<f.has_temporal_cycle, f.stack_score, f.bipartite_score,
    f.scatter_gather_width >= 2, f.gather_scatter_width >= 2, f.max_fan >= 4,
    TRUE>>

typology_evidence_for(f) ==
  Typologies[Min({k \in DOMAIN Typologies : TypologyTests(f)[k]})]

\* app.typology_of, the queue's word for the same candidate
typology_of(f) ==
  IF f.has_temporal_cycle THEN "CYCLE"
  ELSE IF f.stack_score THEN "STACK"
  ELSE IF f.bipartite_score THEN "BIPARTITE"
  ELSE IF f.scatter_gather_width >= 2 THEN "SCATTER_GATHER"
  ELSE IF f.gather_scatter_width >= 2 THEN "GATHER_SCATTER"
  ELSE IF f.max_fan >= 4 THEN "FAN" ELSE "CLUSTER"

build_case_file(c, rows, purpose) ==
  LET ledger == build_transactions(c.members, c.opened, rows)
  IN [case_id |-> c.id, purpose |-> purpose,
      transactions |-> ledger,
      members |-> build_member_roles(c.members, ledger, rows),
      typology |-> typology_evidence_for(c.features)]

valid_citation_ids(cf) ==
  {CaseId(cf.case_id)} \cup {TxnId(i) : i \in cf.transactions}
    \cup {AccountId(m) : m \in DOMAIN cf.members} \cup REGULATORY_CITATIONS

-----------------------------------------------------------------------------
(* str_narrative.generate: one line per template line                      *)

\* The first n of a set of rows, in stream order.
FirstOf(S, n) == {i \in S : Cardinality({j \in S : j < i}) < n}
TxnIds(S) == {TxnId(i) : i \in S}
OrCase(ids, cf) == IF ids = {} THEN {CaseId(cf.case_id)} ELSE ids

who(cf) ==
  {{Fact({CaseId(cf.case_id)})}}
    \cup {{Fact(IF cf.members[m].evidence = {} THEN {AccountId(m)}
                ELSE TxnIds(FirstOf(cf.members[m].evidence, EvidenceShown)))} :
          m \in DOMAIN cf.members}

what(cf) ==
  {{Fact(OrCase(TxnIds(FirstOf(cf.transactions, HeadShown)), cf))}}
    \cup {{Fact({TxnId(i)})} : i \in FirstOf(cf.transactions, ListShown)}
    \cup (IF Cardinality(cf.transactions) > ListShown
          THEN {{Fact({CaseId(cf.case_id)})}} ELSE {})

when(cf) ==
  IF cf.transactions = {} THEN {{Fact({CaseId(cf.case_id)})}}
  ELSE {{Fact({TxnId(Min(cf.transactions)), TxnId(Max(cf.transactions))}),
         Fact({<<"reg", "PMLA_MOR_2005">>})}}

where(cf) ==
  {{Fact(OrCase({AccountId(m) : m \in DOMAIN cf.members}, cf))}}

why(cf) == {{Fact({CaseId(cf.case_id)})}}

how(cf) ==
  {{Fact(OrCase({AccountId(m) : m \in {n \in DOMAIN cf.members :
                          cf.members[n].role = "PASS_THROUGH"}}, cf))}}

conclusion(cf) ==
  {{Fact({CaseId(cf.case_id)}), Fact({<<"reg", "RBI_PA_2025">>})}}

generate(cf) == who(cf) \cup what(cf) \cup when(cf) \cup where(cf)
                  \cup why(cf) \cup how(cf) \cup conclusion(cf)

-----------------------------------------------------------------------------
(* llm_draft.build_prompt: the facts a model is shown and the ids it may   *)
(* cite                                                                    *)

build_prompt(cf) ==
  [allowed |-> valid_citation_ids(cf),
   members |-> DOMAIN cf.members,
   transactions |-> FirstOf(cf.transactions, PromptShown)]

-----------------------------------------------------------------------------
(* eval_verifier_catch_rate: faults put into a verified narrative          *)

\* The sentences worth corrupting, each with its line.
corruptible(text) ==
  {p \in text \X SentencesOf(text) :
     p[2] \in p[1] /\ p[2].fact /\ p[2].cites # {}}

Rewrite(text, l, new) == (text \ {l}) \cup {new}

\* One citation becomes an id that no case file can contain.
fabricated_id(text) ==
  {Rewrite(text, p[1], (p[1] \ {p[2]})
             \cup {Fact((p[2].cites \ {CHOOSE c \in p[2].cites : TRUE})
                         \cup {TxnId(0)})}) : p \in corruptible(text)}

\* Every citation of the line goes.
stripped_citation(text) ==
  {Rewrite(text, p[1], {[s EXCEPT !.cites = {}] : s \in p[1]}) :
     p \in corruptible(text)}

\* The claim is falsified and its citation kept: the verifier sees no change.
attribution(text) == {Rewrite(text, p[1], p[1]) : p \in corruptible(text)}

inject(text, kind) ==
  CASE kind = "fabricated_id" -> fabricated_id(text)
    [] kind = "stripped_citation" -> stripped_citation(text)
    [] kind = "attribution" -> attribution(text)

\* eval_citation_recall.measure_one: the material evidence a report cites
Material(cf) == TxnIds(cf.transactions)
                  \cup {AccountId(m) : m \in DOMAIN cf.members}
UncitedEvidence(cf) == Material(cf) \ CitedBy(generate(cf))
=============================================================================
