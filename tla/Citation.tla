------------------------------ MODULE Citation ------------------------------
(***************************************************************************)
(* The citation verifier (src/sentinel/narrative/citation.py).             *)
(*                                                                         *)
(* Abstracted: a text is a set of lines, a line a set of sentences, and of *)
(* a sentence the verifier sees two things only: whether it asserts a fact *)
(* (FACT_SIGNAL) and the ids it cites.                                     *)
(***************************************************************************)
EXTENDS FiniteSets

Fact(cites) == [fact |-> TRUE, cites |-> cites]
Prose == [fact |-> FALSE, cites |-> {}]

SentencesOf(text) == UNION text
CitedBy(text) == UNION {s.cites : s \in SentencesOf(text)}

Uncited(text) == {s \in SentencesOf(text) : s.fact /\ s.cites = {}}
Unverifiable(text, ids) == CitedBy(text) \ ids

\* result.ok
Verified(text, ids) == Uncited(text) = {} /\ Unverifiable(text, ids) = {}
=============================================================================
