----------------------------- MODULE MCDrafting -----------------------------
(* TLC instance.  Two cases of two and one accounts (one tagged for        *)
(* reporting), an id that is no case; one good draft, one that cites       *)
(* nothing, one that cites an id of no case, and one that says nothing the *)
(* verifier takes for a fact.  The requests are served on two streams; the *)
(* case files and their reports are checked on every stream of at most     *)
(* three rows (Quiet, where no request is left to send).                   *)
EXTENDS Drafting, TLC

CONSTANTS acct1, acct2, stranger, MaxRows

Times == 0..3
Row3 == [ts : Times, src : {acct1, acct2, stranger}, dst : {acct1, acct2, stranger}]
MCStreams ==
  {s \in UNION {[1..n -> Row3] : n \in 0..MaxRows} :
     \A i \in 1..(Len(s) - 1) : s[i].ts <= s[i + 1].ts}

Tx(t, s, d) == [ts |-> t, src |-> s, dst |-> d]
Busy == <<Tx(1, acct1, acct2), Tx(2, acct2, acct1), Tx(3, acct2, stranger)>>
Renumbered == <<Tx(1, stranger, acct1), Tx(1, acct1, acct2)>>
MCBuilds == {Renumbered}

Features(cyc, stk, fan) ==
  [has_temporal_cycle |-> cyc, stack_score |-> stk, bipartite_score |-> stk,
   scatter_gather_width |-> 0, gather_scatter_width |-> fan, max_fan |-> 4]

MCCases ==
  {[id |-> 1, members |-> {acct1, acct2}, opened |-> 2, features |->
      Features(FALSE, TRUE, 2), purpose |-> "fraud_investigation"],
   [id |-> 2, members |-> {acct1}, opened |-> 3, features |->
      Features(FALSE, FALSE, 1), purpose |-> "regulatory_reporting"]}

Ask1(k, c, r, s) == [kind |-> k, case |-> c, role |-> r, source |-> s]
MCRequests ==
  {Ask1("str", 1, "compliance", "auto"), Ask1("str", 2, "compliance", "llm"),
   Ask1("str", 1, "fraud_ops", "template"), Ask1("str", 1, "compliance", "x"),
   Ask1("file", 2, "fiu_ind_liaison", "auto"),
   Ask1("file", 1, "ml_engineering", "auto"), Ask1("file", 3, "compliance", "auto")}

MCDrafts ==
  {{{Fact({CaseId(1)}), Fact({TxnId(1)})}}, {{Fact({CaseId(1)}), Fact({})}},
   {{Fact({CaseId(1), TxnId(9)})}}, {{Prose}}}

Quiet == /\ configured = FALSE /\ stream \in MCStreams /\ up = TRUE
         /\ counts = NoCounts /\ log = <<>> /\ pending = <<>> /\ req = Idle
         /\ answers = [n \in 1..MaxRequests |-> NoAnswer]
         /\ calls = [n \in 1..MaxRequests |-> <<>>] /\ forgotten = {}
         /\ n_requests = MaxRequests /\ n_restarts = MaxRestarts
         /\ n_builds = MaxBuilds

Served == Init /\ stream \in {Busy, None}

MCSpec == /\ (Served \/ Quiet) /\ [][Next]_vars
          /\ WF_vars(Serve)
          /\ WF_vars(\E reply \in Replies : ProviderReplies(reply))
=============================================================================
