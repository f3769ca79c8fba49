------------------------------ MODULE Drafting ------------------------------
(***************************************************************************)
(* Drafting a report on request: the two handlers of                       *)
(* src/sentinel/api/app.py that build a case file, the model client with   *)
(* its retries (llm/client.py), the fallback to the template               *)
(* (narrative/drafted.py) and the ledger of drafting outcomes              *)
(* (narrative/metrics.py).                                                 *)
(*                                                                         *)
(* The handlers are async functions that never await, so the server works  *)
(* on one request at a time (req) and the others wait (pending), for as    *)
(* long as the model provider takes.  The provider's answers are external: *)
(* any of Replies.  The ledger's append may fail and leave part of its     *)
(* row; the process may end at any step, and its counts with it; the       *)
(* compiled stream may be built anew between two requests.                 *)
(*                                                                         *)
(* Abstracted: `calls' and the field req of a ledger row are history.      *)
(***************************************************************************)
EXTENDS CaseFile

CONSTANTS
  Cases,          \* the cases of the store
  CaseIds,        \* ids a request may name
  Streams,        \* compiled streams
  Builds,         \* those a build may leave behind while the server runs
  None,           \* no stream
  Requests,       \* what the console may ask: [kind, case, role, source]
  Drafts,         \* texts the model may return
  MAX_RETRIES,
  MayFail,        \* whether an append to the ledger's file may fail
  MaxRequests,    \* bound on requests
  MaxRestarts,    \* bound on restarts of the server
  MaxBuilds       \* bound on new builds of the stream

ASSUME DraftingAssumption ==
  /\ Builds \subseteq Streams
  /\ None \notin Streams
  /\ \A s \in Streams : /\ Len(s) \in Nat /\ DOMAIN s = 1..Len(s)
                        /\ \A i, j \in DOMAIN s : i <= j => s[i].ts <= s[j].ts
  /\ \A c \in Cases : c.id \in CaseIds
  /\ \A r \in Requests : r.case \in CaseIds
  /\ MAX_RETRIES \in Nat /\ MaxRequests \in Nat
  /\ MaxRestarts \in Nat /\ MaxBuilds \in Nat /\ MayFail \in BOOLEAN

VARIABLES
  configured,     \* whether an API key is set
  stream,         \* data/stream on disk
  up,             \* whether the server runs
  counts,         \* DRAFT_LEDGER.counts
  log,            \* the ledger's file
  pending,        \* requests sent and not yet taken up
  req,            \* the request being handled
  answers,        \* request number -> the answer given
  calls,          \* history: request number -> the provider's replies
  forgotten,      \* history: requests of earlier processes
  n_requests, n_restarts, n_builds

vars == <<configured, stream, up, counts, log, pending, req, answers, calls,
          forgotten, n_requests, n_restarts, n_builds>>

-----------------------------------------------------------------------------
(* Purposes and who may read for them (compliance/purpose.py)              *)

ACCESS_SCOPES ==
  [fraud_investigation |-> {"fraud_ops", "compliance"},
   regulatory_reporting |-> {"compliance", "fiu_ind_liaison"},
   model_training |-> {"ml_engineering"}]

\* A purpose tag that is no purpose is read as an investigation.
PurposeOf(c) == IF c.purpose \in DOMAIN ACCESS_SCOPES THEN c.purpose
                ELSE "fraud_investigation"

-----------------------------------------------------------------------------
(* The ledger                                                              *)

LlmOutcomes == {"LLM_FILED", "LLM_REJECTED_UNCITED",
                "LLM_REJECTED_UNVERIFIABLE"}
OUTCOMES == LlmOutcomes \cup {"LLM_UNAVAILABLE", "TEMPLATE_FILED"}

NoCounts == [o \in OUTCOMES |-> 0]

rejected(n) == n["LLM_REJECTED_UNCITED"] + n["LLM_REJECTED_UNVERIFIABLE"]

\* mutant: a call that never returned counts as a draft
attempted_loose(n) == n["LLM_FILED"] + rejected(n) + n["LLM_UNAVAILABLE"]

attempted(n) == n["LLM_FILED"] + rejected(n)

\* Counted first; then the row is written.  whole: with the end of its line.
Count(o) == counts' = [counts EXCEPT ![o] = @ + 1]
RowFor(o, whole) == [req |-> req.n, outcome |-> o, whole |-> whole]
Row(o) == log' = Append(log, RowFor(o, TRUE))

\* An append that fails may have written nothing, a part or all of its row.
Left(o) == {log} \cup {Append(log, RowFor(o, whole)) : whole \in BOOLEAN}

\* A row cut short cannot be read, nor can the next, which is written on to
\* the same line: the reader leaves out a line that is no JSON.
Readable(file, k) == file[k].whole /\ (k = 1 \/ file[k - 1].whole)

-----------------------------------------------------------------------------
(* Requests and answers                                                    *)

\* Replies of the provider to one call.  A timeout is a transport failure.
\* What the HTTP library raises beside its RequestError (InvalidURL, say)
\* nobody catches.
Retried == {"transport", "server_error"}
Final == {"client_error", "malformed"}
Replies == [kind : Retried \cup Final \cup {"raised"}, text : {{}}]
             \cup [kind : {"text"}, text : Drafts]

NoAnswer == [status |-> 0]
Idle == [n |-> 0]
Refused(status) == [status |-> status]

Answer(a) == /\ answers' = [answers EXCEPT ![req.n] = a]
             /\ req' = Idle

\* The append of a row fails: the handler raises what nobody catches.
Failed(o) == /\ Answer(Refused(500))
             /\ log' \in Left(o)

\* mutant: what the model is asked not to do is taken for granted
JudgementTrusting(text, cf) == "LLM_FILED"

Judgement(text, cf) ==
  IF Verified(text, valid_citation_ids(cf)) THEN "LLM_FILED"
  ELSE IF Unverifiable(text, valid_citation_ids(cf)) # {}
       THEN "LLM_REJECTED_UNVERIFIABLE" ELSE "LLM_REJECTED_UNCITED"

-----------------------------------------------------------------------------
(* The environment                                                         *)

Init ==
  /\ configured \in BOOLEAN
  /\ stream \in Streams \cup {None}
  /\ up = TRUE
  /\ counts = NoCounts
  /\ log = <<>>
  /\ pending = <<>>
  /\ req = Idle
  /\ answers = [n \in 1..MaxRequests |-> NoAnswer]
  /\ calls = [n \in 1..MaxRequests |-> <<>>]
  /\ forgotten = {}
  /\ n_requests = 0 /\ n_restarts = 0 /\ n_builds = 0

\* The console asks, once a case is shown or when the analyst asks again.
Ask(r) ==
  /\ up
  /\ n_requests < MaxRequests
  /\ n_requests' = n_requests + 1
  /\ pending' = Append(pending, [n |-> n_requests + 1, body |-> r])
  /\ UNCHANGED <<configured, stream, up, counts, log, req, answers, calls,
                 forgotten, n_restarts, n_builds>>

\* scripts/build_stream.py runs while the server is up.
BuildStream(s) ==
  /\ n_builds < MaxBuilds /\ s # stream
  /\ n_builds' = n_builds + 1
  /\ stream' = s
  /\ UNCHANGED <<configured, up, counts, log, pending, req, answers, calls,
                 forgotten, n_requests, n_restarts>>

\* The outcome that the request in hand is about to record.
Due ==
  {o \in OUTCOMES :
     /\ req # Idle
     /\ \/ req.pc = "unavailable" /\ o = "LLM_UNAVAILABLE"
        \/ req.pc = "drafted" /\ o = Judgement(req.text, req.file)
        \/ /\ req.pc = "template" /\ o = "TEMPLATE_FILED"
           /\ Verified(generate(req.file), valid_citation_ids(req.file))}

\* The process ends, in an append perhaps; every request it had is lost, and
\* so are the counts.
Crash ==
  /\ up /\ n_restarts < MaxRestarts
  /\ log' \in {log} \cup UNION {Left(o) : o \in Due}
  /\ up' = FALSE
  /\ pending' = <<>> /\ req' = Idle
  /\ counts' = NoCounts
  /\ forgotten' = 1..n_requests
  /\ UNCHANGED <<configured, stream, answers, calls, n_requests, n_restarts,
                 n_builds>>

Restart ==
  /\ ~up
  /\ up' = TRUE
  /\ n_restarts' = n_restarts + 1
  /\ UNCHANGED <<configured, stream, counts, log, pending, req, answers,
                 calls, forgotten, n_requests, n_builds>>

-----------------------------------------------------------------------------
(* The handlers                                                            *)

CaseOf(id) == {c \in Cases : c.id = id}

\* What both handlers refuse before they build anything: 404, 403, 503.
Refusal(r) ==
  IF CaseOf(r.case) = {} THEN {404}
  ELSE IF \E c \in CaseOf(r.case) :
            r.role \notin ACCESS_SCOPES[PurposeOf(c)] THEN {403}
  ELSE IF stream = None THEN {503} ELSE {}

\* The case file of a report is built for reporting, whatever the case's
\* own purpose is.
FileFor(r) ==
  LET c == CHOOSE x \in CaseOf(r.case) : TRUE
  IN build_case_file(c, stream, IF r.kind = "str" THEN "regulatory_reporting"
                                ELSE PurposeOf(c))

\* mutant: without a key the model is waited for all the same
StageWaiting(r) ==
  IF r.source \notin {"auto", "template", "llm"} THEN "raise"
  ELSE IF r.source = "template" THEN "template"
  ELSE IF configured THEN "call" ELSE "wait"

\* draft_and_verify up to its first call: an unknown source raises.
Stage(r) ==
  IF r.source \notin {"auto", "template", "llm"} THEN "raise"
  ELSE IF r.source = "template" THEN "template"
  ELSE IF configured THEN "call" ELSE "unavailable"

\* The next request is taken up: refused, answered (a case file), or its
\* drafting begins.
Take ==
  /\ up /\ req = Idle /\ pending # <<>>
  /\ pending' = Tail(pending)
  /\ LET n == Head(pending).n
         r == Head(pending).body
     IN \/ /\ Refusal(r) # {}
           /\ \E s \in Refusal(r) :
                answers' = [answers EXCEPT ![n] = Refused(s)]
           /\ UNCHANGED req
        \/ /\ Refusal(r) = {} /\ r.kind = "file"
           /\ answers' = [answers EXCEPT ![n] =
                            [status |-> 200, file |-> FileFor(r)]]
           /\ UNCHANGED req
        \/ /\ Refusal(r) = {} /\ r.kind = "str" /\ Stage(r) = "raise"
           /\ answers' = [answers EXCEPT ![n] = Refused(500)]
           /\ UNCHANGED req
        \/ /\ Refusal(r) = {} /\ r.kind = "str" /\ Stage(r) # "raise"
           /\ req' = [n |-> n, pc |-> Stage(r), file |-> FileFor(r),
                      attempt |-> 1, text |-> {}, rejected |-> {},
                      unavailable |-> FALSE]
           /\ UNCHANGED answers
  /\ UNCHANGED <<configured, stream, up, counts, log, calls, forgotten,
                 n_requests, n_restarts, n_builds>>

At(pc) == up /\ req # Idle /\ req.pc = pc

\* mutant: a client error is tried again as well
AfterReplyEager(reply) ==
  IF reply.kind = "text" THEN "drafted"
  ELSE IF req.attempt <= MAX_RETRIES THEN "call" ELSE "unavailable"

\* Where complete() goes after a reply: transport failures and server errors
\* are tried again, MAX_RETRIES times.
AfterReply(reply) ==
  IF reply.kind = "text" THEN "drafted"
  ELSE IF reply.kind \in Retried /\ req.attempt <= MAX_RETRIES THEN "call"
  ELSE "unavailable"

\* The provider answers the call, or its time is up, or the call raises.
ProviderReplies(reply) ==
  /\ At("call")
  /\ calls' = [calls EXCEPT ![req.n] = Append(@, reply)]
  /\ \/ reply.kind = "raised" /\ Answer(Refused(500))
     \/ /\ reply.kind # "raised"
        /\ req' = [req EXCEPT !.pc = AfterReply(reply),
                              !.attempt = @ + 1,
                              !.text = reply.text]
        /\ UNCHANGED answers
  /\ UNCHANGED <<configured, stream, up, counts, log, pending, forgotten,
                 n_requests, n_restarts, n_builds>>

\* No draft: recorded, and the template is next.
RecordUnavailable ==
  /\ At("unavailable")
  /\ Count("LLM_UNAVAILABLE")
  /\ \/ /\ Row("LLM_UNAVAILABLE")
        /\ req' = [req EXCEPT !.pc = "template", !.unavailable = TRUE]
        /\ UNCHANGED answers
     \/ MayFail /\ Failed("LLM_UNAVAILABLE")
  /\ UNCHANGED <<configured, stream, up, pending, calls, forgotten,
                 n_requests, n_restarts, n_builds>>

Filed(text, source) ==
  [status |-> 200, narrative |-> text, source |-> source, file |-> req.file,
   rejected |-> req.rejected, unavailable |-> req.unavailable]

\* The draft is verified: filed, or kept as rejected with the template next.
Judge ==
  /\ At("drafted")
  /\ LET o == Judgement(req.text, req.file)
     IN /\ Count(o)
        /\ \/ /\ Row(o)
              /\ \/ o = "LLM_FILED" /\ Answer(Filed(req.text, "llm"))
                 \/ /\ o # "LLM_FILED"
                    /\ req' = [req EXCEPT !.pc = "template",
                                          !.rejected = req.text]
                    /\ UNCHANGED answers
           \/ MayFail /\ Failed(o)
  /\ UNCHANGED <<configured, stream, up, pending, calls, forgotten,
                 n_requests, n_restarts, n_builds>>

\* generate_and_verify raises on a template that does not verify (422).
Template ==
  /\ At("template")
  /\ IF Verified(generate(req.file), valid_citation_ids(req.file))
     THEN /\ Count("TEMPLATE_FILED")
          /\ \/ /\ Row("TEMPLATE_FILED")
                /\ Answer(Filed(generate(req.file), "template"))
             \/ MayFail /\ Failed("TEMPLATE_FILED")
     ELSE /\ Answer(Refused(422))
          /\ UNCHANGED <<counts, log>>
  /\ UNCHANGED <<configured, stream, up, pending, calls, forgotten,
                 n_requests, n_restarts, n_builds>>

Serve == Take \/ RecordUnavailable \/ Judge \/ Template

Next ==
  \/ \E r \in Requests : Ask(r)
  \/ \E s \in Builds : BuildStream(s)
  \/ Crash
  \/ Restart
  \/ Take
  \/ \E reply \in Replies : ProviderReplies(reply)
  \/ RecordUnavailable
  \/ Judge
  \/ Template

\* The event loop runs while the server does; a call ends, if only by its
\* timeout.
Spec ==
  /\ Init /\ [][Next]_vars
  /\ WF_vars(Serve)
  /\ WF_vars(\E reply \in Replies : ProviderReplies(reply))

-----------------------------------------------------------------------------
(* Properties                                                              *)

Asked == 1..n_requests
Answered(n) == answers[n] # NoAnswer
Narrative(n) == answers[n].status = 200 /\ "narrative" \in DOMAIN answers[n]

\* The state is made of case files, counts, rows and requests, and an answer
\* carries a status of app.py.
TypeOK ==
  /\ configured \in BOOLEAN /\ up \in BOOLEAN
  /\ stream # None => \A i, j \in DOMAIN stream :
                         i <= j => stream[i].ts <= stream[j].ts
  /\ counts \in [OUTCOMES -> Nat]
  /\ log \in Seq([req : Asked, outcome : OUTCOMES, whole : BOOLEAN])
  /\ \A k \in DOMAIN pending : pending[k] \in [n : Asked, body : Requests]
  /\ req # Idle => /\ req.n \in Asked
                   /\ req.attempt \in 1..(MAX_RETRIES + 2)
  /\ DOMAIN answers = 1..MaxRequests
  /\ \A n \in 1..MaxRequests :
       answers[n].status \in {0, 200, 403, 404, 422, 500, 503}
  /\ calls \in [1..MaxRequests -> Seq(Replies)]

\* Whoever wrote it, and whatever was built or restarted meanwhile, a report
\* that is returned passes the verifier against the case file it is about, is
\* a draft the provider returned for this very request or the template's, and
\* carries the draft that was rejected on the way.
FiledNarrativesAreSourced ==
  \A n \in Asked :
    Narrative(n) =>
      LET a == answers[n]
      IN /\ Verified(a.narrative, valid_citation_ids(a.file))
         /\ a.source = "llm" => /\ calls[n] # <<>>
                                /\ a.narrative = calls[n][Len(calls[n])].text
         /\ a.source = "template" => a.narrative = generate(a.file)
         /\ a.rejected # {} =>
              ~Verified(a.rejected, valid_citation_ids(a.file))

\* Every case file the store can produce gives a report that passes its own
\* verifier, cites every member, leaves no transaction uncited while the
\* list is long enough, and names the typology the queue names; a model is
\* shown no transaction it may not cite; a fault of
\* the two classes the verifier is for is always caught, and a false claim
\* with a true citation never (eval_verifier_catch_rate).
TemplateSourcesTheCase ==
  stream # None =>
    \A c \in Cases :
      LET cf == build_case_file(c, stream, "regulatory_reporting")
          ids == valid_citation_ids(cf)
          text == generate(cf)
      IN /\ Verified(text, ids)
         /\ \A i \in cf.transactions :
              {stream[i].src, stream[i].dst} \subseteq DOMAIN cf.members
         /\ UncitedEvidence(cf) \cap {AccountId(m) : m \in c.members} = {}
         /\ Cardinality(cf.transactions) <= ListShown
              => UncitedEvidence(cf) = {}
         /\ cf.typology = typology_of(c.features)
         /\ TxnIds(build_prompt(cf).transactions) \subseteq
              build_prompt(cf).allowed
         /\ \A k \in {"fabricated_id", "stripped_citation"} :
              \A t \in inject(text, k) : ~Verified(t, ids)
         /\ \A t \in inject(text, "attribution") : Verified(t, ids)

\* Every report stands on its case: the one returned, and the one that any
\* case would get.
ReportsAreSourced ==
  TypeOK /\ FiledNarrativesAreSourced /\ TemplateSourcesTheCase

RowsOf(file, n) == {k \in DOMAIN file : file[k].req = n}

\* The rows of request n tell the outcomes told, in that order and in full.
Tells(file, n, told) ==
  \E at \in [DOMAIN told -> RowsOf(file, n)] :
    /\ \A k \in RowsOf(file, n) : \E i \in DOMAIN told : at[i] = k
    /\ \A i, j \in DOMAIN told : i < j => at[i] < at[j]
    /\ \A i \in DOMAIN told : file[at[i]].outcome = told[i] /\ file[at[i]].whole

\* The outcomes on the way to the template, and all that an answer's own
\* fields tell.
Fallback(a) ==
  IF a.unavailable THEN <<"LLM_UNAVAILABLE">>
  ELSE IF a.rejected # {} THEN <<Judgement(a.rejected, a.file)>> ELSE <<>>

Told(a) == IF a.source = "llm" THEN <<"LLM_FILED">>
           ELSE Append(Fallback(a), "TEMPLATE_FILED")

\* The last of its calls brought a draft.
Returned(n) == calls[n] # <<>> /\ calls[n][Len(calls[n])].kind = "text"

\* The requests whose draft came back to this process and has been judged.
DraftsJudged ==
  {n \in Asked \ forgotten : /\ Returned(n)
                             /\ ~(req # Idle /\ req.n = n
                                    /\ req.pc = "drafted")}

\* The rows of verdicts on drafts: of drafts that came back, one for each.
\* What is read of them (_drafts_attempted) counts no draft twice.
OneRowPerDraft ==
  \A k \in DOMAIN log : log[k].outcome \in LlmOutcomes =>
    /\ Returned(log[k].req)
    /\ \A j \in DOMAIN log :
         log[j].outcome \in LlmOutcomes /\ log[j].req = log[k].req => j = k

\* A report's row cannot be read only behind a row of a request without one.
ReportsCanBeRead ==
  \A k \in DOMAIN log :
    Narrative(log[k].req) => Readable(log, k) \/ ~Narrative(log[k - 1].req)

\* The ledger accounts for the drafts: the file tells of every report given
\* out exactly what the report says of itself, in rows written whole; one of
\* them cannot be read only where a request before it broke off in its append
\* and got no report; no draft has two rows; and the denominator of the
\* rejection rate is the number of drafts a model returned and the server
\* judged, whatever else failed.
LedgerAccountsForDrafts ==
  /\ \A n \in Asked : Narrative(n) => Tells(log, n, Told(answers[n]))
  /\ ReportsCanBeRead
  /\ OneRowPerDraft
  /\ attempted(counts) = Cardinality(DraftsJudged)
  /\ rejected(counts) <= attempted(counts)

\* A request costs at most MAX_RETRIES + 1 calls, each but the last ended by
\* a transport failure or a server error, and none is made for a template or
\* without a key.
RetriesOnlyTransportFaults ==
  \A n \in Asked :
    /\ Len(calls[n]) <= MAX_RETRIES + 1
    /\ \A k \in 1..(Len(calls[n]) - 1) : calls[n][k].kind \in Retried
    /\ ~configured => calls[n] = <<>>

-----------------------------------------------------------------------------
(* The inductive invariant.                                                *)

\* Nothing has been done for request n yet.
Untouched(n) ==
  calls[n] = <<>> /\ answers[n] = NoAnswer /\ n \notin forgotten /\ RowsOf(log, n) = {}

\* A request waits once, untouched, and is in hand or waits, never both.
QueueInv ==
  /\ n_requests \in 0..MaxRequests
  /\ forgotten \subseteq Asked
  /\ pending \in Seq([n : Asked, body : Requests])
  /\ \A k \in DOMAIN pending : Untouched(pending[k].n)
  /\ \A j, k \in DOMAIN pending : j # k => pending[j].n # pending[k].n
  /\ \A n \in 1..MaxRequests : n \notin Asked => Untouched(n)

\* The request in hand: what the provider and the ledger have of it.
HandInv ==
  req # Idle =>
    /\ up
    /\ req.n \in Asked \ forgotten
    /\ answers[req.n] = NoAnswer
    /\ \A k \in DOMAIN pending : pending[k].n # req.n
    /\ req = [n |-> req.n, pc |-> req.pc, file |-> req.file,
              attempt |-> req.attempt, text |-> req.text,
              rejected |-> req.rejected, unavailable |-> req.unavailable]
    /\ req.unavailable \in BOOLEAN
    /\ req.pc \in {"call", "drafted", "unavailable", "template"}
    /\ req.pc = "call" =>
         /\ configured
         /\ Len(calls[req.n]) = req.attempt - 1
         /\ req.attempt <= MAX_RETRIES + 1
         /\ \A k \in DOMAIN calls[req.n] : calls[req.n][k].kind \in Retried
    /\ req.pc = "drafted" =>
         /\ calls[req.n] # <<>>
         /\ calls[req.n][Len(calls[req.n])].kind = "text"
         /\ calls[req.n][Len(calls[req.n])].text = req.text
    /\ req.pc = "unavailable" /\ calls[req.n] # <<>> =>
         calls[req.n][Len(calls[req.n])].kind # "text"
    /\ req.pc # "template" => ~req.unavailable /\ req.rejected = {}
    /\ req.rejected # {} => ~Verified(req.rejected, valid_citation_ids(req.file))
    /\ Tells(log, req.n, Fallback(req))

DraftingInv ==
  /\ TypeOK /\ FiledNarrativesAreSourced
  /\ LedgerAccountsForDrafts /\ RetriesOnlyTransportFaults
  /\ QueueInv /\ HandInv

-----------------------------------------------------------------------------
(* Liveness                                                                *)

Waiting(n) == \/ \E k \in DOMAIN pending : pending[k].n = n
              \/ req # Idle /\ req.n = n

\* While the server stays up, a request that waits is answered, whatever the
\* provider does and however many requests wait before it.
EveryRequestAnswered ==
  \A n \in 1..MaxRequests : Waiting(n) ~> (Answered(n) \/ ~up)
=============================================================================
