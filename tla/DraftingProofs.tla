--------------------------- MODULE DraftingProofs ---------------------------
(* Proofs about drafting, for any cases, streams, requests and drafts, any *)
(* number of retries and any bounds.                                       *)
EXTENDS Drafting, FiniteSetTheorems, WellFoundedInduction, TLAPS

-----------------------------------------------------------------------------
(* What the ledger's file tells of a request.                              *)

LEMMA TellsNothing ==
  ASSUME NEW file, NEW n, RowsOf(file, n) = {}
  PROVE  Tells(file, n, <<>>)
<1>1. PICK at : at = [i \in {} |-> i]
  OBVIOUS
<1>2. DOMAIN <<>> = {}
  OBVIOUS
<1>3. at \in [DOMAIN <<>> -> RowsOf(file, n)]
  BY <1>1, <1>2
<1> QED
  BY <1>2, <1>3 DEF Tells

\* A row of another request does not matter.
LEMMA TellsKept ==
  ASSUME NEW S, NEW file \in Seq(S), NEW row \in S, NEW n, row.req # n,
         NEW told, Tells(file, n, told)
  PROVE  Tells(Append(file, row), n, told)
<1>1. PICK longer : longer = Append(file, row)
  OBVIOUS
<1>2. RowsOf(longer, n) = RowsOf(file, n)
  BY <1>1 DEF RowsOf
<1>3. \A k \in RowsOf(file, n) : longer[k] = file[k]
  BY <1>1 DEF RowsOf
<1>4. PICK at \in [DOMAIN told -> RowsOf(file, n)] :
        /\ \A k \in RowsOf(file, n) : \E i \in DOMAIN told : at[i] = k
        /\ \A i, j \in DOMAIN told : i < j => at[i] < at[j]
        /\ \A i \in DOMAIN told : file[at[i]].outcome = told[i] /\ file[at[i]].whole
  BY DEF Tells
<1>5. \A i \in DOMAIN told : longer[at[i]].outcome = told[i] /\ longer[at[i]].whole
  BY <1>3, <1>4
<1>6. Tells(longer, n, told)
  BY <1>2, <1>4, <1>5 DEF Tells
<1> QED
  BY <1>1, <1>6

\* A row of this request tells one outcome more.
LEMMA TellsMore ==
  ASSUME NEW S, NEW file \in Seq(S), NEW row \in S, NEW n, row.req = n, row.whole,
         NEW T, NEW told \in Seq(T), row.outcome \in T, Tells(file, n, told)
  PROVE  Tells(Append(file, row), n, Append(told, row.outcome))
<1>1. PICK longer : longer = Append(file, row)
  OBVIOUS
<1>2. PICK more : more = Append(told, row.outcome)
  OBVIOUS
<1>3. PICK at \in [DOMAIN told -> RowsOf(file, n)] :
        /\ \A k \in RowsOf(file, n) : \E i \in DOMAIN told : at[i] = k
        /\ \A i, j \in DOMAIN told : i < j => at[i] < at[j]
        /\ \A i \in DOMAIN told : file[at[i]].outcome = told[i] /\ file[at[i]].whole
  BY DEF Tells
<1>4. PICK then : then = [i \in DOMAIN more |->
                            IF i \in DOMAIN told THEN at[i] ELSE Len(file) + 1]
  OBVIOUS
<1>5. /\ DOMAIN file = 1..Len(file) /\ Len(file) \in Nat
      /\ DOMAIN longer = 1..(Len(file) + 1)
      /\ \A k \in 1..Len(file) : longer[k] = file[k]
      /\ longer[Len(file) + 1] = row
  BY <1>1
<1>6. /\ DOMAIN told = 1..Len(told) /\ Len(told) \in Nat
      /\ DOMAIN more = 1..(Len(told) + 1)
      /\ \A i \in 1..Len(told) : more[i] = told[i]
      /\ more[Len(told) + 1] = row.outcome
  BY <1>2
<1>7. RowsOf(longer, n) = RowsOf(file, n) \cup {Len(file) + 1}
  BY <1>5 DEF RowsOf
<1>8. \A i \in DOMAIN told : at[i] \in 1..Len(file)
  BY <1>3, <1>5 DEF RowsOf
<1>9. /\ \A i \in DOMAIN told : then[i] = at[i]
      /\ then[Len(told) + 1] = Len(file) + 1
      /\ then \in [DOMAIN more -> RowsOf(longer, n)]
  BY <1>3, <1>4, <1>6, <1>7
<1>10. \A k \in RowsOf(longer, n) : \E i \in DOMAIN more : then[i] = k
  BY <1>3, <1>6, <1>7, <1>9
<1>11. \A i, j \in DOMAIN more : i < j => then[i] < then[j]
  <2> SUFFICES ASSUME NEW i \in DOMAIN more, NEW j \in DOMAIN more, i < j
               PROVE  then[i] < then[j]
    OBVIOUS
  <2>1. i \in DOMAIN told
    BY <1>6
  <2>2. then[i] = at[i] /\ at[i] \in 1..Len(file)
    BY <1>8, <1>9, <2>1
  <2>3. CASE j \in DOMAIN told
    BY <1>3, <1>9, <2>1, <2>3
  <2>4. CASE j = Len(told) + 1
    BY <1>5, <1>9, <2>2, <2>4
  <2> QED
    BY <1>6, <2>3, <2>4
<1>12. \A i \in DOMAIN more : longer[then[i]].outcome = more[i] /\ longer[then[i]].whole
  BY <1>3, <1>5, <1>6, <1>8, <1>9
<1> QED
  BY <1>1, <1>2, <1>9, <1>10, <1>11, <1>12 DEF Tells

-----------------------------------------------------------------------------
(* The invariant, request by request.                                      *)

\* A report given out is sourced, and the file tells of it what it says.
Good(n) ==
  Narrative(n) =>
    LET a == answers[n]
    IN /\ Verified(a.narrative, valid_citation_ids(a.file))
       /\ a.source = "llm" => /\ calls[n] # <<>>
                              /\ a.narrative = calls[n][Len(calls[n])].text
       /\ a.source = "template" => a.narrative = generate(a.file)
       /\ a.rejected # {} =>
            ~Verified(a.rejected, valid_citation_ids(a.file))
       /\ Tells(log, n, Told(a))

Frugal(n) ==
  /\ Len(calls[n]) <= MAX_RETRIES + 1
  /\ \A k \in 1..(Len(calls[n]) - 1) : calls[n][k].kind \in Retried
  /\ ~configured => calls[n] = <<>>

LogRow == [req : Asked, outcome : OUTCOMES, whole : BOOLEAN]

LEMMA InvParts ==
  ASSUME DraftingInv
  PROVE  /\ TypeOK /\ QueueInv /\ HandInv
         /\ \A n \in Asked : Good(n) /\ Frugal(n)
         /\ OneRowPerDraft
         /\ attempted(counts) = Cardinality(DraftsJudged)
         /\ rejected(counts) <= attempted(counts)
BY DEF DraftingInv, FiledNarrativesAreSourced, LedgerAccountsForDrafts,
       RetriesOnlyTransportFaults, Good, Frugal

\* If the rows of all reports are whole, one that cannot be read follows a row
\* of no report.
LEMMA ReportsRead ==
  ASSUME NEW S, NEW file \in Seq(S), NEW R,
         \A n \in R : \E told : Tells(file, n, told)
  PROVE  \A k \in DOMAIN file :
           file[k].req \in R => Readable(file, k) \/ file[k - 1].req \notin R
<1>1. ASSUME NEW k \in DOMAIN file, file[k].req \in R
      PROVE  file[k].whole
  <2>1. PICK n : n = file[k].req
    OBVIOUS
  <2>2. PICK told : Tells(file, n, told)
    BY <1>1, <2>1
  <2>3. k \in RowsOf(file, n)
    BY <2>1 DEF RowsOf
  <2>4. \E i \in DOMAIN told : \E at : at[i] = k /\ file[at[i]].whole
    BY <2>2, <2>3 DEF Tells
  <2> QED
    BY <2>4
<1>2. DOMAIN file = 1..Len(file) /\ Len(file) \in Nat
  OBVIOUS
<1>3. ASSUME NEW k \in DOMAIN file, file[k].req \in R, k # 1, file[k - 1].req \in R
      PROVE  file[k - 1].whole
  <2>1. k - 1 \in DOMAIN file
    BY <1>2, <1>3
  <2> QED
    BY <1>1, <1>3, <2>1
<1> QED
  BY <1>1, <1>3 DEF Readable

LEMMA FirstRead ==
  ASSUME NEW S, NEW file \in Seq(S), NEW R,
         \A n \in R : \E told : Tells(file, n, told),
         NEW k \in DOMAIN file, k = 1, file[k].req \in R
  PROVE  Readable(file, k)
<1>1. PICK n : n = file[k].req
  OBVIOUS
<1>2. PICK told : Tells(file, n, told)
  BY <1>1
<1>3. k \in RowsOf(file, n)
  BY <1>1 DEF RowsOf
<1>4. \E i \in DOMAIN told : \E at : at[i] = k /\ file[at[i]].whole
  BY <1>2, <1>3 DEF Tells
<1> QED
  BY <1>4 DEF Readable

LEMMA InvPartsNext ==
  ASSUME TypeOK', QueueInv', HandInv', \A n \in Asked' : Good(n)' /\ Frugal(n)',
         OneRowPerDraft',
         attempted(counts') = Cardinality(DraftsJudged'),
         rejected(counts') <= attempted(counts')
  PROVE  DraftingInv'
<1>1. PICK S : S = LogRow'
  OBVIOUS
<1>2. log' \in Seq(S) /\ \A k \in DOMAIN log' : log'[k].req \in Asked'
  <2>1. log' \in Seq(S)
    BY <1>1 DEF TypeOK, LogRow
  <2>2. \A k \in DOMAIN log' : log'[k] \in S
    BY <2>1
  <2> QED
    BY <1>1, <2>1, <2>2 DEF LogRow
<1>3. PICK R : R = {n \in Asked' : Narrative(n)'}
  OBVIOUS
<1>4. \A n \in R : \E told : Tells(log', n, told)
  BY <1>3 DEF Good
<1>5. \A k \in DOMAIN log' :
        log'[k].req \in R => Readable(log', k) \/ log'[k - 1].req \notin R
  BY <1>2, <1>4, ReportsRead
<1>6. \A k \in DOMAIN log' : k # 1 => log'[k - 1].req \in Asked'
  <2>1. DOMAIN log' = 1..Len(log') /\ Len(log') \in Nat
    BY <1>2
  <2> QED
    BY <1>2, <2>1
<1>7. \A k \in DOMAIN log' : k = 1 /\ log'[k].req \in R => Readable(log', k)
  BY <1>2, <1>4, FirstRead
<1>9. ReportsCanBeRead'
  BY <1>2, <1>3, <1>5, <1>6, <1>7 DEF ReportsCanBeRead
<1> QED
  BY <1>9 DEF DraftingInv, FiledNarrativesAreSourced, LedgerAccountsForDrafts,
       RetriesOnlyTransportFaults, Good, Frugal, Narrative

\* A request that a step does not touch stays as good as it was.
LEMMA GoodKept ==
  ASSUME TypeOK, NEW n, Good(n), answers'[n] = answers[n], calls'[n] = calls[n],
         \/ log' = log
         \/ \E row \in LogRow : row.req # n /\ log' = Append(log, row)
  PROVE  Good(n)'
<1> SUFFICES ASSUME Narrative(n)' PROVE Good(n)'
  BY DEF Good
<1>1. PICK a : a = answers[n]
  OBVIOUS
<1>2. PICK told : told = Told(a)
  OBVIOUS
<1>3. Narrative(n)
  BY DEF Narrative
<1>4. Tells(log, n, told)
  BY <1>1, <1>2, <1>3 DEF Good
<1>5. Tells(log', n, told)
  <2>1. PICK S : S = LogRow
    OBVIOUS
  <2>2. log \in Seq(S)
    BY <2>1 DEF TypeOK, LogRow
  <2>3. CASE log' = log
    BY <1>4, <2>3
  <2>4. ASSUME NEW row \in S, row.req # n, log' = Append(log, row)
        PROVE  Tells(log', n, told)
    BY <1>4, <2>2, <2>4, TellsKept
  <2> QED
    BY <2>1, <2>3, <2>4
<1>6. Good(n)' <=>
        /\ Verified(a.narrative, valid_citation_ids(a.file))
        /\ a.source = "llm" => /\ calls'[n] # <<>>
                               /\ a.narrative = calls'[n][Len(calls'[n])].text
        /\ a.source = "template" => a.narrative = generate(a.file)
        /\ a.rejected # {} =>
             ~Verified(a.rejected, valid_citation_ids(a.file))
        /\ Tells(log', n, told)
  BY <1>1, <1>2 DEF Good
<1> QED
  BY <1>1, <1>3, <1>5, <1>6 DEF Good

\* Nothing is written to the ledger and nobody is called.
LEMMA OneRowKept ==
  ASSUME DraftingInv, UNCHANGED <<calls, log>>
  PROVE  OneRowPerDraft'
<1>1. OneRowPerDraft
  BY InvParts
<1> QED
  BY <1>1 DEF OneRowPerDraft, Returned

\* The request in hand has no row before an outcome of its own is told.
LEMMA NoRowYet ==
  ASSUME DraftingInv, req # Idle, req.unavailable = FALSE, req.rejected = {}
  PROVE  RowsOf(log, req.n) = {}
<1>1. Tells(log, req.n, Fallback(req)) /\ Fallback(req) = <<>>
  BY DEF DraftingInv, HandInv, Fallback
<1>2. DOMAIN <<>> = {}
  OBVIOUS
<1> QED
  BY <1>1, <1>2 DEF Tells

\* The row of an outcome, whole or not, or none of it.
LEMMA RowsAdded ==
  ASSUME DraftingInv, req # Idle, NEW o \in OUTCOMES, calls' = calls,
         log' = log \/ log' \in Left(o), o \in LlmOutcomes => req.pc = "drafted"
  PROVE  /\ \/ log' = log
            \/ \E row \in LogRow : row.req = req.n /\ log' = Append(log, row)
         /\ OneRowPerDraft'
<1>1. CASE log' = log
  BY <1>1, OneRowKept
<1>2. ASSUME NEW w \in BOOLEAN, NEW row, row = RowFor(o, w), log' = Append(log, row)
      PROVE  /\ row \in LogRow /\ row.req = req.n
             /\ OneRowPerDraft'
  <2>1. req.n \in Asked /\ log \in Seq(LogRow)
    BY DEF DraftingInv, TypeOK, LogRow
  <2>2. row \in LogRow /\ row.req = req.n /\ row.outcome = o
    BY <1>2, <2>1 DEF RowFor, LogRow
  <2>3. PICK S : S = LogRow
    OBVIOUS
  <2>4. PICK at : at = Len(log) + 1
    OBVIOUS
  <2>5. /\ DOMAIN log' = DOMAIN log \cup {at} /\ at \notin DOMAIN log
        /\ log'[at] = row /\ \A k \in DOMAIN log : log'[k] = log[k]
    BY <1>2, <2>1, <2>2, <2>3, <2>4
  <2>6. OneRowPerDraft
    BY InvParts
  <2>7. o \in LlmOutcomes => /\ Returned(req.n)
                             /\ \A k \in DOMAIN log : log[k].req # req.n
    <3> SUFFICES ASSUME o \in LlmOutcomes
                 PROVE  Returned(req.n) /\ \A k \in DOMAIN log : log[k].req # req.n
      OBVIOUS
    <3>1. req.pc = "drafted" /\ req.pc # "template"
      OBVIOUS
    <3>2. /\ calls[req.n] # <<>> /\ calls[req.n][Len(calls[req.n])].kind = "text"
          /\ ~req.unavailable /\ req.unavailable \in BOOLEAN /\ req.rejected = {}
      BY <3>1 DEF DraftingInv, HandInv
    <3>3. req.unavailable = FALSE
      BY <3>2
    <3>4. RowsOf(log, req.n) = {}
      BY <3>2, <3>3, NoRowYet
    <3> QED
      BY <3>2, <3>4 DEF Returned, RowsOf
  <2>8. \A n : Returned(n)' <=> Returned(n)
    BY DEF Returned
  <2>9. ASSUME NEW k \in DOMAIN log', log'[k].outcome \in LlmOutcomes
        PROVE  /\ Returned(log'[k].req)
               /\ \A j \in DOMAIN log' :
                    log'[j].outcome \in LlmOutcomes /\ log'[j].req = log'[k].req => j = k
    <3>1. CASE k = at
      <4>1. o \in LlmOutcomes /\ log'[k].req = req.n
        BY <2>2, <2>5, <2>9, <3>1
      <4> QED
        BY <2>5, <2>7, <3>1, <4>1
    <3>2. CASE k \in DOMAIN log
      <4>1. log'[k] = log[k]
        BY <2>5, <3>2
      <4>2. /\ Returned(log[k].req)
            /\ \A j \in DOMAIN log :
                 log[j].outcome \in LlmOutcomes /\ log[j].req = log[k].req => j = k
        BY <2>6, <2>9, <3>2, <4>1 DEF OneRowPerDraft
      <4>3. log'[at].outcome \in LlmOutcomes => log'[at].req # log[k].req
        BY <2>2, <2>5, <2>7, <3>2
      <4> QED
        BY <2>5, <4>1, <4>2, <4>3
    <3> QED
      BY <2>5, <3>1, <3>2
  <2> QED
    BY <2>2, <2>8, <2>9 DEF OneRowPerDraft
<1> QED
  BY <1>1, <1>2 DEF Left

\* A request that is not answered with a report has nothing to show for.
LEMMA NoReport ==
  ASSUME NEW n, answers[n] = NoAnswer
  PROVE  Good(n)
BY DEF Good, Narrative, NoAnswer

LEMMA NotYetGood ==
  ASSUME QueueInv, MAX_RETRIES \in Nat, NEW n \in 1..MaxRequests, n \notin Asked
  PROVE  Good(n) /\ Frugal(n)
<1>1. Untouched(n)
  BY DEF QueueInv
<1> QED
  BY <1>1, NoReport DEF Untouched, Frugal

-----------------------------------------------------------------------------
(* Steps that touch no answer, no call and no row.                         *)

\* Nothing the ledger or the answers say changes.
LEMMA Spectator ==
  ASSUME DraftingInv, UNCHANGED <<answers, calls, log, configured>>,
         n_requests' \in n_requests..MaxRequests
  PROVE  \A n \in Asked' : Good(n)' /\ Frugal(n)'
<1> SUFFICES ASSUME NEW n \in Asked' PROVE Good(n)' /\ Frugal(n)'
  OBVIOUS
<1>1. MAX_RETRIES \in Nat /\ MaxRequests \in Nat /\ n_requests \in Nat /\ QueueInv
  BY DraftingAssumption DEF DraftingInv, QueueInv
<1>2. n \in 1..MaxRequests
  BY <1>1 DEF Asked
<1>3. Good(n) /\ Frugal(n)
  BY <1>1, <1>2, NotYetGood, InvParts
<1> QED
  BY <1>3 DEF Good, Frugal, Narrative, Told

LEMMA WiderSeq ==
  ASSUME NEW S, NEW T, S \subseteq T, NEW q \in Seq(S)
  PROVE  q \in Seq(T)
<1>1. Len(q) \in Nat /\ q = [i \in 1..Len(q) |-> q[i]]
  OBVIOUS
<1>2. \A i \in 1..Len(q) : q[i] \in T
  OBVIOUS
<1> QED
  BY <1>1, <1>2

LEMMA SeqElements ==
  ASSUME NEW S, NEW q \in Seq(S)
  PROVE  \A k \in DOMAIN q : q[k] \in S
<1>1. DOMAIN q = 1..Len(q) /\ \A k \in 1..Len(q) : q[k] \in S
  OBVIOUS
<1> QED
  BY <1>1

\* The parts of the type invariant, one by one.
LEMMA TypesNext ==
  ASSUME configured' \in BOOLEAN /\ up' \in BOOLEAN,
         stream' # None => \A i, j \in DOMAIN stream' :
                             i <= j => stream'[i].ts <= stream'[j].ts,
         counts' \in [OUTCOMES -> Nat],
         log' \in Seq([req : Asked', outcome : OUTCOMES, whole : BOOLEAN]),
         \A k \in DOMAIN pending' : pending'[k] \in [n : Asked', body : Requests],
         req' # Idle => req'.n \in Asked' /\ req'.attempt \in 1..(MAX_RETRIES + 2),
         DOMAIN answers' = 1..MaxRequests,
         \A n \in 1..MaxRequests :
           answers'[n].status \in {0, 200, 403, 404, 422, 500, 503},
         calls' \in [1..MaxRequests -> Seq(Replies)]
  PROVE  TypeOK'
BY DEF TypeOK

LEMMA TypesNow ==
  ASSUME DraftingInv
  PROVE  /\ configured \in BOOLEAN /\ up \in BOOLEAN
         /\ stream # None => \A i, j \in DOMAIN stream :
                               i <= j => stream[i].ts <= stream[j].ts
         /\ counts \in [OUTCOMES -> Nat]
         /\ log \in Seq([req : Asked, outcome : OUTCOMES, whole : BOOLEAN])
         /\ \A k \in DOMAIN pending : pending[k] \in [n : Asked, body : Requests]
         /\ req # Idle => /\ req.n \in Asked
                          /\ req.attempt \in 1..(MAX_RETRIES + 2)
         /\ DOMAIN answers = 1..MaxRequests
         /\ \A n \in 1..MaxRequests :
              answers[n].status \in {0, 200, 403, 404, 422, 500, 503}
         /\ calls \in [1..MaxRequests -> Seq(Replies)]
BY DEF DraftingInv, TypeOK

LEMMA AskStep ==
  ASSUME DraftingInv, NEW r \in Requests, Ask(r)
  PROVE  DraftingInv'
<1>1. /\ n_requests' = n_requests + 1 /\ n_requests \in Nat
      /\ n_requests' \in n_requests..MaxRequests /\ MaxRequests \in Nat
      /\ UNCHANGED <<configured, stream, up, counts, log, req, answers, calls,
                     forgotten>>
      /\ pending' = Append(pending, [n |-> n_requests + 1, body |-> r])
  BY DraftingAssumption DEF Ask, DraftingInv, QueueInv
<1>2. \A n \in Asked' : Good(n)' /\ Frugal(n)'
  BY <1>1, Spectator
<1>3. Asked' = Asked \cup {n_requests + 1} /\ n_requests + 1 \notin Asked
  BY <1>1 DEF Asked
<1>4. Untouched(n_requests + 1) /\ n_requests + 1 \in 1..MaxRequests
  BY <1>1, <1>3 DEF DraftingInv, QueueInv
<1>5. pending' \in Seq([n : Asked', body : Requests])
  <2>1. pending \in Seq([n : Asked', body : Requests])
    <3>1. [n : Asked, body : Requests] \subseteq [n : Asked', body : Requests]
      BY <1>3
    <3> QED
      BY <3>1, WiderSeq DEF DraftingInv, QueueInv
  <2>2. [n |-> n_requests + 1, body |-> r] \in [n : Asked', body : Requests]
    BY <1>3
  <2> QED
    BY <1>1, <2>1, <2>2
<1>6. /\ Len(pending) \in Nat /\ DOMAIN pending' = 1..(Len(pending) + 1)
      /\ \A k \in DOMAIN pending : k \in 1..Len(pending) /\ pending'[k] = pending[k]
      /\ pending'[Len(pending) + 1].n = n_requests + 1
  BY <1>1 DEF DraftingInv, QueueInv
<1>7. TypeOK'
  <2>1. log \in Seq([req : Asked', outcome : OUTCOMES, whole : BOOLEAN])
    <3>1. [req : Asked, outcome : OUTCOMES, whole : BOOLEAN] \subseteq [req : Asked', outcome : OUTCOMES,
                                                        whole : BOOLEAN]
      BY <1>3
    <3>2. log \in Seq([req : Asked, outcome : OUTCOMES, whole : BOOLEAN])
      BY DEF DraftingInv, TypeOK
    <3> QED
      BY <3>1, <3>2, WiderSeq
  <2>2. \A k \in DOMAIN pending' : pending'[k] \in [n : Asked', body : Requests]
    <3>1. PICK S : S = [n : Asked', body : Requests]
      OBVIOUS
    <3>2. pending' \in Seq(S)
      BY <1>5, <3>1
    <3>3. \A k \in DOMAIN pending' : pending'[k] \in S
      BY <3>2, SeqElements
    <3> QED
      BY <3>1, <3>3
  <2>3. req # Idle => req.n \in Asked' /\ req.attempt \in 1..(MAX_RETRIES + 2)
    BY <1>3 DEF TypeOK, DraftingInv
  <2>4. /\ configured' \in BOOLEAN /\ up' \in BOOLEAN
        /\ stream' # None => \A i, j \in DOMAIN stream' :
                               i <= j => stream'[i].ts <= stream'[j].ts
        /\ counts' \in [OUTCOMES -> Nat]
    BY <1>1 DEF TypeOK, DraftingInv
  <2>5. /\ DOMAIN answers' = 1..MaxRequests
        /\ \A n \in 1..MaxRequests :
             answers'[n].status \in {0, 200, 403, 404, 422, 500, 503}
        /\ calls' \in [1..MaxRequests -> Seq(Replies)]
    BY <1>1 DEF TypeOK, DraftingInv
  <2>6. log' \in Seq([req : Asked', outcome : OUTCOMES, whole : BOOLEAN])
    BY <1>1, <2>1
  <2>7. req' # Idle => req'.n \in Asked' /\ req'.attempt \in 1..(MAX_RETRIES + 2)
    BY <1>1, <2>3
  <2> QED
    BY <2>2, <2>4, <2>5, <2>6, <2>7, TypesNext, Zenon
<1>8. QueueInv'
  <2>1. \A n : Untouched(n)' <=> Untouched(n)
    BY <1>1 DEF Untouched
  <2>2. \A k \in DOMAIN pending : pending[k].n \in Asked /\ Untouched(pending[k].n)
    BY DEF DraftingInv, QueueInv, TypeOK
  <2>3. \A k \in DOMAIN pending' : Untouched(pending'[k].n)
    <3> SUFFICES ASSUME NEW k \in DOMAIN pending' PROVE Untouched(pending'[k].n)
      OBVIOUS
    <3>1. CASE k \in DOMAIN pending
      BY <1>6, <2>2, <3>1
    <3>2. CASE k = Len(pending) + 1
      BY <1>4, <1>6, <3>2
    <3>3. k \in DOMAIN pending \/ k = Len(pending) + 1
      BY <1>1, <1>6 DEF DraftingInv, QueueInv
    <3> QED
      BY <3>1, <3>2, <3>3
  <2>4. \A j, k \in DOMAIN pending' : j # k => pending'[j].n # pending'[k].n
    BY <1>3, <1>6, <2>2 DEF DraftingInv, QueueInv
  <2>5. \A n \in 1..MaxRequests : n \notin Asked' => Untouched(n)
    BY <1>3 DEF DraftingInv, QueueInv
  <2>6. n_requests' \in 0..MaxRequests /\ forgotten' \subseteq Asked'
    BY <1>1, <1>3 DEF DraftingInv, QueueInv
  <2> QED
    BY <1>5, <2>1, <2>3, <2>4, <2>5, <2>6 DEF QueueInv
<1>9. HandInv'
  BY <1>1, <1>3, <1>6 DEF DraftingInv, HandInv
<1>10. DraftsJudged' = DraftsJudged
  BY <1>1, <1>3, <1>4 DEF DraftsJudged, Untouched, Returned
<1>11. OneRowPerDraft'
  BY <1>1, OneRowKept
<1> QED
  BY <1>1, <1>2, <1>7, <1>8, <1>9, <1>10, <1>11, InvPartsNext, InvParts

LEMMA EnvironmentStep ==
  ASSUME DraftingInv, Restart \/ \E s \in Builds : BuildStream(s)
  PROVE  DraftingInv'
<1>1. /\ UNCHANGED <<configured, counts, log, pending, req, answers, calls,
                     forgotten, n_requests>>
      /\ up' \in BOOLEAN /\ (up => up')
      /\ stream' = stream \/ stream' \in Streams
  <2>1. up \in BOOLEAN
    BY DEF DraftingInv, TypeOK
  <2>2. CASE Restart
    BY <2>1, <2>2 DEF Restart
  <2>3. CASE \E s \in Builds : BuildStream(s)
    BY <2>1, <2>3, DraftingAssumption DEF BuildStream
  <2> QED
    BY <2>2, <2>3
<1>2. n_requests \in 0..MaxRequests /\ MaxRequests \in Nat
  BY DraftingAssumption DEF DraftingInv, QueueInv
<1>3. \A n \in Asked' : Good(n)' /\ Frugal(n)'
  BY <1>1, <1>2, Spectator
<1>4. Asked' = Asked
  BY <1>1 DEF Asked
<1>5. TypeOK'
  BY <1>1, <1>4, DraftingAssumption DEF TypeOK, DraftingInv
<1>6. QueueInv'
  BY <1>1, <1>4 DEF DraftingInv, QueueInv, Untouched
<1>7. HandInv'
  BY <1>1, <1>4 DEF DraftingInv, HandInv
<1>8. DraftsJudged' = DraftsJudged
  BY <1>1, <1>4 DEF DraftsJudged, Returned
<1>9. OneRowPerDraft'
  BY <1>1, OneRowKept
<1> QED
  BY <1>1, <1>3, <1>5, <1>6, <1>7, <1>8, <1>9, InvPartsNext, InvParts

LEMMA CrashStep ==
  ASSUME DraftingInv, Crash
  PROVE  DraftingInv'
<1>1. /\ UNCHANGED <<configured, stream, answers, calls, n_requests>>
      /\ up' = FALSE /\ pending' = <<>> /\ req' = Idle /\ counts' = NoCounts
      /\ forgotten' = Asked
  BY DEF Crash, Asked
<1>2. n_requests \in 0..MaxRequests /\ MaxRequests \in Nat
  BY DraftingAssumption DEF DraftingInv, QueueInv
<1>4. Asked' = Asked
  BY <1>1 DEF Asked
<1>12. /\ \/ log' = log
          \/ /\ req # Idle
             /\ \E row \in LogRow : row.req = req.n /\ log' = Append(log, row)
       /\ OneRowPerDraft'
  <2>1. CASE log' = log
    BY <1>1, <2>1, OneRowKept
  <2>2. ASSUME NEW o \in Due, log' \in Left(o)
        PROVE  /\ req # Idle
               /\ \/ log' = log
                  \/ \E row \in LogRow : row.req = req.n /\ log' = Append(log, row)
               /\ OneRowPerDraft'
    <3>1. o \in OUTCOMES /\ req # Idle /\ (o \in LlmOutcomes => req.pc = "drafted")
      BY DEF Due, LlmOutcomes
    <3> QED
      BY <1>1, <2>2, <3>1, RowsAdded
  <2> QED
    BY <2>1, <2>2 DEF Crash
<1>13. \A n : n \notin Asked => RowsOf(log', n) = RowsOf(log, n)
  <2>1. CASE log' = log
    BY <2>1
  <2>2. ASSUME NEW row \in LogRow, row.req = req.n, req # Idle, log' = Append(log, row),
               NEW n, n \notin Asked
        PROVE  RowsOf(log', n) = RowsOf(log, n)
    <3>1. log \in Seq(LogRow) /\ row.req # n
      BY <2>2 DEF DraftingInv, TypeOK, HandInv, LogRow
    <3>2. /\ DOMAIN log' = DOMAIN log \cup {Len(log) + 1}
          /\ log'[Len(log) + 1] = row /\ Len(log) + 1 \notin DOMAIN log
          /\ \A k \in DOMAIN log : log'[k] = log[k]
      BY <2>2, <3>1
    <3> QED
      BY <3>1, <3>2 DEF RowsOf
  <2> QED
    BY <1>12, <2>1, <2>2
<1>3. \A n \in Asked' : Good(n)' /\ Frugal(n)'
  <2> SUFFICES ASSUME NEW n \in Asked PROVE Good(n)' /\ Frugal(n)'
    BY <1>4
  <2>1. Good(n) /\ Frugal(n) /\ TypeOK
    BY InvParts
  <2>2. Frugal(n)'
    BY <1>1, <2>1 DEF Frugal
  <2>3. CASE req # Idle /\ n = req.n
    <3>1. answers'[n] = NoAnswer
      BY <1>1, <2>3 DEF DraftingInv, HandInv
    <3>2. ~Narrative(n)'
      BY <3>1 DEF Narrative, NoAnswer
    <3> QED
      BY <2>2, <3>2 DEF Good
  <2>4. CASE req = Idle \/ n # req.n
    <3>1. log' = log \/ \E row \in LogRow : row.req # n /\ log' = Append(log, row)
      BY <1>12, <2>4
    <3>2. answers'[n] = answers[n] /\ calls'[n] = calls[n]
      BY <1>1
    <3>3. Good(n)'
      BY <2>1, <3>1, <3>2, GoodKept
    <3> QED
      BY <2>2, <3>3
  <2> QED
    BY <2>3, <2>4
<1>5. DOMAIN pending' = {} /\ pending' \in Seq([n : Asked', body : Requests])
  BY <1>1
<1>6. counts' \in [OUTCOMES -> Nat] /\ \A o \in OUTCOMES : counts'[o] = 0
  BY <1>1 DEF NoCounts
<1>7. TypeOK'
  <2>1. /\ configured' \in BOOLEAN /\ up' \in BOOLEAN
        /\ stream' # None => \A i, j \in DOMAIN stream' :
                               i <= j => stream'[i].ts <= stream'[j].ts
    <3>1. configured' \in BOOLEAN
      BY <1>1, TypesNow
    <3>2. up' \in BOOLEAN
      BY <1>1
    <3>3. stream' # None => \A i, j \in DOMAIN stream' :
                               i <= j => stream'[i].ts <= stream'[j].ts
      BY <1>1, TypesNow
    <3> QED
      BY <3>1, <3>2, <3>3
  <2>2. /\ DOMAIN answers' = 1..MaxRequests
        /\ \A n \in 1..MaxRequests :
             answers'[n].status \in {0, 200, 403, 404, 422, 500, 503}
        /\ calls' \in [1..MaxRequests -> Seq(Replies)]
    BY <1>1 DEF TypeOK, DraftingInv
  <2>3. \A k \in DOMAIN pending' : pending'[k] \in [n : Asked', body : Requests]
    BY <1>5
  <2>4. req' # Idle => req'.n \in Asked' /\ req'.attempt \in 1..(MAX_RETRIES + 2)
    BY <1>1
  <2>5. log' \in Seq([req : Asked', outcome : OUTCOMES, whole : BOOLEAN])
    <3>1. PICK S : S = LogRow
      OBVIOUS
    <3>2. log \in Seq(S)
      BY <3>1 DEF TypeOK, DraftingInv, LogRow
    <3>3. log' \in Seq(S)
      BY <1>12, <3>1, <3>2
    <3>4. S = [req : Asked', outcome : OUTCOMES, whole : BOOLEAN]
      BY <1>4, <3>1, Zenon DEF LogRow
    <3> QED
      BY <3>3, <3>4, Zenon
  <2> QED
    BY <1>6, <2>1, <2>2, <2>3, <2>4, <2>5, TypesNext, Zenon
<1>8. QueueInv'
  <2>1. \A n \in 1..MaxRequests : n \notin Asked => Untouched(n)'
    BY <1>1, <1>13 DEF DraftingInv, QueueInv, Untouched
  <2> QED
    BY <1>1, <1>4, <1>5, <2>1 DEF DraftingInv, QueueInv
<1>9. HandInv'
  BY <1>1 DEF HandInv
<1>10. DraftsJudged' = {}
  BY <1>1, <1>4 DEF DraftsJudged
<1>11. attempted(counts') = 0 /\ rejected(counts') = 0
  BY <1>6 DEF attempted, rejected, OUTCOMES, LlmOutcomes
<1> QED
  BY <1>3, <1>7, <1>8, <1>9, <1>10, <1>11, <1>12, FS_EmptySet, InvPartsNext

-----------------------------------------------------------------------------
(* The handlers.                                                           *)

LEMMA TakeEffect ==
  ASSUME DraftingInv, Take, NEW n, n = Head(pending).n, NEW r, r = Head(pending).body
  PROVE  /\ UNCHANGED <<configured, stream, up, counts, log, calls, forgotten,
                        n_requests>>
         /\ up /\ req = Idle /\ pending' = Tail(pending)
         /\ \/ /\ req' = Idle
               /\ \E a : /\ answers' = [answers EXCEPT ![n] = a]
                         /\ a.status \in {200, 403, 404, 500, 503}
                         /\ "narrative" \notin DOMAIN a
            \/ /\ answers' = answers
               /\ Stage(r) \in {"call", "unavailable", "template"}
               /\ Stage(r) = "call" => configured
               /\ req' = [n |-> n, pc |-> Stage(r), file |-> FileFor(r),
                          attempt |-> 1, text |-> {}, rejected |-> {},
                          unavailable |-> FALSE]
<1>1. /\ UNCHANGED <<configured, stream, up, counts, log, calls, forgotten,
                     n_requests>>
      /\ up /\ req = Idle /\ pending' = Tail(pending)
  BY DEF Take
<1>2. \A s \in Refusal(r) : s \in {403, 404, 503}
  BY DEF Refusal
<1>3. \A s : Refused(s).status = s /\ "narrative" \notin DOMAIN Refused(s)
  BY DEF Refused
<1>4. Stage(r) # "raise" =>
        /\ Stage(r) \in {"call", "unavailable", "template"}
        /\ Stage(r) = "call" => configured
  BY DEF Stage
<1>5. PICK a : a = [status |-> 200, file |-> FileFor(r)]
  OBVIOUS
<1>6. a.status = 200 /\ "narrative" \notin DOMAIN a
  BY <1>5
<1>7. \/ \E s \in Refusal(r) :
           answers' = [answers EXCEPT ![n] = Refused(s)] /\ req' = req
      \/ answers' = [answers EXCEPT ![n] = a] /\ req' = req
      \/ answers' = [answers EXCEPT ![n] = Refused(500)] /\ req' = req
      \/ /\ answers' = answers /\ Stage(r) # "raise"
         /\ req' = [n |-> n, pc |-> Stage(r), file |-> FileFor(r),
                    attempt |-> 1, text |-> {}, rejected |-> {},
                    unavailable |-> FALSE]
  BY <1>5 DEF Take
<1> QED
  BY <1>1, <1>2, <1>3, <1>4, <1>6, <1>7

LEMMA TakeStep ==
  ASSUME DraftingInv, Take
  PROVE  DraftingInv'
<1>1. PICK n : n = Head(pending).n
  OBVIOUS
<1>2. PICK r : r = Head(pending).body
  OBVIOUS
<1>3. /\ UNCHANGED <<configured, stream, up, counts, log, calls, forgotten,
                     n_requests>>
      /\ up /\ req = Idle /\ pending' = Tail(pending)
      /\ \/ /\ req' = Idle
            /\ \E a : /\ answers' = [answers EXCEPT ![n] = a]
                      /\ a.status \in {200, 403, 404, 500, 503}
                      /\ "narrative" \notin DOMAIN a
         \/ /\ answers' = answers
            /\ Stage(r) \in {"call", "unavailable", "template"}
            /\ Stage(r) = "call" => configured
            /\ req' = [n |-> n, pc |-> Stage(r), file |-> FileFor(r),
                       attempt |-> 1, text |-> {}, rejected |-> {},
                       unavailable |-> FALSE]
  BY <1>1, <1>2, TakeEffect
<1>4. /\ MAX_RETRIES \in Nat /\ MaxRequests \in Nat /\ n_requests \in 0..MaxRequests
      /\ Asked' = Asked /\ Asked \subseteq 1..MaxRequests
  BY <1>3, DraftingAssumption DEF DraftingInv, QueueInv, Asked
<1>5. PICK P : P = [n : Asked, body : Requests]
  OBVIOUS
<1>6. /\ pending \in Seq(P) /\ pending # <<>>
      /\ Head(pending) = pending[1] /\ 1 \in DOMAIN pending
      /\ pending' \in Seq(P) /\ DOMAIN pending' = 1..(Len(pending) - 1)
      /\ \A k \in DOMAIN pending' : k + 1 \in DOMAIN pending
                                    /\ pending'[k] = pending[k + 1]
  BY <1>3, <1>5 DEF Take, DraftingInv, QueueInv
<1>7. n \in Asked /\ Untouched(n)
  <2>1. pending[1] \in P
    BY <1>6, SeqElements
  <2> QED
    BY <1>1, <1>5, <1>6, <2>1 DEF DraftingInv, QueueInv
<1>8. \A k \in DOMAIN pending' : pending'[k].n # n
  BY <1>1, <1>6 DEF DraftingInv, QueueInv
<1>9. /\ DOMAIN answers' = 1..MaxRequests
      /\ \A m \in 1..MaxRequests : m # n => answers'[m] = answers[m]
      /\ answers'[n] = answers[n]
         \/ /\ answers'[n].status \in {200, 403, 404, 500, 503}
            /\ "narrative" \notin DOMAIN answers'[n]
  <2>1. DOMAIN answers = 1..MaxRequests /\ n \in 1..MaxRequests
    BY <1>4, <1>7 DEF DraftingInv, TypeOK
  <2>2. CASE answers' = answers
    BY <2>1, <2>2
  <2>3. ASSUME NEW a, answers' = [answers EXCEPT ![n] = a],
               a.status \in {200, 403, 404, 500, 503}, "narrative" \notin DOMAIN a
        PROVE  /\ DOMAIN answers' = 1..MaxRequests
               /\ \A m \in 1..MaxRequests : m # n => answers'[m] = answers[m]
               /\ answers'[n] = a
    BY <2>1, <2>3
  <2> QED
    BY <1>3, <2>2, <2>3
<1>10. UNCHANGED <<configured, log, calls, forgotten, n_requests, counts>>
  BY <1>3
<1>11. \A m \in Asked : Good(m)' /\ Frugal(m)'
  <2> SUFFICES ASSUME NEW m \in Asked PROVE Good(m)' /\ Frugal(m)'
    OBVIOUS
  <2>1. Good(m) /\ Frugal(m)
    BY InvParts
  <2>2. Frugal(m)'
    BY <1>10, <2>1 DEF Frugal
  <2>3. CASE answers'[m] = answers[m]
    BY <1>10, <2>1, <2>2, <2>3, GoodKept DEF DraftingInv
  <2>4. CASE "narrative" \notin DOMAIN answers'[m]
    <3>1. ~Narrative(m)'
      BY <2>4 DEF Narrative
    <3> QED
      BY <2>2, <3>1 DEF Good
  <2>5. answers'[m] = answers[m] \/ "narrative" \notin DOMAIN answers'[m]
    <3>1. CASE m # n
      BY <1>4, <1>9, <3>1
    <3>2. CASE m = n
      BY <1>9, <3>2
    <3> QED
      BY <3>1, <3>2
  <2> QED
    BY <2>3, <2>4, <2>5
<1>12. TypeOK'
  <2>1. \A k \in DOMAIN pending' : pending'[k] \in [n : Asked', body : Requests]
    BY <1>4, <1>5, <1>6, SeqElements
  <2>2. req' # Idle => req'.n \in Asked' /\ req'.attempt \in 1..(MAX_RETRIES + 2)
    BY <1>3, <1>4, <1>7
  <2>3. /\ DOMAIN answers' = 1..MaxRequests
        /\ \A m \in 1..MaxRequests :
             answers'[m].status \in {0, 200, 403, 404, 422, 500, 503}
    BY <1>9 DEF DraftingInv, TypeOK
  <2> QED
    BY <1>3, <1>4, <2>1, <2>2, <2>3 DEF TypeOK, DraftingInv
<1>13. QueueInv'
  <2>1. \A m \in 1..MaxRequests : m # n /\ Untouched(m) => Untouched(m)'
    BY <1>10, <1>9 DEF Untouched
  <2>2. \A k \in DOMAIN pending' : Untouched(pending[k].n)'
    <3> SUFFICES ASSUME NEW k \in DOMAIN pending' PROVE Untouched(pending[k].n)'
      OBVIOUS
    <3>1. pending'[k] \in P /\ pending'[k].n # n
      BY <1>6, <1>8, SeqElements
    <3>2. PICK m : m = pending'[k].n
      OBVIOUS
    <3>3. m \in 1..MaxRequests /\ m # n
      BY <1>4, <1>5, <3>1, <3>2
    <3>4. Untouched(m)
      BY <1>6, <3>2 DEF DraftingInv, QueueInv
    <3>5. Untouched(m)'
      BY <2>1, <3>3, <3>4
    <3> QED
      BY <1>10, <3>2, <3>5 DEF Untouched
  <2>3. \A j, k \in DOMAIN pending' : j # k => pending'[j].n # pending'[k].n
    BY <1>6 DEF DraftingInv, QueueInv
  <2>4. \A m \in 1..MaxRequests : m \notin Asked => Untouched(m)'
    BY <1>7, <2>1 DEF DraftingInv, QueueInv
  <2>5. forgotten' \subseteq Asked'
    BY <1>10, <1>4 DEF QueueInv, DraftingInv
  <2> QED
    BY <1>10, <1>4, <1>5, <1>6, <2>2, <2>3, <2>4, <2>5 DEF QueueInv
<1>14. HandInv'
  <2> SUFFICES ASSUME req' # Idle PROVE HandInv'
    BY DEF HandInv
  <2>1. /\ answers' = answers
        /\ Stage(r) \in {"call", "unavailable", "template"}
        /\ Stage(r) = "call" => configured
        /\ req' = [n |-> n, pc |-> Stage(r), file |-> FileFor(r),
                   attempt |-> 1, text |-> {}, rejected |-> {},
                   unavailable |-> FALSE]
    BY <1>3
  <2>2. PICK q : q = req'
    OBVIOUS
  <2>3. /\ q.n = n /\ q.pc = Stage(r) /\ q.file = FileFor(r) /\ q.attempt = 1
        /\ q.text = {} /\ q.rejected = {} /\ q.unavailable = FALSE
        /\ q = [n |-> q.n, pc |-> q.pc, file |-> q.file,
                attempt |-> q.attempt, text |-> q.text,
                rejected |-> q.rejected, unavailable |-> q.unavailable]
    BY <2>1, <2>2
  <2>4. /\ calls'[n] = <<>> /\ answers'[n] = NoAnswer /\ n \in Asked' \ forgotten'
        /\ RowsOf(log', n) = {}
    BY <1>3, <1>4, <1>7, <2>1 DEF Untouched
  <2>5. Tells(log', n, <<>>)
    BY <2>4, TellsNothing
  <2>6. Fallback(q) = <<>>
    BY <2>3 DEF Fallback
  <2>7. Len(calls'[n]) = 0 /\ DOMAIN calls'[n] = {}
    BY <2>4
  <2> QED
    BY <1>3, <1>4, <1>8, <2>1, <2>2, <2>3, <2>4, <2>5, <2>6, <2>7 DEF HandInv
<1>15. DraftsJudged' = DraftsJudged
  <2>1. req' # Idle => req'.n = n /\ calls[n] = <<>>
    BY <1>3, <1>7 DEF Untouched
  <2> QED
    BY <1>3, <1>4, <2>1 DEF DraftsJudged, Returned
<1>16. OneRowPerDraft'
  BY <1>10, OneRowKept
<1> QED
  BY <1>3, <1>4, <1>11, <1>12, <1>13, <1>14, <1>15, <1>16, InvPartsNext, InvParts

\* The request in hand is a record; what EXCEPT makes of it, field by field.
IsHand(q) == q = [n |-> q.n, pc |-> q.pc, file |-> q.file,
                  attempt |-> q.attempt, text |-> q.text,
                  rejected |-> q.rejected, unavailable |-> q.unavailable]

LEMMA AttemptedRecord ==
  ASSUME NEW q, IsHand(q), NEW p, NEW t
  PROVE  [q EXCEPT !.pc = p, !.attempt = @ + 1, !.text = t]
           = [n |-> q.n, pc |-> p, file |-> q.file, attempt |-> q.attempt + 1,
              text |-> t, rejected |-> q.rejected, unavailable |-> q.unavailable]
<1>1. PICK q1 : q1 = [q EXCEPT !.pc = p]
  OBVIOUS
<1>2. PICK q2 : q2 = [q1 EXCEPT !.attempt = @ + 1]
  OBVIOUS
<1>3. PICK q3 : q3 = [q2 EXCEPT !.text = t]
  OBVIOUS
<1>4. q3 = [n |-> q.n, pc |-> p, file |-> q.file, attempt |-> q.attempt + 1,
            text |-> t, rejected |-> q.rejected, unavailable |-> q.unavailable]
  BY <1>1, <1>2, <1>3 DEF IsHand
<1>5. q3 = [q EXCEPT !.pc = p, !.attempt = @ + 1, !.text = t]
  BY <1>1, <1>2, <1>3 DEF IsHand
<1> QED
  BY <1>4, <1>5

LEMMA UnavailableRecord ==
  ASSUME NEW q, IsHand(q), NEW p
  PROVE  [q EXCEPT !.pc = p, !.unavailable = TRUE]
           = [n |-> q.n, pc |-> p, file |-> q.file, attempt |-> q.attempt,
              text |-> q.text, rejected |-> q.rejected, unavailable |-> TRUE]
<1>1. PICK q1 : q1 = [q EXCEPT !.pc = p]
  OBVIOUS
<1>2. PICK q2 : q2 = [q1 EXCEPT !.unavailable = TRUE]
  OBVIOUS
<1>3. q2 = [n |-> q.n, pc |-> p, file |-> q.file, attempt |-> q.attempt,
            text |-> q.text, rejected |-> q.rejected, unavailable |-> TRUE]
  BY <1>1, <1>2 DEF IsHand
<1>4. q2 = [q EXCEPT !.pc = p, !.unavailable = TRUE]
  BY <1>1, <1>2 DEF IsHand
<1> QED
  BY <1>3, <1>4

LEMMA RejectedRecord ==
  ASSUME NEW q, IsHand(q), NEW p, NEW t
  PROVE  [q EXCEPT !.pc = p, !.rejected = t]
           = [n |-> q.n, pc |-> p, file |-> q.file, attempt |-> q.attempt,
              text |-> q.text, rejected |-> t, unavailable |-> q.unavailable]
<1>1. PICK q1 : q1 = [q EXCEPT !.pc = p]
  OBVIOUS
<1>2. PICK q2 : q2 = [q1 EXCEPT !.rejected = t]
  OBVIOUS
<1>3. q2 = [n |-> q.n, pc |-> p, file |-> q.file, attempt |-> q.attempt,
            text |-> q.text, rejected |-> t, unavailable |-> q.unavailable]
  BY <1>1, <1>2 DEF IsHand
<1>4. q2 = [q EXCEPT !.pc = p, !.rejected = t]
  BY <1>1, <1>2 DEF IsHand
<1> QED
  BY <1>3, <1>4

LEMMA HandRecord ==
  ASSUME DraftingInv, req # Idle
  PROVE  /\ IsHand(req)
         /\ up /\ req.n \in Asked /\ req.n \notin forgotten
         /\ Asked \subseteq 1..MaxRequests
         /\ answers[req.n] = NoAnswer
         /\ calls[req.n] \in Seq(Replies)
         /\ DOMAIN answers = 1..MaxRequests /\ DOMAIN calls = 1..MaxRequests
         /\ log \in Seq(LogRow)
         /\ counts \in [OUTCOMES -> Nat]
         /\ Tells(log, req.n, Fallback(req))
         /\ req.attempt \in Nat
<1>1. MaxRequests \in Nat /\ MAX_RETRIES \in Nat
  BY DraftingAssumption
<1>2. Asked \subseteq 1..MaxRequests
  BY <1>1 DEF DraftingInv, QueueInv, Asked
<1>3. log \in Seq(LogRow)
  BY Zenon DEF DraftingInv, TypeOK, LogRow
<1>4. /\ calls \in [1..MaxRequests -> Seq(Replies)] /\ counts \in [OUTCOMES -> Nat]
      /\ DOMAIN answers = 1..MaxRequests
      /\ req.n \in Asked /\ req.attempt \in 1..(MAX_RETRIES + 2)
  BY DEF DraftingInv, TypeOK
<1>5. /\ IsHand(req) /\ up /\ req.n \notin forgotten /\ answers[req.n] = NoAnswer
      /\ Tells(log, req.n, Fallback(req))
  BY DEF DraftingInv, HandInv, IsHand
<1>6. calls[req.n] \in Seq(Replies) /\ DOMAIN calls = 1..MaxRequests
  BY <1>2, <1>4
<1>7. req.attempt \in Nat
  BY <1>1, <1>4
<1> QED
  BY <1>2, <1>3, <1>4, <1>5, <1>6, <1>7

\* What the next state's request in hand has to satisfy.
LEMMA HandNext ==
  ASSUME NEW r, req' = r, IsHand(r), up', r.n \in Asked', r.n \notin forgotten',
         answers'[r.n] = NoAnswer, \A k \in DOMAIN pending' : pending'[k].n # r.n,
         r.unavailable \in BOOLEAN,
         r.pc \in {"call", "drafted", "unavailable", "template"},
         NEW c, c = calls'[r.n],
         r.pc = "call" =>
           /\ configured' /\ Len(c) = r.attempt - 1 /\ r.attempt <= MAX_RETRIES + 1
           /\ \A k \in DOMAIN c : c[k].kind \in Retried,
         r.pc = "drafted" =>
           /\ c # <<>> /\ c[Len(c)].kind = "text" /\ c[Len(c)].text = r.text,
         r.pc = "unavailable" /\ c # <<>> => c[Len(c)].kind # "text",
         r.pc # "template" => ~r.unavailable /\ r.rejected = {},
         r.rejected # {} => ~Verified(r.rejected, valid_citation_ids(r.file)),
         Tells(log', r.n, Fallback(r))
  PROVE  HandInv'
BY DEF HandInv, IsHand

\* A step on the request in hand leaves the other requests as they were.
LEMMA OthersKept ==
  ASSUME DraftingInv, req # Idle,
         UNCHANGED <<configured, pending, forgotten, n_requests>>,
         DOMAIN answers' = 1..MaxRequests, DOMAIN calls' = 1..MaxRequests,
         \A m \in 1..MaxRequests :
           m # req.n => answers'[m] = answers[m] /\ calls'[m] = calls[m],
         \/ log' = log
         \/ \E row \in LogRow : row.req = req.n /\ log' = Append(log, row)
  PROVE  /\ Asked' = Asked /\ QueueInv' /\ log' \in Seq(LogRow)
         /\ \A m \in Asked : m # req.n => Good(m)' /\ Frugal(m)'
<1>1. /\ Asked' = Asked /\ Asked \subseteq 1..MaxRequests /\ req.n \in Asked
      /\ log \in Seq(LogRow)
  BY HandRecord DEF Asked
<1>2. log' \in Seq(LogRow)
  BY <1>1
<1>3. ASSUME NEW m, m # req.n PROVE RowsOf(log', m) = RowsOf(log, m)
  <2>1. CASE log' = log
    BY <2>1
  <2>2. ASSUME NEW row \in LogRow, row.req = req.n, log' = Append(log, row)
        PROVE  RowsOf(log', m) = RowsOf(log, m)
    <3>1. /\ Len(log) \in Nat /\ DOMAIN log = 1..Len(log)
          /\ DOMAIN log' = 1..(Len(log) + 1) /\ log'[Len(log) + 1] = row
          /\ \A k \in 1..Len(log) : log'[k] = log[k]
      BY <1>1, <2>2
    <3>2. \A k \in RowsOf(log', m) : k \in RowsOf(log, m)
      <4> SUFFICES ASSUME NEW k \in RowsOf(log', m) PROVE k \in RowsOf(log, m)
        OBVIOUS
      <4>1. k \in 1..(Len(log) + 1) /\ log'[k].req = m
        BY <3>1 DEF RowsOf
      <4>2. k # Len(log) + 1
        BY <1>3, <2>2, <3>1, <4>1
      <4> QED
        BY <3>1, <4>1, <4>2 DEF RowsOf
    <3>3. \A k \in RowsOf(log, m) : k \in RowsOf(log', m)
      BY <3>1 DEF RowsOf
    <3> QED
      BY <3>2, <3>3
  <2> QED
    BY <2>1, <2>2
<1>4. \A m \in 1..MaxRequests : m # req.n /\ Untouched(m) => Untouched(m)'
  BY <1>3 DEF Untouched
<1>5. QueueInv'
  <2>1. \A k \in DOMAIN pending : pending[k].n \in Asked /\ pending[k].n # req.n
    BY DEF DraftingInv, TypeOK, HandInv
  <2>2. \A k \in DOMAIN pending : Untouched(pending[k].n)'
    <3> SUFFICES ASSUME NEW k \in DOMAIN pending PROVE Untouched(pending[k].n)'
      OBVIOUS
    <3>1. PICK m : m = pending[k].n
      OBVIOUS
    <3>2. Untouched(m) /\ m \in 1..MaxRequests /\ m # req.n
      BY <1>1, <2>1, <3>1 DEF DraftingInv, QueueInv
    <3>3. Untouched(m)'
      BY <1>4, <3>2
    <3> QED
      BY <3>1, <3>3 DEF Untouched
  <2>3. \A m \in 1..MaxRequests : m \notin Asked => Untouched(m)'
    BY <1>1, <1>4 DEF DraftingInv, QueueInv
  <2> QED
    BY <1>1, <2>2, <2>3 DEF DraftingInv, QueueInv
<1>6. ASSUME NEW m \in Asked, m # req.n PROVE Good(m)' /\ Frugal(m)'
  <2>1. Good(m) /\ Frugal(m) /\ m \in 1..MaxRequests
    BY <1>1, InvParts
  <2>2. answers'[m] = answers[m] /\ calls'[m] = calls[m]
    BY <1>6, <2>1
  <2>3. Good(m)'
    BY <1>6, <2>1, <2>2, GoodKept DEF DraftingInv
  <2>4. Frugal(m)'
    BY <2>1, <2>2 DEF Frugal
  <2> QED
    BY <2>3, <2>4
<1> QED
  BY <1>1, <1>2, <1>5, <1>6

\* A handler that ends without a report.
LEMMA Ended ==
  ASSUME DraftingInv, NEW n \in 1..MaxRequests, DOMAIN answers = 1..MaxRequests,
         \/ answers' = [answers EXCEPT ![n] = Refused(422)]
         \/ answers' = [answers EXCEPT ![n] = Refused(500)],
         req' = Idle
  PROVE  /\ DOMAIN answers' = 1..MaxRequests
         /\ \A m \in 1..MaxRequests : m # n => answers'[m] = answers[m]
         /\ answers'[n].status \in {0, 200, 422, 500}
         /\ Good(n)' /\ HandInv'
<1>1. /\ answers'[n].status \in {422, 500}
      /\ \A m \in 1..MaxRequests : m # n => answers'[m] = answers[m]
      /\ DOMAIN answers' = 1..MaxRequests
  <2>1. Refused(422).status = 422 /\ Refused(500).status = 500
    BY DEF Refused
  <2>2. ASSUME NEW a, a.status \in {422, 500}, answers' = [answers EXCEPT ![n] = a]
        PROVE  /\ answers'[n].status \in {422, 500}
               /\ \A m \in 1..MaxRequests : m # n => answers'[m] = answers[m]
               /\ DOMAIN answers' = 1..MaxRequests
    BY <2>2
  <2> QED
    BY <2>1, <2>2
<1>2. ~Narrative(n)'
  BY <1>1 DEF Narrative
<1> QED
  BY <1>1, <1>2 DEF Good, HandInv

\* A reply concerns a request that has no row yet.
LEMMA OneRowAfterReply ==
  ASSUME DraftingInv, req # Idle, req.pc = "call", log' = log,
         \A m \in 1..MaxRequests : m # req.n => calls'[m] = calls[m]
  PROVE  OneRowPerDraft'
<1>1. req.unavailable = FALSE /\ req.rejected = {}
  <2>1. req.pc # "template"
    OBVIOUS
  <2>2. ~req.unavailable /\ req.unavailable \in BOOLEAN /\ req.rejected = {}
    BY <2>1 DEF DraftingInv, HandInv
  <2> QED
    BY <2>2
<1>2. RowsOf(log, req.n) = {}
  BY <1>1, NoRowYet
<1>3. \A k \in DOMAIN log : log[k].req \in 1..MaxRequests /\ log[k].req # req.n
  <2>1. log \in Seq(LogRow) /\ Asked \subseteq 1..MaxRequests
    BY HandRecord
  <2>2. \A k \in DOMAIN log : log[k] \in LogRow
    BY <2>1, SeqElements
  <2> QED
    BY <1>2, <2>1, <2>2 DEF RowsOf, LogRow
<1>4. OneRowPerDraft
  BY InvParts
<1>5. \A k \in DOMAIN log : Returned(log[k].req)' <=> Returned(log[k].req)
  BY <1>3 DEF Returned
<1> QED
  BY <1>4, <1>5 DEF OneRowPerDraft

\* A call that raises ends its request.
LEMMA RaisedStep ==
  ASSUME DraftingInv, NEW reply \in Replies, ProviderReplies(reply),
         reply.kind = "raised"
  PROVE  DraftingInv'
<1>1. PICK n : n = req.n
  OBVIOUS
<1>2. /\ req # Idle /\ req.pc = "call" /\ req' = Idle
      /\ calls' = [calls EXCEPT ![n] = Append(@, reply)]
      /\ answers' = [answers EXCEPT ![n] = Refused(500)]
      /\ UNCHANGED <<configured, stream, up, counts, log, pending, forgotten,
                     n_requests>>
  BY <1>1 DEF ProviderReplies, At, Answer
<1>3. /\ n \in Asked /\ n \in 1..MaxRequests /\ calls[n] \in Seq(Replies)
      /\ DOMAIN answers = 1..MaxRequests /\ DOMAIN calls = 1..MaxRequests
  BY <1>1, <1>2, HandRecord
<1>4. PICK c : c = Append(calls[n], reply)
  OBVIOUS
<1>5. /\ calls'[n] = c /\ DOMAIN calls' = 1..MaxRequests
      /\ \A m \in 1..MaxRequests : m # n => calls'[m] = calls[m]
  BY <1>2, <1>3, <1>4
<1>6. /\ configured /\ Len(calls[n]) = req.attempt - 1
      /\ req.attempt \in Nat /\ req.attempt <= MAX_RETRIES + 1
      /\ \A k \in DOMAIN calls[n] : calls[n][k].kind \in Retried
      /\ MAX_RETRIES \in Nat
  BY <1>1, <1>2, HandRecord, DraftingAssumption DEF DraftingInv, HandInv
<1>7. /\ c \in Seq(Replies) /\ Len(c) = req.attempt /\ c[Len(c)] = reply
      /\ \A k \in 1..(Len(c) - 1) : c[k].kind \in Retried
  BY <1>3, <1>4, <1>6
<1>8. /\ DOMAIN answers' = 1..MaxRequests
      /\ \A m \in 1..MaxRequests : m # n => answers'[m] = answers[m]
      /\ answers'[n].status \in {0, 200, 422, 500}
      /\ Good(n)' /\ HandInv'
  BY <1>2, <1>3, Ended
<1>9. /\ Asked' = Asked /\ QueueInv' /\ log' \in Seq(LogRow)
      /\ \A m \in Asked : m # n => Good(m)' /\ Frugal(m)'
  BY <1>1, <1>2, <1>5, <1>8, OthersKept
<1>10. Frugal(n)'
  BY <1>2, <1>5, <1>6, <1>7 DEF Frugal
<1>11. TypeOK'
  <2>1. /\ configured' \in BOOLEAN /\ up' \in BOOLEAN
        /\ stream' # None => \A i, j \in DOMAIN stream' :
                               i <= j => stream'[i].ts <= stream'[j].ts
        /\ counts' \in [OUTCOMES -> Nat]
    BY <1>2, TypesNow
  <2>2. \A m \in 1..MaxRequests :
          answers'[m].status \in {0, 200, 403, 404, 422, 500, 503}
    <3>1. \A m \in 1..MaxRequests :
            answers[m].status \in {0, 200, 403, 404, 422, 500, 503}
      BY TypesNow
    <3> QED
      BY <1>8, <3>1
  <2>3. log' \in Seq([req : Asked', outcome : OUTCOMES, whole : BOOLEAN])
    <3>1. LogRow = [req : Asked', outcome : OUTCOMES, whole : BOOLEAN]
      BY <1>9, Zenon DEF LogRow
    <3> QED
      BY <1>9, <3>1, Zenon
  <2>4. \A k \in DOMAIN pending' : pending'[k] \in [n : Asked', body : Requests]
    <3>1. \A k \in DOMAIN pending : pending[k] \in [n : Asked, body : Requests]
      BY TypesNow
    <3>2. pending' = pending /\ Asked' = Asked
      BY <1>2, <1>9
    <3> QED
      BY <3>1, <3>2, Zenon
  <2>5. calls' \in [1..MaxRequests -> Seq(Replies)]
    <3>1. calls' = [calls EXCEPT ![n] = c]
      BY <1>2, <1>3, <1>4
    <3>2. calls \in [1..MaxRequests -> Seq(Replies)] /\ c \in Seq(Replies)
      BY <1>7, TypesNow
    <3> QED
      BY <3>1, <3>2
  <2> QED
    BY <1>2, <1>8, <2>1, <2>2, <2>3, <2>4, <2>5, TypesNext
<1>12. DraftsJudged' = DraftsJudged
  <2>1. n \notin DraftsJudged
    <3>1. calls[n] # <<>> => Len(calls[n]) \in DOMAIN calls[n]
      BY <1>3
    <3>2. calls[n] # <<>> => calls[n][Len(calls[n])].kind \in Retried
      BY <1>6, <3>1
    <3> QED
      BY <3>2 DEF DraftsJudged, Returned, Retried
  <2>2. n \notin DraftsJudged'
    BY <1>5, <1>7 DEF DraftsJudged, Returned
  <2>3. \A m \in Asked : m # n => (m \in DraftsJudged' <=> m \in DraftsJudged)
    BY <1>1, <1>2, <1>3, <1>5, <1>9 DEF DraftsJudged, Returned
  <2> QED
    BY <1>9, <2>1, <2>2, <2>3 DEF DraftsJudged
<1>13. OneRowPerDraft'
  BY <1>1, <1>2, <1>5, OneRowAfterReply
<1>14. attempted(counts') = Cardinality(DraftsJudged') /\ rejected(counts') <= attempted(counts')
  BY <1>2, <1>12, InvParts
<1>15. \A m \in Asked' : Good(m)' /\ Frugal(m)'
  BY <1>8, <1>9, <1>10
<1> QED
  BY <1>8, <1>9, <1>11, <1>13, <1>14, <1>15, InvPartsNext

LEMMA ReplyStep ==
  ASSUME DraftingInv, NEW reply \in Replies, ProviderReplies(reply),
         reply.kind # "raised"
  PROVE  DraftingInv'
<1>1. PICK q : q = req
  OBVIOUS
<1>2. /\ up /\ q # Idle /\ q.pc = "call"
      /\ calls' = [calls EXCEPT ![q.n] = Append(@, reply)]
      /\ req' = [q EXCEPT !.pc = AfterReply(reply), !.attempt = @ + 1,
                          !.text = reply.text]
      /\ UNCHANGED <<configured, stream, up, counts, log, pending, answers,
                     forgotten, n_requests>>
  BY <1>1 DEF ProviderReplies, At
<1>3. /\ IsHand(q)
      /\ up /\ q.n \in Asked /\ q.n \notin forgotten
      /\ Asked \subseteq 1..MaxRequests
      /\ answers[q.n] = NoAnswer
      /\ calls[q.n] \in Seq(Replies)
      /\ DOMAIN answers = 1..MaxRequests /\ DOMAIN calls = 1..MaxRequests
      /\ log \in Seq(LogRow)
      /\ Tells(log, q.n, Fallback(q))
      /\ q.attempt \in Nat
  BY <1>1, <1>2, HandRecord
<1>4. /\ configured /\ Len(calls[q.n]) = q.attempt - 1
      /\ q.attempt <= MAX_RETRIES + 1 /\ q.attempt \in 1..(MAX_RETRIES + 2)
      /\ \A k \in DOMAIN calls[q.n] : calls[q.n][k].kind \in Retried
      /\ ~q.unavailable /\ q.rejected = {} /\ q.unavailable \in BOOLEAN
      /\ MAX_RETRIES \in Nat
      /\ \A k \in DOMAIN pending : pending[k].n # q.n
  BY <1>1, <1>2, DraftingAssumption DEF DraftingInv, HandInv, TypeOK
<1>5. PICK p : p = AfterReply(reply)
  OBVIOUS
<1>6. PICK r : r = [n |-> q.n, pc |-> p, file |-> q.file, attempt |-> q.attempt + 1,
                    text |-> reply.text, rejected |-> q.rejected,
                    unavailable |-> q.unavailable]
  OBVIOUS
<1>7. req' = r
  <2>1. req' = [q EXCEPT !.pc = p, !.attempt = @ + 1, !.text = reply.text]
    BY <1>2, <1>5
  <2> QED
    BY <1>3, <1>6, <2>1, AttemptedRecord
<1>8. /\ p \in {"drafted", "call", "unavailable"}
      /\ p = "drafted" <=> reply.kind = "text"
      /\ p = "call" => reply.kind \in Retried /\ q.attempt <= MAX_RETRIES
  BY <1>1, <1>5 DEF AfterReply, Retried
<1>9. PICK c : c = calls'[q.n]
  OBVIOUS
<1>10. /\ c = Append(calls[q.n], reply) /\ DOMAIN calls' = 1..MaxRequests
       /\ \A m \in 1..MaxRequests : m # q.n => calls'[m] = calls[m]
  BY <1>2, <1>3, <1>9
<1>11. /\ c \in Seq(Replies) /\ Len(c) = q.attempt /\ c # <<>> /\ c[Len(c)] = reply
       /\ DOMAIN c = 1..q.attempt
       /\ \A k \in 1..(Len(c) - 1) : c[k].kind \in Retried
  <2>1. PICK old : old = calls[q.n]
    OBVIOUS
  <2>2. /\ old \in Seq(Replies) /\ c = Append(old, reply)
        /\ Len(old) = q.attempt - 1
        /\ \A k \in DOMAIN old : old[k].kind \in Retried
    BY <1>3, <1>4, <1>10, <2>1
  <2>3. /\ c \in Seq(Replies) /\ Len(c) = Len(old) + 1 /\ c[Len(old) + 1] = reply
        /\ Len(old) \in Nat /\ DOMAIN c = 1..(Len(old) + 1)
        /\ \A k \in 1..Len(old) : c[k] = old[k] /\ k \in DOMAIN old
    BY <2>2
  <2>4. Len(old) + 1 = q.attempt
    BY <1>3, <2>2, <2>3
  <2>5. c \in Seq(Replies) /\ Len(c) = q.attempt /\ c[Len(c)] = reply
    BY <2>3, <2>4
  <2>6. DOMAIN c = 1..q.attempt
    BY <2>3, <2>4
  <2>7. c # <<>>
    <3>1. Len(c) = Len(old) + 1 /\ Len(old) \in Nat
      BY <2>3
    <3>2. Len(c) # 0
      BY ONLY <3>1
    <3> QED
      BY <3>2
  <2>8. Len(c) - 1 = Len(old)
    <3>1. Len(c) = Len(old) + 1 /\ Len(old) \in Nat
      BY <2>3
    <3> QED
      BY ONLY <3>1
  <2>9. \A k \in 1..(Len(c) - 1) : c[k].kind \in Retried
    <3> SUFFICES ASSUME NEW k \in 1..Len(old) PROVE c[k].kind \in Retried
      BY <2>8, Zenon
    <3>1. c[k] = old[k] /\ k \in DOMAIN old
      BY <2>3
    <3> QED
      BY <2>2, <3>1
  <2> QED
    BY <2>5, <2>6, <2>7, <2>9
<1>12. /\ Asked' = Asked /\ QueueInv' /\ log' \in Seq(LogRow)
       /\ \A m \in Asked : m # q.n => Good(m)' /\ Frugal(m)'
  BY <1>1, <1>2, <1>3, <1>10, OthersKept
<1>13. Good(q.n)' /\ Frugal(q.n)'
  <2>1. ~Narrative(q.n)'
    BY <1>1, <1>2, <1>3 DEF Narrative, NoAnswer
  <2> QED
    BY <2>1, <1>2, <1>4, <1>9, <1>11 DEF Good, Frugal
<1>14. TypeOK'
  <2>1. /\ configured' \in BOOLEAN /\ up' \in BOOLEAN
        /\ stream' # None => \A i, j \in DOMAIN stream' :
                               i <= j => stream'[i].ts <= stream'[j].ts
        /\ counts' \in [OUTCOMES -> Nat]
    BY <1>2, TypesNow
  <2>2. /\ DOMAIN answers' = 1..MaxRequests
        /\ \A n \in 1..MaxRequests :
             answers'[n].status \in {0, 200, 403, 404, 422, 500, 503}
    BY <1>2, TypesNow
  <2>3. log' \in Seq([req : Asked', outcome : OUTCOMES, whole : BOOLEAN])
    <3>1. LogRow = [req : Asked', outcome : OUTCOMES, whole : BOOLEAN]
      BY <1>12, Zenon DEF LogRow
    <3> QED
      BY <1>12, <3>1, Zenon
  <2>4. \A k \in DOMAIN pending' : pending'[k] \in [n : Asked', body : Requests]
    <3>1. \A k \in DOMAIN pending : pending[k] \in [n : Asked, body : Requests]
      BY TypesNow
    <3>2. pending' = pending /\ Asked' = Asked
      BY <1>2, <1>12
    <3> QED
      BY <3>1, <3>2, Zenon
  <2>5. req'.n \in Asked' /\ req'.attempt \in 1..(MAX_RETRIES + 2)
    <3>1. r.n = q.n /\ r.attempt = q.attempt + 1
      BY <1>6
    <3> QED
      BY <1>3, <1>4, <1>7, <1>12, <3>1
  <2>6. calls' \in [1..MaxRequests -> Seq(Replies)]
    <3>1. calls' = [calls EXCEPT ![q.n] = c]
      BY <1>2, <1>10
    <3>2. calls \in [1..MaxRequests -> Seq(Replies)] /\ c \in Seq(Replies)
      BY <1>11, TypesNow
    <3> QED
      BY <3>1, <3>2
  <2> QED
    BY <2>1, <2>2, <2>3, <2>4, <2>5, <2>6, TypesNext
<1>15. HandInv'
  <2>1. Fallback(r) = Fallback(q)
    BY <1>6 DEF Fallback
  <2>2. /\ r.n = q.n /\ r.pc = p /\ r.file = q.file /\ r.attempt = q.attempt + 1
        /\ r.text = reply.text /\ r.rejected = {} /\ r.unavailable = FALSE
        /\ r = [n |-> r.n, pc |-> r.pc, file |-> r.file,
                attempt |-> r.attempt, text |-> r.text,
                rejected |-> r.rejected, unavailable |-> r.unavailable]
    BY <1>4, <1>6
  <2>3. Tells(log', r.n, Fallback(r))
    BY <1>2, <1>3, <2>1, <2>2
  <2>4. p = "call" => /\ q.attempt <= MAX_RETRIES
                      /\ \A k \in DOMAIN c : c[k].kind \in Retried
    BY <1>3, <1>8, <1>11
  <2>5. p = "drafted" => reply.kind = "text" /\ c[Len(c)].text = r.text
    BY <1>8, <1>11, <2>2
  <2>6. p = "unavailable" => c[Len(c)].kind # "text"
    BY <1>8, <1>11
  <2>7. /\ IsHand(r) /\ up' /\ r.n \in Asked' /\ r.n \notin forgotten'
        /\ answers'[r.n] = NoAnswer
        /\ \A k \in DOMAIN pending' : pending'[k].n # r.n
    BY <1>2, <1>3, <1>4, <1>12, <2>2 DEF IsHand
  <2>8. r.pc = "call" =>
          /\ configured' /\ Len(c) = r.attempt - 1 /\ r.attempt <= MAX_RETRIES + 1
          /\ \A k \in DOMAIN c : c[k].kind \in Retried
    BY <1>2, <1>3, <1>4, <1>11, <2>2, <2>4
  <2> QED
    BY <1>7, <1>8, <1>9, <1>11, <2>2, <2>3, <2>5, <2>6, <2>7, <2>8, HandNext
<1>16. DraftsJudged' = DraftsJudged
  <2>1. q.n \notin DraftsJudged /\ q.n \notin DraftsJudged'
    <3>1. calls[q.n] # <<>> => calls[q.n][Len(calls[q.n])].kind # "text"
      <4> SUFFICES ASSUME calls[q.n] # <<>>
                   PROVE  calls[q.n][Len(calls[q.n])].kind # "text"
        OBVIOUS
      <4>1. Len(calls[q.n]) \in DOMAIN calls[q.n]
        BY <1>3
      <4>2. calls[q.n][Len(calls[q.n])].kind \in Retried
        BY <1>4, <4>1
      <4> QED
        BY <4>2 DEF Retried
    <3>2. c[Len(c)].kind = "text" => req' # Idle /\ req'.n = q.n /\ req'.pc = "drafted"
      <4>1. req'.n = q.n /\ req'.pc = p
        BY <1>6, <1>7
      <4>2. Idle.n = 0 /\ q.n # 0
        BY <1>3 DEF Idle
      <4> QED
        BY <1>8, <1>11, <4>1, <4>2
    <3> QED
      BY <1>9, <3>1, <3>2 DEF DraftsJudged, Returned
  <2>2. \A m \in Asked : m # q.n => (m \in DraftsJudged' <=> m \in DraftsJudged)
    BY <1>1, <1>2, <1>3, <1>6, <1>7, <1>10, <1>12 DEF DraftsJudged, Returned
  <2> QED
    BY <1>12, <2>1, <2>2 DEF DraftsJudged
<1>17. OneRowPerDraft'
  BY <1>1, <1>2, <1>10, OneRowAfterReply
<1> QED
  BY <1>2, <1>12, <1>13, <1>14, <1>15, <1>16, <1>17, InvPartsNext, InvParts

-----------------------------------------------------------------------------
(* A step that ends with an outcome: nothing is asked of the provider.     *)

\* Counting an outcome moves the two totals as their names say.
LEMMA Counted ==
  ASSUME NEW c \in [OUTCOMES -> Nat], NEW o \in OUTCOMES,
         NEW d, d = [c EXCEPT ![o] = @ + 1]
  PROVE  /\ d \in [OUTCOMES -> Nat]
         /\ o \in LlmOutcomes => attempted(d) = attempted(c) + 1
         /\ o \notin LlmOutcomes => attempted(d) = attempted(c)
<1>1. /\ d \in [OUTCOMES -> Nat] /\ d[o] = c[o] + 1
      /\ \A x \in OUTCOMES : c[x] \in Nat /\ (x # o => d[x] = c[x])
  OBVIOUS
<1> QED
  BY <1>1 DEF attempted, rejected, OUTCOMES, LlmOutcomes

LEMMA RejectedAreAttempted ==
  ASSUME NEW c \in [OUTCOMES -> Nat]
  PROVE  rejected(c) <= attempted(c)
<1>1. \A x \in OUTCOMES : c[x] \in Nat
  OBVIOUS
<1> QED
  BY <1>1 DEF attempted, rejected, OUTCOMES, LlmOutcomes

LEMMA JudgedFinite ==
  ASSUME DraftingInv
  PROVE  IsFiniteSet(DraftsJudged)
<1>1. n_requests \in Nat
  BY DraftingAssumption DEF DraftingInv, QueueInv
<1>2. IsFiniteSet(Asked)
  BY <1>1, FS_Interval DEF Asked
<1> QED
  BY <1>2, FS_Subset DEF DraftsJudged

LEMMA Handled ==
  ASSUME DraftingInv, req # Idle, NEW n, n = req.n,
         req.pc \in {"drafted", "unavailable", "template"},
         UNCHANGED <<configured, stream, up, pending, calls, forgotten, n_requests>>,
         counts' \in [OUTCOMES -> Nat],
         \/ log' = log
         \/ \E row \in LogRow : row.req = req.n /\ log' = Append(log, row),
         DOMAIN answers' = 1..MaxRequests,
         \A m \in 1..MaxRequests : m # req.n => answers'[m] = answers[m],
         answers'[req.n].status \in {0, 200, 422, 500},
         \/ req' = Idle
         \/ /\ req'.n = req.n /\ req'.attempt = req.attempt /\ req'.pc = "template",
         Good(n)', HandInv', OneRowPerDraft',
         req.pc = "drafted" => attempted(counts') = attempted(counts) + 1,
         req.pc # "drafted" => attempted(counts') = attempted(counts)
  PROVE  DraftingInv'
<1>1. n \in Asked /\ n \notin forgotten /\ Asked \subseteq 1..MaxRequests
  BY HandRecord
<1>2. DOMAIN calls' = 1..MaxRequests /\ \A m : calls'[m] = calls[m]
  BY HandRecord
<1>3. /\ Asked' = Asked /\ QueueInv' /\ log' \in Seq(LogRow)
      /\ \A m \in Asked : m # n => Good(m)' /\ Frugal(m)'
  BY <1>2, OthersKept
<1>4. Good(n)' /\ Frugal(n)'
  <2>1. Frugal(n)
    BY <1>1, InvParts
  <2> QED
    BY <2>1 DEF Frugal
<1>5. TypeOK'
  <2>1. /\ configured' \in BOOLEAN /\ up' \in BOOLEAN
        /\ stream' # None => \A i, j \in DOMAIN stream' :
                               i <= j => stream'[i].ts <= stream'[j].ts
        /\ calls' \in [1..MaxRequests -> Seq(Replies)]
    BY TypesNow
  <2>2. \A k \in DOMAIN pending' : pending'[k] \in [n : Asked', body : Requests]
    <3>1. \A k \in DOMAIN pending : pending[k] \in [n : Asked, body : Requests]
      BY TypesNow
    <3>2. pending' = pending /\ Asked' = Asked
      BY <1>3
    <3> QED
      BY <3>1, <3>2, Zenon
  <2>3. req' # Idle => req'.n \in Asked' /\ req'.attempt \in 1..(MAX_RETRIES + 2)
    BY <1>1, <1>3, TypesNow
  <2>4. \A m \in 1..MaxRequests :
          answers'[m].status \in {0, 200, 403, 404, 422, 500, 503}
    <3>1. \A m \in 1..MaxRequests :
            answers[m].status \in {0, 200, 403, 404, 422, 500, 503}
      BY TypesNow
    <3> QED
      BY <3>1
  <2>5. log' \in Seq([req : Asked', outcome : OUTCOMES, whole : BOOLEAN])
    <3>1. Asked' = Asked
      BY <1>3
    <3>2. log' \in Seq([req : Asked, outcome : OUTCOMES, whole : BOOLEAN])
      BY <1>3, Zenon DEF LogRow
    <3> QED
      BY <3>1, <3>2, Zenon
  <2> QED
    BY <2>1, <2>2, <2>3, <2>4, <2>5, TypesNext
<1>6. \A m \in Asked : m # n => (m \in DraftsJudged' <=> m \in DraftsJudged)
  BY <1>3 DEF DraftsJudged, Returned
<1>7. attempted(counts') = Cardinality(DraftsJudged')
  <2>1. attempted(counts) = Cardinality(DraftsJudged)
    BY InvParts
  <2>2. CASE req.pc = "drafted"
    <3>1. calls[n] # <<>> /\ calls[n][Len(calls[n])].kind = "text"
      BY <2>2 DEF DraftingInv, HandInv
    <3>2. n \in DraftsJudged' /\ n \notin DraftsJudged
      BY <1>1, <1>3, <2>2, <3>1 DEF DraftsJudged, Returned
    <3>3. DraftsJudged' = DraftsJudged \cup {n}
      BY <1>3, <1>6, <3>2 DEF DraftsJudged
    <3>4. Cardinality(DraftsJudged \cup {n}) = Cardinality(DraftsJudged) + 1
      BY <3>2, JudgedFinite, FS_AddElement
    <3> QED
      BY <2>1, <2>2, <3>3, <3>4
  <2>3. CASE req.pc # "drafted"
    <3>1. n \in DraftsJudged' <=> n \in DraftsJudged
      BY <1>3, <2>3 DEF DraftsJudged, Returned
    <3>2. DraftsJudged' = DraftsJudged
      BY <1>3, <1>6, <3>1 DEF DraftsJudged
    <3> QED
      BY <2>1, <2>3, <3>2
  <2> QED
    BY <2>2, <2>3
<1> QED
  BY <1>3, <1>4, <1>5, <1>7, RejectedAreAttempted, InvPartsNext

\* What the handlers find in hand.
LEMMA InHand ==
  ASSUME DraftingInv, NEW p, At(p), NEW q, q = req
  PROVE  /\ q # Idle /\ q.pc = p /\ IsHand(q) /\ up
         /\ q.n \in Asked /\ q.n \notin forgotten /\ q.n \in 1..MaxRequests
         /\ answers[q.n] = NoAnswer /\ DOMAIN answers = 1..MaxRequests
         /\ log \in Seq(LogRow) /\ counts \in [OUTCOMES -> Nat]
         /\ Tells(log, q.n, Fallback(q))
         /\ \A k \in DOMAIN pending : pending[k].n # q.n
         /\ q.unavailable \in BOOLEAN
         /\ p # "template" => ~q.unavailable /\ q.rejected = {}
         /\ q.rejected # {} => ~Verified(q.rejected, valid_citation_ids(q.file))
         /\ p = "drafted" =>
              /\ calls[q.n] # <<>>
              /\ calls[q.n][Len(calls[q.n])].text = q.text
<1>1. q # Idle /\ q.pc = p
  BY DEF At
<1> QED
  BY <1>1, HandRecord DEF DraftingInv, HandInv

LEMMA UnavailableStep ==
  ASSUME DraftingInv, RecordUnavailable
  PROVE  DraftingInv'
<1>1. PICK q : q = req
  OBVIOUS
<1>2. At("unavailable")
  BY DEF RecordUnavailable
<1>3. /\ q # Idle /\ q.pc = "unavailable" /\ IsHand(q) /\ up
      /\ q.n \in Asked /\ q.n \notin forgotten /\ q.n \in 1..MaxRequests
      /\ answers[q.n] = NoAnswer /\ DOMAIN answers = 1..MaxRequests
      /\ log \in Seq(LogRow) /\ counts \in [OUTCOMES -> Nat]
      /\ Tells(log, q.n, Fallback(q))
      /\ \A k \in DOMAIN pending : pending[k].n # q.n
      /\ ~q.unavailable /\ q.rejected = {}
  BY <1>1, <1>2, InHand
<1>4. "LLM_UNAVAILABLE" \in OUTCOMES /\ "LLM_UNAVAILABLE" \notin LlmOutcomes
  BY DEF OUTCOMES, LlmOutcomes
<1>5. /\ counts' = [counts EXCEPT !["LLM_UNAVAILABLE"] = @ + 1]
      /\ UNCHANGED <<configured, stream, up, pending, calls, forgotten, n_requests>>
  BY DEF RecordUnavailable, Count
<1>6. counts' \in [OUTCOMES -> Nat] /\ attempted(counts') = attempted(counts)
  BY <1>3, <1>4, <1>5, Counted
<1>7. PICK row : row = RowFor("LLM_UNAVAILABLE", TRUE)
  OBVIOUS
<1>8. /\ row \in LogRow /\ row.req = q.n /\ row.outcome = "LLM_UNAVAILABLE"
      /\ row.whole
  BY <1>1, <1>3, <1>4, <1>7 DEF LogRow, RowFor
<1>14. /\ \/ log' = log
          \/ \E x \in LogRow : x.req = req.n /\ log' = Append(log, x)
       /\ OneRowPerDraft'
  <2>1. log' \in Left("LLM_UNAVAILABLE") /\ req # Idle
    BY <1>1, <1>3 DEF RecordUnavailable, Row, Failed, Left
  <2> QED
    BY <1>4, <1>5, <2>1, RowsAdded
<1>9. CASE Failed("LLM_UNAVAILABLE")
  <2>1. answers' = [answers EXCEPT ![q.n] = Refused(500)] /\ req' = Idle
    BY <1>1, <1>9 DEF Failed, Answer
  <2>2. /\ DOMAIN answers' = 1..MaxRequests
        /\ \A m \in 1..MaxRequests : m # q.n => answers'[m] = answers[m]
        /\ answers'[q.n].status \in {0, 200, 422, 500}
        /\ Good(q.n)' /\ HandInv'
    BY <1>3, <2>1, Ended
  <2>3. /\ req # Idle /\ q.n = req.n /\ req.pc = "unavailable"
        /\ req.pc # "drafted"
    BY <1>1, <1>3
  <2> QED
    BY <1>1, <1>5, <1>6, <1>14, <2>1, <2>2, <2>3, Handled
<1>10. CASE /\ log' = Append(log, row) /\ answers' = answers
            /\ req' = [q EXCEPT !.pc = "template", !.unavailable = TRUE]
  <2>1. PICK r : r = [n |-> q.n, pc |-> "template", file |-> q.file,
                      attempt |-> q.attempt, text |-> q.text,
                      rejected |-> q.rejected, unavailable |-> TRUE]
    OBVIOUS
  <2>2. req' = r
    BY <1>3, <1>10, <2>1, UnavailableRecord
  <2>3. /\ IsHand(r) /\ r.n = q.n /\ r.pc = "template" /\ r.attempt = q.attempt
        /\ r.rejected = {} /\ r.unavailable = TRUE
    BY <1>3, <2>1 DEF IsHand
  <2>4. Fallback(q) = <<>> /\ Fallback(r) = Append(<<>>, "LLM_UNAVAILABLE")
    BY <1>3, <2>3 DEF Fallback
  <2>5. Tells(log', q.n, Fallback(r))
    <3>1. /\ <<>> \in Seq(OUTCOMES) /\ row.outcome \in OUTCOMES
          /\ Tells(log, q.n, <<>>)
      BY <1>3, <1>4, <1>8, <2>4
    <3>2. Tells(Append(log, row), q.n, Append(<<>>, row.outcome))
      BY <1>3, <1>8, <3>1, TellsMore
    <3> QED
      BY <1>8, <1>10, <2>4, <3>2
  <2>6. ~Narrative(q.n)'
    BY <1>3, <1>10 DEF Narrative, NoAnswer
  <2>7. Good(q.n)'
    BY <2>6 DEF Good
  <2>8. Asked' = Asked
    BY <1>5 DEF Asked
  <2>9. HandInv'
    BY <1>3, <1>5, <1>10, <2>2, <2>3, <2>5, <2>8, HandNext
  <2>10. answers'[q.n].status \in {0, 200, 422, 500}
    BY <1>3, <1>10 DEF NoAnswer
  <2>11. /\ req # Idle /\ q.n = req.n /\ req.pc = "unavailable"
         /\ DOMAIN answers' = 1..MaxRequests
         /\ \A m \in 1..MaxRequests : m # req.n => answers'[m] = answers[m]
         /\ req'.n = req.n /\ req'.attempt = req.attempt /\ req'.pc = "template"
    BY <1>1, <1>3, <1>10, <2>2, <2>3
  <2>12. \E x \in LogRow : x.req = req.n /\ log' = Append(log, x)
    BY <1>8, <1>10, <2>11
  <2>13. req.pc # "drafted" /\ answers'[req.n].status \in {0, 200, 422, 500}
    BY <2>10, <2>11
  <2> QED
    BY <1>5, <1>6, <1>14, <2>7, <2>9, <2>11, <2>12, <2>13, Handled, Zenon
<1> QED
  BY <1>1, <1>7, <1>9, <1>10 DEF RecordUnavailable, Row

\* An empty draft asserts nothing, so it passes the verifier.
LEMMA EmptyVerified ==
  ASSUME NEW ids
  PROVE  Verified({}, ids)
BY DEF Verified, Uncited, Unverifiable, CitedBy, SentencesOf

LEMMA JudgementKinds ==
  ASSUME NEW text, NEW cf
  PROVE  /\ Judgement(text, cf) \in LlmOutcomes
         /\ Judgement(text, cf) = "LLM_FILED"
              <=> Verified(text, valid_citation_ids(cf))
BY DEF Judgement, LlmOutcomes

\* A report that is filed, and the rows that led to it.
LEMMA FiledGood ==
  ASSUME NEW q, q = req, NEW src, NEW text, NEW a, a = Filed(text, src),
         NEW n \in 1..MaxRequests, DOMAIN answers = 1..MaxRequests,
         answers' = [answers EXCEPT ![n] = a], calls' = calls, req' = Idle,
         Verified(text, valid_citation_ids(q.file)),
         src \in {"llm", "template"},
         src = "llm" => calls[n] # <<>> /\ text = calls[n][Len(calls[n])].text,
         src = "template" => text = generate(q.file),
         q.rejected # {} => ~Verified(q.rejected, valid_citation_ids(q.file)),
         Tells(log', n, IF src = "llm" THEN <<"LLM_FILED">>
                        ELSE Append(Fallback(q), "TEMPLATE_FILED"))
  PROVE  /\ DOMAIN answers' = 1..MaxRequests
         /\ \A m \in 1..MaxRequests : m # n => answers'[m] = answers[m]
         /\ answers'[n].status \in {0, 200, 422, 500}
         /\ Good(n)' /\ HandInv'
<1>1. /\ answers'[n] = a /\ DOMAIN answers' = 1..MaxRequests
      /\ \A m \in 1..MaxRequests : m # n => answers'[m] = answers[m]
  OBVIOUS
<1>2. /\ a.status = 200 /\ a.narrative = text /\ a.source = src
      /\ a.file = q.file /\ a.rejected = q.rejected
      /\ a.unavailable = q.unavailable
  BY DEF Filed
<1>3. Fallback(a) = Fallback(q)
  BY <1>2 DEF Fallback
<1>4. Told(a) = IF src = "llm" THEN <<"LLM_FILED">>
                ELSE Append(Fallback(q), "TEMPLATE_FILED")
  BY <1>2, <1>3 DEF Told
<1>5. Good(n)'
  BY <1>1, <1>2, <1>4 DEF Good
<1> QED
  BY <1>1, <1>2, <1>5 DEF HandInv

LEMMA JudgeStep ==
  ASSUME DraftingInv, Judge
  PROVE  DraftingInv'
<1>1. PICK q : q = req
  OBVIOUS
<1>2. At("drafted")
  BY DEF Judge
<1>3. /\ q # Idle /\ q.pc = "drafted" /\ IsHand(q) /\ up
      /\ q.n \in Asked /\ q.n \notin forgotten /\ q.n \in 1..MaxRequests
      /\ answers[q.n] = NoAnswer /\ DOMAIN answers = 1..MaxRequests
      /\ log \in Seq(LogRow) /\ counts \in [OUTCOMES -> Nat]
      /\ Tells(log, q.n, Fallback(q))
      /\ \A k \in DOMAIN pending : pending[k].n # q.n
      /\ q.unavailable = FALSE /\ q.rejected = {}
      /\ calls[q.n] # <<>> /\ calls[q.n][Len(calls[q.n])].text = q.text
  BY <1>1, <1>2, InHand
<1>4. PICK o : o = Judgement(q.text, q.file)
  OBVIOUS
<1>5. /\ o \in LlmOutcomes /\ o \in OUTCOMES
      /\ o = "LLM_FILED" <=> Verified(q.text, valid_citation_ids(q.file))
  BY <1>4, JudgementKinds DEF OUTCOMES
<1>6. /\ counts' = [counts EXCEPT ![o] = @ + 1]
      /\ UNCHANGED <<configured, stream, up, pending, calls, forgotten, n_requests>>
  BY <1>1, <1>4 DEF Judge, Count
<1>7. counts' \in [OUTCOMES -> Nat] /\ attempted(counts') = attempted(counts) + 1
  <2>1. o \in OUTCOMES /\ o \in LlmOutcomes /\ counts \in [OUTCOMES -> Nat]
    BY <1>3, <1>5
  <2>2. counts' = [counts EXCEPT ![o] = @ + 1]
    BY <1>6
  <2> QED
    BY <2>1, <2>2, Counted
<1>8. PICK row : row = RowFor(o, TRUE)
  OBVIOUS
<1>9. row \in LogRow /\ row.req = q.n /\ row.outcome = o /\ row.whole
  BY <1>1, <1>3, <1>5, <1>8 DEF LogRow, RowFor
<1>16. /\ \/ log' = log
          \/ \E x \in LogRow : x.req = req.n /\ log' = Append(log, x)
       /\ OneRowPerDraft'
  <2>1. log' \in Left(o) /\ req # Idle /\ req.pc = "drafted"
    BY <1>1, <1>3, <1>4 DEF Judge, Row, Failed, Left
  <2> QED
    BY <1>5, <1>6, <2>1, RowsAdded
<1>10. /\ req # Idle /\ q.n = req.n /\ req.pc = "drafted"
       /\ req.pc \in {"drafted", "unavailable", "template"}
       /\ req.pc = "drafted" => attempted(counts') = attempted(counts) + 1
       /\ req.pc # "drafted" => attempted(counts') = attempted(counts)
  BY <1>1, <1>3, <1>7
<1>11. Fallback(q) = <<>>
  BY <1>3 DEF Fallback
<1>12. Tells(Append(log, row), q.n, Append(<<>>, o))
  <2>1. /\ <<>> \in Seq(OUTCOMES) /\ row.outcome \in OUTCOMES
        /\ Tells(log, q.n, <<>>)
    BY <1>3, <1>5, <1>9, <1>11
  <2>2. Tells(Append(log, row), q.n, Append(<<>>, row.outcome))
    BY <1>3, <1>9, <2>1, TellsMore
  <2> QED
    BY <1>9, <2>2
<1>13. CASE Failed(o)
  <2>1. answers' = [answers EXCEPT ![q.n] = Refused(500)] /\ req' = Idle
    BY <1>1, <1>13 DEF Failed, Answer
  <2>2. /\ DOMAIN answers' = 1..MaxRequests
        /\ \A m \in 1..MaxRequests : m # q.n => answers'[m] = answers[m]
        /\ answers'[q.n].status \in {0, 200, 422, 500}
        /\ Good(q.n)' /\ HandInv'
    BY <1>3, <2>1, Ended
  <2>3. req' = Idle
    BY <2>1
  <2> QED
    BY <1>1, <1>3, <1>6, <1>7, <1>9, <1>10, <1>16, <2>2, <2>3, Handled, ZenonT(30)
<1>14. CASE /\ log' = Append(log, row) /\ o = "LLM_FILED"
            /\ Answer(Filed(q.text, "llm"))
  <2>1. PICK a : a = Filed(q.text, "llm")
    OBVIOUS
  <2>2. answers' = [answers EXCEPT ![q.n] = a] /\ req' = Idle
    BY <1>1, <1>14, <2>1 DEF Answer
  <2>3. Tells(log', q.n, <<"LLM_FILED">>)
    BY <1>12, <1>14
  <2>4. PICK src : src = "llm"
    OBVIOUS
  <2>5. /\ DOMAIN answers' = 1..MaxRequests
        /\ \A m \in 1..MaxRequests : m # q.n => answers'[m] = answers[m]
        /\ answers'[q.n].status \in {0, 200, 422, 500}
        /\ Good(q.n)' /\ HandInv'
    BY <1>1, <1>3, <1>5, <1>6, <1>14, <2>1, <2>2, <2>3, <2>4, FiledGood
  <2> QED
    BY <1>1, <1>6, <1>7, <1>9, <1>10, <1>16, <2>2, <2>5, Handled
<1>15. CASE /\ log' = Append(log, row) /\ o # "LLM_FILED" /\ answers' = answers
            /\ req' = [q EXCEPT !.pc = "template", !.rejected = q.text]
  <2>1. PICK r : r = [n |-> q.n, pc |-> "template", file |-> q.file,
                      attempt |-> q.attempt, text |-> q.text,
                      rejected |-> q.text, unavailable |-> q.unavailable]
    OBVIOUS
  <2>2. req' = r
    BY <1>3, <1>15, <2>1, RejectedRecord
  <2>3. /\ IsHand(r) /\ r.n = q.n /\ r.pc = "template" /\ r.attempt = q.attempt
        /\ r.rejected = q.text /\ r.unavailable = FALSE /\ r.file = q.file
    BY <1>3, <2>1 DEF IsHand
  <2>4. q.text # {} /\ ~Verified(r.rejected, valid_citation_ids(r.file))
    BY <1>5, <1>15, <2>3, EmptyVerified
  <2>5. Fallback(r) = Append(<<>>, o)
    BY <1>4, <2>3, <2>4 DEF Fallback
  <2>6. Tells(log', q.n, Fallback(r))
    BY <1>12, <1>15, <2>5
  <2>7. ~Narrative(q.n)'
    BY <1>3, <1>15 DEF Narrative, NoAnswer
  <2>8. Good(q.n)' /\ Asked' = Asked
    BY <1>6, <2>7 DEF Good, Asked
  <2>9. HandInv'
    BY <1>3, <1>6, <1>15, <2>2, <2>3, <2>4, <2>6, <2>8, HandNext
  <2>10. answers'[q.n].status \in {0, 200, 422, 500}
    BY <1>3, <1>15 DEF NoAnswer
  <2>11. /\ DOMAIN answers' = 1..MaxRequests
         /\ \A m \in 1..MaxRequests : m # q.n => answers'[m] = answers[m]
         /\ req'.n = q.n /\ req'.attempt = q.attempt /\ req'.pc = "template"
         /\ log' = Append(log, row)
    BY <1>3, <1>15, <2>2, <2>3
  <2> QED
    BY <1>1, <1>6, <1>7, <1>9, <1>10, <1>16, <2>8, <2>9, <2>10, <2>11, Handled
<1> QED
  BY <1>1, <1>4, <1>8, <1>13, <1>14, <1>15 DEF Judge, Row

LEMMA TemplateStep ==
  ASSUME DraftingInv, Template
  PROVE  DraftingInv'
<1>1. PICK q : q = req
  OBVIOUS
<1>2. At("template")
  BY DEF Template
<1>3. /\ q # Idle /\ q.pc = "template" /\ IsHand(q) /\ up
      /\ q.n \in Asked /\ q.n \notin forgotten /\ q.n \in 1..MaxRequests
      /\ answers[q.n] = NoAnswer /\ DOMAIN answers = 1..MaxRequests
      /\ log \in Seq(LogRow) /\ counts \in [OUTCOMES -> Nat]
      /\ Tells(log, q.n, Fallback(q))
      /\ q.unavailable \in BOOLEAN
      /\ q.rejected # {} => ~Verified(q.rejected, valid_citation_ids(q.file))
  BY <1>1, <1>2, InHand
<1>4. "TEMPLATE_FILED" \in OUTCOMES /\ "TEMPLATE_FILED" \notin LlmOutcomes
  BY DEF OUTCOMES, LlmOutcomes
<1>5. UNCHANGED <<configured, stream, up, pending, calls, forgotten, n_requests>>
  BY DEF Template
<1>6. /\ counts' = counts \/ counts' = [counts EXCEPT !["TEMPLATE_FILED"] = @ + 1]
  BY DEF Template, Count
<1>7. counts' \in [OUTCOMES -> Nat] /\ attempted(counts') = attempted(counts)
  <2>1. CASE counts' = counts
    BY <1>3, <2>1
  <2>2. CASE counts' = [counts EXCEPT !["TEMPLATE_FILED"] = @ + 1]
    BY <1>3, <1>4, <2>2, Counted
  <2> QED
    BY <1>6, <2>1, <2>2
<1>8. PICK row : row = RowFor("TEMPLATE_FILED", TRUE)
  OBVIOUS
<1>9. /\ row \in LogRow /\ row.req = q.n /\ row.outcome = "TEMPLATE_FILED"
      /\ row.whole
  BY <1>1, <1>3, <1>4, <1>8 DEF LogRow, RowFor
<1>13. /\ \/ log' = log
          \/ \E x \in LogRow : x.req = req.n /\ log' = Append(log, x)
       /\ OneRowPerDraft'
  <2>1. (log' = log \/ log' \in Left("TEMPLATE_FILED")) /\ req # Idle
    BY <1>1, <1>3 DEF Template, Row, Failed, Left
  <2> QED
    BY <1>4, <1>5, <2>1, RowsAdded
<1>10. /\ req # Idle /\ q.n = req.n /\ req.pc = "template" /\ req.pc # "drafted"
  BY <1>1, <1>3
<1>11. CASE /\ req' = Idle
            /\ \/ answers' = [answers EXCEPT ![q.n] = Refused(422)]
               \/ answers' = [answers EXCEPT ![q.n] = Refused(500)]
  <2>1. /\ DOMAIN answers' = 1..MaxRequests
        /\ \A m \in 1..MaxRequests : m # q.n => answers'[m] = answers[m]
        /\ answers'[q.n].status \in {0, 200, 422, 500}
        /\ Good(q.n)' /\ HandInv'
    BY <1>3, <1>11, Ended
  <2> QED
    BY <1>5, <1>7, <1>10, <1>11, <1>13, <2>1, Handled
<1>12. CASE /\ log' = Append(log, row)
            /\ Verified(generate(q.file), valid_citation_ids(q.file))
            /\ Answer(Filed(generate(q.file), "template"))
  <2>1. PICK a : a = Filed(generate(q.file), "template")
    OBVIOUS
  <2>2. answers' = [answers EXCEPT ![q.n] = a] /\ req' = Idle
    BY <1>1, <1>12, <2>1 DEF Answer
  <2>3. Fallback(q) \in Seq(OUTCOMES)
    <3>1. "LLM_UNAVAILABLE" \in OUTCOMES /\ Judgement(q.rejected, q.file) \in OUTCOMES
      BY JudgementKinds DEF OUTCOMES
    <3> QED
      BY <3>1 DEF Fallback
  <2>4. Tells(log', q.n, Append(Fallback(q), "TEMPLATE_FILED"))
    <3>1. Tells(Append(log, row), q.n, Append(Fallback(q), row.outcome))
      BY <1>3, <1>4, <1>9, <2>3, TellsMore
    <3> QED
      BY <1>9, <1>12, <3>1
  <2>5. PICK src : src = "template"
    OBVIOUS
  <2>6. PICK text : text = generate(q.file)
    OBVIOUS
  <2>7. /\ DOMAIN answers' = 1..MaxRequests
        /\ \A m \in 1..MaxRequests : m # q.n => answers'[m] = answers[m]
        /\ answers'[q.n].status \in {0, 200, 422, 500}
        /\ Good(q.n)' /\ HandInv'
    BY <1>1, <1>3, <1>5, <1>12, <2>1, <2>2, <2>4, <2>5, <2>6, FiledGood
  <2> QED
    BY <1>5, <1>7, <1>9, <1>10, <1>13, <2>2, <2>7, Handled
<1> QED
  BY <1>1, <1>8, <1>11, <1>12 DEF Template, Row, Failed, Answer

-----------------------------------------------------------------------------
(* The three facts, and the theorems.                                      *)

LEMMA DraftingInit ==
  ASSUME Init
  PROVE  DraftingInv
<1>1. MaxRequests \in Nat /\ MAX_RETRIES \in Nat
  BY DraftingAssumption
<1>2. /\ Asked = {} /\ req = Idle /\ log = <<>> /\ pending = <<>> /\ up = TRUE
      /\ forgotten = {} /\ n_requests = 0 /\ counts = NoCounts
      /\ answers = [n \in 1..MaxRequests |-> NoAnswer]
      /\ calls = [n \in 1..MaxRequests |-> <<>>]
      /\ configured \in BOOLEAN /\ stream \in Streams \cup {None}
  BY DEF Init, Asked
<1>3. counts \in [OUTCOMES -> Nat] /\ \A o \in OUTCOMES : counts[o] = 0
  BY <1>2 DEF NoCounts
<1>4. attempted(counts) = 0 /\ rejected(counts) = 0
  BY <1>3 DEF attempted, rejected, OUTCOMES, LlmOutcomes
<1>5. DraftsJudged = {}
  BY <1>2 DEF DraftsJudged
<1>6. Cardinality(DraftsJudged) = 0
  BY <1>5, FS_EmptySet
<1>7. \A n \in 1..MaxRequests : answers[n].status = 0
  BY <1>2 DEF NoAnswer
<1>8. calls \in [1..MaxRequests -> Seq(Replies)]
  BY <1>2
<1>9. TypeOK
  <2>1. stream # None => \A i, j \in DOMAIN stream :
                           i <= j => stream[i].ts <= stream[j].ts
    BY <1>2, DraftingAssumption
  <2>2. <<>> \in Seq([req : Asked, outcome : OUTCOMES, whole : BOOLEAN])
        /\ DOMAIN <<>> = {}
    OBVIOUS
  <2> QED
    BY <1>2, <1>3, <1>7, <1>8, <2>1, <2>2 DEF TypeOK
<1>10. \A n \in 1..MaxRequests : Untouched(n)
  BY <1>2 DEF Untouched, RowsOf
<1>11. QueueInv
  BY <1>1, <1>2, <1>10 DEF QueueInv
<1>12. HandInv
  BY <1>2 DEF HandInv
<1>13. FiledNarrativesAreSourced /\ RetriesOnlyTransportFaults
  BY <1>2 DEF FiledNarrativesAreSourced, RetriesOnlyTransportFaults
<1>14. LedgerAccountsForDrafts
  BY <1>2, <1>4, <1>6 DEF LedgerAccountsForDrafts, ReportsCanBeRead,
    OneRowPerDraft
<1> QED
  BY <1>9, <1>11, <1>12, <1>13, <1>14 DEF DraftingInv

LEMMA DraftingNext ==
  ASSUME DraftingInv, [Next]_vars
  PROVE  DraftingInv'
<1>1. CASE \E r \in Requests : Ask(r)
  BY <1>1, AskStep
<1>2. CASE Restart \/ \E s \in Builds : BuildStream(s)
  BY <1>2, EnvironmentStep
<1>3. CASE Crash
  BY <1>3, CrashStep
<1>4. CASE Take
  BY <1>4, TakeStep
<1>5. CASE \E reply \in Replies : ProviderReplies(reply)
  BY <1>5, ReplyStep, RaisedStep
<1>6. CASE RecordUnavailable
  BY <1>6, UnavailableStep
<1>7. CASE Judge
  BY <1>7, JudgeStep
<1>8. CASE Template
  BY <1>8, TemplateStep
<1>9. CASE UNCHANGED vars
  <2>1. Asked' = Asked /\ DraftsJudged' = DraftsJudged
    BY <1>9 DEF vars, Asked, DraftsJudged, Returned
  <2>2. TypeOK'
    BY <1>9, <2>1 DEF vars, DraftingInv, TypeOK
  <2>3. FiledNarrativesAreSourced' /\ LedgerAccountsForDrafts'
    BY <1>9, <2>1 DEF vars, DraftingInv, FiledNarrativesAreSourced,
      LedgerAccountsForDrafts, ReportsCanBeRead, Narrative, OneRowPerDraft, Returned
  <2>4. RetriesOnlyTransportFaults' /\ QueueInv' /\ HandInv'
    BY <1>9, <2>1 DEF vars, DraftingInv, RetriesOnlyTransportFaults,
      QueueInv, Untouched, HandInv
  <2> QED
    BY <2>2, <2>3, <2>4 DEF DraftingInv
<1> QED
  BY <1>1, <1>2, <1>3, <1>4, <1>5, <1>6, <1>7, <1>8, <1>9 DEF Next

LEMMA DraftingHolds == Spec => []DraftingInv
<1> QED
  BY DraftingInit, DraftingNext, PTL DEF Spec

\* Drafting a report costs the provider at most MAX_RETRIES + 1 calls, each
\* but the last ended by a fault worth another attempt (complete).
THEOREM CallsAreSpentWell == Spec => []RetriesOnlyTransportFaults
<1>1. DraftingInv => RetriesOnlyTransportFaults
  BY DEF DraftingInv
<1> QED
  BY <1>1, DraftingHolds, PTL

\* Whatever fails or restarts on the way, the ledger's file tells of every
\* report given out what the report says of itself, and the denominator of
\* the rejection rate counts the drafts that were judged (DraftLedger.record).
THEOREM LedgerTellsTheTruth == Spec => []LedgerAccountsForDrafts
<1>1. DraftingInv => LedgerAccountsForDrafts
  BY DEF DraftingInv
<1> QED
  BY <1>1, DraftingHolds, PTL

-----------------------------------------------------------------------------
(* The report that a case would get.                                       *)

LEMMA LeastRow ==
  ASSUME NEW S \in SUBSET Nat, S # {}
  PROVE  \E x \in S : \A y \in S : x <= y
<1>1. IsWellFoundedOn(OpToRel(<, Nat), Nat)
  BY NatLessThanWellFounded
<1>2. PICK x \in S : \A y \in S : ~(<<y, x>> \in OpToRel(<, Nat))
  BY <1>1, WFMin
<1>3. \A y \in S : y \in Nat
  OBVIOUS
<1>4. \A y \in S : ~(y < x)
  BY <1>2, <1>3 DEF OpToRel
<1>5. x \in S /\ x \in Nat
  BY <1>2, <1>3
<1>6. ASSUME NEW y \in S
      PROVE  x <= y
  <2>1. ~(y < x) /\ y \in Nat
    BY <1>3, <1>4
  <2> QED
    BY <1>5, <2>1
<1> QED
  BY <1>5, <1>6

LEMMA LastRow ==
  ASSUME NEW n \in Nat, NEW S \in SUBSET (1..n), S # {}
  PROVE  \E x \in S : \A y \in S : y <= x
<1>1. PICK B : B = {b \in Nat : \A y \in S : y <= b}
  OBVIOUS
<1>2. n \in B /\ B \subseteq Nat
  BY <1>1
<1>3. PICK x \in B : \A b \in B : x <= b
  BY <1>2, LeastRow
<1>4. /\ x \in Nat
      /\ \A y \in S : y <= x
      /\ \A y \in S : y \in Nat /\ y >= 1
  BY <1>1
<1>5. x >= 1 /\ x - 1 \in Nat
  <2>1. PICK y \in S : TRUE
    OBVIOUS
  <2>2. y <= x /\ y \in Nat /\ y >= 1
    BY <1>4, <2>1
  <2> QED
    BY <1>4, <2>2
<1>6. x - 1 \notin B
  <2>1. ~(x <= x - 1)
    BY <1>4
  <2> QED
    BY <1>3, <2>1
<1>7. PICK y \in S : ~(y <= x - 1)
  BY <1>1, <1>5, <1>6
<1>8. y = x
  BY <1>4, <1>7
<1> QED
  BY <1>4, <1>8

\* The first rows of some rows are some of them.
LEMMA FirstRows ==
  ASSUME NEW S \in SUBSET Nat, NEW n \in Nat
  PROVE  /\ FirstOf(S, n) \subseteq S
         /\ S # {} /\ n > 0 => FirstOf(S, n) # {}
         /\ IsFiniteSet(S) /\ Cardinality(S) <= n => FirstOf(S, n) = S
<1>1. FirstOf(S, n) \subseteq S
  BY DEF FirstOf
<1>2. ASSUME S # {}, n > 0
      PROVE  FirstOf(S, n) # {}
  <2>1. PICK x \in S : \A y \in S : x <= y
    BY <1>2, LeastRow
  <2>2. \A j \in S : j \in Nat
    OBVIOUS
  <2>3. {j \in S : j < x} = {}
    <3>1. ASSUME NEW j \in S
          PROVE  ~(j < x)
      <4>1. x <= j /\ j \in Nat /\ x \in Nat
        BY <2>1, <2>2
      <4> QED
        BY <4>1
    <3> QED
      BY <3>1
  <2>4. Cardinality({j \in S : j < x}) = 0
    BY <2>3, FS_EmptySet
  <2> QED
    BY <1>2, <2>1, <2>4 DEF FirstOf
<1>3. ASSUME IsFiniteSet(S), Cardinality(S) <= n, NEW i \in S
      PROVE  i \in FirstOf(S, n)
  <2>1. PICK T : T = {j \in S : j < i}
    OBVIOUS
  <2>2. T \in SUBSET S /\ i \notin T
    BY <2>1
  <2>3. /\ IsFiniteSet(T) /\ Cardinality(T) <= Cardinality(S)
        /\ Cardinality(S) = Cardinality(T) => S = T
    BY <1>3, <2>2, FS_Subset
  <2>4. Cardinality(S) \in Nat /\ Cardinality(T) \in Nat
    BY <1>3, <2>3, FS_CardinalityType
  <2>5. Cardinality(T) < n
    BY <1>3, <2>2, <2>3, <2>4
  <2> QED
    BY <2>1, <2>5 DEF FirstOf
<1> QED
  BY <1>1, <1>2, <1>3

\* A line whose sentences assert facts, each with citations out of ids.
Sourced(l, ids) == \A s \in l : \E C \in SUBSET ids : C # {} /\ s = Fact(C)

LEMMA SourcedLine ==
  ASSUME NEW ids, NEW C \in SUBSET ids, C # {}
  PROVE  Sourced({Fact(C)}, ids)
BY DEF Sourced

\* A text of such lines passes the verifier.
LEMMA SourcedText ==
  ASSUME NEW text, NEW ids, \A l \in text : Sourced(l, ids)
  PROVE  /\ Verified(text, ids)
         /\ \A s \in SentencesOf(text) : s.fact /\ s.cites # {} /\ s.cites \subseteq ids
<1>1. \A s \in SentencesOf(text) : s.fact /\ s.cites # {} /\ s.cites \subseteq ids
  BY DEF SentencesOf, Sourced, Fact
<1> QED
  BY <1>1 DEF Verified, Uncited, Unverifiable, CitedBy

\* What a case file holds.
LEMMA CaseFileParts ==
  ASSUME NEW c, NEW rows, Len(rows) \in Nat, NEW purpose,
         NEW cf, cf = build_case_file(c, rows, purpose)
  PROVE  /\ cf.case_id = c.id /\ cf.typology = typology_evidence_for(c.features)
         /\ cf.transactions \subseteq 1..Len(rows)
         /\ IsFiniteSet(cf.transactions)
         /\ DOMAIN cf.members = c.members
         /\ \A m \in c.members : cf.members[m].evidence \subseteq cf.transactions
         /\ \A i \in cf.transactions : rows[i].src \in c.members /\ rows[i].dst \in c.members
<1>1. PICK ledger : ledger = build_transactions(c.members, c.opened, rows)
  OBVIOUS
<1>2. /\ cf.case_id = c.id /\ cf.typology = typology_evidence_for(c.features)
      /\ cf.transactions = ledger
      /\ cf.members = build_member_roles(c.members, ledger, rows)
  BY <1>1 DEF build_case_file
<1>3. /\ ledger \subseteq 1..Len(rows)
      /\ \A i \in ledger : rows[i].src \in c.members /\ rows[i].dst \in c.members
  BY <1>1 DEF build_transactions
<1>4. IsFiniteSet(ledger)
  <2>1. IsFiniteSet(1..Len(rows))
    BY FS_Interval
  <2> QED
    BY <1>3, <2>1, FS_Subset
<1>5. /\ DOMAIN cf.members = c.members
      /\ \A m \in c.members : cf.members[m].evidence \subseteq ledger
  BY <1>2 DEF build_member_roles
<1> QED
  BY <1>2, <1>3, <1>4, <1>5

\* The ids a report may cite.
LEMMA CitableIds ==
  ASSUME NEW cf, NEW ids, ids = valid_citation_ids(cf)
  PROVE  /\ CaseId(cf.case_id) \in ids
         /\ TxnIds(cf.transactions) \subseteq ids
         /\ {AccountId(m) : m \in DOMAIN cf.members} \subseteq ids
         /\ <<"reg", "PMLA_MOR_2005">> \in ids /\ <<"reg", "RBI_PA_2025">> \in ids
         /\ 0 \notin cf.transactions => TxnId(0) \notin ids
<1>1. /\ CaseId(cf.case_id) \in ids
      /\ TxnIds(cf.transactions) \subseteq ids
      /\ {AccountId(m) : m \in DOMAIN cf.members} \subseteq ids
      /\ REGULATORY_CITATIONS \subseteq ids
  BY DEF valid_citation_ids, TxnIds
<1>2. ASSUME 0 \notin cf.transactions, TxnId(0) \in ids
      PROVE  FALSE
  BY <1>2 DEF valid_citation_ids, TxnId, AccountId, CaseId, REGULATORY_CITATIONS
<1> QED
  BY <1>1, <1>2 DEF REGULATORY_CITATIONS

\* Citations that fall back to the case's own id are never missing.
LEMMA OrCaseCites ==
  ASSUME NEW cf, NEW ids, CaseId(cf.case_id) \in ids, NEW C \in SUBSET ids
  PROVE  OrCase(C, cf) \in SUBSET ids /\ OrCase(C, cf) # {}
BY DEF OrCase

\* The rows a line cites are citable, and some are if there are any.
LEMMA RowsCited ==
  ASSUME NEW S \in SUBSET Nat, NEW n \in Nat, NEW ids, TxnIds(S) \subseteq ids
  PROVE  /\ TxnIds(FirstOf(S, n)) \in SUBSET ids
         /\ S # {} /\ n > 0 => TxnIds(FirstOf(S, n)) # {}
<1>1. FirstOf(S, n) \subseteq S /\ (S # {} /\ n > 0 => FirstOf(S, n) # {})
  BY FirstRows
<1> QED
  BY <1>1 DEF TxnIds

\* Every line of the template is sourced.
LEMMA TemplateSourced ==
  ASSUME NEW cf, cf.transactions \in SUBSET Nat, IsFiniteSet(cf.transactions),
         NEW n \in Nat, cf.transactions \subseteq 1..n,
         \A m \in DOMAIN cf.members : cf.members[m].evidence \subseteq cf.transactions,
         NEW ids, ids = valid_citation_ids(cf)
  PROVE  \A l \in generate(cf) : Sourced(l, ids)
<1>1. /\ CaseId(cf.case_id) \in ids
      /\ TxnIds(cf.transactions) \subseteq ids
      /\ {AccountId(m) : m \in DOMAIN cf.members} \subseteq ids
      /\ <<"reg", "PMLA_MOR_2005">> \in ids /\ <<"reg", "RBI_PA_2025">> \in ids
  BY CitableIds
<1>2. EvidenceShown \in Nat \ {0} /\ HeadShown \in Nat \ {0} /\ ListShown \in Nat
  BY CaseFileAssumption
<1>3. Sourced({Fact({CaseId(cf.case_id)})}, ids)
  BY <1>1, SourcedLine
<1>4. \A l \in who(cf) : Sourced(l, ids)
  <2>1. ASSUME NEW m \in DOMAIN cf.members, cf.members[m].evidence = {}
        PROVE  Sourced({Fact({AccountId(m)})}, ids)
    BY <1>1, SourcedLine
  <2>2. ASSUME NEW m \in DOMAIN cf.members, NEW E, E = cf.members[m].evidence,
               E # {}
        PROVE  Sourced({Fact(TxnIds(FirstOf(E, EvidenceShown)))}, ids)
    <3>1. E \in SUBSET Nat /\ TxnIds(E) \subseteq ids
      BY <1>1, <2>2 DEF TxnIds
    <3>2. /\ TxnIds(FirstOf(E, EvidenceShown)) \in SUBSET ids
          /\ TxnIds(FirstOf(E, EvidenceShown)) # {}
      BY <1>2, <2>2, <3>1, RowsCited
    <3> QED
      BY <3>2, SourcedLine
  <2> QED
    BY <1>3, <2>1, <2>2 DEF who
<1>5. \A l \in what(cf) : Sourced(l, ids)
  <2>1. Sourced({Fact(OrCase(TxnIds(FirstOf(cf.transactions, HeadShown)), cf))}, ids)
    <3>1. PICK C : C = TxnIds(FirstOf(cf.transactions, HeadShown))
      OBVIOUS
    <3>2. C \in SUBSET ids
      BY <1>1, <1>2, <3>1, RowsCited
    <3>3. OrCase(C, cf) \in SUBSET ids /\ OrCase(C, cf) # {}
      BY <1>1, <3>2, OrCaseCites
    <3> QED
      BY <3>1, <3>3, SourcedLine
  <2>2. ASSUME NEW i \in FirstOf(cf.transactions, ListShown)
        PROVE  Sourced({Fact({TxnId(i)})}, ids)
    <3>1. TxnId(i) \in ids
      BY <1>1, <1>2, FirstRows DEF TxnIds
    <3> QED
      BY <3>1, SourcedLine
  <2> QED
    BY <1>3, <2>1, <2>2 DEF what
<1>6. \A l \in when(cf) : Sourced(l, ids)
  <2>1. ASSUME cf.transactions # {}
        PROVE  /\ TxnId(Min(cf.transactions)) \in ids
               /\ TxnId(Max(cf.transactions)) \in ids
    <3>1. Min(cf.transactions) \in cf.transactions
      BY <2>1, LeastRow DEF Min
    <3>2. \E x \in cf.transactions : \A y \in cf.transactions : y <= x
      BY <2>1, LastRow
    <3>3. \A x, y \in cf.transactions : y <= x <=> x >= y
      OBVIOUS
    <3>4. Max(cf.transactions) \in cf.transactions
      BY <3>2, <3>3 DEF Max
    <3> QED
      BY <1>1, <3>1, <3>4 DEF TxnIds
  <2>2. ASSUME cf.transactions # {}
        PROVE  Sourced({Fact({TxnId(Min(cf.transactions)),
                              TxnId(Max(cf.transactions))}),
                        Fact({<<"reg", "PMLA_MOR_2005">>})}, ids)
    BY <1>1, <2>1, <2>2 DEF Sourced
  <2> QED
    BY <1>3, <2>2 DEF when
<1>7. \A l \in where(cf) \cup how(cf) : Sourced(l, ids)
  <2>1. ASSUME NEW M \in SUBSET (DOMAIN cf.members)
        PROVE  Sourced({Fact(OrCase({AccountId(m) : m \in M}, cf))}, ids)
    <3>1. PICK C : C = {AccountId(m) : m \in M}
      OBVIOUS
    <3>2. C \in SUBSET ids
      BY <1>1, <3>1
    <3>3. OrCase(C, cf) \in SUBSET ids /\ OrCase(C, cf) # {}
      BY <1>1, <3>2, OrCaseCites
    <3> QED
      BY <3>1, <3>3, SourcedLine
  <2> QED
    BY <2>1 DEF where, how
<1>8. \A l \in why(cf) \cup conclusion(cf) : Sourced(l, ids)
  <2>1. Sourced({Fact({CaseId(cf.case_id)}), Fact({<<"reg", "RBI_PA_2025">>})}, ids)
    BY <1>1 DEF Sourced
  <2> QED
    BY <1>3, <2>1 DEF why, conclusion
<1> QED
  BY <1>4, <1>5, <1>6, <1>7, <1>8 DEF generate

LEMMA LeastIs ==
  ASSUME NEW S \in SUBSET Nat, NEW k \in S, \A y \in S : k <= y
  PROVE  Min(S) = k
<1>1. PICK x : x = Min(S)
  OBVIOUS
<1>2. x \in S /\ \A y \in S : x <= y
  BY <1>1 DEF Min
<1>3. x \in Nat /\ k \in Nat /\ x <= k /\ k <= x
  BY <1>2
<1>4. x = k
  BY <1>3
<1> QED
  BY <1>1, <1>4

\* The report and the queue name the same typology.
LEMMA OneTypology ==
  ASSUME NEW f
  PROVE  typology_evidence_for(f) = typology_of(f)
<1>1. PICK tests : tests = TypologyTests(f)
  OBVIOUS
<1>2. /\ tests[1] <=> f.has_temporal_cycle
      /\ tests[2] <=> f.stack_score
      /\ tests[3] <=> f.bipartite_score
      /\ tests[4] <=> f.scatter_gather_width >= 2
      /\ tests[5] <=> f.gather_scatter_width >= 2
      /\ tests[6] <=> f.max_fan >= 4
      /\ tests[7]
  BY <1>1 DEF TypologyTests
<1>3. /\ Typologies[1] = "CYCLE" /\ Typologies[2] = "STACK"
      /\ Typologies[3] = "BIPARTITE" /\ Typologies[4] = "SCATTER_GATHER"
      /\ Typologies[5] = "GATHER_SCATTER" /\ Typologies[6] = "FAN"
      /\ Typologies[7] = "CLUSTER" /\ DOMAIN Typologies = 1..7
  BY DEF Typologies
<1>4. PICK S : S = {k \in 1..7 : tests[k]}
  OBVIOUS
<1>5. typology_evidence_for(f) = Typologies[Min(S)]
  BY <1>1, <1>3, <1>4 DEF typology_evidence_for
<1>6. S \in SUBSET Nat /\ \A k \in S : k \in 1..7
  BY <1>4
<1>7. ASSUME NEW k \in 1..7, tests[k], \A j \in 1..7 : j < k => ~tests[j]
      PROVE  typology_evidence_for(f) = Typologies[k]
  <2>1. k \in S /\ \A y \in S : k <= y
    BY <1>4, <1>7
  <2>2. Min(S) = k
    BY <1>6, <2>1, LeastIs
  <2> QED
    BY <1>5, <2>2
<1>8. CASE tests[1]
  BY <1>2, <1>3, <1>7, <1>8 DEF typology_of
<1>9. CASE ~tests[1] /\ tests[2]
  BY <1>2, <1>3, <1>7, <1>9 DEF typology_of
<1>10. CASE ~tests[1] /\ ~tests[2] /\ tests[3]
  BY <1>2, <1>3, <1>7, <1>10 DEF typology_of
<1>11. CASE ~tests[1] /\ ~tests[2] /\ ~tests[3] /\ tests[4]
  BY <1>2, <1>3, <1>7, <1>11 DEF typology_of
<1>12. CASE ~tests[1] /\ ~tests[2] /\ ~tests[3] /\ ~tests[4] /\ tests[5]
  BY <1>2, <1>3, <1>7, <1>12 DEF typology_of
<1>13. CASE ~tests[1] /\ ~tests[2] /\ ~tests[3] /\ ~tests[4] /\ ~tests[5] /\ tests[6]
  BY <1>2, <1>3, <1>7, <1>13 DEF typology_of
<1>14. CASE ~tests[1] /\ ~tests[2] /\ ~tests[3] /\ ~tests[4] /\ ~tests[5] /\ ~tests[6]
  BY <1>2, <1>3, <1>7, <1>14 DEF typology_of
<1> QED
  BY <1>8, <1>9, <1>10, <1>11, <1>12, <1>13, <1>14

\* What the verifier makes of a report that was tampered with.
LEMMA TamperedWith ==
  ASSUME NEW text, NEW ids, \A l \in text : Sourced(l, ids), TxnId(0) \notin ids
  PROVE  /\ \A t \in fabricated_id(text) \cup stripped_citation(text) : ~Verified(t, ids)
         /\ \A t \in attribution(text) : Verified(t, ids)
<1>1. ASSUME NEW t \in fabricated_id(text)
      PROVE  ~Verified(t, ids)
  <2>1. PICK p \in corruptible(text) :
          t = Rewrite(text, p[1], (p[1] \ {p[2]})
                \cup {Fact((p[2].cites \ {CHOOSE c \in p[2].cites : TRUE})
                             \cup {TxnId(0)})})
    BY <1>1 DEF fabricated_id
  <2>2. PICK s : s = Fact((p[2].cites \ {CHOOSE c \in p[2].cites : TRUE})
                            \cup {TxnId(0)})
    OBVIOUS
  <2>3. s \in SentencesOf(t) /\ TxnId(0) \in s.cites
    <3>1. PICK l : l = (p[1] \ {p[2]}) \cup {s}
      OBVIOUS
    <3>2. l \in t /\ s \in l
      BY <2>1, <2>2, <3>1 DEF Rewrite
    <3>3. TxnId(0) \in s.cites
      BY <2>2 DEF Fact
    <3> QED
      BY <3>2, <3>3 DEF SentencesOf
  <2>4. TxnId(0) \in CitedBy(t)
    BY <2>3 DEF CitedBy
  <2> QED
    BY <2>4 DEF Verified, Unverifiable
<1>2. ASSUME NEW t \in stripped_citation(text)
      PROVE  ~Verified(t, ids)
  <2>1. PICK p \in corruptible(text) :
          t = Rewrite(text, p[1], {[s EXCEPT !.cites = {}] : s \in p[1]})
    BY <1>2 DEF stripped_citation
  <2>2. p[1] \in text /\ p[2] \in p[1]
    BY <2>1 DEF corruptible
  <2>3. PICK C : p[2] = [fact |-> TRUE, cites |-> C]
    BY <2>2 DEF Sourced, Fact
  <2>4. PICK s : s = [p[2] EXCEPT !.cites = {}]
    OBVIOUS
  <2>5. s.fact = TRUE /\ s.cites = {}
    BY <2>3, <2>4
  <2>6. s \in SentencesOf(t)
    <3>1. PICK l : l = {[z EXCEPT !.cites = {}] : z \in p[1]}
      OBVIOUS
    <3>2. l \in t
      BY <2>1, <3>1 DEF Rewrite
    <3>3. s \in l
      BY <2>2, <2>4, <3>1
    <3> QED
      BY <3>2, <3>3 DEF SentencesOf
  <2>7. s \in Uncited(t)
    BY <2>5, <2>6 DEF Uncited
  <2> QED
    BY <2>7 DEF Verified
<1>3. ASSUME NEW t \in attribution(text)
      PROVE  Verified(t, ids)
  <2>1. PICK p \in corruptible(text) : t = Rewrite(text, p[1], p[1])
    BY <1>3 DEF attribution
  <2>2. p[1] \in text
    BY <2>1 DEF corruptible
  <2>3. t = text
    BY <2>1, <2>2 DEF Rewrite
  <2> QED
    BY <2>3, SourcedText
<1> QED
  BY <1>1, <1>2, <1>3

\* What a report leaves out.
LEMMA EvidenceCited ==
  ASSUME NEW cf, cf.transactions \in SUBSET Nat, IsFiniteSet(cf.transactions)
  PROVE  /\ UncitedEvidence(cf) \cap {AccountId(m) : m \in DOMAIN cf.members} = {}
         /\ Cardinality(cf.transactions) <= ListShown => UncitedEvidence(cf) = {}
<1>1. {AccountId(m) : m \in DOMAIN cf.members} \subseteq CitedBy(generate(cf))
  <2>1. PICK A : A = {AccountId(m) : m \in DOMAIN cf.members}
    OBVIOUS
  <2>2. {Fact(OrCase(A, cf))} \in generate(cf)
    BY <2>1 DEF generate, where
  <2>3. Fact(OrCase(A, cf)) \in SentencesOf(generate(cf))
    BY <2>2 DEF SentencesOf
  <2>4. A \subseteq Fact(OrCase(A, cf)).cites
    BY DEF Fact, OrCase
  <2> QED
    BY <2>1, <2>3, <2>4 DEF CitedBy
<1>2. ASSUME Cardinality(cf.transactions) <= ListShown
      PROVE  TxnIds(cf.transactions) \subseteq CitedBy(generate(cf))
  <2>1. FirstOf(cf.transactions, ListShown) = cf.transactions
    BY <1>2, FirstRows, CaseFileAssumption
  <2>2. ASSUME NEW i \in cf.transactions
        PROVE  TxnId(i) \in CitedBy(generate(cf))
    <3>1. {Fact({TxnId(i)})} \in generate(cf)
      BY <2>1, <2>2 DEF generate, what
    <3>2. Fact({TxnId(i)}) \in SentencesOf(generate(cf))
      BY <3>1 DEF SentencesOf
    <3>3. TxnId(i) \in Fact({TxnId(i)}).cites
      BY DEF Fact
    <3> QED
      BY <3>2, <3>3 DEF CitedBy
  <2> QED
    BY <2>2 DEF TxnIds
<1> QED
  BY <1>1, <1>2 DEF UncitedEvidence, Material

LEMMA TemplateAnswersForTheCase ==
  ASSUME stream \in Streams \cup {None}
  PROVE  TemplateSourcesTheCase
<1>1. SUFFICES ASSUME stream # None, NEW c \in Cases, NEW cf,
                      cf = build_case_file(c, stream, "regulatory_reporting"),
                      NEW ids, ids = valid_citation_ids(cf),
                      NEW text, text = generate(cf)
      PROVE  /\ Verified(text, ids)
             /\ \A i \in cf.transactions :
                  {stream[i].src, stream[i].dst} \subseteq DOMAIN cf.members
             /\ UncitedEvidence(cf) \cap {AccountId(m) : m \in c.members} = {}
             /\ Cardinality(cf.transactions) <= ListShown
                  => UncitedEvidence(cf) = {}
             /\ cf.typology = typology_of(c.features)
             /\ TxnIds(build_prompt(cf).transactions) \subseteq
                  build_prompt(cf).allowed
             /\ \A k \in {"fabricated_id", "stripped_citation"} :
                  \A t \in inject(text, k) : ~Verified(t, ids)
             /\ \A t \in inject(text, "attribution") : Verified(t, ids)
  BY DEF TemplateSourcesTheCase
<1>2. PICK n \in Nat : n = Len(stream)
  BY <1>1, DraftingAssumption
<1>3. /\ cf.typology = typology_evidence_for(c.features)
      /\ cf.transactions \subseteq 1..n /\ IsFiniteSet(cf.transactions)
      /\ DOMAIN cf.members = c.members
      /\ \A m \in c.members : cf.members[m].evidence \subseteq cf.transactions
      /\ \A i \in cf.transactions :
           stream[i].src \in c.members /\ stream[i].dst \in c.members
  BY <1>1, <1>2, CaseFileParts
<1>4. cf.transactions \in SUBSET Nat /\ 0 \notin cf.transactions
  BY <1>3
<1>5. \A l \in text : Sourced(l, ids)
  BY <1>1, <1>3, <1>4, TemplateSourced
<1>6. Verified(text, ids)
  BY <1>5, SourcedText
<1>7. TxnId(0) \notin ids /\ TxnIds(cf.transactions) \subseteq ids
  BY <1>1, <1>4, CitableIds
<1>8. /\ \A t \in fabricated_id(text) \cup stripped_citation(text) : ~Verified(t, ids)
      /\ \A t \in attribution(text) : Verified(t, ids)
  BY <1>5, <1>7, TamperedWith
<1>9. /\ \A k \in {"fabricated_id", "stripped_citation"} :
           \A t \in inject(text, k) : ~Verified(t, ids)
      /\ \A t \in inject(text, "attribution") : Verified(t, ids)
  BY <1>8 DEF inject
<1>10. TxnIds(build_prompt(cf).transactions) \subseteq build_prompt(cf).allowed
  <2>1. TxnIds(FirstOf(cf.transactions, PromptShown)) \subseteq ids
    BY <1>4, <1>7, RowsCited, CaseFileAssumption
  <2> QED
    BY <1>1, <2>1 DEF build_prompt
<1>11. /\ UncitedEvidence(cf) \cap {AccountId(m) : m \in c.members} = {}
       /\ Cardinality(cf.transactions) <= ListShown => UncitedEvidence(cf) = {}
  BY <1>3, <1>4, EvidenceCited
<1>12. cf.typology = typology_of(c.features)
  BY <1>3, OneTypology
<1> QED
  BY <1>3, <1>6, <1>9, <1>10, <1>11, <1>12

Compiled == stream \in Streams \cup {None}

LEMMA StreamIsCompiled == Spec => []Compiled
<1>1. Init => Compiled
  BY DEF Init, Compiled
<1>2. Compiled /\ [Next]_vars => Compiled'
  BY DraftingAssumption DEF Compiled, Next, vars, Ask, BuildStream, Crash, Restart,
    Take, ProviderReplies, RecordUnavailable, Judge, Template
<1> QED
  BY <1>1, <1>2, PTL DEF Spec

\* Whoever wrote it, a report that is returned passes the verifier against
\* the case file it is about, and so does the one that any case would get from
\* the template, whatever the stream holds (draft_and_verify, generate,
\* build_case_file, eval_verifier_catch_rate).
THEOREM ReportsStandOnTheirCases == Spec => []ReportsAreSourced
<1>1. DraftingInv => TypeOK /\ FiledNarrativesAreSourced
  BY DEF DraftingInv
<1>2. Compiled => TemplateSourcesTheCase
  BY TemplateAnswersForTheCase DEF Compiled
<1>3. DraftingInv /\ Compiled => ReportsAreSourced
  BY <1>1, <1>2 DEF ReportsAreSourced
<1> QED
  BY <1>3, DraftingHolds, StreamIsCompiled, PTL
=============================================================================
