----------------------- MODULE RecommendationsProofs -----------------------
(* Proofs about the escalation log for any set of bodies, approvers and    *)
(* faults and any bounds.                                                  *)
EXTENDS Recommendations, WellFoundedInduction, TLAPS

-----------------------------------------------------------------------------
(* Facts about the operators.                                              *)

\* A nonempty set of naturals below n has a greatest element.
LEMMA GreatestExists ==
  ASSUME NEW n \in Nat, NEW S, S \subseteq 1..n, S # {}
  PROVE  \E x \in S : \A y \in S : y <= x
<1> DEFINE T == {n - x : x \in S}
<1>1. T \subseteq Nat /\ T # {}
  <2>1. \A x \in S : n - x \in Nat /\ n - x \in T
    OBVIOUS
  <2>2. PICK x \in S : TRUE
    OBVIOUS
  <2>3. n - x \in T
    BY <2>1
  <2>4. \A u \in T : \E y \in S : u = n - y
    OBVIOUS
  <2> HIDE DEF T
  <2> QED
    BY <2>1, <2>3, <2>4
<1> DEFINE R == OpToRel(<, Nat)
<1>2. IsWellFoundedOn(R, Nat)
  BY NatLessThanWellFounded
<1> HIDE DEF T
<1>3. PICK t \in T : \A u \in T : ~(<<u, t>> \in R)
  BY <1>2, <1>1, WFMin
<1>4. \A u \in T : t <= u
  <2> SUFFICES ASSUME NEW u \in T PROVE t <= u
    OBVIOUS
  <2>1. <<u, t>> \notin R
    BY <1>3
  <2>2. ~(u < t)
    BY <1>1, <2>1 DEF OpToRel
  <2> QED
    BY <1>1, <2>2
<1>5. PICK x \in S : t = n - x
  BY DEF T
<1>6. \A y \in S : n - y \in T
  BY DEF T
<1> QED
  BY <1>4, <1>5, <1>6

LEMMA ExtendsReflexive == ASSUME NEW r PROVE Extends(r, r)
BY DEF Extends

LEMMA ExtendsTransitive ==
  ASSUME NEW r, NEW s, NEW u, Extends(s, r), Extends(u, s)
  PROVE  Extends(u, r)
BY DEF Extends

-----------------------------------------------------------------------------
(* The inductive invariant.                                                *)

LEMMA LogTyped ==
  ASSUME log \in Seq(Line)
  PROVE  /\ Len(log) \in Nat
         /\ \A k : IsRow(k) => /\ k \in 1..Len(log)
                               /\ log[k] \in Row
                               /\ log[k].id \in 1..MaxRecs
                               /\ log[k].rec \in Recommendation
<1> SUFFICES ASSUME NEW k, IsRow(k) PROVE log[k] \in Row
  BY DEF IsRow, Row
<1>1. log[k] \in Line /\ log[k].kind = "row"
  BY DEF IsRow
<1> QED
  BY <1>1 DEF Line, Torn, Garbled

LEMMA LogGrows ==
  ASSUME NEW row \in Row, log \in Seq(Line),
         log' \in {log, Appended(row), CutShort}
  PROVE  /\ log' \in Seq(Line)
         /\ \A k : IsRow(k)' =>
              \/ IsRow(k) /\ log'[k] = log[k]
              \/ k = Len(log) + 1 /\ log'[k] = row
<1>1. Torn \in Line /\ Garbled \in Line /\ row \in Line
  BY DEF Line
<1>2. Torn.kind # "row" /\ Garbled.kind # "row"
  BY DEF Torn, Garbled
<1>3. CASE log' = log
  BY <1>3 DEF IsRow
<1>4. CASE log' = Append(log, row)
  BY <1>4, <1>1 DEF IsRow
<1>5. CASE log' = Append(log, Torn)
  BY <1>5, <1>1, <1>2 DEF IsRow
<1>6. CASE TornTail /\ log' = [log EXCEPT ![Len(log)] = Garbled]
  <2>1. log' \in Seq(Line) /\ Len(log') = Len(log)
    BY <1>6, <1>1 DEF TornTail
  <2>2. \A k \in 1..Len(log) : k # Len(log) => log'[k] = log[k]
    BY <1>6
  <2>3. log'[Len(log)] = Garbled
    BY <1>6 DEF TornTail
  <2> QED
    BY <2>1, <2>2, <2>3, <1>2 DEF IsRow
<1> QED
  BY <1>3, <1>4, <1>5, <1>6 DEF Appended, CutShort

LEMMA ZeroInBound == MaxRecs \in Nat /\ 0 \in 0..MaxRecs
<1>1. MaxRecs \in Nat
  BY RecommendationsAssumption
<1> QED
  BY <1>1

LEMMA StoryInit == Init => StoryInv
<1> SUFFICES ASSUME Init PROVE StoryInv
  OBVIOUS
<1>1. TypeOK
  <2>1. counter \in 0..MaxRecs /\ clock \in Nat \ {0} /\ up \in BOOLEAN
    BY ZeroInBound DEF Init
  <2>2. DOMAIN by_id = {} /\ log \in Seq(Line)
    BY DEF Init
  <2>3. viewed \in [People -> {<<>>} \cup [id : Nat, content : Contents]]
    BY DEF Init
  <2> QED
    BY <2>1, <2>2, <2>3 DEF Init, TypeOK
<1>2. Len(log) = 0
  BY DEF Init
<1>3. /\ AllSettled /\ LogTellsOneStory /\ AnsweredIsKnown
      /\ MemoryCoversLog /\ AnswersLogged /\ DownIsEmpty
  BY <1>2 DEF Init, AllSettled, LogTellsOneStory, AnsweredIsKnown,
              MemoryCoversLog, AnswersLogged, DownIsEmpty
<1> QED
  BY <1>1, <1>3 DEF StoryInv

-----------------------------------------------------------------------------
(* A handler that sets one record and appends its row.                     *)

\* What the append and a possible death of the process leave behind.
LEMMA PersistEffect ==
  ASSUME NEW row \in Row, Persist(row)
  PROVE  /\ log' \in {log, Appended(row), CutShort}
         /\ up' \in BOOLEAN
         /\ \/ acked' = acked
            \/ acked' = acked \cup {Answer(row)} /\ log' = Appended(row) /\ up'
BY DEF Persist

LEMMA SettledKept ==
  ASSUME NEW now \in Nat, NEW rec \in Recommendation, Settled(rec, now)
  PROVE  Settled(rec, now + 1)
<1>1. rec.decided_at \in Nat /\ rec.executed_at \in Nat
  BY DEF Recommendation
<1> QED
  BY <1>1 DEF Settled

LEMMA CounterFacts ==
  ASSUME StoryInv
  PROVE  /\ MaxRecs \in Nat /\ counter \in Nat /\ counter <= MaxRecs
         /\ counter \in 0..MaxRecs
         /\ clock \in Nat /\ clock > 0
         /\ \A id \in DOMAIN by_id : id \in Nat /\ 1 <= id /\ id <= counter
<1>1. MaxRecs \in Nat
  BY RecommendationsAssumption
<1>2. counter \in 0..MaxRecs
  BY DEF StoryInv, TypeOK
<1>3. clock \in Nat /\ clock > 0
  BY DEF StoryInv, TypeOK
<1>4. \A id \in DOMAIN by_id : id \in 1..counter
  BY DEF StoryInv, TypeOK
<1> QED
  BY <1>1, <1>2, <1>3, <1>4

LEMMA WriteStep ==
  ASSUME StoryInv, up, Tick,
         NEW event \in Event, NEW id \in 1..MaxRecs, NEW rec \in Recommendation,
         NEW n \in 0..MaxRecs, id <= n, counter <= n,
         Settled(rec, clock'), id \in DOMAIN by_id => Extends(rec, by_id[id]),
         Persist(Record(event, id, rec)), Kept(Put(by_id, id, rec), n),
         UNCHANGED viewed
  PROVE  StoryInv'
<1> DEFINE row == Record(event, id, rec)
           mem == Put(by_id, id, rec)
<1>1. row \in Row /\ row.id = id /\ row.rec = rec
  BY DEF Row, Record
<1>2. /\ log' \in {log, Appended(row), CutShort}
      /\ up' \in BOOLEAN
      /\ \/ acked' = acked
         \/ acked' = acked \cup {Answer(row)} /\ log' = Appended(row) /\ up'
  BY <1>1, PersistEffect
<1>3. /\ log' \in Seq(Line)
      /\ \A k : IsRow(k)' => \/ IsRow(k) /\ log'[k] = log[k]
                             \/ k = Len(log) + 1 /\ log'[k] = row
  BY <1>1, <1>2, LogGrows DEF StoryInv, TypeOK
<1>4. /\ Len(log) \in Nat
      /\ \A k : IsRow(k) => k \in 1..Len(log) /\ log[k] \in Row
                           /\ log[k].id \in 1..MaxRecs
                           /\ log[k].rec \in Recommendation
  BY LogTyped DEF StoryInv, TypeOK
<1>5. /\ DOMAIN mem = DOMAIN by_id \cup {id}
      /\ mem[id] = rec
      /\ \A x \in DOMAIN by_id : x # id => mem[x] = by_id[x]
  BY DEF Put
<1>6. \A x \in DOMAIN by_id : Extends(mem[x], by_id[x])
  BY <1>5, ExtendsReflexive
<1>7. \A k : IsRow(k) => /\ log[k].id \in DOMAIN mem
                         /\ Extends(mem[log[k].id], log[k].rec)
  <2> SUFFICES ASSUME NEW k, IsRow(k)
               PROVE  /\ log[k].id \in DOMAIN mem
                      /\ Extends(mem[log[k].id], log[k].rec)
    OBVIOUS
  <2>1. log[k].id \in DOMAIN by_id /\ Extends(by_id[log[k].id], log[k].rec)
    BY <1>4 DEF StoryInv, MemoryCoversLog
  <2>2. Extends(mem[log[k].id], by_id[log[k].id])
    BY <1>6, <2>1
  <2> QED
    BY <1>5, <2>1, <2>2, ExtendsTransitive
<1>8. clock \in Nat /\ clock > 0 /\ clock' = clock + 1
  BY DEF Tick, StoryInv, TypeOK
<1>9. /\ up' => by_id' = mem /\ counter' = n
      /\ ~up' => by_id' = <<>> /\ counter' = 0
  BY DEF Kept
<1>10. Answer(row) = [id |-> id, rec |-> rec]
  BY <1>1 DEF Answer
<1> HIDE DEF row, mem
<1>11. TypeOK'
  <2>1. DOMAIN mem \subseteq 1..n
    BY <1>5, CounterFacts
  <2>2. \A x \in DOMAIN mem : mem[x] \in Recommendation
    BY <1>5 DEF StoryInv, TypeOK
  <2>3. DOMAIN by_id' \subseteq 1..counter' /\ counter' \in 0..MaxRecs
    <3>1. CASE up'
      BY <3>1, <1>9, <2>1
    <3>2. CASE ~up'
      BY <3>2, <1>9, CounterFacts
    <3> QED
      BY <3>1, <3>2
  <2>4. \A x \in DOMAIN by_id' : by_id'[x] \in Recommendation
    <3>1. CASE up'
      BY <3>1, <1>9, <2>2
    <3>2. CASE ~up'
      BY <3>2, <1>9
    <3> QED
      BY <3>1, <3>2
  <2>5. acked' \subseteq [id : Nat, rec : Recommendation]
    BY <1>2, <1>10 DEF StoryInv, TypeOK
  <2>6. lost' \in BOOLEAN
    BY DEF Persist, StoryInv, TypeOK
  <2> QED
    BY <1>2, <1>3, <1>8, <2>3, <2>4, <2>5, <2>6 DEF StoryInv, TypeOK
<1>12. AllSettled'
  <2>1. \A x \in DOMAIN by_id' : Settled(by_id'[x], clock')
    <3> SUFFICES ASSUME NEW x \in DOMAIN by_id' PROVE Settled(by_id'[x], clock')
      OBVIOUS
    <3>1. up' /\ by_id' = mem
      BY <1>9, <1>2
    <3>2. CASE x = id
      BY <3>1, <3>2, <1>5
    <3>3. CASE x # id
      <4>1. by_id[x] \in Recommendation /\ Settled(by_id[x], clock)
        BY <3>1, <3>3, <1>5 DEF StoryInv, TypeOK, AllSettled
      <4>2. Settled(by_id[x], clock')
        BY <4>1, <1>8, SettledKept
      <4> QED
        BY <3>1, <3>3, <1>5, <4>2
    <3> QED
      BY <3>2, <3>3
  <2>2. \A k : IsRow(k)' => Settled(log'[k].rec, clock')
    <3> SUFFICES ASSUME NEW k, IsRow(k)' PROVE Settled(log'[k].rec, clock')
      OBVIOUS
    <3>1. CASE k = Len(log) + 1 /\ log'[k] = row
      BY <3>1, <1>1
    <3>2. CASE IsRow(k) /\ log'[k] = log[k]
      <4>1. log[k].rec \in Recommendation /\ Settled(log[k].rec, clock)
        BY <3>2, <1>4 DEF StoryInv, AllSettled
      <4>2. Settled(log[k].rec, clock')
        BY <4>1, <1>8, SettledKept
      <4> QED
        BY <3>2, <4>2
    <3> QED
      BY <3>1, <3>2, <1>3
  <2> QED
    BY <2>1, <2>2 DEF AllSettled
<1>13. LogTellsOneStory'
  <2> SUFFICES ASSUME NEW j \in 1..Len(log'), NEW k \in 1..Len(log'),
                      j < k, IsRow(j)', IsRow(k)', log'[j].id = log'[k].id
               PROVE  Extends(log'[k].rec, log'[j].rec)
    BY DEF LogTellsOneStory, Extends
  <2>1. IsRow(j) /\ log'[j] = log[j]
    BY <1>3, <1>4
  <2>2. CASE IsRow(k) /\ log'[k] = log[k]
    BY <2>1, <2>2, <1>4 DEF StoryInv, LogTellsOneStory
  <2>3. CASE k = Len(log) + 1 /\ log'[k] = row
    BY <2>1, <2>3, <1>1, <1>5, <1>7
  <2> QED
    BY <2>2, <2>3, <1>3
<1>14. AnsweredIsKnown'
  <2> SUFFICES ASSUME up', NEW a \in acked'
               PROVE  a.id \in DOMAIN mem /\ Extends(mem[a.id], a.rec)
    BY <1>9 DEF AnsweredIsKnown, Extends
  <2>1. CASE a \in acked
    <3>1. a.id \in DOMAIN by_id /\ Extends(by_id[a.id], a.rec)
      BY <2>1 DEF StoryInv, AnsweredIsKnown
    <3>2. Extends(mem[a.id], by_id[a.id])
      BY <1>6, <3>1
    <3> QED
      BY <1>5, <3>1, <3>2, ExtendsTransitive
  <2>2. CASE a = [id |-> id, rec |-> rec]
    BY <2>2, <1>5, ExtendsReflexive
  <2> QED
    BY <1>2, <1>10, <2>1, <2>2
<1>15. MemoryCoversLog'
  <2> SUFFICES ASSUME up', NEW k \in 1..Len(log'), IsRow(k)'
               PROVE  /\ log'[k].id \in DOMAIN mem
                      /\ Extends(mem[log'[k].id], log'[k].rec)
    BY <1>9 DEF MemoryCoversLog, Extends
  <2>1. CASE IsRow(k) /\ log'[k] = log[k]
    BY <2>1, <1>7
  <2>2. CASE k = Len(log) + 1 /\ log'[k] = row
    BY <2>2, <1>1, <1>5, ExtendsReflexive
  <2> QED
    BY <2>1, <2>2, <1>3
<1>16. AnswersLogged'
  <2> SUFFICES ASSUME Readable', NEW a \in acked'
               PROVE  \E k \in 1..Len(log') :
                        IsRow(k)' /\ log'[k].id = a.id /\ log'[k].rec = a.rec
    BY DEF AnswersLogged
  <2>1. log' = log \/ log' = Append(log, row)
    BY <1>2, <1>3 DEF Appended, CutShort, TornTail, Readable, IsRow, Torn, Garbled
  <2>2. \A k \in 1..Len(log) : k \in 1..Len(log') /\ log'[k] = log[k]
    BY <2>1, <1>4 DEF StoryInv, TypeOK
  <2>3. \A k \in 1..Len(log') : IsRow(k)'
    BY DEF Readable
  <2>4. Readable
    <3> SUFFICES ASSUME NEW k \in 1..Len(log) PROVE IsRow(k)
      BY DEF Readable
    <3> QED
      BY <2>2, <2>3 DEF IsRow
  <2>5. CASE a \in acked
    <3>1. PICK k \in 1..Len(log) :
            IsRow(k) /\ log[k].id = a.id /\ log[k].rec = a.rec
      BY <2>5, <2>4 DEF StoryInv, AnswersLogged
    <3> QED
      BY <3>1, <2>2, <2>3
  <2>6. CASE a = Answer(row) /\ log' = Appended(row)
    <3>1. ~TornTail
      BY <2>4, <1>4 DEF TornTail, Readable, IsRow, Torn
    <3>2. log' = Append(log, row)
      BY <2>6, <3>1 DEF Appended
    <3>3. PICK k : k = Len(log) + 1
      OBVIOUS
    <3>4. k \in 1..Len(log') /\ log'[k] = row
      BY <3>2, <3>3, <1>1, <1>4 DEF StoryInv, TypeOK
    <3>5. IsRow(k)'
      BY <3>4, <2>3
    <3> QED
      BY <3>4, <3>5, <2>6, <1>1, <1>10
  <2> QED
    BY <2>5, <2>6, <1>2
<1>17. DownIsEmpty'
  BY <1>9 DEF DownIsEmpty
<1> QED
  BY <1>11, <1>12, <1>13, <1>14, <1>15, <1>16, <1>17 DEF StoryInv

-----------------------------------------------------------------------------
(* The handlers are such writes.                                           *)

LEMMA RecommendStep ==
  ASSUME StoryInv, NEW body \in Contents \cup Refused, CaseRecommend(body)
  PROVE  StoryInv'
<1>1. body \in Contents /\ up /\ Tick
  BY DEF CaseRecommend
<1>2. /\ counter \in Nat /\ counter + 1 \in 1..MaxRecs
      /\ clock \in Nat /\ clock' = clock + 1
  BY <1>1, CounterFacts DEF CaseRecommend, Tick
<1>3. PICK id \in 1..MaxRecs : id = counter + 1
  BY <1>2
<1>4. PICK rec : rec = NewRecommendation(body)
  OBVIOUS
<1>5. rec \in Recommendation
  BY <1>1, <1>4 DEF NewRecommendation, Recommendation, Status
<1>6. rec \in Recommendation /\ Settled(rec, clock')
  <2>1. /\ rec.status = "pending" /\ rec.executed = FALSE /\ rec.executed_at = 0
    BY <1>4 DEF NewRecommendation
  <2>2. 0 < clock'
    BY <1>2
  <2> QED
    BY <1>5, <2>1, <2>2 DEF Settled, Gated
<1>7. id \notin DOMAIN by_id
  BY <1>2, <1>3, CounterFacts
<1>8. Persist(Record("recommend", id, rec)) /\ Kept(Put(by_id, id, rec), id)
  BY <1>3, <1>4 DEF CaseRecommend
<1>9. id \in 0..MaxRecs /\ id <= id /\ counter <= id
  BY <1>2, <1>3
<1> QED
  BY <1>1, <1>6, <1>7, <1>8, <1>9, WriteStep DEF Event, CaseRecommend

LEMMA DecideStep ==
  ASSUME StoryInv, NEW id \in 1..MaxRecs, NEW by \in People,
         NEW approved \in BOOLEAN, RecommendationDecide(id, by, approved)
  PROVE  StoryInv'
<1>1. up /\ Tick /\ id \in DOMAIN by_id /\ by_id[id].status = "pending"
  BY DEF RecommendationDecide, MayDecide
<1>2. by_id[id] \in Recommendation /\ Settled(by_id[id], clock)
  BY <1>1 DEF StoryInv, TypeOK, AllSettled
<1>3. clock \in Nat /\ clock' = clock + 1
  BY <1>1 DEF StoryInv, TypeOK, Tick
<1>4. PICK rec : rec = Decided(by_id[id], approved, by)
  OBVIOUS
<1>5. /\ rec.content = by_id[id].content
      /\ rec.status \in {"approved", "rejected"}
      /\ rec.decided_by = by /\ rec.decided_at = clock
      /\ rec.executed_at = by_id[id].executed_at
      /\ ~rec.executed
      /\ rec \in Recommendation
  BY <1>1, <1>2, <1>3, <1>4 DEF Decided, Recommendation, Status, Settled
<1>6. Settled(rec, clock') /\ Extends(rec, by_id[id])
  <2>1. by_id[id].executed_at \in Nat /\ by_id[id].executed_at < clock
    BY <1>2 DEF Settled, Recommendation
  <2> QED
    BY <1>1, <1>2, <1>3, <1>5, <2>1 DEF Settled, Gated, Extends
<1>7. Persist(Record("decide", id, rec)) /\ Kept(Put(by_id, id, rec), counter)
  BY <1>4 DEF RecommendationDecide
<1>8. counter \in 0..MaxRecs /\ id <= counter /\ counter <= counter
  BY <1>1, CounterFacts
<1> QED
  BY <1>1, <1>5, <1>6, <1>7, <1>8, WriteStep DEF Event, RecommendationDecide

LEMMA ExecuteStep ==
  ASSUME StoryInv, NEW id \in 1..MaxRecs, RecommendationExecute(id)
  PROVE  StoryInv'
<1>1. up /\ Tick /\ id \in DOMAIN by_id /\ by_id[id].status = "approved"
  BY DEF RecommendationExecute, MayExecute
<1>2. by_id[id] \in Recommendation /\ Settled(by_id[id], clock)
  BY <1>1 DEF StoryInv, TypeOK, AllSettled
<1>3. clock \in Nat /\ clock' = clock + 1
  BY <1>1 DEF StoryInv, TypeOK, Tick
<1>4. PICK rec : rec = [by_id[id] EXCEPT !.executed = TRUE, !.executed_at = clock]
  OBVIOUS
<1>5. /\ rec.content = by_id[id].content
      /\ rec.status = by_id[id].status
      /\ rec.decided_by = by_id[id].decided_by
      /\ rec.decided_at = by_id[id].decided_at
      /\ rec.executed /\ rec.executed_at = clock
      /\ rec \in Recommendation
  BY <1>1, <1>2, <1>3, <1>4 DEF Recommendation
<1>6. Settled(rec, clock') /\ Extends(rec, by_id[id])
  <2>1. by_id[id].decided_by \in People /\ by_id[id].decided_at < clock
    BY <1>1, <1>2 DEF Settled
  <2>2. rec.decided_at \in Nat
    BY <1>5 DEF Recommendation
  <2> QED
    BY <1>1, <1>3, <1>5, <2>1, <2>2 DEF Settled, Gated, Extends
<1>7. Persist(Record("execute", id, rec)) /\ Kept(Put(by_id, id, rec), counter)
  BY <1>4 DEF RecommendationExecute
<1>8. counter \in 0..MaxRecs /\ id <= counter /\ counter <= counter
  BY <1>1, CounterFacts
<1> QED
  BY <1>1, <1>5, <1>6, <1>7, <1>8, WriteStep DEF Event, RecommendationExecute

-----------------------------------------------------------------------------
(* Reading, dying and coming back.                                         *)

LEMMA QuietStep ==
  ASSUME StoryInv, UNCHANGED <<log, clock, acked, lost>>, UNCHANGED <<up, by_id, counter>>,
         viewed' \in [People -> {<<>>} \cup [id : Nat, content : Contents]]
  PROVE  StoryInv'
<1> USE DEF StoryInv
<1>1. TypeOK'
  BY DEF TypeOK
<1>2. AllSettled' /\ LogTellsOneStory'
  BY DEF AllSettled, LogTellsOneStory, IsRow
<1>3. AnsweredIsKnown' /\ MemoryCoversLog' /\ AnswersLogged' /\ DownIsEmpty'
  BY DEF AnsweredIsKnown, MemoryCoversLog, AnswersLogged, DownIsEmpty, IsRow, Readable
<1> QED
  BY <1>1, <1>2, <1>3

LEMMA ViewStep ==
  ASSUME StoryInv, NEW p \in People, NEW id \in 1..MaxRecs, View(p, id)
  PROVE  StoryInv'
<1>1. by_id[id] \in Recommendation
  BY DEF View, StoryInv, TypeOK
<1>2. [id |-> id, content |-> by_id[id].content] \in [id : Nat, content : Contents]
  <2>1. by_id[id].content \in Contents
    BY <1>1 DEF Recommendation
  <2>2. id \in Nat
    BY ZeroInBound
  <2> QED
    BY <2>1, <2>2
<1>3. viewed' \in [People -> {<<>>} \cup [id : Nat, content : Contents]]
  BY <1>2 DEF View, StoryInv, TypeOK
<1> QED
  BY <1>3, QuietStep DEF View

LEMMA CrashStep == StoryInv /\ Crash => StoryInv'
<1> SUFFICES ASSUME StoryInv, Crash PROVE StoryInv'
  OBVIOUS
<1> USE DEF StoryInv
<1>1. /\ ~up' /\ by_id' = <<>> /\ counter' = 0 /\ DOMAIN by_id' = {}
      /\ UNCHANGED <<log, clock, viewed, acked, lost>>
  BY DEF Crash
<1>2. TypeOK'
  <2>1. counter' \in 0..MaxRecs /\ up' \in BOOLEAN
    BY <1>1, ZeroInBound DEF Crash
  <2>2. DOMAIN by_id' \subseteq 1..counter'
    BY <1>1
  <2> QED
    BY <1>1, <2>1, <2>2 DEF TypeOK
<1>3. AllSettled' /\ LogTellsOneStory'
  BY <1>1 DEF AllSettled, LogTellsOneStory, IsRow
<1>4. AnsweredIsKnown' /\ MemoryCoversLog' /\ AnswersLogged' /\ DownIsEmpty'
  BY <1>1 DEF AnsweredIsKnown, MemoryCoversLog, AnswersLogged, DownIsEmpty, IsRow, Readable
<1> QED
  BY <1>2, <1>3, <1>4

\* Every logged id has a last row, and that is the record load() keeps.
LEMMA ReplayedIsLast ==
  ASSUME StoryInv
  PROVE  /\ DOMAIN Replayed = LoggedIds
         /\ \A id \in LoggedIds :
              \E k \in 1..Len(log) : IsLastOf(k, id) /\ Replayed[id] = log[k].rec
<1>1. \A id \in LoggedIds : \E k \in 1..Len(log) : IsLastOf(k, id)
  <2> SUFFICES ASSUME NEW id \in LoggedIds
               PROVE  \E k \in 1..Len(log) : IsLastOf(k, id)
    OBVIOUS
  <2> DEFINE S == {k \in 1..Len(log) : IsRow(k) /\ log[k].id = id}
  <2>1. Len(log) \in Nat
    BY LogTyped DEF StoryInv, TypeOK
  <2>2. S \subseteq 1..Len(log) /\ S # {}
    BY DEF LoggedIds
  <2>3. PICK n : n = Len(log)
    OBVIOUS
  <2>4. \E x \in S : \A y \in S : y <= x
    BY <2>1, <2>2, <2>3, GreatestExists
  <2>5. PICK k \in S : \A y \in S : y <= k
    BY <2>4
  <2>6. \A j \in k + 1..Len(log) : IsRow(j) => log[j].id # id
    BY <2>1, <2>5 DEF IsRow
  <2> QED
    BY <2>5, <2>6 DEF IsLastOf
<1>2. DOMAIN Replayed = LoggedIds
  BY DEF Replayed
<1> SUFFICES ASSUME NEW id \in LoggedIds
             PROVE  \E k \in 1..Len(log) :
                      IsLastOf(k, id) /\ Replayed[id] = log[k].rec
  BY <1>2
<1> DEFINE last == CHOOSE k \in 1..Len(log) : IsLastOf(k, id)
<1>3. last \in 1..Len(log) /\ IsLastOf(last, id)
  BY <1>1
<1>4. Replayed[id] = log[last].rec
  BY DEF Replayed
<1> QED
  BY <1>3, <1>4

LEMMA RestartStep == StoryInv /\ Restart => StoryInv'
<1> SUFFICES ASSUME StoryInv, Restart PROVE StoryInv'
  OBVIOUS
<1>1. /\ ~up /\ Readable /\ up' /\ by_id' = Replayed
      /\ UNCHANGED <<log, clock, viewed, acked, lost>>
  BY DEF Restart
<1>2. counter' \in 0..MaxRecs /\ \A id \in LoggedIds : id <= counter'
  BY DEF Restart, CounterLoaded
<1>3. /\ Len(log) \in Nat
      /\ \A k : IsRow(k) => k \in 1..Len(log) /\ log[k] \in Row
                           /\ log[k].id \in 1..MaxRecs
                           /\ log[k].rec \in Recommendation
  BY LogTyped DEF StoryInv, TypeOK
<1>4. \A k : IsRow(k) => log[k].id \in LoggedIds
  BY <1>3 DEF LoggedIds
<1>5. /\ DOMAIN by_id' = LoggedIds
      /\ \A id \in LoggedIds :
           \E k \in 1..Len(log) : IsLastOf(k, id) /\ by_id'[id] = log[k].rec
  BY <1>1, ReplayedIsLast
<1>6. \A j : IsRow(j) => Extends(by_id'[log[j].id], log[j].rec)
  <2> SUFFICES ASSUME NEW j, IsRow(j)
               PROVE  Extends(by_id'[log[j].id], log[j].rec)
    OBVIOUS
  <2>1. PICK k \in 1..Len(log) :
          IsLastOf(k, log[j].id) /\ by_id'[log[j].id] = log[k].rec
    BY <1>4, <1>5
  <2>2. j \in 1..Len(log) /\ j <= k
    BY <1>3, <2>1 DEF IsLastOf
  <2>3. CASE j = k
    BY <2>1, <2>3, ExtendsReflexive
  <2>4. CASE j < k
    BY <2>1, <2>2, <2>4 DEF StoryInv, LogTellsOneStory, IsLastOf
  <2> QED
    BY <1>3, <2>2, <2>3, <2>4
<1>7. \A id \in DOMAIN by_id' : /\ by_id'[id] \in Recommendation
                                /\ Settled(by_id'[id], clock)
                                /\ id \in 1..MaxRecs
  <2> SUFFICES ASSUME NEW id \in LoggedIds
               PROVE  /\ by_id'[id] \in Recommendation
                      /\ Settled(by_id'[id], clock)
                      /\ id \in 1..MaxRecs
    BY <1>5
  <2>1. PICK k \in 1..Len(log) : IsLastOf(k, id) /\ by_id'[id] = log[k].rec
    BY <1>5
  <2>2. IsRow(k) /\ log[k].id = id
    BY <2>1 DEF IsLastOf
  <2> QED
    BY <2>1, <2>2, <1>3 DEF StoryInv, AllSettled
<1>8. TypeOK'
  <2>1. DOMAIN by_id' \subseteq 1..counter'
    BY <1>2, <1>5, <1>7
  <2> QED
    BY <1>1, <1>2, <1>7, <2>1 DEF StoryInv, TypeOK
<1>9. AllSettled'
  BY <1>1, <1>7 DEF StoryInv, AllSettled, IsRow
<1>10. LogTellsOneStory' /\ AnswersLogged' /\ DownIsEmpty'
  BY <1>1 DEF StoryInv, LogTellsOneStory, AnswersLogged, DownIsEmpty, IsRow, Readable
<1>11. MemoryCoversLog'
  BY <1>1, <1>3, <1>4, <1>5, <1>6 DEF MemoryCoversLog, IsRow
<1>12. AnsweredIsKnown'
  <2> SUFFICES ASSUME NEW a \in acked
               PROVE  a.id \in DOMAIN by_id' /\ Extends(by_id'[a.id], a.rec)
    BY <1>1 DEF AnsweredIsKnown
  <2>1. PICK k \in 1..Len(log) : IsRow(k) /\ log[k].id = a.id /\ log[k].rec = a.rec
    BY <1>1 DEF StoryInv, AnswersLogged
  <2> QED
    BY <2>1, <1>4, <1>5, <1>6
<1> QED
  BY <1>8, <1>9, <1>10, <1>11, <1>12 DEF StoryInv

LEMMA StoryNext == StoryInv /\ [Next]_vars => StoryInv'
<1> SUFFICES ASSUME StoryInv, [Next]_vars PROVE StoryInv'
  OBVIOUS
<1>1. ASSUME NEW c \in Contents \cup Refused, CaseRecommend(c) PROVE StoryInv'
  BY <1>1, RecommendStep
<1>2. ASSUME NEW id \in 1..MaxRecs, NEW p \in People, NEW approved \in BOOLEAN,
             RecommendationDecide(id, p, approved)
      PROVE  StoryInv'
  BY <1>2, DecideStep
<1>3. ASSUME NEW id \in 1..MaxRecs, RecommendationExecute(id) PROVE StoryInv'
  BY <1>3, ExecuteStep
<1>4. ASSUME NEW id \in 1..MaxRecs, NEW p \in People, View(p, id) PROVE StoryInv'
  BY <1>4, ViewStep
<1>5. CASE Crash
  BY <1>5, CrashStep
<1>6. CASE Restart
  BY <1>6, RestartStep
<1>7. CASE UNCHANGED vars
  BY <1>7, QuietStep DEF vars, StoryInv, TypeOK
<1> QED
  BY <1>1, <1>2, <1>3, <1>4, <1>5, <1>6, <1>7 DEF Next

LEMMA StoryAlways == Spec => []StoryInv
BY StoryInit, StoryNext, PTL DEF Spec

-----------------------------------------------------------------------------
(* The theorems.                                                           *)

\* Every variable keeps its type whatever fails, for any number of
\* recommendations and calls.
THEOREM TypeCorrect == Spec => []TypeOK
<1>1. StoryInv => TypeOK
  BY DEF StoryInv
<1> QED
  BY <1>1, StoryAlways, PTL

\* The human gate: no record in memory or in the log says executed unless a
\* named person approved it at an earlier time, after any failures, crashes
\* and replays (escalation.py:112-119, app.py:408).
THEOREM GateHolds == Spec => []HumanGate
<1>1. StoryInv => HumanGate
  BY DEF StoryInv, AllSettled, Settled, HumanGate
<1> QED
  BY <1>1, StoryAlways, PTL

\* The rows of one id tell one story in order, although ids can be handed out
\* again after a lost append (recommendation_store.py:1-8).
THEOREM OneStory == Spec => []LogTellsOneStory
<1>1. StoryInv => LogTellsOneStory
  BY DEF StoryInv
<1> QED
  BY <1>1, StoryAlways, PTL

\* A server that comes up knows everything any earlier life answered 200 for.
THEOREM NothingAnsweredIsForgotten == Spec => []AnsweredIsKnown
<1>1. StoryInv => AnsweredIsKnown
  BY DEF StoryInv
<1> QED
  BY <1>1, StoryAlways, PTL

-----------------------------------------------------------------------------
(* While no append is lost on a live server, memory mirrors the log.       *)

\* Replayed, characterised by the last rows.
ReplayShape ==
  /\ DOMAIN Replayed = LoggedIds
  /\ \A id \in LoggedIds : \E k : IsLastOf(k, id)
  /\ \A id, k : IsLastOf(k, id) => /\ id \in LoggedIds
                                   /\ Replayed[id] = log[k].rec
  /\ \A id \in LoggedIds : id \in 1..MaxRecs /\ Replayed[id] \in Recommendation

LEMMA ReplayShaped == StoryInv => ReplayShape
<1> SUFFICES ASSUME StoryInv PROVE ReplayShape
  OBVIOUS
<1>1. /\ Len(log) \in Nat
      /\ \A k : IsRow(k) => k \in 1..Len(log) /\ log[k] \in Row
                           /\ log[k].id \in 1..MaxRecs
                           /\ log[k].rec \in Recommendation
  BY LogTyped DEF StoryInv, TypeOK
<1>2. /\ DOMAIN Replayed = LoggedIds
      /\ \A id \in LoggedIds :
           \E k \in 1..Len(log) : IsLastOf(k, id) /\ Replayed[id] = log[k].rec
  BY ReplayedIsLast
<1>3. ASSUME NEW id, NEW k, IsLastOf(k, id)
      PROVE  id \in LoggedIds /\ Replayed[id] = log[k].rec
  <2>1. id \in LoggedIds
    BY <1>3 DEF IsLastOf, IsRow, LoggedIds
  <2>2. PICK j \in 1..Len(log) : IsLastOf(j, id) /\ Replayed[id] = log[j].rec
    BY <1>2, <2>1
  <2>3. k \in 1..Len(log) /\ ~(j < k) /\ ~(k < j)
    BY <1>1, <1>3, <2>2 DEF IsLastOf, IsRow
  <2>4. j = k
    BY <1>1, <2>2, <2>3
  <2> QED
    BY <2>1, <2>2, <2>4
<1>4. \A id \in LoggedIds : id \in 1..MaxRecs /\ Replayed[id] \in Recommendation
  BY <1>1, <1>2 DEF IsLastOf
<1> QED
  BY <1>2, <1>3, <1>4 DEF ReplayShape

\* One whole line more: its record replaces what its id had.
LEMMA ReplayAppended ==
  ASSUME ReplayShape, ReplayShape', log \in Seq(Line), NEW row \in Row,
         log' = Append(log, row)
  PROVE  Replayed' = Put(Replayed, row.id, row.rec)
<1>1. row \in Line /\ row.kind = "row"
  BY DEF Row, Line
<1>2. /\ Len(log) \in Nat /\ Len(log') = Len(log) + 1
      /\ \A k \in 1..Len(log) : log'[k] = log[k]
      /\ log'[Len(log) + 1] = row
  BY <1>1
<1>3. PICK n : n = Len(log) + 1
  OBVIOUS
<1>4. \A k : IsRow(k)' <=> IsRow(k) \/ k = n
  BY <1>1, <1>2, <1>3 DEF IsRow
<1>5. IsLastOf(n, row.id)'
  BY <1>2, <1>3, <1>4 DEF IsLastOf
<1>6. ASSUME NEW id, NEW k, IsLastOf(k, id), id # row.id
      PROVE  IsLastOf(k, id)' /\ log'[k] = log[k]
  <2>1. k \in 1..Len(log) /\ IsRow(k) /\ log[k].id = id
    BY <1>6 DEF IsLastOf, IsRow
  <2>2. \A j \in k + 1..Len(log') : IsRow(j)' => log'[j].id # id
    <3> SUFFICES ASSUME NEW j \in k + 1..Len(log'), IsRow(j)'
                 PROVE  log'[j].id # id
      OBVIOUS
    <3>1. CASE j = n
      BY <1>2, <1>3, <1>6, <3>1
    <3>2. CASE IsRow(j)
      BY <1>2, <1>6, <3>2 DEF IsLastOf, IsRow
    <3> QED
      BY <1>4, <3>1, <3>2
  <2> QED
    BY <1>2, <1>4, <2>1, <2>2 DEF IsLastOf
<1>7. LoggedIds' = LoggedIds \cup {row.id}
  <2>1. row.id \in LoggedIds'
    BY <1>5 DEF ReplayShape
  <2>2. ASSUME NEW id \in LoggedIds PROVE id \in LoggedIds'
    BY <1>6, <2>1 DEF ReplayShape
  <2>3. ASSUME NEW id \in LoggedIds' PROVE id \in LoggedIds \cup {row.id}
    BY <1>2, <1>3, <1>4 DEF LoggedIds, IsRow
  <2> QED
    BY <2>1, <2>2, <2>3
<1>8. Replayed'[row.id] = row.rec
  BY <1>2, <1>3, <1>5 DEF ReplayShape
<1>9. ASSUME NEW id \in LoggedIds, id # row.id PROVE Replayed'[id] = Replayed[id]
  <2>1. PICK k : IsLastOf(k, id)
    BY DEF ReplayShape
  <2>2. IsLastOf(k, id)' /\ log'[k] = log[k]
    BY <1>6, <1>9, <2>1
  <2>3. Replayed[id] = log[k].rec
    BY <2>1 DEF ReplayShape
  <2>4. Replayed'[id] = log'[k].rec
    BY <2>2 DEF ReplayShape
  <2> QED
    BY <2>2, <2>3, <2>4
<1>10. DOMAIN Replayed = LoggedIds /\ Replayed' = [id \in LoggedIds' |-> Replayed'[id]]
  BY DEF ReplayShape, Replayed
<1>11. Put(Replayed, row.id, row.rec)
         = [id \in LoggedIds' |-> IF id = row.id THEN row.rec ELSE Replayed[id]]
  BY <1>7, <1>10 DEF Put
<1>12. \A id \in LoggedIds' :
         Replayed'[id] = IF id = row.id THEN row.rec ELSE Replayed[id]
  BY <1>7, <1>8, <1>9
<1> QED
  BY <1>10, <1>11, <1>12

\* No whole line more: every id keeps its record.
LEMMA ReplayKept ==
  ASSUME ReplayShape, ReplayShape', log \in Seq(Line), Len(log') \in Nat,
         \A k : IsRow(k)' <=> IsRow(k), \A k : IsRow(k) => log'[k] = log[k]
  PROVE  Replayed' = Replayed
<1>1. ASSUME NEW id, NEW k, IsLastOf(k, id) PROVE IsLastOf(k, id)'
  <2>1. IsRow(k)' /\ log'[k] = log[k]
    BY <1>1 DEF IsLastOf
  <2>2. k \in 1..Len(log) /\ k \in 1..Len(log')
    BY <1>1, <2>1 DEF IsLastOf, IsRow
  <2>3. \A j \in k + 1..Len(log') : IsRow(j)' => log'[j].id # id
    BY <1>1, <2>2 DEF IsLastOf, IsRow
  <2> QED
    BY <1>1, <2>1, <2>3 DEF IsLastOf
<1>2. LoggedIds' = LoggedIds
  BY DEF LoggedIds, IsRow
<1>3. ASSUME NEW id \in LoggedIds PROVE Replayed'[id] = Replayed[id]
  <2>1. PICK k : IsLastOf(k, id)
    BY DEF ReplayShape
  <2>2. IsLastOf(k, id)' /\ log'[k] = log[k]
    BY <1>1, <2>1 DEF IsLastOf
  <2> QED
    BY <2>1, <2>2 DEF ReplayShape
<1>4. /\ Replayed = [id \in LoggedIds |-> Replayed[id]]
      /\ Replayed' = [id \in LoggedIds' |-> Replayed'[id]]
  BY DEF Replayed
<1> QED
  BY <1>2, <1>3, <1>4

\* What a handler's write does to the replay, as long as no append is lost:
\* the row is entered, or the process died with nothing readable added.
LEMMA PersistReplay ==
  ASSUME StoryInv, StoryInv', ReplayShape, ReplayShape', Readable,
         NEW row \in Row, Persist(row), ~lost'
  PROVE  \/ /\ log' = Append(log, row) /\ Readable'
            /\ Replayed' = Put(Replayed, row.id, row.rec)
         \/ ~up' /\ Replayed' = Replayed
<1>1. log \in Seq(Line) /\ log' \in Seq(Line) /\ Len(log) \in Nat /\ Len(log') \in Nat
  BY DEF StoryInv, TypeOK
<1>2. row.kind = "row"
  BY DEF Row
<1>3. ~TornTail
  BY <1>1 DEF TornTail, Readable, IsRow, Torn
<1>4. \/ log' = Append(log, row)
      \/ ~up' /\ log' \in {log, Append(log, Torn)}
  BY <1>3 DEF Persist, Appended, CutShort
<1>5. CASE log' = Append(log, row)
  <2>1. Replayed' = Put(Replayed, row.id, row.rec)
    BY <1>1, <1>5, ReplayAppended
  <2>2. Readable'
    BY <1>1, <1>2, <1>5 DEF Readable, IsRow
  <2> QED
    BY <1>5, <2>1, <2>2
<1>6. CASE ~up' /\ log' \in {log, Append(log, Torn)}
  <2>1. Torn \in Line /\ Torn.kind # "row"
    BY DEF Torn, Line
  <2>2. /\ \A k : IsRow(k)' <=> IsRow(k)
        /\ \A k : IsRow(k) => log'[k] = log[k]
    BY <1>1, <1>6, <2>1 DEF IsRow
  <2> QED
    BY <1>1, <1>6, <2>2, ReplayKept
<1> QED
  BY <1>4, <1>5, <1>6

\* A person's view survives an entry that keeps the content of what they read.
LEMMA ViewKept ==
  ASSUME MirrorInv, ~lost, ReplayShape, ReplayShape', UNCHANGED viewed,
         NEW id, NEW rec, Replayed' = Put(Replayed, id, rec),
         id \in LoggedIds => rec.content = Replayed[id].content
  PROVE  \A p \in People :
           viewed'[p] # <<>> =>
             /\ viewed'[p].id \in LoggedIds'
             /\ Replayed'[viewed'[p].id].content = viewed'[p].content
<1>1. LoggedIds' = LoggedIds \cup {id}
  BY DEF ReplayShape, Put
<1>2. \A x \in LoggedIds : Replayed'[x].content = Replayed[x].content
  BY DEF ReplayShape, Put
<1> QED
  BY <1>1, <1>2 DEF MirrorInv

\* A handler that sets one record and appends its row keeps the mirror.
LEMMA MirrorWrite ==
  ASSUME StoryInv, StoryInv', MirrorInv, ReplayShape, ReplayShape', up,
         NEW row \in Row, Persist(row), UNCHANGED viewed,
         NEW n, Kept(Put(by_id, row.id, row.rec), n),
         row.id \in DOMAIN by_id => row.rec.content = by_id[row.id].content
  PROVE  MirrorInv'
<1> SUFFICES ASSUME ~lost'
             PROVE  /\ up' => Readable' /\ by_id' = Replayed'
                    /\ \A p \in People :
                         viewed'[p] # <<>> =>
                           /\ viewed'[p].id \in LoggedIds'
                           /\ Replayed'[viewed'[p].id].content = viewed'[p].content
  BY DEF MirrorInv
<1>1. ~lost
  BY DEF Persist
<1>2. Readable /\ by_id = Replayed
  BY <1>1 DEF MirrorInv
<1>3. CASE /\ log' = Append(log, row) /\ Readable'
           /\ Replayed' = Put(Replayed, row.id, row.rec)
  <2>1. up' => by_id' = Replayed'
    BY <1>2, <1>3 DEF Kept
  <2>2. row.id \in LoggedIds => row.rec.content = Replayed[row.id].content
    BY <1>2 DEF ReplayShape
  <2> QED
    BY <1>1, <1>3, <2>1, <2>2, ViewKept
<1>4. CASE ~up' /\ Replayed' = Replayed
  <2>1. LoggedIds' = LoggedIds
    BY <1>4 DEF ReplayShape
  <2> QED
    BY <1>1, <1>4, <2>1 DEF MirrorInv
<1> QED
  BY <1>2, <1>3, <1>4, PersistReplay

\* The rows the three writing handlers append.
LEMMA RecommendRow ==
  ASSUME StoryInv, NEW body \in Contents \cup Refused, CaseRecommend(body),
         NEW row, row = Record("recommend", counter + 1, NewRecommendation(body))
  PROVE  /\ row \in Row /\ row.id = counter + 1 /\ row.rec = NewRecommendation(body)
         /\ row.id \notin DOMAIN by_id
<1>1. body \in Contents
  BY DEF CaseRecommend
<1>2. counter + 1 \in 1..MaxRecs /\ counter + 1 \notin DOMAIN by_id
  BY CounterFacts DEF CaseRecommend
<1>3. NewRecommendation(body) \in Recommendation
  BY <1>1 DEF NewRecommendation, Recommendation, Status
<1> QED
  BY <1>2, <1>3 DEF Record, Row, Event

LEMMA DecideRow ==
  ASSUME StoryInv, NEW id \in 1..MaxRecs, NEW by \in People,
         NEW approved \in BOOLEAN, RecommendationDecide(id, by, approved),
         NEW row, row = Record("decide", id, Decided(by_id[id], approved, by))
  PROVE  /\ row \in Row /\ row.id = id /\ row.rec = Decided(by_id[id], approved, by)
         /\ row.rec.content = by_id[id].content
<1>1. by_id[id] \in Recommendation /\ clock \in Nat
  BY DEF RecommendationDecide, StoryInv, TypeOK
<1>2. /\ Decided(by_id[id], approved, by) \in Recommendation
      /\ Decided(by_id[id], approved, by).content = by_id[id].content
  BY <1>1 DEF Decided, Recommendation, Status
<1> QED
  BY <1>2 DEF Record, Row, Event

Executed(rec) == [rec EXCEPT !.executed = TRUE, !.executed_at = clock]

LEMMA ExecuteRow ==
  ASSUME StoryInv, NEW id \in 1..MaxRecs, RecommendationExecute(id),
         NEW row, row = Record("execute", id, Executed(by_id[id]))
  PROVE  /\ row \in Row /\ row.id = id /\ row.rec = Executed(by_id[id])
         /\ row.rec.content = by_id[id].content
<1>1. by_id[id] \in Recommendation /\ clock \in Nat
  BY DEF RecommendationExecute, StoryInv, TypeOK
<1>2. /\ Executed(by_id[id]) \in Recommendation
      /\ Executed(by_id[id]).content = by_id[id].content
  BY <1>1 DEF Executed, Recommendation
<1> QED
  BY <1>2 DEF Record, Row, Event

LEMMA MirrorInit == Init => MirrorInv
<1> SUFFICES ASSUME Init PROVE MirrorInv
  OBVIOUS
<1>1. Len(log) = 0 /\ by_id = <<>>
  BY DEF Init
<1>2. LoggedIds = {}
  BY <1>1 DEF LoggedIds
<1>3. Replayed = <<>>
  BY <1>2 DEF Replayed
<1>4. Readable
  BY <1>1 DEF Readable
<1> QED
  BY <1>1, <1>3, <1>4 DEF Init, MirrorInv

\* Nothing that reads the log changes.
LEMMA SameLog ==
  ASSUME log' = log
  PROVE  Replayed' = Replayed /\ LoggedIds' = LoggedIds /\ (Readable' <=> Readable)
BY DEF Replayed, LoggedIds, IsLastOf, IsRow, Readable

LEMMA MirrorStep ==
  ASSUME StoryInv, StoryInv', ReplayShape, ReplayShape', MirrorInv, [Next]_vars
  PROVE  MirrorInv'
<1>1. ASSUME NEW body \in Contents \cup Refused, CaseRecommend(body)
      PROVE  MirrorInv'
  <2>1. PICK row : row = Record("recommend", counter + 1, NewRecommendation(body))
    OBVIOUS
  <2>2. /\ row \in Row /\ row.id = counter + 1 /\ row.rec = NewRecommendation(body)
        /\ row.id \notin DOMAIN by_id
    BY <1>1, <2>1, RecommendRow
  <2>3. Persist(row) /\ Kept(Put(by_id, row.id, row.rec), counter + 1)
    BY <1>1, <2>1, <2>2 DEF CaseRecommend
  <2> QED
    BY <1>1, <2>2, <2>3, MirrorWrite DEF CaseRecommend
<1>2. ASSUME NEW id \in 1..MaxRecs, NEW p \in People, NEW approved \in BOOLEAN,
             RecommendationDecide(id, p, approved)
      PROVE  MirrorInv'
  <2>1. PICK row : row = Record("decide", id, Decided(by_id[id], approved, p))
    OBVIOUS
  <2>2. /\ row \in Row /\ row.id = id /\ row.rec = Decided(by_id[id], approved, p)
        /\ row.rec.content = by_id[id].content
    BY <1>2, <2>1, DecideRow
  <2>3. Persist(row) /\ Kept(Put(by_id, row.id, row.rec), counter)
    BY <1>2, <2>1, <2>2 DEF RecommendationDecide
  <2> QED
    BY <1>2, <2>2, <2>3, MirrorWrite DEF RecommendationDecide
<1>3. ASSUME NEW id \in 1..MaxRecs, RecommendationExecute(id)
      PROVE  MirrorInv'
  <2>1. PICK row : row = Record("execute", id, Executed(by_id[id]))
    OBVIOUS
  <2>2. /\ row \in Row /\ row.id = id /\ row.rec = Executed(by_id[id])
        /\ row.rec.content = by_id[id].content
    BY <1>3, <2>1, ExecuteRow
  <2>3. Persist(row) /\ Kept(Put(by_id, row.id, row.rec), counter)
    BY <1>3, <2>1, <2>2 DEF RecommendationExecute, Executed
  <2> QED
    BY <1>3, <2>2, <2>3, MirrorWrite DEF RecommendationExecute
<1>4. ASSUME NEW id \in 1..MaxRecs, NEW p \in People, View(p, id)
      PROVE  MirrorInv'
  <2>1. UNCHANGED <<up, by_id, log, lost>> /\ up /\ id \in DOMAIN by_id
    BY <1>4 DEF View
  <2>2. viewed' = [viewed EXCEPT ![p] = [id |-> id, content |-> by_id[id].content]]
    BY <1>4 DEF View
  <2>3. viewed \in [People -> {<<>>} \cup [id : Nat, content : Contents]]
    BY DEF StoryInv, TypeOK
  <2>4. /\ viewed'[p] = [id |-> id, content |-> by_id[id].content]
        /\ \A q \in People : q # p => viewed'[q] = viewed[q]
    BY <2>2, <2>3
  <2>5. Replayed' = Replayed /\ LoggedIds' = LoggedIds /\ (Readable' <=> Readable)
    BY <2>1, SameLog
  <2> QED
    BY <2>1, <2>4, <2>5 DEF MirrorInv, ReplayShape
<1>5. CASE Crash
  BY <1>5, SameLog DEF Crash, MirrorInv
<1>6. CASE Restart
  BY <1>6, SameLog DEF Restart, MirrorInv
<1>7. CASE UNCHANGED vars
  BY <1>7, SameLog DEF vars, MirrorInv
<1> QED
  BY <1>1, <1>2, <1>3, <1>4, <1>5, <1>6, <1>7 DEF Next

LEMMA MirrorAlways == Spec => []MirrorInv
BY StoryAlways, ReplayShaped, MirrorInit, MirrorStep, PTL DEF Spec

-----------------------------------------------------------------------------
(* The log is written as the escalation ledger is.                         *)

\* The ledger's entries, where the replay changes in one id.
LEMMA EntryWritten ==
  ASSUME ReplayShape, NEW id, NEW rec, Replayed' = Put(Replayed, id, rec)
  PROVE  /\ Ledger!Written(id)
         /\ id \in DOMAIN Replayed'
         /\ Replayed'[id] = rec
BY DEF ReplayShape, Put, Ledger!Written

LEMMA Proposes ==
  ASSUME ReplayShape, NEW body \in Contents, NEW id, id \notin DOMAIN Replayed,
         Replayed' = Put(Replayed, id, NewRecommendation(body))
  PROVE  Ledger!Next
<1>1. /\ Ledger!Written(id) /\ id \in DOMAIN Replayed'
      /\ Replayed'[id] = Ledger!Fresh(body)
  BY EntryWritten DEF NewRecommendation, Ledger!Fresh
<1>2. Ledger!Propose(id)
  BY <1>1 DEF Ledger!Propose
<1> QED
  BY <1>1, <1>2 DEF Ledger!Next

LEMMA Decides ==
  ASSUME ReplayShape, NEW id \in DOMAIN Replayed, NEW p \in People,
         NEW approved \in BOOLEAN, clock \in Nat, clock > 0,
         Replayed[id].status = "pending",
         Replayed' = Put(Replayed, id, Decided(Replayed[id], approved, p))
  PROVE  Ledger!Next
<1>1. PICK s \in {"approved", "rejected"} :
        s = IF approved THEN "approved" ELSE "rejected"
  OBVIOUS
<1>2. Replayed[id] \in Recommendation
  BY DEF ReplayShape
<1>3. /\ Ledger!Written(id) /\ id \in DOMAIN Replayed'
      /\ Replayed'[id] = Decided(Replayed[id], approved, p)
  BY EntryWritten
<1>4. Replayed'[id] = [Replayed[id] EXCEPT !.status = s, !.decided_by = p,
                                           !.decided_at = clock]
  BY <1>1, <1>3 DEF Decided
<1>5. Replayed'[id].decided_at = clock
  BY <1>2, <1>4 DEF Recommendation
<1>6. Replayed'[id] = [Replayed[id] EXCEPT !.status = s, !.decided_by = p,
                                 !.decided_at = Replayed'[id].decided_at]
  BY <1>4, <1>5
<1>7. Ledger!Decide(id)
  BY <1>3, <1>5, <1>6 DEF Ledger!Decide
<1> QED
  BY <1>3, <1>7 DEF Ledger!Next

LEMMA Executes ==
  ASSUME ReplayShape, NEW id \in DOMAIN Replayed, clock \in Nat,
         Replayed[id].status = "approved",
         Replayed[id].executed_at < clock, Replayed[id].decided_at < clock,
         Replayed' = Put(Replayed, id, Executed(Replayed[id]))
  PROVE  Ledger!Next
<1>1. Replayed[id] \in Recommendation
  BY DEF ReplayShape
<1>2. /\ Ledger!Written(id) /\ id \in DOMAIN Replayed'
      /\ Replayed'[id] = [Replayed[id] EXCEPT !.executed = TRUE, !.executed_at = clock]
  BY EntryWritten DEF Executed
<1>3. Replayed'[id].executed_at = clock
  BY <1>1, <1>2 DEF Recommendation
<1>4. Replayed'[id] = [Replayed[id] EXCEPT !.executed = TRUE,
                                 !.executed_at = Replayed'[id].executed_at]
  BY <1>2, <1>3
<1>5. /\ Replayed'[id].executed_at > Replayed[id].executed_at
      /\ Replayed'[id].executed_at > Replayed[id].decided_at
  BY <1>3
<1>6. Ledger!Execute(id)
  BY <1>2, <1>4, <1>5 DEF Ledger!Execute
<1> QED
  BY <1>2, <1>6 DEF Ledger!Next

LEMMA LedgerStep ==
  ASSUME StoryInv, StoryInv', ReplayShape, ReplayShape', MirrorInv, [Next]_vars
  PROVE  [lost' \/ Ledger!Next]_Replayed
<1> SUFFICES ASSUME ~lost', Replayed' # Replayed PROVE Ledger!Next
  OBVIOUS
<1>1. clock \in Nat /\ clock > 0
  BY CounterFacts
<1>2. up /\ ~lost => Readable /\ by_id = Replayed
  BY DEF MirrorInv
<1>3. ASSUME NEW body \in Contents \cup Refused, CaseRecommend(body)
      PROVE  Ledger!Next
  <2>1. PICK row : row = Record("recommend", counter + 1, NewRecommendation(body))
    OBVIOUS
  <2>2. /\ row \in Row /\ row.id = counter + 1 /\ row.rec = NewRecommendation(body)
        /\ row.id \notin DOMAIN by_id
    BY <1>3, <2>1, RecommendRow
  <2>3. Persist(row) /\ ~lost /\ up /\ body \in Contents
    BY <1>3, <2>1 DEF CaseRecommend, Persist
  <2>4. Replayed' = Put(Replayed, row.id, row.rec)
    BY <1>2, <2>2, <2>3, PersistReplay
  <2> QED
    BY <1>2, <2>2, <2>3, <2>4, Proposes
<1>4. ASSUME NEW id \in 1..MaxRecs, NEW p \in People, NEW approved \in BOOLEAN,
             RecommendationDecide(id, p, approved)
      PROVE  Ledger!Next
  <2>1. PICK row : row = Record("decide", id, Decided(by_id[id], approved, p))
    OBVIOUS
  <2>2. row \in Row /\ row.id = id /\ row.rec = Decided(by_id[id], approved, p)
    BY <1>4, <2>1, DecideRow
  <2>3. /\ Persist(row) /\ up
        /\ id \in DOMAIN by_id /\ by_id[id].status = "pending"
    BY <1>4, <2>1 DEF RecommendationDecide, MayDecide
  <2>4. ~lost
    BY <2>3 DEF Persist
  <2>5. Replayed' = Put(Replayed, row.id, row.rec)
    BY <1>2, <2>2, <2>3, <2>4, PersistReplay
  <2> QED
    BY <1>1, <1>2, <2>2, <2>3, <2>4, <2>5, Decides
<1>5. ASSUME NEW id \in 1..MaxRecs, RecommendationExecute(id)
      PROVE  Ledger!Next
  <2>1. PICK row : row = Record("execute", id, Executed(by_id[id]))
    OBVIOUS
  <2>2. row \in Row /\ row.id = id /\ row.rec = Executed(by_id[id])
    BY <1>5, <2>1, ExecuteRow
  <2>3. /\ Persist(row) /\ up
        /\ id \in DOMAIN by_id /\ by_id[id].status = "approved"
    BY <1>5, <2>1 DEF RecommendationExecute, MayExecute, Executed
  <2>4. ~lost
    BY <2>3 DEF Persist
  <2>5. Replayed' = Put(Replayed, row.id, row.rec)
    BY <1>2, <2>2, <2>3, <2>4, PersistReplay
  <2>6. by_id[id].executed_at < clock /\ by_id[id].decided_at < clock
    BY <2>3 DEF StoryInv, AllSettled, Settled
  <2> QED
    BY <1>1, <1>2, <2>2, <2>3, <2>4, <2>5, <2>6, Executes
<1>6. ASSUME NEW id \in 1..MaxRecs, NEW p \in People, View(p, id)
      PROVE  Ledger!Next
  BY <1>6, SameLog DEF View
<1>7. CASE Crash \/ Restart \/ UNCHANGED vars
  BY <1>7, SameLog DEF Crash, Restart, vars
<1> QED
  BY <1>3, <1>4, <1>5, <1>6, <1>7 DEF Next

\* The log, read as load() reads it, is written entry by entry as the
\* escalation ledger is: proposed once, decided once by a named person,
\* carried out only after an approval, through any crashes and replays, until
\* a server has lived on after a lost append (recommendation_store.py:1-8).
THEOREM LogIsALedger == Spec => ImplementsEscalationGate
<1>1. Init => Ledger!Init
  <2> SUFFICES ASSUME Init PROVE Replayed = <<>>
    BY DEF Ledger!Init
  <2>1. LoggedIds = {}
    BY DEF Init, LoggedIds
  <2> QED
    BY <2>1 DEF Replayed
<1> QED
  BY <1>1, StoryAlways, ReplayShaped, MirrorAlways, LedgerStep, PTL
     DEF Spec, ImplementsEscalationGate

-----------------------------------------------------------------------------
(* What a decision was taken on.                                           *)

\* A record that stops being pending does so in a decision on what its author
\* read.
Shown ==
  \A id \in DOMAIN by_id :
    /\ up' /\ ~lost'
    /\ by_id[id].status = "pending" /\ by_id'[id].status # "pending"
    => viewed[by_id'[id].decided_by] = [id |-> id, content |-> by_id[id].content]

\* The records of memory other than id keep what they are.
LEMMA OthersKept ==
  ASSUME NEW id, NEW rec, NEW n, Kept(Put(by_id, id, rec), n), up'
  PROVE  by_id'[id] = rec /\ \A x \in DOMAIN by_id \ {id} : by_id'[x] = by_id[x]
BY DEF Kept, Put

LEMMA ShownStep ==
  ASSUME StoryInv, ReplayShape, MirrorInv, [Next]_vars
  PROVE  Shown
<1> SUFFICES ASSUME NEW x \in DOMAIN by_id, up', ~lost',
                    by_id[x].status = "pending", by_id'[x].status # "pending"
             PROVE  viewed[by_id'[x].decided_by]
                      = [id |-> x, content |-> by_id[x].content]
  BY DEF Shown
<1>1. ASSUME NEW body \in Contents \cup Refused, CaseRecommend(body) PROVE FALSE
  <2>1. counter + 1 \notin DOMAIN by_id
    BY CounterFacts
  <2> QED
    BY <1>1, <2>1, OthersKept DEF CaseRecommend
<1>2. ASSUME NEW id \in 1..MaxRecs, NEW p \in People, NEW approved \in BOOLEAN,
             RecommendationDecide(id, p, approved)
      PROVE  viewed[by_id'[x].decided_by] = [id |-> x, content |-> by_id[x].content]
  <2>1. /\ id \in DOMAIN by_id /\ viewed[p] # <<>> /\ viewed[p].id = id
        /\ Kept(Put(by_id, id, Decided(by_id[id], approved, p)), counter)
        /\ up /\ ~lost
    BY <1>2 DEF RecommendationDecide, Persist
  <2>2. by_id'[id] = Decided(by_id[id], approved, p) /\ x = id
    BY <2>1, OthersKept
  <2>3. by_id[id] \in Recommendation
    BY <2>1 DEF StoryInv, TypeOK
  <2>4. by_id'[id].decided_by = p
    BY <2>2, <2>3 DEF Decided, Recommendation
  <2>5. viewed[p].content = by_id[id].content
    BY <2>1 DEF MirrorInv
  <2>6. viewed[p] \in [id : Nat, content : Contents]
    BY <2>1 DEF StoryInv, TypeOK
  <2> QED
    BY <2>1, <2>2, <2>4, <2>5, <2>6
<1>3. ASSUME NEW id \in 1..MaxRecs, RecommendationExecute(id) PROVE FALSE
  <2>1. /\ id \in DOMAIN by_id /\ by_id[id].status = "approved"
        /\ Kept(Put(by_id, id, Executed(by_id[id])), counter)
    BY <1>3 DEF RecommendationExecute, MayExecute, Executed
  <2> QED
    BY <2>1, OthersKept
<1>4. ASSUME NEW id \in 1..MaxRecs, NEW p \in People, View(p, id) PROVE FALSE
  BY <1>4 DEF View
<1>5. CASE Crash \/ Restart \/ UNCHANGED vars
  <2>1. ~Crash
    BY DEF Crash
  <2>2. ~Restart
    BY DEF Restart, StoryInv, DownIsEmpty
  <2> QED
    BY <1>5, <2>1, <2>2 DEF vars
<1> QED
  BY <1>1, <1>2, <1>3, <1>4, <1>5 DEF Next

\* A decision is on the very recommendation its author last read, even where
\* the process died and the ids were read back in between, unless a server has
\* lived on after a lost append (app.py:390-410).
THEOREM DecisionsAreInformed == Spec => DecidedOnWhatWasShown
<1>1. StoryInv /\ ReplayShape /\ MirrorInv /\ [Next]_vars => [Shown]_vars
  BY ShownStep
<1>2. Spec => [][Shown]_vars
  BY <1>1, StoryAlways, ReplayShaped, MirrorAlways, PTL DEF Spec
<1> QED
  BY <1>2 DEF DecidedOnWhatWasShown, Shown
=============================================================================
