---------------------------- MODULE ReviewProofs ----------------------------
(* Proofs about the case store and the console, for any cases, members and *)
(* lanes, any records, verdict requests and faults, and any bounds.        *)
EXTENDS CaseStore, Console, WellFoundedInduction, TLAPS

-----------------------------------------------------------------------------
(* The lines of a file.                                                    *)

\* A nonempty set of positions has a last one.
LEMMA LastExists ==
  ASSUME NEW n \in Nat, NEW S, S \subseteq 1..n, S # {}
  PROVE  Last(S) \in S /\ \A j \in S : j <= Last(S)
<1> DEFINE FromEnd == {n - j : j \in S}
           Less == OpToRel(<, Nat)
<1>1. FromEnd \subseteq Nat /\ FromEnd # {}
  <2>1. \A k \in S : n - k \in Nat /\ n - k \in FromEnd
    OBVIOUS
  <2>2. PICK k \in S : n - k \in FromEnd
    BY <2>1
  <2>3. \A x \in FromEnd : \E j \in S : x = n - j
    OBVIOUS
  <2> HIDE DEF FromEnd
  <2> QED
    BY <2>1, <2>2, <2>3
<1>2. IsWellFoundedOn(Less, Nat)
  BY NatLessThanWellFounded
<1> HIDE DEF FromEnd
<1>3. PICK m \in FromEnd : \A x \in FromEnd : <<x, m>> \notin Less
  <2> HIDE DEF Less
  <2> QED
    BY <1>1, <1>2, WFMin
<1>4. \A x \in FromEnd : m <= x
  <2> SUFFICES ASSUME NEW x \in FromEnd PROVE m <= x
    OBVIOUS
  <2>1. ~(x < m)
    BY <1>1, <1>3 DEF OpToRel
  <2> QED
    BY <1>1, <2>1
<1>5. PICK k \in S : m = n - k
  BY DEF FromEnd
<1>6. \A j \in S : n - j \in FromEnd
  BY DEF FromEnd
<1>7. \A j \in S : j <= k
  BY <1>4, <1>5, <1>6
<1> QED
  BY <1>7 DEF Last

LEMMA LastIs ==
  ASSUME NEW n \in Nat, NEW S, S \subseteq 1..n, NEW k \in S, \A j \in S : j <= k
  PROVE  Last(S) = k
<1>1. Last(S) \in S /\ \A j \in S : j <= Last(S)
  BY LastExists
<1>2. PICK x \in S : x = Last(S)
  BY <1>1
<1>3. x <= k /\ k <= x
  BY <1>1, <1>2
<1>4. x \in Nat /\ k \in Nat
  OBVIOUS
<1> QED
  BY <1>2, <1>3, <1>4

\* What a write that may fail or be cut short does to a file: rows stay where
\* they are, at most the new one joins them, at the end, and a file that can
\* be loaded afterwards was only appended to.
Grown(Lines, file, row, next) ==
  /\ next \in Seq(Lines)
  /\ \A k : IsRow(file, k) => IsRow(next, k) /\ next[k] = file[k]
  /\ \A k : IsRow(next, k) =>
       IsRow(file, k) \/ (k = Len(file) + 1 /\ next = Append(file, row))
  /\ Readable(next) => /\ Readable(file)
                       /\ next \in {file, Append(file, row)}
                       /\ next = Appended(file, row) => next = Append(file, row)

LEMMA FileGrows ==
  ASSUME NEW Lines, NEW file \in Seq(Lines), Torn \in Lines, Garbled \in Lines,
         NEW row \in Lines, row.kind = "row",
         NEW next \in {file, Appended(file, row), CutShort(file)}
  PROVE  Grown(Lines, file, row, next)
<1> USE DEF Grown
<1>1. Torn.kind # "row" /\ Garbled.kind # "row" /\ Torn # Garbled
  BY DEF Torn, Garbled
<1>2. CASE next = file
  <2>1. TornTail(file) => ~Readable(file)
    BY <1>1 DEF TornTail, Readable, IsRow
  <2> QED
    BY <1>2, <2>1 DEF Appended
<1>3. CASE next = Append(file, row)
  <2>1. TornTail(file) => ~Readable(file)
    BY <1>1 DEF TornTail, Readable, IsRow
  <2>2. /\ Len(next) = Len(file) + 1
        /\ \A k \in 1..Len(file) : next[k] = file[k]
        /\ next[Len(file) + 1] = row
    BY <1>3
  <2>3. Readable(next) => Readable(file)
    BY <2>2 DEF Readable, IsRow
  <2> QED
    BY <1>3, <2>2, <2>3 DEF IsRow
<1>4. CASE next = Append(file, Torn)
  <2>1. /\ Len(next) = Len(file) + 1
        /\ \A k \in 1..Len(file) : next[k] = file[k]
        /\ next[Len(file) + 1] = Torn
    BY <1>4
  <2>2. ~Readable(next)
    BY <2>1, <1>1 DEF Readable, IsRow
  <2> QED
    BY <1>4, <1>1, <2>1, <2>2 DEF IsRow
<1>5. CASE TornTail(file) /\ next = [file EXCEPT ![Len(file)] = Garbled]
  <2>1. next \in Seq(Lines) /\ Len(next) = Len(file)
    BY <1>5 DEF TornTail
  <2>2. \A k \in 1..Len(file) : k # Len(file) => next[k] = file[k]
    BY <1>5
  <2>3. next[Len(file)] = Garbled /\ Len(file) \in 1..Len(file)
    BY <1>5 DEF TornTail
  <2>4. ~Readable(next)
    BY <2>1, <2>3, <1>1 DEF Readable, IsRow
  <2>5. ~IsRow(file, Len(file))
    BY <1>5, <1>1 DEF TornTail, IsRow
  <2> QED
    BY <1>1, <2>1, <2>2, <2>3, <2>4, <2>5 DEF IsRow
<1> QED
  BY <1>2, <1>3, <1>4, <1>5 DEF Appended, CutShort

\* The rows of one id, and the last of them, in a loadable file and after an
\* append to it.
LEMMA LastRow ==
  ASSUME NEW Lines, NEW file \in Seq(Lines), NEW id, RowsOf(file, id) # {}
  PROVE  /\ Last(RowsOf(file, id)) \in RowsOf(file, id)
         /\ Last(RowsOf(file, id)) \in 1..Len(file)
         /\ \A j \in RowsOf(file, id) : j <= Last(RowsOf(file, id))
<1>1. RowsOf(file, id) \subseteq 1..Len(file) /\ Len(file) \in Nat
  BY DEF RowsOf
<1>2. PICK S : S = RowsOf(file, id)
  OBVIOUS
<1>3. Last(S) \in S /\ \A j \in S : j <= Last(S)
  <2>1. PICK n \in Nat : n = Len(file)
    BY <1>1
  <2> QED
    BY <1>1, <1>2, <2>1, LastExists
<1> QED
  BY <1>1, <1>2, <1>3

LEMMA RowsAfterAppend ==
  ASSUME NEW Lines, NEW file \in Seq(Lines), NEW row \in Lines, row.kind = "row",
         NEW id
  PROVE  /\ row.id # id => RowsOf(Append(file, row), id) = RowsOf(file, id)
         /\ row.id = id => Last(RowsOf(Append(file, row), id)) = Len(file) + 1
<1> DEFINE next == Append(file, row)
<1>1. /\ Len(next) = Len(file) + 1 /\ Len(file) \in Nat
      /\ \A k \in 1..Len(file) : next[k] = file[k]
      /\ next[Len(file) + 1] = row
  OBVIOUS
<1> HIDE DEF next
<1>2. \A k : IsRow(next, k) <=> IsRow(file, k) \/ k = Len(file) + 1
  BY <1>1 DEF IsRow
<1>3. row.id # id => RowsOf(next, id) = RowsOf(file, id)
  BY <1>1, <1>2 DEF RowsOf
<1>4. ASSUME row.id = id PROVE Last(RowsOf(next, id)) = Len(file) + 1
  <2>1. PICK S : S = RowsOf(next, id)
    OBVIOUS
  <2>2. PICK n \in Nat : n = Len(file) + 1
    BY <1>1
  <2>3. n \in S /\ S \subseteq 1..n
    BY <1>1, <1>2, <1>4, <2>1, <2>2 DEF RowsOf
  <2>4. \A j \in S : j <= n
    BY <2>3
  <2>5. Last(S) = n
    BY <2>3, <2>4, LastIs
  <2> QED
    BY <2>1, <2>2, <2>5
<1> QED
  BY <1>3, <1>4 DEF next

LEMMA EmptyDomain == DOMAIN <<>> = {} /\ 1..0 = {}
OBVIOUS

\* A whole line of either file, by the kind of its rows.
LEMMA LineTypes ==
  /\ \A x \in CaseRow \cup {Torn, Garbled} : x.kind = "row" => x \in CaseRow
  /\ \A x \in EventRow \cup {Torn, Garbled} : x.kind = "row" => x \in EventRow
  /\ \A x \in CaseRow : x.kind = "row" /\ x.id \in 1..MaxCases
                          /\ x.snapshot \in Snapshots /\ x.truth \in BOOLEAN
  /\ \A x \in EventRow : x.kind = "row" /\ x.id \in 1..MaxCases
                           /\ x.disposition \in Split
BY DEF CaseRow, EventRow, Torn, Garbled

LEMMA RowTypes ==
  ASSUME FilesTyped
  PROVE  /\ \A k : IsRow(cases_file, k) => cases_file[k] \in CaseRow
         /\ \A k : IsRow(events_file, k) => events_file[k] \in EventRow
BY LineTypes DEF FilesTyped, IsRow

LEMMA Unjudged == NoDisposition \in Split
BY DEF NoDisposition, Split, Disposition, Verdict, Positive

\* What load() replays onto a case is a disposition somebody gave it.
LEMMA FiledTyped ==
  ASSUME FilesTyped, NEW id
  PROVE  FiledDisposition(id) \in Split
<1>1. CASE RowsOf(events_file, id) = {}
  BY <1>1, Unjudged DEF FiledDisposition
<1>2. CASE RowsOf(events_file, id) # {}
  <2>1. Last(RowsOf(events_file, id)) \in RowsOf(events_file, id)
    BY <1>2, LastRow DEF FilesTyped
  <2>2. events_file[Last(RowsOf(events_file, id))] \in EventRow
    BY <2>1, RowTypes DEF RowsOf
  <2> QED
    BY <1>2, <2>2, LineTypes DEF FiledDisposition
<1> QED
  BY <1>1, <1>2

\* load() yields one case per id on file, of the right type.
LEMMA LoadedTyped ==
  ASSUME FilesTyped
  PROVE  /\ DOMAIN Loaded = FiledIds
         /\ FiledIds \subseteq 1..MaxCases
         /\ \A id \in FiledIds :
              /\ Loaded[id] \in Case
              /\ Loaded[id].disposition = FiledDisposition(id)
              /\ \E k \in RowsOf(cases_file, id) :
                   Loaded[id].snapshot = cases_file[k].snapshot
<1>1. DOMAIN Loaded = FiledIds
  BY DEF Loaded
<1>2. FiledIds \subseteq 1..MaxCases
  BY RowTypes, LineTypes DEF FiledIds
<1>3. ASSUME NEW id \in FiledIds
      PROVE  /\ Loaded[id] \in Case
             /\ Loaded[id].disposition = FiledDisposition(id)
             /\ \E k \in RowsOf(cases_file, id) :
                  Loaded[id].snapshot = cases_file[k].snapshot
  <2>1. RowsOf(cases_file, id) # {}
    BY DEF FiledIds, RowsOf
  <2>2. PICK k \in RowsOf(cases_file, id) : k = Last(RowsOf(cases_file, id))
    BY <2>1, LastRow DEF FilesTyped
  <2>3. cases_file[k] \in CaseRow
    BY RowTypes DEF RowsOf
  <2>4. cases_file[k].snapshot \in Snapshots /\ cases_file[k].truth \in BOOLEAN
    BY <2>3, LineTypes
  <2>5. FiledDisposition(id) \in Disposition
    BY FiledTyped DEF Split
  <2>6. Loaded[id] = [snapshot |-> cases_file[k].snapshot,
                      truth |-> cases_file[k].truth,
                      disposition |-> FiledDisposition(id)]
    BY <2>2 DEF Loaded, NewCase
  <2> QED
    BY <2>4, <2>5, <2>6 DEF Case
<1> QED
  BY <1>1, <1>2, <1>3

-----------------------------------------------------------------------------
(* The store's invariant.                                                  *)

LEMMA StoreInit == Init => StoreInv
<1> SUFFICES ASSUME Init PROVE StoreInv
  OBVIOUS
<1>1. MaxCases \in Nat
  BY CaseStoreAssumption
<1>2. FilesTyped
  BY Unjudged DEF Init, FilesTyped
<1>3. TypeOK
  <2>1. DOMAIN cases = {} /\ DOMAIN built = {} /\ 1..counter = {}
    BY EmptyDomain DEF Init
  <2>2. counter \in 0..MaxCases
    BY <1>1 DEF Init
  <2>3. up \in BOOLEAN /\ building \in BOOLEAN
    BY Zenon DEF Init
  <2> QED
    BY <2>1, <2>2, <2>3 DEF TypeOK
<1>4. AnsweredVerdictStands /\ DownIsEmpty
  BY <1>3 DEF Init, AnsweredVerdictStands, DownIsEmpty
<1>5. ReplayStands
  <2>1. \A id : RowsOf(events_file, id) = {}
    BY DEF Init, RowsOf
  <2> QED
    BY <2>1 DEF ReplayStands, FiledDisposition, Init
<1> QED
  BY <1>2, <1>4, <1>5 DEF StoreInv

\* A step that leaves the verdict log and the server alone.
LEMMA BuilderStep ==
  ASSUME StoreInv, UNCHANGED <<events_file, up, cases, may_stand>>,
         cases_file' \in Seq(CaseRow \cup {Torn, Garbled}),
         FiledIds \subseteq FiledIds', n_builds' \in Nat,
         building' \in BOOLEAN, counter' \in 0..MaxCases,
         DOMAIN built' = 1..counter',
         \A id \in DOMAIN built' : built'[id] \in Case
  PROVE  StoreInv'
<1>1. FilesTyped'
  BY DEF StoreInv, FilesTyped
<1>2. TypeOK'
  BY DEF StoreInv, AnsweredVerdictStands, TypeOK
<1>3. AnsweredVerdictStands' /\ DownIsEmpty'
  BY <1>2 DEF StoreInv, AnsweredVerdictStands, DownIsEmpty
<1>4. ReplayStands'
  <2>1. events_file' = events_file /\ may_stand' = may_stand
    OBVIOUS
  <2>2. \A id : FiledDisposition(id)' = FiledDisposition(id)
    BY <2>1 DEF FiledDisposition
  <2> QED
    BY <2>1, <2>2 DEF StoreInv, ReplayStands
<1> QED
  BY <1>1, <1>3, <1>4 DEF StoreInv

\* The ids on file only grow.
LEMMA IdsGrow ==
  ASSUME FilesTyped, NEW row \in CaseRow,
         cases_file' \in {cases_file, Appended(cases_file, row), CutShort(cases_file)}
  PROVE  /\ cases_file' \in Seq(CaseRow \cup {Torn, Garbled})
         /\ FiledIds \subseteq FiledIds'
<1>1. /\ cases_file' \in Seq(CaseRow \cup {Torn, Garbled})
      /\ \A k : IsRow(cases_file, k) =>
               IsRow(cases_file', k) /\ cases_file'[k] = cases_file[k]
  <2>1. PICK Lines : Lines = CaseRow \cup {Torn, Garbled}
    OBVIOUS
  <2>2. /\ cases_file \in Seq(Lines) /\ row \in Lines
        /\ Torn \in Lines /\ Garbled \in Lines /\ row.kind = "row"
    BY <2>1, LineTypes DEF FilesTyped
  <2>3. Grown(Lines, cases_file, row, cases_file')
    BY <2>2, FileGrows
  <2> QED
    BY <2>1, <2>3 DEF Grown
<1>2. FiledIds \subseteq FiledIds'
  BY <1>1 DEF FiledIds, IsRow
<1> QED
  BY <1>1, <1>2

LEMMA BuildCaseStep ==
  ASSUME StoreInv, NEW s \in Snapshots, BuildCase(s)
  PROVE  StoreInv'
<1>1. /\ counter < MaxCases /\ MaxCases \in Nat /\ counter \in Nat
      /\ NextId(counter) = counter + 1 /\ counter + 1 \in 1..MaxCases
  BY CaseStoreAssumption DEF BuildCase, StoreInv, AnsweredVerdictStands, TypeOK,
     NextId
<1> DEFINE row == [kind |-> "row", id |-> NextId(counter), snapshot |-> s,
                   truth |-> FALSE]
           opened == NewCase(s, s \in Ring)
<1>2. row \in CaseRow
  BY <1>1 DEF CaseRow
<1>3. opened \in Case
  BY Unjudged DEF Case, NewCase, Split
<1>4. cases_file' \in {cases_file, Appended(cases_file, row), CutShort(cases_file)}
  BY DEF BuildCase
<1>5. /\ cases_file' \in Seq(CaseRow \cup {Torn, Garbled})
      /\ FiledIds \subseteq FiledIds'
  BY <1>2, <1>4, IdsGrow DEF StoreInv
<1>6. \/ /\ built' = Put(built, counter + 1, opened)
         /\ counter' = counter + 1
         /\ UNCHANGED building
      \/ building' = FALSE /\ built' = <<>> /\ counter' = 0
  BY <1>1 DEF BuildCase
<1>7. /\ building' \in BOOLEAN /\ counter' \in 0..MaxCases
      /\ DOMAIN built' = 1..counter'
      /\ \A id \in DOMAIN built' : built'[id] \in Case
  <2>1. CASE building' = FALSE /\ built' = <<>> /\ counter' = 0
    <3>1. DOMAIN built' = {} /\ 1..counter' = {} /\ counter' \in 0..MaxCases
      BY <1>1, <2>1, EmptyDomain
    <3> QED
      BY <2>1, <3>1
  <2>2. CASE /\ built' = Put(built, counter + 1, opened)
             /\ counter' = counter + 1
             /\ UNCHANGED building
    <3>1. /\ building \in BOOLEAN /\ DOMAIN built = 1..counter
          /\ \A id \in DOMAIN built : built[id] \in Case
      BY DEF StoreInv, AnsweredVerdictStands, TypeOK
    <3>2. 1..counter + 1 = (1..counter) \cup {counter + 1}
      BY <1>1
    <3> HIDE DEF opened
    <3>3. DOMAIN built' = 1..counter'
      BY <2>2, <3>1, <3>2 DEF Put
    <3>4. \A id \in DOMAIN built' : built'[id] \in Case
      BY <2>2, <3>1, <3>2, <3>3, <1>3 DEF Put
    <3> QED
      BY <1>1, <2>2, <3>1, <3>3, <3>4
  <2> QED
    BY <1>6, <2>1, <2>2
<1>8. n_builds' \in Nat
  BY DEF BuildCase, StoreInv, FilesTyped
<1>9. UNCHANGED <<events_file, up, cases, may_stand>>
  BY DEF BuildCase
<1> QED
  BY <1>5, <1>7, <1>8, <1>9, BuilderStep

LEMMA BuildEdgeStep ==
  ASSUME StoreInv, BuildStart \/ BuildEnd
  PROVE  StoreInv'
<1>1. /\ UNCHANGED <<cases_file, events_file, up, cases, may_stand>>
      /\ building' \in BOOLEAN /\ n_builds' \in {n_builds, n_builds + 1}
      /\ \/ built' = <<>> /\ counter' = 0
         \/ built' = built /\ counter' = counter
  BY DEF BuildStart, BuildEnd
<1>2. MaxCases \in Nat
  BY CaseStoreAssumption
<1>3. cases_file' \in Seq(CaseRow \cup {Torn, Garbled}) /\ n_builds' \in Nat
  BY <1>1 DEF StoreInv, FilesTyped
<1>4. /\ counter' \in 0..MaxCases /\ DOMAIN built' = 1..counter'
      /\ \A id \in DOMAIN built' : built'[id] \in Case
  BY <1>1, <1>2 DEF StoreInv, AnsweredVerdictStands, TypeOK
<1>5. FiledIds' = FiledIds
  BY <1>1 DEF FiledIds
<1> QED
  BY <1>1, <1>3, <1>4, <1>5, BuilderStep

LEMMA StartStep == StoreInv /\ Start => StoreInv'
<1> SUFFICES ASSUME StoreInv, Start PROVE StoreInv'
  OBVIOUS
<1>1. /\ up' /\ Readable(events_file) /\ cases' = Loaded
      /\ UNCHANGED <<cases_file, events_file, building, built, counter,
                     n_builds, may_stand>>
  BY DEF Start, builder
<1>2. FilesTyped' /\ FiledIds' = FiledIds
  BY <1>1 DEF StoreInv, FilesTyped, FiledIds
<1>3. \A id \in DOMAIN cases' : /\ id \in FiledIds /\ id \in 1..MaxCases
                                /\ cases'[id] \in Case
                                /\ cases'[id].disposition = FiledDisposition(id)
  BY <1>1, LoadedTyped DEF StoreInv
<1>4. \A id \in DOMAIN cases' :
        /\ cases'[id].disposition \in may_stand[id]
        /\ cases'[id].disposition.confirmed \cap cases'[id].disposition.dropped = {}
  BY <1>1, <1>3, FiledTyped DEF StoreInv, ReplayStands, Split
<1>5. TypeOK'
  BY <1>1, <1>2, <1>3, <1>4 DEF StoreInv, AnsweredVerdictStands, TypeOK, Start
<1>6. AnsweredVerdictStands' /\ DownIsEmpty'
  BY <1>1, <1>4, <1>5 DEF AnsweredVerdictStands, DownIsEmpty
<1>7. ReplayStands'
  <2>1. \A id : FiledDisposition(id)' = FiledDisposition(id)
    BY <1>1 DEF FiledDisposition
  <2> QED
    BY <1>1, <2>1 DEF StoreInv, ReplayStands
<1> QED
  BY <1>2, <1>6, <1>7 DEF StoreInv

LEMMA StopStep == StoreInv /\ Stop => StoreInv'
<1> SUFFICES ASSUME StoreInv, Stop PROVE StoreInv'
  OBVIOUS
<1>1. /\ ~up' /\ cases' = <<>> /\ DOMAIN cases' = {} /\ up' \in BOOLEAN
      /\ UNCHANGED <<cases_file, events_file, building, built, counter,
                     n_builds, may_stand>>
  BY EmptyDomain DEF Stop, builder
<1>2. FilesTyped' /\ FiledIds' = FiledIds
  BY <1>1 DEF StoreInv, FilesTyped, FiledIds
<1>3. TypeOK'
  BY <1>1 DEF StoreInv, AnsweredVerdictStands, TypeOK
<1>4. AnsweredVerdictStands' /\ DownIsEmpty'
  BY <1>1, <1>3 DEF AnsweredVerdictStands, DownIsEmpty
<1>5. ReplayStands'
  <2>1. \A id : FiledDisposition(id)' = FiledDisposition(id)
    BY <1>1 DEF FiledDisposition
  <2> QED
    BY <1>1, <2>1 DEF StoreInv, ReplayStands
<1> QED
  BY <1>2, <1>4, <1>5 DEF StoreInv

LEMMA EventsGrow ==
  ASSUME FilesTyped, NEW row \in EventRow,
         events_file' \in {events_file, Appended(events_file, row),
                          CutShort(events_file)}
  PROVE  Grown(EventRow \cup {Torn, Garbled}, events_file, row, events_file')
<1>1. PICK Lines : Lines = EventRow \cup {Torn, Garbled}
  OBVIOUS
<1>2. /\ events_file \in Seq(Lines) /\ row \in Lines
      /\ Torn \in Lines /\ Garbled \in Lines /\ row.kind = "row"
  BY <1>1, LineTypes DEF FilesTyped
<1>3. Grown(Lines, events_file, row, events_file')
  BY <1>2, FileGrows
<1> QED
  BY <1>1, <1>3

\* The appended event is the one load() will replay last onto its case.
LEMMA ReplayAfterAppend ==
  ASSUME FilesTyped, NEW row \in EventRow,
         events_file' = Append(events_file, row), NEW id
  PROVE  FiledDisposition(id)' = IF row.id = id THEN row.disposition
                                 ELSE FiledDisposition(id)
<1>1. PICK Lines : Lines = EventRow \cup {Torn, Garbled}
  OBVIOUS
<1>2. events_file \in Seq(Lines) /\ row \in Lines /\ row.kind = "row"
  BY <1>1, LineTypes DEF FilesTyped
<1>3. /\ \A k \in 1..Len(events_file) : events_file'[k] = events_file[k]
      /\ events_file'[Len(events_file) + 1] = row
      /\ Len(events_file') = Len(events_file) + 1 /\ Len(events_file) \in Nat
  BY <1>2
<1>4. CASE row.id = id
  <2>1. Last(RowsOf(Append(events_file, row), id)) = Len(events_file) + 1
    BY <1>2, <1>4, RowsAfterAppend
  <2>2. Last(RowsOf(events_file', id)) = Len(events_file) + 1
    BY <2>1
  <2>3. Len(events_file) + 1 \in RowsOf(events_file', id)
    BY <1>2, <1>3, <1>4 DEF RowsOf, IsRow
  <2>4. RowsOf(events_file', id) # {}
    BY <2>3
  <2> QED
    BY <1>3, <1>4, <2>2, <2>4 DEF FiledDisposition
<1>5. CASE row.id # id
  <2>1. RowsOf(Append(events_file, row), id) = RowsOf(events_file, id)
    BY <1>2, <1>5, RowsAfterAppend
  <2>2. RowsOf(events_file', id) = RowsOf(events_file, id)
    BY <2>1
  <2>3. CASE RowsOf(events_file, id) = {}
    BY <1>5, <2>2, <2>3 DEF FiledDisposition
  <2>4. CASE RowsOf(events_file, id) # {}
    <3>1. Last(RowsOf(events_file, id)) \in 1..Len(events_file)
      BY <1>2, <2>4, LastRow
    <3>2. events_file'[Last(RowsOf(events_file, id))]
            = events_file[Last(RowsOf(events_file, id))]
      BY <1>3, <3>1
    <3> QED
      BY <1>5, <2>2, <2>4, <3>2 DEF FiledDisposition
  <2> QED
    BY <2>3, <2>4
<1> QED
  BY <1>4, <1>5

\* The disposition a verdict request asks for.
Judged(id, verdict, out) ==
  [verdict |-> verdict,
   confirmed |-> IF verdict \in Positive THEN Kept(out) ELSE {},
   dropped |-> out, of |-> cases[id].snapshot]

\* What any outcome of a verdict request has in common: its event is written
\* or not, the server dies or shows the new disposition, and the disposition
\* may be shown from now on; an older one no longer, once the event is down
\* and the answer sent.
LEMMA DisposeEffect ==
  ASSUME StoreInv, NEW id \in 1..MaxCases, NEW body \in Bodies,
         Dispose(id, body[1], body[2]),
         NEW d, d = Judged(id, body[1], body[2]), NEW row, row = EventOf(id, d)
  PROVE  /\ up /\ id \in DOMAIN cases
         /\ d \in Split /\ d.of = cases[id].snapshot /\ row \in EventRow
         /\ events_file' \in {events_file, Appended(events_file, row),
                             CutShort(events_file)}
         /\ \/ up' /\ cases' = [cases EXCEPT ![id].disposition = d]
            \/ ~up' /\ cases' = <<>>
         /\ up' \in BOOLEAN
         /\ \/ may_stand' = [may_stand EXCEPT ![id] = {d}]
               /\ events_file' = Appended(events_file, row)
            \/ may_stand' = [may_stand EXCEPT ![id] = @ \cup {d}]
         /\ UNCHANGED <<cases_file, building, built, counter, n_builds>>
<1>1. up /\ id \in DOMAIN cases
  BY DEF Dispose
<1>2. cases[id] \in Case
  BY <1>1 DEF StoreInv, AnsweredVerdictStands, TypeOK
<1>3. body[1] \in Verdict /\ body[2] \in SUBSET Accounts
  BY BodiesAssumption
<1>4. d \in Split /\ d.of = cases[id].snapshot
  BY <1>2, <1>3 DEF Split, Disposition, Judged, Kept, Case
<1>5. row \in EventRow
  BY <1>4 DEF EventRow, EventOf
<1>6. UNCHANGED <<cases_file, building, built, counter, n_builds>>
  BY DEF Dispose, builder
<1>7. \/ /\ events_file' = Appended(events_file, row)
         /\ cases' = [cases EXCEPT ![id].disposition = d]
         /\ may_stand' = [may_stand EXCEPT ![id] = {d}]
         /\ up' = up
      \/ /\ events_file' \in {events_file, CutShort(events_file)}
         /\ cases' = [cases EXCEPT ![id].disposition = d]
         /\ may_stand' = [may_stand EXCEPT ![id] = @ \cup {d}]
         /\ up' = up
      \/ /\ events_file' \in {events_file, Appended(events_file, row),
                              CutShort(events_file)}
         /\ up' = FALSE /\ cases' = <<>>
         /\ may_stand' = [may_stand EXCEPT ![id] = @ \cup {d}]
  BY DEF Dispose, Judged
<1>8. up \in BOOLEAN
  BY DEF StoreInv, AnsweredVerdictStands, TypeOK
<1>9. up' \in BOOLEAN
  BY <1>7, <1>8, Zenon
<1> QED
  BY <1>1, <1>4, <1>5, <1>6, <1>7, <1>9

LEMMA DisposeStep ==
  ASSUME StoreInv, NEW id \in 1..MaxCases, NEW body \in Bodies,
         Dispose(id, body[1], body[2])
  PROVE  StoreInv'
<1>1. PICK d : d = Judged(id, body[1], body[2])
  OBVIOUS
<1>2. PICK row : row = EventOf(id, d)
  OBVIOUS
<1>3. /\ up /\ id \in DOMAIN cases
      /\ d \in Split /\ row \in EventRow
      /\ events_file' \in {events_file, Appended(events_file, row),
                           CutShort(events_file)}
      /\ \/ up' /\ cases' = [cases EXCEPT ![id].disposition = d]
         \/ ~up' /\ cases' = <<>>
      /\ up' \in BOOLEAN
      /\ \/ may_stand' = [may_stand EXCEPT ![id] = {d}]
            /\ events_file' = Appended(events_file, row)
         \/ may_stand' = [may_stand EXCEPT ![id] = @ \cup {d}]
      /\ UNCHANGED <<cases_file, building, built, counter, n_builds>>
  BY <1>1, <1>2, DisposeEffect
<1>4. Grown(EventRow \cup {Torn, Garbled}, events_file, row, events_file')
  BY <1>3, EventsGrow DEF StoreInv
<1>5. FilesTyped /\ TypeOK
  BY DEF StoreInv, AnsweredVerdictStands
<1>6. may_stand' \in [1..MaxCases -> SUBSET Split]
  BY <1>3, <1>5 DEF FilesTyped
<1>7. FilesTyped'
  BY <1>3, <1>4, <1>5, <1>6 DEF FilesTyped, Grown
<1>8. /\ d \in may_stand'[id]
      /\ \A x \in 1..MaxCases : x # id => may_stand'[x] = may_stand[x]
  BY <1>3, <1>5 DEF FilesTyped
<1>9. /\ DOMAIN cases' \subseteq DOMAIN cases
      /\ \A x \in DOMAIN cases' :
           /\ cases'[x] \in Case
           /\ cases'[x].disposition.confirmed \cap cases'[x].disposition.dropped = {}
           /\ cases'[x].disposition \in may_stand'[x]
  <2>1. CASE up' /\ cases' = [cases EXCEPT ![id].disposition = d]
    <3>1. DOMAIN cases' = DOMAIN cases
      BY <2>1
    <3> SUFFICES ASSUME NEW x \in DOMAIN cases
                 PROVE  /\ cases'[x] \in Case
                        /\ cases'[x].disposition.confirmed
                              \cap cases'[x].disposition.dropped = {}
                        /\ cases'[x].disposition \in may_stand'[x]
      BY <3>1
    <3>2. cases[x] \in Case /\ x \in 1..MaxCases
      BY <1>5, LoadedTyped DEF TypeOK
    <3>3. CASE x = id
      <4>1. cases'[x] = [cases[x] EXCEPT !.disposition = d]
        BY <2>1, <3>3
      <4>2. d \in Disposition /\ d.confirmed \cap d.dropped = {}
        BY <1>3 DEF Split
      <4>3. cases'[x] \in Case /\ cases'[x].disposition = d
        BY <3>2, <4>1, <4>2 DEF Case
      <4> QED
        BY <1>8, <3>3, <4>2, <4>3
    <3>4. CASE x # id
      <4>1. cases'[x] = cases[x]
        BY <2>1, <3>4
      <4>2. cases[x].disposition \in may_stand[x]
        BY <1>3 DEF StoreInv, AnsweredVerdictStands
      <4> QED
        BY <1>5, <1>8, <3>2, <3>4, <4>1, <4>2 DEF TypeOK
    <3> QED
      BY <3>3, <3>4
  <2>2. CASE ~up' /\ cases' = <<>>
    BY <2>2, EmptyDomain
  <2> QED
    BY <1>3, <2>1, <2>2
<1>10. FiledIds' = FiledIds
  BY <1>3 DEF FiledIds
<1>11. TypeOK'
  BY <1>3, <1>5, <1>9, <1>10 DEF TypeOK
<1>12. AnsweredVerdictStands' /\ DownIsEmpty'
  BY <1>3, <1>9, <1>11 DEF AnsweredVerdictStands, DownIsEmpty
<1>13. ReplayStands'
  <2> SUFFICES ASSUME Readable(events_file'), NEW x \in 1..MaxCases
               PROVE  FiledDisposition(x)' \in may_stand'[x]
    BY DEF ReplayStands
  <2>1. /\ Readable(events_file)
        /\ events_file' \in {events_file, Append(events_file, row)}
        /\ events_file' = Appended(events_file, row)
              => events_file' = Append(events_file, row)
    BY <1>4 DEF Grown
  <2>2. FiledDisposition(x) \in may_stand[x]
    BY <2>1 DEF StoreInv, ReplayStands
  <2>3. row.id = id /\ row.disposition = d
    BY <1>2 DEF EventOf
  <2>4. CASE events_file' = Append(events_file, row)
    <3>1. FiledDisposition(x)' = IF row.id = x THEN row.disposition
                                 ELSE FiledDisposition(x)
      BY <1>3, <1>5, <2>4, ReplayAfterAppend
    <3> QED
      BY <1>8, <2>2, <2>3, <3>1
  <2>5. CASE events_file' = events_file /\ events_file' # Append(events_file, row)
    <3>1. FiledDisposition(x)' = FiledDisposition(x)
      BY <2>5 DEF FiledDisposition
    <3>2. may_stand' = [may_stand EXCEPT ![id] = @ \cup {d}]
      BY <1>3, <2>1, <2>5
    <3>3. may_stand[x] \subseteq may_stand'[x]
      BY <1>5, <3>2 DEF FilesTyped
    <3> QED
      BY <2>2, <3>1, <3>3
  <2> QED
    BY <2>1, <2>4, <2>5
<1> QED
  BY <1>7, <1>12, <1>13 DEF StoreInv

LEMMA StoreNext == StoreInv /\ [Next]_vars => StoreInv'
<1> SUFFICES ASSUME StoreInv, [Next]_vars PROVE StoreInv'
  OBVIOUS
<1>1. CASE BuildStart \/ BuildEnd
  BY <1>1, BuildEdgeStep
<1>2. ASSUME NEW s \in Snapshots, BuildCase(s) PROVE StoreInv'
  BY <1>2, BuildCaseStep
<1>3. CASE Start
  BY <1>3, StartStep
<1>4. CASE Stop
  BY <1>4, StopStep
<1>5. ASSUME NEW id \in 1..MaxCases, NEW body \in Bodies,
             Dispose(id, body[1], body[2])
      PROVE  StoreInv'
  BY <1>5, DisposeStep
<1>6. CASE UNCHANGED vars
  <2>1. UNCHANGED <<cases_file, events_file, up, cases, building, built, counter,
                    n_builds, may_stand>>
    BY <1>6 DEF vars
  <2>2. FiledIds' = FiledIds
    BY <2>1 DEF FiledIds
  <2> QED
    BY <2>1, <2>2, BuilderStep
       DEF StoreInv, FilesTyped, AnsweredVerdictStands, TypeOK
<1> QED
  BY <1>1, <1>2, <1>3, <1>4, <1>5, <1>6 DEF Next

LEMMA StoreAlways == Spec => []StoreInv
BY StoreInit, StoreNext, PTL DEF Spec

\* What the console shows for a case is the last verdict it answered for, or
\* a later one whose answer is still missing, whatever fails, is cut short or
\* crashes, for any number of cases, builds and verdicts (store.py:47-66 and
\* 86-115).
THEOREM VerdictsStand == Spec => []AnsweredVerdictStands
<1>1. StoreInv => AnsweredVerdictStands
  BY DEF StoreInv
<1> QED
  BY <1>1, StoreAlways, PTL

-----------------------------------------------------------------------------
(* Labels and records, until a second run of build_queue.                  *)

LEMMA OneSnapshot ==
  ASSUME OneRowEach, NEW id, NEW s, NEW u, OnFile(cases_file, id, s),
         OnFile(cases_file, id, u)
  PROVE  s = u
BY DEF OneRowEach, OnFile

LEMMA OnFileKept ==
  ASSUME NEW Lines, NEW row, Grown(Lines, cases_file, row, cases_file'),
         cases_file \in Seq(Lines), NEW id, NEW s, OnFile(cases_file, id, s)
  PROVE  OnFile(cases_file', id, s)
<1>1. PICK k \in 1..Len(cases_file) : /\ IsRow(cases_file, k)
                                     /\ cases_file[k].id = id
                                     /\ cases_file[k].snapshot = s
  BY DEF OnFile
<1>2. IsRow(cases_file', k) /\ cases_file'[k] = cases_file[k]
  BY <1>1 DEF Grown
<1>3. k \in 1..Len(cases_file')
  BY <1>2 DEF IsRow
<1> QED
  BY <1>1, <1>2, <1>3 DEF OnFile

\* The disposition load() replays onto a case is about the record on its line.
LEMMA LoadedLabel ==
  ASSUME StoreInv, OneRowEach, AboutTheRecord, NEW id \in FiledIds
  PROVE  /\ OnFile(cases_file, id, Loaded[id].snapshot)
         /\ Loaded[id].disposition.of \in {None, Loaded[id].snapshot}
<1>1. FilesTyped
  BY DEF StoreInv
<1>2. PICK k \in RowsOf(cases_file, id) :
        Loaded[id].snapshot = cases_file[k].snapshot
  BY <1>1, LoadedTyped
<1>3. OnFile(cases_file, id, Loaded[id].snapshot)
  BY <1>2 DEF OnFile, RowsOf
<1>4. Loaded[id].disposition = FiledDisposition(id)
  BY <1>1, LoadedTyped
<1>5. CASE RowsOf(events_file, id) = {}
  <2>1. NoDisposition.of = None
    BY DEF NoDisposition
  <2>2. FiledDisposition(id) = NoDisposition
    BY <1>5 DEF FiledDisposition
  <2> QED
    BY <1>3, <1>4, <2>1, <2>2
<1>6. CASE RowsOf(events_file, id) # {}
  <2>1. PICK j \in RowsOf(events_file, id) : j = Last(RowsOf(events_file, id))
    BY <1>1, <1>6, LastRow DEF FilesTyped
  <2>2. FiledDisposition(id) = events_file[j].disposition
    BY <1>6, <2>1 DEF FiledDisposition
  <2>3. OnFile(cases_file, id, events_file[j].disposition.of)
    BY DEF RowsOf, AboutTheRecord
  <2> QED
    BY <1>3, <1>4, <2>2, <2>3, OneSnapshot
<1> QED
  BY <1>3, <1>5, <1>6

LEMMA LabelInit == Init => LabelInv
BY EmptyDomain DEF Init, LabelInv, OneRowEach, BuilderAhead, AboutTheRecord,
               LabelBelongsToItsAlert

LEMMA BuildCaseLabel ==
  ASSUME StoreInv, LabelInv, NEW s \in Snapshots, BuildCase(s)
  PROVE  LabelInv'
<1> SUFFICES ASSUME n_builds <= 1
             PROVE  /\ OneRowEach' /\ BuilderAhead' /\ AboutTheRecord'
                    /\ LabelBelongsToItsAlert'
  BY DEF BuildCase, LabelInv
<1>1. /\ OneRowEach /\ BuilderAhead /\ AboutTheRecord /\ LabelBelongsToItsAlert
      /\ FilesTyped /\ building /\ n_builds # 0
      /\ UNCHANGED <<events_file, cases, n_builds>>
  BY DEF BuildCase, LabelInv, StoreInv, BuilderAhead
<1>2. counter \in Nat /\ counter + 1 \in 1..MaxCases
  BY CaseStoreAssumption
     DEF BuildCase, StoreInv, AnsweredVerdictStands, TypeOK
<1>3. PICK row : row = [kind |-> "row", id |-> NextId(counter), snapshot |-> s,
                        truth |-> FALSE]
  OBVIOUS
<1>4. row \in CaseRow /\ row.id = counter + 1
  BY <1>2, <1>3 DEF CaseRow, NextId
<1>5. /\ cases_file' \in {cases_file, Appended(cases_file, row), CutShort(cases_file)}
      /\ \/ building' = building /\ counter' = counter + 1
         \/ building' = FALSE
  BY <1>3 DEF BuildCase
<1>6. PICK Lines : /\ cases_file \in Seq(Lines)
                   /\ Grown(Lines, cases_file, row, cases_file')
  <2>1. PICK Lines : Lines = CaseRow \cup {Torn, Garbled}
    OBVIOUS
  <2>2. /\ cases_file \in Seq(Lines) /\ row \in Lines
        /\ Torn \in Lines /\ Garbled \in Lines /\ row.kind = "row"
    BY <1>1, <1>4, <2>1, LineTypes DEF FilesTyped
  <2> QED
    BY <1>5, <2>2, FileGrows
<1>7. \A k : IsRow(cases_file', k) =>
        \/ IsRow(cases_file, k) /\ cases_file'[k] = cases_file[k]
        \/ k = Len(cases_file) + 1 /\ cases_file'[k] = row
  BY <1>6 DEF Grown
<1>8. \A k : IsRow(cases_file, k) => /\ k \in 1..Len(cases_file)
                                    /\ cases_file[k].id \in Nat
                                    /\ cases_file[k].id <= counter
  BY <1>1, RowTypes, LineTypes DEF BuilderAhead, IsRow
<1>9. OneRowEach'
  <2> SUFFICES ASSUME NEW j \in 1..Len(cases_file'), NEW k \in 1..Len(cases_file'),
                      IsRow(cases_file', j), IsRow(cases_file', k),
                      cases_file'[j].id = cases_file'[k].id
               PROVE  j = k
    BY DEF OneRowEach
  <2>1. CASE IsRow(cases_file, j) /\ cases_file'[j] = cases_file[j]
    <3>1. cases_file'[k] # row
      BY <1>2, <1>4, <1>8, <2>1
    <3>2. IsRow(cases_file, k) /\ cases_file'[k] = cases_file[k]
      BY <1>7, <3>1
    <3> QED
      BY <1>1, <1>8, <2>1, <3>2 DEF OneRowEach
  <2>2. CASE j = Len(cases_file) + 1 /\ cases_file'[j] = row
    <3>1. ~(IsRow(cases_file, k) /\ cases_file'[k] = cases_file[k])
      BY <1>2, <1>4, <1>8, <2>2
    <3> QED
      BY <1>7, <2>2, <3>1
  <2> QED
    BY <1>7, <2>1, <2>2
<1>10. BuilderAhead'
  <2>1. building' => \A k : IsRow(cases_file', k) => cases_file'[k].id <= counter'
    BY <1>1, <1>2, <1>4, <1>5, <1>7, <1>8
  <2> QED
    BY <1>1, <2>1 DEF BuilderAhead
<1>11. AboutTheRecord'
  <2>1. \A id, x : OnFile(cases_file, id, x) => OnFile(cases_file', id, x)
    BY <1>6, OnFileKept
  <2> QED
    BY <1>1, <2>1 DEF AboutTheRecord
<1> QED
  BY <1>1, <1>9, <1>10, <1>11 DEF LabelBelongsToItsAlert

LEMMA BuildEdgeLabel ==
  ASSUME StoreInv, LabelInv, BuildStart \/ BuildEnd
  PROVE  LabelInv'
<1> SUFFICES ASSUME n_builds' <= 1
             PROVE  /\ OneRowEach' /\ BuilderAhead' /\ AboutTheRecord'
                    /\ LabelBelongsToItsAlert'
  BY DEF LabelInv
<1>1. n_builds \in Nat
  BY DEF StoreInv, FilesTyped
<1>2. /\ UNCHANGED <<cases_file, events_file, cases>>
      /\ \/ n_builds' = n_builds + 1
         \/ n_builds' = n_builds /\ building' = FALSE
  BY DEF BuildStart, BuildEnd
<1>3. OneRowEach /\ BuilderAhead /\ AboutTheRecord /\ LabelBelongsToItsAlert
  BY <1>1, <1>2 DEF LabelInv
<1>4. OneRowEach' /\ AboutTheRecord' /\ LabelBelongsToItsAlert'
  BY <1>2, <1>3 DEF OneRowEach, AboutTheRecord, LabelBelongsToItsAlert, OnFile
<1>5. CASE n_builds' = n_builds + 1
  <2>1. n_builds = 0 /\ n_builds' # 0
    BY <1>1, <1>5
  <2>2. cases_file' = <<>>
    BY <1>2, <1>3, <2>1 DEF BuilderAhead
  <2> QED
    BY <1>4, <2>1, <2>2 DEF BuilderAhead
<1>6. CASE n_builds' = n_builds /\ building' = FALSE
  BY <1>2, <1>3, <1>4, <1>6 DEF BuilderAhead
<1> QED
  BY <1>2, <1>5, <1>6

LEMMA ServerLabel ==
  ASSUME StoreInv, LabelInv, Start \/ Stop
  PROVE  LabelInv'
<1> SUFFICES ASSUME n_builds <= 1
             PROVE  /\ OneRowEach' /\ BuilderAhead' /\ AboutTheRecord'
                    /\ LabelBelongsToItsAlert'
  BY DEF Start, Stop, builder, LabelInv
<1>1. /\ UNCHANGED <<cases_file, events_file, building, counter, n_builds>>
      /\ cases' = Loaded \/ cases' = <<>>
  BY DEF Start, Stop, builder
<1>2. OneRowEach /\ BuilderAhead /\ AboutTheRecord
  BY DEF LabelInv
<1>3. OneRowEach' /\ BuilderAhead'
  BY <1>1, <1>2 DEF OneRowEach, BuilderAhead
<1>4. \A id \in DOMAIN cases' :
        /\ OnFile(cases_file, id, cases'[id].snapshot)
        /\ cases'[id].disposition.of \in {None, cases'[id].snapshot}
  <2>1. CASE cases' = <<>>
    BY <2>1, EmptyDomain
  <2>2. CASE cases' = Loaded
    BY <1>2, <2>2, LoadedLabel, LoadedTyped DEF StoreInv
  <2> QED
    BY <1>1, <2>1, <2>2
<1> QED
  BY <1>1, <1>2, <1>3, <1>4 DEF AboutTheRecord, LabelBelongsToItsAlert, OnFile

LEMMA DisposeLabel ==
  ASSUME StoreInv, LabelInv, NEW id \in 1..MaxCases, NEW body \in Bodies,
         Dispose(id, body[1], body[2])
  PROVE  LabelInv'
<1>1. PICK d : d = Judged(id, body[1], body[2])
  OBVIOUS
<1>2. PICK row : row = EventOf(id, d)
  OBVIOUS
<1>3. /\ id \in DOMAIN cases /\ d.of = cases[id].snapshot /\ row \in EventRow
      /\ events_file' \in {events_file, Appended(events_file, row),
                           CutShort(events_file)}
      /\ \/ cases' = [cases EXCEPT ![id].disposition = d]
         \/ cases' = <<>>
      /\ UNCHANGED <<cases_file, building, built, counter, n_builds>>
  BY <1>1, <1>2, DisposeEffect
<1> SUFFICES ASSUME n_builds <= 1
             PROVE  /\ OneRowEach' /\ BuilderAhead' /\ AboutTheRecord'
                    /\ LabelBelongsToItsAlert'
  BY <1>3 DEF LabelInv
<1>4. OneRowEach /\ BuilderAhead /\ AboutTheRecord /\ LabelBelongsToItsAlert
  BY DEF LabelInv
<1>5. OneRowEach' /\ BuilderAhead'
  BY <1>3, <1>4 DEF OneRowEach, BuilderAhead
<1>6. row.id = id /\ row.disposition = d
  BY <1>2 DEF EventOf
<1>7. \A k : IsRow(events_file', k) =>
        OnFile(cases_file, events_file'[k].id, events_file'[k].disposition.of)
  <2> SUFFICES ASSUME NEW k, IsRow(events_file', k)
               PROVE  OnFile(cases_file, events_file'[k].id,
                             events_file'[k].disposition.of)
    OBVIOUS
  <2>1. PICK Lines : /\ events_file \in Seq(Lines)
                     /\ Grown(Lines, events_file, row, events_file')
    BY <1>3, EventsGrow DEF StoreInv, FilesTyped
  <2>2. \/ IsRow(events_file, k) /\ events_file'[k] = events_file[k]
        \/ events_file'[k] = row
    BY <2>1 DEF Grown
  <2>3. OnFile(cases_file, id, cases[id].snapshot)
    BY <1>3, <1>4 DEF AboutTheRecord
  <2> QED
    BY <1>3, <1>4, <1>6, <2>2, <2>3 DEF AboutTheRecord, IsRow
<1>8. \A x \in DOMAIN cases' :
        /\ x \in DOMAIN cases /\ cases'[x].snapshot = cases[x].snapshot
        /\ cases'[x].disposition.of \in {None, cases[x].snapshot}
  <2>1. CASE cases' = <<>>
    BY <2>1, EmptyDomain
  <2>2. CASE cases' = [cases EXCEPT ![id].disposition = d]
    <3>1. \A x \in DOMAIN cases : cases[x] \in Case
      BY DEF StoreInv, AnsweredVerdictStands, TypeOK
    <3>2. DOMAIN cases' = DOMAIN cases
      BY <2>2
    <3>3. cases'[id] = [cases[id] EXCEPT !.disposition = d]
      BY <1>3, <2>2
    <3>4. cases'[id].snapshot = cases[id].snapshot /\ cases'[id].disposition = d
      BY <1>3, <3>1, <3>3 DEF Case
    <3>5. \A x \in DOMAIN cases : x # id => cases'[x] = cases[x]
      BY <2>2
    <3> QED
      BY <1>3, <1>4, <3>2, <3>4, <3>5 DEF LabelBelongsToItsAlert
  <2> QED
    BY <1>3, <2>1, <2>2
<1> QED
  BY <1>3, <1>4, <1>5, <1>7, <1>8 DEF AboutTheRecord, LabelBelongsToItsAlert,
     OnFile

LEMMA LabelNext == StoreInv /\ LabelInv /\ [Next]_vars => LabelInv'
<1> SUFFICES ASSUME StoreInv, LabelInv, [Next]_vars PROVE LabelInv'
  OBVIOUS
<1>1. CASE BuildStart \/ BuildEnd
  BY <1>1, BuildEdgeLabel
<1>2. ASSUME NEW s \in Snapshots, BuildCase(s) PROVE LabelInv'
  BY <1>2, BuildCaseLabel
<1>3. CASE Start \/ Stop
  BY <1>3, ServerLabel
<1>4. ASSUME NEW id \in 1..MaxCases, NEW body \in Bodies,
             Dispose(id, body[1], body[2])
      PROVE  LabelInv'
  BY <1>4, DisposeLabel
<1>5. CASE UNCHANGED vars
  BY <1>5 DEF vars, LabelInv, OneRowEach, BuilderAhead, AboutTheRecord,
              LabelBelongsToItsAlert, OnFile
<1> QED
  BY <1>1, <1>2, <1>3, <1>4, <1>5 DEF Next

\* As long as build_queue has run at most once, a case carries a disposition
\* that was given about the very record it shows, whatever crashes, fails or
\* is replayed (cases/case.py:3-8); a second run is what breaks it.
THEOREM LabelsBelong == Spec => [](n_builds <= 1 => LabelBelongsToItsAlert)
<1>1. LabelInv => (n_builds <= 1 => LabelBelongsToItsAlert)
  BY DEF LabelInv
<1> QED
  BY <1>1, StoreAlways, LabelInit, LabelNext, PTL DEF Spec

-----------------------------------------------------------------------------
(* The two files implement the ledger, until a second run of build_queue.  *)

FiledShape ==
  /\ DOMAIN Filed = FiledIds
  /\ \A id \in FiledIds :
       /\ Filed[id] = [snapshot |-> Filed[id].snapshot,
                       disposition |-> FiledDisposition(id)]
       /\ OnFile(cases_file, id, Filed[id].snapshot)
  /\ \A id, s : OnFile(cases_file, id, s) => id \in FiledIds

LEMMA FiledShaped == StoreInv => FiledShape
<1> SUFFICES ASSUME StoreInv PROVE FiledShape
  OBVIOUS
<1>1. FilesTyped
  BY DEF StoreInv
<1>2. DOMAIN Filed = FiledIds
  BY DEF Filed
<1>3. ASSUME NEW id \in FiledIds
      PROVE  /\ Filed[id] = [snapshot |-> Filed[id].snapshot,
                             disposition |-> FiledDisposition(id)]
             /\ OnFile(cases_file, id, Filed[id].snapshot)
  <2>1. PICK k \in RowsOf(cases_file, id) :
          Loaded[id].snapshot = cases_file[k].snapshot
    BY <1>1, LoadedTyped
  <2>2. OnFile(cases_file, id, Loaded[id].snapshot)
    BY <2>1 DEF OnFile, RowsOf
  <2>3. Loaded[id].disposition = FiledDisposition(id)
    BY <1>1, LoadedTyped
  <2>4. Filed[id] = [snapshot |-> Loaded[id].snapshot,
                     disposition |-> FiledDisposition(id)]
    BY <2>3 DEF Filed
  <2> QED
    BY <2>2, <2>4
<1>4. \A id, s : OnFile(cases_file, id, s) => id \in FiledIds
  BY DEF OnFile, FiledIds
<1> QED
  BY <1>2, <1>3, <1>4 DEF FiledShape

\* A case whose line is still there and whose replay ends as before reads as
\* before.
LEMMA FiledKept ==
  ASSUME FiledShape, FiledShape', OneRowEach', NEW id \in FiledIds,
         \A s : OnFile(cases_file, id, s) => OnFile(cases_file', id, s),
         FiledDisposition(id)' = FiledDisposition(id)
  PROVE  Filed'[id] = Filed[id]
<1>1. OnFile(cases_file', id, Filed[id].snapshot)
  BY DEF FiledShape
<1>2. id \in FiledIds'
  BY <1>1 DEF FiledShape
<1>3. OnFile(cases_file', id, Filed'[id].snapshot)
  BY <1>2 DEF FiledShape
<1>4. \A s, u : OnFile(cases_file', id, s) /\ OnFile(cases_file', id, u) => s = u
  BY DEF OneRowEach, OnFile
<1>5. Filed'[id].snapshot = Filed[id].snapshot
  BY <1>1, <1>3, <1>4
<1> QED
  BY <1>2, <1>5 DEF FiledShape

\* Without a new row, the replay of every case ends as before.
LEMMA ReplayUnchanged ==
  ASSUME NEW Lines, events_file \in Seq(Lines), NEW row,
         Grown(Lines, events_file, row, events_file'),
         events_file' # Append(events_file, row), NEW id
  PROVE  FiledDisposition(id)' = FiledDisposition(id)
<1>1. /\ \A k : IsRow(events_file', k) <=> IsRow(events_file, k)
      /\ \A k : IsRow(events_file, k) => events_file'[k] = events_file[k]
  BY DEF Grown
<1>2. RowsOf(events_file', id) = RowsOf(events_file, id)
  BY <1>1 DEF RowsOf, IsRow
<1>3. CASE RowsOf(events_file, id) = {}
  BY <1>2, <1>3 DEF FiledDisposition
<1>4. CASE RowsOf(events_file, id) # {}
  <2>1. IsRow(events_file, Last(RowsOf(events_file, id)))
    BY <1>4, LastRow DEF RowsOf
  <2> QED
    BY <1>1, <1>2, <1>4, <2>1 DEF FiledDisposition
<1> QED
  BY <1>3, <1>4

LEMMA BuildCaseLedger ==
  ASSUME FiledShape, FiledShape', OneRowEach', BuilderAhead, AboutTheRecord,
         StoreInv, NEW s \in Snapshots, BuildCase(s)
  PROVE  Ledger!Next \/ Filed' = Filed
<1>1. /\ counter \in Nat /\ counter + 1 \in 1..MaxCases /\ FilesTyped
      /\ events_file' = events_file /\ building
  BY CaseStoreAssumption
     DEF BuildCase, StoreInv, AnsweredVerdictStands, TypeOK
<1>2. PICK row : row = [kind |-> "row", id |-> NextId(counter), snapshot |-> s,
                        truth |-> FALSE]
  OBVIOUS
<1>3. row \in CaseRow /\ row.id = counter + 1 /\ row.snapshot = s
  BY <1>1, <1>2 DEF CaseRow, NextId
<1>4. cases_file' \in {cases_file, Appended(cases_file, row), CutShort(cases_file)}
  BY <1>2 DEF BuildCase
<1>5. PICK Lines : /\ cases_file \in Seq(Lines) /\ row \in Lines
                   /\ Grown(Lines, cases_file, row, cases_file')
  <2>1. PICK Lines : Lines = CaseRow \cup {Torn, Garbled}
    OBVIOUS
  <2>2. /\ cases_file \in Seq(Lines) /\ row \in Lines
        /\ Torn \in Lines /\ Garbled \in Lines /\ row.kind = "row"
    BY <1>1, <1>3, <2>1, LineTypes DEF FilesTyped
  <2> QED
    BY <1>4, <2>2, FileGrows
<1>6. \A id : FiledDisposition(id)' = FiledDisposition(id)
  BY <1>1 DEF FiledDisposition
<1>7. \A id, x : OnFile(cases_file, id, x) => OnFile(cases_file', id, x)
  BY <1>5, OnFileKept
<1>8. \A id \in FiledIds : id \in FiledIds' /\ Filed'[id] = Filed[id]
  <2>1. FiledIds \subseteq FiledIds'
    BY <1>7 DEF FiledShape
  <2> QED
    BY <1>6, <1>7, <2>1, FiledKept
<1>9. CASE cases_file' # Append(cases_file, row)
  <2>1. \A k : IsRow(cases_file', k) =>
          IsRow(cases_file, k) /\ cases_file'[k] = cases_file[k]
    BY <1>5, <1>9 DEF Grown
  <2>2. FiledIds' = FiledIds
    <3>1. ASSUME NEW x \in FiledIds' PROVE x \in FiledIds
      <4>1. PICK k : IsRow(cases_file', k) /\ cases_file'[k].id = x
        BY DEF FiledIds
      <4>2. IsRow(cases_file, k) /\ cases_file[k].id = x
        BY <2>1, <4>1
      <4> QED
        BY <4>2 DEF FiledIds, IsRow
    <3> QED
      BY <1>8, <3>1
  <2>3. Filed' = Filed
    BY <1>8, <2>2 DEF FiledShape, Filed
  <2> QED
    BY <2>3
<1>10. CASE cases_file' = Append(cases_file, row)
  <2>1. PICK n : n = counter + 1
    OBVIOUS
  <2>2. /\ \A k : IsRow(cases_file', k) =>
             \/ IsRow(cases_file, k) /\ cases_file'[k] = cases_file[k]
             \/ k = Len(cases_file) + 1
        /\ Len(cases_file) + 1 \in 1..Len(cases_file')
        /\ IsRow(cases_file', Len(cases_file) + 1)
        /\ cases_file'[Len(cases_file) + 1] = row
    BY <1>3, <1>5, <1>10, LineTypes DEF Grown, IsRow
  <2>3. FiledIds' = FiledIds \cup {n}
    <3>1. ASSUME NEW x \in FiledIds' PROVE x \in FiledIds \cup {n}
      <4>1. PICK k : IsRow(cases_file', k) /\ cases_file'[k].id = x
        BY DEF FiledIds
      <4>2. (IsRow(cases_file, k) /\ cases_file[k].id = x) \/ x = n
        BY <2>1, <1>3, <2>2, <4>1
      <4> QED
        BY <4>2 DEF FiledIds, IsRow
    <3>2. n \in FiledIds'
      BY <2>1, <1>3, <2>2 DEF FiledIds
    <3> QED
      BY <1>8, <3>1, <3>2
  <2>4. n \notin FiledIds
    <3>1. \A k : IsRow(cases_file, k) => cases_file[k].id \in Nat
                                        /\ cases_file[k].id <= counter
      BY <1>1, RowTypes, LineTypes DEF BuilderAhead, IsRow
    <3> QED
      BY <2>1, <1>1, <3>1 DEF FiledIds
  <2>5. Filed'[n].snapshot = s
    <3>1. OnFile(cases_file', n, s)
      BY <2>1, <1>3, <2>2 DEF OnFile
    <3>2. OnFile(cases_file', n, Filed'[n].snapshot)
      BY <2>3 DEF FiledShape
    <3> QED
      BY <3>1, <3>2 DEF OneRowEach, OnFile
  <2>6. FiledDisposition(n) = NoDisposition
    <3>1. \A k : IsRow(events_file, k) => events_file[k].id # n
      BY <2>4 DEF AboutTheRecord, FiledShape, IsRow
    <3>2. RowsOf(events_file, n) = {}
      BY <3>1 DEF RowsOf
    <3> QED
      BY <3>2 DEF FiledDisposition
  <2>7. Filed'[n].disposition = NoDisposition
    <3>1. n \in FiledIds' /\ FiledDisposition(n)' = NoDisposition
      BY <1>6, <2>3, <2>6
    <3>2. Filed'[n] = [snapshot |-> Filed'[n].snapshot,
                       disposition |-> FiledDisposition(n)']
      BY <3>1 DEF FiledShape
    <3> QED
      BY <3>1, <3>2
  <2>8. DOMAIN Filed' = DOMAIN Filed \cup {n} /\ n \notin DOMAIN Filed
    BY <2>3, <2>4 DEF FiledShape
  <2>9. \A x \in DOMAIN Filed \ {n} : Filed'[x] = Filed[x]
    BY <1>8 DEF FiledShape
  <2>10. Ledger!Open(n)
    BY <2>5, <2>7, <2>8, <2>9 DEF Ledger!Open, Ledger!OthersUnchanged
  <2> QED
    BY <2>8, <2>10 DEF Ledger!Next
<1> QED
  BY <1>9, <1>10

LEMMA DisposeLedger ==
  ASSUME FiledShape, FiledShape', OneRowEach, OneRowEach', AboutTheRecord,
         StoreInv, NEW id \in 1..MaxCases, NEW body \in Bodies,
         Dispose(id, body[1], body[2])
  PROVE  Ledger!Next \/ Filed' = Filed
<1>1. PICK d : d = Judged(id, body[1], body[2])
  OBVIOUS
<1>2. PICK row : row = EventOf(id, d)
  OBVIOUS
<1>3. /\ id \in DOMAIN cases /\ d.of = cases[id].snapshot /\ row \in EventRow
      /\ events_file' \in {events_file, Appended(events_file, row),
                           CutShort(events_file)}
      /\ cases_file' = cases_file
  BY <1>1, <1>2, DisposeEffect
<1>4. row.id = id /\ row.disposition = d
  BY <1>2 DEF EventOf
<1>5. /\ FiledIds' = FiledIds
      /\ \A x, s : OnFile(cases_file', x, s) <=> OnFile(cases_file, x, s)
  BY <1>3 DEF FiledIds, OnFile
<1>6. PICK Lines : /\ events_file \in Seq(Lines)
                   /\ Grown(Lines, events_file, row, events_file')
  BY <1>3, EventsGrow DEF StoreInv, FilesTyped
<1>7. CASE events_file' # Append(events_file, row)
  <2>1. \A x : FiledDisposition(x)' = FiledDisposition(x)
    BY <1>6, <1>7, ReplayUnchanged
  <2>2. \A x \in FiledIds : Filed'[x] = Filed[x]
    BY <1>5, <2>1, FiledKept
  <2> QED
    BY <1>5, <2>2 DEF FiledShape, Filed
<1>8. CASE events_file' = Append(events_file, row)
  <2>1. \A x : FiledDisposition(x)' = IF id = x THEN d ELSE FiledDisposition(x)
    BY <1>3, <1>4, <1>8, ReplayAfterAppend DEF StoreInv
  <2>2. \A x \in FiledIds \ {id} : Filed'[x] = Filed[x]
    BY <1>5, <2>1, FiledKept
  <2>3. OnFile(cases_file, id, cases[id].snapshot) /\ id \in FiledIds
    BY <1>3 DEF AboutTheRecord, FiledShape
  <2>4. Filed[id].snapshot = cases[id].snapshot
    BY <2>3, OneSnapshot DEF FiledShape
  <2>5. OnFile(cases_file, id, Filed'[id].snapshot)
    BY <1>5, <2>3 DEF FiledShape
  <2>6. Filed'[id].snapshot = Filed[id].snapshot
    BY <2>3, <2>4, <2>5, OneSnapshot
  <2>7. Filed'[id].disposition = d
    BY <1>5, <2>1, <2>3 DEF FiledShape
  <2>8. /\ id \in DOMAIN Filed /\ DOMAIN Filed' = DOMAIN Filed
        /\ \A x \in DOMAIN Filed \ {id} : Filed'[x] = Filed[x]
    BY <1>5, <2>2, <2>3 DEF FiledShape
  <2>9. Ledger!Dispose(id)
    BY <1>3, <2>4, <2>6, <2>7, <2>8 DEF Ledger!Dispose, Ledger!OthersUnchanged
  <2> QED
    BY <2>8, <2>9 DEF Ledger!Next
<1> QED
  BY <1>7, <1>8

LEMMA LedgerInit == Init => Ledger!Init
<1> SUFFICES ASSUME Init PROVE Filed = <<>>
  BY DEF Ledger!Init
<1>1. FiledIds = {}
  BY DEF Init, FiledIds
<1> QED
  BY <1>1 DEF Filed

LEMMA LedgerStep ==
  /\ StoreInv /\ LabelInv /\ FiledShape /\ FiledShape' /\ LabelInv'
  /\ n_builds <= 1 /\ (n_builds <= 1)' /\ [Next]_vars
  => [Ledger!Next]_Filed
<1> SUFFICES ASSUME StoreInv, LabelInv, FiledShape, FiledShape', LabelInv',
                    n_builds <= 1, n_builds' <= 1, [Next]_vars
             PROVE  Ledger!Next \/ Filed' = Filed
  OBVIOUS
<1>1. OneRowEach /\ OneRowEach' /\ BuilderAhead /\ AboutTheRecord
  BY DEF LabelInv
<1>2. ASSUME UNCHANGED <<cases_file, events_file>> PROVE Filed' = Filed
  BY <1>2 DEF Filed, FiledIds, Loaded, FiledDisposition
<1>3. CASE BuildStart \/ BuildEnd \/ Start \/ Stop
  BY <1>2, <1>3 DEF BuildStart, BuildEnd, Start, Stop
<1>4. ASSUME NEW s \in Snapshots, BuildCase(s)
      PROVE  Ledger!Next \/ Filed' = Filed
  BY <1>1, <1>4, BuildCaseLedger
<1>5. ASSUME NEW id \in 1..MaxCases, NEW body \in Bodies,
             Dispose(id, body[1], body[2])
      PROVE  Ledger!Next \/ Filed' = Filed
  BY <1>1, <1>5, DisposeLedger
<1>6. CASE UNCHANGED vars
  BY <1>2, <1>6 DEF vars
<1> QED
  BY <1>3, <1>4, <1>5, <1>6 DEF Next

\* As load() would read them, the two files are an append-only ledger of
\* cases: a record is written once and only its disposition changes, to one
\* given about that record (store.py:1-12), at every instant, crashes and cut
\* lines included, as long as build_queue has run at most once.
THEOREM FilesAreALedger == Spec /\ [](n_builds <= 1) => ImplementsCaseLedger
<1>1. Spec => []LabelInv
  BY StoreAlways, LabelInit, LabelNext, PTL DEF Spec
<1> QED
  BY <1>1, StoreAlways, FiledShaped, LedgerInit, LedgerStep, PTL
     DEF Spec, ImplementsCaseLedger, Ledger!Spec

-----------------------------------------------------------------------------
(* The console, for an analyst who waits for every answer before acting.   *)

LogRecord == [case : Cases, evidence_of : Cases,
              status : {"pending", "approved", "rejected"}, executed : BOOLEAN]

LEMMA LogTyped ==
  ASSUME ConsoleTypeOK
  PROVE  log \in Seq(LogRecord) /\ \A k \in DOMAIN log : log[k] \in LogRecord
<1>1. log \in Seq(LogRecord)
  BY DEF ConsoleTypeOK, LogRecord
<1> QED
  BY <1>1

LEMMA ReviewSelectCase ==
  ASSUME Patient, ReviewInv, NEW id \in Cases, SelectCase(id)
  PROVE  ReviewInv'
<1> USE DEF ReviewInv, ActsOnWhatIsShown
<1>1. /\ details = {} /\ loads = {} /\ posts = {}
      /\ answers = {} /\ gates = {} /\ queues = {}
  BY DEF SelectCase, Free
<1>2. ConsoleTypeOK'
  BY DEF ConsoleTypeOK, SelectCase, DroppedOnSelect, queue, server
<1>3. VerdictIsAboutTheCaseShownUnlessLost' /\ DropsAreMembers'
        /\ RecommendationCitesItsCase' /\ QueueIsOfItsLane'
  BY DEF VerdictIsAboutTheCaseShownUnlessLost, DropsAreMembers,
     RecommendationCitesItsCase, QueueIsOfItsLane, Pending, SelectCase, queue,
     server
<1>4. OneAwaited' /\ \A x \in queues' : x = lane'
  BY <1>1 DEF OneAwaited, AtMostOne, SelectCase, queue
<1>5. ScreenInv' /\ VerdictInv' /\ ToldInv'
  <2>1. PICK r : /\ details' = {r} /\ r.id = id
                 /\ selected' = id /\ dropped' = {} /\ detail' = detail
                 /\ UNCHANGED <<posts, answers, disposed, told>>
    BY <1>1 DEF SelectCase, DroppedOnSelect, server
  <2>2. \A x \in details' : x.id = selected' /\ x.id \in Cases /\ dropped' = {}
    BY <2>1
  <2>3. ScreenInv'
    BY <2>1 DEF ScreenInv
  <2> QED
    BY <1>1, <2>1, <2>3 DEF VerdictInv, ToldInv
<1>6. PanelInv' /\ PanelIsOfTheCaseShown' /\ LogIsAsShown'
  BY DEF PanelInv, PanelIsOfTheCaseShown, LogIsAsShown, SelectCase, server
<1> QED
  BY <1>2, <1>3, <1>4, <1>5, <1>6

LEMMA ReviewDetailArrives ==
  ASSUME Patient, ReviewInv, DetailArrives
  PROVE  ReviewInv'
<1> USE DEF ReviewInv, ActsOnWhatIsShown
<1>1. PICK r \in details :
        /\ details' = details \ {r} /\ detail' = DetailOf(r) /\ Redrawn /\ behind' = {}
        /\ UNCHANGED <<selected, dropped, queue, posts, answers, gates, server, told,
                       clicks>>
  BY DEF DetailArrives, Shown
<1>2. /\ r.id = selected /\ r.id \in Cases /\ dropped = {} /\ details' = {}
      /\ loads = {} /\ posts = {} /\ answers = {} /\ gates = {} /\ queues = {}
  BY <1>1 DEF ScreenInv, OneAwaited, AtMostOne
<1>3. /\ detail'.case = r.id /\ detail'.disposed = (r.id \in DOMAIN disposed)
      /\ detail' \in [case : Cases, disposed : BOOLEAN]
  BY <1>1, <1>2 DEF DetailOf
<1>4. ConsoleTypeOK'
  BY <1>1, <1>3 DEF ConsoleTypeOK, Redrawn, queue, server
<1>5. VerdictIsAboutTheCaseShownUnlessLost' /\ DropsAreMembers'
        /\ RecommendationCitesItsCase' /\ QueueIsOfItsLane'
  BY DEF VerdictIsAboutTheCaseShownUnlessLost, DropsAreMembers,
     RecommendationCitesItsCase, QueueIsOfItsLane, Pending, DetailArrives,
     queue, server
<1>6. OneAwaited' /\ \A x \in queues' : x = lane'
  BY DEF OneAwaited, AtMostOne, DetailArrives, Redrawn, queue
<1>7. ScreenInv' /\ VerdictInv' /\ ToldInv'
  BY <1>1, <1>2, <1>3 DEF ScreenInv, ToldInv, VerdictInv, server
<1>8. PanelInv' /\ PanelIsOfTheCaseShown' /\ LogIsAsShown'
  BY DEF PanelInv, PanelIsOfTheCaseShown, LogIsAsShown, OneAwaited,
     DetailArrives, Redrawn
<1> QED
  BY <1>4, <1>5, <1>6, <1>7, <1>8

LEMMA ReviewDetailLost ==
  ASSUME Patient, ReviewInv, DetailLost
  PROVE  ReviewInv'
<1> USE DEF ReviewInv, ActsOnWhatIsShown
<1>1. ConsoleTypeOK'
  BY DEF ConsoleTypeOK, DetailLost, state, queue, server
<1>2. VerdictIsAboutTheCaseShownUnlessLost' /\ DropsAreMembers'
        /\ RecommendationCitesItsCase' /\ QueueIsOfItsLane'
  BY DEF VerdictIsAboutTheCaseShownUnlessLost, DropsAreMembers,
     RecommendationCitesItsCase, QueueIsOfItsLane, Pending, VerdictInv,
     PanelInv, DetailLost, state, queue, server
<1>3. OneAwaited' /\ \A x \in queues' : x = lane'
  BY DEF OneAwaited, AtMostOne, DetailLost, state, queue, server
<1>4. ScreenInv' /\ VerdictInv' /\ ToldInv'
  BY DEF ScreenInv, ToldInv, VerdictInv, Live, DetailLost, state, queue, server
<1>5. PanelInv' /\ PanelIsOfTheCaseShown' /\ LogIsAsShown'
  BY DEF PanelInv, PanelIsOfTheCaseShown, LogIsAsShown, DetailLost, state,
     queue, server
<1> QED
  BY <1>1, <1>2, <1>3, <1>4, <1>5

LEMMA ReviewToggleDrop ==
  ASSUME Patient, ReviewInv, NEW k \in AccountKeys, ToggleDrop(k)
  PROVE  ReviewInv'
<1> USE DEF ReviewInv, ActsOnWhatIsShown
<1>1. /\ details = {} /\ loads = {} /\ posts = {}
      /\ answers = {} /\ gates = {} /\ queues = {}
  BY DEF ToggleDrop, Free
<1>2. ConsoleTypeOK'
  BY DEF ConsoleTypeOK, ToggleDrop, Redrawn, queue, server
<1>3. VerdictIsAboutTheCaseShownUnlessLost' /\ DropsAreMembers'
        /\ RecommendationCitesItsCase' /\ QueueIsOfItsLane'
  BY DEF VerdictIsAboutTheCaseShownUnlessLost, DropsAreMembers,
     RecommendationCitesItsCase, QueueIsOfItsLane, Pending, ToggleDrop, queue,
     server
<1>4. OneAwaited' /\ \A x \in queues' : x = lane'
  BY <1>1 DEF OneAwaited, ToggleDrop, Redrawn, queue
<1>5. ScreenInv' /\ VerdictInv' /\ ToldInv'
  BY <1>1 DEF ScreenInv, ToldInv, VerdictInv, ToggleDrop, server
<1>6. PanelInv' /\ PanelIsOfTheCaseShown' /\ LogIsAsShown'
  BY <1>1 DEF PanelInv, PanelIsOfTheCaseShown, LogIsAsShown, ToggleDrop,
     Redrawn
<1> QED
  BY <1>2, <1>3, <1>4, <1>5, <1>6

LEMMA ReviewPressVerdict ==
  ASSUME Patient, ReviewInv, NEW v \in {ConfirmVerdict, "not_a_ring", "insufficient_evidence"},
         PressVerdict(v)
  PROVE  ReviewInv'
<1> USE DEF ReviewInv, ActsOnWhatIsShown
<1>1. /\ details = {} /\ loads = {} /\ posts = {}
      /\ answers = {} /\ gates = {} /\ queues = {}
  BY DEF PressVerdict, Free
<1>2. ConsoleTypeOK'
  BY DEF history, ConsoleTypeOK, PressVerdict, ConfirmVerdict, state, queue,
     server
<1>3. VerdictIsAboutTheCaseShownUnlessLost' /\ DropsAreMembers'
        /\ RecommendationCitesItsCase' /\ QueueIsOfItsLane'
  BY DEF history, VerdictIsAboutTheCaseShownUnlessLost, DropsAreMembers,
     RecommendationCitesItsCase, QueueIsOfItsLane, Pending, PressVerdict, queue,
     server
<1>4. OneAwaited' /\ \A x \in queues' : x = lane'
  BY <1>1 DEF history, OneAwaited, AtMostOne, PressVerdict, queue
<1>5. ScreenInv' /\ ToldInv'
  BY <1>1 DEF history, ScreenInv, ToldInv, PressVerdict, state, server
<1>6. PanelInv' /\ PanelIsOfTheCaseShown' /\ LogIsAsShown'
  BY DEF history, PanelInv, PanelIsOfTheCaseShown, LogIsAsShown, PressVerdict,
     state, server
<1>7. VerdictInv'
  <2>1. PICK p : /\ posts' = {p} /\ p.id = selected /\ p.shown = detail.case
                 /\ p.dropped = dropped /\ p.behind = ("case" \in behind)
                 /\ detail' = detail /\ answers' = answers /\ Live
    BY <1>1 DEF PressVerdict, state
  <2>2. "case" \notin behind =>
          selected = detail.case /\ dropped \subseteq MembersOf[detail.case]
    BY <1>1, <2>1 DEF ScreenInv, Live
  <2> QED
    BY <1>1, <2>1, <2>2 DEF VerdictInv, Live
<1> QED
  BY <1>2, <1>3, <1>4, <1>5, <1>6, <1>7

LEMMA ReviewRecorded ==
  ASSUME ReviewInv, NEW p \in posts,
         disposed' = Recorded(p) \/ disposed' = disposed,
         UNCHANGED <<pane, log, told, detail>>
  PROVE  /\ VerdictIsAboutTheCaseShownUnlessLost' /\ DropsAreMembers'
         /\ RecommendationCitesItsCase' /\ QueueIsOfItsLane'
         /\ DOMAIN disposed' \subseteq Cases /\ told' \subseteq DOMAIN disposed'
         /\ DOMAIN disposed \subseteq DOMAIN disposed'
         /\ (detail # Nothing /\ detail.case \in told => detail.disposed)'
<1> USE DEF ReviewInv, ActsOnWhatIsShown
<1>1. ~p.behind => p.shown = p.id /\ p.dropped \subseteq MembersOf[p.id]
  BY DEF VerdictInv
<1>2. /\ DOMAIN disposed' \subseteq Cases
      /\ DOMAIN disposed \subseteq DOMAIN disposed'
      /\ \A c \in DOMAIN disposed' :
           \/ disposed'[c] = p /\ c = p.id
           \/ c \in DOMAIN disposed /\ disposed'[c] = disposed[c]
  BY DEF Recorded, ConsoleTypeOK
<1>3. VerdictIsAboutTheCaseShownUnlessLost'
  BY <1>1, <1>2 DEF VerdictIsAboutTheCaseShownUnlessLost
<1>4. DropsAreMembers'
  BY <1>1, <1>2 DEF DropsAreMembers
<1>5. RecommendationCitesItsCase'
  BY DEF RecommendationCitesItsCase
<1>6. QueueIsOfItsLane'
  BY <1>2 DEF QueueIsOfItsLane, Pending
<1> QED
  BY <1>2, <1>3, <1>4, <1>5, <1>6 DEF ToldInv

LEMMA ReviewHandleVerdict ==
  ASSUME Patient, ReviewInv, HandleVerdict
  PROVE  ReviewInv'
<1> USE DEF ReviewInv, ActsOnWhatIsShown
<1>1. PICK p \in posts, ok \in BOOLEAN :
        /\ posts' = posts \ {p} /\ (ok => p.id \in Cases) /\ disposed' = Recorded(p)
        /\ answers' = answers \cup {[id |-> p.id, ok |-> ok, n |-> p.n]}
        /\ UNCHANGED <<state, queue, panel, details, loads, gates, log, history, clicks>>
  BY DEF HandleVerdict
<1>2. /\ VerdictIsAboutTheCaseShownUnlessLost' /\ DropsAreMembers'
      /\ RecommendationCitesItsCase' /\ QueueIsOfItsLane'
      /\ DOMAIN disposed' \subseteq Cases /\ told' \subseteq DOMAIN disposed'
      /\ DOMAIN disposed \subseteq DOMAIN disposed'
      /\ (detail # Nothing /\ detail.case \in told => detail.disposed)'
  BY <1>1, ReviewRecorded DEF state, queue, history
<1>3. ConsoleTypeOK'
  BY <1>1, <1>2 DEF ConsoleTypeOK, state, queue, history
<1>4. OneAwaited' /\ \A x \in queues' : x = lane'
  BY <1>1 DEF OneAwaited, AtMostOne, queue
<1>5. ScreenInv' /\ VerdictInv'
  BY <1>1 DEF ScreenInv, VerdictInv, Live, state, history
<1>6. PanelInv' /\ PanelIsOfTheCaseShown' /\ LogIsAsShown'
  BY <1>1 DEF PanelInv, PanelIsOfTheCaseShown, LogIsAsShown, state, history
<1>7. ToldInv'
  <2>1. ok => p.id \in DOMAIN disposed'
    BY <1>1 DEF Recorded
  <2> QED
    BY <1>1, <1>2, <2>1 DEF ToldInv
<1> QED
  BY <1>2, <1>3, <1>4, <1>5, <1>6, <1>7

LEMMA ReviewVerdictLost ==
  ASSUME Patient, ReviewInv, VerdictLost
  PROVE  ReviewInv'
<1> USE DEF ReviewInv, ActsOnWhatIsShown
<1>1. PICK p \in posts :
        /\ posts' = posts \ {p} /\ (disposed' = Recorded(p) \/ disposed' = disposed)
        /\ UNCHANGED <<state, queue, panel, details, loads, answers, gates, log, history,
                       clicks>>
  BY DEF VerdictLost
<1>2. /\ VerdictIsAboutTheCaseShownUnlessLost' /\ DropsAreMembers'
      /\ RecommendationCitesItsCase' /\ QueueIsOfItsLane'
      /\ DOMAIN disposed' \subseteq Cases /\ told' \subseteq DOMAIN disposed'
      /\ DOMAIN disposed \subseteq DOMAIN disposed'
      /\ (detail # Nothing /\ detail.case \in told => detail.disposed)'
  BY <1>1, ReviewRecorded DEF state, queue, history
<1>3. ConsoleTypeOK'
  BY <1>1, <1>2 DEF ConsoleTypeOK, state, queue, history
<1>4. OneAwaited' /\ \A x \in queues' : x = lane'
  BY <1>1 DEF OneAwaited, AtMostOne, queue
<1>5. ScreenInv' /\ VerdictInv'
  BY <1>1 DEF ScreenInv, VerdictInv, Live, state, history
<1>6. PanelInv' /\ PanelIsOfTheCaseShown' /\ LogIsAsShown'
  BY <1>1 DEF PanelInv, PanelIsOfTheCaseShown, LogIsAsShown, state, history
<1>7. ToldInv'
  BY <1>1, <1>2 DEF ToldInv
<1> QED
  BY <1>2, <1>3, <1>4, <1>5, <1>6, <1>7

LEMMA ReviewVerdictAnswered ==
  ASSUME Patient, ReviewInv, VerdictAnswered
  PROVE  ReviewInv'
<1> USE DEF ReviewInv, ActsOnWhatIsShown
<1>1. PICK a \in answers :
        /\ answers' = answers \ {a}
        /\ IF ~a.ok \/ detail = Nothing
           THEN UNCHANGED <<selected, detail, panel, loads, queues, told, behind>>
           ELSE /\ selected' = Nothing
                /\ detail' = Nothing
                /\ queues' = queues \cup {lane}
                /\ Redrawn
                /\ told' = told \cup {a.id}
                /\ behind' = {}
        /\ UNCHANGED <<dropped, lane, pane, details, posts, gates, server, clicks>>
  BY DEF VerdictAnswered
<1>2. a.ok => a.id \in DOMAIN disposed /\ a.id \in Cases
  BY DEF ToldInv, ConsoleTypeOK
<1>3. /\ answers = {a} /\ details = {} /\ loads = {} /\ posts = {}
      /\ gates = {} /\ queues = {} /\ detail # Nothing
  BY DEF OneAwaited, AtMostOne, VerdictInv
<1>4. ConsoleTypeOK'
  BY <1>1, <1>2 DEF ConsoleTypeOK, Redrawn, server
<1>5. VerdictIsAboutTheCaseShownUnlessLost' /\ DropsAreMembers'
        /\ RecommendationCitesItsCase' /\ QueueIsOfItsLane'
  BY <1>1 DEF VerdictIsAboutTheCaseShownUnlessLost, DropsAreMembers,
     RecommendationCitesItsCase, QueueIsOfItsLane, Pending, server
<1>6. OneAwaited' /\ \A x \in queues' : x = lane'
  BY <1>1, <1>3 DEF OneAwaited, AtMostOne, Redrawn
<1>7. ScreenInv' /\ VerdictInv'
  BY <1>1, <1>3 DEF ScreenInv, VerdictInv
<1>8. ToldInv'
  BY <1>1, <1>2, <1>3 DEF ToldInv, server
<1>9. PanelInv' /\ PanelIsOfTheCaseShown' /\ LogIsAsShown'
  BY <1>1, <1>3 DEF PanelInv, PanelIsOfTheCaseShown, LogIsAsShown, Redrawn, server
<1> QED
  BY <1>4, <1>5, <1>6, <1>7, <1>8, <1>9

LEMMA ReviewPressLoad ==
  ASSUME Patient, ReviewInv, PressLoad
  PROVE  ReviewInv'
<1> USE DEF ReviewInv, ActsOnWhatIsShown
<1>1. /\ details = {} /\ loads = {} /\ posts = {}
      /\ answers = {} /\ gates = {} /\ queues = {}
  BY DEF PressLoad, Free
<1>2. ConsoleTypeOK'
  BY DEF LoadInvestigation, ConsoleTypeOK, PressLoad, state, queue, server
<1>3. VerdictIsAboutTheCaseShownUnlessLost' /\ DropsAreMembers'
        /\ RecommendationCitesItsCase' /\ QueueIsOfItsLane'
  BY DEF LoadInvestigation, VerdictIsAboutTheCaseShownUnlessLost,
     DropsAreMembers, RecommendationCitesItsCase, QueueIsOfItsLane, Pending,
     PressLoad, queue, server
<1>4. OneAwaited' /\ \A x \in queues' : x = lane'
  BY <1>1 DEF LoadInvestigation, OneAwaited, AtMostOne, PressLoad, queue
<1>5. ScreenInv' /\ VerdictInv' /\ ToldInv'
  BY <1>1 DEF LoadInvestigation, ScreenInv, ToldInv, VerdictInv, PressLoad,
     state, server
<1>6. PanelInv' /\ PanelIsOfTheCaseShown' /\ LogIsAsShown'
  BY <1>1 DEF LoadInvestigation, PanelInv, PanelIsOfTheCaseShown, LogIsAsShown,
     PressLoad, state
<1> QED
  BY <1>2, <1>3, <1>4, <1>5, <1>6

LEMMA ReviewInvestigationArrives ==
  ASSUME Patient, ReviewInv, InvestigationArrives
  PROVE  ReviewInv'
<1> USE DEF ReviewInv, ActsOnWhatIsShown
<1>1. PICK l \in loads :
        /\ panel' = IF l.attached THEN PanelOf(l)
                    ELSE IF panel # Nothing
                         THEN [panel EXCEPT !.bound_to = l.case]
                         ELSE panel
        /\ behind' = IF l.attached THEN behind \ {"log"} ELSE behind
        /\ UNCHANGED <<state, queue, details, posts, answers, gates, server, told, clicks>>
  BY DEF InvestigationArrives
<1>2. l.attached /\ l.case \in Cases
  BY DEF PanelInv, ConsoleTypeOK
<1>3. LogOf(l.case) \subseteq [rec : DOMAIN log,
                              offers : {"pending", "approved", "rejected"}]
  <2>1. \A k \in DOMAIN log : log[k].status \in {"pending", "approved", "rejected"}
    BY LogTyped DEF LogRecord
  <2> QED
    BY <2>1 DEF LogOf
<1>4. panel' \in [evidence_of : Cases, bound_to : Cases,
                  log : SUBSET [rec : DOMAIN log,
                                offers : {"pending", "approved", "rejected"}]]
  BY <1>1, <1>2, <1>3 DEF PanelOf
<1>5. ConsoleTypeOK'
  BY <1>1, <1>4 DEF ConsoleTypeOK, state, queue, server
<1>6. VerdictIsAboutTheCaseShownUnlessLost' /\ DropsAreMembers'
        /\ RecommendationCitesItsCase' /\ QueueIsOfItsLane'
  BY DEF VerdictIsAboutTheCaseShownUnlessLost, DropsAreMembers,
     RecommendationCitesItsCase, QueueIsOfItsLane, Pending,
     InvestigationArrives, queue, server
<1>7. OneAwaited' /\ \A x \in queues' : x = lane'
  BY DEF OneAwaited, AtMostOne, InvestigationArrives, queue
<1>8. ScreenInv' /\ VerdictInv' /\ ToldInv'
  BY DEF ScreenInv, ToldInv, VerdictInv, Live, InvestigationArrives, state,
     server
<1>9. PanelInv' /\ PanelIsOfTheCaseShown' /\ LogIsAsShown'
  BY DEF PanelInv, PanelIsOfTheCaseShown, LogIsAsShown, OneAwaited, AtMostOne,
     InvestigationArrives, PanelOf, LogOf, state, server
<1> QED
  BY <1>5, <1>6, <1>7, <1>8, <1>9

LEMMA ReviewInvestigationLost ==
  ASSUME Patient, ReviewInv, InvestigationLost
  PROVE  ReviewInv'
<1> USE DEF ReviewInv, ActsOnWhatIsShown
<1>1. ConsoleTypeOK'
  BY DEF ConsoleTypeOK, InvestigationLost, state, queue, server, history
<1>2. VerdictIsAboutTheCaseShownUnlessLost' /\ DropsAreMembers'
        /\ RecommendationCitesItsCase' /\ QueueIsOfItsLane'
  BY DEF VerdictIsAboutTheCaseShownUnlessLost, DropsAreMembers,
     RecommendationCitesItsCase, QueueIsOfItsLane, Pending, VerdictInv,
     PanelInv, InvestigationLost, state, queue, server, history
<1>3. OneAwaited' /\ \A x \in queues' : x = lane'
  BY DEF OneAwaited, AtMostOne, InvestigationLost, state, queue, server, history
<1>4. ScreenInv' /\ VerdictInv' /\ ToldInv'
  BY DEF ScreenInv, ToldInv, VerdictInv, Live, InvestigationLost, state, queue,
     server, history
<1>5. PanelInv' /\ PanelIsOfTheCaseShown' /\ LogIsAsShown'
  BY DEF PanelInv, PanelIsOfTheCaseShown, LogIsAsShown, InvestigationLost,
     state, queue, server, history
<1> QED
  BY <1>1, <1>2, <1>3, <1>4, <1>5

LEMMA ReviewRecommend ==
  ASSUME Patient, ReviewInv, Recommend
  PROVE  ReviewInv'
<1> USE DEF ReviewInv, ActsOnWhatIsShown
<1>1. /\ details = {} /\ loads = {} /\ posts = {}
      /\ answers = {} /\ gates = {} /\ queues = {}
  BY DEF Recommend, Free
<1>2. ConsoleTypeOK'
  BY DEF Recommended, LoadInvestigation, ConsoleTypeOK, Recommend, state, queue
<1>3. VerdictIsAboutTheCaseShownUnlessLost' /\ DropsAreMembers'
        /\ RecommendationCitesItsCase' /\ QueueIsOfItsLane'
  BY DEF Recommended, LoadInvestigation, VerdictIsAboutTheCaseShownUnlessLost,
     DropsAreMembers, RecommendationCitesItsCase, QueueIsOfItsLane, Pending,
     PanelInv, Recommend, queue
<1>4. OneAwaited' /\ \A x \in queues' : x = lane'
  BY <1>1 DEF Recommended, LoadInvestigation, OneAwaited, AtMostOne, Recommend,
     queue
<1>5. ScreenInv' /\ VerdictInv' /\ ToldInv'
  BY <1>1 DEF Recommended, LoadInvestigation, ScreenInv, ToldInv, VerdictInv,
     Recommend, state
<1>6. PanelInv' /\ PanelIsOfTheCaseShown' /\ LogIsAsShown'
  BY DEF Recommended, LoadInvestigation, PanelInv, PanelIsOfTheCaseShown,
     LogIsAsShown, Recommend, state
<1> QED
  BY <1>2, <1>3, <1>4, <1>5, <1>6

LEMMA ReviewRecommendLost ==
  ASSUME Patient, ReviewInv, RecommendLost
  PROVE  ReviewInv'
<1> USE DEF ReviewInv, ActsOnWhatIsShown
<1>1. /\ details = {} /\ loads = {} /\ posts = {}
      /\ answers = {} /\ gates = {} /\ queues = {}
  BY DEF RecommendLost, Free
<1>2. CASE log' = log
  <2>1. ConsoleTypeOK'
    BY <1>2 DEF ConsoleTypeOK, RecommendLost, state, queue, history
  <2>2. VerdictIsAboutTheCaseShownUnlessLost' /\ DropsAreMembers'
          /\ RecommendationCitesItsCase' /\ QueueIsOfItsLane'
    BY <1>2 DEF VerdictIsAboutTheCaseShownUnlessLost, DropsAreMembers,
       RecommendationCitesItsCase, QueueIsOfItsLane, Pending, RecommendLost, queue
  <2>3. OneAwaited' /\ \A x \in queues' : x = lane'
    BY DEF OneAwaited, AtMostOne, RecommendLost, queue
  <2>4. ScreenInv' /\ VerdictInv' /\ ToldInv'
    BY DEF ScreenInv, ToldInv, VerdictInv, Live, RecommendLost, state, history
  <2>5. PanelInv' /\ PanelIsOfTheCaseShown' /\ LogIsAsShown'
    BY <1>2 DEF PanelInv, PanelIsOfTheCaseShown, LogIsAsShown, RecommendLost, state,
       history
  <2> QED
    BY <2>1, <2>2, <2>3, <2>4, <2>5
<1>3. CASE log' = Recommended
  <2> DEFINE rec == [case |-> panel.bound_to, evidence_of |-> panel.evidence_of,
                     status |-> "pending", executed |-> FALSE]
  <2>1. /\ panel # Nothing /\ rec \in LogRecord /\ log' = Append(log, rec)
        /\ rec.evidence_of = rec.case /\ log \in Seq(LogRecord)
    BY <1>3, LogTyped DEF RecommendLost, Recommended, PanelInv, ConsoleTypeOK, LogRecord
  <2> HIDE DEF rec
  <2>2. /\ log' \in Seq(LogRecord) /\ DOMAIN log \subseteq DOMAIN log'
        /\ \A k \in DOMAIN log : log'[k] = log[k]
        /\ \A k \in DOMAIN log' : k \in DOMAIN log \/ log'[k] = rec
    BY <2>1
  <2>3. ConsoleTypeOK'
    <3>1. log' \in Seq([case : Cases, evidence_of : Cases,
                        status : {"pending", "approved", "rejected"},
                        executed : BOOLEAN])
      BY <2>2 DEF LogRecord
    <3>2. \A k \in DOMAIN log' : log'[k].executed => log'[k].status = "approved"
      BY <2>2 DEF ConsoleTypeOK, rec
    <3>3. panel' = panel /\ (panel = Nothing
             \/ panel \in [evidence_of : Cases, bound_to : Cases,
                           log : SUBSET [rec : DOMAIN log',
                                         offers : {"pending", "approved", "rejected"}]])
      BY <2>2 DEF ConsoleTypeOK, RecommendLost
    <3> QED
      BY <3>1, <3>2, <3>3 DEF ConsoleTypeOK, RecommendLost, state, queue, history
  <2>4. VerdictIsAboutTheCaseShownUnlessLost' /\ DropsAreMembers' /\ QueueIsOfItsLane'
    BY DEF VerdictIsAboutTheCaseShownUnlessLost, DropsAreMembers, QueueIsOfItsLane,
       Pending, RecommendLost, queue
  <2>5. RecommendationCitesItsCase'
    BY <2>1, <2>2 DEF RecommendationCitesItsCase
  <2>6. OneAwaited' /\ \A x \in queues' : x = lane'
    BY DEF OneAwaited, AtMostOne, RecommendLost, queue
  <2>7. ScreenInv' /\ VerdictInv' /\ ToldInv'
    BY DEF ScreenInv, ToldInv, VerdictInv, Live, RecommendLost, state, history
  <2>8. PanelInv' /\ PanelIsOfTheCaseShown' /\ LogIsAsShown'
    <3>1. panel # Nothing => \A l \in panel.log : l.rec \in DOMAIN log
      BY DEF ConsoleTypeOK
    <3> QED
      BY <1>1, <2>2, <3>1 DEF PanelInv, PanelIsOfTheCaseShown, LogIsAsShown,
         RecommendLost, state, history
  <2> QED
    BY <2>3, <2>4, <2>5, <2>6, <2>7, <2>8
<1> QED
  BY <1>2, <1>3 DEF RecommendLost

LEMMA ReviewPressGate ==
  ASSUME Patient, ReviewInv, NEW does \in {"approved", "rejected", "execute"}, PressGate(does)
  PROVE  ReviewInv'
<1> USE DEF ReviewInv, ActsOnWhatIsShown
<1>1. /\ details = {} /\ loads = {} /\ posts = {}
      /\ answers = {} /\ gates = {} /\ queues = {}
  BY DEF PressGate, Free
<1>2. ConsoleTypeOK'
  BY DEF history, ConsoleTypeOK, PressGate, state, queue, server
<1>3. VerdictIsAboutTheCaseShownUnlessLost' /\ DropsAreMembers'
        /\ RecommendationCitesItsCase' /\ QueueIsOfItsLane'
  BY DEF history, VerdictIsAboutTheCaseShownUnlessLost, DropsAreMembers,
     RecommendationCitesItsCase, QueueIsOfItsLane, Pending, PressGate, queue,
     server
<1>4. OneAwaited' /\ \A x \in queues' : x = lane'
  BY <1>1 DEF history, OneAwaited, AtMostOne, PressGate, queue
<1>5. ScreenInv' /\ VerdictInv' /\ ToldInv'
  BY <1>1 DEF history, ScreenInv, ToldInv, VerdictInv, PressGate, state, server
<1>6. PICK l \in panel.log :
        /\ l.offers = IF does = "execute" THEN "approved" ELSE "pending"
        /\ gates' = gates \cup {[rec |-> l.rec, does |-> does, for |-> panel.bound_to,
                                 behind |-> "log" \in behind, n |-> n_gates]}
  BY DEF PressGate
<1>7. /\ l.rec \in DOMAIN log /\ panel # Nothing
      /\ "log" \notin behind => log[l.rec].status = l.offers /\ ~log[l.rec].executed
      /\ UNCHANGED <<state, panel, loads, log, behind>>
  BY DEF PressGate, ConsoleTypeOK, PanelInv, server, history
<1>8. PanelInv'
  <2>1. \A g \in gates' : /\ g.for = detail.case /\ g.rec \in DOMAIN log
                          /\ g.does = does
    BY <1>1, <1>6, <1>7 DEF PanelInv
  <2>2. does \in {"approved", "rejected", "execute"}
    OBVIOUS
  <2>3. detail # Nothing
    BY <1>7 DEF PanelInv
  <2>4. PanelInv
    OBVIOUS
  <2>5. detail' = detail
    BY <1>7 DEF state
  <2>6. /\ \A l1 \in loads' : l1.attached /\ detail' # Nothing /\ l1.case = detail'.case
        /\ loads' # {} => panel' = Nothing
    BY <1>1, <1>7
  <2>7. \A g \in gates' : /\ detail' # Nothing /\ g.for = detail'.case
                          /\ g.rec \in DOMAIN log'
                          /\ g.does \in {"approved", "rejected", "execute"}
    BY <1>7, <2>1, <2>2, <2>3, <2>5
  <2>8. panel' # Nothing =>
          /\ detail' # Nothing
          /\ panel'.evidence_of = detail'.case /\ panel'.bound_to = detail'.case
          /\ "log" \notin behind' =>
               \A k \in panel'.log : log'[k.rec].status = k.offers /\ ~log'[k.rec].executed
    BY <1>7, <2>4, <2>5 DEF PanelInv
  <2> QED
    BY <2>6, <2>7, <2>8 DEF PanelInv
<1>9. PanelIsOfTheCaseShown'
  BY <1>7 DEF PanelIsOfTheCaseShown, state
<1>10. LogIsAsShown'
  <2>1. ASSUME NEW g \in gates'
        PROVE  /\ g.rec = l.rec /\ g.does = does
               /\ g.behind = ("log" \in behind)
    <3>1. g = [rec |-> l.rec, does |-> does, for |-> panel.bound_to,
               behind |-> "log" \in behind, n |-> n_gates]
      BY <1>1, <1>6
    <3>2. g.behind = ("log" \in behind)
      BY <3>1, Zenon
    <3> QED
      BY <3>1, <3>2
  <2>2. ASSUME "log" \notin behind
        PROVE  IF does = "execute"
               THEN log[l.rec].status = "approved" /\ ~log[l.rec].executed
               ELSE log[l.rec].status = "pending"
    BY <1>6, <1>7, <2>2
  <2> QED
    BY <1>7, <2>1, <2>2 DEF LogIsAsShown
<1> QED
  BY <1>2, <1>3, <1>4, <1>5, <1>8, <1>9, <1>10

LEMMA ReviewGateAnswered ==
  ASSUME Patient, ReviewInv, GateAnswered
  PROVE  ReviewInv'
<1> USE DEF ReviewInv, ActsOnWhatIsShown
<1>1. PICK g \in gates :
        /\ log' = [log EXCEPT ![g.rec] = Decided(@, g.does)]
        /\ panel' = Nothing /\ behind' = behind \ {"log"}
        /\ UNCHANGED <<state, queue, details, posts, answers, disposed, told>>
  BY DEF LoadInvestigation, GateAnswered, PanelInv
<1>2. /\ g.rec \in DOMAIN log /\ g.does \in {"approved", "rejected", "execute"}
      /\ log \in Seq(LogRecord) /\ log[g.rec] \in LogRecord
      /\ \A k \in DOMAIN log : log[k].executed => log[k].status = "approved"
  BY LogTyped DEF LoadInvestigation, PanelInv, ConsoleTypeOK
<1>3. /\ Decided(log[g.rec], g.does) \in LogRecord
      /\ Decided(log[g.rec], g.does).executed
           => Decided(log[g.rec], g.does).status = "approved"
  BY <1>2 DEF LoadInvestigation, Decided, LogRecord
<1>4. log' \in Seq(LogRecord) /\ \A k \in DOMAIN log' : log'[k].executed
                                                => log'[k].status = "approved"
  BY <1>1, <1>2, <1>3
<1>5. ConsoleTypeOK'
  BY <1>1, <1>4 DEF LoadInvestigation, ConsoleTypeOK, LogRecord, state, queue
<1>6. VerdictIsAboutTheCaseShownUnlessLost' /\ DropsAreMembers'
        /\ RecommendationCitesItsCase' /\ QueueIsOfItsLane'
  BY DEF LoadInvestigation, VerdictIsAboutTheCaseShownUnlessLost,
     DropsAreMembers, RecommendationCitesItsCase, QueueIsOfItsLane, Pending,
     GateAnswered, Decided, queue
<1>7. OneAwaited' /\ \A x \in queues' : x = lane'
  BY DEF LoadInvestigation, OneAwaited, AtMostOne, GateAnswered, queue
<1>8. ScreenInv' /\ VerdictInv' /\ ToldInv'
  BY DEF LoadInvestigation, ScreenInv, ToldInv, VerdictInv, Live, GateAnswered,
     state
<1>9. PanelInv' /\ PanelIsOfTheCaseShown' /\ LogIsAsShown'
  BY DEF LoadInvestigation, PanelInv, PanelIsOfTheCaseShown, LogIsAsShown,
     OneAwaited, AtMostOne, GateAnswered, state
<1> QED
  BY <1>5, <1>6, <1>7, <1>8, <1>9

LEMMA ReviewGateLost ==
  ASSUME Patient, ReviewInv, GateLost
  PROVE  ReviewInv'
<1> USE DEF ReviewInv, ActsOnWhatIsShown
<1>1. PICK g \in gates :
        /\ gates' = gates \ {g}
        /\ log' \in {log, [log EXCEPT ![g.rec] = Decided(@, g.does)]}
        /\ behind' = IF panel # Nothing THEN behind \cup {"log"} ELSE behind
        /\ UNCHANGED <<state, queue, panel, details, loads, posts, answers, disposed, told,
                       clicks>>
  BY DEF GateLost
<1>2. /\ g.rec \in DOMAIN log /\ g.does \in {"approved", "rejected", "execute"}
      /\ log \in Seq(LogRecord) /\ log[g.rec] \in LogRecord
      /\ \A k \in DOMAIN log : log[k].executed => log[k].status = "approved"
      /\ gates = {g} /\ queues = {} /\ loads = {}
  BY LogTyped DEF PanelInv, ConsoleTypeOK, OneAwaited, AtMostOne
<1>3. /\ Decided(log[g.rec], g.does) \in LogRecord
      /\ Decided(log[g.rec], g.does).executed
           => Decided(log[g.rec], g.does).status = "approved"
      /\ Decided(log[g.rec], g.does).case = log[g.rec].case
      /\ Decided(log[g.rec], g.does).evidence_of = log[g.rec].evidence_of
  BY <1>2 DEF Decided, LogRecord
<1>4. /\ log' \in Seq(LogRecord) /\ DOMAIN log' = DOMAIN log
      /\ \A k \in DOMAIN log' : log'[k].executed => log'[k].status = "approved"
  BY <1>1, <1>2, <1>3
<1>5. ConsoleTypeOK'
  BY <1>1, <1>4 DEF ConsoleTypeOK, LogRecord, state, queue
<1>6. RecommendationCitesItsCase'
  BY <1>1, <1>2, <1>3 DEF RecommendationCitesItsCase
<1>7. VerdictIsAboutTheCaseShownUnlessLost' /\ DropsAreMembers' /\ QueueIsOfItsLane'
  BY <1>1 DEF VerdictIsAboutTheCaseShownUnlessLost, DropsAreMembers, QueueIsOfItsLane,
     Pending, queue
<1>8. OneAwaited' /\ \A x \in queues' : x = lane'
  BY <1>1 DEF OneAwaited, AtMostOne, queue
<1>9. ScreenInv' /\ VerdictInv' /\ ToldInv'
  BY <1>1 DEF ScreenInv, ToldInv, VerdictInv, Live, state
<1>10. PanelInv' /\ PanelIsOfTheCaseShown' /\ LogIsAsShown'
  BY <1>1, <1>2 DEF PanelInv, PanelIsOfTheCaseShown, LogIsAsShown, state
<1> QED
  BY <1>5, <1>6, <1>7, <1>8, <1>9, <1>10

LEMMA ReviewPressLane ==
  ASSUME Patient, ReviewInv, NEW l \in Lanes \cup {Nothing}, PressLane(l)
  PROVE  ReviewInv'
<1> USE DEF ReviewInv, ActsOnWhatIsShown
<1>1. /\ details = {} /\ loads = {} /\ posts = {}
      /\ answers = {} /\ gates = {} /\ queues = {}
  BY DEF PressLane, Free
<1>2. ConsoleTypeOK'
  BY DEF history, ConsoleTypeOK, PressLane, state, server
<1>3. VerdictIsAboutTheCaseShownUnlessLost' /\ DropsAreMembers'
        /\ RecommendationCitesItsCase' /\ QueueIsOfItsLane'
  BY DEF history, VerdictIsAboutTheCaseShownUnlessLost, DropsAreMembers,
     RecommendationCitesItsCase, QueueIsOfItsLane, Pending, PressLane, server
<1>4. OneAwaited' /\ \A x \in queues' : x = lane'
  BY <1>1 DEF history, OneAwaited, AtMostOne, PressLane
<1>5. ScreenInv' /\ VerdictInv' /\ ToldInv'
  BY <1>1 DEF history, ScreenInv, ToldInv, VerdictInv, PressLane, state, server
<1>6. PanelInv' /\ PanelIsOfTheCaseShown' /\ LogIsAsShown'
  BY DEF history, PanelInv, PanelIsOfTheCaseShown, LogIsAsShown, PressLane,
     state, server
<1> QED
  BY <1>2, <1>3, <1>4, <1>5, <1>6

LEMMA ReviewQueueArrives ==
  ASSUME Patient, ReviewInv, QueueArrives
  PROVE  ReviewInv'
<1> USE DEF ReviewInv, ActsOnWhatIsShown
<1>1. ConsoleTypeOK'
  BY DEF history, ConsoleTypeOK, QueueArrives, Pending, state, server
<1>2. VerdictIsAboutTheCaseShownUnlessLost' /\ DropsAreMembers'
        /\ RecommendationCitesItsCase' /\ QueueIsOfItsLane'
  BY DEF history, VerdictIsAboutTheCaseShownUnlessLost, DropsAreMembers,
     RecommendationCitesItsCase, QueueIsOfItsLane, Pending, QueueArrives, state,
     server
<1>3. OneAwaited' /\ \A x \in queues' : x = lane'
  BY DEF history, OneAwaited, AtMostOne, QueueArrives
<1>4. ScreenInv' /\ VerdictInv' /\ ToldInv'
  BY DEF history, ScreenInv, ToldInv, VerdictInv, Live, QueueArrives, state,
     server
<1>5. PanelInv' /\ PanelIsOfTheCaseShown' /\ LogIsAsShown'
  BY DEF history, PanelInv, PanelIsOfTheCaseShown, LogIsAsShown, QueueArrives,
     state, server
<1> QED
  BY <1>1, <1>2, <1>3, <1>4, <1>5

LEMMA ReviewQueueLost ==
  ASSUME Patient, ReviewInv, QueueLost
  PROVE  ReviewInv'
<1> USE DEF ReviewInv, ActsOnWhatIsShown
<1>1. ConsoleTypeOK'
  BY DEF history, ConsoleTypeOK, QueueLost, state, server
<1>2. VerdictIsAboutTheCaseShownUnlessLost' /\ DropsAreMembers'
        /\ RecommendationCitesItsCase' /\ QueueIsOfItsLane'
  BY DEF history, VerdictIsAboutTheCaseShownUnlessLost, DropsAreMembers,
     RecommendationCitesItsCase, QueueIsOfItsLane, Pending, QueueLost, state,
     server
<1>3. OneAwaited' /\ \A x \in queues' : x = lane'
  BY DEF history, OneAwaited, AtMostOne, QueueLost
<1>4. ScreenInv' /\ VerdictInv' /\ ToldInv'
  BY DEF history, ScreenInv, ToldInv, VerdictInv, Live, QueueLost, state, server
<1>5. PanelInv' /\ PanelIsOfTheCaseShown' /\ LogIsAsShown'
  BY DEF history, PanelInv, PanelIsOfTheCaseShown, LogIsAsShown, QueueLost,
     state, server
<1> QED
  BY <1>1, <1>2, <1>3, <1>4, <1>5

LEMMA ReviewInit == ConsoleInit => ReviewInv
<1> SUFFICES ASSUME ConsoleInit PROVE ReviewInv
  OBVIOUS
<1>1. ActsOnWhatIsShown
  BY EmptyDomain
     DEF ConsoleInit, ActsOnWhatIsShown, ConsoleTypeOK, VerdictIsAboutTheCaseShownUnlessLost,
         DropsAreMembers, RecommendationCitesItsCase, PanelIsOfTheCaseShown,
         LogIsAsShown, QueueIsOfItsLane
<1>2. OneAwaited /\ ScreenInv /\ ToldInv /\ VerdictInv /\ PanelInv
  BY EmptyDomain DEF ConsoleInit, OneAwaited, AtMostOne, ScreenInv, ToldInv,
     VerdictInv, PanelInv
<1> QED
  BY <1>1, <1>2 DEF ReviewInv, ConsoleInit

LEMMA ReviewNext == Patient /\ ReviewInv /\ [ConsoleStep]_console => ReviewInv'
<1> SUFFICES ASSUME Patient, ReviewInv, [ConsoleStep]_console PROVE ReviewInv'
  OBVIOUS
<1>1. CASE DetailArrives \/ HandleVerdict \/ VerdictAnswered \/ PressLoad
  BY <1>1, ReviewDetailArrives, ReviewHandleVerdict, ReviewVerdictAnswered,
     ReviewPressLoad
<1>2. CASE InvestigationArrives \/ Recommend \/ GateAnswered \/ QueueArrives
  BY <1>2, ReviewInvestigationArrives, ReviewRecommend, ReviewGateAnswered,
     ReviewQueueArrives
<1>3. CASE \/ DetailLost \/ VerdictLost \/ InvestigationLost
           \/ RecommendLost \/ GateLost \/ QueueLost
  BY <1>3, ReviewDetailLost, ReviewVerdictLost, ReviewInvestigationLost,
     ReviewRecommendLost, ReviewGateLost, ReviewQueueLost
<1>4. ASSUME NEW id \in Cases, SelectCase(id) PROVE ReviewInv'
  BY <1>4, ReviewSelectCase
<1>5. ASSUME NEW k \in AccountKeys, ToggleDrop(k) PROVE ReviewInv'
  BY <1>5, ReviewToggleDrop
<1>6. ASSUME NEW v \in {ConfirmVerdict, "not_a_ring", "insufficient_evidence"},
             PressVerdict(v)
      PROVE  ReviewInv'
  BY <1>6, ReviewPressVerdict
<1>7. ASSUME NEW does \in {"approved", "rejected", "execute"}, PressGate(does)
      PROVE  ReviewInv'
  BY <1>7, ReviewPressGate
<1>8. ASSUME NEW l \in Lanes \cup {Nothing}, PressLane(l) PROVE ReviewInv'
  BY <1>8, ReviewPressLane
<1>9. CASE UNCHANGED console
  BY <1>9
     DEF console, state, queue, server, history, clicks, ReviewInv, ActsOnWhatIsShown,
         ConsoleTypeOK, VerdictIsAboutTheCaseShownUnlessLost, DropsAreMembers,
         RecommendationCitesItsCase, PanelIsOfTheCaseShown, LogIsAsShown,
         QueueIsOfItsLane, Pending, OneAwaited, AtMostOne, ScreenInv, ToldInv,
         VerdictInv, Live, PanelInv
<1> QED
  BY <1>1, <1>2, <1>3, <1>4, <1>5, <1>6, <1>7, <1>8, <1>9 DEF ConsoleStep

\* An analyst who waits for every answer acts on what is on the screen, however
\* many requests fail: each verdict was given with its case shown and drops
\* members of that case unless it was given on the page that a failed request
\* for a case left behind, each recommendation cites its own case, the panel and
\* the queue belong to what is around them, and the log is pressed as it stands
\* unless an earlier press on it went unanswered (app.js, selectCase, dispose,
\* loadInvestigation and the handlers that call them).
THEOREM PatientReview ==
  ASSUME Patient PROVE ConsoleSpec => []ActsOnWhatIsShown
<1>1. ReviewInv => ActsOnWhatIsShown
  BY DEF ReviewInv
<1>2. ReviewInv /\ [ConsoleStep]_console => ReviewInv'
  BY ReviewNext
<1> QED
  BY <1>1, <1>2, ReviewInit, PTL DEF ConsoleSpec

\* Only a verdict that reaches the server changes one, and unless it was pressed
\* on a page left behind it is about a case whose buttons were live, so one the
\* page had not been told of.
LEMMA OneVerdict ==
  ASSUME ReviewInv, [ConsoleStep]_console, NEW c \in told
  PROVE  disposed'[c] = disposed[c] \/ disposed'[c].behind
<1> USE DEF ReviewInv
<1>1. CASE HandleVerdict \/ VerdictLost
  <2>1. PICK p \in posts : disposed' = Recorded(p) \/ disposed' = disposed
    BY <1>1 DEF HandleVerdict, VerdictLost
  <2>2. c \in DOMAIN disposed
    BY DEF ToldInv
  <2>3. p.id = c => p.behind
    <3> SUFFICES ASSUME p.id = c, ~p.behind PROVE FALSE
      OBVIOUS
    <3>1. detail # Nothing /\ ~detail.disposed /\ detail.case = c
      BY DEF VerdictInv, Live
    <3> QED
      BY <3>1 DEF ToldInv
  <2> QED
    BY <2>1, <2>2, <2>3 DEF Recorded
<1>2. CASE ~HandleVerdict /\ ~VerdictLost
  BY <1>2
     DEF ConsoleStep, SelectCase, DetailArrives, DetailLost, ToggleDrop, PressVerdict,
         VerdictAnswered, PressLoad, InvestigationArrives, InvestigationLost,
         Recommend, RecommendLost, PressGate, GateAnswered, GateLost, PressLane,
         QueueArrives, QueueLost, console, server
<1> QED
  BY <1>1, <1>2

\* For an analyst who waits, a verdict the page was told of is final: no case is
\* decided again after it, which the page sees to by disabling the buttons of a
\* disposed case (app.js:190-194), as the server does not; except from a page
\* that a failed request left behind.  A retry after an error may replace a
\* verdict the server kept in memory, which nobody was told of.
THEOREM VerdictsAreFinal ==
  ASSUME Patient PROVE ConsoleSpec => DecidedOnce
<1>1. ReviewInv /\ [ConsoleStep]_console => ReviewInv'
  BY ReviewNext
<1>2. ReviewInv /\ [ConsoleStep]_console =>
        [\A c \in told : disposed'[c] = disposed[c] \/ disposed'[c].behind]_disposed
  BY OneVerdict
<1> QED
  BY <1>1, <1>2, ReviewInit, PTL DEF ConsoleSpec, DecidedOnce
=============================================================================
