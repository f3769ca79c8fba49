----------------------------- MODULE CaseStore -----------------------------
(***************************************************************************)
(* The case store (src/sentinel/cases/store.py) as its two processes use   *)
(* it: scripts/build_queue.py opens cases into an empty store object, the  *)
(* console's server (src/sentinel/api/app.py) loads the two files once,    *)
(* when it starts, and records verdicts.  They share only the directory.   *)
(*                                                                         *)
(* The server's handlers do not await, so each is one action; a write may  *)
(* fail, be cut short, or be the last thing the process does (Faults, as   *)
(* in Recommendations).                                                    *)
(*                                                                         *)
(* Abstracted: Snapshots stands for everything CaseManager.open_case       *)
(* freezes; of a disposition what matters here is the verdict and the two  *)
(* member lists.  Its field `of' is a history field, the record the        *)
(* analyst judged; no line of the files holds it.  The timeline of a case  *)
(* is left out.                                                            *)
(***************************************************************************)
EXTENDS Integers, Sequences, FiniteSets

CONSTANTS
  Snapshots,        \* alert-time records a candidate can be frozen into
  Ring,             \* those of them that cover a ring of the ground truth
  Accounts,         \* their members
  Bodies,           \* verdict requests: <<verdict, dropped members>>
  None,             \* no record
  Faults,           \* \subseteq {"fail", "torn", "crash"}
  MaxCases,         \* bound on the cases of one build
  MaxBuilds,        \* bound on runs of build_queue
  MaxVerdicts       \* bound on verdict calls

ASSUME CaseStoreAssumption ==
  /\ Ring \subseteq Snapshots
  /\ None \notin Snapshots
  /\ Accounts # {}
  /\ Faults \subseteq {"fail", "torn", "crash"}
  /\ MaxCases \in Nat /\ MaxBuilds \in Nat /\ MaxVerdicts \in Nat

Positive == {"confirmed_ring", "confirmed_partial"}
Verdict == Positive \cup {"pending", "not_a_ring"}

ASSUME BodiesAssumption == Bodies \subseteq Verdict \X SUBSET Accounts

VARIABLES
  cases_file,       \* cases.jsonl
  events_file,      \* events.jsonl
  up, cases,        \* the server: running, CaseStore._cases
  building,         \* whether build_queue runs
  built, counter,   \* its CaseStore._cases and ._counter
  n_builds, n_verdicts,
  may_stand         \* history: per id, the dispositions a reader may be shown

builder == <<building, built, counter, n_builds>>
vars == <<cases_file, events_file, up, cases, building, built, counter,
          n_builds, n_verdicts, may_stand>>

-----------------------------------------------------------------------------
(* Records                                                                 *)

Disposition == [verdict : Verdict, confirmed : SUBSET Accounts,
                dropped : SUBSET Accounts, of : Snapshots \cup {None}]

NoDisposition == [verdict |-> "pending", confirmed |-> {}, dropped |-> {},
                  of |-> None]

\* A case object: truth_rings as a flag.
NewCase(s, truth) ==
  [snapshot |-> s, truth |-> truth, disposition |-> NoDisposition]

Torn == [kind |-> "torn"]
Garbled == [kind |-> "garbled"]

TornTail(file) == Len(file) > 0 /\ file[Len(file)] = Torn

\* Appending a line to a file, whole or cut short.
Appended(file, row) ==
  IF TornTail(file) THEN [file EXCEPT ![Len(file)] = Garbled]
  ELSE Append(file, row)
CutShort(file) == IF TornTail(file) THEN file ELSE Append(file, Torn)

Put(f, k, v) == [x \in DOMAIN f \cup {k} |-> IF x = k THEN v ELSE f[x]]

-----------------------------------------------------------------------------
(* load()                                                                  *)

IsRow(file, k) == k \in 1..Len(file) /\ file[k].kind = "row"
Readable(file) == \A k \in 1..Len(file) : IsRow(file, k)
RowsOf(file, id) == {k \in 1..Len(file) : IsRow(file, k) /\ file[k].id = id}

First(S) == CHOOSE k \in S : \A j \in S : k <= j
Last(S) == CHOOSE k \in S : \A j \in S : j <= k

FiledIds == {cases_file[k].id : k \in {j \in 1..Len(cases_file) :
                                         IsRow(cases_file, j)}}

\* mutant: the first event of a case wins
FiledFirstDisposition(id) ==
  LET rows == RowsOf(events_file, id)
  IN IF rows = {} THEN NoDisposition ELSE events_file[First(rows)].disposition

\* Events are replayed in order, so the last one of a case wins.
FiledDisposition(id) ==
  LET rows == RowsOf(events_file, id)
  IN IF rows = {} THEN NoDisposition ELSE events_file[Last(rows)].disposition

\* A later line of the same id replaces the case, and the disposition is
\* replayed onto it.
Loaded ==
  [id \in FiledIds |->
     [NewCase(cases_file[Last(RowsOf(cases_file, id))].snapshot,
              cases_file[Last(RowsOf(cases_file, id))].truth)
        EXCEPT !.disposition = FiledDisposition(id)]]

-----------------------------------------------------------------------------
Init ==
  /\ cases_file = <<>>
  /\ events_file = <<>>
  /\ up = FALSE
  /\ cases = <<>>
  /\ building = FALSE
  /\ built = <<>>
  /\ counter = 0
  /\ n_builds = 0
  /\ n_verdicts = 0
  /\ may_stand = [id \in 1..MaxCases |-> {NoDisposition}]

\* build_queue starts from a store object it does not load.
BuildStart ==
  /\ ~building
  /\ n_builds < MaxBuilds
  /\ building' = TRUE
  /\ built' = <<>>
  /\ counter' = 0
  /\ n_builds' = n_builds + 1
  /\ UNCHANGED <<cases_file, events_file, up, cases, n_verdicts, may_stand>>

\* mutant: the id is read before the counter moves
NextIdStale(n) == IF n = 0 THEN 1 ELSE n

NextId(n) == n + 1

\* open_case: next_id, open (into memory, then the file), and after that the
\* script attaches the ground truth to the object.  A write that fails ends
\* the script, as its process dying does.
BuildCase(s) ==
  /\ building
  /\ counter < MaxCases
  /\ LET id == NextId(counter)
         row == [kind |-> "row", id |-> id, snapshot |-> s, truth |-> FALSE]
     IN \/ /\ cases_file' = Appended(cases_file, row)
           /\ built' = Put(built, id, NewCase(s, s \in Ring))
           /\ counter' = counter + 1
           /\ UNCHANGED building
        \/ /\ Faults # {}
           /\ cases_file' \in {cases_file, Appended(cases_file, row)}
                \cup (IF "torn" \in Faults THEN {CutShort(cases_file)} ELSE {})
           /\ building' = FALSE
           /\ built' = <<>>
           /\ counter' = 0
  /\ UNCHANGED <<events_file, up, cases, n_builds, n_verdicts, may_stand>>

\* The last cycle is done and the totals are printed.
BuildEnd ==
  /\ building
  /\ building' = FALSE
  /\ UNCHANGED <<cases_file, events_file, up, cases, built, counter, n_builds,
                 n_verdicts, may_stand>>

-----------------------------------------------------------------------------
\* Import of api/app.py: CaseStore(CASES).load()
Start ==
  /\ ~up
  /\ Readable(cases_file) /\ Readable(events_file)
  /\ up' = TRUE
  /\ cases' = Loaded
  /\ UNCHANGED <<cases_file, events_file, builder, n_verdicts, may_stand>>

Stop ==
  /\ "crash" \in Faults
  /\ up
  /\ up' = FALSE
  /\ cases' = <<>>
  /\ UNCHANGED <<cases_file, events_file, builder, n_verdicts, may_stand>>

Kept(dropped) == Accounts \ dropped

EventOf(id, d) == [kind |-> "row", id |-> id, disposition |-> d]

\* POST /api/case/{id}/verdict: the disposition replaces whatever stood, and
\* its event is appended last.
Dispose(id, verdict, dropped) ==
  /\ up
  /\ id \in DOMAIN cases
  /\ n_verdicts < MaxVerdicts
  /\ n_verdicts' = n_verdicts + 1
  /\ LET d == [verdict |-> verdict,
               confirmed |-> IF verdict \in Positive THEN Kept(dropped) ELSE {},
               dropped |-> dropped, of |-> cases[id].snapshot]
         mem == [cases EXCEPT ![id].disposition = d]
         row == EventOf(id, d)
     IN \/ /\ events_file' = Appended(events_file, row)
           /\ cases' = mem
           /\ may_stand' = [may_stand EXCEPT ![id] = {d}]
           /\ UNCHANGED up
        \/ /\ \/ "fail" \in Faults /\ UNCHANGED events_file
              \/ "torn" \in Faults /\ events_file' = CutShort(events_file)
           /\ cases' = mem
           /\ may_stand' = [may_stand EXCEPT ![id] = @ \cup {d}]
           /\ UNCHANGED up
        \/ /\ "crash" \in Faults
           /\ events_file' \in {events_file, Appended(events_file, row)}
                \cup (IF "torn" \in Faults THEN {CutShort(events_file)} ELSE {})
           /\ up' = FALSE
           /\ cases' = <<>>
           /\ may_stand' = [may_stand EXCEPT ![id] = @ \cup {d}]
  /\ UNCHANGED <<cases_file, builder>>

Next ==
  \/ BuildStart
  \/ \E s \in Snapshots : BuildCase(s)
  \/ BuildEnd
  \/ Start
  \/ Stop
  \/ \E id \in 1..MaxCases, body \in Bodies : Dispose(id, body[1], body[2])

Spec == Init /\ [][Next]_vars

-----------------------------------------------------------------------------
(* Type invariant                                                          *)

Case == [snapshot : Snapshots, truth : BOOLEAN, disposition : Disposition]

\* A disposition splits the members: nobody is confirmed and dropped.
TypeOK ==
  /\ up \in BOOLEAN /\ building \in BOOLEAN
  /\ DOMAIN cases \subseteq FiledIds
  /\ \A id \in DOMAIN cases :
       /\ cases[id] \in Case
       /\ cases[id].disposition.confirmed \cap cases[id].disposition.dropped = {}
  /\ counter \in 0..MaxCases
  /\ DOMAIN built = 1..counter
  /\ \A id \in DOMAIN built : built[id] \in Case

-----------------------------------------------------------------------------
(* Safety                                                                  *)

\* What the server shows for a case is the last verdict it answered 200 for,
\* or a later one whose answer the analyst is still missing; crashes, failed
\* writes and replays never bring an older verdict back.
AnsweredVerdictStands ==
  /\ TypeOK
  /\ up => \A id \in DOMAIN cases : cases[id].disposition \in may_stand[id]

\* A label is about the alert it sits on: the disposition a case carries was
\* given while this very record was on the screen, so training_rows pairs the
\* features with their own label (store.py:137-156, case.py:3-8).
LabelBelongsToItsAlert ==
  \A id \in DOMAIN cases :
    cases[id].disposition.of \in {None, cases[id].snapshot}

-----------------------------------------------------------------------------
(* The inductive invariant.                                                *)

\* A disposition that splits the members.
Split == {d \in Disposition : d.confirmed \cap d.dropped = {}}

CaseRow == [kind : {"row"}, id : 1..MaxCases, snapshot : Snapshots,
            truth : BOOLEAN]
EventRow == [kind : {"row"}, id : 1..MaxCases, disposition : Split]

FilesTyped ==
  /\ cases_file \in Seq(CaseRow \cup {Torn, Garbled})
  /\ events_file \in Seq(EventRow \cup {Torn, Garbled})
  /\ may_stand \in [1..MaxCases -> SUBSET Split]
  /\ n_builds \in Nat

\* Whenever the log can be loaded at all, the replay of every case ends in a
\* disposition that may be shown, whether or not a server is up to show it.
ReplayStands ==
  Readable(events_file) =>
    \A id \in 1..MaxCases : FiledDisposition(id) \in may_stand[id]

DownIsEmpty == ~up => cases = <<>>

StoreInv == FilesTyped /\ AnsweredVerdictStands /\ ReplayStands /\ DownIsEmpty

\* Until a second run of build_queue an id names one line of cases.jsonl, ...
OneRowEach ==
  \A j, k \in 1..Len(cases_file) :
    IsRow(cases_file, j) /\ IsRow(cases_file, k)
      /\ cases_file[j].id = cases_file[k].id => j = k

\* ... the builder has used no id beyond its counter, ...
BuilderAhead ==
  /\ n_builds = 0 => cases_file = <<>> /\ ~building
  /\ building => \A k \in 1..Len(cases_file) :
                   IsRow(cases_file, k) => cases_file[k].id <= counter

OnFile(file, id, s) ==
  \E k \in 1..Len(file) :
    IsRow(file, k) /\ file[k].id = id /\ file[k].snapshot = s

\* ... and events and the server's cases are about the record on that line.
AboutTheRecord ==
  /\ \A k \in 1..Len(events_file) :
       IsRow(events_file, k) =>
         OnFile(cases_file, events_file[k].id, events_file[k].disposition.of)
  /\ \A id \in DOMAIN cases : OnFile(cases_file, id, cases[id].snapshot)

LabelInv ==
  n_builds <= 1 => /\ OneRowEach /\ BuilderAhead /\ AboutTheRecord
                   /\ LabelBelongsToItsAlert

-----------------------------------------------------------------------------
(* Refinement: the two files, read as load() reads them, are the ledger.   *)

Filed == [id \in FiledIds |-> [snapshot |-> Loaded[id].snapshot,
                               disposition |-> Loaded[id].disposition]]

Ledger == INSTANCE CaseLedger WITH ledger <- Filed
ImplementsCaseLedger == Ledger!Spec
=============================================================================
