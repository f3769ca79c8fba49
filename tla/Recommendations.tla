-------------------------- MODULE Recommendations --------------------------
(***************************************************************************)
(* Escalation recommendations: the append-only log                         *)
(* (src/sentinel/cases/recommendation_store.py), the human gate            *)
(* (src/sentinel/escalation.py) and the three handlers that use them       *)
(* (src/sentinel/api/app.py:377-431).                                      *)
(*                                                                         *)
(* The handlers are coroutines without an await, so each runs to its end   *)
(* before another starts: one action per handler.  What can come between   *)
(* its steps is a failure.  Every handler changes memory first and appends *)
(* its row last; that append may                                           *)
(*   fail   raise with nothing written: a 500, memory keeps the change;    *)
(*   torn   raise with part of the line written;                           *)
(* and the process may die (crash) between handlers or after the append.   *)
(* Faults says which of these the instance has.                            *)
(*                                                                         *)
(* Abstracted: Contents is case, action, evidence, rationale and time of a *)
(* recommendation, written once; times are the values of one clock.        *)
(***************************************************************************)
EXTENDS Integers, Sequences, FiniteSets

CONSTANTS
  Contents,     \* well-formed recommendation bodies
  Refused,      \* bodies without evidence, rationale or a known action
  People,       \* names an approver may sign with
  Faults,       \* \subseteq {"fail", "torn", "crash"}
  MaxRecs,      \* bound on the counter
  MaxClock      \* bound on the number of calls that write

ASSUME RecommendationsAssumption ==
  /\ Contents \cap Refused = {}
  /\ "" \notin People
  /\ Faults \subseteq {"fail", "torn", "crash"}
  /\ MaxRecs \in Nat
  /\ MaxClock \in Nat

VARIABLES
  up,           \* whether the server process runs
  by_id,        \* RecommendationStore._by_id
  counter,      \* RecommendationStore._counter
  log,          \* recommendations.jsonl, line by line
  clock,        \* wall clock
  viewed,       \* per person, the recommendation last read from the API
  acked,        \* history: the records a 200 answer was given for
  lost          \* history: whether a server that lives on has lost an append

vars == <<up, by_id, counter, log, clock, viewed, acked, lost>>

-----------------------------------------------------------------------------
(* Records and lines                                                       *)

Status == {"pending", "approved", "rejected"}

Recommendation ==
  [content : Contents, status : Status, decided_by : People \cup {""},
   decided_at : Nat, executed : BOOLEAN, executed_at : Nat]

NewRecommendation(c) ==
  [content |-> c, status |-> "pending", decided_by |-> "", decided_at |-> 0,
   executed |-> FALSE, executed_at |-> 0]

Event == {"recommend", "decide", "execute"}
Row == [kind : {"row"}, event : Event, id : 1..MaxRecs, rec : Recommendation]

\* A line cut short ends the file without a newline; the next append lands on
\* the same line and makes it unreadable for good.
Torn == [kind |-> "torn"]
Garbled == [kind |-> "garbled"]
Line == Row \cup {Torn, Garbled}

TornTail == Len(log) > 0 /\ log[Len(log)] = Torn

Appended(row) ==
  IF TornTail THEN [log EXCEPT ![Len(log)] = Garbled] ELSE Append(log, row)

CutShort == IF TornTail THEN log ELSE Append(log, Torn)

\* dict item assignment
Put(f, k, v) == [x \in DOMAIN f \cup {k} |-> IF x = k THEN v ELSE f[x]]

-----------------------------------------------------------------------------
(* load(): replay every event in order                                     *)

IsRow(k) == k \in 1..Len(log) /\ log[k].kind = "row"

\* json.loads raises on any line that is not one record.
Readable == \A k \in 1..Len(log) : IsRow(k)

LoggedIds == {log[k].id : k \in {j \in 1..Len(log) : IsRow(j)}}

IsLastOf(k, id) ==
  /\ IsRow(k)
  /\ log[k].id = id
  /\ \A j \in k + 1..Len(log) : IsRow(j) => log[j].id # id

IsFirstOf(k, id) ==
  /\ IsRow(k)
  /\ log[k].id = id
  /\ \A j \in 1..k - 1 : IsRow(j) => log[j].id # id

\* mutant: a row never replaces an earlier one of its id
ReplayedFirst ==
  [id \in LoggedIds |-> log[CHOOSE k \in 1..Len(log) : IsFirstOf(k, id)].rec]

\* Later rows replace earlier ones.
Replayed ==
  [id \in LoggedIds |-> log[CHOOSE k \in 1..Len(log) : IsLastOf(k, id)].rec]

\* mutant: numbering starts again
CounterReset(n) == n = 0

\* The counter resumes from the highest id read.
CounterLoaded(n) ==
  /\ n \in LoggedIds \cup {0}
  /\ \A id \in LoggedIds : id <= n

-----------------------------------------------------------------------------
Init ==
  /\ up = TRUE
  /\ by_id = <<>>
  /\ counter = 0
  /\ log = <<>>
  /\ clock = 1
  /\ viewed = [p \in People |-> <<>>]
  /\ acked = {}
  /\ lost = FALSE

Answer(row) == [id |-> row.id, rec |-> row.rec]

\* _append and what follows: the handler answers only after a whole append.
\* A process that dies here has written the line, a part of it or nothing.
Persist(row) ==
  \/ /\ log' = Appended(row)
     /\ up' = TRUE
     /\ acked' = acked \cup {Answer(row)}
     /\ lost' = lost
  \/ /\ "fail" \in Faults
     /\ up' = TRUE
     /\ lost' = TRUE
     /\ UNCHANGED <<log, acked>>
  \/ /\ "torn" \in Faults
     /\ log' = CutShort
     /\ up' = TRUE
     /\ lost' = TRUE
     /\ UNCHANGED acked
  \/ /\ "crash" \in Faults
     /\ log' \in {log, Appended(row)}
                 \cup (IF "torn" \in Faults THEN {CutShort} ELSE {})
     /\ up' = FALSE
     /\ UNCHANGED <<acked, lost>>

\* Memory after a handler that set it to mem and n, unless the process died.
Kept(mem, n) ==
  /\ by_id' = IF up' THEN mem ELSE <<>>
  /\ counter' = IF up' THEN n ELSE 0

Tick == /\ clock < MaxClock
        /\ clock' = clock + 1

Record(event, id, rec) == [kind |-> "row", event |-> event, id |-> id, rec |-> rec]

\* POST /api/case/{id}/recommend: recommend() refuses some bodies, add() takes
\* the next id, stores and appends.
CaseRecommend(body) ==
  /\ up
  /\ body \notin Refused
  /\ counter < MaxRecs
  /\ Tick
  /\ LET id == counter + 1
         rec == NewRecommendation(body)
     IN /\ Persist(Record("recommend", id, rec))
        /\ Kept(Put(by_id, id, rec), id)
  /\ UNCHANGED viewed

\* mutant: a decision may be taken again
MayDecideAgain(rec, by) == ~rec.executed /\ by # ""

MayDecide(rec, by) == rec.status = "pending" /\ by # ""

\* mutant: the time of a decision is not recorded
DecidedUndated(rec, approved, by) ==
  [rec EXCEPT !.status = IF approved THEN "approved" ELSE "rejected",
              !.decided_by = by]

Decided(rec, approved, by) ==
  [rec EXCEPT !.status = IF approved THEN "approved" ELSE "rejected",
              !.decided_by = by, !.decided_at = clock]

\* POST /api/recommendation/{id}/decide by a person who has the recommendation
\* of that id on the screen.  decide() changes the stored object itself.
RecommendationDecide(id, by, approved) ==
  /\ up
  /\ id \in DOMAIN by_id
  /\ MayDecide(by_id[id], by)
  /\ viewed[by] # <<>> /\ viewed[by].id = id
  /\ Tick
  /\ LET rec == Decided(by_id[id], approved, by)
     IN /\ Persist(Record("decide", id, rec))
        /\ Kept(Put(by_id, id, rec), counter)
  /\ UNCHANGED viewed

\* mutant: only a missing decision stops execution
MayExecuteDecided(rec) == rec.decided_by # ""

MayExecute(rec) == rec.status = "approved" /\ rec.decided_by # ""

\* POST /api/recommendation/{id}/execute; nothing stops a second one.
RecommendationExecute(id) ==
  /\ up
  /\ id \in DOMAIN by_id
  /\ MayExecute(by_id[id])
  /\ Tick
  /\ LET rec == [by_id[id] EXCEPT !.executed = TRUE, !.executed_at = clock]
     IN /\ Persist(Record("execute", id, rec))
        /\ Kept(Put(by_id, id, rec), counter)
  /\ UNCHANGED viewed

\* GET /api/case/{id}/recommendations
View(p, id) ==
  /\ up
  /\ id \in DOMAIN by_id
  /\ viewed' = [viewed EXCEPT ![p] = [id |-> id, content |-> by_id[id].content]]
  /\ UNCHANGED <<up, by_id, counter, log, clock, acked, lost>>

\* The process stops between handlers.
Crash ==
  /\ "crash" \in Faults
  /\ up
  /\ up' = FALSE
  /\ by_id' = <<>>
  /\ counter' = 0
  /\ UNCHANGED <<log, clock, viewed, acked, lost>>

\* Import of api/app.py: RecommendationStore(DATA).load().  A line it cannot
\* read raises, and the server does not come up.
Restart ==
  /\ ~up
  /\ Readable
  /\ up' = TRUE
  /\ by_id' = Replayed
  /\ \E n \in 0..MaxRecs : CounterLoaded(n) /\ counter' = n
  /\ UNCHANGED <<log, clock, viewed, acked, lost>>

Next ==
  \/ \E c \in Contents \cup Refused : CaseRecommend(c)
  \/ \E id \in 1..MaxRecs :
       \/ \E p \in People, approved \in BOOLEAN :
            RecommendationDecide(id, p, approved)
       \/ RecommendationExecute(id)
       \/ \E p \in People : View(p, id)
  \/ Crash
  \/ Restart

Spec == Init /\ [][Next]_vars

-----------------------------------------------------------------------------
(* Type invariant                                                          *)

\* Ids in memory were handed out by the counter.
TypeOK ==
  /\ up \in BOOLEAN
  /\ counter \in 0..MaxRecs
  /\ DOMAIN by_id \subseteq 1..counter
  /\ \A id \in DOMAIN by_id : by_id[id] \in Recommendation
  /\ log \in Seq(Line)
  /\ clock \in Nat \ {0}
  /\ viewed \in [People -> {<<>>} \cup [id : Nat, content : Contents]]
  /\ acked \subseteq [id : Nat, rec : Recommendation]
  /\ lost \in BOOLEAN

-----------------------------------------------------------------------------
(* Safety                                                                  *)

Gated(rec) ==
  rec.executed => /\ rec.status = "approved"
                  /\ rec.decided_by \in People
                  /\ rec.decided_at < rec.executed_at

\* The human gate: whatever failed, crashed or was replayed, no record says
\* executed, in memory or in the log, unless a named person approved it at an
\* earlier time (app.py:408, escalation.py:112-119).
HumanGate ==
  /\ \A id \in DOMAIN by_id : Gated(by_id[id])
  /\ \A k \in 1..Len(log) : IsRow(k) => Gated(log[k].rec)

\* new is old or a later state of the same recommendation: same content, a
\* decision kept with its author and time, an execution never taken back.
Extends(new, old) ==
  /\ new.content = old.content
  /\ old.status # "pending" =>
       /\ new.status = old.status
       /\ new.decided_by = old.decided_by
       /\ new.decided_at = old.decided_at
  /\ old.executed => new.executed

\* The log is an audit trail: the rows of one id tell one story in order, even
\* where an append was lost, the process was restarted from the log and ids
\* were handed out again (recommendation_store.py:1-8, 54-79).
LogTellsOneStory ==
  \A j, k \in 1..Len(log) :
    j < k /\ IsRow(j) /\ IsRow(k) /\ log[j].id = log[k].id
      => Extends(log[k].rec, log[j].rec)

\* A server that is up has forgotten nothing it answered 200 for, in this life
\* or an earlier one; after a torn line it rather does not come up.
AnsweredIsKnown ==
  up => \A a \in acked : /\ a.id \in DOMAIN by_id
                         /\ Extends(by_id[a.id], a.rec)

\* A decision is taken on what its author had on the screen: the id did not
\* come to name another recommendation between the GET and the POST.  It may
\* once a server has lived on after a lost append, since the recommendation
\* shown was then never logged and its id is given out again after a restart.
DecidedOnWhatWasShown ==
  [][\A id \in DOMAIN by_id :
       /\ up' /\ ~lost'
       /\ by_id[id].status = "pending" /\ by_id'[id].status # "pending"
       => viewed[by_id'[id].decided_by] = [id |-> id, content |-> by_id[id].content]
    ]_vars

-----------------------------------------------------------------------------
(* The inductive strengthening.                                            *)

\* A decision has a named author and lies before time now, as does an execution.
Settled(rec, now) ==
  /\ rec.executed_at < now
  /\ rec.status = "pending" => ~rec.executed
  /\ rec.status # "pending" => rec.decided_by \in People /\ rec.decided_at < now
  /\ Gated(rec)

AllSettled ==
  /\ \A id \in DOMAIN by_id : Settled(by_id[id], clock)
  /\ \A k \in 1..Len(log) : IsRow(k) => Settled(log[k].rec, clock)

\* Memory is at least as far on as any row of the log.
MemoryCoversLog ==
  up => \A k \in 1..Len(log) :
          IsRow(k) => /\ log[k].id \in DOMAIN by_id
                      /\ Extends(by_id[log[k].id], log[k].rec)

\* While the log can be replayed, it has a row for every answer given.
AnswersLogged ==
  Readable => \A a \in acked : \E k \in 1..Len(log) :
                 /\ IsRow(k) /\ log[k].id = a.id /\ log[k].rec = a.rec

DownIsEmpty == ~up => by_id = <<>> /\ counter = 0

StoryInv == /\ TypeOK /\ AllSettled /\ LogTellsOneStory /\ AnsweredIsKnown
            /\ MemoryCoversLog /\ AnswersLogged /\ DownIsEmpty

\* A server that never lost an append holds what a replay of its log would
\* give, and what a person last read is still what the log says.
MirrorInv ==
  ~lost =>
    /\ up => Readable /\ by_id = Replayed
    /\ \A p \in People :
         viewed[p] # <<>> =>
           /\ viewed[p].id \in LoggedIds
           /\ Replayed[viewed[p].id].content = viewed[p].content

-----------------------------------------------------------------------------
(* Refinement: the log, read as load() reads it, is the escalation ledger. *)

\* Until a server has lived on after a lost append, every handler is one entry.

Ledger == INSTANCE EscalationGate WITH ledger <- Replayed

\* Crashes before, within and after an append, replays and repeated calls never
\* show in the log: it is written entry by entry as the escalation ledger is
\* (escalation.py:1-16, recommendation_store.py:1-8).
ImplementsEscalationGate ==
  Ledger!Init /\ [][lost' \/ Ledger!Next]_Replayed
=============================================================================
