------------------------------ MODULE Console ------------------------------
(***************************************************************************)
(* The analyst's console (src/frontend/app.js) with its requests in        *)
(* flight.  The page is single-threaded, so the stretch of a handler up to *)
(* an await is one action and what follows the await is another, taken     *)
(* when the answer comes; answers come in any order, and until one comes   *)
(* the page on the screen stays live: its buttons read the shared `state'  *)
(* at the moment they are pressed.                                         *)
(*                                                                         *)
(* Patient says that the analyst waits for every answer before touching    *)
(* anything.  The server is the store of CaseStore as the page sees it:    *)
(* one atomic handler per request.  Any request may fail instead: it may   *)
(* never reach the server, its answer may be lost, or the server may have  *)
(* acted in memory and answer 500 because the append failed.  A page that  *)
(* a fetch rejects for goes on as it was; no handler catches it.           *)
(*                                                                         *)
(* Abstracted: the four fetches of loadInvestigation are one request, a    *)
(* recommendation and its answer one step, as are the handling of a press  *)
(* on the recommendation log and its answer; the case file is there (one   *)
(* without it offers no evidence to recommend on); whoever is asked for a  *)
(* name types one; the queue is shorter than its limit of fifty rows;      *)
(* statistics, times and wording are left out, and so is a restart of the  *)
(* server, which is CaseStore's.  A key is a press of the verdict button   *)
(* it stands for.                                                          *)
(***************************************************************************)
EXTENDS Integers, Sequences, FiniteSets

CONSTANTS
  Cases,            \* case ids of the queue
  AccountKeys,         \* account keys
  MembersOf,        \* case -> its member accounts
  Lanes, LaneOf,    \* the lanes of the queue, case -> its lane
  Nothing,          \* null
  Patient,          \* whether the analyst waits for answers
  MaxSelects, MaxPosts, MaxLoads,  \* bounds on clicks of each kind
  MaxLanes, MaxGates

ASSUME ConsoleAssumption ==
  /\ MembersOf \in [Cases -> SUBSET AccountKeys]
  /\ LaneOf \in [Cases -> Lanes]
  /\ Nothing \notin Cases \cup Lanes
  /\ Patient \in BOOLEAN
  /\ {MaxSelects, MaxPosts, MaxLoads, MaxLanes, MaxGates} \subseteq Nat

VARIABLES
  selected, detail, dropped,  \* the page's `state': the case clicked, the
                              \* answer being shown, the members marked
  lane, pane,       \* the lane pressed (Nothing: all); the queue on the page,
                    \* the lane it is drawn under and its rows
  panel,            \* the investigation on the page: whose evidence it lists,
                    \* the log it shows, the case its buttons are bound to
  queues,           \* GET /api/queue in flight
  details,          \* GET /api/case/{id} in flight
  loads,            \* investigations in flight: case, whether their box is
                    \* still part of the page
  posts,            \* verdicts in flight: not yet handled by the server
  answers,          \* verdicts handled, answer in flight
  gates,            \* presses on the recommendation log in flight
  disposed,         \* the server: case -> its verdict, for the cases that have one
  log,              \* the server: the recommendations, in order
  told,             \* history: the cases whose verdict the page was told of
  behind,           \* history: which of "case" and "log" the page shows as
                    \* before a request that failed
  n_selects, n_posts, n_loads, n_lanes, n_gates

state == <<selected, detail, dropped>>
queue == <<lane, pane, queues>>
server == <<disposed, log>>
history == <<told, behind>>
clicks == <<n_selects, n_posts, n_loads, n_lanes, n_gates>>
console == <<state, queue, panel, details, loads, posts, answers, gates, server, history,
             clicks>>

-----------------------------------------------------------------------------
ConsoleInit ==
  /\ selected = Nothing
  /\ detail = Nothing
  /\ dropped = {}
  /\ lane = Nothing
  /\ pane = Nothing
  /\ panel = Nothing
  /\ queues = {Nothing}
  /\ details = {}
  /\ loads = {}
  /\ posts = {}
  /\ answers = {}
  /\ disposed = <<>>
  /\ gates = {}
  /\ log = <<>>
  /\ told = {}
  /\ behind = {}
  /\ n_selects = 0
  /\ n_posts = 0
  /\ n_loads = 0
  /\ n_lanes = 0
  /\ n_gates = 0

\* The analyst may act.
Free ==
  Patient => /\ details = {} /\ loads = {} /\ posts = {} /\ answers = {}
             /\ gates = {} /\ queues = {}

\* renderCase and the empty page replace everything inside #case: the panel
\* goes, and a box being loaded is no longer part of the page.
Redrawn ==
  /\ panel' = Nothing
  /\ loads' = {[l EXCEPT !.attached = FALSE] : l \in loads}

\* The page on the screen is always `detail', drawn; its buttons are live
\* unless that answer already had a verdict.
Live == detail # Nothing /\ ~detail.disposed

-----------------------------------------------------------------------------
(* The queue                                                               *)

\* A lane's button; two requests for the same lane are one.
PressLane(l) ==
  /\ Free
  /\ pane # Nothing
  /\ n_lanes < MaxLanes
  /\ n_lanes' = n_lanes + 1
  /\ lane' = l
  /\ queues' = queues \cup {l}
  /\ UNCHANGED <<state, pane, panel, details, loads, posts, answers, gates, server,
                 history, n_selects, n_posts, n_loads, n_gates>>

\* GET /api/queue
Pending(l) == {c \in Cases \ DOMAIN disposed : l \in {Nothing, LaneOf[c]}}

\* The rows are those of the lane asked for; the lane drawn as pressed is the
\* one in `state' by now.
QueueArrives ==
  \E l \in queues :
    /\ queues' = queues \ {l}
    /\ pane' = [lane |-> lane, rows |-> Pending(l)]
    /\ UNCHANGED <<state, lane, panel, details, loads, posts, answers, gates,
                   server, history, clicks>>

\* The server is down for this one: loadQueue raises and the rows stay.
QueueLost ==
  \E l \in queues :
    /\ queues' = queues \ {l}
    /\ UNCHANGED <<state, lane, pane, panel, details, loads, posts, answers, gates,
                   server, history, clicks>>

-----------------------------------------------------------------------------
(* The case on the screen                                                  *)

\* mutant: marks of the previous case stay
DroppedOnSelectKept == dropped

DroppedOnSelect == {}

\* selectCase, up to the await; the page still shows the previous case.
SelectCase(id) ==
  /\ Free
  /\ pane # Nothing /\ id \in pane.rows
  /\ n_selects < MaxSelects
  /\ n_selects' = n_selects + 1
  /\ selected' = id
  /\ dropped' = DroppedOnSelect
  /\ details' = details \cup {[id |-> id, n |-> n_selects]}
  /\ behind' = behind \ {"case"}
  /\ UNCHANGED <<detail, queue, panel, loads, posts, answers, gates, server, told,
                 n_posts, n_loads, n_lanes, n_gates>>

\* mutant: the case is served without its disposition
DetailOfUndisposed(r) == [case |-> r.id, disposed |-> FALSE]

\* GET /api/case/{id}
DetailOf(r) == [case |-> r.id, disposed |-> r.id \in DOMAIN disposed]

\* mutant: an answer about a disposed case is ignored
ShownPending(r) == IF r.id \in DOMAIN disposed THEN detail ELSE DetailOf(r)

Shown(r) == DetailOf(r)

\* ... and after it: whatever case the answer is about is shown.
DetailArrives ==
  \E r \in details :
    /\ details' = details \ {r}
    /\ detail' = Shown(r)
    /\ Redrawn
    /\ behind' = {}
    /\ UNCHANGED <<selected, dropped, queue, posts, answers, gates, server, told, clicks>>

\* ... or never: the fetch rejects with the selection and the marks already
\* changed, and the case shown before stays on the page, its buttons live.
DetailLost ==
  \E r \in details :
    /\ details' = details \ {r}
    /\ behind' = behind \cup {"case"}
    /\ UNCHANGED <<state, queue, panel, loads, posts, answers, gates, server, told, clicks>>

\* The drop / restore button of a member on the page.
ToggleDrop(k) ==
  /\ Free
  /\ Live
  /\ k \in MembersOf[detail.case]
  /\ dropped' = IF k \in dropped THEN dropped \ {k} ELSE dropped \cup {k}
  /\ Redrawn
  /\ behind' = behind \ {"log"}
  /\ UNCHANGED <<selected, detail, queue, details, posts, answers, gates, server, told, clicks>>

-----------------------------------------------------------------------------
(* Verdicts                                                                *)

ConfirmVerdict == IF dropped = {} THEN "confirmed_ring" ELSE "confirmed_partial"

\* dispose, up to the await.  The request names the case last clicked; `shown'
\* and `behind' are history fields: the case on the screen, and whether it is
\* there because the request for the one clicked failed.
PressVerdict(v) ==
  /\ Free
  /\ Live
  /\ n_posts < MaxPosts
  /\ n_posts' = n_posts + 1
  /\ posts' = posts \cup {[id |-> selected, verdict |-> v, dropped |-> dropped,
                           shown |-> detail.case, behind |-> "case" \in behind,
                           n |-> n_posts]}
  /\ UNCHANGED <<state, queue, panel, details, loads, answers, gates, server, history,
                 n_selects, n_loads, n_lanes, n_gates>>

\* The server's handler: 404 for an unknown case, otherwise the verdict
\* replaces any earlier one, in memory and then in the file.
Recorded(p) ==
  IF p.id \in Cases
  THEN [c \in DOMAIN disposed \cup {p.id} |-> IF c = p.id THEN p ELSE disposed[c]]
  ELSE disposed

\* The append may fail with the memory changed: an error all the same.
HandleVerdict ==
  \E p \in posts, ok \in BOOLEAN :
    /\ posts' = posts \ {p}
    /\ ok => p.id \in Cases
    /\ disposed' = Recorded(p)
    /\ answers' = answers \cup {[id |-> p.id, ok |-> ok, n |-> p.n]}
    /\ UNCHANGED <<state, queue, panel, details, loads, gates, log, history, clicks>>

\* The fetch rejects, whether or not the server has acted.
VerdictLost ==
  \E p \in posts :
    /\ posts' = posts \ {p}
    /\ disposed' \in {disposed, Recorded(p)}
    /\ UNCHANGED <<state, queue, panel, details, loads, answers, gates, log, history,
                   clicks>>

\* ... and after the await: the page is emptied, whatever it shows by now, and
\* the queue asked for again.  After an error, which is toasted, or with nothing
\* on the page, where reading state.detail.case raises, nothing changes: the
\* page stays live.
VerdictAnswered ==
  \E a \in answers :
    /\ answers' = answers \ {a}
    /\ IF ~a.ok \/ detail = Nothing
       THEN UNCHANGED <<selected, detail, panel, loads, queues, told, behind>>
       ELSE /\ selected' = Nothing
            /\ detail' = Nothing
            /\ queues' = queues \cup {lane}
            /\ Redrawn
            /\ told' = told \cup {a.id}
            /\ behind' = {}
    /\ UNCHANGED <<dropped, lane, pane, details, posts, gates, server, clicks>>

-----------------------------------------------------------------------------
(* The investigation panel                                                 *)

\* loadInvestigation, up to the await: the box is the page's present one.
LoadInvestigation(id) ==
  /\ n_loads' = n_loads + 1
  /\ loads' = loads \cup {[case |-> id, attached |-> TRUE, n |-> n_loads]}
  /\ panel' = Nothing
  /\ behind' = behind \ {"log"}

\* The button on the page.
PressLoad ==
  /\ Free
  /\ detail # Nothing
  /\ n_loads < MaxLoads
  /\ LoadInvestigation(detail.case)
  /\ UNCHANGED <<state, queue, details, posts, answers, gates, server, told,
                 n_selects, n_posts, n_lanes, n_gates>>

\* GET /api/case/{id}/recommendations, with what the page offers to do.
LogOf(id) == {[rec |-> k, offers |-> log[k].status] :
                k \in {j \in DOMAIN log : log[j].case = id /\ ~log[j].executed}}

PanelOf(l) == [evidence_of |-> l.case, bound_to |-> l.case, log |-> LogOf(l.case)]

\* ... and after it.  A box still on the page gets the panel; if it has gone,
\* the handlers are bound all the same, to whatever panel the page has now.
InvestigationArrives ==
  \E l \in loads :
    /\ loads' = loads \ {l}
    /\ panel' = IF l.attached THEN PanelOf(l)
                ELSE IF panel # Nothing
                     THEN [panel EXCEPT !.bound_to = l.case]
                     ELSE panel
    /\ behind' = IF l.attached THEN behind \ {"log"} ELSE behind
    /\ UNCHANGED <<state, queue, details, posts, answers, gates, server, told, clicks>>

\* One of its requests failed: the box goes on saying that it is loading.
InvestigationLost ==
  \E l \in loads :
    /\ loads' = loads \ {l}
    /\ UNCHANGED <<state, queue, panel, details, posts, answers, gates, server, history,
                   clicks>>

\* The panel's recommend button: evidence is what the panel lists.
Recommended ==
  Append(log, [case |-> panel.bound_to, evidence_of |-> panel.evidence_of,
               status |-> "pending", executed |-> FALSE])

\* Logging it reloads the investigation of the case the handler is bound to.
Recommend ==
  /\ Free
  /\ panel # Nothing
  /\ n_loads < MaxLoads
  /\ log' = Recommended
  /\ LoadInvestigation(panel.bound_to)
  /\ UNCHANGED <<state, queue, details, posts, answers, gates, disposed, told,
                 n_selects, n_posts, n_lanes, n_gates>>

\* It fails, whether or not the server has added it: the page stays as it is.
RecommendLost ==
  /\ Free
  /\ panel # Nothing
  /\ n_loads < MaxLoads
  /\ n_loads' = n_loads + 1
  /\ log' \in {log, Recommended}
  /\ UNCHANGED <<state, queue, panel, details, loads, posts, answers, gates, disposed,
                 history, n_selects, n_posts, n_lanes, n_gates>>

\* Approve and Reject on a recommendation shown as pending, Execute on one
\* shown as approved and not executed; up to the await.
PressGate(does) ==
  /\ Free
  /\ panel # Nothing
  /\ n_gates < MaxGates
  /\ n_gates' = n_gates + 1
  /\ \E l \in panel.log :
       /\ l.offers = IF does = "execute" THEN "approved" ELSE "pending"
       /\ gates' = gates \cup {[rec |-> l.rec, does |-> does, for |-> panel.bound_to,
                                behind |-> "log" \in behind, n |-> n_gates]}
  /\ UNCHANGED <<state, queue, panel, details, loads, posts, answers, server, history,
                 n_selects, n_posts, n_loads, n_lanes>>

\* What the server does with it: a decision is refused unless the
\* recommendation is pending, an execution unless it is approved.
Decided(r, does) ==
  IF does = "execute"
  THEN [r EXCEPT !.executed = @ \/ r.status = "approved"]
  ELSE [r EXCEPT !.status = IF @ = "pending" THEN does ELSE @]

\* ... and after the await, refused or not, the investigation is loaded again
\* into the box that the page has by now, if it has one.
GateAnswered ==
  \E g \in gates :
    /\ gates' = gates \ {g}
    /\ log' = [log EXCEPT ![g.rec] = Decided(@, g.does)]
    /\ IF detail # Nothing
       THEN LoadInvestigation(g.for)
       ELSE UNCHANGED <<panel, loads, n_loads, behind>>
    /\ UNCHANGED <<state, queue, details, posts, answers, disposed, told,
                   n_selects, n_posts, n_lanes, n_gates>>

\* ... or the fetch rejects, whether or not the server has acted, and a panel
\* on the page goes on offering what it did.
GateLost ==
  \E g \in gates :
    /\ gates' = gates \ {g}
    /\ log' \in {log, [log EXCEPT ![g.rec] = Decided(@, g.does)]}
    /\ behind' = IF panel # Nothing THEN behind \cup {"log"} ELSE behind
    /\ UNCHANGED <<state, queue, panel, details, loads, posts, answers, disposed, told,
                   clicks>>

ConsoleStep ==
  \/ \E id \in Cases : SelectCase(id)
  \/ DetailArrives
  \/ DetailLost
  \/ \E k \in AccountKeys : ToggleDrop(k)
  \/ \E v \in {ConfirmVerdict, "not_a_ring", "insufficient_evidence"} : PressVerdict(v)
  \/ HandleVerdict
  \/ VerdictLost
  \/ VerdictAnswered
  \/ PressLoad
  \/ InvestigationArrives
  \/ InvestigationLost
  \/ Recommend
  \/ RecommendLost
  \/ \E does \in {"approved", "rejected", "execute"} : PressGate(does)
  \/ GateAnswered
  \/ GateLost
  \/ \E l \in Lanes \cup {Nothing} : PressLane(l)
  \/ QueueArrives
  \/ QueueLost

\* Every request comes to an end, answered or not: the server handles them one
\* at a time, and a connection that breaks rejects the fetch.
Fairness ==
  /\ WF_console(DetailArrives \/ DetailLost)
  /\ WF_console(HandleVerdict \/ VerdictLost) /\ WF_console(VerdictAnswered)
  /\ WF_console(InvestigationArrives \/ InvestigationLost)
  /\ WF_console(GateAnswered \/ GateLost) /\ WF_console(QueueArrives \/ QueueLost)

ConsoleSpec == ConsoleInit /\ [][ConsoleStep]_console /\ Fairness

-----------------------------------------------------------------------------
\* Types; and the verdict in a request agrees with its member list.
ConsoleTypeOK ==
  /\ selected \in Cases \cup {Nothing}
  /\ detail = Nothing \/ detail \in [case : Cases, disposed : BOOLEAN]
  /\ dropped \subseteq AccountKeys
  /\ panel = Nothing
     \/ panel \in [evidence_of : Cases, bound_to : Cases,
                  log : SUBSET [rec : DOMAIN log, offers : {"pending", "approved", "rejected"}]]
  /\ pane = Nothing \/ pane \in [lane : Lanes \cup {Nothing}, rows : SUBSET Cases]
  /\ queues \cup {lane} \subseteq Lanes \cup {Nothing}
  /\ DOMAIN disposed \subseteq Cases
  /\ told \subseteq Cases
  /\ behind \subseteq {"case", "log"}
  /\ \A p \in posts :
       /\ p.verdict = "confirmed_ring" => p.dropped = {}
       /\ p.verdict = "confirmed_partial" => p.dropped # {}
  /\ log \in Seq([case : Cases, evidence_of : Cases,
                  status : {"pending", "approved", "rejected"}, executed : BOOLEAN])
  /\ \A k \in DOMAIN log : log[k].executed => log[k].status = "approved"

-----------------------------------------------------------------------------
(* Safety.  All of it holds for a patient analyst, and all but the types   *)
(* fails for one who clicks on while an answer is on its way.  What a      *)
(* failed request leaves on the page is the one thing patience does not    *)
(* help with; the history fields say exactly where it is to blame.         *)

\* "One loop: read a case, check the evidence, decide" (app.js:3): the verdict
\* a case gets was given with that case on the screen.  It is, of a patient
\* analyst, unless a request for a case failed.
VerdictIsAboutTheCaseShown ==
  \A c \in DOMAIN disposed : disposed[c].shown = c

VerdictIsAboutTheCaseShownUnlessLost ==
  \A c \in DOMAIN disposed : ~disposed[c].behind => disposed[c].shown = c

\* A recommendation cites evidence of its own case: it "is logged with the
\* evidence that produced it" (escalation.py:4-5).
RecommendationCitesItsCase == \A k \in DOMAIN log : log[k].evidence_of = log[k].case

\* The members a verdict drops are members of its case, and it is a partial
\* confirmation only if some were dropped (app.js:252-260); unless, again, a
\* request for a case failed.
DropsAreMembers ==
  \A c \in DOMAIN disposed :
    ~disposed[c].behind => disposed[c].dropped \subseteq MembersOf[c]

\* An investigation on the page is that of the case on the page.
PanelIsOfTheCaseShown ==
  panel # Nothing => detail # Nothing /\ panel.evidence_of = detail.case

\* A press on the recommendation log finds the recommendation as the log
\* showed it: none is decided twice and, as the server would execute an
\* approved one again, none is executed twice (app.js:422-427), unless an
\* earlier press on the same log was never answered.
LogIsAsShown ==
  \A g \in gates : ~g.behind =>
    IF g.does = "execute"
    THEN log[g.rec].status = "approved" /\ ~log[g.rec].executed
    ELSE log[g.rec].status = "pending"

\* The queue lists the undecided cases of the lane it is drawn under, every
\* one of them, however many of its reloads were lost.
QueueIsOfItsLane ==
  pane # Nothing => pane.rows \ DOMAIN disposed = Pending(pane.lane)

\* What the server is sent is about what the analyst was looking at (dispose
\* and loadInvestigation), and what is looked at belongs together.
ActsOnWhatIsShown ==
  /\ ConsoleTypeOK
  /\ VerdictIsAboutTheCaseShownUnlessLost /\ DropsAreMembers /\ RecommendationCitesItsCase
  /\ PanelIsOfTheCaseShown /\ LogIsAsShown /\ QueueIsOfItsLane

\* A case is not decided again once the page was told of its verdict: it
\* disables the buttons of a disposed case (app.js:190-194).  What a retry
\* after an error or a lost answer may replace is a verdict nobody was told of.
DecidedOnce ==
  [][\A c \in told : disposed'[c] = disposed[c] \/ disposed'[c].behind]_disposed

-----------------------------------------------------------------------------
(* The inductive invariant, for a patient analyst: one answer is awaited   *)
(* at a time, and while it is, the page still shows what was acted on.     *)

AtMostOne(S) == \A x, y \in S : x = y

OneAwaited ==
  /\ AtMostOne(details) /\ AtMostOne(loads) /\ AtMostOne(posts)
  /\ AtMostOne(answers) /\ AtMostOne(gates) /\ AtMostOne(queues)
  /\ details # {} => loads = {} /\ posts = {} /\ answers = {} /\ gates = {} /\ queues = {}
  /\ loads # {} => posts = {} /\ answers = {} /\ gates = {} /\ queues = {}
  /\ posts # {} => answers = {} /\ gates = {} /\ queues = {}
  /\ answers # {} => gates = {} /\ queues = {}
  /\ gates # {} => queues = {}

\* The case on the screen is the one clicked last, unless that one is coming or
\* was lost.
ScreenInv ==
  /\ \A r \in details : r.id = selected /\ r.id \in Cases /\ dropped = {}
  /\ detail # Nothing /\ details = {} /\ "case" \notin behind =>
       selected = detail.case /\ dropped \subseteq MembersOf[detail.case]

\* What the page was told the server has, and no page offers it again.
ToldInv ==
  /\ \A a \in answers : a.ok => a.id \in DOMAIN disposed
  /\ told \subseteq DOMAIN disposed
  /\ detail # Nothing /\ detail.case \in told => detail.disposed

VerdictInv ==
  /\ \A p \in posts :
       /\ Live /\ p.shown = detail.case
       /\ ~p.behind => p.id = detail.case /\ p.dropped \subseteq MembersOf[p.id]
  /\ answers # {} => detail # Nothing

\* A panel offers what the log allows; what was pressed on it, the log allows.
PanelInv ==
  /\ \A l \in loads : l.attached /\ detail # Nothing /\ l.case = detail.case
  /\ loads # {} => panel = Nothing
  /\ panel # Nothing =>
       /\ detail # Nothing
       /\ panel.evidence_of = detail.case /\ panel.bound_to = detail.case
       /\ "log" \notin behind =>
            \A l \in panel.log : log[l.rec].status = l.offers /\ ~log[l.rec].executed
  /\ \A g \in gates :
       /\ detail # Nothing /\ g.for = detail.case
       /\ g.rec \in DOMAIN log
       /\ g.does \in {"approved", "rejected", "execute"}

ReviewInv ==
  /\ ActsOnWhatIsShown /\ OneAwaited /\ ScreenInv /\ ToldInv /\ VerdictInv /\ PanelInv
  /\ \A l \in queues : l = lane

-----------------------------------------------------------------------------
(* Liveness                                                                *)

\* The case clicked last comes to be the one on the screen, unless its request
\* fails or the selection ends first.
SelectionIsShown ==
  \A c \in Cases :
    selected = c ~> \/ detail # Nothing /\ detail.case = c
                    \/ selected # c
                    \/ "case" \in behind
=============================================================================
