# Sentinel in TLA+

A verification project for Sentinel, the fraud-ring investigation console of
this repository. The modules are translated from the source under `sentinel/`,
`scripts/` and `frontend/` (quoted here and in `PROJECT.json` as `src/...`); TLC
checks them on small instances, and TLAPS proves a part of the properties for
every value of the constants.

- [The system](#the-system)
- [The modules and the code](#the-modules-and-the-code)
- [What the runs check](#what-the-runs-check)
- [Bounds, fairness and other assumptions](#bounds-fairness-and-other-assumptions)
- [What is proved](#what-is-proved)
- [Where code and documents disagree](#where-code-and-documents-disagree)
- [What is not modelled](#what-is-not-modelled)
- [Plan](#plan)

## The system

Money transactions are compiled once into time-ordered columns. A batch loop
(`scripts/build_queue.py`) replays them in ticks:

    Stream.ticks -> WindowedGraph.add_batch -> CandidateGenerator.generate
       -> CaseManager.select / open_case -> CaseStore (JSON lines)

and a single-process web server (`api/app.py`) reads the files of the store at
start-up and serves the console (`frontend/app.js`), where an analyst gives
verdicts, asks for a case file and a narrative, and logs, decides and executes
recommendations. Evaluation, calibration and reporting read the results
offline.

| Component | State it keeps | Operations | What makes it correct | What is hard |
|---|---|---|---|---|
| Replay (`stream/replay.py`) | the columns, the generator's tick and offset | `ticks` | every transaction is handed out once, in its tick | empty ticks, the grid's origin |
| Windowed graph (`graph/window.py`, `graph/stats.py`) | pairs, two adjacencies, running totals, lifetime statistics, a deque of slices | `add_batch`, `_expire` | the aggregates are those of the transactions in the window | incremental undo: expiry sees a slice, never a pair's history |
| Expansion (`graph/window.py`) | locals: seen, frontier, trace | `expand_traced` | collects what the hub guard and hop budget allow, and says why it stopped | three limits in one loop |
| Pruning (`detect/prune.py`) | locals: kept set, flag | `prune` | one structure, with its seed, of the minimum size | removals while a set is walked in hash order |
| Generator (`detect/candidates.py`) | lookback deque, last observed tick, counters | `observe`, `seeds`, `generate` | every seed is accounted for and represented; the lookback is what it says | a caller that skips calls, accounts that expired since |
| Suppression (`detect/merge.py`) | ordered list, account index, survivors | `suppress` | survivors never overlap, nothing vanishes unexplained | pre-rejection by size, order of processing |
| Case manager (`cases/manager.py`) | counters, random source | `select`, `open_case` | capacity goes to the best, the control arm samples the rest | rounding at small capacities |
| Case store (`cases/store.py`) | cases in memory, counter, two files | `open`, `dispose`, `load` | an answered verdict stands; a label sits on its own alert | crashes, torn lines, two processes on one directory |
| Recommendation log and gate (`cases/recommendation_store.py`, `escalation.py`) | records in memory, counter, one file | `recommend`, `decide`, `execute`, `load` | nothing is executed without a logged approval by a named person | failing appends, reused ids |
| API (`api/app.py`) | the two stores, the draft ledger | the handlers | each handler is atomic: none of them awaits | writes after memory has changed |
| Console (`frontend/app.js`) | `state`, the page, requests in flight | lane, select, drop, verdict, load, recommend, approve, execute | what is sent is about what is shown | answers in any order, shared state read after an await |
| Motifs, layers, features, links (`detect/`) | none | pure functions of one candidate or a list | agree with a definition over transactions | intervals standing for lists of times |
| Case file, compliance (`cases/evidence.py`, `compliance/`) | none | `build_case_file` | evidence is what the detector saw | window boundaries |
| Drafting (`narrative/`, `llm/`) | ledger counts and file | `draft_and_verify`, `complete` | nothing unverified is filed, counts tell what happened | retries, fallbacks, partial failure |
| Learning (`learn/`) | audit file | `calibrate`, `time_split`, the simulated analyst | evidence moves weights, nothing else does | renormalisation, weighted lanes |
| Corpus (`corpus/`, `compile_corpus.py`, `eval_ranker.py`) | the pool and the corpus, on disk | replay, `--adopt`, `--rescore`, load, pool | a corpus answers the question it was compiled for | keys that hash constants and not code; two files written in turn |
| Reports (`report/`, `collect_metrics.py`, `render_docs.py`) | `metrics.json`, the documents | collect, render, scan | documents quote one collection of numbers that are still true | two writes, exits between them, typed numbers |
| Evaluation (`eval/`, `scripts/eval_*.py`, `ci_gates.py`) | tallies of one replay | observe a cycle, attribute, split | eight programs count the same rings, once | skipped cycles, ties of the split, ring-less cycles |
| Economics (`economics/`, `eval_cost.py`) | none | report, stress, gate | conclusions follow from the model, also at its edges | denominators that may be zero |
| Ingestion (`data/`, `schema.py`, `build_stream.py`, `build_fixture.py`) | report, rings, ids, stream, fixture | parse, join, sort, slice | nothing is lost uncounted; the fixture stands for the stream | malformed blocks, ids over chunks, thinning |
| Synthetic identities (`generators/`, `cases/identity_case.py`, `narrative/identity_brief.py`) | applications, the queue | generate, link, escalate, brief | crowds are not evidence; no leak of the truth | draws that undo one another |

How they interact. The graph is the only state shared by the detector's parts;
it changes only in `add_batch`, so a cycle reads a fixed graph. The store is
shared by two processes through the directory alone: the builder appends, the
server reads once at import. The page and the server share requests in flight.
Handlers are coroutines without an `await`, on one event loop: each is one
atomic step, and what can come between memory and file is a failure or the end
of the process.

## The modules and the code

| Module | Models | State and actions |
|---|---|---|
| `WindowedGraph` | `graph/window.py`, `graph/stats.py`, `Stream.ticks` | One action per iteration of the two loops: `StartBatch`, `AddEdge`, `PopSlice`, `RemoveEdge`, `Return`. A transaction is its position in the stream. Callers see the graph at `pc = "idle"`. |
| `TrailingWindow` | the promise of that module | a clock and the set of transactions in the window |
| `Shapes` | `detect/motifs.py`, `layers.py`, `features.py`, `link.py` | operators on the state of `WindowedGraph`, which it extends: loops, strands, fans, layers, score terms, boundary flow, links; the reference of each is a definition over transactions |
| `Neighbourhood` | `neighbours`, `subgraph_edges`, the set definitions inside `prune` | operators on a graph given as its set of ordered pairs; `ReachWithin` is the reference for expansion |
| `CandidateBuild` | `expand_traced`, `prune`, the size tests of `generate` | one action per hop, pass and examined account; sets are walked in any order |
| `Suppression` | `detect/merge.py` | one action per iteration of `suppress`, for each ordering |
| `CandidateGenerator` | `candidates.py`, `manager.py`, the driving loop | `AddBatch`, `Observe` (with its refusal), `Seeds`, `Build` per seed, `Suppress`, `Select`, `OpenCase`; it uses `ReachWithin`, leaf2 pruning, the trailing window and a nondeterministic survivor set, each justified by the module above it |
| `Recommendations` | `recommendation_store.py`, `escalation.py`, their handlers | one action per handler, with failing, torn and fatal appends; `Restart` replays the log |
| `EscalationGate` | the promise of the log | a ledger written by `Propose`, `Decide`, `Execute` |
| `CaseStore` | `cases/store.py`, the verdict handler, the builder's write protocol | `BuildStart`, `BuildCase`, `BuildEnd`, `Start`, `Stop`, `Dispose`, over the two files |
| `CaseLedger` | the promise of the store | cases written once, dispositions about their own record |
| `Console` | `frontend/app.js` with the server as it sees it | a handler up to an `await` and after it are two actions; answers come in any order, or not at all: `DetailLost`, `QueueLost`, `VerdictLost`, `InvestigationLost`, `RecommendLost`, `GateLost`; `HandleVerdict` may answer 500 with the verdict in memory |
| `Citation` | `narrative/citation.py` | a text is its lines, a line its sentences, a sentence a fact flag and the ids it cites |
| `CaseFile` | `cases/evidence.py`, `str_narrative.py`, `build_prompt`, the scripts that measure the verifier | pure: the ledger and roles of a case over a stream, the template line by line, the injected faults |
| `Drafting` | `llm/client.py`, `narrative/drafted.py`, `narrative/metrics.py`, the two handlers, `purpose.py` | `Take`, `ProviderReplies`, `RecordUnavailable`, `Judge`, `Template`, with `BuildStream`, `Crash`, `Restart`; one request at a time, as the server works. A row of the ledger's file is whole or torn, and `Readable` is what a reader keeps |
| `Identity` | `synthetic_identity.py`, `identity_features.py`, `identity_case.py`, `identity_brief.py`, the baselines of `eval_identity_background.py` | one action per structure, hop and shuffle of the generator, every draw nondeterministic; `Review` adds a case file to the queue |
| `Corpus` | `corpus/store.py`, `compile_corpus.py`, the pool of `eval_ranker.py` | the code is four versions that `Edit` changes; one action per command, or per part of one up to the next file it writes |
| `Publication` | `collect_metrics.py`, `report/`, `render_docs.py` | `Measure`, `Collect` and `CollectCounts` (its two writes), `Commit`, `EditTemplate`, `Render`, `WriteDocument` one by one, `RenderDies`; a number is a `Form` (digits, places, sign) in a file, and `Scan` is what the scanner's pattern finds of it |
| `Calibration` | `learn/calibrate.py`, `learn/analyst.py` | `DisposeOne`, `Pass`; weights are integers over their sum, lifts are fractions |
| `Economics` | `economics/cost.py`, `eval_cost.py`, `gate_cost` | `EvalCost`, `GateCost` over integers |
| `Ingestion` | `data/patterns.py`, `schema.py`, `data/accounts.py`, `build_stream.py`, `build_fixture.py` | lines and chunks one at a time, then `Compile`, `LoadAccounts`, `BuildFixture` |
| `Selection` | the masks, renumberings and stable sort of those scripts | pure: what an array keeps under a mask is given by ranks, a stable sort by where each element goes |
| `Evaluation` | `eval/funnel.py`, `eval/bootstrap.py`, `eval_funnel.py`, `eval_phase2.py`, `ci_gates.metrics`, `collect_pool`, `ring_time_split`, the groups and rows of `eval_ranker.py`, `trials` of `eval_ring_unit.py`, `eval_threshold_band.py`, `eval_seed_cheat_diff.py`, `eval_fragment_link.py`, `eval_seed_arms.py` | one action, `GenerationCycle`, in which eight programs count the same cycle each in its own way, `eval_phase2.py` and the band at the depths `DeepKs`, the others at `Ks`; reports and split are operators |
| `MC...` | instances for TLC | model values, bounds, symmetry |
| `...Proofs` | theorems about the modules they extend | `EvaluationProofs` starts with the sums, numbers and stable sorts that `OfflineProofs` builds on as well |

Three instances put machines that share nothing side by side, because a behaviour
of one says nothing of the other: `MCReview` (the store behind the server, the
page in the browser), `MCCandidates` (build, suppress) and `MCOffline` (the seven
programs beside the detector). There a variable `part`, chosen initially, says
which one takes steps while the others rest.

A definition marked `mutant` is a plausible slip in the code (a dropped guard,
an update in one table only). No specification uses it: it is kept beside the
definition it would replace, and with it TLC refutes the property that
`PROJECT.json` pairs it with, so every property of a passing run is known to
depend on the code it is about.

## What the runs check

Passing runs (`tlc -config X.cfg M`):

| Run | Instance | Shows |
|---|---|---|
| `window_graph` | every stream of four transactions over the minutes 0, 1, 2, 3, 6, among up to four accounts: to and fro, a triangle, a split payment, a loop of four, a hub with and without loops back; window 4, tick 2 | The pair table and both adjacencies are exact in every iteration (`PairTableExact`), as are totals, lifetime statistics, the boundary flow of any set and the volume of any candidate, whose span is never too short (`FlowsAreExact`); every transaction is replayed; the graph implements `TrailingWindow`. Read off it: no loop or strand that carried money is missed, the score's terms agree with one another and the layered score stays within two sevenths of its two high blocks, a shape is no wider than the fans it is made of, a link has a payment behind it, and one more payment among an account's counterparties never makes it look purer. |
| `candidates` | build: every graph made of eleven links on five accounts, three hops, hubs above degree 3, caps 4 and 5, four strategies. suppress: every list of three of the member sets of three or four of five accounts or of all six, two scores, four orderings, threshold 1/2 | Expansion is the bounded reach or says that it was cut; a pruned candidate is one structure with its seed and of the minimum size in every walking order; on two-hop neighbourhoods `near_or_linked` is `leaf2`; the call returns. Survivors never overlap, whatever is dropped is absorbed by one that outranks it, and the score-free orderings give a pool that does not depend on scores. |
| `detection_cycle` | five ticks, two cycles, four batches on five accounts, lookback 1 or 3, a caller that may skip `observe`, capacity 2 | The seeds are the accounts of the observed ticks and still in the window when expanded, no seed is lost or counted twice, each is represented in the ranking, and the capacity goes to the best with a control arm that does not compete, unless it has every review. |
| `escalation` | two recommendations with two bodies, a refused third, two people, six ticks of the clock, appends that fail, tear or kill | Nothing is executed without a logged approval; the log tells one story; what was answered is known after any restart; and, until a server lives on after a lost append, decisions are about what their author read and the log implements `EscalationGate`. |
| `review` | store: one build of two cases, three verdicts, every fault, both processes restarting. page: two cases that share a member, in two lanes, an analyst who waits for every request to end, and requests of every kind that fail before or after the server acts; the clicks go to the cases (three selections, two verdicts, a change of lane) or to one case's log (two selections, a verdict, two investigations or recommendations, three presses) | An answered verdict stands, a label sits on its own alert, the files implement `CaseLedger`. What is sent is about what is shown (the verdict's case and members, the evidence of a recommendation, the status of one that is decided or executed), the queue hides no undecided case of its lane, no case is decided again once the page was told of its verdict, and the selected case gets shown; each of these but for what a failed request leaves on the page, which the history `behind` says exactly. |
| `drafting` | two cases, four model drafts (sound, uncited, invented id, nothing stated), seven requests, two in a behaviour, one retry, one rebuild of the stream, one restart, appends that write nothing, a part or all of their row before they raise; and every stream of up to three rows | A returned report passes the verifier against the file it is about; the template does on every stream, and cites every member; the ledger's file tells of a report what the report says of itself, in rows written whole, of which one is unreadable only behind the torn row of a request that got no report; it has no draft twice, and the denominator in memory is the drafts judged; a request costs bounded calls, repeated only after transport or server faults; every request is answered while the server is up. |
| `offline` | see the next table | each of the programs beside the detector |

The parts of `offline`:

| Part | Instance | Property |
|---|---|---|
| identity | three worlds of up to four applications over three attributes, every draw, queues of one and two | `EvidenceIsRareSharing`: only stolen addresses cross between planted and legitimate applications, a large legitimate structure is never escalated, features and baselines hang together. `NarrativesAreSourced`: case narratives and the brief pass the verifier. |
| corpus | all edits of the four versions, any order of commands, `--rescore` dying between its files, a pool and an unkeyed corpus from earlier | `StoredCorpusIsSound`: a number read from the corpus comes from rows of today's generation and schema and from today's score unless `--adopt` was told wrong; pool and corpus agree unless a `--rescore` died; what is pooled may be, and what is refused can be asked of every stratum. |
| publication | three readings, two of which agree at three decimals and one of which is negative, typed at three or four decimals, two documents, three collections | `PublishedNumbersAreCurrent`: documents quote one collection, numbers and counts alike, unless a rendering died; a typed number between zero and one that a later measurement moved is refused. |
| calibration | two blends of three terms (one of weight zero, one of an eighth), two lanes, three cases, every significance pattern | `EvidenceMovesWeights`: refused terms keep their proportions, moved ones go the way of their lift, nothing changes by more than 8/3 in a pass, every judged case is counted once for every term. |
| economics | seventy-two cost models with zeros and ones, every precision table over three depths | `CostConclusionsHold`: the three ways to say that a depth pays agree; a stress is the worst of its box; the gate's two ends answer for the band between. |
| ingestion | every pattern file of five lines, every transaction file of two chunks, two account files, three sizes of fixture | `IngestionIsFaithful`: the parser's counts balance at every line, the stream is the file without self-loops in stable order, the registry joins however banks are padded, and the fixture shows every gated cycle the rings of the stream. |
| evaluation | three cycles of seven traffics, two seedings and six queues over three rings, two of which share an account | `EvaluationsAgree`: the eight programs count the same rings and hits at the depths they share; the two that look deeper find what the others find, nothing that was not built, and more only if they count hits further down; recall is the same as a union and by owner, the split leaks no ring and no time, a ring is one investigation however many places it fills; the threshold band has the headline in its shipped cell and a stricter cell never counts more; the seed-rule comparison records the rings that the funnel reports; fragment links only add, at most one lost hit per merge; rows of two seed arms that are paired with the shipped arm are of the same cycle, and no arm seeds a ring outside the ceiling. |

Violation runs, each for one statement of a document or comment:

| Run | Property | Shows |
|---|---|---|
| `phantom_loop` | `ValidLoopsAreTravelled` | a pair paid before and after the other hops stands in for a payment between them: a loop is called temporally valid that no choice of transactions travels |
| `case_store_rebuilt` | `LabelBelongsToItsAlert` | a second build numbers from 1 into the same files: an old verdict lands on a new alert |
| `console_hasty_verdict` | `VerdictIsAboutTheCaseShown` | with a detail request in flight, a verdict goes to a case that is not on the screen |
| `typed_negative_number` | `NoTypedNumberRots` | a negative number typed into a template outlives its measurement: the scanner finds it without its sign and looks for it with one |
| `pool_cannot_be_rebuilt` | `ReplayWritesThePool` | the replay of `eval_ranker.py` reads a field its records no longer have: the pool that everything else starts from cannot be written again |

## Bounds, fairness and other assumptions

- **Streams** of four transactions let a pair be added twice, expire once and be
  added again, with a tick that holds two of them and an empty tick in between;
  expiry of one slice while another of the same pair stays needs three, a loop
  with a hub or a split payment needs four.
- **Five accounts, eleven links**: a seed with a hub, a triangle, a far account
  on one thread, on two threads and a chain of stragglers all occur; three hops
  are one more than shipped because with two the second pass of pruning never
  has work.
- **Five ticks** with cycles at the third and the fifth: the lookback deque
  overflows, the window expires a batch that the deque still remembers, and
  counters run over two cycles. `Batches` holds chains that overlap to, and
  below, the threshold. `Capacity = 2` is the smallest with a primary slot beside
  the control arm (the shipped queue has 12).
- **`MaxClock`, `MaxRecs`, `MaxVerdicts`, `MaxBuilds`, `MaxSelects`, `MaxPosts`,
  `MaxLoads`** cap calls. Every fault needs at most three calls around it (write,
  fault, next use), and a reused id needs one lost append and two recommendations.
- **Clicks on the page** (`MCReview`) are given to the cases or to one case's log:
  a fault needs a request that fails, and two more presses to act on what it left;
  together they would multiply and show nothing that the two halves do not share.
- **`MaxRequests = 2`** puts one request in work and one behind it;
  `MAX_RETRIES = 1` (shipped: 2) still has a first, a repeated and a last call;
  the list lengths are 1 and 2 so that three rows overflow each of them.
- **`offline`**. `RARE_MULTIPLICITY` is 2 with structures of one to three people:
  at the threshold and above it. A collection, a change and a collection are the
  shortest history that leaves a stale number, and a third tells a torn write from
  a fresh one; a template has a typed number or a placeholder that does not resolve,
  not both, for nothing reads the two together. Two depths are common to all programs and a third is
  for the deeper two, with queues of up to three places, so that they may differ.
  Five lines hold a closed block with a row, a malformed row and a
  nested or unclosed block. Four rows of transactions in two chunks give a moment
  spread over both. Three cycles with three rings give the split a ring on each
  side and one on the cutoff. Shares are sixtieths, so all factors divide exactly;
  `SplitNumerator/SplitDenominator`, `MinNodes` and the caps are arguments of the
  code and take values that bite on so small a pool.
- `CHECK_DEADLOCK FALSE` everywhere: streams end, calls return, bounded actors run
  out of calls, programs end, and a server with an unreadable line stays down.
- **Faults** are what the code can meet without undefined behaviour: an append
  that raises with nothing or a part of the line written, a process that dies
  before or after it, a program that exits between two files. A torn line is
  completed by the next append and cannot be read any more, nor can that append.
  A request of the page may get lost before it reaches the server or after the
  server has acted, or be answered by an error although memory has changed.
- **Fairness.** `WindowedGraph` and `CandidateBuild` take weak fairness of `Next`:
  a call on one thread, with no wait in it, goes on to its end. `Console` takes
  weak fairness of the server's handling and of each kind of answer: the server
  serves requests in turn, and every fetch ends, in an answer or in a rejection
  when its connection breaks; nothing is assumed of the analyst. `Drafting` takes
  it of the server's own steps and of the provider's replies, of which a timeout is
  one. The HTTP library's timeout is one between two reads, so a provider that
  trickles its answer for ever is excluded by this assumption, not by the code. The other specifications have no liveness
  property and no fairness.
- **Numbers.** Amounts are naturals, so sums are exact; the code's floats
  accumulate rounding error, which its `check_invariants` allows for with a
  tolerance. Shares, weights and lifts are fractions. The threshold of
  suppression is 1/2, a float that is exact.
- **Evaluation** gives its eight programs the same cycles. In the repository seven
  of them replay the whole stream and `ci_gates.py` the fixture; the numbers
  of places they look at are their own (`Ks`, `DeepKs`); what is checked is how they
  count, and that the fixture shows the same rings is `Ingestion`'s.

## What is proved

Each proof module states an inductive invariant, proves it initially true and
kept by every action, and derives the theorems from it. Where an invariant is
about a program that runs beside another one, the other one's steps leave it
alone and are not repeated.

- **`WindowedGraphProofs`** (for every set of accounts, stream, window and tick).
  `RetentionBound` is not inductive: nothing in it says that the deque is ordered,
  so that popping its head drops the oldest slice. `SliceInv` adds it
  (`DequeOrdered`), places the loop in progress before or after the deque
  (`LoopPlaced`), and bounds what is still to come by the clock (`ClockOrdered`).
  `AggInv` says what a pair's row holds in the middle of a loop, and with it
  `PairTableIsExact` follows: adjacency, counts and last times of pairs are those
  of the transactions held, in every iteration. `GridInv` puts the ends of slices
  on the grid of ticks; `WindowIsKept` is then a step simulation of
  `TrailingWindow` (its safety part; that every transaction is replayed is
  liveness). `TimesInv` says that a pair's first time is that of one of its
  transactions and no later than any held, which gives `NothingMissed` and `LinksWitnessed`: the detector's
  interval tests over-approximate what money did, so that they lose nothing.
  `MoneyInv` and `StatsInv` say that the running totals are the sums over the
  transactions held and seen. Sums over sets are folds; their laws (one element
  more or less, disjoint parts, sums by key) are proved by induction on finite
  sets, as a smallest counterexample. From them `Flows`: totals, the boundary
  flow of any set of accounts, the volume of any candidate and the statistics of
  accounts are exact. `NeverPurer` is about one step of the adding loop and needs
  no invariant but the types: the score is a product of falling shares.
  `EvidenceSound` is about the digraph of any candidate, by counting: a one-to-one
  map for what must be as many (the two payments of a mutual pair, the accounts of
  a cycle and the payments they make on it), parts and wholes for what is a share,
  and for the layered score that five of its nine blocks are empty.
- **`CandidatesProofs`** (for any graph, seed, hop budget, hub guard, cap,
  strategy and walking order; any list, positive threshold and ordering).
  It starts with lemmas on graphs: what the pairs say of neighbours, and that the
  reach within k hops, a recursive function, grows by the neighbours of its members
  (induction over the naturals is written as a smallest counterexample too).
  `StageInv` says what each stage hands to the next, `ReachInv` that what is seen
  is the reach of the completed hops unless the trace says otherwise, and that
  whatever left the frontier was expanded or refused, `StructureInv` that what is
  kept hangs together with the seed: `ExpansionSound`, `PruningSound`,
  `PrunedInOnePiece`. Inside it `StrategiesCoincide`: on a two-hop neighbourhood
  everything a far account kept by leaf2 is tied to is kept as well, so the
  second pass of `near_or_linked` never removes anything. The equal rows that
  `sentinel/config.py` reports for the two strategies are a fact about the code,
  not about the data. `SuppressInv` says that the list is sorted, the index
  exact, and everything before the loop index kept or absorbed by a survivor
  before it: `Sound` and `ScoreFree`, on top of `SizeBoundIsLossless` (the
  pre-rejection never rules out a pair that reaches the threshold).
- **`CandidateGeneratorProofs`** (for any accounts, batches, lookback, capacity and
  caller). `LookbackInv` says which ticks the deque of observed accounts stands
  for, `SeedsInv` where in the funnel each seed is, `QueueInv` how ranking and
  control arm share the capacity. Theorems: `SeedsRight`, `NothingIsLost`,
  `CapacitySpentWell`.
- **`RecommendationsProofs`** (for any bodies, people, fault set and bounds).
  `HumanGate` needs that a decision lies before now, `AnsweredIsKnown` that the log
  has a row for every answer, and both that memory is at least as far on as any
  row; `StoryInv` is their conjunction. Theorems: `TypeCorrect`, `GateHolds`,
  `OneStory`, `NothingAnsweredIsForgotten`; the action property
  `DecisionsAreInformed`; and `LogIsALedger`, that the log as `load()` reads it
  steps as `EscalationGate` does, through any crash and replay.
- **`ReviewProofs`** (for any cases, faults and analysts). `StoreInv` relates the
  server's memory to the two files, torn lines included: `VerdictsStand`.
  `LabelInv` relates a disposition to the record it was given about:
  `LabelsBelong` and the refinement `FilesAreALedger` hold as long as the queue
  has been built at most once, a hypothesis the code does not grant. The run
  `case_store_rebuilt` shows what a second build does. `ReviewInv` says what the
  page's panels, requests in flight and the server have in common at every
  `await`: `PatientReview` and `VerdictsAreFinal`, under `Patient`, an analyst who
  waits for each request to end. `ScreenInv` holds of a page that no request about
  what it shows has failed for; `behind` says which one has, and the theorems except
  exactly that: a verdict from a page whose case request failed, a press on a log
  whose last press was lost. `ToldInv` relates verdicts the page was told of to the
  server: a retry may replace only one nobody was told of. The run
  `console_hasty_verdict` shows why the first condition is there.
- **`DraftingProofs`** (for any cases, drafts, streams, retries and faults).
  `DraftingInv` follows one request through its stages: calls made so far, what
  the counters already say and the file does not, and which rows a failed append or
  the end of the process may have left whole, torn or behind a torn one. Theorems: `CallsAreSpentWell`,
  `LedgerTellsTheTruth`, `ReportsStandOnTheirCases`. The last rests on the lemma
  that every line of the template cites what it states, on any stream.
- **`OfflineProofs`** (for any documents, readings, data sets, questions, cost
  models, terms, dispositions, identities, narratives and files). `PublicationInv` says
  that the documents being written and those already written are of one
  collection; of a typed number between zero and one the scanner reads what is
  written, and the forms of a superseded number at both precisions are looked for; `CorpusInv` that a file's key tells what its rows were made with,
  under any order of edits and deaths; for `CostsAreSound` the work is arithmetic:
  the value of a queue is monotone in each input, so that the corner of the box is
  its worst point. `WeightsFollowEvidence` counts the dispositions a term fired on
  and compares the fitted weight with the prior through the lift.
  `IdentityInv` says what the generator's passes leave behind: what two members of
  a legitimate structure share, all of them share; only addresses and internet
  addresses are on offer to those planted later, so nothing else crosses from one
  structure to another; and the files of the scan hang together. From it follow,
  for any numbering that the shuffle may produce, that a crowd is never escalated,
  that features and baselines agree with one another, and that every sentence of a
  narrative has its source
  (`OnlyRareSharingEscalates`, `IdentityTextsAreSourced`). It needs that shuffling
  is a permutation and that a multiplicity of sharing is at least one.
  `IngestionInv` says of each stage what it has read: `ParserInv` that the report
  accounts for every line and the open block for its rows; `StreamInv` that ids are
  the accounts in the order in which they were first seen, and that the kept rows
  correspond one to one, in order, to the transactions that are not self-loops. A
  stable sort, defined by where each row goes, is a bijection that keeps the order
  of the rows of one moment, so the stream is the files however the chunks fell;
  thinning is a set of places that contains the labelled ones, so the fixture has
  their rings. `TheStreamIsTheFiles` holds for any files and sizes as long as the
  slice of the fixture starts with the stream (`IngestionAssumption`; it does at the
  shipped ticks). What it says of the gates' cycles needs a fixture whose first
  edge is at minute zero: the gates count ticks from that edge, and from a later one
  the last cycle looks past the end of the slice. Theorems:
  `PublishedTogether`, `CorpusAnswers`, `CostsAreSound`, `WeightsFollowEvidence`,
  `OnlyRareSharingEscalates`, `IdentityTextsAreSourced`, `TheStreamIsTheFiles`.
- **`EvaluationProofs`** (for any rings, traffic, queues, seed rules, merges and
  depths). `EvaluationInv` has one part per program. `FunnelInv`: a ring has
  reached a stage exactly when some record found it there, so recall at a depth is
  what the records found. `DepthsAgree` inside it: what
  the deeper programs find contains what the others find and was built, and the two
  sets are equal while the hits are. `PoolInv`: the pool's labelled rows of a cycle are its hits,
  whatever order labels and cuts come in. `BandInv`: the cells of the threshold band
  nest, and the shipped one is the headline. `DiffInv`: the seed-rule replay,
  in a graph of its own, sees the cycles the funnel saw. `LinkInv`: an arm with
  merges keeps every ring that was built and loses at most the places its merges
  take. `ArmsInv`: no seed arm passes the one ceiling, and its rows pair cycle by cycle.
  The rest is arithmetic over the records: rings are partitioned by their owning
  cycle, the shares of a ring add up to one, the time split leaves no
  ring and no labelled row on two sides, and a ring is counted once in the rows built
  from it. It needs that a window's rings come out of a dictionary, that candidates
  are finite sets, that the one unit shared by cycles divides by their number, and
  that more seeds never leave a cycle without candidates (`EvaluationAssumption`).
  Theorem: `TheHarnessAgrees`.

The assumptions are the `ASSUME`s of the modules (natural bounds, time-ordered
streams, a positive threshold, finite accounts); TLC evaluates them in every run.

Only model-checked is liveness, which is beyond the prover: `EveryEdgeReplayed`,
`Returns`, `SelectionIsShown`, `EveryRequestAnswered`, and the fairness of
`ImplementsTrailingWindow`. Every invariant and action property of a passing run is
a theorem.

## Where code and documents disagree

The violation runs are listed under "findings" in `PROJECT.json`, with the lines
they contradict. Seen while modelling and not given a run:

Store, gate and console

- A decision whose append fails is in force in memory, and its execution is logged
  although the decision never is; `recommendation_store.py:6` says every change is
  (`api/app.py:415`).
- Ground truth is attached to a case after its only line was written, so the
  console never has it (`build_queue.py:57`, against `:4`).
- Confirming a case after dropping every member stores an empty confirmed list,
  which `cases/case.py:86` defines as all members (`api/app.py:252`).
- The timeline entry of a disposition is in memory only: a restart takes it off a
  timeline that the page calls immutable (`cases/store.py:61`, `app.js:241`).
- The server executes an approved recommendation again and logs it again; only the
  page's hidden button prevents it, so two quick presses execute twice
  (`escalation.py:113`). With `Patient = FALSE`, `LogIsAsShown` is violated.
- The repository's `README.md:1189` says that `insufficient_evidence` is excluded from both arms of
  every calculation; calibration does so, while the training rows, the re-ranker's
  fit and the confirm rate count it as a negative (`reranker.py:127`,
  `cases/store.py:123`).
- An investigation that arrives after the page has moved on rebinds the new
  panel's recommend button to its own case (`app.js:326`); with `Patient = FALSE`,
  `RecommendationCitesItsCase` of `Console` is violated.
- After a verdict whose append failed the page says `Could not record that
  verdict.' (`app.js:273`) although memory, and with it the queue, has it until the
  server restarts; pressing again decides the case a second time.
- A request for a case that fails leaves the case before it on the page, live, with
  the selection already moved (`app.js:83`): even a patient analyst's verdict then goes
  to the case that was never shown. With `Patient = TRUE` too,
  `VerdictIsAboutTheCaseShown` of `Console` is violated.
- A lost answer leaves the page behind: a recommendation sent again is logged twice,
  and Execute pressed again executes again.
- The single-key shortcuts ignore an INPUT but not a TEXTAREA: a c typed into the
  rationale confirms the case (`app.js:434`).

Detector

- `observe` says that calling it on every tick is enforced; a first call that
  comes late is not refused, and seeds from fewer ticks (`candidates.py:216`).
- With a capacity of one, the control arm takes the only review; with zero it
  takes one that does not exist (`manager.py:66-68`).
- A ring that stays in the window is opened as a new case in every cycle; the
  counter `merged_into_existing` is never raised (`manager.py:44`).
- `near_or_linked` is called stricter than `leaf2` (`prune.py:118`); at the
  shipped depth it is the same.
- `is_fast_passthrough` judges a candidate in the window by statistics of the
  accounts' whole lives (`features.py`), and the layer counts that
  `MAX_CYCLES` and `max_degree` cut short enter the score as if exact.
- The ledger of a case is closed at the opening minute, which the detector had not
  seen, and starts at the window although the graph holds up to a tick more
  (`evidence.py:217`).
- `client.py:57` says that `complete` never raises; an exception of the HTTP library
  that is no `RequestError` passes it, and the request ends in an error 500.
- The reader of the narrative ledger leaves out lines it cannot parse
  (`eval_verifier_catch_rate.py:210`): one torn row takes the next one with it, and the
  denominator read from the file is smaller than the one that was counted.
- A sentence without a fact signal needs no citation, so a model's refusal passes
  the verifier and is filed as the report (`citation.py:89`).

Identities

- A hop of a planted chain keeps at least one attribute, and the stolen value may
  then overwrite just that one: the chain breaks (`synthetic_identity.py:252`).
- An open triple is looked at from its lowest id only, so a feature depends on how
  the applications are numbered (`identity_features.py:268`).

Offline programs

- A kept blend is called consistent after `--rescore` by comparing it with itself
  (`compile_corpus.py:94`), and a corpus that passes the drift check may hold
  features that today's code would not compute, because neither key nor check
  covers the code of a feature; `ConsistentCorpusIsCurrent` of `Corpus` states the
  stronger reading and is violated.
- `eval_phase2.py` reports the rings found to a depth of 100 and `ci_gates.py`
  those to 50 under the same name; they are equal only while no hit lies between.
- `metrics.json` records HEAD at collection; `store.py:27` says the commit the
  numbers were measured at.
- `render_docs.py` renders all documents to memory and then discards them:
  `render_file` reads `metrics.json` again and renders anew.
- `render.py:21` says that every verb emits the number with its context; the
  verb `metric` emits a bare value.
- A term that moves takes every refused term with it, for the weights are scaled to
  sum to one (`calibrate.py:333`, against `:32`); its record says that it did not
  move, beside two different weights. `RefusedTermsStay` of `Calibration` is violated.
- The comment at `calibrate.py:324` says that a lift of one is pulled toward zero;
  its target is the weight itself. The status for terms that are not scored cannot
  be reached.
- In `eval_cost.py` a joint break-even above one is not always the largest of its
  box, once adverse shares are clamped at one; whether a depth pays is.
- `build_stream.py:68` says that a collision of two rings on one transaction is
  counted; nothing counts it. Self-loops that match a ring are counted as matched
  and then dropped.
- `build_fixture.py:57` says that the slice starts a full window before the first
  cycle; it is clamped at the stream's start, and the gates count ticks from the
  fixture's own first edge, which is the stream's only if that edge is kept.
- `ci_gates.metrics` counts the candidates of a cycle without rings in its
  precision and `eval_funnel.py` does not; the funnel's stages are not nested, so
  the share of seeded rings that get built may exceed one.
- `eval_seed_arms.py:210` says that rows are aligned per cycle by construction. An
  arm gets no row for a cycle in which it has no candidates, and rows are paired by
  their places when there are equally many. Against the shipped arm that is enough,
  because an arm only adds seeds; two added arms may each lack a different cycle.
- The random arm of `eval_fragment_link.py` is called the same number of merges
  (lines 14 and 140); it may have fewer, as the draws are bounded. Its fourth
  criterion compares the overlap of merged candidates with the rings they meet with
  that of the others over all the rings those meet, where its pre-registration
  says those same rings.
- A group with as many positives as the cap keeps no negative, after the assertion
  that there is no such group (`eval_ranker.py:258`). If all early rings appear in
  one cycle the split leaves nothing to train on.

## What is not modelled

- The scores of candidates in the queue and the ranking of seed arms are numbers:
  arbitrary values, constrained only by how the code compares them. `Shapes` has
  the terms of the score and not its weighted sum.
- Statistical fitting (`reranker.py`, the models of `eval_ranker.py`), bootstrap
  percentiles and permutation tests: numerical, without a protocol.
- Text: the wording of narratives and briefs, the regular expressions that find
  facts and citations, percentages and factors among the literals, the layout of documents.
- Elliptic2 (`data/elliptic2.py`) is a second data set that no part of the
  detector replays; `eval/dataset.py` is a funnel without time over static edges.
- The remaining scripts under `scripts/` (label tax, fragmentation, seeding prize,
  sweeps) are experiments that call what is modelled here and keep nothing.
- What the console only draws (statistics, tables, the flow graph), the limit of
  fifty rows of its queue, and the API's views of statistics, actions and provider.
- Configuration: the models take its constants as CONSTANTS.

`PROJECT.json` lists every component with its status and the reason.

## Plan

All modules of the plan are written: the detector (`WindowedGraph`, `Shapes`,
`CandidateBuild`, `Suppression`, `CandidateGenerator`), review (`CaseStore`,
`Recommendations`, `Console`), reports (`CaseFile`, `Drafting`) and the offline
programs, and every safety property their passing runs check is proved. What could
still be added is breadth: the parts under "What is not modelled".
