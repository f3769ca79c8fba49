--------------------------- MODULE WindowedGraph ---------------------------
(***************************************************************************)
(* The sliding-window money graph (src/sentinel/graph/window.py) driven by *)
(* the replay of the compiled stream (src/sentinel/stream/replay.py).      *)
(*                                                                         *)
(* `add_batch' and `_expire' are two nested loops over column slices.  One *)
(* action below is one iteration of one of those loops, so that every      *)
(* intermediate state of the incremental bookkeeping is a state of the     *)
(* model; callers see the graph only in the states with pc = "idle".       *)
(*                                                                         *)
(* A transaction is named by its position in the stream: a Batch is a      *)
(* slice of the stream's columns, and a pending entry keeps that slice.    *)
(* Abstracted: the label and the currency columns, and of the per-account  *)
(* moments everything but count, sum and the two extreme times.            *)
(***************************************************************************)
EXTENDS Integers, Sequences, FiniteSets, FiniteSetsExt

CONSTANTS
  Nodes,        \* account ids
  Window,       \* WindowedGraph.window, in minutes
  Tick,         \* the `minutes' of Stream.ticks
  StreamSet     \* the compiled streams considered

Edge == [src : Nodes, dst : Nodes, ts : Nat, amount : Nat]

\* Stream.__init__ refuses a stream that is not time-ordered.
TimeOrdered(s) == \A i, j \in 1..Len(s) : i <= j => s[i].ts <= s[j].ts

ASSUME WindowAssumption ==
  /\ Window \in Nat \ {0}
  /\ Tick \in Nat \ {0}
  /\ StreamSet \subseteq Seq(Edge)
  /\ \A s \in StreamSet : Len(s) > 0 /\ TimeOrdered(s)

VARIABLES
  stream,         \* the columns of edges.parquet, never written
  t, left,        \* the generator's locals: next tick, positions handed out
  now, pairs, out_adj, in_adj, total_out, total_in, account_stats,
  pending,        \* deque of slices awaiting expiry
  n_added, n_expired,
  pc, cur, i      \* where the call is: loop, slice being looped over, index

source    == <<stream, t, left>>
aggregates == <<pairs, out_adj, in_adj, total_out, total_in>>
vars == <<stream, t, left, now, pairs, out_adj, in_adj, total_out, total_in,
          account_stats, pending, n_added, n_expired, pc, cur, i>>

-----------------------------------------------------------------------------
(* Small operators of the data structures.                                 *)

Key(e) == <<e.src, e.dst>>

\* dict item assignment and deletion
Put(f, k, v) == [x \in DOMAIN f \cup {k} |-> IF x = k THEN v ELSE f[x]]
Del(f, k) == [x \in DOMAIN f \ {k} |-> f[x]]

\* The sum of f over S.
Total(f, S) == MapThenSumSet(LAMBDA x : f[x], S)

\* d[k] += v on a defaultdict(float)
Bump(f, k, v) == Put(f, k, (IF k \in DOMAIN f THEN f[k] ELSE 0) + v)

NewAgg == [count |-> 0, amount |-> 0, first_t |-> 0, last_t |-> 0]

\* PairAgg.add
AggAdd(agg, e) ==
  [count   |-> agg.count + 1,
   amount  |-> agg.amount + e.amount,
   first_t |-> IF agg.count = 0 THEN e.ts ELSE agg.first_t,
   last_t  |-> e.ts]

\* PairAgg.remove: the two times are not revised
AggRemove(agg, e) ==
  [agg EXCEPT !.count = agg.count - 1, !.amount = agg.amount - e.amount]

Moments0 == [n |-> 0, total |-> 0, first_t |-> -1, last_t |-> -1]

\* Moments.add
MomentsAdd(m, x, at) ==
  [n |-> m.n + 1,
   total |-> m.total + x,
   first_t |-> IF m.first_t < 0 \/ at < m.first_t THEN at ELSE m.first_t,
   last_t |-> IF at > m.last_t THEN at ELSE m.last_t]

Stats0 == [inflow |-> Moments0, outflow |-> Moments0, quiet_before_first |-> 0]

\* The dormancy stamp set on an account's first transaction in add_batch.
Stamp(st, at) ==
  IF st.outflow.n = 0 /\ st.inflow.n = 0
  THEN [st EXCEPT !.quiet_before_first = at] ELSE st

Pays(st, e) == [Stamp(st, e.ts) EXCEPT !.outflow = MomentsAdd(@, e.amount, e.ts)]
IsPaid(st, e) == [Stamp(st, e.ts) EXCEPT !.inflow = MomentsAdd(@, e.amount, e.ts)]

\* account_stats after one edge: payer first, then payee (a self-transfer
\* therefore stamps once).
StatsAdd(stats, e) ==
  LET out == [stats EXCEPT ![e.src] = Pays(@, e)]
  IN [out EXCEPT ![e.dst] = IsPaid(@, e)]

NoSlice == [t_end |-> 0, first |-> 1, last |-> 0]
Size(s) == s.last - s.first + 1
Maximum(a, b) == IF a >= b THEN a ELSE b

-----------------------------------------------------------------------------
Init ==
  /\ stream \in StreamSet
  /\ t = stream[1].ts - (stream[1].ts % Tick)
  /\ left = 0
  /\ now = 0
  /\ pairs = <<>>
  /\ out_adj = [n \in Nodes |-> {}]
  /\ in_adj = [n \in Nodes |-> {}]
  /\ total_out = <<>>
  /\ total_in = <<>>
  /\ account_stats = [n \in Nodes |-> Stats0]
  /\ pending = <<>>
  /\ n_added = 0
  /\ n_expired = 0
  /\ pc = "idle"
  /\ cur = NoSlice
  /\ i = 1

\* hi = t_max + 1, exclusive
MoreTicksShort == t < stream[Len(stream)].ts          \* mutant: hi = t_max
MoreTicks == t < stream[Len(stream)].ts + 1

\* The next Batch is yielded and add_batch is entered.  `right' is
\* searchsorted(ts, t + Tick, side="left").
StartBatch ==
  /\ pc = "idle"
  /\ MoreTicks
  /\ \E right \in left..Len(stream) :
       /\ \A k \in left + 1..right : stream[k].ts < t + Tick
       /\ right < Len(stream) => stream[right + 1].ts >= t + Tick
       /\ left' = right
       /\ cur' = [t_end |-> t + Tick, first |-> left + 1, last |-> right]
       /\ pc' = IF right > left THEN "add" ELSE "expire"
  /\ i' = left + 1
  /\ t' = t + Tick
  /\ now' = Maximum(now, t + Tick)
  /\ UNCHANGED <<stream, aggregates, account_stats, pending,
                 n_added, n_expired>>

\* One iteration of add_batch's loop; the last one also counts the batch and
\* appends its slice to the deque.
AddEdge ==
  /\ pc = "add"
  /\ LET e == stream[i]
         k == Key(e)
         fresh == k \notin DOMAIN pairs
     IN /\ pairs' = Put(pairs, k, AggAdd(IF fresh THEN NewAgg ELSE pairs[k], e))
        /\ out_adj' = IF fresh THEN [out_adj EXCEPT ![e.src] = @ \cup {e.dst}]
                      ELSE out_adj
        /\ in_adj' = IF fresh THEN [in_adj EXCEPT ![e.dst] = @ \cup {e.src}]
                     ELSE in_adj
        /\ total_out' = Bump(total_out, e.src, e.amount)
        /\ total_in' = Bump(total_in, e.dst, e.amount)
        /\ account_stats' = StatsAdd(account_stats, e)
  /\ i' = i + 1
  /\ IF i = cur.last
     THEN /\ n_added' = n_added + Size(cur)
          /\ pending' = Append(pending, cur)
          /\ pc' = "expire"
     ELSE UNCHANGED <<n_added, pending, pc>>
  /\ UNCHANGED <<source, now, n_expired, cur>>

\* mutant: a tick whose end is exactly a window old is kept for one more call
DueLate == Len(pending) > 0 /\ Head(pending).t_end < now - Window

Due == Len(pending) > 0 /\ Head(pending).t_end <= now - Window

\* _expire's outer loop takes the next due slice off the deque...
PopSlice ==
  /\ pc = "expire"
  /\ Due
  /\ cur' = Head(pending)
  /\ pending' = Tail(pending)
  /\ i' = Head(pending).first
  /\ pc' = "remove"
  /\ UNCHANGED <<source, now, aggregates, account_stats, n_added, n_expired>>

\* ...or finds none and the call returns.
Return ==
  /\ pc = "expire"
  /\ ~Due
  /\ pc' = "idle"
  /\ UNCHANGED <<source, now, aggregates, account_stats, pending,
                 n_added, n_expired, cur, i>>

\* The last transaction of e's pair expires: the pair goes, then the adjacency
\* entry, then the running total of an endpoint left without edges there.
DropPair(e) ==
  /\ pairs' = Del(pairs, Key(e))
  /\ out_adj' = [out_adj EXCEPT ![e.src] = @ \ {e.dst}]
  /\ in_adj' = [in_adj EXCEPT ![e.dst] = @ \ {e.src}]
  /\ LET out == Bump(total_out, e.src, -e.amount)
         inn == Bump(total_in, e.dst, -e.amount)
     IN /\ total_out' = IF out_adj'[e.src] = {} THEN Del(out, e.src) ELSE out
        /\ total_in' = IF in_adj'[e.dst] = {} THEN Del(inn, e.dst) ELSE inn

\* The pair outlives e.
LowerPair(e) ==
  /\ pairs' = Put(pairs, Key(e), AggRemove(pairs[Key(e)], e))
  /\ total_out' = Bump(total_out, e.src, -e.amount)
  /\ total_in' = Bump(total_in, e.dst, -e.amount)
  /\ UNCHANGED <<out_adj, in_adj>>

\* mutant: the payee's adjacency entry is not discarded
ForgetKeepsInAdj(e) ==
  IF pairs[Key(e)].count > 1
  THEN LowerPair(e)
  ELSE /\ pairs' = Del(pairs, Key(e))
       /\ out_adj' = [out_adj EXCEPT ![e.src] = @ \ {e.dst}]
       /\ UNCHANGED <<in_adj, total_out, total_in>>

\* What expiring edge e does to the aggregates when its pair is present.
Forget(e) ==
  IF AggRemove(pairs[Key(e)], e).count > 0 THEN LowerPair(e) ELSE DropPair(e)

\* One iteration of _expire's inner loop; an absent pair is skipped.
RemoveEdge ==
  /\ pc = "remove"
  /\ IF Key(stream[i]) \in DOMAIN pairs
     THEN Forget(stream[i])
     ELSE UNCHANGED aggregates
  /\ i' = i + 1
  /\ IF i = cur.last
     THEN /\ n_expired' = n_expired + Size(cur)
          /\ pc' = "expire"
     ELSE UNCHANGED <<n_expired, pc>>
  /\ UNCHANGED <<source, now, account_stats, pending, n_added, cur>>

Next == StartBatch \/ AddEdge \/ PopSlice \/ RemoveEdge \/ Return

\* One thread runs the replay loop to its end and nothing blocks it.
Spec == Init /\ [][Next]_vars /\ WF_vars(Next)

-----------------------------------------------------------------------------
(* Type invariant                                                          *)

Slice == [t_end : Nat, first : Nat, last : Nat]
Agg == [count : Nat \ {0}, amount : Int, first_t : Nat, last_t : Nat]

ControlOK ==
  /\ stream \in Seq(Edge) /\ Len(stream) > 0 /\ TimeOrdered(stream)
  /\ t \in Nat /\ left \in 0..Len(stream) /\ now \in Nat
  /\ pending \in Seq(Slice) /\ cur \in Slice /\ i \in Nat
  /\ pc \in {"idle", "add", "expire", "remove"}

AggregatesOK ==
  /\ DOMAIN pairs \subseteq Nodes \X Nodes
  /\ \A k \in DOMAIN pairs : pairs[k] \in Agg
  /\ out_adj \in [Nodes -> SUBSET Nodes]
  /\ in_adj \in [Nodes -> SUBSET Nodes]
  /\ DOMAIN total_out \subseteq Nodes
  /\ DOMAIN total_in \subseteq Nodes

TypeOK == ControlOK /\ AggregatesOK

-----------------------------------------------------------------------------
(* Safety                                                                  *)

\* The positions whose contribution the aggregates hold right now: the slices
\* on the deque, the part of the arriving slice already added, the part of the
\* expiring slice not yet removed.
OnDeque(p) == \E k \in 1..Len(pending) :
                 pending[k].first <= p /\ p <= pending[k].last

Held == {p \in 1..left : \/ OnDeque(p)
                         \/ pc = "add" /\ cur.first <= p /\ p < i
                         \/ pc = "remove" /\ i <= p /\ p <= cur.last}

HeldOf(k) == {p \in Held : Key(stream[p]) = k}

\* Adjacency and the pair table never disagree, in any iteration of either
\* loop: what `expand' walks is exactly what `subgraph_edges' can look up
\* (window.py add_batch/_expire; a missing discard would raise KeyError there).
AdjacencyMatchesPairs ==
  \A s, d \in Nodes :
    /\ <<s, d>> \in DOMAIN pairs <=> d \in out_adj[s]
    /\ <<s, d>> \in DOMAIN pairs <=> s \in in_adj[d]

\* Every pair's count is the number of its transactions still held, and a pair
\* exists only while it has one: expiry removes precisely what addition put in
\* although it sees only the slice, never the pair's history
\* (window.py:296 check_invariants, "window conservation").
CountsMatchHeld ==
  \A k \in Nodes \X Nodes :
    /\ k \in DOMAIN pairs <=> HeldOf(k) # {}
    /\ k \in DOMAIN pairs => pairs[k].count = Cardinality(HeldOf(k))

Amounts == [k \in DOMAIN pairs |-> pairs[k].amount]

\* The running per-node totals are the sums a fresh pass over `pairs' gives,
\* and exist for exactly the nodes that pass would list
\* (window.py:280-302 check_invariants).
TotalsMatchPairs ==
  /\ DOMAIN total_out = {k[1] : k \in DOMAIN pairs}
  /\ DOMAIN total_in = {k[2] : k \in DOMAIN pairs}
  /\ \A n \in DOMAIN total_out :
       total_out[n] = Total(Amounts, {k \in DOMAIN pairs : k[1] = n})
  /\ \A n \in DOMAIN total_in :
       total_in[n] = Total(Amounts, {k \in DOMAIN pairs : k[2] = n})

\* When a call has returned, no transaction as recent as the window has been
\* dropped and none older than the window plus one tick is kept, so "an edge
\* survives for the window plus up to one tick" (window.py:15-18).
RetentionBound ==
  pc = "idle" =>
    \A p \in 1..left :
      /\ stream[p].ts >= now - Window => p \in Held
      /\ p \in Held => stream[p].ts >= now - Window - Tick

\* last_t of a pair is the time of its latest transaction still held; expiry
\* never has to revise it because slices expire in arrival order.
LastTimeIsHeld ==
  \A k \in DOMAIN pairs :
    \E p \in HeldOf(k) : /\ pairs[k].last_t = stream[p].ts
                         /\ \A q \in HeldOf(k) : q <= p

\* What the rest of the detector reads of a pair agrees with the transactions
\* held: both ways to find it, its count and its last time, in every iteration
\* of either loop (add_batch and _expire).
PairTableExact == AdjacencyMatchesPairs /\ CountsMatchHeld /\ LastTimeIsHeld

\* Account statistics are over the whole observed history: expiry never lowers
\* them, so an account's lifetime flow is at least what the window holds of it.
LifetimeCoversWindow ==
  \A n \in Nodes :
    /\ n \in DOMAIN total_out => account_stats[n].outflow.total >= total_out[n]
    /\ n \in DOMAIN total_in => account_stats[n].inflow.total >= total_in[n]
    /\ account_stats[n].outflow.n =
         Cardinality({p \in 1..(IF pc = "add" THEN i - 1 ELSE left) :
                        stream[p].src = n})

-----------------------------------------------------------------------------
(* The inductive strengthening: where slices lie relative to one another,  *)
(* to the loop in progress and to the clock.                               *)

SliceTimes(s) ==
  \A p \in s.first..s.last : /\ s.t_end - Tick <= stream[p].ts
                             /\ stream[p].ts < s.t_end

\* The deque holds disjoint slices in stream order, oldest at its head.
DequeOrdered ==
  /\ \A k \in 1..Len(pending) :
       /\ 1 <= pending[k].first /\ pending[k].first <= pending[k].last
       /\ pending[k].last <= left
       /\ pending[k].t_end <= now
       /\ SliceTimes(pending[k])
  /\ \A k, l \in 1..Len(pending) :
       k < l => /\ pending[k].last < pending[l].first
                /\ pending[k].t_end <= pending[l].t_end

\* The slice of the loop in progress lies after everything on the deque while
\* it is added, before everything on it while it is removed.
LoopPlaced ==
  /\ pc = "add" =>
       /\ 1 <= cur.first /\ cur.first <= i /\ i <= cur.last /\ cur.last = left
       /\ cur.t_end = now /\ SliceTimes(cur)
       /\ \A k \in 1..Len(pending) : pending[k].last < cur.first
  /\ pc = "remove" =>
       /\ 1 <= cur.first /\ cur.first <= i /\ i <= cur.last /\ cur.last <= left
       /\ cur.t_end <= now - Window /\ SliceTimes(cur)
       /\ \A k \in 1..Len(pending) : cur.last < pending[k].first
  /\ pc = "idle" => \A k \in 1..Len(pending) : pending[k].t_end > now - Window

\* What is still to come is no earlier than the next tick.
ClockOrdered ==
  /\ now <= t
  /\ \A p \in 1..Len(stream) : left < p => t <= stream[p].ts

\* What was handed out is held, about to be added, or old enough to be gone.
NothingLost ==
  \A p \in 1..left : \/ p \in Held
                     \/ pc = "add" /\ i <= p
                     \/ stream[p].ts < now - Window

SliceInv == DequeOrdered /\ LoopPlaced /\ ClockOrdered /\ NothingLost

-----------------------------------------------------------------------------
(* What the graph implements                                               *)

\* Observed through the set of transactions it holds, the graph implements the
\* trailing window, loops, deque and all: nothing due to expire is held when
\* the clock next moves, nothing recent is missing, and each call gets there.
Abstract == INSTANCE TrailingWindow WITH live <- Held
ImplementsTrailingWindow == Abstract!Spec

-----------------------------------------------------------------------------
(* Liveness                                                                *)

\* Every transaction of the stream gets into the graph: the replay neither
\* stops early nor loops in _expire.
EveryEdgeReplayed == <>[](pc = "idle" /\ left = Len(stream)
                          /\ n_added = Len(stream))
=============================================================================
