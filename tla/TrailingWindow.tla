--------------------------- MODULE TrailingWindow ---------------------------
(***************************************************************************)
(* What the windowed graph promises, with no deque, no aggregates and no   *)
(* loops: a clock on the tick grid and the set of transactions the graph   *)
(* is made of.  The clock may move only once the set is exactly what the   *)
(* clock's window calls for, so at every tick boundary the graph is a      *)
(* function of the clock and the stream alone, whatever was added and      *)
(* expired on the way (window.py:1-22, the module's own description).      *)
(***************************************************************************)
EXTENDS Integers, Sequences

CONSTANTS Window, Tick

VARIABLES stream, now, live

vars == <<stream, now, live>>

Positions == 1..Len(stream)

\* End of the tick that yields a transaction: ticks lie on multiples of Tick.
TickEnd(p) == (stream[p].ts \div Tick) * Tick + Tick

\* A tick retires as a unit, once its end is a window's length old.
InWindow(at) == {p \in Positions : /\ stream[p].ts < at
                                   /\ TickEnd(p) > at - Window}

Init ==
  /\ now = 0
  /\ live = {}

\* Time passes; InWindow of the old clock must have been reached.
Advance ==
  /\ live = InWindow(now)
  /\ now' > now
  /\ now' % Tick = 0
  /\ UNCHANGED <<stream, live>>

\* Transactions come in and go out one at a time, in stream order.
Enter ==
  \E p \in InWindow(now) \ live :
    /\ \A q \in live : q < p
    /\ live' = live \cup {p}
    /\ UNCHANGED <<stream, now>>

Leave ==
  \E p \in live \ InWindow(now) :
    /\ \A q \in live : p <= q
    /\ live' = live \ {p}
    /\ UNCHANGED <<stream, now>>

Next == Advance \/ Enter \/ Leave

\* Whatever the window calls for eventually happens.
Spec == Init /\ [][Next]_vars /\ WF_vars(Enter \/ Leave)
=============================================================================
