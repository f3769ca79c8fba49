----------------------------- MODULE Ingestion -----------------------------
(***************************************************************************)
(* From AMLworld's files to a replayable stream: the parser of the ground  *)
(* truth (src/sentinel/data/patterns.py), the join and the sort of         *)
(* src/scripts/build_stream.py, the account registry                       *)
(* (src/sentinel/data/accounts.py), and the slice that                     *)
(* src/scripts/build_fixture.py freezes for the gates of ci_gates.py.      *)
(*                                                                         *)
(* Time is in ticks.  A bank is written as a sequence of digits; account   *)
(* numbers, currencies and channels are left out, and an amount is a       *)
(* number, for amount_key makes 1.0 and 1.00 one key.  Lines and rows are  *)
(* read one by one, the transactions in chunks.                            *)
(***************************************************************************)
EXTENDS Selection, FiniteSetsExt, SequencesExt

CONSTANTS
  Typologies,
  PatternRows,         \* rows of the pattern file: [ts, from, to, amount]
  Labelled, Plain,     \* rows of the transactions, by Is Laundering
  MaxLines, MaxChunks, \* bounds: lines of patterns, chunks of transactions
  MaxChunk,            \* CHUNK
  AccountFiles,        \* accounts files: sequences of [bank, entity]
  START_TICK, N_CYCLES, EVERY, Window, MinNodes,
  MaxEdges             \* values of --max-edges

ASSUME IngestionAssumption ==
  /\ {START_TICK, EVERY, Window, MinNodes, MaxChunk} \subseteq Nat \ {0}
  /\ N_CYCLES \in Nat \ {0} /\ MaxEdges \subseteq Nat
  /\ "none" \notin Typologies
  /\ \A p \in Labelled \cup Plain : p.ts \in Nat
  /\ \A file \in AccountFiles : file \in Seq(ToSet(file))
  \* the slice starts with the stream: t_lo of build_fixture is 0
  /\ START_TICK + (N_CYCLES - 1) * EVERY + 1 <= Window + EVERY

VARIABLES
  stage,      \* "patterns", "transactions", "accounts", "compiled",
              \* "frozen" or "refused" (load_rings, strict)
  parser,     \* [typology, rows]: the open block, NoBlock without one
  rep,        \* ParseReport
  rings,      \* LabeledRings: [typology, edges]
  csv,        \* ghost: the rows of transactions read
  node_ids,   \* account keys in the order of their ids, from 0
  parts,      \* the rows kept: [ts, src, dst, label, ring], ids from 0
  matched,    \* n_matched
  registry,   \* accounts: the keys known, in order, with their entity
  stream,     \* edges.parquet
  fixture     \* the slice: [edges, node_keys], node_keys of old ids

ingestionVars == <<stage, parser, rep, rings, csv, node_ids, parts, matched,
                   registry, stream, fixture>>

\* digits without leading zeros; the bank that is nothing but zeros stays one,
\* and a missing one is a bank of its own
account_key(bank) ==
  IF bank = <<>> THEN <<-1>>   \* ?:
  ELSE LET digits == {n \in DOMAIN bank : bank[n] # 0}
       IN IF digits = {} THEN <<0>> ELSE SubSeq(bank, Min(digits), Len(bank))

Src(p) == account_key(p.from)
Dst(p) == account_key(p.to)

-----------------------------------------------------------------------------
(* The pattern file.                                                       *)

NoBlock == [typology |-> "none", rows |-> <<>>]
Bad == [ts |-> 0, from |-> <<>>, to |-> <<>>, amount |-> -1]   \* parse_row raises

NoReport == [blocks_begun |-> 0, blocks_closed |-> 0, rings_emitted |-> 0,
             edges_emitted |-> 0, empty_blocks |-> 0, nested_begins |-> 0,
             unmatched_ends |-> 0, unclosed_at_eof |-> 0, orphan_rows |-> 0,
             malformed_rows |-> 0, typology_mismatches |-> 0, lines |-> 0,
             rows |-> 0]   \* the last two are ghosts

Anomalies(r) ==
  {n \in {"empty_blocks", "nested_begins", "unmatched_ends", "unclosed_at_eof",
          "orphan_rows", "malformed_rows", "typology_mismatches"} : r[n] > 0}

InBlock == parser.typology # "none"
Edges(rows) == Only(rows, ToSet(rows) \ {Bad})
Count(b) == IF b THEN 1 ELSE 0

\* flush: the report, when a block is closed by an END, a BEGIN or the end
flush(closing, r) ==
  [r EXCEPT !.typology_mismatches = @ + Count(closing \notin {"none", parser.typology}),
            !.malformed_rows = @ + Len(parser.rows) - Len(Edges(parser.rows)),
            !.empty_blocks = @ + Count(Edges(parser.rows) = <<>>),
            !.edges_emitted = @ + Len(Edges(parser.rows)),
            !.rings_emitted = @ + Count(Edges(parser.rows) # <<>>)]
Flushed ==
  IF Edges(parser.rows) = <<>> THEN rings
  ELSE Append(rings, [typology |-> parser.typology, edges |-> Edges(parser.rows)])

Read(r) == [r EXCEPT !.lines = @ + 1]

Begin(typology) ==
  /\ IF InBlock
     THEN /\ rep' = [flush("none", Read(rep)) EXCEPT !.nested_begins = @ + 1,
                                                     !.blocks_begun = @ + 1]
          /\ rings' = Flushed
     ELSE rep' = [Read(rep) EXCEPT !.blocks_begun = @ + 1] /\ UNCHANGED rings
  /\ parser' = [typology |-> typology, rows |-> <<>>]

End(typology) ==
  /\ IF InBlock
     THEN /\ rep' = [flush(typology, Read(rep)) EXCEPT !.blocks_closed = @ + 1]
          /\ rings' = Flushed
     ELSE /\ rep' = [Read(rep) EXCEPT !.blocks_closed = @ + 1,
                                      !.unmatched_ends = @ + 1]
          /\ UNCHANGED rings
  /\ parser' = NoBlock

Row(p) ==
  /\ IF InBlock
     THEN /\ parser' = [parser EXCEPT !.rows = Append(@, p)]
          /\ rep' = [Read(rep) EXCEPT !.rows = @ + 1]
     ELSE /\ rep' = [Read(rep) EXCEPT !.rows = @ + 1, !.orphan_rows = @ + 1]
          /\ UNCHANGED parser
  /\ UNCHANGED rings

load_rings ==
  /\ stage = "patterns" /\ rep.lines < MaxLines
  /\ \/ \E t \in Typologies : Begin(t) \/ End(t)
     \/ \E p \in PatternRows \cup {Bad} : Row(p)
  /\ UNCHANGED <<stage, csv, node_ids, parts, matched, registry, stream, fixture>>

\* load_rings(strict=True), as build_stream calls it
EndOfPatterns ==
  /\ stage = "patterns"
  /\ IF InBlock
     THEN /\ rep' = [flush("none", rep) EXCEPT !.unclosed_at_eof = @ + 1]
          /\ rings' = Flushed
     ELSE UNCHANGED <<rep, rings>>
  /\ parser' = NoBlock
  /\ stage' = IF Anomalies(rep') = {} THEN "transactions" ELSE "refused"
  /\ UNCHANGED <<csv, node_ids, parts, matched, registry, stream, fixture>>

-----------------------------------------------------------------------------
(* build_stream.                                                           *)

Claims(p, r) == \E e \in ToSet(rings[r].edges) :
                  /\ e.ts = p.ts /\ e.amount = p.amount
                  /\ Src(e) = Src(p) /\ Dst(e) = Dst(p)

\* build_label_index: the first ring that claims a transaction; -1 is none
label_index(p) ==
  LET claiming == {r \in DOMAIN rings : Claims(p, r)}
  IN IF claiming = {} THEN -1 ELSE Min(claiming) - 1

RingOf(row) == IF row.label = 1 THEN label_index(row.p) ELSE -1
IsLoop(row) == Src(row.p) = Dst(row.p)
WithoutLoops(rows) == Only(rows, {r \in ToSet(rows) : ~IsLoop(r)})

\* codes: ids in the order of first sight
Codes(values, table) ==
  table \o PickedAt(values, {n \in DOMAIN values : /\ values[n] \notin ToSet(table)
                                                /\ \A m \in 1..(n - 1) : values[m] # values[n]})
IdOf(key, table) == (CHOOSE n \in DOMAIN table : table[n] = key) - 1

Chunks == UNION {[1..n -> [p : Labelled, label : {1}] \cup [p : Plain, label : {0}]] :
                   n \in 1..MaxChunk}

\* A chunk: all its sources are coded before its destinations, self-loops are
\* matched and coded with the rest and dropped last.
ReadChunk(chunk) ==
  /\ csv' = csv \o chunk
  /\ matched' = matched + Cardinality({n \in DOMAIN chunk : RingOf(chunk[n]) >= 0})
  /\ node_ids' = Codes([n \in DOMAIN chunk |-> Dst(chunk[n].p)],
                       Codes([n \in DOMAIN chunk |-> Src(chunk[n].p)], node_ids))
  /\ LET kept == WithoutLoops(chunk)
     IN parts' = parts \o
          [n \in DOMAIN kept |->
             [ts |-> kept[n].p.ts, src |-> IdOf(Src(kept[n].p), node_ids'),
              dst |-> IdOf(Dst(kept[n].p), node_ids'),
              label |-> kept[n].label, ring |-> RingOf(kept[n])]]

ReadTransactions ==
  /\ stage = "transactions" /\ Len(csv) < MaxChunk * MaxChunks
  /\ Len(csv) % MaxChunk = 0   \* only the last chunk may be short
  /\ \E chunk \in Chunks : ReadChunk(chunk)
  /\ UNCHANGED <<stage, parser, rep, rings, registry, stream, fixture>>

\* np.argsort(kind="stable") by ts
Sorted(edges) == SortedBy(edges, [n \in DOMAIN edges |-> edges[n].ts])

Compile ==
  /\ stage = "transactions" /\ parts # <<>>
  /\ stream' = Sorted(parts)
  /\ stage' = "accounts"
  /\ UNCHANGED <<parser, rep, rings, csv, node_ids, parts, matched, registry,
                 fixture>>

-----------------------------------------------------------------------------
(* AccountRegistry.load: the first row of a key wins.                      *)

Registered(file) ==
  LET banked == {n \in DOMAIN file : file[n].bank # <<>>}
      key == [n \in banked |-> account_key(file[n].bank)]
      first == PickedAt(file, {n \in banked : \A m \in banked : m < n => key[m] # key[n]})
  IN [n \in DOMAIN first |-> [key |-> account_key(first[n].bank), entity |-> first[n].entity]]

LoadAccounts(file) ==
  /\ stage = "accounts"
  /\ registry' = Registered(file)
  /\ stage' = "compiled"
  /\ UNCHANGED <<parser, rep, rings, csv, node_ids, parts, matched, stream, fixture>>

\* siblings: the other accounts of an owner; the blank owner owns none
siblings(key) ==
  {registry[n].key : n \in {m \in DOMAIN registry :
     /\ registry[m].key # key /\ registry[m].entity # ""
     /\ [key |-> key, entity |-> registry[m].entity] \in ToSet(registry)}}

-----------------------------------------------------------------------------
(* build_fixture.                                                          *)

LastTick == START_TICK + (N_CYCLES - 1) * EVERY
SliceHi == LastTick + 1
SliceLo == Max({0, SliceHi - Window - EVERY})

InSlice == {e \in ToSet(stream) : SliceLo <= e.ts /\ e.ts < SliceHi}
Slice == Only(stream, InSlice)
Ends(e) == {e.src, e.dst}
Labels(edges) == {n \in DOMAIN edges : edges[n].ring >= 0}

ring_nodes == UNION {Ends(Slice[n]) : n \in Labels(Slice)}
keep == ring_nodes \cup UNION {Ends(e) : e \in {x \in ToSet(Slice) :
                                                  Ends(x) \cap ring_nodes # {}}}
Touching == {n \in DOMAIN Slice : Ends(Slice[n]) \cap keep # {}}

\* mutant: the earliest background edges, as a prefix, labelled ones included
ThinnedPrefix(idx, max_edges) == {n \in idx : Rank(n, idx) < max_edges}

\* every labelled edge, and a fixed stride over the background
Thinned(idx, max_edges) ==
  IF Cardinality(idx) <= max_edges THEN idx
  ELSE LET ring_idx == idx \cap Labels(Slice)
           bg == idx \ ring_idx
           room == Max({0, max_edges - Cardinality(ring_idx)})
           stride == IF room = 0 THEN Cardinality(bg) + 1
                     ELSE Max({1, Cardinality(bg) \div room})
       IN ring_idx \cup {n \in bg : /\ Rank(n, bg) % stride = 0
                                    /\ Rank(n, bg) \div stride < room}

BuildFixture(max_edges) ==
  LET idx == Thinned(Touching, max_edges)
      used == UNION {Ends(Slice[n]) : n \in idx}
      kept == PickedAt(Slice, idx)
  IN /\ stage = "compiled"
     /\ fixture' = [edges |-> Sorted([k \in DOMAIN kept |->
                      [kept[k] EXCEPT !.src = Rank(kept[k].src, used),
                                      !.dst = Rank(kept[k].dst, used)]]),
                    node_keys |-> [k \in 1..Cardinality(used) |->
                      node_ids[Nth(k, used) + 1]]]
     /\ stage' = "frozen"
     /\ UNCHANGED <<parser, rep, rings, csv, node_ids, parts, matched, registry,
                    stream>>

-----------------------------------------------------------------------------
NoFixture == [edges |-> <<>>, node_keys |-> <<>>]

IngestionInit ==
  /\ stage = "patterns" /\ parser = NoBlock /\ rep = NoReport
  /\ rings = <<>> /\ csv = <<>> /\ node_ids = <<>> /\ parts = <<>>
  /\ matched = 0 /\ registry = <<>> /\ stream = <<>> /\ fixture = NoFixture

IngestionNext ==
  \/ load_rings \/ EndOfPatterns \/ ReadTransactions \/ Compile
  \/ \E file \in AccountFiles : LoadAccounts(file)
  \/ \E n \in MaxEdges : BuildFixture(n)

IngestionSpec == IngestionInit /\ [][IngestionNext]_ingestionVars

-----------------------------------------------------------------------------
(* Properties.                                                             *)

IngestionTypeOK ==
  /\ stage \in {"patterns", "transactions", "accounts", "compiled", "frozen",
                "refused"}
  /\ parser.typology \in Typologies \cup {"none"}
  /\ \A r \in ToSet(rings) : r.typology \in Typologies /\ r.edges # <<>>
  /\ \A e \in ToSet(parts) : {e.src, e.dst} \subseteq 0..(Len(node_ids) - 1)
  /\ IsInjective(node_ids)

\* `Everything the parser cannot use is counted': rows and blocks balance at
\* every line, and a file that strict parsing accepts lost nothing.
ParserAccounts ==
  /\ rep.rows = rep.edges_emitted + rep.orphan_rows + rep.malformed_rows
                  + Len(parser.rows)
  /\ rep.blocks_begun = rep.rings_emitted + rep.empty_blocks + Count(InBlock)
  /\ rep.blocks_begun + rep.unmatched_ends =
       rep.blocks_closed + rep.nested_begins + rep.unclosed_at_eof + Count(InBlock)
  /\ rep.edges_emitted = MapThenSumSet(LAMBDA n : Len(rings[n].edges), DOMAIN rings)
  /\ stage \notin {"patterns", "refused"} =>
       rep.rows = rep.edges_emitted /\ rep.blocks_closed = Len(rings)

\* an edge in the accounts' own names
Named(e, keys) ==
  [ts |-> e.ts, from |-> keys[e.src + 1], to |-> keys[e.dst + 1],
   label |-> e.label, ring |-> e.ring]

Moments == {p.ts : p \in Labelled \cup Plain}

\* The stream is the transactions without self-loops, in the order of time
\* and, within a moment, of the file, whatever the chunks; a ring of two or
\* more accounts that was transacted is in it under its own number, but for
\* edges that an earlier ring claims too.
StreamIsTheFile ==
  stage \in {"accounts", "compiled"} =>
    /\ \A n \in 1..(Len(stream) - 1) : stream[n].ts <= stream[n + 1].ts
    /\ \A t \in Moments :
         LET rows == Only(csv, {r \in ToSet(csv) : ~IsLoop(r) /\ r.p.ts = t})
             edges == Only(stream, {e \in ToSet(stream) : e.ts = t})
         IN [n \in DOMAIN edges |-> Named(edges[n], node_ids)] =
              [n \in DOMAIN rows |->
                 [ts |-> t, from |-> Src(rows[n].p), to |-> Dst(rows[n].p),
                  label |-> rows[n].label, ring |-> RingOf(rows[n])]]
    /\ matched = Cardinality(Labels(stream))
                   + Cardinality({n \in DOMAIN csv : IsLoop(csv[n]) /\ RingOf(csv[n]) >= 0})
    /\ \A r \in DOMAIN rings : \A n \in DOMAIN csv :
         csv[n].label = 1 /\ ~IsLoop(csv[n]) /\ Claims(csv[n].p, r)
           /\ (\A s \in 1..(r - 1) : ~Claims(csv[n].p, s))
         => \E e \in ToSet(stream) : e.ring = r - 1 /\ e.ts = csv[n].p.ts

\* The two sources join however each pads its banks: an account of a file
\* with a bank has exactly one registered owner and country, and ownership is
\* symmetric.
RegistryJoins ==
  stage = "compiled" =>
    /\ \A m, n \in DOMAIN registry : registry[m].key = registry[n].key => m = n
    /\ \E file \in AccountFiles : \A row \in ToSet(file) :
         row.bank # <<>> =>
           \E r \in ToSet(registry) : r.key = account_key(row.bank)
    /\ \A n \in DOMAIN registry : \A other \in siblings(registry[n].key) :
         registry[n].key \in siblings(other)

\* From the files to the stream nothing is lost uncounted.
IngestionLosesNothing ==
  IngestionTypeOK /\ ParserAccounts /\ StreamIsTheFile /\ RegistryJoins

Cycles == {START_TICK + n * EVERY : n \in 0..(N_CYCLES - 1)}

\* ci_gates._active_rings, of edges under their accounts' names, at the tick
\* that is counted from the first edge of the stream
ActiveRings(edges, keys, tick) ==
  LET now == edges[1].ts + tick + 1
      live == {e \in ToSet(edges) : now - Window <= e.ts /\ e.ts < now /\ e.ring >= 0}
      members(r) == UNION {{keys[e.src + 1], keys[e.dst + 1]} :
                             e \in {x \in live : x.ring = r}}
  IN {[ring |-> r, members |-> members(r)] :
        r \in {x \in {e.ring : e \in live} : Cardinality(members(x)) >= MinNodes}}

\* The fixture stands for the stream: no labelled edge of its slice is thinned
\* away, no more background is kept than was asked for, order survives, and
\* whenever both begin in the first tick every gated cycle sees the same rings
\* with the same members (build_fixture.main, ci_gates.run_fixture).
FixtureStandsForTheStream ==
  stage = "frozen" =>
    LET from == [n \in DOMAIN Slice |-> Named(Slice[n], node_ids)]
        into == [n \in DOMAIN fixture.edges |-> Named(fixture.edges[n], fixture.node_keys)]
    IN /\ Only(into, {e \in ToSet(into) : e.ring >= 0}) =
            Only(from, {e \in ToSet(from) : e.ring >= 0})
       /\ ToSet(into) \subseteq ToSet(from)
       /\ \E m \in MaxEdges : Len(into) <= Max({m, Cardinality(Labels(Slice))})
       /\ \A n \in 1..(Len(into) - 1) : into[n].ts <= into[n + 1].ts
       /\ into # <<>> /\ into[1].ts = 0 =>
            \A tick \in Cycles :
              ActiveRings(fixture.edges, fixture.node_keys, tick) =
                ActiveRings(stream, node_ids, tick)

\* The stream is the files, and the fixture of the gates is the stream.
IngestionIsFaithful == IngestionLosesNothing /\ FixtureStandsForTheStream
=============================================================================
