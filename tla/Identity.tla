------------------------------ MODULE Identity ------------------------------
(***************************************************************************)
(* The synthetic-identity domain: a population of onboarding applications  *)
(* is generated (src/sentinel/generators/synthetic_identity.py), seeded by *)
(* an outside signal (eval/identity.py), and candidates of linked          *)
(* applications become case files with a narrative and a brief over the    *)
(* queue (cases/identity_case.py, narrative/identity_brief.py).            *)
(*                                                                         *)
(* The random generator is nondeterminism: every draw it may make.  An     *)
(* attribute value is a number, fresh ones counted per attribute.          *)
(*                                                                         *)
(* Abstracted: times are left out, and with them the temporal features;    *)
(* an outside signal may flag any application; a candidate is any          *)
(* connected set of applications around a flagged one (how                 *)
(* CandidateGenerator grows one is CandidateBuild's subject).              *)
(***************************************************************************)
EXTENDS Citation, Integers, Sequences, FiniteSetsExt, SequencesExt

CONSTANTS
  Attrs,              \* ATTRS, or some of them
  Size,               \* kind -> sizes of a legitimate structure
  RARE_MULTIPLICITY,
  BriefRefs,          \* case_files[:5]
  Params,             \* the worlds: [n_legit, n_fraud, cluster_size, queue]
  Orders(_),          \* n -> the shuffles of 1..n to consider
  Flagged(_)          \* n -> applications that the outside signal may flag

Kinds == {"solo", "household", "joint", "office", "landlord", "roommates"}

ASSUME IdentityAssumption ==
  /\ Attrs \subseteq {"pan", "phone", "address", "device", "ip"}
  /\ Cardinality(Attrs) > 1
  /\ \A k \in Kinds : Size[k] \subseteq Nat \ {0} /\ Size[k] # {}
  /\ {RARE_MULTIPLICITY, BriefRefs} \subseteq Nat \ {0}
  /\ \A p \in Params : p.n_legit \in Nat /\ p.n_fraud \in Nat
                       /\ p.cluster_size \in Nat /\ p.queue \in Nat

VARIABLES
  params,       \* World.params; queue bounds the case files
  phase,        \* "legit", "fraud", "done"
  made,         \* _Values._n: attribute -> fresh values so far
  pool,         \* _Values.pool: attribute -> legitimate values to steal
  apps,         \* applications, in the order of their ids
  origin,       \* per application: the structure or the chain it came from
  files         \* the case files of the queue

identityVars == <<params, phase, made, pool, apps, origin, files>>

Ids == 1..Len(apps)
Planted == {i \in Ids : origin[i].planted}
Group(planted, n) == {i \in Ids : origin[i] = [planted |-> planted, n |-> n]}
Numbers(planted) == {o.n : o \in {p \in ToSet(origin) : p.planted = planted}}
Latest(planted) == Max({0} \cup Numbers(planted))

-----------------------------------------------------------------------------
(* The population                                                          *)

\* What the members of a legitimate structure share: always, perhaps, and
\* which of it the adversary may steal.
Shares(kind) ==
  CASE kind = "solo" -> [always |-> {}, maybe |-> {}, offered |-> {}]
    [] kind = "household" -> [always |-> {"address", "ip"},
                              maybe |-> {"phone", "device"},
                              offered |-> {"address"}]
    [] kind = "joint" -> [always |-> {"pan", "phone", "address"},
                          maybe |-> {}, offered |-> {"address"}]
    [] kind = "office" -> [always |-> {"ip"}, maybe |-> {"address"},
                           offered |-> {"ip", "address"}]
    [] kind = "landlord" -> [always |-> {"address"}, maybe |-> {},
                             offered |-> {"address"}]
    [] kind = "roommates" -> [always |-> {"address", "ip"}, maybe |-> {},
                              offered |-> {}]

\* A structure's applications.  A shared attribute takes one fresh value, the
\* others one each; the fresh values a shared one leaves unused are not
\* counted.
Members(n, shared) ==
  [k \in 1..n |-> [x \in Attrs |-> made[x] + (IF x \in shared THEN 1 ELSE k)]]

_legit_group(kind) ==
  /\ phase = "legit" /\ Len(apps) < params.n_legit
  /\ \E n \in Size[kind], perhaps \in SUBSET (Shares(kind).maybe \cap Attrs) :
       LET shared == (Shares(kind).always \cap Attrs) \cup perhaps
       IN /\ apps' = apps \o Members(n, shared)
          /\ origin' = origin \o
               [k \in 1..n |-> [planted |-> FALSE, n |-> Latest(FALSE) + 1]]
          /\ made' = [x \in Attrs |-> made[x] + (IF x \in shared THEN 1 ELSE n)]
          /\ pool' = [x \in Attrs |->
                        IF x \in shared \cap Shares(kind).offered
                        THEN pool[x] \cup {made[x] + 1} ELSE pool[x]]
  /\ UNCHANGED <<params, phase, files>>

EnoughLegit ==
  /\ phase = "legit" /\ Len(apps) >= params.n_legit
  /\ phase' = "fraud"
  /\ UNCHANGED <<params, made, pool, apps, origin, files>>

LastChain == Cardinality(Group(TRUE, Latest(TRUE)))
Missing == params.n_fraud - Cardinality(Planted)
ChainDone == LastChain \in {0, params.cluster_size} \/ Missing = 0

\* The next chain is min(cluster_size, what is missing) long; the loop stops
\* when that is below two.
AnotherChain == ChainDone /\ Missing >= 2 /\ params.cluster_size >= 2

\* The first application of a chain: fresh values only.
StartChain ==
  /\ phase = "fraud" /\ AnotherChain
  /\ apps' = Append(apps, [x \in Attrs |-> made[x] + 1])
  /\ made' = [x \in Attrs |-> made[x] + 1]
  /\ origin' = Append(origin, [planted |-> TRUE, n |-> Latest(TRUE) + 1])
  /\ UNCHANGED <<params, phase, pool, files>>

\* What a hop rotates: at least one attribute and never all.
Rotations == (SUBSET Attrs) \ {{}, Attrs}

\* A hop: attributes are rotated to fresh values; then, perhaps, one of them,
\* whichever, is overwritten by a stolen value, or by a fresh one when there
\* is nothing to steal.
_rotation_chain ==
  /\ phase = "fraud" /\ ~ChainDone
  /\ \E rotated \in Rotations :
       LET cur == apps[Len(apps)]
           nxt == [x \in Attrs |-> IF x \in rotated THEN made[x] + 1 ELSE cur[x]]
           used == [x \in Attrs |-> made[x] + (IF x \in rotated THEN 1 ELSE 0)]
       IN \/ apps' = Append(apps, nxt) /\ made' = used
          \/ \E x \in Attrs : \E v \in pool[x] :
               apps' = Append(apps, [nxt EXCEPT ![x] = v]) /\ made' = used
          \/ \E x \in Attrs :
               /\ pool[x] = {}
               /\ apps' = Append(apps, [nxt EXCEPT ![x] = used[x] + 1])
               /\ made' = [used EXCEPT ![x] = @ + 1]
  /\ origin' = Append(origin, Last(origin))
  /\ UNCHANGED <<params, phase, pool, files>>

\* Ids are dealt anew, one to each, and the truth with them.
Shuffle(p) ==
  /\ phase = "fraud" /\ ChainDone /\ ~AnotherChain
  /\ p \in [Ids -> Ids] /\ IsInjective(p)
  /\ phase' = "done"
  /\ apps' = [i \in Ids |-> apps[p[i]]]
  /\ origin' = [i \in Ids |-> origin[p[i]]]
  /\ UNCHANGED <<params, made, pool, files>>

-----------------------------------------------------------------------------
(* Links and graph features of a set of applications                       *)

Holders(nodes, x, v) == {i \in nodes : apps[i][x] = v}
population_counts(x, v) == Cardinality(Holders(Ids, x, v))

LinkedBy(i, j) == {x \in Attrs : apps[i][x] = apps[j][x]}

Adjacent(i, j) == i # j /\ LinkedBy(i, j) # {}
Pairs(nodes) == {e \in nodes \X nodes : e[1] < e[2] /\ Adjacent(e[1], e[2])}

\* What S and the nodes next to it are, and what is n links around i.
Widened(nodes, S) == S \cup {j \in nodes : \E m \in S : Adjacent(m, j)}
Reach(nodes, i, n) ==
  LET R[k \in 0..n] == IF k = 0 THEN {i} ELSE Widened(nodes, R[k - 1])
  IN R[n]
Component(nodes, i) == Reach(nodes, i, Cardinality(nodes))

Diameter(nodes) ==
  Max({0} \cup {n \in 1..Cardinality(nodes) : \E i \in nodes :
                  Reach(nodes, i, n) # Reach(nodes, i, n - 1)})

\* The values that two or more of the nodes hold.
Links(nodes) ==
  {[attribute |-> p[1], members |-> Holders(nodes, p[1], apps[p[2]][p[1]]),
    population |-> population_counts(p[1], apps[p[2]][p[1]])] :
     p \in {q \in Attrs \X nodes :
              Cardinality(Holders(nodes, q[1], apps[q[2]][q[1]])) > 1}}

RareLinks(nodes) == {l \in Links(nodes) : l.population <= RARE_MULTIPLICITY}

\* A triple is looked at from the application that comes first: the one with
\* the smallest id, when the order is that of the ids.
Triples(nodes, order) ==
  {t \in nodes \X nodes \X nodes :
     /\ order[t[1]] < order[t[2]] /\ order[t[2]] < order[t[3]]
     /\ Adjacent(t[1], t[2]) /\ Adjacent(t[1], t[3])}
OpenTriples(nodes, order) ==
  {t \in Triples(nodes, order) : ~Adjacent(t[2], t[3])}
ById(nodes) == [i \in nodes |-> i]

\* identity_features.build, as counts: its shares are these over the number
\* of nodes, edges, values or triples.
build(nodes) ==
  [n_nodes |-> Cardinality(nodes),
   n_edges |-> Cardinality(Pairs(nodes)),
   max_degree |-> Max({Cardinality({j \in nodes : Adjacent(i, j)}) : i \in nodes}),
   external |-> Cardinality({j \in Ids \ nodes : \E i \in nodes : Adjacent(i, j)}),
   components |-> {Component(nodes, i) : i \in nodes},
   diameter |-> Diameter(nodes),
   spanning |-> Max({Cardinality(l.members) : l \in Links(nodes)}),
   rare |-> RareLinks(nodes),
   open |-> Cardinality(OpenTriples(nodes, ById(nodes))),
   triples |-> Cardinality(Triples(nodes, ById(nodes)))]

-----------------------------------------------------------------------------
(* The baselines of eval_identity_background.py                            *)

cooccurrence(i) == {j \in Ids : Adjacent(i, j)}

Others(i, x) == population_counts(x, apps[i][x]) - 1
IsRare(i, x) == population_counts(x, apps[i][x]) <= RARE_MULTIPLICITY
baseline_scores(i) ==
  LET rare == {x \in Attrs : IsRare(i, x)}
  IN [degree |-> Cardinality(cooccurrence(i)),
      component_size |-> Cardinality(Component(Ids, i)),
      attr_multiplicity |-> MapThenSumSet(LAMBDA x : Others(i, x), Attrs),
      rare_counted |-> MapThenSumSet(LAMBDA x : Others(i, x), rare),
      rare_degree |-> Cardinality({j \in cooccurrence(i) :
                                     LinkedBy(i, j) \cap rare # {}})]

-----------------------------------------------------------------------------
(* The queue of case files (build_identity_case_file), a file by its seed  *)
(* and its nodes: the rest of it follows from the applications.            *)

\* A candidate of the generator around a flagged application.
Review(seed, nodes) ==
  /\ phase = "done" /\ Len(files) < params.queue
  /\ seed \in nodes /\ Cardinality(nodes) > 1 /\ nodes = Component(nodes, seed)
  /\ \A k \in DOMAIN files : files[k].nodes # nodes
  /\ files' = Append(files, [seed |-> seed, nodes |-> nodes])
  /\ UNCHANGED <<params, phase, made, pool, apps, origin>>

Id(kind, n, on) == [kind |-> kind, n |-> n, on |-> on]
CaseRef(k) == Id("case", k, {})
application_id(i) == Id("application", i, {})
LinkRef(k, l) == Id(l.attribute, k, l.members)

\* mutant: only the links that are no infrastructure are citable
valid_citation_ids_rare(k) ==
  {CaseRef(k)} \cup {application_id(i) : i \in files[k].nodes}
    \cup {LinkRef(k, l) : l \in RareLinks(files[k].nodes)}

valid_citation_ids(k) ==
  {CaseRef(k), application_id(files[k].seed)}
    \cup {application_id(i) : i \in files[k].nodes}
    \cup {LinkRef(k, l) : l \in Links(files[k].nodes)}

\* mutant: a value is rare when few of the candidate hold it
recommendByMembers(nodes) ==
  IF \E l \in Links(nodes) : Cardinality(l.members) <= RARE_MULTIPLICITY
  THEN "MANUAL_REVIEW" ELSE "MONITOR"

recommend(nodes) ==
  LET rare == RareLinks(nodes)
  IN IF Cardinality(rare) >= 3 /\ Cardinality({l.attribute : l \in rare}) >= 2
     THEN "REQUEST_STEP_UP_KYC"
     ELSE IF rare # {} THEN "MANUAL_REVIEW" ELSE "MONITOR"

\* The sentences: who, what (a line of its own when no link is rare), when
\* (from the first and to the last to arrive, here any two), why, action.
case_narrative(k) ==
  LET about == Fact({CaseRef(k)})
      nodes == files[k].nodes
  IN {{about, Fact({application_id(files[k].seed)})}
        \cup {Fact({application_id(i)}) : i \in nodes},
      {about} \cup {Fact({LinkRef(k, l)}) : l \in Links(nodes)},
      {Fact({CaseRef(k), application_id(Min(nodes)), application_id(Max(nodes))})},
      {about, Prose},
      {about}}

Refs(cases) ==
  {CaseRef(k) : k \in {j \in cases : Cardinality(cases \cap 1..j) <= BriefRefs}}
LargestFile ==
  CHOOSE k \in DOMAIN files : \A j \in DOMAIN files :
    Cardinality(files[j].nodes) <= Cardinality(files[k].nodes)

merchant_brief ==
  IF files = <<>> THEN {{Prose}}
  ELSE LET all == Fact(Refs(DOMAIN files))
           action == [k \in DOMAIN files |-> recommend(files[k].nodes)]
           For(a) == {k \in DOMAIN files : action[k] = a}
           actions == {action[k] : k \in DOMAIN files}
       IN {{all}, {Fact({CaseRef(LargestFile)})}, {Prose, all}}
            \cup {{Fact(Refs(For(a)))} : a \in actions}

-----------------------------------------------------------------------------
IdentityInit ==
  /\ params \in Params
  /\ phase = "legit"
  /\ made = [x \in Attrs |-> 0] /\ pool = [x \in Attrs |-> {}]
  /\ apps = <<>> /\ origin = <<>> /\ files = <<>>

IdentityNext ==
  \/ \E kind \in Kinds : _legit_group(kind)
  \/ EnoughLegit
  \/ StartChain
  \/ _rotation_chain
  \/ \E p \in Orders(Len(apps)) : Shuffle(p)
  \/ \E seed \in Flagged(Len(apps)), nodes \in SUBSET Ids : Review(seed, nodes)

IdentitySpec == IdentityInit /\ [][IdentityNext]_identityVars

-----------------------------------------------------------------------------
(* Properties                                                              *)

\* A value is one that the generator made, and the truth stays aligned with
\* the applications.
IdentityTypeOK ==
  /\ params \in Params
  /\ phase \in {"legit", "fraud", "done"}
  /\ Len(origin) = Len(apps)
  /\ \A i \in Ids, x \in Attrs : apps[i][x] \in 1..made[x]
  /\ \A x \in Attrs : pool[x] \subseteq 1..made[x]

\* Only a stolen value links a planted application to anyone outside its own
\* chain, and only addresses and internet addresses are stolen: a shared
\* tax number, phone or device never crosses.  A feature that could tell
\* planted from legitimate by those alone would be reading the generator.
OnlyPooledValuesCross ==
  \A i \in Planted : \A j \in Ids : origin[j] # origin[i] =>
    /\ LinkedBy(i, j) \subseteq {"address", "ip"}
    /\ \A x \in LinkedBy(i, j) : apps[i][x] \in pool[x]

\* People who share nothing but one large legitimate structure, an office or
\* a landlord, are never escalated, whatever the adversary steals from it.
CrowdsAreNotEvidence ==
  \A k \in DOMAIN files :
    LET group == {origin[i] : i \in files[k].nodes}
    IN Cardinality(group) = 1
       /\ (\A o \in group : ~o.planted
             /\ Cardinality(Group(FALSE, o.n)) > RARE_MULTIPLICITY)
       => recommend(files[k].nodes) = "MONITOR"

\* Every narrative and the brief pass the verifier: the template path raises
\* where they do not.
NarrativesAreSourced ==
  /\ \A k \in DOMAIN files :
       Verified(case_narrative(k), valid_citation_ids(k))
  /\ Verified(merchant_brief, UNION {valid_citation_ids(k) : k \in DOMAIN files})

\* What the features say of a candidate hangs together: it is one piece, its
\* diameter is one just when every pair is linked, and a value that spans it
\* leaves no pair unlinked and no triple open.
FeaturesHangTogether ==
  \A k \in DOMAIN files :
    LET f == build(files[k].nodes)
        all == (f.n_nodes * (f.n_nodes - 1)) \div 2
    IN /\ f.components = {files[k].nodes}
       /\ f.n_edges \in (f.n_nodes - 1)..all
       /\ f.diameter \in 1..(f.n_nodes - 1)
       /\ (f.diameter = 1) = (f.n_edges = all)
       /\ f.spanning = f.n_nodes => f.n_edges = all
       /\ f.n_edges = all => f.open = 0
       /\ f.spanning - 1 <= f.max_degree

\* The baselines of the kill rule are ordered: an application has no more
\* neighbours than its component has others, and no more than the
\* co-occurrences counted attribute by attribute; the rare form counts part
\* of them, and is never below its own degree form, which the code takes the
\* maximum with.
BaselinesAreOrdered ==
  phase = "done" /\ files = <<>> => \A i \in Ids :
    LET s == baseline_scores(i)
    IN /\ s.degree < s.component_size
       /\ s.degree <= s.attr_multiplicity
       /\ s.rare_counted <= s.attr_multiplicity
       /\ s.rare_degree <= s.rare_counted

\* What is escalated is rare sharing, and what the queue says of a candidate is
\* true of its applications: the generator leaks nothing but addresses, crowds
\* are not evidence, and features and baselines are consistent
\* (synthetic_identity.generate, identity_case.recommend, identity_features.build).
EvidenceIsRareSharing ==
  /\ IdentityTypeOK
  /\ OnlyPooledValuesCross
  /\ CrowdsAreNotEvidence
  /\ FeaturesHangTogether
  /\ BaselinesAreOrdered
=============================================================================
