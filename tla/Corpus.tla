------------------------------- MODULE Corpus -------------------------------
(***************************************************************************)
(* The stored candidate corpus (src/sentinel/corpus/store.py) and what is  *)
(* done to it from the command line: src/scripts/compile_corpus.py, the    *)
(* pool that src/scripts/eval_ranker.py replays, and the two measurements  *)
(* that read the corpus instead of replaying (eval_ring_unit.py and        *)
(* eval_blend_v2.py).                                                      *)
(*                                                                         *)
(* The code is the four versions that a stored table depends on; an edit   *)
(* makes or reverts one of them.  A table is known by the versions that    *)
(* computed it; its blend column by the scoring that was applied to its    *)
(* own feature columns.  One action is one command, or the part of it up   *)
(* to the next file it writes.                                             *)
(***************************************************************************)
EXTENDS FiniteSets

CONSTANTS
  Edits,       \* the versions edited: any of those of Versions
  Datasets,    \* dataset names, for the pooling rules
  Questions    \* what a corpus is asked; some are listed in POOLING_VALIDITY

Provenances == {"constructed", "given"}   \* CANDIDATE_PROVENANCES

\* generation constants, FEATURE_VERSION, how features are computed, score()
Versions == {"generation", "meaning", "computation", "score"}

ASSUME CorpusAssumption == Edits \subseteq Versions /\ IsFiniteSet(Datasets)

VARIABLES
  code,       \* the checked-out code: which of two forms of each version
  ranker_pool, \* data/ranker_pool.npz: [there, made], made being versions
  corpus,     \* data/corpus_*.npz: [there, made, key]
  twins,      \* ghost: the corpus holds the rows of the present pool
  promised,   \* ghost: the corpus was stamped with a key its rows have not
  rescoring,  \* --rescore has saved the corpus and not yet the pool
  torn,       \* ghost: a --rescore was cut short there
  reported    \* the table the last command computed a number from, if it did

corpusVars ==
  <<code, ranker_pool, corpus, twins, promised, rescoring, torn, reported>>

Forms == [Versions -> BOOLEAN]
First == [v \in Versions |-> FALSE]
NoKey == [stamped |-> FALSE, generation |-> FALSE, meaning |-> FALSE,
          candidate_provenance |-> "given"]
NoNumber == [from |-> "nothing", made |-> First]

-----------------------------------------------------------------------------
(* The replay's records: the fields that collect_pool gives them, and those*)
(* that build_arrays looks up.                                             *)
PoolRecord == {"vec", "ring", "t", "blend", "size", "degree", "key"}
ReadByBuildArrays == {"cand", "ring", "t"}

-----------------------------------------------------------------------------
(* Keys.                                                                   *)

\* CorpusKey.for_current_config: the detector hash covers the constants and
\* the schema, and nothing of how a feature or the score is computed.
CurrentKey(provenance) ==
  [stamped |-> TRUE, generation |-> code["generation"],
   meaning |-> code["meaning"], candidate_provenance |-> provenance]

\* mutant: any stamped corpus is served
ServedAny(provenance) == corpus.there /\ corpus.key.stamped

\* load(CORPUS, expect)
Served(provenance) == corpus.there /\ corpus.key = CurrentKey(provenance)

\* require_consistent: the blend recomputed from the stored features, whatever
\* computed those, is the stored one
Consistent(made) == made["score"] = code["score"]

\* rescore: the blend columns, from the stored feature columns
Rescored(made) == [made EXCEPT !["score"] = code["score"]]

-----------------------------------------------------------------------------
(* Pooling.  A key, here, is its dataset and its candidate_provenance.     *)

CorpusKeys == [dataset : Datasets, candidate_provenance : Provenances]

\* POOLING_VALIDITY
PoolingValid == {"scorer", "ranking", "calibration"}
PoolingInvalid == {"recall", "seeding", "build", "funnel"}

\* require_same_dataset does not refuse
SameDataset(keys) == \A k, l \in keys : k.dataset = l.dataset

\* require_poolable does not refuse
Poolable(keys, question) ==
  /\ SameDataset(keys)
  /\ question \in PoolingValid \cup PoolingInvalid
  /\ \/ Cardinality({k.candidate_provenance : k \in keys}) = 1
     \/ question \in PoolingValid

StratifyByProvenance(keys) ==
  {{k \in keys : k.candidate_provenance = p} : p \in Provenances} \ {{}}
StratifyByDataset(keys) ==
  {{k \in keys : k.dataset = d} : d \in Datasets} \ {{}}

-----------------------------------------------------------------------------
(* A pool may be there from before the records lost their Candidate, and a *)
(* corpus from before corpora were keyed.                                  *)
CorpusInit ==
  /\ code = First
  /\ ranker_pool \in [there : BOOLEAN, made : {First}]
  /\ corpus \in [there : BOOLEAN, made : {First}, key : {NoKey}]
  /\ twins = FALSE /\ promised = FALSE /\ rescoring = FALSE /\ torn = FALSE
  /\ reported = NoNumber

Report(from, made) == reported' = [from |-> from, made |-> made]
Silent == reported' = NoNumber

Edit ==
  /\ ~rescoring
  /\ \E v \in Edits : code' = [code EXCEPT ![v] = ~@]
  /\ Silent
  /\ UNCHANGED <<ranker_pool, corpus, twins, promised, rescoring, torn>>

\* eval_ranker.py: the stream is replayed, the pool written without a key,
\* and the numbers are computed from it
ReplayFinishes ==
  /\ ranker_pool' = [there |-> TRUE, made |-> code]
  /\ twins' = FALSE /\ torn' = FALSE
  /\ Report("replay", code)

\* or the command ends on the first record that lacks a field
ReplayDies ==
  /\ reported' = [from |-> "failed replay", made |-> code]
  /\ UNCHANGED <<ranker_pool, twins, torn>>

Replay ==
  /\ ~rescoring
  /\ IF ReadByBuildArrays \subseteq PoolRecord THEN ReplayFinishes ELSE ReplayDies
  /\ UNCHANGED <<code, corpus, promised, rescoring>>

\* eval_ranker.py --use-cache: the pool as it is
MeasurePool ==
  /\ ~rescoring /\ ranker_pool.there
  /\ Report("pool", ranker_pool.made)
  /\ UNCHANGED <<code, ranker_pool, corpus, twins, promised, rescoring, torn>>

\* compile_corpus.py --adopt: the current key on rows compiled earlier
Adopt ==
  /\ ~rescoring /\ ranker_pool.there /\ Consistent(ranker_pool.made)
  /\ \E provenance \in Provenances :
       corpus' = [there |-> TRUE, made |-> ranker_pool.made,
                  key |-> CurrentKey(provenance)]
  /\ twins' = TRUE /\ torn' = FALSE
  /\ promised' = \E v \in {"generation", "meaning"} : ranker_pool.made[v] # code[v]
  /\ Silent
  /\ UNCHANGED <<code, ranker_pool, rescoring>>

KeyAfterRescore == corpus.key

\* compile_corpus.py --rescore, up to save(CORPUS): any keyed corpus is read
\* (load without expect), and its drift check is on what was just recomputed
RescoreCorpus ==
  /\ ~rescoring /\ corpus.there /\ corpus.key.stamped
  /\ Consistent(Rescored(corpus.made))
  /\ corpus' = [corpus EXCEPT !.made = Rescored(corpus.made),
                              !.key = KeyAfterRescore]
  /\ rescoring' = TRUE
  /\ Silent
  /\ UNCHANGED <<code, ranker_pool, twins, promised, torn>>

PoolAfterRescore == [ranker_pool EXCEPT !.made = Rescored(ranker_pool.made)]

\* the rest of it: the pool, if there is one
RescorePool ==
  /\ rescoring
  /\ ranker_pool' = IF ranker_pool.there THEN PoolAfterRescore ELSE ranker_pool
  /\ rescoring' = FALSE /\ torn' = FALSE
  /\ Silent
  /\ UNCHANGED <<code, corpus, twins, promised>>

\* or the command dies between the two files
RescoreDies ==
  /\ rescoring
  /\ rescoring' = FALSE /\ torn' = TRUE
  /\ Silent
  /\ UNCHANGED <<code, ranker_pool, corpus, twins, promised>>

\* eval_ring_unit.py and eval_blend_v2.py; both ask of one constructed corpus
MeasureCorpus ==
  /\ ~rescoring /\ Served("constructed") /\ Consistent(corpus.made)
  /\ Report("corpus", corpus.made)
  /\ UNCHANGED <<code, ranker_pool, corpus, twins, promised, rescoring, torn>>

CorpusNext ==
  \/ Edit \/ Replay \/ MeasurePool \/ Adopt
  \/ RescoreCorpus \/ RescorePool \/ RescoreDies \/ MeasureCorpus

CorpusSpec == CorpusInit /\ [][CorpusNext]_corpusVars

-----------------------------------------------------------------------------
(* Properties.                                                             *)

CorpusTypeOK ==
  /\ code \in Forms
  /\ ranker_pool \in [there : BOOLEAN, made : Forms]
  /\ corpus.there \in BOOLEAN /\ corpus.made \in Forms
  /\ {twins, promised, rescoring, torn} \subseteq BOOLEAN
  /\ reported.from \in {"nothing", "replay", "failed replay", "pool", "corpus"}
  /\ reported.made \in Forms

\* A corpus answers the question it was compiled for: whatever was edited,
\* reverted, adopted and rescored in between, a number computed from it comes
\* from rows of today's generation constants and feature schema and from
\* today's score, unless the one promise no code can check, that of --adopt,
\* was false (load, require_consistent, compile_corpus.main).
CorpusAnswersItsQuestion ==
  reported.from = "corpus" =>
    /\ reported.made["score"] = code["score"]
    /\ \/ promised
       \/ \A v \in {"generation", "meaning"} : reported.made[v] = code[v]

\* `A pool disagreeing with its own corpus is the bug': while the corpus holds
\* the rows of the present pool both carry one blend, unless a --rescore died
\* between its two files (compile_corpus.main).
PoolAgreesWithItsCorpus ==
  twins /\ ~rescoring /\ ~torn => ranker_pool.made = corpus.made

\* The refusals are answerable: two domains are never pooled, and what was
\* refused for its mixture can be asked of every stratum that the refusal
\* points to (require_poolable, stratify_by_dataset, stratify_by_provenance).
PoolingIsSound ==
  \A keys \in (SUBSET CorpusKeys) \ {{}}, q \in Questions :
    /\ Poolable(keys, q) =>
         /\ Cardinality(StratifyByDataset(keys)) = 1
         /\ q \in PoolingInvalid => Cardinality(StratifyByProvenance(keys)) = 1
    /\ q \in PoolingValid \cup PoolingInvalid =>
         \A one \in StratifyByDataset(keys) :
           Poolable(one, q) \/ \A s \in StratifyByProvenance(one) : Poolable(s, q)

\* The files of the corpus store are what they say they are, whatever is edited,
\* adopted, rescored or cut short, and what is pooled may be pooled.
StoredCorpusIsSound ==
  /\ CorpusTypeOK
  /\ CorpusAnswersItsQuestion
  /\ PoolAgreesWithItsCorpus
  /\ PoolingIsSound

\* The replay, `which writes ranker_pool.npz' (compile_corpus.py): after it the
\* pool is there and is what today's code computes.
ReplayWritesThePool ==
  reported.from \in {"replay", "failed replay"} =>
    ranker_pool.there /\ ranker_pool.made = reported.made

\* The corpus `is what this code would build today' when the drift check
\* passes (eval_ring_unit.py): a number read from it is computed on features
\* as today's code computes them.
ConsistentCorpusIsCurrent ==
  reported.from = "corpus" /\ ~promised =>
    reported.made["computation"] = code["computation"]

-----------------------------------------------------------------------------
(* The inductive invariant.                                                *)

\* A stamped key names the versions of the rows, unless the promise was false.
KeyTellsTheRows ==
  corpus.key.stamped /\ ~promised =>
    /\ corpus.key.generation = corpus.made["generation"]
    /\ corpus.key.meaning = corpus.made["meaning"]

\* Rows that a corpus shares with the pool differ in their blend at most, and
\* a --rescore leaves today's blend behind.
TwinsDifferInBlend ==
  /\ twins => /\ ranker_pool.there
              /\ \A v \in Versions \ {"score"} : ranker_pool.made[v] = corpus.made[v]
  /\ rescoring => corpus.made["score"] = code["score"]

CorpusInv ==
  /\ StoredCorpusIsSound
  /\ corpus \in [there : BOOLEAN, made : Forms,
                 key : [stamped : BOOLEAN, generation : BOOLEAN, meaning : BOOLEAN,
                        candidate_provenance : Provenances]]
  /\ KeyTellsTheRows /\ TwinsDifferInBlend
=============================================================================
