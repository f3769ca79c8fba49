---------------------------- MODULE OfflineProofs ----------------------------
(* Proofs about the programs that run beside the detector: publication of  *)
(* the measurements, the stored corpus, the cost report, the recalibration *)
(* of the blend, the synthetic identity domain and ingestion, for any      *)
(* readings, documents, datasets, questions, edits, cost models, blends,   *)
(* lanes, populations and files.                                           *)
EXTENDS Corpus, Publication, Economics, Calibration, Identity, Ingestion,
        EvaluationProofs

-----------------------------------------------------------------------------
(* Publication.                                                            *)

LEMMA CollectsBound == MaxCollects \in Nat /\ 0 \in 0..MaxCollects
<1>1. MaxCollects \in Nat
  BY PublicationAssumption
<1> QED
  BY <1>1

LEMMA PublicationStarts == PublicationInit => PublicationInv
<1> SUFFICES ASSUME PublicationInit PROVE PublicationInv
  OBVIOUS
<1>1. PublicationTypeOK
  BY CollectsBound DEF PublicationInit, PublicationTypeOK
<1> QED
  BY <1>1 DEF PublicationInit, PublicationInv, PublishedNumbersAreCurrent,
              DocumentsTellOneCollection, TypedNumbersDoNotRot, NoTypedNumberRots

LEMMA LooksForWhatIsTyped == ASSUME NEW n PROVE AsWritten(n) = Typable(n)
BY DEF AsWritten, Typable

\* Of what METRIC_LITERAL reads as it is written, a number that the scanner
\* lets stand is today's.
LEMMA ScannerIsRight == TypedNumbersDoNotRot
<1> SUFFICES ASSUME \A form \in typed : Scan(form) = {form}, ScannerPasses,
                    NEW form \in typed, NEW n \in committed, form \in Typable(n)
             PROVE  form \in Typable(metrics.number)
  BY DEF TypedNumbersDoNotRot, NoTypedNumberRots
<1>1. form \notin Superseded
  BY DEF ScannerPasses
<1>2. form \in AsWritten(n)
  BY LooksForWhatIsTyped
<1>3. form \in AsWritten(metrics.number)
  BY <1>1, <1>2 DEF Superseded
<1> QED
  BY <1>3, LooksForWhatIsTyped

LEMMA ScannerAlwaysRight == TypedNumbersDoNotRot'
BY ScannerIsRight, PTL

\* The step leaves the documents and the collection they are made of alone.
LEMMA DocumentsUntouched ==
  ASSUME PublicationInv, PublicationTypeOK', UNCHANGED <<published, rendering>>,
         artefact'.is = "full" => artefact'.number \in Readings
  PROVE  PublicationInv'
BY ScannerAlwaysRight
   DEF PublicationInv, PublishedNumbersAreCurrent, DocumentsTellOneCollection,
       published, rendering

LEMMA PublicationSteps ==
  ASSUME PublicationInv, [PublicationNext]_publicationVars
  PROVE  PublicationInv'
<1>1. PublicationTypeOK /\ MaxCollects \in Nat /\ Readings \subseteq Int
  BY PublicationAssumption
     DEF PublicationInv, PublishedNumbersAreCurrent, DocumentsTellOneCollection
<1>2. CASE Measure
  <2>1. PublicationTypeOK' /\ UNCHANGED <<published, rendering>>
    BY <1>1, <1>2 DEF Measure, PublicationTypeOK, published, templates, rendering
  <2>2. artefact'.is = "full" => artefact'.number \in Readings
    BY <1>2 DEF Measure
  <2> QED
    BY <2>1, <2>2, DocumentsUntouched
<1>3. CASE MeasureLate
  <2>1. PublicationTypeOK' /\ UNCHANGED <<published, rendering>> /\ artefact' = artefact
    BY <1>1, <1>3 DEF MeasureLate, PublicationTypeOK, published, templates, rendering
  <2> QED
    BY <2>1, DocumentsUntouched DEF PublicationInv
<1>4. CASE Collect
  <2>1. /\ metrics' = [generated_at |-> metrics.generated_at + 1,
                       number |-> artefact.number, counts |-> 0]
        /\ artefact.number \in Readings /\ staged = {}
        /\ metrics.generated_at \in Nat /\ metrics.generated_at + 1 \in 0..MaxCollects
        /\ UNCHANGED <<artefact, late, committed, typed, unresolved, document,
                       staged, half>>
    BY <1>1, <1>4
       DEF Collect, FirstWrite, Collectable, Idle, measurements, templates,
           rendering, PublicationInv, PublicationTypeOK
  <2>2. PublicationTypeOK'
    BY <1>1, <2>1 DEF PublicationTypeOK
  <2>3. metrics' \in [generated_at : Nat, number : Readings \cup {0}, counts : Nat]
    BY <2>1
  <2> QED
    BY <2>1, <2>2, <2>3, ScannerAlwaysRight
       DEF PublicationInv, PublishedNumbersAreCurrent, DocumentsTellOneCollection
<1>5. CASE CollectCounts
  <2>1. /\ metrics' \in {metrics, [metrics EXCEPT !.counts = metrics.generated_at]}
        /\ staged = {}
        /\ UNCHANGED <<artefact, late, committed, typed, unresolved, document,
                       staged, half>>
    BY <1>5
       DEF CollectCounts, measurements, templates, rendering, PublicationInv
  <2>2. /\ metrics' \in [generated_at : Nat, number : Readings \cup {0}, counts : Nat]
        /\ metrics'.generated_at = metrics.generated_at
        /\ metrics'.number = metrics.number
        /\ metrics'.counts \in {metrics.counts, metrics.generated_at}
    BY <2>1 DEF PublicationInv
  <2>3. PublicationTypeOK'
    BY <1>1, <2>1, <2>2 DEF PublicationTypeOK
  <2> QED
    BY <2>1, <2>2, <2>3, ScannerAlwaysRight
       DEF PublicationInv, PublishedNumbersAreCurrent, DocumentsTellOneCollection
<1>6. CASE Commit
  <2>1. UNCHANGED <<published, rendering, artefact>>
    BY <1>6 DEF Commit, measurements
  <2>2. PublicationTypeOK'
    BY <1>1, <1>6
       DEF Commit, PublicationTypeOK, PublicationInv, published, rendering,
           measurements, templates
  <2> QED
    BY <2>1, <2>2, DocumentsUntouched DEF PublicationInv
<1>7. CASE EditTemplate
  <2>1. UNCHANGED <<published, rendering, artefact>>
    BY <1>7 DEF EditTemplate, measurements
  <2>2. PublicationTypeOK'
    BY <1>1, <1>7
       DEF EditTemplate, PublicationTypeOK, published, rendering, measurements
  <2> QED
    BY <2>1, <2>2, DocumentsUntouched DEF PublicationInv
<1>8. CASE Render
  <2>1. /\ staged' = Documents /\ (staged' # {} => metrics.counts > 0)
        /\ UNCHANGED <<artefact, late, metrics, collecting, committed, typed,
                       unresolved, document, half>>
        /\ ~collecting
    BY <1>8
       DEF Render, Renderable, Resolves, Idle, measurements, published, templates
  <2>2. PublicationTypeOK'
    BY <1>1, <2>1 DEF PublicationTypeOK
  <2> QED
    BY <2>1, <2>2, ScannerAlwaysRight
       DEF PublicationInv, PublishedNumbersAreCurrent, DocumentsTellOneCollection
<1>9. CASE WriteDocument
  <2>1. PICK d \in staged :
          /\ document' = [document EXCEPT ![d] = [metrics |-> metrics.generated_at,
                                                  counts |-> metrics.counts]]
          /\ staged' = staged \ {d}
          /\ half' = (half /\ staged' # {})
          /\ UNCHANGED <<artefact, late, metrics, collecting, committed, typed,
                         unresolved>>
    BY <1>9 DEF WriteDocument, measurements, published, templates
  <2>2. PublicationTypeOK'
    BY <1>1, <2>1 DEF PublicationTypeOK
  <2>3. /\ metrics.counts = metrics.generated_at
        /\ \A e \in Documents \ staged' :
             document'[e] = [metrics |-> metrics.generated_at,
                             counts |-> metrics.counts]
        /\ \A e \in staged' : document'[e] = document[e]
        /\ staged' \subseteq Documents
    BY <1>1, <2>1 DEF PublicationInv, PublicationTypeOK
  <2>4. \A e \in Documents :
          document'[e].metrics > 0 => document'[e].counts = document'[e].metrics
    BY <2>3 DEF PublicationInv, PublishedNumbersAreCurrent, DocumentsTellOneCollection
  <2>5. staged' = {} => \A d1, d2 \in Documents : document'[d1] = document'[d2]
    BY <2>3
  <2> QED
    BY <2>1, <2>2, <2>3, <2>4, <2>5, ScannerAlwaysRight
       DEF PublicationInv, PublishedNumbersAreCurrent, DocumentsTellOneCollection
<1>10. CASE RenderDies
  <2>1. /\ staged' = {} /\ half'
        /\ UNCHANGED <<artefact, late, metrics, collecting, committed, typed,
                       unresolved, document>>
    BY <1>10 DEF RenderDies, measurements, published, templates
  <2>2. PublicationTypeOK'
    BY <1>1, <2>1 DEF PublicationTypeOK
  <2> QED
    BY <2>1, <2>2, ScannerAlwaysRight
       DEF PublicationInv, PublishedNumbersAreCurrent, DocumentsTellOneCollection
<1>11. CASE UNCHANGED publicationVars
  <2>1. PublicationTypeOK' /\ UNCHANGED <<published, rendering, artefact>>
    BY <1>1, <1>11
       DEF publicationVars, PublicationTypeOK, published, rendering, measurements,
           templates
  <2> QED
    BY <2>1, DocumentsUntouched DEF PublicationInv
<1> QED
  BY <1>2, <1>3, <1>4, <1>5, <1>6, <1>7, <1>8, <1>9, <1>10, <1>11
     DEF PublicationNext

\* Unless a rendering died between two files, what is published is one
\* collection of the measurements, numbers and counts alike, and no number
\* between zero and one that is typed into a template and that the scanner lets
\* stand has been left behind by them, whatever METRIC_LITERAL misses, for any
\* number of documents, readings and collections (collect_metrics.main,
\* render_docs.main, literals.stale_literals).
THEOREM PublishedTogether == PublicationSpec => []PublishedNumbersAreCurrent
<1>1. PublicationInv => PublishedNumbersAreCurrent
  BY DEF PublicationInv
<1> QED
  BY <1>1, PublicationStarts, PublicationSteps, PTL DEF PublicationSpec

-----------------------------------------------------------------------------
(* Pooling.                                                                *)

LEMMA ProvenancesOf ==
  ASSUME NEW keys \in SUBSET CorpusKeys
  PROVE  IsFiniteSet({k.candidate_provenance : k \in keys})
<1>1. IsFiniteSet(Provenances)
  <2>1. Provenances = {"constructed"} \cup {"given"}
    BY DEF Provenances
  <2> QED
    BY <2>1, FS_Singleton, FS_AddElement
<1>2. {k.candidate_provenance : k \in keys} \in SUBSET Provenances
  BY DEF CorpusKeys
<1> QED
  BY <1>1, <1>2, FS_Subset

\* The keys of one dataset are one stratum, the keys of one provenance too.
LEMMA OneDataset ==
  ASSUME NEW keys \in SUBSET CorpusKeys, keys # {}, SameDataset(keys)
  PROVE  StratifyByDataset(keys) = {keys}
<1>1. PICK k \in keys : TRUE
  OBVIOUS
<1>2. k.dataset \in Datasets /\ \A l \in keys : l.dataset = k.dataset
  BY DEF SameDataset, CorpusKeys
<1>3. {l \in keys : l.dataset = k.dataset} = keys
  BY <1>2
<1>4. \A d \in Datasets : d # k.dataset => {l \in keys : l.dataset = d} = {}
  BY <1>2
<1> QED
  BY <1>1, <1>2, <1>3, <1>4 DEF StratifyByDataset

LEMMA OneProvenance ==
  ASSUME NEW keys \in SUBSET CorpusKeys, NEW p \in Provenances, keys # {},
         \A k \in keys : k.candidate_provenance = p
  PROVE  /\ StratifyByProvenance(keys) = {keys}
         /\ Cardinality({k.candidate_provenance : k \in keys}) = 1
<1>1. {k \in keys : k.candidate_provenance = p} = keys
  OBVIOUS
<1>2. \A q \in Provenances : q # p => {k \in keys : k.candidate_provenance = q} = {}
  OBVIOUS
<1>3. {k.candidate_provenance : k \in keys} = {p}
  OBVIOUS
<1> QED
  BY <1>1, <1>2, <1>3, FS_Singleton DEF StratifyByProvenance

\* What may be pooled is of one domain, and of one provenance if the question
\* needs it; and a question that is refused for a mixture can be asked of its
\* strata, for any datasets and questions (require_poolable).
LEMMA PoolingAlwaysSound == PoolingIsSound
<1> SUFFICES ASSUME NEW keys \in (SUBSET CorpusKeys) \ {{}}, NEW q \in Questions
    PROVE
      /\ Poolable(keys, q) =>
           /\ Cardinality(StratifyByDataset(keys)) = 1
           /\ q \in PoolingInvalid => Cardinality(StratifyByProvenance(keys)) = 1
      /\ q \in PoolingValid \cup PoolingInvalid =>
           \A one \in StratifyByDataset(keys) :
             Poolable(one, q) \/ \A s \in StratifyByProvenance(one) : Poolable(s, q)
  BY DEF PoolingIsSound
<1>1. ASSUME Poolable(keys, q) PROVE Cardinality(StratifyByDataset(keys)) = 1
  <2>1. StratifyByDataset(keys) = {keys}
    BY <1>1, OneDataset DEF Poolable
  <2> QED
    BY <2>1, FS_Singleton
<1>2. ASSUME Poolable(keys, q), q \in PoolingInvalid
      PROVE  Cardinality(StratifyByProvenance(keys)) = 1
  <2>1. q \notin PoolingValid
    BY <1>2 DEF PoolingInvalid, PoolingValid
  <2>2. Cardinality({k.candidate_provenance : k \in keys}) = 1
    BY <1>2, <2>1 DEF Poolable
  <2>3. PICK p : {k.candidate_provenance : k \in keys} = {p}
    BY <2>2, ProvenancesOf, FS_Singleton
  <2>4. \A k \in keys : k.candidate_provenance = p /\ p \in Provenances
    BY <2>3 DEF CorpusKeys
  <2>5. StratifyByProvenance(keys) = {keys}
    BY <2>4, OneProvenance
  <2> QED
    BY <2>5, FS_Singleton
<1>3. ASSUME q \in PoolingValid \cup PoolingInvalid,
             NEW one \in StratifyByDataset(keys), NEW s \in StratifyByProvenance(one)
      PROVE  Poolable(s, q)
  <2>1. PICK d \in Datasets : one = {k \in keys : k.dataset = d}
    BY DEF StratifyByDataset
  <2>2. PICK p \in Provenances : s = {k \in one : k.candidate_provenance = p}
    BY DEF StratifyByProvenance
  <2>3. s # {} /\ s \in SUBSET CorpusKeys /\ SameDataset(s)
    BY <2>1, <2>2 DEF StratifyByProvenance, SameDataset
  <2>4. Cardinality({k.candidate_provenance : k \in s}) = 1
    BY <2>2, <2>3, OneProvenance
  <2> QED
    BY <1>3, <2>3, <2>4 DEF Poolable
<1> QED
  BY <1>1, <1>2, <1>3

-----------------------------------------------------------------------------
(* The stored corpus.                                                      *)

LEMMA CorpusStarts == CorpusInit => CorpusInv
<1> SUFFICES ASSUME CorpusInit PROVE CorpusInv
  OBVIOUS
<1>1. First \in Forms
  BY DEF First, Forms
<1>2. CorpusTypeOK
  BY <1>1 DEF CorpusInit, CorpusTypeOK, NoNumber, First
<1>3. CorpusAnswersItsQuestion /\ PoolAgreesWithItsCorpus /\ TwinsDifferInBlend
  BY DEF CorpusInit, CorpusAnswersItsQuestion, PoolAgreesWithItsCorpus,
         TwinsDifferInBlend, NoNumber
<1>4. NoKey \in [stamped : BOOLEAN, generation : BOOLEAN, meaning : BOOLEAN,
                 candidate_provenance : Provenances]
  BY DEF NoKey, Provenances
<1>5. corpus.key = NoKey /\ corpus \in [there : BOOLEAN, made : {First}, key : {NoKey}]
  BY DEF CorpusInit
<1>6. KeyTellsTheRows
  BY <1>5 DEF KeyTellsTheRows, NoKey
<1> QED
  BY <1>1, <1>2, <1>3, <1>4, <1>5, <1>6, PoolingAlwaysSound
     DEF CorpusInv, StoredCorpusIsSound

\* The blend is all that a --rescore changes.
LEMMA RescoredIs ==
  ASSUME NEW old \in Forms, code \in Forms
  PROVE  /\ Rescored(old) \in Forms
         /\ Rescored(old)["score"] = code["score"]
         /\ \A v \in Versions \ {"score"} : Rescored(old)[v] = old[v]
BY DEF Rescored, Forms, Versions

LEMMA SameForms ==
  ASSUME NEW old \in Forms, NEW other \in Forms,
         \A v \in Versions : old[v] = other[v]
  PROVE  old = other
BY DEF Forms

LEMMA CorpusSteps ==
  ASSUME CorpusInv, [CorpusNext]_corpusVars
  PROVE  CorpusInv'
<1>1. CorpusTypeOK /\ corpus.made \in Forms /\ PoolingIsSound'
  <2>1. PoolingIsSound'
    BY PoolingAlwaysSound, PTL
  <2> QED
    BY <2>1 DEF CorpusInv, StoredCorpusIsSound, CorpusTypeOK
<1> USE DEF CorpusInv, StoredCorpusIsSound, CorpusTypeOK, CorpusAnswersItsQuestion,
            PoolAgreesWithItsCorpus, KeyTellsTheRows, TwinsDifferInBlend
<1>2. CASE Edit
  BY <1>1, <1>2 DEF Edit, Silent, NoNumber, First, Forms
<1>3. CASE Replay
  <2>1. /\ UNCHANGED <<code, corpus, promised, rescoring>> /\ ~rescoring
        /\ ReplayFinishes \/ ReplayDies
    BY <1>3 DEF Replay
  <2>2. CASE ReplayFinishes
    <3>1. /\ ranker_pool' = [there |-> TRUE, made |-> code]
          /\ twins' = FALSE /\ torn' = FALSE
          /\ reported' = [from |-> "replay", made |-> code]
      BY <2>2 DEF ReplayFinishes, Report
    <3>2. /\ ranker_pool' \in [there : BOOLEAN, made : Forms]
          /\ reported'.from = "replay" /\ reported'.made \in Forms
      BY <1>1, <3>1
    <3> QED
      BY <1>1, <2>1, <3>1, <3>2
  <2>3. CASE ReplayDies
    <3>1. /\ UNCHANGED <<ranker_pool, twins, torn>>
          /\ reported' = [from |-> "failed replay", made |-> code]
      BY <2>3 DEF ReplayDies
    <3>2. reported'.from = "failed replay" /\ reported'.made \in Forms
      BY <1>1, <3>1
    <3> QED
      BY <1>1, <2>1, <3>1, <3>2
  <2> QED
    BY <2>1, <2>2, <2>3
<1>4. CASE MeasurePool
  BY <1>1, <1>4 DEF MeasurePool, Report
<1>5. CASE Adopt
  <2>1. PICK provenance \in Provenances :
          corpus' = [there |-> TRUE, made |-> ranker_pool.made,
                     key |-> CurrentKey(provenance)]
    BY <1>5 DEF Adopt
  <2>2. /\ promised' = \E v \in {"generation", "meaning"} :
                         ranker_pool.made[v] # code[v]
        /\ UNCHANGED <<code, ranker_pool, rescoring>> /\ ~rescoring
        /\ ranker_pool.there /\ reported' = NoNumber
        /\ twins' = TRUE /\ torn' = FALSE
    BY <1>5 DEF Adopt, Silent
  <2>3. /\ ranker_pool.made \in Forms /\ code \in Forms
        /\ code["generation"] \in BOOLEAN /\ code["meaning"] \in BOOLEAN
    BY <1>1 DEF Forms, Versions
  <2>4. CurrentKey(provenance) \in [stamped : BOOLEAN, generation : BOOLEAN,
                                    meaning : BOOLEAN,
                                    candidate_provenance : Provenances]
    BY <2>3 DEF CurrentKey
  <2>5. /\ corpus'.made = ranker_pool.made /\ corpus'.there
        /\ corpus'.key.generation = code["generation"]
        /\ corpus'.key.meaning = code["meaning"]
        /\ corpus' \in [there : BOOLEAN, made : Forms,
                        key : [stamped : BOOLEAN, generation : BOOLEAN,
                               meaning : BOOLEAN, candidate_provenance : Provenances]]
    BY <2>1, <2>3, <2>4 DEF CurrentKey
  <2>6. reported'.from = "nothing" /\ reported'.made \in Forms
    BY <2>2 DEF NoNumber, First, Forms
  <2>7. KeyTellsTheRows'
    BY <2>2, <2>5
  <2> QED
    BY <1>1, <2>2, <2>5, <2>6, <2>7
<1>6. CASE RescoreCorpus
  <2>1. /\ corpus' = [corpus EXCEPT !.made = Rescored(corpus.made),
                                    !.key = corpus.key]
        /\ rescoring' = TRUE /\ reported' = NoNumber
        /\ UNCHANGED <<code, ranker_pool, twins, promised, torn>>
    BY <1>6 DEF RescoreCorpus, KeyAfterRescore, Silent
  <2>2. /\ Rescored(corpus.made) \in Forms
        /\ Rescored(corpus.made)["score"] = code["score"]
        /\ \A v \in Versions \ {"score"} : Rescored(corpus.made)[v] = corpus.made[v]
    BY <1>1, RescoredIs
  <2>3. /\ corpus'.made = Rescored(corpus.made) /\ corpus'.key = corpus.key
        /\ corpus' \in [there : BOOLEAN, made : Forms,
                        key : [stamped : BOOLEAN, generation : BOOLEAN,
                               meaning : BOOLEAN, candidate_provenance : Provenances]]
    BY <2>1, <2>2
  <2>4. reported'.from = "nothing" /\ reported'.made \in Forms
    BY <2>1 DEF NoNumber, First, Forms
  <2>5. KeyTellsTheRows' /\ TwinsDifferInBlend'
    BY <2>1, <2>2, <2>3 DEF Versions
  <2> QED
    BY <1>1, <2>1, <2>3, <2>4, <2>5
<1>7. CASE RescorePool
  <2>1. /\ rescoring /\ rescoring' = FALSE /\ torn' = FALSE /\ reported' = NoNumber
        /\ ranker_pool' = IF ranker_pool.there
                          THEN [ranker_pool EXCEPT !.made = Rescored(ranker_pool.made)]
                          ELSE ranker_pool
        /\ UNCHANGED <<code, corpus, twins, promised>>
    BY <1>7 DEF RescorePool, PoolAfterRescore, Silent
  <2>2. /\ Rescored(ranker_pool.made) \in Forms
        /\ Rescored(ranker_pool.made)["score"] = code["score"]
        /\ \A v \in Versions \ {"score"} :
             Rescored(ranker_pool.made)[v] = ranker_pool.made[v]
    BY <1>1, RescoredIs
  <2>3. /\ ranker_pool' \in [there : BOOLEAN, made : Forms]
        /\ ranker_pool'.there = ranker_pool.there
        /\ ranker_pool.there => ranker_pool'.made = Rescored(ranker_pool.made)
    BY <1>1, <2>1, <2>2
  <2>4. reported'.from = "nothing" /\ reported'.made \in Forms
    BY <2>1 DEF NoNumber, First, Forms
  <2>5. twins => \A v \in Versions : ranker_pool'.made[v] = corpus.made[v]
    BY <2>1, <2>2, <2>3
  <2>6. twins => ranker_pool'.made = corpus.made
    BY <1>1, <2>3, <2>5, SameForms
  <2> QED
    BY <1>1, <2>1, <2>3, <2>4, <2>5, <2>6
<1>8. CASE RescoreDies
  BY <1>1, <1>8 DEF RescoreDies, Silent, NoNumber, First, Forms
<1>9. CASE MeasureCorpus
  <2>1. /\ corpus.key = CurrentKey("constructed")
        /\ corpus.made["score"] = code["score"]
        /\ reported' = [from |-> "corpus", made |-> corpus.made]
        /\ UNCHANGED <<code, ranker_pool, corpus, twins, promised, rescoring, torn>>
    BY <1>9 DEF MeasureCorpus, Served, Consistent, Report
  <2>2. /\ corpus.key.stamped = TRUE /\ corpus.key.generation = code["generation"]
        /\ corpus.key.meaning = code["meaning"]
    <3> HIDE DEF CorpusInv
    <3>1. corpus.key = [stamped |-> TRUE, generation |-> code["generation"],
                        meaning |-> code["meaning"],
                        candidate_provenance |-> "constructed"]
      BY <2>1 DEF CurrentKey
    <3> QED
      BY <3>1
  <2>3. reported'.from = "corpus" /\ reported'.made = corpus.made
    BY <2>1
  <2>4. CorpusAnswersItsQuestion'
    BY <2>1, <2>2, <2>3
  <2> QED
    BY <1>1, <2>1, <2>3, <2>4
<1>10. CASE UNCHANGED corpusVars
  BY <1>1, <1>10 DEF corpusVars
<1> QED
  BY <1>2, <1>3, <1>4, <1>5, <1>6, <1>7, <1>8, <1>9, <1>10 DEF CorpusNext

\* The stored corpus is what its key says and answers the question it was
\* compiled for, and what is pooled may be pooled, for any datasets, questions
\* and order of edits, adoptions, rescorings and deaths in between
\* (corpus/store.py load and require_poolable, compile_corpus.main).
THEOREM CorpusAnswers == CorpusSpec => []StoredCorpusIsSound
<1>1. CorpusInv => StoredCorpusIsSound
  BY DEF CorpusInv
<1> QED
  BY <1>1, CorpusStarts, CorpusSteps, PTL DEF CorpusSpec

-----------------------------------------------------------------------------
(* Cost.                                                                   *)

\* Inputs as a cost model may have them.
Plausible == {i \in [Inputs -> Nat] : \A name \in Proportions : i[name] <= One}

Good == {"value_at_risk_per_ring", "recovery_rate"}

LEMMA Given ==
  /\ One \in Nat /\ One > 0 /\ REPORTED_PRECISION \in 0..One
  /\ \A m \in CostModels : m.input \in Plausible /\ m.sources \subseteq Inputs
  /\ \A s \in Measured \cup {FALLBACK_SCORE} :
       /\ \A k \in DOMAIN s : k \in Nat /\ k > 0 /\ s[k] \in 0..One
       /\ \E n \in Nat : \A k \in DOMAIN s : k <= n
BY EconomicsAssumption DEF Plausible

LEMMA Products ==
  ASSUME NEW i \in Plausible
  PROVE  ReviewCost(i) \in Nat /\ Benefit(i) \in Nat /\ Harm(i) \in Nat
BY DEF Plausible, Inputs, ReviewCost, Benefit, Harm

\* j is no worse than i in any input.
NoWorse(i, j) ==
  \A name \in Inputs : IF name \in Good THEN i[name] <= j[name] ELSE j[name] <= i[name]

LEMMA ProductMonotone ==
  ASSUME NEW a \in Nat, NEW b \in Nat, NEW c \in Nat, NEW d \in Nat, a <= c, b <= d
  PROVE  a * b <= c * d
<1>1. a * b <= a * d
  OBVIOUS
<1>2. a * d <= c * d
  OBVIOUS
<1>3. a * b \in Nat /\ a * d \in Nat /\ c * d \in Nat
  OBVIOUS
<1> QED
  BY <1>1, <1>2, <1>3

\* A queue is worth no less with inputs that are no worse.
LEMMA NetMonotone ==
  ASSUME NEW i \in Plausible, NEW j \in Plausible, NoWorse(i, j),
         NEW p \in 0..One
  PROVE  /\ NetBenefit(i, p) \in Int /\ NetBenefit(j, p) \in Int
         /\ NetBenefit(i, p) <= NetBenefit(j, p)
<1>1. p \in Nat /\ One \in Nat /\ One - p \in Nat /\ One * One \in Nat
  BY Given
<1>2. /\ ReviewCost(i) \in Nat /\ Benefit(i) \in Nat /\ Harm(i) \in Nat
      /\ ReviewCost(j) \in Nat /\ Benefit(j) \in Nat /\ Harm(j) \in Nat
  BY Products
<1>3. Benefit(i) <= Benefit(j)
  BY ProductMonotone DEF NoWorse, Plausible, Inputs, Good, Benefit
<1>4. ReviewCost(j) <= ReviewCost(i) /\ Harm(j) <= Harm(i)
  BY ProductMonotone DEF NoWorse, Plausible, Inputs, Good, ReviewCost, Harm
<1>5. p * Benefit(i) <= p * Benefit(j)
  BY <1>1, <1>2, <1>3, ProductMonotone
<1>6. One * One * ReviewCost(j) <= One * One * ReviewCost(i)
  BY <1>1, <1>2, <1>4, ProductMonotone
<1>7. (One - p) * Harm(j) <= (One - p) * Harm(i)
  BY <1>1, <1>2, <1>4, ProductMonotone
<1>8. /\ p * Benefit(i) \in Nat /\ p * Benefit(j) \in Nat
      /\ One * One * ReviewCost(i) \in Nat /\ One * One * ReviewCost(j) \in Nat
      /\ (One - p) * Harm(i) \in Nat /\ (One - p) * Harm(j) \in Nat
  BY <1>1, <1>2
<1> QED
  BY <1>5, <1>6, <1>7, <1>8 DEF NetBenefit

\* The three answers to whether a depth pays are one.
LEMMA OneAnswer ==
  ASSUME NEW i \in Plausible, NEW p \in 0..One
  PROVE  /\ (NetBenefit(i, p) > 0) <=> Above(p, BreakEven(i))
         /\ (NetBenefit(i, p) > 0)
              <=> Above(i["value_at_risk_per_ring"], RequiredValueAtRisk(i, p))
<1>1. p \in Nat /\ p <= One /\ One \in Nat
  BY Given
<1>2. PICK B \in Nat : B = Benefit(i)
  BY Products
<1>3. PICK H \in Nat : H = Harm(i)
  BY Products
<1>4. PICK cost \in Nat : cost = ReviewCost(i)
  BY Products
<1>5. PICK V \in Nat : V = i["value_at_risk_per_ring"]
  BY DEF Plausible, Inputs
<1>6. PICK rate \in Nat : rate = i["recovery_rate"]
  BY DEF Plausible, Inputs
<1>7. (p * B - One * One * cost - (One - p) * H > 0)
        <=> (B + H > 0 /\ p * (B + H) > One * (One * cost + H))
  BY <1>1
<1>8. B = V * rate
  BY <1>2, <1>5, <1>6 DEF Benefit
<1>9. (p * (V * rate) - One * One * cost - (One - p) * H > 0)
        <=> (p * rate > 0 /\ V * (p * rate) > One * One * cost + (One - p) * H)
  <2>1. PICK pr \in Nat : pr = p * rate
    BY <1>1
  <2>2. PICK lost \in Nat : lost = (One - p) * H
    BY <1>1
  <2>3. PICK spent \in Nat : spent = One * One * cost
    BY <1>1
  <2>4. p * (V * rate) = V * (p * rate)
    BY <1>1
  <2>5. V * pr \in Nat /\ (pr = 0 => V * pr = 0)
    OBVIOUS
  <2>6. (V * pr - spent - lost > 0) <=> (pr > 0 /\ V * pr > spent + lost)
    BY <2>5
  <2> QED
    BY <2>1, <2>2, <2>3, <2>4, <2>6
<1>10. NetBenefit(i, p) = p * B - One * One * cost - (One - p) * H
  BY <1>2, <1>3, <1>4 DEF NetBenefit
<1>11. Above(p, BreakEven(i)) <=> (B + H > 0 /\ p * (B + H) > One * (One * cost + H))
  BY <1>2, <1>3, <1>4 DEF Above, BreakEven
<1>12. Above(i["value_at_risk_per_ring"], RequiredValueAtRisk(i, p))
         <=> (p * rate > 0 /\ V * (p * rate) > One * One * cost + (One - p) * H)
  BY <1>3, <1>4, <1>5, <1>6 DEF Above, RequiredValueAtRisk
<1> QED
  BY <1>7, <1>8, <1>9, <1>10, <1>11, <1>12

-----------------------------------------------------------------------------
(* The gate.                                                               *)

LEMMA ScaledIs ==
  ASSUME NEW i \in Plausible, NEW name \in Inputs, NEW t \in 1..100
  PROVE  /\ Scaled(i, name, t) \in Plausible
         /\ Scaled(i, name, t)[name] = AtMostOne(name, (i[name] * t) \div 10)
         /\ \A other \in Inputs \ {name} : Scaled(i, name, t)[other] = i[other]
<1>1. /\ i \in [Inputs -> Nat] /\ i[name] \in Nat /\ One \in Nat
  BY Given DEF Plausible
<1>2. (i[name] * t) \div 10 \in Nat
  BY <1>1
<1>3. AtMostOne(name, (i[name] * t) \div 10) \in Nat
  BY <1>1, <1>2 DEF AtMostOne
<1>4. name \in Proportions => AtMostOne(name, (i[name] * t) \div 10) <= One
  BY <1>1, <1>2 DEF AtMostOne
<1> QED
  BY <1>1, <1>3, <1>4 DEF Scaled, Plausible, Proportions, Inputs

\* The further an input is moved in its good direction, the better.
LEMMA ScaledMonotone ==
  ASSUME NEW i \in Plausible, NEW name \in Inputs,
         NEW t \in 1..100, NEW u \in 1..100, t <= u
  PROVE  /\ name \in Good => NoWorse(Scaled(i, name, t), Scaled(i, name, u))
         /\ name \notin Good => NoWorse(Scaled(i, name, u), Scaled(i, name, t))
<1>1. i[name] \in Nat /\ One \in Nat
  BY Given DEF Plausible
<1>2. (i[name] * t) \div 10 <= (i[name] * u) \div 10
  <2>1. i[name] * t <= i[name] * u
    BY <1>1, ProductMonotone
  <2> QED
    BY <1>1, <2>1
<1>3. AtMostOne(name, (i[name] * t) \div 10) <= AtMostOne(name, (i[name] * u) \div 10)
  BY <1>1, <1>2 DEF AtMostOne
<1>4. \A other \in Inputs : i[other] \in Nat
  BY DEF Plausible
<1>5. \A other \in Inputs \ {name} :
        /\ Scaled(i, name, t)[other] = i[other] /\ Scaled(i, name, u)[other] = i[other]
        /\ i[other] <= i[other]
  <2>1. \A other \in Inputs \ {name} : Scaled(i, name, t)[other] = i[other]
    BY ScaledIs
  <2>2. \A other \in Inputs \ {name} : Scaled(i, name, u)[other] = i[other]
    BY ScaledIs
  <2> QED
    BY <1>4, <2>1, <2>2
<1>6. Scaled(i, name, t)[name] <= Scaled(i, name, u)[name]
  BY <1>3, ScaledIs
<1> QED
  BY <1>5, <1>6 DEF NoWorse

\* An answer that is the same at both ends of the band and where the input is
\* is the same all over it.
LEMMA BandIsCovered ==
  ASSUME NEW i \in Plausible, NEW name \in Inputs, NEW t \in 1..100,
         Pays(Scaled(i, name, 1)) = Pays(i), Pays(Scaled(i, name, 100)) = Pays(i)
  PROVE  Pays(Scaled(i, name, t)) = Pays(i)
<1>1. REPORTED_PRECISION \in 0..One
  BY Given
<1>2. /\ Scaled(i, name, 1) \in Plausible /\ Scaled(i, name, t) \in Plausible
      /\ Scaled(i, name, 100) \in Plausible
      /\ 1 \in 1..100 /\ 100 \in 1..100 /\ 1 <= t /\ t <= 100
  <2>1. 1 \in 1..100 /\ 100 \in 1..100 /\ 1 <= t /\ t <= 100
    OBVIOUS
  <2> QED
    BY <2>1, ScaledIs
<1>3. CASE name \in Good
  <2>1. /\ NoWorse(Scaled(i, name, 1), Scaled(i, name, t))
        /\ NoWorse(Scaled(i, name, t), Scaled(i, name, 100))
    BY <1>2, <1>3, ScaledMonotone
  <2> QED
    BY <1>1, <1>2, <2>1, NetMonotone DEF Pays
<1>4. CASE name \notin Good
  <2>1. /\ NoWorse(Scaled(i, name, t), Scaled(i, name, 1))
        /\ NoWorse(Scaled(i, name, 100), Scaled(i, name, t))
    BY <1>2, <1>4, ScaledMonotone
  <2> QED
    BY <1>1, <1>2, <2>1, NetMonotone DEF Pays
<1> QED
  BY <1>3, <1>4

-----------------------------------------------------------------------------
(* The stress.                                                             *)

LEMMA AdverseIs ==
  ASSUME NEW i \in Plausible, NEW which \in SUBSET Inputs, NEW f \in Sweep
  PROVE  Adverse(i, which, f) \in Plausible
<1>1. /\ One \in Nat /\ i \in [Inputs -> Nat] /\ f \in Nat /\ f > 0
      /\ \A name \in Proportions : i[name] <= One
  BY Given DEF Plausible, Sweep
<1>2. \A name \in Inputs :
        i[name] * f \in Nat /\ i[name] \div f \in Nat /\ i[name] \div f <= i[name]
  BY <1>1 DEF Sweep
<1>3. \A name \in Inputs : Adverse(i, which, f)[name] \in Nat
  BY <1>1, <1>2 DEF Adverse, AtMostOne
<1>4. \A name \in Proportions : Adverse(i, which, f)[name] <= One
  BY <1>1, <1>2 DEF Adverse, AtMostOne, ADVERSE_DIRECTION, Proportions, Inputs
<1> QED
  BY <1>3, <1>4 DEF Plausible, Adverse

\* All inputs moved the bad way by f are no better than any by g or less.
LEMMA JointIsWorst ==
  ASSUME NEW i \in Plausible, NEW which \in SUBSET Inputs,
         NEW f \in Sweep, NEW g \in Sweep, g <= f
  PROVE  NoWorse(Adverse(i, Inputs, f), Adverse(i, which, g))
<1> SUFFICES ASSUME NEW name \in Inputs
    PROVE  IF name \in Good
           THEN Adverse(i, Inputs, f)[name] <= Adverse(i, which, g)[name]
           ELSE Adverse(i, which, g)[name] <= Adverse(i, Inputs, f)[name]
  BY DEF NoWorse
<1>1. /\ One \in Nat /\ i[name] \in Nat /\ f \in Nat /\ g \in Nat /\ g > 0
      /\ name \in Proportions => i[name] <= One
  BY Given DEF Plausible, Sweep
<1>2. /\ i[name] \div f <= i[name] \div g /\ i[name] \div g <= i[name]
      /\ i[name] * g <= i[name] * f /\ i[name] <= i[name] * g
  BY <1>1 DEF Sweep
<1>3. CASE name \in Good
  <2>1. ADVERSE_DIRECTION(name) = "down"
    BY <1>3 DEF ADVERSE_DIRECTION, Good
  <2>2. Adverse(i, Inputs, f)[name] = i[name] \div f
    BY <2>1 DEF Adverse
  <2>3. Adverse(i, which, g)[name] \in {i[name], i[name] \div g}
    BY <2>1 DEF Adverse
  <2>4. i[name] \div f \in Nat /\ i[name] \div g \in Nat
    BY <1>1 DEF Sweep
  <2> QED
    BY <1>1, <1>2, <1>3, <2>2, <2>3, <2>4
<1>4. CASE name \notin Good
  <2>1. ADVERSE_DIRECTION(name) = "up"
    BY <1>4 DEF ADVERSE_DIRECTION, Good
  <2>2. Adverse(i, Inputs, f)[name] = AtMostOne(name, i[name] * f)
    BY <2>1 DEF Adverse
  <2>3. Adverse(i, which, g)[name] \in {i[name], AtMostOne(name, i[name] * g)}
    BY <2>1 DEF Adverse
  <2> QED
    BY <1>1, <1>2, <1>4, <2>2, <2>3 DEF AtMostOne
<1> QED
  BY <1>3, <1>4

\* A depth that pays under the stress pays within its box.
LEMMA StressCovers ==
  ASSUME NEW i \in Plausible, NEW which \in SUBSET Inputs,
         NEW f \in Sweep, NEW g \in Sweep, g <= f,
         NEW s, \A k \in DOMAIN s : s[k] \in 0..One
  PROVE  DepthsThatPay(JointAdverse(i, f), s) \subseteq DepthsThatPay(Adverse(i, which, g), s)
<1> SUFFICES ASSUME NEW k \in DOMAIN s, Above(s[k], BreakEven(Adverse(i, Inputs, f)))
             PROVE  Above(s[k], BreakEven(Adverse(i, which, g)))
  BY DEF DepthsThatPay, JointAdverse
<1>1. s[k] \in 0..One
  OBVIOUS
<1>2. Adverse(i, Inputs, f) \in Plausible /\ Adverse(i, which, g) \in Plausible
  BY AdverseIs
<1>3. NetBenefit(Adverse(i, Inputs, f), s[k]) > 0
  BY <1>1, <1>2, OneAnswer
<1>4. NoWorse(Adverse(i, Inputs, f), Adverse(i, which, g))
  BY JointIsWorst
<1>5. NetBenefit(Adverse(i, which, g), s[k]) > 0
  BY <1>1, <1>2, <1>3, <1>4, NetMonotone
<1> QED
  BY <1>1, <1>2, <1>5, OneAnswer

\* Where not even a precision of one pays, no depth does.
LEMMA UnreachableIsEmpty ==
  ASSUME NEW i \in Plausible, NEW s, \A k \in DOMAIN s : s[k] \in 0..One,
         Below(One, BreakEven(i))
  PROVE  DepthsThatPay(i, s) = {}
<1> SUFFICES ASSUME NEW k \in DOMAIN s, Above(s[k], BreakEven(i)) PROVE FALSE
  BY DEF DepthsThatPay
<1>1. PICK d \in Nat : d = BreakEven(i)[2]
  BY Products DEF BreakEven
<1>2. PICK n \in Nat : n = BreakEven(i)[1]
  BY Products, Given DEF BreakEven
<1>3. d > 0 /\ s[k] * d > n /\ ~(One * d > n)
  BY <1>1, <1>2, Given DEF Above, Below
<1>4. s[k] \in Nat /\ One \in Nat /\ s[k] <= One
  BY Given
<1>5. s[k] * d <= One * d
  BY <1>4, ProductMonotone
<1>6. s[k] * d \in Nat /\ One * d \in Nat
  BY <1>4
<1> QED
  BY <1>3, <1>5, <1>6

-----------------------------------------------------------------------------
(* The depth recommended.                                                  *)

\* A nonempty set of depths with bounded values has the first of the best.
LEMMA BestExists ==
  ASSUME NEW S, S # {}, NEW value, NEW n \in Nat,
         \A k \in S : k \in Nat /\ k <= n /\ value[k] \in Nat,
         NEW top \in Nat, \A k \in S : value[k] <= top
  PROVE  \E k \in S : \A l \in S :
           value[l] < value[k] \/ (value[l] = value[k] /\ k <= l)
<1>1. IsWellFoundedOn(OpToRel(<, Nat), Nat)
  BY NatLessThanWellFounded
<1>2. \A T : T \subseteq Nat /\ T # {} => \E t \in T : \A u \in T : t <= u
  <2> SUFFICES ASSUME NEW T, T \subseteq Nat, T # {}
               PROVE  \E t \in T : \A u \in T : t <= u
    OBVIOUS
  <2>1. PICK t \in T : \A u \in T : ~(<<u, t>> \in OpToRel(<, Nat))
    BY <1>1, WFMin
  <2>2. \A u \in T : ~(u < t)
    BY <2>1 DEF OpToRel
  <2> QED
    BY <2>2
<1>3. PICK w \in {top - value[k] : k \in S} : \A u \in {top - value[k] : k \in S} : w <= u
  <2>1. {top - value[k] : k \in S} \subseteq Nat /\ {top - value[k] : k \in S} # {}
    OBVIOUS
  <2> QED
    BY <1>2, <2>1
<1>4. PICK b \in S : w = top - value[b]
  BY <1>3
<1>5. \A l \in S : value[l] <= value[b]
  <2> SUFFICES ASSUME NEW l \in S PROVE value[l] <= value[b]
    OBVIOUS
  <2>1. w <= top - value[l]
    BY <1>3
  <2>2. value[l] \in Nat /\ value[b] \in Nat
    OBVIOUS
  <2> QED
    BY <1>4, <2>1, <2>2
<1>6. PICK k \in {l \in S : value[l] = value[b]} :
        \A l \in {m \in S : value[m] = value[b]} : k <= l
  <2>1. {l \in S : value[l] = value[b]} \subseteq Nat /\ {l \in S : value[l] = value[b]} # {}
    BY <1>4
  <2> QED
    BY <1>2, <2>1
<1> QED
  BY <1>5, <1>6

LEMMA OptimalPays ==
  ASSUME NEW i \in Plausible, NEW s \in Measured \cup {FALLBACK_SCORE}
  PROVE  LET queue == {k \in DOMAIN s : NetBenefit(i, s[k]) > 0} IN
         /\ OptimalK(i, s) \in queue \cup {0}
         /\ (OptimalK(i, s) = 0) = (queue = {})
<1> DEFINE total == TotalNetBenefit(i, s)
           paying == {k \in DOMAIN s : total[k] > 0}
           queue == {k \in DOMAIN s : NetBenefit(i, s[k]) > 0}
<1>1. PICK n \in Nat : \A k \in DOMAIN s : k \in Nat /\ k > 0 /\ k <= n /\ s[k] \in 0..One
  BY Given
<1>2. \A k \in DOMAIN s : /\ NetBenefit(i, s[k]) \in Int
                          /\ NetBenefit(i, s[k]) <= One * Benefit(i)
  <2> SUFFICES ASSUME NEW k \in DOMAIN s
               PROVE  /\ NetBenefit(i, s[k]) \in Int
                      /\ NetBenefit(i, s[k]) <= One * Benefit(i)
    OBVIOUS
  <2>1. /\ s[k] \in Nat /\ One \in Nat /\ One - s[k] \in Nat /\ s[k] <= One
        /\ Benefit(i) \in Nat /\ ReviewCost(i) \in Nat /\ Harm(i) \in Nat
    BY <1>1, Given, Products
  <2>2. /\ s[k] * Benefit(i) \in Nat /\ One * One * ReviewCost(i) \in Nat
        /\ (One - s[k]) * Harm(i) \in Nat
        /\ s[k] * Benefit(i) <= One * Benefit(i) /\ One * Benefit(i) \in Nat
    BY <2>1, ProductMonotone
  <2> QED
    BY <2>2 DEF NetBenefit
<1>3. \A k \in DOMAIN s : /\ total[k] = k * NetBenefit(i, s[k])
                          /\ (total[k] > 0) <=> (NetBenefit(i, s[k]) > 0)
  BY <1>1, <1>2 DEF TotalNetBenefit
<1>4. paying = queue
  BY <1>3
<1>5. PICK most \in Nat : most = One * Benefit(i)
  BY Given, Products
<1>6. n * most \in Nat
  BY <1>5
<1>7. \A k \in paying : k \in Nat /\ k <= n /\ total[k] \in Nat /\ total[k] <= n * most
  <2> SUFFICES ASSUME NEW k \in paying
               PROVE  k \in Nat /\ k <= n /\ total[k] \in Nat /\ total[k] <= n * most
    OBVIOUS
  <2>1. /\ k \in Nat /\ k <= n /\ NetBenefit(i, s[k]) \in Nat
        /\ NetBenefit(i, s[k]) <= most
    BY <1>1, <1>2, <1>3, <1>5
  <2>2. k * NetBenefit(i, s[k]) <= n * most /\ k * NetBenefit(i, s[k]) \in Nat
    BY <2>1, ProductMonotone
  <2> QED
    BY <1>3, <2>1, <2>2
<1>8. 0 \notin paying
  BY <1>1
<1>9. OptimalK(i, s) = IF paying = {} THEN 0
                       ELSE CHOOSE k \in paying : \A l \in paying :
                              total[l] < total[k] \/ (total[l] = total[k] /\ k <= l)
  BY DEF OptimalK
<1> HIDE DEF total, paying
<1>10. paying # {} => OptimalK(i, s) \in paying
  <2> SUFFICES ASSUME paying # {} PROVE OptimalK(i, s) \in paying
    OBVIOUS
  <2>1. \E k \in paying : \A l \in paying :
          total[l] < total[k] \/ (total[l] = total[k] /\ k <= l)
    BY <1>6, <1>7, BestExists
  <2> QED
    BY <1>9, <2>1
<1> QED
  BY <1>4, <1>8, <1>9, <1>10

-----------------------------------------------------------------------------
(* The cost report and the gate over time.                                 *)

LEMMA ScoresAre ==
  ASSUME model \in CostModels, measured \in Measured
  PROVE  /\ model.input \in Plausible
         /\ PrecisionAtK \in Measured \cup {FALLBACK_SCORE}
         /\ \A k \in DOMAIN PrecisionAtK : PrecisionAtK[k] \in 0..One
BY Given DEF PrecisionAtK

LEMMA AnswersAlwaysAgree ==
  ASSUME model \in CostModels, measured \in Measured
  PROVE  AnswersAgree
<1> SUFFICES ASSUME NEW k \in DOMAIN PrecisionAtK
    PROVE  /\ (NetBenefit(model.input, PrecisionAtK[k]) > 0)
                = Above(PrecisionAtK[k], BreakEven(model.input))
           /\ (NetBenefit(model.input, PrecisionAtK[k]) > 0)
                = Above(model.input["value_at_risk_per_ring"],
                        RequiredValueAtRisk(model.input, PrecisionAtK[k]))
  BY DEF AnswersAgree
<1>1. model.input \in Plausible /\ PrecisionAtK[k] \in 0..One
  BY ScoresAre
<1> QED
  BY <1>1, OneAnswer DEF Above

LEMMA ReportIsRight ==
  ASSUME model \in CostModels, measured \in Measured,
         cost_report \in {NoCostReport, CostReport}
  PROVE  StressIsTheWorst
<1> SUFFICES ASSUME cost_report = CostReport PROVE StressIsTheWorst
  BY DEF StressIsTheWorst
<1>1. /\ model.input \in Plausible
      /\ PrecisionAtK \in Measured \cup {FALLBACK_SCORE}
      /\ \A k \in DOMAIN PrecisionAtK : PrecisionAtK[k] \in 0..One
  BY ScoresAre
<1>2. /\ cost_report.optimal_k \in cost_report.queue \cup {0}
      /\ (cost_report.optimal_k = 0) = (cost_report.queue = {})
  BY <1>1, OptimalPays DEF CostReport
<1>3. \A f \in Sweep : cost_report.depths_that_pay[f]
                         = DepthsThatPay(JointAdverse(model.input, f), PrecisionAtK)
  BY DEF CostReport
<1>4. \A f, g \in Sweep : g <= f =>
        \A which \in SUBSET Inputs :
          cost_report.depths_that_pay[f] \subseteq
            DepthsThatPay(Adverse(model.input, which, g), PrecisionAtK)
  BY <1>1, <1>3, StressCovers
<1>5. \A f \in cost_report.unreachable :
        f \in Sweep /\ Below(One, BreakEven(JointAdverse(model.input, f)))
  BY DEF CostReport
<1>6. \A f \in Sweep : JointAdverse(model.input, f) \in Plausible
  BY <1>1, AdverseIs DEF JointAdverse
<1>7. \A f \in cost_report.unreachable : cost_report.depths_that_pay[f] = {}
  BY <1>1, <1>3, <1>5, <1>6, UnreachableIsEmpty
<1> QED
  BY <1>2, <1>4, <1>7 DEF StressIsTheWorst

LEMMA GateIsRight ==
  ASSUME model \in CostModels, cost_gate = "pass" => Critical(model) = {}
  PROVE  GateCoversTheBand
<1> SUFFICES ASSUME Critical(model) = {}, NEW name \in Unsourced(model),
                    NEW tenths \in Tenths
             PROVE  Pays(Scaled(model.input, name, tenths)) = Pays(model.input)
  BY DEF GateCoversTheBand
<1>1. model.input \in Plausible /\ name \in Inputs /\ tenths \in 1..100
  BY Given, EconomicsAssumption DEF Unsourced
<1>2. \A t \in {1, 100} : Pays(Scaled(model.input, name, t)) = Pays(model.input)
  BY DEF Critical
<1> QED
  BY <1>1, <1>2, BandIsCovered

LEMMA CostTypes ==
  ASSUME model \in CostModels, measured \in Measured,
         cost_gate \in {"none", "pass", "fail"},
         cost_report \in {NoCostReport, CostReport}
  PROVE  EconomicsTypeOK
<1>1. CASE cost_report = NoCostReport
  BY <1>1 DEF EconomicsTypeOK, NoCostReport
<1>2. CASE cost_report = CostReport
  <2>1. /\ OptimalK(model.input, PrecisionAtK) \in
             {k \in DOMAIN PrecisionAtK :
                NetBenefit(model.input, PrecisionAtK[k]) > 0} \cup {0}
    BY ScoresAre, OptimalPays
  <2>2. /\ cost_report.queue = {k \in DOMAIN PrecisionAtK :
                                  NetBenefit(model.input, PrecisionAtK[k]) > 0}
        /\ cost_report.optimal_k = OptimalK(model.input, PrecisionAtK)
    BY <1>2 DEF CostReport
  <2> QED
    BY <2>1, <2>2 DEF EconomicsTypeOK
<1> QED
  BY <1>1, <1>2

LEMMA EconomicsStarts == EconomicsInit => EconomicsInv
BY DEF EconomicsInit, EconomicsInv

LEMMA EconomicsSteps == EconomicsInv /\ [EconomicsNext]_economicsVars => EconomicsInv'
<1> SUFFICES ASSUME EconomicsInv, [EconomicsNext]_economicsVars
             PROVE  EconomicsInv'
  OBVIOUS
<1>1. CASE EvalCost
  BY <1>1 DEF EvalCost, EconomicsInv, CostReport, PrecisionAtK
<1>2. CASE GateCost
  BY <1>2 DEF GateCost, EconomicsInv, CostReport, PrecisionAtK
<1>3. CASE UNCHANGED economicsVars
  BY <1>3 DEF economicsVars, EconomicsInv, CostReport, PrecisionAtK
<1> QED
  BY <1>1, <1>2, <1>3 DEF EconomicsNext

\* The cost report and the gate draw the conclusions of their model, whatever
\* the inputs, scores and depths: its three answers agree, its joint stress is
\* the worst of its box, the depth it recommends pays, and a gate that asks at
\* the ends of the band answers for all of it (eval_cost.main, gate_cost).
THEOREM CostsAreSound == EconomicsSpec => []CostConclusionsHold
<1>1. EconomicsInv => CostConclusionsHold
  BY CostTypes, AnswersAlwaysAgree, ReportIsRight, GateIsRight
     DEF EconomicsInv, CostConclusionsHold
<1> QED
  BY <1>1, EconomicsStarts, EconomicsSteps, PTL DEF EconomicsSpec

-----------------------------------------------------------------------------
(* Products of positive numbers.                                           *)

\* A product of positive numbers is one, and each of them divides it.
ProductStep(g, s) == IF s = {} THEN 1 ELSE Taken(s) * g[s \ {Taken(s)}]

ProductFold(g, S) == g = [s \in SUBSET S |-> ProductStep(g, s)]

LEMMA ProductFoldExists ==
  ASSUME NEW S \in SUBSET Nat, IsFiniteSet(S)
  PROVE  \E g : ProductFold(g, S)
<1>1. PICK step : step = [p \in S \X Nat |-> p[1] * p[2]]
  OBVIOUS
<1>2. step \in [S \X Nat -> Nat]
  <2>1. \A a, b \in Nat : a * b \in Nat
    OBVIOUS
  <2>2. \A p \in S \X Nat : p[1] \in Nat /\ p[2] \in Nat
    OBVIOUS
  <2>3. \A p \in S \X Nat : p[1] * p[2] \in Nat
    BY <2>1, <2>2
  <2> QED
    BY <1>1, <2>3
<1>3. PICK first : first = [s \in SUBSET S |-> Taken(s)]
  OBVIOUS
<1>4. \A T \in SUBSET S : T # {} => first[T] \in T
  BY <1>3, TakenIsMember
<1>5. PICK g \in [SUBSET S -> Nat] : IsFold(1, step, first, g, S)
  BY <1>2, <1>4, FoldExists, 1 \in Nat
<1>6. ASSUME NEW s \in SUBSET S PROVE OneStep(1, step, first, g, s) = ProductStep(g, s)
  <2>1. CASE s # {}
    <3>1. first[s] = Taken(s) /\ first[s] \in S /\ s \ {first[s]} \in SUBSET S
      BY <1>3, <1>4, <2>1
    <3>2. g[s \ {first[s]}] \in Nat
      BY <3>1
    <3>3. step[<<first[s], g[s \ {first[s]}]>>] = first[s] * g[s \ {first[s]}]
      BY <1>1, <3>1, <3>2
    <3> QED
      BY <2>1, <3>1, <3>3 DEF OneStep, ProductStep
  <2> QED
    BY <2>1 DEF OneStep, ProductStep
<1>7. g = [s \in SUBSET S |-> ProductStep(g, s)]
  BY <1>5, <1>6 DEF IsFold
<1> QED
  BY <1>7 DEF ProductFold

LEMMA FactorsDivide ==
  ASSUME NEW x \in Nat \ {0}, NEW y \in Nat \ {0}, NEW m \in Nat \ {0}, NEW n \in Nat,
         n = x * m
  PROVE  y * n \in Nat \ {0} /\ y * m \in Nat \ {0} /\ y * n = x * (y * m)
OBVIOUS

Divides(x, n) == \E m \in Nat \ {0} : n = x * m

LEMMA ProductOfPositives ==
  ASSUME NEW S \in SUBSET (Nat \ {0}), IsFiniteSet(S)
  PROVE  ProductSet(S) \in Nat \ {0} /\ \A x \in S : Divides(x, ProductSet(S))
<1>1. PICK g : g = CHOOSE h : ProductFold(h, S)
  OBVIOUS
<1>2. ProductFold(g, S)
  BY <1>1, ProductFoldExists
<1>3. ProductSet(S) = g[S]
  <2>1. ProductSet(S) = (CHOOSE h : ProductFold(h, S))[S]
    BY DEF ProductSet, FoldSet, MapThenFoldSet, ProductFold, ProductStep, Taken
  <2> QED
    BY <1>1, <2>1
<1>4. PICK Holding : Holding = {T \in SUBSET S : /\ g[T] \in Nat \ {0}
                                                 /\ \A x \in T : Divides(x, g[T])}
  OBVIOUS
<1>5. ASSUME NEW T \in SUBSET S, \A U \in SUBSET T : U # T => U \in Holding
      PROVE  T \in Holding
  <2>1. g[T] = ProductStep(g, T)
    BY <1>2 DEF ProductFold
  <2>2. CASE T = {}
    BY <1>4, <2>1, <2>2 DEF ProductStep
  <2>3. CASE T # {}
    <3>1. PICK y \in T : y = Taken(T)
      BY <2>3, TakenIsMember
    <3>2. PICK rest : rest = T \ {y}
      OBVIOUS
    <3>3. rest \in Holding /\ g[T] = y * g[rest] /\ y \in Nat \ {0}
      BY <1>5, <2>1, <2>3, <3>1, <3>2 DEF ProductStep
    <3>4. PICK n \in Nat \ {0} : n = g[rest]
      BY <1>4, <3>3
    <3>5. y * n \in Nat \ {0}
      BY <3>3
    <3>6. ASSUME NEW x \in T PROVE Divides(x, y * n)
      <4>1. CASE x = y
        BY <3>3, <3>4, <4>1 DEF Divides
      <4>2. CASE x # y
        <5>1. Divides(x, n)
          BY <1>4, <3>2, <3>3, <3>4, <4>2
        <5>2. PICK m \in Nat \ {0} : n = x * m
          BY <5>1 DEF Divides
        <5>3. x \in Nat \ {0}
          OBVIOUS
        <5>4. y * m \in Nat \ {0} /\ y * n = x * (y * m)
          BY <3>3, <5>2, <5>3, FactorsDivide
        <5> QED
          BY <5>4 DEF Divides
      <4> QED
        BY <4>1, <4>2
    <3> QED
      BY <1>4, <3>3, <3>4, <3>5, <3>6
  <2> QED
    BY <2>2, <2>3
<1>6. SUBSET S \subseteq Holding
  BY <1>5, SmallerFirst
<1>7. S \in Holding
  BY <1>6
<1> QED
  BY <1>3, <1>4, <1>7

\* What divides a number does so without remainder.
LEMMA Quotient ==
  ASSUME NEW x \in Nat \ {0}, NEW n \in Nat, Divides(x, n)
  PROVE  n \div x \in Nat /\ x * (n \div x) = n
<1>1. PICK m \in Nat \ {0} : n = x * m
  BY DEF Divides
<1>2. PICK q : q = n \div x
  OBVIOUS
<1>3. PICK r : r = n % x
  OBVIOUS
<1>4. q \in Nat /\ r \in 0..(x - 1) /\ n = q * x + r
  <2>1. n = (n \div x) * x + (n % x)
    BY SMTT(30)
  <2>2. n \div x \in Nat
    BY SMTT(30)
  <2>3. n % x \in 0..(x - 1)
    BY SMTT(30)
  <2> QED
    BY <1>2, <1>3, <2>1, <2>2, <2>3
<1>5. CASE q = m
  BY <1>1, <1>2, <1>4, <1>5
<1>6. CASE q > m
  <2>1. PICK d \in Nat : q = m + 1 + d
    <3>1. q - m - 1 \in Nat /\ q = m + 1 + (q - m - 1)
      BY <1>4, <1>6
    <3> QED
      BY <3>1
  <2>2. q * x = m * x + x + d * x /\ d * x \in Nat /\ m * x \in Nat
    BY <2>1, SMTT(30)
  <2> QED
    BY <1>1, <1>4, <2>2
<1>7. CASE q < m
  <2>1. PICK d \in Nat : m = q + 1 + d
    <3>1. m - q - 1 \in Nat /\ m = q + 1 + (m - q - 1)
      BY <1>4, <1>7
    <3> QED
      BY <3>1
  <2>2. m * x = q * x + x + d * x /\ d * x \in Nat /\ q * x \in Nat
    BY <1>4, <2>1, SMTT(30)
  <2> QED
    BY <1>1, <1>4, <2>2
<1> QED
  BY <1>4, <1>5, <1>6, <1>7

-----------------------------------------------------------------------------
(* Calibration.                                                            *)

\* What has been disposed is a table of counts by the kind of case.
Tabled ==
  /\ DOMAIN disposed \in SUBSET Kind /\ IsFiniteSet(DOMAIN disposed)
  /\ disposed = [k \in DOMAIN disposed |-> disposed[k]]
  /\ \A k \in DOMAIN disposed : disposed[k] \in Nat \ {0}

LaneWeighted == [k \in DOMAIN disposed |-> Lanes[k.lane] * disposed[k]]

LaneSum(A) == SumOver(A, LAMBDA k : Lanes[k.lane] * disposed[k])

LaneStep(g, s) ==
  IF s = {} THEN 0
  ELSE Lanes[Taken(s).lane] * disposed[Taken(s)] + g[s \ {Taken(s)}]

LaneFold(g, A) == g = [s \in SUBSET A |-> LaneStep(g, s)]

LEMMA LaneWeights ==
  ASSUME Tabled, NEW k \in DOMAIN disposed
  PROVE  LaneWeighted[k] \in Nat \ {0}
<1>1. Lanes[k.lane] \in Nat \ {0}
  BY CalibrationAssumption DEF Tabled, Kind
<1>2. disposed[k] \in Nat \ {0}
  BY DEF Tabled
<1>3. \A m, n \in Nat \ {0} : m * n \in Nat \ {0}
  OBVIOUS
<1> QED
  BY <1>1, <1>2, <1>3 DEF LaneWeighted

LEMMA LaneSumIs ==
  ASSUME Tabled, NEW A \in SUBSET DOMAIN disposed
  PROVE  LaneSum(A) = Summed(LaneWeighted, A)
<1>1. IsFiniteSet(A) /\ \A k \in A : LaneWeighted[k] \in Int
  BY LaneWeights, FS_Subset DEF Tabled
<1>2. LaneSum(A) = (CHOOSE g : LaneFold(g, A))[A]
  BY DEF LaneSum, SumOver, MapThenSumSet, MapThenFoldSet, LaneFold, LaneStep, Taken
<1>3. ASSUME NEW g, NEW s \in SUBSET A
      PROVE  LaneStep(g, s) = SumStep(LaneWeighted, g, s)
  <2>1. CASE s # {}
    <3>1. LaneWeighted[Taken(s)] = Lanes[Taken(s).lane] * disposed[Taken(s)]
      BY <2>1, TakenIsMember DEF LaneWeighted
    <3> QED
      BY <2>1, <3>1 DEF LaneStep, SumStep
  <2> QED
    BY <2>1 DEF LaneStep, SumStep
<1>4. \A g : LaneFold(g, A) <=> SumFold(LaneWeighted, g, A)
  BY <1>3 DEF LaneFold, SumFold
<1>5. PICK g : g = CHOOSE h : LaneFold(h, A)
  OBVIOUS
<1>6. \E h : LaneFold(h, A)
  BY <1>1, <1>4, SumFoldExists
<1>7. LaneFold(g, A)
  BY <1>5, <1>6
<1>8. SumFold(LaneWeighted, g, A)
  BY <1>4, <1>7
<1>9. g[A] = Summed(LaneWeighted, A)
  BY <1>1, <1>8, RecursionIsSum
<1> QED
  BY <1>2, <1>5, <1>9

PositiveArm(t, fires) == {k \in Arm(t, fires) : k.verdict = "positive"}

\* The three sums of an arm, in terms of the table.
ArmsAreSums ==
  Tabled => \A t \in Terms, fires \in BOOLEAN :
    /\ Weighted(t, fires) = Summed(LaneWeighted, Arm(t, fires))
    /\ Positive(t, fires) = Summed(LaneWeighted, PositiveArm(t, fires))
    /\ Raw(t, fires) = Summed(disposed, Arm(t, fires))

LEMMA ArmsSum == ArmsAreSums
<1> SUFFICES ASSUME Tabled, NEW t \in Terms, NEW fires \in BOOLEAN
             PROVE  /\ Weighted(t, fires) = Summed(LaneWeighted, Arm(t, fires))
                    /\ Positive(t, fires) = Summed(LaneWeighted, PositiveArm(t, fires))
                    /\ Raw(t, fires) = Summed(disposed, Arm(t, fires))
  BY DEF ArmsAreSums
<1>1. Arm(t, fires) \in SUBSET DOMAIN disposed /\ PositiveArm(t, fires) \in SUBSET DOMAIN disposed
  BY DEF Arm, PositiveArm
<1>2. Weighted(t, fires) = LaneSum(Arm(t, fires))
  BY DEF Weighted, LaneSum
<1>3. Positive(t, fires) = LaneSum(PositiveArm(t, fires))
  BY DEF Positive, LaneSum, PositiveArm
<1>4. Raw(t, fires) = Summed(disposed, Arm(t, fires))
  BY DEF Raw, SumOver, Summed
<1>5. LaneSum(Arm(t, fires)) = Summed(LaneWeighted, Arm(t, fires))
  BY <1>1, LaneSumIs
<1>6. LaneSum(PositiveArm(t, fires)) = Summed(LaneWeighted, PositiveArm(t, fires))
  BY <1>1, LaneSumIs
<1> QED
  BY <1>2, <1>3, <1>4, <1>5, <1>6

LEMMA ArmsAlwaysSum == ArmsAreSums'
BY ArmsSum, PTL

\* Every judged case is in one arm of each term.
LEMMA EvidenceComplete ==
  ASSUME Tabled PROVE EvidenceIsComplete
<1> SUFFICES ASSUME NEW t \in Terms
             PROVE  Raw(t, TRUE) + Raw(t, FALSE) =
                      SumOver({k \in DOMAIN disposed : k.verdict # "insufficient_evidence"},
                              LAMBDA k : disposed[k])
  BY DEF EvidenceIsComplete
<1>1. PICK judged : judged = {k \in DOMAIN disposed : k.verdict # "insufficient_evidence"}
  OBVIOUS
<1>2. PICK A : A = Arm(t, TRUE)
  OBVIOUS
<1>3. PICK B : B = Arm(t, FALSE)
  OBVIOUS
<1>4. A \cap B = {} /\ A \cup B = judged /\ A \cup B \subseteq DOMAIN disposed
  BY <1>1, <1>2, <1>3 DEF Arm, Counts
<1>5. IsFiniteSet(A) /\ IsFiniteSet(B) /\ \A k \in A \cup B : disposed[k] \in Int
  BY <1>4, FS_Subset DEF Tabled
<1>6. Summed(disposed, A \cup B) = Summed(disposed, A) + Summed(disposed, B)
  BY <1>4, <1>5, SumJoins
<1>7. Raw(t, TRUE) = Summed(disposed, A) /\ Raw(t, FALSE) = Summed(disposed, B)
  BY <1>2, <1>3, ArmsSum DEF ArmsAreSums
<1>8. SumOver({k \in DOMAIN disposed : k.verdict # "insufficient_evidence"},
              LAMBDA k : disposed[k]) = Summed(disposed, judged)
  BY <1>1 DEF SumOver, Summed
<1> QED
  BY <1>4, <1>6, <1>7, <1>8

\* An arm with observations weighs something.
LEMMA ArmWeighs ==
  ASSUME Tabled, NEW t \in Terms, NEW fires \in BOOLEAN
  PROVE  /\ Weighted(t, fires) \in Nat /\ Positive(t, fires) \in Nat
         /\ Raw(t, fires) > 0 => Weighted(t, fires) > 0
<1>1. PICK A : A = Arm(t, fires)
  OBVIOUS
<1>2. PICK B : B = PositiveArm(t, fires)
  OBVIOUS
<1>3. A \subseteq DOMAIN disposed /\ B \subseteq DOMAIN disposed
  BY <1>1, <1>2 DEF Arm, PositiveArm
<1>4. /\ IsFiniteSet(A) /\ IsFiniteSet(B)
      /\ \A k \in A \cup B : LaneWeighted[k] \in Nat \ {0} /\ disposed[k] \in Nat
  BY <1>3, FS_Subset, LaneWeights DEF Tabled
<1>5. /\ Summed(LaneWeighted, A) \in Nat /\ Summed(LaneWeighted, B) \in Nat
      /\ \A k \in A : LaneWeighted[k] <= Summed(LaneWeighted, A)
  BY <1>4, SumOfNaturals
<1>6. Summed(disposed, {}) = 0
  BY FS_EmptySet, SumTakesAny
<1>7. /\ Weighted(t, fires) = Summed(LaneWeighted, A)
      /\ Positive(t, fires) = Summed(LaneWeighted, B)
      /\ Raw(t, fires) = Summed(disposed, A)
  BY <1>1, <1>2, ArmsSum DEF ArmsAreSums
<1>8. ASSUME Raw(t, fires) > 0 PROVE Weighted(t, fires) > 0
  <2>1. A # {}
    BY <1>6, <1>7, <1>8
  <2>2. PICK k \in A : LaneWeighted[k] \in Nat \ {0} /\ LaneWeighted[k] <= Summed(LaneWeighted, A)
    BY <1>4, <1>5, <2>1
  <2> QED
    BY <1>5, <1>7, <2>2
<1> QED
  BY <1>5, <1>7, <1>8

\* A lift is a share whose denominator is positive if both arms have
\* observations; capped, it is at most five.
Lifts == Nat \X (Nat \ {0})

LEMMA LiftIsShare ==
  ASSUME Tabled, NEW t \in Terms, EnoughObservations(t)
  PROVE  Lift(t) \in Lifts
<1>1. Raw(t, TRUE) > 0
  <2>1. PICK n : n = Raw(t, TRUE)
    OBVIOUS
  <2>2. n >= MIN_OBSERVATIONS_PER_ARM
    BY <2>1 DEF EnoughObservations
  <2>3. PICK A : A = Arm(t, TRUE)
    OBVIOUS
  <2>4. IsFiniteSet(A) /\ \A k \in A : disposed[k] \in Nat
    BY <2>3, FS_Subset DEF Arm, Tabled
  <2>5. Raw(t, TRUE) = Summed(disposed, A) /\ Summed(disposed, A) \in Nat
    BY <2>3, <2>4, SumOfNaturals, ArmsSum DEF ArmsAreSums
  <2>6. n \in Nat
    BY <2>1, <2>5
  <2>7. n > 0
    BY <2>2, <2>6, CalibrationAssumption
  <2> QED
    BY <2>1, <2>7
<1>2. PICK w1 \in Nat \ {0}, w0 \in Nat, p1 \in Nat, p0 \in Nat :
        /\ w1 = Weighted(t, TRUE) /\ w0 = Weighted(t, FALSE)
        /\ p1 = Positive(t, TRUE) /\ p0 = Positive(t, FALSE)
  <2>1. Weighted(t, TRUE) \in Nat /\ Weighted(t, TRUE) > 0
    BY <1>1, ArmWeighs, Zenon
  <2>2. \A n \in Nat : n > 0 => n \in Nat \ {0}
    OBVIOUS
  <2>3. Weighted(t, TRUE) \in Nat \ {0}
    BY <2>1, <2>2, Zenon
  <2>4. Weighted(t, FALSE) \in Nat /\ Positive(t, TRUE) \in Nat /\ Positive(t, FALSE) \in Nat
    BY ArmWeighs, Zenon
  <2> QED
    BY <2>3, <2>4, Zenon
<1>3. p0 # 0 => p1 * w0 \in Nat /\ w1 * p0 \in Nat \ {0}
  <2>1. p1 * w0 \in Nat
    OBVIOUS
  <2>2. ASSUME p0 # 0 PROVE w1 * p0 \in Nat \ {0}
    BY <2>2
  <2> QED
    BY <2>1, <2>2
<1>4. Lift(t) = IF p0 = 0 THEN IF p1 > 0 THEN <<10, 1>> ELSE <<1, 1>>
                ELSE <<p1 * w0, w1 * p0>>
  BY <1>2 DEF Lift
<1> QED
  BY <1>3, <1>4 DEF Lifts

LEMMA CappedIsShare ==
  ASSUME NEW l \in Lifts
  PROVE  /\ Capped(l) \in Lifts /\ Capped(l)[1] <= 5 * Capped(l)[2]
         /\ l[1] > l[2] => Capped(l)[1] > Capped(l)[2]
         /\ l[1] < l[2] => Capped(l)[1] < Capped(l)[2]
BY DEF Capped, Lifts

Denominators(moving) == {Capped(Lift(t))[2] : t \in moving}

LEMMA DenominatorDivides ==
  ASSUME Tabled, NEW moving \in SUBSET Terms, \A t \in moving : EnoughObservations(t)
  PROVE  /\ Denominator(moving) \in Nat \ {0}
         /\ \A t \in moving : Divides(Capped(Lift(t))[2], Denominator(moving))
<1>1. \A t \in moving : Capped(Lift(t))[2] \in Nat \ {0}
  BY LiftIsShare, CappedIsShare DEF Lifts
<1>2. PICK f : f = [t \in moving |-> Capped(Lift(t))[2]]
  OBVIOUS
<1>3. f \in Surjection(moving, Denominators(moving))
  BY <1>2 DEF Surjection, Denominators
<1>4. IsFiniteSet(moving)
  BY FS_Subset, CalibrationAssumption
<1>5. IsFiniteSet(Denominators(moving))
  BY <1>3, <1>4, FS_Surjection
<1>6. Denominators(moving) \in SUBSET (Nat \ {0})
  BY <1>1 DEF Denominators
<1>7. Denominator(moving) = ProductSet(Denominators(moving))
  BY DEF Denominator, Denominators
<1>8. \A t \in moving : Capped(Lift(t))[2] \in Denominators(moving)
  BY DEF Denominators
<1> QED
  BY <1>5, <1>6, <1>7, <1>8, ProductOfPositives

\* A weight b of a total B moves a quarter of the way to its lift, in units
\* of a quarter of b: by no more than the cap of five, and in the direction
\* of the lift.
ShiftTo(b, B, d, l1, q) == 3 * b * d + Lesser(B * d, b * l1 * q)

LEMMA ShiftedWeight ==
  ASSUME NEW b \in Nat, NEW B \in Nat, b <= B, NEW d \in Nat \ {0},
         NEW l1 \in Nat, NEW l2 \in Nat \ {0}, NEW q \in Nat, l2 * q = d, l1 <= 5 * l2
  PROVE  /\ ShiftTo(b, B, d, l1, q) \in Nat
         /\ 3 * (b * d) <= ShiftTo(b, B, d, l1, q)
         /\ ShiftTo(b, B, d, l1, q) <= 8 * (b * d)
         /\ l1 > l2 /\ b > 0 /\ b < B => ShiftTo(b, B, d, l1, q) > 4 * (b * d)
         /\ l1 < l2 /\ b > 0 => ShiftTo(b, B, d, l1, q) < 4 * (b * d)
<1>1. PICK m : m = ShiftTo(b, B, d, l1, q)
  OBVIOUS
<1>2. PICK X \in Nat : X = b * d
  OBVIOUS
<1>3. PICK Y \in Nat : Y = l1 * q
  OBVIOUS
<1>4. PICK Z \in Nat : Z = b * Y
  OBVIOUS
<1>5. PICK W \in Nat : W = B * d
  OBVIOUS
<1>6. q > 0
  <2>1. q = 0 => l2 * q = 0
    OBVIOUS
  <2> QED
    BY <2>1
<1>7. m = 3 * X + Lesser(W, Z)
  <2>1. b * l1 * q = b * (l1 * q) /\ 3 * b * d = 3 * (b * d)
    OBVIOUS
  <2> QED
    BY <1>1, <1>2, <1>3, <1>4, <1>5, <2>1 DEF ShiftTo
<1>8. X <= W
  BY <1>2, <1>5, ProductMonotone
<1>9. Y <= 5 * d /\ Z <= 5 * X
  <2>1. l1 * q <= (5 * l2) * q
    BY ProductMonotone
  <2>2. (5 * l2) * q = 5 * (l2 * q)
    OBVIOUS
  <2>3. Y <= 5 * d
    BY <1>3, <2>1, <2>2
  <2>4. b * Y <= b * (5 * d)
    BY <2>3, ProductMonotone
  <2>5. b * (5 * d) = 5 * (b * d)
    OBVIOUS
  <2> QED
    BY <1>2, <1>4, <2>3, <2>4, <2>5
<1>10. l1 > l2 /\ b > 0 => Z > X
  <2> SUFFICES ASSUME l1 > l2, b > 0 PROVE Z > X
    OBVIOUS
  <2>1. l2 * q < l1 * q
    BY <1>6, StrictProduct
  <2>2. d * b < Y * b
    BY <1>3, <2>1, StrictProduct
  <2>3. d * b = b * d /\ Y * b = b * Y
    OBVIOUS
  <2> QED
    BY <1>2, <1>4, <2>2, <2>3
<1>11. b < B => X < W
  BY <1>2, <1>5, StrictProduct
<1>12. l1 < l2 /\ b > 0 => Z < X
  <2> SUFFICES ASSUME l1 < l2, b > 0 PROVE Z < X
    OBVIOUS
  <2>1. l1 * q < l2 * q
    BY <1>6, StrictProduct
  <2>2. Y * b < d * b
    BY <1>3, <2>1, StrictProduct
  <2>3. d * b = b * d /\ Y * b = b * Y
    OBVIOUS
  <2> QED
    BY <1>2, <1>4, <2>2, <2>3
<1>13. Lesser(W, Z) \in Nat /\ Lesser(W, Z) <= Z /\ Lesser(W, Z) <= W
       /\ Lesser(W, Z) \in {W, Z}
  BY DEF Lesser
<1>14. PICK L \in Nat : L = Lesser(W, Z)
  BY <1>13
<1>15. m = 3 * X + L /\ L <= Z /\ L <= W /\ (L = W \/ L = Z)
  BY <1>7, <1>13, <1>14
<1>16. m \in Nat /\ 3 * X <= m /\ m <= 8 * X
  BY <1>9, <1>15
<1>17. Z > X /\ X < W => m > 4 * X
  BY <1>15
<1>18. Z < X => m < 4 * X
  BY <1>15
<1> QED
  BY <1>1, <1>2, <1>10, <1>11, <1>12, <1>16, <1>17, <1>18

\* A term of some weight has less than all of it, if another has some too.
LEMMA BlendSums ==
  ASSUME blend \in [Terms -> Nat]
  PROVE  /\ Total(blend) \in Nat
         /\ \A t \in Terms : blend[t] <= Total(blend)
         /\ \A t, u \in Terms : t # u /\ blend[u] > 0 => blend[t] < Total(blend)
<1>1. IsFiniteSet(Terms) /\ \A t \in Terms : blend[t] \in Nat
  BY CalibrationAssumption
<1>2. Total(blend) = Summed(blend, Terms)
  BY DEF Total, SumOver, Summed
<1>3. Summed(blend, Terms) \in Nat /\ \A t \in Terms : blend[t] <= Summed(blend, Terms)
  BY <1>1, SumOfNaturals
<1>4. ASSUME NEW t \in Terms, NEW u \in Terms, t # u, blend[u] > 0
      PROVE  blend[t] < Summed(blend, Terms)
  <2>1. Summed(blend, Terms) = blend[t] + Summed(blend, Terms \ {t})
    BY <1>1, SumTakesAny
  <2>2. PICK others : others = Terms \ {t}
    OBVIOUS
  <2>3. IsFiniteSet(others) /\ u \in others /\ \A x \in others : blend[x] \in Nat
    BY <1>1, <1>4, <2>2, FS_Subset
  <2>4. Summed(blend, others) \in Nat /\ blend[u] <= Summed(blend, others)
    BY <2>3, SumOfNaturals
  <2> QED
    BY <1>1, <1>4, <2>1, <2>2, <2>4
<1> QED
  BY <1>2, <1>3, <1>4

\* What a pass does to the weights, in units of a quarter of the old ones.
Units(t, moving) == blend[t] * Denominator(moving)

LEMMA PassMoves ==
  ASSUME Tabled, blend \in [Terms -> Nat], NEW moving \in SUBSET Terms,
         \A t \in moving : EnoughObservations(t), NEW t \in moving
  PROVE  /\ Moved(t, moving) \in Nat
         /\ 3 * Units(t, moving) <= Moved(t, moving)
         /\ Moved(t, moving) <= 8 * Units(t, moving)
         /\ Lift(t)[1] > Lift(t)[2] /\ blend[t] > 0 /\ blend[t] < Total(blend) =>
              Moved(t, moving) > 4 * Units(t, moving)
         /\ Lift(t)[1] < Lift(t)[2] /\ blend[t] > 0 =>
              Moved(t, moving) < 4 * Units(t, moving)
<1>1. PICK b \in Nat : b = blend[t]
  OBVIOUS
<1>2. PICK B \in Nat : B = Total(blend)
  BY BlendSums
<1>3. b <= B
  BY <1>1, <1>2, BlendSums
<1>4. PICK d \in Nat \ {0} : d = Denominator(moving)
  BY DenominatorDivides
<1>5. PICK l \in Lifts : l = Capped(Lift(t))
  BY LiftIsShare, CappedIsShare
<1>6. /\ l[1] \in Nat /\ l[2] \in Nat \ {0} /\ l[1] <= 5 * l[2]
      /\ Lift(t)[1] > Lift(t)[2] => l[1] > l[2]
      /\ Lift(t)[1] < Lift(t)[2] => l[1] < l[2]
  <2>1. Lift(t) \in Lifts
    BY LiftIsShare
  <2>2. l[1] \in Nat /\ l[2] \in Nat \ {0}
    BY DEF Lifts
  <2> QED
    BY <1>5, <2>1, <2>2, CappedIsShare
<1>7. PICK q \in Nat : q = d \div l[2] /\ l[2] * q = d
  <2>1. Divides(l[2], d)
    BY <1>4, <1>5, DenominatorDivides
  <2> QED
    BY <1>6, <2>1, Quotient
<1>8. PICK m : m = ShiftTo(b, B, d, l[1], q)
  OBVIOUS
<1>9. Moved(t, moving) = m
  BY <1>1, <1>2, <1>4, <1>5, <1>7, <1>8 DEF Moved, ShiftTo
<1>10. PICK n : n = b * d
  OBVIOUS
<1>11. /\ m \in Nat /\ 3 * n <= m /\ m <= 8 * n
       /\ l[1] > l[2] /\ b > 0 /\ b < B => m > 4 * n
       /\ l[1] < l[2] /\ b > 0 => m < 4 * n
  <2>1. b \in Nat /\ B \in Nat /\ d \in Nat \ {0} /\ q \in Nat
    OBVIOUS
  <2>2. b <= B /\ l[1] \in Nat /\ l[2] \in Nat \ {0} /\ l[2] * q = d /\ l[1] <= 5 * l[2]
    BY <1>3, <1>6, <1>7
  <2>3. /\ m \in Nat /\ 3 * (b * d) <= m /\ m <= 8 * (b * d)
        /\ l[1] > l[2] /\ b > 0 /\ b < B => m > 4 * (b * d)
        /\ l[1] < l[2] /\ b > 0 => m < 4 * (b * d)
    BY <1>8, <2>1, <2>2, ShiftedWeight, Zenon
  <2> QED
    BY <1>10, <2>3, Zenon
<1>12. Units(t, moving) = n
  BY <1>1, <1>4, <1>10 DEF Units
<1>13. ASSUME Lift(t)[1] > Lift(t)[2], blend[t] > 0, blend[t] < Total(blend)
       PROVE  Moved(t, moving) > 4 * Units(t, moving)
  BY <1>1, <1>2, <1>6, <1>9, <1>11, <1>12, <1>13
<1>14. ASSUME Lift(t)[1] < Lift(t)[2], blend[t] > 0
       PROVE  Moved(t, moving) < 4 * Units(t, moving)
  BY <1>1, <1>6, <1>9, <1>11, <1>12, <1>14
<1>15. /\ Moved(t, moving) \in Nat
       /\ 3 * Units(t, moving) <= Moved(t, moving)
       /\ Moved(t, moving) <= 8 * Units(t, moving)
  BY <1>9, <1>11, <1>12
<1> QED
  BY <1>13, <1>14, <1>15

\* What a pass promises of the weights w that it proposes.
Shifted(w, moving) ==
  /\ \A t, u \in Terms \ moving : w[t] * blend[u] >= w[u] * blend[t]
  /\ \A t \in moving, u \in Terms \ moving : blend[t] > 0 /\ blend[u] > 0 =>
       /\ Lift(t)[1] > Lift(t)[2] => w[t] * blend[u] > w[u] * blend[t]
       /\ Lift(t)[1] < Lift(t)[2] => w[u] * blend[t] > w[t] * blend[u]
  /\ \A t, u \in Terms : 3 * w[t] * blend[u] <= 8 * w[u] * blend[t]

PassWeights(moving) ==
  [t \in Terms |-> IF t \in moving THEN Moved(t, moving) ELSE Kept(t, moving)]

LEMMA KeptIs ==
  ASSUME Tabled, blend \in [Terms -> Nat], NEW moving \in SUBSET Terms,
         \A t \in moving : EnoughObservations(t), NEW t \in Terms
  PROVE  Kept(t, moving) = 4 * Units(t, moving) /\ Units(t, moving) \in Nat
<1>1. PICK b \in Nat : b = blend[t]
  OBVIOUS
<1>2. PICK d \in Nat \ {0} : d = Denominator(moving)
  BY DenominatorDivides
<1>3. 4 * b * d = 4 * (b * d) /\ b * d \in Nat
  OBVIOUS
<1> QED
  BY <1>1, <1>2, <1>3 DEF Kept, Units

\* Every weight stays within three and eight of its units.
LEMMA PassBounds ==
  ASSUME Tabled, blend \in [Terms -> Nat], NEW moving \in SUBSET Terms,
         \A t \in moving : EnoughObservations(t), NEW t \in Terms
  PROVE  /\ PassWeights(moving)[t] \in Nat
         /\ 3 * Units(t, moving) <= PassWeights(moving)[t]
         /\ PassWeights(moving)[t] <= 8 * Units(t, moving)
<1>1. CASE t \in moving
  BY <1>1, PassMoves DEF PassWeights
<1>2. CASE t \notin moving
  <2>1. PICK u \in Nat : u = Units(t, moving)
    BY KeptIs
  <2>2. PassWeights(moving)[t] = 4 * u
    BY <1>2, <2>1, KeptIs DEF PassWeights
  <2> QED
    BY <2>1, <2>2
<1> QED
  BY <1>1, <1>2

\* With some weight in force the pass proposes some, and nothing is rescaled.
LEMMA NotRenormalised ==
  ASSUME Tabled, blend \in [Terms -> Nat], NEW some \in Terms, blend[some] > 0,
         NEW moving \in SUBSET Terms, \A t \in moving : EnoughObservations(t)
  PROVE  Renormalised(PassWeights(moving)) = PassWeights(moving)
<1>1. PICK w : w = PassWeights(moving)
  OBVIOUS
<1>2. \A t \in Terms : w[t] \in Nat
  BY <1>1, PassBounds
<1>3. IsFiniteSet(Terms)
  BY CalibrationAssumption
<1>4. Total(w) = Summed(w, Terms)
  BY DEF Total, SumOver, Summed
<1>5. Summed(w, Terms) \in Nat /\ w[some] <= Summed(w, Terms)
  BY <1>2, <1>3, SumOfNaturals
<1>6. w[some] > 0
  <2>1. PICK b \in Nat \ {0} : b = blend[some]
    OBVIOUS
  <2>2. PICK d \in Nat \ {0} : d = Denominator(moving)
    BY DenominatorDivides
  <2>3. b * d \in Nat \ {0}
    OBVIOUS
  <2>4. PICK n \in Nat \ {0} : n = Units(some, moving)
    BY <2>1, <2>2, <2>3 DEF Units
  <2>5. 3 * n <= w[some] /\ w[some] \in Nat
    BY <1>1, <2>4, PassBounds
  <2> QED
    BY <2>5
<1>7. Total(w) # 0
  BY <1>2, <1>4, <1>5, <1>6
<1> QED
  BY <1>1, <1>7 DEF Renormalised

\* The weights of a pass shift as promised.
LEMMA PassShifts ==
  ASSUME Tabled, blend \in [Terms -> Nat], NEW moving \in SUBSET Terms,
         \A t \in moving : EnoughObservations(t)
  PROVE  Shifted(PassWeights(moving), moving)
<1>1. PICK d \in Nat \ {0} : d = Denominator(moving)
  BY DenominatorDivides
<1>2. PICK w : w = PassWeights(moving)
  OBVIOUS
<1>3. \A t \in Terms : /\ w[t] \in Nat /\ blend[t] \in Nat
                       /\ 3 * (blend[t] * d) <= w[t] /\ w[t] <= 8 * (blend[t] * d)
  BY <1>1, <1>2, PassBounds DEF Units
<1>4. \A t \in Terms \ moving : w[t] = 4 * (blend[t] * d)
  BY <1>1, <1>2, KeptIs DEF Units, PassWeights
<1>5. ASSUME NEW t \in Terms, NEW u \in Terms
      PROVE  3 * w[t] * blend[u] <= 8 * w[u] * blend[t]
  <2>1. PICK b \in Nat, c \in Nat, x \in Nat, y \in Nat :
          b = blend[t] /\ c = blend[u] /\ x = w[t] /\ y = w[u]
    BY <1>3
  <2>2. x <= 8 * (b * d) /\ 3 * (c * d) <= y
    BY <1>3, <2>1
  <2>3. x * c <= (8 * (b * d)) * c /\ (3 * (c * d)) * b <= y * b
    <3>1. 8 * (b * d) \in Nat /\ 3 * (c * d) \in Nat
      OBVIOUS
    <3> QED
      BY <2>2, <3>1, ProductMonotone
  <2>4. 3 * ((8 * (b * d)) * c) = 8 * ((3 * (c * d)) * b)
    BY SMTT(30)
  <2>5. 3 * x * c <= 8 * y * b
    <3>1. PICK p \in Nat, q \in Nat, r \in Nat, s \in Nat :
            p = x * c /\ q = (8 * (b * d)) * c /\ r = (3 * (c * d)) * b /\ s = y * b
      OBVIOUS
    <3>2. 3 * p <= 8 * s
      BY <2>3, <2>4, <3>1
    <3>3. 3 * x * c = 3 * p /\ 8 * y * b = 8 * s
      BY <3>1
    <3> QED
      BY <3>2, <3>3
  <2> QED
    BY <2>1, <2>5
<1>6. ASSUME NEW t \in Terms \ moving, NEW u \in Terms \ moving
      PROVE  w[t] * blend[u] >= w[u] * blend[t]
  <2>1. PICK b \in Nat, c \in Nat : b = blend[t] /\ c = blend[u]
    BY <1>3
  <2>2. (4 * (b * d)) * c = (4 * (c * d)) * b /\ (4 * (b * d)) * c \in Nat
    OBVIOUS
  <2> QED
    BY <1>4, <2>1, <2>2
<1>7. ASSUME NEW t \in moving, NEW u \in Terms \ moving, blend[t] > 0, blend[u] > 0
      PROVE  /\ Lift(t)[1] > Lift(t)[2] => w[t] * blend[u] > w[u] * blend[t]
             /\ Lift(t)[1] < Lift(t)[2] => w[u] * blend[t] > w[t] * blend[u]
  <2>1. PICK b \in Nat, c \in Nat, x \in Nat, y \in Nat :
          b = blend[t] /\ c = blend[u] /\ x = w[t] /\ y = w[u]
    BY <1>3
  <2>2. b > 0 /\ c > 0 /\ y = 4 * (c * d) /\ blend[t] < Total(blend)
    BY <1>4, <1>7, <2>1, BlendSums
  <2>3. /\ Lift(t)[1] > Lift(t)[2] => x > 4 * (b * d)
        /\ Lift(t)[1] < Lift(t)[2] => x < 4 * (b * d)
    BY <1>1, <1>2, <1>7, <2>1, <2>2, PassMoves DEF Units, PassWeights
  <2>4. y * b = (4 * (b * d)) * c /\ 4 * (b * d) \in Nat
    BY <2>2, SMTT(30)
  <2>5. ASSUME x > 4 * (b * d) PROVE x * c > y * b
    BY <2>2, <2>4, <2>5, StrictProduct
  <2>6. ASSUME x < 4 * (b * d) PROVE y * b > x * c
    BY <2>2, <2>4, <2>6, StrictProduct
  <2> QED
    BY <2>1, <2>3, <2>5, <2>6
<1> QED
  BY <1>2, <1>5, <1>6, <1>7 DEF Shifted

\* Lifts are of the table alone.
LEMMA SameTableSameLifts ==
  ASSUME Tabled, disposed' = disposed, NEW t \in Terms
  PROVE  Lift(t)' = Lift(t)
<1>1. Tabled'
  BY DEF Tabled
<1>2. LaneWeighted' = LaneWeighted
  BY DEF LaneWeighted
<1>3. ASSUME NEW fires \in BOOLEAN
      PROVE  Weighted(t, fires)' = Weighted(t, fires) /\ Positive(t, fires)' = Positive(t, fires)
  <2>1. Arm(t, fires)' = Arm(t, fires) /\ PositiveArm(t, fires)' = PositiveArm(t, fires)
    BY DEF Arm, PositiveArm
  <2>2. /\ Weighted(t, fires)' = Summed(LaneWeighted', Arm(t, fires)')
        /\ Positive(t, fires)' = Summed(LaneWeighted', PositiveArm(t, fires)')
    BY <1>1, ArmsAlwaysSum DEF ArmsAreSums
  <2>3. /\ Weighted(t, fires) = Summed(LaneWeighted, Arm(t, fires))
        /\ Positive(t, fires) = Summed(LaneWeighted, PositiveArm(t, fires))
    BY ArmsSum DEF ArmsAreSums
  <2> QED
    BY <1>2, <2>1, <2>2, <2>3
<1>4. /\ Weighted(t, TRUE)' = Weighted(t, TRUE) /\ Weighted(t, FALSE)' = Weighted(t, FALSE)
      /\ Positive(t, TRUE)' = Positive(t, TRUE) /\ Positive(t, FALSE)' = Positive(t, FALSE)
  BY <1>3, Zenon
<1> QED
  BY <1>4, Zenon DEF Lift

\* The counts are of kinds of case, and what a pass proposed it shifted.
CalibrationInv ==
  /\ blend \in Blends /\ Tabled
  /\ Done => moved \in SUBSET Terms /\ Shifted(proposed, moved)

LEMMA CalibrationStarts == CalibrationInit => CalibrationInv
<1> SUFFICES ASSUME CalibrationInit PROVE CalibrationInv
  OBVIOUS
<1>1. blend \in Blends /\ disposed = <<>> /\ ~Done
  BY DEF CalibrationInit, Done
<1>2. DOMAIN disposed = {}
  BY <1>1
<1>3. disposed = [k \in DOMAIN disposed |-> disposed[k]]
  BY <1>1
<1>4. Tabled
  BY <1>2, <1>3, FS_EmptySet DEF Tabled
<1> QED
  BY <1>1, <1>4 DEF CalibrationInv

LEMMA CaseIsTabled ==
  ASSUME CalibrationInv, DisposeOne PROVE CalibrationInv'
<1>1. PICK k \in Kind : disposed' =
        [x \in DOMAIN disposed \cup {k} |->
           (IF x \in DOMAIN disposed THEN disposed[x] ELSE 0) + (IF x = k THEN 1 ELSE 0)]
  <2>1. PICK fired \in SUBSET {t \in Terms : blend[t] > 0}, lane \in DOMAIN Lanes,
             share \in {"none", "some", "most"} :
          \E v \in Verdicts(share) \cup {"insufficient_evidence"} :
            LET k == [fired |-> fired, lane |-> lane, verdict |-> Judged(v)] IN
            disposed' = [x \in DOMAIN disposed \cup {k} |->
                           (IF x \in DOMAIN disposed THEN disposed[x] ELSE 0)
                             + (IF x = k THEN 1 ELSE 0)]
    BY DEF DisposeOne
  <2>2. PICK v \in Verdicts(share) \cup {"insufficient_evidence"} :
            LET k == [fired |-> fired, lane |-> lane, verdict |-> Judged(v)] IN
            disposed' = [x \in DOMAIN disposed \cup {k} |->
                           (IF x \in DOMAIN disposed THEN disposed[x] ELSE 0)
                             + (IF x = k THEN 1 ELSE 0)]
    BY <2>1
  <2>3. Judged(v) \in {"positive", "negative", "insufficient_evidence"}
    BY DEF Verdicts, Judged
  <2>4. [fired |-> fired, lane |-> lane, verdict |-> Judged(v)] \in Kind
    BY <2>3 DEF Kind
  <2> QED
    BY <2>2, <2>4
<1>2. DOMAIN disposed \in SUBSET Kind /\ IsFiniteSet(DOMAIN disposed)
      /\ \A x \in DOMAIN disposed : disposed[x] \in Nat \ {0}
  BY DEF CalibrationInv, Tabled
<1>3. DOMAIN disposed' = DOMAIN disposed \cup {k}
  BY <1>1
<1>4. IsFiniteSet(DOMAIN disposed')
  BY <1>2, <1>3, FS_AddElement
<1>5. \A x \in DOMAIN disposed' : disposed'[x] \in Nat \ {0}
  BY <1>1, <1>2
<1>6. disposed' = [x \in DOMAIN disposed' |-> disposed'[x]]
  BY <1>1
<1>7. Tabled'
  BY <1>2, <1>3, <1>4, <1>5, <1>6 DEF Tabled
<1>8. blend' = blend /\ ~Done'
  BY DEF DisposeOne, Done, NotYet
<1> QED
  BY <1>7, <1>8 DEF CalibrationInv

\* What was promised of some weights stays promised while nothing else moves.
LEMMA ShiftedStays ==
  ASSUME Tabled, UNCHANGED <<blend, disposed>>, moved' \in SUBSET Terms,
         Shifted(proposed', moved')
  PROVE  Shifted(proposed, moved)'
<1>1. \A t \in Terms : Lift(t)' = Lift(t)
  BY SameTableSameLifts
<1> QED
  BY <1>1 DEF Shifted

LEMMA PassKeepsItsPromise ==
  ASSUME CalibrationInv, Pass PROVE CalibrationInv'
<1>1. PICK moving \in SUBSET {t \in Terms : EnoughObservations(t)} :
        moved' = moving /\ proposed' = Renormalised(PassWeights(moving))
  BY DEF Pass, PassWeights
<1>2. blend \in [Terms -> Nat] /\ Tabled /\ UNCHANGED <<blend, disposed>>
  BY CalibrationAssumption DEF CalibrationInv, Pass
<1>3. PICK some \in Terms : blend[some] > 0
  BY CalibrationAssumption DEF CalibrationInv
<1>4. moving \in SUBSET Terms /\ \A t \in moving : EnoughObservations(t)
  OBVIOUS
<1>5. proposed' = PassWeights(moving)
  BY <1>1, <1>2, <1>3, <1>4, NotRenormalised
<1>6. Shifted(proposed', moved')
  BY <1>1, <1>2, <1>4, <1>5, PassShifts
<1>7. Shifted(proposed, moved)'
  BY <1>1, <1>2, <1>4, <1>6, ShiftedStays
<1>8. Tabled'
  BY <1>2 DEF Tabled
<1> QED
  BY <1>1, <1>2, <1>4, <1>7, <1>8 DEF CalibrationInv

LEMMA CalibrationMoves ==
  ASSUME CalibrationInv, [CalibrationNext]_calibrationVars PROVE CalibrationInv'
<1>1. ASSUME UNCHANGED calibrationVars PROVE CalibrationInv'
  <2>1. UNCHANGED <<blend, disposed, proposed, moved>>
    BY <1>1 DEF calibrationVars
  <2>2. ASSUME Done' PROVE moved' \in SUBSET Terms /\ Shifted(proposed, moved)'
    <3>1. Done /\ moved' \in SUBSET Terms /\ Shifted(proposed', moved')
      BY <2>1, <2>2 DEF CalibrationInv, Done
    <3> QED
      BY <2>1, <3>1, ShiftedStays DEF CalibrationInv
  <2>3. Tabled'
    BY <2>1 DEF CalibrationInv, Tabled
  <2> QED
    BY <2>1, <2>2, <2>3 DEF CalibrationInv
<1> QED
  BY <1>1, CaseIsTabled, PassKeepsItsPromise DEF CalibrationNext

\* Over any terms, weights, lanes and thresholds and any number of verdicts,
\* a calibration pass (calibrate) is moved by all of the evidence and by
\* nothing else: refused terms keep their proportions, a term moves in the
\* direction of its lift, and no term is retired or revived.
THEOREM WeightsFollowEvidence == CalibrationSpec => []EvidenceMovesWeights
<1>1. CalibrationInv => EvidenceMovesWeights
  BY EvidenceComplete
     DEF CalibrationInv, EvidenceMovesWeights, Shifted, Refused, Holds, Gains
<1> QED
  BY <1>1, CalibrationStarts, CalibrationMoves, PTL DEF CalibrationSpec

-----------------------------------------------------------------------------
(* Identity.                                                               *)

Origins == [planted : BOOLEAN, n : Nat]

IdentityTyped ==
  /\ params \in Params /\ phase \in {"legit", "fraud", "done"}
  /\ made \in [Attrs -> Nat] /\ pool \in [Attrs -> SUBSET Nat]
  /\ apps \in Seq([Attrs -> Nat]) /\ origin \in Seq(Origins) /\ Len(origin) = Len(apps)
  /\ \A i \in Ids, x \in Attrs : apps[i][x] \in 1..made[x]
  /\ \A x \in Attrs : pool[x] \subseteq 1..made[x]

\* Who is planted when, and that a chain goes on where it stopped.
Stages ==
  /\ phase # "done" => files = <<>>
  /\ phase = "legit" => Planted = {}
  /\ phase = "fraud" /\ Planted # {} => origin[Len(apps)].planted

\* Only addresses and internet addresses are on offer.
OnlyAddressesOffered == \A x \in Attrs : pool[x] # {} => x \in {"address", "ip"}

\* What two members of a legitimate structure share, all of them share; its
\* number is no later than the latest.
SharedByAll ==
  \A i, j \in Ids, x \in Attrs :
    i # j /\ origin[i] = origin[j] /\ ~origin[i].planted /\ apps[i][x] = apps[j][x] =>
      \A m \in Ids : origin[m] = origin[i] => apps[m][x] = apps[i][x]

LEMMA IdsAre ==
  ASSUME IdentityTyped
  PROVE  /\ Len(apps) \in Nat /\ Ids = 1..Len(apps) /\ IsFiniteSet(Ids)
         /\ Cardinality(Ids) = Len(apps)
         /\ \A S \in SUBSET Ids : IsFiniteSet(S) /\ Cardinality(S) \in Nat
         /\ \A i \in Ids : i \in Nat /\ origin[i] \in Origins /\ apps[i] \in [Attrs -> Nat]
<1>1. Len(apps) \in Nat /\ Ids = 1..Len(apps)
  BY DEF IdentityTyped, Ids
<1>2. IsFiniteSet(Ids) /\ Cardinality(Ids) = Len(apps)
  <2>1. 1 \in Int /\ Len(apps) \in Int
    BY <1>1
  <2>2. IsFiniteSet(1..Len(apps))
        /\ Cardinality(1..Len(apps)) = IF 1 > Len(apps) THEN 0 ELSE Len(apps) - 1 + 1
    BY <2>1, FS_Interval
  <2> QED
    BY <1>1, <2>2
<1>3. \A S \in SUBSET Ids : IsFiniteSet(S) /\ Cardinality(S) \in Nat
  BY <1>2, FS_Subset, FS_CardinalityType
<1>4. \A i \in Ids : i \in Nat /\ origin[i] \in Origins /\ apps[i] \in [Attrs -> Nat]
  BY <1>1 DEF IdentityTyped
<1> QED
  BY <1>1, <1>2, <1>3, <1>4

LEMMA LatestIs ==
  ASSUME IdentityTyped, NEW b \in BOOLEAN
  PROVE  /\ Latest(b) \in Nat
         /\ \A i \in Ids : origin[i].planted = b => origin[i].n <= Latest(b)
<1>1. PICK T : T = {i \in Ids : origin[i].planted = b}
  OBVIOUS
<1>2. PICK f : f = [i \in T |-> origin[i].n]
  OBVIOUS
<1>3. DOMAIN origin = Ids
  BY DEF IdentityTyped, Ids
<1>4. \A i \in T : f[i] \in Numbers(b)
  BY <1>1, <1>2, <1>3 DEF Numbers, ToSet
<1>5. \A v \in Numbers(b) : \E i \in T : f[i] = v
  BY <1>1, <1>2, <1>3 DEF Numbers, ToSet
<1>6. f \in Surjection(T, Numbers(b))
  BY <1>2, <1>4, <1>5 DEF Surjection
<1>7. IsFiniteSet(T)
  BY <1>1, IdsAre
<1>8. IsFiniteSet(Numbers(b))
  BY <1>6, <1>7, FS_Surjection
<1>9. Numbers(b) \subseteq Nat
  <2>1. \A i \in T : f[i] \in Nat
    BY <1>1, <1>2, IdsAre DEF Origins
  <2> QED
    BY <1>5, <2>1
<1>10. PICK S : S = {0} \cup Numbers(b)
  OBVIOUS
<1>11. IsFiniteSet(S) /\ S \subseteq Int /\ S # {}
  <2>1. IsFiniteSet(Numbers(b) \cup {0})
    BY <1>8, FS_AddElement
  <2>2. S = Numbers(b) \cup {0}
    BY <1>10
  <2> QED
    BY <1>9, <2>1, <2>2
<1>12. Max(S) \in S /\ \A y \in S : Max(S) >= y
  BY <1>11, Extremes
<1>13. Latest(b) = Max(S)
  BY <1>10 DEF Latest
<1>14. Max(S) \in Nat
  BY <1>9, <1>10, <1>12
<1>15. \A i \in T : origin[i].n <= Max(S)
  <2>1. \A i \in T : origin[i].n \in S
    BY <1>2, <1>4, <1>10
  <2>2. \A y \in S : y <= Max(S)
    BY <1>9, <1>10, <1>12
  <2> QED
    BY <2>1, <2>2, Zenon
<1>16. \A i \in Ids : origin[i].planted = b => i \in T
  BY <1>1, Zenon
<1> QED
  BY <1>13, <1>14, <1>15, <1>16, Zenon

\* A legitimate structure of n applications that share some attributes.
Joined(n, shared) ==
  /\ apps' \in Seq([Attrs -> Nat]) /\ origin' \in Seq(Origins)
  /\ Len(apps') = Len(apps) + n /\ Len(origin') = Len(apps) + n
  /\ \A i \in Ids : apps'[i] = apps[i] /\ origin'[i] = origin[i]
  /\ \A k \in 1..n :
       /\ origin'[Len(apps) + k] = [planted |-> FALSE, n |-> Latest(FALSE) + 1]
       /\ \A x \in Attrs :
            apps'[Len(apps) + k][x] = made[x] + (IF x \in shared THEN 1 ELSE k)
  /\ made' = [x \in Attrs |-> made[x] + (IF x \in shared THEN 1 ELSE n)]

LEMMA LegitJoins ==
  ASSUME IdentityTyped, NEW kind \in Kinds, _legit_group(kind)
  PROVE  \E n \in Nat \ {0}, shared \in SUBSET Attrs :
           /\ Joined(n, shared)
           /\ pool' = [x \in Attrs |->
                         IF x \in shared \cap Shares(kind).offered
                         THEN pool[x] \cup {made[x] + 1} ELSE pool[x]]
<1>1. PICK n \in Size[kind], perhaps \in SUBSET (Shares(kind).maybe \cap Attrs) :
        LET shared == (Shares(kind).always \cap Attrs) \cup perhaps
        IN /\ apps' = apps \o Members(n, shared)
           /\ origin' = origin \o
                [k \in 1..n |-> [planted |-> FALSE, n |-> Latest(FALSE) + 1]]
           /\ made' = [x \in Attrs |-> made[x] + (IF x \in shared THEN 1 ELSE n)]
           /\ pool' = [x \in Attrs |->
                         IF x \in shared \cap Shares(kind).offered
                         THEN pool[x] \cup {made[x] + 1} ELSE pool[x]]
  BY DEF _legit_group
<1>2. PICK shared \in SUBSET Attrs : shared = (Shares(kind).always \cap Attrs) \cup perhaps
  OBVIOUS
<1>3. n \in Nat \ {0}
  BY IdentityAssumption
<1>4. /\ apps \in Seq([Attrs -> Nat]) /\ origin \in Seq(Origins) /\ Len(origin) = Len(apps)
      /\ made \in [Attrs -> Nat] /\ Len(apps) \in Nat /\ Ids = 1..Len(apps)
  BY IdsAre DEF IdentityTyped
<1>5. PICK more : more = Members(n, shared)
  OBVIOUS
<1>6. more \in Seq([Attrs -> Nat]) /\ Len(more) = n
  <2>1. more \in [1..n -> [Attrs -> Nat]]
    BY <1>3, <1>4, <1>5 DEF Members
  <2> QED
    BY <1>3, <2>1, IsASeq, LenProperties
<1>7. \A k \in 1..n, x \in Attrs : more[k][x] = made[x] + (IF x \in shared THEN 1 ELSE k)
  BY <1>5 DEF Members
<1>8. PICK o : o = [planted |-> FALSE, n |-> Latest(FALSE) + 1]
  OBVIOUS
<1>9. o \in Origins
  <2>1. Latest(FALSE) \in Nat
    BY LatestIs, Zenon
  <2>2. PICK m \in Nat : m = Latest(FALSE)
    BY <2>1
  <2>3. m + 1 \in Nat
    OBVIOUS
  <2> QED
    BY <1>8, <2>2, <2>3, Zenon DEF Origins
<1>10. PICK others : others = [k \in 1..n |-> o]
  OBVIOUS
<1>11. others \in Seq(Origins) /\ Len(others) = n
  <2>1. others \in [1..n -> Origins]
    BY <1>9, <1>10
  <2> QED
    BY <1>3, <2>1, IsASeq, LenProperties
<1>12. apps' = apps \o more /\ origin' = origin \o others
  BY <1>1, <1>2, <1>5, <1>8, <1>10
<1>13. /\ apps' \in Seq([Attrs -> Nat]) /\ Len(apps') = Len(apps) + n
       /\ \A i \in 1..(Len(apps) + n) :
            apps'[i] = IF i <= Len(apps) THEN apps[i] ELSE more[i - Len(apps)]
  <2>1. /\ apps \o more \in Seq([Attrs -> Nat]) /\ Len(apps \o more) = Len(apps) + Len(more)
        /\ \A i \in 1..(Len(apps) + Len(more)) : (apps \o more)[i] =
             IF i <= Len(apps) THEN apps[i] ELSE more[i - Len(apps)]
    BY <1>4, <1>6, ConcatProperties, Zenon
  <2> QED
    BY <1>6, <1>12, <2>1, Zenon
<1>14. /\ origin' \in Seq(Origins) /\ Len(origin') = Len(apps) + n
       /\ \A i \in 1..(Len(apps) + n) :
            origin'[i] = IF i <= Len(apps) THEN origin[i] ELSE others[i - Len(apps)]
  <2>1. /\ origin \o others \in Seq(Origins)
        /\ Len(origin \o others) = Len(origin) + Len(others)
        /\ \A i \in 1..(Len(origin) + Len(others)) : (origin \o others)[i] =
             IF i <= Len(origin) THEN origin[i] ELSE others[i - Len(origin)]
    BY <1>4, <1>11, ConcatProperties, Zenon
  <2> QED
    BY <1>4, <1>11, <1>12, <2>1, Zenon
<1>15. \A i \in Ids : apps'[i] = apps[i] /\ origin'[i] = origin[i]
  BY <1>3, <1>4, <1>13, <1>14
<1>16. \A k \in 1..n : Len(apps) + k \in 1..(Len(apps) + n) /\ ~(Len(apps) + k <= Len(apps))
                       /\ (Len(apps) + k) - Len(apps) = k
  BY <1>3, <1>4
<1>17. \A k \in 1..n : apps'[Len(apps) + k] = more[k] /\ origin'[Len(apps) + k] = others[k]
  BY <1>13, <1>14, <1>16
<1>18. \A k \in 1..n : origin'[Len(apps) + k] = o
  BY <1>10, <1>17
<1>19. Joined(n, shared)
  BY <1>1, <1>2, <1>7, <1>8, <1>13, <1>14, <1>15, <1>17, <1>18 DEF Joined
<1> QED
  BY <1>1, <1>2, <1>3, <1>19

\* A chain grows by an application that is like none before it except where
\* it keeps a value of its predecessor in the chain or holds a stolen one.
Chained(new, o) ==
  /\ new \in [Attrs -> Nat] /\ o \in Origins /\ o.planted
  /\ apps' = Append(apps, new) /\ origin' = Append(origin, o)
  /\ made' \in [Attrs -> Nat] /\ \A x \in Attrs : made[x] <= made'[x]
  /\ \A x \in Attrs : new[x] \in 1..made'[x]
  /\ \A x \in Attrs : \/ new[x] > made[x]
                      \/ new[x] \in pool[x]
                      \/ /\ Len(apps) \in Ids /\ origin[Len(apps)] = o
                         /\ new[x] = apps[Len(apps)][x]

LEMMA StartChains ==
  ASSUME IdentityTyped, StartChain
  PROVE  \E new, o : Chained(new, o)
<1>1. PICK new : new = [x \in Attrs |-> made[x] + 1]
  OBVIOUS
<1>2. PICK o : o = [planted |-> TRUE, n |-> Latest(TRUE) + 1]
  OBVIOUS
<1>3. o \in Origins /\ o.planted
  <2>1. Latest(TRUE) \in Nat
    BY LatestIs, Zenon
  <2>2. PICK m \in Nat : m = Latest(TRUE)
    BY <2>1
  <2>3. m + 1 \in Nat
    OBVIOUS
  <2>4. o \in Origins
    BY <1>2, <2>2, <2>3, Zenon DEF Origins
  <2> QED
    BY <1>2, <2>4
<1>4. apps' = Append(apps, new) /\ origin' = Append(origin, o) /\ made' = new
  BY <1>1, <1>2 DEF StartChain
<1>5. made \in [Attrs -> Nat]
  BY DEF IdentityTyped
<1>6. new \in [Attrs -> Nat] /\ \A x \in Attrs : new[x] > made[x] /\ new[x] \in 1..new[x]
  BY <1>1, <1>5
<1>7. Chained(new, o)
  BY <1>3, <1>4, <1>5, <1>6 DEF Chained
<1> QED
  BY <1>7

LEMMA HopChains ==
  ASSUME IdentityTyped, Stages, _rotation_chain
  PROVE  \E new, o : Chained(new, o)
<1>1. PICK L \in Nat : L = Len(apps)
  BY IdsAre
<1>2. /\ made \in [Attrs -> Nat] /\ Ids = 1..L /\ Len(origin) = L
      /\ \A x \in Attrs : pool[x] \subseteq 1..made[x]
      /\ \A i \in Ids, x \in Attrs : apps[i][x] \in 1..made[x]
      /\ \A i \in Ids : apps[i] \in [Attrs -> Nat] /\ origin[i] \in Origins
  BY <1>1, IdsAre DEF IdentityTyped
<1>3. L \in Ids /\ origin[L].planted
  <2>1. LastChain # 0
    BY DEF _rotation_chain, ChainDone
  <2>2. Group(TRUE, Latest(TRUE)) # {}
    BY <2>1, FS_EmptySet DEF LastChain
  <2>3. PICK i \in Ids : origin[i] = [planted |-> TRUE, n |-> Latest(TRUE)]
    BY <2>2 DEF Group
  <2>4. origin[i].planted
    BY <2>3
  <2>5. i \in Planted
    BY <2>4 DEF Planted
  <2>6. origin[L].planted
    BY <1>1, <2>5 DEF Stages, _rotation_chain
  <2>7. L \in Ids
    BY <1>2, <2>3
  <2> QED
    BY <2>6, <2>7
<1>4. PICK o : o = origin[L]
  OBVIOUS
<1>5. o \in Origins /\ o.planted
  <2>1. o \in Origins
    BY <1>2, <1>3, <1>4
  <2> QED
    BY <1>3, <1>4, <2>1
<1>6. origin' = Append(origin, o)
  BY <1>2, <1>4 DEF _rotation_chain, Last
<1>7. PICK before \in [Attrs -> Nat] : before = apps[L]
  BY <1>2, <1>3
<1>8. PICK rotated \in Rotations :
        LET cur == apps[Len(apps)]
            nxt == [x \in Attrs |-> IF x \in rotated THEN made[x] + 1 ELSE cur[x]]
            used == [x \in Attrs |-> made[x] + (IF x \in rotated THEN 1 ELSE 0)]
        IN \/ apps' = Append(apps, nxt) /\ made' = used
           \/ \E x \in Attrs : \E v \in pool[x] :
                apps' = Append(apps, [nxt EXCEPT ![x] = v]) /\ made' = used
           \/ \E x \in Attrs :
                /\ pool[x] = {}
                /\ apps' = Append(apps, [nxt EXCEPT ![x] = used[x] + 1])
                /\ made' = [used EXCEPT ![x] = @ + 1]
  BY Zenon DEF _rotation_chain
<1>9. PICK nxt : nxt = [x \in Attrs |-> IF x \in rotated THEN made[x] + 1 ELSE before[x]]
  OBVIOUS
<1>10. PICK used : used = [x \in Attrs |-> made[x] + (IF x \in rotated THEN 1 ELSE 0)]
  OBVIOUS
<1>11. /\ nxt \in [Attrs -> Nat] /\ used \in [Attrs -> Nat]
       /\ \A x \in Attrs : made[x] <= used[x] /\ nxt[x] \in 1..used[x]
       /\ \A x \in Attrs : nxt[x] > made[x] \/ nxt[x] = before[x]
  <2>1. \A x \in Attrs : made[x] \in Nat /\ before[x] \in 1..made[x]
    BY <1>2, <1>3, <1>7
  <2> QED
    BY <1>9, <1>10, <2>1
<1>12. CASE apps' = Append(apps, nxt) /\ made' = used
  <2>1. Chained(nxt, o)
    BY <1>1, <1>3, <1>4, <1>5, <1>6, <1>7, <1>11, <1>12 DEF Chained
  <2> QED
    BY <2>1
<1>13. ASSUME NEW x \in Attrs, NEW v \in pool[x],
              apps' = Append(apps, [nxt EXCEPT ![x] = v]), made' = used
       PROVE  \E new, p : Chained(new, p)
  <2>1. PICK new : new = [nxt EXCEPT ![x] = v]
    OBVIOUS
  <2>2. v \in Nat /\ v \in 1..made[x] /\ made[x] \in Nat
    BY <1>2
  <2>3. new \in [Attrs -> Nat] /\ new[x] = v /\ \A y \in Attrs \ {x} : new[y] = nxt[y]
    BY <1>11, <2>1, <2>2
  <2>4. \A y \in Attrs : new[y] \in 1..used[y]
    BY <1>11, <2>2, <2>3
  <2>5. Chained(new, o)
    BY <1>1, <1>3, <1>4, <1>5, <1>6, <1>7, <1>11, <1>13, <2>1, <2>3, <2>4 DEF Chained
  <2> QED
    BY <2>5
<1>14. ASSUME NEW x \in Attrs, apps' = Append(apps, [nxt EXCEPT ![x] = used[x] + 1]),
              made' = [used EXCEPT ![x] = @ + 1]
       PROVE  \E new, p : Chained(new, p)
  <2>1. PICK new : new = [nxt EXCEPT ![x] = used[x] + 1]
    OBVIOUS
  <2>2. /\ made' \in [Attrs -> Nat] /\ made'[x] = used[x] + 1
        /\ \A y \in Attrs \ {x} : made'[y] = used[y]
    BY <1>11, <1>14
  <2>3. new \in [Attrs -> Nat] /\ new[x] = used[x] + 1 /\ \A y \in Attrs \ {x} : new[y] = nxt[y]
    BY <1>11, <2>1
  <2>4. \A y \in Attrs : new[y] \in 1..made'[y] /\ made[y] <= made'[y]
                         /\ (new[y] > made[y] \/ new[y] = before[y])
    <3>1. \A y \in Attrs : used[y] \in Nat /\ made[y] \in Nat
      BY <1>2, <1>11
    <3> QED
      BY <1>11, <2>2, <2>3, <3>1
  <2>5. Chained(new, o)
    BY <1>1, <1>3, <1>4, <1>5, <1>6, <1>7, <1>14, <2>1, <2>2, <2>3, <2>4 DEF Chained
  <2> QED
    BY <2>5
<1>15. \/ apps' = Append(apps, nxt) /\ made' = used
       \/ \E x \in Attrs : \E v \in pool[x] :
            apps' = Append(apps, [nxt EXCEPT ![x] = v]) /\ made' = used
       \/ \E x \in Attrs :
            /\ apps' = Append(apps, [nxt EXCEPT ![x] = used[x] + 1])
            /\ made' = [used EXCEPT ![x] = @ + 1]
  BY <1>1, <1>7, <1>8, <1>9, <1>10
<1> QED
  BY <1>12, <1>13, <1>14, <1>15

\* Induction over the numbers, by a smallest counterexample.
LEMMA EveryNumber ==
  ASSUME NEW S, 0 \in S, \A k \in Nat : k \in S => k + 1 \in S
  PROVE  \A k \in Nat : k \in S
<1> SUFFICES ASSUME NEW m \in Nat, m \notin S
             PROVE  FALSE
  OBVIOUS
<1>1. PICK T : T = {k \in Nat : k \notin S}
  OBVIOUS
<1>2. IsWellFoundedOn(OpToRel(<, Nat), Nat)
  BY NatLessThanWellFounded
<1>3. T \subseteq Nat /\ T # {}
  BY <1>1
<1>4. PICK k \in T : \A u \in T : ~(<<u, k>> \in OpToRel(<, Nat))
  BY <1>2, <1>3, WFMin
<1>5. k \in Nat /\ k # 0 /\ k \notin S
  BY <1>1, <1>4
<1>6. k - 1 \in Nat /\ k - 1 < k /\ (k - 1) + 1 = k
  BY <1>5
<1>7. k - 1 \notin T
  BY <1>4, <1>6, <1>5 DEF OpToRel
<1>8. k - 1 \in S
  BY <1>1, <1>6, <1>7
<1> QED
  BY <1>5, <1>6, <1>8

\* What Reach goes through.
Hops(F, nodes, i, n) ==
  F = [k \in 0..n |-> IF k = 0 THEN {i} ELSE Widened(nodes, F[k - 1])]

LEMMA HopsAre ==
  ASSUME NEW F, NEW nodes, NEW i, NEW n \in Nat, Hops(F, nodes, i, n)
  PROVE  F[0] = {i} /\ \A k \in 0..n : k + 1 \in 0..n => F[k + 1] = Widened(nodes, F[k])
<1>1. F = [k \in 0..n |-> IF k = 0 THEN {i} ELSE Widened(nodes, F[k - 1])]
  BY DEF Hops
<1>2. 0 \in 0..n
  OBVIOUS
<1>3. F[0] = {i}
  BY <1>1, <1>2
<1>4. ASSUME NEW k \in 0..n, k + 1 \in 0..n
      PROVE  F[k + 1] = Widened(nodes, F[k])
  <2>1. k + 1 # 0 /\ (k + 1) - 1 = k
    OBVIOUS
  <2>2. F[k + 1] = Widened(nodes, F[(k + 1) - 1])
    BY <1>1, <1>4, <2>1
  <2> QED
    BY <2>1, <2>2
<1> QED
  BY <1>3, <1>4

LEMMA HopsAgree ==
  ASSUME NEW F, NEW G, NEW nodes, NEW i, NEW n \in Nat, NEW m \in Nat,
         Hops(F, nodes, i, n), Hops(G, nodes, i, m)
  PROVE  \A k \in Nat : k <= n /\ k <= m => F[k] = G[k]
<1> DEFINE S == {k \in Nat : k <= n /\ k <= m => F[k] = G[k]}
<1>1. 0 \in S
  BY HopsAre
<1>2. ASSUME NEW k \in Nat, k \in S
      PROVE  k + 1 \in S
  <2> SUFFICES ASSUME k + 1 <= n, k + 1 <= m PROVE F[k + 1] = G[k + 1]
    OBVIOUS
  <2>1. F[k] = G[k]
    BY <1>2
  <2>2. k \in 0..n /\ k + 1 \in 0..n /\ k \in 0..m /\ k + 1 \in 0..m
    OBVIOUS
  <2>3. F[k + 1] = Widened(nodes, F[k])
    BY <2>2, HopsAre
  <2>4. G[k + 1] = Widened(nodes, G[k])
    BY <2>2, HopsAre
  <2> QED
    BY <2>1, <2>3, <2>4
<1>3. \A k \in Nat : k \in S
  <2> HIDE DEF S
  <2> QED
    BY <1>1, <1>2, EveryNumber
<1> QED
  BY <1>3

LEMMA HopsExist ==
  ASSUME NEW nodes, NEW i
  PROVE  \A n \in Nat : \E F : Hops(F, nodes, i, n)
<1> DEFINE S == {n \in Nat : \E F : Hops(F, nodes, i, n)}
<1>1. 0 \in S
  <2>1. PICK F : F = [k \in 0..0 |-> {i}]
    OBVIOUS
  <2>2. PICK G : G = [k \in 0..0 |-> IF k = 0 THEN {i} ELSE Widened(nodes, F[k - 1])]
    OBVIOUS
  <2>3. F = G
    BY <2>1, <2>2
  <2>4. Hops(F, nodes, i, 0)
    BY <2>2, <2>3 DEF Hops
  <2> QED
    BY <2>4
<1>2. ASSUME NEW n \in Nat, n \in S
      PROVE  n + 1 \in S
  <2>1. PICK F : Hops(F, nodes, i, n)
    BY <1>2
  <2>2. PICK G : G = [k \in 0..(n + 1) |-> IF k <= n THEN F[k] ELSE Widened(nodes, F[n])]
    OBVIOUS
  <2>3. ASSUME NEW k \in 0..(n + 1)
        PROVE  G[k] = IF k = 0 THEN {i} ELSE Widened(nodes, G[k - 1])
    <3>1. CASE k = 0
      <4>1. G[0] = F[0] /\ F[0] = {i}
        BY <2>1, <2>2, HopsAre
      <4> QED
        BY <3>1, <4>1
    <3>2. CASE k # 0
      <4>1. k - 1 \in 0..n /\ k - 1 \in 0..(n + 1) /\ (k - 1) + 1 = k
        BY <3>2
      <4>2. G[k - 1] = F[k - 1]
        BY <2>2, <4>1
      <4>3. G[k] = Widened(nodes, F[k - 1])
        <5>1. CASE k <= n
          <6>1. G[k] = F[k] /\ k \in 0..n
            BY <2>2, <5>1
          <6>2. F[(k - 1) + 1] = Widened(nodes, F[k - 1])
            BY <2>1, <4>1, <6>1, HopsAre
          <6> QED
            BY <4>1, <6>1, <6>2
        <5>2. CASE ~(k <= n)
          <6>1. k - 1 = n
            BY <5>2
          <6> QED
            BY <2>2, <5>2, <6>1
        <5> QED
          BY <5>1, <5>2
      <4> QED
        BY <3>2, <4>2, <4>3
    <3> QED
      BY <3>1, <3>2
  <2>4. PICK H : H = [k \in 0..(n + 1) |-> IF k = 0 THEN {i} ELSE Widened(nodes, G[k - 1])]
    OBVIOUS
  <2>5. \A k \in 0..(n + 1) : G[k] = H[k]
    BY <2>3, <2>4
  <2>6. G = H
    BY <2>2, <2>4, <2>5
  <2>7. Hops(G, nodes, i, n + 1)
    BY <2>4, <2>6 DEF Hops
  <2> QED
    BY <2>7
<1>3. \A n \in Nat : n \in S
  <2> HIDE DEF S
  <2> QED
    BY <1>1, <1>2, EveryNumber
<1> QED
  BY <1>3

\* Reach, one hop at a time.
LEMMA ReachSteps ==
  ASSUME NEW nodes, NEW i
  PROVE  /\ Reach(nodes, i, 0) = {i}
         /\ \A n \in Nat : Reach(nodes, i, n + 1) = Widened(nodes, Reach(nodes, i, n))
<1>1. ASSUME NEW n \in Nat
      PROVE  \E F : Hops(F, nodes, i, n) /\ Reach(nodes, i, n) = F[n]
  <2>1. Reach(nodes, i, n) = (CHOOSE F : Hops(F, nodes, i, n))[n]
    BY DEF Reach, Hops
  <2>2. \E F : Hops(F, nodes, i, n)
    BY HopsExist
  <2>3. PICK F : F = CHOOSE G : Hops(G, nodes, i, n)
    OBVIOUS
  <2> QED
    BY <2>1, <2>2, <2>3
<1>2. Reach(nodes, i, 0) = {i}
  <2>1. PICK F : Hops(F, nodes, i, 0) /\ Reach(nodes, i, 0) = F[0]
    BY <1>1
  <2> QED
    BY <2>1, HopsAre
<1>3. ASSUME NEW n \in Nat
      PROVE  Reach(nodes, i, n + 1) = Widened(nodes, Reach(nodes, i, n))
  <2>1. PICK F : Hops(F, nodes, i, n) /\ Reach(nodes, i, n) = F[n]
    BY <1>1
  <2>2. PICK G : Hops(G, nodes, i, n + 1) /\ Reach(nodes, i, n + 1) = G[n + 1]
    BY <1>1
  <2>3. n \in 0..(n + 1) /\ n + 1 \in 0..(n + 1) /\ n <= n /\ n <= n + 1 /\ n + 1 \in Nat
    OBVIOUS
  <2>4. G[n + 1] = Widened(nodes, G[n])
    BY <2>2, <2>3, HopsAre
  <2>5. F[n] = G[n]
    BY <2>1, <2>2, <2>3, HopsAgree
  <2> QED
    BY <2>1, <2>2, <2>4, <2>5
<1> QED
  BY <1>2, <1>3

-----------------------------------------------------------------------------
(* Applications that hang together.                                        *)

Closed(T, nodes) == \A m \in T, j \in nodes : Adjacent(m, j) => j \in T

Together(nodes, s) == \A T \in SUBSET nodes : s \in T /\ Closed(T, nodes) => T = nodes

LEMMA WidenedIs ==
  ASSUME NEW nodes, NEW T \in SUBSET nodes
  PROVE  /\ Widened(nodes, T) \in SUBSET nodes /\ T \subseteq Widened(nodes, T)
         /\ Closed(T, nodes) <=> Widened(nodes, T) = T
         /\ \A U \in SUBSET nodes : T \subseteq U /\ Closed(U, nodes) => Widened(nodes, T) \subseteq U
BY DEF Widened, Closed

LEMMA ReachStays ==
  ASSUME NEW nodes, NEW i \in nodes
  PROVE  \A n \in Nat :
           /\ Reach(nodes, i, n) \in SUBSET nodes /\ i \in Reach(nodes, i, n)
           /\ Reach(nodes, i, n) \subseteq Reach(nodes, i, n + 1)
           /\ \A U \in SUBSET nodes : i \in U /\ Closed(U, nodes) => Reach(nodes, i, n) \subseteq U
<1> DEFINE S == {n \in Nat :
           /\ Reach(nodes, i, n) \in SUBSET nodes /\ i \in Reach(nodes, i, n)
           /\ \A U \in SUBSET nodes : i \in U /\ Closed(U, nodes) => Reach(nodes, i, n) \subseteq U}
<1>1. 0 \in S
  <2>1. Reach(nodes, i, 0) = {i}
    BY ReachSteps
  <2> QED
    BY <2>1
<1>2. ASSUME NEW n \in Nat, n \in S
      PROVE  n + 1 \in S
  <2>1. PICK T : T = Reach(nodes, i, n)
    OBVIOUS
  <2>2. Reach(nodes, i, n + 1) = Widened(nodes, T)
    <3>1. Reach(nodes, i, n + 1) = Widened(nodes, Reach(nodes, i, n))
      BY ReachSteps
    <3> QED
      BY <2>1, <3>1
  <2>3. T \in SUBSET nodes /\ i \in T
        /\ \A U \in SUBSET nodes : i \in U /\ Closed(U, nodes) => T \subseteq U
    BY <1>2, <2>1
  <2>4. Widened(nodes, T) \in SUBSET nodes /\ i \in Widened(nodes, T)
        /\ \A U \in SUBSET nodes : i \in U /\ Closed(U, nodes) => Widened(nodes, T) \subseteq U
    BY <2>3, WidenedIs
  <2> QED
    BY <2>2, <2>4
<1>3. \A n \in Nat : n \in S
  <2> HIDE DEF S
  <2> QED
    BY <1>1, <1>2, EveryNumber
<1>4. ASSUME NEW n \in Nat PROVE Reach(nodes, i, n) \subseteq Reach(nodes, i, n + 1)
  BY <1>3, ReachSteps, WidenedIs
<1> QED
  BY <1>3, <1>4

LEMMA ReachLater ==
  ASSUME NEW nodes, NEW i \in nodes, NEW n \in Nat
  PROVE  \A d \in Nat : /\ Reach(nodes, i, n) \subseteq Reach(nodes, i, n + d)
                        /\ Closed(Reach(nodes, i, n), nodes) =>
                             Reach(nodes, i, n + d) = Reach(nodes, i, n)
<1> DEFINE S == {d \in Nat : /\ Reach(nodes, i, n) \subseteq Reach(nodes, i, n + d)
                             /\ Closed(Reach(nodes, i, n), nodes) =>
                                  Reach(nodes, i, n + d) = Reach(nodes, i, n)}
<1>1. 0 \in S
  <2>1. n + 0 = n
    OBVIOUS
  <2> QED
    BY <2>1
<1>2. ASSUME NEW d \in Nat, d \in S
      PROVE  d + 1 \in S
  <2>1. n + (d + 1) = (n + d) + 1 /\ n + d \in Nat
    OBVIOUS
  <2>2. Reach(nodes, i, n + (d + 1)) = Widened(nodes, Reach(nodes, i, n + d))
    BY <2>1, ReachSteps
  <2>3. Reach(nodes, i, n + d) \in SUBSET nodes /\ Reach(nodes, i, n) \in SUBSET nodes
    BY <2>1, ReachStays
  <2>4. Reach(nodes, i, n) \subseteq Reach(nodes, i, n + (d + 1))
    BY <1>2, <2>2, <2>3, WidenedIs
  <2>5. Closed(Reach(nodes, i, n), nodes) =>
          Reach(nodes, i, n + (d + 1)) = Reach(nodes, i, n)
    BY <1>2, <2>2, <2>3, WidenedIs
  <2> QED
    BY <2>4, <2>5
<1>3. \A d \in Nat : d \in S
  <2> HIDE DEF S
  <2> QED
    BY <1>1, <1>2, EveryNumber
<1> QED
  BY <1>3

\* Until it is closed, every hop adds an application.
LEMMA ReachGrows ==
  ASSUME NEW nodes, IsFiniteSet(nodes), NEW i \in nodes
  PROVE  \A n \in Nat : \/ Closed(Reach(nodes, i, n), nodes)
                        \/ Cardinality(Reach(nodes, i, n)) >= n + 1
<1> DEFINE S == {n \in Nat : \/ Closed(Reach(nodes, i, n), nodes)
                             \/ Cardinality(Reach(nodes, i, n)) >= n + 1}
<1>1. 0 \in S
  <2>1. Reach(nodes, i, 0) = {i} /\ Cardinality({i}) = 1
    BY ReachSteps, FS_Singleton
  <2> QED
    BY <2>1
<1>2. ASSUME NEW n \in Nat, n \in S
      PROVE  n + 1 \in S
  <2>1. PICK T : T = Reach(nodes, i, n)
    OBVIOUS
  <2>2. PICK U : U = Reach(nodes, i, n + 1)
    OBVIOUS
  <2>3. T \in SUBSET nodes /\ U \in SUBSET nodes /\ T \subseteq U /\ U = Widened(nodes, T)
    <3>1. Reach(nodes, i, n + 1) = Widened(nodes, Reach(nodes, i, n))
      BY ReachSteps
    <3>2. Reach(nodes, i, n) \in SUBSET nodes /\ Reach(nodes, i, n + 1) \in SUBSET nodes
          /\ Reach(nodes, i, n) \subseteq Reach(nodes, i, n + 1)
      BY ReachStays
    <3> QED
      BY <2>1, <2>2, <3>1, <3>2
  <2>4. IsFiniteSet(T) /\ IsFiniteSet(U) /\ Cardinality(T) \in Nat /\ Cardinality(U) \in Nat
    BY <2>3, FS_Subset, FS_CardinalityType
  <2>5. CASE Closed(T, nodes)
    BY <2>2, <2>3, <2>5, WidenedIs
  <2>6. CASE ~Closed(T, nodes)
    <3>1. T # U
      BY <2>3, <2>6, WidenedIs
    <3>2. Cardinality(T) < Cardinality(U)
      BY <2>3, <2>4, <3>1, FS_Subset
    <3>3. Cardinality(T) >= n + 1
      BY <1>2, <2>1, <2>6
    <3> QED
      BY <2>2, <2>4, <3>2, <3>3
  <2> QED
    BY <2>5, <2>6
<1>3. \A n \in Nat : n \in S
  <2> HIDE DEF S
  <2> QED
    BY <1>1, <1>2, EveryNumber
<1> QED
  BY <1>3

\* One hop fewer than there are applications is enough.
LEMMA ReachCloses ==
  ASSUME NEW nodes, IsFiniteSet(nodes), NEW i \in nodes, NEW n \in Nat, n + 1 >= Cardinality(nodes)
  PROVE  Closed(Reach(nodes, i, n), nodes)
<1>1. CASE Cardinality(Reach(nodes, i, n)) >= n + 1
  <2>1. PICK T : T = Reach(nodes, i, n)
    OBVIOUS
  <2>2. T \in SUBSET nodes
    BY <2>1, ReachStays
  <2>3. /\ IsFiniteSet(T) /\ Cardinality(T) \in Nat /\ Cardinality(nodes) \in Nat
        /\ T # nodes => Cardinality(T) < Cardinality(nodes)
    BY <2>2, FS_Subset, FS_CardinalityType
  <2>4. T = nodes
    BY <1>1, <2>1, <2>3
  <2> QED
    BY <2>1, <2>4 DEF Closed
<1> QED
  BY <1>1, ReachGrows

LEMMA ComponentIs ==
  ASSUME NEW nodes, IsFiniteSet(nodes), NEW i \in nodes
  PROVE  /\ Component(nodes, i) \in SUBSET nodes /\ i \in Component(nodes, i)
         /\ Closed(Component(nodes, i), nodes)
         /\ \A U \in SUBSET nodes : i \in U /\ Closed(U, nodes) => Component(nodes, i) \subseteq U
<1>1. PICK n \in Nat : n = Cardinality(nodes)
  BY FS_CardinalityType
<1>2. Component(nodes, i) = Reach(nodes, i, n)
  BY <1>1 DEF Component
<1>3. n + 1 >= Cardinality(nodes)
  BY <1>1
<1>4. Closed(Reach(nodes, i, n), nodes)
  BY <1>3, ReachCloses
<1>5. /\ Reach(nodes, i, n) \in SUBSET nodes /\ i \in Reach(nodes, i, n)
      /\ \A U \in SUBSET nodes : i \in U /\ Closed(U, nodes) => Reach(nodes, i, n) \subseteq U
  BY ReachStays
<1> QED
  BY <1>2, <1>4, <1>5

LEMMA AdjacentBothWays ==
  ASSUME NEW i, NEW j PROVE Adjacent(i, j) <=> Adjacent(j, i)
BY DEF Adjacent, LinkedBy

LEMMA TogetherIs ==
  ASSUME NEW nodes, IsFiniteSet(nodes), NEW s \in nodes
  PROVE  /\ Component(nodes, s) = nodes => Together(nodes, s)
         /\ Together(nodes, s) => \A i \in nodes : Component(nodes, i) = nodes
<1>1. ASSUME Component(nodes, s) = nodes PROVE Together(nodes, s)
  BY <1>1, ComponentIs DEF Together
<1>2. ASSUME Together(nodes, s), NEW i \in nodes PROVE Component(nodes, i) = nodes
  <2>1. PICK T : T = Component(nodes, i)
    OBVIOUS
  <2>2. T \in SUBSET nodes /\ i \in T /\ Closed(T, nodes)
    BY <2>1, ComponentIs
  <2>3. Closed(nodes \ T, nodes)
    BY <2>2, AdjacentBothWays DEF Closed
  <2>4. s \in T
    <3>1. ASSUME s \in nodes \ T PROVE FALSE
      <4>1. nodes \ T = nodes
        BY <1>2, <2>3, <3>1 DEF Together
      <4> QED
        BY <2>2, <4>1
    <3> QED
      BY <3>1
  <2> QED
    BY <1>2, <2>1, <2>2, <2>4 DEF Together
<1> QED
  BY <1>1, <1>2

-----------------------------------------------------------------------------
(* The inductive invariant of the identity domain.                         *)

FilesHangTogether ==
  /\ files \in Seq([seed : Ids, nodes : SUBSET Ids])
  /\ \A k \in 1..Len(files) :
       /\ files[k].seed \in files[k].nodes /\ Cardinality(files[k].nodes) > 1
       /\ Together(files[k].nodes, files[k].seed)

IdentityInv ==
  /\ IdentityTyped /\ Stages /\ OnlyAddressesOffered /\ SharedByAll
  /\ OnlyPooledValuesCross /\ FilesHangTogether

LEMMA IdentityStarts == IdentityInit => IdentityInv
<1> SUFFICES ASSUME IdentityInit PROVE IdentityInv
  OBVIOUS
<1>1. /\ params \in Params /\ phase = "legit" /\ made = [x \in Attrs |-> 0]
      /\ pool = [x \in Attrs |-> {}] /\ apps = <<>> /\ origin = <<>> /\ files = <<>>
  BY DEF IdentityInit
<1>2. Len(apps) = 0 /\ Len(origin) = 0 /\ Len(files) = 0 /\ Ids = {}
  BY <1>1 DEF Ids
<1>3. Planted = {}
  BY <1>2 DEF Planted
<1>4. IdentityTyped
  BY <1>1, <1>2 DEF IdentityTyped
<1>5. Stages
  BY <1>1, <1>3 DEF Stages
<1>6. OnlyAddressesOffered
  BY <1>1 DEF OnlyAddressesOffered
<1>7. SharedByAll /\ OnlyPooledValuesCross
  BY <1>2, <1>3 DEF SharedByAll, OnlyPooledValuesCross
<1>8. FilesHangTogether
  BY <1>1, <1>2 DEF FilesHangTogether
<1> QED
  BY <1>4, <1>5, <1>6, <1>7, <1>8 DEF IdentityInv

\* No file is written before the queue is drawn.
LEMMA NoFiles ==
  ASSUME files' = <<>> PROVE FilesHangTogether'
<1>1. files' \in Seq([seed : Ids', nodes : SUBSET Ids']) /\ Len(files') = 0
  OBVIOUS
<1> QED
  BY <1>1 DEF FilesHangTogether

\* A legitimate origin, and a planted one.
LEMMA LegitNumbers ==
  ASSUME IdentityTyped
  PROVE  \A i \in Ids : ~origin[i].planted => origin[i].n <= Latest(FALSE)
<1>1. \A i \in Ids : origin[i].planted = FALSE => origin[i].n <= Latest(FALSE)
  BY LatestIs, Zenon
<1>2. \A i \in Ids : origin[i].planted \in BOOLEAN
  BY IdsAre DEF Origins
<1>3. \A i \in Ids : ~origin[i].planted => origin[i].planted = FALSE
  BY <1>2
<1> QED
  BY <1>1, <1>3, Zenon

LEMMA LegitStays ==
  ASSUME IdentityInv, NEW kind \in Kinds, _legit_group(kind)
  PROVE  IdentityInv'
<1>1. IdentityTyped /\ Stages /\ OnlyAddressesOffered /\ SharedByAll
  BY DEF IdentityInv
<1>2. PICK n \in Nat \ {0}, shared \in SUBSET Attrs :
        /\ Joined(n, shared)
        /\ pool' = [x \in Attrs |->
                      IF x \in shared \cap Shares(kind).offered
                      THEN pool[x] \cup {made[x] + 1} ELSE pool[x]]
  BY <1>1, LegitJoins
<1>3. PICK L \in Nat : L = Len(apps)
  BY <1>1, IdsAre
<1>4. PICK o : o = [planted |-> FALSE, n |-> Latest(FALSE) + 1]
  OBVIOUS
<1>5. /\ Ids = 1..L /\ Ids' = 1..(L + n)
      /\ \A i \in Ids : apps'[i] = apps[i] /\ origin'[i] = origin[i]
      /\ \A k \in 1..n : origin'[L + k] = o
      /\ \A k \in 1..n : \A x \in Attrs :
           apps'[L + k][x] = made[x] + (IF x \in shared THEN 1 ELSE k)
      /\ made' = [x \in Attrs |-> made[x] + (IF x \in shared THEN 1 ELSE n)]
  BY <1>2, <1>3, <1>4 DEF Joined, Ids
<1>6. /\ \A x \in Attrs : made[x] \in Nat /\ pool[x] \subseteq 1..made[x]
      /\ \A i \in Ids, x \in Attrs : apps[i][x] \in 1..made[x]
      /\ phase = "legit" /\ phase' = phase /\ params' = params /\ files' = files
  BY <1>1 DEF IdentityTyped, _legit_group
<1>7. \A i \in Ids' : i \in Ids \/ \E k \in 1..n : i = L + k
  <2>1. ASSUME NEW i \in Ids', i \notin Ids PROVE i - L \in 1..n /\ i = L + (i - L)
    BY <1>2, <1>3, <1>5, <2>1
  <2> QED
    BY <2>1
<1>8. ~o.planted /\ \A i \in Ids : origin[i] # o
  <2>1. ~o.planted
    BY <1>4
  <2>2. PICK m \in Nat : m = Latest(FALSE)
    BY <1>1, LatestIs, Zenon
  <2>3. o.n = m + 1
    BY <1>4, <2>2
  <2>4. ASSUME NEW i \in Ids, origin[i] = o PROVE FALSE
    <3>1. ~origin[i].planted
      BY <2>1, <2>4
    <3>2. origin[i].n <= m
      BY <1>1, <2>2, <3>1, LegitNumbers, Zenon
    <3>3. m + 1 <= m
      BY <2>3, <2>4, <3>2
    <3> QED
      BY <3>3
  <2> QED
    BY <2>1, <2>4
<1>9. \A i \in Ids, x \in Attrs : apps'[i][x] = apps[i][x]
  BY <1>5
<1>10. IdentityTyped'
  <2>1. made' \in [Attrs -> Nat] /\ \A x \in Attrs : made[x] <= made'[x] /\ made[x] + 1 <= made'[x]
                                                     /\ (x \notin shared => made'[x] = made[x] + n)
    BY <1>2, <1>5, <1>6
  <2>2. ASSUME NEW i \in Ids', NEW x \in Attrs PROVE apps'[i][x] \in 1..made'[x]
    <3>1. made[x] \in Nat /\ made'[x] \in Nat
      BY <1>6, <2>1
    <3>2. CASE i \in Ids
      <4>1. apps'[i][x] \in 1..made[x]
        BY <1>6, <1>9, <3>2
      <4> QED
        BY <2>1, <3>1, <4>1
    <3>3. ASSUME NEW k \in 1..n, i = L + k PROVE apps'[i][x] \in 1..made'[x]
      <4>1. apps'[i][x] = made[x] + (IF x \in shared THEN 1 ELSE k)
        BY <1>5, <3>3
      <4> QED
        BY <1>2, <2>1, <3>1, <4>1
    <3> QED
      BY <1>7, <3>2, <3>3
  <2>3. ASSUME NEW x \in Attrs PROVE pool'[x] \subseteq 1..made'[x]
    <3>1. made[x] \in Nat /\ made'[x] \in Nat /\ made[x] + 1 <= made'[x] /\ pool[x] \subseteq 1..made[x]
      BY <1>6, <2>1
    <3>2. pool'[x] = pool[x] \/ pool'[x] = pool[x] \cup {made[x] + 1}
      BY <1>2
    <3> QED
      BY <3>1, <3>2
  <2>4. pool' \in [Attrs -> SUBSET Nat]
    <3>1. DOMAIN pool' = Attrs /\ pool' = [x \in Attrs |-> pool'[x]]
      BY <1>2
    <3>2. \A x \in Attrs : pool'[x] \in SUBSET Nat
      BY <2>1, <2>3
    <3> QED
      BY <3>1, <3>2
  <2>5. apps' \in Seq([Attrs -> Nat]) /\ origin' \in Seq(Origins) /\ Len(origin') = Len(apps')
    BY <1>2 DEF Joined
  <2>6. params' \in Params /\ phase' \in {"legit", "fraud", "done"}
    BY <1>1, <1>6 DEF IdentityTyped
  <2> QED
    BY <2>1, <2>2, <2>3, <2>4, <2>5, <2>6 DEF IdentityTyped
<1>11. Planted' = {}
  <2>1. ASSUME NEW i \in Ids' PROVE ~origin'[i].planted
    <3>1. CASE i \in Ids
      <4>1. ~origin[i].planted
        BY <1>1, <1>6, <3>1 DEF Stages, Planted
      <4> QED
        BY <1>5, <3>1, <4>1
    <3>2. ASSUME NEW k \in 1..n, i = L + k PROVE ~origin'[i].planted
      BY <1>5, <1>8, <3>2
    <3> QED
      BY <1>7, <3>1, <3>2
  <2> QED
    BY <2>1 DEF Planted
<1>12. Stages'
  BY <1>1, <1>6, <1>11 DEF Stages
<1>13. OnlyAddressesOffered'
  <2>1. Shares(kind).offered \subseteq {"address", "ip"}
    BY DEF Shares, Kinds
  <2> QED
    BY <1>1, <1>2, <2>1 DEF OnlyAddressesOffered
<1>14. SharedByAll'
  <2> SUFFICES ASSUME NEW i \in Ids', NEW j \in Ids', NEW x \in Attrs, i # j,
                      origin'[i] = origin'[j], ~origin'[i].planted,
                      apps'[i][x] = apps'[j][x], NEW m \in Ids', origin'[m] = origin'[i]
               PROVE  apps'[m][x] = apps'[i][x]
    BY DEF SharedByAll
  <2>1. CASE i \in Ids
    <3>1. origin'[i] = origin[i] /\ origin[i] # o
      BY <1>5, <1>8, <2>1
    <3>2. j \in Ids /\ m \in Ids
      BY <1>5, <1>7, <3>1
    <3>3. origin[j] = origin[i] /\ origin[m] = origin[i] /\ ~origin[i].planted
      BY <1>5, <3>1, <3>2
    <3>4. apps[i][x] = apps[j][x]
      BY <1>9, <2>1, <3>2
    <3>5. apps[m][x] = apps[i][x]
      BY <1>1, <2>1, <3>2, <3>3, <3>4 DEF SharedByAll
    <3> QED
      BY <1>9, <2>1, <3>2, <3>5
  <2>2. CASE i \notin Ids
    <3>1. PICK k \in 1..n : i = L + k
      BY <1>7, <2>2
    <3>2. origin'[i] = o
      BY <1>5, <3>1
    <3>3. j \notin Ids /\ m \notin Ids
      BY <1>5, <1>8, <3>2
    <3>4. PICK l \in 1..n : j = L + l
      BY <1>7, <3>3
    <3>5. PICK h \in 1..n : m = L + h
      BY <1>7, <3>3
    <3>6. made[x] \in Nat /\ k # l
      BY <1>6, <3>1, <3>4
    <3>7. /\ apps'[i][x] = made[x] + (IF x \in shared THEN 1 ELSE k)
          /\ apps'[j][x] = made[x] + (IF x \in shared THEN 1 ELSE l)
          /\ apps'[m][x] = made[x] + (IF x \in shared THEN 1 ELSE h)
      BY <1>5, <3>1, <3>4, <3>5
    <3>8. x \in shared
      <4>1. PICK a \in Nat : a = made[x]
        BY <3>6
      <4>2. ASSUME x \notin shared PROVE a + k = a + l
        BY <3>7, <4>1, <4>2
      <4>3. a + k = a + l => k = l
        OBVIOUS
      <4> QED
        BY <3>6, <4>2, <4>3
    <3> QED
      BY <3>7, <3>8
  <2> QED
    BY <2>1, <2>2
<1>15. OnlyPooledValuesCross'
  BY <1>11 DEF OnlyPooledValuesCross
<1>16. FilesHangTogether'
  BY <1>1, <1>6, NoFiles DEF Stages
<1> QED
  BY <1>10, <1>12, <1>13, <1>14, <1>15, <1>16 DEF IdentityInv

LEMMA ChainStays ==
  ASSUME IdentityInv, NEW new, NEW o, Chained(new, o), phase = "fraud",
         UNCHANGED <<params, phase, pool, files>>
  PROVE  IdentityInv'
<1>1. IdentityTyped /\ Stages /\ OnlyAddressesOffered /\ SharedByAll /\ OnlyPooledValuesCross
  BY DEF IdentityInv
<1>2. PICK L \in Nat : L = Len(apps)
  BY <1>1, IdsAre
<1>3. /\ new \in [Attrs -> Nat] /\ o \in Origins /\ o.planted
      /\ apps' = Append(apps, new) /\ origin' = Append(origin, o)
      /\ made' \in [Attrs -> Nat] /\ \A x \in Attrs : made[x] <= made'[x]
      /\ \A x \in Attrs : new[x] \in 1..made'[x]
  BY DEF Chained
<1>4. \A x \in Attrs : \/ new[x] > made[x]
                       \/ new[x] \in pool[x]
                       \/ L \in Ids /\ origin[L] = o /\ new[x] = apps[L][x]
  BY <1>2 DEF Chained
<1>5. /\ apps \in Seq([Attrs -> Nat]) /\ origin \in Seq(Origins) /\ Len(origin) = L
      /\ Ids = 1..L
      /\ \A x \in Attrs : made[x] \in Nat /\ pool[x] \subseteq 1..made[x]
      /\ \A i \in Ids, x \in Attrs : apps[i][x] \in 1..made[x]
  BY <1>1, <1>2, IdsAre DEF IdentityTyped
<1>6. /\ apps' \in Seq([Attrs -> Nat]) /\ Len(apps') = L + 1
      /\ \A i \in 1..L : apps'[i] = apps[i]
      /\ apps'[L + 1] = new
  BY <1>2, <1>3, <1>5, AppendProperties
<1>7. /\ origin' \in Seq(Origins) /\ Len(origin') = L + 1
      /\ \A i \in 1..L : origin'[i] = origin[i]
      /\ origin'[L + 1] = o
  BY <1>3, <1>5, AppendProperties
<1>8. Ids' = 1..(L + 1) /\ \A i \in Ids' : i \in Ids \/ i = L + 1
  BY <1>5, <1>6 DEF Ids
<1>9. \A i \in Ids : apps'[i] = apps[i] /\ origin'[i] = origin[i]
  BY <1>5, <1>6, <1>7
<1>10. IdentityTyped'
  <2>1. ASSUME NEW i \in Ids', NEW x \in Attrs PROVE apps'[i][x] \in 1..made'[x]
    <3>1. CASE i \in Ids
      <4>1. apps'[i][x] \in 1..made[x] /\ made[x] <= made'[x] /\ made'[x] \in Nat /\ made[x] \in Nat
        BY <1>3, <1>5, <1>9, <3>1
      <4> QED
        BY <4>1
    <3>2. CASE i = L + 1
      BY <1>3, <1>6, <3>2
    <3> QED
      BY <1>8, <3>1, <3>2
  <2>2. ASSUME NEW x \in Attrs PROVE pool'[x] \subseteq 1..made'[x]
    <3>1. made[x] <= made'[x] /\ made'[x] \in Nat /\ made[x] \in Nat /\ pool'[x] \subseteq 1..made[x]
      BY <1>3, <1>5
    <3> QED
      BY <3>1
  <2> QED
    BY <1>1, <1>3, <1>6, <1>7, <2>1, <2>2 DEF IdentityTyped
<1>11. Stages'
  <2>1. files' = <<>> /\ phase' = "fraud"
    BY <1>1 DEF Stages
  <2>2. origin'[Len(apps')] = o
    BY <1>6, <1>7
  <2>3. (origin[Len(apps)].planted)'
    BY <1>3, <2>2
  <2> QED
    BY <2>1, <2>3 DEF Stages
<1>12. OnlyAddressesOffered'
  BY <1>1 DEF OnlyAddressesOffered
<1>13. \A i \in Ids' : ~origin'[i].planted => i \in Ids /\ ~origin[i].planted
  <2>1. ASSUME NEW i \in Ids', ~origin'[i].planted PROVE i \in Ids
    <3>1. i # L + 1
      BY <1>3, <1>7, <2>1
    <3> QED
      BY <1>8, <3>1
  <2> QED
    BY <1>9, <2>1
<1>14. SharedByAll'
  <2> SUFFICES ASSUME NEW i \in Ids', NEW j \in Ids', NEW x \in Attrs, i # j,
                      origin'[i] = origin'[j], ~origin'[i].planted,
                      apps'[i][x] = apps'[j][x], NEW m \in Ids', origin'[m] = origin'[i]
               PROVE  apps'[m][x] = apps'[i][x]
    BY DEF SharedByAll
  <2>1. ~origin'[j].planted /\ ~origin'[m].planted
    OBVIOUS
  <2>2. i \in Ids /\ j \in Ids /\ m \in Ids /\ ~origin[i].planted
    BY <1>13, <2>1
  <2>3. origin[i] = origin[j] /\ apps[i][x] = apps[j][x] /\ origin[m] = origin[i]
    BY <1>9, <2>2
  <2>4. apps[m][x] = apps[i][x]
    BY <1>1, <2>2, <2>3 DEF SharedByAll
  <2> QED
    BY <1>9, <2>2, <2>4
<1>15. ASSUME NEW i \in Ids, NEW j \in Ids, NEW x \in Attrs, origin[i].planted,
              origin[j] # origin[i], apps[i][x] = apps[j][x]
       PROVE  x \in {"address", "ip"} /\ apps[i][x] \in pool[x]
  <2>1. i \in Planted
    BY <1>15 DEF Planted
  <2>2. x \in LinkedBy(i, j)
    BY <1>15 DEF LinkedBy
  <2> QED
    BY <1>1, <1>15, <2>1, <2>2 DEF OnlyPooledValuesCross
<1>16. ASSUME NEW j \in Ids, NEW x \in Attrs, origin[j] # o, apps[j][x] = new[x]
       PROVE  x \in {"address", "ip"} /\ new[x] \in pool[x]
  <2>1. CASE new[x] > made[x]
    BY <1>3, <1>5, <1>16, <2>1
  <2>2. CASE new[x] \in pool[x]
    BY <1>1, <2>2 DEF OnlyAddressesOffered
  <2>3. CASE L \in Ids /\ origin[L] = o /\ new[x] = apps[L][x]
    <3>1. origin[L].planted
      BY <1>3, <2>3
    <3> QED
      BY <1>15, <1>16, <2>3, <3>1
  <2> QED
    BY <1>4, <2>1, <2>2, <2>3
<1>17. ASSUME NEW i \in Ids', NEW j \in Ids', NEW x \in Attrs, origin'[i].planted,
              origin'[j] # origin'[i], apps'[i][x] = apps'[j][x]
       PROVE  x \in {"address", "ip"} /\ apps'[i][x] \in pool'[x]
  <2>1. CASE i \in Ids /\ j \in Ids
    <3>1. origin[i].planted /\ origin[j] # origin[i] /\ apps[i][x] = apps[j][x]
      BY <1>9, <1>17, <2>1
    <3> QED
      BY <1>9, <1>15, <2>1, <3>1
  <2>2. CASE i = L + 1 /\ j \in Ids
    <3>1. origin[j] # o /\ apps[j][x] = new[x]
      BY <1>6, <1>7, <1>9, <1>17, <2>2
    <3> QED
      BY <1>6, <1>16, <2>2, <3>1
  <2>3. CASE i \in Ids /\ j = L + 1
    <3>1. origin[i] # o /\ apps[i][x] = new[x]
      BY <1>6, <1>7, <1>9, <1>17, <2>3
    <3> QED
      BY <1>9, <1>16, <2>3, <3>1
  <2> QED
    BY <1>8, <1>17, <2>1, <2>2, <2>3
<1>18. OnlyPooledValuesCross'
  BY <1>17 DEF OnlyPooledValuesCross, LinkedBy, Planted
<1>19. FilesHangTogether'
  BY <1>1, NoFiles DEF Stages
<1> QED
  BY <1>10, <1>11, <1>12, <1>14, <1>18, <1>19 DEF IdentityInv

LEMMA ShuffleStays ==
  ASSUME IdentityInv, NEW p, Shuffle(p)
  PROVE  IdentityInv'
<1>1. IdentityTyped /\ Stages /\ OnlyAddressesOffered /\ SharedByAll /\ OnlyPooledValuesCross
  BY DEF IdentityInv
<1>2. PICK L \in Nat : L = Len(apps)
  BY <1>1, IdsAre
<1>3. /\ phase = "fraud" /\ phase' = "done" /\ p \in [Ids -> Ids]
      /\ \A i, j \in Ids : p[i] = p[j] => i = j
      /\ apps' = [i \in Ids |-> apps[p[i]]] /\ origin' = [i \in Ids |-> origin[p[i]]]
      /\ UNCHANGED <<params, made, pool, files>>
  BY DEF Shuffle, IsInjective
<1>4. Ids = 1..L /\ \A i \in Ids : apps[i] \in [Attrs -> Nat] /\ origin[i] \in Origins
  BY <1>1, <1>2, IdsAre
<1>5. apps' \in Seq([Attrs -> Nat]) /\ Len(apps') = L
  <2>1. apps' \in [1..L -> [Attrs -> Nat]]
    BY <1>3, <1>4
  <2> QED
    BY <2>1, IsASeq, LenProperties
<1>6. origin' \in Seq(Origins) /\ Len(origin') = L
  <2>1. origin' \in [1..L -> Origins]
    BY <1>3, <1>4
  <2> QED
    BY <2>1, IsASeq, LenProperties
<1>7. Ids' = Ids
  BY <1>4, <1>5 DEF Ids
<1>8. \A i \in Ids : p[i] \in Ids /\ apps'[i] = apps[p[i]] /\ origin'[i] = origin[p[i]]
  BY <1>3
<1>9. IdentityTyped'
  <2>1. \A i \in Ids', x \in Attrs : apps'[i][x] \in 1..made'[x]
    BY <1>1, <1>3, <1>7, <1>8 DEF IdentityTyped
  <2> QED
    BY <1>1, <1>3, <1>5, <1>6, <2>1 DEF IdentityTyped
<1>10. Stages'
  BY <1>3 DEF Stages
<1>11. OnlyAddressesOffered'
  BY <1>1, <1>3 DEF OnlyAddressesOffered
<1>12. SharedByAll'
  <2> SUFFICES ASSUME NEW i \in Ids, NEW j \in Ids, NEW x \in Attrs, i # j,
                      origin'[i] = origin'[j], ~origin'[i].planted,
                      apps'[i][x] = apps'[j][x], NEW m \in Ids, origin'[m] = origin'[i]
               PROVE  apps'[m][x] = apps'[i][x]
    BY <1>7 DEF SharedByAll
  <2>1. p[i] # p[j] /\ origin[p[i]] = origin[p[j]] /\ ~origin[p[i]].planted
    BY <1>3, <1>8
  <2>2. apps[p[i]][x] = apps[p[j]][x] /\ origin[p[m]] = origin[p[i]]
    BY <1>8
  <2>3. p[i] \in Ids /\ p[j] \in Ids /\ p[m] \in Ids
    BY <1>8
  <2>4. apps[p[m]][x] = apps[p[i]][x]
    BY <1>1, <2>1, <2>2, <2>3 DEF SharedByAll
  <2> QED
    BY <1>8, <2>4
<1>13. OnlyPooledValuesCross'
  <2> SUFFICES ASSUME NEW i \in Ids, NEW j \in Ids, NEW x \in Attrs, origin'[i].planted,
                      origin'[j] # origin'[i], apps'[i][x] = apps'[j][x]
               PROVE  x \in {"address", "ip"} /\ apps'[i][x] \in pool'[x]
    BY <1>7 DEF OnlyPooledValuesCross, LinkedBy, Planted
  <2>1. origin[p[i]].planted /\ origin[p[j]] # origin[p[i]] /\ apps[p[i]][x] = apps[p[j]][x]
    BY <1>8
  <2>2. p[i] \in Planted /\ p[j] \in Ids
    BY <1>8, <2>1 DEF Planted
  <2>3. x \in LinkedBy(p[i], p[j])
    BY <2>1 DEF LinkedBy
  <2>4. x \in {"address", "ip"} /\ apps[p[i]][x] \in pool[x]
    BY <1>1, <2>1, <2>2, <2>3 DEF OnlyPooledValuesCross
  <2> QED
    BY <1>3, <1>8, <2>4
<1>14. FilesHangTogether'
  BY <1>1, <1>3, NoFiles DEF Stages
<1> QED
  BY <1>9, <1>10, <1>11, <1>12, <1>13, <1>14 DEF IdentityInv

\* What is true of the applications stays true while nothing is generated.
LEMMA PopulationStays ==
  ASSUME IdentityInv, UNCHANGED <<params, made, pool, apps, origin>>
  PROVE  /\ OnlyAddressesOffered' /\ SharedByAll' /\ OnlyPooledValuesCross'
         /\ phase' \in {"legit", "fraud", "done"} => IdentityTyped'
         /\ Ids' = Ids /\ Planted' = Planted
<1>1. IdentityTyped /\ OnlyAddressesOffered /\ SharedByAll /\ OnlyPooledValuesCross
  BY DEF IdentityInv
<1>2. Ids' = Ids /\ Planted' = Planted
  BY DEF Ids, Planted
<1>3. OnlyAddressesOffered' /\ SharedByAll'
  BY <1>1, <1>2 DEF OnlyAddressesOffered, SharedByAll
<1>4. OnlyPooledValuesCross'
  BY <1>1, <1>2 DEF OnlyPooledValuesCross, LinkedBy
<1>5. phase' \in {"legit", "fraud", "done"} => IdentityTyped'
  BY <1>1, <1>2 DEF IdentityTyped
<1> QED
  BY <1>2, <1>3, <1>4, <1>5

LEMMA EnoughStays ==
  ASSUME IdentityInv, EnoughLegit
  PROVE  IdentityInv'
<1>1. /\ phase = "legit" /\ phase' = "fraud" /\ UNCHANGED <<params, made, pool, apps, origin, files>>
  BY DEF EnoughLegit
<1>2. Stages
  BY DEF IdentityInv
<1>3. Planted' = {} /\ files' = <<>>
  BY <1>1, <1>2, PopulationStays DEF Stages
<1>4. Stages'
  BY <1>1, <1>3 DEF Stages
<1>5. FilesHangTogether'
  BY <1>3, NoFiles
<1> QED
  BY <1>1, <1>4, <1>5, PopulationStays DEF IdentityInv

LEMMA ReviewStays ==
  ASSUME IdentityInv, NEW seed, NEW nodes \in SUBSET Ids, Review(seed, nodes)
  PROVE  IdentityInv'
<1>1. IdentityTyped /\ Stages /\ FilesHangTogether
  BY DEF IdentityInv
<1>2. /\ phase = "done" /\ seed \in nodes /\ Cardinality(nodes) > 1
      /\ nodes = Component(nodes, seed)
      /\ files' = Append(files, [seed |-> seed, nodes |-> nodes])
      /\ UNCHANGED <<params, phase, made, pool, apps, origin>>
  BY DEF Review
<1>3. IsFiniteSet(nodes)
  BY <1>1, IdsAre
<1>4. Together(nodes, seed)
  BY <1>2, <1>3, TogetherIs
<1>5. Ids' = Ids
  BY <1>2, PopulationStays
<1>6. PICK f : f = [seed |-> seed, nodes |-> nodes]
  OBVIOUS
<1>7. f \in [seed : Ids, nodes : SUBSET Ids] /\ f.seed = seed /\ f.nodes = nodes
  BY <1>2, <1>6
<1>8. PICK F : F = [seed : Ids, nodes : SUBSET Ids]
  OBVIOUS
<1>9. files \in Seq(F) /\ f \in F /\ files' = Append(files, f)
  BY <1>1, <1>2, <1>6, <1>7, <1>8 DEF FilesHangTogether
<1>10. /\ files' \in Seq(F) /\ Len(files') = Len(files) + 1 /\ Len(files) \in Nat
       /\ \A i \in 1..Len(files) : files'[i] = files[i]
       /\ files'[Len(files) + 1] = f
  BY <1>9, AppendProperties, LenProperties
<1>11. ASSUME NEW k \in 1..Len(files')
       PROVE  /\ files'[k].seed \in files'[k].nodes /\ Cardinality(files'[k].nodes) > 1
              /\ Together(files'[k].nodes, files'[k].seed)
  <2>1. CASE k \in 1..Len(files)
    <3>1. files'[k] = files[k]
      BY <1>10, <2>1
    <3> QED
      BY <1>1, <2>1, <3>1 DEF FilesHangTogether
  <2>2. CASE k = Len(files) + 1
    BY <1>2, <1>4, <1>7, <1>10, <2>2
  <2> QED
    BY <1>10, <2>1, <2>2
<1>12. FilesHangTogether'
  <2>1. files' \in Seq([seed : Ids', nodes : SUBSET Ids'])
    BY <1>5, <1>8, <1>10
  <2>2. \A k \in 1..Len(files') : Together(files'[k].nodes, files'[k].seed)
          => Together(files[k].nodes, files[k].seed)'
    BY <1>2 DEF Together, Closed, Adjacent, LinkedBy
  <2> QED
    BY <1>11, <2>1, <2>2 DEF FilesHangTogether
<1>13. Stages'
  BY <1>2 DEF Stages
<1> QED
  BY <1>2, <1>12, <1>13, PopulationStays DEF IdentityInv

LEMMA IdentityMoves ==
  ASSUME IdentityInv, [IdentityNext]_identityVars PROVE IdentityInv'
<1>1. CASE UNCHANGED identityVars
  <2>1. UNCHANGED <<params, phase, made, pool, apps, origin, files>>
    BY <1>1 DEF identityVars
  <2>2. Stages'
    BY <2>1, PopulationStays DEF IdentityInv, Stages
  <2>3. phase' \in {"legit", "fraud", "done"}
    BY <2>1 DEF IdentityInv, IdentityTyped
  <2>4. FilesHangTogether'
    <3>1. FilesHangTogether /\ Ids' = Ids
      BY <2>1, PopulationStays DEF IdentityInv
    <3> QED
      BY <2>1, <3>1 DEF FilesHangTogether, Together, Closed, Adjacent, LinkedBy
  <2> QED
    BY <2>1, <2>2, <2>3, <2>4, PopulationStays DEF IdentityInv
<1>2. ASSUME StartChain PROVE IdentityInv'
  <2>1. PICK new, o : Chained(new, o)
    BY <1>2, StartChains DEF IdentityInv
  <2> QED
    BY <1>2, <2>1, ChainStays DEF StartChain
<1>3. ASSUME _rotation_chain PROVE IdentityInv'
  <2>1. PICK new, o : Chained(new, o)
    BY <1>3, HopChains DEF IdentityInv
  <2> QED
    BY <1>3, <2>1, ChainStays DEF _rotation_chain
<1>4. ASSUME NEW seed, NEW nodes \in SUBSET Ids, Review(seed, nodes) PROVE IdentityInv'
  BY <1>4, ReviewStays
<1>5. ASSUME NEW p, Shuffle(p) PROVE IdentityInv'
  BY <1>5, ShuffleStays
<1>6. ASSUME NEW kind \in Kinds, _legit_group(kind) PROVE IdentityInv'
  BY <1>6, LegitStays
<1> QED
  BY <1>1, <1>2, <1>3, <1>4, <1>5, <1>6, EnoughStays DEF IdentityNext

-----------------------------------------------------------------------------
(* Narratives and the brief.                                               *)

\* A sentence that passes: it asserts nothing, or cites what there is.
Sourced(s, ids) == s = Prose \/ \E cites \in SUBSET ids : cites # {} /\ s = Fact(cites)

LEMMA SourcedText ==
  ASSUME NEW text, NEW ids, \A line \in text : \A s \in line : Sourced(s, ids)
  PROVE  Verified(text, ids)
<1>1. \A s \in SentencesOf(text) : Sourced(s, ids)
  BY DEF SentencesOf
<1>2. ASSUME NEW s, Sourced(s, ids)
      PROVE  ~(s.fact /\ s.cites = {}) /\ s.cites \subseteq ids
  <2>1. CASE s = Prose
    BY <2>1 DEF Prose
  <2>2. ASSUME NEW cites \in SUBSET ids, cites # {}, s = Fact(cites)
        PROVE  s.cites # {} /\ s.cites \subseteq ids
    BY <2>2 DEF Fact
  <2> QED
    BY <1>2, <2>1, <2>2 DEF Sourced
<1>3. Uncited(text) = {}
  BY <1>1, <1>2 DEF Uncited
<1>4. CitedBy(text) \subseteq ids
  BY <1>1, <1>2 DEF CitedBy
<1> QED
  BY <1>3, <1>4 DEF Verified, Unverifiable

LEMMA FileIs ==
  ASSUME IdentityInv, NEW k \in DOMAIN files
  PROVE  /\ files[k].seed \in files[k].nodes /\ files[k].nodes \in SUBSET Ids
         /\ files[k].nodes # {} /\ IsFiniteSet(files[k].nodes)
         /\ Cardinality(files[k].nodes) \in Nat /\ Cardinality(files[k].nodes) > 1
         /\ Together(files[k].nodes, files[k].seed)
<1>1. IdentityTyped /\ FilesHangTogether
  BY DEF IdentityInv
<1>2. DOMAIN files = 1..Len(files)
  BY <1>1 DEF FilesHangTogether
<1>3. files[k] \in [seed : Ids, nodes : SUBSET Ids]
  <2>1. PICK F : F = [seed : Ids, nodes : SUBSET Ids]
    OBVIOUS
  <2>2. files \in Seq(F)
    BY <1>1, <2>1 DEF FilesHangTogether
  <2>3. files[k] \in F
    BY <2>2
  <2> QED
    BY <2>1, <2>3
<1>4. files[k].nodes \in SUBSET Ids
  BY <1>3
<1> QED
  BY <1>1, <1>2, <1>4, IdsAre DEF FilesHangTogether

LEMMA NarrativeIsSourced ==
  ASSUME IdentityInv, NEW k \in DOMAIN files
  PROVE  Verified(case_narrative(k), valid_citation_ids(k))
<1>1. PICK nodes : nodes = files[k].nodes
  OBVIOUS
<1>2. PICK ids : ids = valid_citation_ids(k)
  OBVIOUS
<1>3. nodes \in SUBSET Ids /\ IsFiniteSet(nodes) /\ nodes # {} /\ \A i \in nodes : i \in Nat
  <2>1. IdentityTyped
    BY DEF IdentityInv
  <2>2. nodes \in SUBSET Ids /\ IsFiniteSet(nodes) /\ nodes # {}
    BY <1>1, FileIs
  <2> QED
    BY <2>1, <2>2, IdsAre
<1>4. Min(nodes) \in nodes /\ Max(nodes) \in nodes
  BY <1>3, Extremes
<1>5. /\ CaseRef(k) \in ids /\ application_id(files[k].seed) \in ids
      /\ \A i \in nodes : application_id(i) \in ids
      /\ \A l \in Links(nodes) : LinkRef(k, l) \in ids
  BY <1>1, <1>2 DEF valid_citation_ids
<1>6. ASSUME NEW c \in ids PROVE Sourced(Fact({c}), ids)
  <2>1. {c} \in SUBSET ids /\ {c} # {}
    OBVIOUS
  <2> QED
    BY <2>1 DEF Sourced
<1>7. Sourced(Prose, ids)
  BY DEF Sourced
<1>8. Sourced(Fact({CaseRef(k), application_id(Min(nodes)), application_id(Max(nodes))}), ids)
  <2>1. PICK Q : Q = {CaseRef(k), application_id(Min(nodes)), application_id(Max(nodes))}
    OBVIOUS
  <2>2. Q \in SUBSET ids /\ Q # {}
    BY <1>4, <1>5, <2>1
  <2>3. Sourced(Fact(Q), ids)
    BY <2>2 DEF Sourced
  <2> QED
    BY <2>1, <2>3
<1>9. PICK about : about = Fact({CaseRef(k)})
  OBVIOUS
<1>10. case_narrative(k) =
         {{about, Fact({application_id(files[k].seed)})}
            \cup {Fact({application_id(i)}) : i \in nodes},
          {about} \cup {Fact({LinkRef(k, l)}) : l \in Links(nodes)},
          {Fact({CaseRef(k), application_id(Min(nodes)), application_id(Max(nodes))})},
          {about, Prose},
          {about}}
  BY <1>1, <1>9 DEF case_narrative
<1>11. Sourced(about, ids) /\ Sourced(Fact({application_id(files[k].seed)}), ids)
  BY <1>5, <1>6, <1>9
<1>12. \A s \in {Fact({application_id(i)}) : i \in nodes} : Sourced(s, ids)
  <2>1. \A i \in nodes : Sourced(Fact({application_id(i)}), ids)
    BY <1>5, <1>6
  <2> QED
    BY <2>1
<1>13. \A s \in {Fact({LinkRef(k, l)}) : l \in Links(nodes)} : Sourced(s, ids)
  <2>1. \A l \in Links(nodes) : Sourced(Fact({LinkRef(k, l)}), ids)
    BY <1>5, <1>6
  <2> QED
    BY <2>1
<1>14. \A line \in case_narrative(k) : \A s \in line : Sourced(s, ids)
  BY <1>7, <1>8, <1>10, <1>11, <1>12, <1>13
<1> QED
  BY <1>2, <1>14, SourcedText

\* Some of any cases are named.
LEMMA RefsAreSome ==
  ASSUME IdentityInv, NEW cases \in SUBSET DOMAIN files, cases # {}
  PROVE  Refs(cases) # {} /\ Refs(cases) \subseteq {CaseRef(k) : k \in cases}
<1>1. DOMAIN files = 1..Len(files) /\ Len(files) \in Nat
  BY DEF IdentityInv, FilesHangTogether
<1>2. IsFiniteSet(cases)
  <2>1. 1 \in Int /\ Len(files) \in Int
    BY <1>1
  <2>2. IsFiniteSet(1..Len(files))
    BY <2>1, FS_Interval
  <2> QED
    BY <1>1, <2>2, FS_Subset
<1>3. cases \subseteq Int
  BY <1>1
<1>4. PICK k \in cases : k \in Nat /\ \A j \in cases : k <= j
  <2>1. Min(cases) \in cases /\ \A j \in cases : Min(cases) <= j
    BY <1>2, <1>3, Extremes
  <2> QED
    BY <1>1, <2>1
<1>5. cases \cap 1..k = {k}
  BY <1>1, <1>4
<1>6. Cardinality(cases \cap 1..k) = 1
  BY <1>5, FS_Singleton
<1>7. Cardinality(cases \cap 1..k) <= BriefRefs
  BY <1>6, IdentityAssumption
<1>8. CaseRef(k) \in Refs(cases)
  BY <1>7 DEF Refs
<1> QED
  BY <1>8 DEF Refs

LEMMA LargestIsFile ==
  ASSUME IdentityInv, files # <<>>
  PROVE  LargestFile \in DOMAIN files
<1>1. DOMAIN files = 1..Len(files) /\ Len(files) \in Nat /\ DOMAIN files # {}
  BY DEF IdentityInv, FilesHangTogether
<1>2. PICK f : f = [k \in DOMAIN files |-> Cardinality(files[k].nodes)]
  OBVIOUS
<1>3. \A k \in DOMAIN files : f[k] \in Nat
  BY <1>2, FileIs
<1>4. PICK S : S = {f[k] : k \in DOMAIN files}
  OBVIOUS
<1>5. f \in Surjection(DOMAIN files, S)
  BY <1>2, <1>4 DEF Surjection
<1>6. IsFiniteSet(DOMAIN files)
  <2>1. 1 \in Int /\ Len(files) \in Int
    BY <1>1
  <2> QED
    BY <1>1, <2>1, FS_Interval
<1>7. IsFiniteSet(S) /\ S \subseteq Int /\ S # {}
  BY <1>1, <1>3, <1>4, <1>5, <1>6, FS_Surjection
<1>8. Max(S) \in S /\ \A y \in S : Max(S) >= y
  BY <1>7, Extremes
<1>9. PICK k \in DOMAIN files : f[k] = Max(S)
  BY <1>4, <1>8
<1>10. \A j \in DOMAIN files : f[j] <= f[k]
  <2>1. \A j \in DOMAIN files : f[j] \in S
    BY <1>4
  <2> QED
    BY <1>3, <1>8, <1>9, <2>1
<1>11. \A j \in DOMAIN files : Cardinality(files[j].nodes) <= Cardinality(files[k].nodes)
  BY <1>2, <1>10
<1> QED
  BY <1>11 DEF LargestFile

LEMMA BriefIsSourced ==
  ASSUME IdentityInv
  PROVE  Verified(merchant_brief, UNION {valid_citation_ids(k) : k \in DOMAIN files})
<1>1. PICK ids : ids = UNION {valid_citation_ids(k) : k \in DOMAIN files}
  OBVIOUS
<1>2. \A k \in DOMAIN files : CaseRef(k) \in ids
  BY <1>1 DEF valid_citation_ids
<1>3. ASSUME NEW cases \in SUBSET DOMAIN files, cases # {} PROVE Sourced(Fact(Refs(cases)), ids)
  <2>1. Refs(cases) \in SUBSET ids /\ Refs(cases) # {}
    BY <1>2, <1>3, RefsAreSome
  <2> QED
    BY <2>1 DEF Sourced
<1>4. Sourced(Prose, ids)
  BY DEF Sourced
<1>5. CASE files = <<>>
  <2>1. merchant_brief = {{Prose}}
    BY <1>5 DEF merchant_brief
  <2>2. \A line \in merchant_brief : \A s \in line : Sourced(s, ids)
    BY <1>4, <2>1
  <2> QED
    BY <1>1, <2>2, SourcedText
<1>6. CASE files # <<>>
  <2>1. PICK action : action = [k \in DOMAIN files |-> recommend(files[k].nodes)]
    OBVIOUS
  <2>2. PICK all : all = Fact(Refs(DOMAIN files))
    OBVIOUS
  <2>3. merchant_brief =
          {{all}, {Fact({CaseRef(LargestFile)})}, {Prose, all}}
            \cup {{Fact(Refs({k \in DOMAIN files : action[k] = a}))} :
                    a \in {action[k] : k \in DOMAIN files}}
    BY <1>6, <2>1, <2>2 DEF merchant_brief
  <2>4. DOMAIN files # {}
    BY <1>6 DEF IdentityInv, FilesHangTogether
  <2>5. Sourced(all, ids)
    BY <1>3, <2>2, <2>4
  <2>6. Sourced(Fact({CaseRef(LargestFile)}), ids)
    <3>1. {CaseRef(LargestFile)} \in SUBSET ids /\ {CaseRef(LargestFile)} # {}
      BY <1>2, <1>6, LargestIsFile
    <3> QED
      BY <3>1 DEF Sourced
  <2>7. ASSUME NEW a \in {action[k] : k \in DOMAIN files}
        PROVE  Sourced(Fact(Refs({k \in DOMAIN files : action[k] = a})), ids)
    <3>1. PICK cases : cases = {k \in DOMAIN files : action[k] = a}
      OBVIOUS
    <3>2. cases \in SUBSET DOMAIN files /\ cases # {}
      BY <3>1
    <3>3. Sourced(Fact(Refs(cases)), ids)
      BY <1>3, <3>2
    <3> QED
      BY <3>1, <3>3
  <2>8. \A line \in merchant_brief : \A s \in line : Sourced(s, ids)
    <3>1. ASSUME NEW line \in {{Fact(Refs({k \in DOMAIN files : action[k] = a}))} :
                                 a \in {action[k] : k \in DOMAIN files}},
                 NEW s \in line
          PROVE  Sourced(s, ids)
      <4>1. PICK a \in {action[k] : k \in DOMAIN files} :
              line = {Fact(Refs({k \in DOMAIN files : action[k] = a}))}
        BY <3>1, Zenon
      <4>2. s = Fact(Refs({k \in DOMAIN files : action[k] = a}))
        BY <3>1, <4>1, Zenon
      <4> QED
        BY <2>7, <4>2, Zenon
    <3>2. ASSUME NEW line \in {{all}, {Fact({CaseRef(LargestFile)})}, {Prose, all}},
                 NEW s \in line
          PROVE  Sourced(s, ids)
      BY <1>4, <2>5, <2>6
    <3> QED
      BY <2>3, <3>1, <3>2
  <2> QED
    BY <1>1, <2>8, SourcedText
<1> QED
  BY <1>5, <1>6

\* Over any world, shuffle and queue, every case narrative and the brief over
\* the queue cite only what the case files hold and assert nothing without a
\* citation: the template path (identity_case.py, identity_brief.py) never
\* raises.
THEOREM IdentityTextsAreSourced == IdentitySpec => []NarrativesAreSourced
<1>1. IdentityInv => NarrativesAreSourced
  BY NarrativeIsSourced, BriefIsSourced DEF NarrativesAreSourced
<1> QED
  BY <1>1, IdentityStarts, IdentityMoves, PTL DEF IdentitySpec

-----------------------------------------------------------------------------
(* Links, crowds, features and baselines.                                  *)

LEMMA TwoOf ==
  ASSUME NEW T, IsFiniteSet(T), Cardinality(T) > 1
  PROVE  \E a, b \in T : a # b
<1>1. T # {}
  BY FS_EmptySet
<1>2. PICK a \in T : TRUE
  BY <1>1
<1>3. T # {a}
  BY FS_Singleton
<1> QED
  BY <1>2, <1>3

LEMMA LinkIs ==
  ASSUME IdentityTyped, NEW nodes \in SUBSET Ids, NEW l \in Links(nodes)
  PROVE  \E x \in Attrs, i \in nodes :
           /\ l.members = Holders(nodes, x, apps[i][x])
           /\ l.population = Cardinality(Holders(Ids, x, apps[i][x]))
           /\ l.members \in SUBSET nodes /\ IsFiniteSet(l.members)
           /\ Cardinality(l.members) \in Nat /\ Cardinality(l.members) > 1
<1>1. PICK p \in {q \in Attrs \X nodes :
                    Cardinality(Holders(nodes, q[1], apps[q[2]][q[1]])) > 1} :
        l = [attribute |-> p[1], members |-> Holders(nodes, p[1], apps[p[2]][p[1]]),
             population |-> population_counts(p[1], apps[p[2]][p[1]])]
  BY DEF Links
<1>2. PICK x \in Attrs : x = p[1]
  BY <1>1
<1>3. PICK i \in nodes : i = p[2]
  BY <1>1
<1>4. /\ l.members = Holders(nodes, x, apps[i][x])
      /\ l.population = Cardinality(Holders(Ids, x, apps[i][x]))
      /\ Cardinality(l.members) > 1
  BY <1>1, <1>2, <1>3 DEF population_counts
<1>5. l.members \in SUBSET nodes
  BY <1>4 DEF Holders
<1>6. IsFiniteSet(l.members) /\ Cardinality(l.members) \in Nat
  BY <1>5, IdsAre
<1> QED
  BY <1>4, <1>5, <1>6

\* In a large legitimate structure every link is common.
LEMMA CrowdLinks ==
  ASSUME IdentityInv, NEW nodes \in SUBSET Ids, NEW o,
         \A i \in nodes : origin[i] = o, ~o.planted,
         Cardinality(Group(FALSE, o.n)) > RARE_MULTIPLICITY
  PROVE  RareLinks(nodes) = {}
<1> SUFFICES ASSUME NEW l \in RareLinks(nodes) PROVE FALSE
  OBVIOUS
<1>1. IdentityTyped /\ SharedByAll
  BY DEF IdentityInv
<1>2. l \in Links(nodes) /\ l.population <= RARE_MULTIPLICITY
  BY DEF RareLinks
<1>3. PICK x \in Attrs, i \in nodes :
        /\ l.members = Holders(nodes, x, apps[i][x])
        /\ l.population = Cardinality(Holders(Ids, x, apps[i][x]))
        /\ IsFiniteSet(l.members) /\ Cardinality(l.members) > 1
  BY <1>1, <1>2, LinkIs
<1>4. PICK a, b \in l.members : a # b
  BY <1>3, TwoOf
<1>5. a \in Ids /\ b \in Ids /\ apps[a][x] = apps[i][x] /\ apps[b][x] = apps[i][x]
      /\ origin[a] = o /\ origin[b] = o
  BY <1>3, <1>4 DEF Holders
<1>6. \A m \in Ids : origin[m] = o => apps[m][x] = apps[a][x]
  BY <1>1, <1>4, <1>5 DEF SharedByAll
<1>7. o = [planted |-> FALSE, n |-> o.n]
  <2>1. o \in Origins
    BY <1>1, <1>5, IdsAre
  <2>2. o.planted = FALSE
    BY <2>1 DEF Origins
  <2> QED
    BY <2>1, <2>2 DEF Origins
<1>8. Group(FALSE, o.n) \subseteq Holders(Ids, x, apps[i][x])
  BY <1>5, <1>6, <1>7 DEF Group, Holders
<1>9. PICK H : H = Holders(Ids, x, apps[i][x])
  OBVIOUS
<1>10. PICK G : G = Group(FALSE, o.n)
  OBVIOUS
<1>11. H \in SUBSET Ids /\ G \in SUBSET H
  BY <1>8, <1>9, <1>10 DEF Holders
<1>12. IsFiniteSet(H) /\ Cardinality(H) \in Nat /\ Cardinality(G) \in Nat
       /\ Cardinality(G) <= Cardinality(H)
  BY <1>1, <1>11, IdsAre, FS_Subset
<1>13. PICK h \in Nat, g \in Nat : h = Cardinality(H) /\ g = Cardinality(G)
  BY <1>12
<1>14. h <= RARE_MULTIPLICITY /\ g > RARE_MULTIPLICITY /\ g <= h
  <2>1. l.population = h
    BY <1>3, <1>9, <1>13
  <2>2. g > RARE_MULTIPLICITY
    BY <1>10, <1>13
  <2> QED
    BY <1>2, <1>12, <1>13, <2>1, <2>2
<1>15. RARE_MULTIPLICITY \in Nat
  BY IdentityAssumption
<1> QED
  BY <1>14, <1>15

LEMMA CrowdsNeverEscalate ==
  ASSUME IdentityInv PROVE CrowdsAreNotEvidence
<1> SUFFICES ASSUME NEW k \in DOMAIN files,
                    Cardinality({origin[i] : i \in files[k].nodes}) = 1,
                    \A o \in {origin[i] : i \in files[k].nodes} :
                      ~o.planted /\ Cardinality(Group(FALSE, o.n)) > RARE_MULTIPLICITY
             PROVE  recommend(files[k].nodes) = "MONITOR"
  BY DEF CrowdsAreNotEvidence
<1>1. PICK nodes : nodes = files[k].nodes
  OBVIOUS
<1>2. nodes \in SUBSET Ids /\ IsFiniteSet(nodes)
  BY <1>1, FileIs
<1>3. PICK group : group = {origin[i] : i \in nodes}
  OBVIOUS
<1>4. PICK f : f = [i \in nodes |-> origin[i]]
  OBVIOUS
<1>5. f \in Surjection(nodes, group)
  BY <1>3, <1>4 DEF Surjection
<1>6. IsFiniteSet(group)
  BY <1>2, <1>5, FS_Surjection
<1>7. Cardinality(group) = 1
  BY <1>1, <1>3
<1>8. PICK o : group = {o}
  BY <1>6, <1>7, FS_Singleton
<1>9. \A i \in nodes : origin[i] = o
  BY <1>3, <1>8
<1>10. ~o.planted /\ Cardinality(Group(FALSE, o.n)) > RARE_MULTIPLICITY
  BY <1>1, <1>3, <1>8
<1>11. RareLinks(nodes) = {}
  BY <1>2, <1>9, <1>10, CrowdLinks
<1>12. Cardinality(RareLinks(nodes)) = 0
  BY <1>11, FS_EmptySet
<1> QED
  BY <1>1, <1>11, <1>12 DEF recommend

AllPairs(S) == {e \in S \X S : e[1] < e[2]}

AllAdjacent(nodes) == \A i, j \in nodes : i # j => Adjacent(i, j)

LEMMA PairsCount ==
  ASSUME NEW S, IsFiniteSet(S), S \subseteq Nat
  PROVE  /\ IsFiniteSet(AllPairs(S))
         /\ 2 * Cardinality(AllPairs(S)) = Cardinality(S) * (Cardinality(S) - 1)
<1> DEFINE Holding == {T \in SUBSET S :
              /\ IsFiniteSet(AllPairs(T))
              /\ 2 * Cardinality(AllPairs(T)) = Cardinality(T) * (Cardinality(T) - 1)}
<1>1. {} \in Holding
  <2>1. AllPairs({}) = {}
    BY DEF AllPairs
  <2> QED
    BY <2>1, FS_EmptySet
<1>2. ASSUME NEW T \in SUBSET S, NEW z \in S \ T, T \in Holding
      PROVE  T \cup {z} \in Holding
  <2>1. PICK A : A = AllPairs(T)
    OBVIOUS
  <2>2. PICK t \in Nat, a \in Nat : t = Cardinality(T) /\ a = Cardinality(A)
    BY <1>2, <2>1, FS_Subset, FS_CardinalityType
  <2>3. IsFiniteSet(T) /\ IsFiniteSet(A) /\ 2 * a = t * (t - 1)
    BY <1>2, <2>1, <2>2, FS_Subset
  <2>4. PICK f : f = [u \in T |-> IF u < z THEN <<u, z>> ELSE <<z, u>>]
    OBVIOUS
  <2>5. PICK B : B = {e \in AllPairs(T \cup {z}) : e[1] = z \/ e[2] = z}
    OBVIOUS
  <2>6. \A u \in T : f[u] \in B
    <3>1. ASSUME NEW u \in T PROVE f[u] \in B
      <4>1. u \in Nat /\ z \in Nat /\ u # z
        BY <1>2
      <4>2. u < z \/ z < u
        BY <4>1
      <4>3. CASE u < z
        <5>1. f[u] = <<u, z>>
          BY <2>4, <4>3
        <5>2. <<u, z>> \in AllPairs(T \cup {z})
          BY <4>3 DEF AllPairs
        <5> QED
          BY <2>5, <5>1, <5>2
      <4>4. CASE z < u
        <5>1. f[u] = <<z, u>>
          BY <2>4, <4>1, <4>4
        <5>2. <<z, u>> \in AllPairs(T \cup {z})
          BY <4>4 DEF AllPairs
        <5> QED
          BY <2>5, <5>1, <5>2
      <4> QED
        BY <4>2, <4>3, <4>4
    <3> QED
      BY <3>1
  <2>7. ASSUME NEW e \in B PROVE \E u \in T : f[u] = e
    <3>1. PICK u \in T \cup {z}, v \in T \cup {z} : e = <<u, v>> /\ u < v
      <4>1. e \in (T \cup {z}) \X (T \cup {z}) /\ e[1] < e[2]
        BY <2>5 DEF AllPairs
      <4>2. e = <<e[1], e[2]>> /\ e[1] \in T \cup {z} /\ e[2] \in T \cup {z}
        BY <4>1
      <4> QED
        BY <4>1, <4>2
    <3>2. u \in Nat /\ v \in Nat /\ z \in Nat /\ (u = z \/ v = z)
      BY <1>2, <2>5, <3>1
    <3>3. CASE u = z
      <4>1. v \in T /\ ~(v < z)
        BY <3>1, <3>2, <3>3
      <4>2. f[v] = e
        BY <2>4, <3>1, <3>3, <4>1
      <4> QED
        BY <4>1, <4>2
    <3>4. CASE v = z
      <4>1. u \in T /\ u < z
        BY <3>1, <3>2, <3>4
      <4>2. f[u] = e
        BY <2>4, <3>1, <3>4, <4>1
      <4> QED
        BY <4>1, <4>2
    <3> QED
      BY <3>2, <3>3, <3>4
  <2>8. \A u, v \in T : f[u] = f[v] => u = v
    <3>1. ASSUME NEW u \in T, NEW v \in T, f[u] = f[v] PROVE u = v
      <4>1. u # z /\ v # z
        BY <1>2
      <4> QED
        BY <2>4, <3>1, <4>1
    <3> QED
      BY <3>1
  <2>9. f \in Surjection(T, B) /\ f \in Injection(T, B)
    BY <2>4, <2>6, <2>7, <2>8 DEF Surjection, Injection, IsInjective
  <2>10. IsFiniteSet(B) /\ Cardinality(B) = t
    BY <2>2, <2>3, <2>9, FS_Surjection
  <2>11. A \cap B = {} /\ AllPairs(T \cup {z}) = A \cup B
    <3>1. ASSUME NEW e \in A PROVE e \notin B /\ e \in AllPairs(T \cup {z})
      <4>1. e \in T \X T /\ e[1] < e[2]
        BY <2>1, <3>1 DEF AllPairs
      <4>2. e[1] # z /\ e[2] # z /\ e \in (T \cup {z}) \X (T \cup {z})
        BY <1>2, <4>1
      <4> QED
        BY <2>5, <4>1, <4>2 DEF AllPairs
    <3>2. ASSUME NEW e \in AllPairs(T \cup {z}), e \notin B PROVE e \in A
      <4>1. e \in (T \cup {z}) \X (T \cup {z}) /\ e[1] < e[2]
        BY <3>2 DEF AllPairs
      <4>2. e[1] # z /\ e[2] # z
        BY <2>5, <3>2
      <4>3. e \in T \X T
        BY <4>1, <4>2
      <4> QED
        BY <2>1, <4>1, <4>3 DEF AllPairs
    <3> QED
      BY <2>5, <3>1, <3>2
  <2>12. IsFiniteSet(A \cup B) /\ Cardinality(A \cup B) = a + t
    <3>1. Cardinality(A \cap B) = 0
      BY <2>11, FS_EmptySet
    <3>2. IsFiniteSet(A \cup B)
          /\ Cardinality(A \cup B) = Cardinality(A) + Cardinality(B) - Cardinality(A \cap B)
      BY <2>3, <2>10, FS_Union
    <3> QED
      BY <2>2, <2>10, <3>1, <3>2
  <2>13. Cardinality(T \cup {z}) = t + 1
    BY <1>2, <2>2, <2>3, FS_AddElement
  <2>14. 2 * (a + t) = (t + 1) * ((t + 1) - 1)
    BY <2>3
  <2> QED
    BY <2>11, <2>12, <2>13, <2>14
<1>3. S \in Holding
  <2> HIDE DEF Holding
  <2> QED
    BY <1>1, <1>2, OneByOne
<1> QED
  BY <1>3

\* All there can be are linked just when there are as many links as pairs.
LEMMA EdgesAtMost ==
  ASSUME IdentityTyped, NEW nodes \in SUBSET Ids, NEW n \in Nat, n = Cardinality(nodes)
  PROVE  /\ Cardinality(Pairs(nodes)) \in Nat
         /\ Cardinality(Pairs(nodes)) <= (n * (n - 1)) \div 2
         /\ Cardinality(Pairs(nodes)) = (n * (n - 1)) \div 2 <=> AllAdjacent(nodes)
<1>1. IsFiniteSet(nodes) /\ nodes \subseteq Nat
  BY IdsAre
<1>2. PICK A : A = AllPairs(nodes)
  OBVIOUS
<1>3. PICK E : E = Pairs(nodes)
  OBVIOUS
<1>4. E \in SUBSET A
  BY <1>2, <1>3 DEF Pairs, AllPairs
<1>5. IsFiniteSet(A) /\ 2 * Cardinality(A) = n * (n - 1)
  BY <1>1, <1>2, PairsCount
<1>6. PICK a \in Nat, e \in Nat : a = Cardinality(A) /\ e = Cardinality(E)
  BY <1>4, <1>5, FS_Subset, FS_CardinalityType
<1>7. e <= a /\ (e = a => E = A)
  BY <1>4, <1>5, <1>6, FS_Subset
<1>8. (n * (n - 1)) \div 2 = a
  <2>1. n * (n - 1) = 2 * a
    BY <1>5, <1>6
  <2>2. (2 * a) \div 2 = a
    BY SMTT(30)
  <2> QED
    BY <2>1, <2>2
<1>9. ASSUME E = A PROVE AllAdjacent(nodes)
  <2> SUFFICES ASSUME NEW i \in nodes, NEW j \in nodes, i # j PROVE Adjacent(i, j)
    BY DEF AllAdjacent
  <2>1. i \in Nat /\ j \in Nat
    BY <1>1
  <2>2. CASE i < j
    <3>1. <<i, j>> \in E
      BY <1>2, <1>9, <2>2 DEF AllPairs
    <3> QED
      BY <1>3, <3>1 DEF Pairs
  <2>3. CASE j < i
    <3>1. <<j, i>> \in E
      BY <1>2, <1>9, <2>3 DEF AllPairs
    <3>2. Adjacent(j, i)
      BY <1>3, <3>1 DEF Pairs
    <3> QED
      BY <3>2, AdjacentBothWays
  <2> QED
    BY <2>1, <2>2, <2>3
<1>10. ASSUME AllAdjacent(nodes) PROVE E = A
  <2>1. ASSUME NEW d \in A PROVE d \in E
    <3>1. PICK i \in nodes, j \in nodes : d = <<i, j>> /\ i < j
      BY <1>2 DEF AllPairs
    <3>2. i # j
      BY <1>1, <3>1
    <3>3. Adjacent(i, j)
      BY <1>10, <3>2 DEF AllAdjacent
    <3> QED
      BY <1>3, <3>1, <3>3 DEF Pairs
  <2> QED
    BY <1>4, <2>1
<1> QED
  BY <1>3, <1>6, <1>7, <1>8, <1>9, <1>10

\* What hangs together has a link for each application but one: the largest
\* part of which that holds is everything.
LEMMA EdgesAtLeast ==
  ASSUME IdentityTyped, NEW nodes \in SUBSET Ids, NEW s \in nodes, Together(nodes, s)
  PROVE  Cardinality(Pairs(nodes)) >= Cardinality(nodes) - 1
<1>1. IsFiniteSet(nodes) /\ nodes \subseteq Nat
  BY IdsAre
<1>2. PICK n \in Nat : n = Cardinality(nodes)
  BY <1>1, FS_CardinalityType
<1>3. \A T \in SUBSET nodes : IsFiniteSet(T) /\ Cardinality(T) \in Nat /\ Cardinality(T) <= n
  BY <1>1, <1>2, FS_Subset, FS_CardinalityType
<1>4. \A T \in SUBSET nodes : IsFiniteSet(Pairs(T)) /\ Cardinality(Pairs(T)) \in Nat
  <2> SUFFICES ASSUME NEW T \in SUBSET nodes
               PROVE  IsFiniteSet(Pairs(T)) /\ Cardinality(Pairs(T)) \in Nat
    OBVIOUS
  <2>1. IsFiniteSet(AllPairs(T))
    BY <1>1, <1>3, PairsCount
  <2>2. Pairs(T) \in SUBSET AllPairs(T)
    BY DEF Pairs, AllPairs
  <2> QED
    BY <2>1, <2>2, FS_Subset, FS_CardinalityType
<1>5. PICK sizes : sizes = {c \in 0..n : \E T \in SUBSET nodes :
                      s \in T /\ Cardinality(T) = c /\ Cardinality(Pairs(T)) >= c - 1}
  OBVIOUS
<1>6. sizes # {}
  <2>1. {s} \in SUBSET nodes /\ Cardinality({s}) = 1
    BY FS_Singleton
  <2>2. 1 \in 0..n
    BY <1>2, <1>3, <2>1
  <2>3. Cardinality(Pairs({s})) >= 1 - 1
    BY <1>4, <2>1
  <2>4. 1 \in sizes
    BY <1>5, <2>1, <2>2, <2>3
  <2> QED
    BY <2>4
<1>7. IsFiniteSet(sizes) /\ sizes \subseteq Int
  <2>1. 0 \in Int /\ n \in Int
    OBVIOUS
  <2>2. IsFiniteSet(0..n)
    BY <2>1, FS_Interval
  <2>3. sizes \in SUBSET (0..n)
    BY <1>5
  <2>4. PICK I : I = 0..n
    OBVIOUS
  <2>5. IsFiniteSet(I) /\ sizes \in SUBSET I
    BY <2>2, <2>3, <2>4
  <2>6. IsFiniteSet(sizes)
    BY <2>5, FS_Subset
  <2> QED
    BY <2>3, <2>6
<1>8. PICK c \in sizes : \A d \in sizes : c >= d
  BY <1>6, <1>7, Extremes
<1>9. PICK T \in SUBSET nodes :
        s \in T /\ Cardinality(T) = c /\ Cardinality(Pairs(T)) >= c - 1
  BY <1>5
<1>10. c \in Nat /\ c <= n
  BY <1>5
<1>11. T = nodes
  <2> SUFFICES ASSUME T # nodes PROVE FALSE
    OBVIOUS
  <2>1. ~Closed(T, nodes)
    BY <1>9 DEF Together
  <2>2. PICK m \in T, j \in nodes : Adjacent(m, j) /\ j \notin T
    BY <2>1 DEF Closed
  <2>3. PICK U \in SUBSET nodes : U = T \cup {j}
    OBVIOUS
  <2>4. Cardinality(U) = c + 1
    BY <1>3, <1>9, <2>2, <2>3, FS_AddElement
  <2>5. PICK e : e = IF m < j THEN <<m, j>> ELSE <<j, m>>
    OBVIOUS
  <2>6. e \in Pairs(U) /\ e \notin Pairs(T)
    <3>1. m \in Nat /\ j \in Nat /\ m # j /\ Adjacent(j, m)
      BY <1>1, <2>2, AdjacentBothWays
    <3>2. CASE m < j
      BY <2>2, <2>3, <2>5, <3>1, <3>2 DEF Pairs
    <3>3. CASE ~(m < j)
      <4>1. j < m
        BY <3>1, <3>3
      <4> QED
        BY <2>2, <2>3, <2>5, <3>1, <3>3, <4>1 DEF Pairs
    <3> QED
      BY <3>2, <3>3
  <2>7. PICK P : P = Pairs(T)
    OBVIOUS
  <2>8. PICK Q : Q = Pairs(U)
    OBVIOUS
  <2>9. P \cup {e} \in SUBSET Q /\ e \notin P
    BY <2>3, <2>6, <2>7, <2>8 DEF Pairs
  <2>10. IsFiniteSet(P) /\ IsFiniteSet(Q) /\ Cardinality(P) \in Nat /\ Cardinality(Q) \in Nat
    BY <1>4, <2>7, <2>8
  <2>11. Cardinality(P \cup {e}) = Cardinality(P) + 1
    BY <2>9, <2>10, FS_AddElement
  <2>12. Cardinality(P) + 1 <= Cardinality(Q)
    BY <2>9, <2>10, <2>11, FS_Subset
  <2>13. Cardinality(Pairs(U)) >= (c + 1) - 1
    BY <1>9, <1>10, <2>7, <2>8, <2>10, <2>12
  <2>14. c + 1 \in 0..n
    BY <1>3, <1>10, <2>4
  <2>15. s \in U
    BY <1>9, <2>3
  <2>16. c + 1 \in sizes
    BY <1>5, <2>4, <2>13, <2>14, <2>15
  <2> QED
    BY <1>8, <1>10, <2>16
<1> QED
  BY <1>9, <1>11

LEMMA FirstHop ==
  ASSUME NEW nodes, NEW i \in nodes
  PROVE  Reach(nodes, i, 1) = {i} \cup {j \in nodes : Adjacent(i, j)}
<1>1. Reach(nodes, i, 0 + 1) = Widened(nodes, Reach(nodes, i, 0)) /\ Reach(nodes, i, 0) = {i}
  BY ReachSteps
<1>2. Widened(nodes, {i}) = {i} \cup {j \in nodes : Adjacent(i, j)}
  BY DEF Widened
<1> QED
  BY <1>1, <1>2

LEMMA DiameterIs ==
  ASSUME NEW nodes, IsFiniteSet(nodes), NEW n \in Nat, n = Cardinality(nodes), n > 1,
         NEW s \in nodes, Together(nodes, s)
  PROVE  Diameter(nodes) \in 1..(n - 1) /\ (Diameter(nodes) = 1 <=> AllAdjacent(nodes))
<1>1. PICK D : D = {h \in 1..n : \E i \in nodes :
                      Reach(nodes, i, h) # Reach(nodes, i, h - 1)}
  OBVIOUS
<1>2. PICK S : S = {0} \cup D
  OBVIOUS
<1>3. Diameter(nodes) = Max(S)
  BY <1>1, <1>2 DEF Diameter
<1>4. IsFiniteSet(S) /\ S \subseteq Int /\ S # {}
  <2>1. 0 \in Int /\ n \in Int
    OBVIOUS
  <2>2. IsFiniteSet(0..n)
    BY <2>1, FS_Interval
  <2>3. S \in SUBSET (0..n)
    BY <1>1, <1>2
  <2> QED
    BY <1>2, <2>2, <2>3, FS_Subset
<1>5. Max(S) \in S /\ \A h \in S : Max(S) >= h
  BY <1>4, Extremes
<1>6. \A i \in nodes : Component(nodes, i) = nodes
  BY TogetherIs
<1>7. ASSUME NEW i \in nodes, NEW T \in SUBSET nodes, i \in T, Closed(T, nodes)
      PROVE  T = nodes
  <2>1. Component(nodes, i) \subseteq T
    BY <1>7, ComponentIs
  <2> QED
    BY <1>6, <2>1
<1>8. 1 \in D
  <2>1. Reach(nodes, s, 1) # Reach(nodes, s, 1 - 1)
    <3>1. Reach(nodes, s, 0) = {s} /\ Reach(nodes, s, 0 + 1) = Widened(nodes, Reach(nodes, s, 0))
      BY ReachSteps
    <3>2. {s} # nodes
      BY FS_Singleton
    <3>3. ~Closed({s}, nodes)
      BY <1>7, <3>2
    <3>4. Widened(nodes, {s}) # {s}
      BY <3>3, WidenedIs
    <3> QED
      BY <3>1, <3>4
  <2>2. 1 \in 1..n
    OBVIOUS
  <2> QED
    BY <1>1, <2>1, <2>2
<1>9. ASSUME NEW i \in nodes, NEW m \in Nat, Closed(Reach(nodes, i, m), nodes)
      PROVE  Reach(nodes, i, m) = nodes /\ Reach(nodes, i, m + 1) = nodes
  <2>1. Reach(nodes, i, m) \in SUBSET nodes /\ i \in Reach(nodes, i, m)
    BY ReachStays
  <2>2. PICK T \in SUBSET nodes : T = Reach(nodes, i, m)
    BY <2>1
  <2>3. T = nodes
    BY <1>7, <1>9, <2>1, <2>2
  <2>4. Reach(nodes, i, m + 1) = Widened(nodes, Reach(nodes, i, m))
    <3>1. \A d \in Nat : Reach(nodes, i, d + 1) = Widened(nodes, Reach(nodes, i, d))
      BY ReachSteps, Zenon
    <3> QED
      BY <3>1
  <2>5. Widened(nodes, T) = T
    BY <1>9, <2>2, WidenedIs
  <2> QED
    BY <2>2, <2>3, <2>4, <2>5
<1>10. n \notin D
  <2> SUFFICES ASSUME NEW i \in nodes
               PROVE  Reach(nodes, i, n) = Reach(nodes, i, n - 1)
    BY <1>1
  <2>1. PICK m \in Nat : m = n - 1 /\ m + 1 = n
    OBVIOUS
  <2>2. Closed(Reach(nodes, i, m), nodes)
    BY <2>1, ReachCloses
  <2>3. Reach(nodes, i, m) = nodes /\ Reach(nodes, i, m + 1) = nodes
    BY <1>9, <2>2
  <2> QED
    BY <2>1, <2>3
<1>11. Max(S) \in 1..(n - 1) /\ Max(S) \in D
  <2>1. 1 \in S
    BY <1>2, <1>8
  <2>2. Max(S) >= 1 /\ Max(S) \in S
    BY <1>5, <2>1
  <2>3. Max(S) \in D
    BY <1>2, <2>2
  <2>4. Max(S) \in 1..n /\ Max(S) # n
    BY <1>1, <1>10, <2>3
  <2> QED
    BY <2>3, <2>4
<1>12. ASSUME Max(S) = 1 PROVE AllAdjacent(nodes)
  <2>1. ASSUME NEW i \in nodes PROVE Closed(Reach(nodes, i, 1), nodes)
    <3>1. CASE n = 2
      <4>1. 1 + 1 >= Cardinality(nodes) /\ 1 \in Nat
        BY <3>1
      <4> QED
        BY <4>1, ReachCloses
    <3>2. CASE n # 2
      <4>1. 2 \notin S
        BY <1>5, <1>12
      <4>2. 2 \in 1..n /\ 2 \notin D
        BY <1>2, <3>2, <4>1
      <4>3. Reach(nodes, i, 2) = Reach(nodes, i, 2 - 1)
        BY <1>1, <4>2
      <4>4. Reach(nodes, i, 2) = Widened(nodes, Reach(nodes, i, 1))
        <5>1. PICK u \in Nat : u = 1
          OBVIOUS
        <5>2. \A d \in Nat : Reach(nodes, i, d + 1) = Widened(nodes, Reach(nodes, i, d))
          BY ReachSteps, Zenon
        <5>3. Reach(nodes, i, u + 1) = Widened(nodes, Reach(nodes, i, u))
          BY <5>2
        <5>4. u + 1 = 2
          BY <5>1
        <5> QED
          BY <5>1, <5>3, <5>4
      <4>5. Reach(nodes, i, 1) \in SUBSET nodes
        BY ReachStays
      <4> QED
        BY <4>3, <4>4, <4>5, WidenedIs
    <3> QED
      BY <3>1, <3>2
  <2>2. \A i \in nodes : Reach(nodes, i, 1) = nodes
    BY <1>9, <2>1
  <2> QED
    BY <2>2, FirstHop DEF AllAdjacent
<1>13. ASSUME AllAdjacent(nodes) PROVE Max(S) = 1
  <2>1. ASSUME NEW i \in nodes PROVE Reach(nodes, i, 1) = nodes
    <3>1. Reach(nodes, i, 1) = {i} \cup {j \in nodes : Adjacent(i, j)}
      BY FirstHop
    <3> QED
      BY <1>13, <3>1 DEF AllAdjacent
  <2>2. ASSUME NEW h \in D, h # 1 PROVE FALSE
    <3>1. PICK i \in nodes : Reach(nodes, i, h) # Reach(nodes, i, h - 1)
      BY <1>1
    <3>2. h - 1 \in Nat /\ h - 2 \in Nat /\ 1 + (h - 1) = h /\ 1 + (h - 2) = h - 1 /\ h \in Nat
      BY <1>1, <2>2
    <3>3. Closed(Reach(nodes, i, 1), nodes)
      BY <2>1 DEF Closed
    <3>4. \A d \in Nat : Reach(nodes, i, 1 + d) = Reach(nodes, i, 1)
      BY <3>3, ReachLater
    <3>5. Reach(nodes, i, 1 + (h - 1)) = Reach(nodes, i, 1)
          /\ Reach(nodes, i, 1 + (h - 2)) = Reach(nodes, i, 1)
      BY <3>2, <3>4
    <3> QED
      BY <3>1, <3>2, <3>5
  <2> QED
    BY <1>11, <2>2
<1> QED
  BY <1>3, <1>11, <1>12, <1>13

\* The values shared.
Spanning(nodes) == Max({Cardinality(l.members) : l \in Links(nodes)})

MostLinked(nodes) ==
  Max({Cardinality({j \in nodes : Adjacent(i, j)}) : i \in nodes})

LEMMA SpanningIs ==
  ASSUME IdentityTyped, NEW nodes \in SUBSET Ids, NEW n \in Nat, n = Cardinality(nodes),
         NEW a \in nodes, NEW b \in nodes, Adjacent(a, b)
  PROVE  /\ Spanning(nodes) = n => AllAdjacent(nodes)
         /\ Spanning(nodes) - 1 <= MostLinked(nodes)
<1>1. IsFiniteSet(nodes) /\ \A T \in SUBSET nodes :
        IsFiniteSet(T) /\ Cardinality(T) \in 0..n /\ (Cardinality(T) = n => T = nodes)
  <2>1. IsFiniteSet(nodes)
    BY IdsAre
  <2>2. ASSUME NEW T \in SUBSET nodes
        PROVE  IsFiniteSet(T) /\ Cardinality(T) \in 0..n /\ (Cardinality(T) = n => T = nodes)
    <3>1. IsFiniteSet(T) /\ Cardinality(T) <= Cardinality(nodes)
          /\ (Cardinality(nodes) = Cardinality(T) => nodes = T)
      BY <2>1, FS_Subset
    <3>2. Cardinality(T) \in Nat
      BY <3>1, FS_CardinalityType
    <3> QED
      BY <3>1, <3>2
  <2> QED
    BY <2>1, <2>2
<1>2. IsFiniteSet(0..n)
  <2>1. 0 \in Int /\ n \in Int
    OBVIOUS
  <2> QED
    BY <2>1, FS_Interval
<1>3. PICK most : most = Spanning(nodes)
  OBVIOUS
<1>4. PICK M : M = {Cardinality(l.members) : l \in Links(nodes)}
  OBVIOUS
<1>5. PICK G : G = {Cardinality({j \in nodes : Adjacent(i, j)}) : i \in nodes}
  OBVIOUS
<1>6. IsFiniteSet(M) /\ M \subseteq Int
  <2>1. \A l \in Links(nodes) : l.members \in SUBSET nodes
    BY LinkIs
  <2>2. ASSUME NEW c \in M PROVE c \in 0..n
    <3>1. PICK l \in Links(nodes) : c = Cardinality(l.members)
      BY <1>4
    <3>2. PICK T \in SUBSET nodes : T = l.members
      BY <2>1
    <3>3. Cardinality(T) \in 0..n
      BY <1>1
    <3> QED
      BY <3>1, <3>2, <3>3
  <2>3. M \in SUBSET (0..n)
    BY <2>2
  <2>4. IsFiniteSet(M)
    BY <1>2, <2>3, FS_Subset
  <2> QED
    BY <2>2, <2>4
<1>7. M # {}
  <2>1. PICK x \in Attrs : apps[a][x] = apps[b][x] /\ a # b
    BY DEF Adjacent, LinkedBy
  <2>2. PICK H : H = Holders(nodes, x, apps[a][x])
    OBVIOUS
  <2>3. a \in H /\ b \in H /\ H \in SUBSET nodes
    BY <2>1, <2>2 DEF Holders
  <2>4. Cardinality(H) > 1
    <3>1. H # {} /\ \A y : H # {y}
      BY <2>1, <2>3
    <3>2. Cardinality(H) # 0 /\ Cardinality(H) # 1 /\ Cardinality(H) \in 0..n
      BY <1>1, <2>3, <3>1, FS_EmptySet, FS_Singleton
    <3> QED
      BY <3>2
  <2>5. PICK p : p = <<x, a>>
    OBVIOUS
  <2>6. p \in Attrs \X nodes /\ p[1] = x /\ p[2] = a
    BY <2>5
  <2>7. p \in {q \in Attrs \X nodes : Cardinality(Holders(nodes, q[1], apps[q[2]][q[1]])) > 1}
    BY <2>2, <2>4, <2>6
  <2>8. Links(nodes) # {}
    BY <2>7 DEF Links
  <2> QED
    BY <1>4, <2>8
<1>8. most \in M /\ most = Max(M)
  <2>1. most = Max(M)
    BY <1>4, <1>3 DEF Spanning
  <2> QED
    BY <1>6, <1>7, <2>1, Extremes
<1>9. PICK l \in Links(nodes) : most = Cardinality(l.members)
  BY <1>4, <1>8
<1>10. PICK x \in Attrs, c \in nodes :
        l.members = Holders(nodes, x, apps[c][x]) /\ l.members \in SUBSET nodes
        /\ IsFiniteSet(l.members) /\ Cardinality(l.members) \in Nat /\ Cardinality(l.members) > 1
  BY LinkIs
<1>11. \A i, j \in l.members : i # j => Adjacent(i, j)
  BY <1>10 DEF Holders, Adjacent, LinkedBy
<1>12. ASSUME most = n PROVE AllAdjacent(nodes)
  BY <1>1, <1>9, <1>10, <1>11, <1>12 DEF AllAdjacent
<1>13. most - 1 <= Max(G)
  <2>1. l.members # {}
    BY <1>10, FS_EmptySet
  <2>2. PICK i \in l.members : TRUE
    BY <2>1
  <2>3. PICK N \in SUBSET nodes : N = {j \in nodes : Adjacent(i, j)}
    OBVIOUS
  <2>4. PICK Z \in SUBSET N : Z = l.members \ {i}
    <3>1. PICK Q : Q = l.members \ {i}
      OBVIOUS
    <3>2. ASSUME NEW j \in Q PROVE j \in N
      <4>1. j \in l.members /\ i # j /\ j \in nodes
        BY <1>10, <3>1
      <4>2. Adjacent(i, j)
        BY <1>11, <2>2, <4>1
      <4> QED
        BY <2>3, <4>1, <4>2
    <3> QED
      BY <3>1, <3>2
  <2>5. Cardinality(Z) = Cardinality(l.members) - 1
    <3>1. PICK H : H = l.members
      OBVIOUS
    <3>2. IsFiniteSet(H) /\ i \in H
      BY <1>10, <2>2, <3>1
    <3>3. Cardinality(H \ {i}) = Cardinality(H) - 1
      BY <3>2, FS_RemoveElement
    <3> QED
      BY <2>4, <3>1, <3>3
  <2>6. IsFiniteSet(N) /\ Cardinality(N) \in Nat /\ Cardinality(Z) <= Cardinality(N)
    BY <1>1, <2>3, <2>4, FS_Subset
  <2>7. Cardinality(N) \in G
    BY <1>5, <1>10, <2>2, <2>3
  <2>8. IsFiniteSet(G) /\ G \subseteq Int /\ G # {}
    <3>1. \A v \in nodes : {j \in nodes : Adjacent(v, j)} \in SUBSET nodes
      OBVIOUS
    <3>2. G \in SUBSET (0..n)
      BY <1>1, <1>5, <3>1
    <3>3. PICK I : I = 0..n
      OBVIOUS
    <3>4. IsFiniteSet(I)
      BY <1>2, <3>3
    <3>5. G \in SUBSET I
      BY <3>2, <3>3
    <3>6. IsFiniteSet(G)
      BY <3>4, <3>5, FS_Subset
    <3> QED
      BY <2>7, <3>2, <3>6
  <2>9. Max(G) \in G /\ Max(G) >= Cardinality(N)
    BY <2>7, <2>8, Extremes
  <2>10. Max(G) \in Int
    BY <2>8, <2>9
  <2> QED
    BY <1>9, <1>10, <2>5, <2>6, <2>9, <2>10
<1>14. MostLinked(nodes) = Max(G)
  BY <1>5 DEF MostLinked
<1> QED
  BY <1>12, <1>13, <1>3, <1>14

LEMMA FileFeatures ==
  ASSUME IdentityTyped, NEW nodes \in SUBSET Ids, NEW s \in nodes,
         Together(nodes, s), NEW n \in Nat, n = Cardinality(nodes), n > 1,
         NEW all \in Int, all = (n * (n - 1)) \div 2
  PROVE  /\ {Component(nodes, i) : i \in nodes} = {nodes}
         /\ Cardinality(Pairs(nodes)) \in (n - 1)..all
         /\ Diameter(nodes) \in 1..(n - 1)
         /\ (Diameter(nodes) = 1) = (Cardinality(Pairs(nodes)) = all)
         /\ Spanning(nodes) = n =>
              Cardinality(Pairs(nodes)) = all
         /\ Cardinality(Pairs(nodes)) = all =>
              Cardinality(OpenTriples(nodes, ById(nodes))) = 0
         /\ Spanning(nodes) - 1 <=
              MostLinked(nodes)
<1>1. IsFiniteSet(nodes)
  BY IdsAre
<1>2. {Component(nodes, i) : i \in nodes} = {nodes}
  BY <1>1, TogetherIs
<1>3. PICK e \in Nat : e = Cardinality(Pairs(nodes)) /\ e <= all /\ (e = all <=> AllAdjacent(nodes))
  BY <1>1, EdgesAtMost
<1>4. e >= n - 1
  BY <1>1, <1>3, EdgesAtLeast
<1>5. e \in (n - 1)..all
  BY <1>3, <1>4
<1>6. Diameter(nodes) \in 1..(n - 1) /\ (Diameter(nodes) = 1 <=> AllAdjacent(nodes))
  BY <1>1, DiameterIs
<1>7. PICK b \in nodes : Adjacent(s, b)
  <2>1. ~Closed({s}, nodes)
    <3>1. {s} # nodes
      <4>1. Cardinality({s}) = 1
        BY FS_Singleton, Zenon
      <4>2. n # 1
        OBVIOUS
      <4> QED
        BY <4>1, <4>2, Zenon
    <3> QED
      BY <3>1 DEF Together
  <2> QED
    BY <2>1 DEF Closed
<1>8. /\ Spanning(nodes) = n => AllAdjacent(nodes)
      /\ Spanning(nodes) - 1 <= MostLinked(nodes)
  BY <1>1, <1>7, SpanningIs
<1>9. ASSUME AllAdjacent(nodes)
       PROVE  Cardinality(OpenTriples(nodes, ById(nodes))) = 0
  <2>1. ASSUME NEW t \in OpenTriples(nodes, ById(nodes)) PROVE FALSE
    <3>1. /\ t \in nodes \X nodes \X nodes
          /\ ById(nodes)[t[2]] < ById(nodes)[t[3]] /\ ~Adjacent(t[2], t[3])
      BY DEF OpenTriples, Triples
    <3>2. PICK u \in nodes, v \in nodes : u = t[2] /\ v = t[3]
      BY <3>1
    <3>3. u < v /\ ~Adjacent(u, v)
      BY <3>1, <3>2 DEF ById
    <3>4. u \in Nat /\ v \in Nat
      BY <1>1, IdsAre
    <3>5. u # v
      BY <3>3, <3>4
    <3> QED
      BY <1>9, <3>3, <3>5 DEF AllAdjacent
  <2>2. OpenTriples(nodes, ById(nodes)) = {}
    BY <2>1
  <2> QED
    BY <2>2, FS_EmptySet
<1>10. (Diameter(nodes) = 1) = (Cardinality(Pairs(nodes)) = all)
  BY <1>3, <1>6
<1>11. Spanning(nodes) = n => Cardinality(Pairs(nodes)) = all
  BY <1>3, <1>8
<1>12. Cardinality(Pairs(nodes)) = all =>
         Cardinality(OpenTriples(nodes, ById(nodes))) = 0
  BY <1>3, <1>9
<1>13. Diameter(nodes) \in 1..(n - 1)
  BY <1>6
<1>14. Cardinality(Pairs(nodes)) \in (n - 1)..all
  BY <1>3, <1>5
<1> QED
  BY <1>2, <1>8, <1>10, <1>11, <1>12, <1>13, <1>14

LEMMA FeaturesAgree ==
  ASSUME IdentityInv PROVE FeaturesHangTogether
<1> SUFFICES ASSUME NEW k \in DOMAIN files
             PROVE  LET f == build(files[k].nodes)
                        all == (f.n_nodes * (f.n_nodes - 1)) \div 2
                    IN /\ f.components = {files[k].nodes}
                       /\ f.n_edges \in (f.n_nodes - 1)..all
                       /\ f.diameter \in 1..(f.n_nodes - 1)
                       /\ (f.diameter = 1) = (f.n_edges = all)
                       /\ f.spanning = f.n_nodes => f.n_edges = all
                       /\ f.n_edges = all => f.open = 0
                       /\ f.spanning - 1 <= f.max_degree
  BY DEF FeaturesHangTogether
<1>1. IdentityTyped
  BY DEF IdentityInv
<1>2. PICK nodes \in SUBSET Ids : nodes = files[k].nodes
  BY FileIs
<1>3. PICK s \in nodes : Together(nodes, s)
  BY <1>2, FileIs
<1>4. PICK n \in Nat : n = Cardinality(nodes) /\ n > 1
  BY <1>2, FileIs
<1>5. PICK all \in Int : all = (n * (n - 1)) \div 2
  BY SMTT(30)
<1>6. /\ {Component(nodes, i) : i \in nodes} = {nodes}
      /\ Cardinality(Pairs(nodes)) \in (n - 1)..all
      /\ Diameter(nodes) \in 1..(n - 1)
      /\ (Diameter(nodes) = 1) = (Cardinality(Pairs(nodes)) = all)
      /\ Spanning(nodes) = n =>
           Cardinality(Pairs(nodes)) = all
      /\ Cardinality(Pairs(nodes)) = all =>
           Cardinality(OpenTriples(nodes, ById(nodes))) = 0
      /\ Spanning(nodes) - 1 <=
           MostLinked(nodes)
  BY <1>1, <1>3, <1>4, <1>5, FileFeatures
<1>7. PICK f : f = build(nodes)
  OBVIOUS
<1>8. /\ f.n_nodes = n
      /\ f.components = {Component(nodes, i) : i \in nodes}
      /\ f.n_edges = Cardinality(Pairs(nodes))
      /\ f.diameter = Diameter(nodes)
      /\ f.spanning = Spanning(nodes)
      /\ f.open = Cardinality(OpenTriples(nodes, ById(nodes)))
      /\ f.max_degree = MostLinked(nodes)
  BY <1>4, <1>7 DEF build, Spanning, MostLinked
<1>9. all = (f.n_nodes * (f.n_nodes - 1)) \div 2
  BY <1>5, <1>8
<1>10. /\ f.components = {nodes}
       /\ f.n_edges \in (f.n_nodes - 1)..all
       /\ f.diameter \in 1..(f.n_nodes - 1)
       /\ (f.diameter = 1) = (f.n_edges = all)
       /\ f.spanning = f.n_nodes => f.n_edges = all
       /\ f.n_edges = all => f.open = 0
       /\ f.spanning - 1 <= f.max_degree
  BY <1>6, <1>8
<1> QED
  BY <1>2, <1>7, <1>9, <1>10, Zenon

\* The baselines: what applications share, counted attribute by attribute.
Joint(F, S) == UNION {F[x] : x \in S}

LEMMA JointAtMost ==
  ASSUME NEW S, IsFiniteSet(S), NEW F, NEW f,
         \A x \in S : IsFiniteSet(F[x]) /\ f[x] \in Nat /\ Cardinality(F[x]) = f[x]
  PROVE  IsFiniteSet(Joint(F, S)) /\ Cardinality(Joint(F, S)) <= Summed(f, S)
<1> DEFINE Holding == {T \in SUBSET S :
                         IsFiniteSet(Joint(F, T)) /\ Cardinality(Joint(F, T)) <= Summed(f, T)}
<1>1. {} \in Holding
  <2>1. Joint(F, {}) = {}
    BY DEF Joint
  <2>2. IsFiniteSet({}) /\ Cardinality({}) = 0
    BY FS_EmptySet
  <2>3. Summed(f, {}) = 0
    BY FS_EmptySet, SumTakesAny
  <2> QED
    BY <2>1, <2>2, <2>3
<1>2. ASSUME NEW T \in SUBSET S, NEW z \in S \ T, T \in Holding
      PROVE  T \cup {z} \in Holding
  <2>1. PICK A : A = Joint(F, T)
    OBVIOUS
  <2>2. PICK B : B = F[z]
    OBVIOUS
  <2>3. Joint(F, T \cup {z}) = A \cup B
    BY <2>1, <2>2 DEF Joint
  <2>4. IsFiniteSet(T)
    BY FS_Subset
  <2>5. /\ IsFiniteSet(A) /\ Cardinality(A) \in Nat /\ Cardinality(A) <= Summed(f, T)
        /\ IsFiniteSet(B) /\ Cardinality(B) = f[z] /\ f[z] \in Nat
    BY <1>2, <2>1, <2>2, FS_CardinalityType
  <2>6. IsFiniteSet(A \cup B)
        /\ Cardinality(A \cup B) = Cardinality(A) + Cardinality(B) - Cardinality(A \cap B)
    BY <2>5, FS_Union
  <2>7. Cardinality(A \cap B) \in Nat
    <3>1. IsFiniteSet(A \cap B)
      BY <2>5, FS_Intersection
    <3> QED
      BY <3>1, FS_CardinalityType
  <2>8. Summed(f, T \cup {z}) = Summed(f, T) + f[z] /\ Summed(f, T) \in Int
    <3>1. \A y \in T \cup {z} : f[y] \in Int
      OBVIOUS
    <3> QED
      BY <1>2, <2>4, <3>1, SumAdds
  <2>9. PICK u \in Nat, v \in Nat, w \in Nat, t \in Int :
          u = Cardinality(A) /\ v = Cardinality(B) /\ w = Cardinality(A \cap B) /\ t = Summed(f, T)
    BY <2>5, <2>7, <2>8
  <2>10. u + v - w <= t + v
    BY <2>5, <2>9
  <2>11. Cardinality(A \cup B) <= Summed(f, T \cup {z})
    BY <2>5, <2>6, <2>8, <2>9, <2>10
  <2> QED
    BY <2>3, <2>6, <2>11
<1>3. S \in Holding
  <2> HIDE DEF Holding
  <2> QED
    BY <1>1, <1>2, OneByOne
<1> QED
  BY <1>3

OthersBy(i) == [x \in Attrs |-> Others(i, x)]

HoldingToo(i) == [x \in Attrs |-> Holders(Ids, x, apps[i][x]) \ {i}]

OthersSum(i, S) == MapThenSumSet(LAMBDA x : Others(i, x), S)

OthersStep(i, g, s) ==
  IF s = {} THEN 0 ELSE Others(i, Taken(s)) + g[s \ {Taken(s)}]

OthersFold(i, g, S) == g = [s \in SUBSET S |-> OthersStep(i, g, s)]

LEMMA AttrsAre == IsFiniteSet(Attrs)
<1>1. PICK A : A = {"pan", "phone", "address", "device", "ip"}
  OBVIOUS
<1>2. A = {"pan"} \cup {"phone"} \cup {"address"} \cup {"device"} \cup {"ip"}
  BY <1>1
<1>3. \A T, x : IsFiniteSet(T) => IsFiniteSet(T \cup {x})
  BY FS_AddElement
<1>4. IsFiniteSet({"pan"})
  BY FS_Singleton, Zenon
<1>5. IsFiniteSet(A)
  BY <1>2, <1>3, <1>4
<1>6. Attrs \in SUBSET A
  BY <1>1, IdentityAssumption
<1> QED
  BY <1>6, <1>5, FS_Subset

LEMMA OthersAre ==
  ASSUME IdentityTyped, NEW i \in Ids, NEW x \in Attrs
  PROVE  /\ IsFiniteSet(HoldingToo(i)[x]) /\ OthersBy(i)[x] = Others(i, x)
         /\ Others(i, x) \in Nat /\ Cardinality(HoldingToo(i)[x]) = OthersBy(i)[x]
<1>1. PICK H : H = Holders(Ids, x, apps[i][x])
  OBVIOUS
<1>2. H \in SUBSET Ids /\ i \in H
  BY <1>1 DEF Holders
<1>3. IsFiniteSet(H) /\ Cardinality(H) \in Nat
  BY <1>2, IdsAre
<1>4. IsFiniteSet(H \ {i}) /\ Cardinality(H \ {i}) = Cardinality(H) - 1
  BY <1>2, <1>3, FS_RemoveElement
<1>5. Cardinality(H \ {i}) \in Nat
  BY <1>4, FS_CardinalityType
<1>6. HoldingToo(i)[x] = H \ {i} /\ OthersBy(i)[x] = Others(i, x)
  BY <1>1 DEF HoldingToo, OthersBy
<1>7. Others(i, x) = Cardinality(H) - 1
  BY <1>1 DEF Others, population_counts
<1> QED
  BY <1>4, <1>5, <1>6, <1>7

LEMMA OthersSumIs ==
  ASSUME IdentityTyped, NEW i \in Ids, NEW A \in SUBSET Attrs
  PROVE  OthersSum(i, A) = Summed(OthersBy(i), A)
<1>1. IsFiniteSet(A) /\ \A k \in A : OthersBy(i)[k] \in Int
  <2>1. IsFiniteSet(A)
    BY AttrsAre, FS_Subset
  <2> QED
    BY <2>1, OthersAre
<1>2. OthersSum(i, A) = (CHOOSE g : OthersFold(i, g, A))[A]
  BY DEF OthersSum, MapThenSumSet, MapThenFoldSet, OthersFold, OthersStep, Taken
<1>3. ASSUME NEW g, NEW s \in SUBSET A
      PROVE  OthersStep(i, g, s) = SumStep(OthersBy(i), g, s)
  <2>1. CASE s # {}
    <3>1. Taken(s) \in Attrs
      BY <2>1, TakenIsMember
    <3>2. OthersBy(i)[Taken(s)] = Others(i, Taken(s))
      BY <3>1 DEF OthersBy
    <3> QED
      BY <2>1, <3>2 DEF OthersStep, SumStep
  <2> QED
    BY <2>1 DEF OthersStep, SumStep
<1>4. \A g : OthersFold(i, g, A) <=> SumFold(OthersBy(i), g, A)
  BY <1>3 DEF OthersFold, SumFold
<1>5. PICK g : g = CHOOSE h : OthersFold(i, h, A)
  OBVIOUS
<1>6. \E h : OthersFold(i, h, A)
  BY <1>1, <1>4, SumFoldExists
<1>7. OthersFold(i, g, A)
  BY <1>5, <1>6
<1>8. SumFold(OthersBy(i), g, A)
  BY <1>4, <1>7
<1>9. g[A] = Summed(OthersBy(i), A)
  BY <1>1, <1>8, RecursionIsSum
<1> QED
  BY <1>2, <1>5, <1>9

LEMMA BaselinesAgree ==
  ASSUME IdentityInv PROVE BaselinesAreOrdered
<1>1. IdentityTyped
  BY DEF IdentityInv
<1> SUFFICES ASSUME NEW i \in Ids
             PROVE  LET b == baseline_scores(i)
                    IN /\ b.degree < b.component_size
                       /\ b.degree <= b.attr_multiplicity
                       /\ b.rare_counted <= b.attr_multiplicity
                       /\ b.rare_degree <= b.rare_counted
  BY DEF BaselinesAreOrdered
<1>2. PICK S \in SUBSET Attrs : S = {x \in Attrs : IsRare(i, x)}
  OBVIOUS
<1>3. IsFiniteSet(S) /\ IsFiniteSet(Attrs) /\ IsFiniteSet(Attrs \ S)
  BY AttrsAre, FS_Subset
<1>4. \A x \in Attrs : /\ IsFiniteSet(HoldingToo(i)[x]) /\ OthersBy(i)[x] \in Nat
                       /\ Cardinality(HoldingToo(i)[x]) = OthersBy(i)[x]
  BY <1>1, OthersAre
<1>5. PICK D : D = cooccurrence(i)
  OBVIOUS
<1>6. PICK E : E = {j \in D : LinkedBy(i, j) \cap S # {}}
  OBVIOUS
<1>7. D = Joint(HoldingToo(i), Attrs)
  BY <1>5 DEF cooccurrence, Adjacent, LinkedBy, Joint, HoldingToo, Holders
<1>8. E = Joint(HoldingToo(i), S)
  <2>1. ASSUME NEW j \in E PROVE j \in Joint(HoldingToo(i), S)
    <3>1. j \in Ids /\ i # j /\ \E x \in S : apps[i][x] = apps[j][x]
      BY <1>5, <1>6, <2>1 DEF cooccurrence, Adjacent, LinkedBy
    <3>2. PICK x \in S : apps[i][x] = apps[j][x]
      BY <3>1
    <3>3. j \in HoldingToo(i)[x]
      BY <3>1, <3>2 DEF HoldingToo, Holders
    <3> QED
      BY <3>3 DEF Joint
  <2>2. ASSUME NEW j \in Joint(HoldingToo(i), S) PROVE j \in E
    <3>1. PICK x \in S : j \in HoldingToo(i)[x]
      BY <2>2 DEF Joint
    <3>2. j \in Ids /\ i # j /\ apps[i][x] = apps[j][x]
      BY <3>1 DEF HoldingToo, Holders
    <3>3. x \in LinkedBy(i, j)
      BY <3>2 DEF LinkedBy
    <3> QED
      BY <1>5, <1>6, <3>2, <3>3 DEF cooccurrence, Adjacent
  <2> QED
    BY <2>1, <2>2
<1>9. PICK a : a = Summed(OthersBy(i), Attrs)
  OBVIOUS
<1>10. PICK r : r = Summed(OthersBy(i), S)
  OBVIOUS
<1>11. IsFiniteSet(D) /\ Cardinality(D) <= a
  BY <1>3, <1>4, <1>7, <1>9, JointAtMost
<1>12. IsFiniteSet(E) /\ Cardinality(E) <= r
  BY <1>2, <1>3, <1>4, <1>8, <1>10, JointAtMost
<1>13. r <= a
  <2>1. PICK O : O = Attrs \ S
    OBVIOUS
  <2>2. S \cup O = Attrs /\ S \cap O = {} /\ IsFiniteSet(O) /\ O \in SUBSET Attrs
    BY <1>3, <2>1
  <2>3. \A x \in S \cup O : OthersBy(i)[x] \in Int
    BY <1>4, <2>2
  <2>4. Summed(OthersBy(i), S \cup O) = Summed(OthersBy(i), S) + Summed(OthersBy(i), O)
    BY <1>3, <2>2, <2>3, SumJoins
  <2>5. Summed(OthersBy(i), S) \in Nat /\ Summed(OthersBy(i), O) \in Nat
    BY <1>3, <1>4, <2>2, SumOfNaturals
  <2>6. PICK u \in Nat, v \in Nat :
          u = Summed(OthersBy(i), S) /\ v = Summed(OthersBy(i), O)
    BY <2>5
  <2>7. a = Summed(OthersBy(i), S \cup O)
    BY <1>9, <2>2
  <2> QED
    BY <1>10, <2>4, <2>6, <2>7
<1>14. PICK c : c = Cardinality(Component(Ids, i))
  OBVIOUS
<1>15. Cardinality(D) < c
  <2>1. PICK Q : Q = Component(Ids, i)
    OBVIOUS
  <2>2. IsFiniteSet(Ids)
    BY <1>1, IdsAre
  <2>3. Q \in SUBSET Ids /\ i \in Q /\ Closed(Q, Ids)
    BY <2>1, <2>2, ComponentIs
  <2>4. D \cup {i} \in SUBSET Q /\ i \notin D
    BY <1>5, <2>3 DEF cooccurrence, Closed, Adjacent
  <2>5. IsFiniteSet(Q) /\ Cardinality(Q) \in Nat
    BY <1>1, <2>3, IdsAre
  <2>6. Cardinality(D \cup {i}) <= Cardinality(Q)
    BY <2>4, <2>5, FS_Subset
  <2>7. Cardinality(D \cup {i}) = Cardinality(D) + 1
    BY <1>11, <2>4, FS_AddElement
  <2>8. Cardinality(D) \in Nat
    BY <1>11, FS_CardinalityType
  <2> QED
    BY <1>14, <2>1, <2>5, <2>6, <2>7, <2>8
<1>16. PICK b : b = baseline_scores(i)
  OBVIOUS
<1>17. b.degree = Cardinality(D) /\ b.component_size = c
  BY <1>5, <1>14, <1>16 DEF baseline_scores
<1>18. b.attr_multiplicity = a
  <2>1. b.attr_multiplicity = OthersSum(i, Attrs)
    BY <1>16 DEF baseline_scores, OthersSum
  <2> QED
    BY <1>1, <1>9, <2>1, OthersSumIs
<1>19. b.rare_counted = r
  <2>1. b.rare_counted = OthersSum(i, S)
    BY <1>2, <1>16 DEF baseline_scores, OthersSum
  <2> QED
    BY <1>1, <1>10, <2>1, OthersSumIs
<1>20. b.rare_degree = Cardinality(E)
  BY <1>2, <1>5, <1>6, <1>16 DEF baseline_scores
<1> QED
  BY <1>11, <1>12, <1>13, <1>15, <1>16, <1>17, <1>18, <1>19, <1>20

\* What the queue escalates is rare sharing, and what it says of a candidate
\* is true of its applications (synthetic_identity.generate,
\* identity_case.recommend, identity_features.build,
\* eval_identity_background.baseline_scores).
THEOREM OnlyRareSharingEscalates == IdentitySpec => []EvidenceIsRareSharing
<1>1. IdentityInv => EvidenceIsRareSharing
  <2> SUFFICES ASSUME IdentityInv PROVE EvidenceIsRareSharing
    OBVIOUS
  <2>1. IdentityTypeOK
    BY DEF IdentityInv, IdentityTyped, IdentityTypeOK
  <2>2. OnlyPooledValuesCross
    BY DEF IdentityInv
  <2> QED
    BY <2>1, <2>2, CrowdsNeverEscalate, FeaturesAgree, BaselinesAgree DEF EvidenceIsRareSharing
<1> QED
  BY <1>1, IdentityStarts, IdentityMoves, PTL DEF IdentitySpec

-----------------------------------------------------------------------------
(* Ingestion.                                                              *)

\* The stable sort by time.
LEMMA SortedIs ==
  ASSUME NEW T, \A e \in T : e.ts \in Int, NEW s \in Seq(T)
  PROVE  /\ Sorted(s) \in Seq(T) /\ Len(Sorted(s)) = Len(s)
         /\ \A j, k \in DOMAIN s : j < k => Sorted(s)[j].ts <= Sorted(s)[k].ts
         /\ \E h \in [DOMAIN s -> DOMAIN s] :
              /\ \A i \in DOMAIN s : Sorted(s)[h[i]] = s[i]
              /\ \A i, j \in DOMAIN s : h[i] = h[j] => i = j
              /\ \A k \in DOMAIN s : \E i \in DOMAIN s : h[i] = k
              /\ \A i, j \in DOMAIN s : i < j /\ s[i].ts <= s[j].ts => h[i] < h[j]
<1>1. PICK n \in Nat : n = Len(s)
  OBVIOUS
<1>2. DOMAIN s = 1..n
  BY <1>1
<1>3. PICK key : key = [i \in DOMAIN s |-> s[i].ts]
  OBVIOUS
<1>4. \A i \in DOMAIN s : key[i] = s[i].ts /\ key[i] \in Int
  BY <1>3
<1>5. key \in [DOMAIN s -> Int]
  BY <1>3, <1>4
<1>6. key \in [1..n -> Int]
  BY <1>2, <1>5
<1>7. PICK p : p = SortedBy(s, key)
  OBVIOUS
<1>8. p = Sorted(s)
  BY <1>3, <1>7 DEF Sorted
<1>9. /\ p \in Seq(T) /\ Len(p) = Len(s)
      /\ \A i \in DOMAIN s : Place(i, key) \in DOMAIN s /\ p[Place(i, key)] = s[i]
      /\ \A k \in DOMAIN s : \E i \in DOMAIN s : Place(i, key) = k /\ p[k] = s[i]
  BY <1>5, <1>7, SortedByIs
<1>10. /\ \A i, j \in DOMAIN s : Place(i, key) < Place(j, key) <=> GoesBefore(i, j, key)
       /\ \A i, j \in DOMAIN s : Place(i, key) = Place(j, key) => i = j
  <2>1. /\ \A i, j \in 1..n : Place(i, key) < Place(j, key) <=> GoesBefore(i, j, key)
        /\ \A i, j \in 1..n : Place(i, key) = Place(j, key) => i = j
    BY <1>6, PlacesAre
  <2> QED
    BY <1>2, <2>1
<1>11. PICK h : h = [i \in DOMAIN s |-> Place(i, key)]
  OBVIOUS
<1>12. \A i, j \in DOMAIN s : i < j /\ s[i].ts <= s[j].ts => h[i] < h[j]
  <2>1. ASSUME NEW i \in DOMAIN s, NEW j \in DOMAIN s, i < j, s[i].ts <= s[j].ts
        PROVE  GoesBefore(i, j, key)
    BY <1>4, <2>1 DEF GoesBefore
  <2> QED
    BY <1>10, <1>11, <2>1
<1>13. \A j, k \in DOMAIN s : j < k => p[j].ts <= p[k].ts
  <2>1. ASSUME NEW j \in DOMAIN s, NEW k \in DOMAIN s, j < k PROVE p[j].ts <= p[k].ts
    <3>1. PICK i \in DOMAIN s : Place(i, key) = j /\ p[j] = s[i]
      BY <1>9
    <3>2. PICK l \in DOMAIN s : Place(l, key) = k /\ p[k] = s[l]
      BY <1>9
    <3>3. GoesBefore(i, l, key)
      BY <1>10, <2>1, <3>1, <3>2
    <3>4. key[i] <= key[l]
      BY <1>4, <3>3 DEF GoesBefore
    <3> QED
      BY <1>4, <3>1, <3>2, <3>4
  <2> QED
    BY <2>1
<1>14. h \in [DOMAIN s -> DOMAIN s] /\ (\A i \in DOMAIN s : p[h[i]] = s[i])
       /\ (\A i, j \in DOMAIN s : h[i] = h[j] => i = j)
       /\ \A k \in DOMAIN s : \E i \in DOMAIN s : h[i] = k
  BY <1>9, <1>10, <1>11
<1> QED
  BY <1>8, <1>9, <1>12, <1>13, <1>14

LEMMA SortedStays ==
  ASSUME NEW T, \A e \in T : e.ts \in Int, NEW s \in Seq(T),
         \A i, j \in DOMAIN s : i < j => s[i].ts <= s[j].ts
  PROVE  Sorted(s) = s
<1>1. PICK n \in Nat : n = Len(s)
  OBVIOUS
<1>2. PICK I : I = 1..n
  OBVIOUS
<1>3. DOMAIN s = I
  BY <1>1, <1>2
<1>4. PICK p : p = Sorted(s)
  OBVIOUS
<1>5. PICK h \in [I -> I] :
        /\ \A i \in I : p[h[i]] = s[i]
        /\ \A k \in I : \E i \in I : h[i] = k
        /\ \A i, j \in I : i < j /\ s[i].ts <= s[j].ts => h[i] < h[j]
  <2>1. \E f \in [DOMAIN s -> DOMAIN s] :
          /\ \A i \in DOMAIN s : Sorted(s)[f[i]] = s[i]
          /\ \A i, j \in DOMAIN s : f[i] = f[j] => i = j
          /\ \A k \in DOMAIN s : \E i \in DOMAIN s : f[i] = k
          /\ \A i, j \in DOMAIN s : i < j /\ s[i].ts <= s[j].ts => f[i] < f[j]
    BY SortedIs, Zenon
  <2> QED
    BY <1>3, <1>4, <2>1
<1>6. Carries(h, I, I)
  <2>1. \A i, j \in I : i < j => h[i] < h[j]
    BY <1>3, <1>5
  <2> QED
    BY <1>5, <2>1 DEF Carries
<1>7. p \in Seq(T) /\ Len(p) = n
  BY <1>1, <1>4, SortedIs
<1>8. \A k \in I : h[k] = k
  <2>1. I \in SUBSET (1..n) /\ I \in SUBSET Int
    BY <1>2
  <2>2. \A k \in 1..Cardinality(I) : Nth(k, I) = h[Nth(k, I)]
    BY <1>6, <2>1, Carried
  <2>3. Cardinality(I) = n
    BY <1>2, UpTo
  <2>4. \A k \in I : Nth(k, I) = k
    BY <1>2, AllPlaces
  <2> QED
    BY <1>2, <2>2, <2>3, <2>4
<1>9. \A k \in I : p[k] = s[k]
  BY <1>5, <1>8
<1> QED
  BY <1>1, <1>2, <1>3, <1>4, <1>7, <1>9

\* The parser of the patterns.
PatternRow == PatternRows \cup {Bad}

BlockType == [typology : Typologies \cup {"none"}, rows : Seq(PatternRow)]

RingType == [typology : Typologies, edges : Seq(PatternRow)]

ReportType ==
  [blocks_begun : Nat, blocks_closed : Nat, rings_emitted : Nat,
   edges_emitted : Nat, empty_blocks : Nat, nested_begins : Nat,
   unmatched_ends : Nat, unclosed_at_eof : Nat, orphan_rows : Nat,
   malformed_rows : Nat, typology_mismatches : Nat, lines : Nat, rows : Nat]

\* The edges of all rings: the sum that the report is compared with.
RingSum(rs) == MapThenSumSet(LAMBDA n : Len(rs[n].edges), DOMAIN rs)

SizesOf(rs) == [n \in DOMAIN rs |-> Len(rs[n].edges)]

RingStep(rs, g, s) ==
  IF s = {} THEN 0 ELSE Len(rs[Taken(s)].edges) + g[s \ {Taken(s)}]

RingFold(rs, g) == g = [s \in SUBSET DOMAIN rs |-> RingStep(rs, g, s)]

LEMMA RingSumIs ==
  ASSUME NEW rs \in Seq(RingType)
  PROVE  /\ IsFiniteSet(DOMAIN rs) /\ \A n \in DOMAIN rs : SizesOf(rs)[n] \in Nat
         /\ RingSum(rs) = Summed(SizesOf(rs), DOMAIN rs)
<1>1. PICK S : S = DOMAIN rs
  OBVIOUS
<1>2. IsFiniteSet(S)
  <2>1. Len(rs) \in Nat
    OBVIOUS
  <2>2. PICK k \in Nat : k = Len(rs)
    BY <2>1
  <2>3. IsFiniteSet(1..k)
    BY UpTo
  <2> QED
    BY <1>1, <2>2, <2>3
<1>3. PICK f : f = SizesOf(rs)
  OBVIOUS
<1>4. \A n \in S : f[n] = Len(rs[n].edges) /\ f[n] \in Nat
  <2>1. \A n \in S : rs[n] \in RingType
    BY <1>1
  <2>2. \A n \in S : rs[n].edges \in Seq(PatternRow)
    BY <2>1 DEF RingType
  <2>3. \A n \in S : Len(rs[n].edges) \in Nat
    BY <2>2
  <2> QED
    BY <1>1, <1>3, <2>3 DEF SizesOf
<1>5. RingSum(rs) = (CHOOSE g : RingFold(rs, g))[S]
  BY <1>1 DEF RingSum, MapThenSumSet, MapThenFoldSet, RingFold, RingStep, Taken
<1>6. ASSUME NEW g, NEW s \in SUBSET S PROVE RingStep(rs, g, s) = SumStep(f, g, s)
  <2>1. CASE s # {}
    <3>1. f[Taken(s)] = Len(rs[Taken(s)].edges)
      BY <1>4, <2>1, TakenIsMember
    <3> QED
      BY <2>1, <3>1 DEF RingStep, SumStep
  <2> QED
    BY <2>1 DEF RingStep, SumStep
<1>7. \A g : RingFold(rs, g) <=> SumFold(f, g, S)
  BY <1>1, <1>6 DEF RingFold, SumFold
<1>8. PICK g : g = CHOOSE h : RingFold(rs, h)
  OBVIOUS
<1>9. \A n \in S : f[n] \in Int
  BY <1>4
<1>10. \E h : RingFold(rs, h)
  BY <1>2, <1>7, <1>9, SumFoldExists
<1>11. RingFold(rs, g)
  BY <1>8, <1>10
<1>12. SumFold(f, g, S)
  BY <1>7, <1>11
<1>13. g[S] = Summed(f, S)
  BY <1>2, <1>9, <1>12, RecursionIsSum
<1> QED
  BY <1>1, <1>2, <1>3, <1>4, <1>5, <1>8, <1>13

LEMMA RingSumGrows ==
  ASSUME NEW rs \in Seq(RingType), NEW r \in RingType
  PROVE  /\ RingSum(rs) \in Nat
         /\ RingSum(Append(rs, r)) = RingSum(rs) + Len(r.edges)
<1>1. PICK n \in Nat : n = Len(rs)
  OBVIOUS
<1>2. PICK more \in Seq(RingType) : more = Append(rs, r)
  <2>1. Append(rs, r) \in Seq(RingType)
    BY AppendProperties, Zenon
  <2> QED
    BY <2>1
<1>3. PICK S : S = DOMAIN rs
  OBVIOUS
<1>4. PICK f : f = SizesOf(rs)
  OBVIOUS
<1>5. PICK g : g = SizesOf(more)
  OBVIOUS
<1>6. IsFiniteSet(S) /\ (\A m \in S : f[m] \in Nat) /\ RingSum(rs) = Summed(f, S)
  BY <1>3, <1>4, RingSumIs
<1>7. (\A m \in DOMAIN more : g[m] \in Nat) /\ RingSum(more) = Summed(g, DOMAIN more)
  BY <1>5, RingSumIs
<1>8. DOMAIN more = S \cup {n + 1} /\ n + 1 \notin S
  BY <1>1, <1>2, <1>3
<1>9. \A m \in S : f[m] = g[m] /\ f[m] \in Int
  <2>1. \A m \in S : more[m] = rs[m]
    BY <1>1, <1>2, <1>3
  <2> QED
    BY <1>3, <1>4, <1>5, <1>6, <1>8, <2>1 DEF SizesOf
<1>10. g[n + 1] = Len(r.edges)
  BY <1>1, <1>2, <1>5, <1>8 DEF SizesOf
<1>11. Summed(f, S) = Summed(g, S)
  BY <1>6, <1>9, SumAgrees
<1>12. \A m \in S \cup {n + 1} : g[m] \in Int
  BY <1>7, <1>8
<1>13. Summed(g, S \cup {n + 1}) = Summed(g, S) + g[n + 1]
  BY <1>6, <1>8, <1>12, SumAdds
<1>14. Summed(f, S) \in Nat
  BY <1>6, SumOfNaturals
<1> QED
  BY <1>2, <1>6, <1>7, <1>8, <1>10, <1>11, <1>13, <1>14

LEMMA EdgesAre ==
  ASSUME NEW s \in Seq(PatternRow)
  PROVE  Edges(s) \in Seq(PatternRow) /\ Len(Edges(s)) \in 0..Len(s)
<1>1. PICK n \in Nat : n = Len(s)
  OBVIOUS
<1>2. DOMAIN s = 1..n
  BY <1>1
<1>3. PICK P \in SUBSET (1..n) : P = {m \in DOMAIN s : s[m] \in ToSet(s) \ {Bad}}
  BY <1>2
<1>4. Cardinality(P) \in Nat /\ Cardinality(P) <= n
  BY PlacesInOrder
<1>5. PickedAt(s, P) \in Seq(PatternRow) /\ Len(PickedAt(s, P)) = Cardinality(P)
  BY <1>2, PickedIs
<1>6. Edges(s) = PickedAt(s, P)
  BY <1>3 DEF Edges, Only
<1> QED
  BY <1>1, <1>4, <1>5, <1>6

ParserTyped ==
  /\ parser \in BlockType /\ rep \in ReportType /\ rings \in Seq(RingType)
  /\ \A n \in DOMAIN rings : rings[n].edges # <<>>
  /\ ~InBlock => parser.rows = <<>>

\* The report balances with m rows read, open blocks (none or one) and due
\* ends.
RowsBalance(r, m) ==
  r.rows = r.edges_emitted + r.orphan_rows + r.malformed_rows + m

BlocksBalance(r, open) == r.blocks_begun = r.rings_emitted + r.empty_blocks + open

EndsBalance(r, due) ==
  r.blocks_begun + r.unmatched_ends =
    r.blocks_closed + r.nested_begins + r.unclosed_at_eof + due

RingsBalance(r, rs) == r.edges_emitted = RingSum(rs) /\ r.rings_emitted = Len(rs)

Balance(r, m, open, due, rs) ==
  /\ RowsBalance(r, m) /\ BlocksBalance(r, open) /\ EndsBalance(r, due)
  /\ RingsBalance(r, rs)

\* A flush moves the open rows, e of them edges, and the open block; z is one
\* when the block is empty.
Flushes(f, r, m, rs, more, e, z) ==
  /\ f \in ReportType /\ more \in Seq(RingType)
  /\ \A n \in DOMAIN more : more[n].edges # <<>>
  /\ e \in 0..m /\ z \in 0..1
  /\ f.edges_emitted = r.edges_emitted + e
  /\ f.malformed_rows = r.malformed_rows + m - e
  /\ f.empty_blocks = r.empty_blocks + z
  /\ f.rings_emitted = r.rings_emitted + (1 - z)
  /\ f.rows = r.rows /\ f.orphan_rows = r.orphan_rows /\ f.lines = r.lines
  /\ f.blocks_begun = r.blocks_begun /\ f.blocks_closed = r.blocks_closed
  /\ f.nested_begins = r.nested_begins /\ f.unmatched_ends = r.unmatched_ends
  /\ f.unclosed_at_eof = r.unclosed_at_eof
  /\ RingSum(more) = RingSum(rs) + e
  /\ Len(more) = Len(rs) + (1 - z)

LEMMA CountIs == \A b : Count(b) \in 0..1
BY DEF Count

LEMMA FlushIs ==
  ASSUME ParserTyped, InBlock, NEW closing, NEW r \in ReportType
  PROVE  \E e, z : Flushes(flush(closing, r), r, Len(parser.rows), rings, Flushed, e, z)
<1>1. PICK s \in Seq(PatternRow) : s = parser.rows
  BY DEF ParserTyped, BlockType
<1>2. PICK t \in Typologies : t = parser.typology
  BY DEF ParserTyped, BlockType, InBlock
<1>3. PICK m \in Nat : m = Len(s)
  OBVIOUS
<1>4. PICK E \in Seq(PatternRow) : E = Edges(s)
  BY EdgesAre
<1>5. PICK e \in 0..m : e = Len(E)
  BY <1>3, <1>4, EdgesAre
<1>6. PICK y \in 0..1 : y = Count(closing \notin {"none", parser.typology})
  BY CountIs
<1>7. PICK z \in 0..1 : z = IF E = <<>> THEN 1 ELSE 0
  OBVIOUS
<1>8. Count(E = <<>>) = z /\ Count(E # <<>>) = 1 - z
  BY <1>7 DEF Count
<1>9. flush(closing, r) =
        [r EXCEPT !.typology_mismatches = @ + y, !.malformed_rows = @ + m - e,
                  !.empty_blocks = @ + z, !.edges_emitted = @ + e,
                  !.rings_emitted = @ + (1 - z)]
  BY <1>1, <1>3, <1>4, <1>5, <1>6, <1>8 DEF flush
<1>10. PICK f : f = flush(closing, r)
  OBVIOUS
<1>11. /\ f.edges_emitted = r.edges_emitted + e
       /\ f.malformed_rows = r.malformed_rows + m - e
       /\ f.empty_blocks = r.empty_blocks + z
       /\ f.rings_emitted = r.rings_emitted + (1 - z)
       /\ f.typology_mismatches = r.typology_mismatches + y
       /\ f.rows = r.rows /\ f.orphan_rows = r.orphan_rows /\ f.lines = r.lines
       /\ f.blocks_begun = r.blocks_begun /\ f.blocks_closed = r.blocks_closed
       /\ f.nested_begins = r.nested_begins /\ f.unmatched_ends = r.unmatched_ends
       /\ f.unclosed_at_eof = r.unclosed_at_eof
  BY <1>9, <1>10 DEF ReportType
<1>12. f \in ReportType
  <2>1. /\ r.typology_mismatches + y \in Nat /\ r.malformed_rows + m - e \in Nat
        /\ r.empty_blocks + z \in Nat /\ r.edges_emitted + e \in Nat
        /\ r.rings_emitted + (1 - z) \in Nat
    <3>1. /\ r.typology_mismatches \in Nat /\ r.malformed_rows \in Nat
          /\ r.empty_blocks \in Nat /\ r.edges_emitted \in Nat /\ r.rings_emitted \in Nat
      BY DEF ReportType
    <3>2. r.typology_mismatches + y \in Nat /\ r.empty_blocks + z \in Nat
      BY <3>1
    <3>3. r.malformed_rows + m - e \in Nat /\ r.edges_emitted + e \in Nat
      BY <3>1
    <3>4. r.rings_emitted + (1 - z) \in Nat
      BY <3>1
    <3> QED
      BY <3>2, <3>3, <3>4
  <2> QED
    BY <1>9, <1>10, <2>1 DEF ReportType
<1>13. PICK more : more = Flushed
  OBVIOUS
<1>14. /\ more \in Seq(RingType) /\ (\A n \in DOMAIN more : more[n].edges # <<>>)
       /\ RingSum(more) = RingSum(rings) + e /\ Len(more) = Len(rings) + (1 - z)
  <2>1. rings \in Seq(RingType) /\ \A n \in DOMAIN rings : rings[n].edges # <<>>
    BY DEF ParserTyped
  <2>2. CASE E = <<>>
    <3>1. more = rings /\ e = 0 /\ z = 1
      BY <1>1, <1>4, <1>5, <1>7, <1>13, <2>2 DEF Flushed
    <3>2. [typology |-> t, edges |-> E] \in RingType
      BY DEF RingType
    <3>3. RingSum(rings) \in Nat
      BY <2>1, <3>2, RingSumGrows
    <3> QED
      BY <2>1, <3>1, <3>3
  <2>3. CASE E # <<>>
    <3>1. PICK ring \in RingType : ring = [typology |-> t, edges |-> E]
      BY DEF RingType
    <3>2. more = Append(rings, ring) /\ z = 0
      BY <1>1, <1>2, <1>4, <1>7, <1>13, <2>3, <3>1 DEF Flushed
    <3>3. RingSum(Append(rings, ring)) = RingSum(rings) + Len(ring.edges)
      BY <2>1, RingSumGrows
    <3>4. ring.edges = E
      BY <3>1
    <3>5. /\ Append(rings, ring) \in Seq(RingType)
          /\ Len(Append(rings, ring)) = Len(rings) + 1
          /\ \A i \in 1..Len(rings) : Append(rings, ring)[i] = rings[i]
          /\ Append(rings, ring)[Len(rings) + 1] = ring
      <4>1. rings \in Seq(RingType)
        BY <2>1
      <4>2. Append(rings, ring) \in Seq(RingType)
        BY <4>1, AppendProperties, Zenon
      <4> QED
        BY <4>1, <4>2
    <3>6. ASSUME NEW n \in DOMAIN more PROVE more[n].edges # <<>>
      <4>1. n \in 1..(Len(rings) + 1) /\ Len(rings) \in Nat /\ DOMAIN rings = 1..Len(rings)
        BY <2>1, <3>2, <3>5
      <4>2. CASE n = Len(rings) + 1
        <5>1. more[n] = ring
          BY <3>2, <3>5, <4>2
        <5> QED
          BY <2>3, <3>4, <5>1
      <4>3. CASE n # Len(rings) + 1
        BY <2>1, <3>2, <3>5, <4>1, <4>3
      <4> QED
        BY <4>2, <4>3
    <3> QED
      BY <1>5, <3>2, <3>3, <3>4, <3>5, <3>6
  <2> QED
    BY <2>2, <2>3
<1>15. Flushes(f, r, m, rings, more, e, z)
  BY <1>11, <1>12, <1>14 DEF Flushes
<1> QED
  BY <1>1, <1>3, <1>10, <1>13, <1>15

\* A file that strict parsing accepts lost nothing.
NothingLost == rep.rows = rep.edges_emitted /\ rep.blocks_closed = Len(rings)

ParserHolds ==
  /\ ParserTyped
  /\ Balance(rep, Len(parser.rows), Count(InBlock), Count(InBlock), rings)

ParserInv ==
  /\ ParserHolds
  /\ stage \notin {"patterns", "refused"} => NothingLost

LEMMA ReadIs ==
  ASSUME NEW r \in ReportType
  PROVE  /\ Read(r) \in ReportType
         /\ Read(r).edges_emitted = r.edges_emitted /\ Read(r).malformed_rows = r.malformed_rows
         /\ Read(r).empty_blocks = r.empty_blocks /\ Read(r).rings_emitted = r.rings_emitted
         /\ Read(r).rows = r.rows /\ Read(r).orphan_rows = r.orphan_rows
         /\ Read(r).blocks_begun = r.blocks_begun /\ Read(r).blocks_closed = r.blocks_closed
         /\ Read(r).nested_begins = r.nested_begins
         /\ Read(r).unmatched_ends = r.unmatched_ends
         /\ Read(r).unclosed_at_eof = r.unclosed_at_eof
BY DEF Read, ReportType

\* One more of a kind.
LEMMA OneMore ==
  ASSUME NEW r \in ReportType
  PROVE  /\ [r EXCEPT !.blocks_begun = @ + 1] \in ReportType
         /\ [r EXCEPT !.blocks_closed = @ + 1] \in ReportType
         /\ [r EXCEPT !.nested_begins = @ + 1] \in ReportType
         /\ [r EXCEPT !.unmatched_ends = @ + 1] \in ReportType
         /\ [r EXCEPT !.orphan_rows = @ + 1] \in ReportType
         /\ [r EXCEPT !.rows = @ + 1] \in ReportType
         /\ [r EXCEPT !.unclosed_at_eof = @ + 1] \in ReportType
<1>1. [r EXCEPT !.blocks_begun = @ + 1] \in ReportType
  <2>1. PICK v \in Nat : v = r.blocks_begun + 1
    BY DEF ReportType
  <2>2. [r EXCEPT !.blocks_begun = v] \in ReportType
    BY DEF ReportType
  <2> QED
    BY <2>1, <2>2
<1>2. [r EXCEPT !.blocks_closed = @ + 1] \in ReportType
  <2>1. PICK v \in Nat : v = r.blocks_closed + 1
    BY DEF ReportType
  <2>2. [r EXCEPT !.blocks_closed = v] \in ReportType
    BY DEF ReportType
  <2> QED
    BY <2>1, <2>2
<1>3. [r EXCEPT !.nested_begins = @ + 1] \in ReportType
  <2>1. PICK v \in Nat : v = r.nested_begins + 1
    BY DEF ReportType
  <2>2. [r EXCEPT !.nested_begins = v] \in ReportType
    BY DEF ReportType
  <2> QED
    BY <2>1, <2>2
<1>4. [r EXCEPT !.unmatched_ends = @ + 1] \in ReportType
  <2>1. PICK v \in Nat : v = r.unmatched_ends + 1
    BY DEF ReportType
  <2>2. [r EXCEPT !.unmatched_ends = v] \in ReportType
    BY DEF ReportType
  <2> QED
    BY <2>1, <2>2
<1>5. [r EXCEPT !.orphan_rows = @ + 1] \in ReportType
  <2>1. PICK v \in Nat : v = r.orphan_rows + 1
    BY DEF ReportType
  <2>2. [r EXCEPT !.orphan_rows = v] \in ReportType
    BY DEF ReportType
  <2> QED
    BY <2>1, <2>2
<1>6. [r EXCEPT !.rows = @ + 1] \in ReportType
  <2>1. PICK v \in Nat : v = r.rows + 1
    BY DEF ReportType
  <2>2. [r EXCEPT !.rows = v] \in ReportType
    BY DEF ReportType
  <2> QED
    BY <2>1, <2>2
<1>7. [r EXCEPT !.unclosed_at_eof = @ + 1] \in ReportType
  <2>1. PICK v \in Nat : v = r.unclosed_at_eof + 1
    BY DEF ReportType
  <2>2. [r EXCEPT !.unclosed_at_eof = v] \in ReportType
    BY DEF ReportType
  <2> QED
    BY <2>1, <2>2
<1> QED
  BY <1>1, <1>2, <1>3, <1>4, <1>5, <1>6, <1>7

LEMMA ReportIs ==
  ASSUME NEW r \in ReportType
  PROVE  /\ r.rows \in Nat /\ r.edges_emitted \in Nat /\ r.orphan_rows \in Nat
         /\ r.malformed_rows \in Nat /\ r.blocks_begun \in Nat /\ r.rings_emitted \in Nat
         /\ r.empty_blocks \in Nat /\ r.unmatched_ends \in Nat /\ r.blocks_closed \in Nat
         /\ r.nested_begins \in Nat /\ r.unclosed_at_eof \in Nat
         /\ r.typology_mismatches \in Nat
BY DEF ReportType

\* What a flush of the open block leaves: the sums still hold, with the end
\* of the block due.
Settled(f, rs) ==
  /\ f \in ReportType /\ rs \in Seq(RingType)
  /\ \A n \in DOMAIN rs : rs[n].edges # <<>>
  /\ Balance(f, 0, 0, 1, rs)

LEMMA FlushSettles ==
  ASSUME ParserInv, InBlock, NEW closing, NEW r \in {rep, Read(rep)}
  PROVE  Settled(flush(closing, r), Flushed)
<1>1. ParserTyped /\ Balance(rep, Len(parser.rows), 1, 1, rings)
  BY DEF ParserInv, ParserHolds, Count
<1>2. rep \in ReportType /\ r \in ReportType
  BY <1>1, ReadIs DEF ParserTyped
<1>3. PICK m \in Nat : m = Len(parser.rows)
  BY <1>1 DEF ParserTyped, BlockType
<1>4. PICK k \in Nat : k = Len(rings)
  BY <1>1 DEF ParserTyped
<1>5. Balance(r, m, 1, 1, rings)
  <2>1. CASE r = rep
    BY <1>1, <1>3, <2>1
  <2>2. CASE r = Read(rep)
    BY <1>1, <1>2, <1>3, <2>2, ReadIs
       DEF Balance, RowsBalance, BlocksBalance, EndsBalance, RingsBalance
  <2> QED
    BY <2>1, <2>2
<1>6. PICK f : f = flush(closing, r)
  OBVIOUS
<1>7. PICK more : more = Flushed
  OBVIOUS
<1>8. PICK e, z : Flushes(f, r, m, rings, more, e, z)
  BY <1>1, <1>2, <1>3, <1>6, <1>7, FlushIs
<1>9. f \in ReportType /\ more \in Seq(RingType) /\ (\A n \in DOMAIN more : more[n].edges # <<>>)
      /\ e \in 0..m /\ z \in 0..1
  BY <1>8 DEF Flushes
<1>10. PICK k2 \in Nat : k2 = Len(more)
  BY <1>9
<1>11. /\ r.rows \in Nat /\ r.edges_emitted \in Nat /\ r.orphan_rows \in Nat
       /\ r.malformed_rows \in Nat /\ r.blocks_begun \in Nat /\ r.rings_emitted \in Nat
       /\ r.empty_blocks \in Nat /\ r.unmatched_ends \in Nat /\ r.blocks_closed \in Nat
       /\ r.nested_begins \in Nat /\ r.unclosed_at_eof \in Nat
  BY <1>2 DEF ReportType
<1>12. f.edges_emitted \in Nat /\ f.malformed_rows \in Nat /\ f.rings_emitted \in Nat
       /\ f.empty_blocks \in Nat
  BY <1>9 DEF ReportType
<1>13. RowsBalance(f, 0)
  <2>1. /\ f.rows = r.rows /\ f.orphan_rows = r.orphan_rows
        /\ f.edges_emitted = r.edges_emitted + e /\ f.malformed_rows = r.malformed_rows + m - e
    BY <1>8 DEF Flushes
  <2>2. r.rows = r.edges_emitted + r.orphan_rows + r.malformed_rows + m
    BY <1>5 DEF Balance, RowsBalance
  <2>3. e \in 0..m
    BY <1>9
  <2> QED
    BY <1>11, <2>1, <2>2, <2>3 DEF RowsBalance
<1>14. BlocksBalance(f, 0)
  <2>1. /\ f.blocks_begun = r.blocks_begun /\ f.empty_blocks = r.empty_blocks + z
        /\ f.rings_emitted = r.rings_emitted + (1 - z)
    BY <1>8 DEF Flushes
  <2>2. r.blocks_begun = r.rings_emitted + r.empty_blocks + 1
    BY <1>5 DEF Balance, BlocksBalance
  <2> QED
    BY <1>9, <1>11, <2>1, <2>2 DEF BlocksBalance
<1>15. EndsBalance(f, 1)
  BY <1>5, <1>8 DEF Balance, EndsBalance, Flushes
<1>16. RingsBalance(f, more)
  <2>1. RingSum(more) = RingSum(rings) + e /\ Len(more) = k + (1 - z)
        /\ f.edges_emitted = r.edges_emitted + e /\ f.rings_emitted = r.rings_emitted + (1 - z)
    BY <1>4, <1>8 DEF Flushes
  <2>2. RingSum(rings) = r.edges_emitted /\ k = r.rings_emitted
    BY <1>4, <1>5 DEF Balance, RingsBalance
  <2> QED
    BY <2>1, <2>2 DEF RingsBalance
<1> QED
  BY <1>6, <1>7, <1>9, <1>13, <1>14, <1>15, <1>16 DEF Settled, Balance

LEMMA ParserSteps ==
  ASSUME ParserInv, load_rings
  PROVE  ParserInv'
<1>1. ParserTyped /\ Balance(rep, Len(parser.rows), Count(InBlock), Count(InBlock), rings)
      /\ stage = "patterns" /\ stage' = stage
  BY DEF ParserInv, ParserHolds, load_rings
<1>2. /\ parser \in BlockType /\ rep \in ReportType /\ rings \in Seq(RingType)
      /\ \A n \in DOMAIN rings : rings[n].edges # <<>>
      /\ ~InBlock => parser.rows = <<>>
  BY <1>1 DEF ParserTyped
<1>3. SUFFICES ParserHolds'
  BY <1>1 DEF ParserInv, ParserHolds
<1>4. PICK r \in ReportType : r = Read(rep)
  BY <1>2, ReadIs
<1>5. /\ r.edges_emitted = rep.edges_emitted /\ r.malformed_rows = rep.malformed_rows
      /\ r.empty_blocks = rep.empty_blocks /\ r.rings_emitted = rep.rings_emitted
      /\ r.rows = rep.rows /\ r.orphan_rows = rep.orphan_rows
      /\ r.blocks_begun = rep.blocks_begun /\ r.blocks_closed = rep.blocks_closed
      /\ r.nested_begins = rep.nested_begins /\ r.unmatched_ends = rep.unmatched_ends
      /\ r.unclosed_at_eof = rep.unclosed_at_eof
  BY <1>2, <1>4, ReadIs
<1>6. /\ r.rows \in Nat /\ r.edges_emitted \in Nat /\ r.orphan_rows \in Nat
      /\ r.malformed_rows \in Nat /\ r.blocks_begun \in Nat /\ r.rings_emitted \in Nat
      /\ r.empty_blocks \in Nat /\ r.unmatched_ends \in Nat /\ r.blocks_closed \in Nat
      /\ r.nested_begins \in Nat /\ r.unclosed_at_eof \in Nat
  BY DEF ReportType
<1>7. InBlock => \A closing : Settled(flush(closing, r), Flushed)
  BY <1>4, FlushSettles
<1>8. ~InBlock => Count(InBlock) = 0
  BY DEF Count
<1>9. PICK m \in Nat : m = Len(parser.rows)
  BY <1>2 DEF BlockType
<1>10. ~InBlock => Balance(r, 0, 0, 0, rings)
  <2>1. ASSUME ~InBlock PROVE Balance(rep, 0, 0, 0, rings)
    <3>1. Len(parser.rows) = 0 /\ Count(InBlock) = 0
      BY <1>2, <1>8, <2>1
    <3> QED
      BY <1>1, <3>1
  <2> QED
    BY <1>5, <2>1 DEF Balance, RowsBalance, BlocksBalance, EndsBalance, RingsBalance
<1>11. InBlock => Balance(r, m, 1, 1, rings)
  <2>1. ASSUME InBlock PROVE Balance(rep, m, 1, 1, rings)
    <3>1. Count(InBlock) = 1
      BY <2>1 DEF Count
    <3> QED
      BY <1>1, <1>9, <3>1
  <2> QED
    BY <1>5, <2>1 DEF Balance, RowsBalance, BlocksBalance, EndsBalance, RingsBalance
<1>12. ASSUME NEW t \in Typologies, Begin(t)
       PROVE  ParserHolds'
  <2>1. parser' = [typology |-> t, rows |-> <<>>] /\ t # "none"
    BY <1>12, IngestionAssumption DEF Begin
  <2>2. parser' \in BlockType /\ Len(parser'.rows) = 0 /\ Count(InBlock') = 1
    BY <2>1 DEF BlockType, Count, InBlock
  <2>3. CASE InBlock
    <3>1. PICK f : f = flush("none", r)
      OBVIOUS
    <3>2. Settled(f, rings')
      BY <1>7, <1>12, <2>3, <3>1 DEF Begin
    <3>3. rep' = [f EXCEPT !.nested_begins = @ + 1, !.blocks_begun = @ + 1]
      BY <1>4, <1>12, <2>3, <3>1 DEF Begin
    <3>4. f \in ReportType /\ rings' \in Seq(RingType) /\ \A n \in DOMAIN rings' : rings'[n].edges # <<>>
      BY <3>2 DEF Settled
    <3>5. /\ f.rows \in Nat /\ f.edges_emitted \in Nat /\ f.orphan_rows \in Nat
          /\ f.malformed_rows \in Nat /\ f.blocks_begun \in Nat /\ f.rings_emitted \in Nat
          /\ f.empty_blocks \in Nat /\ f.unmatched_ends \in Nat /\ f.blocks_closed \in Nat
          /\ f.nested_begins \in Nat /\ f.unclosed_at_eof \in Nat
      BY <3>4 DEF ReportType
    <3>6. rep' \in ReportType
      <4>1. PICK g \in ReportType : g = [f EXCEPT !.nested_begins = @ + 1]
        BY <3>4, OneMore
      <4>2. rep' = [g EXCEPT !.blocks_begun = @ + 1]
        BY <3>3, <4>1
      <4> QED
        BY <4>1, <4>2, OneMore
    <3>7. /\ rep'.rows = f.rows /\ rep'.edges_emitted = f.edges_emitted
          /\ rep'.orphan_rows = f.orphan_rows /\ rep'.malformed_rows = f.malformed_rows
          /\ rep'.blocks_begun = f.blocks_begun + 1 /\ rep'.rings_emitted = f.rings_emitted
          /\ rep'.empty_blocks = f.empty_blocks /\ rep'.unmatched_ends = f.unmatched_ends
          /\ rep'.blocks_closed = f.blocks_closed /\ rep'.nested_begins = f.nested_begins + 1
          /\ rep'.unclosed_at_eof = f.unclosed_at_eof
      BY <3>3, <3>4 DEF ReportType
    <3>8. Balance(rep', 0, 1, 1, rings')
      <4>1. /\ RowsBalance(f, 0) /\ BlocksBalance(f, 0) /\ EndsBalance(f, 1)
            /\ RingsBalance(f, rings')
        BY <3>2 DEF Balance, Settled
      <4>2. RowsBalance(rep', 0)
        BY <4>1, <3>5, <3>7 DEF RowsBalance
      <4>3. BlocksBalance(rep', 1)
        BY <4>1, <3>5, <3>7 DEF BlocksBalance
      <4>4. EndsBalance(rep', 1)
        BY <4>1, <3>5, <3>7 DEF EndsBalance
      <4>5. RingsBalance(rep', rings')
        BY <4>1, <3>5, <3>7 DEF RingsBalance
      <4> QED
        BY <4>2, <4>3, <4>4, <4>5 DEF Balance
    <3> QED
      BY <2>2, <3>4, <3>6, <3>8 DEF ParserTyped, ParserHolds, InBlock
  <2>4. CASE ~InBlock
    <3>1. rep' = [r EXCEPT !.blocks_begun = @ + 1] /\ rings' = rings
      BY <1>4, <1>12, <2>4 DEF Begin
    <3>2. rep' \in ReportType
      BY <3>1, OneMore
    <3>3. /\ rep'.rows = r.rows /\ rep'.edges_emitted = r.edges_emitted
          /\ rep'.orphan_rows = r.orphan_rows /\ rep'.malformed_rows = r.malformed_rows
          /\ rep'.blocks_begun = r.blocks_begun + 1 /\ rep'.rings_emitted = r.rings_emitted
          /\ rep'.empty_blocks = r.empty_blocks /\ rep'.unmatched_ends = r.unmatched_ends
          /\ rep'.blocks_closed = r.blocks_closed /\ rep'.nested_begins = r.nested_begins
          /\ rep'.unclosed_at_eof = r.unclosed_at_eof
      BY <3>1 DEF ReportType
    <3>4. Balance(r, 0, 0, 0, rings)
      BY <1>12, <1>10, <2>4
    <3>5. Balance(rep', 0, 1, 1, rings)
      <4>1. /\ RowsBalance(r, 0) /\ BlocksBalance(r, 0) /\ EndsBalance(r, 0)
            /\ RingsBalance(r, rings)
        BY <3>4 DEF Balance
      <4>2. RowsBalance(rep', 0)
        BY <4>1, <1>6, <3>3 DEF RowsBalance
      <4>3. BlocksBalance(rep', 1)
        BY <4>1, <1>6, <3>3 DEF BlocksBalance
      <4>4. EndsBalance(rep', 1)
        BY <4>1, <1>6, <3>3 DEF EndsBalance
      <4>5. RingsBalance(rep', rings)
        BY <4>1, <1>6, <3>3 DEF RingsBalance
      <4> QED
        BY <4>2, <4>3, <4>4, <4>5 DEF Balance
    <3> QED
      BY <1>2, <2>1, <2>2, <3>1, <3>2, <3>5 DEF ParserTyped, ParserHolds, InBlock
  <2> QED
    BY <2>3, <2>4
<1>13. ASSUME NEW t, End(t)
       PROVE  ParserHolds'
  <2>1. parser' = NoBlock
    BY <1>13 DEF End
  <2>2. /\ parser' \in BlockType /\ Len(parser'.rows) = 0 /\ parser'.rows = <<>>
        /\ Count(InBlock') = 0
    BY <2>1 DEF NoBlock, BlockType, Count, InBlock
  <2>3. CASE InBlock
    <3>1. PICK f : f = flush(t, r)
      OBVIOUS
    <3>2. Settled(f, rings')
      BY <1>7, <1>13, <2>3, <3>1 DEF End
    <3>3. rep' = [f EXCEPT !.blocks_closed = @ + 1]
      BY <1>4, <1>13, <2>3, <3>1 DEF End
    <3>4. f \in ReportType /\ rings' \in Seq(RingType) /\ \A n \in DOMAIN rings' : rings'[n].edges # <<>>
      BY <3>2 DEF Settled
    <3>5. rep' \in ReportType
      BY <3>3, <3>4, OneMore
    <3>6. /\ rep'.rows = f.rows /\ rep'.edges_emitted = f.edges_emitted
          /\ rep'.orphan_rows = f.orphan_rows /\ rep'.malformed_rows = f.malformed_rows
          /\ rep'.blocks_begun = f.blocks_begun /\ rep'.rings_emitted = f.rings_emitted
          /\ rep'.empty_blocks = f.empty_blocks /\ rep'.unmatched_ends = f.unmatched_ends
          /\ rep'.blocks_closed = f.blocks_closed + 1 /\ rep'.nested_begins = f.nested_begins
          /\ rep'.unclosed_at_eof = f.unclosed_at_eof
      BY <3>3, <3>4 DEF ReportType
    <3>7. Balance(rep', 0, 0, 0, rings')
      <4>1. /\ RowsBalance(f, 0) /\ BlocksBalance(f, 0) /\ EndsBalance(f, 1)
            /\ RingsBalance(f, rings')
        BY <3>2 DEF Balance, Settled
      <4>2. /\ f.rows \in Nat /\ f.edges_emitted \in Nat /\ f.orphan_rows \in Nat
            /\ f.malformed_rows \in Nat /\ f.blocks_begun \in Nat /\ f.rings_emitted \in Nat
            /\ f.empty_blocks \in Nat /\ f.unmatched_ends \in Nat /\ f.blocks_closed \in Nat
            /\ f.nested_begins \in Nat /\ f.unclosed_at_eof \in Nat
        BY <3>4 DEF ReportType
      <4>3. RowsBalance(rep', 0)
        BY <4>1, <4>2, <3>6 DEF RowsBalance
      <4>4. BlocksBalance(rep', 0)
        BY <4>1, <4>2, <3>6 DEF BlocksBalance
      <4>5. EndsBalance(rep', 0)
        BY <4>1, <4>2, <3>6 DEF EndsBalance
      <4>6. RingsBalance(rep', rings')
        BY <4>1, <4>2, <3>6 DEF RingsBalance
      <4> QED
        BY <4>3, <4>4, <4>5, <4>6 DEF Balance
    <3> QED
      BY <2>2, <3>4, <3>5, <3>7 DEF ParserTyped, ParserHolds, InBlock
  <2>4. CASE ~InBlock
    <3>1. rep' = [r EXCEPT !.blocks_closed = @ + 1, !.unmatched_ends = @ + 1] /\ rings' = rings
      BY <1>4, <1>13, <2>4 DEF End
    <3>2. rep' \in ReportType
      <4>1. PICK g \in ReportType : g = [r EXCEPT !.blocks_closed = @ + 1]
        BY OneMore
      <4>2. rep' = [g EXCEPT !.unmatched_ends = @ + 1]
        BY <3>1, <4>1
      <4> QED
        BY <4>1, <4>2, OneMore
    <3>3. /\ rep'.rows = r.rows /\ rep'.edges_emitted = r.edges_emitted
          /\ rep'.orphan_rows = r.orphan_rows /\ rep'.malformed_rows = r.malformed_rows
          /\ rep'.blocks_begun = r.blocks_begun /\ rep'.rings_emitted = r.rings_emitted
          /\ rep'.empty_blocks = r.empty_blocks /\ rep'.unmatched_ends = r.unmatched_ends + 1
          /\ rep'.blocks_closed = r.blocks_closed + 1 /\ rep'.nested_begins = r.nested_begins
          /\ rep'.unclosed_at_eof = r.unclosed_at_eof
      BY <3>1 DEF ReportType
    <3>4. Balance(r, 0, 0, 0, rings)
      BY <1>10, <2>4
    <3>5. Balance(rep', 0, 0, 0, rings)
      <4>1. /\ RowsBalance(r, 0) /\ BlocksBalance(r, 0) /\ EndsBalance(r, 0)
            /\ RingsBalance(r, rings)
        BY <3>4 DEF Balance
      <4>2. RowsBalance(rep', 0)
        BY <4>1, <1>6, <3>3 DEF RowsBalance
      <4>3. BlocksBalance(rep', 0)
        BY <4>1, <1>6, <3>3 DEF BlocksBalance
      <4>4. EndsBalance(rep', 0)
        <5>1. r.blocks_begun + r.unmatched_ends
                = r.blocks_closed + r.nested_begins + r.unclosed_at_eof + 0
          BY <4>1 DEF EndsBalance
        <5>2. PICK begun, ends, closed, nested, eof \in Nat :
                /\ begun = r.blocks_begun /\ ends = r.unmatched_ends
                /\ closed = r.blocks_closed /\ nested = r.nested_begins
                /\ eof = r.unclosed_at_eof
          BY <1>6
        <5>3. begun + ends = closed + nested + eof + 0
          BY <5>1, <5>2
        <5>4. begun + (ends + 1) = (closed + 1) + nested + eof + 0
          BY ONLY begun \in Nat, ends \in Nat, closed \in Nat, nested \in Nat,
                  eof \in Nat, <5>3
        <5> QED
          BY <3>3, <5>2, <5>4 DEF EndsBalance
      <4>5. RingsBalance(rep', rings)
        BY <4>1, <1>6, <3>3 DEF RingsBalance
      <4> QED
        BY <4>2, <4>3, <4>4, <4>5 DEF Balance
    <3> QED
      BY <1>2, <2>2, <3>1, <3>2, <3>5 DEF ParserTyped, ParserHolds
  <2> QED
    BY <2>3, <2>4
<1>14. ASSUME NEW p \in PatternRow, Row(p)
       PROVE  ParserHolds'
  <2>1. rings' = rings
    BY <1>14 DEF Row
  <2>2. CASE InBlock
    <3>1. /\ parser' = [parser EXCEPT !.rows = Append(@, p)]
          /\ rep' = [r EXCEPT !.rows = @ + 1]
      BY <1>4, <1>14, <2>2 DEF Row
    <3>2. PICK s \in Seq(PatternRow) : s = parser.rows
      BY <1>2 DEF BlockType
    <3>3. Append(s, p) \in Seq(PatternRow) /\ Len(Append(s, p)) = m + 1
      BY <1>9, <3>2, AppendProperties
    <3>4. parser' \in BlockType /\ Len(parser'.rows) = m + 1 /\ parser'.typology = parser.typology
      BY <1>2, <3>1, <3>2, <3>3 DEF BlockType
    <3>5. rep' \in ReportType
      BY <3>1, OneMore
    <3>6. /\ rep'.rows = r.rows + 1 /\ rep'.edges_emitted = r.edges_emitted
          /\ rep'.orphan_rows = r.orphan_rows /\ rep'.malformed_rows = r.malformed_rows
          /\ rep'.blocks_begun = r.blocks_begun /\ rep'.rings_emitted = r.rings_emitted
          /\ rep'.empty_blocks = r.empty_blocks /\ rep'.unmatched_ends = r.unmatched_ends
          /\ rep'.blocks_closed = r.blocks_closed /\ rep'.nested_begins = r.nested_begins
          /\ rep'.unclosed_at_eof = r.unclosed_at_eof
      BY <3>1 DEF ReportType
    <3>7. Balance(r, m, 1, 1, rings)
      BY <1>11, <2>2
    <3>8. Balance(rep', m + 1, 1, 1, rings)
      <4>1. /\ RowsBalance(r, m) /\ BlocksBalance(r, 1) /\ EndsBalance(r, 1)
            /\ RingsBalance(r, rings)
        BY <3>7 DEF Balance
      <4>2. RowsBalance(rep', m + 1)
        BY <4>1, <1>6, <3>6 DEF RowsBalance
      <4>3. BlocksBalance(rep', 1)
        BY <4>1, <1>6, <3>6 DEF BlocksBalance
      <4>4. EndsBalance(rep', 1)
        BY <4>1, <1>6, <3>6 DEF EndsBalance
      <4>5. RingsBalance(rep', rings)
        BY <4>1, <1>6, <3>6 DEF RingsBalance
      <4> QED
        BY <4>2, <4>3, <4>4, <4>5 DEF Balance
    <3>9. Count(InBlock') = 1
      BY <2>2, <3>4 DEF Count, InBlock
    <3> QED
      BY <1>2, <2>1, <2>2, <3>4, <3>5, <3>8, <3>9 DEF ParserTyped, ParserHolds, InBlock
  <2>3. CASE ~InBlock
    <3>1. rep' = [r EXCEPT !.rows = @ + 1, !.orphan_rows = @ + 1] /\ parser' = parser
      BY <1>4, <1>14, <2>3 DEF Row
    <3>2. rep' \in ReportType
      <4>1. PICK g \in ReportType : g = [r EXCEPT !.rows = @ + 1]
        BY OneMore
      <4>2. rep' = [g EXCEPT !.orphan_rows = @ + 1]
        BY <3>1, <4>1
      <4> QED
        BY <4>1, <4>2, OneMore
    <3>3. /\ rep'.rows = r.rows + 1 /\ rep'.edges_emitted = r.edges_emitted
          /\ rep'.orphan_rows = r.orphan_rows + 1 /\ rep'.malformed_rows = r.malformed_rows
          /\ rep'.blocks_begun = r.blocks_begun /\ rep'.rings_emitted = r.rings_emitted
          /\ rep'.empty_blocks = r.empty_blocks /\ rep'.unmatched_ends = r.unmatched_ends
          /\ rep'.blocks_closed = r.blocks_closed /\ rep'.nested_begins = r.nested_begins
          /\ rep'.unclosed_at_eof = r.unclosed_at_eof
      BY <3>1 DEF ReportType
    <3>4. Balance(r, 0, 0, 0, rings)
      BY <1>10, <2>3
    <3>5. Balance(rep', 0, 0, 0, rings)
      <4>1. /\ RowsBalance(r, 0) /\ BlocksBalance(r, 0) /\ EndsBalance(r, 0)
            /\ RingsBalance(r, rings)
        BY <3>4 DEF Balance
      <4>2. RowsBalance(rep', 0)
        BY <4>1, <1>6, <3>3 DEF RowsBalance
      <4>3. BlocksBalance(rep', 0)
        BY <4>1, <1>6, <3>3 DEF BlocksBalance
      <4>4. EndsBalance(rep', 0)
        BY <4>1, <1>6, <3>3 DEF EndsBalance
      <4>5. RingsBalance(rep', rings)
        BY <4>1, <1>6, <3>3 DEF RingsBalance
      <4> QED
        BY <4>2, <4>3, <4>4, <4>5 DEF Balance
    <3>6. Len(parser'.rows) = 0 /\ Count(InBlock') = 0
      BY <1>2, <2>3, <3>1 DEF Count, InBlock
    <3> QED
      BY <1>2, <2>1, <3>1, <3>2, <3>5, <3>6 DEF ParserTyped, ParserHolds, InBlock
  <2> QED
    BY <2>2, <2>3
<1> QED
  <2>1. (\E t \in Typologies : Begin(t) \/ End(t)) \/ \E p \in PatternRow : Row(p)
    BY DEF load_rings, PatternRow
  <2> QED
    BY <1>12, <1>13, <1>14, <2>1

LEMMA ParserEnds ==
  ASSUME ParserInv, EndOfPatterns
  PROVE  ParserInv'
<1>1. ParserTyped /\ Balance(rep, Len(parser.rows), Count(InBlock), Count(InBlock), rings)
  BY DEF ParserInv, ParserHolds
<1>2. /\ parser \in BlockType /\ rep \in ReportType /\ rings \in Seq(RingType)
      /\ \A n \in DOMAIN rings : rings[n].edges # <<>>
      /\ ~InBlock => parser.rows = <<>>
  BY <1>1 DEF ParserTyped
<1>3. parser' = NoBlock /\ stage' = IF Anomalies(rep') = {} THEN "transactions" ELSE "refused"
  BY DEF EndOfPatterns
<1>4. /\ parser' \in BlockType /\ Len(parser'.rows) = 0 /\ parser'.rows = <<>>
      /\ Count(InBlock') = 0
  BY <1>3 DEF NoBlock, BlockType, Count, InBlock
<1>5. /\ rep' \in ReportType /\ rings' \in Seq(RingType)
      /\ (\A n \in DOMAIN rings' : rings'[n].edges # <<>>)
      /\ Balance(rep', 0, 0, 0, rings')
  <2>1. CASE InBlock
    <3>1. PICK f : f = flush("none", rep)
      OBVIOUS
    <3>2. Settled(f, rings') /\ rep' = [f EXCEPT !.unclosed_at_eof = @ + 1]
      BY <2>1, <3>1, FlushSettles DEF EndOfPatterns
    <3>3. /\ f \in ReportType /\ rings' \in Seq(RingType)
          /\ \A n \in DOMAIN rings' : rings'[n].edges # <<>>
      BY <3>2 DEF Settled
    <3>4. rep' \in ReportType
      BY <3>2, <3>3, OneMore
    <3>5. /\ f.rows \in Nat /\ f.edges_emitted \in Nat /\ f.orphan_rows \in Nat
          /\ f.malformed_rows \in Nat /\ f.blocks_begun \in Nat /\ f.rings_emitted \in Nat
          /\ f.empty_blocks \in Nat /\ f.unmatched_ends \in Nat /\ f.blocks_closed \in Nat
          /\ f.nested_begins \in Nat /\ f.unclosed_at_eof \in Nat
      BY <3>3, ReportIs
    <3>6. /\ rep'.rows = f.rows /\ rep'.edges_emitted = f.edges_emitted
          /\ rep'.orphan_rows = f.orphan_rows /\ rep'.malformed_rows = f.malformed_rows
          /\ rep'.blocks_begun = f.blocks_begun /\ rep'.rings_emitted = f.rings_emitted
          /\ rep'.empty_blocks = f.empty_blocks /\ rep'.unmatched_ends = f.unmatched_ends
          /\ rep'.blocks_closed = f.blocks_closed /\ rep'.nested_begins = f.nested_begins
          /\ rep'.unclosed_at_eof = f.unclosed_at_eof + 1
      BY <3>2, <3>3 DEF ReportType
    <3>7. /\ RowsBalance(f, 0) /\ BlocksBalance(f, 0) /\ EndsBalance(f, 1)
          /\ RingsBalance(f, rings')
      BY <3>2 DEF Balance, Settled
    <3>8. RowsBalance(rep', 0)
      BY <3>5, <3>6, <3>7 DEF RowsBalance
    <3>9. BlocksBalance(rep', 0)
      BY <3>5, <3>6, <3>7 DEF BlocksBalance
    <3>10. EndsBalance(rep', 0)
      BY <3>5, <3>6, <3>7 DEF EndsBalance
    <3>11. RingsBalance(rep', rings')
      BY <3>5, <3>6, <3>7 DEF RingsBalance
    <3> QED
      BY <3>3, <3>4, <3>8, <3>9, <3>10, <3>11 DEF Balance
  <2>2. CASE ~InBlock
    <3>1. rep' = rep /\ rings' = rings
      BY <2>2 DEF EndOfPatterns
    <3>2. Len(parser.rows) = 0 /\ Count(InBlock) = 0
      BY <1>2, <2>2 DEF Count
    <3> QED
      BY <1>1, <1>2, <3>1, <3>2
  <2> QED
    BY <2>1, <2>2
<1>6. ParserHolds'
  BY <1>4, <1>5 DEF ParserHolds, ParserTyped
<1>7. ASSUME stage' \notin {"patterns", "refused"} PROVE NothingLost'
  <2>1. Anomalies(rep') = {}
    BY <1>3, <1>7
  <2>2. /\ ~(rep'["empty_blocks"] > 0) /\ ~(rep'["nested_begins"] > 0)
        /\ ~(rep'["unmatched_ends"] > 0) /\ ~(rep'["unclosed_at_eof"] > 0)
        /\ ~(rep'["orphan_rows"] > 0) /\ ~(rep'["malformed_rows"] > 0)
    BY <2>1 DEF Anomalies
  <2>3. /\ rep'.rows \in Nat /\ rep'.edges_emitted \in Nat /\ rep'.orphan_rows \in Nat
        /\ rep'.malformed_rows \in Nat /\ rep'.blocks_begun \in Nat /\ rep'.rings_emitted \in Nat
        /\ rep'.empty_blocks \in Nat /\ rep'.unmatched_ends \in Nat /\ rep'.blocks_closed \in Nat
        /\ rep'.nested_begins \in Nat /\ rep'.unclosed_at_eof \in Nat
    BY <1>5, ReportIs
  <2>4. /\ rep'.empty_blocks = 0 /\ rep'.nested_begins = 0 /\ rep'.unmatched_ends = 0
        /\ rep'.unclosed_at_eof = 0 /\ rep'.orphan_rows = 0 /\ rep'.malformed_rows = 0
    BY <2>2, <2>3
  <2>5. RowsBalance(rep', 0) /\ BlocksBalance(rep', 0) /\ EndsBalance(rep', 0)
        /\ RingsBalance(rep', rings')
    BY <1>5 DEF Balance
  <2>6. rep'.rows = rep'.edges_emitted
    BY <2>3, <2>4, <2>5 DEF RowsBalance
  <2>7. rep'.blocks_closed = rep'.rings_emitted
    BY <2>3, <2>4, <2>5 DEF BlocksBalance, EndsBalance
  <2>8. rep'.rings_emitted = Len(rings')
    BY <2>5 DEF RingsBalance
  <2> QED
    BY <2>6, <2>7, <2>8 DEF NothingLost
<1> QED
  BY <1>6, <1>7 DEF ParserInv

LEMMA ParserRests ==
  ASSUME ParserInv, UNCHANGED <<parser, rep, rings>>,
         stage' = stage \/ stage \notin {"patterns", "refused"}
  PROVE  ParserInv'
BY DEF ParserInv, ParserHolds, ParserTyped, NothingLost, InBlock

LEMMA ParserIsRight == ParserInv => ParserAccounts
<1> SUFFICES ASSUME ParserInv PROVE ParserAccounts
  OBVIOUS
<1>1. /\ Balance(rep, Len(parser.rows), Count(InBlock), Count(InBlock), rings)
      /\ stage \notin {"patterns", "refused"} => NothingLost
  BY DEF ParserInv, ParserHolds
<1> QED
  BY <1>1 DEF Balance, RowsBalance, BlocksBalance, EndsBalance, RingsBalance, RingSum,
              NothingLost, ParserAccounts

LEMMA JoinOf ==
  ASSUME NEW T, NEW s \in Seq(T), NEW t \in Seq(T), NEW u, u = s \o t
  PROVE  /\ Len(u) = Len(s) + Len(t)
         /\ \A i \in 1..Len(s) : u[i] = s[i]
         /\ \A j \in 1..Len(t) : u[Len(s) + j] = t[j]
<1>1. Len(u) = Len(s) + Len(t)
  OBVIOUS
<1>2. \A i \in 1..Len(s) : u[i] = s[i]
  BY JoinIs
<1>3. \A j \in 1..Len(t) : u[Len(s) + j] = t[j]
  BY JoinIs
<1> QED
  BY <1>1, <1>2, <1>3

LEMMA WhereJoins ==
  ASSUME NEW T, NEW s \in Seq(T), NEW t \in Seq(T), NEW W
  PROVE  Where(s \o t, W) = BothPlaces(Where(s, W), Len(s), Where(t, W))
<1>1. PICK n \in Nat, m \in Nat : n = Len(s) /\ m = Len(t)
  OBVIOUS
<1>2. PICK u \in Seq(T) : u = s \o t
  BY JoinIs
<1>3. /\ DOMAIN s = 1..n /\ DOMAIN t = 1..m /\ DOMAIN u = 1..(n + m)
      /\ (\A i \in 1..n : u[i] = s[i]) /\ \A j \in 1..m : u[n + j] = t[j]
  BY <1>1, <1>2, JoinIs
<1>4. ASSUME NEW k \in Where(u, W) PROVE k \in BothPlaces(Where(s, W), n, Where(t, W))
  <2>1. k \in 1..(n + m) /\ u[k] \in W
    BY <1>3 DEF Where
  <2>2. CASE k \in 1..n
    BY <1>3, <2>1, <2>2 DEF Where, BothPlaces
  <2>3. CASE k \notin 1..n
    <3>1. PICK j \in 1..m : k = n + j
      <4>1. k - n \in 1..m /\ k = n + (k - n)
        BY <2>1, <2>3
      <4> QED
        BY <4>1
    <3> QED
      BY <1>3, <2>1, <3>1 DEF Where, BothPlaces
  <2> QED
    BY <2>2, <2>3
<1>5. ASSUME NEW k \in BothPlaces(Where(s, W), n, Where(t, W)) PROVE k \in Where(u, W)
  <2>1. CASE k \in Where(s, W)
    <3>1. k \in 1..n /\ s[k] \in W /\ k \in 1..(n + m)
      BY <1>3, <2>1 DEF Where
    <3> QED
      BY <1>3, <3>1 DEF Where
  <2>2. CASE k \notin Where(s, W)
    <3>1. PICK j \in Where(t, W) : k = n + j
      BY <2>2 DEF BothPlaces
    <3>2. j \in 1..m /\ t[j] \in W /\ n + j \in 1..(n + m)
      BY <1>3 DEF Where
    <3> QED
      BY <1>3, <3>1, <3>2 DEF Where
  <2> QED
    BY <2>1, <2>2
<1>6. Where(u, W) = BothPlaces(Where(s, W), n, Where(t, W))
  BY <1>4, <1>5
<1> QED
  BY <1>1, <1>2, <1>6

\* Ids are given in the order of first sight: a value once coded keeps its id.
LEMMA CodesAre ==
  ASSUME NEW K, NEW known \in Seq(K), IsInjective(known), NEW values \in Seq(K)
  PROVE  /\ Codes(values, known) \in Seq(K) /\ IsInjective(Codes(values, known))
         /\ Len(Codes(values, known)) >= Len(known)
         /\ \A n \in 1..Len(known) : Codes(values, known)[n] = known[n]
         /\ \A m \in 1..Len(values) :
              \E n \in 1..Len(Codes(values, known)) : Codes(values, known)[n] = values[m]
<1>1. PICK a \in Nat, b \in Nat : a = Len(known) /\ b = Len(values)
  OBVIOUS
<1>2. PICK P : P = {n \in DOMAIN values : /\ values[n] \notin ToSet(known)
                                       /\ \A m \in 1..(n - 1) : values[m] # values[n]}
  OBVIOUS
<1>3. P \in SUBSET (DOMAIN values) /\ P \in SUBSET (1..b) /\ DOMAIN values = 1..b
      /\ DOMAIN known = 1..a
  BY <1>1, <1>2
<1>4. PICK c \in Nat : c = Cardinality(P)
  BY <1>3, PlacesInOrder
<1>5. PICK new : new = PickedAt(values, P)
  OBVIOUS
<1>6. new \in Seq(K) /\ Len(new) = c /\ \A k \in 1..c : new[k] = values[Nth(k, P)]
  BY <1>3, <1>4, <1>5, PickedIs
<1>7. PICK f : f = [k \in 1..c |-> Nth(k, P)]
  OBVIOUS
<1>8. /\ \A k \in 1..c : f[k] \in P
      /\ \A m \in P : \E k \in 1..c : f[k] = m
      /\ \A j, k \in 1..c : f[j] = f[k] => j = k
      /\ \A k \in 1..c : new[k] = values[f[k]]
  BY <1>3, <1>4, <1>6, <1>7, PlacesInOrder
<1>9. PICK u \in Seq(K) : u = known \o new
  BY <1>6, JoinIs
<1>10. /\ Len(u) = a + c /\ (\A i \in 1..a : u[i] = known[i])
       /\ \A k \in 1..c : u[a + k] = new[k]
  <2>1. new \in Seq(K)
    BY <1>6
  <2>2. \A i \in 1..Len(known) : u[i] = known[i]
    BY <1>9, <2>1, JoinOf
  <2>3. \A j \in 1..Len(new) : u[Len(known) + j] = new[j]
    BY <1>9, <2>1, JoinOf
  <2>4. Len(u) = Len(known) + Len(new)
    BY <1>9, <2>1
  <2> QED
    BY <1>1, <1>6, <2>2, <2>3, <2>4
<1>11. u = Codes(values, known)
  BY <1>2, <1>5, <1>9 DEF Codes
<1>12. \A i \in 1..a, n \in P : known[i] # values[n]
  BY <1>2, <1>3 DEF ToSet
<1>13. \A m, n \in P : values[m] = values[n] => m = n
  <2>1. ASSUME NEW m \in P, NEW n \in P, m < n PROVE values[m] # values[n]
    <3>1. m \in 1..(n - 1)
      BY <1>3, <2>1
    <3> QED
      BY <1>2, <3>1
  <2>2. ASSUME NEW m \in P, NEW n \in P, values[m] = values[n], m # n PROVE FALSE
    <3>1. m \in Int /\ n \in Int
      BY <1>3
    <3>2. m < n \/ n < m
      BY <2>2, <3>1
    <3> QED
      BY <2>1, <2>2, <3>2
  <2> QED
    BY <2>2
<1>14. \A k \in 1..(a + c) : k \in 1..a \/ \E j \in 1..c : k = a + j
  <2>1. ASSUME NEW k \in 1..(a + c), k \notin 1..a PROVE \E j \in 1..c : k = a + j
    <3>1. k - a \in 1..c /\ k = a + (k - a)
      BY <2>1
    <3> QED
      BY <3>1
  <2> QED
    BY <2>1
<1>15. ASSUME NEW i \in 1..(a + c), NEW j \in 1..(a + c), u[i] = u[j] PROVE i = j
  <2>1. CASE i \in 1..a /\ j \in 1..a
    BY <1>3, <1>10, <1>15, <2>1 DEF IsInjective
  <2>2. CASE i \in 1..a /\ j \notin 1..a
    <3>1. PICK l \in 1..c : j = a + l
      BY <1>14, <2>2
    <3>2. known[i] = values[f[l]] /\ f[l] \in P
      BY <1>8, <1>10, <1>15, <2>2, <3>1
    <3> QED
      BY <1>12, <2>2, <3>2
  <2>3. CASE i \notin 1..a /\ j \in 1..a
    <3>1. PICK l \in 1..c : i = a + l
      BY <1>14, <2>3
    <3>2. known[j] = values[f[l]] /\ f[l] \in P
      BY <1>8, <1>10, <1>15, <2>3, <3>1
    <3> QED
      BY <1>12, <2>3, <3>2
  <2>4. CASE i \notin 1..a /\ j \notin 1..a
    <3>1. PICK k \in 1..c : i = a + k
      BY <1>14, <2>4
    <3>2. PICK l \in 1..c : j = a + l
      BY <1>14, <2>4
    <3>3. values[f[k]] = values[f[l]] /\ f[k] \in P /\ f[l] \in P
      BY <1>8, <1>10, <1>15, <3>1, <3>2
    <3>4. k = l
      BY <1>8, <1>13, <3>3
    <3> QED
      BY <3>1, <3>2, <3>4
  <2> QED
    BY <2>1, <2>2, <2>3, <2>4
<1>16. IsInjective(u)
  BY <1>10, <1>15 DEF IsInjective
<1>17. ASSUME NEW m \in 1..b PROVE \E n \in 1..(a + c) : u[n] = values[m]
  <2>1. CASE \E i \in 1..a : known[i] = values[m]
    <3>1. PICK i \in 1..a : known[i] = values[m]
      BY <2>1
    <3>2. i \in 1..(a + c)
      OBVIOUS
    <3> QED
      BY <1>10, <3>1, <3>2
  <2>2. CASE \A i \in 1..a : known[i] # values[m]
    <3>1. PICK S : S = {n \in 1..b : values[n] = values[m]}
      OBVIOUS
    <3>2. S # {} /\ S \subseteq Int /\ S \in SUBSET (1..b)
      BY <3>1
    <3>3. IsFiniteSet(S)
      BY <3>2, PlacesInOrder
    <3>4. PICK n \in S : \A l \in S : n <= l
      BY <3>2, <3>3, Extremes
    <3>5. n \in 1..b /\ values[n] = values[m]
      BY <3>1
    <3>6. \A l \in 1..(n - 1) : values[l] # values[n]
      <4>1. ASSUME NEW l \in 1..(n - 1), values[l] = values[n] PROVE FALSE
        <5>1. l \in 1..b /\ l < n
          BY <3>5
        <5>2. l \in S
          BY <3>1, <3>5, <4>1, <5>1
        <5> QED
          BY <3>4, <3>5, <5>1, <5>2
      <4> QED
        BY <4>1
    <3>7. values[n] \notin ToSet(known)
      BY <1>3, <2>2, <3>5 DEF ToSet
    <3>8. n \in P
      BY <1>2, <1>3, <3>5, <3>6, <3>7
    <3>9. PICK k \in 1..c : f[k] = n
      BY <1>8, <3>8
    <3>10. u[a + k] = values[m] /\ a + k \in 1..(a + c)
      BY <1>8, <1>10, <3>5, <3>9
    <3> QED
      BY <3>10
  <2> QED
    BY <2>1, <2>2
<1> QED
  BY <1>1, <1>9, <1>10, <1>11, <1>16, <1>17

LEMMA IdIs ==
  ASSUME NEW K, NEW known \in Seq(K), NEW key, \E n \in 1..Len(known) : known[n] = key
  PROVE  IdOf(key, known) \in 0..(Len(known) - 1) /\ known[IdOf(key, known) + 1] = key
<1>1. PICK a \in Nat : a = Len(known)
  OBVIOUS
<1>2. PICK n \in 1..a : known[n] = key
  BY <1>1
<1>3. DOMAIN known = 1..a
  BY <1>1
<1>4. PICK m \in 1..a : m = (CHOOSE l \in DOMAIN known : known[l] = key) /\ known[m] = key
  BY <1>2, <1>3
<1>5. IdOf(key, known) = m - 1
  BY <1>4 DEF IdOf
<1>6. m - 1 \in 0..(a - 1) /\ (m - 1) + 1 = m
  OBVIOUS
<1> QED
  BY <1>1, <1>4, <1>5, <1>6

\* The transactions and what becomes of them.
Transactions == Labelled \cup Plain

CsvRow == [p : Transactions, label : {0, 1}]

Names == {Src(p) : p \in Transactions} \cup {Dst(p) : p \in Transactions}

EdgeRow == [ts : Nat, src : Nat, dst : Nat, label : {0, 1}, ring : Int]

NoLoops == {row \in CsvRow : ~IsLoop(row)}

Ringed == {row \in CsvRow : RingOf(row) >= 0}

StandsFor(e, row, known) ==
  /\ e.ts = row.p.ts /\ e.label = row.label /\ e.ring = RingOf(row)
  /\ e.src \in 0..(Len(known) - 1) /\ known[e.src + 1] = Src(row.p)
  /\ e.dst \in 0..(Len(known) - 1) /\ known[e.dst + 1] = Dst(row.p)

\* The edges kept so far are the rows without loops, one by one.
PartsAreRows ==
  /\ Len(parts) = Cardinality(Where(csv, NoLoops))
  /\ \A k \in 1..Len(parts) :
       StandsFor(parts[k], csv[Nth(k, Where(csv, NoLoops))], node_ids)

StreamTyped ==
  /\ csv \in Seq(CsvRow) /\ node_ids \in Seq(Names) /\ IsInjective(node_ids)
  /\ parts \in Seq(EdgeRow) /\ matched \in Nat

StreamInv ==
  /\ StreamTyped /\ PartsAreRows /\ matched = Cardinality(Where(csv, Ringed))

LEMMA RingOfIs ==
  ASSUME rings \in Seq(RingType)
  PROVE  /\ \A row : RingOf(row) \in Int
         /\ \A row : \A r \in DOMAIN rings :
              row.label = 1 /\ Claims(row.p, r) /\ (\A s \in 1..(r - 1) : ~Claims(row.p, s)) =>
                RingOf(row) = r - 1
<1>1. PICK n \in Nat : n = Len(rings)
  OBVIOUS
<1>2. DOMAIN rings = 1..n
  BY <1>1
<1>3. ASSUME NEW p
      PROVE  /\ label_index(p) \in Int
             /\ \A r \in DOMAIN rings :
                  Claims(p, r) /\ (\A s \in 1..(r - 1) : ~Claims(p, s)) =>
                    label_index(p) = r - 1
  <2>1. PICK S \in SUBSET (1..n) : S = {r \in DOMAIN rings : Claims(p, r)}
    BY <1>2
  <2>2. label_index(p) = IF S = {} THEN -1 ELSE Min(S) - 1
    BY <2>1 DEF label_index
  <2>3. IsFiniteSet(S) /\ S \subseteq Int
    <3>1. IsFiniteSet(S)
      BY PlacesInOrder
    <3> QED
      BY <3>1
  <2>4. S # {} => Min(S) \in S /\ \A y \in S : Min(S) <= y
    BY <2>3, Extremes
  <2>5. label_index(p) \in Int
    <3>1. CASE S = {}
      BY <2>2, <3>1
    <3>2. CASE S # {}
      <4>1. Min(S) \in Int
        BY <2>3, <2>4, <3>2
      <4> QED
        BY <2>2, <3>2, <4>1
    <3> QED
      BY <3>1, <3>2
  <2>6. ASSUME NEW r \in DOMAIN rings, Claims(p, r), \A s \in 1..(r - 1) : ~Claims(p, s)
        PROVE  label_index(p) = r - 1
    <3>1. r \in S /\ r \in 1..n
      BY <1>2, <2>1, <2>6
    <3>2. PICK m \in S : m = Min(S) /\ \A y \in S : m <= y
      BY <2>4, <3>1
    <3>3. m <= r /\ m \in 1..n /\ Claims(p, m)
      BY <2>1, <3>1, <3>2
    <3>4. m \notin 1..(r - 1)
      BY <2>6, <3>3
    <3>5. m = r
      BY <3>1, <3>3, <3>4
    <3> QED
      BY <2>2, <3>1, <3>2, <3>5
  <2> QED
    BY <2>5, <2>6
<1> QED
  BY <1>3 DEF RingOf

LEMMA ChunkIs ==
  ASSUME NEW chunk \in Chunks
  PROVE  chunk \in Seq(CsvRow)
<1>1. PICK n \in 1..MaxChunk :
        chunk \in [1..n -> [p : Labelled, label : {1}] \cup [p : Plain, label : {0}]]
  BY DEF Chunks
<1>2. MaxChunk \in Nat
  BY IngestionAssumption
<1>3. n \in Nat
  BY <1>2
<1>4. [p : Labelled, label : {1}] \cup [p : Plain, label : {0}] \subseteq CsvRow
  BY DEF CsvRow, Transactions
<1> QED
  BY <1>1, <1>3, <1>4

LEMMA RowIs ==
  ASSUME NEW row \in CsvRow
  PROVE  /\ row.p \in Transactions /\ row.label \in {0, 1} /\ row.p.ts \in Nat
         /\ Src(row.p) \in Names /\ Dst(row.p) \in Names
         /\ row \in NoLoops <=> ~IsLoop(row)
<1>1. row.p \in Transactions /\ row.label \in {0, 1}
  BY DEF CsvRow
<1>2. row.p.ts \in Nat
  BY <1>1, IngestionAssumption DEF Transactions
<1> QED
  BY <1>1, <1>2 DEF Names, NoLoops

LEMMA ReadChunkReads ==
  ASSUME StreamInv, rings \in Seq(RingType), NEW chunk \in Chunks, ReadChunk(chunk), rings' = rings
  PROVE  StreamInv'
<1>1. /\ csv \in Seq(CsvRow) /\ node_ids \in Seq(Names) /\ IsInjective(node_ids)
      /\ parts \in Seq(EdgeRow) /\ matched \in Nat
  BY DEF StreamInv, StreamTyped
<1>2. chunk \in Seq(CsvRow)
  BY ChunkIs
<1>3. PICK n \in Nat, m \in Nat : n = Len(csv) /\ m = Len(chunk)
  BY <1>1, <1>2
<1>4. csv' = csv \o chunk
  BY DEF ReadChunk
<1>5. /\ csv' \in Seq(CsvRow)
      /\ (\A i \in 1..n : csv'[i] = csv[i]) /\ \A j \in 1..m : csv'[n + j] = chunk[j]
  <2>1. csv' \in Seq(CsvRow)
    BY <1>1, <1>2, <1>4, JoinIs
  <2>2. \A i \in 1..Len(csv) : csv'[i] = csv[i]
    BY <1>1, <1>2, <1>4, JoinOf
  <2>3. \A j \in 1..Len(chunk) : csv'[Len(csv) + j] = chunk[j]
    BY <1>1, <1>2, <1>4, JoinOf
  <2> QED
    BY <1>3, <2>1, <2>2, <2>3
<1>6. \A row : RingOf(row)' = RingOf(row)
  BY DEF RingOf, label_index, Claims
<1>7. Ringed' = Ringed
  BY <1>6 DEF Ringed
<1>8. DOMAIN chunk = 1..m /\ \A i \in 1..m : chunk[i] \in CsvRow
  BY <1>2, <1>3
<1>9. \A i \in 1..m : Src(chunk[i].p) \in Names /\ Dst(chunk[i].p) \in Names
  BY <1>8, RowIs
<1>10. PICK sources \in Seq(Names) :
        sources = [i \in 1..m |-> Src(chunk[i].p)] /\ Len(sources) = m
  <2>1. PICK f \in [1..m -> Names] : f = [i \in 1..m |-> Src(chunk[i].p)]
    BY <1>9
  <2>2. f \in Seq(Names) /\ Len(f) = m
    BY <1>3, AsSequence
  <2> QED
    BY <2>1, <2>2
<1>11. PICK targets \in Seq(Names) :
        targets = [i \in 1..m |-> Dst(chunk[i].p)] /\ Len(targets) = m
  <2>1. PICK f \in [1..m -> Names] : f = [i \in 1..m |-> Dst(chunk[i].p)]
    BY <1>9
  <2>2. f \in Seq(Names) /\ Len(f) = m
    BY <1>3, AsSequence
  <2> QED
    BY <2>1, <2>2
<1>12. Len(sources) = m /\ Len(targets) = m
  BY <1>10, <1>11
<1>13. PICK half2 : half2 = Codes(sources, node_ids)
  OBVIOUS
<1>14. /\ half2 \in Seq(Names) /\ IsInjective(half2)
       /\ Len(half2) >= Len(node_ids)
       /\ \A i \in 1..Len(node_ids) : half2[i] = node_ids[i]
       /\ \A i \in 1..Len(sources) : \E k \in 1..Len(half2) : half2[k] = sources[i]
  <2>1. node_ids \in Seq(Names) /\ IsInjective(node_ids)
    BY <1>1
  <2>2. Codes(sources, node_ids) \in Seq(Names) /\ IsInjective(Codes(sources, node_ids))
    BY <2>1, CodesAre
  <2>3. Len(Codes(sources, node_ids)) >= Len(node_ids)
    BY <2>1, CodesAre
  <2>4. \A i \in 1..Len(node_ids) : Codes(sources, node_ids)[i] = node_ids[i]
    BY <2>1, CodesAre
  <2>5. \A i \in 1..Len(sources) : \E k \in 1..Len(Codes(sources, node_ids)) :
          Codes(sources, node_ids)[k] = sources[i]
    BY <2>1, CodesAre
  <2> QED
    BY <1>13, <2>2, <2>3, <2>4, <2>5
<1>15. node_ids' = Codes(targets, half2)
  BY <1>10, <1>11, <1>13, <1>8 DEF ReadChunk
<1>16. PICK known : known = Codes(targets, half2)
  OBVIOUS
<1>17. /\ known \in Seq(Names) /\ IsInjective(known) /\ Len(known) >= Len(half2)
       /\ \A i \in 1..Len(half2) : known[i] = half2[i]
       /\ \A i \in 1..Len(targets) : \E k \in 1..Len(known) : known[k] = targets[i]
  <2>1. half2 \in Seq(Names) /\ IsInjective(half2)
    BY <1>14
  <2>2. Codes(targets, half2) \in Seq(Names) /\ IsInjective(Codes(targets, half2))
    BY <2>1, CodesAre
  <2>3. Len(Codes(targets, half2)) >= Len(half2)
    BY <2>1, CodesAre
  <2>4. \A i \in 1..Len(half2) : Codes(targets, half2)[i] = half2[i]
    BY <2>1, CodesAre
  <2>5. \A i \in 1..Len(targets) : \E k \in 1..Len(Codes(targets, half2)) :
          Codes(targets, half2)[k] = targets[i]
    BY <2>1, CodesAre
  <2> QED
    BY <1>16, <2>2, <2>3, <2>4, <2>5
<1>18. node_ids' = known
  BY <1>15, <1>16
<1>19. PICK a \in Nat, b \in Nat, c \in Nat :
         a = Len(node_ids) /\ b = Len(half2) /\ c = Len(known)
  BY <1>1, <1>14, <1>17
<1>20. /\ a <= b /\ b <= c /\ \A i \in 1..a : i \in 1..c /\ known[i] = node_ids[i]
       /\ \A i \in 1..b : i \in 1..c /\ known[i] = half2[i]
  BY <1>14, <1>17, <1>19
<1>21. \A i \in 1..m : /\ \E k \in 1..c : known[k] = Src(chunk[i].p)
                      /\ \E k \in 1..c : known[k] = Dst(chunk[i].p)
  <2>1. ASSUME NEW i \in 1..m PROVE \E k \in 1..c : known[k] = Src(chunk[i].p)
    <3>1. PICK k \in 1..b : half2[k] = sources[i]
      BY <1>12, <1>14, <1>19
    <3>2. sources[i] = Src(chunk[i].p)
      BY <1>10, <1>8
    <3> QED
      BY <1>20, <3>1, <3>2
  <2>2. ASSUME NEW i \in 1..m PROVE \E k \in 1..c : known[k] = Dst(chunk[i].p)
    <3>1. PICK k \in 1..c : known[k] = targets[i]
      BY <1>12, <1>17, <1>19
    <3>2. targets[i] = Dst(chunk[i].p)
      BY <1>11, <1>8
    <3> QED
      BY <3>1, <3>2
  <2> QED
    BY <2>1, <2>2
\* the rows kept
<1>22. PICK B : B = Where(chunk, NoLoops)
  OBVIOUS
<1>23. B \in SUBSET (1..m) /\ B \in SUBSET (DOMAIN chunk)
  BY <1>2, <1>3, <1>22, WhereIs
<1>24. PICK y \in Nat : y = Cardinality(B)
  BY <1>23, PlacesInOrder
<1>25. PICK kept : kept = PickedAt(chunk, B)
  OBVIOUS
<1>26. kept \in Seq(CsvRow) /\ Len(kept) = y /\ \A j \in 1..y : kept[j] = chunk[Nth(j, B)]
  BY <1>2, <1>23, <1>24, <1>25, PickedIs
<1>27. WithoutLoops(chunk) = kept
  <2>1. {i \in DOMAIN chunk : chunk[i] \in {row \in ToSet(chunk) : ~IsLoop(row)}} = B
    BY <1>8, <1>22 DEF ToSet, Where, NoLoops
  <2> QED
    BY <1>25, <2>1 DEF WithoutLoops, Only
<1>28. \A j \in 1..y : Nth(j, B) \in 1..m
  BY <1>23, <1>24, PlacesInOrder
<1>29. PICK more :
         more = [j \in 1..y |->
                   [ts |-> kept[j].p.ts, src |-> IdOf(Src(kept[j].p), known),
                    dst |-> IdOf(Dst(kept[j].p), known),
                    label |-> kept[j].label, ring |-> RingOf(kept[j])]]
  OBVIOUS
<1>30. parts' = parts \o more
  <2>1. DOMAIN kept = 1..y
    BY <1>26
  <2> QED
    BY <1>18, <1>27, <1>29, <2>1 DEF ReadChunk
<1>31. \A j \in 1..y : more[j] \in EdgeRow /\ StandsFor(more[j], kept[j], known)
  <2>1. ASSUME NEW j \in 1..y
        PROVE  more[j] \in EdgeRow /\ StandsFor(more[j], kept[j], known)
    <3>1. PICK row \in CsvRow : row = kept[j]
      BY <1>26
    <3>2. row = chunk[Nth(j, B)] /\ Nth(j, B) \in 1..m
      BY <1>26, <1>28, <3>1
    <3>3. /\ \E k \in 1..Len(known) : known[k] = Src(row.p)
          /\ \E k \in 1..Len(known) : known[k] = Dst(row.p)
      BY <1>19, <1>21, <3>2
    <3>4. PICK src \in 0..(c - 1) : src = IdOf(Src(row.p), known) /\ known[src + 1] = Src(row.p)
      <4>1. known \in Seq(Names) /\ \E k \in 1..Len(known) : known[k] = Src(row.p)
        BY <1>17, <3>3
      <4>2. IdOf(Src(row.p), known) \in 0..(Len(known) - 1)
        BY <4>1, IdIs
      <4>3. known[IdOf(Src(row.p), known) + 1] = Src(row.p)
        BY <4>1, IdIs
      <4> QED
        BY <1>19, <4>2, <4>3
    <3>5. PICK dst \in 0..(c - 1) : dst = IdOf(Dst(row.p), known) /\ known[dst + 1] = Dst(row.p)
      <4>1. known \in Seq(Names) /\ \E k \in 1..Len(known) : known[k] = Dst(row.p)
        BY <1>17, <3>3
      <4>2. IdOf(Dst(row.p), known) \in 0..(Len(known) - 1)
        BY <4>1, IdIs
      <4>3. known[IdOf(Dst(row.p), known) + 1] = Dst(row.p)
        BY <4>1, IdIs
      <4> QED
        BY <1>19, <4>2, <4>3
    <3>6. RingOf(row) \in Int /\ row.p.ts \in Nat /\ row.label \in {0, 1}
      BY RingOfIs, RowIs
    <3>7. more[j] = [ts |-> row.p.ts, src |-> src, dst |-> dst, label |-> row.label,
                     ring |-> RingOf(row)]
      BY <1>29, <3>1, <3>4, <3>5
    <3>8. more[j] \in EdgeRow
      BY <3>6, <3>7 DEF EdgeRow
    <3>9. StandsFor(more[j], row, known)
      BY <1>19, <3>4, <3>5, <3>7 DEF StandsFor
    <3> QED
      BY <3>1, <3>8, <3>9
  <2> QED
    BY <2>1
<1>32. more \in Seq(EdgeRow) /\ Len(more) = y
  BY <1>29, <1>31
\* and where they come
<1>33. PICK A : A = Where(csv, NoLoops)
  OBVIOUS
<1>34. A \in SUBSET (1..n)
  BY <1>1, <1>3, <1>33, WhereIs
<1>35. PICK x \in Nat : x = Cardinality(A)
  BY <1>34, PlacesInOrder
<1>36. Len(parts) = x /\ \A k \in 1..x : StandsFor(parts[k], csv[Nth(k, A)], node_ids)
  BY <1>33, <1>35 DEF StreamInv, PartsAreRows
<1>37. PICK Q : Q = Where(csv', NoLoops)
  OBVIOUS
<1>38. Q = BothPlaces(A, n, B)
  <2>1. Where(csv \o chunk, NoLoops) =
          BothPlaces(Where(csv, NoLoops), Len(csv), Where(chunk, NoLoops))
    BY <1>1, <1>2, WhereJoins
  <2> QED
    <3>1. Where(csv', NoLoops) = Where(csv \o chunk, NoLoops)
      BY <1>4
    <3>2. Where(csv', NoLoops) = BothPlaces(A, n, B)
      BY <1>3, <1>22, <1>33, <2>1, <3>1
    <3> QED
      BY <1>37, <3>2
<1>39. /\ Cardinality(Q) = x + y /\ (\A k \in 1..x : Nth(k, Q) = Nth(k, A))
       /\ \A j \in 1..y : Nth(x + j, Q) = n + Nth(j, B)
  <2>1. A \in SUBSET (1..n) /\ B \in SUBSET (1..m)
    BY <1>23, <1>34
  <2>2. Cardinality(BothPlaces(A, n, B)) = Cardinality(A) + Cardinality(B)
    BY <2>1, JoinedPlaces
  <2>3. \A k \in 1..Cardinality(A) : Nth(k, BothPlaces(A, n, B)) = Nth(k, A)
    BY <2>1, JoinedPlaces
  <2>4. \A j \in 1..Cardinality(B) : Nth(Cardinality(A) + j, BothPlaces(A, n, B)) = n + Nth(j, B)
    BY <2>1, JoinedPlaces
  <2> QED
    BY <1>24, <1>35, <1>38, <2>2, <2>3, <2>4
<1>40. /\ parts' \in Seq(EdgeRow) /\ Len(parts') = x + y
       /\ (\A k \in 1..x : parts'[k] = parts[k]) /\ \A j \in 1..y : parts'[x + j] = more[j]
  <2>1. parts \o more \in Seq(EdgeRow)
    <3>1. parts \in Seq(EdgeRow)
      BY <1>1
    <3>2. more \in Seq(EdgeRow)
      BY <1>32
    <3> QED
      BY <3>1, <3>2, JoinIs
  <2>2. \A i \in 1..Len(parts) : parts'[i] = parts[i]
    BY <1>1, <1>30, <1>32, JoinOf
  <2>3. \A j \in 1..Len(more) : parts'[Len(parts) + j] = more[j]
    BY <1>1, <1>30, <1>32, JoinOf
  <2>4. Len(parts') = Len(parts) + Len(more)
    BY <1>1, <1>30, <1>32, JoinOf
  <2> QED
    BY <1>30, <1>32, <1>36, <2>1, <2>2, <2>3, <2>4
<1>41. ASSUME NEW k \in 1..(x + y)
       PROVE  StandsFor(parts'[k], csv'[Nth(k, Q)], known)
  <2>1. CASE k \in 1..x
    <3>1. StandsFor(parts[k], csv[Nth(k, A)], node_ids)
      BY <1>36, <2>1
    <3>2. parts'[k] = parts[k] /\ Nth(k, Q) = Nth(k, A)
      BY <1>39, <1>40, <2>1
    <3>3. Nth(k, A) \in 1..n
      BY <1>34, <1>35, <2>1, PlacesInOrder
    <3>4. csv'[Nth(k, Q)] = csv[Nth(k, A)]
      BY <1>5, <3>2, <3>3
    <3>5. PICK e, row : e = parts[k] /\ row = csv[Nth(k, A)]
      OBVIOUS
    <3>6. /\ e.src \in 0..(a - 1) /\ e.dst \in 0..(a - 1)
          /\ node_ids[e.src + 1] = Src(row.p) /\ node_ids[e.dst + 1] = Dst(row.p)
      BY <1>19, <3>1, <3>5 DEF StandsFor
    <3>7. e.src + 1 \in 1..a /\ e.dst + 1 \in 1..a
      BY <3>6
    <3>8. known[e.src + 1] = Src(row.p) /\ known[e.dst + 1] = Dst(row.p)
      BY <1>20, <3>6, <3>7
    <3>9. e.src \in 0..(c - 1) /\ e.dst \in 0..(c - 1)
      BY <1>20, <3>6
    <3>10. StandsFor(e, row, known)
      BY <1>19, <3>1, <3>5, <3>8, <3>9 DEF StandsFor
    <3> QED
      BY <3>2, <3>4, <3>5, <3>10
  <2>2. CASE k \notin 1..x
    <3>1. PICK j \in 1..y : k = x + j
      <4>1. k - x \in 1..y /\ k = x + (k - x)
        BY <2>2
      <4> QED
        BY <4>1
    <3>2. parts'[k] = more[j] /\ Nth(k, Q) = n + Nth(j, B)
      BY <1>39, <1>40, <3>1
    <3>3. csv'[Nth(k, Q)] = kept[j]
      BY <1>5, <1>26, <1>28, <3>2
    <3> QED
      BY <1>31, <3>2, <3>3
  <2> QED
    BY <2>1, <2>2
<1>42. PartsAreRows'
  <2>1. NoLoops' = NoLoops
    BY DEF NoLoops, IsLoop
  <2>2. \A e, row : StandsFor(e, row, known)' <=> StandsFor(e, row, known)
    BY <1>6 DEF StandsFor
  <2>3. Where(csv, NoLoops)' = Q
    BY <1>37, <2>1 DEF Where
  <2>4. \A e, row : StandsFor(e, row, node_ids)' <=> StandsFor(e, row, known)
    BY <1>6, <1>18 DEF StandsFor
  <2> QED
    BY <1>39, <1>40, <1>41, <2>3, <2>4 DEF PartsAreRows
\* how many are matched
<1>43. matched' = Cardinality(Where(csv, Ringed)) + Cardinality(Where(chunk, Ringed))
  <2>1. {i \in DOMAIN chunk : RingOf(chunk[i]) >= 0} = Where(chunk, Ringed)
    BY <1>8 DEF Where, Ringed
  <2>2. matched = Cardinality(Where(csv, Ringed))
    BY DEF StreamInv
  <2> QED
    BY <2>1, <2>2 DEF ReadChunk
<1>44. Where(csv, Ringed)' = BothPlaces(Where(csv, Ringed), n, Where(chunk, Ringed))
  <2>1. Where(csv, Ringed)' = Where(csv', Ringed)
    BY <1>7 DEF Where
  <2>2. Where(csv \o chunk, Ringed) = BothPlaces(Where(csv, Ringed), Len(csv), Where(chunk, Ringed))
    BY <1>1, <1>2, WhereJoins
  <2> QED
    BY <1>3, <1>4, <2>1, <2>2
<1>45. /\ Where(csv, Ringed) \in SUBSET (1..n) /\ Where(chunk, Ringed) \in SUBSET (1..m)
       /\ Cardinality(Where(csv, Ringed)) \in Nat /\ Cardinality(Where(chunk, Ringed)) \in Nat
  BY <1>1, <1>2, <1>3, WhereIs
<1>46. PICK G \in SUBSET (1..n), H \in SUBSET (1..m) :
         G = Where(csv, Ringed) /\ H = Where(chunk, Ringed)
  BY <1>45
<1>47. Cardinality(BothPlaces(G, n, H)) = Cardinality(G) + Cardinality(H)
  BY JoinedPlaces
<1>48. matched' = Cardinality(Where(csv, Ringed)') /\ matched' \in Nat
  BY <1>43, <1>44, <1>45, <1>46, <1>47
<1>49. StreamTyped'
  BY <1>5, <1>17, <1>18, <1>40, <1>48 DEF StreamTyped
<1> QED
  BY <1>42, <1>48, <1>49 DEF StreamInv

\* The stream against the rows: h sends the edges kept to their places in the
\* stream, f to the rows that they stand for.
Arranged(h, f, n, c) ==
  /\ n \in Nat /\ c \in Nat
  /\ DOMAIN parts = 1..n /\ DOMAIN stream = 1..n /\ DOMAIN csv = 1..c
  /\ Len(stream) = n
  /\ h \in [1..n -> 1..n] /\ f \in [1..n -> 1..c]
  /\ \A i, j \in 1..n : h[i] = h[j] => i = j
  /\ \A k \in 1..n : \E i \in 1..n : h[i] = k
  /\ \A i, j \in 1..n : i < j /\ parts[i].ts <= parts[j].ts => h[i] < h[j]
  /\ \A i, j \in 1..n : i < j => f[i] < f[j]
  /\ \A m \in 1..c : csv[m] \in NoLoops => \E i \in 1..n : f[i] = m
  /\ \A m \in 1..c : csv[m] \in CsvRow
  /\ \A i \in 1..n : /\ csv[f[i]] \in NoLoops /\ parts[i] \in EdgeRow
                     /\ stream[h[i]] = parts[i]
                     /\ StandsFor(parts[i], csv[f[i]], node_ids)

LEMMA StreamArranged ==
  ASSUME StreamInv, stream = Sorted(parts)
  PROVE  /\ \E h, f, n, c : Arranged(h, f, n, c)
         /\ stream \in Seq(EdgeRow)
         /\ \A i \in 1..(Len(stream) - 1) : stream[i].ts <= stream[i + 1].ts
<1>1. csv \in Seq(CsvRow) /\ parts \in Seq(EdgeRow)
  BY DEF StreamInv, StreamTyped
<1>2. PICK n \in Nat, c \in Nat : n = Len(parts) /\ c = Len(csv)
  BY <1>1
<1>3. DOMAIN parts = 1..n /\ DOMAIN csv = 1..c
  BY <1>1, <1>2
<1>4. \A e \in EdgeRow : e.ts \in Int
  BY DEF EdgeRow
<1>5. stream \in Seq(EdgeRow) /\ Len(stream) = n
  BY <1>1, <1>2, <1>4, SortedIs
<1>6. DOMAIN stream = 1..n
  BY <1>5
<1>7. \A j, k \in DOMAIN parts : j < k => Sorted(parts)[j].ts <= Sorted(parts)[k].ts
  BY <1>1, <1>4, SortedIs
<1>8. ASSUME NEW i \in 1..(Len(stream) - 1) PROVE stream[i].ts <= stream[i + 1].ts
  <2>1. i \in 1..n /\ i + 1 \in 1..n /\ i < i + 1
    BY <1>5
  <2> QED
    BY <1>3, <1>7, <2>1
<1>9. \E h \in [DOMAIN parts -> DOMAIN parts] :
              /\ \A i \in DOMAIN parts : Sorted(parts)[h[i]] = parts[i]
              /\ \A i, j \in DOMAIN parts : h[i] = h[j] => i = j
              /\ \A k \in DOMAIN parts : \E i \in DOMAIN parts : h[i] = k
              /\ \A i, j \in DOMAIN parts :
                   i < j /\ parts[i].ts <= parts[j].ts => h[i] < h[j]
  BY <1>1, <1>4, SortedIs
<1>10. PICK h \in [1..n -> 1..n] :
              /\ \A i \in 1..n : stream[h[i]] = parts[i]
              /\ \A i, j \in 1..n : h[i] = h[j] => i = j
              /\ \A k \in 1..n : \E i \in 1..n : h[i] = k
              /\ \A i, j \in 1..n : i < j /\ parts[i].ts <= parts[j].ts => h[i] < h[j]
  BY <1>3, <1>9
<1>11. PICK L \in SUBSET (1..c) : L = Where(csv, NoLoops)
  BY <1>1, <1>2, WhereIs
<1>12. n = Cardinality(L) /\ \A k \in 1..n : StandsFor(parts[k], csv[Nth(k, L)], node_ids)
  BY <1>2, <1>11 DEF StreamInv, PartsAreRows
<1>13. PICK f : f = [k \in 1..n |-> Nth(k, L)]
  OBVIOUS
<1>14. /\ \A k \in 1..n : f[k] \in L /\ f[k] = Nth(k, L)
       /\ \A j, k \in 1..n : j < k => f[j] < f[k]
       /\ \A m \in L : \E k \in 1..n : f[k] = m
  <2>1. /\ \A k \in 1..Cardinality(L) : Nth(k, L) \in L
        /\ \A j, k \in 1..Cardinality(L) : j < k => Nth(j, L) < Nth(k, L)
        /\ \A m \in L : \E k \in 1..Cardinality(L) : Nth(k, L) = m
    BY <1>2, PlacesInOrder
  <2> QED
    BY <1>12, <1>13, <2>1
<1>15. f \in [1..n -> 1..c]
  BY <1>13, <1>14
<1>16. \A m \in 1..c : csv[m] \in CsvRow
  BY <1>1, <1>2
<1>17. \A m \in 1..c : csv[m] \in NoLoops => \E i \in 1..n : f[i] = m
  BY <1>3, <1>11, <1>14 DEF Where
<1>18. \A i \in 1..n : /\ csv[f[i]] \in NoLoops /\ parts[i] \in EdgeRow
                      /\ stream[h[i]] = parts[i]
                      /\ StandsFor(parts[i], csv[f[i]], node_ids)
  <2>1. \A i \in 1..n : csv[f[i]] \in NoLoops
    BY <1>3, <1>11, <1>14 DEF Where
  <2>2. \A i \in 1..n : parts[i] \in EdgeRow
    BY <1>1, <1>2
  <2>3. \A i \in 1..n : StandsFor(parts[i], csv[f[i]], node_ids)
    BY <1>12, <1>14
  <2> QED
    BY <1>10, <2>1, <2>2, <2>3
<1>19. Arranged(h, f, n, c)
  BY <1>3, <1>5, <1>6, <1>10, <1>14, <1>15, <1>16, <1>17, <1>18 DEF Arranged
<1> QED
  BY <1>5, <1>8, <1>19

\* The edges of a moment and the rows of that moment, from the stream and the
\* file.
EdgesAt(t) == Only(stream, {e \in ToSet(stream) : e.ts = t})

RowsAt(t) == Only(csv, {r \in ToSet(csv) : ~IsLoop(r) /\ r.p.ts = t})

LEMMA MomentsAgree ==
  ASSUME NEW h, NEW f, NEW n, NEW c, Arranged(h, f, n, c), NEW t
  PROVE  /\ DOMAIN EdgesAt(t) = DOMAIN RowsAt(t)
         /\ \A k \in DOMAIN EdgesAt(t) :
              /\ EdgesAt(t)[k].ts = t /\ RowsAt(t)[k].p.ts = t
              /\ StandsFor(EdgesAt(t)[k], RowsAt(t)[k], node_ids)
<1>1. /\ n \in Nat /\ c \in Nat
      /\ DOMAIN parts = 1..n /\ DOMAIN stream = 1..n /\ DOMAIN csv = 1..c
      /\ h \in [1..n -> 1..n] /\ f \in [1..n -> 1..c]
  BY DEF Arranged
<1>2. /\ \A k \in 1..n : \E i \in 1..n : h[i] = k
      /\ \A i, j \in 1..n : i < j /\ parts[i].ts <= parts[j].ts => h[i] < h[j]
      /\ \A i, j \in 1..n : i < j => f[i] < f[j]
      /\ \A m \in 1..c : csv[m] \in NoLoops => \E i \in 1..n : f[i] = m
      /\ \A m \in 1..c : csv[m] \in CsvRow
  BY DEF Arranged
<1>3. \A i \in 1..n : /\ csv[f[i]] \in NoLoops /\ parts[i] \in EdgeRow
                     /\ stream[h[i]] = parts[i]
                     /\ StandsFor(parts[i], csv[f[i]], node_ids)
  BY DEF Arranged
<1>4. PICK P \in SUBSET (1..n) : P = {i \in 1..n : parts[i].ts = t}
  OBVIOUS
<1>5. PICK d \in Nat : d = Cardinality(P)
  BY <1>1, PlacesInOrder
<1>6. PICK A \in SUBSET (1..n) : A = {k \in 1..n : stream[k].ts = t}
  OBVIOUS
<1>7. EdgesAt(t) = PickedAt(stream, A)
  <2>1. {k \in DOMAIN stream : stream[k] \in {e \in ToSet(stream) : e.ts = t}} = A
    BY <1>1, <1>6 DEF ToSet
  <2> QED
    BY <2>1 DEF EdgesAt, Only
<1>8. PICK B \in SUBSET (1..c) : B = {m \in 1..c : csv[m] \in NoLoops /\ csv[m].p.ts = t}
  OBVIOUS
<1>9. RowsAt(t) = PickedAt(csv, B)
  <2>1. {k \in DOMAIN csv : csv[k] \in {r \in ToSet(csv) : ~IsLoop(r) /\ r.p.ts = t}} = B
    <3>1. \A m \in 1..c : csv[m] \in NoLoops <=> ~IsLoop(csv[m])
      BY <1>2 DEF NoLoops
    <3> QED
      BY <1>1, <1>8, <3>1 DEF ToSet
  <2> QED
    BY <2>1 DEF RowsAt, Only
<1>10. PICK g : g = [i \in P |-> h[i]]
  OBVIOUS
<1>11. Carries(g, P, A)
  <2>1. \A i \in P : g[i] = h[i] /\ h[i] \in A
    BY <1>1, <1>3, <1>4, <1>6, <1>10
  <2>2. g \in [P -> A]
    BY <1>10, <2>1
  <2>3. ASSUME NEW i \in P, NEW j \in P, i < j PROVE g[i] < g[j]
    <3>1. parts[i].ts <= parts[j].ts
      <4>1. parts[i].ts = t /\ parts[j].ts = t /\ parts[i].ts \in Int
        BY <1>3, <1>4 DEF EdgeRow
      <4> QED
        BY <4>1
    <3> QED
      BY <1>2, <2>1, <2>3, <3>1
  <2>4. ASSUME NEW q \in A PROVE \E i \in P : g[i] = q
    <3>1. PICK i \in 1..n : h[i] = q
      BY <1>2, <1>6
    <3>2. i \in P
      BY <1>3, <1>4, <1>6, <3>1
    <3> QED
      BY <2>1, <3>1, <3>2
  <2> QED
    BY <2>2, <2>3, <2>4 DEF Carries
<1>12. PICK z : z = [i \in P |-> f[i]]
  OBVIOUS
<1>13. Carries(z, P, B)
  <2>1. \A i \in 1..n : csv[f[i]].p.ts = parts[i].ts
    BY <1>3 DEF StandsFor
  <2>2. \A i \in P : z[i] = f[i] /\ f[i] \in B
    BY <1>1, <1>3, <1>4, <1>8, <1>12, <2>1
  <2>3. z \in [P -> B]
    BY <1>12, <2>2
  <2>4. \A i, j \in P : i < j => z[i] < z[j]
    BY <1>2, <2>2
  <2>5. ASSUME NEW q \in B PROVE \E i \in P : z[i] = q
    <3>1. PICK i \in 1..n : f[i] = q
      BY <1>2, <1>8
    <3>2. i \in P
      BY <1>4, <1>8, <2>1, <3>1
    <3> QED
      BY <2>2, <3>1, <3>2
  <2> QED
    BY <2>3, <2>4, <2>5 DEF Carries
<1>14. Cardinality(A) = d /\ \A k \in 1..d : Nth(k, A) = g[Nth(k, P)]
  <2>1. A \in SUBSET Int
    OBVIOUS
  <2>2. Cardinality(A) = Cardinality(P)
    BY <1>1, <1>11, <2>1, Carried
  <2>3. \A k \in 1..Cardinality(P) : Nth(k, A) = g[Nth(k, P)]
    BY <1>1, <1>11, <2>1, Carried
  <2> QED
    BY <1>5, <2>2, <2>3
<1>15. Cardinality(B) = d /\ \A k \in 1..d : Nth(k, B) = z[Nth(k, P)]
  <2>1. B \in SUBSET Int
    OBVIOUS
  <2>2. Cardinality(B) = Cardinality(P)
    BY <1>1, <1>13, <2>1, Carried
  <2>3. \A k \in 1..Cardinality(P) : Nth(k, B) = z[Nth(k, P)]
    BY <1>1, <1>13, <2>1, Carried
  <2> QED
    BY <1>5, <2>2, <2>3
<1>16. /\ DOMAIN EdgesAt(t) = 1..d /\ \A k \in 1..d : EdgesAt(t)[k] = stream[Nth(k, A)]
       /\ DOMAIN RowsAt(t) = 1..d /\ \A k \in 1..d : RowsAt(t)[k] = csv[Nth(k, B)]
  BY <1>7, <1>9, <1>14, <1>15 DEF PickedAt
<1>17. ASSUME NEW k \in 1..d
       PROVE  /\ EdgesAt(t)[k].ts = t /\ RowsAt(t)[k].p.ts = t
              /\ StandsFor(EdgesAt(t)[k], RowsAt(t)[k], node_ids)
  <2>1. PICK i \in P : i = Nth(k, P)
    <3>1. \A j \in 1..Cardinality(P) : Nth(j, P) \in P
      BY <1>1, PlacesInOrder
    <3> QED
      BY <1>5, <3>1
  <2>2. Nth(k, A) = h[i] /\ Nth(k, B) = f[i]
    BY <1>10, <1>12, <1>14, <1>15, <2>1
  <2>3. EdgesAt(t)[k] = parts[i] /\ RowsAt(t)[k] = csv[f[i]]
    BY <1>3, <1>16, <2>2
  <2>4. StandsFor(parts[i], csv[f[i]], node_ids) /\ parts[i].ts = t
    BY <1>3, <1>4
  <2> QED
    BY <2>3, <2>4 DEF StandsFor
<1> QED
  BY <1>16, <1>17

\* What the join matched: the labelled edges of the stream, and the loops.
LoopsMatched == {n \in DOMAIN csv : IsLoop(csv[n]) /\ RingOf(csv[n]) >= 0}

LEMMA MatchesCounted ==
  ASSUME NEW h, NEW f, NEW n, NEW c, Arranged(h, f, n, c),
         matched = Cardinality(Where(csv, Ringed))
  PROVE  matched = Cardinality(Labels(stream)) + Cardinality(LoopsMatched)
<1>1. /\ n \in Nat /\ c \in Nat
      /\ DOMAIN parts = 1..n /\ DOMAIN stream = 1..n /\ DOMAIN csv = 1..c
      /\ h \in [1..n -> 1..n] /\ f \in [1..n -> 1..c]
  BY DEF Arranged
<1>2. /\ \A i, j \in 1..n : h[i] = h[j] => i = j
      /\ \A k \in 1..n : \E i \in 1..n : h[i] = k
      /\ \A i, j \in 1..n : i < j => f[i] < f[j]
      /\ \A m \in 1..c : csv[m] \in NoLoops => \E i \in 1..n : f[i] = m
      /\ \A m \in 1..c : csv[m] \in CsvRow
  BY DEF Arranged
<1>3. \A i \in 1..n : /\ csv[f[i]] \in NoLoops /\ stream[h[i]] = parts[i]
                     /\ parts[i].ring = RingOf(csv[f[i]])
  BY DEF Arranged, StandsFor
<1>4. \A i, j \in 1..n : f[i] = f[j] => i = j
  <2>1. ASSUME NEW i \in 1..n, NEW j \in 1..n, f[i] = f[j], i # j PROVE FALSE
    <3>1. f[i] \in Int /\ f[j] \in Int /\ (i < j \/ j < i)
      BY <1>1, <2>1
    <3> QED
      BY <1>2, <2>1, <3>1
  <2> QED
    BY <2>1
<1>5. PICK P \in SUBSET (1..n) : P = {i \in 1..n : parts[i].ring >= 0}
  OBVIOUS
<1>6. IsFiniteSet(P)
  BY <1>1, PlacesInOrder
<1>7. PICK A : A = Labels(stream)
  OBVIOUS
<1>8. Cardinality(A) = Cardinality(P)
  <2>1. A = {k \in 1..n : stream[k].ring >= 0}
    BY <1>1, <1>7 DEF Labels
  <2>2. PICK g : g = [i \in P |-> h[i]]
    OBVIOUS
  <2>3. \A i \in P : g[i] = h[i] /\ h[i] \in A
    BY <1>1, <1>3, <1>5, <2>1, <2>2
  <2>4. g \in [P -> A]
    BY <2>2, <2>3
  <2>5. \A i, j \in P : g[i] = g[j] => i = j
    BY <1>2, <2>3
  <2>6. ASSUME NEW q \in A PROVE \E i \in P : g[i] = q
    <3>1. PICK i \in 1..n : h[i] = q
      BY <1>2, <2>1
    <3>2. i \in P
      BY <1>3, <1>5, <2>1, <3>1
    <3> QED
      BY <2>3, <3>1, <3>2
  <2> QED
    BY <1>6, <2>4, <2>5, <2>6, SameSize
<1>9. PICK B \in SUBSET (1..c) : B = {m \in 1..c : csv[m] \in NoLoops /\ RingOf(csv[m]) >= 0}
  OBVIOUS
<1>10. Cardinality(B) = Cardinality(P)
  <2>1. PICK g : g = [i \in P |-> f[i]]
    OBVIOUS
  <2>2. \A i \in P : g[i] = f[i] /\ f[i] \in B
    BY <1>1, <1>3, <1>5, <1>9, <2>1
  <2>3. g \in [P -> B]
    BY <2>1, <2>2
  <2>4. \A i, j \in P : g[i] = g[j] => i = j
    BY <1>4, <2>2
  <2>5. ASSUME NEW q \in B PROVE \E i \in P : g[i] = q
    <3>1. PICK i \in 1..n : f[i] = q
      BY <1>2, <1>9
    <3>2. i \in P
      BY <1>3, <1>5, <1>9, <3>1
    <3> QED
      BY <2>2, <3>1, <3>2
  <2> QED
    BY <1>6, <2>3, <2>4, <2>5, SameSize
<1>11. PICK V \in SUBSET (1..c) : V = LoopsMatched
  BY <1>1 DEF LoopsMatched
<1>12. \A m \in 1..c : csv[m] \in NoLoops <=> ~IsLoop(csv[m])
  BY <1>2 DEF NoLoops
<1>13. \A m \in 1..c : m \in V <=> csv[m] \notin NoLoops /\ RingOf(csv[m]) >= 0
  BY <1>1, <1>11, <1>12 DEF LoopsMatched
<1>14. B \cap V = {}
  BY <1>9, <1>13
<1>15. Where(csv, Ringed) = B \cup V
  <2>1. \A m \in 1..c : m \in Where(csv, Ringed) <=> RingOf(csv[m]) >= 0
    BY <1>1, <1>2 DEF Where, Ringed
  <2>2. Where(csv, Ringed) \subseteq 1..c
    BY <1>1 DEF Where
  <2> QED
    BY <1>9, <1>13, <2>1, <2>2
<1>16. IsFiniteSet(B) /\ IsFiniteSet(V)
  BY <1>1, PlacesInOrder
<1>17. Cardinality(B \cup V) = Cardinality(B) + Cardinality(V) - Cardinality(B \cap V)
  BY <1>16, FS_Union
<1>18. Cardinality(B \cap V) = 0
  BY <1>14, FS_EmptySet
<1>19. PICK b \in Nat, v \in Nat : b = Cardinality(B) /\ v = Cardinality(V)
  BY <1>1, PlacesInOrder
<1>20. Cardinality(B \cup V) = b + v
  BY <1>17, <1>18, <1>19
<1> QED
  BY <1>7, <1>8, <1>10, <1>11, <1>15, <1>19, <1>20

\* From the edges kept to the stream of the properties.
LEMMA StreamIsRight ==
  ASSUME StreamInv, rings \in Seq(RingType), stream = Sorted(parts)
  PROVE  StreamIsTheFile
<1>1. PICK h, f, n, c : Arranged(h, f, n, c)
  BY StreamArranged
<1>2. \A i \in 1..(Len(stream) - 1) : stream[i].ts <= stream[i + 1].ts
  BY StreamArranged
<1>3. ASSUME NEW t \in Moments
      PROVE  [k \in DOMAIN EdgesAt(t) |-> Named(EdgesAt(t)[k], node_ids)] =
              [k \in DOMAIN RowsAt(t) |->
                 [ts |-> t, from |-> Src(RowsAt(t)[k].p), to |-> Dst(RowsAt(t)[k].p),
                  label |-> RowsAt(t)[k].label, ring |-> RingOf(RowsAt(t)[k])]]
  <2>1. /\ DOMAIN EdgesAt(t) = DOMAIN RowsAt(t)
        /\ \A k \in DOMAIN EdgesAt(t) :
              /\ EdgesAt(t)[k].ts = t
              /\ StandsFor(EdgesAt(t)[k], RowsAt(t)[k], node_ids)
    BY <1>1, MomentsAgree
  <2>2. ASSUME NEW k \in DOMAIN EdgesAt(t)
        PROVE  Named(EdgesAt(t)[k], node_ids) =
                 [ts |-> t, from |-> Src(RowsAt(t)[k].p), to |-> Dst(RowsAt(t)[k].p),
                  label |-> RowsAt(t)[k].label, ring |-> RingOf(RowsAt(t)[k])]
    <3>1. PICK e, row : e = EdgesAt(t)[k] /\ row = RowsAt(t)[k]
      OBVIOUS
    <3>2. e.ts = t /\ StandsFor(e, row, node_ids)
      BY <2>1, <3>1
    <3>3. Named(e, node_ids) =
            [ts |-> t, from |-> Src(row.p), to |-> Dst(row.p), label |-> row.label,
             ring |-> RingOf(row)]
      BY <3>2 DEF Named, StandsFor
    <3> QED
      BY <3>1, <3>3
  <2> QED
    BY <2>1, <2>2
<1>4. matched = Cardinality(Labels(stream)) + Cardinality(LoopsMatched)
  <2>1. matched = Cardinality(Where(csv, Ringed))
    BY DEF StreamInv
  <2> QED
    BY <1>1, <2>1, MatchesCounted
<1>5. ASSUME NEW r \in DOMAIN rings, NEW m \in DOMAIN csv,
             csv[m].label = 1 /\ ~IsLoop(csv[m]) /\ Claims(csv[m].p, r),
             \A s \in 1..(r - 1) : ~Claims(csv[m].p, s)
      PROVE  \E e \in ToSet(stream) : e.ring = r - 1 /\ e.ts = csv[m].p.ts
  <2>1. RingOf(csv[m]) = r - 1
    <3>1. \A row : \A q \in DOMAIN rings :
              row.label = 1 /\ Claims(row.p, q) /\ (\A s \in 1..(q - 1) : ~Claims(row.p, s)) =>
                RingOf(row) = q - 1
      BY RingOfIs
    <3>2. PICK row : row = csv[m]
      OBVIOUS
    <3>3. row.label = 1 /\ Claims(row.p, r) /\ \A s \in 1..(r - 1) : ~Claims(row.p, s)
      BY <1>5, <3>2
    <3>4. RingOf(row) = r - 1
      BY <3>1, <3>3
    <3> QED
      BY <3>2, <3>4
  <2>2. /\ n \in Nat /\ DOMAIN stream = 1..n /\ DOMAIN csv = 1..c /\ h \in [1..n -> 1..n]
        /\ \A l \in 1..c : csv[l] \in NoLoops => \E i \in 1..n : f[i] = l
        /\ \A l \in 1..c : csv[l] \in CsvRow
    BY <1>1 DEF Arranged
  <2>3. csv[m] \in NoLoops
    BY <1>5, <2>2 DEF NoLoops
  <2>4. PICK i \in 1..n : f[i] = m
    BY <2>2, <2>3
  <2>5. stream[h[i]] = parts[i] /\ StandsFor(parts[i], csv[m], node_ids)
    BY <1>1, <2>4 DEF Arranged
  <2>6. stream[h[i]].ring = r - 1 /\ stream[h[i]].ts = csv[m].p.ts
    BY <2>1, <2>5 DEF StandsFor
  <2>7. h[i] \in DOMAIN stream
    BY <2>2
  <2> QED
    BY <2>6, <2>7 DEF ToSet
<1> QED
  BY <1>2, <1>3, <1>4, <1>5 DEF StreamIsTheFile, EdgesAt, RowsAt, LoopsMatched

\* The registry: the first row of a key, in the order of the file.
LEMMA RegistryIsRight ==
  ASSUME NEW file \in AccountFiles, registry = Registered(file)
  PROVE  RegistryJoins
<1>1. file \in Seq(ToSet(file))
  BY IngestionAssumption
<1>2. PICK c \in Nat : c = Len(file)
  BY <1>1
<1>3. DOMAIN file = 1..c
  BY <1>1, <1>2
<1>4. PICK banked \in SUBSET (1..c) : banked = {n \in 1..c : file[n].bank # <<>>}
  OBVIOUS
<1>5. PICK key : key = [n \in banked |-> account_key(file[n].bank)]
  OBVIOUS
<1>6. PICK P \in SUBSET (1..c) :
        P = {n \in banked : \A m \in banked : m < n => key[m] # key[n]}
  OBVIOUS
<1>7. PICK d \in Nat : d = Cardinality(P)
  BY PlacesInOrder
<1>8. PICK first : first = PickedAt(file, P)
  OBVIOUS
<1>9. DOMAIN first = 1..d /\ \A k \in 1..d : first[k] = file[Nth(k, P)]
  BY <1>7, <1>8 DEF PickedAt
<1>10. registry = [n \in 1..d |-> [key |-> account_key(first[n].bank), entity |-> first[n].entity]]
  <2>1. banked = {n \in DOMAIN file : file[n].bank # <<>>}
    BY <1>3, <1>4
  <2>2. first = PickedAt(file, {n \in banked : \A m \in banked : m < n => key[m] # key[n]})
    BY <1>6, <1>8
  <2>3. Registered(file) =
          [n \in DOMAIN first |-> [key |-> account_key(first[n].bank), entity |-> first[n].entity]]
    BY <1>5, <2>1, <2>2, Zenon DEF Registered
  <2> QED
    BY <1>9, <2>3
<1>11. /\ \A k \in 1..d : Nth(k, P) \in P
       /\ \A m \in P : \E k \in 1..d : Nth(k, P) = m
       /\ \A j, k \in 1..d : Nth(j, P) = Nth(k, P) => j = k
  <2>1. /\ \A k \in 1..Cardinality(P) : Nth(k, P) \in P
        /\ \A m \in P : \E k \in 1..Cardinality(P) : Nth(k, P) = m
        /\ \A j, k \in 1..Cardinality(P) : Nth(j, P) = Nth(k, P) => j = k
    BY PlacesInOrder
  <2> QED
    BY <1>7, <2>1
<1>12. \A k \in 1..d : registry[k].key = key[Nth(k, P)]
  BY <1>5, <1>6, <1>9, <1>10, <1>11
<1>13. \A m, n \in P : key[m] = key[n] => m = n
  <2>1. ASSUME NEW m \in P, NEW n \in P, key[m] = key[n], m # n PROVE FALSE
    <3>1. m \in Int /\ n \in Int
      OBVIOUS
    <3>2. m < n \/ n < m
      BY <2>1, <3>1
    <3> QED
      BY <1>6, <2>1, <3>2
  <2> QED
    BY <2>1
<1>14. DOMAIN registry = 1..d
  BY <1>10
<1>15. ASSUME NEW m \in 1..d, NEW n \in 1..d, registry[m].key = registry[n].key PROVE m = n
  <2>1. key[Nth(m, P)] = key[Nth(n, P)]
    BY <1>12, <1>15
  <2>2. Nth(m, P) = Nth(n, P)
    BY <1>11, <1>13, <2>1
  <2> QED
    BY <1>11, <2>2
<1>16. ASSUME NEW i \in 1..c, file[i].bank # <<>>
       PROVE  \E k \in 1..d : registry[k].key = account_key(file[i].bank)
  <2>1. PICK S \in SUBSET (1..c) : S = {m \in banked : key[m] = key[i]}
    OBVIOUS
  <2>2. i \in S
    BY <1>4, <1>16, <2>1
  <2>3. IsFiniteSet(S) /\ S \subseteq Int
    <3>1. IsFiniteSet(S)
      BY PlacesInOrder
    <3> QED
      BY <3>1
  <2>4. PICK n \in S : \A m \in S : n <= m
    BY <2>2, <2>3, Extremes
  <2>5. n \in P
    <3>1. ASSUME NEW m \in banked, m < n, key[m] = key[n] PROVE FALSE
      <4>1. m \in S /\ m \in Int /\ n \in Int
        BY <2>1, <3>1
      <4> QED
        BY <2>4, <3>1, <4>1
    <3> QED
      BY <1>6, <2>1, <3>1
  <2>6. PICK k \in 1..d : Nth(k, P) = n
    BY <1>11, <2>5
  <2>7. registry[k].key = key[i] /\ key[i] = account_key(file[i].bank)
    BY <1>4, <1>5, <1>12, <1>16, <2>1, <2>6
  <2> QED
    BY <2>7
<1>17. \A row \in ToSet(file) :
         row.bank # <<>> => \E r \in ToSet(registry) : r.key = account_key(row.bank)
  BY <1>3, <1>14, <1>16 DEF ToSet
<1>18. \A n \in 1..d : registry[n] = [key |-> registry[n].key, entity |-> registry[n].entity]
  BY <1>10
<1>19. ASSUME NEW n \in 1..d, NEW other \in siblings(registry[n].key)
       PROVE  registry[n].key \in siblings(other)
  <2>1. PICK m \in 1..d :
          /\ other = registry[m].key /\ registry[m].key # registry[n].key
          /\ registry[m].entity # ""
          /\ [key |-> registry[n].key, entity |-> registry[m].entity] \in ToSet(registry)
    BY <1>14, <1>19 DEF siblings
  <2>2. PICK l \in 1..d :
          registry[l] = [key |-> registry[n].key, entity |-> registry[m].entity]
    BY <1>14, <2>1 DEF ToSet
  <2>3. registry[l].key = registry[n].key /\ registry[l].entity = registry[m].entity
    BY <2>2
  <2>4. [key |-> other, entity |-> registry[l].entity] = registry[m]
    BY <1>18, <2>1, <2>3
  <2>5. registry[m] \in ToSet(registry)
    BY <1>14 DEF ToSet
  <2>6. /\ registry[l].key # other /\ registry[l].entity # ""
        /\ [key |-> other, entity |-> registry[l].entity] \in ToSet(registry)
    BY <2>1, <2>3, <2>4, <2>5
  <2>7. registry[l].key \in siblings(other)
    BY <1>14, <2>6 DEF siblings
  <2> QED
    BY <2>3, <2>7
<1> QED
  BY <1>14, <1>15, <1>17, <1>19 DEF RegistryJoins

\* At most room of a set are on a stride, when they are counted in strides.
OnStride(n, S, stride, room) ==
  Rank(n, S) % stride = 0 /\ Rank(n, S) \div stride < room

Strided(S, stride, room) == {n \in S : OnStride(n, S, stride, room)}

LEMMA StridedAreFew ==
  ASSUME NEW S, IsFiniteSet(S), S \subseteq Int, NEW stride \in Nat \ {0}, NEW room \in Nat
  PROVE  Cardinality(Strided(S, stride, room)) <= room
<1>1. PICK c \in Nat : c = Cardinality(S)
  BY FS_CardinalityType
<1>2. /\ \A x \in S : Rank(x, S) \in 0..(c - 1)
      /\ \A x, y \in S : Rank(x, S) = Rank(y, S) => x = y
  BY <1>1, RanksAre
<1>3. PICK G : G = Strided(S, stride, room)
  OBVIOUS
<1>4. G \in SUBSET S /\ \A n \in G : OnStride(n, S, stride, room)
  BY <1>3 DEF Strided
<1>5. IsFiniteSet(G)
  BY <1>4, FS_Subset
<1>6. PICK u : u = [n \in G |-> Rank(n, S) \div stride]
  OBVIOUS
<1>7. PICK T : T = {u[n] : n \in G}
  OBVIOUS
<1>8. ASSUME NEW n \in G
      PROVE  /\ u[n] \in 0..(room - 1) /\ Rank(n, S) = stride * u[n]
  <2>1. PICK k \in Nat : k = Rank(n, S)
    BY <1>2, <1>4
  <2>2. k % stride = 0 /\ k \div stride < room
    BY <1>4, <2>1 DEF OnStride
  <2>3. PICK d \in Nat : d = k \div stride
    BY QuotientIs
  <2>4. k = stride * d + 0
    BY <2>2, <2>3, QuotientIs
  <2>5. k = stride * d
    BY <2>4
  <2>6. u[n] = d
    BY <1>6, <2>1, <2>3
  <2>7. d \in 0..(room - 1)
    BY <2>2, <2>3
  <2> QED
    BY <2>1, <2>5, <2>6, <2>7
<1>9. \A m, n \in G : u[m] = u[n] => m = n
  BY <1>2, <1>4, <1>8
<1>10. Cardinality(T) = Cardinality(G) /\ IsFiniteSet(T)
  <2>1. u \in [G -> T]
    BY <1>6, <1>7
  <2>2. \A z \in T : \E n \in G : u[n] = z
    BY <1>7
  <2> QED
    BY <1>5, <1>9, <2>1, <2>2, SameSize
<1>11. PICK J : J = 0..(room - 1)
  OBVIOUS
<1>12. IsFiniteSet(J) /\ Cardinality(J) = room
  <2>1. 0 \in Int /\ room - 1 \in Int
    OBVIOUS
  <2>2. IsFiniteSet(0..(room - 1))
    BY <2>1, FS_Interval
  <2>3. Cardinality(0..(room - 1)) = IF 0 > room - 1 THEN 0 ELSE (room - 1) - 0 + 1
    BY <2>1, FS_Interval
  <2>4. (IF 0 > room - 1 THEN 0 ELSE (room - 1) - 0 + 1) = room
    OBVIOUS
  <2> QED
    BY <1>11, <2>2, <2>3, <2>4
<1>13. T \in SUBSET J
  BY <1>7, <1>8, <1>11
<1>14. Cardinality(T) <= Cardinality(J)
  BY <1>12, <1>13, FS_Subset
<1> QED
  BY <1>3, <1>10, <1>12, <1>14

\* What is thinned keeps every labelled edge, and no more than was asked for
\* unless the labelled ones alone are more.
LEMMA ThinnedKeeps ==
  ASSUME NEW q \in Nat, NEW idx \in SUBSET (1..q), Labels(Slice) \in SUBSET idx,
         NEW max_edges \in Nat
  PROVE  /\ Thinned(idx, max_edges) \in SUBSET idx
         /\ Labels(Slice) \in SUBSET Thinned(idx, max_edges)
         /\ \/ Cardinality(Thinned(idx, max_edges)) <= max_edges
            \/ Cardinality(Thinned(idx, max_edges)) <= Cardinality(Labels(Slice))
<1>1. PICK ring_idx \in SUBSET (1..q) : ring_idx = idx \cap Labels(Slice)
  OBVIOUS
<1>2. ring_idx = Labels(Slice)
  BY <1>1
<1>3. PICK bg \in SUBSET (1..q) : bg = idx \ ring_idx
  OBVIOUS
<1>4. PICK c \in Nat, g \in Nat : c = Cardinality(ring_idx) /\ g = Cardinality(bg)
  BY PlacesInOrder
<1>5. PICK room : room = Max({0, max_edges - c})
  OBVIOUS
<1>6. room \in {0, max_edges - c} /\ room \in Nat
  <2>1. max_edges - c \in Int
    OBVIOUS
  <2>2. room \in {0, max_edges - c} /\ room >= 0
    BY <1>5, <2>1, GreaterIs
  <2> QED
    BY <2>1, <2>2
<1>7. PICK stride : stride = IF room = 0 THEN g + 1 ELSE Max({1, g \div room})
  OBVIOUS
<1>8. stride \in Nat \ {0}
  <2>1. CASE room = 0
    BY <1>7, <2>1
  <2>2. CASE room # 0
    <3>1. g \div room \in Nat
      <4>1. PICK v \in Nat \ {0} : v = room
        BY <1>6, <2>2
      <4>2. g \div v \in Nat
        BY QuotientIs
      <4> QED
        BY <4>1, <4>2
    <3>2. PICK w \in Nat : w = g \div room
      BY <3>1
    <3>3. w \in Int /\ 1 \in Int
      OBVIOUS
    <3>4. Max({1, w}) \in {1, w} /\ Max({1, w}) >= 1
      BY <3>3, GreaterIs
    <3>5. stride = Max({1, w})
      BY <1>7, <2>2, <3>2
    <3> QED
      BY <3>4, <3>5
  <2> QED
    BY <2>1, <2>2
<1>9. IsFiniteSet(bg) /\ IsFiniteSet(ring_idx) /\ bg \subseteq Int
  BY PlacesInOrder
<1>10. PICK G : G = Strided(bg, stride, room)
  OBVIOUS
<1>11. G \in SUBSET bg /\ G \in SUBSET (1..q)
  BY <1>10 DEF Strided
<1>12. IsFiniteSet(G)
  BY <1>11, PlacesInOrder
<1>13. Cardinality(G) <= room
  BY <1>8, <1>6, <1>9, <1>10, StridedAreFew
<1>14. Thinned(idx, max_edges) = IF Cardinality(idx) <= max_edges THEN idx ELSE ring_idx \cup G
  <2>1. {n \in bg : /\ Rank(n, bg) % stride = 0
                    /\ Rank(n, bg) \div stride < room} = G
    BY <1>10 DEF Strided, OnStride
  <2> QED
    BY <1>1, <1>3, <1>4, <1>5, <1>7, <2>1, Zenon DEF Thinned
<1>15. CASE Cardinality(idx) <= max_edges
  BY <1>14, <1>15
<1>16. CASE ~(Cardinality(idx) <= max_edges)
  <2>1. Thinned(idx, max_edges) = ring_idx \cup G
    BY <1>14, <1>16
  <2>2. PICK e \in Nat : e = Cardinality(G)
    BY <1>11, PlacesInOrder
  <2>3. Cardinality(ring_idx \cup G) = c + e - Cardinality(ring_idx \cap G)
    BY <1>4, <1>9, <1>12, <2>2, FS_Union
  <2>4. Cardinality(ring_idx \cap G) = 0
    <3>1. ring_idx \cap G = {}
      BY <1>3, <1>11
    <3> QED
      BY <3>1, FS_EmptySet
  <2>5. Cardinality(ring_idx \cup G) = c + e
    BY <2>3, <2>4
  <2>6. e <= room
    BY <1>13, <2>2
  <2>7. c + e <= max_edges \/ c + e <= c
    BY <1>6, <2>6
  <2>8. ring_idx \cup G \in SUBSET idx
    BY <1>1, <1>3, <1>11
  <2> QED
    BY <1>2, <1>4, <2>1, <2>5, <2>7, <2>8
<1> QED
  BY <1>15, <1>16

\* In the order of time.
Ascends(s) == \A j, k \in DOMAIN s : j < k => s[j].ts <= s[k].ts

LEMMA PickedAscends ==
  ASSUME NEW T, NEW s \in Seq(T), Ascends(s), NEW P \in SUBSET (DOMAIN s)
  PROVE  Ascends(PickedAt(s, P))
<1>1. PICK n \in Nat : n = Len(s)
  OBVIOUS
<1>2. DOMAIN s = 1..n /\ P \in SUBSET (1..n)
  BY <1>1
<1>3. PICK c \in Nat : c = Cardinality(P)
  BY <1>2, PlacesInOrder
<1>4. PICK p : p = PickedAt(s, P)
  OBVIOUS
<1>5. DOMAIN p = 1..c /\ \A k \in 1..c : p[k] = s[Nth(k, P)]
  BY <1>3, <1>4 DEF PickedAt
<1>6. /\ \A k \in 1..c : Nth(k, P) \in P
      /\ \A j, k \in 1..c : j < k => Nth(j, P) < Nth(k, P)
  <2>1. /\ \A k \in 1..Cardinality(P) : Nth(k, P) \in P
        /\ \A j, k \in 1..Cardinality(P) : j < k => Nth(j, P) < Nth(k, P)
    BY <1>2, PlacesInOrder
  <2> QED
    BY <1>3, <2>1
<1>7. Ascends(p)
  <2>1. ASSUME NEW j \in 1..c, NEW k \in 1..c, j < k PROVE p[j].ts <= p[k].ts
    <3>1. PICK x \in P, y \in P : x = Nth(j, P) /\ y = Nth(k, P) /\ x < y
      BY <1>6, <2>1
    <3>2. s[x].ts <= s[y].ts
      BY <1>2, <3>1 DEF Ascends
    <3> QED
      BY <1>5, <3>1, <3>2
  <2> QED
    BY <1>5, <2>1 DEF Ascends
<1> QED
  BY <1>4, <1>7

\* The stream as build_fixture finds it.
StreamFit ==
  /\ stream \in Seq(EdgeRow) /\ Ascends(stream)
  /\ \A n \in DOMAIN stream : Ends(stream[n]) \in SUBSET (0..(Len(node_ids) - 1))
  /\ Len(node_ids) \in Nat

LEMMA StreamIsFit ==
  ASSUME StreamInv, stream = Sorted(parts)
  PROVE  StreamFit
<1>1. stream \in Seq(EdgeRow) /\ \E h, f, n, c : Arranged(h, f, n, c)
  BY StreamArranged
<1>2. PICK h, f, n, c : Arranged(h, f, n, c)
  BY <1>1
<1>3. Ascends(stream)
  <2>1. parts \in Seq(EdgeRow) /\ \A e \in EdgeRow : e.ts \in Int
    BY DEF StreamInv, StreamTyped, EdgeRow
  <2>2. \A j, k \in DOMAIN parts : j < k => Sorted(parts)[j].ts <= Sorted(parts)[k].ts
    BY <2>1, SortedIs
  <2>3. DOMAIN stream = DOMAIN parts
    BY <1>2 DEF Arranged
  <2> QED
    BY <2>2, <2>3 DEF Ascends
<1>4. Len(node_ids) \in Nat
  <2>1. node_ids \in Seq(Names)
    BY DEF StreamInv, StreamTyped
  <2> QED
    BY <2>1
<1>5. ASSUME NEW k \in DOMAIN stream
      PROVE  Ends(stream[k]) \in SUBSET (0..(Len(node_ids) - 1))
  <2>1. PICK i \in 1..n : h[i] = k
    BY <1>2 DEF Arranged
  <2>2. stream[k] = parts[i] /\ StandsFor(parts[i], csv[f[i]], node_ids)
    BY <1>2, <2>1 DEF Arranged
  <2>3. stream[k].src \in 0..(Len(node_ids) - 1) /\ stream[k].dst \in 0..(Len(node_ids) - 1)
    BY <2>2 DEF StandsFor
  <2> QED
    BY <2>3 DEF Ends
<1> QED
  BY <1>1, <1>3, <1>4, <1>5 DEF StreamFit

LEMMA SliceIs ==
  ASSUME StreamFit
  PROVE  /\ Slice \in Seq(EdgeRow) /\ Ascends(Slice) /\ Len(Slice) \in Nat
         /\ \A n \in DOMAIN Slice :
              /\ Ends(Slice[n]) \in SUBSET (0..(Len(node_ids) - 1))
              /\ Slice[n] \in ToSet(stream)
         /\ \A e \in InSlice : \E n \in DOMAIN Slice : Slice[n] = e
<1>1. /\ stream \in Seq(EdgeRow) /\ Ascends(stream)
      /\ \A n \in DOMAIN stream : Ends(stream[n]) \in SUBSET (0..(Len(node_ids) - 1))
  BY DEF StreamFit
<1>2. PICK P \in SUBSET (DOMAIN stream) : P = Where(stream, InSlice)
  BY DEF Where
<1>3. Slice = PickedAt(stream, P)
  BY <1>2 DEF Slice, Only, Where
<1>4. Slice \in Seq(EdgeRow)
  BY <1>1, <1>3, PickedIs
<1>5. Ascends(Slice)
  BY <1>1, <1>3, PickedAscends
<1>6. \A n \in DOMAIN Slice : \E i \in DOMAIN stream : Slice[n] = stream[i]
  BY <1>1, OnlyIs DEF Slice
<1>7. \A n \in DOMAIN Slice :
              /\ Ends(Slice[n]) \in SUBSET (0..(Len(node_ids) - 1))
              /\ Slice[n] \in ToSet(stream)
  BY <1>1, <1>6 DEF ToSet
<1>8. \A i \in DOMAIN stream : stream[i] \in InSlice => \E n \in DOMAIN Slice : Slice[n] = stream[i]
  BY <1>1, OnlyIs DEF Slice
<1>9. \A e \in InSlice : \E i \in DOMAIN stream : e = stream[i]
  BY DEF InSlice, ToSet
<1>10. \A e \in InSlice : \E n \in DOMAIN Slice : Slice[n] = e
  BY <1>8, <1>9
<1>11. Len(Slice) \in Nat
  BY <1>4
<1> QED
  BY <1>4, <1>5, <1>7, <1>10, <1>11

\* A fixture fx that holds the places idx of the slice, under new ids, and no
\* more than m of them unless the labelled edges are more.
FrozenFrom(fx, idx, m) ==
  /\ idx \in SUBSET (DOMAIN Slice) /\ Labels(Slice) \in SUBSET idx
  /\ Cardinality(idx) <= m \/ Cardinality(idx) <= Cardinality(Labels(Slice))
  /\ fx.edges \in Seq(EdgeRow) /\ Len(fx.edges) = Cardinality(idx) /\ Ascends(fx.edges)
  /\ \A k \in 1..Cardinality(idx) :
       Named(fx.edges[k], fx.node_keys) = Named(Slice[Nth(k, idx)], node_ids)

\* Ids are renumbered by rank, and the keys by the same ranks.
LEMMA RenumberedIs ==
  ASSUME NEW used, IsFiniteSet(used), used \subseteq Nat, NEW x \in used, NEW keys,
         keys = [k \in 1..Cardinality(used) |-> node_ids[Nth(k, used) + 1]]
  PROVE  Rank(x, used) \in Nat /\ keys[Rank(x, used) + 1] = node_ids[x + 1]
<1>1. PICK c \in Nat : c = Cardinality(used)
  BY FS_CardinalityType
<1>2. used \subseteq Int
  OBVIOUS
<1>3. /\ \A y \in used : Rank(y, used) \in 0..(c - 1)
      /\ \A y, z \in used : Rank(y, used) = Rank(z, used) => y = z
  BY <1>1, <1>2, RanksAre
<1>4. \A k \in 1..c : Nth(k, used) \in used /\ Rank(Nth(k, used), used) = k - 1
  BY <1>1, <1>2, NthIs
<1>5. PICK r \in 0..(c - 1) : r = Rank(x, used)
  BY <1>3
<1>6. r + 1 \in 1..c /\ (r + 1) - 1 = r
  OBVIOUS
<1>7. Nth(r + 1, used) = x
  <2>1. Nth(r + 1, used) \in used /\ Rank(Nth(r + 1, used), used) = r
    BY <1>4, <1>6
  <2> QED
    BY <1>3, <1>5, <2>1
<1>8. keys[r + 1] = node_ids[x + 1]
  BY <1>1, <1>6, <1>7
<1> QED
  BY <1>5, <1>8

LEMMA FixtureIs ==
  ASSUME StreamFit, NEW max_edges \in MaxEdges, BuildFixture(max_edges)
  PROVE  \E idx : FrozenFrom(fixture', idx, max_edges)
<1>1. /\ Slice \in Seq(EdgeRow) /\ Ascends(Slice) /\ Len(Slice) \in Nat
      /\ \A n \in DOMAIN Slice :
              /\ Ends(Slice[n]) \in SUBSET (0..(Len(node_ids) - 1))
              /\ Slice[n] \in ToSet(stream)
  BY SliceIs
<1>2. PICK q \in Nat : q = Len(Slice)
  BY <1>1
<1>3. DOMAIN Slice = 1..q
  BY <1>1, <1>2
<1>4. max_edges \in Nat
  BY IngestionAssumption
<1>5. Touching \in SUBSET (1..q) /\ Labels(Slice) \in SUBSET Touching
  <2>1. Touching \in SUBSET (1..q) /\ Labels(Slice) \in SUBSET (1..q)
    BY <1>3 DEF Touching, Labels
  <2>2. ASSUME NEW n \in Labels(Slice) PROVE n \in Touching
    <3>1. Slice[n].src \in Ends(Slice[n])
      BY DEF Ends
    <3>2. Slice[n].src \in keep
      BY <3>1 DEF keep, ring_nodes
    <3>3. Ends(Slice[n]) \cap keep # {}
      BY <3>1, <3>2
    <3> QED
      BY <1>3, <2>1, <3>3 DEF Touching
  <2> QED
    BY <2>1, <2>2
<1>6. PICK idx \in SUBSET (1..q) : idx = Thinned(Touching, max_edges)
  BY <1>4, <1>5, ThinnedKeeps
<1>7. /\ Labels(Slice) \in SUBSET idx
      /\ Cardinality(idx) <= max_edges \/ Cardinality(idx) <= Cardinality(Labels(Slice))
  BY <1>4, <1>5, <1>6, ThinnedKeeps
<1>8. PICK d \in Nat : d = Cardinality(idx)
  BY PlacesInOrder
<1>9. PICK used : used = UNION {Ends(Slice[n]) : n \in idx}
  OBVIOUS
<1>10. IsFiniteSet(used) /\ used \subseteq Nat
  <2>1. PICK w \in Nat : w = Len(node_ids)
    BY DEF StreamFit
  <2>2. PICK W : W = 0..(w - 1)
    OBVIOUS
  <2>3. IsFiniteSet(W) /\ W \subseteq Nat
    <3>1. 0 \in Int /\ w - 1 \in Int
      OBVIOUS
    <3>2. IsFiniteSet(0..(w - 1))
      BY <3>1, FS_Interval
    <3> QED
      BY <2>2, <3>2
  <2>4. used \in SUBSET W
    BY <1>1, <1>3, <1>9, <2>1, <2>2
  <2> QED
    BY <2>3, <2>4, FS_Subset
<1>11. PICK kept : kept = PickedAt(Slice, idx)
  OBVIOUS
<1>12. idx \in SUBSET (DOMAIN Slice)
  BY <1>3
<1>13. kept \in Seq(EdgeRow) /\ Len(kept) = d /\ \A k \in 1..d : kept[k] = Slice[Nth(k, idx)]
  BY <1>1, <1>8, <1>11, <1>12, PickedIs
<1>14. DOMAIN kept = 1..d /\ Ascends(kept)
  <2>1. DOMAIN kept = 1..d
    BY <1>13
  <2> QED
    BY <1>1, <1>11, <1>12, <2>1, PickedAscends
<1>15. \A k \in 1..d : Nth(k, idx) \in idx
  <2>1. \A k \in 1..Cardinality(idx) : Nth(k, idx) \in idx
    BY PlacesInOrder
  <2> QED
    BY <1>8, <2>1
<1>16. PICK renumbered :
         renumbered = [k \in 1..d |-> [kept[k] EXCEPT !.src = Rank(kept[k].src, used),
                                                  !.dst = Rank(kept[k].dst, used)]]
  OBVIOUS
<1>17. PICK keys : keys = [k \in 1..Cardinality(used) |-> node_ids[Nth(k, used) + 1]]
  OBVIOUS
<1>18. ASSUME NEW k \in 1..d
       PROVE  /\ renumbered[k] \in EdgeRow /\ renumbered[k].ts = kept[k].ts
              /\ Named(renumbered[k], keys) = Named(Slice[Nth(k, idx)], node_ids)
  <2>1. PICK e \in EdgeRow : e = kept[k]
    BY <1>13
  <2>2. e = Slice[Nth(k, idx)] /\ Nth(k, idx) \in idx
    BY <1>13, <1>15, <2>1
  <2>3. e.src \in used /\ e.dst \in used
    <3>1. \A n \in idx : \A y \in Ends(Slice[n]) : y \in used
      BY <1>9
    <3>2. \A y \in Ends(e) : y \in used
      BY <2>2, <3>1
    <3> QED
      BY <3>2 DEF Ends
  <2>4. PICK s \in Nat : s = Rank(e.src, used) /\ keys[s + 1] = node_ids[e.src + 1]
    <3>1. PICK x \in used : x = e.src
      BY <2>3
    <3>2. Rank(x, used) \in Nat
      BY <1>10, <1>17, RenumberedIs
    <3>3. keys[Rank(x, used) + 1] = node_ids[x + 1]
      BY <1>10, <1>17, RenumberedIs
    <3> QED
      BY <3>1, <3>2, <3>3
  <2>5. PICK t \in Nat : t = Rank(e.dst, used) /\ keys[t + 1] = node_ids[e.dst + 1]
    <3>1. PICK x \in used : x = e.dst
      BY <2>3
    <3>2. Rank(x, used) \in Nat
      BY <1>10, <1>17, RenumberedIs
    <3>3. keys[Rank(x, used) + 1] = node_ids[x + 1]
      BY <1>10, <1>17, RenumberedIs
    <3> QED
      BY <3>1, <3>2, <3>3
  <2>6. renumbered[k] = [e EXCEPT !.src = s, !.dst = t]
    BY <1>16, <2>1, <2>4, <2>5
  <2>7. renumbered[k] = [ts |-> e.ts, src |-> s, dst |-> t, label |-> e.label, ring |-> e.ring]
    BY <2>6 DEF EdgeRow
  <2>8. renumbered[k] \in EdgeRow
    BY <2>7 DEF EdgeRow
  <2>9. Named(renumbered[k], keys) = Named(e, node_ids)
    BY <2>4, <2>5, <2>7 DEF Named
  <2> QED
    BY <2>1, <2>2, <2>7, <2>8, <2>9
<1>19. renumbered \in Seq(EdgeRow) /\ Len(renumbered) = d /\ DOMAIN renumbered = 1..d
  <2>1. renumbered \in [1..d -> EdgeRow]
    BY <1>16, <1>18
  <2> QED
    BY <2>1, AsSequence
<1>20. Ascends(renumbered)
  BY <1>14, <1>18, <1>19 DEF Ascends
<1>21. Sorted(renumbered) = renumbered
  <2>1. \A e \in EdgeRow : e.ts \in Int
    BY DEF EdgeRow
  <2>2. \A i, j \in DOMAIN renumbered : i < j => renumbered[i].ts <= renumbered[j].ts
    BY <1>20 DEF Ascends
  <2> QED
    BY <1>19, <2>1, <2>2, SortedStays
<1>22. fixture' = [edges |-> renumbered, node_keys |-> keys]
  <2>1. fixture' = [edges |-> Sorted(renumbered), node_keys |-> keys]
    BY <1>6, <1>9, <1>11, <1>14, <1>16, <1>17 DEF BuildFixture
  <2> QED
    BY <1>21, <2>1
<1>23. fixture'.edges = renumbered /\ fixture'.node_keys = keys
  BY <1>22
<1>24. FrozenFrom(fixture', idx, max_edges)
  BY <1>7, <1>8, <1>12, <1>18, <1>19, <1>20, <1>23 DEF FrozenFrom
<1> QED
  BY <1>24

\* Active rings by the accounts' names alone.
LiveAt(edges, now) ==
  {e \in ToSet(edges) : now - Window <= e.ts /\ e.ts < now /\ e.ring >= 0}

NamesIn(live, keys, r) ==
  UNION {{keys[e.src + 1], keys[e.dst + 1]} : e \in {x \in live : x.ring = r}}

LiveNamed(live, keys) == {Named(e, keys) : e \in live}

MembersOf(named, r) == UNION {{y.from, y.to} : y \in {z \in named : z.ring = r}}

Gated(named) ==
  {[ring |-> r, members |-> MembersOf(named, r)] :
     r \in {x \in {y.ring : y \in named} : Cardinality(MembersOf(named, x)) >= MinNodes}}

LEMMA NamedIs ==
  ASSUME NEW e, NEW keys
  PROVE  /\ Named(e, keys).ts = e.ts /\ Named(e, keys).ring = e.ring
         /\ Named(e, keys).from = keys[e.src + 1] /\ Named(e, keys).to = keys[e.dst + 1]
BY DEF Named

LEMMA ActiveRingsAre ==
  ASSUME NEW edges, NEW keys, NEW tick
  PROVE  ActiveRings(edges, keys, tick) =
           Gated(LiveNamed(LiveAt(edges, edges[1].ts + tick + 1), keys))
<1>1. PICK live : live = LiveAt(edges, edges[1].ts + tick + 1)
  OBVIOUS
<1>2. PICK named : named = LiveNamed(live, keys)
  OBVIOUS
<1>3. ASSUME NEW r PROVE NamesIn(live, keys, r) = MembersOf(named, r)
  <2>1. ASSUME NEW a \in NamesIn(live, keys, r) PROVE a \in MembersOf(named, r)
    <3>1. PICK e \in live : e.ring = r /\ a \in {keys[e.src + 1], keys[e.dst + 1]}
      BY <2>1 DEF NamesIn
    <3>2. PICK y \in named : y = Named(e, keys)
      BY <1>2 DEF LiveNamed
    <3>3. y.ring = r /\ a \in {y.from, y.to}
      BY <3>1, <3>2, NamedIs
    <3> QED
      BY <3>3 DEF MembersOf
  <2>2. ASSUME NEW a \in MembersOf(named, r) PROVE a \in NamesIn(live, keys, r)
    <3>1. PICK y \in named : y.ring = r /\ a \in {y.from, y.to}
      BY <2>2 DEF MembersOf
    <3>2. PICK e \in live : y = Named(e, keys)
      BY <1>2 DEF LiveNamed
    <3>3. e.ring = r /\ a \in {keys[e.src + 1], keys[e.dst + 1]}
      BY <3>1, <3>2, NamedIs
    <3> QED
      BY <3>3 DEF NamesIn
  <2> QED
    BY <2>1, <2>2
<1>4. {e.ring : e \in live} = {y.ring : y \in named}
  <2>1. \A e \in live : Named(e, keys) \in named /\ Named(e, keys).ring = e.ring
    BY <1>2, NamedIs DEF LiveNamed
  <2>2. \A y \in named : \E e \in live : y.ring = e.ring
    BY <1>2, NamedIs DEF LiveNamed
  <2> QED
    BY <2>1, <2>2
<1>5. ActiveRings(edges, keys, tick) =
        {[ring |-> r, members |-> NamesIn(live, keys, r)] :
           r \in {x \in {e.ring : e \in live} : Cardinality(NamesIn(live, keys, x)) >= MinNodes}}
  BY <1>1 DEF ActiveRings, LiveAt, NamesIn
<1>6. PICK I : I = {y.ring : y \in named}
  OBVIOUS
<1>7. {x \in I : Cardinality(NamesIn(live, keys, x)) >= MinNodes} =
        {x \in I : Cardinality(MembersOf(named, x)) >= MinNodes}
  BY <1>3
<1>8. PICK J : J = {x \in I : Cardinality(MembersOf(named, x)) >= MinNodes}
  OBVIOUS
<1>9. ActiveRings(edges, keys, tick) = {[ring |-> r, members |-> NamesIn(live, keys, r)] : r \in J}
  BY <1>4, <1>5, <1>6, <1>7, <1>8
<1>10. Gated(named) = {[ring |-> r, members |-> MembersOf(named, r)] : r \in J}
  BY <1>6, <1>8 DEF Gated
<1>11. ActiveRings(edges, keys, tick) = Gated(named)
  BY <1>3, <1>9, <1>10
<1> QED
  BY <1>1, <1>2, <1>11

\* Every gated cycle looks back no further than the slice.
LEMMA CyclesInSlice ==
  /\ SliceLo = 0
  /\ \A tick \in Cycles : tick \in Nat /\ tick + 1 <= SliceHi
<1>1. PICK a \in Nat, b \in Nat, n \in Nat, w \in Nat :
        a = START_TICK /\ b = EVERY /\ n = N_CYCLES - 1 /\ w = Window
  <2>1. N_CYCLES - 1 \in Nat
    BY IngestionAssumption
  <2> QED
    BY <2>1, IngestionAssumption
<1>2. PICK z \in Nat : z = n * b
  OBVIOUS
<1>3. SliceHi = a + z + 1
  BY <1>1, <1>2 DEF SliceHi, LastTick
<1>4. SliceLo = 0
  <2>1. a + z + 1 <= w + b
    BY <1>1, <1>2, IngestionAssumption
  <2>2. PICK x \in Int : x = a + z + 1 - w - b
    OBVIOUS
  <2>3. x <= 0
    BY <2>1, <2>2
  <2>4. 0 \in Int
    OBVIOUS
  <2>5. Max({0, x}) \in {0, x} /\ Max({0, x}) >= 0
    BY <2>4, GreaterIs
  <2>6. SliceLo = Max({0, x})
    BY <1>1, <1>3, <2>2 DEF SliceLo
  <2> QED
    BY <2>3, <2>5, <2>6
<1>5. ASSUME NEW tick \in Cycles PROVE tick \in Nat /\ tick + 1 <= SliceHi
  <2>1. PICK k \in 0..n : tick = a + k * b
    BY <1>1 DEF Cycles
  <2>2. PICK y : y = k * b
    OBVIOUS
  <2>3. k \in Nat /\ k <= n /\ b <= b
    OBVIOUS
  <2>4. k * b <= n * b
    BY <2>3, ProductMonotone
  <2>5. y \in Nat
    BY <2>2, <2>3
  <2> QED
    BY <1>2, <1>3, <2>1, <2>2, <2>4, <2>5
<1> QED
  BY <1>4, <1>5

\* The slice and the fixture under the accounts' names.
SliceNamed == [n \in DOMAIN Slice |-> Named(Slice[n], node_ids)]

FixtureNamed == [n \in DOMAIN fixture.edges |-> Named(fixture.edges[n], fixture.node_keys)]

LEMMA FixtureRows ==
  ASSUME StreamFit, NEW m, NEW idx, FrozenFrom(fixture, idx, m)
  PROVE  \E d, q \in Nat :
           /\ DOMAIN Slice = 1..q /\ idx \in SUBSET (1..q) /\ d = Cardinality(idx)
           /\ DOMAIN SliceNamed = 1..q /\ DOMAIN FixtureNamed = 1..d
           /\ DOMAIN fixture.edges = 1..d /\ Len(fixture.edges) = d
           /\ \A k \in 1..d : /\ Nth(k, idx) \in idx
                              /\ FixtureNamed[k] = SliceNamed[Nth(k, idx)]
                              /\ FixtureNamed[k] = Named(fixture.edges[k], fixture.node_keys)
           /\ \A j, k \in 1..d : j < k => Nth(j, idx) < Nth(k, idx)
           /\ \A n \in idx : \E k \in 1..d : Nth(k, idx) = n
<1>1. Slice \in Seq(EdgeRow) /\ Len(Slice) \in Nat
  BY SliceIs
<1>2. PICK q \in Nat : q = Len(Slice)
  BY <1>1
<1>3. DOMAIN Slice = 1..q
  BY <1>1, <1>2
<1>4. /\ idx \in SUBSET (1..q) /\ fixture.edges \in Seq(EdgeRow)
      /\ Len(fixture.edges) = Cardinality(idx)
      /\ \A k \in 1..Cardinality(idx) :
           Named(fixture.edges[k], fixture.node_keys) = Named(Slice[Nth(k, idx)], node_ids)
  BY <1>3 DEF FrozenFrom
<1>5. PICK d \in Nat : d = Cardinality(idx)
  BY <1>4, PlacesInOrder
<1>6. DOMAIN fixture.edges = 1..d
  BY <1>4, <1>5
<1>7. /\ \A k \in 1..d : Nth(k, idx) \in idx
      /\ \A j, k \in 1..d : j < k => Nth(j, idx) < Nth(k, idx)
      /\ \A n \in idx : \E k \in 1..d : Nth(k, idx) = n
  <2>1. /\ \A k \in 1..Cardinality(idx) : Nth(k, idx) \in idx
        /\ \A j, k \in 1..Cardinality(idx) : j < k => Nth(j, idx) < Nth(k, idx)
        /\ \A n \in idx : \E k \in 1..Cardinality(idx) : Nth(k, idx) = n
    BY <1>4, PlacesInOrder
  <2> QED
    BY <1>5, <2>1
<1>8. /\ DOMAIN SliceNamed = 1..q /\ \A n \in 1..q : SliceNamed[n] = Named(Slice[n], node_ids)
  BY <1>3 DEF SliceNamed
<1>9. /\ DOMAIN FixtureNamed = 1..d
      /\ \A k \in 1..d : FixtureNamed[k] = Named(fixture.edges[k], fixture.node_keys)
  BY <1>6 DEF FixtureNamed
<1>10. \A k \in 1..d : FixtureNamed[k] = SliceNamed[Nth(k, idx)]
  <2>1. ASSUME NEW k \in 1..d PROVE FixtureNamed[k] = SliceNamed[Nth(k, idx)]
    <3>1. Nth(k, idx) \in 1..q
      BY <1>4, <1>7
    <3>2. FixtureNamed[k] = Named(Slice[Nth(k, idx)], node_ids)
      BY <1>4, <1>5, <1>9
    <3> QED
      BY <1>8, <3>1, <3>2
  <2> QED
    BY <2>1
<1> QED
  BY <1>3, <1>4, <1>5, <1>6, <1>7, <1>8, <1>9, <1>10

\* Every labelled edge of the slice is in the fixture, in its place.
LEMMA LabelsStay ==
  ASSUME StreamFit, NEW m, NEW idx, FrozenFrom(fixture, idx, m)
  PROVE  Only(FixtureNamed, {e \in ToSet(FixtureNamed) : e.ring >= 0}) =
           Only(SliceNamed, {e \in ToSet(SliceNamed) : e.ring >= 0})
<1>1. PICK d \in Nat, q \in Nat :
           /\ DOMAIN Slice = 1..q /\ idx \in SUBSET (1..q)
           /\ DOMAIN SliceNamed = 1..q /\ DOMAIN FixtureNamed = 1..d
           /\ \A k \in 1..d : Nth(k, idx) \in idx /\ FixtureNamed[k] = SliceNamed[Nth(k, idx)]
           /\ \A j, k \in 1..d : j < k => Nth(j, idx) < Nth(k, idx)
           /\ \A n \in idx : \E k \in 1..d : Nth(k, idx) = n
  BY FixtureRows
<1>2. PICK P \in SUBSET (1..d) : P = {k \in 1..d : FixtureNamed[k].ring >= 0}
  OBVIOUS
<1>3. PICK Q \in SUBSET (1..q) : Q = {n \in 1..q : SliceNamed[n].ring >= 0}
  OBVIOUS
<1>4. Q \subseteq idx
  <2>1. \A n \in 1..q : SliceNamed[n].ring = Slice[n].ring
    BY <1>1, NamedIs DEF SliceNamed
  <2>2. Labels(Slice) = Q
    BY <1>1, <1>3, <2>1 DEF Labels
  <2> QED
    BY <2>2 DEF FrozenFrom
<1>5. PICK h : h = [k \in P |-> Nth(k, idx)]
  OBVIOUS
<1>6. Carries(h, P, Q)
  <2>1. \A k \in P : h[k] = Nth(k, idx) /\ h[k] \in Q
    BY <1>1, <1>2, <1>3, <1>5
  <2>2. h \in [P -> Q]
    BY <1>5, <2>1
  <2>3. \A j, k \in P : j < k => h[j] < h[k]
    BY <1>1, <2>1
  <2>4. ASSUME NEW n \in Q PROVE \E k \in P : h[k] = n
    <3>1. PICK k \in 1..d : Nth(k, idx) = n
      BY <1>1, <1>4
    <3>2. k \in P
      BY <1>1, <1>2, <1>3, <3>1
    <3> QED
      BY <2>1, <3>1, <3>2
  <2> QED
    BY <2>2, <2>3, <2>4 DEF Carries
<1>7. \A k \in P : FixtureNamed[k] = SliceNamed[h[k]]
  BY <1>1, <1>5
<1>8. PickedAt(FixtureNamed, P) = PickedAt(SliceNamed, Q)
  <2>1. Q \in SUBSET Int
    OBVIOUS
  <2> QED
    BY <1>6, <1>7, <2>1, PickedInStep
<1>9. {k \in DOMAIN FixtureNamed :
         FixtureNamed[k] \in {e \in ToSet(FixtureNamed) : e.ring >= 0}} = P
  BY <1>1, <1>2 DEF ToSet
<1>10. {k \in DOMAIN SliceNamed :
          SliceNamed[k] \in {e \in ToSet(SliceNamed) : e.ring >= 0}} = Q
  BY <1>1, <1>3 DEF ToSet
<1> QED
  BY <1>8, <1>9, <1>10 DEF Only

\* The fixture's live edges are the stream's, by name.
LEMMA LiveEdgesStay ==
  ASSUME StreamFit, NEW m, NEW idx, FrozenFrom(fixture, idx, m),
         NEW now \in Nat, now <= SliceHi
  PROVE  LiveNamed(LiveAt(fixture.edges, now), fixture.node_keys) =
           LiveNamed(LiveAt(stream, now), node_ids)
<1>1. PICK d \in Nat, q \in Nat :
           /\ DOMAIN Slice = 1..q /\ idx \in SUBSET (1..q)
           /\ DOMAIN SliceNamed = 1..q /\ DOMAIN fixture.edges = 1..d
           /\ \A k \in 1..d : /\ Nth(k, idx) \in idx
                              /\ FixtureNamed[k] = SliceNamed[Nth(k, idx)]
                              /\ FixtureNamed[k] = Named(fixture.edges[k], fixture.node_keys)
           /\ \A n \in idx : \E k \in 1..d : Nth(k, idx) = n
  BY FixtureRows
<1>2. \A n \in 1..q : SliceNamed[n] = Named(Slice[n], node_ids)
  BY <1>1 DEF SliceNamed
<1>3. ASSUME NEW y \in LiveNamed(LiveAt(fixture.edges, now), fixture.node_keys)
      PROVE  y \in LiveNamed(LiveAt(stream, now), node_ids)
  <2>1. PICK k \in 1..d :
          /\ y = Named(fixture.edges[k], fixture.node_keys)
          /\ now - Window <= fixture.edges[k].ts /\ fixture.edges[k].ts < now
          /\ fixture.edges[k].ring >= 0
    BY <1>1, <1>3 DEF LiveNamed, LiveAt, ToSet
  <2>2. PICK n \in 1..q : y = Named(Slice[n], node_ids) /\ n = Nth(k, idx)
    BY <1>1, <1>2, <2>1
  <2>3. PICK e : e = Slice[n]
    OBVIOUS
  <2>4. e.ts = fixture.edges[k].ts /\ e.ring = fixture.edges[k].ring
    <3>1. PICK x : x = fixture.edges[k]
      OBVIOUS
    <3>2. y = Named(x, fixture.node_keys) /\ y = Named(e, node_ids)
      BY <2>1, <2>2, <2>3, <3>1
    <3>3. y.ts = x.ts /\ y.ring = x.ring
      BY <3>2 DEF Named
    <3>4. y.ts = e.ts /\ y.ring = e.ring
      BY <3>2 DEF Named
    <3> QED
      BY <3>1, <3>3, <3>4
  <2>5. e \in ToSet(stream)
    BY <1>1, <2>3, SliceIs
  <2>6. e \in LiveAt(stream, now)
    BY <2>1, <2>4, <2>5 DEF LiveAt
  <2> QED
    BY <2>2, <2>3, <2>6 DEF LiveNamed
<1>4. ASSUME NEW y \in LiveNamed(LiveAt(stream, now), node_ids)
      PROVE  y \in LiveNamed(LiveAt(fixture.edges, now), fixture.node_keys)
  <2>1. PICK e \in LiveAt(stream, now) : y = Named(e, node_ids)
    BY <1>4 DEF LiveNamed
  <2>2. e \in ToSet(stream) /\ now - Window <= e.ts /\ e.ts < now /\ e.ring >= 0
    BY DEF LiveAt
  <2>3. e \in InSlice
    <3>1. e.ts \in Nat
      <4>1. PICK i \in DOMAIN stream : stream[i] = e
        BY <2>2 DEF ToSet
      <4>2. stream \in Seq(EdgeRow)
        BY DEF StreamFit
      <4>3. e \in EdgeRow
        BY <4>1, <4>2
      <4> QED
        BY <4>3 DEF EdgeRow
    <3>2. SliceLo = 0 /\ SliceHi \in Int
      BY CyclesInSlice, IngestionAssumption DEF SliceHi, LastTick
    <3>3. SliceLo <= e.ts /\ e.ts < SliceHi
      BY <2>2, <3>1, <3>2
    <3> QED
      BY <2>2, <3>3 DEF InSlice
  <2>4. PICK n \in 1..q : Slice[n] = e
    BY <1>1, <2>3, SliceIs
  <2>5. n \in Labels(Slice)
    BY <1>1, <2>2, <2>4 DEF Labels
  <2>6. n \in idx
    BY <2>5 DEF FrozenFrom
  <2>7. PICK k \in 1..d : Nth(k, idx) = n
    BY <1>1, <2>6
  <2>8. Named(fixture.edges[k], fixture.node_keys) = y
    BY <1>1, <1>2, <2>1, <2>4, <2>7
  <2>9. fixture.edges[k].ts = e.ts /\ fixture.edges[k].ring = e.ring
    BY <2>1, <2>8, NamedIs
  <2>10. fixture.edges[k] \in ToSet(fixture.edges)
    BY <1>1 DEF ToSet
  <2>11. fixture.edges[k] \in LiveAt(fixture.edges, now)
    BY <2>2, <2>9, <2>10 DEF LiveAt
  <2> QED
    BY <2>8, <2>11 DEF LiveNamed
<1> QED
  BY <1>3, <1>4

LEMMA FixtureIsRight ==
  ASSUME StreamFit, NEW m \in MaxEdges, NEW idx, FrozenFrom(fixture, idx, m)
  PROVE  FixtureStandsForTheStream
<1>1. PICK d \in Nat, q \in Nat :
           /\ DOMAIN Slice = 1..q /\ idx \in SUBSET (1..q) /\ d = Cardinality(idx)
           /\ DOMAIN SliceNamed = 1..q /\ DOMAIN FixtureNamed = 1..d
           /\ DOMAIN fixture.edges = 1..d /\ Len(fixture.edges) = d
           /\ \A k \in 1..d : /\ Nth(k, idx) \in idx
                              /\ FixtureNamed[k] = SliceNamed[Nth(k, idx)]
                              /\ FixtureNamed[k] = Named(fixture.edges[k], fixture.node_keys)
  BY FixtureRows
<1>2. ToSet(FixtureNamed) \subseteq ToSet(SliceNamed)
  BY <1>1 DEF ToSet
<1>3. Len(FixtureNamed) = d
  <2>1. FixtureNamed \in [1..d -> ToSet(FixtureNamed)]
    BY <1>1 DEF ToSet, FixtureNamed
  <2> QED
    BY <2>1, AsSequence
<1>4. Len(FixtureNamed) <= Max({m, Cardinality(Labels(Slice))})
  <2>1. Labels(Slice) \in SUBSET (1..q)
    BY <1>1 DEF Labels
  <2>2. PICK c \in Nat : c = Cardinality(Labels(Slice))
    BY <2>1, PlacesInOrder
  <2>3. m \in Int /\ c \in Int
    BY IngestionAssumption
  <2>4. PICK x : x = Max({m, c})
    OBVIOUS
  <2>5. x \in {m, c} /\ x >= m /\ x >= c
    BY <2>3, <2>4, GreaterIs
  <2>6. d <= m \/ d <= c
    BY <1>1, <2>2 DEF FrozenFrom
  <2>7. d <= x
    BY <2>3, <2>5, <2>6
  <2> QED
    BY <1>3, <2>2, <2>4, <2>7
<1>5. \A k \in 1..d : FixtureNamed[k].ts = fixture.edges[k].ts
  BY <1>1, NamedIs
<1>6. \A k \in 1..(Len(FixtureNamed) - 1) : FixtureNamed[k].ts <= FixtureNamed[k + 1].ts
  <2>1. ASSUME NEW k \in 1..(d - 1) PROVE FixtureNamed[k].ts <= FixtureNamed[k + 1].ts
    <3>1. k \in 1..d /\ k + 1 \in 1..d /\ k < k + 1
      OBVIOUS
    <3>2. fixture.edges[k].ts <= fixture.edges[k + 1].ts
      BY <1>1, <3>1 DEF FrozenFrom, Ascends
    <3> QED
      BY <1>5, <3>1, <3>2
  <2> QED
    BY <1>3, <2>1
<1>7. ASSUME FixtureNamed # <<>>, FixtureNamed[1].ts = 0, NEW tick \in Cycles
      PROVE  ActiveRings(fixture.edges, fixture.node_keys, tick) =
               ActiveRings(stream, node_ids, tick)
  <2>1. 1 \in 1..d
    <3>1. d # 0
      <4>1. ASSUME d = 0 PROVE FALSE
        <5>1. DOMAIN FixtureNamed = {}
          BY <1>1, <4>1
        <5>2. FixtureNamed = [k \in {} |-> k]
          BY <5>1 DEF FixtureNamed
        <5> QED
          BY <1>7, <5>2
      <4> QED
        BY <4>1
    <3> QED
      BY <3>1
  <2>2. fixture.edges[1].ts = 0
    BY <1>5, <1>7, <2>1
  <2>3. PICK n \in 1..q : Slice[n].ts = 0
    <3>1. PICK n \in 1..q : FixtureNamed[1] = SliceNamed[n]
      BY <1>1, <2>1
    <3>2. SliceNamed[n] = Named(Slice[n], node_ids)
      BY <1>1 DEF SliceNamed
    <3>3. Slice[n].ts = 0
      BY <1>7, <3>1, <3>2, NamedIs
    <3> QED
      BY <3>3
  <2>4. stream[1].ts = 0
    <3>1. Slice[n] \in ToSet(stream)
      BY <1>1, SliceIs
    <3>2. PICK i \in DOMAIN stream : stream[i].ts = 0
      <4>1. PICK i \in DOMAIN stream : Slice[n] = stream[i]
        BY <3>1 DEF ToSet
      <4> QED
        BY <2>3, <4>1
    <3>3. stream \in Seq(EdgeRow) /\ Ascends(stream)
      BY DEF StreamFit
    <3>4. PICK s \in Nat : s = Len(stream)
      BY <3>3
    <3>5. DOMAIN stream = 1..s
      BY <3>3, <3>4
    <3>6. 1 \in 1..s /\ i \in 1..s
      BY <3>5
    <3>7. stream[1].ts \in Nat
      <4>1. PICK e \in EdgeRow : e = stream[1]
        BY <3>3, <3>4, <3>6
      <4>2. e.ts \in Nat
        BY DEF EdgeRow
      <4> QED
        BY <4>1, <4>2
    <3>8. stream[1].ts <= stream[i].ts \/ i = 1
      BY <3>3, <3>5, <3>6 DEF Ascends
    <3> QED
      BY <3>2, <3>7, <3>8
  <2>5. PICK now \in Nat : now = tick + 1 /\ now <= SliceHi
    BY CyclesInSlice
  <2>6. 0 + tick + 1 = now
    BY <2>5, CyclesInSlice
  <2>7. ActiveRings(fixture.edges, fixture.node_keys, tick) =
          Gated(LiveNamed(LiveAt(fixture.edges, now), fixture.node_keys))
    <3>1. fixture.edges[1].ts + tick + 1 = now
      BY <2>2, <2>6
    <3> QED
      BY <3>1, ActiveRingsAre
  <2>8. ActiveRings(stream, node_ids, tick) = Gated(LiveNamed(LiveAt(stream, now), node_ids))
    <3>1. stream[1].ts + tick + 1 = now
      BY <2>4, <2>6
    <3> QED
      BY <3>1, ActiveRingsAre
  <2>9. LiveNamed(LiveAt(fixture.edges, now), fixture.node_keys) =
          LiveNamed(LiveAt(stream, now), node_ids)
    BY <2>5, LiveEdgesStay
  <2> QED
    BY <2>7, <2>8, <2>9
<1>8. Only(FixtureNamed, {e \in ToSet(FixtureNamed) : e.ring >= 0}) =
        Only(SliceNamed, {e \in ToSet(SliceNamed) : e.ring >= 0})
  BY LabelsStay
<1> QED
  BY <1>2, <1>4, <1>6, <1>7, <1>8 DEF FixtureStandsForTheStream, FixtureNamed, SliceNamed

\* The inductive invariant.
NothingReadYet == csv = <<>> /\ node_ids = <<>> /\ parts = <<>> /\ matched = 0

IngestionInv ==
  /\ stage \in {"patterns", "transactions", "accounts", "compiled", "frozen", "refused"}
  /\ ParserInv /\ StreamInv
  /\ stage = "patterns" => NothingReadYet
  /\ stage \in {"accounts", "compiled", "frozen"} => stream = Sorted(parts)
  /\ stage = "compiled" => \E file \in AccountFiles : registry = Registered(file)
  /\ stage = "frozen" => \E m \in MaxEdges : \E idx : FrozenFrom(fixture, idx, m)

LEMMA NothingToRead == NothingReadYet => StreamInv
<1> SUFFICES ASSUME NothingReadYet PROVE StreamInv
  OBVIOUS
<1>1. csv = <<>> /\ node_ids = <<>> /\ parts = <<>> /\ matched = 0
  BY DEF NothingReadYet
<1>2. IsInjective(node_ids)
  BY <1>1 DEF IsInjective
<1>3. \A W : Where(csv, W) = {}
  BY <1>1 DEF Where
<1>4. \A W : Cardinality(Where(csv, W)) = 0
  BY <1>3, FS_EmptySet
<1>5. csv \in Seq(CsvRow) /\ node_ids \in Seq(Names) /\ parts \in Seq(EdgeRow)
  BY <1>1
<1>6. Len(parts) = 0
  BY <1>1
<1>7. PartsAreRows
  <2>1. \A k \in 1..Len(parts) : FALSE
    BY <1>6
  <2> QED
    BY <1>4, <1>6, <2>1 DEF PartsAreRows
<1> QED
  BY <1>1, <1>2, <1>4, <1>5, <1>7 DEF StreamInv, StreamTyped

LEMMA StreamRests ==
  ASSUME StreamInv, UNCHANGED <<rings, csv, node_ids, parts, matched>>
  PROVE  StreamInv'
<1>1. /\ rings' = rings /\ csv' = csv /\ node_ids' = node_ids /\ parts' = parts
      /\ matched' = matched
  OBVIOUS
<1>2. \A row : RingOf(row)' = RingOf(row)
  BY <1>1 DEF RingOf, label_index, Claims
<1>3. Ringed' = Ringed
  BY <1>2 DEF Ringed
<1>4. StreamTyped'
  BY <1>1 DEF StreamInv, StreamTyped
<1>5. \A e, row : StandsFor(e, row, node_ids)' <=> StandsFor(e, row, node_ids)
  BY <1>1, <1>2 DEF StandsFor
<1>6. Where(csv, NoLoops)' = Where(csv, NoLoops) /\ Where(csv, Ringed)' = Where(csv, Ringed)
  BY <1>1, <1>3 DEF Where, NoLoops, IsLoop
<1>7. PartsAreRows'
  BY <1>1, <1>5, <1>6 DEF StreamInv, PartsAreRows
<1> QED
  BY <1>1, <1>4, <1>6, <1>7 DEF StreamInv

LEMMA IngestionStarts == IngestionInit => IngestionInv
<1> SUFFICES ASSUME IngestionInit PROVE IngestionInv
  OBVIOUS
<1>1. stage = "patterns" /\ parser = NoBlock /\ rep = NoReport /\ rings = <<>> /\ NothingReadYet
  BY DEF IngestionInit, NothingReadYet
<1>2. StreamInv
  BY <1>1, NothingToRead
<1>3. ParserTyped
  <2>1. NoBlock \in BlockType /\ NoReport \in ReportType /\ rings \in Seq(RingType)
    BY <1>1 DEF NoBlock, BlockType, NoReport, ReportType
  <2>2. \A n \in DOMAIN rings : rings[n].edges # <<>>
    BY <1>1
  <2>3. parser.rows = <<>>
    BY <1>1 DEF NoBlock
  <2> QED
    BY <1>1, <2>1, <2>2, <2>3 DEF ParserTyped
<1>4. Balance(rep, Len(parser.rows), Count(InBlock), Count(InBlock), rings)
  <2>1. Len(parser.rows) = 0 /\ Count(InBlock) = 0
    BY <1>1 DEF NoBlock, InBlock, Count
  <2>2. RingSum(<<>>) = 0
    <3>1. PICK none \in Seq(RingType) : none = <<>>
      BY EmptySeq
    <3>2. DOMAIN none = {}
      BY <3>1
    <3>3. RingSum(none) = Summed(SizesOf(none), DOMAIN none)
      BY RingSumIs
    <3>4. PICK f : f = SizesOf(none)
      OBVIOUS
    <3>5. RingSum(none) = Summed(f, {})
      BY <3>2, <3>3, <3>4
    <3>6. IsFiniteSet({}) /\ \A x \in {} : f[x] \in Int
      BY FS_EmptySet
    <3>7. Summed(f, {}) = 0
      BY <3>6, SumTakesAny
    <3> QED
      BY <3>1, <3>5, <3>7
  <2>3. Balance(NoReport, 0, 0, 0, <<>>)
    BY <2>2 DEF NoReport, Balance, RowsBalance, BlocksBalance, EndsBalance, RingsBalance
  <2> QED
    BY <1>1, <2>1, <2>3
<1>5. ParserInv
  BY <1>1, <1>3, <1>4 DEF ParserInv, ParserHolds
<1> QED
  BY <1>1, <1>2, <1>5 DEF IngestionInv

LEMMA IngestionSteps == IngestionInv /\ [IngestionNext]_ingestionVars => IngestionInv'
<1> SUFFICES ASSUME IngestionInv, [IngestionNext]_ingestionVars PROVE IngestionInv'
  OBVIOUS
<1>1. /\ ParserInv /\ StreamInv
      /\ stage \in {"patterns", "transactions", "accounts", "compiled", "frozen", "refused"}
      /\ stage = "patterns" => NothingReadYet
      /\ stage \in {"accounts", "compiled", "frozen"} => stream = Sorted(parts)
  BY DEF IngestionInv
<1>2. rings \in Seq(RingType)
  BY <1>1 DEF ParserInv, ParserHolds, ParserTyped
<1>3. NothingReadYet' => StreamInv'
  BY NothingToRead, PTL
<1>4. CASE load_rings
  <2>1. stage = "patterns" /\ stage' = stage
        /\ UNCHANGED <<csv, node_ids, parts, matched, registry, stream, fixture>>
    BY <1>4 DEF load_rings
  <2>2. ParserInv'
    BY <1>1, <1>4, ParserSteps
  <2>3. NothingReadYet'
    BY <1>1, <2>1 DEF NothingReadYet
  <2> QED
    BY <1>3, <2>1, <2>2, <2>3 DEF IngestionInv
<1>5. CASE EndOfPatterns
  <2>1. stage = "patterns" /\ stage' \in {"transactions", "refused"}
        /\ UNCHANGED <<csv, node_ids, parts, matched, registry, stream, fixture>>
    BY <1>5 DEF EndOfPatterns
  <2>2. ParserInv'
    BY <1>1, <1>5, ParserEnds
  <2>3. NothingReadYet'
    BY <1>1, <2>1 DEF NothingReadYet
  <2> QED
    BY <1>3, <2>1, <2>2, <2>3 DEF IngestionInv
<1>6. CASE ReadTransactions
  <2>1. PICK chunk \in Chunks : ReadChunk(chunk)
    BY <1>6 DEF ReadTransactions
  <2>2. stage = "transactions" /\ UNCHANGED <<stage, parser, rep, rings, registry, stream, fixture>>
    BY <1>6 DEF ReadTransactions
  <2>3. ParserInv'
    BY <1>1, <2>2, ParserRests
  <2>4. StreamInv'
    BY <1>1, <1>2, <2>1, <2>2, ReadChunkReads
  <2> QED
    BY <2>2, <2>3, <2>4 DEF IngestionInv
<1>7. CASE Compile
  <2>1. /\ stage = "transactions" /\ stage' = "accounts" /\ stream' = Sorted(parts)
        /\ UNCHANGED <<parser, rep, rings, csv, node_ids, parts, matched, registry, fixture>>
    BY <1>7 DEF Compile
  <2>2. ParserInv'
    BY <1>1, <2>1, ParserRests
  <2>3. StreamInv'
    BY <1>1, <2>1, StreamRests
  <2>4. stream' = Sorted(parts')
    BY <2>1
  <2> QED
    BY <2>1, <2>2, <2>3, <2>4 DEF IngestionInv
<1>8. ASSUME NEW file \in AccountFiles, LoadAccounts(file) PROVE IngestionInv'
  <2>1. /\ stage = "accounts" /\ stage' = "compiled" /\ registry' = Registered(file)
        /\ UNCHANGED <<parser, rep, rings, csv, node_ids, parts, matched, stream, fixture>>
    BY <1>8 DEF LoadAccounts
  <2>2. ParserInv'
    BY <1>1, <2>1, ParserRests
  <2>3. StreamInv'
    BY <1>1, <2>1, StreamRests
  <2>4. stream' = Sorted(parts')
    BY <1>1, <2>1
  <2> QED
    BY <2>1, <2>2, <2>3, <2>4 DEF IngestionInv
<1>9. ASSUME NEW m \in MaxEdges, BuildFixture(m) PROVE IngestionInv'
  <2>1. /\ stage = "compiled" /\ stage' = "frozen"
        /\ UNCHANGED <<parser, rep, rings, csv, node_ids, parts, matched, registry, stream>>
    BY <1>9 DEF BuildFixture
  <2>2. ParserInv'
    BY <1>1, <2>1, ParserRests
  <2>3. StreamInv'
    BY <1>1, <2>1, StreamRests
  <2>4. stream' = Sorted(parts')
    BY <1>1, <2>1
  <2>5. StreamFit
    BY <1>1, <2>1, StreamIsFit
  <2>6. PICK idx : FrozenFrom(fixture', idx, m)
    BY <1>9, <2>5, FixtureIs
  <2>7. Slice' = Slice
    BY <2>1 DEF Slice, InSlice
  <2>8. FrozenFrom(fixture, idx, m)'
    BY <2>1, <2>6, <2>7 DEF FrozenFrom
  <2> QED
    BY <2>1, <2>2, <2>3, <2>4, <2>8 DEF IngestionInv
<1>10. CASE UNCHANGED ingestionVars
  <2>1. UNCHANGED <<stage, parser, rep, rings, csv, node_ids, parts, matched, registry, stream, fixture>>
    BY <1>10 DEF ingestionVars
  <2>2. ParserInv'
    BY <1>1, <2>1, ParserRests
  <2>3. StreamInv'
    BY <1>1, <2>1, StreamRests
  <2>4. Slice' = Slice
    BY <2>1 DEF Slice, InSlice
  <2>5. \A m, idx : FrozenFrom(fixture, idx, m)' <=> FrozenFrom(fixture, idx, m)
    BY <2>1, <2>4 DEF FrozenFrom
  <2>6. stage = "frozen" => \E m \in MaxEdges : \E idx : FrozenFrom(fixture, idx, m)'
    BY <2>5 DEF IngestionInv
  <2>7. (stage = "patterns" => NothingReadYet)'
    BY <1>1, <2>1 DEF NothingReadYet
  <2> QED
    BY <2>1, <2>2, <2>3, <2>6, <2>7 DEF IngestionInv
<1> QED
  BY <1>4, <1>5, <1>6, <1>7, <1>8, <1>9, <1>10 DEF IngestionNext

LEMMA IngestionTyped == IngestionInv => IngestionTypeOK
<1> SUFFICES ASSUME IngestionInv PROVE IngestionTypeOK
  OBVIOUS
<1>1. ParserTyped /\ StreamInv
  BY DEF IngestionInv, ParserInv, ParserHolds
<1>2. parser.typology \in Typologies \cup {"none"}
  BY <1>1 DEF ParserTyped, BlockType
<1>3. \A r \in ToSet(rings) : r.typology \in Typologies /\ r.edges # <<>>
  <2>1. rings \in Seq(RingType) /\ \A n \in DOMAIN rings : rings[n].edges # <<>>
    BY <1>1 DEF ParserTyped
  <2>2. \A n \in DOMAIN rings : rings[n] \in RingType
    BY <2>1
  <2>3. \A n \in DOMAIN rings : rings[n].typology \in Typologies
    BY <2>2 DEF RingType
  <2> QED
    BY <2>1, <2>3 DEF ToSet
<1>4. IsInjective(node_ids) /\ parts \in Seq(EdgeRow) /\ PartsAreRows
  BY <1>1 DEF StreamInv, StreamTyped
<1>5. \A e \in ToSet(parts) : {e.src, e.dst} \subseteq 0..(Len(node_ids) - 1)
  <2>1. DOMAIN parts = 1..Len(parts)
    BY <1>4
  <2>2. \A k \in 1..Len(parts) :
          /\ parts[k].src \in 0..(Len(node_ids) - 1)
          /\ parts[k].dst \in 0..(Len(node_ids) - 1)
    BY <1>4 DEF PartsAreRows, StandsFor
  <2> QED
    BY <2>1, <2>2 DEF ToSet
<1> QED
  BY <1>2, <1>3, <1>4, <1>5 DEF IngestionInv, IngestionTypeOK

LEMMA IngestionIsRight == IngestionInv => IngestionIsFaithful
<1> SUFFICES ASSUME IngestionInv PROVE IngestionIsFaithful
  OBVIOUS
<1>1. /\ ParserInv /\ StreamInv
      /\ stage \in {"accounts", "compiled", "frozen"} => stream = Sorted(parts)
      /\ stage = "compiled" => \E file \in AccountFiles : registry = Registered(file)
      /\ stage = "frozen" => \E m \in MaxEdges : \E idx : FrozenFrom(fixture, idx, m)
  BY DEF IngestionInv
<1>2. rings \in Seq(RingType)
  BY <1>1 DEF ParserInv, ParserHolds, ParserTyped
<1>3. ParserAccounts
  BY <1>1, ParserIsRight
<1>4. StreamIsTheFile
  <2>1. CASE stage \in {"accounts", "compiled"}
    BY <1>1, <1>2, <2>1, StreamIsRight
  <2>2. CASE stage \notin {"accounts", "compiled"}
    BY <2>2 DEF StreamIsTheFile
  <2> QED
    BY <2>1, <2>2
<1>5. RegistryJoins
  <2>1. CASE stage = "compiled"
    BY <1>1, <2>1, RegistryIsRight
  <2>2. CASE stage # "compiled"
    BY <2>2 DEF RegistryJoins
  <2> QED
    BY <2>1, <2>2
<1>6. FixtureStandsForTheStream
  <2>1. CASE stage = "frozen"
    <3>1. StreamFit
      BY <1>1, <2>1, StreamIsFit
    <3> QED
      BY <1>1, <2>1, <3>1, FixtureIsRight
  <2>2. CASE stage # "frozen"
    BY <2>2 DEF FixtureStandsForTheStream
  <2> QED
    BY <2>1, <2>2
<1> QED
  BY <1>3, <1>4, <1>5, <1>6, IngestionTyped DEF IngestionIsFaithful, IngestionLosesNothing

\* Whatever the files hold, ingestion loses nothing uncounted: the parser's
\* report balances, the stream is the transactions in order under their own
\* names and rings (build_stream), both sources join (accounts), and the
\* fixture of the gates shows the rings of the stream (build_fixture).
THEOREM TheStreamIsTheFiles == IngestionSpec => []IngestionIsFaithful
<1>1. IngestionInit => IngestionInv
  BY IngestionStarts
<1>2. IngestionInv /\ [IngestionNext]_ingestionVars => IngestionInv'
  BY IngestionSteps
<1>3. IngestionInv => IngestionIsFaithful
  BY IngestionIsRight
<1> QED
  BY <1>1, <1>2, <1>3, PTL DEF IngestionSpec
=============================================================================
