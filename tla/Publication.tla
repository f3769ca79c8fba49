---------------------------- MODULE Publication ----------------------------
(***************************************************************************)
(* From artefacts to documents: src/scripts/collect_metrics.py reads what  *)
(* the measurements wrote and writes results/metrics.json in two goes      *)
(* (src/sentinel/report/store.py, metric.py), src/scripts/render_docs.py   *)
(* renders every template against it (src/sentinel/report/render.py), and  *)
(* the scanner of src/sentinel/report/literals.py looks for numbers that   *)
(* people typed and that measurements have since left behind.              *)
(*                                                                         *)
(* One measured number stands for all metrics and one artefact that is     *)
(* read after the first write for all those.  A number is a multiple of    *)
(* 0.0001, which may be negative or one and more.                          *)
(***************************************************************************)
EXTENDS Integers, FiniteSets

CONSTANTS
  Readings,      \* what a measurement may give, in ten-thousandths
  Documents,     \* 1..n, in the order of render_docs.templates
  MaxCollects    \* bound: collections

ASSUME PublicationAssumption ==
  Readings \subseteq Int /\ Documents \subseteq Nat /\ MaxCollects \in Nat

VARIABLES
  artefact,     \* the measured number: [is, number]
  late,         \* the artefacts read after the first write are all there
  metrics,      \* results/metrics.json: [generated_at, number, counts], by
                \* collection; 0 is no file, and no counts
  collecting,   \* collect_metrics is between its two writes
  committed,    \* the numbers that metrics.json has held in git's history
  typed,        \* the number typed into the first template, as it is written
                \* there, if there is one: a set of at most one form
  unresolved,   \* the templates with a placeholder that nothing resolves
  document,     \* the rendered files: the collections of [metrics, counts]
  staged,       \* the documents that render_docs still has to write
  half          \* ghost: a rendering died between two documents

measurements == <<artefact, late>>
published == <<metrics, collecting>>
templates == <<typed, unresolved>>
rendering == <<document, staged, half>>
publicationVars == <<measurements, published, committed, templates, rendering>>

\* A number in a file: f'{number:.3f}' or f'{number:.4f}'.
Form(number, places) ==
  LET size == IF number < 0 THEN -number ELSE number
  IN [places |-> places, minus |-> number < 0,
      digits |-> IF places = 3 THEN (size + 5) \div 10 ELSE size]

\* what authors write: prose here uses both precisions
Typable(number) == {Form(number, places) : places \in {3, 4}}

\* mutant: only the four-decimal form is looked for
AsWrittenFour(number) == {Form(number, 4)}

\* what literals._as_written gives
AsWritten(number) == {Form(number, 3), Form(number, 4)}

\* What METRIC_LITERAL finds of a form: 0.ddd or 0.dddd, the sign before it
\* left out, and nothing of a number that starts with another digit.
Scan(form) ==
  IF form.digits < (IF form.places = 3 THEN 1000 ELSE 10000)
  THEN {[form EXCEPT !.minus = FALSE]} ELSE {}

-----------------------------------------------------------------------------
PublicationInit ==
  /\ artefact = [is |-> "missing", number |-> 0]
  /\ late = FALSE
  /\ metrics = [generated_at |-> 0, number |-> 0, counts |-> 0]
  /\ committed = {} /\ typed = {} /\ unresolved = {}
  /\ document = [d \in Documents |-> [metrics |-> 0, counts |-> 0]]
  /\ staged = {} /\ half = FALSE /\ collecting = FALSE

\* commands run one at a time
Idle == staged = {} /\ ~collecting

\* A measurement writes its artefact: a full one, a --limit smoke test, or
\* one that lacks what a Metric must carry (Metric.__post_init__ raises).
Measure ==
  /\ Idle
  /\ \E kind \in {"full", "partial", "incomplete"}, n \in Readings :
       artefact' = [is |-> kind, number |-> n]
  /\ UNCHANGED <<late, published, committed, templates, rendering>>

MeasureLate ==
  /\ Idle /\ late' = ~late
  /\ UNCHANGED <<artefact, published, committed, templates, rendering>>

\* no _load, no constructor and no is_full_population test ends main early
Collectable == artefact.is = "full"

\* store.write: a new payload, without counts
FirstWrite ==
  metrics' = [generated_at |-> metrics.generated_at + 1,
              number |-> artefact.number, counts |-> 0]

\* collect_metrics.main, up to its first write
Collect ==
  /\ Idle /\ Collectable
  /\ metrics.generated_at < MaxCollects
  /\ FirstWrite
  /\ collecting' = TRUE
  /\ UNCHANGED <<measurements, committed, templates, rendering>>

\* the rest: the counts join the file, or main exits (or dies) on the way
CollectCounts ==
  /\ collecting
  /\ collecting' = FALSE
  /\ \/ late /\ metrics' = [metrics EXCEPT !.counts = metrics.generated_at]
     \/ UNCHANGED metrics
  /\ UNCHANGED <<measurements, committed, templates, rendering>>

Commit ==
  /\ Idle /\ metrics.generated_at > 0
  /\ committed' = committed \cup {metrics.number}
  /\ UNCHANGED <<measurements, published, templates, rendering>>

\* An author types the published number into a template, at either
\* precision, takes it out again, or mistypes or mends a placeholder.
EditTemplate ==
  /\ Idle
  /\ \/ /\ \/ typed' = {}
           \/ /\ metrics.generated_at > 0
              /\ \E form \in Typable(metrics.number) : typed' = {form}
        /\ UNCHANGED unresolved
     \/ /\ \E d \in Documents :
             unresolved' = IF d \in unresolved THEN unresolved \ {d}
                           ELSE unresolved \cup {d}
        /\ UNCHANGED typed
  /\ UNCHANGED <<measurements, published, committed, rendering>>

\* render_text raises nothing: every template quotes metrics and counts
Resolves(d) == metrics.counts > 0 /\ d \notin unresolved

\* render_docs.main: all are rendered to memory before one is written
Renderable == \A d \in Documents : Resolves(d)

Render ==
  /\ Idle /\ metrics.generated_at > 0 /\ Renderable
  /\ staged' = {d \in Documents : Resolves(d)}
  /\ UNCHANGED <<measurements, published, committed, templates, document, half>>

\* render_file reads metrics.json again
WriteDocument ==
  /\ staged # {}
  /\ \E d \in staged :
       /\ \A e \in staged : d <= e
       /\ document' = [document EXCEPT ![d] =
                         [metrics |-> metrics.generated_at,
                          counts |-> metrics.counts]]
       /\ staged' = staged \ {d}
       /\ half' = (half /\ staged' # {})
  /\ UNCHANGED <<measurements, published, committed, templates>>

RenderDies ==
  /\ staged # {} /\ staged' = {} /\ half' = TRUE
  /\ UNCHANGED <<measurements, published, committed, templates, document>>

PublicationNext ==
  \/ Measure \/ MeasureLate \/ Collect \/ CollectCounts \/ Commit
  \/ EditTemplate \/ Render \/ WriteDocument \/ RenderDies

PublicationSpec == PublicationInit /\ [][PublicationNext]_publicationVars

-----------------------------------------------------------------------------
(* The scanner.                                                            *)

\* superseded_values: every form of a number that git has seen in
\* metrics.json, but for the forms of the one it holds
Superseded ==
  (UNION {AsWritten(n) : n \in committed}) \ AsWritten(metrics.number)

\* test_no_superseded_metric_value_survives_unmarked_in_a_template
ScannerPasses == \A form \in typed : Scan(form) \cap Superseded = {}

-----------------------------------------------------------------------------
(* Properties.                                                             *)

PublicationTypeOK ==
  /\ artefact.is \in {"missing", "full", "partial", "incomplete"}
  /\ metrics.generated_at \in 0..MaxCollects
  /\ metrics.number \in Readings \cup {0}
  /\ metrics.counts \in 0..MaxCollects
  /\ committed \subseteq Readings
  /\ unresolved \subseteq Documents /\ staged \subseteq Documents
  /\ document \in [Documents -> [metrics : 0..MaxCollects,
                                 counts : 0..MaxCollects]]

\* `A partial render would leave some files fresh and some stale, which is a
\* worse state than either': unless a rendering died between two files, the
\* documents all quote one collection, and each its numbers and its counts
\* from the same one, also when a collection was cut short after its first
\* write or a template stopped resolving (collect_metrics.main,
\* render_docs.main).
DocumentsTellOneCollection ==
  /\ PublicationTypeOK
  /\ \A d \in Documents :
       document[d].metrics > 0 => document[d].counts = document[d].metrics
  /\ staged = {} /\ ~half => \A d, e \in Documents : document[d] = document[e]

\* `a number typed into the template itself': one that a later measurement has
\* moved is refused as soon as it has been in a committed metrics.json
\* (superseded_values, stale_literals).  A negative number is not, nor is one
\* of one and more: METRIC_LITERAL does not read them as they are written.
NoTypedNumberRots ==
  ScannerPasses =>
    \A form \in typed :
      (\E n \in committed : form \in Typable(n)) => form \in Typable(metrics.number)

\* A number that was typed into a template, at three or four decimals, not
\* negative and below one, and that a later measurement has moved, is refused
\* as soon as it has been in a committed metrics.json, whatever else the
\* metric has been in between.
TypedNumbersDoNotRot ==
  (\A form \in typed : Scan(form) = {form}) => NoTypedNumberRots

\* What a reader of the documents sees is one collection of the measurements,
\* and no number between zero and one that the scanner lets stand has been
\* left behind by them.
PublishedNumbersAreCurrent ==
  DocumentsTellOneCollection /\ TypedNumbersDoNotRot

-----------------------------------------------------------------------------
(* The inductive invariant: a rendering that has begun finds the numbers   *)
(* and the counts of one collection, and what it has written quotes it.    *)

PublicationInv ==
  /\ PublishedNumbersAreCurrent
  /\ metrics \in [generated_at : Nat, number : Readings \cup {0}, counts : Nat]
  /\ artefact.is = "full" => artefact.number \in Readings
  /\ metrics.generated_at > 0 => metrics.number \in Readings
  /\ metrics.counts \in {0, metrics.generated_at}
  /\ collecting => staged = {}
  /\ staged # {} =>
       /\ metrics.counts = metrics.generated_at
       /\ \A d \in Documents \ staged :
            document[d] = [metrics |-> metrics.generated_at, counts |-> metrics.counts]
=============================================================================
