------------------------------ MODULE Executor ------------------------------
(***************************************************************************)
(* The evaluation of a plan over an open corpus (executor.rs).             *)
(*                                                                         *)
(* A corpus is a record: tokens, a sequence of functions from annotation    *)
(* layer to value (position p is tokens[p + 1]); spans, from span layer to   *)
(* the sequence of its spans; names, of the documents; components, from name *)
(* to the range [from, to) of documents; alignments, from name to its        *)
(* components, layers and edges.  A set of positions stands for a roaring    *)
(* bitmap.  An evaluation is [ok, hits], or Fail.                            *)
(*                                                                         *)
(* order stands for the iteration order of the hash maps the labelled path   *)
(* keeps its matches in, which the standard library randomizes: it ranks     *)
(* the positions a match may end at.                                         *)
(***************************************************************************)
EXTENDS Planner, FiniteSetsExt, TLC

CONSTANTS
  MaxQuantifier,  \* the cap on a repetition's width (MAX_QUANTIFIER)
  Regexes         \* the patterns that compile, as a function to the values matched

ASSUME ExecutorAssumption == MaxQuantifier \in Nat

Span(a, b) == [start |-> a, end |-> b]
Hit(span, captures) == [span |-> span, captures |-> captures]
Evaluated(hits) == [ok |-> TRUE, hits |-> hits]

TokenCount(c) == Len(c.tokens)
Positions(c) == 0 .. TokenCount(c) - 1
TokenAt(c, p) == c.tokens[p + 1]

(* span_containing: the index of the span around a position, as a set of at  *)
(* most one (the spans of a layer are sorted and disjoint).                  *)
Containing(spans, p) == {i \in DOMAIN spans : spans[i].start <= p /\ p < spans[i].end}

SpansOf(c, layer) == IF layer \in DOMAIN c.spans THEN <<c.spans[layer]>> ELSE <<>>

(* The elements of a set in some order. *)
Listed(S) == FoldSet(LAMBDA x, list : Append(list, x), <<>>, S)

(* The one hit per position, in order. *)
HitsAt(positions) ==
  LET ps == SortSeq(Listed(positions), <)
  IN [i \in DOMAIN ps |-> Hit(Span(ps[i], ps[i] + 1), <<>>)]
StartsOf(hits) == {h.span.start : h \in ToSet(hits)}

-----------------------------------------------------------------------------
(* Scans of the inverted index. *)

Postings(c, layer, value) ==
  {p \in Positions(c) : layer \in DOMAIN TokenAt(c, p) /\ TokenAt(c, p)[layer] = value}

PatternPostings(c, layer, pattern) ==
  UNION {Postings(c, layer, v) : v \in Regexes[pattern]}

-----------------------------------------------------------------------------
(* Runs: the maximal intervals of a set of positions. *)

Runs(positions) ==
  {Span(a, b) : <<a, b>> \in {<<a, b>> \in positions \X {p + 1 : p \in positions} :
      /\ a < b /\ a .. b - 1 \subseteq positions
      /\ a - 1 \notin positions /\ b \notin positions}}

WidestOf(max) == IF max = <<>> THEN MaxQuantifier ELSE Min({max[1], MaxQuantifier})

(* spans_for_quantifier: every span of an allowed width inside a run. *)
SpansForQuantifier(runs, min, max) ==
  UNION {{Span(a, a + n) : <<a, n>> \in
      {<<a, n>> \in (r.start .. r.end - 1) \X (Max({min, 1}) .. WidestOf(max)) : a + n <= r.end}}
    : r \in runs}

(* Mutant: a run is taken to go on after its end. *)
ContinuationsBeyond(runs, pos, min, max) ==
  {pos + n : n \in {n \in min .. WidestOf(max) :
      \E r \in runs : r.start <= pos /\ pos < r.end /\ pos + n <= r.end + 1}}

(* continuations_at: where a step may end that begins at pos. *)
ContinuationsAt(runs, pos, min, max) ==
  {pos + n : n \in {n \in min .. WidestOf(max) :
      \E r \in runs : r.start <= pos /\ pos < r.end /\ pos + n <= r.end}}

(* Mutant: the last token of the range is not reached. *)
SpansBeforeEnd(pos, min, max, hi) == {pos + n : n \in {n \in min .. WidestOf(max) : pos + n < hi}}

(* spans_for_scan_all: the same when every token of the range matches; it    *)
(* may also begin at the end of the range, with no token at all.             *)
SpansForScanAll(pos, min, max, hi) == {pos + n : n \in {n \in min .. WidestOf(max) : pos + n <= hi}}

StepEnds(step, runs, pos, hi) ==
  (IF step.min = 0 THEN {pos} ELSE {}) \cup
  IF step.node = ScanAll THEN SpansForScanAll(pos, step.min, step.max, hi)
  ELSE ContinuationsAt(runs, pos, step.min, step.max)

(* An optional first step matches nothing at the first position of each run  *)
(* of the second step.                                                       *)
EmptyStarts(steps, runs) ==
  IF steps[1].min = 0 /\ Len(steps) > 1 THEN {r.start : r \in runs[2]} ELSE {}

-----------------------------------------------------------------------------
(* The unlabelled path: the active set is a sequence of [start, end] until a *)
(* second step sorts and deduplicates it.                                    *)

StartUnlabeled(steps, runs) ==
  Listed(SpansForQuantifier(runs[1], steps[1].min, steps[1].max))
    \o Listed({Span(a, a) : a \in EmptyStarts(steps, runs)})

ExtendUnlabeled(active, step, runs, hi) ==
  Listed(UNION {{Span(m.start, e) : e \in StepEnds(step, runs, m.end, hi)} : m \in ToSet(active)})

RunUnlabeled(steps, runs, hi) ==
  FoldLeftDomain(LAMBDA active, k : IF k = 1 THEN active
                                    ELSE ExtendUnlabeled(active, steps[k], runs[k], hi),
                 StartUnlabeled(steps, runs), steps)

-----------------------------------------------------------------------------
(* The labelled path: a match also carries the captures made on the way, and *)
(* of the matches with the same start and end only one is kept: the one      *)
(* whose previous end the hash map yields first.                             *)

Match(start, end, captures, from) ==
  [start |-> start, end |-> end, captures |-> captures, from |-> from]

Captured(step, a, b) ==
  IF step.label = <<>> THEN <<>> ELSE <<[label |-> step.label[1], span |-> Span(a, b)]>>

StartLabeled(steps, runs) ==
  {Match(s.start, s.end, Captured(steps[1], s.start, s.end), 0) :
     s \in SpansForQuantifier(runs[1], steps[1].min, steps[1].max)
           \cup {Span(a, a) : a \in EmptyStarts(steps, runs)}}

(* Mutant: every way to make a match is kept. *)
ExtendVariants(active, step, runs, hi, order) ==
  LET extended ==
        UNION {{Match(m.start, e, m.captures \o Captured(step, m.end, e), m.end) :
                  e \in StepEnds(step, runs, m.end, hi)} : m \in active}
  IN extended

ExtendLabeled(active, step, runs, hi, order) ==
  LET extended ==
        UNION {{Match(m.start, e, m.captures \o Captured(step, m.end, e), m.end) :
                  e \in StepEnds(step, runs, m.end, hi)} : m \in active}
  IN {m \in extended : \A n \in extended :
        m.start = n.start /\ m.end = n.end => order[m.from] <= order[n.from]}

RunLabeled(steps, runs, hi, order) ==
  FoldLeftDomain(LAMBDA active, k : IF k = 1 THEN active
                                    ELSE ExtendLabeled(active, steps[k], runs[k], hi, order),
                 StartLabeled(steps, runs), steps)

-----------------------------------------------------------------------------
(* Sequences. *)

HasLabels(steps) == \E k \in DOMAIN steps : steps[k].label # <<>>

(* Work is split by document when a step repeats or matches any token. *)
BenefitsFromParallel(steps) ==
  \E k \in DOMAIN steps :
    \/ steps[k].min # 1 \/ steps[k].max # <<1>>
    \/ steps[k].node.p = "all"
    \/ steps[k].node.p = "difference" /\ steps[k].node.base.p = "all"

Chunks(steps, c) ==
  LET docs == SpansOf(c, <<"document">>)
  IN IF docs # <<>> /\ Len(docs[1]) > 1 /\ BenefitsFromParallel(steps)
     THEN docs[1] ELSE <<Span(0, TokenCount(c))>>

Before(h1, h2) ==
  \/ h1.span.start < h2.span.start
  \/ h1.span.start = h2.span.start /\ h1.span.end < h2.span.end

RECURSIVE ExecuteNode(_, _, _), PositionsIn(_, _, _, _)

(* build_run_indices: a step whose evaluation fails matches nothing. *)
RunIndices(steps, c, range, order) ==
  [k \in DOMAIN steps |->
     LET found == PositionsIn(steps[k].node, c, range, order)
     IN IF found.ok THEN Runs(found.positions) ELSE {}]

UnlabeledInRange(steps, c, range, order) ==
  IF range.start >= range.end \/ steps = <<>> THEN <<>>
  ELSE SelectSeq(RunUnlabeled(steps, RunIndices(steps, c, range, order), range.end),
                 LAMBDA m : m.end > m.start)

LabeledInRange(steps, c, range, order) ==
  IF range.start >= range.end \/ steps = <<>> THEN {}
  ELSE {m \in RunLabeled(steps, RunIndices(steps, c, range, order), range.end, order) : m.end > m.start}

SequenceInRange(steps, c, range, order) ==
  LET labelled == Listed(LabeledInRange(steps, c, range, order))
      plain == UnlabeledInRange(steps, c, range, order)
  IN SortSeq(IF HasLabels(steps)
             THEN [i \in DOMAIN labelled |->
                     Hit(Span(labelled[i].start, labelled[i].end), labelled[i].captures)]
             ELSE [i \in DOMAIN plain |-> Hit(plain[i], <<>>)], Before)

ExecuteSequence(steps, c, order) ==
  LET chunks == Chunks(steps, c)
  IN FlattenSeq([i \in DOMAIN chunks |-> SequenceInRange(steps, c, chunks[i], order)])

(* Mutant: the sequence is counted over the whole corpus, not document by document. *)
CountWhole(steps, c, order) ==
  Len(UnlabeledInRange(steps, c, Span(0, TokenCount(c)), order))

CountSequence(steps, c, order) ==
  FoldLeft(LAMBDA n, range : n + Len(UnlabeledInRange(steps, c, range, order)), 0, Chunks(steps, c))

-----------------------------------------------------------------------------
(* Filters. *)

(* The positions a node matches at inside a range.  Any node but a scan or a *)
(* set operation is evaluated over the whole corpus and stands for the starts *)
(* of its hits, whatever their width.                                        *)
PositionsIn(node, c, range, order) ==
  LET Found(ps) == [ok |-> TRUE, positions |-> ps \cap (range.start .. range.end - 1)]
      Of(n) == PositionsIn(n, c, range, order)
      Sets == {Of(node.nodes[i]).positions : i \in DOMAIN node.nodes}
      AllOk == \A i \in DOMAIN node.nodes : Of(node.nodes[i]).ok
  IN CASE node.p = "all" -> Found(Positions(c))
       [] node.p = "literal" -> Found(Postings(c, node.layer, node.value))
       [] node.p = "regex" ->
            IF node.value \in DOMAIN Regexes
            THEN Found(PatternPostings(c, node.layer, node.value)) ELSE Fail
       [] node.p = "union" -> IF AllOk THEN Found(UNION Sets) ELSE Fail
       [] node.p = "intersect" ->
            IF AllOk THEN Found({p \in Positions(c) : \A S \in Sets : p \in S}) ELSE Fail
       [] node.p = "difference" ->
            IF Of(node.base).ok /\ Of(node.subtract).ok
            THEN Found(Of(node.base).positions \ Of(node.subtract).positions) ELSE Fail
       [] OTHER -> LET r == ExecuteNode(node, c, order)
                   IN IF r.ok THEN Found(StartsOf(r.hits)) ELSE Fail

(* within a span layer; a layer the corpus does not have filters nothing. *)
FilterBySpan(hits, layer, c) ==
  LET spans == SpansOf(c, layer)
  IN IF spans = <<>> THEN hits
     ELSE SelectSeq(hits, LAMBDA h : \E i \in Containing(spans[1], h.span.start) :
                                        h.span.end <= spans[1][i].end)

(* The hits inside one of the documents chosen; a corpus with no document    *)
(* layer has none.  Document i of the layer has index i - 1.                 *)
FilterByDocuments(hits, Chosen(_), c) ==
  LET docs == SpansOf(c, <<"document">>)
  IN IF docs = <<>> THEN <<>>
     ELSE SelectSeq(hits, LAMBDA h : \E i \in Containing(docs[1], h.span.start) :
                                        h.span.end <= docs[1][i].end /\ Chosen(i - 1))

FilterByComponent(hits, names, c) ==
  FilterByDocuments(hits, LAMBDA doc : \E name \in ToSet(names) \cap DOMAIN c.components :
                            c.components[name].from <= doc /\ doc < c.components[name].to, c)

FilterByDocument(hits, names, c) ==
  FilterByDocuments(hits, LAMBDA doc : c.names[doc + 1] \in ToSet(names), c)

(* Global constraints look at the first capture of a label; one that is       *)
(* missing, or whose attribute is, makes the constraint false.               *)
CaptureOf(h, label) == SelectSeq(h.captures, LAMBDA k : k.label = label)

ResolveAttr(h, la, c) ==
  LET found == CaptureOf(h, la.label)
      p == found[1].span.start
  IN IF found # <<>> /\ p \in Positions(c) /\ la.attr \in DOMAIN TokenAt(c, p)
     THEN <<TokenAt(c, p)[la.attr]>> ELSE <<>>

Compare(n, op, m) ==
  CASE op = ">=" -> n >= m [] op = ">" -> n > m [] op = "<=" -> n <= m
    [] op = "<" -> n < m [] op = "=" -> n = m [] op = "!=" -> n # m

(* The gap from the end of one capture to the start of the other, and 0 when  *)
(* they overlap or stand the other way round.                                *)
EvalDistance(h, w) ==
  LET a == CaptureOf(h, w.left)
      b == CaptureOf(h, w.right)
  IN /\ a # <<>> /\ b # <<>>
     /\ Compare(Max({b[1].span.start - a[1].span.end, 0}), w.op, w.value)

EvaluateConstraint(h, w, c) ==
  IF w.kind = "distance" THEN EvalDistance(h, w)
  ELSE LET left == ResolveAttr(h, w.left, c)
           right == ResolveAttr(h, w.right, c)
       IN left # <<>> /\ right # <<>> /\ ((w.op = "=") <=> (left = right))

-----------------------------------------------------------------------------
(* Projection along an alignment. *)

(* The sentences that start in a document, with the number each is known by:  *)
(* how many before it also end in the document.                              *)
SentencesIn(doc, sents) == {i \in DOMAIN sents : doc.start <= sents[i].start /\ sents[i].start < doc.end}
SentenceNumber(i, doc, sents) ==
  Cardinality({j \in SentencesIn(doc, sents) : j < i /\ sents[j].end <= doc.end})

(* find_doc_and_sent: the unit (document of the component, sentence of the    *)
(* document) a span is inside of, as a set of at most one.                   *)
UnitOf(span, docs, sents, comp) ==
  {<<d - 1 - comp.from, SentenceNumber(i, docs[d], sents)>> :
     <<d, i>> \in {<<d, i>> \in Containing(docs, span.start) \X DOMAIN sents :
        /\ comp.from <= d - 1 /\ d - 1 < comp.to
        /\ span.end <= docs[d].end
        /\ i \in SentencesIn(docs[d], sents)
        /\ sents[i].start <= span.start /\ span.end <= sents[i].end}}

(* resolve_target_span: the sentence of a unit. *)
SpanOfUnit(unit, docs, sents, comp) ==
  LET d == comp.from + unit[1] + 1
  IN IF d \notin DOMAIN docs THEN {}
     ELSE {sents[i] : i \in {i \in SentencesIn(docs[d], sents) :
             sents[i].end <= docs[d].end /\ SentenceNumber(i, docs[d], sents) = unit[2]}}

ProjectAlignment(hits, name, c) ==
  IF name \notin DOMAIN c.alignments THEN Fail ELSE
  LET a == c.alignments[name]
      known == {a.source, a.target} \subseteq DOMAIN c.components
      docs == SpansOf(c, <<"document">>)
      from == SpansOf(c, a.source_layer)
      to == SpansOf(c, a.target_layer)
      units == UNION {UnitOf(h.span, docs[1], from[1], c.components[a.source]) : h \in ToSet(hits)}
      reached == {e[2] : e \in {e \in a.edges : e[1] \in units}}
      spans == [u \in reached |-> SpanOfUnit(u, docs[1], to[1], c.components[a.target])]
      found == Listed({<<u, s>> \in reached \X UNION Range(spans) : s \in spans[u]})
  IN CASE ~known -> Fail
       [] <<>> \in {docs, from, to} -> Evaluated(<<>>)
       [] OTHER -> Evaluated(SortSeq([i \in DOMAIN found |-> Hit(found[i][2], <<>>)],
                                     LAMBDA h1, h2 : h1.span.start < h2.span.start))

-----------------------------------------------------------------------------
(* execute_node, count_node, populate_context. *)

ExecuteFilter(node, hits, c) ==
  CASE node.p = "by span" -> Evaluated(FilterBySpan(hits, node.by, c))
    [] node.p = "by component" -> Evaluated(FilterByComponent(hits, node.by, c))
    [] node.p = "by document" -> Evaluated(FilterByDocument(hits, node.by, c))
    [] node.p = "project" -> ProjectAlignment(hits, node.by, c)
    [] node.p = "by constraints" ->
         Evaluated(SelectSeq(hits, LAMBDA h : \A i \in DOMAIN node.by : EvaluateConstraint(h, node.by[i], c)))

(* Set operations keep the positions hits start at; a difference keeps the    *)
(* hits of its base.                                                         *)
ExecuteSets(node, c, order) ==
  LET Of(n) == ExecuteNode(n, c, order)
      Starts == {StartsOf(Of(node.nodes[i]).hits) : i \in DOMAIN node.nodes}
  IN CASE node.p = "difference" ->
            IF ~Of(node.base).ok \/ ~Of(node.subtract).ok THEN Fail
            ELSE Evaluated(SelectSeq(Of(node.base).hits, LAMBDA h :
                   h.span.start \notin StartsOf(Of(node.subtract).hits)))
       [] \E i \in DOMAIN node.nodes : ~Of(node.nodes[i]).ok -> Fail
       [] node.p = "union" -> Evaluated(HitsAt(UNION Starts))
       [] node.p = "intersect" ->
            Evaluated(HitsAt({p \in Positions(c) : Starts # {} /\ \A S \in Starts : p \in S}))

ExecuteNode(node, c, order) ==
  CASE node.p = "all" -> Evaluated(HitsAt(Positions(c)))
    [] node.p = "literal" -> Evaluated(HitsAt(Postings(c, node.layer, node.value)))
    [] node.p = "regex" ->
         IF node.value \in DOMAIN Regexes
         THEN Evaluated(HitsAt(PatternPostings(c, node.layer, node.value))) ELSE Fail
    [] node.p \in {"union", "intersect", "difference"} -> ExecuteSets(node, c, order)
    [] node.p = "sequence" -> Evaluated(ExecuteSequence(node.steps, c, order))
    [] OTHER -> LET inner == ExecuteNode(node.inner, c, order)
                IN IF inner.ok THEN ExecuteFilter(node, inner.hits, c) ELSE Fail

(* Counting takes shortcuts: the size of a posting list, the complement of    *)
(* one, and sequences without their captures.                                *)
CountNode(node, c, order) ==
  LET evaluated == ExecuteNode(node, c, order)
  IN CASE node.p = "sequence" -> [ok |-> TRUE, count |-> CountSequence(node.steps, c, order)]
       [] node.p = "all" -> [ok |-> TRUE, count |-> TokenCount(c)]
       [] node.p = "difference" /\ node.base.p = "all" /\ node.subtract.p = "literal" ->
            [ok |-> TRUE, count |-> TokenCount(c)
               - Cardinality(Postings(c, node.subtract.layer, node.subtract.value))]
       [] OTHER -> IF evaluated.ok THEN [ok |-> TRUE, count |-> Len(evaluated.hits)] ELSE Fail

(* Where a hit stands: its document and sentence, by where it starts. *)
Context(h, c) ==
  LET In(layer) == IF SpansOf(c, layer) = <<>> THEN {}
                   ELSE Containing(SpansOf(c, layer)[1], h.span.start)
  IN [document |-> In(<<"document">>), sentence |-> In(<<"sentence">>)]
PopulateContext(hits, c) == [i \in DOMAIN hits |-> Context(hits[i], c)]
=============================================================================
