---------------------------- MODULE CorpusCalls -----------------------------
(***************************************************************************)
(* What is asked of an open corpus: the accessors of Corpus and the calls of   *)
(* the daemon that read text, documents and alignments.  A corpus v is the     *)
(* function from the files that were opened to what they hold.  A surface is   *)
(* a sequence of forms and of spaces, each of length one.                     *)
(***************************************************************************)
EXTENDS Builder

Fail(code) == [ok |-> FALSE, code |-> code]
Reply(value) == [ok |-> TRUE, value |-> value]
InvalidParams == -32602
InternalError == -32603
AlignmentNotFound == "ALIGNMENT_NOT_FOUND"
SpanOutsideAlignment == "SPAN_OUTSIDE_ALIGNMENT"

The(S) == CHOOSE x \in S : TRUE
Smaller(a, b) == IF a < b THEN a ELSE b

-----------------------------------------------------------------------------
(* Accessors.  A file that is optional and absent holds nothing. *)

CorpusMeta(v) == v["corpus.json"]
Optional(v, file, nothing) == IF file \in DOMAIN v THEN v[file] ELSE nothing
SpansOf(v, layer) == IF layer \in DOMAIN v["spans.bin"] THEN v["spans.bin"][layer] ELSE <<>>
SentenceId(v, i) ==
  LET ids == Optional(v, "sentence_ids.bin", <<>>) IN IF i < Len(ids) THEN ids[i + 1] ELSE <<>>
MWTs(v) == Optional(v, "mwt.bin", <<>>)
HasNoSpaceAfter(v, p) == p \in Optional(v, "spacing.bin", {})

FirstSentenceOf(v, d) ==
  LET docs == SpansOf(v, "document")
      sents == SpansOf(v, "sentence")
      first == PartitionPoint(sents, LAMBDA s : s.start < docs[d + 1].start)
  IN IF d >= Len(docs) THEN {}
     ELSE IF first >= Len(sents) THEN {}
     ELSE IF sents[first + 1].start >= docs[d + 1].end THEN {} ELSE {first}

(* Mutant: a sentence that starts at the end of the document is counted in. *)
LastSentenceToEnd(v, d) ==
  LET docs == SpansOf(v, "document")
      sents == SpansOf(v, "sentence")
      after == PartitionPoint(sents, LAMBDA s : s.start <= docs[d + 1].end)
  IN IF d >= Len(docs) THEN {}
     ELSE IF after = 0 THEN {}
     ELSE IF sents[after].start < docs[d + 1].start THEN {} ELSE {after - 1}

LastSentenceOf(v, d) ==
  LET docs == SpansOf(v, "document")
      sents == SpansOf(v, "sentence")
      after == PartitionPoint(sents, LAMBDA s : s.start < docs[d + 1].end)
  IN IF d >= Len(docs) THEN {}
     ELSE IF after = 0 THEN {}
     ELSE IF sents[after].start < docs[d + 1].start THEN {} ELSE {after - 1}

SentenceCount(v, d) ==
  IF FirstSentenceOf(v, d) = {} \/ LastSentenceOf(v, d) = {} THEN 0
  ELSE Larger(The(LastSentenceOf(v, d)) - The(FirstSentenceOf(v, d)) + 1, 0)

ComponentNamed(v, name) == {c \in ToSet(CorpusMeta(v).components) : c.name = name}
Holds(component, d) == component.from <= d /\ d < component.to
ComponentOf(v, d) ==
  LET cs == {c \in ToSet(CorpusMeta(v).components) : Holds(c, d)}
  IN IF cs = {} THEN CorpusMeta(v).name ELSE The(cs).name

(* A multiword token stands for its words where the text comes to its first one; *)
(* a text that starts inside one leaves out the words up to its end.              *)
SurfaceText(v, start, end) ==
  LET mwts == MWTsInRange(MWTs(v), start, end)
      Space(suppress) == IF suppress THEN <<>> ELSE <<" ">>
      bound == Max({end} \cup {mwts[i].end : i \in DOMAIN mwts})
      from[p \in start .. bound, suppress \in BOOLEAN] ==
        LET at == {i \in DOMAIN mwts : mwts[i].start = p}
            inside == \E i \in DOMAIN mwts : p > mwts[i].start /\ p < mwts[i].end
        IN CASE p >= end -> <<>>
             [] p < end /\ at # {} ->
                  LET w == mwts[Min(at)] IN Space(suppress) \o <<w.form>> \o from[w.end, w.no_space_after]
             [] p < end /\ at = {} /\ inside -> from[p + 1, suppress]
             [] OTHER -> Space(suppress) \o Listed(GetStr(v["forward.bin"], p, "word"))
                           \o from[p + 1, HasNoSpaceAfter(v, p)]
  IN from[start, TRUE]

-----------------------------------------------------------------------------
(* text.surface and text.surface_with_token_spans: positions beyond the corpus *)
(* are moved to its end.                                                      *)

Clamped(v, n) == Smaller(n, CorpusMeta(v).token_count)

TextSurface(v, r) ==
  IF r.start > r.end THEN Fail(InvalidParams)
  ELSE Reply(SurfaceText(v, Clamped(v, r.start), Clamped(v, r.end)))

TokenSpan(p, from, to, emitted) == [position |-> p, surface_start |-> from, surface_end |-> to, emitted |-> emitted]

(* Here a multiword token that does not lie in the range whole is not used. *)
SurfaceWithTokens(v, start, end) ==
  LET walk[p \in start .. end] ==
        IF p = start THEN [surface |-> <<>>, tokens |-> <<>>, at |-> start]
        ELSE LET before == walk[p - 1]
                 covering == MWTCovering(MWTs(v), p - 1)
                 use == {w \in covering : w.start = p - 1 /\ w.end <= end}
                 form == IF use # {} THEN <<The(use).form>> ELSE Listed(GetStr(v["forward.bin"], p - 1, "word"))
                 next == IF use # {} THEN The(use).end ELSE p
                 from == Len(before.surface)
                 to == from + Len(form)
                 nospace == IF use # {} THEN The(use).no_space_after ELSE HasNoSpaceAfter(v, p - 1)
             IN IF before.at # p - 1 THEN before
                ELSE [surface |-> before.surface \o form
                                    \o (IF next < end /\ ~nospace THEN <<" ">> ELSE <<>>),
                      tokens |-> Append(before.tokens, TokenSpan(p - 1, from, to, TRUE))
                                   \o [i \in 1 .. next - p |-> TokenSpan(p - 1 + i, to, to, FALSE)],
                      at |-> next]
  IN [surface |-> walk[end].surface, tokens |-> walk[end].tokens]

TextSurfaceWithTokenSpans(v, r) ==
  IF \E i \in DOMAIN r.ranges : r.ranges[i].start > r.ranges[i].end THEN Fail(InvalidParams)
  ELSE Reply(Mapped(r.ranges, LAMBDA g : SurfaceWithTokens(v, Clamped(v, g.start), Clamped(v, g.end))))

(* text.sentence, text.sentences and text.document. *)
SentenceEntry(v, i) ==
  LET span == SpansOf(v, "sentence")[i + 1]
  IN [surface |-> SurfaceText(v, span.start, span.end), sentence_id |-> SentenceId(v, i), span |-> span]

SentenceInDocument(v, d, sent) ==
  {i \in {f + sent : f \in FirstSentenceOf(v, d)} : LastSentenceOf(v, d) # {} /\ i <= The(LastSentenceOf(v, d))}

TextSentence(v, r) ==
  LET found == SentenceInDocument(v, r.doc, r.sent)
  IN IF found = {} THEN Fail(InvalidParams) ELSE Reply(SentenceEntry(v, The(found)))

TextSentences(v, r) ==
  LET first == The(FirstSentenceOf(v, r.doc))
      count == The(LastSentenceOf(v, r.doc)) - first + 1
      from == Smaller(r.sent_start, count)
      to == Smaller(r.sent_end, count)
  IN IF r.sent_start > r.sent_end \/ r.doc >= Len(CorpusMeta(v).document_names)
          \/ FirstSentenceOf(v, r.doc) = {} \/ LastSentenceOf(v, r.doc) = {}
     THEN Fail(InvalidParams)
     ELSE Reply([i \in 1 .. to - from |-> [sent |-> from + i - 1, entry |-> SentenceEntry(v, first + from + i - 1)]])

DocumentEntry(v, d) ==
  [index |-> d, name |-> CorpusMeta(v).document_names[d + 1], component |-> ComponentOf(v, d),
   sentence_count |-> SentenceCount(v, d)]

TextDocument(v, r) ==
  IF r.doc >= Len(CorpusMeta(v).document_names) THEN Fail(InvalidParams)
  ELSE IF r.doc >= Len(SpansOf(v, "document")) THEN Fail(InternalError)
  ELSE Reply([entry |-> DocumentEntry(v, r.doc), span |-> SpansOf(v, "document")[r.doc + 1]])

(* text.annotations and text.annotations_range: a layer answers with its terms or *)
(* its numbers, as it was written.                                               *)
FetchAnnotation(v, p, layer) ==
  LET kind == LayerKind(v["forward.bin"], layer) IN
  CASE kind = {"dict"} -> {Str(s) : s \in GetStr(v["forward.bin"], p, layer)}
    [] kind = {"numeric"} -> {Int32(n) : n \in GetInt(v["forward.bin"], p, layer)}
    [] OTHER -> {}

TextAnnotations(v, r) ==
  Reply(UNION {{<<p, l, x>> : x \in FetchAnnotation(v, p, l)} : p \in r.positions, l \in r.layers})

TextAnnotationsRange(v, r) ==
  LET start == Clamped(v, r.start)
      end == Clamped(v, r.end)
      layers == IF r.layers = {} THEN CorpusMeta(v).layers ELSE The(r.layers)
  IN IF r.start > r.end THEN Fail(InvalidParams)
     ELSE Reply([i \in 1 .. end - start |-> UNION {{l} \X FetchAnnotation(v, start + i - 1, l) : l \in layers}])

-----------------------------------------------------------------------------
(* corpus.info, corpus.documents and corpus.layer_info. *)

CorpusInfo(v) ==
  Reply([name |-> CorpusMeta(v).name, layers |-> CorpusMeta(v).layers,
         components |-> Mapped(CorpusMeta(v).components, LAMBDA c : c.name),
         alignments |-> {a.name : a \in CorpusMeta(v).alignments}])

CorpusDocuments(v, r) ==
  LET allowed == UNION {ComponentNamed(v, c) : c \in r.component}
      documents == [i \in DOMAIN CorpusMeta(v).document_names |-> DocumentEntry(v, i - 1)]
  IN IF r.component # {} /\ allowed = {} THEN Fail(InvalidParams)
     ELSE Reply(SelectSeq(documents, LAMBDA e : r.component = {} \/ Holds(The(allowed), e.index)))

CorpusLayerInfo(v, r) ==
  LET kind == LayerKind(v["forward.bin"], r.layer)
  IN IF kind = {} THEN Fail(InvalidParams)
     ELSE Reply([kind |-> The(kind), value_count |-> Cardinality(InvertedValues(v["inverted.bin"], r.layer))])

(* alignment.list and alignment.project: the sentences of the document that the *)
(* range touches, and for each the sentences its edges lead to, once each.       *)

AlignmentList(v) == Reply(CorpusMeta(v).alignments)
AlignmentNamed(v, name) == {a \in CorpusMeta(v).alignments : a.name = name}

Overlapping(v, d, start, end) ==
  LET first == The(FirstSentenceOf(v, d))
      sents == SpansOf(v, "sentence")
  IN SelectSeq([i \in 1 .. SentenceCount(v, d) |-> i - 1],
               LAMBDA k : sents[first + k + 1].end > start /\ sents[first + k + 1].start < end)

EdgesFrom(v, name, unit) ==
  SelectSeq(IF name \in DOMAIN Optional(v, "alignments.bin", <<>>) THEN v["alignments.bin"][name] ELSE <<>>,
            LAMBDA edge : edge[1] = unit)

(* Mutant: the documents of the target are counted from the first of the corpus. *)
AddFromCorpus(v, target, targets, edge) ==
  LET d == edge[2][1]
      sents == SpansOf(v, "sentence")
      i == The(FirstSentenceOf(v, d)) + edge[2][2]
      candidate == [doc |-> d, start |-> sents[i + 1].start, end |-> sents[i + 1].end]
  IN IF ~targets.ok THEN targets
     ELSE IF FirstSentenceOf(v, d) = {} THEN Fail(InternalError)
     ELSE IF i >= Len(sents) THEN Fail(InternalError)
     ELSE IF candidate \in ToSet(targets.value) THEN targets ELSE Reply(Append(targets.value, candidate))

(* A sentence number is counted from the first sentence of the target document, *)
(* whether or not the document has that many.                                   *)
AddTarget(v, target, targets, edge) ==
  LET d == target.from + edge[2][1]
      sents == SpansOf(v, "sentence")
      i == The(FirstSentenceOf(v, d)) + edge[2][2]
      candidate == [doc |-> d, start |-> sents[i + 1].start, end |-> sents[i + 1].end]
  IN IF ~targets.ok THEN targets
     ELSE IF FirstSentenceOf(v, d) = {} THEN Fail(InternalError)
     ELSE IF i >= Len(sents) THEN Fail(InternalError)
     ELSE IF candidate \in ToSet(targets.value) THEN targets ELSE Reply(Append(targets.value, candidate))

ProjectAlignment(v, r) ==
  LET alignment == The(AlignmentNamed(v, r.alignment_name))
      sources == ComponentNamed(v, alignment.source_component)
      targets == ComponentNamed(v, alignment.target_component)
      units == Mapped(Overlapping(v, r.doc, r.start, r.end), LAMBDA k : <<r.doc - The(sources).from, k>>)
      edges == FlattenSeq(Mapped(units, LAMBDA u : EdgesFrom(v, alignment.name, u)))
  IN CASE r.start > r.end -> Fail(InvalidParams)
       [] r.start <= r.end /\ AlignmentNamed(v, r.alignment_name) = {} -> Fail(AlignmentNotFound)
       [] OTHER ->
            IF sources = {} \/ targets = {} THEN Fail(InternalError)
            ELSE IF ~Holds(The(sources), r.doc) THEN Fail(SpanOutsideAlignment)
            ELSE IF FirstSentenceOf(v, r.doc) = {} THEN Fail(InternalError)
            ELSE FoldLeft(LAMBDA acc, e : AddTarget(v, The(targets), acc, e), Reply(<<>>), edges)

HandleCall(v, r) ==
  CASE r.call = "corpus.info" -> CorpusInfo(v)
    [] r.call = "corpus.documents" -> CorpusDocuments(v, r)
    [] r.call = "corpus.layer_info" -> CorpusLayerInfo(v, r)
    [] r.call = "text.surface" -> TextSurface(v, r)
    [] r.call = "text.surface_with_token_spans" -> TextSurfaceWithTokenSpans(v, r)
    [] r.call = "text.sentence" -> TextSentence(v, r)
    [] r.call = "text.sentences" -> TextSentences(v, r)
    [] r.call = "text.document" -> TextDocument(v, r)
    [] r.call = "text.annotations" -> TextAnnotations(v, r)
    [] r.call = "text.annotations_range" -> TextAnnotationsRange(v, r)
    [] r.call = "alignment.list" -> AlignmentList(v)
    [] r.call = "alignment.project" -> ProjectAlignment(v, r)
=============================================================================
