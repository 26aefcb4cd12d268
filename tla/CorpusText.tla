----------------------------- MODULE CorpusText -----------------------------
(***************************************************************************)
(* What a corpus says, read off the files of its source without any index:     *)
(* the documents in order, their sentences, and in these the words.            *)
(***************************************************************************)
EXTENDS CorpusCalls

HasText(block) == ~Malformed(block) /\ Lines(block, "word") # <<>>
Text(file) == IF file.state = "text" THEN SelectSeq(BlocksOf(file.lines), HasText) ELSE <<>>

DocumentsIn(name, files) ==
  Mapped(Sorted(DOMAIN files), LAMBDA path :
    [component |-> name, name |-> files[path].name, sentences |-> Text(files[path])])

Documents(source) ==
  SelectSeq(FlattenSeq(Mapped(Sorted(DOMAIN source.components), LAMBDA c : DocumentsIn(c, source.components[c]))),
            LAMBDA d : d.sentences # <<>>)

(* Every sentence, with the numbers from 0 of its document and its place there. *)
Sentences(docs) ==
  FlattenSeq([d \in DOMAIN docs |->
    [k \in DOMAIN docs[d].sentences |->
      [doc |-> d - 1, nth |-> k - 1, block |-> docs[d].sentences[k],
       words |-> Lines(docs[d].sentences[k], "word")]]])

WordsIn(sents) == FoldLeft(LAMBDA n, s : n + Len(s.words), 0, sents)
StartOf(sents, i) == WordsIn(SubSeq(sents, 1, i - 1))
SpanOf(sents, i) == [start |-> StartOf(sents, i), end |-> StartOf(sents, i + 1)]
SpansWhere(sents, holds(_)) == {SpanOf(sents, i) : i \in {j \in DOMAIN sents : holds(sents[j])}}
DocumentSpan(sents, d) ==
  LET mine == SpansWhere(sents, LAMBDA s : s.doc = d)
  IN [start |-> Min({s.start : s \in mine}), end |-> Max({s.end : s \in mine})]

AllWords(sents) == FlattenSeq([i \in DOMAIN sents |-> sents[i].words])

(* What a word is said to be, <<layer, value>>: all of it, and what is left of it  *)
(* when of two values that its feature string gives one key the last counts.       *)
OwnTerms(word) == {<<c, word.fields[c]>> : c \in {d \in DOMAIN word.fields : d = "word" \/ NonEmpty(word.fields[d])}}
FeatsSaid(source, word) ==
  IF source.decompose_feats /\ word.fields["feats"] \in DOMAIN FeatPairs THEN FeatPairs[word.fields["feats"]] ELSE <<>>
Terms(source, word) == OwnTerms(word) \cup ToSet(FeatsSaid(source, word))
LastTerms(source, word) ==
  LET feats == FeatsSaid(source, word)
  IN OwnTerms(word) \cup {feats[i] : i \in {j \in DOMAIN feats : \A k \in DOMAIN feats : k > j => feats[k][1] # feats[j][1]}}

IdOf(docs, s) == IF SentId(s.block) = {} THEN <<docs[s.doc + 1].name, s.nth>> ELSE <<The(SentId(s.block))>>

(* The multiword tokens of a sentence, as spans of the corpus. *)
Ranges(sents, i) ==
  {[start |-> StartOf(sents, i) + w.first - 1, end |-> StartOf(sents, i) + w.last, form |-> w.form,
    no_space_after |-> w.space_after_no] : w \in ToSet(Lines(sents[i].block, "range"))}
AllRanges(sents) == UNION {Ranges(sents, i) : i \in DOMAIN sents}

-----------------------------------------------------------------------------

IndexesTokens(source, sents, v) ==
  LET words == AllWords(sents)
      forward == v["forward.bin"]
      said == UNION {{<<t[1], t[2], p - 1>> : t \in Terms(source, words[p])} : p \in DOMAIN words}
      last == UNION {{<<t[1], t[2], p - 1>> : t \in LastTerms(source, words[p])} : p \in DOMAIN words}
      kept == {e \in last : e[2] # ""}
      layers == {e[1] : e \in said} \cup BaseLayers
  IN /\ CorpusMeta(v).token_count = Len(words) /\ CorpusMeta(v).layers = layers
     /\ v["inverted.bin"] = {e \in said : e[1] \notin ForwardOnlyLayers}
     /\ v["lexicon.bin"] = {<<e[1], e[2]>> : e \in v["inverted.bin"]}
     /\ \A l \in layers \ {"head"}, p \in 0 .. Len(words) :
          GetStr(forward, p, l) = {e[2] : e \in {x \in kept : x[1] = l /\ x[3] = p}}
     /\ \A p \in DOMAIN words : HasNoSpaceAfter(v, p - 1) = words[p].space_after_no

IndexesSentences(docs, sents, v) ==
  /\ SpansOf(v, "sentence") = [i \in DOMAIN sents |-> SpanOf(sents, i)]
  /\ SpansOf(v, "document") = [d \in DOMAIN docs |-> DocumentSpan(sents, d - 1)]
  /\ CorpusMeta(v).document_names = Mapped(docs, LAMBDA d : d.name)
  /\ \A i \in DOMAIN sents :
       /\ SentenceId(v, i - 1) = IdOf(docs, sents[i])
       /\ {n.node_id : n \in ToSet(EmptyNodesIn(Optional(v, "empty_nodes.json", <<>>), i - 1))}
            = {<<n.major, n.minor>> : n \in ToSet(Lines(sents[i].block, "empty"))}
  /\ \A p \in 0 .. WordsIn(sents) :
       /\ MWTCovering(MWTs(v), p) = {w \in AllRanges(sents) : w.start <= p /\ p < w.end}
       /\ \A i \in DOMAIN SpansOf(v, "document") :
            SpanContaining(SpansOf(v, "document"), p) = {i - 1}
              <=> SpansOf(v, "document")[i].start <= p /\ p < SpansOf(v, "document")[i].end

(* Heads are read as numbers, if the first document has any. *)
IndexesHeads(docs, sents, v) ==
  LET words == AllWords(sents)
      first == AllWords(SelectSeq(sents, LAMBDA s : s.doc = 0))
  IN (\E p \in DOMAIN first : first[p].head # {})
       => \A p \in DOMAIN words : words[p].head # {} => GetInt(v["forward.bin"], p - 1, "head") = words[p].head

IsBuiltFrom(source, v) ==
  LET docs == Documents(source)
      sents == Sentences(docs)
  IN IndexesTokens(source, sents, v) /\ IndexesSentences(docs, sents, v) /\ IndexesHeads(docs, sents, v)

-----------------------------------------------------------------------------
(* Texts.  A unit is a multiword token or a word of none, with its form. *)

Units(sents) ==
  LET words == AllWords(sents)
      Alone(p) == ~\E w \in AllRanges(sents) : w.start < p /\ p <= w.end
      single == {[start |-> p - 1, end |-> p, form |-> words[p].fields["word"],
                  no_space_after |-> words[p].space_after_no] : p \in {q \in DOMAIN words : Alone(q)}}
  IN InOrder(AllRanges(sents) \cup single, LAMBDA a, b : a.start < b.start)

(* A range that cuts no multiword token. *)
Clean(sents, start, end) ==
  \A w \in AllRanges(sents) : w.end <= start \/ end <= w.start \/ (start <= w.start /\ w.end <= end)

Spelled(sents, start, end) ==
  LET mine == SelectSeq(Units(sents), LAMBDA u : start <= u.start /\ u.end <= end)
      Piece(i) == (IF mine[i].form = "" THEN <<>> ELSE <<mine[i].form>>)
                    \o (IF i = Len(mine) \/ mine[i].no_space_after THEN <<>> ELSE <<" ">>)
  IN FlattenSeq([i \in DOMAIN mine |-> Piece(i)])

(* A surface with token spans is the text, and cutting it at the spans of the   *)
(* tokens gives their forms back, one span for each position in order.         *)
SpellsWithSpans(sents, start, end, got) ==
  /\ [i \in DOMAIN got.tokens |-> got.tokens[i].position] = [i \in 1 .. end - start |-> start + i - 1]
  /\ Clean(sents, start, end) =>
       /\ got.surface = Spelled(sents, start, end)
       /\ \A i \in DOMAIN got.tokens :
            LET t == got.tokens[i]
                unit == {u \in ToSet(Units(sents)) : u.start = t.position}
            IN SubSeq(got.surface, t.surface_start + 1, t.surface_end)
                 = IF unit = {} \/ The(unit).form = "" THEN <<>> ELSE <<The(unit).form>>

Entry(docs, sents, i) ==
  [surface |-> Spelled(sents, StartOf(sents, i), StartOf(sents, i + 1)), sentence_id |-> IdOf(docs, sents[i]),
   span |-> SpanOf(sents, i)]

(* The number of the nth sentence of a document, if it has one. *)
SentenceAt(sents, d, nth) == {i \in DOMAIN sents : sents[i].doc = d /\ sents[i].nth = nth}
SentencesIn(docs, d) == IF d < Len(docs) THEN Len(docs[d + 1].sentences) ELSE 0

DocumentSaid(source, docs, d) ==
  [index |-> d, name |-> docs[d + 1].name,
   component |-> IF source.single THEN source.name ELSE docs[d + 1].component,
   sentence_count |-> Len(docs[d + 1].sentences)]

AnnotationsSaid(source, words, p, layers) ==
  {<<t[1], Str(t[2])>> : t \in {x \in LastTerms(source, words[p + 1]) : x[1] \in layers /\ x[2] # ""}}

AnswersText(source, r, a) ==
  LET docs == Documents(source)
      sents == Sentences(docs)
      words == AllWords(sents)
      Cut(n) == Smaller(n, Len(words))
  IN CASE r.call = "text.surface" ->
            IF r.start > r.end THEN ~a.ok
            ELSE a.ok /\ (Clean(sents, Cut(r.start), Cut(r.end)) =>
                            a.value = Spelled(sents, Cut(r.start), Cut(r.end)))
       [] r.call = "text.surface_with_token_spans" ->
            IF \E g \in ToSet(r.ranges) : g.start > g.end THEN ~a.ok
            ELSE a.ok /\ \A i \in DOMAIN r.ranges :
                   SpellsWithSpans(sents, Cut(r.ranges[i].start), Cut(r.ranges[i].end), a.value[i])
       [] r.call = "text.sentence" ->
            IF SentenceAt(sents, r.doc, r.sent) = {} THEN ~a.ok
            ELSE a.ok /\ a.value = Entry(docs, sents, The(SentenceAt(sents, r.doc, r.sent)))
       [] r.call = "text.sentences" ->
            IF r.sent_start > r.sent_end \/ SentencesIn(docs, r.doc) = 0 THEN ~a.ok
            ELSE a.ok /\ a.value =
                   [i \in 1 .. Smaller(r.sent_end, SentencesIn(docs, r.doc))
                               - Smaller(r.sent_start, SentencesIn(docs, r.doc)) |->
                      [sent |-> r.sent_start + i - 1,
                       entry |-> Entry(docs, sents, The(SentenceAt(sents, r.doc, r.sent_start + i - 1)))]]
       [] r.call = "text.document" ->
            IF r.doc >= Len(docs) THEN ~a.ok
            ELSE a.ok /\ a.value = [entry |-> DocumentSaid(source, docs, r.doc), span |-> DocumentSpan(sents, r.doc)]
       [] r.call = "corpus.documents" ->
            IF r.component \subseteq (IF source.single THEN {} ELSE DOMAIN source.components)
            THEN a.ok /\ a.value = SelectSeq([d \in DOMAIN docs |-> DocumentSaid(source, docs, d - 1)],
                                             LAMBDA e : r.component \in {{}, {e.component}})
            ELSE ~a.ok
       [] r.call = "text.annotations" ->
            /\ a.ok
            /\ {x \in a.value : x[2] # "head"} =
                 UNION {{<<p, t[1], t[2]>> : t \in AnnotationsSaid(source, words, p, r.layers)} :
                          p \in {q \in r.positions : q < Len(words)}}
       [] r.call = "text.annotations_range" ->
            IF r.start > r.end THEN ~a.ok
            ELSE /\ a.ok /\ Len(a.value) = Cut(r.end) - Cut(r.start)
                 /\ \A i \in DOMAIN a.value :
                      {x \in a.value[i] : x[1] # "head"} =
                        AnnotationsSaid(source, words, r.start + i - 1,
                          IF r.layers = {} THEN {x[1] : x \in Terms(source, words[r.start + i])} ELSE The(r.layers))
       [] r.call = "corpus.layer_info" ->
            LET values == {t[2] : t \in {x \in UNION {Terms(source, words[p]) : p \in DOMAIN words} : x[1] = r.layer}}
            IN a.ok => a.value.value_count = IF r.layer \in ForwardOnlyLayers THEN 0 ELSE Cardinality(values)
       [] OTHER -> TRUE

-----------------------------------------------------------------------------
(* Alignments. *)

DocumentsCalled(docs, component, name) ==
  {d \in 0 .. Len(docs) - 1 : docs[d + 1].component = component /\ docs[d + 1].name = name}

(* The links a file says: of two documents of one name, the later one is meant. *)
Links(config, docs) ==
  {<<Max(DocumentsCalled(docs, config.source, l.source_doc)), Max(l.source_unit),
     Max(DocumentsCalled(docs, config.target, l.target_doc)), Max(l.target_unit)>> :
     l \in {m \in ToSet(FlattenSeq(config.files)) :
              /\ m.fields >= 4 /\ m.source_unit # {} /\ m.target_unit # {}
              /\ DocumentsCalled(docs, config.source, m.source_doc) # {}
              /\ DocumentsCalled(docs, config.target, m.target_doc) # {}}}

LinkedFrom(config, docs, sents, r) ==
  {[doc |-> l[3], start |-> StartOf(sents, The(SentenceAt(sents, l[3], l[4]))),
    end |-> StartOf(sents, The(SentenceAt(sents, l[3], l[4])) + 1)] :
     l \in {k \in Links(config, docs) :
              \E i \in SentenceAt(sents, r.doc, k[2]) :
                 k[1] = r.doc /\ SpanOf(sents, i).end > r.start /\ SpanOf(sents, i).start < r.end}}

AnswersEdges(source, r, a) ==
  LET docs == Documents(source)
      sents == Sentences(docs)
      config == source.alignments[r.alignment_name]
      exist == \A l \in Links(config, docs) : SentenceAt(sents, l[3], l[4]) # {}
  IN r.call = "alignment.project" =>
       IF r.start > r.end \/ r.alignment_name \notin DOMAIN source.alignments THEN ~a.ok
       ELSE IF r.doc >= Len(docs) THEN ~a.ok
       ELSE IF docs[r.doc + 1].component # config.source THEN ~a.ok
       ELSE exist => /\ a.ok /\ ToSet(a.value) = LinkedFrom(config, docs, sents, r)
                     /\ Len(a.value) = Cardinality(ToSet(a.value))
=============================================================================
