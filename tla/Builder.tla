------------------------------ MODULE Builder -------------------------------
(***************************************************************************)
(* The sinks a build gathers its indexes in: one for each file, merged in      *)
(* order into the sink of its component, merged into that of the corpus, while *)
(* the forward index of each file goes to a writer of one temporary file for   *)
(* each layer.                                                               *)
(***************************************************************************)
EXTENDS Conllu, Indexes

CONSTANTS
  BaseLayers,   \* the layers every sink has: the columns of the format, "head" among them
  FeatPairs,    \* FeatPairs[s]: the pairs <<layer, value>> of a feature string that has any, in order
  Rank          \* the rank of each path and name in lexicographic order

(* A key may come again in a feature string, with another value. *)
ASSUME FeatPairsAssumption == \A s \in DOMAIN FeatPairs : FeatPairs[s] \in Seq(STRING \X STRING)

(* Layers kept out of the inverted index and the lexicon. *)
ForwardOnlyLayers == {"head", "deps"}

NewSink ==
  [inverted |-> {}, forward |-> InMemoryForward(BaseLayers), spans |-> <<>>, lexicon |-> {},
   layers |-> BaseLayers, position |-> 0, document_names |-> <<>>, sentence_ids |-> <<>>,
   mwts |-> <<>>, spacing |-> {}, empty_nodes |-> <<>>]

DecomposedFeats(token, decompose) ==
  IF decompose /\ "feats" \in DOMAIN token.layers /\ token.layers["feats"] \in DOMAIN FeatPairs
  THEN FeatPairs[token.layers["feats"]] ELSE <<>>

(* Every annotation of a token, <<layer, value>>, and the last that is made in a layer. *)
Annotations(token, decompose) ==
  {<<l, token.layers[l]>> : l \in DOMAIN token.layers} \cup ToSet(DecomposedFeats(token, decompose))
LastValue(token, decompose, l) ==
  LET feats == DecomposedFeats(token, decompose)
      named == {i \in DOMAIN feats : feats[i][1] = l}
  IN IF named = {} THEN token.layers[l] ELSE feats[Max(named)][2]

(* The inverted index and the lexicon take every annotation, the forward index *)
(* keeps the last of each layer.                                             *)
AddToken(sink, token, decompose) ==
  LET terms == Annotations(token, decompose)
      names == {t[1] : t \in terms}
      indexed == {t \in terms : t[1] \notin ForwardOnlyLayers}
      values == [l \in names \cup {h \in {"head"} : token.head # {}} |->
                   IF l = "head" THEN Int32(CHOOSE n \in token.head : TRUE) ELSE Str(LastValue(token, decompose, l))]
      p == sink.position
  IN [sink EXCEPT !.inverted = @ \cup {<<t[1], t[2], p>> : t \in indexed},
                  !.lexicon = @ \cup indexed,
                  !.layers = @ \cup names,
                  !.forward = SetForward(AddLayers(@, names), p, values),
                  !.spacing = @ \cup {q \in {p} : token.space_after_no},
                  !.position = p + 1]

(* The tokens of a sentence, then its multiword tokens, then, if it has tokens, *)
(* its empty nodes, its span and its id: its own, or its number in the document. *)
AddSentence(sink, doc_name, nth, sentence, decompose) ==
  LET start == sink.position
      worded == FoldLeft(LAMBDA s, t : AddToken(s, t, decompose), sink, sentence.tokens)
      mwts == Mapped(sentence.mwts, LAMBDA w :
                [start |-> start + w.first - 1, end |-> start + w.last, form |-> w.form,
                 no_space_after |-> w.no_space_after])
      nodes == Mapped(sentence.empty_nodes, LAMBDA e :
                 [sentence_index |-> Len(sink.sentence_ids), node_id |-> e.node_id, form |-> e.form])
      id == IF sentence.sent_id = {} THEN <<doc_name, nth>> ELSE <<CHOOSE i \in sentence.sent_id : TRUE>>
      whole == [worded EXCEPT !.mwts = @ \o mwts]
  IN IF worded.position = start THEN whole
     ELSE [whole EXCEPT !.empty_nodes = @ \o nodes,
                        !.spans = AddSpan(@, "sentence", [start |-> start, end |-> worded.position]),
                        !.sentence_ids = Append(@, id)]

AddDocument(sink, doc_name, sentences, decompose) ==
  LET start == sink.position
      first == Len(sink.sentence_ids)
      filled == FoldLeft(LAMBDA s, x : AddSentence(s, doc_name, Len(s.sentence_ids) - first, x, decompose),
                         sink, sentences)
  IN IF filled.position = start THEN filled
     ELSE [filled EXCEPT !.spans = AddSpan(@, "document", [start |-> start, end |-> filled.position]),
                         !.document_names = Append(@, doc_name)]

(* Mutant: the empty nodes keep the sentence numbers of their file. *)
MergeUnnumbered(sink, other) ==
  LET offset == sink.position
  IN [sink EXCEPT
        !.inverted = MergedInverted(@, other.inverted, offset),
        !.spans = MergedSpans(@, other.spans, offset),
        !.lexicon = @ \cup other.lexicon,
        !.layers = @ \cup other.layers,
        !.document_names = @ \o other.document_names,
        !.sentence_ids = @ \o other.sentence_ids,
        !.mwts = @ \o Mapped(other.mwts, LAMBDA w : [w EXCEPT !.start = @ + offset, !.end = @ + offset]),
        !.spacing = @ \cup {p + offset : p \in other.spacing},
        !.empty_nodes = @ \o other.empty_nodes,
        !.position = @ + other.position]

(* Positions move by the tokens of the sink merged into, sentence numbers by its *)
(* sentences.  The forward index of a merged sink has been taken out of it.      *)
MergeFrom(sink, other) ==
  LET offset == sink.position
      sentences == Len(sink.sentence_ids)
  IN [sink EXCEPT
        !.inverted = MergedInverted(@, other.inverted, offset),
        !.spans = MergedSpans(@, other.spans, offset),
        !.lexicon = @ \cup other.lexicon,
        !.layers = @ \cup other.layers,
        !.document_names = @ \o other.document_names,
        !.sentence_ids = @ \o other.sentence_ids,
        !.mwts = @ \o Mapped(other.mwts, LAMBDA w : [w EXCEPT !.start = @ + offset, !.end = @ + offset]),
        !.spacing = @ \cup {p + offset : p \in other.spacing},
        !.empty_nodes = @ \o Mapped(other.empty_nodes, LAMBDA e : [e EXCEPT !.sentence_index = @ + sentences]),
        !.position = @ + other.position]

-----------------------------------------------------------------------------
(* The streaming writer of the forward index. *)

NewStreaming == [layers |-> <<>>, tokens |-> 0]

(* Whether a layer is of integers is settled by the first file that has it. *)
AppendLayer(layers, name, values, offset) ==
  LET old == IF name \in DOMAIN layers THEN layers[name]
             ELSE [numeric |-> IsNumericLayer(values), values |-> <<>>]
  IN [old EXCEPT !.values = PaddedTo(@, offset) \o values]

AppendFrom(streaming, forward, offset) ==
  IF forward.tokens = 0 THEN streaming
  ELSE [layers |-> [l \in DOMAIN streaming.layers \cup DOMAIN forward.layers |->
                      IF l \in DOMAIN forward.layers
                      THEN AppendLayer(streaming.layers, l, forward.layers[l], offset)
                      ELSE streaming.layers[l]],
        tokens |-> Larger(streaming.tokens, offset + forward.tokens)]

Finalize(streaming) ==
  ForwardFile([l \in DOMAIN streaming.layers |->
                 LET values == PaddedTo(streaming.layers[l].values, streaming.tokens)
                 IN IF streaming.layers[l].numeric THEN DenseNumeric(values, streaming.tokens)
                    ELSE DictEncoded(values)], streaming.tokens)

-----------------------------------------------------------------------------
(* A directory, a function from paths to files: the files are read side by side *)
(* and merged in the order of their paths.  Any file that fails fails it all.    *)

(* Names that are told apart by their ranks. *)
Ranked(names) ==
  /\ IsFiniteSet(names)
  /\ \A x \in names : Rank[x] \in Int
  /\ \A x, y \in names : Rank[x] = Rank[y] => x = y

IsDirectory(files) == Ranked(DOMAIN files) /\ \A path \in DOMAIN files : IsFile(files[path])

Sorted(names) == InOrder(names, LAMBDA a, b : Rank[a] < Rank[b])

FileSink(file, strict, decompose) ==
  AddDocument(NewSink, file.name, ReadFile(file, strict).sentences, decompose)

TakeFile(build, sink) ==
  IF sink.position = 0 THEN build
  ELSE [build EXCEPT !.streaming = AppendFrom(@, sink.forward, build.offset + build.sink.position),
                     !.sink = MergeFrom(@, sink)]

BuildFromDirectory(files, strict, decompose, streaming, offset) ==
  IF \E path \in DOMAIN files : ~ReadFile(files[path], strict).ok THEN [ok |-> FALSE]
  ELSE LET sinks == Mapped(Sorted(DOMAIN files), LAMBDA path : FileSink(files[path], strict, decompose))
           merged == FoldLeft(TakeFile, [sink |-> NewSink, streaming |-> streaming, offset |-> offset], sinks)
       IN [ok |-> TRUE, sink |-> merged.sink, streaming |-> merged.streaming]

-----------------------------------------------------------------------------
(* Alignment files: lines of two document names and two sentence numbers. *)

(* Of two documents of a component with one name, the last is meant. *)
DocumentsNamed(component, names, name) ==
  LET Here == {i \in 0 .. component.to - component.from - 1 : names[component.from + i + 1] = name}
  IN IF Here = {} THEN {} ELSE {Max(Here)}

(* A line of too few fields or of an unknown document is skipped, or fails a *)
(* strict build; a sentence number that is none fails any build.             *)
ReadEdge(edges, line, source, target, names, strict) ==
  LET from == DocumentsNamed(source, names, line.source_doc)
      to == DocumentsNamed(target, names, line.target_doc)
      refused == [edges EXCEPT !.ok = FALSE]
      skipped == IF strict THEN refused ELSE edges
  IN CASE ~edges.ok -> edges
       [] line.fields < 4 -> skipped
       [] line.fields >= 4 /\ from = {} -> skipped
       [] line.fields >= 4 /\ from # {} /\ line.source_unit = {} -> refused
       [] line.fields >= 4 /\ from # {} /\ line.source_unit # {} /\ to = {} -> skipped
       [] line.fields >= 4 /\ from # {} /\ line.source_unit # {} /\ to # {} /\ line.target_unit = {} -> refused
       [] OTHER -> [edges EXCEPT !.edges =
                      Append(@, <<<<Max(from), Max(line.source_unit)>>, <<Max(to), Max(line.target_unit)>>>>)]

ReadAlignment(files, source, target, names, strict) ==
  FoldLeft(LAMBDA edges, line : ReadEdge(edges, line, source, target, names, strict),
           [ok |-> TRUE, edges |-> <<>>], FlattenSeq(files))
=============================================================================
