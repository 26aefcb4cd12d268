------------------------------- MODULE Indexes ------------------------------
(***************************************************************************)
(* The indexes of a corpus, in memory while it is built and in the files it  *)
(* is opened from.  A position is a number from 0; an optional value is the   *)
(* set of at most one value.  An inverted index is a set of <<layer, value,   *)
(* position>>, a lexicon a set of <<layer, term>>, spans a function from      *)
(* layers to sequences.                                                      *)
(***************************************************************************)
EXTENDS Integers, SequencesExt, FiniteSetsExt

CONSTANT NumericModulus   \* 2^32 in the code: what an integer layer keeps of a number

Str(s) == <<"s", s>>
Int32(n) == <<"i", n>>
Absent == Str("")
IsInt(v) == v[1] = "i"
IsTerm(v) == v[1] = "s" /\ v # Absent

(* The elements of a set as a sequence, in some order and in a given one. *)
Listed(S) == FoldSet(LAMBDA x, seq : Append(seq, x), <<>>, S)
InOrder(S, before(_, _)) ==
  [i \in 1 .. Cardinality(S) |-> CHOOSE x \in S : Cardinality({y \in S : before(y, x)}) = i - 1]

Shifted(span, offset) == [start |-> span.start + offset, end |-> span.end + offset]
Larger(a, b) == IF a > b THEN a ELSE b

-----------------------------------------------------------------------------
(* The forward index in memory: a sequence of values for each layer. *)

InMemoryForward(names) == [layers |-> [l \in names |-> <<>>], tokens |-> 0]
PaddedTo(values, n) == values \o [i \in 1 .. Larger(n - Len(values), 0) |-> Absent]
AddLayers(forward, names) ==
  [forward EXCEPT !.layers = [l \in DOMAIN @ \cup names |-> IF l \in DOMAIN @ THEN @[l] ELSE <<>>]]

(* Setting values[l] at a position in each layer l of DOMAIN values. *)
SetForward(forward, position, values) ==
  [layers |-> [l \in DOMAIN forward.layers |->
                 IF l \in DOMAIN values
                 THEN Append(PaddedTo(forward.layers[l], position), values[l])
                 ELSE forward.layers[l]],
   tokens |-> IF DOMAIN values = {} THEN forward.tokens ELSE Larger(forward.tokens, position + 1)]

MergedInverted(a, b, offset) == a \cup {<<e[1], e[2], e[3] + offset>> : e \in b}
InvertedValues(inverted, layer) == {e[2] : e \in {f \in inverted : f[1] = layer}}

AddSpan(spans, layer, span) ==
  [l \in DOMAIN spans \cup {layer} |->
     (IF l \in DOMAIN spans THEN spans[l] ELSE <<>>) \o (IF l = layer THEN <<span>> ELSE <<>>)]
MergedSpans(a, b, offset) ==
  [l \in DOMAIN a \cup DOMAIN b |->
     (IF l \in DOMAIN a THEN a[l] ELSE <<>>)
       \o (IF l \in DOMAIN b THEN [i \in DOMAIN b[l] |-> Shifted(b[l][i], offset)] ELSE <<>>)]

(* Sorted by their starts; of two with one start, the first stays first. *)
SortedSpans(spans) ==
  LET Before(i, j) == spans[i].start < spans[j].start \/ (spans[i].start = spans[j].start /\ i < j)
      order == InOrder(DOMAIN spans, Before)
  IN [k \in DOMAIN order |-> spans[order[k]]]
FinalizedSpans(spans) == [l \in DOMAIN spans |-> SortedSpans(spans[l])]

-----------------------------------------------------------------------------
(* forward.bin.  A layer of terms keeps the set of the positions that have     *)
(* one, the sorted terms, and a term number for each of these positions in     *)
(* order; an integer layer keeps one unsigned number for every position.       *)

IsNumericLayer(values) == \E i \in DOMAIN values : IsInt(values[i])

DictEncoded(values) ==
  LET bitmap == {p \in 0 .. Len(values) - 1 : IsTerm(values[p + 1])}
      present == InOrder(bitmap, <)
      terms == Listed({values[p + 1][2] : p \in bitmap})
  IN [encoding |-> "dict", bitmap |-> bitmap, terms |-> terms,
      ids |-> [i \in DOMAIN present |-> SelectInSeq(terms, LAMBDA t : t = values[present[i] + 1][2]) - 1]]

DenseNumeric(values, tokens) ==
  [encoding |-> "numeric",
   numbers |-> [i \in 1 .. tokens |->
                  IF i <= Len(values) /\ IsInt(values[i]) THEN values[i][2] % NumericModulus ELSE 0]]

ForwardFile(layers, tokens) == [tokens |-> tokens, layers |-> layers]

WriteFlatForward(forward) ==
  ForwardFile([l \in DOMAIN forward.layers |->
                 IF IsNumericLayer(forward.layers[l]) THEN DenseNumeric(forward.layers[l], forward.tokens)
                 ELSE DictEncoded(forward.layers[l])], forward.tokens)

(* A layer whose every position has a term is read by position, another one by *)
(* the rank of the position among those that have one.                         *)
GetStr(file, position, layer) ==
  IF layer \notin DOMAIN file.layers \/ file.layers[layer].encoding # "dict" THEN {}
  ELSE LET f == file.layers[layer]
           dense == Cardinality(f.bitmap) = file.tokens
           rank == Cardinality({p \in f.bitmap : p <= position})
           index == IF dense THEN position ELSE rank - 1
       IN IF (dense /\ position >= file.tokens) \/ (~dense /\ position \notin f.bitmap) THEN {}
          ELSE {f.terms[f.ids[index + 1] + 1]}

GetInt(file, position, layer) ==
  IF layer \notin DOMAIN file.layers \/ file.layers[layer].encoding # "numeric" THEN {}
  ELSE IF position >= Len(file.layers[layer].numbers) THEN {} ELSE {file.layers[layer].numbers[position + 1]}

LayerKind(file, layer) == IF layer \notin DOMAIN file.layers THEN {} ELSE {file.layers[layer].encoding}

-----------------------------------------------------------------------------
(* Lookups.  Every one is a binary search for the first index from 0 that is   *)
(* not in a set the indexes before it are in.                                  *)

Bisect(below, n) ==
  LET search[window \in (0 .. n) \X (0 .. n)] ==
        LET lo == window[1]
            hi == window[2]
            mid == lo + (hi - lo) \div 2
        IN IF lo >= hi THEN lo ELSE IF mid \in below THEN search[<<mid + 1, hi>>] ELSE search[<<lo, mid>>]
  IN search[<<0, n>>]
PartitionPoint(seq, holds(_)) == Bisect({i \in 0 .. Len(seq) - 1 : holds(seq[i + 1])}, Len(seq))

(* The index of the span that holds a position. *)
SpanContaining(spans, position) ==
  LET i == PartitionPoint(spans, LAMBDA s : s.end <= position)
  IN IF i < Len(spans) /\ spans[i + 1].start <= position THEN {i} ELSE {}

MWTCovering(mwts, position) ==
  LET i == PartitionPoint(mwts, LAMBDA w : w.start <= position)
  IN IF i > 0 /\ position >= mwts[i].start /\ position < mwts[i].end THEN {mwts[i]} ELSE {}

MWTsInRange(mwts, start, end) ==
  LET first == PartitionPoint(mwts, LAMBDA w : w.end <= start)
      after == SelectInSubSeq(mwts, first + 1, Len(mwts), LAMBDA w : w.start >= end)
  IN SubSeq(mwts, first + 1, IF after = 0 THEN Len(mwts) ELSE after - 1)

EmptyNodesIn(nodes, sentence) ==
  LET start == PartitionPoint(nodes, LAMBDA n : n.sentence_index < sentence)
      rest == SubSeq(nodes, start + 1, Len(nodes))
  IN SubSeq(rest, 1, PartitionPoint(rest, LAMBDA n : n.sentence_index = sentence))
=============================================================================
