------------------------------ MODULE MCQueries -----------------------------
(***************************************************************************)
(* Queries over three-token corpora of one or two documents.                *)
(***************************************************************************)
EXTENDS Queries

MCWords == {"within", "distance", "component", "doc", "document", "s", "sent", "sentence", "p",
            "para", "paragraph", "pos", "upos", "word", "a", "b", "x", "y", "N", "V", "fr", "en",
            "d1", "d2", "al", "0", "1", "2", "3", "9"}
MCNumerals == [w \in {"0", "1", "2", "3", "9"} |->
                 CASE w = "0" -> 0 [] w = "1" -> 1 [] w = "2" -> 2 [] w = "3" -> 3 [] OTHER -> 9]
MCRegexes == (<<"x">> :> {<<"x">>}) @@ (<<".">> :> {<<"x">>, <<"y">>})

-----------------------------------------------------------------------------
(* Corpora: every three tokens of three kinds, in two layouts of documents and *)
(* sentences; the second has two components, aligned sentence by sentence in a *)
(* crossed and in a many-to-one way.                                          *)

Tokens == {[word |-> <<"x">>, upos |-> <<"N">>], [word |-> <<"y">>, upos |-> <<"N">>],
           [word |-> <<"y">>, upos |-> <<"V">>]}
AsLayers(t) == (<<"word">> :> t.word) @@ (<<"upos">> :> t.upos)
Texts(n) == {[i \in 1 .. n |-> AsLayers(t[i])] : t \in [1 .. n -> Tokens]}

OneDocument(tokens) ==
  [tokens |-> tokens,
   spans |-> (<<"document">> :> <<Span(0, 3)>>) @@ (<<"sentence">> :> <<Span(0, 2), Span(2, 3)>>),
   names |-> <<<<"d1">>>>, components |-> <<"fr">> :> [from |-> 0, to |-> 1], alignments |-> <<>>]
TwoDocuments(tokens) ==
  [tokens |-> tokens,
   spans |-> (<<"document">> :> <<Span(0, 2), Span(2, 3)>>)
             @@ (<<"sentence">> :> <<Span(0, 1), Span(1, 2), Span(2, 3)>>),
   names |-> <<<<"d1">>, <<"d2">>>>,
   components |-> (<<"fr">> :> [from |-> 0, to |-> 1]) @@ (<<"en">> :> [from |-> 1, to |-> 2]),
   alignments |-> <<"al">> :>
     [source |-> <<"fr">>, target |-> <<"en">>, source_layer |-> <<"sentence">>,
      target_layer |-> <<"sentence">>,
      edges |-> {<< <<0, 0>>, <<0, 0>> >>, << <<0, 1>>, <<0, 0>> >>}]]

MCCorpora == {OneDocument(t) : t \in Texts(3)} \cup {TwoDocuments(t) : t \in Texts(3)}

-----------------------------------------------------------------------------
(* Questions. *)

C(layer, op, value) == Constraint(<<layer>>, op, "literal", <<value>>)
Wild == TokenQuery(<<>>)
X == TokenQuery(<<C("word", "=", "x")>>)
NotX == TokenQuery(<<C("word", "!=", "x")>>)
Patterns ==
  {Wild, X, NotX,
   TokenQuery(<<C("word", "=", "y"), C("upos", "=", "N")>>),
   TokenQuery(<<C("word", "!=", "x"), C("upos", "!=", "N")>>),
   TokenQuery(<<C("upos", "=", "N"), C("word", "!=", "y")>>),
   TokenQuery(<<Constraint(<<"word">>, "=", "regex", <<"x">>)>>),
   TokenQuery(<<Constraint(<<"word">>, "!=", "regex", <<".">>)>>),
   TokenQuery(<<Constraint(<<"word">>, "=", "regex", <<"(">>)>>)}

Repeats(q, bounds) == {Repetition(q, b[1], b[2]) : b \in bounds}
Quantified(q) ==
  {q} \cup Repeats(q, {<<1, <<>>>>, <<0, <<>>>>, <<0, <<1>>>>, <<2, <<2>>>>, <<3, <<>>>>,
                       <<0, <<0>>>>, <<1, <<2>>>>, <<2, <<1>>>>})
Common(q) == {q} \cup Repeats(q, {<<1, <<>>>>, <<0, <<1>>>>, <<2, <<>>>>})
Lab(name, q) == IF q.q = "repetition" THEN [q EXCEPT !.inner = Capture(<<name>>, @)] ELSE Capture(<<name>>, q)

Singles == UNION {Quantified(q) : q \in Patterns}
Plain2 == UNION {Common(q) : q \in {Wild, X, NotX}}
Pairs == {SequenceOf(<<l, r>>) : <<l, r>> \in Plain2 \X Plain2}
Wide == {Wild, Repetition(Wild, 0, <<>>), Repetition(X, 0, <<1>>), X, Repetition(Wild, 1, <<2>>)}
Triples == {SequenceOf(t) : t \in Wide \X Wide \X Wide}

LabelledPairs ==
  {SequenceOf(<<Lab("a", l), r>>) : <<l, r>> \in Wide \X Wide}
    \cup {SequenceOf(<<Lab("a", l), Lab("b", r)>>) : <<l, r>> \in Wide \X Wide}
    \cup {SequenceOf(<<Lab("a", l), m, Lab("b", Wild)>>) : <<l, m>> \in Wide \X Wide}
    \cup {Capture(<<"a">>, X), Lab("a", Repetition(X, 1, <<>>)), Lab("a", Repetition(Wild, 2, <<>>)),
          SequenceOf(<<Capture(<<"a">>, X), Capture(<<"a">>, X)>>)}

Small == {X, NotX, AnyOf(<<X, NotX>>), AnyOf(<<X, Wild, X>>), Repetition(Wild, 1, <<>>),
          SequenceOf(<<X, NotX>>), SequenceOf(<<Wild, Wild>>)}
Restricted(q) ==
  {Within(q, <<"sentence">>), Within(q, <<"document">>), WithinDocument(q, <<<<"d1">>>>),
   WithinDocument(q, <<<<"d2">>, <<"d1">>>>), WithinDocument(q, <<<<"x">>>>),
   WithinComponent(q, <<<<"fr">>>>), WithinComponent(q, <<<<"en">>, <<"x">>>>),
   Project(q, <<"al">>), Project(WithinComponent(q, <<<<"fr">>>>), <<"al">>),
   Within(Project(q, <<"al">>), <<"sentence">>)}

Ask(l, m, r, where) == Constrained(SequenceOf(<<Lab("a", l), m, Lab("b", r)>>), where)
WordsOf(op) == Comparison(LabelAttr(<<"a">>, <<"word">>), op, LabelAttr(<<"b">>, <<"upos">>))
Same(op) == Comparison(LabelAttr(<<"a">>, <<"word">>), op, LabelAttr(<<"b">>, <<"word">>))
Gap0(op, n) == Distance(<<"a">>, <<"b">>, op, n)
ConstrainedOnes ==
  {Ask(Wild, Repetition(Wild, 0, <<>>), r, w) : r \in {Wild, Repetition(Wild, 1, <<>>)},
     w \in {<<Same("=")>>, <<Same("!=")>>, <<WordsOf("=")>>, <<Gap0(">=", 1)>>,
            <<Gap0("<", 1), Same("=")>>, <<Gap0("=", 0)>>, <<Gap0("!=", 0)>>, <<Gap0("<=", 1)>>, <<Gap0(">", 0)>>}}
    \cup {Constrained(Capture(<<"a">>, X), <<Same("=")>>),
          Constrained(Within(SequenceOf(<<Capture(<<"a">>, Wild), Capture(<<"b">>, Wild)>>), <<"sentence">>),
                      <<Same("!=")>>)}

Odd == {SequenceOf(<<SequenceOf(<<X, NotX>>), X>>), SequenceOf(<<AnyOf(<<X, NotX>>), X>>),
        Repetition(Repetition(X, 1, <<>>), 1, <<>>), AnyOf(<<SequenceOf(<<X, X>>), X>>),
        SequenceOf(<<X, Within(Wild, <<"sentence">>)>>), Capture(<<"b">>, Repetition(X, 1, <<>>)),
        SequenceOf(<<Constrained(Capture(<<"a">>, X), <<Gap0("=", 0)>>), X>>),
        Constrained(Within(SequenceOf(<<Capture(<<"a">>, X), Capture(<<"b">>, X)>>), <<"document">>),
                    <<Same("=")>>)}

MCQuestions == Singles \cup Pairs \cup Triples \cup LabelledPairs \cup ConstrainedOnes \cup Odd
                 \cup UNION {Restricted(q) : q \in Small} \cup Small
MCWrittenIn == {s \in Styles : s.guarded}

(* Texts of up to four pieces. *)
Pieces == {<<"[", "]">>, <<"\"", "x", "\"">>, <<"(">>, <<")">>, <<"|">>, <<"+">>, <<"{", "1", ",", "2", "}">>,
           <<"a", ":">>, <<":", ":">>, <<"within", " ", "s">>, <<" ">>, <<"=", "al", "=", ">">>,
           <<"a", ".", "pos", "=", "a", ".", "word">>, <<"distance", "(", "a", ",", "a", ")", "<", "9">>}
MCScribbles == UNION {{FlattenSeq(t) : t \in [1 .. n -> Pieces]} : n \in 1 .. 4}
=============================================================================
