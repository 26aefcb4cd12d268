------------------------------ MODULE MCLibrary ----------------------------
(***************************************************************************)
(* Corpora of up to seven words in up to four files, alone or in two           *)
(* components.                                                               *)
(***************************************************************************)
EXTENDS Library

MCBaseLayers == {"word", "lemma", "feats", "head", "deps"}
MCFeatPairs ==
  ("N=S" :> <<<<"feats.N", "S">>>>)
    @@ ("N=P|G=F|N=D" :> <<<<"feats.N", "P">>, <<"feats.G", "F">>, <<"feats.N", "D">>>>)
MCRank == [n \in {"d1", "d2", "sub/d1", "en", "fr", "al", "la"} |->
             CASE n = "d1" -> 1 [] n = "d2" -> 2 [] n = "sub/d1" -> 3 [] n = "en" -> 4 [] n = "fr" -> 5
               [] n = "al" -> 6 [] OTHER -> 7]

Fields(w, l, f, d) == ("word" :> w) @@ ("lemma" :> l) @@ ("feats" :> f) @@ ("deps" :> d)
Word(w, l, f, d, head, nospace) ==
  [line |-> "word", fields |-> Fields(w, l, f, d), head |-> head, space_after_no |-> nospace]
Range2(form, nospace) == [line |-> "range", first |-> 1, last |-> 2, form |-> form, space_after_no |-> nospace]
Node(major) == [line |-> "empty", major |-> major, minor |-> 1, form |-> "e"]
Short == [line |-> "short"]
Blank == <<[line |-> "blank"]>>
Id(s) == [line |-> "sent_id", id |-> s]

A == Word("a", "l", "N=S", "_", {0}, FALSE)
B == Word("b", "_", "_", "0:d", {1}, TRUE)
C == Word("a", "_", "N=P|G=F|N=D", "_", {}, FALSE)
E == Word("", "l", "_", "_", {2}, FALSE)

One == <<A>>
Contracted == <<Id("s1"), Range2("ab", FALSE), A, B>>
Elided == <<Node(0), C, Range2("x", TRUE), B, A, Node(1)>>
Lone == <<[line |-> "comment"], Id("s0"), Id("s2"), Node(1), B, E>>
Broken == <<A, B, Short, C>>
Wordless == <<Id("s3"), Range2("y", FALSE), Node(1)>>

File(name, blocks) ==
  [name |-> name, state |-> "text", lines |-> FlattenSeq([i \in DOMAIN blocks |-> blocks[i] \o Blank])]
Bad(name, state) == [name |-> name, state |-> state, lines |-> <<>>]

Texts(name) ==
  {File(name, <<One, Lone>>), File(name, <<Contracted>>), File(name, <<Elided, Contracted>>),
   File(name, <<Broken, Contracted, Wordless>>), File(name, <<<<C>>, Blank, <<C>>>>)}
Blanks(name) == {File(name, <<Wordless>>), Bad(name, "garbled")}

Source(single, components, alignments, strict, decompose) ==
  [name |-> "corpus", single |-> single, components |-> components, alignments |-> alignments,
   strict |-> strict, decompose_feats |-> decompose]

Singles ==
  {Source(TRUE, "fr" :> (("d1" :> f) @@ ("d2" :> g)), <<>>, strict, f # g) :
     <<f, g, strict>> \in (Texts("d1") \cup Blanks("d1")) \X Texts("d2") \X BOOLEAN}
    \cup {Source(TRUE, "fr" :> ("d1" :> Bad("d1", "unreadable")), <<>>, FALSE, FALSE)}

Edge(d, i, e, j) == [fields |-> 4, source_doc |-> d, source_unit |-> i, target_doc |-> e, target_unit |-> j]
Few == [fields |-> 3, source_doc |-> "d1", source_unit |-> {0}, target_doc |-> "d1", target_unit |-> {}]
Al(files) == "al" :> [source |-> "fr", target |-> "en", files |-> files]
La(files) == "la" :> [source |-> "en", target |-> "fr", files |-> files]

Crossed == <<<<Edge("d2", {0}, "d1", {1}), Edge("d2", {1}, "d1", {0})>>,
             <<Few, Edge("d2", {0}, "d1", {0}), Edge("d1", {0}, "d1", {1}), Edge("d2", {0}, "d1", {1})>>>>
Alignments ==
  {Al(Crossed), Al(Crossed) @@ La(<<<<Edge("d1", {1}, "d2", {0}), Edge("d1", {0}, "d2", {1})>>>>),
   Al(<<<<Edge("d9", {0}, "d1", {0}), Edge("d2", {0}, "d9", {0}), Edge("d2", {1}, "d1", {0})>>>>),
   Al(<<<<Edge("d2", {0}, "d1", {9})>>>>), Al(<<<<Edge("d2", {}, "d1", {0})>>>>),
   Al(<<<<Edge("d2", {0}, "d1", {})>>>>),
   "al" :> [source |-> "fr", target |-> "xx", files |-> <<>>]}

French ==
  {("d1" :> f) @@ ("d2" :> File("d2", <<Elided, Contracted>>)) :
     f \in {File("d1", <<One, Lone>>), File("d1", <<Wordless>>)}}
    \cup {("d2" :> File("d2", <<One, <<C>>>>)) @@ ("sub/d1" :> File("d2", <<Contracted, Elided>>))}
English == {"d1" :> File("d1", <<Lone, One>>)}

Parallels ==
  {Source(FALSE, ("fr" :> fr) @@ ("en" :> en), al, strict, strict) :
     <<fr, en, al, strict>> \in French \X English \X Alignments \X BOOLEAN}

(* The two sources that directories are built over from. *)
First == Source(TRUE, "fr" :> ("d1" :> File("d1", <<Contracted>>)), <<>>, FALSE, FALSE)
Second == Source(FALSE, "fr" :> ("d1" :> File("d1", <<One>>)), <<>>, FALSE, FALSE)
Failing == Source(FALSE, "fr" :> ("d1" :> File("d1", <<Broken>>)), <<>>, TRUE, FALSE)

MCSources == <<First, Second, Failing>> \o Listed(Singles \cup Parallels)
(* A directory that is built over is opened at any time, and the opening is      *)
(* followed until a build disturbs it; others are opened when their build is     *)
(* through.                                                                    *)
Followed ==
  /\ opener.pc = "opening" => opener.undisturbed
  /\ made # <<>> /\ Last(made).source > 3 /\ opener.pc # "closed" => builder.pc = "idle" /\ Finished
MCRebuilds == [i \in DOMAIN MCSources |-> IF i = 1 THEN {2, 3} ELSE {}]

-----------------------------------------------------------------------------

FromTo(a, b) == [start |-> a, end |-> b]
Ends == {0, 1, 3, 4, 9}
Projects ==
  {[call |-> "alignment.project", alignment_name |-> n, doc |-> d, start |-> a, end |-> b] :
     <<n, d, a, b>> \in {"al", "la"} \X (0 .. 3) \X {0, 2, 4, 9} \X {0, 3, 9}}
Reads ==
  {[call |-> "text.surface", start |-> a, end |-> b] : <<a, b>> \in Ends \X Ends}
  \cup {[call |-> "text.surface_with_token_spans", ranges |-> <<FromTo(a, b), FromTo(a, 9)>>] :
          <<a, b>> \in Ends \X Ends}
  \cup {[call |-> "text.sentence", doc |-> d, sent |-> k] : <<d, k>> \in (0 .. 3) \X (0 .. 2)}
  \cup {[call |-> "text.sentences", doc |-> d, sent_start |-> a, sent_end |-> b] :
          <<d, a, b>> \in (0 .. 3) \X {0, 1, 9} \X {0, 2}}
  \cup {[call |-> "text.document", doc |-> d] : d \in 0 .. 3}
  \cup {[call |-> "text.annotations", positions |-> {0, 3, 9}, layers |-> {"word", "feats.N", "none"}],
        [call |-> "text.annotations_range", start |-> 1, end |-> 9, layers |-> {}],
        [call |-> "text.annotations_range", start |-> 0, end |-> 4, layers |-> {{"lemma", "deps"}}],
        [call |-> "text.annotations_range", start |-> 2, end |-> 1, layers |-> {}],
        [call |-> "corpus.info"], [call |-> "alignment.list"]}
  \cup {[call |-> "corpus.documents", component |-> c] : c \in {{}, {"fr"}, {"en"}, {"xx"}}}
  \cup {[call |-> "corpus.layer_info", layer |-> l] : l \in {"word", "head", "deps", "feats.N", "none"}}
MCCalls(s) ==
  IF s <= 3 THEN {[call |-> "text.document", doc |-> 0]}
  ELSE IF MCSources[s].single THEN Reads \cup {[call |-> "alignment.project", alignment_name |-> "al",
                                               doc |-> 0, start |-> 0, end |-> 9]}
  ELSE Reads \cup Projects
=============================================================================
