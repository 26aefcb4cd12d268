--------------------------- MODULE QuerySemantics ---------------------------
(***************************************************************************)
(* What a query should mean, independently of how it is evaluated: how a     *)
(* tree is written, after the grammar in parser.rs, and which spans of a     *)
(* corpus it matches, by structural induction on the tree.  The properties   *)
(* of module Queries compare the parser and the executor with this module.   *)
(***************************************************************************)
EXTENDS Executor

-----------------------------------------------------------------------------
(* Writing a tree.  A style says whether optional spaces are written, aliases *)
(* used, and whether a query that ends in "within document" is put in         *)
(* parentheses before a global constraint.                                   *)

Styles == [spaced : BOOLEAN, aliased : BOOLEAN, guarded : BOOLEAN]

RECURSIVE Joined(_, _)
Joined(parts, separator) ==
  IF Len(parts) <= 1 THEN IF parts = <<>> THEN <<>> ELSE parts[1]
  ELSE parts[1] \o separator \o Joined(Tail(parts), separator)

Gap(style) == IF style.spaced THEN <<" ">> ELSE <<>>
Quoted(v, quote) == <<quote>> \o v \o <<quote>>
LayerText(layer, style) == IF style.aliased /\ layer = <<"upos">> THEN <<"pos">> ELSE layer
SpanText(layer, style) ==
  CASE ~style.aliased -> layer
    [] layer = <<"sentence">> -> <<"s">>
    [] layer = <<"document">> -> <<"doc">>
    [] OTHER -> layer
NumberText(n) == <<CHOOSE w \in DOMAIN Numerals : Numerals[w] = n>>
OpText(op) ==
  CASE op = "!=" -> <<"!", "=">> [] op = ">=" -> <<">", "=">> [] op = "<=" -> <<"<", "=">>
    [] OTHER -> <<op>>

ConstraintText(c, style) ==
  LayerText(c.layer, style) \o Gap(style) \o OpText(c.op) \o Gap(style)
    \o Quoted(c.value, IF c.kind = "literal" THEN "\"" ELSE "/")
TokenText(q, style) ==
  LET cs == q.constraints
      isWord == style.aliased /\ Len(cs) = 1 /\ cs[1].layer = <<"word">> /\ cs[1].op = "="
                /\ cs[1].kind = "literal"
  IN IF isWord THEN Quoted(cs[1].value, "\"")
     ELSE <<"[">> \o Gap(style)
       \o Joined([i \in DOMAIN cs |-> ConstraintText(cs[i], style)],
                 Gap(style) \o <<"&">> \o Gap(style)) \o Gap(style) \o <<"]">>

QuantifierText(min, max, style) ==
  CASE min = 1 /\ max = <<>> -> <<"+">>
    [] min = 0 /\ max = <<>> -> <<"*">>
    [] min = 0 /\ max = <<1>> -> <<"?">>
    [] max = <<>> -> <<"{">> \o NumberText(min) \o <<",", "}">>
    [] max = <<min>> -> <<"{">> \o NumberText(min) \o <<"}">>
    [] OTHER -> <<"{">> \o NumberText(min) \o <<",">> \o Gap(style) \o NumberText(max[1]) \o <<"}">>

WhereText(w, style) ==
  IF w.kind = "distance"
  THEN <<"distance", "(">> \o w.left \o <<",">> \o w.right \o <<")">> \o Gap(style)
         \o OpText(w.op) \o Gap(style) \o NumberText(w.value)
  ELSE w.left.label \o <<".">> \o LayerText(w.left.attr, style) \o Gap(style) \o OpText(w.op)
         \o Gap(style) \o w.right.label \o <<".">> \o LayerText(w.right.attr, style)

EndsInDocument(q) == q.q = "within" /\ q.layer = <<"document">>
Restrictions == {"within", "component", "document", "project"}

RECURSIVE QueryText(_, _), RestrictedText(_, _), AtomText(_, _)

AtomText(q, style) ==
  CASE q.q = "token" -> TokenText(q, style)
    [] q.q = "capture" -> q.name \o <<":">> \o Gap(style) \o AtomText(q.inner, style)
    [] OTHER -> <<"(">> \o QueryText(q, style) \o <<")">>
ElementText(q, style) ==
  IF q.q = "repetition"
  THEN AtomText(q.inner, style) \o Gap(style) \o QuantifierText(q.min, q.max, style)
  ELSE AtomText(q, style)
SequenceText(q, style) ==
  IF q.q = "sequence"
  THEN Joined([i \in DOMAIN q.parts |-> ElementText(q.parts[i], style)], Gap(style))
  ELSE ElementText(q, style)
NamesText(names, style) ==
  <<":">> \o Gap(style) \o Joined([i \in DOMAIN names |-> Quoted(names[i], "\"")], <<",">> \o Gap(style))

RestrictedText(q, style) ==
  CASE q.q = "or" -> Joined([i \in DOMAIN q.parts |-> SequenceText(q.parts[i], style)],
                            Gap(style) \o <<"|">> \o Gap(style))
    [] q.q = "within" -> RestrictedText(q.inner, style) \o <<" ", "within", " ">>
                           \o SpanText(q.layer, style)
    [] q.q = "component" -> RestrictedText(q.inner, style) \o <<" ", "within", " ", "component">>
                              \o NamesText(q.names, style)
    [] q.q = "document" -> RestrictedText(q.inner, style) \o <<" ", "within", " ">>
                             \o SpanText(<<"document">>, style) \o NamesText(q.names, style)
    [] q.q = "project" -> RestrictedText(q.inner, style) \o Gap(style) \o <<"=">>
                            \o q.alignment \o <<"=", ">">>
    [] OTHER -> SequenceText(q, style)

QueryText(q, style) ==
  IF q.q # "constrained" THEN RestrictedText(q, style)
  ELSE LET inner == RestrictedText(q.inner, style)
       IN (IF style.guarded /\ EndsInDocument(q.inner) THEN <<"(">> \o inner \o <<")">> ELSE inner)
          \o Gap(style) \o <<":", ":">> \o Gap(style)
          \o Joined([i \in DOMAIN q.where |-> WhereText(q.where[i], style)],
                    Gap(style) \o <<"&">> \o Gap(style))

-----------------------------------------------------------------------------
(* The matches of a tree: a start, an end, and the captures in the order the  *)
(* labels are met.                                                           *)

MatchOf(a, b, captures) == [start |-> a, end |-> b, captures |-> captures]

Satisfies(token, x) ==
  (x.op = "=") <=>
     /\ x.layer \in DOMAIN token
     /\ IF x.kind = "literal" THEN token[x.layer] = x.value ELSE token[x.layer] \in Regexes[x.value]

(* A pattern that does not compile is an error of its own; nothing satisfies it. *)
Compiles(x) == x.kind = "regex" => x.value \in DOMAIN Regexes

Compose(M1, M2) ==
  {MatchOf(m[1].start, m[2].end, m[1].captures \o m[2].captures) :
     m \in {m \in M1 \X M2 : m[1].end = m[2].start}}

Empty(c) == {MatchOf(p, p, <<>>) : p \in 0 .. TokenCount(c)}

(* n copies in a row, for every n allowed.  A label on what is repeated        *)
(* captures all the copies together.                                         *)
RECURSIVE Copies(_, _, _)
Copies(M, n, c) == IF n = 0 THEN Empty(c) ELSE Compose(Copies(M, n - 1, c), M)
Repeated(M, min, max, c) == UNION {Copies(M, n, c) : n \in min .. WidestOf(max)}

Labelled(M, name) ==
  {MatchOf(m.start, m.end, <<[label |-> name, span |-> Span(m.start, m.end)]>> \o m.captures) : m \in M}

Inside(m, s) == s.start <= m.start /\ m.end <= s.end
DocumentOf(m, c) == {i \in DOMAIN c.spans[<<"document">>] : Inside(m, c.spans[<<"document">>][i])}

(* Sentence k of document d of a component, k and d from 0. *)
UnitSpan(unit, layer, component, c) ==
  LET doc == c.spans[<<"document">>][c.components[component].from + unit[1] + 1]
      sents == SelectSeq(c.spans[layer], LAMBDA s : doc.start <= s.start /\ s.end <= doc.end)
  IN sents[unit[2] + 1]

Image(M, a, c) ==
  {LET t == UnitSpan(e[2], a.target_layer, a.target, c) IN MatchOf(t.start, t.end, <<>>) :
     e \in {e \in a.edges : \E m \in M : Inside(m, UnitSpan(e[1], a.source_layer, a.source, c))}}

Holds(m, w, c) ==
  LET At(label) == CHOOSE k \in ToSet(m.captures) : k.label = label
      Value(la) == TokenAt(c, At(la.label).span.start)[la.attr]
      gap == At(w.right).span.start - At(w.left).span.end
  IN IF w.kind = "distance" THEN Compare(Max({gap, 0}), w.op, w.value)
     ELSE (w.op = "=") <=> (Value(w.left) = Value(w.right))

RECURSIVE Matches(_, _)
Matches(q, c) ==
  LET Inner == Matches(q.inner, c)
      Parts == [i \in DOMAIN q.parts |-> Matches(q.parts[i], c)]
  IN CASE q.q = "token" ->
            {MatchOf(p, p + 1, <<>>) : p \in {p \in Positions(c) :
               \A i \in DOMAIN q.constraints :
                 Compiles(q.constraints[i]) /\ Satisfies(TokenAt(c, p), q.constraints[i])}}
       [] q.q = "sequence" -> FoldLeft(Compose, Empty(c), Parts)
       [] q.q = "or" -> UNION ToSet(Parts)
       [] q.q = "capture" -> Labelled(Inner, q.name)
       [] q.q = "repetition" ->
            IF q.inner.q = "capture"
            THEN Labelled(Repeated(Matches(q.inner.inner, c), q.min, q.max, c), q.inner.name)
            ELSE Repeated(Inner, q.min, q.max, c)
       [] q.q = "within" -> {m \in Inner : \E i \in DOMAIN c.spans[q.layer] : Inside(m, c.spans[q.layer][i])}
       [] q.q = "document" -> {m \in Inner : \E i \in DocumentOf(m, c) : c.names[i] \in ToSet(q.names)}
       [] q.q = "component" ->
            {m \in Inner : \E i \in DocumentOf(m, c), name \in ToSet(q.names) \cap DOMAIN c.components :
               c.components[name].from < i /\ i <= c.components[name].to}
       [] q.q = "project" -> Image(Inner, c.alignments[q.alignment], c)
       [] q.q = "constrained" -> {m \in Inner : \A i \in DOMAIN q.where : Holds(m, q.where[i], c)}
=============================================================================
