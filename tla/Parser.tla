------------------------------- MODULE Parser -------------------------------
(***************************************************************************)
(* The recursive-descent parser of montre-query (parser.rs) and the tree   *)
(* it builds (ast.rs).  The input is a sequence of lexemes: one per        *)
(* punctuation character or space, and one per maximal run of              *)
(* alphanumeric characters (a "word").  What a string is made of beyond    *)
(* that is not modelled; where a space, a dot or a quotation mark may stand *)
(* is, because the code decides it call by call.  An identifier is the      *)
(* sequence of the lexemes it is made of, since it may contain dots.        *)
(*                                                                         *)
(* A parsing function takes the input and a position and returns a result   *)
(* [ok, val, at], or Fail: every error of the code ends the whole parse.     *)
(***************************************************************************)
EXTENDS Naturals, Sequences

CONSTANTS
  Words,       \* the words inputs are made of
  Numerals,    \* those made of digits, as a function to their value
  U32Max       \* the largest value a quantifier or a distance can have

ASSUME ParserAssumption ==
  /\ {"within", "distance", "component", "doc", "document", "s", "sent",
      "sentence", "p", "para", "paragraph", "pos", "upos", "word"} \subseteq Words
  /\ DOMAIN Numerals \subseteq Words
  /\ \A w \in DOMAIN Numerals : Numerals[w] \in Nat

(***************************************************************************)
(* The syntax tree.  An absent upper bound is <<>>, a present one <<n>>.    *)
(***************************************************************************)
TokenQuery(constraints) == [q |-> "token", constraints |-> constraints]
SequenceOf(parts) == [q |-> "sequence", parts |-> parts]
Repetition(inner, min, max) == [q |-> "repetition", inner |-> inner, min |-> min, max |-> max]
AnyOf(alternatives) == [q |-> "or", parts |-> alternatives]
Within(inner, layer) == [q |-> "within", inner |-> inner, layer |-> layer]
Capture(name, inner) == [q |-> "capture", name |-> name, inner |-> inner]
WithinComponent(inner, names) == [q |-> "component", inner |-> inner, names |-> names]
WithinDocument(inner, names) == [q |-> "document", inner |-> inner, names |-> names]
Project(inner, alignment) == [q |-> "project", inner |-> inner, alignment |-> alignment]
Constrained(inner, where) == [q |-> "constrained", inner |-> inner, where |-> where]

Constraint(layer, op, kind, value) == [layer |-> layer, op |-> op, kind |-> kind, value |-> value]
LabelAttr(label, attr) == [label |-> label, attr |-> attr]
Comparison(left, op, right) == [kind |-> "compare", left |-> left, op |-> op, right |-> right]
Distance(left, right, op, value) ==
  [kind |-> "distance", left |-> left, right |-> right, op |-> op, value |-> value]

(* The trees directly below a tree. *)
Below(q) ==
  CASE q.q = "token" -> <<>>
    [] q.q \in {"sequence", "or"} -> q.parts
    [] OTHER -> <<q.inner>>

-----------------------------------------------------------------------------
(* Results, and reading the input. *)

Parsed(v, i) == [ok |-> TRUE, val |-> v, at |-> i]
Fail == [ok |-> FALSE]
Then(r, Rest(_, _)) == IF r.ok THEN Rest(r.val, r.at) ELSE Fail

Peek(s, i) == IF i <= Len(s) THEN s[i] ELSE "end of input"

RECURSIVE Skip(_, _)
Skip(s, i) == IF Peek(s, i) = " " THEN Skip(s, i + 1) ELSE i

(* consume: the spaces before the expected character are skipped. *)
Consume(s, i, t) ==
  LET j == Skip(s, i) IN IF Peek(s, j) = t THEN Parsed(t, j + 1) ELSE Fail

(* try_consume: whether the character is next; After is where it leaves off. *)
IsNext(s, i, t) == Peek(s, Skip(s, i)) = t
After(s, i) == Skip(s, i) + 1

(* try_consume_str: the word is next and not the beginning of a longer one. *)
IsNextWord(s, i, w) ==
  LET j == Skip(s, i) IN Peek(s, j) = w /\ Peek(s, j + 1) \notin Words

RECURSIVE RunEnd(_, _, _)
RunEnd(s, i, chars) == IF Peek(s, i) \in chars THEN RunEnd(s, i + 1, chars) ELSE i

RunOf(s, i, chars) ==
  LET j == RunEnd(s, i, chars) IN IF j = i THEN Fail ELSE Parsed(SubSeq(s, i, j - 1), j)

(* An identifier may contain dots, the label of a global constraint may not. *)
Identifier(s, i) == RunOf(s, i, Words \cup {"."})
BareIdentifier(s, i) == RunOf(s, i, Words)

Number(s, i) ==
  IF Peek(s, i) \in DOMAIN Numerals /\ Numerals[Peek(s, i)] <= U32Max
  THEN Parsed(Numerals[Peek(s, i)], i + 1) ELSE Fail

(* Where the string opened before position i is closed; a backslash hides   *)
(* the character after it.                                                 *)
RECURSIVE Closing(_, _, _)
Closing(s, i, quote) ==
  CASE i > Len(s) -> Fail
    [] Peek(s, i) = quote -> Parsed(quote, i)
    [] Peek(s, i) = "\\" -> Closing(s, i + 2, quote)
    [] OTHER -> Closing(s, i + 1, quote)

(* The text up to that quotation mark, kept as it is written. *)
Delimited(s, i, quote) ==
  Then(Closing(s, i, quote), LAMBDA v, j : Parsed(SubSeq(s, i, j - 1), j + 1))

(* A name of a component or document: quoted (no escapes here) or bare. *)
RECURSIVE NextQuote(_, _)
NextQuote(s, i) ==
  CASE i > Len(s) -> Fail
    [] Peek(s, i) = "\"" -> Parsed("\"", i)
    [] OTHER -> NextQuote(s, i + 1)

Name(s, i) ==
  IF Peek(s, i) = "\""
  THEN Then(NextQuote(s, i + 1), LAMBDA v, j : Parsed(SubSeq(s, i + 1, j - 1), j + 1))
  ELSE Identifier(s, i)

RECURSIVE MoreNames(_, _, _)
MoreNames(s, i, names) ==
  IF IsNext(s, i, ",")
  THEN Then(Name(s, Skip(s, After(s, i))),
            LAMBDA name, j : MoreNames(s, j, Append(names, name)))
  ELSE Parsed(names, Skip(s, i))

NameList(s, i) == Then(Name(s, i), LAMBDA name, j : MoreNames(s, j, <<name>>))

(* Aliases of span layers and of annotation layers. *)
SpanAlias(name) ==
  CASE name \in {<<"s">>, <<"sent">>} -> <<"sentence">>
    [] name = <<"doc">> -> <<"document">>
    [] name \in {<<"p">>, <<"para">>} -> <<"paragraph">>
    [] OTHER -> name
LayerAlias(name) == IF name = <<"pos">> THEN <<"upos">> ELSE name

-----------------------------------------------------------------------------
(* Token patterns: [layer = "value" & ...], and "value" for its word. *)

ConstraintValue(s, i) ==
  CASE Peek(s, i) = "\"" ->
         Then(Delimited(s, i + 1, "\""), LAMBDA v, j : Parsed([kind |-> "literal", value |-> v], j))
    [] Peek(s, i) = "/" ->
         Then(Delimited(s, i + 1, "/"), LAMBDA v, j : Parsed([kind |-> "regex", value |-> v], j))
    [] OTHER -> Fail

EqualOrNot(s, i) ==
  CASE Peek(s, i) = "!" /\ Peek(s, i + 1) = "=" -> Parsed("!=", i + 2)
    [] Peek(s, i) = "=" -> Parsed("=", i + 1)
    [] OTHER -> Fail

TokenConstraint(s, i) ==
  Then(Identifier(s, Skip(s, i)), LAMBDA layer, j :
  Then(EqualOrNot(s, Skip(s, j)), LAMBDA op, k :
  Then(ConstraintValue(s, Skip(s, k)), LAMBDA v, n :
    Parsed(Constraint(LayerAlias(layer), op, v.kind, v.value), n))))

RECURSIVE MoreConstraints(_, _, _)
MoreConstraints(s, i, found) ==
  Then(TokenConstraint(s, i), LAMBDA c, j :
    IF IsNext(s, j, "&") THEN MoreConstraints(s, After(s, j), Append(found, c))
    ELSE Then(Consume(s, j, "]"), LAMBDA v, k : Parsed(TokenQuery(Append(found, c)), k)))

TokenPattern(s, i) ==
  Then(Consume(s, i, "["), LAMBDA v, j :
    IF IsNext(s, j, "]") THEN Parsed(TokenQuery(<<>>), After(s, j))
    ELSE MoreConstraints(s, j, <<>>))

QuotedWord(s, i) ==
  Then(Delimited(s, After(s, i), "\""), LAMBDA v, j :
    Parsed(TokenQuery(<<Constraint(<<"word">>, "=", "literal", v)>>), j))

-----------------------------------------------------------------------------
(* Quantifiers.  Nothing relates the two numbers of {n,m}. *)

Bounds(s, i, inner) ==
  Then(Number(s, Skip(s, i)), LAMBDA min, j :
    IF IsNext(s, j, "}") THEN Parsed(Repetition(inner, min, <<min>>), After(s, j))
    ELSE Then(Consume(s, j, ","), LAMBDA v, k :
           IF IsNext(s, k, "}") THEN Parsed(Repetition(inner, min, <<>>), After(s, k))
           ELSE Then(Number(s, Skip(s, k)), LAMBDA max, n :
                Then(Consume(s, n, "}"), LAMBDA w, m :
                  Parsed(Repetition(inner, min, <<max>>), m)))))

Quantifier(s, i, inner) ==
  LET j == Skip(s, i) IN
  CASE Peek(s, j) = "+" -> Parsed(Repetition(inner, 1, <<>>), j + 1)
    [] Peek(s, j) = "*" -> Parsed(Repetition(inner, 0, <<>>), j + 1)
    [] Peek(s, j) = "?" -> Parsed(Repetition(inner, 0, <<1>>), j + 1)
    [] Peek(s, j) = "{" -> Bounds(s, j + 1, inner)
    [] OTHER -> Parsed(inner, j)

-----------------------------------------------------------------------------
(* Global constraints: a.attr = b.attr, distance(a, b) >= n. *)

CmpOp(s, i) ==
  LET c == Peek(s, i)
      eq == Peek(s, i + 1) = "="
  IN CASE c \in {">", "<", "!"} /\ eq ->
            Parsed(CASE c = ">" -> ">=" [] c = "<" -> "<=" [] OTHER -> "!=", i + 2)
       [] c \in {">", "<", "="} -> Parsed(c, i + 1)
       [] OTHER -> Fail

AttrOf(s, i) ==
  Then(BareIdentifier(s, i), LAMBDA label, j :
  Then(Consume(s, j, "."), LAMBDA v, k :
  Then(Identifier(s, k), LAMBDA attr, n :
    Parsed(LabelAttr(label, LayerAlias(attr)), n))))

CompareConstraint(s, i) ==
  Then(AttrOf(s, i), LAMBDA left, j :
  Then(CmpOp(s, Skip(s, j)), LAMBDA op, k :
  Then(AttrOf(s, Skip(s, k)), LAMBDA right, n :
    IF op \in {"=", "!="} THEN Parsed(Comparison(left, op, right), n) ELSE Fail)))

DistanceConstraint(s, i) ==
  Then(Consume(s, i, "("), LAMBDA v1, i1 :
  Then(Identifier(s, Skip(s, i1)), LAMBDA left, i2 :
  Then(Consume(s, i2, ","), LAMBDA v2, i3 :
  Then(Identifier(s, Skip(s, i3)), LAMBDA right, i4 :
  Then(Consume(s, i4, ")"), LAMBDA v3, i5 :
  Then(CmpOp(s, Skip(s, i5)), LAMBDA op, i6 :
  Then(Number(s, Skip(s, i6)), LAMBDA value, i7 :
    Parsed(Distance(left, right, op, value), i7))))))))

GlobalConstraint(s, i) ==
  IF IsNextWord(s, i, "distance") THEN DistanceConstraint(s, After(s, i))
  ELSE CompareConstraint(s, Skip(s, i))

RECURSIVE ConstraintList(_, _, _)
ConstraintList(s, i, found) ==
  Then(GlobalConstraint(s, i), LAMBDA c, j :
    IF IsNext(s, j, "&") THEN ConstraintList(s, After(s, j), Append(found, c))
    ELSE Parsed(Append(found, c), Skip(s, j)))

MaybeConstrained(s, i, query) ==
  LET j == Skip(s, i) IN
  IF Peek(s, j) = ":" /\ Peek(s, j + 1) = ":"
  THEN Then(ConstraintList(s, j + 2, <<>>), LAMBDA where, k : Parsed(Constrained(query, where), k))
  ELSE Parsed(query, j)

-----------------------------------------------------------------------------
(* within ... and =alignment=>, any number of them, from the inside out. *)

Projects(s, i) == Peek(s, i) = "=" /\ Peek(s, i + 1) # "="

Restriction(s, i, query) ==
  Then(Identifier(s, Skip(s, i)), LAMBDA keyword, j :
    LET named == IsNext(s, j, ":")
        names == NameList(s, Skip(s, After(s, j)))
    IN CASE keyword = <<"component">> /\ named ->
              Then(names, LAMBDA v, k : Parsed(WithinComponent(query, v), k))
         [] keyword = <<"component">> -> Fail
         [] keyword \in {<<"doc">>, <<"document">>} /\ named ->
              Then(names, LAMBDA v, k : Parsed(WithinDocument(query, v), k))
         [] OTHER -> Parsed(Within(query, SpanAlias(keyword)), Skip(s, j)))

Projection(s, i, query) ==
  Then(Identifier(s, i), LAMBDA alignment, j :
    IF Peek(s, j) = "=" /\ Peek(s, j + 1) = ">"
    THEN Parsed(Project(query, alignment), j + 2) ELSE Fail)

(* Mutant: only the first restriction is read. *)
FirstRestriction(s, i, query) ==
  LET j == Skip(s, i) IN
  CASE IsNextWord(s, j, "within") ->
         Then(Restriction(s, j + 1, query), LAMBDA q, k : Parsed(q, Skip(s, k)))
    [] Projects(s, j) ->
         Then(Projection(s, j + 1, query), LAMBDA q, k : Parsed(q, Skip(s, k)))
    [] OTHER -> Parsed(query, j)

RECURSIVE MaybeWithin(_, _, _)
MaybeWithin(s, i, query) ==
  LET j == Skip(s, i) IN
  CASE IsNextWord(s, j, "within") ->
         Then(Restriction(s, j + 1, query), LAMBDA q, k : MaybeWithin(s, k, q))
    [] Projects(s, j) ->
         Then(Projection(s, j + 1, query), LAMBDA q, k : MaybeWithin(s, k, q))
    [] OTHER -> Parsed(query, j)

-----------------------------------------------------------------------------
(* Atoms, sequences, alternations. *)

Reserved == {<<w>> : w \in {"doc", "document", "s", "sent", "sentence", "p", "para",
                            "paragraph", "component"}}

AtSequenceEnd(s, i) ==
  \/ Peek(s, i) \in {"end of input", "|", ")"}
  \/ Peek(s, i) = ":" /\ Peek(s, i + 1) = ":"
  \/ Peek(s, i) = "within" /\ Peek(s, i + 1) \notin Words
  \/ Projects(s, i)

RECURSIVE ParseAtom(_, _), ParseSequence(_, _, _), Alternatives(_, _, _), ParseQuery(_, _)

LabeledAtom(s, i) ==
  Then(Identifier(s, i), LAMBDA name, j :
    IF Peek(s, j) = ":" /\ name \notin Reserved
    THEN Then(ParseAtom(s, j + 1), LAMBDA inner, k : Parsed(Capture(name, inner), k))
    ELSE Fail)

ParseAtom(s, i) ==
  LET j == Skip(s, i)
      c == Peek(s, j)
  IN CASE c = "[" -> TokenPattern(s, j)
       [] c = "\"" -> QuotedWord(s, j)
       [] c = "(" -> Then(ParseQuery(s, j + 1), LAMBDA q, k :
                       Then(Consume(s, k, ")"), LAMBDA v, n : Parsed(q, n)))
       [] c \in Words \ DOMAIN Numerals -> LabeledAtom(s, j)
       [] OTHER -> Fail

ParseElement(s, i) == Then(ParseAtom(s, i), LAMBDA atom, j : Quantifier(s, j, atom))

ParseSequence(s, i, elements) ==
  LET j == Skip(s, i) IN
  CASE ~AtSequenceEnd(s, j) ->
         Then(ParseElement(s, j), LAMBDA e, k : ParseSequence(s, k, Append(elements, e)))
    [] Len(elements) = 0 -> Fail
    [] Len(elements) = 1 -> Parsed(elements[1], j)
    [] OTHER -> Parsed(SequenceOf(elements), j)

Alternatives(s, i, found) ==
  Then(ParseSequence(s, i, <<>>), LAMBDA q, j :
    CASE IsNext(s, j, "|") -> Alternatives(s, After(s, j), Append(found, q))
      [] found = <<>> -> Parsed(q, j)
      [] OTHER -> Parsed(AnyOf(Append(found, q)), j))

ParseQuery(s, i) ==
  Then(Alternatives(s, i, <<>>), LAMBDA q, j :
  Then(MaybeWithin(s, j, q), LAMBDA w, k : MaybeConstrained(s, k, w)))

(* The labels a query declares, in the order they are met. *)
RECURSIVE LabelsOf(_), LabelsOfAll(_)
LabelsOf(q) == (IF q.q = "capture" THEN <<q.name>> ELSE <<>>) \o LabelsOfAll(Below(q))
LabelsOfAll(parts) ==
  IF parts = <<>> THEN <<>> ELSE LabelsOf(Head(parts)) \o LabelsOfAll(Tail(parts))

Distinct(labels) == \A i, j \in DOMAIN labels : labels[i] = labels[j] => i = j

(* parse: the whole input, and no label declared twice. *)
Parse(s) ==
  Then(ParseQuery(s, 1), LAMBDA q, i :
    IF Skip(s, i) > Len(s) /\ Distinct(LabelsOf(q)) THEN Parsed(q, i) ELSE Fail)
=============================================================================
