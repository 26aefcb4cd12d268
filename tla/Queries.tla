------------------------------ MODULE Queries -------------------------------
(***************************************************************************)
(* One query through the engine: its text is parsed, the tree planned, and   *)
(* the plan evaluated and counted over an open corpus, as query.execute of   *)
(* the daemon and `montre count` of the command line do.  intended is what    *)
(* the text was written from, when it was written from a tree at all.        *)
(***************************************************************************)
EXTENDS QuerySemantics

CONSTANTS
  Questions,   \* the trees texts are written from
  WrittenIn,   \* the styles they are written in
  Scribbles,   \* texts written from no tree
  Corpora      \* the corpora that may be open

VARIABLES phase, intended, style, text, query, plan, corpus, hits, context, count

vars == <<phase, intended, style, text, query, plan, corpus, hits, context, count>>

None == [q |-> "none"]
NoPlan == [p |-> "none"]
Plain == [spaced |-> TRUE, aliased |-> FALSE, guarded |-> TRUE]
NoCorpus == [tokens |-> <<>>]

(* The ranks a hash map may give the ends of the matches it holds. *)
Orders(c) == {f \in [0 .. TokenCount(c) -> 0 .. TokenCount(c)] :
                \A p, r \in 0 .. TokenCount(c) : f[p] = f[r] => p = r}

(* Only the labelled path depends on them. *)
RelevantOrders(c) == IF LabelsOf(query) = <<>> THEN {[p \in 0 .. TokenCount(c) |-> p]} ELSE Orders(c)

Init ==
  /\ phase = "written"
  /\ \/ intended \in Questions /\ style \in WrittenIn /\ text = QueryText(intended, style)
     \/ intended = None /\ style = Plain /\ text \in Scribbles
  /\ query = None /\ plan = NoPlan /\ corpus = NoCorpus
  /\ hits = <<>> /\ context = <<>> /\ count = 0

ParseText ==
  LET r == Parse(text) IN
  /\ phase = "written"
  /\ phase' = IF r.ok THEN "parsed" ELSE "rejected"
  /\ query' = IF r.ok THEN r.val ELSE None
  /\ text' = <<>> /\ style' = Plain
  /\ UNCHANGED <<intended, plan, corpus, hits, context, count>>

PlanQuery ==
  LET r == Plan(query) IN
  /\ phase = "parsed"
  /\ phase' = IF r.ok THEN "planned" ELSE "unknown label"
  /\ plan' = IF r.ok THEN r.plan ELSE NoPlan
  /\ UNCHANGED <<intended, style, text, query, corpus, hits, context, count>>

Execute(c, order) ==
  LET r == ExecuteNode(plan, c, order) IN
  /\ corpus' = c
  /\ phase' = IF r.ok THEN "answered" ELSE "failed"
  /\ hits' = IF r.ok THEN r.hits ELSE <<>>
  /\ context' = IF r.ok THEN PopulateContext(r.hits, c) ELSE <<>>
  /\ UNCHANGED <<intended, style, text, query, plan, count>>

Count(order) ==
  LET r == CountNode(plan, corpus, order) IN
  /\ phase' = IF r.ok THEN "counted" ELSE "not counted"
  /\ count' = IF r.ok THEN r.count ELSE 0
  /\ UNCHANGED <<intended, style, text, query, plan, corpus, hits, context>>

Next ==
  \/ ParseText
  \/ PlanQuery
  \/ /\ phase = "planned"
     /\ \E c \in Corpora : \E order \in RelevantOrders(c) : Execute(c, order)
  \/ /\ phase \in {"answered", "failed"}
     /\ \E order \in RelevantOrders(corpus) : Count(order)

Spec == Init /\ [][Next]_vars

-----------------------------------------------------------------------------

(* A text written from a tree by the grammar of parser.rs parses to that tree, *)
(* whatever spaces and aliases it is written with, unless a label is declared *)
(* twice; and whatever text is accepted, writing its tree again and parsing   *)
(* gives the same tree: precedence, quantifiers, labels, the nesting of        *)
(* restrictions and the aliases are read as they are written.                 *)
RoundTrip ==
  /\ intended # None =>
       CASE phase = "rejected" -> ~Distinct(LabelsOf(intended))
         [] phase # "written" -> query = intended /\ Distinct(LabelsOf(intended))
         [] OTHER -> TRUE
  /\ phase = "parsed" =>
       \A s \in {t \in Styles : t.guarded} :
         LET again == Parse(QueryText(query, s)) IN again.ok /\ again.val = query

(* The parts of a query a sequence is made of, and whether each of them is a   *)
(* token pattern, maybe labelled, maybe repeated.                             *)
IsToken(q) == q.q = "token" \/ (q.q = "capture" /\ q.inner.q = "token")
IsPart(q) == IsToken(q) \/ (q.q = "repetition" /\ IsToken(q.inner))

RECURSIVE IsFlat(_)
IsFlat(q) ==
  CASE q.q = "sequence" -> \A i \in DOMAIN q.parts : IsPart(q.parts[i])
    [] q.q = "or" -> \A i \in DOMAIN q.parts : q.parts[i].q = "token"
    [] q.q \in Restrictions \cup {"constrained"} -> IsFlat(q.inner)
    [] OTHER -> IsPart(q)

RECURSIVE Core(_), HasConstraints(_)
Core(q) == IF q.q \in Restrictions \cup {"constrained"} THEN Core(q.inner) ELSE q
HasConstraints(q) == q.q = "constrained" \/ (q.q \in Restrictions /\ HasConstraints(q.inner))

StartsOptional(q) ==
  LET core == Core(q)
  IN core.q = "sequence" /\ core.parts[1].q = "repetition" /\ core.parts[1].min = 0

Answered == phase = "answered"

(* What execute returns is a match: each hit of a query whose sequences are    *)
(* made of token patterns is a span its tree matches, with captures that a     *)
(* single way of matching it makes; whatever order the hash maps have.        *)
HitsAreMatches ==
  Answered /\ IsFlat(query) =>
    LET M == Matches(query, corpus)
    IN \A h \in ToSet(hits) : MatchOf(h.span.start, h.span.end, h.captures) \in M

(* docs/DEVELOPMENT.md:519: evaluating a sequence by materializing an active set   *)
(* of matches, step by step, makes optional patterns correct by construction.  So  *)
(* every match inside a document is a hit (but for widths above the cap of a       *)
(* repetition, which Matches leaves out too).  Constraints on labels are excluded: *)
(* of two ways to match one span one is kept.                                    *)
Complete ==
  Answered /\ IsFlat(query) /\ ~HasConstraints(query) =>
    \A m \in Matches(query, corpus) :
      m.end > m.start /\ DocumentOf(m, corpus) # {} => \E h \in ToSet(hits) : h.span = Span(m.start, m.end)

(* What matches is returned, when the first part of a sequence is not optional. *)
MatchesAreHits == Answered /\ ~StartsOptional(query) => Complete

(* The count, which never tracks captures and takes shortcuts, is the number    *)
(* of hits execute returns, and fails when execute does; constraints aside,     *)
(* which may keep other hits under another order of the hash maps.             *)
CountAgrees ==
  /\ phase = "counted" /\ ~HasConstraints(query) => count = Len(hits)
  /\ phase = "not counted" => hits = <<>>

RECURSIVE WithoutLabels(_)
WithoutLabels(q) ==
  CASE q.q = "token" -> q
    [] q.q \in {"sequence", "or"} -> [q EXCEPT !.parts = [i \in DOMAIN q.parts |-> WithoutLabels(q.parts[i])]]
    [] q.q = "capture" -> WithoutLabels(q.inner)
    [] OTHER -> [q EXCEPT !.inner = WithoutLabels(q.inner)]

(* Labels only add captures: the hits of a query are the spans of the same      *)
(* query without its labels, in the same order and each once, although another   *)
(* path evaluates that.                                                        *)
LabelsAddCaptures ==
  Answered /\ ~HasConstraints(query) /\ IsFlat(query) =>
    LET plain == ExecuteNode(PlanNode(WithoutLabels(query)), corpus, [p \in 0 .. TokenCount(corpus) |-> p])
    IN plain.ok /\ [i \in DOMAIN hits |-> hits[i].span] = [i \in DOMAIN plain.hits |-> plain.hits[i].span]
=============================================================================
