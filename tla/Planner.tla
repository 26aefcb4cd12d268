------------------------------- MODULE Planner ------------------------------
(***************************************************************************)
(* From a syntax tree to an execution plan (planner.rs).  A plan is a tree  *)
(* of scans, set operations on the positions hits start at, filters, and   *)
(* sequence scans made of steps.                                           *)
(***************************************************************************)
EXTENDS Parser, FiniteSets, SequencesExt

ScanAll == [p |-> "all"]
Scan(kind, layer, value) == [p |-> kind, layer |-> layer, value |-> value]
Intersect(nodes) == [p |-> "intersect", nodes |-> nodes]
Union(nodes) == [p |-> "union", nodes |-> nodes]
Difference(base, subtract) == [p |-> "difference", base |-> base, subtract |-> subtract]
SequenceScan(steps) == [p |-> "sequence", steps |-> steps]
Filter(kind, inner, by) == [p |-> kind, inner |-> inner, by |-> by]

(* A step: the node it scans, how often, and the label it captures, if any. *)
Step(node, min, max, label) == [node |-> node, min |-> min, max |-> max, label |-> label]

LabelOf(q) == IF q.q = "capture" THEN <<q.name>> ELSE <<>>
Unlabeled(q) == IF q.q = "capture" THEN q.inner ELSE q

(* One node for several: itself when there is only one. *)
OneOrAll(nodes, Combined(_)) == IF Len(nodes) = 1 THEN nodes[1] ELSE Combined(nodes)

PlanToken(constraints) ==
  LET ScanOf(c) == Scan(c.kind, c.layer, c.value)
      With(op) == LET cs == SelectSeq(constraints, LAMBDA c : c.op = op)
                  IN [i \in DOMAIN cs |-> ScanOf(cs[i])]
      positive == IF With("=") = <<>> THEN ScanAll ELSE OneOrAll(With("="), Intersect)
  IN IF With("!=") = <<>> THEN positive ELSE Difference(positive, OneOrAll(With("!="), Union))

RECURSIVE PlanNode(_)

(* A part of a sequence: a label is captured by its step only when it is the *)
(* outermost thing of the part, or of what the part repeats.                 *)
StepOf(q) ==
  LET repeated == q.q = "repetition"
      part == IF repeated THEN q.inner ELSE q
  IN Step(PlanNode(Unlabeled(part)), IF repeated THEN q.min ELSE 1,
          IF repeated THEN q.max ELSE <<1>>, LabelOf(part))

PlanNode(q) ==
  CASE q.q = "token" -> PlanToken(q.constraints)
    [] q.q = "sequence" -> SequenceScan([i \in DOMAIN q.parts |-> StepOf(q.parts[i])])
    [] q.q \in {"repetition", "capture"} -> SequenceScan(<<StepOf(q)>>)
    [] q.q = "or" -> Union([i \in DOMAIN q.parts |-> PlanNode(q.parts[i])])
    [] q.q = "within" -> Filter("by span", PlanNode(q.inner), q.layer)
    [] q.q = "component" -> Filter("by component", PlanNode(q.inner), q.names)
    [] q.q = "document" -> Filter("by document", PlanNode(q.inner), q.names)
    [] q.q = "project" -> Filter("project", PlanNode(q.inner), q.alignment)
    [] q.q = "constrained" -> Filter("by constraints", PlanNode(q.inner), q.where)

(* The labels declared anywhere under a tree, at any depth. *)
DeclaredLabels(q) == ToSet(LabelsOf(q))

ReferencedLabels(where) ==
  UNION {CASE where[i].kind = "distance" -> {where[i].left, where[i].right}
           [] OTHER -> {where[i].left.label, where[i].right.label} : i \in DOMAIN where}

(* Every global constraint of a plan speaks of labels its query declares. *)
RECURSIVE LabelsKnown(_)
LabelsKnown(q) ==
  /\ q.q = "constrained" => ReferencedLabels(q.where) \subseteq DeclaredLabels(q.inner)
  /\ \A i \in DOMAIN Below(q) : LabelsKnown(Below(q)[i])

Plan(q) == IF LabelsKnown(q) THEN [ok |-> TRUE, plan |-> PlanNode(q)] ELSE Fail
=============================================================================
