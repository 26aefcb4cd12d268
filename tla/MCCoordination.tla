--------------------------- MODULE MCCoordination ---------------------------
(* Instances of Coordination for TLC.  The runs split the system by         *)
(* what the clients do: couple processes, follow interests and the roster,  *)
(* or vanish.  What one run leaves out (a client input that is never offered)  *)
(* another run offers.                                                     *)
EXTENDS Coordination, TLC

CONSTANTS c1, c2, c3

QuietSymmetry == Permutations({c2, c3})

GraphCalls  == (c1 :> {"couple", "uncouple"}) @@ [c \in Conns |-> {}]
StreamCalls == (c1 :> {"couple", "uncouple", "roster", "subscribe"}) @@ (c2 :> {"publish"}) @@ [c \in Conns |-> {}]
LiveCalls   == (c1 :> {"bad", "update_label"}) @@ (c2 :> {"subscribe", "unsubscribe"}) @@ [c \in Conns |-> {}]

Reader == [provides |-> {"sentence", "position"}, consumes |-> {"sentence"}]
Viewer == [provides |-> {"hit"}, consumes |-> {"span"}]

OneProfile == {Reader}
GraphProfiles == {Reader, Viewer}

Sentence1 == [kind |-> "sentence", val |-> 1]
Position1 == [kind |-> "position", val |-> 1]

NoFoci == {}
StreamFoci == {Sentence1, Position1}
=============================================================================
