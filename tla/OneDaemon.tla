------------------------------ MODULE OneDaemon ------------------------------
(* What the daemons of one corpus promise: one of them at a time is in charge, *)
(* and whoever is in charge may be given an epoch, once, which is larger than  *)
(* any given before.                                                        *)
EXTENDS Naturals

CONSTANTS Daemons, None

VARIABLES
  inCharge,  \* the daemon in charge, or None
  last,      \* the largest epoch given so far
  given      \* daemon -> its epoch, or 0

vars == <<inCharge, last, given>>

Init ==
  /\ inCharge = None
  /\ last = 0
  /\ given = [d \in Daemons |-> 0]

TakeOver(d) ==
  /\ inCharge = None
  /\ inCharge' = d
  /\ UNCHANGED <<last, given>>

GiveEpoch(d) ==
  /\ inCharge = d /\ given[d] = 0
  /\ last' = last + 1
  /\ given' = [given EXCEPT ![d] = last']
  /\ UNCHANGED inCharge

StepDown(d) ==
  /\ inCharge = d
  /\ inCharge' = None
  /\ UNCHANGED <<last, given>>

Next == \E d \in Daemons : TakeOver(d) \/ GiveEpoch(d) \/ StepDown(d)

Spec == Init /\ [][Next]_vars

(* No two daemons of a corpus are told apart by nothing.                     *)
EpochsDistinct ==
  \A d, e \in Daemons : given[d] = given[e] /\ given[d] # 0 => d = e

=============================================================================
