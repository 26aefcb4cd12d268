---------------------------- MODULE MCClientRpc -----------------------------
(***************************************************************************)
(* Two calls, then close, with two notifications and queues of one.         *)
(***************************************************************************)
EXTENDS ClientRpc

AnyOutcome == HandlerOutcomes
MayDrop == {"result", "panic", "huge"}
=============================================================================
