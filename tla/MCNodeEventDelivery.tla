------------------------ MODULE MCNodeEventDelivery ------------------------
(* Two slots, two attempts, a lifetime of one checkpoint and a half *)
EXTENDS NodeEventDelivery

MCBackoff == [attempts \in {1} |-> 1]
=============================================================================
