-------------------------- MODULE MCNodeEventStore --------------------------
(* Two slots, two blocks of ids in each of two epochs *)
EXTENDS NodeEventStore
=============================================================================
