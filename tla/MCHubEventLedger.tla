-------------------------- MODULE MCHubEventLedger --------------------------
(* Two slots, ordinals that run out after two blocks *)
EXTENDS HubEventLedger
=============================================================================
