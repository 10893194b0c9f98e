---------------------------- MODULE RequestQueue ----------------------------
(***************************************************************************)
(* SettingsIntegration::RequestQueue: the one persistence request of a      *)
(* device that waits for a safe point.  A reset is never displaced; a save  *)
(* displaces an automatic repair and an earlier save.                       *)
(***************************************************************************)

EmptyQueue(defaults) == [pending |-> "NONE", draft |-> defaults]

QueueAutomaticRepair(q, defaults) ==
    IF q.pending = "NONE" THEN [pending |-> "REPAIR", draft |-> defaults] ELSE q

QueueSave(q, draft) ==
    IF q.pending = "RESET" THEN q ELSE [pending |-> "SAVE", draft |-> draft]

QueueReset(q, defaults) == [pending |-> "RESET", draft |-> defaults]
=============================================================================
