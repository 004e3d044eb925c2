------------------------------ MODULE MCSqlite ------------------------------
(* The small ledger of MCLedger.tla in SQLite, each key bound to its operation. *)
EXTENDS SqliteStore

MCSignalId == {"s1", "s2"}
MCKey == {"a1", "a2", "t1", "c1", "c2", "m1"}
MCKeyOp == [k \in MCKey |->
    CASE k \in {"a1", "a2"} -> "activate_signal"
      [] k = "t1" -> "transition_pending"
      [] k \in {"c1", "c2"} -> "close_track"
      [] k = "m1" -> "apply_management_decision"]
MCDecimal == {0, 2}
MCTerm == {[original_stop |-> 2]}
MCClosing == {[result |-> "LOSS", result_r |-> 2, close_event |-> "STOP_LOSS_HIT"]}
MCAdjustment ==
    {[changes_managed_result |-> FALSE, updated_stop |-> Null,
      remaining_fraction_after |-> Null, realized_r_after |-> Null],
     [changes_managed_result |-> TRUE, updated_stop |-> 0,
      remaining_fraction_after |-> Null, realized_r_after |-> 2]}
MCNotice == {"created-s1", "created-s2", "alert"}
MCCreationNotice == [s \in MCSignalId |-> IF s = "s1" THEN "created-s1" ELSE "created-s2"]
============================================================================
