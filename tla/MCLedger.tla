------------------------------ MODULE MCLedger ------------------------------
(***************************************************************************)
(* A small ledger for TLC: two signals, one of whose terms is enough, and  *)
(* just enough dedupe keys to take one of them from activation to both     *)
(* closes and still have one left for the other.                           *)
(***************************************************************************)
EXTENDS Ledger, TLC

MCSignalId == {"s1", "s2"}
MCBusinessDate == {"d1"}
MCTime == {1, 2}
MCDecimal == {0, 2, 3}
MCTerm == {[original_stop |-> 2]}
MCClosing == {[result |-> "LOSS", result_r |-> 2, close_event |-> "STOP_LOSS_HIT"]}
\* A HOLD, and a stop moved to break-even; the partial exit shares the row.
MCAdjustment ==
    {[changes_managed_result |-> FALSE, updated_stop |-> Null,
      remaining_fraction_after |-> Null, realized_r_after |-> Null],
     [changes_managed_result |-> TRUE, updated_stop |-> 3,
      remaining_fraction_after |-> Null, realized_r_after |-> 3]}

\* Keys and notices are only compared for equality, signals likewise.
Symmetry == Permutations(DedupeKey) \cup Permutations(NoticeKey)
============================================================================
