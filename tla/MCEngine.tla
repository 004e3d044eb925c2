------------------------------ MODULE MCEngine ------------------------------
(***************************************************************************)
(* Small markets for the paper engine.  Prices are ticks above a far lower *)
(* base: every rule compares prices or subtracts them, and the cost is a   *)
(* constant of the trade, so the base does not matter.  A long that enters *)
(* at 3 with its stop at 2 and cost 1 risks 2 net, protects itself at 4    *)
(* once a candle closes at 7 or higher (1.5R net) and wins 2R net at 8.    *)
(***************************************************************************)
EXTENDS ReplayContract

Bar(o, h, l, c) == [open |-> o, high |-> h, low |-> l, close |-> c]

Flat     == Bar(5, 5, 5, 5)
Dip      == Bar(5, 5, 3, 4)     \* touches the entry
Crash    == Bar(3, 3, 1, 1)     \* trades through the stop
GapDown  == Bar(1, 1, 1, 1)     \* opens beyond the stop
Rally    == Bar(5, 7, 5, 7)     \* closes where protection triggers
Spike    == Bar(7, 8, 7, 8)     \* touches the target
Whipsaw  == Bar(5, 8, 2, 5)     \* touches stop and target
Retrace  == Bar(5, 5, 4, 5)     \* touches the protected stop only

LongSetup == [side |-> "LONG", entry_low |-> 3, entry_high |-> 3, original_stop |-> 2,
              target |-> 8, cost |-> 1]

MCSignalId == {1} \X (1..MaxSequence)
MCDateOf == [i \in 0..MaxMinute |-> 1]
MCTime == -1..MaxMinute
MCDecimal == -20..40
MCTerm ==
    {[side |-> setup.side, entry_low |-> setup.entry_low, entry_high |-> setup.entry_high,
      original_stop |-> setup.original_stop, target |-> setup.target, cost |-> setup.cost,
      created_at |-> at, aligned |-> aligned] :
        setup \in Setup, at \in 0..MaxMinute, aligned \in BOOLEAN}
MCKey == [signal_id : MCSignalId, at : 0..MaxMinute,
          action : {"expire", "activate", "management"} \cup Variant, detail : {""} \cup CloseEvent]
MCNotice ==
    [signal_id : MCSignalId \cup {Null}, at : 0..MaxMinute \cup {Null},
     action : {"REPORT", "CREATED", "ACTIVATED", "EXPIRED", "TARGET_CLOSED", "STOP_CLOSED",
               "AMBIGUOUS_STOP_FIRST", "MOVE_STOP_TO_BREAK_EVEN", "TAKE_PARTIAL_PROFIT"}]
MCCheckpointKey == [replay : {"lifecycle", "management"}, signal_id : MCSignalId]
MCClosing == [result : OutcomeResult, result_r : MCDecimal, close_event : CloseEvent]
MCAdjustment == [changes_managed_result : BOOLEAN, updated_stop : {Null} \cup 1..9,
                 remaining_fraction_after : {Null, 1}, realized_r_after : {Null} \cup MCDecimal]
MCPayload == {counted : counted \in SUBSET (MCSignalId \X Variant)}
MCLongs == {LongSetup}

\* The other side of the same book: entry 7, stop 8, protection at 6 from a
\* close of 3, target 2.
ShortSetup == [side |-> "SHORT", entry_low |-> 7, entry_high |-> 7, original_stop |-> 8,
               target |-> 2, cost |-> 1]
MCShorts == {ShortSetup}

\* One trade in full: activation, protection, and every way to leave.
TradeMarket ==
    [i \in 0..MaxMinute |->
        CASE i = 0 -> {Flat}
          [] i = 1 -> {Dip, Whipsaw}
          [] i = 2 -> {Flat, Rally, Crash}
          [] i = 3 -> {Retrace, Spike, Dip, Rally}
          [] OTHER -> {Retrace, Spike}]

\* The trade again, in one minute less.
ShortMarket ==
    [i \in 0..MaxMinute |->
        CASE i = 0 -> {Flat}
          [] i = 1 -> {Flat, Dip, Whipsaw}
          [] i = 2 -> {Dip, Rally, Crash}
          [] OTHER -> {Retrace, Spike, GapDown}]

\* The market as a short sees it: TradeMarket upside down.
Mirror(c) == Bar(10 - c.open, 10 - c.low, 10 - c.high, 10 - c.close)
MirrorMarket ==
    [i \in 0..MaxMinute |-> {Mirror(c) : c \in TradeMarket[i]}]

\* A trade that protects itself, and a crash after an outage.
GapMarket ==
    [i \in 0..MaxMinute |->
        CASE i = 1 -> {Dip} [] i = 2 -> {Rally} [] i = 3 -> {Crash} [] OTHER -> {Flat}]

============================================================================
