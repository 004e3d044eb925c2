---------------------------- MODULE EngineProofs ----------------------------
(***************************************************************************)
(* The paper engine and its ledger, for every market, window, cooldown and *)
(* number of faults: the run only ever issues commands the ledger's        *)
(* specification allows for.                                               *)
(***************************************************************************)
EXTENDS PaperEngine, LedgerProofs, TradeRulesProofs, SequenceTheorems

Minute == 0..MaxMinute

\* The terms a run can admit: a setup, dated by the run's own minute.
EngineTerm == {t \in Term : ValidTerms(t) /\ t.created_at \in Minute /\ t.aligned \in BOOLEAN}

Detail == {""} \cup CloseEvent
Act == {"expire", "activate", "management"} \cup Variant
Announcement == {"REPORT", "CREATED", "ACTIVATED", "EXPIRED", "TARGET_CLOSED", "STOP_CLOSED",
                 "AMBIGUOUS_STOP_FIRST", "MOVE_STOP_TO_BREAK_EVEN", "TAKE_PARTIAL_PROFIT"}

\* The columns are wide enough: decimals are texts of any length, keys are texts
\* the client composes, and an allocated identifier names a signal.
WideColumns ==
    /\ Minute \subseteq Time
    /\ Int \subseteq Decimal
    /\ [result : OutcomeResult, result_r : Int, close_event : CloseEvent] \subseteq Closing
    /\ [changes_managed_result : BOOLEAN, updated_stop : Int \cup {Null},
        remaining_fraction_after : Int \cup {Null}, realized_r_after : Int \cup {Null}]
          \subseteq Adjustment
    /\ SUBSET (SignalId \X Variant) \subseteq Payload
    /\ \A setup \in Setup, at \in Minute, aligned \in BOOLEAN :
          [side |-> setup.side, entry_low |-> setup.entry_low, entry_high |-> setup.entry_high,
           original_stop |-> setup.original_stop, target |-> setup.target, cost |-> setup.cost,
           created_at |-> at, aligned |-> aligned] \in Term
    /\ \A i \in Minute : DateOf[i] \in BusinessDate
    /\ \A d \in BusinessDate, n \in 1..MaxSequence : <<d, n>> \in SignalId
    /\ \A s \in SignalId, i \in Minute, action \in Act, detail \in Detail :
          CommandKey(s, i, action, detail) \in DedupeKey
    /\ \A s \in SignalId \cup {Null}, i \in Minute \cup {Null}, action \in Announcement :
          Notice(s, i, action) \in NoticeKey
    /\ \A s \in SignalId : /\ LifecycleCheckpoint(s) \in CheckpointKey
                           /\ ManagementCheckpoint(s) \in CheckpointKey

----------------------------------------------------------------------------
(* Well-formed commands, and what the Worker makes of them. *)

SignalCommand(op, keys, data) ==
    [operation : {op}, signal_id : SignalId, at : Minute, key : keys, data : data]

EngineCommand == UNION {
    [operation : {"allocate_signal_id"}, signal_id : {Null}, at : Minute,
     key : BusinessDate, data : EngineTerm],
    SignalCommand("create_signal", NoticeKey, EngineTerm),
    SignalCommand("activate_signal", DedupeKey, [fill_price : Int]),
    SignalCommand("transition_pending", DedupeKey, {Null}),
    SignalCommand("close_track", DedupeKey,
                  [variant : Variant, closing : Closing, payload : Payload]),
    SignalCommand("advance_checkpoint", CheckpointKey, {Null}),
    SignalCommand("apply_management_decision", DedupeKey, Adjustment),
    [operation : {"enqueue_notification"}, signal_id : SignalId \cup {Null}, at : Minute,
     key : NoticeKey, data : {Null}]}

\* A well-formed command the Worker executes is a command of the ledger's
\* specification, or changes nothing.
LEMMA ExecutesIsLedgerStep ==
    ASSUME WideColumns, NEW c \in EngineCommand, Executes(c)
    PROVE  [Next]_ledgerVars
<1>0. Int \subseteq Decimal /\ Minute \subseteq Time
  BY DEF WideColumns
<1>1. CASE UNCHANGED ledgerVars
  BY <1>1
<1>2. CASE Applies(c)
  <2>1. CASE c.operation = "allocate_signal_id"
    BY <1>2, <2>1 DEF Applies, EngineCommand, SignalCommand, Next, Allocate
  <2>2. CASE c.operation = "create_signal"
    BY <1>2, <2>2 DEF Applies, EngineCommand, SignalCommand, Next, Create, EngineTerm
  <2>3. CASE c.operation = "activate_signal"
    BY <1>0, <1>2, <2>3 DEF Applies, EngineCommand, SignalCommand, Next, Activate
  <2>4. CASE c.operation = "transition_pending"
    BY <1>2, <2>4 DEF Applies, EngineCommand, SignalCommand, Next, Expire
  <2>5. CASE c.operation = "close_track"
    BY <1>2, <2>5 DEF Applies, EngineCommand, SignalCommand, Next, Close
  <2>6. CASE c.operation = "advance_checkpoint"
    BY <1>0, <1>2, <2>6 DEF Applies, EngineCommand, SignalCommand, Next, Advance
  <2>7. CASE c.operation = "apply_management_decision"
    BY <1>2, <2>7 DEF Applies, EngineCommand, SignalCommand, Next, Manage
  <2>8. CASE c.operation = "enqueue_notification"
    BY <1>2, <2>8 DEF Applies, EngineCommand, SignalCommand, Next, Enqueue
  <2> QED BY <2>1, <2>2, <2>3, <2>4, <2>5, <2>6, <2>7, <2>8 DEF EngineCommand, SignalCommand
<1> QED BY <1>1, <1>2 DEF Executes
----------------------------------------------------------------------------
(* What the market, the run and the commands look like.                    *)

Phases == {"idle", "load", "collect", "entry", "exit", "manage", "report", "record"}

AnyCandle == UNION {Candles[i] : i \in 0..(MaxMinute - 1)}

\* As many candles as minutes have passed, each the candle of its minute.
MarketType ==
    /\ clock \in Minute
    /\ candles \in Seq(AnyCandle) /\ Len(candles) = clock
    /\ \A i \in 0..(clock - 1) : Candle(i) \in Candles[i]

RunType(r) ==
    r \in [phase : Phases, now : Minute, paused : {r.paused}, queue : Seq(SignalId),
           last : {r.last}, active : {r.active}, upto : Minute, cursor : Minute,
           actions : Seq(Announcement), todo : Seq(EngineCommand), status : {r.status}]

\* A run never looks past the present, and resolves complete candles only.
RunPlace(r) ==
    /\ r.now <= clock /\ r.upto <= clock /\ r.cursor <= r.upto
    /\ r.phase \in {"exit", "manage"} => r.queue # <<>> /\ r.cursor < r.upto /\ r.cursor < r.now

\* It monitors signals that exist.
QueueCreated(r) == \A n \in 1..Len(r.queue) : status[r.queue[n]] # "ABSENT"

TermsSound == \A s \in SignalId : terms[s] # Null => terms[s] \in EngineTerm

EngineTypeOK ==
    /\ MarketType
    /\ RunType(run) /\ RunPlace(run) /\ QueueCreated(run)
    /\ late \subseteq EngineCommand
    /\ TermsSound

EngineInv == IInv /\ EngineTypeOK

\* Idle and failed runs are well-formed.
LEMMA RestingRuns ==
    ASSUME EngineTypeOK
    PROVE  /\ RunType(Idle) /\ RunPlace(Idle) /\ QueueCreated(Idle)
           /\ RunType(Failed) /\ RunPlace(Failed) /\ QueueCreated(Failed)
<1>1. /\ <<>> \in Seq(SignalId) /\ <<>> \in Seq(Announcement) /\ <<>> \in Seq(EngineCommand)
      /\ Len(<<>>) = 0
  BY EmptySeq
<1>2. 0 \in Minute /\ clock \in Nat /\ run.now \in Minute /\ run.now <= clock
  BY EngineAssumption DEF EngineTypeOK, MarketType, RunType, RunPlace, Minute
<1>3. RunType(Idle) /\ RunPlace(Idle) /\ QueueCreated(Idle)
  BY <1>1, <1>2 DEF RunType, RunPlace, QueueCreated, Idle, Phases
<1>4. /\ Failed.phase = "record" /\ Failed.now = run.now /\ Failed.status = "FAILED"
      /\ Failed.upto = 0 /\ Failed.cursor = 0 /\ Failed.queue = <<>>
      /\ RunType(Failed)
  <2> DEFINE idle == Idle
  <2>1. RunType(idle) /\ idle.upto = 0 /\ idle.cursor = 0 /\ idle.queue = <<>>
    BY <1>3 DEF Idle
  <2>2. Failed = [idle EXCEPT !.phase = "record", !.now = run.now, !.status = "FAILED"]
    BY DEF Failed
  <2> HIDE DEF idle
  <2> QED BY <1>2, <2>1, <2>2 DEF RunType, Phases
<1>5. RunPlace(Failed) /\ QueueCreated(Failed)
  BY <1>1, <1>2, <1>4 DEF RunPlace, QueueCreated
<1> QED BY <1>3, <1>4, <1>5

LEMMA EngineInitInv ==
    ASSUME EngineInit PROVE EngineInv
<1>1. IInv
  BY InitInv DEF EngineInit
<1>2. <<>> \in Seq(AnyCandle) /\ Len(<<>>) = 0 /\ 0 \in Minute
  BY EmptySeq, EngineAssumption DEF Minute
<1>3. MarketType
  BY <1>2 DEF EngineInit, MarketType
<1>4. RunType(run) /\ RunPlace(run) /\ QueueCreated(run)
  <2>1. /\ <<>> \in Seq(SignalId) /\ <<>> \in Seq(Announcement) /\ <<>> \in Seq(EngineCommand)
    BY EmptySeq
  <2> QED BY <1>2, <2>1 DEF EngineInit, Idle, RunType, RunPlace, QueueCreated, Phases
<1> QED BY <1>1, <1>3, <1>4 DEF EngineInv, EngineTypeOK, EngineInit, Init, TermsSound

----------------------------------------------------------------------------
(* The commands a run queues are well-formed.                              *)

\* A completed candle is one the market data models accept.
LEMMA CompleteCandle ==
    ASSUME MarketType, NEW i \in Int, 0 <= i, i < clock
    PROVE  ValidCandle(Candle(i))
<1>1. i \in 0..(MaxMinute - 1) /\ i \in 0..(clock - 1)
  BY EngineAssumption DEF MarketType, Minute
<1> QED BY <1>1, EngineAssumption DEF MarketType

\* What a run may take for granted about the signal it monitors.
LEMMA MonitoredSignal ==
    ASSUME EngineInv, run.queue # <<>>
    PROVE  /\ Signal \in SignalId /\ status[Signal] # "ABSENT"
           /\ Terms \in EngineTerm
           /\ \A v \in Variant : TrackActive(Signal, v) =>
                 /\ trade[Signal] \in TradeRow /\ trade[Signal] # Null
                 /\ track[Signal][v] \in TrackRow
<1>1. run.queue \in Seq(SignalId)
  BY DEF EngineInv, EngineTypeOK, RunType
<1>2. Len(run.queue) \in Nat \ {0} /\ Signal = run.queue[1] /\ Signal \in SignalId
  BY <1>1, HeadTailProperties, EmptySeq DEF Signal
<1>3. status[Signal] # "ABSENT"
  BY <1>2 DEF EngineInv, EngineTypeOK, QueueCreated
<1>4. Terms \in EngineTerm
  BY <1>2, <1>3 DEF EngineInv, EngineTypeOK, TermsSound, IInv, StatusMatchesRows, Terms
<1>5. ASSUME NEW v \in Variant, TrackActive(Signal, v)
      PROVE  /\ trade[Signal] \in TradeRow /\ trade[Signal] # Null
             /\ track[Signal][v] \in TrackRow
  BY <1>2, <1>5 DEF EngineInv, IInv, TypeOK, StatusMatchesRows, TrackActive
<1> QED BY <1>2, <1>3, <1>4, <1>5

LEMMA EnqueuesType ==
    ASSUME WideColumns, NEW s \in SignalId \cup {Null}, NEW i \in Minute,
           NEW actions \in Seq(Announcement)
    PROVE  Enqueues(s, i, actions) \in Seq(EngineCommand)
<1>1. Len(actions) \in Nat /\ \A n \in 1..Len(actions) : actions[n] \in Announcement
  BY ElementOfSeq, LenProperties
<1>2. \A n \in 1..Len(actions) :
        Command("enqueue_notification", s, i, Notice(s, i, actions[n]), Null) \in EngineCommand
  BY <1>1 DEF WideColumns, Command, EngineCommand
<1> HIDE DEF EngineCommand
<1>3. Enqueues(s, i, actions) \in [1..Len(actions) -> EngineCommand]
  BY <1>2 DEF Enqueues
<1> DEFINE commands == Enqueues(s, i, actions)
<1> HIDE DEF commands
<1> QED BY <1>1, <1>3 DEF commands

\* The tracks that leave on this candle, FIXED first.
LEMMA ExitingIs ==
    /\ Exiting \in Seq(Variant)
    /\ \A n \in 1..Len(Exiting) : Leaves(Exiting[n])
    /\ \A v \in Variant : Leaves(v) => \E n \in 1..Len(Exiting) : Exiting[n] = v
<1>1. CASE Leaves("FIXED") /\ Leaves("MANAGED")
  <2>1. Exiting = <<"FIXED", "MANAGED">>
    BY <1>1 DEF Exiting
  <2> QED BY <1>1, <2>1 DEF Variant
<1>2. CASE Leaves("FIXED") /\ ~Leaves("MANAGED")
  <2>1. Exiting = <<"FIXED">>
    BY <1>2 DEF Exiting
  <2> QED BY <1>2, <2>1 DEF Variant
<1>3. CASE ~Leaves("FIXED") /\ Leaves("MANAGED")
  <2>1. Exiting = <<"MANAGED">>
    BY <1>3 DEF Exiting
  <2> QED BY <1>3, <2>1 DEF Variant
<1>4. CASE ~Leaves("FIXED") /\ ~Leaves("MANAGED")
  <2>1. Exiting = <<>>
    BY <1>4 DEF Exiting
  <2> QED BY <1>4, <2>1 DEF Variant
<1> QED BY <1>1, <1>2, <1>3, <1>4

\* A close books an integer result under one of the ledger's labels.
LEMMA ExitClosingType ==
    ASSUME NEW t, ValidTerms(t), NEW fill \in Int, NEW c, ValidCandle(c),
           NEW row, {row.current_stop, row.remaining_fraction, row.realized_r} \subseteq Int,
           NEW first \in BOOLEAN
    PROVE  ExitClosing(t, fill, row, c, first)
               \in [result : OutcomeResult, result_r : Int, close_event : CloseEvent]
<1>1. ASSUME NEW price \in Int
      PROVE  TrackResult(t, fill, row, price) \in Int
  <2>1. Net(t, fill, price) \in Int
    BY <1>1 DEF Net, Directional, ValidTerms
  <2> QED BY <2>1 DEF TrackResult
<1>2. ASSUME NEW price \in Int, NEW target \in BOOLEAN
      PROVE  ClosingAt(t, fill, row, price, target)
                 \in [result : OutcomeResult, result_r : Int, close_event : CloseEvent]
  <2> DEFINE net == TrackResult(t, fill, row, price)
  <2>1. net \in Int
    BY <1>1, <1>2
  <2> HIDE DEF net
  <2>2. ClosingAt(t, fill, row, price, target) \in
            {[result |-> "WIN", result_r |-> net, close_event |-> "TP1_HIT"],
             [result |-> "BREAK_EVEN", result_r |-> net, close_event |-> "BREAK_EVEN"],
             [result |-> "EARLY_EXIT", result_r |-> net, close_event |-> "EARLY_EXIT"],
             [result |-> "LOSS", result_r |-> net, close_event |-> "STOP_LOSS_HIT"]}
    BY DEF ClosingAt, net
  <2> QED BY <2>1, <2>2 DEF OutcomeResult, CloseEvent
<1>3. StopFill(t, row.current_stop, c, first) \in Int
  BY DEF StopFill, ValidCandle
<1>4. t.target \in Int
  BY DEF ValidTerms
<1> QED BY <1>2, <1>3, <1>4 DEF ExitClosing

LEMMA CloseCommandType ==
    ASSUME WideColumns, EngineInv, run.queue # <<>>, run.cursor \in Minute, run.cursor < clock,
           NEW v \in Variant, TrackActive(Signal, v)
    PROVE  CloseCommand(v) \in EngineCommand
<1> DEFINE first == OnActivationCandle
           closing == ExitClosing(Terms, trade[Signal].fill_price, track[Signal][v],
                                  Candle(run.cursor), first)
<1>1. /\ Signal \in SignalId /\ Terms \in EngineTerm
      /\ trade[Signal] \in TradeRow /\ track[Signal][v] \in TrackRow
  BY MonitoredSignal
<1>2. /\ trade[Signal].fill_price \in Int
      /\ {track[Signal][v].current_stop, track[Signal][v].remaining_fraction,
          track[Signal][v].realized_r} \subseteq Int
  BY <1>1, DecimalAssumption DEF TradeRow, TrackRow
<1>3. ValidCandle(Candle(run.cursor)) /\ ValidTerms(Terms)
  BY <1>1, CompleteCandle DEF EngineInv, EngineTypeOK, EngineTerm, Minute
<1>4. first \in BOOLEAN
  BY DEF OnActivationCandle
<1> HIDE DEF first
<1>5. closing \in [result : OutcomeResult, result_r : Int, close_event : CloseEvent]
  BY <1>2, <1>3, <1>4, ExitClosingType
<1>6. CloseCommand(v) = Command("close_track", Signal, run.cursor,
                                CommandKey(Signal, run.cursor, v, closing.close_event),
                                [variant |-> v, closing |-> closing, payload |-> {}])
  BY DEF CloseCommand, first
<1> HIDE DEF closing
<1>7. CommandKey(Signal, run.cursor, v, closing.close_event) \in DedupeKey
  BY <1>1, <1>5 DEF WideColumns, Act, Detail
<1>8. closing \in Closing /\ {} \in Payload
  BY <1>5 DEF WideColumns
<1> QED BY <1>1, <1>6, <1>7, <1>8 DEF Command, EngineCommand, SignalCommand

LEMMA ExitActionsType ==
    ASSUME WideColumns PROVE ExitActions \in Seq(Announcement)
<1> DEFINE action(v) == ExitAction(Terms, track[Signal][v], Candle(run.cursor))
<1>1. \A v : action(v) \in Announcement
  BY DEF ExitAction, Announcement
<1>2. Len(Exiting) \in Nat
  BY ExitingIs, LenProperties
<1>3. [n \in 1..Len(Exiting) |-> action(Exiting[n])] \in Seq(Announcement)
  BY <1>1, <1>2
<1>4. <<action("FIXED")>> \in Seq(Announcement)
  BY <1>1
<1> HIDE DEF action
<1> QED BY <1>3, <1>4 DEF ExitActions, action

LEMMA ExitCommandsType ==
    ASSUME WideColumns, EngineInv, run.queue # <<>>, run.cursor < clock
    PROVE  /\ CloseCommands \in Seq(EngineCommand)
           /\ MarkResolved \in Seq(EngineCommand)
           /\ AnnounceCandle \in Seq(EngineCommand)
           /\ ExitCommands \in Seq(EngineCommand)
<1>0. Signal \in SignalId /\ run.cursor \in Minute /\ run.actions \in Seq(Announcement)
  BY MonitoredSignal DEF EngineInv, EngineTypeOK, RunType
<1>1. CloseCommands \in Seq(EngineCommand)
  <2>1. Len(Exiting) \in Nat /\ \A n \in 1..Len(Exiting) : Exiting[n] \in Variant
    BY ExitingIs, ElementOfSeq, LenProperties
  <2>2. \A n \in 1..Len(Exiting) : TrackActive(Signal, Exiting[n])
    BY ExitingIs DEF Leaves
  <2>3. \A n \in 1..Len(Exiting) : CloseCommand(Exiting[n]) \in EngineCommand
    BY <1>0, <2>1, <2>2, CloseCommandType
  <2> HIDE DEF EngineCommand
  <2> QED BY <2>1, <2>3 DEF CloseCommands
<1>2. MarkResolved \in Seq(EngineCommand)
  <2>1. Command("advance_checkpoint", Signal, run.cursor, LifecycleCheckpoint(Signal), Null)
            \in EngineCommand
    BY <1>0 DEF Command, EngineCommand, SignalCommand, WideColumns
  <2> HIDE DEF EngineCommand
  <2> QED BY <2>1 DEF MarkResolved
<1>3. AnnounceCandle \in Seq(EngineCommand)
  <2>1. run.actions \o ExitActions \in Seq(Announcement)
    BY <1>0, ExitActionsType, ConcatProperties
  <2> QED BY <1>0, <2>1, EnqueuesType DEF AnnounceCandle
<1>4. ExitCommands \in Seq(EngineCommand)
  <2>1. CloseCommands \o MarkResolved \in Seq(EngineCommand)
    BY <1>1, <1>2, ConcatProperties
  <2> QED BY <1>3, <2>1, ConcatProperties DEF ExitCommands
<1> QED BY <1>1, <1>2, <1>3, <1>4

\* A management decision fits its columns.
LEMMA DecisionType ==
    ASSUME NEW t, ValidTerms(t), NEW filled, filled.fill_price \in Int,
           NEW row, {row.current_stop, row.remaining_fraction, row.realized_r} \subseteq Int,
           NEW c, ValidCandle(c), NEW first \in BOOLEAN
    PROVE  Decision(t, filled, row, c, first) \in
               [changes_managed_result : BOOLEAN, updated_stop : Int \cup {Null},
                remaining_fraction_after : Int \cup {Null}, realized_r_after : Int \cup {Null}]
<1> DEFINE Adjust == [changes_managed_result : BOOLEAN, updated_stop : Int \cup {Null},
                      remaining_fraction_after : Int \cup {Null},
                      realized_r_after : Int \cup {Null}]
           stop == BreakEvenStop(t, filled.fill_price)
           half == WholePosition - HalfPosition
           banked == row.realized_r + HalfPosition * Net(t, filled.fill_price, c.close)
<1>1. stop \in Int /\ half \in Int /\ banked \in Int
  BY DEF BreakEvenStop, Net, Directional, ValidTerms, ValidCandle, WholePosition, HalfPosition
<1> HIDE DEF stop, half, banked
<1>2. Hold \in Adjust
  BY DEF Hold
<1>3. /\ [Hold EXCEPT !.changes_managed_result = TRUE, !.updated_stop = stop] \in Adjust
      /\ [Hold EXCEPT !.changes_managed_result = TRUE, !.remaining_fraction_after = half,
                      !.realized_r_after = banked] \in Adjust
  BY <1>1, <1>2
<1>4. Decision(t, filled, row, c, first) \in
          {Hold, [Hold EXCEPT !.changes_managed_result = TRUE, !.updated_stop = stop],
           [Hold EXCEPT !.changes_managed_result = TRUE, !.remaining_fraction_after = half,
                        !.realized_r_after = banked]}
  BY DEF Decision, stop, half, banked
<1> QED BY <1>2, <1>3, <1>4

LEMMA PlannedDecisionType ==
    ASSUME WideColumns, EngineInv, run.queue # <<>>, run.cursor < clock,
           TrackActive(Signal, "MANAGED")
    PROVE  /\ Command("apply_management_decision", Signal, run.cursor,
                      CommandKey(Signal, run.cursor, "management", ""),
                      Decision(Terms, trade[Signal], track[Signal]["MANAGED"],
                               Candle(run.cursor), OnActivationCandle)) \in EngineCommand
           /\ Command("advance_checkpoint", Signal, run.cursor, ManagementCheckpoint(Signal), Null)
                  \in EngineCommand
<1> DEFINE i == run.cursor
           d == Decision(Terms, trade[Signal], track[Signal]["MANAGED"], Candle(i),
                         OnActivationCandle)
           k == CommandKey(Signal, i, "management", "")
<1>1. /\ Signal \in SignalId /\ Terms \in EngineTerm
      /\ trade[Signal] \in TradeRow /\ track[Signal]["MANAGED"] \in TrackRow
      /\ i \in Minute
  BY MonitoredSignal DEF EngineInv, EngineTypeOK, RunType, Variant
<1>2. /\ trade[Signal].fill_price \in Int
      /\ {track[Signal]["MANAGED"].current_stop, track[Signal]["MANAGED"].remaining_fraction,
          track[Signal]["MANAGED"].realized_r} \subseteq Int
  BY <1>1, DecimalAssumption DEF TradeRow, TrackRow
<1>3. ValidCandle(Candle(i)) /\ ValidTerms(Terms) /\ OnActivationCandle \in BOOLEAN
  BY <1>1, CompleteCandle DEF EngineInv, EngineTypeOK, EngineTerm, Minute, OnActivationCandle
<1>4. d \in Adjustment
  <2>1. d \in [changes_managed_result : BOOLEAN, updated_stop : Int \cup {Null},
               remaining_fraction_after : Int \cup {Null}, realized_r_after : Int \cup {Null}]
    BY <1>2, <1>3, DecisionType
  <2> HIDE DEF d
  <2> QED BY <2>1 DEF WideColumns
<1>5. k \in DedupeKey
  BY <1>1 DEF WideColumns, Act, Detail
<1> HIDE DEF d, k
<1> QED BY <1>1, <1>4, <1>5 DEF Command, EngineCommand, SignalCommand, WideColumns, d, k

LEMMA DecideType ==
    ASSUME WideColumns, EngineInv, run.queue # <<>>, run.cursor < clock,
           TrackActive(Signal, "MANAGED")
    PROVE  Decide(run.cursor) \in Seq(EngineCommand)
<1> DEFINE i == run.cursor
           d == Decision(Terms, trade[Signal], track[Signal]["MANAGED"], Candle(i),
                         OnActivationCandle)
           k == CommandKey(Signal, i, "management", "")
           mark == Command("advance_checkpoint", Signal, i, ManagementCheckpoint(Signal), Null)
           apply == Command("apply_management_decision", Signal, i, k, d)
           tell == IF d.changes_managed_result
                   THEN Enqueues(Signal, i, <<DecisionAction(d)>>) ELSE <<>>
<1>1. Signal \in SignalId /\ i \in Minute
  BY MonitoredSignal DEF EngineInv, EngineTypeOK, RunType
<1>2. apply \in EngineCommand /\ mark \in EngineCommand
  BY PlannedDecisionType
<1>3. tell \in Seq(EngineCommand)
  <2>1. <<DecisionAction(d)>> \in Seq(Announcement)
    BY DEF DecisionAction, Announcement
  <2>2. Enqueues(Signal, i, <<DecisionAction(d)>>) \in Seq(EngineCommand)
    BY <1>1, <2>1, EnqueuesType
  <2> HIDE DEF d, EngineCommand
  <2> QED BY <2>2, EmptySeq
<1>4. Decide(i) = IF DecisionExists(k) THEN <<mark>> ELSE <<apply, mark>> \o tell
  BY DEF Decide
<1> HIDE DEF d, k, mark, apply, tell, EngineCommand
<1>5. <<mark>> \in Seq(EngineCommand) /\ <<apply, mark>> \in Seq(EngineCommand)
  BY <1>2
<1>6. <<apply, mark>> \o tell \in Seq(EngineCommand)
  BY <1>3, <1>5, ConcatProperties
<1> QED BY <1>4, <1>5, <1>6

----------------------------------------------------------------------------
(* Every step keeps the engine well-formed.                                *)

RunOK(r) == RunType(r) /\ RunPlace(r) /\ QueueCreated(r)

LEMMA RunSuffices ==
    ASSUME EngineTypeOK, UNCHANGED <<ledgerVars, clock, candles, late>>, RunOK(run')
    PROVE  EngineTypeOK'
BY DEF EngineTypeOK, MarketType, RunOK, RunType, RunPlace, QueueCreated, TermsSound, Candle,
       ledgerVars, tradeVars

\* The run's clock readings are minutes, and windows begin within them.
LEMMA Bounds ==
    ASSUME EngineTypeOK
    PROVE  /\ MaxMinute \in Nat /\ Window \in Nat /\ clock \in 0..MaxMinute
           /\ run.now \in 0..clock /\ run.upto \in 0..clock /\ run.cursor \in 0..run.upto
           /\ FirstCollected \in 0..clock
           /\ (IF run.upto > Window THEN run.upto - Window ELSE 0) \in 0..run.upto
BY EngineAssumption, SMTT(30) DEF EngineTypeOK, MarketType, RunType, RunPlace, Minute, FirstCollected

LEMMA StartOK ==
    ASSUME EngineTypeOK, Start PROVE RunOK(run')
<1>1. Idle.queue = <<>> /\ Idle.upto = 0 /\ Idle.cursor = 0 /\ RunType(Idle)
  BY RestingRuns DEF Idle
<1> DEFINE idle == Idle
<1>2. run' = [idle EXCEPT !.phase = "load", !.now = clock]
  BY DEF Start
<1> HIDE DEF idle
<1>3. idle.queue = <<>> /\ idle.upto = 0 /\ idle.cursor = 0 /\ RunType(idle)
  BY <1>1 DEF idle
<1>4. clock \in Minute /\ clock \in Nat
  BY Bounds DEF Minute
<1>5. /\ run'.phase = "load" /\ run'.now = clock /\ run'.queue = <<>> /\ run'.upto = 0
      /\ run'.cursor = 0 /\ RunType(run')
  BY <1>2, <1>3, <1>4 DEF RunType, Phases
<1> QED BY <1>4, <1>5, EmptySeq DEF RunOK, RunPlace, QueueCreated

LEMMA LoadOK ==
    ASSUME EngineTypeOK, Load PROVE RunOK(run')
<1>1. PICK n \in 0..Cardinality(Monitored) : \E list \in [1..n -> Monitored] :
        run' = [run EXCEPT !.phase = "collect",
                           !.paused = paused,
                           !.queue = list,
                           !.last = LastSignalAt,
                           !.active = \E s \in SignalId : status[s] = "ACTIVE"]
  BY DEF Load
<1>2. PICK list \in [1..n -> Monitored] :
        run' = [run EXCEPT !.phase = "collect",
                           !.paused = paused,
                           !.queue = list,
                           !.last = LastSignalAt,
                           !.active = \E s \in SignalId : status[s] = "ACTIVE"]
  BY <1>1
<1>3. n \in Nat /\ list \in Seq(SignalId) /\ Len(list) = n
  BY DEF Monitored
<1>4. \A m \in 1..Len(list) : status[list[m]] # "ABSENT"
  BY <1>3 DEF Monitored
<1>5. RunType(run) /\ RunPlace(run)
  BY DEF EngineTypeOK
<1>6. /\ run'.phase = "collect" /\ run'.queue = list /\ RunType(run')
      /\ run'.now = run.now /\ run'.upto = run.upto /\ run'.cursor = run.cursor
  BY <1>2, <1>3, <1>5 DEF RunType, Phases
<1> QED BY <1>4, <1>5, <1>6 DEF RunOK, RunPlace, QueueCreated

LEMMA CollectOK ==
    ASSUME EngineTypeOK, Collect PROVE RunOK(run')
<1>1. RunType(run) /\ RunPlace(run) /\ QueueCreated(run)
  BY DEF EngineTypeOK
<1>2. clock \in Minute /\ FirstCollected \in Minute /\ FirstCollected <= clock
  BY Bounds DEF Minute
<1>3. /\ run'.phase = "entry" /\ run'.now = run.now /\ run'.queue = run.queue
      /\ run'.upto = clock /\ run'.cursor = FirstCollected /\ RunType(run')
  BY <1>1, <1>2 DEF Collect, RunType, Phases
<1> QED BY <1>1, <1>2, <1>3, Bounds DEF RunOK, RunPlace, QueueCreated

\* What a planning step inherits.
LEMMA Inherits ==
    ASSUME EngineTypeOK
    PROVE  /\ RunOK(run) /\ run.queue \in Seq(SignalId) /\ run.todo \in Seq(EngineCommand)
           /\ run.actions \in Seq(Announcement)
           /\ <<>> \in Seq(Announcement) /\ <<>> \in Seq(EngineCommand)
           /\ RunOK(Failed) /\ RunOK(Idle)
BY RestingRuns, EmptySeq DEF EngineTypeOK, RunOK, RunType

LEMMA EntryPlanType ==
    ASSUME WideColumns, EngineInv, run.queue # <<>>
    PROVE  EntryActions \in Seq(Announcement) /\ EntryCommands \in Seq(EngineCommand)
<1>1. Signal \in SignalId /\ run.cursor \in Minute /\ ConservativeEntry(Terms) \in Int
  BY MonitoredSignal, Bounds DEF EngineInv, EngineTerm, ValidTerms, ConservativeEntry, Minute
<1>2. /\ CommandKey(Signal, run.cursor, "expire", "") \in DedupeKey
      /\ CommandKey(Signal, run.cursor, "activate", "") \in DedupeKey
  BY <1>1 DEF WideColumns, Act, Detail
<1>3. ExpireCommand \in EngineCommand /\ ActivateCommand \in EngineCommand
  BY <1>1, <1>2 DEF ExpireCommand, ActivateCommand, Command, EngineCommand, SignalCommand
<1>4. <<"EXPIRED">> \in Seq(Announcement) /\ <<"ACTIVATED">> \in Seq(Announcement)
  BY DEF Announcement
<1> HIDE DEF EngineCommand
<1>5. <<ExpireCommand>> \in Seq(EngineCommand) /\ <<ActivateCommand>> \in Seq(EngineCommand)
  BY <1>3
<1> QED BY <1>4, <1>5, EmptySeq DEF EntryActions, EntryCommands

LEMMA PlanEntryOK ==
    ASSUME WideColumns, EngineInv, PlanEntry PROVE RunOK(run')
<1>0. EngineTypeOK /\ run.queue # <<>> /\ run.cursor < run.upto
  BY DEF EngineInv, PlanEntry, AtCandle
<1>1. CASE run' = Failed
  BY <1>0, <1>1, Inherits
<1>2. CASE ~Incomplete /\ run' = [run EXCEPT !.phase = "manage"]
  <2>1. RunType(run') /\ run'.now = run.now /\ run'.queue = run.queue
        /\ run'.upto = run.upto /\ run'.cursor = run.cursor
    BY <1>0, <1>2, Inherits DEF RunOK, RunType, Phases
  <2>2. run.cursor < run.now
    BY <1>0, <1>2, Bounds DEF Incomplete
  <2> QED BY <1>0, <2>1, <2>2, Inherits DEF RunOK, RunPlace, QueueCreated
<1>3. CASE /\ ~Incomplete
           /\ run' = [run EXCEPT !.phase = "exit", !.actions = EntryActions,
                                 !.todo = EntryCommands]
  <2>1. RunType(run') /\ run'.now = run.now /\ run'.queue = run.queue
        /\ run'.upto = run.upto /\ run'.cursor = run.cursor
    BY <1>0, <1>3, EntryPlanType, Inherits DEF RunOK, RunType, Phases
  <2>2. run.cursor < run.now
    BY <1>0, <1>3, Bounds DEF Incomplete
  <2> QED BY <1>0, <2>1, <2>2, Inherits DEF RunOK, RunPlace, QueueCreated
<1> QED BY <1>1, <1>2, <1>3 DEF PlanEntry

LEMMA PlanExitOK ==
    ASSUME WideColumns, EngineInv, PlanExit PROVE RunOK(run')
<1>0. /\ EngineTypeOK /\ run.queue # <<>> /\ run.cursor < run.now
      /\ run.cursor < run.upto /\ run.cursor < clock
  BY Bounds DEF EngineInv, EngineTypeOK, RunPlace, PlanExit, Planning
<1>1. ExitCommands \in Seq(EngineCommand) /\ <<>> \in Seq(Announcement)
  BY <1>0, ExitCommandsType, Inherits
<1>2. run' = [run EXCEPT !.phase = "manage", !.actions = <<>>, !.todo = ExitCommands]
  BY DEF PlanExit
<1>3. RunType(run') /\ run'.now = run.now /\ run'.queue = run.queue
      /\ run'.upto = run.upto /\ run'.cursor = run.cursor
  BY <1>0, <1>1, <1>2, Inherits DEF RunOK, RunType, Phases
<1> QED BY <1>0, <1>3, Inherits DEF RunOK, RunPlace, QueueCreated

LEMMA PlanManagementOK ==
    ASSUME WideColumns, EngineInv, PlanManagement PROVE RunOK(run')
<1>0. /\ EngineTypeOK /\ run.queue # <<>> /\ run.cursor < run.now
      /\ run.cursor < run.upto /\ run.cursor < clock
  BY Bounds DEF EngineInv, EngineTypeOK, RunPlace, PlanManagement, Planning
<1>1. CASE run' = Failed
  BY <1>0, <1>1, Inherits
<1>2. run.cursor + 1 \in Minute /\ run.cursor + 1 <= run.upto
  BY <1>0, Bounds DEF Minute
<1>3. CASE /\ Managing
           /\ run' = [run EXCEPT !.phase = "entry", !.cursor = @ + 1, !.todo = Decide(run.cursor)]
  <2>1. Decide(run.cursor) \in Seq(EngineCommand)
    BY <1>0, <1>3, DecideType DEF Managing
  <2>2. RunType(run') /\ run'.phase = "entry" /\ run'.now = run.now /\ run'.queue = run.queue
        /\ run'.upto = run.upto /\ run'.cursor = run.cursor + 1
    BY <1>0, <1>2, <1>3, <2>1, Inherits DEF RunOK, RunType, Phases
  <2> QED BY <1>0, <1>2, <2>2, Inherits DEF RunOK, RunPlace, QueueCreated
<1>4. CASE run' = [run EXCEPT !.phase = "entry", !.cursor = @ + 1]
  <2>1. RunType(run') /\ run'.phase = "entry" /\ run'.now = run.now /\ run'.queue = run.queue
        /\ run'.upto = run.upto /\ run'.cursor = run.cursor + 1
    BY <1>0, <1>2, <1>4, Inherits DEF RunOK, RunType, Phases
  <2> QED BY <1>0, <1>2, <2>1, Inherits DEF RunOK, RunPlace, QueueCreated
<1> QED BY <1>1, <1>3, <1>4 DEF PlanManagement

LEMMA EndSignalOK ==
    ASSUME EngineInv, EndSignal PROVE RunOK(run')
<1>0. EngineTypeOK /\ run.queue # <<>> /\ run.phase = "entry"
  BY DEF EngineInv, EndSignal, Planning
<1> DEFINE first == IF run.upto > Window THEN run.upto - Window ELSE 0
           monitored == run.active \/ TrackActive(Signal, "MANAGED")
<1>1. first \in Minute /\ first <= run.upto
  BY <1>0, Bounds DEF Minute
<1>2. /\ Tail(run.queue) \in Seq(SignalId)
      /\ \A n \in 1..Len(Tail(run.queue)) : status[Tail(run.queue)[n]] # "ABSENT"
  BY <1>0, Inherits DEF RunOK, QueueCreated
<1>3. run' = [run EXCEPT !.active = monitored, !.queue = Tail(run.queue), !.cursor = first]
  BY DEF EndSignal
<1> HIDE DEF first, monitored
<1>4. /\ run'.phase = "entry" /\ run'.now = run.now /\ run'.queue = Tail(run.queue)
      /\ run'.upto = run.upto /\ run'.cursor = first /\ RunType(run')
  BY <1>0, <1>1, <1>2, <1>3, Inherits DEF RunOK, RunType
<1> QED BY <1>0, <1>1, <1>2, <1>4, Inherits DEF RunOK, RunPlace, QueueCreated

\* A run that has nothing to monitor moves on with a list of commands.
LEMMA MovesOn ==
    ASSUME EngineTypeOK, NEW phase \in {"report", "record"}, NEW todo \in Seq(EngineCommand),
           run' = [run EXCEPT !.phase = phase, !.todo = todo]
    PROVE  RunOK(run')
<1>1. /\ run'.phase = phase /\ run'.now = run.now /\ run'.queue = run.queue
      /\ run'.upto = run.upto /\ run'.cursor = run.cursor /\ RunType(run')
  BY Inherits DEF RunOK, RunType, Phases
<1> QED BY <1>1, Inherits DEF RunOK, RunPlace, QueueCreated

LEMMA EvaluateOK ==
    ASSUME WideColumns, EngineInv, Evaluate PROVE RunOK(run')
<1>0. EngineTypeOK
  BY DEF EngineInv
<1>1. CASE run' = [run EXCEPT !.phase = "report"]
  <2>1. /\ run'.phase = "report" /\ run'.now = run.now /\ run'.queue = run.queue
        /\ run'.upto = run.upto /\ run'.cursor = run.cursor /\ RunType(run')
    BY <1>0, <1>1, Inherits DEF RunOK, RunType, Phases
  <2> QED BY <1>0, <2>1, Inherits DEF RunOK, RunPlace, QueueCreated
<1>2. ASSUME NEW setup \in Setup, NEW aligned \in StartsAligned,
             run' = [run EXCEPT !.phase = "report",
                       !.todo = <<Command("allocate_signal_id", Null, run.now, DateOf[run.now],
                                          NewTerms(setup, aligned))>>]
      PROVE  RunOK(run')
  <2>1. run.now \in Minute /\ aligned \in BOOLEAN /\ ValidTerms(setup)
    BY <1>0, EngineAssumption, Bounds DEF Minute
  <2>2. NewTerms(setup, aligned) \in Term
    BY <2>1 DEF WideColumns, NewTerms
  <2>3. /\ NewTerms(setup, aligned).side = setup.side
        /\ NewTerms(setup, aligned).entry_low = setup.entry_low
        /\ NewTerms(setup, aligned).entry_high = setup.entry_high
        /\ NewTerms(setup, aligned).original_stop = setup.original_stop
        /\ NewTerms(setup, aligned).target = setup.target
        /\ NewTerms(setup, aligned).cost = setup.cost
        /\ NewTerms(setup, aligned).created_at = run.now
        /\ NewTerms(setup, aligned).aligned = aligned
    BY DEF NewTerms
  <2>4. NewTerms(setup, aligned) \in EngineTerm
    <3> DEFINE t == NewTerms(setup, aligned)
    <3> HIDE DEF t
    <3>1. /\ t.side = setup.side /\ t.entry_low = setup.entry_low
          /\ t.entry_high = setup.entry_high /\ t.original_stop = setup.original_stop
          /\ t.target = setup.target /\ t.cost = setup.cost
      BY <2>3 DEF t
    <3>2. ValidTerms(t)
      BY <2>1, <3>1 DEF ValidTerms, Long, Net, Directional, ConservativeEntry, TotalRisk
    <3> QED BY <2>1, <2>2, <2>3, <3>2 DEF EngineTerm, t
  <2> DEFINE new == NewTerms(setup, aligned)
             allocate == Command("allocate_signal_id", Null, run.now, DateOf[run.now], new)
  <2> HIDE DEF new
  <2>5. allocate \in EngineCommand
    BY <2>1, <2>4 DEF Command, EngineCommand, WideColumns, new
  <2>6. run' = [run EXCEPT !.phase = "report", !.todo = <<allocate>>]
    BY <1>2 DEF new
  <2> HIDE DEF allocate, EngineCommand
  <2>7. <<allocate>> \in Seq(EngineCommand)
    BY <2>5
  <2> QED BY <1>0, <2>6, <2>7, MovesOn
<1> QED BY <1>1, <1>2 DEF Evaluate

LEMMA ReportOK ==
    ASSUME WideColumns, EngineInv, Report PROVE RunOK(run')
<1>0. EngineTypeOK /\ run.now \in Minute
  BY Bounds DEF EngineInv, Minute
<1>1. Enqueues(Null, run.now, <<"REPORT">>) \in Seq(EngineCommand)
  <2>1. <<"REPORT">> \in Seq(Announcement)
    BY DEF Announcement
  <2> QED BY <1>0, <2>1, EnqueuesType
<1> DEFINE todo == IF ~run.paused /\ run.now \in ReportMinutes
                   THEN Enqueues(Null, run.now, <<"REPORT">>) ELSE <<>>
<1>2. run' = [run EXCEPT !.phase = "record", !.todo = todo]
  BY DEF Report
<1>3. todo \in Seq(EngineCommand)
  BY <1>0, <1>1, Inherits
<1> HIDE DEF todo
<1> QED BY <1>0, <1>2, <1>3, MovesOn

----------------------------------------------------------------------------
(* Sending commands. *)

LEMMA PreparedType ==
    ASSUME WideColumns, NEW c \in EngineCommand
    PROVE  /\ Prepared(c) \in EngineCommand
           /\ Prepared(c).operation = c.operation /\ Prepared(c).key = c.key
           /\ c.operation # "close_track" => Prepared(c) = c
<1>1. CASE c.operation # "close_track"
  BY <1>1 DEF Prepared
<1>2. CASE c.operation = "close_track"
  <2>1. c \in SignalCommand("close_track", DedupeKey,
                            [variant : Variant, closing : Closing, payload : Payload])
    BY <1>2 DEF EngineCommand, SignalCommand
  <2> DEFINE counted == Samples \cup {<<c.signal_id, c.data.variant>>}
  <2>2. counted \in Payload
    <3>1. counted \in SUBSET (SignalId \X Variant)
      BY <2>1 DEF SignalCommand, Samples
    <3> HIDE DEF counted
    <3> QED BY <3>1 DEF WideColumns
  <2>3. Prepared(c) = [c EXCEPT !.data.payload = counted]
    BY <1>2 DEF Prepared
  <2> HIDE DEF counted
  <2>4. /\ Prepared(c) \in SignalCommand("close_track", DedupeKey,
                                   [variant : Variant, closing : Closing, payload : Payload])
        /\ Prepared(c).operation = c.operation /\ Prepared(c).key = c.key
    BY <2>1, <2>2, <2>3 DEF SignalCommand
  <2> QED BY <1>2, <2>4 DEF EngineCommand
<1> QED BY <1>1, <1>2

\* No command takes a signal away again or gives it terms the engine does not
\* know.
SignalsKept ==
    /\ TermsSound'
    /\ \A s \in SignalId : status[s] # "ABSENT" => status'[s] # "ABSENT"

LEMMA ExecutesKeepsSignals ==
    ASSUME WideColumns, IInv, TermsSound, NEW c \in EngineCommand, Executes(c)
    PROVE  SignalsKept
<1>0. /\ c.operation = "create_signal" => c.signal_id \in SignalId /\ c.data \in EngineTerm
      /\ c.operation \in {"activate_signal", "transition_pending", "close_track"}
             => c.signal_id \in SignalId
  BY DEF EngineCommand, SignalCommand
<1> HIDE DEF EngineCommand
<1>1. ASSUME UNCHANGED <<status, terms>> PROVE SignalsKept
  BY <1>1 DEF TermsSound, SignalsKept
<1>2. ASSUME UNCHANGED terms, NEW s \in SignalId, NEW to \in {"ACTIVE", "EXPIRED", "CLOSED"},
             status' = [status EXCEPT ![s] = to]
      PROVE  SignalsKept
  BY <1>2 DEF TermsSound, IInv, TypeOK, SignalsKept
<1>3. CASE c.operation = "create_signal" /\ CreateSignal(c.signal_id, c.data, c.key)
  BY <1>0, <1>3 DEF CreateSignal, TermsSound, IInv, TypeOK, SignalsKept
<1>4. CASE c.operation = "activate_signal"
           /\ ActivateSignal(c.signal_id, c.data.fill_price, c.at, c.key)
  <2>1. UNCHANGED terms /\ status' = [status EXCEPT ![c.signal_id] = "ACTIVE"]
    BY <1>4 DEF ActivateSignal
  <2> QED BY <1>0, <1>2, <1>4, <2>1
<1>5. CASE c.operation = "transition_pending"
           /\ TransitionPending(c.signal_id, "EXPIRED", c.key)
  <2>1. UNCHANGED terms /\ status' = [status EXCEPT ![c.signal_id] = "EXPIRED"]
    BY <1>5 DEF TransitionPending
  <2> QED BY <1>0, <1>2, <1>5, <2>1
<1>6. CASE c.operation = "close_track"
           /\ CloseTrack(c.signal_id, c.data.variant, c.data.closing, c.data.payload, c.key)
  <2>1. /\ UNCHANGED terms
        /\ \/ UNCHANGED status
           \/ status' = [status EXCEPT ![c.signal_id] = "CLOSED"]
    BY <1>6, Zenon DEF CloseTrack
  <2> QED BY <1>0, <1>1, <1>2, <1>6, <2>1
<1>7. CASE UNCHANGED <<status, terms>>
  BY <1>1, <1>7
<1>8. CASE Applies(c)
  <2>1. \/ c.operation = "create_signal" /\ CreateSignal(c.signal_id, c.data, c.key)
        \/ c.operation = "activate_signal"
               /\ ActivateSignal(c.signal_id, c.data.fill_price, c.at, c.key)
        \/ c.operation = "transition_pending"
               /\ TransitionPending(c.signal_id, "EXPIRED", c.key)
        \/ c.operation = "close_track"
               /\ CloseTrack(c.signal_id, c.data.variant, c.data.closing, c.data.payload, c.key)
        \/ \/ AllocateSignalId(c.key) \/ AdvanceCheckpoint(c.key, c.at)
           \/ ApplyManagement(c.signal_id, c.data, c.key) \/ EnqueueNotification(c.key)
    BY <1>8 DEF Applies
  <2>2. \/ AllocateSignalId(c.key) \/ AdvanceCheckpoint(c.key, c.at)
        \/ ApplyManagement(c.signal_id, c.data, c.key) \/ EnqueueNotification(c.key)
        => UNCHANGED <<status, terms>>
    BY DEF AllocateSignalId, AdvanceCheckpoint, ApplyManagement, EnqueueNotification, tradeVars
  <2> QED BY <1>3, <1>4, <1>5, <1>6, <1>7, <2>1, <2>2
<1> QED BY <1>7, <1>8 DEF Executes, ledgerVars, tradeVars

\* What a ledger step and a rest of the engine add up to.
LEMMA ExecutingSuffices ==
    ASSUME WideColumns, EngineInv, NEW c \in EngineCommand, Executes(c) \/ UNCHANGED ledgerVars,
           UNCHANGED <<clock, candles>>, late' \subseteq EngineCommand,
           RunType(run'), RunPlace(run'),
           \A n \in 1..Len(run'.queue) : status[run'.queue[n]] # "ABSENT"
    PROVE  EngineTypeOK'
<1>1. /\ TermsSound'
      /\ \A s \in SignalId : status[s] # "ABSENT" => status'[s] # "ABSENT"
  BY ExecutesKeepsSignals
     DEF EngineInv, EngineTypeOK, ledgerVars, tradeVars, TermsSound, SignalsKept
<1>2. \A n \in 1..Len(run'.queue) : run'.queue[n] \in SignalId
  <2>1. run'.queue \in Seq(SignalId)
    BY DEF RunType
  <2> QED BY <2>1
<1>3. QueueCreated(run)'
  BY <1>1, <1>2 DEF QueueCreated
<1>4. MarketType' /\ RunType(run)' /\ RunPlace(run)'
  BY DEF EngineInv, EngineTypeOK, MarketType, RunType, RunPlace, Candle
<1> QED BY <1>1, <1>3, <1>4 DEF EngineTypeOK

LEMMA CreateCommandsType ==
    ASSUME WideColumns, NEW s \in SignalId, NEW t \in EngineTerm, run.now \in Minute
    PROVE  CreateCommands(s, t) \in Seq(EngineCommand)
<1> DEFINE create == Command("create_signal", s, run.now, CreatedNotice(s), t)
           tell == Command("enqueue_notification", s, run.now, CreatedNotice(s), Null)
<1>1. CreatedNotice(s) \in NoticeKey
  <2>1. "CREATED" \in Announcement
    BY DEF Announcement
  <2> QED BY <2>1 DEF WideColumns, CreatedNotice
<1>2. create \in EngineCommand /\ tell \in EngineCommand
  BY <1>1 DEF Command, EngineCommand, SignalCommand
<1>3. CreateCommands(s, t) = <<create, tell>>
  BY DEF CreateCommands
<1> HIDE DEF create, tell, EngineCommand
<1> QED BY <1>2, <1>3

\* The head of the list is a command, and so is what is left of it.
LEMMA NextCommand ==
    ASSUME WideColumns, EngineTypeOK, run.todo # <<>>
    PROVE  /\ Head(run.todo) \in EngineCommand /\ Tail(run.todo) \in Seq(EngineCommand)
           /\ Prepared(Head(run.todo)) \in EngineCommand
<1>1. run.todo \in Seq(EngineCommand)
  BY DEF EngineTypeOK, RunType
<1> HIDE DEF EngineCommand
<1>2. Head(run.todo) \in EngineCommand /\ Tail(run.todo) \in Seq(EngineCommand)
  BY <1>1
<1> QED BY <1>2, PreparedType

LEMMA SendOK ==
    ASSUME WideColumns, EngineInv, Send PROVE EngineTypeOK'
<1> DEFINE c == Prepared(Head(run.todo))
<1>0. EngineTypeOK /\ c \in EngineCommand /\ Tail(run.todo) \in Seq(EngineCommand)
  BY NextCommand DEF EngineInv, Send
<1>1. /\ Executes(c) /\ run' = IF Accepted(c) THEN AfterReply(c) ELSE Failed
      /\ UNCHANGED <<clock, candles, late>>
  BY DEF Send, environment
<1>2. late' \subseteq EngineCommand
  BY <1>0, <1>1 DEF EngineTypeOK
<1>3. RunOK(run) /\ RunOK(Failed)
  BY <1>0, Inherits
<1>4. CASE ~Accepted(c)
  <2> HIDE DEF c
  <2> QED BY <1>0, <1>1, <1>2, <1>3, <1>4, ExecutingSuffices DEF RunOK, QueueCreated
<1>5. ASSUME NEW todo \in Seq(EngineCommand), run' = [run EXCEPT !.todo = todo]
      PROVE  EngineTypeOK'
  <2>1. /\ RunType(run') /\ run'.queue = run.queue /\ run'.now = run.now
        /\ run'.upto = run.upto /\ run'.cursor = run.cursor /\ run'.phase = run.phase
    BY <1>3, <1>5 DEF RunOK, RunType
  <2>2. /\ RunPlace(run')
        /\ \A n \in 1..Len(run'.queue) : status[run'.queue[n]] # "ABSENT"
    BY <1>3, <2>1 DEF RunOK, RunPlace, QueueCreated
  <2> HIDE DEF c
  <2> QED BY <1>0, <1>1, <1>2, <2>1, <2>2, ExecutingSuffices
<1>6. CASE Accepted(c) /\ c.operation = "allocate_signal_id"
  <2>1. /\ c.key \in BusinessDate /\ c.data \in EngineTerm /\ AllocateSignalId(c.key)
    <3> HIDE DEF c
    <3> QED BY <1>0, <1>1, <1>6 DEF Executes, Applies, Accepted, Allowed, EngineCommand, SignalCommand
  <2>2. sequence'[c.key] \in 1..MaxSequence
    <3> HIDE DEF c
    <3> QED BY <2>1, MaxSequenceAssumption DEF AllocateSignalId, EngineInv, IInv, TypeOK
  <2>3. <<c.key, sequence'[c.key]>> \in SignalId
    BY <2>1, <2>2 DEF WideColumns
  <2>4. CreateCommands(<<c.key, sequence'[c.key]>>, c.data) \in Seq(EngineCommand)
    <3>1. run.now \in Minute
      BY <1>3 DEF RunOK, RunType
    <3> HIDE DEF c
    <3> QED BY <2>1, <2>3, <3>1, CreateCommandsType
  <2>5. run' = [run EXCEPT !.todo = CreateCommands(<<c.key, sequence'[c.key]>>, c.data)]
    BY <1>1, <1>6 DEF AfterReply
  <2> HIDE DEF c
  <2> QED BY <1>5, <2>4, <2>5
<1>7. CASE Accepted(c) /\ c.operation # "allocate_signal_id"
  <2>1. run' = [run EXCEPT !.todo = Tail(run.todo)]
    BY <1>1, <1>7 DEF AfterReply
  <2> QED BY <1>0, <1>5, <2>1
<1> QED BY <1>4, <1>6, <1>7

LEMMA TickOK ==
    ASSUME EngineTypeOK, Tick PROVE EngineTypeOK'
<1>1. PICK c \in Candles[clock] : candles' = Append(candles, c)
  BY DEF Tick
<1>2. /\ clock < MaxMinute /\ clock' = clock + 1 /\ clock \in 0..MaxMinute /\ MaxMinute \in Nat
      /\ UNCHANGED <<ledgerVars, run, late>>
  BY Bounds DEF Tick
<1>3. c \in AnyCandle
  BY <1>1, <1>2 DEF AnyCandle
<1>4. candles \in Seq(AnyCandle) /\ Len(candles) = clock
  BY DEF EngineTypeOK, MarketType
<1>5. /\ candles' \in Seq(AnyCandle) /\ Len(candles') = clock'
      /\ \A i \in 0..(clock - 1) : candles'[i + 1] = candles[i + 1]
      /\ candles'[clock + 1] = c
  <2> HIDE DEF AnyCandle
  <2> QED BY <1>1, <1>2, <1>3, <1>4
<1>6. MarketType'
  <2>1. \A i \in 0..(clock' - 1) : candles'[i + 1] \in Candles[i]
    <3> TAKE i \in 0..(clock' - 1)
    <3>1. CASE i = clock
      BY <1>1, <1>5, <3>1
    <3>2. CASE i # clock
      <4>1. i \in 0..(clock - 1)
        BY <1>2, <3>2
      <4>2. Candle(i) \in Candles[i]
        BY <4>1 DEF EngineTypeOK, MarketType
      <4> QED BY <1>5, <4>1, <4>2 DEF Candle
    <3> QED BY <3>1, <3>2
  <2>2. clock' \in Minute
    BY <1>2 DEF Minute
  <2> QED BY <1>5, <2>1, <2>2 DEF MarketType, Candle
<1>7. RunType(run)' /\ RunPlace(run)' /\ QueueCreated(run)' /\ TermsSound'
  BY <1>2, Bounds DEF EngineTypeOK, RunType, RunPlace, QueueCreated, TermsSound, ledgerVars, tradeVars
<1> QED BY <1>2, <1>6, <1>7 DEF EngineTypeOK

\* Every step is one the ledger's specification allows, or none of its.
LEMMA EngineStepIsLedgerStep ==
    ASSUME WideColumns, EngineInv, EngineNext PROVE [Next]_ledgerVars
<1>1. CASE Send \/ LoseReply
  <2>1. Prepared(Head(run.todo)) \in EngineCommand
    BY <1>1, NextCommand DEF EngineInv, Send, LoseReply
  <2>2. Executes(Prepared(Head(run.todo))) \/ UNCHANGED ledgerVars
    BY <1>1 DEF Send, LoseReply
  <2> QED BY <2>1, <2>2, ExecutesIsLedgerStep
<1>2. CASE ArriveLate
  <2>1. PICK c \in late : Executes(c)
    BY <1>2 DEF ArriveLate
  <2>2. c \in EngineCommand
    BY DEF EngineInv, EngineTypeOK
  <2> QED BY <2>1, <2>2, ExecutesIsLedgerStep
<1>3. CASE \/ Start \/ Load \/ Collect \/ PlanEntry \/ PlanExit \/ PlanManagement \/ EndSignal
           \/ Evaluate \/ Report \/ Record \/ GiveUp \/ ReadFails \/ Kill \/ Tick \/ TogglePause
  BY <1>3 DEF Start, Load, Collect, PlanEntry, PlanExit, PlanManagement, EndSignal, Evaluate,
       Report, Record, GiveUp, ReadFails, Kill, Tick, TogglePause
<1> QED BY <1>1, <1>2, <1>3 DEF EngineNext, RunStep

LEMMA EngineTypeStep ==
    ASSUME WideColumns, EngineInv, EngineNext PROVE EngineTypeOK'
<1>0. EngineTypeOK /\ RunOK(Failed) /\ RunOK(Idle) /\ RunOK(run)
  BY Inherits DEF EngineInv
<1>1. CASE \/ Start \/ Load \/ Collect \/ PlanEntry \/ PlanExit \/ PlanManagement \/ EndSignal
           \/ Evaluate \/ Report \/ Record
  <2>1. UNCHANGED <<ledgerVars, clock, candles, late>>
    BY <1>1 DEF Start, Load, Collect, PlanEntry, PlanExit, PlanManagement, EndSignal, Evaluate,
         Report, Record, environment
  <2>2. RunOK(run')
    BY <1>0, <1>1, StartOK, LoadOK, CollectOK, PlanEntryOK, PlanExitOK, PlanManagementOK,
       EndSignalOK, EvaluateOK, ReportOK DEF Record
  <2> QED BY <1>0, <2>1, <2>2, RunSuffices
<1>2. CASE ReadFails \/ Kill
  <2>1. UNCHANGED <<ledgerVars, clock, candles, late>> /\ RunOK(run')
    BY <1>0, <1>2 DEF ReadFails, Kill
  <2> QED BY <1>0, <2>1, RunSuffices
<1>3. CASE Send
  BY <1>3, SendOK
<1>4. CASE LoseReply
  <2>1. Prepared(Head(run.todo)) \in EngineCommand
    BY <1>0, <1>4, NextCommand DEF LoseReply
  <2>2. /\ Executes(Prepared(Head(run.todo))) \/ UNCHANGED ledgerVars
        /\ run' = Failed /\ UNCHANGED <<clock, candles, late>>
    BY <1>4 DEF LoseReply
  <2> QED BY <1>0, <2>1, <2>2, ExecutingSuffices DEF RunOK, QueueCreated, EngineTypeOK
<1>5. CASE GiveUp
  <2>1. Prepared(Head(run.todo)) \in EngineCommand
    BY <1>0, <1>5, NextCommand DEF GiveUp
  <2>2. /\ UNCHANGED ledgerVars /\ run' = Failed /\ UNCHANGED <<clock, candles>>
        /\ late' = late \cup {Prepared(Head(run.todo))}
    BY <1>5 DEF GiveUp
  <2>3. late' \subseteq EngineCommand
    BY <1>0, <2>1, <2>2 DEF EngineTypeOK
  <2> QED BY <1>0, <2>1, <2>2, <2>3, ExecutingSuffices DEF RunOK, QueueCreated
<1>6. CASE ArriveLate
  <2>1. PICK c \in late : /\ Executes(c) /\ late' = late \ {c}
                          /\ UNCHANGED <<clock, candles, run>>
    BY <1>6 DEF ArriveLate
  <2>2. c \in EngineCommand /\ late' \subseteq EngineCommand
    BY <1>0, <2>1 DEF EngineTypeOK
  <2> QED BY <1>0, <2>1, <2>2, ExecutingSuffices DEF RunOK, RunType, RunPlace, QueueCreated
<1>7. CASE Tick
  BY <1>0, <1>7, TickOK
<1>8. CASE TogglePause
  BY <1>0, <1>8, RunSuffices DEF TogglePause, RunOK, RunType, RunPlace, QueueCreated
<1> QED BY <1>1, <1>2, <1>3, <1>4, <1>5, <1>6, <1>7, <1>8 DEF EngineNext, RunStep

LEMMA EngineStutters ==
    ASSUME EngineInv, UNCHANGED vars PROVE EngineInv'
<1>1. IInv'
  BY NextInv DEF EngineInv, vars
<1>2. EngineTypeOK'
  BY RunSuffices DEF EngineInv, EngineTypeOK, RunOK, RunType, RunPlace, QueueCreated, vars, engineVars
<1> QED BY <1>1, <1>2 DEF EngineInv

LEMMA EngineInvariance == WideColumns => (EngineSpec => []EngineInv)
<1> SUFFICES ASSUME WideColumns PROVE EngineSpec => []EngineInv
  OBVIOUS
<1>1. EngineInit => EngineInv
  BY EngineInitInv
<1>2. EngineInv /\ [EngineNext]_vars => EngineInv'
  <2> SUFFICES ASSUME EngineInv, [EngineNext]_vars PROVE EngineInv'
    OBVIOUS
  <2>1. CASE EngineNext
    <3>1. IInv'
      BY <2>1, EngineStepIsLedgerStep, NextInv DEF EngineInv
    <3> QED BY <2>1, <3>1, EngineTypeStep DEF EngineInv
  <2>2. CASE UNCHANGED vars
    BY <2>2, EngineStutters
  <2> QED BY <2>1, <2>2
<1> QED BY <1>1, <1>2, PTL DEF EngineSpec

\* The engine is a client the ledger's specification allows: however its runs
\* are killed, disturbed or overtaken by late commands, it drives the ledger by
\* the ledger's commands only, so every theorem about the ledger holds of it.
THEOREM EngineImplementsLedger == WideColumns => (EngineSpec => Spec)
<1> SUFFICES ASSUME WideColumns PROVE EngineSpec => Spec
  OBVIOUS
<1>1. EngineInit => Init
  BY DEF EngineInit
<1>2. EngineInv /\ [EngineNext]_vars => [Next]_ledgerVars
  <2> SUFFICES ASSUME EngineInv, [EngineNext]_vars PROVE [Next]_ledgerVars
    OBVIOUS
  <2>1. CASE EngineNext
    BY <2>1, EngineStepIsLedgerStep
  <2>2. CASE UNCHANGED vars
    BY <2>2 DEF vars
  <2> QED BY <2>1, <2>2
<1>3. EngineSpec => []EngineInv
  BY EngineInvariance
<1> QED BY <1>1, <1>2, <1>3, PTL DEF EngineSpec, Spec

\* A run never resolves a candle that is not complete, never looks past the
\* present and only ever sends commands whose columns exist, in every state.
THEOREM EngineTypeCorrect == WideColumns => (EngineSpec => []EngineTypeOK)
<1> SUFFICES ASSUME WideColumns PROVE EngineSpec => []EngineTypeOK
  OBVIOUS
<1>1. EngineInv => EngineTypeOK
  BY DEF EngineInv
<1>2. EngineSpec => []EngineInv
  BY EngineInvariance
<1> QED BY <1>1, <1>2, PTL

============================================================================
