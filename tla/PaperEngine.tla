---------------------------- MODULE PaperEngine ----------------------------
(***************************************************************************)
(* The paper engine: scheduled runs of runtime/orchestrator.py that replay *)
(* completed one-minute candles into the durable ledger through the signed *)
(* state API, one command at a time.  Between any two commands the run can *)
(* be killed, a command can be lost or applied without an answer, time can *)
(* pass and the owner can pause the engine.  The workflow's concurrency    *)
(* group lets one run exist at a time.                                     *)
(*                                                                         *)
(* Minute i is [i, i+1).  `clock` is the minute in progress, so candles    *)
(* 0..clock-1 are complete.  A run reads `now` once, at its start.         *)
(***************************************************************************)
EXTENDS Ledger, TradeRules, Sequences

CONSTANTS
    MaxMinute,     \* bound: minutes of market history
    Candles,       \* the candles minute i can bring
    Setup,         \* the price terms an admitted signal can have
    DateOf,        \* the business date of a minute
    Window,        \* one-minute candles a snapshot holds
    Cooldown,      \* SignalPolicy.cooldown, in minutes
    Expiry,        \* SignalPolicy.expiry, in minutes
    StartsAligned, \* may created_at be a whole minute (it keeps only seconds)
    ReportMinutes, \* the minutes that are midnight in Casablanca
    RefusedOps,    \* commands the route's schema check refuses with 400
    LateOps,       \* commands that can take effect after the client gave up
    MaxFaults,     \* bound: kills, lost calls and late calls
    MaxToggles     \* bound: pause and resume commands

\* The market and the setups are those the models of market_data and domain accept.
ASSUME EngineAssumption ==
    /\ MaxMinute \in Nat /\ Window \in Nat \ {0}
    /\ Cooldown \in Nat \ {0} /\ Expiry \in Nat \ {0}
    /\ MaxFaults \in Nat /\ MaxToggles \in Nat
    /\ StartsAligned \subseteq BOOLEAN
    /\ \A setup \in Setup : ValidTerms(setup)
    /\ \A i \in 0..(MaxMinute - 1) : \A c \in Candles[i] : ValidCandle(c)

VARIABLES
    clock,      \* the minute in progress
    candles,    \* the completed candles, candle i at position i + 1
    paused,     \* bot_settings: signal_generation_paused
    run,        \* the run in progress: its local state
    late,       \* commands given up on that the Worker may still execute
    health,     \* status of the latest row of health_runs
    faults,     \* faults so far
    toggles     \* pause commands so far

engineVars == <<clock, candles, paused, run, late, health, faults, toggles>>
vars == <<ledgerVars, engineVars>>
environment == <<clock, candles, paused, late, faults, toggles>>

Idle ==
    [phase |-> "idle", now |-> 0, paused |-> FALSE, queue |-> <<>>, last |-> Null,
     active |-> FALSE, upto |-> 0, cursor |-> 0, actions |-> <<>>, todo |-> <<>>,
     status |-> "OK"]

EngineInit ==
    /\ Init
    /\ clock = 0 /\ candles = <<>>
    /\ paused = FALSE
    /\ run = Idle
    /\ late = {}
    /\ health = "NONE"
    /\ faults = 0 /\ toggles = 0

----------------------------------------------------------------------------
(* Keys. Every mutating command of a candle is named after that candle.    *)

LifecycleCheckpoint(s) == [replay |-> "lifecycle", signal_id |-> s]
ManagementCheckpoint(s) == [replay |-> "management", signal_id |-> s]

\* Mutation: a key that does not name its candle.
KeyWithoutCandle(s, i, action, detail) ==
    [signal_id |-> s, at |-> 0, action |-> action, detail |-> detail]

CommandKey(s, i, action, detail) ==
    [signal_id |-> s, at |-> i, action |-> action, detail |-> detail]

Notice(s, i, action) == [signal_id |-> s, at |-> i, action |-> action]

CreatedNotice(s) == Notice(s, Null, "CREATED")

----------------------------------------------------------------------------
(* Terms in minutes. *)

\* The first whole minute with no time before created_at.
FirstSafeOpen(t) == IF t.aligned THEN t.created_at ELSE t.created_at + 1

\* The candle that contains expires_at, and every later one.
MustExpire(t, i) == i >= t.created_at + Expiry

Candle(i) == candles[i + 1]

\* Mutation: the bootstrap lists the open trade only.
MonitoredActive == {s \in SignalId : status[s] = "ACTIVE"}

\* The stored bootstrap: signals still PENDING or ACTIVE, oldest first.
Monitored == {s \in SignalId : status[s] \in {"PENDING", "ACTIVE"}}

Older(s, t) ==
    \/ terms[s].created_at < terms[t].created_at
    \/ /\ terms[s].created_at = terms[t].created_at
       /\ s[1] < t[1] \/ (s[1] = t[1] /\ s[2] < t[2])

Created == {s \in SignalId : status[s] # "ABSENT"}

LastSignalAt ==
    IF Created = {} THEN Null
    ELSE LET latest == CHOOSE s \in Created :
                          \A t \in Created : terms[t].created_at <= terms[s].created_at
         IN  terms[latest].created_at

\* The counted outcomes: what list_outcome_samples returns.
Samples == {sv \in SignalId \X Variant : outcome[sv[1]][sv[2]] # Null}

----------------------------------------------------------------------------
(* Commands, and what the Worker does with one. *)

Command(op, s, i, key, data) ==
    [operation |-> op, signal_id |-> s, at |-> i, key |-> key, data |-> data]

Allowed(c) ==
    CASE c.operation = "allocate_signal_id" -> TRUE
      [] c.operation = "create_signal"      -> CreateAllowed(c.signal_id, c.key)
      [] c.operation = "activate_signal"    -> ActivateAllowed(c.signal_id, c.key)
      [] c.operation = "transition_pending" -> TransitionAllowed(c.signal_id, c.key)
      [] c.operation = "close_track"        -> CloseAllowed(c.signal_id, c.data.variant, c.key)
      [] c.operation = "advance_checkpoint" -> AdvanceAllowed(c.key, c.at)
      [] c.operation = "apply_management_decision" -> ManagementAllowed(c.signal_id, c.key)
      [] c.operation = "enqueue_notification" -> c.key \notin outbox

\* Mutation: a repeated command is refused, not acknowledged.
DuplicateRefused(c) == c.operation \notin Operation \cup {"create_signal"}

\* What a command that changes nothing is answered with success for.
Redundant(c) ==
    CASE c.operation \in Operation -> Duplicate(c.key, c.operation)
      [] c.operation = "create_signal" -> status[c.signal_id] # "ABSENT" /\ c.key \in outbox
      [] OTHER -> TRUE

Accepted(c) == c.operation \notin RefusedOps /\ (Allowed(c) \/ Redundant(c))

Applies(c) ==
    \/ /\ c.operation = "allocate_signal_id"
       /\ AllocateSignalId(c.key)
    \/ /\ c.operation = "create_signal"
       /\ CreateSignal(c.signal_id, c.data, c.key)
    \/ /\ c.operation = "activate_signal"
       /\ ActivateSignal(c.signal_id, c.data.fill_price, c.at, c.key)
    \/ /\ c.operation = "transition_pending"
       /\ TransitionPending(c.signal_id, "EXPIRED", c.key)
    \/ /\ c.operation = "close_track"
       /\ CloseTrack(c.signal_id, c.data.variant, c.data.closing, c.data.payload, c.key)
    \/ /\ c.operation = "advance_checkpoint"
       /\ AdvanceCheckpoint(c.key, c.at)
    \/ /\ c.operation = "apply_management_decision"
       /\ ApplyManagement(c.signal_id, c.data, c.key)
    \/ /\ c.operation = "enqueue_notification"
       /\ EnqueueNotification(c.key)

\* A command the Worker executes changes the ledger or leaves it alone.
Executes(c) ==
    IF c.operation \notin RefusedOps /\ Allowed(c) THEN Applies(c) ELSE UNCHANGED ledgerVars

\* Mutation: the statistics leave the close itself out.
PreparedWithoutOwn(c) ==
    IF c.operation = "close_track" THEN [c EXCEPT !.data.payload = Samples] ELSE c

\* close_track computes its statistics from the outcomes stored just before it
\* is sent, with its own added.
Prepared(c) ==
    IF c.operation = "close_track"
    THEN [c EXCEPT !.data.payload = Samples \cup {<<c.signal_id, c.data.variant>>}]
    ELSE c

Enqueues(s, i, actions) ==
    [n \in 1..Len(actions) |->
        Command("enqueue_notification", s, i, Notice(s, i, actions[n]), Null)]

----------------------------------------------------------------------------
(* The run. Planning steps read the ledger and queue commands in todo; a   *)
(* command is sent before anything else happens in the run.                *)

Planning(phase) == run.phase = phase /\ run.todo = <<>>

\* The monitoring or creation step raised: the run goes on to record FAILED.
Failed == [Idle EXCEPT !.phase = "record", !.now = run.now, !.status = "FAILED"]

Start ==
    /\ run.phase = "idle"
    /\ run' = [Idle EXCEPT !.phase = "load", !.now = clock]
    /\ UNCHANGED <<ledgerVars, environment, health>>

\* In the order of creation, each once.
ListsMonitored(list) ==
    /\ \A m, n \in DOMAIN list : m < n => Older(list[m], list[n])
    /\ \A s \in Monitored : \E n \in DOMAIN list : list[n] = s

\* The bootstrap: one read of the pause flag, the open signals and the history.
Load ==
    /\ Planning("load")
    /\ \E n \in 0..Cardinality(Monitored) : \E list \in [1..n -> Monitored] :
          /\ ListsMonitored(list)
          /\ run' = [run EXCEPT !.phase = "collect",
                                !.paused = paused,
                                !.queue = list,
                                !.last = LastSignalAt,
                                !.active = \E s \in SignalId : status[s] = "ACTIVE"]
    /\ UNCHANGED <<ledgerVars, environment, health>>

\* The snapshot holds the last Window candles complete when it is collected,
\* which may be later than `now`.
FirstCollected == IF clock > Window THEN clock - Window ELSE 0

Collect ==
    /\ Planning("collect")
    /\ run' = [run EXCEPT !.phase = "entry", !.upto = clock, !.cursor = FirstCollected]
    /\ UNCHANGED <<ledgerVars, environment, health>>

Signal == Head(run.queue)
Terms == terms[Signal]
AtCandle == run.queue # <<>> /\ run.cursor < run.upto

\* Both engines refuse a candle that is not complete at the run's `now`.
Incomplete == run.cursor >= run.now

\* Mutation: the replay starts with the candle that contains created_at.
NextFromCreation ==
    LET last == checkpoint[LifecycleCheckpoint(Signal)]
    IN  IF last = Null THEN Terms.created_at ELSE last + 1

NextLifecycle ==
    LET last == checkpoint[LifecycleCheckpoint(Signal)]
    IN  IF last = Null THEN FirstSafeOpen(Terms) ELSE last + 1

\* Lifecycle replay of one candle, first half: validate the candle, and expire
\* or activate a PENDING signal.
Expires == status[Signal] = "PENDING" /\ MustExpire(Terms, run.cursor)

Activates ==
    /\ status[Signal] = "PENDING" /\ ~Expires
    /\ TouchesEntry(Terms, Candle(run.cursor))

ExpireCommand ==
    Command("transition_pending", Signal, run.cursor,
            CommandKey(Signal, run.cursor, "expire", ""), Null)

ActivateCommand ==
    Command("activate_signal", Signal, run.cursor,
            CommandKey(Signal, run.cursor, "activate", ""),
            [fill_price |-> ConservativeEntry(Terms)])

EntryActions ==
    IF Expires THEN <<"EXPIRED">> ELSE IF Activates THEN <<"ACTIVATED">> ELSE <<>>

EntryCommands ==
    IF Expires THEN <<ExpireCommand>> ELSE IF Activates THEN <<ActivateCommand>> ELSE <<>>

PlanEntry ==
    /\ Planning("entry") /\ AtCandle
    /\ \/ /\ Incomplete \/ run.cursor > NextLifecycle
          /\ run' = Failed
       \/ /\ ~Incomplete /\ run.cursor < NextLifecycle
          /\ run' = [run EXCEPT !.phase = "manage"]
       \/ /\ ~Incomplete /\ run.cursor = NextLifecycle
          /\ run' = [run EXCEPT !.phase = "exit", !.actions = EntryActions,
                                !.todo = EntryCommands]
    /\ UNCHANGED <<ledgerVars, environment, health>>

\* Lifecycle replay, second half: the exits of the open tracks, FIXED first,
\* then the checkpoint, then the notifications of what happened.
OnActivationCandle == trade[Signal].activated_at = run.cursor

Leaves(v) ==
    /\ TrackActive(Signal, v)
    /\ Exits(Terms, track[Signal][v], Candle(run.cursor), OnActivationCandle)

Exiting ==
    CASE Leaves("FIXED") /\ Leaves("MANAGED") -> <<"FIXED", "MANAGED">>
      [] Leaves("FIXED") /\ ~Leaves("MANAGED") -> <<"FIXED">>
      [] ~Leaves("FIXED") /\ Leaves("MANAGED") -> <<"MANAGED">>
      [] OTHER -> <<>>

CloseCommand(v) ==
    LET closing == ExitClosing(Terms, trade[Signal].fill_price, track[Signal][v],
                               Candle(run.cursor), OnActivationCandle)
    IN  Command("close_track", Signal, run.cursor,
                CommandKey(Signal, run.cursor, v, closing.close_event),
                [variant |-> v, closing |-> closing, payload |-> {}])

ExitActions ==
    LET action(v) == ExitAction(Terms, track[Signal][v], Candle(run.cursor))
    IN  IF Len(Exiting) = 2 /\ action("FIXED") = action("MANAGED") THEN <<action("FIXED")>>
        ELSE [n \in 1..Len(Exiting) |-> action(Exiting[n])]

CloseCommands == [n \in 1..Len(Exiting) |-> CloseCommand(Exiting[n])]

MarkResolved ==
    <<Command("advance_checkpoint", Signal, run.cursor, LifecycleCheckpoint(Signal), Null)>>

AnnounceCandle == Enqueues(Signal, run.cursor, run.actions \o ExitActions)

\* Mutation: the owner is told before the tracks are closed.
AnnounceFirst == AnnounceCandle \o CloseCommands \o MarkResolved

ExitCommands == CloseCommands \o MarkResolved \o AnnounceCandle

PlanExit ==
    /\ Planning("exit")
    /\ run' = [run EXCEPT !.phase = "manage", !.actions = <<>>, !.todo = ExitCommands]
    /\ UNCHANGED <<ledgerVars, environment, health>>

\* Management of the candle just resolved, while the managed track is open.
NextManaged ==
    LET last == checkpoint[ManagementCheckpoint(Signal)]
    IN  IF last = Null THEN trade[Signal].activated_at ELSE last + 1

Hold == [changes_managed_result |-> FALSE, updated_stop |-> Null,
         remaining_fraction_after |-> Null, realized_r_after |-> Null]

Decision(t, filled, row, c, activationCandle) ==
    CASE Protects(t, filled.fill_price, row, c, activationCandle) ->
           [Hold EXCEPT !.changes_managed_result = TRUE,
                        !.updated_stop = BreakEvenStop(t, filled.fill_price)]
      [] TakesPartial(t, filled.fill_price, row, c, activationCandle) ->
           [Hold EXCEPT !.changes_managed_result = TRUE,
                        !.remaining_fraction_after = WholePosition - HalfPosition,
                        !.realized_r_after =
                            row.realized_r + HalfPosition * Net(t, filled.fill_price, c.close)]
      [] OTHER -> Hold

DecisionAction(d) ==
    IF d.updated_stop # Null THEN "MOVE_STOP_TO_BREAK_EVEN" ELSE "TAKE_PARTIAL_PROFIT"

DecisionExists(k) == \E d \in decision : d.dedupe_key = k

Decide(i) ==
    LET k == CommandKey(Signal, i, "management", "")
        d == Decision(Terms, trade[Signal], track[Signal]["MANAGED"], Candle(i), OnActivationCandle)
        mark == Command("advance_checkpoint", Signal, i, ManagementCheckpoint(Signal), Null)
    IN  IF DecisionExists(k) THEN <<mark>>
        ELSE <<Command("apply_management_decision", Signal, i, k, d), mark>>
             \o IF d.changes_managed_result
                THEN Enqueues(Signal, i, <<DecisionAction(d)>>) ELSE <<>>

Managing == status[Signal] = "ACTIVE" /\ TrackActive(Signal, "MANAGED")

PlanManagement ==
    /\ Planning("manage")
    /\ \/ /\ Managing /\ run.cursor > NextManaged
          /\ run' = Failed
       \/ /\ Managing /\ run.cursor = NextManaged
          /\ run' = [run EXCEPT !.phase = "entry", !.cursor = @ + 1, !.todo = Decide(run.cursor)]
       \/ /\ Managing => run.cursor < NextManaged
          /\ run' = [run EXCEPT !.phase = "entry", !.cursor = @ + 1]
    /\ UNCHANGED <<ledgerVars, environment, health>>

\* All candles of one signal are replayed: on to the next monitored signal.
EndSignal ==
    /\ Planning("entry") /\ run.queue # <<>> /\ run.cursor = run.upto
    /\ run' = [run EXCEPT !.active = @ \/ TrackActive(Signal, "MANAGED"),
                          !.queue = Tail(@),
                          !.cursor = IF run.upto > Window THEN run.upto - Window ELSE 0]
    /\ UNCHANGED <<ledgerVars, environment, health>>

\* Mutation: an open trade does not keep new signals out.
AdmissibleBesideTrade ==
    /\ ~run.paused
    /\ run.last # Null => run.now - run.last >= Cooldown

\* After monitoring: unless paused at bootstrap, evaluate the market and admit
\* at most one new signal.  Analysis and news are the environment's choice; the
\* gates that protect the ledger are the open trade and the cooldown.
Admissible ==
    /\ ~run.paused
    /\ ~run.active
    /\ run.last # Null => run.now - run.last >= Cooldown

NewTerms(setup, aligned) ==
    [side |-> setup.side, entry_low |-> setup.entry_low, entry_high |-> setup.entry_high,
     original_stop |-> setup.original_stop, target |-> setup.target, cost |-> setup.cost,
     created_at |-> run.now, aligned |-> aligned]

Evaluate ==
    /\ Planning("entry") /\ run.queue = <<>>
    /\ \/ run' = [run EXCEPT !.phase = "report"]
       \/ /\ Admissible
          /\ sequence[DateOf[run.now]] < MaxSequence
          /\ \E setup \in Setup, aligned \in StartsAligned :
               run' = [run EXCEPT !.phase = "report",
                         !.todo = <<Command("allocate_signal_id", Null, run.now, DateOf[run.now],
                                            NewTerms(setup, aligned))>>]
    /\ UNCHANGED <<ledgerVars, environment, health>>

\* create_signal also stores the SIGNAL message; enqueueing it again is ignored.
CreateCommands(s, t) ==
    <<Command("create_signal", s, run.now, CreatedNotice(s), t),
      Command("enqueue_notification", s, run.now, CreatedNotice(s), Null)>>

\* Reports are due only in a run whose own start minute is local midnight.
Report ==
    /\ Planning("report")
    /\ run' = [run EXCEPT !.phase = "record",
                 !.todo = IF ~run.paused /\ run.now \in ReportMinutes
                          THEN Enqueues(Null, run.now, <<"REPORT">>) ELSE <<>>]
    /\ UNCHANGED <<ledgerVars, environment, health>>

Record ==
    /\ Planning("record")
    /\ health' = run.status
    /\ run' = Idle
    /\ UNCHANGED <<ledgerVars, environment>>

----------------------------------------------------------------------------
(* Sending the next command. *)

AfterReply(c) ==
    IF c.operation = "allocate_signal_id"
    THEN [run EXCEPT !.todo = CreateCommands(<<c.key, sequence'[c.key]>>, c.data)]
    ELSE [run EXCEPT !.todo = Tail(@)]

Send ==
    /\ run.todo # <<>>
    /\ LET c == Prepared(Head(run.todo))
       IN  /\ Executes(c)
           /\ run' = IF Accepted(c) THEN AfterReply(c) ELSE Failed
    /\ UNCHANGED <<environment, health>>

Fault == faults < MaxFaults /\ faults' = faults + 1

\* No answer within the client's timeout: the run fails, and the command did
\* or did not take effect.
LoseReply ==
    /\ run.todo # <<>> /\ Fault
    /\ LET c == Prepared(Head(run.todo)) IN Executes(c) \/ UNCHANGED ledgerVars
    /\ run' = Failed
    /\ UNCHANGED <<clock, candles, paused, late, health, toggles>>

\* No answer, and the Worker is still busy with the command.
GiveUp ==
    /\ run.todo # <<>> /\ Fault
    /\ Head(run.todo).operation \in LateOps
    /\ late' = late \cup {Prepared(Head(run.todo))}
    /\ run' = Failed
    /\ UNCHANGED <<ledgerVars, clock, candles, paused, health, toggles>>

ArriveLate ==
    \E c \in late :
        /\ Executes(c)
        /\ late' = late \ {c}
        /\ UNCHANGED <<clock, candles, paused, run, health, faults, toggles>>

\* A read fails, the market snapshot is rejected, or the health row is lost.
ReadFails ==
    /\ run.phase \notin {"idle", "record"} /\ run.todo = <<>> /\ Fault
    /\ run' = Failed
    /\ UNCHANGED <<ledgerVars, clock, candles, paused, late, health, toggles>>

\* The job is killed: workflow timeout, runner lost, cancelled by hand.
Kill ==
    /\ run.phase # "idle" /\ Fault
    /\ run' = Idle
    /\ UNCHANGED <<ledgerVars, clock, candles, paused, late, health, toggles>>

Tick ==
    /\ clock < MaxMinute
    /\ \E c \in Candles[clock] : candles' = Append(candles, c)
    /\ clock' = clock + 1
    /\ UNCHANGED <<ledgerVars, paused, run, late, health, faults, toggles>>

\* /pause and /resume, handled by the Worker at any time.
TogglePause ==
    /\ toggles < MaxToggles
    /\ toggles' = toggles + 1
    /\ paused' = ~paused
    /\ UNCHANGED <<ledgerVars, clock, candles, run, late, health, faults>>

RunStep ==
    \/ Start \/ Load \/ Collect
    \/ PlanEntry \/ PlanExit \/ PlanManagement \/ EndSignal
    \/ Evaluate \/ Report \/ Record
    \/ Send

EngineNext ==
    \/ RunStep
    \/ LoseReply \/ GiveUp \/ ArriveLate \/ ReadFails \/ Kill
    \/ Tick \/ TogglePause

EngineSpec == EngineInit /\ [][EngineNext]_vars
============================================================================
