---------------------------- MODULE SqliteStore ----------------------------
(***************************************************************************)
(* persistence/sqlite_repository.py: the store the Python tests run the    *)
(* engine against, "using the same schema semantics as D1".  Production    *)
(* runs on the commands of Ledger.tla, so what a test shows is worth as    *)
(* much as the two stores agree.                                           *)
(*                                                                         *)
(* There are no receipts here.  Each command is one BEGIN IMMEDIATE        *)
(* transaction, hence one action, and what refuses it is its own read of   *)
(* the status and the UNIQUE columns it writes.  The row_version tests     *)
(* after that read cannot fail: nothing else writes between the two.       *)
(***************************************************************************)
EXTENDS Integers, FiniteSets

CONSTANTS
    SignalId, BusinessDate, DedupeKey, NoticeKey, CheckpointKey, Time, Decimal,
    Term, Closing, Adjustment, Payload, MaxSequence, Null,   \* as in Ledger.tla
    KeyOp,            \* the operation whose command a key names
    CreationNotice,   \* the key of the SIGNAL message of a signal
    AlertKey,         \* the keys of all other messages
    ExtraKey,         \* the keys of append_trade_event
    ExtraEvent,       \* the event types it is called with
    SettingKey,       \* names of settings
    Sensitive,        \* those that name a secret or an identity
    SettingValue

\* A key is made from the name of its operation (lifecycle/engine.py 249-251,
\* management/engine.py 64): no two operations share one.
ASSUME KeyAssumption ==
    /\ KeyOp \in [DedupeKey ->
           {"activate_signal", "transition_pending", "close_track", "apply_management_decision"}]
    /\ ExtraKey \cap DedupeKey = {}
ASSUME NoticeAssumption ==
    /\ CreationNotice \in [SignalId -> NoticeKey \ AlertKey] /\ AlertKey \subseteq NoticeKey
    /\ \A s, t \in SignalId : CreationNotice[s] = CreationNotice[t] => s = t

VARIABLES
    sequence, status, terms, trade, track, outcome, snapshot, decision, checkpoint,
    event,       \* trade_events: the key of a row is dedupe_key with a suffix, part
    outbox,      \* the keys of the rows enqueue_alert inserted
    setting      \* bot_settings

rows == <<sequence, status, terms, trade, track, outcome, snapshot, decision>>
sqliteVars == <<rows, checkpoint, event, outbox, setting>>

\* The suffixes of the keys that the commands both stores have leave behind.
CommandPart == {"", "reason", "closed", "event"}

\* No row of another table tells D1's receipts, but every command leaves an event.
Receipts == {[dedupe_key |-> e.dedupe_key, operation |-> KeyOp[e.dedupe_key]] :
                e \in {x \in event : x.part \in CommandPart}}

AsLedgerEvent(e) == [signal_id |-> e.signal_id, variant |-> e.variant,
                     event_type |-> e.event_type, dedupe_key |-> e.dedupe_key]

\* append_trade_event has no counterpart in D1.
LedgerEvents == {AsLedgerEvent(e) : e \in {x \in event : x.part # "extra"}}

\* create_signal of the Worker stores the SIGNAL message with the signal,
\* create_signal here does not.
Notices == outbox \cup {CreationNotice[s] : s \in {t \in SignalId : status[t] # "ABSENT"}}

\* The refinement mapping.
D1 == INSTANCE Ledger WITH receipt <- Receipts, event <- LedgerEvents, outbox <- Notices

\* The column types of the migrations, which both stores create their tables from.
ASSUME SchemaAssumption ==
    /\ D1!TimeAssumption /\ D1!DecimalAssumption /\ D1!TermAssumption /\ D1!ClosingAssumption
    /\ D1!AdjustmentAssumption /\ D1!MaxSequenceAssumption /\ D1!NullAssumption

TrackActive(s, v) == track[s][v] # Null /\ track[s][v].track_status = "ACTIVE"

\* _insert_event; trade_events.dedupe_key is UNIQUE.
InsertEvent(s, v, type, k, part) ==
    [signal_id |-> s, variant |-> v, event_type |-> type, dedupe_key |-> k, part |-> part]

Unique(k, part) == \A e \in event : e.dedupe_key = k => e.part # part

\* assert_transition(current, new), on the row _signal_row found.
AssertTransition(s, new) ==
    /\ status[s] = "PENDING" => new \in {"ACTIVE", "EXPIRED", "CANCELLED"}
    /\ status[s] = "ACTIVE" => new = "CLOSED"
    /\ status[s] \in {"PENDING", "ACTIVE"}

Init ==
    /\ sequence = [d \in BusinessDate |-> 0]
    /\ status = [s \in SignalId |-> "ABSENT"]
    /\ terms = [s \in SignalId |-> Null]
    /\ trade = [s \in SignalId |-> Null]
    /\ track = [s \in SignalId |-> [v \in D1!Variant |-> Null]]
    /\ outcome = [s \in SignalId |-> [v \in D1!Variant |-> Null]]
    /\ snapshot = [s \in SignalId |-> [v \in D1!Variant |-> Null]]
    /\ decision = {} /\ event = {} /\ outbox = {}
    /\ checkpoint = [k \in CheckpointKey |-> Null]
    /\ setting = [k \in SettingKey |-> Null]

----------------------------------------------------------------------------
(* The commands both stores have. *)

AllocateSignalId(d) ==
    /\ sequence[d] < MaxSequence
    /\ sequence' = [sequence EXCEPT ![d] = @ + 1]
    /\ UNCHANGED <<status, terms, trade, track, outcome, snapshot, decision,
                   checkpoint, event, outbox, setting>>

CreateSignal(s, t) ==
    /\ status[s] = "ABSENT"
    /\ status' = [status EXCEPT ![s] = "PENDING"]
    /\ terms' = [terms EXCEPT ![s] = t]
    /\ event' = event \cup {InsertEvent(s, Null, "SIGNAL_CREATED", Null, "created")}
    /\ UNCHANGED <<sequence, trade, track, outcome, snapshot, decision,
                   checkpoint, outbox, setting>>

\* Mutation: the status is not read first, the UPDATE takes any row.
ActivateWithoutRead(s, k) ==
    /\ status[s] # "ABSENT" /\ trade[s] = Null /\ Unique(k, "")
    /\ \A other \in SignalId : status[other] # "ACTIVE"

\* The read, uq_one_active_btc_signal, and the keys of trades and trade_events.
ActivateAllowed(s, k) ==
    /\ AssertTransition(s, "ACTIVE")
    /\ \A other \in SignalId : status[other] # "ACTIVE"
    /\ trade[s] = Null
    /\ Unique(k, "")

ActivateSignal(s, fill, at, k) ==
    /\ ActivateAllowed(s, k)
    /\ status' = [status EXCEPT ![s] = "ACTIVE"]
    /\ trade' = [trade EXCEPT ![s] =
           [activated_at |-> at, fill_price |-> fill, original_stop |-> terms[s].original_stop]]
    /\ track' = [track EXCEPT ![s] = [v \in D1!Variant |->
           [track_status |-> "ACTIVE", current_stop |-> terms[s].original_stop,
            remaining_fraction |-> D1!Whole, realized_r |-> 0]]]
    /\ event' = event \cup {InsertEvent(s, Null, "ENTRY_ACTIVATED", k, "")}
    /\ UNCHANGED <<sequence, terms, outcome, snapshot, decision, checkpoint, outbox, setting>>

TransitionAllowed(s, to, k) == AssertTransition(s, to) /\ Unique(k, "")

TransitionPending(s, to, k) ==
    /\ TransitionAllowed(s, to, k)
    /\ status' = [status EXCEPT ![s] = to]
    /\ event' = event \cup {InsertEvent(s, Null,
           IF to = "EXPIRED" THEN "ENTRY_EXPIRED" ELSE "SIGNAL_CANCELLED", k, "")}
    /\ UNCHANGED <<sequence, terms, trade, track, outcome, snapshot, decision,
                   checkpoint, outbox, setting>>

\* outcomes is UNIQUE by track, and so is the key of statistics_snapshots.  The
\* MANAGED track closes its signal, after a second read of the status.
CloseAllowed(s, v, k) ==
    /\ TrackActive(s, v)
    /\ outcome[s][v] = Null /\ snapshot[s][v] = Null
    /\ Unique(k, "reason") /\ Unique(k, "closed")
    /\ v = "MANAGED" => AssertTransition(s, "CLOSED")

CloseTrack(s, v, closing, payload, k) ==
    /\ CloseAllowed(s, v, k)
    /\ track' = [track EXCEPT ![s][v].track_status = "CLOSED",
                              ![s][v].realized_r = closing.result_r]
    /\ outcome' = [outcome EXCEPT ![s][v] = closing]
    /\ snapshot' = [snapshot EXCEPT ![s][v] = payload]
    /\ event' = event \cup {InsertEvent(s, v, closing.close_event, k, "reason"),
                            InsertEvent(s, v, "CLOSED", k, "closed")}
    /\ status' = IF v = "MANAGED" THEN [status EXCEPT ![s] = "CLOSED"] ELSE status
    /\ UNCHANGED <<sequence, terms, trade, decision, checkpoint, outbox, setting>>

AdvanceCheckpoint(key, at) ==
    /\ checkpoint[key] # Null => at > checkpoint[key]
    /\ checkpoint' = [checkpoint EXCEPT ![key] = at]
    /\ UNCHANGED <<rows, event, outbox, setting>>

\* management_decisions.dedupe_key is UNIQUE.
ManagementAllowed(s, k) ==
    /\ TrackActive(s, "MANAGED")
    /\ \A d \in decision : d.dedupe_key # k
    /\ Unique(k, "event")

\* Mutation: the columns a HOLD leaves empty are written all the same.
ApplyEveryDecision(s, a, k) ==
    /\ ManagementAllowed(s, k)
    /\ track' = [track EXCEPT ![s]["MANAGED"].current_stop = a.updated_stop]
    /\ decision' = decision \cup {[signal_id |-> s, dedupe_key |-> k, adjustment |-> a]}
    /\ event' = event \cup {InsertEvent(s, "MANAGED", "MANAGEMENT_DECISION", k, "event")}
    /\ UNCHANGED <<sequence, status, terms, trade, outcome, snapshot, checkpoint, outbox, setting>>

ApplyManagement(s, a, k) ==
    /\ ManagementAllowed(s, k)
    /\ track' = IF ~a.changes_managed_result THEN track
                ELSE [track EXCEPT
                        ![s]["MANAGED"].current_stop = D1!Coalesce(a.updated_stop, @),
                        ![s]["MANAGED"].remaining_fraction =
                            D1!Coalesce(a.remaining_fraction_after, @),
                        ![s]["MANAGED"].realized_r = D1!Coalesce(a.realized_r_after, @)]
    /\ decision' = decision \cup {[signal_id |-> s, dedupe_key |-> k, adjustment |-> a]}
    /\ event' = event \cup {InsertEvent(s, "MANAGED", "MANAGEMENT_DECISION", k, "event")}
    /\ UNCHANGED <<sequence, status, terms, trade, outcome, snapshot, checkpoint, outbox, setting>>

EnqueueAlert(n) ==
    /\ n \notin outbox
    /\ outbox' = outbox \cup {n}
    /\ UNCHANGED <<rows, checkpoint, event, setting>>

----------------------------------------------------------------------------
(* The two that D1 has no command for. *)

\* ValueError for the events a life-cycle operation owns.
AppendableEvent ==
    D1!EventType \ {"SIGNAL_CREATED", "ENTRY_ACTIVATED", "ENTRY_EXPIRED", "SIGNAL_CANCELLED", "CLOSED"}

AppendTradeEvent(s, v, type, k) ==
    /\ type \in AppendableEvent
    /\ TrackActive(s, v)
    /\ Unique(k, "extra")
    /\ event' = event \cup {InsertEvent(s, v, type, k, "extra")}
    /\ UNCHANGED <<rows, checkpoint, outbox, setting>>

PutSetting(key, value) ==
    /\ key \notin Sensitive
    /\ setting' = [setting EXCEPT ![key] = value]
    /\ UNCHANGED <<rows, checkpoint, event, outbox>>

----------------------------------------------------------------------------
KeysOf(op) == {k \in DedupeKey : KeyOp[k] = op}

Allocate == \E d \in BusinessDate : AllocateSignalId(d)
Create   == \E s \in SignalId, t \in Term : CreateSignal(s, t)
Activate == \E s \in SignalId, fill \in Decimal, at \in Time, k \in KeysOf("activate_signal") :
                ActivateSignal(s, fill, at, k)
Expire   == \E s \in SignalId, to \in {"EXPIRED", "CANCELLED"}, k \in KeysOf("transition_pending") :
                TransitionPending(s, to, k)
Close    == \E s \in SignalId, v \in D1!Variant, closing \in Closing, payload \in Payload,
               k \in KeysOf("close_track") : CloseTrack(s, v, closing, payload, k)
Advance  == \E key \in CheckpointKey, at \in Time : AdvanceCheckpoint(key, at)
Manage   == \E s \in SignalId, a \in Adjustment, k \in KeysOf("apply_management_decision") :
                ApplyManagement(s, a, k)
Enqueue  == \E n \in AlertKey : EnqueueAlert(n)
Append   == \E s \in SignalId, v \in D1!Variant, type \in ExtraEvent, k \in ExtraKey :
                AppendTradeEvent(s, v, type, k)
Put      == \E key \in SettingKey, value \in SettingValue : PutSetting(key, value)

Next == \/ Allocate \/ Create \/ Activate \/ Expire \/ Close \/ Advance \/ Manage \/ Enqueue
        \/ Append \/ Put

Spec == Init /\ [][Next]_sqliteVars

----------------------------------------------------------------------------
(* Properties. *)

\* Whatever a test drives the SQLite store through, D1 could have been driven
\* through: every transaction writes what the Worker's batch would have written,
\* and is refused where the batch would have failed.
ImplementsLedger == D1!Spec

\* The converse: the SQLite store takes every command D1 would take.  Without
\* receipts this rests on the UNIQUE columns alone: a repeated command must find
\* its own event in the way.
TakesWhatD1Takes ==
    \A s \in SignalId, k \in DedupeKey :
        /\ KeyOp[k] = "activate_signal" => (D1!ActivateAllowed(s, k) <=> ActivateAllowed(s, k))
        /\ KeyOp[k] = "transition_pending" =>
              \A to \in {"EXPIRED", "CANCELLED"} :
                  D1!TransitionAllowed(s, k) <=> TransitionAllowed(s, to, k)
        /\ KeyOp[k] = "close_track" =>
              \A v \in D1!Variant : D1!CloseAllowed(s, v, k) <=> CloseAllowed(s, v, k)
        /\ KeyOp[k] = "apply_management_decision" =>
              (D1!ManagementAllowed(s, k) <=> ManagementAllowed(s, k))
============================================================================
