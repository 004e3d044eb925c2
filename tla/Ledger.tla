------------------------------- MODULE Ledger -------------------------------
(***************************************************************************)
(* The durable trade ledger: the D1 tables of migrations/0001 and 0004 and *)
(* the repository commands of worker/src/persistence/runtime-repository.ts *)
(* that write them.  Every command is one D1 batch, hence one action; its  *)
(* guard collects the conditions under which no statement of the batch     *)
(* fails (primary keys, unique indexes, the changed-rows assertions).  A   *)
(* command whose guard is false leaves every table as it was: it is either *)
(* a duplicate (its receipt exists) or refused.                            *)
(*                                                                         *)
(* The specification is open: any command may arrive with any arguments,   *)
(* in any order and any number of times.  PaperEngine.tla composes it with *)
(* the run that actually issues the commands.                              *)
(***************************************************************************)
EXTENDS Integers, FiniteSets

CONSTANTS
    SignalId,        \* primary keys of signals
    BusinessDate,    \* dates that own a signal counter
    DedupeKey,       \* keys of mutating commands, chosen by the client
    NoticeKey,       \* dedupe keys of outbox rows
    CheckpointKey,   \* keys of processing checkpoints
    Time,            \* instants, ordered as integers
    Decimal,         \* decimal texts: prices, fractions (in halves) and R
    Term,            \* the immutable terms a signal can carry
    Closing,         \* the results a track can be closed with
    Adjustment,      \* the management decisions a client can send
    Payload,         \* the statistics payloads a client can send
    MaxSequence,     \* bound on a daily counter
    Null             \* SQL NULL, and the absence of a row

Variant == {"FIXED", "MANAGED"}
OutcomeResult == {"WIN", "LOSS", "BREAK_EVEN", "EARLY_EXIT"}
CloseEvent == {"TP1_HIT", "TP2_HIT", "TP3_HIT", "STOP_LOSS_HIT", "BREAK_EVEN", "EARLY_EXIT"}
Status == {"ABSENT", "PENDING", "ACTIVE", "EXPIRED", "CANCELLED", "CLOSED"}
Operation == {"activate_signal", "transition_pending", "close_track", "apply_management_decision"}

\* The whole position, remaining_fraction '1', counted in halves.
Whole == 2

TradeRow == [activated_at : Time, fill_price : Decimal, original_stop : Decimal]
TrackRow == [track_status : {"ACTIVE", "CLOSED"}, current_stop : Decimal,
             remaining_fraction : Decimal, realized_r : Decimal]
EventType == CloseEvent \cup
    {"SIGNAL_CREATED", "ENTRY_ACTIVATED", "ENTRY_EXPIRED", "SIGNAL_CANCELLED",
     "CLOSED", "MANAGEMENT_DECISION"}
EventRow == [signal_id : SignalId, variant : Variant \cup {Null},
             event_type : EventType, dedupe_key : DedupeKey \cup {Null}]
DecisionRow == [signal_id : SignalId, dedupe_key : DedupeKey,
                adjustment : Adjustment]

\* Column types: instants and decimals are compared and added as integers.
ASSUME TimeAssumption == Time \subseteq Int
ASSUME DecimalAssumption == Decimal \subseteq Int /\ {0, Whole} \subseteq Decimal
ASSUME TermAssumption == \A t \in Term : t.original_stop \in Decimal
ASSUME ClosingAssumption ==
    Closing \subseteq [result : OutcomeResult, result_r : Decimal, close_event : CloseEvent]
ASSUME AdjustmentAssumption ==
    Adjustment \subseteq [changes_managed_result : BOOLEAN,
                         updated_stop : Decimal \cup {Null},
                         remaining_fraction_after : Decimal \cup {Null},
                         realized_r_after : Decimal \cup {Null}]
ASSUME MaxSequenceAssumption == MaxSequence \in Nat
\* NULL is a value of no column that is declared NOT NULL.
ASSUME NullAssumption ==
    /\ Null \notin Term
    /\ Null \notin TradeRow
    /\ Null \notin TrackRow
    /\ Null \notin Closing
    /\ Null \notin Payload
    /\ Null \notin Time
    /\ Null \notin Decimal
    /\ Null \notin DedupeKey
    /\ Null \notin Variant

VARIABLES
    sequence,     \* signal_id_counters: the last sequence of each date
    status,       \* signals.lifecycle_status, "ABSENT" where there is no row
    terms,        \* the other columns of signals, and signal_targets
    trade,        \* trades: the activation snapshot
    track,        \* trade_tracks, by signal and variant
    outcome,      \* outcomes, by signal and variant
    snapshot,     \* statistics_snapshots: the payload of each, by signal and variant
    decision,     \* management_decisions
    event,        \* trade_events
    receipt,      \* runtime_mutations
    checkpoint,   \* processing_checkpoints.last_processed_at
    outbox        \* the dedupe keys of the rows of outbox

tradeVars == <<status, terms, trade, track, outcome, snapshot, decision, event, receipt>>
ledgerVars == <<sequence, tradeVars, checkpoint, outbox>>

Init ==
    /\ sequence = [d \in BusinessDate |-> 0]
    /\ status = [s \in SignalId |-> "ABSENT"]
    /\ terms = [s \in SignalId |-> Null]
    /\ trade = [s \in SignalId |-> Null]
    /\ track = [s \in SignalId |-> [v \in Variant |-> Null]]
    /\ outcome = [s \in SignalId |-> [v \in Variant |-> Null]]
    /\ snapshot = [s \in SignalId |-> [v \in Variant |-> Null]]
    /\ decision = {}
    /\ event = {}
    /\ receipt = {}
    /\ checkpoint = [k \in CheckpointKey |-> Null]
    /\ outbox = {}

----------------------------------------------------------------------------
(* Receipts: runtime_mutations makes a mutating command take effect once.  *)

Receipt(k, op) == [dedupe_key |-> k, operation |-> op]

\* A receipt under another operation raises "dedupe collision": not a duplicate.
Duplicate(k, op) == Receipt(k, op) \in receipt

\* The first statement of every batch inserts the receipt: a used key fails it.
KeyUnused(k) == \A op \in Operation : Receipt(k, op) \notin receipt

TrackActive(s, v) == track[s][v] # Null /\ track[s][v].track_status = "ACTIVE"

\* Mutation: the variant column is left NULL.
EventWithoutVariant(s, v, type, k) ==
    [signal_id |-> s, variant |-> Null, event_type |-> type, dedupe_key |-> k]

Event(s, v, type, k) ==
    [signal_id |-> s, variant |-> v, event_type |-> type, dedupe_key |-> k]


----------------------------------------------------------------------------
(* The commands. *)

\* One upsert per allocation: an identifier handed out is never handed out
\* again, whether or not the caller goes on to create its signal.
AllocateSignalId(d) ==
    /\ sequence[d] < MaxSequence
    /\ sequence' = [sequence EXCEPT ![d] = @ + 1]
    /\ UNCHANGED <<tradeVars, checkpoint, outbox>>

\* Mutation: INSERT OR REPLACE.
CreateOverwrites(s, notice) == notice \notin outbox

\* The signal, its creation event and the SIGNAL message are one batch.
CreateAllowed(s, notice) == status[s] = "ABSENT" /\ notice \notin outbox

CreateSignal(s, t, notice) ==
    /\ CreateAllowed(s, notice)
    /\ status' = [status EXCEPT ![s] = "PENDING"]
    /\ terms' = [terms EXCEPT ![s] = t]
    /\ event' = event \cup {Event(s, Null, "SIGNAL_CREATED", Null)}
    /\ outbox' = outbox \cup {notice}
    /\ UNCHANGED <<sequence, trade, track, outcome, snapshot, decision, receipt, checkpoint>>

\* uq_one_active_btc_signal refuses a second ACTIVE row.
ActivateAllowed(s, k) ==
    /\ KeyUnused(k)
    /\ status[s] = "PENDING"
    /\ \A other \in SignalId : status[other] # "ACTIVE"

ActivateSignal(s, fill, at, k) ==
    /\ ActivateAllowed(s, k)
    /\ receipt' = receipt \cup {Receipt(k, "activate_signal")}
    /\ status' = [status EXCEPT ![s] = "ACTIVE"]
    /\ trade' = [trade EXCEPT ![s] =
           [activated_at |-> at, fill_price |-> fill, original_stop |-> terms[s].original_stop]]
    /\ track' = [track EXCEPT ![s] = [v \in Variant |->
           [track_status |-> "ACTIVE", current_stop |-> terms[s].original_stop,
            remaining_fraction |-> Whole, realized_r |-> 0]]]
    /\ event' = event \cup {Event(s, Null, "ENTRY_ACTIVATED", k)}
    /\ UNCHANGED <<sequence, terms, outcome, snapshot, decision, checkpoint, outbox>>

\* Mutation: an ACTIVE signal can expire, too.
TransitionOfActive(s, k) == KeyUnused(k) /\ status[s] \in {"PENDING", "ACTIVE"}

TransitionAllowed(s, k) == KeyUnused(k) /\ status[s] = "PENDING"

TransitionPending(s, to, k) ==
    /\ TransitionAllowed(s, k)
    /\ receipt' = receipt \cup {Receipt(k, "transition_pending")}
    /\ status' = [status EXCEPT ![s] = to]
    /\ event' = event \cup
           {Event(s, Null, IF to = "EXPIRED" THEN "ENTRY_EXPIRED" ELSE "SIGNAL_CANCELLED", k)}
    /\ UNCHANGED <<sequence, terms, trade, track, outcome, snapshot, decision, checkpoint, outbox>>

\* Mutation: the receipt is not the batch's first statement.
CloseWithoutReceipt(s, v, k) == TrackActive(s, v) /\ (v = "MANAGED" => status[s] = "ACTIVE")

\* Closing the MANAGED track closes the signal; the FIXED track leaves the
\* status alone.  The client computed the result and the statistics payload.
CloseAllowed(s, v, k) ==
    /\ KeyUnused(k)
    /\ TrackActive(s, v)
    /\ v = "MANAGED" => status[s] = "ACTIVE"

CloseTrack(s, v, closing, payload, k) ==
    /\ CloseAllowed(s, v, k)
    /\ receipt' = receipt \cup {Receipt(k, "close_track")}
    /\ track' = [track EXCEPT ![s][v].track_status = "CLOSED",
                             ![s][v].realized_r = closing.result_r]
    /\ outcome' = [outcome EXCEPT ![s][v] = closing]
    /\ snapshot' = [snapshot EXCEPT ![s][v] = payload]
    /\ event' = event \cup {Event(s, v, closing.close_event, k), Event(s, v, "CLOSED", k)}
    /\ status' = IF v = "MANAGED" THEN [status EXCEPT ![s] = "CLOSED"] ELSE status
    /\ UNCHANGED <<sequence, terms, trade, decision, checkpoint, outbox>>

\* Mutation: a plain upsert.
AdvanceAnywhere(key, at) == at \in Time

\* The upsert keeps the later of the two instants.
AdvanceAllowed(key, at) == checkpoint[key] # Null => at > checkpoint[key]

AdvanceCheckpoint(key, at) ==
    /\ AdvanceAllowed(key, at)
    /\ checkpoint' = [checkpoint EXCEPT ![key] = at]
    /\ UNCHANGED <<sequence, tradeVars, outbox>>

\* Mutation: the decision's NULLs are written.
CoalesceDropped(value, default) == value

\* COALESCE keeps a column for which the decision says NULL.
Coalesce(value, default) == IF value = Null THEN default ELSE value

\* Mutation: a closed track can be managed, too.
ManagementOfClosed(s, k) == KeyUnused(k) /\ track[s]["MANAGED"] # Null

ManagementAllowed(s, k) == KeyUnused(k) /\ TrackActive(s, "MANAGED")

\* Mutation: the UPDATE forgets variant = 'MANAGED'.
ApplyToBothTracks(s, a, k) ==
    /\ ManagementAllowed(s, k)
    /\ receipt' = receipt \cup {Receipt(k, "apply_management_decision")}
    /\ track' = IF ~a.changes_managed_result THEN track
                ELSE [track EXCEPT ![s] = [v \in Variant |->
                        [@[v] EXCEPT !.current_stop = Coalesce(a.updated_stop, @),
                                     !.realized_r = Coalesce(a.realized_r_after, @)]]]
    /\ decision' = decision \cup {[signal_id |-> s, dedupe_key |-> k, adjustment |-> a]}
    /\ event' = event \cup {Event(s, "MANAGED", "MANAGEMENT_DECISION", k)}
    /\ UNCHANGED <<sequence, status, terms, trade, outcome, snapshot, checkpoint, outbox>>

ApplyManagement(s, a, k) ==
    /\ ManagementAllowed(s, k)
    /\ receipt' = receipt \cup {Receipt(k, "apply_management_decision")}
    /\ track' = IF ~a.changes_managed_result THEN track
                ELSE [track EXCEPT
                        ![s]["MANAGED"].current_stop = Coalesce(a.updated_stop, @),
                        ![s]["MANAGED"].remaining_fraction =
                            Coalesce(a.remaining_fraction_after, @),
                        ![s]["MANAGED"].realized_r = Coalesce(a.realized_r_after, @)]
    /\ decision' = decision \cup {[signal_id |-> s, dedupe_key |-> k, adjustment |-> a]}
    /\ event' = event \cup {Event(s, "MANAGED", "MANAGEMENT_DECISION", k)}
    /\ UNCHANGED <<sequence, status, terms, trade, outcome, snapshot, checkpoint, outbox>>

\* INSERT OR IGNORE on the dedupe key; Outbox.tla follows the row from here.
EnqueueNotification(notice) ==
    /\ notice \notin outbox
    /\ outbox' = outbox \cup {notice}
    /\ UNCHANGED <<sequence, tradeVars, checkpoint>>
----------------------------------------------------------------------------
Allocate == \E d \in BusinessDate : AllocateSignalId(d)
Create   == \E s \in SignalId, t \in Term, n \in NoticeKey : CreateSignal(s, t, n)
Activate == \E s \in SignalId, fill \in Decimal, at \in Time, k \in DedupeKey :
                ActivateSignal(s, fill, at, k)
Expire   == \E s \in SignalId, to \in {"EXPIRED", "CANCELLED"}, k \in DedupeKey :
                TransitionPending(s, to, k)
Close    == \E s \in SignalId, v \in Variant, closing \in Closing, payload \in Payload,
               k \in DedupeKey : CloseTrack(s, v, closing, payload, k)
Advance  == \E key \in CheckpointKey, at \in Time : AdvanceCheckpoint(key, at)
Manage   == \E s \in SignalId, a \in Adjustment, k \in DedupeKey : ApplyManagement(s, a, k)
Enqueue  == \E n \in NoticeKey : EnqueueNotification(n)

Next == Allocate \/ Create \/ Activate \/ Expire \/ Close \/ Advance \/ Manage \/ Enqueue

Spec == Init /\ [][Next]_ledgerVars

----------------------------------------------------------------------------
(* Properties. *)

\* Every column holds values of its declared type (migrations/0001, 0004).
TypeOK ==
    /\ sequence \in [BusinessDate -> 0..MaxSequence]
    /\ status \in [SignalId -> Status]
    /\ terms \in [SignalId -> Term \cup {Null}]
    /\ trade \in [SignalId -> TradeRow \cup {Null}]
    /\ track \in [SignalId -> [Variant -> TrackRow \cup {Null}]]
    /\ outcome \in [SignalId -> [Variant -> Closing \cup {Null}]]
    /\ snapshot \in [SignalId -> [Variant -> Payload \cup {Null}]]
    /\ decision \subseteq DecisionRow
    /\ event \subseteq EventRow
    /\ receipt \subseteq [dedupe_key : DedupeKey, operation : Operation]
    /\ checkpoint \in [CheckpointKey -> Time \cup {Null}]
    /\ outbox \subseteq NoticeKey

\* The status of a signal and the rows that hang off it tell one story,
\* although no foreign key or check relates them: a signal has a trade and two
\* tracks exactly when it was activated, and it is ACTIVE exactly as long as
\* its MANAGED track is.
StatusMatchesRows ==
    \A s \in SignalId :
        /\ (status[s] = "ABSENT") <=> (terms[s] = Null)
        /\ (status[s] \in {"ACTIVE", "CLOSED"}) <=> (trade[s] # Null)
        /\ \A v \in Variant : (trade[s] # Null) <=> (track[s][v] # Null)
        /\ (status[s] = "ACTIVE") <=> TrackActive(s, "MANAGED")

\* A track that was opened is either still ACTIVE or has exactly its one
\* outcome, booked together with the statistics snapshot it triggered and with
\* the R the track row itself ended on.
ClosedTracksHaveOutcomes ==
    \A s \in SignalId, v \in Variant :
        /\ (outcome[s][v] # Null) <=> (track[s][v] # Null /\ ~TrackActive(s, v))
        /\ (outcome[s][v] # Null) <=> (snapshot[s][v] # Null)
        /\ outcome[s][v] # Null => track[s][v].realized_r = outcome[s][v].result_r

\* The FIXED track is the untouched baseline the statistics compare against:
\* whatever management decides, it keeps the original stop and, while it is
\* open, the whole position.
FixedTrackUntouched ==
    \A s \in SignalId :
        track[s]["FIXED"] # Null =>
            /\ track[s]["FIXED"].current_stop = terms[s].original_stop
            /\ track[s]["FIXED"].remaining_fraction = Whole
            /\ TrackActive(s, "FIXED") => track[s]["FIXED"].realized_r = 0

\* uq_one_active_btc_signal: one ACTIVE signal at a time.
OneActiveSignal ==
    \A s, t \in SignalId : status[s] = "ACTIVE" /\ status[t] = "ACTIVE" => s = t

\* Every command that moves a trade leaves one receipt of its own, and a key
\* is never used for a second one: this is what makes a retried command safe.
OneReceiptPerTradeChange ==
    [][ <<trade, track, outcome, decision>>' # <<trade, track, outcome, decision>>
          => \E k \in DedupeKey, op \in Operation :
                /\ KeyUnused(k)
                /\ receipt' = receipt \cup {Receipt(k, op)} ]_ledgerVars

\* What was booked stays booked: terms, activation snapshots, outcomes and
\* snapshots never change once written, a closed track's row is frozen, and
\* the audit tables only grow (the immutability triggers of migrations/0001).
AuditIsAppendOnly ==
    [][ /\ \A s \in SignalId :
              /\ terms[s] # Null => terms'[s] = terms[s]
              /\ trade[s] # Null => trade'[s] = trade[s]
              /\ \A v \in Variant :
                    outcome[s][v] # Null => /\ outcome'[s][v] = outcome[s][v]
                                            /\ snapshot'[s][v] = snapshot[s][v]
                                            /\ track'[s][v] = track[s][v]
        /\ event \subseteq event'
        /\ decision \subseteq decision'
        /\ receipt \subseteq receipt' ]_ledgerVars

\* checkpoint_time_monotonic: a late or repeated checkpoint cannot move time
\* back and make the engine replay candles it has booked.
CheckpointsMoveForward ==
    [][ \A key \in CheckpointKey :
          checkpoint[key] # Null => checkpoint'[key] # Null /\ checkpoint'[key] >= checkpoint[key]
      ]_ledgerVars

\* The ledger implements the domain's life cycle: the status column moves as
\* domain/state_machine.py allows, and its journal is the part of trade_events
\* that concerns the signal itself (a FIXED close is not a transition).
IsTransition(e) ==
    \/ e.event_type \in {"SIGNAL_CREATED", "ENTRY_ACTIVATED", "ENTRY_EXPIRED", "SIGNAL_CANCELLED"}
    \/ (e.event_type = "CLOSED" /\ e.variant = "MANAGED")

Journal ==
    {[signal_id |-> e.signal_id, event_type |-> e.event_type] : e \in {x \in event : IsTransition(x)}}

Abstract == INSTANCE SignalLifecycle WITH journal <- Journal

ImplementsLifecycle == Abstract!Spec

\* The audit trail alone tells the status of every signal.
JournalTellsStatus == Abstract!JournalTellsStatus
============================================================================
