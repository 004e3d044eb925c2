-------------------------- MODULE SignalLifecycle --------------------------
(***************************************************************************)
(* What the domain promises about a paper signal: the transition table of  *)
(* domain/state_machine.py, the audit event every transition leaves behind *)
(* and the rule that at most one signal is ACTIVE at a time.  Nothing is   *)
(* said of candles, tracks or retries; Ledger.tla is shown to implement it.*)
(***************************************************************************)
EXTENDS FiniteSets

CONSTANT SignalId       \* the identifiers a signal can have

VARIABLES status,       \* the lifecycle status of every signal
          journal       \* the transitions recorded so far, as audit events

lifecycleVars == <<status, journal>>

\* "ABSENT" is not a status of the code: the signal has no row yet.
Status == {"ABSENT", "PENDING", "ACTIVE", "EXPIRED", "CANCELLED", "CLOSED"}

Transitions ==
    [ABSENT    |-> {"PENDING"},
     PENDING   |-> {"ACTIVE", "EXPIRED", "CANCELLED"},
     ACTIVE    |-> {"CLOSED"},
     EXPIRED   |-> {},
     CANCELLED |-> {},
     CLOSED    |-> {}]

\* No two rows of the table lead to the same status, so the new status alone
\* names the event.
TransitionEvent ==
    [PENDING   |-> "SIGNAL_CREATED",
     ACTIVE    |-> "ENTRY_ACTIVATED",
     EXPIRED   |-> "ENTRY_EXPIRED",
     CANCELLED |-> "SIGNAL_CANCELLED",
     CLOSED    |-> "CLOSED"]

LifecycleEvent == {TransitionEvent[to] : to \in DOMAIN TransitionEvent}

Init ==
    /\ status = [s \in SignalId |-> "ABSENT"]
    /\ journal = {}

Transition(s, to) ==
    /\ to \in Transitions[status[s]]
    /\ to = "ACTIVE" => \A other \in SignalId : status[other] # "ACTIVE"
    /\ status' = [status EXCEPT ![s] = to]
    /\ journal' = journal \cup {[signal_id |-> s, event_type |-> TransitionEvent[to]]}

Next == \E s \in SignalId, to \in Status : Transition(s, to)

Spec == Init /\ [][Next]_lifecycleVars

LifecycleTypeOK ==
    /\ status \in [SignalId -> Status]
    /\ journal \subseteq [signal_id : SignalId, event_type : LifecycleEvent]

\* At most one signal is ACTIVE: what uq_one_active_btc_signal is there for.
OneActiveSignal ==
    \A s, t \in SignalId : status[s] = "ACTIVE" /\ status[t] = "ACTIVE" => s = t

\* The audit events a signal in each status has left behind, no two alike.
Path ==
    [ABSENT    |-> {},
     PENDING   |-> {"SIGNAL_CREATED"},
     ACTIVE    |-> {"SIGNAL_CREATED", "ENTRY_ACTIVATED"},
     EXPIRED   |-> {"SIGNAL_CREATED", "ENTRY_EXPIRED"},
     CANCELLED |-> {"SIGNAL_CREATED", "SIGNAL_CANCELLED"},
     CLOSED    |-> {"SIGNAL_CREATED", "ENTRY_ACTIVATED", "CLOSED"}]

\* The journal tells the status: the audit events of a signal are exactly the
\* path to the status its row holds, so neither changes without the other.
JournalTellsStatus ==
    \A s \in SignalId, type \in LifecycleEvent :
        [signal_id |-> s, event_type |-> type] \in journal <=> type \in Path[status[s]]
============================================================================
