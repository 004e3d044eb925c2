---------------------------- MODULE SqliteProofs ----------------------------
(***************************************************************************)
(* The SQLite store of the tests and the ledger of production, for every   *)
(* choice of the constants: each transaction of the first is a command of  *)
(* the second, and each takes what the other takes.                        *)
(***************************************************************************)
EXTENDS SqliteStore, TLAPS

\* The same mapping, under which the proofs about the ledger speak of this store.
L == INSTANCE LedgerProofs WITH receipt <- Receipts, event <- LedgerEvents, outbox <- Notices

\* The suffixes that the operation of a key leaves behind.
PartOf(op) ==
    CASE op = "close_track" -> {"reason", "closed"}
      [] op = "apply_management_decision" -> {"event"}
      [] OTHER -> {""}

\* What stands in for a receipt: the event of a command bears its key, under a
\* suffix of its operation; and every decision has its event.
EventsTell ==
    /\ \A e \in event : e.part \in CommandPart =>
          e.dedupe_key \in DedupeKey /\ e.part \in PartOf(KeyOp[e.dedupe_key])
    /\ \A d \in decision : \E e \in event : e.part = "event" /\ e.dedupe_key = d.dedupe_key

AlertsOnly == outbox \subseteq AlertKey

\* The ledger's own invariant, read through the mapping, and what makes the
\* mapping of the keys faithful.
SInv == L!IInv /\ EventsTell /\ AlertsOnly

----------------------------------------------------------------------------
(* The keys. *)

\* A key D1 has a receipt for is one that an event bears.
LEMMA ReceiptsAre ==
    ASSUME EventsTell, NEW k \in DedupeKey
    PROVE  D1!KeyUnused(k) <=> \A e \in event : e.dedupe_key = k => e.part \notin CommandPart
<1>1. KeyOp[k] \in D1!Operation
  BY KeyAssumption DEF D1!Operation
<1>2. ASSUME D1!KeyUnused(k), NEW e \in event, e.dedupe_key = k, e.part \in CommandPart
      PROVE  FALSE
  <2>1. D1!Receipt(k, KeyOp[k]) \in Receipts
    BY <1>2 DEF D1!Receipt, Receipts
  <2> QED BY <1>1, <1>2, <2>1 DEF D1!KeyUnused
<1>3. ASSUME \A e \in event : e.dedupe_key = k => e.part \notin CommandPart
      PROVE  D1!KeyUnused(k)
  <2> SUFFICES ASSUME NEW op \in D1!Operation, D1!Receipt(k, op) \in Receipts PROVE FALSE
    BY DEF D1!KeyUnused
  <2>1. PICK e \in event : /\ e.part \in CommandPart
                           /\ D1!Receipt(k, op) = [dedupe_key |-> e.dedupe_key,
                                                   operation |-> KeyOp[e.dedupe_key]]
    BY DEF Receipts
  <2>2. e.dedupe_key = k
    BY <2>1 DEF D1!Receipt
  <2> QED BY <1>3, <2>1, <2>2
<1> QED BY <1>2, <1>3

\* The UNIQUE columns of SQLite refuse exactly the keys D1 has a receipt for.
LEMMA UniqueIsUnused ==
    ASSUME EventsTell, NEW k \in DedupeKey
    PROVE  D1!KeyUnused(k) <=> \A part \in PartOf(KeyOp[k]) : Unique(k, part)
<1>1. PartOf(KeyOp[k]) \subseteq CommandPart
  BY KeyAssumption DEF PartOf, CommandPart
<1> QED BY <1>1, ReceiptsAre DEF EventsTell, Unique

\* What one event adds to the receipts and to the events of the ledger.
LEMMA EventsGrow ==
    ASSUME NEW e, event' = event \cup {e}
    PROVE  /\ e.part # "extra" => LedgerEvents' = LedgerEvents \cup {AsLedgerEvent(e)}
           /\ e.part = "extra" => LedgerEvents' = LedgerEvents
           /\ e.part \in CommandPart =>
                 Receipts' = Receipts \cup {D1!Receipt(e.dedupe_key, KeyOp[e.dedupe_key])}
           /\ e.part \notin CommandPart => Receipts' = Receipts
BY DEF LedgerEvents, Receipts, D1!Receipt

LEMMA EventsStay ==
    ASSUME UNCHANGED event
    PROVE  LedgerEvents' = LedgerEvents /\ Receipts' = Receipts
BY DEF LedgerEvents, Receipts

\* No message appears or disappears unless a signal is created.
LEMMA NoticesStay ==
    ASSUME UNCHANGED outbox,
           \A s \in SignalId : (status'[s] = "ABSENT") <=> (status[s] = "ABSENT")
    PROVE  Notices' = Notices
BY DEF Notices

----------------------------------------------------------------------------
(* The commands. *)

\* The tables, as far as their shape matters to a step.
LEMMA Shapes ==
    ASSUME SInv
    PROVE  /\ status \in [SignalId -> D1!Status]
           /\ \A s \in SignalId : status[s] = "PENDING" => trade[s] = Null
           /\ \A s \in SignalId, v \in D1!Variant :
                 TrackActive(s, v) => outcome[s][v] = Null /\ snapshot[s][v] = Null
BY DEF SInv, L!IInv, L!TypeOK, L!StatusMatchesRows, L!ClosedTracksHaveOutcomes, L!TrackActive,
       L!Status, L!Variant, D1!Status, D1!Variant, TrackActive

LEMMA CreateRefines ==
    ASSUME SInv, NEW s \in SignalId, NEW t \in Term, CreateSignal(s, t)
    PROVE  D1!Create /\ EventsTell' /\ AlertsOnly'
<1> DEFINE e == InsertEvent(s, Null, "SIGNAL_CREATED", Null, "created")
           n == CreationNotice[s]
<1>1. event' = event \cup {e} /\ e.part = "created"
  BY DEF CreateSignal, InsertEvent
<1>2. /\ status[s] = "ABSENT" /\ status' = [status EXCEPT ![s] = "PENDING"]
      /\ terms' = [terms EXCEPT ![s] = t]
      /\ UNCHANGED <<sequence, trade, track, outcome, snapshot, decision, checkpoint, outbox>>
  BY DEF CreateSignal
<1>3. n \in NoticeKey /\ n \notin Notices
  BY <1>2, NoticeAssumption DEF SInv, AlertsOnly, Notices
<1>4. Notices' = Notices \cup {n}
  BY <1>2, Shapes DEF Notices
<1>5. AsLedgerEvent(e) = D1!Event(s, Null, "SIGNAL_CREATED", Null)
  BY DEF AsLedgerEvent, InsertEvent, D1!Event
<1> HIDE DEF e, n
<1>6. LedgerEvents' = LedgerEvents \cup {D1!Event(s, Null, "SIGNAL_CREATED", Null)}
      /\ Receipts' = Receipts
  BY <1>1, <1>5, EventsGrow DEF CommandPart
<1>7. D1!CreateSignal(s, t, n)
  BY <1>2, <1>3, <1>4, <1>6 DEF D1!CreateSignal, D1!CreateAllowed
<1>8. D1!Create
  BY <1>3, <1>7 DEF D1!Create
<1>9. EventsTell' /\ AlertsOnly'
  BY <1>1, <1>2 DEF SInv, EventsTell, AlertsOnly, CommandPart
<1> QED BY <1>8, <1>9

LEMMA ActivateRefines ==
    ASSUME SInv, NEW s \in SignalId, NEW fill \in Decimal, NEW at \in Time,
           NEW k \in KeysOf("activate_signal"), ActivateSignal(s, fill, at, k)
    PROVE  D1!Activate /\ EventsTell' /\ AlertsOnly'
<1> DEFINE e == InsertEvent(s, Null, "ENTRY_ACTIVATED", k, "")
<1>1. k \in DedupeKey /\ KeyOp[k] = "activate_signal"
  BY DEF KeysOf
<1>2. event' = event \cup {e} /\ e.part = "" /\ e.dedupe_key = k
  BY DEF ActivateSignal, InsertEvent
<1>3. status[s] = "PENDING" /\ \A other \in SignalId : status[other] # "ACTIVE"
  BY DEF ActivateSignal, ActivateAllowed, AssertTransition
<1>4. D1!KeyUnused(k)
  BY <1>1, UniqueIsUnused DEF SInv, ActivateSignal, ActivateAllowed, PartOf
<1>5. AsLedgerEvent(e) = D1!Event(s, Null, "ENTRY_ACTIVATED", k)
  BY DEF AsLedgerEvent, InsertEvent, D1!Event
<1> HIDE DEF e
<1>6. /\ LedgerEvents' = LedgerEvents \cup {D1!Event(s, Null, "ENTRY_ACTIVATED", k)}
      /\ Receipts' = Receipts \cup {D1!Receipt(k, "activate_signal")}
  BY <1>1, <1>2, <1>5, EventsGrow DEF CommandPart
<1>7. Notices' = Notices
  <2>1. \A o \in SignalId : (status'[o] = "ABSENT") <=> (status[o] = "ABSENT")
    BY <1>3, Shapes DEF ActivateSignal
  <2> QED BY <2>1, NoticesStay DEF ActivateSignal
<1>8. D1!ActivateSignal(s, fill, at, k)
  BY <1>3, <1>4, <1>6, <1>7 DEF ActivateSignal, D1!ActivateSignal, D1!ActivateAllowed
<1>9. D1!Activate
  BY <1>1, <1>8 DEF D1!Activate
<1>10. EventsTell' /\ AlertsOnly'
  BY <1>1, <1>2 DEF ActivateSignal, SInv, EventsTell, AlertsOnly, PartOf
<1> QED BY <1>9, <1>10

LEMMA ExpireRefines ==
    ASSUME SInv, NEW s \in SignalId, NEW to \in {"EXPIRED", "CANCELLED"},
           NEW k \in KeysOf("transition_pending"), TransitionPending(s, to, k)
    PROVE  D1!Expire /\ EventsTell' /\ AlertsOnly'
<1> DEFINE type == IF to = "EXPIRED" THEN "ENTRY_EXPIRED" ELSE "SIGNAL_CANCELLED"
           e == InsertEvent(s, Null, type, k, "")
<1>1. k \in DedupeKey /\ KeyOp[k] = "transition_pending"
  BY DEF KeysOf
<1>2. event' = event \cup {e} /\ e.part = "" /\ e.dedupe_key = k
  BY DEF TransitionPending, InsertEvent
<1>3. /\ status[s] = "PENDING" /\ status' = [status EXCEPT ![s] = to]
      /\ UNCHANGED <<sequence, terms, trade, track, outcome, snapshot, decision, checkpoint, outbox>>
  BY DEF TransitionPending, TransitionAllowed, AssertTransition
<1>4. D1!KeyUnused(k)
  BY <1>1, UniqueIsUnused DEF SInv, TransitionPending, TransitionAllowed, PartOf
<1>5. AsLedgerEvent(e) = D1!Event(s, Null, type, k)
  BY DEF AsLedgerEvent, InsertEvent, D1!Event
<1> HIDE DEF e
<1>6. /\ LedgerEvents' = LedgerEvents \cup {D1!Event(s, Null, type, k)}
      /\ Receipts' = Receipts \cup {D1!Receipt(k, "transition_pending")}
  BY <1>1, <1>2, <1>5, EventsGrow DEF CommandPart
<1>7. Notices' = Notices
  <2>1. \A o \in SignalId : (status'[o] = "ABSENT") <=> (status[o] = "ABSENT")
    BY <1>3, Shapes
  <2> QED BY <1>3, <2>1, NoticesStay
<1>8. D1!TransitionPending(s, to, k)
  BY <1>3, <1>4, <1>6, <1>7 DEF D1!TransitionPending, D1!TransitionAllowed
<1>9. D1!Expire
  BY <1>1, <1>8 DEF D1!Expire
<1>10. EventsTell' /\ AlertsOnly'
  BY <1>1, <1>2, <1>3 DEF SInv, EventsTell, AlertsOnly, PartOf
<1> QED BY <1>9, <1>10

\* A close leaves two events under one key, and the one receipt.
LEMMA CloseEvents ==
    ASSUME NEW s, NEW v, NEW type, NEW k,
           event' = event \cup {InsertEvent(s, v, type, k, "reason"),
                                InsertEvent(s, v, "CLOSED", k, "closed")}
    PROVE  /\ LedgerEvents' = LedgerEvents \cup {D1!Event(s, v, type, k), D1!Event(s, v, "CLOSED", k)}
           /\ Receipts' = Receipts \cup {D1!Receipt(k, KeyOp[k])}
<1> DEFINE e1 == InsertEvent(s, v, type, k, "reason")
           e2 == InsertEvent(s, v, "CLOSED", k, "closed")
<1>1. /\ e1.part = "reason" /\ e1.dedupe_key = k
      /\ e2.part = "closed" /\ e2.dedupe_key = k
  BY DEF InsertEvent
<1>2. AsLedgerEvent(e1) = D1!Event(s, v, type, k) /\ AsLedgerEvent(e2) = D1!Event(s, v, "CLOSED", k)
  BY DEF InsertEvent, AsLedgerEvent, D1!Event
<1>3. event' = event \cup {e1, e2}
  OBVIOUS
<1> HIDE DEF e1, e2
<1>4. LedgerEvents' = LedgerEvents \cup {AsLedgerEvent(e1), AsLedgerEvent(e2)}
  BY <1>1, <1>3 DEF LedgerEvents
<1>5. Receipts' = Receipts \cup {D1!Receipt(k, KeyOp[k])}
  BY <1>1, <1>3 DEF Receipts, CommandPart, D1!Receipt
<1> QED BY <1>2, <1>4, <1>5

LEMMA CloseRefines ==
    ASSUME SInv, NEW s \in SignalId, NEW v \in D1!Variant, NEW closing \in Closing,
           NEW payload \in Payload, NEW k \in KeysOf("close_track"),
           CloseTrack(s, v, closing, payload, k)
    PROVE  D1!Close /\ EventsTell' /\ AlertsOnly'
<1>1. k \in DedupeKey /\ KeyOp[k] = "close_track"
  BY DEF KeysOf
<1>2. event' = event \cup {InsertEvent(s, v, closing.close_event, k, "reason"),
                           InsertEvent(s, v, "CLOSED", k, "closed")}
  BY DEF CloseTrack
<1>3. TrackActive(s, v) /\ (v = "MANAGED" => status[s] = "ACTIVE")
  BY DEF CloseTrack, CloseAllowed, AssertTransition
<1>4. D1!KeyUnused(k)
  <2>1. Unique(k, "reason") /\ Unique(k, "closed")
    BY DEF CloseTrack, CloseAllowed
  <2>2. \A part \in PartOf(KeyOp[k]) : Unique(k, part)
    BY <1>1, <2>1 DEF PartOf
  <2> QED BY <1>1, <2>2, UniqueIsUnused DEF SInv
<1>5. /\ LedgerEvents' = LedgerEvents \cup {D1!Event(s, v, closing.close_event, k),
                                            D1!Event(s, v, "CLOSED", k)}
      /\ Receipts' = Receipts \cup {D1!Receipt(k, "close_track")}
  BY <1>1, <1>2, CloseEvents
<1>6. Notices' = Notices
  <2>1. \A o \in SignalId : (status'[o] = "ABSENT") <=> (status[o] = "ABSENT")
    <3>1. status' = IF v = "MANAGED" THEN [status EXCEPT ![s] = "CLOSED"] ELSE status
      BY DEF CloseTrack
    <3> QED BY <1>3, <3>1, Shapes
  <2> QED BY <2>1, NoticesStay DEF CloseTrack
<1>7. D1!CloseTrack(s, v, closing, payload, k)
  BY <1>3, <1>4, <1>5, <1>6
     DEF CloseTrack, TrackActive, D1!CloseTrack, D1!CloseAllowed, D1!TrackActive
<1>8. D1!Close
  BY <1>1, <1>7 DEF D1!Close
<1>9. EventsTell'
  <2>1. \A e \in event' : e \in event \/ (e.dedupe_key = k /\ e.part \in {"reason", "closed"})
    BY <1>2 DEF InsertEvent
  <2>2. event \subseteq event' /\ decision' = decision
    BY <1>2 DEF CloseTrack
  <2> QED BY <1>1, <2>1, <2>2 DEF SInv, EventsTell, PartOf
<1>10. AlertsOnly'
  BY DEF CloseTrack, SInv, AlertsOnly
<1> QED BY <1>8, <1>9, <1>10

LEMMA ManageRefines ==
    ASSUME SInv, NEW s \in SignalId, NEW a \in Adjustment,
           NEW k \in KeysOf("apply_management_decision"), ApplyManagement(s, a, k)
    PROVE  D1!Manage /\ EventsTell' /\ AlertsOnly'
<1> DEFINE e == InsertEvent(s, "MANAGED", "MANAGEMENT_DECISION", k, "event")
           d == [signal_id |-> s, dedupe_key |-> k, adjustment |-> a]
<1>1. k \in DedupeKey /\ KeyOp[k] = "apply_management_decision"
  BY DEF KeysOf
<1>2. event' = event \cup {e} /\ e.part = "event" /\ e.dedupe_key = k
  BY DEF ApplyManagement, InsertEvent
<1>3. TrackActive(s, "MANAGED") /\ decision' = decision \cup {d} /\ d.dedupe_key = k
  BY DEF ApplyManagement, ManagementAllowed
<1>4. D1!KeyUnused(k)
  BY <1>1, UniqueIsUnused DEF SInv, ApplyManagement, ManagementAllowed, PartOf
<1>5. AsLedgerEvent(e) = D1!Event(s, "MANAGED", "MANAGEMENT_DECISION", k)
  BY DEF AsLedgerEvent, InsertEvent, D1!Event
<1>6. d = [signal_id |-> s, dedupe_key |-> k, adjustment |-> a]
  OBVIOUS
<1> HIDE DEF e, d
<1>7. /\ LedgerEvents' = LedgerEvents \cup {D1!Event(s, "MANAGED", "MANAGEMENT_DECISION", k)}
      /\ Receipts' = Receipts \cup {D1!Receipt(k, "apply_management_decision")}
  BY <1>1, <1>2, <1>5, EventsGrow DEF CommandPart
<1>8. Notices' = Notices
  BY NoticesStay DEF ApplyManagement
<1>9. D1!ApplyManagement(s, a, k)
  BY <1>3, <1>4, <1>6, <1>7, <1>8
     DEF ApplyManagement, TrackActive, D1!ApplyManagement, D1!ManagementAllowed, D1!TrackActive
<1>10. D1!Manage
  BY <1>1, <1>9 DEF D1!Manage
<1>11. EventsTell'
  <2>1. \A x \in event' : x \in event \/ (x.part = "event" /\ x.dedupe_key = k)
    BY <1>2
  <2>2. \A x \in event' : x.part \in CommandPart =>
           x.dedupe_key \in DedupeKey /\ x.part \in PartOf(KeyOp[x.dedupe_key])
    BY <1>1, <2>1 DEF SInv, EventsTell, PartOf
  <2>3. \A x \in decision' : \E y \in event' : y.part = "event" /\ y.dedupe_key = x.dedupe_key
    <3>1. \A x \in decision : \E y \in event : y.part = "event" /\ y.dedupe_key = x.dedupe_key
      BY DEF SInv, EventsTell
    <3> QED BY <1>2, <1>3, <3>1
  <2> QED BY <2>2, <2>3 DEF EventsTell
<1>12. AlertsOnly'
  BY DEF ApplyManagement, SInv, AlertsOnly
<1> QED BY <1>10, <1>11, <1>12

\* The commands that touch neither a trade nor a key.
LEMMA OthersRefine ==
    ASSUME SInv, Allocate \/ Advance \/ Enqueue
    PROVE  (D1!Allocate \/ D1!Advance \/ D1!Enqueue) /\ EventsTell' /\ AlertsOnly'
<1>1. UNCHANGED <<event, decision, status>>
  BY DEF Allocate, AllocateSignalId, Advance, AdvanceCheckpoint, Enqueue, EnqueueAlert, rows
<1>2. EventsTell' /\ LedgerEvents' = LedgerEvents /\ Receipts' = Receipts
  BY <1>1, EventsStay DEF SInv, EventsTell
<1>3. CASE Allocate
  <2>1. outbox' = outbox /\ Notices' = Notices
    BY <1>1, <1>3, NoticesStay DEF Allocate, AllocateSignalId
  <2>2. D1!Allocate
    BY <1>2, <1>3, <2>1
       DEF Allocate, AllocateSignalId, D1!Allocate, D1!AllocateSignalId, D1!tradeVars
  <2> QED BY <1>2, <2>1, <2>2 DEF SInv, AlertsOnly
<1>4. CASE Advance
  <2>1. outbox' = outbox /\ Notices' = Notices
    BY <1>1, <1>4, NoticesStay DEF Advance, AdvanceCheckpoint
  <2>2. D1!Advance
    BY <1>2, <1>4, <2>1
       DEF Advance, AdvanceCheckpoint, rows, D1!Advance, D1!AdvanceCheckpoint, D1!AdvanceAllowed,
           D1!tradeVars
  <2> QED BY <1>2, <2>1, <2>2 DEF SInv, AlertsOnly
<1>5. CASE Enqueue
  <2>1. PICK n \in AlertKey : EnqueueAlert(n)
    BY <1>5 DEF Enqueue
  <2>2. n \in NoticeKey /\ n \notin Notices
    BY <2>1, NoticeAssumption DEF EnqueueAlert, Notices
  <2>3. outbox' = outbox \cup {n} /\ Notices' = Notices \cup {n}
    BY <1>1, <2>1 DEF EnqueueAlert, Notices
  <2>4. D1!Enqueue
    <3>1. UNCHANGED <<sequence, terms, trade, track, outcome, snapshot, checkpoint>>
      BY <2>1 DEF EnqueueAlert, rows
    <3>2. D1!EnqueueNotification(n)
      BY <1>1, <1>2, <2>2, <2>3, <3>1 DEF D1!EnqueueNotification, D1!tradeVars
    <3> QED BY <2>2, <3>2 DEF D1!Enqueue
  <2> QED BY <1>2, <2>3, <2>4 DEF SInv, AlertsOnly
<1> QED BY <1>3, <1>4, <1>5

\* What D1 has no command for is invisible to it.
LEMMA RestStutters ==
    ASSUME SInv, Append \/ Put \/ UNCHANGED sqliteVars
    PROVE  UNCHANGED D1!ledgerVars /\ EventsTell' /\ AlertsOnly'
<1>1. UNCHANGED <<rows, checkpoint, outbox>>
  BY DEF Append, AppendTradeEvent, Put, PutSetting, sqliteVars
<1>2. Notices' = Notices /\ AlertsOnly'
  BY <1>1, NoticesStay DEF rows, SInv, AlertsOnly
<1>3. CASE Append
  <2>1. PICK e : event' = event \cup {e} /\ e.part = "extra"
    <3>1. PICK s \in SignalId, v \in D1!Variant, type \in ExtraEvent, k \in ExtraKey :
              AppendTradeEvent(s, v, type, k)
      BY <1>3 DEF Append
    <3>2. /\ event' = event \cup {InsertEvent(s, v, type, k, "extra")}
          /\ InsertEvent(s, v, type, k, "extra").part = "extra"
      BY <3>1 DEF AppendTradeEvent, InsertEvent
    <3> QED BY <3>2
  <2>2. LedgerEvents' = LedgerEvents /\ Receipts' = Receipts
    BY <2>1, EventsGrow DEF CommandPart
  <2>3. EventsTell'
    BY <1>1, <2>1 DEF SInv, EventsTell, CommandPart, rows
  <2> QED BY <1>1, <1>2, <2>2, <2>3 DEF rows, D1!ledgerVars, D1!tradeVars
<1>4. CASE Put \/ UNCHANGED sqliteVars
  <2>1. event' = event
    BY <1>4 DEF Put, PutSetting, sqliteVars
  <2>2. EventsTell' /\ LedgerEvents' = LedgerEvents /\ Receipts' = Receipts
    BY <1>1, <2>1, EventsStay DEF SInv, EventsTell, rows
  <2> QED BY <1>1, <1>2, <2>2 DEF rows, D1!ledgerVars, D1!tradeVars
<1> QED BY <1>3, <1>4

----------------------------------------------------------------------------
(* The refinement. *)

LEMMA StepRefines ==
    ASSUME SInv, [Next]_sqliteVars
    PROVE  [D1!Next]_(D1!ledgerVars) /\ EventsTell' /\ AlertsOnly'
<1>1. CASE Create
  BY <1>1, CreateRefines DEF Create, D1!Next
<1>2. CASE Activate
  BY <1>2, ActivateRefines DEF Activate, D1!Next
<1>3. CASE Expire
  BY <1>3, ExpireRefines DEF Expire, D1!Next
<1>4. CASE Close
  BY <1>4, CloseRefines DEF Close, D1!Next
<1>5. CASE Manage
  BY <1>5, ManageRefines DEF Manage, D1!Next
<1>6. CASE Allocate \/ Advance \/ Enqueue
  BY <1>6, OthersRefine DEF D1!Next
<1>7. CASE Append \/ Put \/ UNCHANGED sqliteVars
  BY <1>7, RestStutters
<1> QED BY <1>1, <1>2, <1>3, <1>4, <1>5, <1>6, <1>7 DEF Next

\* The two instances of the ledger are one: the abstract specification's, and
\* the one its proofs come with.
LEMMA SameLedger ==
    /\ D1!Init <=> L!Init
    /\ [D1!Next]_(D1!ledgerVars) => [L!Next]_(L!ledgerVars)
<1>1. D1!Init <=> L!Init
  BY DEF D1!Init, L!Init, D1!Variant, L!Variant
<1>2. D1!Create => L!Create
  BY DEF D1!Create, L!Create, D1!CreateSignal, L!CreateSignal, D1!CreateAllowed, L!CreateAllowed,
         D1!Event, L!Event
<1>3. D1!Activate => L!Activate
  BY DEF D1!Activate, L!Activate, D1!ActivateSignal, L!ActivateSignal, D1!ActivateAllowed,
         L!ActivateAllowed, D1!KeyUnused, L!KeyUnused, D1!Receipt, L!Receipt, D1!Event, L!Event,
         D1!Operation, L!Operation, D1!Variant, L!Variant, D1!Whole, L!Whole
<1>4. D1!Expire => L!Expire
  BY DEF D1!Expire, L!Expire, D1!TransitionPending, L!TransitionPending, D1!TransitionAllowed,
         L!TransitionAllowed, D1!KeyUnused, L!KeyUnused, D1!Receipt, L!Receipt, D1!Event, L!Event,
         D1!Operation, L!Operation
<1>5. D1!Close => L!Close
  BY DEF D1!Close, L!Close, D1!CloseTrack, L!CloseTrack, D1!CloseAllowed, L!CloseAllowed,
         D1!KeyUnused, L!KeyUnused, D1!Receipt, L!Receipt, D1!Event, L!Event, D1!Operation,
         L!Operation, D1!Variant, L!Variant, D1!TrackActive, L!TrackActive
<1>6. D1!Manage => L!Manage
  BY DEF D1!Manage, L!Manage, D1!ApplyManagement, L!ApplyManagement, D1!ManagementAllowed,
         L!ManagementAllowed, D1!Coalesce, L!Coalesce, D1!KeyUnused, L!KeyUnused, D1!Receipt,
         L!Receipt, D1!Event, L!Event, D1!Operation, L!Operation, D1!TrackActive, L!TrackActive
<1>7. /\ D1!Allocate => L!Allocate
      /\ D1!Advance => L!Advance
      /\ D1!Enqueue => L!Enqueue
      /\ UNCHANGED D1!ledgerVars => UNCHANGED L!ledgerVars
  BY DEF D1!Allocate, L!Allocate, D1!AllocateSignalId, L!AllocateSignalId, D1!Advance, L!Advance,
         D1!AdvanceCheckpoint, L!AdvanceCheckpoint, D1!AdvanceAllowed, L!AdvanceAllowed,
         D1!Enqueue, L!Enqueue, D1!EnqueueNotification, L!EnqueueNotification,
         D1!tradeVars, L!tradeVars, D1!ledgerVars, L!ledgerVars
<1>8. D1!Next => L!Next
  BY <1>2, <1>3, <1>4, <1>5, <1>6, <1>7 DEF D1!Next, L!Next
<1> QED BY <1>1, <1>7, <1>8

\* The schema is the one the proofs about the ledger assume.
LEMMA SameSchema ==
    /\ L!TimeAssumption /\ L!DecimalAssumption /\ L!TermAssumption /\ L!ClosingAssumption
    /\ L!AdjustmentAssumption /\ L!MaxSequenceAssumption /\ L!NullAssumption
BY SchemaAssumption
   DEF D1!TimeAssumption, L!TimeAssumption, D1!DecimalAssumption, L!DecimalAssumption,
       D1!TermAssumption, L!TermAssumption, D1!ClosingAssumption, L!ClosingAssumption,
       D1!AdjustmentAssumption, L!AdjustmentAssumption, D1!MaxSequenceAssumption,
       L!MaxSequenceAssumption, D1!NullAssumption, L!NullAssumption, D1!OutcomeResult,
       L!OutcomeResult, D1!CloseEvent, L!CloseEvent, D1!TradeRow, L!TradeRow, D1!TrackRow,
       L!TrackRow, D1!Variant, L!Variant, D1!Whole, L!Whole

LEMMA InitRefines == Init => D1!Init /\ SInv
<1> SUFFICES ASSUME Init PROVE D1!Init /\ SInv
  OBVIOUS
<1>1. LedgerEvents = {} /\ Receipts = {} /\ Notices = {}
  BY DEF Init, LedgerEvents, Receipts, Notices
<1>2. D1!Init
  BY <1>1 DEF Init, D1!Init
<1>3. L!IInv
  BY <1>2, SameLedger, SameSchema, L!InitInv
<1>4. EventsTell /\ AlertsOnly
  BY DEF Init, EventsTell, AlertsOnly
<1> QED BY <1>2, <1>3, <1>4 DEF SInv

LEMMA SInvInductive == SInv /\ [Next]_sqliteVars => SInv'
<1> SUFFICES ASSUME SInv, [Next]_sqliteVars PROVE SInv'
  OBVIOUS
<1>1. [L!Next]_(L!ledgerVars) /\ EventsTell' /\ AlertsOnly'
  BY StepRefines, SameLedger
<1>2. L!IInv'
  BY <1>1, SameSchema, L!NextInv DEF SInv
<1> QED BY <1>1, <1>2 DEF SInv

LEMMA Invariance == Spec => []SInv
<1>1. Init => SInv
  BY InitRefines
<1> QED BY <1>1, SInvInductive, PTL DEF Spec

----------------------------------------------------------------------------
(* The theorems. *)

\* Every history of the SQLite store is a history of the ledger.
THEOREM Refinement == Spec => ImplementsLedger
<1>1. Init => D1!Init
  BY InitRefines
<1>2. SInv /\ [Next]_sqliteVars => [D1!Next]_(D1!ledgerVars)
  BY StepRefines
<1> QED BY <1>1, <1>2, Invariance, PTL DEF Spec, ImplementsLedger, D1!Spec

\* A command that D1 takes is one SQLite takes, and the other way round, in
\* every state the store can reach.
THEOREM TakesTheSame == Spec => []TakesWhatD1Takes
<1>1. SInv => TakesWhatD1Takes
  <2> SUFFICES ASSUME SInv, NEW s \in SignalId, NEW k \in DedupeKey
               PROVE  /\ KeyOp[k] = "activate_signal" =>
                            (D1!ActivateAllowed(s, k) <=> ActivateAllowed(s, k))
                      /\ KeyOp[k] = "transition_pending" =>
                            \A to \in {"EXPIRED", "CANCELLED"} :
                                D1!TransitionAllowed(s, k) <=> TransitionAllowed(s, to, k)
                      /\ KeyOp[k] = "close_track" =>
                            \A v \in D1!Variant : D1!CloseAllowed(s, v, k) <=> CloseAllowed(s, v, k)
                      /\ KeyOp[k] = "apply_management_decision" =>
                            (D1!ManagementAllowed(s, k) <=> ManagementAllowed(s, k))
    BY DEF TakesWhatD1Takes
  <2>1. D1!KeyUnused(k) <=> \A part \in PartOf(KeyOp[k]) : Unique(k, part)
    BY UniqueIsUnused DEF SInv
  <2>2. ASSUME KeyOp[k] = "activate_signal"
        PROVE  D1!ActivateAllowed(s, k) <=> ActivateAllowed(s, k)
    <3>1. D1!KeyUnused(k) <=> Unique(k, "")
      BY <2>1, <2>2 DEF PartOf
    <3> QED BY <3>1, Shapes DEF D1!ActivateAllowed, ActivateAllowed, AssertTransition
  <2>3. ASSUME KeyOp[k] = "transition_pending", NEW to \in {"EXPIRED", "CANCELLED"}
        PROVE  D1!TransitionAllowed(s, k) <=> TransitionAllowed(s, to, k)
    <3>1. D1!KeyUnused(k) <=> Unique(k, "")
      BY <2>1, <2>3 DEF PartOf
    <3> QED BY <2>3, <3>1 DEF D1!TransitionAllowed, TransitionAllowed, AssertTransition
  <2>4. ASSUME KeyOp[k] = "close_track", NEW v \in D1!Variant
        PROVE  D1!CloseAllowed(s, v, k) <=> CloseAllowed(s, v, k)
    <3>1. D1!KeyUnused(k) <=> Unique(k, "reason") /\ Unique(k, "closed")
      BY <2>1, <2>4 DEF PartOf
    <3>2. AssertTransition(s, "CLOSED") <=> status[s] = "ACTIVE"
      BY DEF AssertTransition
    <3> QED BY <2>4, <3>1, <3>2, Shapes DEF D1!CloseAllowed, CloseAllowed, D1!TrackActive, TrackActive
  <2>5. ASSUME KeyOp[k] = "apply_management_decision"
        PROVE  D1!ManagementAllowed(s, k) <=> ManagementAllowed(s, k)
    <3>1. D1!KeyUnused(k) <=> Unique(k, "event")
      BY <2>1, <2>5 DEF PartOf
    <3>2. Unique(k, "event") => \A d \in decision : d.dedupe_key # k
      BY DEF SInv, EventsTell, Unique
    <3> QED BY <3>1, <3>2 DEF D1!ManagementAllowed, ManagementAllowed, D1!TrackActive, TrackActive
  <2> QED BY <2>2, <2>3, <2>4, <2>5
<1> QED BY <1>1, Invariance, PTL

\* What the ledger's proofs say of its tables, the tests may rely on in SQLite:
\* a signal, its trade, its tracks and their outcomes never part.
THEOREM RowsTellOneStory ==
    Spec => [](D1!StatusMatchesRows /\ D1!ClosedTracksHaveOutcomes)
<1>1. SInv => D1!StatusMatchesRows /\ D1!ClosedTracksHaveOutcomes
  BY DEF SInv, L!IInv, L!StatusMatchesRows, L!ClosedTracksHaveOutcomes, L!TrackActive, L!Variant,
         D1!StatusMatchesRows, D1!ClosedTracksHaveOutcomes, D1!TrackActive, D1!Variant
<1> QED BY <1>1, Invariance, PTL
=============================================================================
