---------------------------- MODULE LedgerProofs ----------------------------
(***************************************************************************)
(* Proofs about the ledger, for every choice of its constants: any number  *)
(* of signals, keys, prices and instants, and any order of commands.       *)
(***************************************************************************)
EXTENDS Ledger, TLAPS

----------------------------------------------------------------------------
(* Type correctness, one lemma for each kind of row a command writes. *)

\* The row of a track that was just opened (runtime-repository.ts 322-343).
LEMMA OpenedTrackType ==
    ASSUME NEW stop \in Decimal
    PROVE  [track_status |-> "ACTIVE", current_stop |-> stop,
            remaining_fraction |-> Whole, realized_r |-> 0] \in TrackRow
BY DecimalAssumption DEF TrackRow

\* A close keeps the type of the track's row.
LEMMA ClosedTrackType ==
    ASSUME NEW row \in TrackRow, NEW r \in Decimal
    PROVE  [row EXCEPT !.track_status = "CLOSED", !.realized_r = r] \in TrackRow
BY DEF TrackRow

\* COALESCE keeps the type of the column, whatever the decision leaves out.
LEMMA CoalesceType ==
    ASSUME NEW default \in Decimal, NEW value \in Decimal \cup {Null}
    PROVE  Coalesce(value, default) \in Decimal
BY DEF Coalesce

\* The MANAGED row after a decision that changes it.
ManagedAfter(row, a) ==
    [row EXCEPT !.current_stop = Coalesce(a.updated_stop, @),
                !.remaining_fraction = Coalesce(a.remaining_fraction_after, @),
                !.realized_r = Coalesce(a.realized_r_after, @)]

\* A decision keeps the type of the MANAGED row.
LEMMA ManagedAfterType ==
    ASSUME NEW row \in TrackRow, NEW a \in Adjustment
    PROVE  ManagedAfter(row, a) \in TrackRow
<1>1. /\ Coalesce(a.updated_stop, row.current_stop) \in Decimal
      /\ Coalesce(a.remaining_fraction_after, row.remaining_fraction) \in Decimal
      /\ Coalesce(a.realized_r_after, row.realized_r) \in Decimal
  BY AdjustmentAssumption, CoalesceType DEF TrackRow
<1> QED BY <1>1 DEF ManagedAfter, TrackRow

\* Every column has its type in the empty database.
LEMMA InitType == Init => TypeOK
BY MaxSequenceAssumption DEF Init, TypeOK, Status

\* Every command keeps every column in its type.  An activation copies the
\* stop from the terms, so it needs a PENDING signal to have some.
LEMMA NextType == TypeOK /\ StatusMatchesRows /\ [Next]_ledgerVars => TypeOK'
<1> SUFFICES ASSUME TypeOK, StatusMatchesRows, [Next]_ledgerVars
             PROVE  TypeOK'
  OBVIOUS
<1>1. ASSUME NEW d \in BusinessDate, AllocateSignalId(d)
      PROVE  TypeOK'
  <2>1. sequence[d] + 1 \in 0..MaxSequence
    BY <1>1, MaxSequenceAssumption DEF AllocateSignalId, TypeOK
  <2>2. sequence' \in [BusinessDate -> 0..MaxSequence]
    BY <1>1, <2>1 DEF AllocateSignalId, TypeOK
  <2> QED BY <1>1, <2>2 DEF AllocateSignalId, TypeOK, tradeVars
<1>2. ASSUME NEW s \in SignalId, NEW t \in Term, NEW n \in NoticeKey, CreateSignal(s, t, n)
      PROVE  TypeOK'
  <2>1. Event(s, Null, "SIGNAL_CREATED", Null) \in EventRow
    BY DEF Event, EventRow, EventType
  <2> QED BY <1>2, <2>1 DEF CreateSignal, TypeOK, Status
<1>3. ASSUME NEW s \in SignalId, NEW fill \in Decimal, NEW at \in Time, NEW k \in DedupeKey,
             ActivateSignal(s, fill, at, k)
      PROVE  TypeOK'
  <2>1. terms[s].original_stop \in Decimal
    BY <1>3, TermAssumption DEF ActivateSignal, ActivateAllowed, StatusMatchesRows, TypeOK
  <2>2. trade' \in [SignalId -> TradeRow \cup {Null}]
    BY <1>3, <2>1 DEF ActivateSignal, TypeOK, TradeRow
  <2>3. track' \in [SignalId -> [Variant -> TrackRow \cup {Null}]]
    BY <1>3, <2>1, OpenedTrackType DEF ActivateSignal, TypeOK
  <2>4. event' \subseteq EventRow
    BY <1>3 DEF ActivateSignal, TypeOK, Event, EventRow, EventType
  <2>5. receipt' \subseteq [dedupe_key : DedupeKey, operation : Operation]
    BY <1>3 DEF ActivateSignal, TypeOK, Receipt, Operation
  <2>6. status' \in [SignalId -> Status]
    BY <1>3 DEF ActivateSignal, TypeOK, Status
  <2> QED BY <1>3, <2>2, <2>3, <2>4, <2>5, <2>6 DEF ActivateSignal, TypeOK
<1>4. ASSUME NEW s \in SignalId, NEW to \in {"EXPIRED", "CANCELLED"}, NEW k \in DedupeKey,
             TransitionPending(s, to, k)
      PROVE  TypeOK'
  <2>1. Event(s, Null, IF to = "EXPIRED" THEN "ENTRY_EXPIRED" ELSE "SIGNAL_CANCELLED", k)
            \in EventRow
    BY DEF Event, EventRow, EventType
  <2>2. Receipt(k, "transition_pending") \in [dedupe_key : DedupeKey, operation : Operation]
    BY DEF Receipt, Operation
  <2> QED BY <1>4, <2>1, <2>2 DEF TransitionPending, TypeOK, Status
<1>5. ASSUME NEW s \in SignalId, NEW v \in Variant, NEW closing \in Closing,
             NEW payload \in Payload, NEW k \in DedupeKey,
             CloseTrack(s, v, closing, payload, k)
      PROVE  TypeOK'
  <2>1. track[s] \in [Variant -> TrackRow \cup {Null}] /\ track[s][v] \in TrackRow
    BY <1>5 DEF CloseTrack, CloseAllowed, TrackActive, TypeOK
  <2>2. closing.result_r \in Decimal /\ closing.close_event \in CloseEvent
    BY ClosingAssumption
  <2>3. track' \in [SignalId -> [Variant -> TrackRow \cup {Null}]]
    <3> DEFINE row == [track[s][v] EXCEPT !.track_status = "CLOSED",
                                          !.realized_r = closing.result_r]
    <3>1. row \in TrackRow
      BY <2>1, <2>2, ClosedTrackType
    <3>2. track' = [track EXCEPT ![s] = [@ EXCEPT ![v] = row]]
      BY <1>5, <2>1 DEF CloseTrack, TypeOK, TrackRow
    <3> QED BY <2>1, <3>1, <3>2 DEF TypeOK
  <2>4. outcome' \in [SignalId -> [Variant -> Closing \cup {Null}]]
    BY <1>5 DEF CloseTrack, TypeOK
  <2>5. snapshot' \in [SignalId -> [Variant -> Payload \cup {Null}]]
    BY <1>5 DEF CloseTrack, TypeOK
  <2>6. event' \subseteq EventRow
    BY <1>5, <2>2 DEF CloseTrack, TypeOK, Event, EventRow, EventType
  <2>7. receipt' \subseteq [dedupe_key : DedupeKey, operation : Operation]
    BY <1>5 DEF CloseTrack, TypeOK, Receipt, Operation
  <2>8. status' \in [SignalId -> Status]
    BY <1>5 DEF CloseTrack, TypeOK, Status
  <2> QED BY <1>5, <2>3, <2>4, <2>5, <2>6, <2>7, <2>8 DEF CloseTrack, TypeOK
<1>6. ASSUME NEW key \in CheckpointKey, NEW at \in Time, AdvanceCheckpoint(key, at)
      PROVE  TypeOK'
  BY <1>6 DEF AdvanceCheckpoint, TypeOK, tradeVars
<1>7. ASSUME NEW s \in SignalId, NEW a \in Adjustment, NEW k \in DedupeKey,
             ApplyManagement(s, a, k)
      PROVE  TypeOK'
  <2>1. track[s] \in [Variant -> TrackRow \cup {Null}] /\ track[s]["MANAGED"] \in TrackRow
    BY <1>7 DEF ApplyManagement, ManagementAllowed, TrackActive, TypeOK, Variant
  <2>2. track' \in [SignalId -> [Variant -> TrackRow \cup {Null}]]
    <3>1. CASE ~a.changes_managed_result
      BY <1>7, <3>1 DEF ApplyManagement, TypeOK
    <3>2. CASE a.changes_managed_result
      <4> DEFINE row == ManagedAfter(track[s]["MANAGED"], a)
      <4>1. row \in TrackRow
        BY <2>1, ManagedAfterType
      <4>2. track' = [track EXCEPT ![s] = [@ EXCEPT !["MANAGED"] = row]]
        BY <1>7, <2>1, <3>2, ZenonT(40) DEF ApplyManagement, TypeOK, TrackRow, ManagedAfter, Variant
      <4> QED BY <2>1, <4>1, <4>2 DEF TypeOK
    <3> QED BY <3>1, <3>2
  <2>3. event' \subseteq EventRow
    BY <1>7 DEF ApplyManagement, TypeOK, Event, EventRow, EventType, Variant
  <2>4. receipt' \subseteq [dedupe_key : DedupeKey, operation : Operation]
    BY <1>7 DEF ApplyManagement, TypeOK, Receipt, Operation
  <2>5. decision' \subseteq DecisionRow
    BY <1>7 DEF ApplyManagement, TypeOK, DecisionRow
  <2> QED BY <1>7, <2>2, <2>3, <2>4, <2>5 DEF ApplyManagement, TypeOK
<1>8. ASSUME NEW n \in NoticeKey, EnqueueNotification(n)
      PROVE  TypeOK'
  BY <1>8 DEF EnqueueNotification, TypeOK, tradeVars
<1>9. CASE UNCHANGED ledgerVars
  BY <1>9 DEF TypeOK, ledgerVars, tradeVars
<1> QED
  BY <1>1, <1>2, <1>3, <1>4, <1>5, <1>6, <1>7, <1>8, <1>9
     DEF Next, Allocate, Create, Activate, Expire, Close, Advance, Manage, Enqueue

----------------------------------------------------------------------------
(* What a command does to the rows of each signal, said once: the values   *)
(* of every column the invariants relate, at the signal it names and at    *)
(* all the others.                                                         *)

\* create_signal turns one absent row PENDING and leaves every trade alone.
LEMMA CreateRows ==
    ASSUME TypeOK, NEW s \in SignalId, NEW t \in Term, NEW n \in NoticeKey,
           CreateSignal(s, t, n), NEW x \in SignalId
    PROVE  /\ status'[x] = IF x = s THEN "PENDING" ELSE status[x]
           /\ terms'[x] = IF x = s THEN t ELSE terms[x]
           /\ trade'[x] = trade[x] /\ track'[x] = track[x]
           /\ outcome'[x] = outcome[x] /\ snapshot'[x] = snapshot[x]
BY DEF CreateSignal, TypeOK

\* activate_signal opens the trade and both tracks of one signal, at its own stop.
LEMMA ActivateRows ==
    ASSUME TypeOK, StatusMatchesRows, NEW s \in SignalId, NEW fill \in Decimal, NEW at \in Time,
           NEW k \in DedupeKey, ActivateSignal(s, fill, at, k), NEW x \in SignalId
    PROVE  /\ status'[x] = IF x = s THEN "ACTIVE" ELSE status[x]
           /\ terms'[x] = terms[x]
           /\ x = s => trade'[x] # Null
           /\ x # s => trade'[x] = trade[x] /\ track'[x] = track[x]
           /\ x = s => \A v \in Variant :
                 track'[x][v] = [track_status |-> "ACTIVE",
                                 current_stop |-> terms[s].original_stop,
                                 remaining_fraction |-> Whole, realized_r |-> 0]
           /\ outcome'[x] = outcome[x] /\ snapshot'[x] = snapshot[x]
<1>1. trade'[s] # Null
  <2>1. trade'[s] = [activated_at |-> at, fill_price |-> fill,
                     original_stop |-> terms[s].original_stop]
    BY DEF ActivateSignal, TypeOK
  <2>2. terms[s].original_stop \in Decimal
    BY TermAssumption DEF ActivateSignal, ActivateAllowed, StatusMatchesRows, TypeOK
  <2>3. trade'[s] \in TradeRow
    BY <2>1, <2>2 DEF TradeRow
  <2> QED BY <2>3, NullAssumption
<1> QED BY <1>1 DEF ActivateSignal, TypeOK

\* In particular both of its tracks are open.
LEMMA OpenedRow ==
    ASSUME TypeOK, StatusMatchesRows, NEW s \in SignalId, NEW fill \in Decimal, NEW at \in Time,
           NEW k \in DedupeKey, ActivateSignal(s, fill, at, k), NEW v \in Variant
    PROVE  track'[s][v] # Null /\ TrackActive(s, v)'
<1>1. track'[s][v] = [track_status |-> "ACTIVE", current_stop |-> terms[s].original_stop,
                      remaining_fraction |-> Whole, realized_r |-> 0]
  BY ActivateRows
<1>2. terms[s].original_stop \in Decimal
  BY TermAssumption DEF ActivateSignal, ActivateAllowed, StatusMatchesRows, TypeOK
<1>3. track'[s][v] \in TrackRow
  BY <1>1, <1>2, OpenedTrackType
<1> QED BY <1>1, <1>3, NullAssumption DEF TrackActive

\* close_track books one track of one signal, and closes the signal with its MANAGED track.
LEMMA CloseRows ==
    ASSUME TypeOK, NEW s \in SignalId, NEW v \in Variant, NEW closing \in Closing,
           NEW payload \in Payload, NEW k \in DedupeKey,
           CloseTrack(s, v, closing, payload, k), NEW x \in SignalId, NEW w \in Variant
    PROVE  /\ status'[x] = IF x = s /\ v = "MANAGED" THEN "CLOSED" ELSE status[x]
           /\ terms'[x] = terms[x] /\ trade'[x] = trade[x]
           /\ (track'[x][w] = Null) <=> (track[x][w] = Null)
           /\ TrackActive(x, w)' <=> TrackActive(x, w) /\ ~(x = s /\ w = v)
           /\ track[x][w] # Null =>
                 /\ track'[x][w].current_stop = track[x][w].current_stop
                 /\ track'[x][w].remaining_fraction = track[x][w].remaining_fraction
           /\ ~(x = s /\ w = v) => track'[x][w] = track[x][w]
           /\ (x = s /\ w = v) => track'[x][w].realized_r = closing.result_r
           /\ outcome'[x][w] = IF x = s /\ w = v THEN closing ELSE outcome[x][w]
           /\ snapshot'[x][w] = IF x = s /\ w = v THEN payload ELSE snapshot[x][w]
<1> DEFINE row == [track[s][v] EXCEPT !.track_status = "CLOSED",
                                      !.realized_r = closing.result_r]
<1>1. track[s] \in [Variant -> TrackRow \cup {Null}] /\ track[s][v] \in TrackRow
  BY DEF CloseTrack, CloseAllowed, TrackActive, TypeOK
<1>2. closing.result_r \in Decimal
  BY ClosingAssumption
<1>3. /\ row \in TrackRow /\ row # Null
      /\ row.track_status = "CLOSED" /\ row.realized_r = closing.result_r
      /\ row.current_stop = track[s][v].current_stop
      /\ row.remaining_fraction = track[s][v].remaining_fraction
  BY <1>1, <1>2, ClosedTrackType, NullAssumption DEF TrackRow
<1>4. track' = [track EXCEPT ![s] = [@ EXCEPT ![v] = row]]
  BY <1>1 DEF CloseTrack, TypeOK, TrackRow
<1>5. track'[x][w] = IF x = s /\ w = v THEN row ELSE track[x][w]
  BY <1>1, <1>4 DEF TypeOK
<1>6. TrackActive(s, v)
  BY DEF CloseTrack, CloseAllowed
<1>7. /\ outcome'[x][w] = IF x = s /\ w = v THEN closing ELSE outcome[x][w]
      /\ snapshot'[x][w] = IF x = s /\ w = v THEN payload ELSE snapshot[x][w]
      /\ status'[x] = IF x = s /\ v = "MANAGED" THEN "CLOSED" ELSE status[x]
      /\ terms'[x] = terms[x] /\ trade'[x] = trade[x]
  BY DEF CloseTrack, TypeOK
<1> HIDE DEF row
<1>8. CASE x = s /\ w = v
  BY <1>3, <1>5, <1>6, <1>7, <1>8 DEF TrackActive
<1>9. CASE ~(x = s /\ w = v)
  BY <1>5, <1>7, <1>9 DEF TrackActive
<1> QED BY <1>8, <1>9

\* apply_management_decision touches the MANAGED row of one open signal only.
LEMMA ManagementRows ==
    ASSUME TypeOK, NEW s \in SignalId, NEW a \in Adjustment, NEW k \in DedupeKey,
           ApplyManagement(s, a, k), NEW x \in SignalId, NEW w \in Variant
    PROVE  /\ status'[x] = status[x] /\ terms'[x] = terms[x] /\ trade'[x] = trade[x]
           /\ (track'[x][w] = Null) <=> (track[x][w] = Null)
           /\ TrackActive(x, w)' <=> TrackActive(x, w)
           /\ ~TrackActive(x, w) => track'[x][w] = track[x][w]
           /\ w = "FIXED" => track'[x][w] = track[x][w]
           /\ outcome'[x] = outcome[x] /\ snapshot'[x] = snapshot[x]
<1> DEFINE row == ManagedAfter(track[s]["MANAGED"], a)
<1>1. track[s] \in [Variant -> TrackRow \cup {Null}] /\ track[s]["MANAGED"] \in TrackRow
  BY DEF ApplyManagement, ManagementAllowed, TrackActive, TypeOK, Variant
<1>2. TrackActive(s, "MANAGED")
  BY DEF ApplyManagement, ManagementAllowed
<1>3. /\ status'[x] = status[x] /\ terms'[x] = terms[x] /\ trade'[x] = trade[x]
      /\ outcome'[x] = outcome[x] /\ snapshot'[x] = snapshot[x]
  BY DEF ApplyManagement
<1>4. CASE ~a.changes_managed_result
  BY <1>3, <1>4 DEF ApplyManagement, TrackActive
<1>5. CASE a.changes_managed_result
  <2>1. track' = [track EXCEPT ![s] = [@ EXCEPT !["MANAGED"] = row]]
    BY <1>1, <1>5 DEF ApplyManagement, TypeOK, TrackRow, ManagedAfter, Variant
  <2>2. row # Null /\ row.track_status = track[s]["MANAGED"].track_status
    BY <1>1, ManagedAfterType, NullAssumption DEF ManagedAfter, TrackRow
  <2>3. track'[x][w] = IF x = s /\ w = "MANAGED" THEN row ELSE track[x][w]
    BY <1>1, <2>1 DEF TypeOK, Variant
  <2> HIDE DEF row
  <2>4. CASE x = s /\ w = "MANAGED"
    BY <1>2, <1>3, <2>2, <2>3, <2>4 DEF TrackActive
  <2>5. CASE ~(x = s /\ w = "MANAGED")
    BY <1>3, <2>3, <2>5 DEF TrackActive
  <2> QED BY <2>4, <2>5
<1> QED BY <1>4, <1>5

\* TransitionPending moves the status of one signal and no row.
LEMMA ExpireRows ==
    ASSUME TypeOK, NEW s \in SignalId, NEW to \in {"EXPIRED", "CANCELLED"},
           NEW k \in DedupeKey, TransitionPending(s, to, k), NEW x \in SignalId
    PROVE  /\ status'[x] = IF x = s THEN to ELSE status[x]
           /\ UNCHANGED <<terms, trade, track, outcome, snapshot>>
BY DEF TransitionPending, TypeOK

\* The steps that write no row of any signal.
Elsewhere == Allocate \/ Advance \/ Enqueue \/ UNCHANGED ledgerVars

\* A command that names no signal leaves the rows of every signal as they are.
LEMMA ElsewhereRows ==
    Elsewhere => UNCHANGED <<status, terms, trade, track, outcome, snapshot>>
BY DEF Elsewhere, Allocate, AllocateSignalId, Advance, AdvanceCheckpoint,
       Enqueue, EnqueueNotification, ledgerVars, tradeVars

----------------------------------------------------------------------------
(* The inductive invariant: the run's invariants support each other.  A    *)
(* FIXED close must not resurrect an outcome (so rows and outcomes go      *)
(* together), an activation must find no rows (so status and rows do), and *)
(* a stop is only right relative to terms that no longer change.           *)

IInv ==
    /\ TypeOK
    /\ StatusMatchesRows
    /\ ClosedTracksHaveOutcomes
    /\ FixedTrackUntouched
    /\ OneActiveSignal

\* The empty database satisfies it.
LEMMA InitInv == Init => IInv
<1> SUFFICES ASSUME Init PROVE IInv
  OBVIOUS
<1>1. TypeOK
  BY InitType
<1>2. StatusMatchesRows
  BY DEF Init, StatusMatchesRows, TrackActive, Variant
<1>3. ClosedTracksHaveOutcomes
  BY DEF Init, ClosedTracksHaveOutcomes, TrackActive
<1>4. FixedTrackUntouched
  BY DEF Init, FixedTrackUntouched, Variant
<1>5. OneActiveSignal
  BY DEF Init, OneActiveSignal
<1> QED BY <1>1, <1>2, <1>3, <1>4, <1>5 DEF IInv

\* A row is never the absence of a row.
LEMMA RowsAreNotNull ==
    /\ \A t \in Term : t # Null
    /\ \A row \in TrackRow : row # Null
    /\ \A closing \in Closing : closing # Null
    /\ \A payload \in Payload : payload # Null
BY NullAssumption

\* One signal's share of the invariants, and one track's.
RowsAgree(x, w) ==
    /\ (status[x] = "ABSENT") <=> (terms[x] = Null)
    /\ (status[x] \in {"ACTIVE", "CLOSED"}) <=> (trade[x] # Null)
    /\ (trade[x] # Null) <=> (track[x][w] # Null)
    /\ (status[x] = "ACTIVE") <=> TrackActive(x, "MANAGED")

OutcomeAgrees(x, w) ==
    /\ (outcome[x][w] # Null) <=> (track[x][w] # Null /\ ~TrackActive(x, w))
    /\ (outcome[x][w] # Null) <=> (snapshot[x][w] # Null)
    /\ outcome[x][w] # Null => track[x][w].realized_r = outcome[x][w].result_r

FixedKept(x) ==
    track[x]["FIXED"] # Null =>
        /\ track[x]["FIXED"].current_stop = terms[x].original_stop
        /\ track[x]["FIXED"].remaining_fraction = Whole
        /\ TrackActive(x, "FIXED") => track[x]["FIXED"].realized_r = 0

\* The status of a signal and its rows move together.
LEMMA NextRows == IInv /\ [Next]_ledgerVars => StatusMatchesRows'
<1> SUFFICES ASSUME IInv, [Next]_ledgerVars, NEW x \in SignalId, NEW w \in Variant
             PROVE  RowsAgree(x, w)'
  BY DEF StatusMatchesRows, RowsAgree, Variant
<1> USE DEF IInv
<1>0. RowsAgree(x, w) /\ RowsAgree(x, "MANAGED")
  BY DEF StatusMatchesRows, RowsAgree, Variant
<1>1. ASSUME NEW s \in SignalId, NEW t \in Term, NEW n \in NoticeKey, CreateSignal(s, t, n)
      PROVE  RowsAgree(x, w)'
  <2>1. /\ status'[x] = IF x = s THEN "PENDING" ELSE status[x]
        /\ terms'[x] = IF x = s THEN t ELSE terms[x]
        /\ trade'[x] = trade[x] /\ track'[x] = track[x]
    BY <1>1, CreateRows
  <2>2. status[s] = "ABSENT" /\ t # Null
    BY <1>1, RowsAreNotNull DEF CreateSignal, CreateAllowed
  <2> QED BY <1>0, <2>1, <2>2 DEF RowsAgree, TrackActive
<1>2. ASSUME NEW s \in SignalId, NEW fill \in Decimal, NEW at \in Time, NEW k \in DedupeKey,
             ActivateSignal(s, fill, at, k)
      PROVE  RowsAgree(x, w)'
  <2>1. status[s] = "PENDING"
    BY <1>2 DEF ActivateSignal, ActivateAllowed
  <2>2. CASE x = s
    <3>1. status'[x] = "ACTIVE" /\ terms'[x] = terms[x] /\ trade'[x] # Null
      BY <1>2, <2>2, ActivateRows
    <3>2. track'[x][w] # Null /\ TrackActive(x, "MANAGED")'
      BY <1>2, <2>2, OpenedRow DEF Variant
    <3> QED BY <1>0, <2>1, <2>2, <3>1, <3>2 DEF RowsAgree
  <2>3. CASE x # s
    BY <1>0, <1>2, <2>3, ActivateRows DEF RowsAgree, TrackActive
  <2> QED BY <2>2, <2>3
<1>3. ASSUME NEW s \in SignalId, NEW to \in {"EXPIRED", "CANCELLED"}, NEW k \in DedupeKey,
             TransitionPending(s, to, k)
      PROVE  RowsAgree(x, w)'
  BY <1>0, <1>3, ExpireRows DEF TransitionPending, TransitionAllowed, RowsAgree, TrackActive
<1>4. ASSUME NEW s \in SignalId, NEW v \in Variant, NEW closing \in Closing,
             NEW payload \in Payload, NEW k \in DedupeKey,
             CloseTrack(s, v, closing, payload, k)
      PROVE  RowsAgree(x, w)'
  <2>1. /\ status'[x] = IF x = s /\ v = "MANAGED" THEN "CLOSED" ELSE status[x]
        /\ terms'[x] = terms[x] /\ trade'[x] = trade[x]
        /\ (track'[x][w] = Null) <=> (track[x][w] = Null)
    BY <1>4, CloseRows
  <2>2. TrackActive(x, "MANAGED")' <=> TrackActive(x, "MANAGED") /\ ~(x = s /\ v = "MANAGED")
    BY <1>4, CloseRows DEF Variant
  <2>3. v = "MANAGED" => status[s] = "ACTIVE"
    BY <1>4 DEF CloseTrack, CloseAllowed
  <2> QED BY <1>0, <2>1, <2>2, <2>3 DEF RowsAgree
<1>5. ASSUME NEW s \in SignalId, NEW a \in Adjustment, NEW k \in DedupeKey,
             ApplyManagement(s, a, k)
      PROVE  RowsAgree(x, w)'
  BY <1>0, <1>5, ManagementRows DEF ApplyManagement, ManagementAllowed, RowsAgree, TrackActive, Variant
<1>6. ASSUME Elsewhere
      PROVE  RowsAgree(x, w)'
  BY <1>0, <1>6, ElsewhereRows DEF RowsAgree, TrackActive
<1> QED
  BY <1>1, <1>2, <1>3, <1>4, <1>5, <1>6
     DEF Next, Elsewhere, Create, Activate, Expire, Close, Manage

\* A track's outcome appears when the track closes, and only then.
LEMMA NextOutcomes == IInv /\ [Next]_ledgerVars => ClosedTracksHaveOutcomes'
<1> SUFFICES ASSUME IInv, [Next]_ledgerVars, NEW x \in SignalId, NEW w \in Variant
             PROVE  OutcomeAgrees(x, w)'
  BY DEF ClosedTracksHaveOutcomes, OutcomeAgrees
<1> USE DEF IInv
<1>0. RowsAgree(x, w) /\ OutcomeAgrees(x, w)
  BY DEF StatusMatchesRows, RowsAgree, ClosedTracksHaveOutcomes, OutcomeAgrees
<1>1. ASSUME NEW s \in SignalId, NEW t \in Term, NEW n \in NoticeKey, CreateSignal(s, t, n)
      PROVE  OutcomeAgrees(x, w)'
  BY <1>0, <1>1, CreateRows DEF OutcomeAgrees, TrackActive
<1>2. ASSUME NEW s \in SignalId, NEW fill \in Decimal, NEW at \in Time, NEW k \in DedupeKey,
             ActivateSignal(s, fill, at, k)
      PROVE  OutcomeAgrees(x, w)'
  BY <1>0, <1>2, ActivateRows DEF ActivateSignal, ActivateAllowed, RowsAgree, OutcomeAgrees, TrackActive
<1>3. ASSUME NEW s \in SignalId, NEW to \in {"EXPIRED", "CANCELLED"}, NEW k \in DedupeKey,
             TransitionPending(s, to, k)
      PROVE  OutcomeAgrees(x, w)'
  BY <1>0, <1>3, ExpireRows DEF OutcomeAgrees, TrackActive
<1>4. ASSUME NEW s \in SignalId, NEW v \in Variant, NEW closing \in Closing,
             NEW payload \in Payload, NEW k \in DedupeKey,
             CloseTrack(s, v, closing, payload, k)
      PROVE  OutcomeAgrees(x, w)'
  <2>1. TrackActive(s, v) /\ closing # Null /\ payload # Null
    BY <1>4, RowsAreNotNull DEF CloseTrack, CloseAllowed
  <2>2. CASE x = s /\ w = v
    <3>1. outcome'[x][w] = closing /\ snapshot'[x][w] = payload
      BY <1>4, <2>2, CloseRows
    <3>2. /\ track'[x][w] # Null /\ ~TrackActive(x, w)'
          /\ track'[x][w].realized_r = closing.result_r
      BY <1>4, <2>1, <2>2, CloseRows DEF TrackActive
    <3> QED BY <2>1, <3>1, <3>2 DEF OutcomeAgrees
  <2>3. CASE ~(x = s /\ w = v)
    BY <1>0, <1>4, <2>3, CloseRows DEF OutcomeAgrees
  <2> QED BY <2>2, <2>3
<1>5. ASSUME NEW s \in SignalId, NEW a \in Adjustment, NEW k \in DedupeKey,
             ApplyManagement(s, a, k)
      PROVE  OutcomeAgrees(x, w)'
  <2>1. /\ (track'[x][w] = Null) <=> (track[x][w] = Null)
        /\ TrackActive(x, w)' <=> TrackActive(x, w)
        /\ ~TrackActive(x, w) => track'[x][w] = track[x][w]
        /\ outcome'[x] = outcome[x] /\ snapshot'[x] = snapshot[x]
    BY <1>5, ManagementRows
  <2> QED BY <1>0, <2>1 DEF OutcomeAgrees
<1>6. ASSUME Elsewhere
      PROVE  OutcomeAgrees(x, w)'
  BY <1>0, <1>6, ElsewhereRows DEF OutcomeAgrees, TrackActive
<1> QED
  BY <1>1, <1>2, <1>3, <1>4, <1>5, <1>6
     DEF Next, Elsewhere, Create, Activate, Expire, Close, Manage

\* No command moves the FIXED track's stop or fraction.
LEMMA NextFixed == IInv /\ [Next]_ledgerVars => FixedTrackUntouched'
<1> SUFFICES ASSUME IInv, [Next]_ledgerVars, NEW x \in SignalId
             PROVE  FixedKept(x)'
  BY DEF FixedTrackUntouched, FixedKept
<1> USE DEF IInv
<1>0. RowsAgree(x, "FIXED") /\ FixedKept(x)
  BY DEF StatusMatchesRows, RowsAgree, FixedTrackUntouched, FixedKept, Variant
<1>1. ASSUME NEW s \in SignalId, NEW t \in Term, NEW n \in NoticeKey, CreateSignal(s, t, n)
      PROVE  FixedKept(x)'
  BY <1>0, <1>1, CreateRows DEF CreateSignal, CreateAllowed, RowsAgree, FixedKept, TrackActive
<1>2. ASSUME NEW s \in SignalId, NEW fill \in Decimal, NEW at \in Time, NEW k \in DedupeKey,
             ActivateSignal(s, fill, at, k)
      PROVE  FixedKept(x)'
  <2>1. CASE x = s
    <3>1. /\ track'[x]["FIXED"] = [track_status |-> "ACTIVE",
                                   current_stop |-> terms[s].original_stop,
                                   remaining_fraction |-> Whole, realized_r |-> 0]
          /\ terms'[x] = terms[x]
      BY <1>2, <2>1, ActivateRows DEF Variant
    <3> QED BY <2>1, <3>1 DEF FixedKept
  <2>2. CASE x # s
    BY <1>0, <1>2, <2>2, ActivateRows, ZenonT(40) DEF FixedKept, TrackActive
  <2> QED BY <2>1, <2>2
<1>3. ASSUME NEW s \in SignalId, NEW to \in {"EXPIRED", "CANCELLED"}, NEW k \in DedupeKey,
             TransitionPending(s, to, k)
      PROVE  FixedKept(x)'
  BY <1>0, <1>3, ExpireRows DEF FixedKept, TrackActive
<1>4. ASSUME NEW s \in SignalId, NEW v \in Variant, NEW closing \in Closing,
             NEW payload \in Payload, NEW k \in DedupeKey,
             CloseTrack(s, v, closing, payload, k)
      PROVE  FixedKept(x)'
  BY <1>0, <1>4, CloseRows, ZenonT(40)
     DEF CloseTrack, CloseAllowed, FixedKept, TrackActive, Variant, TypeOK, TrackRow
<1>5. ASSUME NEW s \in SignalId, NEW a \in Adjustment, NEW k \in DedupeKey,
             ApplyManagement(s, a, k)
      PROVE  FixedKept(x)'
  BY <1>0, <1>5, ManagementRows DEF FixedKept, TrackActive, Variant
<1>6. ASSUME Elsewhere
      PROVE  FixedKept(x)'
  BY <1>0, <1>6, ElsewhereRows DEF FixedKept, TrackActive
<1> QED
  BY <1>1, <1>2, <1>3, <1>4, <1>5, <1>6
     DEF Next, Elsewhere, Create, Activate, Expire, Close, Manage

\* An activation finds no other ACTIVE signal, and nothing else activates.
LEMMA NextActive == IInv /\ [Next]_ledgerVars => OneActiveSignal'
<1> SUFFICES ASSUME IInv, [Next]_ledgerVars, NEW x \in SignalId, NEW y \in SignalId,
                    status'[x] = "ACTIVE", status'[y] = "ACTIVE"
             PROVE  x = y
  BY DEF OneActiveSignal
<1> USE DEF IInv
<1>0. status[x] = "ACTIVE" /\ status[y] = "ACTIVE" => x = y
  BY DEF OneActiveSignal
<1>1. ASSUME NEW s \in SignalId, NEW t \in Term, NEW n \in NoticeKey, CreateSignal(s, t, n)
      PROVE  x = y
  BY <1>0, <1>1, CreateRows
<1>2. ASSUME NEW s \in SignalId, NEW fill \in Decimal, NEW at \in Time, NEW k \in DedupeKey,
             ActivateSignal(s, fill, at, k)
      PROVE  x = y
  BY <1>0, <1>2, ActivateRows DEF ActivateSignal, ActivateAllowed
<1>3. ASSUME NEW s \in SignalId, NEW to \in {"EXPIRED", "CANCELLED"}, NEW k \in DedupeKey,
             TransitionPending(s, to, k)
      PROVE  x = y
  BY <1>0, <1>3, ExpireRows
<1>4. ASSUME NEW s \in SignalId, NEW v \in Variant, NEW closing \in Closing,
             NEW payload \in Payload, NEW k \in DedupeKey,
             CloseTrack(s, v, closing, payload, k)
      PROVE  x = y
  BY <1>0, <1>4, CloseRows DEF Variant
<1>5. ASSUME NEW s \in SignalId, NEW a \in Adjustment, NEW k \in DedupeKey,
             ApplyManagement(s, a, k)
      PROVE  x = y
  BY <1>0, <1>5, ManagementRows DEF Variant
<1>6. ASSUME Elsewhere
      PROVE  x = y
  BY <1>0, <1>6, ElsewhereRows
<1> QED
  BY <1>1, <1>2, <1>3, <1>4, <1>5, <1>6
     DEF Next, Elsewhere, Create, Activate, Expire, Close, Manage

\* The invariant is inductive.
LEMMA NextInv == IInv /\ [Next]_ledgerVars => IInv'
BY NextType, NextRows, NextOutcomes, NextFixed, NextActive DEF IInv

\* The inductive invariant holds throughout.
LEMMA Invariance == Spec => []IInv
<1>1. Init => IInv
  BY InitInv
<1>2. IInv /\ [Next]_ledgerVars => IInv'
  BY NextInv
<1> QED BY <1>1, <1>2, PTL DEF Spec

----------------------------------------------------------------------------
(* The theorems. *)

\* Whatever commands arrive, every column keeps to its declared type.
THEOREM TypeCorrect == Spec => []TypeOK
<1>1. IInv => TypeOK
  BY DEF IInv
<1> QED BY <1>1, Invariance, PTL

\* The status of a signal and the rows that hang off it never part.
THEOREM RowsConsistent == Spec => []StatusMatchesRows
<1>1. IInv => StatusMatchesRows
  BY DEF IInv
<1> QED BY <1>1, Invariance, PTL

\* Every closed track has its outcome and snapshot, and no open one has.
THEOREM OutcomesConsistent == Spec => []ClosedTracksHaveOutcomes
<1>1. IInv => ClosedTracksHaveOutcomes
  BY DEF IInv
<1> QED BY <1>1, Invariance, PTL

\* The FIXED baseline is out of management's reach.
THEOREM FixedBaseline == Spec => []FixedTrackUntouched
<1>1. IInv => FixedTrackUntouched
  BY DEF IInv
<1> QED BY <1>1, Invariance, PTL

\* At most one signal is ACTIVE.
THEOREM SingleActive == Spec => []OneActiveSignal
<1>1. IInv => OneActiveSignal
  BY DEF IInv
<1> QED BY <1>1, Invariance, PTL

\* A used key moves no trade a second time.
THEOREM ReceiptPerChange == Spec => OneReceiptPerTradeChange
<1> DEFINE Fresh == \E k \in DedupeKey, op \in Operation :
                        /\ KeyUnused(k)
                        /\ receipt' = receipt \cup {Receipt(k, op)}
<1>1. [Next]_ledgerVars => [<<trade, track, outcome, decision>>' # <<trade, track, outcome, decision>>
                                => Fresh]_ledgerVars
  <2> SUFFICES ASSUME Next,
                      <<trade, track, outcome, decision>>' # <<trade, track, outcome, decision>>
               PROVE  Fresh
    OBVIOUS
  <2>1. CASE Activate
    BY <2>1 DEF Activate, ActivateSignal, ActivateAllowed, Operation
  <2>2. CASE Close
    BY <2>2 DEF Close, CloseTrack, CloseAllowed, Operation
  <2>3. CASE Manage
    BY <2>3 DEF Manage, ApplyManagement, ManagementAllowed, Operation
  <2>4. CASE Expire
    BY <2>4 DEF Expire, TransitionPending
  <2>5. CASE Create
    BY <2>5 DEF Create, CreateSignal
  <2>6. CASE Elsewhere
    BY <2>6 DEF Elsewhere, Allocate, AllocateSignalId, Advance, AdvanceCheckpoint,
                Enqueue, EnqueueNotification, ledgerVars, tradeVars
  <2> QED BY <2>1, <2>2, <2>3, <2>4, <2>5, <2>6 DEF Next, Elsewhere
<1> QED BY <1>1, PTL DEF Spec, OneReceiptPerTradeChange

\* Checkpoints never move back.
THEOREM CheckpointsMonotonic == Spec => CheckpointsMoveForward
<1> DEFINE Forward == \A key \in CheckpointKey :
               checkpoint[key] # Null =>
                   checkpoint'[key] # Null /\ checkpoint'[key] >= checkpoint[key]
<1>1. TypeOK /\ [Next]_ledgerVars => [Forward]_ledgerVars
  <2> SUFFICES ASSUME TypeOK, Next, NEW key \in CheckpointKey, checkpoint[key] # Null
               PROVE  checkpoint'[key] # Null /\ checkpoint'[key] >= checkpoint[key]
    BY DEF ledgerVars
  <2>1. checkpoint[key] \in Int
    BY TimeAssumption DEF TypeOK
  <2>2. CASE Advance
    BY <2>1, <2>2, TimeAssumption, NullAssumption
       DEF Advance, AdvanceCheckpoint, AdvanceAllowed, TypeOK
  <2>3. CASE ~Advance
    <3>1. CASE Allocate \/ Create \/ Enqueue
      BY <2>1, <3>1 DEF Allocate, AllocateSignalId, Create, CreateSignal, Enqueue, EnqueueNotification
    <3>2. CASE Activate \/ Expire
      BY <2>1, <3>2 DEF Activate, ActivateSignal, Expire, TransitionPending
    <3>3. CASE Close
      BY <2>1, <3>3 DEF Close, CloseTrack
    <3>4. CASE Manage
      BY <2>1, <3>4 DEF Manage, ApplyManagement
    <3> QED BY <2>3, <3>1, <3>2, <3>3, <3>4 DEF Next
  <2> QED BY <2>2, <2>3
<1> QED BY <1>1, TypeCorrect, PTL DEF Spec, CheckpointsMoveForward

\* What a step may do to the rows of one signal and the audit of them all.
Kept(x, w) ==
    /\ terms[x] # Null => terms'[x] = terms[x]
    /\ trade[x] # Null => trade'[x] = trade[x]
    /\ outcome[x][w] # Null => /\ outcome'[x][w] = outcome[x][w]
                               /\ snapshot'[x][w] = snapshot[x][w]
                               /\ track'[x][w] = track[x][w]

Grown == event \subseteq event' /\ decision \subseteq decision' /\ receipt \subseteq receipt'

\* No command deletes an audit row.
LEMMA AuditGrows == Next => Grown
<1> SUFFICES ASSUME Next PROVE Grown
  OBVIOUS
<1>1. CASE Elsewhere
  BY <1>1 DEF Elsewhere, Allocate, AllocateSignalId, Advance, AdvanceCheckpoint,
              Enqueue, EnqueueNotification, ledgerVars, tradeVars, Grown
<1>2. CASE Create
  BY <1>2 DEF Create, CreateSignal, Grown
<1>3. CASE Activate
  BY <1>3 DEF Activate, ActivateSignal, Grown
<1>4. CASE Expire
  BY <1>4 DEF Expire, TransitionPending, Grown
<1>5. CASE Close
  BY <1>5 DEF Close, CloseTrack, Grown
<1>6. CASE Manage
  BY <1>6 DEF Manage, ApplyManagement, Grown
<1> QED BY <1>1, <1>2, <1>3, <1>4, <1>5, <1>6 DEF Next, Elsewhere

\* No command rewrites a booked row: it would need the signal to be ABSENT, to
\* be PENDING, or the track to be open, and then there is nothing booked yet.
LEMMA RowsKept ==
    ASSUME IInv, Next, NEW x \in SignalId, NEW w \in Variant
    PROVE  Kept(x, w)
<1> USE DEF IInv
<1>0. RowsAgree(x, w) /\ OutcomeAgrees(x, w)
  BY DEF StatusMatchesRows, RowsAgree, ClosedTracksHaveOutcomes, OutcomeAgrees
<1>1. ASSUME NEW s \in SignalId, NEW t \in Term, NEW n \in NoticeKey, CreateSignal(s, t, n)
      PROVE  Kept(x, w)
  BY <1>0, <1>1, CreateRows DEF CreateSignal, CreateAllowed, RowsAgree, Kept
<1>2. ASSUME NEW s \in SignalId, NEW fill \in Decimal, NEW at \in Time, NEW k \in DedupeKey,
             ActivateSignal(s, fill, at, k)
      PROVE  Kept(x, w)
  <2>1. status[s] = "PENDING"
    BY <1>2 DEF ActivateSignal, ActivateAllowed
  <2>2. CASE x = s
    <3>1. trade[x] = Null /\ outcome[x][w] = Null
      BY <1>0, <2>1, <2>2 DEF RowsAgree, OutcomeAgrees
    <3>2. terms'[x] = terms[x]
      BY <1>2, ActivateRows
    <3> QED BY <3>1, <3>2 DEF Kept
  <2>3. CASE x # s
    BY <1>2, <2>3, ActivateRows DEF Kept
  <2> QED BY <2>2, <2>3
<1>3. ASSUME NEW s \in SignalId, NEW to \in {"EXPIRED", "CANCELLED"}, NEW k \in DedupeKey,
             TransitionPending(s, to, k)
      PROVE  Kept(x, w)
  BY <1>3, ExpireRows DEF Kept
<1>4. ASSUME NEW s \in SignalId, NEW v \in Variant, NEW closing \in Closing,
             NEW payload \in Payload, NEW k \in DedupeKey,
             CloseTrack(s, v, closing, payload, k)
      PROVE  Kept(x, w)
  <2>1. outcome[x][w] # Null => ~(x = s /\ w = v)
    BY <1>0, <1>4 DEF CloseTrack, CloseAllowed, OutcomeAgrees
  <2> QED BY <1>4, <2>1, CloseRows DEF Kept
<1>5. ASSUME NEW s \in SignalId, NEW a \in Adjustment, NEW k \in DedupeKey,
             ApplyManagement(s, a, k)
      PROVE  Kept(x, w)
  <2>1. /\ terms'[x] = terms[x] /\ trade'[x] = trade[x]
        /\ ~TrackActive(x, w) => track'[x][w] = track[x][w]
        /\ outcome'[x] = outcome[x] /\ snapshot'[x] = snapshot[x]
    BY <1>5, ManagementRows
  <2> QED BY <1>0, <2>1 DEF OutcomeAgrees, Kept
<1>6. ASSUME Elsewhere
      PROVE  Kept(x, w)
  BY <1>6, ElsewhereRows DEF Kept
<1> QED
  BY <1>1, <1>2, <1>3, <1>4, <1>5, <1>6
     DEF Next, Elsewhere, Create, Activate, Expire, Close, Manage

\* What was booked is never rewritten.
THEOREM AppendOnly == Spec => AuditIsAppendOnly
<1>1. IInv /\ [Next]_ledgerVars =>
        [ /\ \A s \in SignalId :
              /\ terms[s] # Null => terms'[s] = terms[s]
              /\ trade[s] # Null => trade'[s] = trade[s]
              /\ \A v \in Variant :
                    outcome[s][v] # Null => /\ outcome'[s][v] = outcome[s][v]
                                            /\ snapshot'[s][v] = snapshot[s][v]
                                            /\ track'[s][v] = track[s][v]
          /\ event \subseteq event'
          /\ decision \subseteq decision'
          /\ receipt \subseteq receipt' ]_ledgerVars
  BY AuditGrows, RowsKept DEF Kept, Grown, Variant
<1> QED BY <1>1, Invariance, PTL DEF Spec, AuditIsAppendOnly

----------------------------------------------------------------------------
(* Refinement: the ledger implements the life cycle of SignalLifecycle.tla,*)
(* for every choice of its constants.                                      *)

\* The lifecycle event of an audit row.
Entry(e) == [signal_id |-> e.signal_id, event_type |-> e.event_type]

JournalOf(rows) == {Entry(e) : e \in {x \in rows : IsTransition(x)}}

\* An audit row adds its own entry to the journal, if it is a transition.
LEMMA JournalGrows ==
    ASSUME NEW rows, NEW e
    PROVE  /\ IsTransition(e) => JournalOf(rows \cup {e}) = JournalOf(rows) \cup {Entry(e)}
           /\ ~IsTransition(e) => JournalOf(rows \cup {e}) = JournalOf(rows)
BY DEF JournalOf

\* The refinement mapping, before and after a step, is a function of trade_events.
LEMMA JournalIs == Journal = JournalOf(event) /\ Journal' = JournalOf(event')
BY DEF Journal, JournalOf, Entry

\* An empty audit trail is an empty journal.
LEMMA InitRefines == Init => Abstract!Init
<1> SUFFICES ASSUME Init PROVE Abstract!Init
  OBVIOUS
<1>1. Journal = {}
  BY DEF Init, Journal
<1> QED BY <1>1 DEF Init, Abstract!Init

\* A step that moves one status along the table and adds its entry is a step of
\* the life cycle.
LEMMA MovesRefine ==
    ASSUME TypeOK, NEW s \in SignalId, NEW to \in Status,
           to \in Abstract!Transitions[status[s]],
           to = "ACTIVE" => \A other \in SignalId : status[other] # "ACTIVE",
           status' = [status EXCEPT ![s] = to],
           Journal' = Journal \cup {[signal_id |-> s, event_type |-> Abstract!TransitionEvent[to]]}
    PROVE  Abstract!Next
<1>1. Abstract!Transition(s, to)
  BY DEF Abstract!Transition
<1>2. to \in Abstract!Status
  BY DEF Status, Abstract!Status
<1> QED BY <1>1, <1>2 DEF Abstract!Next

\* Every command is a transition of the life cycle, or leaves it alone.
LEMMA NextRefines == IInv /\ [Next]_ledgerVars => [Abstract!Next]_(Abstract!lifecycleVars)
<1> SUFFICES ASSUME IInv, [Next]_ledgerVars
             PROVE  Abstract!Next \/ (status' = status /\ Journal' = Journal)
  BY DEF Abstract!lifecycleVars
<1> USE DEF IInv
<1>1. ASSUME NEW s \in SignalId, NEW t \in Term, NEW n \in NoticeKey, CreateSignal(s, t, n)
      PROVE  Abstract!Next
  <2>1. Journal' = Journal \cup {[signal_id |-> s, event_type |-> "SIGNAL_CREATED"]}
    <3> DEFINE e == Event(s, Null, "SIGNAL_CREATED", Null)
    <3>1. IsTransition(e) /\ Entry(e) = [signal_id |-> s, event_type |-> "SIGNAL_CREATED"]
      BY DEF IsTransition, Event, Entry
    <3>2. event' = event \cup {e}
      BY <1>1 DEF CreateSignal
    <3> HIDE DEF e
    <3> QED BY <3>1, <3>2, JournalGrows, JournalIs
  <2>2. /\ status[s] = "ABSENT"
        /\ status' = [status EXCEPT ![s] = "PENDING"]
    BY <1>1 DEF CreateSignal, CreateAllowed
  <2>3. /\ "PENDING" \in Abstract!Transitions[status[s]]
        /\ Abstract!TransitionEvent["PENDING"] = "SIGNAL_CREATED"
    BY <2>2 DEF Abstract!Transitions, Abstract!TransitionEvent
  <2> QED BY <2>1, <2>2, <2>3, MovesRefine DEF Status
<1>2. ASSUME NEW s \in SignalId, NEW fill \in Decimal, NEW at \in Time, NEW k \in DedupeKey,
             ActivateSignal(s, fill, at, k)
      PROVE  Abstract!Next
  <2>1. Journal' = Journal \cup {[signal_id |-> s, event_type |-> "ENTRY_ACTIVATED"]}
    <3> DEFINE e == Event(s, Null, "ENTRY_ACTIVATED", k)
    <3>1. IsTransition(e) /\ Entry(e) = [signal_id |-> s, event_type |-> "ENTRY_ACTIVATED"]
      BY DEF IsTransition, Event, Entry
    <3>2. event' = event \cup {e}
      BY <1>2 DEF ActivateSignal
    <3> HIDE DEF e
    <3> QED BY <3>1, <3>2, JournalGrows, JournalIs
  <2>2. /\ status[s] = "PENDING"
        /\ \A other \in SignalId : status[other] # "ACTIVE"
        /\ status' = [status EXCEPT ![s] = "ACTIVE"]
    BY <1>2 DEF ActivateSignal, ActivateAllowed
  <2>3. /\ "ACTIVE" \in Abstract!Transitions[status[s]]
        /\ Abstract!TransitionEvent["ACTIVE"] = "ENTRY_ACTIVATED"
    BY <2>2 DEF Abstract!Transitions, Abstract!TransitionEvent
  <2> QED BY <2>1, <2>2, <2>3, MovesRefine DEF Status
<1>3. ASSUME NEW s \in SignalId, NEW to \in {"EXPIRED", "CANCELLED"}, NEW k \in DedupeKey,
             TransitionPending(s, to, k)
      PROVE  Abstract!Next
  <2> DEFINE type == IF to = "EXPIRED" THEN "ENTRY_EXPIRED" ELSE "SIGNAL_CANCELLED"
  <2>1. Journal' = Journal \cup {[signal_id |-> s, event_type |-> type]}
    <3> DEFINE e == Event(s, Null, type, k)
    <3>1. IsTransition(e) /\ Entry(e) = [signal_id |-> s, event_type |-> type]
      BY DEF IsTransition, Event, Entry
    <3>2. event' = event \cup {e}
      BY <1>3 DEF TransitionPending
    <3> HIDE DEF e
    <3> QED BY <3>1, <3>2, JournalGrows, JournalIs
  <2>2. status[s] = "PENDING" /\ status' = [status EXCEPT ![s] = to]
    BY <1>3 DEF TransitionPending, TransitionAllowed
  <2>3. to \in Abstract!Transitions[status[s]] /\ Abstract!TransitionEvent[to] = type
    BY <2>2 DEF Abstract!Transitions, Abstract!TransitionEvent
  <2> QED BY <2>1, <2>2, <2>3, MovesRefine DEF Status
\* A close adds two rows; only the second, and only of MANAGED, is a transition.
<1>4. ASSUME NEW s \in SignalId, NEW v \in Variant, NEW closing \in Closing,
             NEW payload \in Payload, NEW k \in DedupeKey,
             CloseTrack(s, v, closing, payload, k)
      PROVE  Abstract!Next \/ (status' = status /\ Journal' = Journal)
  <2> DEFINE e == Event(s, v, closing.close_event, k)
             f == Event(s, v, "CLOSED", k)
  <2>1. ~IsTransition(e)
    BY ClosingAssumption DEF IsTransition, Event, CloseEvent
  <2>2. /\ IsTransition(f) <=> v = "MANAGED"
        /\ Entry(f) = [signal_id |-> s, event_type |-> "CLOSED"]
    BY DEF IsTransition, Event, Entry
  <2>3. event' = (event \cup {e}) \cup {f}
    BY <1>4 DEF CloseTrack
  <2> HIDE DEF e, f
  <2>4. JournalOf(event \cup {e}) = JournalOf(event)
    BY <2>1, JournalGrows
  <2>5. CASE v = "MANAGED"
    <3>1. Journal' = Journal \cup {[signal_id |-> s, event_type |-> "CLOSED"]}
      <4>1. JournalOf((event \cup {e}) \cup {f}) = JournalOf(event \cup {e}) \cup {Entry(f)}
        BY <2>2, <2>5, JournalGrows
      <4> QED BY <2>2, <2>3, <2>4, <4>1, JournalIs
    <3>2. status[s] = "ACTIVE" /\ status' = [status EXCEPT ![s] = "CLOSED"]
      BY <1>4, <2>5 DEF CloseTrack, CloseAllowed
    <3>3. /\ "CLOSED" \in Abstract!Transitions[status[s]]
          /\ Abstract!TransitionEvent["CLOSED"] = "CLOSED"
      BY <3>2 DEF Abstract!Transitions, Abstract!TransitionEvent
    <3> QED BY <3>1, <3>2, <3>3, MovesRefine DEF Status
  <2>6. CASE v # "MANAGED"
    <3>1. Journal' = Journal
      <4>1. JournalOf((event \cup {e}) \cup {f}) = JournalOf(event \cup {e})
        BY <2>2, <2>6, JournalGrows
      <4> QED BY <2>3, <2>4, <4>1, JournalIs
    <3>2. status' = status
      BY <1>4, <2>6 DEF CloseTrack
    <3> QED BY <3>1, <3>2
  <2> QED BY <2>5, <2>6
<1>5. ASSUME NEW s \in SignalId, NEW a \in Adjustment, NEW k \in DedupeKey,
             ApplyManagement(s, a, k)
      PROVE  status' = status /\ Journal' = Journal
  <2> DEFINE e == Event(s, "MANAGED", "MANAGEMENT_DECISION", k)
  <2>1. ~IsTransition(e)
    BY DEF IsTransition, Event
  <2>2. event' = event \cup {e} /\ status' = status
    BY <1>5 DEF ApplyManagement
  <2> HIDE DEF e
  <2> QED BY <2>1, <2>2, JournalGrows, JournalIs
<1>6. ASSUME Elsewhere
      PROVE  status' = status /\ Journal' = Journal
  <2>1. event' = event /\ status' = status
    BY <1>6 DEF Elsewhere, Allocate, AllocateSignalId, Advance, AdvanceCheckpoint,
                Enqueue, EnqueueNotification, ledgerVars, tradeVars
  <2> QED BY <2>1, JournalIs
<1> QED
  BY <1>1, <1>2, <1>3, <1>4, <1>5, <1>6
     DEF Next, Elsewhere, Create, Activate, Expire, Close, Manage

\* The status column and the audit trail of the ledger are a run of the life
\* cycle the domain prescribes.
THEOREM Refinement == Spec => ImplementsLifecycle
<1>1. Init => Abstract!Init
  BY InitRefines
<1>2. IInv /\ [Next]_ledgerVars => [Abstract!Next]_(Abstract!lifecycleVars)
  BY NextRefines
<1> QED BY <1>1, <1>2, Invariance, PTL DEF Spec, ImplementsLifecycle, Abstract!Spec

\* Each transition of the table extends the path by its own event.
LEMMA PathExtends ==
    ASSUME NEW from \in Status, NEW to \in Abstract!Transitions[from]
    PROVE  /\ to \in Status
           /\ Abstract!Path[to] = Abstract!Path[from] \cup {Abstract!TransitionEvent[to]}
<1>1. CASE from = "ABSENT"
  BY <1>1 DEF Status, Abstract!Transitions, Abstract!Path, Abstract!TransitionEvent
<1>2. CASE from = "PENDING"
  BY <1>2 DEF Status, Abstract!Transitions, Abstract!Path, Abstract!TransitionEvent
<1>3. CASE from = "ACTIVE"
  BY <1>3 DEF Status, Abstract!Transitions, Abstract!Path, Abstract!TransitionEvent
<1>4. CASE from \in {"EXPIRED", "CANCELLED", "CLOSED"}
  BY <1>4 DEF Abstract!Transitions
<1> QED BY <1>1, <1>2, <1>3, <1>4 DEF Status

\* So a step of the life cycle keeps journal and status together.
LEMMA NextTells ==
    TypeOK /\ JournalTellsStatus /\ [Abstract!Next]_(Abstract!lifecycleVars) => JournalTellsStatus'
<1> SUFFICES ASSUME TypeOK, JournalTellsStatus, [Abstract!Next]_(Abstract!lifecycleVars),
                    NEW x \in SignalId, NEW type \in Abstract!LifecycleEvent
             PROVE  [signal_id |-> x, event_type |-> type] \in Journal'
                        <=> type \in Abstract!Path[status'[x]]
  BY DEF JournalTellsStatus, Abstract!JournalTellsStatus
<1>1. [signal_id |-> x, event_type |-> type] \in Journal <=> type \in Abstract!Path[status[x]]
  BY DEF JournalTellsStatus, Abstract!JournalTellsStatus
<1>2. ASSUME NEW s \in SignalId, NEW to \in Abstract!Status, Abstract!Transition(s, to)
      PROVE  [signal_id |-> x, event_type |-> type] \in Journal'
                 <=> type \in Abstract!Path[status'[x]]
  <2>1. /\ to \in Abstract!Transitions[status[s]]
        /\ status' = [status EXCEPT ![s] = to]
        /\ Journal' = Journal \cup {[signal_id |-> s, event_type |-> Abstract!TransitionEvent[to]]}
    BY <1>2 DEF Abstract!Transition
  <2>2. CASE x = s
    <3>1. status[x] \in Status /\ status'[x] = to
      BY <2>1, <2>2 DEF TypeOK
    <3>2. Abstract!Path[to] = Abstract!Path[status[x]] \cup {Abstract!TransitionEvent[to]}
      BY <2>1, <2>2, <3>1, PathExtends
    <3>3. [signal_id |-> x, event_type |-> type] \in Journal'
              <=> \/ [signal_id |-> x, event_type |-> type] \in Journal
                  \/ type = Abstract!TransitionEvent[to]
      BY <2>1, <2>2
    <3> QED BY <1>1, <3>1, <3>2, <3>3
  <2>3. CASE x # s
    <3>1. status'[x] = status[x]
      BY <2>1, <2>3 DEF TypeOK
    <3>2. [signal_id |-> x, event_type |-> type] \in Journal'
              <=> [signal_id |-> x, event_type |-> type] \in Journal
      BY <2>1, <2>3
    <3> QED BY <1>1, <3>1, <3>2
  <2> QED BY <2>2, <2>3
<1> QED BY <1>1, <1>2 DEF Abstract!Next, Abstract!lifecycleVars

\* The audit trail alone tells the status of every signal.
THEOREM AuditTellsStatus == Spec => []JournalTellsStatus
<1>1. Init => JournalTellsStatus
  <2> SUFFICES ASSUME Init PROVE JournalTellsStatus
    OBVIOUS
  <2>1. Journal = {} /\ \A s \in SignalId : status[s] = "ABSENT"
    BY DEF Init, Journal
  <2> QED BY <2>1 DEF JournalTellsStatus, Abstract!JournalTellsStatus, Abstract!Path
<1>2. IInv /\ JournalTellsStatus /\ [Next]_ledgerVars => JournalTellsStatus'
  BY NextRefines, NextTells DEF IInv
<1> QED BY <1>1, <1>2, Invariance, PTL DEF Spec

============================================================================
