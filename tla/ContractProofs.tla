--------------------------- MODULE ContractProofs ---------------------------
(***************************************************************************)
(* What the engine promises of its books and its messages, for every       *)
(* market, every number of faults and every command that arrives late: a   *)
(* booked result is what it says, the statistics miss no outcome, and no   *)
(* message is false.                                                       *)
(***************************************************************************)
EXTENDS ReplayContract, EngineProofs

----------------------------------------------------------------------------
(* Where the commands come from.                                           *)

ManageCommand ==
    Command("apply_management_decision", Signal, run.cursor,
            CommandKey(Signal, run.cursor, "management", ""),
            Decision(Terms, trade[Signal], track[Signal]["MANAGED"], Candle(run.cursor),
                     OnActivationCandle))

\* The commands that move a trade, where the run plans them.
Plans(c) ==
    \/ Expires /\ c = ExpireCommand
    \/ Activates /\ c = ActivateCommand
    \/ \E v \in Variant : Leaves(v) /\ c = CloseCommand(v)
    \/ TrackActive(Signal, "MANAGED") /\ c = ManageCommand

\* The commands that do not.
Quiet(c) ==
    c.operation \in {"allocate_signal_id", "create_signal", "enqueue_notification",
                     "advance_checkpoint"}

\* What is new in the list of a run that has planned.
Prospect(c) ==
    \/ Quiet(c)
    \/ run.queue # <<>> /\ run.cursor < clock /\ UNCHANGED ledgerVars /\ Plans(c)

Listed(c, list) == \E n \in 1..Len(list) : list[n] = c

LEMMA ListedJoin ==
    ASSUME NEW a \in Seq(EngineCommand), NEW b \in Seq(EngineCommand), NEW c, Listed(c, a \o b)
    PROVE  Listed(c, a) \/ Listed(c, b)
<1> HIDE DEF EngineCommand
<1>1. /\ Len(a) \in Nat /\ Len(b) \in Nat /\ Len(a \o b) = Len(a) + Len(b)
      /\ \A n \in 1..Len(a) : (a \o b)[n] = a[n]
      /\ \A n \in (Len(a) + 1)..(Len(a) + Len(b)) : (a \o b)[n] = b[n - Len(a)]
  BY ConcatProperties, LenProperties
<1> DEFINE ab == a \o b
<1> HIDE DEF ab
<1>2. PICK n \in 1..Len(ab) : ab[n] = c
  BY DEF Listed, ab
<1>3. CASE n <= Len(a)
  BY <1>1, <1>2, <1>3 DEF Listed, ab
<1>4. CASE n > Len(a)
  <2>1. n - Len(a) \in 1..Len(b) /\ b[n - Len(a)] = c
    BY <1>1, <1>2, <1>4 DEF ab
  <2> QED BY <2>1 DEF Listed
<1> QED BY <1>1, <1>2, <1>3, <1>4 DEF ab

LEMMA ListedSends ==
    ASSUME NEW s, NEW i, NEW actions \in Seq(Announcement), NEW c, Listed(c, Enqueues(s, i, actions))
    PROVE  Quiet(c)
<1>1. /\ Len(Enqueues(s, i, actions)) = Len(actions)
      /\ \A n \in 1..Len(actions) :
            Enqueues(s, i, actions)[n] = Command("enqueue_notification", s, i,
                                                 Notice(s, i, actions[n]), Null)
  <2>1. Len(actions) \in Nat
    BY LenProperties
  <2> QED BY <2>1 DEF Enqueues
<1>2. PICK n \in 1..Len(actions) : Enqueues(s, i, actions)[n] = c
  BY <1>1 DEF Listed
<1>3. c = Command("enqueue_notification", s, i, Notice(s, i, actions[n]), Null)
  BY <1>1, <1>2
<1> QED BY <1>3 DEF Command, Quiet

\* The exits, the checkpoint and the messages of one candle.
LEMMA ExitPlans ==
    ASSUME WideColumns, EngineInv, run.queue # <<>>, run.cursor < clock, UNCHANGED ledgerVars,
           NEW c, Listed(c, ExitCommands)
    PROVE  Prospect(c)
<1>1. /\ CloseCommands \in Seq(EngineCommand) /\ MarkResolved \in Seq(EngineCommand)
      /\ AnnounceCandle \in Seq(EngineCommand) /\ run.actions \o ExitActions \in Seq(Announcement)
  <2>1. run.actions \in Seq(Announcement) /\ ExitActions \in Seq(Announcement)
    BY ExitActionsType DEF EngineInv, EngineTypeOK, RunType
  <2> QED BY <2>1, ExitCommandsType, ConcatProperties
<1>2. Listed(c, CloseCommands) \/ Listed(c, MarkResolved) \/ Listed(c, AnnounceCandle)
  <2>1. CloseCommands \o MarkResolved \in Seq(EngineCommand)
    BY <1>1, ConcatProperties
  <2>2. Listed(c, CloseCommands \o MarkResolved) \/ Listed(c, AnnounceCandle)
    BY <1>1, <2>1, ListedJoin DEF ExitCommands
  <2> QED BY <1>1, <2>2, ListedJoin
<1>3. CASE Listed(c, CloseCommands)
  <2>1. Len(Exiting) \in Nat /\ Exiting \in Seq(Variant)
    BY ExitingIs, LenProperties
  <2>2. PICK n \in 1..Len(Exiting) : c = CloseCommand(Exiting[n])
    BY <1>3, <2>1 DEF CloseCommands, Listed
  <2>3. Leaves(Exiting[n]) /\ Exiting[n] \in Variant
    BY <2>1, <2>2, ExitingIs, ElementOfSeq
  <2> QED BY <2>2, <2>3 DEF Prospect, Plans
<1>4. CASE Listed(c, MarkResolved)
  <2> DEFINE mark == Command("advance_checkpoint", Signal, run.cursor,
                             LifecycleCheckpoint(Signal), Null)
  <2>1. Quiet(mark)
    BY DEF Command, Quiet
  <2>2. Listed(c, <<mark>>)
    BY <1>4 DEF MarkResolved
  <2> HIDE DEF mark
  <2>3. c = mark
    BY <2>2 DEF Listed
  <2> QED BY <2>1, <2>3 DEF Prospect
<1>5. CASE Listed(c, AnnounceCandle)
  BY <1>1, <1>5, ListedSends DEF AnnounceCandle, Prospect
<1> QED BY <1>2, <1>3, <1>4, <1>5

LEMMA DecidePlans ==
    ASSUME WideColumns, EngineInv, run.queue # <<>>, run.cursor < clock, UNCHANGED ledgerVars,
           TrackActive(Signal, "MANAGED"), NEW c, Listed(c, Decide(run.cursor))
    PROVE  Prospect(c)
<1> DEFINE i == run.cursor
           d == Decision(Terms, trade[Signal], track[Signal]["MANAGED"], Candle(i),
                         OnActivationCandle)
           k == CommandKey(Signal, i, "management", "")
           mark == Command("advance_checkpoint", Signal, i, ManagementCheckpoint(Signal), Null)
           apply == Command("apply_management_decision", Signal, i, k, d)
           tell == IF d.changes_managed_result
                   THEN Enqueues(Signal, i, <<DecisionAction(d)>>) ELSE <<>>
<1>1. apply = ManageCommand /\ Quiet(mark)
  BY DEF Command, Quiet, ManageCommand
<1>2. Signal \in SignalId /\ i \in Minute /\ <<DecisionAction(d)>> \in Seq(Announcement)
  BY MonitoredSignal DEF EngineInv, EngineTypeOK, RunType, DecisionAction, Announcement
<1>3. apply \in EngineCommand /\ mark \in EngineCommand
  BY PlannedDecisionType
<1>4. tell \in Seq(EngineCommand)
  BY <1>2, EnqueuesType, EmptySeq
<1>5. Decide(i) = IF DecisionExists(k) THEN <<mark>> ELSE <<apply, mark>> \o tell
  BY DEF Decide
<1>6. Listed(c, tell) => Quiet(c)
  <2>1. ~Listed(c, <<>>)
    BY EmptySeq DEF Listed
  <2> QED BY <1>2, <2>1, ListedSends
<1> HIDE DEF tell, apply, mark, d, k, EngineCommand
<1>7. Listed(c, <<mark>>) => c = mark
  BY DEF Listed
<1>8. Listed(c, <<apply, mark>>) => c \in {apply, mark}
  <2>1. Len(<<apply, mark>>) = 2 /\ <<apply, mark>>[1] = apply /\ <<apply, mark>>[2] = mark
    OBVIOUS
  <2> QED BY <2>1 DEF Listed
<1>9. Listed(c, <<apply, mark>> \o tell) => Listed(c, <<apply, mark>>) \/ Listed(c, tell)
  <2>1. <<apply, mark>> \in Seq(EngineCommand)
    BY <1>3
  <2> QED BY <1>4, <2>1, ListedJoin
<1>10. c \in {apply, mark} \/ Quiet(c)
  BY <1>5, <1>6, <1>7, <1>8, <1>9
<1> QED BY <1>1, <1>10 DEF Prospect, Plans

\* Whatever a run does next, each command in its list was there before, moves no
\* trade, or is planned from the ledger as it stands.
LEMMA NextList ==
    ASSUME WideColumns, EngineInv, [EngineNext]_vars
    PROVE  \A c : Listed(c, run'.todo) => Listed(c, run.todo) \/ Prospect(c)
<1>0. RunType(run) /\ run.todo \in Seq(EngineCommand) /\ ~\E c : Listed(c, <<>>)
  BY EmptySeq DEF EngineInv, EngineTypeOK, RunType, Listed
<1>1. CASE run'.todo = <<>>
  BY <1>0, <1>1
<1>2. CASE run'.todo = run.todo
  BY <1>2
<1>3. CASE run' \in {Failed, Idle}
  <2>1. Failed.todo = <<>> /\ Idle.todo = <<>>
    BY DEF Failed, Idle
  <2> QED BY <1>1, <1>3, <2>1
<1>4. CASE Start
  <2> DEFINE idle == Idle
  <2>1. run' = [idle EXCEPT !.phase = "load", !.now = clock] /\ RunType(idle) /\ idle.todo = <<>>
    BY <1>4, RestingRuns DEF Start, EngineInv, Idle
  <2> HIDE DEF idle
  <2>2. run'.todo = <<>>
    BY <2>1 DEF RunType
  <2> QED BY <1>1, <2>2
<1>5. CASE Load
  <2>1. PICK queue, active : run' = [run EXCEPT !.phase = "collect", !.paused = paused,
                !.queue = queue, !.last = LastSignalAt, !.active = active]
    BY <1>5 DEF Load
  <2> QED BY <1>0, <1>2, <2>1 DEF RunType
<1>6. CASE Collect
  BY <1>0, <1>2, <1>6 DEF Collect, RunType
<1>7. CASE EndSignal
  BY <1>0, <1>2, <1>7 DEF EndSignal, RunType
<1>8. CASE PlanEntry
  <2>1. CASE run' = [run EXCEPT !.phase = "manage"]
    BY <1>0, <1>2, <2>1 DEF RunType
  <2>2. CASE run' = [run EXCEPT !.phase = "exit", !.actions = EntryActions, !.todo = EntryCommands]
    <3>1. run'.todo = EntryCommands
      BY <1>0, <2>2 DEF RunType
    <3>2. run.queue # <<>> /\ run.cursor < clock /\ UNCHANGED ledgerVars
      BY <1>8, Bounds DEF PlanEntry, AtCandle, EngineInv
    <3>3. ASSUME NEW c, Listed(c, EntryCommands) PROVE Prospect(c)
      <4>1. CASE Expires
        <5>1. Listed(c, <<ExpireCommand>>)
          BY <3>3, <4>1 DEF EntryCommands
        <5>2. PICK x : x = ExpireCommand
          OBVIOUS
        <5>3. c = x
          BY <5>1, <5>2 DEF Listed
        <5> QED BY <3>2, <4>1, <5>2, <5>3 DEF Prospect, Plans
      <4>2. CASE ~Expires /\ Activates
        <5>1. Listed(c, <<ActivateCommand>>)
          BY <3>3, <4>2 DEF EntryCommands
        <5>2. PICK x : x = ActivateCommand
          OBVIOUS
        <5>3. c = x
          BY <5>1, <5>2 DEF Listed
        <5> QED BY <3>2, <4>2, <5>2, <5>3 DEF Prospect, Plans
      <4>3. CASE ~Expires /\ ~Activates
        BY <1>0, <3>3, <4>3 DEF EntryCommands
      <4> QED BY <4>1, <4>2, <4>3
    <3> QED BY <3>1, <3>3
  <2> QED BY <1>3, <1>8, <2>1, <2>2 DEF PlanEntry
<1>9. CASE PlanExit
  <2>1. run'.todo = ExitCommands
    BY <1>0, <1>9 DEF PlanExit, RunType
  <2>2. run.queue # <<>> /\ run.cursor < clock /\ UNCHANGED ledgerVars
    BY <1>9, Bounds DEF PlanExit, Planning, EngineInv, EngineTypeOK, RunPlace
  <2> QED BY <2>1, <2>2, ExitPlans
<1>10. CASE PlanManagement
  <2>1. CASE /\ Managing
             /\ run' = [run EXCEPT !.phase = "entry", !.cursor = @ + 1, !.todo = Decide(run.cursor)]
    <3>1. run'.todo = Decide(run.cursor)
      BY <1>0, <2>1 DEF RunType
    <3>2. /\ run.queue # <<>> /\ run.cursor < clock /\ TrackActive(Signal, "MANAGED")
          /\ UNCHANGED ledgerVars
      BY <1>10, <2>1, Bounds DEF PlanManagement, Planning, EngineInv, EngineTypeOK, RunPlace, Managing
    <3> QED BY <3>1, <3>2, DecidePlans
  <2>2. CASE run' = [run EXCEPT !.phase = "entry", !.cursor = @ + 1]
    BY <1>0, <1>2, <2>2 DEF RunType
  <2> QED BY <1>3, <1>10, <2>1, <2>2 DEF PlanManagement
<1>11. CASE Evaluate
  <2>1. CASE run' = [run EXCEPT !.phase = "report"]
    BY <1>0, <1>2, <2>1 DEF RunType
  <2>2. ASSUME NEW setup, NEW aligned,
               run' = [run EXCEPT !.phase = "report",
                         !.todo = <<Command("allocate_signal_id", Null, run.now, DateOf[run.now],
                                            NewTerms(setup, aligned))>>]
        PROVE  \A c : Listed(c, run'.todo) => Quiet(c)
    <3> DEFINE x == Command("allocate_signal_id", Null, run.now, DateOf[run.now],
                            NewTerms(setup, aligned))
    <3>1. Quiet(x)
      BY DEF Command, Quiet
    <3>2. run' = [run EXCEPT !.phase = "report", !.todo = <<x>>]
      BY <2>2
    <3> HIDE DEF x
    <3>3. run'.todo = <<x>>
      BY <1>0, <3>2 DEF RunType
    <3> QED BY <3>1, <3>3 DEF Listed
  <2> QED BY <1>11, <2>1, <2>2 DEF Evaluate, Prospect
<1>12. CASE Report
  <2> DEFINE list == <<"REPORT">>
             sends == Enqueues(Null, run.now, list)
  <2>1. list \in Seq(Announcement)
    BY DEF Announcement
  <2>2. run' = [run EXCEPT !.phase = "record",
                  !.todo = IF ~run.paused /\ run.now \in ReportMinutes THEN sends ELSE <<>>]
    BY <1>12 DEF Report
  <2> HIDE DEF list
  <2>3. \A c : Listed(c, sends) => Quiet(c)
    BY <2>1, ListedSends
  <2> HIDE DEF sends
  <2>4. run'.todo = sends \/ run'.todo = <<>>
    BY <1>0, <2>2 DEF RunType
  <2> QED BY <1>1, <2>3, <2>4 DEF Prospect
<1>13. CASE Send
  <2>1. PICK h : h = Prepared(Head(run.todo))
    OBVIOUS
  <2>2. run.todo # <<>> /\ run' = IF Accepted(h) THEN AfterReply(h) ELSE Failed
    BY <1>13, <2>1 DEF Send
  <2>3. CASE ~Accepted(h)
    BY <1>3, <2>2, <2>3
  <2>4. CASE Accepted(h) /\ h.operation = "allocate_signal_id"
    <3> DEFINE s == <<h.key, sequence'[h.key]>>
               create == Command("create_signal", s, run.now, CreatedNotice(s), h.data)
               tell == Command("enqueue_notification", s, run.now, CreatedNotice(s), Null)
    <3>1. run' = [run EXCEPT !.todo = <<create, tell>>]
      BY <2>2, <2>4 DEF AfterReply, CreateCommands
    <3>2. Quiet(create) /\ Quiet(tell)
      BY DEF Command, Quiet
    <3> HIDE DEF create, tell
    <3>3. run'.todo = <<create, tell>>
      BY <1>0, <3>1 DEF RunType
    <3>4. Len(<<create, tell>>) = 2 /\ <<create, tell>>[1] = create /\ <<create, tell>>[2] = tell
      OBVIOUS
    <3> QED BY <3>2, <3>3, <3>4 DEF Listed, Prospect
  <2>5. CASE Accepted(h) /\ h.operation # "allocate_signal_id"
    <3>1. run' = [run EXCEPT !.todo = Tail(run.todo)]
      BY <2>2, <2>5 DEF AfterReply
    <3>2. run'.todo = Tail(run.todo)
      BY <1>0, <3>1 DEF RunType
    <3>3. \A m \in 1..Len(Tail(run.todo)) :
             m + 1 \in 1..Len(run.todo) /\ Tail(run.todo)[m] = run.todo[m + 1]
      <4> HIDE DEF EngineCommand
      <4> QED BY <1>0, <2>2
    <3> QED BY <3>2, <3>3 DEF Listed
  <2> QED BY <2>3, <2>4, <2>5
<1>14. CASE ArriveLate \/ Tick \/ TogglePause \/ UNCHANGED vars
  BY <1>2, <1>14 DEF ArriveLate, Tick, TogglePause, vars, engineVars
<1>15. CASE LoseReply \/ GiveUp \/ ReadFails \/ Kill \/ Record
  BY <1>3, <1>15 DEF LoseReply, GiveUp, ReadFails, Kill, Record
<1> QED BY <1>4, <1>5, <1>6, <1>7, <1>8, <1>9, <1>10, <1>11, <1>12, <1>13, <1>14, <1>15
       DEF EngineNext, RunStep

\* The late commands: each was sent by a run that gave up on it.
LEMMA NextLate ==
    ASSUME WideColumns, EngineInv, [EngineNext]_vars
    PROVE  \A c \in late' :
              \/ c \in late
              \/ /\ run.todo # <<>> /\ c = Prepared(Head(run.todo)) /\ UNCHANGED ledgerVars
                 /\ Head(run.todo).operation \in LateOps
<1>1. CASE GiveUp
  BY <1>1 DEF GiveUp
<1>2. CASE ArriveLate
  BY <1>2 DEF ArriveLate
<1>3. CASE late' = late
  BY <1>3
<1> QED BY <1>1, <1>2, <1>3 DEF EngineNext, RunStep, Start, Load, Collect, PlanEntry, PlanExit,
       PlanManagement, EndSignal, Evaluate, Report, Record, Send, LoseReply, ReadFails, Kill, Tick,
       TogglePause, vars, engineVars, environment

\* A step changes the ledger only by executing a command that was sent.
LEMMA LedgerMoves ==
    ASSUME WideColumns, EngineInv, [EngineNext]_vars
    PROVE  \/ UNCHANGED ledgerVars
           \/ \E c \in EngineCommand :
                 /\ Executes(c)
                 /\ c \in late \/ (run.todo # <<>> /\ c = Prepared(Head(run.todo)))
<1>1. run.todo # <<>> => Prepared(Head(run.todo)) \in EngineCommand
  BY NextCommand DEF EngineInv
<1>2. CASE Send \/ LoseReply
  BY <1>1, <1>2 DEF Send, LoseReply
<1>3. CASE ArriveLate
  BY <1>3 DEF ArriveLate, EngineInv, EngineTypeOK
<1>4. CASE UNCHANGED ledgerVars
  BY <1>4
<1> QED BY <1>2, <1>3, <1>4 DEF EngineNext, RunStep, Start, Load, Collect, PlanEntry, PlanExit,
       PlanManagement, EndSignal, Evaluate, Report, Record, GiveUp, ReadFails, Kill, Tick,
       TogglePause, vars

----------------------------------------------------------------------------
(* The statistics.                                                         *)

LateAllowed == \A c \in late : c.operation \in LateOps

\* Only a close touches the outcomes and their snapshots.
LEMMA OnlyClosesBook ==
    ASSUME NEW c, Executes(c)
    PROVE  \/ UNCHANGED <<outcome, snapshot>>
           \/ /\ c.operation = "close_track"
              /\ CloseTrack(c.signal_id, c.data.variant, c.data.closing, c.data.payload, c.key)
<1>1. CASE Applies(c)
  <2>1. \/ /\ c.operation = "close_track"
           /\ CloseTrack(c.signal_id, c.data.variant, c.data.closing, c.data.payload, c.key)
        \/ AllocateSignalId(c.key)
        \/ CreateSignal(c.signal_id, c.data, c.key)
        \/ ActivateSignal(c.signal_id, c.data.fill_price, c.at, c.key)
        \/ TransitionPending(c.signal_id, "EXPIRED", c.key)
        \/ AdvanceCheckpoint(c.key, c.at)
        \/ ApplyManagement(c.signal_id, c.data, c.key)
        \/ EnqueueNotification(c.key)
    BY <1>1 DEF Applies
  <2> QED BY <2>1 DEF AllocateSignalId, CreateSignal, ActivateSignal, TransitionPending,
        AdvanceCheckpoint, ApplyManagement, EnqueueNotification, tradeVars
<1> QED BY <1>1 DEF Executes, ledgerVars, tradeVars

\* A close that was prepared against the outcomes it finds counts them all.
LEMMA PreparedCounts ==
    ASSUME WideColumns, EngineInv, NEW h \in EngineCommand, Executes(Prepared(h)),
           StatisticsComplete
    PROVE  StatisticsComplete'
<1> DEFINE c == Prepared(h)
<1>0. c \in EngineCommand /\ c.operation = h.operation
  BY PreparedType
<1>1. CASE UNCHANGED <<outcome, snapshot>>
  <2>1. Samples' = Samples
    BY <1>1 DEF Samples
  <2> QED BY <1>1, <2>1 DEF StatisticsComplete
<1>2. CASE /\ c.operation = "close_track"
           /\ CloseTrack(c.signal_id, c.data.variant, c.data.closing, c.data.payload, c.key)
  <2>1. PICK s \in SignalId, v \in Variant, closing \in Closing, payload \in Payload :
           /\ s = c.signal_id /\ v = c.data.variant /\ closing = c.data.closing
           /\ payload = c.data.payload
    <3>1. c \in SignalCommand("close_track", DedupeKey,
                              [variant : Variant, closing : Closing, payload : Payload])
      BY <1>0, <1>2 DEF EngineCommand, SignalCommand
    <3> HIDE DEF c
    <3> QED BY <3>1 DEF SignalCommand
  <2>2. payload = Samples \cup {<<s, v>>}
    <3>0. h.operation = "close_track"
      BY <1>0, <1>2
    <3>1. h \in SignalCommand("close_track", DedupeKey,
                              [variant : Variant, closing : Closing, payload : Payload])
      <4> HIDE DEF c
      <4> QED BY <3>0 DEF EngineCommand, SignalCommand
    <3> DEFINE counted == Samples \cup {<<h.signal_id, h.data.variant>>}
    <3>2. c = [h EXCEPT !.data.payload = counted]
      BY <3>0 DEF Prepared
    <3> HIDE DEF counted, c
    <3>3. c.data.payload = counted /\ c.signal_id = h.signal_id /\ c.data.variant = h.data.variant
      BY <3>1, <3>2 DEF SignalCommand
    <3> QED BY <2>1, <3>3 DEF counted
  <2>3. /\ outcome' = [outcome EXCEPT ![s][v] = closing]
        /\ snapshot' = [snapshot EXCEPT ![s][v] = payload]
    BY <1>2, <2>1 DEF CloseTrack
  <2> HIDE DEF c
  <2>4. closing # Null
    BY NullAssumption
  <2>5. /\ \A x \in SignalId, w \in Variant :
              /\ outcome'[x][w] = IF x = s /\ w = v THEN closing ELSE outcome[x][w]
              /\ snapshot'[x][w] = IF x = s /\ w = v THEN payload ELSE snapshot[x][w]
    BY <2>3 DEF EngineInv, IInv, TypeOK
  <2>6. Samples' = Samples \cup {<<s, v>>}
    BY <2>4, <2>5 DEF Samples
  <2>7. \A x \in SignalId, w \in Variant : outcome'[x][w] # Null => <<x, w>> \in snapshot'[x][w]
    BY <2>2, <2>5 DEF StatisticsComplete
  <2>8. snapshot'[s][v] = Samples'
    BY <2>2, <2>5, <2>6
  <2> QED BY <2>7, <2>8 DEF StatisticsComplete
<1>3. Executes(c)
  OBVIOUS
<1> QED BY <1>1, <1>2, <1>3, OnlyClosesBook

LEMMA StatisticsStep ==
    ASSUME WideColumns, "close_track" \notin LateOps, EngineInv, StatisticsComplete, LateAllowed,
           [EngineNext]_vars
    PROVE  StatisticsComplete' /\ LateAllowed'
<1>1. LateAllowed'
  <2>1. ASSUME NEW c \in late', c \notin late PROVE c.operation \in LateOps
    <3>1. /\ run.todo # <<>> /\ c = Prepared(Head(run.todo))
          /\ Head(run.todo).operation \in LateOps
      BY <2>1, NextLate
    <3> QED BY <3>1, NextCommand, PreparedType DEF EngineInv
  <2> QED BY <2>1 DEF LateAllowed
<1>2. ASSUME UNCHANGED <<outcome, snapshot>> PROVE StatisticsComplete'
  <2>1. Samples' = Samples
    BY <1>2 DEF Samples
  <2> QED BY <1>2, <2>1 DEF StatisticsComplete
<1>3. ASSUME NEW c \in late, Executes(c) PROVE StatisticsComplete'
  <2>1. c.operation # "close_track"
    BY DEF LateAllowed
  <2> QED BY <1>2, <1>3, <2>1, OnlyClosesBook
<1>4. ASSUME run.todo # <<>>, Executes(Prepared(Head(run.todo))) PROVE StatisticsComplete'
  <2>1. Head(run.todo) \in EngineCommand
    BY <1>4, NextCommand DEF EngineInv
  <2> QED BY <1>4, <2>1, PreparedCounts
<1>5. UNCHANGED ledgerVars => UNCHANGED <<outcome, snapshot>>
  BY DEF ledgerVars, tradeVars
<1> QED BY <1>1, <1>2, <1>3, <1>4, <1>5, LedgerMoves

\* No outcome is missing from the latest statistics, however many runs are killed
\* between reading the outcomes and storing their report, as long as no close is
\* executed after its run has given up on it: the client computes a snapshot from
\* the outcomes it reads, and the run is alone from there to its close.
THEOREM StatisticsMissNothing ==
    WideColumns /\ "close_track" \notin LateOps => (EngineSpec => []StatisticsComplete)
<1> SUFFICES ASSUME WideColumns, "close_track" \notin LateOps
             PROVE  EngineSpec => []StatisticsComplete
  OBVIOUS
<1>1. EngineInit => StatisticsComplete /\ LateAllowed
  <2> SUFFICES ASSUME EngineInit PROVE StatisticsComplete /\ LateAllowed
    OBVIOUS
  <2>1. \A s \in SignalId, v \in Variant : outcome[s][v] = Null
    BY DEF EngineInit, Init
  <2>2. Samples = {}
    BY <2>1 DEF Samples
  <2> QED BY <2>1, <2>2 DEF StatisticsComplete, LateAllowed, EngineInit
<1>2. EngineInv /\ StatisticsComplete /\ LateAllowed /\ [EngineNext]_vars
        => StatisticsComplete' /\ LateAllowed'
  BY StatisticsStep
<1>3. EngineSpec => []EngineInv
  BY EngineInvariance
<1> QED BY <1>1, <1>2, <1>3, PTL DEF EngineSpec

----------------------------------------------------------------------------
(* What a command that takes effect does to the trades.                    *)

LEMMA TradeMoves ==
    ASSUME WideColumns, NEW c \in EngineCommand, Executes(c) \/ UNCHANGED ledgerVars
    PROVE  \/ UNCHANGED tradeVars
           \/ /\ c.operation = "create_signal"
              /\ c.signal_id \in SignalId /\ c.data \in EngineTerm /\ c.data \in Term
              /\ c.key \in NoticeKey /\ CreateSignal(c.signal_id, c.data, c.key)
           \/ /\ c.operation = "activate_signal"
              /\ c.signal_id \in SignalId /\ c.data.fill_price \in Int
              /\ c.data.fill_price \in Decimal /\ c.at \in Minute /\ c.at \in Time
              /\ c.key \in DedupeKey
              /\ ActivateSignal(c.signal_id, c.data.fill_price, c.at, c.key)
           \/ /\ c.operation = "transition_pending"
              /\ c.signal_id \in SignalId /\ c.key \in DedupeKey
              /\ TransitionPending(c.signal_id, "EXPIRED", c.key)
           \/ /\ c.operation = "close_track"
              /\ c.signal_id \in SignalId /\ c.data.variant \in Variant
              /\ c.data.closing \in Closing /\ c.data.payload \in Payload /\ c.key \in DedupeKey
              /\ CloseTrack(c.signal_id, c.data.variant, c.data.closing, c.data.payload, c.key)
           \/ /\ c.operation = "apply_management_decision"
              /\ c.signal_id \in SignalId /\ c.data \in Adjustment /\ c.key \in DedupeKey
              /\ ApplyManagement(c.signal_id, c.data, c.key)
<1>1. CASE Applies(c)
  <2>1. c.operation = "create_signal" =>
           c.signal_id \in SignalId /\ c.data \in EngineTerm /\ c.data \in Term /\ c.key \in NoticeKey
    BY DEF EngineCommand, SignalCommand, EngineTerm
  <2>2. c.operation = "activate_signal" =>
           /\ c.signal_id \in SignalId /\ c.data.fill_price \in Int /\ c.data.fill_price \in Decimal
           /\ c.at \in Minute /\ c.at \in Time /\ c.key \in DedupeKey
    BY DEF EngineCommand, SignalCommand, WideColumns
  <2>3. c.operation = "transition_pending" => c.signal_id \in SignalId /\ c.key \in DedupeKey
    BY DEF EngineCommand, SignalCommand
  <2>4. c.operation = "close_track" =>
           /\ c.signal_id \in SignalId /\ c.data.variant \in Variant
           /\ c.data.closing \in Closing /\ c.data.payload \in Payload /\ c.key \in DedupeKey
    BY DEF EngineCommand, SignalCommand
  <2>5. c.operation = "apply_management_decision" =>
           c.signal_id \in SignalId /\ c.data \in Adjustment /\ c.key \in DedupeKey
    BY DEF EngineCommand, SignalCommand
  <2>6. AllocateSignalId(c.key) \/ AdvanceCheckpoint(c.key, c.at) \/ EnqueueNotification(c.key)
          => UNCHANGED tradeVars
    BY DEF AllocateSignalId, AdvanceCheckpoint, EnqueueNotification
  <2> HIDE DEF EngineCommand
  <2> QED BY <1>1, <2>1, <2>2, <2>3, <2>4, <2>5, <2>6 DEF Applies
<1> QED BY <1>1 DEF Executes, ledgerVars

\* The MANAGED row a decision leaves.
LEMMA DecidedRow ==
    ASSUME TypeOK, NEW s \in SignalId, NEW a \in Adjustment, NEW k \in DedupeKey,
           ApplyManagement(s, a, k)
    PROVE  LET row == track[s]["MANAGED"]
           IN  /\ row \in TrackRow
               /\ track'[s]["MANAGED"] = IF a.changes_managed_result THEN ManagedAfter(row, a)
                                         ELSE row
               /\ ManagedAfter(row, a).current_stop = Coalesce(a.updated_stop, row.current_stop)
               /\ ManagedAfter(row, a).remaining_fraction =
                      Coalesce(a.remaining_fraction_after, row.remaining_fraction)
               /\ ManagedAfter(row, a).realized_r = Coalesce(a.realized_r_after, row.realized_r)
<1> DEFINE row == ManagedAfter(track[s]["MANAGED"], a)
<1>1. track[s] \in [Variant -> TrackRow \cup {Null}] /\ track[s]["MANAGED"] \in TrackRow
  BY DEF ApplyManagement, ManagementAllowed, TrackActive, TypeOK, Variant
<1>2. CASE ~a.changes_managed_result
  BY <1>1, <1>2 DEF ApplyManagement, ManagedAfter, TrackRow
<1>3. CASE a.changes_managed_result
  <2>1. track' = [track EXCEPT ![s] = [@ EXCEPT !["MANAGED"] = row]]
    BY <1>1, <1>3, ZenonT(40) DEF ApplyManagement, TypeOK, TrackRow, ManagedAfter, Variant
  <2>2. track'[s]["MANAGED"] = row
    BY <1>1, <2>1 DEF TypeOK, Variant
  <2> QED BY <1>1, <1>3, <2>2 DEF ManagedAfter, TrackRow
<1> QED BY <1>2, <1>3

----------------------------------------------------------------------------
(* Sound rows: what is booked is what happened.                            *)

Protected(s) ==
    /\ track[s]["MANAGED"] # Null
    /\ track[s]["MANAGED"].current_stop # terms[s].original_stop

\* A decision that may reach the row late: it takes part of the position only
\* behind a stop that is already another one than the original.
SoundDecision(s, d) ==
    /\ d.updated_stop # Null => d.updated_stop \in Int /\ d.updated_stop # terms[s].original_stop
    /\ d.remaining_fraction_after # Null => d.remaining_fraction_after = HalfPosition /\ Protected(s)
    /\ d.realized_r_after # Null => d.realized_r_after \in Nat /\ Protected(s)

SoundCommand(c) ==
    /\ c.operation \in Operation => terms[c.signal_id] # Null
    /\ c.operation = "activate_signal" =>
          c.data.fill_price = ConservativeEntry(terms[c.signal_id])
    /\ c.operation = "close_track" => Truthful(c.data.closing)
    /\ c.operation = "apply_management_decision" => SoundDecision(c.signal_id, c.data)

SoundBooks ==
    /\ \A s \in SignalId :
          trade[s] # Null => trade[s].fill_price = ConservativeEntry(terms[s])
    /\ \A s \in SignalId, v \in Variant : TrackActive(s, v) => SoundRow(terms[s], track[s][v])
    /\ OutcomesTruthful

\* What a sound command relies on is never taken back.
SoundStays ==
    /\ \A s \in SignalId : terms[s] # Null => terms'[s] = terms[s]
    /\ \A s \in SignalId : terms[s] # Null /\ Protected(s) => Protected(s)'

LEMMA CommandStaysSound ==
    ASSUME NEW c \in EngineCommand, SoundStays, SoundCommand(c) PROVE SoundCommand(c)'
<1>1. CASE c.operation \in Operation
  <2>1. c.signal_id \in SignalId
    BY <1>1 DEF EngineCommand, SignalCommand, Operation
  <2>2. terms[c.signal_id] # Null /\ terms'[c.signal_id] = terms[c.signal_id]
        /\ (Protected(c.signal_id) => Protected(c.signal_id)')
    BY <1>1, <2>1 DEF SoundCommand, SoundStays
  <2>3. SoundDecision(c.signal_id, c.data) => SoundDecision(c.signal_id, c.data)'
    BY <2>2 DEF SoundDecision
  <2> HIDE DEF EngineCommand
  <2> QED BY <2>2, <2>3 DEF SoundCommand
<1> QED BY <1>1 DEF SoundCommand, Operation

LEMMA DecidingKeepsSound ==
    ASSUME NEW t, NEW row, SoundRow(t, row), NEW d, NEW after,
           after.current_stop = Coalesce(d.updated_stop, row.current_stop),
           after.remaining_fraction = Coalesce(d.remaining_fraction_after, row.remaining_fraction),
           after.realized_r = Coalesce(d.realized_r_after, row.realized_r),
           d.updated_stop # Null => d.updated_stop \in Int /\ d.updated_stop # t.original_stop,
           d.remaining_fraction_after # Null =>
              d.remaining_fraction_after = HalfPosition /\ row.current_stop # t.original_stop,
           d.realized_r_after # Null =>
              d.realized_r_after \in Nat /\ row.current_stop # t.original_stop
    PROVE  SoundRow(t, after)
BY DEF SoundRow, Coalesce

LEMMA ExecutesKeepsSound ==
    ASSUME WideColumns, EngineInv, SoundBooks, NEW c \in EngineCommand, SoundCommand(c),
           Executes(c) \/ UNCHANGED ledgerVars
    PROVE  SoundBooks' /\ SoundStays
<1>0. IInv /\ TypeOK /\ StatusMatchesRows
  BY DEF EngineInv, IInv
<1> HIDE DEF EngineCommand
<1>1. CASE UNCHANGED tradeVars
  <2>1. UNCHANGED <<status, terms, trade, track, outcome>>
    BY <1>1 DEF tradeVars
  <2> QED BY <2>1 DEF SoundBooks, SoundStays, OutcomesTruthful, TrackActive, Protected
<1>2. CASE /\ c.operation = "create_signal" /\ c.signal_id \in SignalId /\ c.data \in Term
           /\ c.key \in NoticeKey /\ CreateSignal(c.signal_id, c.data, c.key)
  <2>1. PICK s \in SignalId : s = c.signal_id
    BY <1>2
  <2>2. /\ \A x \in SignalId : terms'[x] = IF x = s THEN c.data ELSE terms[x]
        /\ UNCHANGED <<trade, track, outcome>>
    BY <1>0, <1>2, <2>1 DEF CreateSignal, TypeOK
  <2>3. terms[s] = Null /\ trade[s] = Null /\ \A v \in Variant : ~TrackActive(s, v)
    BY <1>0, <1>2, <2>1 DEF CreateSignal, CreateAllowed, StatusMatchesRows, TrackActive
  <2>4. SoundStays
    BY <2>2, <2>3 DEF SoundStays, Protected
  <2> QED BY <2>2, <2>3, <2>4 DEF SoundBooks, OutcomesTruthful, TrackActive
<1>3. CASE /\ c.operation = "activate_signal" /\ c.signal_id \in SignalId
           /\ c.data.fill_price \in Decimal /\ c.at \in Time /\ c.key \in DedupeKey
           /\ ActivateSignal(c.signal_id, c.data.fill_price, c.at, c.key)
  <2>1. PICK s \in SignalId : s = c.signal_id
    BY <1>3
  <2>2. /\ UNCHANGED <<terms, outcome>>
        /\ \A x \in SignalId : x # s => trade'[x] = trade[x] /\ track'[x] = track[x]
        /\ \A v \in Variant :
              track'[s][v] = [track_status |-> "ACTIVE", current_stop |-> terms[s].original_stop,
                              remaining_fraction |-> Whole, realized_r |-> 0]
        /\ trade'[s].fill_price = c.data.fill_price
    BY <1>0, <1>3, <2>1 DEF ActivateSignal, TypeOK
  <2>3. terms[s].original_stop \in Int /\ track[s]["MANAGED"] = Null
    BY <1>0, <1>3, <2>1, TermAssumption, DecimalAssumption
       DEF ActivateSignal, ActivateAllowed, StatusMatchesRows, TypeOK, Variant
  <2>4. \A v \in Variant : SoundRow(terms[s], track'[s][v])
    BY <2>2, <2>3 DEF SoundRow, Whole, WholePosition, HalfPosition
  <2>5. trade'[s].fill_price = ConservativeEntry(terms[s])
    BY <1>3, <2>1, <2>2 DEF SoundCommand
  <2>6. SoundStays
    BY <2>2, <2>3 DEF SoundStays, Protected
  <2> QED BY <2>2, <2>4, <2>5, <2>6 DEF SoundBooks, OutcomesTruthful, TrackActive
<1>4. CASE TransitionPending(c.signal_id, "EXPIRED", c.key)
  <2>1. UNCHANGED <<terms, trade, track, outcome>>
    BY <1>4 DEF TransitionPending
  <2> QED BY <2>1 DEF SoundBooks, SoundStays, OutcomesTruthful, TrackActive, Protected
<1>5. CASE /\ c.operation = "close_track" /\ c.signal_id \in SignalId /\ c.data.variant \in Variant
           /\ c.data.closing \in Closing /\ c.data.payload \in Payload /\ c.key \in DedupeKey
           /\ CloseTrack(c.signal_id, c.data.variant, c.data.closing, c.data.payload, c.key)
  <2>1. PICK s \in SignalId, v \in Variant, closing \in Closing :
           s = c.signal_id /\ v = c.data.variant /\ closing = c.data.closing
    BY <1>5
  <2>2. \A x \in SignalId, w \in Variant :
           /\ terms'[x] = terms[x] /\ trade'[x] = trade[x]
           /\ TrackActive(x, w)' => TrackActive(x, w) /\ track'[x][w] = track[x][w]
           /\ (track'[x][w] = Null) <=> (track[x][w] = Null)
           /\ track[x][w] # Null => track'[x][w].current_stop = track[x][w].current_stop
           /\ outcome'[x][w] = IF x = s /\ w = v THEN closing ELSE outcome[x][w]
    BY <1>0, <1>5, <2>1, CloseRows
  <2>3. Truthful(closing)
    BY <1>5, <2>1 DEF SoundCommand
  <2>4. SoundStays
    BY <2>2 DEF SoundStays, Protected, Variant
  <2>5. /\ \A x \in SignalId : trade'[x] # Null => trade'[x].fill_price = ConservativeEntry(terms'[x])
        /\ \A x \in SignalId, w \in Variant : TrackActive(x, w)' => SoundRow(terms'[x], track'[x][w])
    BY <2>2 DEF SoundBooks, Variant
  <2>6. OutcomesTruthful'
    BY <2>2, <2>3 DEF SoundBooks, OutcomesTruthful
  <2> QED BY <2>4, <2>5, <2>6 DEF SoundBooks
<1>6. CASE /\ c.operation = "apply_management_decision" /\ c.signal_id \in SignalId
           /\ c.data \in Adjustment /\ c.key \in DedupeKey
           /\ ApplyManagement(c.signal_id, c.data, c.key)
  <2>1. PICK s \in SignalId, d \in Adjustment : s = c.signal_id /\ d = c.data
    BY <1>6
  <2> DEFINE row == track[s]["MANAGED"]
             after == track'[s]["MANAGED"]
  <2>2. /\ UNCHANGED <<terms, trade, outcome>>
        /\ \A x \in SignalId, w \in Variant :
              /\ TrackActive(x, w)' <=> TrackActive(x, w)
              /\ (track'[x][w] = Null) <=> (track[x][w] = Null)
              /\ ~(x = s /\ w = "MANAGED") => track'[x][w] = track[x][w]
    <3>1. /\ UNCHANGED <<terms, trade, outcome>>
          /\ \A x \in SignalId : x # s => track'[x] = track[x]
      BY <1>0, <1>6, <2>1 DEF ApplyManagement, TypeOK
    <3>2. \A x \in SignalId, w \in Variant :
              /\ TrackActive(x, w)' <=> TrackActive(x, w)
              /\ (track'[x][w] = Null) <=> (track[x][w] = Null)
              /\ w = "FIXED" => track'[x][w] = track[x][w]
      BY <1>0, <1>6, <2>1, ManagementRows
    <3> QED BY <3>1, <3>2 DEF Variant
  <2>3. /\ row \in TrackRow /\ SoundRow(terms[s], row) /\ row # Null
    BY <1>6, <2>1, <1>0, DecidedRow, NullAssumption, ZenonT(40)
       DEF ApplyManagement, ManagementAllowed, SoundBooks, Variant
  <2>4. \/ after = row
        \/ /\ after.current_stop = Coalesce(d.updated_stop, row.current_stop)
           /\ after.remaining_fraction = Coalesce(d.remaining_fraction_after, row.remaining_fraction)
           /\ after.realized_r = Coalesce(d.realized_r_after, row.realized_r)
    <3>1. PICK changed : changed = ManagedAfter(row, d)
      OBVIOUS
    <3>2. /\ after = IF d.changes_managed_result THEN changed ELSE row
          /\ changed.current_stop = Coalesce(d.updated_stop, row.current_stop)
          /\ changed.remaining_fraction =
                      Coalesce(d.remaining_fraction_after, row.remaining_fraction)
          /\ changed.realized_r = Coalesce(d.realized_r_after, row.realized_r)
      BY <1>0, <1>6, <2>1, <3>1, DecidedRow
    <3> QED BY <3>2, Zenon
  <2>5. SoundDecision(s, d)
    BY <1>6, <2>1 DEF SoundCommand
  <2> HIDE DEF row, after
  <2>6. SoundRow(terms[s], after)
    BY <2>3, <2>4, <2>5, DecidingKeepsSound DEF SoundDecision, Protected, row
  <2>7. Protected(s) => after.current_stop # terms[s].original_stop
    BY <2>4, <2>5 DEF SoundDecision, Protected, row, Coalesce
  <2>8. SoundStays
    <3>1. Protected(s) => Protected(s)'
      BY <2>2, <2>7 DEF Protected, after, Variant
    <3> QED BY <2>2, <3>1 DEF SoundStays, Protected, Variant
  <2>9. \A x \in SignalId, w \in Variant : TrackActive(x, w)' => SoundRow(terms'[x], track'[x][w])
    BY <2>2, <2>6 DEF SoundBooks, after
  <2> QED BY <2>2, <2>8, <2>9 DEF SoundBooks, OutcomesTruthful
<1> QED BY <1>1, <1>2, <1>3, <1>4, <1>5, <1>6, TradeMoves

\* What a run plans is sound, because it plans from sound rows.
LEMMA PlannedSound ==
    ASSUME WideColumns, EngineInv, SoundBooks, NEW c, Prospect(c)
    PROVE  SoundCommand(c)
<1>1. CASE Quiet(c)
  BY <1>1 DEF Quiet, SoundCommand, Operation
<1>2. CASE run.queue # <<>> /\ run.cursor < clock /\ Plans(c)
  <2>0. /\ Signal \in SignalId /\ Terms \in EngineTerm /\ ValidTerms(Terms) /\ Terms # Null
        /\ run.cursor \in Minute
    BY <1>2, MonitoredSignal, NullAssumption DEF EngineTerm, EngineInv, EngineTypeOK, RunType
  <2>1. ValidCandle(Candle(run.cursor)) /\ OnActivationCandle \in BOOLEAN
    BY <1>2, <2>0, CompleteCandle DEF EngineInv, EngineTypeOK, Minute, OnActivationCandle
  <2>2. \A v \in Variant : TrackActive(Signal, v) =>
           /\ trade[Signal].fill_price = ConservativeEntry(Terms)
           /\ SoundRow(Terms, track[Signal][v])
    BY <1>2, <2>0, MonitoredSignal DEF SoundBooks, Terms
  <2>3. CASE Expires /\ c = ExpireCommand
    BY <2>0, <2>3 DEF ExpireCommand, Command, SoundCommand, Terms
  <2>4. CASE Activates /\ c = ActivateCommand
    BY <2>0, <2>4 DEF ActivateCommand, Command, SoundCommand, Terms
  <2>5. ASSUME NEW v \in Variant, Leaves(v), c = CloseCommand(v)
        PROVE  SoundCommand(c)
    <3> DEFINE closing == ExitClosing(Terms, ConservativeEntry(Terms), track[Signal][v],
                                      Candle(run.cursor), OnActivationCandle)
    <3>1. TrackActive(Signal, v) /\ trade[Signal].fill_price = ConservativeEntry(Terms)
      BY <2>2, <2>5 DEF Leaves
    <3>2. Truthful(closing)
      <4>1. Exits(Terms, track[Signal][v], Candle(run.cursor), OnActivationCandle)
        BY <2>5 DEF Leaves
      <4> QED BY <2>0, <2>1, <2>2, <3>1, <4>1, ResultsTellTheTruth
    <3>3. /\ c.operation = "close_track" /\ c.data.closing = closing /\ c.signal_id = Signal
      BY <2>5, <3>1 DEF CloseCommand, Command
    <3> HIDE DEF closing
    <3> QED BY <2>0, <3>2, <3>3 DEF SoundCommand, Terms
  <2>6. CASE TrackActive(Signal, "MANAGED") /\ c = ManageCommand
    <3> DEFINE row == track[Signal]["MANAGED"]
               bar == Candle(run.cursor)
               entry == ConservativeEntry(Terms)
               first == OnActivationCandle
               net == Net(Terms, entry, bar.close)
               stop == BreakEvenStop(Terms, entry)
               banked == row.realized_r + HalfPosition * net
               d == Decision(Terms, trade[Signal], row, bar, first)
    <3>1. trade[Signal].fill_price = entry /\ SoundRow(Terms, row)
      BY <2>2, <2>6 DEF Variant
    <3>2. c.operation = "apply_management_decision" /\ c.signal_id = Signal /\ c.data = d
      BY <2>6 DEF ManageCommand, Command
    <3>3. net \in Int /\ stop \in Int /\ stop # Terms.original_stop
      BY <2>0, <2>1, RulesAreIntegers, BreakEvenIsCostFree DEF ValidCandle
    <3>4. CASE Protects(Terms, entry, row, bar, first)
      <4>0. Protects(Terms, trade[Signal].fill_price, row, bar, first)
        BY <3>1, <3>4
      <4>1. d = [Hold EXCEPT !.changes_managed_result = TRUE, !.updated_stop = stop]
        <5>1. d = [Hold EXCEPT !.changes_managed_result = TRUE,
                               !.updated_stop = BreakEvenStop(Terms, trade[Signal].fill_price)]
          <6>1. ~TakesPartial(Terms, trade[Signal].fill_price, row, bar, first)
            BY <4>0 DEF TakesPartial
          <6> QED BY <4>0, <6>1, Zenon DEF Decision
        <5> QED BY <3>1, <5>1
      <4> HIDE DEF stop, d
      <4>2. d.updated_stop = stop /\ d.remaining_fraction_after = Null /\ d.realized_r_after = Null
        BY <4>1 DEF Hold
      <4>3. SoundDecision(Signal, d)
        BY <3>3, <4>2 DEF SoundDecision, Terms
      <4> QED BY <2>0, <3>2, <4>3 DEF SoundCommand, Terms
    <3>5. CASE /\ ~Protects(Terms, entry, row, bar, first)
               /\ TakesPartial(Terms, entry, row, bar, first)
      <4>1. row.current_stop # Terms.original_stop /\ net > 0
        BY <2>0, <2>1, <3>1, <3>5, PartialNeedsProtection
      <4>2. d = [Hold EXCEPT !.changes_managed_result = TRUE,
                             !.remaining_fraction_after = WholePosition - HalfPosition,
                             !.realized_r_after = banked]
        BY <3>1, <3>5, Zenon DEF Decision
      <4>3. banked \in Nat
        <5> HIDE DEF net, row
        <5> QED BY <3>1, <3>3, <4>1 DEF SoundRow, HalfPosition
      <4>4. WholePosition - HalfPosition = HalfPosition
        BY DEF WholePosition, HalfPosition
      <4> HIDE DEF banked, d
      <4>5. /\ d.updated_stop = Null /\ d.remaining_fraction_after = HalfPosition
            /\ d.realized_r_after = banked
        BY <4>2, <4>4 DEF Hold
      <4>6. Protected(Signal)
        BY <2>6, <4>1 DEF Protected, TrackActive, Terms
      <4>7. SoundDecision(Signal, d)
        BY <4>3, <4>5, <4>6 DEF SoundDecision
      <4> QED BY <2>0, <3>2, <4>7 DEF SoundCommand, Terms
    <3>6. CASE /\ ~Protects(Terms, entry, row, bar, first)
               /\ ~TakesPartial(Terms, entry, row, bar, first)
      <4>1. d = Hold
        BY <3>1, <3>6, Zenon DEF Decision
      <4>2. SoundDecision(Signal, Hold)
        BY DEF Hold, SoundDecision
      <4> HIDE DEF d
      <4> QED BY <2>0, <3>2, <4>1, <4>2 DEF SoundCommand, Terms
    <3> QED BY <3>4, <3>5, <3>6
  <2> QED BY <1>2, <2>3, <2>4, <2>5, <2>6 DEF Plans
<1> QED BY <1>1, <1>2 DEF Prospect

SoundPending ==
    /\ \A c \in late : SoundCommand(c)
    /\ \A c : Listed(c, run.todo) => SoundCommand(c)

SoundInv == SoundBooks /\ SoundPending

LEMMA PreparedSound ==
    ASSUME WideColumns, EngineInv, SoundPending, run.todo # <<>>
    PROVE  SoundCommand(Prepared(Head(run.todo)))
<1>1. PICK h : h = Head(run.todo)
  OBVIOUS
<1>2. run.todo \in Seq(EngineCommand) /\ h \in EngineCommand
  BY <1>1, NextCommand DEF EngineInv, EngineTypeOK, RunType
<1>3. SoundCommand(h)
  <2>1. 1 \in 1..Len(run.todo) /\ run.todo[1] = h
    <3> HIDE DEF EngineCommand
    <3> QED BY <1>1, <1>2
  <2> QED BY <2>1 DEF SoundPending, Listed
<1>4. CASE h.operation # "close_track"
  BY <1>1, <1>3, <1>4 DEF Prepared
<1>5. CASE h.operation = "close_track"
  <2>1. h \in SignalCommand("close_track", DedupeKey,
                            [variant : Variant, closing : Closing, payload : Payload])
    BY <1>2, <1>5 DEF EngineCommand, SignalCommand
  <2> DEFINE counted == Samples \cup {<<h.signal_id, h.data.variant>>}
  <2>2. PICK p : p = Prepared(h)
    OBVIOUS
  <2>3. p = [h EXCEPT !.data.payload = counted]
    BY <1>5, <2>2 DEF Prepared
  <2> HIDE DEF counted
  <2>4. p.operation = h.operation /\ p.signal_id = h.signal_id /\ p.data.closing = h.data.closing
    BY <2>1, <2>3 DEF SignalCommand
  <2> HIDE DEF EngineCommand
  <2> QED BY <1>1, <1>3, <1>5, <2>2, <2>4 DEF SoundCommand
<1> QED BY <1>4, <1>5

LEMMA SoundStep ==
    ASSUME WideColumns, EngineInv, SoundInv, [EngineNext]_vars PROVE SoundInv'
<1>1. SoundBooks' /\ SoundStays
  <2>1. CASE UNCHANGED ledgerVars
    BY <2>1 DEF SoundInv, SoundBooks, SoundStays, OutcomesTruthful, TrackActive, Protected,
         ledgerVars, tradeVars
  <2>2. ASSUME NEW c \in EngineCommand, Executes(c), SoundCommand(c)
        PROVE  SoundBooks' /\ SoundStays
    BY <2>2, ExecutesKeepsSound DEF SoundInv
  <2>3. \A c \in late : SoundCommand(c)
    BY DEF SoundInv, SoundPending
  <2>4. run.todo # <<>> => SoundCommand(Prepared(Head(run.todo)))
    BY PreparedSound DEF SoundInv
  <2> QED BY <2>1, <2>2, <2>3, <2>4, LedgerMoves
<1>2. ASSUME NEW c \in EngineCommand, SoundCommand(c) PROVE SoundCommand(c)'
  BY <1>1, <1>2, CommandStaysSound
<1>3. \A c \in late' : SoundCommand(c)'
  <2>1. \A c \in late : c \in EngineCommand /\ SoundCommand(c)
    BY DEF SoundInv, SoundPending, EngineInv, EngineTypeOK
  <2>2. run.todo # <<>> => /\ Prepared(Head(run.todo)) \in EngineCommand
                           /\ SoundCommand(Prepared(Head(run.todo)))
    BY PreparedSound, NextCommand DEF SoundInv, EngineInv
  <2> QED BY <1>2, <2>1, <2>2, NextLate
<1>4. \A c : Listed(c, run'.todo) => SoundCommand(c)'
  <2>1. ASSUME NEW c, Listed(c, run'.todo) PROVE SoundCommand(c)'
    <3>1. CASE Listed(c, run.todo)
      <4>1. c \in EngineCommand
        <5>1. run.todo \in Seq(EngineCommand)
          BY DEF EngineInv, EngineTypeOK, RunType
        <5> HIDE DEF EngineCommand
        <5> QED BY <3>1, <5>1, ElementOfSeq DEF Listed
      <4> QED BY <1>2, <3>1, <4>1 DEF SoundInv, SoundPending
    <3>2. CASE Quiet(c)
      BY <3>2 DEF Quiet, SoundCommand, Operation
    <3>3. CASE Prospect(c) /\ UNCHANGED ledgerVars
      <4>1. SoundCommand(c)
        BY <3>3, PlannedSound DEF SoundInv
      <4> QED BY <3>3, <4>1 DEF SoundCommand, SoundDecision, Protected, ledgerVars, tradeVars
    <3> QED BY <2>1, <3>1, <3>2, <3>3, NextList DEF Prospect
  <2> QED BY <2>1
<1>5. (\A c : Listed(c, run.todo) => SoundCommand(c))'
  BY <1>4 DEF Listed
<1> QED BY <1>1, <1>3, <1>5 DEF SoundInv, SoundPending

\* A booked result is what happened to the account, on whichever row its track
\* ended: every row an open track can have is sound, a decision that arrives after
\* its run has died included, and from a sound row no close mislabels its result.
THEOREM BookedResultsAreTruthful == WideColumns => (EngineSpec => []OutcomesTruthful)
<1> SUFFICES ASSUME WideColumns PROVE EngineSpec => []OutcomesTruthful
  OBVIOUS
<1>1. EngineInit => SoundInv
  <2> SUFFICES ASSUME EngineInit PROVE SoundInv
    OBVIOUS
  <2>1. /\ \A s \in SignalId : trade[s] = Null
        /\ \A s \in SignalId, v \in Variant : outcome[s][v] = Null /\ track[s][v] = Null
    BY DEF EngineInit, Init
  <2>2. run.todo = <<>> /\ Len(<<>>) = 0
    BY EmptySeq DEF EngineInit, Idle
  <2>3. SoundBooks
    BY <2>1 DEF SoundBooks, OutcomesTruthful, TrackActive
  <2> QED BY <2>2, <2>3 DEF EngineInit, SoundInv, SoundPending, Listed
<1>2. EngineInv /\ SoundInv /\ [EngineNext]_vars => SoundInv'
  BY SoundStep
<1>3. SoundInv => OutcomesTruthful
  BY DEF SoundInv, SoundBooks
<1>4. EngineSpec => []EngineInv
  BY EngineInvariance
<1> QED BY <1>1, <1>2, <1>3, <1>4, PTL DEF EngineSpec

----------------------------------------------------------------------------
(* Every key is named after what its command does.                         *)

Keyed(c) ==
    /\ c.operation = "create_signal" => c.key = CreatedNotice(c.signal_id)
    /\ c.operation = "activate_signal" =>
          c.key = CommandKey(c.signal_id, c.at, "activate", "")
    /\ c.operation = "transition_pending" =>
          c.key = CommandKey(c.signal_id, c.at, "expire", "")
    /\ c.operation = "close_track" =>
          c.key = CommandKey(c.signal_id, c.at, c.data.variant, c.data.closing.close_event)
    /\ c.operation = "apply_management_decision" =>
          c.key = CommandKey(c.signal_id, c.at, "management", "")

LEMMA KeyNamesCommand ==
    ASSUME NEW c, Keyed(c), c.operation \in Operation
    PROVE  c.key.signal_id = c.signal_id /\ c.key.at = c.at
<1>1. PICK action, detail : c.key = CommandKey(c.signal_id, c.at, action, detail)
  BY Zenon DEF Keyed, Operation
<1> QED BY <1>1 DEF CommandKey

\* The events a receipt stands for.
EventTypes(op, k) ==
    CASE op = "activate_signal"    -> {"ENTRY_ACTIVATED"}
      [] op = "transition_pending" -> {"ENTRY_EXPIRED"}
      [] op = "close_track"        -> {k.detail}
      [] OTHER                     -> {"MANAGEMENT_DECISION"}

ReceiptsTell ==
    \A r \in receipt : \E e \in event :
        /\ e.dedupe_key = r.dedupe_key
        /\ e.signal_id = r.dedupe_key.signal_id
        /\ e.event_type \in EventTypes(r.operation, r.dedupe_key)

CreationTold ==
    \A s \in SignalId : status[s] # "ABSENT" => Event(s, Null, "SIGNAL_CREATED", Null) \in event

\* The command whose success makes a notice true.
StopEvents == {"STOP_LOSS_HIT", "BREAK_EVEN", "EARLY_EXIT"}

Backs(b, n) ==
    /\ b.signal_id = n.signal_id
    /\ \/ b.operation = "create_signal" /\ n.action = "CREATED"
       \/ /\ b.at = n.at
          /\ \/ b.operation = "activate_signal" /\ n.action = "ACTIVATED"
             \/ b.operation = "transition_pending" /\ n.action = "EXPIRED"
             \/ /\ b.operation = "close_track"
                /\ \/ n.action = "TARGET_CLOSED" /\ b.data.closing.close_event = "TP1_HIT"
                   \/ /\ n.action \in {"STOP_CLOSED", "AMBIGUOUS_STOP_FIRST"}
                      /\ b.data.closing.close_event \in StopEvents
             \/ /\ b.operation = "apply_management_decision"
                /\ n.action \in {"MOVE_STOP_TO_BREAK_EVEN", "TAKE_PARTIAL_PROFIT"}

\* A message is queued behind the command that makes it true.
Supported(n, list) == Announced(n) \/ \E m \in 1..Len(list) : Backs(list[m], n)

TruthfulList(list) ==
    \A n \in 1..Len(list) :
        /\ Keyed(list[n])
        /\ list[n].operation = "enqueue_notification" =>
              \/ Announced(list[n].key)
              \/ \E m \in 1..(n - 1) : Backs(list[m], list[n].key)

TruthfulActions(r) ==
    r.phase = "exit" =>
        /\ \A m \in 1..Len(r.todo) : r.todo[m].operation # "allocate_signal_id"
        /\ \A n \in 1..Len(r.actions) :
              Supported(Notice(Head(r.queue), r.cursor, r.actions[n]), r.todo)

TruthfulLate ==
    \A c \in late : /\ Keyed(c)
                    /\ c.operation = "enqueue_notification" => Announced(c.key)

TruthInv ==
    /\ ReceiptsTell /\ CreationTold
    /\ NoFalseAnnouncement
    /\ TruthfulList(run.todo) /\ TruthfulActions(run)
    /\ TruthfulLate

----------------------------------------------------------------------------
(* What is told stays true, and a command that succeeds makes its messages *)
(* true.                                                                   *)

LEMMA AnnouncedStays ==
    ASSUME NEW n, event \subseteq event', Announced(n) PROVE Announced(n)'
BY Zenon DEF Announced

LEMMA ExecutesKeepsEvents ==
    ASSUME NEW c, Executes(c) \/ UNCHANGED ledgerVars PROVE event \subseteq event'
<1>1. CASE UNCHANGED ledgerVars
  BY <1>1 DEF ledgerVars, tradeVars
<1>2. CASE \/ AllocateSignalId(c.key) \/ AdvanceCheckpoint(c.key, c.at)
           \/ EnqueueNotification(c.key)
  BY <1>2 DEF AllocateSignalId, AdvanceCheckpoint, EnqueueNotification, tradeVars
<1>3. CASE \/ CreateSignal(c.signal_id, c.data, c.key)
           \/ ActivateSignal(c.signal_id, c.data.fill_price, c.at, c.key)
           \/ TransitionPending(c.signal_id, "EXPIRED", c.key)
  BY <1>3 DEF CreateSignal, ActivateSignal, TransitionPending
<1>4. CASE \/ CloseTrack(c.signal_id, c.data.variant, c.data.closing, c.data.payload, c.key)
           \/ ApplyManagement(c.signal_id, c.data, c.key)
  BY <1>4 DEF CloseTrack, ApplyManagement
<1> QED BY <1>1, <1>2, <1>3, <1>4 DEF Executes, Applies

\* The event a successful command leaves behind.
LEMMA AcceptedLeavesEvent ==
    ASSUME NEW c \in EngineCommand, Keyed(c), ReceiptsTell, Executes(c), Accepted(c),
           c.operation \in Operation
    PROVE  \E e \in event' : /\ e.dedupe_key = c.key
                             /\ e.signal_id = c.signal_id
                             /\ e.event_type \in EventTypes(c.operation, c.key)
<1>0. c.key.signal_id = c.signal_id
  BY KeyNamesCommand
<1>1. CASE Allowed(c)
  <2>1. Applies(c)
    BY <1>1 DEF Executes, Accepted
  <2>2. CASE c.operation = "activate_signal"
    <3>1. Event(c.signal_id, Null, "ENTRY_ACTIVATED", c.key) \in event'
      BY <2>1, <2>2 DEF Applies, ActivateSignal
    <3> QED BY <2>2, <3>1 DEF Event, EventTypes
  <2>3. CASE c.operation = "transition_pending"
    <3>1. Event(c.signal_id, Null, "ENTRY_EXPIRED", c.key) \in event'
      BY <2>1, <2>3 DEF Applies, TransitionPending
    <3> QED BY <2>3, <3>1 DEF Event, EventTypes
  <2>4. CASE c.operation = "close_track"
    <3>1. Event(c.signal_id, c.data.variant, c.data.closing.close_event, c.key) \in event'
      BY <2>1, <2>4 DEF Applies, CloseTrack
    <3>2. c.key.detail = c.data.closing.close_event
      BY <2>4 DEF Keyed, CommandKey
    <3> QED BY <2>4, <3>1, <3>2 DEF Event, EventTypes
  <2>5. CASE c.operation = "apply_management_decision"
    <3>1. Event(c.signal_id, "MANAGED", "MANAGEMENT_DECISION", c.key) \in event'
      BY <2>1, <2>5 DEF Applies, ApplyManagement
    <3> QED BY <2>5, <3>1 DEF Event, EventTypes
  <2> QED BY <2>2, <2>3, <2>4, <2>5 DEF Operation
<1>2. CASE ~Allowed(c)
  <2>1. Receipt(c.key, c.operation) \in receipt
    BY <1>2 DEF Accepted, Redundant, Duplicate, Operation
  <2>2. Receipt(c.key, c.operation).dedupe_key = c.key
        /\ Receipt(c.key, c.operation).operation = c.operation
    BY DEF Receipt
  <2>3. event \subseteq event'
    BY ExecutesKeepsEvents
  <2> QED BY <1>0, <2>1, <2>2, <2>3 DEF ReceiptsTell
<1> QED BY <1>1, <1>2

LEMMA AcceptedMakesTrue ==
    ASSUME NEW c \in EngineCommand, Keyed(c), ReceiptsTell, CreationTold, Executes(c), Accepted(c),
           NEW n, Backs(c, n)
    PROVE  Announced(n)'
<1>1. CASE c.operation = "create_signal"
  <2>1. c.signal_id \in SignalId
    BY <1>1 DEF EngineCommand, SignalCommand
  <2>2. Event(c.signal_id, Null, "SIGNAL_CREATED", Null) \in event'
    <3>1. CASE Allowed(c)
      BY <1>1, <3>1 DEF Executes, Accepted, Applies, CreateSignal
    <3>2. CASE ~Allowed(c)
      BY <1>1, <2>1, <3>2, ExecutesKeepsEvents DEF Accepted, Redundant, CreationTold, Operation
    <3> QED BY <3>1, <3>2
  <2>3. n.action = "CREATED" /\ n.signal_id = c.signal_id
    BY <1>1 DEF Backs
  <2> QED BY <2>2, <2>3 DEF Announced, Event
<1>2. CASE c.operation # "create_signal"
  <2>1. c.operation \in Operation /\ n.at = c.at /\ n.signal_id = c.signal_id
    BY <1>2 DEF Backs, Operation
  <2>2. PICK e \in event' : /\ e.dedupe_key = c.key /\ e.signal_id = c.signal_id
                            /\ e.event_type \in EventTypes(c.operation, c.key)
    BY <2>1, AcceptedLeavesEvent
  <2>3. c.key.at = c.at
    BY <2>1, KeyNamesCommand
  <2>4. CASE c.operation = "activate_signal"
    BY <2>1, <2>2, <2>3, <2>4 DEF Backs, Announced, EventTypes
  <2>5. CASE c.operation = "transition_pending"
    BY <2>1, <2>2, <2>3, <2>5 DEF Backs, Announced, EventTypes
  <2>6. CASE c.operation = "close_track"
    <3>1. e.event_type = c.data.closing.close_event
      BY <2>2, <2>6 DEF Keyed, CommandKey, EventTypes
    <3> QED BY <2>1, <2>2, <2>3, <2>6, <3>1 DEF Backs, Announced, StopEvents
  <2>7. CASE c.operation = "apply_management_decision"
    BY <2>1, <2>2, <2>3, <2>7 DEF Backs, Announced, EventTypes
  <2> QED BY <2>1, <2>4, <2>5, <2>6, <2>7 DEF Operation
<1> QED BY <1>1, <1>2

\* The books behind the messages stay complete.
LEMMA ExecutesKeepsBooks ==
    ASSUME IInv, NEW c \in EngineCommand, Keyed(c), Executes(c) \/ UNCHANGED ledgerVars,
           ReceiptsTell, CreationTold
    PROVE  ReceiptsTell' /\ CreationTold'
<1>0. event \subseteq event'
  BY ExecutesKeepsEvents
<1>1. CASE UNCHANGED <<status, receipt>>
  BY <1>0, <1>1 DEF ReceiptsTell, CreationTold
<1>2. CASE Applies(c) /\ c.operation = "create_signal"
  <2>1. c.signal_id \in SignalId
    BY <1>2 DEF EngineCommand, SignalCommand
  <2>2. /\ receipt' = receipt /\ status' = [status EXCEPT ![c.signal_id] = "PENDING"]
        /\ Event(c.signal_id, Null, "SIGNAL_CREATED", Null) \in event'
    BY <1>2 DEF Applies, CreateSignal
  <2>3. CreationTold'
    BY <1>0, <2>1, <2>2 DEF CreationTold, Event, IInv, TypeOK
  <2> QED BY <1>0, <2>2, <2>3 DEF ReceiptsTell
<1>3. ASSUME c.operation \in Operation, Applies(c)
      PROVE  ReceiptsTell' /\ CreationTold'
  <2>1. c.signal_id \in SignalId
    BY <1>3 DEF EngineCommand, SignalCommand, Operation
  <2>2. receipt' = receipt \cup {Receipt(c.key, c.operation)}
    BY <1>3, Zenon DEF Applies, Operation, ActivateSignal, TransitionPending, CloseTrack, ApplyManagement
  <2>3. \E e \in event' : /\ e.dedupe_key = c.key
                          /\ e.signal_id = c.signal_id
                          /\ e.event_type \in EventTypes(c.operation, c.key)
    <3>1. CASE c.operation = "activate_signal"
      <4>1. Event(c.signal_id, Null, "ENTRY_ACTIVATED", c.key) \in event'
        BY <1>3, <3>1 DEF Applies, ActivateSignal
      <4> QED BY <3>1, <4>1 DEF Event, EventTypes
    <3>2. CASE c.operation = "transition_pending"
      <4>1. Event(c.signal_id, Null, "ENTRY_EXPIRED", c.key) \in event'
        BY <1>3, <3>2 DEF Applies, TransitionPending
      <4> QED BY <3>2, <4>1 DEF Event, EventTypes
    <3>3. CASE c.operation = "close_track"
      <4>1. Event(c.signal_id, c.data.variant, c.data.closing.close_event, c.key) \in event'
        BY <1>3, <3>3 DEF Applies, CloseTrack
      <4>2. c.key.detail = c.data.closing.close_event
        BY <3>3 DEF Keyed, CommandKey
      <4> QED BY <3>3, <4>1, <4>2 DEF Event, EventTypes
    <3>4. CASE c.operation = "apply_management_decision"
      <4>1. Event(c.signal_id, "MANAGED", "MANAGEMENT_DECISION", c.key) \in event'
        BY <1>3, <3>4 DEF Applies, ApplyManagement
      <4> QED BY <3>4, <4>1 DEF Event, EventTypes
    <3> QED BY <1>3, <3>1, <3>2, <3>3, <3>4 DEF Operation
  <2>4. c.key.signal_id = c.signal_id
    BY <1>3, KeyNamesCommand
  <2>5. /\ Receipt(c.key, c.operation).dedupe_key = c.key
        /\ Receipt(c.key, c.operation).operation = c.operation
    BY DEF Receipt
  <2>6. ReceiptsTell'
    BY <1>0, <2>2, <2>3, <2>4, <2>5 DEF ReceiptsTell
  <2>7. \A s \in SignalId : status'[s] # "ABSENT" => status[s] # "ABSENT"
    <3>1. CASE c.operation = "activate_signal"
      <4>1. status[c.signal_id] # "ABSENT" /\ status' = [status EXCEPT ![c.signal_id] = "ACTIVE"]
        BY <1>3, <3>1 DEF Applies, ActivateSignal, ActivateAllowed
      <4> QED BY <2>1, <4>1 DEF IInv, TypeOK
    <3>2. CASE c.operation = "transition_pending"
      <4>1. status[c.signal_id] # "ABSENT" /\ status' = [status EXCEPT ![c.signal_id] = "EXPIRED"]
        BY <1>3, <3>2 DEF Applies, TransitionPending, TransitionAllowed
      <4> QED BY <2>1, <4>1 DEF IInv, TypeOK
    <3>3. CASE c.operation = "close_track"
      <4>1. /\ CloseAllowed(c.signal_id, c.data.variant, c.key)
            /\ status' = IF c.data.variant = "MANAGED" THEN [status EXCEPT ![c.signal_id] = "CLOSED"]
                         ELSE status
        BY <1>3, <3>3 DEF Applies, CloseTrack
      <4>2. c.data.variant = "MANAGED" => status[c.signal_id] # "ABSENT"
        BY <4>1 DEF CloseAllowed
      <4> QED BY <2>1, <4>1, <4>2 DEF IInv, TypeOK
    <3>4. CASE c.operation = "apply_management_decision"
      BY <1>3, <3>4 DEF Applies, ApplyManagement
    <3> QED BY <1>3, <3>1, <3>2, <3>3, <3>4 DEF Operation
  <2> QED BY <1>0, <2>6, <2>7 DEF CreationTold, Event
<1>4. CASE Applies(c) /\ c.operation \notin Operation \cup {"create_signal"}
  <2>1. UNCHANGED <<status, receipt>>
    BY <1>4 DEF Applies, Operation, AllocateSignalId, AdvanceCheckpoint, EnqueueNotification, tradeVars
  <2> QED BY <1>1, <2>1
<1> QED BY <1>1, <1>2, <1>3, <1>4 DEF Executes, ledgerVars, tradeVars

\* A message that reaches the outbox was true when its command was sent.
LEMMA ExecutesKeepsTruth ==
    ASSUME NEW c \in EngineCommand, Keyed(c),
           c.operation = "enqueue_notification" => Announced(c.key),
           Executes(c) \/ UNCHANGED ledgerVars, NoFalseAnnouncement
    PROVE  NoFalseAnnouncement'
<1>0. event \subseteq event'
  BY ExecutesKeepsEvents
<1>1. \A n : Announced(n) => Announced(n)'
  BY <1>0, AnnouncedStays
<1>2. CASE outbox' = outbox
  BY <1>1, <1>2 DEF NoFalseAnnouncement
<1>3. CASE Applies(c) /\ c.operation = "create_signal"
  <2>1. /\ outbox' = outbox \cup {c.key}
        /\ Event(c.signal_id, Null, "SIGNAL_CREATED", Null) \in event'
    BY <1>3 DEF Applies, CreateSignal
  <2>2. c.key.action = "CREATED" /\ c.key.signal_id = c.signal_id
    BY <1>3 DEF Keyed, CreatedNotice, Notice
  <2>3. Announced(c.key)'
    BY <2>1, <2>2 DEF Announced, Event
  <2> QED BY <1>1, <2>1, <2>3 DEF NoFalseAnnouncement
<1>4. CASE Applies(c) /\ c.operation = "enqueue_notification"
  <2>1. outbox' = outbox \cup {c.key} /\ Announced(c.key)
    BY <1>4 DEF Applies, EnqueueNotification
  <2> QED BY <1>1, <2>1 DEF NoFalseAnnouncement
<1>5. CASE Applies(c) /\ c.operation \notin {"create_signal", "enqueue_notification"}
  <2>1. outbox' = outbox
    BY <1>5 DEF Applies, AllocateSignalId, ActivateSignal, TransitionPending, CloseTrack,
         AdvanceCheckpoint, ApplyManagement
  <2> QED BY <1>2, <2>1
<1> QED BY <1>2, <1>3, <1>4, <1>5 DEF Executes, ledgerVars

----------------------------------------------------------------------------
(* Lists of commands. *)

LEMMA PreparedSame ==
    ASSUME WideColumns, NEW c \in EngineCommand
    PROVE  /\ Keyed(c) => Keyed(Prepared(c))
           /\ \A n : Backs(c, n) => Backs(Prepared(c), n)
<1>1. CASE c.operation # "close_track"
  BY <1>1 DEF Prepared
<1>2. CASE c.operation = "close_track"
  <2>1. c \in SignalCommand("close_track", DedupeKey,
                            [variant : Variant, closing : Closing, payload : Payload])
    BY <1>2 DEF EngineCommand, SignalCommand
  <2> DEFINE counted == Samples \cup {<<c.signal_id, c.data.variant>>}
             p == Prepared(c)
  <2>2. p = [c EXCEPT !.data.payload = counted]
    BY <1>2 DEF Prepared
  <2> HIDE DEF counted, p
  <2>3. /\ p.operation = c.operation /\ p.key = c.key /\ p.signal_id = c.signal_id
        /\ p.at = c.at /\ p.data.variant = c.data.variant /\ p.data.closing = c.data.closing
    BY <2>1, <2>2 DEF SignalCommand
  <2>4. Keyed(c) => Keyed(p)
    BY <1>2, <2>3 DEF Keyed
  <2>5. \A n : Backs(c, n) => Backs(p, n)
    BY <1>2, <2>3 DEF Backs
  <2> QED BY <2>4, <2>5 DEF p
<1> QED BY <1>1, <1>2

LEMMA ListStays ==
    ASSUME NEW list, event \subseteq event'
    PROVE  /\ TruthfulList(list) => TruthfulList(list)'
           /\ \A n : Supported(n, list) => Supported(n, list)'
<1>1. \A n : Announced(n) => Announced(n)'
  BY AnnouncedStays
<1> QED BY <1>1 DEF TruthfulList, Supported

\* Once the head of a list has succeeded, the rest of it is as well supported.
LEMMA TailTruthful ==
    ASSUME NEW list \in Seq(EngineCommand), list # <<>>, event \subseteq event',
           \A n : Backs(Head(list), n) => Announced(n)'
    PROVE  /\ TruthfulList(list) => TruthfulList(Tail(list))'
           /\ \A n : Supported(n, list) => Supported(n, Tail(list))'
<1> DEFINE rest == Tail(list)
<1> HIDE DEF EngineCommand
<1>1. /\ Len(list) \in Nat /\ Len(list) >= 1 /\ Len(rest) = Len(list) - 1
      /\ \A n \in 1..Len(rest) : rest[n] = list[n + 1]
      /\ Head(list) = list[1]
  OBVIOUS
<1>2. \A n : Announced(n) => Announced(n)'
  BY AnnouncedStays
<1> HIDE DEF rest
<1>3. ASSUME NEW n, Supported(n, list) PROVE Supported(n, rest)'
  <2>1. CASE Announced(n)
    BY <1>2, <2>1 DEF Supported
  <2>2. ASSUME NEW m \in 1..Len(list), Backs(list[m], n) PROVE Supported(n, rest)'
    <3>1. CASE m = 1
      BY <1>1, <2>2, <3>1 DEF Supported
    <3>2. CASE m # 1
      <4>1. m - 1 \in 1..Len(rest) /\ rest[m - 1] = list[m]
        BY <1>1, <3>2
      <4> QED BY <2>2, <4>1 DEF Supported
    <3> QED BY <3>1, <3>2
  <2> QED BY <1>3, <2>1, <2>2 DEF Supported
<1>4. ASSUME TruthfulList(list) PROVE TruthfulList(rest)'
  <2> SUFFICES ASSUME NEW n \in 1..Len(rest)
               PROVE  /\ Keyed(rest[n])
                      /\ rest[n].operation = "enqueue_notification" =>
                            \/ Announced(rest[n].key)'
                            \/ \E m \in 1..(n - 1) : Backs(rest[m], rest[n].key)
    BY DEF TruthfulList
  <2>1. n + 1 \in 1..Len(list) /\ rest[n] = list[n + 1]
    BY <1>1
  <2>2. Keyed(rest[n])
    BY <1>4, <2>1 DEF TruthfulList
  <2>3. ASSUME rest[n].operation = "enqueue_notification"
        PROVE  \/ Announced(rest[n].key)'
               \/ \E m \in 1..(n - 1) : Backs(rest[m], rest[n].key)
    <3>1. \/ Announced(rest[n].key)
          \/ \E m \in 1..n : Backs(list[m], rest[n].key)
      BY <1>4, <2>1, <2>3 DEF TruthfulList
    <3>2. ASSUME NEW m \in 1..n, Backs(list[m], rest[n].key), m # 1
          PROVE  \E k \in 1..(n - 1) : Backs(rest[k], rest[n].key)
      <4>1. m - 1 \in 1..(n - 1) /\ m - 1 \in 1..Len(rest) /\ rest[m - 1] = list[m]
        BY <1>1, <3>2
      <4> QED BY <3>2, <4>1
    <3> QED BY <1>1, <1>2, <3>1, <3>2
  <2> QED BY <2>2, <2>3
<1> QED BY <1>3, <1>4 DEF rest

\* The empty list, and lists put together.
LEMMA EmptyTruthful == TruthfulList(<<>>)
<1>1. Len(<<>>) = 0
  BY EmptySeq
<1> QED BY <1>1 DEF TruthfulList

LEMMA JoinTruthful ==
    ASSUME NEW a \in Seq(EngineCommand), NEW b \in Seq(EngineCommand), TruthfulList(a),
           \A n \in 1..Len(b) :
              /\ Keyed(b[n])
              /\ b[n].operation = "enqueue_notification" => Supported(b[n].key, a)
    PROVE  TruthfulList(a \o b)
<1> DEFINE ab == a \o b
<1> HIDE DEF EngineCommand
<1>1. /\ Len(a) \in Nat /\ Len(b) \in Nat /\ Len(ab) = Len(a) + Len(b)
      /\ \A n \in 1..Len(a) : ab[n] = a[n]
      /\ \A n \in 1..Len(b) : ab[Len(a) + n] = b[n]
  BY ConcatProperties, LenProperties
<1> HIDE DEF ab
<1> SUFFICES ASSUME NEW n \in 1..Len(ab)
             PROVE  /\ Keyed(ab[n])
                    /\ ab[n].operation = "enqueue_notification" =>
                          \/ Announced(ab[n].key)
                          \/ \E m \in 1..(n - 1) : Backs(ab[m], ab[n].key)
  BY DEF TruthfulList, ab
<1>2. CASE n \in 1..Len(a)
  <2>1. ab[n] = a[n] /\ \A m \in 1..(n - 1) : ab[m] = a[m]
    BY <1>1, <1>2
  <2> QED BY <1>2, <2>1 DEF TruthfulList
<1>3. CASE n \notin 1..Len(a)
  <2>1. n - Len(a) \in 1..Len(b) /\ ab[n] = b[n - Len(a)]
    <3>1. n - Len(a) \in 1..Len(b) /\ Len(a) + (n - Len(a)) = n
      BY <1>1, <1>3
    <3> QED BY <1>1, <3>1
  <2>2. \A m \in 1..Len(a) : m \in 1..(n - 1) /\ ab[m] = a[m]
    BY <1>1, <1>3
  <2> QED BY <2>1, <2>2 DEF Supported
<1> QED BY <1>2, <1>3

----------------------------------------------------------------------------
(* What the run plans is well-supported. *)

LEMMA EnqueuesAre ==
    ASSUME NEW s, NEW i, NEW actions \in Seq(Announcement)
    PROVE  /\ Len(Enqueues(s, i, actions)) = Len(actions)
           /\ \A n \in 1..Len(actions) :
                 /\ Enqueues(s, i, actions)[n].operation = "enqueue_notification"
                 /\ Enqueues(s, i, actions)[n].key = Notice(s, i, actions[n])
                 /\ Enqueues(s, i, actions)[n].signal_id = s
                 /\ Keyed(Enqueues(s, i, actions)[n])
<1>1. Len(actions) \in Nat
  BY LenProperties
<1>2. \A n \in 1..Len(actions) : Enqueues(s, i, actions)[n]
          = Command("enqueue_notification", s, i, Notice(s, i, actions[n]), Null)
  BY DEF Enqueues
<1>3. \A k : LET c == Command("enqueue_notification", s, i, k, Null)
             IN  /\ c.operation = "enqueue_notification" /\ c.key = k /\ c.signal_id = s
                 /\ Keyed(c)
  BY DEF Command, Keyed
<1>4. Len(Enqueues(s, i, actions)) = Len(actions)
  <2>1. Enqueues(s, i, actions) = [n \in 1..Len(actions) |->
            Command("enqueue_notification", s, i, Notice(s, i, actions[n]), Null)]
    BY DEF Enqueues
  <2> DEFINE f == [n \in 1..Len(actions) |->
            Command("enqueue_notification", s, i, Notice(s, i, actions[n]), Null)]
  <2>2. DOMAIN f = 1..Len(actions) /\ f \in [1..Len(actions) -> {f[n] : n \in 1..Len(actions)}]
    OBVIOUS
  <2> HIDE DEF f
  <2>3. f \in Seq({f[n] : n \in 1..Len(actions)})
    BY <1>1, <2>2
  <2>4. Len(f) = Len(actions)
    BY <1>1, <2>2, <2>3
  <2> QED BY <2>1, <2>4 DEF f
<1> QED BY <1>2, <1>3, <1>4

LEMMA EntryTruthful ==
    ASSUME run.queue # <<>>
    PROVE  /\ TruthfulList(EntryCommands)
           /\ \A m \in 1..Len(EntryCommands) :
                 EntryCommands[m].operation # "allocate_signal_id"
           /\ \A n \in 1..Len(EntryActions) :
                 Supported(Notice(Signal, run.cursor, EntryActions[n]), EntryCommands)
<1>1. /\ Keyed(ExpireCommand) /\ ExpireCommand.operation = "transition_pending"
      /\ Backs(ExpireCommand, Notice(Signal, run.cursor, "EXPIRED"))
  BY DEF ExpireCommand, Command, Keyed, Backs, Notice
<1>2. /\ Keyed(ActivateCommand) /\ ActivateCommand.operation = "activate_signal"
      /\ Backs(ActivateCommand, Notice(Signal, run.cursor, "ACTIVATED"))
  BY DEF ActivateCommand, Command, Keyed, Backs, Notice
<1>3. CASE Expires
  <2>1. EntryCommands = <<ExpireCommand>> /\ EntryActions = <<"EXPIRED">>
    BY <1>3 DEF EntryCommands, EntryActions
  <2> QED BY <1>1, <2>1 DEF TruthfulList, Supported
<1>4. CASE ~Expires /\ Activates
  <2>1. EntryCommands = <<ActivateCommand>> /\ EntryActions = <<"ACTIVATED">>
    BY <1>4 DEF EntryCommands, EntryActions
  <2> QED BY <1>2, <2>1 DEF TruthfulList, Supported
<1>5. CASE ~Expires /\ ~Activates
  <2>1. EntryCommands = <<>> /\ EntryActions = <<>> /\ Len(<<>>) = 0
    BY <1>5, EmptySeq DEF EntryCommands, EntryActions
  <2> QED BY <2>1, EmptyTruthful
<1> QED BY <1>3, <1>4, <1>5

\* A close says in its event what the message about it says.
LEMMA CloseBacks ==
    ASSUME NEW v
    PROVE  /\ Keyed(CloseCommand(v)) /\ CloseCommand(v).operation = "close_track"
           /\ Backs(CloseCommand(v),
                    Notice(Signal, run.cursor,
                           ExitAction(Terms, track[Signal][v], Candle(run.cursor))))
<1> DEFINE row == track[Signal][v]
           c == Candle(run.cursor)
           first == OnActivationCandle
           closing == ExitClosing(Terms, trade[Signal].fill_price, row, c, first)
           action == ExitAction(Terms, row, c)
<1>1. \A t, fill, price : ClosingAt(t, fill, row, price, TRUE).close_event = "TP1_HIT"
  BY DEF ClosingAt
<1>2. \A t, fill, price : ClosingAt(t, fill, row, price, FALSE).close_event \in StopEvents
  BY DEF ClosingAt, StopEvents
<1>3. \/ action = "TARGET_CLOSED" /\ closing.close_event = "TP1_HIT"
      \/ action \in {"STOP_CLOSED", "AMBIGUOUS_STOP_FIRST"} /\ closing.close_event \in StopEvents
  <2>1. CASE TouchesStop(Terms, row.current_stop, c)
    BY <1>2, <2>1 DEF ExitAction, ExitClosing
  <2>2. CASE ~TouchesStop(Terms, row.current_stop, c)
    BY <1>1, <2>2 DEF ExitAction, ExitClosing
  <2> QED BY <2>1, <2>2
<1> HIDE DEF closing, action
<1>4. CloseCommand(v) = Command("close_track", Signal, run.cursor,
                                CommandKey(Signal, run.cursor, v, closing.close_event),
                                [variant |-> v, closing |-> closing, payload |-> {}])
  BY DEF CloseCommand, closing
<1>5. /\ CloseCommand(v).operation = "close_track" /\ CloseCommand(v).signal_id = Signal
      /\ CloseCommand(v).at = run.cursor /\ CloseCommand(v).data.variant = v
      /\ CloseCommand(v).data.closing = closing
      /\ CloseCommand(v).key = CommandKey(Signal, run.cursor, v, closing.close_event)
  BY <1>4 DEF Command
<1>6. Keyed(CloseCommand(v))
  BY <1>5 DEF Keyed
<1>7. Backs(CloseCommand(v), Notice(Signal, run.cursor, action))
  BY <1>3, <1>5 DEF Backs, Notice
<1> QED BY <1>5, <1>6, <1>7 DEF action

LEMMA ExitTruthful ==
    ASSUME WideColumns, EngineInv, run.queue # <<>>, run.cursor < clock,
           \A n \in 1..Len(run.actions) : Announced(Notice(Signal, run.cursor, run.actions[n]))
    PROVE  TruthfulList(ExitCommands)
<1> DEFINE action(v) == ExitAction(Terms, track[Signal][v], Candle(run.cursor))
           notice(a) == Notice(Signal, run.cursor, a)
           tells == run.actions \o ExitActions
<1>1. /\ CloseCommands \in Seq(EngineCommand) /\ MarkResolved \in Seq(EngineCommand)
      /\ AnnounceCandle \in Seq(EngineCommand)
  BY ExitCommandsType
<1>2. /\ Len(Exiting) \in Nat /\ Len(CloseCommands) = Len(Exiting)
      /\ \A n \in 1..Len(Exiting) : CloseCommands[n] = CloseCommand(Exiting[n])
  <2>1. Len(Exiting) \in Nat
    BY ExitingIs, LenProperties
  <2>2. DOMAIN CloseCommands = 1..Len(Exiting)
    BY DEF CloseCommands
  <2> HIDE DEF EngineCommand
  <2> QED BY <1>1, <2>1, <2>2 DEF CloseCommands
<1>3. TruthfulList(CloseCommands)
  BY <1>2, CloseBacks DEF TruthfulList
<1>4. TruthfulList(CloseCommands \o MarkResolved)
  <2> DEFINE mark == Command("advance_checkpoint", Signal, run.cursor,
                             LifecycleCheckpoint(Signal), Null)
  <2>0. MarkResolved = <<mark>> /\ mark.operation = "advance_checkpoint"
    BY DEF MarkResolved, Command
  <2> HIDE DEF mark
  <2>1. /\ Len(MarkResolved) = 1 /\ MarkResolved[1].operation = "advance_checkpoint"
    BY <2>0
  <2>2. Keyed(MarkResolved[1])
    BY <2>1 DEF Keyed
  <2>3. \A n \in 1..Len(MarkResolved) :
           Keyed(MarkResolved[n]) /\ MarkResolved[n].operation # "enqueue_notification"
    BY <2>1, <2>2
  <2> QED BY <1>1, <1>3, <2>3, JoinTruthful
<1>5. \A n \in 1..Len(ExitActions) : \E m \in 1..Len(Exiting) : ExitActions[n] = action(Exiting[m])
  <2>1. CASE Len(Exiting) = 2 /\ action("FIXED") = action("MANAGED")
    <3>1. Exiting[1] = "FIXED"
      <4>1. CASE Leaves("FIXED") /\ Leaves("MANAGED")
        <5>1. Exiting = <<"FIXED", "MANAGED">>
          BY <4>1 DEF Exiting
        <5> QED BY <5>1
      <4>2. CASE Leaves("FIXED") /\ ~Leaves("MANAGED")
        <5>1. Exiting = <<"FIXED">>
          BY <4>2 DEF Exiting
        <5> QED BY <5>1
      <4>3. CASE ~Leaves("FIXED") /\ Leaves("MANAGED")
        <5>1. Exiting = <<"MANAGED">>
          BY <4>3 DEF Exiting
        <5>2. Len(Exiting) = 1
          BY <5>1
        <5> HIDE DEF action
        <5> QED BY <2>1, <5>2
      <4>4. CASE ~Leaves("FIXED") /\ ~Leaves("MANAGED")
        <5>1. Exiting = <<>>
          BY <4>4 DEF Exiting
        <5>2. Len(Exiting) = 0
          BY <5>1, EmptySeq
        <5> HIDE DEF action
        <5> QED BY <2>1, <5>2
      <4> QED BY <4>1, <4>2, <4>3, <4>4
    <3>2. ExitActions = <<action("FIXED")>>
      BY <2>1 DEF ExitActions
    <3>3. Exiting[1] = "FIXED" /\ Len(Exiting) = 2
      BY <2>1, <3>1
    <3> HIDE DEF action
    <3> QED BY <3>2, <3>3
  <2>2. CASE ~(Len(Exiting) = 2 /\ action("FIXED") = action("MANAGED"))
    <3>1. ExitActions = [n \in 1..Len(Exiting) |-> action(Exiting[n])]
      BY <2>2 DEF ExitActions
    <3>2. Len(ExitActions) = Len(Exiting)
      <4>1. ExitActions \in Seq(Announcement) /\ DOMAIN ExitActions = 1..Len(Exiting)
        BY <3>1, ExitActionsType
      <4> QED BY <1>2, <4>1
    <3> HIDE DEF action
    <3> QED BY <3>1, <3>2
  <2> QED BY <2>1, <2>2
<1>6. \A n \in 1..Len(ExitActions) : Supported(notice(ExitActions[n]), CloseCommands)
  <2> TAKE n \in 1..Len(ExitActions)
  <2>1. PICK m \in 1..Len(Exiting) : ExitActions[n] = action(Exiting[m])
    BY <1>5
  <2>2. Backs(CloseCommands[m], notice(ExitActions[n]))
    BY <1>2, <2>1, CloseBacks
  <2> QED BY <1>2, <2>2 DEF Supported
<1>7. \A n : Supported(n, CloseCommands) => Supported(n, CloseCommands \o MarkResolved)
  <2> HIDE DEF EngineCommand
  <2>1. /\ Len(CloseCommands) \in Nat /\ Len(CloseCommands \o MarkResolved) \in Nat
        /\ Len(CloseCommands \o MarkResolved) >= Len(CloseCommands)
        /\ \A m \in 1..Len(CloseCommands) : (CloseCommands \o MarkResolved)[m] = CloseCommands[m]
    BY <1>1, ConcatProperties, LenProperties
  <2> QED BY <2>1 DEF Supported
<1>8. run.actions \in Seq(Announcement) /\ ExitActions \in Seq(Announcement)
  BY ExitActionsType, Inherits DEF EngineInv
<1>9. \A n \in 1..Len(tells) : Supported(notice(tells[n]), CloseCommands \o MarkResolved)
  <2> TAKE n \in 1..Len(tells)
  <2>1. /\ Len(run.actions) \in Nat /\ Len(ExitActions) \in Nat
        /\ Len(tells) = Len(run.actions) + Len(ExitActions)
        /\ \A m \in 1..Len(run.actions) : tells[m] = run.actions[m]
        /\ \A m \in 1..Len(ExitActions) : tells[Len(run.actions) + m] = ExitActions[m]
    BY <1>8, ConcatProperties, LenProperties
  <2> HIDE DEF tells
  <2>2. CASE n \in 1..Len(run.actions)
    BY <2>1, <2>2 DEF Supported
  <2>3. CASE n \notin 1..Len(run.actions)
    <3>1. n - Len(run.actions) \in 1..Len(ExitActions)
          /\ Len(run.actions) + (n - Len(run.actions)) = n
      BY <2>1, <2>3
    <3>2. tells[n] = ExitActions[n - Len(run.actions)]
      BY <2>1, <3>1
    <3> HIDE DEF notice
    <3> QED BY <1>6, <1>7, <3>1, <3>2
  <2> QED BY <2>2, <2>3
<1>10. tells \in Seq(Announcement)
  BY <1>8, ConcatProperties
<1>11. CloseCommands \o MarkResolved \in Seq(EngineCommand)
  BY <1>1, ConcatProperties
<1>12. AnnounceCandle = Enqueues(Signal, run.cursor, tells)
  BY DEF AnnounceCandle
<1> HIDE DEF tells
<1>13. \A n \in 1..Len(AnnounceCandle) :
          /\ Keyed(AnnounceCandle[n])
          /\ AnnounceCandle[n].operation = "enqueue_notification" =>
                Supported(AnnounceCandle[n].key, CloseCommands \o MarkResolved)
  BY <1>9, <1>10, <1>12, EnqueuesAre
<1> QED BY <1>1, <1>4, <1>11, <1>13, JoinTruthful DEF ExitCommands

LEMMA DecideTruthful ==
    ASSUME WideColumns, EngineInv, run.queue # <<>>, run.cursor < clock,
           TrackActive(Signal, "MANAGED")
    PROVE  TruthfulList(Decide(run.cursor))
<1> DEFINE i == run.cursor
           d == Decision(Terms, trade[Signal], track[Signal]["MANAGED"], Candle(i),
                         OnActivationCandle)
           k == CommandKey(Signal, i, "management", "")
           mark == Command("advance_checkpoint", Signal, i, ManagementCheckpoint(Signal), Null)
           apply == Command("apply_management_decision", Signal, i, k, d)
           tell == IF d.changes_managed_result
                   THEN Enqueues(Signal, i, <<DecisionAction(d)>>) ELSE <<>>
<1>1. Decide(i) = IF DecisionExists(k) THEN <<mark>> ELSE <<apply, mark>> \o tell
  BY DEF Decide
<1>2. mark.operation = "advance_checkpoint" /\ Keyed(mark)
  BY DEF Command, Keyed
<1>3. apply.operation = "apply_management_decision" /\ Keyed(apply)
  BY DEF Command, Keyed
<1>4. Backs(apply, Notice(Signal, i, DecisionAction(d)))
  BY DEF Command, Backs, Notice, DecisionAction
<1>5. /\ tell \in Seq(EngineCommand) /\ <<apply, mark>> \in Seq(EngineCommand)
      /\ \A n \in 1..Len(tell) :
            /\ Keyed(tell[n])
            /\ tell[n].operation = "enqueue_notification" =>
                  Backs(apply, tell[n].key)
  <2>1. Decide(i) \in Seq(EngineCommand) /\ Signal \in SignalId /\ i \in Minute
    BY DecideType, MonitoredSignal, Bounds DEF EngineInv, Minute
  <2>2. apply \in EngineCommand /\ mark \in EngineCommand
    BY PlannedDecisionType
  <2>3. <<DecisionAction(d)>> \in Seq(Announcement) /\ Len(<<DecisionAction(d)>>) = 1
        /\ <<DecisionAction(d)>>[1] = DecisionAction(d)
    BY DEF DecisionAction, Announcement
  <2>4. Enqueues(Signal, i, <<DecisionAction(d)>>) \in Seq(EngineCommand)
    BY <2>1, <2>3, EnqueuesType
  <2> HIDE DEF d, EngineCommand, apply, mark
  <2>5. <<apply, mark>> \in Seq(EngineCommand)
    BY <2>2
  <2>6. CASE d.changes_managed_result
    <3>1. tell = Enqueues(Signal, i, <<DecisionAction(d)>>)
      BY <2>6
    <3>2. /\ Len(tell) = 1 /\ Keyed(tell[1])
          /\ tell[1].key = Notice(Signal, i, DecisionAction(d))
      <4> DEFINE list == <<DecisionAction(d)>>
      <4>1. list \in Seq(Announcement) /\ Len(list) = 1 /\ list[1] = DecisionAction(d)
        BY <2>3
      <4>2. tell = Enqueues(Signal, i, list)
        BY <3>1
      <4> HIDE DEF tell, list
      <4>3. /\ Len(Enqueues(Signal, i, list)) = Len(list)
            /\ \A n \in 1..Len(list) : /\ Enqueues(Signal, i, list)[n].key = Notice(Signal, i, list[n])
                                       /\ Keyed(Enqueues(Signal, i, list)[n])
        BY <4>1, EnqueuesAre
      <4> QED BY <4>1, <4>2, <4>3
    <3> HIDE DEF tell
    <3>3. \A n \in 1..Len(tell) : n = 1
      BY <3>2
    <3> QED BY <1>4, <2>4, <2>5, <3>1, <3>2, <3>3
  <2>7. CASE ~d.changes_managed_result
    <3>1. tell = <<>> /\ Len(<<>>) = 0
      BY <2>7, EmptySeq
    <3> HIDE DEF tell
    <3> QED BY <2>5, <3>1, EmptySeq
  <2> QED BY <2>6, <2>7
<1> HIDE DEF d, k, mark, apply, tell
<1>6. CASE DecisionExists(k)
  <2>1. Decide(i) = <<mark>> /\ Len(<<mark>>) = 1 /\ <<mark>>[1] = mark
    BY <1>1, <1>6
  <2> QED BY <1>2, <2>1 DEF TruthfulList
<1>7. CASE ~DecisionExists(k)
  <2>1. Decide(i) = <<apply, mark>> \o tell
    BY <1>1, <1>7
  <2>2. Len(<<apply, mark>>) = 2 /\ <<apply, mark>>[1] = apply /\ <<apply, mark>>[2] = mark
    OBVIOUS
  <2>3. TruthfulList(<<apply, mark>>)
    BY <1>2, <1>3, <2>2 DEF TruthfulList
  <2>4. \A n : Backs(apply, n) => Supported(n, <<apply, mark>>)
    BY <2>2 DEF Supported
  <2> QED BY <1>5, <2>1, <2>3, <2>4, JoinTruthful
<1> QED BY <1>6, <1>7

----------------------------------------------------------------------------
(* Every step keeps the messages true. *)

\* A planning step, as far as the messages are concerned.
LEMMA PlanKeepsTruth ==
    ASSUME TruthInv, UNCHANGED <<ledgerVars, late>>,
           TruthfulList(run'.todo), TruthfulActions(run')
    PROVE  TruthInv'
BY ZenonT(40) DEF TruthInv, ReceiptsTell, CreationTold, NoFalseAnnouncement, Announced, TruthfulList,
       TruthfulActions, Supported, TruthfulLate, ledgerVars, tradeVars

LEMMA RestingTruthful ==
    /\ TruthfulList(Failed.todo) /\ TruthfulActions(Failed)
    /\ TruthfulList(Idle.todo) /\ TruthfulActions(Idle)
<1>1. Failed.todo = <<>> /\ Failed.phase = "record" /\ Idle.todo = <<>> /\ Idle.phase = "idle"
  BY DEF Failed, Idle
<1> QED BY <1>1, EmptyTruthful DEF TruthfulActions

LEMMA PlanningTruth ==
    ASSUME WideColumns, EngineInv, TruthInv,
           \/ Start \/ Load \/ Collect \/ PlanEntry \/ PlanExit \/ PlanManagement \/ EndSignal
           \/ Evaluate \/ Report \/ Record \/ ReadFails \/ Kill
    PROVE  TruthfulList(run'.todo) /\ TruthfulActions(run')
<1>0. RunType(run) /\ Len(<<>>) = 0
  BY EmptySeq DEF EngineInv, EngineTypeOK
<1>1. CASE run' \in {Failed, Idle}
  BY <1>1, RestingTruthful
<1>2. ASSUME NEW phase \in Phases \ {"exit"}, run'.phase = phase, run'.todo = <<>>
      PROVE  TruthfulList(run'.todo) /\ TruthfulActions(run')
  BY <1>2, EmptyTruthful DEF TruthfulActions
<1>3. CASE Start
  <2>1. Idle.todo = <<>>
    BY DEF Idle
  <2> DEFINE idle == Idle
  <2>2. run' = [idle EXCEPT !.phase = "load", !.now = clock] /\ RunType(idle) /\ idle.todo = <<>>
    BY <1>3, <2>1, RestingRuns DEF Start, EngineInv
  <2> HIDE DEF idle
  <2>3. run'.phase = "load" /\ run'.todo = <<>>
    BY <2>2 DEF RunType
  <2> QED BY <1>2, <2>3 DEF Phases
<1>4. CASE Load
  <2>1. run'.phase = "collect" /\ run'.todo = <<>>
    <3>1. PICK queue, active : run' = [run EXCEPT !.phase = "collect", !.paused = paused,
                  !.queue = queue, !.last = LastSignalAt, !.active = active]
      BY <1>4 DEF Load
    <3> QED BY <1>0, <1>4, <3>1 DEF Load, Planning, RunType
  <2> QED BY <1>2, <2>1 DEF Phases
<1>5. CASE Collect
  <2>1. run'.phase = "entry" /\ run'.todo = <<>>
    BY <1>0, <1>5 DEF Collect, Planning, RunType
  <2> QED BY <1>2, <2>1 DEF Phases
<1>6. CASE EndSignal
  <2>1. run'.phase = "entry" /\ run'.todo = <<>>
    BY <1>0, <1>6 DEF EndSignal, Planning, RunType
  <2> QED BY <1>2, <2>1 DEF Phases
<1>7. CASE PlanEntry
  <2>1. CASE run' = [run EXCEPT !.phase = "manage"]
    <3>1. run'.phase = "manage" /\ run'.todo = <<>>
      BY <1>0, <1>7, <2>1 DEF PlanEntry, Planning, RunType
    <3> QED BY <1>2, <3>1 DEF Phases
  <2>2. CASE run' = [run EXCEPT !.phase = "exit", !.actions = EntryActions, !.todo = EntryCommands]
    <3>1. /\ run'.phase = "exit" /\ run'.actions = EntryActions /\ run'.todo = EntryCommands
          /\ run'.queue = run.queue /\ run'.cursor = run.cursor
      BY <1>0, <2>2 DEF RunType
    <3>2. run.queue # <<>>
      BY <1>7 DEF PlanEntry, AtCandle
    <3> QED BY <3>1, <3>2, EntryTruthful DEF TruthfulActions, Signal
  <2> QED BY <1>1, <1>7, <2>1, <2>2 DEF PlanEntry
<1>8. CASE PlanExit
  <2>1. run'.phase = "manage" /\ run'.todo = ExitCommands
    BY <1>0, <1>8 DEF PlanExit, RunType
  <2>2. run.queue # <<>> /\ run.cursor < clock
    BY <1>8, Bounds DEF PlanExit, Planning, EngineInv, EngineTypeOK, RunPlace
  <2>3. \A n \in 1..Len(run.actions) : Announced(Notice(Signal, run.cursor, run.actions[n]))
    <3>1. run.phase = "exit" /\ run.todo = <<>>
      BY <1>8 DEF PlanExit, Planning
    <3> QED BY <1>0, <3>1 DEF TruthInv, TruthfulActions, Supported, Signal
  <2> QED BY <2>1, <2>2, <2>3, ExitTruthful DEF TruthfulActions
<1>9. CASE PlanManagement
  <2>1. CASE /\ Managing
             /\ run' = [run EXCEPT !.phase = "entry", !.cursor = @ + 1, !.todo = Decide(run.cursor)]
    <3>1. run'.phase = "entry" /\ run'.todo = Decide(run.cursor)
      BY <1>0, <2>1 DEF RunType
    <3>2. run.queue # <<>> /\ run.cursor < clock /\ TrackActive(Signal, "MANAGED")
      BY <1>9, <2>1, Bounds DEF PlanManagement, Planning, EngineInv, EngineTypeOK, RunPlace, Managing
    <3> QED BY <3>1, <3>2, DecideTruthful DEF TruthfulActions
  <2>2. CASE run' = [run EXCEPT !.phase = "entry", !.cursor = @ + 1]
    <3>1. run'.phase = "entry" /\ run'.todo = <<>>
      BY <1>0, <1>9, <2>2 DEF PlanManagement, Planning, RunType
    <3> QED BY <1>2, <3>1 DEF Phases
  <2> QED BY <1>1, <1>9, <2>1, <2>2 DEF PlanManagement
<1>10. CASE Evaluate
  <2>1. CASE run' = [run EXCEPT !.phase = "report"]
    <3>1. run'.phase = "report" /\ run'.todo = <<>>
      BY <1>0, <1>10, <2>1 DEF Evaluate, Planning, RunType
    <3> QED BY <1>2, <3>1 DEF Phases
  <2>2. ASSUME NEW setup, NEW aligned,
               run' = [run EXCEPT !.phase = "report",
                         !.todo = <<Command("allocate_signal_id", Null, run.now, DateOf[run.now],
                                            NewTerms(setup, aligned))>>]
        PROVE  TruthfulList(run'.todo) /\ TruthfulActions(run')
    <3> DEFINE c == Command("allocate_signal_id", Null, run.now, DateOf[run.now],
                            NewTerms(setup, aligned))
    <3>1. c.operation = "allocate_signal_id" /\ Keyed(c)
      BY DEF Command, Keyed
    <3>2. run' = [run EXCEPT !.phase = "report", !.todo = <<c>>]
      BY <2>2
    <3> HIDE DEF c
    <3>3. run'.phase = "report" /\ run'.todo = <<c>>
      BY <1>0, <3>2 DEF RunType
    <3>4. Len(<<c>>) = 1 /\ <<c>>[1] = c
      OBVIOUS
    <3> QED BY <3>1, <3>3, <3>4 DEF TruthfulList, TruthfulActions
  <2> QED BY <1>10, <2>1, <2>2 DEF Evaluate
<1>11. CASE Report
  <2> DEFINE list == <<"REPORT">>
             sends == Enqueues(Null, run.now, list)
  <2>1. list \in Seq(Announcement) /\ Len(list) = 1 /\ list[1] = "REPORT"
    BY DEF Announcement
  <2>2. run' = [run EXCEPT !.phase = "record",
                  !.todo = IF ~run.paused /\ run.now \in ReportMinutes THEN sends ELSE <<>>]
    BY <1>11 DEF Report
  <2> HIDE DEF list
  <2>3. /\ Len(sends) = 1 /\ Keyed(sends[1])
        /\ sends[1].key = Notice(Null, run.now, "REPORT")
    BY <2>1, EnqueuesAre
  <2>4. Announced(Notice(Null, run.now, "REPORT"))
    BY DEF Announced, Notice
  <2> HIDE DEF sends
  <2>5. TruthfulList(sends)
    BY <2>3, <2>4 DEF TruthfulList
  <2>6. run'.phase = "record" /\ (run'.todo = sends \/ run'.todo = <<>>)
    BY <1>0, <2>2 DEF RunType
  <2> QED BY <2>5, <2>6, EmptyTruthful DEF TruthfulActions
<1> QED BY <1>1, <1>3, <1>4, <1>5, <1>6, <1>7, <1>8, <1>9, <1>10, <1>11 DEF Record, ReadFails, Kill

\* A command that takes effect, in whatever run it was planned.
LEMMA ExecutingTruth ==
    ASSUME WideColumns, EngineInv, TruthInv, NEW c \in EngineCommand, Keyed(c),
           c.operation = "enqueue_notification" => Announced(c.key),
           Executes(c) \/ UNCHANGED ledgerVars, late' \subseteq late,
           TruthfulList(run.todo)', TruthfulActions(run)'
    PROVE  TruthInv'
<1>1. ReceiptsTell' /\ CreationTold' /\ NoFalseAnnouncement' /\ event \subseteq event'
  BY ExecutesKeepsBooks, ExecutesKeepsTruth, ExecutesKeepsEvents DEF EngineInv, TruthInv
<1>2. TruthfulLate'
  BY <1>1, AnnouncedStays DEF TruthInv, TruthfulLate
<1> QED BY <1>1, <1>2 DEF TruthInv

\* The command a run sends next is keyed, and true if it is a message.
LEMMA HeadTruthful ==
    ASSUME WideColumns, EngineInv, TruthInv, run.todo # <<>>
    PROVE  LET c == Prepared(Head(run.todo))
           IN  /\ c \in EngineCommand /\ Keyed(c)
               /\ c.operation = "enqueue_notification" => Announced(c.key)
<1>1. /\ Head(run.todo) \in EngineCommand /\ Prepared(Head(run.todo)) \in EngineCommand
      /\ Prepared(Head(run.todo)).operation = Head(run.todo).operation
      /\ Prepared(Head(run.todo)).key = Head(run.todo).key
  BY NextCommand, PreparedType DEF EngineInv
<1>2. run.todo \in Seq(EngineCommand)
  BY DEF EngineInv, EngineTypeOK, RunType
<1>3. 1 \in 1..Len(run.todo) /\ Head(run.todo) = run.todo[1]
  <2> HIDE DEF EngineCommand
  <2> QED BY <1>2
<1>4. /\ Keyed(Head(run.todo))
      /\ Head(run.todo).operation = "enqueue_notification" => Announced(Head(run.todo).key)
  BY <1>3 DEF TruthInv, TruthfulList
<1> QED BY <1>1, <1>4, PreparedSame

LEMMA SendTruth ==
    ASSUME WideColumns, EngineInv, TruthInv, Send PROVE TruthInv'
<1> DEFINE h == Head(run.todo)
           c == Prepared(h)
<1>0. RunType(run) /\ run.todo # <<>> /\ run.todo \in Seq(EngineCommand)
  BY DEF EngineInv, EngineTypeOK, RunType, Send
<1>1. /\ c \in EngineCommand /\ Keyed(c)
      /\ c.operation = "enqueue_notification" => Announced(c.key)
  BY <1>0, HeadTruthful
<1>2. /\ Executes(c) /\ run' = IF Accepted(c) THEN AfterReply(c) ELSE Failed
      /\ UNCHANGED late
  BY DEF Send, environment
<1>3. event \subseteq event'
  BY <1>2, ExecutesKeepsEvents
<1>4. TruthfulList(run.todo)' /\ TruthfulActions(run)'
  <2>1. CASE ~Accepted(c)
    <3>1. run' = Failed /\ Failed.todo = <<>> /\ Failed.phase = "record" /\ Len(<<>>) = 0
      BY <1>2, <2>1, EmptySeq DEF Failed, Idle
    <3> QED BY <3>1 DEF TruthfulList, TruthfulActions
  <2>2. CASE Accepted(c) /\ c.operation = "allocate_signal_id"
    <3> DEFINE s == <<c.key, sequence'[c.key]>>
               create == Command("create_signal", s, run.now, CreatedNotice(s), c.data)
               tell == Command("enqueue_notification", s, run.now, CreatedNotice(s), Null)
    <3>1. run' = [run EXCEPT !.todo = <<create, tell>>]
      BY <1>2, <2>2 DEF AfterReply, CreateCommands
    <3>2. /\ Keyed(create) /\ create.operation = "create_signal"
          /\ Keyed(tell) /\ tell.key = CreatedNotice(s)
          /\ Backs(create, CreatedNotice(s))
      BY DEF Command, Keyed, Backs, CreatedNotice, Notice
    <3> HIDE DEF create, tell, s, c
    <3>3. /\ run'.todo = <<create, tell>> /\ run'.phase = run.phase /\ run'.cursor = run.cursor
          /\ run'.queue = run.queue /\ run'.actions = run.actions
      BY <1>0, <3>1 DEF RunType
    <3>4. Len(<<create, tell>>) = 2 /\ <<create, tell>>[1] = create /\ <<create, tell>>[2] = tell
      OBVIOUS
    <3>5. TruthfulList(run.todo)'
      BY <3>2, <3>3, <3>4 DEF TruthfulList
    <3>6. run.phase # "exit"
      <4>1. 1 \in 1..Len(run.todo) /\ run.todo[1] = h /\ h.operation = "allocate_signal_id"
        <5>1. h.operation = c.operation /\ h \in EngineCommand
          BY <1>0, NextCommand, PreparedType DEF EngineInv, c
        <5> HIDE DEF EngineCommand
        <5> QED BY <1>0, <2>2, <5>1
      <4> QED BY <4>1 DEF TruthInv, TruthfulActions
    <3> QED BY <3>3, <3>5, <3>6 DEF TruthfulActions
  <2>3. CASE Accepted(c) /\ c.operation # "allocate_signal_id"
    <3>1. run' = [run EXCEPT !.todo = Tail(run.todo)]
      BY <1>2, <2>3 DEF AfterReply
    <3>2. /\ run'.todo = Tail(run.todo) /\ run'.phase = run.phase /\ run'.cursor = run.cursor
          /\ run'.queue = run.queue /\ run'.actions = run.actions
      BY <1>0, <3>1 DEF RunType
    <3>3. \A n : Backs(h, n) => Announced(n)'
      <4>1. h \in EngineCommand
        BY <1>0, NextCommand DEF EngineInv
      <4>2. \A n : Backs(h, n) => Backs(c, n)
        BY <4>1, PreparedSame
      <4> HIDE DEF c
      <4> QED BY <1>1, <1>2, <2>3, <4>2, AcceptedMakesTrue DEF TruthInv
    <3>4. /\ TruthfulList(run.todo) => TruthfulList(run.todo)'
          /\ \A n : Supported(n, run.todo) => Supported(n, run.todo)'
      <4>1. PICK list : list = run.todo
        OBVIOUS
      <4>2. /\ TruthfulList(list) => TruthfulList(Tail(list))'
            /\ \A n : Supported(n, list) => Supported(n, Tail(list))'
        BY <1>0, <1>3, <3>3, <4>1, TailTruthful
      <4> QED BY <3>2, <4>1, <4>2
    <3>5. \A m \in 1..Len(Tail(run.todo)) :
             m + 1 \in 1..Len(run.todo) /\ Tail(run.todo)[m] = run.todo[m + 1]
      <4> HIDE DEF EngineCommand
      <4> QED BY <1>0
    <3>6. TruthfulActions(run) => TruthfulActions(run)'
      BY <3>2, <3>4, <3>5 DEF TruthfulActions
    <3> QED BY <3>2, <3>4, <3>6 DEF TruthInv
  <2> QED BY <2>1, <2>2, <2>3
<1> HIDE DEF c
<1> QED BY <1>1, <1>2, <1>4, ExecutingTruth

LEMMA TruthStep ==
    ASSUME WideColumns, EngineInv, TruthInv, [EngineNext]_vars PROVE TruthInv'
<1>0. /\ TruthfulList(run.todo) /\ TruthfulActions(run) /\ TruthfulLate
      /\ Failed.todo = <<>> /\ Failed.phase = "record" /\ Len(<<>>) = 0
  BY EmptySeq DEF TruthInv, Failed, Idle
<1>1. CASE \/ Start \/ Load \/ Collect \/ PlanEntry \/ PlanExit \/ PlanManagement \/ EndSignal
           \/ Evaluate \/ Report \/ Record \/ ReadFails \/ Kill
  <2>1. UNCHANGED <<ledgerVars, late>>
    BY <1>1 DEF Start, Load, Collect, PlanEntry, PlanExit, PlanManagement, EndSignal, Evaluate,
         Report, Record, ReadFails, Kill, environment
  <2>2. TruthfulList(run'.todo) /\ TruthfulActions(run')
    BY <1>1, PlanningTruth
  <2> QED BY <2>1, <2>2, PlanKeepsTruth
<1>2. CASE Send
  BY <1>2, SendTruth
<1>3. CASE LoseReply
  <2> DEFINE c == Prepared(Head(run.todo))
  <2>1. /\ c \in EngineCommand /\ Keyed(c)
        /\ c.operation = "enqueue_notification" => Announced(c.key)
    BY <1>3, HeadTruthful DEF LoseReply
  <2>2. (Executes(c) \/ UNCHANGED ledgerVars) /\ run' = Failed /\ UNCHANGED late
    BY <1>3 DEF LoseReply
  <2>3. TruthfulList(run.todo)' /\ TruthfulActions(run)'
    BY <1>0, <2>2 DEF TruthfulList, TruthfulActions
  <2> HIDE DEF c
  <2> QED BY <2>1, <2>2, <2>3, ExecutingTruth
<1>4. CASE GiveUp
  <2>1. PICK d : d = Prepared(Head(run.todo))
    OBVIOUS
  <2>2. /\ d \in EngineCommand /\ Keyed(d)
        /\ d.operation = "enqueue_notification" => Announced(d.key)
    BY <1>4, <2>1, HeadTruthful DEF GiveUp
  <2>3. UNCHANGED ledgerVars /\ run' = Failed /\ late' = late \cup {d}
    BY <1>4, <2>1 DEF GiveUp
  <2>4. TruthfulList(run.todo)' /\ TruthfulActions(run)'
    BY <1>0, <2>3 DEF TruthfulList, TruthfulActions
  <2>5. ReceiptsTell' /\ CreationTold' /\ NoFalseAnnouncement' /\ event' = event
    BY <2>3 DEF TruthInv, ReceiptsTell, CreationTold, NoFalseAnnouncement, Announced, ledgerVars,
         tradeVars
  <2>6. \A n : Announced(n) => Announced(n)'
    BY <2>5, AnnouncedStays
  <2>7. \A x : Keyed(x)' = Keyed(x)
    BY DEF Keyed
  <2>8. TruthfulLate'
    BY <1>0, <2>2, <2>3, <2>6, <2>7 DEF TruthfulLate
  <2> QED BY <2>4, <2>5, <2>8 DEF TruthInv
<1>5. CASE ArriveLate
  <2>1. PICK c \in late : Executes(c) /\ late' = late \ {c} /\ UNCHANGED run
    BY <1>5 DEF ArriveLate
  <2>2. /\ c \in EngineCommand /\ Keyed(c)
        /\ c.operation = "enqueue_notification" => Announced(c.key)
    BY <1>0 DEF TruthfulLate, EngineInv, EngineTypeOK
  <2>3. event \subseteq event'
    BY <2>1, ExecutesKeepsEvents
  <2>4. TruthfulList(run.todo)' /\ TruthfulActions(run)'
    <3>1. PICK list : list = run.todo
      OBVIOUS
    <3>2. /\ TruthfulList(list) => TruthfulList(list)'
          /\ \A n : Supported(n, list) => Supported(n, list)'
      BY <2>3, ListStays
    <3>3. TruthfulList(run.todo)'
      BY <1>0, <2>1, <3>1, <3>2
    <3>4. \A n : Supported(n, run.todo) => Supported(n, run.todo)'
      BY <2>1, <3>1, <3>2
    <3>5. TruthfulActions(run)'
      BY <1>0, <2>1, <3>4 DEF TruthfulActions
    <3> QED BY <3>3, <3>5
  <2> QED BY <2>1, <2>2, <2>4, ExecutingTruth
<1>6. CASE Tick \/ TogglePause \/ UNCHANGED vars
  <2>1. UNCHANGED <<ledgerVars, late, run>>
    BY <1>6 DEF Tick, TogglePause, vars, engineVars
  <2> QED BY <1>0, <2>1, PlanKeepsTruth
<1> QED BY <1>1, <1>2, <1>3, <1>4, <1>5, <1>6 DEF EngineNext, RunStep

\* No message announces what did not happen, however many runs are killed and
\* however late their commands arrive: a message is only ever sent after the
\* command that makes it true was acknowledged, and what was booked is never
\* taken back.
THEOREM MessagesAreTrue == WideColumns => (EngineSpec => []NoFalseAnnouncement)
<1> SUFFICES ASSUME WideColumns PROVE EngineSpec => []NoFalseAnnouncement
  OBVIOUS
<1>1. EngineInit => TruthInv
  <2>1. EngineInit => run.todo = <<>> /\ run.phase = "idle" /\ Len(<<>>) = 0
    BY EmptySeq DEF EngineInit, Idle
  <2> QED BY <2>1, EmptyTruthful DEF EngineInit, Init, TruthInv, ReceiptsTell, CreationTold,
        NoFalseAnnouncement, TruthfulActions, TruthfulLate
<1>2. EngineInv /\ TruthInv /\ [EngineNext]_vars => TruthInv'
  BY TruthStep
<1>3. TruthInv => NoFalseAnnouncement
  BY DEF TruthInv
<1>4. EngineSpec => []EngineInv
  BY EngineInvariance
<1> QED BY <1>1, <1>2, <1>3, <1>4, PTL DEF EngineSpec

============================================================================
