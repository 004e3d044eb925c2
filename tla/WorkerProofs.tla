---------------------------- MODULE WorkerProofs ----------------------------
(***************************************************************************)
(* Proofs about the Worker: message delivery, the owner's commands that    *)
(* are answered through it, and the dispatch of the scheduled workflow;    *)
(* for any number of messages, updates, cron instants and invocations.     *)
(* What a delivery guarantees (the first part) holds under the webhook,    *)
(* too, and is what lets an update be called COMPLETED (the second part).  *)
(***************************************************************************)
EXTENDS TelegramUpdates, Dispatch, SequenceTheorems, TLAPS

----------------------------------------------------------------------------
(* Message delivery: any number of messages, invocations and crashes.      *)

\* Every column and every invocation has its type at first.
LEMMA InitType == Init => TypeOK
BY BoundAssumption DEF Init, TypeOK, DeliveryStatus, IdleHandler, Phase, Reply, At

\* The states of an invocation.
HandlerState == [phase : Phase, queue : Seq(Message), reply : Reply]

Busy(state) == state.phase # "idle" => state.queue # <<>>

\* The rest of a queue of several messages is a queue.
LEMMA TailOfQueue ==
    ASSUME NEW queue \in Seq(Message), queue # <<>>, Len(queue) # 1
    PROVE  Tail(queue) \in Seq(Message) /\ Tail(queue) # <<>>
<1>1. Len(queue) \in Nat \ {0}
  BY EmptySeq
<1>2. Tail(queue) \in Seq(Message) /\ Len(Tail(queue)) = Len(queue) - 1
  BY HeadTailProperties
<1>3. Len(Tail(queue)) # 0
  BY <1>1, <1>2
<1>4. Len(<<>>) = 0
  BY EmptySeq
<1> QED BY <1>2, <1>3, <1>4

\* Returning keeps an invocation's type and leaves it busy or idle.
LEMMA ReturnType ==
    ASSUME TypeOK, NEW h \in Handler, ~At(h, "idle"), Return(h)
    PROVE  /\ handler' \in [Handler -> HandlerState]
           /\ \A g \in Handler : Busy(handler'[g])
<1> DEFINE queue == handler[h].queue
<1> DEFINE next == IF Len(queue) = 1 THEN IdleHandler
                   ELSE [phase |-> "insert", queue |-> Tail(queue), reply |-> "none"]
<1>1. /\ handler \in [Handler -> HandlerState]
      /\ \A g \in Handler : Busy(handler[g])
  BY DEF TypeOK, HandlerState, Busy, At
<1>2. queue \in Seq(Message) /\ queue # <<>>
  BY <1>1 DEF HandlerState, Busy, At
<1>4. handler' = [handler EXCEPT ![h] = next]
  BY <1>1 DEF Return
<1> HIDE DEF queue
<1>3. next \in HandlerState /\ Busy(next)
  <2>1. CASE Len(queue) = 1
    BY <2>1, EmptySeq DEF IdleHandler, HandlerState, Phase, Reply, Busy
  <2>2. CASE Len(queue) # 1
    <3>1. Tail(queue) \in Seq(Message) /\ Tail(queue) # <<>>
      BY <1>2, <2>2, TailOfQueue
    <3> DEFINE tail == Tail(queue)
    <3>2. next = [phase |-> "insert", queue |-> tail, reply |-> "none"]
      BY <2>2
    <3> HIDE DEF tail, next
    <3>3. tail \in Seq(Message) /\ tail # <<>>
      BY <3>1 DEF tail
    <3> QED BY <3>2, <3>3 DEF HandlerState, Phase, Reply, Busy
  <2> QED BY <2>1, <2>2
<1> HIDE DEF next
<1> QED BY <1>1, <1>3, <1>4

\* Beginning with some messages does, too.
LEMMA BeginType ==
    ASSUME TypeOK, NEW h \in Handler, NEW list \in Seq(Message), list # <<>>, Begin(h, list)
    PROVE  /\ handler' \in [Handler -> HandlerState]
           /\ \A g \in Handler : Busy(handler'[g])
BY DEF TypeOK, Begin, HandlerState, Phase, Reply, Busy, At

\* And so does moving on to the next statement.
LEMMA GoToType ==
    ASSUME TypeOK, NEW h \in Handler, ~At(h, "idle"), NEW phase \in Phase, GoTo(h, phase)
    PROVE  /\ handler' \in [Handler -> HandlerState]
           /\ \A g \in Handler : Busy(handler'[g])
BY DEF TypeOK, GoTo, HandlerState, Phase, Reply, Busy, At

----------------------------------------------------------------------------
(* The inductive invariant: an invocation only calls Telegram for a message *)
(* whose row has left PENDING, and only reads a row that exists.           *)

Started(m) == row[m] \notin {"NONE", "PENDING"}

MarkedAt(h) ==
    /\ handler[h].phase \in {"send", "wait", "settle"} => Started(Current(h))
    /\ handler[h].phase \in {"read", "mark"} => row[Current(h)] # "NONE"

MarkedBeforeCall == \A h \in Handler : MarkedAt(h)

IInv ==
    /\ TypeOK
    /\ PendingMeansUnsent
    /\ OneAttemptCounted
    /\ MarkedBeforeCall

\* What a step does to the rows: none goes back.
RowsForward ==
    \A m \in Message :
        /\ row[m] \in Final => row'[m] = row[m]
        /\ row[m] = "UNKNOWN" => row'[m] \in {"UNKNOWN"} \cup Final
        /\ row[m] = "PENDING" => row'[m] # "NONE"

\* The message an invocation works on is a message.
LEMMA CurrentIsMessage ==
    ASSUME TypeOK, NEW h \in Handler, ~At(h, "idle")
    PROVE  Current(h) \in Message
<1> DEFINE queue == handler[h].queue
<1>1. queue \in Seq(Message) /\ queue # <<>>
  BY DEF TypeOK, At
<1> HIDE DEF queue
<1>2. Head(queue) \in Message
  BY <1>1, HeadTailProperties
<1> QED BY <1>2 DEF queue, Current

\* A list of pending messages is a queue.
LEMMA DrainQueue ==
    ASSUME NEW n \in 1..DrainLimit, NEW list \in [1..n -> Pending]
    PROVE  list \in Seq(Message) /\ list # <<>>
<1>1. n \in Nat \ {0}
  BY BoundAssumption
<1>2. list \in Seq(Message)
  BY <1>1 DEF Pending
<1>3. DOMAIN list = 1..n /\ 1 \in 1..n
  BY <1>1
<1>4. Len(list) = n
  BY <1>1, <1>3, <1>2, LenProperties
<1> QED BY <1>1, <1>2, <1>4, EmptySeq

\* INSERT OR IGNORE keeps the column typed, moves no row back and stores the row.
LEMMA InsertedRows ==
    ASSUME TypeOK, NEW m \in Message, row' = Inserted(m)
    PROVE  /\ row' \in [Message -> DeliveryStatus \cup {"NONE"}]
           /\ RowsForward
           /\ row'[m] # "NONE"
           /\ \A o \in Message : row'[o] = row[o] \/ (row[o] = "NONE" /\ row'[o] = "PENDING")
BY DEF TypeOK, Inserted, DeliveryStatus, RowsForward, Final

\* The types of an invocation, in one formula.
HandlersTyped(states) ==
    /\ states \in [Handler -> HandlerState]
    /\ \A h \in Handler : Busy(states[h])

\* TypeOK, with the invocations apart from the other columns.
LEMMA TypeParts ==
    ASSUME TypeOK
    PROVE  HandlersTyped(handler)
BY DEF TypeOK, HandlersTyped, HandlerState, Busy, At

\* The same, after a step.
LEMMA TypePartsNext ==
    ASSUME HandlersTyped(handler'),
           row' \in [Message -> DeliveryStatus \cup {"NONE"}],
           attempts' \in [Message -> Nat],
           calls' \in [Message -> Nat],
           accepted' \in [Message -> Nat],
           starts' \in 0..MaxStarts,
           crashes' \in 0..MaxCrashes
    PROVE  TypeOK'
BY DEF TypeOK, HandlersTyped, HandlerState, Busy, At

\* The row an invocation settles was UNKNOWN, or it stays as it is.
LEMMA SettleRows ==
    ASSUME TypeOK, NEW h \in Handler, Settle(h), Current(h) \in Message
    PROVE  /\ row' \in [Message -> DeliveryStatus \cup {"NONE"}]
           /\ \A m \in Message : row'[m] = row[m] \/ (row[m] = "UNKNOWN" /\ row'[m] \in Final)
<1>1. handler[h].reply \in Reply
  BY DEF TypeOK
<1>2. PICK status \in Results(handler[h].reply) : Settles(Current(h), status)
  BY DEF Settle
<1>3. Results(handler[h].reply) \subseteq {"SENT", "FAILED", "UNKNOWN"}
  <2>1. CASE handler[h].reply = "ok"
    BY <2>1 DEF Results
  <2>2. CASE handler[h].reply = "rejected"
    BY <2>2 DEF Results
  <2>3. CASE handler[h].reply = "none"
    BY <2>3 DEF Results
  <2> QED BY <1>1, <2>1, <2>2, <2>3 DEF Reply
<1>4. status \in {"SENT", "FAILED", "UNKNOWN"}
  BY <1>2, <1>3
<1>5. row' = IF row[Current(h)] = "UNKNOWN" THEN [row EXCEPT ![Current(h)] = status] ELSE row
  BY <1>2 DEF Settles
<1>6. row \in [Message -> DeliveryStatus \cup {"NONE"}]
  BY DEF TypeOK
<1>7. CASE row[Current(h)] = "UNKNOWN"
  BY <1>4, <1>5, <1>6, <1>7 DEF DeliveryStatus, Final
<1>8. CASE row[Current(h)] # "UNKNOWN"
  BY <1>5, <1>6, <1>8
<1> QED BY <1>7, <1>8

\* A statement of deliverOnce keeps the types.
LEMMA WorkType ==
    ASSUME TypeOK, NEW h \in Handler, Work(h) PROVE TypeOK'
<1>1. ~At(h, "idle")
  BY DEF Work, Insert, Read, Mark, Send, Answer, Settle, At
<1>2. Current(h) \in Message
  BY <1>1, CurrentIsMessage
<1>3. CASE Insert(h)
  <2>1. HandlersTyped(handler')
    BY <1>1, <1>3, GoToType DEF Insert, HandlersTyped, Phase
  <2> QED BY <1>2, <1>3, <2>1, InsertedRows, TypeParts, TypePartsNext DEF TypeOK, Insert
<1>4. CASE Read(h)
  <2>1. HandlersTyped(handler')
    BY <1>1, <1>4, GoToType, ReturnType DEF Read, HandlersTyped, Phase
  <2> QED BY <1>4, <2>1, TypeParts, TypePartsNext DEF TypeOK, Read
<1>5. CASE Mark(h)
  <2>1. HandlersTyped(handler')
    BY <1>1, <1>5, GoToType DEF Mark, HandlersTyped, Phase
  <2>2. /\ row' \in [Message -> DeliveryStatus \cup {"NONE"}]
        /\ attempts' \in [Message -> Nat]
    <3>1. CASE row[Current(h)] = "PENDING"
      <4>1. /\ row' = [row EXCEPT ![Current(h)] = "UNKNOWN"]
            /\ attempts' = [attempts EXCEPT ![Current(h)] = @ + 1]
        BY <1>5, <3>1 DEF Mark
      <4> QED BY <1>2, <4>1 DEF TypeOK, DeliveryStatus
    <3>2. CASE row[Current(h)] # "PENDING"
      BY <1>5, <3>2 DEF Mark, TypeOK
    <3> QED BY <3>1, <3>2
  <2> QED BY <1>5, <2>1, <2>2, TypeParts, TypePartsNext DEF TypeOK, Mark
<1>6. CASE Send(h)
  <2>1. HandlersTyped(handler')
    BY <1>1, <1>6, GoToType DEF Send, HandlersTyped, Phase
  <2>2. calls' \in [Message -> Nat]
    BY <1>2, <1>6 DEF Send, TypeOK
  <2> QED BY <1>6, <2>1, <2>2, TypeParts, TypePartsNext DEF TypeOK, Send
<1>7. CASE Answer(h)
  <2>1. HandlersTyped(handler')
    <3>1. HandlersTyped(handler) /\ handler[h].phase # "idle"
      BY <1>1, TypeParts DEF At
    <3>2. PICK reply \in Reply :
            handler' = [handler EXCEPT ![h] = [@ EXCEPT !.phase = "settle", !.reply = reply]]
      BY <1>7 DEF Answer
    <3> DEFINE next == [handler[h] EXCEPT !.phase = "settle", !.reply = reply]
    <3>3. next \in HandlerState /\ Busy(next)
      BY <3>1 DEF HandlersTyped, HandlerState, Phase, Busy
    <3>4. handler' = [handler EXCEPT ![h] = next]
      BY <3>1, <3>2 DEF HandlersTyped
    <3> HIDE DEF next
    <3> QED BY <3>1, <3>3, <3>4 DEF HandlersTyped
  <2>2. accepted' \in [Message -> Nat]
    BY <1>2, <1>7 DEF Answer, TypeOK
  <2> QED BY <1>7, <2>1, <2>2, TypeParts, TypePartsNext DEF TypeOK, Answer
<1>8. CASE Settle(h)
  <2>1. HandlersTyped(handler')
    BY <1>1, <1>8, ReturnType DEF Settle, HandlersTyped
  <2>2. row' \in [Message -> DeliveryStatus \cup {"NONE"}]
    BY <1>2, <1>8, SettleRows
  <2> QED BY <1>8, <2>1, <2>2, TypeParts, TypePartsNext DEF TypeOK, Settle
<1> QED BY <1>3, <1>4, <1>5, <1>6, <1>7, <1>8 DEF Work

\* Every step keeps every column typed.
LEMMA NextType ==
    ASSUME TypeOK, Next PROVE TypeOK'
<1>1. ASSUME NEW m \in Message, Publish(m) PROVE TypeOK'
  BY <1>1, InsertedRows, TypeParts, TypePartsNext DEF TypeOK, Publish
<1>2. ASSUME NEW h \in Handler, NEW m \in Message, Notify(h, m) \/ Respond(h, m)
      PROVE TypeOK'
  <2>1. Begin(h, <<m>>) /\ <<m>> \in Seq(Message) /\ <<m>> # <<>>
    BY <1>2 DEF Notify, Respond
  <2>2. HandlersTyped(handler')
    BY <2>1, BeginType DEF HandlersTyped
  <2>3. starts' \in 0..MaxStarts
    BY <1>2, BoundAssumption DEF Notify, Respond, TypeOK
  <2> QED BY <1>2, <2>2, <2>3, InsertedRows, TypeParts, TypePartsNext DEF TypeOK, Notify, Respond
<1>3. ASSUME NEW h \in Handler, Drain(h) PROVE TypeOK'
  <2>1. PICK n \in 1..DrainLimit : \E list \in [1..n -> Pending] : Begin(h, list)
    BY <1>3 DEF Drain
  <2>2. PICK list \in [1..n -> Pending] : Begin(h, list)
    BY <2>1
  <2>3. HandlersTyped(handler')
    BY <2>2, DrainQueue, BeginType DEF HandlersTyped
  <2> QED BY <1>3, <2>3, TypeParts, TypePartsNext DEF TypeOK, Drain
<1>4. ASSUME NEW h \in Handler, Crash(h) PROVE TypeOK'
  <2>1. HandlersTyped(handler')
    BY <1>4, EmptySeq DEF Crash, HandlersTyped, TypeOK, IdleHandler, HandlerState, Phase, Reply, Busy, At
  <2>2. crashes' \in 0..MaxCrashes
    BY <1>4, BoundAssumption DEF Crash, TypeOK
  <2> QED BY <1>4, <2>1, <2>2, TypeParts, TypePartsNext DEF TypeOK, Crash
<1> QED BY <1>1, <1>2, <1>3, <1>4, WorkType DEF Next

\* Every column holds values of its declared type, for every number of messages,
\* invocations, requests and crashes (migrations/0001, outbox).
THEOREM TypeCorrect == Spec => []TypeOK
<1>1. TypeOK /\ [Next]_outboxVars => TypeOK'
  <2> SUFFICES ASSUME TypeOK, UNCHANGED outboxVars PROVE TypeOK'
    BY NextType
  <2> QED BY DEF TypeOK, At, outboxVars
<1> QED BY <1>1, InitType, PTL DEF Spec

----------------------------------------------------------------------------
(* The rows. *)

\* A step of one invocation leaves the others' local states alone.
OthersKept(h) == \A g \in Handler \ {h} : handler'[g] = handler[g]

\* No statement takes a status back.
LEMMA WorkForward ==
    ASSUME TypeOK, NEW h \in Handler, Work(h) PROVE RowsForward /\ OthersKept(h)
<1>0. handler \in [Handler -> HandlerState]
  BY TypeParts DEF HandlersTyped
<1>1. ~At(h, "idle")
  BY DEF Work, Insert, Read, Mark, Send, Answer, Settle, At
<1>2. Current(h) \in Message
  BY <1>1, CurrentIsMessage
<1>3. OthersKept(h)
  BY <1>0 DEF OthersKept, Work, Insert, Read, Mark, Send, Answer, Settle, GoTo, Return
<1>4. CASE Insert(h)
  BY <1>2, <1>3, <1>4, InsertedRows DEF Insert
<1>5. CASE Read(h) \/ Send(h) \/ Answer(h)
  BY <1>3, <1>5 DEF Read, Send, Answer, RowsForward, Final
<1>6. CASE Mark(h)
  BY <1>2, <1>3, <1>6 DEF Mark, RowsForward, Final, TypeOK
<1>7. CASE Settle(h)
  BY <1>2, <1>3, <1>7, SettleRows DEF RowsForward, Final
<1> QED BY <1>3, <1>4, <1>5, <1>6, <1>7 DEF Work

\* Nor does any step.
LEMMA NextForward ==
    ASSUME TypeOK, Next PROVE RowsForward
<1>1. ASSUME NEW m \in Message, Publish(m) PROVE RowsForward
  BY <1>1, InsertedRows DEF Publish
<1>2. ASSUME NEW h \in Handler, NEW m \in Message, Notify(h, m) PROVE RowsForward
  BY <1>2, InsertedRows DEF Notify
<1>3. ASSUME NEW h \in Handler, NEW m \in Message, Respond(h, m) \/ Drain(h) \/ Crash(h)
      PROVE RowsForward
  BY <1>3 DEF Respond, Drain, Crash, RowsForward, Final
<1>4. ASSUME NEW h \in Handler, Drain(h) \/ Crash(h) PROVE RowsForward
  BY <1>4 DEF Drain, Crash, RowsForward, Final
<1> QED BY <1>1, <1>2, <1>3, <1>4, WorkForward DEF Next

\* Rows that only move forward keep what an invocation relies on.
LEMMA MarkedKept ==
    ASSUME TypeOK, RowsForward, NEW g \in Handler, MarkedAt(g), handler'[g] = handler[g]
    PROVE  MarkedAt(g)'
<1>1. CASE At(g, "idle")
  BY <1>1 DEF At, MarkedAt
<1>2. CASE ~At(g, "idle")
  <2>1. Current(g) \in Message /\ Current(g)' = Current(g)
    BY <1>2, CurrentIsMessage DEF Current
  <2> QED BY <2>1 DEF MarkedAt, Started, RowsForward, Final, TypeOK, DeliveryStatus
<1> QED BY <1>1, <1>2

\* So does an invocation at the start of deliverOnce, or at rest.
LEMMA MarkedAtStart ==
    ASSUME NEW h \in Handler, handler'[h].phase \in {"idle", "insert"}
    PROVE  MarkedAt(h)'
BY DEF MarkedAt

\* deliverOnce returned.
LEMMA ReturnPhase ==
    ASSUME TypeOK, NEW h \in Handler, Return(h)
    PROVE  handler'[h].phase \in {"idle", "insert"}
BY DEF TypeOK, Return, IdleHandler

\* A statement of deliverOnce leaves its own invocation as it must.
LEMMA WorkMarked ==
    ASSUME TypeOK, MarkedBeforeCall, NEW h \in Handler, Work(h) PROVE MarkedAt(h)'
<1>0. handler \in [Handler -> HandlerState] /\ RowsForward /\ MarkedAt(h)
  BY TypeParts, WorkForward DEF HandlersTyped, MarkedBeforeCall
<1>1. ~At(h, "idle")
  BY DEF Work, Insert, Read, Mark, Send, Answer, Settle, At
<1>2. Current(h) \in Message
  BY <1>1, CurrentIsMessage
<1>3. ASSUME NEW phase \in Phase, GoTo(h, phase)
      PROVE  handler'[h].phase = phase /\ Current(h)' = Current(h)
  BY <1>0, <1>3 DEF GoTo, Current, HandlerState
<1>4. CASE Insert(h)
  <2>1. row'[Current(h)] # "NONE"
    BY <1>2, <1>4, InsertedRows DEF Insert
  <2>2. handler'[h].phase = "read" /\ Current(h)' = Current(h)
    BY <1>3, <1>4 DEF Insert, Phase
  <2> QED BY <2>1, <2>2 DEF MarkedAt
<1>5. CASE Read(h)
  <2>1. CASE row[Current(h)] = "PENDING"
    <3>1. handler'[h].phase = "mark" /\ Current(h)' = Current(h) /\ row' = row
      BY <1>3, <1>5, <2>1 DEF Read, Phase
    <3> QED BY <2>1, <3>1 DEF MarkedAt
  <2>2. CASE row[Current(h)] # "PENDING"
    BY <1>5, <2>2, ReturnPhase, MarkedAtStart DEF Read
  <2> QED BY <2>1, <2>2
<1>6. CASE Mark(h)
  <2>1. handler'[h].phase = "send" /\ Current(h)' = Current(h)
    BY <1>3, <1>6 DEF Mark, Phase
  <2>2. row[Current(h)] # "NONE"
    BY <1>0, <1>6 DEF Mark, At, MarkedAt
  <2>3. Started(Current(h))'
    BY <1>2, <1>6, <2>1, <2>2 DEF Mark, Started, TypeOK
  <2> QED BY <2>1, <2>3 DEF MarkedAt
<1>7. CASE Send(h)
  <2>1. handler'[h].phase = "wait" /\ Current(h)' = Current(h) /\ row' = row
    BY <1>3, <1>7 DEF Send, Phase
  <2> QED BY <1>0, <1>7, <2>1 DEF Send, At, MarkedAt, Started
<1>8. CASE Answer(h)
  <2>1. handler'[h].phase = "settle" /\ Current(h)' = Current(h) /\ row' = row
    BY <1>0, <1>8 DEF Answer, Current, HandlerState
  <2> QED BY <1>0, <1>8, <2>1 DEF Answer, At, MarkedAt, Started
<1>9. CASE Settle(h)
  BY <1>9, ReturnPhase, MarkedAtStart DEF Settle
<1> QED BY <1>4, <1>5, <1>6, <1>7, <1>8, <1>9 DEF Work

\* Every step keeps the calls behind the marks.
LEMMA NextMarked ==
    ASSUME TypeOK, MarkedBeforeCall, Next PROVE MarkedBeforeCall'
<1>0. handler \in [Handler -> HandlerState] /\ RowsForward
  BY TypeParts, NextForward DEF HandlersTyped
<1>1. ASSUME NEW h \in Handler, OthersKept(h), MarkedAt(h)' PROVE MarkedBeforeCall'
  BY <1>0, <1>1, MarkedKept DEF OthersKept, MarkedBeforeCall
<1>2. ASSUME NEW m \in Message, Publish(m) PROVE MarkedBeforeCall'
  BY <1>0, <1>2, MarkedKept DEF Publish, MarkedBeforeCall
<1>3. ASSUME NEW h \in Handler, NEW list, Begin(h, list) PROVE MarkedBeforeCall'
  <2>1. OthersKept(h) /\ handler'[h].phase = "insert"
    BY <1>0, <1>3 DEF Begin, OthersKept
  <2> QED BY <1>1, <2>1, MarkedAtStart
<1>4. ASSUME NEW h \in Handler, NEW m \in Message, Notify(h, m) \/ Respond(h, m)
      PROVE MarkedBeforeCall'
  BY <1>3, <1>4 DEF Notify, Respond
<1>5. ASSUME NEW h \in Handler, Drain(h) PROVE MarkedBeforeCall'
  BY <1>3, <1>5 DEF Drain
<1>6. ASSUME NEW h \in Handler, Crash(h) PROVE MarkedBeforeCall'
  <2>1. OthersKept(h) /\ handler'[h].phase = "idle"
    BY <1>0, <1>6 DEF Crash, IdleHandler, OthersKept
  <2> QED BY <1>1, <2>1, MarkedAtStart
<1>7. ASSUME NEW h \in Handler, Work(h) PROVE MarkedBeforeCall'
  BY <1>1, <1>7, WorkForward, WorkMarked
<1> QED BY <1>2, <1>4, <1>5, <1>6, <1>7 DEF Next

----------------------------------------------------------------------------
(* The calls. *)

\* A row that has not started has had no call, whatever the step.
LEMMA NextUnsent ==
    ASSUME IInv, Next PROVE PendingMeansUnsent'
<1>0. TypeOK /\ PendingMeansUnsent /\ RowsForward
  BY NextForward DEF IInv
<1>1. ASSUME NEW m \in Message, row'[m] \in {"NONE", "PENDING"}
      PROVE  row[m] \in {"NONE", "PENDING"}
  BY <1>0, <1>1 DEF RowsForward, Final, TypeOK, DeliveryStatus
<1>2. CASE UNCHANGED <<calls, accepted>>
  BY <1>0, <1>1, <1>2 DEF PendingMeansUnsent
<1>3. ASSUME NEW h \in Handler, Send(h) \/ Answer(h) PROVE PendingMeansUnsent'
  <2>1. Current(h) \in Message /\ Started(Current(h))
    BY <1>0, <1>3, CurrentIsMessage DEF Send, Answer, At, IInv, MarkedBeforeCall, MarkedAt
  <2>2. row' = row
    BY <1>3 DEF Send, Answer
  <2>3. \A m \in Message : m # Current(h) =>
            calls'[m] = calls[m] /\ accepted'[m] = accepted[m]
    BY <1>0, <1>3 DEF Send, Answer, TypeOK
  <2> QED BY <1>0, <2>1, <2>2, <2>3 DEF PendingMeansUnsent, Started
<1> QED BY <1>2, <1>3 DEF Next, Publish, Notify, Respond, Drain, Crash, Work,
             Insert, Read, Mark, Settle

\* A row's attempt is counted when it leaves PENDING, and then no more.
LEMMA NextCounted ==
    ASSUME IInv, Next PROVE OneAttemptCounted'
<1>0. TypeOK /\ OneAttemptCounted /\ RowsForward
  BY NextForward DEF IInv
<1>1. ASSUME NEW m \in Message, Inserted(m) = row', UNCHANGED attempts
      PROVE  OneAttemptCounted'
  BY <1>0, <1>1, InsertedRows DEF OneAttemptCounted
<1>2. CASE UNCHANGED <<row, attempts>>
  BY <1>0, <1>2 DEF OneAttemptCounted
<1>3. ASSUME NEW h \in Handler, Mark(h) PROVE OneAttemptCounted'
  <2>1. Current(h) \in Message
    BY <1>0, <1>3, CurrentIsMessage DEF Mark, At
  <2>2. CASE row[Current(h)] = "PENDING"
    <3>1. /\ row' = [row EXCEPT ![Current(h)] = "UNKNOWN"]
          /\ attempts' = [attempts EXCEPT ![Current(h)] = @ + 1]
      BY <1>3, <2>2 DEF Mark
    <3>2. attempts[Current(h)] = 0
      BY <1>0, <2>1, <2>2 DEF OneAttemptCounted
    <3> QED BY <1>0, <2>1, <3>1, <3>2 DEF OneAttemptCounted, TypeOK
  <2>3. CASE row[Current(h)] # "PENDING"
    BY <1>2, <1>3, <2>3 DEF Mark
  <2> QED BY <2>2, <2>3
<1>4. ASSUME NEW h \in Handler, Settle(h) PROVE OneAttemptCounted'
  <2>1. Current(h) \in Message
    BY <1>0, <1>4, CurrentIsMessage DEF Settle, At
  <2>2. \A m \in Message : row'[m] = row[m] \/ (row[m] = "UNKNOWN" /\ row'[m] \in Final)
    BY <1>0, <1>4, <2>1, SettleRows
  <2>3. attempts' = attempts
    BY <1>4 DEF Settle
  <2> QED BY <1>0, <2>2, <2>3 DEF OneAttemptCounted, Final
<1>5. ASSUME NEW h \in Handler, Insert(h) PROVE OneAttemptCounted'
  <2>1. Current(h) \in Message
    BY <1>0, <1>5, CurrentIsMessage DEF Insert, At
  <2> QED BY <1>1, <1>5, <2>1 DEF Insert
<1>6. ASSUME NEW m \in Message, NEW h \in Handler, Publish(m) \/ Notify(h, m)
      PROVE  OneAttemptCounted'
  BY <1>1, <1>6 DEF Publish, Notify
<1>7. ASSUME NEW m \in Message, Publish(m) PROVE OneAttemptCounted'
  BY <1>1, <1>7 DEF Publish
<1> QED BY <1>2, <1>3, <1>4, <1>5, <1>6, <1>7 DEF Next, Respond, Drain, Crash, Work,
             Read, Send, Answer

\* The inductive invariant holds throughout.
LEMMA Invariance == Spec => []IInv
<1>1. Init => IInv
  <2> SUFFICES ASSUME Init PROVE IInv
    OBVIOUS
  <2>1. TypeOK
    BY InitType
  <2> QED BY <2>1 DEF Init, IInv, PendingMeansUnsent, OneAttemptCounted,
             MarkedBeforeCall, MarkedAt, IdleHandler
<1>2. IInv /\ [Next]_outboxVars => IInv'
  <2>1. ASSUME IInv, Next PROVE IInv'
    BY <2>1, NextType, NextMarked, NextUnsent, NextCounted DEF IInv
  <2>2. ASSUME IInv, UNCHANGED outboxVars PROVE IInv'
    BY <2>2 DEF IInv, TypeOK, PendingMeansUnsent, OneAttemptCounted, MarkedBeforeCall,
             MarkedAt, Started, Current, At, outboxVars
  <2> QED BY <2>1, <2>2
<1> QED BY <1>1, <1>2, PTL DEF Spec

\* A row that is PENDING proves that no call to Telegram began, however many
\* invocations interleave, crash and resume: a drain may send what it finds.
THEOREM UnsentWhilePending == Spec => []PendingMeansUnsent
<1>1. IInv => PendingMeansUnsent
  BY DEF IInv
<1> QED BY <1>1, Invariance, PTL

\* A row leaves PENDING once: attempt_count is 1 from then on.
THEOREM AttemptsCounted == Spec => []OneAttemptCounted
<1>1. IInv => OneAttemptCounted
  BY DEF IInv
<1> QED BY <1>1, Invariance, PTL

\* No delivery status is ever taken back, and SENT and FAILED are final.
THEOREM StatusForward == Spec => StatusMovesForward
<1>1. TypeOK /\ [Next]_outboxVars =>
      [\A m \in Message :
          /\ row[m] \in Final => row'[m] = row[m]
          /\ row[m] = "UNKNOWN" => row'[m] \in {"UNKNOWN"} \cup Final
          /\ row[m] = "PENDING" => row'[m] # "NONE"]_outboxVars
  BY NextForward DEF RowsForward
<1> QED BY <1>1, TypeCorrect, PTL DEF Spec, StatusMovesForward

----------------------------------------------------------------------------
(* One call per message.  The UPDATE before the call does not say whether   *)
(* it changed the row, so two invocations that both read PENDING would both *)
(* go on to call (run outbox_resend).  As long as no two of them are past   *)
(* that read with the same message, nothing else makes anyone call twice.   *)

InDelivery(h) == handler[h].phase \in {"mark", "send", "wait", "settle"}

Apart ==
    \A g, h \in Handler : g # h /\ InDelivery(g) /\ InDelivery(h) => Current(g) # Current(h)

\* How far the call for a message is while an invocation is at it.
CallAt(h) ==
    /\ At(h, "mark") => row[Current(h)] = "PENDING"
    /\ At(h, "send") => /\ row[Current(h)] = "UNKNOWN"
                        /\ calls[Current(h)] = 0 /\ accepted[Current(h)] = 0
    /\ At(h, "wait") => /\ row[Current(h)] = "UNKNOWN"
                        /\ calls[Current(h)] = 1 /\ accepted[Current(h)] = 0
    /\ At(h, "settle") => /\ row[Current(h)] = "UNKNOWN"
                          /\ handler[h].reply = "ok" => accepted[Current(h)] > 0
                          /\ handler[h].reply = "rejected" => accepted[Current(h)] = 0

CallsFollowed == \A h \in Handler : CallAt(h)

\* An invocation that does not move, on a message that is left alone, is where it was.
LEMMA CallKept ==
    ASSUME TypeOK, NEW g \in Handler, CallAt(g), handler'[g] = handler[g],
           InDelivery(g) => UNCHANGED <<row[Current(g)], calls[Current(g)], accepted[Current(g)]>>
    PROVE  CallAt(g)'
<1>1. CASE InDelivery(g)
  <2>1. Current(g)' = Current(g)
    BY DEF Current
  <2>2. /\ row'[Current(g)] = row[Current(g)]
        /\ calls'[Current(g)] = calls[Current(g)]
        /\ accepted'[Current(g)] = accepted[Current(g)]
    BY <1>1, <2>1
  <2> QED BY <2>1, <2>2 DEF CallAt, At
<1>2. CASE ~InDelivery(g)
  BY <1>2 DEF InDelivery, CallAt, At
<1> QED BY <1>1, <1>2

\* An invocation that is not past its read has no call to follow.
LEMMA CallNotBegun ==
    ASSUME NEW h \in Handler, handler'[h].phase \in {"idle", "insert", "read"}
    PROVE  CallAt(h)'
BY DEF CallAt, At

\* Storing a message disturbs no call.
LEMMA InsertKeepsCalls ==
    ASSUME TypeOK, CallsFollowed, NEW m \in Message, row' = Inserted(m),
           UNCHANGED <<calls, accepted>>, NEW g \in Handler, handler'[g] = handler[g]
    PROVE  CallAt(g)'
<1>1. CallAt(g)
  BY DEF CallsFollowed
<1>2. ASSUME InDelivery(g) PROVE row'[Current(g)] = row[Current(g)]
  <2>1. Current(g) \in Message
    BY <1>2, CurrentIsMessage DEF InDelivery, At
  <2>2. row[Current(g)] # "NONE"
    BY <1>1, <1>2 DEF InDelivery, CallAt, At
  <2> QED BY <2>1, <2>2, InsertedRows
<1>3. InDelivery(g) => UNCHANGED <<row[Current(g)], calls[Current(g)], accepted[Current(g)]>>
  <2>1. Current(g)' = Current(g)
    BY DEF Current
  <2> QED BY <1>2, <2>1
<1> QED BY <1>1, <1>3, CallKept

\* A statement of another invocation, at another message, disturbs no call.
LEMMA WorkKeepsCalls ==
    ASSUME TypeOK, CallsFollowed, Apart, NEW h \in Handler, Work(h), NEW g \in Handler \ {h}
    PROVE  CallAt(g)'
<1>1. CallAt(g) /\ handler'[g] = handler[g]
  BY WorkForward DEF CallsFollowed, OthersKept
<1>2. CASE Insert(h)
  <2>1. Current(h) \in Message
    BY <1>2, CurrentIsMessage DEF Insert, At
  <2> QED BY <1>1, <1>2, <2>1, InsertKeepsCalls DEF Insert
<1>3. CASE Read(h)
  <2>1. UNCHANGED <<row, calls, accepted>> /\ Current(g)' = Current(g)
    BY <1>1, <1>3 DEF Read, Current
  <2> QED BY <1>1, <2>1, CallKept
<1>4. CASE Mark(h) \/ Send(h) \/ Answer(h) \/ Settle(h)
  <2>1. InDelivery(h) /\ Current(h) \in Message
    BY <1>4, CurrentIsMessage DEF Mark, Send, Answer, Settle, At, InDelivery
  <2>2. ASSUME InDelivery(g)
        PROVE  /\ row'[Current(g)] = row[Current(g)]
               /\ calls'[Current(g)] = calls[Current(g)]
               /\ accepted'[Current(g)] = accepted[Current(g)]
    <3>1. Current(g) # Current(h)
      BY <2>1, <2>2 DEF Apart
    <3>2. row \in [Message -> DeliveryStatus \cup {"NONE"}] /\ Current(g) \in Message
      BY <2>2, CurrentIsMessage DEF TypeOK, InDelivery, At
    <3>3. calls \in [Message -> Nat] /\ accepted \in [Message -> Nat]
      BY DEF TypeOK
    <3>4. CASE Mark(h)
      BY <2>1, <3>1, <3>2, <3>4 DEF Mark
    <3>5. CASE Send(h)
      BY <2>1, <3>1, <3>2, <3>3, <3>5 DEF Send
    <3>6. CASE Answer(h)
      BY <2>1, <3>1, <3>2, <3>3, <3>6 DEF Answer
    <3>7. CASE Settle(h)
      BY <2>1, <3>1, <3>2, <3>7 DEF Settle, Settles
    <3> QED BY <1>4, <3>4, <3>5, <3>6, <3>7
  <2>3. Current(g)' = Current(g)
    BY <1>1 DEF Current
  <2> QED BY <1>1, <2>2, <2>3, CallKept
<1> QED BY <1>2, <1>3, <1>4 DEF Work

\* A statement of deliverOnce takes its own call one step further.
LEMMA WorkFollowsCall ==
    ASSUME IInv, NEW h \in Handler, CallAt(h), Work(h) PROVE CallAt(h)'
<1>0. /\ TypeOK /\ PendingMeansUnsent
      /\ handler \in [Handler -> HandlerState]
      /\ calls \in [Message -> Nat] /\ accepted \in [Message -> Nat]
      /\ row \in [Message -> DeliveryStatus \cup {"NONE"}]
  BY TypeParts DEF IInv, HandlersTyped, TypeOK
<1>1. ~At(h, "idle")
  BY DEF Work, Insert, Read, Mark, Send, Answer, Settle, At
<1>2. Current(h) \in Message
  BY <1>0, <1>1, CurrentIsMessage
<1>3. ASSUME NEW phase \in Phase, GoTo(h, phase)
      PROVE  handler'[h].phase = phase /\ Current(h)' = Current(h)
  BY <1>0, <1>3 DEF GoTo, Current, HandlerState
<1>4. CASE Insert(h)
  BY <1>3, <1>4, CallNotBegun DEF Insert, Phase
<1>5. CASE Read(h)
  <2>1. CASE row[Current(h)] = "PENDING"
    BY <1>3, <1>5, <2>1 DEF Read, Phase, CallAt, At
  <2>2. CASE row[Current(h)] # "PENDING"
    BY <1>0, <1>5, <2>2, ReturnPhase, CallNotBegun DEF Read
  <2> QED BY <2>1, <2>2
<1>6. CASE Mark(h)
  <2>1. handler'[h].phase = "send" /\ Current(h)' = Current(h)
    BY <1>3, <1>6 DEF Mark, Phase
  <2>2. row[Current(h)] = "PENDING"
    BY <1>6 DEF Mark, CallAt, At
  <2>3. calls[Current(h)] = 0 /\ accepted[Current(h)] = 0
    BY <1>0, <1>2, <2>2 DEF PendingMeansUnsent
  <2>4. row'[Current(h)] = "UNKNOWN" /\ calls' = calls /\ accepted' = accepted
    BY <1>0, <1>2, <1>6, <2>2 DEF Mark
  <2> QED BY <2>1, <2>3, <2>4 DEF CallAt, At
<1>7. CASE Send(h)
  <2>1. handler'[h].phase = "wait" /\ Current(h)' = Current(h)
    BY <1>3, <1>7 DEF Send, Phase
  <2>2. row' = row /\ accepted' = accepted /\ calls'[Current(h)] = calls[Current(h)] + 1
    BY <1>0, <1>2, <1>7 DEF Send
  <2> QED BY <1>7, <2>1, <2>2 DEF Send, CallAt, At
<1>8. CASE Answer(h)
  <2>1. PICK taken \in BOOLEAN, reply \in Reply :
          /\ reply = "ok" => taken
          /\ reply = "rejected" => ~taken
          /\ accepted' = [accepted EXCEPT ![Current(h)] = IF taken THEN @ + 1 ELSE @]
          /\ handler' = [handler EXCEPT ![h] = [@ EXCEPT !.phase = "settle", !.reply = reply]]
    BY <1>8 DEF Answer
  <2>2. /\ handler'[h].phase = "settle" /\ handler'[h].reply = reply
        /\ Current(h)' = Current(h)
    BY <1>0, <2>1 DEF Current, HandlerState
  <2>3. row' = row /\ row[Current(h)] = "UNKNOWN" /\ accepted[Current(h)] = 0
    BY <1>8 DEF Answer, CallAt, At
  <2>4. CASE taken
    <3>1. accepted'[Current(h)] = 1 /\ reply # "rejected"
      BY <1>0, <1>2, <2>1, <2>3, <2>4
    <3> QED BY <2>2, <2>3, <3>1 DEF CallAt, At
  <2>5. CASE ~taken
    <3>1. accepted'[Current(h)] = 0 /\ reply # "ok"
      BY <1>0, <1>2, <2>1, <2>3, <2>5
    <3> QED BY <2>2, <2>3, <3>1 DEF CallAt, At
  <2> QED BY <2>4, <2>5
<1>9. CASE Settle(h)
  BY <1>0, <1>9, ReturnPhase, CallNotBegun DEF Settle
<1> QED BY <1>4, <1>5, <1>6, <1>7, <1>8, <1>9 DEF Work

\* Every step follows the calls that are under way.
LEMMA NextFollowsCalls ==
    ASSUME IInv, CallsFollowed, Apart, Next PROVE CallsFollowed'
<1>0. TypeOK /\ handler \in [Handler -> HandlerState]
  BY TypeParts DEF IInv, HandlersTyped
<1>1. ASSUME NEW h \in Handler, OthersKept(h), UNCHANGED <<row, calls, accepted>>,
             handler'[h].phase \in {"idle", "insert", "read"}
      PROVE  CallsFollowed'
  <2>1. ASSUME NEW g \in Handler \ {h} PROVE CallAt(g)'
    <3>1. CallAt(g) /\ handler'[g] = handler[g] /\ Current(g)' = Current(g)
      BY <1>1 DEF CallsFollowed, OthersKept, Current
    <3> QED BY <1>0, <1>1, <3>1, CallKept
  <2> QED BY <1>1, <2>1, CallNotBegun DEF CallsFollowed
<1>2. ASSUME NEW m \in Message, Publish(m) PROVE CallsFollowed'
  BY <1>0, <1>2, InsertKeepsCalls DEF Publish, CallsFollowed
<1>3. ASSUME NEW h \in Handler, NEW m \in Message, Notify(h, m) PROVE CallsFollowed'
  <2>1. OthersKept(h) /\ handler'[h].phase = "insert"
    BY <1>0, <1>3 DEF Notify, Begin, OthersKept
  <2>2. \A g \in Handler \ {h} : CallAt(g)'
    BY <1>0, <1>3, <2>1, InsertKeepsCalls DEF Notify, OthersKept
  <2> QED BY <2>1, <2>2, CallNotBegun DEF CallsFollowed
<1>4. ASSUME NEW h \in Handler, NEW list, Begin(h, list), UNCHANGED <<row, calls, accepted>>
      PROVE  CallsFollowed'
  <2>1. OthersKept(h) /\ handler'[h].phase = "insert"
    BY <1>0, <1>4 DEF Begin, OthersKept
  <2> QED BY <1>1, <1>4, <2>1
<1>5. ASSUME NEW h \in Handler, NEW m \in Message, Respond(h, m) PROVE CallsFollowed'
  BY <1>4, <1>5 DEF Respond
<1>6. ASSUME NEW h \in Handler, Drain(h) PROVE CallsFollowed'
  BY <1>4, <1>6 DEF Drain
<1>7. ASSUME NEW h \in Handler, Crash(h) PROVE CallsFollowed'
  <2>1. OthersKept(h) /\ handler'[h].phase = "idle"
    BY <1>0, <1>7 DEF Crash, IdleHandler, OthersKept
  <2> QED BY <1>1, <1>7, <2>1 DEF Crash
<1>8. ASSUME NEW h \in Handler, Work(h) PROVE CallsFollowed'
  <2>1. CallAt(h)'
    BY <1>8, WorkFollowsCall DEF CallsFollowed
  <2> QED BY <1>0, <1>8, <2>1, WorkKeepsCalls DEF CallsFollowed
<1> QED BY <1>2, <1>3, <1>5, <1>6, <1>7, <1>8 DEF Next

\* The one step that calls does so for the first time.
LEMMA NextCallsOnce ==
    ASSUME IInv, CallsFollowed, NeverResent, Next PROVE NeverResent'
<1>0. TypeOK /\ calls \in [Message -> Nat]
  BY DEF IInv, TypeOK
<1>1. CASE calls' = calls
  BY <1>1 DEF NeverResent
<1>2. ASSUME NEW h \in Handler, Send(h) PROVE NeverResent'
  <2>1. Current(h) \in Message
    BY <1>0, <1>2, CurrentIsMessage DEF Send, At
  <2>2. calls[Current(h)] = 0
    BY <1>2 DEF Send, CallsFollowed, CallAt, At
  <2>3. calls' = [calls EXCEPT ![Current(h)] = @ + 1]
    BY <1>2 DEF Send
  <2>4. calls'[Current(h)] = 1 /\ \A m \in Message \ {Current(h)} : calls'[m] = calls[m]
    BY <1>0, <2>1, <2>2, <2>3
  <2> QED BY <2>4 DEF NeverResent
<1> QED BY <1>1, <1>2 DEF Next, Publish, Notify, Respond, Drain, Crash, Work, Insert,
             Read, Mark, Answer, Settle

\* A row that is final is not the one an answer is being waited for, and the row
\* that becomes final takes the answer.
LEMMA NextStatusTrue ==
    ASSUME IInv, CallsFollowed, StatusIsTrue, Next PROVE StatusIsTrue'
<1>0. /\ TypeOK /\ row \in [Message -> DeliveryStatus \cup {"NONE"}]
      /\ accepted \in [Message -> Nat]
  BY DEF IInv, TypeOK
<1>1. CASE UNCHANGED <<row, accepted>>
  BY <1>1 DEF StatusIsTrue
<1>2. ASSUME NEW m \in Message, row' = Inserted(m), accepted' = accepted PROVE StatusIsTrue'
  BY <1>0, <1>2, InsertedRows DEF StatusIsTrue
<1>3. ASSUME NEW h \in Handler, NEW m \in Message, Publish(m) \/ Notify(h, m)
      PROVE  StatusIsTrue'
  BY <1>2, <1>3 DEF Publish, Notify
<1>4. ASSUME NEW m \in Message, Publish(m) PROVE StatusIsTrue'
  BY <1>2, <1>4 DEF Publish
<1>5. ASSUME NEW h \in Handler, Insert(h) PROVE StatusIsTrue'
  <2>1. Current(h) \in Message
    BY <1>0, <1>5, CurrentIsMessage DEF Insert, At
  <2> QED BY <1>2, <1>5, <2>1 DEF Insert
<1>6. ASSUME NEW h \in Handler, Mark(h) PROVE StatusIsTrue'
  <2>1. \A m \in Message : row'[m] = row[m] \/ row'[m] = "UNKNOWN"
    BY <1>0, <1>6 DEF Mark
  <2> QED BY <1>6, <2>1 DEF Mark, StatusIsTrue
<1>7. ASSUME NEW h \in Handler, Answer(h) PROVE StatusIsTrue'
  <2>1. Current(h) \in Message
    BY <1>0, <1>7, CurrentIsMessage DEF Answer, At
  <2>2. row' = row /\ row[Current(h)] = "UNKNOWN"
    BY <1>7 DEF Answer, CallsFollowed, CallAt, At
  <2>3. \A m \in Message \ {Current(h)} : accepted'[m] = accepted[m]
    BY <1>0, <1>7 DEF Answer
  <2> QED BY <2>1, <2>2, <2>3 DEF StatusIsTrue
<1>8. ASSUME NEW h \in Handler, Settle(h) PROVE StatusIsTrue'
  <2>1. Current(h) \in Message
    BY <1>0, <1>8, CurrentIsMessage DEF Settle, At
  <2>2. PICK status \in Results(handler[h].reply) : Settles(Current(h), status)
    BY <1>8 DEF Settle
  <2>3. /\ row[Current(h)] = "UNKNOWN"
        /\ handler[h].reply = "ok" => accepted[Current(h)] > 0
        /\ handler[h].reply = "rejected" => accepted[Current(h)] = 0
    BY <1>8 DEF Settle, CallsFollowed, CallAt, At
  <2>4. /\ row'[Current(h)] = status
        /\ \A m \in Message \ {Current(h)} : row'[m] = row[m]
    BY <1>0, <2>1, <2>2, <2>3 DEF Settles
  <2>5. /\ status = "SENT" => accepted[Current(h)] > 0
        /\ status = "FAILED" => accepted[Current(h)] = 0
    <3>1. handler[h].reply \in Reply
      BY <1>0 DEF TypeOK
    <3>2. CASE handler[h].reply = "ok"
      BY <2>2, <2>3, <3>2 DEF Results
    <3>3. CASE handler[h].reply = "rejected"
      BY <2>2, <2>3, <3>3 DEF Results
    <3>4. CASE handler[h].reply = "none"
      BY <2>2, <3>4 DEF Results
    <3> QED BY <3>1, <3>2, <3>3, <3>4 DEF Reply
  <2>6. accepted' = accepted
    BY <1>8 DEF Settle
  <2> QED BY <2>4, <2>5, <2>6 DEF StatusIsTrue
<1> QED BY <1>1, <1>3, <1>4, <1>5, <1>6, <1>7, <1>8 DEF Next, Respond, Drain, Crash, Work,
             Read, Send

\* What follows from it: one call, and a true status.
CallInv == CallsFollowed /\ NeverResent /\ StatusIsTrue

\* It holds as long as no two invocations race for a message.
LEMMA CallInvariance == Spec /\ []Apart => []CallInv
<1>1. Init => CallInv
  <2> SUFFICES ASSUME Init PROVE CallInv
    OBVIOUS
  <2>1. \A h \in Handler : CallAt(h)
    BY DEF Init, CallAt, At, IdleHandler
  <2> QED BY <2>1 DEF Init, CallInv, CallsFollowed, NeverResent, StatusIsTrue
<1>2. IInv /\ Apart /\ CallInv /\ [Next]_outboxVars => CallInv'
  <2>1. ASSUME IInv, Apart, CallInv, Next PROVE CallInv'
    BY <2>1, NextFollowsCalls, NextCallsOnce, NextStatusTrue DEF CallInv
  <2>2. ASSUME CallInv, UNCHANGED outboxVars PROVE CallInv'
    BY <2>2 DEF CallInv, CallsFollowed, CallAt, Current, At, NeverResent, StatusIsTrue,
             outboxVars
  <2> QED BY <2>1, <2>2
<1> QED BY <1>1, <1>2, Invariance, PTL DEF Spec

\* No crash, repeated request or drain makes anyone call Telegram twice for one
\* message, for any number of messages and invocations: only two invocations past
\* the read of the same PENDING row can do that.
THEOREM OnlyARaceResends == Spec /\ []Apart => []NeverResent
<1>1. CallInv => NeverResent
  BY DEF CallInv
<1> QED BY <1>1, CallInvariance, PTL

\* And only they can leave a row SENT that was not accepted, or FAILED that was.
THEOREM OnlyARaceLies == Spec /\ []Apart => []StatusIsTrue
<1>1. CallInv => StatusIsTrue
  BY DEF CallInv
<1> QED BY <1>1, CallInvariance, PTL

\* One invocation at a time is never in a race: what run outbox_serial shows of
\* three messages holds of any number of them, of crashes and of requests.
THEOREM OneAtATime ==
    (\A g, h \in Handler : g = h) => (Spec => [](NeverResent /\ StatusIsTrue))
<1> SUFFICES ASSUME \A g, h \in Handler : g = h PROVE Spec => [](NeverResent /\ StatusIsTrue)
  OBVIOUS
<1>1. Apart
  BY DEF Apart
<1>2. CallInv => NeverResent /\ StatusIsTrue
  BY DEF CallInv
<1> QED BY <1>1, <1>2, CallInvariance, PTL

----------------------------------------------------------------------------
(* The webhook, on top of message delivery: any number of updates, any     *)
(* lease and any number of crashes.                                        *)

WebhookState == [phase : WebhookPhase, update : Update \cup {0}, result : Audit]

WebhookType ==
    /\ update \in [Update -> UpdateStatus]
    /\ audit \in [Update -> Audit]
    /\ webhook \in [Handler -> WebhookState]
    /\ \A h \in Handler : ~In(h, "idle") => webhook[h].update \in Update

\* An update in work, or one Telegram stopped delivering, has its row; a row in
\* PROCESSING has its invocation, unless that died.
Held ==
    /\ \A h \in Handler : ~In(h, "idle") => update[webhook[h].update] # "NONE"
    /\ \A u \in Update : u \in acked => update[u] # "NONE"
    /\ \A u \in Update \ died : update[u] = "PROCESSING" => Working(u)

\* What an invocation has done by the time it reaches a phase.
Progress(h) ==
    LET u == webhook[h].update
    IN  /\ webhook[h].phase \in {"respond", "deliver", "record", "finish"} => Command[u] # "NONE"
        /\ In(h, "deliver") => ~At(h, "idle") /\ handler[h].queue = <<u>>
        /\ webhook[h].phase \in {"record", "finish"} => Started(u)
        /\ In(h, "record") => webhook[h].result # "NONE"
        /\ In(h, "finish") => audit[u] # "NONE"

WInv ==
    /\ IInv
    /\ WebhookType
    /\ Held
    /\ \A h \in Handler : Progress(h)
    /\ CompletedMeansAnswered

----------------------------------------------------------------------------
(* The delivery underneath: every step of the webhook is a step of Outbox, *)
(* or leaves the outbox alone, or kills an invocation.                     *)

\* An invocation that dies keeps the delivery's invariant, at rest or not.
LEMMA DieKeepsDelivery ==
    ASSUME IInv, NEW h \in Handler, Die(h) PROVE IInv' /\ RowsForward
<1>0. TypeOK /\ PendingMeansUnsent /\ OneAttemptCounted /\ MarkedBeforeCall
  BY DEF IInv
<1>1. HandlersTyped(handler')
  BY <1>0, EmptySeq DEF Die, HandlersTyped, TypeOK, IdleHandler, HandlerState, Phase, Reply, Busy, At
<1>2. crashes' \in 0..MaxCrashes
  BY <1>0, BoundAssumption DEF Die, TypeOK
<1>3. TypeOK'
  BY <1>0, <1>1, <1>2, TypePartsNext DEF TypeOK, Die
<1>4. RowsForward
  BY <1>0 DEF Die, RowsForward, Final
<1>5. MarkedBeforeCall'
  <2> SUFFICES ASSUME NEW g \in Handler PROVE MarkedAt(g)'
    BY DEF MarkedBeforeCall
  <2>1. CASE g = h
    BY <1>0, <2>1, MarkedAtStart DEF Die, TypeOK, IdleHandler
  <2>2. CASE g # h
    <3>1. handler'[g] = handler[g]
      BY <1>0, <2>2 DEF Die, TypeOK
    <3> QED BY <1>0, <1>4, <3>1, MarkedKept DEF MarkedBeforeCall
  <2> QED BY <2>1, <2>2
<1> QED BY <1>0, <1>3, <1>4, <1>5 DEF IInv, Die, PendingMeansUnsent, OneAttemptCounted

\* A step of Outbox keeps its invariant and takes no status back; so does a
\* step that leaves the outbox alone.
LEMMA DeliveryKept ==
    ASSUME IInv, [Next]_outboxVars PROVE IInv' /\ RowsForward
<1>1. CASE Next
  BY <1>1, NextType, NextMarked, NextUnsent, NextCounted, NextForward DEF IInv
<1>2. CASE UNCHANGED outboxVars
  BY <1>2 DEF IInv, TypeOK, PendingMeansUnsent, OneAttemptCounted, MarkedBeforeCall,
       MarkedAt, Started, Current, At, outboxVars, RowsForward, Final
<1> QED BY <1>1, <1>2

\* What the webhook answers is a message of the outbox.
LEMMA ResponseIsMessage ==
    ASSUME WInv, NEW h \in Handler, In(h, "respond") PROVE webhook[h].update \in Message
<1>1. webhook[h].update \in Update /\ Command[webhook[h].update] # "NONE"
  BY DEF WInv, WebhookType, Progress, In
<1> QED BY <1>1, UpdateAssumption

LEMMA OutboxStep ==
    ASSUME WInv, WebhookNext PROVE IInv' /\ RowsForward
<1>0. IInv
  BY DEF WInv
<1>1. ASSUME NEW h \in Handler, NEW u \in Update, Deliver(h, u) PROVE [Next]_outboxVars
  BY <1>1 DEF Deliver
<1>2. ASSUME NEW h \in Handler, StartResponse(h) PROVE [Next]_outboxVars
  BY <1>2, ResponseIsMessage DEF StartResponse, Next
<1>3. ASSUME NEW h \in Handler, DeliveryStep(h) PROVE [Next]_outboxVars
  BY <1>3 DEF DeliveryStep, Next
<1>4. ASSUME NEW h \in Handler, Elsewhere(h) PROVE [Next]_outboxVars
  BY <1>4 DEF Elsewhere, Next
<1>5. ASSUME NEW h \in Handler,
             Ignore(h) \/ ExecuteCommand(h) \/ RecordCommand(h) \/ FinishUpdate(h)
      PROVE  [Next]_outboxVars
  BY <1>5 DEF Ignore, ExecuteCommand, RecordCommand, FinishUpdate
<1>6. CASE Minute
  BY <1>0, <1>6, DeliveryKept DEF Minute
<1> QED BY <1>0, <1>1, <1>2, <1>3, <1>4, <1>5, <1>6, DeliveryKept, DieKeepsDelivery
        DEF WebhookNext, WebhookWork

\* deliverOnce on one message goes on with it, or returns with its row past
\* PENDING.
LEMMA DeliveryReturns ==
    ASSUME IInv, NEW h \in Handler, Work(h), NEW m \in Message, handler[h].queue = <<m>>
    PROVE  /\ handler'[h] = IdleHandler => Started(m)'
           /\ handler'[h] # IdleHandler => handler'[h].queue = <<m>> /\ handler'[h].phase # "idle"
<1>0. TypeOK /\ handler \in [Handler -> HandlerState] /\ MarkedAt(h) /\ RowsForward
  BY TypeParts, WorkForward DEF IInv, HandlersTyped, MarkedBeforeCall
<1>1. Len(handler[h].queue) = 1 /\ Current(h) = m
  BY DEF Current
<1>2. row[m] \in DeliveryStatus \cup {"NONE"}
  BY <1>0 DEF TypeOK
<1>3. ASSUME Return(h), Started(m) PROVE handler'[h] = IdleHandler /\ Started(m)'
  BY <1>0, <1>1, <1>2, <1>3 DEF Return, Started, RowsForward, Final, DeliveryStatus
<1>4. ASSUME NEW phase \in Phase \ {"idle"}, GoTo(h, phase)
      PROVE  /\ handler'[h].queue = <<m>> /\ handler'[h].phase # "idle"
             /\ handler'[h] # IdleHandler
  BY <1>0, <1>4 DEF GoTo, HandlerState, IdleHandler
<1>5. CASE Insert(h)
  BY <1>4, <1>5 DEF Insert, Phase
<1>6. CASE Read(h)
  <2>1. CASE row[m] = "PENDING"
    BY <1>1, <1>4, <1>6, <2>1 DEF Read, Phase
  <2>2. CASE row[m] # "PENDING"
    <3>1. Started(m) /\ Return(h)
      BY <1>0, <1>1, <1>6, <2>2 DEF Read, MarkedAt, At, Started
    <3> QED BY <1>3, <3>1
  <2> QED BY <2>1, <2>2
<1>7. CASE Mark(h)
  BY <1>4, <1>7 DEF Mark, Phase
<1>8. CASE Send(h)
  BY <1>4, <1>8 DEF Send, Phase
<1>9. CASE Answer(h)
  <2>1. PICK reply \in Reply :
          handler' = [handler EXCEPT ![h] = [@ EXCEPT !.phase = "settle", !.reply = reply]]
    BY <1>9 DEF Answer
  <2>2. handler'[h].queue = handler[h].queue /\ handler'[h].phase = "settle"
    BY <1>0, <2>1 DEF HandlerState
  <2> QED BY <2>2 DEF IdleHandler
<1>10. CASE Settle(h)
  BY <1>0, <1>1, <1>3, <1>10 DEF Settle, MarkedAt, At
<1> QED BY <1>5, <1>6, <1>7, <1>8, <1>9, <1>10 DEF Work

----------------------------------------------------------------------------
(* What a step of the webhook does to an update and its invocations. *)

\* Every column of the webhook's tables, and every invocation, keeps its type.
LEMMA NextWebhookType ==
    ASSUME WebhookType, WebhookNext PROVE WebhookType'
<1> USE DEF WebhookType, WebhookState, WebhookPhase, UpdateStatus, Audit, In, Idle
<1>1. ASSUME NEW h \in Handler, NEW u \in Update, Deliver(h, u) PROVE WebhookType'
  BY <1>1 DEF Deliver
<1>2. ASSUME NEW h \in Handler, Ignore(h) PROVE WebhookType'
  BY <1>2 DEF Ignore, Finished
<1>3. ASSUME NEW h \in Handler, ExecuteCommand(h) PROVE WebhookType'
  BY <1>3 DEF ExecuteCommand
<1>4. ASSUME NEW h \in Handler, StartResponse(h) PROVE WebhookType'
  BY <1>4 DEF StartResponse
<1>5. ASSUME NEW h \in Handler, DeliveryStep(h) PROVE WebhookType'
  <2>1. CASE UNCHANGED webhook
    BY <1>5, <2>1 DEF DeliveryStep
  <2>2. CASE ~UNCHANGED webhook
    <3>1. PICK status : webhook' = [webhook EXCEPT ![h].phase = "record",
                                                   ![h].result = AuditResult(status)]
      BY <1>5, <2>2 DEF DeliveryStep
    <3>2. AuditResult(status) \in Audit
      BY DEF AuditResult
    <3>3. webhook'[h] = [webhook[h] EXCEPT !.phase = "record", !.result = AuditResult(status)]
      BY <3>1
    <3>4. \A g \in Handler : webhook'[g] \in WebhookState /\ webhook'[g].update = webhook[g].update
      BY <3>1, <3>2
    <3>5. In(h, "deliver")
      BY <1>5, <2>2 DEF DeliveryStep
    <3> QED BY <1>5, <3>1, <3>2, <3>4, <3>5, ZenonT(40) DEF DeliveryStep
  <2> QED BY <2>1, <2>2
<1>6. ASSUME NEW h \in Handler, RecordCommand(h) PROVE WebhookType'
  BY <1>6 DEF RecordCommand
<1>7. ASSUME NEW h \in Handler, FinishUpdate(h) PROVE WebhookType'
  BY <1>7 DEF FinishUpdate, Finished
<1>8. ASSUME NEW h \in Handler, Die(h) PROVE WebhookType'
  BY <1>8 DEF Die
<1>9. ASSUME NEW h \in Handler, Elsewhere(h) PROVE WebhookType'
  BY <1>9 DEF Elsewhere, updateVars
<1>10. CASE Minute
  BY <1>10 DEF Minute
<1> QED BY <1>1, <1>2, <1>3, <1>4, <1>5, <1>6, <1>7, <1>8, <1>9, <1>10 DEF WebhookNext, WebhookWork

\* The invocations that work on an update go on with it, or rest; nothing is
\* claimed, finished or let go, and a 204 answers only what has a row.
Advance ==
    /\ UNCHANGED <<update, died>>
    /\ \A h \in Handler : /\ webhook'[h].phase = "idle" <=> In(h, "idle")
                          /\ webhook'[h].update = webhook[h].update
    /\ \A u \in Update : u \in acked' => u \in acked \/ update[u] # "NONE"

Alone(h) == \A g \in Handler \ {h} : webhook'[g] = webhook[g]

TakesUp(h, u) ==
    /\ In(h, "idle") /\ Claimable(u)
    /\ update' = [update EXCEPT ![u] = "PROCESSING"]
    /\ webhook'[h] = [phase |-> "claimed", update |-> u, result |-> "NONE"] /\ Alone(h)
    /\ UNCHANGED <<acked, died>>

\* The invocation that finished an update answers it.
LetGo(h) ==
    LET u == webhook[h].update
    IN  /\ ~In(h, "idle") /\ u \in Update
        /\ \E status \in {"COMPLETED", "IGNORED"} : Finished(u, status)
        /\ webhook'[h] = Idle /\ Alone(h)
        /\ acked' \in {acked, acked \cup {u}} /\ UNCHANGED died

Death(h) ==
    /\ ~In(h, "idle")
    /\ UNCHANGED <<update, acked>>
    /\ webhook'[h] = Idle /\ Alone(h)
    /\ died' = died \cup {webhook[h].update}

\* Every step is one of the four.
LEMMA StepKinds ==
    ASSUME WebhookType, WebhookNext
    PROVE  \/ Advance
           \/ \E h \in Handler : (\E u \in Update : TakesUp(h, u)) \/ LetGo(h) \/ Death(h)
<1> USE DEF In, Acknowledge
<1>0. webhook \in [Handler -> WebhookState]
  BY DEF WebhookType
<1>1. ASSUME NEW h \in Handler, NEW u \in Update, Deliver(h, u) PROVE Advance \/ TakesUp(h, u)
  <2>1. CASE Claimable(u)
    BY <1>0, <1>1, <2>1 DEF Deliver, TakesUp, Alone, Free
  <2>2. CASE ~Claimable(u)
    BY <1>1, <2>2 DEF Deliver, Advance, Claimable
  <2> QED BY <2>1, <2>2
<1>2. ASSUME NEW h \in Handler, Ignore(h) \/ FinishUpdate(h) PROVE LetGo(h)
  <2>1. webhook' = [webhook EXCEPT ![h] = Idle] /\ ~In(h, "idle") /\ UNCHANGED died
    BY <1>2 DEF Ignore, FinishUpdate
  <2>2. webhook[h].update \in Update
    BY <2>1 DEF WebhookType
  <2>3. webhook'[h] = Idle /\ Alone(h)
    BY <1>0, <2>1 DEF Alone
  <2>4. \E status \in {"COMPLETED", "IGNORED"} : Finished(webhook[h].update, status)
    BY <1>2 DEF Ignore, FinishUpdate
  <2>5. acked' \in {acked, acked \cup {webhook[h].update}}
    BY <1>2 DEF Ignore, FinishUpdate
  <2> QED BY <2>1, <2>2, <2>3, <2>4, <2>5 DEF LetGo
<1>3. ASSUME NEW h \in Handler, ExecuteCommand(h) \/ StartResponse(h) \/ RecordCommand(h)
      PROVE  Advance
  <2>1. PICK phase \in {"respond", "deliver", "finish"} : webhook' = [webhook EXCEPT ![h].phase = phase]
    BY <1>3 DEF ExecuteCommand, StartResponse, RecordCommand
  <2>2. ~In(h, "idle") /\ UNCHANGED <<update, died, acked>>
    BY <1>3 DEF ExecuteCommand, StartResponse, RecordCommand
  <2> QED BY <1>0, <2>1, <2>2 DEF Advance, WebhookState
<1>4. ASSUME NEW h \in Handler, DeliveryStep(h) PROVE Advance
  <2>1. CASE UNCHANGED webhook
    BY <1>4, <2>1 DEF DeliveryStep, Advance
  <2>2. CASE ~UNCHANGED webhook
    <3>1. PICK status : webhook' = [webhook EXCEPT ![h].phase = "record",
                                                   ![h].result = AuditResult(status)]
      BY <1>4, <2>2 DEF DeliveryStep
    <3>2. In(h, "deliver") /\ UNCHANGED <<update, died, acked>>
      BY <1>4, <2>2 DEF DeliveryStep
    <3> QED BY <1>0, <3>1, <3>2 DEF Advance, WebhookState
  <2> QED BY <2>1, <2>2
<1>5. ASSUME NEW h \in Handler, Die(h) PROVE Death(h)
  BY <1>0, <1>5 DEF Die, Death, Alone
<1>6. ASSUME NEW h \in Handler, Elsewhere(h) PROVE Advance
  BY <1>6 DEF Elsewhere, updateVars, Advance
<1>7. CASE Minute
  BY <1>7 DEF Minute, Advance
<1> QED BY <1>1, <1>2, <1>3, <1>4, <1>5, <1>6, <1>7 DEF WebhookNext, WebhookWork

\* No row is forgotten, and none stays in PROCESSING without its invocation.
LEMMA NextHeld ==
    ASSUME WebhookType, Held, WebhookNext PROVE Held'
<1> USE DEF In
<1>1. CASE Advance
  <2>1. \A u \in Update : Working(u) => Working(u)'
    BY <1>1 DEF Advance, Working
  <2> QED BY <1>1, <2>1 DEF Advance, Held, WebhookType
<1>2. ASSUME NEW h \in Handler, NEW u \in Update, TakesUp(h, u) PROVE Held'
  <2>1. \A v \in Update : Working(v) => Working(v)'
    BY <1>2 DEF TakesUp, Alone, Working
  <2>2. Working(u)'
    BY <1>2 DEF TakesUp, Working
  <2>3. \A v \in Update : update[v] # "NONE" => update'[v] # "NONE"
    BY <1>2 DEF TakesUp, WebhookType
  <2>4. \A g \in Handler : webhook'[g].phase # "idle" => update'[webhook'[g].update] # "NONE"
    BY <1>2, <2>3 DEF TakesUp, Alone, Held, WebhookType
  <2> QED BY <1>2, <2>1, <2>2, <2>3, <2>4 DEF TakesUp, Held, WebhookType
<1>3. ASSUME NEW h \in Handler, LetGo(h) PROVE Held'
  <2> DEFINE u == webhook[h].update
  <2>1. \A v \in Update \ {u} : Working(v) => Working(v)'
    BY <1>3 DEF LetGo, Alone, Working
  <2>2. \A v \in Update : update'[v] = update[v] \/ (v = u /\ update'[v] \in {"COMPLETED", "IGNORED"})
    BY <1>3 DEF LetGo, Finished, WebhookType
  <2>3. update'[u] # "PROCESSING" /\ update'[u] # "NONE"
    BY <1>3 DEF LetGo, Finished, WebhookType, Held
  <2>4. \A g \in Handler : webhook'[g].phase # "idle" => update'[webhook'[g].update] # "NONE"
    BY <1>3, <2>2 DEF LetGo, Alone, Held, WebhookType, Idle
  <2> QED BY <1>3, <2>1, <2>2, <2>3, <2>4 DEF LetGo, Held
<1>4. ASSUME NEW h \in Handler, Death(h) PROVE Held'
  <2>1. \A v \in Update \ died' : Working(v) => Working(v)'
    BY <1>4 DEF Death, Alone, Working
  <2>2. \A g \in Handler : webhook'[g].phase # "idle" => update'[webhook'[g].update] # "NONE"
    BY <1>4 DEF Death, Alone, Held, WebhookType, Idle
  <2> QED BY <1>4, <2>1, <2>2 DEF Death, Held
<1> QED BY <1>1, <1>2, <1>3, <1>4, StepKinds

----------------------------------------------------------------------------
(* How far an invocation has got. *)

AuditForward == \A u \in Update : audit[u] # "NONE" => audit'[u] # "NONE"

\* Nobody clears an audited result.
LEMMA NextAudited ==
    ASSUME WInv, WebhookNext PROVE AuditForward
<1>1. ASSUME NEW h \in Handler, RecordCommand(h) PROVE AuditForward
  <2>1. webhook[h].result # "NONE" /\ audit \in [Update -> Audit]
    BY <1>1 DEF RecordCommand, WInv, WebhookType, Progress
  <2> QED BY <1>1, <2>1 DEF RecordCommand, AuditForward
<1>2. ASSUME NEW h \in Handler, NEW u \in Update, Deliver(h, u) PROVE AuditForward
  BY <1>2 DEF Deliver, AuditForward
<1> QED BY <1>1, <1>2 DEF AuditForward, WebhookNext, WebhookWork, Ignore, ExecuteCommand,
             StartResponse, DeliveryStep, FinishUpdate, Die, Elsewhere, Minute, updateVars

\* Rows and results that only move forward keep what an invocation has done.
LEMMA ProgressKept ==
    ASSUME WInv, RowsForward, AuditForward, NEW g \in Handler,
           webhook'[g] = webhook[g], In(g, "idle") \/ handler'[g] = handler[g]
    PROVE  Progress(g)'
<1>1. CASE In(g, "idle")
  BY <1>1 DEF Progress, In
<1>2. CASE ~In(g, "idle")
  <2> DEFINE u == webhook[g].update
  <2>1. u \in Update /\ Progress(g)
    BY <1>2 DEF WInv, WebhookType
  <2>2. Started(u) /\ Command[u] # "NONE" => Started(u)'
    BY <2>1, UpdateAssumption, ZenonT(40) DEF Started, RowsForward, Final, WInv, IInv, TypeOK, DeliveryStatus
  <2> QED BY <1>2, <2>1, <2>2 DEF Progress, AuditForward, At, In
<1> QED BY <1>1, <1>2

\* The part of an invocation's progress that its own step decides.
LEMMA OwnProgress ==
    ASSUME WInv, RowsForward, AuditForward, NEW h \in Handler, Alone(h), OthersKept(h),
           Progress(h)'
    PROVE  \A g \in Handler : Progress(g)'
BY ProgressKept DEF Alone, OthersKept

\* Claimed or at rest, nothing is promised yet.
LEMMA ProgressAtStart ==
    ASSUME NEW h \in Handler, webhook'[h].phase \in {"idle", "claimed"}
    PROVE  Progress(h)'
BY DEF Progress, In

LEMMA NextProgress ==
    ASSUME WInv, WebhookNext PROVE \A g \in Handler : Progress(g)'
<1> USE DEF In
<1>0. /\ RowsForward /\ AuditForward
      /\ webhook \in [Handler -> WebhookState] /\ handler \in [Handler -> HandlerState]
      /\ TypeOK /\ WebhookType
  BY OutboxStep, NextAudited, TypeParts DEF WInv, WebhookType, IInv, HandlersTyped
<1>1. ASSUME NEW h \in Handler, NEW u \in Update, Deliver(h, u) PROVE \A g \in Handler : Progress(g)'
  <2>1. OthersKept(h) /\ Alone(h)
    BY <1>0, <1>1 DEF Deliver, outboxVars, OthersKept, Alone
  <2>2. webhook'[h].phase \in {"idle", "claimed"}
    BY <1>0, <1>1 DEF Deliver, Free
  <2> QED BY <1>0, <2>1, <2>2, OwnProgress, ProgressAtStart
<1>2. ASSUME NEW h \in Handler, Ignore(h) \/ FinishUpdate(h) \/ Die(h)
      PROVE  \A g \in Handler : Progress(g)'
  <2>1. OthersKept(h) /\ Alone(h)
    BY <1>0, <1>2 DEF Ignore, FinishUpdate, Die, outboxVars, OthersKept, Alone
  <2>2. webhook'[h] = Idle
    BY <1>0, <1>2 DEF Ignore, FinishUpdate, Die
  <2> QED BY <1>0, <2>1, <2>2, OwnProgress, ProgressAtStart DEF Idle
<1>3. ASSUME NEW h \in Handler, ExecuteCommand(h) PROVE \A g \in Handler : Progress(g)'
  <2>1. OthersKept(h) /\ Alone(h)
    BY <1>0, <1>3 DEF ExecuteCommand, outboxVars, OthersKept, Alone
  <2>2. webhook'[h].phase = "respond" /\ webhook'[h].update = webhook[h].update
    BY <1>0, <1>3 DEF ExecuteCommand, WebhookState
  <2>3. Progress(h)'
    BY <1>3, <2>2 DEF ExecuteCommand, Progress
  <2> QED BY <1>0, <2>1, <2>3, OwnProgress
<1>4. ASSUME NEW h \in Handler, StartResponse(h) PROVE \A g \in Handler : Progress(g)'
  <2> DEFINE u == webhook[h].update
  <2>1. Begin(h, <<u>>)
    BY <1>4 DEF StartResponse, Respond
  <2>2. OthersKept(h) /\ Alone(h)
    BY <1>0, <1>4, <2>1 DEF StartResponse, Begin, OthersKept, Alone
  <2>3. handler'[h].queue = <<u>> /\ handler'[h].phase = "insert"
    BY <1>0, <2>1 DEF Begin
  <2>4. webhook'[h].phase = "deliver" /\ webhook'[h].update = u /\ Command[u] # "NONE"
    BY <1>0, <1>4 DEF StartResponse, WebhookState, WInv, Progress
  <2>5. Progress(h)'
    BY <2>3, <2>4 DEF Progress, At
  <2> QED BY <1>0, <2>2, <2>5, OwnProgress
<1>5. ASSUME NEW h \in Handler, DeliveryStep(h) PROVE \A g \in Handler : Progress(g)'
  <2> DEFINE u == webhook[h].update
  <2>1. Work(h) /\ OthersKept(h)
    BY <1>0, <1>5, WorkForward DEF DeliveryStep
  <2>2. Alone(h)
    BY <1>0, <1>5 DEF DeliveryStep, Alone
  <2>3. CASE In(h, "deliver") /\ handler'[h] = IdleHandler
    <3>1. PICK status : webhook' = [webhook EXCEPT ![h].phase = "record",
                                                   ![h].result = AuditResult(status)]
      BY <1>5, <2>3 DEF DeliveryStep
    <3>2. AuditResult(status) # "NONE"
      BY DEF AuditResult
    <3>3. webhook'[h].phase = "record" /\ webhook'[h].update = u
          /\ webhook'[h].result = AuditResult(status)
      BY <1>0, <3>1 DEF WebhookState
    <3>4. u \in Message /\ handler[h].queue = <<u>> /\ Command[u] # "NONE"
      BY <1>0, <2>3, UpdateAssumption DEF WInv, WebhookType, Progress
    <3>5. PICK m \in Message : m = u
      BY <3>4
    <3>6. Started(m)'
      BY <2>1, <2>3, <3>4, <3>5, DeliveryReturns DEF WInv
    <3>7. Progress(h)'
      BY <3>2, <3>3, <3>4, <3>5, <3>6 DEF Progress, Started
    <3> QED BY <1>0, <2>1, <2>2, <3>7, OwnProgress
  <2>4. CASE In(h, "deliver") /\ handler'[h] # IdleHandler
    <3>1. webhook' = webhook
      BY <1>5, <2>4 DEF DeliveryStep
    <3>2. u \in Message /\ handler[h].queue = <<u>> /\ Command[u] # "NONE"
      BY <1>0, <2>4, UpdateAssumption DEF WInv, WebhookType, Progress
    <3>3. handler'[h].queue = <<u>> /\ handler'[h].phase # "idle"
      BY <2>1, <2>4, <3>2, DeliveryReturns DEF WInv
    <3>4. Progress(h)'
      BY <2>4, <3>1, <3>2, <3>3 DEF Progress, At
    <3> QED BY <1>0, <2>1, <2>2, <3>4, OwnProgress
  <2>5. CASE ~In(h, "deliver")
    <3>1. webhook' = webhook
      BY <1>5, <2>5 DEF DeliveryStep
    <3>2. Progress(h) /\ (~In(h, "idle") => u \in Update)
      BY <1>0 DEF WInv, WebhookType
    <3>3. ~In(h, "idle") /\ Started(u) /\ Command[u] # "NONE" => Started(u)'
      BY <1>0, <3>1, <3>2, UpdateAssumption DEF Started, RowsForward, Final, TypeOK, DeliveryStatus
    <3>4. Progress(h)'
      <4>1. CASE In(h, "idle")
        BY <3>1, <4>1, ProgressAtStart
      <4>2. CASE ~In(h, "idle")
        <5>1. /\ webhook[h].phase \in {"respond", "record", "finish"} => Command[u] # "NONE"
              /\ webhook[h].phase \in {"record", "finish"} => Started(u)'
              /\ In(h, "record") => webhook[h].result # "NONE"
              /\ In(h, "finish") => audit'[u] # "NONE"
          BY <1>0, <3>2, <3>3, <4>2 DEF Progress, AuditForward
        <5> QED BY <2>5, <3>1, <5>1 DEF Progress, Started
      <4> QED BY <4>1, <4>2
    <3> QED BY <1>0, <2>1, <2>2, <3>4, OwnProgress
  <2> QED BY <2>3, <2>4, <2>5
<1>6. ASSUME NEW h \in Handler, RecordCommand(h) PROVE \A g \in Handler : Progress(g)'
  <2> DEFINE u == webhook[h].update
  <2>1. OthersKept(h) /\ Alone(h)
    BY <1>0, <1>6 DEF RecordCommand, outboxVars, OthersKept, Alone
  <2>2. webhook'[h].phase = "finish" /\ webhook'[h].update = u
    BY <1>0, <1>6 DEF RecordCommand, WebhookState
  <2>3. Progress(h) /\ u \in Update /\ In(h, "record")
    BY <1>0, <1>6 DEF RecordCommand, WInv, WebhookType
  <2>4. audit'[u] # "NONE" /\ row' = row
    BY <1>0, <1>6, <2>3 DEF RecordCommand, outboxVars, WebhookType, Progress
  <2>5. Progress(h)'
    BY <2>2, <2>3, <2>4 DEF Progress, Started
  <2> QED BY <1>0, <2>1, <2>5, OwnProgress
<1>7. ASSUME NEW h \in Handler, Elsewhere(h) PROVE \A g \in Handler : Progress(g)'
  <2>1. OthersKept(h) /\ webhook' = webhook /\ In(h, "idle")
    BY <1>0, <1>7 DEF Elsewhere, updateVars, OthersKept, Publish, Notify, Drain, Crash, Begin
  <2> QED BY <1>0, <2>1, ProgressKept DEF OthersKept
<1>8. CASE Minute
  BY <1>0, <1>8, ProgressKept DEF Minute, outboxVars
<1> QED BY <1>1, <1>2, <1>3, <1>4, <1>5, <1>6, <1>7, <1>8 DEF WebhookNext, WebhookWork

\* Only an invocation that audited and delivered its answer completes an update.
LEMMA NextCompleted ==
    ASSUME WInv, WebhookNext PROVE CompletedMeansAnswered'
<1>0. RowsForward /\ AuditForward /\ WebhookType /\ TypeOK /\ CompletedMeansAnswered
  BY OutboxStep, NextAudited DEF WInv, IInv
<1>1. \A u \in Answers : Started(u) => Started(u)'
  BY <1>0, UpdateAssumption DEF Answers, Started, RowsForward, Final, TypeOK, DeliveryStatus
<1>2. ASSUME NEW u \in Answers, update'[u] = "COMPLETED", update[u] # "COMPLETED"
      PROVE  audit[u] # "NONE" /\ Started(u)
  <2>1. PICK h \in Handler : FinishUpdate(h)
    <3>1. ASSUME NEW h \in Handler, NEW v \in Update, Deliver(h, v) PROVE FALSE
      BY <1>0, <1>2, <3>1 DEF Deliver, Answers, WebhookType
    <3>2. ASSUME NEW h \in Handler, Ignore(h) PROVE FALSE
      BY <1>0, <1>2, <3>2 DEF Ignore, Finished, Answers, WebhookType, In
    <3> QED BY <1>2, <3>1, <3>2 DEF WebhookNext, WebhookWork, ExecuteCommand, StartResponse,
               DeliveryStep, RecordCommand, Die, Elsewhere, Minute, updateVars
  <2>2. webhook[h].update = u
    BY <1>0, <1>2, <2>1 DEF FinishUpdate, Finished, Answers, WebhookType, In
  <2> QED BY <2>1, <2>2 DEF FinishUpdate, WInv, Progress, In
<1> QED BY <1>0, <1>1, <1>2 DEF CompletedMeansAnswered, AuditForward, Started, Answers

\* The invariant holds throughout.
LEMMA WebhookInvariance == WebhookSpec => []WInv
<1>1. WebhookInit => WInv
  <2> SUFFICES ASSUME WebhookInit PROVE WInv
    OBVIOUS
  <2>1. TypeOK
    BY InitType DEF WebhookInit
  <2>2. IInv
    BY <2>1 DEF WebhookInit, Init, IInv, PendingMeansUnsent, OneAttemptCounted,
         MarkedBeforeCall, MarkedAt, IdleHandler
  <2>3. WebhookType /\ Held /\ CompletedMeansAnswered
    BY DEF WebhookInit, WebhookType, WebhookState, WebhookPhase, UpdateStatus, Audit, Idle, In,
         Held, CompletedMeansAnswered, Answers
  <2>4. \A h \in Handler : Progress(h)
    BY DEF WebhookInit, Idle, Progress, In
  <2> QED BY <2>2, <2>3, <2>4 DEF WInv
<1>2. WInv /\ [WebhookNext]_webhookVars => WInv'
  <2>1. ASSUME WInv, WebhookNext PROVE WInv'
    <3>1. IInv'
      BY <2>1, OutboxStep
    <3>2. WebhookType' /\ Held'
      BY <2>1, NextWebhookType, NextHeld DEF WInv
    <3>3. \A h \in Handler : Progress(h)'
      BY <2>1, NextProgress
    <3>4. CompletedMeansAnswered'
      BY <2>1, NextCompleted
    <3> QED BY <3>1, <3>2, <3>3, <3>4 DEF WInv
  <2>2. ASSUME WInv, UNCHANGED webhookVars PROVE WInv'
    <3>1. IInv'
      BY <2>2, DeliveryKept DEF WInv, webhookVars
    <3>2. UNCHANGED updateVars /\ UNCHANGED row /\ UNCHANGED handler
      BY <2>2 DEF webhookVars, outboxVars
    <3> QED BY <2>2, <3>1, <3>2 DEF WInv, updateVars, WebhookType, Held, Working, In, At,
              Progress, Started, CompletedMeansAnswered
  <2> QED BY <2>1, <2>2
<1> QED BY <1>1, <1>2, PTL DEF WebhookSpec

\* An update is COMPLETED only when its command was audited and its answer was
\* handed to Telegram or given up for good (app.ts, finishUpdate after
\* deliverOnce and recordCommandOnce), whatever took it over or died meanwhile.
THEOREM Completed == WebhookSpec => []CompletedMeansAnswered
<1>1. WInv => CompletedMeansAnswered
  BY DEF WInv
<1> QED BY <1>1, WebhookInvariance, PTL

\* An update Telegram stopped delivering is finished or in work, unless the
\* invocation that held it died.
THEOREM LostOnlyWithAnInvocation == WebhookSpec => []LostOnlyByDeath
<1>1. WInv => LostOnlyByDeath
  BY DEF WInv, Held, WebhookType, UpdateStatus, LostOnlyByDeath
<1> QED BY <1>1, WebhookInvariance, PTL

\* A finished update stays finished, and no new delivery of it is worked on.
THEOREM FinishedForGood == WebhookSpec => FinishedStaysFinished
<1> DEFINE Stays == \A u \in Update : update[u] \in {"COMPLETED", "IGNORED"} =>
                       /\ update'[u] = update[u]
                       /\ Working(u)' => Working(u)
<1>1. WInv /\ [WebhookNext]_webhookVars => [Stays]_webhookVars
  <2> SUFFICES ASSUME WInv, WebhookNext PROVE Stays
    BY DEF webhookVars
  <2> USE DEF In
  <2>0. WebhookType
    BY DEF WInv
  <2>1. CASE Advance
    BY <2>1 DEF Advance, Working
  <2>2. ASSUME NEW h \in Handler, NEW u \in Update, TakesUp(h, u) PROVE Stays
    BY <2>0, <2>2 DEF TakesUp, Claimable, Alone, Working, WebhookType
  <2>3. ASSUME NEW h \in Handler, LetGo(h) PROVE Stays
    BY <2>0, <2>3 DEF LetGo, Finished, Alone, Working, Idle, WebhookType
  <2>4. ASSUME NEW h \in Handler, Death(h) PROVE Stays
    BY <2>0, <2>4 DEF Death, Alone, Working, Idle
  <2> QED BY <2>0, <2>1, <2>2, <2>3, <2>4, StepKinds
<1> QED BY <1>1, WebhookInvariance, PTL DEF WebhookSpec, FinishedStaysFinished

\* Under the webhook, too, a row that is PENDING proves that no call to Telegram
\* began: a command's answer may be sent by whoever finds it so.
THEOREM AnswersUnsentWhilePending == WebhookSpec => []PendingMeansUnsent
<1>1. WInv => PendingMeansUnsent
  BY DEF WInv, IInv
<1> QED BY <1>1, WebhookInvariance, PTL

----------------------------------------------------------------------------
(* The dispatch row decides: whoever inserted it is the only one ever to   *)
(* call GitHub for its instant, and what the row says of that call is true.*)

InvocationState == [phase : DispatchPhase, instant : Instant \cup {"none"}, error : ErrorCode]

DTypeOK ==
    /\ dispatchRow \in [Instant -> DispatchStatus]
    /\ dispatchError \in [Instant -> ErrorCode]
    /\ invocation \in [Invocation -> InvocationState]
    /\ workflows \in [Instant -> Nat]

\* Invocation i has claimed the row of its instant and still works on it.
Dispatching(i) == invocation[i].phase \in {"call", "sent", "failed"}

\* The claim of an instant is held by one invocation at a time; nobody has called
\* while it may still call; and what it is about to store is what happened.
ClaimHeld ==
    /\ \A i \in Invocation : Dispatching(i) =>
          /\ Key(i) \in Instant /\ dispatchRow[Key(i)] # "NONE"
    /\ \A i, j \in Invocation : Dispatching(i) /\ Dispatching(j) /\ Key(i) = Key(j) => i = j
    /\ \A k \in Instant : dispatchRow[k] = "NONE" => workflows[k] = 0
    /\ \A i \in Invocation : invocation[i].phase = "call" =>
          workflows[Key(i)] = 0 /\ dispatchRow[Key(i)] = "CLAIMED"
    /\ \A i \in Invocation : invocation[i].phase = "sent" => workflows[Key(i)] = 1
    /\ \A i \in Invocation : invocation[i].phase = "failed" /\ invocation[i].error = "http" =>
          workflows[Key(i)] = 0

DInv == DTypeOK /\ ClaimHeld /\ DispatchedOnce /\ DispatchRecordIsTrue

LEMMA DInvInit == DispatchInit => DInv
BY DEF DispatchInit, DInv, DTypeOK, ClaimHeld, DispatchedOnce, DispatchRecordIsTrue,
       InvocationState, DispatchPhase, DispatchStatus, ErrorCode, Dispatching, Key

LEMMA DInvClaim ==
    ASSUME DInv, NEW i \in Invocation, NEW k \in Instant, Claim(i, k)
    PROVE  DInv'
<1>1. DTypeOK'
  BY DEF DInv, DTypeOK, Claim, Claims, InvocationState, DispatchPhase, DispatchStatus, ErrorCode
<1>2. CASE Claims(k)
  <2>1. ~Dispatching(i) /\ dispatchRow[k] = "NONE" /\ workflows[k] = 0
    BY <1>2 DEF DInv, ClaimHeld, Claim, Claims, Dispatching
  <2>2. \A j \in Invocation : Dispatching(j) => Key(j) # k
    BY <2>1 DEF DInv, ClaimHeld
  <2>3. /\ invocation' = [invocation EXCEPT ![i] =
               [phase |-> "call", instant |-> k, error |-> "none"]]
        /\ dispatchRow' = [dispatchRow EXCEPT ![k] = "CLAIMED"]
        /\ UNCHANGED <<dispatchError, workflows>>
    BY <1>2 DEF Claim
  <2>4. \A j \in Invocation : invocation'[j] =
           IF j = i THEN [phase |-> "call", instant |-> k, error |-> "none"] ELSE invocation[j]
    BY <2>3 DEF DInv, DTypeOK
  <2>5. \A l \in Instant : dispatchRow'[l] = IF l = k THEN "CLAIMED" ELSE dispatchRow[l]
    BY <2>3 DEF DInv, DTypeOK
  <2>6. ClaimHeld'
    BY <2>1, <2>2, <2>3, <2>4, <2>5 DEF DInv, ClaimHeld, Dispatching, Key
  <2>7. DispatchedOnce' /\ DispatchRecordIsTrue'
    BY <2>3, <2>5 DEF DInv, DispatchedOnce, DispatchRecordIsTrue
  <2> QED BY <1>1, <2>6, <2>7 DEF DInv
<1>3. CASE ~Claims(k)
  <2>1. /\ invocation' = [invocation EXCEPT ![i] =
               [phase |-> "over", instant |-> k, error |-> "none"]]
        /\ UNCHANGED <<dispatchRow, dispatchError, workflows>>
    BY <1>3 DEF Claim
  <2>2. \A j \in Invocation : invocation'[j] =
           IF j = i THEN [phase |-> "over", instant |-> k, error |-> "none"] ELSE invocation[j]
    BY <2>1 DEF DInv, DTypeOK
  <2>3. ClaimHeld' /\ DispatchedOnce' /\ DispatchRecordIsTrue'
    BY <2>1, <2>2 DEF DInv, ClaimHeld, Dispatching, Key, DispatchedOnce, DispatchRecordIsTrue
  <2> QED BY <1>1, <2>3 DEF DInv
<1> QED BY <1>2, <1>3

LEMMA DInvCall ==
    ASSUME DInv, NEW i \in Invocation, Call(i)
    PROVE  DInv'
<1>1. PICK taken \in BOOLEAN : \E error \in Answered(taken) :
        /\ workflows' = [workflows EXCEPT ![Key(i)] = IF taken THEN @ + 1 ELSE @]
        /\ Becomes(i, IF error = "none" THEN "sent" ELSE "failed", error)
        /\ UNCHANGED <<dispatchRow, dispatchError>>
  BY DEF Call
<1>0. PICK error \in Answered(taken) :
        /\ workflows' = [workflows EXCEPT ![Key(i)] = IF taken THEN @ + 1 ELSE @]
        /\ Becomes(i, IF error = "none" THEN "sent" ELSE "failed", error)
        /\ UNCHANGED <<dispatchRow, dispatchError>>
  BY <1>1
<1> DEFINE phase == IF error = "none" THEN "sent" ELSE "failed"
<1>2. /\ invocation[i].phase = "call" /\ Dispatching(i)
      /\ Key(i) \in Instant /\ workflows[Key(i)] = 0 /\ dispatchRow[Key(i)] = "CLAIMED"
  BY DEF Call, DInv, ClaimHeld, Dispatching
<1>3. error \in ErrorCode /\ (error = "none" => taken) /\ (error = "http" => ~taken)
  BY DEF Answered, ErrorCode
<1>4. invocation[i] \in InvocationState
  BY DEF DInv, DTypeOK
<1>5. \A j \in Invocation :
         /\ Key(j)' = Key(j)
         /\ j # i => invocation'[j] = invocation[j]
  BY <1>0, <1>4 DEF Becomes, DInv, DTypeOK, Key, InvocationState
<1>6. invocation'[i].phase = phase /\ invocation'[i].error = error
  BY <1>0, <1>4 DEF Becomes, DInv, DTypeOK, InvocationState
<1>7. \A l \in Instant : workflows'[l] = IF l = Key(i) THEN (IF taken THEN 1 ELSE 0) ELSE workflows[l]
  BY <1>0, <1>2 DEF DInv, DTypeOK
<1>8. DTypeOK'
  <2>1. invocation' \in [Invocation -> InvocationState]
    BY <1>0, <1>3, <1>4 DEF Becomes, DInv, DTypeOK, InvocationState, DispatchPhase
  <2>2. workflows' \in [Instant -> Nat]
    BY <1>0, <1>2 DEF DInv, DTypeOK
  <2> QED BY <1>0, <2>1, <2>2 DEF DInv, DTypeOK
<1>9. \A j \in Invocation : Dispatching(j) /\ j # i => Key(j) # Key(i)
  BY <1>2 DEF DInv, ClaimHeld
<1>10. \A j \in Invocation : Dispatching(j)' <=> Dispatching(j)
  BY <1>2, <1>5, <1>6 DEF Dispatching
<1>11. ClaimHeld'
  BY <1>0, <1>2, <1>3, <1>5, <1>6, <1>7, <1>9, <1>10 DEF DInv, ClaimHeld, Dispatching
<1>12. DispatchedOnce' /\ DispatchRecordIsTrue'
  BY <1>0, <1>2, <1>7 DEF DInv, DispatchedOnce, DispatchRecordIsTrue
<1> QED BY <1>8, <1>11, <1>12 DEF DInv

\* A working invocation that leaves, or moves from "sent" to "failed" without a
\* status of GitHub, keeps the claim as it is.
LEMMA Retreats ==
    ASSUME DInv, NEW i \in Invocation, Dispatching(i),
           NEW phase \in {"over", "failed"}, NEW error \in {"none", "unknown"},
           Becomes(i, phase, error), workflows' = workflows,
           dispatchRow' \in [Instant -> DispatchStatus], dispatchError' \in [Instant -> ErrorCode],
           \A k \in Instant \ {Key(i)} : /\ dispatchRow'[k] = dispatchRow[k]
                                         /\ dispatchError'[k] = dispatchError[k],
           dispatchRow'[Key(i)] # "NONE"
    PROVE  DTypeOK' /\ ClaimHeld' /\ DispatchedOnce'
<1>1. invocation[i] \in InvocationState
  BY DEF DInv, DTypeOK
<1>2. \A j \in Invocation :
         /\ Key(j)' = Key(j)
         /\ j # i => invocation'[j] = invocation[j]
  BY <1>1 DEF Becomes, DInv, DTypeOK, Key, InvocationState
<1>3. invocation'[i].phase = phase /\ invocation'[i].error = error
  BY <1>1 DEF Becomes, DInv, DTypeOK, InvocationState
<1>4. DTypeOK'
  BY <1>1 DEF Becomes, DInv, DTypeOK, InvocationState, DispatchPhase, ErrorCode
<1>5. Key(i) \in Instant /\ dispatchRow[Key(i)] # "NONE"
  BY DEF DInv, ClaimHeld
<1>6. \A j \in Invocation : Dispatching(j) /\ j # i => Key(j) # Key(i)
  BY DEF DInv, ClaimHeld
<1>7. \A j \in Invocation : Dispatching(j)' => Dispatching(j)
  BY <1>2 DEF Dispatching
<1>8. ClaimHeld'
  BY <1>2, <1>3, <1>5, <1>6, <1>7 DEF DInv, ClaimHeld, Dispatching
<1> QED BY <1>4, <1>8 DEF DInv, DispatchedOnce

LEMMA DInvFinishSent ==
    ASSUME DInv, NEW i \in Invocation, FinishSent(i)
    PROVE  DInv'
<1>1. /\ Dispatching(i) /\ Key(i) \in Instant /\ workflows[Key(i)] = 1
      /\ dispatchRow[Key(i)] # "NONE" /\ workflows' = workflows
  BY DEF FinishSent, DInv, ClaimHeld, Dispatching
<1>2. PICK phase \in {"over", "failed"}, error \in {"none", "unknown"} : Becomes(i, phase, error)
  BY DEF FinishSent
<1>3. \/ Finishes(Key(i), "SENT", "none")
      \/ UNCHANGED <<dispatchRow, dispatchError>>
  BY DEF FinishSent
<1>4. /\ dispatchRow' \in [Instant -> DispatchStatus]
      /\ dispatchError' \in [Instant -> ErrorCode]
      /\ \A k \in Instant \ {Key(i)} : /\ dispatchRow'[k] = dispatchRow[k]
                                       /\ dispatchError'[k] = dispatchError[k]
      /\ \/ dispatchRow'[Key(i)] = dispatchRow[Key(i)] /\ dispatchError'[Key(i)] = dispatchError[Key(i)]
         \/ dispatchRow'[Key(i)] = "SENT"
  BY <1>1, <1>3 DEF Finishes, DInv, DTypeOK, DispatchStatus, ErrorCode
<1>5. DTypeOK' /\ ClaimHeld' /\ DispatchedOnce'
  BY <1>1, <1>2, <1>4, Retreats
<1>6. DispatchRecordIsTrue'
  BY <1>1, <1>4 DEF DInv, DispatchRecordIsTrue
<1> QED BY <1>5, <1>6 DEF DInv

LEMMA DInvFinishFailed ==
    ASSUME DInv, NEW i \in Invocation, FinishFailed(i)
    PROVE  DInv'
<1>1. /\ Dispatching(i) /\ Key(i) \in Instant /\ dispatchRow[Key(i)] # "NONE"
      /\ invocation[i].error = "http" => workflows[Key(i)] = 0
      /\ invocation[i].error \in ErrorCode
      /\ workflows' = workflows /\ Becomes(i, "over", "none")
  BY DEF FinishFailed, DInv, DTypeOK, InvocationState, ClaimHeld, Dispatching
<1>2. /\ dispatchRow' \in [Instant -> DispatchStatus]
      /\ dispatchError' \in [Instant -> ErrorCode]
      /\ \A k \in Instant \ {Key(i)} : /\ dispatchRow'[k] = dispatchRow[k]
                                       /\ dispatchError'[k] = dispatchError[k]
      /\ \/ dispatchRow'[Key(i)] = dispatchRow[Key(i)] /\ dispatchError'[Key(i)] = dispatchError[Key(i)]
         \/ dispatchRow'[Key(i)] = "FAILED" /\ dispatchError'[Key(i)] = invocation[i].error
  BY <1>1 DEF FinishFailed, Finishes, DInv, DTypeOK, DispatchStatus
<1>3. DTypeOK' /\ ClaimHeld' /\ DispatchedOnce'
  BY <1>1, <1>2, Retreats
<1>4. DispatchRecordIsTrue'
  BY <1>1, <1>2 DEF DInv, DispatchRecordIsTrue
<1> QED BY <1>3, <1>4 DEF DInv

LEMMA DInvVanish ==
    ASSUME DInv, NEW i \in Invocation, Vanish(i)
    PROVE  DInv'
<1>1. /\ Dispatching(i) /\ Becomes(i, "over", "none") /\ dispatchRow[Key(i)] # "NONE"
      /\ UNCHANGED <<dispatchRow, dispatchError, workflows>>
  BY DEF Vanish, Dispatching, DInv, ClaimHeld
<1>2. DTypeOK' /\ ClaimHeld' /\ DispatchedOnce'
  BY <1>1, Retreats DEF DInv, DTypeOK
<1> QED BY <1>1, <1>2 DEF DInv, DispatchRecordIsTrue

LEMMA DInvInductive == DInv /\ [DispatchNext]_dispatchVars => DInv'
<1> SUFFICES ASSUME DInv, [DispatchNext]_dispatchVars PROVE DInv'
  OBVIOUS
<1>1. ASSUME NEW i \in Invocation, NEW k \in Instant, Claim(i, k) PROVE DInv'
  BY <1>1, DInvClaim
<1>2. ASSUME NEW i \in Invocation, Call(i) PROVE DInv'
  BY <1>2, DInvCall
<1>3. ASSUME NEW i \in Invocation, FinishSent(i) PROVE DInv'
  BY <1>3, DInvFinishSent
<1>4. ASSUME NEW i \in Invocation, FinishFailed(i) PROVE DInv'
  BY <1>4, DInvFinishFailed
<1>5. ASSUME NEW i \in Invocation, Vanish(i) PROVE DInv'
  BY <1>5, DInvVanish
<1>6. CASE UNCHANGED dispatchVars
  BY <1>6 DEF dispatchVars, DInv, DTypeOK, ClaimHeld, Dispatching, Key, DispatchedOnce,
             DispatchRecordIsTrue
<1> QED BY <1>1, <1>2, <1>3, <1>4, <1>5, <1>6 DEF DispatchNext

THEOREM DispatchInvariance == DispatchSpec => []DInv
BY DInvInit, DInvInductive, PTL DEF DispatchSpec

\* One run for a cron instant, however many invocations it is handed to and
\* wherever they die.
THEOREM OneRunPerInstant == DispatchSpec => []DispatchedOnce
<1>1. DInv => DispatchedOnce
  BY DEF DInv
<1> QED BY <1>1, DispatchInvariance, PTL

\* SENT is a run that exists and a FAILED with GitHub's status is one that does
\* not, also when the answer or the last write is lost.
THEOREM RecordIsTrue == DispatchSpec => []DispatchRecordIsTrue
<1>1. DInv => DispatchRecordIsTrue
  BY DEF DInv
<1> QED BY <1>1, DispatchInvariance, PTL

============================================================================
