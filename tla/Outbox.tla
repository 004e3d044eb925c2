------------------------------- MODULE Outbox -------------------------------
(***************************************************************************)
(* The delivery of Telegram messages: the rows of outbox from PENDING to a *)
(* final status, and the Worker invocations that run deliverOnce of        *)
(* outbox/delivery.ts on them.  Every D1 statement and the call to         *)
(* Telegram is a step of its own, so invocations interleave: a client that *)
(* gave up after five seconds leaves its invocation running while the next *)
(* request is served, and the webhook answers commands at any time.        *)
(***************************************************************************)
EXTENDS Integers, Sequences

CONSTANTS
    Message,      \* the dedupe keys, numbered in the order the drain lists them
    Handler,      \* the Worker invocations that can be in progress at once
    DrainLimit,   \* messages one drain takes: 25 in the code
    MaxStarts,    \* bound: notification requests and command responses
    MaxCrashes    \* bound: invocations that die half-way

\* Messages are ordered by their numbers; every bound is a number.
ASSUME MessageAssumption == Message \subseteq Nat
ASSUME BoundAssumption == DrainLimit \in Nat \ {0} /\ MaxStarts \in Nat /\ MaxCrashes \in Nat

VARIABLES
    row,          \* outbox.delivery_status, "NONE" where there is no row
    attempts,     \* outbox.attempt_count
    handler,      \* the local state of every invocation
    calls,        \* how often sendMessage was called for a message
    accepted,     \* how often Telegram accepted it
    starts,       \* requests so far
    crashes       \* crashes so far

outboxVars == <<row, attempts, handler, calls, accepted, starts, crashes>>

\* SENDING is in the column's CHECK, but no statement ever writes it.
DeliveryStatus == {"PENDING", "SENT", "FAILED", "UNKNOWN"}
Final == {"SENT", "FAILED"}
Phase == {"idle", "insert", "read", "mark", "send", "wait", "settle"}
Reply == {"none", "ok", "rejected"}

IdleHandler == [phase |-> "idle", queue |-> <<>>, reply |-> "none"]

Init ==
    /\ row = [m \in Message |-> "NONE"]
    /\ attempts = [m \in Message |-> 0]
    /\ handler = [h \in Handler |-> IdleHandler]
    /\ calls = [m \in Message |-> 0]
    /\ accepted = [m \in Message |-> 0]
    /\ starts = 0 /\ crashes = 0

At(h, phase) == handler[h].phase = phase

Current(h) == Head(handler[h].queue)

\* INSERT OR IGNORE: an existing row keeps its status.
Inserted(m) == IF row[m] = "NONE" THEN [row EXCEPT ![m] = "PENDING"] ELSE row

GoTo(h, phase) == handler' = [handler EXCEPT ![h].phase = phase]

\* Mutation: the last message of a drain is not recognised.
ReturnPastEnd(h) ==
    handler' = [handler EXCEPT ![h] =
        [phase |-> "insert", queue |-> Tail(@.queue), reply |-> "none"]]

\* deliverOnce returned: the drain goes on with its next message.
Return(h) ==
    handler' = [handler EXCEPT ![h] =
        IF Len(@.queue) = 1 THEN IdleHandler
        ELSE [phase |-> "insert", queue |-> Tail(@.queue), reply |-> "none"]]

Begin(h, messages) ==
    handler' = [handler EXCEPT ![h] =
        [phase |-> "insert", queue |-> messages, reply |-> "none"]]

----------------------------------------------------------------------------
(* Requests. *)

\* create_signal stores its SIGNAL message in the same batch as the signal; no
\* delivery starts (CreateSignal of Ledger.tla).
Publish(m) ==
    /\ row[m] = "NONE"
    /\ row' = Inserted(m)
    /\ UNCHANGED <<attempts, handler, calls, accepted, starts, crashes>>

\* POST /state/v1/notifications inserts the row and re-enters delivery even for
\* one that existed.
Notify(h, m) ==
    /\ At(h, "idle") /\ starts < MaxStarts
    /\ starts' = starts + 1
    /\ row' = Inserted(m)
    /\ Begin(h, <<m>>)
    /\ UNCHANGED <<attempts, calls, accepted, crashes>>

\* The webhook answers a command: deliverOnce itself inserts the row.
Respond(h, m) ==
    /\ At(h, "idle") /\ starts < MaxStarts
    /\ starts' = starts + 1
    /\ Begin(h, <<m>>)
    /\ UNCHANGED <<row, attempts, calls, accepted, crashes>>

\* POST /state/v1/outbox/drain, the first request of every run: the oldest
\* PENDING rows.  A drain that finds none changes nothing.
\* Mutation: only rows whose first attempt failed are listed.
PendingAgain == {m \in Message : row[m] = "PENDING" /\ attempts[m] > 0}

Pending == {m \in Message : row[m] = "PENDING"}

\* ORDER BY created_at, outbox_id LIMIT: in order, and what the limit left out is
\* younger than all that is listed.
Oldest(list) ==
    /\ \A i, j \in DOMAIN list : i < j => list[i] < list[j]
    /\ \A m \in Pending :
          \/ \E i \in DOMAIN list : list[i] = m
          \/ Len(list) = DrainLimit /\ \A i \in DOMAIN list : list[i] < m

Drain(h) ==
    /\ At(h, "idle")
    /\ \E n \in 1..DrainLimit : \E list \in [1..n -> Pending] : Oldest(list) /\ Begin(h, list)
    /\ UNCHANGED <<row, attempts, calls, accepted, starts, crashes>>

----------------------------------------------------------------------------
(* deliverOnce, statement by statement. *)

Insert(h) ==
    /\ At(h, "insert")
    /\ row' = Inserted(Current(h))
    /\ GoTo(h, "read")
    /\ UNCHANGED <<attempts, calls, accepted, starts, crashes>>

\* Mutation: a message whose fate is UNKNOWN is sent again.
ReadRetriesUnknown(h) ==
    /\ At(h, "read")
    /\ IF row[Current(h)] \in {"PENDING", "UNKNOWN"} THEN GoTo(h, "mark") ELSE Return(h)
    /\ UNCHANGED <<row, attempts, calls, accepted, starts, crashes>>

\* Any status but PENDING is the result: nothing is sent.
Read(h) ==
    /\ At(h, "read")
    /\ IF row[Current(h)] = "PENDING" THEN GoTo(h, "mark") ELSE Return(h)
    /\ UNCHANGED <<row, attempts, calls, accepted, starts, crashes>>

\* Mutation: nothing is written before the call.
MarkNothing(h) ==
    /\ At(h, "mark")
    /\ GoTo(h, "send")
    /\ UNCHANGED <<row, attempts, calls, accepted, starts, crashes>>

\* Mutation: the attempt is counted whatever the row's status.
MarkCountsAlways(h) ==
    /\ At(h, "mark")
    /\ row' = IF row[Current(h)] = "PENDING" THEN [row EXCEPT ![Current(h)] = "UNKNOWN"] ELSE row
    /\ attempts' = [attempts EXCEPT ![Current(h)] = @ + 1]
    /\ GoTo(h, "send")
    /\ UNCHANGED <<calls, accepted, starts, crashes>>

\* UNKNOWN is written before the call.  The UPDATE touches a PENDING row only,
\* but nobody looks at how many rows it changed.
Mark(h) ==
    /\ At(h, "mark")
    /\ LET m == Current(h)
       IN  IF row[m] = "PENDING"
           THEN /\ row' = [row EXCEPT ![m] = "UNKNOWN"]
                /\ attempts' = [attempts EXCEPT ![m] = @ + 1]
           ELSE UNCHANGED <<row, attempts>>
    /\ GoTo(h, "send")
    /\ UNCHANGED <<calls, accepted, starts, crashes>>

Send(h) ==
    /\ At(h, "send")
    /\ calls' = [calls EXCEPT ![Current(h)] = @ + 1]
    /\ GoTo(h, "wait")
    /\ UNCHANGED <<row, attempts, accepted, starts, crashes>>

\* Telegram accepts the message or not, and its answer arrives within eight
\* seconds or not: only an answer tells the two apart.
Answer(h) ==
    /\ At(h, "wait")
    /\ \E taken \in BOOLEAN, reply \in Reply :
          /\ reply = "ok" => taken
          /\ reply = "rejected" => ~taken
          /\ accepted' = [accepted EXCEPT ![Current(h)] = IF taken THEN @ + 1 ELSE @]
          /\ handler' = [handler EXCEPT ![h] = [@ EXCEPT !.phase = "settle", !.reply = reply]]
    /\ UNCHANGED <<row, attempts, calls, starts, crashes>>

\* Mutation: the UPDATE forgets delivery_status = 'UNKNOWN'.
SettlesAnyRow(m, status) == row' = [row EXCEPT ![m] = status]

\* Only an UNKNOWN row takes the result.
Settles(m, status) ==
    row' = IF row[m] = "UNKNOWN" THEN [row EXCEPT ![m] = status] ELSE row

\* Mutation: no answer counts as a failure.
SilenceIsFailure(reply) ==
    CASE reply = "ok" -> {"SENT", "UNKNOWN"} [] OTHER -> {"FAILED"}

\* When the UPDATE to SENT fails, the catch leaves the row UNKNOWN.
Results(reply) ==
    CASE reply = "ok"       -> {"SENT", "UNKNOWN"}
      [] reply = "rejected" -> {"FAILED"}
      [] reply = "none"     -> {"UNKNOWN"}

Settle(h) ==
    /\ At(h, "settle")
    /\ \E status \in Results(handler[h].reply) : Settles(Current(h), status)
    /\ Return(h)
    /\ UNCHANGED <<attempts, calls, accepted, starts, crashes>>

\* The invocation dies, or a statement throws: the rest of a drain is dropped.
Crash(h) ==
    /\ ~At(h, "idle") /\ crashes < MaxCrashes
    /\ crashes' = crashes + 1
    /\ handler' = [handler EXCEPT ![h] = IdleHandler]
    /\ UNCHANGED <<row, attempts, calls, accepted, starts>>

Work(h) == Insert(h) \/ Read(h) \/ Mark(h) \/ Send(h) \/ Answer(h) \/ Settle(h)

Next ==
    \/ \E m \in Message : Publish(m)
    \/ \E h \in Handler, m \in Message : Notify(h, m) \/ Respond(h, m)
    \/ \E h \in Handler : Drain(h) \/ Work(h) \/ Crash(h)

Spec == Init /\ [][Next]_outboxVars

\* Runs keep coming and each starts with a drain; an invocation in progress goes
\* on unless it crashes; requests and crashes are bounded and owe nothing.
FairSpec ==
    /\ Spec
    /\ \A h \in Handler : WF_outboxVars(Work(h))
    /\ WF_outboxVars(\E h \in Handler : Drain(h))

----------------------------------------------------------------------------
(* Properties. *)

TypeOK ==
    /\ row \in [Message -> DeliveryStatus \cup {"NONE"}]
    /\ attempts \in [Message -> Nat]
    /\ handler \in [Handler -> [phase : Phase, queue : Seq(Message), reply : Reply]]
    /\ \A h \in Handler : ~At(h, "idle") => handler[h].queue # <<>>
    /\ calls \in [Message -> Nat]
    /\ accepted \in [Message -> Nat]
    /\ starts \in 0..MaxStarts
    /\ crashes \in 0..MaxCrashes

\* "PENDING proves no external call began" (state-api/routes.ts): whatever
\* invocations interleave or die, a message a call was made for is past PENDING,
\* so a drain or a repeated request that finds a row PENDING may send it.
PendingMeansUnsent ==
    \A m \in Message : row[m] \in {"NONE", "PENDING"} => calls[m] = 0 /\ accepted[m] = 0

\* A row leaves PENDING once: attempt_count says whether it has, no more.
OneAttemptCounted ==
    \A m \in Message : attempts[m] = IF row[m] \in {"NONE", "PENDING"} THEN 0 ELSE 1

\* A result is final, and no status is ever taken back.
StatusMovesForward ==
    [][\A m \in Message :
          /\ row[m] \in Final => row'[m] = row[m]
          /\ row[m] = "UNKNOWN" => row'[m] \in {"UNKNOWN"} \cup Final
          /\ row[m] = "PENDING" => row'[m] # "NONE"]_outboxVars

\* "UNKNOWN is written before the external call": no crash makes anyone call
\* Telegram twice for one message.  (For one invocation at a time: see README.)
NeverResent == \A m \in Message : calls[m] <= 1

\* The final status is the truth: SENT was accepted, FAILED was not.
StatusIsTrue ==
    \A m \in Message : /\ row[m] = "SENT" => accepted[m] > 0
                       /\ row[m] = "FAILED" => accepted[m] = 0

\* Every stored message is taken up in the end, also when the request that
\* stored it died: the drain of a later run finds it.
EveryMessageTaken == \A m \in Message : row[m] = "PENDING" ~> row[m] # "PENDING"
============================================================================
