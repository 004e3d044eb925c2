-------------------------- MODULE TelegramUpdates --------------------------
(***************************************************************************)
(* The owner's commands: the webhook of app.ts from the claim of an update *)
(* to its last row, over the delivery of Outbox.tla.  Telegram delivers an *)
(* update until an invocation answers 204, so it delivers again when one   *)
(* dies, is slow, or its answer is lost; telegram_updates decides which    *)
(* delivery does the work.  Every D1 statement is a step of its own.       *)
(***************************************************************************)
EXTENDS Outbox

CONSTANTS
    Update,          \* update_id; the answer to an update is the message of its number
    Command,         \* what each update asks for; "NONE" for text or a stranger
    Lease,           \* minutes: 2 in the code
    MaxNow,          \* bound on the clock
    MaxDeliveries    \* bound on the deliveries

ASSUME UpdateAssumption ==
    /\ Command \in [Update -> {"PAUSE", "RESUME", "STATUS", "NONE"}]
    /\ \A u \in Update : Command[u] # "NONE" => u \in Message
    /\ Lease \in Nat /\ MaxNow \in Nat /\ MaxDeliveries \in Nat

VARIABLES
    now,          \* the Worker's clock, in minutes
    update,       \* telegram_updates.processing_status, "NONE" where there is no row
    lease,        \* telegram_updates.lease_until, 0 for NULL
    audit,        \* command_audit.result, "NONE" where there is no row
    paused,       \* bot_settings: SIGNAL_GENERATION_PAUSED
    webhook,      \* the invocations: phase, update, and the result of deliverOnce
    delivered,    \* how often Telegram delivered one
    acked,        \* the updates Telegram got a 204 for
    died          \* history: the updates an invocation died on

updateVars == <<now, update, lease, audit, paused, webhook, delivered, acked, died>>
webhookVars == <<outboxVars, updateVars>>

\* INSERT OR IGNORE and UPDATE are one batch: RECEIVED never outlives it.
UpdateStatus == {"NONE", "PROCESSING", "COMPLETED", "IGNORED"}
Audit == {"NONE", "SENT", "DELIVERY_FAILED", "DELIVERY_UNKNOWN"}
WebhookPhase == {"idle", "claimed", "respond", "deliver", "record", "finish"}

Idle == [phase |-> "idle", update |-> 0, result |-> "NONE"]

WebhookInit ==
    /\ Init
    /\ now = 0
    /\ update = [u \in Update |-> "NONE"]
    /\ lease = [u \in Update |-> 0]
    /\ audit = [u \in Update |-> "NONE"]
    /\ paused = FALSE
    /\ webhook = [h \in Handler |-> Idle]
    /\ delivered = 0
    /\ acked = {} /\ died = {}

In(h, phase) == webhook[h].phase = phase

Answers == {u \in Update : Command[u] # "NONE"}

\* The answer reaches Telegram or not.
Acknowledge(u) == acked' \in {acked, acked \cup {u}}

Free(h) == In(h, "idle") /\ At(h, "idle")

----------------------------------------------------------------------------
\* Mutation: a finished update can be claimed, too.
ClaimableAfterLease(u) == update[u] = "NONE" \/ lease[u] < now

\* beginUpdate: a new row, or one whose holder's lease has run out.
Claimable(u) == update[u] = "NONE" \/ (update[u] = "PROCESSING" /\ lease[u] < now)

\* Telegram delivers an update it has no 204 for, possibly while an earlier
\* delivery is still being worked on.
Deliver(h, u) ==
    /\ Free(h) /\ u \notin acked /\ delivered < MaxDeliveries
    /\ delivered' = delivered + 1
    /\ IF Claimable(u)
       THEN /\ update' = [update EXCEPT ![u] = "PROCESSING"]
            /\ lease' = [lease EXCEPT ![u] = now + Lease]
            /\ webhook' = [webhook EXCEPT ![h] = [phase |-> "claimed", update |-> u, result |-> "NONE"]]
            /\ UNCHANGED acked
       ELSE Acknowledge(u) /\ UNCHANGED <<update, lease, webhook>>
    /\ UNCHANGED <<outboxVars, now, audit, paused, died>>

\* Mutation: a slow invocation, its lease run out, can finish no more.
FinishedInTime(u, status) ==
    IF update[u] = "PROCESSING" /\ lease[u] >= now
    THEN update' = [update EXCEPT ![u] = status] /\ lease' = [lease EXCEPT ![u] = 0]
    ELSE UNCHANGED <<update, lease>>

\* finishUpdate changes a PROCESSING row only, and clears its lease.
Finished(u, status) ==
    IF update[u] = "PROCESSING"
    THEN update' = [update EXCEPT ![u] = status] /\ lease' = [lease EXCEPT ![u] = 0]
    ELSE UNCHANGED <<update, lease>>

\* Not the owner's private chat, or no command: nothing but the claim is left.
Ignore(h) ==
    /\ In(h, "claimed") /\ Command[webhook[h].update] = "NONE"
    /\ Finished(webhook[h].update, "IGNORED")
    /\ Acknowledge(webhook[h].update)
    /\ webhook' = [webhook EXCEPT ![h] = Idle]
    /\ UNCHANGED <<outboxVars, now, audit, paused, delivered, died>>

\* executeCommand: a repeated PAUSE or RESUME writes the setting again.
ExecuteCommand(h) ==
    /\ In(h, "claimed") /\ Command[webhook[h].update] # "NONE"
    /\ paused' = CASE Command[webhook[h].update] = "PAUSE"  -> TRUE
                   [] Command[webhook[h].update] = "RESUME" -> FALSE
                   [] OTHER                                 -> paused
    /\ webhook' = [webhook EXCEPT ![h].phase = "respond"]
    /\ UNCHANGED <<outboxVars, now, update, lease, audit, delivered, acked, died>>

StartResponse(h) ==
    /\ In(h, "respond")
    /\ Respond(h, webhook[h].update)
    /\ webhook' = [webhook EXCEPT ![h].phase = "deliver"]
    /\ UNCHANGED <<now, update, lease, audit, paused, delivered, acked, died>>

\* existingResult, and the three ways out of the try.
AuditResult(status) ==
    CASE status = "SENT" -> "SENT" [] status = "FAILED" -> "DELIVERY_FAILED"
      [] OTHER -> "DELIVERY_UNKNOWN"

\* One step of deliverOnce.  What it returns is the status it read, or what it
\* knows of its own call, whatever another invocation wrote to the row.
DeliveryStep(h) ==
    /\ Work(h)
    /\ IF In(h, "deliver") /\ handler'[h] = IdleHandler
       THEN \E status \in IF At(h, "read") THEN {row[Current(h)]} ELSE Results(handler[h].reply) :
              /\ row'[Current(h)] # row[Current(h)] => status = row'[Current(h)]
              /\ webhook' = [webhook EXCEPT ![h].phase = "record", ![h].result = AuditResult(status)]
       ELSE UNCHANGED webhook
    /\ UNCHANGED <<now, update, lease, audit, paused, delivered, acked, died>>

\* Mutation: the row is written before the delivery, with what was known then.
RecordNothing(h) ==
    /\ In(h, "record")
    /\ webhook' = [webhook EXCEPT ![h].phase = "finish"]
    /\ UNCHANGED <<outboxVars, now, update, lease, audit, paused, delivered, acked, died>>

\* INSERT OR IGNORE: the first invocation to get here wins.
RecordCommand(h) ==
    /\ In(h, "record")
    /\ audit' = IF audit[webhook[h].update] = "NONE"
                THEN [audit EXCEPT ![webhook[h].update] = webhook[h].result] ELSE audit
    /\ webhook' = [webhook EXCEPT ![h].phase = "finish"]
    /\ UNCHANGED <<outboxVars, now, update, lease, paused, delivered, acked, died>>

FinishUpdate(h) ==
    /\ In(h, "finish")
    /\ Finished(webhook[h].update, "COMPLETED")
    /\ Acknowledge(webhook[h].update)
    /\ webhook' = [webhook EXCEPT ![h] = Idle]
    /\ UNCHANGED <<outboxVars, now, audit, paused, delivered, died>>

\* The invocation dies, or a statement throws and index.ts answers 503.
Die(h) ==
    /\ ~In(h, "idle") /\ crashes < MaxCrashes
    /\ crashes' = crashes + 1
    /\ handler' = [handler EXCEPT ![h] = IdleHandler]
    /\ webhook' = [webhook EXCEPT ![h] = Idle]
    /\ died' = died \cup {webhook[h].update}
    /\ UNCHANGED <<row, attempts, calls, accepted, starts, now, update, lease, audit, paused,
                   delivered, acked>>

Minute ==
    /\ now < MaxNow
    /\ now' = now + 1
    /\ UNCHANGED <<outboxVars, update, lease, audit, paused, webhook, delivered, acked, died>>

\* The rest of the Worker, on messages that answer no update.
Elsewhere(h) ==
    /\ In(h, "idle")
    /\ \/ \E m \in Message \ Answers : Publish(m) \/ Notify(h, m)
       \/ Drain(h)
       \/ Crash(h)
    /\ UNCHANGED updateVars

WebhookWork(h) ==
    \/ Ignore(h) \/ ExecuteCommand(h) \/ StartResponse(h) \/ DeliveryStep(h)
    \/ RecordCommand(h) \/ FinishUpdate(h)

WebhookNext ==
    \/ \E h \in Handler, u \in Update : Deliver(h, u)
    \/ \E h \in Handler : WebhookWork(h) \/ Die(h) \/ Elsewhere(h)
    \/ Minute

WebhookSpec == WebhookInit /\ [][WebhookNext]_webhookVars

----------------------------------------------------------------------------
(* Properties. *)

Working(u) == \E h \in Handler : webhook[h].update = u /\ ~In(h, "idle")

\* An update is COMPLETED only when its command was audited and its answer was
\* handed to Telegram or given up for good, also when a second invocation took
\* the update over from a slow first one and either of them died.
CompletedMeansAnswered ==
    \A u \in Answers : update[u] = "COMPLETED" =>
        /\ audit[u] # "NONE"
        /\ row[u] \notin {"NONE", "PENDING"}

\* Telegram stops delivering an update after a 204, and a delivery that finds
\* the update claimed answers 204: an update nobody works on any more can be
\* lost, but only when the invocation that held it died.
LostOnlyByDeath ==
    \A u \in Update \ died : u \in acked => update[u] \in {"COMPLETED", "IGNORED"} \/ Working(u)

\* An update that was ignored or completed is never worked on again by a new
\* delivery: what the owner sent last is not undone by an old command that
\* Telegram repeats.
FinishedStaysFinished ==
    [][\A u \in Update : update[u] \in {"COMPLETED", "IGNORED"} =>
          /\ update'[u] = update[u]
          /\ Working(u)' => Working(u)]_webhookVars
============================================================================
