------------------------------ MODULE Dispatch ------------------------------
(***************************************************************************)
(* The scheduled start of the paper engine: dispatchScheduledWorkflow of   *)
(* dispatch/scheduled.ts.  A cron instant may be handed to the Worker more *)
(* than once and its invocations overlap or die; the row of its dispatch   *)
(* key decides which of them calls GitHub.                                 *)
(***************************************************************************)
EXTENDS Integers, FiniteSets

CONSTANTS
    Instant,          \* cron instants: the part of a dispatch key that differs
    Invocation,       \* the invocations the platform starts for them
    DispatchEnabled   \* PRODUCTION_DISPATCH_ENABLED

ASSUME DispatchAssumption == DispatchEnabled \in BOOLEAN /\ IsFiniteSet(Invocation)

VARIABLES
    dispatchRow,      \* workflow_dispatches.status, "NONE" where there is no row
    dispatchError,    \* workflow_dispatches.error_code
    invocation,       \* phase, instant and error of every invocation
    workflows         \* history: the workflow runs GitHub accepted, per instant

dispatchVars == <<dispatchRow, dispatchError, invocation, workflows>>

DispatchStatus == {"NONE", "CLAIMED", "SENT", "FAILED"}
ErrorCode == {"none", "http", "unknown"}
DispatchPhase == {"new", "call", "sent", "failed", "over"}

DispatchInit ==
    /\ dispatchRow = [k \in Instant |-> "NONE"]
    /\ dispatchError = [k \in Instant |-> "none"]
    /\ invocation = [i \in Invocation |-> [phase |-> "new", instant |-> "none", error |-> "none"]]
    /\ workflows = [k \in Instant |-> 0]

Key(i) == invocation[i].instant

Becomes(i, phase, error) ==
    invocation' = [invocation EXCEPT ![i] = [@ EXCEPT !.phase = phase, !.error = error]]

\* Mutation: a dispatch whose outcome is not recorded is claimed again.
ClaimsUnfinished(k) == dispatchRow[k] \in {"NONE", "CLAIMED"}

\* INSERT OR IGNORE changed a row.
Claims(k) == dispatchRow[k] = "NONE"

Claim(i, k) ==
    /\ DispatchEnabled /\ invocation[i].phase = "new"
    /\ invocation' = [invocation EXCEPT ![i] =
          [phase |-> IF Claims(k) THEN "call" ELSE "over", instant |-> k, error |-> "none"]]
    /\ dispatchRow' = IF Claims(k) THEN [dispatchRow EXCEPT ![k] = "CLAIMED"] ELSE dispatchRow
    /\ UNCHANGED <<dispatchError, workflows>>

\* Mutation: every exception of the call is reported as an answer of GitHub.
EveryErrorIsAnAnswer(taken) == {"http"} \cup (IF taken THEN {"none"} ELSE {})

\* What the caller sees: 204 for a run that was accepted, another status for one
\* that was not, and an exception where the answer never came.
Answered(taken) == {"unknown", IF taken THEN "none" ELSE "http"}

Call(i) ==
    /\ invocation[i].phase = "call"
    /\ \E taken \in BOOLEAN : \E error \in Answered(taken) :
          /\ workflows' = [workflows EXCEPT ![Key(i)] = IF taken THEN @ + 1 ELSE @]
          /\ Becomes(i, IF error = "none" THEN "sent" ELSE "failed", error)
    /\ UNCHANGED <<dispatchRow, dispatchError>>

\* finishWorkflowDispatch changes a CLAIMED row only.
Finishes(k, status, error) ==
    IF dispatchRow[k] = "CLAIMED"
    THEN /\ dispatchRow' = [dispatchRow EXCEPT ![k] = status]
         /\ dispatchError' = [dispatchError EXCEPT ![k] = error]
    ELSE UNCHANGED <<dispatchRow, dispatchError>>

\* Storing SENT can fail with or without effect: the catch then stores FAILED.
FinishSent(i) ==
    /\ invocation[i].phase = "sent"
    /\ \/ Finishes(Key(i), "SENT", "none") /\ Becomes(i, "over", "none")
       \/ Finishes(Key(i), "SENT", "none") /\ Becomes(i, "failed", "unknown")
       \/ Becomes(i, "failed", "unknown") /\ UNCHANGED <<dispatchRow, dispatchError>>
    /\ UNCHANGED workflows

FinishFailed(i) ==
    /\ invocation[i].phase = "failed"
    /\ Finishes(Key(i), "FAILED", invocation[i].error)
    /\ Becomes(i, "over", "none")
    /\ UNCHANGED workflows

\* The invocation dies, or the last statement throws.
Vanish(i) ==
    /\ invocation[i].phase \in {"call", "sent", "failed"}
    /\ Becomes(i, "over", "none")
    /\ UNCHANGED <<dispatchRow, dispatchError, workflows>>

DispatchNext ==
    \E i \in Invocation :
        \/ \E k \in Instant : Claim(i, k)
        \/ Call(i) \/ FinishSent(i) \/ FinishFailed(i) \/ Vanish(i)

DispatchSpec == DispatchInit /\ [][DispatchNext]_dispatchVars

----------------------------------------------------------------------------
(* Properties. *)

\* However often the platform repeats a cron instant and wherever an invocation
\* dies, GitHub starts at most one engine run for it.
DispatchedOnce == \A k \in Instant : workflows[k] <= 1

\* The row can be trusted as far as it says: SENT is a run that exists, FAILED
\* with a status of GitHub is one that does not.  Only FAILED with an unknown
\* error (no answer, or SENT could not be stored) and CLAIMED leave it open.
DispatchRecordIsTrue ==
    \A k \in Instant :
        /\ dispatchRow[k] = "SENT" => workflows[k] = 1
        /\ dispatchRow[k] = "FAILED" /\ dispatchError[k] = "http" => workflows[k] = 0
=============================================================================
