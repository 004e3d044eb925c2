------------------------------ MODULE MCWorker ------------------------------
(***************************************************************************)
(* The Worker's webhook and its scheduled handler.  They share no table    *)
(* and no variable, so each is explored while the other one rests.         *)
(***************************************************************************)
EXTENDS TelegramUpdates, Dispatch, TLC

\* Update 1 is answered with message 1; update 2 is not a command; message 3
\* belongs to the engine.
Commands == [u \in 1..2 |-> IF u = 1 THEN "PAUSE" ELSE "NONE"]
Messages == {1, 3}
Updates == {1, 2}

\* Invocations are interchangeable.
Symmetry == Permutations(Handler) \cup Permutations(Invocation)

WorkerInit == WebhookInit /\ DispatchInit

WorkerNext ==
    \/ DispatchInit /\ WebhookNext /\ UNCHANGED dispatchVars
    \/ WebhookInit /\ DispatchNext /\ UNCHANGED webhookVars

WorkerSpec == WorkerInit /\ [][WorkerNext]_<<webhookVars, dispatchVars>>
=============================================================================
