------------------------------ MODULE MCOutbox ------------------------------
(* A few messages and one or two Worker invocations. *)
EXTENDS Outbox, TLC

Messages == 1..3
TwoMessages == 1..2

\* Invocations are interchangeable.
Symmetry == Permutations(Handler)
============================================================================
