----------------------------- MODULE MCDelivery -----------------------------
(* Model values of Delivery for TLC. *)
EXTENDS Delivery

\* Task 2 depends on task 1.
Chain == <<NoTask, 1>>

=============================================================================
