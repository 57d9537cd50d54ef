----------------------------- MODULE MCTaskGraph -----------------------------
(* Model values of TaskGraph for TLC. *)
EXTENDS TaskGraph

\* One task that depends on itself, and two that depend on each other: the first
\* names a task that is not made yet, the second one that is.
SmallPlans == {<<{1}>>, <<{2}, {1}>>}

=============================================================================
