------------------------------ MODULE TaskOrder ------------------------------
(***************************************************************************)
(* What splitting a request into tasks promises: a task is started when    *)
(* the tasks it was declared to need are finished, and the request is      *)
(* closed when every task is.  After a disturbance (a failed call, a       *)
(* crash, a second thread) nothing is promised.                            *)
(***************************************************************************)
EXTENDS Naturals

CONSTANT Tasks

VARIABLES
    phase,      \* phase[i]: "none", "waiting", "started" or "finished"
    needs,      \* needs[i]: the tasks i was declared to need
    closed,     \* the request has been closed
    disturbed

vars == <<phase, needs, closed, disturbed>>

Phases == {"none", "waiting", "started", "finished"}
Finished == {i \in Tasks : phase[i] = "finished"}
Settled  == \A i \in Tasks : phase[i] \in {"none", "finished"}

Init ==
    /\ phase = [i \in Tasks |-> "none"]
    /\ needs = [i \in Tasks |-> {}]
    /\ closed = FALSE /\ disturbed = FALSE

\* A task is added with what it needs, to a request that is still open.
Add(i) ==
    /\ phase[i] = "none" /\ ~closed
    /\ phase' = [phase EXCEPT ![i] = "waiting"]
    /\ needs'[i] \subseteq Tasks /\ needs' = [needs EXCEPT ![i] = needs'[i]]
    /\ UNCHANGED closed

Start(i) ==
    /\ phase[i] = "waiting" /\ needs[i] \subseteq Finished
    /\ phase' = [phase EXCEPT ![i] = "started"]
    /\ UNCHANGED <<needs, closed>>

\* Tasks that started or wait are finished, or wait again: finishing one may finish
\* those that waited for nothing else.
Move ==
    LET moved == {i \in Tasks : phase'[i] # phase[i]} IN
    /\ phase' \in [Tasks -> Phases]
    /\ \A i \in moved : phase[i] \in {"waiting", "started"} /\ phase'[i] \in {"waiting", "finished"}
    /\ UNCHANGED <<needs, closed>>

Close ==
    /\ Settled
    /\ closed' = TRUE
    /\ UNCHANGED <<phase, needs>>

Next ==
    \/ disturbed'
    \/ /\ UNCHANGED disturbed
       /\ \/ \E i \in Tasks : Add(i) \/ Start(i)
          \/ Move \/ Close

Spec == Init /\ [][Next]_vars

=============================================================================
