------------------------------- MODULE Polling -------------------------------
(***************************************************************************)
(* MultiProjectFleetDaemon (daemon.py): one thread polls the projects in a *)
(* fixed order, the control project first.  A tick of a project runs at    *)
(* most one item, and the thread waits for its turn (AppServer) before it  *)
(* looks at the next project.  The turns of one tick share the budget      *)
(* max_concurrent_agents; when it is spent the tick ends, wherever it is.  *)
(*                                                                         *)
(* Of a project only this is kept: whether an item is ready, and whether   *)
(* something keeps it from being dispatched.  What a dispatch does to the  *)
(* item is module Dispatch, how an item is split TaskGraph.                *)
(***************************************************************************)
EXTENDS AppServer, FiniteSets

CONSTANTS
    Projects,  \* number of projects; project 1 is the control project
    Limit,     \* max_concurrent_agents, at least 1
    MaxTroubled \* bound: projects in trouble at a time

ASSUME PollingAssumption == {Projects, Limit} \subseteq Nat \ {0} /\ MaxTroubled \in Nat

VARIABLES
    ready,     \* ready[p]: the project has an item that may be dispatched
    trouble,   \* trouble[p]: what is in its way
    linked,    \* the projects _project_configs returned for this tick
    cursor,    \* the project in hand; Sleeping between ticks
    remaining, \* the budget left in this tick
    elapsed,   \* ticks of time since this tick of the daemon began
    raised     \* history: turns of this tick that were not counted, as their runs raised

pollVars == <<ready, trouble, linked, cursor, remaining, elapsed, raised>>
vars == <<turnVars, pollVars>>

-----------------------------------------------------------------------------
ProjectIds == 1..Projects
Sleeping == 0

\* No board or folder; the tracker cannot be reached; the first ready item is
\* claimed by a handler of the local API.
Troubles == {"none", "unlinked", "down", "claimed"}

Init ==
    /\ TurnInit
    /\ ready \in [ProjectIds -> BOOLEAN]
    /\ trouble = [p \in ProjectIds |-> "none"]
    /\ linked = {} /\ cursor = Sleeping /\ remaining = 0 /\ elapsed = 0 /\ raised = 0

Polls(p) == cursor = p /\ ~Running /\ outcome = NoTurn

BudgetNotChecked == TRUE   \* mutant
BudgetLeft == remaining > 0

\* _project_configs: the control project is polled in any case.
BeginTick ==
    /\ cursor = Sleeping
    /\ linked' = {p \in ProjectIds : p = 1 \/ trouble[p] # "unlinked"}
    /\ cursor' = 1 /\ remaining' = Limit /\ elapsed' = 0 /\ raised' = 0
    /\ UNCHANGED <<turnVars, ready, trouble>>

\* After the last project, or when the budget is spent, the daemon sleeps.
EndTick ==
    /\ \/ cursor > Projects
       \/ ~BudgetLeft /\ \E p \in ProjectIds : Polls(p)
    /\ cursor' = Sleeping /\ linked' = {} /\ remaining' = 0 /\ elapsed' = 0 /\ raised' = 0
    /\ UNCHANGED <<turnVars, ready, trouble>>

\* mutant: the exception of one project ends the tick
StopHere == cursor' = Sleeping
GoOn == cursor' = cursor + 1

\* An exception of this project is recorded, and the next is polled.
Raises(p) ==
    /\ Polls(p) /\ BudgetLeft
    /\ p \in linked /\ trouble[p] \in {"down", "unlinked"}
    /\ GoOn
    /\ UNCHANGED <<turnVars, ready, trouble, linked, remaining, elapsed, raised>>

\* Nothing is dispatched: the project was left out, or has nothing ready, or its item
\* is claimed, or it is settled without a turn (it gets a planner, or waits for its
\* children).
NothingDispatched(p) ==
    /\ Polls(p) /\ BudgetLeft
    /\ \/ /\ p \notin linked \/ trouble[p] = "claimed" \/ (trouble[p] = "none" /\ ~ready[p])
          /\ UNCHANGED ready
       \/ /\ p \in linked /\ trouble[p] = "none" /\ ready[p]
          /\ ready' = [ready EXCEPT ![p] = FALSE]
    /\ cursor' = cursor + 1
    /\ UNCHANGED <<turnVars, trouble, linked, remaining, elapsed, raised>>

Dispatches(p) ==
    /\ Polls(p) /\ BudgetLeft
    /\ p \in linked /\ trouble[p] = "none" /\ ready[p]
    /\ StartTurn
    /\ ready' = [ready EXCEPT ![p] = FALSE]
    /\ UNCHANGED <<trouble, linked, cursor, remaining, elapsed, raised>>

\* mutant: the project is polled again, as FleetDaemon.tick_many does
TurnTakenPollAgain ==
    /\ cursor # Sleeping /\ ~Running /\ outcome # NoTurn
    /\ remaining' = remaining - 1
    /\ TakeOutcome
    /\ UNCHANGED <<ready, trouble, linked, cursor, elapsed, raised>>

\* The run of the turn is over, and is one dispatch whatever became of it.
TurnTaken ==
    /\ cursor # Sleeping /\ ~Running /\ outcome # NoTurn
    /\ remaining' = remaining - 1
    /\ cursor' = cursor + 1
    /\ TakeOutcome
    /\ UNCHANGED <<ready, trouble, linked, elapsed, raised>>

\* The tracker is told neither the outcome nor, by run_once's except branch, that this
\* failed: run_once raises, and the turn is not taken from the budget.
TurnRaises ==
    /\ cursor # Sleeping /\ ~Running /\ outcome # NoTurn
    /\ trouble[cursor] \in {"down", "unlinked"}
    /\ GoOn
    /\ TakeOutcome
    /\ raised' = raised + 1
    /\ UNCHANGED <<ready, trouble, linked, remaining, elapsed>>

DaemonStep ==
    \/ BeginTick \/ EndTick \/ TurnTaken \/ TurnRaises
    \/ \E p \in ProjectIds : Raises(p) \/ NothingDispatched(p) \/ Dispatches(p)

\* A turn goes on.  Time is counted while the daemon waits for it.
ClientMoves == ClientStep /\ UNCHANGED pollVars
ServerMoves == ServerStep /\ UNCHANGED pollVars
Clock ==
    /\ TimePasses
    /\ elapsed' = elapsed + 1
    /\ UNCHANGED <<ready, trouble, linked, cursor, remaining, raised>>

\* People make items ready, for as long as they like, and trouble comes and goes.
WorkArrives(p) ==
    /\ ~ready[p]
    /\ ready' = [ready EXCEPT ![p] = TRUE]
    /\ UNCHANGED <<turnVars, trouble, linked, cursor, remaining, elapsed, raised>>

TroubleChanges(p) ==
    /\ \E what \in Troubles \ {trouble[p]} : trouble' = [trouble EXCEPT ![p] = what]
    /\ Cardinality({q \in ProjectIds : trouble'[q] # "none"}) <= MaxTroubled
    /\ UNCHANGED <<turnVars, ready, linked, cursor, remaining, elapsed, raised>>

Next ==
    \/ DaemonStep \/ ClientMoves \/ ServerMoves \/ Clock
    \/ \E p \in ProjectIds : WorkArrives(p) \/ TroubleChanges(p)

Spec == Init /\ [][Next]_vars

\* The daemon's thread runs, and so does time.  Nothing is asked of the server.
Fairness == WF_vars(DaemonStep) /\ WF_vars(ClientMoves) /\ WF_vars(Clock)

FairSpec == Spec /\ Fairness

-----------------------------------------------------------------------------
(* Properties *)

PollTypeOK ==
    /\ ready \in [ProjectIds -> BOOLEAN] /\ trouble \in [ProjectIds -> Troubles]
    /\ linked \subseteq ProjectIds
    /\ cursor \in 0..(Projects + 1) /\ remaining \in 0..Limit /\ elapsed \in Nat
    /\ raised \in 0..Projects

TypeOK == TurnTypeOK /\ PollTypeOK

\* A turn is four reads: three answers, each taken before its deadline, and the last
\* read up to its deadline.
TurnTime == 3 * (Timeout - 1) + Timeout

\* Whatever the App Servers do, and however much they talk, a tick takes no longer than
\* Limit turns of about four timeouts each, and one for each run that raised after its
\* turn; and no project has more than one turn.  So long a project may wait to be polled.
TickBounded ==
    elapsed <= (Limit + raised) * TurnTime /\ elapsed <= Projects * TurnTime

CutOff(p) == cursor \in 1..p /\ ~BudgetLeft

\* The budget is never spent before the first Limit projects have been polled: one
\* of them can take no more than its own share.
FirstAreNotCutOff == \A p \in ProjectIds : p <= Limit /\ cursor = p => remaining > 0

\* An item that is ready is dispatched or settled, whatever happens to the turns and
\* the ticks of other projects, unless its own project is in trouble, or it is behind
\* the first Limit projects and these use up the budget of the tick.
Served ==
    \A p \in ProjectIds :
        ready[p] ~> (~ready[p] \/ trouble[p] # "none" \/ (p > Limit /\ CutOff(p)))

=============================================================================
