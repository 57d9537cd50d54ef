---------------------------- MODULE PollingProofs ----------------------------
(***************************************************************************)
(* Theorems about Polling, for every number of projects, every Limit and   *)
(* every Timeout: its type, what an outcome of a turn means, and the two   *)
(* sides of a tick's budget, how much it may take and whom it never cuts   *)
(* off.                                                                    *)
(***************************************************************************)
EXTENDS Polling, AppServerProofs, TLAPS

-----------------------------------------------------------------------------
(* The inductive invariant *)

\* A turn belongs to a project in hand, and has a share of the budget.  Each project
\* before it has had one turn at most, of the budget or not.
BudgetInv ==
    /\ Running \/ outcome # NoTurn => cursor \in ProjectIds /\ remaining > 0
    /\ cursor # Sleeping => Limit + raised < cursor + remaining

\* The time that the turn in hand has taken at most: a read before this one has been
\* over a tick before its deadline.
Spent ==
    IF Running THEN (step - 1) * (Timeout - 1) + (Timeout - left)
    ELSE IF outcome # NoTurn THEN TurnTime ELSE 0

\* The turns of this tick that are over: each has taken one of the budget, or raised.
Turns == (Limit - remaining) + raised

TimeInv ==
    IF cursor = Sleeping THEN elapsed = 0
    ELSE elapsed <= Turns * TurnTime + Spent

IInv == TurnInv /\ PollTypeOK /\ BudgetInv /\ TimeInv

-----------------------------------------------------------------------------
(* Arithmetic *)

LEMMA TurnTimeType == TurnTime \in Nat
BY AppServerAssumption DEF TurnTime

LEMMA OneMoreTurn ==
    ASSUME NEW n \in Nat, NEW k \in Nat
    PROVE  n * k \in Nat /\ (n + 1) * k = n * k + k
OBVIOUS

LEMMA MoreTurns ==
    ASSUME NEW m \in Nat, NEW n \in Nat, m <= n, NEW k \in Nat
    PROVE  m * k <= n * k
OBVIOUS

LEMMA TurnsType ==
    ASSUME PollTypeOK
    PROVE  Turns \in Nat /\ Turns * TurnTime \in Nat
<1>1. Turns \in Nat
  BY PollingAssumption DEF PollTypeOK, Turns
<1> QED
  BY <1>1, TurnTimeType, OneMoreTurn

\* What Spent is in each read, and that it is bounded by TurnTime.
LEMMA SpentInRead ==
    ASSUME TurnTypeOK, Running
    PROVE  /\ step \in 1..4
           /\ Spent = (step - 1) * (Timeout - 1) + (Timeout - left)
           /\ (step - 1) * (Timeout - 1) \in Nat
           /\ Spent \in Nat /\ Spent <= TurnTime
<1>1. step \in 1..4
  BY DEF TurnTypeOK, Running, Steps, Requests, Idle, Waiting
<1>2. left \in 0..Timeout /\ Timeout \in Nat \ {0}
  BY AppServerAssumption DEF TurnTypeOK
<1>3. (step - 1) * (Timeout - 1) \in Nat /\ (step - 1) * (Timeout - 1) <= 3 * (Timeout - 1)
  <2>1. CASE step = 1
    BY <1>2, <2>1
  <2>2. CASE step = 2
    BY <1>2, <2>2
  <2>3. CASE step = 3
    BY <1>2, <2>3
  <2>4. CASE step = 4
    BY <1>2, <2>4
  <2> QED
    BY <1>1, <2>1, <2>2, <2>3, <2>4
<1> QED
  BY <1>1, <1>2, <1>3 DEF Spent, TurnTime

LEMMA SpentAlways ==
    ASSUME TurnTypeOK
    PROVE  Spent \in Nat /\ Spent <= TurnTime
<1>1. CASE Running
  BY <1>1, SpentInRead
<1>2. CASE ~Running
  BY <1>2, TurnTimeType DEF Spent
<1> QED
  BY <1>1, <1>2

-----------------------------------------------------------------------------
LEMMA InitInv == Init => IInv
<1> SUFFICES ASSUME Init
             PROVE  IInv
  OBVIOUS
<1>1. lines \in Seq(Lines) /\ DOMAIN lines = {}
  BY DEF Init, TurnInit
<1>2. TurnTypeOK
  <2>1. left \in 0..Timeout /\ talked \in 0..MaxTalk /\ answered \in 0..3
    BY AppServerAssumption DEF Init, TurnInit
  <2> QED
    BY <1>1, <2>1 DEF Init, TurnInit, TurnTypeOK, Steps, Outcomes
<1>3. ProcessInv /\ ServerInv /\ OrderInv /\ OutcomeIsServers /\ EndIsNotMissed
  BY <1>1 DEF Init, TurnInit, ProcessInv, ServerInv, OrderInv, OutcomeIsServers,
              EndIsNotMissed, Requests, Idle, Waiting, NoTurn
<1>4. PollTypeOK
  BY PollingAssumption DEF Init, PollTypeOK, Troubles, Sleeping
<1>5. BudgetInv /\ TimeInv
  BY DEF Init, TurnInit, BudgetInv, TimeInv, Running, Sleeping
<1> QED
  BY <1>2, <1>3, <1>4, <1>5 DEF IInv, TurnInv

-----------------------------------------------------------------------------
(* The steps of a turn *)

LEMMA ClientMovesInv ==
    ASSUME IInv, ClientMoves
    PROVE  IInv'
<1> USE DEF IInv
<1>1. TurnInv' /\ ClientStep /\ TurnTypeOK /\ TurnTypeOK' /\ UNCHANGED pollVars
  BY ClientKeeps DEF ClientMoves, TurnInv
<1>2. PollTypeOK' /\ UNCHANGED <<ready, trouble, linked, cursor, remaining, elapsed, raised>>
  BY <1>1 DEF PollTypeOK, pollVars
<1>3. Running /\ outcome = NoTurn /\ cursor \in ProjectIds /\ remaining > 0
  BY <1>1, ClientAdvances DEF BudgetInv, Running
<1>4. BudgetInv'
  BY <1>2, <1>3 DEF BudgetInv
<1>5. Spent \in Nat /\ Spent <= TurnTime /\ step \in 1..4
      /\ (step - 1) * (Timeout - 1) \in Nat
      /\ Spent = (step - 1) * (Timeout - 1) + (Timeout - left)
  BY <1>1, <1>3, SpentInRead
<1>6. Spent' \in Nat /\ Spent <= Spent'
  <2>1. CASE UNCHANGED <<step, outcome, left>>
    BY <1>5, <2>1 DEF Spent, Running
  <2>2. CASE step \in Requests /\ left > 0 /\ step' = step + 1 /\ left' = Timeout /\ outcome' = outcome
    <3>1. Running' /\ Spent' = step * (Timeout - 1) + 0
      <4>1. step' # Idle /\ step' - 1 = step
        BY <2>2 DEF Requests, Idle
      <4>2. Timeout - left' = 0
        BY <2>2, AppServerAssumption
      <4>3. Spent' = (step' - 1) * (Timeout - 1) + (Timeout - left')
        BY <4>1 DEF Spent, Running
      <4> QED
        BY <4>1, <4>2, <4>3 DEF Running
    <3>2. Timeout \in Nat /\ left \in 1..Timeout
      BY <1>1, <2>2, AppServerAssumption DEF TurnTypeOK
    <3>3. step * (Timeout - 1) = (step - 1) * (Timeout - 1) + (Timeout - 1)
      <4>1. CASE step = 1
        BY <3>2, <4>1
      <4>2. CASE step = 2
        BY <3>2, <4>2
      <4>3. CASE step = 3
        BY <3>2, <4>3
      <4> QED
        BY <2>2, <4>1, <4>2, <4>3 DEF Requests
    <3> QED
      BY <1>5, <3>1, <3>2, <3>3
  <2>3. CASE step' = Idle /\ outcome' \in Outcomes \ {NoTurn}
    <3>1. Spent' = TurnTime
      BY <2>3 DEF Spent, Running, TurnTime
    <3> QED
      BY <1>5, <3>1, TurnTimeType
  <2> QED
    BY <1>1, <2>1, <2>2, <2>3, ClientAdvances
<1>7. TimeInv'
  <2>1. elapsed <= Turns * TurnTime + Spent /\ cursor # Sleeping
    BY <1>3 DEF TimeInv, ProjectIds, Sleeping
  <2>2. Turns * TurnTime \in Nat /\ elapsed \in Nat
    BY TurnsType DEF PollTypeOK
  <2>3. elapsed <= Turns * TurnTime + Spent'
    BY <1>5, <1>6, <2>1, <2>2
  <2>4. TurnTime' = TurnTime /\ Turns' = Turns
    BY <1>2 DEF TurnTime, Turns
  <2> QED
    BY <1>2, <2>1, <2>3, <2>4 DEF TimeInv
<1> QED
  BY <1>1, <1>2, <1>4, <1>7

LEMMA ServerMovesInv ==
    ASSUME IInv, ServerMoves
    PROVE  IInv'
<1> USE DEF IInv
<1>1. TurnInv' /\ UNCHANGED <<ready, trouble, linked, cursor, remaining, elapsed, raised>>
  BY ServerKeeps DEF ServerMoves, pollVars
<1>2. UNCHANGED <<step, outcome, left>>
  BY DEF ServerMoves, ServerStep, ServerAnswers, ServerTalks, ServerEndsTurn, ServerExits, Says
<1>3. Spent' = Spent
  BY <1>2 DEF Spent, Running, TurnTime
<1>4. PollTypeOK' /\ BudgetInv'
  BY <1>1, <1>2 DEF PollTypeOK, BudgetInv, Running
<1>5. TimeInv'
  BY <1>1, <1>3 DEF TimeInv, TurnTime, Turns
<1> QED
  BY <1>1, <1>4, <1>5

LEMMA ClockInv ==
    ASSUME IInv, Clock
    PROVE  IInv'
<1> USE DEF IInv
<1>1. /\ TurnInv' /\ TurnTypeOK /\ TurnTypeOK' /\ Running /\ Running' /\ left > 0
      /\ left' = left - 1 /\ elapsed' = elapsed + 1
      /\ UNCHANGED <<step, outcome, ready, trouble, linked, cursor, remaining, raised>>
  BY TimeInTurn DEF Clock, TimePasses, TurnInv, Running
<1>2. PollTypeOK' /\ BudgetInv'
  BY <1>1 DEF PollTypeOK, BudgetInv
<1>3. Spent \in Nat /\ Spent' = Spent + 1
  <2>1. left \in 1..Timeout /\ Timeout \in Nat
    BY <1>1, AppServerAssumption DEF TurnTypeOK
  <2>2. (step - 1) * (Timeout - 1) \in Nat
    BY <1>1, <2>1, SpentInRead
  <2>3. Spent' = (step - 1) * (Timeout - 1) + (Timeout - (left - 1))
    BY <1>1 DEF Spent
  <2> QED
    BY <1>1, <2>1, <2>2, <2>3, SpentInRead
<1>4. TimeInv'
  <2>1. elapsed <= Turns * TurnTime + Spent /\ cursor # Sleeping
    BY <1>1 DEF BudgetInv, TimeInv, ProjectIds, Sleeping
  <2>2. Turns * TurnTime \in Nat /\ elapsed \in Nat
    BY TurnsType DEF PollTypeOK
  <2>3. elapsed + 1 <= Turns * TurnTime + Spent'
    BY <1>3, <2>1, <2>2
  <2>4. TurnTime' = TurnTime /\ Turns' = Turns
    BY <1>1 DEF TurnTime, Turns
  <2> QED
    BY <1>1, <2>1, <2>3, <2>4 DEF TimeInv
<1> QED
  BY <1>1, <1>2, <1>4

-----------------------------------------------------------------------------
(* The steps of the daemon *)

LEMMA BeginTickInv ==
    ASSUME IInv, BeginTick
    PROVE  IInv'
<1> USE DEF IInv
<1>1. TurnInv' /\ ~Running' /\ outcome' = NoTurn
  BY TurnStutters DEF BeginTick, turnVars, BudgetInv, ProjectIds, Sleeping, Running
<1>2. PollTypeOK'
  BY PollingAssumption DEF BeginTick, PollTypeOK, ProjectIds
<1>3. BudgetInv'
  BY <1>1, PollingAssumption DEF BeginTick, BudgetInv, Sleeping
<1>4. TimeInv'
  <2>1. Turns' = 0 /\ 0 * TurnTime = 0
    BY PollingAssumption, TurnTimeType DEF BeginTick, Turns
  <2>2. elapsed' = 0 /\ Spent' = 0 /\ TurnTime' = TurnTime
    BY <1>1 DEF BeginTick, Spent, TurnTime
  <2> QED
    BY <2>1, <2>2 DEF TimeInv
<1> QED
  BY <1>1, <1>2, <1>3, <1>4

LEMMA EndTickInv ==
    ASSUME IInv, EndTick
    PROVE  IInv'
<1> USE DEF IInv
<1>1. ~Running /\ outcome = NoTurn
  BY PollingAssumption DEF EndTick, Polls, BudgetInv, PollTypeOK, ProjectIds, BudgetLeft
<1>2. TurnInv' /\ ~Running' /\ outcome' = NoTurn
  BY <1>1, TurnStutters DEF EndTick, turnVars, Running
<1>3. PollTypeOK'
  BY PollingAssumption DEF EndTick, PollTypeOK, Sleeping
<1>4. BudgetInv' /\ TimeInv'
  BY <1>2 DEF EndTick, BudgetInv, TimeInv, Sleeping
<1> QED
  BY <1>2, <1>3, <1>4

\* The next project is taken in hand, without a turn.
LEMMA NextProjectInv ==
    ASSUME IInv, NEW p \in ProjectIds, Polls(p), BudgetLeft, cursor' = cursor + 1,
           ready' \in [ProjectIds -> BOOLEAN],
           UNCHANGED <<turnVars, trouble, linked, remaining, elapsed, raised>>
    PROVE  IInv'
<1> USE DEF IInv
<1>1. TurnInv' /\ ~Running' /\ outcome' = NoTurn
  BY TurnStutters DEF turnVars, Polls, Running
<1>2. cursor \in ProjectIds /\ cursor' \in 2..(Projects + 1)
  BY PollingAssumption DEF Polls, ProjectIds
<1>3. PollTypeOK'
  BY <1>2, PollingAssumption DEF PollTypeOK
<1>4. BudgetInv'
  BY <1>1, <1>2, PollingAssumption DEF BudgetInv, PollTypeOK, ProjectIds, Sleeping
<1>5. TimeInv'
  <2>1. Spent' = Spent /\ TurnTime' = TurnTime /\ Turns' = Turns
    BY DEF Spent, Running, TurnTime, Turns, turnVars
  <2> QED
    BY <1>2, <2>1 DEF TimeInv, ProjectIds, Sleeping
<1> QED
  BY <1>1, <1>3, <1>4, <1>5

LEMMA RaisesInv ==
    ASSUME IInv, NEW p \in ProjectIds, Raises(p)
    PROVE  IInv'
BY NextProjectInv DEF IInv, Raises, GoOn, PollTypeOK

LEMMA NothingDispatchedInv ==
    ASSUME IInv, NEW p \in ProjectIds, NothingDispatched(p)
    PROVE  IInv'
<1>1. ready' \in [ProjectIds -> BOOLEAN]
  BY DEF IInv, NothingDispatched, PollTypeOK
<1> QED
  BY <1>1, NextProjectInv DEF NothingDispatched

LEMMA DispatchesInv ==
    ASSUME IInv, NEW p \in ProjectIds, Dispatches(p)
    PROVE  IInv'
<1> USE DEF IInv
<1>1. TurnInv' /\ TurnTypeOK'
  BY FreshTurn DEF Dispatches, TurnInv
<1>2. cursor = p /\ remaining > 0 /\ UNCHANGED <<cursor, remaining, elapsed, raised>>
  BY DEF Dispatches, Polls, BudgetLeft
<1>3. PollTypeOK'
  BY <1>2 DEF Dispatches, PollTypeOK
<1>4. BudgetInv'
  BY <1>2 DEF BudgetInv
<1>5. TimeInv'
  <2>1. Spent = 0 /\ TurnTime' = TurnTime /\ Turns' = Turns /\ cursor # Sleeping
    BY <1>2 DEF Dispatches, Polls, Spent, TurnTime, Turns, ProjectIds, Sleeping
  <2>2. Spent' \in Nat
    <3>1. CASE Reset(1, "up", Timeout, NoTurn)
      <4>1. Spent' = (1 - 1) * (Timeout - 1) + (Timeout - Timeout)
        BY <3>1 DEF Reset, Spent, Running, Idle
      <4> QED
        BY <4>1, AppServerAssumption
    <3>2. CASE Reset(Idle, "off", 0, "error")
      BY <3>2, <2>1, TurnTimeType DEF Reset, Spent, Running, NoTurn
    <3> QED
      BY <3>1, <3>2 DEF Dispatches, StartTurn
  <2>3. elapsed <= Turns * TurnTime
    BY <2>1, TurnsType DEF TimeInv
  <2>4. Turns * TurnTime \in Nat /\ elapsed \in Nat
    BY TurnsType DEF PollTypeOK
  <2>5. elapsed <= Turns * TurnTime + Spent'
    BY <2>2, <2>3, <2>4
  <2> QED
    BY <1>2, <2>1, <2>5 DEF TimeInv
<1> QED
  BY <1>1, <1>3, <1>4, <1>5

\* A turn is over, and has taken one of the budget or raised.
LEMMA TurnOverInv ==
    ASSUME IInv, TurnTaken \/ TurnRaises
    PROVE  IInv'
<1> USE DEF IInv
<1>1. TurnInv' /\ ~Running' /\ outcome' = NoTurn
  BY FreshTurn DEF TurnTaken, TurnRaises, TakeOutcome, Reset, Running
<1>2. /\ cursor \in ProjectIds /\ remaining \in 1..Limit /\ raised \in Nat
      /\ cursor' = cursor + 1 /\ elapsed' = elapsed
      /\ \/ remaining' = remaining - 1 /\ raised' = raised
         \/ remaining' = remaining /\ raised' = raised + 1
  BY DEF TurnTaken, TurnRaises, GoOn, BudgetInv, PollTypeOK
<1>3. Limit + raised < cursor + remaining /\ Turns < cursor
  BY <1>2, PollingAssumption DEF BudgetInv, Turns, ProjectIds, Sleeping
<1>4. raised' \in 0..Projects
  BY <1>2, <1>3, PollingAssumption DEF ProjectIds
<1>5. PollTypeOK'
  <2>1. cursor' \in 0..(Projects + 1) /\ remaining' \in 0..Limit
    BY <1>2, PollingAssumption DEF ProjectIds
  <2>2. UNCHANGED <<ready, trouble, linked>> /\ elapsed' \in Nat
    BY <1>2 DEF TurnTaken, TurnRaises, PollTypeOK
  <2> QED
    BY <1>4, <2>1, <2>2 DEF PollTypeOK
<1>6. BudgetInv'
  BY <1>1, <1>2, <1>3, PollingAssumption DEF BudgetInv, ProjectIds, Sleeping
<1>7. TimeInv'
  <2>1. cursor # Sleeping /\ cursor' # Sleeping
    BY <1>2 DEF ProjectIds, Sleeping
  <2>2. Spent = TurnTime /\ Spent' = 0 /\ TurnTime' = TurnTime
    BY <1>1 DEF TurnTaken, TurnRaises, Spent, TurnTime
  <2>3. Turns' = Turns + 1
    BY <1>2, PollingAssumption DEF Turns
  <2>4. elapsed <= Turns * TurnTime + TurnTime
    BY <2>1, <2>2 DEF TimeInv
  <2>5. elapsed <= (Turns + 1) * TurnTime /\ (Turns + 1) * TurnTime \in Nat
    BY <2>4, TurnsType, OneMoreTurn, TurnTimeType
  <2> QED
    BY <1>2, <2>1, <2>2, <2>3, <2>5 DEF TimeInv
<1> QED
  BY <1>1, <1>5, <1>6, <1>7

\* What other people do leaves the turn and the tick alone.
LEMMA PeopleInv ==
    ASSUME IInv, NEW p \in ProjectIds, WorkArrives(p) \/ TroubleChanges(p)
    PROVE  IInv'
<1> USE DEF IInv
<1>1. UNCHANGED <<turnVars, linked, cursor, remaining, elapsed, raised>>
  BY DEF WorkArrives, TroubleChanges
<1>2. ready' \in [ProjectIds -> BOOLEAN] /\ trouble' \in [ProjectIds -> Troubles]
  BY DEF WorkArrives, TroubleChanges, PollTypeOK
<1>3. TurnInv' /\ Spent' = Spent /\ UNCHANGED <<step, outcome>>
  BY <1>1, TurnStutters DEF turnVars, Spent, Running, TurnTime
<1>4. PollTypeOK' /\ BudgetInv' /\ TimeInv'
  BY <1>1, <1>2, <1>3 DEF PollTypeOK, BudgetInv, TimeInv, Running, TurnTime, Turns
<1> QED
  BY <1>3, <1>4

LEMMA StutterInv ==
    ASSUME IInv, UNCHANGED vars
    PROVE  IInv'
<1> USE DEF IInv
<1>1. TurnInv' /\ Spent' = Spent /\ UNCHANGED <<step, outcome>>
  BY TurnStutters DEF vars, turnVars, Spent, Running, TurnTime
<1> QED
  BY <1>1 DEF vars, pollVars, PollTypeOK, BudgetInv, TimeInv, Running, TurnTime, Turns

LEMMA NextInv == IInv /\ [Next]_vars => IInv'
<1> SUFFICES ASSUME IInv, [Next]_vars
             PROVE  IInv'
  OBVIOUS
<1>1. CASE DaemonStep
  BY <1>1, BeginTickInv, EndTickInv, TurnOverInv, RaisesInv, NothingDispatchedInv, DispatchesInv
     DEF DaemonStep
<1>2. CASE ClientMoves
  BY <1>2, ClientMovesInv
<1>3. CASE ServerMoves
  BY <1>3, ServerMovesInv
<1>4. CASE Clock
  BY <1>4, ClockInv
<1>5. CASE \E p \in ProjectIds : WorkArrives(p) \/ TroubleChanges(p)
  BY <1>5, PeopleInv
<1>6. CASE UNCHANGED vars
  BY <1>6, StutterInv
<1> QED
  BY <1>1, <1>2, <1>3, <1>4, <1>5, <1>6 DEF Next

LEMMA InvariantHolds == Spec => []IInv
<1> QED
  BY InitInv, NextInv, PTL DEF Spec

-----------------------------------------------------------------------------
(* The theorems *)

\* The variables keep their types, whatever the App Servers and the people do.
THEOREM TypeCorrect == Spec => []TypeOK
<1>1. IInv => TypeOK
  BY DEF IInv, TurnInv, TypeOK
<1> QED
  BY <1>1, InvariantHolds, PTL

\* run_turn reports a turn as completed or failed only if the server ended it so after
\* its answers.
THEOREM OutcomesAreReal == Spec => []OutcomeIsServers
<1>1. IInv => OutcomeIsServers
  BY DEF IInv, TurnInv
<1> QED
  BY <1>1, InvariantHolds, PTL

\* run_turn never goes on waiting for an end of the turn that it has thrown away,
\* unless the server ended the turn before it answered turn/start.
THEOREM EndsAreNotMissed == Spec => []EndIsNotMissed
<1>1. IInv => EndIsNotMissed
  BY DEF IInv, TurnInv
<1> QED
  BY <1>1, InvariantHolds, PTL

\* A tick of the daemon takes no longer than Limit turns of about four timeouts each,
\* and one for each run that raised after its turn; nor longer than one for each project.
THEOREM TickEnds == Spec => []TickBounded
<1>1. IInv => TickBounded
  <2> SUFFICES ASSUME IInv
               PROVE  TickBounded
    OBVIOUS
  <2>1. /\ elapsed \in Nat /\ remaining \in 0..Limit /\ raised \in Nat /\ cursor \in 0..(Projects + 1)
        /\ Limit \in Nat /\ Projects \in Nat /\ Turns \in Nat /\ Turns * TurnTime \in Nat
    BY PollingAssumption, TurnsType DEF IInv, PollTypeOK
  <2>2. ASSUME NEW n \in Nat, n <= Limit + raised, n <= Projects, elapsed <= n * TurnTime
        PROVE  TickBounded
    <3>1. n * TurnTime \in Nat /\ (Limit + raised) * TurnTime \in Nat /\ Projects * TurnTime \in Nat
      BY <2>1, OneMoreTurn, TurnTimeType
    <3>2. n * TurnTime <= (Limit + raised) * TurnTime /\ n * TurnTime <= Projects * TurnTime
      BY <2>1, <2>2, MoreTurns, TurnTimeType
    <3> QED
      BY <2>1, <2>2, <3>1, <3>2 DEF TickBounded
  <2>3. CASE cursor = Sleeping
    <3>1. elapsed = 0 /\ 0 * TurnTime = 0
      BY <2>3, TurnTimeType DEF IInv, TimeInv
    <3> QED
      BY <2>1, <2>2, <3>1
  <2>4. CASE cursor # Sleeping /\ ~Running /\ outcome = NoTurn
    <3>1. Turns <= Limit + raised /\ Turns <= Projects
      BY <2>1, <2>4 DEF IInv, BudgetInv, Turns
    <3>2. elapsed <= Turns * TurnTime
      BY <2>1, <2>4 DEF IInv, TimeInv, Spent
    <3> QED
      BY <2>1, <2>2, <3>1, <3>2
  <2>5. CASE cursor # Sleeping /\ (Running \/ outcome # NoTurn)
    <3>1. Turns + 1 <= Limit + raised /\ Turns + 1 <= Projects
      BY <2>1, <2>5 DEF IInv, BudgetInv, Turns, ProjectIds
    <3>2. Spent \in Nat /\ Spent <= TurnTime
      BY SpentAlways DEF IInv, TurnInv
    <3>3. elapsed <= Turns * TurnTime + Spent
      BY <2>5 DEF IInv, TimeInv
    <3>4. elapsed <= (Turns + 1) * TurnTime
      BY <2>1, <3>2, <3>3, OneMoreTurn, TurnTimeType
    <3> QED
      BY <2>1, <2>2, <3>1, <3>4
  <2> QED
    BY <2>3, <2>4, <2>5
<1> QED
  BY <1>1, InvariantHolds, PTL

\* The budget of a tick is never spent before the first Limit projects have been polled.
THEOREM FirstProjectsArePolled == Spec => []FirstAreNotCutOff
<1>1. IInv => FirstAreNotCutOff
  BY PollingAssumption
     DEF IInv, PollTypeOK, BudgetInv, FirstAreNotCutOff, ProjectIds, Sleeping
<1> QED
  BY <1>1, InvariantHolds, PTL

=============================================================================
