---------------------------- MODULE TaskOrderProofs ----------------------------
(***************************************************************************)
(* That TaskGraph implements TaskOrder, and closes a request only with     *)
(* work done, for every value of the constants.                            *)
(***************************************************************************)
EXTENDS TaskGraphLimits, WellFoundedInduction

-----------------------------------------------------------------------------
(* What holds while no call fails and no handler thread is at work *)

\* People may move tasks, or the process may crash, but not both.
Calm == asked = 0 /\ faults = 0 /\ (moved = 0 \/ crashes = 0)

Waits(c) == State(c) = "Ready" \/ (crashes = 0 /\ State(c) \in {"Needs Input", "Backlog"})

\* An item has succeeded only with all the tasks it made, and has none while it
\* waits to be run.
TasksFollow ==
    /\ \A c \in Created : State(c) \in SuccessStates => Succeeded(TaskChildren(c))
    /\ \A c \in Created \ {Root} : Waits(c) => TaskChildren(c) = {}
    /\ State(Root) \in {"Ready", "Planning", "Human Review", "Done"}

\* What a planner proposes become children of its parent, never its own.
RowsFollow ==
    /\ \A c \in ItemIds :
          Has(c) /\ c # Root /\ Has(meta[c].parent) => meta[meta[c].parent].role # "planner"
    /\ pc[Daemon] \in MetaSteps => \A c \in ItemIds : Has(c) => meta[c].parent # my[Daemon].new

\* The daemon never runs the request itself, and the item it runs has no tasks yet
\* but those it has proposed, all of which were made.
HandFollows ==
    /\ my[Daemon].claim => my[Daemon].item # Root
    /\ my[Daemon].claim /\ my[Daemon].batch = <<>> => TaskChildren(my[Daemon].item) = {}
    /\ pc[Daemon] \in ProposeSteps \cup {"settle"} => NoParent \notin ToSet(my[Daemon].batch)
    /\ pc[Daemon] = "settle" /\ my[Daemon].batch # <<>> =>
          my[Daemon].parent = PlannerParent(my[Daemon].item)
    /\ pc[Daemon] \in DeliverSteps => Succeeded(TaskChildren(Root))
    /\ pc[Daemon] \in MetaSteps => State(my[Daemon].new) \in {"Ready", "Backlog"}
    /\ crashes = 0 => claims \subseteq {my[Daemon].item} /\ (claims # {} => my[Daemon].claim)

Follows == TasksFollow /\ RowsFollow /\ HandFollows
CalmInv == Calm => Follows

LEMMA RowsSame ==
  ASSUME UNCHANGED meta
  PROVE  /\ \A c : TaskChildren(c)' = TaskChildren(c)
         /\ \A c : Has(c)' = Has(c)
         /\ \A c : PlannerParent(c)' = PlannerParent(c)
BY DEF TaskChildren, Children, Has, PlannerParent

LEMMA TasksOf ==
  ASSUME Inv
  PROVE  /\ \A c \in ItemIds : TaskChildren(c) \subseteq Created \ {Root}
         /\ \A c \in ItemIds : TaskChildren(c) # {} => c \in Created
         /\ \A i \in ItemIds : Has(i) /\ items[i].kind # "delivery" => i \in TaskChildren(meta[i].parent)
         /\ \A c : \A i \in TaskChildren(c) : i \in ItemIds /\ Has(i) /\ meta[i].parent = c
         /\ Root \in Created /\ Created \subseteq ItemIds /\ Root \in ItemIds
<1>1. /\ \A i \in ItemIds : Has(i) => i \in Created /\ meta[i].role = RoleOf[items[i].kind]
      /\ \A i \in ItemIds : Has(i) /\ i # Root => meta[i].parent \in 1..(i - 1)
      /\ meta[Root].parent = NoParent
      /\ Root \in Created /\ Root # NoParent /\ Created \subseteq ItemIds /\ Root \in ItemIds
      /\ NoParent \notin ItemIds /\ Created = 1..Len(items) /\ Len(items) \in Nat
      /\ \A i \in Created : items[i].kind \in Kinds
  BY CreatedIsItem, RootIsItem DEF Inv, RowsInv, Item, NoParent, ItemIds
<1>2. \A k \in Kinds : RoleOf[k] = "delivery_manager" => k = "delivery"
  BY DEF RoleOf, Kinds
<1>3. \A c : \A i \in TaskChildren(c) : i \in ItemIds /\ Has(i) /\ meta[i].parent = c
  BY DEF TaskChildren, Children
<1>4. \A c \in ItemIds : TaskChildren(c) \subseteq Created \ {Root}
  BY <1>1, <1>3
<1>5. \A c \in ItemIds : TaskChildren(c) # {} => c \in Created
  <2> SUFFICES ASSUME NEW c \in ItemIds, NEW i \in TaskChildren(c) PROVE c \in Created
    OBVIOUS
  <2>1. i \in Created /\ c \in 1..(i - 1)
    BY <1>1, <1>3, <1>4
  <2> QED
    BY <1>1, <2>1
<1>6. \A i \in ItemIds : Has(i) /\ items[i].kind # "delivery" => i \in TaskChildren(meta[i].parent)
  BY <1>1, <1>2 DEF TaskChildren, Children
<1> QED
  BY <1>1, <1>3, <1>4, <1>5, <1>6

\* States change, but no item fails again, and one that succeeds or comes to wait
\* has no open tasks.
LEMMA StatesFollow ==
  ASSUME Inv, TasksFollow, UNCHANGED meta, Created' = Created,
         \A c \in Created : State(c) \in SuccessStates => State(c)' \in SuccessStates,
         \A c \in Created : State(c)' \in SuccessStates =>
            State(c) \in SuccessStates \/ Succeeded(TaskChildren(c)),
         \A c \in Created \ {Root} : Waits(c)' => Waits(c) \/ TaskChildren(c) = {},
         State(Root)' \in {"Ready", "Planning", "Human Review", "Done"}
  PROVE  TasksFollow'
<1>1. \A c \in Created : TaskChildren(c)' = TaskChildren(c) /\ TaskChildren(c) \subseteq Created
  BY RowsSame, TasksOf
<1>2. ASSUME NEW c \in Created, State(c)' \in SuccessStates
      PROVE  Succeeded(TaskChildren(c))'
  <2>1. Succeeded(TaskChildren(c))
    BY <1>2 DEF TasksFollow
  <2> QED
    BY <1>1, <2>1 DEF Succeeded
<1>3. \A c \in Created \ {Root} : Waits(c)' => TaskChildren(c)' = {}
  BY <1>1 DEF TasksFollow
<1> QED
  BY <1>2, <1>3 DEF TasksFollow

LEMMA SameFollow ==
  ASSUME TasksFollow, UNCHANGED <<items, meta, crashes>>
  PROVE  TasksFollow'
<1>1. \A c : TaskChildren(c)' = TaskChildren(c) /\ State(c)' = State(c)
  BY RowsSame DEF State
<1>2. Created' = Created
  BY DEF Created
<1>3. \A c : Succeeded(TaskChildren(c))' = Succeeded(TaskChildren(c))
  BY <1>1 DEF Succeeded
<1>4. \A c : Waits(c)' = Waits(c)
  BY <1>1 DEF Waits
<1> QED
  BY <1>1, <1>2, <1>3, <1>4 DEF TasksFollow

LEMMA NoFault ==
  ASSUME faults = 0, faults' = 0
  PROVE  ~Fault /\ \A S : ~RunRaises(Daemon, S)
BY DEF Fault, RunRaises

\* The item the daemon runs has an open parent.
LEMMA ParentIsOpen ==
  ASSUME Inv, Alone, Follows, my[Daemon].claim, NEW p \in Created, my[Daemon].item \in TaskChildren(p)
  PROVE  State(p) \notin SuccessStates /\ (p = Root \/ ~Waits(p))
<1>1. State(my[Daemon].item) \notin SuccessStates
  BY DEF Alone, SuccessStates
<1>2. ~Succeeded(TaskChildren(p)) /\ TaskChildren(p) # {}
  BY <1>1 DEF Succeeded
<1> QED
  BY <1>2 DEF Follows, TasksFollow

LEMMA FreshFacts == ~Fresh.claim /\ Fresh.batch = <<>> /\ Fresh.item = NoParent
BY DEF Fresh

\* Nothing is expected of a daemon that has no run in hand.
LEMMA HandsFree ==
  ASSUME pc'[Daemon] \in {"idle", "begin", "pick", "plan", "planMove"}, ~my'[Daemon].claim,
         crashes' = 0 => claims' = {}
  PROVE  HandFollows'
<1>1. (crashes = 0 => claims \subseteq {my[Daemon].item} /\ (claims # {} => my[Daemon].claim))'
  OBVIOUS
<1> QED
  BY <1>1 DEF HandFollows, ProposeSteps, DeliverSteps, MetaSteps

LEMMA FinishedRun ==
  ASSUME TypeOK, NEW s \in States, NEW S, NEW s2 \in States, FinishRun(Daemon, s, S, s2)
  PROVE  /\ Created' = Created
         /\ \A i \in Created : State(i)' = IF i = my[Daemon].item THEN s
                                           ELSE IF i \in S THEN s2 ELSE State(i)
BY DaemonIsThread, FinishRunFacts DEF StatesOnly

LEMMA FinishFollows ==
  ASSUME Inv, Alone, Follows, UNCHANGED crashes,
         NEW s \in {"Done", "Human Review", "Needs Input", "Planning"}, NEW S, NEW s2 \in States,
         FinishRun(Daemon, s, S, s2), s2 = "Planning" \/ S = {},
         my[Daemon].claim, s # "Planning" => TaskChildren(my[Daemon].item) = {},
         \A p \in S \cap Created : my[Daemon].item \in TaskChildren(p)
  PROVE  Follows'
<1>1. /\ UNCHANGED meta /\ pc'[Daemon] = "idle" /\ my'[Daemon] = Fresh
      /\ claims' = claims \ {my[Daemon].item}
  BY DaemonIsThread DEF FinishRun, Return, Goto, Inv, TypeOK
<1>2. /\ Created' = Created
      /\ \A i \in Created : State(i)' = IF i = my[Daemon].item THEN s
                                        ELSE IF i \in S THEN "Planning" ELSE State(i)
  <2>1. TypeOK /\ s \in States
    BY DEF Inv, States
  <2>2. /\ Created' = Created
        /\ \A i \in Created : State(i)' = IF i = my[Daemon].item THEN s
                                          ELSE IF i \in S THEN s2 ELSE State(i)
    BY <2>1, FinishedRun
  <2> QED
    BY <2>2
<1>3. my[Daemon].item # Root /\ State(my[Daemon].item) = "Running"
  BY DEF Follows, HandFollows, Alone
<1>4. \A p \in S \cap Created : State(p) \notin SuccessStates
  BY ParentIsOpen
<1>5. Succeeded({})
  BY DEF Succeeded
<1>6. TasksFollow'
  <2>1. \A c \in Created : State(c) \in SuccessStates => State(c)' \in SuccessStates
    BY <1>2, <1>3, <1>4 DEF SuccessStates
  <2>2. \A c \in Created : State(c)' \in SuccessStates =>
           State(c) \in SuccessStates \/ Succeeded(TaskChildren(c))
    BY <1>2, <1>5 DEF SuccessStates
  <2>3. \A c \in Created \ {Root} : Waits(c)' => Waits(c) \/ TaskChildren(c) = {}
    BY <1>2 DEF Waits
  <2>4. State(Root)' \in {"Ready", "Planning", "Human Review", "Done"}
    BY <1>2, <1>3, TasksOf DEF Follows, TasksFollow
  <2> QED
    BY <1>1, <1>2, <2>1, <2>2, <2>3, <2>4, StatesFollow DEF Follows
<1>7. RowsFollow'
  BY <1>1 DEF Follows, RowsFollow, Has, MetaSteps
<1>8. HandFollows'
  <2>1. crashes' = 0 => claims' = {}
    BY <1>1 DEF Follows, HandFollows
  <2>2. ~my'[Daemon].claim
    BY <1>1, FreshFacts
  <2> QED
    BY <1>1, <2>1, <2>2, HandsFree
<1> QED
  BY <1>6, <1>7, <1>8 DEF Follows

LEMMA ClaimFollows ==
  ASSUME Inv, Follows, UNCHANGED <<crashes, meta>>, NEW i \in Created, i # Root,
         Claim(Daemon, i), State(i) = "Ready", ~my[Daemon].claim
  PROVE  Follows'
<1>1. /\ pc'[Daemon] = "run" /\ my'[Daemon].item = i /\ my'[Daemon].claim
      /\ claims' = claims \cup {i}
  <2>1. my'[Daemon] = [Fresh EXCEPT !.item = i, !.claim = TRUE,
                                    !.planner = Planner(i), !.mode = RunMode(i)]
    BY DaemonIsThread DEF Claim, Inv, TypeOK
  <2> QED
    BY <2>1, DaemonIsThread DEF Claim, Goto, Inv, TypeOK, Fresh
<1>2. Created' = Created /\ \A j \in Created : State(j)' = IF j = i THEN "Running" ELSE State(j)
  <2>1. TypeOK /\ "Running" \in States /\ Moved({i}, "Running")
    BY DEF Inv, States, Claim
  <2>2. StatesOnly /\ \A j \in Created : State(j)' = IF j \in {i} THEN "Running" ELSE State(j)
    BY <2>1, MovedFacts
  <2> QED
    BY <2>2 DEF StatesOnly
<1>3. TaskChildren(i) = {}
  BY DEF Follows, TasksFollow, Waits
<1>4. TasksFollow'
  <2>1. \A c \in Created : State(c) \in SuccessStates <=> State(c)' \in SuccessStates
    BY <1>2 DEF SuccessStates
  <2>2. \A c \in Created \ {Root} : Waits(c)' => Waits(c)
    BY <1>2 DEF Waits
  <2>3. State(Root)' \in {"Ready", "Planning", "Human Review", "Done"}
    BY <1>2, TasksOf DEF Follows, TasksFollow
  <2> QED
    BY <1>2, <2>1, <2>2, <2>3, StatesFollow DEF Follows
<1>5. RowsFollow'
  BY <1>1 DEF Follows, RowsFollow, Has, MetaSteps
<1>6. (TaskChildren(my[Daemon].item) = {})'
  BY <1>1, <1>3 DEF TaskChildren, Children, Has
<1>7. HandFollows'
  BY <1>1, <1>6 DEF Follows, HandFollows, ProposeSteps, DeliverSteps, MetaSteps
<1> QED
  BY <1>4, <1>5, <1>7 DEF Follows

\* A thread that held no claim is done: what it moved waits, or is the request, which
\* is closed after its tasks.
LEMMA ReturnFollows ==
  ASSUME Inv, Follows, UNCHANGED <<crashes, meta, claims>>, Return(Daemon), ~my[Daemon].claim,
         NEW S, NEW s \in {"Planning", "Done"}, UNCHANGED items \/ Moved(S, s),
         IF s = "Done" THEN S = {Root} /\ Succeeded(TaskChildren(Root))
         ELSE \A i \in S \cap Created : State(i) \notin SuccessStates
  PROVE  Follows'
<1>1. pc'[Daemon] = "idle" /\ my'[Daemon] = Fresh
  BY DaemonIsThread DEF Return, Goto, Inv, TypeOK
<1>2. Created' = Created /\ \A j \in Created : \/ State(j)' = State(j)
                                               \/ j \in S /\ State(j)' = s
  <2>1. TypeOK /\ s \in States
    BY DEF Inv, States
  <2>2. CASE Moved(S, s)
    <3>1. StatesOnly /\ \A j \in Created : State(j)' = IF j \in S THEN s ELSE State(j)
      BY <2>1, <2>2, MovedFacts
    <3> QED
      BY <3>1 DEF StatesOnly
  <2>3. CASE UNCHANGED items
    BY <2>3 DEF State, Created
  <2> QED
    BY <2>2, <2>3
<1>3. TasksFollow'
  <2>1. \A c \in Created : State(c) \in SuccessStates => State(c)' \in SuccessStates
    BY <1>2 DEF SuccessStates
  <2>2. \A c \in Created : State(c)' \in SuccessStates =>
           State(c) \in SuccessStates \/ Succeeded(TaskChildren(c))
    BY <1>2 DEF SuccessStates
  <2>3. \A c \in Created \ {Root} : Waits(c)' => Waits(c)
    BY <1>2 DEF Waits
  <2>4. State(Root)' \in {"Ready", "Planning", "Human Review", "Done"}
    BY <1>2, TasksOf DEF Follows, TasksFollow
  <2> QED
    BY <1>2, <2>1, <2>2, <2>3, <2>4, StatesFollow DEF Follows
<1>4. RowsFollow'
  BY <1>1 DEF Follows, RowsFollow, Has, MetaSteps
<1>5. HandFollows'
  BY <1>1 DEF Follows, HandFollows, Fresh, ProposeSteps, DeliverSteps, MetaSteps
<1> QED
  BY <1>3, <1>4, <1>5 DEF Follows

\* What the daemon has in hand when it makes items.
LEMMA WhatIsMade ==
  ASSUME Inv, ThreadStep(Daemon), Creates(Daemon)
  PROVE  \A i \in Created' \ Created :
            /\ items'[i].state \in {"Ready", "Backlog"}
            /\ items'[i].needs = IF pc[Daemon] = "propose" THEN ResolvedNeeds(Daemon, i) ELSE {}
<1>1. /\ pc[Daemon] \in CreateSteps /\ pc'[Daemon] \in MetaSteps
      /\ pc'[Daemon] \notin {"idle", "run", "settle", "propose", "closeRoot"}
  BY DEF Creates, CreateSteps, MetaStep, MetaSteps
<1>2. ASSUME NEW new \in [ItemIds -> Item], NEW then, NEW k, CreateItem(Daemon, new, then),
             \A i \in ItemIds : new[i].kind = k
      PROVE  \A i \in Created' \ Created : items'[i] = new[i] /\ i \in ItemIds
  <2>1. /\ Grown(k) /\ Created' = 1..Len(items')
        /\ \A i \in Created' \ Created : items'[i] = new[i]
    BY <1>2, DaemonIsThread, CreateItemFacts DEF Inv
  <2> QED
    BY <2>1, TaskGraphAssumption DEF Grown, ItemIds
<1>3. pc'[Daemon] # "idle" /\ pc'[Daemon] # "run" => ~RunItself(Daemon) /\ \A S : ~RunRaises(Daemon, S)
  BY DaemonIsThread DEF RunItself, RunRaises, FinishRun, Return, Claim, Goto, Inv, TypeOK
<1>4. CASE Deliver(Daemon)
  <2> DEFINE new == [id \in ItemIds |-> Plain("delivery", "Backlog")]
  <2>1. CreateItem(Daemon, new, "deliverMeta") /\ pc[Daemon] = "deliver"
    BY <1>1, <1>4, DaemonIsThread DEF Deliver, Goto, Inv, TypeOK
  <2>2. new \in [ItemIds -> Item] /\ \A i \in ItemIds : new[i] = Plain("delivery", "Backlog")
    BY DEF Plain, Item, Kinds, States
  <2>3. \A i \in ItemIds : /\ new[i].kind = "delivery" /\ new[i].state = "Backlog"
                           /\ new[i].needs = {}
    BY DEF Plain
  <2> HIDE DEF new
  <2>4. \A i \in Created' \ Created : items'[i] = new[i] /\ i \in ItemIds
    <3>1. PICK then, k : then = pc'[Daemon] /\ \A i \in ItemIds : new[i].kind = k
      BY <2>3
    <3>2. CreateItem(Daemon, new, then)
      BY <2>1, <3>1, DaemonIsThread DEF CreateItem, Set, Goto, Inv, TypeOK
    <3> QED
      BY <1>2, <2>2, <3>1, <3>2
  <2> QED
    BY <2>1, <2>3, <2>4
<1>5. CASE CreatePlanner(Daemon)
  <2> DEFINE new == [id \in ItemIds |-> Plain("planner", "Ready")]
  <2>1. CreateItem(Daemon, new, "planMeta") /\ pc[Daemon] = "plan"
    BY <1>1, <1>3, <1>5 DEF CreatePlanner
  <2>2. new \in [ItemIds -> Item] /\ \A i \in ItemIds : new[i] = Plain("planner", "Ready")
    BY DEF Plain, Item, Kinds, States
  <2>3. \A i \in ItemIds : /\ new[i].kind = "planner" /\ new[i].state = "Ready"
                           /\ new[i].needs = {}
    BY DEF Plain
  <2> HIDE DEF new
  <2>4. \A i \in Created' \ Created : items'[i] = new[i] /\ i \in ItemIds
    <3>1. PICK then, k : then = pc'[Daemon] /\ \A i \in ItemIds : new[i].kind = k
      BY <2>3
    <3>2. CreateItem(Daemon, new, then)
      BY <2>1, <3>1, DaemonIsThread DEF CreateItem, Set, Goto, Inv, TypeOK
    <3> QED
      BY <1>2, <2>2, <3>1, <3>2
  <2> QED
    BY <2>1, <2>3, <2>4
<1>6. CASE CreateTask(Daemon)
  <2> DEFINE new == [id \in ItemIds |->
                        [kind |-> "task", state |-> ProposalState(Daemon), depth |-> my[Daemon].depth,
                         needs |-> ResolvedNeeds(Daemon, id)]]
  <2>1. CreateItem(Daemon, new, "proposeMeta") /\ pc[Daemon] = "propose"
    BY <1>1, <1>6, DaemonIsThread DEF CreateTask, Proposing, Set, Goto, Inv, TypeOK
  <2>2. new \in [ItemIds -> Item] /\ ProposalState(Daemon) \in {"Ready", "Backlog"}
    <3>1. ProposalState(Daemon) \in {"Ready", "Backlog"} /\ my[Daemon].depth \in Nat
      BY DaemonIsThread DEF ProposalState, Inv, TypeOK, Locals
    <3>2. \A i \in ItemIds : ResolvedNeeds(Daemon, i) \subseteq ItemIds
      BY <1>6, DaemonIsThread, ResolvedNeedsAreMade DEF CreateTask, Proposing, ProposeSteps
    <3> QED
      BY <3>1, <3>2 DEF Item, Kinds, States
  <2>3. \A i \in ItemIds : /\ new[i].kind = "task" /\ new[i].state = ProposalState(Daemon)
                           /\ new[i].needs = ResolvedNeeds(Daemon, i)
    OBVIOUS
  <2> HIDE DEF new
  <2> QED
    BY <1>2, <2>1, <2>2, <2>3
<1>7. CASE CreateRepair(Daemon)
  <2> DEFINE new == [id \in ItemIds |-> Plain("repair", "Ready")]
  <2>1. CreateItem(Daemon, new, "repairMeta") /\ pc[Daemon] = "repair"
    BY <1>1, <1>3, <1>7 DEF CreateRepair
  <2>2. new \in [ItemIds -> Item] /\ \A i \in ItemIds : new[i] = Plain("repair", "Ready")
    BY DEF Plain, Item, Kinds, States
  <2>3. \A i \in ItemIds : /\ new[i].kind = "repair" /\ new[i].state = "Ready"
                           /\ new[i].needs = {}
    BY DEF Plain
  <2> HIDE DEF new
  <2>4. \A i \in Created' \ Created : items'[i] = new[i] /\ i \in ItemIds
    <3>1. PICK then, k : then = pc'[Daemon] /\ \A i \in ItemIds : new[i].kind = k
      BY <2>3
    <3>2. CreateItem(Daemon, new, then)
      BY <2>1, <3>1, DaemonIsThread DEF CreateItem, Set, Goto, Inv, TypeOK
    <3> QED
      BY <1>2, <2>2, <3>1, <3>2
  <2> QED
    BY <2>1, <2>3, <2>4
<1>8. ~Proposed(Daemon)
  BY <1>1, <1>3, DaemonIsThread DEF Proposed, Return, Goto, Inv, TypeOK
<1> QED
  BY <1>1, <1>4, <1>5, <1>6, <1>7, <1>8
  DEF ThreadStep, BeforeDispatch, BeginRunOnce, DeliverMeta, CloseRoot, NothingToDo, Pick, PlanStep,
      PlannerMeta, PlannerMove, RunStep, RunProposes, RunSucceeds, RunBlocked, TaskMeta, Settle,
      RepairMeta, RepairMove, CreateSteps

\* An item that has just been made has no tasks, and waits for its row.
LEMMA CreatesFollow ==
  ASSUME Inv, Follows, ThreadStep(Daemon), Creates(Daemon), UNCHANGED crashes
  PROVE  Follows'
<1>1. /\ UNCHANGED <<meta, claims>> /\ Created \subseteq Created'
      /\ my'[Daemon].new \in Created' \ Created
      /\ \A i \in Created : items'[i] = items[i]
  <2>1. /\ UNCHANGED <<meta, claims>> /\ Created' = 1..Len(items') /\ Created = 1..Len(items)
        /\ Len(items) \in Nat /\ Len(items') \in {Len(items) + 1, Len(items) + 2}
        /\ \A i \in Created : items'[i] = items[i]
    BY CreatedIsItem DEF Creates, Grown, Inv
  <2>2. my'[Daemon].new = Len(items')
    BY DaemonIsThread DEF Creates, Inv, TypeOK, Locals
  <2> QED
    BY <2>1, <2>2
<1>2. /\ my'[Daemon].item = my[Daemon].item /\ my'[Daemon].claim = my[Daemon].claim
      /\ my'[Daemon].batch = my[Daemon].batch
  BY DaemonIsThread DEF Creates, Inv, TypeOK, Locals
<1>3. \/ pc[Daemon] = "deliver" /\ pc'[Daemon] = "deliverMeta"
      \/ pc[Daemon] = "plan" /\ pc'[Daemon] = "planMeta"
      \/ pc[Daemon] = "propose" /\ pc'[Daemon] = "proposeMeta"
      \/ pc[Daemon] = "repair" /\ pc'[Daemon] = "repairMeta"
  BY DEF Creates, CreateSteps, MetaStep
<1>4. /\ \A c : TaskChildren(c)' = TaskChildren(c)
      /\ \A c \in ItemIds : TaskChildren(c) \subseteq Created /\ (TaskChildren(c) # {} => c \in Created)
      /\ Root \in Created /\ Created \subseteq ItemIds /\ Root \in ItemIds
  BY <1>1, RowsSame, TasksOf
<1>5. \A i \in Created' \ Created : /\ i \in ItemIds /\ State(i)' \in {"Ready", "Backlog"}
  <2>1. Created' \subseteq ItemIds
    BY TaskGraphAssumption DEF Creates, Grown, ItemIds
  <2> QED
    BY <2>1, WhatIsMade DEF State
<1>6. \A i \in Created : State(i)' = State(i)
  BY <1>1 DEF State
<1>7. \A c \in ItemIds : Succeeded(TaskChildren(c))' <=> Succeeded(TaskChildren(c))
  BY <1>4, <1>6 DEF Succeeded
<1>8. \A c \in Created' \ Created : TaskChildren(c) = {}
  BY <1>4, <1>5
<1>9. TasksFollow'
  <2>1. \A c \in Created' : State(c)' \in SuccessStates => Succeeded(TaskChildren(c))'
    <3> SUFFICES ASSUME NEW c \in Created', State(c)' \in SuccessStates
                 PROVE  c \in ItemIds /\ Succeeded(TaskChildren(c))
      BY <1>7
    <3>1. c \in Created
      BY <1>5 DEF SuccessStates
    <3> QED
      BY <1>4, <1>6, <3>1 DEF Follows, TasksFollow
  <2>2. \A c \in Created' \ {Root} : Waits(c)' => TaskChildren(c)' = {}
    BY <1>4, <1>6, <1>8 DEF Follows, TasksFollow, Waits
  <2>3. State(Root)' \in {"Ready", "Planning", "Human Review", "Done"}
    BY <1>4, <1>6 DEF Follows, TasksFollow
  <2> QED
    BY <2>1, <2>2, <2>3 DEF TasksFollow
<1>10. RowsFollow'
  <2>1. \A c \in ItemIds : Has(c) => meta[c].parent # my'[Daemon].new
    <3> SUFFICES ASSUME NEW c \in ItemIds, Has(c) PROVE meta[c].parent \in Created \cup {NoParent}
      BY <1>1, <1>5, RootIsItem DEF ItemIds, NoParent
    <3>1. c \in Created /\ (c # Root => meta[c].parent \in 1..(c - 1)) /\ (c = Root => meta[c].parent = NoParent)
      BY DEF Inv, RowsInv
    <3>2. Created = 1..Len(items) /\ Len(items) \in Nat
      BY CreatedIsItem DEF Inv
    <3> QED
      BY <3>1, <3>2
  <2> QED
    BY <1>1, <2>1 DEF Follows, RowsFollow, Has
<1>11. HandFollows'
  <2>1. (pc[Daemon] \in MetaSteps => State(my[Daemon].new) \in {"Ready", "Backlog"})'
    BY <1>1, <1>5 DEF State
  <2>2. (my[Daemon].claim => my[Daemon].item # Root)'
    BY <1>2 DEF Follows, HandFollows
  <2>3. (my[Daemon].claim /\ my[Daemon].batch = <<>> => TaskChildren(my[Daemon].item) = {})'
    BY <1>1, <1>2 DEF Follows, HandFollows, TaskChildren, Children, Has
  <2>4. (pc[Daemon] \in ProposeSteps \cup {"settle"} => NoParent \notin ToSet(my[Daemon].batch))'
    BY <1>2, <1>3 DEF Follows, HandFollows, ProposeSteps
  <2>5. (pc[Daemon] \in DeliverSteps => Succeeded(TaskChildren(Root)))'
    BY <1>3, <1>4, <1>7 DEF Follows, HandFollows, DeliverSteps
  <2>6. (crashes = 0 => claims \subseteq {my[Daemon].item} /\ (claims # {} => my[Daemon].claim))'
    BY <1>1, <1>2 DEF Follows, HandFollows
  <2> QED
    BY <1>3, <2>1, <2>2, <2>3, <2>4, <2>5, <2>6 DEF HandFollows
<1> QED
  BY <1>9, <1>10, <1>11 DEF Follows

\* A row is written for an item that has no tasks; its parent is open, and no planner
\* that is recorded as one.
LEMMA RecordFollows ==
  ASSUME Inv, Alone, Follows, pc[Daemon] \in MetaSteps, UNCHANGED <<items, claims, crashes>>,
         NEW role \in Roles, NEW parent, NEW depth, NEW mode, NEW deps,
         WriteMeta(Daemon, role, parent, depth, mode, deps),
         role = "delivery_manager" \/
            /\ parent \in Created => State(parent) \notin SuccessStates /\ (parent = Root \/ ~Waits(parent))
            /\ my[Daemon].claim /\ pc[Daemon] # "proposeMeta" => parent # my[Daemon].item,
         parent # my[Daemon].new, Has(parent) => meta[parent].role # "planner",
         \/ pc[Daemon] = "deliverMeta" /\ pc'[Daemon] = "closeRoot"
         \/ pc[Daemon] = "planMeta" /\ pc'[Daemon] = "planMove"
         \/ pc[Daemon] = "repairMeta" /\ pc'[Daemon] = "repairMove"
         \/ pc[Daemon] = "proposeMeta" /\ pc'[Daemon] = "propose",
         pc[Daemon] = "deliverMeta" => role = "delivery_manager",
         my'[Daemon].batch = IF pc[Daemon] = "proposeMeta" THEN Append(my[Daemon].batch, my[Daemon].new)
                             ELSE my[Daemon].batch,
         my'[Daemon].item = my[Daemon].item, my'[Daemon].claim = my[Daemon].claim
  PROVE  Follows'
<1>1. PICK n \in Created :
         /\ n = my[Daemon].new /\ n # NoParent /\ n # my[Daemon].item /\ n # Root /\ n \in ItemIds
         /\ ~Has(n)
         /\ \A i \in ItemIds \ {n} : meta'[i] = meta[i]
         /\ meta'[n].role = role /\ meta'[n].parent = parent
  <2>1. /\ my[Daemon].new \in Created /\ my[Daemon].new \in ItemIds /\ ~Has(my[Daemon].new)
        /\ \A i \in ItemIds \ {my[Daemon].new} : meta'[i] = meta[i]
        /\ meta'[my[Daemon].new].role = role /\ meta'[my[Daemon].new].parent = parent
    BY DaemonIsThread, NewRow
  <2>2. my[Daemon].item < my[Daemon].new
    BY DaemonIsThread DEF Inv, Hand, NewInHand
  <2>3. my[Daemon].item \in Nat /\ my[Daemon].new # NoParent
    BY <2>1, RootIsItem, DaemonIsThread DEF Inv, TypeOK, Locals, NoParent, ItemIds
  <2>4. Has(Root)
    BY DEF Inv, RowsInv
  <2> QED
    BY <2>1, <2>2, <2>3, <2>4
<1>2. \A i \in ItemIds \ {n} : Has(i)' = Has(i) /\ meta'[i] = meta[i]
  BY <1>1 DEF Has
<1>3. \A c : TaskChildren(c)' = TaskChildren(c) \/
             (c = parent /\ role # "delivery_manager" /\ TaskChildren(c)' = TaskChildren(c) \cup {n})
  BY <1>1, <1>2 DEF TaskChildren, Children, Has
<1>4. Created' = Created /\ \A i : State(i)' = State(i)
  BY DEF Created, State
<1>5. Root \in Created /\ Created \subseteq ItemIds /\ Root \in ItemIds
  BY TasksOf
<1>6. TasksFollow'
  <2>1. \A c \in Created : State(c) \in SuccessStates => TaskChildren(c)' = TaskChildren(c)
    BY <1>3
  <2>2. \A c \in Created \ {Root} : Waits(c) => TaskChildren(c)' = TaskChildren(c)
    BY <1>3
  <2>3. \A c \in Created' : State(c)' \in SuccessStates => Succeeded(TaskChildren(c))'
    BY <1>4, <2>1 DEF Follows, TasksFollow, Succeeded
  <2>4. \A c \in Created' \ {Root} : Waits(c)' => TaskChildren(c)' = {}
    BY <1>4, <2>2 DEF Follows, TasksFollow, Waits
  <2> QED
    BY <1>4, <1>5, <2>3, <2>4 DEF Follows, TasksFollow
<1>7. RowsFollow'
  <2>1. ASSUME NEW c \in ItemIds, Has(c)', c # Root, NEW p, p = meta'[c].parent, Has(p)'
        PROVE  meta'[p].role # "planner"
    <3>1. CASE c = n
      <4>1. p = parent /\ p # n
        BY <1>1, <2>1, <3>1
      <4>2. meta'[p] = meta[p]
        BY <1>1, <4>1 DEF WriteMeta, Inv, TypeOK
      <4> QED
        BY <2>1, <4>1, <4>2 DEF Has
    <3>2. CASE c # n
      <4>1. Has(c) /\ meta'[c] = meta[c] /\ p # n
        BY <1>1, <1>2, <2>1, <3>2 DEF Follows, RowsFollow
      <4>2. meta'[p] = meta[p]
        BY <1>1, <4>1 DEF WriteMeta, Inv, TypeOK
      <4> QED
        BY <2>1, <4>1, <4>2 DEF Has, Follows, RowsFollow
    <3> QED
      BY <3>1, <3>2
  <2>2. pc'[Daemon] \notin MetaSteps
    BY DEF MetaSteps
  <2> QED
    BY <2>1, <2>2 DEF RowsFollow, Has
<1>8. HandFollows'
  <2>1. (my[Daemon].claim => my[Daemon].item # Root)'
    BY DEF Follows, HandFollows
  <2>2. my[Daemon].batch \in Seq({NoParent} \cup ItemIds) /\ my[Daemon].new = n
    BY <1>1, DaemonIsThread DEF Inv, TypeOK, Locals
  <2>3. my[Daemon].claim /\ my'[Daemon].batch = <<>> =>
           \A j : j = my[Daemon].item => TaskChildren(j)' = {}
    <3> SUFFICES ASSUME my[Daemon].claim, my'[Daemon].batch = <<>>,
                        NEW j, j = my[Daemon].item
                 PROVE  TaskChildren(j)' = {}
      OBVIOUS
    <3>1. Append(my[Daemon].batch, my[Daemon].new) # <<>>
      <4>1. Len(Append(my[Daemon].batch, n)) = Len(my[Daemon].batch) + 1 /\ Len(my[Daemon].batch) \in Nat
        BY <1>1, <2>2
      <4>2. Len(<<>>) = 0
        OBVIOUS
      <4> QED
        BY <2>2, <4>1, <4>2
    <3>2. pc[Daemon] # "proposeMeta" /\ my[Daemon].batch = <<>>
      BY <3>1
    <3>3. role = "delivery_manager" \/ parent # j
      BY <3>2
    <3> QED
      BY <1>3, <3>2, <3>3 DEF Follows, HandFollows
  <2>4. (my[Daemon].claim /\ my[Daemon].batch = <<>> => TaskChildren(my[Daemon].item) = {})'
    BY <2>3 DEF TaskChildren, Children, Has
  <2>5. NoParent \notin ToSet(Append(my[Daemon].batch, n)) \/ NoParent \in ToSet(my[Daemon].batch)
    BY <1>1, <2>2 DEF ToSet
  <2>6. pc'[Daemon] \in ProposeSteps \cup {"settle"} => NoParent \notin ToSet(my'[Daemon].batch)
    BY <2>2, <2>5 DEF Follows, HandFollows, ProposeSteps
  <2>7. pc'[Daemon] \in DeliverSteps => Succeeded(TaskChildren(Root))'
    <3> SUFFICES ASSUME pc'[Daemon] \in DeliverSteps PROVE Succeeded(TaskChildren(Root))'
      OBVIOUS
    <3>1. pc[Daemon] = "deliverMeta" /\ role = "delivery_manager"
      BY DEF DeliverSteps
    <3> QED
      BY <1>3, <1>4, <3>1 DEF Follows, HandFollows, DeliverSteps, Succeeded
  <2>8. (crashes = 0 => claims \subseteq {my[Daemon].item} /\ (claims # {} => my[Daemon].claim))'
    BY DEF Follows, HandFollows
  <2>9. pc'[Daemon] \notin MetaSteps /\ pc'[Daemon] # "settle"
    BY DEF MetaSteps
  <2> QED
    BY <2>1, <2>4, <2>6, <2>7, <2>8, <2>9 DEF HandFollows
<1> QED
  BY <1>6, <1>7, <1>8 DEF Follows

LEMMA ProposeFollows ==
  ASSUME Inv, Alone, Follows, NEW i, NEW plan, NEW mode, NEW blocked,
         Propose(Daemon, i, plan, mode, blocked), pc[Daemon] \in {"pick", "run"},
         my[Daemon].claim => i = my[Daemon].item, UNCHANGED <<items, meta, claims, crashes>>
  PROVE  Follows'
<1>1. /\ pc'[Daemon] = "propose" /\ my'[Daemon].item = i /\ my'[Daemon].claim = my[Daemon].claim
      /\ my'[Daemon].batch = my[Daemon].batch /\ my[Daemon].batch = <<>>
  BY DaemonIsThread DEF Propose, Goto, Inv, TypeOK, Locals, Hand, BatchInHand
<1>2. TasksFollow' /\ RowsFollow'
  <2>1. TasksFollow'
    BY SameFollow DEF Follows
  <2>2. RowsFollow'
    BY <1>1 DEF Follows, RowsFollow, Has, MetaSteps
  <2> QED
    BY <2>1, <2>2
<1>3. HandFollows'
  <2>1. (my[Daemon].claim => my[Daemon].item # Root)'
    BY <1>1 DEF Follows, HandFollows
  <2>2. (my[Daemon].claim /\ my[Daemon].batch = <<>> => TaskChildren(my[Daemon].item) = {})'
    BY <1>1 DEF Follows, HandFollows, TaskChildren, Children, Has
  <2>3. NoParent \notin ToSet(my'[Daemon].batch)
    BY <1>1 DEF ToSet
  <2>4. (crashes = 0 => claims \subseteq {my[Daemon].item} /\ (claims # {} => my[Daemon].claim))'
    BY <1>1 DEF Follows, HandFollows
  <2> QED
    BY <1>1, <2>1, <2>2, <2>3, <2>4 DEF HandFollows, DeliverSteps, MetaSteps
<1> QED
  BY <1>2, <1>3 DEF Follows

\* The run goes on with what the daemon has in hand.
LEMMA GotoFollows ==
  ASSUME Inv, Alone, Follows, NEW p \in {"settle", "repair"}, Goto(Daemon, p),
         pc[Daemon] \in {"run", "propose"}, UNCHANGED <<items, meta, claims, my, crashes>>
  PROVE  Follows'
<1>1. /\ pc'[Daemon] = p /\ my' = my
      /\ pc[Daemon] = "run" => my[Daemon].batch = <<>>
  BY DaemonIsThread DEF Goto, Inv, TypeOK, Hand, BatchInHand
<1>2. TasksFollow' /\ RowsFollow'
  <2>1. TasksFollow'
    BY SameFollow DEF Follows
  <2>2. RowsFollow'
    BY <1>1 DEF Follows, RowsFollow, Has, MetaSteps
  <2> QED
    BY <2>1, <2>2
<1>3. HandFollows'
  <2>1. (my[Daemon].claim /\ my[Daemon].batch = <<>> => TaskChildren(my[Daemon].item) = {})'
    BY <1>1 DEF Follows, HandFollows, TaskChildren, Children, Has
  <2>2. NoParent \notin ToSet(my[Daemon].batch)
    BY <1>1 DEF Follows, HandFollows, ProposeSteps, ToSet
  <2>3. (my[Daemon].batch # <<>> => my[Daemon].parent = PlannerParent(my[Daemon].item))'
    BY <1>1 DEF Alone, ProposeSteps, PlannerParent, Has
  <2>4. (crashes = 0 => claims \subseteq {my[Daemon].item} /\ (claims # {} => my[Daemon].claim))'
    BY <1>1 DEF Follows, HandFollows
  <2>5. (my[Daemon].claim => my[Daemon].item # Root)'
    BY <1>1 DEF Follows, HandFollows
  <2> QED
    BY <1>1, <2>1, <2>2, <2>3, <2>4, <2>5 DEF HandFollows, ProposeSteps, DeliverSteps, MetaSteps
<1> QED
  BY <1>2, <1>3 DEF Follows

LEMMA BeginFollows ==
  ASSUME Inv, Follows, BeginRunOnce(Daemon)
  PROVE  Follows'
<1>1. /\ UNCHANGED <<meta, claims, crashes>> /\ my' = my /\ ~my[Daemon].claim
      /\ pc'[Daemon] = "pick" \/ (pc'[Daemon] = "deliver" /\ Completes([i \in Created |-> items[i].state]))
  BY DaemonIsThread DEF BeginRunOnce, Goto, tables, counters, Inv, TypeOK, Hand, BatchInHand
<1>2. PICK S \in SUBSET Created : /\ Moved(S, "Done")
                                  /\ \A i \in S : State(i) = "Human Review" /\ i # Root
  <2> DEFINE S == {i \in TaskChildren(Root) : FullAuto(Root) /\ State(i) = "Human Review"}
  <2>1. S \in SUBSET Created /\ \A i \in S : State(i) = "Human Review" /\ i # Root
    BY TasksOf
  <2> QED
    BY <2>1 DEF BeginRunOnce
<1>3. Created' = Created /\ \A j \in Created : State(j)' = IF j \in S THEN "Done" ELSE State(j)
  <2>1. TypeOK /\ "Done" \in States
    BY DEF Inv, States
  <2>2. StatesOnly /\ \A j \in Created : State(j)' = IF j \in S THEN "Done" ELSE State(j)
    BY <1>2, <2>1, MovedFacts
  <2> QED
    BY <2>2 DEF StatesOnly
<1>4. TasksFollow'
  <2>1. \A c \in Created : State(c) \in SuccessStates <=> State(c)' \in SuccessStates
    BY <1>2, <1>3 DEF SuccessStates
  <2>2. \A c \in Created \ {Root} : Waits(c)' => Waits(c)
    BY <1>1, <1>3 DEF Waits
  <2>3. State(Root)' \in {"Ready", "Planning", "Human Review", "Done"}
    BY <1>2, <1>3, TasksOf DEF Follows, TasksFollow
  <2> QED
    BY <1>1, <1>3, <2>1, <2>2, <2>3, StatesFollow DEF Follows
<1>5. RowsFollow'
  BY <1>1 DEF Follows, RowsFollow, Has, MetaSteps
<1>6. crashes' = 0 => claims' = {}
  BY <1>1 DEF Follows, HandFollows
<1>7. HandFollows'
  <2>1. CASE pc'[Daemon] = "pick"
    BY <1>1, <1>6, <2>1, HandsFree
  <2>2. CASE pc'[Daemon] = "deliver" /\ Completes([i \in Created |-> items[i].state])
    <3>1. Succeeded(TaskChildren(Root))'
      <4>1. TaskChildren(Root)' = TaskChildren(Root) /\ TaskChildren(Root) \subseteq Created
        BY <1>1, RowsSame, TasksOf
      <4>2. \A i \in TaskChildren(Root) : State(i) \in SuccessStates
        BY <2>2, <4>1 DEF Completes, State
      <4> QED
        BY <1>3, <4>1, <4>2 DEF Succeeded, SuccessStates
    <3>2. (crashes = 0 => claims \subseteq {my[Daemon].item} /\ (claims # {} => my[Daemon].claim))'
      BY <1>6
    <3> QED
      BY <1>1, <2>2, <3>1, <3>2 DEF HandFollows, ProposeSteps, MetaSteps
  <2> QED
    BY <1>1, <2>1, <2>2
<1> QED
  BY <1>4, <1>5, <1>7 DEF Follows

LEMMA PickFollows ==
  ASSUME Inv, Alone, Follows, NEW i \in ItemIds, Pick(Daemon, i), UNCHANGED crashes
  PROVE  Follows'
<1>1. /\ i \in Created /\ State(i) = "Ready" /\ UNCHANGED meta /\ ~my[Daemon].claim
      /\ pc[Daemon] = "pick"
  BY DaemonIsThread DEF Pick, Candidates, Inv, Hand, BatchInHand
<1>2. CASE ParentWaits(Daemon, i)
  BY <1>1, <1>2, ReturnFollows DEF ParentWaits, SuccessStates
<1>3. CASE SplitRequest(Daemon, i)
  <2>1. CASE RunMode(i) = "execute_only"
    BY <1>1, <1>3, <2>1, ProposeFollows DEF SplitRequest
  <2>2. CASE Set(Daemon, "plan", "item", i) /\ UNCHANGED <<items, claims>>
    <3>1. pc'[Daemon] = "plan" /\ my'[Daemon].claim = my[Daemon].claim
      BY <2>2, DaemonIsThread DEF Set, Goto, Inv, TypeOK, Locals
    <3>2. TasksFollow'
      BY <1>1, <2>2, SameFollow DEF Follows
    <3>4. RowsFollow'
      BY <1>1, <3>1 DEF Follows, RowsFollow, Has, MetaSteps
    <3>3. HandFollows'
      BY <1>1, <2>2, <3>1, HandsFree DEF Follows, HandFollows
    <3> QED
      BY <3>2, <3>3, <3>4 DEF Follows
  <2> QED
    BY <1>3, <2>1, <2>2 DEF SplitRequest
<1>4. CASE StartRun(Daemon, i)
  <2>1. i # Root
    BY <1>4, RootIsItem DEF StartRun, Splits, Depth, Inv, RowsInv
  <2>2. CASE Claim(Daemon, i)
    BY <1>1, <2>1, <2>2, ClaimFollows
  <2>3. CASE Return(Daemon) /\ UNCHANGED <<items, claims>>
    <3>1. PICK S : S = {}
      OBVIOUS
    <3> QED
      BY <1>1, <2>3, <3>1, ReturnFollows
  <2> QED
    BY <1>4, <2>2, <2>3 DEF StartRun
<1> QED
  BY <1>1, <1>2, <1>3, <1>4 DEF Pick

LEMMA CloseFollows ==
  ASSUME Inv, Alone, Follows, CloseRoot(Daemon), faults = 0, faults' = 0, UNCHANGED crashes
  PROVE  Follows'
<1>1. ~my[Daemon].claim /\ Succeeded(TaskChildren(Root))
  BY DEF CloseRoot, Follows, HandFollows, Alone, DeliverSteps
<1>2. Return(Daemon) /\ Moved({Root}, "Done") /\ UNCHANGED <<meta, claims>>
  BY <1>1, NoFault DEF CloseRoot, tables
<1> QED
  BY <1>1, <1>2, ReturnFollows

LEMMA PlanFollows ==
  ASSUME Inv, Alone, Follows, PlannerMeta(Daemon) \/ PlannerMove(Daemon),
         faults = 0, faults' = 0, UNCHANGED crashes
  PROVE  Follows'
<1>1. my[Daemon].item = Root /\ ~my[Daemon].claim /\ State(Root) = "Ready"
  BY DaemonIsThread DEF PlannerMeta, PlannerMove, Alone, Splitting, Inv, Hand, ItemInHand, SplitSteps
<1>2. CASE PlannerMeta(Daemon)
  <2>1. /\ pc[Daemon] = "planMeta" /\ pc'[Daemon] = "planMove" /\ my' = my /\ UNCHANGED <<items, claims>>
        /\ WriteMeta(Daemon, "planner", Root, 1, RunMode(Root), {})
    BY <1>1, <1>2, DaemonIsThread DEF PlannerMeta, Goto, Inv, TypeOK
  <2>2. pc[Daemon] \in MetaSteps /\ "planner" \in Roles
    BY <2>1 DEF MetaSteps, Roles
  <2>3. Has(Root) /\ meta[Root].role # "planner" /\ ~Has(my[Daemon].new)
    BY <2>2, DaemonIsThread, RootIsItem DEF Inv, RowsInv, ItemsInv, RoleOf, Hand, NewInHand
  <2>4. State(Root) \notin SuccessStates
    BY <1>1 DEF SuccessStates
  <2> QED
    BY <1>1, <2>1, <2>2, <2>3, <2>4, RecordFollows
<1>3. CASE PlannerMove(Daemon)
  <2>1. Return(Daemon) /\ Moved({Root}, "Planning") /\ UNCHANGED <<meta, claims>>
    BY <1>1, <1>3, NoFault DEF PlannerMove, tables
  <2>2. \A i \in {Root} \cap Created : State(i) \notin SuccessStates
    BY <1>1 DEF SuccessStates
  <2> QED
    BY <1>1, <2>1, <2>2, ReturnFollows
<1> QED
  BY <1>2, <1>3

\* The item the daemon runs is a task of its parent.
LEMMA RunIsTask ==
  ASSUME Inv, Alone, Follows, my[Daemon].claim
  PROVE  LET i == my[Daemon].item IN
         /\ i \in Created /\ i \in ItemIds /\ i # Root /\ State(i) = "Running"
         /\ Has(i) => i \in TaskChildren(meta[i].parent)
         /\ PlannerParent(i) # i => /\ i \in TaskChildren(PlannerParent(i)) /\ TaskChildren(i) = {}
                                    /\ Has(i) /\ PlannerParent(i) = meta[i].parent
<1> DEFINE i == my[Daemon].item
<1>1. i \in Created /\ i \in ItemIds /\ i # Root /\ State(i) = "Running" /\ items[i].kind # "delivery"
  BY DaemonIsThread, CreatedIsItem DEF Inv, Hand, ItemInHand, Alone, Follows, HandFollows
<1>2. Has(i) => i \in TaskChildren(meta[i].parent)
  BY <1>1, TasksOf
<1>3. ASSUME PlannerParent(i) # i
      PROVE  Has(i) /\ meta[i].role = "planner" /\ PlannerParent(i) = meta[i].parent
  BY <1>3 DEF PlannerParent
<1>4. ASSUME PlannerParent(i) # i
      PROVE  TaskChildren(i) = {}
  <2>1. Has(i) /\ meta[i].role = "planner"
    BY <1>3, <1>4
  <2>2. \A c \in TaskChildren(i) : c \in ItemIds /\ Has(c) /\ meta[c].parent = i /\ c # Root
    BY <1>1, TasksOf
  <2> QED
    BY <2>1, <2>2 DEF Follows, RowsFollow
<1> QED
  <2> HIDE DEF i
  <2> QED
    BY <1>1, <1>2, <1>3, <1>4 DEF i

LEMMA TaskMetaFollows ==
  ASSUME Inv, Alone, Follows, TaskMeta(Daemon)
  PROVE  Follows'
<1> DEFINE i == my[Daemon].item
           p == my[Daemon].parent
<1>1. /\ pc[Daemon] = "proposeMeta" /\ UNCHANGED <<items, claims, crashes>> /\ pc'[Daemon] = "propose"
      /\ my'[Daemon].batch = Append(my[Daemon].batch, my[Daemon].new)
      /\ my'[Daemon].item = my[Daemon].item /\ my'[Daemon].claim = my[Daemon].claim
      /\ WriteMeta(Daemon, "worker", p, my[Daemon].depth, my[Daemon].mode,
                   ResolvedNeeds(Daemon, my[Daemon].new))
  BY DaemonIsThread DEF TaskMeta, Set, Goto, counters, Inv, TypeOK, Locals
<1>2. /\ pc[Daemon] \in MetaSteps /\ "worker" \in Roles
      /\ p = PlannerParent(i) /\ p \in Created /\ p # my[Daemon].new
      /\ my[Daemon].claim \/ i = Root
  <2>1. pc[Daemon] \in MetaSteps /\ pc[Daemon] \in ProposeSteps /\ "worker" \in Roles
    BY <1>1 DEF MetaSteps, ProposeSteps, Roles
  <2>2. p \in Created /\ p < my[Daemon].new /\ (my[Daemon].claim \/ i = Root)
    BY <1>1, <2>1, DaemonIsThread DEF Inv, Hand, BatchInHand, NewInHand
  <2>3. p \in Nat
    BY <2>2, CreatedIsItem DEF Inv
  <2>4. p = PlannerParent(i)
    BY <2>1 DEF Alone
  <2> QED
    BY <2>1, <2>2, <2>3, <2>4
<1>3. State(p) \notin SuccessStates /\ (p = Root \/ ~Waits(p))
  <2>1. CASE ~my[Daemon].claim
    <3>1. State(Root) = "Ready" /\ p = Root
      BY <1>1, <1>2, <2>1, RootsTasks DEF Alone, Splitting, ProposeSteps
    <3> QED
      BY <3>1 DEF SuccessStates
  <2>2. CASE my[Daemon].claim /\ p = i
    BY <2>2, RunIsTask DEF SuccessStates, Waits
  <2>3. CASE my[Daemon].claim /\ p # i
    <3>1. i \in TaskChildren(p)
      BY <1>2, <2>3, RunIsTask
    <3> QED
      BY <1>2, <2>3, <3>1, ParentIsOpen
  <2> QED
    BY <2>1, <2>2, <2>3
<1>4. Has(p) => meta[p].role # "planner"
  <2>1. CASE p = i
    <3>1. i \in ItemIds /\ i \in Nat
      BY <1>2, <2>1, CreatedIsItem DEF Inv
    <3>2. Has(i) => meta[i].parent # i
      BY <3>1, RootIsItem DEF Inv, RowsInv
    <3> QED
      BY <1>2, <2>1, <3>2 DEF PlannerParent
  <2>2. CASE p # i
    <3>1. Has(i) /\ p = meta[i].parent /\ i # Root /\ i \in ItemIds
      <4>1. i # Root
        BY <1>2, <2>2, RootsTasks
      <4> QED
        BY <1>2, <2>2, <4>1, RunIsTask
    <3> QED
      BY <3>1 DEF Follows, RowsFollow
  <2> QED
    BY <2>1, <2>2
<1> QED
  <2> HIDE DEF i, p
  <2> QED
    BY <1>1, <1>2, <1>3, <1>4, RecordFollows DEF i

\* All the proposed tasks were made, and there was one at least.
LEMMA ProposedMade ==
  ASSUME Inv, Follows, Proposed(Daemon)
  PROVE  ~NoTasks(Daemon) /\ my[Daemon].batch # <<>>
<1>1. /\ pc[Daemon] = "propose"
      /\ Len(my[Daemon].batch) <= Len(my[Daemon].plan) /\ my[Daemon].plan # <<>>
      /\ ~(Len(my[Daemon].batch) < Len(my[Daemon].plan))
      /\ my[Daemon].plan \in Seq(SUBSET (1..MaxItems)) /\ my[Daemon].batch \in Seq({NoParent} \cup ItemIds)
  BY DaemonIsThread DEF Proposed, Proposing, ProposeSteps, Inv, Hand, BatchInHand, TypeOK, Locals
<1>2. Len(my[Daemon].batch) = Len(my[Daemon].plan) /\ Len(my[Daemon].plan) >= 1
  BY <1>1
<1>3. my[Daemon].batch[1] \in ToSet(my[Daemon].batch)
  BY <1>1, <1>2 DEF ToSet
<1>4. NoParent \notin ToSet(my[Daemon].batch)
  BY <1>1 DEF Follows, HandFollows, ProposeSteps
<1>5. my[Daemon].batch # <<>>
  BY <1>1, <1>2
<1> QED
  BY <1>3, <1>4, <1>5 DEF NoTasks

LEMMA ProposedFollows ==
  ASSUME Inv, Alone, Follows, Proposed(Daemon), faults = 0, faults' = 0, UNCHANGED crashes
  PROVE  Follows'
<1>1. /\ pc[Daemon] = "propose" /\ UNCHANGED meta /\ (my[Daemon].claim \/ my[Daemon].item = Root)
  BY DaemonIsThread DEF Proposed, ProposeSteps, Inv, Hand, BatchInHand
<1>2. CASE my[Daemon].claim
  BY <1>1, <1>2, GotoFollows DEF Proposed
<1>3. CASE ~my[Daemon].claim
  <2>1. Return(Daemon) /\ Moved({Root}, "Planning") /\ UNCHANGED claims
    BY <1>1, <1>3, NoFault, ProposedMade DEF Proposed, NoTasks
  <2>2. State(Root) = "Ready"
    BY <1>1, <1>3 DEF Alone, Splitting, ProposeSteps
  <2>3. \A i \in {Root} \cap Created : State(i) \notin SuccessStates
    BY <2>2 DEF SuccessStates
  <2> QED
    BY <1>1, <1>3, <2>1, <2>3, ReturnFollows
<1> QED
  BY <1>2, <1>3

LEMMA SettleFollows ==
  ASSUME Inv, Alone, Follows, Settle(Daemon), faults = 0, faults' = 0, UNCHANGED crashes
  PROVE  Follows'
<1> DEFINE i == my[Daemon].item
           p == PlannerParent(my[Daemon].item)
           tasks == ToSet(my[Daemon].batch) \ {NoParent}
<1>1. pc[Daemon] = "settle" /\ my[Daemon].claim
  BY DaemonIsThread DEF Settle, Inv, Hand, ItemInHand
<1>2. i # Root /\ (p # i => i \in TaskChildren(p) /\ TaskChildren(i) = {})
  BY <1>1, RunIsTask
<1>3. tasks = {} => TaskChildren(i) = {}
  <2>1. NoParent \notin ToSet(my[Daemon].batch) /\ my[Daemon].batch \in Seq({NoParent} \cup ItemIds)
    BY <1>1, DaemonIsThread DEF Follows, HandFollows, Inv, TypeOK, Locals
  <2>2. my[Daemon].batch # <<>> => my[Daemon].batch[1] \in ToSet(my[Daemon].batch)
    BY <2>1 DEF ToSet
  <2> QED
    BY <1>1, <2>1, <2>2 DEF Follows, HandFollows
<1>4. ASSUME NEW s \in {"Done", "Human Review", "Needs Input", "Planning"}, NEW S \in {{}, {p}},
             FinishRun(Daemon, s, S, "Planning"), s # "Planning" => TaskChildren(i) = {},
             S # {} => i \in TaskChildren(p)
      PROVE  Follows'
  <2>1. \A q \in S \cap Created : i \in TaskChildren(q)
    BY <1>4
  <2>2. "Planning" \in States
    BY DEF States
  <2> QED
    BY <1>1, <1>4, <2>1, <2>2, FinishFollows
<1>5. \/ FinishRun(Daemon, "Planning", {}, "Planning")
      \/ FinishRun(Daemon, "Done", {p}, "Planning") /\ p # i
      \/ FinishRun(Daemon, "Human Review", {p}, "Planning") /\ p # i
      \/ /\ tasks = {}
         /\ \/ FinishRun(Daemon, "Needs Input", {}, "Planning")
            \/ FinishRun(Daemon, "Done", {}, "Planning")
            \/ FinishRun(Daemon, "Human Review", {}, "Planning")
  BY <1>1, <1>2, NoFault DEF Settle
<1> QED
  <2> HIDE DEF i, p, tasks
  <2> QED
    BY <1>2, <1>3, <1>4, <1>5

LEMMA RepairFollows ==
  ASSUME Inv, Alone, Follows, RepairMeta(Daemon) \/ RepairMove(Daemon),
         faults = 0, faults' = 0, UNCHANGED crashes
  PROVE  Follows'
<1> DEFINE i == my[Daemon].item
           p == meta[my[Daemon].item].parent
<1>1. pc[Daemon] \in RepairSteps
  BY DEF RepairMeta, RepairMove, RepairSteps
<1>2. /\ my[Daemon].claim /\ my[Daemon].batch = <<>> /\ Has(i) /\ i # Root /\ i \in ItemIds
      /\ p \in Created /\ p < i /\ i \in Nat /\ p \in Nat
  <2>1. Has(i) /\ i # Root /\ my[Daemon].batch = <<>>
    BY <1>1, DaemonIsThread DEF Inv, Hand, ItemInHand, BatchInHand
  <2>2. my[Daemon].claim /\ i \in ItemIds /\ p \in Created /\ p < i
    BY <1>1, DaemonIsThread, RepairItem
  <2>3. i \in Nat /\ p \in Nat
    BY <2>2, CreatedIsItem, RootIsItem DEF Inv
  <2> QED
    BY <2>1, <2>2, <2>3
<1>3. i \in TaskChildren(p) /\ TaskChildren(i) = {}
  BY <1>2, RunIsTask DEF Follows, HandFollows
<1>4. CASE RepairMeta(Daemon)
  <2>1. /\ pc[Daemon] = "repairMeta" /\ pc'[Daemon] = "repairMove" /\ my' = my /\ UNCHANGED <<items, claims>>
        /\ WriteMeta(Daemon, "worker", p, meta[i].depth + 1, "full_auto", {})
    BY <1>4, DaemonIsThread DEF RepairMeta, Goto, Inv, TypeOK
  <2>2. pc[Daemon] \in MetaSteps /\ "worker" \in Roles
    BY <2>1 DEF MetaSteps, Roles
  <2>3. i < my[Daemon].new /\ my[Daemon].new \in Nat
    BY <2>2, DaemonIsThread, CreatedIsItem DEF Inv, Hand, NewInHand
  <2>4. p # my[Daemon].new /\ p # i
    BY <1>2, <2>3
  <2>5. State(p) \notin SuccessStates /\ (p = Root \/ ~Waits(p))
    BY <1>2, <1>3, ParentIsOpen
  <2>6. Has(p) => meta[p].role # "planner"
    BY <1>2 DEF Follows, RowsFollow
  <2> HIDE DEF i, p
  <2> QED
    BY <2>1, <2>2, <2>4, <2>5, <2>6, RecordFollows DEF i
<1>5. CASE RepairMove(Daemon)
  <2>1. FinishRun(Daemon, "Done", {p}, "Planning")
    BY <1>5, NoFault DEF RepairMove
  <2>2. "Planning" \in States /\ \A q \in {p} \cap Created : i \in TaskChildren(q)
    BY <1>3 DEF States
  <2>3. "Done" \in {"Done", "Human Review", "Needs Input", "Planning"}
    OBVIOUS
  <2> QED
    BY <1>2, <1>3, <2>1, <2>2, <2>3, FinishFollows
<1> QED
  BY <1>4, <1>5

\* Without a failing call, a step that makes no item is not one of those that make one.
LEMMA NothingMade ==
  ASSUME Inv, StatesOnly, faults = 0, faults' = 0
  PROVE  ~Deliver(Daemon) /\ ~CreatePlanner(Daemon) /\ ~CreateTask(Daemon) /\ ~CreateRepair(Daemon)
<1>1. ~Deliver(Daemon)
  <2> DEFINE new == [id \in ItemIds |-> Plain("delivery", "Backlog")]
  <2>1. new \in [ItemIds -> Item] /\ \A j \in ItemIds : new[j].kind = "delivery"
    BY DEF Plain, Item, Kinds, States
  <2>2. Deliver(Daemon) => CreateItem(Daemon, new, "deliverMeta")
    BY NoFault DEF Deliver, CreateFails
  <2> HIDE DEF new
  <2> QED
    BY <2>1, <2>2, MovesMakeNothing
<1>2. ~CreatePlanner(Daemon)
  <2> DEFINE new == [id \in ItemIds |-> Plain("planner", "Ready")]
  <2>1. new \in [ItemIds -> Item] /\ \A j \in ItemIds : new[j].kind = "planner"
    BY DEF Plain, Item, Kinds, States
  <2>2. CreatePlanner(Daemon) => CreateItem(Daemon, new, "planMeta")
    BY NoFault DEF CreatePlanner
  <2> HIDE DEF new
  <2> QED
    BY <2>1, <2>2, MovesMakeNothing
<1>3. ~CreateTask(Daemon)
  <2> DEFINE new == [id \in ItemIds |->
                        [kind |-> "task", state |-> ProposalState(Daemon), depth |-> my[Daemon].depth,
                         needs |-> ResolvedNeeds(Daemon, id)]]
  <2> SUFFICES ASSUME CreateTask(Daemon) PROVE FALSE
    OBVIOUS
  <2>1. new \in [ItemIds -> Item] /\ \A j \in ItemIds : new[j].kind = "task"
    <3>1. ProposalState(Daemon) \in States /\ my[Daemon].depth \in Nat
      BY DaemonIsThread DEF ProposalState, States, Inv, TypeOK, Locals
    <3>2. \A j \in ItemIds : ResolvedNeeds(Daemon, j) \subseteq ItemIds
      BY DaemonIsThread, ResolvedNeedsAreMade DEF CreateTask, Proposing, ProposeSteps
    <3> QED
      BY <3>1, <3>2 DEF Item, Kinds
  <2>2. CreateItem(Daemon, new, "proposeMeta")
    BY NoFault DEF CreateTask, CreateFails
  <2> HIDE DEF new
  <2> QED
    BY <2>1, <2>2, MovesMakeNothing
<1>4. ~CreateRepair(Daemon)
  <2> DEFINE new == [id \in ItemIds |-> Plain("repair", "Ready")]
  <2>1. new \in [ItemIds -> Item] /\ \A j \in ItemIds : new[j].kind = "repair"
    BY DEF Plain, Item, Kinds, States
  <2>2. CreateRepair(Daemon) => CreateItem(Daemon, new, "repairMeta")
    BY NoFault DEF CreateRepair
  <2> HIDE DEF new
  <2> QED
    BY <2>1, <2>2, MovesMakeNothing
<1> QED
  BY <1>1, <1>2, <1>3, <1>4

LEMMA RunFollows ==
  ASSUME Inv, Alone, Follows, RunStep(Daemon), StatesOnly, faults = 0, faults' = 0, UNCHANGED crashes
  PROVE  Follows'
<1>1. CASE RunProposes(Daemon)
  <2>1. PICK plan \in Plans : Propose(Daemon, my[Daemon].item, plan, my[Daemon].mode, FALSE)
    BY <1>1 DEF RunProposes
  <2> QED
    BY <1>1, <2>1, ProposeFollows DEF RunProposes, tables
<1>2. CASE RunSucceeds(Daemon)
  BY <1>2, GotoFollows DEF RunSucceeds, tables
<1>3. CASE RunBlocked(Daemon)
  <2>1. /\ my[Daemon].claim /\ TaskChildren(my[Daemon].item) = {} /\ "Planning" \in States
        /\ pc[Daemon] = "run" /\ UNCHANGED crashes
    BY <1>3, DaemonIsThread DEF RunBlocked, Inv, Hand, ItemInHand, BatchInHand, Follows, HandFollows, States
  <2>2. CASE FinishRun(Daemon, "Needs Input", {}, "Planning")
    <3>1. PICK S : S = {}
      OBVIOUS
    <3>2. \A q \in S \cap Created : my[Daemon].item \in TaskChildren(q)
      BY <3>1
    <3>3. "Needs Input" \in {"Done", "Human Review", "Needs Input", "Planning"}
      OBVIOUS
    <3>4. FinishRun(Daemon, "Needs Input", S, "Planning")
      BY <2>2, <3>1
    <3> QED
      BY <2>1, <3>2, <3>3, <3>4, FinishFollows
  <2>3. CASE /\ Propose(Daemon, my[Daemon].item, FallbackPlan, "full_auto", TRUE)
             /\ UNCHANGED <<items, tables>>
    BY <2>1, <2>3, ProposeFollows DEF tables
  <2>4. CASE Goto(Daemon, "repair") /\ UNCHANGED <<my, counters>> /\ UNCHANGED <<items, tables>>
    BY <2>1, <2>4, GotoFollows DEF tables
  <2> QED
    BY <1>3, <2>2, <2>3, <2>4 DEF RunBlocked
<1> QED
  BY <1>1, <1>2, <1>3, NothingMade, TaskMetaFollows, ProposedFollows, SettleFollows, RepairFollows DEF RunStep

LEMMA DaemonFollows ==
  ASSUME Inv, Alone, Follows, ThreadStep(Daemon), faults = 0, faults' = 0
  PROVE  Follows'
<1>1. UNCHANGED crashes /\ (StatesOnly \/ Creates(Daemon))
  BY DaemonIsThread, ThreadTurn, ItemsChange DEF Turn
<1>2. CASE Creates(Daemon)
  BY <1>1, <1>2, CreatesFollow
<1>4. CASE DeliverMeta(Daemon)
  <2>1. /\ pc[Daemon] = "deliverMeta" /\ pc'[Daemon] = "closeRoot" /\ UNCHANGED <<my, items, claims>>
        /\ WriteMeta(Daemon, "delivery_manager", Root, 1, "full_auto", {Root})
    BY <1>4, DaemonIsThread DEF DeliverMeta, Goto, Inv, TypeOK
  <2>2. pc[Daemon] \in MetaSteps /\ "delivery_manager" \in Roles
    BY <2>1 DEF MetaSteps, Roles
  <2>3. Has(Root) /\ meta[Root].role # "planner" /\ ~Has(my[Daemon].new)
    BY <2>2, DaemonIsThread, RootIsItem DEF Inv, RowsInv, ItemsInv, RoleOf, Hand, NewInHand
  <2> QED
    BY <1>1, <2>1, <2>2, <2>3, RecordFollows
<1>5. CASE NothingToDo(Daemon)
  <2>1. PICK S : S = {}
    OBVIOUS
  <2>2. Return(Daemon) /\ UNCHANGED <<items, meta, claims>> /\ ~my[Daemon].claim
    BY <1>5, DaemonIsThread DEF NothingToDo, tables, Inv, Hand, BatchInHand
  <2> QED
    BY <1>1, <2>1, <2>2, ReturnFollows
<1> QED
  BY <1>1, <1>2, <1>4, <1>5, NothingMade, BeginFollows, CloseFollows, PickFollows, PlanFollows, RunFollows
  DEF ThreadStep, BeforeDispatch, PlanStep

\* Steps of nobody's thread, and the daemon's tick.
LEMMA NobodyFollows ==
  ASSUME Inv, Alone, Calm', CalmInv,
         \/ Reconcile \/ Crash \/ UNCHANGED vars
         \/ \E i \in ItemIds : ReleaseClaim(i) \/ HumanMoves(i)
  PROVE  Follows'
<1>1. /\ UNCHANGED meta /\ Calm
      /\ moved' = moved \/ crashes = 0
      /\ crashes' = crashes \/ crashes' # 0
  <2>1. asked \in Nat /\ faults \in Nat /\ crashes \in Nat /\ moved \in Nat
    BY CountersAreNat
  <2>2. CASE UNCHANGED meta /\ UNCHANGED counters
    BY <2>2 DEF Calm, counters
  <2>3. CASE \E i \in ItemIds : HumanMoves(i)
    <3>1. /\ UNCHANGED meta /\ UNCHANGED <<asked, faults, crashes>> /\ moved' = moved + 1
      BY <2>3 DEF HumanMoves, tables
    <3>2. moved' # 0
      BY <2>1, <3>1
    <3> QED
      BY <3>1, <3>2 DEF Calm
  <2>4. CASE Crash
    <3>1. UNCHANGED meta /\ UNCHANGED <<asked, faults, moved>> /\ crashes' = crashes + 1
      BY <2>4 DEF Crash, tables
    <3>2. crashes' # 0
      BY <2>1, <3>1
    <3> QED
      BY <3>1, <3>2 DEF Calm
  <2> QED
    BY <2>2, <2>3, <2>4 DEF Reconcile, ReleaseClaim, vars, tables
<1>2. Follows
  BY <1>1 DEF CalmInv
<1>3. pc[Daemon] = "idle" => my[Daemon] = Fresh /\ (crashes = 0 => claims = {})
  <2>1. pc[Daemon] = "idle" => my[Daemon] = Fresh
    BY DaemonIsThread DEF Inv, Hand, BatchInHand
  <2> QED
    BY <1>2, <2>1, FreshFacts DEF Follows, HandFollows
<1>4. Root \in Created /\ Created \subseteq ItemIds
  BY TasksOf
<1>5. \A c : TaskChildren(c)' = TaskChildren(c)
  BY <1>1, RowsSame
<1>6. TypeOK /\ {"Ready", "Human Review", "Needs Input"} \subseteq States
  BY DEF Inv, States
<1>7. ASSUME Reconcile
      PROVE  Follows'
  <2>1. PICK S \in SUBSET Created :
           /\ Moved(S, "Human Review")
           /\ \A p \in S : State(p) = "Planning" /\ Succeeded(Children(p))
    <3> DEFINE S == {p \in Created : /\ State(p) = "Planning" /\ ~FullAuto(p)
                                     /\ Children(p) # {} /\ Succeeded(Children(p))}
    <3>1. S \in SUBSET Created /\ \A p \in S : State(p) = "Planning" /\ Succeeded(Children(p))
      OBVIOUS
    <3> QED
      BY <1>7, <3>1 DEF Reconcile
  <2>2. /\ pc[Daemon] = "idle" /\ pc'[Daemon] = "begin" /\ my' = my /\ UNCHANGED <<claims, crashes>>
    BY <1>7, DaemonIsThread DEF Reconcile, Goto, tables, counters, Inv, TypeOK
  <2>3. Created' = Created /\ \A j \in Created : State(j)' = IF j \in S THEN "Human Review" ELSE State(j)
    <3>1. StatesOnly /\ \A j \in Created : State(j)' = IF j \in S THEN "Human Review" ELSE State(j)
      BY <1>6, <2>1, MovedFacts
    <3> QED
      BY <3>1 DEF StatesOnly
  <2>4. \A p \in S : Succeeded(TaskChildren(p))
    BY <2>1 DEF TaskChildren, Succeeded
  <2>5. TasksFollow'
    <3>1. \A c \in Created : State(c) \in SuccessStates => State(c)' \in SuccessStates
      BY <2>3 DEF SuccessStates
    <3>2. \A c \in Created : State(c)' \in SuccessStates =>
             State(c) \in SuccessStates \/ Succeeded(TaskChildren(c))
      BY <2>3, <2>4
    <3>3. \A c \in Created \ {Root} : Waits(c)' => Waits(c)
      BY <2>2, <2>3 DEF Waits
    <3>4. State(Root)' \in {"Ready", "Planning", "Human Review", "Done"}
      BY <1>2, <1>4, <2>3 DEF Follows, TasksFollow
    <3> QED
      BY <1>1, <1>2, <2>3, <3>1, <3>2, <3>3, <3>4, StatesFollow DEF Follows
  <2>6. RowsFollow'
    BY <1>1, <1>2, <2>2 DEF Follows, RowsFollow, Has, MetaSteps
  <2>7. HandFollows'
    BY <1>3, <2>2, HandsFree, FreshFacts
  <2> QED
    BY <2>5, <2>6, <2>7 DEF Follows
<1>8. ASSUME NEW i \in ItemIds, ReleaseClaim(i)
      PROVE  Follows'
  <2>1. /\ pc[Daemon] = "idle" /\ UNCHANGED <<threads, crashes>> /\ crashes # 0 /\ i \in Created
    <3>1. i \in claims /\ claims \subseteq Created /\ pc[Daemon] = "idle" /\ UNCHANGED <<threads, crashes>>
      BY <1>8 DEF ReleaseClaim, counters, Inv, TypeOK
    <3> QED
      BY <1>3, <3>1
  <2>2. Created' = Created /\ \A j \in Created : \/ State(j)' = State(j)
                                                 \/ j = i /\ State(i) = "Running" /\ State(j)' = "Needs Input"
    <3>1. CASE State(i) = "Running" /\ Moved({i}, "Needs Input")
      <4>1. StatesOnly /\ \A j \in Created : State(j)' = IF j \in {i} THEN "Needs Input" ELSE State(j)
        BY <1>6, <3>1, MovedFacts
      <4> QED
        BY <3>1, <4>1 DEF StatesOnly
    <3>2. CASE UNCHANGED items
      BY <3>2 DEF State, Created
    <3> QED
      BY <1>8, <3>1, <3>2 DEF ReleaseClaim
  <2>3. TasksFollow'
    <3>1. \A c \in Created : State(c) \in SuccessStates <=> State(c)' \in SuccessStates
      BY <2>2 DEF SuccessStates
    <3>2. \A c \in Created \ {Root} : Waits(c)' => Waits(c)
      BY <2>1, <2>2 DEF Waits
    <3>3. State(Root)' \in {"Ready", "Planning", "Human Review", "Done"}
      BY <1>2, <1>4, <2>2 DEF Follows, TasksFollow
    <3> QED
      BY <1>1, <1>2, <2>2, <3>1, <3>2, <3>3, StatesFollow DEF Follows
  <2>4. RowsFollow'
    BY <1>1, <1>2, <2>1 DEF Follows, RowsFollow, Has, MetaSteps, threads
  <2>5. HandFollows'
    BY <1>3, <2>1, HandsFree, FreshFacts DEF threads
  <2> QED
    BY <2>3, <2>4, <2>5 DEF Follows
<1>9. ASSUME NEW i \in ItemIds, HumanMoves(i)
      PROVE  Follows'
  <2>1. UNCHANGED <<threads, claims, crashes>> /\ crashes = 0 /\ i \in Created
    <3>1. moved' = moved + 1 /\ moved \in Nat
      BY <1>9, CountersAreNat DEF HumanMoves
    <3>2. moved' # 0
      BY <3>1
    <3> QED
      BY <1>9, <3>2 DEF HumanMoves, Calm, tables
  <2>2. PICK s \in {"Ready", "Human Review"} :
           State(i) \in {"Needs Input", "Backlog"} /\ Moved({i}, s)
    BY <1>9 DEF HumanMoves
  <2>3. Created' = Created /\ \A j \in Created : State(j)' = IF j = i THEN s ELSE State(j)
    <3>1. StatesOnly /\ \A j \in Created : State(j)' = IF j \in {i} THEN s ELSE State(j)
      <4>1. PICK q \in States : q = s
        BY <1>6
      <4>2. PICK S : S = {i}
        OBVIOUS
      <4>3. Moved(S, q)
        BY <2>2, <4>1, <4>2
      <4>4. StatesOnly /\ \A j \in Created : State(j)' = IF j \in S THEN q ELSE State(j)
        BY <1>6, <4>3, MovedFacts
      <4> QED
        BY <4>1, <4>2, <4>4
    <3> QED
      BY <3>1 DEF StatesOnly
  <2>4. i # Root /\ Waits(i) /\ TaskChildren(i) = {}
    BY <1>2, <2>1, <2>2 DEF Follows, TasksFollow, Waits
  <2>5. TasksFollow'
    <3>1. \A c \in Created : State(c) \in SuccessStates => State(c)' \in SuccessStates
      BY <2>2, <2>3 DEF SuccessStates
    <3>2. \A c \in Created : State(c)' \in SuccessStates =>
             State(c) \in SuccessStates \/ Succeeded(TaskChildren(c))
      BY <2>3, <2>4 DEF Succeeded
    <3>3. \A c \in Created \ {Root} : Waits(c)' => Waits(c)
      BY <2>1, <2>3, <2>4 DEF Waits
    <3>4. State(Root)' \in {"Ready", "Planning", "Human Review", "Done"}
      BY <1>2, <1>4, <2>3, <2>4 DEF Follows, TasksFollow
    <3> QED
      BY <1>1, <1>2, <2>3, <3>1, <3>2, <3>3, <3>4, StatesFollow DEF Follows
  <2>6. RowsFollow'
    BY <1>1, <1>2, <2>1 DEF Follows, RowsFollow, Has, MetaSteps, threads
  <2>7. HandFollows'
    <3>1. (pc[Daemon] \in MetaSteps => State(my[Daemon].new) \in {"Ready", "Backlog"})'
      <4> SUFFICES ASSUME pc[Daemon] \in MetaSteps, NEW n, n = my[Daemon].new
                   PROVE  State(n)' \in {"Ready", "Backlog"}
        BY <2>1 DEF threads, State
      <4>1. n \in Created /\ State(n) \in {"Ready", "Backlog"}
        BY <1>2, DaemonIsThread DEF Inv, Hand, NewInHand, Follows, HandFollows
      <4>2. State(n)' = State(n) \/ (n = i /\ State(n)' = s /\ State(n) = "Backlog")
        BY <2>2, <2>3, <4>1
      <4>3. State(n) = "Backlog" => s = "Ready" \/ n # i
        BY <1>9, <1>6, <2>3, <4>1, MovedFacts DEF HumanMoves
      <4> QED
        BY <4>1, <4>2, <4>3
    <3>2. (pc[Daemon] \in DeliverSteps => Succeeded(TaskChildren(Root)))'
      <4>1. \A c \in Created : State(c) \in SuccessStates => State(c)' \in SuccessStates
        BY <2>2, <2>3 DEF SuccessStates
      <4>2. TaskChildren(Root)' = TaskChildren(Root) /\ TaskChildren(Root) \subseteq Created
        BY <1>5, TasksOf
      <4> QED
        BY <1>2, <2>1, <4>1, <4>2 DEF Follows, HandFollows, Succeeded, threads
    <3>3. (my[Daemon].claim /\ my[Daemon].batch = <<>> => TaskChildren(my[Daemon].item) = {})'
      BY <1>1, <1>2, <2>1 DEF Follows, HandFollows, TaskChildren, Children, Has, threads
    <3>4. (pc[Daemon] = "settle" /\ my[Daemon].batch # <<>> =>
             my[Daemon].parent = PlannerParent(my[Daemon].item))'
      BY <1>1, <1>2, <2>1 DEF Follows, HandFollows, PlannerParent, Has, threads
    <3>5. (crashes = 0 => claims \subseteq {my[Daemon].item} /\ (claims # {} => my[Daemon].claim))'
      BY <1>2, <2>1 DEF Follows, HandFollows, threads
    <3> QED
      BY <1>2, <2>1, <3>1, <3>2, <3>3, <3>4, <3>5 DEF Follows, HandFollows, threads
  <2> QED
    BY <2>5, <2>6, <2>7 DEF Follows
<1>10. ASSUME Crash
       PROVE  Follows'
  <2>1. /\ UNCHANGED <<items, claims>> /\ crashes' # 0
        /\ pc'[Daemon] = "idle" /\ my'[Daemon] = Fresh
    BY <1>10, DaemonIsThread, CountersAreNat DEF Crash, tables
  <2>2. TasksFollow'
    BY <1>2, <1>5, <2>1 DEF Follows, TasksFollow, Succeeded, Waits, State, Created
  <2>3. RowsFollow'
    BY <1>1, <1>2, <2>1 DEF Follows, RowsFollow, Has, MetaSteps
  <2>4. HandFollows'
    BY <2>1, HandsFree, FreshFacts
  <2> QED
    BY <2>2, <2>3, <2>4 DEF Follows
<1>11. ASSUME UNCHANGED vars
       PROVE  Follows'
  <2>1. UNCHANGED <<items, meta, claims, pc, my, crashes>>
    BY <1>11 DEF vars, tables, threads, counters
  <2>2. TasksFollow'
    BY <1>2, <2>1, SameFollow DEF Follows
  <2>3. RowsFollow'
    BY <1>1, <1>2, <2>1 DEF Follows, RowsFollow, Has, MetaSteps
  <2>4. HandFollows'
    BY <1>2, <2>1 DEF Follows, HandFollows, Succeeded, TaskChildren, Children, Has, State, PlannerParent
  <2> QED
    BY <2>2, <2>3, <2>4 DEF Follows
<1> QED
  BY <1>7, <1>8, <1>9, <1>10, <1>11

LEMMA InitCalm == Init => CalmInv
<1> SUFFICES ASSUME Init PROVE Follows
  BY DEF CalmInv
<1>1. /\ Created = {Root} /\ State(Root) = "Ready" /\ items[Root] = Plain("root", "Ready")
  BY DEF Init, Created, Root, State, Plain
<1>2. /\ \A i \in ItemIds : Has(i) => i = Root
      /\ meta[Root].parent = NoParent
  BY RootIsItem DEF Init, Has
<1>3. \A c \in Created : TaskChildren(c) = {}
  BY <1>1, <1>2, RootIsItem DEF TaskChildren, Children
<1>4. pc[Daemon] = "idle" /\ my[Daemon] = Fresh /\ claims = {}
  BY DaemonIsThread DEF Init
<1>5. TasksFollow
  BY <1>1, <1>3 DEF TasksFollow, Succeeded
<1>6. RowsFollow
  BY <1>2, <1>4 DEF RowsFollow, MetaSteps
<1>7. HandFollows
  BY <1>4, FreshFacts DEF HandFollows, ProposeSteps, DeliverSteps, MetaSteps
<1> QED
  BY <1>5, <1>6, <1>7 DEF Follows

LEMMA NextCalm == Inv /\ AloneInv /\ CalmInv /\ [Next]_vars => CalmInv'
<1> SUFFICES ASSUME Inv, AloneInv, CalmInv, [Next]_vars, Calm' PROVE Follows'
  BY DEF CalmInv
<1>1. asked \in Nat /\ faults \in Nat /\ crashes \in Nat /\ moved \in Nat
  BY CountersAreNat
<1>2. CASE \E t \in Threads : ThreadStep(t)
  <2>1. PICK t \in Threads : ThreadStep(t)
    BY <1>2
  <2>2. Turn(t)
    BY <2>1, ThreadTurn
  <2>3. asked = 0 /\ faults = 0 /\ faults' = 0 /\ (moved = 0 \/ crashes = 0)
    BY <1>1, <2>2 DEF Turn, Calm
  <2>4. Alone /\ Follows
    BY <2>3 DEF AloneInv, CalmInv, Calm
  <2>5. t = Daemon
    BY <2>2, <2>4 DEF Turn, Alone, Threads
  <2> QED
    BY <2>1, <2>3, <2>4, <2>5, DaemonFollows
<1>3. ~\E t \in Requests, i \in ItemIds : Request(t, i)
  BY <1>1 DEF Request, Calm
<1>4. CASE \/ Reconcile \/ Crash \/ UNCHANGED vars
           \/ \E i \in ItemIds : ReleaseClaim(i) \/ HumanMoves(i)
  <2>1. asked = 0
    BY <1>4 DEF Calm, Reconcile, Crash, ReleaseClaim, HumanMoves, vars, counters
  <2>2. Alone
    BY <2>1 DEF AloneInv
  <2> QED
    BY <1>4, <2>2, NobodyFollows
<1> QED
  BY <1>2, <1>3, <1>4 DEF Next

-----------------------------------------------------------------------------
(* What a step of the daemon does to the states *)

\* Run, wait for its tasks, be done or need input, be accepted or closed.
MoveOf(i) ==
    LET run == my[Daemon].item IN
    \/ State(i)' = State(i)
    \/ State(i) = "Human Review" /\ State(i)' = "Done" /\ i # Root
    \/ Claim(Daemon, i) /\ pc[Daemon] = "pick" /\ i \in Candidates(Daemon) /\ i # Root
    \/ /\ my[Daemon].claim /\ i = run /\ State(i)' \in {"Needs Input", "Done", "Human Review", "Planning"}
       /\ State(i)' = "Needs Input" \/ pc[Daemon] \in {"settle", "repairMove"}
    \/ my[Daemon].claim /\ run \in TaskChildren(i) /\ State(i)' = "Planning"
    \/ State(i) = "Ready" /\ State(i)' = "Planning" /\ (i = Root \/ (Depth(i) = 0 /\ pc[Daemon] = "pick"))
    \/ i = Root /\ pc[Daemon] = "closeRoot" /\ State(i)' = "Done"

LEMMA MovedMoves ==
  ASSUME Inv, NEW S, NEW s \in States, Moved(S, s)
  PROVE  \A i \in Created : State(i)' = IF i \in S THEN s ELSE State(i)
BY MovedFacts DEF Inv

LEMMA FinishedMoves ==
  ASSUME Inv, my[Daemon].claim, NEW s \in {"Needs Input", "Done", "Human Review", "Planning"}, NEW S,
         FinishRun(Daemon, s, S, "Planning"), s = "Needs Input" \/ pc[Daemon] \in {"settle", "repairMove"},
         \A p \in S \cap Created : my[Daemon].item \in TaskChildren(p)
  PROVE  \A i \in Created : MoveOf(i)
<1>1. TypeOK /\ s \in States /\ "Planning" \in States
  BY DEF Inv, States
<1>2. \A i \in Created : State(i)' = IF i = my[Daemon].item THEN s
                                     ELSE IF i \in S THEN "Planning" ELSE State(i)
  BY <1>1, FinishedRun
<1> QED
  BY <1>2 DEF MoveOf

LEMMA SettleMoves ==
  ASSUME Inv, Alone, Follows, Settle(Daemon), faults = 0, faults' = 0
  PROVE  \A i \in Created : MoveOf(i)
<1> DEFINE i == my[Daemon].item
           p == PlannerParent(my[Daemon].item)
<1>1. pc[Daemon] = "settle" /\ my[Daemon].claim
  BY DaemonIsThread DEF Settle, Inv, Hand, ItemInHand
<1>2. i # Root /\ (p # i => i \in TaskChildren(p))
  BY <1>1, RunIsTask
<1>3. ASSUME NEW s \in {"Done", "Human Review", "Needs Input", "Planning"}, NEW S \in {{}, {p}},
             FinishRun(Daemon, s, S, "Planning"), S # {} => i \in TaskChildren(p)
      PROVE  \A j \in Created : MoveOf(j)
  <2>1. \A q \in S \cap Created : i \in TaskChildren(q)
    BY <1>3
  <2> QED
    BY <1>1, <1>3, <2>1, FinishedMoves
<1>4. \/ FinishRun(Daemon, "Planning", {}, "Planning")
      \/ FinishRun(Daemon, "Done", {p}, "Planning") /\ p # i
      \/ FinishRun(Daemon, "Human Review", {p}, "Planning") /\ p # i
      \/ FinishRun(Daemon, "Needs Input", {}, "Planning")
      \/ FinishRun(Daemon, "Done", {}, "Planning")
      \/ FinishRun(Daemon, "Human Review", {}, "Planning")
  BY <1>1, <1>2, NoFault DEF Settle
<1> QED
  <2> HIDE DEF i, p
  <2> QED
    BY <1>2, <1>3, <1>4

LEMMA RunMoves ==
  ASSUME Inv, Alone, Follows, RunBlocked(Daemon) \/ RepairMove(Daemon), faults = 0, faults' = 0
  PROVE  \A i \in Created : MoveOf(i)
<1>1. my[Daemon].claim
  BY DaemonIsThread DEF RunBlocked, RepairMove, Inv, Hand, ItemInHand, RepairSteps
<1>2. CASE FinishRun(Daemon, "Needs Input", {}, "Planning")
  <2>1. PICK S : S = {}
    OBVIOUS
  <2>2. \A q \in S \cap Created : my[Daemon].item \in TaskChildren(q)
    BY <2>1
  <2>3. FinishRun(Daemon, "Needs Input", S, "Planning")
    BY <1>2, <2>1
  <2> QED
    BY <1>1, <2>2, <2>3, FinishedMoves
<1>3. CASE UNCHANGED items
  BY <1>3 DEF MoveOf, State
<1>4. CASE RepairMove(Daemon)
  <2> DEFINE p == meta[my[Daemon].item].parent
  <2>1. FinishRun(Daemon, "Done", {p}, "Planning") /\ pc[Daemon] = "repairMove"
    BY <1>4, NoFault DEF RepairMove
  <2>2. Has(my[Daemon].item)
    BY <2>1, DaemonIsThread DEF Inv, Hand, ItemInHand, RepairSteps
  <2>3. \A q \in {p} \cap Created : my[Daemon].item \in TaskChildren(q)
    BY <1>1, <2>2, RunIsTask
  <2> QED
    BY <1>1, <2>1, <2>3, FinishedMoves
<1> QED
  BY <1>2, <1>3, <1>4 DEF RunBlocked

LEMMA StateTurn ==
  ASSUME Inv, Alone, Follows, ThreadStep(Daemon), StatesOnly, faults = 0, faults' = 0
  PROVE  \A i \in Created : MoveOf(i)
<1>0. {"Planning", "Done", "Running"} \subseteq States /\ Root \in Created
  BY TasksOf DEF States
<1>1. CASE UNCHANGED items
  BY <1>1 DEF MoveOf, State
<1>2. CASE BeginRunOnce(Daemon)
  <2>1. PICK S \in SUBSET Created : /\ Moved(S, "Done")
                                    /\ \A i \in S : State(i) = "Human Review" /\ i # Root
    <3> DEFINE S == {i \in TaskChildren(Root) : FullAuto(Root) /\ State(i) = "Human Review"}
    <3>1. S \in SUBSET Created /\ \A i \in S : State(i) = "Human Review" /\ i # Root
      BY TasksOf
    <3> QED
      BY <1>2, <3>1 DEF BeginRunOnce
  <2>2. \A i \in Created : State(i)' = IF i \in S THEN "Done" ELSE State(i)
    BY <1>0, <2>1, MovedMoves
  <2> QED
    BY <2>1, <2>2 DEF MoveOf
<1>3. CASE CloseRoot(Daemon)
  <2>1. ~my[Daemon].claim /\ pc[Daemon] = "closeRoot"
    BY <1>3 DEF CloseRoot, Follows, HandFollows, Alone, DeliverSteps
  <2>2. Moved({Root}, "Done")
    BY <1>3, <2>1, NoFault DEF CloseRoot
  <2>3. \A i \in Created : State(i)' = IF i \in {Root} THEN "Done" ELSE State(i)
    BY <1>0, <2>2, MovedMoves
  <2> QED
    BY <2>1, <2>3 DEF MoveOf
<1>4. CASE \E i \in ItemIds : Pick(Daemon, i)
  <2>1. PICK i \in ItemIds : Pick(Daemon, i)
    BY <1>4
  <2>2. i \in Candidates(Daemon) /\ State(i) = "Ready" /\ pc[Daemon] = "pick"
    BY <2>1 DEF Pick, Candidates
  <2>3. CASE ParentWaits(Daemon, i)
    <3>1. \A j \in Created : State(j)' = IF j \in {i} THEN "Planning" ELSE State(j)
      BY <1>0, <2>3, MovedMoves DEF ParentWaits
    <3> QED
      BY <2>2, <2>3, <3>1 DEF MoveOf, ParentWaits
  <2>4. CASE StartRun(Daemon, i) /\ Claim(Daemon, i)
    <3>1. \A j \in Created : State(j)' = IF j \in {i} THEN "Running" ELSE State(j)
      BY <1>0, <2>4, MovedMoves DEF Claim
    <3>2. i # Root
      BY <2>4, RootIsItem DEF StartRun, Splits, Depth, Inv, RowsInv
    <3> QED
      BY <2>2, <2>4, <3>1, <3>2 DEF MoveOf
  <2> QED
    BY <1>1, <2>1, <2>3, <2>4 DEF Pick, SplitRequest, StartRun
<1>5. CASE PlannerMove(Daemon) \/ (Proposed(Daemon) /\ ~my[Daemon].claim)
  <2>1. Splitting(Daemon) /\ my[Daemon].item = Root
    BY <1>5, DaemonIsThread
    DEF PlannerMove, Proposed, Splitting, SplitSteps, ProposeSteps, Inv, Hand, ItemInHand, BatchInHand
  <2>2. State(Root) = "Ready"
    BY <2>1 DEF Alone
  <2>3. Moved({Root}, "Planning")
    <3>1. CASE PlannerMove(Daemon)
      BY <2>1, <3>1, NoFault DEF PlannerMove
    <3>2. CASE Proposed(Daemon) /\ ~my[Daemon].claim
      BY <2>1, <3>2, NoFault, ProposedMade DEF Proposed, NoTasks
    <3> QED
      BY <1>5, <3>1, <3>2
  <2>4. \A i \in Created : State(i)' = IF i \in {Root} THEN "Planning" ELSE State(i)
    BY <1>0, <2>3, MovedMoves
  <2> QED
    BY <2>2, <2>4 DEF MoveOf
<1>6. CASE \/ DeliverMeta(Daemon) \/ NothingToDo(Daemon) \/ PlannerMeta(Daemon) \/ RunProposes(Daemon)
           \/ RunSucceeds(Daemon) \/ TaskMeta(Daemon) \/ RepairMeta(Daemon)
           \/ (Proposed(Daemon) /\ my[Daemon].claim)
  <2>1. UNCHANGED items
    BY <1>6 DEF DeliverMeta, NothingToDo, PlannerMeta, RunProposes, RunSucceeds, TaskMeta, RepairMeta, Proposed
  <2> QED
    BY <1>1, <2>1
<1> QED
  BY <1>2, <1>3, <1>4, <1>5, <1>6, NothingMade, SettleMoves, RunMoves
  DEF ThreadStep, BeforeDispatch, PlanStep, RunStep

-----------------------------------------------------------------------------
(* A request is closed only with work done *)

HasTask == \E i \in Children(Root) : items[i].kind = "task"

\* A task is repaired only if there is one; and while neither a person nor a failing
\* call interferes a planner is done only with tasks, and so is the request.
WorkInv ==
    /\ \A i \in Children(Root) : items[i].kind = "repair" => HasTask
    /\ asked + faults + moved = 0 =>
          /\ \A i \in Children(Root) : items[i].kind = "planner" /\ State(i) \in Quiet => HasTask
          /\ my[Daemon].claim /\ my[Daemon].planner /\ pc[Daemon] = "settle" => my[Daemon].batch # <<>>
          /\ pc[Daemon] \in DeliverSteps \/ State(Root) = "Done" => HasTask

LEMMA TasksStay ==
  ASSUME Inv, Kept, HasTask
  PROVE  HasTask'
<1>1. PICK i \in Children(Root) : items[i].kind = "task"
  BY DEF HasTask
<1>2. i \in Children(Root)' /\ i \in Created
  BY <1>1, ChildrenStay DEF Children, Inv, RowsInv
<1>3. items'[i].kind = "task"
  BY <1>1, <1>2 DEF Kept
<1> QED
  BY <1>2, <1>3 DEF HasTask

\* A child that is new is the item the thread has just recorded.
LEMMA NewChild ==
  ASSUME Inv, NEW t \in Threads, ThreadStep(t), NEW i \in Children(Root)', i \notin Children(Root)
  PROVE  /\ pc[t] \in MetaSteps /\ i = my[t].new /\ i \in Created /\ UNCHANGED items
         /\ items[i].kind = KindMade[pc[t]]
         /\ pc[t] = "repairMeta" => RepairMeta(t) /\ meta[my[t].item].parent = Root
<1>1. ~UNCHANGED meta
  BY DEF Children, Has
<1>2. DeliverMeta(t) \/ PlannerMeta(t) \/ TaskMeta(t) \/ RepairMeta(t)
  BY <1>1, RowsChange
<1>3. pc[t] \in MetaSteps /\ UNCHANGED items
  BY <1>2 DEF DeliverMeta, PlannerMeta, TaskMeta, RepairMeta, MetaSteps
<1>4. my[t].new \in Created /\ items[my[t].new].kind = KindMade[pc[t]]
  BY <1>3 DEF Inv, Hand, NewInHand
<1>5. i = my[t].new
  <2>1. \A j : j # my[t].new /\ j \in ItemIds => meta'[j] = meta[j]
    BY <1>2 DEF DeliverMeta, PlannerMeta, TaskMeta, RepairMeta, WriteMeta, Inv, TypeOK
  <2> QED
    BY <2>1 DEF Children, Has
<1>6. pc[t] = "repairMeta" => RepairMeta(t)
  BY <1>2 DEF DeliverMeta, PlannerMeta, TaskMeta
<1>7. RepairMeta(t) => meta[my[t].item].parent = Root
  <2>1. ASSUME RepairMeta(t)
        PROVE  meta'[i].parent = meta[my[t].item].parent
    <3>1. WriteMeta(t, "worker", meta[my[t].item].parent, meta[my[t].item].depth + 1, "full_auto", {})
      BY <2>1 DEF RepairMeta
    <3> QED
      BY <1>3, <1>5, <3>1, NewRow DEF Roles
  <2> QED
    BY <2>1 DEF Children
<1> QED
  BY <1>3, <1>4, <1>5, <1>6, <1>7

LEMMA RepairsOfTasks ==
  ASSUME Inv, WorkInv, NEW t \in Threads, ThreadStep(t)
  PROVE  (\A i \in Children(Root) : items[i].kind = "repair" => HasTask)'
<1> SUFFICES ASSUME NEW i \in Children(Root)', items'[i].kind = "repair" PROVE HasTask'
  OBVIOUS
<1>1. Kept
  BY ThreadStepEffect DEF Effect
<1>2. CASE i \in Children(Root)
  <2>1. items[i].kind = "repair"
    BY <1>1, <1>2 DEF Kept, Children, Inv, RowsInv
  <2> QED
    BY <1>1, <1>2, <2>1, TasksStay DEF WorkInv
<1>3. CASE i \notin Children(Root)
  <2>1. /\ pc[t] \in MetaSteps /\ items[i].kind = KindMade[pc[t]] /\ UNCHANGED items
        /\ pc[t] = "repairMeta" => meta[my[t].item].parent = Root
    BY <1>3, NewChild
  <2>2. pc[t] = "repairMeta"
    BY <2>1 DEF MetaSteps, KindMade
  <2>3. /\ my[t].item \in Children(Root) /\ Has(my[t].item) /\ my[t].item # Root
        /\ ~my[t].planner /\ my[t].planner = (items[my[t].item].kind = "planner")
        /\ items[my[t].item].kind # "delivery" /\ my[t].item \in Created
    BY <2>1, <2>2, RepairItem DEF Children, Inv, Hand, ItemInHand, RepairSteps
  <2>4. items[my[t].item].kind \in {"task", "repair"}
    <3>1. items[my[t].item].kind \in Kinds /\ items[my[t].item].kind # "root"
      BY <2>3, CreatedIsItem DEF Inv, ItemsInv, Item
    <3> QED
      BY <2>3, <3>1 DEF Kinds
  <2>5. HasTask
    BY <2>3, <2>4 DEF WorkInv, HasTask
  <2> QED
    BY <1>1, <2>5, TasksStay
<1> QED
  BY <1>2, <1>3

\* What the daemon is about to do when it ends a planner's run, or closes the request.
LEMMA SettleTurn ==
  ASSUME Inv, Follows, ThreadStep(Daemon), pc'[Daemon] = "settle", my'[Daemon].planner
  PROVE  my'[Daemon].batch # <<>>
<1>1. ASSUME NEW q, Goto(Daemon, q)
      PROVE  q = "settle"
  BY <1>1, DaemonIsThread DEF Goto, Inv, TypeOK
<1>2. ~Return(Daemon) /\ \A i : ~Claim(Daemon, i)
  <2>1. Return(Daemon) => Goto(Daemon, "idle")
    BY DEF Return
  <2>2. \A i : Claim(Daemon, i) => Goto(Daemon, "run")
    BY DEF Claim
  <2> QED
    BY <1>1, <2>1, <2>2
<1>3. /\ \A s, S, s2 : ~FinishRun(Daemon, s, S, s2)
      /\ \A S : ~RunRaises(Daemon, S)
      /\ ~RunItself(Daemon)
  BY <1>2 DEF FinishRun, RunRaises, RunItself
<1>4. \A new, then : CreateItem(Daemon, new, then) => then = "settle"
  BY <1>1 DEF CreateItem, Set
<1>5. ~BeforeDispatch(Daemon) /\ ~NothingToDo(Daemon)
  BY <1>1, <1>2, <1>3, <1>4 DEF BeforeDispatch, BeginRunOnce, Deliver, DeliverMeta, CloseRoot, NothingToDo
<1>6. ~PlanStep(Daemon)
  BY <1>1, <1>2, <1>3, <1>4 DEF PlanStep, CreatePlanner, PlannerMeta, PlannerMove
<1>7. \A i \in ItemIds : ~Pick(Daemon, i)
  BY <1>1, <1>2 DEF Pick, ParentWaits, SplitRequest, StartRun, Propose, Set
<1>8. /\ ~RunProposes(Daemon) /\ ~RunBlocked(Daemon) /\ ~CreateTask(Daemon) /\ ~TaskMeta(Daemon)
      /\ ~CreateRepair(Daemon) /\ ~RepairMeta(Daemon) /\ ~RepairMove(Daemon)
  BY <1>1, <1>3, <1>4
  DEF RunProposes, RunBlocked, CreateTask, TaskMeta, CreateRepair, RepairMeta, RepairMove, Propose, Set
<1>9. ~Settle(Daemon)
  BY <1>1, <1>3 DEF Settle
<1>10. RunSucceeds(Daemon) \/ Proposed(Daemon)
  BY <1>5, <1>6, <1>7, <1>8, <1>9 DEF ThreadStep, RunStep
<1>11. Proposed(Daemon)
  BY <1>10 DEF RunSucceeds
<1>12. my' = my
  BY <1>2, <1>3, <1>11 DEF Proposed
<1> QED
  BY <1>11, <1>12, ProposedMade

LEMMA DeliverTurn ==
  ASSUME Inv, Alone, Follows, ThreadStep(Daemon), pc'[Daemon] = "deliver"
  PROVE  BeginRunOnce(Daemon) /\ TaskChildren(Root) # {} /\ Succeeded(TaskChildren(Root))
<1>1. ASSUME NEW q, Goto(Daemon, q)
      PROVE  q = "deliver"
  BY <1>1, DaemonIsThread DEF Goto, Inv, TypeOK
<1>2. ~Return(Daemon) /\ \A i : ~Claim(Daemon, i)
  <2>1. Return(Daemon) => Goto(Daemon, "idle")
    BY DEF Return
  <2>2. \A i : Claim(Daemon, i) => Goto(Daemon, "run")
    BY DEF Claim
  <2> QED
    BY <1>1, <2>1, <2>2
<1>3. /\ \A s, S, s2 : ~FinishRun(Daemon, s, S, s2)
      /\ \A S : ~RunRaises(Daemon, S)
      /\ ~RunItself(Daemon)
  BY <1>2 DEF FinishRun, RunRaises, RunItself
<1>4. \A new, then : CreateItem(Daemon, new, then) => then = "deliver"
  BY <1>1 DEF CreateItem, Set
<1>5. ~Deliver(Daemon) /\ ~DeliverMeta(Daemon) /\ ~CloseRoot(Daemon) /\ ~NothingToDo(Daemon)
  BY <1>1, <1>2, <1>3, <1>4 DEF Deliver, DeliverMeta, CloseRoot, NothingToDo
<1>6. ~PlanStep(Daemon)
  BY <1>1, <1>2, <1>3, <1>4 DEF PlanStep, CreatePlanner, PlannerMeta, PlannerMove
<1>7. \A i \in ItemIds : ~Pick(Daemon, i)
  BY <1>1, <1>2 DEF Pick, ParentWaits, SplitRequest, StartRun, Propose, Set
<1>8. /\ ~RunProposes(Daemon) /\ ~RunBlocked(Daemon) /\ ~CreateTask(Daemon) /\ ~TaskMeta(Daemon)
      /\ ~CreateRepair(Daemon) /\ ~RepairMeta(Daemon) /\ ~RepairMove(Daemon) /\ ~RunSucceeds(Daemon)
  BY <1>1, <1>3, <1>4
  DEF RunProposes, RunBlocked, CreateTask, TaskMeta, CreateRepair, RepairMeta, RepairMove, Propose, Set,
      RunSucceeds
<1>9. ~Proposed(Daemon)
  BY <1>1, <1>2, <1>3 DEF Proposed
<1>10. ~Settle(Daemon)
  <2>1. pc[Daemon] = "settle" => my[Daemon].item # Root
    BY DaemonIsThread DEF Follows, HandFollows, Inv, Hand, ItemInHand
  <2> QED
    BY <1>3, <2>1 DEF Settle
<1>11. BeginRunOnce(Daemon)
  BY <1>5, <1>6, <1>7, <1>8, <1>9, <1>10 DEF ThreadStep, RunStep, BeforeDispatch
<1>12. Completes([i \in Created |-> items[i].state])
  BY <1>1, <1>11 DEF BeginRunOnce
<1>13. TaskChildren(Root) \subseteq Created
  BY TasksOf, RootIsItem
<1> QED
  BY <1>11, <1>12, <1>13 DEF Completes, Succeeded, State

\* A child of the request that succeeded, or waits for its tasks: only a planner may
\* have no task beside it, and that one has proposed some.
LEMMA TasksBehind ==
  ASSUME Inv, WorkInv, asked + faults + moved = 0, NEW i \in TaskChildren(Root), State(i) \in Quiet
  PROVE  HasTask
<1>1. i \in Children(Root) /\ i \in Created /\ i # Root /\ meta[i].role # "delivery_manager"
  BY TasksOf, RootIsItem DEF TaskChildren
<1>2. items[i].kind \in Kinds /\ items[i].kind # "root"
  BY <1>1, CreatedIsItem DEF Inv, ItemsInv, Item
<1>3. items[i].kind # "delivery"
  BY <1>1 DEF Children, Inv, RowsInv, RoleOf
<1>4. items[i].kind \in {"planner", "task", "repair"}
  BY <1>2, <1>3 DEF Kinds
<1> QED
  BY <1>1, <1>4 DEF WorkInv, HasTask

\* The planner the daemon runs has proposed tasks for the request.
LEMMA PlannerHasTasks ==
  ASSUME Inv, Follows, pc[Daemon] = "settle", my[Daemon].batch # <<>>,
         my[Daemon].item \in Children(Root), items[my[Daemon].item].kind = "planner"
  PROVE  HasTask
<1>1. my[Daemon].parent = Root
  <2>1. Has(my[Daemon].item) /\ meta[my[Daemon].item].parent = Root /\ meta[my[Daemon].item].role = "planner"
    BY DEF Children, Inv, RowsInv, RoleOf
  <2> QED
    BY <2>1 DEF Follows, HandFollows, PlannerParent
<1>2. PICK b : b = my[Daemon].batch
  OBVIOUS
<1>3. b \in Seq({NoParent} \cup ItemIds) /\ b # <<>>
  BY <1>2, DaemonIsThread DEF Inv, TypeOK, Locals
<1>4. 1 \in DOMAIN b /\ b[1] \in ToSet(b)
  BY <1>3 DEF ToSet
<1>5. b[1] # NoParent
  BY <1>2, <1>4 DEF Follows, HandFollows
<1>6. b[1] \in Created /\ items[b[1]].kind = "task" /\ Has(b[1]) /\ meta[b[1]].parent = Root
  BY <1>1, <1>2, <1>4, <1>5, DaemonIsThread DEF Inv, Hand, BatchInHand
<1>7. b[1] \in Children(Root)
  BY <1>6, CreatedIsItem DEF Children, Inv
<1> QED
  BY <1>6, <1>7 DEF HasTask

LEMMA DaemonWorks ==
  ASSUME Inv, Alone, Follows, WorkInv, ThreadStep(Daemon), Follows',
         asked + faults + moved = 0, faults = 0, faults' = 0
  PROVE  /\ (\A i \in Children(Root) : items[i].kind = "planner" /\ State(i) \in Quiet => HasTask)'
         /\ (my[Daemon].claim /\ my[Daemon].planner /\ pc[Daemon] = "settle" => my[Daemon].batch # <<>>)'
         /\ (pc[Daemon] \in DeliverSteps \/ State(Root) = "Done" => HasTask)'
<1>1. Kept /\ (StatesOnly \/ Creates(Daemon)) /\ Inv'
  BY DaemonIsThread, ThreadStepEffect, ItemsChange, EffectKeepsInv DEF Effect
<1>2. HasTask => HasTask'
  BY <1>1, TasksStay
<1>3. \A i \in Created : State(i)' = State(i) \/ MoveOf(i)
  <2>1. CASE Creates(Daemon)
    BY <2>1 DEF Creates, Grown, State
  <2> QED
    BY <1>1, <2>1, StateTurn
<1>4. \A i \in Children(Root) : i \in Created /\ i # Root /\ i \in ItemIds /\ Has(i)
  BY RootIsItem DEF Children, Inv, RowsInv
<1>5. ASSUME NEW i \in Children(Root)', items'[i].kind = "planner", State(i)' \in Quiet
      PROVE  HasTask'
  <2>1. CASE i \notin Children(Root)
    <3>1. pc[Daemon] \in MetaSteps /\ i = my[Daemon].new /\ UNCHANGED items
      BY <2>1, DaemonIsThread, NewChild
    <3>2. State(i)' \in {"Ready", "Backlog"}
      BY <3>1 DEF Follows, HandFollows, State
    <3> QED
      BY <1>5, <3>2 DEF Quiet, SuccessStates
  <2>2. CASE i \in Children(Root) /\ State(i) \in Quiet
    <3>1. items[i].kind = "planner"
      BY <1>1, <1>4, <1>5, <2>2 DEF Kept
    <3> QED
      BY <1>2, <2>2, <3>1 DEF WorkInv
  <2>3. CASE i \in Children(Root) /\ State(i) \notin Quiet
    <3>1. items[i].kind = "planner" /\ i \in Created /\ meta[i].role = "planner" /\ meta[i].depth >= 1
          /\ i # Root
      BY <1>1, <1>4, <1>5, <2>3 DEF Kept, Inv, RowsInv, RoleOf
    <3>2. ~Claim(Daemon, i)
      <4>1. Claim(Daemon, i) => State(i)' = "Running"
        BY <3>1, MovedMoves DEF Claim, States
      <4> QED
        BY <1>5, <4>1 DEF Quiet, SuccessStates
    <3>3. ~(my[Daemon].claim /\ my[Daemon].item \in TaskChildren(i))
      <4>1. my[Daemon].claim => my[Daemon].item # Root
        BY DEF Follows, HandFollows
      <4>2. my[Daemon].item \in TaskChildren(i) =>
               my[Daemon].item \in ItemIds /\ Has(my[Daemon].item) /\ meta[my[Daemon].item].parent = i
        BY TasksOf
      <4> QED
        BY <1>4, <2>3, <3>1, <4>1, <4>2 DEF Follows, RowsFollow
    <3>4. Depth(i) # 0
      BY <1>4, <2>3, <3>1 DEF Depth
    <3>5. /\ my[Daemon].claim /\ i = my[Daemon].item
          /\ State(i)' = "Needs Input" \/ pc[Daemon] \in {"settle", "repairMove"}
      BY <1>3, <1>5, <2>3, <3>1, <3>2, <3>3, <3>4 DEF MoveOf, Quiet, SuccessStates
    <3>6. my[Daemon].planner /\ pc[Daemon] # "repairMove"
      BY <3>1, <3>5, DaemonIsThread DEF Inv, Hand, ItemInHand, RepairSteps
    <3>7. pc[Daemon] = "settle"
      BY <1>5, <3>5, <3>6 DEF Quiet, SuccessStates
    <3>8. my[Daemon].batch # <<>>
      BY <3>5, <3>6, <3>7 DEF WorkInv
    <3> QED
      BY <1>2, <2>3, <3>1, <3>5, <3>7, <3>8, PlannerHasTasks
  <2> QED
    BY <2>1, <2>2, <2>3
<1>6. (my[Daemon].claim /\ my[Daemon].planner /\ pc[Daemon] = "settle" => my[Daemon].batch # <<>>)'
  BY SettleTurn
<1>7. ASSUME pc'[Daemon] \in DeliverSteps
      PROVE  HasTask'
  <2>1. CASE pc[Daemon] \in DeliverSteps
    BY <1>2, <2>1 DEF WorkInv
  <2>2. CASE pc[Daemon] \notin DeliverSteps
    <3>1. pc'[Daemon] = "deliver"
      BY <1>7, <2>2, DaemonAlone DEF AloneTurn, DeliverSteps
    <3>2. PICK i \in TaskChildren(Root) : State(i) \in SuccessStates
      BY <3>1, DeliverTurn DEF Succeeded
    <3> QED
      BY <1>2, <3>2, TasksBehind DEF Quiet
  <2> QED
    BY <2>1, <2>2
<1>8. ASSUME State(Root)' = "Done"
      PROVE  HasTask'
  <2>1. Root \in Created
    BY TasksOf
  <2>2. State(Root) = "Done" \/ pc[Daemon] = "closeRoot"
    <3>1. ~(my[Daemon].claim /\ my[Daemon].item = Root)
      BY DEF Follows, HandFollows
    <3> QED
      BY <1>3, <1>8, <2>1, <3>1 DEF MoveOf
  <2> QED
    BY <1>2, <2>2 DEF WorkInv, DeliverSteps
<1> QED
  BY <1>5, <1>6, <1>7, <1>8

LEMMA OthersWork ==
  ASSUME Inv, AloneInv, WorkInv, [Next]_vars, ~\E t \in Threads : ThreadStep(t)
  PROVE  WorkInv'
<1>1. asked \in Nat /\ faults \in Nat /\ crashes \in Nat /\ moved \in Nat /\ Root \in Created
  BY CountersAreNat, TasksOf
<1>2. {"Ready", "Human Review", "Needs Input"} \subseteq States
  BY DEF States
<1>3. UNCHANGED meta
  BY DEF Next, Reconcile, Crash, Request, ReleaseClaim, HumanMoves, vars, tables
<1>4. StatesOnly
  <2>1. CASE Reconcile
    BY <1>2, <2>1, MovedStates DEF Reconcile
  <2>2. CASE \E i \in ItemIds : ReleaseClaim(i)
    BY <1>2, <2>2, MovedStates, SameStates DEF ReleaseClaim
  <2>3. CASE \E i \in ItemIds : HumanMoves(i)
    BY <1>2, <2>3, MovedStates DEF HumanMoves
  <2>4. CASE UNCHANGED items
    BY <2>4, SameStates
  <2> QED
    BY <2>1, <2>2, <2>3, <2>4 DEF Next, Crash, Request, vars
<1>5. \A i \in Children(Root) : i \in Created /\ items'[i].kind = items[i].kind
  BY <1>4 DEF StatesOnly, Children, Inv, RowsInv
<1>6. Children(Root)' = Children(Root) /\ HasTask' = HasTask
  <2>1. Children(Root)' = Children(Root)
    BY <1>3 DEF Children, Has
  <2> QED
    BY <1>5, <2>1 DEF HasTask
<1>7. ASSUME (asked + faults + moved = 0)'
      PROVE  /\ asked + faults + moved = 0
             /\ \/ UNCHANGED <<items, my, pc>> \/ Reconcile
                \/ \E i \in ItemIds : ReleaseClaim(i)
                \/ (UNCHANGED items /\ pc'[Daemon] = "idle" /\ my'[Daemon] = Fresh)
  <2>1. /\ (\E i \in ItemIds : HumanMoves(i)) => moved' = moved + 1 /\ UNCHANGED <<asked, faults>>
        /\ (\E t \in Requests, i \in ItemIds : Request(t, i)) => asked' = asked + 1 /\ UNCHANGED <<faults, moved>>
    BY DEF HumanMoves, Request
  <2>2. ~(\E i \in ItemIds : HumanMoves(i)) /\ ~(\E t \in Requests, i \in ItemIds : Request(t, i))
    BY <1>1, <1>7, <2>1
  <2>3. Crash => /\ UNCHANGED <<items, asked, faults, moved>>
                 /\ pc'[Daemon] = "idle" /\ my'[Daemon] = Fresh
    BY DaemonIsThread DEF Crash
  <2>4. Reconcile \/ (\E i \in ItemIds : ReleaseClaim(i)) => UNCHANGED <<asked, faults, moved>>
    BY DEF Reconcile, ReleaseClaim, counters
  <2>5. UNCHANGED vars => UNCHANGED <<items, my, pc, asked, faults, moved>>
    BY DEF vars, threads, counters
  <2> QED
    BY <1>7, <2>2, <2>3, <2>4, <2>5 DEF Next
<1>8. ASSUME (asked + faults + moved = 0)', NEW i \in Created, State(i)' \in Quiet
      PROVE  State(i) \in Quiet /\ (State(i)' = "Done" => State(i) = "Done")
  <2>1. CASE UNCHANGED items
    BY <1>8, <2>1 DEF State
  <2>2. CASE Reconcile
    <3>1. PICK S : Moved(S, "Human Review") /\ \A p \in S : State(p) = "Planning"
      <4> DEFINE S == {p \in Created : /\ State(p) = "Planning" /\ ~FullAuto(p)
                                       /\ Children(p) # {} /\ Succeeded(Children(p))}
      <4>1. Moved(S, "Human Review") /\ \A p \in S : State(p) = "Planning"
        BY <2>2 DEF Reconcile
      <4> QED
        BY <4>1
    <3>2. \A j \in Created : State(j)' = IF j \in S THEN "Human Review" ELSE State(j)
      BY <1>2, <3>1, MovedMoves
    <3> QED
      BY <1>8, <3>1, <3>2 DEF Quiet, SuccessStates
  <2>3. CASE \E j \in ItemIds : ReleaseClaim(j)
    <3>1. PICK j \in ItemIds : ReleaseClaim(j)
      BY <2>3
    <3>2. UNCHANGED items \/ \A k \in Created : State(k)' = IF k \in {j} THEN "Needs Input" ELSE State(k)
      BY <1>2, <3>1, MovedMoves DEF ReleaseClaim
    <3> QED
      BY <1>8, <2>1, <3>2 DEF Quiet, SuccessStates
  <2> QED
    BY <1>7, <1>8, <2>1, <2>2, <2>3
<1>9. (\A i \in Children(Root) : items[i].kind = "repair" => HasTask)'
  BY <1>5, <1>6 DEF WorkInv
<1>10. ASSUME (asked + faults + moved = 0)'
       PROVE  /\ (\A i \in Children(Root) : items[i].kind = "planner" /\ State(i) \in Quiet => HasTask)'
              /\ (my[Daemon].claim /\ my[Daemon].planner /\ pc[Daemon] = "settle" => my[Daemon].batch # <<>>)'
              /\ (pc[Daemon] \in DeliverSteps \/ State(Root) = "Done" => HasTask)'
  <2>1. \/ UNCHANGED <<my, pc>>
        \/ pc'[Daemon] \in {"idle", "begin"}
    <3>1. Reconcile => pc'[Daemon] = "begin"
      BY DaemonIsThread DEF Reconcile, Goto, Inv, TypeOK
    <3>2. (\E i \in ItemIds : ReleaseClaim(i)) => UNCHANGED <<my, pc>>
      BY DEF ReleaseClaim, threads
    <3> QED
      BY <1>7, <1>10, <3>1, <3>2
  <2>2. asked + faults + moved = 0
    BY <1>7, <1>10
  <2>3. (\A i \in Children(Root) : items[i].kind = "planner" /\ State(i) \in Quiet => HasTask)'
    BY <1>5, <1>6, <1>8, <1>10, <2>2 DEF WorkInv
  <2>4. (my[Daemon].claim /\ my[Daemon].planner /\ pc[Daemon] = "settle" => my[Daemon].batch # <<>>)'
    BY <2>1, <2>2 DEF WorkInv
  <2>5. State(Root)' = "Done" => State(Root) = "Done"
    BY <1>1, <1>8, <1>10 DEF Quiet, SuccessStates
  <2>6. pc'[Daemon] \in DeliverSteps => pc[Daemon] \in DeliverSteps
    BY <2>1 DEF DeliverSteps
  <2> QED
    BY <1>6, <2>2, <2>3, <2>4, <2>5, <2>6 DEF WorkInv
<1> QED
  BY <1>9, <1>10 DEF WorkInv

LEMMA InitWork == Init => WorkInv
<1> SUFFICES ASSUME Init PROVE WorkInv
  OBVIOUS
<1>1. Children(Root) = {}
  BY RootIsItem DEF Init, Children, Has
<1>2. pc[Daemon] = "idle" /\ State(Root) = "Ready"
  BY DaemonIsThread DEF Init, State, Root, Plain
<1> QED
  BY <1>1, <1>2 DEF WorkInv, DeliverSteps

LEMMA SumOfNone ==
  ASSUME NEW a \in Nat, NEW b \in Nat, NEW c \in Nat, a + b + c = 0
  PROVE  a = 0 /\ b = 0 /\ c = 0
OBVIOUS

LEMMA NextWork == Inv /\ AloneInv /\ CalmInv /\ WorkInv /\ [Next]_vars => WorkInv'
<1> SUFFICES ASSUME Inv, AloneInv, CalmInv, WorkInv, [Next]_vars PROVE WorkInv'
  OBVIOUS
<1>1. ASSUME NEW t \in Threads, ThreadStep(t)
      PROVE  WorkInv'
  <2>1. (\A i \in Children(Root) : items[i].kind = "repair" => HasTask)'
    BY <1>1, RepairsOfTasks
  <2>2. ASSUME (asked + faults + moved = 0)'
        PROVE  /\ (\A i \in Children(Root) : items[i].kind = "planner" /\ State(i) \in Quiet => HasTask)'
               /\ (my[Daemon].claim /\ my[Daemon].planner /\ pc[Daemon] = "settle" =>
                     my[Daemon].batch # <<>>)'
               /\ (pc[Daemon] \in DeliverSteps \/ State(Root) = "Done" => HasTask)'
    <3>1. asked \in Nat /\ faults \in Nat /\ moved \in Nat
      BY CountersAreNat
    <3>2. Turn(t)
      BY <1>1, ThreadTurn
    <3>3. asked = 0 /\ faults = 0 /\ moved = 0 /\ faults' = 0 /\ asked + faults + moved = 0
      <4>1. asked' = asked /\ moved' = moved /\ faults' \in {faults, faults + 1}
        BY <3>2 DEF Turn
      <4>2. asked' + faults' + moved' = 0
        BY <2>2
      <4>3. faults' \in Nat
        BY <3>1, <4>1
      <4>4. asked + faults' + moved = 0
        BY <4>1, <4>2
      <4>5. asked = 0 /\ faults' = 0 /\ moved = 0
        BY <3>1, <4>3, <4>4, SumOfNone
      <4> QED
        BY <3>1, <4>1, <4>5
    <3>4. Alone /\ Follows
      BY <3>3 DEF AloneInv, CalmInv, Calm
    <3>5. t = Daemon
      BY <3>2, <3>4 DEF Turn, Alone, Threads
    <3>6. Follows'
      BY <1>1, <3>3, <3>4, <3>5, DaemonFollows
    <3> QED
      BY <1>1, <3>3, <3>4, <3>5, <3>6, DaemonWorks
  <2> QED
    BY <2>1, <2>2 DEF WorkInv
<1>2. CASE ~\E t \in Threads : ThreadStep(t)
  BY <1>2, OthersWork
<1> QED
  BY <1>1, <1>2

LEMMA CalmHolds == Spec => [](Inv /\ AloneInv /\ DeliverInv /\ CalmInv /\ WorkInv)
<1> DEFINE I == Inv /\ AloneInv /\ DeliverInv /\ CalmInv /\ WorkInv
<1>1. Init => I
  BY InitInv, InitAlone, InitCalm, InitWork
<1>2. I /\ [Next]_vars => I'
  BY NextInv, NextAlone, NextCalm, NextWork
<1> QED
  BY <1>1, <1>2, PTL DEF Spec

\* The daemon closes a request only after a task proposed for it has succeeded, even if
\* the process crashes in between.
THEOREM ClosedAfterWork == Spec => []ClosedOnlyWithWork
<1>1. Inv /\ CalmInv /\ WorkInv => ClosedOnlyWithWork
  <2> SUFFICES ASSUME Inv, CalmInv, WorkInv, State(Root) = "Done", asked + faults + moved = 0
               PROVE  \E i \in OfKind("task") : State(i) \in SuccessStates
    BY DEF ClosedOnlyWithWork
  <2>1. PICK i \in Children(Root) : items[i].kind = "task"
    BY DEF WorkInv, HasTask
  <2>2. i \in Created /\ i \in TaskChildren(Root)
    BY <2>1 DEF TaskChildren, Children, Inv, RowsInv, RoleOf
  <2>3. Succeeded(TaskChildren(Root))
    <3>1. asked = 0 /\ faults = 0 /\ moved = 0
      BY CountersAreNat
    <3>2. Root \in Created /\ State(Root) \in SuccessStates
      BY TasksOf DEF SuccessStates
    <3> QED
      BY <3>1, <3>2 DEF CalmInv, Calm, Follows, TasksFollow
  <2> QED
    BY <2>1, <2>2, <2>3 DEF OfKind, Succeeded
<1> QED
  BY <1>1, CalmHolds, PTL

-----------------------------------------------------------------------------
(* What is recorded of the tasks, undisturbed *)

\* Every item has its row but the one just made, and the row names the dependencies
\* the item was made with: tasks that exist.
NeedsOf(t) == IF pc[t] = "proposeMeta" THEN ResolvedNeeds(t, my[t].new) ELSE {}
Recorded ==
    /\ \A i \in Created : Has(i) \/ (pc[Daemon] \in MetaSteps /\ my[Daemon].new = i)
    /\ \A i \in Created : Has(i) /\ items[i].kind # "delivery" => meta[i].deps = items[i].needs
    /\ pc[Daemon] \in MetaSteps => items[my[Daemon].new].needs = NeedsOf(Daemon)
    /\ \A i \in Created : \A d \in items[i].needs : d \in Created /\ items[d].kind = "task"
RecordedInv == ~Disturbed => Recorded

LEMMA Undisturbed ==
  ASSUME Inv, ~Disturbed
  PROVE  asked = 0 /\ faults = 0 /\ crashes = 0 /\ Calm
<1>1. asked \in Nat /\ faults \in Nat /\ crashes \in Nat /\ ~(asked + faults + crashes > 0)
  BY CountersAreNat DEF Disturbed, Disturbances
<1>2. asked = 0 /\ faults = 0 /\ crashes = 0
  BY <1>1
<1> QED
  BY <1>2 DEF Calm

LEMMA NoneOfThree ==
  ASSUME NEW a \in Nat, NEW b \in Nat, NEW c \in Nat, ~(a + b + c > 0)
  PROVE  a = 0 /\ b = 0 /\ c = 0
OBVIOUS

LEMMA UndisturbedAfter ==
  ASSUME Inv', ~Disturbed'
  PROVE  asked' = 0 /\ faults' = 0 /\ crashes' = 0
<1>1. asked' \in Nat /\ faults' \in Nat /\ crashes' \in Nat
  BY TaskGraphAssumption DEF Inv, TypeOK
<1>2. ~(asked' + faults' + crashes' > 0)
  BY DEF Disturbed, Disturbances
<1> QED
  BY <1>1, <1>2, NoneOfThree

LEMMA NeedsAreTasks ==
  ASSUME Inv, NEW t \in Threads, pc[t] \in ProposeSteps, Len(my[t].batch) < Len(my[t].plan),
         NEW self \in ItemIds, NEW d \in ResolvedNeeds(t, self)
  PROVE  d = self \/ (d \in Created /\ items[d].kind = "task")
<1>1. my[t].batch \in Seq({NoParent} \cup ItemIds) /\ my[t].plan \in Seq(SUBSET (1..MaxItems))
  BY DEF Inv, TypeOK, Locals
<1>2. PICK b : b = my[t].batch
  OBVIOUS
<1>3. b \in Seq({NoParent} \cup ItemIds) /\ Len(b) \in Nat
  BY <1>1, <1>2
<1>4. PICK j \in DOMAIN Append(b, self) : d = Append(b, self)[j] /\ d # NoParent
  BY <1>2 DEF ResolvedNeeds
<1>5. d = self \/ (j \in DOMAIN b /\ d = b[j])
  BY <1>3, <1>4
<1>6. \A k \in DOMAIN b : b[k] # NoParent => b[k] \in Created /\ items[b[k]].kind = "task"
  BY <1>2 DEF Inv, Hand, BatchInHand
<1> QED
  BY <1>4, <1>5, <1>6

\* An item just made waits for its row.
LEMMA CreatesRecorded ==
  ASSUME Inv, Recorded, ThreadStep(Daemon), Creates(Daemon), faults' = faults
  PROVE  Recorded'
<1>1. /\ UNCHANGED meta /\ Created = 1..Len(items) /\ Created' = 1..Len(items') /\ Len(items) \in Nat
      /\ Len(items') = Len(items) + 1 /\ \A i \in Created : items'[i] = items[i]
      /\ Len(items') <= MaxItems
      /\ items'[Len(items')].kind = KindMade[MetaStep[pc[Daemon]]]
  <2>1. /\ UNCHANGED meta /\ Created = 1..Len(items) /\ Created' = 1..Len(items') /\ Len(items) \in Nat
        /\ Len(items') = Len(items) + 1 + (faults' - faults) /\ \A i \in Created : items'[i] = items[i]
        /\ Len(items') <= MaxItems
        /\ \A i \in Created' \ Created : items'[i].kind = KindMade[MetaStep[pc[Daemon]]]
    BY CreatedIsItem DEF Creates, Grown, Inv
  <2>2. faults \in Nat
    BY CountersAreNat
  <2>3. Len(items') = Len(items) + 1
    BY <2>1, <2>2
  <2> QED
    BY <2>1, <2>3
<1>2. PICK n : n = Len(items')
  OBVIOUS
<1>3. /\ n \in ItemIds /\ n \notin Created /\ Created' = Created \cup {n}
      /\ my'[Daemon].new = n
      /\ my'[Daemon].batch = my[Daemon].batch /\ my'[Daemon].plan = my[Daemon].plan
  <2>1. /\ my'[Daemon].new = n
        /\ my'[Daemon].batch = my[Daemon].batch /\ my'[Daemon].plan = my[Daemon].plan
    BY <1>2, DaemonIsThread DEF Creates, Inv, TypeOK, Locals
  <2> QED
    BY <1>1, <1>2, <2>1, TaskGraphAssumption DEF ItemIds
<1>4. /\ pc[Daemon] \notin MetaSteps /\ pc'[Daemon] \in MetaSteps
      /\ pc'[Daemon] = "proposeMeta" <=> pc[Daemon] = "propose"
  BY DEF Creates, CreateSteps, MetaSteps, MetaStep
<1>5. items'[n].needs = IF pc[Daemon] = "propose" THEN ResolvedNeeds(Daemon, n) ELSE {}
  BY <1>1, <1>3, WhatIsMade
<1>6. \A i \in Created : Has(i)' /\ meta'[i] = meta[i]
  BY <1>1, <1>4 DEF Recorded, Has
<1>7. ~Has(n)'
  BY <1>1, <1>3 DEF Has, Inv, RowsInv
<1>8. NeedsOf(Daemon)' = items'[n].needs
  <2>1. (ResolvedNeeds(Daemon, my[Daemon].new))' = ResolvedNeeds(Daemon, n)
    <3>1. PICK b, p : b = my[Daemon].batch /\ p = my[Daemon].plan
      OBVIOUS
    <3>2. b = my'[Daemon].batch /\ p = my'[Daemon].plan
      BY <1>3, <3>1
    <3>3. ResolvedNeeds(Daemon, n) =
             {Append(b, n)[j] : j \in p[Len(Append(b, n))] \cap DOMAIN Append(b, n)} \ {NoParent}
      BY <3>1 DEF ResolvedNeeds
    <3>4. (ResolvedNeeds(Daemon, my[Daemon].new))' =
             {Append(b, n)[j] : j \in p[Len(Append(b, n))] \cap DOMAIN Append(b, n)} \ {NoParent}
      BY <1>3, <3>2 DEF ResolvedNeeds
    <3> QED
      BY <3>3, <3>4
  <2>2. NeedsOf(Daemon)' = IF pc'[Daemon] = "proposeMeta" THEN (ResolvedNeeds(Daemon, my[Daemon].new))'
                           ELSE {}
    BY DEF NeedsOf
  <2> QED
    BY <1>4, <1>5, <2>1, <2>2
<1>9. ASSUME NEW d \in items'[n].needs
      PROVE  d \in Created' /\ items'[d].kind = "task"
  <2>1. pc[Daemon] = "propose" /\ d \in ResolvedNeeds(Daemon, n)
    BY <1>5, <1>9
  <2>2. Proposing(Daemon)
    <3>1. Len(my[Daemon].batch) < Len(my[Daemon].plan)
      <4>1. Inv' /\ pc'[Daemon] = "proposeMeta"
        BY <1>4, <2>1, DaemonIsThread, ThreadStepEffect, EffectKeepsInv
      <4>2. Len(my'[Daemon].batch) < Len(my'[Daemon].plan)
        BY <4>1, DaemonIsThread DEF Inv, Hand, NewInHand
      <4> QED
        BY <1>3, <4>2
    <3> QED
      BY <2>1, <3>1 DEF Proposing
  <2>3. d = n \/ (d \in Created /\ items[d].kind = "task")
    BY <1>3, <2>1, <2>2, DaemonIsThread, NeedsAreTasks DEF ProposeSteps, Proposing
  <2>4. items'[n].kind = "task"
    BY <1>1, <1>2, <2>1 DEF KindMade, MetaStep
  <2> QED
    BY <1>1, <1>3, <2>3, <2>4
<1>10. (\A i \in Created : Has(i) \/ (pc[Daemon] \in MetaSteps /\ my[Daemon].new = i))'
  BY <1>3, <1>4, <1>6
<1>11. (\A i \in Created : Has(i) /\ items[i].kind # "delivery" => meta[i].deps = items[i].needs)'
  <2> SUFFICES ASSUME NEW i \in Created', Has(i)', items'[i].kind # "delivery"
               PROVE  meta'[i].deps = items'[i].needs
    OBVIOUS
  <2>1. i \in Created
    BY <1>3, <1>7
  <2> QED
    BY <1>1, <1>6, <2>1 DEF Recorded, Has
<1>12. \A i \in Created' : \A d \in items'[i].needs : d \in Created' /\ items'[d].kind = "task"
  BY <1>1, <1>3, <1>9 DEF Recorded
<1> QED
  BY <1>3, <1>8, <1>10, <1>11, <1>12 DEF Recorded

LEMMA RowRecorded ==
  ASSUME Inv, Recorded, pc[Daemon] \in MetaSteps, UNCHANGED items, pc'[Daemon] \notin MetaSteps,
         NEW role \in Roles, NEW parent, NEW depth, NEW mode, NEW deps,
         WriteMeta(Daemon, role, parent, depth, mode, deps),
         deps = NeedsOf(Daemon) \/ pc[Daemon] = "deliverMeta"
  PROVE  Recorded'
<1>1. PICK n \in ItemIds : n = my[Daemon].new
  BY DaemonIsThread, NewRow
<1>2. /\ n \in Created /\ \A i \in ItemIds \ {n} : meta'[i] = meta[i]
      /\ meta'[n] # NoMeta /\ meta'[n].deps = deps /\ items[n].kind = KindMade[pc[Daemon]]
  BY <1>1, DaemonIsThread, NewRow
<1>3. items[n].kind # "delivery" => deps = items[n].needs
  BY <1>1, <1>2 DEF Recorded, KindMade
<1>4. Created' = Created /\ Created \subseteq ItemIds
  BY CreatedIsItem DEF Created, Inv
<1>5. \A i \in Created : Has(i)'
  BY <1>1, <1>2, <1>4 DEF Recorded, Has
<1>6. \A i \in Created : items[i].kind # "delivery" => meta'[i].deps = items[i].needs
  BY <1>1, <1>2, <1>3, <1>4 DEF Recorded, Has
<1> QED
  BY <1>4, <1>5, <1>6 DEF Recorded

\* A step that changes states only makes nothing to record.
LEMMA MovesRecorded ==
  ASSUME Inv, Recorded, StatesOnly, UNCHANGED meta,
         UNCHANGED <<pc, my>> \/ (pc[Daemon] \notin MetaSteps /\ pc'[Daemon] \notin MetaSteps)
  PROVE  Recorded'
<1>1. /\ Created' = Created
      /\ \A i \in Created : items'[i].kind = items[i].kind /\ items'[i].needs = items[i].needs
      /\ \A i : Has(i)' = Has(i)
  BY DEF StatesOnly, Has
<1>2. (\A i \in Created : Has(i) \/ (pc[Daemon] \in MetaSteps /\ my[Daemon].new = i))'
  BY <1>1 DEF Recorded
<1>3. (\A i \in Created : Has(i) /\ items[i].kind # "delivery" => meta[i].deps = items[i].needs)'
  BY <1>1 DEF Recorded
<1>4. (pc[Daemon] \in MetaSteps => items[my[Daemon].new].needs = NeedsOf(Daemon))'
  <2>1. pc[Daemon] \in MetaSteps => my[Daemon].new \in Created
    BY DaemonIsThread DEF Inv, Hand, NewInHand
  <2>2. UNCHANGED <<pc, my>> => NeedsOf(Daemon)' = NeedsOf(Daemon)
    BY DEF NeedsOf, ResolvedNeeds
  <2> QED
    BY <1>1, <2>1, <2>2 DEF Recorded
<1>5. (\A i \in Created : \A d \in items[i].needs : d \in Created /\ items[d].kind = "task")'
  BY <1>1 DEF Recorded
<1> QED
  BY <1>2, <1>3, <1>4, <1>5 DEF Recorded

LEMMA NoneAwaitsItsRow ==
  ASSUME Inv, ThreadStep(Daemon), StatesOnly, faults = 0, faults' = 0
  PROVE  pc'[Daemon] \notin MetaSteps
<1> SUFFICES ASSUME pc'[Daemon] \in MetaSteps PROVE FALSE
  OBVIOUS
<1>1. ASSUME NEW q, Goto(Daemon, q)
      PROVE  q \in MetaSteps
  BY <1>1, DaemonIsThread DEF Goto, Inv, TypeOK
<1>2. ~Return(Daemon) /\ \A i : ~Claim(Daemon, i)
  <2>1. Return(Daemon) => Goto(Daemon, "idle")
    BY DEF Return
  <2>2. \A i : Claim(Daemon, i) => Goto(Daemon, "run")
    BY DEF Claim
  <2> QED
    BY <1>1, <2>1, <2>2 DEF MetaSteps
<1>3. /\ \A s, S, s2 : ~FinishRun(Daemon, s, S, s2)
      /\ \A S : ~RunRaises(Daemon, S)
      /\ ~RunItself(Daemon)
  BY <1>2 DEF FinishRun, RunRaises, RunItself
<1>4. /\ \A q \in {"closeRoot", "deliver", "pick", "plan", "planMove", "propose", "settle", "repair",
                   "repairMove"} : ~Goto(Daemon, q)
  BY <1>1 DEF MetaSteps
<1>5. ~BeginRunOnce(Daemon) /\ ~DeliverMeta(Daemon) /\ ~CloseRoot(Daemon) /\ ~NothingToDo(Daemon)
  BY <1>2, <1>3, <1>4 DEF BeginRunOnce, DeliverMeta, CloseRoot, NothingToDo
<1>6. ~PlannerMeta(Daemon) /\ ~PlannerMove(Daemon)
  BY <1>2, <1>3, <1>4 DEF PlannerMeta, PlannerMove
<1>7. \A i \in ItemIds : ~Pick(Daemon, i)
  BY <1>2, <1>4 DEF Pick, ParentWaits, SplitRequest, StartRun, Propose, Set
<1>8. /\ ~RunProposes(Daemon) /\ ~RunBlocked(Daemon) /\ ~TaskMeta(Daemon)
      /\ ~RepairMeta(Daemon) /\ ~RepairMove(Daemon) /\ ~RunSucceeds(Daemon)
  BY <1>3, <1>4 DEF RunProposes, RunBlocked, TaskMeta, RepairMeta, RepairMove, Propose, Set, RunSucceeds
<1>9. ~Proposed(Daemon)
  BY <1>2, <1>3, <1>4 DEF Proposed
<1>10. ~Settle(Daemon)
  BY <1>3, <1>4 DEF Settle
<1> QED
  BY <1>5, <1>6, <1>7, <1>8, <1>9, <1>10, NothingMade DEF ThreadStep, RunStep, BeforeDispatch, PlanStep

LEMMA DaemonRecords ==
  ASSUME Inv, Recorded, ThreadStep(Daemon), faults = 0, faults' = 0
  PROVE  Recorded'
<1>1. StatesOnly \/ Creates(Daemon)
  BY DaemonIsThread, ItemsChange
<1>2. CASE Creates(Daemon)
  BY <1>2, CreatesRecorded
<1> SUFFICES ASSUME StatesOnly PROVE Recorded'
  BY <1>1, <1>2
<1>3. pc'[Daemon] \notin MetaSteps
  BY NoneAwaitsItsRow
<1>4. CASE DeliverMeta(Daemon)
  <2>1. pc[Daemon] \in MetaSteps /\ "delivery_manager" \in Roles /\ UNCHANGED items
    BY <1>4 DEF DeliverMeta, MetaSteps, Roles
  <2>2. WriteMeta(Daemon, "delivery_manager", Root, 1, "full_auto", {Root}) /\ pc[Daemon] = "deliverMeta"
    BY <1>4 DEF DeliverMeta
  <2> QED
    BY <1>3, <2>1, <2>2, RowRecorded
<1>5. CASE PlannerMeta(Daemon)
  <2>1. pc[Daemon] \in MetaSteps /\ "planner" \in Roles /\ UNCHANGED items /\ NeedsOf(Daemon) = {}
    BY <1>5 DEF PlannerMeta, MetaSteps, Roles, NeedsOf
  <2>2. WriteMeta(Daemon, "planner", my[Daemon].item, 1, RunMode(my[Daemon].item), {})
    BY <1>5 DEF PlannerMeta
  <2> QED
    BY <1>3, <2>1, <2>2, RowRecorded
<1>6. CASE TaskMeta(Daemon)
  <2>1. /\ pc[Daemon] \in MetaSteps /\ "worker" \in Roles /\ UNCHANGED items
        /\ NeedsOf(Daemon) = ResolvedNeeds(Daemon, my[Daemon].new)
    BY <1>6 DEF TaskMeta, MetaSteps, Roles, NeedsOf
  <2>2. WriteMeta(Daemon, "worker", my[Daemon].parent, my[Daemon].depth, my[Daemon].mode,
                  ResolvedNeeds(Daemon, my[Daemon].new))
    BY <1>6 DEF TaskMeta
  <2> QED
    BY <1>3, <2>1, <2>2, RowRecorded
<1>7. CASE RepairMeta(Daemon)
  <2>1. pc[Daemon] \in MetaSteps /\ "worker" \in Roles /\ UNCHANGED items /\ NeedsOf(Daemon) = {}
    BY <1>7 DEF RepairMeta, MetaSteps, Roles, NeedsOf
  <2>2. WriteMeta(Daemon, "worker", meta[my[Daemon].item].parent, meta[my[Daemon].item].depth + 1,
                  "full_auto", {})
    BY <1>7 DEF RepairMeta
  <2> QED
    BY <1>3, <2>1, <2>2, RowRecorded
<1>8. CASE pc[Daemon] \notin MetaSteps
  <2>1. UNCHANGED meta
    BY <1>8, DaemonIsThread, RowsChange DEF DeliverMeta, PlannerMeta, TaskMeta, RepairMeta, MetaSteps
  <2> QED
    BY <1>3, <1>8, <2>1, MovesRecorded
<1>9. CASE pc[Daemon] \in MetaSteps
  <2>1. ~BeforeDispatch(Daemon) \/ DeliverMeta(Daemon)
    BY <1>9 DEF MetaSteps, BeforeDispatch, BeginRunOnce, Deliver, CloseRoot
  <2>2. ~PlanStep(Daemon) \/ PlannerMeta(Daemon)
    BY <1>9 DEF MetaSteps, PlanStep, CreatePlanner, PlannerMove
  <2>3. ~RunStep(Daemon) \/ TaskMeta(Daemon) \/ RepairMeta(Daemon)
    BY <1>9 DEF MetaSteps, RunStep, RunProposes, RunSucceeds, RunBlocked, CreateTask, Proposing,
      Proposed, Settle, CreateRepair, RepairMove
  <2>4. ~NothingToDo(Daemon) /\ \A i \in ItemIds : ~Pick(Daemon, i)
    BY <1>9 DEF MetaSteps, NothingToDo, Pick
  <2> QED
    BY <1>4, <1>5, <1>6, <1>7, <2>1, <2>2, <2>3, <2>4 DEF ThreadStep
<1> QED
  BY <1>8, <1>9

LEMMA NextRecorded == Inv /\ AloneInv /\ RecordedInv /\ [Next]_vars => RecordedInv'
<1> SUFFICES ASSUME Inv, AloneInv, RecordedInv, [Next]_vars, ~Disturbed' PROVE Recorded'
  BY DEF RecordedInv
<1>1. /\ asked \in Nat /\ faults \in Nat /\ crashes \in Nat /\ Inv'
      /\ asked' = 0 /\ faults' = 0 /\ crashes' = 0
  BY NextInv, CountersAreNat, Undisturbed, UndisturbedAfter
<1>2. {"Human Review", "Needs Input", "Ready"} \subseteq States
  BY DEF States
<1>3. ASSUME asked = 0, faults = 0, crashes = 0
      PROVE  Recorded /\ Alone
  BY <1>3 DEF RecordedInv, Disturbed, Disturbances, AloneInv
<1>4. CASE \E t \in Threads : ThreadStep(t)
  <2>1. PICK t \in Threads : ThreadStep(t)
    BY <1>4
  <2>2. Turn(t)
    BY <2>1, ThreadTurn
  <2>3. asked = 0 /\ faults = 0 /\ crashes = 0
    BY <1>1, <2>2 DEF Turn
  <2>4. t = Daemon
    BY <1>3, <2>2, <2>3 DEF Turn, Alone, Threads
  <2> QED
    BY <1>1, <1>3, <2>1, <2>3, <2>4, DaemonRecords
<1>5. ~\E t \in Requests, i \in ItemIds : Request(t, i)
  BY <1>1 DEF Request
<1>6. ~Crash
  BY <1>1 DEF Crash
<1>7. CASE Reconcile
  <2>1. /\ pc[Daemon] \notin MetaSteps /\ pc'[Daemon] \notin MetaSteps /\ UNCHANGED meta
        /\ asked = 0 /\ faults = 0 /\ crashes = 0
    BY <1>1, <1>7, DaemonIsThread DEF Reconcile, Goto, tables, counters, MetaSteps, Inv, TypeOK
  <2>2. StatesOnly
    BY <1>2, <1>7, MovedStates DEF Reconcile
  <2> QED
    BY <1>3, <2>1, <2>2, MovesRecorded
<1>8. CASE \E i \in ItemIds : ReleaseClaim(i) \/ HumanMoves(i)
  <2>1. /\ UNCHANGED <<pc, my>> /\ UNCHANGED meta
        /\ asked = 0 /\ faults = 0 /\ crashes = 0
    BY <1>1, <1>8 DEF ReleaseClaim, HumanMoves, tables, threads, counters
  <2>2. StatesOnly
    BY <1>2, <1>8, MovedStates, SameStates DEF ReleaseClaim, HumanMoves
  <2> QED
    BY <1>3, <2>1, <2>2, MovesRecorded
<1>9. CASE UNCHANGED vars
  <2>1. /\ UNCHANGED <<pc, my>> /\ UNCHANGED meta /\ UNCHANGED items
        /\ asked = 0 /\ faults = 0 /\ crashes = 0
    BY <1>1, <1>9 DEF vars, tables, threads, counters
  <2> QED
    BY <1>3, <2>1, SameStates, MovesRecorded
<1> QED
  BY <1>4, <1>5, <1>6, <1>7, <1>8, <1>9 DEF Next

LEMMA InitRecorded == Init => RecordedInv
<1> SUFFICES ASSUME Init PROVE Recorded
  BY DEF RecordedInv
<1>1. /\ Created = {Root} /\ items[Root] = Plain("root", "Ready")
  BY DEF Init, Created, Root, Plain
<1>2. Has(Root) /\ meta[Root].deps = {} /\ pc[Daemon] = "idle"
  BY RootIsItem, DaemonIsThread DEF Init, Has, NoMeta
<1> QED
  BY <1>1, <1>2 DEF Recorded, MetaSteps, Plain

-----------------------------------------------------------------------------
(* TaskGraph implements TaskOrder *)

Needs(i) == IF Phase(i) = "none" THEN {} ELSE items[i].needs

\* When the request's own tasks have succeeded, so have all those made for them: the
\* first that had not would be a task of one that had.
LEMMA SettledBelow ==
  ASSUME Inv, Follows, Recorded, pc[Daemon] \notin MetaSteps, Succeeded(TaskChildren(Root))
  PROVE  \A i \in Created : Phase(i) \in {"none", "finished"}
<1> DEFINE S == {i \in Created : Phase(i) \notin {"none", "finished"}}
           R == {ss \in Nat \X Nat : ss[1] < ss[2]}
<1> SUFFICES ASSUME S # {} PROVE FALSE
  OBVIOUS
<1>1. IsWellFoundedOn(R, Nat)
  BY NatLessThanWellFounded DEF OpToRel
<1>2. \A a, b \in Nat : a < b => <<a, b>> \in R
  OBVIOUS
<1>3. S \subseteq Nat
  BY CreatedIsItem, RootIsItem DEF Inv
<1>4. PICK x \in S : \A y \in S : ~(<<y, x>> \in R)
  <2> HIDE DEF R, S
  <2> QED
    BY <1>1, <1>3, WFMin
<1>5. /\ x \in Created /\ x \in ItemIds /\ x # Root /\ items[x].kind # "delivery"
      /\ State(x) \notin SuccessStates
  BY CreatedIsItem DEF Inv, ItemsInv, Phase
<1>6. PICK p \in Nat : p = meta[x].parent /\ p < x /\ p \in Created
  <2>1. Has(x) /\ meta[x].parent \in 1..(x - 1) /\ x \in 1..Len(items)
    BY <1>5, CreatedIsItem DEF Recorded, Inv, RowsInv
  <2> QED
    BY <2>1, CreatedIsItem DEF Inv
<1>7. x \in TaskChildren(p)
  BY <1>5, <1>6, TasksOf DEF Recorded
<1>8. items[p].kind # "delivery"
  BY <1>5, <1>6 DEF Recorded, Inv, RowsInv
<1>9. p # Root
  BY <1>5, <1>7 DEF Succeeded
<1>10. p \notin S
  BY <1>2, <1>3, <1>4, <1>6
<1>11. State(p) \in SuccessStates
  BY <1>6, <1>8, <1>9, <1>10 DEF Phase, Inv, ItemsInv
<1> QED
  BY <1>5, <1>6, <1>7, <1>11 DEF Follows, TasksFollow, Succeeded

\* What TaskOrder sees of the tasks, one by one.
LEMMA AsMove ==
  ASSUME \A i \in ItemIds : \/ Phase(i)' = Phase(i)
                            \/ Phase(i) \in {"waiting", "started"} /\ Phase(i)' \in {"waiting", "finished"},
         \A i \in ItemIds : Needs(i)' = Needs(i), Closed' = Closed, Disturbed' = Disturbed
  PROVE  Order!Next
<1>1. \A i \in ItemIds : Phase(i)' \in Order!Phases
  BY DEF Phase, Order!Phases
<1>2. Order!Move
  BY <1>1 DEF Order!Move, Needs
<1> QED
  BY <1>2 DEF Order!Next

LEMMA AsStart ==
  ASSUME NEW i \in ItemIds, Phase(i) = "waiting", Phase(i)' = "started",
         \A j \in ItemIds \ {i} : Phase(j)' = Phase(j),
         \A d \in Needs(i) : d \in ItemIds /\ Phase(d) = "finished",
         \A j \in ItemIds : Needs(j)' = Needs(j), Closed' = Closed, Disturbed' = Disturbed
  PROVE  Order!Next
<1>1. Order!Start(i)
  BY DEF Order!Start, Order!Finished, Needs
<1> QED
  BY <1>1 DEF Order!Next

LEMMA AsAdd ==
  ASSUME NEW i \in ItemIds, Phase(i) = "none", Phase(i)' = "waiting",
         \A j \in ItemIds \ {i} : Phase(j)' = Phase(j),
         Needs(i)' \subseteq ItemIds,
         \A j \in ItemIds \ {i} : Needs(j)' = Needs(j), ~Closed, Closed' = Closed, Disturbed' = Disturbed
  PROVE  Order!Next
<1>1. Order!Add(i)
  BY DEF Order!Add, Needs
<1> QED
  BY <1>1 DEF Order!Next

LEMMA AsClose ==
  ASSUME \A i \in ItemIds : Phase(i) \in {"none", "finished"},
         \A i \in ItemIds : Phase(i)' = Phase(i) /\ Needs(i)' = Needs(i),
         Closed', Disturbed' = Disturbed
  PROVE  Order!Next
<1>1. Order!Close
  BY DEF Order!Close, Order!Settled, Needs, Closed
<1> QED
  BY <1>1 DEF Order!Next

LEMMA InitOrder == Init => Order!Init
<1> SUFFICES ASSUME Init PROVE Order!Init
  OBVIOUS
<1>1. Created = {Root} /\ items[Root].kind = "root" /\ State(Root) = "Ready"
  BY DEF Init, Created, Root, Plain, State
<1>2. \A i \in ItemIds : Phase(i) = "none"
  BY <1>1 DEF Phase
<1>3. ~Closed
  BY <1>1 DEF Closed, SuccessStates
<1>4. ~Disturbed
  BY DEF Init, Disturbed, Disturbances
<1> QED
  BY <1>2, <1>3, <1>4 DEF Order!Init, Closed, Disturbed

LEMMA StatesKeepNeeds ==
  ASSUME Inv, StatesOnly
  PROVE  /\ \A i \in ItemIds \ Created : Phase(i)' = "none" /\ Phase(i) = "none" /\ Needs(i)' = Needs(i)
         /\ \A i \in Created : items[i].kind \in {"root", "delivery"} =>
               Phase(i)' = "none" /\ Phase(i) = "none" /\ Needs(i)' = Needs(i)
         /\ \A i \in Created : State(i)' = State(i) => Phase(i)' = Phase(i)
         /\ \A i \in ItemIds : Needs(i)' = Needs(i)
         /\ Root \in Created /\ Phase(Root)' = Phase(Root)
<1>1. /\ Created' = Created
      /\ \A i \in Created : items'[i].kind = items[i].kind /\ items'[i].needs = items[i].needs
  BY DEF StatesOnly
<1>2. Root \in Created /\ items[Root].kind = "root"
  BY TasksOf DEF Inv, ItemsInv
<1>3. /\ \A i \in ItemIds \ Created : Phase(i)' = "none" /\ Phase(i) = "none"
      /\ \A i \in Created : items[i].kind \in {"root", "delivery"} => Phase(i)' = "none" /\ Phase(i) = "none"
      /\ \A i \in Created : State(i)' = State(i) => Phase(i)' = Phase(i)
  BY <1>1 DEF Phase
<1>4. \A i \in ItemIds : Phase(i)' = "none" <=> Phase(i) = "none"
  BY <1>1 DEF Phase
<1>5. \A i \in ItemIds : Needs(i)' = Needs(i)
  BY <1>1, <1>3, <1>4 DEF Needs
<1>6. Created \subseteq ItemIds
  BY TasksOf
<1> QED
  BY <1>2, <1>3, <1>5, <1>6

\* While the daemon runs a task or splits the request, the request is open.
LEMMA OpenAtWork ==
  ASSUME Inv, Alone, Follows, Recorded, pc[Daemon] \notin MetaSteps,
         my[Daemon].claim \/ Splitting(Daemon)
  PROVE  ~Closed
<1>1. CASE Splitting(Daemon)
  BY <1>1 DEF Alone, Closed, SuccessStates
<1>2. CASE my[Daemon].claim
  <2> SUFFICES ASSUME Closed PROVE FALSE
    OBVIOUS
  <2>1. Succeeded(TaskChildren(Root))
    BY TasksOf DEF Closed, Follows, TasksFollow
  <2>2. PICK run \in Created : run = my[Daemon].item /\ run # Root /\ State(run) = "Running"
    BY <1>2, RunIsTask
  <2>3. items[run].kind # "delivery" /\ items[run].kind # "root"
    BY <2>2 DEF Inv, ItemsInv
  <2>4. Phase(run) = "started"
    BY <2>2, <2>3 DEF Phase, SuccessStates
  <2> QED
    BY <2>1, <2>2, <2>4, SettledBelow
<1> QED
  BY <1>1, <1>2

LEMMA CreatesInOrder ==
  ASSUME Inv, Inv', Alone, Follows, Recorded, ThreadStep(Daemon), Creates(Daemon),
         faults' = faults, Disturbed' = Disturbed
  PROVE  Order!Next
<1>1. /\ Created = 1..Len(items) /\ Created' = 1..Len(items') /\ Len(items) \in Nat
      /\ Len(items') = Len(items) + 1 /\ \A i \in Created : items'[i] = items[i]
      /\ Len(items') <= MaxItems
      /\ items'[Len(items')].kind = KindMade[MetaStep[pc[Daemon]]]
  <2>1. /\ Created = 1..Len(items) /\ Created' = 1..Len(items') /\ Len(items) \in Nat
        /\ Len(items') = Len(items) + 1 + (faults' - faults) /\ \A i \in Created : items'[i] = items[i]
        /\ Len(items') <= MaxItems
        /\ \A i \in Created' \ Created : items'[i].kind = KindMade[MetaStep[pc[Daemon]]]
    BY CreatedIsItem DEF Creates, Grown, Inv
  <2>2. faults \in Nat
    BY CountersAreNat
  <2>3. Len(items') = Len(items) + 1
    BY <2>1, <2>2
  <2> QED
    BY <2>1, <2>3
<1>2. PICK n \in ItemIds : n \notin Created /\ Created' = Created \cup {n} /\ n = Len(items')
  BY <1>1, TaskGraphAssumption DEF ItemIds
<1>3. /\ \A i \in ItemIds \ {n} : Phase(i)' = Phase(i) /\ Needs(i)' = Needs(i)
      /\ Phase(n) = "none" /\ Needs(n) = {}
  <2>1. \A i \in ItemIds \ {n} : i \in Created' <=> i \in Created
    BY <1>2
  <2>2. \A i \in ItemIds \ {n} : Phase(i)' = Phase(i)
    BY <1>1, <2>1 DEF Phase, State
  <2>3. \A i \in ItemIds \ {n} : Phase(i) # "none" => i \in Created
    BY DEF Phase
  <2>4. Phase(n) = "none"
    BY <1>2 DEF Phase
  <2> QED
    BY <1>1, <2>2, <2>3, <2>4 DEF Needs
<1>4. Closed' = Closed
  BY <1>1, TasksOf DEF Closed, State
<1>5. items'[n].kind = KindMade[MetaStep[pc[Daemon]]] /\ items'[n].state \in {"Ready", "Backlog"}
  BY <1>1, <1>2, WhatIsMade
<1>6. CASE pc[Daemon] = "deliver"
  <2>1. items'[n].kind = "delivery"
    BY <1>5, <1>6 DEF KindMade, MetaStep
  <2>2. Phase(n)' = "none"
    BY <2>1 DEF Phase
  <2>3. Needs(n)' = {}
    BY <2>2 DEF Needs
  <2> QED
    BY <1>3, <1>4, <2>2, <2>3, AsMove
<1>7. CASE pc[Daemon] # "deliver"
  <2>1. items'[n].kind \notin {"root", "delivery"} /\ pc[Daemon] \in {"plan", "propose", "repair"}
    BY <1>5, <1>7 DEF KindMade, MetaStep, Creates, CreateSteps
  <2>2. Phase(n)' = "waiting"
    BY <1>2, <1>5, <2>1 DEF Phase, State, SuccessStates
  <2>3. Needs(n)' \subseteq ItemIds
    <3>1. items'[n] \in Item
      BY <1>2, <1>1, TaskGraphAssumption DEF Inv, TypeOK, Created
    <3> QED
      BY <2>2, <3>1 DEF Needs, Item
  <2>4. ~Closed
    <3>1. pc[Daemon] \notin MetaSteps
      BY <2>1 DEF MetaSteps
    <3>2. my[Daemon].claim \/ Splitting(Daemon)
      BY <2>1, DaemonIsThread DEF Splitting, SplitSteps, ProposeSteps, RepairSteps, Inv, Hand, ItemInHand
    <3> QED
      BY <3>1, <3>2, OpenAtWork
  <2> QED
    BY <1>2, <1>3, <1>4, <2>2, <2>3, <2>4, AsAdd
<1> QED
  BY <1>6, <1>7

\* A step that takes up a task, closes the request, or lets tasks that had started
\* finish or wait.
LEMMA StatesInOrder ==
  ASSUME Inv, Alone, Follows, Recorded, ThreadStep(Daemon), StatesOnly,
         faults = 0, faults' = 0, crashes = 0, Disturbed' = Disturbed
  PROVE  Order!Next
<1>1. \A i \in Created : MoveOf(i)
  BY StateTurn
<1>2. /\ Created' = Created /\ Root \in Created /\ Created \subseteq ItemIds
      /\ \A i \in Created \ {Root} : items[i].kind # "root"
      /\ \A i \in Created : items[i].kind = "delivery" => State(i) = "Backlog"
  BY CreatedIsItem, TasksOf DEF Inv, ItemsInv, StatesOnly
<1>3. CASE \E i \in Created : Claim(Daemon, i) /\ pc[Daemon] = "pick" /\ i \in Candidates(Daemon) /\ i # Root
  <2>1. PICK i \in Created : Claim(Daemon, i) /\ pc[Daemon] = "pick" /\ i \in Candidates(Daemon) /\ i # Root
    BY <1>3
  <2>2. State(i) = "Ready" /\ ~DependencyBlocked(i)
    BY <2>1 DEF Candidates
  <2>3. \A j \in Created : State(j)' = IF j \in {i} THEN "Running" ELSE State(j)
    BY <2>1, MovedMoves DEF Claim, States
  <2>4. items[i].kind \notin {"root", "delivery"}
    BY <1>2, <2>1, <2>2
  <2>5. Phase(i) = "waiting"
    BY <2>2, <2>4 DEF Phase, SuccessStates
  <2>6. Phase(i)' = "started"
    <3>1. i \in Created' /\ items'[i].kind \notin {"root", "delivery"} /\ State(i)' = "Running"
      BY <1>2, <2>3, <2>4 DEF StatesOnly
    <3> QED
      BY <3>1 DEF Phase, SuccessStates
  <2>7. \A j \in ItemIds \ {i} : Phase(j)' = Phase(j)
    BY <2>3, StatesKeepNeeds
  <2>8. Closed' = Closed
    BY <1>2, <2>1, <2>3 DEF Closed
  <2>9. ASSUME NEW d \in Needs(i)
        PROVE  d \in ItemIds /\ Phase(d) = "finished"
    <3>1. Has(i) /\ meta[i].deps = items[i].needs
      BY <2>1, <2>4 DEF Recorded, MetaSteps
    <3>2. d \in items[i].needs
      BY <2>5, <2>9 DEF Needs
    <3>3. d \in Created /\ items[d].kind = "task"
      BY <3>2 DEF Recorded
    <3>4. State(d) \in SuccessStates
      BY <2>2, <3>1, <3>2 DEF DependencyBlocked, Succeeded
    <3> QED
      BY <1>2, <3>3, <3>4 DEF Phase
  <2> QED
    BY <1>2, <2>5, <2>6, <2>7, <2>8, <2>9, StatesKeepNeeds, AsStart
<1>4. CASE pc[Daemon] = "closeRoot"
  <2>1. CloseRoot(Daemon)
    BY <1>4 DEF ThreadStep, BeforeDispatch, BeginRunOnce, Deliver, DeliverMeta, NothingToDo, PlanStep,
      CreatePlanner, PlannerMeta, PlannerMove, RunStep, RunProposes, RunSucceeds, RunBlocked, CreateTask,
      Proposing, TaskMeta, Proposed, Settle, CreateRepair, RepairMeta, RepairMove, Pick
  <2>2. Succeeded(TaskChildren(Root)) /\ pc[Daemon] \notin MetaSteps
    BY <1>4 DEF Follows, HandFollows, DeliverSteps, MetaSteps
  <2>3. \A i \in ItemIds : Phase(i) \in {"none", "finished"}
    BY <2>2, SettledBelow DEF Phase
  <2>4. ~my[Daemon].claim
    BY <1>4 DEF Alone, DeliverSteps, Follows, HandFollows
  <2>5. Moved({Root}, "Done")
    BY <2>1, <2>4, NoFault DEF CloseRoot
  <2>6. \A i \in Created : State(i)' = IF i \in {Root} THEN "Done" ELSE State(i)
    BY <2>5, MovedMoves DEF States
  <2>7. Closed'
    BY <1>2, <2>6 DEF Closed, SuccessStates
  <2>8. \A i \in ItemIds : Phase(i)' = Phase(i)
    BY <2>6, StatesKeepNeeds
  <2> QED
    BY <2>3, <2>7, <2>8, StatesKeepNeeds, AsClose
<1>5. CASE /\ ~\E i \in Created : Claim(Daemon, i) /\ pc[Daemon] = "pick" /\ i \in Candidates(Daemon) /\ i # Root
           /\ pc[Daemon] # "closeRoot"
  <2>1. my[Daemon].claim => State(my[Daemon].item) = "Running" /\ my[Daemon].item # Root
    BY DEF Alone, Follows, HandFollows
  <2>2. ASSUME NEW i \in Created
        PROVE  \/ Phase(i)' = Phase(i)
               \/ Phase(i) \in {"waiting", "started"} /\ Phase(i)' \in {"waiting", "finished"}
    <3>1. CASE State(i)' = State(i) \/ i = Root \/ items[i].kind = "delivery"
      BY <3>1, StatesKeepNeeds
    <3> SUFFICES ASSUME i # Root, items[i].kind \notin {"root", "delivery"} PROVE Phase(i)' = Phase(i) \/
                   (Phase(i) \in {"waiting", "started"} /\ Phase(i)' \in {"waiting", "finished"})
      BY <1>2, <3>1
    <3>2. i \in Created' /\ items'[i].kind \notin {"root", "delivery"}
      BY <1>2 DEF StatesOnly
    <3>3. CASE State(i) = "Human Review" /\ State(i)' = "Done"
      BY <3>2, <3>3 DEF Phase, SuccessStates
    <3>4. CASE /\ my[Daemon].claim /\ i = my[Daemon].item
               /\ State(i)' \in {"Needs Input", "Done", "Human Review", "Planning"}
      <4>1. State(i) = "Running"
        BY <2>1, <3>4
      <4>2. Phase(i) = "started"
        BY <4>1 DEF Phase, SuccessStates
      <4>3. Phase(i)' \in {"waiting", "finished", "started"}
        BY <3>2 DEF Phase
      <4> QED
        BY <4>2, <4>3
    <3>5. CASE my[Daemon].claim /\ my[Daemon].item \in TaskChildren(i) /\ State(i)' = "Planning"
      <4>1. State(i) \notin SuccessStates /\ ~Waits(i)
        BY <3>5, ParentIsOpen
      <4>2. State(i) \in {"Running", "Planning"}
        <5>1. items[i] \in Item
          BY CreatedIsItem DEF Inv
        <5> QED
          BY <4>1, <5>1 DEF Waits, Item, States, State, SuccessStates
      <4> QED
        BY <3>2, <3>5, <4>2 DEF Phase, SuccessStates
    <3>6. ~(Depth(i) = 0 /\ pc[Daemon] = "pick")
      <4>1. pc[Daemon] = "pick" => Has(i)
        BY DEF Recorded, MetaSteps
      <4>2. Has(i) => Depth(i) >= 1 /\ Depth(i) \in Nat
        BY <1>2 DEF Depth, Inv, RowsInv, TypeOK, Has, Metadata
      <4> QED
        BY <4>1, <4>2
    <3> QED
      BY <1>1, <1>5, <3>1, <3>3, <3>4, <3>5, <3>6 DEF MoveOf
  <2>3. Closed' = Closed
    <3>1. CASE State(Root)' = State(Root)
      BY <3>1 DEF Closed
    <3>2. CASE /\ my[Daemon].claim /\ my[Daemon].item \in TaskChildren(Root) /\ State(Root)' = "Planning"
      <4>1. State(Root) \notin SuccessStates
        BY <1>2, <3>2, ParentIsOpen
      <4>2. State(Root)' \notin SuccessStates
        BY <3>2 DEF SuccessStates
      <4>3. SuccessStates' = SuccessStates
        BY DEF SuccessStates
      <4> QED
        BY <4>1, <4>2, <4>3 DEF Closed
    <3>3. CASE State(Root) = "Ready" /\ State(Root)' = "Planning"
      BY <3>3 DEF Closed, SuccessStates
    <3> QED
      BY <1>1, <1>2, <1>5, <2>1, <3>1, <3>2, <3>3 DEF MoveOf
  <2>4. \A i \in ItemIds : \/ Phase(i)' = Phase(i)
                           \/ Phase(i) \in {"waiting", "started"} /\ Phase(i)' \in {"waiting", "finished"}
    BY <2>2, StatesKeepNeeds
  <2> QED
    BY <2>3, <2>4, StatesKeepNeeds, AsMove
<1> QED
  BY <1>3, <1>4, <1>5

LEMMA ReconcileInOrder ==
  ASSUME Inv, Follows, Recorded, Reconcile, Disturbed' = Disturbed
  PROVE  Order!Next
<1>1. PICK S \in SUBSET Created :
         /\ Moved(S, "Human Review")
         /\ \A p \in S : State(p) = "Planning" /\ Succeeded(Children(p))
  <2> DEFINE S == {p \in Created : /\ State(p) = "Planning" /\ ~FullAuto(p)
                                   /\ Children(p) # {} /\ Succeeded(Children(p))}
  <2>1. S \in SUBSET Created /\ \A p \in S : State(p) = "Planning" /\ Succeeded(Children(p))
    OBVIOUS
  <2> QED
    BY <2>1 DEF Reconcile
<1>2. StatesOnly /\ \A i \in Created : State(i)' = IF i \in S THEN "Human Review" ELSE State(i)
  <2>1. TypeOK /\ "Human Review" \in States
    BY DEF Inv, States
  <2> QED
    BY <1>1, <2>1, MovedFacts
<1>3. /\ Created' = Created /\ Root \in Created /\ Created \subseteq ItemIds
      /\ \A i \in Created : items'[i].kind = items[i].kind
  BY <1>2, TasksOf DEF StatesOnly
<1>4. CASE Root \in S
  <2>1. Succeeded(TaskChildren(Root)) /\ pc[Daemon] \notin MetaSteps
    BY <1>1, <1>4 DEF TaskChildren, Succeeded, Reconcile, MetaSteps
  <2>2. \A i \in Created : Phase(i) \in {"none", "finished"}
    BY <2>1, SettledBelow
  <2>3. \A i \in S : Phase(i) # "finished"
    BY <1>1 DEF Phase, SuccessStates
  <2>4. \A i \in S : items[i].kind \in {"root", "delivery"}
    BY <1>1, <2>2, <2>3 DEF Phase
  <2>5. \A i \in ItemIds : Phase(i)' = Phase(i)
    BY <1>2, <2>4, StatesKeepNeeds
  <2>6. \A i \in ItemIds : Phase(i) \in {"none", "finished"}
    BY <2>2 DEF Phase
  <2>7. Closed'
    BY <1>2, <1>3, <1>4 DEF Closed, SuccessStates
  <2> QED
    BY <1>2, <2>5, <2>6, <2>7, StatesKeepNeeds, AsClose
<1>5. CASE Root \notin S
  <2>1. \A i \in S : Phase(i)' = Phase(i) \/ (Phase(i) = "started" /\ Phase(i)' = "finished")
    BY <1>1, <1>2, <1>3 DEF Phase, SuccessStates
  <2>2. \A i \in ItemIds \ S : Phase(i)' = Phase(i)
    BY <1>2, StatesKeepNeeds
  <2>3. Closed' = Closed
    BY <1>2, <1>3, <1>5 DEF Closed
  <2> QED
    BY <1>2, <2>1, <2>2, <2>3, StatesKeepNeeds, AsMove
<1> QED
  BY <1>4, <1>5

LEMMA PeopleInOrder ==
  ASSUME Inv, Follows, Disturbed' = Disturbed, NEW i \in ItemIds, HumanMoves(i)
  PROVE  Order!Next
<1>1. PICK s \in {"Ready", "Human Review"} : Moved({i}, s)
  BY DEF HumanMoves
<1>2. State(i) \in {"Needs Input", "Backlog"} /\ i \in Created
  BY DEF HumanMoves
<1>3. StatesOnly /\ \A j \in Created : State(j)' = IF j \in {i} THEN s ELSE State(j)
  <2>1. TypeOK /\ s \in States
    BY DEF Inv, States
  <2> QED
    BY <1>1, <2>1, MovedFacts
<1>4. i # Root /\ Root \in Created
  BY <1>2, TasksOf DEF Follows, TasksFollow
<1>5. Phase(i)' = Phase(i) \/ (Phase(i) = "waiting" /\ Phase(i)' \in {"waiting", "finished"})
  BY <1>2, <1>3 DEF Phase, SuccessStates, StatesOnly
<1>6. \A j \in ItemIds \ {i} : Phase(j)' = Phase(j)
  BY <1>3, StatesKeepNeeds
<1>7. Closed' = Closed
  BY <1>3, <1>4 DEF Closed
<1> QED
  BY <1>3, <1>5, <1>6, <1>7, StatesKeepNeeds, AsMove

LEMMA NextInOrder ==
  Inv /\ AloneInv /\ CalmInv /\ RecordedInv /\ [Next]_vars => [Order!Next]_(Order!vars)
<1> SUFFICES ASSUME Inv, AloneInv, CalmInv, RecordedInv, [Next]_vars, ~Disturbed'
             PROVE  Order!Next \/ UNCHANGED Order!vars
  BY DEF Order!Next
<1>1. /\ asked \in Nat /\ faults \in Nat /\ crashes \in Nat /\ Inv'
      /\ asked' = 0 /\ faults' = 0 /\ crashes' = 0
  BY NextInv, CountersAreNat, UndisturbedAfter
<1>2. ASSUME asked = 0, faults = 0, crashes = 0
      PROVE  Recorded /\ Alone /\ Follows /\ Disturbed' = Disturbed
  <2>1. ~Disturbed
    BY <1>2 DEF Disturbed, Disturbances
  <2>2. Disturbed' = Disturbed
    BY <1>1, <1>2 DEF Disturbed, Disturbances
  <2> QED
    BY <1>2, <2>1, <2>2, Undisturbed DEF RecordedInv, AloneInv, CalmInv
<1>3. CASE \E t \in Threads : ThreadStep(t)
  <2>1. PICK t \in Threads : ThreadStep(t)
    BY <1>3
  <2>2. Turn(t)
    BY <2>1, ThreadTurn
  <2>3. asked = 0 /\ faults = 0 /\ crashes = 0
    BY <1>1, <2>2 DEF Turn
  <2>4. t = Daemon
    BY <1>2, <2>2, <2>3 DEF Turn, Alone, Threads
  <2>5. StatesOnly \/ Creates(Daemon)
    BY <2>1, <2>4, ItemsChange
  <2> QED
    BY <1>1, <1>2, <2>1, <2>3, <2>4, <2>5, StatesInOrder, CreatesInOrder
<1>4. ~\E t \in Requests, i \in ItemIds : Request(t, i)
  BY <1>1 DEF Request
<1>5. ~Crash
  BY <1>1 DEF Crash
<1>6. CASE Reconcile \/ \E i \in ItemIds : HumanMoves(i)
  <2>1. asked = 0 /\ faults = 0 /\ crashes = 0
    BY <1>1, <1>6 DEF Reconcile, HumanMoves, counters
  <2> QED
    BY <1>2, <1>6, <2>1, ReconcileInOrder, PeopleInOrder
<1>7. ~\E i \in ItemIds : ReleaseClaim(i)
  <2> SUFFICES ASSUME NEW i \in ItemIds, ReleaseClaim(i) PROVE FALSE
    OBVIOUS
  <2>1. asked = 0 /\ faults = 0 /\ crashes = 0
    BY <1>1 DEF ReleaseClaim, counters
  <2>2. ~my[Daemon].claim /\ claims # {}
    BY DaemonIsThread, FreshFacts DEF ReleaseClaim, Inv, Hand, BatchInHand
  <2> QED
    BY <1>2, <2>1, <2>2 DEF Follows, HandFollows
<1>8. CASE UNCHANGED vars
  <2>1. UNCHANGED items /\ UNCHANGED <<asked, faults, crashes>>
    BY <1>8 DEF vars, counters
  <2>2. \A i : Phase(i)' = Phase(i)
    BY <2>1 DEF Phase, Created, State
  <2>3. Closed' = Closed /\ Disturbed' = Disturbed
    BY <2>1 DEF Closed, State, Disturbed, Disturbances
  <2> QED
    BY <2>1, <2>2, <2>3 DEF Order!vars
<1> QED
  BY <1>3, <1>4, <1>5, <1>6, <1>7, <1>8 DEF Next

\* Undisturbed, whatever the number of tasks and the dependencies named: a task is
\* started after the tasks its planner made it depend on have succeeded, and the
\* request is closed after every task made for it has, through follow-ups and repairs.
THEOREM TasksKeepOrder == Spec => OrderIsKept
<1> DEFINE I == Inv /\ AloneInv /\ DeliverInv /\ CalmInv /\ RecordedInv
<1>1. Init => I
  BY InitInv, InitAlone, InitCalm, InitRecorded
<1>2. I /\ [Next]_vars => I'
  BY NextInv, NextAlone, NextCalm, NextRecorded
<1>3. I /\ [Next]_vars => [Order!Next]_(Order!vars)
  BY NextInOrder
<1> QED
  BY <1>1, <1>2, <1>3, InitOrder, PTL DEF Spec, OrderIsKept, Order!Spec

=============================================================================
