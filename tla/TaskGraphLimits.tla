--------------------------- MODULE TaskGraphLimits ---------------------------
(***************************************************************************)
(* What TaskGraph makes a bounded number of, for every value of the        *)
(* constants: the repairs of a parent's tasks, and the planner and the     *)
(* delivery task of a request.                                             *)
(***************************************************************************)
EXTENDS TaskGraphProofs

-----------------------------------------------------------------------------
(* Where a thread's step takes it *)

Turn(t) ==
    /\ pc[t] # "idle"
    /\ pc[t] = "repairMove" => pc'[t] = "idle"
    /\ pc'[t] \in {"begin", "pick", "plan"} => pc[t] \in {"begin", "pick"}
    /\ pc'[t] = "plan" => Children(Root) = {}
    /\ pc'[t] = "planMeta" => pc[t] = "plan"
    /\ pc'[t] = "repair" => pc[t] = "run" /\ MayRepair(my[t].item) /\ my'[t] = my[t]
    /\ pc'[t] = "repairMeta" => pc[t] = "repair" /\ my'[t].item = my[t].item
    /\ UNCHANGED <<asked, crashes, moved>> /\ faults' \in {faults, faults + 1}

LEMMA ReturnTurn ==
  ASSUME Inv, NEW t \in Threads, Return(t), pc[t] # "idle",
         UNCHANGED counters \/ Fault \/ Planned
  PROVE  Turn(t)
<1>1. pc'[t] = "idle"
  BY DEF Return, Goto, Inv, TypeOK
<1> QED
  BY <1>1 DEF Turn, counters, Fault, Planned

LEMMA ClaimTurn ==
  ASSUME Inv, NEW t \in Threads, NEW i, Claim(t, i), pc[t] \in {"pick", "plan", "propose"},
         UNCHANGED counters \/ Fault \/ Planned
  PROVE  Turn(t)
<1>1. pc'[t] = "run"
  BY DEF Claim, Goto, Inv, TypeOK
<1> QED
  BY <1>1 DEF Turn, counters, Fault, Planned

LEMMA GotoTurn ==
  ASSUME Inv, NEW t \in Threads, NEW p, Goto(t, p), pc[t] \notin {"idle", "repairMove"},
         p \notin {"begin", "pick", "plan", "planMeta", "repair", "repairMeta"},
         UNCHANGED counters \/ Fault \/ Planned
  PROVE  Turn(t)
<1>1. pc'[t] = p
  BY DEF Goto, Inv, TypeOK
<1> QED
  BY <1>1 DEF Turn, counters, Fault, Planned

LEMMA ThreadTurn ==
  ASSUME Inv, NEW t \in Threads, ThreadStep(t)
  PROVE  Turn(t)
<1>0. pc \in [Threads -> Steps] /\ my \in [Threads -> Locals]
  BY DEF Inv, TypeOK
<1>1. CASE BeginRunOnce(t)
  BY <1>0, <1>1 DEF BeginRunOnce, Goto, Turn, counters
<1>2. CASE Deliver(t)
  BY <1>0, <1>2 DEF Deliver, CreateItem, CreateFails, Set, Goto, Turn, counters, Fault
<1>3. CASE DeliverMeta(t)
  BY <1>3, GotoTurn DEF DeliverMeta
<1>4. CASE CloseRoot(t)
  BY <1>4, ReturnTurn DEF CloseRoot, FinishRun, RunRaises
<1>5. CASE NothingToDo(t)
  BY <1>5, ReturnTurn DEF NothingToDo
<1>6. CASE \E i \in ItemIds : Pick(t, i)
  <2>1. PICK i \in ItemIds : Pick(t, i)
    BY <1>6
  <2>2. CASE ParentWaits(t, i)
    BY <2>1, <2>2, ReturnTurn DEF Pick, ParentWaits
  <2>3. CASE SplitRequest(t, i)
    <3>1. i = Root /\ Children(Root) = {}
      BY <2>1, <2>3 DEF SplitRequest, Splits, Depth, Inv, RowsInv
    <3>2. CASE Propose(t, i, <<{}>>, "plan_execute", FALSE)
      BY <2>1, <2>3, <3>2, GotoTurn DEF Pick, SplitRequest, Propose
    <3>3. CASE Set(t, "plan", "item", i)
      BY <1>0, <2>1, <2>3, <3>1, <3>3 DEF Pick, SplitRequest, Set, Goto, Turn, counters
    <3> QED
      BY <2>3, <3>2, <3>3 DEF SplitRequest
  <2>4. CASE StartRun(t, i)
    BY <2>1, <2>4, ReturnTurn, ClaimTurn DEF Pick, StartRun
  <2> QED
    BY <2>1, <2>2, <2>3, <2>4 DEF Pick
<1>7. CASE CreatePlanner(t)
  <2>1. CASE Fault /\ RunItself(t)
    BY <1>7, <2>1, ReturnTurn, ClaimTurn DEF CreatePlanner, RunItself
  <2>2. CASE CreateItem(t, [id \in ItemIds |-> Plain("planner", "Ready")], "planMeta")
    BY <1>0, <1>7, <2>2 DEF CreatePlanner, CreateItem, Set, Goto, Turn, counters, Fault
  <2> QED
    BY <1>7, <2>1, <2>2 DEF CreatePlanner
<1>8. CASE PlannerMeta(t)
  BY <1>8, GotoTurn DEF PlannerMeta
<1>9. CASE PlannerMove(t)
  BY <1>9, ReturnTurn DEF PlannerMove
<1>10. CASE RunProposes(t)
  BY <1>10, GotoTurn DEF RunProposes, Propose
<1>11. CASE RunSucceeds(t)
  BY <1>11, GotoTurn DEF RunSucceeds
<1>12. CASE RunBlocked(t)
  <2>1. CASE Return(t) /\ UNCHANGED counters
    BY <1>12, <2>1, ReturnTurn DEF RunBlocked
  <2>2. CASE Propose(t, my[t].item, FallbackPlan, "full_auto", TRUE) /\ Planned
    BY <1>12, <2>2, GotoTurn DEF RunBlocked, Propose
  <2>3. CASE MayRepair(my[t].item) /\ Goto(t, "repair") /\ UNCHANGED <<my, counters>>
    BY <1>0, <1>12, <2>3 DEF RunBlocked, Goto, Turn, counters
  <2> QED
    BY <1>12, <2>1, <2>2, <2>3 DEF RunBlocked, FinishRun
<1>13. CASE CreateTask(t)
  BY <1>13, GotoTurn DEF CreateTask, Proposing, CreateItem, CreateFails, Set
<1>14. CASE TaskMeta(t)
  BY <1>14, GotoTurn DEF TaskMeta, Set
<1>15. CASE Proposed(t)
  BY <1>15, ReturnTurn, ClaimTurn, GotoTurn DEF Proposed, RunItself
<1>16. CASE Settle(t)
  BY <1>16, ReturnTurn, GotoTurn DEF Settle, FinishRun, RunRaises
<1>17. CASE CreateRepair(t)
  <2>1. CASE RunRaises(t, {})
    BY <1>17, <2>1, ReturnTurn DEF CreateRepair, RunRaises, FinishRun
  <2>2. CASE CreateItem(t, [id \in ItemIds |-> Plain("repair", "Ready")], "repairMeta")
    <3>1. \E n : my' = [my EXCEPT ![t].new = n]
      BY <2>2 DEF CreateItem, Set
    <3>2. my'[t].item = my[t].item
      BY <1>0, <3>1 DEF Locals
    <3> QED
      BY <1>0, <1>17, <2>2, <3>2 DEF CreateRepair, CreateItem, Set, Goto, Turn, counters, Fault
  <2> QED
    BY <1>17, <2>1, <2>2 DEF CreateRepair
<1>18. CASE RepairMeta(t)
  BY <1>0, <1>18 DEF RepairMeta, Goto, Turn, counters
<1>19. CASE RepairMove(t)
  BY <1>19, ReturnTurn DEF RepairMove, RunRaises, FinishRun
<1> QED
  BY <1>1, <1>2, <1>3, <1>4, <1>5, <1>6, <1>7, <1>8, <1>9, <1>10, <1>11, <1>12, <1>13, <1>14,
     <1>15, <1>16, <1>17, <1>18, <1>19
  DEF ThreadStep, BeforeDispatch, PlanStep, RunStep

\* The rows are written in four places.
LEMMA RowsChange ==
  ASSUME NEW t \in Threads, ThreadStep(t)
  PROVE  UNCHANGED meta \/ DeliverMeta(t) \/ PlannerMeta(t) \/ TaskMeta(t) \/ RepairMeta(t)
BY DEF ThreadStep, BeforeDispatch, PlanStep, RunStep, tables, Deliver, BeginRunOnce, CloseRoot,
       FinishRun, RunRaises, NothingToDo, CreatePlanner, PlannerMove, RunProposes, RunSucceeds,
       RunBlocked, CreateTask, Proposed, Settle, CreateRepair, RepairMove, Pick

\* The row a thread writes is that of the item it made, and the first.
LEMMA NewRow ==
  ASSUME Inv, NEW t \in Threads, pc[t] \in MetaSteps,
         NEW role, NEW parent, NEW depth, NEW mode, NEW deps,
         WriteMeta(t, role, parent, depth, mode, deps), role \in Roles
  PROVE  /\ my[t].new \in ItemIds /\ my[t].new \in Created /\ ~Has(my[t].new)
         /\ items[my[t].new].kind = KindMade[pc[t]]
         /\ \A i \in ItemIds \ {my[t].new} : meta'[i] = meta[i]
         /\ meta'[my[t].new] # NoMeta
         /\ meta'[my[t].new].role = role /\ meta'[my[t].new].parent = parent
         /\ meta'[my[t].new].deps = deps /\ meta'[my[t].new].mode = mode
         /\ meta'[my[t].new].repair = (role = "worker" /\ items[my[t].new].kind = "repair")
<1> DEFINE row == [role |-> role, parent |-> parent, depth |-> depth,
                   repair |-> role = "worker" /\ items[my[t].new].kind = "repair",
                   mode |-> mode, deps |-> deps]
<1>1. /\ my[t].new \in ItemIds /\ my[t].new \in Created /\ ~Has(my[t].new)
      /\ items[my[t].new].kind = KindMade[pc[t]]
  BY CreatedIsItem DEF Inv, Hand, NewInHand
<1>2. meta' = [meta EXCEPT ![my[t].new] = row] /\ meta \in [ItemIds -> Metadata \cup {NoMeta}]
  BY DEF WriteMeta, Inv, TypeOK
<1>3. meta'[my[t].new] = row /\ \A i \in ItemIds \ {my[t].new} : meta'[i] = meta[i]
  <2> HIDE DEF row
  <2> QED
    BY <1>1, <1>2
<1>4. row # NoMeta
  BY DEF NoMeta, Roles
<1>5. /\ row.role = role /\ row.parent = parent /\ row.deps = deps /\ row.mode = mode
      /\ row.repair = (role = "worker" /\ items[my[t].new].kind = "repair")
  OBVIOUS
<1> QED
  <2> HIDE DEF row
  <2> QED
    BY <1>1, <1>3, <1>4, <1>5

-----------------------------------------------------------------------------
(* The repairs of a parent's tasks *)

Repairs(p) == {i \in Children(p) : meta[i].repair}

\* The handler threads that may still write a repair, and the daemon between the
\* count and the write.
Writers == {t \in Requests : pc[t] \notin {"idle", "repairMove"}}
Pending(p) == pc[Daemon] \in {"repair", "repairMeta"} /\ meta[my[Daemon].item].parent = p
One(b) == IF b THEN 1 ELSE 0

RepairsOf(p) == Cardinality(Repairs(p)) + Cardinality(Writers) + One(Pending(p))

\* A handler thread is paid for by its request until it has written.
CountInv ==
    /\ IsFiniteSet(Writers) /\ Cardinality(Writers) <= asked
    /\ \A p \in ItemIds : RepairsOf(p) <= RepairLimit + asked

LEMMA RepairsFinite ==
  /\ \A p : IsFiniteSet(Repairs(p)) /\ Cardinality(Repairs(p)) \in Nat
  /\ \A p : IsFiniteSet(Repairs(p)') /\ Cardinality(Repairs(p)') \in Nat
  /\ RepairLimit \in Nat
<1>1. IsFiniteSet(ItemIds)
  BY FS_Interval, TaskGraphAssumption DEF ItemIds
<1>2. \A p : Repairs(p) \subseteq ItemIds /\ Repairs(p)' \subseteq ItemIds
  BY DEF Repairs, Children
<1>3. \A S \in SUBSET ItemIds : IsFiniteSet(S) /\ Cardinality(S) \in Nat
  BY <1>1, FS_Subset, FS_CardinalityType
<1> QED
  BY <1>2, <1>3, TaskGraphAssumption

LEMMA OneMore ==
  ASSUME NEW S, NEW T, NEW x, IsFiniteSet(S), T \subseteq S \cup {x}
  PROVE  /\ IsFiniteSet(T) /\ Cardinality(T) \in Nat /\ Cardinality(S) \in Nat
         /\ Cardinality(T) <= Cardinality(S) + 1
<1>1. IsFiniteSet(S \cup {x}) /\ Cardinality(S) \in Nat
  BY FS_AddElement, FS_CardinalityType
<1>2. Cardinality(S \cup {x}) \in {Cardinality(S), Cardinality(S) + 1}
  BY FS_AddElement
<1>3. IsFiniteSet(T) /\ Cardinality(T) <= Cardinality(S \cup {x})
  BY <1>1, FS_Subset
<1>4. Cardinality(T) \in Nat
  BY <1>3, FS_CardinalityType
<1> QED
  BY <1>1, <1>2, <1>3, <1>4

LEMMA CountersAreNat ==
  ASSUME Inv
  PROVE  asked \in Nat /\ faults \in Nat /\ crashes \in Nat /\ moved \in Nat
BY TaskGraphAssumption DEF Inv, TypeOK

\* No repair is recorded, no handler thread more may record one, and the daemon has
\* counted.
LEMMA CountKeeps ==
  ASSUME Inv, CountInv, \A p \in ItemIds : Repairs(p)' = Repairs(p), Writers' \subseteq Writers,
         UNCHANGED asked,
         \A p \in ItemIds : Pending(p)' => Pending(p) \/ Cardinality(Repairs(p)) < RepairLimit
  PROVE  CountInv'
<1>1. /\ IsFiniteSet(Writers') /\ Cardinality(Writers') <= Cardinality(Writers)
      /\ Cardinality(Writers') \in Nat /\ Cardinality(Writers) \in Nat
  BY FS_Subset, FS_CardinalityType DEF CountInv
<1>2. asked \in Nat /\ Cardinality(Writers) <= asked
  BY CountersAreNat DEF CountInv
<1>3. ASSUME NEW p \in ItemIds PROVE RepairsOf(p)' <= RepairLimit + asked'
  <2>1. /\ RepairsOf(p) <= RepairLimit + asked /\ Cardinality(Repairs(p)) \in Nat
        /\ RepairLimit \in Nat /\ Cardinality(Repairs(p)') = Cardinality(Repairs(p))
    BY RepairsFinite DEF CountInv
  <2>2. One(Pending(p))' = (IF Pending(p)' THEN 1 ELSE 0) /\ One(Pending(p)) = IF Pending(p) THEN 1 ELSE 0
    BY DEF One
  <2>3. RepairsOf(p)' = Cardinality(Repairs(p)') + Cardinality(Writers') + One(Pending(p))'
    BY DEF RepairsOf
  <2>4. CASE ~Pending(p)'
    BY <1>1, <1>2, <2>1, <2>2, <2>3, <2>4 DEF RepairsOf
  <2>5. CASE Pending(p)' /\ Pending(p)
    BY <1>1, <1>2, <2>1, <2>2, <2>3, <2>5 DEF RepairsOf
  <2>6. CASE Pending(p)' /\ Cardinality(Repairs(p)) < RepairLimit
    BY <1>1, <1>2, <2>1, <2>2, <2>3, <2>6 DEF RepairsOf
  <2> QED
    BY <2>4, <2>5, <2>6
<1> QED
  BY <1>1, <1>2, <1>3 DEF CountInv

LEMMA WritersAfter ==
  ASSUME Inv, NEW t \in Threads, Turn(t), Effect(t)
  PROVE  Writers' \subseteq Writers /\ (pc'[t] = "repairMove" => Writers' \subseteq Writers \ {t})
<1>1. \A u \in Requests : u # t => pc'[u] = pc[u]
  BY DaemonIsThread DEF Effect
<1>2. pc[t] \notin {"idle", "repairMove"} \/ pc'[t] = "idle"
  BY DEF Turn
<1> QED
  BY <1>1, <1>2 DEF Writers

LEMMA PendingAfter ==
  ASSUME Inv, NEW t \in Threads, Turn(t), Effect(t), NEW p, Pending(p)'
  PROVE  Pending(p) \/ Cardinality(Repairs(p)) < RepairLimit
<1>0. my[Daemon].item \in ItemIds /\ Has(my[Daemon].item) => meta'[my[Daemon].item] = meta[my[Daemon].item]
  BY DEF Effect, Kept
<1>1. CASE pc[Daemon] \in RepairSteps /\ t # Daemon
  <2>1. my[Daemon].item \in ItemIds /\ Has(my[Daemon].item)
    BY <1>1, CreatedIsItem, DaemonIsThread DEF Inv, Hand, ItemInHand
  <2>2. pc'[Daemon] = pc[Daemon] /\ my'[Daemon] = my[Daemon]
    BY <1>1, DaemonIsThread DEF Effect
  <2> QED
    BY <1>0, <2>1, <2>2 DEF Pending
<1>2. CASE pc[Daemon] \notin RepairSteps /\ t # Daemon
  BY <1>2, DaemonIsThread DEF Effect, Pending, RepairSteps
<1>3. CASE t = Daemon /\ pc'[Daemon] = "repairMeta"
  <2>1. pc[Daemon] = "repair" /\ my'[Daemon].item = my[Daemon].item
    BY <1>3 DEF Turn
  <2>2. my[Daemon].item \in ItemIds /\ Has(my[Daemon].item)
    BY <2>1, CreatedIsItem, DaemonIsThread DEF Inv, Hand, ItemInHand, RepairSteps
  <2> QED
    BY <1>0, <2>1, <2>2 DEF Pending
<1>4. CASE t = Daemon /\ pc'[Daemon] = "repair"
  <2>1. MayRepair(my[Daemon].item) /\ my'[Daemon] = my[Daemon] /\ pc[Daemon] = "run"
    BY <1>4 DEF Turn
  <2>2. my[Daemon].item \in ItemIds
    BY <2>1, CreatedIsItem, DaemonIsThread DEF Inv, Hand, ItemInHand
  <2>3. meta[my[Daemon].item].parent = p
    BY <1>0, <2>1, <2>2 DEF Pending, MayRepair
  <2> QED
    BY <2>1, <2>3 DEF MayRepair, Repairs
<1> QED
  BY <1>1, <1>2, <1>3, <1>4 DEF Pending

LEMMA OtherRows ==
  ASSUME Inv, NEW t \in Threads, ThreadStep(t), ~RepairMeta(t)
  PROVE  \A p : Repairs(p)' = Repairs(p)
<1>1. CASE UNCHANGED meta
  BY <1>1 DEF Repairs, Children, Has
<1>2. ASSUME NEW role \in Roles, NEW parent, NEW depth, NEW mode, NEW deps,
             WriteMeta(t, role, parent, depth, mode, deps), pc[t] \in MetaSteps \ {"repairMeta"}
      PROVE  \A p : Repairs(p)' = Repairs(p)
  <2>1. /\ my[t].new \in ItemIds /\ ~Has(my[t].new) /\ items[my[t].new].kind = KindMade[pc[t]]
        /\ \A i \in ItemIds \ {my[t].new} : meta'[i] = meta[i]
        /\ meta'[my[t].new].repair = (role = "worker" /\ items[my[t].new].kind = "repair")
    BY <1>2, NewRow
  <2>2. items[my[t].new].kind # "repair"
    BY <1>2, <2>1 DEF MetaSteps, KindMade
  <2> QED
    BY <2>1, <2>2 DEF Repairs, Children, Has
<1>3. CASE DeliverMeta(t)
  BY <1>2, <1>3 DEF DeliverMeta, Roles, MetaSteps
<1>4. CASE PlannerMeta(t)
  BY <1>2, <1>4 DEF PlannerMeta, Roles, MetaSteps
<1>5. CASE TaskMeta(t)
  BY <1>2, <1>5 DEF TaskMeta, Roles, MetaSteps
<1> QED
  BY <1>1, <1>3, <1>4, <1>5, RowsChange

LEMMA RepairMetaCounts ==
  ASSUME Inv, CountInv, NEW t \in Threads, RepairMeta(t), Turn(t), Effect(t)
  PROVE  CountInv'
<1>1. pc[t] = "repairMeta" /\ pc'[t] = "repairMove" /\ UNCHANGED asked
  BY DEF RepairMeta, Goto, Inv, TypeOK, counters
<1>2. PICK q \in ItemIds : q = meta[my[t].item].parent
  BY <1>1, RepairItem, CreatedIsItem DEF RepairSteps, Inv
<1>3. PICK n \in ItemIds :
         /\ ~Has(n) /\ \A i \in ItemIds \ {n} : meta'[i] = meta[i]
         /\ meta'[n].parent = q
  <2>1. WriteMeta(t, "worker", q, meta[my[t].item].depth + 1, "full_auto", {})
    BY <1>2 DEF RepairMeta
  <2>2. pc[t] \in MetaSteps /\ "worker" \in Roles
    BY <1>1 DEF MetaSteps, Roles
  <2> QED
    BY <2>1, <2>2, NewRow
<1>4. /\ \A p \in ItemIds : p # q => Repairs(p)' = Repairs(p)
      /\ Repairs(q)' \subseteq Repairs(q) \cup {n}
  BY <1>3 DEF Repairs, Children, Has
<1>5. /\ IsFiniteSet(Writers) /\ IsFiniteSet(Writers') /\ Writers' \subseteq Writers \ {t}
      /\ Cardinality(Writers) \in Nat /\ Cardinality(Writers') \in Nat
      /\ Cardinality(Writers') <= IF t \in Writers THEN Cardinality(Writers) - 1 ELSE Cardinality(Writers)
  <2>1. Writers' \subseteq Writers \ {t} /\ IsFiniteSet(Writers)
    BY <1>1, WritersAfter DEF CountInv
  <2>2. IsFiniteSet(Writers \ {t}) /\ Cardinality(Writers \ {t}) =
           IF t \in Writers THEN Cardinality(Writers) - 1 ELSE Cardinality(Writers)
    BY <2>1, FS_RemoveElement
  <2>3. IsFiniteSet(Writers') /\ Cardinality(Writers') <= Cardinality(Writers \ {t})
    BY <2>1, <2>2, FS_Subset
  <2> QED
    BY <2>1, <2>2, <2>3, FS_CardinalityType
<1>6. asked \in Nat /\ Cardinality(Writers) <= asked
  BY CountersAreNat DEF CountInv
<1>7. ASSUME NEW p \in ItemIds PROVE RepairsOf(p)' <= RepairLimit + asked'
  <2>1. /\ RepairsOf(p) <= RepairLimit + asked /\ Cardinality(Repairs(p)) \in Nat
        /\ RepairLimit \in Nat /\ Cardinality(Repairs(p)') \in Nat
    BY RepairsFinite DEF CountInv
  <2>2. One(Pending(p))' = (IF Pending(p)' THEN 1 ELSE 0) /\ One(Pending(p)) = IF Pending(p) THEN 1 ELSE 0
    BY DEF One
  <2>3. RepairsOf(p)' = Cardinality(Repairs(p)') + Cardinality(Writers') + One(Pending(p))'
    BY DEF RepairsOf
  <2>4. Pending(p)' => Pending(p) \/ Cardinality(Repairs(p)) < RepairLimit
    BY PendingAfter
  <2>5. CASE p # q
    <3>1. Cardinality(Repairs(p)') = Cardinality(Repairs(p)) /\ Cardinality(Writers') <= Cardinality(Writers)
      BY <1>4, <1>5, <2>5
    <3> QED
      BY <1>1, <1>5, <1>6, <2>1, <2>2, <2>3, <2>4, <3>1 DEF RepairsOf
  <2>6. CASE p = q
    <3>1. Cardinality(Repairs(p)') <= Cardinality(Repairs(p)) + 1
      BY <1>4, <2>6, RepairsFinite, OneMore
    <3>2. CASE t = Daemon
      <4>1. Pending(p) /\ ~Pending(p)' /\ Cardinality(Writers') <= Cardinality(Writers)
        BY <1>1, <1>2, <1>5, <2>6, <3>2 DEF Pending
      <4> QED
        BY <1>1, <1>5, <1>6, <2>1, <2>2, <2>3, <3>1, <4>1 DEF RepairsOf
    <3>3. CASE t # Daemon
      <4>1. t \in Writers
        BY <1>1, <3>3 DEF Writers, Threads
      <4>2. Cardinality(Writers') <= Cardinality(Writers) - 1
        BY <1>5, <4>1
      <4> QED
        BY <1>1, <1>5, <1>6, <2>1, <2>2, <2>3, <2>4, <3>1, <4>2 DEF RepairsOf
    <3> QED
      BY <3>2, <3>3
  <2> QED
    BY <2>5, <2>6
<1> QED
  BY <1>1, <1>5, <1>6, <1>7 DEF CountInv

LEMMA RequestCounts ==
  ASSUME Inv, CountInv, NEW t \in Requests, NEW i \in ItemIds, Request(t, i)
  PROVE  CountInv'
<1>1. /\ UNCHANGED meta /\ pc' = [pc EXCEPT ![t] = "begin"] /\ asked' = asked + 1
      /\ t # Daemon /\ \A u \in Threads \ {t} : my'[u] = my[u]
  BY TaskGraphAssumption DEF Request, Set, Goto, tables, Inv, TypeOK
<1>2. Writers' \subseteq Writers \cup {t}
  BY <1>1, DaemonIsThread DEF Writers, Inv, TypeOK
<1>3. /\ IsFiniteSet(Writers') /\ Cardinality(Writers') \in Nat /\ Cardinality(Writers) \in Nat
      /\ Cardinality(Writers') <= Cardinality(Writers) + 1
  BY <1>2, OneMore DEF CountInv
<1>4. asked \in Nat /\ Cardinality(Writers) <= asked
  BY CountersAreNat DEF CountInv
<1>5. ASSUME NEW p \in ItemIds PROVE RepairsOf(p)' <= RepairLimit + asked'
  <2>1. RepairsOf(p) <= RepairLimit + asked /\ Cardinality(Repairs(p)) \in Nat /\ RepairLimit \in Nat
    BY RepairsFinite DEF CountInv
  <2>2. Repairs(p)' = Repairs(p) /\ (Pending(p)' <=> Pending(p))
    BY <1>1, DaemonIsThread DEF Repairs, Children, Has, Pending, Inv, TypeOK
  <2>3. One(Pending(p))' = One(Pending(p)) /\ One(Pending(p)) \in {0, 1}
    BY <2>2 DEF One
  <2>4. RepairsOf(p)' = Cardinality(Repairs(p)) + Cardinality(Writers') + One(Pending(p))
    BY <2>2, <2>3 DEF RepairsOf
  <2> QED
    BY <1>1, <1>3, <1>4, <2>1, <2>3, <2>4 DEF RepairsOf
<1> QED
  BY <1>1, <1>3, <1>4, <1>5 DEF CountInv

\* A step of no thread.
LEMMA CountUntouched ==
  ASSUME Inv, CountInv, UNCHANGED <<meta, asked>>,
         UNCHANGED threads \/ \A t \in Threads : pc'[t] = "idle"
  PROVE  CountInv'
<1>1. \A p \in ItemIds : Repairs(p)' = Repairs(p)
  BY DEF Repairs, Children, Has
<1>2. Writers' \subseteq Writers
  BY DaemonIsThread DEF Writers, threads
<1>3. \A p \in ItemIds : Pending(p)' => Pending(p)
  BY DaemonIsThread DEF Pending, threads
<1> QED
  BY <1>1, <1>2, <1>3, CountKeeps

LEMMA InitCount == Init => CountInv
<1> SUFFICES ASSUME Init PROVE CountInv
  OBVIOUS
<1>1. Writers = {} /\ ~(pc[Daemon] \in {"repair", "repairMeta"}) /\ asked = 0
  BY DaemonIsThread DEF Init, Writers
<1>2. \A p \in ItemIds : Repairs(p) = {}
  BY DEF Init, Repairs, Children, Has, NoMeta
<1>3. \A p \in ItemIds : RepairsOf(p) = 0
  BY <1>1, <1>2, FS_EmptySet DEF RepairsOf, One, Pending
<1> QED
  BY <1>1, <1>3, FS_EmptySet, TaskGraphAssumption DEF CountInv

LEMMA NextCount == Inv /\ CountInv /\ [Next]_vars => CountInv'
<1> SUFFICES ASSUME Inv, CountInv, [Next]_vars PROVE CountInv'
  OBVIOUS
<1>1. CASE Reconcile
  <2>1. UNCHANGED <<meta, asked, my>> /\ pc' = [pc EXCEPT ![Daemon] = "begin"]
    BY <1>1 DEF Reconcile, Goto, tables, counters
  <2>2. \A p \in ItemIds : Repairs(p)' = Repairs(p)
    BY <2>1 DEF Repairs, Children, Has
  <2>3. Writers' \subseteq Writers /\ \A p \in ItemIds : ~Pending(p)'
    BY <2>1, DaemonIsThread, TaskGraphAssumption DEF Writers, Pending, Inv, TypeOK
  <2> QED
    BY <2>1, <2>2, <2>3, CountKeeps
<1>2. CASE \E i \in ItemIds : ReleaseClaim(i) \/ HumanMoves(i)
  BY <1>2, CountUntouched DEF ReleaseClaim, HumanMoves, tables, counters
<1>3. ASSUME NEW t \in Threads, ThreadStep(t) PROVE CountInv'
  <2>1. Turn(t) /\ Effect(t) /\ UNCHANGED asked
    BY <1>3, ThreadTurn, ThreadStepEffect DEF Turn
  <2>2. CASE RepairMeta(t)
    BY <2>1, <2>2, RepairMetaCounts
  <2>3. CASE ~RepairMeta(t)
    BY <1>3, <2>1, <2>3, OtherRows, WritersAfter, PendingAfter, CountKeeps
  <2> QED
    BY <2>2, <2>3
<1>4. CASE \E t \in Requests, i \in ItemIds : Request(t, i)
  BY <1>4, RequestCounts
<1>5. CASE Crash
  BY <1>5, CountUntouched DEF Crash, tables
<1>6. CASE UNCHANGED vars
  BY <1>6, CountUntouched DEF vars, tables, counters
<1> QED
  BY <1>1, <1>2, <1>3, <1>4, <1>5, <1>6 DEF Next

\* Whatever fails or crashes, _create_repair_task records no more than
\* full_auto_repair_limit repairs among the children of a parent, but for the handler
\* threads of the local API, which count before the daemon has written.
THEOREM RepairsAreBounded == Spec => []RepairsBounded
<1>1. Inv /\ CountInv => RepairsBounded
  <2> SUFFICES ASSUME Inv, CountInv, NEW p \in ItemIds
               PROVE  Cardinality({i \in Children(p) : meta[i].repair}) <= RepairLimit + asked
    BY DEF RepairsBounded
  <2>1. RepairsOf(p) <= RepairLimit + asked /\ asked \in Nat /\ RepairLimit \in Nat
    BY CountersAreNat, RepairsFinite DEF CountInv
  <2>2. Cardinality(Repairs(p)) \in Nat /\ Cardinality(Writers) \in Nat /\ One(Pending(p)) \in {0, 1}
    BY RepairsFinite, FS_CardinalityType DEF CountInv, One
  <2>3. Cardinality(Repairs(p)) <= RepairLimit + asked
    BY <2>1, <2>2 DEF RepairsOf
  <2> QED
    BY <2>3 DEF Repairs
<1> QED
  BY InvHolds, InitCount, NextCount, <1>1, PTL DEF Spec

-----------------------------------------------------------------------------
(* What a step makes *)

\* A thread makes an item, or two if the answer was lost, and goes on to record it.
Creates(t) ==
    /\ pc[t] \in CreateSteps /\ pc'[t] = MetaStep[pc[t]]
    /\ Grown(KindMade[MetaStep[pc[t]]]) /\ Created' = 1..Len(items')
    /\ faults' \in {faults, faults + 1}
    /\ Len(items') = Len(items) + 1 + (faults' - faults)
    /\ UNCHANGED <<meta, claims>>
    /\ my'[t] = [my[t] EXCEPT !.new = Len(items')]

LEMMA ItemCreated ==
  ASSUME Inv, NEW t \in Threads, NEW new \in [ItemIds -> Item],
         pc[t] \in CreateSteps, CreateItem(t, new, MetaStep[pc[t]]), UNCHANGED <<meta, claims>>,
         \A i \in ItemIds : new[i].kind = KindMade[MetaStep[pc[t]]]
  PROVE  Creates(t)
<1>1. /\ Grown(KindMade[MetaStep[pc[t]]]) /\ Created' = 1..Len(items')
      /\ Goto(t, MetaStep[pc[t]]) /\ my' = [my EXCEPT ![t].new = Len(items')]
  <2>1. TypeOK
    BY DEF Inv
  <2>2. PICK then, k : then = MetaStep[pc[t]] /\ k = KindMade[MetaStep[pc[t]]]
    OBVIOUS
  <2>3. CreateItem(t, new, then) /\ \A i \in ItemIds : new[i].kind = k
    BY <2>2
  <2>4. /\ Grown(k) /\ Created \subseteq Created' /\ Created' = 1..Len(items')
        /\ \A i \in Created' \ Created : items'[i] = new[i]
        /\ Goto(t, then) /\ my' = [my EXCEPT ![t].new = Len(items')]
        /\ Len(items') \in ItemIds \ Created /\ Len(items') \in Created'
    BY <2>1, <2>3, CreateItemFacts
  <2> QED
    BY <2>2, <2>4
<1>2. pc'[t] = MetaStep[pc[t]] /\ my'[t] = [my[t] EXCEPT !.new = Len(items')]
  BY <1>1 DEF Goto, Inv, TypeOK
<1>3. faults \in Nat /\ Len(items) \in Nat /\ items \in Seq(Item)
  BY CountersAreNat, CreatedIsItem DEF Inv, TypeOK
<1>4. faults' \in {faults, faults + 1} /\ Len(items') = Len(items) + 1 + (faults' - faults)
  <2>1. CASE UNCHANGED counters /\ items' = Append(items, new[Len(items) + 1])
    BY <1>3, <2>1 DEF counters
  <2>2. CASE Fault /\ items' = items \o <<new[Len(items) + 1], new[Len(items) + 2]>>
    BY <1>3, <2>2 DEF Fault
  <2> QED
    BY <2>1, <2>2 DEF CreateItem
<1> QED
  BY <1>1, <1>2, <1>4 DEF Creates

LEMMA FinishedStates ==
  ASSUME Inv, NEW t \in Threads, NEW s \in States, NEW S, FinishRun(t, s, S, "Planning")
  PROVE  StatesOnly
BY FinishRunFacts DEF Inv, States

LEMMA RaisedStates ==
  ASSUME Inv, NEW t \in Threads, NEW S, RunRaises(t, S)
  PROVE  StatesOnly
BY FinishedStates DEF RunRaises, States

LEMMA MovedStates ==
  ASSUME Inv, NEW S, NEW s \in States, Moved(S, s)
  PROVE  StatesOnly
BY MovedFacts DEF Inv

LEMMA SameStates ==
  ASSUME Inv, UNCHANGED items
  PROVE  StatesOnly
BY DEF StatesOnly, Created, Inv, TypeOK

LEMMA ItemsChange ==
  ASSUME Inv, NEW t \in Threads, ThreadStep(t)
  PROVE  StatesOnly \/ Creates(t)
<1>0. {"Done", "Planning", "Running", "Needs Input", "Human Review"} \subseteq States
  BY DEF States
<1>1. CASE BeginRunOnce(t)
  BY <1>0, <1>1, MovedStates DEF BeginRunOnce
<1>2. CASE Deliver(t)
  <2> DEFINE new == [id \in ItemIds |-> Plain("delivery", "Backlog")]
  <2>1. CASE CreateItem(t, new, "deliverMeta")
    <3>1. new \in [ItemIds -> Item] /\ \A i \in ItemIds : new[i].kind = "delivery"
      BY DEF Plain, Item, Kinds, States
    <3> HIDE DEF new
    <3> QED
      BY <1>2, <2>1, <3>1, ItemCreated DEF Deliver, MetaStep, KindMade, CreateSteps, tables
  <2> QED
    BY <1>2, <2>1, SameStates DEF Deliver, CreateFails
<1>3. CASE CloseRoot(t)
  <2>1. CASE FinishRun(t, "Done", {}, "Done")
    BY <1>0, <2>1, FinishRunFacts DEF Inv
  <2> QED
    BY <1>0, <1>3, <2>1, RaisedStates, MovedStates, SameStates DEF CloseRoot
<1>4. CASE \E i \in ItemIds : Pick(t, i)
  BY <1>0, <1>4, MovedStates, SameStates DEF Pick, ParentWaits, SplitRequest, StartRun, Claim
<1>5. CASE CreatePlanner(t)
  <2> DEFINE new == [id \in ItemIds |-> Plain("planner", "Ready")]
  <2>1. CASE CreateItem(t, new, "planMeta") /\ UNCHANGED claims
    <3>1. new \in [ItemIds -> Item] /\ \A i \in ItemIds : new[i].kind = "planner"
      BY DEF Plain, Item, Kinds, States
    <3> HIDE DEF new
    <3> QED
      BY <1>5, <2>1, <3>1, ItemCreated DEF CreatePlanner, MetaStep, KindMade, CreateSteps
  <2> QED
    BY <1>0, <1>5, <2>1, SameStates, MovedStates DEF CreatePlanner, RunItself, Claim
<1>6. CASE PlannerMove(t)
  BY <1>0, <1>6, MovedStates, SameStates DEF PlannerMove
<1>7. CASE RunBlocked(t)
  BY <1>0, <1>7, FinishedStates, SameStates DEF RunBlocked
<1>8. CASE CreateTask(t)
  <2> DEFINE new == [id \in ItemIds |->
                        [kind |-> "task", state |-> ProposalState(t), depth |-> my[t].depth,
                         needs |-> ResolvedNeeds(t, id)]]
  <2>1. CASE CreateItem(t, new, "proposeMeta")
    <3>1. new \in [ItemIds -> Item] /\ \A i \in ItemIds : new[i].kind = "task"
      <4>1. ProposalState(t) \in States /\ my[t].depth \in Nat
        BY DEF ProposalState, States, Inv, TypeOK, Locals
      <4>2. \A i \in ItemIds : ResolvedNeeds(t, i) \subseteq ItemIds
        BY <1>8, ResolvedNeedsAreMade DEF CreateTask, Proposing, ProposeSteps
      <4> QED
        BY <4>1, <4>2 DEF Item, Kinds
    <3> HIDE DEF new
    <3> QED
      BY <1>8, <2>1, <3>1, ItemCreated DEF CreateTask, Proposing, MetaStep, KindMade, CreateSteps, tables
  <2> QED
    BY <1>8, <2>1, SameStates DEF CreateTask, CreateFails
<1>9. CASE Proposed(t)
  BY <1>0, <1>9, MovedStates, SameStates DEF Proposed, RunItself, Claim
<1>10. CASE Settle(t)
  BY <1>0, <1>10, FinishedStates, RaisedStates, SameStates DEF Settle
<1>11. CASE CreateRepair(t)
  <2> DEFINE new == [id \in ItemIds |-> Plain("repair", "Ready")]
  <2>1. CASE CreateItem(t, new, "repairMeta") /\ UNCHANGED tables
    <3>1. new \in [ItemIds -> Item] /\ \A i \in ItemIds : new[i].kind = "repair"
      BY DEF Plain, Item, Kinds, States
    <3> HIDE DEF new
    <3> QED
      BY <1>11, <2>1, <3>1, ItemCreated DEF CreateRepair, MetaStep, KindMade, CreateSteps, tables
  <2> QED
    BY <1>11, <2>1, RaisedStates DEF CreateRepair
<1>12. CASE RepairMove(t)
  BY <1>0, <1>12, FinishedStates, RaisedStates DEF RepairMove
<1>13. CASE \/ DeliverMeta(t) \/ NothingToDo(t) \/ PlannerMeta(t) \/ RunProposes(t) \/ RunSucceeds(t)
            \/ TaskMeta(t) \/ RepairMeta(t)
  <2>1. UNCHANGED items
    BY <1>13 DEF DeliverMeta, NothingToDo, PlannerMeta, RunProposes, RunSucceeds, TaskMeta, RepairMeta
  <2> QED
    BY <2>1, SameStates
<1> QED
  BY <1>1, <1>2, <1>3, <1>4, <1>5, <1>6, <1>7, <1>8, <1>9, <1>10, <1>11, <1>12, <1>13
  DEF ThreadStep, BeforeDispatch, PlanStep, RunStep

LEMMA KindsFinite ==
  ASSUME Inv
  PROVE  \A k : IsFiniteSet(OfKind(k)) /\ Cardinality(OfKind(k)) \in Nat
<1>1. IsFiniteSet(Created)
  BY CreatedIsItem, FS_Interval DEF Inv
<1>2. \A k : OfKind(k) \subseteq Created
  BY DEF OfKind
<1> QED
  BY <1>1, <1>2, FS_Subset, FS_CardinalityType

LEMMA KindsKept ==
  ASSUME StatesOnly
  PROVE  \A k : OfKind(k)' = OfKind(k)
BY DEF StatesOnly, OfKind

LEMMA KindsGrown ==
  ASSUME Inv, NEW t \in Threads, Creates(t), NEW k
  PROVE  /\ k # KindMade[MetaStep[pc[t]]] => OfKind(k)' = OfKind(k)
         /\ Cardinality(OfKind(k)') \in Nat
         /\ Cardinality(OfKind(k)') <= Cardinality(OfKind(k)) + 1 + (faults' - faults)
<1> DEFINE n == Len(items)
<1>1. /\ Created = 1..n /\ n \in Nat /\ faults \in Nat
      /\ IsFiniteSet(OfKind(k)) /\ Cardinality(OfKind(k)) \in Nat
  BY CreatedIsItem, CountersAreNat, KindsFinite DEF Inv
<1>2. /\ \A i \in Created : items'[i] = items[i]
      /\ \A i \in Created' \ Created : items'[i].kind = KindMade[MetaStep[pc[t]]]
      /\ Created' = 1..Len(items') /\ faults' \in {faults, faults + 1}
      /\ Len(items') = n + 1 + (faults' - faults)
  BY DEF Creates, Grown
<1>3. OfKind(k)' \subseteq OfKind(k) \cup (Created' \ Created) /\ Created \subseteq Created'
  BY <1>1, <1>2 DEF OfKind
<1>4. k # KindMade[MetaStep[pc[t]]] => OfKind(k)' = OfKind(k)
  BY <1>2, <1>3 DEF OfKind
<1>5. CASE faults' = faults
  <2>1. OfKind(k)' \subseteq OfKind(k) \cup {n + 1}
    BY <1>1, <1>2, <1>3, <1>5
  <2> HIDE DEF n
  <2>2. Cardinality(OfKind(k)') \in Nat /\ Cardinality(OfKind(k)') <= Cardinality(OfKind(k)) + 1
    BY <1>1, <2>1, OneMore
  <2> QED
    BY <1>1, <1>4, <1>5, <2>2
<1>6. CASE faults' = faults + 1
  <2>1. OfKind(k)' \subseteq (OfKind(k) \cup {n + 1}) \cup {n + 2}
    BY <1>1, <1>2, <1>3, <1>6
  <2> HIDE DEF n
  <2>2. /\ IsFiniteSet(OfKind(k) \cup {n + 1}) /\ Cardinality(OfKind(k) \cup {n + 1}) \in Nat
        /\ Cardinality(OfKind(k) \cup {n + 1}) <= Cardinality(OfKind(k)) + 1
    BY <1>1, OneMore
  <2>3. /\ Cardinality(OfKind(k)') \in Nat
        /\ Cardinality(OfKind(k)') <= Cardinality(OfKind(k) \cup {n + 1}) + 1
    <3>1. PICK S : S = OfKind(k) \cup {n + 1}
      OBVIOUS
    <3>2. IsFiniteSet(S) /\ OfKind(k)' \subseteq S \cup {n + 2}
      BY <2>1, <2>2, <3>1
    <3>3. Cardinality(OfKind(k)') \in Nat /\ Cardinality(OfKind(k)') <= Cardinality(S) + 1
      BY <3>2, OneMore
    <3> QED
      BY <3>1, <3>3
  <2> QED
    BY <1>1, <1>4, <1>6, <2>2, <2>3
<1> QED
  BY <1>2, <1>5, <1>6

-----------------------------------------------------------------------------
(* The planner of a request *)

\* The handler threads that may still find the request without children, and make
\* it a planner.
Splitters == {t \in Requests : pc[t] \in {"begin", "pick", "plan"}}
Planners  == Cardinality(OfKind("planner")) + Cardinality(Splitters)

\* Every planner, and every handler thread that may make one, is paid for by a
\* disturbance, but for one; and for that one too while the request has no child.
PlanInv ==
    /\ IsFiniteSet(Splitters)
    /\ Planners + One(pc[Daemon] = "plan") <= 1 + Disturbances
    /\ Children(Root) = {} /\ pc[Daemon] \notin {"plan", "planMeta"} => Planners <= Disturbances

LEMMA SplittersAfter ==
  ASSUME Inv, PlanInv, NEW t \in Threads, Turn(t), Effect(t)
  PROVE  /\ IsFiniteSet(Splitters') /\ Cardinality(Splitters') \in Nat
         /\ Cardinality(Splitters) \in Nat
         /\ Cardinality(Splitters') <= Cardinality(Splitters)
         /\ t \in Requests /\ pc[t] = "plan" /\ pc'[t] \notin {"begin", "pick", "plan"} =>
               Cardinality(Splitters') <= Cardinality(Splitters) - 1
<1>1. \A u \in Requests : u # t => pc'[u] = pc[u]
  BY DaemonIsThread DEF Effect
<1>2. Splitters' \subseteq Splitters
  BY <1>1 DEF Turn, Splitters
<1>3. /\ IsFiniteSet(Splitters') /\ Cardinality(Splitters') \in Nat
      /\ Cardinality(Splitters) \in Nat
      /\ Cardinality(Splitters') <= Cardinality(Splitters)
  BY <1>2, FS_Subset, FS_CardinalityType DEF PlanInv
<1>4. CASE t \in Requests /\ pc[t] = "plan" /\ pc'[t] \notin {"begin", "pick", "plan"}
  <2>1. t \in Splitters /\ Splitters' \subseteq Splitters \ {t}
    BY <1>2, <1>4 DEF Splitters
  <2>2. IsFiniteSet(Splitters \ {t}) /\ Cardinality(Splitters \ {t}) = Cardinality(Splitters) - 1
    BY <2>1, FS_RemoveElement DEF PlanInv
  <2>3. Cardinality(Splitters') <= Cardinality(Splitters \ {t})
    BY <2>1, <2>2, FS_Subset
  <2> QED
    BY <1>3, <2>2, <2>3
<1> QED
  BY <1>3, <1>4

LEMMA ChildrenStay ==
  ASSUME Kept
  PROVE  \A p : Children(p) \subseteq Children(p)'
BY DEF Kept, Children, Has

\* The new planner is the request's child.
LEMMA PlannerIsChild ==
  ASSUME Inv, NEW t \in Threads, ThreadStep(t), pc[t] = "planMeta"
  PROVE  Children(Root)' # {}
<1>1. WriteMeta(t, "planner", my[t].item, 1, RunMode(my[t].item), {})
  BY DEF ThreadStep, BeforeDispatch, PlanStep, RunStep, BeginRunOnce, Deliver, DeliverMeta, CloseRoot,
         NothingToDo, CreatePlanner, PlannerMeta, PlannerMove, RunProposes, RunSucceeds, RunBlocked,
         CreateTask, Proposing, TaskMeta, Proposed, Settle, CreateRepair, RepairMeta, RepairMove, Pick
<1>2. my[t].item = Root
  BY DEF Inv, Hand, ItemInHand, SplitSteps
<1>3. /\ my[t].new \in ItemIds /\ meta'[my[t].new] # NoMeta /\ meta'[my[t].new].parent = my[t].item
  BY <1>1, NewRow DEF MetaSteps, Roles
<1>4. PICK n \in ItemIds : meta'[n] # NoMeta /\ meta'[n].parent = Root
  BY <1>2, <1>3
<1> QED
  BY <1>4 DEF Children, Has

LEMMA ThreadPlans ==
  ASSUME Inv, PlanInv, NEW t \in Threads, ThreadStep(t)
  PROVE  PlanInv'
<1> DEFINE N == Cardinality(OfKind("planner"))
           S == Cardinality(Splitters)
           P == One(pc[Daemon] = "plan")
           D == asked + faults + crashes
           df == faults' - faults
<1>1. Turn(t) /\ Effect(t)
  BY ThreadTurn, ThreadStepEffect
<1>2. D \in Nat /\ D' \in Nat /\ df \in {0, 1} /\ df \in Nat /\ D' = D + df
  BY <1>1, CountersAreNat DEF Turn
<1>3. /\ IsFiniteSet(Splitters') /\ S' \in Nat /\ S \in Nat /\ S' <= S
      /\ t \in Requests /\ pc[t] = "plan" /\ pc'[t] \notin {"begin", "pick", "plan"} => S' <= S - 1
  BY <1>1, SplittersAfter
<1>4. N \in Nat /\ P \in {0, 1}
  BY KindsFinite DEF One
<1>5. N + S + P <= 1 + D
  BY DEF PlanInv, Planners, Disturbances
<1>6. Children(Root) = {} /\ pc[Daemon] \notin {"plan", "planMeta"} => N + S <= D
  BY DEF PlanInv, Planners, Disturbances
<1>7. t # Daemon => pc'[Daemon] = pc[Daemon]
  BY <1>1, DaemonIsThread DEF Effect
<1>8. Children(Root)' = {} => Children(Root) = {}
  BY <1>1, ChildrenStay DEF Effect
<1>9. /\ P = (IF pc[Daemon] = "plan" THEN 1 ELSE 0)
      /\ P' = (IF pc'[Daemon] = "plan" THEN 1 ELSE 0)
  BY DEF One
<1>10. /\ N' + S' + P' <= 1 + D'
       /\ Children(Root)' = {} /\ pc'[Daemon] \notin {"plan", "planMeta"} => N' + S' <= D'
  <2>1. CASE Creates(t) /\ pc[t] = "plan"
    <3>1. pc'[t] = "planMeta" /\ N' <= N + 1 + df /\ N' \in Nat
      BY <2>1, KindsGrown DEF Creates, MetaStep
    <3>2. CASE t = Daemon
      <4>1. P = 1 /\ P' = 0
        BY <1>9, <2>1, <3>1, <3>2
      <4>2. N' + S' + P' <= 1 + D'
        BY <1>2, <1>3, <1>4, <1>5, <3>1, <4>1
      <4> QED
        BY <3>1, <3>2, <4>2
    <3>3. CASE t # Daemon
      <4>1. S' <= S - 1 /\ pc'[Daemon] = pc[Daemon]
        BY <1>3, <1>7, <2>1, <3>1, <3>3 DEF Threads
      <4>2. P' = P
        BY <1>9, <4>1
      <4>6. S \in Nat /\ S' \in Nat
        BY <1>3
      <4>3. N' + S' <= N + S + df
        BY <1>2, <1>3, <1>4, <3>1, <4>1
      <4>4. N' + S' + P' <= 1 + D'
        BY <1>2, <1>3, <1>4, <1>5, <3>1, <4>2, <4>3
      <4>5. N + S <= D => N' + S' <= D'
        BY <1>2, <1>4, <3>1, <4>3, <4>6
      <4> QED
        BY <1>6, <1>8, <4>1, <4>4, <4>5
    <3> QED
      BY <3>2, <3>3
  <2>2. CASE ~(Creates(t) /\ pc[t] = "plan")
    <3>1. N' = N
      <4>1. CASE StatesOnly
        BY <4>1, KindsKept
      <4>2. CASE Creates(t) /\ pc[t] # "plan"
        <5>1. "planner" # KindMade[MetaStep[pc[t]]]
          BY <4>2 DEF Creates, CreateSteps, MetaStep, KindMade
        <5> QED
          BY <4>2, <5>1, KindsGrown
      <4> QED
        BY <2>2, <4>1, <4>2, ItemsChange
    <3>2. pc'[Daemon] = "plan" /\ pc[Daemon] # "plan" =>
             Children(Root) = {} /\ pc[Daemon] \notin {"plan", "planMeta"}
      BY <1>1, <1>7 DEF Turn
    <3>3. pc[Daemon] = "planMeta" /\ pc'[Daemon] \notin {"plan", "planMeta"} => Children(Root)' # {}
      BY <1>1, <1>7, PlannerIsChild
    <3>4. \/ P' = 0 \/ P = 1
          \/ Children(Root) = {} /\ pc[Daemon] \notin {"plan", "planMeta"}
      BY <1>9, <3>2
    <3>5. Children(Root)' = {} /\ pc'[Daemon] \notin {"plan", "planMeta"} =>
             P = 1 \/ (Children(Root) = {} /\ pc[Daemon] \notin {"plan", "planMeta"})
      BY <1>8, <1>9, <3>3
    <3>6. P' \in {0, 1}
      BY <1>9
    <3>10. N' \in Nat /\ S' \in Nat /\ S' <= S /\ S \in Nat
      BY <1>3, <1>4, <3>1
    <3>11. N' + S' <= N + S
      BY <1>4, <3>1, <3>10
    <3>7. P = 1 => N + S <= D
      BY <1>2, <1>3, <1>4, <1>5
    <3>8. N + S <= D => N' + S' <= D' /\ N' + S' + P' <= 1 + D'
      BY <1>2, <1>4, <3>6, <3>10, <3>11
    <3>9. P' = 0 => N' + S' + P' <= 1 + D'
      BY <1>2, <1>4, <1>5, <3>10, <3>11
    <3> QED
      BY <1>6, <3>4, <3>5, <3>7, <3>8, <3>9
  <2> QED
    BY <2>1, <2>2
<1> QED
  BY <1>3, <1>10 DEF PlanInv, Planners, Disturbances

LEMMA OthersPlan ==
  ASSUME Inv, PlanInv, Next, ~\E t \in Threads : ThreadStep(t)
  PROVE  PlanInv'
<1> DEFINE N == Cardinality(OfKind("planner"))
           S == Cardinality(Splitters)
           P == One(pc[Daemon] = "plan")
<1>1. /\ asked \in Nat /\ crashes \in Nat /\ faults \in Nat /\ N \in Nat /\ S \in Nat
      /\ P = (IF pc[Daemon] = "plan" THEN 1 ELSE 0) /\ P \in {0, 1}
  BY CountersAreNat, KindsFinite, FS_CardinalityType DEF PlanInv, One
<1>2. /\ N + S + P <= 1 + (asked + faults + crashes)
      /\ Children(Root) = {} /\ pc[Daemon] \notin {"plan", "planMeta"} => N + S <= asked + faults + crashes
  BY DEF PlanInv, Planners, Disturbances
<1>3. N' = N /\ Children(Root)' = Children(Root)
  <2>1. StatesOnly /\ UNCHANGED meta
    <3>1. CASE Reconcile
      BY <3>1, MovedStates DEF Reconcile, States, tables
    <3>2. CASE \E i \in ItemIds : ReleaseClaim(i)
      BY <3>2, MovedStates, SameStates DEF ReleaseClaim, States
    <3>3. CASE \E i \in ItemIds : HumanMoves(i)
      BY <3>3, MovedStates DEF HumanMoves, States, tables
    <3>4. CASE Crash \/ \E t \in Requests, i \in ItemIds : Request(t, i)
      BY <3>4, SameStates DEF Crash, Request, tables
    <3> QED
      BY <3>1, <3>2, <3>3, <3>4 DEF Next
  <2> QED
    BY <2>1, KindsKept DEF Children, Has
<1>4. CASE Crash
  <2>1. Splitters' = {} /\ pc'[Daemon] = "idle" /\ crashes' = crashes + 1 /\ UNCHANGED <<asked, faults>>
    BY <1>4, DaemonIsThread DEF Crash, Splitters
  <2>2. IsFiniteSet(Splitters') /\ S' = 0 /\ P' = 0
    BY <2>1, FS_EmptySet DEF One
  <2>3. N' + S' <= asked' + faults' + crashes'
    BY <1>1, <1>2, <1>3, <2>1, <2>2
  <2>4. N' + S' + P' <= 1 + (asked' + faults' + crashes')
    BY <1>1, <1>3, <2>1, <2>2, <2>3
  <2> QED
    BY <2>2, <2>3, <2>4 DEF PlanInv, Planners, Disturbances
<1>5. CASE \E t \in Requests, i \in ItemIds : Request(t, i)
  <2>1. PICK t \in Requests, i \in ItemIds : Request(t, i)
    BY <1>5
  <2>2. /\ Splitters' \subseteq Splitters \cup {t} /\ pc'[Daemon] = pc[Daemon]
        /\ asked' = asked + 1 /\ UNCHANGED <<faults, crashes>>
    BY <2>1, DaemonIsThread, TaskGraphAssumption DEF Request, Set, Goto, Splitters, Inv, TypeOK
  <2>3. IsFiniteSet(Splitters') /\ S' \in Nat /\ S' <= S + 1
    BY <2>2, OneMore DEF PlanInv
  <2>5. P' = P
    BY <2>2
  <2>4. N' + S' + P' <= 1 + (asked' + faults' + crashes')
    BY <1>1, <1>2, <1>3, <2>2, <2>3, <2>5
  <2>6. N + S <= asked + faults + crashes => N' + S' <= asked' + faults' + crashes'
    BY <1>1, <1>3, <2>2, <2>3
  <2> QED
    BY <1>2, <1>3, <2>2, <2>3, <2>4, <2>6 DEF PlanInv, Planners, Disturbances
<1>6. CASE Reconcile \/ \E i \in ItemIds : ReleaseClaim(i) \/ HumanMoves(i)
  <2>1. /\ Splitters' = Splitters /\ UNCHANGED <<asked, faults, crashes>>
        /\ pc'[Daemon] = pc[Daemon] \/ (pc[Daemon] = "idle" /\ pc'[Daemon] = "begin")
    <3>1. CASE Reconcile
      BY <3>1, DaemonIsThread, TaskGraphAssumption DEF Reconcile, Goto, Splitters, Inv, TypeOK, counters
    <3>2. CASE \E i \in ItemIds : ReleaseClaim(i) \/ HumanMoves(i)
      BY <3>2 DEF ReleaseClaim, HumanMoves, Splitters, counters, threads
    <3> QED
      BY <1>6, <3>1, <3>2
  <2>2. IsFiniteSet(Splitters') /\ S' = S /\ P' = P
    BY <2>1 DEF PlanInv, One
  <2>4. /\ N' + S' + P' <= 1 + (asked' + faults' + crashes')
        /\ Children(Root)' = {} /\ pc'[Daemon] \notin {"plan", "planMeta"} =>
              N' + S' <= asked' + faults' + crashes'
    BY <1>1, <1>2, <1>3, <2>1, <2>2
  <2> QED
    BY <2>2, <2>4 DEF PlanInv, Planners, Disturbances
<1> QED
  BY <1>4, <1>5, <1>6 DEF Next

LEMMA InitPlan == Init => PlanInv
<1> SUFFICES ASSUME Init PROVE PlanInv
  OBVIOUS
<1>1. Splitters = {} /\ pc[Daemon] = "idle" /\ asked = 0 /\ faults = 0 /\ crashes = 0
  BY DaemonIsThread DEF Init, Splitters
<1>2. OfKind("planner") = {}
  <2>1. Inv /\ Len(items) = 1
    BY InitInv DEF Init
  <2> QED
    BY <2>1, CreatedIsItem DEF Inv, ItemsInv, OfKind, Root
<1> QED
  BY <1>1, <1>2, FS_EmptySet DEF PlanInv, Planners, One, Disturbances

LEMMA NextPlan == Inv /\ PlanInv /\ [Next]_vars => PlanInv'
<1> SUFFICES ASSUME Inv, PlanInv, [Next]_vars PROVE PlanInv'
  OBVIOUS
<1>1. CASE \E t \in Threads : ThreadStep(t)
  BY <1>1, ThreadPlans
<1>2. CASE Next /\ ~\E t \in Threads : ThreadStep(t)
  BY <1>2, OthersPlan
<1>3. CASE UNCHANGED vars
  BY <1>3 DEF vars, tables, threads, counters, PlanInv, Planners, Splitters, OfKind, Created,
              Children, Has, Disturbances
<1> QED
  BY <1>1, <1>2, <1>3

-----------------------------------------------------------------------------
(* The delivery task of a request the daemon works on alone *)

Quiet == SuccessStates \cup {"Planning"}
NoTasks(t) == ToSet(my[t].batch) \subseteq {NoParent}
Splitting(t) == pc[t] \in SplitSteps \/ (pc[t] \in ProposeSteps /\ ~my[t].claim)

\* What the daemon may rely on when no handler thread was asked for anything: the
\* item it runs is Running and the request it splits Ready; it runs the request
\* itself only without children; and while the request is being closed or is
\* closed, none of its children is at work or will be.
Alone ==
    /\ \A t \in Requests : pc[t] = "idle"
    /\ my[Daemon].claim => State(my[Daemon].item) = "Running"
    /\ Splitting(Daemon) => State(Root) = "Ready"
    /\ pc[Daemon] = "plan" => TaskChildren(Root) = {}
    /\ pc[Daemon] \in {"run", "settle"} \cup ProposeSteps
       /\ my[Daemon].item = Root /\ NoTasks(Daemon) => TaskChildren(Root) = {}
    /\ pc[Daemon] \in ProposeSteps => my[Daemon].parent = PlannerParent(my[Daemon].item)
    /\ pc[Daemon] \in DeliverSteps /\ my[Daemon].claim => my[Daemon].item = Root
    /\ pc[Daemon] \in DeliverSteps \/ State(Root) = "Done" =>
          \A c \in TaskChildren(Root) : State(c) \in Quiet

AloneInv == asked = 0 => Alone

\* A step of the daemon keeps that; it never takes a closed request up again, begins
\* to close only one that is open, and closes it unless a call fails.
AloneTurn ==
    /\ Alone'
    /\ State(Root) = "Done" => State(Root)' = "Done"
    /\ pc'[Daemon] = "deliver" => pc[Daemon] \notin DeliverSteps /\ State(Root) # "Done"
    /\ pc'[Daemon] \in {"deliverMeta", "closeRoot"} => pc[Daemon] \in DeliverSteps
    /\ pc[Daemon] \in DeliverSteps /\ pc'[Daemon] \notin DeliverSteps =>
          State(Root)' = "Done" \/ faults' = faults + 1

LEMMA RootsTasks ==
  ASSUME Inv
  PROVE  /\ TaskChildren(Root) \subseteq Created \ {Root} /\ Root \in Created /\ Root \in ItemIds
         /\ \A c \in TaskChildren(Root) : Has(c) /\ c \in ItemIds
         /\ PlannerParent(Root) = Root
         /\ \A i \in ItemIds : Has(i) /\ meta[i].parent = Root /\ items[i].kind # "delivery" =>
               i \in TaskChildren(Root)
         /\ \A i \in Created : i # Root /\ PlannerParent(i) = Root => i \in TaskChildren(Root)
<1>1. /\ \A i \in ItemIds : Has(i) => i \in Created /\ meta[i].role = RoleOf[items[i].kind]
      /\ meta[Root].parent = NoParent /\ Has(Root) /\ items[Root].kind = "root"
      /\ Root \in Created /\ Root # NoParent /\ Created \subseteq ItemIds /\ Root \in ItemIds
      /\ \A i \in Created : items[i].kind \in Kinds
  BY CreatedIsItem, RootIsItem DEF Inv, RowsInv, ItemsInv, Item
<1>2. \A k \in Kinds : RoleOf[k] = "delivery_manager" => k = "delivery"
  BY DEF RoleOf, Kinds
<1>3. PlannerParent(Root) = Root
  BY <1>1 DEF PlannerParent, RoleOf
<1>4. TaskChildren(Root) \subseteq Created \ {Root} /\ \A c \in TaskChildren(Root) : Has(c) /\ c \in ItemIds
  BY <1>1 DEF TaskChildren, Children
<1>5. \A i \in ItemIds : Has(i) /\ meta[i].parent = Root /\ items[i].kind # "delivery" =>
         i \in TaskChildren(Root)
  BY <1>1, <1>2 DEF TaskChildren, Children
<1>6. \A i \in Created : i # Root /\ PlannerParent(i) = Root => i \in TaskChildren(Root)
  BY <1>1 DEF TaskChildren, Children, PlannerParent
<1> QED
  BY <1>1, <1>3, <1>4, <1>5, <1>6

LEMMA SameRows ==
  ASSUME UNCHANGED meta
  PROVE  /\ TaskChildren(Root)' = TaskChildren(Root)
         /\ \A i : PlannerParent(i)' = PlannerParent(i)
BY DEF TaskChildren, Children, Has, PlannerParent

\* A run that is not the request's own comes to its end, and its parent with it; or
\* the request's own.
LEMMA FinishAlone ==
  ASSUME Inv, Alone, NEW s \in States, NEW S, NEW s2 \in States, FinishRun(Daemon, s, S, s2),
         s2 = "Planning" \/ S = {}, \A u \in Requests : pc'[u] = pc[u],
         my[Daemon].claim, Root \in S => my[Daemon].item \in TaskChildren(Root) \cup {Root},
         s = "Done" => my[Daemon].item # Root \/ pc[Daemon] = "closeRoot",
         pc[Daemon] \in DeliverSteps => s = "Done" \/ faults' = faults + 1
  PROVE  AloneTurn
<1>1. /\ \A i \in Created : State(i)' = IF i = my[Daemon].item THEN s
                                        ELSE IF i \in S THEN "Planning" ELSE State(i)
      /\ UNCHANGED meta /\ pc'[Daemon] = "idle" /\ my'[Daemon] = Fresh
  <2>1. \A i \in Created : State(i)' = IF i = my[Daemon].item THEN s
                                      ELSE IF i \in S THEN "Planning" ELSE State(i)
    <3>1. TypeOK /\ "Planning" \in States
      BY DEF Inv, States
    <3>2. \A i \in Created : State(i)' = IF i = my[Daemon].item THEN s
                                        ELSE IF i \in S THEN s2 ELSE State(i)
      BY <3>1, FinishRunFacts, DaemonIsThread
    <3> QED
      BY <3>2
  <2> QED
    BY <2>1, DaemonIsThread DEF FinishRun, Return, Goto, Inv, TypeOK
<1>2. State(my[Daemon].item) = "Running" /\ my[Daemon].item \in Created
  BY DaemonIsThread DEF Alone, Inv, Hand, ItemInHand
<1>3. TaskChildren(Root)' = TaskChildren(Root) /\ TaskChildren(Root) \subseteq Created \ {Root} /\ Root \in Created
  BY <1>1, SameRows, RootsTasks
<1>4. pc[Daemon] \in DeliverSteps \/ State(Root) = "Done" =>
         \A c \in TaskChildren(Root) : State(c) \in Quiet
  BY DEF Alone
<1>5. "Running" \notin Quiet /\ "Planning" \in Quiet
  BY DEF Quiet, SuccessStates
<1>6. State(Root) = "Done" => State(Root)' = "Done" /\ my[Daemon].item \notin TaskChildren(Root) \cup {Root}
  BY <1>1, <1>2, <1>3, <1>4, <1>5
<1>7. State(Root)' = "Done" => \A c \in TaskChildren(Root) : State(c)' \in Quiet
  <2>1. State(Root)' = "Done" => State(Root) = "Done" \/ pc[Daemon] = "closeRoot"
    BY <1>1, <1>3
  <2>2. State(Root)' = "Done" => my[Daemon].item \notin TaskChildren(Root)
    BY <1>2, <1>4, <1>5, <2>1 DEF DeliverSteps
  <2>3. State(Root)' = "Done" => \A c \in TaskChildren(Root) : State(c) \in Quiet
    BY <1>4, <2>1 DEF DeliverSteps
  <2> QED
    BY <1>1, <1>3, <1>5, <2>2, <2>3
<1>8. pc[Daemon] \in DeliverSteps => State(Root)' = "Done" \/ faults' = faults + 1
  BY <1>1, <1>3 DEF Alone
<1>9. Alone'
  BY <1>1, <1>3, <1>7 DEF Alone, Fresh, Splitting, SplitSteps, ProposeSteps, DeliverSteps
<1> QED
  BY <1>1, <1>6, <1>8, <1>9 DEF AloneTurn

LEMMA ClaimAlone ==
  ASSUME Inv, Alone, NEW i \in Created, Claim(Daemon, i), UNCHANGED meta,
         \A u \in Requests : pc'[u] = pc[u],
         State(i) = "Ready", i = Root => TaskChildren(Root) = {}, pc[Daemon] \notin DeliverSteps
  PROVE  AloneTurn
<1>1. /\ \A j \in Created : State(j)' = IF j = i THEN "Running" ELSE State(j)
      /\ pc'[Daemon] = "run" /\ my'[Daemon].item = i /\ my'[Daemon].claim
  <2>1. Moved({i}, "Running") /\ "Running" \in States
    BY DEF Claim, States
  <2>2. my'[Daemon] = [Fresh EXCEPT !.item = i, !.claim = TRUE,
                                    !.planner = Planner(i), !.mode = RunMode(i)]
    BY DaemonIsThread DEF Claim, Inv, TypeOK
  <2> QED
    BY <2>1, <2>2, MovedFacts, DaemonIsThread DEF Claim, Goto, Inv, TypeOK, Fresh
<1>2. TaskChildren(Root)' = TaskChildren(Root) /\ TaskChildren(Root) \subseteq Created \ {Root} /\ Root \in Created
  BY SameRows, RootsTasks
<1>3. State(Root) = "Done" => \A c \in TaskChildren(Root) : State(c) \in Quiet
  BY DEF Alone
<1>4. State(Root)' = "Done" <=> State(Root) = "Done"
  BY <1>1, <1>2
<1>5. State(Root)' = "Done" => \A c \in TaskChildren(Root) : State(c)' \in Quiet
  BY <1>1, <1>2, <1>3, <1>4 DEF Quiet, SuccessStates
<1>6. Alone'
  BY <1>1, <1>2, <1>5 DEF Alone, Splitting, SplitSteps, ProposeSteps, DeliverSteps
<1> QED
  BY <1>1, <1>4, <1>6 DEF AloneTurn, DeliverSteps

LEMMA CreatesAlone ==
  ASSUME Inv, Alone, Creates(Daemon), \A u \in Requests : pc'[u] = pc[u]
  PROVE  AloneTurn
<1>1. /\ \A i \in Created : State(i)' = State(i)
      /\ UNCHANGED meta /\ pc[Daemon] \in CreateSteps /\ pc'[Daemon] = MetaStep[pc[Daemon]]
  BY DEF Creates, Grown, State
<1>2. /\ my'[Daemon].item = my[Daemon].item /\ my'[Daemon].claim = my[Daemon].claim
      /\ my'[Daemon].batch = my[Daemon].batch /\ my'[Daemon].parent = my[Daemon].parent
  BY DaemonIsThread DEF Creates, Inv, TypeOK, Locals
<1>3. /\ TaskChildren(Root)' = TaskChildren(Root) /\ TaskChildren(Root) \subseteq Created /\ Root \in Created
      /\ \A i : PlannerParent(i)' = PlannerParent(i)
  BY <1>1, SameRows, RootsTasks
<1>4. my[Daemon].claim => my[Daemon].item \in Created
  BY DaemonIsThread DEF Inv, Hand, ItemInHand
<1>5. \/ pc[Daemon] = "deliver" /\ pc'[Daemon] = "deliverMeta"
      \/ pc[Daemon] = "plan" /\ pc'[Daemon] = "planMeta"
      \/ pc[Daemon] = "propose" /\ pc'[Daemon] = "proposeMeta"
      \/ pc[Daemon] = "repair" /\ pc'[Daemon] = "repairMeta"
  BY <1>1 DEF CreateSteps, MetaStep
<1>6. Alone'
  <2>1. my'[Daemon].claim => items'[my'[Daemon].item].state = "Running"
    BY <1>1, <1>2, <1>4 DEF Alone, State
  <2>2. Splitting(Daemon)' => State(Root)' = "Ready"
    BY <1>1, <1>2, <1>3, <1>5 DEF Alone, Splitting, SplitSteps, ProposeSteps
  <2>3. NoTasks(Daemon)' = NoTasks(Daemon)
    BY <1>2 DEF NoTasks
  <2>4. pc'[Daemon] \in {"run", "settle"} \cup ProposeSteps
        /\ my'[Daemon].item = Root /\ NoTasks(Daemon)' => TaskChildren(Root)' = {}
    BY <1>2, <1>3, <1>5, <2>3 DEF Alone, ProposeSteps
  <2>5. (pc[Daemon] \in ProposeSteps => my[Daemon].parent = PlannerParent(my[Daemon].item))'
    BY <1>1, <1>2, <1>5 DEF Alone, ProposeSteps, PlannerParent, Has
  <2>6. pc'[Daemon] \in DeliverSteps /\ my'[Daemon].claim => my'[Daemon].item = Root
    BY <1>2, <1>5 DEF Alone, DeliverSteps
  <2>7. pc'[Daemon] \in DeliverSteps \/ State(Root)' = "Done" =>
           \A c \in TaskChildren(Root)' : State(c)' \in Quiet
    BY <1>1, <1>3, <1>5 DEF Alone, DeliverSteps
  <2>8. \A u \in Requests : pc'[u] = "idle"
    BY DEF Alone
  <2> QED
    BY <1>5, <2>1, <2>2, <2>4, <2>5, <2>6, <2>7, <2>8 DEF Alone, State
<1> QED
  BY <1>1, <1>3, <1>5, <1>6 DEF AloneTurn, DeliverSteps

\* The daemon's run, if of the request or of a child of it, keeps the request open.
LEMMA BusyRoot ==
  ASSUME Inv, Alone, my[Daemon].claim, my[Daemon].item \in TaskChildren(Root) \cup {Root}
  PROVE  State(Root) # "Done"
BY DEF Alone, Quiet, SuccessStates

LEMMA RecordAlone ==
  ASSUME Inv, Alone, pc[Daemon] \in MetaSteps, \A u \in Requests : pc'[u] = pc[u], UNCHANGED items,
         NEW role \in Roles, NEW parent, NEW depth, NEW mode, NEW deps,
         WriteMeta(Daemon, role, parent, depth, mode, deps),
         role = "delivery_manager" \/ (parent = Root => State(Root) # "Done"),
         \/ pc[Daemon] = "deliverMeta" /\ pc'[Daemon] = "closeRoot" /\ role = "delivery_manager"
         \/ pc[Daemon] = "planMeta" /\ pc'[Daemon] = "planMove"
         \/ pc[Daemon] = "repairMeta" /\ pc'[Daemon] = "repairMove"
         \/ /\ pc[Daemon] = "proposeMeta" /\ pc'[Daemon] = "propose"
            /\ my'[Daemon].batch = Append(my[Daemon].batch, my[Daemon].new),
         my'[Daemon].item = my[Daemon].item, my'[Daemon].claim = my[Daemon].claim,
         my'[Daemon].parent = my[Daemon].parent
  PROVE  AloneTurn
<1>1. PICK n \in ItemIds :
         /\ n = my[Daemon].new /\ n # NoParent /\ n # my[Daemon].item
         /\ \A i \in ItemIds \ {n} : meta'[i] = meta[i]
         /\ meta'[n].role = role /\ meta'[n].parent = parent
  <2>1. /\ my[Daemon].new \in ItemIds
        /\ \A i \in ItemIds \ {my[Daemon].new} : meta'[i] = meta[i]
        /\ meta'[my[Daemon].new].role = role /\ meta'[my[Daemon].new].parent = parent
    BY DaemonIsThread, NewRow
  <2>2. my[Daemon].item < my[Daemon].new /\ my[Daemon] \in Locals
    BY DaemonIsThread DEF Inv, Hand, NewInHand, TypeOK
  <2>3. my[Daemon].item # my[Daemon].new /\ my[Daemon].new # NoParent
    BY <2>1, <2>2, RootIsItem DEF Locals, ItemIds, NoParent
  <2> QED
    BY <2>1, <2>3
<1>2. /\ \A i : State(i)' = State(i)
      /\ TaskChildren(Root) \subseteq Created \ {Root} /\ Root \in Created
  BY RootsTasks DEF State
<1>3. TaskChildren(Root)' \subseteq TaskChildren(Root) \cup {n}
  BY <1>1 DEF TaskChildren, Children, Has
<1>4. role = "delivery_manager" \/ parent # Root => TaskChildren(Root)' \subseteq TaskChildren(Root)
  BY <1>1 DEF TaskChildren, Children, Has
<1>5. (my[Daemon].claim => State(my[Daemon].item) = "Running")'
  BY <1>2 DEF Alone, State
<1>6. (Splitting(Daemon) => State(Root) = "Ready")'
  BY <1>2 DEF Alone, Splitting, SplitSteps, ProposeSteps
<1>7. pc'[Daemon] = "propose" => ~NoTasks(Daemon)'
  <2>1. my[Daemon].batch \in Seq({NoParent} \cup ItemIds)
    BY DaemonIsThread DEF Inv, TypeOK, Locals
  <2>2. CASE pc'[Daemon] = "propose"
    <3>1. /\ my'[Daemon].batch = Append(my[Daemon].batch, n)
          /\ Len(my[Daemon].batch) + 1 \in DOMAIN my'[Daemon].batch
          /\ my'[Daemon].batch[Len(my[Daemon].batch) + 1] = n
      BY <1>1, <2>1, <2>2
    <3>2. n \in ToSet(my'[Daemon].batch)
      BY <3>1 DEF ToSet
    <3> QED
      BY <1>1, <3>2 DEF NoTasks
  <2> QED
    BY <2>2
<1>8. (pc[Daemon] \in ProposeSteps => my[Daemon].parent = PlannerParent(my[Daemon].item))'
  <2>1. pc[Daemon] \in ProposeSteps => my[Daemon].item \in ItemIds
    BY CreatedIsItem, RootIsItem, DaemonIsThread DEF Inv, Hand, ItemInHand, BatchInHand
  <2> QED
    BY <1>1, <2>1 DEF Alone, ProposeSteps, PlannerParent, Has
<1>9. pc'[Daemon] \in DeliverSteps \/ State(Root)' = "Done" =>
         \A c \in TaskChildren(Root)' : State(c)' \in Quiet
  BY <1>2, <1>3, <1>4 DEF Alone, DeliverSteps
<1>10. Alone'
  BY <1>5, <1>6, <1>7, <1>8, <1>9 DEF Alone, ProposeSteps, DeliverSteps
<1> QED
  BY <1>2, <1>10 DEF AloneTurn, DeliverSteps

\* The daemon is done with an item, which is left or waits.
LEMMA ReturnAlone ==
  ASSUME Inv, Alone, Return(Daemon), UNCHANGED meta, \A u \in Requests : pc'[u] = pc[u],
         pc[Daemon] \notin DeliverSteps, NEW S,
         UNCHANGED items \/ Moved(S, "Planning"), Root \in S => State(Root) # "Done"
  PROVE  AloneTurn
<1>1. \A i \in Created : State(i)' = State(i) \/ (i \in S /\ State(i)' = "Planning")
  <2>1. CASE Moved(S, "Planning")
    BY <2>1, MovedFacts DEF Inv, States
  <2> QED
    BY <2>1 DEF State
<1>2. pc'[Daemon] = "idle" /\ my'[Daemon] = Fresh
  BY DaemonIsThread DEF Return, Goto, Inv, TypeOK
<1>3. TaskChildren(Root)' = TaskChildren(Root) /\ TaskChildren(Root) \subseteq Created \ {Root} /\ Root \in Created
  BY SameRows, RootsTasks
<1>4. State(Root)' = "Done" <=> State(Root) = "Done"
  BY <1>1, <1>3
<1>5. State(Root)' = "Done" => \A c \in TaskChildren(Root) : State(c)' \in Quiet
  BY <1>1, <1>3, <1>4 DEF Alone, Quiet
<1>6. Alone'
  BY <1>2, <1>3, <1>5 DEF Alone, Fresh, Splitting, SplitSteps, ProposeSteps, DeliverSteps
<1> QED
  BY <1>2, <1>4, <1>6 DEF AloneTurn

LEMMA ProposeAlone ==
  ASSUME Inv, Alone, NEW i \in ItemIds, NEW plan, NEW mode, NEW blocked,
         Propose(Daemon, i, plan, mode, blocked),
         UNCHANGED <<items, meta>>, \A u \in Requests : pc'[u] = pc[u],
         IF my[Daemon].claim THEN i = my[Daemon].item ELSE i = Root /\ State(Root) = "Ready",
         i = Root => TaskChildren(Root) = {}, pc[Daemon] \notin DeliverSteps
  PROVE  AloneTurn
<1>1. /\ pc'[Daemon] = "propose" /\ my'[Daemon].item = i /\ my'[Daemon].claim = my[Daemon].claim
      /\ my'[Daemon].parent = PlannerParent(i)
  BY DaemonIsThread DEF Propose, Goto, Inv, TypeOK, Locals
<1>2. /\ TaskChildren(Root)' = TaskChildren(Root) /\ \A j : PlannerParent(j)' = PlannerParent(j)
      /\ \A j : State(j)' = State(j)
  BY SameRows DEF State
<1>3. (my[Daemon].claim => State(my[Daemon].item) = "Running")'
  BY <1>1, <1>2 DEF Alone, State
<1>4. (pc[Daemon] \in ProposeSteps => my[Daemon].parent = PlannerParent(my[Daemon].item))'
  BY <1>1 DEF PlannerParent, Has
<1>5. (Splitting(Daemon) => State(Root) = "Ready")'
  BY <1>1, <1>2 DEF Splitting, SplitSteps, ProposeSteps
<1>6. Alone'
  BY <1>1, <1>2, <1>3, <1>4, <1>5 DEF Alone, DeliverSteps
<1> QED
  BY <1>1, <1>2, <1>6 DEF AloneTurn

\* A run goes on.
LEMMA RunAlone ==
  ASSUME Inv, Alone, NEW p \in {"settle", "repair", "deliver"}, Goto(Daemon, p),
         UNCHANGED <<items, meta, my>>, \A u \in Requests : pc'[u] = pc[u],
         my[Daemon].claim, pc[Daemon] \in {"run", "propose", "settle"},
         p = "deliver" => my[Daemon].item = Root /\ TaskChildren(Root) = {}
  PROVE  AloneTurn
<1>1. pc'[Daemon] = p /\ my'[Daemon] = my[Daemon]
  BY DaemonIsThread DEF Goto, Inv, TypeOK
<1>2. TaskChildren(Root)' = TaskChildren(Root) /\ \A j : State(j)' = State(j)
  BY SameRows DEF State
<1>3. (my[Daemon].claim => State(my[Daemon].item) = "Running")' /\ NoTasks(Daemon)' = NoTasks(Daemon)
  BY <1>1, <1>2 DEF Alone, State, NoTasks
<1>4. p = "deliver" => State(Root) # "Done"
  BY BusyRoot
<1>5. Alone'
  BY <1>1, <1>2, <1>3 DEF Alone, Splitting, SplitSteps, ProposeSteps, DeliverSteps
<1> QED
  BY <1>1, <1>2, <1>4, <1>5 DEF AloneTurn, DeliverSteps

LEMMA BeginAlone ==
  ASSUME Inv, Alone, BeginRunOnce(Daemon), \A u \in Requests : pc'[u] = pc[u]
  PROVE  AloneTurn
<1>1. \A i \in Created : State(i)' = IF i \in TaskChildren(Root) /\ FullAuto(Root) /\ State(i) = "Human Review"
                                     THEN "Done" ELSE State(i)
  <2> DEFINE S == {i \in TaskChildren(Root) : FullAuto(Root) /\ State(i) = "Human Review"}
  <2>1. Moved(S, "Done") /\ "Done" \in States /\ TypeOK
    BY DEF BeginRunOnce, States, Inv
  <2>2. \A i \in Created : State(i)' = IF i \in S THEN "Done" ELSE State(i)
    <3> HIDE DEF S
    <3> QED
      BY <2>1, MovedFacts
  <2> QED
    BY <2>2
<1>2. /\ TaskChildren(Root)' = TaskChildren(Root) /\ TaskChildren(Root) \subseteq Created \ {Root}
      /\ Root \in Created /\ pc[Daemon] = "begin" /\ my' = my /\ ~my[Daemon].claim
  BY SameRows, RootsTasks, DaemonIsThread DEF BeginRunOnce, tables, Inv, Hand, BatchInHand
<1>3. /\ pc'[Daemon] \in {"deliver", "pick"}
      /\ pc'[Daemon] = "deliver" => State(Root) # "Done" /\ Succeeded(TaskChildren(Root))
  BY <1>2, DaemonIsThread DEF BeginRunOnce, Goto, Completes, State, Succeeded, Inv, TypeOK
<1>4. pc'[Daemon] \in DeliverSteps \/ State(Root)' = "Done" =>
         \A c \in TaskChildren(Root)' : State(c)' \in Quiet
  <2>1. State(Root)' = State(Root)
    BY <1>1, <1>2
  <2>2. State(Root) = "Done" => \A c \in TaskChildren(Root) : State(c) \in Quiet
    BY DEF Alone
  <2>3. pc'[Daemon] = "deliver" => \A c \in TaskChildren(Root) : State(c) \in Quiet
    BY <1>3 DEF Quiet, Succeeded
  <2> QED
    BY <1>1, <1>2, <1>3, <2>1, <2>2, <2>3 DEF DeliverSteps, Quiet, SuccessStates
<1>5. Alone'
  BY <1>2, <1>3, <1>4 DEF Alone, Splitting, SplitSteps, ProposeSteps, DeliverSteps
<1> QED
  BY <1>1, <1>2, <1>3, <1>5 DEF AloneTurn, DeliverSteps

LEMMA CloseAlone ==
  ASSUME Inv, Alone, CloseRoot(Daemon), \A u \in Requests : pc'[u] = pc[u]
  PROVE  AloneTurn
<1>1. CASE my[Daemon].claim
  <2>1. CASE FinishRun(Daemon, "Done", {}, "Done")
    BY <1>1, <2>1, FinishAlone DEF CloseRoot, States
  <2>2. CASE RunRaises(Daemon, {})
    <3>1. FinishRun(Daemon, "Needs Input", {}, "Planning") /\ faults' = faults + 1
      BY <2>2 DEF RunRaises, Fault
    <3> QED
      BY <1>1, <3>1, FinishAlone DEF States
  <2> QED
    BY <1>1, <2>1, <2>2 DEF CloseRoot
<1>2. CASE ~my[Daemon].claim
  <2>1. pc[Daemon] = "closeRoot" /\ pc'[Daemon] = "idle" /\ my'[Daemon] = Fresh /\ UNCHANGED meta
    BY <1>2, DaemonIsThread DEF CloseRoot, Return, Goto, tables, Inv, TypeOK
  <2>2. \/ \A i \in Created : State(i)' = IF i = Root THEN "Done" ELSE State(i)
        \/ faults' = faults + 1 /\ \A i \in Created : State(i)' = State(i)
    <3>1. CASE Moved({Root}, "Done")
      BY <3>1, MovedFacts DEF Inv, States
    <3>2. CASE Fault /\ UNCHANGED items
      BY <3>2 DEF Fault, State
    <3> QED
      BY <1>2, <3>1, <3>2 DEF CloseRoot
  <2>3. /\ TaskChildren(Root)' = TaskChildren(Root) /\ TaskChildren(Root) \subseteq Created \ {Root}
        /\ Root \in Created /\ \A c \in TaskChildren(Root) : State(c) \in Quiet
    BY <2>1, SameRows, RootsTasks DEF Alone, DeliverSteps
  <2>4. Alone'
    BY <2>1, <2>2, <2>3 DEF Alone, Fresh, Splitting, SplitSteps, ProposeSteps, DeliverSteps
  <2> QED
    BY <2>1, <2>2, <2>3, <2>4 DEF AloneTurn, DeliverSteps
<1> QED
  BY <1>1, <1>2

LEMMA PickAlone ==
  ASSUME Inv, Alone, NEW i \in ItemIds, Pick(Daemon, i), \A u \in Requests : pc'[u] = pc[u]
  PROVE  AloneTurn
<1>1. /\ pc[Daemon] = "pick" /\ i \in Created /\ State(i) = "Ready" /\ UNCHANGED meta
      /\ ~my[Daemon].claim
  BY DaemonIsThread DEF Pick, Candidates, Inv, Hand, BatchInHand
<1>2. Splits(i) => i = Root
  BY <1>1 DEF Splits, Depth, Inv, RowsInv
<1>3. Depth(Root) = 0 /\ Has(Root)
  BY RootIsItem DEF Depth, Inv, RowsInv
<1>4. CASE ParentWaits(Daemon, i)
  BY <1>1, <1>4, ReturnAlone DEF ParentWaits, DeliverSteps
<1>5. CASE SplitRequest(Daemon, i)
  <2>1. i = Root /\ TaskChildren(Root) = {}
    BY <1>2, <1>5 DEF SplitRequest, Splits, TaskChildren
  <2>2. CASE Propose(Daemon, i, <<{}>>, "plan_execute", FALSE)
    BY <1>1, <1>5, <2>1, <2>2, ProposeAlone DEF SplitRequest, DeliverSteps
  <2>3. CASE Set(Daemon, "plan", "item", i)
    <3>1. pc'[Daemon] = "plan" /\ my'[Daemon].item = i /\ ~my'[Daemon].claim
      BY <1>1, <2>3, DaemonIsThread DEF Set, Goto, Inv, TypeOK, Locals
    <3>2. TaskChildren(Root)' = TaskChildren(Root) /\ \A j : State(j)' = State(j)
      BY <1>1, <1>5, SameRows DEF SplitRequest, State
    <3>3. Alone'
      BY <1>1, <2>1, <3>1, <3>2 DEF Alone, ProposeSteps, DeliverSteps
    <3> QED
      BY <1>1, <3>1, <3>2, <3>3 DEF AloneTurn, DeliverSteps
  <2> QED
    BY <1>5, <2>2, <2>3 DEF SplitRequest
<1>6. CASE StartRun(Daemon, i)
  <2>1. i # Root
    BY <1>3, <1>6 DEF StartRun, Splits
  <2>2. CASE Return(Daemon) /\ UNCHANGED <<items, claims>>
    <3>1. PICK S : S = {}
      OBVIOUS
    <3>2. pc[Daemon] \notin DeliverSteps /\ (UNCHANGED items \/ Moved(S, "Planning"))
      BY <1>1, <2>2 DEF DeliverSteps
    <3> QED
      BY <1>1, <2>2, <3>1, <3>2, ReturnAlone
  <2>3. CASE Claim(Daemon, i)
    BY <1>1, <2>1, <2>3, ClaimAlone DEF DeliverSteps
  <2> QED
    BY <1>6, <2>2, <2>3 DEF StartRun
<1> QED
  BY <1>4, <1>5, <1>6 DEF Pick

\* The request could not be split, and is run itself.
LEMMA RunItselfAlone ==
  ASSUME Inv, Alone, RunItself(Daemon), UNCHANGED meta, \A u \in Requests : pc'[u] = pc[u],
         Splitting(Daemon), my[Daemon].item = Root, TaskChildren(Root) = {}
  PROVE  AloneTurn
<1>1. State(Root) = "Ready" /\ Root \in Created /\ pc[Daemon] \notin DeliverSteps
  BY RootsTasks DEF Alone, Splitting, SplitSteps, ProposeSteps, DeliverSteps
<1>2. CASE Return(Daemon) /\ UNCHANGED <<items, claims>>
  BY <1>1, <1>2, ReturnAlone
<1>3. CASE Claim(Daemon, my[Daemon].item)
  BY <1>1, <1>3, ClaimAlone
<1> QED
  BY <1>2, <1>3 DEF RunItself

LEMMA MovesMakeNothing ==
  ASSUME Inv, StatesOnly, NEW new \in [ItemIds -> Item], NEW then, NEW k,
         \A i \in ItemIds : new[i].kind = k
  PROVE  ~CreateItem(Daemon, new, then)
<1>1. TypeOK /\ Len(items') = Len(items)
  BY DEF Inv, StatesOnly
<1>2. CreateItem(Daemon, new, then) => Grown(k)
  BY <1>1, DaemonIsThread, CreateItemFacts
<1>3. ~Grown(k)
  BY <1>1 DEF Grown, TypeOK
<1> QED
  BY <1>2, <1>3

LEMMA PlanAlone ==
  ASSUME Inv, Alone, PlanStep(Daemon), StatesOnly, \A u \in Requests : pc'[u] = pc[u]
  PROVE  AloneTurn
<1>1. pc[Daemon] \in SplitSteps => my[Daemon].item = Root /\ ~my[Daemon].claim
  BY DaemonIsThread DEF Inv, Hand, ItemInHand
<1>2. CASE CreatePlanner(Daemon)
  <2>2. ~CreateItem(Daemon, [id \in ItemIds |-> Plain("planner", "Ready")], "planMeta")
    <3> DEFINE new == [id \in ItemIds |-> Plain("planner", "Ready")]
    <3>1. new \in [ItemIds -> Item] /\ \A i \in ItemIds : new[i].kind = "planner"
      BY DEF Plain, Item, Kinds, States
    <3> HIDE DEF new
    <3> QED
      BY <3>1, MovesMakeNothing DEF new
  <2>3. RunItself(Daemon) /\ UNCHANGED meta /\ pc[Daemon] = "plan"
    BY <1>2, <2>2 DEF CreatePlanner
  <2>4. TaskChildren(Root) = {}
    BY <2>3 DEF Alone
  <2> QED
    BY <1>1, <2>3, <2>4, RunItselfAlone DEF Splitting, SplitSteps
<1>3. CASE PlannerMeta(Daemon)
  <2>1. pc[Daemon] = "planMeta" /\ pc'[Daemon] = "planMove" /\ my' = my /\ UNCHANGED items
    BY <1>3, DaemonIsThread DEF PlannerMeta, Goto, Inv, TypeOK
  <2>2. State(Root) # "Done"
    BY <2>1 DEF Alone, Splitting, SplitSteps
  <2> QED
    BY <1>3, <2>1, <2>2, RecordAlone DEF PlannerMeta, MetaSteps, Roles
<1>4. CASE PlannerMove(Daemon)
  <2>1. State(Root) # "Done" /\ pc[Daemon] \notin DeliverSteps
    BY <1>4 DEF PlannerMove, Alone, Splitting, SplitSteps, DeliverSteps
  <2> QED
    BY <1>4, <2>1, ReturnAlone DEF PlannerMove, tables
<1> QED
  BY <1>2, <1>3, <1>4 DEF PlanStep

LEMMA ProposedAlone ==
  ASSUME Inv, Alone, Proposed(Daemon), \A u \in Requests : pc'[u] = pc[u]
  PROVE  AloneTurn
<1>1. /\ pc[Daemon] = "propose" /\ UNCHANGED meta /\ pc[Daemon] \notin DeliverSteps
      /\ my[Daemon].claim \/ my[Daemon].item = Root
  BY DaemonIsThread DEF Proposed, DeliverSteps, ProposeSteps, Inv, Hand, BatchInHand
<1>2. CASE my[Daemon].claim
  BY <1>1, <1>2, RunAlone DEF Proposed
<1>3. CASE ~my[Daemon].claim /\ NoTasks(Daemon)
  <2>1. TaskChildren(Root) = {} /\ Splitting(Daemon) /\ RunItself(Daemon)
    BY <1>1, <1>3 DEF Alone, Splitting, ProposeSteps, NoTasks, Proposed
  <2> QED
    BY <1>1, <1>3, <2>1, RunItselfAlone
<1>4. CASE ~my[Daemon].claim /\ ~NoTasks(Daemon)
  <2>1. State(Root) # "Done"
    BY <1>1, <1>4 DEF Alone, Splitting, ProposeSteps
  <2> QED
    BY <1>1, <1>4, <2>1, ReturnAlone DEF Proposed, NoTasks
<1> QED
  BY <1>2, <1>3, <1>4

LEMMA TaskMetaAlone ==
  ASSUME Inv, Alone, TaskMeta(Daemon), \A u \in Requests : pc'[u] = pc[u]
  PROVE  AloneTurn
<1>1. /\ pc[Daemon] = "proposeMeta" /\ UNCHANGED items /\ pc'[Daemon] = "propose"
      /\ my'[Daemon].batch = Append(my[Daemon].batch, my[Daemon].new)
      /\ my'[Daemon].item = my[Daemon].item /\ my'[Daemon].claim = my[Daemon].claim
      /\ my'[Daemon].parent = my[Daemon].parent
  BY DaemonIsThread DEF TaskMeta, Set, Goto, Inv, TypeOK, Locals
<1>2. my[Daemon].parent = Root => State(Root) # "Done"
  <2>1. my[Daemon].claim => my[Daemon].item \in Created
    BY DaemonIsThread DEF Inv, Hand, ItemInHand
  <2>2. CASE ~my[Daemon].claim
    BY <1>1, <2>2 DEF Alone, Splitting, ProposeSteps
  <2>3. CASE my[Daemon].claim /\ my[Daemon].parent = Root
    <3>1. my[Daemon].parent = PlannerParent(my[Daemon].item)
      BY <1>1 DEF Alone, ProposeSteps
    <3> QED
      BY <2>1, <2>3, <3>1, RootsTasks, BusyRoot
  <2> QED
    BY <2>2, <2>3
<1> QED
  BY <1>1, <1>2, RecordAlone DEF TaskMeta, MetaSteps, Roles

\* The parent of the daemon's item is at rest only if it is not the request.
LEMMA ParentAlone ==
  ASSUME Inv, Alone, my[Daemon].claim, my[Daemon].item \in Created,
         \/ Has(my[Daemon].item) /\ meta[my[Daemon].item].parent = Root
         \/ PlannerParent(my[Daemon].item) = Root
  PROVE  my[Daemon].item \in TaskChildren(Root) \cup {Root} /\ State(Root) # "Done"
<1>1. my[Daemon].item \in ItemIds /\ items[my[Daemon].item].kind # "delivery" /\ my[Daemon].item # NoParent
  BY CreatedIsItem, DaemonIsThread DEF Inv, Hand, ItemInHand
<1> QED
  BY <1>1, RootsTasks, BusyRoot

LEMMA RepairAlone ==
  ASSUME Inv, Alone, RepairMeta(Daemon) \/ RepairMove(Daemon), \A u \in Requests : pc'[u] = pc[u]
  PROVE  AloneTurn
<1>1. pc[Daemon] \in RepairSteps /\ pc[Daemon] \notin DeliverSteps
  BY DEF RepairMeta, RepairMove, RepairSteps, DeliverSteps
<1>2. /\ my[Daemon].claim /\ my[Daemon].item \in Created /\ my[Daemon].item # Root
      /\ Has(my[Daemon].item)
  BY <1>1, DaemonIsThread DEF Inv, Hand, ItemInHand
<1>3. meta[my[Daemon].item].parent = Root =>
         my[Daemon].item \in TaskChildren(Root) /\ State(Root) # "Done"
  BY <1>2, ParentAlone
<1>4. CASE RepairMeta(Daemon)
  <2>1. /\ pc[Daemon] = "repairMeta" /\ pc'[Daemon] = "repairMove" /\ my' = my /\ UNCHANGED items
        /\ WriteMeta(Daemon, "worker", meta[my[Daemon].item].parent, meta[my[Daemon].item].depth + 1,
                     "full_auto", {})
    BY <1>4, DaemonIsThread DEF RepairMeta, Goto, Inv, TypeOK
  <2>2. pc[Daemon] \in MetaSteps /\ "worker" \in Roles
    BY <2>1 DEF MetaSteps, Roles
  <2> QED
    BY <1>3, <2>1, <2>2, RecordAlone
<1>5. CASE RepairMove(Daemon)
  <2>1. CASE FinishRun(Daemon, "Done", {meta[my[Daemon].item].parent}, "Planning")
    BY <1>1, <1>2, <1>3, <2>1, FinishAlone DEF States
  <2>2. CASE RunRaises(Daemon, {})
    <3>1. FinishRun(Daemon, "Needs Input", {}, "Planning")
      BY <2>2 DEF RunRaises
    <3> QED
      BY <1>1, <1>2, <3>1, FinishAlone DEF States
  <2> QED
    BY <1>5, <2>1, <2>2 DEF RepairMove
<1> QED
  BY <1>4, <1>5

LEMMA SettleAlone ==
  ASSUME Inv, Alone, Settle(Daemon), \A u \in Requests : pc'[u] = pc[u]
  PROVE  AloneTurn
<1> DEFINE i == my[Daemon].item
           p == PlannerParent(my[Daemon].item)
<1>1. /\ pc[Daemon] = "settle" /\ pc[Daemon] \notin DeliverSteps /\ my[Daemon].claim /\ i \in Created
  BY DaemonIsThread DEF Settle, DeliverSteps, Inv, Hand, ItemInHand
<1>2. p = Root => i \in TaskChildren(Root) \cup {Root}
  BY <1>1, ParentAlone
<1>3. ASSUME NEW s \in States, NEW S \in {{}, {p}}, FinishRun(Daemon, s, S, "Planning"),
             s = "Done" => i # Root
      PROVE  AloneTurn
  BY <1>1, <1>2, <1>3, FinishAlone DEF States
<1>4. p # i => i # Root
  BY RootsTasks
<1>5. Depth(Root) = 0
  BY RootIsItem DEF Depth, Inv, RowsInv
<1>6. {"Planning", "Done", "Human Review", "Needs Input"} \subseteq States
  BY DEF States
<1>7. CASE \/ FinishRun(Daemon, "Planning", {}, "Planning")
           \/ FinishRun(Daemon, "Human Review", {}, "Planning")
           \/ FinishRun(Daemon, "Needs Input", {}, "Planning")
           \/ FinishRun(Daemon, "Done", {}, "Planning") /\ i # Root
           \/ FinishRun(Daemon, "Human Review", {p}, "Planning")
           \/ FinishRun(Daemon, "Done", {p}, "Planning") /\ i # Root
           \/ FinishRun(Daemon, "Needs Input", {p}, "Planning")
  BY <1>3, <1>6, <1>7
<1>8. CASE /\ ToSet(my[Daemon].batch) \ {NoParent} = {} /\ i = Root
           /\ Goto(Daemon, "deliver") /\ UNCHANGED <<items, tables, my, counters>>
  <2>1. TaskChildren(Root) = {}
    BY <1>1, <1>8 DEF Alone, NoTasks
  <2> QED
    BY <1>1, <1>8, <2>1, RunAlone DEF tables
<1> QED
  <2> HIDE DEF i, p
  <2> QED
  BY <1>4, <1>5, <1>7, <1>8 DEF Settle, RunRaises, i, p

\* A task that cannot be made is passed over.
LEMMA PassedOverAlone ==
  ASSUME Inv, Alone, CreateTask(Daemon), StatesOnly, \A u \in Requests : pc'[u] = pc[u]
  PROVE  AloneTurn
<1>1. /\ CreateFails /\ Set(Daemon, "propose", "batch", Append(my[Daemon].batch, NoParent))
      /\ UNCHANGED tables /\ pc[Daemon] = "propose"
  <2> DEFINE new == [id \in ItemIds |->
                        [kind |-> "task", state |-> ProposalState(Daemon), depth |-> my[Daemon].depth,
                         needs |-> ResolvedNeeds(Daemon, id)]]
  <2>1. new \in [ItemIds -> Item] /\ \A i \in ItemIds : new[i].kind = "task"
    <3>1. ProposalState(Daemon) \in States /\ my[Daemon].depth \in Nat
      BY DaemonIsThread DEF ProposalState, States, Inv, TypeOK, Locals
    <3>2. \A i \in ItemIds : ResolvedNeeds(Daemon, i) \subseteq ItemIds
      BY DaemonIsThread, ResolvedNeedsAreMade DEF CreateTask, Proposing, ProposeSteps
    <3> QED
      BY <3>1, <3>2 DEF Item, Kinds
  <2>2. ~CreateItem(Daemon, new, "proposeMeta")
    <3> HIDE DEF new
    <3> QED
      BY <2>1, MovesMakeNothing
  <2> QED
    BY <2>2 DEF CreateTask, Proposing
<1>2. /\ pc'[Daemon] = "propose" /\ UNCHANGED <<items, meta>>
      /\ my'[Daemon].batch = Append(my[Daemon].batch, NoParent)
      /\ my'[Daemon].item = my[Daemon].item /\ my'[Daemon].claim = my[Daemon].claim
      /\ my'[Daemon].parent = my[Daemon].parent
  BY <1>1, DaemonIsThread DEF Set, Goto, CreateFails, tables, Inv, TypeOK, Locals
<1>3. NoTasks(Daemon)' => NoTasks(Daemon)
  <2>1. my[Daemon].batch \in Seq({NoParent} \cup ItemIds)
    BY DaemonIsThread DEF Inv, TypeOK, Locals
  <2>2. \A k \in DOMAIN my[Daemon].batch :
           k \in DOMAIN my'[Daemon].batch /\ my'[Daemon].batch[k] = my[Daemon].batch[k]
    BY <1>2, <2>1
  <2> QED
    BY <2>2 DEF NoTasks, ToSet
<1>4. TaskChildren(Root)' = TaskChildren(Root) /\ \A j : State(j)' = State(j)
  BY <1>2, SameRows DEF State
<1>5. (my[Daemon].claim => State(my[Daemon].item) = "Running")'
  BY <1>2 DEF Alone, State
<1>6. (pc[Daemon] \in ProposeSteps => my[Daemon].parent = PlannerParent(my[Daemon].item))'
  BY <1>1, <1>2 DEF Alone, ProposeSteps, PlannerParent, Has
<1>7. Alone'
  BY <1>1, <1>2, <1>3, <1>4, <1>5, <1>6 DEF Alone, Splitting, SplitSteps, ProposeSteps, DeliverSteps
<1> QED
  BY <1>1, <1>2, <1>4, <1>7 DEF AloneTurn, DeliverSteps

LEMMA RunStepAlone ==
  ASSUME Inv, Alone, RunStep(Daemon), StatesOnly, \A u \in Requests : pc'[u] = pc[u]
  PROVE  AloneTurn
<1>1. pc[Daemon] \in {"run", "settle"} \cup RepairSteps =>
         /\ my[Daemon].claim /\ my[Daemon].item \in Created /\ my[Daemon].item \in ItemIds
         /\ pc[Daemon] \notin DeliverSteps
  BY DaemonIsThread, CreatedIsItem DEF Inv, Hand, ItemInHand, RepairSteps, DeliverSteps
<1>2. pc[Daemon] = "run" /\ my[Daemon].item = Root => TaskChildren(Root) = {}
  <2>1. pc[Daemon] = "run" => my[Daemon].batch = <<>>
    BY DaemonIsThread DEF Inv, Hand, BatchInHand
  <2>2. pc[Daemon] = "run" => NoTasks(Daemon)
    BY <2>1 DEF NoTasks, ToSet
  <2> QED
    BY <2>2 DEF Alone
<1>3. CASE RunProposes(Daemon)
  <2>1. PICK plan \in Plans : Propose(Daemon, my[Daemon].item, plan, my[Daemon].mode, FALSE)
    BY <1>3 DEF RunProposes
  <2> QED
    BY <1>1, <1>2, <1>3, <2>1, ProposeAlone DEF RunProposes, tables
<1>4. CASE RunSucceeds(Daemon)
  BY <1>1, <1>4, RunAlone DEF RunSucceeds, tables
<1>5. CASE RunBlocked(Daemon)
  <2>1. CASE FinishRun(Daemon, "Needs Input", {}, "Planning")
    BY <1>1, <1>5, <2>1, FinishAlone DEF RunBlocked, States
  <2>2. CASE /\ Propose(Daemon, my[Daemon].item, FallbackPlan, "full_auto", TRUE)
             /\ UNCHANGED <<items, tables>>
    BY <1>1, <1>2, <1>5, <2>2, ProposeAlone DEF RunBlocked, tables
  <2>3. CASE Goto(Daemon, "repair") /\ UNCHANGED <<my, counters>> /\ UNCHANGED <<items, tables>>
    BY <1>1, <1>5, <2>3, RunAlone DEF RunBlocked, tables
  <2> QED
    BY <1>5, <2>1, <2>2, <2>3 DEF RunBlocked
<1>6. CASE CreateTask(Daemon)
  BY <1>6, PassedOverAlone
<1>7. CASE CreateRepair(Daemon)
  <2>1. ~CreateItem(Daemon, [id \in ItemIds |-> Plain("repair", "Ready")], "repairMeta")
    <3> DEFINE new == [id \in ItemIds |-> Plain("repair", "Ready")]
    <3>1. new \in [ItemIds -> Item] /\ \A i \in ItemIds : new[i].kind = "repair"
      BY DEF Plain, Item, Kinds, States
    <3> HIDE DEF new
    <3> QED
      BY <3>1, MovesMakeNothing DEF new
  <2>2. FinishRun(Daemon, "Needs Input", {}, "Planning") /\ pc[Daemon] \in RepairSteps
    BY <1>7, <2>1 DEF CreateRepair, RunRaises, RepairSteps
  <2> QED
    BY <1>1, <2>2, FinishAlone DEF States
<1> QED
  BY <1>3, <1>4, <1>5, <1>6, <1>7, TaskMetaAlone, ProposedAlone, SettleAlone, RepairAlone DEF RunStep

LEMMA DaemonAlone ==
  ASSUME Inv, Alone, ThreadStep(Daemon)
  PROVE  AloneTurn
<1>1. \A u \in Requests : pc'[u] = pc[u]
  BY DaemonIsThread, ThreadStepEffect, TaskGraphAssumption DEF Effect
<1>2. StatesOnly \/ Creates(Daemon)
  BY DaemonIsThread, ItemsChange
<1>3. CASE Creates(Daemon)
  BY <1>1, <1>3, CreatesAlone
<1>4. CASE StatesOnly /\ Deliver(Daemon)
  <2>1. ~CreateItem(Daemon, [id \in ItemIds |-> Plain("delivery", "Backlog")], "deliverMeta")
    <3> DEFINE new == [id \in ItemIds |-> Plain("delivery", "Backlog")]
    <3>1. new \in [ItemIds -> Item] /\ \A i \in ItemIds : new[i].kind = "delivery"
      BY DEF Plain, Item, Kinds, States
    <3> HIDE DEF new
    <3> QED
      BY <1>4, <3>1, MovesMakeNothing DEF new
  <2>2. pc[Daemon] = "deliver" /\ pc'[Daemon] = "closeRoot" /\ UNCHANGED <<my, items, meta>>
    BY <1>4, <2>1, DaemonIsThread DEF Deliver, CreateFails, Goto, tables, Inv, TypeOK
  <2>3. TaskChildren(Root)' = TaskChildren(Root) /\ \A j : State(j)' = State(j)
    BY <2>2, SameRows DEF State
  <2>4. (my[Daemon].claim => State(my[Daemon].item) = "Running")'
    BY <2>2 DEF Alone, State
  <2>5. Alone'
    BY <1>1, <2>2, <2>3, <2>4 DEF Alone, Splitting, SplitSteps, ProposeSteps, DeliverSteps
  <2> QED
    BY <2>2, <2>3, <2>5 DEF AloneTurn, DeliverSteps
<1>5. CASE DeliverMeta(Daemon)
  <2>1. /\ pc[Daemon] = "deliverMeta" /\ pc'[Daemon] = "closeRoot" /\ UNCHANGED <<my, items>>
        /\ WriteMeta(Daemon, "delivery_manager", Root, 1, "full_auto", {Root})
    BY <1>5, DaemonIsThread DEF DeliverMeta, Goto, Inv, TypeOK
  <2>2. pc[Daemon] \in MetaSteps /\ "delivery_manager" \in Roles
    BY <2>1 DEF MetaSteps, Roles
  <2> QED
    BY <1>1, <2>1, <2>2, RecordAlone
<1>6. CASE NothingToDo(Daemon)
  <2>1. PICK S : S = {}
    OBVIOUS
  <2>2. /\ Return(Daemon) /\ UNCHANGED <<items, meta>> /\ pc[Daemon] \notin DeliverSteps
    BY <1>6 DEF NothingToDo, tables, DeliverSteps
  <2> QED
    BY <1>1, <2>1, <2>2, ReturnAlone
<1>7. CASE StatesOnly /\ (PlanStep(Daemon) \/ RunStep(Daemon))
  BY <1>1, <1>7, PlanAlone, RunStepAlone
<1> QED
  BY <1>1, <1>2, <1>3, <1>4, <1>5, <1>6, <1>7, BeginAlone, CloseAlone, PickAlone
  DEF ThreadStep, BeforeDispatch

\* A step of no thread takes no closed request up again either.
LEMMA NobodyAlone ==
  ASSUME Inv, Alone,
         \/ Reconcile \/ Crash \/ UNCHANGED vars
         \/ \E i \in ItemIds : ReleaseClaim(i) \/ HumanMoves(i)
  PROVE  Alone' /\ (State(Root) = "Done" => State(Root)' = "Done")
<1>1. UNCHANGED meta
  BY DEF Reconcile, Crash, ReleaseClaim, HumanMoves, vars, tables
<1>2. TaskChildren(Root)' = TaskChildren(Root) /\ TaskChildren(Root) \subseteq Created \ {Root} /\ Root \in Created
  BY <1>1, SameRows, RootsTasks
<1>3. State(Root) = "Done" => \A c \in TaskChildren(Root) : State(c) \in Quiet
  BY DEF Alone
<1>4. pc[Daemon] = "idle" => ~my[Daemon].claim /\ my[Daemon] = Fresh
  <2>1. pc[Daemon] = "idle" => my[Daemon] = Fresh
    BY DaemonIsThread DEF Inv, Hand, BatchInHand
  <2> QED
    BY <2>1 DEF Fresh
<1>5. CASE Reconcile
  <2>1. \A i \in Created : State(i)' = State(i) \/ (State(i) = "Planning" /\ State(i)' = "Human Review")
    BY <1>5, MovedFacts DEF Reconcile, Inv, States
  <2>2. /\ pc[Daemon] = "idle" /\ pc'[Daemon] = "begin" /\ my' = my
        /\ \A u \in Requests : pc'[u] = pc[u]
    BY <1>5, DaemonIsThread, TaskGraphAssumption DEF Reconcile, Goto, Inv, TypeOK
  <2>3. State(Root)' = "Done" <=> State(Root) = "Done"
    BY <1>2, <2>1
  <2>4. State(Root)' = "Done" => \A c \in TaskChildren(Root) : State(c)' \in Quiet
    BY <1>2, <1>3, <2>1, <2>3 DEF Quiet, SuccessStates
  <2> QED
    BY <1>2, <1>4, <2>2, <2>3, <2>4 DEF Alone, Splitting, SplitSteps, ProposeSteps, DeliverSteps
<1>6. CASE \E i \in ItemIds : ReleaseClaim(i)
  <2>1. \A j \in Created : State(j)' = State(j) \/ (State(j) = "Running" /\ State(j)' = "Needs Input")
    <3>1. PICK i \in ItemIds : ReleaseClaim(i)
      BY <1>6
    <3>2. CASE Moved({i}, "Needs Input") /\ State(i) = "Running"
      BY <3>2, MovedFacts DEF Inv, States
    <3> QED
      BY <3>1, <3>2 DEF ReleaseClaim, State
  <2>2. pc[Daemon] = "idle" /\ UNCHANGED <<pc, my>>
    BY <1>6 DEF ReleaseClaim, threads
  <2>3. State(Root)' = "Done" <=> State(Root) = "Done"
    BY <1>2, <2>1
  <2>4. State(Root)' = "Done" => \A c \in TaskChildren(Root) : State(c)' \in Quiet
    BY <1>2, <1>3, <2>1, <2>3 DEF Quiet, SuccessStates
  <2> QED
    BY <1>2, <1>4, <2>2, <2>3, <2>4 DEF Alone, Splitting, SplitSteps, ProposeSteps, DeliverSteps
<1>7. CASE \E i \in ItemIds : HumanMoves(i)
  <2>1. \A j \in Created : \/ State(j)' = State(j)
                           \/ /\ State(j) \in {"Needs Input", "Backlog"}
                              /\ State(j)' \in {"Ready", "Human Review"}
    <3>1. PICK i \in ItemIds : HumanMoves(i)
      BY <1>7
    <3>2. PICK s \in {"Ready", "Human Review"} : Moved({i}, s) /\ State(i) \in {"Needs Input", "Backlog"}
      BY <3>1 DEF HumanMoves
    <3>3. TypeOK /\ s \in States
      BY DEF Inv, States
    <3>4. \A j \in Created : State(j)' = IF j \in {i} THEN s ELSE State(j)
      BY <3>2, <3>3, MovedFacts
    <3> QED
      BY <3>2, <3>4
  <2>2. UNCHANGED <<pc, my>>
    BY <1>7 DEF HumanMoves, threads
  <2>3. State(Root)' = "Done" <=> State(Root) = "Done"
    BY <1>2, <2>1
  <2>4. pc'[Daemon] \in DeliverSteps \/ State(Root)' = "Done" =>
           \A c \in TaskChildren(Root) : State(c)' \in Quiet
    BY <1>2, <2>1, <2>2, <2>3 DEF Alone, Quiet, SuccessStates
  <2>5. (my[Daemon].claim => State(my[Daemon].item) = "Running")'
    <3>1. my[Daemon].claim => my[Daemon].item \in Created /\ State(my[Daemon].item) = "Running"
      BY DaemonIsThread DEF Inv, Hand, ItemInHand, Alone
    <3>2. my[Daemon].claim => items'[my[Daemon].item].state = "Running"
      BY <2>1, <3>1 DEF State
    <3> QED
      BY <2>2, <3>2 DEF State
  <2>6. (Splitting(Daemon) => State(Root) = "Ready")'
    BY <1>2, <2>1, <2>2 DEF Alone, Splitting
  <2>7. (pc[Daemon] \in ProposeSteps => my[Daemon].parent = PlannerParent(my[Daemon].item))'
    BY <1>1, <2>2 DEF Alone, PlannerParent, Has
  <2> QED
    BY <1>2, <2>2, <2>3, <2>4, <2>5, <2>6, <2>7 DEF Alone, NoTasks
<1>8. CASE Crash
  <2>1. /\ pc'[Daemon] = "idle" /\ my'[Daemon] = Fresh /\ UNCHANGED items
        /\ \A u \in Requests : pc'[u] = "idle"
    BY <1>8, DaemonIsThread DEF Crash
  <2>2. \A j : State(j)' = State(j)
    BY <2>1 DEF State
  <2> QED
    BY <1>2, <1>3, <2>1, <2>2 DEF Alone, Fresh, Splitting, SplitSteps, ProposeSteps, DeliverSteps
<1>9. CASE UNCHANGED vars
  BY <1>9 DEF vars, tables, threads, Alone, Splitting, State, TaskChildren, Children, Has,
              PlannerParent, NoTasks
<1> QED
  BY <1>5, <1>6, <1>7, <1>8, <1>9

\* Every delivery task is paid for by a disturbance, but for one; and for that one
\* too while the request is open and not being closed.
DeliverInv ==
    asked = 0 =>
      /\ Cardinality(OfKind("delivery")) + One(pc[Daemon] = "deliver") <= 1 + Disturbances
      /\ pc[Daemon] \notin DeliverSteps /\ State(Root) # "Done" =>
            Cardinality(OfKind("delivery")) <= Disturbances

LEMMA DaemonDelivers ==
  ASSUME Inv, Alone, DeliverInv, asked = 0, ThreadStep(Daemon)
  PROVE  DeliverInv'
<1> DEFINE N == Cardinality(OfKind("delivery"))
           D == asked + faults + crashes
           df == faults' - faults
<1>1. Turn(Daemon) /\ AloneTurn
  BY DaemonIsThread, ThreadTurn, DaemonAlone
<1>2. D \in Nat /\ D' \in Nat /\ df \in {0, 1} /\ df \in Nat /\ D' = D + df
  BY <1>1, CountersAreNat DEF Turn
<1>3. N \in Nat
  BY KindsFinite
<1>4. /\ N + One(pc[Daemon] = "deliver") <= 1 + D
      /\ pc[Daemon] \notin DeliverSteps /\ State(Root) # "Done" => N <= D
  BY DEF DeliverInv, Disturbances
<1>5. /\ pc[Daemon] = "deliver" => N <= D
      /\ N <= 1 + D
  BY <1>2, <1>3, <1>4 DEF One
<1>6. CASE Creates(Daemon) /\ pc[Daemon] = "deliver"
  <2>1. pc'[Daemon] = "deliverMeta" /\ N' <= N + 1 + df /\ N' \in Nat
    BY <1>6, DaemonIsThread, KindsGrown DEF Creates, MetaStep
  <2>2. N' + 0 <= 1 + D'
    BY <1>2, <1>3, <1>5, <1>6, <2>1
  <2> QED
    BY <2>1, <2>2 DEF DeliverInv, Disturbances, One, DeliverSteps
<1>7. CASE ~(Creates(Daemon) /\ pc[Daemon] = "deliver")
  <2>1. N' = N
    <3>1. CASE StatesOnly
      BY <3>1, KindsKept
    <3>2. CASE Creates(Daemon) /\ pc[Daemon] # "deliver"
      <4>1. "delivery" # KindMade[MetaStep[pc[Daemon]]]
        BY <3>2 DEF Creates, CreateSteps, MetaStep, KindMade
      <4> QED
        BY <3>2, <4>1, DaemonIsThread, KindsGrown
    <3> QED
      BY <1>7, <3>1, <3>2, DaemonIsThread, ItemsChange
  <2>2. pc'[Daemon] = "deliver" => N <= D
    BY <1>1, <1>4 DEF AloneTurn
  <2>3. N' + One(pc'[Daemon] = "deliver") <= 1 + D'
    BY <1>2, <1>3, <1>5, <2>1, <2>2 DEF One
  <2>4. pc'[Daemon] \notin DeliverSteps /\ State(Root)' # "Done" => N <= D \/ df = 1
    BY <1>1, <1>4, CountersAreNat DEF AloneTurn
  <2>5. pc'[Daemon] \notin DeliverSteps /\ State(Root)' # "Done" => N' <= D'
    BY <1>2, <1>3, <1>5, <2>1, <2>4
  <2> QED
    BY <2>3, <2>5 DEF DeliverInv, Disturbances
<1> QED
  BY <1>6, <1>7

LEMMA NobodyDelivers ==
  ASSUME Inv, Alone, DeliverInv, asked = 0,
         \/ Reconcile \/ Crash \/ UNCHANGED vars
         \/ \E i \in ItemIds : ReleaseClaim(i) \/ HumanMoves(i)
  PROVE  DeliverInv'
<1> DEFINE N == Cardinality(OfKind("delivery"))
<1>1. /\ faults \in Nat /\ crashes \in Nat /\ N \in Nat
      /\ N + One(pc[Daemon] = "deliver") <= 1 + (asked + faults + crashes)
      /\ pc[Daemon] \notin DeliverSteps /\ State(Root) # "Done" => N <= asked + faults + crashes
  BY CountersAreNat, KindsFinite DEF DeliverInv, Disturbances
<1>2. N' = N
  <2>1. StatesOnly
    <3>1. CASE Reconcile
      BY <3>1, MovedStates DEF Reconcile, States
    <3>2. CASE \E i \in ItemIds : ReleaseClaim(i)
      BY <3>2, MovedStates, SameStates DEF ReleaseClaim, States
    <3>3. CASE \E i \in ItemIds : HumanMoves(i)
      BY <3>3, MovedStates DEF HumanMoves, States
    <3>4. CASE Crash \/ UNCHANGED vars
      BY <3>4, SameStates DEF Crash, vars
    <3> QED
      BY <3>1, <3>2, <3>3, <3>4
  <2> QED
    BY <2>1, KindsKept
<1>3. State(Root)' # "Done" => State(Root) # "Done"
  BY NobodyAlone
<1>4. CASE Crash
  <2>1. pc'[Daemon] = "idle" /\ crashes' = crashes + 1 /\ UNCHANGED <<asked, faults>>
    BY <1>4, DaemonIsThread DEF Crash
  <2>2. N <= 1 + (asked + faults + crashes)
    BY <1>1 DEF One
  <2>3. N' <= asked' + faults' + crashes'
    BY <1>1, <1>2, <2>1, <2>2
  <2>4. N' + 0 <= 1 + (asked' + faults' + crashes')
    BY <1>1, <1>2, <2>1, <2>2
  <2> QED
    BY <2>1, <2>3, <2>4 DEF DeliverInv, Disturbances, One
<1>5. CASE ~Crash
  <2>1. /\ UNCHANGED <<asked, faults, crashes>>
        /\ pc'[Daemon] = pc[Daemon] \/ (pc[Daemon] = "idle" /\ pc'[Daemon] = "begin")
    <3>1. CASE Reconcile
      BY <3>1, DaemonIsThread DEF Reconcile, Goto, counters, Inv, TypeOK
    <3> QED
      BY <1>5, <3>1 DEF ReleaseClaim, HumanMoves, vars, counters, threads
  <2> QED
    BY <1>1, <1>2, <1>3, <2>1 DEF DeliverInv, Disturbances, One, DeliverSteps
<1> QED
  BY <1>4, <1>5

LEMMA InitAlone == Init => AloneInv /\ DeliverInv
<1> SUFFICES ASSUME Init PROVE Alone /\ DeliverInv
  BY DEF AloneInv
<1>1. Inv /\ Len(items) = 1
  BY InitInv DEF Init
<1>2. OfKind("delivery") = {} /\ TaskChildren(Root) = {}
  BY <1>1, CreatedIsItem, RootsTasks DEF Inv, ItemsInv, OfKind, Root
<1>3. /\ pc[Daemon] = "idle" /\ \A u \in Requests : pc[u] = "idle"
      /\ my[Daemon] = Fresh /\ asked = 0 /\ faults = 0 /\ crashes = 0
  BY DaemonIsThread DEF Init
<1>4. Alone
  BY <1>2, <1>3 DEF Alone, Fresh, Splitting, SplitSteps, ProposeSteps, DeliverSteps
<1> QED
  BY <1>2, <1>3, <1>4, FS_EmptySet DEF DeliverInv, Disturbances, One

LEMMA NextAlone ==
  Inv /\ AloneInv /\ DeliverInv /\ [Next]_vars => AloneInv' /\ DeliverInv'
<1> SUFFICES ASSUME Inv, AloneInv, DeliverInv, [Next]_vars, asked' = 0
             PROVE  Alone' /\ DeliverInv'
  BY DEF AloneInv, DeliverInv
<1>1. asked \in Nat
  BY CountersAreNat
<1>2. CASE \E t \in Threads : ThreadStep(t)
  <2>1. PICK t \in Threads : ThreadStep(t)
    BY <1>2
  <2>2. Turn(t) /\ asked = 0
    BY <2>1, ThreadTurn DEF Turn
  <2>3. t = Daemon /\ Alone
    BY <2>2 DEF Turn, AloneInv, Alone, Threads
  <2> QED
    BY <2>1, <2>2, <2>3, DaemonAlone, DaemonDelivers DEF AloneTurn
<1>3. CASE \E t \in Requests, i \in ItemIds : Request(t, i)
  BY <1>1, <1>3 DEF Request
<1>4. CASE \/ Reconcile \/ Crash \/ UNCHANGED vars
           \/ \E i \in ItemIds : ReleaseClaim(i) \/ HumanMoves(i)
  <2>1. asked = 0 /\ Alone
    BY <1>4 DEF Reconcile, Crash, ReleaseClaim, HumanMoves, vars, counters, AloneInv
  <2> QED
    BY <1>4, <2>1, NobodyAlone, NobodyDelivers
<1> QED
  BY <1>2, <1>3, <1>4 DEF Next

\* _create_planner_task makes one planner for a request, and one more at most for
\* each API request, failing call and crash; the daemon alone makes its delivery task
\* within the same bound.
THEOREM PlannerAndDeliveryOnce == Spec => []CreatedOnce
<1>1. Inv /\ PlanInv /\ DeliverInv => CreatedOnce
  <2> SUFFICES ASSUME Inv, PlanInv, DeliverInv PROVE CreatedOnce
    OBVIOUS
  <2>1. /\ Cardinality(OfKind("planner")) \in Nat /\ Cardinality(OfKind("delivery")) \in Nat
        /\ Cardinality(Splitters) \in Nat /\ Disturbances \in Nat
    BY KindsFinite, CountersAreNat, FS_CardinalityType DEF PlanInv, Disturbances
  <2>2. Cardinality(OfKind("planner")) <= 1 + Disturbances
    BY <2>1 DEF PlanInv, Planners, One
  <2>3. asked = 0 => Cardinality(OfKind("delivery")) <= 1 + Disturbances
    BY <2>1 DEF DeliverInv, One
  <2> QED
    BY <2>2, <2>3 DEF CreatedOnce
<1> QED
  BY InvHolds, InitPlan, NextPlan, InitAlone, NextAlone, <1>1, PTL DEF Spec

=============================================================================
