--------------------------- MODULE TaskGraphProofs ---------------------------
(***************************************************************************)
(* Theorems about TaskGraph, for every set of modes and plans, every       *)
(* number of handler threads and every value of the limits and bounds: its *)
(* inductive invariant, and its type.                                      *)
(***************************************************************************)
EXTENDS TaskGraph, FiniteSetTheorems, TLAPS

-----------------------------------------------------------------------------
(* The inductive invariant *)

\* The role an item is recorded with, by its kind, and the kind of item that is
\* made before each of the writes to task_metadata.
RoleOf == [root |-> "request", planner |-> "planner", task |-> "worker",
           repair |-> "worker", delivery |-> "delivery_manager"]
KindMade == [deliverMeta |-> "delivery", planMeta |-> "planner",
             proposeMeta |-> "task", repairMeta |-> "repair"]

SplitSteps   == {"plan", "planMeta", "planMove"}
ProposeSteps == {"propose", "proposeMeta"}
RepairSteps  == {"repair", "repairMeta", "repairMove"}
DeliverSteps == {"deliver", "deliverMeta", "closeRoot"}

\* Only the first item is the request, and the row of an item agrees with it; a
\* delivery task is never taken up.
ItemsInv ==
    /\ items[Root].kind = "root"
    /\ \A i \in Created : items[i].kind = "root" => i = Root
    /\ \A i \in Created : items[i].kind = "delivery" => State(i) = "Backlog"

RowsInv ==
    /\ Has(Root)
    /\ \A i \in ItemIds : Has(i) =>
          /\ i \in Created
          /\ meta[i].role = RoleOf[items[i].kind]
          /\ meta[i].repair => items[i].kind = "repair"
          /\ i = Root => meta[i].parent = NoParent /\ meta[i].depth = 0
          /\ i # Root => /\ meta[i].parent \in 1..(i - 1) /\ meta[i].depth >= 1
                         /\ items[meta[i].parent].kind # "delivery"

\* What a thread has in hand.
ItemInHand(t) ==
    /\ my[t].item # NoParent => my[t].item \in Created /\ items[my[t].item].kind # "delivery"
    /\ pc[t] \in SplitSteps => my[t].item = Root /\ ~my[t].claim
    /\ pc[t] \in {"run", "settle"} \cup RepairSteps => my[t].claim
    /\ my[t].claim =>
          my[t].item # NoParent /\ my[t].planner = (items[my[t].item].kind = "planner")
    /\ pc[t] \in RepairSteps => ~my[t].planner /\ Has(my[t].item) /\ my[t].item # Root

BatchInHand(t) ==
    /\ pc[t] = "idle" => my[t] = Fresh
    /\ pc[t] \in {"begin", "pick"} => ~my[t].claim
    /\ pc[t] \in {"begin", "pick", "run"} \cup RepairSteps => my[t].batch = <<>>
    /\ pc[t] \in ProposeSteps =>
          /\ my[t].claim \/ my[t].item = Root
          /\ my[t].parent \in Created /\ items[my[t].parent].kind # "delivery"
          /\ my[t].depth >= 1
          /\ Len(my[t].batch) <= Len(my[t].plan) /\ my[t].plan # <<>>
    /\ \A k \in DOMAIN my[t].batch : my[t].batch[k] # NoParent =>
          /\ my[t].batch[k] \in Created /\ items[my[t].batch[k]].kind = "task"
          /\ Has(my[t].batch[k]) /\ meta[my[t].batch[k]].parent = my[t].parent

NewInHand(t) ==
    /\ pc[t] = "proposeMeta" =>
          Len(my[t].batch) < Len(my[t].plan) /\ my[t].parent < my[t].new
    /\ pc[t] \in MetaSteps =>
          /\ my[t].new \in Created /\ ~Has(my[t].new) /\ my[t].item < my[t].new
          /\ items[my[t].new].kind = KindMade[pc[t]]

\* No two threads are about to write the same row.
NewApart ==
    \A t, u \in Threads :
        t # u /\ pc[t] \in MetaSteps /\ pc[u] \in MetaSteps => my[t].new # my[u].new

Hand(t) == ItemInHand(t) /\ BatchInHand(t) /\ NewInHand(t)

Inv ==
    /\ TypeOK /\ ItemsInv /\ RowsInv /\ NewApart
    /\ \A t \in Threads : Hand(t)

-----------------------------------------------------------------------------
(* What the calls on the tracker and the tables do *)

LEMMA RootIsItem == Root \in ItemIds /\ Root # NoParent /\ ItemIds \subseteq Nat \ {0}
BY TaskGraphAssumption DEF Root, NoParent, ItemIds

LEMMA CreatedIsItem ==
  ASSUME TypeOK
  PROVE  /\ Created = 1..Len(items) /\ Len(items) \in Nat /\ Created \subseteq ItemIds
         /\ Root \in Created /\ NoParent \notin Created
         /\ \A i \in Created : items[i] \in Item
<1>1. Len(items) \in 1..MaxItems /\ items \in Seq(Item)
  BY DEF TypeOK
<1>2. Created = 1..Len(items)
  BY <1>1 DEF Created
<1> QED
  BY <1>1, <1>2, TaskGraphAssumption DEF Root, NoParent, ItemIds

\* A move changes the states of items and nothing else of them.
StatesOnly ==
    /\ items' \in Seq(Item) /\ Len(items') = Len(items) /\ Created' = Created
    /\ \A i \in Created : /\ items'[i].kind = items[i].kind /\ items'[i].depth = items[i].depth
                          /\ items'[i].needs = items[i].needs

LEMMA StatesChange ==
  ASSUME TypeOK, NEW f \in [Created -> States],
         items' = [i \in Created |-> [items[i] EXCEPT !.state = f[i]]]
  PROVE  /\ StatesOnly
         /\ \A i \in Created : items'[i].state = f[i]
<1>1. Created = 1..Len(items) /\ Len(items) \in Nat /\ \A i \in Created : items[i] \in Item
  BY CreatedIsItem
<1>2. \A i \in Created : /\ items'[i] \in Item /\ items'[i].state = f[i]
                         /\ items'[i].kind = items[i].kind /\ items'[i].depth = items[i].depth
                         /\ items'[i].needs = items[i].needs
  BY <1>1 DEF Item
<1>3. items' \in Seq(Item) /\ Len(items') = Len(items)
  BY <1>1, <1>2
<1> QED
  BY <1>1, <1>2, <1>3 DEF StatesOnly, Created

LEMMA MovedFacts ==
  ASSUME TypeOK, NEW S, NEW s \in States, Moved(S, s)
  PROVE  /\ StatesOnly
         /\ \A i \in Created : State(i)' = IF i \in S THEN s ELSE State(i)
<1> DEFINE f == [i \in Created |-> IF i \in S THEN s ELSE State(i)]
<1>1. \A i \in Created : items[i] \in Item
  BY CreatedIsItem
<1>2. f \in [Created -> States]
  BY <1>1 DEF State, Item
<1>3. \A i \in Created : [items[i] EXCEPT !.state = items[i].state] = items[i]
  BY <1>1 DEF Item
<1>4. items' = [i \in Created |-> [items[i] EXCEPT !.state = f[i]]]
  BY <1>3 DEF Moved, State
<1>5. StatesOnly /\ \A i \in Created : items'[i].state = f[i]
  <2> HIDE DEF f
  <2> QED
    BY <1>2, <1>4, StatesChange
<1> QED
  BY <1>5 DEF State

LEMMA FinishRunFacts ==
  ASSUME TypeOK, NEW t \in Threads, NEW s \in States, NEW S, NEW s2 \in States, FinishRun(t, s, S, s2)
  PROVE  /\ StatesOnly
         /\ \A i \in Created : State(i)' = IF i = my[t].item THEN s
                                           ELSE IF i \in S THEN s2 ELSE State(i)
<1> DEFINE f == [i \in Created |-> IF i = my[t].item THEN s ELSE IF i \in S THEN s2 ELSE State(i)]
<1>1. \A i \in Created : items[i] \in Item
  BY CreatedIsItem
<1>2. f \in [Created -> States]
  BY <1>1 DEF State, Item
<1>3. items' = [i \in Created |-> [items[i] EXCEPT !.state = f[i]]]
  BY DEF FinishRun, State
<1>4. StatesOnly /\ \A i \in Created : items'[i].state = f[i]
  <2> HIDE DEF f
  <2> QED
    BY <1>2, <1>3, StatesChange
<1> QED
  BY <1>4 DEF State

\* A creation appends one item, or two of the same kind, depth and state.
Grown(k) ==
    /\ items' \in Seq(Item) /\ Len(items') \in {Len(items) + 1, Len(items) + 2}
    /\ Len(items') <= MaxItems
    /\ \A i \in Created : items'[i] = items[i]
    /\ \A i \in Created' \ Created : items'[i].kind = k

LEMMA CreateItemFacts ==
  ASSUME TypeOK, NEW t \in Threads, NEW new \in [ItemIds -> Item], NEW then, NEW k,
         CreateItem(t, new, then), \A i \in ItemIds : new[i].kind = k
  PROVE  /\ Grown(k) /\ Created \subseteq Created' /\ Created' = 1..Len(items')
         /\ \A i \in Created' \ Created : items'[i] = new[i]
         /\ Goto(t, then) /\ my' = [my EXCEPT ![t].new = Len(items')]
         /\ Len(items') \in ItemIds \ Created /\ Len(items') \in Created'
<1>1. Created = 1..Len(items) /\ Len(items) \in Nat /\ items \in Seq(Item) /\ Len(items) <= MaxItems
  BY CreatedIsItem DEF TypeOK
<1>2. CASE /\ Len(items) < MaxItems
           /\ items' = Append(items, new[Len(items) + 1])
           /\ Set(t, then, "new", Len(items) + 1)
  <2>1. Len(items) + 1 \in ItemIds /\ new[Len(items) + 1] \in Item
    BY <1>1, <1>2, TaskGraphAssumption DEF ItemIds
  <2>2. /\ items' \in Seq(Item) /\ Len(items') = Len(items) + 1
        /\ \A i \in Created : items'[i] = items[i]
        /\ items'[Len(items) + 1] = new[Len(items) + 1]
    BY <1>1, <1>2, <2>1
  <2>3. Created' = Created \cup {Len(items) + 1} /\ Created' = 1..Len(items')
    BY <1>1, <2>2 DEF Created
  <2>4. Goto(t, then) /\ my' = [my EXCEPT ![t].new = Len(items')]
    BY <1>2, <2>2 DEF Set
  <2>5. \A i \in Created' \ Created : items'[i] = new[i] /\ i \in ItemIds
    BY <2>1, <2>2, <2>3
  <2>6. Len(items') \in ItemIds \ Created /\ Len(items') \in Created' /\ Len(items') <= MaxItems
    BY <1>1, <1>2, <2>1, <2>2, <2>3, TaskGraphAssumption
  <2> QED
    BY <2>2, <2>3, <2>4, <2>5, <2>6 DEF Grown
<1>3. CASE /\ Len(items) + 1 < MaxItems
           /\ items' = items \o <<new[Len(items) + 1], new[Len(items) + 2]>>
           /\ Set(t, then, "new", Len(items) + 2)
  <2>1. /\ Len(items) + 1 \in ItemIds /\ Len(items) + 2 \in ItemIds
        /\ new[Len(items) + 1] \in Item /\ new[Len(items) + 2] \in Item
    BY <1>1, <1>3, TaskGraphAssumption DEF ItemIds
  <2>2. /\ items' \in Seq(Item) /\ Len(items') = Len(items) + 2
        /\ \A i \in Created : items'[i] = items[i]
        /\ items'[Len(items) + 1] = new[Len(items) + 1]
        /\ items'[Len(items) + 2] = new[Len(items) + 2]
    BY <1>1, <1>3, <2>1
  <2>3. Created' = Created \cup {Len(items) + 1, Len(items) + 2} /\ Created' = 1..Len(items')
    BY <1>1, <2>2 DEF Created
  <2>4. Goto(t, then) /\ my' = [my EXCEPT ![t].new = Len(items')]
    BY <1>3, <2>2 DEF Set
  <2>5. \A i \in Created' \ Created : items'[i] = new[i] /\ i \in ItemIds
    BY <2>1, <2>2, <2>3
  <2>6. Len(items') \in ItemIds \ Created /\ Len(items') \in Created' /\ Len(items') <= MaxItems
    BY <1>1, <1>3, <2>1, <2>2, <2>3, TaskGraphAssumption
  <2> QED
    BY <2>2, <2>3, <2>4, <2>5, <2>6 DEF Grown
<1> QED
  BY <1>2, <1>3 DEF CreateItem

-----------------------------------------------------------------------------
(* What a step leaves to the other threads *)

DataTypes ==
    /\ items \in Seq(Item) /\ Len(items) \in 1..MaxItems
    /\ meta \in [ItemIds -> Metadata \cup {NoMeta}]
    /\ claims \subseteq Created

CounterTypes ==
    /\ planned \in 0..MaxPlans /\ moved \in 0..MaxMoves
    /\ {asked, faults, crashes} \subseteq 0..MaxDisturbances /\ Disturbances <= MaxDisturbances

Data == DataTypes /\ ItemsInv /\ RowsInv

\* Items and rows stay, and neither changes in what a thread goes by.
Kept ==
    /\ Created \subseteq Created'
    /\ \A i \in Created : items'[i].kind = items[i].kind
    /\ \A i \in ItemIds : Has(i) => meta'[i] = meta[i]

\* A step of thread t: the data are right after it, nothing the others have in hand
\* has changed, and an item t is to record is one it has just made.
Effect(t) ==
    /\ Data' /\ Kept /\ CounterTypes'
    /\ pc' \in [Threads -> Steps] /\ my' \in [Threads -> Locals]
    /\ \A u \in Threads \ {t} :
          /\ pc'[u] = pc[u] /\ my'[u] = my[u]
          /\ pc[u] \in MetaSteps => meta'[my[u].new] = meta[my[u].new]
    /\ Hand(t)'
    /\ pc'[t] \in MetaSteps => my'[t].new \notin Created

LEMMA HandKept ==
  ASSUME Inv, Kept, NEW u \in Threads, pc'[u] = pc[u], my'[u] = my[u],
         pc[u] \in MetaSteps => meta'[my[u].new] = meta[my[u].new]
  PROVE  Hand(u)'
<1>1. Hand(u)
  BY DEF Inv
<1>2. /\ Created \subseteq Created' /\ \A i \in Created : items'[i].kind = items[i].kind
      /\ \A i \in Created : i \in ItemIds
      /\ \A i \in ItemIds : Has(i) => meta'[i] = meta[i]
  BY CreatedIsItem DEF Kept, Inv
<1>3. \A i \in ItemIds : Has(i) => Has(i)'
  BY <1>2 DEF Has
<1>4. my[u] \in Locals
  BY DEF Inv, TypeOK
<1>5. ItemInHand(u)'
  BY <1>1, <1>2, <1>3, <1>4 DEF Hand, ItemInHand
<1>6. BatchInHand(u)'
  BY <1>1, <1>2, <1>3, <1>4 DEF Hand, BatchInHand
<1>7. NewInHand(u)'
  BY <1>1, <1>2, <1>4 DEF Hand, NewInHand, Has
<1> QED
  BY <1>5, <1>6, <1>7 DEF Hand

LEMMA EffectKeepsInv ==
  ASSUME Inv, NEW t \in Threads, Effect(t)
  PROVE  Inv'
<1>1. TypeOK'
  BY DEF Effect, Data, DataTypes, CounterTypes, TypeOK
<1>2. ItemsInv' /\ RowsInv'
  BY DEF Effect, Data
<1>3. \A u \in Threads : Hand(u)'
  <2> TAKE u \in Threads
  <2>1. CASE u = t
    BY <2>1 DEF Effect
  <2>2. CASE u # t
    BY <2>2, HandKept DEF Effect
  <2> QED
    BY <2>1, <2>2
<1>4. NewApart'
  <2>1. \A u \in Threads : pc[u] \in MetaSteps => my[u].new \in Created
    BY DEF Inv, Hand, NewInHand
  <2> QED
    BY <2>1 DEF Effect, Inv, NewApart
<1> QED
  BY <1>1, <1>2, <1>3, <1>4 DEF Inv

\* Moves, if they leave the delivery tasks alone.
LEMMA MovesKeep ==
  ASSUME Inv, StatesOnly, UNCHANGED meta, claims' \subseteq Created,
         \A i \in Created : items[i].kind = "delivery" => State(i)' = State(i)
  PROVE  Data' /\ Kept
<1>1. /\ Created' = Created /\ Root \in Created
      /\ Created = 1..Len(items) /\ Len(items) \in Nat
      /\ \A i \in Created : items'[i].kind = items[i].kind
  BY CreatedIsItem DEF StatesOnly, Inv
<1>2. DataTypes'
  BY <1>1 DEF DataTypes, StatesOnly, Inv, TypeOK
<1>3. ItemsInv'
  BY <1>1 DEF ItemsInv, Inv
<1>4. Kept
  BY <1>1 DEF Kept
<1>5. \A i \in ItemIds : Has(i)' = Has(i)
  BY DEF Has
<1>6. RowsInv'
  <2>1. Has(Root)' /\ \A i \in ItemIds : i \in Created => i \in Created'
    BY <1>1, <1>5, RootIsItem DEF RowsInv, Inv
  <2>2. \A i \in ItemIds \ {Root} : Has(i) => meta[i].parent \in Created
    BY <1>1, RootIsItem DEF RowsInv, Inv, ItemIds
  <2> QED
    BY <1>1, <1>5, <2>1, <2>2 DEF RowsInv, Inv
<1> QED
  BY <1>2, <1>3, <1>4, <1>6 DEF Data

LEMMA GrowthKeeps ==
  ASSUME Inv, NEW k, Grown(k), Created \subseteq Created', k # "root",
         k = "delivery" => \A i \in Created' \ Created : items'[i].state = "Backlog",
         UNCHANGED <<meta, claims>>
  PROVE  Data' /\ Kept
<1>1. /\ Root \in Created /\ Len(items) \in Nat /\ Len(items) >= 1 /\ Created = 1..Len(items)
      /\ \A i \in Created : items'[i] = items[i]
  BY CreatedIsItem DEF Grown, Inv, TypeOK
<1>2. DataTypes'
  BY <1>1 DEF DataTypes, Grown, Inv, TypeOK
<1>3. ItemsInv'
  BY <1>1 DEF ItemsInv, Grown, State, Inv
<1>4. Kept
  BY <1>1 DEF Kept
<1>5. \A i \in ItemIds : Has(i)' = Has(i)
  BY DEF Has
<1>6. RowsInv'
  <2>1. Has(Root)' /\ \A i \in ItemIds : i \in Created => i \in Created'
    BY <1>1, <1>5, RootIsItem DEF RowsInv, Inv
  <2>2. \A i \in ItemIds \ {Root} : Has(i) => meta[i].parent \in Created
    BY <1>1, RootIsItem DEF RowsInv, Inv, ItemIds
  <2> QED
    BY <1>1, <1>5, <2>1, <2>2 DEF RowsInv, Inv
<1> QED
  BY <1>2, <1>3, <1>4, <1>6 DEF Data

LEMMA RowKeeps ==
  ASSUME Inv, NEW t \in Threads, pc[t] \in MetaSteps,
         NEW role, NEW parent \in Created, items[parent].kind # "delivery", NEW depth \in Nat, NEW mode, NEW deps,
         WriteMeta(t, role, parent, depth, mode, deps), UNCHANGED <<items, claims>>,
         role = RoleOf[KindMade[pc[t]]], parent < my[t].new, depth >= 1,
         mode \in Modes \cup {"plan_execute", "full_auto"}, deps \subseteq ItemIds
  PROVE  /\ Data' /\ Kept /\ meta'[my[t].new] # NoMeta /\ meta'[my[t].new].parent = parent
         /\ \A u \in Threads \ {t} : pc[u] \in MetaSteps => meta'[my[u].new] = meta[my[u].new]
<1> DEFINE n == my[t].new
           row == [role |-> role, parent |-> parent, depth |-> depth,
                   repair |-> role = "worker" /\ items[n].kind = "repair",
                   mode |-> mode, deps |-> deps]
<1>1. /\ n \in Created /\ ~Has(n) /\ items[n].kind = KindMade[pc[t]]
      /\ n \in ItemIds /\ n # Root /\ parent \in ItemIds
  BY CreatedIsItem DEF Inv, Hand, NewInHand, RowsInv
<1>2. meta \in [ItemIds -> Metadata \cup {NoMeta}] /\ meta' = [meta EXCEPT ![n] = row]
  BY DEF Inv, TypeOK, WriteMeta
<1>3. role \in Roles /\ role = RoleOf[items[n].kind]
  BY <1>1 DEF KindMade, RoleOf, Roles, MetaSteps
<1>4. row \in Metadata /\ row # NoMeta
  BY <1>1, <1>3 DEF Metadata, NoMeta, Roles
<1>5. /\ meta'[n] = row /\ \A i \in ItemIds \ {n} : meta'[i] = meta[i]
      /\ meta'[n].role = role /\ meta'[n].parent = parent /\ meta'[n].depth = depth
      /\ meta'[n].repair => items[n].kind = "repair"
  BY <1>1, <1>2
<1>6. meta'[n] # NoMeta /\ \A i \in ItemIds \ {n} : Has(i)' <=> Has(i)
  <2> HIDE DEF row, n
  <2> QED
    BY <1>4, <1>5 DEF Has
<1>7. DataTypes'
  BY <1>2, <1>4 DEF DataTypes, Inv, TypeOK, Created
<1>8. ItemsInv' /\ Created' = Created
  BY DEF ItemsInv, Inv, Created, State
<1>9. Kept
  BY <1>1, <1>5, <1>8 DEF Kept
<1>10. RowsInv'
  <2>1. parent \in 1..(n - 1)
    BY <1>1, RootIsItem DEF ItemIds
  <2>2. \A i \in ItemIds \ {n} : Has(i) =>
           /\ i \in Created
           /\ meta[i].role = RoleOf[items[i].kind]
           /\ meta[i].repair => items[i].kind = "repair"
           /\ i = Root => meta[i].parent = NoParent /\ meta[i].depth = 0
           /\ i # Root => /\ meta[i].parent \in 1..(i - 1) /\ meta[i].depth >= 1
                          /\ items[meta[i].parent].kind # "delivery"
    BY DEF Inv, RowsInv
  <2>3. Has(Root)'
    BY <1>1, <1>6, RootIsItem DEF Inv, RowsInv
  <2>4. \A i \in ItemIds : Has(i)' =>
           /\ i \in Created'
           /\ meta'[i].role = RoleOf[items'[i].kind]
           /\ meta'[i].repair => items'[i].kind = "repair"
           /\ i = Root => meta'[i].parent = NoParent /\ meta'[i].depth = 0
           /\ i # Root => /\ meta'[i].parent \in 1..(i - 1) /\ meta'[i].depth >= 1
                          /\ items'[meta'[i].parent].kind # "delivery"
    <3> HIDE DEF row, n
    <3> QED
      BY <1>1, <1>3, <1>5, <1>6, <1>8, <2>1, <2>2 DEF Has
  <2> QED
    BY <2>3, <2>4 DEF RowsInv
<1>11. \A u \in Threads \ {t} : pc[u] \in MetaSteps => meta'[my[u].new] = meta[my[u].new]
  BY <1>5, CreatedIsItem DEF Inv, NewApart, Hand, NewInHand
<1> QED
  BY <1>5, <1>6, <1>7, <1>8, <1>9, <1>10, <1>11 DEF Data

-----------------------------------------------------------------------------
(* Steps that several actions share *)

LEMMA ThreadMoves ==
  ASSUME Inv, NEW t \in Threads, NEW p \in Steps, NEW l \in Locals,
         pc' = [pc EXCEPT ![t] = p], my' = [my EXCEPT ![t] = l]
  PROVE  /\ pc' \in [Threads -> Steps] /\ my' \in [Threads -> Locals]
         /\ pc'[t] = p /\ my'[t] = l
         /\ \A u \in Threads \ {t} : pc'[u] = pc[u] /\ my'[u] = my[u]
BY DEF Inv, TypeOK

LEMMA CountersKeep ==
  ASSUME Inv, UNCHANGED counters \/ Fault \/ Planned
  PROVE  CounterTypes'
<1>1. /\ planned \in 0..MaxPlans /\ moved \in 0..MaxMoves
      /\ asked \in Nat /\ faults \in Nat /\ crashes \in Nat
      /\ Disturbances <= MaxDisturbances /\ MaxDisturbances \in Nat /\ MaxPlans \in Nat
  BY TaskGraphAssumption DEF Inv, TypeOK
<1>2. /\ planned' \in 0..MaxPlans /\ moved' \in 0..MaxMoves
      /\ asked' \in Nat /\ faults' \in Nat /\ crashes' \in Nat
      /\ asked' + faults' + crashes' <= MaxDisturbances
  <2>1. CASE UNCHANGED counters
    BY <1>1, <2>1 DEF counters, Disturbances
  <2>2. CASE Fault
    BY <1>1, <2>2 DEF Fault, MayDisturb, Disturbances
  <2>3. CASE Planned
    BY <1>1, <2>3 DEF Planned, Disturbances
  <2> QED
    BY <2>1, <2>2, <2>3
<1>3. asked' \in 0..MaxDisturbances /\ faults' \in 0..MaxDisturbances /\ crashes' \in 0..MaxDisturbances
  <2>1. \A a, b, c, n \in Nat : a + b + c <= n => a \in 0..n /\ b \in 0..n /\ c \in 0..n
    OBVIOUS
  <2> QED
    BY <1>1, <1>2, <2>1
<1> QED
  BY <1>2, <1>3 DEF CounterTypes, Disturbances

LEMMA FreshIsLocal == Fresh \in Locals
BY DEF Fresh, Locals

LEMMA ReturnEffect ==
  ASSUME Inv, NEW t \in Threads, Return(t), Data', Kept, UNCHANGED meta, CounterTypes'
  PROVE  Effect(t)
<1>1. /\ pc' \in [Threads -> Steps] /\ my' \in [Threads -> Locals]
      /\ pc'[t] = "idle" /\ my'[t] = Fresh
      /\ \A u \in Threads \ {t} : pc'[u] = pc[u] /\ my'[u] = my[u]
  BY ThreadMoves, FreshIsLocal DEF Return, Goto, Steps
<1>2. Hand(t)'
  BY <1>1 DEF Hand, ItemInHand, BatchInHand, NewInHand, Fresh, SplitSteps, RepairSteps,
              ProposeSteps, MetaSteps
<1> QED
  BY <1>1, <1>2 DEF Effect, MetaSteps

\* A thread that changes nothing but its own hand.
LEMMA HandEffect ==
  ASSUME Inv, NEW t \in Threads, NEW p \in Steps, NEW l \in Locals,
         pc' = [pc EXCEPT ![t] = p], my' = [my EXCEPT ![t] = l], p \notin MetaSteps,
         Data', Kept, UNCHANGED meta, CounterTypes', Hand(t)'
  PROVE  Effect(t)
BY ThreadMoves DEF Effect

\* Nothing changes in the tracker and the tables.
LEMMA DataKeep ==
  ASSUME Inv, UNCHANGED <<items, tables>>
  PROVE  Data' /\ Kept
<1>1. StatesOnly /\ UNCHANGED <<meta, claims>> /\ claims \subseteq Created
  BY DEF StatesOnly, Inv, TypeOK, tables, Created
<1> QED
  BY <1>1, MovesKeep DEF State

LEMMA ClaimEffect ==
  ASSUME Inv, NEW t \in Threads, NEW i \in Created, items[i].kind # "delivery",
         Claim(t, i), UNCHANGED meta, CounterTypes'
  PROVE  Effect(t)
<1> DEFINE l == [Fresh EXCEPT !.item = i, !.claim = TRUE,
                              !.planner = Planner(i), !.mode = RunMode(i)]
<1>1. i \in ItemIds /\ items[i] \in Item /\ i # NoParent
  BY CreatedIsItem DEF Inv
<1>2. RunMode(i) \in Modes \cup {"plan_execute", "full_auto"}
  BY <1>1 DEF Inv, TypeOK, RunMode, Has, Metadata
<1>3. Planner(i) = (items[i].kind = "planner")
  BY <1>1 DEF Inv, RowsInv, Planner, RoleOf, Item, Kinds
<1>4. l \in Locals
  <2>1. Planner(i) \in BOOLEAN
    BY <1>3
  <2> QED
    BY <1>1, <1>2, <2>1, FreshIsLocal DEF Locals
<1>5. StatesOnly /\ \A j \in Created : State(j)' = IF j \in {i} THEN "Running" ELSE State(j)
  BY MovedFacts DEF Claim, Inv, States
<1>6. claims' \subseteq Created
  BY DEF Claim, Inv, TypeOK
<1>7. Data' /\ Kept
  BY <1>5, <1>6, MovesKeep
<1>8. pc' = [pc EXCEPT ![t] = "run"] /\ my' = [my EXCEPT ![t] = l]
  BY DEF Claim, Goto
<1>9. pc'[t] = "run" /\ my'[t] = l
  BY <1>8 DEF Inv, TypeOK
<1>10. l.item = i /\ l.claim = TRUE /\ l.planner = Planner(i) /\ l.batch = <<>>
  BY DEF Fresh
<1>11. Hand(t)'
  <2> HIDE DEF l
  <2>1. i \in Created' /\ items'[i].kind = items[i].kind
    BY <1>7 DEF Kept
  <2>2. DOMAIN l.batch = {}
    BY <1>10
  <2> QED
    BY <1>1, <1>3, <1>9, <1>10, <2>1, <2>2
    DEF Hand, ItemInHand, BatchInHand, NewInHand, SplitSteps, RepairSteps, ProposeSteps, MetaSteps
<1> QED
  BY <1>4, <1>7, <1>8, <1>11, HandEffect DEF Steps, MetaSteps, CreateSteps

LEMMA FinishEffect ==
  ASSUME Inv, NEW t \in Threads, NEW s \in States, NEW S, NEW s2 \in States,
         FinishRun(t, s, S, s2), my[t].claim, \A i \in S \cap Created : items[i].kind # "delivery",
         CounterTypes'
  PROVE  Effect(t)
<1>1. /\ StatesOnly
      /\ \A i \in Created : State(i)' = IF i = my[t].item THEN s
                                        ELSE IF i \in S THEN s2 ELSE State(i)
  BY FinishRunFacts DEF Inv
<1>2. items[my[t].item].kind # "delivery"
  BY DEF Inv, Hand, ItemInHand
<1>3. claims' \subseteq Created
  BY DEF FinishRun, Inv, TypeOK
<1>4. Data' /\ Kept
  BY <1>1, <1>2, <1>3, MovesKeep DEF FinishRun
<1> QED
  BY <1>4, ReturnEffect DEF FinishRun

LEMMA RaisesEffect ==
  ASSUME Inv, NEW t \in Threads, NEW S, RunRaises(t, S), my[t].claim,
         \A i \in S \cap Created : items[i].kind # "delivery"
  PROVE  Effect(t)
<1>1. CounterTypes'
  BY CountersKeep DEF RunRaises
<1>2. PICK done \in {{}, S} : FinishRun(t, "Needs Input", done, "Planning")
  BY DEF RunRaises
<1>3. \A i \in done \cap Created : items[i].kind # "delivery"
  BY <1>2
<1> QED
  BY <1>1, <1>2, <1>3, FinishEffect DEF States

MetaStep == [deliver |-> "deliverMeta", plan |-> "planMeta",
             propose |-> "proposeMeta", repair |-> "repairMeta"]

LEMMA CreateEffect ==
  ASSUME Inv, NEW t \in Threads, NEW new \in [ItemIds -> Item],
         pc[t] \in CreateSteps, CreateItem(t, new, MetaStep[pc[t]]), UNCHANGED <<meta, claims>>,
         \A i \in ItemIds : new[i].kind = KindMade[MetaStep[pc[t]]],
         pc[t] = "deliver" => \A i \in ItemIds : new[i].state = "Backlog",
         pc[t] = "propose" => Len(my[t].batch) < Len(my[t].plan)
  PROVE  Effect(t)
<1> DEFINE then == MetaStep[pc[t]]
           n == Len(items')
           l == [my[t] EXCEPT !.new = n]
<1>1. then \in MetaSteps /\ then \in Steps /\ KindMade[then] # "root" /\ (KindMade[then] = "delivery" => pc[t] = "deliver")
  BY DEF MetaStep, MetaSteps, Steps, CreateSteps, KindMade
<1>2. /\ Grown(KindMade[then]) /\ Created \subseteq Created' /\ Created' = 1..Len(items')
      /\ \A i \in Created' \ Created : items'[i] = new[i]
      /\ Goto(t, then) /\ my' = [my EXCEPT ![t].new = n]
      /\ n \in ItemIds \ Created /\ n \in Created'
  BY CreateItemFacts DEF Inv
<1>3. \A i \in Created' : i \in ItemIds
  BY <1>2, CreatedIsItem, TaskGraphAssumption DEF Grown, ItemIds, Inv, TypeOK
<1>4. Data' /\ Kept
  BY <1>1, <1>2, <1>3, GrowthKeeps
<1>5. CounterTypes'
  BY CountersKeep DEF CreateItem
<1>6. my[t] \in Locals /\ l \in Locals
  <2>1. my[t] \in Locals
    BY DEF Inv, TypeOK
  <2>2. n \in ItemIds
    BY <1>2
  <2> HIDE DEF n
  <2> QED
    BY <2>1, <2>2 DEF Locals
<1>7. pc' = [pc EXCEPT ![t] = then] /\ my' = [my EXCEPT ![t] = l]
  BY <1>2 DEF Goto
<1>8. /\ pc'[t] = then /\ my'[t] = l
      /\ \A u \in Threads \ {t} : pc'[u] = pc[u] /\ my'[u] = my[u]
      /\ pc' \in [Threads -> Steps] /\ my' \in [Threads -> Locals]
  <2> HIDE DEF l, then
  <2> QED
    BY <1>1, <1>6, <1>7, ThreadMoves
<1>9. /\ l.item = my[t].item /\ l.claim = my[t].claim /\ l.planner = my[t].planner
      /\ l.batch = my[t].batch /\ l.plan = my[t].plan /\ l.parent = my[t].parent
      /\ l.depth = my[t].depth /\ l.new = n
  BY <1>6 DEF Locals
<1>10. Hand(t) /\ my[t].item \in {NoParent} \cup Created
  BY DEF Inv, Hand, ItemInHand
<1>11. /\ Created = 1..Len(items) /\ Len(items) \in Nat /\ n \in Nat /\ n > Len(items)
       /\ \A i \in {NoParent} \cup Created : i < n
       /\ \A i \in Created : items'[i].kind = items[i].kind
  BY <1>2, CreatedIsItem DEF Inv, Grown, NoParent, ItemIds
<1>12. items'[n].kind = KindMade[then] /\ ~Has(n)
  BY <1>2 DEF Grown, Inv, RowsInv
<1>13. \A i : meta'[i] = meta[i]
  OBVIOUS
<1>14. ItemInHand(t)'
  <2> HIDE DEF l, then, n
  <2> QED
    BY <1>2, <1>8, <1>9, <1>10, <1>11, <1>13
    DEF Hand, ItemInHand, SplitSteps, RepairSteps, MetaStep, CreateSteps, then, Has
<1>15. BatchInHand(t)'
  <2> HIDE DEF l, then, n
  <2>1. /\ then = "proposeMeta" <=> pc[t] = "propose"
        /\ then \notin {"idle", "begin", "pick", "run", "propose", "repair", "repairMove"}
        /\ then = "repairMeta" <=> pc[t] = "repair"
    BY DEF then, MetaStep, CreateSteps, RepairSteps
  <2> QED
    BY <1>2, <1>8, <1>9, <1>10, <1>11, <1>13, <2>1
    DEF Hand, BatchInHand, ProposeSteps, RepairSteps, Has
<1>16. NewInHand(t)'
  <2> HIDE DEF l, n
  <2> QED
    BY <1>2, <1>8, <1>9, <1>10, <1>11, <1>12, <1>13, SMTT(30)
    DEF Hand, BatchInHand, NewInHand, ProposeSteps, MetaStep, CreateSteps, MetaSteps, Has
<1> QED
  <2> HIDE DEF l
  <2> QED
    BY <1>2, <1>4, <1>5, <1>8, <1>9, <1>14, <1>15, <1>16 DEF Effect, Hand

LEMMA TruncatedIsPlan ==
  ASSUME NEW plan \in Seq(SUBSET ItemIds), plan # <<>>
  PROVE  Truncated(plan) \in Seq(SUBSET ItemIds) /\ Truncated(plan) # <<>>
<1> DEFINE n == IF Len(plan) < MaxChildTasks THEN Len(plan) ELSE MaxChildTasks
<1>1. n \in 1..Len(plan)
  BY TaskGraphAssumption
<1>2. SubSeq(plan, 1, n) \in Seq(SUBSET ItemIds) /\ Len(SubSeq(plan, 1, n)) = n
  <2> HIDE DEF n
  <2> QED
    BY <1>1
<1> QED
  BY <1>1, <1>2 DEF Truncated

LEMMA ProposeEffect ==
  ASSUME Inv, NEW t \in Threads, pc[t] \in {"pick", "run"},
         NEW i \in Created, items[i].kind # "delivery",
         NEW plan \in Seq(SUBSET ItemIds), plan # <<>>,
         NEW mode \in Modes \cup {"plan_execute", "full_auto"}, NEW blocked \in BOOLEAN,
         Propose(t, i, plan, mode, blocked), UNCHANGED <<items, meta, claims>>, CounterTypes',
         my[t].claim => my[t].item = i, ~my[t].claim => i = Root
  PROVE  Effect(t)
<1> DEFINE l == [my[t] EXCEPT
                  !.item = i, !.plan = Truncated(plan), !.mode = mode, !.blocked = blocked,
                  !.parent = PlannerParent(i),
                  !.depth = IF PlannerParent(i) # i THEN Depth(i) ELSE Depth(i) + 1]
<1>1. /\ i \in ItemIds /\ i # NoParent /\ Root \in ItemIds
      /\ Created = 1..Len(items) /\ Len(items) \in Nat /\ items[i] \in Item
  BY CreatedIsItem, RootIsItem DEF Inv
<1>2. /\ PlannerParent(i) \in Created /\ items[PlannerParent(i)].kind # "delivery"
      /\ PlannerParent(i) # i => Has(i) /\ i # Root
  <2>1. CASE Has(i) /\ meta[i].role = "planner"
    <3>1. i # Root
      BY <1>1, <2>1 DEF Inv, ItemsInv, RowsInv, RoleOf
    <3>2. meta[i].parent \in 1..(i - 1) /\ items[meta[i].parent].kind # "delivery"
      BY <1>1, <2>1, <3>1 DEF Inv, RowsInv
    <3> QED
      BY <1>1, <2>1, <3>1, <3>2 DEF PlannerParent
  <2> QED
    BY <2>1 DEF PlannerParent
<1>3. Depth(i) \in Nat /\ (PlannerParent(i) # i => Depth(i) >= 1)
  BY <1>1, <1>2 DEF Inv, TypeOK, RowsInv, Depth, Has, Metadata, Item
<1>4. (IF PlannerParent(i) # i THEN Depth(i) ELSE Depth(i) + 1) \in Nat \ {0}
  BY <1>3
<1>5. my[t] \in Locals /\ PlannerParent(i) \in ItemIds
  BY <1>2, CreatedIsItem DEF Inv, TypeOK
<1>6. Truncated(plan) \in Seq(SUBSET ItemIds) /\ Truncated(plan) # <<>>
  BY TruncatedIsPlan
<1>7. l \in Locals
  <2>1. PICK plan2, d : plan2 = Truncated(plan) /\ d = IF PlannerParent(i) # i THEN Depth(i) ELSE Depth(i) + 1
    OBVIOUS
  <2>2. l = [my[t] EXCEPT !.item = i, !.plan = plan2, !.mode = mode, !.blocked = blocked,
                          !.parent = PlannerParent(i), !.depth = d]
    BY <2>1
  <2>3. plan2 \in Seq(SUBSET ItemIds) /\ d \in Nat
    BY <1>4, <1>6, <2>1
  <2> HIDE DEF l
  <2> QED
    BY <1>1, <1>5, <2>2, <2>3 DEF Locals, ItemIds
<1>8. pc' = [pc EXCEPT ![t] = "propose"] /\ my' = [my EXCEPT ![t] = l]
  BY DEF Propose, Goto
<1>9. pc'[t] = "propose" /\ my'[t] = l
  BY <1>8 DEF Inv, TypeOK
<1>10. /\ l.item = i /\ l.claim = my[t].claim /\ l.planner = my[t].planner
       /\ l.batch = my[t].batch /\ l.plan = Truncated(plan) /\ l.parent = PlannerParent(i)
       /\ l.depth \in Nat \ {0}
  BY <1>4, <1>5 DEF Locals
<1>11. Data' /\ Kept
  BY DataKeep DEF tables
<1>12. /\ Hand(t) /\ my[t].batch = <<>> /\ Len(<<>>) = 0 /\ DOMAIN my[t].batch = {}
  BY DEF Inv, Hand, BatchInHand
<1>13. Created' = Created
  BY DEF Created
<1>14. Len(Truncated(plan)) \in Nat /\ l.depth >= 1
  BY <1>6, <1>10
<1>15. Hand(t)'
  <2> HIDE DEF l
  <2> QED
    BY <1>2, <1>6, <1>9, <1>10, <1>12, <1>13, <1>14
    DEF Hand, ItemInHand, BatchInHand, NewInHand, SplitSteps, RepairSteps, ProposeSteps, MetaSteps
<1> QED
  <2> HIDE DEF l
  <2> QED
    BY <1>7, <1>8, <1>11, <1>15, HandEffect DEF Steps, CreateSteps, MetaSteps

LEMMA GotoEffect ==
  ASSUME Inv, NEW t \in Threads,
         NEW p \in {"begin", "pick", "deliver", "closeRoot", "settle", "repair"},
         Goto(t, p), UNCHANGED my, Data', Kept, UNCHANGED meta, CounterTypes',
         p \in {"begin", "pick"} => my[t].batch = <<>> /\ ~my[t].claim,
         p = "settle" => my[t].claim,
         p = "repair" => /\ my[t].batch = <<>> /\ my[t].claim /\ ~my[t].planner
                         /\ Has(my[t].item) /\ my[t].item # Root
  PROVE  Effect(t)
<1>1. p \in Steps \ MetaSteps
  BY DEF Steps, MetaSteps, CreateSteps
<1>2. my[t] \in Locals /\ my' = [my EXCEPT ![t] = my[t]] /\ pc' = [pc EXCEPT ![t] = p] /\ pc'[t] = p
  BY DEF Inv, TypeOK, Goto
<1>3. /\ Hand(t) /\ Created \subseteq Created' /\ my'[t] = my[t]
      /\ \A i \in Created : items'[i].kind = items[i].kind
      /\ \A i : meta'[i] = meta[i]
      /\ \A i \in Created : i \in ItemIds
  BY CreatedIsItem DEF Inv, Kept
<1>4. Hand(t)'
  BY <1>2, <1>3 DEF Hand, ItemInHand, BatchInHand, NewInHand, SplitSteps, RepairSteps,
                    ProposeSteps, MetaSteps, Has
<1> QED
  BY <1>1, <1>2, <1>4, HandEffect

LEMMA RowEffect ==
  ASSUME Inv, NEW t \in Threads, pc[t] \in MetaSteps \ {"proposeMeta"},
         NEW p, p = [deliverMeta |-> "closeRoot", planMeta |-> "planMove",
                     repairMeta |-> "repairMove"][pc[t]],
         NEW role, NEW parent \in Created, items[parent].kind # "delivery",
         NEW depth \in Nat, NEW mode, NEW deps,
         WriteMeta(t, role, parent, depth, mode, deps), Goto(t, p), UNCHANGED <<items, claims, my, counters>>,
         role = RoleOf[KindMade[pc[t]]], parent < my[t].new, depth >= 1,
         mode \in Modes \cup {"plan_execute", "full_auto"}, deps \subseteq ItemIds
  PROVE  Effect(t)
<1>1. p \in Steps \ MetaSteps
  BY DEF Steps, MetaSteps, CreateSteps
<1>2. my[t] \in Locals /\ my' = [my EXCEPT ![t] = my[t]] /\ pc' = [pc EXCEPT ![t] = p]
  BY DEF Inv, TypeOK, Goto
<1>3. /\ Data' /\ Kept
      /\ \A u \in Threads \ {t} : pc[u] \in MetaSteps => meta'[my[u].new] = meta[my[u].new]
  BY RowKeeps DEF MetaSteps
<1>4. CounterTypes'
  BY CountersKeep
<1>5. /\ pc' \in [Threads -> Steps] /\ my' \in [Threads -> Locals]
      /\ pc'[t] = p /\ my'[t] = my[t]
      /\ \A u \in Threads \ {t} : pc'[u] = pc[u] /\ my'[u] = my[u]
  BY <1>1, <1>2, ThreadMoves
<1>6. /\ Hand(t) /\ Created \subseteq Created'
      /\ \A i \in Created : items'[i].kind = items[i].kind
      /\ \A i \in ItemIds : Has(i) => meta'[i] = meta[i]
      /\ \A i \in Created : i \in ItemIds
  BY <1>3, CreatedIsItem DEF Inv, Kept
<1>7. Hand(t)'
  BY <1>5, <1>6 DEF Hand, ItemInHand, BatchInHand, NewInHand, SplitSteps, RepairSteps,
                    ProposeSteps, MetaSteps, Has
<1> QED
  BY <1>1, <1>3, <1>4, <1>5, <1>7 DEF Effect

-----------------------------------------------------------------------------
(* The steps of a thread *)

\* Moves of items that no run will take: none of them is a delivery task.
LEMMA MovedEffect ==
  ASSUME Inv, NEW S, NEW s \in States, Moved(S, s), UNCHANGED meta, claims' \subseteq Created,
         \A i \in S \cap Created : items[i].kind # "delivery"
  PROVE  Data' /\ Kept
<1>1. StatesOnly /\ \A i \in Created : State(i)' = IF i \in S THEN s ELSE State(i)
  BY MovedFacts DEF Inv
<1> QED
  BY <1>1, MovesKeep

LEMMA NotBacklog ==
  ASSUME Inv, NEW i \in Created, State(i) # "Backlog"
  PROVE  items[i].kind # "delivery"
BY DEF Inv, ItemsInv

LEMMA BeginRunOnceEffect ==
  ASSUME Inv, NEW t \in Threads, BeginRunOnce(t)
  PROVE  Effect(t)
<1>1. Data' /\ Kept
  <2> DEFINE S == {i \in TaskChildren(Root) : FullAuto(Root) /\ State(i) = "Human Review"}
  <2>1. \A i \in S \cap Created : items[i].kind # "delivery"
    BY NotBacklog
  <2>2. claims' \subseteq Created /\ UNCHANGED meta /\ Moved(S, "Done")
    BY DEF Inv, TypeOK, BeginRunOnce, tables
  <2> HIDE DEF S
  <2> QED
    BY <2>1, <2>2, MovedEffect DEF States
<1>2. CounterTypes'
  BY CountersKeep DEF BeginRunOnce
<1>3. my[t].batch = <<>> /\ ~my[t].claim
  BY DEF Inv, Hand, BatchInHand, BeginRunOnce
<1>4. \E p \in {"deliver", "pick"} : Goto(t, p)
  BY DEF BeginRunOnce
<1> QED
  BY <1>1, <1>2, <1>3, <1>4, GotoEffect DEF BeginRunOnce, tables

LEMMA DeliverEffect ==
  ASSUME Inv, NEW t \in Threads, Deliver(t)
  PROVE  Effect(t)
<1> DEFINE new == [id \in ItemIds |-> Plain("delivery", "Backlog")]
<1>1. /\ pc[t] = "deliver" /\ UNCHANGED tables
      /\ \/ CreateItem(t, new, "deliverMeta")
         \/ CreateFails /\ Goto(t, "closeRoot") /\ UNCHANGED my
  BY DEF Deliver
<1>2. CASE CreateItem(t, new, "deliverMeta")
  <2>1. /\ new \in [ItemIds -> Item]
        /\ \A i \in ItemIds : new[i].kind = "delivery" /\ new[i].state = "Backlog"
    BY DEF Plain, Item, Kinds, States
  <2> HIDE DEF new
  <2> QED
    BY <1>1, <1>2, <2>1, CreateEffect DEF MetaStep, KindMade, CreateSteps, tables
<1>3. CASE CreateFails /\ Goto(t, "closeRoot") /\ UNCHANGED my
  <2>1. Data' /\ Kept /\ CounterTypes'
    BY <1>1, <1>3, DataKeep, CountersKeep DEF CreateFails
  <2> QED
    BY <1>1, <1>3, <2>1, GotoEffect DEF tables
<1> QED
  BY <1>1, <1>2, <1>3

LEMMA DeliverMetaEffect ==
  ASSUME Inv, NEW t \in Threads, DeliverMeta(t)
  PROVE  Effect(t)
<1>1. Root \in Created /\ items[Root].kind # "delivery" /\ {Root} \subseteq ItemIds
  BY CreatedIsItem, RootIsItem DEF Inv, ItemsInv
<1>2. pc[t] = "deliverMeta" /\ Root < my[t].new
  <2>1. my[t].new \in Created /\ ~Has(my[t].new) /\ Has(Root)
    BY DEF DeliverMeta, Inv, Hand, NewInHand, MetaSteps, RowsInv
  <2> QED
    BY <2>1, CreatedIsItem DEF DeliverMeta, Inv, Root
<1> QED
  BY <1>1, <1>2, RowEffect DEF DeliverMeta, RoleOf, KindMade, MetaSteps

LEMMA CloseRootEffect ==
  ASSUME Inv, NEW t \in Threads, CloseRoot(t)
  PROVE  Effect(t)
<1>1. CASE my[t].claim
  <2>1. (FinishRun(t, "Done", {}, "Done") /\ UNCHANGED counters) \/ RunRaises(t, {})
    BY <1>1 DEF CloseRoot
  <2>2. CASE FinishRun(t, "Done", {}, "Done") /\ UNCHANGED counters
    <3>1. CounterTypes'
      BY <2>2, CountersKeep
    <3>2. "Done" \in States
      BY DEF States
    <3> QED
      BY <1>1, <2>2, <3>1, <3>2, FinishEffect
  <2>3. CASE RunRaises(t, {})
    BY <1>1, <2>3, RaisesEffect
  <2> QED
    BY <2>1, <2>2, <2>3
<1>2. CASE ~my[t].claim
  <2>1. /\ Return(t) /\ UNCHANGED tables
        /\ (Moved({Root}, "Done") /\ UNCHANGED counters) \/ (Fault /\ UNCHANGED items)
    BY <1>2 DEF CloseRoot
  <2>2. CounterTypes'
    BY <2>1, CountersKeep
  <2>3. Data' /\ Kept
    <3>1. CASE UNCHANGED items
      BY <2>1, <3>1, DataKeep
    <3>2. CASE Moved({Root}, "Done")
      <4>1. \A i \in {Root} \cap Created : items[i].kind # "delivery"
        BY DEF Inv, ItemsInv
      <4>2. claims' \subseteq Created
        BY <2>1 DEF Inv, TypeOK, tables
      <4> QED
        BY <2>1, <3>2, <4>1, <4>2, MovedEffect DEF States, tables
    <3> QED
      BY <2>1, <3>1, <3>2
  <2> QED
    BY <2>1, <2>2, <2>3, ReturnEffect DEF tables
<1> QED
  BY <1>1, <1>2

\* A thread takes up item i.
LEMMA TakeUpEffect ==
  ASSUME Inv, NEW t \in Threads, NEW p \in {"begin", "plan"}, NEW i \in Created,
         items[i].kind # "delivery", Set(t, p, "item", i), UNCHANGED <<items, tables>>, CounterTypes',
         p = "plan" => i = Root, pc[t] \in {"idle", "pick"}
  PROVE  Effect(t)
<1> DEFINE l == [my[t] EXCEPT !.item = i]
<1>1. my[t] \in Locals /\ i \in ItemIds
  BY CreatedIsItem DEF Inv, TypeOK
<1>2. l \in Locals
  BY <1>1 DEF Locals
<1>3. pc' = [pc EXCEPT ![t] = p] /\ my' = [my EXCEPT ![t] = l]
  BY DEF Set, Goto
<1>4. pc'[t] = p /\ my'[t] = l
  BY <1>3 DEF Inv, TypeOK
<1>5. /\ l.item = i /\ l.claim = my[t].claim /\ l.batch = my[t].batch /\ l.parent = my[t].parent
  BY <1>1 DEF Locals
<1>6. my[t].batch = <<>> /\ ~my[t].claim
  BY DEF Inv, Hand, BatchInHand, Fresh
<1>7. Data' /\ Kept /\ Created' = Created
  BY DataKeep DEF Created
<1>8. DOMAIN l.batch = {}
  BY <1>5, <1>6
<1>9. Hand(t)'
  <2> HIDE DEF l
  <2> QED
    BY <1>4, <1>5, <1>6, <1>7, <1>8
    DEF Hand, ItemInHand, BatchInHand, NewInHand, SplitSteps, RepairSteps, ProposeSteps, MetaSteps
<1> QED
  <2> HIDE DEF l
  <2> QED
    BY <1>2, <1>3, <1>7, <1>9, HandEffect DEF Steps, CreateSteps, MetaSteps, tables

LEMMA PickEffect ==
  ASSUME Inv, NEW t \in Threads, NEW i \in ItemIds, Pick(t, i)
  PROVE  Effect(t)
<1>1. /\ pc[t] = "pick" /\ i \in Created /\ items[i].kind # "delivery" /\ UNCHANGED meta
      /\ ~my[t].claim /\ claims \subseteq Created
  <2>1. i \in Created /\ State(i) = "Ready"
    BY DEF Pick, Candidates
  <2> QED
    BY <2>1, NotBacklog DEF Pick, Inv, TypeOK, Hand, BatchInHand
<1>2. CASE ParentWaits(t, i)
  <2>1. CounterTypes'
    BY <1>2, CountersKeep DEF ParentWaits
  <2>2. Data' /\ Kept
    BY <1>1, <1>2, MovedEffect DEF ParentWaits, States
  <2> QED
    BY <1>1, <1>2, <2>1, <2>2, ReturnEffect DEF ParentWaits
<1>3. CASE SplitRequest(t, i)
  <2>1. CounterTypes'
    BY <1>3, CountersKeep DEF SplitRequest
  <2>2. i = Root
    BY <1>3 DEF SplitRequest, Splits, Depth, Inv, RowsInv
  <2>3. CASE Propose(t, i, <<{}>>, "plan_execute", FALSE)
    <3>1. <<{}>> \in Seq(SUBSET ItemIds) /\ <<{}>> # <<>>
      OBVIOUS
    <3> QED
      BY <1>1, <1>3, <2>1, <2>2, <2>3, <3>1, ProposeEffect DEF SplitRequest
  <2>4. CASE Set(t, "plan", "item", i)
    BY <1>1, <1>3, <2>1, <2>2, <2>4, TakeUpEffect DEF SplitRequest, tables
  <2> QED
    BY <1>3, <2>3, <2>4 DEF SplitRequest
<1>4. CASE StartRun(t, i)
  <2>1. CounterTypes'
    BY <1>4, CountersKeep DEF StartRun
  <2>2. CASE Return(t) /\ UNCHANGED <<items, claims>>
    BY <1>1, <2>1, <2>2, DataKeep, ReturnEffect DEF tables
  <2>3. CASE Claim(t, i)
    BY <1>1, <2>1, <2>3, ClaimEffect
  <2> QED
    BY <1>4, <2>2, <2>3 DEF StartRun
<1> QED
  BY <1>2, <1>3, <1>4 DEF Pick

LEMMA NothingToDoEffect ==
  ASSUME Inv, NEW t \in Threads, NothingToDo(t)
  PROVE  Effect(t)
<1>1. CounterTypes'
  BY CountersKeep DEF NothingToDo
<1>2. Data' /\ Kept
  BY DataKeep DEF NothingToDo
<1> QED
  BY <1>1, <1>2, ReturnEffect DEF NothingToDo, tables

LEMMA RunItselfEffect ==
  ASSUME Inv, NEW t \in Threads, my[t].item = Root, RunItself(t), UNCHANGED meta, CounterTypes'
  PROVE  Effect(t)
<1>1. Root \in Created /\ items[Root].kind # "delivery"
  BY CreatedIsItem DEF Inv, ItemsInv
<1>2. CASE Return(t) /\ UNCHANGED <<items, claims>>
  BY <1>2, DataKeep, ReturnEffect DEF tables
<1>3. CASE Claim(t, my[t].item)
  BY <1>1, <1>3, ClaimEffect
<1> QED
  BY <1>2, <1>3 DEF RunItself

\* The request is moved, or its move fails, and the thread is free.
LEMMA MoveRootEffect ==
  ASSUME Inv, NEW t \in Threads, my[t].item = Root, Return(t), UNCHANGED tables,
         NEW s \in States,
         (Moved({my[t].item}, s) /\ UNCHANGED counters) \/ (Fault /\ UNCHANGED items)
  PROVE  Effect(t)
<1>1. items[Root].kind # "delivery" /\ claims' \subseteq Created
  BY DEF Inv, ItemsInv, TypeOK, tables
<1>2. CounterTypes'
  BY CountersKeep
<1>3. Data' /\ Kept
  BY <1>1, DataKeep, MovedEffect DEF tables
<1> QED
  BY <1>2, <1>3, ReturnEffect DEF tables

LEMMA PlanStepEffect ==
  ASSUME Inv, NEW t \in Threads, PlanStep(t)
  PROVE  Effect(t)
<1>1. pc[t] \in SplitSteps /\ my[t].item = Root
  BY DEF PlanStep, CreatePlanner, PlannerMeta, PlannerMove, Inv, Hand, ItemInHand, SplitSteps
<1>2. CASE CreatePlanner(t)
  <2> DEFINE new == [id \in ItemIds |-> Plain("planner", "Ready")]
  <2>1. CASE CreateItem(t, new, "planMeta") /\ UNCHANGED claims
    <3>1. /\ new \in [ItemIds -> Item]
          /\ \A i \in ItemIds : new[i].kind = "planner"
      BY DEF Plain, Item, Kinds, States
    <3>2. pc[t] = "plan" /\ UNCHANGED meta
      BY <1>2 DEF CreatePlanner
    <3> HIDE DEF new
    <3> QED
      BY <2>1, <3>1, <3>2, CreateEffect DEF MetaStep, KindMade, CreateSteps
  <2>2. CASE Fault /\ RunItself(t)
    <3>1. CounterTypes'
      BY <2>2, CountersKeep
    <3> QED
      BY <1>1, <1>2, <2>2, <3>1, RunItselfEffect DEF CreatePlanner
  <2> QED
    BY <1>2, <2>1, <2>2 DEF CreatePlanner
<1>3. CASE PlannerMeta(t)
  <2>1. /\ Root \in Created /\ items[Root].kind # "delivery" /\ Root < my[t].new
        /\ RunMode(Root) \in Modes \cup {"plan_execute", "full_auto"}
    <3>1. Root \in Created /\ items[Root].kind # "delivery"
      BY CreatedIsItem DEF Inv, ItemsInv
    <3>2. Root < my[t].new
      BY <1>1, <1>3 DEF PlannerMeta, Inv, Hand, NewInHand, MetaSteps
    <3>3. RunMode(Root) \in Modes \cup {"plan_execute", "full_auto"}
      BY RootIsItem DEF Inv, TypeOK, RunMode, Has, Metadata
    <3> QED
      BY <3>1, <3>2, <3>3
  <2> QED
    BY <1>1, <1>3, <2>1, RowEffect DEF PlannerMeta, RoleOf, KindMade, MetaSteps
<1>4. CASE PlannerMove(t)
  BY <1>1, <1>4, MoveRootEffect DEF PlannerMove, States
<1> QED
  BY <1>2, <1>3, <1>4 DEF PlanStep

\* What a thread with a claim runs.
LEMMA RunItem ==
  ASSUME Inv, NEW t \in Threads, my[t].claim
  PROVE  /\ my[t].item \in Created /\ my[t].item \in ItemIds /\ items[my[t].item].kind # "delivery"
         /\ PlannerParent(my[t].item) \in Created
         /\ items[PlannerParent(my[t].item)].kind # "delivery"
<1>1. my[t].item \in Created /\ items[my[t].item].kind # "delivery"
  BY DEF Inv, Hand, ItemInHand
<1>2. ASSUME NEW i \in Created, items[i].kind # "delivery"
      PROVE  PlannerParent(i) \in Created /\ items[PlannerParent(i)].kind # "delivery"
  <2>0. i \in ItemIds /\ Created = 1..Len(items) /\ Len(items) \in Nat
    BY CreatedIsItem DEF Inv
  <2>1. CASE Has(i) /\ meta[i].role = "planner"
    <3>1. i # Root
      BY <2>0, <2>1 DEF Inv, ItemsInv, RowsInv, RoleOf
    <3>2. meta[i].parent \in 1..(i - 1) /\ items[meta[i].parent].kind # "delivery"
      BY <2>0, <2>1, <3>1 DEF Inv, RowsInv
    <3> QED
      BY <2>0, <2>1, <3>1, <3>2 DEF PlannerParent
  <2> QED
    BY <1>2, <2>1 DEF PlannerParent
<1> QED
  BY <1>1, <1>2, CreatedIsItem DEF Inv

LEMMA RunProposesEffect ==
  ASSUME Inv, NEW t \in Threads, RunProposes(t)
  PROVE  Effect(t)
<1>1. pc[t] = "run" /\ my[t].claim /\ my[t].mode \in Modes \cup {"plan_execute", "full_auto"}
  BY DEF RunProposes, Inv, Hand, ItemInHand, TypeOK, Locals
<1>2. PICK plan \in Plans : Propose(t, my[t].item, plan, my[t].mode, FALSE)
  BY DEF RunProposes
<1>3. plan \in Seq(SUBSET ItemIds) /\ plan # <<>>
  BY TaskGraphAssumption DEF ItemIds
<1>4. CounterTypes'
  BY CountersKeep DEF RunProposes
<1> QED
  BY <1>1, <1>2, <1>3, <1>4, RunItem, ProposeEffect DEF RunProposes, tables

LEMMA RunSucceedsEffect ==
  ASSUME Inv, NEW t \in Threads, RunSucceeds(t)
  PROVE  Effect(t)
<1>1. pc[t] = "run" /\ my[t].claim
  BY DEF RunSucceeds, Inv, Hand, ItemInHand
<1>2. Data' /\ Kept /\ CounterTypes'
  BY DataKeep, CountersKeep DEF RunSucceeds
<1> QED
  BY <1>1, <1>2, GotoEffect DEF RunSucceeds, tables

LEMMA RunBlockedEffect ==
  ASSUME Inv, NEW t \in Threads, RunBlocked(t)
  PROVE  Effect(t)
<1>1. pc[t] = "run" /\ my[t].claim /\ my[t].batch = <<>>
  BY DEF RunBlocked, Inv, Hand, ItemInHand, BatchInHand
<1>2. CASE FinishRun(t, "Needs Input", {}, "Planning") /\ UNCHANGED counters
  <2>1. CounterTypes'
    BY <1>2, CountersKeep
  <2>2. "Needs Input" \in States /\ "Planning" \in States
    BY DEF States
  <2>3. \A i \in {} \cap Created : items[i].kind # "delivery"
    OBVIOUS
  <2> QED
    BY <1>1, <1>2, <2>1, <2>2, <2>3, FinishEffect
<1>3. CASE /\ my[t].mode = "full_auto" /\ Depth(my[t].item) > 0
           /\ my[t].planner /\ Propose(t, my[t].item, FallbackPlan, "full_auto", TRUE) /\ Planned
           /\ UNCHANGED <<items, tables>>
  <2>1. FallbackPlan \in Seq(SUBSET ItemIds) /\ FallbackPlan # <<>>
    BY RootIsItem DEF FallbackPlan, Root
  <2>2. CounterTypes'
    BY <1>3, CountersKeep
  <2> QED
    BY <1>1, <1>3, <2>1, <2>2, RunItem, ProposeEffect DEF tables
<1>4. CASE /\ my[t].mode = "full_auto" /\ Depth(my[t].item) > 0
           /\ ~my[t].planner /\ MayRepair(my[t].item) /\ Goto(t, "repair") /\ UNCHANGED <<my, counters>>
           /\ UNCHANGED <<items, tables>>
  <2>1. Has(my[t].item) /\ my[t].item # Root
    BY <1>4, RootIsItem DEF MayRepair, Inv, RowsInv
  <2>2. Data' /\ Kept /\ CounterTypes'
    BY <1>4, DataKeep, CountersKeep
  <2> QED
    BY <1>1, <1>4, <2>1, <2>2, GotoEffect DEF tables
<1> QED
  BY <1>2, <1>3, <1>4 DEF RunBlocked

\* The tasks a new one depends on are tasks made before it.
LEMMA ResolvedNeedsAreMade ==
  ASSUME Inv, NEW t \in Threads, pc[t] \in ProposeSteps, Len(my[t].batch) < Len(my[t].plan),
         NEW self \in ItemIds
  PROVE  ResolvedNeeds(t, self) \subseteq ItemIds
<1> DEFINE made == Append(my[t].batch, self)
<1>1. my[t].batch \in Seq({NoParent} \cup ItemIds)
  BY DEF Inv, TypeOK, Locals
<1>2. made \in Seq({NoParent} \cup ItemIds)
  BY <1>1
<1> HIDE DEF made
<1>3. \A j \in DOMAIN made : made[j] \in {NoParent} \cup ItemIds
  BY <1>2
<1> QED
  BY <1>3 DEF ResolvedNeeds, made

LEMMA CreateTaskEffect ==
  ASSUME Inv, NEW t \in Threads, CreateTask(t)
  PROVE  Effect(t)
<1> DEFINE new == [id \in ItemIds |->
                      [kind |-> "task", state |-> ProposalState(t), depth |-> my[t].depth,
                       needs |-> ResolvedNeeds(t, id)]]
<1>1. /\ pc[t] = "propose" /\ Len(my[t].batch) < Len(my[t].plan) /\ my[t] \in Locals
      /\ UNCHANGED tables /\ Hand(t)
  BY DEF CreateTask, Proposing, Inv, TypeOK
<1>2. CASE CreateItem(t, new, "proposeMeta")
  <2>1. /\ new \in [ItemIds -> Item]
        /\ \A i \in ItemIds : new[i].kind = "task"
    <3>1. ProposalState(t) \in States /\ my[t].depth \in Nat
      BY <1>1 DEF ProposalState, States, Locals
    <3>2. \A i \in ItemIds : ResolvedNeeds(t, i) \subseteq ItemIds
      BY <1>1, ResolvedNeedsAreMade DEF ProposeSteps
    <3> QED
      BY <3>1, <3>2 DEF Item, Kinds
  <2> HIDE DEF new
  <2> QED
    BY <1>1, <1>2, <2>1, CreateEffect DEF MetaStep, KindMade, CreateSteps, tables
<1>3. CASE CreateFails /\ Set(t, "propose", "batch", Append(my[t].batch, NoParent))
  <2> DEFINE l == [my[t] EXCEPT !.batch = Append(my[t].batch, NoParent)]
  <2>1. l \in Locals
    <3>1. Append(my[t].batch, NoParent) \in Seq({NoParent} \cup ItemIds)
      BY <1>1 DEF Locals
    <3> QED
      BY <1>1, <3>1 DEF Locals
  <2>2. /\ l.item = my[t].item /\ l.claim = my[t].claim /\ l.planner = my[t].planner
        /\ l.plan = my[t].plan /\ l.parent = my[t].parent /\ l.depth = my[t].depth
        /\ l.batch = Append(my[t].batch, NoParent)
    BY <1>1 DEF Locals
  <2>3. /\ my[t].batch \in Seq({NoParent} \cup ItemIds) /\ my[t].plan \in Seq(SUBSET (1..MaxItems))
    BY <1>1 DEF Locals
  <2>4. /\ Len(l.batch) <= Len(l.plan)
        /\ \A k \in DOMAIN l.batch : l.batch[k] # NoParent =>
              k \in DOMAIN my[t].batch /\ l.batch[k] = my[t].batch[k]
    BY <1>1, <2>2, <2>3
  <2>5. pc' = [pc EXCEPT ![t] = "propose"] /\ my' = [my EXCEPT ![t] = l]
    BY <1>3 DEF Set, Goto
  <2>6. pc'[t] = "propose" /\ my'[t] = l
    BY <2>5 DEF Inv, TypeOK
  <2>7. Data' /\ Kept /\ CounterTypes' /\ UNCHANGED <<items, meta>>
    BY <1>1, <1>3, DataKeep, CountersKeep DEF CreateFails, tables
  <2>8. Hand(t)'
    <3> HIDE DEF l
    <3>1. Hand(t) /\ Created' = Created /\ \A i : Has(i)' = Has(i)
      BY <1>1, <2>7 DEF Created, Has
    <3>2. ItemInHand(t)'
      BY <1>1, <2>2, <2>6, <2>7, <3>1 DEF Hand, ItemInHand, SplitSteps, RepairSteps
    <3>3. BatchInHand(t)'
      BY <1>1, <2>2, <2>4, <2>6, <2>7, <3>1 DEF Hand, BatchInHand, RepairSteps, ProposeSteps
    <3>4. NewInHand(t)'
      BY <2>6 DEF NewInHand, MetaSteps
    <3> QED
      BY <3>2, <3>3, <3>4 DEF Hand
  <2> QED
    <3> HIDE DEF l
    <3> QED
      BY <2>1, <2>5, <2>7, <2>8, HandEffect DEF Steps, CreateSteps, MetaSteps
<1> QED
  BY <1>1, <1>2, <1>3 DEF CreateTask

LEMMA TaskMetaEffect ==
  ASSUME Inv, NEW t \in Threads, TaskMeta(t)
  PROVE  Effect(t)
<1> DEFINE n == my[t].new
           l == [my[t] EXCEPT !.batch = Append(my[t].batch, n)]
<1>1. /\ pc[t] = "proposeMeta" /\ my[t] \in Locals /\ Hand(t) /\ UNCHANGED <<items, claims, counters>>
      /\ WriteMeta(t, "worker", my[t].parent, my[t].depth, my[t].mode, ResolvedNeeds(t, n))
  BY DEF TaskMeta, Inv, TypeOK
<1>2. /\ Len(my[t].batch) < Len(my[t].plan) /\ n \in Created /\ n \in ItemIds
      /\ my[t].parent \in Created /\ items[my[t].parent].kind # "delivery" /\ my[t].parent < n
      /\ my[t].depth >= 1 /\ items[n].kind = "task" /\ ~Has(n) /\ my[t].item < n
  BY <1>1, CreatedIsItem DEF Hand, NewInHand, BatchInHand, ProposeSteps, MetaSteps, KindMade, Inv
<1>3. ResolvedNeeds(t, n) \subseteq ItemIds
  BY <1>1, <1>2, ResolvedNeedsAreMade DEF ProposeSteps
<1>4. my[t].mode \in Modes \cup {"plan_execute", "full_auto"} /\ my[t].depth \in Nat
  BY <1>1 DEF Locals
<1>5. /\ Data' /\ Kept /\ meta'[n] # NoMeta /\ meta'[n].parent = my[t].parent
      /\ \A u \in Threads \ {t} : pc[u] \in MetaSteps => meta'[my[u].new] = meta[my[u].new]
  <2>1. "worker" = RoleOf[KindMade[pc[t]]] /\ pc[t] \in MetaSteps
    BY <1>1 DEF RoleOf, KindMade, MetaSteps
  <2>2. UNCHANGED <<items, claims>>
    BY <1>1
  <2>3. WriteMeta(t, "worker", my[t].parent, my[t].depth, my[t].mode, ResolvedNeeds(t, my[t].new))
    BY <1>1
  <2>4. ResolvedNeeds(t, my[t].new) \subseteq ItemIds
    BY <1>3
  <2>5. /\ my[t].parent \in Created /\ items[my[t].parent].kind # "delivery" /\ my[t].parent < my[t].new
        /\ my[t].depth >= 1
    BY <1>2
  <2> HIDE DEF n
  <2>6. /\ Data' /\ Kept /\ meta'[my[t].new] # NoMeta /\ meta'[my[t].new].parent = my[t].parent
        /\ \A u \in Threads \ {t} : pc[u] \in MetaSteps => meta'[my[u].new] = meta[my[u].new]
    BY <1>4, <2>1, <2>2, <2>3, <2>4, <2>5, RowKeeps
  <2> QED
    BY <2>6 DEF n
<1>6. CounterTypes'
  BY <1>1, CountersKeep
<1>7. l \in Locals
  <2> HIDE DEF n
  <2>1. Append(my[t].batch, n) \in Seq({NoParent} \cup ItemIds)
    BY <1>1, <1>2 DEF Locals
  <2> QED
    BY <1>1, <2>1 DEF Locals
<1>8. /\ l.item = my[t].item /\ l.claim = my[t].claim /\ l.planner = my[t].planner
      /\ l.plan = my[t].plan /\ l.parent = my[t].parent /\ l.depth = my[t].depth
      /\ l.batch = Append(my[t].batch, n)
  BY <1>1 DEF Locals
<1>9. /\ my[t].batch \in Seq({NoParent} \cup ItemIds) /\ my[t].plan \in Seq(SUBSET (1..MaxItems))
  BY <1>1 DEF Locals
<1>10. /\ Len(l.batch) <= Len(l.plan)
       /\ \A k \in DOMAIN l.batch :
              l.batch[k] = n \/ (k \in DOMAIN my[t].batch /\ l.batch[k] = my[t].batch[k])
  BY <1>1, <1>2, <1>8, <1>9
<1>11. pc' = [pc EXCEPT ![t] = "propose"] /\ my' = [my EXCEPT ![t] = l]
  BY DEF TaskMeta, Set, Goto
<1>12. /\ pc' \in [Threads -> Steps] /\ my' \in [Threads -> Locals]
       /\ pc'[t] = "propose" /\ my'[t] = l
       /\ \A u \in Threads \ {t} : pc'[u] = pc[u] /\ my'[u] = my[u]
  <2> HIDE DEF l
  <2> QED
    BY <1>7, <1>11, ThreadMoves DEF Steps, CreateSteps
<1>13. /\ Created' = Created /\ \A i \in ItemIds : Has(i) => meta'[i] = meta[i]
       /\ \A i \in Created : i \in ItemIds
  BY <1>1, <1>5, CreatedIsItem DEF Kept, Created, Inv
<1>14. ItemInHand(t)'
  <2> HIDE DEF l, n
  <2> QED
    BY <1>1, <1>8, <1>12, <1>13 DEF Hand, ItemInHand, SplitSteps, RepairSteps
<1>15. BatchInHand(t)'
  <2>1. /\ l.claim \/ l.item = Root
        /\ \A k \in DOMAIN my[t].batch : my[t].batch[k] # NoParent =>
              /\ my[t].batch[k] \in Created /\ items[my[t].batch[k]].kind = "task"
              /\ Has(my[t].batch[k]) /\ meta[my[t].batch[k]].parent = my[t].parent
    BY <1>1, <1>8 DEF Hand, BatchInHand, ProposeSteps
  <2>2. l.plan # <<>>
    BY <1>1, <1>8 DEF Hand, BatchInHand, ProposeSteps
  <2>3. \A k \in DOMAIN l.batch : l.batch[k] # NoParent =>
              /\ l.batch[k] \in Created /\ items[l.batch[k]].kind = "task"
              /\ meta'[l.batch[k]] # NoMeta /\ meta'[l.batch[k]].parent = l.parent
    <3> HIDE DEF l, n
    <3> QED
      BY <1>2, <1>5, <1>8, <1>10, <1>13, <2>1 DEF Has
  <2> HIDE DEF l, n
  <2> QED
    BY <1>1, <1>2, <1>8, <1>10, <1>12, <1>13, <2>1, <2>2, <2>3
    DEF BatchInHand, RepairSteps, ProposeSteps, Has
<1>16. NewInHand(t)'
  BY <1>12 DEF NewInHand, MetaSteps
<1> QED
  <2> HIDE DEF l, n
  <2> QED
    BY <1>5, <1>6, <1>12, <1>14, <1>15, <1>16 DEF Effect, Hand, MetaSteps

LEMMA ProposedEffect ==
  ASSUME Inv, NEW t \in Threads, Proposed(t)
  PROVE  Effect(t)
<1>1. pc[t] = "propose" /\ UNCHANGED meta /\ (my[t].claim \/ my[t].item = Root)
  BY DEF Proposed, Inv, Hand, BatchInHand, ProposeSteps
<1>2. CASE my[t].claim /\ Goto(t, "settle") /\ UNCHANGED <<items, claims, my, counters>>
  <2>1. Data' /\ Kept /\ CounterTypes'
    BY <1>1, <1>2, DataKeep, CountersKeep DEF tables
  <2> QED
    BY <1>1, <1>2, <2>1, GotoEffect
<1>3. CASE ~my[t].claim /\ RunItself(t) /\ UNCHANGED counters
  <2>1. CounterTypes'
    BY <1>3, CountersKeep
  <2> QED
    BY <1>1, <1>3, <2>1, RunItselfEffect
<1>4. CASE /\ ~my[t].claim /\ Return(t) /\ UNCHANGED claims
           /\ (Moved({my[t].item}, "Planning") /\ UNCHANGED counters) \/ (Fault /\ UNCHANGED items)
  BY <1>1, <1>4, MoveRootEffect DEF States, tables
<1> QED
  BY <1>1, <1>2, <1>3, <1>4 DEF Proposed

\* The end of a run that moves another item at most as well.
LEMMA FinishQuietly ==
  ASSUME Inv, NEW t \in Threads, NEW s \in States, NEW p \in Created, items[p].kind # "delivery",
         my[t].claim, UNCHANGED counters,
         FinishRun(t, s, {}, "Planning") \/ FinishRun(t, s, {p}, "Planning")
  PROVE  Effect(t)
<1>1. CounterTypes'
  BY CountersKeep
<1>2. "Planning" \in States
  BY DEF States
<1>3. /\ \A i \in {} \cap Created : items[i].kind # "delivery"
      /\ \A i \in {p} \cap Created : items[i].kind # "delivery"
  OBVIOUS
<1> QED
  BY <1>1, <1>2, <1>3, FinishEffect

LEMMA SettleEffect ==
  ASSUME Inv, NEW t \in Threads, Settle(t)
  PROVE  Effect(t)
<1> DEFINE i == my[t].item
           p == PlannerParent(i)
           full == my[t].mode = "full_auto"
           tasks == ToSet(my[t].batch) \ {NoParent}
<1>1. pc[t] = "settle" /\ my[t].claim
  BY DEF Settle, Inv, Hand, ItemInHand
<1>2. p \in Created /\ items[p].kind # "delivery"
  BY <1>1, RunItem
<1>3. {"Planning", "Done", "Human Review", "Needs Input"} \subseteq States
  BY DEF States
<1>4. CASE FinishRun(t, "Planning", {}, "Planning") /\ UNCHANGED counters
  BY <1>1, <1>2, <1>3, <1>4, FinishQuietly
<1>5. CASE FinishRun(t, IF full THEN "Done" ELSE "Human Review", {p}, "Planning") /\ UNCHANGED counters
  <2>1. (IF full THEN "Done" ELSE "Human Review") \in States
    BY <1>3
  <2> QED
    BY <1>1, <1>2, <1>5, <2>1, FinishQuietly
<1>6. CASE /\ FinishRun(t, IF my[t].blocked THEN "Needs Input"
                           ELSE IF full /\ Depth(i) > 0 THEN "Done" ELSE "Human Review", {}, "Planning")
           /\ UNCHANGED counters
  <2>1. (IF my[t].blocked THEN "Needs Input"
         ELSE IF full /\ Depth(i) > 0 THEN "Done" ELSE "Human Review") \in States
    BY <1>3
  <2> QED
    BY <1>1, <1>2, <1>6, <2>1, FinishQuietly
<1>7. CASE Goto(t, "deliver") /\ UNCHANGED <<items, tables, my, counters>>
  <2>1. Data' /\ Kept /\ CounterTypes'
    BY <1>7, DataKeep, CountersKeep
  <2> QED
    BY <1>7, <2>1, GotoEffect DEF tables
<1>8. CASE RunRaises(t, IF tasks = {} THEN {} ELSE {p})
  <2>1. \A j \in (IF tasks = {} THEN {} ELSE {p}) \cap Created : items[j].kind # "delivery"
    BY <1>2
  <2> QED
    BY <1>1, <1>8, <2>1, RaisesEffect
<1> QED
  BY <1>4, <1>5, <1>6, <1>7, <1>8 DEF Settle

LEMMA NoneRaised ==
  ASSUME Inv, NEW t \in Threads, RunRaises(t, {}), my[t].claim
  PROVE  Effect(t)
<1>1. \A i \in {} \cap Created : items[i].kind # "delivery"
  OBVIOUS
<1> QED
  BY <1>1, RaisesEffect

\* A task that is to be repaired has a row, and so a parent.
LEMMA RepairItem ==
  ASSUME Inv, NEW t \in Threads, pc[t] \in RepairSteps
  PROVE  /\ my[t].claim /\ my[t].item \in ItemIds
         /\ meta[my[t].item] \in Metadata
         /\ meta[my[t].item].parent \in Created
         /\ meta[my[t].item].parent < my[t].item
         /\ items[meta[my[t].item].parent].kind # "delivery"
<1>1. /\ my[t].claim /\ Has(my[t].item) /\ my[t].item # Root
      /\ my[t].item \in Created
  BY DEF Inv, Hand, ItemInHand
<1>2. my[t].item \in ItemIds /\ Created = 1..Len(items) /\ Len(items) \in Nat
  BY <1>1, CreatedIsItem DEF Inv
<1>3. meta[my[t].item] \in Metadata
  BY <1>1, <1>2 DEF Inv, TypeOK, Has
<1>4. /\ meta[my[t].item].parent \in 1..(my[t].item - 1)
      /\ items[meta[my[t].item].parent].kind # "delivery"
  BY <1>1, <1>2 DEF Inv, RowsInv
<1> QED
  BY <1>1, <1>2, <1>3, <1>4

LEMMA RepairEffect ==
  ASSUME Inv, NEW t \in Threads, CreateRepair(t) \/ RepairMeta(t) \/ RepairMove(t)
  PROVE  Effect(t)
<1>1. pc[t] \in RepairSteps
  BY DEF CreateRepair, RepairMeta, RepairMove, RepairSteps
<1>2. /\ my[t].claim /\ my[t].item \in ItemIds
      /\ meta[my[t].item] \in Metadata
      /\ meta[my[t].item].parent \in Created
      /\ meta[my[t].item].parent < my[t].item
      /\ items[meta[my[t].item].parent].kind # "delivery"
  BY <1>1, RepairItem
<1>3. CASE CreateRepair(t)
  <2> DEFINE new == [id \in ItemIds |-> Plain("repair", "Ready")]
  <2>1. CASE CreateItem(t, new, "repairMeta") /\ UNCHANGED tables
    <3>1. /\ new \in [ItemIds -> Item]
          /\ \A i \in ItemIds : new[i].kind = "repair"
      BY DEF Plain, Item, Kinds, States
    <3>2. pc[t] = "repair"
      BY <1>3 DEF CreateRepair
    <3> HIDE DEF new
    <3> QED
      BY <2>1, <3>1, <3>2, CreateEffect DEF MetaStep, KindMade, CreateSteps, tables
  <2>2. CASE RunRaises(t, {})
    BY <1>2, <2>2, NoneRaised
  <2> QED
    BY <1>3, <2>1, <2>2 DEF CreateRepair
<1>4. CASE RepairMeta(t)
  <2>1. /\ pc[t] = "repairMeta" /\ Goto(t, "repairMove") /\ UNCHANGED <<items, claims, my, counters>>
        /\ WriteMeta(t, "worker", meta[my[t].item].parent, meta[my[t].item].depth + 1, "full_auto", {})
    BY <1>4 DEF RepairMeta
  <2>2. /\ my[t].item < my[t].new /\ my[t].new \in ItemIds
    BY <2>1, CreatedIsItem DEF Inv, Hand, NewInHand, MetaSteps
  <2>3. meta[my[t].item].parent < my[t].new
    BY <1>2, <2>2, CreatedIsItem DEF Inv, ItemIds
  <2>4. meta[my[t].item].depth + 1 \in Nat /\ meta[my[t].item].depth + 1 >= 1
    BY <1>2 DEF Metadata
  <2>5. pc[t] \in MetaSteps \ {"proposeMeta"} /\ "worker" = RoleOf[KindMade[pc[t]]]
        /\ "repairMove" = [deliverMeta |-> "closeRoot", planMeta |-> "planMove",
                           repairMeta |-> "repairMove"][pc[t]]
    BY <2>1 DEF MetaSteps, RoleOf, KindMade
  <2> QED
    BY <1>2, <2>1, <2>3, <2>4, <2>5, RowEffect
<1>5. CASE RepairMove(t)
  <2>1. CASE FinishRun(t, "Done", {meta[my[t].item].parent}, "Planning") /\ UNCHANGED counters
    <3>1. "Done" \in States
      BY DEF States
    <3> QED
      BY <1>2, <2>1, <3>1, FinishQuietly
  <2>2. CASE RunRaises(t, {})
    BY <1>2, <2>2, NoneRaised
  <2> QED
    BY <1>5, <2>1, <2>2 DEF RepairMove
<1> QED
  BY <1>3, <1>4, <1>5

LEMMA ThreadStepEffect ==
  ASSUME Inv, NEW t \in Threads, ThreadStep(t)
  PROVE  Effect(t)
<1>1. CASE BeforeDispatch(t)
  BY <1>1, BeginRunOnceEffect, DeliverEffect, DeliverMetaEffect, CloseRootEffect DEF BeforeDispatch
<1>2. CASE PlanStep(t) \/ NothingToDo(t)
  BY <1>2, PlanStepEffect, NothingToDoEffect
<1>3. CASE RunStep(t)
  BY <1>3, RunProposesEffect, RunSucceedsEffect, RunBlockedEffect, CreateTaskEffect,
     TaskMetaEffect, ProposedEffect, SettleEffect, RepairEffect DEF RunStep
<1>4. CASE \E i \in ItemIds : Pick(t, i)
  BY <1>4, PickEffect
<1> QED
  BY <1>1, <1>2, <1>3, <1>4 DEF ThreadStep

-----------------------------------------------------------------------------
(* The other steps *)

LEMMA DaemonIsThread == Daemon \in Threads /\ Requests \subseteq Threads
BY DEF Threads

LEMMA ReconcileEffect ==
  ASSUME Inv, Reconcile
  PROVE  Effect(Daemon)
<1> DEFINE S == {p \in Created : /\ State(p) = "Planning" /\ ~FullAuto(p)
                                 /\ Children(p) # {} /\ Succeeded(Children(p))}
<1>1. /\ pc[Daemon] = "idle" /\ Moved(S, "Human Review") /\ Goto(Daemon, "begin")
      /\ UNCHANGED <<tables, my, counters>>
  BY DEF Reconcile
<1>2. \A i \in S \cap Created : items[i].kind # "delivery"
  BY NotBacklog
<1>3. claims' \subseteq Created
  BY <1>1 DEF Inv, TypeOK, tables
<1> HIDE DEF S
<1>4. Data' /\ Kept /\ CounterTypes'
  BY <1>1, <1>2, <1>3, MovedEffect, CountersKeep DEF States, tables
<1>5. my[Daemon].batch = <<>> /\ ~my[Daemon].claim
  <2>1. my[Daemon] = Fresh
    BY <1>1, DaemonIsThread DEF Inv, Hand, BatchInHand
  <2> QED
    BY <2>1 DEF Fresh
<1> QED
  BY <1>1, <1>4, <1>5, DaemonIsThread, GotoEffect DEF tables

LEMMA RequestEffect ==
  ASSUME Inv, NEW t \in Requests, NEW i \in ItemIds, Request(t, i)
  PROVE  Effect(t)
<1>1. i \in Created /\ items[i].kind # "delivery" /\ t \in Threads
  BY NotBacklog, DaemonIsThread DEF Request
<1>2. CounterTypes'
  <2>1. /\ planned \in 0..MaxPlans /\ moved \in 0..MaxMoves
        /\ asked \in Nat /\ faults \in Nat /\ crashes \in Nat /\ MaxDisturbances \in Nat
        /\ asked + faults + crashes < MaxDisturbances
    BY TaskGraphAssumption DEF Inv, TypeOK, Request, MayDisturb, Disturbances
  <2>2. /\ asked' = asked + 1 /\ UNCHANGED <<planned, moved, faults, crashes>>
    BY DEF Request
  <2>3. /\ asked' \in 0..MaxDisturbances /\ faults' \in 0..MaxDisturbances
        /\ crashes' \in 0..MaxDisturbances /\ asked' + faults' + crashes' <= MaxDisturbances
    BY <2>1, <2>2
  <2> QED
    BY <2>1, <2>2, <2>3 DEF CounterTypes, Disturbances
<1> QED
  BY <1>1, <1>2, TakeUpEffect DEF Request

\* Steps that no thread takes.
LEMMA NobodyEffect ==
  ASSUME Inv, Data', Kept, UNCHANGED <<meta, threads>>, CounterTypes'
  PROVE  Inv'
<1>1. pc \in [Threads -> Steps] /\ my \in [Threads -> Locals] /\ UNCHANGED <<pc, my>>
  BY DEF Inv, TypeOK, threads
<1>2. TypeOK'
  BY <1>1 DEF Data, DataTypes, CounterTypes, TypeOK
<1>3. \A t \in Threads : Hand(t)'
  BY <1>1, HandKept
<1> QED
  BY <1>1, <1>2, <1>3 DEF Inv, Data, NewApart

LEMMA ReleaseClaimKeeps ==
  ASSUME Inv, NEW i \in ItemIds, ReleaseClaim(i)
  PROVE  Inv'
<1>1. /\ UNCHANGED <<meta, threads, counters>> /\ claims' \subseteq claims /\ claims \subseteq Created
      /\ i \in claims
  BY DEF ReleaseClaim, Inv, TypeOK
<1>2. CounterTypes'
  BY <1>1, CountersKeep
<1>3. CASE State(i) = "Running" /\ Moved({i}, "Needs Input")
  <2>1. items[i].kind # "delivery"
    BY <1>1, <1>3, NotBacklog
  <2>2. claims' \subseteq Created
    BY <1>1
  <2>3. Data' /\ Kept
    BY <1>1, <1>3, <2>1, <2>2, MovedEffect DEF States
  <2> QED
    BY <1>1, <1>2, <2>3, NobodyEffect
<1>4. CASE UNCHANGED items
  <2>1. StatesOnly /\ claims' \subseteq Created /\ \A j \in Created : State(j)' = State(j)
    BY <1>1, <1>4 DEF StatesOnly, Created, State, Inv, TypeOK
  <2>2. Data' /\ Kept
    BY <1>1, <2>1, MovesKeep
  <2> QED
    BY <1>1, <1>2, <2>2, NobodyEffect
<1> QED
  BY <1>3, <1>4 DEF ReleaseClaim

LEMMA HumanMovesKeeps ==
  ASSUME Inv, NEW i \in ItemIds, HumanMoves(i)
  PROVE  Inv'
<1>1. /\ i \in Created /\ items[i].kind # "delivery"
      /\ UNCHANGED <<meta, claims, threads>> /\ claims' \subseteq Created
      /\ \E s \in {"Ready", "Human Review"} : Moved({i}, s)
  BY DEF HumanMoves, Inv, TypeOK, tables
<1>2. CounterTypes'
  <2>1. /\ moved \in 0..MaxMoves /\ moved < MaxMoves /\ moved' = moved + 1 /\ MaxMoves \in Nat
        /\ UNCHANGED <<planned, asked, faults, crashes>>
    BY TaskGraphAssumption DEF HumanMoves, Inv, TypeOK
  <2>2. moved' \in 0..MaxMoves
    BY <2>1
  <2> QED
    BY <2>1, <2>2 DEF CounterTypes, Inv, TypeOK, Disturbances
<1>3. Data' /\ Kept
  BY <1>1, MovedEffect DEF States
<1> QED
  BY <1>1, <1>2, <1>3, NobodyEffect

LEMMA CrashKeeps ==
  ASSUME Inv, Crash
  PROVE  Inv'
<1>1. /\ UNCHANGED <<items, tables>>
      /\ pc' = [t \in Threads |-> "idle"] /\ my' = [t \in Threads |-> Fresh]
  BY DEF Crash
<1>2. CounterTypes'
  <2>1. /\ planned \in 0..MaxPlans /\ moved \in 0..MaxMoves
        /\ asked \in Nat /\ faults \in Nat /\ crashes \in Nat /\ MaxDisturbances \in Nat
        /\ asked + faults + crashes < MaxDisturbances
    BY TaskGraphAssumption DEF Inv, TypeOK, Crash, MayDisturb, Disturbances
  <2>2. /\ crashes' = crashes + 1 /\ UNCHANGED <<planned, moved, asked, faults>>
    BY DEF Crash
  <2>3. /\ asked' \in 0..MaxDisturbances /\ faults' \in 0..MaxDisturbances
        /\ crashes' \in 0..MaxDisturbances /\ asked' + faults' + crashes' <= MaxDisturbances
    BY <2>1, <2>2
  <2> QED
    BY <2>1, <2>2, <2>3 DEF CounterTypes, Disturbances
<1>3. Data'
  BY <1>1, DataKeep
<1>4. pc' \in [Threads -> Steps] /\ my' \in [Threads -> Locals]
  BY <1>1, FreshIsLocal DEF Steps
<1>5. TypeOK'
  BY <1>2, <1>3, <1>4 DEF TypeOK, Data, DataTypes, CounterTypes
<1>6. \A t \in Threads : pc'[t] = "idle" /\ my'[t] = Fresh
  BY <1>1
<1>7. \A t \in Threads : Hand(t)'
  <2>1. Fresh.item = NoParent /\ ~Fresh.claim /\ Fresh.batch = <<>> /\ DOMAIN Fresh.batch = {}
    BY DEF Fresh
  <2> QED
    BY <1>6, <2>1 DEF Hand, ItemInHand, BatchInHand, NewInHand, SplitSteps, RepairSteps,
                      ProposeSteps, MetaSteps
<1>8. NewApart'
  BY <1>6 DEF NewApart, MetaSteps
<1> QED
  BY <1>3, <1>5, <1>7, <1>8 DEF Inv, Data

LEMMA InitInv == Init => Inv
<1> SUFFICES ASSUME Init PROVE Inv
  OBVIOUS
<1>1. PICK mode \in Modes :
          meta = [i \in ItemIds |-> IF i = Root
                     THEN [role |-> "request", parent |-> NoParent, depth |-> 0,
                           repair |-> FALSE, mode |-> mode, deps |-> {}]
                     ELSE NoMeta]
  BY DEF Init
<1>2. /\ items = <<Plain("root", "Ready")>> /\ claims = {}
      /\ pc = [t \in Threads |-> "idle"] /\ my = [t \in Threads |-> Fresh]
      /\ planned = 0 /\ moved = 0 /\ asked = 0 /\ faults = 0 /\ crashes = 0
  BY DEF Init
<1>3. Plain("root", "Ready") \in Item /\ Plain("root", "Ready").kind = "root"
  BY DEF Plain, Item, Kinds, States
<1>4. /\ items \in Seq(Item) /\ Len(items) = 1 /\ Created = {Root} /\ items[Root].kind = "root"
  <2> HIDE DEF Plain
  <2> QED
    BY <1>2, <1>3 DEF Created, Root
<1>5. Has(Root) /\ \A i \in ItemIds \ {Root} : ~Has(i)
  BY <1>1, RootIsItem DEF Has, NoMeta
<1>6. meta \in [ItemIds -> Metadata \cup {NoMeta}]
  BY <1>1 DEF Metadata, Roles, ItemIds
<1>7. CounterTypes
  BY <1>2, TaskGraphAssumption DEF CounterTypes, Disturbances
<1>8. TypeOK
  BY <1>2, <1>4, <1>6, <1>7, FreshIsLocal, TaskGraphAssumption DEF TypeOK, CounterTypes, Steps
<1>9. ItemsInv
  BY <1>4 DEF ItemsInv
<1>10. RowsInv
  BY <1>1, <1>4, <1>5, RootIsItem DEF RowsInv, RoleOf
<1>11. \A t \in Threads : Hand(t)
  BY <1>2 DEF Hand, ItemInHand, BatchInHand, NewInHand, Fresh, SplitSteps, RepairSteps,
              ProposeSteps, MetaSteps
<1>12. NewApart
  BY <1>2 DEF NewApart, MetaSteps
<1> QED
  BY <1>8, <1>9, <1>10, <1>11, <1>12 DEF Inv

LEMMA NextInv == Inv /\ [Next]_vars => Inv'
<1> SUFFICES ASSUME Inv, [Next]_vars PROVE Inv'
  OBVIOUS
<1>1. CASE Reconcile
  BY <1>1, ReconcileEffect, EffectKeepsInv, DaemonIsThread
<1>2. CASE \E i \in ItemIds : ReleaseClaim(i) \/ HumanMoves(i)
  BY <1>2, ReleaseClaimKeeps, HumanMovesKeeps
<1>3. CASE \E t \in Threads : ThreadStep(t)
  BY <1>3, ThreadStepEffect, EffectKeepsInv
<1>4. CASE \E t \in Requests, i \in ItemIds : Request(t, i)
  BY <1>4, RequestEffect, EffectKeepsInv, DaemonIsThread
<1>5. CASE Crash
  BY <1>5, CrashKeeps
<1>6. CASE UNCHANGED vars
  <2>1. UNCHANGED <<items, meta, claims, threads, counters>>
    BY <1>6 DEF vars, tables
  <2>2. Data' /\ Kept /\ CounterTypes'
    BY <2>1, DataKeep, CountersKeep DEF tables
  <2> QED
    BY <2>1, <2>2, NobodyEffect
<1> QED
  BY <1>1, <1>2, <1>3, <1>4, <1>5, <1>6 DEF Next

LEMMA InvHolds == Spec => []Inv
BY InitInv, NextInv, PTL DEF Spec

-----------------------------------------------------------------------------
(* Theorems *)

\* The items, the rows of task_metadata and what each thread of the daemon and the
\* local API holds are what the code takes them for, through crashes and failing
\* calls.
THEOREM TypeCorrect == Spec => []TypeOK
<1>1. Inv => TypeOK
  BY DEF Inv
<1> QED
  BY InvHolds, <1>1, PTL

=============================================================================
