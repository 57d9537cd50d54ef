------------------------------ MODULE TaskGraph ------------------------------
(***************************************************************************)
(* How a request is split into tasks (orchestrator.py, and                 *)
(* reconcile_completed_parents in daemon.py).                              *)
(*                                                                         *)
(* A request gets a planner task, whose run proposes tasks that may depend *)
(* on one another.  Each task is two writes: an item in the tracker, which *)
(* is up for dispatch at once, then its row in task_metadata, with parent, *)
(* depth and dependencies.  A task may propose follow-ups; under full auto *)
(* a task that is blocked is replaced by a repair task, and the request    *)
(* ends in a delivery task.                                                *)
(*                                                                         *)
(* One request, worked on by the daemon's thread and handler threads of    *)
(* the local API.  The claim is taken with the move to Running in one      *)
(* step: module Dispatch takes them apart.  Not covered: disabled roles,   *)
(* suggested states, cancellation.                                         *)
(***************************************************************************)
EXTENDS Naturals, Sequences, FiniteSets, SequencesExt

CONSTANTS
    Daemon,        \* the daemon's thread
    Requests,      \* handler threads of the local API that run an item
    Modes,         \* workflow modes the request may be in
    Plans,         \* what a run may propose: for each task, the tasks it depends on
    MaxChildTasks, \* max_child_tasks_per_run
    MaxDepth,      \* max_depth
    RepairLimit,   \* repair tasks a parent may have
    MaxItems,      \* bound: items
    MaxPlans,      \* bound: runs that propose tasks
    MaxMoves,      \* bound: moves by people
    MaxDisturbances \* bound: API requests, failing tracker calls and crashes together

ASSUME TaskGraphAssumption ==
    /\ Daemon \notin Requests
    /\ Modes \subseteq {"plan_only", "plan_execute", "full_auto", "execute_only"}
    /\ Plans \subseteq Seq(SUBSET (1..MaxItems)) /\ <<>> \notin Plans
    /\ {MaxChildTasks, MaxItems} \subseteq Nat \ {0}
    /\ {MaxDepth, RepairLimit, MaxPlans, MaxMoves, MaxDisturbances} \subseteq Nat

VARIABLES
    items,    \* tracker: the items in the order they were made
    meta,     \* table task_metadata
    claims,   \* table claims: the active rows
    pc,       \* what each thread does next
    my,       \* the local variables of each thread
    planned, moved, asked, faults, crashes   \* counters for the bounds

tables   == <<meta, claims>>
threads  == <<pc, my>>
counters == <<planned, moved, asked, faults, crashes>>
vars     == <<items, tables, threads, counters>>

-----------------------------------------------------------------------------
Threads == {Daemon} \cup Requests
ItemIds == 1..MaxItems
Root    == 1
Created == DOMAIN items

Kinds  == {"root", "planner", "task", "repair", "delivery"}
States == {"Backlog", "Ready", "Running", "Planning", "Human Review", "Done", "Needs Input"}
SuccessStates == {"Human Review", "Done"}

\* What the tracker keeps of an item: its labels tell its kind, and its
\* description the depth of a proposed task.  "needs" is what its creator will
\* record as its dependencies.
Item == [kind : Kinds, state : States, depth : Nat, needs : SUBSET ItemIds]

Roles == {"request", "planner", "worker", "delivery_manager"}
NoParent == 0
Metadata == [role : Roles, parent : {NoParent} \cup ItemIds, depth : Nat, repair : BOOLEAN,
             mode : Modes \cup {"plan_execute", "full_auto"}, deps : SUBSET ItemIds]
NoMeta == [role |-> "none"]

State(i) == items[i].state
Has(i)   == meta[i] # NoMeta

Children(p) == {i \in ItemIds : Has(i) /\ meta[i].parent = p}
OnlyDone(S) == \A i \in S : State(i) = "Done"   \* mutant
Succeeded(S) == \A i \in S : State(i) \in SuccessStates
TaskChildren(p) == {i \in Children(p) : meta[i].role # "delivery_manager"}
FullAuto(p) == p = Root /\ meta[Root].mode = "full_auto"

\* _task_depth, and the role a run is given: from the metadata, or else from
\* the description and the labels.
Depth(i)  == IF Has(i) THEN meta[i].depth ELSE items[i].depth
Planner(i) == IF Has(i) THEN meta[i].role = "planner" ELSE items[i].kind = "planner"

\* The mode a run's proposals are made under: the parent's, or the project's
\* own, plan_execute, for an item without metadata.
RunMode(i) == IF Has(i) THEN meta[i].mode ELSE "plan_execute"

\* _planner_parent_id(item) or item.id.
PlannerParent(i) == IF Has(i) /\ meta[i].role = "planner" THEN meta[i].parent ELSE i

\* mutant: a dependency blocks only while it may still run
BlockedWhileActive(i) == Has(i) /\ \E d \in meta[i].deps : State(d) \in {"Ready", "Running", "Planning"}

\* _dependency_blocked: without metadata there is nothing to wait for.
DependencyBlocked(i) == Has(i) /\ ~Succeeded(meta[i].deps)

\* mutant: one repair too many
MayRepairOnceMore(i) ==
    /\ Has(i) /\ meta[i].parent # NoParent /\ meta[i].depth < MaxDepth
    /\ Cardinality({c \in Children(meta[i].parent) : meta[c].repair}) <= RepairLimit

\* The conditions of _create_repair_task.
MayRepair(i) ==
    /\ Has(i) /\ meta[i].parent # NoParent /\ meta[i].depth < MaxDepth
    /\ Cardinality({c \in Children(meta[i].parent) : meta[c].repair}) < RepairLimit

-----------------------------------------------------------------------------
\* The item in hand, the tasks its run proposes, those made so far (NoParent for
\* one that failed), and the item just made; of its run, whether it holds the claim,
\* its role and mode as read before the claim, the parent and depth of what it
\* proposes, and whether that stands in for a planner that was blocked.
Locals == [item : {NoParent} \cup ItemIds, plan : Seq(SUBSET (1..MaxItems)),
           batch : Seq({NoParent} \cup ItemIds), new : {NoParent} \cup ItemIds,
           claim : BOOLEAN, planner : BOOLEAN, mode : Modes \cup {"plan_execute", "full_auto"},
           parent : {NoParent} \cup ItemIds, depth : Nat, blocked : BOOLEAN]
Fresh  == [item |-> NoParent, plan |-> <<>>, batch |-> <<>>, new |-> NoParent,
           claim |-> FALSE, planner |-> FALSE, mode |-> "plan_execute",
           parent |-> NoParent, depth |-> 0, blocked |-> FALSE]

CreateSteps == {"deliver", "plan", "propose", "repair"}
MetaSteps   == {"deliverMeta", "planMeta", "proposeMeta", "repairMeta"}
Steps == {"idle", "begin", "closeRoot", "pick", "planMove", "run", "settle", "repairMove"}
            \cup CreateSteps \cup MetaSteps

Goto(t, step) == pc' = [pc EXCEPT ![t] = step]
Set(t, step, f, v) == Goto(t, step) /\ my' = [my EXCEPT ![t][f] = v]
Return(t) == Goto(t, "idle") /\ my' = [my EXCEPT ![t] = Fresh]

\* A failing call, a crash and a request of the API disturb the daemon's work.
Disturbances == asked + faults + crashes
Disturbed == Disturbances > 0
MayDisturb == Disturbances < MaxDisturbances

Planned == planned < MaxPlans /\ planned' = planned + 1 /\ UNCHANGED <<moved, asked, faults, crashes>>
Fault == MayDisturb /\ faults' = faults + 1 /\ UNCHANGED <<planned, moved, asked, crashes>>
Moved(S, s) == items' = [i \in Created |-> IF i \in S THEN [items[i] EXCEPT !.state = s] ELSE items[i]]

Plain(kind, state) == [kind |-> kind, state |-> state, depth |-> 0, needs |-> {}]

Init ==
    /\ items = <<Plain("root", "Ready")>>
    /\ \E mode \in Modes :
           meta = [i \in ItemIds |-> IF i = Root
                      THEN [role |-> "request", parent |-> NoParent, depth |-> 0,
                            repair |-> FALSE, mode |-> mode, deps |-> {}]
                      ELSE NoMeta]
    /\ claims = {}
    /\ pc = [t \in Threads |-> "idle"] /\ my = [t \in Threads |-> Fresh]
    /\ planned = 0 /\ moved = 0 /\ asked = 0 /\ faults = 0 /\ crashes = 0

-----------------------------------------------------------------------------
(* The calls a thread makes on the tracker and on the tables *)

\* create_work_item, where new[n] is the item if its number is n: answered; or the
\* answer is lost, the POST repeated and the item made twice.
CreateItem(t, new, then) ==
    LET n == Len(items) IN
    \/ /\ n < MaxItems /\ UNCHANGED counters
       /\ items' = Append(items, new[n + 1])
       /\ Set(t, then, "new", n + 1)
    \/ /\ n + 1 < MaxItems /\ Fault
       /\ items' = items \o <<new[n + 1], new[n + 2]>>
       /\ Set(t, then, "new", n + 2)

CreateFails == Fault /\ UNCHANGED items

\* upsert_task_metadata for the item just made.
WriteMeta(t, role, parent, depth, mode, deps) ==
    meta' = [meta EXCEPT ![my[t].new] =
                [role |-> role, parent |-> parent, depth |-> depth,
                 repair |-> role = "worker" /\ items[my[t].new].kind = "repair",
                 mode |-> mode, deps |-> deps]]

\* The item of a run is moved and its claim finished; whatever else S is moved too.
FinishRun(t, s, S, s2) ==
    /\ items' = [i \in Created |->
                    [items[i] EXCEPT !.state = IF i = my[t].item THEN s
                                               ELSE IF i \in S THEN s2 ELSE @]]
    /\ claims' = claims \ {my[t].item}
    /\ Return(t)
    /\ UNCHANGED meta

\* The except branch of run_once: Needs Input.  Of the moves that come before the
\* item's own, those of S, all or none were made.
RunRaises(t, S) == Fault /\ \E done \in {{}, S} : FinishRun(t, "Needs Input", done, "Planning")

Truncated(plan) == SubSeq(plan, 1, IF Len(plan) < MaxChildTasks THEN Len(plan) ELSE MaxChildTasks)

\* _create_full_auto_fallback_tasks: two reviews that depend on an implementation.
FallbackPlan == <<{}, {1}, {1}>>

\* _create_proposed_tasks: its parent is read once, before the first task.
Propose(t, i, plan, mode, blocked) ==
    /\ Goto(t, "propose")
    /\ my' = [my EXCEPT ![t] = [@ EXCEPT
                  !.item = i, !.plan = Truncated(plan), !.mode = mode, !.blocked = blocked,
                  !.parent = PlannerParent(i),
                  !.depth = IF PlannerParent(i) # i THEN Depth(i) ELSE Depth(i) + 1]]

-----------------------------------------------------------------------------
(* Before dispatch *)

\* release_stale_claims, for a claim whose thread is gone.
ReleaseClaim(i) ==
    /\ pc[Daemon] = "idle"
    /\ i \in claims /\ ~\E t \in Threads : my[t].claim /\ my[t].item = i
    /\ claims' = claims \ {i}
    /\ IF State(i) = "Running" THEN Moved({i}, "Needs Input") ELSE UNCHANGED items
    /\ UNCHANGED <<meta, threads, counters>>

\* reconcile_completed_parents, once per tick.
Reconcile ==
    /\ pc[Daemon] = "idle"
    /\ Moved({p \in Created : /\ State(p) = "Planning" /\ ~FullAuto(p)
                              /\ Children(p) # {} /\ Succeeded(Children(p))}, "Human Review")
    /\ Goto(Daemon, "begin")
    /\ UNCHANGED <<tables, my, counters>>

Request(t, i) ==
    /\ t \in Requests /\ pc[t] = "idle"
    /\ MayDisturb /\ asked' = asked + 1
    /\ i \in Created /\ State(i) = "Ready"
    /\ Set(t, "begin", "item", i)
    /\ UNCHANGED <<items, tables, planned, moved, faults, crashes>>

\* mutants: a closed parent is completed again; a parent without tasks is
CompletesAgain(state) ==
    /\ FullAuto(Root) /\ TaskChildren(Root) # {}
    /\ \A i \in TaskChildren(Root) : state[i] \in SuccessStates
CompletesChildless(state) ==
    /\ FullAuto(Root) /\ state[Root] # "Done"
    /\ \A i \in TaskChildren(Root) : state[i] \in SuccessStates

\* The parent _complete_ready_full_auto_parent completes, if any: nothing keeps
\* two threads from seeing the same.
Completes(state) ==
    /\ FullAuto(Root) /\ state[Root] # "Done"
    /\ TaskChildren(Root) # {}
    /\ \A i \in TaskChildren(Root) : state[i] \in SuccessStates

\* run_once begins: children of a full-auto request that are in Human Review are
\* accepted (_normalize_full_auto_child_review_states), then it may be completed.
BeginRunOnce(t) ==
    /\ pc[t] = "begin"
    /\ Moved({i \in TaskChildren(Root) : FullAuto(Root) /\ State(i) = "Human Review"}, "Done")
    /\ Goto(t, IF Completes([i \in Created |-> items[i].state]) THEN "deliver" ELSE "pick")
    /\ UNCHANGED <<tables, my, counters>>

\* _create_delivery_task: a failure is swallowed.
Deliver(t) ==
    /\ pc[t] = "deliver"
    /\ LET new == [id \in ItemIds |-> Plain("delivery", "Backlog")] IN
       \/ CreateItem(t, new, "deliverMeta")
       \/ CreateFails /\ Goto(t, "closeRoot") /\ UNCHANGED my
    /\ UNCHANGED tables

DeliverMeta(t) ==
    /\ pc[t] = "deliverMeta"
    /\ WriteMeta(t, "delivery_manager", Root, 1, "full_auto", {Root})
    /\ Goto(t, "closeRoot")
    /\ UNCHANGED <<items, claims, my, counters>>

\* The parent is moved to Done, as the end of its own run or without one.
CloseRoot(t) ==
    /\ pc[t] = "closeRoot"
    /\ IF my[t].claim
       THEN (FinishRun(t, "Done", {}, "Done") /\ UNCHANGED counters) \/ RunRaises(t, {})
       ELSE /\ Return(t)
            /\ (Moved({Root}, "Done") /\ UNCHANGED counters) \/ (Fault /\ UNCHANGED items)
            /\ UNCHANGED tables

BeforeDispatch(t) ==
    BeginRunOnce(t) \/ Deliver(t) \/ DeliverMeta(t) \/ CloseRoot(t)

-----------------------------------------------------------------------------
(* Dispatch *)

\* The daemon looks at every item, a request at its own.
Candidates(t) == {i \in Created : /\ State(i) = "Ready" /\ ~DependencyBlocked(i)
                                  /\ t = Daemon \/ i = my[t].item}

NothingToDo(t) ==
    /\ pc[t] = "pick" /\ Candidates(t) = {}
    /\ Return(t)
    /\ UNCHANGED <<items, tables, counters>>

\* A parent waits for its children.
ParentWaits(t, i) ==
    /\ Depth(i) = 0 /\ Children(i) # {}
    /\ Moved({i}, "Planning")
    /\ Return(t)
    /\ UNCHANGED <<claims, counters>>

\* A request without children gets a planner, or in execute_only one worker.
Splits(i) == Depth(i) = 0 /\ Children(i) = {} /\ Has(i)
SplitRequest(t, i) ==
    /\ Splits(i)
    /\ IF RunMode(i) = "execute_only"
       THEN Propose(t, i, <<{}>>, "plan_execute", FALSE)
       ELSE Set(t, "plan", "item", i)
    /\ UNCHANGED <<items, claims, counters>>

Claim(t, i) ==
    /\ Moved({i}, "Running")
    /\ claims' = claims \cup {i}
    /\ Goto(t, "run")
    /\ my' = [my EXCEPT ![t] = [Fresh EXCEPT !.item = i, !.claim = TRUE,
                                              !.planner = Planner(i), !.mode = RunMode(i)]]

\* try_claim_item and the move to Running.  If another thread holds the claim
\* the item is left to it.
StartRun(t, i) ==
    /\ ~Splits(i) /\ (Depth(i) > 0 \/ Children(i) = {})
    /\ IF i \in claims
       THEN Return(t) /\ UNCHANGED <<items, claims>>
       ELSE Claim(t, i)
    /\ UNCHANGED counters

Pick(t, i) ==
    /\ pc[t] = "pick" /\ i \in Candidates(t)
    /\ ParentWaits(t, i) \/ SplitRequest(t, i) \/ StartRun(t, i)
    /\ UNCHANGED meta

-----------------------------------------------------------------------------
(* The planner task: no claim is taken on the request *)

\* When the planner cannot be created the request is run itself.
RunItself(t) ==
    IF my[t].item \in claims
    THEN Return(t) /\ UNCHANGED <<items, claims>>
    ELSE Claim(t, my[t].item)

CreatePlanner(t) ==
    /\ pc[t] = "plan"
    /\ LET new == [id \in ItemIds |-> Plain("planner", "Ready")] IN
       \/ CreateItem(t, new, "planMeta") /\ UNCHANGED claims
       \/ Fault /\ RunItself(t)
    /\ UNCHANGED meta

PlannerMeta(t) ==
    /\ pc[t] = "planMeta"
    /\ WriteMeta(t, "planner", my[t].item, 1, RunMode(my[t].item), {})
    /\ Goto(t, "planMove")
    /\ UNCHANGED <<items, claims, my, counters>>

\* The request waits for its planner.
PlannerMove(t) ==
    /\ pc[t] = "planMove"
    /\ (Moved({my[t].item}, "Planning") /\ UNCHANGED counters) \/ (Fault /\ UNCHANGED items)
    /\ Return(t)
    /\ UNCHANGED tables

PlanStep(t) == CreatePlanner(t) \/ PlannerMeta(t) \/ PlannerMove(t)

-----------------------------------------------------------------------------
(* A run and what it proposes *)

RunProposes(t) ==
    /\ pc[t] = "run" /\ my[t].mode # "execute_only"
    /\ \E plan \in Plans : Propose(t, my[t].item, plan, my[t].mode, FALSE)
    /\ Planned
    /\ UNCHANGED <<items, tables>>

\* A worker is done; a planner's output is refused without a task.
RunSucceeds(t) ==
    /\ pc[t] = "run" /\ ~my[t].planner
    /\ Goto(t, "settle")
    /\ UNCHANGED <<items, tables, my, counters>>

\* The run is blocked.  Under full auto a child's blocker that no human has to
\* remove is turned into tasks.
RunBlocked(t) ==
    LET i == my[t].item IN
    /\ pc[t] = "run"
    /\ \/ FinishRun(t, "Needs Input", {}, "Planning") /\ UNCHANGED counters
       \/ /\ my[t].mode = "full_auto" /\ Depth(i) > 0
          /\ IF my[t].planner
             THEN Propose(t, i, FallbackPlan, "full_auto", TRUE) /\ Planned
             ELSE MayRepair(i) /\ Goto(t, "repair") /\ UNCHANGED <<my, counters>>
          /\ UNCHANGED <<items, tables>>

ProposalState(t) ==
    IF my[t].mode # "plan_only" /\ my[t].depth <= MaxDepth THEN "Ready" ELSE "Backlog"

\* mutant: a task that could not be made is depended on
NeedsOfFailed(t, self) ==
    LET made == Append(my[t].batch, self) IN
    {made[j] : j \in my[t].plan[Len(made)] \cap DOMAIN made}

\* The next task's dependencies: those of the tasks it names that were made, or
\* is made now.  A name of a later task, or of one that failed, is dropped.
ResolvedNeeds(t, self) ==
    LET made == Append(my[t].batch, self) IN
    {made[j] : j \in my[t].plan[Len(made)] \cap DOMAIN made} \ {NoParent}

Proposing(t) == pc[t] = "propose" /\ Len(my[t].batch) < Len(my[t].plan)

\* The item is made; a failure passes the task over.
CreateTask(t) ==
    /\ Proposing(t)
    /\ LET new == [id \in ItemIds |->
                      [kind |-> "task", state |-> ProposalState(t), depth |-> my[t].depth,
                       needs |-> ResolvedNeeds(t, id)]] IN
       \/ CreateItem(t, new, "proposeMeta")
       \/ CreateFails /\ Set(t, "propose", "batch", Append(my[t].batch, NoParent))
    /\ UNCHANGED tables

TaskMeta(t) ==
    /\ pc[t] = "proposeMeta"
    /\ WriteMeta(t, "worker", my[t].parent, my[t].depth, my[t].mode, ResolvedNeeds(t, my[t].new))
    /\ Set(t, "propose", "batch", Append(my[t].batch, my[t].new))
    /\ UNCHANGED <<items, claims, counters>>

\* The run goes on; a request split in execute_only mode, which nobody claimed,
\* is moved, or run itself if its task could not be made.
Proposed(t) ==
    /\ pc[t] = "propose" /\ ~Proposing(t)
    /\ IF my[t].claim THEN Goto(t, "settle") /\ UNCHANGED <<items, claims, my, counters>>
       ELSE IF ToSet(my[t].batch) \subseteq {NoParent}
            THEN RunItself(t) /\ UNCHANGED counters
            ELSE /\ (Moved({my[t].item}, "Planning") /\ UNCHANGED counters) \/ (Fault /\ UNCHANGED items)
                 /\ Return(t)
                 /\ UNCHANGED claims
    /\ UNCHANGED meta

-----------------------------------------------------------------------------
(* The end of a run *)

\* With tasks, the parent waits for them.  Without, the item itself is done,
\* and with it a request that full auto ran as it stood.
Settle(t) ==
    LET i == my[t].item
        full == my[t].mode = "full_auto"
        tasks == ToSet(my[t].batch) \ {NoParent}
        p == PlannerParent(i) IN
    /\ pc[t] = "settle"
    /\ \/ /\ tasks # {}
          /\ IF p = i THEN FinishRun(t, "Planning", {}, "Planning")
             ELSE FinishRun(t, IF full THEN "Done" ELSE "Human Review", {p}, "Planning")
          /\ UNCHANGED counters
       \/ /\ tasks = {} /\ ~(full /\ i = Root)
          /\ FinishRun(t, IF my[t].blocked THEN "Needs Input"
                          ELSE IF full /\ Depth(i) > 0 THEN "Done" ELSE "Human Review", {}, "Planning")
          /\ UNCHANGED counters
       \/ /\ tasks = {} /\ full /\ i = Root
          /\ Goto(t, "deliver")
          /\ UNCHANGED <<items, tables, my, counters>>
       \/ RunRaises(t, IF tasks = {} THEN {} ELSE {p})

\* _create_repair_task; when it fails the item needs input.
CreateRepair(t) ==
    /\ pc[t] = "repair"
    /\ LET new == [id \in ItemIds |-> Plain("repair", "Ready")] IN
       \/ CreateItem(t, new, "repairMeta") /\ UNCHANGED tables
       \/ RunRaises(t, {})

RepairMeta(t) ==
    LET m == meta[my[t].item] IN
    /\ pc[t] = "repairMeta"
    /\ WriteMeta(t, "worker", m.parent, m.depth + 1, "full_auto", {})
    /\ Goto(t, "repairMove")
    /\ UNCHANGED <<items, claims, my, counters>>

\* The blocked task counts as done.
RepairMove(t) ==
    /\ pc[t] = "repairMove"
    /\ \/ FinishRun(t, "Done", {meta[my[t].item].parent}, "Planning") /\ UNCHANGED counters
       \/ RunRaises(t, {})

RunStep(t) ==
    \/ RunProposes(t) \/ RunSucceeds(t) \/ RunBlocked(t)
    \/ CreateTask(t) \/ TaskMeta(t) \/ Proposed(t)
    \/ Settle(t) \/ CreateRepair(t) \/ RepairMeta(t) \/ RepairMove(t)

-----------------------------------------------------------------------------
(* People, and a crash of the process *)

\* Someone readies a task that waits for input or approval, or accepts it.
HumanMoves(i) ==
    /\ moved < MaxMoves /\ moved' = moved + 1
    /\ i \in Created /\ items[i].kind # "delivery"
    /\ \/ State(i) \in {"Needs Input", "Backlog"} /\ Moved({i}, "Ready")
       \/ State(i) = "Needs Input" /\ Moved({i}, "Human Review")
    /\ UNCHANGED <<tables, threads, planned, asked, faults, crashes>>

Crash ==
    /\ MayDisturb /\ crashes' = crashes + 1
    /\ \E t \in Threads : pc[t] # "idle"
    /\ pc' = [t \in Threads |-> "idle"] /\ my' = [t \in Threads |-> Fresh]
    /\ UNCHANGED <<items, tables, planned, moved, asked, faults>>

ThreadStep(t) ==
    \/ BeforeDispatch(t) \/ NothingToDo(t) \/ PlanStep(t) \/ RunStep(t)
    \/ \E i \in ItemIds : Pick(t, i)

Next ==
    \/ Reconcile
    \/ \E i \in ItemIds : ReleaseClaim(i) \/ HumanMoves(i)
    \/ \E t \in Threads : ThreadStep(t)
    \/ \E t \in Requests, i \in ItemIds : Request(t, i)
    \/ Crash

Spec == Init /\ [][Next]_vars

\* The daemon ticks and runs come to an end; a claim whose thread is gone outlives
\* its TTL at some tick.  Nothing obliges a handler thread.
Fairness ==
    /\ WF_vars(Reconcile \/ ThreadStep(Daemon))
    /\ SF_vars(\E i \in ItemIds : ReleaseClaim(i))

FairSpec == Spec /\ Fairness

-----------------------------------------------------------------------------
(* Properties *)

TypeOK ==
    /\ items \in Seq(Item) /\ Len(items) \in 1..MaxItems
    /\ meta \in [ItemIds -> Metadata \cup {NoMeta}]
    /\ claims \subseteq Created
    /\ pc \in [Threads -> Steps] /\ my \in [Threads -> Locals]
    /\ planned \in 0..MaxPlans /\ moved \in 0..MaxMoves
    /\ {asked, faults, crashes} \subseteq 0..MaxDisturbances /\ Disturbances <= MaxDisturbances

OfKind(k) == {i \in Created : items[i].kind = k}
Closed == State(Root) \in SuccessStates

\* A request gets one planner, and one more at most for each disturbance; without a
\* handler thread the same goes for its delivery task.  (Neither is made under a
\* claim.  A handler thread that moves the request to Planning after it was closed
\* has it closed, and delivered, again.)
CreatedOnce ==
    /\ Cardinality(OfKind("planner")) <= 1 + Disturbances
    /\ asked = 0 => Cardinality(OfKind("delivery")) <= 1 + Disturbances

\* Whatever fails or crashes, the blocked tasks of a parent are not replaced beyond
\* the limit, but for the handler threads that count before the daemon has written.
RepairsBounded ==
    \A p \in ItemIds :
        Cardinality({i \in Children(p) : meta[i].repair}) <= RepairLimit + asked

\* Even after a crash, a full-auto request is not closed before a task proposed for
\* it has succeeded.  (With failing calls it may be: a task that cannot be made is
\* passed over.  So it may beside a handler thread: a planner run before its
\* metadata is written proposes its tasks as children of its own.)
ClosedOnlyWithWork ==
    State(Root) = "Done" /\ asked + faults + moved = 0 =>
        \E i \in OfKind("task") : State(i) \in SuccessStates

\* The tasks, as TaskOrder sees them.
Phase(i) ==
    IF i \notin Created \/ items[i].kind \in {"root", "delivery"} THEN "none"
    ELSE IF State(i) \in SuccessStates THEN "finished"
    ELSE IF State(i) \in {"Running", "Planning"} THEN "started" ELSE "waiting"

Order == INSTANCE TaskOrder WITH
    Tasks <- ItemIds,
    phase <- [i \in ItemIds |-> Phase(i)],
    needs <- [i \in ItemIds |-> IF Phase(i) = "none" THEN {} ELSE items[i].needs],
    closed <- Closed,
    disturbed <- Disturbed

\* Undisturbed, the tracker and the tables implement TaskOrder: a task is started
\* after the tasks its planner made it depend on, through follow-ups and repairs,
\* and the request is closed after all of them.
OrderIsKept == Order!Spec

\* The request waits for a person, or a task depends on itself, which
\* _create_proposed_tasks does not exclude and nothing reports.
WaitsForSomeone == \E i \in Created : State(i) \in {"Needs Input", "Backlog"} /\ items[i].kind # "delivery"
WaitsForItself  == \E i \in Created : i \in items[i].needs

\* Even after a crash, a request is closed or waits for a person: no other way of
\* naming dependencies, neither a later task nor each other, holds it up.
RequestEnds ==
    ~Closed ~> Closed \/ WaitsForSomeone \/ WaitsForItself \/ asked + faults > 0

=============================================================================
