------------------------------ MODULE Delivery -------------------------------
(***************************************************************************)
(* The git side of the fleet: the worktree and branch a run gets           *)
(* (workspace.py), the commit it leaves (orchestrator.py), and the         *)
(* delivery of a branch by handler threads of the local API                *)
(* (_complete_delivery_task in local_api.py), which asks for a clean main  *)
(* checkout, merges, removes the worktree, records, and moves the delivery *)
(* item, each step by itself and without a lock.                           *)
(*                                                                         *)
(* What a run changes is uncommitted in its worktree at first, and a       *)
(* branch is the set of the changes committed on it.  Git is external:     *)
(* what its commands refuse is modelled as the code relies on it.  One     *)
(* request is delivered; its delivery item records the branch of one task, *)
(* the primary.                                                            *)
(***************************************************************************)
EXTENDS Naturals

CONSTANTS
    Tasks,       \* tasks of the request, numbered
    Base,        \* Base[t]: the dependency whose branch t starts from, or NoTask
    Primary,     \* the task whose branch is delivered
    Handlers,    \* threads of the local API
    MaxSuffix,   \* names tried for a branch
    MaxChanges,  \* bound: changes that runs make
    MaxCalls,    \* bound: calls of the delivery endpoint
    MaxHuman     \* bound: what people do, crashes, and claims from a list out of date

NoTask == 0
ASSUME DeliveryAssumption ==
    /\ Tasks \subseteq Nat \ {NoTask} /\ Primary \in Tasks
    /\ Base \in [Tasks -> Tasks \cup {NoTask}] /\ \A t \in Tasks : Base[t] # t
    /\ MaxSuffix \in Nat \ {0} /\ {MaxChanges, MaxCalls, MaxHuman} \subseteq Nat

VARIABLES
    branch,     \* branch[n]: its commits, or Absent
    tree,       \* tree[n]: the worktree of that name
    work,       \* work[n]: the changes in it that are not committed
    head,       \* what the main checkout is on: Main or a branch
    main,       \* commits on the main branch
    untidy,     \* the main checkout has uncommitted changes, or a merge in conflict
    claimed,    \* the tasks with a run that has no worktree yet
    using,      \* using[t]: the worktree in which a run of t works, or NoName
    latest,     \* latest[t]: the branch that t's latest run recorded, or NoName
    passed,     \* passed[t]: table runs: that run is recorded as succeeded
    accepted,   \* accepted[t]: tracker: t's item is in Human Review or Done
    target,     \* the branch the delivery item recorded
    item,       \* tracker: the state of the delivery item
    status,     \* task_metadata: its delivery_status
    pc, my,     \* the handlers: next step, and local variables
    strayed,    \* history: a merge was made while the main checkout was elsewhere
    moved,      \* history: tasks whose item need not show how its latest run ended
    deleted,    \* history: changes in worktrees that people deleted
    changes, calls, human   \* counters for the bounds

gitVars    == <<branch, tree, work, head, main, untidy>>
runVars    == <<claimed, using, latest, passed, accepted>>
itemVars   == <<target, item, status>>
history    == <<strayed, moved, deleted>>
counters   == <<changes, calls, human>>
vars == <<gitVars, runVars, itemVars, pc, my, history, counters>>

-----------------------------------------------------------------------------
Names  == Tasks \X (1..MaxSuffix)
NoName == <<NoTask, 0>>
Main   == <<NoTask, 1>>
Absent == {0}
Changes == 1..MaxChanges

\* A worktree that was deleted by hand is missing, but still registered with git.
Trees == {"none", "missing", "present"}
Exists(n) == branch[n] # Absent
PathExists(n) == tree[n] = "present"

ItemStates == {"none", "Backlog", "Needs Input", "Done"}
Statuses == {"none", "task_created", "needs_input", "complete", "merged_cleanup_needs_input"}
HandlerSteps == {"idle", "check", "merge", "remove", "record", "move", "refuse", "refuseMove"}
NoLocals == [asked |-> {}, left |-> {}, cleanup |-> FALSE]

Init ==
    /\ branch = [n \in Names |-> Absent] /\ tree = [n \in Names |-> "none"]
    /\ work = [n \in Names |-> {}]
    /\ head = Main /\ main = {} /\ untidy = FALSE
    /\ claimed = {} /\ using = [t \in Tasks |-> NoName] /\ latest = [t \in Tasks |-> NoName]
    /\ passed = [t \in Tasks |-> FALSE] /\ accepted = [t \in Tasks |-> FALSE]
    /\ target = NoName /\ item = "none" /\ status = "none"
    /\ pc = [h \in Handlers |-> "idle"] /\ my = [h \in Handlers |-> NoLocals]
    /\ strayed = FALSE /\ moved = {} /\ deleted = {}
    /\ changes = 0 /\ calls = 0 /\ human = 0

-----------------------------------------------------------------------------
(* A run and its worktree *)

\* _dependency_blocked: a dependent waits for the state of its dependency's item.
DependencyBlocked(t) == Base[t] # NoTask /\ ~accepted[Base[t]]

\* run_once: an item among the candidates is claimed, and its new run has no branch yet.
\* The list may be out of date: the item may have been run and accepted since, and its
\* dependency taken back.
Claim(t) ==
    /\ t \notin claimed /\ using[t] = NoName
    /\ \/ ~accepted[t] /\ ~DependencyBlocked(t) /\ UNCHANGED <<moved, human>>
       \/ /\ human < MaxHuman /\ human' = human + 1
          /\ DependencyBlocked(t) => Base[t] \in moved
          /\ moved' = IF accepted[t] THEN moved \cup {t} ELSE moved
    /\ claimed' = claimed \cup {t}
    /\ latest' = [latest EXCEPT ![t] = NoName] /\ passed' = [passed EXCEPT ![t] = FALSE]
    /\ UNCHANGED <<gitVars, using, accepted, itemVars, pc, my, strayed, deleted, changes, calls>>

\* The item is shown as Running, or in Needs Input; a person may have moved it again since.
Withdrawn(t) == accepted' \in {accepted, [accepted EXCEPT ![t] = FALSE]}

\* The changes that a new branch starts with: _dependency_base_branch, read after the
\* claim, is the branch of the dependency's latest run if that has succeeded; without
\* one it is what the main checkout is on.
HeadCommits == IF head = Main THEN main ELSE branch[head]
BaseName(t) == IF Base[t] # NoTask /\ passed[Base[t]] THEN latest[Base[t]] ELSE NoName
StartingPoint(t) == IF BaseName(t) = NoName THEN HeadCommits ELSE branch[BaseName(t)]

Starts(t, n, b) ==
    /\ branch' = [branch EXCEPT ![n] = b] /\ tree' = [tree EXCEPT ![n] = "present"]
    /\ using' = [using EXCEPT ![t] = n] /\ latest' = [latest EXCEPT ![t] = n]

\* mutant: the worktree is used as it is
ReuseAsItIs(t, n) == PathExists(n) /\ Starts(t, n, branch[n])

\* mutant: the branch is moved to the starting point
ReuseByReset(t, n) == PathExists(n) /\ Starts(t, n, StartingPoint(t))

\* _fast_forward_existing; git refuses when both have commits of their own, and prepare
\* raises.
Reuse(t, n) ==
    LET b == StartingPoint(t) IN
    /\ PathExists(n)
    /\ IF BaseName(t) = NoName THEN Starts(t, n, branch[n])
       ELSE \/ b \subseteq branch[n] /\ Starts(t, n, branch[n])
            \/ branch[n] \subseteq b /\ Starts(t, n, b)

\* worktree add -b, after a prune if the path is still registered.
CreateBranch(t, n) ==
    /\ ~PathExists(n) /\ ~Exists(n)
    /\ Starts(t, n, StartingPoint(t))

\* The branch is left from an earlier run, and attached as it is.
Attach(t, n) ==
    /\ ~PathExists(n) /\ Exists(n) /\ head # n
    /\ Starts(t, n, branch[n])

\* _try_suffixed_branch: the branch is checked out elsewhere; the first free name is
\* taken, and starts without the commits of the branch if t has a dependency.
Suffixed(t, n) ==
    LET free == {k \in 2..MaxSuffix : ~Exists(<<t, k>>) /\ ~PathExists(<<t, k>>)} IN
    /\ ~PathExists(n) /\ Exists(n) /\ head = n
    /\ \E k \in free : /\ \A j \in free : k <= j
                       /\ Starts(t, <<t, k>>, StartingPoint(t))

\* WorktreeManager.prepare, for a run of a claimed item.
Prepare(t) ==
    /\ t \in claimed /\ claimed' = claimed \ {t}
    /\ Reuse(t, <<t, 1>>) \/ CreateBranch(t, <<t, 1>>) \/ Attach(t, <<t, 1>>) \/ Suffixed(t, <<t, 1>>)
    /\ Withdrawn(t)
    /\ UNCHANGED <<work, head, main, untidy, passed, itemVars, pc, my, history, counters>>

\* It raises, or the tracker did before: the run is over, its item goes to Needs Input
\* unless that fails too.
NotPrepared(t) ==
    /\ t \in claimed /\ claimed' = claimed \ {t}
    /\ Withdrawn(t)
    /\ UNCHANGED <<gitVars, using, latest, passed, itemVars, pc, my, history, counters>>

Edit(t) ==
    LET n == using[t] IN
    /\ n # NoName /\ PathExists(n) /\ changes < MaxChanges
    /\ changes' = changes + 1
    /\ work' = [work EXCEPT ![n] = @ \cup {changes + 1}]
    /\ UNCHANGED <<branch, tree, head, main, untidy, runVars, itemVars, pc, my, history, calls, human>>

\* A turn that succeeded commits its changes (_commit_workspace_changes); one that failed,
\* and a commit that does, leave them in the worktree.  The run is recorded, and then the
\* item is moved; a move that raises makes it a failed run, even if the tracker applied it.
FinishRun(t) ==
    LET n == using[t] IN
    /\ n # NoName
    /\ using' = [using EXCEPT ![t] = NoName]
    /\ \/ /\ PathExists(n)
          /\ branch' = [branch EXCEPT ![n] = @ \cup work[n]]
          /\ work' = [work EXCEPT ![n] = {}]
       \/ UNCHANGED <<branch, work>>
    /\ \E ok, shown \in BOOLEAN :
          /\ passed' = [passed EXCEPT ![t] = ok]
          /\ accepted' = [accepted EXCEPT ![t] = shown]
          /\ moved' = IF ~shown THEN moved ELSE IF ok THEN moved \ {t} ELSE moved \cup {t}
    /\ UNCHANGED <<tree, head, main, untidy, claimed, latest, itemVars, pc, my, strayed, deleted, counters>>

-----------------------------------------------------------------------------
(* The delivery item *)

\* The orchestrator's _create_delivery_task records the branch of the primary task's
\* latest run, once every task is accepted; the local API's records none.
CreateDelivery ==
    /\ item = "none"
    /\ \/ (\A t \in Tasks : accepted[t]) /\ target' = latest[Primary]
       \/ target' = NoName
    /\ item' = "Backlog" /\ status' = "task_created"
    /\ UNCHANGED <<gitVars, runVars, pc, my, history, counters>>

Goto(h, step) == pc' = [pc EXCEPT ![h] = step]
rest == <<runVars, target, history, counters>>

\* The request: the delivery item is read, and refused without a recorded branch.
CallComplete(h) ==
    /\ pc[h] = "idle" /\ item # "none" /\ calls < MaxCalls
    /\ calls' = calls + 1
    /\ Goto(h, IF target = NoName THEN "refuse" ELSE "check")
    /\ my' = IF target = NoName THEN my
             ELSE [my EXCEPT ![h].asked = branch[target], ![h].left = work[target]]
    /\ UNCHANGED <<gitVars, runVars, itemVars, history, changes, human>>

\* git status
CheckMain(h) ==
    /\ pc[h] = "check"
    /\ Goto(h, IF untidy THEN "refuse" ELSE "merge")
    /\ UNCHANGED <<gitVars, item, status, my, rest>>

\* mutant: the exit code of the merge is not looked at
AfterMergeUnchecked(merged) == "remove"
AfterMerge(merged) == IF merged THEN "remove" ELSE "refuse"

\* git merge --no-ff, into whatever the main checkout is on: it succeeds; or it fails,
\* with a conflict that is left in the checkout, or over what someone left there
\* after git status.
Merge(h) ==
    LET b == branch[target] IN
    /\ pc[h] = "merge"
    /\ \/ /\ IF head = Main THEN main' = main \cup b /\ UNCHANGED branch
             ELSE branch' = [branch EXCEPT ![head] = @ \cup b] /\ UNCHANGED main
          /\ strayed' = (strayed \/ head # Main)
          /\ Goto(h, AfterMerge(TRUE))
          /\ UNCHANGED untidy
       \/ /\ untidy \/ ~(b \subseteq HeadCommits)
          /\ untidy' = TRUE
          /\ Goto(h, AfterMerge(FALSE))
          /\ UNCHANGED <<branch, main, strayed>>
    /\ UNCHANGED <<tree, work, head, item, status, my, runVars, target, moved, deleted, counters>>

\* git worktree remove refuses what is not a worktree, or has changes in it.
Removable(n) == tree[n] = "missing" \/ (tree[n] = "present" /\ work[n] = {})

RemoveTree(h) ==
    /\ pc[h] = "remove"
    /\ IF Removable(target)
       THEN tree' = [tree EXCEPT ![target] = "none"] /\ UNCHANGED my
       ELSE my' = [my EXCEPT ![h].cleanup = TRUE] /\ UNCHANGED tree
    /\ Goto(h, "record")
    /\ UNCHANGED <<branch, work, head, main, untidy, item, status, rest>>

\* mutant: the tracker's states
DeliveryStatusAsState(cleanup) == IF cleanup THEN "Needs Input" ELSE "Done"
DeliveryStatus(cleanup) == IF cleanup THEN "merged_cleanup_needs_input" ELSE "complete"

Record(h) ==
    /\ pc[h] = "record"
    /\ status' = DeliveryStatus(my[h].cleanup)
    /\ Goto(h, "move")
    /\ UNCHANGED <<gitVars, item, my, rest>>

\* The tracker is told last, and may fail: the call is over without it.
Finish(h, s) ==
    /\ item' \in {item, s}
    /\ Goto(h, "idle") /\ my' = [my EXCEPT ![h] = NoLocals]
    /\ UNCHANGED <<gitVars, status, rest>>

MoveItem(h) == pc[h] = "move" /\ Finish(h, IF my[h].cleanup THEN "Needs Input" ELSE "Done")

\* _delivery_needs_input
Refuse(h) ==
    /\ pc[h] = "refuse"
    /\ status' = "needs_input"
    /\ Goto(h, "refuseMove")
    /\ UNCHANGED <<gitVars, item, my, rest>>

RefuseMove(h) == pc[h] = "refuseMove" /\ Finish(h, "Needs Input")

HandlerStep(h) ==
    \/ CheckMain(h) \/ Merge(h) \/ RemoveTree(h)
    \/ Record(h) \/ MoveItem(h)
    \/ Refuse(h) \/ RefuseMove(h)

-----------------------------------------------------------------------------
(* People, and a crash *)

\* Someone works in the main checkout; tidies it, which may finish or abort a merge;
\* looks at a branch there, which git allows if no worktree has it; deletes a worktree's
\* directory.
HumanWorks ==
    /\ human < MaxHuman /\ human' = human + 1
    /\ \/ /\ untidy' = ~untidy /\ UNCHANGED <<tree, work, head, main, deleted>>
       \/ /\ untidy /\ head = Main /\ target # NoName
          /\ untidy' = FALSE /\ main' = main \cup branch[target]
          /\ UNCHANGED <<tree, work, head, deleted>>
       \/ /\ ~untidy
          /\ head' \in {Main} \cup {n \in Names : Exists(n) /\ tree[n] = "none"}
          /\ UNCHANGED <<tree, work, main, untidy, deleted>>
       \/ /\ \E n \in Names :
                /\ PathExists(n) /\ tree' = [tree EXCEPT ![n] = "missing"]
                /\ work' = [work EXCEPT ![n] = {}] /\ deleted' = deleted \cup work[n]
          /\ UNCHANGED <<head, main, untidy>>
    /\ UNCHANGED <<branch, runVars, itemVars, pc, my, strayed, moved, changes, calls>>

\* Someone accepts an item, whatever its latest run came to, or moves it back to be
\* retried, or cancels its latest run, though that is over.
HumanMoves(t) ==
    /\ human < MaxHuman /\ human' = human + 1
    /\ moved' = moved \cup {t}
    /\ \/ accepted' = [accepted EXCEPT ![t] = ~@] /\ UNCHANGED passed
       \/ passed' = [passed EXCEPT ![t] = FALSE] /\ Withdrawn(t)
    /\ UNCHANGED <<gitVars, claimed, using, latest, itemVars, pc, my, strayed, deleted, changes, calls>>

\* The process dies; a run's claim is recovered (Dispatch), its worktree stays.
Crash ==
    /\ human < MaxHuman /\ human' = human + 1
    /\ \E h \in Handlers : pc[h] # "idle"
    /\ pc' = [h \in Handlers |-> "idle"] /\ my' = [h \in Handlers |-> NoLocals]
    /\ using' = [t \in Tasks |-> NoName] /\ claimed' = {}
    /\ UNCHANGED <<gitVars, latest, passed, accepted, itemVars, history, changes, calls>>

Next ==
    \/ \E t \in Tasks : Claim(t) \/ Prepare(t) \/ NotPrepared(t) \/ Edit(t) \/ FinishRun(t)
    \/ CreateDelivery
    \/ \E h \in Handlers : CallComplete(h) \/ HandlerStep(h)
    \/ HumanWorks \/ Crash
    \/ \E t \in Tasks : HumanMoves(t)

Spec == Init /\ [][Next]_vars

-----------------------------------------------------------------------------
(* Properties *)

TypeOK ==
    /\ branch \in [Names -> (SUBSET Changes) \cup {Absent}] /\ tree \in [Names -> Trees]
    /\ work \in [Names -> SUBSET Changes]
    /\ head \in {Main} \cup Names /\ main \subseteq Changes /\ untidy \in BOOLEAN
    /\ claimed \subseteq Tasks /\ {using, latest} \subseteq [Tasks -> Names \cup {NoName}]
    /\ {passed, accepted} \subseteq [Tasks -> BOOLEAN]
    /\ target \in Names \cup {NoName} /\ item \in ItemStates /\ status \in Statuses
    /\ pc \in [Handlers -> HandlerSteps]
    /\ my \in [Handlers -> [asked : SUBSET Changes, left : SUBSET Changes, cleanup : BOOLEAN]]
    /\ strayed \in BOOLEAN /\ moved \subseteq Tasks /\ deleted \subseteq Changes
    /\ changes \in 0..MaxChanges /\ calls \in 0..MaxCalls /\ human \in 0..MaxHuman

\* The delivery item is moved to Done only when every commit its branch had at the
\* request is in main, whatever other handlers, runs, people and crashes do meanwhile
\* (unless the main checkout was on another branch: the code merges into that); and only
\* when none of the changes that were uncommitted in the branch's worktree at the request
\* still lies there.
Delivered ==
    item # "Done" /\ item' = "Done" =>
        \A h \in Handlers : pc'[h] # pc[h] =>
            /\ strayed \/ my[h].asked \subseteq main
            /\ my[h].left \cap work[target] = {}

DoneIsDelivered == [][Delivered]_vars

\* Whatever retries, deliveries and crashes do to worktrees and branches in between, a
\* change that a run made is not lost: it is uncommitted in a worktree, on a branch or
\* in main, unless a person deleted the worktree it was uncommitted in.
ChangesAreKept ==
    \A c \in 1..changes :
        c \in main \cup deleted \/ \E n \in Names : c \in branch[n] \cup work[n]

\* A run starts with what its dependency has committed, although the code looks at the
\* dependency's item before the claim, and at its latest run after it; unless a person,
\* a tracker call that failed and was applied, or a list that was out of date has come
\* between the dependency's item and its run, or the run's own branch has outlived its
\* worktree and is attached as it is.
StartsComplete ==
    \A t \in Tasks : LET n == using'[t] IN
        using[t] = NoName /\ n # NoName /\ Base[t] # NoTask =>
            \/ latest[Base[t]] # NoName /\ branch[latest[Base[t]]] \subseteq branch'[n]
            \/ Base[t] \in moved
            \/ Exists(n) /\ ~PathExists(n)

StartsFromDependency == [][StartsComplete]_vars

=============================================================================
