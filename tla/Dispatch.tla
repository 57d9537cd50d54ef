------------------------------ MODULE Dispatch ------------------------------
(***************************************************************************)
(* Claiming, running and finishing one work item.                          *)
(*                                                                         *)
(* The threads are the daemon loop (daemon.py) and the handler threads of  *)
(* the local API (local_api.py, a ThreadingHTTPServer).  Both call         *)
(* Orchestrator.run_once; API handlers also retry and cancel.  They share  *)
(* the sqlite tables `claims` and `runs` (store.py) and the states of the  *)
(* items on the tracker.  A step is one transaction on a table or one call *)
(* to the tracker, so everything between two of them may interleave.       *)
(*                                                                         *)
(* Covered: the claim (SELECT, then INSERT OR UPDATE), the run's states,   *)
(* the confirmation of item states, every error path of run_once, the      *)
(* release of stale claims and the recovery that follows, retry, cancel,   *)
(* tracker failures, and a crash of the process all threads live in.       *)
(* Not covered here: child tasks and dependencies (only items that         *)
(* dispatch directly are modelled) and the questions a run asks.           *)
(***************************************************************************)
EXTENDS Naturals, FiniteSets

CONSTANTS
    Items,        \* work items; the number is the rank _dispatch_sort_key gives
    Daemon,       \* the daemon loop's thread
    Requests,     \* the handler threads of the local API
    MaxRuns,      \* bound: runs that may be started
    MaxFaults,    \* bound: tracker calls that fail or are not shown
    MaxCrashes,   \* bound: crashes of the process
    MaxMoves,     \* bound: moves of an item by a human in the tracker
    MaxRequests   \* bound: requests the API receives

ASSUME DispatchAssumption ==
    /\ Items \subseteq Nat \ {0}
    /\ IsFiniteSet(Items)
    /\ Daemon \notin Requests
    /\ MaxRuns \in Nat
    /\ MaxFaults \in Nat
    /\ MaxCrashes \in Nat
    /\ MaxMoves \in Nat
    /\ MaxRequests \in Nat

VARIABLES
    itemState,    \* tracker: state of each item
    claim,        \* table claims: one row per item
    old,          \* claim row untouched for longer than the TTL
    runStatus,    \* table runs: status of each run, "absent" before its row
    runItem,      \* the item each run was started for
    nextRun,      \* the id the next run gets
    pc,           \* what each thread does next
    my,           \* the local variables of each thread's handler
    recovering,   \* daemon-local: stale claims it read and is still to record
    faults, crashes, moves, asked,   \* counters for the bounds
    revoked,      \* history: runs whose claim was taken from them
    finished      \* history: runs that have finished their own claim

tables    == <<claim, old, runStatus, runItem, nextRun>>
threads   == <<pc, my, recovering>>
counters  == <<faults, crashes, moves, asked>>
history   == <<revoked, finished>>
vars      == <<itemState, tables, threads, counters, history>>

-----------------------------------------------------------------------------
(* Values *)

Threads == {Daemon} \cup Requests
Runs    == 1..MaxRuns
NoRun   == 0
NoItem  == 0

ItemStates  == {"Ready", "Running", "Needs Input", "Human Review", "Done"}
ClaimStatus == {"none", "active", "completed", "failed", "blocked", "stale",
                "retry_requested", "cancel_requested"}
RunStatus   == {"absent", "queued", "preparing_workspace", "running_codex",
                "needs_input", "human_review", "rework", "blocked", "stalled",
                "cancel_requested", "cancelled"}
ActiveRunStatus == {"queued", "preparing_workspace", "running_codex",
                    "cancel_requested"}
Outcomes == {"success", "needs_input", "failure", "blocked"}

\* A handler's locals: the item and the run in hand, how that run ended, and
\* whether a run status it read earlier was an active one.
Locals == [item : Items \cup {NoItem}, run : Runs \cup {NoRun},
           outcome : Outcomes, active : BOOLEAN]
Fresh  == [item |-> NoItem, run |-> NoRun, outcome |-> "success", active |-> FALSE]

\* The steps of run_once between the claim and its end.
RunningSteps == {"persist", "start", "confirmStart", "holdStart", "abortStart",
                 "prepare", "launch", "running", "report", "handler",
                 "publish", "confirm", "hold", "finish"}
RequestSteps == {"retryRelease", "retryMark", "retryReady", "cancelRequest",
                 "cancelRelease", "cancelMark", "cancelMove"}
DaemonSteps  == {"release", "reconcile", "recoverMark", "recoverFetch", "recoverMove", "poll"}
Steps == {"idle", "select", "insert"} \cup RunningSteps
            \cup RequestSteps \cup DaemonSteps

\* Mutated: a failure is recorded with a status outside the run state machine.
FinalStatusFailed(o) ==
    CASE o = "success"     -> "human_review"
      [] o = "needs_input" -> "needs_input"
      [] o = "failure"     -> "failed"
      [] o = "blocked"     -> "blocked"

\* RunRecord.mark on each way a run ends.
FinalStatus(o) ==
    CASE o = "success"     -> "human_review"
      [] o = "needs_input" -> "needs_input"
      [] o = "failure"     -> "rework"
      [] o = "blocked"     -> "blocked"

\* The item state run_once asks the tracker for on each way a run ends.
FinalItemState(o) == IF o = "success" THEN "Human Review" ELSE "Needs Input"

\* The status finish_claim is called with on each way a run ends.
ClaimResult(o) ==
    CASE o = "success"     -> "completed"
      [] o = "needs_input" -> "blocked"
      [] o \in {"failure", "blocked"} -> "failed"

Active(i) == claim[i].status = "active"

\* The rows of table runs for an item; the latest is the one created last.
Rows(i) == {r \in Runs : runStatus[r] # "absent" /\ runItem[r] = i}
IsLatest(r, i) == r \in Rows(i) /\ \A s \in Rows(i) : s <= r

\* The head of the candidate list as _dispatch_sort_key orders it.
IsHead(i) == itemState[i] = "Ready" /\ \A j \in Items : itemState[j] = "Ready" => i <= j

\* Thread t is executing a run it claimed.
Executing(t) == pc[t] \in RunningSteps

-----------------------------------------------------------------------------
Init ==
    /\ itemState = [i \in Items |-> "Ready"]
    /\ claim = [i \in Items |-> [run |-> NoRun, status |-> "none"]]
    /\ old = [i \in Items |-> FALSE]
    /\ runStatus = [r \in Runs |-> "absent"]
    /\ runItem = [r \in Runs |-> NoItem]
    /\ nextRun = 1
    /\ pc = [t \in Threads |-> "idle"]
    /\ my = [t \in Threads |-> Fresh]
    /\ recovering = {}
    /\ faults = 0 /\ crashes = 0 /\ moves = 0 /\ asked = 0
    /\ revoked = {} /\ finished = {}

-----------------------------------------------------------------------------
(* Steps of a thread *)

Goto(t, step) == pc' = [pc EXCEPT ![t] = step]

\* The handler returns or raises to its caller: its locals are gone.
Return(t) ==
    /\ Goto(t, "idle")
    /\ my' = [my EXCEPT ![t] = Fresh]

\* After one recovered claim, the daemon goes on with the others.
NextClaim(t) ==
    /\ Goto(t, "reconcile")
    /\ my' = [my EXCEPT ![t] = Fresh]

\* A tracker call fails.
TrackerFault ==
    /\ faults < MaxFaults
    /\ faults' = faults + 1
    /\ UNCHANGED <<crashes, moves, asked>>

\* update_item_state shows the new state at once.
Shows(i, s) ==
    /\ itemState' = [itemState EXCEPT ![i] = s]
    /\ UNCHANGED counters

\* update_item_state returns, but the tracker goes on showing the old state.
Hides == TrackerFault /\ UNCHANGED itemState

\* update_item_state raises: before the tracker applied it, or after.
Raises(i, s) ==
    /\ TrackerFault
    /\ itemState' \in {itemState, [itemState EXCEPT ![i] = s]}

\* _persist writes the status of the run in hand, creating its row if need be.
Persist(t, status) ==
    /\ runStatus' = [runStatus EXCEPT ![my[t].run] = status]
    /\ UNCHANGED <<claim, old, runItem, nextRun>>

\* Mutated: finish_claim without "and run_id = ?".
FinishClaimOfAnyRun(i, r, status) ==
    claim' = [claim EXCEPT ![i].status = status]

\* finish_claim: only a row that names this run is written, whatever its status.
FinishClaim(i, r, status) ==
    claim' = IF claim[i].run = r THEN [claim EXCEPT ![i].status = status] ELSE claim

-----------------------------------------------------------------------------
(* run_once, up to the start of the runner *)

\* The candidates are read and the head is taken.  The daemon does so at the
\* end of a tick; a request for "the next item" does the same.
FetchNext(t) ==
    /\ \/ t = Daemon /\ pc[t] = "poll" /\ UNCHANGED counters
       \/ /\ t \in Requests /\ pc[t] = "idle" /\ asked < MaxRequests
          /\ asked' = asked + 1 /\ UNCHANGED <<faults, crashes, moves>>
    /\ \E i \in Items :
        /\ IsHead(i)
        /\ Goto(t, "select")
        /\ my' = [my EXCEPT ![t].item = i]
    /\ UNCHANGED <<itemState, tables, recovering, history>>

\* A request to run one item sees that item alone, if it is Ready.
FetchOne(t, i) ==
    /\ t \in Requests /\ pc[t] = "idle" /\ asked < MaxRequests
    /\ itemState[i] = "Ready"
    /\ Goto(t, "select")
    /\ my' = [my EXCEPT ![t].item = i]
    /\ asked' = asked + 1
    /\ UNCHANGED <<itemState, tables, recovering, faults, crashes, moves, history>>

\* The daemon finds no candidate: the tick is over.
FetchNothing ==
    /\ pc[Daemon] = "poll"
    /\ \A i \in Items : itemState[i] # "Ready"
    /\ Return(Daemon)
    /\ UNCHANGED <<itemState, tables, recovering, counters, history>>

\* try_claim_item, first statement: an active row ends the tick, also when
\* other items are Ready.
SelectClaim(t) ==
    /\ pc[t] = "select"
    /\ \/ Active(my[t].item) /\ Return(t)
       \/ ~Active(my[t].item) /\ Goto(t, "insert") /\ UNCHANGED my
    /\ UNCHANGED <<itemState, tables, recovering, counters, history>>

\* Mutated: the upsert without "run_id = excluded.run_id".
InsertClaimKeepingRun(t) ==
    LET i == my[t].item IN
    /\ pc[t] = "insert" /\ nextRun \in Runs
    /\ claim' = [claim EXCEPT ![i].status = "active",
                              ![i].run = IF @ = NoRun THEN nextRun ELSE @]
    /\ old' = [old EXCEPT ![i] = FALSE]
    /\ runItem' = [runItem EXCEPT ![nextRun] = i]
    /\ nextRun' = nextRun + 1
    /\ my' = [my EXCEPT ![t].run = nextRun]
    /\ revoked' = IF Active(i) THEN revoked \cup {claim[i].run} ELSE revoked
    /\ Goto(t, "persist")
    /\ UNCHANGED <<itemState, runStatus, recovering, counters, finished>>

\* try_claim_item, second statement: the row is written whatever it is now.
InsertClaim(t) ==
    LET i == my[t].item IN
    /\ pc[t] = "insert" /\ nextRun \in Runs
    /\ claim' = [claim EXCEPT ![i] = [run |-> nextRun, status |-> "active"]]
    /\ old' = [old EXCEPT ![i] = FALSE]
    /\ runItem' = [runItem EXCEPT ![nextRun] = i]
    /\ nextRun' = nextRun + 1
    /\ my' = [my EXCEPT ![t].run = nextRun]
    /\ revoked' = IF Active(i) THEN revoked \cup {claim[i].run} ELSE revoked
    /\ Goto(t, "persist")
    /\ UNCHANGED <<itemState, runStatus, recovering, counters, finished>>

\* The run's row is created.
PersistRun(t) ==
    /\ pc[t] = "persist"
    /\ Persist(t, "queued")
    /\ Goto(t, "start")
    /\ UNCHANGED <<itemState, my, recovering, counters, history>>

\* The item is moved to Running, whatever its state is by now.
StartItem(t) ==
    /\ pc[t] = "start"
    /\ \/ Shows(my[t].item, "Running") /\ Goto(t, "confirmStart")
       \/ Hides /\ Goto(t, "confirmStart")
       \/ Raises(my[t].item, "Running") /\ Goto(t, "abortStart")
    /\ UNCHANGED <<tables, my, recovering, history>>

\* Mutated: an unconfirmed start is held without recording the run as stalled.
ConfirmStartSilently(t) ==
    /\ pc[t] = "confirmStart"
    /\ \/ /\ itemState[my[t].item] = "Running"
          /\ Goto(t, "prepare")
          /\ UNCHANGED counters
       \/ /\ itemState[my[t].item] # "Running"
          /\ Goto(t, "holdStart")
          /\ UNCHANGED counters
       \/ TrackerFault /\ Goto(t, "abortStart")
    /\ UNCHANGED <<itemState, tables, my, recovering, history>>

\* The comment, then up to four reads of the item's state.
ConfirmStart(t) ==
    /\ pc[t] = "confirmStart"
    /\ \/ /\ itemState[my[t].item] = "Running"
          /\ Goto(t, "prepare")
          /\ UNCHANGED <<counters, tables>>
       \/ /\ itemState[my[t].item] # "Running"
          /\ Persist(t, "stalled")
          /\ Goto(t, "holdStart")
          /\ UNCHANGED counters
       \/ TrackerFault /\ Goto(t, "abortStart") /\ UNCHANGED tables
    /\ UNCHANGED <<itemState, my, recovering, history>>

\* The start was not confirmed: a comment, and the claim is kept.
HoldStart(t) ==
    /\ pc[t] = "holdStart"
    /\ \/ Return(t) /\ UNCHANGED counters
       \/ TrackerFault /\ Goto(t, "abortStart") /\ UNCHANGED my
    /\ UNCHANGED <<itemState, tables, recovering, history>>

\* A tracker call raised before the runner started: the claim is ended, the
\* run's row and the item's state are left as they are.
AbortStart(t) ==
    /\ pc[t] = "abortStart"
    /\ FinishClaim(my[t].item, my[t].run, "failed")
    /\ finished' = finished \cup {my[t].run}
    /\ Return(t)
    /\ UNCHANGED <<itemState, old, runStatus, runItem, nextRun, recovering,
                   counters, revoked>>

-----------------------------------------------------------------------------
(* run_once, from the workspace to the end of the run *)

PrepareWorkspace(t) ==
    /\ pc[t] = "prepare"
    /\ Persist(t, "preparing_workspace")
    /\ Goto(t, "launch")
    /\ UNCHANGED <<itemState, my, recovering, counters, history>>

\* The worktree is there and the runner starts, or the local setup fails.
LaunchRunner(t) ==
    /\ pc[t] = "launch"
    /\ \/ Persist(t, "running_codex") /\ Goto(t, "running")
       \/ Goto(t, "handler") /\ UNCHANGED tables
    /\ UNCHANGED <<itemState, my, recovering, counters, history>>

\* The runner returns a result or raises.  The row is written again with the
\* status the RunRecord in memory still has.
RunnerReturns(t) ==
    /\ pc[t] = "running"
    /\ \/ \E o \in Outcomes \ {"blocked"} :
            /\ Persist(t, "running_codex")
            /\ my' = [my EXCEPT ![t].outcome = o]
            /\ Goto(t, "report")
       \/ Goto(t, "handler") /\ UNCHANGED <<tables, my>>
    /\ UNCHANGED <<itemState, recovering, counters, history>>

\* The run's final status is recorded; committing a success may fail instead.
ReportRun(t) ==
    /\ pc[t] = "report"
    /\ \/ Persist(t, FinalStatus(my[t].outcome)) /\ Goto(t, "publish")
       \/ my[t].outcome = "success" /\ Goto(t, "handler") /\ UNCHANGED tables
    /\ UNCHANGED <<itemState, my, recovering, counters, history>>

\* The except branch: the run is recorded as blocked.
HandleException(t) ==
    /\ pc[t] = "handler"
    /\ Persist(t, "blocked")
    /\ my' = [my EXCEPT ![t].outcome = "blocked"]
    /\ Goto(t, "publish")
    /\ UNCHANGED <<itemState, recovering, counters, history>>

\* An exception goes to the except branch; one raised there leaves run_once
\* and the claim stays active.
Except(t) ==
    \/ my[t].outcome # "blocked" /\ Goto(t, "handler") /\ UNCHANGED my
    \/ my[t].outcome = "blocked" /\ Return(t)

\* The comment and the item's final state.  A question is not confirmed.
PublishState(t) ==
    LET s == FinalItemState(my[t].outcome)
        next == IF my[t].outcome = "needs_input" THEN "finish" ELSE "confirm"
    IN
    /\ pc[t] = "publish"
    /\ \/ (Shows(my[t].item, s) \/ Hides) /\ Goto(t, next) /\ UNCHANGED my
       \/ Raises(my[t].item, s) /\ Except(t)
    /\ UNCHANGED <<tables, recovering, history>>

ConfirmState(t) ==
    LET confirmed == itemState[my[t].item] = FinalItemState(my[t].outcome) IN
    /\ pc[t] = "confirm"
    /\ \/ Goto(t, IF confirmed THEN "finish" ELSE "hold") /\ UNCHANGED <<my, counters>>
       \/ TrackerFault /\ Except(t)
    /\ UNCHANGED <<itemState, tables, recovering, history>>

\* The final state was not confirmed: a comment, and the claim is kept.
HoldState(t) ==
    /\ pc[t] = "hold"
    /\ \/ Return(t) /\ UNCHANGED counters
       \/ TrackerFault /\ Except(t)
    /\ UNCHANGED <<itemState, tables, recovering, history>>

FinishRun(t) ==
    /\ pc[t] = "finish"
    /\ FinishClaim(my[t].item, my[t].run, ClaimResult(my[t].outcome))
    /\ finished' = finished \cup {my[t].run}
    /\ Return(t)
    /\ UNCHANGED <<itemState, old, runStatus, runItem, nextRun, recovering,
                   counters, revoked>>

RunStep(t) ==
    \/ SelectClaim(t) \/ InsertClaim(t) \/ PersistRun(t) \/ StartItem(t)
    \/ ConfirmStart(t) \/ HoldStart(t) \/ AbortStart(t) \/ PrepareWorkspace(t)
    \/ LaunchRunner(t) \/ RunnerReturns(t) \/ ReportRun(t) \/ HandleException(t)
    \/ PublishState(t) \/ ConfirmState(t) \/ HoldState(t) \/ FinishRun(t)

-----------------------------------------------------------------------------
(* The daemon's tick: stale claims are released and recorded, then run_once *)

\* Mutated: claims of runs that are no longer recorded as active are left alone.
StaleOfActiveRuns == {i \in Items : /\ Active(i) /\ old[i]
                                    /\ runStatus[claim[i].run] \in ActiveRunStatus}

\* Mutated: only items shown as Running are looked after.
StaleOfRunningItems == {i \in Items : Active(i) /\ old[i] /\ itemState[i] = "Running"}

Stale == {i \in Items : Active(i) /\ old[i]}

\* release_stale_claims, first statement: the stale rows are read,
SelectStaleClaims ==
    /\ pc[Daemon] = "idle"
    /\ recovering' = {<<i, claim[i].run>> : i \in Stale}
    /\ Goto(Daemon, "release")
    /\ UNCHANGED <<itemState, tables, my, counters, history>>

\* ... then one transaction releases those that still stand as they were read.
\* The daemon goes on with every row it read.
ReleaseStaleClaims ==
    LET released == {i \in Items : Active(i) /\ <<i, claim[i].run>> \in recovering} IN
    /\ pc[Daemon] = "release"
    /\ claim' = [i \in Items |->
                    IF i \in released THEN [claim[i] EXCEPT !.status = "stale"]
                    ELSE claim[i]]
    /\ revoked' = revoked \cup {claim[i].run : i \in released}
    /\ Goto(Daemon, "reconcile")
    /\ UNCHANGED <<itemState, old, runStatus, runItem, nextRun, my, recovering,
                   counters, finished>>

\* _record_stale_claim, for each claim of the list: the run is read,
RecoverClaim ==
    /\ pc[Daemon] = "reconcile"
    /\ \E c \in recovering :
        /\ recovering' = recovering \ {c}
        /\ my' = [my EXCEPT ![Daemon] =
                    [Fresh EXCEPT !.item = c[1], !.run = c[2],
                                  !.active = runStatus[c[2]] \in ActiveRunStatus]]
    /\ Goto(Daemon, "recoverMark")
    /\ UNCHANGED <<itemState, tables, counters, history>>

\* ... recorded as stalled if it was active,
RecoverMark ==
    /\ pc[Daemon] = "recoverMark"
    /\ IF my[Daemon].active THEN Persist(Daemon, "stalled") ELSE UNCHANGED tables
    /\ Goto(Daemon, "recoverFetch")
    /\ UNCHANGED <<itemState, my, recovering, counters, history>>

\* ... the item is read; if that fails the claim is passed over,
RecoverFetch ==
    /\ pc[Daemon] = "recoverFetch"
    /\ \/ /\ itemState[my[Daemon].item] = "Running"
          /\ Goto(Daemon, "recoverMove")
          /\ UNCHANGED <<my, counters>>
       \/ /\ itemState[my[Daemon].item] # "Running"
          /\ NextClaim(Daemon)
          /\ UNCHANGED counters
       \/ TrackerFault /\ NextClaim(Daemon)
    /\ UNCHANGED <<itemState, tables, recovering, history>>

\* ... and an item that was Running is moved to Needs Input.
RecoverMove ==
    LET i == my[Daemon].item IN
    /\ pc[Daemon] = "recoverMove"
    /\ Shows(i, "Needs Input") \/ Hides \/ Raises(i, "Needs Input")
    /\ NextClaim(Daemon)
    /\ UNCHANGED <<tables, recovering, history>>

\* Every released claim is recorded: the daemon goes on to dispatch.
Reconciled ==
    /\ pc[Daemon] = "reconcile" /\ recovering = {}
    /\ Goto(Daemon, "poll")
    /\ UNCHANGED <<itemState, tables, my, recovering, counters, history>>

DaemonStep ==
    \/ SelectStaleClaims \/ ReleaseStaleClaims \/ RecoverClaim \/ RecoverMark
    \/ RecoverFetch \/ RecoverMove \/ Reconciled \/ FetchNext(Daemon) \/ FetchNothing

-----------------------------------------------------------------------------
(* Retry and cancel, each in a handler thread of the API *)

\* A request for an item: its run in hand is r, or none.
Request(t, i, r, step) ==
    /\ t \in Requests /\ pc[t] = "idle" /\ asked < MaxRequests
    /\ asked' = asked + 1
    /\ my' = [my EXCEPT ![t] =
                [Fresh EXCEPT !.item = i, !.run = r,
                   !.active = r # NoRun /\ runStatus[r] \in ActiveRunStatus]]
    /\ Goto(t, step)
    /\ UNCHANGED <<itemState, tables, recovering, faults, crashes, moves, history>>

\* The latest run's claim is released,
RetryItem(t, i) ==
    \/ Rows(i) = {} /\ Request(t, i, NoRun, "retryReady")
    \/ \E r \in Runs : IsLatest(r, i) /\ Request(t, i, r, "retryRelease")

RetryRelease(t) ==
    /\ pc[t] = "retryRelease"
    /\ FinishClaim(my[t].item, my[t].run, "retry_requested")
    /\ revoked' = revoked \cup {my[t].run}
    /\ Goto(t, "retryMark")
    /\ UNCHANGED <<itemState, old, runStatus, runItem, nextRun, my, recovering,
                   counters, finished>>

\* ... the run is asked to cancel if it was active when it was read,
RetryMark(t) ==
    /\ pc[t] = "retryMark"
    /\ IF my[t].active THEN Persist(t, "cancel_requested") ELSE UNCHANGED tables
    /\ Goto(t, "retryReady")
    /\ UNCHANGED <<itemState, my, recovering, counters, history>>

\* ... and the item is moved to Ready.
RetryReady(t) ==
    LET i == my[t].item IN
    /\ pc[t] = "retryReady"
    /\ Shows(i, "Ready") \/ Hides \/ Raises(i, "Ready")
    /\ Return(t)
    /\ UNCHANGED <<tables, recovering, history>>

\* Cancel names an item, whose latest run it takes, or any run.
CancelItem(t, i) ==
    \/ Rows(i) = {} /\ Request(t, i, NoRun, "cancelMove")
    \/ \E r \in Rows(i) : Request(t, i, r, "cancelRequest")

CancelRequest(t) ==
    /\ pc[t] = "cancelRequest"
    /\ Persist(t, "cancel_requested")
    /\ Goto(t, "cancelRelease")
    /\ UNCHANGED <<itemState, my, recovering, counters, history>>

CancelRelease(t) ==
    /\ pc[t] = "cancelRelease"
    /\ FinishClaim(my[t].item, my[t].run, "cancel_requested")
    /\ revoked' = revoked \cup {my[t].run}
    /\ Goto(t, "cancelMark")
    /\ UNCHANGED <<itemState, old, runStatus, runItem, nextRun, my, recovering,
                   counters, finished>>

CancelMark(t) ==
    /\ pc[t] = "cancelMark"
    /\ Persist(t, "cancelled")
    /\ Goto(t, "cancelMove")
    /\ UNCHANGED <<itemState, my, recovering, counters, history>>

CancelMove(t) ==
    LET i == my[t].item IN
    /\ pc[t] = "cancelMove"
    /\ Shows(i, "Needs Input") \/ Hides \/ Raises(i, "Needs Input")
    /\ Return(t)
    /\ UNCHANGED <<tables, recovering, history>>

RequestStep(t) ==
    \/ RetryRelease(t) \/ RetryMark(t) \/ RetryReady(t)
    \/ CancelRequest(t) \/ CancelRelease(t) \/ CancelMark(t) \/ CancelMove(t)

Arrive(t) ==
    \/ FetchNext(t) /\ t \in Requests
    \/ \E i \in Items : FetchOne(t, i) \/ RetryItem(t, i) \/ CancelItem(t, i)

-----------------------------------------------------------------------------
(* Time, people and crashes *)

\* A claim has not been touched for the TTL.
ClaimAges(i) ==
    /\ Active(i) /\ ~old[i]
    /\ old' = [old EXCEPT ![i] = TRUE]
    /\ UNCHANGED <<itemState, claim, runStatus, runItem, nextRun, threads, counters,
                   history>>

\* Someone moves an item to Ready, or accepts it, in the tracker.
HumanMoves(i) ==
    /\ moves < MaxMoves
    /\ moves' = moves + 1
    /\ \E s \in {"Ready", "Done"} : itemState' = [itemState EXCEPT ![i] = s]
    /\ UNCHANGED <<tables, threads, faults, crashes, asked, history>>

\* The process the daemon and the API run in dies and is started again.
Crash ==
    /\ crashes < MaxCrashes
    /\ crashes' = crashes + 1
    /\ pc' = [t \in Threads |-> "idle"]
    /\ my' = [t \in Threads |-> Fresh]
    /\ recovering' = {}
    /\ UNCHANGED <<itemState, tables, faults, moves, asked, history>>

-----------------------------------------------------------------------------
Next ==
    \/ \E t \in Threads : RunStep(t)
    \/ DaemonStep
    \/ \E t \in Requests : RequestStep(t) \/ Arrive(t)
    \/ \E i \in Items : ClaimAges(i) \/ HumanMoves(i)
    \/ Crash

Spec == Init /\ [][Next]_vars

\* The daemon loops, handlers run to their end, runners return or time out, and
\* claims grow old.  Nothing obliges a request, a human or a crash to come.
Fairness ==
    /\ WF_vars(DaemonStep)
    /\ \A t \in Threads : WF_vars(RunStep(t))
    /\ \A t \in Requests : WF_vars(RequestStep(t))
    /\ \A i \in Items : WF_vars(ClaimAges(i))

FairSpec == Spec /\ Fairness

-----------------------------------------------------------------------------
(* Properties *)

TypeOK ==
    /\ itemState \in [Items -> ItemStates]
    /\ claim \in [Items -> [run : Runs \cup {NoRun}, status : ClaimStatus]]
    /\ old \in [Items -> BOOLEAN]
    /\ runStatus \in [Runs -> RunStatus]
    /\ runItem \in [Runs -> Items \cup {NoItem}]
    /\ nextRun \in 1..(MaxRuns + 1)
    /\ pc \in [Threads -> Steps]
    /\ my \in [Threads -> Locals]
    /\ recovering \subseteq Items \X Runs
    /\ faults \in 0..MaxFaults /\ crashes \in 0..MaxCrashes
    /\ moves \in 0..MaxMoves /\ asked \in 0..MaxRequests
    /\ revoked \subseteq Runs /\ finished \subseteq Runs

\* A run holds its item's claim from try_claim_item to its own finish_claim,
\* whoever else finishes, retries or crashes meanwhile, unless the claim was
\* taken from that very run: by a stale release, a retry or a cancel naming it,
\* or by a second dispatcher between the two statements of try_claim_item.
ClaimLostOnlyByRevocation ==
    \A r \in Runs : r < nextRun =>
        \/ r \in revoked \cup finished
        \/ claim[runItem[r]] = [run |-> r, status |-> "active"]

\* While no tracker call has failed and the process has not crashed, an item
\* shown as Running has a thread that will still move it on, and a run recorded
\* as active has a thread at work on it, unless a retry asked it to cancel.
NothingLeaksWithoutFaults ==
    faults = 0 /\ crashes = 0 =>
        /\ \A i \in Items : itemState[i] = "Running" =>
              \E t \in Threads : Executing(t) /\ my[t].item = i
        /\ \A r \in Runs : runStatus[r] \in ActiveRunStatus \ {"cancel_requested"} =>
              \E t \in Threads : Executing(t) /\ my[t].run = r

\* An item shown as Running is being run, or its claim will grow stale, or the
\* daemon has just released it and is still to move it.
RunningItemIsRecoverable ==
    \A i \in Items : itemState[i] = "Running" =>
        \/ \E t \in Threads : Executing(t) /\ my[t].item = i
        \/ Active(i)
        \/ \E c \in recovering : c[1] = i
        \/ pc[Daemon] \in {"recoverMark", "recoverFetch", "recoverMove"}
              /\ my[Daemon].item = i

\* The claims table implements the lease: no run is granted a claim twice, and
\* none comes back to a run it was taken from.
Lease == INSTANCE ClaimLease WITH
    holder  <- [i \in Items |-> IF Active(i) THEN claim[i].run ELSE NoRun],
    granted <- 1..(nextRun - 1)

LeaseSpec == Lease!Spec

\* product-design.md: "duplicate claims are rejected".
DuplicateClaimsRejected ==
    [][\A i \in Items : Active(i) => claim'[i].run = claim[i].run]_claim

\* A cancelled run stays cancelled: RUN_TRANSITIONS has no way out of it.
CancelledIsFinal ==
    [][\A r \in Runs : runStatus[r] = "cancelled" => runStatus'[r] = "cancelled"]_runStatus

\* product-design.md: "active claims have a TTL".
ActiveClaimEnds ==
    \A i \in Items : Active(i) ~> ~Active(i)

\* A Ready item is taken up, also one behind an item whose claim is held.
ReadyItemIsTaken ==
    \A i \in Items : itemState[i] = "Ready" ~> itemState[i] # "Ready"

\* A run that was asked to cancel ends as cancelled or otherwise.
CancelRequestIsAnswered ==
    \A r \in Runs : runStatus[r] = "cancel_requested" ~> runStatus[r] # "cancel_requested"

=============================================================================
