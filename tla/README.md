# codex-fleet in TLA+

codex-fleet takes work items from a tracker (Plane), runs Codex on each in a git
worktree, and moves the items through *Ready → Running → Human Review / Needs Input*.
This directory holds TLA+ models of its concurrent core, the TLC configurations that
check them, and proofs that TLAPS checks. Everything is translated from
`src/src/codex_fleet/` (below, file names without a path are in that directory).

## 1. The system

The repository has about 5,100 files, of which some 4,900 are a vendored copy of Plane
under `apps/plane`. The program itself is `src/codex_fleet`, about 16,500 lines of Python.

| Component | State it keeps | Operations | Talks to |
|---|---|---|---|
| **Dispatch** (`orchestrator.py`, `store.py`) | sqlite tables `claims`, `runs`; the state of items on the tracker; a `RunRecord` in memory | `run_once`: pick a candidate, `try_claim_item`, start, run, finish or fail, `finish_claim` | tracker, store, worktrees, runner |
| **Daemon loop** (`daemon.py`) | nothing between ticks | `tick`: release and record stale claims, look for answers, complete parents, `run_once` | store, tracker, dispatch |
| **Local API** (`local_api.py`) | a handler thread per request | run next / run item, retry, cancel, answer input, settings, delivery; many read-only payloads | the same store, tracker and dispatch, in the daemon's process (`cli/main.py:866-910`) |
| **Questions and answers** (`orchestrator.py`, `daemon.py`, `local_api.py`, `store.py`) | table `needs_input_items`, `human_answers` in table `task_metadata`, comments on the tracker | ask, reply, resolve, attach the answer, resume | daemon loop, API, people |
| **Task graph** (`orchestrator.py`, `planner.py`) | table `task_metadata`: parent, dependencies, generation, outcome | planner children, dependency gate, completion of parents, full-auto recovery and repair | tracker, store, delivery |
| **Multi-project polling** (`daemon.py`, `project_registry.py`) | registered projects | one tick for each project, with a shared budget | a daemon per project |
| **Codex App Server client** (`codex/`) | JSON-RPC ids, the buffer of messages | start a thread, start a turn, await messages until `turn/completed` | the codex process |
| **Runner** (`runner.py`, prompts, proofs, context) | none | builds a prompt, runs the client, parses the result | App Server client |
| **Worktrees** (`workspace.py`) | git worktrees and branches | create, reuse, prune, commit | git |
| **Trackers** (`tracker.py`, `plane.py`, `local_work_items.py`) | the items, states and comments | list, read, move, comment; retries with backoff | Plane over HTTP |
| **Delivery** (`local_api.py`; `pr_flow.py`, `github.py` for the CLI) | the main worktree and its branches, the delivery task's settings | create a delivery task; complete it: merge the branch, remove the worktree, record, move to Done | git, tracker, store |
| **Project registry, Plane set-up, CLI, configuration, doctor, harness, views** | files and small tables | start-up, I/O, formatting | everything |

Where the hard behaviour is:

* **Interleaving.** The daemon's thread and the API's handler threads work on the same
  tables with no lock around a handler. Every statement on the store is a transaction of
  its own, and each tracker call lies between two of them. What a handler read before a
  call it uses after it.
* **Partial failure.** A handler is a series of writes to two systems, sqlite and Plane,
  and any call to Plane may raise, before or after it took effect, or return without the
  new state being visible (`_confirm_item_state` exists because of that).
* **Crash and restart.** The whole process may die between any two steps. What is in
  memory (the `RunRecord`, the list of claims just released, the list of open questions)
  is lost; the claims' TTL is the only way back.
* **Liveness.** A tick takes the head of the candidate list or nothing. Whatever stays at
  the head without ending holds everything else back.

What makes each part correct:

* *Dispatch*: one run at a time per item; a claim ends only by its holder's own finish or
  by a revocation of that very claim; each claim ends; a Ready item is taken up; a state
  once final stays so; nothing is left Running that nobody works on or will recover.
* *Questions*: an answer belongs to the question it is recorded for; a resolved question's
  answer reaches the next run; a reply resumes the item; nothing else does, but a person.
* *Task graph*: no child created twice; a task runs after its dependencies; a parent is
  completed once, when its children are; repairs are bounded; no cycle of waiting.
* *Polling*: no project starves. *App Server*: no message of a turn is lost, a turn ends.
  *Worktrees*: two runs never share one. *Delivery*: a merged branch is recorded as
  merged, and a repeated request finishes what a failed one began. *Tracker client*: a
  retried request takes effect at most once.

`PROJECT.json` lists the components with their status and the hazards with their lines.

## 2. The plan

Modules, most important first. A module that is proved about has its parameters as
constants with named assumptions, one action per operation, and no RECURSIVE operator.

| Module | What | Extends, implements | Proofs |
|---|---|---|---|
| `Dispatch` | claim, run, finish, recovery, retry, cancel | implements `ClaimLease` | `DispatchProofs` |
| `NeedsInput` | questions and answers | | `NeedsInputProofs` |
| `TaskGraph` | splitting, dependencies, repairs, completion | implements `TaskOrder` | `TaskGraphProofs`, `TaskGraphLimits`, `TaskOrderProofs` |
| `AppServer` | one turn of the client | | `AppServerProofs` |
| `Polling` | the daemon's ticks over several projects | extends `AppServer` | `PollingProofs` |
| `Delivery` | worktrees, branches, delivery | | `DeliveryProofs` |

Left for later: the fleet's pages in Plane's web application; the registry's tables.

The modules meet at the claim of an item. `Dispatch` models it statement by statement;
`NeedsInput`, `TaskGraph` and `Delivery` take "this thread runs this item" as one step,
and each keeps in full what `Dispatch` reduces to one: the questions, the splitting of
requests, the worktree. `Polling` composes the daemon's tick with the turn it waits for.

## 3. Module `Dispatch`

| Variable | In the code |
|---|---|
| `itemState` | the state of each item on the tracker |
| `claim`, `old` | table `claims`: run and status of each row; whether `updated_at` is behind the TTL |
| `runStatus`, `runItem`, `nextRun` | table `runs`; a new id for every `RunRecord` |
| `pc`, `my` | where a thread's handler is, and its locals (item, run, outcome, a status it read) |
| `recovering` | the list `release_stale_claims` returned, in the daemon's memory |
| `faults`, `crashes`, `moves`, `asked` | bounds |
| `revoked`, `finished` | history: whose claim was taken; who finished |

An action is one transaction or one tracker call. `FetchNext`, `FetchOne` and
`FetchNothing` read the candidates; `SelectClaim` and `InsertClaim` are the two statements
of `try_claim_item`; `PersistRun`, `StartItem`, `ConfirmStart`, `HoldStart`, `AbortStart`
lead to the runner; `PrepareWorkspace`, `LaunchRunner`, `RunnerReturns` surround it;
`ReportRun`, `HandleException`, `PublishState`, `ConfirmState`, `HoldState`, `FinishRun`
end the run. `SelectStaleClaims`, `ReleaseStaleClaims`, `RecoverClaim`, `RecoverMark`,
`RecoverFetch`, `RecoverMove`, `Reconciled` are the start of a tick. `Retry*` and `Cancel*`
are the two API handlers. `ClaimAges` is the TTL, `HumanMoves` a person on the board,
`Crash` the death of the process. Operators named as mutations stand beside the definition
they would replace; no specification uses them.

What the model abstracts:

* The runner returns any outcome or raises. A tracker call shows, hides or raises (before
  or after it took effect). sqlite does not fail; events and artifacts are left out.
* The latest run of an item is the one with the highest number. In the code `created_at`
  has a resolution of a second and ties are broken by the uuid.
* The released claims are recorded in any order. A failure while the candidates are read
  just ends the tick, which changes nothing and is left out.
* One `run_once` follows one reconciliation, as `MultiProjectFleetDaemon` does it for each
  project. `FleetDaemon.tick_many` may repeat `run_once` without reconciling.
* Full auto, children and planner runs are in `TaskGraph`, questions in `NeedsInput`.

`ClaimLease` is the promise in a page: an item's holder is granted a run that was never
granted before, may replace another holder only by such a grant, and a holder that ends is
gone for good. `Dispatch` implements it with
`holder[i] = IF claim[i] is active THEN claim[i].run ELSE none` and `granted = 1..nextRun-1`.
The lease does not say that a holder is never replaced: the code does not ensure it (below).

### What the runs show

| Run | Bounds | Checks |
|---|---|---|
| `dispatch_safety` | 1 item, the daemon and 1 API thread, 2 runs, 1 tracker failure, 1 move by a person, 2 requests | `TypeOK`; `ClaimLostOnlyByRevocation`; `NothingLeaksWithoutFaults`; `LeaseSpec` |
| `dispatch_recovery` | 2 items, the daemon, 6 runs, 2 tracker failures, 1 crash | `ActiveClaimEnds`; `ReadyItemIsTaken` |
| `dispatch_duplicate_claim` | 1 item, daemon and 1 API thread | violates `DuplicateClaimsRejected` |
| `dispatch_cancel_overwritten` | 1 run, 1 request | violates `CancelledIsFinal` |
| `dispatch_crash_in_recovery` | 1 run, 2 crashes | violates `RunningItemIsRecoverable` |
| `dispatch_retry_leaves_run` | 2 runs, 1 request | violates `CancelRequestIsAnswered` |

The bounds are enough for what they are for: the claim, its loss and its revocation concern
one item and at most two runs of it, an old one and a new one, held by two threads; a third
thread adds no new pair. A held claim blocks other items only if there is a second item; it
takes one failure to hold it and a second one (or a crash) to fail again during recovery.
Six runs let every failure and crash be followed by a fresh attempt on both items. The
crash is in `dispatch_recovery`; the safety properties with crashes are proved (section 8).

`CHECK_DEADLOCK FALSE` everywhere: when `MaxRuns` is used up, a dispatcher stops before its
INSERT, and no request or person need ever come.

Fairness: weak fairness on the daemon's steps (`run_forever` loops, and a tick's errors are
caught by the multi-project loop), on the steps of a run and of a request (the threads run,
and the runner has a timeout), and on `ClaimAges` (time passes). None on requests, people
or crashes. No strong fairness anywhere.

### Where the code and its documents differ

* **A claim can be granted twice** (`store.py:459`). The SELECT and the upsert of
  `try_claim_item` are not in one transaction: Python's sqlite3 opens one at the first
  write. Two threads that both read "not active" both get `True`, and the item runs twice
  in the same worktree. `docs/product-design.md:406` says duplicate claims are rejected.
  Calling `try_claim_item` from two threads released by a barrier on a fresh store
  reproduced it in 213 of 300 trials.
* **A cancelled run does not stay cancelled** (`orchestrator.py:163`): the thread at work on
  it writes its next status over it.
* **A crash during recovery loses the item** (`daemon.py:117`): stale claims are released
  in one transaction and the items moved afterwards from memory.
* **A retried run stays `cancel_requested`** (`local_api.py:2637`): the document says
  cancelled, and nothing turns one into the other.

## 4. Module `NeedsInput`

One item. `rows` is table `needs_input_items`: the runs in the order in which they asked,
`askedAt` the column `asked_at`, `resolved` the rows with a `resolved_at`, `answers` the
list `human_answers` of the item's settings, `pending` the open questions the daemon has
listed and not yet looked at. `claimed` and `lastRun` stand for the claim and the latest run.
`comments[c]` is how many questions had been asked when people's comment *c* was made, which
is what really happened; `dates[c]` and `askedAt` are what the code can see of it, the second
`now` of the comment, or no date, and the second of the question.

`MayAnswer` is the comparison of `_is_human_answer_comment`. sqlite's `current_timestamp`
writes `asked_at` without fractions (`store.py:244`) and Plane dates comments to the
microsecond, so a comment made in the second of the question is later than `asked_at` even
if it was made first; and a comment without a date is always accepted (`daemon.py:391`).
An `asked_at` that cannot be parsed does not occur, as sqlite writes it. The questions of one
second are listed in the order of their run ids, which is any. The clocks of the tracker and
of the store are taken as one, in UTC. `SecondPasses` only between a comment and a later
question, since nothing else tells two seconds apart: a comment that comes after a question
passes for its answer in the same second and in every later one, and two questions, or two
comments, in one second are in any order anyhow.

`RunAsks`, `PublishQuestion`, `BlockRun`, `FinishRun` are the needs-input branch of
`run_once`, whose move to Needs Input is, unlike all others, not confirmed. `ListOpen`,
`NextPending`, `ReadComments` are `reconcile_needs_input_answers`; `AnswerItem`,
`FollowUp`, `RereadQuestion`, `CommentAnswer` the API's `answer-input`. Both go through
`ResolveQuestion`, `ReadAnswers`, `WriteAnswers`, `MakeReady`, the daemon resolving first and
the API last. `RecoverItem` is the stale-claim recovery in one step.

The answer is the first reply in `reversed(comments)`. Plane lists the newest comment
first, so that is the *earliest* reply there, and the latest with `MemoryTracker`; the model
allows either.

| Run | Bounds | Checks |
|---|---|---|
| `needs_input_answers` | 2 runs, 2 comments, 2 seconds, 1 retry, 1 request, 1 tracker failure, 1 crash (1,133,525 states) | `TypeOK`; `AnswersFollowQuestions`; `ResolvedIsAttached`; `ReplyIsNoticed`; `ReplyResumesWithoutFaults` |
| `needs_input_reply_lost` | 1 run, 1 comment, 1 tracker failure | violates `ReplyResumes` |
| `needs_input_old_question` | 2 runs, 1 comment, 2 seconds, 1 retry, no failure | violates `ResumesOnlyWhenAnswered` |

Two runs give an old question and a new one, two comments a remark before and a reply after
each, two seconds a remark that is recognised as older and one that is not; the other bounds
allow one of every disturbance at any point, and all together. The limit of ten kept answers
is in the model but is not reached within these bounds; an answer that it has pushed out is
the exception in `ResolvedIsAttached`, which is proved with it.

* **A reply can be lost** (`daemon.py:163`). The question is marked resolved before the item
  is moved. If the comment or the move fails, or the process dies, the item stays in Needs
  Input with no open question, and no later tick looks at it, though the question's comment
  promises that codex-fleet resumes by itself. Answering through the API then fails at
  `assert pending is not None` (`local_api.py:2579`), because `record_needs_input` does not
  reopen a resolved row. Only a retry helps.
* **An old question can swallow the resumption** (`daemon.py:124`). A retry leaves the
  retried run's question open. A comment made between it and the next run's question
  answers the old one, and the item is resumed with the new one unanswered: the comment is
  dated a second before the new question, and the code itself would not take it for an
  answer to that one (`Replies(lastRun) = {}`).
* Admitted by `AnswersFollowQuestions`: a remark made just before the question, in its
  second, and an older one that the tracker gives no date, are attached as its answer. What
  is left, and what the property and the theorem say, is that a comment with a date is never
  attached to a question of a later second.
* Not claimed by any property: the daemon and the API may overwrite each other's entry in
  `human_answers`, which each reads and writes back in two transactions. The premise of
  `ResolvedIsAttached` leaves API requests out for that reason.

## 5. Module `TaskGraph`

`items` is the tracker (kind, state, depth in the description, the dependencies its creator
has in mind), `meta` table `task_metadata`, `claims` the active claims, `pc` and `my` the
threads. Creating a task is two steps, as in the code: the item, up for dispatch at once,
then its row with parent, depth and dependencies. `BeginRunOnce`, `Deliver`, `DeliverMeta`,
`CloseRoot` are the start of `run_once`, which accepts children and completes a full-auto
request; `Pick` chooses an item, which waits (`ParentWaits`), is split (`SplitRequest`,
`CreatePlanner`, `PlannerMeta`, `PlannerMove`) or run (`StartRun`). `RunProposes`,
`RunSucceeds`, `RunBlocked` are the outcomes of a run; `CreateTask`, `TaskMeta`, `Proposed`
are `_create_proposed_tasks`; `CreateRepair`, `RepairMeta`, `RepairMove` the repair; `Settle`
the end. `Reconcile` is `reconcile_completed_parents`, `ReleaseClaim` the recovery of a claim
whose thread is gone. A failing call (`Fault`) or a creation whose answer is lost and which is
repeated, a request of the API and a crash are *disturbances*.

`TaskOrder` is the promise in a page: a task is added with what it needs, started when that
is finished, and the request is closed when every task is. Undisturbed, `TaskGraph`
implements it, with `needs` what the planner meant, not what the table holds.

| Run | Bounds | Checks |
|---|---|---|
| `task_graph_order` | all four modes; plans of one task that names itself, and of two that name each other; 9 items, 2 planning runs, depth 2, 1 repair, 1 move by a person, 1 disturbance, the daemon and 1 API thread | `TypeOK`; `CreatedOnce`; `RepairsBounded`; `ClosedOnlyWithWork`; `OrderIsKept`; `RequestEnds` |

Two planning runs give the planner and one follow-up; two tasks that name each other give a
dependency that holds and one that is dropped; one repair allowed, so that the second is
refused; the disturbance may come at every step. With two disturbances the state space is
out of reach, so *two* faults in a row are not checked. The code's repair limit is 2
(`orchestrator.py:1040`). Fairness: the daemon ticks and its runs end (weak fairness), a claim
whose thread is gone is released at some tick (strong: the daemon is
not idle all the time, but a claim past its TTL stays past it). Nothing is asked of a handler thread.

What the properties allow, because the code does it:

* A request of the API that creates the planner item races with the daemon, which runs the
  planner before its row exists; its tasks become children of the planner, not of the
  request. When the row is written the request has a finished child and nothing else, and
  full auto closes it while those tasks are Ready. `docs/agent-orchestration.md:65` has the
  request move to Done when "all required children passed". Hence the premise
  `asked = 0` of `ClosedOnlyWithWork`.
* A handler's late move to Planning reopens a request that was closed meanwhile, and it is
  closed, and gets a delivery task, once more. Hence `asked = 0` in `CreatedOnce`.
* A planner all of whose tasks fail to be created counts as done: full auto closes the
  request with nothing done (premise `faults = 0`).
* A blocked task that full auto replaces by a repair is moved to Done, and so its dependents
  start before the repair has.
* A task whose name occurs in its own dependencies waits for itself, and nothing reports it.
  Names of later tasks are dropped, with no trace but an event.
* A creation that is repeated after a lost answer (`plane.py:231`) leaves an item without a
  row, which runs with no dependencies, as a request of its own.
* `max_total_agent_created_tasks_per_parent` is a setting nothing reads at run time.

Left out: disabled roles, suggested states, cancellation, and the events that say which
child a parent waits for.

## 6. Modules `AppServer` and `Polling`

`AppServer` is one turn. `step` is the read the client is in (the answers to `initialize`,
`thread/start`, `turn/start`, then the end of the turn), `lines` what the server has written
and the client not taken (pipe and reader queue are one), `left` the time to this read's
deadline. `StartTurn`, `Send`, `ReadAnswer`, `Await`, `ReadEnd`, `TimedOut` are
`_run_protocol` with `_read_response` and `_wait_for_turn`; `TurnOver` the `finally` that
terminates the process. The server may answer, refuse, talk, end the turn and exit in any
order; the three things it may not do are answering what it was not asked, ending a turn it
was not sent, and ending it twice.

`Polling` extends it with the daemon of several projects: `cursor` is the place in the fixed
order, `remaining` the shared budget, `elapsed` the time in this tick. `BeginTick` is
`_project_configs`, `Raises`, `NothingDispatched`, `Dispatches`, `TurnTaken` and `TurnRaises`
the body of `tick_many`. A project may be unlinked, down, or have its first item claimed.
A turn is taken from the budget only if `tick` returns (`daemon.py:470`). When the tracker
can be told neither the outcome of the run nor, in the except branch, that this failed
(`orchestrator.py:377-393`), `run_once` raises, `tick_many` records an error and goes on, and
the budget is as before: that is `TurnRaises`, and `raised` counts it.

| Run | Bounds | Checks |
|---|---|---|
| `polling_turns` | 2 projects, a budget of 1, timeout of 2 ticks, 1 line of talk, 1 project in trouble at a time (367,808 states) | `TypeOK`; `OutcomeIsServers`; `EndIsNotMissed`; `TickBounded`; `FirstAreNotCutOff`; `Served` |

A budget of one with two projects is the smallest in which one project is behind the budget.
A timeout of two lets a line arrive before, at and after a deadline. Three projects are out
of TLC's reach with the turns; the theorems (section 8) hold for any number. Fairness: the
daemon's thread runs, the client's reads proceed and time passes (weak). Nothing is asked of
the server.

What the properties allow:

* A tick may take more than `max_concurrent_agents` turns: one more for each run that raised
  after its turn. `TickBounded` counts them in, and says besides that no project has more
  than one turn in a tick.
* A project behind the first `max_concurrent_agents` may starve, if those before it always
  have work: `Served` and `FirstAreNotCutOff` say exactly which are safe.
* A turn that the server ends before it answers `turn/start` is dropped by
  `_read_response`, and the client waits for its timeout.
* A turn takes up to four timeouts, one for each read; a claim's TTL is one
  (`daemon.py:299-302`). A slow turn may be recovered as stale while it runs, which is in
  `Dispatch`.
* A refusal raises `ProtocolError`, which the runner does not catch
  (`runner.py:126`): the orchestrator's `except` does.

## 7. Module `Delivery`

A branch is the set of the changes committed on it, and `work` what lies uncommitted in a
worktree. `branch`, `tree`, `head`, `main`, `untidy` are the rest of what git has: branches,
worktrees, and what the main checkout is on and how. `claimed`, `using`, `latest`, `passed`
belong to the runs of the tasks: a run that is to get its worktree, the worktree it works in,
the branch the latest run recorded, and whether that run is recorded as succeeded. `accepted`
is what the tracker shows of the task's item: Human Review or Done. `target`, `item`,
`status` belong to the delivery item, `pc`, `my` to the handlers.

A run is claimed, gets its worktree, changes files, and ends, with other actors in between:

| Action | In the code |
|---|---|
| `Claim` | the candidates of `run_once`, without those that `_dependency_blocked` holds back by the *state of the dependency's item* (`orchestrator.py:643`), and the claim. The list may be out of date by then |
| `Prepare` | `WorktreeManager.prepare` in its four ways (`Reuse`, `CreateBranch`, `Attach`, `Suffixed`), from the base that `BaseName` takes from the *latest run of the dependency*, if that is recorded as succeeded (`orchestrator.py:656-660`); without one a new branch starts from what the main checkout is on |
| `NotPrepared` | it raises, or the tracker did: the except branch |
| `Edit`, `FinishRun` | the agent's changes; their commit, which may fail, or not be tried; the record of the run, and the move of its item, which may fail though it was applied |
| `HumanMoves` | a person moves an item, or cancels a run that is over (`_cancel_run`) |

`CallComplete`, `CheckMain`, `Merge`, `RemoveTree`, `Record`, `MoveItem`, `Refuse`,
`RefuseMove` are `_complete_delivery_task`, one git command, one write or one tracker call at
a time. `HumanWorks`: people edit the main checkout, tidy it, look at branches there and
delete worktrees' directories. `strayed`, `moved` and `deleted` are history: a merge made
while the main checkout was elsewhere, the tasks whose item need not show how its latest run
ended, and the changes people deleted with a worktree.

| Run | Bounds | Checks |
|---|---|---|
| `delivery_steps` | a task and one that depends on it, 2 handlers, 2 names for a branch, 3 changes, 2 calls, 1 act of a person, crash or outdated list (2,647,417 states) | `TypeOK`; `ChangesAreKept`; `DoneIsDelivered`; `StartsFromDependency` |

Two calls are a pair that races, or a call and its repetition; three changes one of the task,
one of its dependent and one of a retry, committed or left behind. Larger bounds are covered
by the proofs.

* `ChangesAreKept`: nothing a run has changed is lost, through reuse, fast-forward,
  attachment, a commit that fails and is made by a later run, the merge and the removal of
  the worktree: it is uncommitted in a worktree, on a branch or in main, unless a person
  deleted the directory it was in.
* `DoneIsDelivered`: at the move to Done, main has every commit the branch had at the
  request, and none of the changes that were uncommitted in its worktree at the request is
  still there.
* `StartsFromDependency`: the gate looks at the item and the base at the latest run, at
  different times and on different sides of the claim. They agree unless somebody moved the
  dependency's item or cancelled its run, a tracker call failed and was applied, or the list
  of candidates was out of date (`moved`).

What the properties allow:

* A dependency that failed and that a person moved to Human Review lets its dependents go,
  and gives them no base (`orchestrator.py:656`): they start from the main checkout, without
  what its earlier runs have committed. The same happens after a cancelled run.
* The delivery merges the branch of *one* task, `_primary_child_run`: the first implementer.
  What other tasks committed on branches of their own that are not based on it is not
  delivered. A dependent starts from the branch of one of its dependencies
  (`_dependency_base_branch`), so of several only one's work is there.
* `git merge` goes into whatever branch the main checkout is on: `strayed`.
* After a crash or a failure past the removal of the worktree, each repeated call fails to
  remove it again and ends in Needs Input, for good; the branch is merged all the same.
* A failed merge leaves its conflict in the main checkout, and every later delivery is
  refused until a person tidies it.
* `git worktree remove` does not know of a retry that is running there: a clean worktree is
  taken from under it.
* A branch that outlived its worktree is attached as it is, without what its dependency has
  committed since (the exception in `StartsFromDependency`). A dependent that has commits of
  its own cannot fast-forward and cannot be run again. A suffixed branch starts without the
  task's earlier work.
* A delivery task made by the API records no branch and always ends in Needs Input.
* The task's text says "Mark this delivery task Done to merge the result and clean up the
  worktree" (`orchestrator.py:1144`). Nothing watches the item: only the API call merges.

## 8. What is proved

`DispatchProofs` holds, for every number of items, request threads, runs, failures, crashes,
moves and requests (`DispatchAssumption`: the items are a finite set of positive numbers,
the daemon is not a request thread, the bounds are natural numbers):

| Theorem | Statement |
|---|---|
| `TypeCorrect` | `Spec => []TypeOK` |
| `ClaimsLostOnlyByRevocation` | `Spec => []ClaimLostOnlyByRevocation` |
| `ImplementsLease` | `Spec => LeaseSpec`: the claims table implements `ClaimLease` |
| `RunHoldsOneItem` | no run is recorded as the holder of two items |
| `NothingLeaks` | `Spec => []NothingLeaksWithoutFaults` |

`TypeOK` is not inductive: `pc` says which locals are in use, and the table rows a step
writes are those of the locals' run and item. The inductive invariant is

    Inv == TypeOK /\ InHand /\ RowsAreGrants

`InHand` relates a thread's program counter to its locals: past its first step a handler has
an item in hand, and one that writes a run's row or claim has a run in hand. `RowsAreGrants`
says that a row of `claims` is blank or names a run already granted, and granted for that
row's item. With them, `StepInv` goes through the actions in groups (a run's steps, the
daemon's, the requests', the environment's). `ClaimSteps` then classifies every step by what
it does to `claims`: it grants a new run, ends the claim of the run in hand, releases stale
ones, or leaves the claims alone. From that single lemma follow both the invariant that
claims are lost only by revocation and the step simulation of `ImplementsLease`.

`NothingLeaks` needs `LeakInv` beside it: without faults an item that is Running has a thread
at one of the steps after which the item is moved (`MovesItem`), a run that is live one at
one of the steps after which its row is ended (`EndsRow`). Both sets are smaller than the
steps of a run, for a handler that has moved its item and is still to finish its claim leaks
nothing any more. Each action is shown to hand the duty on or to discharge it.

`PollingProofs`, on the lemmas of `AppServerProofs`, for every number of projects, limit,
timeout and amount of talk (`AppServerAssumption`, `PollingAssumption`: these are naturals,
timeout, limit and projects positive):

| Theorem | Statement |
|---|---|
| `TypeCorrect` | `Spec => []TypeOK` |
| `OutcomesAreReal` | `Spec => []OutcomeIsServers` |
| `EndsAreNotMissed` | `Spec => []EndIsNotMissed` |
| `TickEnds` | `Spec => []TickBounded` |
| `FirstProjectsArePolled` | `Spec => []FirstAreNotCutOff` |

The invariant of a turn, `TurnInv`, adds to the types what the process and the server can
have done at each step (`ProcessInv`, `ServerInv`) and `OrderInv`: answers and the end of
the turn stand in the queue in the order in which they were written, so that an end that is
still in it after the last answer came after it. For the daemon, `BudgetInv` says that what
is left of the budget and the place in the order exceed together the limit and the turns that
were not counted (each project takes one turn at most, counted or not), and `TimeInv` that the
time spent is at most a full turn for each one taken, counted or not, plus what the reads of
the present turn have used.

`DeliveryProofs`, for every set of tasks, choice of dependencies and of the primary task,
any handlers and all bounds (`DeliveryAssumption`):

| Theorem | Statement |
|---|---|
| `TypeCorrect` | `Spec => []TypeOK` |
| `DoneMeansDelivered` | `Spec => DoneIsDelivered` |
| `ChangesSurvive` | `Spec => []ChangesAreKept` |
| `DependentsStartComplete` | `Spec => StartsFromDependency` |

`RecordedExist` says that what a run, the delivery item or the main checkout refers to is a
branch that exists; without it a merge could take commits from a branch that is not there.
`AskedIsKept` follows the commits a handler was asked for: up to the merge they are in the
branch, which only grows, and after it in main, or a merge has strayed; `NothingLeft` is the
same for what was uncommitted. `WorkIsHeld` says that uncommitted changes are in a worktree
that is there, so that a branch that is attached, and a worktree that git removes, leave none
behind; with it every step keeps what `ChangesAreKept` counts (`KeptInv`). `GateIsKept`
relates what the code reads at two times: an accepted item has a latest run that succeeded,
or is among the moved; a task with a run in hand has no such run; so the item that let a
claim pass is still backed by a branch when the base is read.

`NeedsInputProofs`, for every number of request threads, runs, comments, retries, requests,
failures and crashes (`NeedsInputAssumption`: the bounds are naturals, the daemon is not a
request thread):

| Theorem | Statement |
|---|---|
| `TypeCorrect` | `Spec => []TypeOK` |
| `AnswersFollow` | `Spec => []AnswersFollowQuestions` |
| `ResolvedStaysAttached` | `Spec => []ResolvedIsAttached` |

`RowsApart`, that a run asks once, bounds the table by the number of runs and with it what
`comments` may count. `InTime` is about the clock: it was never ahead, and a comment that
preceded a question is dated no later than it, so that if the code finds it no earlier
either, both are of one second. `AllFollow` says of every answer what the property says of the
attached ones: also of those a handler has read and will write back, and of the one it is
about to add. `AloneAttaches` has the reason for the last theorem: while no request and no
crash has been, the list in the daemon's hand is the list of the item, so that writing it
back loses nothing.

`TaskGraphProofs`, `TaskGraphLimits` and `TaskOrderProofs`, for every set of modes and plans,
every number of handler threads and all limits and bounds (`TaskGraphAssumption`: the daemon is not a handler
thread, the numbers are naturals, and a plan is a non-empty sequence of sets of task numbers:
`runner.py:147` refuses an output without a task):

| Theorem | Statement |
|---|---|
| `TypeCorrect` | `Spec => []TypeOK` |
| `RepairsAreBounded` | `Spec => []RepairsBounded` |
| `PlannerAndDeliveryOnce` | `Spec => []CreatedOnce` |
| `ClosedAfterWork` | `Spec => []ClosedOnlyWithWork` |
| `TasksKeepOrder` | `Spec => OrderIsKept`: the tracker and the tables implement `TaskOrder` |

The inductive invariant `Inv` adds to the types that a row agrees with its item in role and
kind and names an earlier item as its parent (`RowsInv`), what a thread has in hand at each
step (`Hand`: the item it made has no row yet and comes after the item it runs), and that no
two threads are about to write the same row (`NewApart`). `Effect(t)` says once what a step
of thread `t` leaves to the others - items and rows stay, and the row another thread is to
write is still unwritten - so that each action is proved for its own thread only.

The limits are counts over that. `CountInv` charges a handler thread to its request until
it has written its repair, so that the daemon's check and write, which nothing separates but
those threads, stay within `RepairLimit + asked`. `PlanInv` charges every planner, and every
handler thread that may still make one, to a disturbance, but for one; once the request
has a child, nobody begins another. For the delivery task the daemon must be alone
(`Alone`): the item it runs is Running and the request it splits Ready, and no child of a
request that is closed, or being closed, is at work, which is why no run moves a closed
request back to Planning and has it delivered again. `DeliverInv` counts on top of it.

What a request's tasks do over its whole life is in `CalmInv`, which holds as long as no
call has failed, no handler thread was asked, and people's moves and crashes have not both
happened. An item has succeeded only with all the tasks made for it, and has none yet while
it waits to be run (`TasksFollow`); what a planner proposes belongs to the planner's parent,
so that only items that are not planners have tasks (`RowsFollow`); the daemon never runs
the request itself, and the item it runs has no tasks but those it has just proposed
(`HandFollows`). None of these is inductive alone: that a parent does not succeed under a
running task rests on the task having an open parent, which is `TasksFollow` again.
`WorkInv` adds that a planner is done, a task repaired and a request delivered only when a
proposed task stands beside it. The two give `ClosedAfterWork`, crashes included: a crash
forgets what the daemon had in hand, and neither invariant then says anything of it.

For `TasksKeepOrder`, `RecordedInv` says, undisturbed, that every item but the one just made
has its row, and that the row names the dependencies the item was made with, all of them
proposed tasks. `StateTurn` lists what one step of the daemon may do to the state of an
item, and each step is then one of `TaskOrder`:

| `TaskGraph` | `TaskOrder` |
|---|---|
| an item is made, but for the delivery task | `Add`: whoever makes one is running a task or splitting the request, and the request is open (`OpenAtWork`) |
| a claim | `Start`: the row's dependencies, which `_dependency_blocked` has read, are the item's |
| the root is closed: `CloseRoot`, or `Reconcile` with the root in it | `Close` |
| other moves of states, `HumanMoves` | `Move`; a parent moved to Planning had started already |
| the remaining steps | a stutter |

`Close` needs every task, not only the request's own, to be finished. `SettledBelow` shows
it by the smallest counterexample: the parent of the first item that is not settled comes
before it, has succeeded, and so has no unsettled task.

Model-checked only: the liveness of `NeedsInput` and all other liveness, which under fairness
is outside what TLAPS proves.

## 9. Not modelled

* The fleet's pages in Plane's web application (`apps/plane/apps/web/app/codex-fleet`):
  they poll a revision, reload and start runs through the local API. Their requests are the
  API threads above. Known hazards: the page adopts a new revision before the reload that
  is to show it (`project-surfaces.tsx:640`); overlapping reloads, of which the last to be
  answered is shown (`:598`); a revision that is read after the data it stands for
  (`local_api.py:1698`); the revision is a time in seconds, so a second write in the same
  second is not noticed (`store.py:377`).
* Pull requests (`pr_flow.py`, `github.py`), which only the CLI makes; the second runner
  (`CodexCliRunner`); prompts, proofs and the parsing of output, which are data here.
* Plane's set-up, the registry, CLI, configuration, doctor, harness and views: sequential
  I/O and formatting.
* Plane itself is vendored and modelled only as the tracker that codex-fleet sees. It is
  most of the repository's lines.

## 10. Running

    tlc -workers 2 -config DispatchSafety.cfg Dispatch.tla
    tlc -workers 2 -config TaskGraphOrder.cfg MCTaskGraph.tla
    tlc -workers 2 -config PollingTurns.cfg Polling.tla
    tlc -workers 2 -config DeliverySteps.cfg MCDelivery.tla
    tlapm TaskGraphLimits.tla
    tlapm TaskOrderProofs.tla

`MCTaskGraph` and `MCDelivery` only define values for constants. `PROJECT.json` maps each
definition to the lines it models, and names for each property a mutation of the model that
the run detects.
