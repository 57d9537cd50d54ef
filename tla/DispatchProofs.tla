--------------------------- MODULE DispatchProofs ---------------------------
(***************************************************************************)
(* Theorems about Dispatch, for every set of items and request threads and *)
(* for every value of the bounds.                                          *)
(***************************************************************************)
EXTENDS Dispatch, TLAPS

-----------------------------------------------------------------------------
(* The inductive invariant *)

\* The steps that write the row or the claim of the run in hand.
WritesRun == RunningSteps \cup {"retryRelease", "retryMark", "cancelRequest",
                                "cancelRelease", "cancelMark", "recoverMark"}

\* A handler that is past its first step has an item in hand; one that writes
\* the row or the claim of a run has a run in hand.
InHand ==
    \A t \in Threads :
        /\ pc[t] \notin {"idle", "release", "reconcile", "poll"} => my[t].item \in Items
        /\ pc[t] \in WritesRun => my[t].run \in Runs

\* A row of the claims table is blank or names a run that was started for its
\* item.
RowsAreGrants ==
    \A i \in Items :
        \/ claim[i] = [run |-> NoRun, status |-> "none"]
        \/ /\ claim[i].run \in 1..(nextRun - 1)
           /\ runItem[claim[i].run] = i

Inv == TypeOK /\ InHand /\ RowsAreGrants

LEMMA FreshIsLocals == Fresh \in Locals
  BY DEF Fresh, Locals, NoItem, NoRun, Outcomes

LEMMA InHandIsLocals ==
  ASSUME NEW i \in Items, NEW r \in Runs \cup {NoRun}, NEW a \in BOOLEAN
  PROVE  [Fresh EXCEPT !.item = i, !.run = r, !.active = a] \in Locals
  BY FreshIsLocals DEF Locals

LEMMA InitInv == Init => Inv
  BY DispatchAssumption
  DEF Init, Inv, TypeOK, InHand, RowsAreGrants, Threads, Runs, NoRun, NoItem, ItemStates,
      ClaimStatus, RunStatus, Steps, Locals, Fresh, Outcomes, WritesRun, RunningSteps

\* finish_claim keeps the rows well formed, and names no new run in them.
LEMMA FinishClaimRows ==
  ASSUME TypeOK, RowsAreGrants, NEW i \in Items, NEW r \in Runs, NEW s \in ClaimStatus,
         FinishClaim(i, r, s), UNCHANGED <<runItem, nextRun>>
  PROVE  /\ claim' \in [Items -> [run : Runs \cup {NoRun}, status : ClaimStatus]]
         /\ RowsAreGrants'
  BY DEF TypeOK, RowsAreGrants, FinishClaim, Runs, NoRun

\* try_claim_item's upsert does the same for the run it grants.
LEMMA InsertClaimRows ==
  ASSUME TypeOK, InHand, RowsAreGrants, NEW t \in Threads, InsertClaim(t)
  PROVE  /\ claim' \in [Items -> [run : Runs \cup {NoRun}, status : ClaimStatus]]
         /\ runItem' \in [Runs -> Items \cup {NoItem}] /\ nextRun' \in 1..(MaxRuns + 1)
         /\ RowsAreGrants'
  <1>1. my[t].item \in Items
    BY DEF InHand, InsertClaim
  <1>2. claim' \in [Items -> [run : Runs \cup {NoRun}, status : ClaimStatus]]
    BY <1>1 DEF TypeOK, InsertClaim, ClaimStatus
  <1>3. runItem' \in [Runs -> Items \cup {NoItem}] /\ nextRun' \in 1..(MaxRuns + 1)
    BY <1>1, DispatchAssumption DEF TypeOK, InsertClaim, Runs
  <1>4. RowsAreGrants'
    <2> SUFFICES ASSUME NEW i \in Items, i # my[t].item
                 PROVE  RowsAreGrants!(i)'
      BY <1>1 DEF TypeOK, RowsAreGrants, InsertClaim, Runs
    <2> QED BY DEF TypeOK, RowsAreGrants, InsertClaim, Runs
  <1> QED BY <1>2, <1>3, <1>4

-----------------------------------------------------------------------------
(* Steps of run_once preserve it *)

\* A run ends its own claim, with one of the results a run has.
LEMMA RunEndsClaim ==
  ASSUME TypeOK, InHand, NEW t \in Threads, AbortStart(t) \/ FinishRun(t)
  PROVE  /\ my[t].item \in Items /\ my[t].run \in Runs
         /\ \E s \in ClaimStatus \ {"active"} : FinishClaim(my[t].item, my[t].run, s)
         /\ UNCHANGED <<runItem, nextRun>>
  BY DEF TypeOK, InHand, AbortStart, FinishRun, ClaimResult, ClaimStatus, Outcomes, Locals,
         WritesRun, RunningSteps

\* The other steps of run_once leave the table claims alone.
LEMMA OtherRunStep ==
  ASSUME NEW t \in Threads, RunStep(t), ~InsertClaim(t), ~AbortStart(t), ~FinishRun(t)
  PROVE  UNCHANGED <<claim, old, runItem, nextRun, recovering, history>>
  BY DEF RunStep, SelectClaim, PersistRun, StartItem, ConfirmStart,
         HoldStart, PrepareWorkspace, LaunchRunner, RunnerReturns, ReportRun,
         HandleException, PublishState, ConfirmState, HoldState, Persist, tables

LEMMA RunStepRows ==
  ASSUME TypeOK, InHand, RowsAreGrants, NEW t \in Threads, RunStep(t)
  PROVE  /\ claim' \in [Items -> [run : Runs \cup {NoRun}, status : ClaimStatus]]
         /\ runItem' \in [Runs -> Items \cup {NoItem}] /\ nextRun' \in 1..(MaxRuns + 1)
         /\ RowsAreGrants'
  <1>1. CASE InsertClaim(t)
    BY <1>1, InsertClaimRows
  <1>2. CASE AbortStart(t) \/ FinishRun(t)
    BY <1>2, RunEndsClaim, FinishClaimRows DEF TypeOK
  <1>3. CASE UNCHANGED <<claim, runItem, nextRun>>
    BY <1>3 DEF TypeOK, RowsAreGrants
  <1> QED BY <1>1, <1>2, <1>3, OtherRunStep

LEMMA RunStepTypes ==
  ASSUME TypeOK, InHand, RowsAreGrants, NEW t \in Threads, RunStep(t)
  PROVE  TypeOK'
  <1>1. itemState' \in [Items -> ItemStates]
    BY DEF TypeOK, RunStep, SelectClaim, InsertClaim, PersistRun, StartItem, ConfirmStart,
           HoldStart, AbortStart, PrepareWorkspace, LaunchRunner, RunnerReturns, ReportRun,
           HandleException, PublishState, ConfirmState, HoldState, FinishRun,
           Shows, Hides, Raises, FinalItemState, ItemStates
  <1>2. old' \in [Items -> BOOLEAN]
    BY OtherRunStep DEF TypeOK, InsertClaim, AbortStart, FinishRun
  <1>3. runStatus' \in [Runs -> RunStatus]
    BY DEF TypeOK, RunStep, SelectClaim, InsertClaim, PersistRun, StartItem, ConfirmStart,
           HoldStart, AbortStart, PrepareWorkspace, LaunchRunner, RunnerReturns, ReportRun,
           HandleException, PublishState, ConfirmState, HoldState, FinishRun,
           Persist, FinalStatus, tables, RunStatus, Outcomes, Locals
  <1>4. pc' \in [Threads -> Steps]
    BY DEF TypeOK, RunStep, SelectClaim, InsertClaim, PersistRun, StartItem, ConfirmStart,
           HoldStart, AbortStart, PrepareWorkspace, LaunchRunner, RunnerReturns, ReportRun,
           HandleException, PublishState, ConfirmState, HoldState, FinishRun, Except,
           Goto, Return, Steps, RunningSteps
  <1>5. my' \in [Threads -> Locals]
    <2>1. ASSUME NEW o \in Outcomes, my' = [my EXCEPT ![t].outcome = o]
          PROVE  my' \in [Threads -> Locals]
      <3>1. my[t] \in Locals
        BY DEF TypeOK
      <3>2. [my[t] EXCEPT !.outcome = o] \in Locals
        BY <3>1 DEF Locals
      <3> QED BY <2>1, <3>2 DEF TypeOK
    <2>2. CASE Return(t)
      BY <2>2, FreshIsLocals DEF TypeOK, Return
    <2>3. CASE InsertClaim(t)
      <3>1. nextRun \in Runs /\ my' = [my EXCEPT ![t].run = nextRun]
        BY <2>3 DEF InsertClaim
      <3> QED BY <3>1, SMTT(30) DEF TypeOK, Locals
    <2>4. CASE UNCHANGED my
      BY <2>4 DEF TypeOK
    <2> QED
      BY <2>1, <2>2, <2>3, <2>4
      DEF RunStep, SelectClaim, PersistRun, StartItem, ConfirmStart,
          HoldStart, AbortStart, PrepareWorkspace, LaunchRunner, RunnerReturns, ReportRun,
          HandleException, PublishState, ConfirmState, HoldState, FinishRun, Except, Outcomes
  <1>6. /\ faults' \in 0..MaxFaults /\ crashes' \in 0..MaxCrashes
        /\ moves' \in 0..MaxMoves /\ asked' \in 0..MaxRequests
    BY DispatchAssumption
    DEF TypeOK, RunStep, SelectClaim, InsertClaim, PersistRun, StartItem, ConfirmStart,
        HoldStart, AbortStart, PrepareWorkspace, LaunchRunner, RunnerReturns, ReportRun,
        HandleException, PublishState, ConfirmState, HoldState, FinishRun,
        counters, TrackerFault, Shows, Hides, Raises
  <1>7. /\ recovering' \subseteq Items \X Runs
        /\ revoked' \subseteq Runs /\ finished' \subseteq Runs
    <2>1. CASE InsertClaim(t)
      BY <2>1 DEF TypeOK, InsertClaim, InHand, RowsAreGrants, Active, Runs, NoRun
    <2>2. CASE AbortStart(t) \/ FinishRun(t)
      BY <2>2, RunEndsClaim DEF TypeOK, AbortStart, FinishRun
    <2> QED BY <2>1, <2>2, OtherRunStep DEF TypeOK, history
  <1> QED BY <1>1, <1>2, <1>3, <1>4, <1>5, <1>6, <1>7, RunStepRows DEF TypeOK

LEMMA RunStepInHand ==
  ASSUME TypeOK, InHand, NEW t \in Threads, RunStep(t)
  PROVE  InHand'
  <1> USE DEF TypeOK, InHand, Goto, WritesRun, RunningSteps
  <1>1. CASE Return(t)
    BY <1>1 DEF Return
  <1>2. CASE InsertClaim(t)
    BY <1>2 DEF InsertClaim, Locals
  <1>3. ASSUME NEW o \in Outcomes, NEW s \in RunningSteps, Executing(t), Goto(t, s),
               my' = my \/ my' = [my EXCEPT ![t].outcome = o]
        PROVE  InHand'
    BY <1>3 DEF Executing, Locals
  <1>4. CASE SelectClaim(t)
    BY <1>4, <1>1 DEF SelectClaim
  <1>5. CASE AbortStart(t) \/ FinishRun(t)
    BY <1>5, <1>1 DEF AbortStart, FinishRun
  <1>6. CASE RunnerReturns(t) \/ HandleException(t)
    BY <1>6, <1>3 DEF RunnerReturns, HandleException, Executing, Outcomes
  <1>7. CASE PersistRun(t) \/ StartItem(t) \/ ConfirmStart(t) \/ HoldStart(t)
    BY <1>7, <1>1, <1>3 DEF PersistRun, StartItem, ConfirmStart, HoldStart, Executing, Outcomes
  <1>8. CASE PrepareWorkspace(t) \/ LaunchRunner(t) \/ ReportRun(t)
    BY <1>8, <1>3 DEF PrepareWorkspace, LaunchRunner, ReportRun, Executing, Outcomes
  <1>9. CASE PublishState(t) \/ ConfirmState(t) \/ HoldState(t)
    BY <1>9, <1>1, <1>3 DEF PublishState, ConfirmState, HoldState, Except, Executing, Outcomes
  <1> QED BY <1>2, <1>4, <1>5, <1>6, <1>7, <1>8, <1>9 DEF RunStep

-----------------------------------------------------------------------------
(* So do the steps of the daemon, of the request handlers and of the rest *)

\* A failing tracker call is counted, and nothing else is.
LEMMA FaultTypes ==
  ASSUME TypeOK, UNCHANGED counters \/ TrackerFault
  PROVE  /\ faults' \in 0..MaxFaults /\ crashes' \in 0..MaxCrashes
         /\ moves' \in 0..MaxMoves /\ asked' \in 0..MaxRequests
  BY DispatchAssumption DEF TypeOK, TrackerFault, counters

\* So is the state of an item that a tracker call sets, applied or not.
LEMMA TrackerCallTypes ==
  ASSUME TypeOK, NEW i, NEW s \in ItemStates, Shows(i, s) \/ Hides \/ Raises(i, s)
  PROVE  /\ itemState' \in [Items -> ItemStates]
         /\ faults' \in 0..MaxFaults /\ crashes' \in 0..MaxCrashes
         /\ moves' \in 0..MaxMoves /\ asked' \in 0..MaxRequests
  <1>1. itemState' \in [Items -> ItemStates]
    BY DEF TypeOK, Shows, Hides, Raises
  <1>2. UNCHANGED counters \/ TrackerFault
    BY DEF Shows, Hides, Raises
  <1> QED BY <1>1, <1>2, FaultTypes

\* A thread that fetches a candidate has that item in hand.
LEMMA FetchInv ==
  ASSUME TypeOK, InHand, RowsAreGrants, NEW t \in Threads,
         FetchNext(t) \/ \E i \in Items : FetchOne(t, i)
  PROVE  Inv'
  <1>1. PICK i \in Items : my' = [my EXCEPT ![t].item = i]
    BY DEF FetchNext, FetchOne
  <1>2. /\ pc' = [pc EXCEPT ![t] = "select"]
        /\ UNCHANGED <<itemState, tables, recovering, faults, crashes, moves, history>>
    BY DEF FetchNext, FetchOne, Goto, counters
  <1>3. asked' \in 0..MaxRequests
    BY DispatchAssumption DEF TypeOK, FetchNext, FetchOne, counters
  <1>4. my' \in [Threads -> Locals]
    BY <1>1, SMTT(30) DEF TypeOK, Locals
  <1>5. pc' \in [Threads -> Steps]
    BY <1>2 DEF TypeOK, Steps
  <1>8. TypeOK'
    BY <1>2, <1>3, <1>4, <1>5 DEF TypeOK, tables, history
  <1>6. InHand'
    BY <1>1, <1>2 DEF TypeOK, InHand, Locals, WritesRun, RunningSteps
  <1>7. RowsAreGrants'
    BY <1>2 DEF RowsAreGrants, tables
  <1> QED BY <1>6, <1>7, <1>8 DEF Inv

LEMMA DaemonStepInv ==
  ASSUME TypeOK, InHand, RowsAreGrants, DaemonStep
  PROVE  Inv'
  <1> Daemon \in Threads
    BY DEF Threads
  <1>1. CASE SelectStaleClaims
    <2>1. \A i \in Stale : i \in Items /\ claim[i].run \in Runs
      BY DEF Stale, Active, RowsAreGrants, TypeOK, Runs, NoRun
    <2>2. recovering' \subseteq Items \X Runs
      BY <1>1, <2>1 DEF SelectStaleClaims
    <2>3. pc' \in [Threads -> Steps]
      BY <1>1 DEF SelectStaleClaims, TypeOK, Goto, Steps, DaemonSteps
    <2>4. UNCHANGED <<itemState, claim, old, runStatus, runItem, nextRun, my, counters, history>>
      BY <1>1 DEF SelectStaleClaims, tables
    <2>7. TypeOK'
      BY <2>2, <2>3, <2>4 DEF TypeOK, counters, history
    <2>5. InHand'
      BY <1>1 DEF SelectStaleClaims, TypeOK, InHand, Goto, WritesRun, RunningSteps
    <2>6. RowsAreGrants'
      BY <1>1 DEF SelectStaleClaims, RowsAreGrants, tables
    <2> QED BY <2>5, <2>6, <2>7 DEF Inv
  <1>7. CASE ReleaseStaleClaims
    <2>1. \A i \in Items : Active(i) => claim[i].run \in Runs
      BY DEF Active, RowsAreGrants, TypeOK, Runs, NoRun
    <2>2. TypeOK'
      <3>1. claim' \in [Items -> [run : Runs \cup {NoRun}, status : ClaimStatus]]
        BY <1>7 DEF ReleaseStaleClaims, TypeOK, ClaimStatus
      <3>2. revoked' \subseteq Runs
        BY <1>7, <2>1 DEF ReleaseStaleClaims, TypeOK
      <3>3. pc' \in [Threads -> Steps]
        BY <1>7 DEF ReleaseStaleClaims, TypeOK, Goto, Steps, DaemonSteps
      <3> QED BY <1>7, <3>1, <3>2, <3>3 DEF ReleaseStaleClaims, TypeOK, counters
    <2>3. InHand'
      BY <1>7 DEF ReleaseStaleClaims, TypeOK, InHand, Goto, WritesRun, RunningSteps
    <2>4. RowsAreGrants'
      BY <1>7 DEF ReleaseStaleClaims, TypeOK, RowsAreGrants, Runs, NoRun, Active
    <2> QED BY <2>2, <2>3, <2>4 DEF Inv
  <1>2. CASE RecoverClaim
    <2>1. PICK c \in recovering :
            my' = [my EXCEPT ![Daemon] =
                     [Fresh EXCEPT !.item = c[1], !.run = c[2],
                                   !.active = runStatus[c[2]] \in ActiveRunStatus]]
      BY <1>2 DEF RecoverClaim
    <2>2. c[1] \in Items /\ c[2] \in Runs
      BY <2>1 DEF TypeOK
    <2>3. my' \in [Threads -> Locals]
      <3>1. (runStatus[c[2]] \in ActiveRunStatus) \in BOOLEAN
        OBVIOUS
      <3>2. [Fresh EXCEPT !.item = c[1], !.run = c[2],
                          !.active = runStatus[c[2]] \in ActiveRunStatus] \in Locals
        BY <2>2, <3>1, InHandIsLocals, Zenon
      <3> QED BY <2>1, <3>2, Zenon DEF TypeOK
    <2>4. TypeOK'
      <3>1. recovering' \subseteq Items \X Runs
        BY <1>2 DEF RecoverClaim, TypeOK
      <3>2. pc' \in [Threads -> Steps]
        BY <1>2 DEF RecoverClaim, TypeOK, Goto, Steps, DaemonSteps
      <3> QED
        BY <1>2, <2>3, <3>1, <3>2 DEF RecoverClaim, TypeOK, tables, counters, history
    <2>5. InHand'
      <3>1. my'[Daemon].item \in Items /\ my'[Daemon].run \in Runs
        BY <2>1, <2>2 DEF TypeOK, Fresh
      <3>2. \A t \in Threads \ {Daemon} : my'[t] = my[t]
        BY <2>1 DEF TypeOK
      <3>3. pc' = [pc EXCEPT ![Daemon] = "recoverMark"]
        BY <1>2 DEF RecoverClaim, Goto
      <3> QED
        BY <3>1, <3>2, <3>3 DEF TypeOK, InHand
    <2>6. RowsAreGrants'
      BY <1>2 DEF RecoverClaim, RowsAreGrants, tables
    <2> QED BY <2>4, <2>5, <2>6 DEF Inv
  <1>3. CASE RecoverMark
    <2>1. my[Daemon].run \in Runs
      BY <1>3 DEF RecoverMark, InHand, WritesRun
    <2>2. TypeOK'
      BY <1>3, <2>1 DEF RecoverMark, Persist, TypeOK, Goto, Steps, DaemonSteps, RunStatus,
                        tables, counters, history
    <2>3. InHand'
      BY <1>3 DEF RecoverMark, TypeOK, InHand, Goto, WritesRun, RunningSteps
    <2>4. RowsAreGrants'
      BY <1>3 DEF RecoverMark, Persist, RowsAreGrants, tables
    <2> QED BY <2>2, <2>3, <2>4 DEF Inv
  <1>4. CASE RecoverFetch \/ RecoverMove
    <2>1. TypeOK'
      <3>1. \/ UNCHANGED itemState /\ (UNCHANGED counters \/ TrackerFault)
            \/ \E i, s : s \in ItemStates /\ (Shows(i, s) \/ Hides \/ Raises(i, s))
        BY <1>4 DEF RecoverFetch, RecoverMove, ItemStates
      <3>2. /\ itemState' \in [Items -> ItemStates]
            /\ faults' \in 0..MaxFaults /\ crashes' \in 0..MaxCrashes
            /\ moves' \in 0..MaxMoves /\ asked' \in 0..MaxRequests
        BY <3>1, TrackerCallTypes, FaultTypes DEF TypeOK
      <3>3. pc' \in [Threads -> Steps]
        BY <1>4 DEF RecoverFetch, RecoverMove, NextClaim, TypeOK, Goto, Steps, DaemonSteps
      <3>4. my' \in [Threads -> Locals]
        BY <1>4, FreshIsLocals DEF RecoverFetch, RecoverMove, NextClaim, TypeOK
      <3> QED
        BY <1>4, <3>2, <3>3, <3>4 DEF RecoverFetch, RecoverMove, TypeOK, tables, history
    <2>2. InHand'
      <3>1. \/ pc' = [pc EXCEPT ![Daemon] = "reconcile"] /\ my' = [my EXCEPT ![Daemon] = Fresh]
            \/ /\ pc' = [pc EXCEPT ![Daemon] = "recoverMove"] /\ my' = my
               /\ my[Daemon].item \in Items
        BY <1>4 DEF RecoverFetch, RecoverMove, NextClaim, Goto, InHand
      <3> QED BY <3>1 DEF TypeOK, InHand, WritesRun, RunningSteps
    <2>3. RowsAreGrants'
      BY <1>4 DEF RecoverFetch, RecoverMove, RowsAreGrants, tables
    <2> QED BY <2>1, <2>2, <2>3 DEF Inv
  <1>5. CASE Reconciled \/ FetchNothing
    <2>1. TypeOK'
      BY <1>5, FreshIsLocals
      DEF Reconciled, FetchNothing, Return, TypeOK, Goto, Steps, DaemonSteps, tables, counters, history
    <2>2. InHand'
      BY <1>5 DEF Reconciled, FetchNothing, Return, TypeOK, InHand, Goto, WritesRun, RunningSteps
    <2>3. RowsAreGrants'
      BY <1>5 DEF Reconciled, FetchNothing, RowsAreGrants, tables
    <2> QED BY <2>1, <2>2, <2>3 DEF Inv
  <1>6. CASE FetchNext(Daemon)
    BY <1>6, FetchInv
  <1> QED BY <1>1, <1>2, <1>3, <1>4, <1>5, <1>6, <1>7 DEF DaemonStep

\* A request takes the item it names in hand, and a run of it if it has one.
LEMMA RequestInv ==
  ASSUME TypeOK, InHand, RowsAreGrants, NEW t \in Requests, NEW i \in Items,
         RetryItem(t, i) \/ CancelItem(t, i)
  PROVE  Inv'
  <1>1. PICK r \in Runs \cup {NoRun}, step \in RequestSteps :
          /\ Request(t, i, r, step)
          /\ step \in WritesRun => r \in Runs
    BY DEF RetryItem, CancelItem, IsLatest, Rows, RequestSteps, WritesRun, RunningSteps, NoRun, Runs
  <1>2. t \in Threads
    BY DEF Threads
  <1>3. /\ pc' = [pc EXCEPT ![t] = step]
        /\ my' = [my EXCEPT ![t] =
                    [Fresh EXCEPT !.item = i, !.run = r,
                       !.active = r # NoRun /\ runStatus[r] \in ActiveRunStatus]]
        /\ asked < MaxRequests /\ asked' = asked + 1
        /\ UNCHANGED <<itemState, tables, recovering, faults, crashes, moves, history>>
    BY <1>1 DEF Request, Goto
  <1>4. TypeOK'
    <2>1. my' \in [Threads -> Locals]
      <3>1. (r # NoRun /\ runStatus[r] \in ActiveRunStatus) \in BOOLEAN
        OBVIOUS
      <3>2. [Fresh EXCEPT !.item = i, !.run = r,
               !.active = r # NoRun /\ runStatus[r] \in ActiveRunStatus] \in Locals
        BY <3>1, InHandIsLocals, Zenon
      <3> QED BY <1>3, <3>2, Zenon DEF TypeOK
    <2>2. pc' \in [Threads -> Steps]
      BY <1>3 DEF TypeOK, Steps
    <2>3. asked' \in 0..MaxRequests
      BY <1>3, DispatchAssumption DEF TypeOK
    <2> QED BY <1>3, <2>1, <2>2, <2>3 DEF TypeOK, tables, history
  <1>5. InHand'
    <2>1. my'[t].item = i /\ my'[t].run = r
      BY <1>2, <1>3 DEF TypeOK, Fresh
    <2>2. \A u \in Threads \ {t} : my'[u] = my[u] /\ pc'[u] = pc[u]
      BY <1>3 DEF TypeOK
    <2> QED BY <1>1, <1>2, <1>3, <2>1, <2>2 DEF TypeOK, InHand
  <1>6. RowsAreGrants'
    BY <1>3 DEF RowsAreGrants, tables
  <1> QED BY <1>4, <1>5, <1>6 DEF Inv

LEMMA RequestStepInv ==
  ASSUME TypeOK, InHand, RowsAreGrants, NEW t \in Requests, RequestStep(t)
  PROVE  Inv'
  <1> t \in Threads
    BY DEF Threads
  <1>1. CASE RetryRelease(t) \/ CancelRelease(t)
    <2>1. /\ my[t].item \in Items /\ my[t].run \in Runs
          /\ \E s \in ClaimStatus : FinishClaim(my[t].item, my[t].run, s)
          /\ UNCHANGED <<runItem, nextRun>>
      BY <1>1 DEF RetryRelease, CancelRelease, InHand, WritesRun, ClaimStatus
    <2>2. /\ claim' \in [Items -> [run : Runs \cup {NoRun}, status : ClaimStatus]]
          /\ RowsAreGrants'
      BY <2>1, FinishClaimRows
    <2>3. pc' \in [Threads -> Steps]
      BY <1>1 DEF RetryRelease, CancelRelease, TypeOK, Goto, Steps, RequestSteps
    <2>4. TypeOK'
      BY <1>1, <2>1, <2>2, <2>3 DEF RetryRelease, CancelRelease, TypeOK, counters
    <2>5. InHand'
      BY <1>1 DEF RetryRelease, CancelRelease, TypeOK, InHand, Goto, WritesRun, RunningSteps
    <2> QED BY <2>2, <2>4, <2>5 DEF Inv
  <1>2. CASE RetryMark(t) \/ CancelRequest(t) \/ CancelMark(t)
    <2>1. my[t].run \in Runs
      BY <1>2 DEF RetryMark, CancelRequest, CancelMark, InHand, WritesRun
    <2>2. pc' \in [Threads -> Steps]
      BY <1>2 DEF RetryMark, CancelRequest, CancelMark, TypeOK, Goto, Steps, RequestSteps
    <2>3. runStatus' \in [Runs -> RunStatus]
      BY <1>2, <2>1 DEF RetryMark, CancelRequest, CancelMark, Persist, TypeOK, RunStatus, tables
    <2>4. UNCHANGED <<itemState, claim, old, runItem, nextRun, my, recovering, counters, history>>
      BY <1>2 DEF RetryMark, CancelRequest, CancelMark, Persist, tables
    <2>5. TypeOK'
      BY <2>2, <2>3, <2>4 DEF TypeOK, counters, history
    <2>6. InHand'
      BY <1>2 DEF RetryMark, CancelRequest, CancelMark, TypeOK, InHand, Goto, WritesRun, RunningSteps
    <2>7. RowsAreGrants'
      BY <2>4 DEF RowsAreGrants
    <2> QED BY <2>5, <2>6, <2>7 DEF Inv
  <1>3. CASE RetryReady(t) \/ CancelMove(t)
    <2>1. \E i, s : s \in ItemStates /\ (Shows(i, s) \/ Hides \/ Raises(i, s))
      BY <1>3 DEF RetryReady, CancelMove, ItemStates
    <2>2. /\ pc' \in [Threads -> Steps] /\ my' \in [Threads -> Locals]
      BY <1>3, FreshIsLocals DEF RetryReady, CancelMove, TypeOK, Return, Goto, Steps
    <2>3. /\ itemState' \in [Items -> ItemStates]
          /\ faults' \in 0..MaxFaults /\ crashes' \in 0..MaxCrashes
          /\ moves' \in 0..MaxMoves /\ asked' \in 0..MaxRequests
      BY <2>1, TrackerCallTypes
    <2>4. TypeOK'
      BY <1>3, <2>2, <2>3 DEF RetryReady, CancelMove, TypeOK, tables, history
    <2>5. InHand'
      <3>1. pc' = [pc EXCEPT ![t] = "idle"] /\ my' = [my EXCEPT ![t] = Fresh]
        BY <1>3 DEF RetryReady, CancelMove, Return, Goto
      <3> QED BY <3>1 DEF TypeOK, InHand, WritesRun, RunningSteps
    <2>6. RowsAreGrants'
      BY <1>3 DEF RetryReady, CancelMove, RowsAreGrants, tables
    <2> QED BY <2>4, <2>5, <2>6 DEF Inv
  <1> QED BY <1>1, <1>2, <1>3 DEF RequestStep

LEMMA EnvironmentInv ==
  ASSUME TypeOK, InHand, RowsAreGrants,
         Crash \/ \E i \in Items : ClaimAges(i) \/ HumanMoves(i)
  PROVE  Inv'
  <1>1. CASE \E i \in Items : ClaimAges(i)
    BY <1>1 DEF ClaimAges, Inv, TypeOK, InHand, RowsAreGrants, threads, counters, history
  <1>2. CASE \E i \in Items : HumanMoves(i)
    <2>1. moves' \in 0..MaxMoves
      BY <1>2, DispatchAssumption DEF HumanMoves, TypeOK
    <2>2. itemState' \in [Items -> ItemStates]
      BY <1>2 DEF HumanMoves, TypeOK, ItemStates
    <2> QED
      BY <1>2, <2>1, <2>2
      DEF HumanMoves, Inv, TypeOK, InHand, RowsAreGrants, tables, threads, history
  <1>3. CASE Crash
    BY <1>3, FreshIsLocals, DispatchAssumption
    DEF Crash, Inv, TypeOK, InHand, RowsAreGrants, Steps, WritesRun, RunningSteps, tables, history
  <1> QED BY <1>1, <1>2, <1>3

LEMMA StepInv == Inv /\ [Next]_vars => Inv'
  <1> SUFFICES ASSUME TypeOK, InHand, RowsAreGrants, [Next]_vars
               PROVE  Inv'
    BY DEF Inv
  <1>1. ASSUME NEW t \in Threads, RunStep(t) PROVE Inv'
    BY <1>1, RunStepTypes, RunStepInHand, RunStepRows DEF Inv
  <1>2. CASE DaemonStep
    BY <1>2, DaemonStepInv
  <1>3. ASSUME NEW t \in Requests, RequestStep(t) PROVE Inv'
    BY <1>3, RequestStepInv
  <1>4. ASSUME NEW t \in Requests, Arrive(t) PROVE Inv'
    BY <1>4, FetchInv, RequestInv DEF Arrive, Threads
  <1>5. CASE Crash \/ \E i \in Items : ClaimAges(i) \/ HumanMoves(i)
    BY <1>5, EnvironmentInv
  <1>6. CASE UNCHANGED vars
    BY <1>6 DEF vars, tables, threads, counters, history, Inv, TypeOK, InHand, RowsAreGrants
  <1> QED BY <1>1, <1>2, <1>3, <1>4, <1>5, <1>6 DEF Next

LEMMA Invariance == Spec => []Inv
  <1> QED BY InitInv, StepInv, PTL DEF Spec

\* Every variable keeps its type, whatever the threads, the tracker, people and
\* crashes do: no run status leaves the table's vocabulary, and no row of a
\* shared table is written for an item or a run that does not exist.
THEOREM TypeCorrect == Spec => []TypeOK
  <1>1. Inv => TypeOK
    BY DEF Inv
  <1> QED BY <1>1, Invariance, PTL

-----------------------------------------------------------------------------
(* What happens to claims *)

\* A step that ends one run's claim and says so in the history.
EndsClaim ==
    \E i \in Items, r \in Runs, s \in ClaimStatus \ {"active"} :
        /\ FinishClaim(i, r, s)
        /\ UNCHANGED <<runItem, nextRun>>
        /\ revoked \cup finished \cup {r} \subseteq revoked' \cup finished'

\* Every step grants a claim, ends one, releases the stale ones or leaves the
\* table claims alone.
LEMMA ClaimSteps ==
  ASSUME Inv, [Next]_vars
  PROVE  \/ \E t \in Threads : InsertClaim(t)
         \/ EndsClaim
         \/ ReleaseStaleClaims
         \/ UNCHANGED <<claim, runItem, nextRun, history>>
  <1> USE DEF Inv
  <1>1. ASSUME NEW t \in Threads, AbortStart(t) \/ FinishRun(t)
        PROVE  EndsClaim
    <2>1. revoked \cup finished \cup {my[t].run} \subseteq revoked' \cup finished'
      BY <1>1 DEF AbortStart, FinishRun
    <2> QED BY <1>1, <2>1, RunEndsClaim DEF EndsClaim
  <1>2. ASSUME NEW t \in Requests, RetryRelease(t) \/ CancelRelease(t)
        PROVE  EndsClaim
    <2>1. my[t].item \in Items /\ my[t].run \in Runs
      BY <1>2 DEF RetryRelease, CancelRelease, InHand, WritesRun, Threads
    <2>2. \E s \in ClaimStatus \ {"active"} : FinishClaim(my[t].item, my[t].run, s)
      BY <1>2 DEF RetryRelease, CancelRelease, ClaimStatus
    <2>3. revoked \cup finished \cup {my[t].run} \subseteq revoked' \cup finished'
      BY <1>2 DEF RetryRelease, CancelRelease
    <2>4. UNCHANGED <<runItem, nextRun>>
      BY <1>2 DEF RetryRelease, CancelRelease
    <2> QED BY <2>1, <2>2, <2>3, <2>4 DEF EndsClaim
  <1>3. ASSUME NEW t \in Threads, RunStep(t), ~InsertClaim(t), ~AbortStart(t), ~FinishRun(t)
        PROVE  UNCHANGED <<claim, runItem, nextRun, history>>
    BY <1>3, OtherRunStep
  <1>4. ASSUME DaemonStep, ~ReleaseStaleClaims
        PROVE  UNCHANGED <<claim, runItem, nextRun, history>>
    BY <1>4 DEF DaemonStep, SelectStaleClaims, RecoverClaim, RecoverMark, RecoverFetch, RecoverMove,
                Reconciled, FetchNext, FetchNothing, Persist, tables
  <1>5. ASSUME NEW t \in Requests, RequestStep(t), ~RetryRelease(t), ~CancelRelease(t)
        PROVE  UNCHANGED <<claim, runItem, nextRun, history>>
    BY <1>5 DEF RequestStep, RetryMark, RetryReady, CancelRequest, CancelMark, CancelMove,
                Persist, tables
  <1>6. ASSUME NEW t \in Requests, Arrive(t)
        PROVE  UNCHANGED <<claim, runItem, nextRun, history>>
    BY <1>6 DEF Arrive, FetchNext, FetchOne, RetryItem, CancelItem, Request, tables
  <1>7. CASE Crash \/ \E i \in Items : ClaimAges(i) \/ HumanMoves(i)
    BY <1>7 DEF Crash, ClaimAges, HumanMoves, tables
  <1>8. CASE UNCHANGED vars
    BY <1>8 DEF vars, tables
  <1> QED BY <1>1, <1>2, <1>3, <1>4, <1>5, <1>6, <1>7, <1>8 DEF Next

\* A run that was granted a claim keeps the item it was granted for.
GrantsHaveItems == \A r \in Runs : r < nextRun => runItem[r] \in Items

LEMMA ClaimLostInit == Init => GrantsHaveItems /\ ClaimLostOnlyByRevocation
  BY DEF Init, GrantsHaveItems, ClaimLostOnlyByRevocation, Runs

LEMMA ClaimLostStep ==
  ASSUME Inv, GrantsHaveItems, ClaimLostOnlyByRevocation, [Next]_vars
  PROVE  GrantsHaveItems' /\ ClaimLostOnlyByRevocation'
  <1> USE DEF GrantsHaveItems, ClaimLostOnlyByRevocation, Inv, TypeOK
  <1>1. ASSUME NEW t \in Threads, InsertClaim(t)
        PROVE  GrantsHaveItems' /\ ClaimLostOnlyByRevocation'
    <2>1. my[t].item \in Items
      BY <1>1 DEF InsertClaim, InHand
    <2>2. ASSUME NEW r \in Runs, r < nextRun
          PROVE  /\ runItem'[r] = runItem[r] /\ runItem[r] \in Items
                 /\ \/ r \in revoked' \cup finished'
                    \/ claim'[runItem[r]] = [run |-> r, status |-> "active"]
      BY <1>1, <2>1, <2>2 DEF InsertClaim, Active, Runs
    <2>3. /\ nextRun \in Runs /\ runItem'[nextRun] = my[t].item
          /\ claim'[my[t].item] = [run |-> nextRun, status |-> "active"]
          /\ nextRun' = nextRun + 1
      BY <1>1, <2>1 DEF InsertClaim
    <2>4. \A r \in Runs : r < nextRun' => r < nextRun \/ r = nextRun
      BY <2>3 DEF Runs
    <2> QED BY <2>1, <2>2, <2>3, <2>4
  <1>2. CASE EndsClaim
    <2>1. PICK i \in Items, r \in Runs, s \in ClaimStatus \ {"active"} :
            /\ FinishClaim(i, r, s)
            /\ UNCHANGED <<runItem, nextRun>>
            /\ revoked \cup finished \cup {r} \subseteq revoked' \cup finished'
      BY <1>2 DEF EndsClaim
    <2>2. ASSUME NEW q \in Runs, q < nextRun, q \notin revoked' \cup finished'
          PROVE  claim'[runItem'[q]] = [run |-> q, status |-> "active"]
      <3>1. q # r /\ claim[runItem[q]] = [run |-> q, status |-> "active"] /\ runItem[q] \in Items
        BY <2>1, <2>2
      <3> QED BY <2>1, <3>1 DEF FinishClaim
    <2> QED BY <2>1, <2>2
  <1>3. CASE ReleaseStaleClaims
    <2>1. UNCHANGED <<runItem, nextRun, finished>> /\ revoked \subseteq revoked'
      BY <1>3 DEF ReleaseStaleClaims
    <2>2. ASSUME NEW q \in Runs, q < nextRun, q \notin revoked' \cup finished'
          PROVE  claim'[runItem'[q]] = [run |-> q, status |-> "active"]
      <3>1. claim[runItem[q]] = [run |-> q, status |-> "active"] /\ runItem[q] \in Items
        BY <2>1, <2>2
      <3>2. ~(Active(runItem[q]) /\ <<runItem[q], claim[runItem[q]].run>> \in recovering)
        <4> SUFFICES ASSUME Active(runItem[q]),
                            <<runItem[q], claim[runItem[q]].run>> \in recovering
                     PROVE  claim[runItem[q]].run \in revoked'
          BY <2>2, <3>1
        <4> QED BY <1>3, <3>1 DEF ReleaseStaleClaims
      <3> QED BY <1>3, <2>1, <3>1, <3>2 DEF ReleaseStaleClaims
    <2> QED BY <2>1, <2>2
  <1>4. CASE UNCHANGED <<claim, runItem, nextRun, history>>
    BY <1>4 DEF history
  <1> QED BY <1>1, <1>2, <1>3, <1>4, ClaimSteps

\* No run loses its claim to another run's completion, to a late finish, to a
\* crash or to anything but its own finish, a revocation that names it, or the
\* upsert of a second dispatcher; whatever the number of items, threads and runs.
THEOREM ClaimsLostOnlyByRevocation == Spec => []ClaimLostOnlyByRevocation
  <1>1. Init => Inv /\ GrantsHaveItems /\ ClaimLostOnlyByRevocation
    BY InitInv, ClaimLostInit
  <1>2. /\ Inv /\ GrantsHaveItems /\ ClaimLostOnlyByRevocation
        /\ [Next]_vars
        => (Inv /\ GrantsHaveItems /\ ClaimLostOnlyByRevocation)'
    BY StepInv, ClaimLostStep
  <1> QED BY <1>1, <1>2, PTL DEF Spec

-----------------------------------------------------------------------------
(* The claims table implements the lease *)

LEMMA LeaseInit == Init => Lease!Init
  BY DEF Init, Lease!Init, Active, NoRun

LEMMA LeaseStep == Inv /\ [Next]_vars => [Lease!Next]_(Lease!vars)
  <1> SUFFICES ASSUME Inv, [Next]_vars
               PROVE  Lease!Next \/ UNCHANGED Lease!vars
    OBVIOUS
  <1> DEFINE holder == [i \in Items |-> IF Active(i) THEN claim[i].run ELSE NoRun]
  <1>1. ASSUME NEW t \in Threads, InsertClaim(t)
        PROVE  Lease!Next
    <2>1. my[t].item \in Items /\ nextRun \in Runs
      BY <1>1 DEF InsertClaim, Inv, InHand
    <2>2. holder' = [holder EXCEPT ![my[t].item] = nextRun]
      BY <1>1, <2>1 DEF InsertClaim, Inv, TypeOK, Active
    <2>3. /\ nextRun \notin 1..(nextRun - 1)
          /\ 1..(nextRun' - 1) = 1..(nextRun - 1) \cup {nextRun}
      BY <1>1, <2>1 DEF InsertClaim, Runs
    <2>4. Lease!Grant(my[t].item, nextRun)
      BY <2>2, <2>3 DEF Lease!Grant
    <2> QED BY <2>1, <2>4 DEF Lease!Next, Lease!Grant
  <1>2. CASE EndsClaim
    <2>1. PICK i \in Items, r \in Runs, s \in ClaimStatus \ {"active"} :
            FinishClaim(i, r, s) /\ UNCHANGED nextRun
      BY <1>2 DEF EndsClaim
    <2>2. CASE claim[i].run = r
      <3>1. holder' = [j \in Items |-> IF j \in {i} THEN NoRun ELSE holder[j]]
        BY <2>1, <2>2 DEF FinishClaim, Inv, TypeOK, Active
      <3>2. Lease!End({i})
        BY <2>1, <3>1 DEF Lease!End
      <3> QED BY <3>2 DEF Lease!Next
    <2>3. CASE claim[i].run # r
      BY <2>1, <2>3 DEF FinishClaim, Lease!vars, Active
    <2> QED BY <2>2, <2>3
  <1>3. CASE ReleaseStaleClaims
    <2> DEFINE S == {i \in Items : Active(i) /\ <<i, claim[i].run>> \in recovering}
    <2>1. holder' = [j \in Items |-> IF j \in S THEN NoRun ELSE holder[j]]
      BY <1>3 DEF ReleaseStaleClaims, Inv, TypeOK, Active
    <2>2. Lease!End(S)
      BY <1>3, <2>1 DEF ReleaseStaleClaims, Lease!End
    <2>3. S \in SUBSET Items
      OBVIOUS
    <2> QED BY <2>2, <2>3 DEF Lease!Next, Lease!End
  <1>4. CASE UNCHANGED <<claim, runItem, nextRun, history>>
    BY <1>4 DEF Lease!vars, Active
  <1> QED BY <1>1, <1>2, <1>3, <1>4, ClaimSteps

\* Every behaviour of run_once, the daemon and the API on the table claims is
\* one the lease allows: a run id is granted once, for one item, and a claim that
\* ended never comes back to the run that held it.
THEOREM ImplementsLease == Spec => LeaseSpec
  <1> QED BY LeaseInit, LeaseStep, Invariance, PTL DEF Spec, LeaseSpec, Lease!Spec

\* No run is recorded as holding two items at once.
THEOREM RunHoldsOneItem == Spec => []Lease!OneItemPerRun
  <1>1. Inv => Lease!OneItemPerRun
    BY DEF Inv, RowsAreGrants, Lease!OneItemPerRun, Active, NoRun
  <1> QED BY <1>1, Invariance, PTL

-----------------------------------------------------------------------------
(* Nothing is left behind without faults *)

\* Where a thread will still move its item on from Running, and where it will
\* still give the row of its run a final status, if no call fails.
MovesItem == {"confirmStart", "prepare", "launch", "running", "report", "handler", "publish"}
EndsRow   == {"start", "confirmStart", "prepare", "launch", "running", "report", "handler"}
LiveStatus == ActiveRunStatus \ {"cancel_requested"}

RunningIsMoved ==
    \A i \in Items : itemState[i] = "Running" =>
        \E t \in Threads : pc[t] \in MovesItem /\ my[t].item = i

LiveRowIsEnded ==
    \A r \in Runs : runStatus[r] \in LiveStatus =>
        \E t \in Threads : pc[t] \in EndsRow /\ my[t].run = r

LeakInv == faults = 0 /\ crashes = 0 => RunningIsMoved /\ LiveRowIsEnded

\* A step that puts an item in Running has a thread to move it on, and one by
\* which a thread gives up moving its item leaves it in another state.
ItemsAreFollowed ==
    /\ \A i \in Items : itemState'[i] = "Running" =>
          itemState[i] = "Running" \/ \E t \in Threads : pc'[t] \in MovesItem /\ my'[t].item = i
    /\ \A t \in Threads : pc[t] \in MovesItem =>
          \/ pc'[t] \in MovesItem /\ my'[t].item = my[t].item
          \/ itemState'[my[t].item] # "Running"

\* The same for the rows of runs.
RowsAreFollowed ==
    /\ \A r \in Runs : runStatus'[r] \in LiveStatus =>
          runStatus[r] \in LiveStatus \/ \E t \in Threads : pc'[t] \in EndsRow /\ my'[t].run = r
    /\ \A t \in Threads : pc[t] \in EndsRow =>
          \/ pc'[t] \in EndsRow /\ my'[t].run = my[t].run
          \/ runStatus'[my[t].run] \notin LiveStatus

LEMMA FollowedInv ==
  ASSUME RunningIsMoved, LiveRowIsEnded, ItemsAreFollowed, RowsAreFollowed
  PROVE  RunningIsMoved' /\ LiveRowIsEnded'
  <1>1. ASSUME NEW i \in Items, itemState'[i] = "Running"
        PROVE  \E t \in Threads : pc'[t] \in MovesItem /\ my'[t].item = i
    BY <1>1 DEF RunningIsMoved, ItemsAreFollowed
  <1>2. ASSUME NEW r \in Runs, runStatus'[r] \in LiveStatus
        PROVE  \E t \in Threads : pc'[t] \in EndsRow /\ my'[t].run = r
    BY <1>2 DEF LiveRowIsEnded, RowsAreFollowed
  <1> QED BY <1>1, <1>2 DEF RunningIsMoved, LiveRowIsEnded

\* A thread that is at work on neither, before and after its step, leaves both to
\* those that are.
LEMMA BystanderFollows ==
  ASSUME TypeOK, NEW t \in Threads, pc[t] \notin MovesItem \cup EndsRow,
         \A u \in Threads \ {t} : pc'[u] = pc[u] /\ my'[u] = my[u],
         \A i \in Items : itemState'[i] = "Running" => itemState[i] = "Running",
         \A r \in Runs : runStatus'[r] \in LiveStatus => runStatus[r] \in LiveStatus
  PROVE  ItemsAreFollowed /\ RowsAreFollowed
  BY DEF ItemsAreFollowed, RowsAreFollowed

\* What a failing call has counted is never zero.
LEMMA FaultIsCounted == TypeOK /\ TrackerFault => faults' # 0
  BY DispatchAssumption DEF TypeOK, TrackerFault

LEMMA NoFaultYet ==
  ASSUME TypeOK, [Next]_vars, faults' = 0, crashes' = 0
  PROVE  faults = 0 /\ crashes = 0
  <1>1. faults \in Nat /\ crashes \in Nat
    BY DispatchAssumption DEF TypeOK
  <1>2. faults' \in {faults, faults + 1} /\ crashes' \in {crashes, crashes + 1}
    <2>1. ASSUME NEW t \in Threads, RunStep(t) PROVE <1>2
      BY <2>1 DEF RunStep, SelectClaim, InsertClaim, PersistRun, StartItem, ConfirmStart,
           HoldStart, AbortStart, PrepareWorkspace, LaunchRunner, RunnerReturns, ReportRun,
           HandleException, PublishState, ConfirmState, HoldState, FinishRun,
           counters, TrackerFault, Shows, Hides, Raises
    <2>2. CASE DaemonStep
      BY <2>2 DEF DaemonStep, SelectStaleClaims, ReleaseStaleClaims, RecoverClaim, RecoverMark,
           RecoverFetch, RecoverMove, Reconciled, FetchNext, FetchNothing,
           counters, TrackerFault, Shows, Hides, Raises
    <2>3. ASSUME NEW t \in Requests, RequestStep(t) \/ Arrive(t) PROVE <1>2
      BY <2>3 DEF RequestStep, RetryRelease, RetryMark, RetryReady, CancelRequest, CancelRelease,
           CancelMark, CancelMove, Arrive, FetchNext, FetchOne, RetryItem, CancelItem, Request,
           counters, TrackerFault, Shows, Hides, Raises
    <2>4. CASE Crash \/ \E i \in Items : ClaimAges(i) \/ HumanMoves(i)
      BY <2>4 DEF Crash, ClaimAges, HumanMoves, counters
    <2>5. CASE UNCHANGED vars
      BY <2>5 DEF vars, counters
    <2> QED BY <2>1, <2>2, <2>3, <2>4, <2>5 DEF Next
  <1> QED BY <1>1, <1>2

\* A run's own steps, none of them a failing call.
LEMMA RunStepFollows ==
  ASSUME Inv, NEW t \in Threads, RunStep(t), faults' = 0
  PROVE  ItemsAreFollowed /\ RowsAreFollowed
  <1> USE DEF Inv
  <1>1. ~TrackerFault
    BY FaultIsCounted
  <1>2. \A u \in Threads \ {t} : pc'[u] = pc[u] /\ my'[u] = my[u]
    BY DEF TypeOK, RunStep, SelectClaim, InsertClaim, PersistRun, StartItem, ConfirmStart,
         HoldStart, AbortStart, PrepareWorkspace, LaunchRunner, RunnerReturns, ReportRun,
         HandleException, PublishState, ConfirmState, HoldState, FinishRun, Except, Goto, Return
  <1>3. CASE SelectClaim(t) \/ InsertClaim(t) \/ HoldStart(t) \/ AbortStart(t)
    <2>1. pc[t] \notin MovesItem \cup EndsRow /\ UNCHANGED <<itemState, runStatus>>
      BY <1>3 DEF SelectClaim, InsertClaim, HoldStart, AbortStart, MovesItem, EndsRow, tables
    <2> QED BY <1>2, <2>1, BystanderFollows
  <1>4. CASE ConfirmState(t) \/ HoldState(t) \/ FinishRun(t)
    <2>1. pc[t] \notin MovesItem \cup EndsRow /\ UNCHANGED <<itemState, runStatus>>
      BY <1>4 DEF ConfirmState, HoldState, FinishRun, MovesItem, EndsRow, tables
    <2> QED BY <1>2, <2>1, BystanderFollows
  <1>5. CASE PersistRun(t)
    <2>1. /\ pc[t] \notin MovesItem \cup EndsRow /\ pc'[t] = "start"
          /\ UNCHANGED <<itemState, my>>
          /\ \A r \in Runs : r # my[t].run => runStatus'[r] = runStatus[r]
      BY <1>5 DEF PersistRun, Persist, Goto, TypeOK, MovesItem, EndsRow
    <2> QED BY <1>2, <2>1 DEF ItemsAreFollowed, RowsAreFollowed, EndsRow
  <1>6. CASE StartItem(t)
    <2>1. /\ pc[t] = "start" /\ pc'[t] = "confirmStart" /\ UNCHANGED <<runStatus, my>>
          /\ \A i \in Items : i # my[t].item => itemState'[i] = itemState[i]
      BY <1>6, <1>1 DEF StartItem, Shows, Hides, Raises, Goto, TypeOK, tables
    <2> QED BY <1>2, <2>1 DEF ItemsAreFollowed, RowsAreFollowed, MovesItem, EndsRow
  <1>7. CASE ConfirmStart(t)
    <2>1. CASE pc'[t] = "prepare" /\ UNCHANGED <<runStatus, itemState, my>>
      BY <1>2, <2>1 DEF ItemsAreFollowed, RowsAreFollowed, MovesItem, EndsRow
    <2>2. CASE /\ itemState[my[t].item] # "Running" /\ UNCHANGED <<itemState, my>>
               /\ Persist(t, "stalled")
      <3>1. my[t].run \in Runs
        BY <1>7 DEF ConfirmStart, InHand, WritesRun, RunningSteps
      <3>2. /\ runStatus'[my[t].run] = "stalled"
            /\ \A r \in Runs : r # my[t].run => runStatus'[r] = runStatus[r]
        BY <2>2, <3>1 DEF Persist, TypeOK
      <3> QED BY <1>2, <2>2, <3>2
              DEF ItemsAreFollowed, RowsAreFollowed, LiveStatus, ActiveRunStatus
    <2> QED BY <1>7, <1>1, <2>1, <2>2 DEF ConfirmStart, Goto, TypeOK, tables
  <1>8. CASE PrepareWorkspace(t) \/ LaunchRunner(t) \/ RunnerReturns(t)
    <2>1. /\ pc'[t] \in MovesItem \cap EndsRow /\ UNCHANGED itemState
          /\ my'[t].item = my[t].item /\ my'[t].run = my[t].run
          /\ \A r \in Runs : r # my[t].run => runStatus'[r] = runStatus[r]
      BY <1>8 DEF PrepareWorkspace, LaunchRunner, RunnerReturns, Persist, Goto, TypeOK, tables,
                  MovesItem, EndsRow, Locals
    <2> QED BY <1>2, <2>1 DEF ItemsAreFollowed, RowsAreFollowed
  <1>9. CASE ReportRun(t) \/ HandleException(t)
    <2>1. my[t].run \in Runs /\ my[t].outcome \in Outcomes
      BY <1>9 DEF ReportRun, HandleException, InHand, WritesRun, RunningSteps, TypeOK, Locals
    <2>2. /\ pc'[t] \in MovesItem /\ UNCHANGED itemState
          /\ my'[t].item = my[t].item /\ my'[t].run = my[t].run
          /\ \A r \in Runs : r # my[t].run => runStatus'[r] = runStatus[r]
          /\ pc'[t] \in EndsRow \/ runStatus'[my[t].run] \notin LiveStatus
      BY <1>9, <2>1 DEF ReportRun, HandleException, Persist, Goto, TypeOK, tables, MovesItem, EndsRow,
                  Locals, FinalStatus, Outcomes, LiveStatus, ActiveRunStatus
    <2> QED BY <1>2, <2>2 DEF ItemsAreFollowed, RowsAreFollowed
  <1>10. CASE PublishState(t)
    <2>1. my[t].item \in Items
      BY <1>10 DEF PublishState, InHand
    <2>2. /\ pc[t] = "publish" /\ UNCHANGED <<runStatus, my>>
          /\ itemState' = [itemState EXCEPT ![my[t].item] = FinalItemState(my[t].outcome)]
      BY <1>10, <1>1 DEF PublishState, Shows, Hides, Raises, tables
    <2>3. /\ itemState'[my[t].item] # "Running"
          /\ \A i \in Items : i # my[t].item => itemState'[i] = itemState[i]
      BY <2>1, <2>2 DEF TypeOK, FinalItemState
    <2> QED BY <1>2, <2>2, <2>3 DEF ItemsAreFollowed, RowsAreFollowed, EndsRow
  <1> QED BY <1>3, <1>4, <1>5, <1>6, <1>7, <1>8, <1>9, <1>10 DEF RunStep

\* The steps of all others: they put nothing in Running, and make no row live.
LEMMA OtherStepFollows ==
  ASSUME Inv, \/ DaemonStep
              \/ \E t \in Requests : RequestStep(t) \/ Arrive(t)
              \/ \E i \in Items : ClaimAges(i) \/ HumanMoves(i)
  PROVE  ItemsAreFollowed /\ RowsAreFollowed
  <1> USE DEF Inv
  <1> Daemon \in Threads /\ Requests \subseteq Threads
    BY DEF Threads
  <1>1. ASSUME NEW t \in Threads, NEW s \in RunStatus \ LiveStatus, my[t].run \in Runs, Persist(t, s)
        PROVE  \A r \in Runs : runStatus'[r] \in LiveStatus => runStatus[r] \in LiveStatus
    BY <1>1 DEF Persist, TypeOK
  <1>2. ASSUME NEW i \in Items, NEW s \in ItemStates \ {"Running"}, Shows(i, s) \/ Hides \/ Raises(i, s)
        PROVE  \A j \in Items : itemState'[j] = "Running" => itemState[j] = "Running"
    BY <1>2 DEF Shows, Hides, Raises, TypeOK
  <1>3. CASE DaemonStep
    <2>1. pc[Daemon] \notin MovesItem \cup EndsRow
      BY <1>3 DEF DaemonStep, SelectStaleClaims, ReleaseStaleClaims, RecoverClaim, RecoverMark,
           RecoverFetch, RecoverMove, Reconciled, FetchNext, FetchNothing, MovesItem, EndsRow, Threads,
           DispatchAssumption
    <2>2. \A u \in Threads \ {Daemon} : pc'[u] = pc[u] /\ my'[u] = my[u]
      BY <1>3 DEF DaemonStep, SelectStaleClaims, ReleaseStaleClaims, RecoverClaim, RecoverMark,
           RecoverFetch, RecoverMove, Reconciled, FetchNext, FetchNothing, NextClaim, Return, Goto, TypeOK
    <2>3. \A i \in Items : itemState'[i] = "Running" => itemState[i] = "Running"
      <3>1. CASE RecoverMove
        <4>1. my[Daemon].item \in Items
          BY <3>1 DEF RecoverMove, InHand
        <4>2. PICK i \in Items, s \in ItemStates \ {"Running"} : i = my[Daemon].item /\ s = "Needs Input"
          BY <4>1 DEF ItemStates
        <4>3. Shows(i, s) \/ Hides \/ Raises(i, s)
          BY <3>1, <4>2 DEF RecoverMove
        <4> QED BY <1>2, <4>3
      <3> QED BY <1>3, <3>1
           DEF DaemonStep, SelectStaleClaims, ReleaseStaleClaims, RecoverClaim, RecoverMark,
           RecoverFetch, Reconciled, FetchNext, FetchNothing
    <2>4. \A r \in Runs : runStatus'[r] \in LiveStatus => runStatus[r] \in LiveStatus
      <3>1. CASE RecoverMark
        <4>1. my[Daemon].run \in Runs
          BY <3>1 DEF RecoverMark, InHand, WritesRun
        <4> QED BY <1>1, <3>1, <4>1
                DEF RecoverMark, RunStatus, LiveStatus, ActiveRunStatus, tables
      <3> QED BY <1>3, <3>1
           DEF DaemonStep, SelectStaleClaims, ReleaseStaleClaims, RecoverClaim, RecoverMove,
           RecoverFetch, Reconciled, FetchNext, FetchNothing, tables
    <2> QED BY <2>1, <2>2, <2>3, <2>4, BystanderFollows
  <1>4. ASSUME NEW t \in Requests, RequestStep(t)
        PROVE  ItemsAreFollowed /\ RowsAreFollowed
    <2>1. pc[t] \notin MovesItem \cup EndsRow
      BY <1>4 DEF RequestStep, RetryRelease, RetryMark, RetryReady, CancelRequest, CancelRelease,
           CancelMark, CancelMove, MovesItem, EndsRow
    <2>2. \A u \in Threads \ {t} : pc'[u] = pc[u] /\ my'[u] = my[u]
      BY <1>4 DEF RequestStep, RetryRelease, RetryMark, RetryReady, CancelRequest, CancelRelease,
           CancelMark, CancelMove, Return, Goto, TypeOK
    <2>3. \A i \in Items : itemState'[i] = "Running" => itemState[i] = "Running"
      <3>1. CASE RetryReady(t) \/ CancelMove(t)
        <4>1. my[t].item \in Items
          BY <3>1 DEF RetryReady, CancelMove, InHand
        <4>2. \E s \in {"Ready", "Needs Input"} :
                Shows(my[t].item, s) \/ Hides \/ Raises(my[t].item, s)
          BY <3>1 DEF RetryReady, CancelMove
        <4> QED BY <1>2, <4>1, <4>2 DEF ItemStates
      <3> QED BY <1>4, <3>1 DEF RequestStep, RetryRelease, RetryMark, CancelRequest, CancelRelease,
                                CancelMark
    <2>4. \A r \in Runs : runStatus'[r] \in LiveStatus => runStatus[r] \in LiveStatus
      <3>1. CASE RetryMark(t) \/ CancelRequest(t) \/ CancelMark(t)
        <4>1. my[t].run \in Runs
          BY <3>1 DEF RetryMark, CancelRequest, CancelMark, InHand, WritesRun
        <4> QED BY <1>1, <3>1, <4>1 DEF RetryMark, CancelRequest, CancelMark, RunStatus, LiveStatus,
                                        ActiveRunStatus, tables
      <3> QED BY <1>4, <3>1 DEF RequestStep, RetryRelease, RetryReady, CancelRelease, CancelMove, tables
    <2> QED BY <2>1, <2>2, <2>3, <2>4, BystanderFollows
  <1>5. ASSUME NEW t \in Requests, Arrive(t)
        PROVE  ItemsAreFollowed /\ RowsAreFollowed
    <2>1. /\ pc[t] = "idle" \/ (t = Daemon /\ pc[t] = "poll")
          /\ \A u \in Threads \ {t} : pc'[u] = pc[u] /\ my'[u] = my[u]
          /\ UNCHANGED <<itemState, runStatus>>
      BY <1>5 DEF Arrive, FetchNext, FetchOne, RetryItem, CancelItem, Request, Goto, TypeOK, tables
    <2> QED BY <2>1, BystanderFollows DEF MovesItem, EndsRow
  <1>6. CASE \E i \in Items : ClaimAges(i) \/ HumanMoves(i)
    <2>1. UNCHANGED <<pc, my, runStatus>>
      BY <1>6 DEF ClaimAges, HumanMoves, threads, tables
    <2>2. \A i \in Items : itemState'[i] = "Running" => itemState[i] = "Running"
      BY <1>6 DEF ClaimAges, HumanMoves, TypeOK
    <2> QED BY <2>1, <2>2 DEF ItemsAreFollowed, RowsAreFollowed
  <1> QED BY <1>3, <1>4, <1>5, <1>6

LEMMA LeakStep ==
  ASSUME Inv, LeakInv, [Next]_vars
  PROVE  LeakInv'
  <1> SUFFICES ASSUME faults' = 0, crashes' = 0
               PROVE  RunningIsMoved' /\ LiveRowIsEnded'
    BY DEF LeakInv
  <1>1. RunningIsMoved /\ LiveRowIsEnded
    BY NoFaultYet DEF Inv, LeakInv
  <1>2. ~Crash
    BY DispatchAssumption DEF Inv, TypeOK, Crash
  <1>3. CASE UNCHANGED vars
    BY <1>3, <1>1 DEF vars, tables, threads, RunningIsMoved, LiveRowIsEnded
  <1> QED BY <1>1, <1>2, <1>3, RunStepFollows, OtherStepFollows, FollowedInv DEF Next

\* As long as no tracker call failed and the process did not die, no item is left
\* Running and no run recorded as active without a thread at work on it, for every
\* number of dispatchers, retries, cancels and moves by people.
THEOREM NothingLeaks == Spec => []NothingLeaksWithoutFaults
  <1>1. Init => LeakInv
    BY DEF Init, LeakInv, RunningIsMoved, LiveRowIsEnded, LiveStatus, ActiveRunStatus
  <1>2. LeakInv => NothingLeaksWithoutFaults
    <2>1. MovesItem \subseteq RunningSteps /\ EndsRow \subseteq RunningSteps
      BY DEF MovesItem, EndsRow, RunningSteps
    <2> QED BY <2>1 DEF LeakInv, RunningIsMoved, LiveRowIsEnded, NothingLeaksWithoutFaults,
                        Executing, LiveStatus
  <1>3. Inv /\ LeakInv /\ [Next]_vars => LeakInv'
    BY LeakStep
  <1> QED BY <1>1, <1>2, <1>3, Invariance, PTL DEF Spec

=============================================================================
