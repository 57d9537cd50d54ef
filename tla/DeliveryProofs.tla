--------------------------- MODULE DeliveryProofs ----------------------------
(***************************************************************************)
(* Theorems about Delivery, for every set of tasks and handlers, every     *)
(* order of the tasks and every bound: its type, that an item which is     *)
(* moved to Done has been delivered, that no change of a run is lost, and  *)
(* that a run starts from what its dependency has committed.               *)
(***************************************************************************)
EXTENDS Delivery, TLAPS

-----------------------------------------------------------------------------
(* The inductive invariant *)

\* What a run, a delivery item or the main checkout refers to is a branch that exists.
RecordedExist ==
    /\ \A t \in Tasks : latest[t] # NoName => Exists(latest[t])
    /\ \A t \in Tasks : using[t] \in {NoName, latest[t]}
    /\ \A t \in Tasks : passed[t] => latest[t] # NoName
    /\ target # NoName => Exists(target)
    /\ head # Main => Exists(head)
    /\ \A n \in Names : tree[n] # "none" => Exists(n)

\* A handler that works on the item finds it there, with the branch it was asked for.
\* Before the merge the branch still has all it had at the request; after it, main has.
AskedIsKept ==
    \A h \in Handlers :
        /\ pc[h] # "idle" => item # "none"
        /\ pc[h] \in {"check", "merge", "remove", "record", "move"} => target # NoName
        /\ pc[h] \in {"check", "merge"} => my[h].asked \subseteq branch[target]
        /\ pc[h] \in {"remove", "record", "move"} => strayed \/ my[h].asked \subseteq main

NoItem == item = "none" => target = NoName

\* An item is accepted after a run that has succeeded, and a task with a run in hand has
\* no such run; so a dependency that let a claim pass stays as it is until that run has
\* its worktree, or is among the moved.
GateIsKept ==
    /\ \A t \in Tasks : passed[t] => t \notin claimed /\ using[t] = NoName
    /\ \A t \in Tasks : accepted[t] => passed[t] \/ t \in moved
    /\ \A t \in claimed : using[t] = NoName /\ (DependencyBlocked(t) => Base[t] \in moved)

\* Uncommitted changes are in a worktree that is there.
WorkIsHeld ==
    \A n \in Names : work[n] \subseteq 1..changes /\ (work[n] # {} => PathExists(n))

\* A handler that has removed the worktree has left none of the changes it saw there.
NothingLeft ==
    \A h \in Handlers :
        /\ my[h].left \subseteq 1..changes
        /\ pc[h] \in {"record", "move"} /\ ~my[h].cleanup => my[h].left \cap work[target] = {}

IInv ==
    /\ TypeOK /\ RecordedExist /\ AskedIsKept /\ NoItem
    /\ GateIsKept /\ WorkIsHeld /\ NothingLeft /\ ChangesAreKept

-----------------------------------------------------------------------------
(* Names and branches *)

LEMMA NamesApart ==
    /\ NoName \notin Names /\ Main \notin Names /\ NoName # Main
    /\ \A t \in Tasks : <<t, 1>> \in Names
BY DeliveryAssumption DEF NoName, Main, Names, NoTask

LEMMA BoundsType == MaxChanges \in Nat /\ MaxCalls \in Nat /\ MaxHuman \in Nat
BY DeliveryAssumption

LEMMA AbsentApart == \A c \in SUBSET Changes : c # Absent
BY DEF Changes, Absent

\* What a branch that exists, and a starting point, are made of.
LEMMA BranchCommits ==
    ASSUME TypeOK, NEW n \in Names, Exists(n)
    PROVE  branch[n] \in SUBSET Changes
BY DEF TypeOK, Exists

LEMMA HeadType ==
    ASSUME IInv
    PROVE  HeadCommits \in SUBSET Changes
BY BranchCommits DEF IInv, RecordedExist, HeadCommits, TypeOK

LEMMA StartingPointType ==
    ASSUME IInv, NEW t \in Tasks
    PROVE  StartingPoint(t) \in SUBSET Changes
<1>1. BaseName(t) # NoName => BaseName(t) \in Names /\ Exists(BaseName(t))
  BY DeliveryAssumption, NamesApart DEF IInv, TypeOK, RecordedExist, BaseName
<1> QED
  BY <1>1, HeadType, BranchCommits DEF IInv, StartingPoint

\* Branches only grow, and stay in existence, so what was found in one still is there.
Grows == \A n \in Names : Exists(n) => branch[n] \subseteq branch'[n] /\ Exists(n)'

LEMMA SameBranches ==
    ASSUME UNCHANGED branch
    PROVE  Grows
BY DEF Grows, Exists

\* Nothing is lost while branches grow and what leaves a worktree goes to its branch.
LEMMA KeptInv ==
    ASSUME IInv, Grows, changes' = changes, main \subseteq main', deleted \subseteq deleted',
           \A n \in Names : work[n] \subseteq work'[n] \cup branch'[n] \cup deleted'
    PROVE  ChangesAreKept'
<1> SUFFICES ASSUME NEW c \in 1..changes
             PROVE  c \in main' \cup deleted' \/ \E n \in Names : c \in branch'[n] \cup work'[n]
  BY DEF ChangesAreKept
<1>1. CASE c \in main \cup deleted
  BY <1>1
<1>2. ASSUME NEW n \in Names, c \in branch[n] \cup work[n]
      PROVE  c \in deleted' \/ c \in branch'[n] \cup work'[n]
  <2>1. CASE c \in branch[n]
    <3>1. c \in Nat \ {0}
      BY BoundsType DEF IInv, TypeOK
    <3>2. Exists(n)
      BY <2>1, <3>1 DEF Exists, Absent
    <3> QED
      BY <2>1, <3>2 DEF Grows
  <2>2. CASE c \in work[n]
    BY <2>2
  <2> QED
    BY <1>2, <2>1, <2>2
<1>3. c \in main \cup deleted \/ \E n \in Names : c \in branch[n] \cup work[n]
  BY DEF IInv, ChangesAreKept
<1> QED
  BY <1>1, <1>2, <1>3

LEMMA GateFrame ==
    ASSUME IInv, UNCHANGED <<claimed, using, passed, accepted, moved>>
    PROVE  GateIsKept'
BY DEF IInv, GateIsKept, DependencyBlocked

\* An item that is withdrawn was accepted before, if it is at all.
LEMMA WithdrawnType ==
    ASSUME IInv, NEW t \in Tasks, Withdrawn(t)
    PROVE  /\ accepted' \in [Tasks -> BOOLEAN]
           /\ \A u \in Tasks : accepted'[u] => accepted[u]
           /\ \A u \in Tasks : u # t => accepted'[u] = accepted[u]
BY DEF Withdrawn, IInv, TypeOK

-----------------------------------------------------------------------------
LEMMA InitInv == Init => IInv
<1> SUFFICES ASSUME Init
             PROVE  IInv
  OBVIOUS
<1>1. TypeOK
  <2>1. /\ branch \in [Names -> (SUBSET Changes) \cup {Absent}] /\ tree \in [Names -> Trees]
        /\ work \in [Names -> SUBSET Changes]
        /\ head \in {Main} \cup Names /\ main \subseteq Changes /\ untidy \in BOOLEAN
    BY DEF Init, Trees
  <2>2. /\ claimed \subseteq Tasks /\ {using, latest} \subseteq [Tasks -> Names \cup {NoName}]
        /\ {passed, accepted} \subseteq [Tasks -> BOOLEAN]
    BY DEF Init
  <2>3. /\ target \in Names \cup {NoName} /\ item \in ItemStates /\ status \in Statuses
    BY DEF Init, ItemStates, Statuses
  <2>4. /\ pc \in [Handlers -> HandlerSteps]
        /\ my \in [Handlers -> [asked : SUBSET Changes, left : SUBSET Changes, cleanup : BOOLEAN]]
    BY DEF Init, HandlerSteps, NoLocals
  <2>5. /\ strayed \in BOOLEAN /\ moved \subseteq Tasks /\ deleted \subseteq Changes
        /\ changes \in 0..MaxChanges /\ calls \in 0..MaxCalls /\ human \in 0..MaxHuman
    <3>1. /\ strayed \in BOOLEAN /\ moved = {} /\ deleted = {}
          /\ changes = 0 /\ calls = 0 /\ human = 0
      BY DEF Init
    <3>2. 0 \in 0..MaxChanges /\ 0 \in 0..MaxCalls /\ 0 \in 0..MaxHuman
      BY BoundsType
    <3> QED
      BY <3>1, <3>2
  <2> QED
    BY <2>1, <2>2, <2>3, <2>4, <2>5 DEF TypeOK
<1>2. RecordedExist /\ AskedIsKept /\ NoItem
  BY DEF Init, RecordedExist, AskedIsKept, NoItem
<1>3. GateIsKept /\ WorkIsHeld
  BY DEF Init, GateIsKept, WorkIsHeld
<1>4. NothingLeft
  BY DEF Init, NothingLeft, NoLocals
<1>5. ChangesAreKept
  BY DEF Init, ChangesAreKept
<1> QED
  BY <1>1, <1>2, <1>3, <1>4, <1>5 DEF IInv

-----------------------------------------------------------------------------
(* Runs *)

LEMMA ClaimInv ==
    ASSUME IInv, NEW t \in Tasks, Claim(t)
    PROVE  IInv'
<1> USE DEF IInv
<1>1. /\ UNCHANGED <<branch, tree, work, head, main, untidy, using, accepted, target, item, status,
                     pc, my, strayed, deleted, changes, calls>>
      /\ claimed' = claimed \cup {t} /\ using[t] = NoName
      /\ latest' = [latest EXCEPT ![t] = NoName] /\ passed' = [passed EXCEPT ![t] = FALSE]
      /\ moved \subseteq moved' /\ moved' \subseteq Tasks /\ human' \in 0..MaxHuman
      /\ accepted[t] => t \in moved'
      /\ DependencyBlocked(t) => Base[t] \in moved'
  <2>1. UNCHANGED <<moved, human>> \/ (human < MaxHuman /\ human' = human + 1)
    BY DEF Claim
  <2>2. human' \in 0..MaxHuman
    BY <2>1, BoundsType DEF TypeOK
  <2> QED
    BY <2>2 DEF Claim, TypeOK, gitVars, itemVars
<1>2. Grows
  BY <1>1, SameBranches
<1>3. TypeOK'
  BY <1>1 DEF TypeOK
<1>4. RecordedExist'
  BY <1>1 DEF RecordedExist, TypeOK, Exists
<1>5. AskedIsKept' /\ NoItem' /\ WorkIsHeld' /\ NothingLeft'
  BY <1>1 DEF AskedIsKept, NoItem, WorkIsHeld, NothingLeft, PathExists
<1>6. GateIsKept'
  <2>1. \A u \in Tasks : passed'[u] = (IF u = t THEN FALSE ELSE passed[u])
    BY <1>1 DEF TypeOK
  <2> QED
    BY <1>1, <2>1 DEF GateIsKept, DependencyBlocked
<1>7. ChangesAreKept'
  BY <1>1 DEF ChangesAreKept
<1> QED
  BY <1>3, <1>4, <1>5, <1>6, <1>7

\* The run of t has no worktree, or has it by now; its item may be withdrawn.
LEMMA GateAtStart ==
    ASSUME IInv, NEW t \in claimed, claimed' = claimed \ {t}, Withdrawn(t),
           UNCHANGED <<passed, moved>>, \A u \in Tasks : u # t => using'[u] = using[u]
    PROVE  GateIsKept'
<1>1. t \in Tasks /\ claimed \subseteq Tasks
  BY DEF IInv, TypeOK
<1>2. ~passed[t] /\ (accepted[t] => t \in moved)
  BY <1>1 DEF IInv, GateIsKept
<1>3. \A u \in Tasks : passed'[u] => u \notin claimed' /\ using'[u] = NoName
  BY <1>2 DEF IInv, GateIsKept
<1>4. \A u \in Tasks : accepted'[u] => passed'[u] \/ u \in moved'
  BY <1>1, WithdrawnType DEF IInv, GateIsKept
<1>5. \A u \in claimed' : DependencyBlocked(u)' => Base[u] \in moved'
  <2> SUFFICES ASSUME NEW u \in claimed, Base[u] # NoTask, ~accepted'[Base[u]]
               PROVE  Base[u] \in moved
    BY DEF DependencyBlocked
  <2>1. Base[u] \in Tasks
    BY <1>1, DeliveryAssumption
  <2>2. CASE ~accepted[Base[u]]
    BY <2>2 DEF IInv, GateIsKept, DependencyBlocked
  <2>3. CASE accepted[Base[u]]
    BY <1>1, <1>2, <2>1, <2>3, WithdrawnType
  <2> QED
    BY <2>2, <2>3
<1>6. \A u \in claimed' : using'[u] = NoName
  BY <1>1 DEF IInv, GateIsKept
<1> QED
  BY <1>3, <1>4, <1>5, <1>6 DEF GateIsKept

\* A run of t starts in the worktree n, on a branch with the commits b.
LEMMA StartsInv ==
    ASSUME IInv, NEW t \in claimed, claimed' = claimed \ {t}, Withdrawn(t),
           NEW n \in Names, NEW b \in SUBSET Changes,
           Starts(t, n, b), Exists(n) => branch[n] \subseteq b,
           UNCHANGED <<work, head, main, untidy, passed, itemVars, pc, my, history, counters>>
    PROVE  IInv'
<1> USE DEF IInv
<1>1. /\ t \in Tasks /\ claimed' \subseteq Tasks
      /\ UNCHANGED <<target, item, status, strayed, moved, deleted, changes, calls, human>>
  BY DEF TypeOK, itemVars, history, counters
<1>2. Grows /\ Exists(n)'
  BY AbsentApart DEF Starts, Grows, Exists, TypeOK
<1>3. TypeOK'
  <2>1. accepted' \in [Tasks -> BOOLEAN]
    BY <1>1, WithdrawnType
  <2>2. /\ branch' \in [Names -> (SUBSET Changes) \cup {Absent}] /\ tree' \in [Names -> Trees]
        /\ {using', latest'} \subseteq [Tasks -> Names \cup {NoName}]
    BY DEF Starts, TypeOK, Trees
  <2> QED
    BY <1>1, <2>1, <2>2 DEF TypeOK
<1>4. RecordedExist'
  <2>1. /\ \A m \in Names : tree'[m] = (IF m = n THEN "present" ELSE tree[m])
        /\ \A u \in Tasks : /\ latest'[u] = (IF u = t THEN n ELSE latest[u])
                            /\ using'[u] = (IF u = t THEN n ELSE using[u])
    BY DEF Starts, TypeOK
  <2> QED
    BY <1>1, <1>2, <2>1, NamesApart DEF RecordedExist, TypeOK, Grows
<1>5. AskedIsKept' /\ NoItem'
  BY <1>1, <1>2 DEF AskedIsKept, NoItem, RecordedExist, TypeOK, Grows
<1>6. WorkIsHeld' /\ NothingLeft'
  BY <1>1 DEF Starts, WorkIsHeld, NothingLeft, PathExists, TypeOK
<1>7. GateIsKept'
  BY <1>1, GateAtStart DEF Starts, TypeOK
<1>8. ChangesAreKept'
  BY <1>1, <1>2, KeptInv
<1> QED
  BY <1>3, <1>4, <1>5, <1>6, <1>7, <1>8

LEMMA PrepareInv ==
    ASSUME IInv, NEW t \in Tasks, Prepare(t)
    PROVE  IInv'
<1> DEFINE n == <<t, 1>>
<1>1. n \in Names /\ TypeOK /\ StartingPoint(t) \in SUBSET Changes
  BY NamesApart, StartingPointType DEF IInv
<1>2. /\ t \in claimed /\ claimed' = claimed \ {t} /\ Withdrawn(t)
      /\ UNCHANGED <<work, head, main, untidy, passed, itemVars, pc, my, history, counters>>
  BY DEF Prepare
<1>3. CASE Reuse(t, n)
  <2>1. Exists(n) /\ branch[n] \in SUBSET Changes
    BY <1>1, <1>3, BranchCommits DEF Reuse, PathExists, IInv, RecordedExist
  <2> QED
    BY <1>1, <1>2, <1>3, <2>1, StartsInv DEF Reuse
<1>4. CASE CreateBranch(t, n)
  BY <1>1, <1>2, <1>4, StartsInv DEF CreateBranch
<1>5. CASE Attach(t, n)
  BY <1>1, <1>2, <1>5, BranchCommits, StartsInv DEF Attach
<1>6. CASE Suffixed(t, n)
  <2>1. PICK k \in 2..MaxSuffix : ~Exists(<<t, k>>) /\ Starts(t, <<t, k>>, StartingPoint(t))
    BY <1>6 DEF Suffixed
  <2>2. <<t, k>> \in Names
    BY <2>1, DeliveryAssumption DEF Names
  <2> QED
    BY <1>1, <1>2, <2>1, <2>2, StartsInv
<1> QED
  BY <1>3, <1>4, <1>5, <1>6 DEF Prepare

LEMMA NotPreparedInv ==
    ASSUME IInv, NEW t \in Tasks, NotPrepared(t)
    PROVE  IInv'
<1> USE DEF IInv
<1>1. /\ t \in claimed /\ claimed' = claimed \ {t} /\ Withdrawn(t)
      /\ UNCHANGED <<branch, tree, work, head, main, untidy, using, latest, passed, target, item,
                     status, pc, my, strayed, moved, deleted, changes, calls, human>>
  BY DEF NotPrepared, gitVars, itemVars, history, counters
<1>2. accepted' \in [Tasks -> BOOLEAN] /\ GateIsKept'
  BY <1>1, WithdrawnType, GateAtStart
<1>3. TypeOK'
  BY <1>1, <1>2 DEF TypeOK
<1>4. RecordedExist' /\ AskedIsKept' /\ NoItem'
  BY <1>1 DEF RecordedExist, AskedIsKept, NoItem, Exists
<1>5. WorkIsHeld' /\ NothingLeft' /\ ChangesAreKept'
  BY <1>1 DEF WorkIsHeld, NothingLeft, ChangesAreKept, PathExists
<1> QED
  BY <1>2, <1>3, <1>4, <1>5

LEMMA EditInv ==
    ASSUME IInv, NEW t \in Tasks, Edit(t)
    PROVE  IInv'
<1> USE DEF IInv
<1> DEFINE new == changes + 1
<1>1. PICK n \in Names : PathExists(n) /\ work' = [work EXCEPT ![n] = @ \cup {new}]
  BY DEF Edit, TypeOK
<1>2. /\ UNCHANGED <<branch, tree, head, main, untidy, claimed, using, latest, passed, accepted,
                     target, item, status, pc, my, strayed, moved, deleted, calls, human>>
      /\ changes' = new
  BY DEF Edit, runVars, itemVars, history
<1>0. /\ new \in Changes /\ new \in 0..MaxChanges /\ changes \in Nat
      /\ new \notin 1..changes /\ 1..new = (1..changes) \cup {new}
  <2>1. changes \in Nat /\ changes < MaxChanges
    BY BoundsType DEF Edit, TypeOK
  <2> QED
    BY <2>1, BoundsType DEF Changes
<1> HIDE DEF new
<1>3. TypeOK'
  BY <1>0, <1>1, <1>2 DEF TypeOK
<1>4. RecordedExist' /\ AskedIsKept' /\ NoItem' /\ GateIsKept'
  BY <1>2, GateFrame DEF RecordedExist, AskedIsKept, NoItem, Exists
<1>5. \A m \in Names : work'[m] = (IF m = n THEN work[m] \cup {new} ELSE work[m])
  BY <1>1 DEF TypeOK
<1>6. WorkIsHeld'
  BY <1>0, <1>1, <1>2, <1>5 DEF WorkIsHeld, PathExists
<1>7. NothingLeft'
  <2> SUFFICES ASSUME NEW h \in Handlers
               PROVE  /\ my[h].left \subseteq 1..new
                      /\ pc[h] \in {"record", "move"} /\ ~my[h].cleanup =>
                            my[h].left \cap work'[target] = {}
    BY <1>2 DEF NothingLeft
  <2>1. my[h].left \subseteq 1..changes
    BY DEF NothingLeft
  <2>2. my[h].left \subseteq 1..new
    BY <1>0, <1>2, <2>1
  <2>3. ASSUME pc[h] \in {"record", "move"}, ~my[h].cleanup
        PROVE  my[h].left \cap work'[target] = {}
    <3>1. target \in Names /\ my[h].left \cap work[target] = {}
      BY <2>3 DEF NothingLeft, AskedIsKept, TypeOK
    <3>2. work'[target] \subseteq work[target] \cup {new}
      BY <1>5, <3>1
    <3> QED
      BY <1>0, <1>2, <2>1, <3>1, <3>2
  <2> QED
    BY <2>2, <2>3
<1>8. ChangesAreKept'
  BY <1>0, <1>2, <1>5 DEF ChangesAreKept
<1> QED
  BY <1>3, <1>4, <1>6, <1>7, <1>8

\* Only the item of t and its run may change, and only at the end of the run.
LEMMA GateAtEnd ==
    ASSUME IInv, NEW t \in Tasks, using[t] # NoName, using' = [using EXCEPT ![t] = NoName],
           UNCHANGED claimed, NEW ok \in BOOLEAN, NEW shown \in BOOLEAN,
           passed' = [passed EXCEPT ![t] = ok], accepted' = [accepted EXCEPT ![t] = shown],
           moved' = IF ~shown THEN moved ELSE IF ok THEN moved \ {t} ELSE moved \cup {t}
    PROVE  GateIsKept'
<1>1. /\ \A u \in Tasks : /\ passed'[u] = (IF u = t THEN ok ELSE passed[u])
                          /\ accepted'[u] = (IF u = t THEN shown ELSE accepted[u])
                          /\ using'[u] = (IF u = t THEN NoName ELSE using[u])
      /\ claimed \subseteq Tasks
  BY DEF IInv, TypeOK
<1>2. ~passed[t] /\ (accepted[t] => t \in moved) /\ t \notin claimed
  BY DEF IInv, GateIsKept
<1>3. /\ \A u \in Tasks : passed'[u] => u \notin claimed' /\ using'[u] = NoName
      /\ \A u \in claimed' : using'[u] = NoName
  BY <1>1, <1>2 DEF IInv, GateIsKept
<1>4. \A u \in Tasks : accepted'[u] => passed'[u] \/ u \in moved'
  BY <1>1 DEF IInv, GateIsKept
<1>5. ASSUME NEW u \in claimed, Base[u] # NoTask, ~accepted'[Base[u]]
      PROVE  Base[u] \in moved'
  <2>1. Base[u] \in Tasks
    BY <1>1, <1>5, DeliveryAssumption
  <2>2. ~accepted[Base[u]] => Base[u] \in moved
    BY <1>5 DEF IInv, GateIsKept, DependencyBlocked
  <2>3. CASE Base[u] = t
    BY <1>1, <1>2, <1>5, <2>2, <2>3
  <2>4. CASE Base[u] # t
    BY <1>1, <1>5, <2>1, <2>2, <2>4
  <2> QED
    BY <2>3, <2>4
<1> QED
  BY <1>3, <1>4, <1>5 DEF GateIsKept, DependencyBlocked

LEMMA FinishRunInv ==
    ASSUME IInv, NEW t \in Tasks, FinishRun(t)
    PROVE  IInv'
<1> USE DEF IInv
<1> DEFINE n == using[t]
           Commit == /\ branch' = [branch EXCEPT ![n] = @ \cup work[n]]
                     /\ work' = [work EXCEPT ![n] = {}]
<1>0. n \in Names /\ Exists(n)
  BY DEF FinishRun, TypeOK, RecordedExist
<1>1. /\ n \in Names /\ Exists(n) /\ branch[n] \in SUBSET Changes /\ work[n] \in SUBSET Changes
      /\ Commit \/ UNCHANGED <<branch, work>>
      /\ using' = [using EXCEPT ![t] = NoName]
      /\ UNCHANGED <<tree, head, main, untidy, claimed, latest, itemVars, target, item, status, pc,
                     my, strayed, deleted, changes, calls, human>>
  BY <1>0, BranchCommits DEF FinishRun, itemVars, counters, TypeOK
<1>2. PICK ok \in BOOLEAN, shown \in BOOLEAN :
        /\ passed' = [passed EXCEPT ![t] = ok] /\ accepted' = [accepted EXCEPT ![t] = shown]
        /\ moved' = IF ~shown THEN moved ELSE IF ok THEN moved \ {t} ELSE moved \cup {t}
  BY DEF FinishRun
<1>3. /\ Grows /\ branch' \in [Names -> (SUBSET Changes) \cup {Absent}]
      /\ work' \in [Names -> SUBSET Changes] /\ \A m \in Names : work'[m] \subseteq work[m]
      /\ \A m \in Names : work[m] \subseteq work'[m] \cup branch'[m]
  <2>1. CASE Commit
    <3>1. /\ \A m \in Names : work'[m] = (IF m = n THEN {} ELSE work[m])
          /\ \A m \in Names : branch'[m] = (IF m = n THEN branch[m] \cup work[m] ELSE branch[m])
      BY <2>1 DEF TypeOK
    <3>2. branch[n] \cup work[n] \in SUBSET Changes
      BY <1>1
    <3>3. Grows
      BY <1>1, <3>1, <3>2, AbsentApart DEF Grows, Exists
    <3>4. /\ branch' \in [Names -> (SUBSET Changes) \cup {Absent}]
          /\ work' \in [Names -> SUBSET Changes]
      BY <1>1, <2>1, <3>2 DEF TypeOK
    <3> QED
      BY <3>1, <3>3, <3>4
  <2>2. CASE UNCHANGED <<branch, work>>
    BY <2>2, SameBranches DEF TypeOK
  <2> QED
    BY <1>1, <2>1, <2>2
<1>4. TypeOK'
  BY <1>1, <1>2, <1>3 DEF TypeOK
<1>5. RecordedExist'
  BY <1>1, <1>2, <1>3, NamesApart DEF RecordedExist, TypeOK, Grows
<1>6. AskedIsKept' /\ NoItem'
  BY <1>1, <1>3 DEF AskedIsKept, NoItem, RecordedExist, TypeOK, Grows
<1>7. WorkIsHeld' /\ NothingLeft'
  BY <1>1, <1>3 DEF WorkIsHeld, NothingLeft, PathExists, AskedIsKept, TypeOK
<1>8. GateIsKept'
  BY <1>0, <1>1, <1>2, NamesApart, GateAtEnd
<1>9. ChangesAreKept'
  BY <1>1, <1>3, KeptInv
<1> QED
  BY <1>4, <1>5, <1>6, <1>7, <1>8, <1>9

-----------------------------------------------------------------------------
(* The delivery *)

LEMMA CreateDeliveryInv ==
    ASSUME IInv, CreateDelivery
    PROVE  IInv'
<1> USE DEF IInv
<1>1. target' \in Names \cup {NoName} /\ (target' # NoName => Exists(target'))
  BY DeliveryAssumption DEF CreateDelivery, TypeOK, RecordedExist
<1>2. UNCHANGED <<branch, tree, work, head, main, untidy, claimed, using, latest, passed, accepted,
                  pc, my, strayed, moved, deleted, changes, calls, human>>
  BY DEF CreateDelivery, gitVars, runVars, history, counters
<1>3. TypeOK'
  <2>1. item' \in ItemStates /\ status' \in Statuses
    BY DEF CreateDelivery, ItemStates, Statuses
  <2> QED
    BY <1>1, <1>2, <2>1 DEF TypeOK
<1>4. RecordedExist'
  BY <1>1, <1>2 DEF RecordedExist, Exists
<1>5. AskedIsKept' /\ NoItem'
  BY <1>2 DEF CreateDelivery, AskedIsKept, NoItem
<1>6. GateIsKept' /\ WorkIsHeld' /\ ChangesAreKept'
  BY <1>2, GateFrame DEF WorkIsHeld, PathExists, ChangesAreKept
<1>7. NothingLeft'
  <2>1. \A h \in Handlers : pc[h] = "idle"
    BY DEF CreateDelivery, AskedIsKept
  <2> QED
    BY <1>2, <2>1 DEF NothingLeft
<1> QED
  BY <1>3, <1>4, <1>5, <1>6, <1>7

\* What every step of a handler leaves as it was.
LEMMA HandlerFrame ==
    ASSUME IInv, Grows, UNCHANGED <<work, runVars, target, head, moved, deleted, changes>>,
           \A n \in Names : tree'[n] # "none" => tree[n] # "none",
           \A n \in Names : work[n] # {} => tree'[n] = tree[n],
           item # "none" => item' # "none", main \subseteq main'
    PROVE  RecordedExist' /\ NoItem' /\ GateIsKept' /\ WorkIsHeld' /\ ChangesAreKept'
<1> USE DEF IInv
<1>1. UNCHANGED <<claimed, using, latest, passed, accepted>>
  BY DEF runVars
<1>2. /\ \A t \in Tasks : latest[t] \in Names \cup {NoName}
      /\ target \in Names \cup {NoName} /\ head \in Names \cup {Main}
  BY DEF TypeOK
<1>3. RecordedExist'
  BY <1>1, <1>2 DEF RecordedExist, Grows
<1>4. NoItem'
  BY DEF NoItem
<1>5. GateIsKept'
  BY <1>1, GateFrame
<1>6. WorkIsHeld'
  BY DEF WorkIsHeld, PathExists
<1>7. ChangesAreKept'
  BY KeptInv
<1> QED
  BY <1>3, <1>4, <1>5, <1>6, <1>7

LEMMA CallCompleteInv ==
    ASSUME IInv, NEW h \in Handlers, CallComplete(h)
    PROVE  IInv'
<1> USE DEF IInv
<1> DEFINE step == IF target = NoName THEN "refuse" ELSE "check"
<1>1. /\ pc' = [pc EXCEPT ![h] = step]
      /\ item # "none" /\ calls' \in 0..MaxCalls
      /\ UNCHANGED <<branch, tree, work, head, main, untidy, runVars, claimed, using, latest, passed,
                     accepted, target, item, status, strayed, moved, deleted, changes, human>>
  <2>1. calls' \in 0..MaxCalls
    BY BoundsType DEF CallComplete, TypeOK
  <2> QED
    BY <2>1 DEF CallComplete, Goto, gitVars, runVars, itemVars, history
<1>2. PICK asked \in SUBSET Changes, left \in SUBSET Changes :
        /\ my' = [my EXCEPT ![h].asked = asked, ![h].left = left]
        /\ left \subseteq 1..changes
        /\ target # NoName => asked = branch[target]
  <2>1. CASE target = NoName
    <3>1. my[h].asked \in SUBSET Changes /\ my[h].left \in SUBSET Changes
      BY DEF TypeOK
    <3>2. my' = [my EXCEPT ![h].asked = my[h].asked, ![h].left = my[h].left]
      BY <2>1 DEF CallComplete, TypeOK
    <3>3. my[h].left \subseteq 1..changes
      BY DEF NothingLeft
    <3> QED
      BY <2>1, <3>1, <3>2, <3>3
  <2>2. CASE target # NoName
    <3>1. target \in Names /\ Exists(target)
      BY <2>2 DEF TypeOK, RecordedExist
    <3>2. branch[target] \in SUBSET Changes /\ work[target] \in SUBSET Changes
      BY <3>1, BranchCommits DEF TypeOK
    <3>3. work[target] \subseteq 1..changes
      BY <3>1 DEF WorkIsHeld
    <3> QED
      BY <2>2, <3>2, <3>3 DEF CallComplete
  <2> QED
    BY <2>1, <2>2
<1>0. left \subseteq 1..changes /\ (target # NoName => asked = branch[target])
  BY <1>2
<1>3. TypeOK'
  <2>1. pc' \in [Handlers -> HandlerSteps]
    BY <1>1 DEF TypeOK, HandlerSteps
  <2>2. my' \in [Handlers -> [asked : SUBSET Changes, left : SUBSET Changes, cleanup : BOOLEAN]]
    <3>1. my \in [Handlers -> [asked : SUBSET Changes, left : SUBSET Changes, cleanup : BOOLEAN]]
      BY DEF TypeOK
    <3>2. [my[h] EXCEPT !.asked = asked, !.left = left]
            \in [asked : SUBSET Changes, left : SUBSET Changes, cleanup : BOOLEAN]
      BY <3>1
    <3>3. my' = [my EXCEPT ![h] = [my[h] EXCEPT !.asked = asked, !.left = left]]
      BY <1>2, <3>1
    <3> QED
      BY <3>1, <3>2, <3>3
  <2> QED
    BY <1>1, <2>1, <2>2 DEF TypeOK
<1>4. RecordedExist' /\ NoItem' /\ GateIsKept' /\ WorkIsHeld' /\ ChangesAreKept'
  BY <1>1, SameBranches, HandlerFrame
<1>5. /\ \A g \in Handlers : g # h => pc'[g] = pc[g] /\ my'[g] = my[g]
      /\ pc'[h] = step /\ my'[h].asked = asked /\ my'[h].left = left
  BY <1>1, <1>2 DEF TypeOK
<1>6. AskedIsKept'
  <2> SUFFICES ASSUME NEW g \in Handlers
               PROVE  /\ pc'[g] # "idle" => item' # "none"
                      /\ pc'[g] \in {"check", "merge", "remove", "record", "move"} => target' # NoName
                      /\ pc'[g] \in {"check", "merge"} => my'[g].asked \subseteq branch'[target']
                      /\ pc'[g] \in {"remove", "record", "move"} =>
                            strayed' \/ my'[g].asked \subseteq main'
    BY DEF AskedIsKept
  <2>1. CASE g = h
    BY <1>0, <1>1, <1>5, <2>1
  <2>2. CASE g # h
    BY <1>1, <1>5, <2>2 DEF AskedIsKept
  <2> QED
    BY <2>1, <2>2
<1>7. NothingLeft'
  <2> SUFFICES ASSUME NEW g \in Handlers
               PROVE  /\ my'[g].left \subseteq 1..changes
                      /\ pc'[g] \in {"record", "move"} /\ ~my'[g].cleanup =>
                            my'[g].left \cap work[target] = {}
    BY <1>1 DEF NothingLeft
  <2>1. CASE g = h
    BY <1>0, <1>5, <2>1
  <2>2. CASE g # h
    BY <1>5, <2>2 DEF NothingLeft
  <2> QED
    BY <2>1, <2>2
<1> QED
  BY <1>3, <1>4, <1>6, <1>7

\* A step of h to the step s: what h was asked for is still there, and what the others
\* were asked for is left alone.
LEMMA GotoInv ==
    ASSUME IInv, NEW h \in Handlers, NEW s \in HandlerSteps, Goto(h, s), pc[h] # "idle",
           TypeOK', Grows, UNCHANGED <<work, runVars, target, head, moved, deleted, changes>>,
           \A n \in Names : tree'[n] # "none" => tree[n] # "none",
           \A n \in Names : work[n] # {} => tree'[n] = tree[n],
           item # "none" => item' # "none", main \subseteq main', strayed => strayed',
           \A g \in Handlers : g # h => my'[g] = my[g],
           s # "idle" => my'[h].asked = my[h].asked,
           my'[h].left \subseteq 1..changes,
           s # "check", s = "merge" => pc[h] = "check",
           s \in {"remove", "record", "move"} =>
                target # NoName /\ (strayed' \/ my[h].asked \subseteq main'),
           s \in {"record", "move"} /\ ~my'[h].cleanup => my'[h].left \cap work[target] = {}
    PROVE  IInv'
<1> USE DEF IInv
<1>1. RecordedExist' /\ NoItem' /\ GateIsKept' /\ WorkIsHeld' /\ ChangesAreKept'
  BY HandlerFrame
<1>2. /\ pc'[h] = s /\ \A g \in Handlers : g # h => pc'[g] = pc[g]
      /\ target' = target
  BY DEF Goto, TypeOK
<1>3. target # NoName => branch[target] \subseteq branch'[target]
  BY DEF RecordedExist, TypeOK, Grows
<1>4. AskedIsKept'
  <2> SUFFICES ASSUME NEW g \in Handlers
               PROVE  /\ pc'[g] # "idle" => item' # "none"
                      /\ pc'[g] \in {"check", "merge", "remove", "record", "move"} => target' # NoName
                      /\ pc'[g] \in {"check", "merge"} => my'[g].asked \subseteq branch'[target']
                      /\ pc'[g] \in {"remove", "record", "move"} =>
                            strayed' \/ my'[g].asked \subseteq main'
    BY DEF AskedIsKept
  <2>1. CASE g = h
    BY <1>2, <1>3, <2>1 DEF AskedIsKept
  <2>2. CASE g # h
    BY <1>2, <1>3, <2>2 DEF AskedIsKept
  <2> QED
    BY <2>1, <2>2
<1>5. NothingLeft'
  BY <1>2 DEF NothingLeft
<1> QED
  BY <1>1, <1>4, <1>5

LEMMA CheckMainInv ==
    ASSUME IInv, NEW h \in Handlers, CheckMain(h)
    PROVE  IInv'
<1> USE DEF IInv
<1> DEFINE s == IF untidy THEN "refuse" ELSE "merge"
<1>1. /\ s \in HandlerSteps /\ pc' = [pc EXCEPT ![h] = s] /\ Goto(h, s)
      /\ UNCHANGED <<branch, tree, work, head, main, untidy, item, status, my, runVars, claimed,
                     using, latest, passed, accepted, target, strayed, moved, deleted, changes,
                     calls, human>>
  BY DEF CheckMain, Goto, gitVars, rest, runVars, history, counters, HandlerSteps
<1>2. TypeOK'
  BY <1>1 DEF TypeOK
<1>3. my[h].left \subseteq 1..changes
  BY DEF NothingLeft
<1> QED
  BY <1>1, <1>2, <1>3, SameBranches, GotoInv DEF CheckMain

LEMMA MergeInv ==
    ASSUME IInv, NEW h \in Handlers, Merge(h)
    PROVE  IInv'
<1> USE DEF IInv
<1> DEFINE b == branch[target]
<1>1. /\ pc[h] = "merge" /\ target \in Names /\ target # NoName /\ b \in SUBSET Changes
      /\ my[h].asked \subseteq b /\ my[h].left \subseteq 1..changes
  BY BranchCommits DEF Merge, AskedIsKept, NothingLeft, RecordedExist, TypeOK
<1>2. UNCHANGED <<tree, work, head, item, status, my, runVars, claimed, using, latest, passed,
                  accepted, target, moved, deleted, changes, calls, human>>
  BY DEF Merge, runVars, counters
<1>3. CASE /\ Goto(h, "remove") /\ UNCHANGED untidy
           /\ IF head = Main THEN main' = main \cup b /\ UNCHANGED branch
              ELSE branch' = [branch EXCEPT ![head] = @ \cup b] /\ UNCHANGED main
           /\ strayed' = (strayed \/ head # Main)
  <2>1. main \subseteq main' /\ main' \subseteq Changes
    BY <1>1, <1>3 DEF TypeOK
  <2>2. Grows /\ branch' \in [Names -> (SUBSET Changes) \cup {Absent}]
    <3>1. CASE head = Main
      BY <1>3, <3>1, SameBranches DEF TypeOK
    <3>2. CASE head # Main
      <4>1. head \in Names /\ Exists(head)
        BY <3>2 DEF TypeOK, RecordedExist
      <4>2. branch[head] \in SUBSET Changes
        BY <4>1, BranchCommits
      <4>3. branch[head] \cup b \in SUBSET Changes
        BY <1>1, <4>2
      <4> QED
        BY <1>3, <3>2, <4>1, <4>3, AbsentApart DEF Grows, Exists, TypeOK
    <3> QED
      BY <3>1, <3>2
  <2>3. strayed' \in BOOLEAN /\ (strayed => strayed')
    BY <1>3, Zenon
  <2>4. strayed' \/ my[h].asked \subseteq main'
    <3>1. CASE head = Main
      BY <1>1, <1>3, <3>1
    <3>2. CASE head # Main
      BY <1>3, <3>2, Zenon
    <3> QED
      BY <3>1, <3>2
  <2>5. TypeOK'
    <3>1. pc' \in [Handlers -> HandlerSteps]
      BY <1>3 DEF Goto, TypeOK, HandlerSteps
    <3> QED
      BY <1>2, <1>3, <2>1, <2>2, <2>3, <3>1 DEF TypeOK
  <2>6. "remove" \in HandlerSteps
    BY DEF HandlerSteps
  <2> QED
    BY <1>1, <1>2, <1>3, <2>1, <2>2, <2>3, <2>4, <2>5, <2>6, GotoInv
<1>4. CASE Goto(h, "refuse") /\ untidy' = TRUE /\ UNCHANGED <<branch, main, strayed>>
  <2>1. "refuse" \in HandlerSteps
    BY DEF HandlerSteps
  <2>2. TypeOK'
    BY <1>2, <1>4, <2>1 DEF TypeOK, Goto
  <2> QED
    BY <1>1, <1>2, <1>4, <2>1, <2>2, SameBranches, GotoInv
<1> QED
  BY <1>3, <1>4 DEF Merge, AfterMerge

\* git removes a worktree only without changes in it, so none that h saw there is left.
LEMMA RemoveTreeInv ==
    ASSUME IInv, NEW h \in Handlers, RemoveTree(h)
    PROVE  IInv'
<1> USE DEF IInv
<1>1. /\ pc[h] = "remove" /\ Goto(h, "record") /\ pc' = [pc EXCEPT ![h] = "record"]
      /\ UNCHANGED <<branch, work, head, main, untidy, item, status, runVars, claimed, using, latest,
                     passed, accepted, target, strayed, moved, deleted, changes, calls, human>>
      /\ "record" \in HandlerSteps
  BY DEF RemoveTree, Goto, rest, runVars, history, counters, HandlerSteps
<1>2. target \in Names /\ target # NoName /\ (strayed \/ my[h].asked \subseteq main)
  BY <1>1 DEF AskedIsKept, TypeOK
<1>3. /\ tree' \in [Names -> Trees] /\ \A n \in Names : tree'[n] # "none" => tree[n] # "none"
      /\ \A n \in Names : work[n] # {} => tree'[n] = tree[n]
      /\ ~my'[h].cleanup => work[target] = {}
  <2>1. CASE Removable(target) /\ tree' = [tree EXCEPT ![target] = "none"]
    <3>1. work[target] = {}
      BY <1>2, <2>1 DEF Removable, WorkIsHeld, PathExists
    <3> QED
      BY <1>2, <2>1, <3>1 DEF TypeOK, Trees
  <2>2. CASE my' = [my EXCEPT ![h].cleanup = TRUE] /\ tree' = tree
    BY <2>2 DEF TypeOK
  <2> QED
    BY <2>1, <2>2 DEF RemoveTree
<1>4. /\ my' \in [Handlers -> [asked : SUBSET Changes, left : SUBSET Changes, cleanup : BOOLEAN]]
      /\ \A g \in Handlers : g # h => my'[g] = my[g]
      /\ my'[h].asked = my[h].asked /\ my'[h].left = my[h].left
  <2>1. CASE my' = [my EXCEPT ![h].cleanup = TRUE]
    BY <2>1 DEF TypeOK
  <2>2. CASE my' = my
    BY <2>2 DEF TypeOK
  <2> QED
    BY <2>1, <2>2 DEF RemoveTree
<1>5. TypeOK'
  BY <1>1, <1>3, <1>4 DEF TypeOK
<1>6. /\ my'[h].left \subseteq 1..changes
      /\ ~my'[h].cleanup => my'[h].left \cap work[target] = {}
  BY <1>3, <1>4 DEF NothingLeft
<1> QED
  BY <1>1, <1>2, <1>3, <1>4, <1>5, <1>6, SameBranches, GotoInv

\* The call is recorded, or refused.
LEMMA RecordInv ==
    ASSUME IInv, NEW h \in Handlers, Record(h) \/ Refuse(h)
    PROVE  IInv'
<1> USE DEF IInv
<1>1. /\ UNCHANGED <<branch, tree, work, head, main, untidy, item, my, runVars, claimed, using,
                     latest, passed, accepted, target, strayed, moved, deleted, changes, calls,
                     human>>
      /\ status' \in Statuses
  BY DEF Record, Refuse, DeliveryStatus, Statuses, gitVars, rest, runVars, history, counters
<1>2. PICK s \in HandlerSteps : Goto(h, s) /\ (\/ s = "move" /\ pc[h] = "record"
                                               \/ s = "refuseMove" /\ pc[h] = "refuse")
  BY DEF Record, Refuse, HandlerSteps
<1>3. pc' = [pc EXCEPT ![h] = s] /\ s \in HandlerSteps
  BY <1>2 DEF Goto
<1>4. TypeOK'
  BY <1>1, <1>3 DEF TypeOK
<1>5. /\ s = "move" => target # NoName /\ (strayed \/ my[h].asked \subseteq main)
      /\ s = "move" /\ ~my[h].cleanup => my[h].left \cap work[target] = {}
      /\ my[h].left \subseteq 1..changes
  BY <1>2 DEF AskedIsKept, NothingLeft
<1> QED
  BY <1>1, <1>2, <1>4, <1>5, SameBranches, GotoInv

\* The call is over.
LEMMA FinishInv ==
    ASSUME IInv, NEW h \in Handlers, MoveItem(h) \/ RefuseMove(h)
    PROVE  IInv'
<1> USE DEF IInv
<1>1. /\ UNCHANGED <<branch, tree, work, head, main, untidy, status, runVars, claimed, using, latest,
                     passed, accepted, target, strayed, moved, deleted, changes, calls, human>>
      /\ item' \in ItemStates /\ (item # "none" => item' # "none")
      /\ Goto(h, "idle") /\ pc' = [pc EXCEPT ![h] = "idle"] /\ pc[h] # "idle"
      /\ "idle" \in HandlerSteps
      /\ my' = [my EXCEPT ![h] = NoLocals]
  BY DEF MoveItem, RefuseMove, Finish, Goto, ItemStates, HandlerSteps, TypeOK,
         gitVars, rest, runVars, history, counters
<1>2. /\ my' \in [Handlers -> [asked : SUBSET Changes, left : SUBSET Changes, cleanup : BOOLEAN]]
      /\ \A g \in Handlers : g # h => my'[g] = my[g]
      /\ my'[h].left = {}
  BY <1>1 DEF TypeOK, NoLocals
<1>3. TypeOK'
  BY <1>1, <1>2 DEF TypeOK
<1> QED
  BY <1>1, <1>2, <1>3, SameBranches, GotoInv

LEMMA HandlerStepInv ==
    ASSUME IInv, NEW h \in Handlers, HandlerStep(h)
    PROVE  IInv'
BY CheckMainInv, MergeInv, RemoveTreeInv, RecordInv, FinishInv DEF HandlerStep

-----------------------------------------------------------------------------
(* People, and a crash *)

LEMMA HumanWorksInv ==
    ASSUME IInv, HumanWorks
    PROVE  IInv'
<1> USE DEF IInv
<1>1. /\ UNCHANGED <<branch, runVars, claimed, using, latest, passed, accepted, target, item, status,
                     pc, my, strayed, moved, changes, calls>>
      /\ human' \in 0..MaxHuman /\ Grows
  <2>1. human' \in 0..MaxHuman
    BY BoundsType DEF HumanWorks, TypeOK
  <2>2. UNCHANGED branch
    BY DEF HumanWorks
  <2> QED
    BY <2>1, <2>2, SameBranches DEF HumanWorks, runVars, itemVars
<1>2. main \subseteq main' /\ main' \subseteq Changes
  <2>1. CASE target # NoName /\ main' = main \cup branch[target]
    <3>1. target \in Names /\ Exists(target)
      BY <2>1 DEF TypeOK, RecordedExist
    <3> QED
      BY <2>1, <3>1, BranchCommits DEF TypeOK
  <2>2. CASE UNCHANGED main
    BY <2>2 DEF TypeOK
  <2> QED
    BY <2>1, <2>2 DEF HumanWorks
<1>3. /\ head' \in {Main} \cup Names /\ (head' # Main => Exists(head'))
      /\ untidy' \in BOOLEAN
  <2>1. untidy' \in BOOLEAN
    BY DEF HumanWorks, TypeOK
  <2>2. head' \in {Main} \cup Names /\ (head' # Main => Exists(head'))
    BY DEF HumanWorks, TypeOK, RecordedExist
  <2> QED
    BY <2>1, <2>2
<1>4. /\ tree' \in [Names -> Trees] /\ work' \in [Names -> SUBSET Changes]
      /\ deleted' \subseteq Changes /\ deleted \subseteq deleted'
      /\ \A n \in Names : /\ tree'[n] # "none" => Exists(n)
                          /\ work'[n] \subseteq work[n] /\ work[n] \subseteq work'[n] \cup deleted'
                          /\ work'[n] # {} => tree'[n] = "present"
  <2>1. CASE UNCHANGED <<tree, work, deleted>>
    BY <2>1 DEF TypeOK, RecordedExist, WorkIsHeld, PathExists
  <2>2. ASSUME NEW n \in Names, PathExists(n), tree' = [tree EXCEPT ![n] = "missing"],
               work' = [work EXCEPT ![n] = {}], deleted' = deleted \cup work[n]
        PROVE  /\ tree' \in [Names -> Trees] /\ work' \in [Names -> SUBSET Changes]
               /\ deleted' \subseteq Changes /\ deleted \subseteq deleted'
               /\ \A m \in Names : /\ tree'[m] # "none" => Exists(m)
                                   /\ work'[m] \subseteq work[m]
                                   /\ work[m] \subseteq work'[m] \cup deleted'
                                   /\ work'[m] # {} => tree'[m] = "present"
    <3>1. \A m \in Names : /\ tree'[m] = (IF m = n THEN "missing" ELSE tree[m])
                           /\ work'[m] = (IF m = n THEN {} ELSE work[m])
      BY <2>2 DEF TypeOK
    <3>2. work[n] \in SUBSET Changes
      BY DEF TypeOK
    <3>3. tree' \in [Names -> Trees] /\ work' \in [Names -> SUBSET Changes] /\ deleted' \subseteq Changes
      BY <2>2, <3>2 DEF TypeOK, Trees
    <3> QED
      BY <2>2, <3>1, <3>3 DEF RecordedExist, WorkIsHeld, PathExists
  <2> QED
    BY <2>1, <2>2 DEF HumanWorks
<1>5. TypeOK'
  BY <1>1, <1>2, <1>3, <1>4 DEF TypeOK
<1>6. RecordedExist'
  BY <1>1, <1>3, <1>4 DEF RecordedExist, Exists
<1>7. AskedIsKept' /\ NoItem' /\ GateIsKept'
  BY <1>1, <1>2, GateFrame DEF AskedIsKept, NoItem
<1>8. WorkIsHeld'
  BY <1>1, <1>4 DEF WorkIsHeld, PathExists
<1>9. NothingLeft'
  <2>1. \A h \in Handlers : pc[h] \in {"record", "move"} => target \in Names
    BY DEF AskedIsKept, TypeOK
  <2> QED
    BY <1>1, <1>4, <2>1 DEF NothingLeft
<1>10. ChangesAreKept'
  BY <1>1, <1>2, <1>4, KeptInv
<1> QED
  BY <1>5, <1>6, <1>7, <1>8, <1>9, <1>10

LEMMA HumanMovesInv ==
    ASSUME IInv, NEW t \in Tasks, HumanMoves(t)
    PROVE  IInv'
<1> USE DEF IInv
<1>1. /\ UNCHANGED <<branch, tree, work, head, main, untidy, claimed, using, latest, target, item,
                     status, pc, my, strayed, deleted, changes, calls>>
      /\ human' \in 0..MaxHuman /\ moved' = moved \cup {t}
  <2>1. human' \in 0..MaxHuman
    BY BoundsType DEF HumanMoves, TypeOK
  <2> QED
    BY <2>1 DEF HumanMoves, gitVars, itemVars
<1>2. /\ accepted' \in [Tasks -> BOOLEAN] /\ passed' \in [Tasks -> BOOLEAN]
      /\ \A u \in Tasks : /\ passed'[u] => passed[u]
                          /\ u # t => passed'[u] = passed[u] /\ accepted'[u] = accepted[u]
  <2>1. CASE accepted' = [accepted EXCEPT ![t] = ~@] /\ UNCHANGED passed
    BY <2>1 DEF TypeOK
  <2>2. CASE passed' = [passed EXCEPT ![t] = FALSE] /\ Withdrawn(t)
    <3>1. passed' \in [Tasks -> BOOLEAN] /\ \A u \in Tasks : passed'[u] = (IF u = t THEN FALSE ELSE passed[u])
      BY <2>2 DEF TypeOK
    <3> QED
      BY <2>2, <3>1, WithdrawnType
  <2> QED
    BY <2>1, <2>2 DEF HumanMoves
<1>3. TypeOK'
  BY <1>1, <1>2 DEF TypeOK
<1>4. RecordedExist' /\ AskedIsKept' /\ NoItem'
  BY <1>1, <1>2 DEF RecordedExist, AskedIsKept, NoItem, Exists
<1>5. WorkIsHeld' /\ NothingLeft' /\ ChangesAreKept'
  BY <1>1 DEF WorkIsHeld, NothingLeft, ChangesAreKept, PathExists
<1>6. GateIsKept'
  <2>1. \A u \in Tasks : passed'[u] => u \notin claimed' /\ using'[u] = NoName
    BY <1>1, <1>2 DEF GateIsKept
  <2>2. \A u \in Tasks : accepted'[u] => passed'[u] \/ u \in moved'
    BY <1>1, <1>2 DEF GateIsKept
  <2>3. ASSUME NEW u \in claimed, Base[u] # NoTask, ~accepted'[Base[u]]
        PROVE  Base[u] \in moved'
    <3>1. Base[u] \in Tasks
      BY <2>3, DeliveryAssumption DEF TypeOK
    <3>2. Base[u] # t => Base[u] \in moved
      BY <1>2, <2>3, <3>1 DEF GateIsKept, DependencyBlocked
    <3> QED
      BY <1>1, <3>2
  <2> QED
    BY <1>1, <2>1, <2>2, <2>3 DEF GateIsKept, DependencyBlocked
<1> QED
  BY <1>3, <1>4, <1>5, <1>6

LEMMA CrashInv ==
    ASSUME IInv, Crash
    PROVE  IInv'
<1> USE DEF IInv
<1>1. /\ UNCHANGED <<branch, tree, work, head, main, untidy, latest, passed, accepted, target, item,
                     status, strayed, moved, deleted, changes, calls>>
      /\ human' \in 0..MaxHuman
      /\ pc' = [h \in Handlers |-> "idle"] /\ my' = [h \in Handlers |-> NoLocals]
      /\ using' = [t \in Tasks |-> NoName] /\ claimed' = {}
  <2>1. human' \in 0..MaxHuman
    BY BoundsType DEF Crash, TypeOK
  <2> QED
    BY <2>1 DEF Crash, gitVars, itemVars, history
<1>2. TypeOK'
  <2>1. pc' \in [Handlers -> HandlerSteps]
    BY <1>1 DEF HandlerSteps
  <2>2. my' \in [Handlers -> [asked : SUBSET Changes, left : SUBSET Changes, cleanup : BOOLEAN]]
    BY <1>1 DEF NoLocals
  <2>3. using' \in [Tasks -> Names \cup {NoName}]
    BY <1>1
  <2> QED
    BY <1>1, <2>1, <2>2, <2>3 DEF TypeOK
<1>3. RecordedExist'
  BY <1>1 DEF RecordedExist, Exists
<1>4. AskedIsKept' /\ NoItem'
  BY <1>1 DEF AskedIsKept, NoItem
<1>5. GateIsKept'
  BY <1>1 DEF GateIsKept
<1>6. WorkIsHeld' /\ ChangesAreKept'
  BY <1>1 DEF WorkIsHeld, ChangesAreKept, PathExists
<1>7. NothingLeft'
  BY <1>1 DEF NothingLeft, NoLocals
<1> QED
  BY <1>2, <1>3, <1>4, <1>5, <1>6, <1>7

-----------------------------------------------------------------------------
LEMMA StutterInv ==
    ASSUME IInv, UNCHANGED vars
    PROVE  IInv'
<1> USE DEF IInv
<1>1. UNCHANGED <<branch, tree, work, head, main, untidy, claimed, using, latest, passed, accepted,
                  target, item, status, pc, my, strayed, moved, deleted, changes, calls, human>>
  BY DEF vars, gitVars, runVars, itemVars, history, counters
<1>2. TypeOK'
  BY <1>1 DEF TypeOK
<1>3. RecordedExist' /\ AskedIsKept' /\ NoItem'
  BY <1>1 DEF RecordedExist, AskedIsKept, NoItem, Exists
<1>4. GateIsKept' /\ WorkIsHeld' /\ NothingLeft' /\ ChangesAreKept'
  BY <1>1, GateFrame DEF WorkIsHeld, NothingLeft, ChangesAreKept, PathExists
<1> QED
  BY <1>2, <1>3, <1>4

LEMMA NextInv == IInv /\ [Next]_vars => IInv'
<1> SUFFICES ASSUME IInv, [Next]_vars
             PROVE  IInv'
  OBVIOUS
<1>1. CASE \E t \in Tasks : Claim(t) \/ Prepare(t) \/ NotPrepared(t) \/ Edit(t) \/ FinishRun(t)
  BY <1>1, ClaimInv, PrepareInv, NotPreparedInv, EditInv, FinishRunInv
<1>2. CASE CreateDelivery
  BY <1>2, CreateDeliveryInv
<1>3. CASE \E h \in Handlers : CallComplete(h) \/ HandlerStep(h)
  BY <1>3, CallCompleteInv, HandlerStepInv
<1>4. CASE HumanWorks \/ \E t \in Tasks : HumanMoves(t)
  BY <1>4, HumanWorksInv, HumanMovesInv
<1>5. CASE Crash
  BY <1>5, CrashInv
<1>6. CASE UNCHANGED vars
  BY <1>6, StutterInv
<1> QED
  BY <1>1, <1>2, <1>3, <1>4, <1>5, <1>6 DEF Next

LEMMA InvariantHolds == Spec => []IInv
<1> QED
  BY InitInv, NextInv, PTL DEF Spec

-----------------------------------------------------------------------------
(* The theorems *)

\* The variables keep their types: a branch has commits, and the calls, changes and
\* people stay within their bounds.
THEOREM TypeCorrect == Spec => []TypeOK
<1>1. IInv => TypeOK
  BY DEF IInv
<1> QED
  BY <1>1, InvariantHolds, PTL

\* _complete_delivery_task moves its item to Done only when main has every commit its
\* branch had at the request, or the main checkout was elsewhere at a merge; and only
\* when nothing that was uncommitted in the worktree at the request is still there.
THEOREM DoneMeansDelivered == Spec => DoneIsDelivered
<1>1. ASSUME IInv, [Next]_vars, item # "Done", item' = "Done", NEW h \in Handlers, pc'[h] # pc[h]
      PROVE  (strayed \/ my[h].asked \subseteq main) /\ my[h].left \cap work[target] = {}
  <2>1. CASE \E g \in Handlers : MoveItem(g)
    <3>1. PICK g \in Handlers : MoveItem(g)
      BY <2>1
    <3>2. pc[g] = "move" /\ pc' = [pc EXCEPT ![g] = "idle"]
      BY <3>1 DEF MoveItem, Finish, Goto
    <3>3. ~my[g].cleanup
      BY <1>1, <3>1 DEF MoveItem, Finish
    <3>4. g = h
      BY <1>1, <3>2 DEF IInv, TypeOK
    <3> QED
      BY <1>1, <3>2, <3>3, <3>4 DEF IInv, AskedIsKept, NothingLeft
  <2>2. CASE \E g \in Handlers : RefuseMove(g)
    BY <1>1, <2>2 DEF RefuseMove, Finish
  <2>3. CASE \E g \in Handlers : CallComplete(g) \/ CheckMain(g) \/ Merge(g) \/ RemoveTree(g)
                                  \/ Record(g) \/ Refuse(g)
    BY <1>1, <2>3 DEF CallComplete, CheckMain, Merge, RemoveTree, Record, Refuse, itemVars
  <2>4. CASE CreateDelivery
    BY <1>1, <2>4 DEF CreateDelivery
  <2>5. CASE \E t \in Tasks : Claim(t) \/ Prepare(t) \/ NotPrepared(t) \/ Edit(t) \/ FinishRun(t)
                              \/ HumanMoves(t)
    BY <1>1, <2>5 DEF Claim, Prepare, NotPrepared, Edit, FinishRun, HumanMoves, itemVars
  <2>6. CASE HumanWorks \/ Crash \/ UNCHANGED vars
    BY <1>1, <2>6 DEF HumanWorks, Crash, vars, itemVars
  <2> QED
    BY <1>1, <2>1, <2>2, <2>3, <2>4, <2>5, <2>6 DEF Next, HandlerStep
<1>2. IInv /\ [Next]_vars => [Delivered]_vars
  BY <1>1 DEF Delivered
<1> QED
  BY <1>2, InvariantHolds, PTL DEF Spec, DoneIsDelivered

\* No retry, no delivery and no crash loses a change of a run: WorktreeManager.prepare,
\* _commit_workspace_changes and _complete_delivery_task leave it in a worktree, on a
\* branch or in main, unless a person deletes the worktree.
THEOREM ChangesSurvive == Spec => []ChangesAreKept
<1>1. IInv => ChangesAreKept
  BY DEF IInv
<1> QED
  BY <1>1, InvariantHolds, PTL

\* WorktreeManager.prepare gives a dependent a branch with what its dependency's run
\* has committed, or an old branch of its own; _dependency_base_branch finds the run that
\* _dependency_blocked had let pass, unless the dependency's item was moved by a person,
\* by a failing call or behind a list that was out of date.
THEOREM DependentsStartComplete == Spec => StartsFromDependency
<1>1. ASSUME IInv, [Next]_vars, NEW t \in Tasks, using[t] = NoName, using'[t] # NoName,
             Base[t] # NoTask, Base[t] \notin moved
      PROVE  \/ latest[Base[t]] # NoName /\ branch[latest[Base[t]]] \subseteq branch'[using'[t]]
             \/ Exists(using'[t]) /\ ~PathExists(using'[t])
  <2> DEFINE b == StartingPoint(t)
             n == <<t, 1>>
  <2>1. Prepare(t)
    <3>1. ASSUME NEW u \in Tasks, Prepare(u)
          PROVE  u = t
      <4>1. PICK m \in Names : \E c : Starts(u, m, c)
        <5>1. <<u, 1>> \in Names /\ \A k \in 2..MaxSuffix : <<u, k>> \in Names
          BY NamesApart, DeliveryAssumption DEF Names
        <5> QED
          BY <3>1, <5>1 DEF Prepare, Reuse, CreateBranch, Attach, Suffixed
      <4> QED
        BY <1>1, <4>1 DEF Starts, IInv, TypeOK
    <3>2. \E u \in Tasks : Prepare(u)
      <4>1. ASSUME UNCHANGED using \/ \E u \in Tasks : using' = [using EXCEPT ![u] = NoName]
            PROVE  FALSE
        BY <1>1, <4>1 DEF IInv, TypeOK
      <4>2. ~Crash
        BY <1>1 DEF Crash
      <4>3. ASSUME NEW h \in Handlers, CallComplete(h) \/ HandlerStep(h)
            PROVE  UNCHANGED using
        BY <4>3 DEF CallComplete, HandlerStep, CheckMain, Merge, RemoveTree, Record, Refuse,
                    MoveItem, RefuseMove, Finish, rest, runVars
      <4> QED
        BY <1>1, <4>1, <4>2, <4>3
           DEF Next, Claim, NotPrepared, Edit, FinishRun, CreateDelivery, HumanWorks, HumanMoves,
               runVars, vars
    <3> QED
      BY <3>1, <3>2
  <2>2. BaseName(t) = latest[Base[t]] /\ BaseName(t) # NoName /\ b = branch[latest[Base[t]]]
    <3>1. Base[t] \in Tasks
      BY <1>1, DeliveryAssumption
    <3>2. accepted[Base[t]]
      BY <1>1, <2>1 DEF Prepare, IInv, GateIsKept, DependencyBlocked
    <3>3. passed[Base[t]]
      BY <1>1, <3>1, <3>2 DEF IInv, GateIsKept
    <3> QED
      BY <1>1, <3>1, <3>3 DEF BaseName, StartingPoint, IInv, RecordedExist
  <2>3. CASE Reuse(t, n)
    <3>1. PICK c : Starts(t, n, c) /\ b \subseteq c
      BY <2>2, <2>3 DEF Reuse
    <3>2. using'[t] = n /\ branch'[n] = c
      BY <1>1, <3>1, NamesApart DEF Starts, IInv, TypeOK
    <3> QED
      BY <2>2, <3>1, <3>2
  <2>4. CASE CreateBranch(t, n)
    BY <1>1, <2>2, <2>4, NamesApart DEF CreateBranch, Starts, IInv, TypeOK
  <2>5. CASE Attach(t, n)
    BY <1>1, <2>5, NamesApart DEF Attach, Starts, IInv, TypeOK
  <2>6. CASE Suffixed(t, n)
    <3>1. PICK k \in 2..MaxSuffix : Starts(t, <<t, k>>, b)
      BY <2>6 DEF Suffixed
    <3>2. <<t, k>> \in Names
      BY <3>1, DeliveryAssumption DEF Names
    <3> QED
      BY <1>1, <2>2, <3>1, <3>2 DEF Starts, IInv, TypeOK
  <2> QED
    BY <2>1, <2>3, <2>4, <2>5, <2>6 DEF Prepare
<1>2. IInv /\ [Next]_vars => [StartsComplete]_vars
  BY <1>1 DEF StartsComplete
<1> QED
  BY <1>2, InvariantHolds, PTL DEF Spec, StartsFromDependency

=============================================================================
