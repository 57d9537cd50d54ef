-------------------------- MODULE NeedsInputProofs ---------------------------
(***************************************************************************)
(* Theorems about NeedsInput, for every number of handlers, runs,          *)
(* comments, failures and crashes: its type, that an answer was given      *)
(* after its question, and that a resolved question leaves its answer.     *)
(***************************************************************************)
EXTENDS NeedsInput, FiniteSetTheorems, TLAPS

-----------------------------------------------------------------------------
(* The inductive invariant *)

\* A run asks once: record_needs_input keeps the row there is.
RowsApart == \A i, j \in DOMAIN rows : rows[i] = rows[j] => i = j

\* What a thread is about to record or to resolve.
InHand ==
    \A t \in Threads :
        /\ pc[t] \in {"running", "followUp"} => my[t].run \in Runs
        /\ pc[t] \in {"comments", "comment", "resolve", "read", "write"} => my[t].run \in ToSet(rows)
        /\ Len(my[t].answers) <= KeptAnswers

Listed == pending \subseteq ToSet(rows)

\* The clock was never ahead, and a comment that preceded a question is not dated later.
InTime ==
    /\ \A c \in DOMAIN comments : comments[c] <= Len(rows)
    /\ \A c \in DOMAIN dates : dates[c] <= now
    /\ \A r \in Runs : askedAt[r] <= now
    /\ \A c \in DOMAIN comments : \A q \in DOMAIN rows :
            comments[c] < q => dates[c] <= askedAt[rows[q]]

\* The answer a is of no comment or of one of the comments cs, with the dates ds, that
\* was made after its run had asked, by the questions qs asked at the seconds at, or in
\* the same second, or without a date.
Follows(a, cs, ds, qs, at) ==
    a.comment # NoComment =>
        /\ a.comment \in DOMAIN cs
        /\ \E q \in DOMAIN qs :
              /\ qs[q] = a.run
              /\ q <= cs[a.comment] \/ ds[a.comment] \in {Undated, at[qs[q]]}

\* The answers of the item, those a thread has read, and the one it is to add.
AllFollow ==
    /\ \A k \in DOMAIN answers : Follows(answers[k], comments, dates, rows, askedAt)
    /\ \A t \in Threads : \A k \in DOMAIN my[t].answers : Follows(my[t].answers[k], comments, dates, rows, askedAt)
    /\ pc[Daemon] \in {"resolve", "read", "write"} => Follows(my[Daemon], comments, dates, rows, askedAt)
    /\ \A t \in Requests : my[t].comment = NoComment

\* The run's answer is in the list, or the list is full of others.
Attached(r) == Len(answers) = KeptAnswers \/ \E k \in DOMAIN answers : answers[k].run = r

\* While the daemon is alone, only the question in its hand is resolved without an
\* answer, and the list it is to write back is the one there is.
AloneAttaches ==
    crashes = 0 /\ asked = 0 =>
        /\ \A t \in Requests : pc[t] = "idle"
        /\ \A r \in resolved : Attached(r) \/ (pc[Daemon] \in {"read", "write"} /\ my[Daemon].run = r)
        /\ pc[Daemon] = "write" => my[Daemon].answers = answers

IInv ==
    /\ TypeOK /\ RowsApart /\ InHand /\ Listed
    /\ InTime /\ AllFollow /\ AloneAttaches

-----------------------------------------------------------------------------
(* Sets, sequences and bounds *)

LEMMA ThreadsSplit ==
    /\ Daemon \in Threads /\ Daemon \notin Requests /\ Requests \subseteq Threads
    /\ \A t \in Threads : t # Daemon => t \in Requests
BY NeedsInputAssumption DEF Threads

LEMMA Bounds ==
    /\ MaxRuns \in Nat /\ MaxComments \in Nat /\ MaxRetries \in Nat
    /\ MaxRequests \in Nat /\ MaxFaults \in Nat /\ MaxCrashes \in Nat
    /\ MaxSeconds \in Nat /\ MaxSeconds >= 1
BY NeedsInputAssumption

\* A sequence of runs without repetition is no longer than there are runs.
LEMMA ApartBounded ==
    ASSUME NEW s \in Seq(Runs), \A i, j \in DOMAIN s : s[i] = s[j] => i = j
    PROVE  Len(s) <= MaxRuns
<1>1. s \in Injection(1..Len(s), Runs)
  BY DEF Injection, IsInjective
<1>2. IsFiniteSet(Runs) /\ Cardinality(Runs) = MaxRuns
  <2>1. 1 \in Int /\ MaxRuns \in Int
    BY Bounds
  <2>2. IsFiniteSet(1..MaxRuns) /\ Cardinality(1..MaxRuns) = IF 1 > MaxRuns THEN 0 ELSE MaxRuns-1+1
    BY <2>1, FS_Interval
  <2> QED
    BY <2>2, Bounds DEF Runs
<1>3. Cardinality(1..Len(s)) <= Cardinality(Runs)
  BY <1>1, <1>2, FS_Injection
<1>4. Len(s) \in Nat
  OBVIOUS
<1>5. Cardinality(1..Len(s)) = IF 1 > Len(s) THEN 0 ELSE Len(s)-1+1
  <2>1. 1 \in Int /\ Len(s) \in Int
    BY <1>4
  <2> QED
    BY <2>1, FS_Interval
<1> QED
  BY <1>2, <1>3, <1>4, <1>5, Bounds

\* The questions and the comments there are stay where they are and keep their dates.
Grow ==
    /\ DOMAIN rows \subseteq DOMAIN rows'
    /\ \A i \in DOMAIN rows : rows'[i] = rows[i] /\ askedAt'[rows[i]] = askedAt[rows[i]]
    /\ DOMAIN comments \subseteq DOMAIN comments'
    /\ \A c \in DOMAIN comments : comments'[c] = comments[c] /\ dates'[c] = dates[c]

LEMMA SameGrow ==
    ASSUME UNCHANGED <<questions, comments, dates>>
    PROVE  Grow
BY DEF Grow, questions

LEMMA GrowKeeps ==
    ASSUME Grow
    PROVE  /\ ToSet(rows) \subseteq ToSet(rows)'
           /\ \A a : Follows(a, comments, dates, rows, askedAt)
                        => Follows(a, comments', dates', rows', askedAt')
<1>1. ToSet(rows) \subseteq ToSet(rows)'
  BY DEF Grow, ToSet
<1>2. ASSUME NEW a, Follows(a, comments, dates, rows, askedAt), a.comment # NoComment
      PROVE  /\ a.comment \in DOMAIN comments'
             /\ \E q \in DOMAIN rows' :
                   /\ rows'[q] = a.run
                   /\ q <= comments'[a.comment] \/ dates'[a.comment] \in {Undated, askedAt'[rows'[q]]}
  BY <1>2 DEF Grow, Follows
<1> QED
  BY <1>1, <1>2 DEF Follows

\* The row a question leaves.
LEMMA QuestionRecorded ==
    ASSUME IInv, NEW r \in Runs, RecordQuestion(r), UNCHANGED outside
    PROVE  /\ Grow /\ rows' \in Seq(Runs) /\ RowsApart' /\ InTime'
           /\ askedAt' \in [Runs -> 0..MaxSeconds]
           /\ r \in ToSet(rows)' /\ Len(rows)' <= MaxRuns
<1>1. /\ rows \in Seq(Runs) /\ comments \in Seq(0..MaxRuns) /\ askedAt \in [Runs -> 0..MaxSeconds]
      /\ dates \in Seq(Seconds \cup {Undated}) /\ Len(dates) = Len(comments) /\ now \in Seconds
      /\ UNCHANGED <<comments, dates, now>>
  BY DEF IInv, TypeOK, outside
<1>2. CASE r \in ToSet(rows)
  <2>1. rows' = rows /\ askedAt' = askedAt /\ Grow
    BY <1>1, <1>2, SameGrow DEF RecordQuestion, questions
  <2>2. RowsApart' /\ InTime' /\ r \in ToSet(rows)'
    BY <1>1, <1>2, <2>1 DEF IInv, RowsApart, InTime
  <2>3. Len(rows) <= MaxRuns
    BY <1>1, ApartBounded DEF IInv, RowsApart
  <2> QED
    BY <1>1, <2>1, <2>2, <2>3
<1>3. CASE r \notin ToSet(rows)
  <2>1. rows' = Append(rows, r) /\ askedAt' = [askedAt EXCEPT ![r] = now]
    BY <1>3, Zenon DEF RecordQuestion
  <2>2. /\ rows' = Append(rows, r) /\ rows' \in Seq(Runs) /\ Len(rows') = Len(rows) + 1
        /\ rows'[Len(rows) + 1] = r /\ \A i \in 1..Len(rows) : rows'[i] = rows[i]
    BY <1>1, <2>1
  <2>3. /\ askedAt' \in [Runs -> 0..MaxSeconds] /\ askedAt'[r] = now
        /\ \A s \in Runs : s # r => askedAt'[s] = askedAt[s]
    BY <1>1, <2>1, Bounds DEF Seconds
  <2>4. \A i \in 1..Len(rows) : rows[i] \in Runs /\ rows[i] # r
    BY <1>1, <1>3 DEF ToSet
  <2>5. Grow
    BY <1>1, <2>2, <2>3, <2>4 DEF Grow
  <2>6. RowsApart'
    BY <1>1, <1>3, <2>2 DEF IInv, RowsApart, ToSet
  <2>7. InTime'
    <3>1. \A c \in DOMAIN comments : comments[c] \in Nat /\ comments[c] <= Len(rows) /\ dates[c] <= now
      BY <1>1, Bounds DEF IInv, InTime
    <3>2. \A c \in DOMAIN comments' : comments'[c] <= Len(rows')
      BY <1>1, <2>2, <3>1
    <3>3. \A s \in Runs : askedAt'[s] <= now'
      <4>1. \A s \in Runs : askedAt[s] <= now
        BY DEF IInv, InTime
      <4>2. now <= now /\ now' = now
        BY <1>1, Bounds DEF Seconds
      <4>3. \A s \in Runs : askedAt'[s] <= now
        BY <2>3, <4>1, <4>2
      <4> QED
        BY <4>2, <4>3
    <3>4. ASSUME NEW c \in DOMAIN comments', NEW q \in DOMAIN rows', comments'[c] < q
          PROVE  dates'[c] <= askedAt'[rows'[q]]
      <4>1. CASE q = Len(rows) + 1
        BY <1>1, <2>2, <2>3, <3>1, <4>1
      <4>2. CASE q \in 1..Len(rows)
        BY <1>1, <2>2, <2>3, <2>4, <3>4, <4>2 DEF IInv, InTime
      <4> QED
        BY <1>1, <2>2, <4>1, <4>2
    <3> QED
      BY <1>1, <3>1, <3>2, <3>3, <3>4 DEF IInv, InTime
  <2>8. r \in ToSet(rows)'
    BY <1>1, <2>2 DEF ToSet
  <2>9. Len(rows)' <= MaxRuns
    BY <2>2, <2>6, ApartBounded DEF RowsApart
  <2> QED
    BY <2>2, <2>3, <2>5, <2>6, <2>7, <2>8, <2>9
<1> QED
  BY <1>2, <1>3

-----------------------------------------------------------------------------
(* Counters, and what a thread may go on to *)

Counted ==
    /\ retries \in 0..MaxRetries /\ asked \in 0..MaxRequests
    /\ faults \in 0..MaxFaults /\ crashes \in 0..MaxCrashes

\* Once a request came or the process crashed, that stays so.
Remembered == (asked' = 0 => asked = 0) /\ (crashes' = 0 => crashes = 0)

LEMMA CountersStep ==
    ASSUME TypeOK, UNCHANGED counters \/ Asked \/ TrackerFault
    PROVE  Counted' /\ Remembered
<1>1. CASE UNCHANGED counters
  BY <1>1 DEF TypeOK, counters, Counted, Remembered
<1>2. CASE Asked
  BY <1>2, Bounds DEF TypeOK, Asked, Counted, Remembered
<1>3. CASE TrackerFault
  BY <1>3, Bounds DEF TypeOK, TrackerFault, Counted, Remembered
<1> QED
  BY <1>1, <1>2, <1>3

\* The tracker's item and the item's rows in claims and runs have their types.
ItemTyped == itemState \in ItemStates /\ claimed \in BOOLEAN /\ lastRun \in 0..MaxRuns

\* What the locals l of thread t must be for it to go on to the step.
Fits(t, step, l) ==
    /\ step \in {"running", "followUp"} => l.run \in Runs
    /\ step \in {"comments", "comment", "resolve", "read", "write"} => l.run \in ToSet(rows)
    /\ Len(l.answers) <= KeptAnswers
    /\ \A k \in DOMAIN l.answers : Follows(l.answers[k], comments, dates, rows, askedAt)
    /\ t = Daemon =>
        /\ step \in {"resolve", "read", "write"} => Follows(l, comments, dates, rows, askedAt)
        /\ pc[t] \in {"read", "write"} => step \in {"read", "write"} /\ l.run = my[t].run
        /\ step = "write" => l.answers = answers
    /\ t \in Requests => l.comment = NoComment /\ (pc[t] # "idle" \/ asked' # 0)

\* The steps that leave the questions, the comments and the answers alone.
LEMMA MoveInv ==
    ASSUME IInv, ItemTyped', Counted', Remembered, UNCHANGED <<outside, questions, resolved, answers>>,
           pending' \subseteq ToSet(rows),
           NEW t \in Threads, NEW step \in Steps, NEW l \in Locals, Fits(t, step, l),
           pc' = [pc EXCEPT ![t] = step], my' = [my EXCEPT ![t] = l]
    PROVE  IInv'
<1>1. TypeOK /\ pc \in [Threads -> Steps] /\ my \in [Threads -> Locals]
  BY DEF IInv, TypeOK
<1>2. \A u \in Threads : pc'[u] = (IF u = t THEN step ELSE pc[u]) /\ my'[u] = (IF u = t THEN l ELSE my[u])
  BY <1>1
<1>3. /\ ToSet(rows)' = ToSet(rows) /\ rows' = rows /\ askedAt' = askedAt
      /\ comments' = comments /\ dates' = dates /\ now' = now /\ answers' = answers
  BY DEF outside, questions
<1>4. ToSet(rows) \subseteq Runs
  BY <1>1 DEF TypeOK, ToSet
<1>5. TypeOK'
  BY <1>1, <1>3, <1>4 DEF TypeOK, ItemTyped, Counted
<1>6. RowsApart' /\ Listed' /\ InTime'
  BY <1>3 DEF IInv, RowsApart, Listed, InTime
<1>7. InHand'
  BY <1>2, <1>3 DEF IInv, InHand, Fits
<1>8. AllFollow'
  <2>1. \A k \in DOMAIN answers' : Follows(answers'[k], comments', dates', rows', askedAt')
    BY <1>3 DEF IInv, AllFollow
  <2>2. \A u \in Threads : \A k \in DOMAIN my'[u].answers : Follows(my'[u].answers[k], comments', dates', rows', askedAt')
    BY <1>2, <1>3 DEF IInv, AllFollow, Fits
  <2>3. pc'[Daemon] \in {"resolve", "read", "write"} => Follows(my'[Daemon], comments', dates', rows', askedAt')
    BY <1>2, <1>3, ThreadsSplit DEF IInv, AllFollow, Fits
  <2>4. \A u \in Requests : my'[u].comment = NoComment
    BY <1>2, ThreadsSplit DEF IInv, AllFollow, Fits
  <2> QED
    BY <2>1, <2>2, <2>3, <2>4 DEF AllFollow
<1>9. AloneAttaches'
  <2> SUFFICES ASSUME crashes' = 0, asked' = 0
               PROVE  /\ \A u \in Requests : pc'[u] = "idle"
                      /\ \A r \in resolved : Attached(r) \/ (pc'[Daemon] \in {"read", "write"} /\ my'[Daemon].run = r)
                      /\ pc'[Daemon] = "write" => my'[Daemon].answers = answers
    BY DEF AloneAttaches, Attached
  <2>1. /\ \A u \in Requests : pc[u] = "idle"
        /\ \A r \in resolved : Attached(r) \/ (pc[Daemon] \in {"read", "write"} /\ my[Daemon].run = r)
        /\ pc[Daemon] = "write" => my[Daemon].answers = answers
    BY DEF IInv, AloneAttaches, Remembered
  <2>2. t = Daemon
    BY <2>1, ThreadsSplit DEF Fits
  <2> QED
    BY <1>2, <2>1, <2>2, ThreadsSplit DEF Fits
<1> QED
  BY <1>5, <1>6, <1>7, <1>8, <1>9 DEF IInv

\* A thread drops what it had in hand.
LEMMA DropInv ==
    ASSUME IInv, ItemTyped', Counted', Remembered, UNCHANGED <<outside, questions, resolved, answers>>,
           pending' \subseteq ToSet(rows),
           NEW t \in Threads, pc[t] \notin {"idle", "read", "write"},
           NEW step \in {"idle", "next"}, Goto(t, step), my' = [my EXCEPT ![t] = Fresh]
    PROVE  IInv'
<1>1. Fresh \in Locals /\ Fresh.comment = NoComment /\ Fresh.answers = <<>> /\ step \in Steps
  BY Bounds DEF Fresh, Locals, NoRun, NoComment, Steps
<1>2. Fits(t, step, Fresh)
  BY <1>1 DEF Fits, KeptAnswers
<1> QED
  BY <1>1, <1>2, MoveInv DEF Goto

\* A thread goes on with what it has.
LEMMA GoOnInv ==
    ASSUME IInv, ItemTyped', Counted', Remembered, UNCHANGED <<outside, questions, resolved, answers, my>>,
           pending' \subseteq ToSet(rows),
           NEW t \in Threads, NEW step \in Steps \ {"write"}, Goto(t, step),
           step \in {"running", "followUp"} => my[t].run \in Runs,
           step \in {"comments", "comment", "resolve", "read"} => my[t].run \in ToSet(rows),
           t = Daemon => step \notin {"resolve", "read"} /\ pc[t] \notin {"read", "write"},
           t \in Requests => pc[t] # "idle"
    PROVE  IInv'
<1>1. my \in [Threads -> Locals] /\ my[t] \in Locals
  BY DEF IInv, TypeOK
<1>2. my' = [my EXCEPT ![t] = my[t]]
  BY <1>1
<1>3. Fits(t, step, my[t])
  BY DEF IInv, InHand, AllFollow, Fits
<1> QED
  BY <1>1, <1>2, <1>3, MoveInv DEF Goto

\* A thread takes a question in hand.
LEMMA TakeInv ==
    ASSUME IInv, ItemTyped', Counted', Remembered, UNCHANGED <<outside, questions, resolved, answers>>,
           pending' \subseteq ToSet(rows),
           NEW t \in Threads, pc[t] \notin {"read", "write"}, t \in Requests => pc[t] # "idle" \/ asked' # 0,
           NEW r \in Runs, NEW step \in {"running", "followUp", "comment", "comments"},
           step \in {"comment", "comments"} => r \in ToSet(rows),
           Goto(t, step), my' = [my EXCEPT ![t].run = r]
    PROVE  IInv'
<1> DEFINE l == [my[t] EXCEPT !.run = r]
<1>1. my \in [Threads -> Locals] /\ my[t] \in Locals
  BY DEF IInv, TypeOK
<1>2. /\ l \in Locals /\ l.run = r /\ l.comment = my[t].comment /\ l.answers = my[t].answers
      /\ step \in Steps
  BY <1>1 DEF Locals, Steps, RunningSteps
<1>3. my' = [my EXCEPT ![t] = l]
  BY <1>1
<1>4. Fits(t, step, l)
  <2> HIDE DEF l
  <2> QED
    BY <1>2 DEF IInv, InHand, AllFollow, Fits
<1> HIDE DEF l
<1> QED
  BY <1>2, <1>3, <1>4, MoveInv DEF Goto

LEMMA TypedParts ==
    ASSUME IInv
    PROVE  /\ ItemTyped /\ Counted /\ pending \subseteq ToSet(rows) /\ rows \in Seq(Runs)
           /\ pc \in [Threads -> Steps] /\ my \in [Threads -> Locals]
BY DEF IInv, TypeOK, ItemTyped, Counted, Listed

\* What a call to the tracker leaves of the item.
LEMMA CallTyped ==
    ASSUME IInv, NEW s \in ItemStates, Shows(s) \/ Hides \/ Raises(s), UNCHANGED <<claimed, lastRun>>
    PROVE  ItemTyped' /\ Counted' /\ Remembered
<1>1. TypeOK /\ ItemTyped
  BY TypedParts DEF IInv
<1>2. UNCHANGED counters \/ TrackerFault
  BY DEF Shows, Hides, Raises
<1>3. itemState' \in {itemState, s}
  BY DEF Shows, Hides, Raises
<1> QED
  BY <1>1, <1>2, <1>3, CountersStep DEF ItemTyped

\* The comments, their dates and those of the questions have their types.
DatesTyped ==
    /\ comments \in Seq(0..MaxRuns) /\ Len(comments) <= MaxComments
    /\ dates \in Seq(Seconds \cup {Undated}) /\ Len(dates) = Len(comments)
    /\ askedAt \in [Runs -> 0..MaxSeconds] /\ now \in Seconds

\* The steps that add a question or a comment, or touch the item or the clock alone.
LEMMA GrowInv ==
    ASSUME IInv, Grow, rows' \in Seq(Runs), RowsApart', InTime',
           DatesTyped', ItemTyped', Counted', Remembered, UNCHANGED <<resolved, answers, my, pending>>,
           pc' = pc \/ \E t \in Threads, step \in {"publish", "reread"} :
                            pc[t] \in {"running", "followUp"} /\ Goto(t, step)
    PROVE  IInv'
<1>1. TypeOK /\ pc \in [Threads -> Steps] /\ my \in [Threads -> Locals]
  BY DEF IInv, TypeOK
<1>2. /\ pc' \in [Threads -> Steps]
      /\ \A u \in Threads : \/ pc'[u] = pc[u]
                            \/ pc[u] \in {"running", "followUp"} /\ pc'[u] \in {"publish", "reread"}
  BY <1>1 DEF Goto, Steps, RunningSteps
<1>3. /\ ToSet(rows) \subseteq ToSet(rows')
      /\ \A a : Follows(a, comments, dates, rows, askedAt) => Follows(a, comments', dates', rows', askedAt')
  BY GrowKeeps
<1>4. TypeOK'
  <2>1. resolved' \subseteq ToSet(rows') /\ pending' \subseteq Runs /\ answers' = answers /\ my' = my
    BY <1>1, <1>3 DEF TypeOK
  <2> QED
    BY <1>1, <1>2, <2>1 DEF TypeOK, DatesTyped, ItemTyped, Counted
<1>5. Listed' /\ InHand'
  BY <1>2, <1>3 DEF IInv, Listed, InHand
<1>6. AllFollow'
  BY <1>2, <1>3, ThreadsSplit DEF IInv, AllFollow
<1>7. AloneAttaches'
  BY <1>2, ThreadsSplit DEF IInv, AloneAttaches, Attached, Remembered
<1> QED
  BY <1>4, <1>5, <1>6, <1>7 DEF IInv

-----------------------------------------------------------------------------
(* A run of the item *)

LEMMA StartRunInv ==
    ASSUME IInv, NEW t \in Threads, StartRun(t)
    PROVE  IInv'
<1>1. TypeOK /\ ItemTyped /\ pending \subseteq ToSet(rows)
  BY TypedParts DEF IInv
<1>2. Counted' /\ Remembered
  BY <1>1, CountersStep DEF StartRun
<1>3. lastRun + 1 \in Runs /\ lastRun + 1 \in 0..MaxRuns
  BY <1>1, Bounds DEF StartRun, ItemTyped, Runs
<1>4. ItemTyped'
  BY <1>3 DEF StartRun, ItemTyped, ItemStates
<1>5. /\ pc[t] \notin {"read", "write"} /\ (t \in Requests => asked' # 0)
      /\ Goto(t, "running") /\ my' = [my EXCEPT ![t].run = lastRun + 1]
      /\ UNCHANGED <<outside, questions, resolved, answers, pending>>
  BY <1>1, ThreadsSplit DEF StartRun, Asked, TypeOK
<1> QED
  BY <1>1, <1>2, <1>3, <1>4, <1>5, TakeInv

LEMMA RunAsksInv ==
    ASSUME IInv, NEW t \in Threads, RunAsks(t)
    PROVE  IInv'
<1>1. my[t].run \in Runs
  BY DEF RunAsks, IInv, InHand
<1>2. /\ Grow /\ rows' \in Seq(Runs) /\ RowsApart' /\ InTime'
      /\ askedAt' \in [Runs -> 0..MaxSeconds]
  BY <1>1, QuestionRecorded DEF RunAsks, tracker
<1>3. Counted' /\ Remembered
  BY CountersStep DEF RunAsks, IInv
<1>4. /\ ItemTyped' /\ DatesTyped'
      /\ UNCHANGED <<resolved, answers, my, pending>>
  BY <1>2 DEF RunAsks, tracker, outside, IInv, TypeOK, ItemTyped, DatesTyped
<1>5. pc[t] = "running" /\ Goto(t, "publish")
  BY DEF RunAsks
<1> QED
  BY <1>2, <1>3, <1>4, <1>5, GrowInv

\* The other steps of a run change neither questions nor answers.
LEMMA RunMovesInv ==
    ASSUME IInv, NEW t \in Threads,
           RunEnds(t) \/ PublishQuestion(t) \/ BlockRun(t) \/ FinishRun(t)
    PROVE  IInv'
<1>1. /\ TypeOK /\ ItemTyped /\ pending \subseteq ToSet(rows)
      /\ {"Human Review", "Needs Input"} \subseteq ItemStates
      /\ {"block", "finish"} \subseteq Steps \ {"write"}
  BY TypedParts DEF IInv, ItemStates, Steps, RunningSteps
<1>2. CASE RunEnds(t)
  <2>1. Counted' /\ Remembered
    BY <1>1, <1>2, CountersStep DEF RunEnds
  <2>2. ItemTyped' /\ UNCHANGED <<outside, questions, resolved, answers, my, pending>>
    BY <1>1, <1>2 DEF RunEnds, ItemTyped, tables
  <2>3. pc[t] = "running" /\ Goto(t, "finish")
    BY <1>2 DEF RunEnds
  <2> QED
    BY <1>1, <2>1, <2>2, <2>3, GoOnInv
<1>3. CASE PublishQuestion(t)
  <2>1. ItemTyped' /\ Counted' /\ Remembered
    BY <1>1, <1>3, CallTyped DEF PublishQuestion, tables
  <2>2. /\ pc[t] = "publish" /\ (Goto(t, "finish") \/ Goto(t, "block"))
        /\ UNCHANGED <<outside, questions, resolved, answers, my, pending>>
    BY <1>3 DEF PublishQuestion, tables
  <2> QED
    BY <1>1, <2>1, <2>2, GoOnInv
<1>4. CASE BlockRun(t)
  <2>1. ItemTyped' /\ Counted' /\ Remembered
    BY <1>1, <1>4, CallTyped DEF BlockRun, tables
  <2>2. /\ pc[t] = "block" /\ UNCHANGED <<outside, questions, resolved, answers, pending>>
        /\ (Goto(t, "finish") /\ UNCHANGED my) \/ (Goto(t, "idle") /\ my' = [my EXCEPT ![t] = Fresh])
    BY <1>4 DEF BlockRun, Return, tables
  <2>3. CASE Goto(t, "finish") /\ UNCHANGED my
    BY <1>1, <2>1, <2>2, <2>3, GoOnInv
  <2>4. CASE Goto(t, "idle") /\ my' = [my EXCEPT ![t] = Fresh]
    BY <1>1, <2>1, <2>2, <2>4, DropInv
  <2> QED
    BY <2>2, <2>3, <2>4
<1>5. CASE FinishRun(t)
  <2>1. Counted' /\ Remembered
    BY <1>1, <1>5, CountersStep DEF FinishRun
  <2>2. ItemTyped' /\ UNCHANGED <<outside, questions, resolved, answers, pending>>
    BY <1>1, <1>5 DEF FinishRun, ItemTyped, tracker
  <2>3. pc[t] = "finish" /\ Goto(t, "idle") /\ my' = [my EXCEPT ![t] = Fresh]
    BY <1>5 DEF FinishRun, Return
  <2> QED
    BY <1>1, <2>1, <2>2, <2>3, DropInv
<1> QED
  BY <1>2, <1>3, <1>4, <1>5

-----------------------------------------------------------------------------
(* Recording an answer *)

LEMMA ResolveQuestionInv ==
    ASSUME IInv, NEW t \in Threads, ResolveQuestion(t)
    PROVE  IInv'
<1> DEFINE step == IF t = Daemon THEN "read" ELSE "ready"
<1>1. /\ TypeOK /\ pc[t] = "resolve" /\ my[t].run \in ToSet(rows)
      /\ \A u \in Threads : pc'[u] = IF u = t THEN step ELSE pc[u]
      /\ pc' \in [Threads -> Steps]
      /\ resolved' = resolved \cup {my[t].run}
      /\ UNCHANGED <<itemState, comments, dates, now, claimed, lastRun, rows, askedAt, answers>>
      /\ UNCHANGED <<my, pending, counters>>
  BY DEF ResolveQuestion, IInv, TypeOK, InHand, Goto, tracker, outside, questions,
         Steps, AnswerSteps
<1>2. TypeOK'
  BY <1>1 DEF TypeOK, counters
<1>3. RowsApart' /\ Listed' /\ InTime'
  BY <1>1 DEF IInv, RowsApart, Listed, InTime
<1>4. InHand'
  BY <1>1 DEF IInv, InHand
<1>5. AllFollow'
  BY <1>1, ThreadsSplit DEF IInv, AllFollow
<1>6. AloneAttaches'
  BY <1>1, ThreadsSplit DEF IInv, AloneAttaches, Attached, counters
<1> QED
  BY <1>2, <1>3, <1>4, <1>5, <1>6 DEF IInv

LEMMA ReadAnswersInv ==
    ASSUME IInv, NEW t \in Threads, ReadAnswers(t)
    PROVE  IInv'
<1> DEFINE l == [my[t] EXCEPT !.answers = answers]
<1>1. /\ TypeOK /\ ItemTyped /\ pending \subseteq ToSet(rows) /\ my[t] \in Locals
      /\ "write" \in Steps /\ pc[t] = "read" /\ my \in [Threads -> Locals]
  BY TypedParts DEF IInv, ReadAnswers, Steps, AnswerSteps
<1>2. Counted' /\ Remembered
  BY <1>1, CountersStep DEF ReadAnswers
<1>3. /\ l \in Locals /\ l.run = my[t].run /\ l.comment = my[t].comment /\ l.answers = answers
      /\ Len(answers) <= KeptAnswers
  BY <1>1 DEF TypeOK, Locals
<1>4. my' = [my EXCEPT ![t] = l] /\ ItemTyped' /\ UNCHANGED <<outside, questions, resolved, answers, pending>>
  BY <1>1 DEF ReadAnswers, tracker, tables, ItemTyped
<1>5. Follows(my[t], comments, dates, rows, askedAt) => Follows(l, comments, dates, rows, askedAt)
  BY <1>3 DEF Follows
<1>6. Fits(t, "write", l)
  <2> HIDE DEF l
  <2> QED
    BY <1>1, <1>3, <1>5 DEF IInv, InHand, AllFollow, Fits
<1> HIDE DEF l
<1> QED
  BY <1>1, <1>2, <1>3, <1>4, <1>6, MoveInv DEF ReadAnswers, Goto

\* The list old with the answer a more, of which ten are kept.
Kept(old, a) ==
    IF Len(Append(old, a)) > KeptAnswers THEN Tail(Append(old, a)) ELSE Append(old, a)

LEMMA AppendKept ==
    ASSUME NEW old \in Seq(Answer), Len(old) <= KeptAnswers, NEW a \in Answer
    PROVE  LET new == Kept(old, a) IN
           /\ new \in Seq(Answer) /\ Len(new) <= KeptAnswers
           /\ \A k \in DOMAIN new : new[k] = a \/ \E j \in DOMAIN old : new[k] = old[j]
           /\ Len(new) = KeptAnswers \/
                /\ \E k \in DOMAIN new : new[k] = a
                /\ Len(old) # KeptAnswers /\ \A j \in DOMAIN old : j \in DOMAIN new /\ new[j] = old[j]
<1> DEFINE all == Append(old, a)
           new == Kept(old, a)
<1>1. /\ all \in Seq(Answer) /\ Len(all) = Len(old) + 1 /\ Len(old) \in Nat
      /\ all[Len(old) + 1] = a /\ \A j \in 1..Len(old) : all[j] = old[j]
  OBVIOUS
<1>2. /\ Len(all) > KeptAnswers => new = Tail(all)
      /\ ~(Len(all) > KeptAnswers) => new = all
  BY DEF Kept
<1> SUFFICES
      /\ new \in Seq(Answer) /\ Len(new) <= KeptAnswers
      /\ \A k \in DOMAIN new : new[k] = a \/ \E j \in DOMAIN old : new[k] = old[j]
      /\ Len(new) = KeptAnswers \/
            /\ \E k \in DOMAIN new : new[k] = a
            /\ Len(old) # KeptAnswers /\ \A j \in DOMAIN old : j \in DOMAIN new /\ new[j] = old[j]
  OBVIOUS
<1> HIDE DEF all, new
<1>3. CASE Len(all) > KeptAnswers
  <2>1. new = Tail(all)
    BY <1>3, <1>2, Zenon
  <2>2. Len(old) = KeptAnswers
    <3>1. Len(all) = Len(old) + 1 /\ Len(old) \in Nat
      BY <1>1
    <3>2. \A n \in Nat : n + 1 > 10 /\ n <= 10 => n = 10
      OBVIOUS
    <3> QED
      BY <3>1, <3>2, <1>3 DEF KeptAnswers
  <2>3. all # <<>>
    BY <1>1
  <2>4. new \in Seq(Answer) /\ Len(new) = KeptAnswers /\ \A k \in 1..Len(new) : new[k] = all[k + 1]
    BY <1>1, <2>1, <2>2, <2>3 DEF KeptAnswers
  <2>5. \A k \in DOMAIN new : new[k] = a \/ \E j \in DOMAIN old : new[k] = old[j]
    <3> SUFFICES ASSUME NEW k \in 1..Len(new), k + 1 # Len(old) + 1
                 PROVE  \E j \in DOMAIN old : new[k] = old[j]
      BY <1>1, <2>4
    <3>1. k + 1 \in 1..Len(old)
      BY <1>1, <2>4, <2>2 DEF KeptAnswers
    <3> QED
      BY <1>1, <2>4, <3>1
  <2> QED
    BY <2>4, <2>5
<1>4. CASE ~(Len(all) > KeptAnswers)
  <2>1. new = all /\ Len(old) # KeptAnswers /\ Len(new) <= KeptAnswers
    BY <1>1, <1>4, <1>2 DEF KeptAnswers
  <2> QED
    BY <1>1, <2>1
<1> QED
  BY <1>3, <1>4

LEMMA WriteAnswersInv ==
    ASSUME IInv, NEW t \in Threads, WriteAnswers(t)
    PROVE  IInv'
<1> DEFINE a == [run |-> my[t].run, comment |-> my[t].comment]
           step == IF t = Daemon THEN "ready" ELSE "resolve"
<1>1. /\ TypeOK /\ pc[t] = "write" /\ my[t].run \in ToSet(rows) /\ my[t] \in Locals
      /\ \A u \in Threads : pc'[u] = IF u = t THEN step ELSE pc[u]
      /\ pc' \in [Threads -> Steps]
      /\ answers' = Kept(my[t].answers, a)
      /\ UNCHANGED <<itemState, comments, dates, now, claimed, lastRun, rows, askedAt, resolved>>
      /\ UNCHANGED <<my, pending, counters>>
  BY DEF WriteAnswers, IInv, TypeOK, InHand, Goto, tracker, outside, questions,
         Steps, AnswerSteps, Kept
<1>2. /\ my[t].answers \in Seq(Answer) /\ Len(my[t].answers) <= KeptAnswers /\ a \in Answer
      /\ a.run = my[t].run /\ a.comment = my[t].comment
  BY <1>1 DEF IInv, InHand, Locals, Answer, TypeOK, ToSet
<1>3. /\ answers' \in Seq(Answer) /\ Len(answers') <= KeptAnswers
      /\ \A k \in DOMAIN answers' : answers'[k] = a \/ \E j \in DOMAIN my[t].answers : answers'[k] = my[t].answers[j]
      /\ Len(answers') = KeptAnswers \/
            /\ \E k \in DOMAIN answers' : answers'[k] = a
            /\ Len(my[t].answers) # KeptAnswers
            /\ \A j \in DOMAIN my[t].answers : j \in DOMAIN answers' /\ answers'[j] = my[t].answers[j]
  <2>1. PICK old \in Seq(Answer) : old = my[t].answers
    BY <1>2
  <2>2. Len(old) <= KeptAnswers /\ answers' = Kept(old, a)
    BY <1>1, <1>2, <2>1
  <2> HIDE DEF a
  <2> QED
    <3>1. PICK new : new = Kept(old, a)
      OBVIOUS
    <3>2. /\ new \in Seq(Answer) /\ Len(new) <= KeptAnswers
          /\ \A k \in DOMAIN new : new[k] = a \/ \E j \in DOMAIN old : new[k] = old[j]
          /\ Len(new) = KeptAnswers \/
                /\ \E k \in DOMAIN new : new[k] = a
                /\ Len(old) # KeptAnswers /\ \A j \in DOMAIN old : j \in DOMAIN new /\ new[j] = old[j]
      BY <1>2, <2>2, <3>1, AppendKept
    <3>3. new = answers' /\ old = my[t].answers
      BY <2>1, <2>2, <3>1
    <3> QED
      BY <3>2, <3>3
<1>4. TypeOK'
  BY <1>1, <1>3 DEF TypeOK, counters
<1>5. RowsApart' /\ Listed' /\ InTime'
  BY <1>1 DEF IInv, RowsApart, Listed, InTime
<1>6. InHand'
  BY <1>1 DEF IInv, InHand
<1>7. AllFollow'
  <2>1. Follows(a, comments, dates, rows, askedAt)
    BY <1>1, <1>2, ThreadsSplit DEF IInv, AllFollow, Follows
  <2>2. \A k \in DOMAIN answers' : Follows(answers'[k], comments', dates', rows', askedAt')
    BY <1>1, <1>3, <2>1 DEF IInv, AllFollow
  <2> QED
    BY <1>1, <2>2, ThreadsSplit DEF IInv, AllFollow
<1>8. AloneAttaches'
  <2> SUFFICES ASSUME crashes = 0, asked = 0
               PROVE  /\ \A u \in Requests : pc'[u] = "idle"
                      /\ \A r \in resolved : Attached(r)'
                      /\ pc'[Daemon] # "write"
    BY <1>1 DEF AloneAttaches, Attached, counters
  <2>1. /\ \A u \in Requests : pc[u] = "idle"
        /\ \A r \in resolved : Attached(r) \/ my[Daemon].run = r
    BY DEF IInv, AloneAttaches
  <2>2. t = Daemon /\ my[t].answers = answers
    BY <1>1, <2>1, ThreadsSplit DEF IInv, AloneAttaches
  <2>3. ASSUME NEW r \in resolved
        PROVE  Attached(r)'
    BY <1>2, <1>3, <2>1, <2>2 DEF Attached
  <2> QED
    BY <1>1, <2>1, <2>2, <2>3, ThreadsSplit
<1> QED
  BY <1>4, <1>5, <1>6, <1>7, <1>8 DEF IInv

LEMMA MakeReadyInv ==
    ASSUME IInv, NEW t \in Threads, MakeReady(t)
    PROVE  IInv'
<1>1. pending \subseteq ToSet(rows) /\ "Ready" \in ItemStates
  BY TypedParts DEF ItemStates
<1>2. ItemTyped' /\ Counted' /\ Remembered
  BY <1>1, CallTyped DEF MakeReady, tables
<1>3. /\ pc[t] = "ready" /\ UNCHANGED <<outside, questions, resolved, answers, pending>>
      /\ Goto(t, "next") \/ Goto(t, "idle")
      /\ my' = [my EXCEPT ![t] = Fresh]
  BY DEF MakeReady, Return, tables
<1> QED
  BY <1>1, <1>2, <1>3, DropInv

-----------------------------------------------------------------------------
(* The daemon's tick *)

LEMMA RecoverItemInv ==
    ASSUME IInv, RecoverItem
    PROVE  IInv'
<1>1. TypeOK /\ ItemTyped /\ Recovered(itemState) \in ItemStates
  BY TypedParts DEF IInv, TypeOK, Recovered, ItemStates
<1>2. UNCHANGED counters \/ TrackerFault
  BY DEF RecoverItem, Shows, Raises
<1>3. Counted' /\ Remembered
  BY <1>1, <1>2, CountersStep
<1>4. ItemTyped'
  BY <1>1 DEF RecoverItem, Shows, Raises, ItemTyped
<1>5. UNCHANGED <<outside, questions, resolved, answers, my, pending, pc>>
  BY DEF RecoverItem, threads
<1>6. Grow /\ rows' \in Seq(Runs) /\ DatesTyped'
  BY <1>1, <1>5, SameGrow DEF TypeOK, DatesTyped, outside, questions
<1>7. RowsApart' /\ InTime'
  BY <1>5 DEF IInv, RowsApart, InTime, outside, questions
<1> QED
  BY <1>3, <1>4, <1>5, <1>6, <1>7, GrowInv

LEMMA OpenListed == OpenRows \subseteq ToSet(rows) /\ OpenRows \subseteq Runs
BY DEF OpenRows, Open

LEMMA NextPendingInv ==
    ASSUME IInv, NextPending
    PROVE  IInv'
<1>1. PICK r \in pending :
        /\ pending' = pending \ {r}
        /\ \/ /\ my' = [my EXCEPT ![Daemon].run = r]
              /\ Goto(Daemon, "comments")
              /\ UNCHANGED counters
           \/ UNCHANGED <<pc, my, counters>>
           \/ TrackerFault /\ Return(Daemon)
  BY DEF NextPending, Oldest
<1>2. /\ TypeOK /\ ItemTyped /\ r \in ToSet(rows) /\ r \in Runs /\ pending' \subseteq ToSet(rows)
      /\ Daemon \in Threads /\ Daemon \notin Requests
  BY <1>1, TypedParts, ThreadsSplit DEF IInv, TypeOK
<1>3. /\ pc[Daemon] = "next" /\ UNCHANGED <<outside, questions, resolved, answers>> /\ ItemTyped'
  BY <1>2 DEF NextPending, tracker, tables, ItemTyped
<1>4. Counted' /\ Remembered
  BY <1>1, <1>2, CountersStep
<1>5. CASE my' = [my EXCEPT ![Daemon].run = r] /\ Goto(Daemon, "comments")
  BY <1>2, <1>3, <1>4, <1>5, TakeInv
<1>6. CASE UNCHANGED <<pc, my>>
  <2>1. Goto(Daemon, "next") /\ "next" \in Steps \ {"write"}
    BY <1>2, <1>3, <1>6 DEF Goto, TypeOK, Steps
  <2> QED
    BY <1>2, <1>3, <1>4, <1>6, <2>1, GoOnInv
<1>7. CASE Return(Daemon)
  BY <1>2, <1>3, <1>4, <1>7, DropInv DEF Return
<1> QED
  BY <1>1, <1>5, <1>6, <1>7

LEMMA TickMovesInv ==
    ASSUME IInv, ListOpen \/ AnswersReconciled \/ NothingToRun
    PROVE  IInv'
<1>1. /\ TypeOK /\ ItemTyped /\ Daemon \in Threads /\ Daemon \notin Requests
      /\ pending \subseteq ToSet(rows) /\ {"next", "poll"} \subseteq Steps \ {"write"}
  BY TypedParts, ThreadsSplit DEF IInv, Steps
<1>2. UNCHANGED <<itemState, outside, claimed, lastRun, questions, resolved, answers, counters>>
  BY DEF ListOpen, AnswersReconciled, NothingToRun, tracker, tables
<1>3. ItemTyped' /\ Counted' /\ Remembered
  BY <1>1, <1>2, CountersStep DEF ItemTyped
<1>4. pending' \subseteq ToSet(rows)
  BY <1>1, OpenListed DEF ListOpen, AnswersReconciled, NothingToRun
<1>5. CASE ListOpen \/ AnswersReconciled
  <2>1. /\ pc[Daemon] \notin {"read", "write"} /\ UNCHANGED my
        /\ Goto(Daemon, "next") \/ Goto(Daemon, "poll")
    BY <1>5 DEF ListOpen, AnswersReconciled
  <2> QED
    BY <1>1, <1>2, <1>3, <1>4, <2>1, GoOnInv
<1>6. CASE NothingToRun
  BY <1>1, <1>2, <1>3, <1>4, <1>6, DropInv DEF NothingToRun, Return
<1> QED
  BY <1>5, <1>6

\* A reply was made after its question, in the same second, or without a date: of a
\* comment that preceded its question, MayAnswer leaves no other.
LEMMA ReplyFollows ==
    ASSUME IInv, NEW r \in ToSet(rows), NEW c \in Replies(r)
    PROVE  /\ c \in DOMAIN comments
           /\ \E q \in DOMAIN rows :
                 /\ rows[q] = r
                 /\ q <= comments[c] \/ dates[c] \in {Undated, askedAt[rows[q]]}
<1>1. PICK q \in DOMAIN rows : rows[q] = r
  BY DEF ToSet
<1>2. /\ c \in DOMAIN comments /\ c \in DOMAIN dates /\ comments[c] \in Nat /\ q \in Nat
      /\ dates[c] \in Nat /\ askedAt[r] \in Nat
  <2>1. /\ comments \in Seq(0..MaxRuns) /\ dates \in Seq(Seconds \cup {Undated})
        /\ Len(dates) = Len(comments)
        /\ rows \in Seq(Runs) /\ askedAt \in [Runs -> 0..MaxSeconds]
    BY DEF IInv, TypeOK
  <2>2. c \in DOMAIN comments
    BY DEF Replies
  <2>3. r \in Runs
    BY <2>1, <1>1
  <2> QED
    BY <1>1, <2>1, <2>2, <2>3, Bounds DEF Seconds, Undated
<1>3. CASE q <= comments[c]
  BY <1>1, <1>2, <1>3
<1>4. CASE comments[c] < q
  <2>1. dates[c] <= askedAt[rows[q]]
    BY <1>1, <1>2, <1>4 DEF IInv, InTime
  <2>2. dates[c] = Undated \/ askedAt[r] <= dates[c]
    BY DEF Replies, MayAnswer
  <2>3. dates[c] = Undated \/ dates[c] = askedAt[rows[q]]
    BY <1>1, <1>2, <2>1, <2>2
  <2> QED
    BY <1>1, <1>2, <2>3
<1> QED
  BY <1>2, <1>3, <1>4

LEMMA ReadCommentsInv ==
    ASSUME IInv, ReadComments
    PROVE  IInv'
<1>1. /\ TypeOK /\ ItemTyped /\ Daemon \in Threads /\ Daemon \notin Requests
      /\ pending \subseteq ToSet(rows) /\ my[Daemon] \in Locals /\ my \in [Threads -> Locals]
  BY TypedParts, ThreadsSplit DEF IInv
<1>2. /\ pc[Daemon] = "comments" /\ UNCHANGED <<outside, questions, resolved, answers, pending>>
      /\ ItemTyped'
  BY <1>1 DEF ReadComments, tracker, tables, ItemTyped
<1>3. UNCHANGED counters \/ TrackerFault
  BY DEF ReadComments
<1>4. Counted' /\ Remembered
  BY <1>1, <1>3, CountersStep
<1>5. CASE Goto(Daemon, "next") /\ my' = [my EXCEPT ![Daemon] = Fresh]
  BY <1>1, <1>2, <1>4, <1>5, DropInv
<1>6. ASSUME NEW c \in Replies(my[Daemon].run), my' = [my EXCEPT ![Daemon].comment = c],
             Goto(Daemon, "resolve")
      PROVE  IInv'
  <2> DEFINE l == [my[Daemon] EXCEPT !.comment = c]
  <2>1. /\ c \in DOMAIN comments
        /\ \E q \in DOMAIN rows :
              /\ rows[q] = my[Daemon].run
              /\ q <= comments[c] \/ dates[c] \in {Undated, askedAt[rows[q]]}
    <3>1. my[Daemon].run \in ToSet(rows)
      BY <1>1, <1>2 DEF IInv, InHand
    <3> QED
      BY <3>1, ReplyFollows
  <2>2. c \in 0..MaxComments
    <3>1. comments \in Seq(0..MaxRuns) /\ Len(comments) <= MaxComments
      BY <1>1 DEF TypeOK
    <3> QED
      BY <2>1, <3>1, Bounds
  <2>3. /\ l \in Locals /\ l.run = my[Daemon].run /\ l.comment = c /\ l.answers = my[Daemon].answers
        /\ "resolve" \in Steps
    BY <1>1, <2>2 DEF Locals, Steps, AnswerSteps
  <2>4. my' = [my EXCEPT ![Daemon] = l]
    BY <1>1, <1>6
  <2> HIDE DEF l
  <2>5. Follows(l, comments, dates, rows, askedAt)
    BY <2>1, <2>3 DEF Follows
  <2>6. Fits(Daemon, "resolve", l)
    BY <1>1, <1>2, <2>3, <2>5 DEF IInv, InHand, AllFollow, Fits
  <2> QED
    BY <1>1, <1>2, <1>4, <1>6, <2>3, <2>4, <2>6, MoveInv DEF Goto
<1> QED
  BY <1>5, <1>6 DEF ReadComments

-----------------------------------------------------------------------------
(* The API's answer-input request *)

LEMMA LatestOpen == Latest(OpenRows) \subseteq ToSet(rows) /\ Latest(OpenRows) \subseteq Runs
BY OpenListed DEF Latest

LEMMA AnswerItemInv ==
    ASSUME IInv, NEW t \in Threads, AnswerItem(t)
    PROVE  IInv'
<1>1. /\ TypeOK /\ ItemTyped /\ pending \subseteq ToSet(rows)
      /\ pc[t] = "idle" /\ asked' # 0 /\ Asked
      /\ UNCHANGED <<itemState, outside, claimed, lastRun, questions, resolved, answers, pending>>
  BY TypedParts DEF IInv, AnswerItem, Asked, TypeOK, tracker, tables
<1>2. ItemTyped' /\ Counted' /\ Remembered
  BY <1>1, CountersStep DEF ItemTyped
<1>3. \/ \E r \in Latest(OpenRows) : my' = [my EXCEPT ![t].run = r] /\ Goto(t, "comment")
      \/ my' = [my EXCEPT ![t].run = lastRun] /\ Goto(t, "followUp") /\ lastRun \in Runs
  BY <1>1, Bounds DEF AnswerItem, ItemTyped, Runs, NoRun
<1> QED
  BY <1>1, <1>2, <1>3, LatestOpen, TakeInv

LEMMA FollowUpInv ==
    ASSUME IInv, NEW t \in Threads, FollowUp(t)
    PROVE  IInv'
<1>1. my[t].run \in Runs
  BY DEF FollowUp, IInv, InHand
<1>2. /\ Grow /\ rows' \in Seq(Runs) /\ RowsApart' /\ InTime'
      /\ askedAt' \in [Runs -> 0..MaxSeconds]
  BY <1>1, QuestionRecorded DEF FollowUp, tracker
<1>3. Counted' /\ Remembered
  BY CountersStep DEF FollowUp, IInv
<1>4. /\ ItemTyped' /\ DatesTyped'
      /\ UNCHANGED <<resolved, answers, my, pending>>
  BY <1>2 DEF FollowUp, tracker, outside, IInv, TypeOK, ItemTyped, DatesTyped
<1>5. pc[t] = "followUp" /\ Goto(t, "reread")
  BY DEF FollowUp
<1> QED
  BY <1>2, <1>3, <1>4, <1>5, GrowInv

LEMMA RequestMovesInv ==
    ASSUME IInv, NEW t \in Requests, RereadQuestion(t) \/ CommentAnswer(t)
    PROVE  IInv'
<1>1. /\ TypeOK /\ ItemTyped /\ t \in Threads /\ t # Daemon
      /\ pending \subseteq ToSet(rows) /\ "read" \in Steps \ {"write"}
  BY TypedParts, ThreadsSplit DEF IInv, Steps, AnswerSteps
<1>2. UNCHANGED <<itemState, outside, claimed, lastRun, questions, resolved, answers, pending>>
  BY DEF RereadQuestion, CommentAnswer, tracker, tables
<1>3. UNCHANGED counters \/ TrackerFault
  BY DEF RereadQuestion, CommentAnswer
<1>4. ItemTyped' /\ Counted' /\ Remembered
  BY <1>1, <1>2, <1>3, CountersStep DEF ItemTyped
<1>5. CASE RereadQuestion(t)
  <2>1. pc[t] = "reread"
    BY <1>5 DEF RereadQuestion
  <2>2. CASE \E r \in Latest(OpenRows) : my' = [my EXCEPT ![t].run = r] /\ Goto(t, "comment")
    BY <1>1, <1>2, <1>4, <2>1, <2>2, LatestOpen, TakeInv
  <2>3. CASE Return(t)
    BY <1>1, <1>2, <1>4, <2>1, <2>3, DropInv DEF Return
  <2> QED
    BY <1>5, <2>2, <2>3 DEF RereadQuestion
<1>6. CASE CommentAnswer(t)
  <2>1. pc[t] = "comment" /\ my[t].run \in ToSet(rows)
    BY <1>1, <1>6 DEF CommentAnswer, IInv, InHand
  <2>2. CASE Goto(t, "read") /\ UNCHANGED my
    BY <1>1, <1>2, <1>4, <2>1, <2>2, GoOnInv
  <2>3. CASE Return(t)
    BY <1>1, <1>2, <1>4, <2>1, <2>3, DropInv DEF Return
  <2> QED
    BY <1>6, <2>2, <2>3 DEF CommentAnswer
<1> QED
  BY <1>5, <1>6

-----------------------------------------------------------------------------
(* People, and a crash *)

LEMMA HumanInv ==
    ASSUME IInv, HumanComments \/ HumanRetries \/ SecondPasses
    PROVE  IInv'
<1>1. /\ TypeOK /\ ItemTyped /\ Counted /\ rows \in Seq(Runs) /\ comments \in Seq(0..MaxRuns)
      /\ Len(comments) <= MaxComments /\ dates \in Seq(Seconds \cup {Undated})
      /\ Len(dates) = Len(comments) /\ askedAt \in [Runs -> 0..MaxSeconds] /\ now \in Seconds
  BY TypedParts DEF IInv, TypeOK
<1>2. /\ UNCHANGED <<questions, rows, askedAt, resolved, answers, my, pending, pc>>
      /\ ItemTyped'
  BY <1>1 DEF HumanComments, HumanRetries, SecondPasses, tables, threads, questions, ItemTyped, ItemStates
<1>3. rows' \in Seq(Runs) /\ RowsApart'
  BY <1>1, <1>2 DEF IInv, RowsApart
<1>4. CASE HumanComments
  <2>1. Counted' /\ Remembered
    BY <1>1, <1>4, CountersStep DEF HumanComments
  <2>2. Len(rows) \in 0..MaxRuns
    BY <1>1, Bounds, ApartBounded DEF IInv, RowsApart
  <2>3. /\ comments' \in Seq(0..MaxRuns) /\ Len(comments') <= MaxComments
        /\ Len(comments') = Len(comments) + 1 /\ comments'[Len(comments) + 1] = Len(rows)
        /\ \A c \in 1..Len(comments) : comments'[c] = comments[c]
    BY <1>1, <1>4, <2>2, Bounds DEF HumanComments
  <2>4. PICK date \in {now, Undated} : dates' = Append(dates, date) /\ now' = now
    BY <1>4 DEF HumanComments
  <2>5. /\ dates' \in Seq(Seconds \cup {Undated}) /\ Len(dates') = Len(dates) + 1
        /\ dates'[Len(dates) + 1] = date /\ \A c \in 1..Len(dates) : dates'[c] = dates[c]
    BY <1>1, <2>4
  <2>6. Grow
    BY <1>1, <1>2, <2>3, <2>5 DEF Grow
  <2>7. DatesTyped'
    BY <1>1, <1>2, <2>3, <2>4, <2>5 DEF DatesTyped
  <2>8. InTime'
    <3>1. \A c \in DOMAIN comments' : comments'[c] <= Len(rows')
      <4>1. \A c \in 1..Len(comments) : comments[c] <= Len(rows)
        BY <1>1 DEF IInv, InTime
      <4>2. \A c \in 1..Len(comments') : c = Len(comments) + 1 \/ c \in 1..Len(comments)
        BY <1>1, <2>3
      <4> QED
        BY <1>2, <2>2, <2>3, <4>1, <4>2
    <3>2. date <= now
      BY <1>1, <2>4 DEF Seconds, Undated
    <3>3. \A c \in DOMAIN dates' : dates'[c] <= now'
      BY <1>1, <2>4, <2>5, <3>2 DEF IInv, InTime
    <3>4. \A r \in Runs : askedAt'[r] <= now'
      BY <1>2, <2>4 DEF IInv, InTime
    <3>5. ASSUME NEW c \in DOMAIN comments', NEW q \in DOMAIN rows', comments'[c] < q
          PROVE  dates'[c] <= askedAt'[rows'[q]]
      <4>1. c \in 1..Len(comments)
        BY <1>1, <1>2, <2>2, <2>3, <3>5
      <4> QED
        BY <1>1, <1>2, <2>3, <2>5, <3>5, <4>1 DEF IInv, InTime
    <3> QED
      BY <3>1, <3>3, <3>4, <3>5 DEF InTime
  <2> QED
    BY <1>2, <1>3, <2>1, <2>6, <2>7, <2>8, GrowInv
<1>5. CASE HumanRetries
  <2>1. Counted' /\ Remembered
    <3>1. retries' = retries + 1 /\ retries < MaxRetries /\ UNCHANGED <<asked, faults, crashes>>
      BY <1>5 DEF HumanRetries
    <3>2. retries' \in 0..MaxRetries
      BY <1>1, <3>1, Bounds DEF Counted
    <3> QED
      BY <1>1, <3>1, <3>2 DEF Counted, Remembered
  <2>2. UNCHANGED <<comments, dates, now>>
    BY <1>5 DEF HumanRetries, outside
  <2>3. Grow /\ InTime' /\ DatesTyped'
    BY <1>1, <1>2, <2>2, SameGrow DEF IInv, InTime, DatesTyped
  <2> QED
    BY <1>2, <1>3, <2>1, <2>3, GrowInv
<1>6. CASE SecondPasses
  <2>1. Counted' /\ Remembered
    BY <1>1, <1>6, CountersStep DEF SecondPasses
  <2>2. UNCHANGED <<comments, dates>> /\ now' = now + 1 /\ now < MaxSeconds
    BY <1>6 DEF SecondPasses
  <2>3. Grow /\ DatesTyped'
    BY <1>1, <1>2, <2>2, SameGrow, Bounds DEF DatesTyped, Seconds
  <2>4. InTime'
    <3>1. \A c \in DOMAIN dates : dates[c] \in Nat /\ dates[c] <= now
      BY <1>1 DEF IInv, InTime, Seconds, Undated
    <3>2. \A r \in Runs : askedAt[r] \in Nat /\ askedAt[r] <= now
      BY <1>1, Bounds DEF IInv, InTime
    <3>3. now \in Nat
      BY <1>1 DEF Seconds
    <3> QED
      BY <1>2, <2>2, <3>1, <3>2, <3>3 DEF IInv, InTime
  <2> QED
    BY <1>2, <1>3, <2>1, <2>3, <2>4, GrowInv
<1> QED
  BY <1>4, <1>5, <1>6

LEMMA CrashInv ==
    ASSUME IInv, Crash
    PROVE  IInv'
<1>1. /\ \A t \in Threads : pc'[t] = "idle" /\ my'[t] = Fresh
      /\ pc' \in [Threads -> Steps] /\ my' \in [Threads -> Locals]
      /\ Fresh.comment = NoComment /\ Fresh.answers = <<>>
  BY Bounds DEF Crash, Fresh, Locals, NoRun, NoComment, Steps
<1>2. /\ UNCHANGED <<itemState, comments, dates, now, claimed, lastRun, rows, askedAt, resolved, answers>>
      /\ UNCHANGED <<retries, asked, faults>> /\ pending' = {}
      /\ crashes' \in 0..MaxCrashes /\ crashes' # 0
  BY Bounds DEF Crash, tracker, tables, outside, questions, IInv, TypeOK
<1>3. TypeOK'
  BY <1>1, <1>2 DEF IInv, TypeOK
<1>4. RowsApart' /\ Listed' /\ InTime'
  BY <1>2 DEF IInv, RowsApart, Listed, InTime
<1>5. InHand'
  BY <1>1 DEF InHand, KeptAnswers
<1>6. AllFollow'
  BY <1>1, <1>2, ThreadsSplit DEF IInv, AllFollow
<1>7. AloneAttaches'
  BY <1>2 DEF AloneAttaches
<1> QED
  BY <1>3, <1>4, <1>5, <1>6, <1>7 DEF IInv

-----------------------------------------------------------------------------
(* The theorems *)

LEMMA InitInv == Init => IInv
<1> SUFFICES ASSUME Init
             PROVE  IInv
  OBVIOUS
<1>1. /\ pc \in [Threads -> Steps] /\ my \in [Threads -> Locals]
      /\ \A t \in Threads : pc[t] = "idle" /\ my[t] = Fresh
      /\ Fresh.comment = NoComment /\ Fresh.answers = <<>>
  BY Bounds DEF Init, Fresh, Locals, NoRun, NoComment, Steps
<1>2. TypeOK
  <2>1. itemState \in ItemStates /\ claimed \in BOOLEAN
    BY DEF Init, ItemStates
  <2>2. /\ comments \in Seq(0..MaxRuns) /\ Len(comments) <= MaxComments
        /\ rows \in Seq(Runs) /\ answers \in Seq(Answer) /\ Len(answers) <= KeptAnswers
        /\ dates \in Seq(Seconds \cup {Undated}) /\ Len(dates) = Len(comments)
        /\ now \in Seconds /\ askedAt \in [Runs -> 0..MaxSeconds]
    BY Bounds DEF Init, KeptAnswers, Seconds
  <2>3. resolved \subseteq ToSet(rows) /\ pending \subseteq Runs
    BY DEF Init
  <2>4. /\ lastRun \in 0..MaxRuns /\ retries \in 0..MaxRetries /\ asked \in 0..MaxRequests
        /\ faults \in 0..MaxFaults /\ crashes \in 0..MaxCrashes
    <3>1. 0 \in 0..MaxRuns /\ 0 \in 0..MaxRetries /\ 0 \in 0..MaxRequests /\ 0 \in 0..MaxFaults /\ 0 \in 0..MaxCrashes
      BY Bounds
    <3> QED
      BY <3>1 DEF Init, NoRun
  <2> QED
    BY <1>1, <2>1, <2>2, <2>3, <2>4 DEF TypeOK
<1>3. RowsApart /\ Listed /\ InTime
  BY DEF Init, RowsApart, Listed, InTime
<1>4. InHand
  BY <1>1 DEF InHand, KeptAnswers
<1>5. AllFollow
  BY <1>1, ThreadsSplit DEF Init, AllFollow
<1>6. AloneAttaches
  BY <1>1, ThreadsSplit DEF Init, AloneAttaches
<1> QED
  BY <1>2, <1>3, <1>4, <1>5, <1>6 DEF IInv

LEMMA StutterInv ==
    ASSUME IInv, UNCHANGED vars
    PROVE  IInv'
<1>1. /\ UNCHANGED <<itemState, comments, dates, now, claimed, lastRun, rows, askedAt, resolved, answers>>
      /\ UNCHANGED <<pc, my, pending, retries, asked, faults, crashes>>
  BY DEF vars, tracker, tables, outside, questions, threads, counters
<1>2. TypeOK' /\ RowsApart' /\ InHand' /\ Listed' /\ InTime'
  BY <1>1 DEF IInv, TypeOK, RowsApart, InHand, Listed, InTime
<1>3. AllFollow' /\ AloneAttaches'
  BY <1>1 DEF IInv, AllFollow, AloneAttaches, Attached
<1> QED
  BY <1>2, <1>3 DEF IInv

LEMMA NextInv == IInv /\ [Next]_vars => IInv'
<1> SUFFICES ASSUME IInv, [Next]_vars
             PROVE  IInv'
  OBVIOUS
<1>1. ASSUME NEW t \in Threads, RunStep(t) \/ AnswerStep(t)
      PROVE  IInv'
  BY <1>1, RunAsksInv, RunMovesInv, ResolveQuestionInv, ReadAnswersInv, WriteAnswersInv, MakeReadyInv
     DEF RunStep, AnswerStep
<1>2. CASE DaemonStep
  BY <1>2, ThreadsSplit, RecoverItemInv, TickMovesInv, NextPendingInv, ReadCommentsInv, StartRunInv
     DEF DaemonStep
<1>3. ASSUME NEW t \in Requests, StartRun(t) \/ AnswerItem(t) \/ RequestStep(t)
      PROVE  IInv'
  BY <1>3, ThreadsSplit, StartRunInv, AnswerItemInv, FollowUpInv, RequestMovesInv DEF RequestStep
<1>4. CASE HumanComments \/ HumanRetries \/ SecondPasses \/ Crash
  BY <1>4, HumanInv, CrashInv
<1>5. CASE UNCHANGED vars
  BY <1>5, StutterInv
<1> QED
  BY <1>1, <1>2, <1>3, <1>4, <1>5 DEF Next

LEMMA Invariant == Spec => []IInv
BY InitInv, NextInv, PTL DEF Spec

\* Every variable has its type: no more than ten answers are kept, no comment is
\* counted after more questions than runs can ask, and only questions that were
\* recorded are resolved.
THEOREM TypeCorrect == Spec => []TypeOK
<1>1. IInv => TypeOK
  BY DEF IInv
<1> QED
  BY <1>1, Invariant, PTL

\* The comment recorded as an answer was made after its question or in the second of
\* it, or the tracker gives it no date, whatever the daemon, the handlers, people and
\* crashes do in between (_is_human_answer_comment, _append_human_answer).
THEOREM AnswersFollow == Spec => []AnswersFollowQuestions
<1>1. IInv => AnswersFollowQuestions
  BY DEF IInv, AllFollow, Follows, AnswersFollowQuestions
<1> QED
  BY <1>1, Invariant, PTL

\* As long as the daemon works alone and does not crash, no failure of the tracker
\* loses an answer: a resolved question has left it with the item (_resolve_needs_input).
THEOREM ResolvedStaysAttached == Spec => []ResolvedIsAttached
<1>1. IInv => ResolvedIsAttached
  BY DEF IInv, AloneAttaches, Attached, ResolvedIsAttached
<1> QED
  BY <1>1, Invariant, PTL

=============================================================================
