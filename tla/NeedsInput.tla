----------------------------- MODULE NeedsInput -----------------------------
(***************************************************************************)
(* The questions a run asks and the answers people give.                   *)
(*                                                                         *)
(* A run that asks leaves a row in table needs_input_items and moves its   *)
(* item to Needs Input (orchestrator.py).  A person replies with a comment *)
(* in the tracker, which the daemon looks for at the start of each tick    *)
(* (daemon.py), or through the API (local_api.py).  Either resolves the    *)
(* row, appends the answer to the item's settings, which the next run is   *)
(* given, and moves the item back to Ready.                                *)
(*                                                                         *)
(* One item, whose claim is taken as exclusive: how it can be lost or held *)
(* twice is module Dispatch.  Not covered: questions that full auto        *)
(* answers itself, and a follow-up on an item that was never run, whose    *)
(* row gets an id of its own.                                              *)
(***************************************************************************)
EXTENDS Naturals, Sequences, SequencesExt

CONSTANTS
    Daemon,       \* the daemon loop's thread
    Requests,     \* the handler threads of the local API
    MaxRuns,      \* bound: runs that may be started
    MaxComments,  \* bound: comments by people
    MaxRetries,   \* bound: moves of the item to Ready by people
    MaxRequests,  \* bound: requests the API receives
    MaxFaults,    \* bound: tracker calls that fail or are not shown
    MaxCrashes,   \* bound: crashes of the process
    MaxSeconds    \* bound: seconds in which anything happens

ASSUME NeedsInputAssumption ==
    /\ Daemon \notin Requests
    /\ {MaxRuns, MaxComments, MaxRetries, MaxRequests, MaxFaults, MaxCrashes} \subseteq Nat
    /\ MaxSeconds \in Nat \ {0}

VARIABLES
    itemState,    \* tracker: state of the item
    comments,     \* tracker: for each human comment, how many questions preceded it
    dates,        \* tracker: the second in which it was made, or Undated
    claimed,      \* table claims: the item's row is active
    lastRun,      \* table runs: the latest run of the item
    rows,         \* table needs_input_items: the runs, in the order in which they asked
    askedAt,      \* the column asked_at of their rows, a whole second
    resolved,     \* the rows with a resolved_at
    answers,      \* table task_metadata: human_answers of the item
    pc,           \* what each thread does next
    my,           \* the local variables of each thread
    pending,      \* daemon-local: the open questions it listed
    now,          \* the second it is, by the one clock of the tracker and the store
    retries, asked, faults, crashes   \* counters for the bounds

outside   == <<comments, dates, now>>
questions == <<rows, askedAt>>
tracker  == <<itemState, outside>>
tables   == <<claimed, lastRun, questions, resolved, answers>>
threads  == <<pc, my, pending>>
counters == <<retries, asked, faults, crashes>>
vars     == <<tracker, tables, threads, counters>>

-----------------------------------------------------------------------------
Threads == {Daemon} \cup Requests
Runs    == 1..MaxRuns
NoRun   == 0
NoComment == 0
Undated   == 0
Seconds   == 1..MaxSeconds
KeptAnswers == 10

ItemStates   == {"Ready", "Running", "Needs Input", "Human Review"}
RunningSteps == {"running", "publish", "block", "finish"}
AnswerSteps  == {"resolve", "read", "write", "ready"}
Steps == {"idle"} \cup RunningSteps \cup AnswerSteps
            \cup {"next", "comments", "poll", "followUp", "reread", "comment"}

Answer == [run : Runs, comment : 0..MaxComments]

\* A handler's locals: the question in hand, the comment that answers it, and
\* the answers as it read them.
Locals == [run : Runs \cup {NoRun}, comment : 0..MaxComments, answers : Seq(Answer)]
Fresh  == [run |-> NoRun, comment |-> NoComment, answers |-> <<>>]

Executing(t) == pc[t] \in RunningSteps
Open(r) == r \in ToSet(rows) \ resolved
OpenRows == {r \in Runs : Open(r)}

\* The order by asked_at: list_open_needs_input begins with the oldest question,
\* latest_open_needs_input returns the newest.  Those of one second are in the order of
\* their run ids, which is any.
Oldest(S) == {r \in S : \A q \in S : askedAt[r] <= askedAt[q]}
Latest(S) == {r \in S : \A q \in S : askedAt[q] <= askedAt[r]}

\* _is_human_answer_comment: a comment without a date may answer any question, and one
\* with a date, which has fractions of a second, those asked in its own second too.
MayAnswer(c, r) == dates[c] = Undated \/ askedAt[r] <= dates[c]

\* Mutated: a comment made before the question may answer it.
AnyComment(r) == DOMAIN comments

\* Mutated: only the oldest comment of the item is looked at.
FirstComment(r) == {c \in DOMAIN comments : c = 1 /\ MayAnswer(c, r)}

\* The human comments that are taken for answers to run r.
Replies(r) == {c \in DOMAIN comments : MayAnswer(c, r)}

\* record_needs_input: a row that exists keeps its asked_at and resolved_at.
RecordQuestion(r) ==
    IF r \in ToSet(rows) THEN UNCHANGED questions
    ELSE rows' = Append(rows, r) /\ askedAt' = [askedAt EXCEPT ![r] = now]

-----------------------------------------------------------------------------
Init ==
    /\ itemState = "Ready" /\ comments = <<>> /\ dates = <<>> /\ now = 1
    /\ claimed = FALSE /\ lastRun = NoRun
    /\ rows = <<>> /\ askedAt = [r \in Runs |-> 0] /\ resolved = {} /\ answers = <<>>
    /\ pc = [t \in Threads |-> "idle"]
    /\ my = [t \in Threads |-> Fresh]
    /\ pending = {}
    /\ retries = 0 /\ asked = 0 /\ faults = 0 /\ crashes = 0

Goto(t, step) == pc' = [pc EXCEPT ![t] = step]
Return(t) == Goto(t, "idle") /\ my' = [my EXCEPT ![t] = Fresh]

\* A request reaches the API.
Asked ==
    /\ asked < MaxRequests
    /\ asked' = asked + 1
    /\ UNCHANGED <<retries, faults, crashes>>

\* A tracker call fails.
TrackerFault ==
    /\ faults < MaxFaults
    /\ faults' = faults + 1
    /\ UNCHANGED <<retries, asked, crashes>>

\* update_item_state shows the new state, or returns and does not show it,
Shows(s) == itemState' = s /\ UNCHANGED counters
Hides    == TrackerFault /\ UNCHANGED itemState
\* ... or raises, before the tracker applied it or after.
Raises(s) == TrackerFault /\ itemState' \in {itemState, s}

-----------------------------------------------------------------------------
(* A run of the item *)

\* The claim is granted and the item shown as Running.
StartRun(t) ==
    /\ \/ t = Daemon /\ pc[t] = "poll" /\ UNCHANGED counters
       \/ t \in Requests /\ pc[t] = "idle" /\ Asked
    /\ itemState = "Ready" /\ ~claimed /\ lastRun < MaxRuns
    /\ itemState' = "Running"
    /\ claimed' = TRUE
    /\ lastRun' = lastRun + 1
    /\ Goto(t, "running")
    /\ my' = [my EXCEPT ![t].run = lastRun + 1]
    /\ UNCHANGED <<outside, questions, resolved, answers, pending>>

\* The run ends with no question: done, or failed.
RunEnds(t) ==
    /\ pc[t] = "running"
    /\ itemState' \in {"Human Review", "Needs Input"}
    /\ Goto(t, "finish")
    /\ UNCHANGED <<outside, tables, my, pending, counters>>

\* The run asks: its row is written before the item is moved.
RunAsks(t) ==
    /\ pc[t] = "running"
    /\ RecordQuestion(my[t].run)
    /\ Goto(t, "publish")
    /\ UNCHANGED <<tracker, claimed, lastRun, resolved, answers, my, pending, counters>>

\* The question is put as a comment and the item moved, without confirmation.
PublishQuestion(t) ==
    /\ pc[t] = "publish"
    /\ \/ (Shows("Needs Input") \/ Hides) /\ Goto(t, "finish")
       \/ Raises("Needs Input") /\ Goto(t, "block")
    /\ UNCHANGED <<outside, tables, my, pending>>

\* The except branch.  If it is not confirmed, or raises, the claim is kept.
BlockRun(t) ==
    /\ pc[t] = "block"
    /\ \/ Shows("Needs Input") /\ Goto(t, "finish") /\ UNCHANGED my
       \/ Raises("Needs Input") /\ Return(t)
    /\ UNCHANGED <<outside, tables, pending>>

FinishRun(t) ==
    /\ pc[t] = "finish"
    /\ claimed' = FALSE
    /\ Return(t)
    /\ UNCHANGED <<tracker, lastRun, questions, resolved, answers, pending, counters>>

RunStep(t) ==
    \/ RunEnds(t) \/ RunAsks(t) \/ PublishQuestion(t) \/ BlockRun(t) \/ FinishRun(t)

-----------------------------------------------------------------------------
(* Recording an answer: four steps the daemon and the API share *)

\* Mutated: the answer is resolved without being attached to the item.
ResolveOnly(t) ==
    /\ pc[t] = "resolve"
    /\ resolved' = resolved \cup {my[t].run}
    /\ Goto(t, "ready")
    /\ UNCHANGED <<tracker, claimed, lastRun, questions, answers, my, pending, counters>>

\* resolve_needs_input.  The daemon does it first, the API after the answer is
\* attached.  A row that is resolved already is left and nothing is said of it.
ResolveQuestion(t) ==
    /\ pc[t] = "resolve"
    /\ resolved' = resolved \cup {my[t].run}
    /\ Goto(t, IF t = Daemon THEN "read" ELSE "ready")
    /\ UNCHANGED <<tracker, claimed, lastRun, questions, answers, my, pending, counters>>

\* get_task_metadata: the settings are read,
ReadAnswers(t) ==
    /\ pc[t] = "read"
    /\ my' = [my EXCEPT ![t].answers = answers]
    /\ Goto(t, "write")
    /\ UNCHANGED <<tracker, tables, pending, counters>>

\* ... and written back with the answer, the last ten of them.
WriteAnswers(t) ==
    LET all == Append(my[t].answers, [run |-> my[t].run, comment |-> my[t].comment]) IN
    /\ pc[t] = "write"
    /\ answers' = IF Len(all) > KeptAnswers THEN Tail(all) ELSE all
    /\ Goto(t, IF t = Daemon THEN "ready" ELSE "resolve")
    /\ UNCHANGED <<tracker, claimed, lastRun, questions, resolved, my, pending, counters>>

\* Mutated: the item is moved only while the question is open.
MakeReadyIfOpen(t) ==
    /\ pc[t] = "ready"
    /\ \/ (Shows(IF Open(my[t].run) THEN "Ready" ELSE itemState) \/ Hides)
            /\ my' = [my EXCEPT ![t] = Fresh]
            /\ Goto(t, IF t = Daemon THEN "next" ELSE "idle")
       \/ Raises("Ready") /\ Return(t)
    /\ UNCHANGED <<outside, tables, pending>>

\* A comment, then the item is moved to Ready, whatever its state is by now.
MakeReady(t) ==
    /\ pc[t] = "ready"
    /\ \/ (Shows("Ready") \/ Hides)
            /\ my' = [my EXCEPT ![t] = Fresh]
            /\ Goto(t, IF t = Daemon THEN "next" ELSE "idle")
       \/ Raises("Ready") /\ Return(t)
    /\ UNCHANGED <<outside, tables, pending>>

AnswerStep(t) ==
    ResolveQuestion(t) \/ ReadAnswers(t) \/ WriteAnswers(t) \/ MakeReady(t)

-----------------------------------------------------------------------------
(* The daemon's tick *)

\* Mutated: the state product-design.md names for a reconciled item.
RecoveredToRework(s) == IF s = "Running" THEN "Rework" ELSE s

\* A claim no thread works for has outlived its TTL: it is released and an item
\* shown as Running goes to Needs Input, unless the tracker fails.
Recovered(s) == IF s = "Running" THEN "Needs Input" ELSE s

RecoverItem ==
    /\ pc[Daemon] = "idle"
    /\ claimed /\ \A t \in Threads : ~Executing(t)
    /\ claimed' = FALSE
    /\ \/ Shows(Recovered(itemState))
       \/ Raises(Recovered(itemState))
    /\ UNCHANGED <<outside, lastRun, questions, resolved, answers, threads>>

\* reconcile_needs_input_answers: the open questions are listed, oldest first.
ListOpen ==
    /\ pc[Daemon] = "idle"
    /\ pending' = OpenRows
    /\ Goto(Daemon, "next")
    /\ UNCHANGED <<tracker, tables, my, counters>>

\* Each is passed over unless the item is in Needs Input.  A failure to read
\* the item ends the tick.
NextPending ==
    /\ pc[Daemon] = "next"
    /\ \E r \in Oldest(pending) :
        /\ pending' = pending \ {r}
        /\ \/ /\ my' = [my EXCEPT ![Daemon].run = r]
              /\ itemState = "Needs Input" /\ Goto(Daemon, "comments")
              /\ UNCHANGED counters
           \/ itemState # "Needs Input" /\ UNCHANGED <<pc, my, counters>>
           \/ TrackerFault /\ Return(Daemon)
    /\ UNCHANGED <<tracker, tables>>

\* The comments are read; a failure passes the question over.  The answer is
\* the first reply in reversed(comments): the earliest of a tracker that lists
\* the newest first, as Plane does, the latest of one that lists the oldest first.
ReadComments ==
    LET replies == Replies(my[Daemon].run) IN
    /\ pc[Daemon] = "comments"
    /\ \/ /\ \E c \in replies :
                /\ (\A b \in replies : c <= b) \/ (\A b \in replies : b <= c)
                /\ my' = [my EXCEPT ![Daemon].comment = c]
          /\ Goto(Daemon, "resolve")
          /\ UNCHANGED counters
       \/ /\ (replies = {} /\ UNCHANGED counters) \/ TrackerFault
          /\ my' = [my EXCEPT ![Daemon] = Fresh]
          /\ Goto(Daemon, "next")
    /\ UNCHANGED <<tracker, tables, pending>>

AnswersReconciled ==
    /\ pc[Daemon] = "next" /\ pending = {}
    /\ Goto(Daemon, "poll")
    /\ UNCHANGED <<tracker, tables, my, pending, counters>>

\* There is nothing to run, or another run holds the claim.
NothingToRun ==
    /\ pc[Daemon] = "poll"
    /\ itemState # "Ready" \/ claimed
    /\ Return(Daemon)
    /\ UNCHANGED <<tracker, tables, pending, counters>>

DaemonStep ==
    \/ RecoverItem \/ ListOpen \/ NextPending \/ ReadComments
    \/ AnswersReconciled \/ NothingToRun \/ StartRun(Daemon)

-----------------------------------------------------------------------------
(* The API's answer-input request *)

\* The latest open question is answered; without one, the latest run gets one.
\* The item's state is not looked at.
AnswerItem(t) ==
    /\ t \in Requests /\ pc[t] = "idle" /\ lastRun # NoRun
    /\ Asked
    /\ \/ /\ \E r \in Latest(OpenRows) : my' = [my EXCEPT ![t].run = r]
          /\ Goto(t, "comment")
       \/ OpenRows = {} /\ Goto(t, "followUp")
            /\ my' = [my EXCEPT ![t].run = lastRun]
    /\ UNCHANGED <<tracker, tables, pending>>

FollowUp(t) ==
    /\ pc[t] = "followUp"
    /\ RecordQuestion(my[t].run)
    /\ Goto(t, "reread")
    /\ UNCHANGED <<tracker, claimed, lastRun, resolved, answers, my, pending, counters>>

\* "assert pending is not None": with no open question the handler dies.
RereadQuestion(t) ==
    /\ pc[t] = "reread"
    /\ \/ /\ \E r \in Latest(OpenRows) : my' = [my EXCEPT ![t].run = r]
          /\ Goto(t, "comment")
       \/ OpenRows = {} /\ Return(t)
    /\ UNCHANGED <<tracker, tables, pending, counters>>

\* The answer is put as a comment of codex-fleet's own, which answers nothing.
CommentAnswer(t) ==
    /\ pc[t] = "comment"
    /\ \/ Goto(t, "read") /\ UNCHANGED <<my, counters>>
       \/ TrackerFault /\ Return(t)
    /\ UNCHANGED <<tracker, tables, pending>>

RequestStep(t) == FollowUp(t) \/ RereadQuestion(t) \/ CommentAnswer(t)

-----------------------------------------------------------------------------
(* People, and a crash of the process all threads live in *)

\* A tracker dates its comments, as Plane does, or none of them.
HumanComments ==
    /\ Len(comments) < MaxComments
    /\ comments' = Append(comments, Len(rows))
    /\ \E date \in {now, Undated} :
          /\ \A c \in DOMAIN dates : dates[c] = Undated <=> date = Undated
          /\ dates' = Append(dates, date)
    /\ UNCHANGED <<itemState, now, tables, threads, counters>>

\* Someone moves the item back to Ready without waiting for an answer.
HumanRetries ==
    /\ retries < MaxRetries
    /\ itemState \in {"Needs Input", "Human Review"}
    /\ itemState' = "Ready"
    /\ retries' = retries + 1
    /\ UNCHANGED <<outside, tables, threads, asked, faults, crashes>>

\* A second is told from the next only between a comment and a later question: a comment
\* answers those before it whatever the second, and those of one second are in any order.
SecondPasses ==
    /\ now < MaxSeconds
    /\ now \in ToSet(dates) /\ ToSet(rows) # Runs
    /\ now' = now + 1
    /\ UNCHANGED <<itemState, comments, dates, tables, threads, counters>>

Crash ==
    /\ crashes < MaxCrashes
    /\ crashes' = crashes + 1
    /\ pc' = [t \in Threads |-> "idle"]
    /\ my' = [t \in Threads |-> Fresh]
    /\ pending' = {}
    /\ UNCHANGED <<tracker, tables, retries, asked, faults>>

-----------------------------------------------------------------------------
Next ==
    \/ \E t \in Threads : RunStep(t) \/ AnswerStep(t)
    \/ DaemonStep
    \/ \E t \in Requests : StartRun(t) \/ AnswerItem(t) \/ RequestStep(t)
    \/ HumanComments \/ HumanRetries \/ SecondPasses \/ Crash

Spec == Init /\ [][Next]_vars

\* The daemon ticks and handlers run to their end.  Nothing obliges a person,
\* a request or a crash to come.
Fairness ==
    /\ WF_vars(DaemonStep)
    /\ \A t \in Threads : WF_vars(RunStep(t)) /\ WF_vars(AnswerStep(t))
    /\ \A t \in Requests : WF_vars(RequestStep(t))

FairSpec == Spec /\ Fairness

-----------------------------------------------------------------------------
(* Properties *)

TypeOK ==
    /\ itemState \in ItemStates
    /\ comments \in Seq(0..MaxRuns) /\ Len(comments) <= MaxComments
    /\ dates \in Seq(Seconds \cup {Undated}) /\ Len(dates) = Len(comments) /\ now \in Seconds
    /\ claimed \in BOOLEAN /\ lastRun \in 0..MaxRuns
    /\ rows \in Seq(Runs) /\ askedAt \in [Runs -> 0..MaxSeconds] /\ resolved \subseteq ToSet(rows)
    /\ answers \in Seq(Answer) /\ Len(answers) <= KeptAnswers
    /\ pc \in [Threads -> Steps] /\ my \in [Threads -> Locals]
    /\ pending \subseteq Runs
    /\ retries \in 0..MaxRetries /\ asked \in 0..MaxRequests
    /\ faults \in 0..MaxFaults /\ crashes \in 0..MaxCrashes

\* The comment recorded as the answer to a run's question was made after the run asked,
\* or at least in the same second; an older remark is passed to the next run as its
\* answer only if the tracker gives it no date.
AnswersFollowQuestions ==
    \A k \in DOMAIN answers : LET c == answers[k].comment IN c # NoComment =>
        \E q \in DOMAIN rows :
            /\ rows[q] = answers[k].run
            /\ q <= comments[c] \/ dates[c] \in {Undated, askedAt[rows[q]]}

\* Whatever tracker calls fail, a question that was resolved has its answer
\* attached to the item for the next run, unless newer answers have filled the list.
\* (Not after a crash, nor beside an API request: the list is read and written back
\* in two transactions.)
ResolvedIsAttached ==
    crashes = 0 /\ asked = 0 /\ pc[Daemon] \notin {"read", "write"} =>
        \A r \in resolved : Len(answers) = KeptAnswers \/ \E k \in DOMAIN answers : answers[k].run = r

\* Someone has commented since run r asked.
CommentedSince(r) ==
    comments # <<>> /\ r \in ToSet(SubSeq(rows, 1, Last(comments)))

\* The item waits for an answer to the question of its last run, and someone
\* has commented since it was asked.
Replied ==
    /\ itemState = "Needs Input"
    /\ CommentedSince(lastRun)

\* Even with failures, crashes and requests, a reply to a question that is open
\* is noticed: the item moves on, or the question is resolved.
ReplyIsNoticed ==
    Replied /\ lastRun \notin resolved ~> ~Replied \/ lastRun \in resolved

\* With none of them, a reply resumes the item.
ReplyResumesWithoutFaults ==
    Replied ~> ~Replied \/ faults + crashes + asked > 0

\* The comment of the question says: "Reply in a comment. Codex Fleet will
\* resume automatically."
ReplyResumes == Replied ~> ~Replied

\* WORK_ITEM_TRANSITIONS gives input_answered as the way from Needs Input to
\* Ready: unless a person moves it, an item does not go back to Ready while the
\* question of its last run is open and no comment there is would answer it.
ResumesOnlyWhenAnswered ==
    [][ itemState = "Needs Input" /\ itemState' = "Ready" /\ retries' = retries
            => ~Open(lastRun) \/ Replies(lastRun) # {} ]_vars

=============================================================================
