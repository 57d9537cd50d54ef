--------------------------- MODULE AppServerProofs ---------------------------
(***************************************************************************)
(* Proofs about one turn of the App Server, for every Timeout and MaxTalk: *)
(* the type of its state, and that neither an outcome is invented nor the  *)
(* end of the turn overlooked (OutcomeIsServers, EndIsNotMissed).          *)
(*                                                                         *)
(* AppServer has no specification of its own: its steps are taken by       *)
(* Polling.  The lemmas say what each step preserves; PollingProofs uses   *)
(* them.                                                                   *)
(***************************************************************************)
EXTENDS AppServer, TLAPS

Ends == {Completed, Failed}
Replies == {Answer(3), Refusal(3)}

\* Nothing is left of a turn that is over, and a turn in hand has no outcome.
ProcessInv ==
    /\ step = Idle => server = "off" /\ lines = <<>>
    /\ step # Idle => outcome = NoTurn /\ server # "off"

\* The server answers the requests in order, each after it was sent; the turn ends
\* after turn/start, and only once.
ServerInv ==
    /\ step \in Requests => answered <= step
    /\ step = Waiting => answered = 3
    /\ step \in {1, 2} => ended = NoTurn
    /\ early => ended # NoTurn
    /\ \A k \in DOMAIN lines :
          /\ \A n \in Requests : lines[k] = Answer(n) => answered >= n
          /\ lines[k] \in Ends => lines[k] = <<ended, 0>>

\* An end that is early comes before the answer to turn/start, and is dropped with
\* what precedes this; one that is not comes after it.
OrderInv ==
    /\ step = 3 /\ early =>
          \A j, k \in DOMAIN lines : lines[j] \in Ends /\ lines[k] = Answer(3) => j < k
    /\ step = Waiting /\ early => \A k \in DOMAIN lines : lines[k] \notin Ends
    /\ step = 3 /\ answered = 3 => \E j \in DOMAIN lines : lines[j] \in Replies
    /\ step = 3 /\ ended # NoTurn /\ ~early =>
          \E j, k \in DOMAIN lines : j < k /\ lines[j] \in Replies /\ lines[k] = <<ended, 0>>

TurnInv ==
    /\ TurnTypeOK /\ ProcessInv /\ ServerInv /\ OrderInv
    /\ OutcomeIsServers /\ EndIsNotMissed

-----------------------------------------------------------------------------
\* What a read and a line of the server do to the queue.
LEMMA TailOfLines ==
    ASSUME lines \in Seq(Lines), lines # <<>>
    PROVE  /\ Head(lines) \in Lines /\ Head(lines) = lines[1]
           /\ Tail(lines) \in Seq(Lines)
           /\ \A k \in DOMAIN Tail(lines) : k + 1 \in DOMAIN lines /\ Tail(lines)[k] = lines[k + 1]
           /\ \A k \in DOMAIN lines : k # 1 => k - 1 \in DOMAIN Tail(lines) /\ Tail(lines)[k - 1] = lines[k]
    OBVIOUS

LEMMA AppendedLine ==
    ASSUME lines \in Seq(Lines), NEW line \in Lines
    PROVE  /\ Append(lines, line) \in Seq(Lines)
           /\ DOMAIN Append(lines, line) = DOMAIN lines \cup {Len(lines) + 1}
           /\ \A k \in DOMAIN lines : Append(lines, line)[k] = lines[k] /\ k < Len(lines) + 1
           /\ Append(lines, line)[Len(lines) + 1] = line
    OBVIOUS

\* Start, outcome taken, time: nothing is in the queue, or nothing changes in it.
LEMMA FreshTurn ==
    ASSUME TurnInv, StartTurn \/ TakeOutcome
    PROVE  TurnInv'
<1>1. \/ Reset(1, "up", Timeout, NoTurn)
      \/ Reset(Idle, "off", 0, "error")
      \/ Reset(Idle, "off", 0, NoTurn)
  BY DEF StartTurn, TakeOutcome
<1>2. lines' = <<>> /\ answered' = 0 /\ ended' = NoTurn /\ early' = FALSE /\ talked' = 0
  BY <1>1 DEF Reset
<1>3. lines' \in Seq(Lines) /\ DOMAIN lines' = {}
  BY <1>2
<1>4. TurnTypeOK'
  <2>1. step' \in Steps /\ outcome' \in Outcomes /\ server' \in {"off", "up", "exited"}
    BY <1>1 DEF Reset, Steps, Requests, Idle, Outcomes
  <2>2. left' \in {0, Timeout}
    BY <1>1 DEF Reset
  <2>3. left' \in 0..Timeout /\ 0 \in 0..MaxTalk /\ 0 \in 0..3
    BY <2>2, AppServerAssumption
  <2> QED
    BY <1>2, <1>3, <2>1, <2>3 DEF TurnTypeOK
<1>5. (ProcessInv /\ OutcomeIsServers)'
  BY <1>1, <1>2 DEF Reset, ProcessInv, OutcomeIsServers, Idle, NoTurn
<1>6. step' \in {0, 1}
  BY <1>1 DEF Reset, Idle
<1>7. (ServerInv /\ OrderInv /\ EndIsNotMissed)'
  BY <1>2, <1>3, <1>6 DEF ServerInv, OrderInv, EndIsNotMissed, Requests, Waiting
<1> QED
  BY <1>4, <1>5, <1>7 DEF TurnInv

LEMMA TimeInTurn ==
    ASSUME TurnInv, TimePasses
    PROVE  TurnInv'
<1>1. TurnTypeOK'
  BY AppServerAssumption DEF TimePasses, TurnInv, TurnTypeOK, serverVars
<1>2. (ProcessInv /\ ServerInv /\ OrderInv /\ OutcomeIsServers /\ EndIsNotMissed)'
  BY DEF TimePasses, TurnInv, ProcessInv, ServerInv, OrderInv, OutcomeIsServers,
         EndIsNotMissed, serverVars
<1> QED
  BY <1>1, <1>2 DEF TurnInv

LEMMA TurnStutters ==
    ASSUME TurnInv, UNCHANGED turnVars
    PROVE  TurnInv'
BY DEF turnVars, TurnInv, TurnTypeOK, ProcessInv, ServerInv, OrderInv, OutcomeIsServers,
       EndIsNotMissed

-----------------------------------------------------------------------------
(* The client *)

LEMMA TurnOverKeeps ==
    ASSUME TurnInv, Running, NEW o \in Outcomes \ {NoTurn}, TurnOver(o),
           o \in {"completed", "failed"} => ended = o /\ answered = 3 /\ ~early
    PROVE  TurnInv'
<1>1. lines' \in Seq(Lines) /\ DOMAIN lines' = {}
  BY DEF TurnOver
<1> QED
  BY <1>1
     DEF TurnOver, TurnInv, TurnTypeOK, ProcessInv, ServerInv, OrderInv, OutcomeIsServers,
         EndIsNotMissed, Steps, Requests, Idle, Waiting, Outcomes, NoTurn

\* What a read drops is not what it waits for.
LEMMA DropKeeps ==
    ASSUME TurnInv, Running, lines # <<>>, Drop,
           step = 3 => Head(lines) \notin Replies,
           step = Waiting => Head(lines) \notin Ends
    PROVE  TurnInv'
<1> USE DEF TurnInv, TurnTypeOK, Drop, serverVars
<1>1. /\ Head(lines) = lines[1] /\ lines' = Tail(lines) /\ lines' \in Seq(Lines)
      /\ \A k \in DOMAIN lines' : k + 1 \in DOMAIN lines /\ lines'[k] = lines[k + 1]
      /\ \A k \in DOMAIN lines : k # 1 => k - 1 \in DOMAIN lines' /\ lines'[k - 1] = lines[k]
      /\ DOMAIN lines \subseteq Nat \ {0} /\ DOMAIN lines' \subseteq Nat
  BY TailOfLines
<1>2. TurnTypeOK'
  BY <1>1
<1>3. ProcessInv'
  BY DEF ProcessInv, Running
<1>4. ServerInv'
  BY <1>1 DEF ServerInv
<1>5. OrderInv'
  <2>1. (step = 3 /\ early =>
          \A j, k \in DOMAIN lines : lines[j] \in Ends /\ lines[k] = Answer(3) => j < k)'
    BY <1>1 DEF OrderInv
  <2>2. (step = Waiting /\ early => \A k \in DOMAIN lines : lines[k] \notin Ends)'
    BY <1>1 DEF OrderInv
  <2>3. (step = 3 /\ answered = 3 => \E j \in DOMAIN lines : lines[j] \in Replies)'
    BY <1>1 DEF OrderInv
  <2>4. (step = 3 /\ ended # NoTurn /\ ~early =>
          \E j, k \in DOMAIN lines : j < k /\ lines[j] \in Replies /\ lines[k] = <<ended, 0>>)'
    <3> SUFFICES ASSUME step = 3, ended # NoTurn, ~early
                 PROVE  \E j, k \in DOMAIN lines' :
                            j < k /\ lines'[j] \in Replies /\ lines'[k] = <<ended, 0>>
      OBVIOUS
    <3>1. PICK j, k \in DOMAIN lines : j < k /\ lines[j] \in Replies /\ lines[k] = <<ended, 0>>
      BY DEF OrderInv
    <3>2. j # 1 /\ k # 1
      BY <1>1, <3>1
    <3>3. j - 1 \in DOMAIN lines' /\ k - 1 \in DOMAIN lines' /\ j - 1 < k - 1
      BY <1>1, <3>1, <3>2
    <3> QED
      BY <1>1, <3>1, <3>2, <3>3
  <2> QED
    BY <2>1, <2>2, <2>3, <2>4 DEF OrderInv
<1>6. OutcomeIsServers'
  BY DEF OutcomeIsServers
<1>7. EndIsNotMissed'
  <2> SUFFICES ASSUME step = Waiting, ended # NoTurn, ~early
               PROVE  \E k \in DOMAIN lines' : lines'[k] = <<ended, 0>>
    BY DEF EndIsNotMissed
  <2>1. PICK k \in DOMAIN lines : lines[k] = <<ended, 0>>
    BY DEF EndIsNotMissed
  <2>2. k # 1
    BY <1>1, <2>1 DEF Ends, Completed, Failed, NoTurn
  <2> QED
    BY <1>1, <2>1, <2>2
<1> QED
  BY <1>2, <1>3, <1>4, <1>5, <1>6, <1>7

\* After the answer to turn/start, an early end is no longer in the queue, and one
\* that is not early still is.
LEMMA AwaitKeeps ==
    ASSUME TurnInv, step = 3, lines # <<>>, Head(lines) = Answer(3), Await
    PROVE  TurnInv'
<1> USE DEF TurnInv, TurnTypeOK, Await, serverVars
<1>1. /\ Head(lines) = lines[1] /\ lines' = Tail(lines) /\ lines' \in Seq(Lines)
      /\ \A k \in DOMAIN lines' : k + 1 \in DOMAIN lines /\ lines'[k] = lines[k + 1]
      /\ \A k \in DOMAIN lines : k # 1 => k - 1 \in DOMAIN lines' /\ lines'[k - 1] = lines[k]
      /\ DOMAIN lines \subseteq Nat \ {0} /\ DOMAIN lines' \subseteq Nat /\ 1 \in DOMAIN lines
  BY TailOfLines
<1>2. TurnTypeOK'
  BY <1>1, AppServerAssumption DEF Steps
<1>3. ProcessInv'
  BY DEF ProcessInv, Waiting, Idle
<1>4. ServerInv'
  <2>1. answered = 3
    BY <1>1 DEF ServerInv, Requests
  <2> QED
    BY <1>1, <2>1 DEF ServerInv, Waiting, Requests
<1>5. OrderInv'
  <2>1. early => \A k \in DOMAIN lines' : lines'[k] \notin Ends
    BY <1>1 DEF OrderInv
  <2> QED
    BY <2>1 DEF OrderInv, Waiting
<1>6. OutcomeIsServers'
  BY DEF OutcomeIsServers, ProcessInv, Idle, NoTurn
<1>7. EndIsNotMissed'
  <2> SUFFICES ASSUME ended # NoTurn, ~early
               PROVE  \E k \in DOMAIN lines' : lines'[k] = <<ended, 0>>
    BY DEF EndIsNotMissed
  <2>1. PICK j, k \in DOMAIN lines : j < k /\ lines[j] \in Replies /\ lines[k] = <<ended, 0>>
    BY DEF OrderInv
  <2>2. k # 1
    BY <1>1, <2>1
  <2> QED
    BY <1>1, <2>1, <2>2
<1> QED
  BY <1>2, <1>3, <1>4, <1>5, <1>6, <1>7

LEMMA SendKeeps ==
    ASSUME TurnInv, NEW n \in {2, 3}, step = n - 1, lines # <<>>, Send(n)
    PROVE  TurnInv'
<1>1. CASE server = "exited"
  BY <1>1, TurnOverKeeps DEF Send, Running, Idle, Outcomes, NoTurn
<1>2. CASE server # "exited"
  <2>1. /\ lines' \in Seq(Lines)
        /\ \A k \in DOMAIN lines' : k + 1 \in DOMAIN lines /\ lines'[k] = lines[k + 1]
    BY <1>2, TailOfLines DEF Send, TurnInv, TurnTypeOK
  <2>2. ended = NoTurn /\ ~early /\ answered < n
    BY DEF TurnInv, TurnTypeOK, ServerInv, Requests
  <2> QED
    BY <1>2, <2>1, <2>2, AppServerAssumption
       DEF Send, TurnInv, TurnTypeOK, ProcessInv, ServerInv, OrderInv, OutcomeIsServers,
           EndIsNotMissed, serverVars, Steps, Requests, Idle, Waiting, NoTurn
<1> QED
  BY <1>1, <1>2

LEMMA ClientKeeps ==
    ASSUME TurnInv, ClientStep
    PROVE  TurnInv'
<1>1. CASE TimedOut
  BY <1>1, TurnOverKeeps DEF TimedOut, Outcomes, NoTurn
<1>2. ASSUME Running, lines # <<>>, ReadAnswer
      PROVE  TurnInv'
  <2> DEFINE line == Head(lines)
  <2>1. CASE line = Answer(step) /\ step = 3
    BY <1>2, <2>1, AwaitKeeps DEF ReadAnswer, Answer, Refusal, EndOfFile
  <2>2. CASE line = Answer(step) /\ step # 3
    <3>1. Send(step + 1) /\ step + 1 \in {2, 3} /\ step = (step + 1) - 1
      BY <1>2, <2>2 DEF ReadAnswer, Requests, Answer, Refusal, EndOfFile
    <3> QED
      BY <1>2, <3>1, SendKeeps
  <2>3. CASE line # Answer(step) /\ line \in {Refusal(step), EndOfFile}
    BY <1>2, <2>3, TurnOverKeeps DEF ReadAnswer, Outcomes, NoTurn
  <2>4. CASE line # Answer(step) /\ line \notin {Refusal(step), EndOfFile}
    BY <1>2, <2>4, DropKeeps DEF ReadAnswer, Replies, Requests, Waiting
  <2> QED
    BY <2>1, <2>2, <2>3, <2>4
<1>3. ASSUME Running, lines # <<>>, ReadEnd
      PROVE  TurnInv'
  <2> DEFINE line == Head(lines)
             o == EndOfTurn(line)
  <2>1. CASE line \notin Ends \cup {EndOfFile}
    <3>1. o = NoTurn
      BY <2>1 DEF EndOfTurn, Ends
    <3> QED
      BY <1>3, <2>1, <3>1, DropKeeps DEF ReadEnd, Waiting
  <2>2. CASE line = EndOfFile
    <3>1. o = "error"
      BY <2>2 DEF EndOfTurn, Completed, Failed, EndOfFile
    <3>2. TurnOver("error")
      BY <1>3, <3>1 DEF ReadEnd, NoTurn
    <3> QED
      BY <1>3, <3>2, TurnOverKeeps DEF Outcomes, NoTurn
  <2>3. CASE line \in Ends
    <3>1. line = lines[1] /\ 1 \in DOMAIN lines /\ lines # <<>>
      BY <1>3, TailOfLines DEF TurnInv, TurnTypeOK
    <3>2. line = <<ended, 0>> /\ answered = 3 /\ ~early
      BY <1>3, <2>3, <3>1 DEF ReadEnd, TurnInv, ServerInv, OrderInv
    <3>3. o = ended /\ o \in Outcomes \ {NoTurn}
      BY <2>3, <3>2 DEF EndOfTurn, Ends, Completed, Failed, EndOfFile, Outcomes, NoTurn
    <3>4. TurnOver(o)
      BY <1>3, <3>3 DEF ReadEnd
    <3> QED
      BY <1>3, <3>2, <3>3, <3>4, TurnOverKeeps
  <2> QED
    BY <2>1, <2>2, <2>3
<1> QED
  BY <1>1, <1>2, <1>3 DEF ClientStep, Read

-----------------------------------------------------------------------------
(* The server *)

\* A line that neither answers a request nor ends the turn.
LEMMA OtherLineKeeps ==
    ASSUME TurnInv, server = "up", NEW line \in {Talk, EndOfFile}, Says(line),
           server' \in {"up", "exited"}, talked' \in 0..MaxTalk,
           UNCHANGED <<answered, ended, early>>
    PROVE  TurnInv'
<1> USE DEF TurnInv, TurnTypeOK, Says
<1>1. /\ lines' \in Seq(Lines) /\ DOMAIN lines' = DOMAIN lines \cup {Len(lines) + 1}
      /\ \A k \in DOMAIN lines : lines'[k] = lines[k] /\ k < Len(lines) + 1
      /\ lines'[Len(lines) + 1] = line
  BY AppendedLine DEF Lines
<1>2. line \notin Ends \cup Replies /\ \A n \in Requests : line # Answer(n)
  BY DEF Ends, Replies, Talk, EndOfFile, Completed, Failed, Answer, Refusal
<1>3. TurnTypeOK'
  BY <1>1
<1>4. ProcessInv' /\ OutcomeIsServers'
  BY DEF ProcessInv, OutcomeIsServers
<1>5. ServerInv'
  BY <1>1, <1>2 DEF ServerInv
<1>6. OrderInv' /\ EndIsNotMissed'
  BY <1>1, <1>2 DEF OrderInv, EndIsNotMissed, Replies
<1> QED
  BY <1>3, <1>4, <1>5, <1>6

LEMMA AnswerKeeps ==
    ASSUME TurnInv, ServerAnswers
    PROVE  TurnInv'
<1> USE DEF TurnInv, TurnTypeOK, Says
<1> DEFINE n == answered + 1
<1>1. PICK line \in {Answer(n), Refusal(n)} : Says(line)
  BY DEF ServerAnswers
<1>2. /\ server = "up" /\ step # Idle /\ answered' = n /\ n \in Requests
      /\ UNCHANGED <<server, ended, early, talked, step, outcome, left>>
      /\ step # Waiting /\ n <= step
  BY DEF ServerAnswers, ProcessInv, ServerInv, Requests, Waiting, Steps, Idle
<1>3. line \in Lines /\ line \notin Ends
  BY <1>2 DEF Lines, Ends, Answer, Refusal, Completed, Failed
<1>4. /\ lines' \in Seq(Lines) /\ DOMAIN lines' = DOMAIN lines \cup {Len(lines) + 1}
      /\ \A k \in DOMAIN lines : lines'[k] = lines[k] /\ k < Len(lines) + 1
      /\ lines'[Len(lines) + 1] = line
  BY <1>1, <1>3, AppendedLine
<1>5. TurnTypeOK'
  BY <1>2, <1>4 DEF Requests
<1>6. ProcessInv' /\ OutcomeIsServers'
  BY <1>2 DEF ProcessInv, OutcomeIsServers, Idle, NoTurn
<1>7. ServerInv'
  <2>1. \A i \in Requests : line = Answer(i) => i = n
    BY <1>1 DEF Answer, Refusal
  <2> QED
    BY <1>2, <1>3, <1>4, <2>1 DEF ServerInv, Requests
<1>8. OrderInv'
  <2>1. (step = 3 /\ early =>
          \A j, k \in DOMAIN lines : lines[j] \in Ends /\ lines[k] = Answer(3) => j < k)'
    BY <1>2, <1>3, <1>4 DEF OrderInv
  <2>2. (step = 3 /\ answered = 3 => \E j \in DOMAIN lines : lines[j] \in Replies)'
    BY <1>1, <1>2, <1>4 DEF Replies
  <2>3. (step = 3 /\ ended # NoTurn /\ ~early =>
          \E j, k \in DOMAIN lines : j < k /\ lines[j] \in Replies /\ lines[k] = <<ended, 0>>)'
    BY <1>2, <1>4 DEF OrderInv
  <2> QED
    BY <1>2, <2>1, <2>2, <2>3 DEF OrderInv
<1>9. EndIsNotMissed'
  BY <1>2 DEF EndIsNotMissed
<1> QED
  BY <1>5, <1>6, <1>7, <1>8, <1>9

\* The turn ends before the answer to turn/start is in the queue, or after.
LEMMA EndKeeps ==
    ASSUME TurnInv, ServerEndsTurn
    PROVE  TurnInv'
<1> USE DEF TurnInv, TurnTypeOK, Says
<1>1. PICK line \in Ends : Says(line) /\ line = <<ended', 0>> /\ ended' \in {"completed", "failed"}
  BY DEF ServerEndsTurn, Ends, Completed, Failed
<1>2. /\ server = "up" /\ step \in {3, Waiting} /\ ended = NoTurn /\ ~early
      /\ early' = (answered < 3) /\ step # Idle
      /\ UNCHANGED <<server, answered, talked, step, outcome, left>>
  BY <1>1 DEF ServerEndsTurn, ServerInv, Waiting, Idle
<1>3. line \in Lines /\ line \notin Replies /\ \A i \in Requests : line # Answer(i)
  BY DEF Lines, Ends, Replies, Answer, Refusal, Completed, Failed
<1>4. /\ lines' \in Seq(Lines) /\ DOMAIN lines' = DOMAIN lines \cup {Len(lines) + 1}
      /\ \A k \in DOMAIN lines : lines'[k] = lines[k] /\ k < Len(lines) + 1
      /\ lines'[Len(lines) + 1] = line
  BY <1>1, <1>3, AppendedLine
<1>5. \A k \in DOMAIN lines : lines[k] \notin Ends
  BY <1>2 DEF ServerInv, Ends, Completed, Failed, NoTurn
<1>6. TurnTypeOK'
  BY <1>1, <1>2, <1>4
<1>7. ProcessInv' /\ OutcomeIsServers'
  BY <1>2 DEF ProcessInv, OutcomeIsServers, Idle, NoTurn
<1>8. ServerInv'
  BY <1>1, <1>2, <1>3, <1>4, <1>5 DEF ServerInv, Requests, Waiting, NoTurn
<1>9. OrderInv'
  <2>1. (step = 3 /\ early =>
          \A j, k \in DOMAIN lines : lines[j] \in Ends /\ lines[k] = Answer(3) => j < k)'
    <3> SUFFICES ASSUME answered < 3
                 PROVE  \A k \in DOMAIN lines' : lines'[k] # Answer(3)
      BY <1>2
    <3> QED
      BY <1>3, <1>4 DEF ServerInv, Requests
  <2>2. (step = Waiting /\ early => \A k \in DOMAIN lines : lines[k] \notin Ends)'
    BY <1>2 DEF ServerInv
  <2>3. (step = 3 /\ answered = 3 => \E j \in DOMAIN lines : lines[j] \in Replies)'
    BY <1>2, <1>4 DEF OrderInv
  <2>4. (step = 3 /\ ended # NoTurn /\ ~early =>
          \E j, k \in DOMAIN lines : j < k /\ lines[j] \in Replies /\ lines[k] = <<ended, 0>>)'
    <3>1. early' = (answered < 3)
      BY DEF ServerEndsTurn
    <3>2. ~early' => ~(answered < 3)
      BY <3>1, Zenon
    <3>3. step' = step /\ (~early' => answered = 3)
      BY <1>2, <3>2
    <3> SUFFICES ASSUME step = 3, answered = 3
                 PROVE  \E j, k \in DOMAIN lines' :
                            j < k /\ lines'[j] \in Replies /\ lines'[k] = <<ended', 0>>
      BY <3>3
    <3>4. PICK j \in DOMAIN lines : lines[j] \in Replies
      BY DEF OrderInv
    <3>5. j \in DOMAIN lines' /\ lines'[j] \in Replies /\ j < Len(lines) + 1
      BY <1>4, <3>4
    <3>6. Len(lines) + 1 \in DOMAIN lines' /\ lines'[Len(lines) + 1] = <<ended', 0>>
      BY <1>1, <1>4
    <3> QED
      BY <3>5, <3>6
  <2> QED
    BY <2>1, <2>2, <2>3, <2>4 DEF OrderInv
<1>10. EndIsNotMissed'
  BY <1>1, <1>4 DEF EndIsNotMissed
<1> QED
  BY <1>6, <1>7, <1>8, <1>9, <1>10

LEMMA ServerKeeps ==
    ASSUME TurnInv, ServerStep
    PROVE  TurnInv'
<1>1. CASE ServerAnswers
  BY <1>1, AnswerKeeps
<1>2. CASE ServerTalks
  BY <1>2, OtherLineKeeps, AppServerAssumption DEF ServerTalks, TurnInv, TurnTypeOK
<1>3. CASE ServerEndsTurn
  BY <1>3, EndKeeps
<1>4. CASE ServerExits
  BY <1>4, OtherLineKeeps DEF ServerExits, TurnInv, TurnTypeOK
<1> QED
  BY <1>1, <1>2, <1>3, <1>4 DEF ServerStep

-----------------------------------------------------------------------------
\* What a step of the client does to the read it is in: it goes on, or is over before
\* its deadline and the next read begins, or the turn is over.
LEMMA ClientAdvances ==
    ASSUME TurnInv, ClientStep
    PROVE  /\ step # Idle /\ outcome = NoTurn
           /\ \/ UNCHANGED <<step, outcome, left>>
              \/ step \in Requests /\ left > 0
                    /\ step' = step + 1 /\ left' = Timeout /\ outcome' = outcome
              \/ step' = Idle /\ outcome' \in Outcomes \ {NoTurn}
<1> DEFINE Over == step' = Idle /\ outcome' \in Outcomes \ {NoTurn}
<1>1. step # Idle /\ outcome = NoTurn
  BY DEF TurnInv, ProcessInv, ClientStep, Read, TimedOut, Running
<1>2. CASE TimedOut
  BY <1>1, <1>2 DEF TimedOut, TurnOver, Outcomes, NoTurn
<1>3. ASSUME left > 0, ReadAnswer
      PROVE  \/ UNCHANGED <<step, outcome, left>>
             \/ step \in Requests /\ left > 0
                   /\ step' = step + 1 /\ left' = Timeout /\ outcome' = outcome
             \/ Over
  <2>1. \/ Await /\ step = 3
        \/ Send(step + 1)
        \/ TurnOver("error")
        \/ Drop
    BY <1>3 DEF ReadAnswer, Answer, Refusal, EndOfFile
  <2> QED
    BY <1>3, <2>1 DEF ReadAnswer, Await, Send, TurnOver, Drop, Requests, Waiting, Outcomes, NoTurn
<1>4. ASSUME ReadEnd
      PROVE  UNCHANGED <<step, outcome, left>> \/ Over
  <2>1. EndOfTurn(Head(lines)) \in Outcomes
    BY DEF EndOfTurn, Completed, Failed, EndOfFile, Outcomes
  <2> QED
    BY <1>4, <2>1 DEF ReadEnd, TurnOver, Drop
<1> QED
  BY <1>1, <1>2, <1>3, <1>4 DEF ClientStep, Read

=============================================================================
