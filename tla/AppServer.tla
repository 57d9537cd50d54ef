------------------------------ MODULE AppServer ------------------------------
(***************************************************************************)
(* One turn of the Codex App Server (codex/app_server.py): the client      *)
(* starts the server as a process, sends it three requests, each after the *)
(* answer to the one before, and waits for the end of the turn.  Every     *)
(* read has a deadline of its own, and takes lines from a queue that a     *)
(* thread fills from the server's output.                                  *)
(*                                                                         *)
(* The server is external: it answers, talks, ends the turn or exits as it *)
(* likes, in any order.  Time is counted in ticks.                         *)
(***************************************************************************)
EXTENDS Naturals, Sequences

CONSTANTS
    Timeout,   \* timeout_seconds, of each read
    MaxTalk    \* bound: lines in which the server neither answers nor ends the turn

ASSUME AppServerAssumption == Timeout \in Nat \ {0} /\ MaxTalk \in Nat

VARIABLES
    step,      \* the read the client is in: the answer to a request, or the turn's end
    outcome,   \* what run_turn returned or raised
    lines,     \* lines sent by the server and not yet taken, the reader's queue included
    server,    \* the process
    answered,  \* requests the server has answered
    ended,     \* how the server ended the turn, and ...
    early,     \* ... whether it did before it answered turn/start
    talked,
    left       \* ticks left until the deadline of this read

turnVars == <<step, outcome, lines, server, answered, ended, early, talked, left>>

-----------------------------------------------------------------------------
\* initialize, thread/start and turn/start are requests 1 to 3; 4 is _wait_for_turn.
Requests == 1..3
Idle == 0
Waiting == 4
Steps == {Idle} \cup Requests \cup {Waiting}

\* Lines: the answer to a request, with a result or an error; the end of the turn;
\* any other line; and the None the reader thread puts at the end.
Answer(n) == <<"result", n>>
Refusal(n) == <<"error", n>>
Completed == <<"completed", 0>>
Failed    == <<"failed", 0>>
Talk      == <<"talk", 0>>
EndOfFile == <<"eof", 0>>
Lines == {Answer(n) : n \in Requests} \cup {Refusal(n) : n \in Requests}
            \cup {Completed, Failed, Talk, EndOfFile}

NoTurn == "none"
Outcomes == {NoTurn, "completed", "failed", "error"}

TurnInit ==
    /\ step = Idle /\ outcome = NoTurn
    /\ lines = <<>> /\ server = "off"
    /\ answered = 0 /\ ended = NoTurn /\ early = FALSE /\ talked = 0
    /\ left = 0

Running == step # Idle
serverVars == <<server, answered, ended, early, talked>>

-----------------------------------------------------------------------------
(* The client *)

\* run_turn returns or raises; whichever, the process is terminated, and what it
\* has still to say is read by nobody.
TurnOver(o) ==
    /\ step' = Idle /\ outcome' = o
    /\ lines' = <<>> /\ server' = "off"
    /\ UNCHANGED <<answered, ended, early, talked, left>>

\* The next request is sent, and its answer read against a fresh deadline.  A
\* request to a server that has exited raises.
Send(n) ==
    IF server = "exited" THEN TurnOver("error")
    ELSE /\ step' = n /\ left' = Timeout
         /\ lines' = Tail(lines)
         /\ UNCHANGED <<outcome, serverVars>>

Reset(s, process, deadline, o) ==
    /\ step' = s /\ outcome' = o /\ left' = deadline
    /\ lines' = <<>> /\ server' = process
    /\ answered' = 0 /\ ended' = NoTurn /\ early' = FALSE /\ talked' = 0

\* The process is started, and sent initialize; or Popen raises.
StartTurn ==
    /\ ~Running
    /\ Reset(1, "up", Timeout, NoTurn) \/ Reset(Idle, "off", 0, "error")

\* The caller has taken the outcome: nothing is left of the turn.
TakeOutcome == Reset(Idle, "off", 0, NoTurn)

\* mutant: the line renews the deadline
DropAndRenew ==
    /\ lines' = Tail(lines) /\ left' = Timeout
    /\ UNCHANGED <<step, outcome, serverVars>>

\* The line is not what the read waits for: it is dropped, by _read_response even
\* if it is the end of the turn.
Drop ==
    /\ lines' = Tail(lines)
    /\ UNCHANGED <<step, outcome, serverVars, left>>

\* mutant: what the reader has queued is thrown away with the answer
AwaitAfresh ==
    /\ step' = Waiting /\ left' = Timeout
    /\ lines' = <<>>
    /\ UNCHANGED <<outcome, serverVars>>

\* The answer to turn/start: the turn is waited for against a fresh deadline.
Await ==
    /\ step' = Waiting /\ left' = Timeout
    /\ lines' = Tail(lines)
    /\ UNCHANGED <<outcome, serverVars>>

\* _read_response
ReadAnswer ==
    LET line == Head(lines) IN
    /\ step \in Requests
    /\ CASE line = Answer(step) -> IF step = 3 THEN Await ELSE Send(step + 1)
         [] line \in {Refusal(step), EndOfFile} -> TurnOver("error")
         [] OTHER -> Drop

\* mutant: the end of the output is taken for the end of the turn
EndOfOutput(line) ==
    CASE line \in {Completed, EndOfFile} -> "completed"
      [] line = Failed -> "failed"
      [] OTHER -> NoTurn

\* What _wait_for_turn returns for a line, if it ends the wait.
EndOfTurn(line) ==
    CASE line = Completed -> "completed"
      [] line = Failed -> "failed"
      [] line = EndOfFile -> "error"
      [] OTHER -> NoTurn

ReadEnd ==
    LET o == EndOfTurn(Head(lines)) IN
    /\ step = Waiting
    /\ IF o = NoTurn THEN Drop ELSE TurnOver(o)

Read == Running /\ left > 0 /\ lines # <<>> /\ (ReadAnswer \/ ReadEnd)

\* At its deadline a read takes no line, not even one that is there.
TimedOut == Running /\ left = 0 /\ TurnOver("error")

TimePasses ==
    /\ Running /\ left > 0
    /\ left' = left - 1
    /\ UNCHANGED <<step, outcome, lines, serverVars>>

ClientStep == Read \/ TimedOut

-----------------------------------------------------------------------------
(* The server *)

Says(line) == lines' = Append(lines, line) /\ UNCHANGED <<step, outcome, left>>

ServerAnswers ==
    /\ server = "up" /\ answered < IF step = Waiting THEN 3 ELSE step
    /\ answered' = answered + 1
    /\ Says(Answer(answered + 1)) \/ Says(Refusal(answered + 1))
    /\ UNCHANGED <<server, ended, early, talked>>

ServerTalks ==
    /\ server = "up" /\ talked < MaxTalk
    /\ talked' = talked + 1
    /\ Says(Talk)
    /\ UNCHANGED <<server, answered, ended, early>>

\* It has been sent turn/start, and may not have answered it.
ServerEndsTurn ==
    /\ server = "up" /\ step \in {3, Waiting} /\ ended = NoTurn
    /\ early' = (answered < 3)
    /\ \/ ended' = "completed" /\ Says(Completed)
       \/ ended' = "failed" /\ Says(Failed)
    /\ UNCHANGED <<server, answered, talked>>

ServerExits ==
    /\ server = "up"
    /\ server' = "exited"
    /\ Says(EndOfFile)
    /\ UNCHANGED <<answered, ended, early, talked>>

ServerStep == ServerAnswers \/ ServerTalks \/ ServerEndsTurn \/ ServerExits

TurnStep == ClientStep \/ ServerStep \/ TimePasses

-----------------------------------------------------------------------------
(* Properties of a turn *)

TurnTypeOK ==
    /\ step \in Steps /\ outcome \in Outcomes
    /\ lines \in Seq(Lines) /\ server \in {"off", "up", "exited"}
    /\ answered \in 0..3 /\ ended \in {NoTurn, "completed", "failed"} /\ early \in BOOLEAN
    /\ talked \in 0..MaxTalk /\ left \in 0..Timeout

\* A turn is reported as completed, or as failed, only if the server ended it so,
\* after it had answered all three requests: not for an exit, a refusal or a timeout.
OutcomeIsServers ==
    outcome \in {"completed", "failed"} => ended = outcome /\ answered = 3 /\ ~early

\* A turn that the server ends after its answer to turn/start is not missed: while
\* the client waits, its end is still to be read.  (One ended before the answer is:
\* the client drops it and waits for its timeout.)
EndIsNotMissed ==
    step = Waiting /\ ended # NoTurn /\ ~early => \E k \in DOMAIN lines : lines[k] = <<ended, 0>>

=============================================================================
