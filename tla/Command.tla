------------------------------ MODULE Command ------------------------------
(***************************************************************************)
(* A remote command as command.go runs it.  One goroutine per command, the *)
(* fetch loop, polls the server with Receive requests and writes what it   *)
(* gets into two io.Pipes (stdout and stderr); the user reads the pipes,   *)
(* waits for `done' and may Close the command from several goroutines; the *)
(* context given at the start may end at any time, which makes the fetch   *)
(* loop call Close itself.  Close closes the `cancel' channel, which tells *)
(* the loop to poll once more and leave, and posts a Signal (terminate).   *)
(*                                                                         *)
(* The server and io.Pipe are external: the server answers Receive with    *)
(* the next chunk of either stream, with an error, or too late; a pipe is  *)
(* a rendezvous (a write returns when a reader has taken all of it) whose  *)
(* first close decides what its readers get at the end.                    *)
(***************************************************************************)
EXTENDS Integers, Sequences, FiniteSets

CONSTANTS
    Closers,      \* goroutines of the user that call Command.Close
    Fetch,        \* the fetch goroutine
    Ids,          \* {TRUE}, or BOOLEAN when the server may forget CommandId
    CtxMayEnd,    \* can the context be cancelled or expire?
    MayLeave,     \* streams whose reader may stop before the end of the stream
    MaxChunks,    \* bound: chunks of output the remote process makes per stream
    ExitCodes     \* exit codes the remote process may report

Streams == {"stdout", "stderr"}
Callers == Closers \cup {Fetch}

\* What command.err, and what a pipe, may be set to.
Nil      == "nil"        \* no error: for a pipe, EOF
Context  == "context"    \* ctx.Err()
NoId     == "no id"      \* "Command has already been closed"
Eof      == "EOF"        \* an error of Post that says EOF
Failed   == "failed"     \* any other error of Post, or an answer that is no XML
Canceled == "canceled"
Errors   == {Nil, Context, NoId, Eof, Failed, Canceled}

EofCode  == 16001        \* the exit code of a command whose connection broke

ASSUME CallersAssumption == Fetch \notin Closers
ASSUME StreamsAssumption == MayLeave \subseteq Streams /\ MaxChunks \in Nat
ASSUME IdsAssumption     == Ids \subseteq BOOLEAN /\ CtxMayEnd \in BOOLEAN
ASSUME CodesAssumption   == ExitCodes \subseteq Int

VARIABLES
    (* struct Command *)
    hasId,        \* c.id # ""
    err,          \* c.err
    exitCode,     \* c.exitCode
    cancelClosed, \* is channel cancel closed?
    done,         \* is channel done closed?
    (* the fetch goroutine *)
    pc,           \* where it is
    drain,        \* it took the cancel branch of the select
    ctxSeen,      \* it took the ctxDone branch, and set ctxDone to nil
    slurpErr,     \* the error slurpAllOutput is about to return
    closeWith,    \* the error the pipes are about to be closed with
    fresh,        \* streams with a chunk of the last answer still to write
    final,        \* the last answer said Done
    answerCode,   \* the exit code in it
    (* the callers of Close *)
    closer,       \* where each of them is
    panicked,     \* "close of closed channel": the process is gone
    (* pipes and their readers *)
    pipe,         \* "open", or the error the pipe is closed with
    got,          \* chunks the reader of each stream has received
    reader,       \* "reading", "left" or "ended"
    (* context and server *)
    ctxEnded,
    remote,       \* the remote process: "running", "exited", or "reported"
    code,         \* its exit code
    sent,         \* chunks the server has put into answers, per stream
    lost,         \* has an answer with output or Done come too late?
    (* history *)
    userClosed,   \* has a Close called by the user returned?
    late          \* Receives answered after that

cmdVars    == <<hasId, err, exitCode, cancelClosed, done>>
answerVars == <<fresh, final, answerCode>>
slurpVars  == <<slurpErr, closeWith, answerVars>>
fetchVars  == <<pc, drain, ctxSeen, slurpVars>>
closeVars  == <<closer, panicked, userClosed>>
pipeVars   == <<pipe, got, reader>>
serverVars == <<remote, code, sent, lost>>
envVars    == <<closeVars, ctxEnded, serverVars>>   \* all but the fetch loop's own
vars       == <<cmdVars, fetchVars, closeVars, pipeVars, ctxEnded, serverVars, late>>

PCs == {"select", "check", "receiving", "write", "closeStderr", "closeStdout",
        "cancel", "closing", "finish", "returned"}

TypeOK ==
    /\ hasId \in BOOLEAN /\ err \in Errors
    /\ exitCode \in ExitCodes \cup {0, EofCode}
    /\ cancelClosed \in BOOLEAN /\ done \in BOOLEAN
    /\ pc \in PCs /\ drain \in BOOLEAN /\ ctxSeen \in BOOLEAN
    /\ slurpErr \in Errors /\ closeWith \in Errors
    /\ fresh \subseteq Streams /\ final \in BOOLEAN
    /\ answerCode \in ExitCodes \cup {0}
    /\ closer \in [Callers -> {"idle", "select", "closing", "signal", "returned"}]
    /\ panicked \in BOOLEAN
    /\ pipe \in [Streams -> Errors \cup {"open"}]
    /\ got \in [Streams -> Seq(Nat)]
    /\ reader \in [Streams -> {"reading", "left", "ended"}]
    /\ ctxEnded \in BOOLEAN
    /\ remote \in {"running", "exited", "reported"} /\ code \in ExitCodes
    /\ sent \in [Streams -> 0..MaxChunks] /\ lost \in BOOLEAN
    /\ userClosed \in BOOLEAN /\ late \in Nat

(* newCommand: two open pipes, two open channels, and the loop starts.     *)
Init ==
    /\ hasId \in Ids /\ err = Nil /\ exitCode = 0
    /\ cancelClosed = FALSE /\ done = FALSE
    /\ pc = "select" /\ drain = FALSE /\ ctxSeen = FALSE
    /\ slurpErr = Nil /\ closeWith = Nil
    /\ fresh = {} /\ final = FALSE /\ answerCode = 0
    /\ closer = [t \in Callers |-> "idle"] /\ panicked = FALSE
    /\ pipe = [s \in Streams |-> "open"]
    /\ got = [s \in Streams |-> <<>>]
    /\ reader = [s \in Streams |-> "reading"]
    /\ ctxEnded = FALSE
    /\ remote = "running" /\ code \in ExitCodes
    /\ sent = [s \in Streams |-> 0] /\ lost = FALSE
    /\ userClosed = FALSE /\ late = 0

-----------------------------------------------------------------------------
(* The select of fetchOutput.  A ready case is taken, either one when both *)
(* are ready; the default only when none is.                               *)

ContextReady == ctxEnded /\ ~ctxSeen

\* Fault: the loop polls although cancel is closed.
NothingReady_Deaf == ~ContextReady

NothingReady == ~cancelClosed /\ ~ContextReady

SelectCancel ==
    /\ pc = "select" /\ cancelClosed
    /\ pc' = "check" /\ drain' = TRUE
    /\ UNCHANGED <<cmdVars, ctxSeen, slurpVars, pipeVars, late, envVars>>

SelectContext ==
    /\ pc = "select" /\ ContextReady
    /\ pc' = "closing" /\ ctxSeen' = TRUE /\ err' = Context
    /\ UNCHANGED <<hasId, exitCode, cancelClosed, done, drain, slurpVars,
                   pipeVars, late, envVars>>

SelectDefault ==
    /\ pc = "select" /\ NothingReady
    /\ pc' = "check"
    /\ UNCHANGED <<cmdVars, drain, ctxSeen, slurpVars, pipeVars, late, envVars>>

\* The Close of the ctxDone branch has returned; its error is dropped.
ContextClosed ==
    /\ pc = "closing" /\ closer[Fetch] = "returned"
    /\ pc' = "select"
    /\ UNCHANGED <<cmdVars, drain, ctxSeen, slurpVars, pipeVars, late, envVars>>

-----------------------------------------------------------------------------
(* slurpAllOutput: one Receive, and what its answer makes the loop do.     *)

\* Fault: the pipes are left open.
SlurpEnds_Open(e) == pc' = "finish" /\ slurpErr' = e /\ closeWith' = e

\* slurpAllOutput returns (true, e): first the pipes are closed with e, Nil for EOF.
SlurpEnds(e) == pc' = "closeStderr" /\ slurpErr' = e /\ closeWith' = e

\* Fault: the last poll goes back to the select.
SlurpUnfinished_Loops == pc' = "select"

\* Fault: the cancel branch leaves the pipes as they are.
SlurpUnfinished_Skips == pc' = IF drain THEN "finish" ELSE "select"

\* slurpAllOutput returns (false, _): poll again, or give up if cancelled.
SlurpUnfinished == pc' = IF drain THEN "cancel" ELSE "select"

CheckFails ==
    /\ pc = "check" /\ ~hasId
    /\ SlurpEnds(NoId)
    /\ UNCHANGED <<cmdVars, drain, ctxSeen, answerVars, pipeVars, late, envVars>>

PostReceive ==
    /\ pc = "check" /\ hasId
    /\ pc' = "receiving"
    /\ UNCHANGED <<cmdVars, drain, ctxSeen, slurpVars, pipeVars, late, envVars>>

\* A Receive has been answered (or given up), while a Close had returned.
CountAnswer == late' = IF userClosed THEN late + 1 ELSE late

(* What the server may put in an answer: a chunk of each stream of `news', *)
(* and the exit code of a process that has exited.  Only the first Done    *)
(* has the exit code, later ones say 0 (command_test.go:118-120).          *)
Answer(news, fin) ==
    /\ news \subseteq {s \in Streams : sent[s] < MaxChunks /\ remote # "reported"}
    /\ fin => remote # "running"
    /\ sent' = [s \in Streams |-> IF s \in news THEN sent[s] + 1 ELSE sent[s]]
    /\ remote' = IF fin THEN "reported" ELSE remote

ReceiveOutput(news, fin) ==
    /\ pc = "receiving"
    /\ Answer(news, fin)
    /\ pc' = "write" /\ fresh' = news /\ final' = fin
    /\ answerCode' = IF remote = "exited" THEN code ELSE 0
    /\ CountAnswer
    /\ UNCHANGED <<cmdVars, drain, ctxSeen, slurpErr, closeWith, closeVars,
                   pipeVars, ctxEnded, code, lost>>

(* The answer is an OperationTimeout, or comes after the transport's own   *)
(* timeout and is never read: slurpAllOutput asks for a retry.             *)
ReceiveTimesOut(news, fin) ==
    /\ pc = "receiving"
    /\ Answer(news, fin)
    /\ IF news = {} /\ ~fin THEN UNCHANGED lost ELSE lost' = TRUE
    /\ SlurpUnfinished
    /\ CountAnswer
    /\ UNCHANGED <<cmdVars, drain, ctxSeen, slurpVars, closeVars, pipeVars,
                   ctxEnded, code>>

\* Fault: every failure sets an exit code.
CodeOfFailure_One(e) == IF e = Eof THEN EofCode ELSE 1

CodeOfFailure(e) == IF e = Eof THEN EofCode ELSE exitCode

ReceiveFails(e) ==
    /\ pc = "receiving" /\ e \in {Eof, Failed}
    /\ exitCode' = CodeOfFailure(e)
    /\ SlurpEnds(e)
    /\ CountAnswer
    /\ UNCHANGED <<hasId, err, cancelClosed, done, drain, ctxSeen, answerVars,
                   pipeVars, envVars>>

\* Fault: the chunk is written twice.
Deliver_Twice(s) == got' = [got EXCEPT ![s] = @ \o <<sent[s], sent[s]>>]

Deliver(s) == got' = [got EXCEPT ![s] = Append(@, sent[s])]

(* A chunk goes through the pipe: PipeWriter.Write and the reader's Read   *)
(* meet.  Stdout is written first; Write blocks while nobody reads.        *)
WriteChunk(s) ==
    /\ pc = "write" /\ s \in fresh
    /\ s = "stderr" => "stdout" \notin fresh
    /\ pipe[s] = "open" /\ reader[s] = "reading"
    /\ Deliver(s)
    /\ fresh' = fresh \ {s}
    /\ UNCHANGED <<cmdVars, pc, drain, ctxSeen, slurpErr, closeWith, final,
                   answerCode, pipe, reader, late, envVars>>

\* Fault: the pipes are closed before the output is written.
Written_Soon == TRUE

Written == fresh = {}

\* The answer said Done: keep the exit code and close the pipes.
SlurpDone ==
    /\ pc = "write" /\ Written /\ final
    /\ exitCode' = answerCode
    /\ SlurpEnds(Nil)
    /\ UNCHANGED <<hasId, err, cancelClosed, done, drain, ctxSeen, answerVars,
                   pipeVars, late, envVars>>

SlurpMore ==
    /\ pc = "write" /\ Written /\ ~final
    /\ SlurpUnfinished
    /\ UNCHANGED <<cmdVars, drain, ctxSeen, slurpVars, pipeVars, late, envVars>>

\* Fault: a later error replaces the first.
ClosePipe_Again(s) == pipe' = [pipe EXCEPT ![s] = closeWith]

\* CloseWithError keeps the first error a pipe is closed with.
ClosePipe(s) == pipe' = [pipe EXCEPT ![s] = IF @ = "open" THEN closeWith ELSE @]

CloseStderr ==
    /\ pc = "closeStderr"
    /\ ClosePipe("stderr")
    /\ pc' = "closeStdout"
    /\ UNCHANGED <<cmdVars, drain, ctxSeen, slurpVars, got, reader, late,
                   envVars>>

\* Fault: the loop polls on after the last answer.
AfterPipes_Loops == IF drain /\ closeWith # Canceled THEN "cancel" ELSE "select"

\* In the cancel branch the pipes are then closed again, with "canceled".
AfterPipes == IF drain /\ closeWith # Canceled THEN "cancel" ELSE "finish"

CloseStdout ==
    /\ pc = "closeStdout"
    /\ ClosePipe("stdout")
    /\ pc' = AfterPipes
    /\ UNCHANGED <<cmdVars, drain, ctxSeen, slurpVars, got, reader, late,
                   envVars>>

CancelPipes ==
    /\ pc = "cancel"
    /\ pc' = "closeStderr" /\ closeWith' = Canceled
    /\ UNCHANGED <<cmdVars, drain, ctxSeen, slurpErr, answerVars, pipeVars,
                   late, envVars>>

\* Fault: the error of slurpAllOutput is dropped.
FinalError_Dropped == err

\* Fault: the cancel branch sets the error too.
FinalError_Always == slurpErr

\* The cancel branch leaves command.err as it is.
FinalError == IF drain THEN err ELSE slurpErr

Finish ==
    /\ pc = "finish"
    /\ pc' = "returned" /\ done' = TRUE
    /\ err' = FinalError
    /\ UNCHANGED <<hasId, exitCode, cancelClosed, drain, ctxSeen, slurpVars,
                   pipeVars, late, envVars>>

-----------------------------------------------------------------------------
(* Command.Close, called by the user or by the fetch loop.  The test of    *)
(* cancel and its closing are two steps.                                   *)

CloserMoves(t, from, to) == closer[t] = from /\ closer' = [closer EXCEPT ![t] = to]
CloseUnchanged == UNCHANGED <<fetchVars, pipeVars, ctxEnded, late>>

\* A Close that returns: with the error of check, or with the answer to Signal.
CloseReturns(t, from) ==
    /\ CloserMoves(t, from, "returned")
    /\ IF t = Fetch THEN UNCHANGED userClosed ELSE userClosed' = TRUE

CloseBegins(t) ==
    /\ closer[t] = "idle" /\ (t = Fetch => pc = "closing")
    /\ IF hasId
       THEN CloserMoves(t, "idle", "select") /\ UNCHANGED userClosed
       ELSE CloseReturns(t, "idle")
    /\ CloseUnchanged
    /\ UNCHANGED <<cmdVars, panicked, serverVars>>

\* The user may call Close again once it has returned.
CloseAgain(t) ==
    /\ t \in Closers
    /\ CloserMoves(t, "returned", "idle")
    /\ CloseUnchanged
    /\ UNCHANGED <<cmdVars, panicked, userClosed, serverVars>>

AfterTest == IF cancelClosed THEN "signal" ELSE "closing"

CloseTests(t) ==
    /\ CloserMoves(t, "select", AfterTest)
    /\ CloseUnchanged
    /\ UNCHANGED <<cmdVars, panicked, userClosed, serverVars>>

\* close(c.cancel), which panics when another Close has been faster.
CloseCancel(t) ==
    /\ CloserMoves(t, "closing", "signal")
    /\ panicked' = cancelClosed
    /\ cancelClosed' = TRUE
    /\ CloseUnchanged
    /\ UNCHANGED <<hasId, err, exitCode, done, userClosed, serverVars>>

\* The Signal is posted and answered; it may or may not stop the process.
CloseSignals(t) ==
    /\ CloseReturns(t, "signal")
    /\ remote' \in {remote, IF remote = "running" THEN "exited" ELSE remote}
    /\ CloseUnchanged
    /\ UNCHANGED <<cmdVars, panicked, code, sent, lost>>

-----------------------------------------------------------------------------
(* The user's readers, the context and the remote process.                 *)

\* io.Copy, or the user, reads the error or EOF at the end of the stream.
ReaderEnds(s) ==
    /\ reader[s] = "reading" /\ pipe[s] # "open"
    /\ reader' = [reader EXCEPT ![s] = "ended"]
    /\ UNCHANGED <<cmdVars, fetchVars, pipe, got, late, envVars>>

\* The reader stops early: its destination fails, or it is not read at all.
ReaderLeaves(s) ==
    /\ s \in MayLeave /\ reader[s] = "reading"
    /\ reader' = [reader EXCEPT ![s] = "left"]
    /\ UNCHANGED <<cmdVars, fetchVars, pipe, got, late, envVars>>

ContextEnds ==
    /\ CtxMayEnd /\ ~ctxEnded
    /\ ctxEnded' = TRUE
    /\ UNCHANGED <<cmdVars, fetchVars, closeVars, pipeVars, serverVars, late>>

RemoteExits ==
    /\ remote = "running"
    /\ remote' = "exited"
    /\ UNCHANGED <<cmdVars, fetchVars, closeVars, pipeVars, ctxEnded, code,
                   sent, lost, late>>

-----------------------------------------------------------------------------
ReceiveAnswered ==
    \/ \E news \in SUBSET Streams, fin \in BOOLEAN :
          ReceiveOutput(news, fin) \/ ReceiveTimesOut(news, fin)
    \/ \E e \in {Eof, Failed} : ReceiveFails(e)

FetchStep ==
    \/ SelectCancel \/ SelectContext \/ SelectDefault \/ ContextClosed
    \/ CheckFails \/ PostReceive \/ ReceiveAnswered
    \/ SlurpDone \/ SlurpMore
    \/ CloseStderr \/ CloseStdout \/ CancelPipes \/ Finish

CloseStep(t) == CloseTests(t) \/ CloseCancel(t) \/ CloseSignals(t)

ReaderStep(s) == WriteChunk(s) \/ ReaderEnds(s)

\* Nothing is left to do: the command is over, or the process has panicked.
Terminated ==
    /\ panicked \/ (done /\ \A s \in Streams : reader[s] # "reading")
    /\ UNCHANGED vars

Next ==
    \/ /\ ~panicked
       /\ \/ FetchStep
          \/ \E t \in Callers : CloseBegins(t) \/ CloseStep(t) \/ CloseAgain(t)
          \/ \E s \in Streams : ReaderStep(s) \/ ReaderLeaves(s)
          \/ ContextEnds \/ RemoteExits
    \/ Terminated

Spec == Init /\ [][Next]_vars

(* Goroutines that can run do run, and every Post returns: the transports  *)
(* give up when no header comes within the endpoint's timeout (that a body *)
(* which has begun also ends is an assumption on the network).  Nothing    *)
(* obliges a user to call Close, a reader to leave, the context to end or  *)
(* the process to exit.                                                    *)
Running(A) == ~panicked /\ A
Fairness ==
    /\ WF_vars(Running(FetchStep))
    /\ \A t \in Callers : WF_vars(Running(CloseStep(t)))
    /\ WF_vars(Running(CloseBegins(Fetch)))
    /\ \A s \in Streams : WF_vars(Running(ReaderStep(s)))

\* The network does not lose every answer that says Done.
FairLink ==
    SF_vars(Running(\E news \in SUBSET Streams : ReceiveOutput(news, TRUE)))

FairSpec == Spec /\ Fairness
LinkSpec == FairSpec /\ FairLink

-----------------------------------------------------------------------------
(* Safety *)

\* Go-level safety of Close: the channel cancel is never closed twice
\* (command.go:121, "close cancel channel if it's still open").
ClosedOnce == ~panicked

\* Whatever the answers, each reader receives chunks in the order in which the
\* server sent them and no chunk twice, across retries and cancellation.
InOrder ==
    \A s \in Streams : \A i, j \in DOMAIN got[s] : i < j => got[s][i] < got[s][j]

\* A reader that gets EOF, and not an error, has the whole stream: the server
\* has said Done and every chunk it sent (and that was not lost on the way) has
\* been read.  The loop ignores the result of its writes, so this rests on the
\* order of writes and closes in slurpAllOutput.
CompleteAtEOF ==
    \A s \in Streams :
        reader[s] = "ended" /\ pipe[s] = Nil /\ ~lost =>
            remote = "reported" /\ got[s] = [i \in 1..sent[s] |-> i]

\* No chunk is ever written into a closed pipe, where it would vanish.
NothingDiscarded == pc = "write" => \A s \in Streams : pipe[s] = "open"

\* After Wait returns no reader can hang: both pipes are closed, and what the
\* user may look at (error, exit code, pipes) is settled.
PipesClosedWhenDone == done => \A s \in Streams : pipe[s] # "open"

\* A result that says nothing went wrong is right: when the command is over
\* with a nil error, and nobody had closed it, the process has exited, with
\* that exit code, and both streams end in EOF.
HonestSuccess ==
    done /\ err = Nil /\ ~cancelClosed =>
        /\ remote = "reported"
        /\ \A s \in Streams : pipe[s] = Nil
        /\ ~lost => exitCode = code

\* Once the loop has noticed the end of the context, that is the error of the
\* command for good: neither a Close by the user nor the last poll changes it.
ContextErrorKept == ctxSeen /\ hasId => err = Context

\* After a Close has returned, at most two more Receives are answered: one that
\* was under way (or about to be posted) and the last poll.  The test of Close,
\* command_test.go:166-179, lets the loop drain one and fails at a second, which
\* is right only if the one under way is answered before Close returns.
FewLateReceives == late <= 2

\* The loop is told to stop before the server is asked to: whenever a Signal
\* may be under way the channel cancel is closed, so a lost Signal is harmless.
CancelBeforeSignal ==
    \A t \in Callers : closer[t] = "signal" => cancelClosed

-----------------------------------------------------------------------------
(* The inductive invariant behind the safety properties.                   *)

Polling == {"select", "check", "receiving", "write", "closing"}
Leaving == {"closeStderr", "closeStdout", "cancel", "finish", "returned"}

\* A Close that has got past the channel has found it closed or closed it.
CancelInv ==
    /\ hasId => \A t \in Callers : closer[t] \in {"signal", "returned"} => cancelClosed
    /\ \A t \in Callers : closer[t] \in {"select", "closing", "signal"} => hasId
    /\ userClosed /\ hasId => cancelClosed
    /\ drain => cancelClosed /\ pc \notin {"select", "closing"}
    /\ pc \in {"receiving", "write"} => hasId

PipeInv ==
    /\ pc \in Polling => pipe["stdout"] = "open" /\ pipe["stderr"] = "open"
    /\ pc \in {"closeStdout", "finish", "returned"} => pipe["stderr"] # "open"
    /\ pc \in {"finish", "returned"} => pipe["stdout"] # "open"
    /\ done => pc = "returned"

\* After the Close of the ctxDone branch only the cancel branch is left.
ContextInv ==
    ctxSeen /\ hasId =>
        /\ err = Context
        /\ pc # "closing" => cancelClosed /\ (pc = "select" \/ drain)

\* Answers still to come once cancel is closed.
Remaining == IF pc \in {"check", "receiving"}
             THEN IF drain THEN 1 ELSE 2
             ELSE IF pc \in Polling /\ ~drain THEN 1 ELSE 0
LateInv == (late > 0 => cancelClosed) /\ late + Remaining <= 2

ExitInv == exitCode # 0 => pc \in Leaving

\* What the loop has learnt from the server, and passes on to pipes and result.
ResultInv ==
    /\ pc \in Polling /\ ~(pc = "write" /\ final) /\ ~lost => remote # "reported"
    /\ pc = "write" /\ final => remote = "reported" /\ (~lost => answerCode = code)
    /\ ~drain /\ pc \in Leaving =>
          /\ pc # "cancel" /\ closeWith = slurpErr
          /\ slurpErr = Nil => remote = "reported" /\ (~lost => exitCode = code)
          /\ pipe["stderr"] = IF pc = "closeStderr" THEN "open" ELSE slurpErr
          /\ pipe["stdout"] = IF pc \in {"closeStderr", "closeStdout"}
                             THEN "open" ELSE slurpErr
          /\ pc = "returned" => err = slurpErr

\* Both pipes end alike, and with EOF only after the server has said Done.
EndInv ==
    /\ IF pipe["stdout"] = "open"
       THEN pipe["stderr"] = "open" \/ (pc = "closeStdout" /\ pipe["stderr"] = closeWith)
       ELSE pipe["stderr"] = pipe["stdout"]
    /\ pc \in {"closeStderr", "closeStdout"} /\ closeWith = Nil => remote = "reported"
    /\ \A s \in Streams : pipe[s] = Nil => remote = "reported"
    /\ \A s \in Streams : reader[s] = "ended" => pipe[s] # "open"

\* Of the chunks in the answers so far only those of the last one may still be on
\* their way to the readers.
Passed(s) == IF s \in fresh THEN sent[s] - 1 ELSE sent[s]
OutputInv ==
    /\ fresh # {} => pc = "write"
    /\ InOrder
    /\ \A s \in Streams :
          /\ s \in fresh => sent[s] > 0
          /\ \A i \in DOMAIN got[s] : got[s][i] <= Passed(s)
          /\ ~lost => Len(got[s]) = Passed(s) /\ \A i \in DOMAIN got[s] : got[s][i] = i

IInv ==
    /\ TypeOK /\ CancelInv /\ PipeInv /\ ContextInv /\ LateInv /\ ExitInv /\ ResultInv
    /\ EndInv /\ OutputInv

-----------------------------------------------------------------------------
(* What a step may never do *)

\* An exit code other than 0 is never replaced: the loop that has read Done
\* polls no more (command_test.go:97-128), and EOF ends it.
ExitCodeSettles == [][exitCode # 0 => exitCode' = exitCode]_vars

\* The end a reader sees of a stream is decided once, and the result of a
\* command that is done never changes.
ResultSettles ==
    [][/\ \A s \in Streams : pipe[s] # "open" => pipe'[s] = pipe[s]
       /\ done => <<err, exitCode, done>>' = <<err, exitCode, done>>]_vars

-----------------------------------------------------------------------------
(* Liveness *)

\* The loop is stuck in the write of a chunk for a stream that nobody reads any
\* more (command_test.go:158, "the writes to these are blocking").
BlockedWrite ==
    /\ pc = "write" /\ fresh # {}
    /\ reader[IF "stdout" \in fresh THEN "stdout" ELSE "stderr"] = "left"

\* A command that is cancelled, by Close or by its context, ends, even if the
\* server never says Done; only a blocked write can keep it from ending.
CancelEnds == (cancelClosed \/ ctxEnded) ~> (done \/ panicked \/ BlockedWrite)

\* client.go:198, "If the context is canceled, the command on the remote
\* machine is canceled": a Signal is posted, unless the command is over.
ContextCancelsRemote ==
    ctxEnded ~> (done \/ panicked \/ userClosed \/ closer[Fetch] = "returned")

\* Once the process has exited the command ends, and so do its readers, unless a
\* write is blocked.
ExitEnds ==
    (remote # "running") ~>
        \/ panicked \/ BlockedWrite
        \/ done /\ \A s \in Streams : reader[s] # "reading"

-----------------------------------------------------------------------------
(* The abstract view *)

Promise == INSTANCE CommandPromise WITH
    Codes   <- ExitCodes \cup {0, EofCode},
    end     <- pipe,
    chunks  <- got,
    stopped <- cancelClosed,
    result  <- [err  |-> IF done THEN err ELSE "pending",
                code |-> IF done THEN exitCode ELSE 0]

\* The code keeps what a Command promises: order, one end for both streams, and
\* a result that is nil exactly when they end in EOF, unless it was stopped.
Promised == Promise!Spec
=============================================================================
