----------------------------- MODULE RunProofs -----------------------------
(* Proofs about Run, on top of those about Command. *)
EXTENDS Run, CommandProofs

\* Main and the fetch loop are all who close the command.
LEMMA TwoCallers == Callers = {Main, Fetch} /\ Main # Fetch
BY MainAssumption, CallersAssumption DEF Callers

-----------------------------------------------------------------------------
(* The command of a Run is a Command. *)

\* What a step of Run does to the command is a step of Command, or none.
LEMMA CommandInRun == [RunNext]_allVars => [Next]_vars
<1> SUFFICES ASSUME [RunNext]_allVars PROVE [Next]_vars
  OBVIOUS
<1>1. CASE ~panicked /\ CommandStep
  BY <1>1, TwoCallers DEF CommandStep, Next
<1>2. CASE ~panicked /\ ContextEnds
  BY <1>2 DEF Next
<1>3. CASE MainStep \/ InputEnds \/ InputClosed
  BY <1>3 DEF MainStep, CreateShell, CreateFails, Execute, ExecuteFails, WaitReturns, WaitGroupReturns,
              CommandClosed, DeleteShell, InputEnds, InputClosed
<1>4. CASE UNCHANGED allVars
  BY <1>4 DEF allVars
<1> QED
  BY <1>1, <1>2, <1>3, <1>4 DEF RunNext

\* Run uses its command in ways that Command allows, so that all that is proved of
\* any command holds of the one in a Run.
THEOREM RunUsesCommand == RunSpec => Spec
<1>1. RunInit => Init
  BY DEF RunInit
<1> QED
  BY <1>1, CommandInRun, PTL DEF RunSpec, Spec

\* The command's inductive invariant, in a Run.
LEMMA CommandInvariance == RunSpec => []IInv
BY RunUsesCommand, Invariance, PTL

-----------------------------------------------------------------------------
(* Who closes the command, and when. *)

\* The steps that a command takes, or that are taken around it.
LEMMA StepKinds ==
    ASSUME [RunNext]_allVars
    PROVE  \/ UNCHANGED vars
           \/ ~panicked /\ ContextEnds /\ UNCHANGED runVars
           \/ ~panicked /\ CommandStep
BY DEF RunNext, MainStep, CreateShell, CreateFails, Execute, ExecuteFails, WaitReturns, WaitGroupReturns,
       CommandClosed, DeleteShell, InputEnds, InputClosed, allVars

\* The fetch loop waits for the Close it calls itself, leaves the others alone, and
\* takes the branch of cancel only when that is closed.
LEMMA FetchMoves ==
    ASSUME FetchStep
    PROVE  /\ UNCHANGED <<hasId, cancelClosed, closer, panicked, reader>> /\ pc # "returned"
           /\ pc = "closing" => closer[Fetch] = "returned"
           /\ ctxSeen \/ pc' = "closing" => ctxSeen'
           /\ drain' = drain \/ (cancelClosed /\ pc = "select" /\ ctxSeen' = ctxSeen)
           /\ done' = done \/ pc' = "returned"
<1> USE DEF cmdVars, pipeVars, envVars, closeVars
<1>1. CASE SelectCancel \/ SelectContext \/ SelectDefault \/ ContextClosed
  BY <1>1 DEF SelectCancel, SelectContext, SelectDefault, ContextClosed
<1>2. CASE CheckFails \/ PostReceive \/ SlurpDone \/ SlurpMore
  BY <1>2 DEF CheckFails, PostReceive, SlurpDone, SlurpMore, SlurpEnds, SlurpUnfinished
<1>3. CASE CloseStderr \/ CloseStdout \/ CancelPipes \/ Finish
  BY <1>3 DEF CloseStderr, CloseStdout, CancelPipes, Finish, AfterPipes
<1>4. CASE ReceiveAnswered
  BY <1>4 DEF ReceiveAnswered, ReceiveOutput, ReceiveTimesOut, ReceiveFails, SlurpEnds, SlurpUnfinished
<1> QED
  BY <1>1, <1>2, <1>3, <1>4 DEF FetchStep

\* The two who may close the command do not meet.
LEMMA CloserStep == IInv /\ CloserInv /\ MainInv /\ [RunNext]_allVars => CloserInv'
<1> SUFFICES ASSUME IInv, CloserInv, MainInv, [RunNext]_allVars PROVE CloserInv'
  OBVIOUS
<1>0. /\ closer \in [Callers -> {"idle", "select", "closing", "signal", "returned"}]
      /\ Main \in Callers /\ Fetch \in Callers /\ Main # Fetch
      /\ \A t \in Callers : t = Main \/ t = Fetch
      /\ done => pc = "returned"
  BY TwoCallers DEF IInv, TypeOK, PipeInv
<1>1. CASE UNCHANGED vars \/ ContextEnds
  BY <1>1 DEF CloserInv, ClosedOnce, vars, cmdVars, fetchVars, closeVars, ContextEnds
<1>2. CASE FetchStep
  <2>1. pc # "returned" /\ ~done /\ closer[Main] = "idle"
    BY <1>0, <1>2, FetchMoves DEF CloserInv
  <2>2. UNCHANGED <<hasId, cancelClosed, closer, panicked>>
    BY <1>2, FetchMoves
  <2>3. closer[Fetch] \in {"select", "closing", "signal"} => FALSE
    BY <1>2, FetchMoves DEF CloserInv
  <2>4. closer[Fetch] # "idle" \/ pc' = "closing" => ctxSeen'
    BY <1>2, FetchMoves DEF CloserInv
  <2>5. drain' => ctxSeen' /\ hasId
    <3>1. cancelClosed => ctxSeen /\ hasId
      BY <1>0, <2>1 DEF CloserInv
    <3> QED
      BY <1>2, <3>1, FetchMoves DEF CloserInv
  <2> QED
    BY <2>1, <2>2, <2>3, <2>4, <2>5 DEF CloserInv, ClosedOnce
<1>3. CASE (\E s \in Streams : ReaderStep(s) \/ ReaderLeaves(s)) \/ RemoteExits
  <2>1. UNCHANGED <<hasId, cancelClosed, closer, panicked, pc, ctxSeen, done, drain>>
    BY <1>3 DEF ReaderStep, WriteChunk, ReaderEnds, ReaderLeaves, RemoteExits, cmdVars, fetchVars, envVars, closeVars
  <2> QED
    BY <2>1 DEF CloserInv, ClosedOnce
<1>4. ASSUME NEW t \in Callers, CloseBegins(t), t = Main => main = "close" PROVE CloserInv'
  <2>1. /\ UNCHANGED <<hasId, cancelClosed, panicked, pc, ctxSeen, done, drain>>
        /\ closer[t] = "idle" /\ (t = Fetch => pc = "closing")
        /\ closer' = [closer EXCEPT ![t] = IF hasId THEN "select" ELSE "returned"]
    BY <1>4 DEF CloseBegins, CloserMoves, CloseReturns, CloseUnchanged, cmdVars, fetchVars
  <2>2. CASE t = Main
    <3>1. done /\ closer'[Fetch] = closer[Fetch] /\ closer'[Main] \in {"select", "returned"}
      BY <1>0, <1>4, <2>1, <2>2 DEF MainInv, RunTypeOK
    <3> QED
      BY <1>0, <2>1, <3>1 DEF CloserInv, ClosedOnce
  <2>3. CASE t = Fetch
    <3>1. pc = "closing" /\ closer'[Main] = closer[Main] /\ closer'[Fetch] \in {"select", "returned"}
      BY <1>0, <2>1, <2>3
    <3> QED
      BY <1>0, <2>1, <3>1 DEF CloserInv, ClosedOnce
  <2> QED
    BY <1>0, <2>2, <2>3
<1>5. ASSUME NEW t \in Callers, CloseStep(t) PROVE CloserInv'
  <2>0. UNCHANGED <<hasId, pc, ctxSeen, done, drain>>
    BY <1>5 DEF CloseStep, CloseTests, CloseCancel, CloseSignals, CloseUnchanged, cmdVars, fetchVars
  <2>1. closer[t] \in {"select", "closing", "signal"} /\ hasId
    BY <1>5 DEF CloseStep, CloseTests, CloseCancel, CloseSignals, CloseReturns, CloserMoves, IInv, CancelInv
  <2>2. CASE CloseTests(t) \/ CloseSignals(t)
    <3>1. /\ UNCHANGED <<cancelClosed, panicked>>
          /\ \/ closer' = [closer EXCEPT ![t] = AfterTest] /\ closer[t] = "select"
             \/ closer' = [closer EXCEPT ![t] = "returned"] /\ closer[t] = "signal"
      BY <2>2 DEF CloseTests, CloseSignals, CloseReturns, CloserMoves, cmdVars
    <3>2. AfterTest \in {"signal", "closing"} /\ (AfterTest = "closing" => ~cancelClosed)
      BY DEF AfterTest
    <3> QED
      BY <1>0, <2>0, <2>1, <3>1, <3>2 DEF CloserInv, ClosedOnce
  <2>3. CASE CloseCancel(t)
    <3>1. /\ closer[t] = "closing" /\ closer' = [closer EXCEPT ![t] = "signal"]
          /\ panicked' = cancelClosed /\ cancelClosed' = TRUE
      BY <2>3 DEF CloseCancel, CloserMoves
    <3>2. ~cancelClosed /\ \A u \in Callers \ {t} : closer[u] # "closing"
      BY <1>0, <3>1 DEF CloserInv
    <3> QED
      BY <1>0, <2>0, <2>1, <3>1, <3>2 DEF CloserInv, ClosedOnce
  <2> QED
    BY <1>5, <2>2, <2>3 DEF CloseStep
<1>6. CommandStep => \/ FetchStep \/ (\E s \in Streams : ReaderStep(s) \/ ReaderLeaves(s)) \/ RemoteExits
                     \/ \E t \in Callers : CloseStep(t) \/ (CloseBegins(t) /\ (t = Main => main = "close"))
  BY <1>0 DEF CommandStep
<1> QED
  BY <1>1, <1>2, <1>3, <1>4, <1>5, <1>6, StepKinds

-----------------------------------------------------------------------------
(* What Main has behind it. *)

\* A step of a Close moves nobody else, and touches neither the loop nor the pipes.
LEMMA CloseMoves ==
    ASSUME TypeOK, NEW t \in Callers, CloseBegins(t) \/ CloseStep(t)
    PROVE  /\ UNCHANGED <<hasId, err, exitCode, done, pc, ctxSeen, drain, pipe, got, reader>>
           /\ closer[t] # "returned" /\ (CloseStep(t) => closer[t] # "idle")
           /\ \A u \in Callers \ {t} : closer'[u] = closer[u]
<1>1. UNCHANGED <<hasId, err, exitCode, done, pc, ctxSeen, drain, pipe, got, reader>>
  BY DEF CloseStep, CloseTests, CloseCancel, CloseSignals, CloseBegins, CloseUnchanged,
         cmdVars, fetchVars, pipeVars
<1>2. closer[t] # "returned" /\ (CloseStep(t) => closer[t] # "idle")
  BY DEF CloseStep, CloseTests, CloseCancel, CloseSignals, CloseBegins, CloserMoves, CloseReturns
<1>3. \E to \in {"select", "closing", "signal", "returned"} : closer' = [closer EXCEPT ![t] = to]
  BY DEF CloseStep, CloseTests, CloseCancel, CloseSignals, CloseBegins, CloserMoves, CloseReturns, AfterTest
<1> QED
  BY <1>1, <1>2, <1>3 DEF TypeOK

\* What is done stays done: a command that is over, its results, a copy that has
\* ended, and a Close of Main that has returned.
LEMMA OverStays ==
    ASSUME IInv, CommandStep, done
    PROVE  /\ done' /\ UNCHANGED <<exitCode, err>>
           /\ \A s \in Streams : reader[s] # "reading" => reader'[s] = reader[s]
           /\ closer[Main] = "returned" => closer'[Main] = "returned"
<1>1. pc = "returned" /\ ~FetchStep
  BY FetchMoves DEF IInv, PipeInv
<1>2. CASE (\E s \in Streams : ReaderStep(s) \/ ReaderLeaves(s)) \/ RemoteExits
  BY <1>2 DEF ReaderStep, WriteChunk, ReaderEnds, ReaderLeaves, RemoteExits, IInv, TypeOK,
              cmdVars, pipeVars, envVars, closeVars
<1>3. ASSUME NEW t \in Callers, CloseBegins(t) \/ CloseStep(t)
      PROVE  /\ done' /\ UNCHANGED <<exitCode, err, reader>>
             /\ closer[Main] = "returned" => closer'[Main] = "returned"
  BY <1>3, CloseMoves, TwoCallers DEF IInv
<1> QED
  BY <1>1, <1>2, <1>3, TwoCallers DEF CommandStep

\* Main goes on only when what it waits for is over.
LEMMA MainInvStep == IInv /\ RunTypeOK /\ CloserInv /\ MainInv /\ [RunNext]_allVars => MainInv'
<1> SUFFICES ASSUME IInv, RunTypeOK, CloserInv, MainInv, [RunNext]_allVars PROVE MainInv'
  OBVIOUS
<1>1. CASE UNCHANGED vars
  <2>1. UNCHANGED <<closer, done, exitCode, err, reader>>
    BY <1>1 DEF vars, cmdVars, closeVars, pipeVars
  <2>2. CASE CreateShell \/ CreateFails \/ Execute \/ ExecuteFails
    BY <2>1, <2>2 DEF MainInv, CreateShell, CreateFails, Execute, ExecuteFails, Started, CopiesDone
  <2>3. CASE WaitReturns \/ WaitGroupReturns \/ CommandClosed \/ DeleteShell
    BY <2>1, <2>3 DEF MainInv, WaitReturns, WaitGroupReturns, CommandClosed, DeleteShell, Started, CopiesDone
  <2>4. CASE InputEnds \/ InputClosed
    BY <2>1, <2>4 DEF MainInv, InputEnds, InputClosed, Started, CopiesDone
  <2>5. CASE UNCHANGED runVars
    BY <2>1, <2>5 DEF MainInv, runVars, Started, CopiesDone
  <2> QED
    BY <1>1, <2>2, <2>3, <2>4, <2>5 DEF RunNext, MainStep, CommandStep, allVars
<1>2. CASE ContextEnds /\ UNCHANGED runVars
  BY <1>2 DEF ContextEnds, MainInv, runVars, Started, CopiesDone, cmdVars, closeVars, pipeVars
<1>3. CASE CommandStep
  <2>1. Started /\ UNCHANGED runVars /\ main \notin {"create", "execute"}
    BY <1>3 DEF CommandStep, MainInv
  <2>2. closer'[Main] # "idle" => closer[Main] # "idle" \/ main = "close"
    <3>1. CASE FetchStep
      BY <3>1, FetchMoves
    <3>2. CASE (\E s \in Streams : ReaderStep(s) \/ ReaderLeaves(s)) \/ RemoteExits
      BY <3>2 DEF ReaderStep, WriteChunk, ReaderEnds, ReaderLeaves, RemoteExits, envVars, closeVars
    <3>3. ASSUME NEW t \in Callers, CloseStep(t) \/ (CloseBegins(t) /\ (t = Main => main = "close"))
          PROVE  closer'[Main] # "idle" => closer[Main] # "idle" \/ main = "close"
      BY <3>3, CloseMoves, TwoCallers DEF IInv
    <3> QED
      BY <1>3, <3>1, <3>2, <3>3, TwoCallers DEF CommandStep
  <2>3. CASE done
    BY <1>3, <2>1, <2>2, <2>3, OverStays DEF MainInv, runVars, Started, CopiesDone
  <2>4. CASE ~done
    <3>1. main = "wait"
      BY <2>1, <2>4 DEF MainInv, RunTypeOK
    <3> QED
      BY <2>1, <2>2, <3>1 DEF MainInv, runVars, Started
  <2> QED
    BY <2>3, <2>4
<1> QED
  BY <1>1, <1>2, <1>3, StepKinds

-----------------------------------------------------------------------------
\* What Run returns is of its type, and so is the rest of its state.
LEMMA RunTypeStep == IInv /\ TypeOK' /\ RunTypeOK /\ [RunNext]_allVars => RunTypeOK'
<1> SUFFICES ASSUME IInv, TypeOK', RunTypeOK, [RunNext]_allVars PROVE RunTypeOK'
  OBVIOUS
<1> DEFINE Results == [code : ExitCodes \cup {0, 1, EofCode}, err : Errors]
<1>1. Failure \in Results /\ [code |-> exitCode, err |-> err] \in Results
  BY ErrorsTyped DEF Failure, IInv, TypeOK
<1>2. ret \in Results
  BY DEF RunTypeOK
<1> HIDE DEF Results
<1>3. ret' \in Results
  BY <1>1, <1>2 DEF RunNext, MainStep, CreateShell, CreateFails, Execute, ExecuteFails, WaitReturns,
     WaitGroupReturns, CommandClosed, DeleteShell, InputEnds, InputClosed, CommandStep, runVars, allVars
<1>4. /\ main' \in {"create", "execute", "wait", "copies", "close", "delete", "returned"}
      /\ shell' \in {"none", "open", "deleted"} /\ orphan' \in BOOLEAN
      /\ input' \in {"none", "copying", "closing", "ended"}
  BY DEF RunTypeOK, RunNext, MainStep, CreateShell, CreateFails, Execute, ExecuteFails, WaitReturns,
     WaitGroupReturns, CommandClosed, DeleteShell, InputEnds, InputClosed, CommandStep, runVars, allVars
<1> QED
  BY <1>3, <1>4 DEF RunTypeOK, Results

\* Whoever returns has deleted the shell, or never had one that it knew of.
LEMMA ShellStep == MainInv /\ NoShellLeft /\ [RunNext]_allVars => NoShellLeft'
BY DEF MainInv, NoShellLeft, RunNext, MainStep, CreateShell, CreateFails, Execute, ExecuteFails, WaitReturns,
   WaitGroupReturns, CommandClosed, DeleteShell, InputEnds, InputClosed, CommandStep, runVars, allVars

\* The inductive invariant holds in every reachable state of a Run.
THEOREM RunInvariance == RunSpec => []RunIInv
<1> DEFINE Rest == RunTypeOK /\ CloserInv /\ MainInv /\ NoShellLeft
<1>1. IInv /\ RunInit => Rest
  <2> SUFFICES ASSUME IInv, RunInit PROVE Rest
    OBVIOUS
  <2>1. RunTypeOK
    <3>1. [code |-> 0, err |-> Nil] \in [code : ExitCodes \cup {0, 1, EofCode}, err : Errors]
      BY ErrorsTyped
    <3> QED
      BY <3>1 DEF RunInit, RunTypeOK, IInv
  <2>2. CloserInv /\ MainInv
    BY TwoCallers DEF RunInit, Init, CloserInv, ClosedOnce, MainInv, Started
  <2> QED
    BY <2>1, <2>2 DEF RunInit, NoShellLeft
<1>2. IInv /\ IInv' /\ Rest /\ [RunNext]_allVars => Rest'
  <2>1. IInv' => TypeOK'
    BY DEF IInv
  <2> QED
    BY <2>1, CloserStep, MainInvStep, RunTypeStep, ShellStep
<1>3. RunIInv <=> IInv /\ Rest
  BY DEF RunIInv
<1> QED
  BY <1>1, <1>2, <1>3, CommandInvariance, PTL DEF RunSpec

-----------------------------------------------------------------------------
\* Every variable of Run keeps its type.
THEOREM RunTypeCorrect == RunSpec => []RunTypeOK
<1>1. RunIInv => RunTypeOK
  BY DEF RunIInv
<1> QED
  BY <1>1, RunInvariance, PTL

\* The channel cancel of a command that Run has started is closed at most once:
\* the two goroutines that call Close never meet in it.
THEOREM RunClosesOnce == RunSpec => []ClosedOnce
<1>1. RunIInv => ClosedOnce
  BY DEF RunIInv, CloserInv
<1> QED
  BY <1>1, RunInvariance, PTL

\* Before the shell is deleted the fetch loop, the copies and every Close of the
\* command have ended.
THEOREM RunIsQuiet == RunSpec => []QuietBeforeDelete
<1>1. RunIInv => QuietBeforeDelete
  <2> SUFFICES ASSUME RunIInv, main \in {"delete", "returned"}, Started
               PROVE  /\ pc = "returned" /\ CopiesDone
                      /\ \A t \in Callers : closer[t] \in {"idle", "returned"}
    BY DEF QuietBeforeDelete
  <2>1. done /\ CopiesDone /\ closer[Main] = "returned"
    BY DEF RunIInv, MainInv
  <2>2. pc = "returned"
    BY <2>1 DEF RunIInv, IInv, PipeInv
  <2>3. closer[Fetch] \in {"idle", "returned"}
    BY <2>2, TwoCallers DEF RunIInv, CloserInv, IInv, TypeOK
  <2> QED
    BY <2>1, <2>2, <2>3, TwoCallers
<1> QED
  BY <1>1, RunInvariance, PTL

\* No path of Run leaves its shell open on the server, unless an answer is lost.
THEOREM RunLeavesNoShell == RunSpec => []NoShellLeft
<1>1. RunIInv => NoShellLeft
  BY DEF RunIInv
<1> QED
  BY <1>1, RunInvariance, PTL

\* A Run that returns no error returns the exit code of a process that has exited,
\* with all of its output copied.
THEOREM RunIsHonest == RunSpec => []HonestReturn
<1>1. RunIInv => HonestReturn
  <2> SUFFICES ASSUME RunIInv, main = "returned", ret.err = Nil
               PROVE  /\ remote = "reported"
                      /\ ~lost => /\ ret.code = code
                                  /\ \A s \in Streams : reader[s] = "ended" =>
                                         got[s] = [i \in 1..sent[s] |-> i]
    BY DEF HonestReturn
  <2>1. Started
    BY ErrorsTyped DEF RunIInv, MainInv, Failure
  <2>2. done /\ ret = [code |-> exitCode, err |-> err]
    BY <2>1 DEF RunIInv, MainInv
  <2>3. err = Nil /\ ret.code = exitCode
    BY <2>2
  <2>4. pc = "returned" /\ ~drain
    BY <2>2, <2>3, ErrorsTyped DEF RunIInv, IInv, PipeInv, ContextInv, CloserInv
  <2>5. /\ slurpErr = Nil /\ remote = "reported" /\ (~lost => exitCode = code)
        /\ pipe["stderr"] = Nil /\ pipe["stdout"] = Nil
    BY <2>3, <2>4 DEF RunIInv, IInv, ResultInv, Leaving
  <2>6. CompleteAtEOF
    BY WholeAtEOF DEF RunIInv
  <2> QED
    BY <2>3, <2>5, <2>6 DEF CompleteAtEOF, Streams
<1> QED
  BY <1>1, RunInvariance, PTL
=============================================================================
