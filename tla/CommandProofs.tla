--------------------------- MODULE CommandProofs ---------------------------
(* Proofs about Command, for any number of callers, chunks and exit codes. *)
EXTENDS Command, TLAPS

\* The errors the code can set are among those the types name.
LEMMA ErrorsTyped ==
    /\ {Nil, Context, NoId, Eof, Failed, Canceled} \subseteq Errors
    /\ "open" \notin Errors
    /\ Nil \notin {Context, NoId, Eof, Failed, Canceled}
BY DEF Errors, Nil, Context, NoId, Eof, Failed, Canceled

\* An answer adds at most one chunk to a stream that has chunks left.
LEMMA AnswerTyped ==
    ASSUME TypeOK, NEW news \in SUBSET Streams, NEW fin \in BOOLEAN, Answer(news, fin)
    PROVE  /\ sent' \in [Streams -> 0..MaxChunks]
           /\ remote' \in {"running", "exited", "reported"}
<1>1. \A s \in Streams : (IF s \in news THEN sent[s] + 1 ELSE sent[s]) \in 0..MaxChunks
  BY StreamsAssumption DEF TypeOK, Answer
<1> QED
  BY <1>1 DEF TypeOK, Answer

\* The two streams of a command.
LEMMA StreamNames == "stdout" \in Streams /\ "stderr" \in Streams
BY DEF Streams

\* Closing a pipe closes it, keeps the error of one that is closed already, and
\* leaves the other pipe alone.
LEMMA PipeClosed ==
    ASSUME TypeOK, NEW s \in Streams, ClosePipe(s)
    PROVE  /\ pipe' \in [Streams -> Errors \cup {"open"}]
           /\ pipe'[s] \in Errors
           /\ pipe'[s] = IF pipe[s] = "open" THEN closeWith ELSE pipe[s]
           /\ \A r \in Streams : pipe[r] # "open" \/ r # s => pipe'[r] = pipe[r]
<1>1. (IF pipe[s] = "open" THEN closeWith ELSE pipe[s]) \in Errors
  BY DEF TypeOK
<1>2. pipe' = [pipe EXCEPT ![s] = IF pipe[s] = "open" THEN closeWith ELSE pipe[s]]
  BY DEF ClosePipe
<1> QED
  BY <1>1, <1>2 DEF TypeOK

\* The types hold at the start.
LEMMA InitTyped == Init => TypeOK
<1> SUFFICES ASSUME Init PROVE TypeOK
  OBVIOUS
<1>1. got \in [Streams -> Seq(Nat)]
  BY DEF Init
<1>2. sent \in [Streams -> 0..MaxChunks]
  BY StreamsAssumption DEF Init
<1> QED
  BY <1>1, <1>2, IdsAssumption
  DEF Init, TypeOK, Streams, Callers, Errors, Nil, PCs

\* No step breaks a type.
LEMMA TypeStep == TypeOK /\ [Next]_vars => TypeOK'
<1> SUFFICES ASSUME TypeOK, [Next]_vars PROVE TypeOK'
  OBVIOUS
<1> USE DEF TypeOK
<1>1. CASE SelectCancel
  BY <1>1 DEF PCs, SelectCancel, cmdVars, slurpVars, answerVars, closeVars, envVars, pipeVars, serverVars
<1>2. CASE SelectContext
  BY <1>2, ErrorsTyped DEF PCs, SelectContext, slurpVars, answerVars, closeVars, envVars, pipeVars, serverVars
<1>3. CASE SelectDefault
  BY <1>3 DEF PCs, SelectDefault, NothingReady, cmdVars, slurpVars, answerVars, closeVars, envVars, pipeVars, serverVars
<1>4. CASE ContextClosed
  BY <1>4 DEF PCs, ContextClosed, cmdVars, slurpVars, answerVars, closeVars, envVars, pipeVars, serverVars
<1>5. CASE CheckFails
  BY <1>5, ErrorsTyped DEF PCs, CheckFails, SlurpEnds, answerVars, cmdVars, closeVars, envVars, pipeVars, serverVars
<1>6. CASE PostReceive
  BY <1>6 DEF PCs, PostReceive, cmdVars, slurpVars, answerVars, closeVars, envVars, pipeVars, serverVars
<1>7. ASSUME NEW news \in SUBSET Streams, NEW fin \in BOOLEAN, ReceiveOutput(news, fin)
      PROVE  TypeOK'
  <2>1. sent' \in [Streams -> 0..MaxChunks] /\ remote' \in {"running", "exited", "reported"}
    BY <1>7, AnswerTyped DEF ReceiveOutput
  <2>2. late' \in Nat
    BY <1>7 DEF ReceiveOutput, CountAnswer
  <2> QED
    BY <1>7, <2>1, <2>2 DEF PCs, ReceiveOutput, cmdVars, closeVars, envVars, pipeVars
<1>8. ASSUME NEW news \in SUBSET Streams, NEW fin \in BOOLEAN, ReceiveTimesOut(news, fin)
      PROVE  TypeOK'
  <2>1. sent' \in [Streams -> 0..MaxChunks] /\ remote' \in {"running", "exited", "reported"}
    BY <1>8, AnswerTyped DEF ReceiveTimesOut
  <2>2. late' \in Nat
    BY <1>8 DEF ReceiveTimesOut, CountAnswer
  <2>3. lost' \in BOOLEAN
    BY <1>8 DEF ReceiveTimesOut
  <2> QED
    BY <1>8, <2>1, <2>2, <2>3
    DEF PCs, ReceiveTimesOut, SlurpUnfinished, cmdVars, slurpVars, answerVars, closeVars, envVars, pipeVars
<1>9. ASSUME NEW e \in {Eof, Failed}, ReceiveFails(e)
      PROVE  TypeOK'
  BY <1>9, ErrorsTyped DEF PCs, ReceiveFails, SlurpEnds, answerVars, CodeOfFailure, CountAnswer, closeVars, envVars, pipeVars, serverVars
<1>10. CASE SlurpDone
  BY <1>10, ErrorsTyped DEF PCs, SlurpDone, SlurpEnds, answerVars, closeVars, envVars, pipeVars, serverVars
<1>11. CASE SlurpMore
  BY <1>11 DEF PCs, SlurpMore, SlurpUnfinished, cmdVars, slurpVars, answerVars, closeVars, envVars, pipeVars, serverVars
<1>12. CASE CloseStderr
  BY <1>12, PipeClosed, StreamNames DEF PCs, CloseStderr, cmdVars, slurpVars, answerVars, closeVars, envVars, serverVars
<1>13. CASE CloseStdout
  BY <1>13, PipeClosed, StreamNames DEF PCs, CloseStdout, AfterPipes, cmdVars, slurpVars, answerVars, closeVars, envVars, serverVars
<1>14. CASE CancelPipes
  BY <1>14, ErrorsTyped DEF PCs, CancelPipes, cmdVars, answerVars, closeVars, envVars, pipeVars, serverVars
<1>15. CASE Finish
  BY <1>15 DEF PCs, Finish, FinalError, slurpVars, answerVars, closeVars, envVars, pipeVars, serverVars
<1>16. ASSUME NEW t \in Callers, CloseBegins(t) PROVE TypeOK'
  <2>1. userClosed' \in BOOLEAN /\ closer' \in [Callers -> {"idle", "select", "closing", "signal", "returned"}]
    BY <1>16 DEF CloseBegins, CloserMoves, CloseReturns
  <2> QED
    BY <1>16, <2>1 DEF CloseBegins, CloseUnchanged, cmdVars, fetchVars, slurpVars, answerVars, pipeVars, serverVars
<1>17. ASSUME NEW t \in Callers, CloseTests(t) PROVE TypeOK'
  BY <1>17 DEF CloseTests, AfterTest, CloserMoves, CloseReturns, CloseUnchanged, cmdVars, fetchVars, slurpVars, answerVars, pipeVars, serverVars
<1>18. ASSUME NEW t \in Callers, CloseCancel(t) PROVE TypeOK'
  BY <1>18 DEF CloseCancel, CloserMoves, CloseUnchanged, fetchVars, slurpVars, answerVars, pipeVars, serverVars
<1>19. ASSUME NEW t \in Callers, CloseSignals(t) PROVE TypeOK'
  <2>1. userClosed' \in BOOLEAN /\ closer' \in [Callers -> {"idle", "select", "closing", "signal", "returned"}]
    BY <1>19 DEF CloseSignals, CloserMoves, CloseReturns
  <2>2. remote' \in {"running", "exited", "reported"}
    BY <1>19 DEF CloseSignals
  <2> QED
    BY <1>19, <2>1, <2>2 DEF CloseSignals, CloseUnchanged, cmdVars, fetchVars, slurpVars, answerVars, pipeVars, serverVars
<1>20. ASSUME NEW s \in Streams, WriteChunk(s) PROVE TypeOK'
  <2>1. sent[s] \in Nat
    BY <1>20, StreamsAssumption
  <2>2. got' \in [Streams -> Seq(Nat)]
    BY <1>20, <2>1 DEF WriteChunk, Deliver
  <2> QED
    BY <1>20, <2>2 DEF WriteChunk, Deliver, cmdVars, closeVars, envVars, serverVars
<1>21. ASSUME NEW s \in Streams, ReaderEnds(s) PROVE TypeOK'
  BY <1>21 DEF ReaderEnds, cmdVars, fetchVars, slurpVars, answerVars, closeVars, envVars, serverVars
<1>22. ASSUME NEW s \in Streams, ReaderLeaves(s) PROVE TypeOK'
  BY <1>22 DEF ReaderLeaves, cmdVars, fetchVars, slurpVars, answerVars, closeVars, envVars, serverVars
<1>23. CASE ContextEnds
  BY <1>23 DEF ContextEnds, cmdVars, fetchVars, slurpVars, answerVars, closeVars, envVars, pipeVars, serverVars
<1>24. CASE RemoteExits
  BY <1>24 DEF RemoteExits, cmdVars, fetchVars, slurpVars, answerVars, closeVars, envVars, pipeVars
<1>26. ASSUME NEW t \in Callers, CloseAgain(t) PROVE TypeOK'
  BY <1>26 DEF CloseAgain, CloserMoves, CloseUnchanged, cmdVars, fetchVars, slurpVars, answerVars, pipeVars, serverVars
<1>25. CASE UNCHANGED vars
  BY <1>25 DEF vars, cmdVars, fetchVars, slurpVars, answerVars, closeVars, envVars, pipeVars, serverVars
<1> QED
  BY <1>1, <1>2, <1>3, <1>4, <1>5, <1>6, <1>7, <1>8, <1>9, <1>10, <1>11, <1>12, <1>13,
     <1>14, <1>15, <1>16, <1>17, <1>18, <1>19, <1>20, <1>21, <1>22, <1>23, <1>24, <1>25, <1>26
  DEF Next, FetchStep, ReceiveAnswered, CloseStep, ReaderStep, Terminated

\* Every variable keeps its type, whatever the callers, the readers and the
\* server do.
THEOREM TypeCorrect == Spec => []TypeOK
<1>1. Init => TypeOK
  BY InitTyped
<1>2. TypeOK /\ [Next]_vars => TypeOK'
  BY TypeStep
<1> QED
  BY <1>1, <1>2, PTL DEF Spec

-----------------------------------------------------------------------------
\* A step that touches neither the chunks nor the pipes, and does not leave a
\* write that is under way, leaves the readers with what they had.
LEMMA OutputQuiet ==
    ASSUME OutputInv, UNCHANGED <<got, sent, fresh, lost>>, fresh # {} => pc' = "write"
    PROVE  OutputInv'
BY DEF OutputInv, InOrder, Passed

\* An answer puts the next chunk of some streams on its way; nothing was on its way
\* before.
LEMMA OutputAnswered ==
    ASSUME TypeOK, OutputInv, pc = "receiving", NEW news \in SUBSET Streams, NEW fin \in BOOLEAN,
           Answer(news, fin), got' = got,
           \/ fresh' = news /\ lost' = lost /\ pc' = "write"
           \/ fresh' = fresh /\ lost' = (IF news = {} /\ ~fin THEN lost ELSE TRUE)
    PROVE  OutputInv'
<1>1. fresh = {}
  BY DEF OutputInv
<1>2. \A s \in Streams : sent[s] \in Nat /\ sent'[s] = IF s \in news THEN sent[s] + 1 ELSE sent[s]
  BY StreamsAssumption DEF TypeOK, Answer
<1>3. \A s \in Streams : \A i \in DOMAIN got[s] : got[s][i] \in Nat /\ got[s][i] <= sent[s]
  BY <1>1 DEF OutputInv, Passed, TypeOK
<1>4. CASE fresh' = news /\ lost' = lost /\ pc' = "write"
  <2>1. \A s \in Streams : Passed(s)' = Passed(s)
    BY <1>1, <1>2, <1>4 DEF Passed
  <2> QED
    BY <1>1, <1>2, <1>4, <2>1 DEF OutputInv, InOrder
<1>5. CASE fresh' = fresh /\ lost' = (IF news = {} /\ ~fin THEN lost ELSE TRUE)
  <2>1. \A s \in Streams : Passed(s) = sent[s] /\ Passed(s)' = sent'[s]
    BY <1>1, <1>5 DEF Passed
  <2>2. ~lost' => \A s \in Streams : sent'[s] = sent[s] /\ ~lost
    BY <1>2, <1>5
  <2> QED
    BY <1>1, <1>2, <1>3, <1>5, <2>1, <2>2 DEF OutputInv, InOrder
<1> QED
  BY <1>4, <1>5

\* A chunk that goes through the pipe comes after all that its reader has.
LEMMA OutputDelivered ==
    ASSUME TypeOK, OutputInv, NEW s \in Streams, WriteChunk(s)
    PROVE  OutputInv'
<1>1. /\ pc = "write" /\ s \in fresh /\ fresh' = fresh \ {s} /\ pc' = pc
      /\ sent' = sent /\ lost' = lost
      /\ got' = [got EXCEPT ![s] = Append(got[s], sent[s])]
  BY DEF WriteChunk, Deliver, envVars, serverVars
<1>2. sent[s] \in Nat \ {0} /\ got[s] \in Seq(Nat)
  BY <1>1, StreamsAssumption DEF TypeOK, OutputInv
<1>3. \A i \in DOMAIN got[s] : got[s][i] \in Nat /\ got[s][i] <= sent[s] - 1
  BY <1>1, <1>2 DEF OutputInv, Passed
<1>4. /\ got'[s] = Append(got[s], sent[s])
      /\ \A r \in Streams \ {s} : got'[r] = got[r] /\ Passed(r)' = Passed(r)
      /\ Passed(s)' = sent[s]
  BY <1>1 DEF TypeOK, Passed
<1>5. /\ DOMAIN got'[s] = 1..(Len(got[s]) + 1) /\ Len(got'[s]) = Len(got[s]) + 1
      /\ Len(got[s]) \in Nat /\ DOMAIN got[s] = 1..Len(got[s])
      /\ \A i \in DOMAIN got[s] : got'[s][i] = got[s][i]
      /\ got'[s][Len(got[s]) + 1] = sent[s]
  BY <1>2, <1>4
<1>6. \A i, j \in DOMAIN got'[s] : i < j => got'[s][i] < got'[s][j]
  <2> SUFFICES ASSUME NEW i \in DOMAIN got'[s], NEW j \in DOMAIN got'[s], i < j
               PROVE  got'[s][i] < got'[s][j]
    OBVIOUS
  <2>1. CASE j = Len(got[s]) + 1
    <3>1. i \in DOMAIN got[s] /\ got'[s][i] = got[s][i] /\ got'[s][j] = sent[s]
      BY <1>5, <2>1
    <3>2. got[s][i] \in Nat /\ got[s][i] <= sent[s] - 1
      BY <1>3, <3>1
    <3> QED
      BY <1>2, <3>1, <3>2
  <2>2. CASE j # Len(got[s]) + 1
    <3>1. i \in DOMAIN got[s] /\ j \in DOMAIN got[s]
      BY <1>5, <2>2
    <3>2. got[s][i] < got[s][j]
      BY <3>1 DEF OutputInv, InOrder
    <3> QED
      BY <1>5, <3>1, <3>2
  <2> QED
    BY <2>1, <2>2
<1>7. \A i \in DOMAIN got'[s] : got'[s][i] <= sent[s]
  <2> TAKE i \in DOMAIN got'[s]
  <2>1. CASE i = Len(got[s]) + 1
    BY <1>2, <1>5, <2>1
  <2>2. CASE i \in DOMAIN got[s]
    <3>1. got'[s][i] = got[s][i]
      BY <1>5, <2>2
    <3>2. got[s][i] \in Nat /\ got[s][i] <= sent[s] - 1
      BY <1>3, <2>2
    <3> QED
      BY <1>2, <3>1, <3>2
  <2> QED
    BY <1>5, <2>1, <2>2
<1>8. ~lost => Len(got'[s]) = sent[s] /\ \A i \in DOMAIN got'[s] : got'[s][i] = i
  <2>1. ~lost => Len(got[s]) = sent[s] - 1 /\ \A i \in DOMAIN got[s] : got[s][i] = i
    BY <1>1 DEF OutputInv, Passed
  <2>2. ~lost => Len(got'[s]) = sent[s] /\ Len(got[s]) + 1 = sent[s]
    <3>1. sent[s] \in Nat /\ Len(got[s]) \in Nat /\ Len(got'[s]) = Len(got[s]) + 1
      BY <1>2, <1>5
    <3> QED
      BY <2>1, <3>1
  <2>3. ASSUME ~lost, NEW i \in DOMAIN got'[s] PROVE got'[s][i] = i
    <3>1. CASE i = Len(got[s]) + 1
      BY <1>5, <2>2, <2>3, <3>1
    <3>2. CASE i \in DOMAIN got[s]
      BY <1>5, <2>1, <2>3, <3>2
    <3> QED
      BY <1>5, <3>1, <3>2
  <2> QED
    BY <2>2, <2>3
<1>9. InOrder'
  BY <1>4, <1>6 DEF OutputInv, InOrder
<1> QED
  BY <1>1, <1>2, <1>4, <1>7, <1>8, <1>9 DEF OutputInv

\* Every step keeps what the readers have in order and, unless an answer was lost,
\* without gaps.
LEMMA OutputStep == TypeOK /\ OutputInv /\ [Next]_vars => OutputInv'
<1> SUFFICES ASSUME TypeOK, OutputInv, [Next]_vars PROVE OutputInv'
  OBVIOUS
<1>1. ASSUME NEW news \in SUBSET Streams, NEW fin \in BOOLEAN, ReceiveOutput(news, fin)
      PROVE  OutputInv'
  BY <1>1, OutputAnswered DEF ReceiveOutput, pipeVars
<1>2. ASSUME NEW news \in SUBSET Streams, NEW fin \in BOOLEAN, ReceiveTimesOut(news, fin)
      PROVE  OutputInv'
  BY <1>2, OutputAnswered DEF ReceiveTimesOut, pipeVars, slurpVars, answerVars
<1>3. ASSUME NEW s \in Streams, WriteChunk(s) PROVE OutputInv'
  BY <1>3, OutputDelivered
<1>4. CASE \/ SelectCancel \/ SelectContext \/ SelectDefault \/ ContextClosed \/ CheckFails \/ PostReceive
           \/ (\E e \in {Eof, Failed} : ReceiveFails(e))
           \/ SlurpDone \/ SlurpMore \/ CloseStderr \/ CloseStdout \/ CancelPipes \/ Finish
  <2>1. fresh = {} /\ UNCHANGED <<got, sent, fresh, lost>>
    BY <1>4 DEF OutputInv, SelectCancel, SelectContext, SelectDefault, ContextClosed, CheckFails,
       PostReceive, ReceiveFails, SlurpEnds, SlurpDone, SlurpMore, Written, CloseStderr, CloseStdout,
       CancelPipes, Finish, slurpVars, answerVars, pipeVars, envVars, serverVars
  <2> QED
    BY <2>1, OutputQuiet
<1>5. CASE \/ \E t \in Callers : CloseBegins(t) \/ CloseStep(t) \/ CloseAgain(t)
           \/ \E s \in Streams : ReaderEnds(s) \/ ReaderLeaves(s)
           \/ ContextEnds \/ RemoteExits \/ UNCHANGED vars
  <2>1. UNCHANGED <<got, sent, fresh, lost, pc>>
    BY <1>5 DEF CloseBegins, CloseStep, CloseTests, CloseCancel, CloseSignals, CloseAgain, CloseReturns,
       CloseUnchanged, ReaderEnds, ReaderLeaves, ContextEnds, RemoteExits, vars, fetchVars, slurpVars,
       answerVars, pipeVars, envVars, serverVars
  <2>2. fresh # {} => pc' = "write"
    BY <2>1 DEF OutputInv
  <2> QED
    BY <2>1, <2>2, OutputQuiet
<1> QED
  BY <1>1, <1>2, <1>3, <1>4, <1>5 DEF Next, FetchStep, ReceiveAnswered, ReaderStep, Terminated

\* Every step keeps the two pipes alike, and EOF for a process that has ended.
LEMMA EndStep == TypeOK /\ PipeInv /\ ResultInv /\ EndInv /\ [Next]_vars => EndInv'
<1> SUFFICES ASSUME TypeOK, PipeInv, ResultInv, EndInv, [Next]_vars PROVE EndInv'
  OBVIOUS
<1> USE DEF EndInv
<1>1. ASSUME NEW news \in SUBSET Streams, NEW fin \in BOOLEAN,
             ReceiveOutput(news, fin) \/ ReceiveTimesOut(news, fin)
      PROVE  EndInv'
  <2>1. UNCHANGED <<pipe, reader>> /\ pc = "receiving" /\ pc' \in {"write", "cancel", "select"}
        /\ (remote = "reported" => remote' = "reported")
    BY <1>1 DEF ReceiveOutput, ReceiveTimesOut, Answer, SlurpUnfinished, pipeVars
  <2> QED
    BY <2>1
<1>2. CASE \/ SelectCancel \/ SelectContext \/ SelectDefault \/ ContextClosed \/ PostReceive
           \/ SlurpMore \/ CancelPipes \/ Finish
  BY <1>2, ErrorsTyped DEF SelectCancel, SelectContext, SelectDefault, ContextClosed, PostReceive, SlurpMore,
     SlurpUnfinished, CancelPipes, Finish, slurpVars, pipeVars, envVars, serverVars
<1>3. CASE CheckFails \/ (\E e \in {Eof, Failed} : ReceiveFails(e)) \/ SlurpDone
  <2>1. /\ UNCHANGED <<pipe, reader, remote>> /\ pc \in {"check", "receiving", "write"}
        /\ pc' = "closeStderr" /\ (closeWith' = Nil => pc = "write" /\ final)
    BY <1>3, ErrorsTyped DEF CheckFails, ReceiveFails, SlurpDone, SlurpEnds, pipeVars, envVars, serverVars
  <2> QED
    BY <2>1 DEF ResultInv
<1>4. CASE CloseStderr
  BY <1>4, ErrorsTyped, PipeClosed, StreamNames
  DEF CloseStderr, TypeOK, Streams, slurpVars, envVars, serverVars
<1>5. CASE CloseStdout
  BY <1>5, ErrorsTyped, PipeClosed, StreamNames
  DEF CloseStdout, AfterPipes, TypeOK, PipeInv, Streams, slurpVars, envVars, serverVars
<1>6. ASSUME NEW s \in Streams, WriteChunk(s) \/ ReaderEnds(s) \/ ReaderLeaves(s) PROVE EndInv'
  <2>1. UNCHANGED <<pipe, pc, closeWith, remote>>
    BY <1>6 DEF WriteChunk, ReaderEnds, ReaderLeaves, fetchVars, slurpVars, envVars, serverVars
  <2>2. \A r \in Streams : reader'[r] = "ended" => pipe[r] # "open"
    BY <1>6 DEF WriteChunk, ReaderEnds, ReaderLeaves, TypeOK
  <2> QED
    BY <2>1, <2>2
<1>7. CASE \/ \E t \in Callers : CloseBegins(t) \/ CloseStep(t) \/ CloseAgain(t)
           \/ ContextEnds \/ RemoteExits \/ UNCHANGED vars
  <2>1. UNCHANGED <<pipe, reader, pc, closeWith>> /\ (remote = "reported" => remote' = "reported")
    BY <1>7 DEF CloseBegins, CloseStep, CloseTests, CloseCancel, CloseSignals, CloseAgain, CloseReturns,
       CloseUnchanged, ContextEnds, RemoteExits, vars, fetchVars, slurpVars, pipeVars, serverVars
  <2> QED
    BY <2>1
<1> QED
  BY <1>1, <1>2, <1>3, <1>4, <1>5, <1>6, <1>7 DEF Next, FetchStep, ReceiveAnswered, ReaderStep, Terminated

-----------------------------------------------------------------------------
\* The inductive invariant survives every step: each action may rely on the parts
\* that speak of its place in the loop.
LEMMA Inductive == IInv /\ [Next]_vars => IInv'
<1> SUFFICES ASSUME IInv, [Next]_vars PROVE IInv'
  OBVIOUS
<1> DEFINE Rest == CancelInv /\ PipeInv /\ ContextInv /\ LateInv /\ ExitInv /\ ResultInv
<1>0. TypeOK'
  BY TypeStep DEF IInv
<1>27. EndInv' /\ OutputInv'
  BY EndStep, OutputStep DEF IInv
<1> USE DEF IInv, TypeOK, CancelInv, PipeInv, ContextInv, LateInv, Remaining, ExitInv, ResultInv,
            Polling, Leaving
<1>1. ASSUME SelectCancel PROVE Rest'
  BY <1>0, <1>1 DEF SelectCancel, cmdVars, slurpVars, answerVars, closeVars, envVars, pipeVars, serverVars
<1>2. ASSUME SelectContext PROVE Rest'
  BY <1>0, <1>2 DEF SelectContext, slurpVars, answerVars, closeVars, envVars, pipeVars, serverVars
<1>3. ASSUME SelectDefault PROVE Rest'
  BY <1>0, <1>3 DEF SelectDefault, NothingReady, ContextReady, cmdVars, slurpVars, answerVars, closeVars, envVars, pipeVars, serverVars
<1>4. ASSUME ContextClosed PROVE Rest'
  BY <1>0, <1>4 DEF Callers, ContextClosed, cmdVars, slurpVars, answerVars, closeVars, envVars, pipeVars, serverVars
<1>5. ASSUME CheckFails PROVE Rest'
  BY <1>0, <1>5, ErrorsTyped DEF CheckFails, SlurpEnds, answerVars, cmdVars, closeVars, envVars, pipeVars, serverVars
<1>6. ASSUME PostReceive PROVE Rest'
  BY <1>0, <1>6 DEF PostReceive, cmdVars, slurpVars, answerVars, closeVars, envVars, pipeVars, serverVars
<1>7. ASSUME NEW news \in SUBSET Streams, NEW fin \in BOOLEAN, ReceiveOutput(news, fin) PROVE Rest'
  BY <1>0, <1>7 DEF Callers, ReceiveOutput, Answer, CountAnswer, cmdVars, closeVars, envVars, pipeVars
<1>8. ASSUME NEW news \in SUBSET Streams, NEW fin \in BOOLEAN, ReceiveTimesOut(news, fin) PROVE Rest'
  BY <1>0, <1>8 DEF Callers, ReceiveTimesOut, Answer, CountAnswer, SlurpUnfinished, cmdVars, slurpVars, answerVars, closeVars, envVars, pipeVars
<1>9. ASSUME NEW e \in {Eof, Failed}, ReceiveFails(e) PROVE Rest'
  BY <1>0, <1>9, ErrorsTyped DEF Callers, ReceiveFails, SlurpEnds, answerVars, CodeOfFailure, CountAnswer, closeVars, envVars, pipeVars, serverVars
<1>10. ASSUME SlurpDone PROVE Rest'
  BY <1>0, <1>10 DEF SlurpDone, SlurpEnds, answerVars, closeVars, envVars, pipeVars, serverVars
<1>11. ASSUME SlurpMore PROVE Rest'
  BY <1>0, <1>11 DEF SlurpMore, SlurpUnfinished, cmdVars, slurpVars, answerVars, closeVars, envVars, pipeVars, serverVars
<1>12. ASSUME CloseStderr PROVE Rest'
  BY <1>0, <1>12, ErrorsTyped, PipeClosed, StreamNames DEF CloseStderr, cmdVars, slurpVars, answerVars, closeVars, envVars, serverVars
<1>13. ASSUME CloseStdout PROVE Rest'
  BY <1>0, <1>13, ErrorsTyped, PipeClosed, StreamNames DEF CloseStdout, AfterPipes, cmdVars, slurpVars, answerVars, closeVars, envVars, serverVars
<1>14. ASSUME CancelPipes PROVE Rest'
  BY <1>0, <1>14 DEF CancelPipes, cmdVars, answerVars, closeVars, envVars, pipeVars, serverVars
<1>15. ASSUME Finish PROVE Rest'
  BY <1>0, <1>15 DEF Finish, FinalError, slurpVars, answerVars, closeVars, envVars, pipeVars, serverVars
<1>16. ASSUME NEW t \in Callers, CloseBegins(t) PROVE Rest'
  BY <1>0, <1>16 DEF CloseBegins, CloserMoves, CloseReturns, CloseUnchanged, cmdVars, fetchVars, slurpVars, answerVars, pipeVars, serverVars
<1>17. ASSUME NEW t \in Callers, CloseTests(t) PROVE Rest'
  BY <1>0, <1>17 DEF CloseTests, AfterTest, CloserMoves, CloseReturns, CloseUnchanged, cmdVars, fetchVars, slurpVars, answerVars, pipeVars, serverVars
<1>18. ASSUME NEW t \in Callers, CloseCancel(t) PROVE Rest'
  BY <1>0, <1>18 DEF CloseCancel, CloserMoves, CloseUnchanged, fetchVars, slurpVars, answerVars, pipeVars, serverVars
<1>19. ASSUME NEW t \in Callers, CloseSignals(t) PROVE Rest'
  BY <1>0, <1>19 DEF CloseSignals, CloserMoves, CloseReturns, CloseUnchanged, cmdVars, fetchVars, slurpVars, answerVars, pipeVars, serverVars
<1>20. ASSUME NEW s \in Streams, WriteChunk(s) PROVE Rest'
  BY <1>0, <1>20 DEF WriteChunk, Deliver, cmdVars, closeVars, envVars, serverVars
<1>21. ASSUME NEW s \in Streams, ReaderEnds(s) PROVE Rest'
  BY <1>0, <1>21 DEF ReaderEnds, cmdVars, fetchVars, slurpVars, answerVars, closeVars, envVars, serverVars
<1>22. ASSUME NEW s \in Streams, ReaderLeaves(s) PROVE Rest'
  BY <1>0, <1>22 DEF ReaderLeaves, cmdVars, fetchVars, slurpVars, answerVars, closeVars, envVars, serverVars
<1>23. ASSUME ContextEnds PROVE Rest'
  BY <1>0, <1>23 DEF ContextEnds, cmdVars, fetchVars, slurpVars, answerVars, closeVars, envVars, pipeVars, serverVars
<1>24. ASSUME RemoteExits PROVE Rest'
  BY <1>0, <1>24 DEF RemoteExits, cmdVars, fetchVars, slurpVars, answerVars, closeVars, envVars, pipeVars
<1>26. ASSUME NEW t \in Callers, CloseAgain(t) PROVE Rest'
  BY <1>0, <1>26 DEF CloseAgain, CloserMoves, CloseUnchanged, cmdVars, fetchVars, slurpVars, answerVars, pipeVars, serverVars
<1>25. ASSUME UNCHANGED vars PROVE Rest'
  BY <1>0, <1>25 DEF vars, cmdVars, fetchVars, slurpVars, answerVars, closeVars, envVars, pipeVars, serverVars
<1> QED
  BY <1>0, <1>1, <1>2, <1>3, <1>4, <1>5, <1>6, <1>7, <1>8, <1>9, <1>10, <1>11, <1>12, <1>13, <1>14, <1>15, <1>16, <1>17, <1>18, <1>19, <1>20, <1>21, <1>22, <1>23, <1>24, <1>25, <1>26, <1>27
  DEF Next, FetchStep, ReceiveAnswered, CloseStep, ReaderStep, Terminated

\* The inductive invariant holds in every reachable state.
THEOREM Invariance == Spec => []IInv
<1>1. Init => IInv
  <2> SUFFICES ASSUME Init PROVE IInv
    OBVIOUS
  <2>1. TypeOK
    BY InitTyped
  <2>2. CancelInv /\ PipeInv /\ ContextInv /\ LateInv /\ ExitInv /\ ResultInv
    BY StreamNames DEF Init, CancelInv, PipeInv, ContextInv, LateInv, Remaining, ExitInv,
       ResultInv, Polling, Leaving
  <2>3. EndInv /\ OutputInv
    BY StreamNames, ErrorsTyped DEF Init, EndInv, OutputInv, InOrder, Passed, Errors
  <2> QED
    BY <2>1, <2>2, <2>3 DEF IInv
<1> QED
  BY <1>1, Inductive, PTL DEF Spec

-----------------------------------------------------------------------------
\* After Wait has returned no reader can hang on an open pipe.
THEOREM ReadersFreed == Spec => []PipesClosedWhenDone
<1>1. IInv => PipesClosedWhenDone
  BY DEF IInv, PipeInv, PipesClosedWhenDone, Streams
<1> QED
  BY <1>1, Invariance, PTL

\* No chunk is written into a closed pipe.
THEOREM WritesArrive == Spec => []NothingDiscarded
<1>1. IInv => NothingDiscarded
  BY DEF IInv, PipeInv, NothingDiscarded, Streams, Polling
<1> QED
  BY <1>1, Invariance, PTL

\* A nil error of a command that nobody closed means that the process exited.
THEOREM SuccessIsHonest == Spec => []HonestSuccess
<1>1. IInv => HonestSuccess
  BY DEF IInv, TypeOK, CancelInv, PipeInv, ResultInv, HonestSuccess, Streams, Leaving
<1> QED
  BY <1>1, Invariance, PTL

\* The error of a context that has ended is the error of the command.
THEOREM ContextErrorStays == Spec => []ContextErrorKept
<1>1. IInv => ContextErrorKept
  BY DEF IInv, ContextInv, ContextErrorKept
<1> QED
  BY <1>1, Invariance, PTL

\* Whatever the number of goroutines that close the command, and however their
\* steps fall, at most two Receives are answered after the first has returned.
THEOREM PollingStops == Spec => []FewLateReceives
<1>1. IInv => FewLateReceives
  BY DEF IInv, TypeOK, LateInv, Remaining, FewLateReceives
<1> QED
  BY <1>1, Invariance, PTL

\* The fetch loop is told to stop before the server is asked to.
THEOREM CancelFirst == Spec => []CancelBeforeSignal
<1>1. IInv => CancelBeforeSignal
  BY DEF IInv, CancelInv, CancelBeforeSignal
<1> QED
  BY <1>1, Invariance, PTL

\* An exit code other than 0 is never replaced: only an EOF and a Done set it,
\* both are answers, and no answer comes once it has been set.
THEOREM ExitCodeStays == Spec => ExitCodeSettles
<1>1. IInv /\ [Next]_vars => [exitCode # 0 => exitCode' = exitCode]_vars
  <2> SUFFICES ASSUME IInv, [Next]_vars, exitCode # 0 PROVE exitCode' = exitCode
    OBVIOUS
  <2>1. pc \in Leaving
    BY DEF IInv, ExitInv
  <2>2. ASSUME NEW e \in {Eof, Failed}, ReceiveFails(e) PROVE FALSE
    BY <2>1, <2>2 DEF ReceiveFails, Leaving
  <2>3. ~SlurpDone
    BY <2>1 DEF SlurpDone, Leaving
  <2> QED
    BY <2>2, <2>3 DEF Next, FetchStep, ReceiveAnswered, CloseStep, ReaderStep, Terminated, vars,
       cmdVars, SelectCancel, SelectContext, SelectDefault, ContextClosed, CheckFails, PostReceive,
       ReceiveOutput, ReceiveTimesOut, SlurpMore, CloseStderr, CloseStdout, CancelPipes, Finish,
       CloseBegins, CloseAgain, CloserMoves, CloseReturns, CloseUnchanged, CloseTests, CloseCancel, CloseSignals, WriteChunk, ReaderEnds, ReaderLeaves,
       ContextEnds, RemoteExits
<1> QED
  BY <1>1, Invariance, PTL DEF Spec, ExitCodeSettles

\* Each reader receives the chunks in the order in which the server sent them, and
\* none twice, for any number of chunks, answers that are late and Closes.
THEOREM ChunksInOrder == Spec => []InOrder
<1>1. IInv => InOrder
  BY DEF IInv, OutputInv
<1> QED
  BY <1>1, Invariance, PTL

\* At EOF nothing is on its way to the reader any more.
LEMMA WholeAtEOF == IInv => CompleteAtEOF
<1> SUFFICES ASSUME IInv, NEW s \in Streams, reader[s] = "ended", pipe[s] = Nil, ~lost
             PROVE  remote = "reported" /\ got[s] = [i \in 1..sent[s] |-> i]
  BY DEF CompleteAtEOF
<1>1. remote = "reported"
  BY DEF IInv, EndInv
<1>2. pc # "write"
  BY ErrorsTyped DEF IInv, PipeInv, Polling, Streams
<1>3. Len(got[s]) = sent[s] /\ \A i \in DOMAIN got[s] : got[s][i] = i
  BY <1>2 DEF IInv, OutputInv, Passed
<1>4. got[s] \in Seq(Nat)
  BY DEF IInv, TypeOK
<1> QED
  BY <1>1, <1>3, <1>4

\* A reader that gets EOF has the whole stream, unless an answer came too late.
THEOREM EOFMeansComplete == Spec => []CompleteAtEOF
BY WholeAtEOF, Invariance, PTL

\* A step changes a pipe only if it is open, the error of the command, once it is
\* done, not at all, nor its exit code.
LEMMA Settled ==
    ASSUME IInv, [Next]_vars
    PROVE  /\ \A s \in Streams : pipe[s] # "open" => pipe'[s] = pipe[s]
           /\ done => <<err, exitCode, done>>' = <<err, exitCode, done>>
<1>1. \A s \in Streams : pipe[s] # "open" => pipe'[s] = pipe[s]
  <2>1. CASE CloseStderr \/ CloseStdout
    BY <2>1, PipeClosed, StreamNames DEF CloseStderr, CloseStdout, IInv
  <2>2. CASE ~(CloseStderr \/ CloseStdout)
    BY <2>2 DEF Next, FetchStep, ReceiveAnswered, CloseStep, ReaderStep, Terminated, vars, pipeVars,
       SelectCancel, SelectContext, SelectDefault, ContextClosed, CheckFails, PostReceive,
       ReceiveOutput, ReceiveTimesOut, ReceiveFails, SlurpDone, SlurpMore, CancelPipes, Finish,
       CloseBegins, CloseAgain, CloseUnchanged, CloseTests, CloseCancel, CloseSignals,
       WriteChunk, ReaderEnds, ReaderLeaves, ContextEnds, RemoteExits
  <2> QED
    BY <2>1, <2>2
<1>2. ASSUME done PROVE <<err, exitCode, done>>' = <<err, exitCode, done>>
  <2>1. pc = "returned"
    BY <1>2 DEF IInv, PipeInv
  <2>2. ~SelectContext /\ ~SlurpDone /\ ~Finish /\ \A e \in {Eof, Failed} : ~ReceiveFails(e)
    BY <2>1 DEF SelectContext, SlurpDone, Finish, ReceiveFails
  <2> QED
    BY <2>2 DEF Next, FetchStep, ReceiveAnswered, CloseStep, ReaderStep, Terminated, vars, cmdVars,
       SelectCancel, SelectDefault, ContextClosed, CheckFails, PostReceive, ReceiveOutput,
       ReceiveTimesOut, SlurpMore, CloseStderr, CloseStdout, CancelPipes, CloseBegins, CloseAgain,
       CloseTests, CloseCancel, CloseSignals, WriteChunk, ReaderEnds, ReaderLeaves, ContextEnds, RemoteExits
<1> QED
  BY <1>1, <1>2

\* The end a reader sees of a stream is decided once, and a result is for good.
THEOREM ResultStays == Spec => ResultSettles
<1>1. IInv /\ [Next]_vars =>
        [/\ \A s \in Streams : pipe[s] # "open" => pipe'[s] = pipe[s]
         /\ done => <<err, exitCode, done>>' = <<err, exitCode, done>>]_vars
  BY Settled
<1> QED
  BY <1>1, Invariance, PTL DEF Spec, ResultSettles

-----------------------------------------------------------------------------
(* Command implements CommandPromise.  Four kinds of steps show in the     *)
(* abstract view: a chunk arrives, a pipe is closed, cancel is closed, and *)
(* the loop ends.  All others are stutters.                                *)

\* What the abstract view depends on.
View == <<pipe, got, cancelClosed, done, err, exitCode>>

\* A chunk that is written arrives.
LEMMA ChunkArrives ==
    ASSUME IInv, NEW s \in Streams, WriteChunk(s)
    PROVE  Promise!Arrive(s)
<1>1. /\ s \in fresh /\ pipe[s] = "open"
      /\ got' = [got EXCEPT ![s] = Append(got[s], sent[s])]
      /\ UNCHANGED <<pipe, cancelClosed, done, err, exitCode>>
  BY DEF WriteChunk, Deliver, cmdVars
<1>2. got[s] \in Seq(Nat) /\ sent[s] \in Nat
  BY StreamsAssumption DEF IInv, TypeOK
<1>3. \A i \in DOMAIN got[s] : got[s][i] \in Nat /\ got[s][i] <= sent[s] - 1
  BY <1>1, <1>2 DEF IInv, OutputInv, Passed
<1>4. got'[s] = Append(got[s], sent[s]) /\ \A r \in Streams \ {s} : got'[r] = got[r]
  BY <1>1 DEF IInv, TypeOK
<1>5. /\ Len(got'[s]) = Len(got[s]) + 1
      /\ \A i \in DOMAIN got[s] :
            got'[s][i] = got[s][i] /\ got[s][i] < got'[s][Len(got'[s])]
  BY <1>2, <1>3, <1>4
<1> QED
  BY <1>1, <1>4, <1>5 DEF Promise!Arrive

\* A pipe that is closed ends its stream, unless it was closed before.
LEMMA PipeEnds ==
    ASSUME IInv, CloseStderr \/ CloseStdout
    PROVE  (\E s \in Streams : Promise!EndStream(s)) \/ UNCHANGED View
<1>1. PICK s \in Streams : ClosePipe(s)
  BY StreamNames DEF CloseStderr, CloseStdout
<1>2. UNCHANGED <<got, cancelClosed, done, err, exitCode>> /\ closeWith \in Errors
  BY DEF CloseStderr, CloseStdout, cmdVars, IInv, TypeOK
<1>3. CASE pipe[s] = "open"
  <2>1. pipe' = [pipe EXCEPT ![s] = closeWith]
    BY <1>1, <1>3 DEF ClosePipe
  <2>2. Promise!EndStream(s)
    BY <1>2, <1>3, <2>1 DEF Promise!EndStream
  <2> QED
    BY <2>2
<1>4. CASE pipe[s] # "open"
  <2>1. pipe' = pipe
    BY <1>1, <1>4 DEF ClosePipe, IInv, TypeOK
  <2> QED
    BY <1>2, <2>1 DEF View
<1> QED
  BY <1>3, <1>4

\* The loop ends with both pipes closed alike and, unless the command was stopped,
\* with their error.
LEMMA ResultComes ==
    ASSUME IInv, Finish
    PROVE  Promise!Finish
<1> DEFINE last == pipe["stdout"]
<1>1. /\ ~done /\ done' /\ err' = FinalError
      /\ UNCHANGED <<pipe, got, cancelClosed, exitCode>>
  BY DEF Finish, IInv, PipeInv, pipeVars
<1>2. last \in Errors /\ \A s \in Streams : pipe[s] = last
  BY ErrorsTyped DEF Finish, IInv, TypeOK, PipeInv, EndInv, Streams
<1>3. err' \in Errors /\ exitCode' \in ExitCodes \cup {0, EofCode}
  BY <1>1 DEF FinalError, IInv, TypeOK
<1>4. cancelClosed \/ (err' = Nil <=> last = Nil)
  BY <1>1 DEF Finish, FinalError, IInv, TypeOK, CancelInv, ResultInv, Leaving
<1> QED
  BY <1>1, <1>2, <1>3, <1>4 DEF Promise!Finish, Promise!Pending

\* Every step is a step of the promise, or nothing that the user could see.
LEMMA PromiseStep ==
    ASSUME IInv, [Next]_vars
    PROVE  [Promise!Next]_(Promise!vars)
<1>1. CASE \E s \in Streams : WriteChunk(s)
  BY <1>1, ChunkArrives DEF Promise!Next
<1>2. CASE CloseStderr \/ CloseStdout
  BY <1>2, PipeEnds DEF Promise!Next, Promise!vars, View
<1>3. CASE Finish
  BY <1>3, ResultComes DEF Promise!Next
<1>4. ASSUME NEW t \in Callers, CloseCancel(t) PROVE Promise!Stop
  BY <1>4 DEF CloseCancel, CloseUnchanged, pipeVars, Promise!Stop
<1>5. ASSUME ~CloseStderr, ~CloseStdout, ~Finish, \A s \in Streams : ~WriteChunk(s),
             \A t \in Callers : ~CloseCancel(t)
      PROVE  UNCHANGED Promise!vars
  <2>1. UNCHANGED <<pipe, got, cancelClosed, done>>
    BY <1>5 DEF Next, FetchStep, ReceiveAnswered, CloseStep, ReaderStep, Terminated, vars, pipeVars, cmdVars,
       SelectCancel, SelectContext, SelectDefault, ContextClosed, CheckFails, PostReceive,
       ReceiveOutput, ReceiveTimesOut, ReceiveFails, SlurpDone, SlurpMore, CancelPipes,
       CloseBegins, CloseAgain, CloseUnchanged, CloseTests, CloseSignals,
       ReaderEnds, ReaderLeaves, ContextEnds, RemoteExits
  <2>2. done => UNCHANGED <<err, exitCode>>
    BY Settled
  <2> QED
    BY <2>1, <2>2 DEF Promise!vars
<1> QED
  BY <1>1, <1>2, <1>3, <1>4, <1>5 DEF Promise!Next

\* A Command keeps its promise to the user, for any callers, chunks and exit codes.
THEOREM KeepsPromise == Spec => Promised
<1>1. Init => Promise!Init
  BY DEF Init, Promise!Init, Promise!Pending
<1>2. IInv /\ [Next]_vars => [Promise!Next]_(Promise!vars)
  BY PromiseStep
<1> QED
  BY <1>1, <1>2, Invariance, PTL DEF Spec, Promised, Promise!Spec
=============================================================================
