-------------------------------- MODULE Run --------------------------------
(***************************************************************************)
(* Client.RunWithContextWithInput of client.go: open a shell, execute one  *)
(* command in it, copy its three streams in goroutines of their own, wait  *)
(* for the command and for the copies, close the command and the shell.    *)
(* The command, its fetch loop, its pipes and the copies of stdout and     *)
(* stderr (which are the readers of the pipes) are those of Command; the   *)
(* only user goroutine that calls Close is this one, Main.                 *)
(***************************************************************************)
EXTENDS Command

CONSTANT Main     \* the goroutine that called Run

ASSUME MainAssumption == Closers = {Main}

VARIABLES
    main,     \* where Main is
    shell,    \* the shell on the server: "none", "open" or "deleted"
    orphan,   \* the answer that made, or should have deleted, it was lost
    input,    \* the stdin goroutine: "none", "copying", "closing" or "ended"
    ret       \* what Run returns: exit code and error

runVars == <<main, shell, orphan, input, ret>>
allVars == <<vars, runVars>>

RunTypeOK ==
    /\ TypeOK
    /\ main \in {"create", "execute", "wait", "copies", "close", "delete", "returned"}
    /\ shell \in {"none", "open", "deleted"} /\ orphan \in BOOLEAN
    /\ input \in {"none", "copying", "closing", "ended"}
    /\ ret \in [code : ExitCodes \cup {0, 1, EofCode}, err : Errors]

RunInit ==
    /\ Init
    /\ main = "create" /\ shell = "none" /\ orphan = FALSE
    /\ input = "none" /\ ret = [code |-> 0, err |-> Nil]

\* newCommand has been called, and has started the fetch loop.
Started == input # "none"

-----------------------------------------------------------------------------
CreateShell ==
    /\ main = "create"
    /\ main' = "execute" /\ shell' = "open"
    /\ UNCHANGED <<vars, orphan, input, ret>>

\* Fault: an exit code of its own for a shell that fails.
Failure_Code == [code |-> 2, err |-> Failed]

\* What Run returns when Create or Command fails.
Failure == [code |-> 1, err |-> Failed]

\* The request or its answer is lost, or the answer is a fault.
CreateFails ==
    /\ main = "create"
    /\ main' = "returned" /\ ret' = Failure
    /\ \/ UNCHANGED <<shell, orphan>>
       \/ shell' = "open" /\ orphan' = TRUE
    /\ UNCHANGED <<vars, input>>

\* The goroutine for stdin ends at once when there is no stdin.
Execute ==
    /\ main = "execute"
    /\ main' = "wait" /\ input' \in {"copying", "ended"}
    /\ UNCHANGED <<vars, shell, orphan, ret>>

\* Fault: the shell is not deleted.
ExecuteFails_Leaks ==
    /\ main = "execute"
    /\ main' = "returned" /\ ret' = Failure
    /\ UNCHANGED <<vars, shell, orphan, input>>

\* The deferred shell.Close still runs.
ExecuteFails ==
    /\ main = "execute"
    /\ main' = "delete" /\ ret' = Failure
    /\ UNCHANGED <<vars, shell, orphan, input>>

\* io.Copy ends: stdin is at its end, or a Send has failed.
InputEnds ==
    /\ input = "copying" /\ input' = "closing"
    /\ UNCHANGED <<vars, main, shell, orphan, ret>>

\* The deferred cmd.Stdin.Close has posted its Send; its error is dropped.
InputClosed ==
    /\ input = "closing" /\ input' = "ended"
    /\ UNCHANGED <<vars, main, shell, orphan, ret>>

\* Fault: Wait does not wait.
WaitReturns_Early ==
    /\ main = "wait"
    /\ main' = "copies"
    /\ UNCHANGED <<vars, shell, orphan, input, ret>>

WaitReturns ==
    /\ main = "wait" /\ done
    /\ main' = "copies"
    /\ UNCHANGED <<vars, shell, orphan, input, ret>>

\* Fault: a copy that failed is never counted.
CopiesDone_All == input = "ended" /\ \A s \in Streams : reader[s] = "ended"

CopiesDone == input = "ended" /\ \A s \in Streams : reader[s] # "reading"

\* Fault: the copies are not waited for.
WaitGroupReturns_Early ==
    /\ main = "copies"
    /\ main' = "close"
    /\ UNCHANGED <<vars, shell, orphan, input, ret>>

WaitGroupReturns ==
    /\ main = "copies" /\ CopiesDone
    /\ main' = "close"
    /\ UNCHANGED <<vars, shell, orphan, input, ret>>

\* Fault: the error of the command is dropped.
CommandClosed_Nil ==
    /\ main = "close" /\ closer[Main] = "returned"
    /\ main' = "delete" /\ ret' = [code |-> exitCode, err |-> Nil]
    /\ UNCHANGED <<vars, shell, orphan, input>>

\* cmd.Close has returned, and the results are read.
CommandClosed ==
    /\ main = "close" /\ closer[Main] = "returned"
    /\ main' = "delete" /\ ret' = [code |-> exitCode, err |-> err]
    /\ UNCHANGED <<vars, shell, orphan, input>>

\* The deferred shell.Close; its error is dropped.
DeleteShell ==
    /\ main = "delete"
    /\ main' = "returned"
    /\ \/ shell' = "deleted" /\ UNCHANGED orphan
       \/ orphan' = TRUE /\ UNCHANGED shell
    /\ UNCHANGED <<vars, input, ret>>

MainStep ==
    \/ CreateShell \/ CreateFails \/ Execute \/ ExecuteFails
    \/ WaitReturns \/ WaitGroupReturns \/ CommandClosed \/ DeleteShell

\* What Main, the fetch loop, the readers and the server do to the command.
CommandStep ==
    /\ \/ FetchStep
       \/ CloseBegins(Fetch)
       \/ main = "close" /\ CloseBegins(Main)
       \/ \E t \in Callers : CloseStep(t)
       \/ \E s \in Streams : ReaderStep(s) \/ ReaderLeaves(s)
       \/ RemoteExits
    /\ Started
    /\ UNCHANGED runVars

RunOver == main = "returned" \/ panicked

RunNext ==
    \/ ~panicked /\ (MainStep \/ CommandStep \/ InputEnds \/ InputClosed)
    \/ ~panicked /\ ContextEnds /\ UNCHANGED runVars
    \/ RunOver /\ UNCHANGED allVars

RunSpec == RunInit /\ [][RunNext]_allVars

\* As for Command: what can run does, and every Post returns.  Nothing makes
\* the user's stdin end.
OfCommand(A) == Running(Started /\ A /\ UNCHANGED runVars)
RunFairness ==
    /\ WF_allVars(Running(MainStep)) /\ WF_allVars(Running(InputClosed))
    /\ WF_allVars(OfCommand(main = "close" /\ CloseBegins(Main)))
    /\ WF_allVars(OfCommand(CloseBegins(Fetch)))
    /\ WF_allVars(OfCommand(FetchStep))
    /\ \A t \in Callers : WF_allVars(OfCommand(CloseStep(t)))
    /\ \A s \in Streams : WF_allVars(OfCommand(ReaderStep(s)))

RunFairSpec == RunSpec /\ RunFairness

-----------------------------------------------------------------------------
\* Nothing that Run has started outlives it, and the shell is not deleted
\* under a command: before Delete is posted the fetch loop, the three copies
\* and every Close have ended.
QuietBeforeDelete ==
    main \in {"delete", "returned"} /\ Started =>
        /\ pc = "returned" /\ CopiesDone
        /\ \A t \in Callers : closer[t] \in {"idle", "returned"}

\* A shell that Run has opened does not stay open on the server, on any path,
\* unless an answer to Create or Delete is lost.
NoShellLeft == main = "returned" /\ ~orphan => shell # "open"

\* When Run returns no error the process has exited with the code returned,
\* and a destination that took everything has all the output.
HonestReturn ==
    main = "returned" /\ ret.err = Nil =>
        /\ remote = "reported"
        /\ ~lost => /\ ret.code = code
                    /\ \A s \in Streams : reader[s] = "ended" =>
                           got[s] = [i \in 1..sent[s] |-> i]

-----------------------------------------------------------------------------
(* The inductive invariant behind them, on top of Command's.               *)

\* The two who may close the command do not meet: the fetch loop does so when the
\* context ends, and Main when the fetch loop is over.  So only the context can
\* cancel a command that runs, and cancel is closed once.
CloserInv ==
    /\ closer[Fetch] \in {"select", "closing", "signal"} => pc = "closing"
    /\ closer[Fetch] # "idle" \/ pc = "closing" => ctxSeen
    /\ closer[Main] # "idle" => done
    /\ cancelClosed => hasId /\ \E t \in Callers : closer[t] # "idle"
    /\ drain => ctxSeen /\ hasId
    /\ \A t \in Callers : closer[t] = "closing" => ~cancelClosed
    /\ ClosedOnce

\* What Main has behind it: the command is over, the copies are, its own Close is,
\* and the results are what the command has left.
MainInv ==
    /\ main \in {"create", "execute"} => ~Started
    /\ main \in {"wait", "copies", "close"} => Started
    /\ main = "create" => shell = "none"
    /\ closer[Main] # "idle" => main \in {"close", "delete", "returned"}
    /\ Started => CASE main \in {"create", "execute", "wait"} -> TRUE
                    [] main = "copies" -> done
                    [] main = "close"  -> done /\ CopiesDone
                    [] OTHER -> /\ done /\ CopiesDone /\ closer[Main] = "returned"
                                /\ ret = [code |-> exitCode, err |-> err]
    /\ main \in {"delete", "returned"} /\ ~Started => ret = Failure

RunIInv == IInv /\ RunTypeOK /\ CloserInv /\ MainInv /\ NoShellLeft

-----------------------------------------------------------------------------
\* When the context ends, Run returns; only the user's stdin can hold it back,
\* or, when a destination has failed, a chunk for it.
CancelReturns ==
    ctxEnded ~> (main = "returned" \/ input = "copying" \/ BlockedWrite)
=============================================================================
