------------------------------- MODULE Stdin -------------------------------
(***************************************************************************)
(* The standard input of a remote command: commandWriter of command.go.    *)
(* Goroutines call Write, WriteClose and Close; a mutex is held during     *)
(* Write and Close, which cut the data into Send requests.  WriteClose     *)
(* sets the flag eof before it takes the mutex.  A Send that fails may     *)
(* have reached the server; one that returns without an error may not      *)
(* have, unless the transport encrypts.  Each goroutine makes one call;    *)
(* what is sent is named by the goroutine and the offset of its first      *)
(* byte.                                                                   *)
(***************************************************************************)
EXTENDS Integers, Sequences, FiniteSetsExt

CONSTANTS
    Writers,       \* goroutines that use command.Stdin
    Lengths,       \* lengths of the data they write
    EnvelopeSizes, \* values of Parameters.EnvelopeSize, in bytes
    Modes          \* whether the transport is the encrypting one

Overhead == 1000   \* what Write keeps free in an envelope

ASSUME LengthsAssumption  == Lengths \subseteq Nat
\* NewParameters does not check the size.
ASSUME EnvelopeAssumption == EnvelopeSizes \subseteq Int
ASSUME TransportAssumption == Modes \subseteq BOOLEAN

VARIABLES
    EnvelopeSize,  \* of the client's Parameters
    encrypts,      \* useEncryption of the client's transport
    mutex,     \* the writer that holds w.mutex, in a set
    eof,       \* w.eof
    call,      \* the call of each writer: "write", "writeClose", "close" or "none"
    length,    \* len(data) of that call
    at,        \* where the writer is
    written,   \* bytes whose Send has returned no error
    result,    \* what the call returned: "ok", "closedPipe", "shortWrite", "failed",
               \* or that it panicked
    posted     \* the Sends so far: writer, offset, bytes, End attribute, and whether
               \* the server has got it

client == <<EnvelopeSize, encrypts>>
vars == <<client, mutex, eof, call, length, at, written, result, posted>>

Sends == [writer : Writers, offset : Nat, bytes : Nat, end : BOOLEAN, arrived : BOOLEAN]

TypeOK ==
    /\ EnvelopeSize \in EnvelopeSizes /\ encrypts \in Modes
    /\ mutex \in SUBSET Writers /\ eof \in BOOLEAN
    /\ call \in [Writers -> {"none", "write", "writeClose", "close"}]
    /\ length \in [Writers -> Nat]
    /\ at \in [Writers -> {"start", "lock", "locked", "sending", "returned"}]
    /\ written \in [Writers -> Nat]
    /\ result \in [Writers -> {"none", "ok", "closedPipe", "shortWrite", "failed", "panic"}]
    /\ posted \in Seq(Sends)

Init ==
    /\ EnvelopeSize \in EnvelopeSizes /\ encrypts \in Modes
    /\ mutex = {} /\ eof = FALSE
    /\ call = [w \in Writers |-> "none"]
    /\ length = [w \in Writers |-> 0]
    /\ at = [w \in Writers |-> "start"]
    /\ written = [w \in Writers |-> 0]
    /\ result = [w \in Writers |-> "none"]
    /\ posted = <<>>

Begin(w, c, n) ==
    /\ at[w] = "start"
    /\ at' = [at EXCEPT ![w] = "lock"]
    /\ call' = [call EXCEPT ![w] = c]
    /\ length' = [length EXCEPT ![w] = n]
    /\ UNCHANGED <<mutex, written, result, posted>>

BeginWrite(w, n) == Begin(w, "write", n) /\ UNCHANGED eof

\* Fault: Close marks the pipe before it takes the mutex.
BeginClose_Marks(w) == Begin(w, "close", 0) /\ eof' = TRUE

BeginClose(w) == Begin(w, "close", 0) /\ UNCHANGED eof

\* WriteClose marks the pipe closed, and then calls Write.
BeginWriteClose(w, n) == Begin(w, "writeClose", n) /\ eof' = TRUE

\* Fault: the mutex does not exclude.
Unlocked_Always == TRUE

Unlocked == mutex = {}

Lock(w) ==
    /\ at[w] = "lock" /\ Unlocked
    /\ mutex' = {w}
    /\ at' = [at EXCEPT ![w] = "locked"]
    /\ UNCHANGED <<eof, call, length, written, result, posted>>

\* Fault: the early return does not unlock.
Unlock_Late(w, r) == mutex' = IF r = "closedPipe" THEN mutex ELSE mutex \ {w}

Unlock(w, r) == mutex' = mutex \ {w}

\* The call returns r, and the deferred Unlock runs.
Return(w, r) ==
    /\ at' = [at EXCEPT ![w] = "returned"]
    /\ result' = [result EXCEPT ![w] = r]
    /\ Unlock(w, r)

FindClosed(w) ==
    /\ at[w] = "locked" /\ eof
    /\ Return(w, "closedPipe")
    /\ UNCHANGED <<eof, call, length, written, posted>>

\* Fault: Close does not set eof.
Marks_Nothing(w) == FALSE

\* Close sets eof, Write does not.
Marks(w) == call[w] = "close"

FindOpen(w) ==
    /\ at[w] = "locked" /\ ~eof
    /\ at' = [at EXCEPT ![w] = "sending"]
    /\ eof' = Marks(w)
    /\ UNCHANGED <<mutex, call, length, written, result, posted>>

\* The bytes of the next Send of a Write.
Chunk(w) == Min({EnvelopeSize - Overhead, length[w] - written[w]})

\* Fault: the slice ends where it should begin.
PostSend_Back(w, n, end, arrived) ==
    posted' = Append(posted, [writer |-> w, offset |-> written[w] - n, bytes |-> n,
                              end |-> end, arrived |-> arrived])

PostSend(w, n, end, arrived) ==
    posted' = Append(posted, [writer |-> w, offset |-> written[w], bytes |-> n,
                              end |-> end, arrived |-> arrived])

\* Whether a Send that returns no error has reached the server.  postEncrypted returns
\* none only for an answer that it has unsealed, which is the server's.  The others
\* return none for a proxy's page either (ntlm.go:337, kerberos.go:127), or for a
\* Send that the server refused (http.go:107).
Acknowledged == IF encrypts THEN {TRUE} ELSE BOOLEAN

\* What the loop of Write finds left to do.
Sending(w) == at[w] = "sending" /\ call[w] # "close" /\ written[w] < length[w]

\* An empty chunk tells the server nothing, and brings the loop no further.
SendChunk(w) ==
    /\ Sending(w) /\ Chunk(w) >= 0
    /\ IF Chunk(w) > 0 THEN \E arrived \in Acknowledged : PostSend(w, Chunk(w), FALSE, arrived)
       ELSE UNCHANGED posted
    /\ written' = [written EXCEPT ![w] = @ + Chunk(w)]
    /\ UNCHANGED <<mutex, eof, call, length, at, result>>

\* Fault: a chunk is counted before the error of its Send is looked at.
ChunkFails_Counted(w) ==
    /\ Sending(w) /\ Chunk(w) > 0
    /\ \E arrived \in BOOLEAN : PostSend(w, Chunk(w), FALSE, arrived)
    /\ written' = [written EXCEPT ![w] = @ + Chunk(w)]
    /\ Return(w, IF written'[w] < length[w] THEN "shortWrite" ELSE "ok")
    /\ UNCHANGED <<eof, call, length>>

\* The error of the Send is dropped, and the write is reported as short.
ChunkFails(w) ==
    /\ Sending(w) /\ Chunk(w) >= 0
    /\ IF Chunk(w) > 0 THEN \E arrived \in BOOLEAN : PostSend(w, Chunk(w), FALSE, arrived)
       ELSE UNCHANGED posted
    /\ Return(w, "shortWrite")
    /\ UNCHANGED <<eof, call, length, written>>

\* A slice with a negative bound; the deferred Unlock runs all the same.
ChunkPanics(w) ==
    /\ Sending(w) /\ Chunk(w) < 0
    /\ Return(w, "panic")
    /\ UNCHANGED <<eof, call, length, written, posted>>

WriteReturns(w) ==
    /\ at[w] = "sending" /\ call[w] # "close" /\ written[w] >= length[w]
    /\ Return(w, "ok")
    /\ UNCHANGED <<eof, call, length, written, posted>>

\* Close sends no data, with the End attribute.
SendEnd(w) ==
    /\ at[w] = "sending" /\ call[w] = "close"
    /\ \/ Return(w, "ok") /\ \E arrived \in Acknowledged : PostSend(w, 0, TRUE, arrived)
       \/ Return(w, "failed") /\ \E arrived \in BOOLEAN : PostSend(w, 0, TRUE, arrived)
    /\ UNCHANGED <<eof, call, length, written>>

Step(w) ==
    \/ Lock(w) \/ FindClosed(w) \/ FindOpen(w)
    \/ SendChunk(w) \/ ChunkFails(w) \/ ChunkPanics(w)
    \/ WriteReturns(w) \/ SendEnd(w)

Terminated == (\A w \in Writers : at[w] = "returned") /\ UNCHANGED vars

Next ==
    \/ /\ \E w \in Writers :
             \/ \E n \in Lengths : BeginWrite(w, n) \/ BeginWriteClose(w, n)
             \/ BeginClose(w)
             \/ Step(w)
       /\ UNCHANGED client
    \/ Terminated

Spec == Init /\ [][Next]_vars

\* Go's mutex is not biased against a waiting goroutine for ever, and every
\* Post returns.
FairSpec ==
    Spec /\ \A w \in Writers :
        SF_vars(Lock(w) /\ UNCHANGED client) /\ WF_vars(Step(w) /\ UNCHANGED client)

-----------------------------------------------------------------------------
\* The Sends of one Write are posted, one after the other, without those of
\* another call between them, each starting where the one before it ended.
WritesWhole ==
    \A i \in 2..Len(posted) :
        LET a == posted[i - 1]
            b == posted[i]
        IN  IF a.writer = b.writer THEN b.offset = a.offset + a.bytes
            ELSE b.offset = 0 /\ \A j \in 1..(i - 1) : posted[j].writer # b.writer

\* Nothing is sent after the end of the input.
EndIsLast == \A i \in 1..Len(posted) : posted[i].end => i = Len(posted)

Sent(w) == {i \in 1..Len(posted) : posted[i].writer = w}
SentBytes(w) == IF Sent(w) = {} THEN 0
                ELSE LET i == Max(Sent(w)) IN posted[i].offset + posted[i].bytes

\* What a Write reports is what it has sent: all of the data if it says "ok"; if it
\* says that the write was short, one chunk more than it counts at most, the one
\* whose Send returned an error.  And on the encrypting transport all that it counts
\* has reached the server.  (On the others it need not have: see Acknowledged.)
CountHonest ==
    \A w \in Writers : at[w] = "returned" /\ call[w] = "write" =>
        /\ result[w] = "ok" => written[w] = length[w] /\ SentBytes(w) = length[w]
        /\ result[w] = "shortWrite" =>
              /\ written[w] < length[w]
              /\ SentBytes(w) \in {written[w], written[w] + Chunk(w)}
        /\ encrypts => \A i \in Sent(w) :
              posted[i].offset + posted[i].bytes <= written[w] => posted[i].arrived

\* Among goroutines that only Write and Close, one of the Closes tells the
\* server about the end of the input, unless its Send fails; and where the transport
\* encrypts the server gets it.
EndArrives ==
    /\ \A w \in Writers : at[w] = "returned" /\ call[w] # "writeClose" /\ result[w] # "failed"
    /\ \E w \in Writers : call[w] = "close"
    => \E i \in 1..Len(posted) : posted[i].end /\ (encrypts => posted[i].arrived)

\* command.go:248, "Write data to this Pipe and mark EOF": a WriteClose that is
\* the only call so far leaves its data and the end of input with the server.
WriteCloseWrites ==
    \A w \in Writers :
        /\ at[w] = "returned" /\ call[w] = "writeClose" /\ result[w] # "shortWrite"
        /\ \A v \in Writers \ {w} : at[v] = "start"
        => SentBytes(w) = length[w] /\ \E i \in Sent(w) : posted[i].end

-----------------------------------------------------------------------------
(* The inductive invariant behind the safety properties.                   *)

Holding(w) == at[w] \in {"locked", "sending"}

\* One goroutine at most is past the mutex.
MutexInv == mutex = {w \in Writers : Holding(w)} /\ \A v, w \in mutex : v = w

\* The flag eof is set before the end is sent, and keeps everyone from sending
\* after it.  It tells of a call of WriteClose or of a Close.
EofInv ==
    /\ \A w \in Writers : call[w] = "close" /\ at[w] \in {"sending", "returned"} => eof
    /\ \A i \in 1..Len(posted) :
          posted[i].end => eof /\ i = Len(posted) /\ \A w \in Writers : at[w] # "sending"
    /\ eof => \/ \E i \in 1..Len(posted) : posted[i].end /\ (encrypts => posted[i].arrived)
              \/ \E w \in Writers :
                    \/ call[w] = "writeClose" /\ at[w] # "start"
                    \/ call[w] = "close" /\ at[w] = "sending"
                    \/ call[w] = "close" /\ at[w] = "returned" /\ result[w] = "failed"

\* What the writer that holds the mutex has sent is what it has counted, and was sent
\* last; those before the mutex have sent nothing.
SentInv ==
    \A w \in Writers :
        /\ at[w] \in {"start", "lock", "locked"} => Sent(w) = {} /\ written[w] = 0
        /\ at[w] = "sending" =>
              /\ SentBytes(w) = written[w]
              /\ Sent(w) # {} => call[w] # "close" /\ posted[Len(posted)].writer = w
        /\ written[w] <= length[w]

\* Only a Close sends the end.  And on the encrypting transport a chunk that has not
\* reached the server is the last of its Write, and not counted.
ArrivedInv ==
    \A i \in 1..Len(posted) :
        LET s == posted[i] IN
        /\ s.end => call[s.writer] = "close"
        /\ encrypts /\ ~s.end /\ ~s.arrived =>
              at[s.writer] = "returned" /\ s.offset + s.bytes > written[s.writer]

IInv == TypeOK /\ MutexInv /\ EofInv /\ SentInv /\ ArrivedInv /\ WritesWhole /\ CountHonest

-----------------------------------------------------------------------------
\* Every call returns: no order of calls leaves the mutex taken, nor does a panic.
\* Only where the envelope has no room at all does a Write send empty chunks for
\* ever (command.go:232), and keep the mutex.
CallsReturn ==
    \A w \in Writers :
        at[w] = "lock" ~> at[w] = "returned" \/ (EnvelopeSize = Overhead /\ \E v \in Writers : Sending(v))
=============================================================================
