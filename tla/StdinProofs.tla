---------------------------- MODULE StdinProofs ----------------------------
(* Proofs about Stdin, for any goroutines, lengths and envelope sizes. *)
EXTENDS Stdin, WellFoundedInduction, TLAPS

(* Operators. *)

\* A chunk is no larger than the room in an envelope or the data left.
LEMMA ChunkBounds ==
    ASSUME TypeOK, NEW w \in Writers
    PROVE  /\ Chunk(w) \in Int
           /\ Chunk(w) <= EnvelopeSize - Overhead /\ Chunk(w) <= length[w] - written[w]
<1> DEFINE a == EnvelopeSize - Overhead
           b == length[w] - written[w]
<1>1. a \in Int /\ b \in Int
  BY EnvelopeAssumption DEF TypeOK, Overhead
<1> HIDE DEF a, b
<1>2. \E x \in {a, b} : \A y \in {a, b} : x =< y
  <2>1. CASE a =< b
    BY <1>1, <2>1
  <2>2. CASE ~(a =< b)
    BY <1>1, <2>2
  <2> QED
    BY <2>1, <2>2
<1>3. Min({a, b}) \in {a, b} /\ Min({a, b}) =< a /\ Min({a, b}) =< b
  BY <1>2 DEF Min
<1>4. Chunk(w) = Min({a, b})
  BY DEF Chunk, a, b
<1> QED
  BY <1>1, <1>3, <1>4 DEF a, b

\* The greatest of some numbers is the one that no other exceeds.
LEMMA MaxIs ==
    ASSUME NEW S \in SUBSET Nat, NEW m \in S, \A x \in S : x <= m
    PROVE  Max(S) = m
<1>1. \A x \in S : (\A y \in S : x >= y) => x = m
  OBVIOUS
<1>2. \E x \in S : \A y \in S : x >= y
  OBVIOUS
<1> QED
  BY <1>1, <1>2 DEF Max

\* Some numbers below a bound have a greatest one.
LEMMA MaxExists ==
    ASSUME NEW S \in SUBSET Nat, NEW n \in Nat, \A x \in S : x <= n, S # {}
    PROVE  \E m \in S : \A x \in S : m >= x
<1> DEFINE T == {k \in Nat : n - k \in S}
<1>1. PICK x \in S : TRUE
  OBVIOUS
<1>2. T \subseteq Nat /\ n - x \in T
  <2>1. n - x \in Nat /\ n - (n - x) = x
    OBVIOUS
  <2> QED
    BY <2>1
<1>3. PICK d \in T : \A y \in T : ~(<<y, d>> \in OpToRel(<, Nat))
  <2> HIDE DEF T
  <2> QED
    BY <1>2, WFMin, NatLessThanWellFounded
<1>4. \A y \in T : ~(y < d)
  BY <1>2, <1>3 DEF OpToRel
<1>5. ASSUME NEW y \in S PROVE n - d >= y
  <2>1. n - y \in Nat /\ n - (n - y) = y
    OBVIOUS
  <2>2. ~(n - y < d)
    BY <1>4, <2>1
  <2> QED
    BY <2>1, <2>2
<1> QED
  BY <1>5

-----------------------------------------------------------------------------
\* The types hold at the start.
LEMMA InitTyped == Init => TypeOK
<1> SUFFICES ASSUME Init PROVE TypeOK
  OBVIOUS
<1>1. posted \in Seq(Sends)
  BY DEF Init
<1> QED
  BY <1>1 DEF Init, TypeOK

\* What is sent is well typed.
LEMMA PostTyped ==
    ASSUME TypeOK, NEW w \in Writers, NEW n \in Nat, NEW end \in BOOLEAN, NEW arrived \in BOOLEAN,
           PostSend(w, n, end, arrived)
    PROVE  posted' \in Seq(Sends)
<1>1. [writer |-> w, offset |-> written[w], bytes |-> n, end |-> end, arrived |-> arrived] \in Sends
  BY DEF TypeOK, Sends
<1> QED
  BY <1>1 DEF TypeOK, PostSend

\* No step of a writer breaks a type.
LEMMA TypeStep == TypeOK /\ [Next]_vars => TypeOK'
<1> SUFFICES ASSUME TypeOK, [Next]_vars PROVE TypeOK'
  OBVIOUS
<1>1. CASE UNCHANGED vars
  BY <1>1 DEF TypeOK, vars, client
<1> SUFFICES ASSUME NEW w \in Writers, UNCHANGED EnvelopeSize, UNCHANGED encrypts,
                    (\E n \in Lengths : BeginWrite(w, n) \/ BeginWriteClose(w, n)) \/ BeginClose(w) \/ Step(w)
             PROVE  TypeOK'
  BY <1>1 DEF Next, Terminated, client
<1>2. ASSUME NEW n \in Lengths, BeginWrite(w, n) \/ BeginWriteClose(w, n) PROVE TypeOK'
  <2>1. PICK c \in {"write", "writeClose"} : Begin(w, c, n) /\ eof' \in BOOLEAN
    BY <1>2 DEF TypeOK, BeginWrite, BeginWriteClose
  <2>2. n \in Nat
    BY LengthsAssumption
  <2>3. /\ at' \in [Writers -> {"start", "lock", "locked", "sending", "returned"}]
        /\ call' \in [Writers -> {"none", "write", "writeClose", "close"}]
        /\ length' \in [Writers -> Nat] /\ UNCHANGED <<mutex, written, result, posted>>
    BY <2>1, <2>2 DEF TypeOK, Begin
  <2> QED
    BY <2>1, <2>3 DEF TypeOK
<1>3. CASE BeginClose(w)
  BY <1>3 DEF TypeOK, BeginClose, Begin
<1>4. CASE Lock(w)
  BY <1>4 DEF TypeOK, Lock
<1>5. CASE FindClosed(w) \/ WriteReturns(w) \/ ChunkPanics(w)
  BY <1>5 DEF TypeOK, FindClosed, WriteReturns, ChunkPanics, Return, Unlock
<1>6. CASE FindOpen(w)
  BY <1>6 DEF TypeOK, FindOpen, Marks
<1>7. CASE SendChunk(w)
  <2>1. Chunk(w) \in Nat
    BY <1>7, ChunkBounds DEF SendChunk
  <2>2. posted' \in Seq(Sends)
    BY <1>7, <2>1, PostTyped DEF SendChunk, Acknowledged, TypeOK
  <2>3. written' \in [Writers -> Nat]
    BY <1>7, <2>1 DEF SendChunk, TypeOK
  <2> QED
    BY <1>7, <2>2, <2>3 DEF SendChunk, TypeOK
<1>8. CASE ChunkFails(w)
  <2>0. Chunk(w) \in Nat
    BY <1>8, ChunkBounds DEF ChunkFails
  <2>1. posted' \in Seq(Sends)
    BY <1>8, <2>0, PostTyped DEF ChunkFails, TypeOK
  <2> QED
    BY <1>8, <2>1 DEF ChunkFails, Return, Unlock, TypeOK
<1>9. CASE SendEnd(w)
  <2>1. posted' \in Seq(Sends)
    BY <1>9, PostTyped DEF SendEnd, Acknowledged, TypeOK
  <2> QED
    BY <1>9, <2>1 DEF SendEnd, Return, Unlock, TypeOK
<1> QED
  BY <1>2, <1>3, <1>4, <1>5, <1>6, <1>7, <1>8, <1>9 DEF Step

\* Every variable keeps its type: a writer never counts a negative number of bytes,
\* whatever the size of the envelope.
THEOREM StdinTypeCorrect == Spec => []TypeOK
<1> QED
  BY InitTyped, TypeStep, PTL DEF Spec

-----------------------------------------------------------------------------
(* What has been sent. *)

\* The last of the Sends of a writer says how far it has come.
LEMMA SentTyped ==
    ASSUME TypeOK, NEW w \in Writers
    PROVE  /\ Sent(w) \in SUBSET (1..Len(posted)) /\ Len(posted) \in Nat
           /\ \A i \in Sent(w) : posted[i] \in Sends
           /\ Sent(w) # {} => Max(Sent(w)) \in Sent(w)
           /\ Len(posted) \in Sent(w) =>
                 SentBytes(w) = posted[Len(posted)].offset + posted[Len(posted)].bytes
<1>1. Len(posted) \in Nat /\ \A i \in 1..Len(posted) : posted[i] \in Sends
  BY DEF TypeOK
<1>2. Sent(w) \in SUBSET Nat /\ Sent(w) \in SUBSET (1..Len(posted)) /\ \A i \in Sent(w) : i <= Len(posted)
  BY <1>1 DEF Sent
<1>4. Sent(w) # {} => Max(Sent(w)) \in Sent(w)
  <2> HIDE DEF Sent
  <2> QED
    BY <1>1, <1>2, MaxExists DEF Max
<1>3. Len(posted) \in Sent(w) => Max(Sent(w)) = Len(posted)
  BY <1>2, MaxIs
<1> QED
  BY <1>1, <1>2, <1>3, <1>4 DEF Sent, SentBytes

\* A Send of w, of n bytes.
Posts(w, n, end) == \E arrived \in BOOLEAN : PostSend(w, n, end, arrived)

\* A Send of w is the last one, and leaves those of the others.
LEMMA Posted ==
    ASSUME TypeOK, NEW w \in Writers, NEW n \in Nat, NEW end \in BOOLEAN, Posts(w, n, end)
    PROVE  /\ Len(posted') = Len(posted) + 1
           /\ \A i \in 1..Len(posted) : posted'[i] = posted[i]
           /\ posted'[Len(posted) + 1].writer = w
           /\ posted'[Len(posted) + 1].offset = written[w]
           /\ posted'[Len(posted) + 1].bytes = n
           /\ posted'[Len(posted) + 1].end = end
           /\ SentBytes(w)' = written[w] + n
           /\ \A v \in Writers \ {w} : Sent(v)' = Sent(v) /\ SentBytes(v)' = SentBytes(v)
<1>1. Len(posted) \in Nat /\ posted \in Seq(Sends)
  BY DEF TypeOK
<1>2. /\ Len(posted') = Len(posted) + 1
      /\ \A i \in 1..Len(posted) : posted'[i] = posted[i]
      /\ posted'[Len(posted) + 1].writer = w
      /\ posted'[Len(posted) + 1].offset = written[w]
      /\ posted'[Len(posted) + 1].bytes = n
      /\ posted'[Len(posted) + 1].end = end
  <2>1. PICK arrived \in BOOLEAN : PostSend(w, n, end, arrived)
    BY DEF Posts
  <2>2. posted' = Append(posted, [writer |-> w, offset |-> written[w], bytes |-> n,
                                  end |-> end, arrived |-> arrived])
    BY <2>1 DEF PostSend
  <2> QED
    BY <1>1, <2>2
<1>3. \A v \in Writers : Sent(v)' = Sent(v) \cup (IF v = w THEN {Len(posted) + 1} ELSE {})
  BY <1>1, <1>2 DEF Sent
<1>4. SentBytes(w)' = written[w] + n
  <2>1. /\ Sent(w)' \in SUBSET Nat /\ Len(posted') \in Sent(w)'
        /\ \A i \in Sent(w)' : i <= Len(posted')
    BY <1>1, <1>2, <1>3 DEF Sent
  <2>2. Max(Sent(w)') = Len(posted')
    BY <2>1, MaxIs
  <2>3. SentBytes(w)' = posted'[Len(posted')].offset + posted'[Len(posted')].bytes
    BY <2>1, <2>2 DEF SentBytes
  <2> QED
    BY <1>2, <2>3
<1>5. ASSUME NEW v \in Writers \ {w} PROVE SentBytes(v)' = SentBytes(v)
  <2>1. Sent(v)' = Sent(v) /\ \A i \in Sent(v) : posted'[i] = posted[i]
    BY <1>2, <1>3 DEF Sent
  <2>2. Sent(v) # {} => Max(Sent(v)) \in Sent(v)
    BY SentTyped
  <2> QED
    BY <2>1, <2>2 DEF SentBytes
<1> QED
  BY <1>2, <1>3, <1>4, <1>5

-----------------------------------------------------------------------------
(* The mutex. *)

\* A writer takes the mutex when it moves past it, and releases it when it returns.
LEMMA MutexStep ==
    ASSUME TypeOK, MutexInv, NEW w \in Writers, Step(w), UNCHANGED client
    PROVE  MutexInv'
<1> USE DEF TypeOK, MutexInv, Holding
<1>1. CASE Lock(w)
  BY <1>1 DEF Lock, Unlocked
<1>2. CASE FindOpen(w) \/ SendChunk(w)
  BY <1>2 DEF FindOpen, SendChunk, Sending
<1>3. CASE FindClosed(w) \/ ChunkFails(w) \/ ChunkPanics(w) \/ WriteReturns(w) \/ SendEnd(w)
  <2>1. at[w] \in {"locked", "sending"} /\ at' = [at EXCEPT ![w] = "returned"] /\ mutex' = mutex \ {w}
    BY <1>3 DEF FindClosed, ChunkFails, ChunkPanics, WriteReturns, SendEnd, Sending, Return, Unlock
  <2> QED
    BY <2>1
<1> QED
  BY <1>1, <1>2, <1>3 DEF Step

\* A writer at its Sends is the only one past the mutex.
LEMMA Alone ==
    ASSUME TypeOK, MutexInv, NEW w \in Writers, at[w] = "sending"
    PROVE  \A v \in Writers \ {w} : at[v] \notin {"locked", "sending"}
BY DEF MutexInv, Holding

-----------------------------------------------------------------------------
(* The steps of one goroutine, from call to return. *)

WriterStep(w) ==
    /\ (\E n \in Lengths : BeginWrite(w, n) \/ BeginWriteClose(w, n)) \/ BeginClose(w) \/ Step(w)
    /\ UNCHANGED client

\* A call that begins touches nothing but the writer's own place, and eof if it is
\* a WriteClose.
LEMMA Begins ==
    ASSUME TypeOK, NEW w \in Writers,
           (\E n \in Lengths : BeginWrite(w, n) \/ BeginWriteClose(w, n)) \/ BeginClose(w)
    PROVE  /\ at[w] = "start" /\ at' = [at EXCEPT ![w] = "lock"]
           /\ \E c \in {"write", "writeClose", "close"} :
                 call' = [call EXCEPT ![w] = c] /\ eof' = (IF c = "writeClose" THEN TRUE ELSE eof)
           /\ \E n \in Nat : length' = [length EXCEPT ![w] = n]
           /\ UNCHANGED <<mutex, written, result, posted>>
BY LengthsAssumption DEF BeginWrite, BeginWriteClose, BeginClose, Begin

\* What has been sent stays as it is when nothing is sent.
LEMMA Unposted ==
    ASSUME UNCHANGED posted
    PROVE  \A v \in Writers : Sent(v)' = Sent(v) /\ SentBytes(v)' = SentBytes(v)
BY DEF Sent, SentBytes

\* A step sends nothing, or is that of a writer at its Sends, who sends once.
LEMMA OneSend ==
    ASSUME TypeOK, NEW w \in Writers, WriterStep(w), ~UNCHANGED posted
    PROVE  /\ at[w] = "sending" /\ (SendChunk(w) \/ ChunkFails(w) \/ SendEnd(w))
           /\ \E n \in Nat, end \in BOOLEAN : Posts(w, n, end)
<1>1. SendChunk(w) \/ ChunkFails(w) \/ SendEnd(w)
  BY Begins DEF WriterStep, Step, Lock, FindClosed, FindOpen, ChunkPanics, WriteReturns
<1>2. at[w] = "sending"
  BY <1>1 DEF SendChunk, ChunkFails, SendEnd, Sending
<1>3. Posts(w, 0, TRUE) \/ (Posts(w, Chunk(w), FALSE) /\ Chunk(w) >= 0)
  BY <1>1 DEF SendChunk, ChunkFails, SendEnd, Posts, Acknowledged
<1>4. CASE Posts(w, 0, TRUE)
  BY <1>1, <1>2, <1>4
<1>5. CASE Posts(w, Chunk(w), FALSE) /\ Chunk(w) >= 0
  <2>1. Chunk(w) \in Nat
    BY <1>5, ChunkBounds
  <2> QED
    BY <1>1, <1>2, <1>5, <2>1
<1> QED
  BY <1>3, <1>4, <1>5

\* What the others have sent, and what they count, stays.
LEMMA OthersKept ==
    ASSUME TypeOK, NEW w \in Writers, WriterStep(w), NEW v \in Writers \ {w}
    PROVE  /\ at'[v] = at[v] /\ call'[v] = call[v] /\ length'[v] = length[v]
           /\ written'[v] = written[v] /\ result'[v] = result[v] /\ Chunk(v)' = Chunk(v)
           /\ Sent(v)' = Sent(v) /\ SentBytes(v)' = SentBytes(v)
<1>1. /\ at'[v] = at[v] /\ call'[v] = call[v] /\ length'[v] = length[v]
      /\ written'[v] = written[v] /\ result'[v] = result[v] /\ UNCHANGED EnvelopeSize
  <2>1. CASE (\E n \in Lengths : BeginWrite(w, n) \/ BeginWriteClose(w, n)) \/ BeginClose(w)
    BY <2>1 DEF TypeOK, BeginWrite, BeginWriteClose, BeginClose, Begin, WriterStep, client
  <2>2. CASE Step(w)
    BY <2>2 DEF TypeOK, WriterStep, client, Step, Lock, FindClosed, FindOpen, SendChunk, ChunkFails,
                ChunkPanics, WriteReturns, SendEnd, Return
  <2> QED
    BY <2>1, <2>2 DEF WriterStep
<1>2. CASE UNCHANGED posted
  BY <1>1, <1>2, Unposted DEF Chunk
<1>3. CASE ~UNCHANGED posted
  <2>1. PICK n \in Nat, end \in BOOLEAN : Posts(w, n, end)
    BY <1>3, OneSend
  <2>2. Sent(v)' = Sent(v) /\ SentBytes(v)' = SentBytes(v)
    BY <2>1, Posted
  <2> QED
    BY <1>1, <2>2 DEF Chunk
<1> QED
  BY <1>2, <1>3

\* What a writer past the mutex has sent is what it counts.
LEMMA SentStep ==
    ASSUME TypeOK, MutexInv, SentInv, NEW w \in Writers, WriterStep(w)
    PROVE  SentInv'
<1>1. CASE (\E n \in Lengths : BeginWrite(w, n) \/ BeginWriteClose(w, n)) \/ BeginClose(w)
  <2>1. /\ at[w] = "start" /\ at' = [at EXCEPT ![w] = "lock"]
        /\ \A v \in Writers \ {w} : call'[v] = call[v] /\ length'[v] = length[v]
        /\ length'[w] \in Nat
        /\ UNCHANGED <<written, posted>>
    <3>1. PICK n \in Nat : length' = [length EXCEPT ![w] = n]
      BY <1>1, Begins
    <3>2. PICK c \in {"write", "writeClose", "close"} : call' = [call EXCEPT ![w] = c]
      BY <1>1, Begins
    <3>3. at[w] = "start" /\ at' = [at EXCEPT ![w] = "lock"] /\ UNCHANGED <<written, posted>>
      BY <1>1, Begins
    <3> QED
      BY <3>1, <3>2, <3>3 DEF TypeOK
  <2>2. \A v \in Writers : Sent(v)' = Sent(v) /\ SentBytes(v)' = SentBytes(v)
    BY <2>1, Unposted
  <2> QED
    BY <2>1, <2>2 DEF SentInv, TypeOK
<1>2. CASE Lock(w) \/ FindClosed(w) \/ ChunkPanics(w) \/ WriteReturns(w)
  <2>1. /\ at' = [at EXCEPT ![w] = IF at[w] = "lock" THEN "locked" ELSE "returned"]
        /\ UNCHANGED <<call, length, written, posted>>
    BY <1>2 DEF Lock, FindClosed, ChunkPanics, Sending, WriteReturns, Return
  <2>2. \A v \in Writers : Sent(v)' = Sent(v) /\ SentBytes(v)' = SentBytes(v)
    BY <2>1, Unposted
  <2> QED
    BY <2>1, <2>2 DEF SentInv, TypeOK
<1>3. CASE FindOpen(w)
  <2>1. Sent(w) = {} /\ SentBytes(w) = 0 /\ written[w] = 0
    BY <1>3 DEF FindOpen, SentInv, SentBytes
  <2>2. at' = [at EXCEPT ![w] = "sending"] /\ UNCHANGED <<call, length, written, posted>>
    BY <1>3 DEF FindOpen
  <2>3. \A v \in Writers : Sent(v)' = Sent(v) /\ SentBytes(v)' = SentBytes(v)
    BY <2>2, Unposted
  <2> QED
    BY <2>1, <2>2, <2>3 DEF SentInv, TypeOK
<1>4. CASE SendChunk(w)
  <2>1. /\ at[w] = "sending" /\ call[w] # "close" /\ UNCHANGED <<at, call, length>>
        /\ Chunk(w) \in Nat /\ written' = [written EXCEPT ![w] = written[w] + Chunk(w)]
        /\ written[w] + Chunk(w) <= length[w]
    BY <1>4, ChunkBounds DEF SendChunk, Sending, TypeOK
  <2>2. CASE Chunk(w) > 0
    <3>1. Posts(w, Chunk(w), FALSE)
      BY <1>4, <2>2 DEF SendChunk, Posts, Acknowledged
    <3>2. /\ SentBytes(w)' = written[w] + Chunk(w) /\ Len(posted') = Len(posted) + 1
          /\ posted'[Len(posted) + 1].writer = w
          /\ \A v \in Writers \ {w} : Sent(v)' = Sent(v) /\ SentBytes(v)' = SentBytes(v)
      BY <2>1, <3>1, Posted
    <3>3. \A v \in Writers \ {w} : at[v] # "sending"
      BY <2>1, Alone
    <3> QED
      BY <2>1, <3>2, <3>3 DEF SentInv, TypeOK
  <2>3. CASE ~(Chunk(w) > 0)
    <3>1. UNCHANGED posted /\ UNCHANGED written
      BY <1>4, <2>1, <2>3 DEF SendChunk, TypeOK
    <3>2. \A v \in Writers : Sent(v)' = Sent(v) /\ SentBytes(v)' = SentBytes(v)
      BY <3>1, Unposted
    <3> QED
      BY <2>1, <3>1, <3>2 DEF SentInv
  <2> QED
    BY <2>2, <2>3
<1>5. CASE ChunkFails(w) \/ SendEnd(w)
  <2>1. /\ at[w] = "sending" /\ at' = [at EXCEPT ![w] = "returned"]
        /\ UNCHANGED <<call, length, written>>
    BY <1>5 DEF ChunkFails, SendEnd, Sending, Return
  <2>2. \A v \in Writers \ {w} : Sent(v)' = Sent(v)
    BY OthersKept
  <2>3. \A v \in Writers \ {w} : at[v] # "sending"
    BY <2>1, Alone
  <2> QED
    BY <2>1, <2>2, <2>3 DEF SentInv, TypeOK
<1> QED
  BY <1>1, <1>2, <1>3, <1>4, <1>5 DEF WriterStep, Step

\* A Send goes on where the last one of the same Write ended, or begins a Write.
LEMMA WholePosted ==
    ASSUME TypeOK, SentInv, WritesWhole, NEW w \in Writers, at[w] = "sending",
           NEW n \in Nat, NEW end \in BOOLEAN, Posts(w, n, end)
    PROVE  WritesWhole'
<1> DEFINE last == posted[Len(posted)]
<1>1. /\ Len(posted) \in Nat /\ Len(posted') = Len(posted) + 1
      /\ \A i \in 1..Len(posted) : posted'[i] = posted[i]
      /\ posted'[Len(posted) + 1].writer = w
      /\ posted'[Len(posted) + 1].offset = written[w]
  BY Posted, SentTyped
<1> SUFFICES ASSUME NEW i \in 2..(Len(posted) + 1)
             PROVE  IF posted'[i - 1].writer = posted'[i].writer
                    THEN posted'[i].offset = posted'[i - 1].offset + posted'[i - 1].bytes
                    ELSE posted'[i].offset = 0
                         /\ \A j \in 1..(i - 1) : posted'[j].writer # posted'[i].writer
  BY <1>1 DEF WritesWhole
<1>2. CASE i <= Len(posted)
  <2>1. posted'[i] = posted[i] /\ \A j \in 1..(i - 1) : posted'[j] = posted[j]
    BY <1>1, <1>2
  <2>2. i \in 2..Len(posted) /\ i - 1 \in 1..(i - 1)
    BY <1>1, <1>2
  <2> QED
    BY <2>1, <2>2 DEF WritesWhole
<1>3. CASE i = Len(posted) + 1
  <2>1. /\ posted'[i - 1] = last /\ posted'[i].writer = w /\ posted'[i].offset = written[w]
        /\ \A j \in 1..(i - 1) : posted'[j] = posted[j]
    BY <1>1, <1>3
  <2>2. SentBytes(w) = written[w]
    BY DEF SentInv
  <2>3. CASE last.writer = w
    <3>1. Len(posted) \in Sent(w)
      BY <1>1, <1>3, <2>3 DEF Sent
    <3>2. SentBytes(w) = last.offset + last.bytes
      BY <3>1, SentTyped
    <3> QED
      BY <2>1, <2>2, <2>3, <3>2
  <2>4. CASE last.writer # w
    <3>1. Sent(w) = {}
      BY <2>4 DEF SentInv
    <3>2. \A j \in 1..(i - 1) : posted[j].writer # w
      BY <1>1, <1>3, <3>1 DEF Sent
    <3>3. written[w] = 0
      BY <2>2, <3>1 DEF SentBytes
    <3> QED
      BY <2>1, <2>4, <3>2, <3>3
  <2> QED
    BY <2>3, <2>4
<1> QED
  BY <1>1, <1>2, <1>3

\* The Sends of one Write stay together.
LEMMA WholeStep ==
    ASSUME TypeOK, SentInv, WritesWhole, NEW w \in Writers, WriterStep(w)
    PROVE  WritesWhole'
<1>1. CASE UNCHANGED posted
  BY <1>1 DEF WritesWhole
<1>2. CASE at[w] = "sending" /\ \E n \in Nat, end \in BOOLEAN : Posts(w, n, end)
  BY <1>2, WholePosted
<1> QED
  BY <1>1, <1>2, OneSend

-----------------------------------------------------------------------------
(* What has reached the server, and what a Write reports. *)

\* Only a Close sends the end.
LEMMA EndsKept ==
    ASSUME TypeOK, SentInv, ArrivedInv, NEW w \in Writers, WriterStep(w),
           NEW i \in 1..Len(posted'), posted'[i].end
    PROVE  call'[posted'[i].writer] = "close"
<1>0. posted \in Seq(Sends)
  BY DEF TypeOK
<1>1. CASE i \in 1..Len(posted) /\ posted'[i] = posted[i]
  <2> DEFINE v == posted[i].writer
  <2>0. posted[i] \in Sends
    BY <1>0, <1>1
  <2>1. v \in Writers /\ i \in Sent(v)
    BY <1>1, <2>0 DEF Sent, Sends
  <2>2. call[v] = "close" /\ at[v] # "start"
    BY <1>1, <2>1 DEF ArrivedInv, SentInv
  <2>3. call'[v] = call[v]
    <3>1. CASE v # w
      BY <2>1, <3>1, OthersKept
    <3>2. CASE v = w
      <4>1. Step(w)
        BY <2>2, <3>2, Begins DEF WriterStep
      <4> QED
        BY <3>2, <4>1 DEF Step, Lock, FindClosed, FindOpen, SendChunk, ChunkFails, ChunkPanics,
                          WriteReturns, SendEnd
    <3> QED
      BY <3>1, <3>2
  <2> QED
    BY <1>1, <2>2, <2>3
<1>2. CASE ~(i \in 1..Len(posted) /\ posted'[i] = posted[i])
  <2>1. ~UNCHANGED posted
    BY <1>2
  <2>4. SendChunk(w) \/ ChunkFails(w) \/ SendEnd(w)
    BY <2>1, OneSend
  <2>2. CASE SendEnd(w)
    <3>1. call'[w] = "close" /\ Posts(w, 0, TRUE)
      BY <2>2 DEF SendEnd, Posts, Acknowledged
    <3>2. /\ Len(posted') = Len(posted) + 1 /\ posted'[Len(posted) + 1].writer = w
          /\ \A j \in 1..Len(posted) : posted'[j] = posted[j]
      BY <3>1, Posted
    <3>3. i = Len(posted) + 1
      BY <1>0, <1>2, <3>2
    <3> QED
      BY <3>1, <3>2, <3>3
  <2>3. CASE SendChunk(w) \/ ChunkFails(w)
    <3>0. Chunk(w) \in Nat
      <4>1. Chunk(w) >= 0
        BY <2>3 DEF SendChunk, ChunkFails
      <4> QED
        BY <4>1, ChunkBounds
    <3>1. Posts(w, Chunk(w), FALSE)
      BY <2>1, <2>3 DEF SendChunk, ChunkFails, Posts, Acknowledged
    <3>2. /\ Len(posted') = Len(posted) + 1 /\ posted'[Len(posted) + 1].end = FALSE
          /\ \A j \in 1..Len(posted) : posted'[j] = posted[j]
      BY <3>0, <3>1, Posted
    <3>3. i = Len(posted) + 1
      BY <1>0, <1>2, <3>2
    <3> QED
      BY <3>2, <3>3
  <2> QED
    BY <2>2, <2>3, <2>4
<1> QED
  BY <1>1, <1>2

\* On the encrypting transport only the Send that returns an error may not have
\* arrived, and the writer stops there.
LEMMA ArrivedStep ==
    ASSUME TypeOK, SentInv, ArrivedInv, NEW w \in Writers, WriterStep(w)
    PROVE  ArrivedInv'
<1>0. ASSUME NEW i \in 1..Len(posted'), posted'[i].end PROVE call'[posted'[i].writer] = "close"
  BY <1>0, EndsKept DEF ArrivedInv
<1> SUFFICES ASSUME encrypts', NEW i \in 1..Len(posted'), ~posted'[i].end, ~posted'[i].arrived
             PROVE  /\ at'[posted'[i].writer] = "returned"
                    /\ posted'[i].offset + posted'[i].bytes > written'[posted'[i].writer]
  BY <1>0 DEF ArrivedInv
<1>1. encrypts /\ posted \in Seq(Sends)
  BY DEF WriterStep, client, TypeOK
<1>2. CASE i \in 1..Len(posted) /\ posted'[i] = posted[i]
  <2> DEFINE v == posted[i].writer
  <2>1. v \in Writers /\ at[v] = "returned" /\ posted[i].offset + posted[i].bytes > written[v]
    <3>1. posted[i] \in Sends
      BY <1>1, <1>2
    <3> QED
      BY <1>1, <1>2, <3>1 DEF ArrivedInv, Sends
  <2>2. at'[v] = "returned" /\ written'[v] = written[v]
    <3>1. CASE v # w
      BY <2>1, <3>1, OthersKept
    <3>2. CASE v = w
      <4>1. Step(w)
        BY <2>1, <3>2, Begins DEF WriterStep
      <4> QED
        BY <2>1, <3>2, <4>1 DEF Step, Lock, FindClosed, FindOpen, SendChunk, ChunkFails,
                                ChunkPanics, WriteReturns, SendEnd, Sending
    <3> QED
      BY <3>1, <3>2
  <2> QED
    BY <1>2, <2>1, <2>2
<1>3. CASE ~(i \in 1..Len(posted) /\ posted'[i] = posted[i])
  <2>1. /\ at[w] = "sending" /\ (SendChunk(w) \/ ChunkFails(w) \/ SendEnd(w))
        /\ \E n \in Nat, end \in BOOLEAN : Posts(w, n, end)
    BY <1>3, OneSend
  <2>2. i = Len(posted) + 1 /\ posted'[i].writer = w /\ posted'[i].offset = written[w]
    BY <1>1, <1>3, <2>1, Posted
  <2>3. ChunkFails(w) /\ Chunk(w) > 0 /\ Posts(w, Chunk(w), FALSE)
    <3>1. ASSUME NEW n, NEW end, NEW arrived, PostSend(w, n, end, arrived)
          PROVE  posted'[i].arrived = arrived /\ posted'[i].end = end
      <4>1. posted' = Append(posted, [writer |-> w, offset |-> written[w], bytes |-> n,
                                      end |-> end, arrived |-> arrived])
        BY <3>1 DEF PostSend
      <4> QED
        BY <1>1, <2>2, <4>1
    <3>2. ~SendChunk(w)
      BY <1>1, <1>3, <3>1 DEF SendChunk, Acknowledged
    <3>3. ~SendEnd(w)
      BY <3>1 DEF SendEnd
    <3>4. ChunkFails(w)
      BY <2>1, <3>2, <3>3
    <3> QED
      BY <1>3, <3>4 DEF ChunkFails, Posts
  <2>4. /\ Chunk(w) \in Nat /\ written[w] \in Nat /\ UNCHANGED written
        /\ at' = [at EXCEPT ![w] = "returned"]
    BY <2>3, ChunkBounds DEF ChunkFails, Return, TypeOK
  <2>5. posted'[i].bytes = Chunk(w)
    BY <2>2, <2>3, <2>4, Posted
  <2> QED
    BY <2>2, <2>3, <2>4, <2>5 DEF TypeOK
<1> QED
  BY <1>2, <1>3

\* The number that a Write reports is the number of bytes it has sent without an error.
ReportInv ==
    \A w \in Writers : at[w] = "returned" /\ call[w] = "write" =>
        /\ result[w] = "ok" => written[w] = length[w] /\ SentBytes(w) = length[w]
        /\ result[w] = "shortWrite" =>
              /\ written[w] < length[w]
              /\ SentBytes(w) \in {written[w], written[w] + Chunk(w)}

LEMMA ReportStep ==
    ASSUME TypeOK, SentInv, ReportInv, NEW w \in Writers, WriterStep(w)
    PROVE  ReportInv'
<1> SUFFICES ASSUME NEW v \in Writers, at'[v] = "returned", call'[v] = "write"
             PROVE  /\ result'[v] = "ok" => written'[v] = length'[v] /\ SentBytes(v)' = length'[v]
                    /\ result'[v] = "shortWrite" =>
                          /\ written'[v] < length'[v]
                          /\ SentBytes(v)' \in {written'[v], written'[v] + Chunk(v)'}
  BY DEF ReportInv
<1>1. CASE v # w
  BY <1>1, OthersKept DEF ReportInv
<1>2. CASE v = w
  <2>1. CASE WriteReturns(w)
    <3>1. written[w] >= length[w] /\ at[w] = "sending" /\ UNCHANGED <<length, written, posted>>
          /\ result' = [result EXCEPT ![w] = "ok"]
      BY <2>1 DEF WriteReturns, Return
    <3>2. written[w] = length[w] /\ SentBytes(w) = written[w]
      BY <3>1 DEF SentInv, TypeOK
    <3>3. SentBytes(w)' = SentBytes(w)
      BY <3>1, Unposted
    <3> QED
      BY <1>2, <3>1, <3>2, <3>3 DEF TypeOK
  <2>2. CASE ChunkFails(w)
    <3>1. /\ at[w] = "sending" /\ written[w] < length[w] /\ Chunk(w) >= 0
          /\ UNCHANGED <<length, written, EnvelopeSize>>
          /\ result' = [result EXCEPT ![w] = "shortWrite"]
          /\ UNCHANGED posted \/ Posts(w, Chunk(w), FALSE)
      BY <2>2 DEF ChunkFails, Sending, Return, WriterStep, client, Posts
    <3>2. Chunk(w)' = Chunk(w) /\ SentBytes(w) = written[w] /\ Chunk(w) \in Nat
      BY <3>1, ChunkBounds DEF Chunk, SentInv
    <3>3. CASE UNCHANGED posted
      BY <1>2, <3>1, <3>2, <3>3, Unposted DEF TypeOK
    <3>4. CASE Posts(w, Chunk(w), FALSE)
      <4>1. SentBytes(w)' = written[w] + Chunk(w)
        BY <3>2, <3>4, Posted
      <4> QED
        BY <1>2, <3>1, <3>2, <4>1 DEF TypeOK
    <3> QED
      BY <3>1, <3>3, <3>4
  <2>3. CASE FindClosed(w) \/ ChunkPanics(w)
    BY <1>2, <2>3 DEF FindClosed, ChunkPanics, Return, TypeOK
  <2>4. CASE SendEnd(w)
    BY <1>2, <2>4 DEF SendEnd
  <2>5. CASE Lock(w) \/ FindOpen(w) \/ SendChunk(w)
    BY <1>2, <2>5 DEF Lock, FindOpen, SendChunk, Sending, TypeOK
  <2>6. CASE (\E n \in Lengths : BeginWrite(w, n) \/ BeginWriteClose(w, n)) \/ BeginClose(w)
    BY <1>2, <2>6, Begins DEF TypeOK
  <2> QED
    BY <2>1, <2>2, <2>3, <2>4, <2>5, <2>6 DEF WriterStep, Step
<1> QED
  BY <1>1, <1>2

\* Together with what has arrived this is CountHonest: a Write sends no end.
LEMMA CountStep ==
    ASSUME TypeOK, SentInv, ArrivedInv, CountHonest, NEW w \in Writers, WriterStep(w)
    PROVE  CountHonest'
<1>1. ReportInv
  BY DEF CountHonest, ReportInv
<1>2. ReportInv' /\ ArrivedInv' /\ TypeOK'
  BY <1>1, ReportStep, ArrivedStep, TypeStep DEF Next, WriterStep
<1>3. ASSUME NEW v \in Writers, call'[v] = "write", encrypts', NEW i \in Sent(v)',
             posted'[i].offset + posted'[i].bytes <= written'[v]
      PROVE  posted'[i].arrived
  <2>1. posted'[i] \in Sends /\ i \in 1..Len(posted') /\ posted'[i].writer = v /\ written'[v] \in Nat
    BY <1>2 DEF Sent, TypeOK
  <2>2. ~posted'[i].end
    BY <1>2, <1>3, <2>1 DEF ArrivedInv
  <2> QED
    BY <1>2, <1>3, <2>1, <2>2 DEF ArrivedInv, Sends
<1> QED
  BY <1>2, <1>3 DEF CountHonest, ReportInv

-----------------------------------------------------------------------------
(* The end of the input. *)

\* What is sent as the end is the last thing sent.
LEMMA EofStep ==
    ASSUME TypeOK, MutexInv, EofInv, NEW w \in Writers, WriterStep(w)
    PROVE  EofInv'
<1> DEFINE Ended == \E i \in 1..Len(posted) : posted[i].end
           Told == \E i \in 1..Len(posted) : posted[i].end /\ (encrypts => posted[i].arrived)
           Tells(v) == \/ call[v] = "writeClose" /\ at[v] # "start"
                       \/ call[v] = "close" /\ at[v] = "sending"
                       \/ call[v] = "close" /\ at[v] = "returned" /\ result[v] = "failed"
           Last == \A i \in 1..Len(posted) :
                      posted[i].end => eof /\ i = Len(posted) /\ \A v \in Writers : at[v] # "sending"
           Marked == \A v \in Writers : call[v] = "close" /\ at[v] \in {"sending", "returned"} => eof
<1>0. Len(posted) \in Nat /\ UNCHANGED encrypts
  BY DEF TypeOK, WriterStep, client
<1>1. CASE (\E n \in Lengths : BeginWrite(w, n) \/ BeginWriteClose(w, n)) \/ BeginClose(w)
  <2>1. PICK c \in {"write", "writeClose", "close"} :
           call' = [call EXCEPT ![w] = c] /\ eof' = (IF c = "writeClose" THEN TRUE ELSE eof)
    BY <1>1, Begins
  <2>2. at[w] = "start" /\ at' = [at EXCEPT ![w] = "lock"] /\ UNCHANGED <<result, posted>>
    BY <1>1, Begins
  <2>3. Marked' /\ Last'
    BY <2>1, <2>2 DEF EofInv, TypeOK
  <2>4. ASSUME eof' PROVE Told' \/ \E v \in Writers : Tells(v)'
    BY <1>0, <2>1, <2>2, <2>4 DEF EofInv, TypeOK
  <2> QED
    BY <2>3, <2>4 DEF EofInv
<1>2. CASE Lock(w) \/ FindClosed(w)
  <2>1. /\ UNCHANGED <<eof, call, posted>>
        /\ \/ at[w] = "lock" /\ at' = [at EXCEPT ![w] = "locked"] /\ UNCHANGED result
           \/ at[w] = "locked" /\ at' = [at EXCEPT ![w] = "returned"] /\ eof
              /\ result' = [result EXCEPT ![w] = "closedPipe"]
    BY <1>2 DEF Lock, FindClosed, Return
  <2> QED
    BY <1>0, <2>1 DEF EofInv, TypeOK
<1>3. CASE FindOpen(w)
  BY <1>0, <1>3 DEF FindOpen, Marks, EofInv, TypeOK
<1>4. CASE SendChunk(w) \/ ChunkFails(w) \/ ChunkPanics(w) \/ WriteReturns(w)
  <2>1. /\ at[w] = "sending" /\ call[w] # "close" /\ UNCHANGED <<eof, call>>
        /\ \A v \in Writers \ {w} : at'[v] = at[v] /\ result'[v] = result[v]
        /\ at'[w] \in {"sending", "returned"}
    BY <1>4, OthersKept DEF SendChunk, ChunkFails, ChunkPanics, WriteReturns, Sending, Return, TypeOK
  <2>2. ~Ended
    BY <2>1 DEF EofInv
  <2>3. ~Ended'
    <3>1. UNCHANGED posted \/ (Posts(w, Chunk(w), FALSE) /\ Chunk(w) >= 0)
      BY <1>4 DEF SendChunk, ChunkFails, ChunkPanics, WriteReturns, Posts, Acknowledged
    <3>2. ASSUME Posts(w, Chunk(w), FALSE), Chunk(w) >= 0 PROVE ~Ended'
      <4>1. Chunk(w) \in Nat
        BY <3>2, ChunkBounds
      <4>2. /\ Len(posted') = Len(posted) + 1 /\ posted'[Len(posted) + 1].end = FALSE
            /\ \A j \in 1..Len(posted) : posted'[j] = posted[j]
        BY <3>2, <4>1, Posted
      <4> QED
        BY <1>0, <2>2, <4>2
    <3>3. CASE UNCHANGED posted
      BY <2>2, <3>3
    <3> QED
      BY <3>1, <3>2, <3>3
  <2> QED
    BY <2>1, <2>2, <2>3 DEF EofInv, TypeOK
<1>5. CASE SendEnd(w)
  <2>1. /\ at[w] = "sending" /\ call[w] = "close" /\ eof /\ UNCHANGED <<eof, call>>
        /\ at' = [at EXCEPT ![w] = "returned"]
    BY <1>5 DEF SendEnd, Return, EofInv
  <2>2. ~Ended
    BY <2>1 DEF EofInv
  <2>3. \A v \in Writers : at'[v] # "sending"
    BY <2>1, Alone DEF TypeOK
  <2>4. PICK arrived \in BOOLEAN :
           PostSend(w, 0, TRUE, arrived) /\ (encrypts /\ ~arrived => result' = [result EXCEPT ![w] = "failed"])
    BY <1>5 DEF SendEnd, Return, Acknowledged
  <2>5. posted' = Append(posted, [writer |-> w, offset |-> written[w], bytes |-> 0,
                                  end |-> TRUE, arrived |-> arrived])
    BY <2>4 DEF PostSend
  <2>6. /\ Len(posted') = Len(posted) + 1 /\ \A i \in 1..Len(posted) : posted'[i] = posted[i]
        /\ posted'[Len(posted) + 1].end /\ posted'[Len(posted) + 1].arrived = arrived
    BY <2>5 DEF TypeOK
  <2>7. Marked' /\ Last'
    BY <1>0, <2>1, <2>2, <2>3, <2>6
  <2>8. Told' \/ \E v \in Writers : Tells(v)'
    BY <1>0, <2>1, <2>4, <2>6 DEF TypeOK
  <2> QED
    BY <2>7, <2>8 DEF EofInv
<1> QED
  BY <1>1, <1>2, <1>3, <1>4, <1>5 DEF WriterStep, Step

-----------------------------------------------------------------------------
\* All of it holds at the start.
LEMMA InitInv == Init => IInv
<1> SUFFICES ASSUME Init PROVE IInv
  OBVIOUS
<1>1. TypeOK
  BY InitTyped
<1>2. MutexInv /\ EofInv
  BY DEF Init, MutexInv, EofInv, Holding
<1>3. SentInv /\ ArrivedInv /\ WritesWhole /\ CountHonest
  BY DEF Init, SentInv, ArrivedInv, WritesWhole, CountHonest, Sent, SentBytes
<1> QED
  BY <1>1, <1>2, <1>3 DEF IInv

\* The invariant is inductive.
LEMMA Inductive == IInv /\ [Next]_vars => IInv'
<1> SUFFICES ASSUME IInv, [Next]_vars PROVE IInv'
  OBVIOUS
<1>1. TypeOK'
  BY TypeStep DEF IInv
<1>2. CASE UNCHANGED vars
  <2> USE <1>2 DEF IInv, vars, client
  <2>1. MutexInv'
    BY DEF MutexInv, Holding
  <2>2. EofInv'
    BY DEF EofInv
  <2>3. \A w \in Writers : Sent(w)' = Sent(w) /\ SentBytes(w)' = SentBytes(w) /\ Chunk(w)' = Chunk(w)
    BY Unposted DEF Chunk
  <2>4. SentInv' /\ CountHonest'
    BY <2>3 DEF SentInv, CountHonest
  <2>5. WritesWhole' /\ ArrivedInv'
    BY DEF WritesWhole, ArrivedInv
  <2> QED
    BY <1>1, <2>1, <2>2, <2>4, <2>5
<1>3. ASSUME NEW w \in Writers, WriterStep(w) PROVE IInv'
  <2>1. MutexInv'
    <3>1. CASE (\E n \in Lengths : BeginWrite(w, n) \/ BeginWriteClose(w, n)) \/ BeginClose(w)
      BY <3>1, Begins DEF IInv, TypeOK, MutexInv, Holding
    <3>2. CASE Step(w)
      BY <1>3, <3>2, MutexStep DEF IInv, WriterStep
    <3> QED
      BY <1>3, <3>1, <3>2 DEF WriterStep
  <2>2. EofInv' /\ SentInv' /\ ArrivedInv' /\ WritesWhole' /\ CountHonest'
    BY <1>3, EofStep, SentStep, ArrivedStep, WholeStep, CountStep DEF IInv
  <2> QED
    BY <1>1, <2>1, <2>2 DEF IInv
<1> QED
  BY <1>2, <1>3 DEF Next, Terminated, WriterStep

LEMMA Invariance == Spec => []IInv
<1> QED
  BY InitInv, Inductive, PTL DEF Spec

\* The mutex is held by the goroutine past it, and by no second one: a Write, with
\* all its Sends, excludes every other call (command.go:214, 262).
THEOREM OneHolder == Spec => []MutexInv
<1>1. IInv => MutexInv
  BY DEF IInv
<1> QED
  BY <1>1, Invariance, PTL

\* The Sends of a Write are posted together and without a gap, for any number of
\* goroutines, any lengths and any size of the envelope.
THEOREM WholeWrites == Spec => []WritesWhole
<1>1. IInv => WritesWhole
  BY DEF IInv
<1> QED
  BY <1>1, Invariance, PTL

\* What a Write reports is what it has sent without an error, and on the encrypting
\* transport that has reached the server (command.go:214-238, ntlm.go:355-392).
THEOREM HonestCount == Spec => []CountHonest
<1>1. IInv => CountHonest
  BY DEF IInv
<1> QED
  BY <1>1, Invariance, PTL

\* Nothing is sent after the end of the input.
THEOREM EndComesLast == Spec => []EndIsLast
<1>1. IInv => EndIsLast
  BY DEF IInv, EofInv, EndIsLast
<1> QED
  BY <1>1, Invariance, PTL

\* Where nobody calls WriteClose and no Send of a Close fails, the end of the input
\* has been sent once the calls have returned, and on the encrypting transport it has
\* arrived.
THEOREM EndIsTold == Spec => []EndArrives
<1>1. IInv => EndArrives
  <2> SUFFICES ASSUME IInv, \A w \in Writers : at[w] = "returned" /\ call[w] # "writeClose" /\ result[w] # "failed",
                      NEW w \in Writers, call[w] = "close"
               PROVE  \E i \in 1..Len(posted) : posted[i].end /\ (encrypts => posted[i].arrived)
    BY DEF EndArrives
  <2>1. eof
    BY DEF IInv, EofInv
  <2> QED
    BY <2>1 DEF IInv, EofInv
<1> QED
  BY <1>1, Invariance, PTL
=============================================================================
