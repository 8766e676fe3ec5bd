-------------------------- MODULE CommandPromise --------------------------
(***************************************************************************)
(* What a Command promises its user, who sees two streams and a result and *)
(* may ask it to stop: chunks arrive in order while a stream is open, each *)
(* stream ends once, both end alike, and then there is one result, for     *)
(* good.  Unless the user asked it to stop, the result has no error if and *)
(* only if the streams end in EOF.                                         *)
(***************************************************************************)
EXTENDS Naturals, Sequences

CONSTANTS Streams, Errors, Nil, Codes

VARIABLES
    end,      \* of each stream: "open", or the error it ended with (Nil for EOF)
    chunks,   \* of each stream, as numbers
    stopped,  \* has the user, or the context, asked the command to stop?
    result    \* "pending", or the error and the exit code

vars == <<end, chunks, stopped, result>>

Pending == [err |-> "pending", code |-> 0]

Init ==
    /\ end = [s \in Streams |-> "open"]
    /\ chunks = [s \in Streams |-> <<>>]
    /\ stopped = FALSE
    /\ result = Pending

Arrive(s) ==
    /\ end[s] = "open"
    /\ Len(chunks'[s]) = Len(chunks[s]) + 1
    /\ \A i \in DOMAIN chunks[s] :
          /\ chunks'[s][i] = chunks[s][i]
          /\ chunks[s][i] < chunks'[s][Len(chunks'[s])]
    /\ \A r \in Streams \ {s} : chunks'[r] = chunks[r]
    /\ UNCHANGED <<end, stopped, result>>

EndStream(s) ==
    /\ end[s] = "open"
    /\ \E e \in Errors : end' = [end EXCEPT ![s] = e]
    /\ UNCHANGED <<chunks, stopped, result>>

Stop ==
    /\ stopped' = TRUE
    /\ UNCHANGED <<end, chunks, result>>

Finish ==
    /\ result = Pending
    /\ \E last \in Errors, e \in Errors, c \in Codes :
          /\ \A s \in Streams : end[s] = last
          /\ stopped \/ (e = Nil <=> last = Nil)
          /\ result' = [err |-> e, code |-> c]
    /\ UNCHANGED <<end, chunks, stopped>>

Next == \/ \E s \in Streams : Arrive(s) \/ EndStream(s)
        \/ Stop \/ Finish

Spec == Init /\ [][Next]_vars
=============================================================================
