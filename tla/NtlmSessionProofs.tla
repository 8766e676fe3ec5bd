------------------------- MODULE NtlmSessionProofs -------------------------
(* Proofs about NtlmSession, for any goroutines, credentials and modes. *)
EXTENDS NtlmSession, TLAPS

(* Operators. *)

\* A retry empties the session and counts as the second attempt; any other error
\* is returned, which frees the mutex.
LEMMA Fails ==
    ASSUME TypeOK, NEW t \in Callers, NEW r \in Results,
           AttemptFails(t, r, TRUE) \/ AttemptFails(t, r, FALSE)
    PROVE  \/ /\ attempt = 1 /\ attempt' = 2 /\ step' = "ensure"
              /\ raw' = FALSE /\ ready' = FALSE /\ session' = NoSession
              /\ UNCHANGED <<cached, at, user, result, request>>
           \/ /\ at' = [at EXCEPT ![t] = "idle"] /\ step' = "none"
              /\ result' = [result EXCEPT ![t] = r]
              /\ UNCHANGED <<user, request, clientVars, attempt>>
BY DEF TypeOK, AttemptFails, Retries, Return

\* The record that an execution leaves.
Record(t, as, keys, answer) ==
    [request |-> request, for |-> user[t], as |-> as, keys |-> keys, answer |-> answer]

\* Sessions are counted up, and what they are made of keeps its type.
LEMMA Numbers ==
    /\ NoSession \in Sessions
    /\ \A k \in Nat : [keys |-> k, out |-> 0, in |-> 0] \in Sessions
    /\ \A k \in Nat, u \in SUBSET Users : [keys |-> k, user |-> u, out |-> 0, in |-> 0] \in Servers
<1>1. NoSession \in Sessions
  BY DEF NoSession, Sessions
<1>2. \A k \in Nat : [keys |-> k, out |-> 0, in |-> 0] \in Sessions
  BY DEF Sessions
<1>3. \A k \in Nat, u \in SUBSET Users : [keys |-> k, user |-> u, out |-> 0, in |-> 0] \in Servers
  BY DEF Servers
<1> QED
  BY <1>1, <1>2, <1>3

-----------------------------------------------------------------------------
(* Types. *)

\* The types hold at the start.
LEMMA InitTyped == Init => TypeOK
<1> SUFFICES ASSUME Init PROVE TypeOK
  OBVIOUS
<1>1. executed \in Seq(Executed)
  BY DEF Init
<1> QED
  <2>1. server \in Servers /\ session \in Sessions /\ made \in Nat
    BY Numbers DEF Init
  <2>2. at \in [Callers -> {"idle", "waiting", "holding"}] /\ user \in [Callers -> Users]
        /\ result \in [Callers -> Results]
    BY DEF Init, Results
  <2>3. raw \in BOOLEAN /\ ready \in BOOLEAN /\ encrypts \in Modes
    BY DEF Init
  <2>4. /\ cached \in SUBSET Users /\ step \in Steps /\ attempt \in 1..2 /\ request \in 0..MaxPosts
        /\ conn \in {"none", "open", "challenged", "authenticated"}
    BY PostsAssumption DEF Init, Steps
  <2> QED
    BY <1>1, <2>1, <2>2, <2>3, <2>4 DEF TypeOK

\* An error of an attempt, with what the handler does around it, keeps the types.
LEMMA FailsTyped ==
    ASSUME TypeOK, NEW t \in Callers, NEW r \in Results,
           AttemptFails(t, r, TRUE) \/ AttemptFails(t, r, FALSE)
    PROVE  /\ raw' \in BOOLEAN /\ cached' \in SUBSET Users /\ ready' \in BOOLEAN
           /\ session' \in Sessions
           /\ at' \in [Callers -> {"idle", "waiting", "holding"}]
           /\ user' \in [Callers -> Users] /\ result' \in [Callers -> Results]
           /\ step' \in Steps /\ attempt' \in 1..2 /\ request' \in 0..MaxPosts
<1>1. CASE /\ attempt = 1 /\ attempt' = 2 /\ step' = "ensure"
           /\ raw' = FALSE /\ ready' = FALSE /\ session' = NoSession
           /\ UNCHANGED <<cached, at, user, result, request>>
  <2> USE <1>1 DEF TypeOK
  <2>1. raw' \in BOOLEAN /\ ready' \in BOOLEAN
    OBVIOUS
  <2>3. cached' \in SUBSET Users /\ user' \in [Callers -> Users] /\ result' \in [Callers -> Results]
    OBVIOUS
  <2>4. session' \in Sessions
    BY Numbers
  <2>5. at' \in [Callers -> {"idle", "waiting", "holding"}]
    OBVIOUS
  <2>6. step' \in Steps /\ attempt' \in 1..2 /\ request' \in 0..MaxPosts
    BY DEF Steps
  <2> QED
    BY <2>1, <2>3, <2>4, <2>5, <2>6
<1>2. CASE /\ at' = [at EXCEPT ![t] = "idle"] /\ step' = "none"
           /\ result' = [result EXCEPT ![t] = r]
           /\ UNCHANGED <<user, request, clientVars, attempt>>
  BY <1>2 DEF TypeOK, Steps, clientVars
<1> QED
  BY <1>1, <1>2, Fails

\* What a sealed request leaves is well typed.
LEMMA ExecutesTyped ==
    ASSUME TypeOK, NEW t \in Callers, NEW answer \in Answers, Executes(t, answer)
    PROVE  /\ server' \in Servers /\ made' = made
           /\ executed' \in Seq(Executed)
<1>1. server' \in Servers /\ made' = made
  <2>1. server \in Servers /\ made' = made
    BY DEF TypeOK, Executes
  <2>2. PICK o \in Nat, i \in Nat : server' = [[server EXCEPT !.in = i] EXCEPT !.out = o]
    <3>1. server.in + 1 \in Nat /\ server.out \in Nat /\ server.out + 1 \in Nat
      BY <2>1 DEF Servers
    <3>2. server' = [[server EXCEPT !.in = server.in + 1]
                       EXCEPT !.out = IF answer = "plain" THEN server.out ELSE server.out + 1]
      BY <2>1 DEF Executes, Servers
    <3> QED
      BY <3>1, <3>2
  <2>3. [server EXCEPT !.in = i] \in Servers
    BY <2>1 DEF Servers
  <2> QED
    BY <2>1, <2>2, <2>3 DEF Servers
<1>2. Record(t, server.user, server.keys, answer)
         \in Executed
  BY PostsAssumption DEF TypeOK, Record, Executed, Servers
<1>3. executed' = Append(executed, Record(t, server.user, server.keys, answer))
  BY DEF Executes, Record
<1> QED
  BY <1>1, <1>2, <1>3 DEF TypeOK

\* No step breaks a type.
LEMMA TypeStep == TypeOK /\ [Next]_vars => TypeOK'
<1> SUFFICES ASSUME TypeOK, [Next]_vars PROVE TypeOK'
  OBVIOUS
<1> USE PostsAssumption
<1>1. CASE UNCHANGED vars
  BY <1>1 DEF TypeOK, vars, clientVars, postVars, serverVars
<1>2. CASE ConnectionDrops \/ SessionExpires
  BY <1>1, <1>2 DEF Next, TypeOK, vars, ConnectionDrops, SessionExpires, clientVars, postVars
<1> SUFFICES ASSUME NEW t \in Callers, UNCHANGED encrypts, CallPost(t) \/ LockPost(t) \/ PostStep(t)
             PROVE  TypeOK'
  BY <1>1, <1>2 DEF Next
<1>3. CASE CallPost(t) \/ LockPost(t)
  BY <1>3 DEF CallPost, LockPost, TypeOK, Steps, clientVars, serverVars
<1>4. CASE Ensure(t)
  BY <1>4, Numbers DEF Ensure, NewClient, TypeOK, Steps, clientVars
<1>5. CASE Probe(t)
  <2>1. CASE AttemptFails(t, "refused", FALSE) /\ UNCHANGED conn
    BY <1>5, <2>1, FailsTyped DEF Probe, TypeOK, Results
  <2>2. CASE conn' = "open" /\ step' = "negotiate"
             /\ UNCHANGED <<clientVars, at, user, result, attempt, request>>
    BY <1>5, <2>2 DEF Probe, TypeOK, Steps, clientVars
  <2> QED
    BY <1>5, <2>1, <2>2 DEF Probe
<1>6. CASE Negotiate(t)
  BY <1>6 DEF Negotiate, TypeOK, Steps, clientVars
<1>7. CASE Authenticate(t)
  <2>1. CASE conn = "challenged"
    <3>1. session' \in Sessions /\ server' \in Servers /\ made' \in Nat
      BY <1>7, <2>1, Numbers DEF Authenticate, TypeOK
    <3>2. ready' \in BOOLEAN /\ step' \in Steps /\ conn' \in {"none", "open", "challenged", "authenticated"}
      BY <1>7, <2>1 DEF Authenticate, Steps
    <3>3. UNCHANGED <<cached, at, user, result, attempt, request, executed>>
      BY <1>7, <2>1 DEF Authenticate
    <3>4. raw' \in BOOLEAN
      BY <1>7, <2>1 DEF Authenticate, TypeOK
    <3> QED
      BY <3>1, <3>2, <3>3, <3>4 DEF TypeOK
  <2>2. CASE conn # "challenged"
    <3>1. AttemptFails(t, "refused", FALSE) /\ conn' = "open" /\ UNCHANGED <<server, executed>> /\ made' = made + 1
      BY <1>7, <2>2 DEF Authenticate
    <3>2. /\ raw' \in BOOLEAN /\ cached' \in SUBSET Users /\ ready' \in BOOLEAN
          /\ session' \in Sessions
          /\ at' \in [Callers -> {"idle", "waiting", "holding"}]
          /\ user' \in [Callers -> Users] /\ result' \in [Callers -> Results]
          /\ step' \in Steps /\ attempt' \in 1..2 /\ request' \in 0..MaxPosts
      BY <3>1, FailsTyped DEF Results
    <3> QED
      BY <3>1, <3>2 DEF TypeOK
  <2> QED
    BY <2>1, <2>2
<1>8. CASE HandshakeFails(t) \/ SendFails(t) \/ SendRefused(t)
  <2>1. /\ \E r \in Results : AttemptFails(t, r, TRUE) \/ AttemptFails(t, r, FALSE)
        /\ conn' \in {"none", "open", conn} /\ UNCHANGED <<server, made, executed>>
    BY <1>8 DEF HandshakeFails, SendFails, SendRefused, Break, Results
  <2> QED
    BY <2>1, FailsTyped DEF TypeOK
<1>9. CASE Seal(t)
  <2>1. session' \in Sessions
    BY <1>9 DEF Seal, TypeOK, Sessions
  <2> QED
    BY <1>9, <2>1 DEF Seal, TypeOK, Steps, serverVars
<1>10. CASE AnswerOk(t)
  <2>1. Executes(t, "ok") /\ UNCHANGED conn
    BY <1>10 DEF AnswerOk
  <2>2. CASE session.in = server.out
    <3>1. session' \in Sessions
      BY <1>10, <2>2 DEF AnswerOk, Unwrap, TypeOK, Sessions
    <3>2. /\ UNCHANGED <<raw, cached, ready, attempt, user, request>> /\ step' = "none"
          /\ at' \in [Callers -> {"idle", "waiting", "holding"}] /\ result' \in [Callers -> Results]
      BY <1>10, <2>2 DEF AnswerOk, Return, TypeOK, Results
    <3>3. server' \in Servers /\ made' = made /\ executed' \in Seq(Executed)
      BY <2>1, ExecutesTyped DEF Answers
    <3> QED
      BY <2>1, <3>1, <3>2, <3>3 DEF TypeOK, Steps
  <2>3. CASE session.in # server.out
    <3>1. AttemptFails(t, "outOfStep", FALSE)
      BY <1>10, <2>3 DEF AnswerOk
    <3>2. server' \in Servers /\ made' = made /\ executed' \in Seq(Executed)
      BY <2>1, ExecutesTyped DEF Answers
    <3> QED
      BY <2>1, <3>1, <3>2, FailsTyped DEF TypeOK, Results
  <2> QED
    BY <2>2, <2>3
<1>11. CASE AnswerFault(t) \/ AnswerPlain(t) \/ AnswerLost(t)
  <2>1. /\ \E answer \in Answers : Executes(t, answer)
        /\ \E r \in Results : AttemptFails(t, r, TRUE) \/ AttemptFails(t, r, FALSE)
        /\ conn' \in {"none", conn}
    BY <1>11 DEF AnswerFault, AnswerPlain, AnswerLost, Break, Results, Answers
  <2> QED
    BY <2>1, FailsTyped, ExecutesTyped DEF TypeOK
<1>12. CASE PlainFails(t)
  BY <1>12 DEF PlainFails, Return, TypeOK, Steps, Results, clientVars
<1>13. CASE PlainAnswered(t)
  <2>1. /\ server' \in Servers /\ made' \in Nat
    BY <1>13, Numbers DEF PlainAnswered, TypeOK
  <2>2. PICK answer \in {"ok", "fault", "lost"} :
           /\ executed' = Append(executed, Record(t, server'.user, server'.keys, answer))
           /\ Return(t, IF answer = "lost" THEN "network" ELSE answer)
           /\ conn' = IF answer = "lost" THEN "none" ELSE "authenticated"
    BY <1>13 DEF PlainAnswered, Record
  <2>3. Record(t, server'.user, server'.keys, answer)
           \in Executed
    BY <2>1, <2>2, PostsAssumption DEF TypeOK, Record, Answers, Executed, Servers
  <2>4. executed' \in Seq(Executed)
    BY <2>2, <2>3 DEF TypeOK
  <2> QED
    BY <1>13, <2>1, <2>2, <2>4 DEF PlainAnswered, TypeOK, Return, Results, Steps, clientVars
<1> QED
  BY <1>3, <1>4, <1>5, <1>6, <1>7, <1>8, <1>9, <1>10, <1>11, <1>12, <1>13 DEF PostStep

\* Every variable keeps its type; there are never more than two attempts.
THEOREM NtlmTypeCorrect == Spec => []TypeOK
<1> QED
  BY InitTyped, TypeStep, PTL DEF Spec

-----------------------------------------------------------------------------
(* The course of a Post. *)

Onward == {<<"ensure", "exchange">>, <<"ensure", "seal">>, <<"ensure", "probe">>,
           <<"probe", "negotiate">>, <<"negotiate", "authenticate">>,
           <<"authenticate", "seal">>, <<"seal", "send">>}

\* A step of a Post is that of its holder; it goes on, or back for the second
\* attempt, or returns.
LEMMA Course ==
    ASSUME TypeOK, NEW t \in Callers, PostStep(t)
    PROVE  /\ Holder(t) /\ step # "none" /\ UNCHANGED <<user, request>>
           /\ \/ step' = "none" /\ at' = [at EXCEPT ![t] = "idle"] /\ attempt' = attempt
              \/ UNCHANGED <<at, attempt>> /\ <<step, step'>> \in Onward
              \/ UNCHANGED at /\ attempt = 1 /\ attempt' = 2 /\ step' = "ensure"
<1>1. CASE \E r \in Results : AttemptFails(t, r, TRUE) \/ AttemptFails(t, r, FALSE)
  <2>1. Holder(t) /\ step # "none"
    BY DEF PostStep, Ensure, Probe, Negotiate, Authenticate, HandshakeFails, Seal, SendFails,
           SendRefused, Sendable, Executes, AnswerOk, AnswerFault, AnswerPlain, AnswerLost,
           PlainFails, PlainAnswered, Exchanging
  <2> QED
    BY <1>1, <2>1, Fails
<1>2. CASE Ensure(t)
  BY <1>2 DEF Ensure, Onward
<1>3. CASE Probe(t)
  BY <1>1, <1>3 DEF Probe, Results, Onward
<1>4. CASE Negotiate(t)
  BY <1>4 DEF Negotiate, Onward
<1>5. CASE Authenticate(t)
  BY <1>1, <1>5 DEF Authenticate, Results, Onward
<1>6. CASE HandshakeFails(t) \/ SendFails(t) \/ SendRefused(t)
  BY <1>1, <1>6 DEF HandshakeFails, SendFails, SendRefused, Break, Results
<1>7. CASE Seal(t)
  BY <1>7 DEF Seal, Onward
<1>8. CASE AnswerOk(t)
  <2>1. CASE session.in = server.out
    BY <1>8, <2>1 DEF AnswerOk, Executes, Sendable, Return
  <2>2. CASE session.in # server.out
    BY <1>1, <1>8, <2>2 DEF AnswerOk, Results
  <2> QED
    BY <2>1, <2>2
<1>9. CASE AnswerFault(t) \/ AnswerPlain(t) \/ AnswerLost(t)
  BY <1>1, <1>9 DEF AnswerFault, AnswerPlain, AnswerLost, Break, Results
<1>10. CASE PlainFails(t) \/ PlainAnswered(t)
  BY <1>10 DEF PlainFails, PlainAnswered, Exchanging, Return
<1> QED
  BY <1>2, <1>3, <1>4, <1>5, <1>6, <1>7, <1>8, <1>9, <1>10 DEF PostStep

\* What a step has the server carry out is the holder's request, as the user that
\* the connection belongs to, or came to belong to just then; unless the answer
\* got lost or was not encrypted, the Post returns.
LEMMA Carried ==
    ASSUME TypeOK, NEW t \in Callers, PostStep(t), ~UNCHANGED executed
    PROVE  /\ step \in {"send", "exchange"}
           /\ \/ conn = "authenticated" /\ server'.user = server.user
              \/ server'.user = cached
           /\ \E answer \in Answers :
                 /\ executed' = Append(executed, Record(t, server'.user, server'.keys, answer))
                 /\ answer \in {"lost", "plain"} \/ step' = "none"
<1>1. CASE PlainAnswered(t)
  <2>1. step = "exchange" /\ step' = "none"
    BY <1>1 DEF PlainAnswered, Exchanging, Return
  <2>2. \E answer \in Answers : executed' = Append(executed, Record(t, server'.user, server'.keys, answer))
    BY <1>1 DEF PlainAnswered, Answers, Record
  <2>3. \/ conn = "authenticated" /\ server'.user = server.user
        \/ server'.user = cached
    BY <1>1 DEF PlainAnswered
  <2> QED
    BY <2>1, <2>2, <2>3
<1>2. ASSUME NEW answer \in Answers, Executes(t, answer)
      PROVE  /\ step = "send" /\ conn = "authenticated"
             /\ server'.user = server.user /\ server'.keys = server.keys
             /\ executed' = Append(executed, Record(t, server'.user, server'.keys, answer))
  <2>1. step = "send" /\ conn = "authenticated"
    BY <1>2 DEF Executes, Sendable
  <2>2. server'.user = server.user /\ server'.keys = server.keys
    BY <1>2 DEF Executes, TypeOK, Servers
  <2> QED
    BY <1>2, <2>1, <2>2 DEF Executes, Record
<1>3. CASE AnswerPlain(t) \/ AnswerLost(t)
  BY <1>2, <1>3 DEF AnswerPlain, AnswerLost, Answers
<1>4. CASE AnswerOk(t) \/ AnswerFault(t)
  <2>1. \E answer \in Answers : Executes(t, answer)
    BY <1>4 DEF AnswerOk, AnswerFault, Answers
  <2>2. step' = "none"
    BY <1>4 DEF AnswerOk, AnswerFault, AttemptFails, Retries, Return
  <2> QED
    BY <1>2, <2>1, <2>2
<1>5. PlainAnswered(t) \/ AnswerPlain(t) \/ AnswerLost(t) \/ AnswerOk(t) \/ AnswerFault(t)
  BY DEF PostStep, Ensure, Probe, Negotiate, Authenticate, HandshakeFails, Seal, serverVars,
         SendFails, SendRefused, PlainFails
<1> QED
  BY <1>1, <1>3, <1>4, <1>5

\* Only ensureSession changes the cached credentials; a connection comes to be
\* authenticated for them.
LEMMA Credentials ==
    ASSUME TypeOK, NEW t \in Callers, PostStep(t), ~Ensure(t)
    PROVE  /\ step # "ensure" /\ UNCHANGED cached
           /\ conn' = "authenticated" => \/ server'.user = cached
                                         \/ conn = "authenticated" /\ server'.user = server.user
<1>1. ASSUME \E r \in Results : AttemptFails(t, r, TRUE) \/ AttemptFails(t, r, FALSE)
      PROVE  UNCHANGED cached
  BY <1>1, Fails DEF clientVars
<1>2. CASE Probe(t)
  BY <1>1, <1>2 DEF Probe, Results, clientVars
<1>3. CASE Negotiate(t) \/ Seal(t)
  BY <1>3 DEF Negotiate, Seal, clientVars, serverVars
<1>4. CASE Authenticate(t)
  <2>1. CASE conn = "challenged"
    <3>1. server' = [keys |-> made + 1, user |-> cached, out |-> 0, in |-> 0] /\ UNCHANGED cached
          /\ step = "authenticate"
      BY <1>4, <2>1 DEF Authenticate
    <3> QED
      BY <3>1
  <2>2. CASE conn # "challenged"
    BY <1>1, <1>4, <2>2 DEF Authenticate, Results
  <2> QED
    BY <2>1, <2>2
<1>5. CASE HandshakeFails(t) \/ SendFails(t) \/ SendRefused(t)
  <2>1. /\ \E r \in Results : AttemptFails(t, r, TRUE) \/ AttemptFails(t, r, FALSE)
        /\ conn' \in {"none", "open", conn} /\ UNCHANGED server /\ step # "ensure"
    BY <1>5 DEF HandshakeFails, SendFails, SendRefused, Sendable, Break, Results
  <2> QED
    BY <1>1, <2>1
<1>6. CASE AnswerOk(t) \/ AnswerFault(t) \/ AnswerPlain(t) \/ AnswerLost(t)
  <2>1. UNCHANGED cached
    BY <1>1, <1>6 DEF AnswerOk, AnswerFault, AnswerPlain, AnswerLost, Break, Results
  <2>2. \E answer \in Answers : Executes(t, answer)
    BY <1>6 DEF AnswerOk, AnswerFault, AnswerPlain, AnswerLost, Answers
  <2>3. step = "send" /\ conn = "authenticated" /\ server'.user = server.user
    BY <2>2 DEF Executes, Sendable, TypeOK, Servers
  <2> QED
    BY <2>1, <2>3
<1>7. CASE PlainFails(t)
  BY <1>7 DEF PlainFails, Exchanging, clientVars
<1>8. CASE PlainAnswered(t)
  BY <1>8 DEF PlainAnswered, Exchanging, clientVars
<1> QED
  BY <1>2, <1>3, <1>4, <1>5, <1>6, <1>7, <1>8 DEF PostStep

\* A Post that holds the mutex goes forward but for its one retry.
LEMMA StageStep == TypeOK /\ [Next]_vars => [\A t \in Callers : PostStep(t) => ~Holder(t)' \/ Stage' > Stage]_vars
<1> SUFFICES ASSUME TypeOK, NEW t \in Callers, PostStep(t) PROVE ~Holder(t)' \/ Stage' > Stage
  OBVIOUS
<1>1. CASE step' = "none" /\ at' = [at EXCEPT ![t] = "idle"]
  BY <1>1 DEF Holder, TypeOK
<1>2. CASE UNCHANGED <<at, attempt>> /\ <<step, step'>> \in Onward
  BY <1>2 DEF Onward, Stage, TypeOK
<1>3. CASE attempt = 1 /\ attempt' = 2 /\ step' = "ensure"
  BY <1>3, Course DEF Stage, TypeOK, Steps
<1> QED
  BY <1>1, <1>2, <1>3, Course

\* Whatever the network and the server do, a Post that has the mutex gets ahead
\* with each of its steps: it makes at most twelve of them.
THEOREM PostGoesOn == Spec => PostAdvances
<1> QED
  BY InitTyped, TypeStep, StageStep, PTL DEF Spec, PostAdvances

-----------------------------------------------------------------------------
(* The mutex, identities and retries. *)

\* One Post at a time.
LEMMA MutexStep == TypeOK /\ MutexInv /\ [Next]_vars => MutexInv'
<1> SUFFICES ASSUME TypeOK, MutexInv, [Next]_vars PROVE MutexInv'
  OBVIOUS
<1> USE DEF MutexInv, Holder, TypeOK
<1>1. CASE UNCHANGED vars \/ ConnectionDrops \/ SessionExpires
  BY <1>1 DEF vars, postVars, ConnectionDrops, SessionExpires
<1>2. ASSUME NEW t \in Callers, CallPost(t) \/ LockPost(t) PROVE MutexInv'
  BY <1>2 DEF CallPost, LockPost
<1>3. ASSUME NEW t \in Callers, PostStep(t) PROVE MutexInv'
  <2>1. /\ Holder(t) /\ step # "none"
        /\ \/ step' = "none" /\ at' = [at EXCEPT ![t] = "idle"]
           \/ UNCHANGED at /\ step' # "none"
    <3> USE <1>3, Course DEF Onward
    <3> QED
      OBVIOUS
  <2> QED
    BY <2>1
<1> QED
  BY <1>1, <1>2, <1>3 DEF Next

\* The connection and the credentials of the holder belong together.
LEMMA IdentityStep == TypeOK /\ MutexInv /\ IdentityInv /\ [Next]_vars => IdentityInv'
<1> SUFFICES ASSUME TypeOK, MutexInv, IdentityInv, [Next]_vars PROVE IdentityInv'
  OBVIOUS
<1>1. CASE UNCHANGED vars \/ ConnectionDrops \/ SessionExpires
  BY <1>1 DEF IdentityInv, Holder, vars, clientVars, postVars, serverVars, ConnectionDrops, SessionExpires
<1>2. ASSUME NEW t \in Callers, CallPost(t) \/ LockPost(t) PROVE IdentityInv'
  <2>1. CASE CallPost(t)
    BY <2>1 DEF CallPost, IdentityInv, Holder, TypeOK, clientVars, serverVars
  <2>2. CASE LockPost(t)
    BY <2>2 DEF LockPost, IdentityInv, clientVars, serverVars
  <2> QED
    BY <1>2, <2>1, <2>2
<1>3. ASSUME NEW t \in Callers, PostStep(t) PROVE IdentityInv'
  <2>1. \A v \in Callers : Holder(v)' => v = t
    BY <1>3, Course DEF MutexInv, Holder, TypeOK
  <2>2. Holder(t) /\ UNCHANGED user
    BY <1>3, Course
  <2>3. CASE Ensure(t)
    BY <2>1, <2>2, <2>3 DEF Ensure, HasClient, NewClient, IdentityInv, clientVars
  <2>4. CASE ~Ensure(t)
    <3>1. /\ step # "ensure" /\ UNCHANGED cached
          /\ conn' = "authenticated" => \/ server'.user = cached
                                        \/ conn = "authenticated" /\ server'.user = server.user
      BY <1>3, <2>4, Credentials
    <3> QED
      BY <2>1, <2>2, <3>1 DEF IdentityInv
  <2> QED
    BY <2>3, <2>4
<1> QED
  BY <1>1, <1>2, <1>3 DEF Next

\* What the server carries out, it carries out as the user it was posted for.
LEMMA RightStep == TypeOK /\ IdentityInv /\ RightIdentity /\ [Next]_vars => RightIdentity'
<1> SUFFICES ASSUME TypeOK, IdentityInv, RightIdentity, [Next]_vars PROVE RightIdentity'
  OBVIOUS
<1>1. CASE UNCHANGED executed
  BY <1>1 DEF RightIdentity
<1>2. CASE ~UNCHANGED executed
  <2>1. PICK t \in Callers : PostStep(t)
    BY <1>2 DEF Next, vars, serverVars, ConnectionDrops, SessionExpires, CallPost, LockPost
  <2>2. Holder(t)
    BY <2>1, Course
  <2>3. server'.user = {user[t]}
    BY <1>2, <2>1, <2>2, Carried DEF IdentityInv
  <2>4. PICK answer \in Answers : executed' = Append(executed, Record(t, server'.user, server'.keys, answer))
    BY <1>2, <2>1, Carried
  <2>5. ASSUME NEW i \in 1..(Len(executed) + 1) PROVE executed'[i].as = {executed'[i].for}
    BY <2>3, <2>4, <2>5 DEF RightIdentity, Record, TypeOK
  <2> QED
    BY <2>4, <2>5 DEF RightIdentity, TypeOK
<1> QED
  BY <1>1, <1>2

\* A request is not carried out again once it was answered.
LEMMA RetryStep ==
    ASSUME TypeOK, MutexInv, RetryInv, RetryOnlyUnanswered, [Next]_vars
    PROVE  RetryInv' /\ RetryOnlyUnanswered'
<1> DEFINE Unanswered(i) == executed[i].answer \in {"lost", "plain"}
<1>0. /\ Len(executed) \in Nat /\ DOMAIN executed = 1..Len(executed)
      /\ \A i \in DOMAIN executed : executed[i].request \in Nat
      /\ attempt \in 1..2 /\ request \in Nat
  <2>1. Len(executed) \in Nat /\ DOMAIN executed = 1..Len(executed) /\ executed \in Seq(Executed)
    BY DEF TypeOK
  <2>2. \A i \in DOMAIN executed : executed[i].request \in Nat
    <3>1. \A i \in DOMAIN executed : executed[i] \in Executed
      BY <2>1
    <3>2. \A e \in Executed : e.request \in Nat
      BY DEF Executed
    <3> QED
      BY <3>1, <3>2
  <2> QED
    BY <2>1, <2>2, PostsAssumption DEF TypeOK
<1>1. CASE UNCHANGED <<executed, request, attempt, step>>
  BY <1>1 DEF RetryInv, RetryOnlyUnanswered
<1>2. CASE \E t \in Callers : LockPost(t)
  <2>1. UNCHANGED executed /\ request' = request + 1
    BY <1>2 DEF LockPost, serverVars
  <2> QED
    BY <1>0, <2>1 DEF RetryInv, RetryOnlyUnanswered
<1>3. ASSUME NEW t \in Callers, PostStep(t), UNCHANGED executed PROVE RetryInv' /\ RetryOnlyUnanswered'
  <2>1. /\ step # "none" /\ UNCHANGED request
        /\ step' = "none" \/ attempt' = attempt \/ attempt' = 2
    BY <1>3, Course
  <2> QED
    BY <1>0, <1>3, <2>1 DEF RetryInv, RetryOnlyUnanswered
<1>4. ASSUME NEW t \in Callers, PostStep(t), ~UNCHANGED executed PROVE RetryInv' /\ RetryOnlyUnanswered'
  <2>1. PICK answer \in Answers :
           /\ executed' = Append(executed, Record(t, server'.user, server'.keys, answer))
           /\ answer \in {"lost", "plain"} \/ step' = "none"
    BY <1>4, Carried
  <2>2. /\ DOMAIN executed' = 1..(Len(executed) + 1) /\ Len(executed') = Len(executed) + 1
        /\ \A i \in DOMAIN executed : executed'[i] = executed[i]
        /\ executed'[Len(executed) + 1].request = request
        /\ executed'[Len(executed) + 1].answer = answer
    BY <1>0, <2>1 DEF TypeOK, Record
  <2>3. step # "none" /\ step \in {"send", "exchange"} /\ UNCHANGED request
    BY <1>4, Course, Carried
  <2>4. step' = "none" \/ (attempt = 1 /\ attempt' = 2)
    BY <1>4, <2>3, Course DEF Onward
  <2>5. \A i \in DOMAIN executed : executed[i].request = request => i = Len(executed) /\ Unanswered(i)
    BY <2>3 DEF RetryInv
  <2>6. RetryInv'
    <3>1. \A i \in DOMAIN executed : executed[i].request <= request
      BY DEF RetryInv
    <3>2. ASSUME NEW i \in DOMAIN executed', executed'[i].request = request, step' # "none"
          PROVE  attempt' = 2 /\ i = Len(executed') /\ executed'[i].answer \in {"lost", "plain"}
      BY <1>0, <2>1, <2>2, <2>3, <2>4, <3>2 DEF RetryInv
    <3> QED
      BY <1>0, <2>2, <2>3, <3>1, <3>2 DEF RetryInv
  <2>7. RetryOnlyUnanswered'
    BY <1>0, <2>2, <2>3, <2>5 DEF RetryOnlyUnanswered
  <2> QED
    BY <2>6, <2>7
<1> QED
  BY <1>1, <1>2, <1>3, <1>4 DEF Next, vars, postVars, serverVars, ConnectionDrops, SessionExpires, CallPost

-----------------------------------------------------------------------------
(* The numbers of the session. *)

\* An error that leaves the server as it is keeps the session as it should be.
LEMMA SessionFails ==
    ASSUME TypeOK, SessionInv, NEW t \in Callers, NEW r \in Results,
           AttemptFails(t, r, TRUE) \/ AttemptFails(t, r, FALSE),
           UNCHANGED <<encrypts, server, executed>>, made' \in Nat, made <= made',
           conn' # "authenticated" \/ (conn' = conn /\ (step = "send" => ~Unfaulted))
    PROVE  SessionInv'
<1>1. server.keys \in Nat /\ made \in Nat /\ \A i \in DOMAIN executed : executed[i].keys \in Nat
  <2>1. server \in Servers /\ \A i \in DOMAIN executed : executed[i] \in Executed
    BY DEF TypeOK
  <2>2. \A e \in Executed : e.keys \in Nat
    BY DEF Executed
  <2>3. \A u \in Servers : u.keys \in Nat
    BY DEF Servers
  <2> QED
    BY <2>1, <2>2, <2>3 DEF TypeOK
<1>2. server'.keys <= made' /\ \A i \in DOMAIN executed' : executed'[i].keys <= made'
  BY <1>1 DEF SessionInv
<1>3. CASE step' = "ensure" /\ ready' = FALSE
  BY <1>2, <1>3 DEF SessionInv
<1>4. CASE step' = "none" /\ UNCHANGED <<ready, session>>
  <2>1. Unfaulted' = Unfaulted
    BY <1>4 DEF Unfaulted
  <2> QED
    BY <1>2, <1>4, <2>1 DEF SessionInv
<1> QED
  BY <1>3, <1>4, Fails DEF clientVars

\* What the server carries out of a sealed request has the keys of the session.
LEMMA SessionExecutes ==
    ASSUME TypeOK, SessionInv, NEW t \in Callers, NEW answer \in Answers, Executes(t, answer)
    PROVE  /\ step = "send" /\ encrypts /\ ready /\ conn = "authenticated"
           /\ server.keys = session.keys /\ server'.keys = server.keys /\ server.keys <= made
           /\ made \in Nat /\ made' = made
           /\ session.out \in Nat /\ session.in \in Nat /\ server.in \in Nat /\ server.out \in Nat
           /\ server'.in = server.in + 1
           /\ server'.out = IF answer = "plain" THEN server.out ELSE server.out + 1
           /\ DOMAIN executed' = 1..(Len(executed) + 1) /\ DOMAIN executed = 1..Len(executed)
           /\ Len(executed) \in Nat
           /\ \A i \in 1..Len(executed) : executed'[i] = executed[i]
           /\ executed'[Len(executed) + 1].keys = server.keys
           /\ executed'[Len(executed) + 1].answer = answer
           /\ \A i \in DOMAIN executed' : executed'[i].keys <= made'
<1>1. /\ step = "send" /\ conn = "authenticated" /\ server.keys = session.keys
      /\ server' = [server EXCEPT !.in = @ + 1, !.out = IF answer = "plain" THEN @ ELSE @ + 1]
      /\ executed' = Append(executed, Record(t, server.user, server.keys, answer)) /\ made' = made
  BY DEF Executes, Sendable, Opens, Record
<1>2. encrypts /\ ready /\ server.keys <= made
  BY <1>1 DEF SessionInv
<1>3. session.out \in Nat /\ session.in \in Nat /\ made \in Nat
  BY DEF TypeOK, Sessions
<1>4. /\ server.in \in Nat /\ server.out \in Nat /\ server'.in = server.in + 1 /\ server'.keys = server.keys
      /\ server'.out = IF answer = "plain" THEN server.out ELSE server.out + 1
  BY <1>1 DEF TypeOK, Servers
<1>5. /\ DOMAIN executed' = 1..(Len(executed) + 1) /\ DOMAIN executed = 1..Len(executed)
      /\ Len(executed) \in Nat
      /\ \A i \in 1..Len(executed) : executed'[i] = executed[i]
      /\ executed'[Len(executed) + 1] = Record(t, server.user, server.keys, answer)
  BY <1>1 DEF TypeOK
<1>6. executed'[Len(executed) + 1].keys = server.keys /\ executed'[Len(executed) + 1].answer = answer
  BY <1>5 DEF Record
<1>7. \A i \in DOMAIN executed' : executed'[i].keys <= made'
  BY <1>1, <1>2, <1>5, <1>6 DEF SessionInv
<1> QED
  BY <1>1, <1>2, <1>3, <1>4, <1>5, <1>6, <1>7

\* An answer of the server, received or not, keeps the session as it should be.
LEMMA SessionAnswers ==
    ASSUME TypeOK, SessionInv, UNCHANGED encrypts, NEW t \in Callers,
           AnswerOk(t) \/ AnswerFault(t) \/ AnswerPlain(t) \/ AnswerLost(t)
    PROVE  SessionInv'
<1>1. CASE AnswerOk(t) /\ session.in = server.out
  <2>1. Executes(t, "ok") /\ "ok" \in Answers
    BY <1>1 DEF AnswerOk, Answers
  <2>2. /\ session'.in = session.in + 1 /\ session'.out = session.out /\ session'.keys = session.keys
        /\ step' = "none" /\ UNCHANGED <<ready, conn>>
    BY <1>1 DEF AnswerOk, Unwrap, Return, TypeOK, Sessions
  <2>3. Unfaulted' => Unfaulted
    <3>1. /\ DOMAIN executed \subseteq DOMAIN executed'
          /\ \A i \in DOMAIN executed : executed'[i] = executed[i]
      BY <2>1, SessionExecutes
    <3> QED
      BY <2>2, <3>1 DEF Unfaulted
  <2>4. Unfaulted => session.in = server.out /\ session.out = server.in + 1
    BY <2>1, SessionExecutes DEF SessionInv
  <2>5. Unfaulted' => session'.in = server'.out /\ session'.out = server'.in
    BY <2>1, <2>2, <2>3, <2>4, SessionExecutes
  <2>6. /\ server'.keys <= made' /\ \A i \in DOMAIN executed' : executed'[i].keys <= made'
        /\ session'.keys = server'.keys
    BY <2>1, <2>2, SessionExecutes
  <2>7. server'.in \in Nat
    BY <2>1, SessionExecutes
  <2> QED
    BY <2>2, <2>5, <2>6, <2>7 DEF SessionInv
<1>2. CASE (AnswerOk(t) /\ session.in # server.out) \/ AnswerFault(t)
  <2>1. PICK answer \in {"ok", "fault"} : Executes(t, answer) /\ answer \in Answers
                                          /\ (answer = "ok" => session.in # server.out)
    BY <1>2 DEF AnswerOk, AnswerFault, Answers
  <2>2. step' = "none" /\ UNCHANGED <<ready, session, conn>>
    BY <1>2 DEF AnswerOk, AnswerFault, AttemptFails, Retries, Return, clientVars
  <2>3. ~Unfaulted'
    <3>1. answer = "ok" => ~Unfaulted
      BY <2>1, SessionExecutes DEF SessionInv
    <3> QED
      BY <2>1, <2>2, <3>1, SessionExecutes DEF Unfaulted
  <2> QED
    BY <2>1, <2>2, <2>3, SessionExecutes DEF SessionInv
<1>3. CASE AnswerPlain(t)
  <2>1. Executes(t, "plain") /\ "plain" \in Answers /\ UNCHANGED conn
    BY <1>3 DEF AnswerPlain, Answers
  <2>2. \/ step' = "ensure" /\ ready' = FALSE
        \/ step' = "none" /\ UNCHANGED <<ready, session>>
    BY <1>3, Fails DEF AnswerPlain, Results, clientVars
  <2>3. UNCHANGED session /\ Unfaulted' => Unfaulted
    BY <2>1, SessionExecutes DEF Unfaulted
  <2> QED
    BY <2>1, <2>2, <2>3, SessionExecutes DEF SessionInv
<1>4. CASE AnswerLost(t)
  <2>1. Executes(t, "lost") /\ "lost" \in Answers /\ conn' = "none"
    BY <1>4 DEF AnswerLost, Break, Answers
  <2>2. step' \in {"ensure", "none"}
    BY <1>4, Fails DEF AnswerLost, Break, Results
  <2> QED
    BY <2>1, <2>2, SessionExecutes DEF SessionInv
<1> QED
  BY <1>1, <1>2, <1>3, <1>4

\* No step leaves the session otherwise than SessionInv says.
LEMMA SessionStep == TypeOK /\ MutexInv /\ SessionInv /\ [Next]_vars => SessionInv'
<1> SUFFICES ASSUME TypeOK, MutexInv, SessionInv, [Next]_vars PROVE SessionInv'
  OBVIOUS
<1>0. UNCHANGED encrypts
  BY DEF Next, vars
<1>1. CASE UNCHANGED vars \/ ConnectionDrops \/ SessionExpires
  BY <1>0, <1>1 DEF SessionInv, Unfaulted, vars, clientVars, postVars, serverVars, ConnectionDrops, SessionExpires
<1>2. ASSUME NEW t \in Callers, CallPost(t) \/ LockPost(t) PROVE SessionInv'
  <2>1. step' = step \/ (step = "none" /\ step' = "ensure")
    BY <1>2 DEF CallPost, LockPost, MutexInv
  <2>2. UNCHANGED <<ready, session, conn, server, made, executed>>
    BY <1>2 DEF CallPost, LockPost, clientVars, serverVars
  <2> QED
    BY <1>0, <2>1, <2>2 DEF SessionInv, Unfaulted
<1>3. ASSUME NEW t \in Callers, PostStep(t) PROVE SessionInv'
  <2>0. server.keys \in Nat /\ made \in Nat /\ \A i \in DOMAIN executed : executed[i].keys \in Nat
    <3>1. server \in Servers /\ \A i \in DOMAIN executed : executed[i] \in Executed
      BY DEF TypeOK
    <3>2. \A e \in Executed : e.keys \in Nat
      BY DEF Executed
    <3>3. \A u \in Servers : u.keys \in Nat
      BY DEF Servers
    <3> QED
      BY <3>1, <3>2, <3>3 DEF TypeOK
  <2>1. CASE Ensure(t)
    <3>1. step = "ensure" /\ UNCHANGED <<server, made, executed>>
      BY <2>1 DEF Ensure
    <3>2. \/ UNCHANGED <<ready, session, conn>> \/ (ready' = ~encrypts /\ conn' = "none")
      BY <2>1 DEF Ensure, NewClient, clientVars
    <3>3. step' = IF ~encrypts THEN "exchange" ELSE IF ready' THEN "seal" ELSE "probe"
      BY <2>1 DEF Ensure
    <3> QED
      BY <1>0, <3>1, <3>2, <3>3 DEF SessionInv, Unfaulted
  <2>2. CASE Probe(t)
    <3>1. CASE AttemptFails(t, "refused", FALSE)
      <4>1. /\ UNCHANGED <<server, made, executed, conn>> /\ step # "send"
            /\ "refused" \in Results /\ made' \in Nat /\ made <= made'
        BY <2>0, <2>2, <3>1 DEF Probe, Results, AttemptFails, Return, Retries
      <4> QED
        BY <1>0, <3>1, <4>1, SessionFails
    <3>2. CASE conn' = "open" /\ step' = "negotiate" /\ UNCHANGED clientVars
      BY <1>0, <2>2, <3>2 DEF Probe, SessionInv, clientVars
    <3> QED
      BY <2>2, <3>1, <3>2 DEF Probe
  <2>3. CASE Negotiate(t)
    BY <1>0, <2>3 DEF Negotiate, SessionInv, clientVars
  <2>4. CASE Authenticate(t)
    <3>1. CASE conn = "challenged"
      <4>1. /\ session' = [keys |-> made + 1, out |-> 0, in |-> 0] /\ ready' = TRUE /\ step' = "seal"
            /\ server' = [keys |-> made + 1, user |-> cached, out |-> 0, in |-> 0]
            /\ step = "authenticate" /\ made' = made + 1 /\ UNCHANGED executed
        BY <2>4, <3>1 DEF Authenticate
      <4>2. encrypts'
        BY <1>0, <4>1 DEF SessionInv
      <4>3. \A i \in DOMAIN executed' : executed'[i].keys <= made'
        BY <2>0, <4>1 DEF SessionInv
      <4> QED
        BY <2>0, <4>1, <4>2, <4>3 DEF SessionInv
    <3>2. CASE conn # "challenged"
      <4>1. /\ AttemptFails(t, "refused", FALSE) /\ made' = made + 1 /\ conn' = "open"
            /\ UNCHANGED <<server, executed>>
        BY <2>4, <3>2 DEF Authenticate
      <4>2. "refused" \in Results /\ made' \in Nat /\ made <= made' /\ conn' # "authenticated"
        BY <2>0, <4>1 DEF Results
      <4> QED
        BY <1>0, <4>1, <4>2, SessionFails
    <3> QED
      BY <3>1, <3>2
  <2>5. CASE HandshakeFails(t) \/ SendFails(t)
    <3>1. /\ \E r \in Results : AttemptFails(t, r, TRUE) \/ AttemptFails(t, r, FALSE)
          /\ UNCHANGED <<server, made, executed>>
          /\ conn' = "none" \/ (step # "send" /\ UNCHANGED conn)
      BY <2>5 DEF HandshakeFails, SendFails, Break, Results
    <3>2. made' \in Nat /\ made <= made'
      BY <2>0, <3>1
    <3> QED
      BY <1>0, <3>1, <3>2, SessionFails
  <2>6. CASE SendRefused(t)
    <3>1. /\ AttemptFails(t, "refused", TRUE) /\ UNCHANGED <<server, made, executed>>
          /\ step = "send" /\ (conn' = "open" \/ (UNCHANGED conn /\ (conn = "authenticated" => ~Opens)))
      BY <2>6 DEF SendRefused, Sendable
    <3>2. conn = "authenticated" /\ Unfaulted => Opens
      <4>1. server.in \in Nat
        BY DEF TypeOK, Servers
      <4> QED
        BY <3>1, <4>1 DEF SessionInv, Opens
    <3>3. made' \in Nat /\ made <= made' /\ "refused" \in Results
      BY <2>0, <3>1 DEF Results
    <3>4. conn' # "authenticated" \/ (conn' = conn /\ (step = "send" => ~Unfaulted))
      BY <3>1, <3>2
    <3> QED
      BY <1>0, <3>1, <3>3, <3>4, SessionFails
  <2>7. CASE Seal(t)
    <3>1. /\ session'.keys = session.keys /\ session'.in = session.in /\ session'.out = session.out + 1
          /\ step = "seal" /\ step' = "send" /\ UNCHANGED <<ready, conn, server, made, executed>>
      BY <2>7 DEF Seal, TypeOK, Sessions, serverVars
    <3>2. server.in \in Nat
      BY DEF TypeOK, Servers
    <3> QED
      BY <1>0, <3>1, <3>2 DEF SessionInv, Unfaulted
  <2>8. CASE AnswerOk(t) \/ AnswerFault(t) \/ AnswerPlain(t) \/ AnswerLost(t)
    BY <1>0, <2>8, SessionAnswers
  <2>9. CASE PlainFails(t)
    BY <1>0, <2>9 DEF PlainFails, Exchanging, Return, SessionInv, clientVars
  <2>10. CASE PlainAnswered(t)
    <3>1. step = "exchange" /\ step' = "none" /\ ~encrypts
      BY <2>10 DEF PlainAnswered, Exchanging, Return, SessionInv
    <3>2. server'.keys <= made' /\ made <= made' /\ made' \in Nat
      <4>1. CASE UNCHANGED <<server, made>>
        BY <2>0, <4>1 DEF SessionInv
      <4>2. CASE made' = made + 1 /\ server' = [keys |-> made + 1, user |-> cached, out |-> 0, in |-> 0]
        BY <2>0, <4>2
      <4> QED
        BY <2>10, <4>1, <4>2 DEF PlainAnswered
    <3>3. \E answer \in Answers : executed' = Append(executed, Record(t, server'.user, server'.keys, answer))
      BY <2>10 DEF PlainAnswered, Answers, Record
    <3>4. \A i \in DOMAIN executed' : executed'[i].keys <= made'
      <4>1. \A i \in DOMAIN executed : executed[i].keys <= made'
        BY <2>0, <3>2 DEF SessionInv
      <4> QED
        BY <3>2, <3>3, <4>1 DEF Record, TypeOK
    <3> QED
      BY <1>0, <3>1, <3>2, <3>4 DEF SessionInv
  <2> QED
    BY <1>3, <2>1, <2>2, <2>3, <2>4, <2>5, <2>6, <2>7, <2>8, <2>9, <2>10 DEF PostStep
<1> QED
  BY <1>1, <1>2, <1>3 DEF Next

-----------------------------------------------------------------------------
\* All of it holds at the start.
LEMMA InitInv == Init => IInv
<1> SUFFICES ASSUME Init PROVE IInv
  OBVIOUS
<1>1. TypeOK
  BY InitTyped
<1>2. executed = <<>> /\ DOMAIN executed = {}
  BY DEF Init
<1>3. MutexInv /\ IdentityInv
  BY DEF Init, MutexInv, IdentityInv, Holder
<1>4. RightIdentity /\ RetryInv /\ RetryOnlyUnanswered
  BY <1>2 DEF Init, RightIdentity, RetryInv, RetryOnlyUnanswered
<1>5. SessionInv
  BY <1>2 DEF Init, SessionInv
<1> QED
  BY <1>1, <1>3, <1>4, <1>5 DEF IInv

\* The invariant is inductive.
LEMMA Inductive == IInv /\ [Next]_vars => IInv'
BY TypeStep, MutexStep, IdentityStep, RightStep, RetryStep, SessionStep DEF IInv

LEMMA Invariance == Spec => []IInv
<1> QED
  BY InitInv, Inductive, PTL DEF Spec

\* For any clients that share the transport, a request is carried out only under
\* the identity of the client it was posted for.
THEOREM RightUser == Spec => []RightIdentity
<1>1. IInv => RightIdentity
  BY DEF IInv
<1> QED
  BY <1>1, Invariance, PTL

\* The retry never repeats a request that was answered.
THEOREM RetriesUnanswered == Spec => []RetryOnlyUnanswered
<1>1. IInv => RetryOnlyUnanswered
  BY DEF IInv
<1> QED
  BY <1>1, Invariance, PTL

\* Between Posts, both ends of a session that stands can go on with it, unless a
\* fault was answered in it.
THEOREM NumbersAgree == Spec => []InStep
<1>1. IInv => InStep
  <2> SUFFICES ASSUME IInv, encrypts, step = "none", ready, conn = "authenticated", Unfaulted
               PROVE  session.keys = server.keys /\ session.out = server.in /\ session.in = server.out
    BY DEF InStep, Unfaulted
  <2>1. server.in \in Nat
    BY DEF IInv, TypeOK, Servers
  <2> QED
    BY <2>1 DEF IInv, SessionInv
<1> QED
  BY <1>1, Invariance, PTL

\* Only one Post at a time is past the mutex.
THEOREM OnePost == Spec => []MutexInv
<1>1. IInv => MutexInv
  BY DEF IInv
<1> QED
  BY <1>1, Invariance, PTL
=============================================================================
