---------------------------- MODULE NtlmSession ----------------------------
(***************************************************************************)
(* The NTLM transport, ClientNTLM of ntlm.go.  Post holds a mutex from     *)
(* begin to end.  It makes sure that there is an HTTP client (pinned to    *)
(* one connection) for the caller's credentials.  With encryption it runs  *)
(* the NTLM handshake when the session is not ready, seals the message,    *)
(* sends it and unseals the answer; an error of the first attempt that     *)
(* points to a stale session resets everything and the attempt is made     *)
(* once more.  Without encryption the client of the ntlmssp library does   *)
(* the handshake by itself, and there is one attempt.                      *)
(*                                                                         *)
(* External: the server authenticates connections, not requests; both ends *)
(* of a session number what they seal, and open only the number they wait  *)
(* for.  The network may break a connection before or after the server     *)
(* acts, and a session may expire on a connection that stays up.           *)
(***************************************************************************)
EXTENDS Naturals, Sequences, FiniteSets

CONSTANTS
    Callers,    \* goroutines that share the transport
    Users,      \* credentials of the clients that share it
    Modes,      \* with encryption (TRUE), without, or both
    MaxPosts    \* bound: requests posted

ASSUME PostsAssumption == MaxPosts \in Nat /\ Modes \subseteq BOOLEAN

VARIABLES
    (* ClientNTLM *)
    encrypts,   \* useEncryption
    raw,        \* rawHTTP # nil; without encryption, ntlmHTTPClient # nil
    cached,     \* cachedUser and cachedPass, in a set
    ready,      \* sessionReady
    session,    \* security session of ntlmClient: keys, numbers out and in
    (* the calls of Post *)
    at,         \* "idle", "waiting" for the mutex, or "holding" it
    user,       \* whose client the caller posts for
    result,     \* what its last Post returned
    step,       \* where the holder is
    attempt,    \* its first or second attempt
    request,    \* the number of its request
    (* connection and server *)
    conn,       \* the pinned connection: "none", or what the server has seen on it
    server,     \* the server's session on it: keys, user, numbers out and in
    made,       \* sessions made so far; each has keys of its own
    executed    \* what the server has carried out, and what became of the answer

clientVars == <<raw, cached, ready, session>>
postVars   == <<at, user, result, step, attempt, request>>
serverVars == <<conn, server, made, executed>>
vars       == <<encrypts, clientVars, postVars, serverVars>>

NoSession == [keys |-> 0, out |-> 0, in |-> 0]
Answers   == {"ok", "fault", "plain", "lost"}
Results   == {"none", "ok", "fault", "network", "refused", "unencrypted", "outOfStep"}
Steps     == {"none", "ensure", "probe", "negotiate", "authenticate", "seal", "send", "exchange"}
Sessions  == [keys : Nat, out : Nat, in : Nat]
Servers   == [keys : Nat, user : SUBSET Users, out : Nat, in : Nat]
Executed  == [request : Nat, for : Users, as : SUBSET Users, keys : Nat, answer : Answers]

TypeOK ==
    /\ encrypts \in Modes
    /\ raw \in BOOLEAN /\ cached \in SUBSET Users /\ ready \in BOOLEAN
    /\ session \in Sessions
    /\ at \in [Callers -> {"idle", "waiting", "holding"}]
    /\ user \in [Callers -> Users] /\ result \in [Callers -> Results]
    /\ step \in Steps /\ attempt \in 1..2 /\ request \in 0..MaxPosts
    /\ conn \in {"none", "open", "challenged", "authenticated"}
    /\ server \in Servers
    /\ made \in Nat
    /\ executed \in Seq(Executed)

Init ==
    /\ encrypts \in Modes
    /\ raw = FALSE /\ cached = {} /\ ready = FALSE /\ session = NoSession
    /\ at = [t \in Callers |-> "idle"]
    /\ user \in [Callers -> Users] /\ result = [t \in Callers |-> "none"]
    /\ step = "none" /\ attempt = 1 /\ request = 0
    /\ conn = "none" /\ server = [keys |-> 0, user |-> {}, out |-> 0, in |-> 0]
    /\ made = 0 /\ executed = <<>>

-----------------------------------------------------------------------------
(* Post takes the mutex and releases it when it returns.                   *)

Holder(t) == at[t] = "holding"

CallPost(t) ==
    /\ at[t] = "idle"
    /\ at' = [at EXCEPT ![t] = "waiting"]
    /\ UNCHANGED <<clientVars, user, result, step, attempt, request, serverVars>>

LockPost(t) ==
    /\ at[t] = "waiting" /\ request < MaxPosts /\ \A v \in Callers : ~Holder(v)
    /\ at' = [at EXCEPT ![t] = "holding"]
    /\ request' = request + 1
    /\ step' = "ensure" /\ attempt' = 1
    /\ UNCHANGED <<clientVars, user, result, serverVars>>

Return(t, r) ==
    /\ at' = [at EXCEPT ![t] = "idle"]
    /\ result' = [result EXCEPT ![t] = r]
    /\ step' = "none"
    /\ UNCHANGED <<user, request>>

\* Fault: the number of attempts is not limited to two.
Retries_Ever(retryable) == retryable

Retries(retryable) == retryable /\ attempt = 1

\* postEncrypted: after a retryable error (isRetryableSessionError) the first
\* attempt is followed by a reset and a second one; others are returned.
AttemptFails(t, r, retryable) ==
    IF Retries(retryable)
    THEN /\ step' = "ensure" /\ attempt' = attempt + 1
         /\ raw' = FALSE /\ ready' = FALSE /\ session' = NoSession
         /\ UNCHANGED <<cached, at, user, result, request>>
    ELSE Return(t, r) /\ UNCHANGED <<clientVars, attempt>>

\* A broken connection is closed; only a net.OpError is retryable.
Break(t, retryable) == AttemptFails(t, "network", retryable) /\ conn' = "none"

-----------------------------------------------------------------------------
(* ensureSession and primeNTLM                                             *)

\* Fault: the credentials are not compared.
HasClient_Any(t) == raw

HasClient(t) == raw /\ cached = {user[t]}

NewClient(t) ==
    /\ raw' = TRUE /\ cached' = {user[t]} /\ ready' = ~encrypts
    /\ session' = NoSession /\ conn' = "none"

\* A session for other credentials, or none, is replaced by a new client with
\* a transport (and so a connection) of its own; without encryption it counts as
\* ready.
Ensure(t) ==
    /\ Holder(t) /\ step = "ensure"
    /\ IF HasClient(t) THEN UNCHANGED <<clientVars, conn>> ELSE NewClient(t)
    /\ step' = IF ~encrypts THEN "exchange" ELSE IF ready' THEN "seal" ELSE "probe"
    /\ UNCHANGED <<at, user, result, attempt, request, server, made, executed>>

\* The server answers 401 to a request on a connection it has not authenticated.
Probe(t) ==
    /\ Holder(t) /\ step = "probe"
    /\ IF conn = "authenticated"
       THEN AttemptFails(t, "refused", FALSE) /\ UNCHANGED conn
       ELSE /\ conn' = "open" /\ step' = "negotiate"
            /\ UNCHANGED <<clientVars, at, user, result, attempt, request>>
    /\ UNCHANGED <<server, made, executed>>

\* Fault: the challenge starts the handshake anew.
Negotiate_Restarts(t) ==
    /\ Holder(t) /\ step = "negotiate"
    /\ conn' = "challenged" /\ step' = "probe"
    /\ UNCHANGED <<clientVars, at, user, result, attempt, request, server, made, executed>>

Negotiate(t) ==
    /\ Holder(t) /\ step = "negotiate"
    /\ conn' = "challenged" /\ step' = "authenticate"
    /\ UNCHANGED <<clientVars, at, user, result, attempt, request, server, made, executed>>

\* The token makes the client's session; the server's is made on arrival, if
\* this is the connection of the challenge.  If not, or for wrong credentials,
\* the answer is 401 again.
Authenticate(t) ==
    /\ Holder(t) /\ step = "authenticate"
    /\ made' = made + 1
    /\ IF conn = "challenged"
       THEN /\ session' = [keys |-> made + 1, out |-> 0, in |-> 0]
            /\ ready' = TRUE /\ step' = "seal"
            /\ conn' = "authenticated"
            /\ server' = [keys |-> made + 1, user |-> cached, out |-> 0, in |-> 0]
            /\ UNCHANGED <<raw, cached, at, user, result, attempt, request>>
       ELSE /\ conn' = "open"
            /\ AttemptFails(t, "refused", FALSE)
            /\ UNCHANGED server
    /\ UNCHANGED executed

HandshakeFails(t) ==
    /\ Holder(t) /\ step \in {"probe", "negotiate", "authenticate"}
    /\ \/ \E retryable \in BOOLEAN : Break(t, retryable)
       \/ AttemptFails(t, "refused", FALSE) /\ UNCHANGED conn
    /\ UNCHANGED <<server, made, executed>>

-----------------------------------------------------------------------------
(* doPostEncrypted: seal, send, unseal                                     *)

Seal(t) ==
    /\ Holder(t) /\ step = "seal"
    /\ session' = [session EXCEPT !.out = @ + 1]
    /\ step' = "send"
    /\ UNCHANGED <<raw, cached, ready, at, user, result, attempt, request, serverVars>>

Sendable(t) == Holder(t) /\ step = "send"

\* The connection breaks, or the transport gives up, before the server acts.
SendFails(t) ==
    /\ Sendable(t)
    /\ \E retryable \in BOOLEAN : Break(t, retryable)
    /\ UNCHANGED <<server, made, executed>>

Opens == server.keys = session.keys /\ server.in + 1 = session.out

\* On a new connection, or after the session has expired, or for a message the
\* server cannot open, the answer is 401: "session expired (401)".
SendRefused(t) ==
    /\ Sendable(t) /\ ~(conn = "authenticated" /\ Opens)
    /\ AttemptFails(t, "refused", TRUE)
    /\ conn' = IF conn = "none" THEN "open" ELSE conn
    /\ UNCHANGED <<server, made, executed>>

\* The server carries the request out, and seals its answer; an answer that is
\* not encrypted (plain) does not come from the session.
Executes(t, answer) ==
    /\ Sendable(t) /\ conn = "authenticated" /\ Opens
    /\ server' = [server EXCEPT !.in = @ + 1, !.out = IF answer = "plain" THEN @ ELSE @ + 1]
    /\ executed' = Append(executed, [request |-> request, for |-> user[t],
                                     as |-> server.user, keys |-> server.keys,
                                     answer |-> answer])
    /\ UNCHANGED made

\* Fault: the answer is returned without being unsealed.
Unwrap_Unread == UNCHANGED session

Unwrap == session' = [session EXCEPT !.in = @ + 1]

\* unsealResponse of a 200: Unwrap opens the answer if it is the next one.
AnswerOk(t) ==
    /\ Executes(t, "ok")
    /\ IF session.in = server.out
       THEN /\ Unwrap
            /\ Return(t, "ok")
            /\ UNCHANGED <<raw, cached, ready, attempt>>
       ELSE AttemptFails(t, "outOfStep", FALSE)
    /\ UNCHANGED conn

\* Fault: a fault is taken for a stale session.
AnswerFault_Retried(t) ==
    /\ Executes(t, "fault")
    /\ AttemptFails(t, "fault", TRUE)
    /\ UNCHANGED conn

\* unsealResponse of any other status: the body is returned as it is, sealed.
AnswerFault(t) ==
    /\ Executes(t, "fault")
    /\ AttemptFails(t, "fault", FALSE)
    /\ UNCHANGED conn

AnswerPlain(t) ==
    /\ Executes(t, "plain")
    /\ AttemptFails(t, "unencrypted", TRUE)
    /\ UNCHANGED conn

AnswerLost(t) ==
    /\ Executes(t, "lost")
    /\ \E retryable \in BOOLEAN : Break(t, retryable)

-----------------------------------------------------------------------------
(* postPlain: the library's client, which authenticates the connection     *)
(* when the server asks it to, with the credentials it was made for.       *)

Exchanging(t) == Holder(t) /\ step = "exchange"

\* The request does not get through, or the handshake fails (status 401).
PlainFails(t) ==
    /\ Exchanging(t)
    /\ \/ Return(t, "network") /\ conn' = "none"
       \/ Return(t, "refused") /\ conn' = "open"
    /\ UNCHANGED <<clientVars, attempt, server, made, executed>>

\* The server carries the request out as the user that the connection belongs to.
PlainAnswered(t) ==
    /\ Exchanging(t)
    /\ IF conn = "authenticated" THEN UNCHANGED <<server, made>>
       ELSE /\ made' = made + 1
            /\ server' = [keys |-> made + 1, user |-> cached, out |-> 0, in |-> 0]
    /\ \E answer \in {"ok", "fault", "lost"} :
          /\ executed' = Append(executed, [request |-> request, for |-> user[t], as |-> server'.user,
                                           keys |-> server'.keys, answer |-> answer])
          /\ Return(t, IF answer = "lost" THEN "network" ELSE answer)
          /\ conn' = IF answer = "lost" THEN "none" ELSE "authenticated"
    /\ UNCHANGED <<clientVars, attempt>>

-----------------------------------------------------------------------------
\* The server, or something on the way, closes the idle connection.
ConnectionDrops ==
    /\ conn # "none" /\ conn' = "none"
    /\ UNCHANGED <<clientVars, postVars, server, made, executed>>

\* The server forgets the session but keeps the connection.
SessionExpires ==
    /\ conn = "authenticated" /\ conn' = "open"
    /\ UNCHANGED <<clientVars, postVars, server, made, executed>>

PostStep(t) ==
    \/ Ensure(t) \/ Probe(t) \/ Negotiate(t) \/ Authenticate(t) \/ HandshakeFails(t)
    \/ Seal(t) \/ SendFails(t) \/ SendRefused(t)
    \/ AnswerOk(t) \/ AnswerFault(t) \/ AnswerPlain(t) \/ AnswerLost(t)
    \/ PlainFails(t) \/ PlainAnswered(t)

Next ==
    /\ \/ \E t \in Callers : CallPost(t) \/ LockPost(t) \/ PostStep(t)
       \/ ConnectionDrops \/ SessionExpires
    /\ UNCHANGED encrypts

Spec == Init /\ [][Next]_vars

-----------------------------------------------------------------------------
\* Clients with different credentials may share a transport: a request is
\* carried out only under the identity of the client it was posted for.
RightIdentity == \A i \in DOMAIN executed : executed[i].as = {executed[i].for}

\* The retry of postEncrypted never repeats a request that was answered: one
\* that is carried out twice had its first answer lost, or it came unencrypted
\* (ntlm.go:346-348, faults "are returned immediately without retry").
RetryOnlyUnanswered ==
    \A i, j \in DOMAIN executed :
        i < j /\ executed[i].request = executed[j].request =>
            j = i + 1 /\ executed[i].answer \in {"lost", "plain"}

\* When nobody is posting, a session that both ends consider established has
\* the same keys and numbers at both, so that the next request can be opened:
\* through retries, lost answers and new sessions, unless an answer of the session
\* itself was a fault, which unsealResponse does not open.
InStep ==
    /\ encrypts /\ step = "none" /\ ready /\ conn = "authenticated"
    /\ \A i \in DOMAIN executed :
          executed[i].keys = session.keys => executed[i].answer # "fault"
    =>  /\ session.keys = server.keys
        /\ session.out = server.in /\ session.in = server.out

-----------------------------------------------------------------------------
(* The inductive invariant behind them.                                    *)

\* One Post at a time is past the mutex, and a step is that of its holder.
MutexInv ==
    /\ \A t, v \in Callers : Holder(t) /\ Holder(v) => t = v
    /\ step = "none" <=> \A t \in Callers : ~Holder(t)

\* A connection that is authenticated belongs to the user whose credentials are
\* cached; and these are the holder's once it is past ensureSession.
IdentityInv ==
    /\ conn = "authenticated" => server.user = cached
    /\ step # "ensure" => \A t \in Callers : Holder(t) => cached = {user[t]}

\* What has been carried out of the holder's request: nothing in its first
\* attempt; in its second, at most the last execution so far, unanswered.
RetryInv ==
    /\ \A i \in DOMAIN executed : executed[i].request <= request
    /\ step # "none" => \A i \in DOMAIN executed :
          executed[i].request = request =>
              attempt = 2 /\ i = Len(executed) /\ executed[i].answer \in {"lost", "plain"}

Unfaulted == \A i \in DOMAIN executed :
                executed[i].keys = session.keys => executed[i].answer # "fault"

\* Where the session stands: keys are never used again; a client that is ready has
\* the keys of an authenticated connection, and its numbers, but for a message
\* sealed and not yet sent, and for faults.
SessionInv ==
    /\ server.keys <= made /\ \A i \in DOMAIN executed : executed[i].keys <= made
    /\ step \in {"probe", "negotiate", "authenticate"} => encrypts /\ ~ready
    /\ step \in {"seal", "send"} => encrypts /\ ready
    /\ step = "exchange" => ~encrypts
    /\ encrypts /\ ready /\ conn = "authenticated" =>
          /\ session.keys = server.keys
          /\ Unfaulted => /\ session.in = server.out
                          /\ session.out = server.in + (IF step = "send" THEN 1 ELSE 0)

IInv == TypeOK /\ MutexInv /\ IdentityInv /\ RightIdentity
              /\ RetryInv /\ RetryOnlyUnanswered /\ SessionInv

-----------------------------------------------------------------------------
\* A Post that has the mutex never goes back but for its one retry, whatever the
\* network does: it returns after at most twice the six stages.
Stage == LET order == [ensure |-> 1, probe |-> 2, negotiate |-> 3,
                       authenticate |-> 4, seal |-> 5, send |-> 6, exchange |-> 6]
         IN  6 * attempt + order[step]
PostAdvances ==
    [][\A t \in Callers : PostStep(t) => ~Holder(t)' \/ Stage' > Stage]_vars
=============================================================================
