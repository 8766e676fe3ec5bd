------------------------------ MODULE Answers ------------------------------
(***************************************************************************)
(* What becomes of one HTTP answer: the Post of each transport turns it    *)
(* into a text or an error (http.go, auth.go, kerberos.go, ntlm.go), and   *)
(* the reader of the text takes it for an id (response.go: CreateShell,    *)
(* ExecuteWithContext) or for output (command.go: slurpAllOutput).         *)
(***************************************************************************)
AllKinds == {"basic", "certificate", "kerberos", "ntlm", "encrypted"}

\* Transports whose Post holds a mutex from beginning to end.
Serialised == {"ntlm", "encrypted"}

\* Transports that do not look at the status of the answer.
Lenient == {"basic", "certificate"}

\* The errors of the net/http client, by what the code looks at: Timeout(),
\* "EOF" in the text, and a net.OpError (the connection was reset or refused).
NetErrors == {"timeout", "EOF", "reset"}

Contents == {"id", "noId", "output", "done", "ok", "fault", "invalid", "OperationTimeout", "page"}

NoAnswer == [status |-> 0, type |-> "none", content |-> "none"]
Broken(error) == [status |-> 0, type |-> "none", content |-> error]
Page(status) == [status |-> status, type |-> "html", content |-> "page"]

\* The server's own answer; on an encrypted session all of them are encrypted,
\* faults too.
Answered(kind, content) ==
    [status  |-> IF content \in {"fault", "invalid", "OperationTimeout"} THEN 500 ELSE 200,
     type    |-> IF kind = "encrypted" THEN "encrypted" ELSE "soap",
     content |-> content]

AnswerType == [status : {0, 200, 500, 502}, type : {"none", "soap", "encrypted", "html"},
               content : Contents \cup NetErrors \cup {"none"}]

-----------------------------------------------------------------------------
(* Post                                                                    *)

Text(content) == [ok |-> TRUE, content |-> content]
Error(content) == [ok |-> FALSE, content |-> content]

\* clientRequest and ClientAuthRequest look at the type only: the deferred
\* function that looks at the status comes after the results are evaluated.
PostByType(a) == IF a.type = "soap" THEN Text(a.content) ELSE Error("type")

\* Fault: the error does not quote the body.
PostByStatus_Bare(a) == IF a.status = 200 THEN Text(a.content) ELSE Error("status")

\* Fault: the status is not looked at.
PostByStatus_Never(a) == Text(a.content)

\* ClientKerberos and postPlain look at the status only; the error quotes the body.
PostByStatus(a) == IF a.status = 200 THEN Text(a.content) ELSE Error(a.content)

\* unsealResponse decrypts the answer only if the status is 200.
PostSealed(a) ==
    IF a.status # 200 THEN Error(IF a.type = "encrypted" THEN "sealed" ELSE a.content)
    ELSE IF a.type = "encrypted" THEN Text(a.content) ELSE Error("type")

PostOf(kind, a) ==
    IF a.status = 0 THEN Error(a.content)
    ELSE CASE kind \in Lenient              -> PostByType(a)
           [] kind \in {"kerberos", "ntlm"} -> PostByStatus(a)
           [] kind = "encrypted"            -> PostSealed(a)

\* Fault: whatever the network says is taken for a stale session.
Retryable_Any(kind, a) == kind = "encrypted" /\ (a.status = 0 \/ a.type # "encrypted")

\* Which answers make postEncrypted begin a new session and post again.
Retryable(kind, a) ==
    /\ kind = "encrypted"
    /\ a.content = "reset" \/ (a.status = 200 /\ a.type # "encrypted")

-----------------------------------------------------------------------------
(* The readers of what Post returns                                        *)

\* Fault: the action of the answer is not looked at.
ParseId_AnyAction(p) ==
    IF ~p.ok THEN "failed" ELSE IF p.content = "id" THEN "id" ELSE "emptyId"

\* parseResponse: the action must be the expected one; an id that is missing
\* from the answer is "" and no error.
ParseId(p) ==
    IF ~p.ok THEN "failed"
    ELSE CASE p.content = "id"    -> "id"
           [] p.content = "noId"  -> "emptyId"
           [] OTHER               -> "failed"

\* ParseSlurpOutputErrResponse: what is well-formed XML and does not say Done is
\* an answer that asks for more, a fault as well.
SlurpText(content) ==
    CASE content = "done" -> "done" [] content = "page" -> "failed" [] OTHER -> "more"

\* Fault: a connection that ends is polled again.
SlurpError_Eager(content) ==
    IF content \in {"timeout", "OperationTimeout", "EOF"} THEN "retry" ELSE "failed"

\* How slurpAllOutput tells the errors of Post apart.
SlurpError(content) ==
    CASE content \in {"timeout", "OperationTimeout"} -> "retry"
      [] content = "EOF"                             -> "EOF"
      [] OTHER                                       -> "failed"

Slurp(p) == IF p.ok THEN SlurpText(p.content) ELSE SlurpError(p.content)
=============================================================================
