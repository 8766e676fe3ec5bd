----------------------------- MODULE Exchange ------------------------------
(***************************************************************************)
(* One client, one shell, one command: the goroutines that post requests   *)
(* over the client's transport at the same time, from the request that     *)
(* each builds to what it makes of the answer, with a server that keeps    *)
(* shells and processes and a network that loses requests and answers.     *)
(*                                                                         *)
(* The goroutines: main (CreateShell, ExecuteWithContext, Command.Close at *)
(* any time after that, Shell.Close), fetch (the loop of fetchOutput) and  *)
(* writer (the copy to Stdin, then its Close).                             *)
(*                                                                         *)
(* External: the server, the process it runs, the network.                 *)
(***************************************************************************)
EXTENDS Naturals, FiniteSets, Requests, Answers

CONSTANTS
    Kinds,      \* transports in use
    Lines,      \* command lines: [command, arguments]
    Chunks,     \* envelopes of input to send
    MaxFaults   \* how many different faults the network may have

\* torn is what CDATA makes of a text, and none itself.
ASSUME ExchangeAssumption ==
    /\ Kinds \subseteq AllKinds
    /\ \A l \in Lines :
          DOMAIN l = {"command", "arguments"} /\ "torn" \notin {l.command} \cup Range(l.arguments)
    /\ Chunks \in Nat /\ MaxFaults \in Nat

VARIABLES
    kind,       \* the client's transport
    line,       \* the command line to execute
    pc,         \* the request each goroutine is at
    shellID,    \* Shell.id, as parsed from the answer to Create
    commandID,  \* Command.id
    acked,      \* how many chunks Stdin.Write counts as written
    got,        \* has the process's output been read?
    ended,      \* how the fetch loop ended, and if by an answer that tells of silence
    post,       \* each goroutine's Post under way
    shells,     \* server: for each shell made, is it open?
    commands,   \* server: the processes started
    troubles    \* the faults of the network so far: <<request, fault>>

client == <<kind, line, pc, shellID, commandID, acked, got, ended>>
server == <<shells, commands>>
vars == <<client, post, server, troubles>>

Actors == {"main", "fetch", "writer"}

\* Where a Post is: at the mutex, with the network and the server, answered.
Posting(stage, tries) == [stage |-> stage, tries |-> tries, answer |-> NoAnswer, id |-> NoText]
NoPost == Posting("none", 0)

\* The ids the server gives to the shells and the processes it makes, in order.
ShellIds == <<"S1", "S2", "S3">>
CommandIds == <<"C1", "C2", "C3">>
Ids(names, made) == {names[n] : n \in DOMAIN made}

Posts == [stage : {"none", "waiting", "posted", "answered"}, tries : 0..2, answer : AnswerType,
          id : {NoText} \cup Range(ShellIds) \cup Range(CommandIds)]

NewProcess(shell) ==
    [shell |-> shell, exited |-> FALSE, out |-> "none", input |-> <<>>, eof |-> FALSE]

Processes == [shell : Nat, exited : BOOLEAN, out : {"none", "pending", "taken"},
              input : Seq(Nat), eof : BOOLEAN]

TypeOK ==
    /\ kind \in Kinds /\ line \in Lines
    /\ pc \in [Actors -> {"none", "Create", "Command", "Delete", "Receive", "last",
                          "Send", "End", "Signal", "over"}]
    /\ shellID \in {NoText} \cup Ids(ShellIds, shells)
    /\ commandID \in {NoText} \cup Ids(CommandIds, commands)
    /\ acked \in 0..Chunks /\ got \in BOOLEAN
    /\ ended \in [as : {"none", "done", "failed", "EOF", "canceled"}, silent : BOOLEAN]
    /\ post \in [Actors -> Posts]
    /\ shells \in Seq(BOOLEAN) /\ commands \in Seq(Processes)
    /\ IsFiniteSet(troubles) /\ Cardinality(troubles) <= MaxFaults

Init ==
    /\ kind \in Kinds /\ line \in Lines
    /\ pc = [a \in Actors |-> IF a = "main" THEN "Create" ELSE "none"]
    /\ shellID = NoText /\ commandID = NoText /\ acked = 0 /\ got = FALSE
    /\ ended = [as |-> "none", silent |-> FALSE]
    /\ post = [a \in Actors |-> NoPost]
    /\ shells = <<>> /\ commands = <<>> /\ troubles = {}

-----------------------------------------------------------------------------
(* The request that a goroutine is at, and its Post                        *)

\* What it says does not change while it is under way: a goroutine has one request
\* at a time, and the ids are set before the request that needs them.
Request(a) ==
    LET url == "url" params == DefaultParameters
    IN  CASE pc[a] = "Create"  -> NewOpenShellRequest(url, params)
          [] pc[a] = "Command" ->
                NewExecuteCommandRequest(url, shellID, line.command, line.arguments, params)
          [] pc[a] \in {"Receive", "last"} ->
                NewGetOutputRequest(url, shellID, commandID, "stdoutStderr", params)
          [] pc[a] = "Send"    -> NewSendInputRequest(url, shellID, commandID, <<acked + 1>>, FALSE, params)
          [] pc[a] = "End"     -> NewSendInputRequest(url, shellID, commandID, <<>>, TRUE, params)
          [] pc[a] = "Signal"  -> NewSignalRequest(url, shellID, commandID, params)
          [] pc[a] = "Delete"  -> NewDeleteShellRequest(url, shellID, params)

\* Close closes the cancel channel before it sends the signal.
cancelled ==
    \/ pc["main"] \in {"Delete", "over"}
    \/ pc["main"] = "Signal" /\ post["main"].stage # "none"

\* The user closes the shell, as RunWithContextWithInput does, when the fetch loop
\* and the copy of the input are over and the command has been closed.
MayBegin(a) ==
    /\ post[a].stage = "none" /\ pc[a] \notin {"none", "over"}
    /\ pc[a] = "Delete" => \A b \in {"fetch", "writer"} : pc[b] \in {"none", "over"}

\* sendRequest: Post, which begins with the mutex on the transports that have one.
\* The fetch loop looks at the cancel channel before each request.
Begin(a) ==
    /\ MayBegin(a)
    /\ pc' = IF a = "fetch" /\ cancelled THEN [pc EXCEPT ![a] = "last"] ELSE pc
    /\ post' = [post EXCEPT ![a] = Posting(IF kind \in Serialised THEN "waiting" ELSE "posted", 1)]
    /\ UNCHANGED <<kind, line, shellID, commandID, acked, got, ended, server, troubles>>

\* ClientNTLM.mu is held until Post returns.
Acquire(a) ==
    /\ post[a].stage = "waiting"
    /\ \A b \in Actors : post[b].stage \notin {"posted", "answered"}
    /\ post' = [post EXCEPT ![a].stage = "posted"]
    /\ UNCHANGED <<client, server, troubles>>

PostsAgain(a) == Retryable(kind, post[a].answer) /\ post[a].tries = 1

\* postEncrypted: a new session, and the same message once more.
Retry(a) ==
    /\ post[a].stage = "answered" /\ PostsAgain(a)
    /\ post' = [post EXCEPT ![a] = Posting("posted", 2)]
    /\ UNCHANGED <<client, server, troubles>>

Result(a) == PostOf(kind, post[a].answer)

\* Post returns to goroutine a, which is at request p and goes on at q.
Returns(a, p, q) ==
    /\ pc[a] = p /\ post[a].stage = "answered" /\ ~PostsAgain(a)
    /\ post' = [post EXCEPT ![a] = NoPost]
    /\ pc' = [pc EXCEPT ![a] = q]
    /\ UNCHANGED <<kind, line, server, troubles>>

-----------------------------------------------------------------------------
(* What each caller makes of the result                                    *)

CreateReturns ==
    LET verdict == ParseId(Result("main"))
    IN  /\ Returns("main", "Create", IF verdict = "failed" THEN "over" ELSE "Command")
        /\ shellID' = IF verdict = "id" THEN post["main"].id ELSE NoText
        /\ UNCHANGED <<commandID, acked, got, ended>>

\* Where the goroutines are when the command is made.
Started == [main |-> "Signal", fetch |-> "Receive", writer |-> IF Chunks > 0 THEN "Send" ELSE "End"]

\* A command without an id: check lets none of its requests be posted.
Refused == [main |-> "Delete", fetch |-> "over", writer |-> "over"]

\* Fault: the shell is forgotten when there is no command.
AfterCommand_NoDelete(verdict) ==
    CASE verdict = "failed" -> [pc EXCEPT !["main"] = "over"]
      [] verdict = "id"     -> Started
      [] OTHER              -> Refused

\* The deferred Shell.Close comes last, with or without a command.
AfterCommand(verdict) ==
    CASE verdict = "failed" -> [pc EXCEPT !["main"] = "Delete"]
      [] verdict = "id"     -> Started
      [] OTHER              -> Refused

CommandReturns ==
    LET verdict == ParseId(Result("main"))
    IN  /\ pc["main"] = "Command" /\ post["main"].stage = "answered" /\ ~PostsAgain("main")
        /\ post' = [post EXCEPT !["main"] = NoPost]
        /\ pc' = AfterCommand(verdict)
        /\ commandID' = IF verdict = "id" THEN post["main"].id ELSE NoText
        /\ ended' = IF verdict = "emptyId" THEN [ended EXCEPT !.as = "failed"] ELSE ended
        /\ UNCHANGED <<kind, line, shellID, acked, got, server, troubles>>

\* slurpAllOutput, and the loop around it.
ReceiveReturns ==
    LET content == post["fetch"].answer.content
        verdict == IF pc["fetch"] = "last" THEN "canceled" ELSE Slurp(Result("fetch"))
        more == verdict \in {"retry", "more"}
    IN  /\ Returns("fetch", pc["fetch"], IF more THEN pc["fetch"] ELSE "over")
        /\ got' = (got \/ (Result("fetch").ok /\ content = "output"))
        /\ ended' = IF more THEN ended
                    ELSE [as |-> verdict,
                          silent |-> verdict # "canceled" /\ content = "OperationTimeout"]
        /\ UNCHANGED <<shellID, commandID, acked>>

\* Fault: one envelope too many.
AfterSend_OneMore(ok) == IF ok /\ acked' <= Chunks THEN "Send" ELSE "End"

\* Write counts what Post returned no error for; it stops at the first error, and
\* the copy with it; Stdin.Close still sends the end of the input.
AfterSend(ok) == IF ok /\ acked' < Chunks THEN "Send" ELSE "End"

SendReturns ==
    LET ok == Result("writer").ok
    IN  /\ acked' = acked + (IF ok THEN 1 ELSE 0)
        /\ Returns("writer", "Send", AfterSend(ok))
        /\ UNCHANGED <<shellID, commandID, got, ended>>

\* The end of the input, the signal and the deletion: the error, if any, changes nothing.
LastReturns(a) ==
    /\ pc[a] \in {"End", "Signal", "Delete"}
    /\ Returns(a, pc[a], IF pc[a] = "Signal" THEN "Delete" ELSE "over")
    /\ UNCHANGED <<shellID, commandID, acked, got, ended>>

-----------------------------------------------------------------------------
(* The server                                                              *)

\* The message has a header and a body, in this order, the elements that every
\* request must have, and no text in it ends early.
WellFormed(r) ==
    /\ r.children = <<"Header", "Body">>
    /\ {"To", "ReplyTo", "MessageID", "Action", "ResourceURI"} \subseteq DOMAIN r.header
    /\ r.body.name = "CommandLine" =>
          "torn" \notin {r.body.Command} \cup {r.body.Arguments[i] : i \in DOMAIN r.body.Arguments}

\* The number of the thing that has this id; 0 if there is none.
Find(id, names, made) ==
    IF id \in Ids(names, made) THEN CHOOSE n \in DOMAIN made : names[n] = id ELSE 0

Shell(r) == IF "ShellId" \in DOMAIN r.header THEN Find(r.header.ShellId, ShellIds, shells) ELSE 0

Process(r) == Find(r.body.CommandId, CommandIds, commands)

\* An answer of the server, and what it has done to its shells and processes.
Does(content, id, ss, cs) == [content |-> content, id |-> id, shells |-> ss, commands |-> cs]
Says(content) == Does(content, NoText, shells, commands)

Taken(n) == [commands EXCEPT ![n].out = "taken"]
Fed(n, input, eof) == [commands EXCEPT ![n].input = @ \o input, ![n].eof = eof]
Exited(n) == [commands EXCEPT ![n].exited = TRUE]
Written(n) == [commands EXCEPT ![n].out = "pending"]

\* What a process that is asked for output is good for.  The server keeps the
\* request while the process is silent; it gives up only if it is told when.
ReceiveOutcomes(r, n) ==
    IF commands[n].out = "pending"
      THEN {Does("output", NoText, shells, Taken(n))}
    ELSE IF commands[n].exited THEN {Says("done")}
    ELSE {Says("OperationTimeout") : e \in DOMAIN r.header \cap {"OperationTimeout"}}

InShell(r, s) ==
    CASE r.header.Action = "Command" ->
            {Says("fault"),
             Does("id", CommandIds[Len(commands) + 1], shells, Append(commands, NewProcess(s)))}
      [] r.header.Action = "Delete"  ->
            {Does("ok", NoText, [shells EXCEPT ![s] = FALSE], commands)}
      [] OTHER -> LET n == Process(r) IN
            IF n = 0 THEN {Says("invalid")}
            ELSE CASE r.header.Action = "Receive" -> ReceiveOutcomes(r, n)
                   [] r.header.Action = "Send"    ->
                         {Does("ok", NoText, shells, Fed(n, r.body.Stream, r.body.End))}
                   [] r.header.Action = "Signal"  -> {Does("ok", NoText, shells, Exited(n))}

\* What the server may do with a request.  It may refuse to make a shell or a
\* process; it finds a request invalid if it does not say what it is about.
Outcomes(r) ==
    IF ~WellFormed(r) THEN {Says("invalid")}
    ELSE IF r.header.Action = "Create"
      THEN {Says("fault"),
            Does("id", ShellIds[Len(shells) + 1], Append(shells, TRUE), commands)}
    ELSE LET s == Shell(r) IN
         IF s = 0 THEN {Says("invalid")} ELSE IF shells[s] THEN InShell(r, s) ELSE {Says("fault")}

\* The processes of a shell that is deleted or expires are killed.
Killed(cs, ss) == [n \in DOMAIN cs |-> IF ss[cs[n].shell] THEN cs[n] ELSE [cs[n] EXCEPT !.exited = TRUE]]

Answer(a, answer, id) ==
    post' = [post EXCEPT ![a].stage = "answered", ![a].answer = answer, ![a].id = id]

\* Only slurpAllOutput tells "EOF" from a timeout, and only it and the encrypted
\* transport tell a reset from either.
ErrorsFor(a) ==
    IF a = "fetch" THEN NetErrors ELSE IF kind = "encrypted" THEN {"timeout", "reset"} ELSE {"timeout"}

Trouble(a, fault) ==
    /\ Cardinality(troubles) < MaxFaults
    /\ <<Request(a).header.Action, fault>> \notin troubles
    /\ troubles' = troubles \cup {<<Request(a).header.Action, fault>>}

\* The server answers; the answer may be lost, and an id be missing from it.
Serve(a) ==
    /\ post[a].stage = "posted"
    /\ \E o \in Outcomes(Request(a)) :
          /\ shells' = o.shells /\ commands' = Killed(o.commands, o.shells)
          /\ \/ Answer(a, Answered(kind, o.content), o.id) /\ UNCHANGED troubles
             \/ \E e \in ErrorsFor(a) : Trouble(a, e) /\ Answer(a, Broken(e), NoText)
             \/ o.content = "id" /\ Trouble(a, "noId") /\ Answer(a, Answered(kind, "noId"), NoText)
    /\ UNCHANGED client

\* The request does not reach the server.
NetworkFails(a) ==
    /\ post[a].stage = "posted"
    /\ \/ \E e \in ErrorsFor(a) : Trouble(a, e) /\ Answer(a, Broken(e), NoText)
       \/ \E s \in {200, 502} : Trouble(a, "page") /\ Answer(a, Page(s), NoText)
    /\ UNCHANGED <<client, server>>

\* The process writes its output, or exits; a shell that is not used expires.
ProcessMoves ==
    /\ \E n \in DOMAIN commands :
          /\ ~commands[n].exited
          /\ \/ commands[n].out = "none" /\ commands' = Written(n)
             \/ commands' = Exited(n)
    /\ UNCHANGED <<client, post, shells, troubles>>

ShellExpires ==
    /\ \E n \in DOMAIN shells : shells[n] /\ shells' = [shells EXCEPT ![n] = FALSE]
    /\ commands' = Killed(commands, shells')
    /\ UNCHANGED <<client, post, troubles>>

-----------------------------------------------------------------------------
Over == pc["main"] = "over" /\ UNCHANGED vars

Caller(a) ==
    \/ a = "main" /\ (CreateReturns \/ CommandReturns)
    \/ a = "fetch" /\ ReceiveReturns
    \/ a = "writer" /\ SendReturns
    \/ LastReturns(a)

Next ==
    \/ \E a \in Actors :
          Begin(a) \/ Acquire(a) \/ Retry(a) \/ Caller(a) \/ Serve(a) \/ NetworkFails(a)
    \/ ProcessMoves \/ ShellExpires
    \/ Over

Spec == Init /\ [][Next]_vars

\* The server answers a request that it may answer, or the network fails; a Post
\* that is answered is tried again or returns; the fetch loop goes on; and a
\* goroutine that waits for the mutex gets it in the end (sync.Mutex is fair to
\* its waiters).  The user need not close the command, and the process need
\* neither write nor exit.
FairSpec ==
    /\ Spec
    /\ \A a \in Actors :
          SF_vars(Acquire(a) \/ Serve(a) \/ NetworkFails(a) \/ Retry(a) \/ Caller(a))
    /\ WF_vars(Begin("fetch"))

-----------------------------------------------------------------------------
\* The process that the client's command id names.
MyProcess == commands[Find(commandID, CommandIds, commands)]

\* The server finds every request of the client valid: each names the shell and
\* the command it is about, by the ids that CreateShell and ExecuteWithContext
\* parsed, in their places (request.go passes two strings side by side), and what
\* was taken for an id was one, not a fault that a transport returns as if all was
\* well (http.go:109).  Not so if the server left the id of the shell out, which
\* nothing checks (client.go:93), or if the command line holds "]]>".
RequestsAccepted ==
    \A a \in Actors : post[a].answer.content = "invalid" =>
        \/ <<"Create", "noId">> \in troubles
        \/ line.command = "cdataEnd"
        \/ \E i \in DOMAIN line.arguments : line.arguments[i] = "cdataEnd"

\* A proxy answered 200 for the server, on a transport that does not look at the
\* type of the answer (ntlm.go:337, kerberos.go:127): the caller takes it for the
\* server's.
Swallowed == kind \in {"kerberos", "ntlm"} /\ <<"Send", "page">> \in troubles

\* The process reads the chunks in order, one of them twice only if an encrypted
\* Send was posted again after its answer was lost (ntlm.go:369), and without
\* gaps; and a chunk that Write counted has reached the process, except on the
\* transports on which a refused Send returns no error (http.go:107).  Both may
\* fail where a proxy's page was taken for the answer to a Send.
InputFaithful ==
    commandID # NoText =>
        LET input == MyProcess.input IN
        /\ \A i \in 2..Len(input) :
              \/ input[i] > input[i - 1]
              \/ input[i] = input[i - 1] /\ kind = "encrypted" /\ <<"Send", "reset">> \in troubles
        /\ Swallowed \/ Range(input) = 1..Cardinality(Range(input))
        /\ Swallowed \/ kind \in Lenient \/ 1..acked \subseteq Range(input)

\* When the fetch loop ends well the process has exited and its output has been
\* read, unless the answer that held it was lost and the loop polled again
\* (command.go:147: a timeout) or Post did (ntlm.go:369: a reset).
DoneIsComplete ==
    ended.as = "done" =>
        /\ MyProcess.exited /\ MyProcess.out # "pending"
        /\ \/ MyProcess.out = "taken" => got
           \/ <<"Receive", "timeout">> \in troubles
           \/ kind = "encrypted" /\ <<"Receive", "reset">> \in troubles

\* When the client is done, a shell that stays open on the server is one whose
\* Create was answered in vain, or whose Delete was lost; in particular a failed
\* Command leaves none.
OrphansOnlyFromLoss ==
    pc["main"] = "over" /\ (\E n \in DOMAIN shells : shells[n]) =>
        \E t \in troubles : t[1] \in {"Create", "Delete"}

\* http.go:107-108 and auth.go:107-108: "if we have different 200 http status
\* code we must replace the error".
StatusReplacesText ==
    \A a \in Actors : post[a].stage = "answered" /\ post[a].answer.status \notin {0, 200} => ~Result(a).ok

\* The loop was ended by an answer that says no more than that the process is silent.
EndedBySilence == ended.silent

\* command.go:151-153: "Operation timeout because there was no command output"
\* makes the loop poll again; a process that is silent for longer than the
\* operation timeout is not taken for one that has failed.
SilenceTolerated == ~EndedBySilence

\* On transports that do not encrypt messages that is so: the text of the fault
\* gets through to slurpAllOutput, as an error or as an answer without output.
SilenceToleratedInClear == kind # "encrypted" => ~EndedBySilence

\* Every Post returns, although a Receive keeps the mutex of the transport as
\* long as the process is silent and everyone else waits for it (ntlm.go:103):
\* the requests say how long the server may keep them.
PostsReturn == \A a \in Actors : []<>(post[a].stage = "none")

\* A shell that no longer exists is not polled for ever, on the transports that
\* look at the status.  (On the others a fault is an answer without output.)
PollsGoneShell ==
    pc["fetch"] \in {"Receive", "last"} /\ kind \notin Lenient /\ TRUE \notin Range(shells)

GoneEnds == []<>~PollsGoneShell
-----------------------------------------------------------------------------
(* Why the safety properties hold: what every step keeps                   *)

\* Which requests are made at the same time; a command is only asked about when its
\* id is known, and a goroutine without a request has no Post.
PhaseInv ==
    /\ pc["main"] \in {"Create", "Command", "Signal", "Delete", "over"}
    /\ pc["fetch"] \in {"none", "Receive", "last", "over"}
    /\ pc["writer"] \in {"none", "Send", "End", "over"}
    /\ pc["fetch"] = "none" <=> pc["writer"] = "none"
    /\ pc["main"] \in {"Create", "Command"} => pc["fetch"] = "none" /\ commandID = NoText
    /\ pc["main"] = "Signal" => commandID # NoText
    /\ pc["fetch"] \in {"Receive", "last"} \/ pc["writer"] \in {"Send", "End"} => commandID # NoText
    /\ pc["main"] = "over" \/ (pc["main"] = "Delete" /\ post["main"].stage # "none") =>
          pc["fetch"] \in {"none", "over"} /\ pc["writer"] \in {"none", "over"}
    /\ \A a \in Actors : pc[a] \in {"none", "over"} => post[a].stage = "none"
    /\ pc["writer"] = "none" => acked = 0
    /\ pc["writer"] = "Send" => acked < Chunks

\* The request that a goroutine is at, as its header names it.
ActionAt(p) == CASE p \in {"Receive", "last"} -> "Receive" [] p = "End" -> "Send" [] OTHER -> p

\* An answer that somebody gives.
Genuine(answer) ==
    LET content == answer.content IN
    /\ content \in Contents \cup NetErrors
    /\ content \in NetErrors => answer = Broken(content)
    /\ content = "page" => \E status \in {200, 502} : answer = Page(status)
    /\ content \in Contents \ {"page"} => answer = Answered(kind, content)

\* An answer is the server's own, or the network's, which is then a trouble.
Told(a) ==
    LET answer == post[a].answer IN
    /\ post[a].stage = "none" => post[a] = NoPost
    /\ post[a].stage = "waiting" => post[a].tries = 1
    /\ post[a].stage # "none" => post[a].tries > 0
    /\ post[a].tries = 2 => kind = "encrypted"
    /\ post[a].stage # "answered" => answer = NoAnswer
    /\ post[a].stage = "answered" =>
          /\ Genuine(answer)
          /\ answer.content \in NetErrors \cup {"page", "noId"} =>
                <<ActionAt(pc[a]), answer.content>> \in troubles

\* And the server calls a request invalid only for the reasons that
\* RequestsAccepted gives.
AnswerInv == (\A a \in Actors : Told(a)) /\ RequestsAccepted

\* How often the server may have been asked for a shell, or for a process.
Served == post["main"].tries - (IF post["main"].stage \in {"waiting", "posted"} THEN 1 ELSE 0)

\* The server makes a shell and a process for each time that it is asked, and the
\* ids that the client has, or is about to parse, are of those.
IdInv ==
    /\ Len(shells) <= IF pc["main"] = "Create" THEN Served ELSE 2
    /\ Len(commands) <= CASE pc["main"] = "Create" -> 0 [] pc["main"] = "Command" -> Served [] OTHER -> 2
    /\ pc["main"] = "Create" => shellID = NoText
    /\ commandID # NoText => shellID # NoText
    /\ shellID = NoText => pc["main"] \in {"Create", "over"} \/ <<"Create", "noId">> \in troubles
    /\ post["main"].answer.content = "id" =>
          /\ post["main"].id # NoText /\ pc["main"] \in {"Create", "Command"}
          /\ pc["main"] = "Create" => post["main"].id \in Ids(ShellIds, shells)
          /\ pc["main"] = "Command" => shellID # NoText /\ post["main"].id \in Ids(CommandIds, commands)

\* Nothing goes wrong with a Create or a Delete: there is at most one shell, the
\* client's own, and it is closed when Delete has been answered.
CloseInv ==
    (\A t \in troubles : t[1] \notin {"Create", "Delete"}) =>
        /\ pc["main"] = "Create" =>
              Len(shells) = (IF post["main"].answer.content = "id" THEN 1 ELSE 0)
        /\ pc["main"] \in {"Command", "Signal", "Delete"} => Len(shells) = 1 /\ shellID # NoText
        /\ (pc["main"] = "Delete" /\ post["main"].stage = "answered") \/ pc["main"] = "over" =>
              \A n \in DOMAIN shells : ~shells[n]

Input == MyProcess.input
LastRead == IF Input = <<>> THEN 0 ELSE Input[Len(Input)]
MyShellOpen == shells[Find(shellID, ShellIds, shells)]
Repeats == kind = "encrypted" /\ <<"Send", "reset">> \in troubles

\* A process is fed only after the client has its id.
Unfed == pc["writer"] = "none" => \A n \in DOMAIN commands : commands[n].input = <<>>

\* Where the process is in the input: at most one chunk ahead of the count, and behind
\* it only when it is fed no more.
InputRead ==
    commandID # NoText =>
        /\ \A i \in DOMAIN Input : Input[i] \in 1..LastRead
        /\ \A i \in 2..Len(Input) : Input[i] > Input[i - 1] \/ (Input[i] = Input[i - 1] /\ Repeats)
        /\ LastRead <= acked + 1
        /\ ~Swallowed => Range(Input) = 1..LastRead
        /\ ~Swallowed /\ (kind \notin Lenient \/ MyShellOpen) => LastRead >= acked

\* Where the writer is while a Send is under way: the process is ahead only if it has
\* read the chunk of this Send; and what the answer says of that.
InputSent ==
    pc["writer"] = "Send" =>
        LET content == post["writer"].answer.content IN
        /\ LastRead > acked =>
              \/ post["writer"].stage = "answered"
              \/ post["writer"].stage = "posted" /\ post["writer"].tries = 2 /\ Repeats
        /\ content \in {"none", "ok", "fault", "page"} \cup NetErrors
        /\ content = "ok" => LastRead > acked
        /\ content = "fault" => ~MyShellOpen
        /\ content = "page" /\ post["writer"].tries = 1 => LastRead <= acked

InputInv == Unfed /\ InputRead /\ InputSent

\* What the fetch loop knows of the process: it has exited when the loop reads Done,
\* and its output, if the server has given it away, has been read, is on its way, or
\* was lost with an answer, which ends the loop or is a trouble.
DoneInv ==
    LET content == post["fetch"].answer.content IN
    /\ pc["fetch"] = "none" => \A n \in DOMAIN commands : commands[n].out # "taken"
    /\ ended.as = "done" => pc["fetch"] = "over" /\ commandID # NoText
    /\ (ended.as = "done" \/ content = "done") /\ commandID # NoText =>
          MyProcess.exited /\ MyProcess.out # "pending"
    /\ commandID # NoText /\ MyProcess.out = "taken" =>
          \/ got
          \/ <<"Receive", "timeout">> \in troubles
          \/ kind = "encrypted" /\ <<"Receive", "reset">> \in troubles
          \/ pc["fetch"] \in {"Receive", "last"} /\ content \in {"output", "EOF", "reset"}
          \/ pc["fetch"] = "over" /\ ended.as # "done"

ExchangeIInv ==
    /\ TypeOK /\ PhaseInv /\ AnswerInv /\ IdInv /\ CloseInv /\ InputInv /\ DoneInv
    /\ SilenceToleratedInClear
=============================================================================
