# A TLA+ model of go-winrm

go-winrm runs commands on remote Windows machines over the WinRM protocol: it
opens a shell, starts a command in it, polls for its output, feeds its standard
input and terminates it, each with a SOAP request posted over HTTP. The modules
here model the parts of the library that keep state and run concurrently, the
TLC configurations check them on small instances, and six modules of proofs show
that the safety properties hold for every size of the instance.

`PROJECT.json` lists the runs, the source lines that each definition stands for,
the faults that each property detects, and the disagreements found between the
code and its comments and tests.

## 1. Inventory

| Component | Source | State | Operations | Modelled by |
|---|---|---|---|---|
| Command | `command.go` | id, err, exitCode, channels `cancel` and `done`, two `io.Pipe`s, the place of the fetch goroutine | `newCommand`, `fetchOutput`, `slurpAllOutput`, `Close`, `Wait`, `ExitCode`, `Error`, `Read` | `Command`, `CommandPromise`, `CommandProofs` |
| Standard input | `command.go` (`commandWriter`) | mutex, flag `eof` | `Write`, `WriteClose`, `Close` | `Stdin`, `StdinProofs` |
| NTLM session | `ntlm.go`, `encryption.go` | HTTP client, cached credentials, `sessionReady`, security session, pinned connection | `Post`, `ensureSession`, `primeNTLM`, `postEncrypted`, `unsealResponse`, `postPlain` | `NtlmSession`, `NtlmSessionProofs` |
| Client and Shell | `client.go`, `shell.go` | the shell on the server, the goroutines of a Run, what Run returns | `CreateShell`, `ExecuteWithContext`, `Shell.Close`, `RunWithContextWithInput` | `Run` (extends `Command`), `RunProofs` (extends `CommandProofs`) |
| Requests, SOAP | `request.go`, `soap/` | a message under construction | the six `New...Request`, the setters and `Build` of the header, `CreateBodyElement` | `Requests` |
| Transports and answers | `http.go`, `auth.go`, `kerberos.go`, `ntlm.go`, `response.go` | none of their own (one answer at a time) | the `Post` of each transport, `parseResponse`, `ParseSlurpOutputErrResponse` | `Answers` |
| The exchange of a command | all of the above | ids, chunks counted, one Post per goroutine; the server's shells and processes | what each goroutine posts and does with the result | `Exchange` (extends `Requests`, `Answers`), `ExchangeProofs` |
| Parameters and set-up | `parameters.go`, `client.go`, the `Transport` of each transport | `DefaultParameters`, the settings of each transport | `NewParameters`, `NewClient`, `NewClientWithParameters`, decorators, `Transport` | `Setup`, `SetupProofs` |
| Endpoint, namespaces, errors | `endpoint.go`, `soap/namespaces.go`, `error.go` | none | constants, a URL | not modelled |
| Powershell, user names | `powershell.go`, `parseUsernameAndDomain` | none | pure functions on strings | not modelled |
| TLS, dialers, proxies | `client.go`, `http.go`, `auth.go` | configuration | - | not modelled: handed to the standard library (that reading it may fail is in `Setup`) |
| Probe, smoke test | `cmd/` | none | diagnostic programs | the smoke test's use of `DefaultParameters` in `Setup`; else not modelled |

**How they interact.** `Client.Run*` creates a shell, executes a command and
starts three copying goroutines. `newCommand` starts the fetch goroutine, which
posts Receive requests and writes what it gets into the two pipes that the copies
read. The user, or the fetch goroutine itself when the context ends, calls
`Command.Close`: it closes the channel `cancel`, which the fetch loop selects on,
and posts a Signal. Every request is built from the client's Parameters and goes
through `Transporter.Post`; the NTLM transports serialise all of them under one
mutex and keep one session on one connection. Transports come from decorators,
which may hand one transport to several clients.

**What is hard.** The fetch loop, callers of `Close`, readers of the pipes and
the context interleave freely. Pipe writes block. Answers get lost, come too
late, or carry Done more than once. `Close` may be called by several goroutines,
and by the fetch loop. The NTLM session's numbers exist at both ends and must
stay in step through broken connections, retries and changes of credentials. A
run must shut down in order on every path. What a transport returns for a fault
differs from transport to transport, and a Receive that waits for output holds up
everyone else. `DefaultParameters` and transports are shared by whoever likes to.

**What makes each part correct.** The *command*: output in order and complete at
EOF, one end per stream, an honest result that settles, the context's error kept,
an end to polling after Close, termination. *Standard input*: writes arrive
whole and in order, nothing after the end, honest counts. *NTLM*: each request
under its own client's identity, no needless repetition, sessions in step.
*Run*: nothing it started outlives it, no shell left, honest return. *Exchange*:
requests that the server accepts, ids only from its own answers, input read as it
is counted, Done only when all output has been read, no shell left but through
loss, silence told from failure, every Post returns, an end when the shell is
gone. *Set-up*: every post with its own user's transport, server, identity and
settings.

## 2. The modules

### Command

State and code correspond one to one for `struct Command` (`hasId`, `err`,
`exitCode`, `cancelClosed`, `done`). `pc` is the place of the fetch goroutine:

| `pc` | code |
|---|---|
| `select` | the `select` of `fetchOutput` (command.go:79) |
| `closing` | the call of `Close` in the `ctxDone` branch (90) |
| `check`, `receiving` | `check` and the Receive under way (135, 144) |
| `write` | the pipe writes (172-177) |
| `closeStderr`, `closeStdout` | the `CloseWithError` pairs (82-84, 136-137, 159-160, 168-169, 180-181) |
| `cancel`, `finish`, `returned` | the rest of the `cancel` branch, `close(done)`, the end |

`drain` says that the loop took the `cancel` branch, whose single
`slurpAllOutput` is its last. A `select` with two ready cases may take either;
the default is taken only when none is ready. `Close` is three steps (test of
`cancel`, closing of `cancel`, Signal), because nothing makes them atomic; a user
goroutine may call it again when it has returned. Output is numbered chunks, at
most one per stream and answer. A pipe is a rendezvous: a chunk is handed over
only while a reader reads, and the first close of a pipe decides how its stream
ends. The server answers Receive with the next chunks and possibly Done
(`ReceiveOutput`), with an answer that is an OperationTimeout or that comes too
late and is lost (`ReceiveTimesOut`, which records lost output in `lost`), or
with an error (`ReceiveFails`). Only the first Done has the exit code, as
command_test.go:117 records.

`CommandPromise` is what a user relies on: each stream grows while it is open and
ends once, both streams end alike before there is one result, and the result's
error is nil exactly when the streams ended in EOF, unless the command was
stopped. `Command!Promise` maps the pipes and `done` onto it.

`Run` extends `Command` with the goroutine that called `Run` (`Main`, the only
user goroutine that calls `Close`), the shell on the server, the goroutine that
copies stdin and what is returned; the readers of `Command` are the copies of
stdout and stderr, and a reader that leaves is an `io.Copy` whose destination has
failed. `orphan` records that the answer to Create or Delete was lost, when no
client could do anything about the shell.

### Stdin

Each goroutine makes one call. `at` is its place in the call, `written` what it
has counted, `posted` the Sends it has posted, each with whether it has `arrived`
at the server. Only the minimum of the remaining bytes and the envelope's room is
sent at a time (`Chunk`).

A Send that fails may or may not have arrived. A Send without an error has arrived
only where the transport `encrypts`, because there an answer must be unsealed
(`Acknowledged`): plain NTLM and Kerberos take a proxy's page with status 200 for
the server's answer (ntlm.go:337, kerberos.go:127), and basic and certificate
return a refused Send without an error (http.go:107). `Write` counts the chunk all
the same, so `CountHonest` relates the count to what has been sent, and to what has
arrived on the encrypting transport only; `EndArrives` makes the same difference.
That `postEncrypted` may send a chunk twice is in `Exchange`; here a Send is one
call of `sendInput`.

The envelope size is any integer, since `NewParameters` takes any: with 1000 bytes
a chunk is empty and the loop goes on for ever, with less the slice panics
(`ChunkPanics`).

### NtlmSession

`session` and `server` are the two ends of the security session: the identity of
the keys, and how many messages each end has sealed and opened. `conn` is what
the server has seen on the pinned connection. The connection may break at any
time (`ConnectionDrops`), and so may a request before or after it has been
carried out; the session may expire on a connection that stays up. Whether an
error is retried depends on its type (`isRetryableSessionError`), so network
errors are retryable or not by choice. Without encryption (`encrypts` is false)
the library's client authenticates connections by itself, and one attempt is
made (step `exchange`). That both ends number messages is MS-NLMP, and that
faults are sealed like other answers is an assumption on the server. Under it,
`InStep` needs an exemption: `unsealResponse` returns before `Unwrap` when the
status is not 200 (ntlm.go:493), so that the number of a fault is never consumed
and the next answer of the session cannot be opened. It is the same early return
that `exchange_sealed` shows from the side of the command.

### Requests, Answers, Exchange

`Requests` has one operator per constructor of request.go. A message is what the
server can tell of it: the elements of the header that were given a text (`Build`
leaves the others out, as soap/header.go does with the zero value, here `NoText`), the options
and the one element in the body with its ids. Text is an atom. One atom,
`cdataEnd`, stands for a text with `]]>` in it, which comes out of its CDATA
section as another text, `torn`.

`Answers` has an answer as status, content type and content, what `Post` makes of
it on each of the five transports and what the reader of the text, or of the
error, concludes. Contents are classes (`id`, `noId`, `output`, `done`, `fault`,
`OperationTimeout`, a proxy's `page`, which is taken to be no well-formed XML).
`PostByType` is `http.go` and `auth.go`, `PostByStatus` is Kerberos and plain
NTLM, `PostSealed` is encrypted NTLM.

`Exchange` puts them between three goroutines (`main`, `fetch`, `writer`) and a
server. `pc` is the request a goroutine is at, `post` its Post: `waiting` for
`ClientNTLM.mu`, `posted`, `answered`. A Post takes place at the server in one
step (`Serve`), or never (`NetworkFails`); its answer may be lost. The server
keeps a Receive while the process is silent, and answers it only if the request's
header says for how long it may be kept. `troubles` is the set of faults of the
network so far. `main` may close the command at any time, and closes the shell
when the other two are over, as `RunWithContextWithInput` does; how the goroutines
wait for each other is the subject of `Run`, what the context does that of
`Command`. Left out: a request that the server carries out only after the client
has given it up; and errors that a caller cannot tell apart are represented by
one (`ErrorsFor`).

### Setup

Each user takes `DefaultParameters` or a struct of its own, sets a decorator, makes
a client and posts. A transport has the settings that its last `Transport` call
gave it; an NTLM transport also the settings and credentials its session was made
with (`pinned`, `cached`). `last` is what the last post of each user showed. The
steps of different users interleave; inside `NewClientWithParameters` and `Post`
they do not, so the data races of users who share a struct or a transport without
synchronisation are beyond this module.

Definitions whose names end in `_<Word>` and whose comment begins with *Fault*
are not part of the model: each is a variant of the definition after it, with a
mistake the code could have had, and shows that a property detects that mistake.

## 3. Runs

| Run | Instance | Shows |
|---|---|---|
| `cmd_safety` | 1 user, who may call Close repeatedly, + the context's Close, 2 chunks per stream, id present or missing | order, completeness at EOF, no discarded chunk, pipes closed, honest and settled result, context error kept, at most two late Receives; `Command` implements `CommandPromise` |
| `cmd_live` | 1 closer + context, stdout's reader may leave | a cancelled command ends, and so does one whose process has exited, unless the loop is blocked in a write to the stream that nobody reads |
| `cmd_two_closers` | 2 closers | *violation*: overlapping Close calls panic |
| `cmd_ctx_blocked` | stdout's reader may leave | *violation*: the end of the context is not noticed during a blocked write |
| `stdin_calls` | 3 writers, lengths of no and three chunks; envelopes of 153600, 1000 and 999 bytes; a transport that encrypts or one that does not | whole writes, end last, an end that is sent, counts of what was sent without an error, and where the transport encrypts both have arrived; every call returns, but for the envelope without any room |
| `stdin_writeclose` | 1 writer | *violation*: WriteClose writes nothing |
| `ntlm_session` | 2 goroutines, 2 users, 3 posts, encrypted or plain | identity, retry only of unanswered requests, both ends in step, progress of a Post |
| `run_all` | destinations may fail, context may end | order of the shutdown, no shell left, honest return, `cancel` closed once; Run returns after its context has ended |
| `exchange_all` | basic, plain NTLM and encrypted; 2 chunks of input; a plain command line and one with `]]>`; one fault of the network | every request accepted, input as counted, Done means complete, no shell left but through loss, silence polled through where nothing is encrypted; every Post returns, polling of a shell that is gone ends where the status is looked at |
| `exchange_status` | basic, certificate | *violation*: the status is ignored |
| `exchange_sealed` | encrypted | *violation*: an encrypted OperationTimeout is taken for a failure |
| `setup_all` | 2 users, 2 endpoints, all transports, shared or not | own transport, server and identity, unless another has changed `DefaultParameters`; own settings, unless the transport is shared |

**What the violations say.** Each states what a comment of the repository says
and the code does not do; the findings in `PROJECT.json` quote them. One more
disagreement is recorded by a property that holds: the test of Close
(command_test.go:166-179) fails at a second Receive after Close, whereas the code
may answer two (`FewLateReceives`), if the one under way is still unanswered when
Close returns.

**Bounds.** `MaxChunks` = 2 lets chunks of one stream follow each other across
answers, retries and the last poll, which is all that order and completeness can
tell apart; the liveness runs and the violations need one. In `cmd_safety` a user and
the fetch loop, once its context has ended, are two concurrent callers of Close;
`cmd_two_closers` has two user goroutines; the theorems hold for any number of
them. Interchangeable goroutines are treated as symmetric in `ntlm_session`
only, which checks no liveness. One exit code besides 0 and 16001 is enough to see it replaced.
`MaxPosts` = 3 lets a Post run on a session that two earlier ones have used,
broken, left behind refused, or replaced for other credentials. The lengths in
`Stdin` are none and just above the room of two envelopes: a Write has a first, a
middle and a last chunk.
In `exchange_all` two chunks show a gap, a repetition and a truncation of the
input; one fault, at any request and of any kind, is what the retries of the code
are made for; the certificate transport behaves like basic, and Kerberos like
plain NTLM without the mutex, so neither is in the instance. Two users are enough
in `setup_all`, where every property is about one user and one that disturbs it.

**What the exemptions leave open.** Some properties except the very case that a
hazard describes, because there the code does not keep them: `CallsReturn` an
envelope without room, `NoShellLeft` and `OrphansOnlyFromLoss` a lost Create,
`InStep` a fault that was not unsealed, `GoneEnds` the transports that ignore the
status, `RequestsAccepted` a missing shell id and `]]>`, `OwnRequests` a struct or a
transport that others have changed, `InputFaithful` and `CountHonest` a Send that was
swallowed. The models have these cases; the hazards in `PROJECT.json` say so in
their notes and name no property.

**Deadlock** is checked except where the system really stops: a reader that has
left blocks the fetch loop (`cmd_live`, `cmd_ctx_blocked`, `run_all`), and the
bound on posts ends the NTLM instance. In `NtlmSession` progress is the action
property `PostAdvances`: every step of the holder of the mutex ends its Post or
moves it to a later stage, and at every stage some step is possible (a network
failure always is), so that a Post returns after at most twelve steps.

**Fairness.** A goroutine that can run does run, and every `Post` returns. The
transports give up when no header arrives within `Endpoint.Timeout`
(http.go:69, auth.go:46); that a body which has begun comes to its end is an
assumption on the network. Nothing obliges a user to call Close, a reader to
leave, the context to end or the process to exit. `FairLink` (used in `cmd_live`
only) says that not every answer with Done is lost; without it nobody could learn
of the end of a process. Go's mutex hands over to waiting goroutines, hence the strong
fairness of `Lock` in `Stdin` and of `Acquire` in `Exchange`. There, fairness is
stated per goroutine, for whatever its Post can do next; the user need not close
the command, the process need neither write nor exit. `PostsReturn` then depends
on the header `OperationTimeout` alone: without it a Receive keeps the mutex as
long as the process is silent, and the Signal that would end it waits for ever.

## 4. Proofs

Every safety and every action property of the passing runs is also a theorem, for
every value of the constants. The only assumptions are those that the modules make
of their constants, all of them evaluated by TLC on the runs:

| Assumption | Why the code justifies it |
|---|---|
| `CallersAssumption` | the fetch goroutine is not one of the users' goroutines |
| `StreamsAssumption`, `IdsAssumption`, `CodesAssumption` | types: which streams may lose their reader, which ids and exit codes there are; an exit code is any integer (`strconv.Atoi`) |
| `MainAssumption` | in a Run only the goroutine that called it has the command |
| `LengthsAssumption`, `EnvelopeAssumption`, `TransportAssumption` | types: lengths are naturals, an envelope size is any integer, a transport encrypts or not |
| `PostsAssumption` | types |
| `ModesAssumption`, `UsersAssumption` | the mode without a decorator exists; names of structs and transports are distinct |
| `ExchangeAssumption` | types; a command line is not given as `torn`, the name of what `]]>` makes of a text |

None of the properties is inductive. For each module its section "the inductive
invariant" (or "why the safety properties hold") states what has to be known in
between, in named parts; a lemma per part shows that every step keeps it, with a
case per action; the theorem `...Invariance` puts the parts together, and each
property is one of the parts or follows from some. Every inductive invariant was
checked by TLC on the instance of the module's run before it was proved, that of
`Exchange` also with four transports and two faults.

### CommandProofs

| Theorem | Property |
|---|---|
| `TypeCorrect`, `Invariance` | `TypeOK`, `IInv` |
| `ReadersFreed`, `WritesArrive` | `PipesClosedWhenDone`, `NothingDiscarded` |
| `ChunksInOrder`, `EOFMeansComplete` | `InOrder`, `CompleteAtEOF` |
| `SuccessIsHonest`, `ContextErrorStays` | `HonestSuccess`, `ContextErrorKept` |
| `PollingStops` | `FewLateReceives` |
| `CancelFirst` | `CancelBeforeSignal` (only proved, in no run) |
| `ExitCodeStays`, `ResultStays` | `ExitCodeSettles`, `ResultSettles` (action properties) |
| `KeepsPromise` | `Promised`: `Command` implements `CommandPromise` |

`IInv` carries what an earlier step has established to the step that needs it: a
Close past the channel has found `cancel` closed, and a loop in its last poll does
not go back to the select (`CancelInv`); the pipes are open while the loop polls
and are closed one after the other when it leaves (`PipeInv`); after the `ctxDone`
branch only the `cancel` branch is left (`ContextInv`); how many answers can still
come, counted by the place of the loop (`Remaining` in `LateInv`); an exit code is
set only when the loop leaves (`ExitInv`); what Done and errors become on their way
to pipes, exit code and result (`ResultInv`), and that both pipes end alike, with
EOF only after Done (`EndInv`); and where the chunks are: in the readers, in order
and without gaps, but for at most the last one of each stream, which the loop is
about to write (`OutputInv`, with `Passed`; without gaps only if no answer was
lost).

`KeepsPromise` is the refinement, step by step: a chunk that is handed over is the
promise's `Arrive` (`ChunkArrives`), the close of a pipe its `EndStream`, unless the
pipe was closed before (`PipeEnds`), the end of the loop its `Finish`
(`ResultComes`), the closing of `cancel` its `Stop`, and every other action changes
nothing of the promise's view (`PromiseStep`).

### StdinProofs

| Theorem | Property |
|---|---|
| `StdinTypeCorrect`, `OneHolder` | `TypeOK`, `MutexInv` |
| `WholeWrites`, `HonestCount` | `WritesWhole`, `CountHonest` |
| `EndComesLast`, `EndIsTold` | `EndIsLast`, `EndArrives` |

One goroutine at most is past the mutex (`MutexInv`); what the holder has sent is
what it has counted, and was sent last, while those before the mutex have sent
nothing (`SentInv`); on the encrypting transport a chunk that has not arrived is the
last of its Write and was not counted (`ArrivedInv`); the flag `eof` is set before
the end is sent, keeps everyone from sending after it, and tells of a call that has
sent or will send the end (`EofInv`). `Posted` and `WholePosted` say once what a
Send adds to what was sent.

### NtlmSessionProofs

| Theorem | Property |
|---|---|
| `NtlmTypeCorrect`, `OnePost` | `TypeOK`, `MutexInv` |
| `RightUser`, `RetriesUnanswered` | `RightIdentity`, `RetryOnlyUnanswered` |
| `NumbersAgree` | `InStep` |
| `PostGoesOn` | `PostAdvances` (an action property) |

An authenticated connection belongs to the user whose credentials are cached, and
these are the holder's once it is past `ensureSession` (`IdentityInv`); in its first
attempt nothing of the holder's request has been carried out, in its second at most
the last execution so far, unanswered (`RetryInv`); keys are never used again, and a
client that is ready has the keys and the numbers of an authenticated connection,
but for a message that is sealed and not yet sent, and for faults (`SessionInv`).
The last is what makes `InStep`, which speaks of quiet moments only, inductive.

### RunProofs

| Theorem | Property |
|---|---|
| `RunUsesCommand` | `RunSpec => Spec`: what Run does to its command is a behaviour of `Command` |
| `RunInvariance`, `RunTypeCorrect` | `RunIInv`, `RunTypeOK` |
| `RunClosesOnce` | `ClosedOnce` |
| `RunIsQuiet`, `RunLeavesNoShell` | `QuietBeforeDelete`, `NoShellLeft` |
| `RunIsHonest` | `HonestReturn` |

By `RunUsesCommand` all of `IInv` holds in a Run, and `HonestReturn` is its
`HonestSuccess` and `CompleteAtEOF` seen by the caller. On top of it: the fetch loop
closes the command only when the context has ended and Main only when the loop is
over, so that they do not meet (`CloserInv`; any two goroutines may, as
`cmd_two_closers` shows); and what Main has behind it at each place (`MainInv`).

### SetupProofs

| Theorem | Property |
|---|---|
| `SetupInvariance`, `SetupTypeCorrect` | `SetupIInv`, `TypeOK` |
| `PostsAreOwn` | `OwnRequests` |

A struct of one's own has its user's decorator, `DefaultParameters` none or that of
someone who has changed it (`DecoratorInv`); hence which transport a client can have
(`ClientInv`); and a transport with one client has the settings of that one, in its
NTLM session too (`TransportInv`). A post of one user leaves what another user's
last post showed as it was, but may come to share its transport: `SharingStays`
says that sharing never ends.

### ExchangeProofs

| Theorem | Property |
|---|---|
| `ExchangeInvariance`, `ExchangeTypeCorrect` | `ExchangeIInv`, `TypeOK` |
| `ServerAccepts` | `RequestsAccepted` |
| `InputArrives`, `DoneMeansComplete` | `InputFaithful`, `DoneIsComplete` |
| `OrphansExplained` | `OrphansOnlyFromLoss` |
| `SilenceTolerance` | `SilenceToleratedInClear` |

The proof first opens the operators: what each request says to the server
(`RequestSays`, from the setters of the header and `Build`), what the server may do
with it (`ServerAnswers`), and what an action does to a Post and to the server
(`BeginDoes` to `ServerDoes`). After that no proof looks into them again. The
invariant says which goroutine may be at which request (`PhaseInv`); that every
answer is the server's own or a recorded trouble of the network, and is called
invalid only for the reasons that `RequestsAccepted` gives (`AnswerInv`); that the
ids the client holds are of a shell and a process that the server has made, one for
each time it was asked (`IdInv`, with `Served`); that without troubles there is one
shell, closed when Delete is answered (`CloseInv`); that the process is at most one
chunk ahead of the writer's count, and ahead only by the chunk of the Send under
way (`InputInv`); that output which the server has given away has been read, is on
its way to the loop, or was lost with a trouble or with the loop (`DoneInv`); and
`SilenceToleratedInClear` itself.

`InputInv` is where a proof says more than a run: a resent chunk is read twice only
when the first answer to it was a reset, on the encrypted transport, and the run has
one fault only.

### Left to TLC

The liveness properties (`CancelEnds`, `ExitEnds`, `ContextCancelsRemote`,
`CallsReturn`, `CancelReturns`, `PostsReturn`, `GoneEnds`) rest on fairness, and so
on ENABLED, which the prover does not reason about; they are checked on the
instances of the runs only. `PostAdvances` is the part of termination that can be
proved: it is a step-by-step measure. The properties of the runs that expect a
violation are refuted, so there is nothing to prove of them.

## 5. Plan

The model covers the code that keeps state, and its safety is proved. What is left:

1. *Measures for liveness*: action properties in the manner of `PostAdvances`, which
   bound what a fair behaviour can do between two polls of the fetch loop (after
   `cancel` is closed the loop never goes back to the select; after the last answer
   no chunk is left), proved from `IInv`.
2. *Composition*: `Exchange` lets goroutines wait for each other as Run does without
   being Run; a refinement that relates its `fetch` to the fetch loop of `Command`
   would join the two.
3. *Abstract specifications* of the input (`Stdin` implements a sequence of whole
   writes and an end) and of a session (`NtlmSession` implements requests carried out
   one at a time under their own identity), with refinement theorems like
   `KeepsPromise`.

## 6. Not modelled

TLS, proxies, dialers and Kerberos tickets are left to their libraries; the cipher
and the MIME framing of encrypted messages likewise (`NtlmSession` has their
effect). The text of XML, base64 and URLs, `Powershell` and
`parseUsernameAndDomain` are functions on strings without state. That a setting
is passed on is not checked field by field: `ClientAuthRequest` ignores
`Endpoint.TLSServerName` (auth.go:40), and a client with a decorator ignores
`Parameters.Dial` (client.go:55). `cmd/ntlm-probe`
repeats the handshake with calls of its own, one after another. Data races are
named as hazards only where the code leaves them to its user (`ExitCode` and
`Error` before `Wait` has returned).
