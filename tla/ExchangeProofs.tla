--------------------------- MODULE ExchangeProofs ---------------------------
(***************************************************************************)
(* Proofs about Exchange: the invariant ExchangeIInv and the safety        *)
(* properties that follow from it, for every transport, command line,      *)
(* number of chunks and number of faults.                                  *)
(*                                                                         *)
(* First what a request says, what the server may do with it and what each *)
(* action does to a Post, so that no later proof looks into them again;    *)
(* then one lemma per part of the invariant, with a step for each action:  *)
(* TypeStep, PhaseStep, AnswerStep, IdStep, CloseStep, InputStep, DoneStep *)
(* and SilenceStep; and the theorems at the end.                           *)
(***************************************************************************)
EXTENDS Exchange, FiniteSetTheorems, SequenceTheorems, TLAPS

-----------------------------------------------------------------------------
(* What a request says.                                                    *)

\* The header of a request about a shell.
LEMMA HeaderSays ==
    ASSUME NEW action
    PROVE  LET h == ShellHeaders("url", shellID, action, DefaultParameters)
           IN  /\ DOMAIN h = HeaderElements
               /\ h["To"] = "url" /\ h["ReplyTo"] = "anonymous" /\ h["MessageID"] = "uuid"
               /\ h["Action"] = action /\ h["ResourceURI"] = "cmd" /\ h["ShellId"] = shellID
BY DEF ShellHeaders, defaultHeaders, SoapHeader, genUUID, HeaderElements

\* The header of the request for a shell.
LEMMA OpeningSays ==
    LET h == [defaultHeaders("url", DefaultParameters) EXCEPT !.Action = "Create", !.ResourceURI = "cmd"]
    IN  /\ DOMAIN h = HeaderElements
        /\ h["To"] = "url" /\ h["ReplyTo"] = "anonymous" /\ h["MessageID"] = "uuid"
        /\ h["Action"] = "Create" /\ h["ResourceURI"] = "cmd"
BY DEF defaultHeaders, SoapHeader, genUUID, HeaderElements

\* What is appended to a message without children comes in this order.
LEMMA HeaderThenBody == Append(Append(<<>>, "Header"), "Body") = <<"Header", "Body">>
<1> DEFINE S == {"Header", "Body"}
<1>1. ASSUME NEW s \in Seq(S), Len(s) = 2 PROVE s = <<s[1], s[2]>>
  BY <1>1
<1>2. PICK f : f = Append(<<>>, "Header")
  OBVIOUS
<1>3. f \in Seq(S) /\ Len(f) = 1 /\ f[1] = "Header"
  BY <1>2, EmptySeq, AppendProperties
<1>4. PICK s : s = Append(f, "Body")
  OBVIOUS
<1>5. s \in Seq(S) /\ Len(s) = 2 /\ s[1] = "Header" /\ s[2] = "Body"
  BY <1>3, <1>4, AppendProperties
<1> HIDE DEF S
<1> QED
  BY <1>1, <1>2, <1>4, <1>5

\* Build keeps of a header what has a text, and the body comes after it.
LEMMA BuildSays ==
    ASSUME NEW h, NEW options, NEW m, m = Build(NewMessage, h, options), DOMAIN h = HeaderElements
    PROVE  /\ DOMAIN m.header = {e \in HeaderElements : h[e] # NoText}
           /\ \A e \in HeaderElements : h[e] # NoText => m.header[e] = h[e]
           /\ NewBody(m).children = <<"Header", "Body">> /\ NewBody(m).header = m.header
           /\ NewBody(m).body = NoElement
<1> DEFINE head == Append(<<>>, "Header")
<1>1. Append(head, "Body") = <<"Header", "Body">>
  BY HeaderThenBody
<1> HIDE DEF head
<1> DEFINE kept == Restrict(h, {e \in HeaderElements : h[e] # NoText})
<1>2. DOMAIN kept = {e \in HeaderElements : h[e] # NoText} /\ \A e \in DOMAIN kept : kept[e] = h[e]
  BY DEF Restrict
<1>3. m = [NewMessage EXCEPT !.children = Append(NewMessage.children, "Header"),
                             !.header = kept, !.options = options]
  BY DEF Build
<1> HIDE DEF kept
<1>4. m = [children |-> head, header |-> kept, options |-> options, body |-> NoElement]
  BY <1>3 DEF NewMessage, head
<1>5. NewBody(m) = [m EXCEPT !.children = <<"Header", "Body">>]
  <2>1. Append(m.children, "Body") = <<"Header", "Body">>
    <3>1. m.children = head
      BY <1>4
    <3> QED
      BY <1>1, <3>1
  <2> QED
    BY <2>1 DEF NewBody
<1>6. NewBody(m) = [children |-> <<"Header", "Body">>, header |-> kept, options |-> options,
                    body |-> NoElement]
  BY <1>4, <1>5
<1> QED
  BY <1>2, <1>4, <1>6

\* The element that is put into the body changes nothing else.
LEMMA ElementSays ==
    ASSUME NEW h, NEW options, NEW element, NEW m, DOMAIN h = HeaderElements,
           m = Build(NewMessage, h, options)
    PROVE  LET c == CreateBodyElement(m, element)
           IN  c.children = <<"Header", "Body">> /\ c.header = m.header /\ c.body = element
<1>1. NewBody(m).children = <<"Header", "Body">> /\ NewBody(m).header = m.header
  BY BuildSays
<1>2. DOMAIN NewBody(m) = {"children", "header", "options", "body"}
  BY DEF NewBody, Build, NewMessage
<1> QED
  BY <1>1, <1>2 DEF CreateBodyElement

Elements == {"To", "ReplyTo", "MessageID", "Action", "ResourceURI"}

\* The message of a request about a shell, whatever is in its body.
LEMMA ShellMessageSays ==
    ASSUME NEW action, action # NoText, NEW options, NEW m,
           m = Build(NewMessage, ShellHeaders("url", shellID, action, DefaultParameters), options)
    PROVE  /\ Elements \subseteq DOMAIN m.header /\ m.header.Action = action
           /\ "ShellId" \in DOMAIN m.header <=> shellID # NoText
           /\ shellID # NoText => m.header.ShellId = shellID
<1>1. PICK h : h = ShellHeaders("url", shellID, action, DefaultParameters)
  OBVIOUS
<1>2. /\ DOMAIN h = HeaderElements
      /\ h["To"] = "url" /\ h["ReplyTo"] = "anonymous" /\ h["MessageID"] = "uuid"
      /\ h["Action"] = action /\ h["ResourceURI"] = "cmd" /\ h["ShellId"] = shellID
  BY <1>1, HeaderSays
<1>3. Elements \cup {"ShellId"} \subseteq HeaderElements
  BY DEF Elements, HeaderElements
<1>4. /\ DOMAIN m.header = {e \in HeaderElements : h[e] # NoText}
      /\ \A e \in HeaderElements : h[e] # NoText => m.header[e] = h[e]
  BY <1>1, <1>2, BuildSays
<1> QED
  BY <1>2, <1>3, <1>4 DEF Elements, NoText

\* What a request about a shell says that has an element in its body, and one that
\* has none.
LEMMA ShellRequestSays ==
    ASSUME NEW action, action # NoText, NEW options, NEW element, NEW r, NEW m,
           m = Build(NewMessage, ShellHeaders("url", shellID, action, DefaultParameters), options),
           r = CreateBodyElement(m, element)
    PROVE  /\ r.children = <<"Header", "Body">> /\ r.body = element
           /\ Elements \subseteq DOMAIN r.header /\ r.header.Action = action
           /\ "ShellId" \in DOMAIN r.header <=> shellID # NoText
           /\ shellID # NoText => r.header.ShellId = shellID
<1>1. DOMAIN ShellHeaders("url", shellID, action, DefaultParameters) = HeaderElements
  BY HeaderSays
<1>2. r.children = <<"Header", "Body">> /\ r.header = m.header /\ r.body = element
  BY <1>1, ElementSays
<1> QED
  BY <1>2, ShellMessageSays

LEMMA EmptyRequestSays ==
    ASSUME NEW action, action # NoText, NEW options, NEW r, NEW m,
           m = Build(NewMessage, ShellHeaders("url", shellID, action, DefaultParameters), options),
           r = NewBody(m)
    PROVE  /\ r.children = <<"Header", "Body">> /\ r.body = NoElement
           /\ Elements \subseteq DOMAIN r.header /\ r.header.Action = action
           /\ "ShellId" \in DOMAIN r.header <=> shellID # NoText
           /\ shellID # NoText => r.header.ShellId = shellID
<1>1. DOMAIN ShellHeaders("url", shellID, action, DefaultParameters) = HeaderElements
  BY HeaderSays
<1>2. r.children = <<"Header", "Body">> /\ r.header = m.header /\ r.body = NoElement
  BY <1>1, BuildSays
<1> QED
  BY <1>2, ShellMessageSays

\* The request for a shell.
LEMMA OpeningRequestSays ==
    LET r == NewOpenShellRequest("url", DefaultParameters)
    IN  /\ r.children = <<"Header", "Body">> /\ r.body.name = "Shell"
        /\ Elements \subseteq DOMAIN r.header /\ r.header.Action = "Create"
<1>1. PICK h : h = [defaultHeaders("url", DefaultParameters) EXCEPT !.Action = "Create", !.ResourceURI = "cmd"]
  OBVIOUS
<1>2. PICK m : m = Build(NewMessage, h, <<"WINRS_NOPROFILE", "WINRS_CODEPAGE">>)
  OBVIOUS
<1>3. PICK element : element = [name |-> "Shell", InputStreams |-> "stdin", OutputStreams |-> "stdoutStderr"]
  OBVIOUS
<1>4. PICK r : r = CreateBodyElement(m, element)
  OBVIOUS
<1>5. r = NewOpenShellRequest("url", DefaultParameters)
  BY <1>1, <1>2, <1>3, <1>4 DEF NewOpenShellRequest
<1>6. /\ DOMAIN h = HeaderElements
      /\ h["To"] = "url" /\ h["ReplyTo"] = "anonymous" /\ h["MessageID"] = "uuid"
      /\ h["Action"] = "Create" /\ h["ResourceURI"] = "cmd"
  BY <1>1, OpeningSays
<1>7. /\ DOMAIN m.header = {e \in HeaderElements : h[e] # NoText}
      /\ \A e \in HeaderElements : h[e] # NoText => m.header[e] = h[e]
  BY <1>2, <1>6, BuildSays
<1>8. Elements \subseteq HeaderElements
  BY DEF Elements, HeaderElements
<1>9. Elements \subseteq DOMAIN m.header /\ m.header.Action = "Create"
  BY <1>6, <1>7, <1>8 DEF Elements, NoText
<1>10. r.children = <<"Header", "Body">> /\ r.header = m.header /\ r.body = element
  BY <1>2, <1>4, <1>6, ElementSays
<1> QED
  BY <1>3, <1>5, <1>9, <1>10

\* The requests that a goroutine may be at.
Requesting == {"Create", "Command", "Receive", "last", "Send", "End", "Signal", "Delete"}

\* Every request has a header and a body and says what it is for; one about a shell
\* names it, if it has a name, and one about a command names that.
LEMMA RequestSays ==
    ASSUME NEW a \in Actors, pc[a] \in Requesting
    PROVE  LET r == Request(a)
           IN  /\ r.children = <<"Header", "Body">>
               /\ Elements \subseteq DOMAIN r.header
               /\ r.header.Action = ActionAt(pc[a])
               /\ pc[a] # "Create" => /\ "ShellId" \in DOMAIN r.header <=> shellID # NoText
                                      /\ shellID # NoText => r.header.ShellId = shellID
               /\ r.body.name = "CommandLine" <=> pc[a] = "Command"
               /\ pc[a] = "Command" =>
                     /\ r.body.Command = CDATA(line.command)
                     /\ r.body.Arguments = [i \in DOMAIN line.arguments |-> CDATA(line.arguments[i])]
               /\ pc[a] \in {"Receive", "last", "Send", "End", "Signal"} => r.body.CommandId = commandID
               /\ pc[a] = "Send" => r.body.Stream = <<acked + 1>> /\ r.body.End = FALSE
               /\ pc[a] = "End" => r.body.Stream = <<>> /\ r.body.End = TRUE
<1> DEFINE Asks(action, element) ==
               /\ Request(a).children = <<"Header", "Body">> /\ Request(a).body = element
               /\ Elements \subseteq DOMAIN Request(a).header /\ Request(a).header.Action = action
               /\ "ShellId" \in DOMAIN Request(a).header <=> shellID # NoText
               /\ shellID # NoText => Request(a).header.ShellId = shellID
<1>1. CASE pc[a] = "Create"
  <2>1. Request(a) = NewOpenShellRequest("url", DefaultParameters)
    BY <1>1 DEF Request
  <2> QED
    BY <1>1, <2>1, OpeningRequestSays DEF ActionAt
<1>2. CASE pc[a] = "Command"
  <2>1. PICK element : element = [name |-> "CommandLine", Command |-> CDATA(line.command),
                                  Arguments |-> [i \in DOMAIN line.arguments |-> CDATA(line.arguments[i])]]
    OBVIOUS
  <2> DEFINE options == <<"WINRS_CONSOLEMODE_STDIN", "WINRS_SKIP_CMD_SHELL">>
  <2>2. PICK m : m = Build(NewMessage, ShellHeaders("url", shellID, "Command", DefaultParameters), options)
    OBVIOUS
  <2>3. Request(a) = CreateBodyElement(m, element)
    BY <1>2, <2>1, <2>2 DEF Request, NewExecuteCommandRequest
  <2>4. Asks("Command", element)
    <3> HIDE DEF options
    <3>1. "Command" # NoText
      BY DEF NoText
    <3> QED
      BY <2>2, <2>3, <3>1, ShellRequestSays
  <2> QED
    BY <1>2, <2>1, <2>4 DEF ActionAt
<1>3. CASE pc[a] \in {"Receive", "last"}
  <2>1. PICK element : element = [name |-> "Receive", CommandId |-> commandID, DesiredStream |-> "stdoutStderr"]
    OBVIOUS
  <2>2. PICK m : m = Build(NewMessage, ShellHeaders("url", shellID, "Receive", DefaultParameters), <<>>)
    OBVIOUS
  <2>3. Request(a) = CreateBodyElement(m, element)
    BY <1>3, <2>1, <2>2 DEF Request, NewGetOutputRequest
  <2>4. Asks("Receive", element)
    <3>1. "Receive" # NoText
      BY DEF NoText
    <3> QED
      BY <2>2, <2>3, <3>1, ShellRequestSays
  <2> QED
    BY <1>3, <2>1, <2>4 DEF ActionAt
<1>4. CASE pc[a] \in {"Send", "End"}
  <2> DEFINE input == IF pc[a] = "Send" THEN <<acked + 1>> ELSE <<>>
  <2>1. PICK element : element = [name |-> "Send", CommandId |-> commandID, Stream |-> input, End |-> (pc[a] = "End")]
    OBVIOUS
  <2>2. PICK m : m = Build(NewMessage, ShellHeaders("url", shellID, "Send", DefaultParameters), <<>>)
    OBVIOUS
  <2>3. Request(a) = CreateBodyElement(m, element)
    BY <1>4, <2>1, <2>2 DEF Request, NewSendInputRequest
  <2>4. Asks("Send", element)
    <3>1. "Send" # NoText
      BY DEF NoText
    <3> QED
      BY <2>2, <2>3, <3>1, ShellRequestSays
  <2>5. Request(a).body.name # "CommandLine" /\ Request(a).body.CommandId = commandID
    BY <2>1, <2>4
  <2>6. Request(a).body.Stream = input /\ Request(a).body.End = (pc[a] = "End")
    <3> HIDE DEF input
    <3> QED
      BY <2>1, <2>4
  <2>7. Request(a).header.Action = ActionAt(pc[a])
    BY <1>4, <2>4 DEF ActionAt
  <2>8. CASE pc[a] = "Send"
    BY <2>4, <2>5, <2>6, <2>7, <2>8
  <2>9. CASE pc[a] = "End"
    BY <2>4, <2>5, <2>6, <2>7, <2>9
  <2> QED
    BY <1>4, <2>8, <2>9
<1>5. CASE pc[a] = "Signal"
  <2>1. PICK element : element = [name |-> "Signal", CommandId |-> commandID, Code |-> "terminate"]
    OBVIOUS
  <2>2. PICK m : m = Build(NewMessage, ShellHeaders("url", shellID, "Signal", DefaultParameters), <<>>)
    OBVIOUS
  <2>3. Request(a) = CreateBodyElement(m, element)
    BY <1>5, <2>1, <2>2 DEF Request, NewSignalRequest
  <2>4. Asks("Signal", element)
    <3>1. "Signal" # NoText
      BY DEF NoText
    <3> QED
      BY <2>2, <2>3, <3>1, ShellRequestSays
  <2> QED
    BY <1>5, <2>1, <2>4 DEF ActionAt
<1>6. CASE pc[a] = "Delete"
  <2>1. PICK m : m = Build(NewMessage, ShellHeaders("url", shellID, "Delete", DefaultParameters), <<>>)
    OBVIOUS
  <2>2. Request(a) = NewBody(m)
    BY <1>6, <2>1 DEF Request, NewDeleteShellRequest
  <2>3. Asks("Delete", NoElement)
    <3>1. "Delete" # NoText
      BY DEF NoText
    <3> QED
      BY <2>1, <2>2, <3>1, EmptyRequestSays
  <2> QED
    BY <1>6, <2>3 DEF ActionAt, NoElement, NoText
<1> QED
  BY <1>1, <1>2, <1>3, <1>4, <1>5, <1>6 DEF Requesting

-----------------------------------------------------------------------------
(* What the server does with a request.                                    *)

\* An id that the server has given away names a thing that it has made.
LEMMA Found ==
    ASSUME NEW names, NEW made, NEW id, id \in Ids(names, made)
    PROVE  Find(id, names, made) \in DOMAIN made /\ names[Find(id, names, made)] = id
<1>1. \E n \in DOMAIN made : names[n] = id
  BY DEF Ids
<1> QED
  BY <1>1 DEF Find

MyShell == Find(shellID, ShellIds, shells)
Mine == Find(commandID, CommandIds, commands)

\* The command line as CDATA leaves it.
Tears == "torn" \in {CDATA(line.command)} \cup
                    {CDATA(line.arguments[i]) : i \in DOMAIN line.arguments}

\* What the server may do with the request of goroutine a.
LEMMA ServerAnswers ==
    ASSUME TypeOK, PhaseInv, NEW a \in Actors, post[a].stage = "posted",
           NEW o \in Outcomes(Request(a))
    PROVE  \/ o = Says("invalid") /\ (\/ pc[a] # "Create" /\ shellID = NoText
                                      \/ pc[a] = "Command" /\ Tears)
           \/ pc[a] \in {"Create", "Command"} /\ o = Says("fault")
           \/ pc[a] # "Create" /\ MyShell \in DOMAIN shells /\ ~shells[MyShell] /\ o = Says("fault")
           \/ /\ pc[a] = "Create"
              /\ o = Does("id", ShellIds[Len(shells) + 1], Append(shells, TRUE), commands)
           \/ /\ pc[a] = "Command" /\ shellID # NoText /\ MyShell \in DOMAIN shells
              /\ o = Does("id", CommandIds[Len(commands) + 1], shells, Append(commands, NewProcess(MyShell)))
           \/ /\ pc[a] \in {"Receive", "last"} /\ Mine \in DOMAIN commands
              /\ \/ commands[Mine].out = "pending" /\ o = Does("output", NoText, shells, Taken(Mine))
                 \/ commands[Mine].out # "pending" /\ commands[Mine].exited /\ o = Says("done")
                 \/ o = Says("OperationTimeout")
           \/ /\ pc[a] \in {"Send", "End"} /\ Mine \in DOMAIN commands
              /\ MyShell \in DOMAIN shells /\ shells[MyShell]
              /\ o = Does("ok", NoText, shells, Fed(Mine, Request(a).body.Stream, Request(a).body.End))
           \/ pc[a] = "Signal" /\ Mine \in DOMAIN commands /\ o = Does("ok", NoText, shells, Exited(Mine))
           \/ /\ pc[a] = "Delete" /\ MyShell \in DOMAIN shells /\ shells[MyShell]
              /\ o = Does("ok", NoText, [shells EXCEPT ![MyShell] = FALSE], commands)
<1> DEFINE r == Request(a)
<1>1. pc[a] \in Requesting
  BY DEF TypeOK, PhaseInv, Requesting
<1>2. /\ r.children = <<"Header", "Body">> /\ Elements \subseteq DOMAIN r.header
      /\ r.header.Action = ActionAt(pc[a])
      /\ pc[a] # "Create" => /\ "ShellId" \in DOMAIN r.header <=> shellID # NoText
                             /\ shellID # NoText => r.header.ShellId = shellID
      /\ r.body.name = "CommandLine" <=> pc[a] = "Command"
      /\ pc[a] = "Command" =>
            /\ r.body.Command = CDATA(line.command)
            /\ r.body.Arguments = [i \in DOMAIN line.arguments |-> CDATA(line.arguments[i])]
      /\ pc[a] \in {"Receive", "last", "Send", "End", "Signal"} => r.body.CommandId = commandID
  BY <1>1, RequestSays
<1> HIDE DEF r
<1>3. ~WellFormed(r) => pc[a] = "Command" /\ Tears
  BY <1>2 DEF WellFormed, Elements, Tears
<1>4. CASE ~WellFormed(r)
  BY <1>3, <1>4 DEF Outcomes, r
<1>5. CASE WellFormed(r) /\ pc[a] = "Create"
  BY <1>2, <1>5 DEF Outcomes, r, ActionAt
<1>6. CASE WellFormed(r) /\ pc[a] # "Create"
  <2>1. o \in IF Shell(r) = 0 THEN {Says("invalid")}
              ELSE IF shells[Shell(r)] THEN InShell(r, Shell(r)) ELSE {Says("fault")}
    BY <1>1, <1>2, <1>6 DEF Outcomes, r, ActionAt, Requesting
  <2>2. CASE shellID = NoText
    BY <1>2, <1>6, <2>1, <2>2 DEF Shell
  <2>3. CASE shellID # NoText
    <3>1. shellID \in Ids(ShellIds, shells)
      BY <2>3 DEF TypeOK
    <3>2. MyShell \in DOMAIN shells /\ Shell(r) = MyShell /\ MyShell # 0
      <4>1. Shell(r) = MyShell
        BY <1>2, <1>6, <2>3 DEF Shell, MyShell
      <4>2. MyShell \in DOMAIN shells
        BY <3>1, Found DEF MyShell
      <4> QED
        BY <4>1, <4>2 DEF TypeOK
    <3>3. CASE ~shells[MyShell]
      BY <1>6, <2>1, <3>2, <3>3
    <3>4. CASE shells[MyShell] /\ o \in InShell(r, MyShell)
      <4>1. CASE pc[a] = "Command"
        BY <1>2, <2>3, <3>2, <3>4, <4>1 DEF InShell, ActionAt
      <4>2. CASE pc[a] = "Delete"
        BY <1>2, <3>2, <3>4, <4>2 DEF InShell, ActionAt
      <4>3. CASE pc[a] \in {"Receive", "last", "Send", "End", "Signal"}
        <5>1. commandID # NoText
          BY <4>3 DEF PhaseInv, TypeOK, Actors
        <5>2. commandID \in Ids(CommandIds, commands)
          BY <5>1 DEF TypeOK
        <5>3. Mine \in DOMAIN commands /\ Process(r) = Mine
          BY <1>2, <4>3, <5>2, Found DEF Mine, Process
        <5>4. Mine # 0
          BY <5>3 DEF TypeOK
        <5>5. CASE pc[a] \in {"Receive", "last"}
          <6>1. o \in ReceiveOutcomes(r, Mine)
            BY <1>2, <3>4, <5>3, <5>4, <5>5 DEF InShell, ActionAt
          <6> QED
            BY <5>3, <5>5, <6>1 DEF ReceiveOutcomes
        <5>6. CASE pc[a] \in {"Send", "End"}
          BY <1>2, <3>2, <3>4, <5>3, <5>4, <5>6 DEF InShell, ActionAt, r
        <5>7. CASE pc[a] = "Signal"
          BY <1>2, <3>4, <5>3, <5>4, <5>7 DEF InShell, ActionAt
        <5> QED
          BY <4>3, <5>5, <5>6, <5>7
      <4> QED
        BY <1>1, <1>6, <4>1, <4>2, <4>3 DEF Requesting
    <3> QED
      BY <2>1, <3>2, <3>3, <3>4
  <2> QED
    BY <2>2, <2>3
<1> QED
  BY <1>4, <1>5, <1>6

\* The ids the server gives are texts.
LEMMA NamesTyped ==
    ASSUME NEW n \in 1..3
    PROVE  /\ ShellIds[n] # NoText /\ ShellIds[n] \in Range(ShellIds)
           /\ CommandIds[n] # NoText /\ CommandIds[n] \in Range(CommandIds)
<1>1. DOMAIN ShellIds = 1..3 /\ DOMAIN CommandIds = 1..3
  BY DEF ShellIds, CommandIds
<1>2. ShellIds[n] # NoText /\ CommandIds[n] # NoText
  <2>1. CASE n = 1
    BY <2>1 DEF ShellIds, CommandIds, NoText
  <2>2. CASE n = 2
    BY <2>2 DEF ShellIds, CommandIds, NoText
  <2>3. CASE n = 3
    BY <2>3 DEF ShellIds, CommandIds, NoText
  <2> QED
    BY <2>1, <2>2, <2>3
<1> QED
  BY <1>1, <1>2 DEF Range

\* One more thing has been made: those made before keep their ids.
LEMMA IdsGrow ==
    ASSUME NEW S, NEW names, NEW made \in Seq(S), NEW e \in S
    PROVE  /\ Ids(names, made) \subseteq Ids(names, Append(made, e))
           /\ names[Len(made) + 1] \in Ids(names, Append(made, e))
<1>1. DOMAIN made = 1..Len(made) /\ DOMAIN Append(made, e) = 1..(Len(made) + 1) /\ Len(made) \in Nat
  BY AppendProperties
<1> QED
  BY <1>1 DEF Ids

\* What a thing is called depends on how many there are, not on what they are like.
LEMMA IdsStay ==
    ASSUME NEW names, NEW made, NEW remade, DOMAIN made = DOMAIN remade
    PROVE  /\ Ids(names, remade) = Ids(names, made)
           /\ \A id : Find(id, names, remade) = Find(id, names, made)
<1>1. Ids(names, remade) = Ids(names, made)
  BY DEF Ids
<1> QED
  BY <1>1 DEF Find

\* Killing processes ends them, and that is all.
LEMMA KilledKeeps ==
    ASSUME NEW cs \in Seq(Processes), NEW ss
    PROVE  /\ Killed(cs, ss) \in Seq(Processes) /\ Len(Killed(cs, ss)) = Len(cs)
           /\ DOMAIN Killed(cs, ss) = DOMAIN cs
           /\ \A n \in DOMAIN cs :
                 /\ Killed(cs, ss)[n].input = cs[n].input /\ Killed(cs, ss)[n].out = cs[n].out
                 /\ cs[n].exited => Killed(cs, ss)[n].exited
<1> DEFINE ks == Killed(cs, ss)
<1>1. DOMAIN cs = 1..Len(cs) /\ Len(cs) \in Nat
  OBVIOUS
<1>2. DOMAIN ks = 1..Len(cs)
  BY <1>1 DEF Killed
<1>3. ASSUME NEW n \in 1..Len(cs)
      PROVE  /\ ks[n] \in Processes
             /\ ks[n].input = cs[n].input /\ ks[n].out = cs[n].out
             /\ cs[n].exited => ks[n].exited
  <2>1. cs[n] \in Processes
    BY <1>1
  <2>2. ks[n] = cs[n] \/ ks[n] = [cs[n] EXCEPT !.exited = TRUE]
    BY <1>1 DEF Killed
  <2> QED
    BY <2>1, <2>2 DEF Processes
<1>4. ks = [n \in 1..Len(cs) |-> ks[n]]
  BY <1>1 DEF Killed
<1> HIDE DEF ks
<1>5. ks \in [1..Len(cs) -> Processes]
  BY <1>2, <1>3, <1>4
<1>6. ks \in Seq(Processes) /\ Len(ks) = Len(cs)
  BY <1>1, <1>2, <1>5
<1> QED
  BY <1>1, <1>2, <1>3, <1>6 DEF ks

\* One process changes.
LEMMA ProcessChanges ==
    ASSUME TypeOK, NEW n \in DOMAIN commands, NEW p \in Processes, NEW cs,
           cs = [commands EXCEPT ![n] = p]
    PROVE  /\ cs \in Seq(Processes) /\ Len(cs) = Len(commands) /\ DOMAIN cs = DOMAIN commands
           /\ cs[n] = p /\ \A m \in DOMAIN commands \ {n} : cs[m] = commands[m]
<1>1. commands \in Seq(Processes) /\ n \in 1..Len(commands)
  BY DEF TypeOK
<1>2. cs \in Seq(Processes) /\ Len(cs) = Len(commands)
  BY <1>1, ExceptSeq
<1> QED
  BY <1>1, <1>2

\* What the server or the process does to the process n.
LEMMA OutputTaken ==
    ASSUME TypeOK, NEW n \in DOMAIN commands
    PROVE  /\ Taken(n) \in Seq(Processes) /\ Len(Taken(n)) = Len(commands)
           /\ Taken(n)[n] = [commands[n] EXCEPT !.out = "taken"]
           /\ \A m \in DOMAIN commands \ {n} : Taken(n)[m] = commands[m]
<1>1. PICK p : p = [commands[n] EXCEPT !.out = "taken"]
  OBVIOUS
<1>2. p \in Processes
  <2>1. commands[n] \in Processes
    BY DEF TypeOK
  <2> QED
    BY <1>1, <2>1 DEF Processes
<1>3. PICK cs : cs = Taken(n)
  OBVIOUS
<1>4. cs = [commands EXCEPT ![n] = p]
  BY <1>1, <1>3 DEF Taken
<1>5. /\ cs \in Seq(Processes) /\ Len(cs) = Len(commands)
      /\ cs[n] = p /\ \A m \in DOMAIN commands \ {n} : cs[m] = commands[m]
  BY <1>2, <1>4, ProcessChanges
<1> QED
  BY <1>1, <1>3, <1>5

LEMMA OutputWritten ==
    ASSUME TypeOK, NEW n \in DOMAIN commands
    PROVE  /\ Written(n) \in Seq(Processes) /\ Len(Written(n)) = Len(commands)
           /\ Written(n)[n] = [commands[n] EXCEPT !.out = "pending"]
           /\ \A m \in DOMAIN commands \ {n} : Written(n)[m] = commands[m]
<1>1. PICK p : p = [commands[n] EXCEPT !.out = "pending"]
  OBVIOUS
<1>2. p \in Processes
  <2>1. commands[n] \in Processes
    BY DEF TypeOK
  <2> QED
    BY <1>1, <2>1 DEF Processes
<1>3. PICK cs : cs = Written(n)
  OBVIOUS
<1>4. cs = [commands EXCEPT ![n] = p]
  BY <1>1, <1>3 DEF Written
<1>5. /\ cs \in Seq(Processes) /\ Len(cs) = Len(commands)
      /\ cs[n] = p /\ \A m \in DOMAIN commands \ {n} : cs[m] = commands[m]
  BY <1>2, <1>4, ProcessChanges
<1> QED
  BY <1>1, <1>3, <1>5

LEMMA ProcessExited ==
    ASSUME TypeOK, NEW n \in DOMAIN commands
    PROVE  /\ Exited(n) \in Seq(Processes) /\ Len(Exited(n)) = Len(commands)
           /\ Exited(n)[n] = [commands[n] EXCEPT !.exited = TRUE]
           /\ \A m \in DOMAIN commands \ {n} : Exited(n)[m] = commands[m]
<1>1. PICK p : p = [commands[n] EXCEPT !.exited = TRUE]
  OBVIOUS
<1>2. p \in Processes
  <2>1. commands[n] \in Processes
    BY DEF TypeOK
  <2> QED
    BY <1>1, <2>1 DEF Processes
<1>3. PICK cs : cs = Exited(n)
  OBVIOUS
<1>4. cs = [commands EXCEPT ![n] = p]
  BY <1>1, <1>3 DEF Exited
<1>5. /\ cs \in Seq(Processes) /\ Len(cs) = Len(commands)
      /\ cs[n] = p /\ \A m \in DOMAIN commands \ {n} : cs[m] = commands[m]
  BY <1>2, <1>4, ProcessChanges
<1> QED
  BY <1>1, <1>3, <1>5

LEMMA ProcessFed ==
    ASSUME TypeOK, NEW n \in DOMAIN commands, NEW input \in Seq(Nat), NEW eof \in BOOLEAN
    PROVE  /\ Fed(n, input, eof) \in Seq(Processes) /\ Len(Fed(n, input, eof)) = Len(commands)
           /\ Fed(n, input, eof)[n].input = commands[n].input \o input
           /\ Fed(n, input, eof)[n].out = commands[n].out
           /\ Fed(n, input, eof)[n].exited = commands[n].exited
           /\ \A m \in DOMAIN commands \ {n} : Fed(n, input, eof)[m] = commands[m]
<1>1. PICK fed : fed = commands[n].input \o input
  OBVIOUS
<1>2. commands[n] \in Processes
  BY DEF TypeOK
<1>3. fed \in Seq(Nat)
  BY <1>1, <1>2, ConcatProperties DEF Processes
<1>4. PICK p : p = [commands[n] EXCEPT !.input = fed, !.eof = eof]
  OBVIOUS
<1>5. p \in Processes /\ p.input = fed /\ p.out = commands[n].out /\ p.exited = commands[n].exited
  BY <1>2, <1>3, <1>4 DEF Processes
<1>6. PICK cs : cs = Fed(n, input, eof)
  OBVIOUS
<1>7. cs = [commands EXCEPT ![n] = p]
  BY <1>1, <1>4, <1>6 DEF Fed
<1>8. /\ cs \in Seq(Processes) /\ Len(cs) = Len(commands)
      /\ cs[n] = p /\ \A m \in DOMAIN commands \ {n} : cs[m] = commands[m]
  <2>1. p \in Processes
    BY <1>5
  <2> QED
    BY <2>1, <1>7, ProcessChanges
<1> QED
  BY <1>1, <1>5, <1>6, <1>8

-----------------------------------------------------------------------------
(* What each action does to a Post.                                        *)

\* One Post changes.
LEMMA PostChanges ==
    ASSUME TypeOK, NEW a \in Actors, NEW p \in Posts, post' = [post EXCEPT ![a] = p]
    PROVE  /\ post' \in [Actors -> Posts] /\ post'[a] = p
           /\ \A b \in Actors : b # a => post'[b] = post[b]
BY DEF TypeOK

\* Answers are what they should be.
LEMMA AnswersTyped ==
    /\ NoAnswer \in AnswerType
    /\ \A e \in NetErrors : Broken(e) \in AnswerType /\ Broken(e).content = e
    /\ \A s \in {200, 502} : /\ Page(s) \in AnswerType /\ Page(s).content = "page"
                             /\ Page(s).status = s
    /\ \A c \in Contents : Answered(kind, c) \in AnswerType /\ Answered(kind, c).content = c
<1>1. NoAnswer \in AnswerType
  BY DEF NoAnswer, AnswerType
<1>2. \A e \in NetErrors : Broken(e) \in AnswerType /\ Broken(e).content = e
  BY DEF Broken, AnswerType
<1>3. \A s \in {200, 502} : /\ Page(s) \in AnswerType /\ Page(s).content = "page"
                            /\ Page(s).status = s
  BY DEF Page, AnswerType, Contents
<1>4. \A c \in Contents : Answered(kind, c) \in AnswerType /\ Answered(kind, c).content = c
  BY DEF Answered, AnswerType, Contents
<1> QED
  BY <1>1, <1>2, <1>3, <1>4

LEMMA PostingTyped ==
    ASSUME NEW s \in {"none", "waiting", "posted"}, NEW n \in 0..2
    PROVE  Posting(s, n) \in Posts
BY AnswersTyped DEF Posting, Posts

LEMMA BeginDoes ==
    ASSUME TypeOK, NEW a \in Actors, Begin(a)
    PROVE  /\ post' \in [Actors -> Posts]
           /\ post'[a].stage \in {"waiting", "posted"} /\ post'[a].tries = 1
           /\ post'[a].answer = NoAnswer /\ post'[a].id = NoText
           /\ \A b \in Actors : b # a => post'[b] = post[b]
           /\ pc' = pc \/ (a = "fetch" /\ pc' = [pc EXCEPT !["fetch"] = "last"])
           /\ post[a].stage = "none" /\ pc[a] \notin {"none", "over"}
           /\ pc[a] = "Delete" => \A b \in {"fetch", "writer"} : pc[b] \in {"none", "over"}
           /\ UNCHANGED <<kind, line, shellID, commandID, acked, got, ended, server, troubles>>
<1>1. PICK s \in {"waiting", "posted"} : post' = [post EXCEPT ![a] = Posting(s, 1)]
  BY DEF Begin
<1>2. Posting(s, 1) \in Posts
  BY PostingTyped
<1>3. PICK p : p = Posting(s, 1)
  OBVIOUS
<1>4. /\ post' \in [Actors -> Posts] /\ post'[a] = p
      /\ \A b \in Actors : b # a => post'[b] = post[b]
  BY <1>1, <1>2, <1>3, PostChanges
<1>5. p.stage \in {"waiting", "posted"} /\ p.tries = 1 /\ p.answer = NoAnswer /\ p.id = NoText
  BY <1>3 DEF Posting
<1>6. pc' = pc \/ (a = "fetch" /\ pc' = [pc EXCEPT !["fetch"] = "last"])
  BY DEF Begin
<1>7. /\ post[a].stage = "none" /\ pc[a] \notin {"none", "over"}
      /\ pc[a] = "Delete" => \A b \in {"fetch", "writer"} : pc[b] \in {"none", "over"}
  BY DEF Begin, MayBegin
<1>8. UNCHANGED <<kind, line, shellID, commandID, acked, got, ended, server, troubles>>
  BY DEF Begin
<1> QED
  BY <1>4, <1>5, <1>6, <1>7, <1>8

LEMMA AcquireDoes ==
    ASSUME TypeOK, NEW a \in Actors, Acquire(a)
    PROVE  /\ post' \in [Actors -> Posts]
           /\ post[a].stage = "waiting" /\ post'[a].stage = "posted" /\ post'[a].tries = post[a].tries
           /\ post'[a].answer = post[a].answer /\ post'[a].id = post[a].id
           /\ \A b \in Actors : b # a => post'[b] = post[b]
           /\ UNCHANGED <<client, server, troubles>>
<1>1. PICK p : p = [post[a] EXCEPT !.stage = "posted"]
  OBVIOUS
<1>2. post[a] \in Posts
  BY DEF TypeOK
<1>3. /\ p \in Posts /\ p.stage = "posted" /\ p.tries = post[a].tries
      /\ p.answer = post[a].answer /\ p.id = post[a].id
  BY <1>1, <1>2 DEF Posts
<1>4. post' = [post EXCEPT ![a] = p]
  BY <1>1 DEF Acquire
<1>5. /\ post' \in [Actors -> Posts] /\ post'[a] = p
      /\ \A b \in Actors : b # a => post'[b] = post[b]
  BY <1>3, <1>4, PostChanges
<1> QED
  BY <1>3, <1>5 DEF Acquire

LEMMA RetryDoes ==
    ASSUME TypeOK, NEW a \in Actors, Retry(a)
    PROVE  /\ post' \in [Actors -> Posts]
           /\ post[a].stage = "answered" /\ post'[a].stage = "posted"
           /\ post[a].tries = 1 /\ post'[a].tries = 2
           /\ post'[a].answer = NoAnswer /\ Retryable(kind, post[a].answer)
           /\ \A b \in Actors : b # a => post'[b] = post[b]
           /\ UNCHANGED <<client, server, troubles>>
<1>1. PICK p : p = Posting("posted", 2)
  OBVIOUS
<1>2. p \in Posts /\ p.stage = "posted" /\ p.tries = 2 /\ p.answer = NoAnswer
  BY <1>1, PostingTyped DEF Posting
<1>3. post' = [post EXCEPT ![a] = p]
  BY <1>1 DEF Retry
<1>4. /\ post' \in [Actors -> Posts] /\ post'[a] = p
      /\ \A b \in Actors : b # a => post'[b] = post[b]
  BY <1>2, <1>3, PostChanges
<1> QED
  BY <1>2, <1>4 DEF Retry, PostsAgain

\* A Post that returns leaves the others alone.
LEMMA ReturnDoes ==
    ASSUME TypeOK, NEW a \in Actors, post' = [post EXCEPT ![a] = NoPost]
    PROVE  /\ post' \in [Actors -> Posts] /\ post'[a] = NoPost
           /\ \A b \in Actors : b # a => post'[b] = post[b]
<1>1. NoPost \in Posts
  BY PostingTyped DEF NoPost
<1> QED
  BY <1>1, PostChanges

\* Those that are made are genuine.
LEMMA AnswersGenuine ==
    /\ \A e \in NetErrors : Genuine(Broken(e))
    /\ \A s \in {200, 502} : Genuine(Page(s))
    /\ \A c \in Contents \ {"page"} : Genuine(Answered(kind, c))
<1>1. Contents \cap NetErrors = {} /\ "page" \in Contents
  BY DEF Contents, NetErrors
<1>2. ASSUME NEW e \in NetErrors PROVE Genuine(Broken(e))
  BY <1>1, AnswersTyped DEF Genuine
<1>3. ASSUME NEW s \in {200, 502} PROVE Genuine(Page(s))
  BY <1>1, AnswersTyped DEF Genuine
<1>4. ASSUME NEW c \in Contents \ {"page"} PROVE Genuine(Answered(kind, c))
  BY <1>1, AnswersTyped DEF Genuine
<1> QED
  BY <1>2, <1>3, <1>4

LEMMA AnswerDoes ==
    ASSUME TypeOK, NEW a \in Actors, NEW x \in AnswerType,
           NEW id \in {NoText} \cup Range(ShellIds) \cup Range(CommandIds), Answer(a, x, id)
    PROVE  /\ post' \in [Actors -> Posts]
           /\ post'[a].stage = "answered" /\ post'[a].tries = post[a].tries
           /\ post'[a].answer = x /\ post'[a].id = id
           /\ \A b \in Actors : b # a => post'[b] = post[b]
<1>1. PICK p : p = [post[a] EXCEPT !.stage = "answered", !.answer = x, !.id = id]
  OBVIOUS
<1>2. post[a] \in Posts
  BY DEF TypeOK
<1>3. p \in Posts /\ p.stage = "answered" /\ p.tries = post[a].tries /\ p.answer = x /\ p.id = id
  BY <1>1, <1>2 DEF Posts
<1>4. post' = [post EXCEPT ![a] = p]
  BY <1>1 DEF Answer
<1>5. /\ post' \in [Actors -> Posts] /\ post'[a] = p
      /\ \A b \in Actors : b # a => post'[b] = post[b]
  BY <1>3, <1>4, PostChanges
<1> QED
  BY <1>3, <1>5

\* A trouble is one more, within the bound.
LEMMA TroubleDoes ==
    ASSUME TypeOK, NEW a \in Actors, pc[a] \in Requesting, NEW fault, Trouble(a, fault)
    PROVE  /\ troubles' = troubles \cup {<<ActionAt(pc[a]), fault>>}
           /\ IsFiniteSet(troubles') /\ Cardinality(troubles') <= MaxFaults
<1>1. Request(a).header.Action = ActionAt(pc[a])
  BY RequestSays
<1> DEFINE t == <<ActionAt(pc[a]), fault>>
<1>2. troubles' = troubles \cup {t} /\ t \notin troubles /\ Cardinality(troubles) < MaxFaults
  BY <1>1 DEF Trouble
<1> HIDE DEF t
<1>3. IsFiniteSet(troubles)
  BY DEF TypeOK
<1>4. IsFiniteSet(troubles') /\ Cardinality(troubles') = Cardinality(troubles) + 1
  BY <1>2, <1>3, FS_AddElement
<1>5. Cardinality(troubles) \in Nat
  BY <1>3, FS_CardinalityType
<1> QED
  BY <1>2, <1>4, <1>5, ExchangeAssumption DEF t

\* The names of the ids.
Names == {NoText} \cup Range(ShellIds) \cup Range(CommandIds)

\* There are names left.
LEMMA FewMade ==
    ASSUME TypeOK, IdInv
    PROVE  /\ Len(shells) + 1 \in 1..3 /\ Len(commands) + 1 \in 1..3
           /\ Served \in Int /\ Served <= 2
<1>1. post["main"].tries \in 0..2 /\ Len(shells) \in Nat /\ Len(commands) \in Nat
  BY DEF TypeOK, Posts, Actors
<1>2. Served \in Int /\ Served <= 2
  BY <1>1 DEF Served
<1>3. Len(shells) <= IF pc["main"] = "Create" THEN Served ELSE 2
  BY DEF IdInv
<1>4. Len(commands) <= CASE pc["main"] = "Create" -> 0 [] pc["main"] = "Command" -> Served [] OTHER -> 2
  BY DEF IdInv
<1>5. Len(shells) <= 2
  BY <1>1, <1>2, <1>3
<1>6. Len(commands) <= 2
  BY <1>1, <1>2, <1>4
<1> QED
  BY <1>1, <1>2, <1>5, <1>6

\* The answer that comes to a Post: the server's own, or one of the network's.
LEMMA AnswerComes ==
    ASSUME TypeOK, PhaseInv, IdInv, NEW a \in Actors, Serve(a) \/ NetworkFails(a)
    PROVE  /\ post' \in [Actors -> Posts] /\ post[a].stage = "posted" /\ pc[a] \in Requesting
           /\ post'[a].stage = "answered" /\ post'[a].tries = post[a].tries
           /\ \A b \in Actors : b # a => post'[b] = post[b]
           /\ UNCHANGED client /\ Genuine(post'[a].answer)
           /\ IsFiniteSet(troubles') /\ Cardinality(troubles') <= MaxFaults
           /\ \/ /\ troubles' = troubles
                 /\ \E o \in Outcomes(Request(a)) :
                       /\ shells' = o.shells /\ commands' = Killed(o.commands, o.shells)
                       /\ o.content \in Contents \ {"page", "noId"}
                       /\ post'[a].answer.content = o.content /\ post'[a].id = o.id
              \/ /\ post'[a].answer.content \in NetErrors \cup {"page", "noId"}
                 /\ troubles' = troubles \cup {<<ActionAt(pc[a]), post'[a].answer.content>>}
                 /\ post'[a].id = NoText
                 /\ \/ UNCHANGED server /\ post'[a].answer.content # "noId"
                    \/ \E o \in Outcomes(Request(a)) :
                          /\ shells' = o.shells /\ commands' = Killed(o.commands, o.shells)
                          /\ o.content \in Contents \ {"page", "noId"}
                          /\ post'[a].answer.content = "noId" => o.content = "id"
                          /\ post'[a].answer.content # "page"
<1>1. post[a].stage = "posted" /\ UNCHANGED client
  BY DEF Serve, NetworkFails
<1>2. pc[a] \in Requesting
  BY <1>1 DEF TypeOK, PhaseInv, Requesting
<1>3. ASSUME NEW o \in Outcomes(Request(a))
      PROVE  o.content \in Contents \ {"page", "noId"} /\ o.id \in Names
  <2>1. /\ ShellIds[Len(shells) + 1] \in Names /\ CommandIds[Len(commands) + 1] \in Names
        /\ NoText \in Names
    BY FewMade, NamesTyped DEF Names
  <2>2. \/ o.content \in {"invalid", "fault", "done", "OperationTimeout", "output", "ok"} /\ o.id = NoText
        \/ o.content = "id" /\ o.id \in {ShellIds[Len(shells) + 1], CommandIds[Len(commands) + 1]}
    <3>1. PICK c, id, ss, cs :
             /\ o = Does(c, id, ss, cs)
             /\ \/ c \in {"invalid", "fault", "done", "OperationTimeout", "output", "ok"} /\ id = NoText
                \/ c = "id" /\ id \in {ShellIds[Len(shells) + 1], CommandIds[Len(commands) + 1]}
      BY <1>1, ServerAnswers, Zenon DEF Says
    <3> QED
      BY <3>1 DEF Does
  <2> QED
    BY <2>1, <2>2 DEF Contents
<1>4. ASSUME NEW e \in NetErrors, Trouble(a, e), Answer(a, Broken(e), NoText)
      PROVE  /\ post' \in [Actors -> Posts] /\ post'[a].stage = "answered"
             /\ post'[a].tries = post[a].tries /\ \A b \in Actors : b # a => post'[b] = post[b]
             /\ Genuine(post'[a].answer) /\ post'[a].answer.content = e /\ post'[a].id = NoText
             /\ troubles' = troubles \cup {<<ActionAt(pc[a]), e>>}
             /\ IsFiniteSet(troubles') /\ Cardinality(troubles') <= MaxFaults
  BY <1>2, <1>4, AnswersTyped, AnswersGenuine, AnswerDoes, TroubleDoes
<1>5. ASSUME NEW s \in {200, 502}, Trouble(a, "page"), Answer(a, Page(s), NoText)
      PROVE  /\ post' \in [Actors -> Posts] /\ post'[a].stage = "answered"
             /\ post'[a].tries = post[a].tries /\ \A b \in Actors : b # a => post'[b] = post[b]
             /\ Genuine(post'[a].answer) /\ post'[a].answer.content = "page" /\ post'[a].id = NoText
             /\ troubles' = troubles \cup {<<ActionAt(pc[a]), "page">>}
             /\ IsFiniteSet(troubles') /\ Cardinality(troubles') <= MaxFaults
  BY <1>2, <1>5, AnswersTyped, AnswersGenuine, AnswerDoes, TroubleDoes
<1>6. ASSUME NEW c \in Contents \ {"page"}, NEW id \in Names, Answer(a, Answered(kind, c), id)
      PROVE  /\ post' \in [Actors -> Posts] /\ post'[a].stage = "answered"
             /\ post'[a].tries = post[a].tries /\ \A b \in Actors : b # a => post'[b] = post[b]
             /\ Genuine(post'[a].answer) /\ post'[a].answer.content = c /\ post'[a].id = id
  BY <1>6, AnswersTyped, AnswersGenuine, AnswerDoes DEF Names
<1>7. CASE NetworkFails(a)
  <2>1. UNCHANGED server
    BY <1>7 DEF NetworkFails
  <2>2. CASE \E e \in ErrorsFor(a) : Trouble(a, e) /\ Answer(a, Broken(e), NoText)
    <3>1. PICK e \in NetErrors : Trouble(a, e) /\ Answer(a, Broken(e), NoText)
      BY <2>2 DEF ErrorsFor, NetErrors
    <3>2. e # "noId"
      BY <3>1 DEF NetErrors
    <3> QED
      BY <1>1, <1>2, <1>4, <2>1, <3>1, <3>2
  <2>3. CASE \E s \in {200, 502} : Trouble(a, "page") /\ Answer(a, Page(s), NoText)
    BY <1>1, <1>2, <1>5, <2>1, <2>3
  <2> QED
    BY <1>7, <2>2, <2>3 DEF NetworkFails
<1>8. CASE Serve(a)
  <2>1. PICK o \in Outcomes(Request(a)) :
          /\ shells' = o.shells /\ commands' = Killed(o.commands, o.shells)
          /\ \/ Answer(a, Answered(kind, o.content), o.id) /\ UNCHANGED troubles
             \/ \E e \in ErrorsFor(a) : Trouble(a, e) /\ Answer(a, Broken(e), NoText)
             \/ /\ o.content = "id" /\ Trouble(a, "noId")
                /\ Answer(a, Answered(kind, "noId"), NoText)
    BY <1>8 DEF Serve
  <2>2. o.content \in Contents \ {"page", "noId"} /\ o.id \in Names
    BY <1>3
  <2>3. CASE Answer(a, Answered(kind, o.content), o.id) /\ UNCHANGED troubles
    <3>1. IsFiniteSet(troubles') /\ Cardinality(troubles') <= MaxFaults
      BY <2>3 DEF TypeOK
    <3> QED
      BY <1>1, <1>2, <1>6, <2>1, <2>2, <2>3, <3>1
  <2>4. CASE \E e \in ErrorsFor(a) : Trouble(a, e) /\ Answer(a, Broken(e), NoText)
    <3>1. PICK e \in NetErrors : Trouble(a, e) /\ Answer(a, Broken(e), NoText)
      BY <2>4 DEF ErrorsFor, NetErrors
    <3>2. e # "page" /\ e # "noId"
      BY <3>1 DEF NetErrors
    <3> QED
      BY <1>1, <1>2, <1>4, <2>1, <2>2, <3>1, <3>2
  <2>5. CASE /\ o.content = "id" /\ Trouble(a, "noId")
             /\ Answer(a, Answered(kind, "noId"), NoText)
    <3>1. "noId" \in Contents \ {"page"} /\ NoText \in Names
      BY DEF Contents, Names
    <3>2. /\ post' \in [Actors -> Posts] /\ post'[a].stage = "answered"
          /\ post'[a].tries = post[a].tries /\ \A b \in Actors : b # a => post'[b] = post[b]
          /\ Genuine(post'[a].answer) /\ post'[a].answer.content = "noId" /\ post'[a].id = NoText
      BY <1>6, <2>5, <3>1
    <3>3. /\ troubles' = troubles \cup {<<ActionAt(pc[a]), "noId">>}
          /\ IsFiniteSet(troubles') /\ Cardinality(troubles') <= MaxFaults
      BY <1>2, <2>5, TroubleDoes
    <3> QED
      BY <1>1, <1>2, <2>1, <2>2, <2>5, <3>2, <3>3
  <2> QED
    BY <2>1, <2>3, <2>4, <2>5
<1> QED
  BY <1>7, <1>8

-----------------------------------------------------------------------------
(* What Post returns and what its callers make of it.                      *)

\* A text that Post returns is the one of the answer.
LEMMA TextsKept ==
    ASSUME NEW k \in AllKinds, NEW x
    PROVE  /\ PostOf(k, x).ok \in BOOLEAN
           /\ PostOf(k, x).ok => PostOf(k, x).content = x.content /\ x.status # 0
<1>1. CASE x.status = 0
  BY <1>1 DEF PostOf, Error
<1>2. CASE x.status # 0 /\ k \in Lenient
  BY <1>2 DEF PostOf, PostByType, Error, Text, Lenient
<1>3. CASE x.status # 0 /\ k \in {"kerberos", "ntlm"}
  BY <1>3 DEF PostOf, PostByStatus, Error, Text, Lenient
<1>4. CASE x.status # 0 /\ k = "encrypted"
  BY <1>4 DEF PostOf, PostSealed, Error, Text, Lenient
<1> QED
  BY <1>1, <1>2, <1>3, <1>4 DEF AllKinds, Lenient

\* The server's own answers: a text if the status is 200, or if the transport does
\* not look at it.
LEMMA AnswersRead ==
    ASSUME NEW k \in AllKinds, NEW c \in Contents \ {"page"}
    PROVE  /\ c \notin {"fault", "invalid", "OperationTimeout"} => PostOf(k, Answered(k, c)) = Text(c)
           /\ c \in {"fault", "invalid", "OperationTimeout"} =>
                 PostOf(k, Answered(k, c)) = IF k \in Lenient THEN Text(c)
                                             ELSE IF k = "encrypted" THEN Error("sealed") ELSE Error(c)
<1> DEFINE x == Answered(k, c)
<1>1. /\ x.status = IF c \in {"fault", "invalid", "OperationTimeout"} THEN 500 ELSE 200
      /\ x.type = IF k = "encrypted" THEN "encrypted" ELSE "soap"
      /\ x.content = c
  BY DEF Answered
<1> HIDE DEF x
<1>2. CASE k \in Lenient
  BY <1>1, <1>2 DEF PostOf, PostByType, Lenient, x
<1>3. CASE k \in {"kerberos", "ntlm"}
  BY <1>1, <1>3 DEF PostOf, PostByStatus, Lenient, x
<1>4. CASE k = "encrypted"
  BY <1>1, <1>4 DEF PostOf, PostSealed, Lenient, x
<1> QED
  BY <1>2, <1>3, <1>4 DEF AllKinds, Lenient

\* An id is taken from an answer that holds one, and from no other.
LEMMA IdsParsed ==
    ASSUME NEW k \in AllKinds, NEW x
    PROVE  /\ ParseId(PostOf(k, x)) \in {"id", "emptyId", "failed"}
           /\ ParseId(PostOf(k, x)) = "id" => x.content = "id"
           /\ ParseId(PostOf(k, x)) = "emptyId" => x.content = "noId"
BY TextsKept DEF ParseId

\* Post returns to a caller.
LEMMA CallerDoes ==
    ASSUME TypeOK, NEW a \in Actors, Caller(a)
    PROVE  /\ post[a].stage = "answered" /\ ~PostsAgain(a)
           /\ post' \in [Actors -> Posts] /\ post'[a] = NoPost
           /\ \A b \in Actors : b # a => post'[b] = post[b]
           /\ UNCHANGED <<kind, line, server, troubles>>
<1>1. post[a].stage = "answered" /\ ~PostsAgain(a) /\ post' = [post EXCEPT ![a] = NoPost]
  BY DEF Caller, CreateReturns, CommandReturns, ReceiveReturns, SendReturns, LastReturns, Returns
<1>2. UNCHANGED <<kind, line, server, troubles>>
  BY DEF Caller, CreateReturns, CommandReturns, ReceiveReturns, SendReturns, LastReturns, Returns, server
<1> QED
  BY <1>1, <1>2, ReturnDoes

-----------------------------------------------------------------------------
(* What a step does to the shells and the processes.                       *)

\* Process n is as before, but that it may have been killed.
Keeps(n) ==
    /\ commands'[n].input = commands[n].input /\ commands'[n].out = commands[n].out
    /\ commands[n].exited => commands'[n].exited
Alike == DOMAIN commands' = DOMAIN commands /\ \A n \in DOMAIN commands : Keeps(n)

\* The effects of a request of goroutine a on the server, with the answer c to it.
Refuses(a, c) ==
    /\ shells' = shells /\ Alike
    /\ \/ c = "invalid" /\ (\/ pc[a] # "Create" /\ shellID = NoText
                            \/ pc[a] = "Command" /\ Tears)
       \/ c = "fault" /\ (\/ pc[a] \in {"Create", "Command"}
                          \/ pc[a] # "Create" /\ MyShell \in DOMAIN shells /\ ~shells[MyShell])
       \/ /\ c = "done" /\ pc[a] \in {"Receive", "last"} /\ Mine \in DOMAIN commands
          /\ commands[Mine].exited /\ commands[Mine].out # "pending"
       \/ c = "OperationTimeout" /\ pc[a] \in {"Receive", "last"}
       \/ c = "ok" /\ pc[a] = "Signal"
Opens(a, c, id) ==
    /\ pc[a] = "Create" /\ c = "id" /\ id = ShellIds[Len(shells) + 1]
    /\ shells' = Append(shells, TRUE) /\ Alike
Starts(a, c, id) ==
    /\ pc[a] = "Command" /\ shellID # NoText /\ c = "id" /\ id = CommandIds[Len(commands) + 1]
    /\ shells' = shells /\ Len(commands') = Len(commands) + 1
    /\ \A n \in DOMAIN commands : Keeps(n)
    /\ commands'[Len(commands) + 1].input = <<>> /\ commands'[Len(commands) + 1].out = "none"
Gives(a, c) ==
    /\ pc[a] \in {"Receive", "last"} /\ c = "output" /\ Mine \in DOMAIN commands
    /\ shells' = shells /\ DOMAIN commands' = DOMAIN commands
    /\ \A n \in DOMAIN commands \ {Mine} : Keeps(n)
    /\ commands'[Mine].out = "taken" /\ commands'[Mine].input = commands[Mine].input
    /\ commands[Mine].out = "pending"
    /\ commands[Mine].exited => commands'[Mine].exited
Feeds(a, c) ==
    /\ pc[a] \in {"Send", "End"} /\ c = "ok" /\ Mine \in DOMAIN commands
    /\ MyShell \in DOMAIN shells /\ shells[MyShell]
    /\ shells' = shells /\ DOMAIN commands' = DOMAIN commands
    /\ \A n \in DOMAIN commands \ {Mine} : Keeps(n)
    /\ commands'[Mine].out = commands[Mine].out
    /\ pc[a] = "Send" => commands'[Mine].input = commands[Mine].input \o <<acked + 1>>
    /\ pc[a] = "End" => commands'[Mine].input = commands[Mine].input
    /\ commands[Mine].exited => commands'[Mine].exited
Closes(a, c) ==
    /\ pc[a] = "Delete" /\ c = "ok" /\ MyShell \in DOMAIN shells
    /\ shells' = [shells EXCEPT ![MyShell] = FALSE] /\ Alike

\* Killing the processes of closed shells is all that happens to others.
LEMMA KilledAlike ==
    ASSUME NEW cs \in Seq(Processes), NEW ss, commands' = Killed(cs, ss)
    PROVE  /\ commands' \in Seq(Processes) /\ Len(commands') = Len(cs)
           /\ DOMAIN commands' = DOMAIN cs
           /\ \A n \in DOMAIN cs :
                 /\ commands'[n].input = cs[n].input /\ commands'[n].out = cs[n].out
                 /\ cs[n].exited => commands'[n].exited
BY KilledKeeps

LEMMA ServerDoes ==
    ASSUME TypeOK, PhaseInv, IdInv, NEW a \in Actors, post[a].stage = "posted",
           NEW o \in Outcomes(Request(a)),
           shells' = o.shells, commands' = Killed(o.commands, o.shells)
    PROVE  /\ shells' \in Seq(BOOLEAN) /\ commands' \in Seq(Processes)
           /\ \/ Refuses(a, o.content) \/ Opens(a, o.content, o.id) \/ Starts(a, o.content, o.id)
              \/ Gives(a, o.content) \/ Feeds(a, o.content) \/ Closes(a, o.content)
<1>1. shells \in Seq(BOOLEAN) /\ commands \in Seq(Processes)
  BY DEF TypeOK
<1> DEFINE Goal == /\ shells' \in Seq(BOOLEAN) /\ commands' \in Seq(Processes)
                   /\ \/ Refuses(a, o.content) \/ Opens(a, o.content, o.id) \/ Starts(a, o.content, o.id)
                      \/ Gives(a, o.content) \/ Feeds(a, o.content) \/ Closes(a, o.content)
<1> SUFFICES Goal
  OBVIOUS
<1>2. ASSUME o.commands = commands
      PROVE  commands' \in Seq(Processes) /\ Alike
  BY <1>1, <1>2, KilledAlike DEF Alike, Keeps
<1>3. ASSUME NEW c, o = Says(c)
      PROVE  /\ o.content = c /\ shells' = shells /\ shells' \in Seq(BOOLEAN)
             /\ commands' \in Seq(Processes) /\ Alike
  BY <1>1, <1>2, <1>3 DEF Says, Does
<1>4. CASE o = Says("invalid") /\ (\/ pc[a] # "Create" /\ shellID = NoText
                                   \/ pc[a] = "Command" /\ Tears)
  BY <1>3, <1>4 DEF Refuses
<1>5. CASE pc[a] \in {"Create", "Command"} /\ o = Says("fault")
  BY <1>3, <1>5 DEF Refuses
<1>6. CASE pc[a] # "Create" /\ MyShell \in DOMAIN shells /\ ~shells[MyShell] /\ o = Says("fault")
  BY <1>3, <1>6 DEF Refuses
<1>7. CASE /\ pc[a] = "Create"
           /\ o = Does("id", ShellIds[Len(shells) + 1], Append(shells, TRUE), commands)
  <2>1. /\ o.content = "id" /\ o.id = ShellIds[Len(shells) + 1]
        /\ shells' = Append(shells, TRUE) /\ o.commands = commands
    BY <1>7 DEF Does
  <2>2. shells' \in Seq(BOOLEAN)
    BY <1>1, <2>1, AppendProperties
  <2> QED
    BY <1>2, <1>7, <2>1, <2>2 DEF Opens
<1>8. CASE /\ pc[a] = "Command" /\ shellID # NoText /\ MyShell \in DOMAIN shells
           /\ o = Does("id", CommandIds[Len(commands) + 1], shells, Append(commands, NewProcess(MyShell)))
  <2>1. PICK p : p = NewProcess(MyShell)
    OBVIOUS
  <2>2. p \in Processes /\ p.input = <<>> /\ p.out = "none"
    BY <1>1, <1>8, <2>1 DEF NewProcess, Processes
  <2>3. PICK cs : cs = Append(commands, p)
    OBVIOUS
  <2>4. /\ cs \in Seq(Processes) /\ Len(cs) = Len(commands) + 1 /\ cs[Len(commands) + 1] = p
        /\ \A n \in 1..Len(commands) : cs[n] = commands[n]
    BY <1>1, <2>2, <2>3, AppendProperties
  <2>5. /\ o.content = "id" /\ o.id = CommandIds[Len(commands) + 1]
        /\ shells' = shells /\ o.commands = cs /\ commands' = Killed(cs, o.shells)
    BY <1>8, <2>1, <2>3 DEF Does
  <2>6. /\ commands' \in Seq(Processes) /\ Len(commands') = Len(cs)
        /\ \A n \in DOMAIN cs :
              /\ commands'[n].input = cs[n].input /\ commands'[n].out = cs[n].out
              /\ cs[n].exited => commands'[n].exited
    BY <2>4, <2>5, KilledAlike
  <2>7. /\ DOMAIN cs = 1..(Len(commands) + 1) /\ DOMAIN commands = 1..Len(commands)
        /\ Len(commands) \in Nat
    BY <1>1, <2>4
  <2>8. \A n \in DOMAIN commands : Keeps(n)
    BY <2>4, <2>6, <2>7 DEF Keeps
  <2>9. /\ Len(commands') = Len(commands) + 1
        /\ commands'[Len(commands) + 1].input = <<>> /\ commands'[Len(commands) + 1].out = "none"
    BY <2>2, <2>4, <2>6, <2>7
  <2>10. pc[a] = "Command" /\ shellID # NoText
    BY <1>8
  <2>11. Starts(a, o.content, o.id)
    BY <2>5, <2>8, <2>9, <2>10 DEF Starts
  <2> QED
    BY <1>1, <2>5, <2>6, <2>11
<1>9. CASE /\ pc[a] \in {"Receive", "last"} /\ Mine \in DOMAIN commands
           /\ \/ commands[Mine].out = "pending" /\ o = Does("output", NoText, shells, Taken(Mine))
              \/ commands[Mine].out # "pending" /\ commands[Mine].exited /\ o = Says("done")
              \/ o = Says("OperationTimeout")
  <2>1. CASE commands[Mine].out = "pending" /\ o = Does("output", NoText, shells, Taken(Mine))
    <3>1. PICK cs : cs = Taken(Mine)
      OBVIOUS
    <3>2. /\ o.content = "output" /\ shells' = shells /\ o.commands = cs
          /\ commands' = Killed(cs, o.shells)
      BY <2>1, <3>1 DEF Does
    <3>3. /\ cs \in Seq(Processes) /\ Len(cs) = Len(commands)
          /\ cs[Mine] = [commands[Mine] EXCEPT !.out = "taken"]
          /\ \A m \in DOMAIN commands \ {Mine} : cs[m] = commands[m]
      BY <1>9, <3>1, OutputTaken
    <3>4. /\ commands' \in Seq(Processes) /\ DOMAIN commands' = DOMAIN cs
          /\ \A n \in DOMAIN cs :
                /\ commands'[n].input = cs[n].input /\ commands'[n].out = cs[n].out
                /\ cs[n].exited => commands'[n].exited
      BY <3>2, <3>3, KilledAlike
    <3>5. DOMAIN cs = DOMAIN commands /\ commands[Mine] \in Processes
      BY <1>1, <1>9, <3>3
    <3>6. /\ cs[Mine].out = "taken" /\ cs[Mine].input = commands[Mine].input
          /\ cs[Mine].exited = commands[Mine].exited
      BY <3>3, <3>5 DEF Processes
    <3>7. \A n \in DOMAIN commands \ {Mine} : Keeps(n)
      BY <3>3, <3>4, <3>5 DEF Keeps
    <3> QED
      BY <1>1, <1>9, <2>1, <3>2, <3>4, <3>5, <3>6, <3>7 DEF Gives
  <2>2. CASE commands[Mine].out # "pending" /\ commands[Mine].exited /\ o = Says("done")
    BY <1>3, <1>9, <2>2 DEF Refuses
  <2>3. CASE o = Says("OperationTimeout")
    BY <1>3, <1>9, <2>3 DEF Refuses
  <2> QED
    BY <1>9, <2>1, <2>2, <2>3
<1>10. CASE /\ pc[a] \in {"Send", "End"} /\ Mine \in DOMAIN commands
            /\ MyShell \in DOMAIN shells /\ shells[MyShell]
            /\ o = Does("ok", NoText, shells, Fed(Mine, Request(a).body.Stream, Request(a).body.End))
  <2>1. PICK input : input = Request(a).body.Stream
    OBVIOUS
  <2>2. PICK eof : eof = Request(a).body.End
    OBVIOUS
  <2>3. /\ pc[a] = "Send" => input = <<acked + 1>> /\ eof = FALSE
        /\ pc[a] = "End" => input = <<>> /\ eof = TRUE
    BY <1>10, <2>1, <2>2, RequestSays DEF Requesting
  <2>4. acked + 1 \in Nat
    BY ExchangeAssumption DEF TypeOK
  <2>5. input \in Seq(Nat) /\ eof \in BOOLEAN
    <3>1. ASSUME NEW n \in Nat PROVE <<n>> \in Seq(Nat)
      OBVIOUS
    <3>2. <<acked + 1>> \in Seq(Nat)
      BY <2>4, <3>1, Zenon
    <3>3. <<>> \in Seq(Nat)
      BY EmptySeq
    <3>4. input \in {<<acked + 1>>, <<>>} /\ eof \in {TRUE, FALSE}
      BY <1>10, <2>3, Zenon
    <3> QED
      BY <3>2, <3>3, <3>4, Zenon
  <2>6. PICK cs : cs = Fed(Mine, input, eof)
    OBVIOUS
  <2>7. /\ o.content = "ok" /\ shells' = shells /\ o.commands = cs
        /\ commands' = Killed(cs, o.shells)
    BY <1>10, <2>1, <2>2, <2>6 DEF Does
  <2>8. /\ cs \in Seq(Processes) /\ Len(cs) = Len(commands)
        /\ cs[Mine].input = commands[Mine].input \o input
        /\ cs[Mine].out = commands[Mine].out /\ cs[Mine].exited = commands[Mine].exited
        /\ \A m \in DOMAIN commands \ {Mine} : cs[m] = commands[m]
    BY <1>10, <2>5, <2>6, ProcessFed
  <2>9. /\ commands' \in Seq(Processes) /\ DOMAIN commands' = DOMAIN cs
        /\ \A n \in DOMAIN cs :
              /\ commands'[n].input = cs[n].input /\ commands'[n].out = cs[n].out
              /\ cs[n].exited => commands'[n].exited
    BY <2>7, <2>8, KilledAlike
  <2>10. DOMAIN cs = DOMAIN commands /\ commands[Mine] \in Processes
    BY <1>1, <1>10, <2>8
  <2>11. \A n \in DOMAIN commands \ {Mine} : Keeps(n)
    BY <2>8, <2>9, <2>10 DEF Keeps
  <2>12. /\ pc[a] = "Send" => cs[Mine].input = commands[Mine].input \o <<acked + 1>>
         /\ pc[a] = "End" => cs[Mine].input = commands[Mine].input
    <3>1. commands[Mine].input \in Seq(Nat)
      BY <2>10 DEF Processes
    <3>2. commands[Mine].input \o <<>> = commands[Mine].input
      BY <3>1, ConcatEmptySeq
    <3> QED
      BY <2>3, <2>8, <3>2
  <2> QED
    BY <1>1, <1>10, <2>7, <2>8, <2>9, <2>10, <2>11, <2>12 DEF Feeds
<1>11. CASE pc[a] = "Signal" /\ Mine \in DOMAIN commands /\ o = Does("ok", NoText, shells, Exited(Mine))
  <2>1. PICK cs : cs = Exited(Mine)
    OBVIOUS
  <2>2. /\ o.content = "ok" /\ shells' = shells /\ o.commands = cs
        /\ commands' = Killed(cs, o.shells)
    BY <1>11, <2>1 DEF Does
  <2>3. /\ cs \in Seq(Processes) /\ Len(cs) = Len(commands)
        /\ cs[Mine] = [commands[Mine] EXCEPT !.exited = TRUE]
        /\ \A m \in DOMAIN commands \ {Mine} : cs[m] = commands[m]
    BY <1>11, <2>1, ProcessExited
  <2>4. /\ commands' \in Seq(Processes) /\ DOMAIN commands' = DOMAIN cs
        /\ \A n \in DOMAIN cs :
              /\ commands'[n].input = cs[n].input /\ commands'[n].out = cs[n].out
              /\ cs[n].exited => commands'[n].exited
    BY <2>2, <2>3, KilledAlike
  <2>5. DOMAIN cs = DOMAIN commands /\ commands[Mine] \in Processes
    BY <1>1, <1>11, <2>3
  <2>6. cs[Mine].input = commands[Mine].input /\ cs[Mine].out = commands[Mine].out /\ cs[Mine].exited
    BY <2>3, <2>5 DEF Processes
  <2>7. Alike
    <3>1. ASSUME NEW n \in DOMAIN commands PROVE Keeps(n)
      <4>1. CASE n = Mine
        BY <2>4, <2>5, <2>6, <4>1 DEF Keeps
      <4>2. CASE n # Mine
        BY <2>3, <2>4, <2>5, <4>2 DEF Keeps
      <4> QED
        BY <4>1, <4>2
    <3> QED
      BY <2>4, <2>5, <3>1 DEF Alike
  <2> QED
    <3>1. Refuses(a, o.content)
      <4>1. pc[a] = "Signal"
        BY <1>11
      <4> QED
        BY <2>2, <2>7, <4>1 DEF Refuses
    <3> QED
      BY <1>1, <2>2, <2>4, <3>1
<1>12. CASE /\ pc[a] = "Delete" /\ MyShell \in DOMAIN shells /\ shells[MyShell]
            /\ o = Does("ok", NoText, [shells EXCEPT ![MyShell] = FALSE], commands)
  <2>1. o.content = "ok" /\ shells' = [shells EXCEPT ![MyShell] = FALSE] /\ o.commands = commands
    BY <1>12 DEF Does
  <2>2. MyShell \in 1..Len(shells) /\ FALSE \in BOOLEAN
    BY <1>1, <1>12
  <2>3. [shells EXCEPT ![MyShell] = FALSE] \in Seq(BOOLEAN)
    BY <1>1, <2>2, ExceptSeq, Zenon
  <2>4. shells' \in Seq(BOOLEAN)
    BY <2>1, <2>3
  <2> QED
    BY <1>2, <1>12, <2>1, <2>4 DEF Closes
<1> HIDE DEF Goal
<1> QED
  BY <1>4, <1>5, <1>6, <1>7, <1>8, <1>9, <1>10, <1>11, <1>12, ServerAnswers, Zenon

\* What the server does and what it answers, or what the network does instead.
Effect(a, c, id) ==
    Refuses(a, c) \/ Opens(a, c, id) \/ Starts(a, c, id) \/ Gives(a, c) \/ Feeds(a, c) \/ Closes(a, c)

\* The answer gets through.
Delivered(a) == troubles' = troubles /\ Effect(a, post'[a].answer.content, post'[a].id)

\* There is another answer instead, which is a trouble.
Lost(a) ==
    /\ post'[a].answer.content \in NetErrors \cup {"page", "noId"} /\ post'[a].id = NoText
    /\ troubles' = troubles \cup {<<ActionAt(pc[a]), post'[a].answer.content>>}
    /\ \/ shells' = shells /\ Alike /\ post'[a].answer.content # "noId"
       \/ /\ post'[a].answer.content # "page"
          /\ \E c, id : Effect(a, c, id) /\ (post'[a].answer.content = "noId" => c = "id")

LEMMA AnswerMoves ==
    ASSUME TypeOK, PhaseInv, IdInv, NEW a \in Actors, Serve(a) \/ NetworkFails(a)
    PROVE  /\ shells' \in Seq(BOOLEAN) /\ commands' \in Seq(Processes)
           /\ Delivered(a) \/ Lost(a)
<1>1. /\ post[a].stage = "posted"
      /\ \/ /\ troubles' = troubles
            /\ \E o \in Outcomes(Request(a)) :
                  /\ shells' = o.shells /\ commands' = Killed(o.commands, o.shells)
                  /\ o.content \in Contents \ {"page", "noId"}
                  /\ post'[a].answer.content = o.content /\ post'[a].id = o.id
         \/ /\ post'[a].answer.content \in NetErrors \cup {"page", "noId"}
            /\ troubles' = troubles \cup {<<ActionAt(pc[a]), post'[a].answer.content>>}
            /\ post'[a].id = NoText
            /\ \/ UNCHANGED server /\ post'[a].answer.content # "noId"
               \/ \E o \in Outcomes(Request(a)) :
                     /\ shells' = o.shells /\ commands' = Killed(o.commands, o.shells)
                     /\ o.content \in Contents \ {"page", "noId"}
                     /\ post'[a].answer.content = "noId" => o.content = "id"
                     /\ post'[a].answer.content # "page"
  BY AnswerComes, Zenon
<1>2. ASSUME NEW o \in Outcomes(Request(a)),
             shells' = o.shells, commands' = Killed(o.commands, o.shells)
      PROVE  /\ shells' \in Seq(BOOLEAN) /\ commands' \in Seq(Processes)
             /\ Effect(a, o.content, o.id)
  BY <1>1, <1>2, ServerDoes, Zenon DEF Effect
<1>3. CASE /\ troubles' = troubles
           /\ \E o \in Outcomes(Request(a)) :
                 /\ shells' = o.shells /\ commands' = Killed(o.commands, o.shells)
                 /\ o.content \in Contents \ {"page", "noId"}
                 /\ post'[a].answer.content = o.content /\ post'[a].id = o.id
  BY <1>2, <1>3, Zenon DEF Delivered
<1>4. CASE /\ post'[a].answer.content \in NetErrors \cup {"page", "noId"}
           /\ troubles' = troubles \cup {<<ActionAt(pc[a]), post'[a].answer.content>>}
           /\ post'[a].id = NoText
           /\ \/ UNCHANGED server /\ post'[a].answer.content # "noId"
              \/ \E o \in Outcomes(Request(a)) :
                    /\ shells' = o.shells /\ commands' = Killed(o.commands, o.shells)
                    /\ o.content \in Contents \ {"page", "noId"}
                    /\ post'[a].answer.content = "noId" => o.content = "id"
                    /\ post'[a].answer.content # "page"
  <2>1. CASE UNCHANGED server /\ post'[a].answer.content # "noId"
    <3>1. shells' = shells /\ commands' = commands
      BY <2>1 DEF server
    <3>2. shells' \in Seq(BOOLEAN) /\ commands' \in Seq(Processes) /\ Alike
      BY <3>1 DEF TypeOK, Alike, Keeps
    <3> QED
      BY <1>4, <2>1, <3>1, <3>2, Zenon DEF Lost
  <2>2. CASE \E o \in Outcomes(Request(a)) :
                    /\ shells' = o.shells /\ commands' = Killed(o.commands, o.shells)
                    /\ o.content \in Contents \ {"page", "noId"}
                    /\ post'[a].answer.content = "noId" => o.content = "id"
                    /\ post'[a].answer.content # "page"
    BY <1>2, <1>4, <2>2, Zenon DEF Lost
  <2> QED
    BY <1>4, <2>1, <2>2
<1> QED
  BY <1>1, <1>3, <1>4, Zenon

\* What the process and the shell do by themselves.
LEMMA WorldMoves ==
    ASSUME TypeOK, ProcessMoves \/ ShellExpires
    PROVE  /\ shells' \in Seq(BOOLEAN) /\ commands' \in Seq(Processes)
           /\ DOMAIN shells' = DOMAIN shells /\ \A n \in DOMAIN shells : shells'[n] => shells[n]
           /\ DOMAIN commands' = DOMAIN commands
           /\ \A n \in DOMAIN commands :
                 /\ commands'[n].input = commands[n].input
                 /\ commands[n].exited => commands'[n].exited
                 /\ \/ commands'[n].out = commands[n].out
                    \/ commands[n].out = "none" /\ commands'[n].out = "pending" /\ ~commands[n].exited
           /\ UNCHANGED <<client, post, troubles>>
<1>1. shells \in Seq(BOOLEAN) /\ commands \in Seq(Processes)
  BY DEF TypeOK
<1>2. CASE ProcessMoves
  <2>1. PICK n \in DOMAIN commands :
          /\ ~commands[n].exited
          /\ (commands[n].out = "none" /\ commands' = Written(n)) \/ commands' = Exited(n)
    BY <1>2 DEF ProcessMoves
  <2>2. shells' = shells /\ UNCHANGED <<client, post, troubles>>
    BY <1>2 DEF ProcessMoves
  <2>3. commands[n] \in Processes
    BY <1>1, <2>1
  <2>4. CASE commands[n].out = "none" /\ commands' = Written(n)
    <3>1. /\ commands' \in Seq(Processes) /\ Len(commands') = Len(commands)
          /\ commands'[n] = [commands[n] EXCEPT !.out = "pending"]
          /\ \A m \in DOMAIN commands \ {n} : commands'[m] = commands[m]
      BY <2>1, <2>4, OutputWritten
    <3>2. /\ commands'[n].out = "pending" /\ commands'[n].input = commands[n].input
          /\ commands'[n].exited = commands[n].exited
      BY <2>3, <3>1 DEF Processes
    <3>3. DOMAIN commands' = DOMAIN commands
      BY <1>1, <3>1
    <3>4. DOMAIN shells' = DOMAIN shells /\ \A m \in DOMAIN shells : shells'[m] => shells[m]
      BY <2>2
    <3> QED
      BY <1>1, <2>1, <2>2, <2>4, <3>1, <3>2, <3>3, <3>4, Zenon
  <2>5. CASE commands' = Exited(n)
    <3>1. /\ commands' \in Seq(Processes) /\ Len(commands') = Len(commands)
          /\ commands'[n] = [commands[n] EXCEPT !.exited = TRUE]
          /\ \A m \in DOMAIN commands \ {n} : commands'[m] = commands[m]
      BY <2>1, <2>5, ProcessExited
    <3>2. /\ commands'[n].out = commands[n].out /\ commands'[n].input = commands[n].input
          /\ commands'[n].exited
      BY <2>3, <3>1 DEF Processes
    <3>3. DOMAIN commands' = DOMAIN commands
      BY <1>1, <3>1
    <3>4. DOMAIN shells' = DOMAIN shells /\ \A m \in DOMAIN shells : shells'[m] => shells[m]
      BY <2>2
    <3> QED
      BY <1>1, <2>2, <3>1, <3>2, <3>3, <3>4, Zenon
  <2> QED
    BY <2>1, <2>4, <2>5
<1>3. CASE ShellExpires
  <2>1. PICK n \in DOMAIN shells : shells' = [shells EXCEPT ![n] = FALSE]
    BY <1>3 DEF ShellExpires
  <2>2. n \in 1..Len(shells) /\ FALSE \in BOOLEAN
    BY <1>1
  <2>3. [shells EXCEPT ![n] = FALSE] \in Seq(BOOLEAN)
    BY <1>1, <2>2, ExceptSeq, Zenon
  <2>4. shells' \in Seq(BOOLEAN)
    BY <2>1, <2>3
  <2>5. DOMAIN shells' = DOMAIN shells /\ \A m \in DOMAIN shells : shells'[m] => shells[m]
    BY <2>1
  <2>6. commands' = Killed(commands, shells') /\ UNCHANGED <<client, post, troubles>>
    BY <1>3 DEF ShellExpires
  <2>7. /\ commands' \in Seq(Processes) /\ DOMAIN commands' = DOMAIN commands
        /\ \A m \in DOMAIN commands :
              /\ commands'[m].input = commands[m].input /\ commands'[m].out = commands[m].out
              /\ commands[m].exited => commands'[m].exited
    BY <1>1, <2>6, KilledAlike
  <2> QED
    BY <2>4, <2>5, <2>6, <2>7
<1> QED
  BY <1>2, <1>3

-----------------------------------------------------------------------------
(* What each caller does when Post returns to it.                          *)

Places == {"none", "Create", "Command", "Delete", "Receive", "last", "Send", "End", "Signal", "over"}

\* One goroutine goes on.
LEMMA PlaceChanges ==
    ASSUME TypeOK, NEW a \in Actors, NEW q \in Places, pc' = [pc EXCEPT ![a] = q]
    PROVE  pc' \in [Actors -> Places] /\ pc'[a] = q /\ \A b \in Actors : b # a => pc'[b] = pc[b]
BY DEF TypeOK, Places

\* The verdicts of slurpAllOutput.
LEMMA SlurpSays ==
    ASSUME NEW k \in AllKinds, NEW x
    PROVE  /\ Slurp(PostOf(k, x)) \in {"done", "failed", "more", "retry", "EOF"}
           /\ Slurp(PostOf(k, x)) = "done" => x.content = "done"
<1>1. CASE PostOf(k, x).ok
  BY <1>1, TextsKept DEF Slurp, SlurpText
<1>2. CASE ~PostOf(k, x).ok
  BY <1>2 DEF Slurp, SlurpError
<1> QED
  BY <1>1, <1>2

\* An id that the server gives away is parsed.
LEMMA IdRead ==
    ASSUME kind \in AllKinds, NEW x, Genuine(x), x.content = "id"
    PROVE  ParseId(PostOf(kind, x)) = "id"
<1>1. x = Answered(kind, "id")
  BY DEF Genuine, Contents
<1>2. PostOf(kind, x) = Text("id")
  BY <1>1, AnswersRead DEF Contents
<1> QED
  BY <1>2 DEF ParseId, Text

LEMMA CreateDoes ==
    ASSUME TypeOK, Genuine(post["main"].answer), CreateReturns
    PROVE  LET content == post["main"].answer.content
           IN  /\ pc["main"] = "Create" /\ pc' \in [Actors -> Places]
               /\ pc'["fetch"] = pc["fetch"] /\ pc'["writer"] = pc["writer"]
               /\ \/ pc'["main"] = "over" /\ shellID' = NoText /\ content # "id"
                  \/ pc'["main"] = "Command" /\ shellID' = post["main"].id /\ content = "id"
                  \/ pc'["main"] = "Command" /\ shellID' = NoText /\ content = "noId"
               /\ UNCHANGED <<commandID, acked, got, ended>>
<1>1. kind \in AllKinds
  BY ExchangeAssumption DEF TypeOK
<1> DEFINE verdict == ParseId(Result("main"))
           q == IF verdict = "failed" THEN "over" ELSE "Command"
<1>2. /\ verdict \in {"id", "emptyId", "failed"}
      /\ verdict = "id" => post["main"].answer.content = "id"
      /\ verdict = "emptyId" => post["main"].answer.content = "noId"
  BY <1>1, IdsParsed DEF Result
<1>3. /\ pc["main"] = "Create" /\ pc' = [pc EXCEPT !["main"] = q]
      /\ shellID' = IF verdict = "id" THEN post["main"].id ELSE NoText
      /\ UNCHANGED <<commandID, acked, got, ended>>
  BY DEF CreateReturns, Returns
<1>4. post["main"].answer.content = "id" => verdict = "id"
  BY <1>1, IdRead DEF Result
<1> HIDE DEF verdict
<1>5. q \in Places
  BY DEF Places
<1> HIDE DEF q
<1>6. /\ pc' \in [Actors -> Places] /\ pc'["main"] = q
      /\ pc'["fetch"] = pc["fetch"] /\ pc'["writer"] = pc["writer"]
  BY <1>3, <1>5, PlaceChanges DEF Actors
<1>7. CASE verdict = "failed"
  BY <1>2, <1>3, <1>4, <1>6, <1>7 DEF q
<1>8. CASE verdict = "id"
  BY <1>2, <1>3, <1>4, <1>6, <1>8 DEF q
<1>9. CASE verdict = "emptyId"
  BY <1>2, <1>3, <1>4, <1>6, <1>9 DEF q
<1> QED
  BY <1>2, <1>7, <1>8, <1>9

LEMMA CommandDoes ==
    ASSUME TypeOK, CommandReturns
    PROVE  LET content == post["main"].answer.content
           IN  /\ pc["main"] = "Command" /\ pc' \in [Actors -> Places]
               /\ \/ /\ pc'["main"] = "Delete" /\ pc'["fetch"] = pc["fetch"] /\ pc'["writer"] = pc["writer"]
                     /\ commandID' = NoText /\ ended' = ended
                  \/ /\ pc'["main"] = "Signal" /\ pc'["fetch"] = "Receive"
                     /\ pc'["writer"] = (IF Chunks > 0 THEN "Send" ELSE "End")
                     /\ commandID' = post["main"].id /\ content = "id" /\ ended' = ended
                  \/ /\ pc'["main"] = "Delete" /\ pc'["fetch"] = "over" /\ pc'["writer"] = "over"
                     /\ commandID' = NoText
                     /\ ended' \in [as : {"failed"}, silent : {ended.silent}]
               /\ UNCHANGED <<shellID, acked, got>>
<1>1. kind \in AllKinds /\ pc \in [Actors -> Places]
  BY ExchangeAssumption DEF TypeOK, Places
<1> DEFINE verdict == ParseId(Result("main"))
<1>2. /\ verdict \in {"id", "emptyId", "failed"}
      /\ verdict = "id" => post["main"].answer.content = "id"
  BY <1>1, IdsParsed DEF Result
<1>3. /\ pc["main"] = "Command" /\ pc' = AfterCommand(verdict)
      /\ commandID' = IF verdict = "id" THEN post["main"].id ELSE NoText
      /\ ended' = IF verdict = "emptyId" THEN [ended EXCEPT !.as = "failed"] ELSE ended
      /\ UNCHANGED <<shellID, acked, got>>
  BY DEF CommandReturns
<1> HIDE DEF verdict
<1>4. CASE verdict = "failed"
  <2>1. pc' = [pc EXCEPT !["main"] = "Delete"] /\ "Delete" \in Places
    BY <1>3, <1>4 DEF AfterCommand, Places
  <2>2. /\ pc' \in [Actors -> Places] /\ pc'["main"] = "Delete"
        /\ pc'["fetch"] = pc["fetch"] /\ pc'["writer"] = pc["writer"]
    BY <2>1, PlaceChanges DEF Actors
  <2> QED
    BY <1>3, <1>4, <2>2
<1>5. CASE verdict = "id"
  <2>1. PICK w \in {"Send", "End"} : w = (IF Chunks > 0 THEN "Send" ELSE "End")
    OBVIOUS
  <2>2. pc' = [main |-> "Signal", fetch |-> "Receive", writer |-> w]
    BY <1>3, <1>5, <2>1 DEF AfterCommand, Started
  <2>3. pc' \in [Actors -> Places]
    BY <2>1, <2>2 DEF Places, Actors
  <2> QED
    BY <1>2, <1>3, <1>5, <2>1, <2>2, <2>3
<1>6. CASE verdict = "emptyId"
  <2>1. pc' = [main |-> "Delete", fetch |-> "over", writer |-> "over"]
    BY <1>3, <1>6 DEF AfterCommand, Refused
  <2>2. pc' \in [Actors -> Places]
    BY <2>1 DEF Places, Actors
  <2>3. ended' \in [as : {"failed"}, silent : {ended.silent}]
    BY <1>3, <1>6 DEF TypeOK
  <2> QED
    BY <1>3, <1>6, <2>1, <2>2, <2>3
<1> QED
  BY <1>2, <1>4, <1>5, <1>6

LEMMA ReceiveDoes ==
    ASSUME TypeOK, PhaseInv, ReceiveReturns
    PROVE  LET content == post["fetch"].answer.content
               verdict == Slurp(Result("fetch"))
           IN  /\ pc["fetch"] \in {"Receive", "last"} /\ pc' \in [Actors -> Places]
               /\ pc'["main"] = pc["main"] /\ pc'["writer"] = pc["writer"]
               /\ got' = (got \/ (Result("fetch").ok /\ content = "output"))
               /\ \/ /\ pc["fetch"] = "Receive" /\ pc'["fetch"] = "Receive" /\ ended' = ended
                     /\ verdict \in {"retry", "more"}
                  \/ /\ pc["fetch"] = "last" /\ pc'["fetch"] = "over"
                     /\ ended' = [as |-> "canceled", silent |-> FALSE]
                  \/ /\ pc["fetch"] = "Receive" /\ pc'["fetch"] = "over"
                     /\ verdict \in {"done", "failed", "EOF"}
                     /\ ended' = [as |-> verdict, silent |-> content = "OperationTimeout"]
               /\ UNCHANGED <<shellID, commandID, acked>>
<1>1. kind \in AllKinds /\ pc \in [Actors -> Places]
  BY ExchangeAssumption DEF TypeOK, Places
<1>2. pc["fetch"] \in {"Receive", "last"}
  BY DEF ReceiveReturns, Returns, PhaseInv, Actors
<1>3. Slurp(Result("fetch")) \in {"done", "failed", "more", "retry", "EOF"}
  BY <1>1, SlurpSays DEF Result
<1> DEFINE verdict == IF pc["fetch"] = "last" THEN "canceled" ELSE Slurp(Result("fetch"))
           more == verdict \in {"retry", "more"}
           q == IF more THEN pc["fetch"] ELSE "over"
<1>4. /\ pc' = [pc EXCEPT !["fetch"] = q]
      /\ got' = (got \/ (Result("fetch").ok /\ post["fetch"].answer.content = "output"))
      /\ ended' = IF more THEN ended
                  ELSE [as |-> verdict, silent |-> verdict # "canceled"
                                                   /\ post["fetch"].answer.content = "OperationTimeout"]
      /\ UNCHANGED <<shellID, commandID, acked>>
  BY DEF ReceiveReturns, Returns
<1>5. q \in Places
  BY <1>2 DEF Places
<1>6. /\ pc' \in [Actors -> Places] /\ pc'["fetch"] = q
      /\ pc'["main"] = pc["main"] /\ pc'["writer"] = pc["writer"]
  <2> HIDE DEF q
  <2> QED
    BY <1>4, <1>5, PlaceChanges DEF Actors
<1>7. CASE pc["fetch"] = "last"
  BY <1>4, <1>6, <1>7
<1>8. CASE pc["fetch"] = "Receive" /\ Slurp(Result("fetch")) \in {"retry", "more"}
  BY <1>4, <1>6, <1>8
<1>9. CASE pc["fetch"] = "Receive" /\ Slurp(Result("fetch")) \in {"done", "failed", "EOF"}
  BY <1>4, <1>6, <1>9
<1> QED
  BY <1>2, <1>3, <1>7, <1>8, <1>9

LEMMA SendDoes ==
    ASSUME TypeOK, PhaseInv, SendReturns
    PROVE  /\ pc["writer"] = "Send" /\ pc' \in [Actors -> Places]
           /\ pc'["main"] = pc["main"] /\ pc'["fetch"] = pc["fetch"]
           /\ \/ /\ Result("writer").ok /\ acked' = acked + 1
                 /\ pc'["writer"] = IF acked' < Chunks THEN "Send" ELSE "End"
              \/ ~Result("writer").ok /\ acked' = acked /\ pc'["writer"] = "End"
           /\ acked < Chunks
           /\ UNCHANGED <<shellID, commandID, got, ended>>
<1>1. pc \in [Actors -> Places] /\ acked \in Nat
  BY ExchangeAssumption DEF TypeOK, Places
<1> DEFINE ok == Result("writer").ok
           q == AfterSend(ok)
<1>2. /\ pc["writer"] = "Send" /\ pc' = [pc EXCEPT !["writer"] = q]
      /\ acked' = acked + (IF ok THEN 1 ELSE 0)
      /\ UNCHANGED <<shellID, commandID, got, ended>>
  BY DEF SendReturns, Returns
<1>3. q = IF ok /\ acked' < Chunks THEN "Send" ELSE "End"
  BY DEF AfterSend
<1>4. q \in Places
  BY <1>3 DEF Places
<1> HIDE DEF q
<1>5. /\ pc' \in [Actors -> Places] /\ pc'["writer"] = q
      /\ pc'["main"] = pc["main"] /\ pc'["fetch"] = pc["fetch"]
  BY <1>2, <1>4, PlaceChanges DEF Actors
<1>6. acked < Chunks
  BY <1>2 DEF PhaseInv
<1>7. CASE ok
  BY <1>2, <1>3, <1>5, <1>6, <1>7
<1>8. CASE ~ok
  BY <1>1, <1>2, <1>3, <1>5, <1>6, <1>8
<1> QED
  BY <1>7, <1>8

LEMMA LastDoes ==
    ASSUME TypeOK, PhaseInv, NEW a \in Actors, LastReturns(a)
    PROVE  /\ pc' \in [Actors -> Places] /\ \A b \in Actors : b # a => pc'[b] = pc[b]
           /\ \/ a = "writer" /\ pc[a] = "End" /\ pc'[a] = "over"
              \/ a = "main" /\ pc[a] = "Signal" /\ pc'[a] = "Delete"
              \/ a = "main" /\ pc[a] = "Delete" /\ pc'[a] = "over"
           /\ UNCHANGED <<shellID, commandID, acked, got, ended>>
<1> DEFINE q == IF pc[a] = "Signal" THEN "Delete" ELSE "over"
<1>1. /\ pc[a] \in {"End", "Signal", "Delete"} /\ pc' = [pc EXCEPT ![a] = q]
      /\ UNCHANGED <<shellID, commandID, acked, got, ended>>
  BY DEF LastReturns, Returns
<1>2. q \in Places
  BY DEF Places
<1>3. /\ pc' \in [Actors -> Places] /\ pc'[a] = q /\ \A b \in Actors : b # a => pc'[b] = pc[b]
  <2> HIDE DEF q
  <2> QED
    BY <1>1, <1>2, PlaceChanges
<1>4. \/ a = "writer" /\ pc[a] = "End"
      \/ a = "main" /\ pc[a] \in {"Signal", "Delete"}
  BY <1>1 DEF PhaseInv, Actors
<1> QED
  BY <1>1, <1>3, <1>4

-----------------------------------------------------------------------------
(* The types.                                                              *)

LEMMA IdsMonotone ==
    ASSUME NEW names, NEW made, NEW remade, DOMAIN made \subseteq DOMAIN remade
    PROVE  Ids(names, made) \subseteq Ids(names, remade)
BY DEF Ids

\* Nothing that has been made is forgotten.
LEMMA NothingForgotten ==
    ASSUME TypeOK, shells' \in Seq(BOOLEAN), commands' \in Seq(Processes),
           NEW a \in Actors, Delivered(a) \/ Lost(a)
    PROVE  DOMAIN shells \subseteq DOMAIN shells' /\ DOMAIN commands \subseteq DOMAIN commands'
<1>1. shells \in Seq(BOOLEAN) /\ commands \in Seq(Processes)
  BY DEF TypeOK
<1>2. ASSUME NEW c, NEW id, Effect(a, c, id)
      PROVE  DOMAIN shells \subseteq DOMAIN shells' /\ DOMAIN commands \subseteq DOMAIN commands'
  <2>1. CASE Refuses(a, c)
    BY <2>1 DEF Refuses, Alike
  <2>2. CASE Opens(a, c, id)
    <3>1. shells' = Append(shells, TRUE) /\ Alike
      BY <2>2 DEF Opens
    <3>2. DOMAIN shells' = 1..(Len(shells) + 1) /\ DOMAIN shells = 1..Len(shells) /\ Len(shells) \in Nat
      BY <1>1, <3>1, AppendProperties
    <3> QED
      BY <3>1, <3>2 DEF Alike
  <2>3. CASE Starts(a, c, id)
    <3>1. shells' = shells /\ Len(commands') = Len(commands) + 1
      BY <2>3 DEF Starts
    <3> QED
      BY <1>1, <3>1
  <2>4. CASE Gives(a, c)
    BY <2>4 DEF Gives
  <2>5. CASE Feeds(a, c)
    BY <2>5 DEF Feeds
  <2>6. CASE Closes(a, c)
    BY <2>6 DEF Closes, Alike
  <2> QED
    BY <1>2, <2>1, <2>2, <2>3, <2>4, <2>5, <2>6 DEF Effect
<1>3. CASE Delivered(a)
  BY <1>2, <1>3, Zenon DEF Delivered
<1>4. CASE shells' = shells /\ Alike
  BY <1>4 DEF Alike
<1>5. CASE \E c, id : Effect(a, c, id)
  BY <1>2, <1>5, Zenon
<1> QED
  BY <1>3, <1>4, <1>5, Zenon DEF Lost

LEMMA TypeStep ==
    ASSUME TypeOK, PhaseInv, AnswerInv, IdInv, Next
    PROVE  TypeOK'
<1> USE DEF Places
<1>1. /\ kind \in Kinds /\ line \in Lines /\ pc \in [Actors -> Places]
      /\ shellID \in {NoText} \cup Ids(ShellIds, shells)
      /\ commandID \in {NoText} \cup Ids(CommandIds, commands)
      /\ acked \in 0..Chunks /\ got \in BOOLEAN
      /\ ended \in [as : {"none", "done", "failed", "EOF", "canceled"}, silent : BOOLEAN]
      /\ post \in [Actors -> Posts]
      /\ shells \in Seq(BOOLEAN) /\ commands \in Seq(Processes)
      /\ IsFiniteSet(troubles) /\ Cardinality(troubles) <= MaxFaults
  BY DEF TypeOK
<1>2. kind \in AllKinds /\ Chunks \in Nat
  BY <1>1, ExchangeAssumption
<1>3. ASSUME NEW a \in Actors, Begin(a) PROVE TypeOK'
  <2>1. /\ post' \in [Actors -> Posts]
        /\ pc' = pc \/ pc' = [pc EXCEPT !["fetch"] = "last"]
        /\ UNCHANGED <<kind, line, shellID, commandID, acked, got, ended, server, troubles>>
    BY <1>3, BeginDoes
  <2>2. pc' \in [Actors -> Places]
    BY <1>1, <2>1
  <2> QED
    BY <1>1, <2>1, <2>2 DEF TypeOK, server
<1>4. ASSUME NEW a \in Actors, Acquire(a) \/ Retry(a) PROVE TypeOK'
  <2>1. post' \in [Actors -> Posts] /\ UNCHANGED <<client, server, troubles>>
    BY <1>4, AcquireDoes, RetryDoes
  <2> QED
    BY <1>1, <2>1 DEF TypeOK, client, server
<1>5. ASSUME NEW a \in Actors, Caller(a) PROVE TypeOK'
  <2>1. /\ post' \in [Actors -> Posts] /\ post[a].stage = "answered"
        /\ UNCHANGED <<kind, line, shells, commands, troubles>>
    BY <1>5, CallerDoes DEF server
  <2>2. CASE a = "main" /\ CreateReturns
    <3>1. Genuine(post["main"].answer)
      BY <2>1, <2>2 DEF AnswerInv, Told
    <3>2. /\ pc["main"] = "Create" /\ pc' \in [Actors -> Places]
          /\ shellID' = NoText \/ (shellID' = post["main"].id /\ post["main"].answer.content = "id")
          /\ UNCHANGED <<commandID, acked, got, ended>>
      BY <2>2, <3>1, CreateDoes
    <3>3. shellID' \in {NoText} \cup Ids(ShellIds, shells)
      BY <3>2 DEF IdInv
    <3> QED
      BY <1>1, <2>1, <3>2, <3>3 DEF TypeOK
  <2>3. CASE a = "main" /\ CommandReturns
    <3>1. /\ pc["main"] = "Command" /\ pc' \in [Actors -> Places]
          /\ commandID' = NoText \/ (commandID' = post["main"].id /\ post["main"].answer.content = "id")
          /\ ended' = ended \/ ended' \in [as : {"failed"}, silent : {ended.silent}]
          /\ UNCHANGED <<shellID, acked, got>>
      BY <2>3, CommandDoes
    <3>2. commandID' \in {NoText} \cup Ids(CommandIds, commands)
      BY <3>1 DEF IdInv
    <3>3. ended' \in [as : {"none", "done", "failed", "EOF", "canceled"}, silent : BOOLEAN]
      BY <1>1, <3>1
    <3> QED
      BY <1>1, <2>1, <3>1, <3>2, <3>3 DEF TypeOK
  <2>4. CASE a = "fetch" /\ ReceiveReturns
    <3> DEFINE verdict == Slurp(Result("fetch"))
               silent == post["fetch"].answer.content = "OperationTimeout"
    <3>1. /\ pc' \in [Actors -> Places] /\ UNCHANGED <<shellID, commandID, acked>>
          /\ got' = (got \/ (Result("fetch").ok /\ post["fetch"].answer.content = "output"))
          /\ \/ ended' = ended \/ ended' = [as |-> "canceled", silent |-> FALSE]
             \/ verdict \in {"done", "failed", "EOF"} /\ ended' = [as |-> verdict, silent |-> silent]
      BY <2>4, ReceiveDoes
    <3>2. silent \in BOOLEAN
      OBVIOUS
    <3> HIDE DEF verdict, silent
    <3>3. ended' \in [as : {"none", "done", "failed", "EOF", "canceled"}, silent : BOOLEAN]
      <4>1. CASE ended' = [as |-> "canceled", silent |-> FALSE]
        BY <4>1
      <4>2. CASE verdict \in {"done", "failed", "EOF"} /\ ended' = [as |-> verdict, silent |-> silent]
        BY <3>2, <4>2
      <4> QED
        BY <1>1, <3>1, <4>1, <4>2
    <3>4. got' \in BOOLEAN
      BY <1>1, <3>1
    <3> QED
      BY <1>1, <2>1, <3>1, <3>3, <3>4 DEF TypeOK
  <2>5. CASE a = "writer" /\ SendReturns
    <3>1. /\ pc' \in [Actors -> Places] /\ acked < Chunks
          /\ acked' = acked + 1 \/ acked' = acked
          /\ UNCHANGED <<shellID, commandID, got, ended>>
      BY <2>5, SendDoes
    <3>2. acked' \in 0..Chunks
      BY <1>1, <1>2, <3>1
    <3> QED
      BY <1>1, <2>1, <3>1, <3>2 DEF TypeOK
  <2>6. CASE LastReturns(a)
    <3>1. pc' \in [Actors -> Places] /\ UNCHANGED <<shellID, commandID, acked, got, ended>>
      BY <2>6, LastDoes
    <3> QED
      BY <1>1, <2>1, <3>1 DEF TypeOK
  <2> QED
    BY <1>5, <2>2, <2>3, <2>4, <2>5, <2>6 DEF Caller
<1>6. ASSUME NEW a \in Actors, Serve(a) \/ NetworkFails(a) PROVE TypeOK'
  <2>1. /\ post' \in [Actors -> Posts] /\ UNCHANGED client
        /\ IsFiniteSet(troubles') /\ Cardinality(troubles') <= MaxFaults
    BY <1>6, AnswerComes, Zenon
  <2>2. shells' \in Seq(BOOLEAN) /\ commands' \in Seq(Processes) /\ (Delivered(a) \/ Lost(a))
    BY <1>6, AnswerMoves, Zenon
  <2>3. DOMAIN shells \subseteq DOMAIN shells' /\ DOMAIN commands \subseteq DOMAIN commands'
    BY <2>2, NothingForgotten
  <2>4. /\ Ids(ShellIds, shells) \subseteq Ids(ShellIds, shells')
        /\ Ids(CommandIds, commands) \subseteq Ids(CommandIds, commands')
    BY <2>3, IdsMonotone
  <2> QED
    BY <1>1, <2>1, <2>2, <2>4 DEF TypeOK, client
<1>7. CASE ProcessMoves \/ ShellExpires
  <2>1. /\ shells' \in Seq(BOOLEAN) /\ commands' \in Seq(Processes)
        /\ DOMAIN shells' = DOMAIN shells /\ DOMAIN commands' = DOMAIN commands
        /\ UNCHANGED <<client, post, troubles>>
    BY <1>7, WorldMoves
  <2>2. /\ Ids(ShellIds, shells) \subseteq Ids(ShellIds, shells')
        /\ Ids(CommandIds, commands) \subseteq Ids(CommandIds, commands')
    BY <2>1, IdsMonotone
  <2> QED
    BY <1>1, <2>1, <2>2 DEF TypeOK, client
<1>8. CASE Over
  BY <1>1, <1>8 DEF Over, vars, client, server, TypeOK
<1> QED
  BY <1>3, <1>4, <1>5, <1>6, <1>7, <1>8 DEF Next

-----------------------------------------------------------------------------
(* The phases of the exchange.                                             *)

LEMMA PhaseStep ==
    ASSUME TypeOK, PhaseInv, AnswerInv, IdInv, Next
    PROVE  PhaseInv'
<1>1. /\ pc \in [Actors -> Places] /\ acked \in Nat /\ Chunks \in Nat
      /\ \A a \in Actors : pc[a] \in {"none", "over"} => post[a].stage = "none"
  BY ExchangeAssumption DEF TypeOK, Places, PhaseInv
<1>2. Actors = {"main", "fetch", "writer"}
  BY DEF Actors
<1>3. ASSUME NEW a \in Actors, Begin(a) PROVE PhaseInv'
  <2>1. /\ post[a].stage = "none" /\ pc[a] \notin {"none", "over"}
        /\ post'[a].stage \in {"waiting", "posted"}
        /\ \A b \in Actors : b # a => post'[b] = post[b]
        /\ pc' = pc \/ (a = "fetch" /\ pc' = [pc EXCEPT !["fetch"] = "last"])
        /\ pc[a] = "Delete" => \A b \in {"fetch", "writer"} : pc[b] \in {"none", "over"}
        /\ UNCHANGED <<commandID, acked>>
    BY <1>3, BeginDoes
  <2>2. /\ pc'["main"] = pc["main"] /\ pc'["writer"] = pc["writer"]
        /\ pc'["fetch"] = pc["fetch"] \/ (pc'["fetch"] = "last" /\ pc["fetch"] \in {"Receive", "last"})
    BY <1>1, <2>1 DEF PhaseInv, Actors
  <2> QED
    BY <1>1, <1>2, <2>1, <2>2 DEF PhaseInv
<1>4. ASSUME NEW a \in Actors, Acquire(a) \/ Retry(a) PROVE PhaseInv'
  <2>1. /\ post[a].stage # "none" /\ post'[a].stage # "none"
        /\ \A b \in Actors : b # a => post'[b] = post[b]
        /\ UNCHANGED <<pc, commandID, acked>>
    BY <1>4, AcquireDoes, RetryDoes DEF client
  <2> QED
    BY <1>1, <1>2, <2>1 DEF PhaseInv
<1>5. ASSUME NEW a \in Actors, Caller(a) PROVE PhaseInv'
  <2>1. /\ post[a].stage = "answered" /\ post'[a].stage = "none"
        /\ \A b \in Actors : b # a => post'[b] = post[b]
    BY <1>5, CallerDoes DEF NoPost, Posting
  <2>2. CASE a = "main" /\ CreateReturns
    <3>1. Genuine(post["main"].answer)
      BY <2>1, <2>2 DEF AnswerInv, Told
    <3>2. /\ pc["main"] = "Create" /\ pc'["main"] \in {"over", "Command"}
          /\ pc'["fetch"] = pc["fetch"] /\ pc'["writer"] = pc["writer"]
          /\ UNCHANGED <<commandID, acked>>
      BY <2>2, <3>1, CreateDoes
    <3> QED
      BY <1>1, <1>2, <2>1, <2>2, <3>2 DEF PhaseInv
  <2>3. CASE a = "main" /\ CommandReturns
    <3>1. /\ pc["main"] = "Command"
          /\ \/ /\ pc'["main"] = "Delete" /\ pc'["fetch"] = pc["fetch"] /\ pc'["writer"] = pc["writer"]
                /\ commandID' = NoText
             \/ /\ pc'["main"] = "Signal" /\ pc'["fetch"] = "Receive"
                /\ pc'["writer"] = (IF Chunks > 0 THEN "Send" ELSE "End")
                /\ commandID' = post["main"].id /\ post["main"].answer.content = "id"
             \/ /\ pc'["main"] = "Delete" /\ pc'["fetch"] = "over" /\ pc'["writer"] = "over"
                /\ commandID' = NoText
          /\ acked' = acked
      BY <2>3, CommandDoes
    <3>2. post["main"].answer.content = "id" => post["main"].id # NoText
      BY DEF IdInv
    <3>3. pc["fetch"] = "none" /\ pc["writer"] = "none" /\ acked = 0
      BY <3>1 DEF PhaseInv
    <3>4. post'["fetch"].stage = "none" /\ post'["writer"].stage = "none"
      BY <1>1, <1>2, <2>1, <2>3, <3>3
    <3>5. CASE /\ pc'["main"] = "Delete" /\ pc'["fetch"] = pc["fetch"] /\ pc'["writer"] = pc["writer"]
               /\ commandID' = NoText
      BY <1>1, <1>2, <2>1, <2>3, <3>1, <3>3, <3>4, <3>5 DEF PhaseInv
    <3>6. CASE /\ pc'["main"] = "Signal" /\ pc'["fetch"] = "Receive"
               /\ pc'["writer"] = (IF Chunks > 0 THEN "Send" ELSE "End")
               /\ commandID' = post["main"].id /\ post["main"].answer.content = "id"
      BY <1>1, <1>2, <2>1, <2>3, <3>1, <3>2, <3>3, <3>4, <3>6 DEF PhaseInv
    <3>7. CASE /\ pc'["main"] = "Delete" /\ pc'["fetch"] = "over" /\ pc'["writer"] = "over"
               /\ commandID' = NoText
      BY <1>1, <1>2, <2>1, <2>3, <3>1, <3>3, <3>4, <3>7 DEF PhaseInv
    <3> QED
      BY <3>1, <3>5, <3>6, <3>7
  <2>4. CASE a = "fetch" /\ ReceiveReturns
    <3>1. /\ pc["fetch"] \in {"Receive", "last"} /\ pc'["fetch"] \in {"Receive", "over"}
          /\ pc'["main"] = pc["main"] /\ pc'["writer"] = pc["writer"]
          /\ UNCHANGED <<commandID, acked>>
      BY <2>4, ReceiveDoes
    <3> QED
      BY <1>1, <1>2, <2>1, <2>4, <3>1 DEF PhaseInv
  <2>5. CASE a = "writer" /\ SendReturns
    <3>1. /\ pc["writer"] = "Send" /\ pc'["writer"] \in {"Send", "End"}
          /\ pc'["writer"] = "Send" => acked' < Chunks
          /\ pc'["main"] = pc["main"] /\ pc'["fetch"] = pc["fetch"]
          /\ commandID' = commandID
      BY <2>5, SendDoes
    <3> QED
      BY <1>1, <1>2, <2>1, <2>5, <3>1 DEF PhaseInv
  <2>6. CASE LastReturns(a)
    <3>1. /\ \A b \in Actors : b # a => pc'[b] = pc[b]
          /\ \/ a = "writer" /\ pc[a] = "End" /\ pc'[a] = "over"
             \/ a = "main" /\ pc[a] = "Signal" /\ pc'[a] = "Delete"
             \/ a = "main" /\ pc[a] = "Delete" /\ pc'[a] = "over"
          /\ UNCHANGED <<commandID, acked>>
      BY <2>6, LastDoes
    <3> QED
      BY <1>1, <1>2, <2>1, <3>1 DEF PhaseInv
  <2> QED
    BY <1>5, <2>2, <2>3, <2>4, <2>5, <2>6 DEF Caller
<1>6. ASSUME NEW a \in Actors, Serve(a) \/ NetworkFails(a) PROVE PhaseInv'
  <2>1. /\ post[a].stage = "posted" /\ post'[a].stage = "answered"
        /\ \A b \in Actors : b # a => post'[b] = post[b]
        /\ UNCHANGED client
    BY <1>6, AnswerComes, Zenon
  <2> QED
    BY <1>1, <1>2, <2>1 DEF PhaseInv, client
<1>7. CASE ProcessMoves \/ ShellExpires
  <2>1. UNCHANGED <<client, post>>
    BY <1>7, WorldMoves
  <2> QED
    BY <1>1, <1>2, <2>1 DEF PhaseInv, client
<1>8. CASE Over
  BY <1>1, <1>8 DEF Over, vars, client, PhaseInv
<1> QED
  BY <1>3, <1>4, <1>5, <1>6, <1>7, <1>8 DEF Next

-----------------------------------------------------------------------------
(* The answers.                                                            *)

\* A goroutine whose Post does not change is told no other story.
LEMMA ToldStays ==
    ASSUME NEW b \in Actors, Told(b), post'[b] = post[b], kind' = kind, troubles \subseteq troubles',
           pc'[b] = pc[b] \/ post[b].stage # "answered"
    PROVE  Told(b)'
BY DEF Told, Genuine

LEMMA NoAnswerSays == NoAnswer.content = "none"
BY DEF NoAnswer

\* Only a text that holds "]]>" is torn.
LEMMA TornTexts ==
    ASSUME TypeOK, Tears
    PROVE  \/ line.command = "cdataEnd"
           \/ \E i \in DOMAIN line.arguments : line.arguments[i] = "cdataEnd"
<1>1. "torn" \notin {line.command} \cup Range(line.arguments)
  BY ExchangeAssumption DEF TypeOK
<1>2. CASE CDATA(line.command) = "torn"
  BY <1>1, <1>2 DEF CDATA
<1>3. CASE \E i \in DOMAIN line.arguments : CDATA(line.arguments[i]) = "torn"
  <2>1. PICK i \in DOMAIN line.arguments : CDATA(line.arguments[i]) = "torn"
    BY <1>3
  <2>2. line.arguments[i] # "torn"
    BY <1>1 DEF Range
  <2> QED
    BY <2>1, <2>2 DEF CDATA
<1> QED
  BY <1>2, <1>3 DEF Tears

\* The transport and the command line stay, and what has gone wrong has gone wrong.
LEMMA TroublesStay ==
    ASSUME TypeOK, PhaseInv, IdInv, Next
    PROVE  line' = line /\ kind' = kind /\ troubles \subseteq troubles'
<1>1. ASSUME NEW a \in Actors, Begin(a) \/ Acquire(a) \/ Retry(a) \/ Caller(a)
      PROVE  line' = line /\ kind' = kind /\ troubles \subseteq troubles'
  BY <1>1, BeginDoes, AcquireDoes, RetryDoes, CallerDoes DEF client
<1>2. ASSUME NEW a \in Actors, Serve(a) \/ NetworkFails(a)
      PROVE  line' = line /\ kind' = kind /\ troubles \subseteq troubles'
  <2>1. UNCHANGED client
    BY <1>2, AnswerComes, Zenon
  <2>2. Delivered(a) \/ Lost(a)
    BY <1>2, AnswerMoves, Zenon
  <2> QED
    BY <2>1, <2>2 DEF client, Delivered, Lost
<1>3. CASE ProcessMoves \/ ShellExpires \/ Over
  BY <1>3, WorldMoves DEF Over, vars, client, server
<1> QED
  BY <1>1, <1>2, <1>3 DEF Next

LEMMA AnswerStep ==
    ASSUME TypeOK, PhaseInv, AnswerInv, IdInv, Next
    PROVE  AnswerInv'
<1>1. (\A b \in Actors : Told(b)) /\ RequestsAccepted
  BY DEF AnswerInv
<1>2. ASSUME \A b \in Actors : Told(b)', RequestsAccepted' PROVE AnswerInv'
  BY <1>2 DEF AnswerInv
<1>3. line' = line /\ kind' = kind /\ troubles \subseteq troubles'
  BY TroublesStay
<1>4. \A b \in Actors : post[b] \in Posts
  BY DEF TypeOK
<1>5. \* Nobody is told anything new.
      ASSUME NEW a \in Actors, \A b \in Actors : b # a => post'[b] = post[b],
             \A b \in Actors : b # a => pc'[b] = pc[b] \/ post[b].stage # "answered",
             Told(a)', post'[a].answer.content \in {"none", post[a].answer.content}
      PROVE  AnswerInv'
  <2>1. ASSUME NEW b \in Actors PROVE Told(b)'
    BY <1>1, <1>3, <1>5, ToldStays
  <2>2. RequestsAccepted'
    BY <1>1, <1>3, <1>5 DEF RequestsAccepted
  <2> QED
    BY <1>2, <2>1, <2>2
<1>6. ASSUME NEW a \in Actors, Begin(a) PROVE AnswerInv'
  <2>1. /\ post'[a].stage \in {"waiting", "posted"} /\ post'[a].tries = 1
        /\ post'[a].answer = NoAnswer
        /\ \A b \in Actors : b # a => post'[b] = post[b]
        /\ pc' = pc \/ (a = "fetch" /\ pc' = [pc EXCEPT !["fetch"] = "last"])
    BY <1>6, BeginDoes
  <2>2. Told(a)'
    BY <2>1 DEF Told
  <2>3. \A b \in Actors : b # a => pc'[b] = pc[b]
    BY <2>1 DEF TypeOK
  <2> QED
    BY <1>5, <2>1, <2>2, <2>3, NoAnswerSays
<1>7. ASSUME NEW a \in Actors, Acquire(a) PROVE AnswerInv'
  <2>1. /\ post[a].stage = "waiting" /\ post'[a].stage = "posted" /\ post'[a].tries = post[a].tries
        /\ post'[a].answer = post[a].answer
        /\ \A b \in Actors : b # a => post'[b] = post[b]
        /\ pc' = pc
    BY <1>7, AcquireDoes DEF client
  <2>2. Told(a)'
    BY <1>1, <1>3, <2>1 DEF Told
  <2> QED
    BY <1>5, <2>1, <2>2
<1>8. ASSUME NEW a \in Actors, Retry(a) PROVE AnswerInv'
  <2>1. /\ post'[a].stage = "posted" /\ post'[a].tries = 2
        /\ post'[a].answer = NoAnswer /\ Retryable(kind, post[a].answer)
        /\ \A b \in Actors : b # a => post'[b] = post[b]
        /\ pc' = pc
    BY <1>8, RetryDoes DEF client
  <2>2. kind = "encrypted"
    BY <2>1 DEF Retryable
  <2>3. Told(a)'
    BY <1>3, <2>1, <2>2 DEF Told
  <2> QED
    BY <1>5, <2>1, <2>3, NoAnswerSays
<1>9. ASSUME NEW a \in Actors, Caller(a) PROVE AnswerInv'
  <2>1. post[a].stage = "answered" /\ post'[a] = NoPost /\ \A b \in Actors : b # a => post'[b] = post[b]
    BY <1>9, CallerDoes
  <2>2. /\ NoPost.stage = "none" /\ NoPost.tries = 0 /\ NoPost.answer = NoAnswer
    BY DEF NoPost, Posting
  <2>3. Told(a)'
    BY <2>1, <2>2 DEF Told
  <2>4. \A b \in Actors : b # a => pc'[b] = pc[b] \/ post[b].stage # "answered"
    <3>1. CASE a = "main" /\ CreateReturns
      <4>1. Genuine(post["main"].answer)
        BY <1>1, <2>1, <3>1 DEF Told
      <4> QED
        BY <3>1, <4>1, CreateDoes DEF Actors
    <3>2. CASE a = "main" /\ CommandReturns
      <4>1. pc["main"] = "Command"
        BY <3>2, CommandDoes
      <4>2. post["fetch"].stage = "none" /\ post["writer"].stage = "none"
        BY <4>1 DEF PhaseInv, Actors
      <4> QED
        BY <3>2, <4>2 DEF Actors
    <3>3. CASE a = "fetch" /\ ReceiveReturns
      BY <3>3, ReceiveDoes DEF Actors
    <3>4. CASE a = "writer" /\ SendReturns
      BY <3>4, SendDoes DEF Actors
    <3>5. CASE LastReturns(a)
      BY <3>5, LastDoes
    <3> QED
      BY <1>9, <3>1, <3>2, <3>3, <3>4, <3>5 DEF Caller
  <2> QED
    BY <1>5, <2>1, <2>2, <2>3, <2>4, NoAnswerSays
<1>10. ASSUME NEW a \in Actors, Serve(a) \/ NetworkFails(a) PROVE AnswerInv'
  <2>1. /\ post[a].stage = "posted" /\ pc[a] \in Requesting
        /\ post'[a].stage = "answered" /\ post'[a].tries = post[a].tries
        /\ \A b \in Actors : b # a => post'[b] = post[b]
        /\ UNCHANGED client /\ Genuine(post'[a].answer)
    BY <1>10, AnswerComes, Zenon
  <2>2. Delivered(a) \/ Lost(a)
    BY <1>10, AnswerMoves, Zenon
  <2>3. pc' = pc
    BY <2>1 DEF client
  <2>4. post'[a].answer.content \in NetErrors \cup {"page", "noId"} =>
           <<ActionAt(pc[a]), post'[a].answer.content>> \in troubles'
    <3>1. CASE Lost(a)
      BY <3>1 DEF Lost
    <3>2. CASE Delivered(a)
      BY <3>2 DEF Delivered, Effect, Refuses, Opens, Starts, Gives, Feeds, Closes, NetErrors
    <3> QED
      BY <2>2, <3>1, <3>2
  <2>5. Told(a)'
    <3>1. Genuine(post[a].answer)'
      BY <1>3, <2>1 DEF Genuine
    <3>2. post[a].tries > 0 /\ (post[a].tries = 2 => kind = "encrypted")
      BY <1>1, <2>1 DEF Told
    <3> QED
      BY <1>3, <2>1, <2>3, <2>4, <3>1, <3>2 DEF Told
  <2>6. ASSUME NEW b \in Actors PROVE Told(b)'
    BY <1>1, <1>3, <2>1, <2>3, <2>5, ToldStays
  <2>7. ASSUME post'[a].answer.content = "invalid"
        PROVE  \/ <<"Create", "noId">> \in troubles'
               \/ line.command = "cdataEnd"
               \/ \E i \in DOMAIN line.arguments : line.arguments[i] = "cdataEnd"
    <3>1. Delivered(a)
      BY <2>2, <2>7 DEF Lost, NetErrors
    <3>2. Refuses(a, "invalid")
      BY <2>7, <3>1 DEF Delivered, Effect, Opens, Starts, Gives, Feeds, Closes
    <3>3. (pc[a] # "Create" /\ shellID = NoText) \/ (pc[a] = "Command" /\ Tears)
      BY <3>2 DEF Refuses
    <3>4. CASE pc[a] # "Create" /\ shellID = NoText
      <4>1. commandID = NoText
        BY <3>4 DEF IdInv
      <4>2. a = "main" /\ pc["main"] # "over"
        BY <2>1, <3>4, <4>1 DEF PhaseInv, Actors, Requesting
      <4> QED
        BY <1>3, <3>4, <4>2 DEF IdInv
    <3>5. CASE pc[a] = "Command" /\ Tears
      BY <3>5, TornTexts
    <3> QED
      BY <3>3, <3>4, <3>5
  <2>8. RequestsAccepted'
    BY <1>1, <1>3, <2>1, <2>7 DEF RequestsAccepted
  <2> QED
    BY <1>2, <2>6, <2>8
<1>11. CASE ProcessMoves \/ ShellExpires \/ Over
  <2>1. UNCHANGED <<client, post, troubles>>
    BY <1>11, WorldMoves DEF Over, vars, client, server
  <2>2. pc' = pc /\ post' = post
    BY <2>1 DEF client
  <2>3. \A b \in Actors : Told(b)'
    BY <1>1, <1>3, <2>2, ToldStays
  <2>4. RequestsAccepted'
    BY <1>1, <1>3, <2>2 DEF RequestsAccepted
  <2> QED
    BY <1>2, <2>3, <2>4
<1> QED
  BY <1>6, <1>7, <1>8, <1>9, <1>10, <1>11 DEF Next

-----------------------------------------------------------------------------
(* The ids.                                                                *)

\* What the steps of main's Post count for.
LEMMA ServedSteps ==
    ASSUME TypeOK, AnswerInv, TypeOK'
    PROVE  /\ Served \in Int /\ Served' \in Int
           /\ post["main"].tries \in 0..2 /\ post'["main"].tries \in 0..2
           /\ post'["main"] = post["main"] => Served' = Served
           /\ post["main"].stage = "none" => Served = 0
           /\ post'["main"].stage \in {"waiting", "posted"} /\ post'["main"].tries = 1 => Served' = 0
           /\ post["main"].stage = "answered" => Served = post["main"].tries
           /\ post'["main"].stage = "posted" /\ post'["main"].tries = 2 => Served' = 1
           /\ post["main"].stage \in {"waiting", "posted"} => Served = post["main"].tries - 1
           /\ post'["main"].stage \in {"waiting", "posted"} => Served' = post'["main"].tries - 1
           /\ post'["main"].stage = "answered" => Served' = post'["main"].tries
           /\ post'["main"] = NoPost => Served' = 0
<1>1. post["main"].tries \in 0..2 /\ post'["main"].tries \in 0..2
  BY DEF TypeOK, Posts, Actors
<1>2. NoPost.tries = 0 /\ NoPost.stage = "none"
  BY DEF NoPost, Posting
<1>3. post["main"].stage = "none" => post["main"] = NoPost
  BY DEF AnswerInv, Told, Actors
<1> QED
  BY <1>1, <1>2, <1>3 DEF Served

\* What the server makes when it gives an id away.
LEMMA IdsGiven ==
    ASSUME TypeOK, IdInv, shells' \in Seq(BOOLEAN), commands' \in Seq(Processes),
           NEW a \in Actors, NEW c, NEW id
    PROVE  /\ Opens(a, c, id) => /\ Len(shells') = Len(shells) + 1 /\ Len(commands') = Len(commands)
                                 /\ id # NoText /\ id \in Ids(ShellIds, shells')
           /\ Starts(a, c, id) => /\ Len(commands') = Len(commands) + 1 /\ shells' = shells
                                  /\ id # NoText /\ id \in Ids(CommandIds, commands')
           /\ Refuses(a, c) \/ Gives(a, c) \/ Feeds(a, c) \/ Closes(a, c) =>
                 /\ Len(shells') = Len(shells) /\ Len(commands') = Len(commands)
                 /\ DOMAIN shells' = DOMAIN shells /\ DOMAIN commands' = DOMAIN commands
<1>1. shells \in Seq(BOOLEAN) /\ commands \in Seq(Processes)
  BY DEF TypeOK
<1>2. Len(shells) + 1 \in 1..3 /\ Len(commands) + 1 \in 1..3
  BY FewMade
<1>3. ShellIds[Len(shells) + 1] # NoText /\ CommandIds[Len(commands) + 1] # NoText
  BY <1>2, NamesTyped
<1>4. ASSUME DOMAIN commands' = DOMAIN commands PROVE Len(commands') = Len(commands)
  BY <1>1, <1>4
<1>5. ASSUME Opens(a, c, id)
      PROVE  /\ Len(shells') = Len(shells) + 1 /\ Len(commands') = Len(commands)
             /\ id # NoText /\ id \in Ids(ShellIds, shells')
  <2>1. id = ShellIds[Len(shells) + 1] /\ shells' = Append(shells, TRUE) /\ DOMAIN commands' = DOMAIN commands
    BY <1>5 DEF Opens, Alike
  <2>2. Len(shells') = Len(shells) + 1
    BY <1>1, <2>1, AppendProperties
  <2>3. TRUE \in BOOLEAN
    OBVIOUS
  <2>4. ShellIds[Len(shells) + 1] \in Ids(ShellIds, Append(shells, TRUE))
    BY <1>1, <2>3, IdsGrow, Zenon
  <2> QED
    BY <1>3, <1>4, <2>1, <2>2, <2>4
<1>6. ASSUME Starts(a, c, id)
      PROVE  /\ Len(commands') = Len(commands) + 1 /\ shells' = shells
             /\ id # NoText /\ id \in Ids(CommandIds, commands')
  <2>1. id = CommandIds[Len(commands) + 1] /\ shells' = shells /\ Len(commands') = Len(commands) + 1
    BY <1>6 DEF Starts
  <2>2. Len(commands) + 1 \in DOMAIN commands'
    BY <1>1, <1>2, <2>1
  <2> QED
    BY <1>3, <2>1, <2>2 DEF Ids
<1>7. ASSUME Refuses(a, c) \/ Gives(a, c) \/ Feeds(a, c) \/ Closes(a, c)
      PROVE  /\ Len(shells') = Len(shells) /\ Len(commands') = Len(commands)
             /\ DOMAIN shells' = DOMAIN shells /\ DOMAIN commands' = DOMAIN commands
  <2>1. DOMAIN shells' = DOMAIN shells /\ DOMAIN commands' = DOMAIN commands
    BY <1>7 DEF Refuses, Gives, Feeds, Closes, Alike
  <2>2. Len(shells') = Len(shells)
    BY <1>1, <2>1
  <2> QED
    BY <1>4, <2>1, <2>2
<1> QED
  BY <1>5, <1>6, <1>7, Zenon

LEMMA MadeByAnswer ==
    ASSUME TypeOK, PhaseInv, IdInv, NEW a \in Actors, Serve(a) \/ NetworkFails(a)
    PROVE  /\ \/ /\ Len(shells') = Len(shells) /\ Len(commands') = Len(commands)
                 /\ post'[a].answer.content # "id"
              \/ /\ pc[a] = "Create"
                 /\ Len(shells') = Len(shells) + 1 /\ Len(commands') = Len(commands)
                 /\ post'[a].answer.content = "id" =>
                       post'[a].id # NoText /\ post'[a].id \in Ids(ShellIds, shells')
              \/ /\ pc[a] = "Command" /\ shellID # NoText
                 /\ shells' = shells /\ Len(commands') = Len(commands) + 1
                 /\ post'[a].answer.content = "id" =>
                       post'[a].id # NoText /\ post'[a].id \in Ids(CommandIds, commands')
<1>1. shells' \in Seq(BOOLEAN) /\ commands' \in Seq(Processes) /\ (Delivered(a) \/ Lost(a))
  BY AnswerMoves, Zenon
<1>2. ASSUME NEW c, NEW id, Opens(a, c, id)
      PROVE  /\ pc[a] = "Create"
             /\ Len(shells') = Len(shells) + 1 /\ Len(commands') = Len(commands)
             /\ id # NoText /\ id \in Ids(ShellIds, shells')
  BY <1>1, <1>2, IdsGiven, Zenon DEF Opens
<1>3. ASSUME NEW c, NEW id, Starts(a, c, id)
      PROVE  /\ pc[a] = "Command" /\ shellID # NoText
             /\ shells' = shells /\ Len(commands') = Len(commands) + 1
             /\ id # NoText /\ id \in Ids(CommandIds, commands')
  BY <1>1, <1>3, IdsGiven, Zenon DEF Starts
<1>4. ASSUME NEW c, Refuses(a, c) \/ Gives(a, c) \/ Feeds(a, c) \/ Closes(a, c)
      PROVE  Len(shells') = Len(shells) /\ Len(commands') = Len(commands) /\ c # "id"
  <2>1. c # "id"
    BY <1>4 DEF Refuses, Gives, Feeds, Closes
  <2> QED
    BY <1>1, <1>4, <2>1, IdsGiven, Zenon
<1>5. CASE Delivered(a)
  BY <1>2, <1>3, <1>4, <1>5, Zenon DEF Delivered, Effect
<1>6. CASE Lost(a)
  <2>1. post'[a].answer.content # "id"
    BY <1>6 DEF Lost, NetErrors
  <2>2. CASE shells' = shells /\ Alike
    <3>1. Len(commands') = Len(commands)
      BY <1>1, <2>2 DEF TypeOK, Alike
    <3> QED
      BY <2>1, <2>2, <3>1
  <2>3. CASE \E c, id : Effect(a, c, id)
    <3>1. PICK c, id : Effect(a, c, id)
      BY <2>3
    <3> QED
      BY <1>2, <1>3, <1>4, <2>1, <3>1, Zenon DEF Effect
  <2> QED
    BY <1>6, <2>2, <2>3, Zenon DEF Lost
<1> QED
  BY <1>1, <1>5, <1>6

LEMMA IdStep ==
    ASSUME TypeOK, TypeOK', PhaseInv, AnswerInv, AnswerInv', IdInv, Next
    PROVE  IdInv'
<1>1. /\ shells \in Seq(BOOLEAN) /\ commands \in Seq(Processes)
      /\ shells' \in Seq(BOOLEAN) /\ commands' \in Seq(Processes)
      /\ Len(shells) \in Nat /\ Len(commands) \in Nat
  BY DEF TypeOK
<1>2. troubles \subseteq troubles'
  BY TroublesStay
<1>3. /\ Len(shells) <= IF pc["main"] = "Create" THEN Served ELSE 2
      /\ Len(commands) <= CASE pc["main"] = "Create" -> 0 [] pc["main"] = "Command" -> Served [] OTHER -> 2
      /\ pc["main"] = "Create" => shellID = NoText
      /\ commandID # NoText => shellID # NoText
      /\ shellID = NoText => pc["main"] \in {"Create", "over"} \/ <<"Create", "noId">> \in troubles
      /\ post["main"].answer.content = "id" =>
            /\ post["main"].id # NoText /\ pc["main"] \in {"Create", "Command"}
            /\ pc["main"] = "Create" => post["main"].id \in Ids(ShellIds, shells)
            /\ pc["main"] = "Command" => shellID # NoText /\ post["main"].id \in Ids(CommandIds, commands)
  BY DEF IdInv
<1>4. \* Nothing is made, and main's Post has no id that it had not.
      ASSUME pc'["main"] = pc["main"], UNCHANGED <<shellID, commandID>>, Served' = Served,
             Len(shells') = Len(shells), Len(commands') = Len(commands),
             post'["main"] = post["main"] \/ post'["main"].answer.content # "id"
      PROVE  IdInv'
  <2>1. DOMAIN shells' = DOMAIN shells /\ DOMAIN commands' = DOMAIN commands
    BY <1>1, <1>4
  <2>2. Ids(ShellIds, shells') = Ids(ShellIds, shells) /\ Ids(CommandIds, commands') = Ids(CommandIds, commands)
    BY <2>1, IdsStay
  <2> QED
    BY <1>2, <1>3, <1>4, <2>2 DEF IdInv
<1>5. ASSUME NEW a \in Actors, Begin(a) PROVE IdInv'
  <2>1. /\ post[a].stage = "none" /\ post'[a].stage \in {"waiting", "posted"} /\ post'[a].tries = 1
        /\ post'[a].answer = NoAnswer
        /\ \A b \in Actors : b # a => post'[b] = post[b]
        /\ pc' = pc \/ (a = "fetch" /\ pc' = [pc EXCEPT !["fetch"] = "last"])
        /\ UNCHANGED <<shellID, commandID, server>>
    BY <1>5, BeginDoes
  <2>2. pc'["main"] = pc["main"]
    BY <2>1 DEF TypeOK, Actors
  <2>3. Served' = Served
    BY <2>1, ServedSteps DEF Actors
  <2> QED
    BY <1>4, <2>1, <2>2, <2>3, NoAnswerSays DEF server, Actors
<1>6. ASSUME NEW a \in Actors, Acquire(a) PROVE IdInv'
  <2>1. /\ post[a].stage = "waiting" /\ post'[a].stage = "posted" /\ post'[a].tries = post[a].tries
        /\ post'[a].answer = post[a].answer
        /\ \A b \in Actors : b # a => post'[b] = post[b]
        /\ UNCHANGED <<client, server>>
    BY <1>6, AcquireDoes
  <2>2. post[a].answer.content # "id"
    BY <2>1, NoAnswerSays DEF AnswerInv, Told
  <2>3. Served' = Served
    BY <2>1, ServedSteps DEF Actors
  <2> QED
    BY <1>4, <2>1, <2>2, <2>3 DEF client, server, Actors
<1>7. ASSUME NEW a \in Actors, Retry(a) PROVE IdInv'
  <2>1. /\ post[a].stage = "answered" /\ post'[a].stage = "posted"
        /\ post[a].tries = 1 /\ post'[a].tries = 2
        /\ post'[a].answer = NoAnswer
        /\ \A b \in Actors : b # a => post'[b] = post[b]
        /\ UNCHANGED <<client, server>>
    BY <1>7, RetryDoes
  <2>2. Served' = Served
    BY <2>1, ServedSteps DEF Actors
  <2> QED
    BY <1>4, <2>1, <2>2, NoAnswerSays DEF client, server, Actors
<1>8. ASSUME NEW a \in Actors, Caller(a) PROVE IdInv'
  <2>1. /\ post[a].stage = "answered" /\ post'[a] = NoPost
        /\ \A b \in Actors : b # a => post'[b] = post[b]
        /\ UNCHANGED <<shells, commands, troubles>>
    BY <1>8, CallerDoes DEF server
  <2>2. NoPost.answer.content # "id"
    BY NoAnswerSays DEF NoPost, Posting
  <2>3. CASE a = "main" /\ CreateReturns
    <3>1. Genuine(post["main"].answer)
      BY <2>1, <2>3 DEF AnswerInv, Told
    <3>2. /\ pc["main"] = "Create"
          /\ \/ pc'["main"] = "over" /\ shellID' = NoText
             \/ /\ pc'["main"] = "Command" /\ shellID' = post["main"].id
                /\ post["main"].answer.content = "id"
             \/ /\ pc'["main"] = "Command" /\ shellID' = NoText
                /\ post["main"].answer.content = "noId"
          /\ UNCHANGED commandID
      BY <2>3, <3>1, CreateDoes
    <3>3. Len(shells) <= 2 /\ Len(commands) = 0 /\ Served' = 0
      BY <1>1, <1>3, <2>1, <2>3, <3>2, ServedSteps
    <3>4. post["main"].answer.content = "noId" => <<"Create", "noId">> \in troubles
      BY <2>1, <2>3, <3>2 DEF AnswerInv, Told, ActionAt
    <3>5. commandID = NoText
      BY <3>2 DEF PhaseInv
    <3> QED
      BY <1>3, <2>1, <2>2, <2>3, <3>2, <3>3, <3>4, <3>5 DEF IdInv
  <2>4. CASE a = "main" /\ CommandReturns
    <3>1. /\ pc["main"] = "Command" /\ pc'["main"] \in {"Delete", "Signal"}
          /\ commandID' = NoText \/ (commandID' = post["main"].id /\ post["main"].answer.content = "id")
          /\ UNCHANGED shellID
      BY <2>4, CommandDoes
    <3>2. Len(shells) <= 2 /\ Len(commands) <= 2
      BY <1>1, <1>3, <2>1, <2>4, <3>1, ServedSteps
    <3>3. commandID' # NoText => shellID # NoText
      BY <1>3, <3>1
    <3> QED
      BY <1>3, <2>1, <2>2, <2>4, <3>1, <3>2, <3>3 DEF IdInv
  <2>5. CASE a = "fetch" /\ ReceiveReturns
    <3>1. pc'["main"] = pc["main"] /\ UNCHANGED <<shellID, commandID>> /\ post'["main"] = post["main"]
      BY <2>1, <2>5, ReceiveDoes DEF Actors
    <3> QED
      BY <1>4, <2>1, <3>1, ServedSteps
  <2>6. CASE a = "writer" /\ SendReturns
    <3>1. pc'["main"] = pc["main"] /\ UNCHANGED <<shellID, commandID>> /\ post'["main"] = post["main"]
      BY <2>1, <2>6, SendDoes DEF Actors
    <3> QED
      BY <1>4, <2>1, <3>1, ServedSteps
  <2>7. CASE LastReturns(a)
    <3>1. /\ \A b \in Actors : b # a => pc'[b] = pc[b]
          /\ \/ a = "writer"
             \/ a = "main" /\ pc[a] \in {"Signal", "Delete"} /\ pc'[a] \in {"Delete", "over"}
          /\ UNCHANGED <<shellID, commandID>>
      BY <2>7, LastDoes
    <3>2. CASE a = "writer"
      BY <1>4, <2>1, <3>1, <3>2, ServedSteps DEF Actors
    <3>3. CASE a = "main" /\ pc[a] \in {"Signal", "Delete"} /\ pc'[a] \in {"Delete", "over"}
      BY <1>3, <2>1, <2>2, <3>1, <3>3 DEF IdInv
    <3> QED
      BY <3>1, <3>2, <3>3
  <2> QED
    BY <1>8, <2>3, <2>4, <2>5, <2>6, <2>7 DEF Caller
<1>9. ASSUME NEW a \in Actors, Serve(a) \/ NetworkFails(a) PROVE IdInv'
  <2>1. /\ post[a].stage = "posted" /\ pc[a] \in Requesting
        /\ post'[a].stage = "answered" /\ post'[a].tries = post[a].tries
        /\ \A b \in Actors : b # a => post'[b] = post[b]
        /\ UNCHANGED client
    BY <1>9, AnswerComes, Zenon
  <2>2. \/ /\ Len(shells') = Len(shells) /\ Len(commands') = Len(commands)
           /\ post'[a].answer.content # "id"
        \/ /\ pc[a] = "Create"
           /\ Len(shells') = Len(shells) + 1 /\ Len(commands') = Len(commands)
           /\ post'[a].answer.content = "id" =>
                 post'[a].id # NoText /\ post'[a].id \in Ids(ShellIds, shells')
        \/ /\ pc[a] = "Command" /\ shellID # NoText
           /\ shells' = shells /\ Len(commands') = Len(commands) + 1
           /\ post'[a].answer.content = "id" =>
                 post'[a].id # NoText /\ post'[a].id \in Ids(CommandIds, commands')
    BY <1>9, MadeByAnswer, Zenon
  <2>3. pc' = pc /\ UNCHANGED <<shellID, commandID>>
    BY <2>1 DEF client
  <2>4. CASE a # "main"
    <3>1. pc[a] \notin {"Create", "Command"} /\ post'["main"] = post["main"]
      BY <2>1, <2>4 DEF PhaseInv, Actors
    <3>2. Served' = Served
      BY <3>1, ServedSteps
    <3> QED
      BY <1>4, <2>2, <2>3, <3>1, <3>2
  <2>5. CASE a = "main"
    <3>1. Served' = Served + 1 /\ Served \in Int
      BY <2>1, <2>5, ServedSteps
    <3>2. CASE /\ Len(shells') = Len(shells) /\ Len(commands') = Len(commands)
               /\ post'[a].answer.content # "id"
      BY <1>1, <1>2, <1>3, <2>3, <2>5, <3>1, <3>2 DEF IdInv
    <3>3. CASE /\ pc[a] = "Create"
               /\ Len(shells') = Len(shells) + 1 /\ Len(commands') = Len(commands)
               /\ post'[a].answer.content = "id" =>
                     post'[a].id # NoText /\ post'[a].id \in Ids(ShellIds, shells')
      BY <1>1, <1>2, <1>3, <2>3, <2>5, <3>1, <3>3 DEF IdInv
    <3>4. CASE /\ pc[a] = "Command" /\ shellID # NoText
               /\ shells' = shells /\ Len(commands') = Len(commands) + 1
               /\ post'[a].answer.content = "id" =>
                     post'[a].id # NoText /\ post'[a].id \in Ids(CommandIds, commands')
      BY <1>1, <1>2, <1>3, <2>3, <2>5, <3>1, <3>4 DEF IdInv
    <3> QED
      BY <2>2, <3>2, <3>3, <3>4
  <2> QED
    BY <2>4, <2>5
<1>10. CASE ProcessMoves \/ ShellExpires \/ Over
  <2>1. UNCHANGED <<client, post>> /\ DOMAIN shells' = DOMAIN shells /\ DOMAIN commands' = DOMAIN commands
    BY <1>10, WorldMoves DEF Over, vars, server
  <2>2. Len(shells') = Len(shells) /\ Len(commands') = Len(commands)
    BY <1>1, <2>1
  <2> QED
    BY <1>4, <2>1, <2>2, ServedSteps DEF client
<1> QED
  BY <1>5, <1>6, <1>7, <1>8, <1>9, <1>10 DEF Next

-----------------------------------------------------------------------------
(* The shells that are closed.                                             *)

\* Posted again are only requests that the network has troubled.
LEMMA RetryableSays ==
    ASSUME NEW x, Genuine(x), Retryable(kind, x)
    PROVE  x.content \in {"reset", "page"}
<1>1. kind = "encrypted" /\ (x.content = "reset" \/ (x.status = 200 /\ x.type # "encrypted"))
  BY DEF Retryable
<1>2. CASE x.content \in NetErrors
  <2>1. x = Broken(x.content)
    BY <1>2 DEF Genuine
  <2>2. x.status = 0
    BY <2>1 DEF Broken
  <2> QED
    BY <1>1, <2>2
<1>3. CASE x.content \in Contents \ {"page"}
  <2>1. x = Answered(kind, x.content)
    BY <1>3 DEF Genuine
  <2>2. x.type = "encrypted"
    BY <1>1, <2>1 DEF Answered
  <2> QED
    BY <1>1, <2>2
<1> QED
  BY <1>2, <1>3 DEF Genuine

\* Only Create and Delete do something to shells.
LEMMA ShellsKept ==
    ASSUME NEW a \in Actors, pc[a] \notin {"Create", "Delete"}, Delivered(a) \/ Lost(a)
    PROVE  shells' = shells
<1>1. ASSUME NEW c, NEW id, Effect(a, c, id) PROVE shells' = shells
  BY <1>1 DEF Effect, Refuses, Opens, Starts, Gives, Feeds, Closes
<1> QED
  BY <1>1, Zenon DEF Delivered, Lost

NoLoss == \A t \in troubles : t[1] \notin {"Create", "Delete"}

LEMMA CloseStep ==
    ASSUME TypeOK, TypeOK', PhaseInv, AnswerInv, IdInv, CloseInv, Next
    PROVE  CloseInv'
<1> SUFFICES ASSUME NoLoss' PROVE CloseInv'
  BY DEF CloseInv, NoLoss
<1>1. troubles \subseteq troubles' /\ NoLoss
  BY TroublesStay DEF NoLoss
<1>2. shells \in Seq(BOOLEAN) /\ shells' \in Seq(BOOLEAN) /\ Len(shells) \in Nat
  BY DEF TypeOK
<1>3. /\ pc["main"] = "Create" => Len(shells) = (IF post["main"].answer.content = "id" THEN 1 ELSE 0)
      /\ pc["main"] \in {"Command", "Signal", "Delete"} => Len(shells) = 1 /\ shellID # NoText
      /\ (pc["main"] = "Delete" /\ post["main"].stage = "answered") \/ pc["main"] = "over" =>
            \A n \in DOMAIN shells : ~shells[n]
  BY <1>1 DEF CloseInv, NoLoss
<1>4. \* The shells stay, or close by themselves, and main's Post has no answer that it had not.
      ASSUME pc'["main"] = pc["main"], shellID' = shellID,
             Len(shells') = Len(shells), \A n \in DOMAIN shells : shells'[n] => shells[n],
             \/ post'["main"] = post["main"]
             \/ /\ post["main"].answer.content # "id" /\ post'["main"].answer.content # "id"
                /\ post'["main"].stage = "answered" => pc["main"] # "Delete"
      PROVE  CloseInv'
  <2>1. DOMAIN shells' = DOMAIN shells
    BY <1>2, <1>4
  <2> QED
    BY <1>3, <1>4, <2>1 DEF CloseInv
<1>5. ASSUME NEW a \in Actors, Begin(a) PROVE CloseInv'
  <2>1. /\ post[a].stage = "none" /\ post'[a].stage \in {"waiting", "posted"}
        /\ post'[a].answer = NoAnswer
        /\ \A b \in Actors : b # a => post'[b] = post[b]
        /\ pc' = pc \/ (a = "fetch" /\ pc' = [pc EXCEPT !["fetch"] = "last"])
        /\ UNCHANGED <<shellID, server>>
    BY <1>5, BeginDoes
  <2>2. pc'["main"] = pc["main"]
    BY <2>1 DEF TypeOK, Actors
  <2>3. post[a].answer.content # "id"
    BY <2>1, NoAnswerSays DEF AnswerInv, Told
  <2> QED
    BY <1>4, <2>1, <2>2, <2>3, NoAnswerSays DEF server, Actors
<1>6. ASSUME NEW a \in Actors, Acquire(a) PROVE CloseInv'
  <2>1. /\ post[a].stage = "waiting" /\ post'[a].stage = "posted" /\ post'[a].answer = post[a].answer
        /\ \A b \in Actors : b # a => post'[b] = post[b]
        /\ UNCHANGED <<client, server>>
    BY <1>6, AcquireDoes
  <2>2. post[a].answer.content # "id"
    BY <2>1, NoAnswerSays DEF AnswerInv, Told
  <2> QED
    BY <1>4, <2>1, <2>2 DEF client, server, Actors
<1>7. ASSUME NEW a \in Actors, Retry(a) PROVE CloseInv'
  <2>1. /\ post[a].stage = "answered" /\ post'[a].stage = "posted" /\ post'[a].answer = NoAnswer
        /\ Retryable(kind, post[a].answer)
        /\ \A b \in Actors : b # a => post'[b] = post[b]
        /\ UNCHANGED <<client, server>>
    BY <1>7, RetryDoes
  <2>2. Genuine(post[a].answer)
    BY <2>1 DEF AnswerInv, Told
  <2>3. post[a].answer.content # "id"
    BY <2>1, <2>2, RetryableSays
  <2> QED
    BY <1>4, <2>1, <2>3, NoAnswerSays DEF client, server, Actors
<1>8. ASSUME NEW a \in Actors, Caller(a) PROVE CloseInv'
  <2>1. /\ post[a].stage = "answered" /\ post'[a] = NoPost
        /\ \A b \in Actors : b # a => post'[b] = post[b]
        /\ UNCHANGED <<shells, commands, troubles>>
    BY <1>8, CallerDoes DEF server
  <2>2. NoPost.answer.content # "id" /\ NoPost.stage = "none"
    BY NoAnswerSays DEF NoPost, Posting
  <2>3. CASE a = "main" /\ CreateReturns
    <3>1. Genuine(post["main"].answer)
      BY <2>1, <2>3 DEF AnswerInv, Told
    <3>2. /\ pc["main"] = "Create"
          /\ \/ pc'["main"] = "over" /\ post["main"].answer.content # "id"
             \/ /\ pc'["main"] = "Command" /\ shellID' = post["main"].id
                /\ post["main"].answer.content = "id"
             \/ pc'["main"] = "Command" /\ post["main"].answer.content = "noId"
      BY <2>3, <3>1, CreateDoes
    <3>3. post["main"].answer.content # "noId"
      <4>1. post["main"].answer.content = "noId" => <<"Create", "noId">> \in troubles
        BY <2>1, <2>3, <3>2 DEF AnswerInv, Told, ActionAt
      <4> QED
        BY <1>1, <4>1 DEF NoLoss
    <3>4. CASE pc'["main"] = "over" /\ post["main"].answer.content # "id"
      <4>1. DOMAIN shells = {}
        BY <1>2, <1>3, <3>2, <3>4
      <4> QED
        BY <2>1, <3>4, <4>1 DEF CloseInv
    <3>5. CASE pc'["main"] = "Command" /\ shellID' = post["main"].id /\ post["main"].answer.content = "id"
      <4>1. post["main"].id # NoText
        BY <3>5 DEF IdInv
      <4> QED
        BY <1>3, <2>1, <3>2, <3>5, <4>1 DEF CloseInv
    <3> QED
      BY <3>2, <3>3, <3>4, <3>5
  <2>4. CASE a = "main" /\ CommandReturns
    <3>1. pc["main"] = "Command" /\ pc'["main"] \in {"Delete", "Signal"} /\ UNCHANGED shellID
      BY <2>4, CommandDoes
    <3> QED
      BY <1>3, <2>1, <2>2, <2>4, <3>1 DEF CloseInv
  <2>5. CASE a = "fetch" /\ ReceiveReturns
    <3>1. pc'["main"] = pc["main"] /\ UNCHANGED shellID /\ post'["main"] = post["main"]
      BY <2>1, <2>5, ReceiveDoes DEF Actors
    <3> QED
      BY <1>4, <2>1, <3>1
  <2>6. CASE a = "writer" /\ SendReturns
    <3>1. pc'["main"] = pc["main"] /\ UNCHANGED shellID /\ post'["main"] = post["main"]
      BY <2>1, <2>6, SendDoes DEF Actors
    <3> QED
      BY <1>4, <2>1, <3>1
  <2>7. CASE LastReturns(a)
    <3>1. /\ \A b \in Actors : b # a => pc'[b] = pc[b]
          /\ \/ a = "writer"
             \/ a = "main" /\ pc[a] = "Signal" /\ pc'[a] = "Delete"
             \/ a = "main" /\ pc[a] = "Delete" /\ pc'[a] = "over"
          /\ UNCHANGED shellID
      BY <2>7, LastDoes
    <3>2. CASE a = "writer"
      BY <1>4, <2>1, <3>1, <3>2 DEF Actors
    <3>3. CASE a = "main" /\ pc[a] = "Signal" /\ pc'[a] = "Delete"
      BY <1>3, <2>1, <2>2, <3>1, <3>3 DEF CloseInv
    <3>4. CASE a = "main" /\ pc[a] = "Delete" /\ pc'[a] = "over"
      BY <1>3, <2>1, <2>2, <3>1, <3>4 DEF CloseInv
    <3> QED
      BY <3>1, <3>2, <3>3, <3>4
  <2> QED
    BY <1>8, <2>3, <2>4, <2>5, <2>6, <2>7 DEF Caller
<1>9. ASSUME NEW a \in Actors, Serve(a) \/ NetworkFails(a) PROVE CloseInv'
  <2>1. /\ post[a].stage = "posted" /\ pc[a] \in Requesting
        /\ post'[a].stage = "answered"
        /\ \A b \in Actors : b # a => post'[b] = post[b]
        /\ UNCHANGED client
    BY <1>9, AnswerComes, Zenon
  <2>2. /\ shells' \in Seq(BOOLEAN) /\ commands' \in Seq(Processes)
        /\ Delivered(a) \/ Lost(a)
    BY <1>9, AnswerMoves, Zenon
  <2>3. pc' = pc /\ UNCHANGED <<shellID, commandID>>
    BY <2>1 DEF client
  <2>4. post[a].answer.content = "none"
    BY <2>1, NoAnswerSays DEF AnswerInv, Told
  <2>5. CASE pc[a] \notin {"Create", "Delete"}
    <3>1. shells' = shells
      BY <2>2, <2>5, ShellsKept
    <3>2. post'["main"] = post["main"] \/ a = "main"
      BY <2>1 DEF Actors
    <3>3. CASE a = "main"
      <4>1. pc[a] \in {"Command", "Signal"}
        BY <2>1, <2>5, <3>3 DEF PhaseInv, Requesting
      <4> QED
        BY <1>3, <2>3, <3>1, <3>3, <4>1 DEF CloseInv
    <3> QED
      BY <1>4, <2>3, <3>1, <3>2, <3>3
  <2>6. CASE pc[a] \in {"Create", "Delete"}
    <3>1. a = "main"
      BY <2>6 DEF PhaseInv, Actors
    <3>2. Delivered(a)
      <4>1. ~Lost(a)
        <5>1. ActionAt(pc[a]) \in {"Create", "Delete"}
          BY <2>6 DEF ActionAt
        <5>2. \A t \in troubles' : t[1] \notin {"Create", "Delete"}
          BY DEF NoLoss
        <5>3. ASSUME Lost(a) PROVE <<ActionAt(pc[a]), post'[a].answer.content>> \in troubles'
          BY <5>3 DEF Lost
        <5> QED
          BY <5>1, <5>2, <5>3
      <4> QED
        BY <2>2, <4>1
    <3>3. Effect(a, post'[a].answer.content, post'[a].id)
      BY <3>2 DEF Delivered
    <3>4. CASE pc[a] = "Create"
      <4>1. \/ post'[a].answer.content = "id" /\ shells' = Append(shells, TRUE)
            \/ post'[a].answer.content # "id" /\ shells' = shells
        BY <3>3, <3>4 DEF Effect, Refuses, Opens, Starts, Gives, Feeds, Closes
      <4>2. Len(Append(shells, TRUE)) = Len(shells) + 1
        BY <1>2, AppendProperties
      <4>3. Len(shells) = 0
        BY <1>3, <2>4, <3>1, <3>4
      <4>4. Len(shells') = IF post'["main"].answer.content = "id" THEN 1 ELSE 0
        <5>1. CASE post'[a].answer.content = "id" /\ shells' = Append(shells, TRUE)
          <6>1. Len(shells') = Len(Append(shells, TRUE))
            BY <5>1
          <6>2. Len(shells') = 1
            BY <4>2, <4>3, <6>1
          <6> QED
            BY <3>1, <5>1, <6>2
        <5>2. CASE post'[a].answer.content # "id" /\ shells' = shells
          BY <3>1, <4>3, <5>2
        <5> QED
          BY <4>1, <5>1, <5>2
      <4> QED
        BY <2>3, <3>1, <3>4, <4>4 DEF CloseInv
    <3>5. CASE pc[a] = "Delete"
      <4>1. Len(shells) = 1 /\ shellID # NoText
        BY <1>3, <3>1, <3>5
      <4>2. /\ MyShell \in DOMAIN shells
            /\ (shells' = shells /\ ~shells[MyShell]) \/ shells' = [shells EXCEPT ![MyShell] = FALSE]
        BY <3>3, <3>5, <4>1 DEF Effect, Refuses, Opens, Starts, Gives, Feeds, Closes
      <4>3. DOMAIN shells = {1} /\ MyShell = 1
        BY <1>2, <4>1, <4>2
      <4>4. DOMAIN shells' = {1} /\ ~shells'[1]
        BY <4>2, <4>3
      <4>5. Len(shells') = 1
        BY <2>2, <4>4
      <4> QED
        BY <2>3, <3>1, <3>5, <4>1, <4>4, <4>5 DEF CloseInv
    <3> QED
      BY <2>6, <3>4, <3>5
  <2> QED
    BY <2>5, <2>6
<1>10. CASE ProcessMoves \/ ShellExpires \/ Over
  <2>1. /\ UNCHANGED <<client, post>> /\ DOMAIN shells' = DOMAIN shells
        /\ \A n \in DOMAIN shells : shells'[n] => shells[n]
    BY <1>10, WorldMoves DEF Over, vars, server
  <2>2. Len(shells') = Len(shells)
    BY <1>2, <2>1
  <2> QED
    BY <1>4, <2>1, <2>2 DEF client
<1> QED
  BY <1>5, <1>6, <1>7, <1>8, <1>9, <1>10 DEF Next

-----------------------------------------------------------------------------
(* The process of the command.                                             *)

\* The process and the shell that the client's ids name.
LEMMA MineFound ==
    ASSUME TypeOK, commandID # NoText
    PROVE  /\ Mine \in DOMAIN commands /\ commands[Mine] \in Processes
           /\ MyProcess = commands[Mine] /\ Input = commands[Mine].input /\ Input \in Seq(Nat)
<1>1. commandID \in Ids(CommandIds, commands)
  BY DEF TypeOK
<1>2. Mine \in DOMAIN commands
  BY <1>1, Found DEF Mine
<1>3. commands[Mine] \in Processes
  BY <1>2 DEF TypeOK
<1>4. MyProcess = commands[Mine]
  BY DEF MyProcess, Mine
<1> QED
  BY <1>2, <1>3, <1>4 DEF Input, Processes

LEMMA ShellFound ==
    ASSUME TypeOK, shellID # NoText
    PROVE  MyShell \in DOMAIN shells /\ MyShellOpen = shells[MyShell]
<1>1. shellID \in Ids(ShellIds, shells)
  BY DEF TypeOK
<1> QED
  BY <1>1, Found DEF MyShell, MyShellOpen

\* The writer feeds the process.
WriterFeeds ==
    /\ pc["writer"] = "Send" /\ post["writer"].stage = "posted" /\ post'["writer"].stage = "answered"
    /\ shells[MyShell] /\ commands'[Mine].input = commands[Mine].input \o <<acked + 1>>
    /\ UNCHANGED client

\* The fetch loop takes the output of the process.
FetchTakes ==
    /\ pc["fetch"] \in {"Receive", "last"}
    /\ post["fetch"].stage = "posted" /\ post'["fetch"].stage = "answered"
    /\ commands'[Mine].out = "taken" /\ commands[Mine].out = "pending"
    /\ \/ Delivered("fetch") /\ post'["fetch"].answer.content = "output"
       \/ Lost("fetch") /\ post'["fetch"].answer.content \in NetErrors

\* One answer's effect on the process of the command.
LEMMA EffectOnMine ==
    ASSUME TypeOK, PhaseInv, commandID # NoText, NEW a \in Actors, pc[a] \in Requesting,
           NEW c, NEW id, Effect(a, c, id)
    PROVE  /\ DOMAIN shells' = DOMAIN shells /\ \A n \in DOMAIN shells : shells'[n] => shells[n]
           /\ DOMAIN commands' = DOMAIN commands
           /\ commands[Mine].exited => commands'[Mine].exited
           /\ \/ commands'[Mine].input = commands[Mine].input
              \/ /\ a = "writer" /\ pc[a] = "Send" /\ c = "ok" /\ shells[MyShell]
                 /\ commands'[Mine].input = commands[Mine].input \o <<acked + 1>>
           /\ a = "writer" /\ pc[a] = "Send" /\ c = "ok" =>
                 commands'[Mine].input = commands[Mine].input \o <<acked + 1>>
           /\ \/ commands'[Mine].out = commands[Mine].out
              \/ /\ a = "fetch" /\ pc[a] \in {"Receive", "last"} /\ c = "output"
                 /\ commands'[Mine].out = "taken" /\ commands[Mine].out = "pending"
<1>1. pc[a] \notin {"Create", "Command"}
  BY DEF PhaseInv, Actors
<1>2. Mine \in DOMAIN commands
  BY MineFound
<1>3. /\ pc[a] \in {"Send", "End"} => a = "writer"
      /\ pc[a] \in {"Receive", "last"} => a = "fetch"
  BY DEF PhaseInv, Actors
<1>4. CASE Refuses(a, c)
  BY <1>2, <1>3, <1>4 DEF Refuses, Alike, Keeps
<1>5. CASE Gives(a, c)
  BY <1>2, <1>3, <1>5 DEF Gives
<1>6. CASE Feeds(a, c)
  BY <1>2, <1>3, <1>6 DEF Feeds
<1>7. CASE Closes(a, c)
  BY <1>2, <1>7 DEF Closes, Alike, Keeps
<1> QED
  BY <1>1, <1>4, <1>5, <1>6, <1>7 DEF Effect, Opens, Starts

\* When the command has an id there are no more shells and processes than there were,
\* the client's are the same, and the process changes only as they say.
LEMMA AfterStart ==
    ASSUME TypeOK, TypeOK', PhaseInv, AnswerInv, IdInv, commandID # NoText, Next
    PROVE  /\ UNCHANGED <<shellID, commandID>>
           /\ Mine' = Mine /\ Mine \in DOMAIN commands
           /\ MyProcess = commands[Mine] /\ MyProcess' = commands'[Mine]
           /\ commands[Mine] \in Processes /\ commands'[Mine] \in Processes
           /\ MyShell \in DOMAIN shells /\ MyShellOpen = shells[MyShell]
           /\ MyShellOpen' => MyShellOpen
           /\ commands[Mine].exited => commands'[Mine].exited
           /\ commands'[Mine].input = commands[Mine].input \/ WriterFeeds
           /\ \/ commands'[Mine].out = commands[Mine].out
              \/ /\ commands[Mine].out = "none" /\ commands'[Mine].out = "pending"
                 /\ ~commands[Mine].exited /\ UNCHANGED <<client, post, troubles>>
              \/ FetchTakes
<1>1. pc["main"] \notin {"Create", "Command"} /\ shellID # NoText
  BY DEF PhaseInv, IdInv
<1>2. /\ Mine \in DOMAIN commands /\ commands[Mine] \in Processes /\ MyProcess = commands[Mine]
      /\ MyShell \in DOMAIN shells /\ MyShellOpen = shells[MyShell]
  BY <1>1, MineFound, ShellFound
<1> DEFINE Moves == \/ commands'[Mine].input = commands[Mine].input \/ WriterFeeds
           Puts == \/ commands'[Mine].out = commands[Mine].out
                   \/ /\ commands[Mine].out = "none" /\ commands'[Mine].out = "pending"
                      /\ ~commands[Mine].exited /\ UNCHANGED <<client, post, troubles>>
                   \/ FetchTakes
<1>3. ASSUME UNCHANGED <<shellID, commandID>>, DOMAIN shells' = DOMAIN shells,
             \A n \in DOMAIN shells : shells'[n] => shells[n], DOMAIN commands' = DOMAIN commands
      PROVE  /\ Mine' = Mine /\ MyProcess' = commands'[Mine] /\ commands'[Mine] \in Processes
             /\ MyShellOpen' => MyShellOpen
  <2>1. Find(commandID, CommandIds, commands') = Mine /\ Find(shellID, ShellIds, shells') = MyShell
    BY <1>3, IdsStay DEF Mine, MyShell
  <2>2. Mine' = Mine /\ MyProcess' = commands'[Mine] /\ MyShellOpen' = shells'[MyShell]
    BY <1>3, <2>1 DEF Mine, MyProcess, MyShellOpen
  <2>3. commands'[Mine] \in Processes
    BY <1>2, <1>3 DEF TypeOK
  <2> QED
    BY <1>2, <1>3, <2>2, <2>3
<1>4. ASSUME NEW a \in Actors, Begin(a) \/ Acquire(a) \/ Retry(a) \/ Caller(a)
      PROVE  UNCHANGED <<shellID, commandID, server>>
  <2>1. CASE Begin(a)
    BY <2>1, BeginDoes
  <2>2. CASE Acquire(a) \/ Retry(a)
    BY <2>2, AcquireDoes, RetryDoes DEF client
  <2>3. CASE Caller(a)
    <3>1. UNCHANGED server
      BY <2>3, CallerDoes
    <3>2. ~CreateReturns /\ ~CommandReturns
      BY <1>1 DEF CreateReturns, CommandReturns, Returns
    <3>3. UNCHANGED <<shellID, commandID>>
      BY <2>3, <3>2, ReceiveDoes, SendDoes, LastDoes DEF Caller
    <3> QED
      BY <3>1, <3>3
  <2> QED
    BY <1>4, <2>1, <2>2, <2>3
<1>5. CASE UNCHANGED <<shellID, commandID, server>>
  <2>1. UNCHANGED <<shellID, commandID, shells, commands>>
    BY <1>5 DEF server
  <2> QED
    BY <1>2, <1>3, <2>1
<1>6. ASSUME NEW a \in Actors, Serve(a) \/ NetworkFails(a)
      PROVE  /\ UNCHANGED <<shellID, commandID>> /\ DOMAIN shells' = DOMAIN shells
             /\ \A n \in DOMAIN shells : shells'[n] => shells[n]
             /\ DOMAIN commands' = DOMAIN commands
             /\ commands[Mine].exited => commands'[Mine].exited
             /\ Moves /\ Puts
  <2>1. /\ post[a].stage = "posted" /\ pc[a] \in Requesting /\ post'[a].stage = "answered"
        /\ \A b \in Actors : b # a => post'[b] = post[b]
        /\ UNCHANGED client
    BY <1>6, AnswerComes, Zenon
  <2>2. Delivered(a) \/ Lost(a)
    BY <1>6, AnswerMoves, Zenon
  <2>3. UNCHANGED <<shellID, commandID>>
    BY <2>1 DEF client
  <2>4. CASE \E c, id : /\ Effect(a, c, id)
                        /\ \/ Delivered(a) /\ c = post'[a].answer.content
                           \/ Lost(a) /\ (post'[a].answer.content = "noId" => c = "id")
                              /\ post'[a].answer.content # "page"
    <3>1. PICK c, id : /\ Effect(a, c, id)
                       /\ \/ Delivered(a) /\ c = post'[a].answer.content
                          \/ Lost(a) /\ (post'[a].answer.content = "noId" => c = "id")
                             /\ post'[a].answer.content # "page"
      BY <2>4
    <3>2. /\ DOMAIN shells' = DOMAIN shells /\ \A n \in DOMAIN shells : shells'[n] => shells[n]
          /\ DOMAIN commands' = DOMAIN commands
          /\ commands[Mine].exited => commands'[Mine].exited
          /\ \/ commands'[Mine].input = commands[Mine].input
             \/ /\ a = "writer" /\ pc[a] = "Send" /\ shells[MyShell]
                /\ commands'[Mine].input = commands[Mine].input \o <<acked + 1>>
          /\ \/ commands'[Mine].out = commands[Mine].out
             \/ /\ a = "fetch" /\ pc[a] \in {"Receive", "last"} /\ c = "output"
                /\ commands'[Mine].out = "taken" /\ commands[Mine].out = "pending"
      BY <2>1, <3>1, EffectOnMine, Zenon
    <3>3. Moves
      BY <2>1, <3>2 DEF WriterFeeds
    <3>4. Puts
      <4>1. CASE commands'[Mine].out = commands[Mine].out
        BY <4>1
      <4>2. CASE /\ a = "fetch" /\ pc[a] \in {"Receive", "last"} /\ c = "output"
                 /\ commands'[Mine].out = "taken" /\ commands[Mine].out = "pending"
        <5>1. \/ Delivered(a) /\ post'[a].answer.content = "output"
              \/ Lost(a) /\ post'[a].answer.content \in NetErrors
          BY <3>1, <4>2 DEF Lost
        <5> QED
          BY <2>1, <4>2, <5>1 DEF FetchTakes
      <4> QED
        BY <3>2, <4>1, <4>2
    <3> QED
      BY <2>3, <3>2, <3>3, <3>4
  <2>5. CASE shells' = shells /\ Alike
    BY <1>2, <2>3, <2>5 DEF Alike, Keeps
  <2>6. CASE Delivered(a)
    BY <2>4, <2>6, Zenon DEF Delivered
  <2>7. CASE Lost(a)
    BY <2>4, <2>5, <2>7, Zenon DEF Lost
  <2> QED
    BY <2>2, <2>6, <2>7
<1>7. ASSUME NEW a \in Actors, Serve(a) \/ NetworkFails(a)
      PROVE  /\ UNCHANGED <<shellID, commandID>>
             /\ Mine' = Mine /\ MyProcess' = commands'[Mine] /\ commands'[Mine] \in Processes
             /\ MyShellOpen' => MyShellOpen
             /\ commands[Mine].exited => commands'[Mine].exited
             /\ Moves /\ Puts
  <2> HIDE DEF Moves, Puts
  <2> QED
    BY <1>3, <1>6, <1>7, Zenon
<1>8. CASE ProcessMoves \/ ShellExpires
  <2>1. /\ DOMAIN shells' = DOMAIN shells /\ \A n \in DOMAIN shells : shells'[n] => shells[n]
        /\ DOMAIN commands' = DOMAIN commands
        /\ commands'[Mine].input = commands[Mine].input
        /\ commands[Mine].exited => commands'[Mine].exited
        /\ \/ commands'[Mine].out = commands[Mine].out
           \/ /\ commands[Mine].out = "none" /\ commands'[Mine].out = "pending"
              /\ ~commands[Mine].exited
        /\ UNCHANGED <<client, post, troubles>>
    BY <1>2, <1>8, WorldMoves
  <2>2. UNCHANGED <<shellID, commandID>>
    BY <2>1 DEF client
  <2> QED
    BY <1>2, <1>3, <2>1, <2>2
<1>9. CASE Over
  BY <1>5, <1>9 DEF Over, vars, client
<1> QED
  <2> HIDE DEF Moves, Puts
  <2>1. CASE \E a \in Actors : Begin(a) \/ Acquire(a) \/ Retry(a) \/ Caller(a)
    BY <1>4, <1>5, <2>1
  <2>2. CASE \E a \in Actors : Serve(a) \/ NetworkFails(a)
    BY <1>2, <1>7, <2>2, Zenon DEF Moves, Puts
  <2> QED
    BY <1>8, <1>9, <2>1, <2>2 DEF Next

\* Before that nobody asks processes for output or feeds them.
LEMMA Unstarted ==
    ASSUME TypeOK, TypeOK', PhaseInv, IdInv, pc["fetch"] = "none", Next,
           \A n \in DOMAIN commands : commands[n].input = <<>> /\ commands[n].out # "taken"
    PROVE  \A n \in DOMAIN commands' : commands'[n].input = <<>> /\ commands'[n].out # "taken"
<1> DEFINE Fresh == \A n \in DOMAIN commands' : commands'[n].input = <<>> /\ commands'[n].out # "taken"
<1>1. pc["fetch"] = "none" /\ pc["writer"] = "none"
  BY DEF PhaseInv
<1>2. CASE DOMAIN commands' = DOMAIN commands /\ \A n \in DOMAIN commands : Keeps(n)
  BY <1>2 DEF Keeps
<1>3. ASSUME NEW a \in Actors, pc[a] \in Requesting, NEW c, NEW id, Effect(a, c, id) PROVE Fresh
  <2>1. pc[a] \notin {"Receive", "last", "Send", "End"}
    BY <1>1 DEF PhaseInv, Actors
  <2>2. CASE Alike
    BY <1>2, <2>2 DEF Alike
  <2>3. CASE Starts(a, c, id)
    <3>1. DOMAIN commands' = DOMAIN commands \cup {Len(commands) + 1}
      <4>1. Len(commands') = Len(commands) + 1
        BY <2>3 DEF Starts
      <4> QED
        BY <4>1 DEF TypeOK
    <3> QED
      BY <2>3, <3>1 DEF Starts, Keeps
  <2> QED
    BY <1>3, <2>1, <2>2, <2>3 DEF Effect, Refuses, Opens, Gives, Feeds, Closes
<1>4. ASSUME NEW a \in Actors, Serve(a) \/ NetworkFails(a) PROVE Fresh
  <2>1. pc[a] \in Requesting
    BY <1>4, AnswerComes, Zenon
  <2>2. Delivered(a) \/ Lost(a)
    BY <1>4, AnswerMoves, Zenon
  <2>3. CASE Alike
    BY <1>2, <2>3 DEF Alike
  <2>4. CASE \E c, id : Effect(a, c, id)
    BY <1>3, <2>1, <2>4, Zenon
  <2> QED
    BY <2>2, <2>3, <2>4, Zenon DEF Delivered, Lost
<1>5. ASSUME NEW a \in Actors, Begin(a) \/ Acquire(a) \/ Retry(a) \/ Caller(a) PROVE commands' = commands
  BY <1>5, BeginDoes, AcquireDoes, RetryDoes, CallerDoes DEF server
<1>6. CASE ProcessMoves \/ ShellExpires
  <2>1. /\ DOMAIN commands' = DOMAIN commands
        /\ \A n \in DOMAIN commands :
              /\ commands'[n].input = commands[n].input
              /\ commands'[n].out = commands[n].out \/ commands'[n].out = "pending"
    BY <1>6, WorldMoves
  <2> QED
    BY <2>1
<1>7. CASE Over
  BY <1>7 DEF Over, vars, server
<1> QED
  BY <1>4, <1>5, <1>6, <1>7 DEF Next

-----------------------------------------------------------------------------
(* The input.                                                              *)

\* The input t is s with the chunk k after the last, l.
Follows(s, l, k, t) ==
    /\ t \in Seq(Nat) /\ t # <<>> /\ t[Len(t)] = k /\ Len(t) = Len(s) + 1
    /\ \A i \in DOMAIN t : t[i] \in 1..k
    /\ \A i \in 2..Len(s) : t[i] = s[i] /\ t[i - 1] = s[i - 1]
    /\ Len(t) \in 2..Len(t) => t[Len(t) - 1] = l
    /\ Range(t) = Range(s) \cup {k}

LEMMA Feeding ==
    ASSUME NEW s \in Seq(Nat), NEW k \in Nat, k > 0, NEW l \in Nat,
           s # <<>> => l = s[Len(s)], l <= k,
           \A i \in DOMAIN s : s[i] \in 1..l, NEW t, t = s \o <<k>>
    PROVE  Follows(s, l, k, t)
<1>1. PICK e : e = <<k>>
  OBVIOUS
<1>2. e \in Seq(Nat) /\ Len(e) = 1 /\ e[1] = k
  BY <1>1
<1>3. /\ t \in Seq(Nat) /\ Len(t) = Len(s) + 1
      /\ \A i \in 1..Len(t) : t[i] = IF i <= Len(s) THEN s[i] ELSE e[i - Len(s)]
  BY <1>1, <1>2, ConcatProperties
<1>4. Len(s) \in Nat /\ DOMAIN s = 1..Len(s) /\ DOMAIN t = 1..(Len(s) + 1)
  BY <1>3
<1>5. (\A i \in 1..Len(s) : t[i] = s[i]) /\ t[Len(s) + 1] = k
  BY <1>2, <1>3, <1>4
<1>6. t # <<>> /\ t[Len(t)] = k
  BY <1>3, <1>4, <1>5
<1>7. \A i \in DOMAIN t : t[i] \in 1..k
  BY <1>4, <1>5
<1>8. \A i \in 2..Len(s) : t[i] = s[i] /\ t[i - 1] = s[i - 1]
  BY <1>4, <1>5
<1>9. ASSUME Len(t) \in 2..Len(t) PROVE t[Len(t) - 1] = l
  <2>1. Len(s) >= 1
    BY <1>3, <1>4, <1>9
  <2>2. s # <<>> /\ l = s[Len(s)]
    BY <2>1
  <2> QED
    BY <1>3, <1>4, <1>5, <2>1, <2>2
<1>10. Range(t) = Range(s) \cup {k}
  <2>1. ASSUME NEW x \in Range(t) PROVE x \in Range(s) \cup {k}
    <3>1. PICK i \in 1..(Len(s) + 1) : x = t[i]
      BY <1>4, <2>1 DEF Range
    <3>2. CASE i = Len(s) + 1
      BY <1>5, <3>1, <3>2
    <3>3. CASE i \in 1..Len(s)
      BY <1>4, <1>5, <3>1, <3>3 DEF Range
    <3> QED
      BY <1>4, <3>1, <3>2, <3>3
  <2>2. ASSUME NEW x \in Range(s) PROVE x \in Range(t)
    <3>1. PICK i \in 1..Len(s) : x = s[i]
      BY <1>4, <2>2 DEF Range
    <3>2. i \in DOMAIN t /\ t[i] = x
      BY <1>4, <1>5, <3>1
    <3> QED
      BY <3>2 DEF Range
  <2>3. k \in Range(t)
    <3>1. Len(s) + 1 \in DOMAIN t
      BY <1>4
    <3> QED
      BY <1>5, <3>1 DEF Range
  <2> QED
    BY <2>1, <2>2, <2>3
<1> QED
  BY <1>3, <1>6, <1>7, <1>8, <1>9, <1>10 DEF Follows

\* A goroutine that has begun does not go back.
LEMMA Begun ==
    ASSUME TypeOK, PhaseInv, AnswerInv, IdInv, Next
    PROVE  /\ pc'["writer"] = "none" => pc["writer"] = "none"
           /\ pc'["fetch"] = "none" => pc["fetch"] = "none"
<1>1. ASSUME NEW a \in Actors, Begin(a)
      PROVE  /\ pc'["writer"] = "none" => pc["writer"] = "none"
             /\ pc'["fetch"] = "none" => pc["fetch"] = "none"
  <2>1. pc' = pc \/ pc' = [pc EXCEPT !["fetch"] = "last"]
    BY <1>1, BeginDoes
  <2> QED
    BY <2>1 DEF TypeOK, Actors
<1>2. ASSUME NEW a \in Actors, Acquire(a) \/ Retry(a) PROVE pc' = pc
  BY <1>2, AcquireDoes, RetryDoes DEF client
<1>3. ASSUME NEW a \in Actors, Caller(a)
      PROVE  /\ pc'["writer"] = "none" => pc["writer"] = "none"
             /\ pc'["fetch"] = "none" => pc["fetch"] = "none"
  <2>1. CASE a = "main" /\ CreateReturns
    <3>1. post["main"].stage = "answered"
      BY <2>1 DEF CreateReturns, Returns
    <3>2. Genuine(post["main"].answer)
      BY <3>1 DEF AnswerInv, Told, Actors
    <3> QED
      BY <2>1, <3>2, CreateDoes
  <2>2. CASE a = "main" /\ CommandReturns
    BY <2>2, CommandDoes
  <2>3. CASE a = "fetch" /\ ReceiveReturns
    BY <2>3, ReceiveDoes
  <2>4. CASE a = "writer" /\ SendReturns
    BY <2>4, SendDoes
  <2>5. CASE LastReturns(a)
    BY <2>5, LastDoes DEF Actors
  <2> QED
    BY <1>3, <2>1, <2>2, <2>3, <2>4, <2>5 DEF Caller
<1>4. ASSUME NEW a \in Actors, Serve(a) \/ NetworkFails(a) PROVE pc' = pc
  <2>1. UNCHANGED client
    BY <1>4, AnswerComes, Zenon
  <2> QED
    BY <2>1 DEF client
<1>5. CASE ProcessMoves \/ ShellExpires \/ Over
  BY <1>5, WorldMoves DEF Over, vars, client
<1> QED
  BY <1>1, <1>2, <1>3, <1>4, <1>5 DEF Next

LEMMA UnfedStep ==
    ASSUME TypeOK, TypeOK', PhaseInv, AnswerInv, IdInv, Unfed, Next,
           pc["fetch"] = "none" => \A n \in DOMAIN commands : commands[n].out # "taken"
    PROVE  /\ Unfed'
           /\ pc'["fetch"] = "none" => \A n \in DOMAIN commands' : commands'[n].out # "taken"
<1>1. pc["fetch"] = "none" <=> pc["writer"] = "none"
  BY DEF PhaseInv
<1>2. CASE pc["fetch"] = "none"
  <2>1. \A n \in DOMAIN commands' : commands'[n].input = <<>> /\ commands'[n].out # "taken"
    BY <1>1, <1>2, Unstarted DEF Unfed
  <2> QED
    BY <2>1 DEF Unfed
<1>3. CASE pc["fetch"] # "none"
  BY <1>1, <1>3, Begun DEF Unfed
<1> QED
  BY <1>2, <1>3

\* What may happen to the writer once there is a command: nothing that the process
\* sees, an answer, or the return of a Send.
WriterWaits ==
    /\ acked' = acked
    /\ \/ pc'["writer"] = pc["writer"] /\ post'["writer"] = post["writer"]
       \/ pc'["writer"] # "Send" /\ (pc["writer"] # "Send" \/ post["writer"].stage = "answered")
       \/ /\ pc'["writer"] = pc["writer"] /\ post["writer"].stage \in {"none", "waiting"}
          /\ post'["writer"].stage \in {"waiting", "posted"}
          /\ post'["writer"].answer.content = "none"
       \/ /\ pc'["writer"] = pc["writer"] /\ post["writer"].stage = "answered" /\ post["writer"].tries = 1
          /\ post["writer"].answer.content \in {"reset", "page"} /\ kind = "encrypted"
          /\ post'["writer"].stage = "posted" /\ post'["writer"].tries = 2
          /\ post'["writer"].answer.content = "none"

WriterTold ==
    /\ UNCHANGED client
    /\ post["writer"].stage = "posted" /\ post'["writer"].stage = "answered"
    /\ post'["writer"].tries = post["writer"].tries
    /\ Delivered("writer") \/ Lost("writer")

LEMMA WriterSteps ==
    ASSUME TypeOK, PhaseInv, AnswerInv, IdInv, commandID # NoText, Next
    PROVE  WriterWaits \/ WriterTold \/ SendReturns
<1> DEFINE Goal == WriterWaits \/ WriterTold \/ SendReturns
<1> SUFFICES Goal
  OBVIOUS
<1>1. pc["main"] \notin {"Create", "Command"} /\ "writer" \in Actors
  BY DEF PhaseInv, Actors
<1>2. ASSUME acked' = acked, pc'["writer"] = pc["writer"], post'["writer"] = post["writer"] PROVE Goal
  BY <1>2 DEF WriterWaits
<1>3. ASSUME NEW a \in Actors, Begin(a) PROVE Goal
  <2>1. /\ post[a].stage = "none" /\ post'[a].stage \in {"waiting", "posted"} /\ post'[a].answer = NoAnswer
        /\ \A b \in Actors : b # a => post'[b] = post[b]
        /\ pc' = pc \/ (a = "fetch" /\ pc' = [pc EXCEPT !["fetch"] = "last"])
        /\ acked' = acked
    BY <1>3, BeginDoes
  <2>2. pc'["writer"] = pc["writer"]
    BY <2>1 DEF TypeOK, Actors
  <2>3. CASE a = "writer"
    BY <2>1, <2>2, <2>3, NoAnswerSays DEF WriterWaits
  <2> QED
    BY <1>1, <1>2, <2>1, <2>2, <2>3
<1>4. ASSUME NEW a \in Actors, Acquire(a) PROVE Goal
  <2>1. /\ post[a].stage = "waiting" /\ post'[a].stage = "posted" /\ post'[a].answer = post[a].answer
        /\ \A b \in Actors : b # a => post'[b] = post[b]
        /\ UNCHANGED client
    BY <1>4, AcquireDoes
  <2>2. post[a].answer.content = "none"
    BY <2>1, NoAnswerSays DEF AnswerInv, Told
  <2>3. CASE a = "writer"
    BY <2>1, <2>2, <2>3 DEF WriterWaits, client
  <2> QED
    BY <1>1, <1>2, <2>1, <2>3 DEF client
<1>5. ASSUME NEW a \in Actors, Retry(a) PROVE Goal
  <2>1. /\ post[a].stage = "answered" /\ post'[a].stage = "posted"
        /\ post[a].tries = 1 /\ post'[a].tries = 2
        /\ post'[a].answer = NoAnswer /\ Retryable(kind, post[a].answer)
        /\ \A b \in Actors : b # a => post'[b] = post[b]
        /\ UNCHANGED client
    BY <1>5, RetryDoes
  <2>2. Genuine(post[a].answer)
    BY <2>1 DEF AnswerInv, Told
  <2>3. post[a].answer.content \in {"reset", "page"} /\ kind = "encrypted"
    BY <2>1, <2>2, RetryableSays DEF Retryable
  <2>4. CASE a = "writer"
    BY <2>1, <2>3, <2>4, NoAnswerSays DEF WriterWaits, client
  <2> QED
    BY <1>1, <1>2, <2>1, <2>4 DEF client
<1>6. ASSUME NEW a \in Actors, Caller(a) PROVE Goal
  <2>1. post[a].stage = "answered" /\ \A b \in Actors : b # a => post'[b] = post[b]
    BY <1>6, CallerDoes
  <2>2. ~CreateReturns /\ ~CommandReturns
    BY <1>1 DEF CreateReturns, CommandReturns, Returns
  <2>3. CASE a = "fetch" /\ ReceiveReturns
    BY <1>1, <1>2, <2>1, <2>3, ReceiveDoes
  <2>4. CASE LastReturns(a)
    <3>1. /\ \A b \in Actors : b # a => pc'[b] = pc[b]
          /\ a = "writer" => pc[a] = "End" /\ pc'[a] = "over"
          /\ acked' = acked
      BY <2>4, LastDoes
    <3>2. CASE a = "writer"
      BY <3>1, <3>2 DEF WriterWaits
    <3> QED
      BY <1>1, <1>2, <2>1, <3>1, <3>2
  <2> QED
    BY <1>6, <2>2, <2>3, <2>4 DEF Caller
<1>7. ASSUME NEW a \in Actors, Serve(a) \/ NetworkFails(a) PROVE Goal
  <2>1. /\ post[a].stage = "posted" /\ post'[a].stage = "answered" /\ post'[a].tries = post[a].tries
        /\ \A b \in Actors : b # a => post'[b] = post[b]
        /\ UNCHANGED client
    BY <1>7, AnswerComes, Zenon
  <2>2. Delivered(a) \/ Lost(a)
    BY <1>7, AnswerMoves, Zenon
  <2>3. CASE a = "writer"
    BY <2>1, <2>2, <2>3, Zenon DEF WriterTold
  <2> QED
    BY <1>1, <1>2, <2>1, <2>3 DEF client
<1>8. CASE ProcessMoves \/ ShellExpires
  BY <1>2, <1>8, WorldMoves DEF client
<1>9. CASE Over
  BY <1>2, <1>9 DEF Over, vars, client
<1> QED
  <2> HIDE DEF Goal
  <2> QED
    BY <1>3, <1>4, <1>5, <1>6, <1>7, <1>8, <1>9 DEF Next

\* What the answer to a Send says of what the process has read.
LEMMA SendTold ==
    ASSUME TypeOK, PhaseInv, IdInv, commandID # NoText, WriterTold, pc["writer"] = "Send"
    PROVE  LET content == post'["writer"].answer.content
           IN  /\ content \in {"ok", "fault", "page"} \cup NetErrors
               /\ content = "ok" => commands'[Mine].input = commands[Mine].input \o <<acked + 1>>
               /\ content = "fault" => ~shells[MyShell]
               /\ content = "page" => commands'[Mine].input = commands[Mine].input
<1> DEFINE content == post'["writer"].answer.content
<1>1. /\ Mine \in DOMAIN commands /\ shellID # NoText
  BY MineFound DEF IdInv
<1>2. CASE Delivered("writer")
  <2>1. Effect("writer", content, post'["writer"].id)
    BY <1>2 DEF Delivered
  <2> QED
    BY <1>1, <2>1 DEF Effect, Refuses, Opens, Starts, Gives, Feeds, Closes, WriterTold
<1>3. CASE Lost("writer")
  <2>1. content \in NetErrors \cup {"page", "noId"}
    BY <1>3 DEF Lost
  <2>2. content # "noId"
    <3>1. ASSUME NEW id, Effect("writer", "id", id) PROVE FALSE
      BY <3>1 DEF Effect, Refuses, Opens, Starts, Gives, Feeds, Closes
    <3> QED
      BY <1>3, <3>1 DEF Lost
  <2>3. content = "page" => commands'[Mine].input = commands[Mine].input
    BY <1>1, <1>3 DEF Lost, Alike, Keeps
  <2>4. content \notin {"ok", "fault"}
    BY <2>1 DEF NetErrors
  <2> QED
    BY <2>1, <2>2, <2>3, <2>4
<1> QED
  BY <1>2, <1>3, Zenon DEF WriterTold

\* A page is only taken for an answer where nobody looks at its type.
LEMMA PagesRead ==
    ASSUME NEW k \in AllKinds, NEW s \in {200, 502}, PostOf(k, Page(s)).ok
    PROVE  k \in {"kerberos", "ntlm"}
BY DEF PostOf, Page, AllKinds, Lenient, PostByType, PostByStatus, PostSealed, Text, Error

\* What Write counts has been read, unless it is one of the exceptions.
LEMMA SendCounted ==
    ASSUME TypeOK, PhaseInv, AnswerInv, InputSent, SendReturns, Result("writer").ok
    PROVE  LastRead > acked \/ Swallowed \/ (kind \in Lenient /\ ~MyShellOpen)
<1> DEFINE answer == post["writer"].answer
<1>1. pc["writer"] = "Send" /\ post["writer"].stage = "answered" /\ kind \in AllKinds
  BY ExchangeAssumption DEF SendReturns, Returns, TypeOK
<1>2. /\ Genuine(answer)
      /\ answer.content \in NetErrors \cup {"page", "noId"} => <<"Send", answer.content>> \in troubles
  BY <1>1 DEF AnswerInv, Told, Actors, ActionAt
<1>3. PostOf(kind, answer).ok /\ answer.status # 0
  BY <1>1, TextsKept DEF Result
<1>4. answer.content \notin NetErrors
  BY <1>2, <1>3 DEF Genuine, Broken
<1>5. CASE answer.content = "page"
  BY <1>1, <1>2, <1>3, <1>5, PagesRead DEF Genuine, Swallowed
<1>6. CASE answer.content = "fault"
  <2>1. answer = Answered(kind, "fault")
    BY <1>2, <1>6 DEF Genuine, Contents
  <2>2. kind \in Lenient
    BY <1>1, <1>3, <2>1, AnswersRead DEF Contents, Error
  <2> QED
    BY <1>1, <1>6, <2>2 DEF InputSent
<1>7. answer.content \in {"ok", "fault", "page"}
  BY <1>1, <1>2, <1>4 DEF InputSent, Genuine, Contents, NetErrors
<1> QED
  BY <1>1, <1>5, <1>6, <1>7 DEF InputSent
\* When the command gets its id nothing has been sent to it or taken from it.
LEMMA CommandGiven ==
    ASSUME TypeOK, TypeOK', PhaseInv, AnswerInv, AnswerInv', IdInv, Unfed, commandID = NoText, Next,
           commandID' # NoText,
           pc["fetch"] = "none" => \A n \in DOMAIN commands : commands[n].out # "taken"
    PROVE  /\ pc["fetch"] = "none" /\ UNCHANGED <<acked, got, ended>> /\ acked = 0
           /\ post'["writer"] = NoPost /\ post'["fetch"] = NoPost
           /\ Input' = <<>> /\ MyProcess'.out # "taken"
<1>1. "main" \in Actors /\ "writer" \in Actors /\ "fetch" \in Actors
  BY DEF Actors
<1>2. CommandReturns
  <2>1. ASSUME NEW a \in Actors, Begin(a) \/ Acquire(a) \/ Retry(a) PROVE FALSE
    BY <2>1, BeginDoes, AcquireDoes, RetryDoes DEF client
  <2>2. ASSUME NEW a \in Actors, Caller(a), ~CommandReturns PROVE FALSE
    <3>1. CASE CreateReturns
      <4>1. post["main"].stage = "answered"
        BY <3>1 DEF CreateReturns, Returns
      <4> QED
        BY <1>1, <3>1, <4>1, CreateDoes DEF AnswerInv, Told
    <3> QED
      BY <2>2, <3>1, ReceiveDoes, SendDoes, LastDoes DEF Caller
  <2>3. ASSUME NEW a \in Actors, Serve(a) \/ NetworkFails(a) PROVE FALSE
    <3>1. UNCHANGED client
      BY <2>3, AnswerComes, Zenon
    <3> QED
      BY <3>1 DEF client
  <2>4. CASE ProcessMoves \/ ShellExpires \/ Over
    BY <2>4, WorldMoves DEF Over, vars, client
  <2> QED
    BY <2>1, <2>2, <2>3, <2>4 DEF Next
<1>3. /\ pc["main"] = "Command" /\ ended' = ended /\ UNCHANGED <<acked, got>>
  BY <1>2, CommandDoes
<1>4. pc["fetch"] = "none" /\ pc["writer"] = "none" /\ acked = 0
  BY <1>3 DEF PhaseInv
<1>5. /\ post' = [post EXCEPT !["main"] = NoPost] /\ UNCHANGED server
  BY <1>2 DEF CommandReturns
<1>6. post["writer"] = NoPost /\ post["fetch"] = NoPost
  BY <1>1, <1>4 DEF PhaseInv, AnswerInv, Told
<1>7. post'["writer"] = NoPost /\ post'["fetch"] = NoPost
  BY <1>1, <1>5, <1>6 DEF TypeOK
<1>8. \A n \in DOMAIN commands' : commands'[n].input = <<>> /\ commands'[n].out # "taken"
  BY <1>4, <1>5 DEF Unfed, server
<1>9. commandID' \in Ids(CommandIds, commands')
  BY DEF TypeOK
<1>10. PICK n : n = Find(commandID', CommandIds, commands')
  OBVIOUS
<1>11. n \in DOMAIN commands'
  BY <1>9, <1>10, Found
<1>12. MyProcess' = commands'[n] /\ Input' = commands'[n].input
  BY <1>10 DEF MyProcess, Input
<1> QED
  BY <1>3, <1>4, <1>7, <1>8, <1>11, <1>12

LEMMA FeedingLength ==
    ASSUME NEW s \in Seq(Nat), NEW k \in Nat, NEW t, t = s \o <<k>>
    PROVE  Len(t) = Len(s) + 1
<1>1. PICK e : e = <<k>>
  OBVIOUS
<1>2. e \in Seq(Nat) /\ Len(e) = 1
  BY <1>1
<1> QED
  BY <1>1, <1>2, ConcatProperties

LEMMA LastIsNatural ==
    ASSUME NEW s \in Seq(Nat), NEW l, l = IF s = <<>> THEN 0 ELSE s[Len(s)]
    PROVE  l \in Nat
<1>1. CASE s = <<>>
  BY <1>1
<1>2. CASE s # <<>>
  <2>1. Len(s) \in 1..Len(s)
    BY <1>2
  <2> QED
    BY <1>2, <2>1
<1> QED
  BY <1>1, <1>2

\* Where what Write counts may not have been read.
Exempt == Swallowed \/ (kind \in Lenient /\ ~MyShellOpen)

LEMMA ExemptSays ==
    /\ Exempt \/ (~Swallowed /\ (kind \notin Lenient \/ MyShellOpen))
    /\ Swallowed => Exempt
BY DEF Exempt

LEMMA InputStep ==
    ASSUME TypeOK, TypeOK', PhaseInv, PhaseInv', AnswerInv, AnswerInv', IdInv, InputInv, Next,
           pc["fetch"] = "none" => \A n \in DOMAIN commands : commands[n].out # "taken"
    PROVE  InputInv'
<1>1. Unfed /\ InputRead /\ InputSent
  BY DEF InputInv
<1>2. Unfed'
  BY <1>1, UnfedStep
<1>3. kind' = kind /\ troubles \subseteq troubles'
  BY TroublesStay
<1>4. (Swallowed => Swallowed') /\ (Repeats => Repeats')
  BY <1>3 DEF Swallowed, Repeats
<1>5. CASE commandID' = NoText
  <2>1. pc'["writer"] # "Send"
    BY <1>5 DEF PhaseInv
  <2> QED
    BY <1>2, <1>5, <2>1 DEF InputInv, InputRead, InputSent
<1>6. CASE commandID = NoText /\ commandID' # NoText
  <2>1. acked = 0 /\ acked' = 0 /\ post'["writer"] = NoPost /\ Input' = <<>>
    BY <1>1, <1>6, CommandGiven
  <2>2. LastRead' = 0
    BY <2>1 DEF LastRead
  <2>3. InputRead'
    <3>1. DOMAIN Input' = {} /\ Range(Input') = {} /\ Len(Input') = 0
      BY <2>1 DEF Range
    <3>2. 1..LastRead' = {}
      BY <2>2
    <3> QED
      BY <2>1, <2>2, <3>1, <3>2 DEF InputRead
  <2>4. InputSent'
    <3>1. post'["writer"].answer.content = "none"
      BY <2>1, NoAnswerSays DEF NoPost, Posting
    <3> QED
      BY <2>1, <2>2, <3>1 DEF InputSent, NetErrors
  <2> QED
    BY <1>2, <2>3, <2>4 DEF InputInv
<1>7. CASE commandID # NoText
  <2>0. PICK s, t, k : s = commands[Mine].input /\ t = commands'[Mine].input /\ k = acked + 1
    OBVIOUS
  <2>1. /\ Input = s /\ Input' = t /\ s \in Seq(Nat) /\ t \in Seq(Nat)
        /\ MyShellOpen = shells[MyShell]
        /\ MyShellOpen' => MyShellOpen
        /\ commandID' # NoText
        /\ t = s \/ WriterFeeds
    <3>1. /\ MyProcess = commands[Mine] /\ MyProcess' = commands'[Mine]
          /\ commands[Mine] \in Processes /\ commands'[Mine] \in Processes
          /\ MyShellOpen = shells[MyShell]
          /\ MyShellOpen' => MyShellOpen
          /\ commandID' = commandID
          /\ t = s \/ WriterFeeds
      BY <1>7, <2>0, AfterStart
    <3>2. Input = s /\ Input' = t
      BY <2>0, <3>1 DEF Input
    <3> QED
      BY <1>7, <2>0, <3>1, <3>2 DEF Processes
  <2>2. /\ \A i \in DOMAIN s : s[i] \in 1..LastRead
        /\ \A i \in 2..Len(s) : s[i] > s[i - 1] \/ (s[i] = s[i - 1] /\ Repeats)
        /\ LastRead <= k
        /\ ~Swallowed => Range(s) = 1..LastRead
        /\ Exempt \/ LastRead >= acked
    <3>1. ~Swallowed /\ (kind \notin Lenient \/ MyShellOpen) => LastRead >= acked
      BY <1>1, <1>7, <2>1 DEF InputRead
    <3> QED
      BY <1>1, <1>7, <2>0, <2>1, <3>1, ExemptSays DEF InputRead
  <2>3. /\ LastRead = (IF s = <<>> THEN 0 ELSE s[Len(s)])
        /\ LastRead' = (IF t = <<>> THEN 0 ELSE t[Len(t)])
        /\ LastRead \in Nat /\ LastRead' \in Nat
        /\ acked \in Nat /\ acked' \in Nat /\ k \in Nat /\ k > 0 /\ k = acked + 1
    <3>1. /\ LastRead = (IF s = <<>> THEN 0 ELSE s[Len(s)])
          /\ LastRead' = (IF t = <<>> THEN 0 ELSE t[Len(t)])
      BY <2>1 DEF LastRead
    <3>2. LastRead \in Nat /\ LastRead' \in Nat
      BY <2>1, <3>1, LastIsNatural
    <3>3. acked \in Nat /\ acked' \in Nat
      BY DEF TypeOK
    <3> QED
      BY <2>0, <3>1, <3>2, <3>3
  <2>4. WriterWaits \/ WriterTold \/ SendReturns
    BY <1>7, WriterSteps
  <2>7. /\ Exempt => Exempt'
        /\ ~Swallowed' /\ (kind' \notin Lenient \/ MyShellOpen') => ~Exempt'
    BY <1>3, <1>4, <2>1, Zenon DEF Exempt
  <2>5. CASE t = s
    <3>1. LastRead' = LastRead /\ Input' = Input
      BY <2>1, <2>3, <2>5
    <3>2. ASSUME acked' \in {acked, k}, Exempt' \/ LastRead >= acked' PROVE InputRead'
      <4>1. /\ LastRead' <= acked' + 1
            /\ \A i \in DOMAIN Input' : Input'[i] \in 1..LastRead'
            /\ \A i \in 2..Len(Input') : Input'[i] > Input'[i - 1] \/ (Input'[i] = Input'[i - 1] /\ Repeats')
            /\ ~Swallowed' => Range(Input') = 1..LastRead'
        BY <1>4, <2>1, <2>2, <2>3, <3>1, <3>2
      <4>2. ~Swallowed' /\ (kind' \notin Lenient \/ MyShellOpen') => LastRead' >= acked'
        BY <2>7, <3>1, <3>2
      <4> QED
        BY <4>1, <4>2 DEF InputRead
    <3>3. CASE WriterWaits
      <4>1. acked' = acked
        BY <3>3 DEF WriterWaits
      <4>2. InputRead'
        BY <2>2, <2>7, <3>2, <4>1
      <4>3. InputSent'
        <5> SUFFICES ASSUME pc'["writer"] = "Send" PROVE InputSent'
          BY DEF InputSent
        <5>1. ASSUME post'["writer"].answer.content = "none", LastRead <= acked \/
                        (post'["writer"].stage = "posted" /\ post'["writer"].tries = 2 /\ Repeats')
              PROVE  InputSent'
          BY <2>3, <3>1, <4>1, <5>1 DEF InputSent, NetErrors
        <5>2. CASE pc'["writer"] = pc["writer"] /\ post'["writer"] = post["writer"]
          BY <1>1, <1>4, <2>1, <3>1, <4>1, <5>2 DEF InputSent
        <5>3. CASE /\ pc'["writer"] = pc["writer"] /\ post["writer"].stage \in {"none", "waiting"}
                   /\ post'["writer"].stage \in {"waiting", "posted"}
                   /\ post'["writer"].answer.content = "none"
          BY <1>1, <2>3, <5>1, <5>3 DEF InputSent
        <5>4. CASE /\ pc'["writer"] = pc["writer"]
                   /\ post["writer"].stage = "answered" /\ post["writer"].tries = 1
                   /\ post["writer"].answer.content \in {"reset", "page"} /\ kind = "encrypted"
                   /\ post'["writer"].stage = "posted" /\ post'["writer"].tries = 2
                   /\ post'["writer"].answer.content = "none"
          <6>1. CASE post["writer"].answer.content = "page"
            BY <1>1, <5>1, <5>4, <6>1 DEF InputSent
          <6>2. CASE post["writer"].answer.content = "reset"
            <7>1. <<"Send", "reset">> \in troubles
              BY <5>4, <6>2 DEF AnswerInv, Told, Actors, ActionAt, NetErrors
            <7> QED
              BY <1>4, <5>1, <5>4, <7>1 DEF Repeats
          <6> QED
            BY <5>4, <6>1, <6>2
        <5> QED
          BY <3>3, <5>2, <5>3, <5>4 DEF WriterWaits
      <4> QED
        BY <1>2, <4>2, <4>3 DEF InputInv
    <3>4. CASE WriterTold
      <4>1. acked' = acked /\ pc' = pc
        BY <3>4 DEF WriterTold, client
      <4>2. InputRead'
        BY <2>2, <2>7, <3>2, <4>1
      <4>3. InputSent'
        <5> SUFFICES ASSUME pc'["writer"] = "Send" PROVE InputSent'
          BY DEF InputSent
        <5> DEFINE content == post'["writer"].answer.content
        <5>1. /\ content \in {"ok", "fault", "page"} \cup NetErrors
              /\ content = "ok" => t = s \o <<k>>
              /\ content = "fault" => ~shells[MyShell]
          BY <1>7, <2>0, <3>4, <4>1, SendTold
        <5>2. content # "ok"
          <6>1. t = s \o <<k>> => Len(t) = Len(s) + 1
            BY <2>1, <2>2, <2>3, FeedingLength
          <6> QED
            BY <2>1, <2>5, <5>1, <6>1
        <5>3. /\ post["writer"].stage = "posted" /\ post'["writer"].stage = "answered"
              /\ post'["writer"].tries = post["writer"].tries
          BY <3>4 DEF WriterTold
        <5>4. post'["writer"].tries = 1 => LastRead <= acked
          BY <1>1, <2>3, <4>1, <5>3 DEF InputSent
        <5>5. content = "fault" => ~MyShellOpen'
          BY <2>1, <5>1
        <5>6. content \in {"none", "ok", "fault", "page"} \cup NetErrors
          BY <5>1
        <5> QED
          BY <3>1, <4>1, <5>2, <5>3, <5>4, <5>5, <5>6 DEF InputSent
      <4> QED
        BY <1>2, <4>2, <4>3 DEF InputInv
    <3>5. CASE SendReturns
      <4>1. /\ \/ /\ Result("writer").ok /\ acked' = k
               \/ acked' = acked /\ pc'["writer"] = "End"
            /\ post'["writer"].answer.content = "none"
        <5>1. post'["writer"] = NoPost
          BY <3>5, ReturnDoes DEF SendReturns, Returns, Actors
        <5> QED
          BY <2>0, <3>5, <5>1, SendDoes, NoAnswerSays DEF NoPost, Posting
      <4>2. InputRead'
        <5>1. CASE Result("writer").ok /\ acked' = k
          <6>1. LastRead > acked \/ Swallowed \/ (kind \in Lenient /\ ~MyShellOpen)
            BY <1>1, <3>5, <5>1, SendCounted
          <6>2. Exempt' \/ LastRead >= k
            BY <2>0, <2>3, <2>7, <6>1 DEF Exempt
          <6> QED
            BY <3>2, <5>1, <6>2
        <5>2. CASE acked' = acked
          BY <2>2, <2>7, <3>2, <5>2
        <5> QED
          BY <4>1, <5>1, <5>2
      <4>3. InputSent'
        BY <2>2, <2>3, <3>1, <4>1 DEF InputSent, NetErrors
      <4> QED
        BY <1>2, <4>2, <4>3 DEF InputInv
    <3> QED
      BY <2>4, <3>3, <3>4, <3>5
  <2>6. CASE t # s
    <3>1. WriterFeeds
      BY <2>1, <2>6
    <3>2. /\ pc["writer"] = "Send" /\ post["writer"].stage = "posted" /\ post'["writer"].stage = "answered"
          /\ shells[MyShell] /\ t = s \o <<k>>
          /\ pc' = pc /\ acked' = acked
      BY <2>0, <3>1 DEF WriterFeeds, client
    <3>3. WriterTold
      BY <2>4, <3>2 DEF WriterWaits, SendReturns, Returns
    <3>9. /\ LastRead \in Nat /\ LastRead <= k /\ \A i \in DOMAIN s : s[i] \in 1..LastRead
          /\ s # <<>> => LastRead = s[Len(s)]
      BY <2>2, <2>3
    <3>10. k \in Nat /\ k > 0
      BY <2>3
    <3>4. /\ t # <<>> /\ t[Len(t)] = k /\ Len(t) = Len(s) + 1
          /\ \A i \in DOMAIN t : t[i] \in 1..k
          /\ \A i \in 2..Len(s) : t[i] = s[i] /\ t[i - 1] = s[i - 1]
          /\ Len(t) \in 2..Len(t) => t[Len(t) - 1] = LastRead
          /\ Range(t) = Range(s) \cup {k}
      <4>1. PICK l : l = LastRead
        OBVIOUS
      <4>2. l \in Nat /\ (s # <<>> => l = s[Len(s)]) /\ l <= k /\ \A i \in DOMAIN s : s[i] \in 1..l
        BY <3>9, <4>1
      <4>3. Follows(s, l, k, t)
        <5>1. s \in Seq(Nat) /\ t = s \o <<k>>
          BY <2>1, <3>2
        <5> QED
          BY <3>10, <4>2, <5>1, Feeding
      <4> QED
        BY <4>1, <4>3 DEF Follows
    <3>5. LastRead' = k
      BY <2>3, <3>4
    <3>6. LastRead > acked => Repeats
      BY <1>1, <3>2 DEF InputSent
    <3>7. InputRead'
      <4>1. \A i \in 2..Len(t) : t[i] > t[i - 1] \/ (t[i] = t[i - 1] /\ Repeats')
        <5> SUFFICES ASSUME NEW i \in 2..Len(t)
                     PROVE  t[i] > t[i - 1] \/ (t[i] = t[i - 1] /\ Repeats')
          OBVIOUS
        <5>1. Len(s) \in Nat
          BY <2>1
        <5>2. CASE i \in 2..Len(s)
          BY <1>4, <2>2, <3>4, <5>2
        <5>3. CASE i = Len(t)
          <6>1. t[i] = k /\ t[i - 1] = LastRead
            BY <3>4, <5>3
          <6> QED
            BY <1>4, <2>2, <2>3, <3>6, <6>1
        <5> QED
          BY <3>4, <5>1, <5>2, <5>3
      <4>2. ~Swallowed' => Range(t) = 1..k
        <5> SUFFICES ASSUME ~Swallowed' PROVE Range(t) = 1..k
          OBVIOUS
        <5>1. Range(s) = 1..LastRead /\ LastRead >= acked
          BY <1>1, <1>4, <1>7, <2>1, <2>2, <3>2 DEF InputRead
        <5>2. (1..LastRead) \cup {k} = 1..k
          BY <2>2, <2>3, <5>1
        <5> QED
          BY <3>4, <5>1, <5>2
      <4>3. /\ LastRead' <= acked' + 1 /\ LastRead' >= acked'
            /\ \A i \in DOMAIN Input' : Input'[i] \in 1..LastRead'
            /\ Input' = t
        BY <2>1, <2>3, <3>2, <3>4, <3>5
      <4> QED
        BY <3>5, <4>1, <4>2, <4>3 DEF InputRead
    <3>8. InputSent'
      <4> DEFINE content == post'["writer"].answer.content
      <4>1. /\ content \in {"ok", "fault", "page"} \cup NetErrors
            /\ content = "fault" => ~shells[MyShell]
            /\ content = "page" => t = s
        BY <1>7, <2>0, <3>2, <3>3, SendTold
      <4> QED
        BY <2>3, <2>6, <3>2, <3>5, <4>1 DEF InputSent
    <3> QED
      BY <1>2, <3>7, <3>8 DEF InputInv
  <2> QED
    BY <2>5, <2>6
<1> QED
  BY <1>5, <1>6, <1>7
-----------------------------------------------------------------------------
(* The end of the fetch loop.                                              *)

\* What may happen to the fetch loop once there is a command.
FetchWaits ==
    /\ UNCHANGED <<got, ended>>
    /\ pc'["fetch"] = pc["fetch"] \/ {pc["fetch"], pc'["fetch"]} \subseteq {"Receive", "last"}
    /\ \/ post'["fetch"].answer.content = post["fetch"].answer.content
       \/ /\ kind = "encrypted" /\ post["fetch"].stage = "answered"
          /\ post["fetch"].answer.content \in {"reset", "page"}
          /\ post'["fetch"].answer.content = "none"

FetchTold ==
    /\ UNCHANGED client
    /\ post["fetch"].stage = "posted" /\ post'["fetch"].stage = "answered"
    /\ Delivered("fetch") \/ Lost("fetch")

LEMMA FetchSteps ==
    ASSUME TypeOK, PhaseInv, AnswerInv, IdInv, commandID # NoText, Next
    PROVE  FetchWaits \/ FetchTold \/ ReceiveReturns
<1> DEFINE Goal == FetchWaits \/ FetchTold \/ ReceiveReturns
<1> SUFFICES Goal
  OBVIOUS
<1>1. pc["main"] \notin {"Create", "Command"} /\ "fetch" \in Actors
  BY DEF PhaseInv, Actors
<1>2. ASSUME got' = got, ended' = ended, pc'["fetch"] = pc["fetch"],
             post'["fetch"].answer.content = post["fetch"].answer.content
      PROVE  Goal
  BY <1>2 DEF FetchWaits
<1>3. ASSUME NEW a \in Actors, Begin(a) PROVE Goal
  <2>1. /\ post[a].stage = "none" /\ post'[a].answer = NoAnswer /\ pc[a] \notin {"none", "over"}
        /\ \A b \in Actors : b # a => post'[b] = post[b]
        /\ pc' = pc \/ (a = "fetch" /\ pc' = [pc EXCEPT !["fetch"] = "last"])
        /\ UNCHANGED <<got, ended>>
    BY <1>3, BeginDoes
  <2>2. post'["fetch"].answer.content = post["fetch"].answer.content
    <3>1. post[a].answer = NoAnswer
      BY <2>1 DEF AnswerInv, Told
    <3> QED
      BY <1>1, <2>1, <3>1
  <2>3. CASE pc' = pc
    BY <1>2, <2>1, <2>2, <2>3
  <2>4. CASE a = "fetch" /\ pc' = [pc EXCEPT !["fetch"] = "last"]
    <3>1. pc["fetch"] \in {"Receive", "last"} /\ pc'["fetch"] = "last"
      BY <1>1, <2>1, <2>4 DEF PhaseInv, TypeOK
    <3> QED
      BY <2>1, <2>2, <3>1 DEF FetchWaits
  <2> QED
    BY <2>1, <2>3, <2>4
<1>4. ASSUME NEW a \in Actors, Acquire(a) PROVE Goal
  <2>1. /\ post'[a].answer = post[a].answer
        /\ \A b \in Actors : b # a => post'[b] = post[b]
        /\ UNCHANGED client
    BY <1>4, AcquireDoes
  <2> QED
    BY <1>1, <1>2, <2>1 DEF client
<1>5. ASSUME NEW a \in Actors, Retry(a) PROVE Goal
  <2>1. /\ post[a].stage = "answered" /\ post'[a].answer = NoAnswer /\ Retryable(kind, post[a].answer)
        /\ \A b \in Actors : b # a => post'[b] = post[b]
        /\ UNCHANGED client
    BY <1>5, RetryDoes
  <2>2. Genuine(post[a].answer)
    BY <2>1 DEF AnswerInv, Told
  <2>3. post[a].answer.content \in {"reset", "page"} /\ kind = "encrypted"
    BY <2>1, <2>2, RetryableSays DEF Retryable
  <2>4. CASE a = "fetch"
    BY <2>1, <2>3, <2>4, NoAnswerSays DEF FetchWaits, client
  <2> QED
    BY <1>1, <1>2, <2>1, <2>4 DEF client
<1>6. ASSUME NEW a \in Actors, Caller(a) PROVE Goal
  <2>1. \A b \in Actors : b # a => post'[b] = post[b]
    BY <1>6, CallerDoes
  <2>2. ~CreateReturns /\ ~CommandReturns
    BY <1>1 DEF CreateReturns, CommandReturns, Returns
  <2>3. CASE a = "writer" /\ SendReturns
    BY <1>1, <1>2, <2>1, <2>3, SendDoes
  <2>4. CASE LastReturns(a)
    <3>1. (\A b \in Actors : b # a => pc'[b] = pc[b]) /\ a # "fetch" /\ UNCHANGED <<got, ended>>
      BY <2>4, LastDoes
    <3> QED
      BY <1>1, <1>2, <2>1, <3>1
  <2> QED
    BY <1>6, <2>2, <2>3, <2>4 DEF Caller
<1>7. ASSUME NEW a \in Actors, Serve(a) \/ NetworkFails(a) PROVE Goal
  <2>1. /\ post[a].stage = "posted" /\ post'[a].stage = "answered"
        /\ \A b \in Actors : b # a => post'[b] = post[b]
        /\ UNCHANGED client
    BY <1>7, AnswerComes, Zenon
  <2>2. Delivered(a) \/ Lost(a)
    BY <1>7, AnswerMoves, Zenon
  <2>3. CASE a = "fetch"
    BY <2>1, <2>2, <2>3, Zenon DEF FetchTold
  <2> QED
    BY <1>1, <1>2, <2>1, <2>3 DEF client
<1>8. CASE ProcessMoves \/ ShellExpires
  BY <1>2, <1>8, WorldMoves DEF client
<1>9. CASE Over
  BY <1>2, <1>9 DEF Over, vars, client
<1> QED
  <2> HIDE DEF Goal
  <2> QED
    BY <1>3, <1>4, <1>5, <1>6, <1>7, <1>8, <1>9 DEF Next

\* Without a command the loop does not end well.
LEMMA NotDoneYet ==
    ASSUME TypeOK, PhaseInv, AnswerInv, IdInv, commandID = NoText, ended.as # "done", Next
    PROVE  ended'.as # "done"
<1>1. pc["fetch"] \notin {"Receive", "last"} /\ pc["writer"] # "Send"
  BY DEF PhaseInv
<1>2. ASSUME NEW a \in Actors, Begin(a) \/ Acquire(a) \/ Retry(a) PROVE ended' = ended
  BY <1>2, BeginDoes, AcquireDoes, RetryDoes DEF client
<1>3. ASSUME NEW a \in Actors, Caller(a) PROVE ended'.as # "done"
  <2>1. CASE CreateReturns
    BY <2>1 DEF CreateReturns
  <2>2. CASE CommandReturns
    BY <2>2, CommandDoes
  <2>3. ~ReceiveReturns /\ ~SendReturns
    BY <1>1, ReceiveDoes, SendDoes
  <2> QED
    BY <1>3, <2>1, <2>2, <2>3, LastDoes DEF Caller
<1>4. ASSUME NEW a \in Actors, Serve(a) \/ NetworkFails(a) PROVE ended' = ended
  <2>1. UNCHANGED client
    BY <1>4, AnswerComes, Zenon
  <2> QED
    BY <2>1 DEF client
<1>5. CASE ProcessMoves \/ ShellExpires \/ Over
  BY <1>5, WorldMoves DEF Over, vars, client
<1> QED
  BY <1>2, <1>3, <1>4, <1>5 DEF Next

\* What the fetch loop makes of the network's errors that it does not poll again for.
LEMMA BrokenEnds ==
    ASSUME NEW k \in AllKinds, NEW e \in {"EOF", "reset"}
    PROVE  Slurp(PostOf(k, Broken(e))) \notin {"done", "more", "retry"}
BY DEF PostOf, Broken, Slurp, Error, SlurpError
\* The excuses for output that was taken and has not been read.
Excused ==
    \/ <<"Receive", "timeout">> \in troubles
    \/ kind = "encrypted" /\ <<"Receive", "reset">> \in troubles

\* Where output is that was taken: read, on its way, or lost.
OutputKnown ==
    \/ got \/ Excused
    \/ pc["fetch"] \in {"Receive", "last"} /\ post["fetch"].answer.content \in {"output", "EOF", "reset"}
    \/ pc["fetch"] = "over" /\ ended.as # "done"

LEMMA DoneParts ==
    DoneInv <=>
        /\ pc["fetch"] = "none" => \A n \in DOMAIN commands : commands[n].out # "taken"
        /\ ended.as = "done" => pc["fetch"] = "over" /\ commandID # NoText
        /\ (ended.as = "done" \/ post["fetch"].answer.content = "done") /\ commandID # NoText =>
              MyProcess.exited /\ MyProcess.out # "pending"
        /\ commandID # NoText /\ MyProcess.out = "taken" => OutputKnown
BY DEF DoneInv, OutputKnown, Excused

\* Known output stays known.
LEMMA OutputStaysKnown ==
    ASSUME TypeOK, PhaseInv, AnswerInv, IdInv, commandID # NoText, OutputKnown,
           FetchWaits \/ FetchTold \/ ReceiveReturns, kind' = kind, troubles \subseteq troubles'
    PROVE  OutputKnown'
<1> DEFINE answer == post["fetch"].answer
<1>1. kind \in AllKinds /\ "fetch" \in Actors
  BY ExchangeAssumption DEF TypeOK, Actors
<1>2. CASE Excused
  BY <1>2 DEF Excused, OutputKnown
<1>3. CASE FetchWaits
  <2>1. CASE got \/ (pc["fetch"] = "over" /\ ended.as # "done")
    BY <1>3, <2>1 DEF FetchWaits, OutputKnown
  <2>2. CASE pc["fetch"] \in {"Receive", "last"} /\ answer.content \in {"output", "EOF", "reset"}
    <3>1. pc'["fetch"] \in {"Receive", "last"}
      BY <1>3, <2>2 DEF FetchWaits
    <3>2. CASE post'["fetch"].answer.content = answer.content
      BY <2>2, <3>1, <3>2 DEF OutputKnown
    <3>3. CASE kind = "encrypted" /\ post["fetch"].stage = "answered" /\ answer.content = "reset"
      <4>1. <<"Receive", "reset">> \in troubles
        BY <1>1, <2>2, <3>3 DEF AnswerInv, Told, ActionAt, NetErrors
      <4> QED
        BY <1>2, <3>3, <4>1 DEF Excused
    <3> QED
      BY <1>3, <2>2, <3>2, <3>3 DEF FetchWaits
  <2> QED
    BY <1>2, <2>1, <2>2 DEF OutputKnown
<1>4. CASE FetchTold
  <2>1. answer.content = "none"
    BY <1>1, <1>4, NoAnswerSays DEF FetchTold, AnswerInv, Told
  <2>2. got \/ (pc["fetch"] = "over" /\ ended.as # "done") \/ Excused
    BY <2>1 DEF OutputKnown
  <2> QED
    BY <1>2, <1>4, <2>2 DEF FetchTold, client, OutputKnown
<1>5. CASE ReceiveReturns
  <2>1. post["fetch"].stage = "answered" /\ pc["fetch"] \in {"Receive", "last"}
    BY <1>5, ReceiveDoes DEF ReceiveReturns, Returns
  <2>2. Genuine(answer)
    BY <1>1, <2>1 DEF AnswerInv, Told
  <2>3. CASE got
    BY <1>5, <2>3, ReceiveDoes DEF OutputKnown
  <2>4. CASE answer.content = "output"
    <3>1. Result("fetch") = Text("output")
      BY <1>1, <2>2, <2>4, AnswersRead DEF Result, Genuine, Contents
    <3>2. got'
      <4>1. Result("fetch").ok
        BY <3>1 DEF Text
      <4>2. got' = (got \/ (Result("fetch").ok /\ answer.content = "output"))
        BY <1>5, ReceiveDoes
      <4> QED
        BY <2>4, <4>1, <4>2
    <3> QED
      BY <3>2 DEF OutputKnown
  <2>5. CASE answer.content \in {"EOF", "reset"}
    <3>1. answer = Broken(answer.content)
      BY <2>2, <2>5 DEF Genuine, NetErrors
    <3>2. Slurp(Result("fetch")) \notin {"done", "more", "retry"}
      BY <1>1, <2>5, <3>1, BrokenEnds DEF Result
    <3>3. pc'["fetch"] = "over" /\ ended'.as # "done"
      BY <1>5, <3>2, ReceiveDoes
    <3> QED
      BY <3>3 DEF OutputKnown
  <2> QED
    BY <1>2, <2>1, <2>3, <2>4, <2>5 DEF OutputKnown
<1> QED
  BY <1>3, <1>4, <1>5

\* What the fetch loop knows of the process stays true of it, and it learns only what is.
LEMMA DoneStaysTrue ==
    ASSUME TypeOK, PhaseInv, AnswerInv, IdInv, commandID # NoText,
           FetchWaits \/ FetchTold \/ ReceiveReturns,
           ended'.as = "done" \/ post'["fetch"].answer.content = "done"
    PROVE  \/ ended.as = "done" \/ post["fetch"].answer.content = "done"
           \/ commands[Mine].exited /\ commands[Mine].out # "pending"
<1>1. kind \in AllKinds /\ "fetch" \in Actors
  BY ExchangeAssumption DEF TypeOK, Actors
<1>2. CASE FetchWaits
  BY <1>2 DEF FetchWaits
<1>3. CASE FetchTold
  <2>1. CASE ended'.as = "done"
    BY <1>3, <2>1 DEF FetchTold, client
  <2>2. CASE post'["fetch"].answer.content = "done" /\ Delivered("fetch")
    <3>1. Effect("fetch", "done", post'["fetch"].id)
      BY <2>2 DEF Delivered
    <3> QED
      BY <3>1 DEF Effect, Refuses, Opens, Starts, Gives, Feeds, Closes
  <2>3. CASE Lost("fetch")
    <3>1. post'["fetch"].answer.content # "done"
      BY <2>3 DEF Lost, NetErrors
    <3> QED
      BY <2>1, <3>1
  <2> QED
    BY <1>3, <2>1, <2>2, <2>3 DEF FetchTold
<1>4. CASE ReceiveReturns
  <2>1. post'["fetch"] = NoPost
    BY <1>1, <1>4, ReturnDoes DEF ReceiveReturns, Returns
  <2>2. post'["fetch"].answer.content = "none"
    BY <2>1, NoAnswerSays DEF NoPost, Posting
  <2>3. Slurp(Result("fetch")) = "done" => post["fetch"].answer.content = "done"
    BY <1>1, SlurpSays DEF Result
  <2> QED
    BY <1>4, <2>2, <2>3, ReceiveDoes
<1> QED
  BY <1>2, <1>3, <1>4

LEMMA DoneStep ==
    ASSUME TypeOK, TypeOK', PhaseInv, AnswerInv, AnswerInv', IdInv, Unfed, DoneInv, Next
    PROVE  DoneInv'
<1>1. /\ pc["fetch"] = "none" => \A n \in DOMAIN commands : commands[n].out # "taken"
      /\ ended.as = "done" => pc["fetch"] = "over" /\ commandID # NoText
      /\ (ended.as = "done" \/ post["fetch"].answer.content = "done") /\ commandID # NoText =>
            MyProcess.exited /\ MyProcess.out # "pending"
      /\ commandID # NoText /\ MyProcess.out = "taken" => OutputKnown
  BY DoneParts
<1>2. pc'["fetch"] = "none" => \A n \in DOMAIN commands' : commands'[n].out # "taken"
  BY <1>1, UnfedStep
<1>3. ASSUME ended'.as = "done" => pc'["fetch"] = "over" /\ commandID' # NoText,
             (ended'.as = "done" \/ post'["fetch"].answer.content = "done") /\ commandID' # NoText =>
                 MyProcess'.exited /\ MyProcess'.out # "pending",
             commandID' # NoText /\ MyProcess'.out = "taken" => OutputKnown'
      PROVE  DoneInv'
  BY <1>2, <1>3 DEF DoneInv, OutputKnown, Excused
<1>4. kind' = kind /\ troubles \subseteq troubles'
  BY TroublesStay
<1>5. CASE commandID = NoText
  <2>1. ended.as # "done" /\ ended'.as # "done"
    BY <1>1, <1>5, NotDoneYet
  <2>2. CASE commandID' # NoText
    <3>1. post'["fetch"] = NoPost /\ MyProcess'.out # "taken"
      BY <1>1, <1>5, <2>2, CommandGiven
    <3>2. post'["fetch"].answer.content = "none"
      BY <3>1, NoAnswerSays DEF NoPost, Posting
    <3> QED
      BY <1>3, <2>1, <3>1, <3>2
  <2> QED
    BY <1>3, <2>1, <2>2
<1>6. CASE commandID # NoText
  <2>0. PICK p, q : p = commands[Mine] /\ q = commands'[Mine]
    OBVIOUS
  <2>1. /\ commandID' # NoText /\ MyProcess = p /\ MyProcess' = q
        /\ p.exited => q.exited
        /\ \/ q.out = p.out
           \/ p.out = "none" /\ q.out = "pending" /\ ~p.exited /\ UNCHANGED <<client, post, troubles>>
           \/ FetchTakes
    BY <1>6, <2>0, AfterStart
  <2>2. FetchWaits \/ FetchTold \/ ReceiveReturns
    BY <1>6, FetchSteps
  <2>3. ended'.as = "done" => pc'["fetch"] = "over"
    <3>1. CASE FetchWaits
      BY <1>1, <3>1 DEF FetchWaits
    <3>2. CASE FetchTold
      BY <1>1, <3>2 DEF FetchTold, client
    <3>3. CASE ReceiveReturns
      BY <1>1, <3>3, ReceiveDoes
    <3> QED
      BY <2>2, <3>1, <3>2, <3>3
  <2>4. ASSUME ended'.as = "done" \/ post'["fetch"].answer.content = "done"
        PROVE  q.exited /\ q.out # "pending"
    <3>1. p.exited /\ p.out # "pending"
      BY <1>1, <1>6, <2>0, <2>1, <2>2, <2>4, DoneStaysTrue
    <3>2. ~FetchTakes
      BY <2>0, <3>1 DEF FetchTakes
    <3> QED
      BY <2>1, <3>1, <3>2
  <2>5. ASSUME q.out = "taken" PROVE OutputKnown'
    <3>1. CASE p.out = "taken"
      BY <1>1, <1>4, <1>6, <2>1, <2>2, <3>1, OutputStaysKnown
    <3>2. CASE p.out # "taken"
      <4>1. FetchTakes
        BY <2>1, <2>5, <3>2
      <4>2. /\ pc["fetch"] \in {"Receive", "last"}
            /\ post["fetch"].stage = "posted" /\ post'["fetch"].stage = "answered"
        BY <4>1 DEF FetchTakes
      <4>3. \/ post'["fetch"].answer.content \in {"output", "EOF", "reset"}
            \/ post'["fetch"].answer.content = "timeout" /\ Lost("fetch")
        BY <4>1 DEF FetchTakes, NetErrors
      <4>4. CASE post'["fetch"].answer.content = "timeout" /\ Lost("fetch")
        <5>1. <<"Receive", "timeout">> \in troubles'
          BY <4>2, <4>4 DEF Lost, ActionAt
        <5> QED
          BY <5>1 DEF OutputKnown, Excused
      <4>5. CASE post'["fetch"].answer.content \in {"output", "EOF", "reset"}
        <5>1. post["fetch"].answer.content = "none"
          BY <4>2, NoAnswerSays DEF AnswerInv, Told, Actors
        <5>2. FetchTold
          BY <2>2, <4>2, <4>5, <5>1 DEF FetchWaits, ReceiveReturns, Returns
        <5>3. pc'["fetch"] \in {"Receive", "last"}
          BY <4>2, <5>2 DEF FetchTold, client
        <5> QED
          BY <4>5, <5>3 DEF OutputKnown
      <4> QED
        BY <4>3, <4>4, <4>5
    <3> QED
      BY <3>1, <3>2
  <2> QED
    BY <1>3, <2>1, <2>3, <2>4, <2>5
<1> QED
  BY <1>5, <1>6
-----------------------------------------------------------------------------
(* Silence.                                                                *)

\* In clear a fault that tells of silence makes the loop poll again.
LEMMA SilenceRead ==
    ASSUME NEW k \in AllKinds \ {"encrypted"}
    PROVE  Slurp(PostOf(k, Answered(k, "OperationTimeout"))) \in {"retry", "more"}
<1>1. PostOf(k, Answered(k, "OperationTimeout")) =
          IF k \in Lenient THEN Text("OperationTimeout") ELSE Error("OperationTimeout")
  BY AnswersRead DEF Contents
<1> QED
  BY <1>1 DEF Slurp, SlurpText, SlurpError, Text, Error

LEMMA SilenceStep ==
    ASSUME TypeOK, PhaseInv, AnswerInv, IdInv, SilenceToleratedInClear, Next
    PROVE  SilenceToleratedInClear'
<1>1. kind' = kind /\ kind \in AllKinds
  BY TroublesStay, ExchangeAssumption DEF TypeOK
<1>2. SUFFICES ASSUME kind # "encrypted" PROVE ~ended'.silent
  BY <1>1 DEF SilenceToleratedInClear, EndedBySilence
<1>3. ~ended.silent
  BY <1>2 DEF SilenceToleratedInClear, EndedBySilence
<1>4. ASSUME NEW a \in Actors, Begin(a) \/ Acquire(a) \/ Retry(a) PROVE ended' = ended
  BY <1>4, BeginDoes, AcquireDoes, RetryDoes DEF client
<1>5. ASSUME NEW a \in Actors, Serve(a) \/ NetworkFails(a) PROVE ended' = ended
  <2>1. UNCHANGED client
    BY <1>5, AnswerComes, Zenon
  <2> QED
    BY <2>1 DEF client
<1>6. CASE ProcessMoves \/ ShellExpires \/ Over
  BY <1>3, <1>6, WorldMoves DEF Over, vars, client
<1>7. ASSUME NEW a \in Actors, Caller(a) PROVE ~ended'.silent
  <2>1. CASE CreateReturns
    BY <1>3, <2>1 DEF CreateReturns
  <2>2. CASE CommandReturns
    BY <1>3, <2>2, CommandDoes
  <2>3. CASE SendReturns
    BY <1>3, <2>3, SendDoes
  <2>4. CASE LastReturns(a)
    BY <1>3, <2>4, LastDoes
  <2>5. CASE ReceiveReturns
    <3> DEFINE answer == post["fetch"].answer
    <3>1. post["fetch"].stage = "answered"
      BY <2>5 DEF ReceiveReturns, Returns
    <3>2. Genuine(answer)
      BY <3>1 DEF AnswerInv, Told, Actors
    <3>3. answer.content = "OperationTimeout" => Slurp(Result("fetch")) \in {"retry", "more"}
      <4>1. answer.content = "OperationTimeout" => answer = Answered(kind, "OperationTimeout")
        BY <3>2 DEF Genuine, Contents
      <4> QED
        BY <1>1, <1>2, <4>1, SilenceRead DEF Result
    <3> QED
      <4>1. \/ ended' = ended
            \/ ended' = [as |-> "canceled", silent |-> FALSE]
            \/ /\ Slurp(Result("fetch")) \in {"done", "failed", "EOF"}
               /\ ended' = [as |-> Slurp(Result("fetch")), silent |-> answer.content = "OperationTimeout"]
        BY <2>5, ReceiveDoes
      <4>2. CASE /\ Slurp(Result("fetch")) \in {"done", "failed", "EOF"}
                 /\ ended' = [as |-> Slurp(Result("fetch")), silent |-> answer.content = "OperationTimeout"]
        <5>1. answer.content # "OperationTimeout"
          BY <3>3, <4>2
        <5>2. ended'.silent = (answer.content = "OperationTimeout")
          BY <4>2
        <5> QED
          BY <5>1, <5>2
      <4> QED
        BY <1>3, <4>1, <4>2
  <2> QED
    BY <1>7, <2>1, <2>2, <2>3, <2>4, <2>5 DEF Caller
<1> QED
  BY <1>3, <1>4, <1>5, <1>6, <1>7 DEF Next

-----------------------------------------------------------------------------
(* The beginning.                                                          *)

LEMMA TypeInit == Init => TypeOK
<1> SUFFICES ASSUME Init PROVE TypeOK
  OBVIOUS
<1>1. NoPost \in Posts
  BY PostingTyped DEF NoPost
<1>2. IsFiniteSet(troubles) /\ Cardinality(troubles) <= MaxFaults
  BY FS_EmptySet, ExchangeAssumption DEF Init
<1>3. shells \in Seq(BOOLEAN) /\ commands \in Seq(Processes)
  BY EmptySeq DEF Init
<1>4. pc \in [Actors -> Places] /\ post \in [Actors -> Posts]
  BY <1>1 DEF Init, Places
<1>5. acked \in 0..Chunks
  BY ExchangeAssumption DEF Init
<1> QED
  BY <1>2, <1>3, <1>4, <1>5 DEF Init, TypeOK, Places

LEMMA RestInit == Init => PhaseInv /\ AnswerInv /\ IdInv /\ CloseInv
<1> SUFFICES ASSUME Init PROVE PhaseInv /\ AnswerInv /\ IdInv /\ CloseInv
  OBVIOUS
<1>1. /\ pc["main"] = "Create" /\ pc["fetch"] = "none" /\ pc["writer"] = "none"
      /\ \A a \in Actors : post[a] = NoPost
      /\ shellID = NoText /\ commandID = NoText /\ acked = 0
      /\ shells = <<>> /\ commands = <<>>
  BY DEF Init, Actors
<1>2. /\ NoPost.stage = "none" /\ NoPost.tries = 0 /\ NoPost.answer = NoAnswer
      /\ NoAnswer.content = "none"
  BY NoAnswerSays DEF NoPost, Posting
<1>3. Len(shells) = 0 /\ Len(commands) = 0 /\ DOMAIN shells = {}
  BY <1>1
<1>4. PhaseInv
  BY <1>1, <1>2 DEF PhaseInv, Actors
<1>5. AnswerInv
  BY <1>1, <1>2 DEF AnswerInv, Told, RequestsAccepted
<1>6. IdInv
  <2>1. Served = 0
    BY <1>1, <1>2 DEF Served, Actors
  <2> QED
    BY <1>1, <1>2, <1>3, <2>1 DEF IdInv, Actors
<1>7. CloseInv
  BY <1>1, <1>2, <1>3 DEF CloseInv, Actors
<1> QED
  BY <1>4, <1>5, <1>6, <1>7

LEMMA LoopsInit == Init => InputInv /\ DoneInv /\ SilenceToleratedInClear
<1> SUFFICES ASSUME Init PROVE InputInv /\ DoneInv /\ SilenceToleratedInClear
  OBVIOUS
<1>1. /\ pc["writer"] = "none" /\ commandID = NoText /\ DOMAIN commands = {}
      /\ ended = [as |-> "none", silent |-> FALSE]
  BY DEF Init, Actors
<1> QED
  BY <1>1 DEF InputInv, Unfed, InputRead, InputSent, DoneInv, SilenceToleratedInClear, EndedBySilence

-----------------------------------------------------------------------------
(* The invariant, and what follows from it.                                *)

\* A step that changes nothing.
LEMMA Stutter ==
    ASSUME UNCHANGED vars, ExchangeIInv
    PROVE  ExchangeIInv'
<1>1. UNCHANGED <<kind, line, pc, shellID, commandID, acked, got, ended, post, shells, commands, troubles>>
  BY DEF vars, client, server
<1>2. TypeOK'
  BY <1>1 DEF ExchangeIInv, TypeOK
<1>3. PhaseInv'
  BY <1>1 DEF ExchangeIInv, PhaseInv
<1>4. AnswerInv'
  BY <1>1 DEF ExchangeIInv, AnswerInv, Told, Genuine, RequestsAccepted
<1>5. IdInv'
  BY <1>1 DEF ExchangeIInv, IdInv, Served
<1>6. CloseInv'
  BY <1>1 DEF ExchangeIInv, CloseInv
<1>7. InputInv'
  BY <1>1 DEF ExchangeIInv, InputInv, Unfed, InputRead, InputSent, LastRead, Input, MyProcess, MyShellOpen,
     Swallowed, Repeats
<1>8. DoneInv'
  BY <1>1 DEF ExchangeIInv, DoneInv, MyProcess
<1>9. SilenceToleratedInClear'
  BY <1>1 DEF ExchangeIInv, SilenceToleratedInClear, EndedBySilence
<1> QED
  BY <1>2, <1>3, <1>4, <1>5, <1>6, <1>7, <1>8, <1>9 DEF ExchangeIInv

LEMMA ExchangeStep ==
    ASSUME ExchangeIInv, Next
    PROVE  ExchangeIInv'
<1>1. /\ TypeOK /\ PhaseInv /\ AnswerInv /\ IdInv /\ CloseInv /\ InputInv /\ DoneInv
      /\ SilenceToleratedInClear
  BY DEF ExchangeIInv
<1>2. TypeOK' /\ PhaseInv' /\ AnswerInv'
  BY <1>1, TypeStep, PhaseStep, AnswerStep
<1>3. IdInv' /\ CloseInv'
  BY <1>1, <1>2, IdStep, CloseStep
<1>4. Unfed /\ (pc["fetch"] = "none" => \A n \in DOMAIN commands : commands[n].out # "taken")
  BY <1>1, DoneParts DEF InputInv
<1>5. InputInv'
  BY <1>1, <1>2, <1>4, InputStep
<1>6. DoneInv'
  BY <1>1, <1>2, <1>4, DoneStep
<1>7. SilenceToleratedInClear'
  BY <1>1, SilenceStep
<1> QED
  BY <1>2, <1>3, <1>5, <1>6, <1>7 DEF ExchangeIInv

\* Whatever the goroutines post at the same time, and whatever the network loses,
\* the parts of the invariant hold together.
THEOREM ExchangeInvariance == Spec => []ExchangeIInv
<1>1. Init => ExchangeIInv
  BY TypeInit, RestInit, LoopsInit DEF ExchangeIInv
<1>2. ExchangeIInv /\ [Next]_vars => ExchangeIInv'
  BY ExchangeStep, Stutter
<1> QED
  BY <1>1, <1>2, PTL DEF Spec

\* Every variable keeps its type; in particular the ids that the client holds are
\* of a shell and a process that the server has made.
THEOREM ExchangeTypeCorrect == Spec => []TypeOK
<1>1. ExchangeIInv => TypeOK
  BY DEF ExchangeIInv
<1> QED
  BY <1>1, ExchangeInvariance, PTL

\* The server finds every request of the client valid (request.go names the shell
\* and the command by the ids that response.go parsed), but for an id that the
\* server has left out, which client.go:93 does not check, and "]]>" in the command
\* line.
THEOREM ServerAccepts == Spec => []RequestsAccepted
<1>1. ExchangeIInv => RequestsAccepted
  BY DEF ExchangeIInv, AnswerInv
<1> QED
  BY <1>1, ExchangeInvariance, PTL

\* When the client is done (Shell.Close, shell.go:24), a shell that stays open on the
\* server is there because a Create or a Delete went wrong on the network.
THEOREM OrphansExplained == Spec => []OrphansOnlyFromLoss
<1>1. ExchangeIInv => OrphansOnlyFromLoss
  BY DEF ExchangeIInv, CloseInv, OrphansOnlyFromLoss
<1> QED
  BY <1>1, ExchangeInvariance, PTL

\* The fetch loop is never ended by an answer that says no more than that the process
\* is silent (command.go:147), on the transports that do not encrypt.
THEOREM SilenceTolerance == Spec => []SilenceToleratedInClear
<1>1. ExchangeIInv => SilenceToleratedInClear
  BY DEF ExchangeIInv
<1> QED
  BY <1>1, ExchangeInvariance, PTL

\* When the fetch loop ends well (command.go:139) the process has exited and its
\* output has been read, unless a Receive was posted again after its answer was lost.
THEOREM DoneMeansComplete == Spec => []DoneIsComplete
<1>1. ASSUME ExchangeIInv PROVE DoneIsComplete
  <2>1. DoneInv
    BY <1>1 DEF ExchangeIInv
  <2> SUFFICES ASSUME ended.as = "done" PROVE DoneIsComplete
    BY DEF DoneIsComplete
  <2>2. pc["fetch"] = "over" /\ commandID # NoText
    BY <2>1 DEF DoneInv
  <2> QED
    BY <2>1, <2>2 DEF DoneInv, DoneIsComplete
<1>2. ExchangeIInv => DoneIsComplete
  BY <1>1
<1> QED
  BY <1>2, ExchangeInvariance, PTL

\* The process reads the chunks of the input in order and without gaps, a chunk twice
\* only if an encrypted Send was posted again (ntlm.go:369), and what Write has counted
\* (command.go:226) it has read, but for the transports that hide a refusal.
THEOREM InputArrives == Spec => []InputFaithful
<1>1. ASSUME ExchangeIInv PROVE InputFaithful
  <2> SUFFICES ASSUME commandID # NoText PROVE InputFaithful
    BY DEF InputFaithful
  <2>1. TypeOK /\ InputRead
    BY <1>1 DEF ExchangeIInv, InputInv
  <2>2. Input \in Seq(Nat) /\ Input = MyProcess.input
    BY <2>1, MineFound DEF Input
  <2>3. acked \in Nat
    BY <2>1 DEF TypeOK
  <2>4. /\ \A i \in 2..Len(Input) : Input[i] > Input[i - 1] \/ (Input[i] = Input[i - 1] /\ Repeats)
        /\ ~Swallowed => Range(Input) = 1..LastRead
        /\ ~Swallowed /\ (kind \notin Lenient \/ MyShellOpen) => LastRead >= acked
    BY <2>1 DEF InputRead
  <2>5. LastRead \in Nat
    BY <2>2, LastIsNatural DEF LastRead
  <2>6. Swallowed \/ Range(Input) = 1..Cardinality(Range(Input))
    <3>1. Cardinality(1..LastRead) = LastRead
      <4>1. Cardinality(1..LastRead) = IF 1 > LastRead THEN 0 ELSE LastRead - 1 + 1
        BY <2>5, FS_Interval
      <4> QED
        BY <2>5, <4>1
    <3> QED
      BY <2>4, <3>1
  <2>7. Swallowed \/ kind \in Lenient \/ 1..acked \subseteq Range(Input)
    BY <2>3, <2>4, <2>5
  <2>8. \A i \in 2..Len(Input) :
            \/ Input[i] > Input[i - 1]
            \/ Input[i] = Input[i - 1] /\ kind = "encrypted" /\ <<"Send", "reset">> \in troubles
    BY <2>4 DEF Repeats
  <2> QED
    BY <2>2, <2>6, <2>7, <2>8 DEF InputFaithful
<1>2. ExchangeIInv => InputFaithful
  BY <1>1
<1> QED
  BY <1>2, ExchangeInvariance, PTL
=============================================================================
