----------------------------- MODULE Requests ------------------------------
(***************************************************************************)
(* The six requests of request.go and the message that soap/ builds for    *)
(* each.  Texts are strings; NoText is the zero value of a Go string,      *)
(* which is what the builder of the header leaves out.  An action, a       *)
(* resource and the like stand for their URIs; the attributes and the      *)
(* children of the one element in the body are the fields of a record.     *)
(***************************************************************************)
EXTENDS Sequences, Functions

NoText == "noText"

NewParameters(timeout, locale, envelopeSize) ==
    [Timeout |-> timeout, Locale |-> locale, EnvelopeSize |-> envelopeSize]

DefaultParameters == NewParameters("PT60S", "en-US", "153600")

-----------------------------------------------------------------------------
(* The message (soap/message.go) and its header (soap/header.go)           *)

\* The elements of the header, each set by the method of its name (the selector
\* by ShellId, the operation timeout by Timeout, the message id by Id).
HeaderElements == {"To", "ReplyTo", "MaxEnvelopeSize", "OperationTimeout", "MessageID",
                   "Locale", "Action", "ShellId", "ResourceURI"}

SoapHeader == [e \in HeaderElements |-> NoText]

NoElement == [name |-> NoText]
NewMessage == [children |-> <<>>, header |-> <<>>, options |-> <<>>, body |-> NoElement]

\* Build puts the elements that were given a text, and the options if there are any.
Build(message, header, options) ==
    [message EXCEPT !.children = Append(@, "Header"),
                    !.header = Restrict(header, {e \in HeaderElements : header[e] # NoText}),
                    !.options = options]

NewBody(message) == [message EXCEPT !.children = Append(@, "Body")]

\* The message has no body before (message.go:62 would keep it): one element each.
CreateBodyElement(message, element) == [NewBody(message) EXCEPT !.body = element]

\* Every request has an id of its own; nothing depends on which.
genUUID == "uuid"

\* Fault: the server is not told how long it may keep a request.
defaultHeaders_NoTimeout(url, params) ==
    [SoapHeader EXCEPT !.To = url, !.ReplyTo = "anonymous", !.MessageID = genUUID,
                       !.MaxEnvelopeSize = params.EnvelopeSize, !.Locale = params.Locale]

defaultHeaders(url, params) ==
    [SoapHeader EXCEPT !.To = url, !.ReplyTo = "anonymous", !.MessageID = genUUID,
                       !.MaxEnvelopeSize = params.EnvelopeSize, !.Locale = params.Locale,
                       !.OperationTimeout = params.Timeout]

\* A text between "<![CDATA[" and "]]>" ends at the first "]]>"; cdataEnd stands for
\* the texts that hold one, and torn for what is left of them.
CDATA(text) == IF text = "cdataEnd" THEN "torn" ELSE text

-----------------------------------------------------------------------------
(* The requests (request.go)                                               *)

NewOpenShellRequest(url, params) ==
    CreateBodyElement(
        Build(NewMessage,
              [defaultHeaders(url, params) EXCEPT !.Action = "Create", !.ResourceURI = "cmd"],
              <<"WINRS_NOPROFILE", "WINRS_CODEPAGE">>),
        [name |-> "Shell", InputStreams |-> "stdin", OutputStreams |-> "stdoutStderr"])

\* The header of a request about a shell.
ShellHeaders(url, shellID, action, params) ==
    [defaultHeaders(url, params) EXCEPT !.Action = action, !.ResourceURI = "cmd", !.ShellId = shellID]

NewDeleteShellRequest(url, shellID, params) ==
    NewBody(Build(NewMessage, ShellHeaders(url, shellID, "Delete", params), <<>>))

NewExecuteCommandRequest(url, shellID, command, arguments, params) ==
    CreateBodyElement(
        Build(NewMessage, ShellHeaders(url, shellID, "Command", params),
              <<"WINRS_CONSOLEMODE_STDIN", "WINRS_SKIP_CMD_SHELL">>),
        [name |-> "CommandLine", Command |-> CDATA(command),
         Arguments |-> [i \in DOMAIN arguments |-> CDATA(arguments[i])]])

NewGetOutputRequest(url, shellID, commandID, streams, params) ==
    CreateBodyElement(
        Build(NewMessage, ShellHeaders(url, shellID, "Receive", params), <<>>),
        [name |-> "Receive", CommandId |-> commandID, DesiredStream |-> streams])

NewSendInputRequest(url, shellID, commandID, input, eof, params) ==
    CreateBodyElement(
        Build(NewMessage, ShellHeaders(url, shellID, "Send", params), <<>>),
        [name |-> "Send", CommandId |-> commandID, Stream |-> input, End |-> eof])

\* Fault: the two ids change places.
NewSignalRequest_Swapped(url, shellID, commandID, params) ==
    CreateBodyElement(
        Build(NewMessage, ShellHeaders(url, commandID, "Signal", params), <<>>),
        [name |-> "Signal", CommandId |-> shellID, Code |-> "terminate"])

NewSignalRequest(url, shellID, commandID, params) ==
    CreateBodyElement(
        Build(NewMessage, ShellHeaders(url, shellID, "Signal", params), <<>>),
        [name |-> "Signal", CommandId |-> commandID, Code |-> "terminate"])
=============================================================================
