------------------------------- MODULE Setup -------------------------------
(***************************************************************************)
(* How clients get their transports.  Several users of the library, parts  *)
(* of one program, take Parameters, say in them which transport they want, *)
(* make a client and post with it, and may do so at the same time.         *)
(* DefaultParameters is one pointer that all of them share, and what a     *)
(* TransportDecorator returns may be a new transport or one that other     *)
(* clients have as well.                                                   *)
(*                                                                         *)
(* A transport has the settings of an endpoint (certificates, server name, *)
(* timeout: an endpoint stands for its own) and a post shows which server  *)
(* it goes to, under whose identity and with which settings.               *)
(*                                                                         *)
(* External: the users, who do what README.md:147 and the smoke test do.   *)
(***************************************************************************)
CONSTANTS
    Users,      \* parts of the program; each has credentials of its own
    Endpoints,  \* servers
    Modes       \* transports that a user may want

AllModes == {"basic", "certificate", "kerberos", "ntlm"}

ASSUME ModesAssumption == Modes \subseteq AllModes /\ "basic" \in Modes

VARIABLES
    plan,        \* what each user wants: [from, mode, shares, endpoint]
    at,          \* how far it is: "start", "params", "chosen", "client" or "failed"
    decorator,   \* the TransportDecorator in each Parameters struct
    client,      \* the transport of each user's client
    transport,   \* each transport: [mode, owner, settings, pinned, cached, clients]
    last         \* the last post of each user

vars == <<plan, at, decorator, client, transport, last>>

\* Structs of Parameters: the one behind DefaultParameters, and one for each
\* user who calls NewParameters.  Transports: those that decorators make for one
\* client, and one of each mode that decorators hand to every client.
Structs == {"default"} \cup Users
Shared == {"shared"} \X Modes
Transports == Users \cup Shared

\* A user is neither the default struct nor a shared transport.
ASSUME UsersAssumption == "default" \notin Users /\ Users \cap Shared = {}

NoDecorator == [mode |-> "basic", owner |-> {}, shares |-> FALSE]
Unset == [mode |-> "basic", owner |-> {}, settings |-> {}, pinned |-> {}, cached |-> {},
          clients |-> {}]
NoPost == [mode |-> "basic", server |-> {}, as |-> {}, settings |-> {}]

\* A user takes the default as it is (NewClient), changes it, or has a struct of
\* its own.  Kerberos is set up for one server, and is not shared.
Plans == {p \in [from : {"untouched", "default", "own"}, mode : Modes,
                 shares : BOOLEAN, endpoint : Endpoints] :
             /\ p.from = "untouched" => p.mode = "basic"
             /\ p.mode = "kerberos" \/ p.from = "untouched" => ~p.shares}

Decorators == [mode : Modes, owner : SUBSET Users, shares : BOOLEAN]
TransportType == [mode : Modes, owner : SUBSET Users, settings : SUBSET Endpoints,
                  pinned : SUBSET Endpoints, cached : SUBSET Users, clients : SUBSET Users]
PostType == [mode : Modes, server : SUBSET Endpoints, as : SUBSET Users, settings : SUBSET Endpoints]

\* A Go variable that is nil, or has one value.
Optional(S) == \A x, y \in S : x = y

TypeOK ==
    /\ plan \in [Users -> Plans]
    /\ at \in [Users -> {"start", "params", "chosen", "client", "failed"}]
    /\ decorator \in [Structs -> Decorators]
    /\ client \in [Users -> SUBSET Transports]
    /\ transport \in [Transports -> TransportType]
    /\ last \in [Users -> PostType]
    /\ \A u \in Users : Optional(client[u])
    /\ \A t \in Transports :
          /\ Optional(transport[t].settings) /\ Optional(transport[t].pinned)
          /\ Optional(transport[t].cached)

Init ==
    /\ plan \in [Users -> Plans]
    /\ at = [u \in Users |-> "start"]
    /\ decorator = [s \in Structs |-> NoDecorator]
    /\ client = [u \in Users |-> {}]
    /\ transport = [t \in Transports |-> Unset]
    /\ last = [u \in Users |-> NoPost]

-----------------------------------------------------------------------------
(* Parameters                                                              *)

\* Fault: the struct of NewParameters is kept for the next caller.
Struct_Kept(u) == "default"

Struct(u) == IF plan[u].from = "own" THEN u ELSE "default"

\* NewParameters, or a copy of the pointer DefaultParameters.
TakeParameters(u) ==
    /\ at[u] = "start"
    /\ at' = [at EXCEPT ![u] = IF plan[u].from = "untouched" THEN "chosen" ELSE "params"]
    /\ UNCHANGED <<plan, decorator, client, transport, last>>

\* The decorator of a transport that u wants.  (A Kerberos transport is given the
\* server and the credentials in its Settings.)
Wanted(u) == [mode |-> plan[u].mode, owner |-> {u}, shares |-> plan[u].shares]

\* params.TransportDecorator = ..., through the pointer.
ChooseTransport(u) ==
    /\ at[u] = "params"
    /\ at' = [at EXCEPT ![u] = "chosen"]
    /\ decorator' = [decorator EXCEPT ![Struct(u)] = Wanted(u)]
    /\ UNCHANGED <<plan, client, transport, last>>

-----------------------------------------------------------------------------
(* NewClientWithParameters                                                 *)

\* The transport that the decorator, or without one the library, provides.
Provided(u) ==
    LET d == decorator[Struct(u)]
    IN  IF d.shares THEN <<"shared", d.mode>> ELSE u

\* Fault: the settings are replaced before the certificates have been read.
Settings_Early(t, u, ok) == {plan[u].endpoint}

\* Fault: certificates are added to those of an earlier client.
Settings_Added(t, u, ok) ==
    IF ok THEN transport[t].settings \cup {plan[u].endpoint} ELSE transport[t].settings

\* Transport(endpoint): the settings replace those of an earlier client, unless
\* a certificate or a key cannot be read.
Settings(t, u, ok) == IF ok THEN {plan[u].endpoint} ELSE transport[t].settings

Configured(t, u, ok) ==
    [transport EXCEPT ![t].mode = decorator[Struct(u)].mode,
                      ![t].owner = decorator[Struct(u)].owner,
                      ![t].settings = Settings(t, u, ok),
                      ![t].clients = IF ok THEN @ \cup {u} ELSE @]

MakeClient(u) ==
    /\ at[u] = "chosen"
    /\ \E ok \in BOOLEAN :
          /\ transport' = Configured(Provided(u), u, ok)
          /\ at' = [at EXCEPT ![u] = IF ok THEN "client" ELSE "failed"]
          /\ client' = [client EXCEPT ![u] = IF ok THEN {Provided(u)} ELSE {}]
    /\ UNCHANGED <<plan, decorator, last>>

-----------------------------------------------------------------------------
(* Post                                                                    *)

\* Fault: the credentials are not compared.
HasSession_Any(t, u) == t.pinned # {}

\* ensureSession keeps the session for the same credentials, whatever has become
\* of the settings in the meantime.
HasSession(t, u) == t.pinned # {} /\ t.cached = {u}

\* The transport after a post of u: a new NTLM session clones it.
Used(t, u) ==
    IF t.mode # "ntlm" \/ HasSession(t, u) THEN t
    ELSE [t EXCEPT !.pinned = t.settings, !.cached = {u}]

\* Basic and NTLM take the server and the credentials from the client; a
\* certificate is part of the settings; Kerberos has its own server and user.
Shown(t, u) ==
    [mode |-> t.mode,
     server |-> IF t.mode = "kerberos" THEN {plan[v].endpoint : v \in t.owner} ELSE {plan[u].endpoint},
     as |-> CASE t.mode = "basic"       -> {u}
              [] t.mode = "ntlm"        -> t.cached
              [] t.mode = "certificate" -> {}
              [] t.mode = "kerberos"    -> t.owner,
     settings |-> IF t.mode = "ntlm" THEN t.pinned ELSE t.settings]

Post(u) ==
    /\ at[u] = "client"
    /\ \E t \in client[u] :
          LET used == Used(transport[t], u) IN
          /\ transport' = [transport EXCEPT ![t] = used]
          /\ last' = [last EXCEPT ![u] = Shown(used, u)]
    /\ UNCHANGED <<plan, at, decorator, client>>

Over == (\A u \in Users : at[u] \in {"client", "failed"}) /\ UNCHANGED vars

Next ==
    \/ \E u \in Users : TakeParameters(u) \/ ChooseTransport(u) \/ MakeClient(u) \/ Post(u)
    \/ Over

Spec == Init /\ [][Next]_vars

-----------------------------------------------------------------------------
\* A user has changed the DefaultParameters.
Changed(v) == plan[v].from = "default" /\ at[v] \notin {"start", "params"}

\* Another user has changed the DefaultParameters that u uses.
Disturbed(u) == plan[u].from # "own" /\ \E v \in Users \ {u} : Changed(v)

\* Another client has the same transport.
SharesTransport(u) == \E t \in client[u] : transport[t].clients # {u}

\* Every post is made with the transport that the user wanted, to the server of
\* the client's endpoint and under the identity of its user, whoever shares the
\* transport, unless another user has changed the DefaultParameters it took
\* (parameters.go:17: one pointer for all; NewParameters is safe from that); and
\* with the settings of the client's own endpoint, unless another client shares
\* the transport (http.go:81 replaces the settings, and an NTLM session goes on
\* with the old ones, ntlm.go:127).
OwnRequests ==
    \A u \in Users : last[u] # NoPost =>
        /\ ~Disturbed(u) =>
              last[u].mode = plan[u].mode /\ last[u].server = {plan[u].endpoint} /\ last[u].as \subseteq {u}
        /\ ~SharesTransport(u) => last[u].settings = {plan[u].endpoint}

-----------------------------------------------------------------------------
(* The inductive invariant behind it.                                      *)

\* A struct of one's own has the decorator of its user; the default one has none
\* until it is changed, and then that of someone who has changed it.
DecoratorInv ==
    /\ \A u \in Users : at[u] = "params" => plan[u].from # "untouched"
    /\ \A u \in Users : plan[u].from = "own" /\ at[u] \notin {"start", "params"} =>
          decorator[u] = Wanted(u)
    /\ \/ decorator["default"] = NoDecorator /\ \A v \in Users : ~Changed(v)
       \/ \E v \in Users : Changed(v) /\ decorator["default"] = Wanted(v)

\* Whose transport a client may have: its own, or a shared one of the mode its user
\* wants, unless the user was disturbed.
ClientInv ==
    \A u \in Users : \A t \in client[u] :
       /\ at[u] = "client" /\ u \in transport[t].clients
       /\ t \in Users => t = u
       /\ ~Disturbed(u) =>
             /\ transport[t].mode = plan[u].mode
             /\ plan[u].mode # "kerberos" \/ transport[t].owner = {u}
             /\ t \in Users \/ (t = <<"shared", plan[u].mode>> /\ plan[u].mode # "kerberos")

\* A transport knows all its clients, and with only one it has the settings of that
\* one, in its session as well.
TransportInv ==
    \A t \in Transports :
       /\ t \in Users => transport[t].clients \subseteq {t}
       /\ transport[t].pinned # {} => transport[t].clients # {}
       /\ \A u \in Users : transport[t].clients = {u} =>
             /\ transport[t].settings = {plan[u].endpoint}
             /\ transport[t].pinned \subseteq {plan[u].endpoint}

\* Only clients post.
Posted == \A u \in Users : last[u] # NoPost => at[u] = "client"

SetupIInv == TypeOK /\ DecoratorInv /\ ClientInv /\ TransportInv /\ OwnRequests /\ Posted
=============================================================================
