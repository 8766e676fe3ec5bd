---------------------------- MODULE SetupProofs ----------------------------
(* Proofs about Setup, for any number of users, servers and modes. *)
EXTENDS Setup, TLAPS

\* What a user may want.
LEMMA PlanTyped ==
    ASSUME TypeOK, NEW u \in Users
    PROVE  /\ plan[u].from \in {"untouched", "default", "own"} /\ plan[u].mode \in Modes
           /\ plan[u].shares \in BOOLEAN /\ plan[u].endpoint \in Endpoints
           /\ plan[u].from = "untouched" => plan[u].mode = "basic" /\ ~plan[u].shares
           /\ plan[u].mode = "kerberos" => ~plan[u].shares
BY DEF TypeOK, Plans

\* A struct that a user takes is one of them, and belongs to nobody else if it is
\* not the default.
LEMMA StructTyped ==
    ASSUME TypeOK, NEW u \in Users
    PROVE  /\ Struct(u) \in Structs
           /\ \A v \in Users : Struct(u) = v => u = v /\ plan[u].from = "own"
           /\ Struct(u) # "default" => plan[u].from = "own"
           /\ decorator[Struct(u)] \in Decorators
BY UsersAssumption DEF Struct, Structs, TypeOK

\* The transport that a user is given is its own, or the one that all share who
\* want that mode.
LEMMA ProvidedTyped ==
    ASSUME TypeOK, NEW u \in Users
    PROVE  LET d == decorator[Struct(u)] IN
           /\ Provided(u) \in Transports
           /\ IF d.shares THEN Provided(u) = <<"shared", d.mode>> /\ Provided(u) \in Shared
                          ELSE Provided(u) = u
<1>1. decorator[Struct(u)].mode \in Modes
  BY StructTyped DEF Decorators
<1> QED
  BY <1>1 DEF Provided, Transports, Shared

\* The types hold at the start.
LEMMA InitTyped == Init => TypeOK
<1> SUFFICES ASSUME Init PROVE TypeOK
  OBVIOUS
<1>1. NoDecorator \in Decorators /\ Unset \in TransportType /\ NoPost \in PostType
  BY ModesAssumption DEF NoDecorator, Decorators, Unset, TransportType, NoPost, PostType
<1>2. /\ Optional({}) /\ Optional(Unset.settings) /\ Optional(Unset.pinned)
      /\ Optional(Unset.cached)
  BY DEF Optional, Unset
<1> QED
  BY <1>1, <1>2 DEF Init, TypeOK

\* What the constructor does to the transport it is given, and to no other, if it
\* succeeds and if it fails.
LEMMA ClientMade ==
    ASSUME TypeOK, NEW u \in Users, MakeClient(u)
    PROVE  LET d == decorator[Struct(u)]
               p == Provided(u)
           IN  /\ at[u] = "chosen" /\ UNCHANGED <<plan, decorator, last>> /\ p \in Transports
               /\ transport' \in [Transports -> TransportType]
               /\ transport'[p].mode = d.mode /\ transport'[p].owner = d.owner
               /\ transport'[p].pinned = transport[p].pinned
               /\ transport'[p].cached = transport[p].cached
               /\ \A t \in Transports \ {p} : transport'[t] = transport[t]
               /\ \/ /\ at' = [at EXCEPT ![u] = "client"] /\ client' = [client EXCEPT ![u] = {p}]
                     /\ transport'[p].settings = {plan[u].endpoint}
                     /\ transport'[p].clients = transport[p].clients \cup {u}
                  \/ /\ at' = [at EXCEPT ![u] = "failed"] /\ client' = [client EXCEPT ![u] = {}]
                     /\ transport'[p].settings = transport[p].settings
                     /\ transport'[p].clients = transport[p].clients
<1> DEFINE d == decorator[Struct(u)]
           p == Provided(u)
           old == transport[p]
           New(ss, cs) == [transport EXCEPT ![p].mode = d.mode, ![p].owner = d.owner,
                                            ![p].settings = ss, ![p].clients = cs]
<1>1. old \in TransportType /\ d \in Decorators /\ plan[u].endpoint \in Endpoints /\ p \in Transports
  BY StructTyped, PlanTyped, ProvidedTyped DEF TypeOK
<1>2. old.settings \in SUBSET Endpoints /\ old.clients \in SUBSET Users
  BY <1>1 DEF TransportType
<1>3. at[u] = "chosen" /\ UNCHANGED <<plan, decorator, last>>
  BY DEF MakeClient
<1>4. PICK ss \in SUBSET Endpoints, cs \in SUBSET Users :
         /\ transport' = New(ss, cs)
         /\ \/ /\ at' = [at EXCEPT ![u] = "client"] /\ client' = [client EXCEPT ![u] = {p}]
               /\ ss = {plan[u].endpoint} /\ cs = old.clients \cup {u}
            \/ /\ at' = [at EXCEPT ![u] = "failed"] /\ client' = [client EXCEPT ![u] = {}]
               /\ ss = old.settings /\ cs = old.clients
  <2>1. {plan[u].endpoint} \in SUBSET Endpoints /\ old.clients \cup {u} \in SUBSET Users
    BY <1>1, <1>2
  <2> QED
    BY <1>2, <2>1 DEF MakeClient, Configured, Settings
<1>5. /\ transport' \in [Transports -> TransportType]
      /\ transport'[p].mode = d.mode /\ transport'[p].owner = d.owner
      /\ transport'[p].settings = ss /\ transport'[p].clients = cs
      /\ transport'[p].pinned = old.pinned /\ transport'[p].cached = old.cached
      /\ \A t \in Transports \ {p} : transport'[t] = transport[t]
  <2> DEFINE new == [old EXCEPT !.mode = d.mode, !.owner = d.owner, !.settings = ss, !.clients = cs]
  <2>1. /\ new \in TransportType
        /\ new.mode = d.mode /\ new.owner = d.owner /\ new.settings = ss
        /\ new.pinned = old.pinned /\ new.cached = old.cached /\ new.clients = cs
    BY <1>1 DEF TransportType, Decorators
  <2>2. transport \in [Transports -> TransportType]
    BY DEF TypeOK
  <2>3. transport' = [transport EXCEPT ![p] = new]
    BY <1>1, <1>4, <2>2
  <2> HIDE DEF new
  <2>4. transport'[p] = new /\ transport' \in [Transports -> TransportType]
    BY <1>1, <2>1, <2>2, <2>3
  <2> QED
    BY <1>1, <2>1, <2>2, <2>3, <2>4
<1> HIDE DEF New
<1> QED
  BY <1>1, <1>3, <1>4, <1>5

\* A post puts the credentials of its user into a session, if there is one.
LEMMA UsedTyped ==
    ASSUME NEW t \in TransportType, NEW u \in Users
    PROVE  /\ Used(t, u) \in TransportType
           /\ Used(t, u).mode = t.mode /\ Used(t, u).owner = t.owner
           /\ Used(t, u).settings = t.settings /\ Used(t, u).clients = t.clients
           /\ IF t.mode # "ntlm" \/ HasSession(t, u)
              THEN Used(t, u).pinned = t.pinned /\ Used(t, u).cached = t.cached
              ELSE Used(t, u).pinned = t.settings /\ Used(t, u).cached = {u}
           /\ t.mode = "ntlm" => Used(t, u).cached = {u}
BY DEF Used, HasSession, TransportType

\* What a post shows.
LEMMA ShownTyped ==
    ASSUME TypeOK, NEW t \in TransportType, NEW u \in Users
    PROVE  /\ Shown(t, u) \in PostType
           /\ Shown(t, u).mode = t.mode
           /\ Shown(t, u).server = IF t.mode = "kerberos" THEN {plan[v].endpoint : v \in t.owner}
                                   ELSE {plan[u].endpoint}
           /\ t.mode = "basic" => Shown(t, u).as = {u}
           /\ t.mode = "ntlm" => Shown(t, u).as = t.cached
           /\ t.mode = "certificate" => Shown(t, u).as = {}
           /\ t.mode = "kerberos" => Shown(t, u).as = t.owner
           /\ Shown(t, u).settings = IF t.mode = "ntlm" THEN t.pinned ELSE t.settings
<1>1. {plan[v].endpoint : v \in t.owner} \in SUBSET Endpoints /\ {plan[u].endpoint} \in SUBSET Endpoints
  BY PlanTyped DEF TransportType
<1>2. t.mode \in AllModes
  BY ModesAssumption DEF TransportType
<1>3. t.mode \in Modes /\ t.cached \in SUBSET Users /\ t.owner \in SUBSET Users
      /\ t.settings \in SUBSET Endpoints /\ t.pinned \in SUBSET Endpoints
  BY DEF TransportType
<1>4. (CASE t.mode = "basic"       -> {u}
         [] t.mode = "ntlm"        -> t.cached
         [] t.mode = "certificate" -> {}
         [] t.mode = "kerberos"    -> t.owner) \in SUBSET Users
  BY <1>2, <1>3 DEF AllModes
<1> QED
  BY <1>1, <1>3, <1>4 DEF Shown, PostType

\* No step breaks a type.
LEMMA TypeStep == TypeOK /\ [Next]_vars => TypeOK'
<1> SUFFICES ASSUME TypeOK, [Next]_vars PROVE TypeOK'
  OBVIOUS
<1>1. ASSUME NEW u \in Users, TakeParameters(u) PROVE TypeOK'
  BY <1>1 DEF TypeOK, TakeParameters
<1>2. ASSUME NEW u \in Users, ChooseTransport(u) PROVE TypeOK'
  <2>1. Wanted(u) \in Decorators
    BY PlanTyped DEF Wanted, Decorators
  <2> QED
    BY <1>2, <2>1 DEF TypeOK, ChooseTransport
<1>3. ASSUME NEW u \in Users, MakeClient(u) PROVE TypeOK'
  <2> DEFINE p == Provided(u)
  <2>1. /\ UNCHANGED <<plan, decorator, last>> /\ p \in Transports
        /\ transport' \in [Transports -> TransportType]
        /\ transport'[p].settings \in {{plan[u].endpoint}, transport[p].settings}
        /\ transport'[p].pinned = transport[p].pinned /\ transport'[p].cached = transport[p].cached
        /\ \A t \in Transports \ {p} : transport'[t] = transport[t]
        /\ \E a \in {"client", "failed"} : at' = [at EXCEPT ![u] = a]
        /\ \E c \in {{p}, {}} : client' = [client EXCEPT ![u] = c]
    BY <1>3, ClientMade
  <2>2. \A t \in Transports :
        /\ Optional(transport[t].settings) /\ Optional(transport[t].pinned)
        /\ Optional(transport[t].cached)
    BY DEF TypeOK
  <2>3. Optional({plan[u].endpoint}) /\ Optional({p}) /\ Optional({})
    BY DEF Optional
  <2>4. \A t \in Transports :
        /\ Optional(transport'[t].settings) /\ Optional(transport'[t].pinned)
        /\ Optional(transport'[t].cached)
    BY <2>1, <2>2, <2>3
  <2>5. client' \in [Users -> SUBSET Transports] /\ \A v \in Users : Optional(client'[v])
    <3>1. PICK c \in {{p}, {}} : client' = [client EXCEPT ![u] = c]
      BY <2>1
    <3>2. c \in SUBSET Transports /\ Optional(c)
      BY <2>1, <2>3
    <3>3. client \in [Users -> SUBSET Transports] /\ \A v \in Users : Optional(client[v])
      BY DEF TypeOK
    <3> QED
      BY <3>1, <3>2, <3>3
  <2>6. at' \in [Users -> {"start", "params", "chosen", "client", "failed"}]
    BY <2>1 DEF TypeOK
  <2> QED
    BY <2>1, <2>4, <2>5, <2>6 DEF TypeOK
<1>4. ASSUME NEW u \in Users, Post(u) PROVE TypeOK'
  <2>1. PICK t \in client[u] :
           /\ transport' = [transport EXCEPT ![t] = Used(transport[t], u)]
           /\ last' = [last EXCEPT ![u] = Shown(Used(transport[t], u), u)]
    BY <1>4 DEF Post
  <2>2. t \in Transports /\ transport[t] \in TransportType
    BY DEF TypeOK
  <2>3. Used(transport[t], u) \in TransportType /\ Shown(Used(transport[t], u), u) \in PostType
    BY <2>2, UsedTyped, ShownTyped
  <2>4. /\ transport' \in [Transports -> TransportType]
        /\ \A s \in Transports :
              /\ Optional(transport'[s].settings) /\ Optional(transport'[s].pinned)
              /\ Optional(transport'[s].cached)
    <3>1. /\ Used(transport[t], u).settings = transport[t].settings
          /\ Used(transport[t], u).pinned \in {transport[t].pinned, transport[t].settings}
          /\ Used(transport[t], u).cached \in {transport[t].cached, {u}}
      BY <2>2, UsedTyped
    <3> QED
      BY <2>1, <2>2, <2>3, <3>1 DEF TypeOK, Optional
  <2>5. last' \in [Users -> PostType]
    BY <2>1, <2>3 DEF TypeOK
  <2> QED
    BY <1>4, <2>4, <2>5 DEF TypeOK, Post
<1>5. CASE UNCHANGED vars
  BY <1>5 DEF TypeOK, vars
<1> QED
  BY <1>1, <1>2, <1>3, <1>4, <1>5 DEF Next, Over
-----------------------------------------------------------------------------
\* Nobody starts over or wants something else, so what was disturbed stays so.
LEMMA Onwards ==
    ASSUME TypeOK, [Next]_vars
    PROVE  /\ plan' = plan
           /\ \A u \in Users :
                 /\ Changed(u) => Changed(u)'
                 /\ Disturbed(u) => Disturbed(u)'
                 /\ at[u] = "client" => at'[u] = "client"
<1>1. plan' = plan
  BY DEF Next, TakeParameters, ChooseTransport, MakeClient, Post, Over, vars
<1>2. \A u \in Users :
         /\ at[u] \notin {"start", "params"} => at'[u] \notin {"start", "params"}
         /\ at[u] = "client" => at'[u] = "client"
  <2>1. ASSUME NEW v \in Users, TakeParameters(v) \/ ChooseTransport(v)
        PROVE  \A u \in Users : at[u] \notin {"start", "params"} => at'[u] = at[u]
    BY <2>1 DEF TypeOK, TakeParameters, ChooseTransport
  <2>2. ASSUME NEW v \in Users, MakeClient(v)
        PROVE  \A u \in Users :
                  /\ at[u] \notin {"start", "params"} => at'[u] \notin {"start", "params"}
                  /\ at[u] = "client" => at'[u] = "client"
    <3>1. at[v] = "chosen" /\ \E a \in {"client", "failed"} : at' = [at EXCEPT ![v] = a]
      BY <2>2, ClientMade
    <3> QED
      BY <3>1 DEF TypeOK
  <2>3. CASE (\E v \in Users : Post(v)) \/ UNCHANGED vars
    BY <2>3 DEF Post, vars
  <2> QED
    BY <2>1, <2>2, <2>3 DEF Next, Over
<1>3. \A u \in Users : Changed(u) => Changed(u)'
  BY <1>1, <1>2 DEF Changed
<1> QED
  BY <1>1, <1>2, <1>3 DEF Disturbed

\* Only a user who takes the default on purpose changes it.
LEMMA DecoratorStep == TypeOK /\ DecoratorInv /\ [Next]_vars => DecoratorInv'
<1> SUFFICES ASSUME TypeOK, DecoratorInv, [Next]_vars PROVE DecoratorInv'
  OBVIOUS
<1>0. plan' = plan /\ (\A u \in Users : (Changed(u) => Changed(u)') /\ Wanted(u)' = Wanted(u))
  BY Onwards DEF Wanted
<1>1. ASSUME NEW v \in Users, TakeParameters(v) PROVE DecoratorInv'
  <2>1. /\ decorator' = decorator /\ at[v] = "start"
        /\ at' = [at EXCEPT ![v] = IF plan[v].from = "untouched" THEN "chosen" ELSE "params"]
    BY <1>1 DEF TakeParameters
  <2>2. \A u \in Users :
           /\ Changed(u)' <=> Changed(u)
           /\ plan[u].from = "own" /\ at'[u] \notin {"start", "params"} =>
                 at[u] \notin {"start", "params"}
           /\ at'[u] = "params" => plan[u].from # "untouched"
    BY <1>0, <2>1 DEF TypeOK, Changed, DecoratorInv
  <2> QED
    BY <1>0, <2>1, <2>2 DEF DecoratorInv
<1>2. ASSUME NEW v \in Users, ChooseTransport(v) PROVE DecoratorInv'
  <2>1. /\ at[v] = "params" /\ at' = [at EXCEPT ![v] = "chosen"]
        /\ decorator' = [decorator EXCEPT ![Struct(v)] = Wanted(v)]
    BY <1>2 DEF ChooseTransport
  <2>2. \A u \in Users \ {v} : at'[u] = at[u]
    BY <2>1 DEF TypeOK
  <2>3. at'[v] = "chosen"
    BY <2>1 DEF TypeOK
  <2>4. CASE plan[v].from = "own"
    <3>1. Struct(v) = v /\ "default" # v /\ ~Changed(v)' /\ v \in Structs /\ "default" \in Structs
      BY <1>0, <2>4, UsersAssumption DEF Struct, Changed, Structs
    <3>2. decorator'["default"] = decorator["default"] /\ decorator'[v] = Wanted(v)
          /\ \A u \in Users \ {v} : decorator'[u] = decorator[u]
      BY <2>1, <3>1 DEF TypeOK, Structs
    <3>3. \A u \in Users : ~Changed(u) => ~Changed(u)'
      BY <1>0, <2>2, <3>1 DEF Changed
    <3> QED
      BY <1>0, <2>2, <2>3, <3>2, <3>3 DEF DecoratorInv
  <2>5. CASE plan[v].from # "own"
    <3>1. Struct(v) = "default" /\ "default" \in Structs /\ "default" \notin Users
      BY <2>5, UsersAssumption DEF Struct, Structs
    <3>2. decorator'["default"] = Wanted(v) /\ \A u \in Users : decorator'[u] = decorator[u]
      BY <2>1, <3>1 DEF TypeOK, Structs
    <3>3. Changed(v)'
      BY <1>0, <2>1, <2>3, <2>5, PlanTyped DEF Changed, DecoratorInv
    <3> QED
      BY <1>0, <2>2, <2>3, <2>5, <3>2, <3>3 DEF DecoratorInv
  <2> QED
    BY <2>4, <2>5
<1>3. ASSUME NEW v \in Users, MakeClient(v) PROVE DecoratorInv'
  <2>1. decorator' = decorator /\ at[v] = "chosen" /\ \E a \in {"client", "failed"} : at' = [at EXCEPT ![v] = a]
    BY <1>3, ClientMade
  <2>2. \A u \in Users :
           /\ at'[u] \notin {"start", "params"} <=> at[u] \notin {"start", "params"}
           /\ at'[u] = "params" => at[u] = "params"
    BY <2>1 DEF TypeOK
  <2> QED
    BY <1>0, <2>1, <2>2 DEF DecoratorInv, Changed
<1>4. CASE (\E v \in Users : Post(v)) \/ UNCHANGED vars
  <2>1. UNCHANGED <<decorator, at>>
    BY <1>4 DEF Post, vars
  <2> QED
    BY <1>0, <2>1 DEF DecoratorInv, Changed
<1> QED
  BY <1>1, <1>2, <1>3, <1>4 DEF Next, Over
-----------------------------------------------------------------------------
\* A user whom nobody has disturbed finds its own choice in the struct.
LEMMA Undisturbed ==
    ASSUME TypeOK, DecoratorInv, NEW u \in Users, at[u] = "chosen", ~Disturbed(u)
    PROVE  LET d == decorator[Struct(u)] IN
           /\ d.mode = plan[u].mode
           /\ plan[u].mode # "kerberos" \/ d.owner = {u}
           /\ d.shares => plan[u].mode # "kerberos"
<1>1. CASE plan[u].from = "own"
  <2>1. Struct(u) = u /\ decorator[u] = Wanted(u)
    BY <1>1 DEF Struct, DecoratorInv
  <2> QED
    BY <2>1, PlanTyped DEF Wanted
<1>2. CASE plan[u].from = "default"
  <2>1. Changed(u) /\ Struct(u) = "default"
    BY <1>2 DEF Changed, Struct
  <2>2. decorator["default"] = Wanted(u)
    BY <1>2, <2>1 DEF DecoratorInv, Disturbed
  <2> QED
    BY <2>1, <2>2, PlanTyped DEF Wanted
<1>3. CASE plan[u].from = "untouched"
  <2>1. ~Changed(u) /\ Struct(u) = "default"
    BY <1>3 DEF Changed, Struct
  <2>2. decorator["default"] = NoDecorator
    BY <1>3, <2>1 DEF DecoratorInv, Disturbed
  <2> QED
    BY <1>3, <2>1, <2>2, PlanTyped DEF NoDecorator
<1> QED
  BY <1>1, <1>2, <1>3, PlanTyped

\* A new client fits its transport, and the clients of others still fit theirs.
LEMMA ClientStep == TypeOK /\ DecoratorInv /\ ClientInv /\ [Next]_vars => ClientInv'
<1> SUFFICES ASSUME TypeOK, DecoratorInv, ClientInv, [Next]_vars PROVE ClientInv'
  OBVIOUS
<1>0. plan' = plan /\ \A u \in Users : ~Disturbed(u)' => ~Disturbed(u)
  BY Onwards
<1>1. ASSUME NEW v \in Users, MakeClient(v) PROVE ClientInv'
  <2> DEFINE p == Provided(v)
             d == decorator[Struct(v)]
  <2>1. /\ at[v] = "chosen" /\ p \in Transports
        /\ transport'[p].mode = d.mode /\ transport'[p].owner = d.owner
        /\ transport[p].clients \subseteq transport'[p].clients
        /\ \A t \in Transports \ {p} : transport'[t] = transport[t]
    BY <1>1, ClientMade
  <2>2. IF d.shares THEN p = <<"shared", d.mode>> /\ p \in Shared ELSE p = v
    BY ProvidedTyped
  <2>3. \A u \in Users \ {v} : client'[u] = client[u] /\ at'[u] = at[u]
    <3>1. \E a \in {"client", "failed"}, c \in {{p}, {}} :
             at' = [at EXCEPT ![v] = a] /\ client' = [client EXCEPT ![v] = c]
      BY <1>1, ClientMade
    <3> QED
      BY <3>1 DEF TypeOK
  <2>4. /\ client'[v] \subseteq {p}
        /\ client'[v] # {} => at'[v] = "client" /\ v \in transport'[p].clients
    <3>1. \/ at' = [at EXCEPT ![v] = "client"] /\ client' = [client EXCEPT ![v] = {p}]
             /\ v \in transport'[p].clients
          \/ client' = [client EXCEPT ![v] = {}]
      BY <1>1, ClientMade
    <3> QED
      BY <3>1 DEF TypeOK
  <2> SUFFICES ASSUME NEW u \in Users, NEW t \in client'[u]
               PROVE  /\ at'[u] = "client" /\ u \in transport'[t].clients
                      /\ t \in Users => t = u
                      /\ ~Disturbed(u)' =>
                            /\ transport'[t].mode = plan[u].mode
                            /\ plan[u].mode # "kerberos" \/ transport'[t].owner = {u}
                            /\ t \in Users \/ (t = <<"shared", plan[u].mode>> /\ plan[u].mode # "kerberos")
    BY <1>0 DEF ClientInv
  <2> HIDE DEF p, d
  <2>5. CASE u = v
    <3>1. t = p /\ at'[u] = "client" /\ u \in transport'[t].clients
      BY <2>4, <2>5
    <3>2. t \in Users => t = u
      BY <2>2, <2>5, <3>1, UsersAssumption
    <3>3. ~Disturbed(u)' =>
             /\ d.mode = plan[u].mode
             /\ plan[u].mode # "kerberos" \/ d.owner = {u}
             /\ d.shares => plan[u].mode # "kerberos"
      BY <1>0, <2>1, <2>5, Undisturbed DEF d
    <3> QED
      BY <2>1, <2>2, <2>5, <3>1, <3>2, <3>3
  <2>6. CASE u # v /\ t = p
    <3>1. /\ t \in client[u] /\ at'[u] = "client" /\ u \in transport[t].clients
          /\ t \in Users => t = u
      BY <2>3, <2>6 DEF ClientInv
    <3>2. t \notin Users /\ p = <<"shared", d.mode>>
      BY <2>2, <2>6, <3>1, UsersAssumption
    <3>3. ~Disturbed(u)' => t = <<"shared", plan[u].mode>> /\ plan[u].mode # "kerberos"
      BY <1>0, <3>1, <3>2 DEF ClientInv
    <3> QED
      BY <2>1, <2>6, <3>1, <3>2, <3>3
  <2>7. CASE u # v /\ t # p
    <3>1. t \in client[u] /\ at'[u] = at[u] /\ t \in Transports
      BY <2>3, <2>7 DEF TypeOK
    <3>2. transport'[t] = transport[t]
      BY <2>1, <2>7, <3>1
    <3> QED
      BY <1>0, <3>1, <3>2 DEF ClientInv
  <2> QED
    BY <2>5, <2>6, <2>7
<1>2. ASSUME NEW v \in Users, Post(v) PROVE ClientInv'
  <2>1. PICK t \in client[v] : transport' = [transport EXCEPT ![t] = Used(transport[t], v)]
    BY <1>2 DEF Post
  <2>2. t \in Transports /\ transport[t] \in TransportType
    BY DEF TypeOK
  <2>3. /\ Used(transport[t], v).mode = transport[t].mode
        /\ Used(transport[t], v).owner = transport[t].owner
        /\ Used(transport[t], v).clients = transport[t].clients
    BY <2>2, UsedTyped
  <2>4. \A s \in Transports :
           /\ transport'[s].mode = transport[s].mode /\ transport'[s].owner = transport[s].owner
           /\ transport'[s].clients = transport[s].clients
    BY <2>1, <2>2, <2>3 DEF TypeOK
  <2>5. UNCHANGED <<client, at>> /\ \A u \in Users : client[u] \subseteq Transports
    BY <1>2 DEF Post, TypeOK
  <2> QED
    BY <1>0, <2>4, <2>5 DEF ClientInv
<1>3. ASSUME NEW v \in Users, TakeParameters(v) \/ ChooseTransport(v) PROVE ClientInv'
  <2>1. UNCHANGED <<client, transport>>
    BY <1>3 DEF TakeParameters, ChooseTransport
  <2>2. \A u \in Users : at[u] = "client" => at'[u] = "client"
    BY Onwards
  <2> QED
    BY <1>0, <2>1, <2>2 DEF ClientInv
<1>4. CASE UNCHANGED vars
  BY <1>0, <1>4 DEF ClientInv, vars
<1> QED
  BY <1>1, <1>2, <1>3, <1>4 DEF Next, Over
\* A transport with one client has the settings of that client, as it was configured
\* for no other; and its session has been made with them.
LEMMA TransportStep == TypeOK /\ ClientInv /\ TransportInv /\ [Next]_vars => TransportInv'
<1> SUFFICES ASSUME TypeOK, ClientInv, TransportInv, [Next]_vars PROVE TransportInv'
  OBVIOUS
<1>0. plan' = plan
  BY Onwards
<1>1. ASSUME NEW v \in Users, MakeClient(v) PROVE TransportInv'
  <2> DEFINE p == Provided(v)
  <2>1. /\ p \in Transports /\ transport'[p].pinned = transport[p].pinned
        /\ \A t \in Transports \ {p} : transport'[t] = transport[t]
    BY <1>1, ClientMade
  <2>2. \/ /\ transport'[p].settings = {plan[v].endpoint}
           /\ transport'[p].clients = transport[p].clients \cup {v}
        \/ /\ transport'[p].settings = transport[p].settings
           /\ transport'[p].clients = transport[p].clients
    BY <1>1, ClientMade
  <2>3. p \in Users => p = v
    BY ProvidedTyped, UsersAssumption
  <2> HIDE DEF p
  <2>4. transport[p].clients \subseteq {v} => transport[p].pinned \subseteq {plan[v].endpoint}
    BY <2>1 DEF TransportInv
  <2>5. /\ p \in Users => transport'[p].clients \subseteq {p}
        /\ transport'[p].pinned # {} => transport'[p].clients # {}
        /\ \A u \in Users : transport'[p].clients = {u} =>
              /\ transport'[p].settings = {plan[u].endpoint}
              /\ transport'[p].pinned \subseteq {plan[u].endpoint}
    BY <2>1, <2>2, <2>3, <2>4 DEF TransportInv
  <2> QED
    BY <1>0, <2>1, <2>5 DEF TransportInv
<1>2. ASSUME NEW v \in Users, Post(v) PROVE TransportInv'
  <2>1. PICK t \in client[v] : transport' = [transport EXCEPT ![t] = Used(transport[t], v)]
    BY <1>2 DEF Post
  <2>2. t \in Transports /\ transport[t] \in TransportType /\ v \in transport[t].clients
    BY DEF TypeOK, ClientInv
  <2>3. /\ Used(transport[t], v).pinned \in {transport[t].pinned, transport[t].settings}
        /\ Used(transport[t], v).settings = transport[t].settings
        /\ Used(transport[t], v).clients = transport[t].clients
    BY <2>2, UsedTyped
  <2>4. /\ transport'[t] = Used(transport[t], v)
        /\ \A s \in Transports \ {t} : transport'[s] = transport[s]
    BY <2>1, <2>2 DEF TypeOK
  <2>5. /\ transport'[t].pinned \in {transport[t].pinned, transport[t].settings}
        /\ transport'[t].settings = transport[t].settings
        /\ transport'[t].clients = transport[t].clients
    BY <2>3, <2>4
  <2> QED
    BY <1>0, <2>2, <2>4, <2>5 DEF TransportInv
<1>3. CASE (\E v \in Users : TakeParameters(v) \/ ChooseTransport(v)) \/ UNCHANGED vars
  <2>1. transport' = transport
    BY <1>3 DEF TakeParameters, ChooseTransport, vars
  <2> QED
    BY <1>0, <2>1 DEF TransportInv
<1> QED
  BY <1>1, <1>2, <1>3 DEF Next, Over

-----------------------------------------------------------------------------
\* What one post shows.
LEMMA PostIsOwn ==
    ASSUME TypeOK, ClientInv, TransportInv, NEW u \in Users, NEW t \in client[u]
    PROVE  LET shown == Shown(Used(transport[t], u), u) IN
           /\ ~Disturbed(u) => /\ shown.mode = plan[u].mode /\ shown.server = {plan[u].endpoint}
                               /\ shown.as \subseteq {u}
           /\ transport[t].clients = {u} => shown.settings = {plan[u].endpoint}
<1> DEFINE old == transport[t]
           used == Used(old, u)
           shown == Shown(used, u)
<1>1. old \in TransportType /\ t \in Transports
  BY DEF TypeOK
<1>2. /\ used \in TransportType
      /\ used.mode = old.mode /\ used.owner = old.owner /\ used.settings = old.settings
      /\ IF used.mode # "ntlm" \/ HasSession(old, u)
         THEN used.pinned = old.pinned ELSE used.pinned = old.settings
      /\ used.mode = "ntlm" => used.cached = {u}
  BY <1>1, UsedTyped
<1>3. used.mode \in AllModes
  BY <1>2, ModesAssumption DEF TransportType
<1>4. /\ shown.mode = used.mode
      /\ shown.server = IF used.mode = "kerberos" THEN {plan[v].endpoint : v \in used.owner}
                        ELSE {plan[u].endpoint}
      /\ used.mode = "basic" => shown.as = {u}
      /\ used.mode = "ntlm" => shown.as = used.cached
      /\ used.mode = "certificate" => shown.as = {}
      /\ used.mode = "kerberos" => shown.as = used.owner
      /\ shown.settings = IF used.mode = "ntlm" THEN used.pinned ELSE used.settings
  BY <1>2, ShownTyped
<1> HIDE DEF shown, used
<1>5. ASSUME ~Disturbed(u)
      PROVE  shown.mode = plan[u].mode /\ shown.server = {plan[u].endpoint} /\ shown.as \subseteq {u}
  <2>1. used.mode = plan[u].mode /\ (used.mode = "kerberos" => used.owner = {u})
    BY <1>2, <1>5 DEF ClientInv
  <2>2. used.mode = "kerberos" => shown.server = {plan[u].endpoint}
    BY <1>4, <2>1
  <2> QED
    BY <1>2, <1>3, <1>4, <2>1, <2>2 DEF AllModes
<1>6. ASSUME old.clients = {u} PROVE shown.settings = {plan[u].endpoint}
  <2>1. old.settings = {plan[u].endpoint} /\ old.pinned \subseteq {plan[u].endpoint}
    BY <1>1, <1>6 DEF TransportInv
  <2>2. HasSession(old, u) => old.pinned = {plan[u].endpoint}
    BY <2>1 DEF HasSession
  <2> QED
    BY <1>2, <1>4, <2>1, <2>2
<1> QED
  BY <1>5, <1>6 DEF shown, used

\* A transport that u shares it goes on sharing.
LEMMA SharingStays ==
    ASSUME TypeOK, ClientInv, [Next]_vars, NEW u \in Users, at[u] = "client"
    PROVE  client'[u] = client[u] /\ (SharesTransport(u) => SharesTransport(u)')
<1>1. ASSUME NEW v \in Users, MakeClient(v)
      PROVE  /\ client'[u] = client[u]
             /\ \A t \in Transports : transport[t].clients \subseteq transport'[t].clients
  <2>1. /\ at[v] = "chosen" /\ \E c \in {{Provided(v)}, {}} : client' = [client EXCEPT ![v] = c]
        /\ transport[Provided(v)].clients \subseteq transport'[Provided(v)].clients
        /\ \A t \in Transports \ {Provided(v)} : transport'[t] = transport[t]
    BY <1>1, ClientMade
  <2> QED
    BY <2>1 DEF TypeOK
<1>2. ASSUME NEW v \in Users, Post(v)
      PROVE  /\ client'[u] = client[u]
             /\ \A t \in Transports : transport[t].clients \subseteq transport'[t].clients
  <2>1. PICK t \in client[v] : transport' = [transport EXCEPT ![t] = Used(transport[t], v)]
    BY <1>2 DEF Post
  <2>2. t \in Transports /\ transport[t] \in TransportType
    BY DEF TypeOK
  <2>3. Used(transport[t], v).clients = transport[t].clients
    BY <2>2, UsedTyped
  <2> QED
    BY <1>2, <2>1, <2>2, <2>3 DEF Post, TypeOK
<1>3. ASSUME (\E v \in Users : TakeParameters(v) \/ ChooseTransport(v)) \/ UNCHANGED vars
      PROVE  UNCHANGED <<client, transport>>
  BY <1>3 DEF TakeParameters, ChooseTransport, vars
<1>4. /\ client'[u] = client[u]
      /\ \A t \in Transports : transport[t].clients \subseteq transport'[t].clients
  BY <1>1, <1>2, <1>3 DEF Next, Over
<1>5. \A t \in client[u] : t \in Transports /\ u \in transport[t].clients
  BY DEF TypeOK, ClientInv
<1> QED
  BY <1>4, <1>5 DEF SharesTransport

\* Every post is the user's own, and the earlier ones of others stay so.
LEMMA OwnStep ==
    TypeOK /\ ClientInv /\ TransportInv /\ OwnRequests /\ Posted /\ [Next]_vars => OwnRequests' /\ Posted'
<1> SUFFICES ASSUME TypeOK, ClientInv, TransportInv, OwnRequests, Posted, [Next]_vars,
                    NEW u \in Users, last'[u] # NoPost
             PROVE  /\ ~Disturbed(u)' =>
                          /\ last'[u].mode = plan'[u].mode /\ last'[u].server = {plan'[u].endpoint}
                          /\ last'[u].as \subseteq {u}
                    /\ ~SharesTransport(u)' => last'[u].settings = {plan'[u].endpoint}
                    /\ at'[u] = "client"
  BY DEF OwnRequests, Posted
<1>1. plan' = plan /\ (~Disturbed(u)' => ~Disturbed(u)) /\ (at[u] = "client" => at'[u] = "client")
  BY Onwards
<1>2. CASE last'[u] = last[u]
  <2>1. at[u] = "client"
    BY <1>2 DEF Posted
  <2>2. ~SharesTransport(u)' => ~SharesTransport(u)
    BY <2>1, SharingStays
  <2> QED
    BY <1>1, <1>2, <2>1, <2>2 DEF OwnRequests
<1>3. CASE last'[u] # last[u]
  <2>1. PICK v \in Users : Post(v)
    BY <1>3 DEF Next, TakeParameters, ChooseTransport, MakeClient, Over, vars
  <2>2. at[v] = "client" /\ \E t \in client[v] : last' = [last EXCEPT ![v] = Shown(Used(transport[t], v), v)]
    BY <2>1 DEF Post
  <2>3. u = v
    BY <1>3, <2>2 DEF TypeOK
  <2>4. PICK t \in client[u] : last'[u] = Shown(Used(transport[t], u), u)
    BY <2>2, <2>3 DEF TypeOK
  <2>5. ~SharesTransport(u)' => transport[t].clients = {u}
    <3>1. ~SharesTransport(u)' => ~SharesTransport(u)
      BY <2>2, <2>3, SharingStays
    <3> QED
      BY <3>1 DEF SharesTransport
  <2>6. /\ ~Disturbed(u) =>
              /\ last'[u].mode = plan[u].mode /\ last'[u].server = {plan[u].endpoint}
              /\ last'[u].as \subseteq {u}
        /\ transport[t].clients = {u} => last'[u].settings = {plan[u].endpoint}
    BY <2>4, PostIsOwn
  <2> QED
    BY <1>1, <2>2, <2>3, <2>5, <2>6
<1> QED
  BY <1>2, <1>3

\* The inductive invariant holds in every reachable state.
THEOREM SetupInvariance == Spec => []SetupIInv
<1>1. SetupIInv <=> TypeOK /\ DecoratorInv /\ ClientInv /\ TransportInv /\ OwnRequests /\ Posted
  BY DEF SetupIInv
<1>2. Init => SetupIInv
  <2> SUFFICES ASSUME Init PROVE SetupIInv
    OBVIOUS
  <2>1. TypeOK
    BY InitTyped
  <2>2. DecoratorInv
    BY UsersAssumption DEF Init, DecoratorInv, Changed, Structs
  <2>3. ClientInv /\ TransportInv /\ OwnRequests /\ Posted
    BY DEF Init, ClientInv, TransportInv, Unset, OwnRequests, Posted
  <2> QED
    BY <1>1, <2>1, <2>2, <2>3
<1>3. SetupIInv /\ [Next]_vars => SetupIInv'
  <2> SUFFICES ASSUME SetupIInv, [Next]_vars PROVE SetupIInv'
    OBVIOUS
  <2>1. TypeOK /\ DecoratorInv /\ ClientInv /\ TransportInv /\ OwnRequests /\ Posted
    BY <1>1
  <2>2. TypeOK' /\ DecoratorInv' /\ ClientInv' /\ TransportInv' /\ OwnRequests' /\ Posted'
    BY <2>1, TypeStep, DecoratorStep, ClientStep, TransportStep, OwnStep
  <2> QED
    BY <2>2 DEF SetupIInv
<1> QED
  BY <1>2, <1>3, PTL DEF Spec

\* Every variable of Setup keeps its type, and what is optional stays so.
THEOREM SetupTypeCorrect == Spec => []TypeOK
<1>1. SetupIInv => TypeOK
  BY DEF SetupIInv
<1> QED
  BY <1>1, SetupInvariance, PTL

\* Whatever the users, the servers and the interleaving of their constructors: a post
\* is made as its user wants it, unless another user changed the DefaultParameters,
\* and with its own settings, unless another client has the same transport.
THEOREM PostsAreOwn == Spec => []OwnRequests
<1>1. SetupIInv => OwnRequests
  BY DEF SetupIInv
<1> QED
  BY <1>1, SetupInvariance, PTL
=============================================================================
