--------------------------- MODULE Server_proofs ---------------------------
(***************************************************************************)
(* Answers go to who asked, and the endpoints that are told of gold are    *)
(* those of the last pings, for any clients, requests, times and queues;   *)
(* what a client is shown of land, ports and cities agrees with the map.   *)
(***************************************************************************)
EXTENDS Server, FiniteSetTheorems, TLAPS

----------------------------------------------------------------------------
(* The inductive invariant. *)

Endpoints == Clients \cup {Web}

\* The sends that wait have kept nothing but whose they are.
Homeward == {[to |-> e, asker |-> e, call |-> "any", answer |-> None] : e \in Endpoints}

\* While a handler has calls to make no receive is armed, so that the remote
\* endpoint is still the one that its datagram came from; only a ping registers.
HandlerOK ==
    /\ todo # <<>> => /\ up /\ receiving = "idle"
                      /\ asked \in Datagrams /\ remote = asked.from
    /\ receiving = "ready" => buffer \in Datagrams /\ remote = buffer.from
    /\ \A i \in DOMAIN todo : todo[i] = "register" => asked.from \in Clients

SendsOK ==
    /\ unsent \in Seq(Homeward)
    /\ \A d \in sent : d.to = d.asker

\* An entry is as old as the last ping of its client, and there is one for
\* every client whose last ping is not too old.
ClockOK ==
    /\ \A c \in DOMAIN endpoints : endpoints[c] = silence[c]
    /\ \A c \in Clients : silence[c] <= Expiry => c \in DOMAIN endpoints

ServerInv == TypeOK /\ HandlerOK /\ SendsOK /\ ClockOK

----------------------------------------------------------------------------
(* What comes from where. *)

LEMMA ClockArithmetic ==
  /\ Expiry \in Nat /\ TooOld \in Nat /\ TooOld = Expiry + 1
  /\ Web \notin Clients /\ IsFiniteSet(Clients)
BY ServerAssumption DEF TooOld

\* A datagram comes from one of the endpoints, and a ping from a client.
LEMMA DatagramFrom ==
  ASSUME NEW d \in Datagrams
  PROVE  d.from \in Endpoints /\ (d.req.type = "ping" => d.from \in Clients)
<1>1. CASE server = "clients"
  <2>1. PICK c \in Clients : d \in [from : {c}, req : Requests[c]]
    BY <1>1 DEF Datagrams
  <2>. QED  BY <2>1 DEF Endpoints
<1>2. CASE server # "clients"
  <2>1. d \in [from : {Web}, req : Commands]
    BY <1>2 DEF Datagrams
  <2>. QED  BY <2>1, ServerAssumption DEF Endpoints
<1>. QED  BY <1>1, <1>2

LEMMA DatagramsKept ==
  ASSUME server' = server  PROVE Datagrams' = Datagrams
BY DEF Datagrams

CallNames == {"ships", "area", "track", "register", "waypoints", "land", "ports", "cities", "cell", "reply"}

\* The calls of a datagram are calls, and only those of a ping register.
LEMMA CallsOf ==
  ASSUME NEW req, NEW calls \in Calls(req)
  PROVE  /\ calls \in Seq(CallNames)
         /\ \A i \in DOMAIN calls : calls[i] = "register" => req.type = "ping"
<1>1. CASE req.type = "ping"
  <2>1. calls = <<"ships", "area", "track", "register">> \/ calls = <<"ships", "area", "register">>
    BY <1>1, Zenon DEF Calls
  <2>2. ASSUME calls = <<"ships", "area", "track", "register">>  PROVE calls \in Seq(CallNames)
    BY <2>2 DEF CallNames
  <2>3. ASSUME calls = <<"ships", "area", "register">>  PROVE calls \in Seq(CallNames)
    BY <2>3 DEF CallNames
  <2>. QED  BY <1>1, <2>1, <2>2, <2>3
<1>2. CASE req.type # "ping"
  <2>1. calls = <<>> \/ \E c \in CallNames : c # "register" /\ calls = <<c>>
    BY <1>2 DEF Calls, CallNames
  <2>2. CASE calls = <<>>
    BY <2>2
  <2>3. ASSUME NEW c \in CallNames, c # "register", calls = <<c>>
        PROVE  /\ calls \in Seq(CallNames)
               /\ \A i \in DOMAIN calls : calls[i] # "register"
    <3>. HIDE DEF CallNames
    <3>1. calls \in Seq(CallNames)
      BY <2>3
    <3>2. \A i \in DOMAIN calls : calls[i] = c
      BY <2>3
    <3>. QED  BY <2>3, <3>1, <3>2
  <2>. QED  BY <2>1, <2>2, <2>3
<1>. QED  BY <1>1, <1>2

\* Sending datagrams that are addressed to their askers.
LEMMA SendsHome ==
  ASSUME SendsOK, NEW ds, Len(ds) \in Nat,
         \A i \in 1 .. Len(ds) : ds[i].to \in Endpoints /\ ds[i].asker = ds[i].to,
         Send(ds)
  PROVE  SendsOK'
<1>1. PICK n \in 0 .. Len(ds) :
        /\ sent' = {ds[i] : i \in 1 .. n}
        /\ unsent' = unsent \o [i \in 1 .. (Len(ds) - n) |-> Stale(ds[n + i])]
  BY DEF Send
<1>. DEFINE waiting == [i \in 1 .. (Len(ds) - n) |-> Stale(ds[n + i])]
<1>2. \A i \in 1 .. Len(ds) : Stale(ds[i]) \in Homeward
  BY DEF Stale, Homeward
<1>3. waiting \in Seq(Homeward)
  <2>1. \A i \in 1 .. (Len(ds) - n) : n + i \in 1 .. Len(ds)
    BY <1>1
  <2>2. waiting \in [1 .. (Len(ds) - n) -> Homeward] /\ Len(ds) - n \in Nat
    BY <1>1, <1>2, <2>1
  <2>. HIDE DEF waiting
  <2>. QED  BY <2>2
<1>4. \A d \in sent' : d.to = d.asker
  BY <1>1
<1>. HIDE DEF waiting
<1>5. unsent' = unsent \o waiting
  BY <1>1 DEF waiting
<1>6. unsent' \in Seq(Homeward)
  BY <1>3, <1>5 DEF SendsOK
<1>. QED  BY <1>4, <1>6 DEF SendsOK

\* Nobody's datagram is none, and when no handler runs there is no call to make.
LEMMA IdleHasNoCalls ==
  ASSUME HandlerOK, asked = None  PROVE todo = <<>>
<1>1. None \notin Datagrams
  <2>1. DOMAIN None = {"from"}
    BY DEF None
  <2>2. \A d \in Datagrams : DOMAIN d = {"from", "req"}
    BY DEF Datagrams
  <2>. QED  BY <2>1, <2>2
<1>. QED  BY <1>1 DEF HandlerOK

----------------------------------------------------------------------------
(* The actions. *)

LEMMA InitOK == Init => ServerInv
<1>. SUFFICES ASSUME Init  PROVE ServerInv
  OBVIOUS
<1>. USE DEF Init
<1>1. inbox \in Seq(Datagrams) /\ Len(inbox) <= MaxQueue
  BY ServerAssumption
<1>2. TypeOK
  <2>1. todo \in Seq(CallNames) /\ DOMAIN endpoints = {}
    OBVIOUS
  <2>2. silence \in [Clients -> 0 .. TooOld]
    BY ClockArithmetic DEF NeverPinged
  <2>. QED  BY <1>1, <2>1, <2>2 DEF TypeOK, CallNames
<1>3. HandlerOK
  BY DEF HandlerOK
<1>4. SendsOK
  BY DEF SendsOK
<1>5. ClockOK
  BY ClockArithmetic DEF ClockOK, NeverPinged
<1>. QED  BY <1>2, <1>3, <1>4, <1>5 DEF ServerInv

LEMMA StartOK == ServerInv /\ Start => ServerInv'
<1>. SUFFICES ASSUME ServerInv, Start  PROVE ServerInv'
  OBVIOUS
<1>. USE DEF ServerInv, Start, clock
<1>1. TypeOK'
  BY DatagramsKept DEF TypeOK
<1>2. HandlerOK'
  BY DatagramsKept DEF HandlerOK
<1>3. SendsOK' /\ ClockOK'
  BY DEF SendsOK, ClockOK
<1>. QED  BY <1>1, <1>2, <1>3

LEMMA EndOK == ServerInv /\ End => ServerInv'
<1>. SUFFICES ASSUME ServerInv, End  PROVE ServerInv'
  OBVIOUS
<1>. USE DEF ServerInv, End
<1>1. inbox' \in Seq(Datagrams') /\ Len(inbox') <= MaxQueue
  BY ServerAssumption
<1>2. TypeOK'
  <2>1. todo' \in Seq(CallNames) /\ DOMAIN endpoints' = {}
    OBVIOUS
  <2>2. silence' \in [Clients -> 0 .. TooOld]
    BY ClockArithmetic DEF NeverPinged
  <2>. QED  BY <1>1, <2>1, <2>2 DEF TypeOK, CallNames
<1>3. HandlerOK'
  BY DEF HandlerOK
<1>4. SendsOK'
  BY DEF SendsOK
<1>5. ClockOK'
  BY ClockArithmetic DEF ClockOK, NeverPinged
<1>. QED  BY <1>2, <1>3, <1>4, <1>5

LEMMA ArriveOK == \A d \in Datagrams : ServerInv /\ Arrive(d) => ServerInv'
<1>. SUFFICES ASSUME NEW d \in Datagrams, ServerInv, Arrive(d)  PROVE ServerInv'
  OBVIOUS
<1>. USE DEF ServerInv, Arrive, clock
<1>1. inbox' \in Seq(Datagrams) /\ Len(inbox') <= MaxQueue
  BY ServerAssumption DEF TypeOK
<1>2. TypeOK'
  BY <1>1, DatagramsKept DEF TypeOK
<1>3. HandlerOK'
  BY DatagramsKept DEF HandlerOK
<1>4. SendsOK' /\ ClockOK'
  BY DEF SendsOK, ClockOK
<1>. QED  BY <1>2, <1>3, <1>4

LEMMA ReceiveOK == ServerInv /\ Receive => ServerInv'
<1>. SUFFICES ASSUME ServerInv, Receive  PROVE ServerInv'
  OBVIOUS
<1>. USE DEF ServerInv, Receive, clock
<1>1. Head(inbox) \in Datagrams /\ Tail(inbox) \in Seq(Datagrams) /\ Len(Tail(inbox)) <= MaxQueue
  BY ServerAssumption DEF TypeOK
<1>2. Head(inbox).from \in Endpoints
  BY <1>1, DatagramFrom
<1>3. TypeOK'
  BY <1>1, <1>2, DatagramsKept DEF TypeOK, Endpoints
<1>4. HandlerOK'
  BY <1>1, DatagramsKept DEF HandlerOK
<1>5. SendsOK' /\ ClockOK'
  BY DEF SendsOK, ClockOK
<1>. QED  BY <1>3, <1>4, <1>5

LEMMA ReceiveErrorOK == ServerInv /\ ReceiveError => ServerInv'
<1>. SUFFICES ASSUME ServerInv, ReceiveError  PROVE ServerInv'
  OBVIOUS
<1>. USE DEF ServerInv, ReceiveError, clock
<1>1. TypeOK'
  BY DatagramsKept DEF TypeOK
<1>2. HandlerOK'
  BY DatagramsKept DEF HandlerOK
<1>3. SendsOK' /\ ClockOK'
  BY DEF SendsOK, ClockOK
<1>. QED  BY <1>1, <1>2, <1>3

LEMMA SendWaitingOK == ServerInv /\ SendWaiting => ServerInv'
<1>. SUFFICES ASSUME ServerInv, SendWaiting  PROVE ServerInv'
  OBVIOUS
<1>. USE DEF ServerInv, SendWaiting, loop, clock
<1>1. TypeOK'
  BY DatagramsKept DEF TypeOK
<1>2. HandlerOK'
  BY DatagramsKept DEF HandlerOK
<1>3. Head(unsent) \in Homeward /\ unsent' \in Seq(Homeward)
  BY DEF SendsOK
<1>4. Head(unsent).to = Head(unsent).asker
  BY <1>3 DEF Homeward
<1>5. SendsOK' /\ ClockOK'
  BY <1>3, <1>4 DEF SendsOK, ClockOK
<1>. QED  BY <1>1, <1>2, <1>5

LEMMA HandleOK == ServerInv /\ Handle => ServerInv'
<1>. SUFFICES ASSUME ServerInv, Handle  PROVE ServerInv'
  OBVIOUS
<1>. USE DEF ServerInv, Handle, Idle, clock
<1>1. buffer \in Datagrams /\ remote = buffer.from
  BY DEF HandlerOK
<1>2. /\ todo' \in Seq(CallNames)
      /\ \A i \in DOMAIN todo' : todo'[i] = "register" => buffer.req.type = "ping"
  BY CallsOf
<1>3. TypeOK'
  BY <1>1, <1>2, DatagramsKept DEF TypeOK, CallNames
<1>4. HandlerOK'
  BY <1>1, <1>2, DatagramsKept, DatagramFrom DEF HandlerOK
<1>5. SendsOK' /\ ClockOK'
  BY DEF SendsOK, ClockOK
<1>. QED  BY <1>3, <1>4, <1>5

LEMMA HandleErrorOK == ServerInv /\ HandleError => ServerInv'
<1>. SUFFICES ASSUME ServerInv, HandleError  PROVE ServerInv'
  OBVIOUS
<1>. USE DEF ServerInv, HandleError, Idle, clock
<1>1. TypeOK'
  BY DatagramsKept DEF TypeOK
<1>2. HandlerOK'
  BY DatagramsKept, IdleHasNoCalls DEF HandlerOK
<1>3. SendsOK' /\ ClockOK'
  BY DEF SendsOK, ClockOK
<1>. QED  BY <1>1, <1>2, <1>3

\* What is left of a handler's calls after one of them.
LEMMA RestOfCalls ==
  ASSUME ServerInv, todo # <<>>, todo' = Tail(todo), up' = up, server' = server,
         receiving' = receiving, remote' = remote, buffer' = buffer, asked' = asked
  PROVE  todo' \in Seq(CallNames) /\ HandlerOK'
<1>1. todo \in Seq(CallNames)
  BY DEF ServerInv, TypeOK, CallNames
<1>2. /\ Tail(todo) \in Seq(CallNames)
      /\ \A i \in DOMAIN Tail(todo) : i + 1 \in DOMAIN todo /\ Tail(todo)[i] = todo[i + 1]
  <2>. HIDE DEF CallNames
  <2>. QED  BY <1>1
<1>. QED  BY <1>2, DatagramsKept DEF ServerInv, HandlerOK

LEMMA AnswerOK == ServerInv /\ Answer => ServerInv'
<1>. SUFFICES ASSUME ServerInv, Answer  PROVE ServerInv'
  OBVIOUS
<1>1. /\ todo # <<>> /\ todo' = Tail(todo)
      /\ UNCHANGED <<server, up, inbox, receiving, remote, buffer, asked, clock>>
  BY DEF Answer
<1>2. remote \in Endpoints /\ remote = asked.from
  BY <1>1, DatagramFrom DEF ServerInv, HandlerOK
<1>3. SendsOK'
  <2>1. CASE sent' = {} /\ UNCHANGED unsent
    BY <2>1 DEF ServerInv, SendsOK
  <2>2. ASSUME NEW a,
               Send(<<[to |-> remote, asker |-> asked.from, call |-> Head(todo), answer |-> a]>>)
        PROVE  SendsOK'
    <3>. DEFINE ds == <<[to |-> remote, asker |-> asked.from, call |-> Head(todo), answer |-> a]>>
    <3>1. Len(ds) \in Nat /\ \A i \in 1 .. Len(ds) : ds[i].to \in Endpoints /\ ds[i].asker = ds[i].to
      BY <1>2
    <3>2. Send(ds)
      BY <2>2
    <3>. HIDE DEF ds
    <3>. QED  BY <3>1, <3>2, SendsHome DEF ServerInv
  <2>. QED  BY <2>1, <2>2 DEF Answer
<1>4. todo' \in Seq(CallNames) /\ HandlerOK'
  BY <1>1, RestOfCalls
<1>5. TypeOK'
  BY <1>1, <1>4, DatagramsKept DEF ServerInv, TypeOK, CallNames, clock
<1>6. ClockOK'
  BY <1>1 DEF ServerInv, ClockOK, clock
<1>. QED  BY <1>3, <1>4, <1>5, <1>6 DEF ServerInv

LEMMA RegisterOK == ServerInv /\ Register => ServerInv'
<1>. SUFFICES ASSUME ServerInv, Register  PROVE ServerInv'
  OBVIOUS
<1>1. /\ todo # <<>> /\ Head(todo) = "register" /\ todo' = Tail(todo)
      /\ endpoints' = With(endpoints, remote, 0)
      /\ silence' = [silence EXCEPT ![asked.from] = 0]
      /\ sent' = {}
      /\ UNCHANGED <<server, up, inbox, receiving, remote, buffer, asked, unsent>>
  BY DEF Register
<1>2. asked.from \in Clients /\ remote = asked.from
  <2>1. todo \in Seq(CallNames)
    BY DEF ServerInv, TypeOK, CallNames
  <2>2. 1 \in DOMAIN todo /\ todo[1] = "register"
    <3>. HIDE DEF CallNames
    <3>. QED  BY <1>1, <2>1
  <2>. QED  BY <1>1, <2>2 DEF ServerInv, HandlerOK
<1>3. todo' \in Seq(CallNames) /\ HandlerOK'
  BY <1>1, RestOfCalls
<1>4. /\ DOMAIN endpoints' = DOMAIN endpoints \cup {remote}
      /\ \A c \in DOMAIN endpoints' : endpoints'[c] = IF c = remote THEN 0 ELSE endpoints[c]
  BY <1>1 DEF With
<1>5. silence' \in [Clients -> 0 .. TooOld]
      /\ \A c \in Clients : silence'[c] = IF c = remote THEN 0 ELSE silence[c]
  BY <1>1, <1>2, ClockArithmetic DEF ServerInv, TypeOK
<1>6. TypeOK'
  BY <1>1, <1>2, <1>3, <1>4, <1>5, ClockArithmetic, DatagramsKept DEF ServerInv, TypeOK, CallNames
<1>7. SendsOK'
  BY <1>1 DEF ServerInv, SendsOK
<1>8. ClockOK'
  BY <1>2, <1>4, <1>5 DEF ServerInv, TypeOK, ClockOK
<1>. QED  BY <1>3, <1>6, <1>7, <1>8 DEF ServerInv

LEMMA RearmOK == ServerInv /\ Rearm => ServerInv'
<1>. SUFFICES ASSUME ServerInv, Rearm  PROVE ServerInv'
  OBVIOUS
<1>. USE DEF ServerInv, Rearm, clock
<1>1. TypeOK'
  BY DatagramsKept DEF TypeOK
<1>2. HandlerOK'
  BY DatagramsKept DEF HandlerOK
<1>3. SendsOK' /\ ClockOK'
  BY DEF SendsOK, ClockOK
<1>. QED  BY <1>1, <1>2, <1>3

\* An action between two handlers that leaves the loop alone.
LEMMA LoopKept ==
  ASSUME ServerInv, UNCHANGED <<server, up, loop>>,
         DOMAIN endpoints' \subseteq Clients,
         \A c \in DOMAIN endpoints' : endpoints'[c] \in 0 .. TooOld,
         silence' \in [Clients -> 0 .. TooOld]
  PROVE  TypeOK' /\ HandlerOK'
<1>1. TypeOK'
  BY DatagramsKept DEF ServerInv, TypeOK, loop
<1>2. HandlerOK'
  BY DatagramsKept DEF ServerInv, HandlerOK, loop
<1>. QED  BY <1>1, <1>2

LEMMA WaitOK == ServerInv /\ Wait => ServerInv'
<1>. SUFFICES ASSUME ServerInv, Wait  PROVE ServerInv'
  OBVIOUS
<1>. DEFINE older(f) == [c \in DOMAIN f |-> IF f[c] < TooOld THEN f[c] + 1 ELSE TooOld]
<1>1. /\ endpoints' = older(endpoints) /\ silence' = older(silence)
      /\ sent' = {} /\ UNCHANGED <<server, up, loop, unsent>>
  BY DEF Wait
<1>2. /\ DOMAIN endpoints' = DOMAIN endpoints
      /\ \A c \in DOMAIN endpoints : endpoints'[c] = IF endpoints[c] < TooOld THEN endpoints[c] + 1 ELSE TooOld
  BY <1>1
<1>3. /\ silence' \in [Clients -> 0 .. TooOld]
      /\ \A c \in Clients : silence'[c] = IF silence[c] < TooOld THEN silence[c] + 1 ELSE TooOld
  BY <1>1, ClockArithmetic DEF ServerInv, TypeOK
<1>4. \A c \in DOMAIN endpoints' : endpoints'[c] \in 0 .. TooOld
  BY <1>2, ClockArithmetic DEF ServerInv, TypeOK
<1>5. TypeOK' /\ HandlerOK'
  BY <1>1, <1>2, <1>3, <1>4, LoopKept DEF ServerInv, TypeOK
<1>6. SendsOK'
  BY <1>1 DEF ServerInv, SendsOK
<1>7. ClockOK'
  <2>1. \A c \in DOMAIN endpoints' : endpoints'[c] = silence'[c]
    BY <1>2, <1>3 DEF ServerInv, TypeOK, ClockOK
  <2>2. \A c \in Clients : silence'[c] <= Expiry => silence[c] <= Expiry
    BY <1>3, ClockArithmetic DEF ServerInv, TypeOK
  <2>. QED  BY <1>2, <2>1, <2>2 DEF ServerInv, ClockOK
<1>. QED  BY <1>5, <1>6, <1>7 DEF ServerInv

\* A tick keeps the endpoints that are young enough.
LEMMA TickKeeps ==
  Tick => /\ DOMAIN endpoints' = {c \in DOMAIN endpoints : endpoints[c] <= Expiry}
          /\ \A c \in DOMAIN endpoints' : endpoints'[c] = endpoints[c]
BY DEF Tick

LEMMA TickOK == ServerInv /\ Tick => ServerInv'
<1>. SUFFICES ASSUME ServerInv, Tick  PROVE ServerInv'
  OBVIOUS
<1>1. /\ sent' = {} /\ UNCHANGED <<server, up, loop, unsent, silence>>
  BY DEF Tick
<1>2. TypeOK' /\ HandlerOK'
  BY <1>1, TickKeeps, LoopKept DEF ServerInv, TypeOK
<1>3. SendsOK'
  BY <1>1 DEF ServerInv, SendsOK
<1>4. ClockOK'
  BY <1>1, TickKeeps DEF ServerInv, TypeOK, ClockOK
<1>. QED  BY <1>2, <1>3, <1>4 DEF ServerInv

LEMMA NotifyOK == ServerInv /\ Notify => ServerInv'
<1>. SUFFICES ASSUME ServerInv, Notify  PROVE ServerInv'
  OBVIOUS
<1>. DEFINE gold(c) == [to |-> c, asker |-> c, call |-> "gold", answer |-> None]
            known == DOMAIN endpoints
            ds == [i \in 1 .. Cardinality(known) |-> gold(SetToSeq(known)[i])]
<1>1. Send(ds) /\ UNCHANGED <<server, up, loop, clock>>
  BY DEF Notify
<1>2. known \subseteq Clients
  BY DEF ServerInv, TypeOK
<1>3. Cardinality(known) \in Nat /\ SetToSeq(known) \in [1 .. Cardinality(known) -> known]
  <2>1. IsFiniteSet(known)
    BY <1>2, ClockArithmetic, FS_Subset
  <2>2. Cardinality(known) \in Nat /\ ExistsBijection(1 .. Cardinality(known), known)
    BY <2>1, FS_CardinalityType
  <2>3. \E f \in [1 .. Cardinality(known) -> known] : IsInjective(f)
    BY <2>2 DEF ExistsBijection, Bijection, Injection
  <2>. QED  BY <2>2, <2>3 DEF SetToSeq
<1>4. Len(ds) = Cardinality(known)
  BY <1>3
<1>5. \A i \in 1 .. Len(ds) : ds[i].to \in Endpoints /\ ds[i].asker = ds[i].to
  BY <1>2, <1>3, <1>4 DEF Endpoints
<1>6. SendsOK'
  <2>. HIDE DEF ds
  <2>. QED  BY <1>1, <1>3, <1>4, <1>5, SendsHome DEF ServerInv
<1>7. TypeOK' /\ HandlerOK'
  BY <1>1, LoopKept DEF ServerInv, TypeOK, clock
<1>8. ClockOK'
  BY <1>1 DEF ServerInv, ClockOK, clock
<1>. QED  BY <1>6, <1>7, <1>8 DEF ServerInv

LEMMA StutterOK == ServerInv /\ UNCHANGED vars => ServerInv'
<1>. SUFFICES ASSUME ServerInv, UNCHANGED vars  PROVE ServerInv'
  OBVIOUS
<1>. USE DEF ServerInv, vars
<1>1. TypeOK' /\ HandlerOK'
  BY LoopKept DEF TypeOK, clock
<1>2. SendsOK' /\ ClockOK'
  BY DEF SendsOK, ClockOK, clock
<1>. QED  BY <1>1, <1>2

LEMMA NextOK == ServerInv /\ [Next]_vars => ServerInv'
<1>. SUFFICES ASSUME ServerInv, [Next]_vars  PROVE ServerInv'
  OBVIOUS
<1>1. CASE Start \/ Crash
  BY <1>1, StartOK, EndOK DEF Crash
<1>2. CASE \E d \in Datagrams : Arrive(d)
  BY <1>2, ArriveOK
<1>3. CASE Receive \/ ReceiveError \/ SendWaiting
  BY <1>3, ReceiveOK, ReceiveErrorOK, SendWaitingOK
<1>4. CASE Handle \/ HandleError \/ Continue
  BY <1>4, HandleOK, HandleErrorOK, AnswerOK, EndOK, RegisterOK, RearmOK DEF Continue, Throw
<1>5. CASE Wait \/ Tick \/ Notify
  BY <1>5, WaitOK, TickOK, NotifyOK
<1>6. CASE UNCHANGED vars
  BY <1>6, StutterOK
<1>. QED  BY <1>1, <1>2, <1>3, <1>4, <1>5, <1>6 DEF Next

----------------------------------------------------------------------------
(* What holds of every behaviour. *)

\* Every reachable state of either server satisfies the invariant, types and all.
THEOREM ServerInvariant == Spec => []ServerInv
<1>. QED  BY InitOK, NextOK, PTL DEF Spec

\* Every variable has its type.
THEOREM TypeCorrect == Spec => []TypeOK
<1>1. ServerInv => TypeOK
  BY DEF ServerInv
<1>. QED  BY <1>1, ServerInvariant, PTL

\* Whatever arrives while a handler runs and whatever waits, each answer that is
\* sent or waits to be goes to the endpoint whose datagram it answers.
THEOREM AnswersReachAskers == Spec => []AnswersGoHome
<1>1. ServerInv => AnswersGoHome
  <2>. SUFFICES ASSUME ServerInv, NEW d \in sent \cup Waiting  PROVE d.to = d.asker
    BY DEF AnswersGoHome
  <2>1. CASE d \in sent
    BY <2>1 DEF ServerInv, SendsOK
  <2>2. CASE d \in Waiting
    <3>1. d \in Homeward
      BY <2>2 DEF ServerInv, SendsOK, Waiting, ToSet
    <3>. QED  BY <3>1 DEF Homeward
  <2>. QED  BY <2>1, <2>2
<1>. QED  BY <1>1, ServerInvariant, PTL

\* No step drops a client whose last ping is young enough, and a tick leaves no
\* other to be told of gold, for any number of clients and any expiry.
THEOREM CurrentEndpoints == Spec => EndpointsCurrent
<1>1. ServerInv /\ [Next]_vars =>
        [/\ \A c \in Clients : silence'[c] <= Expiry => c \in DOMAIN endpoints'
         /\ Tick => \A c \in DOMAIN endpoints' : silence[c] <= Expiry]_vars
  <2>. SUFFICES ASSUME ServerInv, [Next]_vars
                PROVE  /\ \A c \in Clients : silence'[c] <= Expiry => c \in DOMAIN endpoints'
                       /\ Tick => \A c \in DOMAIN endpoints' : silence[c] <= Expiry
    OBVIOUS
  <2>1. ServerInv'
    BY NextOK
  <2>2. \A c \in Clients : silence'[c] <= Expiry => c \in DOMAIN endpoints'
    BY <2>1 DEF ServerInv, ClockOK
  <2>3. Tick => \A c \in DOMAIN endpoints' : silence[c] <= Expiry
    BY TickKeeps DEF ServerInv, ClockOK
  <2>. QED  BY <2>2, <2>3
<1>. QED  BY <1>1, ServerInvariant, PTL DEF Spec, EndpointsCurrent

----------------------------------------------------------------------------
(* What is shown of a chunk.  A coordinate c lies in the scaled cell number *)
(* c \div s, and a chunk's centre is the border before the cell number m.   *)

\* The scale is a positive integer, and half the extent one too: that they are
\* powers of two is not needed.
LEMMA ScaleType ==
  ASSUME NEW key \in ChunkKey
  PROVE  ScaleOf(key) \in Nat \ {0}
<1>1. MaxScale \in Nat \ {0}
  <2>1. 2^0 = 1 /\ 2^1 = 2 /\ 2^2 = 4 /\ 2^3 = 8 /\ 2^4 = 16 /\ 2^5 = 32 /\ 2^6 = 64
    OBVIOUS
  <2>2. \A i \in 0 .. 6 : i = 0 \/ i = 1 \/ i = 2 \/ i = 3 \/ i = 4 \/ i = 5 \/ i = 6
    OBVIOUS
  <2>3. MaxScale \in {2 ^ i : i \in 0 .. 6}
    BY CellsAssumption DEF Scales
  <2>. QED  BY <2>1, <2>2, <2>3
<1>2. 2 ^ key.msb \in Int
  <2>1. key.msb \in Nat
    BY DEF ChunkKey
  <2>. QED  BY <2>1
<1>. QED  BY <1>1, <1>2 DEF ScaleOf, Clamp

LEMMA HalfExtent ==
  \E h \in Nat \ {0} : Extent = 2 * h /\ Extent \div 2 = h
<1>1. 2^1 = 2 /\ 2^2 = 4 /\ 2^3 = 8 /\ 2^4 = 16 /\ 2^5 = 32
  OBVIOUS
<1>2. \A i \in 1 .. 5 : i = 1 \/ i = 2 \/ i = 3 \/ i = 4 \/ i = 5
  OBVIOUS
<1>3. Extent \in {2 ^ i : i \in 1 .. 5}
  BY CellsAssumption
<1>4. Extent \in {2, 4, 8, 16, 32}
  BY <1>1, <1>2, <1>3
<1>. QED  BY <1>4

\* Flooring: the scaled cell of a coordinate.
LEMMA CellOf ==
  ASSUME NEW c \in Int, NEW s \in Nat \ {0}
  PROVE  /\ c \div s \in Int
         /\ (c \div s) * s <= c /\ c < (c \div s) * s + s
OBVIOUS

LEMMA CellBefore ==
  ASSUME NEW c \in Int, NEW s \in Nat \ {0}, NEW n \in Int
  PROVE  (c \div s < n) <=> (c < n * s)
<1>. DEFINE q == c \div s
<1>1. q \in Int /\ q * s <= c /\ c < q * s + s
  BY CellOf
<1>. HIDE DEF q
<1>2. q < n => q * s + s <= n * s
  BY <1>1
<1>3. n <= q => n * s <= q * s
  BY <1>1
<1>4. n * s \in Int /\ q * s \in Int
  BY <1>1
<1>5. q < n <=> c < n * s
  BY <1>1, <1>2, <1>3, <1>4
<1>. QED  BY <1>5 DEF q

LEMMA WholeCells ==
  ASSUME NEW a \in Int, NEW m \in Int, NEW s \in Nat \ {0}
  PROVE  (a * s - m * s) \div s = a - m
<1>1. a * s - m * s = (a - m) * s
  OBVIOUS
<1>2. ((a - m) * s) \div s = a - m
  OBVIOUS
<1>. QED  BY <1>1, <1>2

\* The offset of a coordinate is the number of its scaled cell, counted from the
\* centre.
LEMMA OffsetIs ==
  ASSUME NEW c \in Int, NEW m \in Int, NEW s \in Nat \ {0}
  PROVE  Offset(c, m * s, s) = (c \div s) - m
<1>1. c \div s \in Int
  BY CellOf
<1>. QED  BY <1>1, WholeCells DEF Offset, Scaled

\* The numbers of the two cells before which a chunk's centre lies.
LEMMA ChunkIs ==
  ASSUME NEW key \in ChunkKey
  PROVE  \E mx, my \in Int, h \in Nat \ {0} :
            LET k == Chunk(key)
            IN  /\ k.scale \in Nat \ {0} /\ Half(k) = h * k.scale /\ Extent \div 2 = h
                /\ k.x = mx * k.scale /\ k.y = my * k.scale
<1>1. PICK h \in Nat \ {0} : Extent = 2 * h /\ Extent \div 2 = h
  BY HalfExtent
<1>2. ScaleOf(key) \in Nat \ {0}
  BY ScaleType
<1>. DEFINE mx == key.xcc * Extent
            my == key.ycc * Extent
<1>3. mx \in Int /\ my \in Int
  <2>1. key.xcc \in Nat /\ key.ycc \in Nat
    BY DEF ChunkKey
  <2>. QED  BY <1>1, <2>1
<1>. HIDE DEF mx, my
<1>4. Chunk(key) = [x |-> mx * ScaleOf(key), y |-> my * ScaleOf(key), scale |-> ScaleOf(key)]
  BY DEF Chunk, mx, my
<1>. QED  BY <1>1, <1>2, <1>3, <1>4 DEF Half

\* An answer about ports or cities: every offset is within half the extent, and
\* every place lies in the cell that an offset stands for.
PlacesShown(a) ==
    LET k == a.k
        at(o) == [x0 |-> k.x + o.x * k.scale, x1 |-> k.x + (o.x + 1) * k.scale,
                  y0 |-> k.y + o.y * k.scale, y1 |-> k.y + (o.y + 1) * k.scale]
    IN  /\ \A o \in a.places : {o.x, o.y} \subseteq (-(Extent \div 2)) .. (Extent \div 2)
        /\ \A p \in a.of : \E o \in a.places : Holds(at(o), p)

\* In one dimension: a place between the chunk's borders, and its offset.
LEMMA PlaceInLine ==
  ASSUME NEW c \in Int, NEW m \in Int, NEW s \in Nat \ {0}, NEW h \in Nat \ {0},
         m * s - h * s <= c, c <= m * s + h * s
  PROVE  /\ Offset(c, m * s, s) \in (-h) .. h
         /\ m * s + Offset(c, m * s, s) * s <= c
         /\ c < m * s + (Offset(c, m * s, s) + 1) * s
<1>. DEFINE q == c \div s
<1>1. Offset(c, m * s, s) = q - m
  BY OffsetIs
<1>2. q \in Int /\ q * s <= c /\ c < q * s + s
  BY CellOf
<1>3. ~(q < m - h)
  <2>1. q < m - h <=> c < (m - h) * s
    BY CellBefore
  <2>2. (m - h) * s = m * s - h * s /\ m * s - h * s \in Int
    OBVIOUS
  <2>. HIDE DEF q
  <2>. QED  BY <2>1, <2>2
<1>4. q < m + h + 1
  <2>1. q < m + h + 1 <=> c < (m + h + 1) * s
    BY CellBefore
  <2>2. (m + h + 1) * s = m * s + h * s + s /\ m * s + h * s \in Int
    OBVIOUS
  <2>. HIDE DEF q
  <2>. QED  BY <2>1, <2>2
<1>. HIDE DEF q
<1>5. m * s + (q - m) * s = q * s /\ m * s + (q - m + 1) * s = q * s + s
  BY <1>2
<1>. QED  BY <1>1, <1>2, <1>3, <1>4, <1>5

LEMMA CutIsPart ==
  ASSUME NEW S, NEW n, NEW T \in Cut(S, n)
  PROVE  T \subseteq S
BY DEF Cut, kSubset

LEMMA PlacesAreShown ==
  ASSUME NEW key \in ChunkKey, NEW at, DOMAIN at \subseteq Point,
         NEW a \in PlaceAnswers(Chunk(key), at)
  PROVE  PlacesShown(a)
<1>. DEFINE k == Chunk(key)
<1>1. PICK mx \in Int, my \in Int, h \in Nat \ {0} :
        /\ k.scale \in Nat \ {0} /\ Half(k) = h * k.scale /\ Extent \div 2 = h
        /\ k.x = mx * k.scale /\ k.y = my * k.scale
  BY ChunkIs
<1>. HIDE DEF k
<1>2. PICK S \in Cut(Near(k, at), MaxPlaces) :
        a = [k |-> k, of |-> S, places |-> {Place(p, k) : p \in S}]
  BY DEF PlaceAnswers, k
<1>3. a.k = k /\ a.of = S /\ a.places = {Place(p, k) : p \in S} /\ S \subseteq Near(k, at)
  BY <1>2, CutIsPart
<1>. DEFINE s == k.scale
<1>4. ASSUME NEW p \in S
      PROVE  /\ Place(p, k).x \in (-h) .. h /\ Place(p, k).y \in (-h) .. h
             /\ k.x + Place(p, k).x * s <= p.x /\ p.x < k.x + (Place(p, k).x + 1) * s
             /\ k.y + Place(p, k).y * s <= p.y /\ p.y < k.y + (Place(p, k).y + 1) * s
  <2>1. p.x \in Int /\ p.y \in Int
    BY <1>3 DEF Near, Point
  <2>2. /\ k.x - Half(k) <= p.x /\ p.x <= k.x + Half(k)
        /\ k.y - Half(k) <= p.y /\ p.y <= k.y + Half(k)
    BY <1>3 DEF Near, Touch, ChunkBox
  <2>3. Place(p, k).x = Offset(p.x, mx * s, s) /\ Place(p, k).y = Offset(p.y, my * s, s)
    BY <1>1 DEF Place
  <2>. HIDE DEF s
  <2>4. /\ s \in Nat \ {0} /\ k.x = mx * s /\ k.y = my * s
        /\ mx * s - h * s <= p.x /\ p.x <= mx * s + h * s
        /\ my * s - h * s <= p.y /\ p.y <= my * s + h * s
    BY <1>1, <2>2 DEF s
  <2>5. /\ Offset(p.x, mx * s, s) \in (-h) .. h
        /\ mx * s + Offset(p.x, mx * s, s) * s <= p.x
        /\ p.x < mx * s + (Offset(p.x, mx * s, s) + 1) * s
    BY <2>1, <2>4, PlaceInLine
  <2>6. /\ Offset(p.y, my * s, s) \in (-h) .. h
        /\ my * s + Offset(p.y, my * s, s) * s <= p.y
        /\ p.y < my * s + (Offset(p.y, my * s, s) + 1) * s
    BY <2>1, <2>4, PlaceInLine
  <2>. QED  BY <2>3, <2>4, <2>5, <2>6
<1>. DEFINE cell(o) == [x0 |-> k.x + o.x * k.scale, x1 |-> k.x + (o.x + 1) * k.scale,
                        y0 |-> k.y + o.y * k.scale, y1 |-> k.y + (o.y + 1) * k.scale]
<1>5. \A o \in a.places : {o.x, o.y} \subseteq (-(Extent \div 2)) .. (Extent \div 2)
  BY <1>1, <1>3, <1>4
<1>6. \A p \in a.of : \E o \in a.places : Holds(cell(o), p)
  <2>. SUFFICES ASSUME NEW p \in S  PROVE Place(p, k) \in a.places /\ Holds(cell(Place(p, k)), p)
    BY <1>3
  <2>. QED  BY <1>3, <1>4 DEF Holds
<1>. QED  BY <1>3, <1>5, <1>6 DEF PlacesShown

\* An answer about land: what is shown is land, and if nothing was cut, what is
\* land is shown.
LandShown(a) ==
    \A c \in ScaledCells :
        LET isLand == \E r \in Land : Holds(r, LastPixel(a.k, c))
        IN  /\ Shows(a, c) => isLand
            /\ isLand /\ Cardinality(LandNear(a.k)) <= MaxRects => Shows(a, c)

\* In one dimension: a border of a rectangle is at or before a cell of the chunk
\* if and only if it is at or before the cell's last pixel.
LEMMA BorderInLine ==
  ASSUME NEW v \in Int, NEW m \in Int, NEW s \in Nat \ {0}, NEW h \in Nat \ {0},
         NEW k, k.scale = s, Half(k) = h * s
  PROVE  /\ ClampedOffset(v, m * s, k) \in Int
         /\ \A c \in (-h) .. (h - 1) :
              (ClampedOffset(v, m * s, k) <= c) <=> (v <= m * s + (c + 1) * s - 1)
<1>. DEFINE q == v \div s
            d == q * s - m * s
<1>1. ClampedOffset(v, m * s, k) = Clamp(d, -(h * s), h * s) \div s
  BY DEF ClampedOffset, Scaled
<1>2. q \in Int
  BY CellOf
<1>3. \A n \in Int : q < n <=> v < n * s
  BY CellBefore
<1>. HIDE DEF q
<1>4. d = (q - m) * s /\ d \div s = q - m
  BY <1>2, WholeCells
<1>5. (-(h * s)) \div s = -h /\ (h * s) \div s = h
  <2>1. -(h * s) = (-h) * s
    OBVIOUS
  <2>2. ((-h) * s) \div s = -h /\ (h * s) \div s = h
    OBVIOUS
  <2>. QED  BY <2>1, <2>2
<1>6. /\ (d < -(h * s)) <=> (q - m < -h)
      /\ (d > h * s) <=> (q - m > h)
  <2>1. q - m < -h => (q - m) * s < (-h) * s
    BY <1>2
  <2>2. -h <= q - m => (-h) * s <= (q - m) * s
    BY <1>2
  <2>3. q - m > h => (q - m) * s > h * s
    BY <1>2
  <2>4. h >= q - m => h * s >= (q - m) * s
    BY <1>2
  <2>5. (-h) * s = -(h * s) /\ (q - m) * s \in Int /\ (-h) * s \in Int /\ h * s \in Int
    BY <1>2
  <2>. HIDE DEF d
  <2>. QED  BY <1>2, <1>4, <2>1, <2>2, <2>3, <2>4, <2>5
<1>. HIDE DEF d
\* the number of the border's scaled cell, kept between those of the chunk
<1>7. ClampedOffset(v, m * s, k) = Clamp(q - m, -h, h)
  BY <1>1, <1>4, <1>5, <1>6 DEF Clamp
<1>8. ASSUME NEW c \in (-h) .. (h - 1)
      PROVE  (Clamp(q - m, -h, h) <= c) <=> (v <= m * s + (c + 1) * s - 1)
  <2>1. PICK n \in Int : n = m + c + 1
    OBVIOUS
  <2>2. PICK end \in Int : end = n * s /\ end = m * s + (c + 1) * s
    BY <2>1
  <2>3. Clamp(q - m, -h, h) <= c <=> q < n
    BY <1>2, <2>1 DEF Clamp
  <2>4. q < n <=> v < end
    BY <1>3, <2>2
  <2>. QED  BY <2>2, <2>3, <2>4
<1>9. Clamp(q - m, -h, h) \in Int
  BY <1>2 DEF Clamp
<1>. QED  BY <1>7, <1>8, <1>9

\* An answer that is not full leaves nothing out.
LEMMA CutIsWhole ==
  ASSUME NEW S, IsFiniteSet(S), NEW n \in Nat, Cardinality(S) <= n, NEW T \in Cut(S, n)
  PROVE  T = S
<1>1. Cardinality(S) \in Nat
  BY FS_CardinalityType
<1>2. Min({Cardinality(S), n}) = Cardinality(S)
  <2>. DEFINE card == Cardinality(S)
  <2>. HIDE DEF card
  <2>1. card \in Nat /\ card <= n
    BY <1>1 DEF card
  <2>2. Min({card, n}) \in {card, n} /\ \A y \in {card, n} : Min({card, n}) <= y
    BY <2>1 DEF Min
  <2>. QED  BY <2>1, <2>2 DEF card
<1>3. T \subseteq S /\ Cardinality(T) = Cardinality(S)
  BY <1>2 DEF Cut, kSubset
<1>. QED  BY <1>3, FS_Subset

\* The last pixel of a cell, in one dimension, is within the chunk.
LEMMA PixelInLine ==
  ASSUME NEW x \in Int, NEW s \in Nat \ {0}, NEW h \in Nat \ {0}, NEW c \in (-h) .. (h - 1)
  PROVE  /\ x + (c + 1) * s - 1 \in Int
         /\ x - h * s <= x + (c + 1) * s - 1 /\ x + (c + 1) * s - 1 <= x + h * s
<1>1. (c + 1) * s <= h * s
  <2>1. h - (c + 1) \in Nat
    OBVIOUS
  <2>2. (h - (c + 1)) * s \in Nat
    BY <2>1
  <2>3. (h - (c + 1)) * s = h * s - (c + 1) * s
    OBVIOUS
  <2>. QED  BY <2>2, <2>3
<1>2. -(h * s) <= (c + 1) * s - 1
  <2>1. c + h \in Nat
    OBVIOUS
  <2>2. (c + h) * s \in Nat
    BY <2>1
  <2>3. (c + h) * s = (c + 1) * s + h * s - s
    OBVIOUS
  <2>. QED  BY <2>2, <2>3
<1>3. (c + 1) * s \in Int /\ h * s \in Int
  OBVIOUS
<1>. QED  BY <1>1, <1>2, <1>3

LEMMA LandIsShown ==
  ASSUME NEW key \in ChunkKey, NEW a \in LandAnswers(Chunk(key))
  PROVE  LandShown(a)
<1>. DEFINE k == Chunk(key)
<1>1. PICK mx \in Int, my \in Int, h \in Nat \ {0} :
        /\ k.scale \in Nat \ {0} /\ Half(k) = h * k.scale /\ Extent \div 2 = h
        /\ k.x = mx * k.scale /\ k.y = my * k.scale
  BY ChunkIs
<1>. HIDE DEF k
<1>2. PICK S \in Cut(LandNear(k), MaxRects) : a = [k |-> k, rects |-> {Shrunk(r, k) : r \in S}]
  BY DEF LandAnswers, k
<1>3. a.k = k /\ a.rects = {Shrunk(r, k) : r \in S} /\ S \subseteq LandNear(k)
  BY <1>2, CutIsPart
<1>. DEFINE s == k.scale
<1>4. s \in Nat \ {0} /\ Half(k) = h * s /\ k.x = mx * s /\ k.y = my * s
  BY <1>1
<1>5. \A v \in Int, m \in Int :
        /\ ClampedOffset(v, m * s, k) \in Int
        /\ \A c \in (-h) .. (h - 1) :
             (ClampedOffset(v, m * s, k) <= c) <=> (v <= m * s + (c + 1) * s - 1)
  <2>1. k.scale = s
    OBVIOUS
  <2>. HIDE DEF s
  <2>. QED  BY <1>4, <2>1, BorderInLine
<1>6. ASSUME NEW r \in Land, NEW c \in ScaledCells
      PROVE  /\ Holds(r, LastPixel(k, c)) <=> Holds(Shrunk(r, k), c)
             /\ Holds(r, LastPixel(k, c)) => r \in LandNear(k)
  <2>1. r.x0 \in Int /\ r.x1 \in Int /\ r.y0 \in Int /\ r.y1 \in Int
    BY CellsAssumption DEF Rectangle
  <2>2. c.x \in (-h) .. (h - 1) /\ c.y \in (-h) .. (h - 1)
    BY <1>1 DEF ScaledCells
  <2>. DEFINE lx == mx * s + (c.x + 1) * s - 1
              ly == my * s + (c.y + 1) * s - 1
  <2>3. LastPixel(k, c) = [x |-> lx, y |-> ly]
    BY <1>4 DEF LastPixel
  <2>4. /\ Shrunk(r, k).x0 \in Int /\ (Shrunk(r, k).x0 <= c.x <=> r.x0 <= lx)
        /\ Shrunk(r, k).x1 \in Int /\ (Shrunk(r, k).x1 <= c.x <=> r.x1 <= lx)
    <3>1. Shrunk(r, k).x0 = ClampedOffset(r.x0, mx * s, k) /\ Shrunk(r, k).x1 = ClampedOffset(r.x1, mx * s, k)
      BY <1>4 DEF Shrunk
    <3>. HIDE DEF s
    <3>2. ASSUME NEW v \in Int
          PROVE  /\ ClampedOffset(v, mx * s, k) \in Int
                 /\ ClampedOffset(v, mx * s, k) <= c.x <=> v <= lx
      BY <1>5, <2>2
    <3>. QED  BY <2>1, <3>1, <3>2
  <2>5. /\ Shrunk(r, k).y0 \in Int /\ (Shrunk(r, k).y0 <= c.y <=> r.y0 <= ly)
        /\ Shrunk(r, k).y1 \in Int /\ (Shrunk(r, k).y1 <= c.y <=> r.y1 <= ly)
    <3>1. Shrunk(r, k).y0 = ClampedOffset(r.y0, my * s, k) /\ Shrunk(r, k).y1 = ClampedOffset(r.y1, my * s, k)
      BY <1>4 DEF Shrunk
    <3>. HIDE DEF s
    <3>2. ASSUME NEW v \in Int
          PROVE  /\ ClampedOffset(v, my * s, k) \in Int
                 /\ ClampedOffset(v, my * s, k) <= c.y <=> v <= ly
      BY <1>5, <2>2
    <3>. QED  BY <2>1, <3>1, <3>2
  <2>6. /\ lx \in Int /\ k.x - Half(k) <= lx /\ lx <= k.x + Half(k)
        /\ ly \in Int /\ k.y - Half(k) <= ly /\ ly <= k.y + Half(k)
    <3>. HIDE DEF s
    <3>1. mx * s \in Int /\ my * s \in Int
      BY <1>4
    <3>. QED  BY <1>4, <2>2, <3>1, PixelInLine
  <2>7. k.x - Half(k) \in Int /\ k.x + Half(k) \in Int /\ k.y - Half(k) \in Int /\ k.y + Half(k) \in Int
    <3>1. Half(k) \in Int /\ k.x \in Int /\ k.y \in Int
      BY <1>4
    <3>. QED  BY <3>1
  <2>. HIDE DEF s, lx, ly
  <2>8. Holds(r, LastPixel(k, c)) <=> r.x0 <= lx /\ lx < r.x1 /\ r.y0 <= ly /\ ly < r.y1
    BY <2>3 DEF Holds
  <2>9. Holds(Shrunk(r, k), c) <=> r.x0 <= lx /\ lx < r.x1 /\ r.y0 <= ly /\ ly < r.y1
    BY <2>1, <2>2, <2>4, <2>5, <2>6 DEF Holds
  <2>10. ASSUME r.x0 <= lx, lx < r.x1, r.y0 <= ly, ly < r.y1  PROVE r \in LandNear(k)
    <3>1. Touch(r, ChunkBox(k))
      BY <2>1, <2>6, <2>7, <2>10 DEF Touch, ChunkBox
    <3>2. ~Degenerate(Shrunk(r, k))
      BY <2>1, <2>2, <2>4, <2>5, <2>6, <2>10 DEF Degenerate
    <3>. QED  BY <3>1, <3>2 DEF LandNear
  <2>. QED  BY <2>8, <2>9, <2>10
<1>7. Cardinality(LandNear(k)) <= MaxRects => S = LandNear(k)
  <2>1. IsFiniteSet(LandNear(k)) /\ MaxRects \in Nat
    BY CellsAssumption, FS_Subset DEF LandNear
  <2>. QED  BY <2>1, CutIsWhole
<1>8. ASSUME NEW c \in ScaledCells
      PROVE  Shows(a, c) <=> \E r \in S : Holds(Shrunk(r, k), c)
  BY <1>3 DEF Shows, Holds
<1>9. S \subseteq Land /\ LandNear(k) \subseteq Land
  BY <1>3 DEF LandNear
<1>. HIDE DEF s
<1>. QED  BY <1>3, <1>6, <1>7, <1>8, <1>9 DEF LandShown

----------------------------------------------------------------------------
(* Only such answers are sent: a call about a chunk is made while the buffer *)
(* holds the datagram with its key, and a send that waited has lost what it  *)
(* was about.                                                                *)
ChunkCalls == {"land", "ports", "cities"}

ShownOK ==
    /\ \A i \in DOMAIN todo : todo[i] \in ChunkCalls => buffer.req.chunk \in ChunkKey
    /\ \A d \in sent : /\ d.call = "land" => LandShown(d.answer)
                       /\ d.call \in {"ports", "cities"} => PlacesShown(d.answer)

LEMMA CallsOfChunk ==
  ASSUME NEW d \in Datagrams, NEW calls \in Calls(d.req)
  PROVE  \A i \in DOMAIN calls : calls[i] \in ChunkCalls => d.req.chunk \in ChunkKey
<1>1. CASE d.req.type = "chunk"
  <2>1. CASE server = "clients"
    <3>1. PICK c \in Clients : d \in [from : {c}, req : Requests[c]]
      BY <2>1 DEF Datagrams
    <3>. QED  BY <1>1, <3>1, ServerAssumption
  <2>2. CASE server # "clients"
    <3>1. d \in [from : {Web}, req : Commands]
      BY <2>2 DEF Datagrams
    <3>. QED  BY <1>1, <3>1, ServerAssumption
  <2>. QED  BY <2>1, <2>2
<1>2. CASE d.req.type = "ping"
  <2>1. calls = <<"ships", "area", "track", "register">> \/ calls = <<"ships", "area", "register">>
    BY <1>2, Zenon DEF Calls
  <2>. QED  BY <2>1 DEF ChunkCalls
<1>3. CASE d.req.type \notin {"chunk", "ping"}
  <2>1. calls \in {<<>>, <<"waypoints">>, <<"cell">>, <<"reply">>}
    BY <1>3 DEF Calls
  <2>. QED  BY <2>1 DEF ChunkCalls
<1>. QED  BY <1>1, <1>2, <1>3

\* A step that sends nothing about a chunk, and leaves what the calls read alone.
LEMMA NothingShown ==
  ASSUME ShownOK, todo' = <<>> \/ UNCHANGED <<todo, buffer>>,
         \A d \in sent' : d.call \in {"any", "gold"}
  PROVE  ShownOK'
BY DEF ShownOK

LEMMA InitShown == Init => ShownOK
BY DEF Init, ShownOK

LEMMA HandleShown == ServerInv /\ ShownOK /\ Handle => ShownOK'
<1>. SUFFICES ASSUME ServerInv, ShownOK, Handle  PROVE ShownOK'
  OBVIOUS
<1>1. buffer \in Datagrams /\ todo' \in Calls(buffer.req) /\ buffer' = buffer /\ sent' = {}
  BY DEF Handle, ServerInv, HandlerOK
<1>2. \A i \in DOMAIN todo' : todo'[i] \in ChunkCalls => buffer'.req.chunk \in ChunkKey
  BY <1>1, CallsOfChunk
<1>. QED  BY <1>1, <1>2 DEF ShownOK

\* The calls that are left are among those there were.
LEMMA RestShown ==
  ASSUME ServerInv, ShownOK, todo # <<>>, todo' = Tail(todo), buffer' = buffer
  PROVE  \A i \in DOMAIN todo' : todo'[i] \in ChunkCalls => buffer'.req.chunk \in ChunkKey
<1>1. todo \in Seq(CallNames)
  BY DEF ServerInv, TypeOK, CallNames
<1>2. \A i \in DOMAIN Tail(todo) : i + 1 \in DOMAIN todo /\ Tail(todo)[i] = todo[i + 1]
  <2>. HIDE DEF CallNames
  <2>. QED  BY <1>1
<1>. QED  BY <1>2 DEF ShownOK

LEMMA AnswerShown == ServerInv /\ ShownOK /\ Answer => ShownOK'
<1>. SUFFICES ASSUME ServerInv, ShownOK, Answer  PROVE ShownOK'
  OBVIOUS
<1>1. todo # <<>> /\ todo' = Tail(todo) /\ buffer' = buffer
  BY DEF Answer
<1>2. \A i \in DOMAIN todo' : todo'[i] \in ChunkCalls => buffer'.req.chunk \in ChunkKey
  BY <1>1, RestShown
<1>3. Head(todo) \in ChunkCalls => buffer.req.chunk \in ChunkKey
  <2>1. 1 \in DOMAIN todo /\ Head(todo) = todo[1]
    <3>1. todo \in Seq(CallNames)
      BY DEF ServerInv, TypeOK, CallNames
    <3>. HIDE DEF CallNames
    <3>. QED  BY <1>1, <3>1
  <2>. QED  BY <2>1 DEF ShownOK
<1>4. CASE sent' = {}
  BY <1>2, <1>4 DEF ShownOK
<1>5. ASSUME NEW a \in Answers(Head(todo), buffer.req),
             Send(<<[to |-> remote, asker |-> asked.from, call |-> Head(todo), answer |-> a]>>)
      PROVE  ShownOK'
  <2>. DEFINE d == [to |-> remote, asker |-> asked.from, call |-> Head(todo), answer |-> a]
  <2>1. sent' \subseteq {d}
    <3>. HIDE DEF d
    <3>1. Send(<<d>>)
      BY <1>5 DEF d
    <3>2. Len(<<d>>) = 1 /\ <<d>>[1] = d
      OBVIOUS
    <3>. QED  BY <3>1, <3>2 DEF Send
  <2>2. Head(todo) = "land" => LandShown(a)
    <3>1. Head(todo) = "land" => a \in LandAnswers(Chunk(buffer.req.chunk)) /\ buffer.req.chunk \in ChunkKey
      BY <1>3, <1>5 DEF Answers, ChunkCalls
    <3>. QED  BY <3>1, LandIsShown
  <2>3. Head(todo) \in {"ports", "cities"} => PlacesShown(a)
    <3>1. Head(todo) \in {"ports", "cities"} =>
            /\ buffer.req.chunk \in ChunkKey
            /\ \/ a \in PlaceAnswers(Chunk(buffer.req.chunk), PortAt)
               \/ a \in PlaceAnswers(Chunk(buffer.req.chunk), CityAt)
      BY <1>3, <1>5 DEF Answers, ChunkCalls
    <3>2. DOMAIN PortAt \subseteq Point /\ DOMAIN CityAt \subseteq Point
      BY CellsAssumption
    <3>. QED  BY <3>1, <3>2, PlacesAreShown
  <2>. QED  BY <1>2, <2>1, <2>2, <2>3 DEF ShownOK
<1>. QED  BY <1>4, <1>5 DEF Answer

LEMMA NotifyShown == ServerInv /\ ShownOK /\ Notify => ShownOK'
<1>. SUFFICES ASSUME ServerInv, ShownOK, Notify  PROVE ShownOK'
  OBVIOUS
<1>. DEFINE known == DOMAIN endpoints
            gold(c) == [to |-> c, asker |-> c, call |-> "gold", answer |-> None]
            ds == [i \in 1 .. Cardinality(known) |-> gold(SetToSeq(known)[i])]
<1>1. Send(ds) /\ UNCHANGED <<todo, buffer>>
  BY DEF Notify, loop
<1>2. Len(ds) = Cardinality(known) /\ Cardinality(known) \in Nat
  <2>1. IsFiniteSet(known)
    BY ClockArithmetic, FS_Subset DEF ServerInv, TypeOK
  <2>2. Cardinality(known) \in Nat
    BY <2>1, FS_CardinalityType
  <2>. QED  BY <2>2
<1>3. \A i \in 1 .. Len(ds) : ds[i].call = "gold"
  BY <1>2
<1>. HIDE DEF ds
<1>4. \A d \in sent' : d.call = "gold"
  BY <1>1, <1>2, <1>3 DEF Send
<1>. QED  BY <1>1, <1>4, NothingShown

LEMMA NextShown == ServerInv /\ ShownOK /\ [Next]_vars => ShownOK'
<1>. SUFFICES ASSUME ServerInv, ShownOK, [Next]_vars  PROVE ShownOK'
  OBVIOUS
<1>1. CASE Start \/ UNCHANGED vars
  BY <1>1 DEF Start, vars, loop, ShownOK
<1>2. CASE Crash \/ Throw
  BY <1>2, NothingShown DEF Crash, Throw, End
<1>3. CASE (\E d \in Datagrams : Arrive(d)) \/ ReceiveError \/ HandleError \/ Wait \/ Tick
  BY <1>3, NothingShown DEF Arrive, ReceiveError, HandleError, Wait, Tick, loop
<1>4. CASE Receive
  <2>1. todo' = <<>> /\ sent' = {}
    BY <1>4 DEF Receive, ServerInv, HandlerOK
  <2>. QED  BY <2>1, NothingShown
<1>5. CASE Rearm
  BY <1>5, NothingShown DEF Rearm
<1>6. CASE SendWaiting
  <2>1. Head(unsent) \in Homeward /\ sent' = {Head(unsent)} /\ UNCHANGED <<todo, buffer>>
    BY <1>6 DEF SendWaiting, loop, ServerInv, SendsOK
  <2>2. \A d \in Homeward : d.call = "any"
    BY DEF Homeward
  <2>. QED  BY <2>1, <2>2, NothingShown
<1>7. CASE Handle
  BY <1>7, HandleShown
<1>8. CASE Answer
  BY <1>8, AnswerShown
<1>9. CASE Register
  <2>1. todo # <<>> /\ todo' = Tail(todo) /\ buffer' = buffer /\ sent' = {}
    BY <1>9 DEF Register
  <2>. QED  BY <2>1, RestShown DEF ShownOK
<1>10. CASE Notify
  BY <1>10, NotifyShown
<1>. QED  BY <1>1, <1>2, <1>3, <1>4, <1>5, <1>6, <1>7, <1>8, <1>9, <1>10 DEF Next, Continue

THEOREM ShownInvariant == Spec => [](ServerInv /\ ShownOK)
<1>1. ServerInv /\ ShownOK /\ [Next]_vars => ServerInv' /\ ShownOK'
  BY NextOK, NextShown
<1>. QED  BY <1>1, InitOK, InitShown, PTL DEF Spec

\* The land of a chunk is shown alike at every scale, for any land, chunk, scale
\* and extent: a scaled cell is land exactly if its last pixel is
\* (send_land_cell_aligned, whose flooring and clamping could each move a border).
THEOREM LandLooksAlike == Spec => []LandAsLastPixel
<1>1. ShownOK => LandAsLastPixel
  BY DEF ShownOK, LandShown, LandAsLastPixel
<1>. QED  BY <1>1, ShownInvariant, PTL

\* The byte that holds the offset of a port or city never overflows, though only
\* the offsets of land are clamped (aligned_scaled_offset), and stands for the
\* cell that the place is in.
THEOREM PlacesAlwaysFit == Spec => []PlacesFit
<1>1. ShownOK => PlacesFit
  BY DEF ShownOK, PlacesShown, PlacesFit
<1>. QED  BY <1>1, ShownInvariant, PTL
=============================================================================
