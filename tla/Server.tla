------------------------------- MODULE Server -------------------------------
(***************************************************************************)
(* The two UDP servers of the process (udp_server.cpp, for the clients,    *)
(* and udp_admin_server.cpp, for the web server): a loop that receives     *)
(* into one buffer and one remote endpoint, handles what was received,     *)
(* answers to that endpoint and receives again; the endpoints that are     *)
(* told of gold, and their expiry.                                         *)
(*                                                                         *)
(* A behaviour is one of either server: they share the thread and nothing  *)
(* that is modelled here (what the commands do is in Voyage, Seaport and   *)
(* Sea, and which chunks are newer in ChunkCache).  boost::asio and the    *)
(* kernel are modelled as the code uses them: a receive that is armed may  *)
(* take the next datagram at once, while the handler still runs; a send is *)
(* performed at once, or waits in a queue that keeps its destination but   *)
(* only a pointer to its bytes, which were on the handler's stack.         *)
(***************************************************************************)
EXTENDS Cells, SequencesExt

CONSTANTS
    Clients,        \* the endpoints of the clients
    Web,            \* the endpoint of the web server
    Requests,       \* what each client may ask for
    Commands,       \* what the web server may command
    Expiry,         \* the age at which an endpoint is still kept (3 s)
    Surveyed,       \* maps of areas and points of them, besides those of Requests
    MaxQueue,       \* bound of the model: datagrams that the kernel holds
    MaxUnsent       \* bound of the model: sends that wait when a handler starts

ASSUME ServerAssumption ==
    /\ Web \notin Clients /\ IsFiniteSet(Clients)
    /\ Expiry \in Nat /\ MaxQueue \in Nat \ {0}
    /\ MaxUnsent \in Nat
    /\ \A r \in Commands : r.type \notin {"ping", "chunk"}
    /\ \A c \in Clients : \A r \in Requests[c] : r.type = "chunk" => r.chunk \in ChunkKey

VARIABLES
    server,         \* which of the two servers it is
    up,             \* the process runs
    inbox,          \* the datagrams that the kernel holds for its socket
    receiving,      \* the state of the receive operation
    remote,         \* remote_endpoint_
    buffer,         \* recv_buffer_
    asked,          \* the datagram whose handler runs, or none
    todo,           \* the calls that the handler has still to make
    unsent,         \* the sends that wait
    sent,           \* the datagrams that the last step sent
    endpoints,      \* client_endpoints_: the age of each entry
    silence         \* how long ago the server handled the last ping of each client

loop == <<inbox, receiving, remote, buffer, asked, todo>>
clock == <<endpoints, silence>>
vars == <<server, up, loop, unsent, sent, clock>>

None == [from |-> "nobody"]
Datagrams == IF server = "clients" THEN UNION {[from : {c}, req : Requests[c]] : c \in Clients}
                                   ELSE [from : {Web}, req : Commands]

TooOld == Expiry + 1

NeverPinged == [c \in Clients |-> TooOld]

Init ==
    /\ server \in {"clients", "admin"} /\ up = FALSE
    /\ inbox = <<>> /\ receiving = "idle"
    /\ remote = Web /\ buffer = None /\ asked = None /\ todo = <<>>
    /\ unsent = <<>> /\ sent = {}
    /\ endpoints = <<>> /\ silence = NeverPinged

\* the constructor arms the first receive
Start ==
    /\ ~up
    /\ up' = TRUE
    /\ receiving' = "armed"
    /\ UNCHANGED <<server, inbox, remote, buffer, asked, todo, unsent, sent, clock>>

\* the process ends; its sockets and all it knew go with it
End ==
    /\ up' = FALSE
    /\ inbox' = <<>> /\ receiving' = "idle"
    /\ remote' = Web /\ buffer' = None /\ asked' = None /\ todo' = <<>>
    /\ unsent' = <<>> /\ sent' = {}
    /\ endpoints' = <<>> /\ silence' = NeverPinged
    /\ UNCHANGED server

Crash == up /\ End

----------------------------------------------------------------------------
(* Kernel and boost::asio. *)

Idle == up /\ asked = None

\* a datagram arrives; what has no place, or is lost on the way, is no step
Arrive(d) ==
    /\ up /\ Len(inbox) < MaxQueue
    /\ inbox' = Append(inbox, d)
    /\ sent' = {}
    /\ UNCHANGED <<server, up, receiving, remote, buffer, asked, todo, unsent, clock>>

\* the operation takes the next datagram, and its handler is due
Receive ==
    /\ up /\ receiving = "armed" /\ inbox # <<>>
    /\ receiving' = "ready"
    /\ remote' = Head(inbox).from /\ buffer' = Head(inbox)
    /\ inbox' = Tail(inbox)
    /\ sent' = {}
    /\ UNCHANGED <<server, up, asked, todo, unsent, clock>>

\* the operation ends with an error other than message_size
ReceiveError ==
    /\ up /\ receiving = "armed"
    /\ receiving' = "failed"
    /\ sent' = {}
    /\ UNCHANGED <<server, up, inbox, remote, buffer, asked, todo, unsent, clock>>

\* a send that waits keeps its destination; its bytes may be whatever the stack
\* holds by then
Stale(d) == [to |-> d.to, asker |-> d.asker, call |-> "any", answer |-> None]

\* async_send_to of these datagrams one after another: some are performed at
\* once, from the first that has to wait on all wait
Send(ds) ==
    \E n \in 0 .. Len(ds) :
        /\ unsent # <<>> => n = 0
        /\ sent' = {ds[i] : i \in 1 .. n}
        /\ unsent' = unsent \o [i \in 1 .. (Len(ds) - n) |-> Stale(ds[n + i])]

\* a send that waited is performed, between two handlers
SendWaiting ==
    /\ Idle /\ unsent # <<>>
    /\ sent' = {Head(unsent)}
    /\ unsent' = Tail(unsent)
    /\ UNCHANGED <<server, up, loop, clock>>

----------------------------------------------------------------------------
(* handle_receive. *)

\* the calls for each type of datagram; the ports and the cities of a chunk are
\* sent if they are newer than what the client has
Calls(req) ==
    CASE req.type = "ping" /\ (req.id # 0 \/ req.key # 0) -> {<<"ships", "area", "track", "register">>}
      [] req.type = "ping" /\ req.id = 0 /\ req.key = 0 -> {<<"ships", "area", "register">>}
      [] req.type = "waypoints" -> {<<"waypoints">>}
      [] req.type = "chunk" /\ req.object = 1 -> {<<"land">>}
      [] req.type = "chunk" /\ req.object = 2 -> {<<"ports">>, <<>>}
      [] req.type = "chunk" /\ req.object = 3 -> {<<"cities">>, <<>>}
      [] req.type = "cell" -> {<<"cell">>}
      [] req.type \in {"spawn ship", "spawn port"} -> {<<"reply">>}
      [] OTHER -> {<<>>}

Answers(call, req) ==
    CASE call = "ships" -> ShipAnswers(req.at, req.ex)
      [] call = "area" -> AreaAnswers(req.at)
      [] call = "track" -> Tracked(req.id, req.key)
      [] call = "waypoints" -> WaypointAnswers(req.key)
      [] call = "land" -> LandAnswers(Chunk(req.chunk))
      [] call = "ports" -> PlaceAnswers(Chunk(req.chunk), PortAt)
      [] call = "cities" -> {a \in PlaceAnswers(Chunk(req.chunk), CityAt) : Tellable(a)}
      [] call = "cell" -> CellAnswers(req.at)
      [] call = "reply" -> {[to |-> req]}

\* what may not fit in its buffer when it is compressed, and is not sent then
MayNotFit == {"ships", "land", "waypoints"}

\* Mutant: the next receive is armed before the datagram is handled.
Handle_Armed ==
    /\ Idle /\ receiving = "ready" /\ Len(unsent) <= MaxUnsent
    /\ asked' = buffer
    /\ todo' \in Calls(buffer.req)
    /\ receiving' = "armed"
    /\ sent' = {}
    /\ UNCHANGED <<server, up, inbox, remote, buffer, unsent, clock>>

Handle ==
    /\ Idle /\ receiving = "ready" /\ Len(unsent) <= MaxUnsent
    /\ asked' = buffer
    /\ todo' \in Calls(buffer.req)
    /\ receiving' = "idle"
    /\ sent' = {}
    /\ UNCHANGED <<server, up, inbox, remote, buffer, unsent, clock>>

\* Mutant: no server receives again after an error.
HandleError_Deaf ==
    /\ Idle /\ receiving = "failed"
    /\ receiving' = "idle"
    /\ sent' = {}
    /\ UNCHANGED <<server, up, inbox, remote, buffer, asked, todo, unsent, clock>>

\* The server for the clients receives again; the one for the web server does
\* so only in the branch without an error.
HandleError ==
    /\ Idle /\ receiving = "failed"
    /\ receiving' = IF server = "clients" THEN "armed" ELSE "idle"
    /\ sent' = {}
    /\ UNCHANGED <<server, up, inbox, remote, buffer, asked, todo, unsent, clock>>

\* the next call makes an answer from the buffer and sends it to the remote
\* endpoint, or there is none
Answer ==
    /\ todo # <<>> /\ Head(todo) # "register"
    /\ todo' = Tail(todo)
    /\ LET answers == Answers(Head(todo), buffer.req)
       IN  \/ \E a \in answers :
                Send(<<[to |-> remote, asker |-> asked.from, call |-> Head(todo), answer |-> a]>>)
           \/ /\ (answers = {} /\ Head(todo) # "cities") \/ Head(todo) \in MayNotFit
              /\ sent' = {} /\ UNCHANGED unsent
    /\ UNCHANGED <<server, up, inbox, receiving, remote, buffer, asked, clock>>

\* A city that cannot be told is among those of the answer: the exception leaves
\* io_service::run, and main returns.
Throw ==
    /\ todo # <<>> /\ Head(todo) = "cities"
    /\ \E a \in PlaceAnswers(Chunk(buffer.req.chunk), CityAt) : ~Tellable(a)
    /\ End

With(f, c, age) == [d \in DOMAIN f \cup {c} |-> IF d = c THEN age ELSE f[d]]

\* Mutant: an endpoint that is known keeps its time.
Register_Once ==
    /\ todo # <<>> /\ Head(todo) = "register"
    /\ todo' = Tail(todo)
    /\ endpoints' = IF remote \in DOMAIN endpoints THEN endpoints ELSE With(endpoints, remote, 0)
    /\ silence' = [silence EXCEPT ![asked.from] = 0]
    /\ sent' = {}
    /\ UNCHANGED <<server, up, inbox, receiving, remote, buffer, asked, unsent>>

Register ==
    /\ todo # <<>> /\ Head(todo) = "register"
    /\ todo' = Tail(todo)
    /\ endpoints' = With(endpoints, remote, 0)
    /\ silence' = [silence EXCEPT ![asked.from] = 0]
    /\ sent' = {}
    /\ UNCHANGED <<server, up, inbox, receiving, remote, buffer, asked, unsent>>

\* start_receive at the end of the handler, which gives the buffer and the
\* endpoint to the operation
Rearm ==
    /\ up /\ asked # None /\ todo = <<>>
    /\ asked' = None
    /\ receiving' = "armed" /\ remote' = Web /\ buffer' = None
    /\ sent' = {}
    /\ UNCHANGED <<server, up, inbox, todo, unsent, clock>>

----------------------------------------------------------------------------
(* The endpoints of the clients. *)

\* time passes between two handlers
Wait ==
    /\ Idle
    /\ LET older(f) == [c \in DOMAIN f |-> IF f[c] < TooOld THEN f[c] + 1 ELSE TooOld]
       IN  endpoints' = older(endpoints) /\ silence' = older(silence)
    /\ sent' = {}
    /\ UNCHANGED <<server, up, loop, unsent>>

\* the end of a tick (remove_expired_endpoints)
Tick ==
    /\ Idle /\ server = "clients"
    /\ endpoints' = [c \in {c \in DOMAIN endpoints : endpoints[c] <= Expiry} |-> endpoints[c]]
    /\ sent' = {}
    /\ UNCHANGED <<server, up, loop, unsent, silence>>

\* notify_to_client_gold_earned, when a ship has unloaded
Notify ==
    /\ Idle /\ server = "clients" /\ Len(unsent) <= MaxUnsent
    /\ Send([i \in 1 .. Cardinality(DOMAIN endpoints) |->
                LET c == SetToSeq(DOMAIN endpoints)[i]
                IN  [to |-> c, asker |-> c, call |-> "gold", answer |-> None]])
    /\ UNCHANGED <<server, up, loop, clock>>

\* the rest of a handler that has begun
Continue == Answer \/ Throw \/ Register \/ Rearm

Next ==
    \/ Start \/ Crash
    \/ \E d \in Datagrams : Arrive(d)
    \/ Receive \/ ReceiveError \/ SendWaiting
    \/ Handle \/ HandleError \/ Continue
    \/ Wait \/ Tick \/ Notify

\* A handler that is due runs, and a send that waits is performed.  Errors do
\* not keep an armed receive from its datagrams for ever, nor the sends of other
\* handlers, which only the model's bound puts before it, a due one.
Fairness ==
    /\ SF_vars(Receive) /\ SF_vars(Handle)
    /\ WF_vars(HandleError) /\ WF_vars(Continue) /\ WF_vars(SendWaiting)

Spec == Init /\ [][Next]_vars /\ Fairness

----------------------------------------------------------------------------
(* Properties. *)

Waiting == ToSet(unsent)

\* Every answer that is sent, or waits to be, goes to the endpoint whose datagram
\* it answers, although the handler reads both from members of the server that
\* the next receive overwrites, and sends after others that wait.
AnswersGoHome == \A d \in sent \cup Waiting : d.to = d.asker

\* A client whose last ping is young enough is never dropped, however the expiry
\* and its pings interleave, and after a tick no other client is told of gold.
EndpointsCurrent ==
    [][/\ \A c \in Clients : silence'[c] <= Expiry => c \in DOMAIN endpoints'
       /\ Tick => \A c \in DOMAIN endpoints' : silence[c] <= Expiry]_vars

PendingFrom(c) ==
    \/ \E d \in ToSet(inbox) : d.from = c
    \/ receiving = "ready" /\ buffer.from = c

\* no handler runs and no receive is armed: nothing is handled any more
Deaf == server = "admin" /\ asked = None /\ receiving = "idle"

\* A datagram that reached the socket is handled, unless the process ends or, for
\* the web server only, a receive failed before it.
Served ==
    \A c \in Clients \cup {Web} :
        PendingFrom(c) ~> (asked.from = c \/ ~up \/ Deaf)

Shows(a, c) == \E r \in a.rects : r.x0 <= c.x /\ c.x < r.x1 /\ r.y0 <= c.y /\ c.y < r.y1

ScaledCells == LET h == Extent \div 2 IN [x : (-h) .. (h - 1), y : (-h) .. (h - 1)]

\* the last pixel that a scaled cell of a chunk stands for
LastPixel(k, c) ==
    [x |-> k.x + (c.x + 1) * k.scale - 1, y |-> k.y + (c.y + 1) * k.scale - 1]

\* The land of a chunk is the same whatever scale it is asked for at: a scaled
\* cell is shown as land if and only if its last pixel is land, except that an
\* answer with too many rectangles may miss some.
LandAsLastPixel ==
    \A d \in sent : d.call = "land" =>
        \A c \in ScaledCells :
            LET isLand == \E r \in Land : Holds(r, LastPixel(d.answer.k, c))
            IN  /\ Shows(d.answer, c) => isLand
                /\ isLand /\ Cardinality(LandNear(d.answer.k)) <= MaxRects => Shows(d.answer, c)

\* The offset of a port or city is that of the scaled cell around it, and never
\* beyond the chunk's border: the conversion to a byte, whose positive overflow
\* nobody would catch, does not fail.
PlacesFit ==
    \A d \in sent : d.call \in {"ports", "cities"} =>
        LET k == d.answer.k
            at(o) == [x0 |-> k.x + o.x * k.scale, x1 |-> k.x + (o.x + 1) * k.scale,
                      y0 |-> k.y + o.y * k.scale, y1 |-> k.y + (o.y + 1) * k.scale]
        IN  /\ \A o \in d.answer.places : {o.x, o.y} \subseteq (-(Extent \div 2)) .. (Extent \div 2)
            /\ \A p \in d.answer.of : \E o \in d.answer.places : Holds(at(o), p)

\* the point is on no border of the box of an area
OffBoxes(layer, p) ==
    \A a \in layer :
        LET corners == UNION {ToSet(a.rings[i]) : i \in DOMAIN a.rings}
        IN  /\ \E b, c \in corners : b.x <= p.x /\ p.x <= c.x
            /\ \E b, c \in corners : b.y <= p.y /\ p.y <= c.y
            => InBox(a, p)

\* Where the areas of a layer cover its boxes without a gap: no point is certainly
\* in two, every point may be in one, and one that no edge is too close to for
\* the rounding is certainly in one.
Tiled(layer, p) ==
    LET open == {a \in layer : InBox(a, p) /\ ContainsPoint(a, p) = BOOLEAN}
    IN  OffBoxes(layer, p) /\ (\E a \in layer : InBox(a, p)) =>
            /\ Cardinality(Claims(layer, p)) <= 1
            /\ MayClaim(layer, p) # {}
            /\ open = {} => Claims(layer, p) # {}

SurveyTiled == \A s \in Surveyed : Tiled(s[1], s[2])

\* A point has one name, also on an upright border that two areas share, level
\* with a corner, or in a hole that a third area fills: no step of the crossing
\* count (seaarea.cpp:15-17) counts a corner twice or not at all.  Only a point
\* that is as close to a slanted border as the quotient is rounded may be in none
\* of the areas along it, or in several, and may have no name; it is certainly in
\* no area besides one of them.
OneArea ==
    /\ SurveyTiled
    /\ \A d \in sent : d.call = "area" =>
            LET p == d.answer.at
                last == Layers[Len(Layers)]
                open == {a \in last : ContainsPoint(a, p) = BOOLEAN}
            IN  /\ Tiled(last, p)
                /\ OffBoxes(last, p) /\ (\E a \in last : InBox(a, p)) /\ open = {} =>
                      d.answer.name # NoName

\* Every variable has its type.
TypeOK ==
    /\ server \in {"clients", "admin"} /\ up \in BOOLEAN
    /\ inbox \in Seq(Datagrams) /\ Len(inbox) <= MaxQueue
    /\ receiving \in {"idle", "armed", "ready", "failed"}
    /\ remote \in Clients \cup {Web}
    /\ {buffer, asked} \subseteq Datagrams \cup {None}
    /\ todo \in Seq({"ships", "area", "track", "register", "waypoints", "land",
                     "ports", "cities", "cell", "reply"})
    /\ DOMAIN endpoints \subseteq Clients
    /\ \A c \in DOMAIN endpoints : endpoints[c] \in 0 .. TooOld
    /\ silence \in [Clients -> 0 .. TooOld]
=============================================================================
