---------------------------- MODULE WebSocketHub ----------------------------
(***************************************************************************)
(* Real-time delivery: the in-process event bus (shared/events/inprocess.go*)
(* ), the event bridge that routes its events to rooms (event_bridge.go),  *)
(* the hub with its registry and rooms (hub.go), and the two pumps of every*)
(* connection (client.go, session.go), started by the Connect handler.     *)
(*                                                                         *)
(* Every operation of the hub runs under its lock and is one step; what an *)
(* actor does between two of them is several.  A connection has two client *)
(* objects: the one Register makes, which knows its rooms, and the one     *)
(* Session.Start makes for the pumps, which knows none.  They share the    *)
(* identifier and the send channel, and each would close the channel.      *)
(*                                                                         *)
(* A send on a closed channel panics.  In the goroutine of the dispatcher  *)
(* or of a reader nothing recovers: the process dies and starts again with *)
(* an empty hub and an empty bus.  In the Connect handler net/http does.   *)
(***************************************************************************)
EXTENDS Naturals, Sequences, FiniteSets

CONSTANTS Conns, Apps, Orgs, Channels,
          Default,         \* the channel "events", subscribed on connect
          AppOf,           \* the app of a connection, which Connect has validated
          OrgOf,           \* the organization of an app
          MaxConnections,
          Buffer,          \* capacity of a send channel
          QueueSize,       \* capacity of the bus
          Events,          \* how many events the platform publishes
          EventApp,        \* the app of the n-th event, NoApp if it is its organization's
          EventOrg,
          EventChannel,    \* the channel of its topic
          Lookups,         \* events whose organization the bridge must look up
          NoApp,
          MayClose         \* whether somebody closes the hub (cmd/server does not)

EventIds == 1 .. Events

ASSUME TenancyAssumption ==
  /\ AppOf \in [Conns -> Apps] /\ OrgOf \in [Apps -> Orgs]
  /\ NoApp \notin Apps
  /\ Default \in Channels
ASSUME CapacityAssumption ==
  /\ IsFiniteSet(Conns)
  /\ MaxConnections \in Nat /\ Buffer \in Nat /\ QueueSize \in Nat
ASSUME EventAssumption ==
  /\ Events \in Nat
  /\ EventApp \in [EventIds -> Apps \union {NoApp}]
  /\ EventOrg \in [EventIds -> Orgs]
  /\ EventChannel \in [EventIds -> Channels]
  /\ \A e \in EventIds : EventApp[e] # NoApp => EventOrg[e] = OrgOf[EventApp[e]]
  /\ Lookups \subseteq EventIds
ASSUME CloseAssumption == MayClose \in BOOLEAN

VARIABLES
  clients,    \* hub: registered connections
  rooms,      \* hub: members of each room
  subs,       \* channels the hub's own client object knows of
  hubClosed,
  buf,        \* what is in the send channel of a connection
  closings,   \* how often that channel was closed; twice would panic
  linked,     \* connections whose socket is open
  writing,    \* connections whose writePump runs
  welcoming,  \* connections whose Connect handler has its welcome to send
  reader,     \* where the readPump of a connection is
  queue,      \* the bus
  published,  \* how many events have been published
  current,    \* the event the dispatcher is delivering
  todo,       \* the channels it has left for it
  last,       \* the last event a running writePump has taken
  panicked    \* the process has died of a send on a closed channel

hubVars  == <<clients, rooms, subs, hubClosed>>
sendVars == <<buf, closings>>
connVars == <<linked, writing, welcoming, reader>>
busVars  == <<queue, published, current, todo>>
vars == <<hubVars, sendVars, connVars, busVars, last, panicked>>

----------------------------------------------------------------------------
\* A room is scoped by organization, app and channel; the app has one organization.
Rooms    == Apps \X Channels
RoomOf(c, ch) == <<AppOf[c], ch>>
Control  == 0  \* a pong, a subscribed or an error message
Messages == {Control} \union EventIds

TypeOK ==
  /\ clients \subseteq Conns
  /\ rooms \in [Rooms -> SUBSET Conns]
  /\ subs \in [Conns -> SUBSET Channels]
  /\ hubClosed \in BOOLEAN
  /\ buf \in [Conns -> Seq(Messages)]
  /\ \A c \in Conns : Len(buf[c]) <= Buffer
  /\ closings \in [Conns -> Nat]
  /\ linked \subseteq Conns /\ writing \subseteq Conns /\ welcoming \subseteq Conns
  /\ reader \in [Conns -> {"idle", "reading", "replying", "leaving", "gone"}]
  /\ queue \in Seq(EventIds) /\ Len(queue) <= QueueSize
  /\ published \in 0 .. Events
  /\ current \in Messages
  /\ todo \in Seq(Channels)
  /\ last \in [Conns -> Messages]
  /\ panicked \in BOOLEAN

Init ==
  /\ clients = {}
  /\ rooms = [k \in Rooms |-> {}]
  /\ subs = [c \in Conns |-> {}]
  /\ hubClosed = FALSE
  /\ buf = [c \in Conns |-> <<>>]
  /\ closings = [c \in Conns |-> 0]
  /\ linked = {} /\ writing = {} /\ welcoming = {}
  /\ reader = [c \in Conns |-> "idle"]
  /\ queue = <<>>
  /\ published = 0
  /\ current = Control
  /\ todo = <<>>
  /\ last = [c \in Conns |-> Control]
  /\ panicked = FALSE

Goto(c, from, to) == reader[c] = from /\ reader' = [reader EXCEPT ![c] = to]

\* Mutant: a full channel takes one more.
OfferUnbounded(C, m) ==
  buf' = [c \in Conns |-> IF c \in C THEN Append(buf[c], m) ELSE buf[c]]

\* select { case send <- m: default: }: a full channel drops the message.
Offer(C, m) ==
  buf' = [c \in Conns |-> IF c \in C /\ Len(buf[c]) < Buffer
                          THEN Append(buf[c], m) ELSE buf[c]]

\* The process dies and starts again; clients may connect anew (as other
\* connections), events that were on the bus are gone.
Die ==
  /\ panicked' = TRUE
  /\ clients' = {}
  /\ rooms' = [k \in Rooms |-> {}]
  /\ subs' = [c \in Conns |-> {}]
  /\ hubClosed' = FALSE
  /\ buf' = [c \in Conns |-> <<>>]
  /\ closings' = [c \in Conns |-> 0]
  /\ linked' = {} /\ writing' = {} /\ welcoming' = {}
  /\ reader' = [c \in Conns |-> IF reader[c] = "idle" THEN "idle" ELSE "gone"]
  /\ queue' = <<>>
  /\ todo' = <<>>
  /\ last' = [c \in Conns |-> Control]
  /\ UNCHANGED <<published, current>>

----------------------------------------------------------------------------
(***************************************************************************)
(* Connect: Register, Session.Start, and the welcome, which is sent to the *)
(* channel directly.                                                       *)
(***************************************************************************)
StartPumps(c) ==
  /\ Goto(c, "idle", "reading")
  /\ linked' = linked \union {c}
  /\ writing' = writing \union {c}
  /\ welcoming' = welcoming \union {c}
  /\ UNCHANGED <<buf, busVars, last, panicked>>

\* Mutant: one connection too many.
RegisterPastLimit(c) ==
  /\ ~hubClosed
  /\ Cardinality(clients) <= MaxConnections
  /\ clients' = clients \union {c}
  /\ rooms' = [rooms EXCEPT ![RoomOf(c, Default)] = @ \union {c}]
  /\ subs' = [subs EXCEPT ![c] = {Default}]
  /\ UNCHANGED <<hubClosed, closings>>
  /\ StartPumps(c)

Register(c) ==
  /\ ~hubClosed
  /\ Cardinality(clients) < MaxConnections
  /\ clients' = clients \union {c}
  /\ rooms' = [rooms EXCEPT ![RoomOf(c, Default)] = @ \union {c}]
  /\ subs' = [subs EXCEPT ![c] = {Default}]
  /\ UNCHANGED <<hubClosed, closings>>
  /\ StartPumps(c)

\* At the limit the channel is closed, which makes writePump close the socket.
RegisterFull(c) ==
  /\ ~hubClosed
  /\ Cardinality(clients) >= MaxConnections
  /\ closings' = [closings EXCEPT ![c] = @ + 1]
  /\ UNCHANGED hubVars
  /\ StartPumps(c)

\* A closed hub registers nobody and leaves the channel open.
RegisterClosed(c) ==
  /\ hubClosed
  /\ UNCHANGED <<hubVars, closings>>
  /\ StartPumps(c)

\* On a closed channel the handler panics, and net/http recovers.
SendWelcome(c) ==
  /\ c \in welcoming
  /\ welcoming' = welcoming \ {c}
  /\ Offer({d \in {c} : closings[d] = 0}, Control)
  /\ UNCHANGED <<hubVars, closings, linked, writing, reader, busVars, last, panicked>>

----------------------------------------------------------------------------
(***************************************************************************)
(* readPump and handleClientAction.                                        *)
(***************************************************************************)
\* A subscribe; the answer is sent in a lock section of its own.
Subscribe(c, ch) ==
  /\ c \in linked
  /\ Goto(c, "reading", "replying")
  /\ IF c \in clients
     THEN /\ rooms' = [rooms EXCEPT ![RoomOf(c, ch)] = @ \union {c}]
          /\ subs' = [subs EXCEPT ![c] = @ \union {ch}]
     ELSE UNCHANGED <<rooms, subs>>
  /\ UNCHANGED <<clients, hubClosed, sendVars, linked, writing, welcoming, busVars, last, panicked>>

\* An unsubscribe is only answered if it fails.
Unsubscribe(c, ch) ==
  /\ c \in linked
  /\ c \in clients
  /\ reader[c] = "reading"
  /\ rooms' = [rooms EXCEPT ![RoomOf(c, ch)] = @ \ {c}]
  /\ subs' = [subs EXCEPT ![c] = @ \ {ch}]
  /\ UNCHANGED <<clients, hubClosed, sendVars, connVars, busVars, last, panicked>>

\* A ping, an unsubscribe of a client the hub does not know, or a message that
\* is not understood: an answer and nothing else.
Ask(c) ==
  /\ c \in linked
  /\ Goto(c, "reading", "replying")
  /\ UNCHANGED <<hubVars, sendVars, linked, writing, welcoming, busVars, last, panicked>>

\* SendToClient: nothing if the client is not registered.
Reply(c) ==
  /\ reader[c] = "replying"
  /\ \/ /\ c \in clients => closings[c] = 0
        /\ Goto(c, "replying", "reading")
        /\ Offer({c} \intersect clients, Control)
        /\ UNCHANGED <<hubVars, closings, linked, writing, welcoming, busVars, last, panicked>>
     \/ c \in clients /\ closings[c] > 0 /\ Die

\* removeClient of a client object that knows the given channels.
RemoveClient(c, channels) ==
  /\ clients' = clients \ {c}
  /\ rooms' = [k \in Rooms |-> IF c \in clients /\ k[1] = AppOf[c] /\ k[2] \in channels
                               THEN rooms[k] \ {c} ELSE rooms[k]]
  /\ closings' = [closings EXCEPT ![c] = IF c \in clients THEN @ + 1 ELSE @]
  /\ UNCHANGED hubClosed

\* The socket is closed: readPump removes its own client object, which is in no
\* room as far as it knows.
ReaderEnds(c) ==
  /\ c \notin linked
  /\ Goto(c, "reading", "leaving")
  /\ RemoveClient(c, {})
  /\ UNCHANGED <<subs, buf, linked, writing, welcoming, busVars, last, panicked>>

\* Then Session.Start's goroutine runs unregister, for the hub's client object,
\* and nobody asks what that object knows any more.
Unregister(c) ==
  /\ Goto(c, "leaving", "gone")
  /\ RemoveClient(c, subs[c])
  /\ subs' = [subs EXCEPT ![c] = {}]
  /\ UNCHANGED <<buf, linked, writing, welcoming, busVars, last, panicked>>

----------------------------------------------------------------------------
(***************************************************************************)
(* writePump.                                                              *)
(***************************************************************************)
WriterTakes(c) ==
  /\ c \in writing
  /\ buf[c] # <<>>
  /\ buf' = [buf EXCEPT ![c] = Tail(@)]
  /\ last' = [last EXCEPT ![c] = IF Head(buf[c]) = Control THEN @ ELSE Head(buf[c])]
  /\ UNCHANGED <<hubVars, closings, connVars, busVars, panicked>>

\* Mutant: the socket stays open.
WriterStopsQuietly(c) ==
  /\ c \in writing
  /\ writing' = writing \ {c}
  /\ last' = [last EXCEPT ![c] = Control]
  /\ UNCHANGED <<hubVars, sendVars, linked, welcoming, reader, busVars, panicked>>

\* A write or a ping fails or times out, or the channel is empty and closed;
\* the deferred conn.Close closes the socket.
WriterStops(c) ==
  /\ c \in writing
  /\ writing' = writing \ {c}
  /\ linked' = linked \ {c}
  /\ last' = [last EXCEPT ![c] = Control]
  /\ UNCHANGED <<hubVars, sendVars, welcoming, reader, busVars, panicked>>

\* The client goes away or misses its pongs.
Disconnect(c) ==
  /\ c \in linked
  /\ linked' = linked \ {c}
  /\ UNCHANGED <<hubVars, sendVars, writing, welcoming, reader, busVars, last, panicked>>

----------------------------------------------------------------------------
(***************************************************************************)
(* The bus and the bridge.                                                 *)
(***************************************************************************)
\* Mutant: what the bus has no room for is delivered by the publisher.
PublishInPlace ==
  LET room == Len(queue) < QueueSize
  IN /\ published < Events
     /\ published' = published + 1
     /\ IF room THEN queue' = Append(queue, published') /\ UNCHANGED <<current, todo>>
        ELSE /\ todo = <<>>
             /\ current' = published'
             /\ todo' = <<Default, EventChannel[published']>>
             /\ UNCHANGED queue
     /\ UNCHANGED <<hubVars, sendVars, connVars, last, panicked>>

\* A full bus drops the event.
Publish ==
  /\ published < Events
  /\ published' = published + 1
  /\ queue' = IF Len(queue) < QueueSize THEN Append(queue, published + 1) ELSE queue
  /\ UNCHANGED <<hubVars, sendVars, connVars, current, todo, last, panicked>>

\* The dispatcher takes the next event; the bridge routes it to the default
\* channel and to the channel of its topic.
Dispatch ==
  /\ todo = <<>>
  /\ queue # <<>>
  /\ current' = Head(queue)
  /\ queue' = Tail(queue)
  /\ todo' = <<Default, EventChannel[Head(queue)]>>
  /\ UNCHANGED <<hubVars, sendVars, connVars, published, last, panicked>>

\* The app could not be read: the database, or the context of the request that
\* published the event, which has been answered since.  The event is dropped.
DispatchLost ==
  /\ todo = <<>>
  /\ queue # <<>>
  /\ Head(queue) \in Lookups
  /\ queue' = Tail(queue)
  /\ UNCHANGED <<hubVars, sendVars, connVars, published, current, todo, last, panicked>>

\* Mutant: the prefix of the organization is not compared.
RoomsOfAnyOrg(e, ch) ==
  IF EventApp[e] # NoApp THEN {<<EventApp[e], ch>>}
  ELSE {<<a, ch>> : a \in Apps}

\* Broadcast to the app's room, or BroadcastToOrganization.
RoomsOf(e, ch) ==
  IF EventApp[e] # NoApp THEN {<<EventApp[e], ch>>}
  ELSE {<<a, ch>> : a \in {b \in Apps : OrgOf[b] = EventOrg[e]}}

Broadcast ==
  LET members == UNION {rooms[k] : k \in RoomsOf(current, Head(todo))}
  IN /\ todo # <<>>
     /\ \/ /\ \A c \in members : closings[c] = 0
           /\ Offer(members, current)
           /\ todo' = Tail(todo)
           /\ UNCHANGED <<hubVars, closings, connVars, queue, published, current, last, panicked>>
        \/ (\E c \in members : closings[c] > 0) /\ Die

----------------------------------------------------------------------------
\* Mutant: the registry is kept.
CloseKeepsClients ==
  /\ MayClose /\ ~hubClosed
  /\ hubClosed' = TRUE
  /\ closings' = [c \in Conns |-> IF c \in clients THEN closings[c] + 1 ELSE closings[c]]
  /\ rooms' = [k \in Rooms |-> {}]
  /\ UNCHANGED <<clients, subs, buf, connVars, busVars, last, panicked>>

\* Hub.Close: every registered channel is closed, registry and rooms are new.
Close ==
  /\ MayClose /\ ~hubClosed
  /\ hubClosed' = TRUE
  /\ closings' = [c \in Conns |-> IF c \in clients THEN closings[c] + 1 ELSE closings[c]]
  /\ clients' = {}
  /\ rooms' = [k \in Rooms |-> {}]
  /\ UNCHANGED <<subs, buf, connVars, busVars, last, panicked>>

----------------------------------------------------------------------------
Connect(c) == Register(c) \/ RegisterFull(c) \/ RegisterClosed(c) \/ SendWelcome(c)

Read(c) ==
  \/ \E ch \in Channels : Subscribe(c, ch) \/ Unsubscribe(c, ch)
  \/ Ask(c) \/ Reply(c)
  \/ ReaderEnds(c) \/ Unregister(c)

Next ==
  \/ \E c \in Conns : Connect(c) \/ Read(c) \/ WriterTakes(c) \/ WriterStops(c) \/ Disconnect(c)
  \/ Publish \/ Dispatch \/ DispatchLost \/ Broadcast
  \/ Close

Spec == Init /\ [][Next]_vars

\* A reader goes on: it answers what it has read, and ReadMessage returns an
\* error once the socket is closed.
FairSpec == Spec /\ \A c \in Conns : WF_vars(Reply(c)) /\ WF_vars(ReaderEnds(c))

----------------------------------------------------------------------------
(***************************************************************************)
(* Properties.                                                             *)
(***************************************************************************)
(***************************************************************************)
(* No send channel is closed twice (that would panic), although three      *)
(* places close it and the flag that guards two of them is per client      *)
(* object, of which a connection has two.                                  *)
(***************************************************************************)
ClosedOnce == \A c \in Conns : closings[c] <= 1

(***************************************************************************)
(* A registered connection has an open channel, so that SendToClient never *)
(* panics, and there are never more of them than MaxConnections.           *)
(***************************************************************************)
RegistryIsSound ==
  /\ \A c \in clients : closings[c] = 0
  /\ Cardinality(clients) <= MaxConnections

(***************************************************************************)
(* A connection is only ever handed events of its own organization, and of *)
(* apps no other than its own.                                             *)
(***************************************************************************)
TenantsDoNotMix ==
  \A c \in Conns : \A i \in 1 .. Len(buf[c]) :
    buf[c][i] # Control =>
      /\ EventOrg[buf[c][i]] = OrgOf[AppOf[c]]
      /\ EventApp[buf[c][i]] \in {AppOf[c], NoApp}

(***************************************************************************)
(* A client sees events in the order they were published, with gaps but    *)
(* never backwards, whatever it subscribes to in between.                  *)
(***************************************************************************)
EventsInOrder ==
  \A c \in Conns : \A i \in 1 .. Len(buf[c]) :
    buf[c][i] # Control =>
      /\ last[c] <= buf[c][i]
      /\ \A j \in i .. Len(buf[c]) : buf[c][j] # Control => buf[c][i] <= buf[c][j]

(***************************************************************************)
(* A connection that nobody writes to any more gives its place in the      *)
(* registry back.                                                          *)
(***************************************************************************)
DeadWritersLeave ==
  \A c \in Conns : c \in clients \ writing ~> c \notin clients

(***************************************************************************)
(* Claimed by hub.go: Broadcast "sends a message to all clients subscribed *)
(* to a room", which takes members whose channel can be sent to.           *)
(***************************************************************************)
BroadcastSends == ~panicked
=============================================================================
