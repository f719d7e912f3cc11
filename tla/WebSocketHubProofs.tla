------------------------- MODULE WebSocketHubProofs -------------------------
(***************************************************************************)
(* The registry, the send channels and the rooms of the hub for any number *)
(* of connections, apps, organizations and events, with or without Close.  *)
(***************************************************************************)
EXTENDS WebSocketHub, FiniteSetTheorems, TLAPS

----------------------------------------------------------------------------
(***************************************************************************)
(* A channel that is full drops the message, so it holds messages and      *)
(* never more than its capacity.                                           *)
(***************************************************************************)
Bounded(b) == b \in [Conns -> Seq(Messages)] /\ \A c \in Conns : Len(b[c]) <= Buffer

LEMMA OfferKeepsBounds ==
  ASSUME NEW C, NEW m \in Messages, Bounded(buf), Offer(C, m)
  PROVE  Bounded(buf')
<1>. USE DEF Bounded, Offer
<1>1. \A c \in Conns : buf'[c] \in Seq(Messages) /\ Len(buf'[c]) <= Buffer
  <2>. SUFFICES ASSUME NEW c \in Conns
               PROVE  buf'[c] \in Seq(Messages) /\ Len(buf'[c]) <= Buffer
    OBVIOUS
  <2>1. CASE c \in C /\ Len(buf[c]) < Buffer
    <3>1. buf'[c] = Append(buf[c], m)
      BY <2>1
    <3>2. /\ buf[c] \in Seq(Messages)
          /\ Len(Append(buf[c], m)) = Len(buf[c]) + 1
          /\ Append(buf[c], m) \in Seq(Messages)
      OBVIOUS
    <3>. QED  BY <2>1, <3>1, <3>2, CapacityAssumption
  <2>2. CASE ~(c \in C /\ Len(buf[c]) < Buffer)
    BY <2>2
  <2>. QED  BY <2>1, <2>2
<1>. QED  BY <1>1

----------------------------------------------------------------------------
(***************************************************************************)
(* Type correctness.                                                       *)
(***************************************************************************)
LEMMA RoomOfIsRoom == \A c \in Conns, ch \in Channels : RoomOf(c, ch) \in Rooms
BY TenancyAssumption DEF RoomOf, Rooms

LEMMA TypeInit == Init => TypeOK
<1>. SUFFICES ASSUME Init PROVE TypeOK
  OBVIOUS
<1>1. buf \in [Conns -> Seq(Messages)] /\ \A c \in Conns : Len(buf[c]) <= Buffer
  BY CapacityAssumption DEF Init
<1>2. queue \in Seq(EventIds) /\ Len(queue) <= QueueSize /\ todo \in Seq(Channels)
  BY CapacityAssumption DEF Init
<1>3. published \in 0 .. Events /\ closings \in [Conns -> Nat]
  BY EventAssumption DEF Init
<1>. QED  BY <1>1, <1>2, <1>3 DEF Init, TypeOK, Messages

LEMMA TypeAfterDeath == TypeOK /\ Die => TypeOK'
<1>. SUFFICES ASSUME TypeOK, Die PROVE TypeOK'
  OBVIOUS
<1>1. buf' \in [Conns -> Seq(Messages)] /\ \A c \in Conns : Len(buf'[c]) <= Buffer
  BY CapacityAssumption DEF Die
<1>2. queue' \in Seq(EventIds) /\ Len(queue') <= QueueSize /\ todo' \in Seq(Channels)
  BY CapacityAssumption DEF Die
<1>3. reader' \in [Conns -> {"idle", "reading", "replying", "leaving", "gone"}]
  BY DEF Die, TypeOK
<1>4. /\ clients' \subseteq Conns /\ linked' \subseteq Conns
      /\ writing' \subseteq Conns /\ welcoming' \subseteq Conns
      /\ rooms' \in [Rooms -> SUBSET Conns] /\ subs' \in [Conns -> SUBSET Channels]
      /\ hubClosed' \in BOOLEAN /\ panicked' \in BOOLEAN
      /\ closings' \in [Conns -> Nat] /\ last' \in [Conns -> Messages]
      /\ published' \in 0 .. Events /\ current' \in Messages
  BY DEF Die, TypeOK, Messages, Control
<1>. QED  BY <1>1, <1>2, <1>3, <1>4 DEF TypeOK

LEMMA TypeStep == TypeOK /\ [Next]_vars => TypeOK'
<1>. SUFFICES ASSUME TypeOK, [Next]_vars PROVE TypeOK'
  OBVIOUS
<1>. USE TenancyAssumption, CapacityAssumption, EventAssumption
     DEF TypeOK, hubVars, sendVars, connVars, busVars
<1>0. Bounded(buf)
  BY DEF Bounded
<1>1. ASSUME NEW c \in Conns, Connect(c) PROVE TypeOK'
  <2>1. CASE Register(c)
    BY <2>1, RoomOfIsRoom DEF Register, StartPumps, Goto
  <2>2. CASE RegisterFull(c)
    BY <2>2 DEF RegisterFull, StartPumps, Goto
  <2>3. CASE RegisterClosed(c)
    BY <2>3 DEF RegisterClosed, StartPumps, Goto
  <2>4. CASE SendWelcome(c)
    <3>1. Bounded(buf')
      BY <2>4, <1>0, OfferKeepsBounds DEF SendWelcome, Messages
    <3>. QED  BY <2>4, <3>1 DEF SendWelcome, Bounded
  <2>. QED  BY <1>1, <2>1, <2>2, <2>3, <2>4 DEF Connect
<1>2. ASSUME NEW c \in Conns, Read(c) PROVE TypeOK'
  <2>1. ASSUME NEW ch \in Channels, Subscribe(c, ch) PROVE TypeOK'
    <3>1. rooms' \in [Rooms -> SUBSET Conns] /\ subs' \in [Conns -> SUBSET Channels]
      <4>1. CASE c \in clients
        <5>1. rooms' = [rooms EXCEPT ![RoomOf(c, ch)] = @ \union {c}]
          BY <2>1, <4>1 DEF Subscribe
        <5>2. subs' = [subs EXCEPT ![c] = @ \union {ch}]
          BY <2>1, <4>1 DEF Subscribe
        <5>. QED  BY <5>1, <5>2
      <4>2. CASE c \notin clients
        BY <2>1, <4>2 DEF Subscribe
      <4>. QED  BY <4>1, <4>2
    <3>. QED  BY <2>1, <3>1 DEF Subscribe, Goto
  <2>2. ASSUME NEW ch \in Channels, Unsubscribe(c, ch) PROVE TypeOK'
    BY <2>2, RoomOfIsRoom DEF Unsubscribe
  <2>3. CASE Ask(c)
    BY <2>3 DEF Ask, Goto
  <2>4. CASE Reply(c)
    <3>1. CASE Die
      BY <3>1, TypeAfterDeath
    <3>2. CASE ~Die
      <4>1. Bounded(buf')
        BY <2>4, <3>2, <1>0, OfferKeepsBounds DEF Reply, Messages
      <4>2. /\ Goto(c, "replying", "reading")
            /\ UNCHANGED <<hubVars, closings, linked, writing, welcoming, busVars, last, panicked>>
        BY <2>4, <3>2 DEF Reply
      <4>3. reader' \in [Conns -> {"idle", "reading", "replying", "leaving", "gone"}]
        BY <4>2 DEF Goto
      <4>. QED  BY <4>1, <4>2, <4>3 DEF Bounded
    <3>. QED  BY <2>4, <3>1, <3>2 DEF Reply
  <2>5. CASE ReaderEnds(c)
    BY <2>5 DEF ReaderEnds, RemoveClient, Goto
  <2>6. CASE Unregister(c)
    BY <2>6 DEF Unregister, RemoveClient, Goto
  <2>. QED  BY <1>2, <2>1, <2>2, <2>3, <2>4, <2>5, <2>6 DEF Read
<1>3. ASSUME NEW c \in Conns, WriterTakes(c) PROVE TypeOK'
  <2>1. /\ buf[c] \in Seq(Messages) /\ buf[c] # <<>>
        /\ Head(buf[c]) \in Messages
        /\ Tail(buf[c]) \in Seq(Messages)
        /\ Len(Tail(buf[c])) <= Buffer
    BY <1>3 DEF WriterTakes
  <2>. QED  BY <1>3, <2>1 DEF WriterTakes
<1>4. ASSUME NEW c \in Conns, WriterStops(c) PROVE TypeOK'
  BY <1>4 DEF WriterStops, Messages
<1>5. ASSUME NEW c \in Conns, Disconnect(c) PROVE TypeOK'
  BY <1>5 DEF Disconnect
<1>6. CASE Publish
  <2>1. published' \in 0 .. Events /\ published + 1 \in EventIds
    BY <1>6 DEF Publish, EventIds
  <2>2. queue' \in Seq(EventIds) /\ Len(queue') <= QueueSize
    BY <1>6, <2>1 DEF Publish
  <2>. QED  BY <1>6, <2>1, <2>2 DEF Publish
<1>7. CASE Dispatch
  <2>1. Head(queue) \in EventIds /\ Tail(queue) \in Seq(EventIds) /\ Len(Tail(queue)) <= QueueSize
    BY <1>7 DEF Dispatch
  <2>2. todo' \in Seq(Channels)
    BY <1>7, <2>1 DEF Dispatch
  <2>. QED  BY <1>7, <2>1, <2>2 DEF Dispatch, Messages
<1>8. CASE DispatchLost
  <2>1. Tail(queue) \in Seq(EventIds) /\ Len(Tail(queue)) <= QueueSize
    BY <1>8 DEF DispatchLost
  <2>. QED  BY <1>8, <2>1 DEF DispatchLost
<1>9. CASE Broadcast
  <2>1. CASE Die
    BY <2>1, TypeAfterDeath
  <2>2. CASE ~Die
    <3>1. Bounded(buf')
      BY <1>9, <2>2, <1>0, OfferKeepsBounds DEF Broadcast
    <3>2. Tail(todo) \in Seq(Channels)
      BY <1>9 DEF Broadcast
    <3>. QED  BY <1>9, <2>2, <3>1, <3>2 DEF Broadcast, Bounded
  <2>. QED  BY <2>1, <2>2
<1>10. CASE Close
  BY <1>10 DEF Close
<1>11. CASE UNCHANGED vars
  BY <1>11 DEF vars
<1>. QED
  BY <1>1, <1>2, <1>3, <1>4, <1>5, <1>6, <1>7, <1>8, <1>9, <1>10, <1>11 DEF Next

(***************************************************************************)
(* The registry, the rooms, the channels (at their capacity) and the bus   *)
(* keep their types in every behaviour of the hub.                         *)
(***************************************************************************)
THEOREM TypeCorrect == Spec => []TypeOK
BY TypeInit, TypeStep, PTL DEF Spec

----------------------------------------------------------------------------
(***************************************************************************)
(* Closing.  What makes it safe is that a channel is closed by whoever     *)
(* takes its connection out of the registry, and by nobody else once the   *)
(* connection has been registered.                                         *)
(***************************************************************************)
CloseInv ==
  /\ TypeOK
  /\ RegistryIsSound
  /\ ClosedOnce
  /\ \A c \in Conns : reader[c] = "idle" => closings[c] = 0 /\ c \notin clients

LEMMA OneMore ==
  ASSUME NEW S, IsFiniteSet(S), NEW x, NEW n \in Nat, Cardinality(S) < n
  PROVE  Cardinality(S \union {x}) <= n
<1>1. Cardinality(S) \in Nat
  BY FS_CardinalityType
<1>2. Cardinality(S \union {x}) = IF x \in S THEN Cardinality(S) ELSE Cardinality(S) + 1
  BY FS_AddElement
<1>. QED  BY <1>1, <1>2

LEMMA OneLess ==
  ASSUME NEW S, IsFiniteSet(S), NEW x, NEW n \in Nat, Cardinality(S) <= n
  PROVE  Cardinality(S \ {x}) <= n
<1>1. Cardinality(S) \in Nat
  BY FS_CardinalityType
<1>2. Cardinality(S \ {x}) = IF x \in S THEN Cardinality(S) - 1 ELSE Cardinality(S)
  BY FS_RemoveElement
<1>. QED  BY <1>1, <1>2

LEMMA RegistryIsFinite == TypeOK => IsFiniteSet(clients)
BY CapacityAssumption, FS_Subset DEF TypeOK

LEMMA CloseInit == Init => CloseInv
<1>. SUFFICES ASSUME Init PROVE CloseInv
  OBVIOUS
<1>1. Cardinality(clients) <= MaxConnections
  BY FS_EmptySet, CapacityAssumption DEF Init
<1>. QED
  BY <1>1, TypeInit DEF Init, CloseInv, RegistryIsSound, ClosedOnce

LEMMA CloseStep == CloseInv /\ [Next]_vars => CloseInv'
<1>. SUFFICES ASSUME CloseInv, [Next]_vars PROVE CloseInv'
  OBVIOUS
<1>. USE DEF CloseInv, RegistryIsSound, ClosedOnce, hubVars, sendVars, connVars, busVars
<1>0. TypeOK' /\ IsFiniteSet(clients)
  BY TypeStep, RegistryIsFinite
<1>d. CASE Die
  BY <1>0, <1>d, FS_EmptySet, CapacityAssumption DEF Die, TypeOK
<1>r. ASSUME NEW c \in Conns, NEW channels, RemoveClient(c, channels),
             reader' = [reader EXCEPT ![c] = reader'[c]], reader'[c] # "idle"
      PROVE  CloseInv'
  <2>1. Cardinality(clients') <= MaxConnections
    BY <1>0, <1>r, OneLess, CapacityAssumption DEF RemoveClient
  <2>. QED  BY <1>0, <1>r, <2>1 DEF RemoveClient, TypeOK
<1>1. ASSUME NEW c \in Conns, Connect(c) PROVE CloseInv'
  <2>1. CASE Register(c)
    <3>1. Cardinality(clients') <= MaxConnections
      BY <1>0, <2>1, OneMore, CapacityAssumption DEF Register
    <3>. QED  BY <1>0, <2>1, <3>1 DEF Register, StartPumps, Goto, TypeOK
  <2>2. CASE RegisterFull(c)
    <3>1. c \notin clients
      BY <2>2 DEF RegisterFull, StartPumps, Goto
    <3>. QED  BY <1>0, <2>2, <3>1 DEF RegisterFull, StartPumps, Goto, TypeOK
  <2>3. CASE RegisterClosed(c)
    BY <1>0, <2>3 DEF RegisterClosed, StartPumps, Goto, TypeOK
  <2>4. CASE SendWelcome(c)
    BY <1>0, <2>4 DEF SendWelcome
  <2>. QED  BY <1>1, <2>1, <2>2, <2>3, <2>4 DEF Connect
<1>2. ASSUME NEW c \in Conns, Read(c) PROVE CloseInv'
  <2>1. ASSUME NEW ch \in Channels, Subscribe(c, ch) PROVE CloseInv'
    BY <1>0, <2>1 DEF Subscribe, Goto, TypeOK
  <2>2. ASSUME NEW ch \in Channels, Unsubscribe(c, ch) PROVE CloseInv'
    BY <1>0, <2>2 DEF Unsubscribe
  <2>3. CASE Ask(c)
    BY <1>0, <2>3 DEF Ask, Goto, TypeOK
  <2>4. CASE Reply(c)
    BY <1>0, <1>d, <2>4 DEF Reply, Goto, TypeOK
  <2>5. CASE ReaderEnds(c)
    BY <1>r, <2>5 DEF ReaderEnds, Goto, TypeOK
  <2>6. CASE Unregister(c)
    BY <1>r, <2>6 DEF Unregister, Goto, TypeOK
  <2>. QED  BY <1>2, <2>1, <2>2, <2>3, <2>4, <2>5, <2>6 DEF Read
<1>3. ASSUME NEW c \in Conns, WriterTakes(c) \/ WriterStops(c) \/ Disconnect(c) PROVE CloseInv'
  BY <1>0, <1>3 DEF WriterTakes, WriterStops, Disconnect
<1>4. CASE Publish \/ Dispatch \/ DispatchLost
  BY <1>0, <1>4 DEF Publish, Dispatch, DispatchLost
<1>5. CASE Broadcast
  BY <1>0, <1>5, <1>d DEF Broadcast
<1>6. CASE Close
  <2>1. Cardinality(clients') <= MaxConnections
    BY <1>6, FS_EmptySet, CapacityAssumption DEF Close
  <2>. QED  BY <1>0, <1>6, <2>1 DEF Close, TypeOK
<1>7. CASE UNCHANGED vars
  BY <1>0, <1>7 DEF vars
<1>. QED
  BY <1>1, <1>2, <1>3, <1>4, <1>5, <1>6, <1>7 DEF Next

(***************************************************************************)
(* Every connection of the registry can be sent to and the registry never  *)
(* outgrows MaxConnections: SendToClient never panics.                     *)
(***************************************************************************)
THEOREM RegistrySound == Spec => []RegistryIsSound
<1>1. CloseInv => RegistryIsSound
  BY DEF CloseInv
<1>. QED  BY CloseInit, CloseStep, <1>1, PTL DEF Spec

(***************************************************************************)
(* Register, removeClient of either client object and Close between them   *)
(* close no send channel twice.                                            *)
(***************************************************************************)
THEOREM ChannelsCloseOnce == Spec => []ClosedOnce
<1>1. CloseInv => ClosedOnce
  BY DEF CloseInv
<1>. QED  BY CloseInit, CloseStep, <1>1, PTL DEF Spec

----------------------------------------------------------------------------
(***************************************************************************)
(* Tenancy.  Rooms have members of their own app only, even those that a   *)
(* dead connection has left behind.                                        *)
(***************************************************************************)
TenantInv ==
  /\ TypeOK
  /\ TenantsDoNotMix
  /\ \A k \in Rooms : \A c \in rooms[k] : k[1] = AppOf[c]
  /\ todo # <<>> => current \in EventIds

\* What may be put in the channel of a connection.
Deliverable(c, m) ==
  m # Control => EventOrg[m] = OrgOf[AppOf[c]] /\ EventApp[m] \in {AppOf[c], NoApp}

LEMMA OfferKeepsTenants ==
  ASSUME TypeOK, TenantsDoNotMix, NEW C, NEW m \in Messages, Offer(C, m),
         \A c \in C \intersect Conns : Deliverable(c, m)
  PROVE  TenantsDoNotMix'
<1>. SUFFICES ASSUME NEW c \in Conns, NEW i \in 1 .. Len(buf'[c])
             PROVE  Deliverable(c, buf'[c][i])
  BY DEF TenantsDoNotMix, Deliverable
<1>1. CASE c \in C /\ Len(buf[c]) < Buffer
  <2>1. buf'[c] = Append(buf[c], m) /\ buf[c] \in Seq(Messages)
    BY <1>1 DEF Offer, TypeOK
  <2>2. \/ i \in 1 .. Len(buf[c]) /\ buf'[c][i] = buf[c][i]
        \/ buf'[c][i] = m
    BY <2>1
  <2>. QED  BY <1>1, <2>2 DEF TenantsDoNotMix, Deliverable
<1>2. CASE ~(c \in C /\ Len(buf[c]) < Buffer)
  BY <1>2 DEF Offer, TypeOK, TenantsDoNotMix, Deliverable
<1>. QED  BY <1>1, <1>2

LEMMA TenantInit == Init => TenantInv
<1>. SUFFICES ASSUME Init PROVE TenantInv
  OBVIOUS
<1>1. TypeOK
  BY TypeInit
<1>2. \A c \in Conns : Len(buf[c]) = 0
  BY DEF Init
<1>. QED  BY <1>1, <1>2 DEF Init, TenantInv, TenantsDoNotMix

LEMMA TenantStep == TenantInv /\ [Next]_vars => TenantInv'
<1>. SUFFICES ASSUME TenantInv, [Next]_vars PROVE TenantInv'
  OBVIOUS
<1>. USE DEF TenantInv, hubVars, sendVars, connVars, busVars
<1>0. TypeOK'
  BY TypeStep
<1>s. ASSUME UNCHANGED buf PROVE TenantsDoNotMix'
  BY <1>s DEF TenantsDoNotMix
<1>d. CASE Die
  <2>1. \A c \in Conns : Len(buf'[c]) = 0
    BY <1>d DEF Die
  <2>. QED  BY <1>0, <1>d, <2>1 DEF Die, TenantsDoNotMix
<1>1. ASSUME NEW c \in Conns, Connect(c) PROVE TenantInv'
  <2>1. CASE Register(c)
    BY <1>0, <1>s, <2>1, TenancyAssumption DEF Register, StartPumps, TypeOK, RoomOf, Rooms
  <2>2. CASE RegisterFull(c) \/ RegisterClosed(c)
    BY <1>0, <1>s, <2>2 DEF RegisterFull, RegisterClosed, StartPumps
  <2>3. CASE SendWelcome(c)
    BY <1>0, <2>3, OfferKeepsTenants DEF SendWelcome, Messages, Deliverable
  <2>. QED  BY <1>1, <2>1, <2>2, <2>3 DEF Connect
<1>2. ASSUME NEW c \in Conns, Read(c) PROVE TenantInv'
  <2>1. ASSUME NEW ch \in Channels, Subscribe(c, ch) PROVE TenantInv'
    <3>1. rooms' \in {rooms, [rooms EXCEPT ![RoomOf(c, ch)] = @ \union {c}]}
      BY <2>1 DEF Subscribe
    <3>2. RoomOf(c, ch) \in Rooms /\ RoomOf(c, ch)[1] = AppOf[c]
      BY RoomOfIsRoom DEF RoomOf
    <3>3. ASSUME NEW k \in Rooms, NEW d \in rooms'[k] PROVE k[1] = AppOf[d]
      <4>1. d \in rooms[k] \/ (k = RoomOf(c, ch) /\ d = c)
        <5>. HIDE DEF TenantInv
        <5>. QED  BY <3>1, <3>2, <3>3 DEF TypeOK, TenantInv
      <4>. QED  BY <3>2, <4>1
    <3>. QED  BY <1>0, <1>s, <2>1, <3>3 DEF Subscribe
  <2>2. ASSUME NEW ch \in Channels, Unsubscribe(c, ch) PROVE TenantInv'
    BY <1>0, <1>s, <2>2, TenancyAssumption DEF Unsubscribe, TypeOK, RoomOf, Rooms
  <2>3. CASE Ask(c)
    BY <1>0, <1>s, <2>3 DEF Ask
  <2>4. CASE Reply(c)
    <3>1. CASE ~Die
      BY <1>0, <2>4, <3>1, OfferKeepsTenants DEF Reply, Messages, Deliverable
    <3>. QED  BY <1>d, <3>1
  <2>5. CASE ReaderEnds(c)
    BY <1>0, <1>s, <2>5 DEF ReaderEnds, RemoveClient
  <2>6. CASE Unregister(c)
    BY <1>0, <1>s, <2>6 DEF Unregister, RemoveClient
  <2>. QED  BY <1>2, <2>1, <2>2, <2>3, <2>4, <2>5, <2>6 DEF Read
<1>3. ASSUME NEW c \in Conns, WriterTakes(c) PROVE TenantInv'
  <2>1. ASSUME NEW d \in Conns, NEW i \in 1 .. Len(buf'[d]) PROVE Deliverable(d, buf'[d][i])
    <3>1. CASE d = c
      <4>1. /\ buf[c] \in Seq(Messages) /\ buf[c] # <<>>
            /\ buf'[c] = Tail(buf[c])
        BY <1>3 DEF WriterTakes, TypeOK
      <4>2. i + 1 \in 1 .. Len(buf[c]) /\ buf'[c][i] = buf[c][i + 1]
        BY <2>1, <3>1, <4>1
      <4>. QED  BY <3>1, <4>2 DEF TenantsDoNotMix, Deliverable
    <3>2. CASE d # c
      BY <1>3, <2>1, <3>2 DEF WriterTakes, TypeOK, TenantsDoNotMix, Deliverable
    <3>. QED  BY <3>1, <3>2
  <2>2. TenantsDoNotMix'
    BY <2>1 DEF TenantsDoNotMix, Deliverable
  <2>. QED  BY <1>0, <1>3, <2>2 DEF WriterTakes
<1>4. ASSUME NEW c \in Conns, WriterStops(c) \/ Disconnect(c) PROVE TenantInv'
  BY <1>0, <1>s, <1>4 DEF WriterStops, Disconnect
<1>5. CASE Publish \/ DispatchLost
  BY <1>0, <1>s, <1>5 DEF Publish, DispatchLost
<1>6. CASE Dispatch
  <2>1. Head(queue) \in EventIds
    BY <1>6 DEF Dispatch, TypeOK
  <2>. QED  BY <1>0, <1>s, <1>6, <2>1 DEF Dispatch
<1>7. CASE Broadcast
  <2>. DEFINE members == UNION {rooms[k] : k \in RoomsOf(current, Head(todo))}
  <2>1. CASE ~Die
    <3>1. Offer(members, current) /\ current \in EventIds /\ Head(todo) \in Channels
      BY <1>7, <2>1 DEF Broadcast, TypeOK
    <3>2. ASSUME NEW c \in members \intersect Conns PROVE Deliverable(c, current)
      <4>1. PICK k \in RoomsOf(current, Head(todo)) : c \in rooms[k]
        OBVIOUS
      <4>2. CASE EventApp[current] # NoApp
        <5>1. k = <<EventApp[current], Head(todo)>> /\ EventApp[current] \in Apps
          BY <3>1, <4>1, <4>2, EventAssumption DEF RoomsOf
        <5>2. EventApp[current] = AppOf[c]
          BY <3>1, <4>1, <5>1 DEF Rooms
        <5>. QED  BY <3>1, <4>2, <5>2, EventAssumption DEF Deliverable
      <4>3. CASE EventApp[current] = NoApp
        <5>1. PICK a \in Apps : k = <<a, Head(todo)>> /\ OrgOf[a] = EventOrg[current]
          BY <4>1, <4>3 DEF RoomsOf
        <5>2. a = AppOf[c]
          BY <3>1, <4>1, <5>1 DEF Rooms
        <5>. QED  BY <4>3, <5>1, <5>2 DEF Deliverable
      <4>. QED  BY <4>2, <4>3
    <3>3. TenantsDoNotMix'
      BY <3>1, <3>2, OfferKeepsTenants DEF Messages
    <3>4. todo' # <<>> => current' \in EventIds
      BY <1>7, <2>1, <3>1 DEF Broadcast
    <3>5. UNCHANGED rooms
      BY <1>7, <2>1 DEF Broadcast
    <3>. QED  BY <1>0, <3>3, <3>4, <3>5
  <2>. QED  BY <1>d, <2>1
<1>8. CASE Close
  BY <1>0, <1>s, <1>8 DEF Close
<1>9. CASE UNCHANGED vars
  BY <1>0, <1>s, <1>9 DEF vars
<1>. QED
  BY <1>1, <1>2, <1>3, <1>4, <1>5, <1>6, <1>7, <1>8, <1>9 DEF Next

(***************************************************************************)
(* No connection is ever handed another organization's event, or one of    *)
(* another app, through any subscription and any stale member of a room.   *)
(***************************************************************************)
THEOREM TenantsAreApart == Spec => []TenantsDoNotMix
<1>1. TenantInv => TenantsDoNotMix
  BY DEF TenantInv
<1>. QED  BY TenantInit, TenantStep, <1>1, PTL DEF Spec

----------------------------------------------------------------------------
(***************************************************************************)
(* Order.  Whatever a client has got or will get from its channel was      *)
(* published no later than what the dispatcher is delivering, and the bus  *)
(* holds only later events, in the order of their publication.             *)
(***************************************************************************)
OrderInv ==
  /\ TypeOK
  /\ EventsInOrder
  /\ current <= published
  /\ \A c \in Conns : last[c] <= current
  /\ \A c \in Conns : \A i \in 1 .. Len(buf[c]) : buf[c][i] <= current
  /\ \A i \in 1 .. Len(queue) : current < queue[i] /\ queue[i] <= published
  /\ \A i, j \in 1 .. Len(queue) : i < j => queue[i] < queue[j]

LEMMA MessagesAreNumbers == Messages \subseteq Nat /\ EventIds \subseteq Nat \ {0}
BY EventAssumption DEF Messages, Control, EventIds

LEMMA Numbers ==
  ASSUME TypeOK
  PROVE  /\ \A c \in Conns : \A i \in 1 .. Len(buf[c]) : buf[c][i] \in Nat
         /\ \A i \in 1 .. Len(queue) : queue[i] \in Nat
         /\ current \in Nat /\ published \in Nat /\ \A c \in Conns : last[c] \in Nat
<1>1. ASSUME NEW c \in Conns, NEW i \in 1 .. Len(buf[c]) PROVE buf[c][i] \in Nat
  <2>1. buf[c] \in Seq(Messages)
    BY DEF TypeOK
  <2>2. buf[c][i] \in Messages
    BY <1>1, <2>1
  <2>. QED  BY <2>2, MessagesAreNumbers
<1>2. ASSUME NEW i \in 1 .. Len(queue) PROVE queue[i] \in Nat
  <2>1. queue \in Seq(EventIds)
    BY DEF TypeOK
  <2>2. queue[i] \in EventIds
    BY <1>2, <2>1
  <2>. QED  BY <2>2, MessagesAreNumbers
<1>3. current \in Messages /\ published \in Nat /\ \A c \in Conns : last[c] \in Messages
  BY EventAssumption DEF TypeOK
<1>. QED  BY <1>1, <1>2, <1>3, MessagesAreNumbers

\* The channel of one connection: ordered, after l, and not beyond n.
Ordered(b, l, n) ==
  /\ \A i \in 1 .. Len(b) : b[i] <= n
  /\ \A i \in 1 .. Len(b) : b[i] # Control =>
       /\ l <= b[i]
       /\ \A j \in i .. Len(b) : b[j] # Control => b[i] <= b[j]

LEMMA OrderedAppend ==
  ASSUME NEW b \in Seq(Nat), NEW l \in Nat, NEW n \in Nat, NEW m \in {Control, n},
         Ordered(b, l, n), l <= n
  PROVE  Ordered(Append(b, m), l, n)
<1>. DEFINE a == Append(b, m)
<1>1. /\ Len(a) = Len(b) + 1 /\ a[Len(b) + 1] = m
      /\ \A i \in 1 .. Len(b) : a[i] = b[i]
  OBVIOUS
<1>2. Len(b) \in Nat /\ \A i \in 1 .. Len(b) : b[i] \in Nat
  OBVIOUS
<1>. HIDE DEF a
<1>3. ASSUME NEW i \in 1 .. Len(a) PROVE a[i] <= n /\ (a[i] # Control => l <= a[i])
  BY <1>1, <1>2 DEF Ordered, Control
<1>4. ASSUME NEW i \in 1 .. Len(a), NEW j \in i .. Len(a), a[i] # Control, a[j] # Control
      PROVE  a[i] <= a[j]
  <2>1. CASE j = Len(b) + 1
    BY <1>1, <1>3, <1>4, <2>1 DEF Control
  <2>2. CASE j # Len(b) + 1
    BY <1>1, <1>2, <1>4, <2>2 DEF Ordered
  <2>. QED  BY <2>1, <2>2
<1>5. Ordered(a, l, n)
  BY <1>3, <1>4 DEF Ordered
<1>. QED  BY <1>5 DEF a

LEMMA OrderedTail ==
  ASSUME NEW b \in Seq(Nat), b # <<>>, NEW l \in Nat, NEW n \in Nat, Ordered(b, l, n)
  PROVE  Ordered(Tail(b), IF Head(b) = Control THEN l ELSE Head(b), n)
<1>. DEFINE t == Tail(b)
            h == Head(b)
            k == IF h = Control THEN l ELSE h
<1>1. /\ Len(t) = Len(b) - 1 /\ h = b[1] /\ h \in Nat
      /\ \A i \in 1 .. Len(t) : t[i] = b[i + 1]
      /\ Len(b) \in Nat \ {0} /\ Len(t) \in Nat
  OBVIOUS
<1>2. \A i \in 1 .. Len(b) : b[i] \in Nat
  OBVIOUS
<1>. HIDE DEF t, h
<1>3. ASSUME NEW i \in 1 .. Len(t) PROVE t[i] <= n
  <2>1. t[i] = b[i + 1] /\ i + 1 \in 1 .. Len(b)
    BY <1>1
  <2>. QED  BY <2>1 DEF Ordered
<1>4. ASSUME NEW i \in 1 .. Len(t), t[i] # Control PROVE k <= t[i]
  <2>1. t[i] = b[i + 1] /\ i + 1 \in 1 .. Len(b) /\ 1 \in 1 .. Len(b) /\ i + 1 \in 1 .. Len(b)
    BY <1>1
  <2>2. CASE h = Control
    BY <1>4, <2>1, <2>2 DEF Ordered
  <2>3. CASE h # Control
    BY <1>1, <1>4, <2>1, <2>3 DEF Ordered
  <2>. QED  BY <2>2, <2>3
<1>5. ASSUME NEW i \in 1 .. Len(t), NEW j \in i .. Len(t), t[i] # Control, t[j] # Control
      PROVE  t[i] <= t[j]
  <2>1. /\ t[i] = b[i + 1] /\ i + 1 \in 1 .. Len(b)
        /\ t[j] = b[j + 1] /\ j + 1 \in (i + 1) .. Len(b)
    BY <1>1
  <2>. QED  BY <1>5, <2>1 DEF Ordered
<1>6. Ordered(t, k, n)
  BY <1>3, <1>4, <1>5 DEF Ordered
<1>. QED  BY <1>6 DEF t, h

LEMMA OrderInit == Init => OrderInv
<1>. SUFFICES ASSUME Init PROVE OrderInv
  OBVIOUS
<1>1. (\A c \in Conns : Len(buf[c]) = 0) /\ Len(queue) = 0
  BY DEF Init
<1>2. current <= published /\ \A c \in Conns : last[c] <= current
  BY DEF Init, Control
<1>. QED  BY <1>1, <1>2, TypeInit DEF OrderInv, EventsInOrder

\* The part of the invariant that speaks of connections, and of the bus.
LEMMA OrderParts ==
  OrderInv <=> /\ TypeOK
               /\ \A c \in Conns : Ordered(buf[c], last[c], current) /\ last[c] <= current
               /\ current <= published
               /\ \A i \in 1 .. Len(queue) : current < queue[i] /\ queue[i] <= published
               /\ \A i, j \in 1 .. Len(queue) : i < j => queue[i] < queue[j]
BY DEF OrderInv, EventsInOrder, Ordered

ConnsOrdered == \A c \in Conns : Ordered(buf[c], last[c], current) /\ last[c] <= current
BusOrdered ==
  /\ current <= published
  /\ \A i \in 1 .. Len(queue) : current < queue[i] /\ queue[i] <= published
  /\ \A i, j \in 1 .. Len(queue) : i < j => queue[i] < queue[j]

LEMMA OfferKeepsOrder ==
  ASSUME TypeOK, ConnsOrdered, NEW C, NEW m \in {Control, current}, Offer(C, m),
         UNCHANGED <<last, current>>
  PROVE  ConnsOrdered'
<1>. SUFFICES ASSUME NEW c \in Conns PROVE Ordered(buf'[c], last[c], current) /\ last[c] <= current
  BY DEF ConnsOrdered
<1>1. buf[c] \in Seq(Nat) /\ last[c] \in Nat /\ current \in Nat
  <2>1. buf[c] \in Seq(Messages) /\ last[c] \in Messages /\ current \in Messages
    BY DEF TypeOK
  <2>. QED  BY <2>1, MessagesAreNumbers
<1>2. Ordered(buf[c], last[c], current) /\ last[c] <= current
  BY DEF ConnsOrdered
<1>3. buf'[c] = buf[c] \/ buf'[c] = Append(buf[c], m)
  BY DEF Offer
<1>. QED  BY <1>1, <1>2, <1>3, OrderedAppend

LEMMA OrderStep == OrderInv /\ [Next]_vars => OrderInv'
<1>. SUFFICES ASSUME OrderInv, [Next]_vars PROVE OrderInv'
  OBVIOUS
<1>0. TypeOK /\ ConnsOrdered /\ BusOrdered
  BY OrderParts DEF ConnsOrdered, BusOrdered
<1>t. TypeOK'
  BY <1>0, TypeStep
<1>q. SUFFICES ConnsOrdered' /\ BusOrdered'
  BY <1>t, OrderParts, PTL DEF ConnsOrdered, BusOrdered
<1>n. current \in Nat /\ published \in Nat /\ (\A c \in Conns : last[c] \in Nat)
      /\ \A i \in 1 .. Len(queue) : queue[i] \in Nat
  BY <1>0, Numbers
<1>. USE DEF hubVars, sendVars, connVars, busVars
<1>s. ASSUME UNCHANGED <<buf, last, current, published, queue>> PROVE ConnsOrdered' /\ BusOrdered'
  BY <1>0, <1>s DEF ConnsOrdered, BusOrdered
<1>f. ASSUME NEW C, Offer(C, Control) \/ Offer(C, current),
             UNCHANGED <<last, current, published, queue>>
      PROVE  ConnsOrdered' /\ BusOrdered'
  BY <1>0, <1>f, OfferKeepsOrder DEF BusOrdered
<1>d. CASE Die
  <2>1. \A c \in Conns : Len(buf'[c]) = 0 /\ last'[c] = 0
    BY <1>d DEF Die, Control
  <2>2. Len(queue') = 0 /\ UNCHANGED <<published, current>>
    BY <1>d DEF Die
  <2>. QED  BY <1>0, <1>n, <2>1, <2>2 DEF ConnsOrdered, BusOrdered, Ordered
<1>1. ASSUME NEW c \in Conns, Connect(c) PROVE ConnsOrdered' /\ BusOrdered'
  <2>1. CASE SendWelcome(c)
    BY <1>f, <2>1 DEF SendWelcome
  <2>. QED  BY <1>1, <1>s, <2>1 DEF Connect, Register, RegisterFull, RegisterClosed, StartPumps
<1>2. ASSUME NEW c \in Conns, Read(c) PROVE ConnsOrdered' /\ BusOrdered'
  <2>1. CASE Reply(c)
    BY <1>d, <1>f, <2>1 DEF Reply
  <2>2. CASE ReaderEnds(c) \/ Unregister(c)
    BY <1>s, <2>2 DEF ReaderEnds, Unregister
  <2>3. CASE Ask(c) \/ \E ch \in Channels : Subscribe(c, ch) \/ Unsubscribe(c, ch)
    BY <1>s, <2>3 DEF Ask, Subscribe, Unsubscribe
  <2>. QED  BY <1>2, <2>1, <2>2, <2>3 DEF Read
<1>3. ASSUME NEW c \in Conns, WriterTakes(c) PROVE ConnsOrdered' /\ BusOrdered'
  <2>1. /\ buf[c] \in Seq(Messages) /\ buf[c] # <<>>
        /\ buf' = [buf EXCEPT ![c] = Tail(buf[c])]
        /\ last' = [last EXCEPT ![c] = IF Head(buf[c]) = Control THEN last[c] ELSE Head(buf[c])]
        /\ UNCHANGED <<current, published, queue>>
    BY <1>0, <1>3 DEF WriterTakes, TypeOK
  <2>2. buf[c] \in Seq(Nat)
    BY <2>1, MessagesAreNumbers
  <2>3. Ordered(buf'[c], last'[c], current)
    BY <1>0, <1>n, <2>1, <2>2, OrderedTail DEF ConnsOrdered, TypeOK
  <2>4. last'[c] <= current
    <3>1. Head(buf[c]) = buf[c][1] /\ 1 \in 1 .. Len(buf[c])
      BY <2>1, <2>2
    <3>2. buf[c][1] <= current
      BY <1>0, <3>1 DEF ConnsOrdered, Ordered
    <3>. QED  BY <1>0, <2>1, <3>1, <3>2 DEF ConnsOrdered, TypeOK
  <2>5. \A e \in Conns \ {c} : buf'[e] = buf[e] /\ last'[e] = last[e]
    BY <1>0, <2>1 DEF TypeOK
  <2>. QED  BY <1>0, <2>1, <2>3, <2>4, <2>5 DEF ConnsOrdered, BusOrdered
<1>4. ASSUME NEW c \in Conns, WriterStops(c) PROVE ConnsOrdered' /\ BusOrdered'
  <2>1. /\ last' = [last EXCEPT ![c] = 0]
        /\ UNCHANGED <<buf, current, published, queue>>
    BY <1>4 DEF WriterStops, Control
  <2>2. \A i \in 1 .. Len(buf[c]) : buf[c][i] \in Nat
    BY <1>0, Numbers
  <2>3. \A e \in Conns : last'[e] = last[e] \/ (e = c /\ last'[e] = 0)
    BY <1>0, <2>1 DEF TypeOK
  <2>. QED  BY <1>0, <1>n, <2>1, <2>2, <2>3 DEF ConnsOrdered, BusOrdered, Ordered
<1>5. ASSUME NEW c \in Conns, Disconnect(c) PROVE ConnsOrdered' /\ BusOrdered'
  BY <1>5, <1>s DEF Disconnect
<1>6. CASE Publish
  <2>1. UNCHANGED <<buf, last, current>> /\ published' = published + 1
    BY <1>6 DEF Publish
  <2>2. ConnsOrdered'
    BY <1>0, <2>1 DEF ConnsOrdered
  <2>3. CASE queue' = queue
    BY <1>0, <1>n, <2>1, <2>2, <2>3 DEF BusOrdered
  <2>4. CASE queue' = Append(queue, published + 1)
    <3>1. /\ queue \in Seq(EventIds) /\ Len(queue) \in Nat
          /\ Len(queue') = Len(queue) + 1
          /\ queue'[Len(queue) + 1] = published + 1
          /\ \A i \in 1 .. Len(queue) : queue'[i] = queue[i]
      BY <1>0, <2>4 DEF TypeOK
    <3>. QED  BY <1>0, <1>n, <2>1, <2>2, <3>1 DEF BusOrdered
  <2>. QED  BY <1>6, <2>3, <2>4 DEF Publish
<1>7. CASE Dispatch \/ DispatchLost
  <2>1. /\ queue \in Seq(EventIds) /\ queue # <<>> /\ queue' = Tail(queue)
        /\ current' \in {current, Head(queue)}
        /\ UNCHANGED <<buf, last, published>>
    BY <1>0, <1>7 DEF Dispatch, DispatchLost, TypeOK
  <2>2. /\ Len(queue') = Len(queue) - 1 /\ Len(queue) \in Nat \ {0}
        /\ Head(queue) = queue[1]
        /\ \A i \in 1 .. Len(queue') : queue'[i] = queue[i + 1]
    BY <2>1
  <2>3. current <= current' /\ current' \in Nat /\ current' <= published /\ current' <= queue[1]
    BY <1>0, <1>n, <2>1, <2>2 DEF BusOrdered
  <2>4. BusOrdered'
    <3>1. ASSUME NEW i \in 1 .. Len(queue') PROVE current' < queue'[i] /\ queue'[i] <= published
      BY <1>0, <1>n, <2>1, <2>2, <2>3 DEF BusOrdered
    <3>2. ASSUME NEW i \in 1 .. Len(queue'), NEW j \in 1 .. Len(queue'), i < j
          PROVE  queue'[i] < queue'[j]
      BY <1>0, <2>2, <3>2 DEF BusOrdered
    <3>. QED  BY <2>1, <2>3, <3>1, <3>2 DEF BusOrdered
  <2>5. ConnsOrdered'
    <3>1. ASSUME NEW c \in Conns PROVE Ordered(buf[c], last[c], current') /\ last[c] <= current'
      <4>1. \A i \in 1 .. Len(buf[c]) : buf[c][i] \in Nat
        BY <1>0, Numbers
      <4>. QED  BY <1>0, <1>n, <2>3, <4>1 DEF ConnsOrdered, Ordered
    <3>. QED  BY <2>1, <3>1 DEF ConnsOrdered
  <2>. QED  BY <2>4, <2>5
<1>8. CASE Broadcast
  BY <1>8, <1>d, <1>f DEF Broadcast
<1>9. CASE Close
  BY <1>9, <1>s DEF Close
<1>10. CASE UNCHANGED vars
  BY <1>10, <1>s DEF vars
<1>. QED
  BY <1>1, <1>2, <1>3, <1>4, <1>5, <1>6, <1>7, <1>8, <1>9, <1>10 DEF Next

(***************************************************************************)
(* A client never sees an event before one that was published earlier,     *)
(* through drops, new subscriptions, lost events and restarts.             *)
(***************************************************************************)
THEOREM EventsArriveInOrder == Spec => []EventsInOrder
<1>1. OrderInv => EventsInOrder
  BY DEF OrderInv
<1>. QED  BY OrderInit, OrderStep, <1>1, PTL DEF Spec

----------------------------------------------------------------------------
(***************************************************************************)
(* What DeadWritersLeave rests on, apart from the readers going on: a      *)
(* registered connection without a writer has a closed socket and a reader *)
(* that can take its next step, an answer it still owes and then its end,  *)
(* and nothing brings the connection a writer or another message to read.  *)
(***************************************************************************)
ReadersAttached ==
  /\ linked \subseteq writing
  /\ \A c \in clients : reader[c] \in {"reading", "replying"}

DeadWritersCanLeave ==
  \A c \in clients \ writing :
    \/ reader[c] = "reading" /\ c \notin linked
    \/ reader[c] = "replying" /\ closings[c] = 0

StepsToLeave(c) == IF reader[c] = "replying" THEN 2 ELSE 1

LeavesFor(c) ==
  c \in clients \ writing /\ c \in clients' =>
    /\ c \notin writing'
    /\ StepsToLeave(c)' <= StepsToLeave(c)
    /\ Reply(c) => StepsToLeave(c)' < StepsToLeave(c)
    /\ ~ ReaderEnds(c)

DeadWritersMoveOn == [][\A c \in Conns : LeavesFor(c)]_vars

\* What a step can do to a registered connection without a writer.
ComesNearer(c) ==
  c \in clients \ writing /\ c \in clients' =>
    c \notin writing' /\ reader'[c] \in {reader[c], "reading"}

LEMMA NearerIsLeaving ==
  ASSUME TypeOK, NEW c \in Conns, ComesNearer(c)
  PROVE  LeavesFor(c)
<1>1. Reply(c) /\ c \in clients' => reader[c] = "replying" /\ reader'[c] = "reading"
  BY DEF Reply, Die, Goto, TypeOK
<1>2. ReaderEnds(c) => c \notin clients'
  BY DEF ReaderEnds, RemoveClient
<1>. QED  BY <1>1, <1>2 DEF ComesNearer, LeavesFor, StepsToLeave

LEMMA ReadersStayAttached ==
  ASSUME TypeOK, ReadersAttached, [Next]_vars
  PROVE  ReadersAttached' /\ \A c \in Conns : ComesNearer(c)
<1>. USE DEF TypeOK, ReadersAttached, ComesNearer
<1>d. CASE Die
  BY <1>d DEF Die
<1>1. ASSUME NEW c \in Conns, Connect(c)
      PROVE  ReadersAttached' /\ \A d \in Conns : ComesNearer(d)
  <2>1. CASE SendWelcome(c)
    BY <2>1 DEF SendWelcome, hubVars
  <2>2. CASE StartPumps(c) /\ clients' \subseteq clients \union {c}
    <3>1. /\ reader[c] = "idle" /\ reader'[c] = "reading" /\ c \in writing' /\ c \notin clients
          /\ \A d \in Conns : d # c => reader'[d] = reader[d]
      BY <2>2 DEF StartPumps, Goto
    <3>2. /\ linked' = linked \union {c} /\ writing' = writing \union {c}
      BY <2>2 DEF StartPumps
    <3>. QED  BY <2>2, <3>1, <3>2
  <2>. QED  BY <1>1, <2>1, <2>2 DEF Connect, Register, RegisterFull, RegisterClosed, hubVars
<1>2. ASSUME NEW c \in Conns, Read(c)
      PROVE  ReadersAttached' /\ \A d \in Conns : ComesNearer(d)
  <2>1. ASSUME NEW ch \in Channels, Subscribe(c, ch)
        PROVE  ReadersAttached' /\ \A d \in Conns : ComesNearer(d)
    <3>1. /\ c \in writing /\ clients' = clients /\ linked' = linked /\ writing' = writing
          /\ reader' = [reader EXCEPT ![c] = "replying"]
      BY <2>1 DEF Subscribe, Goto, hubVars
    <3>. QED  BY <3>1
  <2>2. ASSUME NEW ch \in Channels, Unsubscribe(c, ch)
        PROVE  ReadersAttached' /\ \A d \in Conns : ComesNearer(d)
    BY <2>2 DEF Unsubscribe, connVars
  <2>3. CASE Reply(c)
    BY <1>d, <2>3 DEF Reply, Goto, hubVars
  <2>4. CASE ReaderEnds(c) \/ Unregister(c)
    <3>1. /\ clients' = clients \ {c} /\ linked' = linked /\ writing' = writing
          /\ \A d \in Conns : d # c => reader'[d] = reader[d]
      BY <2>4 DEF ReaderEnds, Unregister, RemoveClient, Goto
    <3>. QED  BY <3>1
  <2>5. CASE Ask(c)
    <3>1. /\ c \in writing /\ clients' = clients /\ linked' = linked /\ writing' = writing
          /\ reader' = [reader EXCEPT ![c] = "replying"]
      BY <2>5 DEF Ask, Goto, hubVars
    <3>. QED  BY <3>1
  <2>. QED  BY <1>2, <2>1, <2>2, <2>3, <2>4, <2>5 DEF Read
<1>3. ASSUME NEW c \in Conns, WriterTakes(c) \/ WriterStops(c) \/ Disconnect(c)
      PROVE  ReadersAttached' /\ \A d \in Conns : ComesNearer(d)
  <2>1. /\ clients' = clients /\ reader' = reader /\ writing' \subseteq writing
        /\ linked' \subseteq linked /\ (writing' = writing \/ linked' = linked \ {c})
        /\ \A d \in writing : d # c => d \in writing'
    BY <1>3 DEF WriterTakes, WriterStops, Disconnect, hubVars, connVars
  <2>. QED  BY <2>1
<1>4. CASE Publish \/ Dispatch \/ DispatchLost
  BY <1>4 DEF Publish, Dispatch, DispatchLost, hubVars, connVars
<1>5. CASE Broadcast
  BY <1>d, <1>5 DEF Broadcast, hubVars, connVars
<1>6. CASE Close
  BY <1>6 DEF Close, connVars
<1>7. CASE UNCHANGED vars
  BY <1>7 DEF vars, hubVars, connVars
<1>. QED  BY <1>1, <1>2, <1>3, <1>4, <1>5, <1>6, <1>7 DEF Next

\* A connection that nobody writes to stays on its way out of the registry: at
\* most one answer is owed, then its reader ends and removes it, for any number of
\* connections and whatever they and the platform send (readPump, removeClient).
THEOREM DeadWritersAreLeaving ==
  Spec => [](ReadersAttached /\ DeadWritersCanLeave) /\ DeadWritersMoveOn
<1>1. Init => ReadersAttached
  BY DEF Init, ReadersAttached
<1>2. TypeOK /\ ReadersAttached /\ [Next]_vars => ReadersAttached'
  BY ReadersStayAttached
<1>3. TypeOK /\ ReadersAttached /\ [Next]_vars => [\A c \in Conns : LeavesFor(c)]_vars
  BY ReadersStayAttached, NearerIsLeaving
<1>4. ReadersAttached /\ RegistryIsSound => DeadWritersCanLeave
  BY DEF ReadersAttached, RegistryIsSound, DeadWritersCanLeave
<1>. QED  BY <1>1, <1>2, <1>3, <1>4, TypeCorrect, RegistrySound, PTL DEF Spec, DeadWritersMoveOn
=============================================================================
