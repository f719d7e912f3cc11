---------------------------- MODULE ServerProofs ----------------------------
(***************************************************************************)
(* Theorems of ServerLifecycle, for any budgets, requests and environment, *)
(* of EventDelivery, for any publications, handlers and crashes, and of    *)
(* DatasetExport, which runs beside the server.                            *)
(***************************************************************************)
EXTENDS ServerLifecycle, EventDelivery, DatasetExport, TLAPS

(***************************************************************************)
(* The server.  Before it serves nothing runs; the clock starts anew at    *)
(* the signal and again when Shutdown begins, and whoever has been there   *)
(* since is at least as old; and once the bus begins to close without      *)
(* Shutdown having run out of time, nobody is left.                        *)
(***************************************************************************)
Before == {"database", "bootstrap", "dependencies"}
Ending == {"closing", "emptying", "exited"}

Guarded == phase = "serving" /\ IsProduction => wired

Quiet ==
  /\ phase \in Before => Active = {} /\ \A r \in Arrivals : stage[r] = "absent"
  /\ phase \in Ending /\ cut = "no" => \A r \in Arrivals : stage[r] \in {"absent", "done"}
  /\ cut # "no" => phase \in Ending
  /\ \A r \in Arrivals :
       /\ stage[r] = "killed" => phase = "exited"
       /\ stage[r] = "panicked" => phase \in {"emptying", "exited"}
       /\ stage[r] = "generating" => r \in Generations
       /\ stage[r] = "publishing" => r \in Writers

Waited ==
  /\ phase \in Before \union {"serving"} => counted = {}
  /\ phase \in {"look", "sleep"} =>
       \A r \in counted : stage[r] = "generating" /\ age[r] >= clock
  /\ phase = "stopping" =>
       /\ clock <= StopBudget
       /\ \A r \in Active : age[r] >= clock
       /\ \A r \in counted : stage[r] = "generating" /\ age[r] >= WaitBudget + clock
  /\ cut = "shutdown" =>
       \A r \in Arrivals : r \in Active \/ stage[r] = "killed" =>
         /\ age[r] >= StopBudget
         /\ r \in counted => age[r] >= WaitBudget + StopBudget

InBus(r) == \E n \in 1 .. Len(bus) : bus[n] = r

Carried ==
  /\ missed \subseteq Lookups
  /\ phase \in Before \union {"exited"} => bus = << >>
  /\ \A r \in Writers : stage[r] \in {"saving", "done"} =>
       r \in heard \union dropped \union missed \/ InBus(r)

ServerInv == ServerTypeOK /\ Guarded /\ Quiet /\ Waited /\ Carried

LEMMA Budgets ==
  /\ WaitBudget \in Nat /\ StopBudget \in Nat /\ MaxAge \in Nat /\ BusSize \in Nat
  /\ MaxAge >= WaitBudget + StopBudget
  /\ Lookups \subseteq Writers
  /\ \A r \in Writers : r \in Arrivals /\ r \notin Generations
  /\ \A r \in Generations : r \in Arrivals
  /\ \A r \in Arrivals : r \in Generations \/ r \in Writers
BY ServerAssumption DEF Arrivals

LEMMA ServerInitInv == ServerInit => ServerInv
<1>. SUFFICES ASSUME ServerInit PROVE ServerInv
  OBVIOUS
<1>. USE Budgets, ServerAssumption DEF ServerInit
<1>1. ServerTypeOK
  <2>1. bus \in Seq(Writers)
    OBVIOUS
  <2>2. age \in [Arrivals -> 0 .. MaxAge] /\ clock \in 0 .. MaxAge
    OBVIOUS
  <2>. QED  BY <2>1, <2>2 DEF ServerTypeOK, Phases, Busy
<1>2. Guarded /\ Quiet /\ Carried
  BY DEF Guarded, Quiet, Carried, Active, Busy, Ending
<1>3. Waited
  BY DEF Waited, Before
<1>. QED  BY <1>1, <1>2, <1>3 DEF ServerInv

LEMMA StartingKeepsInv ==
  ASSUME ServerInv, Starting
  PROVE  ServerInv'
<1>. USE Budgets DEF ServerInv, bootVars, requestVars, busVars, Starting, Go, ConnectDatabase, Bootstrap, RefuseConfiguration, BuildDependencies
<1>1. ServerTypeOK'
  <2>1. environment.database \in BOOLEAN
    BY ServerAssumption DEF ServerTypeOK, EnvironmentRecord
  <2>. QED  BY <2>1 DEF ServerTypeOK, Phases, Busy
<1>2. Guarded'
  BY DEF Guarded, IsProduction, ValidateSecureAuthWiring
<1>3. Quiet'
  BY DEF ServerTypeOK, Quiet, Active, Busy, Before, Ending
<1>4. Waited'
  BY DEF ServerTypeOK, Quiet, Waited, Active, Busy, Before, Ending
<1>5. Carried'
  BY DEF ServerTypeOK, Quiet, Carried, InBus, Before, Busy
<1>. QED  BY <1>1, <1>2, <1>3, <1>4, <1>5

LEMMA AcceptKeepsInv ==
  ASSUME ServerInv, NEW r \in Arrivals, Accept(r)
  PROVE  ServerInv'
<1>. USE Budgets DEF ServerInv, bootVars, requestVars, busVars, Accept
<1>1. ServerTypeOK'
  BY DEF ServerTypeOK, Phases, Busy
<1>2. Guarded'
  BY DEF Guarded, IsProduction
<1>3. Quiet'
  BY DEF ServerTypeOK, Quiet, Active, Busy, Before, Ending
<1>4. Waited'
  BY DEF ServerTypeOK, Quiet, Waited, Active, Busy, Before, Ending
<1>5. Carried'
  BY DEF ServerTypeOK, Quiet, Carried, InBus, Before, Busy
<1>. QED  BY <1>1, <1>2, <1>3, <1>4, <1>5

LEMMA MoveKeepsInv ==
  ASSUME ServerInv, NEW r \in Arrivals, NEW from \in Busy, NEW to \in Busy \union {"done"},
         Move(r, from, to), to = "generating" => r \in Generations, to = "publishing" => r \in Writers,
         to = "saving" => from = "generating",
         to = "done" => from = "saving",
         counted' = IF from = "generating" THEN counted \ {r} ELSE counted,
         UNCHANGED busVars
  PROVE  ServerInv'
<1>. USE Budgets DEF ServerInv, bootVars, requestVars, busVars, Move
<1>1. ServerTypeOK'
  BY DEF ServerTypeOK, Phases, Busy
<1>2. Guarded'
  BY DEF Guarded, IsProduction
<1>3. Quiet'
  BY DEF ServerTypeOK, Quiet, Active, Busy, Before, Ending
<1>4. Waited'
  BY DEF ServerTypeOK, Quiet, Waited, Active, Busy, Before, Ending
<1>5. Carried'
  BY DEF ServerTypeOK, Quiet, Carried, InBus, Before, Busy
<1>. QED  BY <1>1, <1>2, <1>3, <1>4, <1>5

LEMMA PublishKeepsInv ==
  ASSUME ServerInv, NEW r \in Arrivals, Publish(r)
  PROVE  ServerInv'
<1>. USE Budgets DEF ServerInv, bootVars, requestVars, busVars, Move
<1>. r \in Writers /\ stage[r] = "publishing"
  BY DEF Publish, Quiet
<1>. /\ stage' = [stage EXCEPT ![r] = stage'[r]]
     /\ \/ stage'[r] = "saving" /\ age'[r] = age[r] /\ phase \notin {"emptying", "exited"}
        \/ stage'[r] = "panicked" /\ age'[r] = 0 /\ phase = "emptying"
     /\ age' = [age EXCEPT ![r] = age'[r]]
     /\ phase # "exited"
     /\ UNCHANGED <<environment, wired, phase, cut, clock, counted, heard, missed>>
  BY DEF Publish, ServerTypeOK, Busy, BusOpen, Phases
<1>. \/ bus' = Append(bus, r) /\ dropped' = dropped
     \/ bus' = bus /\ dropped' = dropped \union {r}
     \/ bus' = bus /\ dropped' = dropped /\ stage'[r] = "panicked"
  BY DEF Publish, ServerTypeOK
<1>1. ServerTypeOK'
  <2>1. bus' \in Seq(Writers)
    <3>1. bus \in Seq(Writers)
      BY DEF ServerTypeOK
    <3>2. Append(bus, r) \in Seq(Writers)
      BY <3>1
    <3>. QED  BY <3>1, <3>2
  <2>2. dropped' \subseteq Writers
    BY DEF ServerTypeOK
  <2>3. age' \in [Arrivals -> 0 .. MaxAge]
    BY DEF ServerTypeOK
  <2>4. stage' \in [Arrivals -> Busy \union {"absent", "done", "panicked", "killed"}]
    BY DEF ServerTypeOK, Busy
  <2>. QED  BY <2>1, <2>2, <2>3, <2>4 DEF ServerTypeOK
<1>2. Guarded'
  BY DEF Guarded, IsProduction
<1>3. Quiet'
  BY DEF ServerTypeOK, Quiet, Active, Busy, Before, Ending
<1>4. Waited'
  BY DEF ServerTypeOK, Quiet, Waited, Active, Busy, Before, Ending
<1>5. Carried'
  <2>1. ASSUME NEW w \in Writers, InBus(w) PROVE InBus(w)'
    <3>1. PICK n \in 1 .. Len(bus) : bus[n] = w
      BY <2>1 DEF InBus
    <3>2. n \in 1 .. Len(bus') /\ bus'[n] = w
      BY <3>1 DEF ServerTypeOK
    <3>. QED  BY <3>2 DEF InBus
  <2>2. stage'[r] = "saving" => r \in dropped' \/ InBus(r)'
    <3>1. CASE bus' = Append(bus, r)
      <4>1. bus'[Len(bus) + 1] = r /\ Len(bus) + 1 \in 1 .. Len(bus')
        BY <3>1 DEF ServerTypeOK
      <4>. QED  BY <4>1 DEF InBus
    <3>2. CASE bus' = bus
      BY <3>2
    <3>. QED  BY <3>1, <3>2
  <2>3. phase \notin Before \union {"exited"}
    BY DEF Quiet, Active, Before
  <2>4. dropped \subseteq dropped'
    OBVIOUS
  <2>. QED  BY <2>1, <2>2, <2>3, <2>4 DEF ServerTypeOK, Carried
<1>. QED  BY <1>1, <1>2, <1>3, <1>4, <1>5

LEMMA DispatchKeepsInv ==
  ASSUME ServerInv, Dispatch
  PROVE  ServerInv'
<1>. USE Budgets DEF ServerInv, bootVars, requestVars, busVars, Dispatch
<1>1. ServerTypeOK'
  BY DEF ServerTypeOK, Phases, Busy
<1>2. Guarded'
  BY DEF Guarded, IsProduction
<1>3. Quiet'
  BY DEF ServerTypeOK, Quiet, Active, Busy, Before, Ending
<1>4. Waited'
  BY DEF ServerTypeOK, Quiet, Waited, Active, Busy, Before, Ending
<1>5. Carried'
  <2>1. ASSUME NEW w \in Writers, InBus(w) PROVE InBus(w)' \/ w = Head(bus)
    <3>1. PICK n \in 1 .. Len(bus) : bus[n] = w
      BY <2>1 DEF InBus
    <3>2. CASE n = 1
      BY <3>1, <3>2
    <3>3. CASE n # 1
      <4>1. n - 1 \in 1 .. Len(Tail(bus)) /\ Tail(bus)[n - 1] = w
        BY <3>1, <3>3 DEF ServerTypeOK
      <4>. QED  BY <4>1 DEF InBus
    <3>. QED  BY <3>2, <3>3
  <2>2. Head(bus) \in heard' \union missed' /\ heard \subseteq heard' /\ missed \subseteq missed'
    OBVIOUS
  <2>3. missed' \subseteq Lookups
    BY DEF Carried
  <2>4. phase' \notin Before \union {"exited"}
    BY DEF Carried
  <2>. QED  BY <2>1, <2>2, <2>3, <2>4 DEF Carried
<1>. QED  BY <1>1, <1>2, <1>3, <1>4, <1>5

LEMMA SignalKeepsInv ==
  ASSUME ServerInv, Signal \/ ServeFails
  PROVE  ServerInv'
<1>. USE Budgets DEF ServerInv, bootVars, requestVars, busVars, Signal, ServeFails, Go
<1>1. ServerTypeOK'
  BY DEF ServerTypeOK, Phases, Busy
<1>2. Guarded'
  BY DEF Guarded, IsProduction
<1>3. Quiet'
  BY DEF ServerTypeOK, Quiet, Active, Busy, Before, Ending
<1>4. Waited'
  BY DEF ServerTypeOK, Quiet, Waited, Active, Busy, Before, Ending
<1>5. Carried'
  BY DEF ServerTypeOK, Quiet, Carried, InBus, Before, Busy
<1>. QED  BY <1>1, <1>2, <1>3, <1>4, <1>5

LEMMA StoppingKeepsInv ==
  ASSUME ServerInv, Stopping
  PROVE  ServerInv'
<1>. USE Budgets DEF ServerInv, bootVars, requestVars, busVars, Stopping, Go, LookAtInflight, KeepWaiting, HasInflight, Shutdown, ShutdownTimesOut, CloseBus, Exit
<1>1. ServerTypeOK'
  BY DEF ServerTypeOK, Phases, Busy
<1>2. Guarded'
  BY DEF Guarded, IsProduction
<1>3. Quiet'
  BY DEF ServerTypeOK, Quiet, Active, Busy, Before, Ending
<1>4. Waited'
  BY DEF ServerTypeOK, Quiet, Waited, Active, Busy, Before, Ending
<1>5. Carried'
  BY DEF ServerTypeOK, Quiet, Carried, InBus, Before, Busy
<1>. QED  BY <1>1, <1>2, <1>3, <1>4, <1>5

LEMMA TickKeepsInv ==
  ASSUME ServerInv, Tick
  PROVE  ServerInv'
<1>. USE Budgets DEF ServerInv, bootVars, requestVars, busVars, Tick, Later
<1>1. ServerTypeOK'
  BY DEF ServerTypeOK, Phases, Busy
<1>2. Guarded'
  BY DEF Guarded, IsProduction
<1>3. Quiet'
  BY DEF ServerTypeOK, Quiet, Active, Busy, Before, Ending
<1>4. Waited'
  BY DEF ServerTypeOK, Quiet, Waited, Active, Busy, Before, Ending
<1>5. Carried'
  BY DEF ServerTypeOK, Quiet, Carried, InBus, Before, Busy
<1>. QED  BY <1>1, <1>2, <1>3, <1>4, <1>5

LEMMA ServerStepKeepsInv == ServerInv /\ [ServerNext]_serverVars => ServerInv'
<1>. SUFFICES ASSUME ServerInv, [ServerNext]_serverVars PROVE ServerInv'
  OBVIOUS
<1>1. CASE Starting \/ Stopping \/ Signal \/ ServeFails \/ Dispatch \/ Tick
  BY <1>1, StartingKeepsInv, StoppingKeepsInv, SignalKeepsInv, DispatchKeepsInv, TickKeepsInv
<1>2. ASSUME NEW r \in Arrivals, Accept(r) \/ Publish(r) PROVE ServerInv'
  BY <1>2, AcceptKeepsInv, PublishKeepsInv
<1>3. ASSUME NEW r \in Arrivals,
             StartGenerating(r) \/ StopGenerating(r) \/ WriteRow(r) \/ Answer(r)
      PROVE  ServerInv'
  BY <1>3, MoveKeepsInv DEF StartGenerating, StopGenerating, WriteRow, Answer, Busy, Move,
    busVars
<1>4. CASE UNCHANGED serverVars
  <2>. USE <1>4 DEF serverVars, bootVars, requestVars, busVars, ServerInv
  <2>1. ServerTypeOK' /\ Guarded' /\ Carried'
    BY DEF ServerTypeOK, Guarded, IsProduction, Carried, InBus
  <2>2. Quiet' /\ Waited'
    BY DEF Quiet, Waited, Active
  <2>. QED  BY <2>1, <2>2
<1>. QED  BY <1>1, <1>2, <1>3, <1>4 DEF ServerNext, Handle

THEOREM ServerInvariant == ServerSpec => []ServerInv
BY ServerInitInv, ServerStepKeepsInv, PTL DEF ServerSpec

----------------------------------------------------------------------------
\* Types of the server; ages and clocks stay within the bound on time.
THEOREM ServerTypes == ServerSpec => []ServerTypeOK
<1>1. ServerInv => ServerTypeOK
  BY DEF ServerInv
<1>. QED  BY <1>1, ServerInvariant, PTL

\* No server in production serves without its token and permission checks,
\* whichever of the two names APP_ENV has (ValidateSecureAuthWiring).
THEOREM ProductionStaysGuarded == ServerSpec => []ProductionIsGuarded
<1>1. ServerInv => ProductionIsGuarded
  BY DEF ServerInv, Guarded, IsProduction, ProductionIsGuarded
<1>. QED  BY <1>1, ServerInvariant, PTL

\* Nobody is left when a graceful exit closes the bus, and whoever is killed at
\* the exit of a signalled server has had both budgets, or the second one (run),
\* for any budgets and any number of requests.
THEOREM NobodyGetsCutShort == ServerSpec => []NobodyIsCutShort
<1>1. ServerInv => NobodyIsCutShort
  BY Budgets DEF ServerInv, ServerTypeOK, Quiet, Waited, Ending, NobodyIsCutShort
<1>. QED  BY <1>1, ServerInvariant, PTL

\* Close empties the channel: what was published is heard, dropped when the
\* channel was full, or missed for its request was over (inprocess.go).
THEOREM EventsGetHeard == ServerSpec => []PublishedEventsAreHeard
<1>1. ServerInv => PublishedEventsAreHeard
  <2>. SUFFICES ASSUME ServerInv, phase = "exited", NEW r \in Writers, stage[r] = "done"
                PROVE  r \in heard \union dropped \union (missed \intersect Lookups)
    BY DEF PublishedEventsAreHeard
  <2>1. ~ InBus(r)
    BY DEF ServerInv, Carried, InBus
  <2>. QED  BY <2>1 DEF ServerInv, Carried
<1>. QED  BY <1>1, ServerInvariant, PTL

(***************************************************************************)
(* What ShutdownEnds rests on, apart from run(), the dispatcher and the    *)
(* clock going on: a signalled server has a bounded number of looks,       *)
(* sleeps and ticks to go, and once its bus closes nobody fills it again.  *)
(***************************************************************************)
Draining == Ending \union {"look", "sleep", "stopping"}

RunLeft ==
  CASE phase = "look" -> 2 * (WaitBudget - clock) + StopBudget + 4
    [] phase = "sleep" -> 2 * (WaitBudget - clock) + StopBudget + 3
    [] phase = "stopping" -> (StopBudget - clock) + 3
    [] phase = "closing" -> 2
    [] phase = "emptying" -> 1
    [] OTHER -> 0

\* The loop looks again only before the deadline, and sleeps a tick at a time.
WithinBudget ==
  /\ phase = "look" => clock <= WaitBudget
  /\ phase = "sleep" => clock < WaitBudget
  /\ phase = "stopping" => clock <= StopBudget

RunsDown ==
  phase \in Draining =>
    /\ phase' \in Draining
    /\ RunLeft' \in 0 .. RunLeft
    /\ Stopping \/ Tick => RunLeft' < RunLeft
    /\ phase = "emptying" => Len(bus') <= Len(bus) /\ (Dispatch => Len(bus') < Len(bus))

ShutdownRunsDown == [][RunsDown]_serverVars

LEMMA RunLeftIsBounded ==
  ASSUME ServerTypeOK, WithinBudget
  PROVE  RunLeft \in 0 .. 2 * WaitBudget + StopBudget + 4
<1>1. clock \in Nat /\ WaitBudget \in Nat /\ StopBudget \in Nat
  BY Budgets DEF ServerTypeOK
<1>2. CASE phase \in {"look", "sleep"}
  <2>1. WaitBudget - clock \in 0 .. WaitBudget
    BY <1>1, <1>2 DEF WithinBudget
  <2>2. RunLeft = 2 * (WaitBudget - clock) + StopBudget + 4
        \/ RunLeft = 2 * (WaitBudget - clock) + StopBudget + 3
    BY <1>2 DEF RunLeft
  <2>. QED  BY <1>1, <2>1, <2>2
<1>3. CASE phase = "stopping"
  <2>1. RunLeft = (StopBudget - clock) + 3
    BY <1>3 DEF RunLeft
  <2>. QED  BY <1>1, <1>3, <2>1 DEF WithinBudget
<1>4. CASE phase \notin {"look", "sleep", "stopping"}
  <2>1. RunLeft \in 0 .. 2
    BY <1>4 DEF RunLeft
  <2>. QED  BY <1>1, <2>1
<1>. QED  BY <1>2, <1>3, <1>4

\* Everything but run(), its signal and the clock leaves the phase and the clock.
LEMMA OthersLeaveTheRun ==
  ASSUME ServerTypeOK, WithinBudget, phase' = phase, clock' = clock
  PROVE  WithinBudget' /\ RunLeft' = RunLeft /\ RunLeft' \in 0 .. RunLeft
<1>1. WithinBudget' /\ RunLeft' = RunLeft
  BY DEF WithinBudget, RunLeft
<1>. QED  BY <1>1, RunLeftIsBounded, Budgets

\* A handler's move adds nothing to a bus that closes.
LEMMA HandlersLeaveTheBus ==
  ASSUME ServerTypeOK, NEW r \in Arrivals, Accept(r) \/ Handle(r)
  PROVE  phase' = phase /\ clock' = clock /\ (phase = "emptying" => bus' = bus)
BY DEF Accept, Handle, StartGenerating, StopGenerating, WriteRow, Publish, Answer, Move,
       BusOpen, busVars

LEMMA RunStep ==
  ASSUME ServerTypeOK, WithinBudget, [ServerNext]_serverVars
  PROVE  WithinBudget' /\ RunsDown
<1>. USE Budgets DEF Ending
<1>1. CASE Stopping
  <2>1. ~ Dispatch
    BY <1>1 DEF Stopping, LookAtInflight, Shutdown, ShutdownTimesOut, CloseBus, Exit, Go, Dispatch
  <2>2. CASE LookAtInflight
    <3>1. clock \in Nat /\ clock <= WaitBudget /\ phase = "look" /\ ~ Tick
      BY <2>2 DEF LookAtInflight, Go, ServerTypeOK, WithinBudget, Tick
    <3>2. RunLeft = 2 * (WaitBudget - clock) + StopBudget + 4
      BY <3>1 DEF RunLeft
    <3>3. CASE phase' = "sleep" /\ KeepWaiting /\ clock' = clock
      <4>1. RunLeft' = 2 * (WaitBudget - clock) + StopBudget + 3
        BY <3>3 DEF RunLeft
      <4>2. WithinBudget'
        BY <3>3 DEF WithinBudget, KeepWaiting
      <4>. QED  BY <2>1, <3>1, <3>2, <3>3, <4>1, <4>2 DEF RunsDown, Draining
    <3>4. CASE phase' = "stopping" /\ clock' = 0
      <4>1. RunLeft' = (StopBudget - 0) + 3
        BY <3>4 DEF RunLeft
      <4>2. WithinBudget'
        BY <3>4 DEF WithinBudget
      <4>. QED  BY <2>1, <3>1, <3>2, <3>4, <4>1, <4>2 DEF RunsDown, Draining
    <3>. QED  BY <2>2, <3>3, <3>4 DEF LookAtInflight, Go
  <2>3. CASE Shutdown \/ ShutdownTimesOut
    BY <2>3, <2>1 DEF Shutdown, ShutdownTimesOut, Go, ServerTypeOK, WithinBudget, RunsDown,
                      RunLeft, Draining
  <2>4. CASE CloseBus \/ Exit
    BY <2>4, <2>1 DEF CloseBus, Exit, Go, ServerTypeOK, WithinBudget, RunsDown, RunLeft,
                      Draining, busVars
  <2>. QED  BY <1>1, <2>2, <2>3, <2>4 DEF Stopping
<1>2. CASE Tick
  <2>1. clock \in Nat /\ ~ Dispatch
    BY <1>2 DEF Tick, ServerTypeOK, Dispatch, busVars
  <2>2. CASE phase = "serving"
    BY <1>2, <2>2 DEF Tick, WithinBudget, RunsDown, Draining
  <2>3. CASE phase = "sleep"
    <3>1. phase' = "look" /\ clock < WaitBudget /\ clock' = clock + 1
      BY <1>2, <2>1, <2>3 DEF Tick, Later, WithinBudget
    <3>2. /\ RunLeft = 2 * (WaitBudget - clock) + StopBudget + 3
          /\ RunLeft' = 2 * (WaitBudget - (clock + 1)) + StopBudget + 4
      BY <2>3, <3>1 DEF RunLeft
    <3>3. WithinBudget'
      BY <2>1, <3>1 DEF WithinBudget
    <3>. QED  BY <2>1, <2>3, <3>1, <3>2, <3>3 DEF RunsDown, Draining
  <2>4. CASE phase = "stopping"
    <3>1. phase' = "stopping" /\ clock < StopBudget /\ clock' = clock + 1
      BY <1>2, <2>1, <2>4 DEF Tick, Later
    <3>2. /\ RunLeft = (StopBudget - clock) + 3
          /\ RunLeft' = (StopBudget - (clock + 1)) + 3
      BY <2>4, <3>1 DEF RunLeft
    <3>3. WithinBudget'
      BY <2>1, <3>1 DEF WithinBudget
    <3>. QED  BY <2>1, <2>4, <3>1, <3>2, <3>3 DEF RunsDown, Draining
  <2>. QED  BY <1>2, <2>2, <2>3, <2>4 DEF Tick
<1>3. CASE Signal \/ ServeFails \/ Starting
  BY <1>3 DEF Signal, ServeFails, Starting, ConnectDatabase, Bootstrap, RefuseConfiguration,
              BuildDependencies, Go, ServerTypeOK, WithinBudget, RunsDown, Draining
<1>4. CASE ~ Stopping /\ ~ Tick /\ Dispatch
  <2>1. /\ phase' = phase /\ clock' = clock /\ bus # << >> /\ bus' = Tail(bus)
        /\ bus \in Seq(Writers)
    BY <1>4 DEF Dispatch, ServerTypeOK
  <2>2. Len(bus') < Len(bus) /\ Len(bus') <= Len(bus)
    BY <2>1
  <2>. QED  BY <1>4, <2>1, <2>2, OthersLeaveTheRun DEF RunsDown
<1>5. ASSUME NEW r \in Arrivals, Accept(r) \/ Handle(r), ~ Stopping, ~ Tick, ~ Dispatch
      PROVE  WithinBudget' /\ RunsDown
  <2>1. Len(bus) \in Nat
    BY DEF ServerTypeOK
  <2>. QED  BY <1>5, <2>1, HandlersLeaveTheBus, OthersLeaveTheRun DEF RunsDown
<1>6. CASE UNCHANGED serverVars /\ ~ Stopping /\ ~ Tick /\ ~ Dispatch
  <2>1. Len(bus) \in Nat
    BY DEF ServerTypeOK
  <2>. QED  BY <1>6, <2>1, OthersLeaveTheRun DEF RunsDown, serverVars, busVars
<1>. QED  BY <1>1, <1>2, <1>3, <1>4, <1>5, <1>6 DEF ServerNext

\* Whatever hangs and whoever still arrives, a signalled server has at most
\* 2 * WaitBudget + StopBudget + 4 steps of its own before it exits, apart from
\* emptying a bus that only shrinks (run, Close of inprocess.go), for any budgets.
THEOREM ShutdownIsBounded == ServerSpec => []WithinBudget /\ ShutdownRunsDown
<1>1. ServerInit => WithinBudget
  BY DEF ServerInit, WithinBudget
<1>2. ServerTypeOK /\ WithinBudget /\ [ServerNext]_serverVars => WithinBudget'
  BY RunStep
<1>3. ServerTypeOK /\ WithinBudget /\ [ServerNext]_serverVars => [RunsDown]_serverVars
  BY RunStep
<1>. QED  BY <1>1, <1>2, <1>3, ServerTypes, PTL DEF ServerSpec, ShutdownRunsDown

----------------------------------------------------------------------------
(***************************************************************************)
(* The Kafka bus.  The loop has settled, or failed on, every offset behind *)
(* the committed one up to the one it is at; a commit takes them all along.*)
(***************************************************************************)
Reached == IF rpc = "fetch" THEN offset ELSE offset - 1

LoopFits ==
  /\ rpc = "unread" => offset = 0
  /\ transport = "none" => rpc = "unread"
  /\ committed <= offset
  /\ rpc \in {"handle", "commit"} => committed < offset
  /\ rpc = "handle" =>
       /\ handler \in Nat
       /\ ~ handlerErr => \A h \in Handlers : h < handler => h \in done[offset]
  /\ rpc = "commit" => Settled(offset)
  /\ \A o \in committed + 1 .. Reached : Settled(o) \/ o \in failed

DeliveryInv == DeliveryTypeOK /\ LoopFits /\ OnlyFailuresArePassedOver

LEMMA DeliveryBounds ==
  /\ LastHandler \in Nat /\ LastHandler > 0 /\ Attempts \in Nat
  /\ MaxWritten \in Nat /\ MaxCrashes \in Nat
BY DeliveryAssumption

LEMMA DeliveryInitInv == DeliveryInit => DeliveryInv
<1>. SUFFICES ASSUME DeliveryInit PROVE DeliveryInv
  OBVIOUS
<1>. USE DeliveryBounds DEF DeliveryInit
<1>1. DeliveryTypeOK
  <2>1. /\ written \in Seq(Publications \union {Junk}) /\ Len(written) = 0
        /\ committed \in 0 .. Len(written) /\ offset \in 0 .. Len(written)
        /\ Len(written) <= MaxWritten
    OBVIOUS
  <2>5. /\ transport \in {"none", "kafka", "inprocess"} /\ subscribed \in BOOLEAN
        /\ rpc \in {"unread", "fetch", "handle", "commit"} /\ handlerErr \in BOOLEAN
    OBVIOUS
  <2>2. /\ tries \in [Publications -> 0 .. Attempts]
        /\ handler \in 1 .. LastHandler + 1
        /\ crashes \in 0 .. MaxCrashes
    OBVIOUS
  <2>3. done \in [Offsets -> SUBSET Handlers] /\ failed \subseteq Offsets
    OBVIOUS
  <2>4. outcome \in [Publications -> {"none", "trying", "accepted", "failed"}]
    OBVIOUS
  <2>. HIDE DEF DeliveryInit
  <2>. QED  BY <2>1, <2>2, <2>3, <2>4, <2>5 DEF DeliveryTypeOK
<1>2. LoopFits /\ OnlyFailuresArePassedOver
  BY DEF LoopFits, OnlyFailuresArePassedOver, Reached
<1>. QED  BY <1>1, <1>2 DEF DeliveryInv

LEMMA DeliveryRanges ==
  ASSUME DeliveryTypeOK
  PROVE  /\ Len(written) \in Nat /\ Len(written) <= MaxWritten
         /\ committed \in Nat /\ committed <= Len(written)
         /\ offset \in Nat /\ offset <= Len(written)
         /\ handler \in Nat /\ handler > 0 /\ handler <= LastHandler + 1
BY DeliveryBounds DEF DeliveryTypeOK

\* A message is added; the loop and the offsets stay as they are.
LEMMA AppendKeepsInv ==
  ASSUME DeliveryInv, NEW m \in Publications \union {Junk}, Len(written) < MaxWritten,
         written' = Append(written, m),
         outcome' \in [Publications -> {"none", "trying", "accepted", "failed"}],
         tries' \in [Publications -> 0 .. Attempts],
         UNCHANGED <<transport, subscribed, committed, loopVars, recordVars, crashes>>
  PROVE  DeliveryInv'
<1>. USE DeliveryBounds DEF DeliveryInv, loopVars, recordVars
<1>1. /\ written' \in Seq(Publications \union {Junk})
      /\ Len(written') = Len(written) + 1
      /\ \A o \in 1 .. Len(written) : written'[o] = written[o]
  BY DEF DeliveryTypeOK
<1>2. DeliveryTypeOK'
  BY <1>1 DEF DeliveryTypeOK
<1>3. ASSUME NEW o \in 1 .. Len(written), Settled(o) PROVE Settled(o)'
  BY <1>1, <1>3 DEF Settled
<1>4. LoopFits'
  BY <1>3 DEF DeliveryTypeOK, LoopFits, Reached
<1>5. OnlyFailuresArePassedOver'
  BY <1>3 DEF DeliveryTypeOK, OnlyFailuresArePassedOver
<1>. QED  BY <1>2, <1>4, <1>5

\* The start, a publication or its attempt that writes nothing: the loop and
\* the partition stay as they are, except that a reader may begin.
LEMMA AsideKeepsInv ==
  ASSUME DeliveryInv,
         transport' \in {"none", "kafka", "inprocess"}, subscribed' \in BOOLEAN,
         outcome' \in [Publications -> {"none", "trying", "accepted", "failed"}],
         tries' \in [Publications -> 0 .. Attempts],
         rpc' = rpc \/ (rpc = "unread" /\ rpc' = "fetch"),
         transport' = "none" => transport = "none" /\ rpc' = rpc,
         UNCHANGED <<written, committed, offset, handler, handlerErr, recordVars, crashes>>
  PROVE  DeliveryInv'
<1>. USE DeliveryBounds DEF DeliveryInv, recordVars
<1>1. DeliveryTypeOK'
  BY DEF DeliveryTypeOK
<1>2. LoopFits' /\ OnlyFailuresArePassedOver'
  BY DEF DeliveryTypeOK, LoopFits, OnlyFailuresArePassedOver, Reached, Settled
<1>. QED  BY <1>1, <1>2

LEMMA LoopKeepsInv ==
  ASSUME DeliveryInv, ConsumeLoop \/ Crash
  PROVE  DeliveryInv'
<1>0. /\ Len(written) \in Nat /\ committed \in Nat /\ committed <= Len(written)
      /\ offset \in Nat /\ offset <= Len(written) /\ Len(written) <= MaxWritten
      /\ handler \in Nat /\ handler > 0 /\ handler <= LastHandler + 1
  BY DeliveryRanges DEF DeliveryInv
<1>. USE DeliveryBounds, <1>0 DEF DeliveryInv, producerVars, loopVars, recordVars
<1>1. CASE FetchMessage
  <2>. USE <1>1 DEF FetchMessage
  <2>10. handlerErr' \in BOOLEAN
    BY Zenon
  <2>11. rpc' \in {"handle", "commit"}
    OBVIOUS
  <2>12. offset' \in 0 .. Len(written') /\ handler' \in 1 .. LastHandler + 1
    OBVIOUS
  <2>5. /\ offset' \in 0 .. Len(written') /\ handler' \in 1 .. LastHandler + 1
        /\ rpc' \in {"handle", "commit"} /\ handlerErr' \in BOOLEAN
    BY <2>10, <2>11, <2>12
  <2>1. DeliveryTypeOK'
    BY <2>5 DEF DeliveryTypeOK
  <2>2. rpc' = "commit" => Settled(offset)'
    BY DEF Settled
  <2>6. offset' = offset + 1 /\ Reached' = Reached /\ committed' = committed
    BY <2>5 DEF Reached
  <2>7. \A o : Settled(o) => Settled(o)'
    BY DEF Settled
  <2>8. \A o \in committed' + 1 .. Reached' : Settled(o)' \/ o \in failed'
    BY <2>6, <2>7 DEF LoopFits
  <2>9. \A h \in Handlers : ~ h < handler'
    BY DEF Handlers
  <2>3. LoopFits'
    BY <2>2, <2>5, <2>6, <2>8, <2>9 DEF LoopFits
  <2>4. OnlyFailuresArePassedOver'
    BY DEF OnlyFailuresArePassedOver, Settled
  <2>. QED  BY <2>1, <2>3, <2>4
<1>2. CASE RunHandler
  <2>. USE <1>2 DEF RunHandler
  <2>1. handler \in Handlers /\ offset \in Offsets
    BY DEF DeliveryTypeOK, LoopFits, Handlers, Offsets
  <2>2. /\ done' \in [Offsets -> SUBSET Handlers]
        /\ \A o \in Offsets : done[o] \subseteq done'[o]
        /\ ~ handlerErr' => handler \in done'[offset]
    BY <2>1 DEF DeliveryTypeOK
  <2>12. handler' \in 1 .. LastHandler + 1
    BY DEF DeliveryTypeOK
  <2>13. handlerErr' \in BOOLEAN
    BY Zenon DEF DeliveryTypeOK
  <2>8. handler' \in 1 .. LastHandler + 1 /\ handlerErr' \in BOOLEAN
    BY <2>12, <2>13
  <2>3. DeliveryTypeOK'
    BY <2>2, <2>8 DEF DeliveryTypeOK
  <2>4. ASSUME NEW o \in Offsets, Settled(o) PROVE Settled(o)'
    BY <2>2, <2>4 DEF Settled
  <2>9. \A o \in Nat : 0 < o /\ o <= offset => o \in Offsets
    BY DEF Offsets
  <2>5. /\ handler' \in Nat
        /\ ~ handlerErr' => \A h \in Handlers : h < handler' => h \in done'[offset]
    BY <2>1, <2>2 DEF DeliveryTypeOK, LoopFits
  <2>10. Reached' = Reached /\ Reached < offset /\ Reached \in Nat
    BY DEF Reached, LoopFits
  <2>11. \A o \in committed' + 1 .. Reached' : Settled(o)' \/ o \in failed'
    BY <2>4, <2>9, <2>10 DEF LoopFits
  <2>6. LoopFits'
    BY <2>5, <2>11 DEF LoopFits
  <2>7. OnlyFailuresArePassedOver'
    <3>1. committed < offset /\ committed' = committed
      BY DEF LoopFits
    <3>2. \A o \in 1 .. committed : o \in Offsets
      BY <3>1, <2>9
    <3>3. \A o \in 1 .. committed : \A q \in o + 1 .. committed : q \in Offsets
      BY <3>1, <2>9
    <3>. QED  BY <3>1, <3>2, <3>3, <2>4 DEF OnlyFailuresArePassedOver
  <2>. QED  BY <2>3, <2>6, <2>7
<1>3. CASE EndOfHandlers
  <2>. USE <1>3 DEF EndOfHandlers, MayCommit
  <2>1. offset \in Offsets /\ committed < offset
    BY DEF DeliveryTypeOK, LoopFits, Offsets
  <2>2. ASSUME ~ handlerErr PROVE Settled(offset)
    <3>1. \A h \in Handlers : h < handler
      BY DEF Handlers
    <3>2. \A h \in Handlers : h \in done[offset]
      BY <2>2, <3>1 DEF LoopFits
    <3>3. done[offset] \subseteq Handlers
      BY <2>1 DEF DeliveryTypeOK
    <3>. QED  BY <3>2, <3>3 DEF Settled
  <2>3. DeliveryTypeOK'
    BY <2>1 DEF DeliveryTypeOK
  <2>4. LoopFits'
    BY <2>1, <2>2 DEF DeliveryTypeOK, LoopFits, Reached, Settled
  <2>5. OnlyFailuresArePassedOver'
    BY <2>1 DEF DeliveryTypeOK, OnlyFailuresArePassedOver, Settled
  <2>. QED  BY <2>3, <2>4, <2>5
<1>4. CASE CommitMessages
  <2>. USE <1>4 DEF CommitMessages
  <2>1. Settled(offset) /\ committed < offset
    BY DEF LoopFits
  <2>2. DeliveryTypeOK'
    BY DEF DeliveryTypeOK
  <2>3. LoopFits'
    BY <2>1 DEF DeliveryTypeOK, LoopFits, Reached, Settled
  <2>4. OnlyFailuresArePassedOver'
    <3>1. CASE committed' = committed
      BY <3>1 DEF OnlyFailuresArePassedOver, Settled
    <3>2. ASSUME committed' = offset, NEW o \in 1 .. offset
          PROVE  Settled(o) \/ (o \in failed /\ \E q \in o + 1 .. offset : Settled(q))
      BY <2>1, <3>2 DEF DeliveryTypeOK, LoopFits, Reached, OnlyFailuresArePassedOver
    <3>. QED  BY <3>1, <3>2 DEF OnlyFailuresArePassedOver, Settled
  <2>. QED  BY <2>2, <2>3, <2>4
<1>5. CASE Crash
  <2>. USE <1>5 DEF Crash, NextReader
  <2>5. offset' \in 0 .. Len(written') /\ handler' \in 1 .. LastHandler + 1
    OBVIOUS
  <2>6. handlerErr' \in BOOLEAN
    BY Zenon
  <2>3. /\ offset' \in 0 .. Len(written') /\ handler' \in 1 .. LastHandler + 1
        /\ rpc' = "fetch" /\ handlerErr' \in BOOLEAN
    BY <2>5, <2>6
  <2>4. crashes' \in 0 .. MaxCrashes
    BY DEF DeliveryTypeOK
  <2>1. DeliveryTypeOK'
    BY <2>3, <2>4 DEF DeliveryTypeOK
  <2>2. LoopFits' /\ OnlyFailuresArePassedOver'
    BY DEF DeliveryTypeOK, LoopFits, OnlyFailuresArePassedOver, Reached, Settled
  <2>. QED  BY <2>1, <2>2
<1>. QED  BY <1>1, <1>2, <1>3, <1>4, <1>5 DEF ConsumeLoop

LEMMA DeliveryStepKeepsInv == DeliveryInv /\ [DeliveryNext]_deliveryVars => DeliveryInv'
<1>. SUFFICES ASSUME DeliveryInv, [DeliveryNext]_deliveryVars PROVE DeliveryInv'
  OBVIOUS
<1>. USE DeliveryBounds DEF producerVars, loopVars
<1>1. CASE InitEventBus
  <2>1. /\ transport' \in {"none", "kafka", "inprocess"} /\ subscribed' \in BOOLEAN
        /\ outcome' \in [Publications -> {"none", "trying", "accepted", "failed"}]
        /\ tries' \in [Publications -> 0 .. Attempts]
        /\ UNCHANGED <<written, committed, offset, handler, handlerErr, recordVars, crashes>>
    BY <1>1 DEF InitEventBus, DeliveryInv, DeliveryTypeOK, recordVars
  <2>2. /\ rpc' = rpc \/ (rpc = "unread" /\ rpc' = "fetch")
        /\ transport' # "none"
    BY <1>1 DEF InitEventBus, DeliveryInv, DeliveryTypeOK, LoopFits
  <2>. QED  BY <2>1, <2>2, AsideKeepsInv
<1>2. CASE Subscribe
  BY <1>2, AsideKeepsInv DEF Subscribe, DeliveryInv, DeliveryTypeOK, recordVars
<1>3. CASE WriteJunk
  BY <1>3, AppendKeepsInv DEF WriteJunk, DeliveryInv, DeliveryTypeOK
<1>4. CASE ConsumeLoop \/ Crash
  BY <1>4, LoopKeepsInv
<1>5. ASSUME NEW e \in Publications, PublishEnvelope(e) \/ GiveUp(e) PROVE DeliveryInv'
  BY <1>5, AsideKeepsInv DEF PublishEnvelope, GiveUp, Reports, DeliveryInv, DeliveryTypeOK,
    recordVars
<1>6. ASSUME NEW e \in Publications, WriteMessage(e) PROVE DeliveryInv'
  <2>1. /\ outcome' \in [Publications -> {"none", "trying", "accepted", "failed"}]
        /\ tries' \in [Publications -> 0 .. Attempts]
    <3>1. /\ outcome \in [Publications -> {"none", "trying", "accepted", "failed"}]
          /\ tries \in [Publications -> 0 .. Attempts] /\ tries[e] \in 0 .. Attempts
      BY DEF DeliveryInv, DeliveryTypeOK
    <3>2. tries[e] + 1 \in 0 .. Attempts
      BY <1>6, <3>1 DEF WriteMessage
    <3>3. /\ tries' = [tries EXCEPT ![e] = tries[e] + 1]
          /\ \/ outcome' = [outcome EXCEPT ![e] = "trying"]
             \/ outcome' = [outcome EXCEPT ![e] = "accepted"]
      BY <1>6 DEF WriteMessage, Reports
    <3>. QED  BY <3>1, <3>2, <3>3
  <2>2. CASE UNCHANGED written
    BY <1>6, <2>1, <2>2, AsideKeepsInv DEF WriteMessage, DeliveryInv, DeliveryTypeOK, recordVars
  <2>3. CASE Len(written) < MaxWritten /\ written' = Append(written, e)
    BY <1>6, <2>1, <2>3, AppendKeepsInv DEF WriteMessage
  <2>. QED  BY <1>6, <2>2, <2>3 DEF WriteMessage
<1>7. CASE UNCHANGED deliveryVars
  BY <1>7, AsideKeepsInv DEF deliveryVars, DeliveryInv, DeliveryTypeOK, recordVars
<1>. QED  BY <1>1, <1>2, <1>3, <1>4, <1>5, <1>6, <1>7 DEF DeliveryNext

THEOREM DeliveryInvariant == DeliverySpec => []DeliveryInv
BY DeliveryInitInv, DeliveryStepKeepsInv, PTL DEF DeliverySpec

\* Types of the bus; the loop is never ahead of the partition.
THEOREM DeliveryTypes == DeliverySpec => []DeliveryTypeOK
<1>1. DeliveryInv => DeliveryTypeOK
  BY DEF DeliveryInv
<1>. QED  BY <1>1, DeliveryInvariant, PTL

\* Only a message on which a handler failed is ever passed over, by the commit
\* of a later one (consumeLoop), for any partition, handlers and crashes.
THEOREM OnlyFailuresGetPassedOver == DeliverySpec => []OnlyFailuresArePassedOver
<1>1. DeliveryInv => OnlyFailuresArePassedOver
  BY DEF DeliveryInv
<1>. QED  BY <1>1, DeliveryInvariant, PTL

(***************************************************************************)
(* What WrittenEventsAreHandled rests on, apart from the loop going on and *)
(* crashes coming to an end: an event that Publish reported is in the      *)
(* partition of every process that reads it, between two crashes the loop  *)
(* has a bounded number of steps to go to any message, and it passes none  *)
(* that has not been handled or failed on.                                 *)
(***************************************************************************)
StepsPerMessage == LastHandler + 3

\* Steps left on the message the loop has in hand.
InHand ==
  CASE rpc = "handle" -> (LastHandler + 1 - handler) + 2
    [] rpc = "commit" -> 1
    [] OTHER -> 0

\* Steps left until the loop has done with the message at offset o.
StepsTo(o) ==
  IF rpc = "unread" \/ o <= Reached THEN 0
  ELSE (o - offset) * StepsPerMessage + InHand

LoopComesTo(o) ==
  rpc # "unread" /\ crashes' = crashes =>
    /\ StepsTo(o)' \in 0 .. StepsTo(o)
    /\ ConsumeLoop /\ StepsTo(o) > 0 => StepsTo(o)' < StepsTo(o)

LoopRunsDown == [][\A o \in 1 .. Len(written) : LoopComesTo(o)]_deliveryVars

NoneIsSkipped ==
  \A o \in 1 .. Len(written) :
    rpc # "unread" /\ StepsTo(o) = 0 => Settled(o) \/ o \in failed

AcceptedIsThere ==
  /\ \A e \in Publications :
       outcome[e] = "accepted" => rpc = "unread" \/ \E o \in 1 .. Len(written) : written[o] = e
  /\ transport = "inprocess" => rpc = "unread"
  /\ transport = "none" => \A e \in Publications : outcome[e] = "none"

LEMMA MessagesTimes ==
  /\ StepsPerMessage \in Nat /\ StepsPerMessage = LastHandler + 3 /\ LastHandler \in Nat
  /\ \A m \in Nat : /\ m * StepsPerMessage \in Nat
                     /\ (m + 1) * StepsPerMessage = m * StepsPerMessage + StepsPerMessage
BY DeliveryBounds DEF StepsPerMessage

LEMMA StepsToIsNat ==
  ASSUME DeliveryInv, NEW o \in Nat, rpc # "unread", o > Reached
  PROVE  /\ o - offset \in Nat /\ (o - offset) * StepsPerMessage \in Nat
         /\ InHand \in Nat /\ (InHand = 0 => rpc = "fetch")
         /\ StepsTo(o) = (o - offset) * StepsPerMessage + InHand
         /\ StepsTo(o) \in Nat /\ StepsTo(o) > 0
<1>1. /\ offset \in Nat /\ handler \in Nat /\ handler <= LastHandler + 1 /\ LastHandler \in Nat
      /\ rpc \in {"fetch", "handle", "commit"}
  BY DeliveryRanges, DeliveryBounds DEF DeliveryInv, DeliveryTypeOK
<1>2. o - offset \in Nat /\ (rpc = "fetch" => o - offset > 0)
  BY <1>1 DEF Reached
<1>3. PICK m \in Nat : m = o - offset
  BY <1>2
<1>4. m * StepsPerMessage \in Nat /\ (m > 0 => m * StepsPerMessage > 0)
  <2>1. m * StepsPerMessage \in Nat
    BY MessagesTimes
  <2>2. ASSUME m > 0 PROVE m * StepsPerMessage > 0
    <3>1. PICK n \in Nat : m = n + 1
      BY <2>2
    <3>2. (n + 1) * StepsPerMessage = n * StepsPerMessage + StepsPerMessage
          /\ n * StepsPerMessage \in Nat
      BY MessagesTimes
    <3>. QED  BY <3>1, <3>2, MessagesTimes
  <2>. QED  BY <2>1, <2>2
<1>5. InHand \in Nat /\ (InHand = 0 => rpc = "fetch")
  BY <1>1 DEF InHand
<1>6. StepsTo(o) = (o - offset) * StepsPerMessage + InHand
  <2>1. Reached \in Int
    BY <1>1 DEF Reached
  <2>. QED  BY <2>1 DEF StepsTo
<1>. QED  BY <1>2, <1>3, <1>4, <1>5, <1>6

LEMMA StepsToIsNatNext ==
  DeliveryInv' =>
    (\A o \in Nat : rpc # "unread" /\ o > Reached =>
       StepsTo(o) = (o - offset) * StepsPerMessage + InHand /\ StepsTo(o) \in Nat)'
<1>1. DeliveryInv =>
        \A o \in Nat : rpc # "unread" /\ o > Reached =>
          StepsTo(o) = (o - offset) * StepsPerMessage + InHand /\ StepsTo(o) \in Nat
  BY StepsToIsNat
<1>. QED  BY <1>1, PTL

\* A step of the loop comes nearer to every message it has not passed.
LEMMA LoopComesNearer ==
  ASSUME DeliveryInv, DeliveryInv', ConsumeLoop, NEW o \in Nat
  PROVE  LoopComesTo(o)
<1>1. /\ offset \in Nat /\ handler \in Nat /\ LastHandler \in Nat /\ handler <= LastHandler + 1
      /\ StepsPerMessage \in Nat /\ StepsPerMessage = LastHandler + 3
  BY DeliveryRanges, MessagesTimes DEF DeliveryInv
<1>2. rpc # "unread" /\ rpc' # "unread"
  BY DEF ConsumeLoop, FetchMessage, RunHandler, EndOfHandlers, CommitMessages
<1>3. Reached \in Int /\ Reached' \in Int /\ Reached <= Reached'
  BY <1>1 DEF ConsumeLoop, FetchMessage, RunHandler, EndOfHandlers, CommitMessages, Reached
<1>4. CASE o <= Reached
  <2>1. StepsTo(o) = 0 /\ StepsTo(o)' = 0
    BY <1>3, <1>4 DEF StepsTo
  <2>. QED  BY <2>1 DEF LoopComesTo
<1>5. CASE o > Reached
  <2>1. PICK m \in Nat, k \in Nat :
          /\ m = o - offset /\ k = m * StepsPerMessage /\ StepsTo(o) = k + InHand
          /\ StepsTo(o) \in Nat /\ StepsTo(o) > 0 /\ InHand \in Nat
    BY <1>2, <1>5, StepsToIsNat
  <2>2. CASE o <= Reached'
    <3>1. StepsTo(o)' = 0
      BY <2>2 DEF StepsTo
    <3>. QED  BY <2>1, <3>1 DEF LoopComesTo
  <2>3. CASE o > Reached'
    <3>1. StepsTo(o)' = (o - offset') * StepsPerMessage + InHand' /\ StepsTo(o)' \in Nat
      BY <1>2, <2>3, StepsToIsNatNext DEF StepsPerMessage
    <3>2. CASE FetchMessage
      <4>1. /\ rpc = "fetch" /\ offset' = offset + 1 /\ handler' = 1
            /\ rpc' \in {"handle", "commit"}
        BY <3>2 DEF FetchMessage
      <4>2. InHand = 0 /\ InHand' <= LastHandler + 2 /\ InHand' \in Nat
        BY <1>1, <4>1 DEF InHand
      <4>3. PICK n \in Nat : m = n + 1
        BY <1>1, <1>5, <2>1, <4>1 DEF Reached
      <4>4. k = n * StepsPerMessage + StepsPerMessage /\ n * StepsPerMessage \in Nat
        BY <2>1, <4>3, MessagesTimes
      <4>5. o - offset' = n
        BY <1>1, <2>1, <4>1, <4>3
      <4>. QED  BY <1>1, <2>1, <3>1, <4>2, <4>4, <4>5 DEF LoopComesTo
    <3>3. CASE RunHandler \/ EndOfHandlers \/ CommitMessages
      <4>1. /\ offset' = offset
            /\ \/ rpc = "handle" /\ rpc' = "handle" /\ handler' = handler + 1
                  /\ handler <= LastHandler
               \/ rpc = "handle" /\ rpc' \in {"commit", "fetch"}
               \/ rpc = "commit" /\ rpc' = "fetch"
        BY <3>3 DEF RunHandler, EndOfHandlers, CommitMessages
      <4>2. InHand' < InHand /\ InHand' \in Nat
        BY <1>1, <4>1 DEF InHand
      <4>3. StepsTo(o)' = k + InHand'
        BY <2>1, <3>1, <4>1
      <4>. QED  BY <2>1, <4>2, <4>3 DEF LoopComesTo
    <3>. QED  BY <3>2, <3>3 DEF ConsumeLoop
  <2>. QED  BY <1>3, <2>2, <2>3
<1>. QED  BY <1>3, <1>4, <1>5

\* What else happens, crashes apart, moves neither the loop nor what it has passed.
LEMMA OthersLeaveTheLoop ==
  ASSUME DeliveryInv, rpc # "unread",
         UNCHANGED <<rpc, offset, handler>>, ~ ConsumeLoop, NEW o \in Nat
  PROVE  LoopComesTo(o)
<1>1. StepsTo(o)' = StepsTo(o)
  BY DEF StepsTo, Reached, InHand
<1>2. Reached \in Int
  BY DeliveryRanges DEF DeliveryInv, Reached
<1>3. StepsTo(o) \in Nat
  <2>1. o <= Reached => StepsTo(o) = 0
    BY DEF StepsTo
  <2>. QED  BY <1>2, <2>1, StepsToIsNat
<1>. QED  BY <1>1, <1>3 DEF LoopComesTo

LEMMA LoopRunsDownStep ==
  ASSUME DeliveryInv, DeliveryInv', [DeliveryNext]_deliveryVars, NEW o \in Nat
  PROVE  LoopComesTo(o)
<1>. USE DEF producerVars, loopVars
<1>1. CASE ConsumeLoop
  BY <1>1, LoopComesNearer
<1>2. CASE rpc = "unread" \/ crashes' # crashes
  BY <1>2 DEF LoopComesTo
<1>3. CASE ~ ConsumeLoop /\ rpc # "unread" /\ crashes' = crashes
  <2>1. ~ Crash
    BY <1>3 DEF Crash, DeliveryInv, DeliveryTypeOK
  <2>2. UNCHANGED <<rpc, offset, handler>>
    BY <1>3, <2>1 DEF DeliveryNext, deliveryVars, InitEventBus, Subscribe, WriteJunk,
       PublishEnvelope, WriteMessage, GiveUp, DeliveryInv, LoopFits
  <2>. QED  BY <1>3, <2>2, OthersLeaveTheLoop
<1>. QED  BY <1>1, <1>2, <1>3

\* What the loop has passed is handled, or was failed on.
LEMMA PassedIsDone == DeliveryInv => NoneIsSkipped
<1>. SUFFICES ASSUME DeliveryInv, NEW o \in 1 .. Len(written), rpc # "unread", StepsTo(o) = 0
              PROVE  Settled(o) \/ o \in failed
  BY DEF NoneIsSkipped
<1>1. Len(written) \in Nat /\ committed \in Nat /\ offset \in Nat
  BY DeliveryRanges DEF DeliveryInv
<1>2. o <= Reached /\ Reached \in Int
  BY <1>1, StepsToIsNat DEF Reached
<1>3. CASE o <= committed
  BY <1>1, <1>3 DEF DeliveryInv, OnlyFailuresArePassedOver
<1>4. CASE o > committed
  BY <1>1, <1>2, <1>4 DEF DeliveryInv, LoopFits
<1>. QED  BY <1>1, <1>3, <1>4

LEMMA AcceptedIsThereStep ==
  ASSUME DeliveryInv, AcceptedIsThere, [DeliveryNext]_deliveryVars
  PROVE  AcceptedIsThere'
<1>. USE DEF producerVars, loopVars, AcceptedIsThere
<1>1. Len(written) \in Nat /\ written \in Seq(Publications \union {Junk})
  BY DEF DeliveryInv, DeliveryTypeOK
<1>2. ASSUME NEW m \in Publications \union {Junk}, written' = Append(written, m)
      PROVE  /\ \A o \in 1 .. Len(written) : o \in 1 .. Len(written') /\ written'[o] = written[o]
             /\ Len(written') \in 1 .. Len(written') /\ written'[Len(written')] = m
  BY <1>1, <1>2
<1>3. CASE InitEventBus
  BY <1>3 DEF InitEventBus, DeliveryInv, LoopFits
<1>4. CASE Subscribe \/ UNCHANGED deliveryVars
  BY <1>4 DEF Subscribe, deliveryVars
<1>5. CASE WriteJunk
  BY <1>2, <1>5 DEF WriteJunk
<1>6. CASE ConsumeLoop \/ Crash
  <2>1. rpc # "unread"
    BY <1>6 DEF ConsumeLoop, FetchMessage, RunHandler, EndOfHandlers, CommitMessages, Crash
  <2>2. UNCHANGED <<transport, outcome, written>>
    BY <1>6 DEF ConsumeLoop, FetchMessage, RunHandler, EndOfHandlers, CommitMessages, Crash
  <2>. QED  BY <2>1, <2>2
<1>7. ASSUME NEW e \in Publications, PublishEnvelope(e)
      PROVE  AcceptedIsThere'
  <2>1. /\ UNCHANGED <<transport, written, rpc>> /\ transport \in {"kafka", "inprocess"}
        /\ outcome' = [outcome EXCEPT ![e] = IF transport = "kafka" THEN "trying" ELSE "accepted"]
    BY <1>7 DEF PublishEnvelope, Reports, DeliveryInv, DeliveryTypeOK
  <2>. QED  BY <2>1 DEF DeliveryInv, DeliveryTypeOK
<1>8. ASSUME NEW e \in Publications, GiveUp(e)
      PROVE  AcceptedIsThere'
  BY <1>8 DEF GiveUp, Reports, DeliveryInv, DeliveryTypeOK
<1>9. ASSUME NEW e \in Publications, WriteMessage(e)
      PROVE  AcceptedIsThere'
  <2>1. CASE UNCHANGED written /\ Reports(e, "trying")
    BY <1>9, <2>1 DEF WriteMessage, Reports, DeliveryInv, DeliveryTypeOK
  <2>2. CASE /\ written' = Append(written, e)
             /\ Reports(e, "trying") \/ Reports(e, "accepted")
    BY <1>2, <1>9, <2>2 DEF WriteMessage, Reports, DeliveryInv, DeliveryTypeOK
  <2>. QED  BY <1>9, <2>1, <2>2 DEF WriteMessage
<1>. QED  BY <1>3, <1>4, <1>5, <1>6, <1>7, <1>8, <1>9 DEF DeliveryNext

\* An event that Publish reported to the writer's caller is in the partition of
\* every process that reads it; the loop comes to it in a bounded number of steps
\* unless the process crashes, whatever else is written; and it never passes a
\* message that was neither handled nor failed on, over crashes and lost commits.
THEOREM EventsGetTheirTurn ==
  DeliverySpec => [](AcceptedIsThere /\ NoneIsSkipped) /\ LoopRunsDown
<1>1. DeliveryInit => AcceptedIsThere
  BY DEF DeliveryInit, AcceptedIsThere
<1>2. DeliveryInv /\ AcceptedIsThere /\ [DeliveryNext]_deliveryVars => AcceptedIsThere'
  BY AcceptedIsThereStep
<1>3. DeliveryInv /\ DeliveryInv' /\ [DeliveryNext]_deliveryVars =>
        [\A o \in 1 .. Len(written) : LoopComesTo(o)]_deliveryVars
  <2>1. DeliveryInv => Len(written) \in Nat
    BY DeliveryRanges DEF DeliveryInv
  <2>. QED  BY <2>1, LoopRunsDownStep
<1>. QED  BY <1>1, <1>2, <1>3, PassedIsDone, DeliveryInvariant, PTL DEF DeliverySpec, LoopRunsDown

----------------------------------------------------------------------------
(***************************************************************************)
(* The export of a data set.  Approvals are one after another, so that of  *)
(* two rows with one key one is the latest; a row is only built from what  *)
(* passed the gates, once per candidate; and until somebody else writes to *)
(* the directory, the files behind the one an export is at are its own.    *)
(***************************************************************************)
Ordered ==
  \A c, d \in Specs : approvedAt[c] > 0 /\ approvedAt[c] = approvedAt[d] => c = d

RowsFit(e) ==
  /\ todo[e] \subseteq candidates[e]
  /\ \A d \in candidates[e] : d \in Specs /\ approvedAt[d] > 0
  /\ \A r \in built[e] :
       /\ r.doc \in candidates[e] \ todo[e] /\ r.doc \notin Rejected
       /\ flags[e].excludeSmoke => r.material \notin Marked
       /\ r.doc \notin Legacy => r.material.profile = MadeFrom[r.doc].profile
                                 /\ r.material.answers = MadeFrom[r.doc].answers
  /\ \A r, s \in built[e] : r.doc = s.doc => r = s

GatheredFits(e) ==
  /\ xpc[e] = "idle" \/ flags[e] \in Options
  /\ xpc[e] \in {"idle", "connected"} => built[e] = {}
  /\ xpc[e] \in {"workspace", "profile"} =>
       /\ gathered[e].doc \in candidates[e] \ todo[e]
       /\ \A r \in built[e] : r.doc # gathered[e].doc

Deduped(e) ==
  xpc[e] \in {"prepare", "ok", "empty"} \union Files =>
    \A r, s \in built[e] : DedupeKey(flags[e].dedupe, r) = DedupeKey(flags[e].dedupe, s) => r = s

FilesFit(e) ==
  e \notin touched =>
    LET finished == xpc[e] \in {"ok", "empty"} /\ ~ flags[e].dry IN
    /\ xpc[e] \in {"train", "val", "skipped"} \/ finished => file["manifest"] = ManifestOf(e)
    /\ xpc[e] \in {"val", "skipped"} \/ finished => file["train"] = TrainRows(built[e])
    /\ xpc[e] = "skipped" \/ finished => file["val"] = ValRows(built[e])

ExportInv ==
  /\ ExportTypeOK /\ Ordered
  /\ \A e \in Exports : RowsFit(e) /\ GatheredFits(e) /\ Deduped(e) /\ FilesFit(e)

LEMMA ExportInitInv == ExportInit => ExportInv
<1>. SUFFICES ASSUME ExportInit PROVE ExportInv
  OBVIOUS
<1>. USE ExportAssumption DEF ExportInit
<1>1. ExportTypeOK
  BY DEF ExportTypeOK, ExportStages, Files
<1>2. Ordered
  BY DEF Ordered
<1>3. ASSUME NEW e \in Exports PROVE RowsFit(e) /\ GatheredFits(e) /\ Deduped(e) /\ FilesFit(e)
  BY DEF RowsFit, GatheredFits, Deduped, FilesFit, Files
<1>. QED  BY <1>1, <1>2, <1>3 DEF ExportInv

\* Members take no row away and undo no approval.
LEMMA MembersKeepExportInv ==
  ASSUME ExportInv,
         (\E w \in Folders : ChangeMaterial(w)) \/ (\E d \in Specs : Approve(d))
  PROVE  ExportInv'
<1>. USE DEF ExportInv, directory
<1>1. /\ \A d \in Specs : approvedAt[d] > 0 => approvedAt'[d] > 0
      /\ Ordered' /\ approvedAt' \in [Specs -> Nat] /\ material' \in [Folders -> Material]
      /\ UNCHANGED <<flags, xpc, candidates, todo, gathered, built, skipped, file, touched>>
  <2>1. ASSUME NEW w \in Folders, ChangeMaterial(w) PROVE <1>1!1 /\ <1>1!2 /\ <1>1!3
    BY <2>1 DEF ChangeMaterial, ExportTypeOK, Material, Ordered
  <2>2. ASSUME NEW d \in Specs, Approve(d) PROVE <1>1!1 /\ <1>1!2 /\ <1>1!3
    BY <2>2 DEF Approve, ExportTypeOK, Ordered
  <2>. QED  BY <2>1, <2>2
<1>2. ExportTypeOK'
  BY <1>1 DEF ExportTypeOK
<1>3. ASSUME NEW e \in Exports
      PROVE  (RowsFit(e) /\ GatheredFits(e) /\ Deduped(e) /\ FilesFit(e))'
  <2>1. RowsFit(e) /\ GatheredFits(e) /\ Deduped(e) /\ FilesFit(e)
    OBVIOUS
  <2>2. RowsFit(e)'
    BY <1>1, <2>1 DEF RowsFit
  <2>3. (GatheredFits(e) /\ Deduped(e))'
    BY <1>1, <2>1 DEF GatheredFits, Deduped, DedupeKey
  <2>4. FilesFit(e)'
    BY <1>1, <2>1 DEF FilesFit, ManifestOf, TrainRows, ValRows
  <2>. QED  BY <2>2, <2>3, <2>4
<1>. QED  BY <1>1, <1>2, <1>3

\* What another export does to its own variables is nothing to this one.
LEMMA OthersKeepExport ==
  ASSUME ExportInv, NEW e \in Exports,
         xpc'[e] = xpc[e], flags'[e] = flags[e], candidates'[e] = candidates[e], todo'[e] = todo[e],
         gathered'[e] = gathered[e], built'[e] = built[e], skipped'[e] = skipped[e],
         UNCHANGED approvedAt,
         e \in touched' \/ (touched' = touched /\ file' = file) \/ (e \notin touched /\ file' = file)
  PROVE  (RowsFit(e) /\ GatheredFits(e) /\ Deduped(e) /\ FilesFit(e))'
<1>. USE DEF ExportInv
<1>1. (RowsFit(e) /\ GatheredFits(e))'
  BY DEF RowsFit, GatheredFits
<1>2. Deduped(e)'
  BY DEF Deduped, DedupeKey
<1>3. FilesFit(e)'
  BY DEF FilesFit, ManifestOf, TrainRows, ValRows
<1>. QED  BY <1>1, <1>2, <1>3

\* The steps that list and look at candidates: no file is written in them.
Gather(e) ==
  \/ Connect(e) \/ ListForPEFTExport(e) \/ ListError(e) \/ ReadWorkspace(e)
  \/ ReadProfileRow(e) \/ ReadAnswersKeep(e) \/ ReadAnswersSkip(e) \/ RebuildError(e)
  \/ DedupeRows(e) \/ ExportDies(e)

LEMMA GatherKeepsExportInv ==
  ASSUME ExportInv, NEW e \in Exports, Gather(e)
  PROVE  ExportInv'
<1>. USE DEF ExportInv, Gather, Proceed, studioSide, directory
<1>1. ExportTypeOK' /\ Ordered'
  <2>1. gathered[e].doc \in Specs \/ xpc[e] \notin {"workspace", "profile"}
    BY DEF GatheredFits, RowsFit
  <2>2. UNCHANGED <<material, approvedAt, file, touched>>
    BY DEF Connect, ListForPEFTExport, ListError, ReadWorkspace, ReadProfileRow, ReadAnswersKeep,
      ReadAnswersSkip, RebuildError, DedupeRows, ExportDies
  <2>3. Ordered'
    BY <2>2 DEF Ordered
  <2>4. /\ xpc' \in [Exports -> ExportStages] /\ flags' \in [Exports -> Options \union {NoOptions}]
        /\ DOMAIN gathered' = Exports /\ DOMAIN built' = Exports
    BY ExportAssumption DEF Connect, ListForPEFTExport, ListError, ReadWorkspace, ReadProfileRow,
      ReadAnswersKeep, ReadAnswersSkip, RebuildError, DedupeRows, ExportDies, ExportTypeOK,
      ExportStages, SkipCandidate
  <2>5. /\ candidates' \in [Exports -> SUBSET Specs] /\ todo' \in [Exports -> SUBSET Specs]
    BY DEF Connect, ListForPEFTExport, ListError, ReadWorkspace, ReadProfileRow,
      ReadAnswersKeep, ReadAnswersSkip, RebuildError, DedupeRows, ExportDies, ExportTypeOK
  <2>6. skipped' \in [Exports -> SUBSET Specs]
    <3>1. {r.doc : r \in built[e] \ LatestRows(flags[e].dedupe, built[e])} \subseteq Specs
      BY DEF RowsFit
    <3>. QED  BY <2>1, <3>1 DEF Connect, ListForPEFTExport, ListError, ReadWorkspace, ReadProfileRow,
      ReadAnswersKeep, ReadAnswersSkip, RebuildError, DedupeRows, ExportDies, ExportTypeOK,
      SkipCandidate
  <2>. QED  BY <2>2, <2>3, <2>4, <2>5, <2>6 DEF ExportTypeOK
<1>2. ASSUME NEW f \in Exports, f # e
      PROVE  (RowsFit(f) /\ GatheredFits(f) /\ Deduped(f) /\ FilesFit(f))'
  <2>1. /\ xpc'[f] = xpc[f] /\ flags'[f] = flags[f] /\ candidates'[f] = candidates[f]
        /\ todo'[f] = todo[f] /\ gathered'[f] = gathered[f] /\ built'[f] = built[f]
        /\ skipped'[f] = skipped[f] /\ UNCHANGED <<approvedAt, file, touched>>
    BY <1>2 DEF ExportTypeOK, Connect, ListForPEFTExport, ListError, ReadWorkspace, ReadProfileRow,
      ReadAnswersKeep, ReadAnswersSkip, RebuildError, DedupeRows, ExportDies, SkipCandidate
  <2>. QED  BY <2>1, OthersKeepExport
<1>3. FilesFit(e)'
  BY DEF FilesFit, Connect, ListForPEFTExport, ListError, ReadWorkspace, ReadProfileRow,
    ReadAnswersKeep, ReadAnswersSkip, RebuildError, DedupeRows, ExportDies, SkipCandidate, ExportTypeOK
<1>4. Deduped(e)'
  <2>1. CASE DedupeRows(e)
    <3>1. /\ built'[e] = LatestRows(flags[e].dedupe, built[e]) /\ flags' = flags
      BY <2>1 DEF DedupeRows, ExportTypeOK
    <3>2. ASSUME NEW r \in built'[e], NEW s \in built'[e],
                 DedupeKey(flags[e].dedupe, r) = DedupeKey(flags[e].dedupe, s)
          PROVE  r = s
      <4>1. r \in built[e] /\ s \in built[e]
        BY <3>1 DEF LatestRows
      <4>2. approvedAt[s.doc] <= approvedAt[r.doc] /\ approvedAt[r.doc] <= approvedAt[s.doc]
        BY <3>1, <3>2, <4>1 DEF LatestRows
      <4>3. /\ r.doc \in Specs /\ s.doc \in Specs /\ approvedAt[r.doc] > 0
            /\ approvedAt[r.doc] \in Nat /\ approvedAt[s.doc] \in Nat
        BY <4>1 DEF RowsFit, ExportTypeOK
      <4>4. r.doc = s.doc
        BY <4>2, <4>3 DEF Ordered
      <4>. QED  BY <4>1, <4>4 DEF RowsFit
    <3>. QED  BY <3>1, <3>2 DEF Deduped, DedupeKey
  <2>2. CASE ~ DedupeRows(e)
    <3>1. xpc'[e] \notin {"prepare", "ok", "empty"} \union Files
      BY <2>2 DEF Connect, ListForPEFTExport, ListError, ReadWorkspace, ReadProfileRow,
        ReadAnswersKeep, ReadAnswersSkip, RebuildError, ExportDies, ExportTypeOK, Files
    <3>. QED  BY <3>1 DEF Deduped
  <2>. QED  BY <2>1, <2>2
<1>5. RowsFit(e)' /\ GatheredFits(e)'
  <2>1. CASE Connect(e) \/ ListError(e) \/ ExportDies(e)
    BY <2>1, ExportAssumption DEF Connect, ListError, ExportDies, RowsFit, GatheredFits, ExportTypeOK
  <2>2. CASE ListForPEFTExport(e)
    BY <2>2 DEF ListForPEFTExport, RowsFit, GatheredFits, ExportTypeOK
  <2>3. CASE ReadWorkspace(e)
    BY <2>3 DEF ReadWorkspace, RowsFit, GatheredFits, ExportTypeOK
  <2>4. CASE ReadProfileRow(e)
    BY <2>4 DEF ReadProfileRow, RowsFit, GatheredFits, ExportTypeOK
  <2>5. CASE ReadAnswersKeep(e)
    <3>1. built'[e] = built[e] \union {[doc |-> gathered[e].doc, material |-> Rebuilt(e)]}
      BY <2>5 DEF ReadAnswersKeep, ExportTypeOK
    <3>2. /\ gathered[e].doc \notin Rejected
          /\ flags[e].excludeSmoke => Rebuilt(e) \notin Marked
          /\ gathered[e].doc \notin Legacy =>
               /\ Rebuilt(e).profile = MadeFrom[gathered[e].doc].profile
               /\ Rebuilt(e).answers = MadeFrom[gathered[e].doc].answers
      BY <2>5 DEF ReadAnswersKeep, PassesGates, Fingerprint
    <3>3. GatheredFits(e)
      OBVIOUS
    <3>4. /\ xpc[e] = "profile" /\ xpc'[e] = "listed"
          /\ UNCHANGED <<flags, candidates, todo, gathered, approvedAt>>
      BY <2>5 DEF ReadAnswersKeep, ExportTypeOK
    <3>5. RowsFit(e)'
      BY <3>1, <3>2, <3>3, <3>4 DEF RowsFit, GatheredFits
    <3>6. GatheredFits(e)'
      BY <3>3, <3>4 DEF GatheredFits
    <3>. QED  BY <3>5, <3>6
  <2>6. CASE ReadAnswersSkip(e) \/ RebuildError(e)
    BY <2>6 DEF ReadAnswersSkip, RebuildError, RowsFit, GatheredFits, ExportTypeOK
  <2>7. CASE DedupeRows(e)
    BY <2>7 DEF DedupeRows, LatestRows, RowsFit, GatheredFits, ExportTypeOK
  <2>. QED  BY <2>1, <2>2, <2>3, <2>4, <2>5, <2>6, <2>7
<1>. QED  BY <1>1, <1>2, <1>3, <1>4, <1>5

LEMMA WritingKeepsExportInv ==
  ASSUME ExportInv, NEW e \in Exports,
         PrepareOutDir(e) \/ \E a \in Files : WriteArtifact(e, a) \/ WriteBreaksOff(e, a)
  PROVE  ExportInv'
<1>. USE DEF ExportInv, Proceed, studioSide, Touch
<1>1. /\ UNCHANGED <<material, approvedAt, flags, candidates, todo, gathered, built, skipped>>
      /\ \A f \in Exports \ {e} : xpc'[f] = xpc[f]
  BY DEF PrepareOutDir, WriteArtifact, WriteBreaksOff, ExportTypeOK
<1>2. /\ xpc'[e] \in {"ok", "empty", "failed"} \union Files /\ xpc' \in [Exports -> ExportStages]
      /\ xpc[e] \in {"prepare"} \union Files
      /\ DOMAIN file' = Files /\ touched' \subseteq Exports
  BY DEF PrepareOutDir, WriteArtifact, WriteBreaksOff, ExportTypeOK, Files, ExportStages,
    FileAfter, Outcome
<1>3. ExportTypeOK' /\ Ordered'
  BY <1>1, <1>2 DEF ExportTypeOK, Ordered
<1>4. ASSUME NEW f \in Exports, f # e
      PROVE  (RowsFit(f) /\ GatheredFits(f) /\ Deduped(f) /\ FilesFit(f))'
  <2>1. f \in touched' \/ (f \notin touched /\ file' = file)
    BY <1>4 DEF PrepareOutDir, WriteArtifact, WriteBreaksOff
  <2>. QED  BY <1>1, <1>4, <2>1, OthersKeepExport
<1>5. (RowsFit(e) /\ GatheredFits(e) /\ Deduped(e))'
  <2>1. RowsFit(e)'
    BY <1>1 DEF RowsFit
  <2>2. GatheredFits(e)'
    BY <1>1, <1>2 DEF GatheredFits, Files
  <2>3. Deduped(e)'
    <3>1. \A r : DedupeKey(flags[e].dedupe, r)' = DedupeKey(flags[e].dedupe, r)
      BY <1>1 DEF DedupeKey
    <3>. QED  BY <1>1, <1>2, <3>1 DEF Deduped, DedupeKey
  <2>. QED  BY <2>1, <2>2, <2>3
<1>6. FilesFit(e)'
  <2>1. CASE PrepareOutDir(e)
    BY <2>1 DEF PrepareOutDir, FilesFit, ExportTypeOK
  <2>2. ASSUME NEW a \in Files, WriteBreaksOff(e, a) PROVE FilesFit(e)'
    BY <2>2 DEF WriteBreaksOff, FilesFit, ExportTypeOK
  <2>3. ASSUME NEW a \in Files, WriteArtifact(e, a) PROVE FilesFit(e)'
    <3>1. /\ xpc[e] = a /\ xpc'[e] = FileAfter(e, a)
          /\ file'[a] = ContentOf(e, a) /\ \A b \in Files \ {a} : file'[b] = file[b]
          /\ e \in touched' <=> e \in touched
      BY <2>3 DEF WriteArtifact, ExportTypeOK
    <3>2. /\ ManifestOf(e)' = ManifestOf(e) /\ TrainRows(built[e])' = TrainRows(built[e])
          /\ ValRows(built[e])' = ValRows(built[e])
      BY <1>1 DEF ManifestOf, TrainRows, ValRows
    <3>. QED  BY <1>1, <3>1, <3>2 DEF FilesFit, FileAfter, ContentOf, Outcome, Files
  <2>. QED  BY <2>1, <2>2, <2>3
<1>. QED  BY <1>3, <1>4, <1>5, <1>6

LEMMA ExportStepKeepsInv == ExportInv /\ [ExportNext]_exportVars => ExportInv'
<1>. SUFFICES ASSUME ExportInv, [ExportNext]_exportVars PROVE ExportInv'
  OBVIOUS
<1>1. CASE UNCHANGED exportVars
  <2>1. (ExportTypeOK /\ Ordered)'
    BY <1>1 DEF exportVars, studioSide, directory, ExportInv, ExportTypeOK, Ordered
  <2>2. \A e \in Exports : (RowsFit(e) /\ GatheredFits(e) /\ Deduped(e) /\ FilesFit(e))'
    BY <1>1, OthersKeepExport DEF exportVars, studioSide, directory
  <2>. QED  BY <2>1, <2>2 DEF ExportInv
<1>2. CASE ExportNext
  BY <1>2, MembersKeepExportInv, GatherKeepsExportInv, WritingKeepsExportInv DEF ExportNext, Gather
<1>. QED  BY <1>1, <1>2

THEOREM ExportInvariant == ExportSpec => []ExportInv
BY ExportInitInv, ExportStepKeepsInv, PTL DEF ExportSpec

\* What an export says it has written is one data set of rows that fit their
\* documents, for any number of exports, documents and edits in between.
THEOREM DatasetsStaySound == ExportSpec => []DatasetsAreSound
<1>1. ASSUME ExportInv, NEW e \in Exports,
             xpc[e] \in {"ok", "empty"}, ~ flags[e].dry, e \notin touched
      PROVE  LET rows == file["train"] \union file["val"] IN
             /\ file["manifest"] = ManifestOf(e)
             /\ file["manifest"].train = Cardinality(file["train"])
             /\ file["manifest"].val = Cardinality(file["val"])
             /\ \A r \in file["train"], s \in file["val"] : FolderOf[r.doc] # FolderOf[s.doc]
             /\ \A r, s \in rows : DedupeKey(flags[e].dedupe, r) = DedupeKey(flags[e].dedupe, s) => r = s
             /\ \A r \in rows :
                  /\ approvedAt[r.doc] > 0 /\ r.doc \notin Rejected
                  /\ flags[e].excludeSmoke => r.material \notin Marked
                  /\ r.doc \notin Legacy => r.material.profile = MadeFrom[r.doc].profile
                                            /\ r.material.answers = MadeFrom[r.doc].answers
  <2>1. /\ file["manifest"] = ManifestOf(e)
        /\ file["train"] = TrainRows(built[e]) /\ file["val"] = ValRows(built[e])
    BY <1>1 DEF ExportInv, FilesFit
  <2>2. file["train"] \union file["val"] = built[e]
    BY <2>1 DEF TrainRows, ValRows
  <2>3. \A r \in file["train"], s \in file["val"] : FolderOf[r.doc] # FolderOf[s.doc]
    BY <2>1 DEF TrainRows, ValRows, IsTrain
  <2>4. \A r, s \in built[e] : DedupeKey(flags[e].dedupe, r) = DedupeKey(flags[e].dedupe, s) => r = s
    BY <1>1 DEF ExportInv, Deduped
  <2>5. \A r \in built[e] :
          /\ approvedAt[r.doc] > 0 /\ r.doc \notin Rejected
          /\ flags[e].excludeSmoke => r.material \notin Marked
          /\ r.doc \notin Legacy => r.material.profile = MadeFrom[r.doc].profile
                                    /\ r.material.answers = MadeFrom[r.doc].answers
    BY <1>1 DEF ExportInv, RowsFit
  <2>6. /\ file["manifest"].train = Cardinality(file["train"])
        /\ file["manifest"].val = Cardinality(file["val"])
    BY <2>1 DEF ManifestOf
  <2>. QED  BY <2>1, <2>2, <2>3, <2>4, <2>5, <2>6
<1>2. ExportInv => DatasetsAreSound
  BY <1>1 DEF DatasetsAreSound
<1>. QED  BY <1>2, ExportInvariant, PTL
=============================================================================
