-------------------------- MODULE ServerLifecycle --------------------------
(***************************************************************************)
(* One server process from its start to its exit: run() of cmd/server, the *)
(* requests its HTTP server lets in, and the in-process event bus, which   *)
(* closes while some of them may still be running.                         *)
(*                                                                         *)
(* Time passes in ticks, at which every request grows older and every wait *)
(* longer.  A generation is in the locker's count only while it is         *)
(* "generating"; what it does before and after is not.  The 500 ms between *)
(* two looks at that count are one tick.                                   *)
(***************************************************************************)
EXTENDS Naturals, Sequences

CONSTANTS Environments,  \* in which it may start
          Generations,   \* requests that generate a document
          Writers,       \* requests that write a row and publish an event
          Lookups,       \* the writers whose event names an app and no organization
          WaitBudget,    \* TimeoutSeconds + 30, at least 30 s
          StopBudget,    \* how long srv.Shutdown may take
          MaxAge,        \* bound: how far time is counted, for a handler may hang for good
          BusSize        \* the channel's buffer

Arrivals == Generations \union Writers

\* APP_ENV, whether the database answers and can be seeded, and whether the
\* provider's configuration is accepted.
EnvironmentRecord ==
  [name : {"development", "production", "prod"},
   database : BOOLEAN, seeds : BOOLEAN, llm : BOOLEAN]

ASSUME ServerAssumption ==
  /\ Environments \subseteq EnvironmentRecord
  /\ Lookups \subseteq Writers
  /\ Generations \intersect Writers = {}
  /\ {WaitBudget, StopBudget, MaxAge, BusSize} \subseteq Nat
  /\ WaitBudget > 0
  /\ MaxAge >= WaitBudget + StopBudget

VARIABLES
  environment,  \* what the process finds when it starts
  phase,        \* where run() is
  wired,        \* AuthService, RBACService and the locker are there
  cut,          \* what ends the handlers that still run, if anything does
  clock,        \* since the signal, up to WaitBudget; then since Shutdown began
  stage,        \* where each request is
  age,          \* of each request while it is there
  counted,      \* the generations the locker has counted ever since the signal
  bus,          \* the events in the channel, named by their requests
  heard,        \* the events every handler has had
  dropped,      \* those that found the channel full
  missed        \* those whose room was not found

bootVars == <<environment, wired>>
busVars == <<bus, heard, dropped, missed>>
requestVars == <<stage, age, counted>>
serverVars == <<bootVars, phase, cut, clock, requestVars, busVars>>

Phases == {"database", "bootstrap", "dependencies", "serving", "look", "sleep",
           "stopping", "closing", "emptying", "exited"}

\* Where a request may be while its handler runs.
Busy == {"loading", "generating", "saving", "publishing"}

ServerTypeOK ==
  /\ environment \in Environments
  /\ phase \in Phases
  /\ wired \in BOOLEAN
  /\ cut \in {"no", "shutdown", "listener"}
  /\ clock \in 0 .. MaxAge
  /\ stage \in [Arrivals -> Busy \union {"absent", "done", "panicked", "killed"}]
  /\ age \in [Arrivals -> 0 .. MaxAge]
  /\ counted \subseteq Generations
  /\ bus \in Seq(Writers)
  /\ heard \subseteq Writers
  /\ dropped \subseteq Writers
  /\ missed \subseteq Writers

ServerInit ==
  /\ environment \in Environments
  /\ phase = "database"
  /\ wired = FALSE
  /\ cut = "no"
  /\ clock = 0
  /\ stage = [r \in Arrivals |-> "absent"]
  /\ age = [r \in Arrivals |-> 0]
  /\ counted = {}
  /\ bus = << >>
  /\ heard = {}
  /\ dropped = {}
  /\ missed = {}

Active == {r \in Arrivals : stage[r] \in Busy}
Go(from, to) == phase = from /\ phase' = to

----------------------------------------------------------------------------
(***************************************************************************)
(* Starting.  Production needs its database; without one nothing but the   *)
(* health routes and the provider's health works, and there is no locker.  *)
(***************************************************************************)
IsProduction == environment.name \in {"production", "prod"}

ConnectDatabase ==
  /\ \/ Go("database", "bootstrap") /\ environment.database
     \/ Go("database", "dependencies") /\ ~ environment.database /\ ~ IsProduction
     \/ Go("database", "exited") /\ ~ environment.database /\ IsProduction
  /\ UNCHANGED <<bootVars, cut, clock, requestVars, busVars>>

Bootstrap ==
  /\ \/ Go("bootstrap", "dependencies") /\ environment.seeds
     \/ Go("bootstrap", "exited") /\ ~ environment.seeds
  /\ UNCHANGED <<bootVars, cut, clock, requestVars, busVars>>

\* The error of buildDependencies; the bus is closed on the way out.
RefuseConfiguration ==
  /\ Go("dependencies", "closing")
  /\ ~ environment.llm
  /\ UNCHANGED <<bootVars, cut, clock, requestVars, busVars>>

ValidateSecureAuthWiring(services) == IsProduction => services

BuildDependencies ==
  /\ environment.llm
  /\ wired' = environment.database
  /\ Go("dependencies", IF ValidateSecureAuthWiring(wired') THEN "serving" ELSE "closing")
  /\ UNCHANGED <<environment, cut, clock, requestVars, busVars>>

\* Without its use cases a route is not there, or its handler refuses.
Serves(r) == wired

----------------------------------------------------------------------------
(***************************************************************************)
(* Requests.  The listener is open until Shutdown begins, the signal or    *)
(* not.  A writer's event goes to the bus before its answer to the client. *)
(***************************************************************************)
Accept(r) ==
  /\ phase \in {"serving", "look", "sleep"}
  /\ Serves(r)
  /\ stage[r] = "absent"
  /\ stage' = [stage EXCEPT ![r] = "loading"]
  /\ UNCHANGED <<bootVars, phase, cut, clock, age, counted, busVars>>

Move(r, from, to) ==
  /\ stage[r] = from
  /\ phase # "exited"
  /\ stage' = [stage EXCEPT ![r] = to]
  /\ age' = [age EXCEPT ![r] = IF to \in Busy THEN @ ELSE 0]
  /\ UNCHANGED <<bootVars, phase, cut, clock>>

StartGenerating(r) ==
  /\ r \in Generations
  /\ Move(r, "loading", "generating")
  /\ UNCHANGED <<counted, busVars>>

StopGenerating(r) ==
  /\ Move(r, "generating", "saving")
  /\ counted' = counted \ {r}
  /\ UNCHANGED busVars

WriteRow(r) ==
  /\ r \in Writers
  /\ Move(r, "loading", "publishing")
  /\ UNCHANGED <<counted, busVars>>

BusOpen == phase \notin {"emptying", "exited"}

\* A send on a closed channel panics, whatever the select's default says.
Publish(r) ==
  \/ /\ Move(r, "publishing", "saving")
     /\ BusOpen
     /\ IF Len(bus) < BusSize
        THEN bus' = Append(bus, r) /\ UNCHANGED dropped
        ELSE dropped' = dropped \union {r} /\ UNCHANGED bus
     /\ UNCHANGED <<counted, heard, missed>>
  \/ /\ Move(r, "publishing", "panicked")
     /\ ~ BusOpen
     /\ UNCHANGED <<counted, busVars>>

Answer(r) ==
  /\ Move(r, "saving", "done")
  /\ UNCHANGED <<counted, busVars>>

\* A request's context ends with its handler, or with its connection.
ContextOver(r) == stage[r] \notin Busy \/ cut = "shutdown"

\* The handlers get the context of the request that published the event: the
\* one that needs the database to find the room gets an error once it is over.
Dispatch ==
  /\ bus # << >>
  /\ phase # "exited"
  /\ bus' = Tail(bus)
  /\ IF Head(bus) \in Lookups /\ ContextOver(Head(bus))
     THEN missed' = missed \union {Head(bus)} /\ UNCHANGED heard
     ELSE heard' = heard \union {Head(bus)} /\ UNCHANGED missed
  /\ UNCHANGED <<bootVars, phase, cut, clock, requestVars, dropped>>

----------------------------------------------------------------------------
(***************************************************************************)
(* Stopping.                                                               *)
(***************************************************************************)
Signal ==
  /\ Go("serving", "look")
  /\ clock' = 0
  /\ counted' = {r \in Generations : stage[r] = "generating"}
  /\ UNCHANGED <<bootVars, cut, stage, age, busVars>>

\* ListenAndServe returns an error: run() returns it and drains nothing.
ServeFails ==
  /\ Go("serving", "closing")
  /\ cut' = "listener"
  /\ UNCHANGED <<bootVars, clock, requestVars, busVars>>

HasInflight == \E r \in Generations : stage[r] = "generating"

\* Mutants: no deadline, and one that comes a tick too soon.
KeepWaitingForGood == HasInflight
KeepWaitingLess == HasInflight /\ clock + 1 < WaitBudget
KeepWaiting == HasInflight /\ clock < WaitBudget

LookAtInflight ==
  /\ \/ Go("look", "sleep") /\ KeepWaiting /\ UNCHANGED clock
     \/ Go("look", "stopping") /\ ~ KeepWaiting /\ clock' = 0
  /\ UNCHANGED <<bootVars, cut, requestVars, busVars>>

Shutdown ==
  /\ Go("stopping", "closing")
  /\ Active = {}
  /\ UNCHANGED <<bootVars, cut, clock, requestVars, busVars>>

ShutdownTimesOut ==
  /\ Go("stopping", "closing")
  /\ Active # {}
  /\ clock >= StopBudget
  /\ cut' = "shutdown"
  /\ UNCHANGED <<bootVars, clock, requestVars, busVars>>

\* The deferred calls: the bus closes its channel and waits for the handlers
\* of what is in it; then Redis and the database close, and the process ends
\* with whatever still runs.
CloseBus ==
  /\ Go("closing", "emptying")
  /\ UNCHANGED <<bootVars, cut, clock, requestVars, busVars>>

\* Mutant: Close does not wait for the dispatcher.
ExitAtOnce ==
  /\ Go("emptying", "exited")
  /\ stage' = [r \in Arrivals |-> IF r \in Active THEN "killed" ELSE stage[r]]
  /\ UNCHANGED <<bootVars, cut, clock, age, counted, busVars>>

Exit ==
  /\ Go("emptying", "exited")
  /\ bus = << >>
  /\ stage' = [r \in Arrivals |-> IF r \in Active THEN "killed" ELSE stage[r]]
  /\ UNCHANGED <<bootVars, cut, clock, age, counted, busVars>>

Later(n) == IF n < MaxAge THEN n + 1 ELSE n

\* A tick.  Looking at the count takes no time.
Tick ==
  /\ \/ phase = "serving" /\ \E r \in Active : age[r] < MaxAge
     \/ phase = "sleep"
     \/ phase = "stopping" /\ clock < StopBudget
  /\ phase' = IF phase = "sleep" THEN "look" ELSE phase
  /\ clock' = IF phase = "serving" THEN 0 ELSE Later(clock)
  /\ age' = [r \in Arrivals |-> IF r \in Active THEN Later(age[r]) ELSE age[r]]
  /\ UNCHANGED <<bootVars, cut, stage, counted, busVars>>

Starting == ConnectDatabase \/ Bootstrap \/ RefuseConfiguration \/ BuildDependencies
Handle(r) ==
  \/ StartGenerating(r) \/ StopGenerating(r) \/ WriteRow(r) \/ Publish(r) \/ Answer(r)
Stopping == LookAtInflight \/ Shutdown \/ ShutdownTimesOut \/ CloseBus \/ Exit

ServerNext ==
  \/ Starting \/ Stopping \/ Signal \/ ServeFails \/ Dispatch \/ Tick
  \/ \E r \in Arrivals :
       Accept(r) \/ Handle(r)

ServerSpec == ServerInit /\ [][ServerNext]_serverVars

\* run() goes on, the dispatcher goes on, and time does; no handler need.
ServerFairness ==
  /\ WF_serverVars(Stopping)
  /\ WF_serverVars(Dispatch)
  /\ WF_serverVars(Tick)

----------------------------------------------------------------------------
\* A server whose APP_ENV is production or prod lets in no request to a
\* protected route unless the token and the permission checks are wired
\* (ValidateSecureAuthWiring): elsewhere a missing RBACService turns them off.
ProductionIsGuarded ==
  environment.name \in {"production", "prod"} /\ phase = "serving" => wired

\* A handler meets the closed bus, or its end with the process, only when
\* Shutdown has run out of time or the listener has failed: a graceful exit has
\* let every handler finish (run, Close of inprocess.go).  And a signalled process
\* ends with a request still running only when that one has had its time:
\* StopBudget at least, and a generation that the locker has counted ever since
\* the signal both waits, however old it was.  A generation that began to load
\* before the signal may be counted too late to be waited for.
NobodyIsCutShort ==
  \A r \in Arrivals :
    /\ phase \in {"emptying", "exited"} /\ cut = "no" => stage[r] \in {"absent", "done"}
    /\ stage[r] = "killed" /\ cut # "listener" =>
         /\ age[r] >= StopBudget
         /\ r \in counted => age[r] >= WaitBudget + StopBudget

\* At its exit the process has had every published event heard, but for those
\* that found the channel full, and those that name an app only and came to the
\* dispatcher when their request was over (Publish, Close, handleEvent).
PublishedEventsAreHeard ==
  phase = "exited" =>
    \A r \in Writers : stage[r] = "done" =>
      r \in heard \union dropped \union (missed \intersect Lookups)

\* A signalled server ends, even if its handlers hang and new requests come (run,
\* Close of inprocess.go): both waits have a limit of their own.
ShutdownEnds == phase = "look" ~> phase = "exited"
=============================================================================
