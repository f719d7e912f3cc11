--------------------------- MODULE EventDelivery ---------------------------
(***************************************************************************)
(* The Kafka event bus: a producer that writes until it is acknowledged,   *)
(* and a consumer that runs every handler on every message and commits     *)
(* those on which all succeeded.  One partition of one topic: the others   *)
(* are like it, and the consumer of each topic is a goroutine of its own.  *)
(*                                                                         *)
(* An offset is a position in `written', counted from 1; `committed' is    *)
(* the last one the group has committed.  The client library and the       *)
(* broker are modelled from what the code asks of them.                    *)
(***************************************************************************)
EXTENDS Naturals, Sequences

CONSTANTS Publications,  \* calls of Publish
          Junk,          \* a message that is no envelope
          LastHandler,   \* the handlers of the topic are 1 .. LastHandler
          Attempts,      \* how often the writer tries
          MaxWritten,    \* bound: messages in the partition
          MaxCrashes     \* bound: crashes of the consumer's process

Handlers == 1 .. LastHandler
Offsets == 1 .. MaxWritten

ASSUME DeliveryAssumption ==
  /\ Junk \notin Publications
  /\ {LastHandler, Attempts, MaxWritten, MaxCrashes} \subseteq Nat
  /\ LastHandler > 0

VARIABLES
  transport,   \* the bus the process has made: none yet, kafka or inprocess
  subscribed,  \* Subscribe has been called
  outcome,     \* of each publication: none, trying, accepted or failed
  tries,       \* the attempts it has made
  written,     \* the partition
  committed,   \* the group's offset
  offset,      \* the message the loop has, or has had last
  rpc,         \* where the loop is; unread: no reader was started
  handler,     \* the next handler to run on the message
  handlerErr,  \* one of them has failed on it
  done,        \* the handlers that have succeeded on each offset
  failed,      \* the offsets on which one failed the last time
  crashes

producerVars == <<outcome, tries, written>>
loopVars == <<offset, rpc, handler, handlerErr>>
recordVars == <<done, failed>>
deliveryVars == <<transport, subscribed, producerVars, committed, loopVars, recordVars, crashes>>

DeliveryTypeOK ==
  /\ transport \in {"none", "kafka", "inprocess"}
  /\ subscribed \in BOOLEAN
  /\ outcome \in [Publications -> {"none", "trying", "accepted", "failed"}]
  /\ tries \in [Publications -> 0 .. Attempts]
  /\ written \in Seq(Publications \union {Junk})
  /\ Len(written) <= MaxWritten
  /\ committed \in 0 .. Len(written)
  /\ offset \in 0 .. Len(written)
  /\ rpc \in {"unread", "fetch", "handle", "commit"}
  /\ handler \in 1 .. LastHandler + 1
  /\ handlerErr \in BOOLEAN
  /\ done \in [Offsets -> SUBSET Handlers]
  /\ failed \subseteq Offsets
  /\ crashes \in 0 .. MaxCrashes

DeliveryInit ==
  /\ transport = "none"
  /\ subscribed = FALSE
  /\ outcome = [e \in Publications |-> "none"]
  /\ tries = [e \in Publications |-> 0]
  /\ written = << >>
  /\ committed = 0
  /\ offset = 0
  /\ rpc = "unread"
  /\ handler = 1
  /\ handlerErr = FALSE
  /\ done = [o \in Offsets |-> {}]
  /\ failed = {}
  /\ crashes = 0

----------------------------------------------------------------------------
(***************************************************************************)
(* Starting.  If the topics cannot be made sure of, the process uses the   *)
(* in-process bus.  Start makes a reader for every topic that has handlers *)
(* by then, which is what its comment asks for; main.go calls it before    *)
(* any Subscribe, so that its process writes and never reads.              *)
(***************************************************************************)
InitEventBus ==
  /\ transport = "none"
  /\ \/ transport' = "inprocess" /\ UNCHANGED rpc
     \/ /\ transport' = "kafka"
        /\ rpc' = IF subscribed THEN "fetch" ELSE "unread"
  /\ UNCHANGED <<subscribed, producerVars, committed, offset, handler, handlerErr,
                 recordVars, crashes>>

Subscribe ==
  /\ ~ subscribed
  /\ subscribed' = TRUE
  /\ UNCHANGED <<transport, producerVars, committed, loopVars, recordVars, crashes>>

----------------------------------------------------------------------------
(***************************************************************************)
(* Publishing.  An attempt may be written and its acknowledgement lost;    *)
(* the writer then tries again, and the message is there twice.            *)
(***************************************************************************)
Reports(e, o) == outcome' = [outcome EXCEPT ![e] = o]

PublishEnvelope(e) ==
  /\ outcome[e] = "none"
  /\ transport # "none"
  /\ Reports(e, IF transport = "kafka" THEN "trying" ELSE "accepted")
  /\ UNCHANGED <<transport, subscribed, tries, written, committed, loopVars, recordVars, crashes>>

WriteMessage(e) ==
  /\ outcome[e] = "trying"
  /\ tries[e] < Attempts
  /\ tries' = [tries EXCEPT ![e] = @ + 1]
  /\ \/ UNCHANGED written /\ Reports(e, "trying")
     \/ /\ Len(written) < MaxWritten
        /\ written' = Append(written, e)
        /\ Reports(e, "trying") \/ Reports(e, "accepted")
  /\ UNCHANGED <<transport, subscribed, committed, loopVars, recordVars, crashes>>

\* Publish returns an error, which every use case drops.
GiveUp(e) ==
  /\ outcome[e] = "trying"
  /\ tries[e] = Attempts
  /\ Reports(e, "failed")
  /\ UNCHANGED <<transport, subscribed, tries, written, committed, loopVars, recordVars, crashes>>

WriteJunk ==
  /\ Len(written) < MaxWritten
  /\ written' = Append(written, Junk)
  /\ UNCHANGED <<transport, subscribed, outcome, tries, committed, loopVars, recordVars, crashes>>

----------------------------------------------------------------------------
(***************************************************************************)
(* The loop of consumeLoop.                                                *)
(***************************************************************************)
\* A message that is no envelope is committed, to have done with it.
FetchMessage ==
  /\ rpc = "fetch"
  /\ offset < Len(written)
  /\ offset' = offset + 1
  /\ rpc' = IF written[offset'] = Junk THEN "commit" ELSE "handle"
  /\ handler' = 1
  /\ handlerErr' = FALSE
  /\ UNCHANGED <<transport, subscribed, producerVars, committed, recordVars, crashes>>

\* Every handler runs, whether or not one before it has failed.
RunHandler ==
  /\ rpc = "handle"
  /\ handler <= LastHandler
  /\ handler' = handler + 1
  /\ \/ done' = [done EXCEPT ![offset] = @ \union {handler}] /\ UNCHANGED handlerErr
     \/ handlerErr' = TRUE /\ UNCHANGED done
  /\ UNCHANGED <<transport, subscribed, producerVars, committed, offset, rpc, failed, crashes>>

\* Mutant: every message is committed.
CommitAnyway == TRUE
MayCommit == ~ handlerErr

EndOfHandlers ==
  /\ rpc = "handle"
  /\ handler > LastHandler
  /\ rpc' = IF MayCommit THEN "commit" ELSE "fetch"
  /\ failed' = IF handlerErr THEN failed \union {offset} ELSE failed \ {offset}
  /\ UNCHANGED <<transport, subscribed, producerVars, committed, offset, handler, handlerErr,
                 done, crashes>>

\* The error of committing is logged, and the loop goes on.
CommitMessages ==
  /\ rpc = "commit"
  /\ rpc' = "fetch"
  /\ \/ committed' = offset
     \/ UNCHANGED committed
  /\ UNCHANGED <<transport, subscribed, producerVars, offset, handler, handlerErr, recordVars,
                 crashes>>

\* Mutant: the next reader begins at the end of the partition.
Resume(o) == Len(written)

NextReader(o) == o

\* The process ends, or the group is balanced anew: the next reader of the
\* partition begins behind what is committed.
Crash ==
  /\ rpc # "unread"
  /\ crashes < MaxCrashes
  /\ crashes' = crashes + 1
  /\ offset' = NextReader(committed)
  /\ rpc' = "fetch"
  /\ handler' = 1
  /\ handlerErr' = FALSE
  /\ UNCHANGED <<transport, subscribed, producerVars, committed, recordVars>>

ConsumeLoop == FetchMessage \/ RunHandler \/ EndOfHandlers \/ CommitMessages

DeliveryNext ==
  \/ InitEventBus \/ Subscribe \/ WriteJunk \/ ConsumeLoop \/ Crash
  \/ \E e \in Publications : PublishEnvelope(e) \/ WriteMessage(e) \/ GiveUp(e)

DeliverySpec == DeliveryInit /\ [][DeliveryNext]_deliveryVars

DeliveryFairness == WF_deliveryVars(ConsumeLoop)

----------------------------------------------------------------------------
Settled(o) == written[o] = Junk \/ done[o] = Handlers

\* A committed offset is one every handler has succeeded on, or junk, unless a
\* handler failed on it and a later one was committed, which takes it along:
\* "at-least-once" (consumeLoop) holds for the messages no handler fails on.
OnlyFailuresArePassedOver ==
  \A o \in 1 .. committed :
    Settled(o) \/ (o \in failed /\ \E p \in o + 1 .. committed : Settled(p))

\* An event that Publish reported as written is handled, by every handler or
\* with a failure, once in some process that reads the topic, whatever crashes
\* or commits fail in between (Publish, consumeLoop): a process whose Start came
\* before its first Subscribe reads nothing.
WrittenEventsAreHandled ==
  \A e \in Publications :
    outcome[e] = "accepted" ~>
      \/ \E o \in 1 .. Len(written) : written[o] = e /\ (Settled(o) \/ o \in failed)
      \/ rpc = "unread"
=============================================================================
