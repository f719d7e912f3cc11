--------------------------- MODULE GenerationLock ---------------------------
(***************************************************************************)
(* The Redis generation lock (internal/infrastructure/redis/               *)
(* generation_lock.go) as the API servers use it: every instance keeps a   *)
(* map held and a counter localCount, Redis keeps one key per workspace    *)
(* with a time to live, and a request goes TryBegin -> generate -> End.    *)
(*                                                                         *)
(* TryBegin and End are each a Redis call and a mutex section, which other *)
(* requests, other instances, the clock, a crash of the instance or the    *)
(* loss of a Redis reply can come between.  A request stands for its own   *)
(* lock token: TryBegin draws a fresh UUID in every call.                  *)
(*                                                                         *)
(* Time is counted in ticks.  An LLM attempt ends within CallTimeout       *)
(* (ResilientProvider's per-attempt context), a request makes at most      *)
(* Attempts of them, and its database work before the first attempt and    *)
(* after the last takes at most Overhead each.  That last bound is an      *)
(* assumption of the model: the code puts none on it.  The back-off sleep  *)
(* between attempts (100 ms, then 200 ms) counts as no time.               *)
(*                                                                         *)
(* A cancelled request context shows in what the steps may do: the call    *)
(* finishes (FinishCall) and the release script does not run (ReleaseLost).*)
(***************************************************************************)
EXTENDS Naturals, FiniteSets

CONSTANTS Instances,    \* API servers
          Workspaces,
          Requests,     \* generate and regenerate calls
          InstanceOf,   \* which server the load balancer sent a request to
          WorkspaceOf,  \* the workspace the request names
          NoToken,      \* no key, no entry in held
          CallTimeout,  \* LLM_TIMEOUT_SECONDS
          Slack,        \* what main.go adds to it for the key's time to live
          Attempts,     \* LLM_MAX_RETRIES + 1 for a plain document, and up to six
                        \* times that for a structured one (two providers, each
                        \* asked once and for two repairs)
          Overhead

ASSUME RoutingAssumption ==
  /\ InstanceOf \in [Requests -> Instances]
  /\ WorkspaceOf \in [Requests -> Workspaces]
  /\ NoToken \notin Requests
ASSUME FiniteAssumption == IsFiniteSet(Requests)
ASSUME TimeAssumption ==
  /\ CallTimeout \in Nat /\ Slack \in Nat /\ Overhead \in Nat
  /\ Attempts \in Nat \ {0}
  /\ CallTimeout + Slack > 0

VARIABLES
  key,         \* Redis: workspace -> token, or NoToken when the key is absent
  ttl,         \* Redis: ticks the key has left
  held,        \* instance -> workspace -> token (the map of the struct)
  localCount,  \* instance -> counter of the struct
  pc,          \* where each request is
  attempt,     \* LLM attempts begun
  left,        \* ticks the attempt or the database work under way has left
  taken        \* the token End took out of held, to hand to the script

redisVars == <<key, ttl>>
localVars == <<held, localCount>>
reqVars   == <<pc, attempt, left, taken>>
vars      == <<key, ttl, held, localCount, pc, attempt, left, taken>>

----------------------------------------------------------------------------
LockTTL == CallTimeout + Slack

\* TryBegin has answered true and End has not taken the entry out of held.
Counted  == {"preparing", "calling", "saving", "ending"}
\* The request owns the workspace, as far as it knows.
Critical == Counted \union {"acquired"}
\* The request is somewhere between SETNX and the end of the release script.
Active   == Critical \union {"releasing"}
\* refused: TryBegin answered false or an error; over: End has run, or the
\* server died.
States   == Active \union {"idle", "refused", "over"}

Tokens == Requests \union {NoToken}

\* HasInflight as of this moment: what the shutdown loop polls.
HasInflight(i) == localCount[i] > 0

TypeOK ==
  /\ key \in [Workspaces -> Tokens]
  /\ ttl \in [Workspaces -> 0 .. LockTTL]
  /\ held \in [Instances -> [Workspaces -> Tokens]]
  /\ localCount \in [Instances -> Nat]
  /\ pc \in [Requests -> States]
  /\ attempt \in [Requests -> 0 .. Attempts]
  /\ left \in [Requests -> Nat]
  /\ taken \in [Requests -> Tokens]

Init ==
  /\ key = [w \in Workspaces |-> NoToken]
  /\ ttl = [w \in Workspaces |-> 0]
  /\ held = [i \in Instances |-> [w \in Workspaces |-> NoToken]]
  /\ localCount = [i \in Instances |-> 0]
  /\ pc = [r \in Requests |-> "idle"]
  /\ attempt = [r \in Requests |-> 0]
  /\ left = [r \in Requests |-> 0]
  /\ taken = [r \in Requests |-> NoToken]

Goto(r, from, to) == pc[r] = from /\ pc' = [pc EXCEPT ![r] = to]

----------------------------------------------------------------------------
(***************************************************************************)
(* TryBegin: the Redis half.                                               *)
(***************************************************************************)
SetKey(r) ==
  /\ key' = [key EXCEPT ![WorkspaceOf[r]] = r]
  /\ ttl' = [ttl EXCEPT ![WorkspaceOf[r]] = LockTTL]

\* SET key token NX EX ttl found no key.
SetNXWins(r) ==
  /\ Goto(r, "idle", "acquired")
  /\ key[WorkspaceOf[r]] = NoToken
  /\ SetKey(r)
  /\ left' = [left EXCEPT ![r] = Overhead]
  /\ UNCHANGED <<localVars, attempt, taken>>

\* The key is there (TryBegin answers false, the caller 409), or Redis cannot be
\* reached (TryBegin answers an error, the caller 500).
SetNXFails(r) ==
  /\ Goto(r, "idle", "refused")
  /\ UNCHANGED <<redisVars, localVars, attempt, left, taken>>

\* Mutant: the key is set without a time to live.
SetNXReplyLostNoTTL(r) ==
  /\ Goto(r, "idle", "refused")
  /\ key[WorkspaceOf[r]] = NoToken
  /\ key' = [key EXCEPT ![WorkspaceOf[r]] = r]
  /\ UNCHANGED <<ttl, localVars, attempt, left, taken>>

\* Redis set the key and the reply was lost: the client reports an error, or
\* repeats the command and is told that the key exists.  Nobody keeps the token.
SetNXReplyLost(r) ==
  /\ Goto(r, "idle", "refused")
  /\ key[WorkspaceOf[r]] = NoToken
  /\ SetKey(r)
  /\ UNCHANGED <<localVars, attempt, left, taken>>

(***************************************************************************)
(* TryBegin: the mutex section.  What held has for the workspace is        *)
(* overwritten, whoever put it there.                                      *)
(***************************************************************************)
\* Mutant: the counter follows the number of entries of held.
RecordTokenPerEntry(r) ==
  LET i == InstanceOf[r]
      w == WorkspaceOf[r]
  IN /\ Goto(r, "acquired", "preparing")
     /\ held' = [held EXCEPT ![i][w] = r]
     /\ localCount' = [localCount EXCEPT ![i] = IF held[i][w] = NoToken THEN @ + 1 ELSE @]
     /\ UNCHANGED <<redisVars, attempt, left, taken>>

RecordToken(r) ==
  LET i == InstanceOf[r]
      w == WorkspaceOf[r]
  IN /\ Goto(r, "acquired", "preparing")
     /\ held' = [held EXCEPT ![i][w] = r]
     /\ localCount' = [localCount EXCEPT ![i] = @ + 1]
     /\ UNCHANGED <<redisVars, attempt, left, taken>>

----------------------------------------------------------------------------
(***************************************************************************)
(* Execute between TryBegin and the deferred End.                          *)
(***************************************************************************)
\* The checks and the context passed; the first LLM attempt begins.
StartCall(r) ==
  /\ Goto(r, "preparing", "calling")
  /\ attempt' = [attempt EXCEPT ![r] = 1]
  /\ left' = [left EXCEPT ![r] = CallTimeout]
  /\ UNCHANGED <<redisVars, localVars, taken>>

\* A validation, readiness, context or provider error: Execute returns early.
ReturnEarly(r) ==
  /\ Goto(r, "preparing", "ending")
  /\ UNCHANGED <<redisVars, localVars, attempt, left, taken>>

\* Mutant: the attempts have no limit.
RetryCallForever(r) ==
  /\ pc[r] = "calling"
  /\ attempt' = [attempt EXCEPT ![r] = (@ % Attempts) + 1]
  /\ left' = [left EXCEPT ![r] = CallTimeout]
  /\ UNCHANGED <<redisVars, localVars, pc, taken>>

\* The attempt failed for a reason that is worth repeating.
RetryCall(r) ==
  /\ pc[r] = "calling"
  /\ attempt[r] < Attempts
  /\ attempt' = [attempt EXCEPT ![r] = @ + 1]
  /\ left' = [left EXCEPT ![r] = CallTimeout]
  /\ UNCHANGED <<redisVars, localVars, pc, taken>>

\* The provider answered, failed for good, or the client went away.
FinishCall(r) ==
  /\ Goto(r, "calling", "saving")
  /\ attempt' = [attempt EXCEPT ![r] = 0]
  /\ left' = [left EXCEPT ![r] = Overhead]
  /\ UNCHANGED <<redisVars, localVars, taken>>

\* The document row is written (or that failed) and Execute returns.
Save(r) ==
  /\ Goto(r, "saving", "ending")
  /\ UNCHANGED <<redisVars, localVars, attempt, left, taken>>

----------------------------------------------------------------------------
(***************************************************************************)
(* End: the mutex section takes the entry out of held, if there is one.    *)
(***************************************************************************)
\* Mutant: the entry goes and the counter stays.
EndLocalKeepsCount(r) ==
  LET i == InstanceOf[r]
      w == WorkspaceOf[r]
  IN /\ held[i][w] # NoToken
     /\ Goto(r, "ending", "releasing")
     /\ taken' = [taken EXCEPT ![r] = held[i][w]]
     /\ held' = [held EXCEPT ![i][w] = NoToken]
     /\ left' = [left EXCEPT ![r] = 0]
     /\ UNCHANGED <<redisVars, localCount, attempt>>

EndLocal(r) ==
  LET i == InstanceOf[r]
      w == WorkspaceOf[r]
  IN /\ held[i][w] # NoToken
     /\ Goto(r, "ending", "releasing")
     /\ taken' = [taken EXCEPT ![r] = held[i][w]]
     /\ held' = [held EXCEPT ![i][w] = NoToken]
     /\ localCount' = [localCount EXCEPT ![i] = IF @ > 0 THEN @ - 1 ELSE @]
     /\ left' = [left EXCEPT ![r] = 0]
     /\ UNCHANGED <<redisVars, attempt>>

\* No entry (another call of this instance overwrote it and took it): End
\* returns without touching the counter.
EndLocalMisses(r) ==
  /\ held[InstanceOf[r]][WorkspaceOf[r]] = NoToken
  /\ Goto(r, "ending", "over")
  /\ left' = [left EXCEPT ![r] = 0]
  /\ UNCHANGED <<redisVars, localVars, attempt, taken>>

(***************************************************************************)
(* End: the compare-and-delete script runs under the request's own context.*)
(***************************************************************************)
\* Mutant: DEL without the comparison.
ReleaseKeyBlindly(r) ==
  /\ Goto(r, "releasing", "over")
  /\ key' = [key EXCEPT ![WorkspaceOf[r]] = NoToken]
  /\ ttl' = [ttl EXCEPT ![WorkspaceOf[r]] = 0]
  /\ taken' = [taken EXCEPT ![r] = NoToken]
  /\ UNCHANGED <<localVars, attempt, left>>

ReleaseKey(r) ==
  LET w == WorkspaceOf[r]
      mine == key[w] = taken[r]
  IN /\ Goto(r, "releasing", "over")
     /\ key' = [key EXCEPT ![w] = IF mine THEN NoToken ELSE @]
     /\ ttl' = [ttl EXCEPT ![w] = IF mine THEN 0 ELSE @]
     /\ taken' = [taken EXCEPT ![r] = NoToken]
     /\ UNCHANGED <<localVars, attempt, left>>

\* The context is cancelled or Redis cannot be reached; the error is dropped
\* and the key stays until it expires.
ReleaseLost(r) ==
  /\ Goto(r, "releasing", "over")
  /\ taken' = [taken EXCEPT ![r] = NoToken]
  /\ UNCHANGED <<redisVars, localVars, attempt, left>>

----------------------------------------------------------------------------
(***************************************************************************)
(* The environment.                                                        *)
(***************************************************************************)
Age ==
  /\ ttl' = [w \in Workspaces |-> IF ttl[w] > 0 THEN ttl[w] - 1 ELSE 0]
  /\ key' = [w \in Workspaces |-> IF ttl[w] = 1 THEN NoToken ELSE key[w]]

\* Mutant: an attempt may run past its timeout.
TickWithoutTimeout ==
  /\ (\E w \in Workspaces : ttl[w] > 0) \/ (\E r \in Requests : pc[r] \in Critical)
  /\ Age
  /\ left' = [r \in Requests |-> IF pc[r] \in Critical THEN left[r] - 1 ELSE left[r]]
  /\ UNCHANGED <<localVars, pc, attempt, taken>>

\* One tick: keys age and expire, what the requests are doing uses up its time.
\* Nothing runs over its time.
Tick ==
  /\ \A r \in Requests : pc[r] \in Critical => left[r] > 0
  /\ (\E w \in Workspaces : ttl[w] > 0) \/ (\E r \in Requests : pc[r] \in Critical)
  /\ Age
  /\ left' = [r \in Requests |-> IF pc[r] \in Critical THEN left[r] - 1 ELSE left[r]]
  /\ UNCHANGED <<localVars, pc, attempt, taken>>

\* The process dies with everything it was doing and starts again, empty.
Crash(i) ==
  LET lost == {r \in Requests : InstanceOf[r] = i /\ pc[r] \in Active}
      Zero(f, z) == [r \in Requests |-> IF r \in lost THEN z ELSE f[r]]
  IN /\ lost # {}
     /\ pc' = Zero(pc, "over")
     /\ attempt' = Zero(attempt, 0)
     /\ left' = Zero(left, 0)
     /\ taken' = Zero(taken, NoToken)
     /\ held' = [held EXCEPT ![i] = [w \in Workspaces |-> NoToken]]
     /\ localCount' = [localCount EXCEPT ![i] = 0]
     /\ UNCHANGED redisVars

----------------------------------------------------------------------------
TryBegin(r) == SetNXWins(r) \/ SetNXFails(r) \/ SetNXReplyLost(r)

\* The steps a request that has begun takes by itself.
Proceed(r) ==
  \/ RecordToken(r)
  \/ StartCall(r) \/ ReturnEarly(r) \/ RetryCall(r) \/ FinishCall(r) \/ Save(r)
  \/ EndLocal(r) \/ EndLocalMisses(r)
  \/ ReleaseKey(r) \/ ReleaseLost(r)

Next ==
  \/ \E r \in Requests : TryBegin(r) \/ Proceed(r)
  \/ Tick
  \/ \E i \in Instances : Crash(i)

Spec == Init /\ [][Next]_vars

\* Requests arrive, clients leave and servers die when they like.  A request
\* that has begun goes on (its goroutine is scheduled) and time passes.
Fairness == WF_vars(Tick) /\ \A r \in Requests : WF_vars(Proceed(r))

FairSpec == Spec /\ Fairness

----------------------------------------------------------------------------
(***************************************************************************)
(* Properties.                                                             *)
(***************************************************************************)
Working(w) == {r \in Requests : WorkspaceOf[r] = w /\ pc[r] \in Critical}
Inflight(i) == {r \in Requests : InstanceOf[r] = i /\ pc[r] \in Counted}

\* The key outlives every request: what the comment on NewGenerationLock asks
\* for ("ttl should exceed max LLM call duration").
TTLCovers == Overhead + Attempts * CallTimeout + Overhead < LockTTL

(***************************************************************************)
(* "Overlapping generate/regenerate for the same workspace returns 409":   *)
(* no two requests, on whatever servers, work on one workspace at a time,  *)
(* across crashes, lost replies, failed releases and expiring keys.        *)
(***************************************************************************)
NoOverlap == \A w \in Workspaces : \A r, s \in Working(w) : r = s

(***************************************************************************)
(* The life of a key: set only where there is none, and gone only when its *)
(* request no longer works, whichever of End, the script of another call,  *)
(* the clock and a crash comes first.  A key that vanished under a working *)
(* request would break this before anyone overlaps.                        *)
(***************************************************************************)
Lease == INSTANCE WorkspaceLease WITH
           lease <- key, inside <- {r \in Requests : pc[r] \in Critical}
ImplementsLease == Lease!Spec

(***************************************************************************)
(* HasInflight never says "idle" while this server has a generation        *)
(* between TryBegin and End: the shutdown loop cannot overlook one, however*)
(* badly overlapping calls have mixed up held.                             *)
(***************************************************************************)
CountsEveryCall == \A i \in Instances : Cardinality(Inflight(i)) <= localCount[i]

(***************************************************************************)
(* "HasInflight reports whether this instance is running any generation":  *)
(* it does not say "busy" when nothing runs, which would hold up shutdown  *)
(* for the whole wait budget.                                              *)
(***************************************************************************)
BusyOnlyWhileRunning == \A i \in Instances : HasInflight(i) => Inflight(i) # {}

(***************************************************************************)
(* A key that goes away before its time was deleted by a request of the    *)
(* server that set it: a late End never takes another server's lock.       *)
(***************************************************************************)
ReleaseStaysOnInstance ==
  [][\A w \in Workspaces :
        key[w] # NoToken /\ key'[w] # key[w] /\ ttl[w] > 1 =>
          \E r \in Requests : /\ pc[r] = "releasing" /\ pc'[r] = "over"
                              /\ InstanceOf[r] = InstanceOf[key[w]]]_vars

(***************************************************************************)
(* A workspace is never locked out for good: whatever is lost (a reply, a  *)
(* release, a whole server), its key goes away.                            *)
(***************************************************************************)
LockoutEnds == \A w \in Workspaces : key[w] # NoToken ~> key[w] = NoToken
=============================================================================
