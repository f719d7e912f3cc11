------------------------ MODULE GenerationLockProofs ------------------------
(***************************************************************************)
(* Proofs about GenerationLock, for any number of servers, workspaces and  *)
(* requests and any time limits.                                           *)
(***************************************************************************)
EXTENDS GenerationLock, FiniteSetTheorems, TLAPS

----------------------------------------------------------------------------
LEMMA TypeCorrectInit == Init => TypeOK
BY RoutingAssumption, TimeAssumption
DEF Init, TypeOK, Tokens, States, Active, Critical, Counted, LockTTL

LEMMA TypeCorrectStep == TypeOK /\ [Next]_vars => TypeOK'
<1> USE RoutingAssumption, TimeAssumption
    DEF TypeOK, Tokens, States, Active, Critical, Counted, LockTTL
<1> SUFFICES ASSUME TypeOK, [Next]_vars
             PROVE  TypeOK'
  OBVIOUS
<1>1. ASSUME NEW r \in Requests, TryBegin(r)
      PROVE  TypeOK'
  <2>1. CASE SetNXWins(r)
    BY <2>1 DEF SetNXWins, SetKey, Goto, localVars
  <2>2. CASE SetNXFails(r)
    BY <2>2 DEF SetNXFails, Goto, redisVars, localVars
  <2>3. CASE SetNXReplyLost(r)
    BY <2>3 DEF SetNXReplyLost, SetKey, Goto, localVars
  <2>4. QED
    BY <1>1, <2>1, <2>2, <2>3 DEF TryBegin
<1>2. ASSUME NEW r \in Requests, RecordToken(r)
      PROVE  TypeOK'
  BY <1>2 DEF RecordToken, Goto, redisVars
<1>3. ASSUME NEW r \in Requests,
             \/ StartCall(r) \/ ReturnEarly(r) \/ RetryCall(r)
             \/ FinishCall(r) \/ Save(r)
      PROVE  TypeOK'
  <2>1. CASE StartCall(r)
    BY <2>1 DEF StartCall, Goto, redisVars, localVars
  <2>2. CASE ReturnEarly(r)
    BY <2>2 DEF ReturnEarly, Goto, redisVars, localVars
  <2>3. CASE RetryCall(r)
    BY <2>3 DEF RetryCall, redisVars, localVars
  <2>4. CASE FinishCall(r)
    BY <2>4 DEF FinishCall, Goto, redisVars, localVars
  <2>5. CASE Save(r)
    BY <2>5 DEF Save, Goto, redisVars, localVars
  <2>6. QED
    BY <1>3, <2>1, <2>2, <2>3, <2>4, <2>5
<1>4. ASSUME NEW r \in Requests, EndLocal(r) \/ EndLocalMisses(r)
      PROVE  TypeOK'
  <2>1. CASE EndLocal(r)
    BY <2>1 DEF EndLocal, Goto, redisVars
  <2>2. CASE EndLocalMisses(r)
    BY <2>2 DEF EndLocalMisses, Goto, redisVars, localVars
  <2>3. QED
    BY <1>4, <2>1, <2>2
<1>5. ASSUME NEW r \in Requests, ReleaseKey(r) \/ ReleaseLost(r)
      PROVE  TypeOK'
  <2>1. CASE ReleaseKey(r)
    BY <2>1 DEF ReleaseKey, Goto, localVars
  <2>2. CASE ReleaseLost(r)
    BY <2>2 DEF ReleaseLost, Goto, redisVars, localVars
  <2>3. QED
    BY <1>5, <2>1, <2>2
<1>6. CASE Tick
  BY <1>6 DEF Tick, Age, localVars
<1>7. ASSUME NEW i \in Instances, Crash(i)
      PROVE  TypeOK'
  BY <1>7 DEF Crash, redisVars
<1>8. CASE UNCHANGED vars
  BY <1>8 DEF vars
<1>9. QED
  BY <1>1, <1>2, <1>3, <1>4, <1>5, <1>6, <1>7, <1>8 DEF Next, Proceed

(***************************************************************************)
(* The variables keep their types: in particular localCount never goes     *)
(* below zero (End checks before it decrements) and no key outlives        *)
(* LockTTL (SET always comes with EX).                                     *)
(***************************************************************************)
THEOREM TypeCorrect == Spec => []TypeOK
BY TypeCorrectInit, TypeCorrectStep, PTL DEF Spec

----------------------------------------------------------------------------
(***************************************************************************)
(* Mutual exclusion.  The strengthening: a working request owns the key of *)
(* its workspace, the key has more time left than the request can still    *)
(* need, and held still has the request's own token when End looks for it. *)
(***************************************************************************)
Remaining(r) ==
  IF pc[r] \in {"acquired", "preparing"} THEN left[r] + Attempts * CallTimeout + Overhead
  ELSE IF pc[r] = "calling" THEN left[r] + (Attempts - attempt[r]) * CallTimeout + Overhead
  ELSE left[r]

OwnsKey(r) == /\ key[WorkspaceOf[r]] = r
              /\ Remaining(r) < ttl[WorkspaceOf[r]]

LockInv ==
  \A r \in Requests :
    /\ pc[r] \in Critical => OwnsKey(r)
    /\ pc[r] \in Counted => held[InstanceOf[r]][WorkspaceOf[r]] = r
    /\ pc[r] = "releasing" => taken[r] = r

\* What a request can still need is a number, and a retry does not need more
\* than was left to it.
LEMMA RemainingTime ==
  ASSUME TypeOK, NEW r \in Requests
  PROVE  /\ Remaining(r) \in Nat
         /\ attempt[r] < Attempts =>
              CallTimeout + (Attempts - (attempt[r] + 1)) * CallTimeout
                = (Attempts - attempt[r]) * CallTimeout
         /\ Attempts * CallTimeout \in Nat
         /\ (Attempts - 1) * CallTimeout + CallTimeout = Attempts * CallTimeout
<1>1. /\ attempt[r] \in Nat /\ attempt[r] <= Attempts /\ left[r] \in Nat
      /\ Attempts \in Nat /\ CallTimeout \in Nat /\ Overhead \in Nat
  BY TimeAssumption DEF TypeOK
<1>2. \A m \in Nat : m * CallTimeout \in Nat
  BY <1>1
<1>3. \A m \in Nat : (m + 1) * CallTimeout = m * CallTimeout + CallTimeout
  BY <1>1
<1>4. Attempts - attempt[r] \in Nat
  BY <1>1
<1>5. Remaining(r) \in Nat
  BY <1>1, <1>2, <1>4 DEF Remaining
<1>6. ASSUME attempt[r] < Attempts
      PROVE  CallTimeout + (Attempts - (attempt[r] + 1)) * CallTimeout
               = (Attempts - attempt[r]) * CallTimeout
  <2>1. PICK m \in Nat : m = Attempts - (attempt[r] + 1)
    BY <1>1, <1>6
  <2>2. Attempts - attempt[r] = m + 1
    BY <1>1, <2>1
  <2>3. m * CallTimeout \in Nat
    BY <1>2
  <2>4. QED
    BY <1>1, <1>3, <2>1, <2>2, <2>3
<1>7. (Attempts - 1) * CallTimeout + CallTimeout = Attempts * CallTimeout
  <2>1. PICK m \in Nat : Attempts = m + 1
    BY TimeAssumption
  <2>2. QED
    BY <1>1, <1>3, <2>1
<1>8. QED
  BY <1>1, <1>2, <1>5, <1>6, <1>7

\* The same of the next state.
LEMMA RemainingIsNat == TypeOK => \A r \in Requests : Remaining(r) \in Nat
BY RemainingTime

LEMMA RemainingIsNatNext == TypeOK' => (\A r \in Requests : Remaining(r) \in Nat)'
BY RemainingIsNat, PTL

LEMMA LockInvInit == Init => LockInv
BY DEF Init, LockInv, Critical, Counted

LEMMA LockInvStep ==
  ASSUME TTLCovers, TypeOK, LockInv, [Next]_vars
  PROVE  LockInv'
<1> USE RoutingAssumption, TimeAssumption
<1> DEFINE Inv(s) ==
      /\ pc[s] \in Critical => OwnsKey(s)
      /\ pc[s] \in Counted => held[InstanceOf[s]][WorkspaceOf[s]] = s
      /\ pc[s] = "releasing" => taken[s] = s
<1> SUFFICES ASSUME NEW s \in Requests
             PROVE  Inv(s)'
  BY DEF LockInv
<1>0. Inv(s)
  BY DEF LockInv
<1>1. ASSUME NEW r \in Requests, TryBegin(r)
      PROVE  Inv(s)'
  <2>1. CASE SetNXWins(r)
    <3>1. CASE s = r
      <4>1. pc'[r] = "acquired" /\ key'[WorkspaceOf[r]] = r /\ ttl'[WorkspaceOf[r]] = LockTTL
            /\ left'[r] = Overhead /\ attempt' = attempt
        BY <2>1 DEF SetNXWins, SetKey, Goto, TypeOK
      <4>2. Remaining(r)' < LockTTL
        BY <4>1, RemainingTime DEF Remaining, TTLCovers, LockTTL
      <4>3. QED
        BY <3>1, <4>1, <4>2 DEF OwnsKey, Counted
    <3>2. CASE s # r
      <4>1. pc'[s] = pc[s] /\ left'[s] = left[s] /\ attempt' = attempt /\ held' = held /\ taken' = taken
        BY <2>1, <3>2 DEF SetNXWins, Goto, TypeOK, localVars
      <4>2. pc[s] \in Critical => WorkspaceOf[s] # WorkspaceOf[r]
        BY <1>0, <2>1 DEF SetNXWins, OwnsKey
      <4>3. pc[s] \in Critical => OwnsKey(s)'
        BY <1>0, <2>1, <4>1, <4>2 DEF SetNXWins, SetKey, OwnsKey, Remaining, TypeOK
      <4>4. QED
        BY <1>0, <4>1, <4>3
    <3>3. QED
      BY <3>1, <3>2
  <2>2. CASE SetNXFails(r)
    BY <1>0, <2>2 DEF SetNXFails, Goto, TypeOK, redisVars, localVars, OwnsKey, Remaining,
                      Critical, Counted
  <2>3. CASE SetNXReplyLost(r)
    <3>1. pc'[s] # pc[s] => s = r /\ pc'[s] = "refused"
      BY <2>3 DEF SetNXReplyLost, Goto, TypeOK
    <3>2. left' = left /\ attempt' = attempt /\ held' = held /\ taken' = taken
      BY <2>3 DEF SetNXReplyLost, localVars
    <3>3. pc[s] \in Critical => WorkspaceOf[s] # WorkspaceOf[r]
      BY <1>0, <2>3 DEF SetNXReplyLost, OwnsKey
    <3>4. pc'[s] \in Critical => OwnsKey(s)'
      BY <1>0, <2>3, <3>1, <3>2, <3>3
      DEF SetNXReplyLost, SetKey, OwnsKey, Remaining, TypeOK, Critical, Counted
    <3>5. QED
      BY <1>0, <3>1, <3>2, <3>4 DEF Counted
  <2>4. QED
    BY <1>1, <2>1, <2>2, <2>3 DEF TryBegin
<1>2. ASSUME NEW r \in Requests, RecordToken(r)
      PROVE  Inv(s)'
  <2>1. /\ pc[r] = "acquired" /\ pc' = [pc EXCEPT ![r] = "preparing"]
        /\ UNCHANGED <<key, ttl, attempt, left, taken>>
        /\ held' = [held EXCEPT ![InstanceOf[r]][WorkspaceOf[r]] = r]
    BY <1>2 DEF RecordToken, Goto, redisVars
  <2>2. key[WorkspaceOf[r]] = r
    BY <2>1 DEF LockInv, Critical, OwnsKey
  <2>3. pc'[s] \in Critical => OwnsKey(s)'
    BY <1>0, <2>1 DEF OwnsKey, Remaining, TypeOK, Critical, Counted
  <2>4. pc'[s] \in Counted => held'[InstanceOf[s]][WorkspaceOf[s]] = s
    BY <1>0, <2>1, <2>2 DEF TypeOK, OwnsKey, Critical, Counted
  <2>5. QED
    BY <1>0, <2>1, <2>3, <2>4 DEF TypeOK
<1>3. ASSUME NEW r \in Requests,
             \/ StartCall(r) \/ ReturnEarly(r) \/ RetryCall(r)
             \/ FinishCall(r) \/ Save(r)
      PROVE  Inv(s)'
  <2>1. /\ UNCHANGED <<key, ttl, held, taken>>
        /\ pc[r] \in Counted /\ pc'[r] \in Counted
        /\ s # r => pc'[s] = pc[s] /\ left'[s] = left[s] /\ attempt'[s] = attempt[s]
    BY <1>3 DEF StartCall, ReturnEarly, RetryCall, FinishCall, Save, Goto, redisVars,
                localVars, Counted, TypeOK
  <2>2. Remaining(r)' <= Remaining(r)
    <3>1. CASE StartCall(r)
      <4>1. /\ pc[r] = "preparing" /\ pc'[r] = "calling" /\ attempt'[r] = 1
            /\ left'[r] = CallTimeout
        BY <3>1 DEF StartCall, Goto, TypeOK
      <4>2. left[r] \in Nat /\ CallTimeout \in Nat /\ Overhead \in Nat
        BY DEF TypeOK
      <4>3. /\ Remaining(r) = left[r] + Attempts * CallTimeout + Overhead
            /\ Remaining(r)' = CallTimeout + (Attempts - 1) * CallTimeout + Overhead
        BY <4>1 DEF Remaining
      <4>4. (Attempts - 1) * CallTimeout \in Int /\ Attempts * CallTimeout \in Int
        BY TimeAssumption
      <4>5. QED
        BY <4>2, <4>3, <4>4, RemainingTime
    <3>2. CASE ReturnEarly(r)
      <4>1. /\ pc[r] = "preparing" /\ pc'[r] = "ending" /\ left' = left
        BY <3>2 DEF ReturnEarly, Goto, TypeOK
      <4>2. left[r] \in Nat /\ Overhead \in Nat /\ Attempts * CallTimeout \in Nat
        BY RemainingTime DEF TypeOK
      <4>3. QED
        BY <4>1, <4>2 DEF Remaining
    <3>3. CASE RetryCall(r)
      <4>1. /\ pc[r] = "calling" /\ pc'[r] = "calling" /\ attempt'[r] = attempt[r] + 1
            /\ left'[r] = CallTimeout /\ attempt[r] < Attempts
        BY <3>3 DEF RetryCall, TypeOK
      <4>2. left[r] \in Nat /\ CallTimeout \in Nat /\ Overhead \in Nat
        BY DEF TypeOK
      <4>3. /\ Remaining(r) = left[r] + (Attempts - attempt[r]) * CallTimeout + Overhead
            /\ Remaining(r)' = CallTimeout + (Attempts - (attempt[r] + 1)) * CallTimeout + Overhead
        BY <4>1 DEF Remaining
      <4>4. CallTimeout + (Attempts - (attempt[r] + 1)) * CallTimeout
              = (Attempts - attempt[r]) * CallTimeout
        BY <4>1, RemainingTime
      <4>5. (Attempts - attempt[r]) * CallTimeout \in Int
        BY DEF TypeOK
      <4>6. QED
        BY <4>2, <4>3, <4>4, <4>5
    <3>4. CASE FinishCall(r)
      <4>1. /\ pc[r] = "calling" /\ pc'[r] = "saving" /\ left'[r] = Overhead
        BY <3>4 DEF FinishCall, Goto, TypeOK
      <4>2. left[r] \in Nat /\ (Attempts - attempt[r]) \in Nat /\ Overhead \in Nat
        BY DEF TypeOK
      <4>3. (Attempts - attempt[r]) * CallTimeout \in Nat
        BY <4>2
      <4>4. QED
        BY <4>1, <4>2, <4>3 DEF Remaining
    <3>5. CASE Save(r)
      BY <3>5, RemainingTime DEF Save, Goto, TypeOK, Remaining
    <3>6. QED
      BY <1>3, <3>1, <3>2, <3>3, <3>4, <3>5
  <2>3. CASE s = r
    <3>1. /\ key[WorkspaceOf[r]] = r /\ Remaining(r) < ttl[WorkspaceOf[r]]
          /\ held[InstanceOf[r]][WorkspaceOf[r]] = r
      BY <1>0, <2>1, <2>3 DEF OwnsKey, Critical
    <3>2. Remaining(r) \in Nat /\ ttl[WorkspaceOf[r]] \in Nat
      BY RemainingTime DEF TypeOK
    <3>3. TypeOK'
      BY TypeCorrectStep
    <3>4. Remaining(r)' \in Nat
      BY <3>3, RemainingIsNatNext
    <3>5. QED
      BY <2>1, <2>2, <2>3, <3>1, <3>2, <3>4 DEF OwnsKey, Critical, Counted
  <2>4. CASE s # r
    BY <1>0, <2>1, <2>4 DEF OwnsKey, Remaining
  <2>5. QED
    BY <2>3, <2>4
<1>4. ASSUME NEW r \in Requests, EndLocal(r) \/ EndLocalMisses(r)
      PROVE  Inv(s)'
  <2>1. /\ UNCHANGED <<key, ttl, attempt>>
        /\ pc[r] = "ending" /\ pc'[r] \notin Critical
        /\ s # r => pc'[s] = pc[s] /\ left'[s] = left[s] /\ taken'[s] = taken[s]
    BY <1>4 DEF EndLocal, EndLocalMisses, Goto, redisVars, localVars, Critical, Counted, TypeOK
  <2>2. key[WorkspaceOf[r]] = r /\ held[InstanceOf[r]][WorkspaceOf[r]] = r
    BY <2>1 DEF LockInv, OwnsKey, Critical, Counted
  <2>3. EndLocal(r)
    BY <1>4, <2>2 DEF EndLocalMisses
  <2>4. CASE s = r
    BY <2>1, <2>2, <2>3, <2>4 DEF EndLocal, Goto, TypeOK, Critical, Counted
  <2>5. CASE s # r
    <3>1. pc[s] \in Critical => WorkspaceOf[s] # WorkspaceOf[r]
      BY <1>0, <2>2, <2>5 DEF OwnsKey
    <3>2. pc[s] \in Critical => OwnsKey(s)'
      BY <1>0, <2>1, <2>5 DEF OwnsKey, Remaining
    <3>3. pc[s] \in Counted => held'[InstanceOf[s]][WorkspaceOf[s]] = s
      BY <1>0, <2>3, <2>5, <3>1 DEF EndLocal, TypeOK, Critical
    <3>4. QED
      BY <1>0, <2>1, <2>5, <3>2, <3>3
  <2>6. QED
    BY <2>4, <2>5
<1>5. ASSUME NEW r \in Requests, ReleaseKey(r) \/ ReleaseLost(r)
      PROVE  Inv(s)'
  <2>1. /\ UNCHANGED <<held, attempt, left>>
        /\ pc[r] = "releasing" /\ pc'[r] = "over"
        /\ s # r => pc'[s] = pc[s] /\ taken'[s] = taken[s]
    BY <1>5 DEF ReleaseKey, ReleaseLost, Goto, redisVars, localVars, TypeOK
  <2>2. taken[r] = r
    BY <2>1 DEF LockInv
  <2>3. ASSUME NEW w \in Workspaces, key[w] # r
        PROVE  key'[w] = key[w] /\ ttl'[w] = ttl[w]
    BY <1>5, <2>2, <2>3 DEF ReleaseKey, ReleaseLost, redisVars, TypeOK
  <2>4. CASE s = r
    BY <2>1, <2>4 DEF Critical, Counted
  <2>5. CASE s # r
    BY <1>0, <2>1, <2>3, <2>5 DEF OwnsKey, Remaining
  <2>6. QED
    BY <2>4, <2>5
<1>6. CASE Tick
  <2>1. /\ UNCHANGED <<held, pc, attempt, taken>>
    BY <1>6 DEF Tick, localVars
  <2>2. ASSUME pc[s] \in Critical
        PROVE  OwnsKey(s)'
    <3>1. /\ left[s] \in Nat /\ left[s] > 0 /\ left'[s] = left[s] - 1
          /\ ttl[WorkspaceOf[s]] \in Nat
          /\ ttl'[WorkspaceOf[s]] =
               IF ttl[WorkspaceOf[s]] > 0 THEN ttl[WorkspaceOf[s]] - 1 ELSE 0
          /\ key'[WorkspaceOf[s]] =
               IF ttl[WorkspaceOf[s]] = 1 THEN NoToken ELSE key[WorkspaceOf[s]]
      BY <1>6, <2>2 DEF Tick, Age, TypeOK
    <3>2. /\ key[WorkspaceOf[s]] = s /\ Remaining(s) < ttl[WorkspaceOf[s]]
      BY <1>0, <2>2 DEF OwnsKey
    <3>3. Remaining(s)' = Remaining(s) - 1
      <4>1. /\ Attempts * CallTimeout \in Int /\ Overhead \in Int /\ attempt[s] \in Int
        BY DEF TypeOK
      <4>2. (Attempts - attempt[s]) * CallTimeout \in Int
        BY <4>1
      <4>3. QED
        BY <2>1, <3>1, <4>1, <4>2 DEF Remaining
    <3>4. Remaining(s) \in Nat /\ Remaining(s)' \in Nat
      BY RemainingTime, TypeCorrectStep, RemainingIsNatNext
    <3>5. ttl[WorkspaceOf[s]] > 1
      BY <3>1, <3>2, <3>3, <3>4
    <3>6. QED
      BY <3>1, <3>2, <3>3, <3>4, <3>5 DEF OwnsKey
  <2>3. QED
    BY <1>0, <2>1, <2>2
<1>7. ASSUME NEW i \in Instances, Crash(i)
      PROVE  Inv(s)'
  <2>1. UNCHANGED <<key, ttl>>
    BY <1>7 DEF Crash, redisVars
  <2>2. CASE InstanceOf[s] = i /\ pc[s] \in Active
    BY <1>7, <2>2 DEF Crash, TypeOK, Critical, Counted
  <2>3. CASE ~(InstanceOf[s] = i /\ pc[s] \in Active)
    <3>1. /\ pc'[s] = pc[s] /\ left'[s] = left[s] /\ attempt'[s] = attempt[s]
          /\ taken'[s] = taken[s]
      BY <1>7, <2>3 DEF Crash, TypeOK
    <3>2. pc[s] \in Counted => held'[InstanceOf[s]] = held[InstanceOf[s]]
      BY <1>7, <2>3 DEF Crash, TypeOK, Active, Critical
    <3>3. QED
      BY <1>0, <2>1, <3>1, <3>2 DEF OwnsKey, Remaining
  <2>4. QED
    BY <2>2, <2>3
<1>8. CASE UNCHANGED vars
  BY <1>0, <1>8 DEF vars, OwnsKey, Remaining
<1>9. QED
  BY <1>1, <1>2, <1>3, <1>4, <1>5, <1>6, <1>7, <1>8 DEF Next, Proceed

LEMMA LockInvariant == ASSUME TTLCovers PROVE Spec => [](TypeOK /\ LockInv)
<1>1. Init => TypeOK /\ LockInv
  BY TypeCorrectInit, LockInvInit
<1>2. TypeOK /\ LockInv /\ [Next]_vars => (TypeOK /\ LockInv)'
  BY TypeCorrectStep, LockInvStep
<1>3. QED
  BY <1>1, <1>2, PTL DEF Spec

LEMMA OwnersAreAlone == TypeOK /\ LockInv => NoOverlap
BY DEF LockInv, OwnsKey, NoOverlap, Working

(***************************************************************************)
(* If the key's time to live exceeds the longest call, then no two         *)
(* requests ever work on one workspace, whatever crashes, lost replies and *)
(* lost releases occur.                                                    *)
(***************************************************************************)
THEOREM MutualExclusion == ASSUME TTLCovers PROVE Spec => []NoOverlap
BY LockInvariant, OwnersAreAlone, PTL

----------------------------------------------------------------------------
(***************************************************************************)
(* The refinement: taking the key is Grant, whether or not the reply       *)
(* arrives; the release script and the clock are Free; every other step    *)
(* takes calls from inside, or changes nothing that the lease shows.       *)
(***************************************************************************)
LEMMA OnlyTakingTheKeyAdds ==
  ASSUME TypeOK, [Next]_vars, \A r \in Requests : ~SetNXWins(r), NEW s \in Requests,
         pc'[s] \in Critical
  PROVE  pc[s] \in Critical
<1>1. ASSUME NEW r \in Requests, TryBegin(r)
      PROVE  pc[s] \in Critical
  BY <1>1 DEF TryBegin, SetNXFails, SetNXReplyLost, Goto, TypeOK, Critical, Counted
<1>2. ASSUME NEW r \in Requests, Proceed(r)
      PROVE  pc[s] \in Critical
  <2>1. pc'[s] = pc[s] \/ s = r
    BY <1>2 DEF Proceed, RecordToken, StartCall, ReturnEarly, RetryCall, FinishCall, Save,
                EndLocal, EndLocalMisses, ReleaseKey, ReleaseLost, Goto, TypeOK
  <2>2. pc[r] \in Critical \/ pc'[r] = "over"
    BY <1>2 DEF Proceed, RecordToken, StartCall, ReturnEarly, RetryCall, FinishCall, Save,
                EndLocal, EndLocalMisses, ReleaseKey, ReleaseLost, Goto, TypeOK, Critical, Counted
  <2>3. QED
    BY <2>1, <2>2 DEF Critical, Counted
<1>3. CASE Tick
  BY <1>3 DEF Tick
<1>4. ASSUME NEW i \in Instances, Crash(i)
      PROVE  pc[s] \in Critical
  BY <1>4 DEF Crash, TypeOK, Critical, Counted
<1>5. CASE UNCHANGED vars
  BY <1>5 DEF vars
<1>6. QED
  BY <1>1, <1>2, <1>3, <1>4, <1>5 DEF Next

\* A call that has work left can still need time.
LEMMA WorkLeftIsPositive ==
  ASSUME TypeOK, NEW r \in Requests, left[r] > 0
  PROVE  Remaining(r) \in Nat /\ Remaining(r) > 0
<1>1. /\ attempt[r] \in Nat /\ attempt[r] <= Attempts /\ left[r] \in Nat
      /\ Attempts \in Nat /\ CallTimeout \in Nat /\ Overhead \in Nat
  BY TimeAssumption DEF TypeOK
<1>2. \A m \in Nat : m * CallTimeout \in Nat
  BY <1>1
<1>3. Attempts - attempt[r] \in Nat
  BY <1>1
<1>4. /\ Attempts * CallTimeout \in Nat
      /\ (Attempts - attempt[r]) * CallTimeout \in Nat
  BY <1>1, <1>2, <1>3
<1>5. QED
  BY <1>1, <1>4 DEF Remaining

\* A key has the token of a call of its own workspace.
KeysNameTheirWorkspace ==
  \A w \in Workspaces : key[w] # NoToken => WorkspaceOf[key[w]] = w

LEMMA KeysNameTheirWorkspaceStep ==
  ASSUME TypeOK, KeysNameTheirWorkspace, [Next]_vars
  PROVE  KeysNameTheirWorkspace'
<1> USE RoutingAssumption DEF TypeOK, KeysNameTheirWorkspace
<1>1. ASSUME NEW r \in Requests, key' = [key EXCEPT ![WorkspaceOf[r]] = r]
      PROVE  KeysNameTheirWorkspace'
  BY <1>1
<1>2. ASSUME \A w \in Workspaces : key'[w] \in {key[w], NoToken}
      PROVE  KeysNameTheirWorkspace'
  BY <1>2
<1>3. ASSUME NEW r \in Requests, TryBegin(r)
      PROVE  KeysNameTheirWorkspace'
  <2>1. key' = [key EXCEPT ![WorkspaceOf[r]] = r] \/ UNCHANGED key
    BY <1>3 DEF TryBegin, SetNXWins, SetNXFails, SetNXReplyLost, SetKey, redisVars
  <2>2. QED
    BY <1>1, <2>1
<1>4. ASSUME NEW r \in Requests, Proceed(r)
      PROVE  KeysNameTheirWorkspace'
  <2>1. \A w \in Workspaces : key'[w] \in {key[w], NoToken}
    BY <1>4 DEF Proceed, RecordToken, StartCall, ReturnEarly, RetryCall, FinishCall, Save,
                EndLocal, EndLocalMisses, ReleaseKey, ReleaseLost, redisVars
  <2>2. QED
    BY <1>2, <2>1
<1>5. ASSUME Tick
      PROVE  KeysNameTheirWorkspace'
  BY <1>2, <1>5 DEF Tick, Age
<1>6. ASSUME NEW i \in Instances, Crash(i)
      PROVE  KeysNameTheirWorkspace'
  BY <1>6 DEF Crash, redisVars
<1>7. CASE UNCHANGED vars
  BY <1>7 DEF vars
<1>8. QED
  BY <1>3, <1>4, <1>5, <1>6, <1>7 DEF Next

LEMMA LeaseStep ==
  ASSUME TypeOK, LockInv, KeysNameTheirWorkspace, [Next]_vars
  PROVE  [Lease!Next]_(Lease!leaseVars)
<1> USE RoutingAssumption, TimeAssumption
<1> DEFINE Inside == {r \in Requests : pc[r] \in Critical}
<1>0. \A r \in Inside : key[WorkspaceOf[r]] = r /\ Remaining(r) < ttl[WorkspaceOf[r]]
  BY DEF LockInv, OwnsKey
<1>1. ASSUME NEW r \in Requests, SetNXWins(r) \/ SetNXReplyLost(r)
      PROVE  Lease!Grant(r)
  <2>1. key[WorkspaceOf[r]] = NoToken /\ key' = [key EXCEPT ![WorkspaceOf[r]] = r]
    BY <1>1 DEF SetNXWins, SetNXReplyLost, SetKey
  <2>2. pc[r] = "idle"
        /\ (pc' = [pc EXCEPT ![r] = "acquired"] \/ pc' = [pc EXCEPT ![r] = "refused"])
    BY <1>1 DEF SetNXWins, SetNXReplyLost, Goto
  <2>3. Inside' \in {Inside, Inside \union {r}}
    BY <2>2 DEF TypeOK, Critical, Counted
  <2>4. QED
    BY <2>1, <2>3 DEF Lease!Grant
<1>2. ASSUME \A r \in Requests : ~SetNXWins(r), UNCHANGED key
      PROVE  Lease!Leave
  <2>1. Inside' \subseteq Inside
    BY <1>2, OnlyTakingTheKeyAdds
  <2>2. QED
    BY <1>2, <2>1 DEF Lease!Leave
<1>3. ASSUME NEW r \in Requests, ReleaseKey(r)
      PROVE  Lease!Free
  <2>1. pc[r] = "releasing" /\ taken[r] = r /\ pc' = [pc EXCEPT ![r] = "over"]
    BY <1>3 DEF ReleaseKey, Goto, LockInv
  <2>2. Inside' = Inside
    BY <2>1 DEF TypeOK, Critical, Counted
  <2>3. ASSUME NEW w \in Workspaces, key'[w] # key[w]
        PROVE  key'[w] = NoToken /\ key[w] \notin Inside
    <3>1. key[w] = r /\ key'[w] = NoToken
      BY <1>3, <2>1, <2>3 DEF ReleaseKey, TypeOK
    <3>2. QED
      BY <2>1, <3>1 DEF Critical, Counted
  <2>4. key' \in [Workspaces -> Requests \union {NoToken}]
    BY <1>3 DEF ReleaseKey, TypeOK, Tokens
  <2>5. QED
    BY <2>2, <2>3, <2>4 DEF Lease!Free
<1>4. ASSUME Tick
      PROVE  Lease!Free
  <2>1. Inside' = Inside
    BY <1>4 DEF Tick
  <2>2. ASSUME NEW w \in Workspaces, key'[w] # key[w]
        PROVE  key'[w] = NoToken /\ key[w] \notin Inside
    <3>1. ttl[w] = 1 /\ key'[w] = NoToken
      BY <1>4, <2>2 DEF Tick, Age, TypeOK
    <3>2. ASSUME NEW r \in Inside, key[w] = r
          PROVE  FALSE
      <4>1. left[r] > 0 /\ left[r] \in Nat
        BY <1>4 DEF Tick, TypeOK
      <4>2. Remaining(r) \in Nat /\ Remaining(r) > 0
        BY <4>1, WorkLeftIsPositive
      <4>3. WorkspaceOf[r] = w
        BY <3>1, <3>2 DEF KeysNameTheirWorkspace
      <4>4. QED
        BY <1>0, <3>1, <4>2, <4>3
    <3>3. QED
      BY <3>1, <3>2
  <2>3. key' \in [Workspaces -> Requests \union {NoToken}]
    BY <1>4 DEF Tick, Age, TypeOK, Tokens
  <2>4. QED
    BY <2>1, <2>2, <2>3 DEF Lease!Free
<1>5. ASSUME ~Tick,
             \A r \in Requests : ~SetNXWins(r) /\ ~SetNXReplyLost(r) /\ ~ReleaseKey(r)
      PROVE  UNCHANGED key
  <2>1. CASE \E r \in Requests : TryBegin(r) \/ Proceed(r)
    BY <1>5, <2>1 DEF TryBegin, SetNXFails, Proceed, RecordToken, StartCall, ReturnEarly,
                      RetryCall, FinishCall, Save, EndLocal, EndLocalMisses, ReleaseLost,
                      redisVars
  <2>2. CASE \E i \in Instances : Crash(i)
    BY <2>2 DEF Crash, redisVars
  <2>3. CASE UNCHANGED vars
    BY <2>3 DEF vars
  <2>4. QED
    BY <1>5, <2>1, <2>2, <2>3 DEF Next
<1>6. CASE Tick \/ \E r \in Requests : SetNXWins(r) \/ SetNXReplyLost(r) \/ ReleaseKey(r)
  BY <1>1, <1>3, <1>4, <1>6 DEF Lease!Next
<1>7. CASE ~Tick /\ \A r \in Requests : ~SetNXWins(r) /\ ~SetNXReplyLost(r) /\ ~ReleaseKey(r)
  BY <1>2, <1>5, <1>7 DEF Lease!Next
<1>8. QED
  BY <1>6, <1>7

(***************************************************************************)
(* The Redis lock implements the leases if the key's time to live exceeds  *)
(* the longest call: no key passes from one call to another, or is lost to *)
(* the call that works under it.                                           *)
(***************************************************************************)
THEOREM LockImplementsLease == ASSUME TTLCovers PROVE Spec => ImplementsLease
<1>1. Init => Lease!Init /\ KeysNameTheirWorkspace
  BY DEF Init, Lease!Init, Critical, Counted, KeysNameTheirWorkspace
<1>2. TypeOK /\ KeysNameTheirWorkspace /\ [Next]_vars => KeysNameTheirWorkspace'
  BY KeysNameTheirWorkspaceStep
<1>3. TypeOK /\ LockInv /\ KeysNameTheirWorkspace /\ [Next]_vars =>
        [Lease!Next]_(Lease!leaseVars)
  BY LeaseStep
<1>4. QED
  BY <1>1, <1>2, <1>3, LockInvariant, PTL DEF Spec, ImplementsLease, Lease!Spec

----------------------------------------------------------------------------
(***************************************************************************)
(* The in-flight counter.                                                  *)
(***************************************************************************)
LEMMA InflightIsFinite ==
  ASSUME NEW i \in Instances
  PROVE  /\ IsFiniteSet(Inflight(i))
         /\ Cardinality(Inflight(i)) \in Nat
<1>1. Inflight(i) \in SUBSET Requests
  BY DEF Inflight
<1>2. QED
  BY <1>1, FiniteAssumption, FS_Subset, FS_CardinalityType

\* How a step of the system changes the set of calls an instance has in
\* progress, and its counter with it.
LEMMA InflightStep ==
  ASSUME TypeOK, [Next]_vars, NEW i \in Instances
  PROVE  \/ Inflight(i)' = Inflight(i) /\ localCount'[i] = localCount[i]
         \/ Inflight(i)' = {} /\ localCount'[i] = 0
         \/ \E r \in Requests :
              \/ /\ r \notin Inflight(i) /\ Inflight(i)' = Inflight(i) \union {r}
                 /\ localCount'[i] = localCount[i] + 1
              \/ /\ r \in Inflight(i) /\ Inflight(i)' = Inflight(i) \ {r}
                 /\ \/ localCount'[i] = IF localCount[i] > 0 THEN localCount[i] - 1
                                        ELSE localCount[i]
                    \/ EndLocalMisses(r) /\ localCount'[i] = localCount[i]
<1> USE RoutingAssumption
<1>1. ASSUME NEW r \in Requests, TryBegin(r)
      PROVE  Inflight(i)' = Inflight(i) /\ localCount'[i] = localCount[i]
  BY <1>1 DEF TryBegin, SetNXWins, SetNXFails, SetNXReplyLost, Goto, localVars, TypeOK,
              Inflight, Counted
<1>2. ASSUME NEW r \in Requests, RecordToken(r), InstanceOf[r] = i
      PROVE  /\ r \notin Inflight(i) /\ Inflight(i)' = Inflight(i) \union {r}
             /\ localCount'[i] = localCount[i] + 1
  BY <1>2 DEF RecordToken, Goto, TypeOK, Inflight, Counted
<1>3. ASSUME NEW r \in Requests, EndLocal(r), InstanceOf[r] = i
      PROVE  /\ r \in Inflight(i) /\ Inflight(i)' = Inflight(i) \ {r}
             /\ localCount'[i] = IF localCount[i] > 0 THEN localCount[i] - 1 ELSE localCount[i]
  BY <1>3 DEF EndLocal, Goto, TypeOK, Inflight, Counted
<1>4. ASSUME NEW r \in Requests, EndLocalMisses(r), InstanceOf[r] = i
      PROVE  /\ r \in Inflight(i) /\ Inflight(i)' = Inflight(i) \ {r}
             /\ localCount'[i] = localCount[i]
  BY <1>4 DEF EndLocalMisses, Goto, TypeOK, Inflight, Counted, localVars
<1>5. ASSUME NEW r \in Requests, RecordToken(r) \/ EndLocal(r) \/ EndLocalMisses(r),
             InstanceOf[r] # i
      PROVE  Inflight(i)' = Inflight(i) /\ localCount'[i] = localCount[i]
  <2>1. \A q \in Requests : q # r => pc'[q] = pc[q]
    BY <1>5 DEF RecordToken, EndLocal, EndLocalMisses, Goto, TypeOK
  <2>2. localCount'[i] = localCount[i]
    BY <1>5 DEF RecordToken, EndLocal, EndLocalMisses, localVars, TypeOK
  <2>3. QED
    BY <1>5, <2>1, <2>2 DEF Inflight
<1>6. ASSUME NEW r \in Requests,
             \/ StartCall(r) \/ ReturnEarly(r) \/ RetryCall(r) \/ FinishCall(r) \/ Save(r)
             \/ ReleaseKey(r) \/ ReleaseLost(r)
      PROVE  Inflight(i)' = Inflight(i) /\ localCount'[i] = localCount[i]
  <2>1. \A q \in Requests : pc'[q] \in Counted <=> pc[q] \in Counted
    BY <1>6 DEF StartCall, ReturnEarly, RetryCall, FinishCall, Save, ReleaseKey, ReleaseLost,
                Goto, TypeOK, Counted
  <2>2. localCount' = localCount
    BY <1>6 DEF StartCall, ReturnEarly, RetryCall, FinishCall, Save, ReleaseKey, ReleaseLost,
                localVars
  <2>3. QED
    BY <2>1, <2>2 DEF Inflight
<1>7. CASE Tick
  BY <1>7 DEF Tick, localVars, Inflight
<1>8. ASSUME NEW j \in Instances, Crash(j)
      PROVE  \/ Inflight(i)' = Inflight(i) /\ localCount'[i] = localCount[i]
             \/ Inflight(i)' = {} /\ localCount'[i] = 0
  <2>1. CASE j = i
    BY <1>8, <2>1 DEF Crash, TypeOK, Inflight, Counted, Critical, Active
  <2>2. CASE j # i
    <3>1. \A q \in Requests : InstanceOf[q] = i => pc'[q] = pc[q]
      BY <1>8, <2>2 DEF Crash, TypeOK
    <3>2. localCount'[i] = localCount[i]
      BY <1>8, <2>2 DEF Crash, TypeOK
    <3>3. QED
      BY <3>1, <3>2 DEF Inflight
  <2>3. QED
    BY <2>1, <2>2
<1>9. CASE UNCHANGED vars
  BY <1>9 DEF vars, Inflight
<1>10. ASSUME NEW r \in Requests, Proceed(r)
       PROVE  \/ Inflight(i)' = Inflight(i) /\ localCount'[i] = localCount[i]
              \/ /\ r \notin Inflight(i) /\ Inflight(i)' = Inflight(i) \union {r}
                 /\ localCount'[i] = localCount[i] + 1
              \/ /\ r \in Inflight(i) /\ Inflight(i)' = Inflight(i) \ {r}
                 /\ \/ localCount'[i] = IF localCount[i] > 0 THEN localCount[i] - 1
                                        ELSE localCount[i]
                    \/ EndLocalMisses(r) /\ localCount'[i] = localCount[i]
  BY <1>2, <1>3, <1>4, <1>5, <1>6, <1>10 DEF Proceed
<1>11. QED
  BY <1>1, <1>7, <1>8, <1>9, <1>10 DEF Next

(***************************************************************************)
(* HasInflight never overlooks a running call, with no assumption on the   *)
(* time limits: even when keys expire under running calls and two of them  *)
(* share one entry of held.                                                *)
(***************************************************************************)
THEOREM NoCallOverlooked == Spec => []CountsEveryCall
<1>1. Init => CountsEveryCall
  <2>1. ASSUME Init, NEW i \in Instances
        PROVE  Inflight(i) = {} /\ localCount[i] = 0
    BY <2>1 DEF Init, Inflight, Counted
  <2>2. QED
    BY <2>1, FS_EmptySet DEF CountsEveryCall
<1>2. ASSUME TypeOK, CountsEveryCall, [Next]_vars
      PROVE  CountsEveryCall'
  <2> SUFFICES ASSUME NEW i \in Instances
               PROVE  Cardinality(Inflight(i)') <= localCount'[i]
    BY DEF CountsEveryCall
  <2>1. /\ Cardinality(Inflight(i)) <= localCount[i] /\ localCount[i] \in Nat
        /\ IsFiniteSet(Inflight(i)) /\ Cardinality(Inflight(i)) \in Nat
    BY <1>2, InflightIsFinite DEF CountsEveryCall, TypeOK
  <2>2. CASE Inflight(i)' = {} /\ localCount'[i] = 0
    BY <2>2, FS_EmptySet
  <2>3. ASSUME NEW r \in Requests, r \notin Inflight(i),
               Inflight(i)' = Inflight(i) \union {r}, localCount'[i] = localCount[i] + 1
        PROVE  Cardinality(Inflight(i)') <= localCount'[i]
    <3>1. Cardinality(Inflight(i)') = Cardinality(Inflight(i)) + 1
      BY <2>1, <2>3, FS_AddElement
    <3>2. QED
      BY <2>1, <2>3, <3>1
  <2>4. ASSUME NEW r \in Requests, r \in Inflight(i), Inflight(i)' = Inflight(i) \ {r},
               \/ localCount'[i] = IF localCount[i] > 0 THEN localCount[i] - 1
                                   ELSE localCount[i]
               \/ localCount'[i] = localCount[i]
        PROVE  Cardinality(Inflight(i)') <= localCount'[i]
    <3>1. Cardinality(Inflight(i)') = Cardinality(Inflight(i)) - 1
      BY <2>1, <2>4, FS_RemoveElement
    <3>2. Cardinality(Inflight(i)) # 0
      BY <2>1, <2>4, FS_EmptySet
    <3>3. QED
      BY <2>1, <2>4, <3>1, <3>2
  <2>5. QED
    BY <1>2, <2>1, <2>2, <2>3, <2>4, InflightStep
<1>3. QED
  BY <1>1, <1>2, TypeCorrect, PTL DEF Spec

(***************************************************************************)
(* If the key's time to live exceeds the longest call, then the counter is *)
(* exact and HasInflight says "busy" only while a call runs.               *)
(***************************************************************************)
CountIsExact == \A i \in Instances : localCount[i] = Cardinality(Inflight(i))

THEOREM BusyMeansRunning == ASSUME TTLCovers PROVE Spec => []BusyOnlyWhileRunning
<1>1. Init => CountIsExact
  <2>1. ASSUME Init, NEW i \in Instances
        PROVE  Inflight(i) = {} /\ localCount[i] = 0
    BY <2>1 DEF Init, Inflight, Counted
  <2>2. QED
    BY <2>1, FS_EmptySet DEF CountIsExact
<1>2. ASSUME TypeOK, LockInv, CountIsExact, [Next]_vars
      PROVE  CountIsExact'
  <2> SUFFICES ASSUME NEW i \in Instances
               PROVE  localCount'[i] = Cardinality(Inflight(i)')
    BY DEF CountIsExact
  <2>1. /\ localCount[i] = Cardinality(Inflight(i)) /\ localCount[i] \in Nat
        /\ IsFiniteSet(Inflight(i))
    BY <1>2, InflightIsFinite DEF CountIsExact, TypeOK
  <2>2. CASE Inflight(i)' = {} /\ localCount'[i] = 0
    BY <2>2, FS_EmptySet
  <2>3. ASSUME NEW r \in Requests, r \notin Inflight(i),
               Inflight(i)' = Inflight(i) \union {r}, localCount'[i] = localCount[i] + 1
        PROVE  localCount'[i] = Cardinality(Inflight(i)')
    BY <2>1, <2>3, FS_AddElement
  <2>4. ASSUME NEW r \in Requests, r \in Inflight(i), Inflight(i)' = Inflight(i) \ {r},
               localCount'[i] = IF localCount[i] > 0 THEN localCount[i] - 1
                                ELSE localCount[i]
        PROVE  localCount'[i] = Cardinality(Inflight(i)')
    <3>1. Cardinality(Inflight(i)') = Cardinality(Inflight(i)) - 1
      BY <2>1, <2>4, FS_RemoveElement
    <3>2. Cardinality(Inflight(i)) # 0
      BY <2>1, <2>4, FS_EmptySet
    <3>3. QED
      BY <2>1, <2>4, <3>1, <3>2
  <2>5. \A r \in Requests : ~EndLocalMisses(r)
    BY <1>2, RoutingAssumption DEF LockInv, EndLocalMisses, Goto, Counted
  <2>6. QED
    BY <1>2, <2>1, <2>2, <2>3, <2>4, <2>5, InflightStep
<1>3. CountIsExact => BusyOnlyWhileRunning
  <2> SUFFICES ASSUME CountIsExact, NEW i \in Instances, localCount[i] > 0, Inflight(i) = {}
               PROVE  FALSE
    BY DEF BusyOnlyWhileRunning, HasInflight
  <2>1. localCount[i] = 0
    BY FS_EmptySet DEF CountIsExact
  <2>2. QED
    BY <2>1
<1>4. QED
  BY <1>1, <1>2, <1>3, LockInvariant, PTL DEF Spec

----------------------------------------------------------------------------
(***************************************************************************)
(* Tokens stay on the server that drew them.                               *)
(***************************************************************************)
TokensStayHome ==
  /\ \A i \in Instances, w \in Workspaces :
       held[i][w] # NoToken => InstanceOf[held[i][w]] = i
  /\ \A r \in Requests : taken[r] # NoToken => InstanceOf[taken[r]] = InstanceOf[r]

LEMMA TokensStayHomeStep ==
  ASSUME TypeOK, TokensStayHome, [Next]_vars
  PROVE  TokensStayHome'
<1> USE RoutingAssumption DEF TypeOK, TokensStayHome
<1>1. ASSUME NEW r \in Requests, RecordToken(r)
      PROVE  TokensStayHome'
  BY <1>1 DEF RecordToken
<1>2. ASSUME NEW r \in Requests, EndLocal(r)
      PROVE  TokensStayHome'
  BY <1>2 DEF EndLocal
<1>3. ASSUME NEW r \in Requests, ReleaseKey(r) \/ ReleaseLost(r)
      PROVE  TokensStayHome'
  <2>1. held' = held /\ taken' = [taken EXCEPT ![r] = NoToken]
    BY <1>3 DEF ReleaseKey, ReleaseLost, localVars
  <2>2. QED
    BY <2>1
<1>4. ASSUME NEW r \in Requests,
             \/ TryBegin(r) \/ StartCall(r) \/ ReturnEarly(r) \/ RetryCall(r)
             \/ FinishCall(r) \/ Save(r) \/ EndLocalMisses(r)
      PROVE  TokensStayHome'
  <2>1. UNCHANGED <<held, taken>>
    BY <1>4 DEF TryBegin, SetNXWins, SetNXFails, SetNXReplyLost, StartCall, ReturnEarly,
                RetryCall, FinishCall, Save, EndLocalMisses, localVars
  <2>2. QED
    BY <2>1
<1>5. CASE Tick
  BY <1>5 DEF Tick, localVars
<1>6. ASSUME NEW i \in Instances, Crash(i)
      PROVE  TokensStayHome'
  BY <1>6 DEF Crash
<1>7. CASE UNCHANGED vars
  BY <1>7 DEF vars
<1>8. QED
  BY <1>1, <1>2, <1>3, <1>4, <1>5, <1>6, <1>7 DEF Next, Proceed

LEMMA ReleaseStep ==
  ASSUME TypeOK, TokensStayHome, [Next]_vars, NEW w \in Workspaces,
         key[w] # NoToken, key'[w] # key[w], ttl[w] > 1
  PROVE  \E r \in Requests : /\ pc[r] = "releasing" /\ pc'[r] = "over"
                             /\ InstanceOf[r] = InstanceOf[key[w]]
<1> USE RoutingAssumption
<1>1. \A r \in Requests : ~TryBegin(r)
  BY DEF TryBegin, SetNXWins, SetNXFails, SetNXReplyLost, SetKey, TypeOK, redisVars
<1>2. ~Tick
  BY DEF Tick, Age, TypeOK
<1>3. \A i \in Instances : ~Crash(i)
  BY DEF Crash, redisVars
<1>4. PICK r \in Requests : Proceed(r)
  BY <1>1, <1>2, <1>3 DEF Next, vars
<1>5. ReleaseKey(r)
  BY <1>4 DEF Proceed, RecordToken, StartCall, ReturnEarly, RetryCall, FinishCall, Save,
              EndLocal, EndLocalMisses, ReleaseLost, redisVars
<1>6. WorkspaceOf[r] = w /\ key[w] = taken[r]
  BY <1>5 DEF ReleaseKey, TypeOK
<1>7. QED
  BY <1>5, <1>6 DEF ReleaseKey, Goto, TypeOK, TokensStayHome

(***************************************************************************)
(* A release never deletes another server's key, with no assumption on the *)
(* time limits.                                                            *)
(***************************************************************************)
THEOREM ReleaseOwnServersKey == Spec => ReleaseStaysOnInstance
<1>1. Init => TokensStayHome
  BY DEF Init, TokensStayHome
<1>2. TypeOK /\ TokensStayHome /\ [Next]_vars => TokensStayHome'
  BY TokensStayHomeStep
<1>3. TypeOK /\ TokensStayHome /\ [Next]_vars =>
        [\A w \in Workspaces :
          key[w] # NoToken /\ key'[w] # key[w] /\ ttl[w] > 1 =>
            \E r \in Requests : /\ pc[r] = "releasing" /\ pc'[r] = "over"
                                /\ InstanceOf[r] = InstanceOf[key[w]]]_vars
  BY ReleaseStep
<1>4. QED
  BY <1>1, <1>2, <1>3, TypeCorrect, PTL DEF Spec, ReleaseStaysOnInstance

----------------------------------------------------------------------------
(***************************************************************************)
(* What LockoutEnds rests on, apart from the clock going on: every key has *)
(* time left, and while it is there nobody changes its token or gives it   *)
(* more time, neither a TryBegin that finds it nor a restarted server, and *)
(* each tick takes time from it.  So no key outlives LockTTL ticks.        *)
(***************************************************************************)
KeysHaveTime == \A w \in Workspaces : key[w] # NoToken => ttl[w] > 0

KeyRunsOut(w) ==
  key[w] # NoToken /\ key'[w] # NoToken =>
    /\ key'[w] = key[w]
    /\ ttl'[w] \in 0 .. ttl[w]
    /\ Tick => ttl'[w] < ttl[w]

KeysRunOut == [][\A w \in Workspaces : KeyRunsOut(w)]_vars

LEMMA KeysHaveTimeStep ==
  ASSUME TypeOK, KeysHaveTime, [Next]_vars, NEW w \in Workspaces
  PROVE  (key'[w] # NoToken => ttl'[w] > 0) /\ KeyRunsOut(w)
<1> USE RoutingAssumption, TimeAssumption DEF KeyRunsOut
<1>1. ttl[w] \in Nat /\ (key[w] # NoToken => ttl[w] > 0)
  BY DEF TypeOK, KeysHaveTime
<1>2. ASSUME NEW r \in Requests, SetNXWins(r) \/ SetNXReplyLost(r)
      PROVE  /\ key'[w] # NoToken => ttl'[w] > 0
             /\ key[w] # NoToken => key'[w] = key[w] /\ ttl'[w] = ttl[w]
             /\ ~Tick
  <2>1. key[WorkspaceOf[r]] = NoToken /\ SetKey(r)
    BY <1>2 DEF SetNXWins, SetNXReplyLost
  <2>2. pc'[r] # pc[r]
    BY <1>2 DEF SetNXWins, SetNXReplyLost, Goto, TypeOK
  <2>3. QED
    BY <1>1, <2>1, <2>2 DEF SetKey, Tick, LockTTL, TypeOK
<1>3. ASSUME NEW r \in Requests, ReleaseKey(r)
      PROVE  /\ key'[w] # NoToken => key'[w] = key[w] /\ ttl'[w] = ttl[w]
             /\ ~Tick
  <2>1. pc'[r] # pc[r]
    BY <1>3 DEF ReleaseKey, Goto, TypeOK
  <2>2. QED
    BY <1>3, <2>1 DEF ReleaseKey, Tick, TypeOK
<1>4. CASE Tick
  BY <1>1, <1>4 DEF Tick, Age
<1>5. CASE UNCHANGED redisVars /\ ~Tick
  BY <1>1, <1>5 DEF redisVars
<1>6. ASSUME NEW r \in Requests, SetNXFails(r) \/ Proceed(r), ~ReleaseKey(r)
      PROVE  UNCHANGED redisVars
  BY <1>6 DEF SetNXFails, Proceed, RecordToken, StartCall, ReturnEarly, RetryCall, FinishCall,
              Save, EndLocal, EndLocalMisses, ReleaseLost
<1>7. ASSUME NEW i \in Instances, Crash(i)
      PROVE  UNCHANGED redisVars
  BY <1>7 DEF Crash
<1>8. CASE UNCHANGED vars
  BY <1>4, <1>5, <1>8 DEF vars, redisVars
<1>9. QED
  BY <1>1, <1>2, <1>3, <1>4, <1>5, <1>6, <1>7, <1>8 DEF Next, TryBegin

(***************************************************************************)
(* Every key has time left and loses it: a lock whose reply, release or    *)
(* server was lost is not renewed by anything the servers do, with no      *)
(* assumption on how the time limits relate.                               *)
(***************************************************************************)
THEOREM LocksRunOut == Spec => []KeysHaveTime /\ KeysRunOut
<1>1. Init => KeysHaveTime
  BY DEF Init, KeysHaveTime
<1>2. TypeOK /\ KeysHaveTime /\ [Next]_vars => KeysHaveTime'
  BY KeysHaveTimeStep DEF KeysHaveTime
<1>3. TypeOK /\ KeysHaveTime /\ [Next]_vars => [\A w \in Workspaces : KeyRunsOut(w)]_vars
  BY KeysHaveTimeStep
<1>4. QED
  BY <1>1, <1>2, <1>3, TypeCorrect, PTL DEF Spec, KeysRunOut
=============================================================================
