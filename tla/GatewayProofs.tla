--------------------------- MODULE GatewayProofs ---------------------------
(***************************************************************************)
(* The permission cache for any members, permissions, checks and           *)
(* assignments, then the gateway that uses it for any endpoints, policies, *)
(* requests and administrators.                                            *)
(***************************************************************************)
EXTENDS Gateway, FiniteSetTheorems, TLAPS

----------------------------------------------------------------------------
(***************************************************************************)
(* Type correctness.                                                       *)
(***************************************************************************)
LEMMA CacheTypeInit == CacheInit => CacheTypeOK
BY DEF CacheInit, CacheTypeOK, CheckStates, AssignStates

LEMMA CacheTypeStep == CacheTypeOK /\ [CacheNext]_cacheVars => CacheTypeOK'
<1>. SUFFICES ASSUME CacheTypeOK, [CacheNext]_cacheVars PROVE CacheTypeOK'
  OBVIOUS
<1>. USE MemberAssumption
     DEF CacheTypeOK, CheckStates, AssignStates, CacheKey, CheckGoes, Drop
<1>1. ASSUME NEW q \in Checks, StartCheck(q) \/ GetUserPermissions(q)
      PROVE  CacheTypeOK'
  <2>. MemberOf[q] \in Members
    OBVIOUS
  <2>1. CASE StartCheck(q) \/ Miss(q) \/ ReadPermissionsError(q) \/ FillLost(q)
    BY <2>1 DEF StartCheck, Miss, ReadPermissionsError, FillLost
  <2>2. CASE Hit(q)
    BY <2>2 DEF Hit
  <2>3. CASE ReadPermissions(q)
    <3>1. PICK read \in SUBSET granted[MemberOf[q]] :
            /\ perms' = [perms EXCEPT ![q] = read]
            /\ CheckGoes(q, "database", IF read = {} THEN "known" ELSE "fill")
      BY <2>3 DEF ReadPermissions
    <3>2. perms' \in [Checks -> SUBSET Permissions]
      BY <3>1
    <3>3. check' \in [Checks -> CheckStates]
      BY <3>1
    <3>. QED  BY <2>3, <3>2, <3>3 DEF ReadPermissions
  <2>4. CASE Fill(q)
    BY <2>4 DEF Fill
  <2>. QED  BY <1>1, <2>1, <2>2, <2>3, <2>4 DEF GetUserPermissions
<1>2. ASSUME NEW s \in Assignments, Assign(s) PROVE CacheTypeOK'
  <2>. AssigneeOf[s] \in Members /\ RoleOf[s] \in SUBSET Permissions
    OBVIOUS
  <2>1. CASE AssignRole(s)
    BY <2>1 DEF AssignRole
  <2>2. CASE AssignRoleError(s)
    BY <2>2 DEF AssignRoleError
  <2>3. CASE InvalidateCache(s) \/ InvalidateLost(s)
    BY <2>3 DEF InvalidateCache, InvalidateLost
  <2>. QED  BY <1>2, <2>1, <2>2, <2>3 DEF Assign
<1>3. ASSUME NEW m \in Members, Expire(m) PROVE CacheTypeOK'
  BY <1>3 DEF Expire
<1>4. CASE UNCHANGED cacheVars
  BY <1>4 DEF cacheVars
<1>. QED  BY <1>1, <1>2, <1>3, <1>4 DEF CacheNext

(***************************************************************************)
(* The variables of the checks, the database and Redis stay in their       *)
(* types.                                                                  *)
(***************************************************************************)
THEOREM CacheTypeCorrect == CacheSpec => []CacheTypeOK
<1>. QED  BY CacheTypeInit, CacheTypeStep, PTL DEF CacheSpec

----------------------------------------------------------------------------
(***************************************************************************)
(* Roles only ever grow.  This is what a cache that is filled after an     *)
(* invalidation needs: what a check once read is granted for good.         *)
(***************************************************************************)
LEMMA GrantedGrows ==
  ASSUME CacheTypeOK, [CacheNext]_cacheVars
  PROVE  \A m \in Members : granted[m] \subseteq granted'[m]
<1>1. ASSUME NEW s \in Assignments, Assign(s)
      PROVE  \A m \in Members : granted[m] \subseteq granted'[m]
  BY <1>1, MemberAssumption
  DEF Assign, AssignRole, AssignRoleError, InvalidateCache, InvalidateLost, CacheTypeOK
<1>2. ASSUME NEW q \in Checks, StartCheck(q) \/ GetUserPermissions(q)
      PROVE  granted' = granted
  BY <1>2 DEF StartCheck, GetUserPermissions, Hit, Miss, ReadPermissions,
              ReadPermissionsError, Fill, FillLost
<1>. QED  BY <1>1, <1>2 DEF CacheNext, cacheVars, Expire

(***************************************************************************)
(* What a check has found is granted, and what it is about to cache is not *)
(* empty.                                                                  *)
(***************************************************************************)
FoundIsGranted ==
  \A q \in Checks :
    /\ perms[q] \subseteq granted[MemberOf[q]]
    /\ check[q] = "fill" => perms[q] # {}

CacheInv == CacheTypeOK /\ CacheIsSound /\ FoundIsGranted

LEMMA CacheInvInit == CacheInit => CacheInv
BY CacheTypeInit, MemberAssumption DEF CacheInit, CacheInv, CacheIsSound, FoundIsGranted

LEMMA CacheInvStep == CacheInv /\ [CacheNext]_cacheVars => CacheInv'
<1>. SUFFICES ASSUME CacheInv, [CacheNext]_cacheVars PROVE CacheInv'
  OBVIOUS
<1>. USE MemberAssumption
<1>1. CacheTypeOK' /\ \A m \in Members : granted[m] \subseteq granted'[m]
  BY CacheTypeStep, GrantedGrows DEF CacheInv
<1>2. FoundIsGranted'
  <2>. SUFFICES ASSUME NEW q \in Checks
               PROVE  /\ perms'[q] \subseteq granted'[MemberOf[q]]
                      /\ check'[q] = "fill" => perms'[q] # {}
    BY DEF FoundIsGranted
  <2>. MemberOf[q] \in Members
    OBVIOUS
  <2>1. /\ perms[q] \subseteq granted'[MemberOf[q]]
        /\ check[q] = "fill" => perms[q] # {}
    BY <1>1 DEF CacheInv, FoundIsGranted
  <2>2. ASSUME NEW r \in Checks, StartCheck(r) \/ GetUserPermissions(r)
        PROVE  /\ perms'[q] \subseteq granted'[MemberOf[q]]
               /\ check'[q] = "fill" => perms'[q] # {}
    <3>1. CASE Hit(r)
      <4>1. cache[MemberOf[r]] \subseteq granted[MemberOf[r]]
        BY <3>1 DEF Hit, CacheKey, CacheInv, CacheIsSound
      <4>. QED  BY <2>1, <3>1, <4>1 DEF Hit, CheckGoes, CacheKey, CacheInv, CacheTypeOK
    <3>2. CASE ReadPermissions(r)
      BY <2>1, <3>2 DEF ReadPermissions, CheckGoes, CacheInv, CacheTypeOK
    <3>3. CASE StartCheck(r) \/ Miss(r) \/ ReadPermissionsError(r) \/ Fill(r) \/ FillLost(r)
      BY <2>1, <3>3 DEF StartCheck, Miss, ReadPermissionsError, Fill, FillLost,
                        CheckGoes, CacheInv, CacheTypeOK
    <3>. QED  BY <2>2, <3>1, <3>2, <3>3 DEF GetUserPermissions
  <2>3. CASE \/ \E s \in Assignments : Assign(s)
             \/ \E m \in Members : Expire(m)
             \/ UNCHANGED cacheVars
    <3>1. perms' = perms /\ check' = check
      BY <2>3 DEF Assign, AssignRole, AssignRoleError, InvalidateCache,
                  InvalidateLost, Expire, cacheVars
    <3>. QED  BY <2>1, <3>1
  <2>. QED  BY <2>2, <2>3 DEF CacheNext
<1>3. CacheIsSound'
  <2>. SUFFICES ASSUME NEW m \in cached'
               PROVE  cache'[m] # {} /\ cache'[m] \subseteq granted'[m]
    BY DEF CacheIsSound
  <2>. m \in Members
    BY <1>1 DEF CacheTypeOK
  <2>1. ASSUME m \in cached, cache'[m] = cache[m]
        PROVE  cache'[m] # {} /\ cache'[m] \subseteq granted'[m]
    BY <1>1, <2>1 DEF CacheInv, CacheIsSound
  <2>2. ASSUME NEW q \in Checks, Fill(q)
        PROVE  cache'[m] # {} /\ cache'[m] \subseteq granted'[m]
    <3>1. CASE m = MemberOf[q]
      <4>1. cache'[m] = perms[q]
        BY <2>2, <3>1 DEF Fill, CacheKey, CacheInv, CacheTypeOK
      <4>. QED  BY <1>1, <2>2, <3>1, <4>1 DEF Fill, CheckGoes, CacheInv, FoundIsGranted
    <3>2. CASE m # MemberOf[q]
      BY <2>1, <2>2, <3>2 DEF Fill, CacheKey, CacheInv, CacheTypeOK
    <3>. QED  BY <3>1, <3>2
  <2>3. ASSUME NEW n \in Members, Drop(n)
        PROVE  cache'[m] # {} /\ cache'[m] \subseteq granted'[m]
    BY <2>1, <2>3 DEF Drop, CacheInv, CacheTypeOK
  <2>4. ASSUME UNCHANGED <<cached, cache>>
        PROVE  cache'[m] # {} /\ cache'[m] \subseteq granted'[m]
    BY <2>1, <2>4
  <2>5. ASSUME NEW q \in Checks, StartCheck(q) \/ GetUserPermissions(q)
        PROVE  cache'[m] # {} /\ cache'[m] \subseteq granted'[m]
    BY <2>2, <2>4, <2>5
    DEF StartCheck, GetUserPermissions, Hit, Miss, ReadPermissions,
        ReadPermissionsError, FillLost
  <2>6. ASSUME NEW s \in Assignments, Assign(s)
        PROVE  cache'[m] # {} /\ cache'[m] \subseteq granted'[m]
    <3>. CacheKey(AssigneeOf[s]) \in Members
      BY DEF CacheKey
    <3>. QED  BY <2>3, <2>4, <2>6
              DEF Assign, AssignRole, AssignRoleError, InvalidateCache, InvalidateLost
  <2>. QED  BY <2>3, <2>4, <2>5, <2>6 DEF CacheNext, Expire, cacheVars
<1>. QED  BY <1>1, <1>2, <1>3 DEF CacheInv

LEMMA CacheInvariant == CacheSpec => []CacheInv
<1>. QED  BY CacheInvInit, CacheInvStep, PTL DEF CacheSpec

(***************************************************************************)
(* Whatever order fills, assignments, lost invalidations and expiries come *)
(* in, an entry grants nothing the member's roles do not and is never      *)
(* empty.                                                                  *)
(***************************************************************************)
THEOREM CacheSound == CacheSpec => []CacheIsSound
<1>1. CacheInv => CacheIsSound
  BY DEF CacheInv
<1>. QED  BY <1>1, CacheInvariant, PTL

----------------------------------------------------------------------------
(***************************************************************************)
(* Type correctness.  Actions of the pipeline and of administrators leave  *)
(* the cache alone, so each only concerns its own variables.               *)
(***************************************************************************)
LEMMA TypeInit == Init => TypeOK
BY CacheTypeInit DEF Init, TypeOK, Stages, Ends, Statuses

LEMMA UsesCacheStep == [Next]_vars => [CacheNext]_cacheVars
<1>1. ASSUME NEW q \in Checks, Lookup(q) \/ LookupNothing(q) \/ Enforce(q)
      PROVE  [CacheNext]_cacheVars
  BY <1>1 DEF Lookup, LookupNothing, Enforce, ReadPolicy, ReadNoPolicy,
       CheckPermission, Decide, Increment, IncrementError, SetExpiry,
       SetExpiryLost, Forward, CacheNext
<1>2. ASSUME NEW a \in Admins, Administer(a) PROVE UNCHANGED cacheVars
  BY <1>2 DEF Administer, DefineRead, Insert, InsertError, ChangeRead,
       ChangeRefused, ChangeWrite, ChangeError, PolicyRead, PolicyInsert,
       PolicyUpdate, PolicyError
<1>3. ASSUME Around \/ \E e \in Endpoints : CloseWindow(e) PROVE [CacheNext]_cacheVars
  BY <1>3 DEF Around, CloseWindow, CacheNext
<1>4. ASSUME UNCHANGED vars PROVE UNCHANGED cacheVars
  BY <1>4 DEF vars
<1>. QED  BY <1>1, <1>2, <1>3, <1>4 DEF Next

(***************************************************************************)
(* The pipeline uses the cache as PermissionCache says and in no other way:*)
(* what is proved of CacheSpec holds of the gateway.                       *)
(***************************************************************************)
THEOREM GatewayUsesCache == Spec => CacheSpec
<1>1. Init => CacheInit
  BY DEF Init
<1>. QED  BY <1>1, UsesCacheStep, PTL DEF Spec, CacheSpec

LEMMA RequestType ==
  ASSUME TypeOK, NEW q \in Checks, Lookup(q) \/ LookupNothing(q) \/ Enforce(q)
  PROVE  /\ pc' \in [Checks -> Stages]
         /\ policy' \in [Checks -> Policies \union {NoPolicy}]
         /\ count' \in [Endpoints -> Nat] /\ expiring' \subseteq Endpoints
         /\ admitted' \in [Endpoints -> SUBSET Checks]
         /\ UNCHANGED adminVars
<1>. USE EndpointAssumption DEF TypeOK, Stages, Ends, Goto, adminVars, rateVars, requestVars
<1>1. CASE Lookup(q) \/ LookupNothing(q)
  BY <1>1 DEF Lookup, LookupNothing
<1>2. CASE ReadPolicy(q)
  <2>1. PICK a \in RulesOf(EndpointOf[q]) : policy' = [policy EXCEPT ![q] = rule[a]]
    BY <1>2 DEF ReadPolicy
  <2>2. policy' \in [Checks -> Policies \union {NoPolicy}]
    BY <2>1 DEF RulesOf
  <2>3. pc' \in [Checks -> Stages]
    BY <1>2 DEF ReadPolicy, AfterPermission
  <2>. QED  BY <1>2, <2>2, <2>3 DEF ReadPolicy
<1>3. CASE ReadNoPolicy(q) \/ CheckPermission(q)
  BY <1>3 DEF ReadNoPolicy, CheckPermission
<1>4. CASE Decide(q)
  BY <1>4 DEF Decide, AfterPermission
<1>5. CASE Increment(q)
  BY <1>5 DEF Increment, Admit, Refuse
<1>6. CASE IncrementError(q)
  BY <1>6 DEF IncrementError, Refuse
<1>7. CASE SetExpiry(q) \/ SetExpiryLost(q) \/ Forward(q)
  BY <1>7 DEF SetExpiry, SetExpiryLost, Forward
<1>. QED  BY <1>1, <1>2, <1>3, <1>4, <1>5, <1>6, <1>7 DEF Enforce

LEMMA AdminType ==
  ASSUME TypeOK, NEW a \in Admins, Administer(a)
  PROVE  /\ row' \in [Endpoints -> Statuses]
         /\ rule' \in [Admins -> Policies \union {NoPolicy}]
         /\ apc' \in [Admins -> {"idle", "inserting", "updating", "activating", "retiring", "done"}]
         /\ found' \in [Admins -> Admins \union {NoRow}]
         /\ UNCHANGED <<rateVars, requestVars>>
<1>. USE AdminAssumption DEF TypeOK, Go, Stop, Statuses
<1>1. CASE DefineRead(a) \/ Insert(a) \/ InsertError(a)
  BY <1>1 DEF DefineRead, Insert, InsertError
<1>2. CASE ChangeRead(a) \/ ChangeRefused(a) \/ ChangeWrite(a) \/ ChangeError(a)
  BY <1>2 DEF ChangeRead, ChangeRefused, ChangeWrite, ChangeError, StatusOf
<1>3. CASE PolicyRead(a)
  BY <1>3 DEF PolicyRead, RulesOf
<1>4. CASE PolicyInsert(a)
  BY <1>4 DEF PolicyInsert
<1>5. CASE PolicyUpdate(a) \/ PolicyError(a)
  BY <1>5 DEF PolicyUpdate, PolicyError
<1>. QED  BY <1>1, <1>2, <1>3, <1>4, <1>5 DEF Administer

LEMMA TypeStep == TypeOK /\ [Next]_vars => TypeOK'
<1>. SUFFICES ASSUME TypeOK, [Next]_vars PROVE TypeOK'
  OBVIOUS
<1>0. CacheTypeOK'
  BY UsesCacheStep, CacheTypeStep DEF TypeOK
<1>1. ASSUME NEW q \in Checks, Lookup(q) \/ LookupNothing(q) \/ Enforce(q) PROVE TypeOK'
  BY <1>0, <1>1, RequestType DEF TypeOK, adminVars
<1>2. ASSUME NEW a \in Admins, Administer(a) PROVE TypeOK'
  BY <1>0, <1>2, AdminType DEF TypeOK, rateVars, requestVars
<1>3. ASSUME NEW e \in Endpoints, CloseWindow(e) PROVE TypeOK'
  BY <1>0, <1>3 DEF TypeOK, CloseWindow, requestVars, adminVars
<1>4. CASE Around \/ UNCHANGED vars
  BY <1>0, <1>4 DEF TypeOK, Around, vars, rateVars, requestVars, adminVars
<1>. QED  BY <1>1, <1>2, <1>3, <1>4 DEF Next

(***************************************************************************)
(* Requests, counters, endpoints and policies stay in their types.         *)
(***************************************************************************)
THEOREM TypeCorrect == Spec => []TypeOK
<1>. QED  BY TypeInit, TypeStep, PTL DEF Spec

----------------------------------------------------------------------------
(***************************************************************************)
(* Who gets past the permission step: a request has a policy only after it *)
(* has read one, and past that step it either needs no permission or has   *)
(* it.                                                                     *)
(***************************************************************************)
Past == {"limiting", "expiring", "forwarding", "served"}

Permitted(q) ==
  policy[q] \in Policies /\ policy[q].permission # NoPermission =>
    \E have \in granted[MemberOf[q]] : Matches(have, policy[q].permission)

OnlyPermittedPass ==
  \A q \in Checks :
    /\ pc[q] \in {"idle", "policy"} => policy[q] = NoPolicy
    /\ pc[q] \in {"checking", "limiting"} => policy[q] \in Policies
    /\ pc[q] \in Past => Permitted(q)

LEMMA GrantsLast ==
  ASSUME TypeOK, [Next]_vars, NEW q \in Checks, policy'[q] = policy[q], Permitted(q)
  PROVE  Permitted(q)'
<1>1. granted[MemberOf[q]] \subseteq granted'[MemberOf[q]]
  BY UsesCacheStep, GrantedGrows, MemberAssumption DEF TypeOK
<1>. QED  BY <1>1 DEF Permitted

LEMMA PassInit == Init => OnlyPermittedPass
BY DEF Init, OnlyPermittedPass, Past

LEMMA PassStep == TypeOK /\ CacheInv /\ OnlyPermittedPass /\ [Next]_vars => OnlyPermittedPass'
<1>. SUFFICES ASSUME TypeOK, CacheInv, OnlyPermittedPass, [Next]_vars, NEW q \in Checks
              PROVE  /\ pc'[q] \in {"idle", "policy"} => policy'[q] = NoPolicy
                     /\ pc'[q] \in {"checking", "limiting"} => policy'[q] \in Policies
                     /\ pc'[q] \in Past => Permitted(q)'
  BY DEF OnlyPermittedPass
<1>. DEFINE Fine == /\ pc'[q] \in {"idle", "policy"} => policy'[q] = NoPolicy
                    /\ pc'[q] \in {"checking", "limiting"} => policy'[q] \in Policies
                    /\ pc'[q] \in Past => Permitted(q)'
<1>0. ASSUME pc'[q] = pc[q], policy'[q] = policy[q] PROVE Fine
  BY <1>0, GrantsLast DEF OnlyPermittedPass
<1>1. ASSUME NEW r \in Checks, r # q, Lookup(r) \/ LookupNothing(r) \/ Enforce(r) PROVE Fine
  <2>1. pc'[q] = pc[q] /\ policy'[q] = policy[q]
    BY <1>1 DEF Lookup, LookupNothing, Enforce, ReadPolicy, ReadNoPolicy, CheckPermission,
         Decide, Increment, IncrementError, SetExpiry, SetExpiryLost, Forward, Admit,
         Refuse, Goto, TypeOK, requestVars
  <2>. QED  BY <1>0, <2>1
<1>2. ASSUME Lookup(q) \/ LookupNothing(q) PROVE Fine
  BY <1>2 DEF Lookup, LookupNothing, Goto, TypeOK, OnlyPermittedPass, Past
<1>3. ASSUME ReadPolicy(q) PROVE Fine
  <2>1. PICK a \in RulesOf(EndpointOf[q]) :
          /\ policy' = [policy EXCEPT ![q] = rule[a]]
          /\ IF rule[a].permission # NoPermission
             THEN Goto(q, "policy", "checking") \/ Goto(q, "policy", "refused")
             ELSE Goto(q, "policy", AfterPermission(rule[a]))
    BY <1>3 DEF ReadPolicy
  <2>2. policy'[q] = rule[a] /\ rule[a] \in Policies
    BY <2>1 DEF TypeOK, RulesOf
  <2>3. CASE rule[a].permission # NoPermission
    BY <2>1, <2>2, <2>3 DEF Goto, TypeOK, Past
  <2>4. CASE rule[a].permission = NoPermission
    <3>1. pc'[q] \in {"limiting", "forwarding"}
      BY <2>1, <2>4 DEF Goto, TypeOK, AfterPermission
    <3>2. Permitted(q)'
      BY <2>2, <2>4 DEF Permitted
    <3>. QED  BY <2>2, <3>1, <3>2
  <2>. QED  BY <2>3, <2>4
<1>4. ASSUME ReadNoPolicy(q) PROVE Fine
  BY <1>4, PolicyAssumption DEF ReadNoPolicy, Goto, TypeOK, OnlyPermittedPass, Permitted
<1>5. ASSUME CheckPermission(q) PROVE Fine
  BY <1>0, <1>5 DEF CheckPermission, requestVars
<1>6. ASSUME Decide(q) PROVE Fine
  <2>1. policy'[q] = policy[q] /\ policy[q] \in Policies /\ granted' = granted
    BY <1>6 DEF Decide, Goto, OnlyPermittedPass, cacheVars
  <2>2. CASE HasPermission(q, policy[q].permission)
    <3>1. Permitted(q)
      BY <2>2 DEF HasPermission, Permitted, CacheInv, FoundIsGranted
    <3>2. pc'[q] \in {"limiting", "forwarding", "refused"}
      BY <1>6 DEF Decide, Goto, TypeOK, AfterPermission
    <3>. QED  BY <2>1, <3>1, <3>2, GrantsLast DEF Past
  <2>3. CASE ~HasPermission(q, policy[q].permission)
    BY <1>6, <2>3 DEF Decide, Goto, TypeOK, Past
  <2>. QED  BY <2>2, <2>3
<1>7. ASSUME Increment(q) \/ IncrementError(q) \/ SetExpiry(q) \/ SetExpiryLost(q) \/ Forward(q)
      PROVE  Fine
  <2>1. /\ policy'[q] = policy[q] /\ pc[q] \in Past
        /\ pc'[q] \in {"refused", "expiring", "forwarding", "served"}
    BY <1>7 DEF Increment, IncrementError, SetExpiry, SetExpiryLost, Forward, Admit,
         Refuse, Goto, TypeOK, Past
  <2>. QED  BY <2>1, GrantsLast DEF OnlyPermittedPass, Past
<1>8. ASSUME \/ Around \/ UNCHANGED vars
             \/ \E a \in Admins : Administer(a)
             \/ \E e \in Endpoints : CloseWindow(e)
      PROVE  Fine
  <2>1. UNCHANGED requestVars
    BY <1>8, AdminType DEF Around, vars, CloseWindow
  <2>. QED  BY <1>0, <2>1 DEF requestVars
<1>. QED  BY <1>1, <1>2, <1>3, <1>4, <1>5, <1>6, <1>7, <1>8 DEF Next, Enforce

(***************************************************************************)
(* A request served under a policy that requires a permission came from a  *)
(* member whose roles in its organization grant it.  The induction is about*)
(* every stage past the permission step; it needs that the cache is sound  *)
(* and that roles only grow.                                               *)
(***************************************************************************)
THEOREM ServedOnlyIfPermitted == Spec => []ServedArePermitted
<1>1. Spec => []CacheInv
  BY GatewayUsesCache, CacheInvariant, PTL
<1>2. OnlyPermittedPass => ServedArePermitted
  BY DEF OnlyPermittedPass, ServedArePermitted, Past, Permitted
<1>. QED  BY <1>1, <1>2, TypeCorrect, PassInit, PassStep, PTL DEF Spec

----------------------------------------------------------------------------
(***************************************************************************)
(* The counter.  It is at least the number of requests it let through, so  *)
(* a request that is let through makes that number no larger than its own  *)
(* limit, nor, if its limit counts for an earlier request, than that one's.*)
(***************************************************************************)
Within(e, q) == {r \in admitted[e] : policy[r].limit <= policy[q].limit}

CounterCoversAdmitted ==
  \A e \in Endpoints :
    /\ IsFiniteSet(admitted[e]) /\ Cardinality(admitted[e]) <= count[e]
    /\ \A q \in admitted[e] :
         /\ pc[q] \notin {"idle", "policy", "checking", "limiting"}
         /\ policy[q] \in Policies

RateInv == CounterCoversAdmitted /\ RateIsLimited

LEMMA RateInit == Init => RateInv
<1>. SUFFICES ASSUME Init PROVE RateInv
  OBVIOUS
<1>1. \A e \in Endpoints : admitted[e] = {} /\ count[e] = 0
  BY DEF Init
<1>. QED  BY <1>1, FS_EmptySet DEF RateInv, CounterCoversAdmitted, RateIsLimited

LEMMA RateUntouched ==
  ASSUME TypeOK, RateInv, NEW e \in Endpoints,
         admitted'[e] = admitted[e], count'[e] \in Nat, count'[e] >= count[e],
         \A r \in admitted[e] : policy'[r] = policy[r]
                             /\ pc'[r] \notin {"idle", "policy", "checking", "limiting"}
  PROVE  /\ IsFiniteSet(admitted'[e]) /\ Cardinality(admitted'[e]) <= count'[e]
         /\ \A q \in admitted'[e] :
              /\ pc'[q] \notin {"idle", "policy", "checking", "limiting"}
              /\ policy'[q] \in Policies
              /\ Cardinality(Within(e, q)') <= policy'[q].limit
<1>1. IsFiniteSet(admitted[e]) /\ Cardinality(admitted[e]) <= count[e]
  BY DEF RateInv, CounterCoversAdmitted
<1>2. Cardinality(admitted[e]) \in Nat /\ count[e] \in Nat
  BY <1>1, FS_CardinalityType DEF TypeOK
<1>3. IsFiniteSet(admitted'[e]) /\ Cardinality(admitted'[e]) <= count'[e]
  BY <1>1, <1>2
<1>4. ASSUME NEW q \in admitted'[e]
      PROVE  /\ pc'[q] \notin {"idle", "policy", "checking", "limiting"}
             /\ policy'[q] \in Policies
             /\ Cardinality(Within(e, q)') <= policy'[q].limit
  <2>1. policy'[q] = policy[q] /\ policy[q] \in Policies
    BY DEF RateInv, CounterCoversAdmitted
  <2>2. Within(e, q)' = Within(e, q)
    BY <2>1 DEF Within
  <2>. QED  BY <2>1, <2>2 DEF RateInv, RateIsLimited, Within
<1>. QED  BY <1>3, <1>4

LEMMA RateAdmits ==
  ASSUME TypeOK, RateInv, NEW q \in Checks, NEW e \in Endpoints,
         policy[q] \in Policies, count[e] + 1 <= policy[q].limit,
         admitted'[e] = admitted[e] \union {q}, count'[e] = count[e] + 1,
         policy' = policy, pc'[q] \in {"expiring", "forwarding"},
         \A r \in Checks \ {q} : pc'[r] = pc[r]
  PROVE  /\ IsFiniteSet(admitted'[e]) /\ Cardinality(admitted'[e]) <= count'[e]
         /\ \A r \in admitted'[e] :
              /\ pc'[r] \notin {"idle", "policy", "checking", "limiting"}
              /\ policy'[r] \in Policies
              /\ Cardinality(Within(e, r)') <= policy'[r].limit
<1>1. IsFiniteSet(admitted[e]) /\ Cardinality(admitted[e]) <= count[e] /\ count[e] \in Nat
  BY DEF RateInv, CounterCoversAdmitted, TypeOK
<1>2. /\ IsFiniteSet(admitted'[e]) /\ Cardinality(admitted'[e]) \in Nat
      /\ Cardinality(admitted'[e]) <= count[e] + 1
  <2>1. Cardinality(admitted[e]) \in Nat
    BY <1>1, FS_CardinalityType
  <2>2. /\ IsFiniteSet(admitted[e] \union {q})
        /\ \/ Cardinality(admitted[e] \union {q}) = Cardinality(admitted[e])
           \/ Cardinality(admitted[e] \union {q}) = Cardinality(admitted[e]) + 1
    BY <1>1, FS_AddElement
  <2>. QED  BY <1>1, <2>1, <2>2
<1>3. ASSUME NEW r \in admitted'[e]
      PROVE  /\ pc'[r] \notin {"idle", "policy", "checking", "limiting"}
             /\ policy[r] \in Policies
             /\ Cardinality(Within(e, r)') <= policy[r].limit
  <2>1. /\ pc'[r] \notin {"idle", "policy", "checking", "limiting"}
        /\ policy[r] \in Policies
    BY DEF RateInv, CounterCoversAdmitted, TypeOK
  <2>2. policy[r].limit \in Nat /\ policy[q].limit \in Nat
    BY <2>1 DEF Policies
  <2>3. CASE policy[q].limit <= policy[r].limit
    <3>1. Within(e, r)' \subseteq admitted'[e]
      BY DEF Within
    <3>2. Cardinality(Within(e, r)') <= Cardinality(admitted'[e]) /\ Cardinality(Within(e, r)') \in Nat
      BY <1>2, <3>1, FS_Subset, FS_CardinalityType
    <3>. QED  BY <1>1, <1>2, <2>1, <2>2, <2>3, <3>2
  <2>4. CASE ~(policy[q].limit <= policy[r].limit)
    <3>1. r # q
      BY <2>2, <2>4
    <3>2. Within(e, r)' = Within(e, r)
      BY <2>4 DEF Within
    <3>. QED  BY <2>1, <3>1, <3>2 DEF RateInv, RateIsLimited, Within
  <2>. QED  BY <2>1, <2>3, <2>4
<1>. QED  BY <1>2, <1>3

LEMMA RateStep == TypeOK /\ OnlyPermittedPass /\ RateInv /\ [Next]_vars => RateInv'
<1>. SUFFICES ASSUME TypeOK, OnlyPermittedPass, RateInv, [Next]_vars, NEW e \in Endpoints
              PROVE  /\ IsFiniteSet(admitted'[e]) /\ Cardinality(admitted'[e]) <= count'[e]
                     /\ \A q \in admitted'[e] :
                          /\ pc'[q] \notin {"idle", "policy", "checking", "limiting"}
                          /\ policy'[q] \in Policies
                          /\ Cardinality(Within(e, q)') <= policy'[q].limit
  BY DEF RateInv, CounterCoversAdmitted, RateIsLimited, Within
<1>. DEFINE Fine == /\ IsFiniteSet(admitted'[e]) /\ Cardinality(admitted'[e]) <= count'[e]
                    /\ \A q \in admitted'[e] :
                         /\ pc'[q] \notin {"idle", "policy", "checking", "limiting"}
                         /\ policy'[q] \in Policies
                         /\ Cardinality(Within(e, q)') <= policy'[q].limit
<1>1. ASSUME NEW q \in Checks, Lookup(q) \/ LookupNothing(q) \/ ReadPolicy(q) \/ ReadNoPolicy(q)
                              \/ CheckPermission(q) \/ Decide(q)
      PROVE  Fine
  <2>1. UNCHANGED rateVars /\ pc[q] \in {"idle", "policy", "checking"}
    BY <1>1 DEF Lookup, LookupNothing, ReadPolicy, ReadNoPolicy, CheckPermission, Decide, Goto
  <2>2. \A r \in Checks \ {q} : pc'[r] = pc[r] /\ policy'[r] = policy[r]
    BY <1>1 DEF Lookup, LookupNothing, ReadPolicy, ReadNoPolicy, CheckPermission, Decide,
         Goto, TypeOK, requestVars
  <2>3. q \notin admitted[e]
    BY <2>1 DEF RateInv, CounterCoversAdmitted
  <2>4. \A r \in admitted[e] : r \in Checks \ {q}
    BY <2>3 DEF TypeOK
  <2>. QED  BY <2>1, <2>2, <2>4, RateUntouched
            DEF rateVars, TypeOK, RateInv, CounterCoversAdmitted
<1>2. ASSUME NEW q \in Checks, Increment(q) PROVE Fine
  <2>1. policy' = policy /\ count' = [count EXCEPT ![EndpointOf[q]] = @ + 1]
        /\ EndpointOf[q] \in Endpoints /\ policy[q] \in Policies /\ pc[q] = "limiting"
    BY <1>2, EndpointAssumption DEF Increment, OnlyPermittedPass
  <2>2. \A r \in Checks \ {q} : pc'[r] = pc[r]
    BY <1>2 DEF Increment, Admit, Refuse, Goto, TypeOK
  <2>3. q \notin admitted[e] /\ count[e] \in Nat
    BY <2>1 DEF RateInv, CounterCoversAdmitted, TypeOK
  <2>4. CASE admitted' = admitted \/ e # EndpointOf[q]
    <3>1. admitted'[e] = admitted[e]
      BY <1>2, <2>4 DEF Increment, Admit, Refuse, TypeOK
    <3>2. count'[e] \in Nat /\ count'[e] >= count[e]
      BY <2>1, <2>3 DEF TypeOK
    <3>. QED  BY <2>1, <2>2, <2>3, <3>1, <3>2, RateUntouched
              DEF TypeOK, RateInv, CounterCoversAdmitted
  <2>5. CASE admitted' # admitted /\ e = EndpointOf[q]
    <3>1. /\ count[e] + 1 <= policy[q].limit
          /\ admitted'[e] = admitted[e] \union {q}
          /\ pc'[q] \in {"expiring", "forwarding"}
      BY <1>2, <2>5 DEF Increment, Admit, Refuse, Goto, TypeOK
    <3>2. count'[e] = count[e] + 1
      BY <2>1, <2>5 DEF TypeOK
    <3>. QED  BY <2>1, <2>2, <3>1, <3>2, RateAdmits
  <2>. QED  BY <2>4, <2>5
<1>3. ASSUME NEW q \in Checks, IncrementError(q) \/ SetExpiry(q) \/ SetExpiryLost(q) \/ Forward(q)
      PROVE  Fine
  <2>1. /\ UNCHANGED <<admitted, policy>>
        /\ pc'[q] \in {"refused", "forwarding", "served"}
        /\ \A r \in Checks \ {q} : pc'[r] = pc[r]
    BY <1>3 DEF IncrementError, SetExpiry, SetExpiryLost, Forward, Refuse, Goto, TypeOK, rateVars
  <2>2. count' = count \/ count' = [count EXCEPT ![EndpointOf[q]] = @ + 1]
    BY <1>3 DEF IncrementError, SetExpiry, SetExpiryLost, Forward, rateVars
  <2>3. count'[e] \in Nat /\ count'[e] >= count[e]
    BY <2>2 DEF TypeOK
  <2>. QED  BY <2>1, <2>3, RateUntouched DEF TypeOK, RateInv, CounterCoversAdmitted
<1>4. ASSUME NEW f \in Endpoints, CloseWindow(f) PROVE Fine
  <2>1. CASE f = e
    <3>1. admitted'[e] = {} /\ count'[e] = 0
      BY <1>4, <2>1 DEF CloseWindow, TypeOK
    <3>. QED  BY <3>1, FS_EmptySet
  <2>2. CASE f # e
    <3>1. admitted'[e] = admitted[e] /\ count'[e] = count[e] /\ UNCHANGED requestVars
      BY <1>4, <2>2 DEF CloseWindow, TypeOK
    <3>. QED  BY <3>1, RateUntouched DEF TypeOK, RateInv, CounterCoversAdmitted, requestVars
  <2>. QED  BY <2>1, <2>2
<1>5. CASE Around \/ UNCHANGED vars \/ \E a \in Admins : Administer(a)
  <2>1. UNCHANGED <<rateVars, requestVars>>
    BY <1>5, AdminType DEF Around, vars
  <2>. QED  BY <2>1, RateUntouched
            DEF TypeOK, RateInv, CounterCoversAdmitted, requestVars, rateVars
<1>. QED  BY <1>1, <1>2, <1>3, <1>4, <1>5 DEF Next, Enforce

(***************************************************************************)
(* A window lets no more requests through than the limit any of them was   *)
(* held against, for any number of requests and whatever limits change to  *)
(* while it is open.                                                       *)
(***************************************************************************)
THEOREM RateLimited == Spec => []RateIsLimited
<1>1. Spec => []CacheInv
  BY GatewayUsesCache, CacheInvariant, PTL
<1>2. Spec => []OnlyPermittedPass
  BY <1>1, TypeCorrect, PassInit, PassStep, PTL DEF Spec
<1>3. RateInv => RateIsLimited
  BY DEF RateInv
<1>. QED  BY <1>2, <1>3, TypeCorrect, RateInit, RateStep, PTL DEF Spec
=============================================================================
