------------------------------ MODULE Gateway ------------------------------
(***************************************************************************)
(* The API gateway: requests to managed endpoints run through the policy   *)
(* pipeline (internal/gateway/pipeline.go) while administrators define,    *)
(* activate and retire the endpoints and set their policies                *)
(* (application/apimanagement/usecase).  The permission step is a check of *)
(* PermissionCache, which this module extends: a request is a check.       *)
(*                                                                         *)
(* Every query of the database and every command to Redis is a step of its *)
(* own and may fail.  A row of app_endpoint_policies is named by the call  *)
(* that inserted it: the table does not keep an endpoint from having       *)
(* several.  Time is left out but for the end of a key's life in Redis,    *)
(* and so are requests that are answered before any of this: those under a *)
(* path the pipeline skips, and those without a well-formed X-App-ID.      *)
(***************************************************************************)
EXTENDS PermissionCache

CONSTANTS Endpoints,
          EndpointOf,    \* the endpoint whose method and path a request has
          Admins,        \* calls of the four use cases
          OpOf,          \* which of them
          TargetOf,      \* the endpoint it names
          PolicyOf,      \* the policy an UpdatePolicy call brings
          NoPermission,  \* a policy that requires none
          NoPolicy,      \* the endpoint has none
          NoRow          \* UpdatePolicy found no row

Policies == [permission : Permissions \union {NoPermission}, limit : Nat]
Ops == {"define", "status", "policy"}

ASSUME EndpointAssumption ==
  EndpointOf \in [Checks -> Endpoints]
ASSUME AdminAssumption ==
  /\ OpOf \in [Admins -> Ops]
  /\ TargetOf \in [Admins -> Endpoints]
  /\ PolicyOf \in [Admins -> Policies]
  /\ NoRow \notin Admins
ASSUME PolicyAssumption ==
  /\ NoPolicy \notin Policies
  /\ NoPermission \notin Permissions

VARIABLES
  row,       \* the endpoint's row: none, active or retired
  rule,      \* the policy row an UpdatePolicy call has inserted
  count,     \* Redis: the counter rate:app:endpoint, 0 when there is no key
  expiring,  \* Redis: endpoints whose counter has a time to live
  admitted,  \* the requests the present counter has let through
  pc,        \* where each request is
  policy,    \* the policy it has read
  apc,       \* where each administrator's call is
  found      \* the policy row it has read

rateVars    == <<count, expiring, admitted>>
requestVars == <<pc, policy>>
adminVars   == <<row, rule, apc, found>>
vars == <<cacheVars, rateVars, requestVars, adminVars>>

----------------------------------------------------------------------------
\* unmanaged: passed on to the router; refused: answered 400, 401, 403, 410,
\* 429, 500 or 502.
Ends     == {"unmanaged", "refused", "served"}
Stages   == Ends \union {"idle", "policy", "checking", "limiting", "expiring", "forwarding"}
Statuses == {"none", "active", "retired"}

TypeOK ==
  /\ CacheTypeOK
  /\ row \in [Endpoints -> Statuses]
  /\ rule \in [Admins -> Policies \union {NoPolicy}]
  /\ count \in [Endpoints -> Nat]
  /\ expiring \subseteq Endpoints
  /\ admitted \in [Endpoints -> SUBSET Checks]
  /\ pc \in [Checks -> Stages]
  /\ policy \in [Checks -> Policies \union {NoPolicy}]
  /\ apc \in [Admins -> {"idle", "inserting", "updating", "activating", "retiring", "done"}]
  /\ found \in [Admins -> Admins \union {NoRow}]

Init ==
  /\ CacheInit
  /\ row \in [Endpoints -> Statuses]
  /\ rule = [a \in Admins |-> NoPolicy]
  /\ count = [e \in Endpoints |-> 0]
  /\ expiring = {}
  /\ admitted = [e \in Endpoints |-> {}]
  /\ pc = [q \in Checks |-> "idle"]
  /\ policy = [q \in Checks |-> NoPolicy]
  /\ apc = [a \in Admins |-> "idle"]
  /\ found = [a \in Admins |-> NoRow]

Goto(q, from, to) == pc[q] = from /\ pc' = [pc EXCEPT ![q] = to]

----------------------------------------------------------------------------
(***************************************************************************)
(* Enforce.                                                                *)
(***************************************************************************)
Lookup(q) ==
  /\ \/ row[EndpointOf[q]] = "active" /\ Goto(q, "idle", "policy")
     \/ row[EndpointOf[q]] = "retired" /\ Goto(q, "idle", "refused")
  /\ UNCHANGED <<cacheVars, rateVars, policy, adminVars>>

\* Not found, or the query failed: the request is none of the gateway's.
LookupNothing(q) ==
  /\ Goto(q, "idle", "unmanaged")
  /\ UNCHANGED <<cacheVars, rateVars, policy, adminVars>>

\* The rows GetByEndpointID may answer with: it takes the first of any order.
RulesOf(e) == {a \in Admins : TargetOf[a] = e /\ rule[a] # NoPolicy}

\* Where a request goes whose policy is p and whose permission is settled.
AfterPermission(p) == IF p.limit > 0 THEN "limiting" ELSE "forwarding"

\* If the policy requires a permission, the check begins, or nobody is signed
\* in.
ReadPolicy(q) ==
  /\ \E a \in RulesOf(EndpointOf[q]) :
       /\ policy' = [policy EXCEPT ![q] = rule[a]]
       /\ IF rule[a].permission # NoPermission
          THEN \/ Goto(q, "policy", "checking") /\ StartCheck(q)
               \/ Goto(q, "policy", "refused") /\ UNCHANGED cacheVars
          ELSE Goto(q, "policy", AfterPermission(rule[a])) /\ UNCHANGED cacheVars
  /\ UNCHANGED <<rateVars, adminVars>>

\* There is none, or reading it failed: the error is dropped.
ReadNoPolicy(q) ==
  /\ Goto(q, "policy", "forwarding")
  /\ UNCHANGED <<cacheVars, rateVars, policy, adminVars>>

\* A step of HasPermission.
CheckPermission(q) ==
  /\ pc[q] = "checking"
  /\ GetUserPermissions(q)
  /\ UNCHANGED <<rateVars, requestVars, adminVars>>

Decide(q) ==
  /\ \/ /\ check[q] = "known"
        /\ IF HasPermission(q, policy[q].permission)
           THEN Goto(q, "checking", AfterPermission(policy[q]))
           ELSE Goto(q, "checking", "refused")
     \/ check[q] = "failed" /\ Goto(q, "checking", "refused")
  /\ UNCHANGED <<cacheVars, rateVars, policy, adminVars>>

----------------------------------------------------------------------------
(***************************************************************************)
(* checkRateLimit: INCR, which also says what to decide, then EXPIRE if it *)
(* was the first of the window.                                            *)
(***************************************************************************)
Refuse(q) == Goto(q, "limiting", "refused") /\ UNCHANGED admitted

Admit(q, next) ==
  /\ Goto(q, "limiting", next)
  /\ admitted' = [admitted EXCEPT ![EndpointOf[q]] = @ \union {q}]

\* Mutant: the count is compared before it is incremented.
IncrementOldCount(q) ==
  LET e == EndpointOf[q]
  IN /\ pc[q] = "limiting"
     /\ count' = [count EXCEPT ![e] = @ + 1]
     /\ \/ count[e] > policy[q].limit /\ Refuse(q)
        \/ count[e] <= policy[q].limit /\ Admit(q, IF count[e] = 0 THEN "expiring" ELSE "forwarding")
     /\ UNCHANGED <<cacheVars, expiring, policy, adminVars>>

Increment(q) ==
  LET e == EndpointOf[q]
  IN /\ pc[q] = "limiting"
     /\ count' = [count EXCEPT ![e] = @ + 1]
     /\ \/ count[e] + 1 > policy[q].limit /\ Refuse(q)
        \/ count[e] + 1 <= policy[q].limit /\ Admit(q, IF count[e] = 0 THEN "expiring" ELSE "forwarding")
     /\ UNCHANGED <<cacheVars, expiring, policy, adminVars>>

\* Mutant: an error takes the count back, whether or not INCR ran.
IncrementErrorUndone(q) ==
  /\ Refuse(q)
  /\ \/ UNCHANGED count
     \/ count' = [count EXCEPT ![EndpointOf[q]] = @ - 1]
  /\ UNCHANGED <<cacheVars, expiring, policy, adminVars>>

\* INCR did not run, or its reply was lost: the request is answered 429.
IncrementError(q) ==
  /\ Refuse(q)
  /\ \/ UNCHANGED count
     \/ count' = [count EXCEPT ![EndpointOf[q]] = @ + 1]
  /\ UNCHANGED <<cacheVars, expiring, policy, adminVars>>

SetExpiry(q) ==
  /\ Goto(q, "expiring", "forwarding")
  /\ expiring' = expiring \union {EndpointOf[q]}
  /\ UNCHANGED <<cacheVars, count, admitted, policy, adminVars>>

\* The error of EXPIRE is dropped.
SetExpiryLost(q) ==
  /\ Goto(q, "expiring", "forwarding")
  /\ UNCHANGED <<cacheVars, rateVars, policy, adminVars>>

\* The minute is over: Redis drops the key.
CloseWindow(e) ==
  /\ e \in expiring
  /\ count' = [count EXCEPT ![e] = 0]
  /\ expiring' = expiring \ {e}
  /\ admitted' = [admitted EXCEPT ![e] = {}]
  /\ UNCHANGED <<cacheVars, requestVars, adminVars>>

\* Request interceptors and the backend.
Forward(q) ==
  /\ Goto(q, "forwarding", "served") \/ Goto(q, "forwarding", "refused")
  /\ UNCHANGED <<cacheVars, rateVars, policy, adminVars>>

----------------------------------------------------------------------------
(***************************************************************************)
(* Administration: read, look, write.                                      *)
(***************************************************************************)
Go(a, op, from, to) ==
  OpOf[a] = op /\ apc[a] = from /\ apc' = [apc EXCEPT ![a] = to]
Stop(a, op, from) == Go(a, op, from, "done")

\* The duplicate check, whose error counts as "there is none".
DefineRead(a) ==
  /\ \/ row[TargetOf[a]] # "none" /\ Stop(a, "define", "idle")
     \/ Go(a, "define", "idle", "inserting")
  /\ UNCHANGED <<cacheVars, rateVars, requestVars, row, rule, found>>

\* The table has a UNIQUE(app_id, method, path, version).
Insert(a) ==
  /\ Stop(a, "define", "inserting")
  /\ row[TargetOf[a]] = "none"
  /\ row' = [row EXCEPT ![TargetOf[a]] = "active"]
  /\ UNCHANGED <<cacheVars, rateVars, requestVars, rule, found>>

\* The row is there already, or the insert failed.
InsertError(a) ==
  /\ Stop(a, "define", "inserting")
  /\ UNCHANGED <<cacheVars, rateVars, requestVars, row, rule, found>>

StatusOf == [activating |-> "active", retiring |-> "retired"]

\* Activate and Retire: the row is there and has another status.
ChangeRead(a) ==
  /\ \E change \in DOMAIN StatusOf :
       /\ row[TargetOf[a]] \notin {"none", StatusOf[change]}
       /\ Go(a, "status", "idle", change)
  /\ UNCHANGED <<cacheVars, rateVars, requestVars, row, rule, found>>

\* It is not there, or has that status, or could not be read.
ChangeRefused(a) ==
  /\ Stop(a, "status", "idle")
  /\ UNCHANGED <<cacheVars, rateVars, requestVars, row, rule, found>>

\* The whole row as it was read, with the new status, whatever it has become.
ChangeWrite(a) ==
  /\ \E change \in DOMAIN StatusOf :
       /\ Stop(a, "status", change)
       /\ row' = [row EXCEPT ![TargetOf[a]] = StatusOf[change]]
  /\ UNCHANGED <<cacheVars, rateVars, requestVars, rule, found>>

ChangeError(a) ==
  /\ \E change \in DOMAIN StatusOf : Stop(a, "status", change)
  /\ UNCHANGED <<cacheVars, rateVars, requestVars, row, rule, found>>

\* UpdatePolicy: a row to update, or none, which an error counts as.
PolicyRead(a) ==
  /\ \/ \E b \in RulesOf(TargetOf[a]) :
          found' = [found EXCEPT ![a] = b] /\ Go(a, "policy", "idle", "updating")
     \/ Go(a, "policy", "idle", "inserting") /\ UNCHANGED found
  /\ UNCHANGED <<cacheVars, rateVars, requestVars, row, rule>>

\* The endpoint must be there (foreign key).
PolicyInsert(a) ==
  /\ Stop(a, "policy", "inserting")
  /\ row[TargetOf[a]] # "none"
  /\ rule' = [rule EXCEPT ![a] = PolicyOf[a]]
  /\ UNCHANGED <<cacheVars, rateVars, requestVars, row, found>>

PolicyUpdate(a) ==
  /\ Stop(a, "policy", "updating")
  /\ rule' = [rule EXCEPT ![found[a]] = PolicyOf[a]]
  /\ found' = [found EXCEPT ![a] = NoRow]
  /\ UNCHANGED <<cacheVars, rateVars, requestVars, row>>

\* Nothing was written.
PolicyError(a) ==
  /\ Stop(a, "policy", "inserting") \/ Stop(a, "policy", "updating")
  /\ found' = [found EXCEPT ![a] = NoRow]
  /\ UNCHANGED <<cacheVars, rateVars, requestVars, row, rule>>

----------------------------------------------------------------------------
Enforce(q) ==
  \/ ReadPolicy(q) \/ ReadNoPolicy(q)
  \/ CheckPermission(q) \/ Decide(q)
  \/ Increment(q) \/ IncrementError(q) \/ SetExpiry(q) \/ SetExpiryLost(q)
  \/ Forward(q)

Administer(a) ==
  \/ DefineRead(a) \/ Insert(a) \/ InsertError(a)
  \/ ChangeRead(a) \/ ChangeRefused(a) \/ ChangeWrite(a) \/ ChangeError(a)
  \/ PolicyRead(a) \/ PolicyInsert(a) \/ PolicyUpdate(a) \/ PolicyError(a)

\* What goes on around the pipeline: roles are assigned and entries expire.
Around == /\ \/ \E s \in Assignments : Assign(s)
             \/ \E m \in Members : Expire(m)
          /\ UNCHANGED <<rateVars, requestVars, adminVars>>

Next ==
  \/ \E q \in Checks : Lookup(q) \/ LookupNothing(q) \/ Enforce(q)
  \/ \E a \in Admins : Administer(a)
  \/ Around
  \/ \E e \in Endpoints : CloseWindow(e)

Spec == Init /\ [][Next]_vars

\* A request that the pipeline has taken goes on, and keys with a time to live
\* end.  Nothing is assumed of callers.
FairSpec ==
  /\ Spec
  /\ \A q \in Checks : WF_vars(Enforce(q))
  /\ \A e \in Endpoints : WF_vars(CloseWindow(e))

----------------------------------------------------------------------------
(***************************************************************************)
(* Properties.                                                             *)
(***************************************************************************)
(***************************************************************************)
(* A request served under a policy that requires a permission came from a  *)
(* member whose roles grant it in the request's own organization, however  *)
(* old the cache entry was that said so.                                   *)
(***************************************************************************)
ServedArePermitted ==
  \A q \in Checks :
    pc[q] = "served" /\ policy[q] \in Policies /\ policy[q].permission # NoPermission =>
      \E have \in granted[MemberOf[q]] : Matches(have, policy[q].permission)

(***************************************************************************)
(* A window lets no more requests through than the limit any of them was   *)
(* held against, although limits change while it is open.                  *)
(***************************************************************************)
RateIsLimited ==
  \A e \in Endpoints : \A q \in admitted[e] :
    Cardinality({r \in admitted[e] : policy[r].limit <= policy[q].limit}) <= policy[q].limit

(***************************************************************************)
(* Claimed by pipeline.go: the first request of a window sets its time to  *)
(* live ("1 minute window"), so that every counter comes to its end.       *)
(***************************************************************************)
CountersExpire == \A e \in Endpoints : count[e] > 0 ~> count[e] = 0
=============================================================================
