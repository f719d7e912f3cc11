-------------------------- MODULE PermissionCache --------------------------
(***************************************************************************)
(* Permission checks through the Redis cache (internal/infrastructure/auth/*)
(* rbac_service.go) while roles are assigned (application/iam/usecase/     *)
(* assign_role.go).  A check reads the cache, on a miss the database, and  *)
(* puts what it has read into the cache; an assignment commits a row and   *)
(* then drops the entry.  Every one of these calls may fail, alone or      *)
(* because the caller's context has been cancelled, and checks and         *)
(* assignments come between each other's steps.                            *)
(*                                                                         *)
(* The code never takes a role or a permission away again: the repository's*)
(* RemoveRoleFromUser and RemovePermission have no caller.                 *)
(*                                                                         *)
(* The specification is named CacheSpec so that Gateway can extend it.     *)
(***************************************************************************)
EXTENDS Naturals, Sequences, FiniteSets

CONSTANTS Members,      \* pairs of a user and an organization
          Permissions,  \* permission names, each the sequence of its parts
          Checks,       \* calls of HasPermission
          MemberOf,     \* who a check is about
          Assignments,  \* calls of AssignRole
          AssigneeOf,   \* whom they give a role
          RoleOf        \* the permissions of that role

ASSUME MemberAssumption ==
  /\ MemberOf \in [Checks -> Members]
  /\ AssigneeOf \in [Assignments -> Members]
  /\ RoleOf \in [Assignments -> SUBSET Permissions]

VARIABLES
  granted,  \* the database: what the roles of a member allow
  cached,   \* Redis: the members that have an entry
  cache,    \* Redis: what it says, nothing where there is none
  check,    \* where each check is
  perms,    \* the permissions a check has found
  assign    \* where each assignment is

cacheVars == <<granted, cached, cache, check, perms, assign>>

----------------------------------------------------------------------------
CheckStates  == {"none", "cache", "database", "fill", "known", "failed"}
AssignStates == {"idle", "invalidating", "done"}

CacheTypeOK ==
  /\ granted \in [Members -> SUBSET Permissions]
  /\ cached \subseteq Members
  /\ cache \in [Members -> SUBSET Permissions]
  /\ check \in [Checks -> CheckStates]
  /\ perms \in [Checks -> SUBSET Permissions]
  /\ assign \in [Assignments -> AssignStates]

CacheInit ==
  /\ granted = [m \in Members |-> {}]
  /\ cached = {}
  /\ cache = [m \in Members |-> {}]
  /\ check = [q \in Checks |-> "none"]
  /\ perms = [q \in Checks |-> {}]
  /\ assign = [s \in Assignments |-> "idle"]

CheckGoes(q, from, to) == check[q] = from /\ check' = [check EXCEPT ![q] = to]

----------------------------------------------------------------------------
\* A name ends in "*" and stands for its prefix and everything below it.
IsBelow(required, prefix) ==
  /\ Len(prefix) <= Len(required)
  /\ SubSeq(required, 1, Len(prefix)) = prefix

\* matchesPermission: the same name, everything, everything below a prefix, or
\* every permission to read.
Matches(have, required) ==
  \/ have = required \/ have = <<"*">>
  \/ /\ Len(have) > 1 /\ have[Len(have)] = "*"
     /\ IsBelow(required, SubSeq(have, 1, Len(have) - 1))
  \/ /\ have = <<"*", "read">>
     /\ Len(required) > 1 /\ required[Len(required)] = "read"

\* HasPermission, once the permissions are known.
HasPermission(q, required) == \E have \in perms[q] : Matches(have, required)

\* Mutant: the key names the user only.
CacheKeyOfUser(m) == CHOOSE n \in Members : n[1] = m[1]

\* cacheKey: user and organization.
CacheKey(m) == m

----------------------------------------------------------------------------
StartCheck(q) ==
  /\ CheckGoes(q, "none", "cache")
  /\ UNCHANGED <<granted, cached, cache, perms, assign>>

Hit(q) ==
  /\ CheckGoes(q, "cache", "known")
  /\ CacheKey(MemberOf[q]) \in cached
  /\ perms' = [perms EXCEPT ![q] = cache[CacheKey(MemberOf[q])]]
  /\ UNCHANGED <<granted, cached, cache, assign>>

\* There is no entry, or Redis has failed.
Miss(q) ==
  /\ CheckGoes(q, "cache", "database")
  /\ UNCHANGED <<granted, cached, cache, perms, assign>>

\* Mutant: what has been read is cached even if it is nothing.
ReadPermissionsAlwaysFill(q) ==
  /\ \E found \in SUBSET granted[MemberOf[q]] :
       /\ perms' = [perms EXCEPT ![q] = found]
       /\ CheckGoes(q, "database", "fill")
  /\ UNCHANGED <<granted, cached, cache, assign>>

\* The query ends early, without an error, when the connection breaks: the
\* repository does not look at rows.Err.  Nothing found is not cached.
ReadPermissions(q) ==
  /\ \E found \in SUBSET granted[MemberOf[q]] :
       /\ perms' = [perms EXCEPT ![q] = found]
       /\ CheckGoes(q, "database", IF found = {} THEN "known" ELSE "fill")
  /\ UNCHANGED <<granted, cached, cache, assign>>

ReadPermissionsError(q) ==
  /\ CheckGoes(q, "database", "failed")
  /\ UNCHANGED <<granted, cached, cache, perms, assign>>

Fill(q) ==
  /\ CheckGoes(q, "fill", "known")
  /\ cached' = cached \union {CacheKey(MemberOf[q])}
  /\ cache' = [cache EXCEPT ![CacheKey(MemberOf[q])] = perms[q]]
  /\ UNCHANGED <<granted, perms, assign>>

\* The error of SET is dropped.
FillLost(q) ==
  /\ CheckGoes(q, "fill", "known")
  /\ UNCHANGED <<granted, cached, cache, perms, assign>>

Drop(m) == cached' = cached \ {m} /\ cache' = [cache EXCEPT ![m] = {}]

\* permissionCacheTTL has passed.
Expire(m) == m \in cached /\ Drop(m) /\ UNCHANGED <<granted, check, perms, assign>>

----------------------------------------------------------------------------
AssignRole(s) ==
  /\ assign[s] = "idle"
  /\ granted' = [granted EXCEPT ![AssigneeOf[s]] = @ \union RoleOf[s]]
  /\ assign' = [assign EXCEPT ![s] = "invalidating"]
  /\ UNCHANGED <<cached, cache, check, perms>>

\* The row was not written, or it was and the caller is told otherwise.
AssignRoleError(s) ==
  /\ assign[s] = "idle"
  /\ assign' = [assign EXCEPT ![s] = "done"]
  /\ \/ UNCHANGED granted
     \/ granted' = [granted EXCEPT ![AssigneeOf[s]] = @ \union RoleOf[s]]
  /\ UNCHANGED <<cached, cache, check, perms>>

InvalidateCache(s) ==
  /\ assign[s] = "invalidating"
  /\ Drop(CacheKey(AssigneeOf[s]))
  /\ assign' = [assign EXCEPT ![s] = "done"]
  /\ UNCHANGED <<granted, check, perms>>

\* The error of DEL is dropped.  CreateOrg gives its creator a role without
\* any DEL, in an organization nobody can have an entry for.
InvalidateLost(s) ==
  /\ assign[s] = "invalidating"
  /\ assign' = [assign EXCEPT ![s] = "done"]
  /\ UNCHANGED <<granted, cached, cache, check, perms>>

----------------------------------------------------------------------------
GetUserPermissions(q) ==
  \/ Hit(q) \/ Miss(q)
  \/ ReadPermissions(q) \/ ReadPermissionsError(q)
  \/ Fill(q) \/ FillLost(q)

Assign(s) == AssignRole(s) \/ AssignRoleError(s) \/ InvalidateCache(s) \/ InvalidateLost(s)

CacheNext ==
  \/ \E q \in Checks : StartCheck(q) \/ GetUserPermissions(q)
  \/ \E s \in Assignments : Assign(s)
  \/ \E m \in Members : Expire(m)

CacheSpec == CacheInit /\ [][CacheNext]_cacheVars

----------------------------------------------------------------------------
(***************************************************************************)
(* An entry of the cache grants a member nothing that the member's roles   *)
(* in that organization do not, and a member without permissions is never  *)
(* cached, so that a first role works at once, whatever reads, fills,      *)
(* assignments, lost invalidations and expiries come in what order.        *)
(***************************************************************************)
CacheIsSound ==
  \A m \in cached : cache[m] # {} /\ cache[m] \subseteq granted[m]
=============================================================================
