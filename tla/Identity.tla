----------------------------- MODULE Identity -----------------------------
(***************************************************************************)
(* Who a request is from: registration, login, the keys a user makes for   *)
(* programs, and the chain of middleware a tool call passes (JWT or key,   *)
(* organization, membership, scope, workspace) before it is answered.      *)
(*                                                                         *)
(* Passwords, hashes and signatures are abstracted to what they decide: a  *)
(* login brings the right password or not, a bearer is a user's token or   *)
(* somebody's key.  A user or a key is named by the call that made it.     *)
(* Every statement is a step of its own; any may fail.                     *)
(***************************************************************************)
EXTENDS Naturals

CONSTANTS Visits,        \* requests to these routes
          VisitInputs,   \* what each may bring, of VisitRequests
          Emails,
          SeedUser, SeedEmail,   \* a user who was there before
          Orgs, Membership,      \* organizations and their active members
          Rooms, RoomOrg,        \* workspaces and the organization of each
          EmptyScope,            \* an empty scope name
          NoOrg, NoRoom, NoKey, NoUser, NoVisit

People == Visits \union {SeedUser}

ValidScopes == {"mcp:read", "mcp:profile", "mcp:llm", "mcp:workspace"}
WorkspaceTools == {"list_documents", "get_document", "workspace_readiness"}
Tools == {"get_me", "llm_health"} \union WorkspaceTools

MCPToolRequiredScope(tool) ==
  CASE tool = "get_me" -> "mcp:profile"
    [] tool = "llm_health" -> "mcp:llm"
    [] OTHER -> "mcp:workspace"

\* No scope at all means a key from before there were scopes: all of them.
ScopesAllowMCPTool(granted, tool) ==
  \/ granted = {}
  \/ "mcp:read" \in granted
  \/ MCPToolRequiredScope(tool) \in granted

\* What a key is created with; none of it if ScopesAccepted is false.
NormalizeUserAPIKeyScopes(requested) ==
  IF requested = {} THEN {"mcp:read"} ELSE requested \ {EmptyScope}

\* Mutant: nothing but empty names is accepted, and makes a key without scopes.
ScopesAcceptedUnread(requested) == requested \ {EmptyScope} \subseteq ValidScopes

ScopesAccepted(requested) ==
  /\ requested \ {EmptyScope} \subseteq ValidScopes
  /\ NormalizeUserAPIKeyScopes(requested) # {}

AccountRequests ==
  [op : {"register"}, email : Emails] \union
  [op : {"login"}, email : Emails, right : BOOLEAN]
KeyRouteRequests ==
  [op : {"createKey"}, user : People, scopes : SUBSET (ValidScopes \union {EmptyScope, "unknown"})]
    \union
  [op : {"revokeKey"}, user : People, key : Visits]
ToolRequests ==
  [op : {"tool"}, user : People \union {NoUser}, key : Visits \union {NoKey},
   org : Orgs \union {NoOrg}, room : Rooms \union {NoRoom}, tool : Tools]
VisitRequests == AccountRequests \union KeyRouteRequests \union ToolRequests

ASSUME IdentityAssumption ==
  /\ VisitInputs \in [Visits -> SUBSET VisitRequests]
  /\ SeedUser \notin Visits
  /\ SeedEmail \in Emails
  /\ Membership \subseteq Orgs \X People
  /\ RoomOrg \in [Rooms -> Orgs]
  /\ EmptyScope \notin ValidScopes
  /\ NoKey \notin Visits
  /\ NoOrg \notin Orgs
  /\ NoRoom \notin Rooms
  /\ NoUser \notin People \union Emails
  /\ NoVisit \notin VisitRequests

VARIABLES
  email,     \* users: the e-mail of the row, or NoUser
  inactive,  \* users whose status is not active
  signedIn,  \* users who hold a token that has not expired
  scopes,    \* user_api_keys: the scopes of each row
  keys,      \* the rows there are
  revoked,   \* the rows whose is_active is false
  expired,   \* the rows whose expires_at is past
  lastUsed,  \* the rows whose last_used_at is set
  visit,     \* what each request brings
  vpc,       \* where it is
  touching,  \* requests whose update of last_used_at is still to come
  late       \* requests that began when their key was already dead

accountVars == <<email, inactive, signedIn>>
keyVars == <<scopes, keys, revoked, expired, lastUsed>>
visitVars == <<visit, touching, late>>
identityVars == <<accountVars, keyVars, visitVars, vpc>>

VisitStages == {"idle", "emailCheck", "userInsert", "findUser", "keyInsert", "keyRead",
                "keyRevoke", "byHash", "owner", "member", "tool", "ok", "refused"}

IdentityTypeOK ==
  /\ email \in [People -> Emails \union {NoUser}]
  /\ inactive \subseteq People
  /\ signedIn \subseteq People
  /\ scopes \in [Visits -> SUBSET ValidScopes]
  /\ keys \subseteq Visits
  /\ revoked \subseteq keys
  /\ expired \subseteq keys
  /\ lastUsed \subseteq keys
  /\ \A v \in Visits : visit[v] \in VisitInputs[v] \union {NoVisit}
  /\ vpc \in [Visits -> VisitStages]
  /\ touching \subseteq Visits
  /\ late \subseteq Visits

IdentityInit ==
  /\ email = [p \in People |-> IF p = SeedUser THEN SeedEmail ELSE NoUser]
  /\ inactive \in SUBSET {SeedUser}
  /\ signedIn = {SeedUser}
  /\ scopes = [v \in Visits |-> {}]
  /\ keys = {}
  /\ revoked = {}
  /\ expired = {}
  /\ lastUsed = {}
  /\ visit = [v \in Visits |-> NoVisit]
  /\ vpc = [v \in Visits |-> "idle"]
  /\ touching = {}
  /\ late = {}

Pass(v, from, to) == vpc[v] = from /\ vpc' = [vpc EXCEPT ![v] = to]

\* A step that changes nothing but the request's own stage.
Inspect(v, from, to) == Pass(v, from, to) /\ UNCHANGED <<accountVars, keyVars, visitVars>>

----------------------------------------------------------------------------
(***************************************************************************)
(* JWTAuth and JWTOrAPIKeyAuth: a token stands for its user until it       *)
(* expires, whatever has become of the user since; a key is looked up.     *)
(***************************************************************************)
ValidateToken(u) == u \in signedIn

FirstStage(i) ==
  CASE i.op = "register" -> "emailCheck"
    [] i.op = "login" -> "findUser"
    [] i.op = "createKey" -> IF ValidateToken(i.user) /\ ScopesAccepted(i.scopes)
                             THEN "keyInsert" ELSE "refused"
    [] i.op = "revokeKey" -> IF ValidateToken(i.user) THEN "keyRead" ELSE "refused"
    [] i.op = "tool" -> IF i.key # NoKey THEN "byHash"
                        ELSE IF ValidateToken(i.user) THEN "member" ELSE "refused"

Dead(k) == k \in revoked \union expired

Arrive(v, i) ==
  /\ Pass(v, "idle", FirstStage(i))
  /\ visit' = [visit EXCEPT ![v] = i]
  /\ late' = IF i.op = "tool" /\ i.key \in Visits /\ Dead(i.key) THEN late \union {v} ELSE late
  /\ UNCHANGED <<accountVars, keyVars, touching>>

\* A statement or a query fails; registration drops the error of its first.
Break(v) ==
  /\ vpc[v] \notin {"idle", "emailCheck", "ok", "refused"}
  /\ Inspect(v, vpc[v], "refused")

----------------------------------------------------------------------------
(***************************************************************************)
(* Registration and login.  The column users.email is unique.              *)
(***************************************************************************)
EmailTaken(e) == \E p \in People : email[p] = e

CheckEmail(v) ==
  \/ Inspect(v, "emailCheck", "refused") /\ EmailTaken(visit[v].email)
  \/ Inspect(v, "emailCheck", "userInsert")

InsertUser(v) ==
  \/ Inspect(v, "userInsert", "refused") /\ EmailTaken(visit[v].email)
  \/ /\ Pass(v, "userInsert", "ok")
     /\ ~ EmailTaken(visit[v].email)
     /\ email' = [email EXCEPT ![v] = visit[v].email]
     /\ UNCHANGED <<inactive, signedIn, keyVars, visitVars>>

Login(v) ==
  \/ /\ Inspect(v, "findUser", "refused")
     /\ ~ \E p \in People \ inactive : email[p] = visit[v].email /\ visit[v].right
  \/ /\ Pass(v, "findUser", "ok")
     /\ visit[v].right
     /\ \E p \in People \ inactive :
          email[p] = visit[v].email /\ signedIn' = signedIn \union {p}
     /\ UNCHANGED <<email, inactive, keyVars, visitVars>>

TokenExpires(p) ==
  /\ p \in signedIn
  /\ signedIn' = signedIn \ {p}
  /\ UNCHANGED <<email, inactive, keyVars, visitVars, vpc>>

----------------------------------------------------------------------------
(***************************************************************************)
(* Keys.                                                                   *)
(***************************************************************************)
InsertKey(v) ==
  /\ Pass(v, "keyInsert", "ok")
  /\ keys' = keys \union {v}
  /\ scopes' = [scopes EXCEPT ![v] = NormalizeUserAPIKeyScopes(visit[v].scopes)]
  /\ UNCHANGED <<accountVars, revoked, expired, lastUsed, visitVars>>

\* The key's row names its owner, who alone may revoke it.
OwnerOf(k) == visit[k].user

ReadKey(v) ==
  LET k == visit[v].key
      own == k \in keys /\ OwnerOf(k) = visit[v].user
  IN \/ Inspect(v, "keyRead", "keyRevoke") /\ own
     \/ Inspect(v, "keyRead", "refused") /\ ~ own

RevokeUserKey(v) ==
  /\ Pass(v, "keyRevoke", "ok")
  /\ revoked' = revoked \union {visit[v].key}
  /\ UNCHANGED <<accountVars, scopes, keys, expired, lastUsed, visitVars>>

KeyExpires(k) ==
  /\ k \in keys \ expired
  /\ expired' = expired \union {k}
  /\ UNCHANGED <<accountVars, scopes, keys, revoked, lastUsed, visitVars, vpc>>

----------------------------------------------------------------------------
(***************************************************************************)
(* A tool call.  ValidateUserAPIKey reads the key, then its owner, and     *)
(* leaves the update of last_used_at to a goroutine that nothing waits for.*)
(***************************************************************************)
FindKey(v) ==
  LET k == visit[v].key
      alive == k \in keys /\ ~ Dead(k)
  IN \/ Inspect(v, "byHash", "owner") /\ alive
     \/ Inspect(v, "byHash", "refused") /\ ~ alive

FindOwner(v) ==
  LET active == OwnerOf(visit[v].key) \notin inactive
  IN \/ Inspect(v, "owner", "refused") /\ ~ active
     \/ /\ Pass(v, "owner", "member")
        /\ active
        /\ touching' = touching \union {v}
        /\ UNCHANGED <<accountVars, keyVars, visit, late>>

TouchLastUsed(v) ==
  /\ v \in touching
  /\ touching' = touching \ {v}
  /\ \/ lastUsed' = lastUsed \union {visit[v].key}
     \/ UNCHANGED lastUsed
  /\ UNCHANGED <<accountVars, scopes, keys, revoked, expired, visit, late, vpc>>

\* The user the claims name.
Claimed(v) == IF visit[v].key # NoKey THEN OwnerOf(visit[v].key) ELSE visit[v].user

\* TenantResolver takes the organization from the request; with none,
\* RequireOrgMembership lets the request through.
RequireOrgMembership(v) ==
  LET admitted == visit[v].org = NoOrg \/ <<visit[v].org, Claimed(v)>> \in Membership
  IN \/ Inspect(v, "member", "tool") /\ admitted
     \/ Inspect(v, "member", "refused") /\ ~ admitted

\* enforceMCPToolScope, for keys only.
ToolScopeAllowed(v) ==
  visit[v].key # NoKey => ScopesAllowMCPTool(scopes[visit[v].key], visit[v].tool)

\* resolveWorkspaceID, and the check of the use case that reads the workspace.
WorkspaceResolved(v) ==
  visit[v].tool \in WorkspaceTools =>
    /\ visit[v].org # NoOrg
    /\ visit[v].room # NoRoom
    /\ RoomOrg[visit[v].room] = visit[v].org

CallTool(v) ==
  \/ Inspect(v, "tool", "ok") /\ ToolScopeAllowed(v) /\ WorkspaceResolved(v)
  \/ Inspect(v, "tool", "refused") /\ ~ (ToolScopeAllowed(v) /\ WorkspaceResolved(v))

IdentityNext ==
  \/ \E v \in Visits :
       \/ \E i \in VisitInputs[v] : Arrive(v, i)
       \/ Break(v)
       \/ CheckEmail(v) \/ InsertUser(v) \/ Login(v)
       \/ InsertKey(v) \/ ReadKey(v) \/ RevokeUserKey(v) \/ KeyExpires(v)
       \/ FindKey(v) \/ FindOwner(v) \/ TouchLastUsed(v)
       \/ RequireOrgMembership(v) \/ CallTool(v)
  \/ \E p \in People : TokenExpires(p)

IdentitySpec == IdentityInit /\ [][IdentityNext]_identityVars

----------------------------------------------------------------------------
\* Two users never have one e-mail, although registration looks first and
\* drops the error of looking (register.go).
EmailsAreUnique ==
  \A p, q \in People : email[p] # NoUser /\ email[p] = email[q] => p = q

\* A tool call that a key has opened (validate_user_api_key.go, scope.go):
\* the key was alive when the call began; whoever made it asked for the scope
\* of the tool or for all of them, named or by default, so that the rule for
\* keys without scopes never opened it; its owner is a member of the
\* organization the call names; and a workspace it names is in there.
KeysOpenWhatTheyWereMadeFor ==
  \A v \in Visits :
    vpc[v] = "ok" /\ visit[v].op = "tool" /\ visit[v].key # NoKey =>
      LET made == visit[visit[v].key] IN
      /\ v \notin late
      /\ made.op = "createKey"
      /\ \/ made.scopes = {}
         \/ {"mcp:read", MCPToolRequiredScope(visit[v].tool)} \intersect made.scopes # {}
      /\ visit[v].org # NoOrg => <<visit[v].org, made.user>> \in Membership
      /\ visit[v].tool \in WorkspaceTools => RoomOrg[visit[v].room] = visit[v].org
=============================================================================
