------------------------------- MODULE Access -------------------------------
(***************************************************************************)
(* The protected routes of the HTTP server, the permission each one asks   *)
(* for, and the roles that have it: router.go against the templates of     *)
(* bootstrap/roles.go.  One organization; what a route changes is the area *)
(* of its tables that its use case writes.                                 *)
(*                                                                         *)
(* The permissions of a request are those of its user's roles when they    *)
(* are asked for; that the answer may come from a cache is PermissionCache.*)
(* A route is there only with its use cases, and then with the RBACService *)
(* too (buildDependencies), so that every check of the table is made.      *)
(***************************************************************************)
CONSTANTS Members,    \* the users who have a token
          NoRoute

\* A permission is an area and a verb; `Anything' is "*" and `AnyRead' "*:read".
Anything == <<"*", "*">>
AnyRead == <<"*", "read">>
Open == <<"none", "none">>   \* the route asks for none

Product == {"workspace", "profile", "questionnaire", "answer"} \X {"read", "write"}
Documents == {"document"} \X {"read", "write", "approve"}
Generating == {<<"generation", "run">>, <<"generation", "read">>, <<"export", "create">>}

RoleTemplates ==
  [admin     |-> {Anything},
   org_admin |-> ({"org", "app", "user", "workspace", "endpoint"} \X {"*"})
                   \union Product \union Documents \union Generating
                   \union ({"integration", "llm"} \X {"read", "write"})
                   \union ({"monitoring", "scoring"} \X {"read"}),
   app_admin |-> {<<"app", "*">>, <<"endpoint", "*">>, <<"workspace", "read">>},
   developer |-> Product \union Documents \union Generating
                   \union ({"endpoint"} \X {"read", "write"}) \union {<<"llm", "read">>},
   viewer    |-> {AnyRead}]
Roles == DOMAIN RoleTemplates

MatchesPermission(have, required) ==
  \/ have = required
  \/ have = Anything
  \/ have[2] = "*" /\ have[1] = required[1]
  \/ have = AnyRead /\ required[2] = "read"

\* Routes, named for their handlers, with what they need and what they change.
Route(names, needs, changes) ==
  {[name |-> n, needs |-> needs, changes |-> changes] : n \in names}

UserRoutes ==
  Route({"Connect", "GetMe", "ListUserAPIKeys"}, Open, "nothing") \union
  Route({"CreateUserAPIKey", "RevokeUserAPIKey"}, Open, "own_keys") \union
  Route({"ListUsers", "GetUser"}, <<"user", "read">>, "nothing") \union
  Route({"AssignRole"}, <<"user", "write">>, "roles")

OrganizationRoutes ==
  Route({"CreateOrg"}, Open, "own_organizations") \union
  Route({"ListOrgs"}, Open, "nothing") \union
  Route({"GetOrg", "ListByOrg", "ListByUser"}, <<"org", "read">>, "nothing") \union
  Route({"CreateApp", "CreateAPIKey", "RevokeAPIKey"}, <<"app", "write">>, "apps") \union
  Route({"ListApps", "GetApp", "ListAPIKeys"}, <<"app", "read">>, "nothing") \union
  Route({"DefineEndpoint", "RetireEndpoint", "ActivateEndpoint", "UpdatePolicy"},
        <<"endpoint", "write">>, "endpoints") \union
  Route({"ListEndpoints", "GetEndpoint", "GetPolicy"}, <<"endpoint", "read">>, "nothing") \union
  Route({"CreateWorkspace", "UpdateWorkspace", "DeleteWorkspace"},
        <<"workspace", "write">>, "workspaces") \union
  Route({"ListWorkspaces", "GetWorkspace"}, <<"workspace", "read">>, "nothing") \union
  Route({"GetSettings", "TestConnection"}, <<"llm", "read">>, "nothing") \union
  Route({"UpdateSettings"}, <<"llm", "write">>, "llm_settings")

StudioRoutes ==
  Route({"ListSets", "GetSet", "ListWorkspaceQuestions", "MissingInformation"},
        <<"questionnaire", "read">>, "nothing") \union
  Route({"ProviderHealth"}, Open, "nothing") \union
  Route({"GetProfile", "GetCompleteness"}, <<"profile", "read">>, "nothing") \union
  Route({"UpsertProfile"}, <<"profile", "write">>, "profiles") \union
  Route({"ListAnswers"}, <<"answer", "read">>, "nothing") \union
  Route({"BulkUpsertAnswers", "UpsertAnswer"}, <<"answer", "write">>, "answers") \union
  Route({"ListDocuments", "ProductSpecReadiness", "GetDocument", "GetReadiness", "GetSummary"},
        <<"document", "read">>, "nothing") \union
  Route({"GenerateDocument", "RegenerateDocument"}, <<"generation", "run">>, "documents") \union
  Route({"ApproveDocument"}, <<"document", "approve">>, "documents") \union
  Route({"CreateExport"}, <<"export", "create">>, "nothing")

Routes == UserRoutes \union OrganizationRoutes \union StudioRoutes
RouteAreas == {r.changes : r \in Routes} \ {"nothing"}

ASSUME AccessAssumption == NoRoute \notin Routes

VARIABLES
  userRoles,  \* user_roles: the roles of each member
  asked,      \* the route a member's request has been let in to
  wrote       \* the area each member's last request has written

accessVars == <<userRoles, asked, wrote>>

AccessTypeOK ==
  /\ userRoles \in [Members -> SUBSET Roles]
  /\ asked \in [Members -> Routes \union {NoRoute}]
  /\ wrote \in [Members -> RouteAreas \union {"nothing"}]

AccessInit ==
  /\ userRoles \in [Members -> SUBSET Roles]
  /\ asked = [u \in Members |-> NoRoute]
  /\ wrote = [u \in Members |-> "nothing"]

HasPermission(held, route) ==
  \/ route.needs = Open
  \/ \E r \in held : \E have \in RoleTemplates[r] : MatchesPermission(have, route.needs)

\* A request that is refused leaves no trace here.
RequirePermission(u, route) ==
  /\ asked[u] = NoRoute
  /\ HasPermission(userRoles[u], route)
  /\ asked' = [asked EXCEPT ![u] = route]
  /\ UNCHANGED <<userRoles, wrote>>

\* The handler: it writes what the route is for, or fails and writes nothing.
ServeRoute(u) ==
  /\ asked[u] # NoRoute
  /\ asked' = [asked EXCEPT ![u] = NoRoute]
  /\ wrote' = [wrote EXCEPT ![u] = asked[u].changes]
  /\ userRoles' = userRoles

RouteFails(u) ==
  /\ asked[u] # NoRoute
  /\ asked' = [asked EXCEPT ![u] = NoRoute]
  /\ UNCHANGED <<userRoles, wrote>>

\* A member gets a role: from AssignRole, which writes the organization that
\* its request names, or from the backfill of a server's start.
GainRole(u, r) ==
  /\ userRoles' = [userRoles EXCEPT ![u] = @ \union {r}]
  /\ UNCHANGED <<asked, wrote>>

AccessNext ==
  \E u \in Members :
    \/ \E route \in Routes : RequirePermission(u, route)
    \/ ServeRoute(u)
    \/ RouteFails(u)
    \/ \E r \in Roles : GainRole(u, r)

AccessSpec == AccessInit /\ [][AccessNext]_accessVars

----------------------------------------------------------------------------
\* What a role is for, as its description in the templates has it: an
\* administrator may change everything, an application administrator the apps
\* and their endpoints, a developer what a project is made of, a viewer nothing.
Duties(r) ==
  CASE r \in {"admin", "org_admin"} -> RouteAreas
    [] r = "app_admin" -> {"apps", "endpoints"}
    [] r = "developer" -> {"workspaces", "profiles", "answers", "documents", "endpoints"}
    [] r = "viewer" -> {}

\* Whatever a member's request has changed is his own, or the business of one
\* of his roles (New of router.go with SeedRoles): no route is behind a
\* permission that a wildcard or another role's list opens by accident.
RolesAreHonoured ==
  \A u \in Members :
    \/ wrote[u] \in {"nothing", "own_keys", "own_organizations"}
    \/ \E r \in userRoles[u] : wrote[u] \in Duties(r)
=============================================================================
