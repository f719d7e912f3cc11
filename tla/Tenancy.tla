------------------------------ MODULE Tenancy ------------------------------
(***************************************************************************)
(* Organizations, their members and administrators, workspaces, apps and   *)
(* app API keys: the use cases of application/tenant over the tables of    *)
(* infrastructure/postgres/tenant.                                         *)
(*                                                                         *)
(* No use case opens a transaction: every statement is a step of its own   *)
(* that another call's steps may come before and after, and that may fail. *)
(* A row is named by the call that inserted it.  The queries that only     *)
(* answer (get and list) change nothing and are left out, and so are the   *)
(* columns no rule depends on; `name' stands for a workspace's name,       *)
(* description and language, which are all updated alike.                  *)
(***************************************************************************)
EXTENDS Naturals

CONSTANTS Calls,         \* requests to the tenant handlers
          Inputs,        \* what each may bring, of Requests
          Tenants,       \* the users who send them
          Slugs, WorkspaceNames,
          SeedOrg,       \* an organization that was there before
          Founder,       \* its administrator
          Unset,         \* a field the request leaves out
          NoRow, NoInput

OrgIds == Calls \union {SeedOrg}
Statuses == {"active", "suspended", "archived"}

OrgRequests == [op : {"createOrg"}, user : Tenants, slug : Slugs]
AppRequests ==
  [op : {"createApp"}, user : Tenants, org : OrgIds, slug : Slugs]
KeyRequests ==
  [op : {"createKey", "revokeKey"}, user : Tenants, org : OrgIds, id : Calls]
WorkspaceRequests ==
  [op : {"createWorkspace"}, user : Tenants, org : OrgIds, slug : Slugs, name : WorkspaceNames]
    \union
  [op : {"updateWorkspace"}, user : Tenants, org : OrgIds, id : Calls,
   slug : Slugs \union {Unset}, name : WorkspaceNames \union {Unset}, status : Statuses \union {Unset}]
    \union
  [op : {"deleteWorkspace"}, user : Tenants, org : OrgIds, id : Calls]
Requests == OrgRequests \union AppRequests \union KeyRequests \union WorkspaceRequests

ASSUME TenancyAssumption ==
  /\ Inputs \in [Calls -> SUBSET Requests]
  /\ SeedOrg \notin Calls
  /\ Founder \in Tenants
  /\ Unset \notin Slugs \union WorkspaceNames \union Statuses
  /\ NoInput \notin Requests

WorkspaceRow == [org : OrgIds, slug : Slugs, name : WorkspaceNames, status : Statuses]
AppRow == [org : OrgIds, slug : Slugs]

ASSUME NoRowAssumption == NoRow \notin WorkspaceRow \union AppRow \union Slugs

VARIABLES
  orgSlug,     \* organizations: the slug of the row, or NoRow
  suspended,   \* organizations whose status is not active
  members,     \* organization_users: pairs of organization and user
  admins,      \* user_roles: the pairs with the role org_admin
  workspace,   \* workspaces: a row, or NoRow
  app,         \* apps: a row, or NoRow
  appKey,      \* app_api_keys: none, active or revoked
  input,       \* what each call brings
  tpc,         \* where it is
  copy,        \* the workspace as it would write it
  overtaken    \* calls whose workspace another call has written since they read it

tenantTables == <<orgSlug, suspended, members, admins, workspace, app, appKey>>
tenancyVars == <<tenantTables, input, tpc, copy, overtaken>>

\* done: answered with success; refused: 400, 401, 403, 404 or 409; failed: 500.
Stages == {"idle", "orgSlug", "orgInsert", "orgMember", "orgRole", "orgAssign",
           "wsOwner", "wsSlug", "wsInsert", "updateRead", "updateSlug", "updateWrite",
           "deleteRead", "deleteWrite", "appOwner", "appSlug", "appInsert",
           "createKey", "revokeKey", "done", "refused", "failed"}

TenancyTypeOK ==
  /\ orgSlug \in [OrgIds -> Slugs \union {NoRow}]
  /\ suspended \subseteq OrgIds
  /\ members \subseteq OrgIds \X Tenants
  /\ admins \subseteq OrgIds \X Tenants
  /\ workspace \in [Calls -> WorkspaceRow \union {NoRow}]
  /\ app \in [Calls -> AppRow \union {NoRow}]
  /\ appKey \in [Calls -> {"none", "active", "revoked"}]
  /\ \A c \in Calls : input[c] \in Inputs[c] \union {NoInput}
  /\ tpc \in [Calls -> Stages]
  /\ copy \in [Calls -> WorkspaceRow \union {NoRow}]
  /\ overtaken \subseteq Calls

\* The organization that is there may be suspended: no use case changes that.
TenancyInit ==
  /\ \E s \in Slugs : orgSlug = [o \in OrgIds |-> IF o = SeedOrg THEN s ELSE NoRow]
  /\ suspended \in SUBSET {SeedOrg}
  /\ members = {<<SeedOrg, Founder>>}
  /\ admins = {<<SeedOrg, Founder>>}
  /\ workspace = [c \in Calls |-> NoRow]
  /\ app = [c \in Calls |-> NoRow]
  /\ appKey = [c \in Calls |-> "none"]
  /\ input = [c \in Calls |-> NoInput]
  /\ tpc = [c \in Calls |-> "idle"]
  /\ copy = [c \in Calls |-> NoRow]
  /\ overtaken = {}

Step(c, from, to) == tpc[c] = from /\ tpc' = [tpc EXCEPT ![c] = to]

\* A step that reads the tables and changes nothing but the call's own stage.
Query(c, from, to) ==
  Step(c, from, to) /\ UNCHANGED <<tenantTables, input, copy, overtaken>>

----------------------------------------------------------------------------
(***************************************************************************)
(* The rows that have a slug, and the queries of the two repositories.     *)
(***************************************************************************)
OrgTaken(s) == \E o \in OrgIds : orgSlug[o] = s
WorkspaceTaken(o, s, except) ==
  \E w \in Calls \ except : workspace[w] # NoRow /\ workspace[w].org = o /\ workspace[w].slug = s
AppTaken(o, s) == \E a \in Calls : app[a] # NoRow /\ app[a].org = o /\ app[a].slug = s

\* GetByID and IsActive.
OrgUsable(o) == orgSlug[o] # NoRow /\ o \notin suspended

\* RequirePermission: only org_admin, of the roles this model keeps, has the
\* permissions of these routes.  A call with the permission may be refused all
\* the same: the cached permissions are old, or cannot be read.
Permitted(i) == i.op = "createOrg" \/ <<i.org, i.user>> \in admins

First(op) ==
  CASE op = "createOrg" -> "orgSlug"
    [] op = "createWorkspace" -> "wsOwner"
    [] op = "updateWorkspace" -> "updateRead"
    [] op = "deleteWorkspace" -> "deleteRead"
    [] op = "createApp" -> "appOwner"
    [] OTHER -> op

Begin(c, i) ==
  /\ Step(c, "idle", IF Permitted(i) THEN First(i.op) ELSE "refused")
  /\ input' = [input EXCEPT ![c] = i]
  /\ UNCHANGED <<tenantTables, copy, overtaken>>

\* The statement, or the query whose error is not dropped, fails.
Fail(c) ==
  /\ tpc[c] \notin {"idle", "orgSlug", "wsSlug", "updateSlug", "appSlug", "done", "refused", "failed"}
  /\ Query(c, tpc[c], "failed")

----------------------------------------------------------------------------
(***************************************************************************)
(* CreateOrg: three inserts and two queries.  The first query's error is   *)
(* dropped, as if it had found nothing.                                    *)
(***************************************************************************)
CheckOrgSlug(c) ==
  \/ Query(c, "orgSlug", "refused") /\ OrgTaken(input[c].slug)
  \/ Query(c, "orgSlug", "orgInsert")

InsertOrg(c) ==
  \/ Query(c, "orgInsert", "failed") /\ OrgTaken(input[c].slug)
  \/ /\ Step(c, "orgInsert", "orgMember")
     /\ ~ OrgTaken(input[c].slug)
     /\ orgSlug' = [orgSlug EXCEPT ![c] = input[c].slug]
     /\ UNCHANGED <<suspended, members, admins, workspace, app, appKey,
                    input, copy, overtaken>>

\* Mutant: the founder is a member and nothing more.
AddMemberOnly(c) ==
  /\ Step(c, "orgMember", "done")
  /\ members' = members \union {<<c, input[c].user>>}
  /\ UNCHANGED <<orgSlug, suspended, admins, workspace, app, appKey,
                 input, copy, overtaken>>

AddMember(c) ==
  /\ Step(c, "orgMember", "orgRole")
  /\ members' = members \union {<<c, input[c].user>>}
  /\ UNCHANGED <<orgSlug, suspended, admins, workspace, app, appKey,
                 input, copy, overtaken>>

\* The role is there: a server seeds the roles before it serves, or ends.
FindRole(c) == Query(c, "orgRole", "orgAssign")

AssignAdmin(c) ==
  /\ Step(c, "orgAssign", "done")
  /\ admins' = admins \union {<<c, input[c].user>>}
  /\ UNCHANGED <<orgSlug, suspended, members, workspace, app, appKey,
                 input, copy, overtaken>>

\* A server starts and makes every member without a role an administrator.
Backfill ==
  /\ admins' = admins \union members
  /\ UNCHANGED <<orgSlug, suspended, members, workspace, app, appKey,
                 input, tpc, copy, overtaken>>

----------------------------------------------------------------------------
(***************************************************************************)
(* Workspaces.  The table keeps (organization, slug) unique.               *)
(***************************************************************************)
CheckWorkspaceOwner(c) ==
  Query(c, "wsOwner", IF OrgUsable(input[c].org) THEN "wsSlug" ELSE "refused")

CheckWorkspaceSlug(c) ==
  \/ Query(c, "wsSlug", "refused") /\ WorkspaceTaken(input[c].org, input[c].slug, {})
  \/ Query(c, "wsSlug", "wsInsert")

\* Every write of a workspace overtakes the calls that have read it.
WriteWorkspace(w, r) ==
  /\ workspace' = [workspace EXCEPT ![w] = r]
  /\ overtaken' = overtaken \union
       {c \in Calls : tpc[c] \in {"updateSlug", "updateWrite"} /\ input[c].id = w}
  /\ UNCHANGED <<orgSlug, suspended, members, admins, app, appKey, input, copy>>

InsertWorkspace(c) ==
  LET i == input[c] IN
  \/ Query(c, "wsInsert", "failed") /\ WorkspaceTaken(i.org, i.slug, {})
  \/ /\ Step(c, "wsInsert", "done")
     /\ ~ WorkspaceTaken(i.org, i.slug, {})
     /\ WriteWorkspace(c, [org |-> i.org, slug |-> i.slug, name |-> i.name,
                           status |-> "active"])

\* Mutant: an update makes the workspace active unless it says otherwise.
MergedAfresh(i, r) ==
  [org    |-> r.org,
   slug   |-> IF i.slug = Unset THEN r.slug ELSE i.slug,
   name   |-> IF i.name = Unset THEN r.name ELSE i.name,
   status |-> IF i.status = Unset THEN "active" ELSE i.status]

\* The row as an update means to leave it: what the request names is new, the
\* rest is what the update has read.
Merged(i, r) ==
  [org    |-> r.org,
   slug   |-> IF i.slug = Unset THEN r.slug ELSE i.slug,
   name   |-> IF i.name = Unset THEN r.name ELSE i.name,
   status |-> IF i.status = Unset THEN r.status ELSE i.status]

\* GetByID answered with a row of the call's organization.
Owned(i) == workspace[i.id] # NoRow /\ workspace[i.id].org = i.org

ReadForUpdate(c) ==
  LET i == input[c] IN
  \/ Query(c, "updateRead", "refused") /\ ~ Owned(i)
  \/ /\ Step(c, "updateRead", IF i.slug = Unset THEN "updateWrite" ELSE "updateSlug")
     /\ Owned(i)
     /\ copy' = [copy EXCEPT ![c] = Merged(i, workspace[i.id])]
     /\ UNCHANGED <<tenantTables, input, overtaken>>

CheckNewSlug(c) ==
  LET i == input[c] IN
  \/ Query(c, "updateSlug", "refused") /\ WorkspaceTaken(i.org, i.slug, {i.id})
  \/ Query(c, "updateSlug", "updateWrite")

UpdateWorkspace(c) ==
  LET i == input[c]
      taken == WorkspaceTaken(workspace[i.id].org, copy[c].slug, {i.id})
  IN \/ Query(c, "updateWrite", "failed") /\ taken
     \/ Step(c, "updateWrite", "done") /\ ~ taken /\ WriteWorkspace(i.id, copy[c])

ReadForDelete(c) ==
  Query(c, "deleteRead", IF Owned(input[c]) THEN "deleteWrite" ELSE "refused")

ArchiveWorkspace(c) ==
  /\ Step(c, "deleteWrite", "done")
  /\ WriteWorkspace(input[c].id, [workspace[input[c].id] EXCEPT !.status = "archived"])

----------------------------------------------------------------------------
(***************************************************************************)
(* Apps and their keys.  A key is revoked by its id, whatever its state.   *)
(***************************************************************************)
CheckAppOwner(c) ==
  Query(c, "appOwner", IF OrgUsable(input[c].org) THEN "appSlug" ELSE "refused")

CheckAppSlug(c) ==
  \/ Query(c, "appSlug", "refused") /\ AppTaken(input[c].org, input[c].slug)
  \/ Query(c, "appSlug", "appInsert")

InsertApp(c) ==
  LET i == input[c] IN
  \/ Query(c, "appInsert", "failed") /\ AppTaken(i.org, i.slug)
  \/ /\ Step(c, "appInsert", "done")
     /\ ~ AppTaken(i.org, i.slug)
     /\ app' = [app EXCEPT ![c] = [org |-> i.org, slug |-> i.slug]]
     /\ UNCHANGED <<orgSlug, suspended, members, admins, workspace, appKey,
                    input, copy, overtaken>>

CreateKey(c) ==
  \/ Query(c, "createKey", "failed") /\ app[input[c].id] = NoRow
  \/ /\ Step(c, "createKey", "done")
     /\ app[input[c].id] # NoRow
     /\ appKey' = [appKey EXCEPT ![c] = "active"]
     /\ UNCHANGED <<orgSlug, suspended, members, admins, workspace, app,
                    input, copy, overtaken>>

RevokeKey(c) ==
  LET k == input[c].id IN
  /\ Step(c, "revokeKey", "done")
  /\ appKey' = [appKey EXCEPT ![k] = IF @ = "none" THEN "none" ELSE "revoked"]
  /\ UNCHANGED <<orgSlug, suspended, members, admins, workspace, app,
                 input, copy, overtaken>>

TenancyNext ==
  \/ Backfill
  \/ \E c \in Calls :
       \/ \E i \in Inputs[c] : Begin(c, i)
       \/ Fail(c)
       \/ CheckOrgSlug(c) \/ InsertOrg(c) \/ AddMember(c) \/ FindRole(c) \/ AssignAdmin(c)
       \/ CheckWorkspaceOwner(c) \/ CheckWorkspaceSlug(c) \/ InsertWorkspace(c)
       \/ ReadForUpdate(c) \/ CheckNewSlug(c) \/ UpdateWorkspace(c)
       \/ ReadForDelete(c) \/ ArchiveWorkspace(c)
       \/ CheckAppOwner(c) \/ CheckAppSlug(c) \/ InsertApp(c)
       \/ CreateKey(c) \/ RevokeKey(c)

TenancySpec == TenancyInit /\ [][TenancyNext]_tenancyVars

----------------------------------------------------------------------------
\* No two organizations have one slug, nor two workspaces or two apps of one
\* organization, although every use case checks before it inserts, in another
\* statement, and drops the check's error (create_org.go, create_workspace.go,
\* update_workspace.go, create_app.go).
SlugsAreUnique ==
  /\ \A o, p \in OrgIds : orgSlug[o] # NoRow /\ orgSlug[o] = orgSlug[p] => o = p
  /\ \A v, w \in Calls :
       workspace[v] # NoRow /\ WorkspaceTaken(workspace[v].org, workspace[v].slug, Calls \ {w})
         => v = w
  /\ \A a, b \in Calls : app[a] # NoRow /\ app[a] = app[b] => a = b

\* An organization has its founder for a member and an administrator, unless
\* the call that creates it is under way or has failed after the first insert
\* (create_org.go): nothing but such a failure leaves one that nobody rules.
OrgsAreAdministered ==
  \A o \in OrgIds : orgSlug[o] # NoRow =>
    \/ \E u \in Tenants : <<o, u>> \in members /\ <<o, u>> \in admins
    \/ o \in Calls /\ tpc[o] \in {"orgMember", "orgRole", "orgAssign", "failed"}

\* A workspace is inserted or written only by a call of an administrator of
\* the organization it is in, and never leaves that organization: the
\* permission is for the organization the request names, which the use cases
\* compare with the one in the row they have read.
ChangesAreAuthorised ==
  [][\A w \in Calls : workspace'[w] # workspace[w] =>
       \E c \in Calls :
         /\ tpc'[c] # tpc[c]
         /\ input[c].org = workspace'[w].org
         /\ <<workspace'[w].org, input[c].user>> \in admins
         /\ workspace[w] # NoRow => workspace[w].org = workspace'[w].org]_tenancyVars

\* An update leaves the fields it does not name as they are, unless another
\* call has written the workspace between its read and its write
\* (update_workspace.go): then it puts back what it read.
OnlyOverlapLosesUpdates ==
  [][\A c \in Calls \ overtaken :
       /\ input[c] # NoInput
       /\ input[c].op = "updateWorkspace"
       /\ tpc[c] = "updateWrite"
       /\ tpc'[c] = "done"
       => LET i == input[c]
              old == workspace[i.id]
              new == workspace'[i.id]
          IN /\ i.slug = Unset => new.slug = old.slug
             /\ i.name = Unset => new.name = old.name
             /\ i.status = Unset => new.status = old.status]_tenancyVars
=============================================================================
