--------------------------- MODULE TenancyProofs ---------------------------
(***************************************************************************)
(* Theorems of Tenancy: types, the uniqueness of slugs, the administrators *)
(* of an organization, and whose calls change a workspace, and how.        *)
(*                                                                         *)
(* The invariant says of each stage of a call which operation it belongs   *)
(* to, which rows the call has inserted by then, and what it still knows   *)
(* of the workspace it has read: between a read and a write other calls    *)
(* write, and only what they cannot change may be relied on.               *)
(***************************************************************************)
EXTENDS Tenancy, TLAPS

OrgStages == {"orgSlug", "orgInsert", "orgMember", "orgRole", "orgAssign"}
Inserted == {"orgMember", "orgRole", "orgAssign", "done", "failed"}

Types ==
  /\ TenancyTypeOK
  /\ input \in [Calls -> Requests \union {NoInput}]

StagesFit ==
  \A c \in Calls :
    /\ tpc[c] # "idle" => input[c] # NoInput
    /\ tpc[c] \in OrgStages => input[c].op = "createOrg"
    /\ tpc[c] \in {"wsOwner", "wsSlug", "wsInsert"} => input[c].op = "createWorkspace"
    /\ tpc[c] \in {"updateRead", "updateSlug", "updateWrite"} => input[c].op = "updateWorkspace"
    /\ tpc[c] \in {"deleteRead", "deleteWrite"} => input[c].op = "deleteWorkspace"
    /\ tpc[c] \in {"appOwner", "appSlug", "appInsert"} => input[c].op = "createApp"
    /\ tpc[c] = "createKey" => input[c].op = "createKey"
    /\ tpc[c] = "revokeKey" => input[c].op = "revokeKey"

TablesFit ==
  \A c \in Calls :
    /\ orgSlug[c] # NoRow => tpc[c] \in Inserted /\ input[c].op = "createOrg"
    /\ workspace[c] # NoRow => tpc[c] = "done"
    /\ app[c] # NoRow => tpc[c] = "done"

Founded ==
  /\ <<SeedOrg, Founder>> \in members \intersect admins
  /\ \A c \in Calls :
       /\ tpc[c] \in {"orgRole", "orgAssign"} => <<c, input[c].user>> \in members
       /\ tpc[c] = "done" /\ input[c].op = "createOrg" =>
            <<c, input[c].user>> \in members \intersect admins

Authority ==
  \A c \in Calls :
    tpc[c] \notin {"idle", "refused"} /\ input[c].op # "createOrg" =>
      <<input[c].org, input[c].user>> \in admins

Known ==
  \A c \in Calls :
    /\ tpc[c] \in {"updateSlug", "updateWrite", "deleteWrite"} => Owned(input[c])
    /\ tpc[c] \in {"updateSlug", "updateWrite"} =>
         copy[c] # NoRow /\ copy[c].org = input[c].org
    /\ tpc[c] \in {"updateSlug", "updateWrite"} /\ c \notin overtaken =>
         copy[c] = Merged(input[c], workspace[input[c].id])

TenancyInv ==
  Types /\ StagesFit /\ TablesFit /\ Founded /\ Authority /\ Known /\ SlugsAreUnique

----------------------------------------------------------------------------
LEMMA RequestParts ==
  ASSUME NEW i \in Requests
  PROVE  /\ i.op \in {"createOrg", "createApp", "createKey", "revokeKey", "createWorkspace",
                      "updateWorkspace", "deleteWorkspace"}
         /\ i.user \in Tenants
         /\ i.op # "createOrg" => i.org \in OrgIds
         /\ i.op \in {"createOrg", "createApp", "createWorkspace"} => i.slug \in Slugs
         /\ i.op = "createWorkspace" => i.name \in WorkspaceNames
         /\ i.op \in {"createKey", "revokeKey", "updateWorkspace", "deleteWorkspace"} =>
              i.id \in Calls
         /\ i.op = "updateWorkspace" =>
              /\ i.slug \in Slugs \union {Unset}
              /\ i.name \in WorkspaceNames \union {Unset}
              /\ i.status \in Statuses \union {Unset}
<1>1. CASE i \in OrgRequests
  BY <1>1 DEF OrgRequests
<1>2. CASE i \in AppRequests
  BY <1>2 DEF AppRequests
<1>3. CASE i \in KeyRequests
  BY <1>3 DEF KeyRequests
<1>4. CASE i \in WorkspaceRequests
  BY <1>4 DEF WorkspaceRequests
<1>. QED  BY <1>1, <1>2, <1>3, <1>4 DEF Requests

LEMMA InputsAreRequests ==
  ASSUME NEW c \in Calls, NEW i \in Inputs[c]
  PROVE  i \in Requests /\ i # NoInput
BY TenancyAssumption

LEMMA MergedRow ==
  ASSUME NEW i \in Requests, i.op = "updateWorkspace", NEW r \in WorkspaceRow
  PROVE  Merged(i, r) \in WorkspaceRow /\ Merged(i, r).org = r.org
BY RequestParts, TenancyAssumption DEF Merged, WorkspaceRow

LEMMA InitInv == TenancyInit => TenancyInv
<1>. SUFFICES ASSUME TenancyInit PROVE TenancyInv
  OBVIOUS
<1>. USE TenancyAssumption, NoRowAssumption DEF TenancyInit
<1>1. Types
  BY DEF Types, TenancyTypeOK, OrgIds, Stages
<1>2. StagesFit /\ TablesFit /\ Founded /\ Authority /\ Known
  BY DEF StagesFit, TablesFit, Founded, Authority, Known, OrgStages, OrgIds
<1>3. SlugsAreUnique
  BY DEF SlugsAreUnique, WorkspaceTaken, OrgIds
<1>. QED  BY <1>1, <1>2, <1>3 DEF TenancyInv

(***************************************************************************)
(* A step that only reads: the new stage asks for no more than what the    *)
(* old one did, or what the query has just found.                          *)
(***************************************************************************)
LEMMA ReadKeepsInv ==
  ASSUME TenancyInv, NEW c \in Calls, NEW from, NEW to \in Stages, Query(c, from, to),
         from \notin {"idle", "done", "refused", "failed"},
         to \notin {"idle", "done", "orgMember", "orgRole", "updateSlug"},
         from \in Inserted => to \in Inserted,
         to \in OrgStages => input[c].op = "createOrg",
         to \in {"wsOwner", "wsSlug", "wsInsert"} => input[c].op = "createWorkspace",
         to \in {"updateRead", "updateSlug", "updateWrite"} => input[c].op = "updateWorkspace",
         to \in {"deleteRead", "deleteWrite"} => input[c].op = "deleteWorkspace",
         to \in {"appOwner", "appSlug", "appInsert"} => input[c].op = "createApp",
         to \notin {"createKey", "revokeKey"},
         to = "orgAssign" => from = "orgRole",
         to = "updateWrite" => from = "updateSlug",
         to = "deleteWrite" => Owned(input[c])
  PROVE  TenancyInv'
<1>. USE DEF TenancyInv, Query, Step, tenantTables
<1>1. Types'
  BY DEF Types, TenancyTypeOK, Stages
<1>2. StagesFit'
  BY DEF Types, TenancyTypeOK, StagesFit, OrgStages
<1>3. TablesFit'
  BY DEF Types, TenancyTypeOK, TablesFit, Inserted
<1>4. Founded'
  BY DEF Types, TenancyTypeOK, Founded
<1>5. Authority'
  BY DEF Types, TenancyTypeOK, Authority
<1>6. Known'
  BY DEF Types, TenancyTypeOK, Known, Owned, Merged
<1>7. SlugsAreUnique'
  BY DEF SlugsAreUnique, WorkspaceTaken
<1>. QED  BY <1>1, <1>2, <1>3, <1>4, <1>5, <1>6, <1>7

LEMMA ReadsKeepInv ==
  ASSUME TenancyInv, NEW c \in Calls,
         \/ Fail(c) \/ CheckOrgSlug(c) \/ FindRole(c)
         \/ CheckWorkspaceOwner(c) \/ CheckWorkspaceSlug(c)
         \/ CheckNewSlug(c) \/ ReadForDelete(c) \/ CheckAppOwner(c) \/ CheckAppSlug(c)
  PROVE  TenancyInv'
<1>. tpc[c] \in Stages
  BY DEF TenancyInv, Types, TenancyTypeOK
<1>. USE DEF Stages, OrgStages, Inserted, StagesFit, Query, Step
<1>. StagesFit
  BY DEF TenancyInv
<1>1. CASE Fail(c)
  BY <1>1, ReadKeepsInv DEF Fail
<1>2. CASE CheckOrgSlug(c)
  BY <1>2, ReadKeepsInv DEF CheckOrgSlug
<1>3. CASE FindRole(c)
  BY <1>3, ReadKeepsInv DEF FindRole
<1>4. CASE CheckWorkspaceOwner(c)
  BY <1>4, ReadKeepsInv DEF CheckWorkspaceOwner
<1>5. CASE CheckWorkspaceSlug(c)
  BY <1>5, ReadKeepsInv DEF CheckWorkspaceSlug
<1>6. CASE CheckNewSlug(c)
  BY <1>6, ReadKeepsInv DEF CheckNewSlug
<1>7. CASE ReadForDelete(c)
  BY <1>7, ReadKeepsInv DEF ReadForDelete
<1>8. CASE CheckAppOwner(c)
  BY <1>8, ReadKeepsInv DEF CheckAppOwner
<1>9. CASE CheckAppSlug(c)
  BY <1>9, ReadKeepsInv DEF CheckAppSlug
<1>. QED  BY <1>1, <1>2, <1>3, <1>4, <1>5, <1>6, <1>7, <1>8, <1>9

----------------------------------------------------------------------------
(***************************************************************************)
(* The steps that write.                                                   *)
(***************************************************************************)
LEMMA InputOf ==
  ASSUME TenancyInv, NEW c \in Calls, tpc[c] # "idle"
  PROVE  input[c] \in Requests
BY DEF TenancyInv, Types, StagesFit

LEMMA BackfillKeepsInv ==
  ASSUME TenancyInv, Backfill
  PROVE  TenancyInv'
<1>. USE DEF TenancyInv, Step, tenantTables, Backfill
<1>1. Types'
  BY DEF Types, TenancyTypeOK, Stages
<1>2. StagesFit'
  BY DEF Types, TenancyTypeOK, StagesFit, OrgStages
<1>3. TablesFit'
  BY DEF Types, TenancyTypeOK, TablesFit, StagesFit, Inserted, OrgStages
<1>4. Founded'
  BY DEF Types, TenancyTypeOK, Founded, StagesFit, OrgStages
<1>5. Authority'
  BY DEF Types, TenancyTypeOK, Authority
<1>6. Known'
  BY DEF Types, TenancyTypeOK, Known, Owned, Merged
<1>7. SlugsAreUnique'
  BY DEF Types, TenancyTypeOK, SlugsAreUnique, WorkspaceTaken
<1>. QED  BY <1>1, <1>2, <1>3, <1>4, <1>5, <1>6, <1>7

LEMMA BeginKeepsInv ==
  ASSUME TenancyInv, NEW c \in Calls, NEW i \in Inputs[c], Begin(c, i)
  PROVE  TenancyInv'
<1>. USE DEF TenancyInv, Step, tenantTables, Begin, First, Permitted
<1>. i \in Requests /\ i # NoInput
  BY InputsAreRequests
<1>. i.op \in {"createOrg", "createApp", "createKey", "revokeKey", "createWorkspace",
              "updateWorkspace", "deleteWorkspace"}
  BY RequestParts
<1>1. Types'
  BY DEF Types, TenancyTypeOK, Stages
<1>2. StagesFit'
  BY DEF Types, TenancyTypeOK, StagesFit, OrgStages
<1>3. TablesFit'
  BY DEF Types, TenancyTypeOK, TablesFit, StagesFit, Inserted, OrgStages
<1>4. Founded'
  BY DEF Types, TenancyTypeOK, Founded, StagesFit, OrgStages
<1>5. Authority'
  BY DEF Types, TenancyTypeOK, Authority
<1>6. Known'
  BY DEF Types, TenancyTypeOK, Known, Owned, Merged
<1>7. SlugsAreUnique'
  BY DEF Types, TenancyTypeOK, SlugsAreUnique, WorkspaceTaken
<1>. QED  BY <1>1, <1>2, <1>3, <1>4, <1>5, <1>6, <1>7

LEMMA InsertOrgKeepsInv ==
  ASSUME TenancyInv, NEW c \in Calls, InsertOrg(c), tpc'[c] = "orgMember"
  PROVE  TenancyInv'
<1>. USE DEF TenancyInv, Step, tenantTables, InsertOrg, Query
<1>. input[c] \in Requests /\ input[c].op = "createOrg"
  BY InputOf DEF StagesFit, OrgStages
<1>. input[c].slug \in Slugs
  BY RequestParts
<1>. ~ OrgTaken(input[c].slug) /\ orgSlug' = [orgSlug EXCEPT ![c] = input[c].slug]
  BY DEF Types, TenancyTypeOK
<1>1. Types'
  BY DEF Types, TenancyTypeOK, Stages, OrgIds
<1>2. StagesFit'
  BY DEF Types, TenancyTypeOK, StagesFit, OrgStages
<1>3. TablesFit'
  BY DEF Types, TenancyTypeOK, TablesFit, StagesFit, Inserted, OrgStages
<1>4. Founded'
  BY DEF Types, TenancyTypeOK, Founded, StagesFit, OrgStages
<1>5. Authority'
  BY DEF Types, TenancyTypeOK, Authority
<1>6. Known'
  BY DEF Types, TenancyTypeOK, Known, Owned, Merged
<1>7. SlugsAreUnique'
  BY DEF Types, TenancyTypeOK, SlugsAreUnique, WorkspaceTaken, OrgTaken, OrgIds
<1>. QED  BY <1>1, <1>2, <1>3, <1>4, <1>5, <1>6, <1>7

LEMMA AddMemberKeepsInv ==
  ASSUME TenancyInv, NEW c \in Calls, AddMember(c)
  PROVE  TenancyInv'
<1>. USE DEF TenancyInv, Step, tenantTables, AddMember
<1>. input[c] \in Requests /\ input[c].op = "createOrg"
  BY InputOf DEF StagesFit, OrgStages
<1>. input[c].user \in Tenants
  BY RequestParts
<1>1. Types'
  BY DEF Types, TenancyTypeOK, Stages, OrgIds
<1>2. StagesFit'
  BY DEF Types, TenancyTypeOK, StagesFit, OrgStages
<1>3. TablesFit'
  BY DEF Types, TenancyTypeOK, TablesFit, StagesFit, Inserted, OrgStages
<1>4. Founded'
  BY DEF Types, TenancyTypeOK, Founded, StagesFit, OrgStages
<1>5. Authority'
  BY DEF Types, TenancyTypeOK, Authority
<1>6. Known'
  BY DEF Types, TenancyTypeOK, Known, Owned, Merged
<1>7. SlugsAreUnique'
  BY DEF Types, TenancyTypeOK, SlugsAreUnique, WorkspaceTaken
<1>. QED  BY <1>1, <1>2, <1>3, <1>4, <1>5, <1>6, <1>7

LEMMA AssignAdminKeepsInv ==
  ASSUME TenancyInv, NEW c \in Calls, AssignAdmin(c)
  PROVE  TenancyInv'
<1>. USE DEF TenancyInv, Step, tenantTables, AssignAdmin
<1>. input[c] \in Requests /\ input[c].op = "createOrg"
  BY InputOf DEF StagesFit, OrgStages
<1>. input[c].user \in Tenants
  BY RequestParts
<1>1. Types'
  BY DEF Types, TenancyTypeOK, Stages, OrgIds
<1>2. StagesFit'
  BY DEF Types, TenancyTypeOK, StagesFit, OrgStages
<1>3. TablesFit'
  BY DEF Types, TenancyTypeOK, TablesFit, StagesFit, Inserted, OrgStages
<1>4. Founded'
  BY DEF Types, TenancyTypeOK, Founded, StagesFit, OrgStages
<1>5. Authority'
  BY DEF Types, TenancyTypeOK, Authority
<1>6. Known'
  BY DEF Types, TenancyTypeOK, Known, Owned, Merged
<1>7. SlugsAreUnique'
  BY DEF Types, TenancyTypeOK, SlugsAreUnique, WorkspaceTaken
<1>. QED  BY <1>1, <1>2, <1>3, <1>4, <1>5, <1>6, <1>7

LEMMA InsertAppKeepsInv ==
  ASSUME TenancyInv, NEW c \in Calls, InsertApp(c), tpc'[c] = "done"
  PROVE  TenancyInv'
<1>. USE DEF TenancyInv, Step, tenantTables, InsertApp, Query
<1>. input[c] \in Requests /\ input[c].op = "createApp"
  BY InputOf DEF StagesFit, OrgStages
<1>. input[c].org \in OrgIds /\ input[c].slug \in Slugs
  BY RequestParts
<1>. DEFINE row == [org |-> input[c].org, slug |-> input[c].slug]
<1>. row \in AppRow
  BY DEF AppRow
<1>. ~ AppTaken(input[c].org, input[c].slug) /\ app' = [app EXCEPT ![c] = row]
  BY DEF Types, TenancyTypeOK
<1>. HIDE DEF row
<1>1. Types'
  BY DEF Types, TenancyTypeOK, Stages, AppRow
<1>2. StagesFit'
  BY DEF Types, TenancyTypeOK, StagesFit, OrgStages
<1>3. TablesFit'
  BY DEF Types, TenancyTypeOK, TablesFit, StagesFit, Inserted, OrgStages
<1>4. Founded'
  BY DEF Types, TenancyTypeOK, Founded, StagesFit, OrgStages
<1>5. Authority'
  BY DEF Types, TenancyTypeOK, Authority
<1>6. Known'
  BY DEF Types, TenancyTypeOK, Known, Owned, Merged
<1>7. SlugsAreUnique'
  <2>1. ASSUME NEW a \in Calls, app[a] # NoRow PROVE app[a] # row
    BY <2>1 DEF AppTaken, row
  <2>2. ASSUME NEW a \in Calls, NEW b \in Calls, app'[a] # NoRow, app'[a] = app'[b] PROVE a = b
    BY <2>1, <2>2 DEF Types, TenancyTypeOK, SlugsAreUnique
  <2>. QED  BY <2>2 DEF SlugsAreUnique, WorkspaceTaken
<1>. QED  BY <1>1, <1>2, <1>3, <1>4, <1>5, <1>6, <1>7

LEMMA CreateKeyKeepsInv ==
  ASSUME TenancyInv, NEW c \in Calls, CreateKey(c), tpc'[c] = "done"
  PROVE  TenancyInv'
<1>. USE DEF TenancyInv, Step, tenantTables, CreateKey, Query
<1>. input[c].op = "createKey"
  BY DEF StagesFit, Types, TenancyTypeOK
<1>1. Types'
  BY DEF Types, TenancyTypeOK, Stages
<1>2. StagesFit'
  BY DEF Types, TenancyTypeOK, StagesFit, OrgStages
<1>3. TablesFit'
  BY DEF Types, TenancyTypeOK, TablesFit, StagesFit, Inserted, OrgStages
<1>4. Founded'
  BY DEF Types, TenancyTypeOK, Founded, StagesFit, OrgStages
<1>5. Authority'
  BY DEF Types, TenancyTypeOK, Authority
<1>6. Known'
  BY DEF Types, TenancyTypeOK, Known, Owned, Merged
<1>7. SlugsAreUnique'
  BY DEF Types, TenancyTypeOK, SlugsAreUnique, WorkspaceTaken
<1>. QED  BY <1>1, <1>2, <1>3, <1>4, <1>5, <1>6, <1>7

LEMMA RevokeKeyKeepsInv ==
  ASSUME TenancyInv, NEW c \in Calls, RevokeKey(c)
  PROVE  TenancyInv'
<1>. USE DEF TenancyInv, Step, tenantTables, RevokeKey
<1>. input[c] \in Requests /\ input[c].op = "revokeKey"
  BY InputOf DEF StagesFit, OrgStages
<1>. input[c].id \in Calls
  BY RequestParts
<1>1. Types'
  BY DEF Types, TenancyTypeOK, Stages
<1>2. StagesFit'
  BY DEF Types, TenancyTypeOK, StagesFit, OrgStages
<1>3. TablesFit'
  BY DEF Types, TenancyTypeOK, TablesFit, StagesFit, Inserted, OrgStages
<1>4. Founded'
  BY DEF Types, TenancyTypeOK, Founded, StagesFit, OrgStages
<1>5. Authority'
  BY DEF Types, TenancyTypeOK, Authority
<1>6. Known'
  BY DEF Types, TenancyTypeOK, Known, Owned, Merged
<1>7. SlugsAreUnique'
  BY DEF Types, TenancyTypeOK, SlugsAreUnique, WorkspaceTaken
<1>. QED  BY <1>1, <1>2, <1>3, <1>4, <1>5, <1>6, <1>7

\* Whoever writes a workspace: a call that has read it is overtaken, unless it
\* is the writer, and what it relies on, the organization, stays the same.
LEMMA RowWriteKeepsInv ==
  ASSUME TenancyInv, NEW c \in Calls, NEW from \in {"wsInsert", "updateWrite", "deleteWrite"},
         Step(c, from, "done"), NEW w \in Calls, NEW r \in WorkspaceRow, WriteWorkspace(w, r),
         w = c \/ workspace[w] # NoRow,
         workspace[w] # NoRow => r.org = workspace[w].org,
         ~ WorkspaceTaken(r.org, r.slug, {w})
  PROVE  TenancyInv'
<1>. USE DEF TenancyInv, Step, WriteWorkspace
<1>0. r # NoRow /\ input[c].op \in {"createWorkspace", "updateWorkspace", "deleteWorkspace"}
  BY NoRowAssumption DEF StagesFit
<1>1. Types'
  BY DEF Types, TenancyTypeOK, Stages
<1>2. StagesFit'
  BY DEF Types, TenancyTypeOK, StagesFit, OrgStages
<1>3. TablesFit'
  BY <1>0 DEF Types, TenancyTypeOK, TablesFit, Inserted
<1>4. Founded'
  BY <1>0 DEF Types, TenancyTypeOK, Founded
<1>5. Authority'
  BY DEF Types, TenancyTypeOK, Authority
<1>6. Known'
  <2>. SUFFICES ASSUME NEW d \in Calls, tpc'[d] \in {"updateSlug", "updateWrite", "deleteWrite"}
                PROVE  /\ Owned(input[d])'
                       /\ tpc'[d] \in {"updateSlug", "updateWrite"} =>
                            copy'[d] # NoRow /\ copy'[d].org = input'[d].org
                       /\ tpc'[d] \in {"updateSlug", "updateWrite"} /\ d \notin overtaken' =>
                            copy'[d] = Merged(input[d], workspace[input[d].id])'
    BY DEF Known
  <2>1. d # c /\ tpc[d] = tpc'[d]
    BY DEF Types, TenancyTypeOK
  <2>2. input[d].id \in Calls
    BY <2>1, InputOf, RequestParts DEF StagesFit
  <2>3. CASE input[d].id = w
    BY <1>0, <2>1, <2>2, <2>3 DEF Types, TenancyTypeOK, Known, Owned
  <2>4. CASE input[d].id # w
    BY <2>1, <2>2, <2>4 DEF Types, TenancyTypeOK, Known, Owned, Merged
  <2>. QED  BY <2>3, <2>4
<1>7. SlugsAreUnique'
  <2>1. ASSUME NEW v \in Calls, NEW x \in Calls, workspace'[v] # NoRow, workspace'[x] # NoRow,
               workspace'[x].org = workspace'[v].org, workspace'[x].slug = workspace'[v].slug
        PROVE  v = x
    BY <1>0, <2>1 DEF Types, TenancyTypeOK, SlugsAreUnique, WorkspaceTaken
  <2>. QED  BY <2>1 DEF SlugsAreUnique, WorkspaceTaken
<1>. QED  BY <1>1, <1>2, <1>3, <1>4, <1>5, <1>6, <1>7

LEMMA InsertWorkspaceKeepsInv ==
  ASSUME TenancyInv, NEW c \in Calls, InsertWorkspace(c), tpc'[c] = "done"
  PROVE  TenancyInv'
<1>. DEFINE i == input[c]
            row == [org |-> i.org, slug |-> i.slug, name |-> i.name, status |-> "active"]
<1>1. /\ Step(c, "wsInsert", "done")
      /\ ~ WorkspaceTaken(i.org, i.slug, {})
      /\ WriteWorkspace(c, row)
  BY DEF TenancyInv, Types, TenancyTypeOK, InsertWorkspace, Query, Step
<1>2. i.op = "createWorkspace" /\ i \in Requests
  BY <1>1, InputOf DEF TenancyInv, StagesFit, Step
<1>3. row \in WorkspaceRow
  BY <1>2, RequestParts DEF WorkspaceRow, Statuses
<1>4. workspace[c] = NoRow
  BY <1>1 DEF TenancyInv, TablesFit, Step
<1>5. ~ WorkspaceTaken(row.org, row.slug, {c})
  BY <1>1 DEF WorkspaceTaken
<1>. HIDE DEF row, i
<1>. QED  BY <1>1, <1>3, <1>4, <1>5, RowWriteKeepsInv

LEMMA ReadForUpdateKeepsInv ==
  ASSUME TenancyInv, NEW c \in Calls, ReadForUpdate(c)
  PROVE  TenancyInv'
<1>1. CASE Query(c, "updateRead", "refused")
  BY <1>1, ReadKeepsInv DEF Inserted, OrgStages, Stages
<1>. DEFINE i == input[c]
            row == Merged(i, workspace[i.id])
<1>2. CASE ~ Query(c, "updateRead", "refused")
  <2>1. /\ Step(c, "updateRead", IF i.slug = Unset THEN "updateWrite" ELSE "updateSlug")
        /\ Owned(i)
        /\ copy' = [copy EXCEPT ![c] = row]
        /\ UNCHANGED <<tenantTables, input, overtaken>>
    BY <1>2 DEF ReadForUpdate
  <2>2. i.op = "updateWorkspace" /\ i \in Requests /\ i.id \in Calls
    BY <2>1, InputOf, RequestParts DEF TenancyInv, StagesFit, Step
  <2>3. row \in WorkspaceRow /\ row.org = i.org /\ row # NoRow
    BY <2>1, <2>2, MergedRow, NoRowAssumption DEF TenancyInv, Types, TenancyTypeOK, Owned
  <2>. HIDE DEF row
  <2>. USE <2>1 DEF TenancyInv, Step, tenantTables
  <2>3a. Types'
    BY <2>3 DEF Types, TenancyTypeOK, Stages
  <2>4. StagesFit' /\ TablesFit'
    BY <2>2 DEF Types, TenancyTypeOK, StagesFit, TablesFit, OrgStages, Inserted
  <2>5. Founded' /\ Authority'
    BY DEF Types, TenancyTypeOK, Founded, Authority
  <2>6. Known'
    BY <2>3 DEF Types, TenancyTypeOK, Known, Owned, Merged, row
  <2>7. SlugsAreUnique'
    BY DEF SlugsAreUnique, WorkspaceTaken
  <2>. QED  BY <2>3a, <2>4, <2>5, <2>6, <2>7
<1>. QED  BY <1>1, <1>2

LEMMA UpdateWorkspaceKeepsInv ==
  ASSUME TenancyInv, NEW c \in Calls, UpdateWorkspace(c)
  PROVE  TenancyInv'
<1>1. CASE Query(c, "updateWrite", "failed")
  BY <1>1, ReadKeepsInv DEF Inserted, OrgStages, Stages
<1>2. CASE ~ Query(c, "updateWrite", "failed")
  <2>1. /\ Step(c, "updateWrite", "done")
        /\ ~ WorkspaceTaken(workspace[input[c].id].org, copy[c].slug, {input[c].id})
        /\ WriteWorkspace(input[c].id, copy[c])
    BY <1>2 DEF UpdateWorkspace
  <2>2. input[c].id \in Calls
    BY <2>1, InputOf, RequestParts DEF TenancyInv, StagesFit, Step
  <2>3. /\ copy[c] \in WorkspaceRow
        /\ workspace[input[c].id] # NoRow
        /\ copy[c].org = workspace[input[c].id].org
    BY <2>1 DEF TenancyInv, Types, TenancyTypeOK, Known, Owned, Step
  <2>. QED  BY <2>1, <2>2, <2>3, RowWriteKeepsInv
<1>. QED  BY <1>1, <1>2

LEMMA ArchiveWorkspaceKeepsInv ==
  ASSUME TenancyInv, NEW c \in Calls, ArchiveWorkspace(c)
  PROVE  TenancyInv'
<1>. DEFINE w == input[c].id
            row == [workspace[w] EXCEPT !.status = "archived"]
<1>1. Step(c, "deleteWrite", "done") /\ WriteWorkspace(w, row)
  BY DEF ArchiveWorkspace
<1>2. w \in Calls
  BY <1>1, InputOf, RequestParts DEF TenancyInv, StagesFit, Step
<1>3. workspace[w] # NoRow /\ workspace[w] \in WorkspaceRow
  BY <1>1, <1>2 DEF TenancyInv, Types, TenancyTypeOK, Known, Owned, Step
<1>4. /\ row \in WorkspaceRow
      /\ row.org = workspace[w].org
      /\ row.slug = workspace[w].slug
  BY <1>3 DEF WorkspaceRow, Statuses
<1>5. ~ WorkspaceTaken(row.org, row.slug, {w})
  BY <1>2, <1>3, <1>4 DEF TenancyInv, SlugsAreUnique, WorkspaceTaken
<1>. HIDE DEF row, w
<1>. QED  BY <1>1, <1>2, <1>3, <1>4, <1>5, RowWriteKeepsInv

LEMMA StepKeepsInv == TenancyInv /\ [TenancyNext]_tenancyVars => TenancyInv'
<1>. SUFFICES ASSUME TenancyInv, [TenancyNext]_tenancyVars PROVE TenancyInv'
  OBVIOUS
<1>1. CASE Backfill
  BY <1>1, BackfillKeepsInv
<1>2. CASE UNCHANGED tenancyVars
  <2>. USE <1>2 DEF tenancyVars, tenantTables, TenancyInv
  <2>1. Types' /\ StagesFit' /\ TablesFit' /\ Founded' /\ Authority'
    BY DEF Types, TenancyTypeOK, StagesFit, TablesFit, Founded, Authority
  <2>2. Known' /\ SlugsAreUnique'
    BY DEF Known, Owned, Merged, SlugsAreUnique, WorkspaceTaken
  <2>. QED  BY <2>1, <2>2
<1>3. ASSUME NEW c \in Calls, NEW i \in Inputs[c], Begin(c, i) PROVE TenancyInv'
  BY <1>3, BeginKeepsInv
<1>4. ASSUME NEW c \in Calls,
             \/ Fail(c) \/ CheckOrgSlug(c) \/ FindRole(c)
             \/ CheckWorkspaceOwner(c) \/ CheckWorkspaceSlug(c)
             \/ CheckNewSlug(c) \/ ReadForDelete(c) \/ CheckAppOwner(c) \/ CheckAppSlug(c)
      PROVE  TenancyInv'
  BY <1>4, ReadsKeepInv
<1>5. ASSUME NEW c \in Calls, AddMember(c) \/ AssignAdmin(c) \/ RevokeKey(c) PROVE TenancyInv'
  BY <1>5, AddMemberKeepsInv, AssignAdminKeepsInv, RevokeKeyKeepsInv
<1>6. ASSUME NEW c \in Calls, ReadForUpdate(c) \/ UpdateWorkspace(c) \/ ArchiveWorkspace(c)
      PROVE  TenancyInv'
  BY <1>6, ReadForUpdateKeepsInv, UpdateWorkspaceKeepsInv, ArchiveWorkspaceKeepsInv
<1>7. ASSUME NEW c \in Calls,
             InsertOrg(c) \/ InsertWorkspace(c) \/ InsertApp(c) \/ CreateKey(c)
      PROVE  TenancyInv'
  <2>1. CASE tpc'[c] = "failed"
    <3>1. PICK from \in {"orgInsert", "wsInsert", "appInsert", "createKey"} :
            Query(c, from, "failed")
      BY <1>7, <2>1 DEF InsertOrg, InsertWorkspace, InsertApp, CreateKey, Step, TenancyInv,
           Types, TenancyTypeOK
    <3>. QED  BY <3>1, ReadKeepsInv DEF Inserted, OrgStages, Stages
  <2>2. CASE tpc'[c] # "failed"
    BY <1>7, <2>2, InsertOrgKeepsInv, InsertWorkspaceKeepsInv, InsertAppKeepsInv,
       CreateKeyKeepsInv
       DEF InsertOrg, InsertWorkspace, InsertApp, CreateKey, Query, Step, TenancyInv, Types,
         TenancyTypeOK
  <2>. QED  BY <2>1, <2>2
<1>. QED  BY <1>1, <1>2, <1>3, <1>4, <1>5, <1>6, <1>7 DEF TenancyNext

THEOREM TenancyInvariant == TenancySpec => []TenancyInv
BY InitInv, StepKeepsInv, PTL DEF TenancySpec

----------------------------------------------------------------------------
\* Every variable keeps its type; a request in progress is one of Inputs.
THEOREM TenancyTypes == TenancySpec => []TenancyTypeOK
<1>1. TenancyInv => TenancyTypeOK
  BY DEF TenancyInv, Types
<1>. QED  BY <1>1, TenancyInvariant, PTL

\* Slugs are unique, however many calls check and insert at the same time: the
\* unique constraints of the tables do it, not the checks (create_org.go).
THEOREM SlugsStayUnique == TenancySpec => []SlugsAreUnique
<1>1. TenancyInv => SlugsAreUnique
  BY DEF TenancyInv
<1>. QED  BY <1>1, TenancyInvariant, PTL

\* An organization without an administrator is one whose creation is under way
\* or has failed between its three inserts (create_org.go).
THEOREM OrgsStayAdministered == TenancySpec => []OrgsAreAdministered
<1>1. TenancyInv => OrgsAreAdministered
  <2>. SUFFICES ASSUME TenancyInv, NEW o \in OrgIds, orgSlug[o] # NoRow
                PROVE  \/ \E u \in Tenants : <<o, u>> \in members /\ <<o, u>> \in admins
                       \/ o \in Calls /\ tpc[o] \in {"orgMember", "orgRole", "orgAssign", "failed"}
    BY DEF OrgsAreAdministered
  <2>1. CASE o = SeedOrg
    BY <2>1, TenancyAssumption DEF TenancyInv, Founded
  <2>2. CASE o \in Calls
    <3>1. tpc[o] \in Inserted /\ input[o].op = "createOrg"
      BY <2>2 DEF TenancyInv, TablesFit
    <3>2. CASE tpc[o] = "done"
      <4>1. input[o].user \in Tenants
        BY <2>2, <3>2, InputOf, RequestParts
      <4>. QED  BY <2>2, <3>1, <3>2, <4>1 DEF TenancyInv, Founded
    <3>. QED  BY <2>2, <3>1, <3>2 DEF Inserted
  <2>. QED  BY <2>1, <2>2 DEF OrgIds
<1>. QED  BY <1>1, TenancyInvariant, PTL

----------------------------------------------------------------------------
(***************************************************************************)
(* What a step does to a workspace.                                        *)
(***************************************************************************)
Writes(c) ==
  /\ tpc[c] \in {"wsInsert", "updateWrite", "deleteWrite"}
  /\ InsertWorkspace(c) \/ UpdateWorkspace(c) \/ ArchiveWorkspace(c)

LEMMA OnlyWritesWrite ==
  ASSUME [TenancyNext]_tenancyVars
  PROVE  UNCHANGED workspace \/ \E c \in Calls : Writes(c)
BY DEF TenancyNext, tenancyVars, tenantTables, Backfill, Begin, Fail, CheckOrgSlug, InsertOrg,
  AddMember, FindRole, AssignAdmin, CheckWorkspaceOwner, CheckWorkspaceSlug, InsertWorkspace,
  ReadForUpdate, CheckNewSlug, UpdateWorkspace, ReadForDelete, ArchiveWorkspace, CheckAppOwner,
  CheckAppSlug, InsertApp, CreateKey, RevokeKey, Query, Step, Writes

LEMMA UpdatesEndUpdates ==
  ASSUME TenancyInv, [TenancyNext]_tenancyVars, NEW c \in Calls,
         tpc[c] = "updateWrite", tpc'[c] = "done"
  PROVE  UpdateWorkspace(c)
<1>. USE DEF Query, Step
<1>. DEFINE Moves(d, to) ==
       /\ tpc' = [tpc EXCEPT ![d] = to]
       /\ UpdateWorkspace(d) \/ tpc[d] # "updateWrite" \/ to # "done"
<1>1. PICK d \in Calls, to \in Stages : Moves(d, to)
  <2>1. ASSUME NEW d \in Calls, NEW i \in Inputs[d], Begin(d, i)
        PROVE  \E to \in Stages : Moves(d, to)
    <3>1. i.op \in {"createOrg", "createApp", "createKey", "revokeKey", "createWorkspace",
                   "updateWorkspace", "deleteWorkspace"}
      BY <2>1, InputsAreRequests, RequestParts
    <3>. QED  BY <2>1, <3>1 DEF Begin, First, Stages
  <2>2. ~ Backfill /\ ~ UNCHANGED tenancyVars
    BY DEF Backfill, tenancyVars
  <2>3. ASSUME NEW d \in Calls,
               \/ CheckOrgSlug(d) \/ InsertOrg(d) \/ AddMember(d) \/ FindRole(d)
               \/ AssignAdmin(d) \/ Fail(d)
        PROVE  \E to \in Stages : Moves(d, to)
    BY <2>3 DEF Stages, CheckOrgSlug, InsertOrg, AddMember, FindRole, AssignAdmin, Fail
  <2>4. ASSUME NEW d \in Calls,
               \/ CheckWorkspaceOwner(d) \/ CheckWorkspaceSlug(d) \/ InsertWorkspace(d)
               \/ ReadForUpdate(d) \/ CheckNewSlug(d) \/ ReadForDelete(d) \/ ArchiveWorkspace(d)
        PROVE  \E to \in Stages : Moves(d, to)
    BY <2>4 DEF Stages, CheckWorkspaceOwner, CheckWorkspaceSlug, InsertWorkspace,
      ReadForUpdate, CheckNewSlug, ReadForDelete, ArchiveWorkspace
  <2>5. ASSUME NEW d \in Calls,
               \/ CheckAppOwner(d) \/ CheckAppSlug(d) \/ InsertApp(d)
               \/ CreateKey(d) \/ RevokeKey(d)
        PROVE  \E to \in Stages : Moves(d, to)
    BY <2>5 DEF Stages, CheckAppOwner, CheckAppSlug, InsertApp, CreateKey, RevokeKey
  <2>6. ASSUME NEW d \in Calls, UpdateWorkspace(d) PROVE \E to \in Stages : Moves(d, to)
    BY <2>6 DEF Stages, UpdateWorkspace
  <2>. HIDE DEF Moves
  <2>. QED  BY <2>1, <2>2, <2>3, <2>4, <2>5, <2>6 DEF TenancyNext
<1>2. d = c /\ to = "done"
  BY <1>1 DEF TenancyInv, Types, TenancyTypeOK
<1>. QED  BY <1>1, <1>2

\* The row a step writes: by a call of its organization, whose user is one of
\* the organization's administrators, and it does not leave the organization.
LEMMA WrittenRow ==
  ASSUME TenancyInv, NEW c \in Calls, Writes(c), NEW w \in Calls, workspace'[w] # workspace[w]
  PROVE  /\ tpc'[c] # tpc[c]
         /\ input[c].org = workspace'[w].org
         /\ <<workspace'[w].org, input[c].user>> \in admins
         /\ workspace[w] # NoRow => workspace[w].org = workspace'[w].org
<1>. DEFINE i == input[c]
<1>1. /\ i \in Requests
      /\ i.op \in {"createWorkspace", "updateWorkspace", "deleteWorkspace"}
      /\ <<i.org, i.user>> \in admins
  BY InputOf DEF TenancyInv, StagesFit, Authority, Writes
<1>2. tpc'[c] # tpc[c]
  BY DEF Writes, InsertWorkspace, UpdateWorkspace, ArchiveWorkspace, Query, Step, TenancyInv,
    Types, TenancyTypeOK
<1>3. CASE InsertWorkspace(c)
  <2>1. tpc[c] = "wsInsert" /\ workspace[c] = NoRow
    BY <1>3 DEF InsertWorkspace, Query, Step, TenancyInv, TablesFit
  <2>2. workspace' = [workspace EXCEPT ![c] =
          [org |-> i.org, slug |-> i.slug, name |-> i.name, status |-> "active"]]
    BY <1>3 DEF InsertWorkspace, Query, WriteWorkspace, tenantTables
  <2>. QED  BY <1>1, <1>2, <2>1, <2>2 DEF TenancyInv, Types, TenancyTypeOK
<1>4. CASE UpdateWorkspace(c)
  <2>1. tpc[c] = "updateWrite"
    BY <1>4 DEF UpdateWorkspace, Query, Step
  <2>2. workspace' = [workspace EXCEPT ![i.id] = copy[c]]
    BY <1>4 DEF UpdateWorkspace, Query, WriteWorkspace, tenantTables
  <2>3. i.op = "updateWorkspace" /\ i.id \in Calls
    BY <1>1, <2>1, RequestParts DEF TenancyInv, StagesFit
  <2>4. copy[c].org = i.org /\ workspace[i.id].org = i.org
    BY <2>1 DEF TenancyInv, Known, Owned
  <2>. QED  BY <1>1, <1>2, <2>2, <2>3, <2>4 DEF TenancyInv, Types, TenancyTypeOK
<1>5. CASE ArchiveWorkspace(c)
  <2>1. tpc[c] = "deleteWrite"
    BY <1>5 DEF ArchiveWorkspace, Step
  <2>2. workspace' = [workspace EXCEPT ![i.id] = [workspace[i.id] EXCEPT !.status = "archived"]]
    BY <1>5 DEF ArchiveWorkspace, WriteWorkspace
  <2>3. i.op = "deleteWorkspace" /\ i.id \in Calls
    BY <1>1, <2>1, RequestParts DEF TenancyInv, StagesFit
  <2>4. /\ workspace[i.id] # NoRow
        /\ workspace[i.id] \in WorkspaceRow
        /\ workspace[i.id].org = i.org
    BY <2>1, <2>3 DEF TenancyInv, Types, TenancyTypeOK, Known, Owned
  <2>5. [workspace[i.id] EXCEPT !.status = "archived"].org = i.org
    BY <2>4 DEF WorkspaceRow
  <2>. QED  BY <1>1, <1>2, <2>2, <2>3, <2>4, <2>5 DEF TenancyInv, Types, TenancyTypeOK
<1>. QED  BY <1>3, <1>4, <1>5 DEF Writes

\* A workspace is written by calls of administrators of the organization it is
\* in, and stays there (update_workspace.go, delete_workspace.go): no order of
\* the calls' steps lets one through that was checked for another organization.
THEOREM ChangesStayAuthorised == TenancySpec => ChangesAreAuthorised
<1>. DEFINE Change ==
       \A w \in Calls : workspace'[w] # workspace[w] =>
         \E c \in Calls :
           /\ tpc'[c] # tpc[c]
           /\ input[c].org = workspace'[w].org
           /\ <<workspace'[w].org, input[c].user>> \in admins
           /\ workspace[w] # NoRow => workspace[w].org = workspace'[w].org
<1>1. TenancyInv /\ [TenancyNext]_tenancyVars => [Change]_tenancyVars
  BY OnlyWritesWrite, WrittenRow
<1>. QED  BY <1>1, TenancyInvariant, PTL DEF TenancySpec, ChangesAreAuthorised

\* What an update does not name it leaves as it is, unless another call has
\* written the workspace between its read and its write (update_workspace.go).
THEOREM OnlyOverlapLoses == TenancySpec => OnlyOverlapLosesUpdates
<1>. DEFINE Keeps ==
       \A c \in Calls \ overtaken :
         /\ input[c] # NoInput
         /\ input[c].op = "updateWorkspace"
         /\ tpc[c] = "updateWrite"
         /\ tpc'[c] = "done"
         => LET i == input[c]
                old == workspace[i.id]
                new == workspace'[i.id]
            IN /\ i.slug = Unset => new.slug = old.slug
               /\ i.name = Unset => new.name = old.name
               /\ i.status = Unset => new.status = old.status
<1>1. TenancyInv /\ [TenancyNext]_tenancyVars => [Keeps]_tenancyVars
  <2>. SUFFICES ASSUME TenancyInv, [TenancyNext]_tenancyVars, NEW c \in Calls \ overtaken,
                       tpc[c] = "updateWrite", tpc'[c] = "done"
                PROVE  LET i == input[c]
                           old == workspace[i.id]
                           new == workspace'[i.id]
                       IN /\ i.slug = Unset => new.slug = old.slug
                          /\ i.name = Unset => new.name = old.name
                          /\ i.status = Unset => new.status = old.status
    OBVIOUS
  <2>1. UpdateWorkspace(c)
    BY UpdatesEndUpdates
  <2>2. workspace' = [workspace EXCEPT ![input[c].id] = copy[c]]
    BY <2>1 DEF UpdateWorkspace, Query, Step, WriteWorkspace, TenancyInv, Types, TenancyTypeOK
  <2>3. input[c].id \in Calls /\ copy[c] = Merged(input[c], workspace[input[c].id])
    BY InputOf, RequestParts DEF TenancyInv, StagesFit, Known
  <2>. QED  BY <2>2, <2>3 DEF Merged, TenancyInv, Types, TenancyTypeOK
<1>. QED  BY <1>1, TenancyInvariant, PTL DEF TenancySpec, OnlyOverlapLosesUpdates
=============================================================================
