---------------------------- MODULE RequestProofs ----------------------------
(***************************************************************************)
(* What is proved of the services that answer requests: who may change     *)
(* what, the gateway's tables, identities and keys, the provider of an     *)
(* organization, and what a workspace tells about its project.             *)
(***************************************************************************)
EXTENDS Access, Forwarding, Identity, OrgProvider, Studio, FiniteSetTheorems,
        WellFoundedInduction, TLAPS

----------------------------------------------------------------------------
(***************************************************************************)
(* Roles and routes.                                                       *)
(***************************************************************************)
Harmless == {"nothing", "own_keys", "own_organizations"}

\* What a route asks for and what it changes, unless that is harmless.
Charged(area, verb, changes) ==
  \/ area = "user" /\ verb = "write" /\ changes = "roles"
  \/ area = "app" /\ verb = "write" /\ changes = "apps"
  \/ area = "endpoint" /\ verb = "write" /\ changes = "endpoints"
  \/ area = "workspace" /\ verb = "write" /\ changes = "workspaces"
  \/ area = "llm" /\ verb = "write" /\ changes = "llm_settings"
  \/ area = "profile" /\ verb = "write" /\ changes = "profiles"
  \/ area = "answer" /\ verb = "write" /\ changes = "answers"
  \/ area = "generation" /\ verb = "run" /\ changes = "documents"
  \/ area = "document" /\ verb = "approve" /\ changes = "documents"

LEMMA RoutesAreCharged ==
  ASSUME NEW route \in Routes
  PROVE  \/ route.changes \in Harmless
         \/ Charged(route.needs[1], route.needs[2], route.changes)
<1>1. CASE route \in UserRoutes
  BY <1>1 DEF UserRoutes, Route, Harmless, Charged
<1>2. CASE route \in OrganizationRoutes
  BY <1>2 DEF OrganizationRoutes, Route, Harmless, Charged
<1>3. CASE route \in StudioRoutes
  BY <1>3 DEF StudioRoutes, Route, Harmless, Charged
<1>. QED  BY <1>1, <1>2, <1>3 DEF Routes

\* A role that opens a charged route has what the route changes among its duties.
LEMMA RolesOpenTheirDuties ==
  ASSUME NEW r \in Roles, NEW route \in Routes,
         Charged(route.needs[1], route.needs[2], route.changes),
         \E have \in RoleTemplates[r] : MatchesPermission(have, route.needs)
  PROVE  route.changes \in Duties(r)
<1>. PICK have \in RoleTemplates[r] : MatchesPermission(have, route.needs)
  OBVIOUS
<1>. DEFINE n == route.needs
            x == route.changes
<1>1. r \in {"admin", "org_admin", "app_admin", "developer", "viewer"}
  BY DEF Roles, RoleTemplates
<1>2. CASE r \in {"admin", "org_admin"}
  <2>1. x \in RouteAreas
    BY DEF RouteAreas, Charged
  <2>. QED  BY <1>2, <2>1 DEF Duties
<1>3. CASE r = "app_admin"
  <2>1. have \in {<<"app", "*">>, <<"endpoint", "*">>, <<"workspace", "read">>}
    BY <1>3 DEF RoleTemplates
  <2>2. n[1] \in {"app", "endpoint"}
    BY <2>1 DEF MatchesPermission, Charged, Anything, AnyRead
  <2>. QED  BY <1>3, <2>2 DEF Duties, Charged
<1>4. CASE r = "developer"
  <2>1. have \in Product \union Documents \union Generating
                   \union ({"endpoint"} \X {"read", "write"}) \union {<<"llm", "read">>}
    BY <1>4 DEF RoleTemplates
  <2>2. have[2] # "*" /\ have[1] # "*" /\ have = <<have[1], have[2]>>
    BY <2>1 DEF Product, Documents, Generating
  <2>3. have = n
    BY <2>2 DEF MatchesPermission, Anything, AnyRead
  <2>4. n[1] \notin {"user", "app"} /\ ~ (n[1] = "llm" /\ n[2] = "write")
    BY <2>1, <2>3 DEF Product, Documents, Generating
  <2>. QED  BY <1>4, <2>4 DEF Duties, Charged
<1>5. CASE r = "viewer"
  <2>1. have = AnyRead
    BY <1>5 DEF RoleTemplates
  <2>2. n[2] = "read"
    BY <2>1 DEF MatchesPermission, Anything, AnyRead
  <2>. QED  BY <2>2 DEF Charged
<1>. QED  BY <1>1, <1>2, <1>3, <1>4, <1>5

\* A request that has been let in still has the permission: roles are not lost.
AccessInv ==
  /\ AccessTypeOK
  /\ \A u \in Members : asked[u] # NoRoute => HasPermission(userRoles[u], asked[u])
  /\ RolesAreHonoured

LEMMA AccessStepKeepsInv == AccessInv /\ [AccessNext]_accessVars => AccessInv'
<1>. SUFFICES ASSUME AccessInv, [AccessNext]_accessVars PROVE AccessInv'
  OBVIOUS
<1>. USE AccessAssumption
<1>1. ASSUME NEW u \in Members, NEW route \in Routes, RequirePermission(u, route)
      PROVE  AccessInv'
  BY <1>1 DEF AccessInv, AccessTypeOK, RequirePermission, RolesAreHonoured, HasPermission
<1>2. ASSUME NEW u \in Members, ServeRoute(u) PROVE AccessInv'
  <2>. DEFINE route == asked[u]
  <2>1. route \in Routes /\ HasPermission(userRoles[u], route)
    BY <1>2 DEF ServeRoute, AccessInv, AccessTypeOK
  <2>2. route.changes \in RouteAreas \union {"nothing"}
    BY <2>1 DEF RouteAreas
  <2>3. AccessTypeOK'
    BY <1>2, <2>1, <2>2 DEF ServeRoute, AccessInv, AccessTypeOK
  <2>4. \/ route.changes \in Harmless
        \/ \E r \in userRoles[u] : route.changes \in Duties(r)
    <3>1. userRoles[u] \subseteq Roles
      BY DEF AccessInv, AccessTypeOK
    <3>2. CASE Charged(route.needs[1], route.needs[2], route.changes)
      <4>1. route.needs # Open
        BY <3>2 DEF Charged, Open
      <4>. QED  BY <2>1, <3>1, <3>2, <4>1, RolesOpenTheirDuties DEF HasPermission
    <3>. QED  BY <2>1, <3>2, RoutesAreCharged
  <2>5. RolesAreHonoured'
    BY <1>2, <2>4 DEF ServeRoute, AccessInv, AccessTypeOK, RolesAreHonoured, Harmless
  <2>6. \A v \in Members : asked'[v] # NoRoute => HasPermission(userRoles'[v], asked'[v])
    BY <1>2 DEF ServeRoute, AccessInv, AccessTypeOK
  <2>. QED  BY <2>3, <2>5, <2>6 DEF AccessInv
<1>3. ASSUME NEW u \in Members, RouteFails(u) PROVE AccessInv'
  BY <1>3 DEF AccessInv, AccessTypeOK, RouteFails, RolesAreHonoured
<1>4. ASSUME NEW u \in Members, NEW r \in Roles, GainRole(u, r) PROVE AccessInv'
  <2>1. \A v \in Members : userRoles[v] \subseteq userRoles'[v]
    BY <1>4 DEF GainRole, AccessInv, AccessTypeOK
  <2>2. AccessTypeOK'
    BY <1>4 DEF GainRole, AccessInv, AccessTypeOK
  <2>3. RolesAreHonoured'
    BY <1>4, <2>1 DEF GainRole, AccessInv, RolesAreHonoured
  <2>4. \A v \in Members : asked'[v] # NoRoute => HasPermission(userRoles'[v], asked'[v])
    BY <1>4, <2>1 DEF GainRole, AccessInv, HasPermission
  <2>. QED  BY <2>2, <2>3, <2>4 DEF AccessInv
<1>5. CASE UNCHANGED accessVars
  BY <1>5 DEF accessVars, AccessInv, AccessTypeOK, RolesAreHonoured
<1>. QED  BY <1>1, <1>2, <1>3, <1>4, <1>5 DEF AccessNext

THEOREM AccessInvariant == AccessSpec => []AccessInv
<1>1. AccessInit => AccessInv
  BY DEF AccessInit, AccessInv, AccessTypeOK, RolesAreHonoured
<1>. QED  BY <1>1, AccessStepKeepsInv, PTL DEF AccessSpec

\* Whatever a member has changed is his own or the business of one of his roles
\* (New of router.go, SeedRoles), for any members and roles, assigned at any time.
THEOREM RolesStayHonoured == AccessSpec => []RolesAreHonoured
<1>1. AccessInv => RolesAreHonoured
  BY DEF AccessInv
<1>. QED  BY <1>1, AccessInvariant, PTL

----------------------------------------------------------------------------
(***************************************************************************)
(* The gateway's tables.  A row and an answer belong to requests that have *)
(* begun; what a request brings stays, and once the masker is past, so     *)
(* does its body.                                                          *)
(***************************************************************************)
Masked(q) == At(q).masking /\ HasBody(q) /\ body[q].object => body[q].secret # "raw"

Begun(q) == fpc[q] # "idle"

RequestFits(q) ==
  /\ Begun(q) => forward[q] \in ForwardInputs
  /\ fpc[q] \in {"statement", "rows"} => forward[q].org # NoClaim
  /\ fpc[q] \in {"resolve", "statement", "rows"} \/ q \in sent => Masked(q)
  /\ q \in sent => fpc[q] = "answered"
  /\ given[q] # {} => fpc[q] = "answered"

RowFits(r) ==
  record[r] # NoRecord =>
    LET q == record[r].by IN
    /\ Begun(r) /\ Begun(q)
    /\ record[r].org = forward[r].org /\ record[r].app = forward[r].app
    /\ record[r].org = forward[q].org /\ record[r].app = forward[q].app
    /\ record[r].secret = "raw" => ~ At(q).masking

GivenFits ==
  \A q, r \in Forwards : r \in given[q] =>
    record[r] # NoRecord /\ record[r].org = forward[q].org /\ record[r].app = forward[q].app

ForwardInv ==
  /\ ForwardingTypeOK
  /\ \A q \in Forwards : RequestFits(q) /\ RowFits(q)
  /\ GivenFits

LEMMA InputFields ==
  ASSUME NEW i \in ForwardInputs
  PROVE  /\ i \in ForwardRequests /\ i.endpoint \in Endpoint
         /\ i.org \in Claimants \union {NoClaim} /\ i.app \in Consoles
         /\ i.id \in Forwards \union {NoId} /\ i.body \in Bodies \union {NoBody}
         /\ i.endpoint.method \in Methods /\ i.endpoint.masking \in BOOLEAN
BY ForwardAssumption DEF ForwardRequests, Endpoint

\* A step that moves a request and leaves the tables, its body and its answer.
LEMMA LeapKeepsInv ==
  ASSUME ForwardInv, NEW q \in Forwards, NEW from \in ForwardStages, NEW to \in ForwardStages,
         Leap(q, from, to),
         from \notin {"idle", "answered", "refused"}, to # "idle",
         to \in {"resolve", "statement", "rows"} => Masked(q),
         to \in {"statement", "rows"} => forward[q].org # NoClaim
  PROVE  ForwardInv'
<1>. USE DEF Leap, Hop
<1>1. ForwardingTypeOK'
  BY DEF ForwardInv, ForwardingTypeOK
<1>2. \A p \in Forwards : fpc'[p] = IF p = q THEN to ELSE fpc[p]
  BY DEF ForwardInv, ForwardingTypeOK
<1>3. ASSUME NEW p \in Forwards PROVE RequestFits(p)'
  BY <1>2 DEF ForwardInv, ForwardingTypeOK, RequestFits, Begun, Masked, HasBody, At
<1>4. ASSUME NEW p \in Forwards PROVE RowFits(p)'
  <2>1. record[p] # NoRecord => record[p].by \in Forwards
    BY DEF ForwardInv, ForwardingTypeOK, Record
  <2>. QED  BY <1>2, <2>1 DEF ForwardInv, RowFits, Begun, At
<1>5. GivenFits'
  BY DEF ForwardInv, GivenFits
<1>. QED  BY <1>1, <1>3, <1>4, <1>5 DEF ForwardInv

\* The last step of a statement that has found or written the row r.
LEMMA AnswerKeepsInv ==
  ASSUME ForwardInv, NEW q \in Forwards, NEW r \in Forwards, NEW fields,
         Hop(q, "statement", "answered"),
         r # q => record[r] # NoRecord,
         record[r] # NoRecord =>
           record[r].org = forward[q].org /\ record[r].app = forward[q].app,
         fields \in Record, fields.org = forward[q].org, fields.app = forward[q].app,
         fields.by \in {q} \union (IF record[r] = NoRecord THEN {} ELSE {record[r].by}),
         fields.by = q /\ fields.secret = "raw" => ~ At(q).masking,
         fields.by # q => fields.secret = record[r].secret,
         record' = [record EXCEPT ![r] = fields],
         given' = given \/ (\E page \in SUBSET {r} : given' = [given EXCEPT ![q] = page]),
         UNCHANGED <<forward, body, sent>>
  PROVE  ForwardInv'
<1>. USE NoRecordAssumption DEF Hop
<1>1. ForwardingTypeOK'
  BY DEF ForwardInv, ForwardingTypeOK, ForwardStages
<1>2. \A p \in Forwards : fpc'[p] = IF p = q THEN "answered" ELSE fpc[p]
  BY DEF ForwardInv, ForwardingTypeOK
<1>6. \A p \in Forwards : given'[p] = given[p] \/ (p = q /\ given'[p] \subseteq {r})
  BY DEF ForwardInv, ForwardingTypeOK
<1>3. ASSUME NEW p \in Forwards PROVE RequestFits(p)'
  BY <1>2, <1>6 DEF ForwardInv, RequestFits, Begun, Masked, HasBody, At
<1>4. ASSUME NEW p \in Forwards PROVE RowFits(p)'
  <2>1. CASE p # r
    <3>1. record'[p] = record[p]
      BY <2>1 DEF ForwardInv, ForwardingTypeOK
    <3>2. record[p] # NoRecord => record[p].by \in Forwards
      BY DEF ForwardInv, ForwardingTypeOK, Record
    <3>. QED  BY <1>2, <3>1, <3>2 DEF ForwardInv, RowFits, Begun, At
  <2>2. CASE p = r
    <3>1. record'[p] = fields
      BY <2>2 DEF ForwardInv, ForwardingTypeOK
    <3>2. record[r] # NoRecord => record[r].by \in Forwards
      BY DEF ForwardInv, ForwardingTypeOK, Record
    <3>3. /\ Begun(r)' /\ Begun(q)'
          /\ record[r] # NoRecord => Begun(record[r].by)'
      BY <1>2, <3>2 DEF ForwardInv, RowFits, Begun
    <3>4. forward[r].org = fields.org /\ forward[r].app = fields.app
      BY <3>2 DEF ForwardInv, RowFits
    <3>5. CASE fields.by = q
      BY <2>2, <3>1, <3>3, <3>4, <3>5 DEF RowFits, At
    <3>6. CASE fields.by # q
      BY <2>2, <3>1, <3>2, <3>3, <3>4, <3>6 DEF ForwardInv, RowFits, At
    <3>. QED  BY <3>5, <3>6
  <2>. QED  BY <2>1, <2>2
<1>5. GivenFits'
  <2>1. ASSUME NEW p \in Forwards, NEW s \in Forwards, s \in given'[p]
        PROVE  record'[s] # NoRecord /\ record'[s].org = forward[p].org
                 /\ record'[s].app = forward[p].app
    <3>1. record'[s] = IF s = r THEN fields ELSE record[s]
      BY DEF ForwardInv, ForwardingTypeOK
    <3>2. CASE s \in given[p]
      BY <2>1, <3>1, <3>2 DEF ForwardInv, GivenFits
    <3>3. CASE p = q /\ s = r
      BY <3>1, <3>3
    <3>. QED  BY <1>6, <2>1, <3>2, <3>3
  <2>. QED  BY <2>1 DEF GivenFits
<1>. QED  BY <1>1, <1>3, <1>4, <1>5 DEF ForwardInv

LEMMA WrittenFieldsAreMasked ==
  ASSUME ForwardInv, NEW q \in Forwards, fpc[q] = "statement"
  PROVE  /\ FieldsWritten(q) \in {"absent", "raw", "masked"}
         /\ FieldsWritten(q) = "raw" => ~ At(q).masking
         /\ forward[q] \in ForwardInputs /\ forward[q].org \in Claimants
         /\ forward[q].app \in Consoles
<1>1. forward[q] \in ForwardInputs /\ forward[q].org # NoClaim /\ Masked(q)
  BY DEF ForwardInv, RequestFits, Begun
<1>2. body[q] \in Bodies \union {NoBody}
  BY DEF ForwardInv, ForwardingTypeOK
<1>3. At(q).method \in Methods /\ At(q).masking \in BOOLEAN
  BY <1>1, InputFields DEF At
<1>4. FieldsWritten(q) \in {"absent", "raw", "masked"}
  BY <1>2 DEF FieldsWritten, Bodies
<1>5. FieldsWritten(q) = "raw" => ~ At(q).masking
  BY <1>1, <1>3 DEF FieldsWritten, Masked, HasBody, Methods
<1>. QED  BY <1>1, <1>4, <1>5, InputFields

LEMMA StatementKeepsInv ==
  ASSUME ForwardInv, NEW q \in Forwards,
         HandleCreate(q) \/ HandleUpdate(q) \/ HandleDelete(q) \/ HandleGet(q)
  PROVE  ForwardInv'
<1>. USE NoRecordAssumption
<1>1. fpc[q] = "statement" /\ Hop(q, "statement", "answered")
  BY DEF HandleCreate, HandleUpdate, HandleDelete, HandleGet, Hop
<1>2. /\ FieldsWritten(q) \in {"absent", "raw", "masked"}
      /\ FieldsWritten(q) = "raw" => ~ At(q).masking
      /\ forward[q] \in ForwardInputs /\ forward[q].org \in Claimants
      /\ forward[q].app \in Consoles
  BY <1>1, WrittenFieldsAreMasked
<1>3. record[q] # NoRecord =>
        record[q].org = forward[q].org /\ record[q].app = forward[q].app
  BY DEF ForwardInv, RowFits
<1>4. CASE HandleCreate(q)
  <2>. DEFINE fields == [org |-> forward[q].org, app |-> forward[q].app,
                         secret |-> FieldsWritten(q), by |-> q, live |-> TRUE]
  <2>1. /\ fields \in Record /\ fields.org = forward[q].org /\ fields.app = forward[q].app
        /\ fields.by = q /\ fields.secret = FieldsWritten(q)
    BY <1>2 DEF Record
  <2>2. /\ record' = [record EXCEPT ![q] = fields] /\ given' = [given EXCEPT ![q] = {q}]
        /\ UNCHANGED <<forward, body, sent>>
    BY <1>4 DEF HandleCreate
  <2>. HIDE DEF fields
  <2>. QED  BY <1>1, <1>2, <1>3, <2>1, <2>2, AnswerKeepsInv
<1>5. ASSUME ~ HandleCreate(q) PROVE ForwardInv'
  <2>. DEFINE r == forward[q].id
  <2>1. /\ r \in Forwards /\ record[r] # NoRecord
        /\ record[r].org = forward[q].org /\ record[r].app = forward[q].app
    BY <1>2, <1>5, InputFields DEF HandleUpdate, HandleDelete, HandleGet, Found, Mine
  <2>2. record[r] \in Record
    BY <2>1 DEF ForwardInv, ForwardingTypeOK
  <2>. HIDE DEF r
  <2>3. CASE HandleUpdate(q)
    <3>. DEFINE fields == IF FieldsWritten(q) = "absent" THEN record[r]
                          ELSE [record[r] EXCEPT !.secret = FieldsWritten(q), !.by = q]
    <3>1. /\ fields \in Record /\ fields.org = forward[q].org /\ fields.app = forward[q].app
          /\ fields.by \in {q, record[r].by}
          /\ fields.by # q => fields.secret = record[r].secret
      BY <1>2, <2>1, <2>2 DEF Record
    <3>2. fields.by = q /\ fields.secret = "raw" => ~ At(q).masking
      BY <1>2, <2>1, <2>2 DEF Record, ForwardInv, RowFits
    <3>3. /\ record' = [record EXCEPT ![r] = fields] /\ given' = [given EXCEPT ![q] = {r}]
          /\ UNCHANGED <<forward, body, sent>>
      BY <2>3 DEF HandleUpdate, r
    <3>. HIDE DEF fields
    <3>. QED  BY <1>1, <2>1, <3>1, <3>2, <3>3, AnswerKeepsInv
  <2>4. CASE HandleDelete(q)
    <3>. DEFINE fields == [record[r] EXCEPT !.live = FALSE]
    <3>1. /\ fields \in Record /\ fields.org = forward[q].org /\ fields.app = forward[q].app
          /\ fields.by = record[r].by /\ fields.secret = record[r].secret
      BY <2>1, <2>2 DEF Record
    <3>2. fields.by = q /\ fields.secret = "raw" => ~ At(q).masking
      BY <2>1, <3>1 DEF ForwardInv, RowFits
    <3>3. /\ record' = [record EXCEPT ![r] = fields] /\ given' = given
          /\ UNCHANGED <<forward, body, sent>>
      BY <2>4 DEF HandleDelete, r
    <3>. HIDE DEF fields
    <3>. QED  BY <1>1, <2>1, <3>1, <3>2, <3>3, AnswerKeepsInv
  <2>5. CASE HandleGet(q)
    <3>. DEFINE fields == record[r]
    <3>1. /\ fields \in Record /\ fields.org = forward[q].org /\ fields.app = forward[q].app
          /\ fields.by = record[r].by /\ fields.secret = record[r].secret
      BY <2>1, <2>2 DEF Record
    <3>2. fields.by = q /\ fields.secret = "raw" => ~ At(q).masking
      BY <2>1, <3>1 DEF ForwardInv, RowFits
    <3>3. /\ record' = [record EXCEPT ![r] = fields] /\ given' = [given EXCEPT ![q] = {r}]
          /\ UNCHANGED <<forward, body, sent>>
      BY <2>1, <2>5 DEF HandleGet, r, ForwardInv, ForwardingTypeOK
    <3>. HIDE DEF fields
    <3>. QED  BY <1>1, <2>1, <3>1, <3>2, <3>3, AnswerKeepsInv
  <2>. QED  BY <1>5, <2>3, <2>4, <2>5
<1>. QED  BY <1>4, <1>5

LEMMA ForwardStepKeepsInv == ForwardInv /\ [ForwardingNext]_forwardVars => ForwardInv'
<1>. SUFFICES ASSUME ForwardInv, [ForwardingNext]_forwardVars PROVE ForwardInv'
  OBVIOUS
<1>. USE ForwardAssumption, NoRecordAssumption
<1>1. ASSUME NEW q \in Forwards, NEW i \in ForwardInputs, LetThrough(q, i) PROVE ForwardInv'
  <2>. USE <1>1, InputFields DEF LetThrough, Hop
  <2>1. ForwardingTypeOK'
    BY DEF ForwardInv, ForwardingTypeOK, ForwardStages
  <2>2. \A p \in Forwards :
          /\ fpc'[p] = IF p = q THEN "schema" ELSE fpc[p]
          /\ p # q => forward'[p] = forward[p] /\ body'[p] = body[p]
    BY DEF ForwardInv, ForwardingTypeOK
  <2>3. forward'[q] = i
    BY DEF ForwardInv, ForwardingTypeOK
  <2>4. ASSUME NEW p \in Forwards PROVE RequestFits(p)'
    BY <2>2, <2>3 DEF ForwardInv, RequestFits, Begun, Masked, HasBody, At
  <2>5. ASSUME NEW p \in Forwards PROVE RowFits(p)'
    <3>1. record[p] # NoRecord => record[p].by \in Forwards /\ record[p].by # q /\ p # q
      BY DEF ForwardInv, ForwardingTypeOK, Record, RowFits, Begun
    <3>. QED  BY <2>2, <3>1 DEF ForwardInv, RowFits, Begun, At
  <2>6. GivenFits'
    BY <2>2 DEF ForwardInv, GivenFits, RequestFits
  <2>. QED  BY <2>1, <2>4, <2>5, <2>6 DEF ForwardInv
<1>2. ASSUME NEW q \in Forwards, Trip(q) PROVE ForwardInv'
  BY <1>2, LeapKeepsInv DEF Trip, ForwardStages
<1>3. ASSUME NEW q \in Forwards, ValidateSchema(q) PROVE ForwardInv'
  <2>1. Leap(q, "schema", "refused") \/ Leap(q, "schema", "mask")
    BY <1>3 DEF ValidateSchema
  <2>. QED  BY <2>1, LeapKeepsInv DEF ForwardStages
<1>4. ASSUME NEW q \in Forwards, Mask(q) PROVE ForwardInv'
  <2>. USE <1>4 DEF Mask, Hop
  <2>1. body[q] \in Bodies \union {NoBody} /\ body'[q] \in Bodies \union {NoBody}
    <3>1. ASSUME NEW b \in Bodies PROVE MaskBody(b) \in Bodies
      BY DEF MaskBody, Bodies
    <3>2. body[q] \in Bodies \union {NoBody}
      BY DEF ForwardInv, ForwardingTypeOK
    <3>3. body'[q] = body[q] \/ (body'[q] = MaskBody(body[q]) /\ body[q] # NoBody)
      BY DEF ForwardInv, ForwardingTypeOK, HasBody
    <3>. QED  BY <3>1, <3>2, <3>3
  <2>2. \A p \in Forwards :
          /\ fpc'[p] = IF p = q THEN "resolve" ELSE fpc[p]
          /\ p # q => body'[p] = body[p]
    BY DEF ForwardInv, ForwardingTypeOK
  <2>3. ForwardingTypeOK'
    BY <2>1 DEF ForwardInv, ForwardingTypeOK, ForwardStages
  <2>4. Masked(q)'
    <3>1. CASE At(q).masking /\ HasBody(q)
      <4>1. body'[q] = MaskBody(body[q]) /\ body[q] \in Bodies
        BY <2>1, <3>1 DEF ForwardInv, ForwardingTypeOK, HasBody
      <4>. QED  BY <4>1 DEF MaskBody, Masked, Bodies
    <3>2. CASE ~ (At(q).masking /\ HasBody(q))
      BY <3>2 DEF ForwardInv, ForwardingTypeOK, Masked, HasBody, At
    <3>. QED  BY <3>1, <3>2
  <2>5. ASSUME NEW p \in Forwards PROVE RequestFits(p)'
    BY <2>2, <2>4 DEF ForwardInv, RequestFits, Begun, Masked, HasBody, At
  <2>6. ASSUME NEW p \in Forwards PROVE RowFits(p)'
    <3>1. record[p] # NoRecord => record[p].by \in Forwards
      BY DEF ForwardInv, ForwardingTypeOK, Record
    <3>. QED  BY <2>2, <3>1 DEF ForwardInv, RowFits, Begun, At
  <2>7. GivenFits'
    BY DEF ForwardInv, GivenFits
  <2>. QED  BY <2>3, <2>5, <2>6, <2>7 DEF ForwardInv
<1>5. ASSUME NEW q \in Forwards, PassOn(q) PROVE ForwardInv'
  <2>. USE <1>5 DEF PassOn, Hop
  <2>1. ForwardingTypeOK'
    BY DEF ForwardInv, ForwardingTypeOK, ForwardStages
  <2>2. \A p \in Forwards : fpc'[p] = IF p = q THEN "answered" ELSE fpc[p]
    BY DEF ForwardInv, ForwardingTypeOK
  <2>3. ASSUME NEW p \in Forwards PROVE RequestFits(p)'
    BY <2>2 DEF ForwardInv, RequestFits, Begun, Masked, HasBody, At
  <2>4. ASSUME NEW p \in Forwards PROVE RowFits(p)'
    <3>1. record[p] # NoRecord => record[p].by \in Forwards
      BY DEF ForwardInv, ForwardingTypeOK, Record
    <3>. QED  BY <2>2, <3>1 DEF ForwardInv, RowFits, Begun, At
  <2>5. GivenFits'
    BY DEF ForwardInv, GivenFits
  <2>. QED  BY <2>1, <2>3, <2>4, <2>5 DEF ForwardInv
<1>6. ASSUME NEW q \in Forwards, HandleGeneric(q) PROVE ForwardInv'
  <2>1. Masked(q)
    BY <1>6 DEF HandleGeneric, Leap, Hop, ForwardInv, RequestFits
  <2>2. \/ Leap(q, "resolve", "refused")
        \/ Leap(q, "resolve", "statement") /\ forward[q].org # NoClaim
    BY <1>6 DEF HandleGeneric
  <2>. QED  BY <2>1, <2>2, LeapKeepsInv DEF ForwardStages
<1>7. ASSUME NEW q \in Forwards,
             HandleCreate(q) \/ HandleUpdate(q) \/ HandleDelete(q) \/ HandleGet(q)
      PROVE  ForwardInv'
  BY <1>7, StatementKeepsInv
<1>8. ASSUME NEW q \in Forwards, HandleList(q) PROVE ForwardInv'
  <2>1. CASE Leap(q, "statement", "rows")
    <3>1. Masked(q) /\ forward[q].org # NoClaim
      BY <2>1 DEF Leap, Hop, ForwardInv, RequestFits
    <3>. QED  BY <2>1, <3>1, LeapKeepsInv DEF ForwardStages
  <2>2. ASSUME NEW page \in SUBSET {r \in Forwards : Mine(q, r)},
               Hop(q, "rows", "answered"), given' = [given EXCEPT ![q] = page],
               UNCHANGED <<record, forward, body, sent>>
        PROVE  ForwardInv'
    <3>. USE <2>2 DEF Hop
    <3>1. ForwardingTypeOK'
      BY DEF ForwardInv, ForwardingTypeOK, ForwardStages
    <3>2. \A p \in Forwards :
            /\ fpc'[p] = IF p = q THEN "answered" ELSE fpc[p]
            /\ given'[p] = IF p = q THEN page ELSE given[p]
      BY DEF ForwardInv, ForwardingTypeOK
    <3>3. ASSUME NEW p \in Forwards PROVE RequestFits(p)'
      BY <3>2 DEF ForwardInv, RequestFits, Begun, Masked, HasBody, At
    <3>4. ASSUME NEW p \in Forwards PROVE RowFits(p)'
      <4>1. record[p] # NoRecord => record[p].by \in Forwards
        BY DEF ForwardInv, ForwardingTypeOK, Record
      <4>. QED  BY <3>2, <4>1 DEF ForwardInv, RowFits, Begun, At
    <3>5. GivenFits'
      BY <3>2 DEF ForwardInv, GivenFits, Mine
    <3>. QED  BY <3>1, <3>3, <3>4, <3>5 DEF ForwardInv
  <2>. QED  BY <1>8, <2>1, <2>2 DEF HandleList
<1>9. CASE UNCHANGED forwardVars
  <2>. USE <1>9 DEF forwardVars
  <2>1. ForwardingTypeOK' /\ GivenFits'
    BY DEF ForwardInv, ForwardingTypeOK, GivenFits
  <2>2. \A p \in Forwards : RequestFits(p)' /\ RowFits(p)'
    BY DEF ForwardInv, RequestFits, RowFits, Begun, Masked, HasBody, At
  <2>. QED  BY <2>1, <2>2 DEF ForwardInv
<1>. QED  BY <1>1, <1>2, <1>3, <1>4, <1>5, <1>6, <1>7, <1>8, <1>9 DEF ForwardingNext

THEOREM ForwardingInvariant == ForwardingSpec => []ForwardInv
<1>1. ForwardingInit => ForwardInv
  BY NoRecordAssumption DEF ForwardingInit, ForwardInv, ForwardingTypeOK, ForwardStages,
    RequestFits, RowFits, Begun, GivenFits
<1>. QED  BY <1>1, ForwardStepKeepsInv, PTL DEF ForwardingSpec

\* A row stays in the organization and app it was inserted for, and only
\* requests of both read or change it, for any requests and any ids they name.
THEOREM RowsStayHome == ForwardingSpec => []RowsStayInTheirApp
<1>1. ForwardInv => RowsStayInTheirApp
  BY DEF ForwardInv, GivenFits, RowFits, RowsStayInTheirApp
<1>. QED  BY <1>1, ForwardingInvariant, PTL

\* No unmasked field of an endpoint that masks reaches a row or a service.
THEOREM MasksHold == ForwardingSpec => []MaskingHolds
<1>1. ForwardInv => MaskingHolds
  BY DEF ForwardInv, ForwardingTypeOK, RowFits, RequestFits, Masked, MaskingHolds
<1>. QED  BY <1>1, ForwardingInvariant, PTL

----------------------------------------------------------------------------
(***************************************************************************)
(* Identities.  A user is registered once, by a request that found the     *)
(* e-mail free as it inserted the row.                                     *)
(***************************************************************************)
OpOf(v) == visit[v].op

StageFits(v) ==
  /\ vpc[v] # "idle" => visit[v] \in VisitInputs[v]
  /\ vpc[v] \in {"emailCheck", "userInsert"} => OpOf(v) = "register"
  /\ vpc[v] = "findUser" => OpOf(v) = "login"
  /\ vpc[v] = "keyInsert" => OpOf(v) = "createKey" /\ ScopesAccepted(visit[v].scopes)
  /\ vpc[v] \in {"keyRead", "keyRevoke"} => OpOf(v) = "revokeKey"
  /\ vpc[v] = "keyRevoke" => visit[v].key \in keys
  /\ vpc[v] \in {"byHash", "owner", "member", "tool"} => OpOf(v) = "tool"
  /\ vpc[v] \in {"byHash", "owner"} => visit[v].key \in Visits

KeyFits(k) ==
  k \in keys =>
    /\ vpc[k] # "idle" /\ OpOf(k) = "createKey"
    /\ ScopesAccepted(visit[k].scopes)
    /\ scopes[k] = NormalizeUserAPIKeyScopes(visit[k].scopes)

\* What is established of a tool call's key from the stage it has reached.
CallFits(v) ==
  /\ v \in touching => vpc[v] # "idle" /\ visit[v].key \in keys
  /\ v \in late => vpc[v] # "idle" /\ OpOf(v) = "tool" /\ Dead(visit[v].key)
  /\ vpc[v] \in {"owner", "member", "tool", "ok"} /\ OpOf(v) = "tool" /\ visit[v].key # NoKey =>
       visit[v].key \in keys /\ v \notin late
  /\ vpc[v] \in {"tool", "ok"} /\ OpOf(v) = "tool" =>
       visit[v].org = NoOrg \/ <<visit[v].org, Claimed(v)>> \in Membership
  /\ vpc[v] = "ok" /\ OpOf(v) = "tool" => ToolScopeAllowed(v) /\ WorkspaceResolved(v)

IdentityInv ==
  /\ IdentityTypeOK
  /\ DOMAIN visit = Visits
  /\ EmailsAreUnique
  /\ \A p \in Visits : email[p] # NoUser => vpc[p] = "ok"
  /\ \A v \in Visits : StageFits(v) /\ KeyFits(v) /\ CallFits(v)

LEMMA VisitFields ==
  ASSUME NEW v \in Visits, NEW i \in VisitInputs[v]
  PROVE  /\ i # NoVisit
         /\ i.op \in {"register", "login", "createKey", "revokeKey", "tool"}
         /\ i.op \in {"register", "login"} => i.email \in Emails
         /\ i.op = "createKey" => i.user \in People
         /\ i.op = "revokeKey" => i.user \in People /\ i.key \in Visits
         /\ i.op = "tool" => i.key \in Visits \union {NoKey}
<1>1. i \in VisitRequests /\ i # NoVisit
  BY IdentityAssumption
<1>2. CASE i \in AccountRequests
  BY <1>1, <1>2 DEF AccountRequests
<1>3. CASE i \in KeyRouteRequests
  BY <1>1, <1>3 DEF KeyRouteRequests
<1>4. CASE i \in ToolRequests
  BY <1>1, <1>4 DEF ToolRequests
<1>. QED  BY <1>1, <1>2, <1>3, <1>4 DEF VisitRequests

\* A step that changes nothing but a stage.
LEMMA InspectKeepsInv ==
  ASSUME IdentityInv, NEW v \in Visits, NEW from \in VisitStages, NEW to \in VisitStages,
         Inspect(v, from, to), from \notin {"idle", "ok"}, to # "idle",
         (to = "userInsert" /\ from = "emailCheck")
           \/ (to = "keyRevoke" /\ from = "keyRead" /\ visit[v].key \in keys)
           \/ (to = "owner" /\ from = "byHash" /\ visit[v].key \in keys /\ v \notin late)
           \/ (to = "tool" /\ from = "member"
                 /\ (visit[v].org = NoOrg \/ <<visit[v].org, Claimed(v)>> \in Membership))
           \/ (to = "ok" /\ from = "tool" /\ ToolScopeAllowed(v) /\ WorkspaceResolved(v))
           \/ to = "refused"
  PROVE  IdentityInv'
<1>. USE DEF Inspect, Pass, accountVars, keyVars, visitVars
<1>1. IdentityTypeOK' /\ EmailsAreUnique' /\ DOMAIN visit' = Visits
  BY DEF IdentityInv, IdentityTypeOK, EmailsAreUnique
<1>2. \A w \in Visits : vpc'[w] = IF w = v THEN to ELSE vpc[w]
  BY DEF IdentityInv, IdentityTypeOK
<1>3. \A p \in Visits : email'[p] # NoUser => vpc'[p] = "ok"
  BY <1>2 DEF IdentityInv
<1>4. ASSUME NEW w \in Visits PROVE StageFits(w)'
  BY <1>2 DEF IdentityInv, StageFits, OpOf
<1>5. ASSUME NEW w \in Visits PROVE KeyFits(w)'
  BY <1>2 DEF IdentityInv, KeyFits, OpOf
<1>6. ASSUME NEW w \in Visits PROVE CallFits(w)'
  BY <1>2 DEF IdentityInv, CallFits, OpOf, Dead, Claimed, OwnerOf, ToolScopeAllowed,
    WorkspaceResolved
<1>. QED  BY <1>1, <1>3, <1>4, <1>5, <1>6 DEF IdentityInv

LEMMA ArriveKeepsInv ==
  ASSUME IdentityInv, NEW v \in Visits, NEW i \in VisitInputs[v], Arrive(v, i)
  PROVE  IdentityInv'
<1>. USE IdentityAssumption, VisitFields DEF Arrive, Pass, accountVars, keyVars
<1>1. FirstStage(i) \in VisitStages \ {"idle", "owner", "tool", "ok"}
  BY DEF FirstStage, VisitStages
<1>9. /\ i.op = "register" => FirstStage(i) = "emailCheck"
      /\ i.op = "login" => FirstStage(i) = "findUser"
      /\ i.op = "createKey" =>
           \/ FirstStage(i) = "keyInsert" /\ ScopesAccepted(i.scopes)
           \/ FirstStage(i) = "refused"
      /\ i.op = "revokeKey" => FirstStage(i) \in {"keyRead", "refused"}
      /\ i.op = "tool" /\ i.key # NoKey => FirstStage(i) = "byHash"
      /\ i.op = "tool" /\ i.key = NoKey => FirstStage(i) \in {"member", "refused"}
  <2>. HIDE DEF Arrive
  <2>. QED  BY DEF FirstStage
<1>2. \A w \in Visits :
        /\ vpc'[w] = IF w = v THEN FirstStage(i) ELSE vpc[w]
        /\ visit'[w] = IF w = v THEN i ELSE visit[w]
  BY DEF IdentityInv, IdentityTypeOK
<1>3. IdentityTypeOK' /\ EmailsAreUnique' /\ DOMAIN visit' = Visits
  BY <1>1, <1>2 DEF IdentityInv, IdentityTypeOK, EmailsAreUnique
<1>4. vpc[v] = "idle" /\ v \notin keys /\ v \notin late /\ v \notin touching
  BY DEF IdentityInv, KeyFits, CallFits
<1>5. \A p \in Visits : email'[p] # NoUser => vpc'[p] = "ok"
  BY <1>2, <1>4 DEF IdentityInv
<1>6. ASSUME NEW w \in Visits PROVE StageFits(w)'
  <2>1. CASE w = v
    <3>1. vpc'[v] = FirstStage(i) /\ visit'[v] = i
      BY <1>2
    <3>2. /\ FirstStage(i) \in {"emailCheck", "userInsert"} => i.op = "register"
          /\ FirstStage(i) = "findUser" => i.op = "login"
          /\ FirstStage(i) = "keyInsert" => i.op = "createKey" /\ ScopesAccepted(i.scopes)
          /\ FirstStage(i) \in {"keyRead", "keyRevoke"} => i.op = "revokeKey"
          /\ FirstStage(i) # "keyRevoke"
          /\ FirstStage(i) \in {"byHash", "owner", "member", "tool"} => i.op = "tool"
          /\ FirstStage(i) \in {"byHash", "owner"} => i.key \in Visits
      BY <1>9
    <3>. QED  BY <2>1, <3>1, <3>2 DEF StageFits, OpOf
  <2>2. CASE w # v
    BY <1>2, <2>2 DEF IdentityInv, StageFits, OpOf
  <2>. QED  BY <2>1, <2>2
<1>7. ASSUME NEW w \in Visits PROVE KeyFits(w)'
  BY <1>2, <1>4 DEF IdentityInv, KeyFits, OpOf
<1>8. ASSUME NEW w \in Visits PROVE CallFits(w)'
  <2>1. CASE w = v
    <3>1. vpc'[v] = FirstStage(i) /\ visit'[v] = i /\ FirstStage(i) \notin {"idle", "owner", "tool", "ok"}
      BY <1>1, <1>2
    <3>2. v \in late' => i.op = "tool" /\ Dead(i.key)'
      BY <1>4 DEF Dead
    <3>3. FirstStage(i) = "member" /\ i.op = "tool" => i.key = NoKey
      BY DEF FirstStage
    <3>. QED  BY <1>4, <2>1, <3>1, <3>2, <3>3 DEF CallFits, OpOf
  <2>2. CASE w # v
    <3>1. w \in late' <=> w \in late
      BY <2>2
    <3>2. \A k \in keys : k # v /\ visit'[k] = visit[k]
      BY <1>2, <1>4 DEF IdentityInv, IdentityTypeOK
    <3>3. keys \subseteq Visits
      BY DEF IdentityInv, IdentityTypeOK
    <3>4. vpc'[w] = vpc[w] /\ visit'[w] = visit[w] /\ UNCHANGED <<touching, keys, scopes, revoked, expired>>
      BY <1>2, <2>2
    <3>5. CallFits(w)
      BY DEF IdentityInv
    <3>. HIDE DEF Arrive
    <3>. QED  BY <3>1, <3>2, <3>4, <3>5 DEF CallFits, OpOf, Dead, Claimed, OwnerOf,
           ToolScopeAllowed, WorkspaceResolved
  <2>. QED  BY <2>1, <2>2
<1>. QED  BY <1>3, <1>5, <1>6, <1>7, <1>8 DEF IdentityInv

LEMMA UserKeepsInv ==
  ASSUME IdentityInv, NEW v \in Visits, InsertUser(v) \/ Login(v)
  PROVE  IdentityInv'
<1>. USE DEF accountVars, keyVars, visitVars
<1>1. CASE \E from \in {"userInsert", "findUser"} : Inspect(v, from, "refused")
  BY <1>1, InspectKeepsInv DEF VisitStages
<1>2. ASSUME ~ \E from \in {"userInsert", "findUser"} : Inspect(v, from, "refused")
      PROVE  IdentityInv'
  <2>1. /\ vpc[v] \in {"userInsert", "findUser"} /\ vpc' = [vpc EXCEPT ![v] = "ok"]
        /\ UNCHANGED <<inactive, keyVars, visitVars>>
        /\ OpOf(v) \in {"register", "login"} /\ visit[v] \in VisitInputs[v]
    BY <1>2 DEF InsertUser, Login, Pass, IdentityInv, StageFits
  <2>2. \A w \in Visits : vpc'[w] = IF w = v THEN "ok" ELSE vpc[w]
    BY <2>1 DEF IdentityInv, IdentityTypeOK
  <2>3. visit[v].email \in Emails
    BY <2>1, VisitFields DEF OpOf
  <2>4. \/ email' = email /\ signedIn' \subseteq People
        \/ /\ email' = [email EXCEPT ![v] = visit[v].email] /\ signedIn' = signedIn
           /\ ~ EmailTaken(visit[v].email)
    BY <1>2 DEF InsertUser, Login, IdentityInv, IdentityTypeOK
  <2>5. v \in People /\ vpc' \in [Visits -> VisitStages]
    BY <2>1 DEF People, VisitStages, IdentityInv, IdentityTypeOK
  <2>6. IdentityTypeOK' /\ DOMAIN visit' = Visits
    <3>1. email' \in [People -> Emails \union {NoUser}]
      BY <2>3, <2>4, <2>5 DEF IdentityInv, IdentityTypeOK
    <3>. QED  BY <2>1, <2>4, <2>5, <3>1 DEF IdentityInv, IdentityTypeOK
  <2>7. EmailsAreUnique'
    BY <2>4, <2>5 DEF IdentityInv, IdentityTypeOK, EmailsAreUnique, EmailTaken
  <2>8. \A p \in Visits : email'[p] # NoUser => vpc'[p] = "ok"
    <3>1. \A p \in Visits : p # v => email'[p] = email[p]
      BY <2>4, <2>5 DEF IdentityInv, IdentityTypeOK, People
    <3>. QED  BY <2>2, <3>1 DEF IdentityInv
  <2>9. ASSUME NEW w \in Visits PROVE StageFits(w)' /\ KeyFits(w)' /\ CallFits(w)'
    BY <2>1, <2>2 DEF IdentityInv, StageFits, KeyFits, CallFits, OpOf, Dead, Claimed, OwnerOf,
      ToolScopeAllowed, WorkspaceResolved
  <2>. QED  BY <2>6, <2>7, <2>8, <2>9 DEF IdentityInv
<1>. QED  BY <1>1, <1>2

LEMMA KeyInsertKeepsInv ==
  ASSUME IdentityInv, NEW v \in Visits, InsertKey(v)
  PROVE  IdentityInv'
<1>. USE DEF InsertKey, Pass, accountVars, visitVars
<1>1. \A w \in Visits : vpc'[w] = IF w = v THEN "ok" ELSE vpc[w]
  BY DEF IdentityInv, IdentityTypeOK
<1>2. OpOf(v) = "createKey" /\ ScopesAccepted(visit[v].scopes) /\ visit[v] \in VisitInputs[v]
  BY DEF IdentityInv, StageFits
<1>3. NormalizeUserAPIKeyScopes(visit[v].scopes) \in SUBSET ValidScopes
  BY <1>2 DEF ScopesAccepted, NormalizeUserAPIKeyScopes, ValidScopes
<1>4. \A w \in Visits :
        scopes'[w] = IF w = v THEN NormalizeUserAPIKeyScopes(visit[v].scopes) ELSE scopes[w]
  BY DEF IdentityInv, IdentityTypeOK
<1>5. \A k \in keys : scopes'[k] = scopes[k]
  BY <1>4 DEF IdentityInv, IdentityTypeOK, KeyFits
<1>6. IdentityTypeOK' /\ EmailsAreUnique' /\ DOMAIN visit' = Visits
  BY <1>3 DEF IdentityInv, IdentityTypeOK, VisitStages, EmailsAreUnique
<1>7. \A p \in Visits : email'[p] # NoUser => vpc'[p] = "ok"
  BY <1>1 DEF IdentityInv
<1>8. ASSUME NEW w \in Visits PROVE StageFits(w)' /\ KeyFits(w)'
  BY <1>1, <1>2, <1>4 DEF IdentityInv, StageFits, KeyFits, OpOf
<1>9. ASSUME NEW w \in Visits PROVE CallFits(w)'
  BY <1>1, <1>2, <1>5 DEF IdentityInv, CallFits, OpOf, Dead, Claimed, OwnerOf,
    ToolScopeAllowed, WorkspaceResolved
<1>. QED  BY <1>6, <1>7, <1>8, <1>9 DEF IdentityInv

\* A key dies, or its use is recorded; a stage may change with it.
LEMMA KeyUseKeepsInv ==
  ASSUME IdentityInv, NEW v \in Visits, NEW to,
         to = vpc[v] \/ (vpc[v] = "keyRevoke" /\ to = "ok")
           \/ (vpc[v] = "owner" /\ to = "member"),
         vpc' = [vpc EXCEPT ![v] = to],
         revoked \subseteq revoked', revoked' \subseteq keys,
         expired \subseteq expired', expired' \subseteq keys,
         lastUsed' \subseteq keys,
         touching' \subseteq touching \union {v},
         v \in touching' \ touching => vpc[v] = "owner",
         UNCHANGED <<email, inactive, signedIn, scopes, keys, visit, late>>
  PROVE  IdentityInv'
<1>. USE IdentityAssumption
<1>1. \A w \in Visits : vpc'[w] = IF w = v THEN to ELSE vpc[w]
  BY DEF IdentityInv, IdentityTypeOK
<1>2. vpc' \in [Visits -> VisitStages]
  BY DEF IdentityInv, IdentityTypeOK, VisitStages
<1>3. IdentityTypeOK' /\ EmailsAreUnique' /\ DOMAIN visit' = Visits
  BY <1>2 DEF IdentityInv, IdentityTypeOK, EmailsAreUnique
<1>4. \A p \in Visits : email'[p] # NoUser => vpc'[p] = "ok"
  BY <1>1 DEF IdentityInv
<1>5. ASSUME NEW w \in Visits PROVE StageFits(w)' /\ KeyFits(w)'
  BY <1>1 DEF IdentityInv, StageFits, KeyFits, OpOf
<1>6. vpc[v] = "owner" => visit[v].key \in keys
  BY DEF IdentityInv, StageFits, CallFits
<1>7. ASSUME NEW w \in Visits PROVE CallFits(w)'
  <2>1. \A k : Dead(k) => Dead(k)'
    BY DEF Dead
  <2>2. StageFits(w) /\ CallFits(w)
    BY DEF IdentityInv
  <2>. QED  BY <1>1, <1>6, <2>1, <2>2 DEF StageFits, CallFits, OpOf, Claimed, OwnerOf,
         ToolScopeAllowed, WorkspaceResolved
<1>. QED  BY <1>3, <1>4, <1>5, <1>7 DEF IdentityInv

LEMMA IdentityStepKeepsInv == IdentityInv /\ [IdentityNext]_identityVars => IdentityInv'
<1>. SUFFICES ASSUME IdentityInv, [IdentityNext]_identityVars PROVE IdentityInv'
  OBVIOUS
<1>. USE IdentityAssumption DEF accountVars, keyVars, visitVars
<1>1. ASSUME NEW v \in Visits, NEW i \in VisitInputs[v], Arrive(v, i) PROVE IdentityInv'
  BY <1>1, ArriveKeepsInv
<1>2. ASSUME NEW v \in Visits, Break(v) PROVE IdentityInv'
  <2>1. vpc[v] \in VisitStages
    BY DEF IdentityInv, IdentityTypeOK
  <2>. QED  BY <1>2, <2>1, InspectKeepsInv DEF Break, VisitStages
<1>3. ASSUME NEW v \in Visits, CheckEmail(v) PROVE IdentityInv'
  <2>1. Inspect(v, "emailCheck", "refused") \/ Inspect(v, "emailCheck", "userInsert")
    BY <1>3 DEF CheckEmail
  <2>. QED  BY <2>1, InspectKeepsInv DEF VisitStages
<1>4. ASSUME NEW v \in Visits, InsertUser(v) \/ Login(v) PROVE IdentityInv'
  BY <1>4, UserKeepsInv
<1>5. ASSUME NEW v \in Visits, InsertKey(v) PROVE IdentityInv'
  BY <1>5, KeyInsertKeepsInv
<1>6. ASSUME NEW v \in Visits, ReadKey(v) PROVE IdentityInv'
  <2>1. \/ Inspect(v, "keyRead", "keyRevoke") /\ visit[v].key \in keys
        \/ Inspect(v, "keyRead", "refused")
    BY <1>6 DEF ReadKey
  <2>. QED  BY <2>1, InspectKeepsInv DEF VisitStages
<1>7. ASSUME NEW v \in Visits, RevokeUserKey(v) PROVE IdentityInv'
  <2>1. vpc[v] = "keyRevoke" /\ visit[v].key \in keys /\ vpc' = [vpc EXCEPT ![v] = "ok"]
    BY <1>7 DEF RevokeUserKey, Pass, IdentityInv, StageFits
  <2>2. revoked' \subseteq keys /\ expired \subseteq keys /\ lastUsed \subseteq keys
    BY <1>7, <2>1 DEF RevokeUserKey, IdentityInv, IdentityTypeOK
  <2>. QED  BY <1>7, <2>1, <2>2, KeyUseKeepsInv DEF RevokeUserKey
<1>8. ASSUME NEW k \in Visits, KeyExpires(k) PROVE IdentityInv'
  <2>1. expired' \subseteq keys /\ revoked \subseteq keys /\ lastUsed \subseteq keys
    BY <1>8 DEF KeyExpires, IdentityInv, IdentityTypeOK
  <2>2. vpc' = [vpc EXCEPT ![k] = vpc[k]]
    BY <1>8 DEF KeyExpires, IdentityInv, IdentityTypeOK
  <2>. QED  BY <1>8, <2>1, <2>2, KeyUseKeepsInv DEF KeyExpires
<1>9. ASSUME NEW v \in Visits, FindKey(v) PROVE IdentityInv'
  <2>1. v \in late => Dead(visit[v].key)
    BY DEF IdentityInv, CallFits
  <2>2. \/ Inspect(v, "byHash", "owner") /\ visit[v].key \in keys /\ v \notin late
        \/ Inspect(v, "byHash", "refused")
    BY <1>9, <2>1 DEF FindKey
  <2>. QED  BY <2>2, InspectKeepsInv DEF VisitStages
<1>10. ASSUME NEW v \in Visits, FindOwner(v) PROVE IdentityInv'
  <2>1. CASE Inspect(v, "owner", "refused")
    BY <2>1, InspectKeepsInv DEF VisitStages
  <2>2. CASE ~ Inspect(v, "owner", "refused")
    <3>1. /\ vpc[v] = "owner" /\ vpc' = [vpc EXCEPT ![v] = "member"]
          /\ touching' = touching \union {v}
          /\ UNCHANGED <<email, inactive, signedIn, scopes, keys, revoked, expired, lastUsed,
                         visit, late>>
      BY <1>10, <2>2 DEF FindOwner, Pass
    <3>2. revoked \subseteq keys /\ expired \subseteq keys /\ lastUsed \subseteq keys
      BY DEF IdentityInv, IdentityTypeOK
    <3>. QED  BY <3>1, <3>2, KeyUseKeepsInv
  <2>. QED  BY <2>1, <2>2
<1>11. ASSUME NEW v \in Visits, TouchLastUsed(v) PROVE IdentityInv'
  <2>1. visit[v].key \in keys
    BY <1>11 DEF TouchLastUsed, IdentityInv, CallFits
  <2>2. revoked \subseteq keys /\ expired \subseteq keys /\ lastUsed' \subseteq keys
    BY <1>11, <2>1 DEF TouchLastUsed, IdentityInv, IdentityTypeOK
  <2>3. vpc' = [vpc EXCEPT ![v] = vpc[v]]
    BY <1>11 DEF TouchLastUsed, IdentityInv, IdentityTypeOK
  <2>. QED  BY <1>11, <2>2, <2>3, KeyUseKeepsInv DEF TouchLastUsed
<1>12. ASSUME NEW v \in Visits, RequireOrgMembership(v) PROVE IdentityInv'
  <2>1. \/ /\ Inspect(v, "member", "tool")
           /\ visit[v].org = NoOrg \/ <<visit[v].org, Claimed(v)>> \in Membership
        \/ Inspect(v, "member", "refused")
    BY <1>12 DEF RequireOrgMembership
  <2>. QED  BY <2>1, InspectKeepsInv DEF VisitStages
<1>13. ASSUME NEW v \in Visits, CallTool(v) PROVE IdentityInv'
  <2>1. \/ Inspect(v, "tool", "ok") /\ ToolScopeAllowed(v) /\ WorkspaceResolved(v)
        \/ Inspect(v, "tool", "refused")
    BY <1>13 DEF CallTool
  <2>. QED  BY <2>1, InspectKeepsInv DEF VisitStages
<1>14. ASSUME NEW p \in People, TokenExpires(p) PROVE IdentityInv'
  BY <1>14 DEF TokenExpires, IdentityInv, IdentityTypeOK, EmailsAreUnique, StageFits, KeyFits,
    CallFits, OpOf, Dead, Claimed, OwnerOf, ToolScopeAllowed, WorkspaceResolved
<1>15. CASE UNCHANGED identityVars
  BY <1>15 DEF identityVars, IdentityInv, IdentityTypeOK, EmailsAreUnique, StageFits, KeyFits,
    CallFits, OpOf, Dead, Claimed, OwnerOf, ToolScopeAllowed, WorkspaceResolved
<1>. QED  BY <1>1, <1>2, <1>3, <1>4, <1>5, <1>6, <1>7, <1>8, <1>9, <1>10, <1>11, <1>12, <1>13,
       <1>14, <1>15 DEF IdentityNext

THEOREM IdentityInvariant == IdentitySpec => []IdentityInv
<1>1. IdentityInit => IdentityInv
  BY IdentityAssumption DEF IdentityInit, IdentityInv, IdentityTypeOK, VisitStages, EmailsAreUnique,
    StageFits, KeyFits, CallFits, People
<1>. QED  BY <1>1, IdentityStepKeepsInv, PTL DEF IdentitySpec

\* No two users ever have one e-mail, though registration looks before it
\* inserts and another may insert in between, for any users and requests.
THEOREM EmailsStayUnique == IdentitySpec => []EmailsAreUnique
<1>1. IdentityInv => EmailsAreUnique
  BY DEF IdentityInv
<1>. QED  BY <1>1, IdentityInvariant, PTL

\* Keys open the tools, organizations and workspaces they were made for, and
\* only while they live, for any keys, calls, revocations and expiries.
THEOREM KeysOpenOnlyThat == IdentitySpec => []KeysOpenWhatTheyWereMadeFor
<1>1. ASSUME IdentityInv, NEW v \in Visits,
             vpc[v] = "ok", visit[v].op = "tool", visit[v].key # NoKey
      PROVE  LET made == visit[visit[v].key] IN
             /\ v \notin late
             /\ made.op = "createKey"
             /\ \/ made.scopes = {}
                \/ {"mcp:read", MCPToolRequiredScope(visit[v].tool)} \intersect made.scopes # {}
             /\ visit[v].org # NoOrg => <<visit[v].org, made.user>> \in Membership
             /\ visit[v].tool \in WorkspaceTools => RoomOrg[visit[v].room] = visit[v].org
  <2>. DEFINE k == visit[v].key
  <2>1. CallFits(v) /\ k \in keys /\ k \in Visits
    BY <1>1 DEF IdentityInv, IdentityTypeOK, CallFits, OpOf
  <2>2. KeyFits(k)
    BY <1>1, <2>1 DEF IdentityInv
  <2>3. /\ ScopesAllowMCPTool(NormalizeUserAPIKeyScopes(visit[k].scopes), visit[v].tool)
        /\ ScopesAccepted(visit[k].scopes)
    BY <1>1, <2>1, <2>2 DEF CallFits, KeyFits, OpOf, ToolScopeAllowed
  <2>4. \/ visit[k].scopes = {}
        \/ {"mcp:read", MCPToolRequiredScope(visit[v].tool)} \intersect visit[k].scopes # {}
    BY <2>3 DEF ScopesAllowMCPTool, ScopesAccepted, NormalizeUserAPIKeyScopes
  <2>. QED  BY <1>1, <2>1, <2>2, <2>4 DEF CallFits, KeyFits, OpOf, Claimed, OwnerOf,
         WorkspaceResolved
<1>2. IdentityInv => KeysOpenWhatTheyWereMadeFor
  BY <1>1 DEF KeysOpenWhatTheyWereMadeFor
<1>. QED  BY <1>2, IdentityInvariant, PTL

----------------------------------------------------------------------------
(***************************************************************************)
(* The provider of an organization.  What has been built, cached or about  *)
(* to be asked, is what the settings it was built from merge to, and these *)
(* merge to something enabled and valid.                                   *)
(***************************************************************************)
Usable(s) == Merge(s).enabled /\ ValidateLLMConfig(Merge(s))

CacheFits(o) ==
  cache[o] # NoProvider =>
    cache[o].provider = NewProvider(Merge(cache[o].settings)) /\ Usable(cache[o].settings)

JobFits(j) ==
  /\ jpc[j] # "idle" => job[j] \in JobInputs[j]
  /\ jpc[j] \in {"existing", "upsert"} => job[j].op = "update"
  /\ jpc[j] = "delete" => job[j].op = "reset"
  /\ jpc[j] = "upsert" =>
       /\ row[j] # NoSettings /\ ValidateLLMConfig(Merge(row[j]))
       /\ job[j].key \notin {Blank, "clear"} =>
            row[j].enc # Blank /\ row[j].enc.plain = job[j].key
  /\ jpc[j] \in {"store", "ask"} => provider[j] = NewProvider(Merge(row[j])) /\ Usable(row[j])
  /\ jpc[j] \notin {"ask", "ok", "refused"} => attempt[j] = 0
  /\ jpc[j] = "ask" => attempt[j] <= MaxRetries

ProviderInv ==
  /\ ProviderTypeOK
  /\ DOMAIN job = Jobs
  /\ \A o \in Tenancies : CacheFits(o)
  /\ \A j \in Jobs : JobFits(j)
  /\ StoredSettingsAreValid

LEMMA JobFields ==
  ASSUME NEW j \in Jobs, NEW i \in JobInputs[j]
  PROVE  /\ i # NoJob /\ i.org \in Tenancies
         /\ i.op \in {"update", "reset", "generate", "probe"}
         /\ i.op = "update" =>
              /\ i.provider \in Providers /\ i.host \in Hosts \union {Blank}
              /\ i.model \in Models \union {Blank} /\ i.key \in APIKeys \union {Blank, "clear"}
              /\ i.limits \in Limits \union {Blank} /\ i.enabled \in BOOLEAN
<1>1. i \in JobRequests /\ i # NoJob
  BY ProviderAssumption
<1>. QED  BY <1>1 DEF JobRequests, UpdateRequests

LEMMA SettingsFields ==
  ASSUME NEW s \in Settings
  PROVE  /\ s # NoSettings
         /\ s.provider \in Providers /\ s.host \in Hosts \union {Blank}
         /\ s.model \in Models \union {Blank} /\ s.enc \in EncryptedKeys
         /\ s.limits \in Limits /\ s.enabled \in BOOLEAN
BY ProviderAssumption DEF Settings

LEMMA GlobalFields ==
  /\ Global.provider \in Providers /\ Global.host \in Hosts \union {Blank}
  /\ Global.model \in Models \union {Blank} /\ Global.key \in APIKeys \union {Blank}
  /\ Global.limits \in Limits /\ Global.enabled \in BOOLEAN
BY ProviderAssumption DEF Configurations

LEMMA MergeIsAConfiguration ==
  ASSUME NEW s \in Settings \union {NoSettings}
  PROVE  Merge(s) \in Configurations
<1>1. CASE s = NoSettings
  BY <1>1, ProviderAssumption DEF Merge
<1>2. CASE s # NoSettings
  <2>1. DecryptString(s.enc) \in APIKeys \union {Blank}
    BY <1>2, SettingsFields DEF DecryptString, EncryptedKeys
  <2>2. /\ Or(s.host, Global.host) \in Hosts \union {Blank}
        /\ Or(s.model, Global.model) \in Models \union {Blank}
        /\ Or(DecryptString(s.enc), Global.key) \in APIKeys \union {Blank}
    BY <1>2, <2>1, SettingsFields, GlobalFields DEF Or
  <2>. QED  BY <1>2, <2>2, SettingsFields DEF Merge, Configurations
<1>. QED  BY <1>1, <1>2

LEMMA NewProviderIsAConfiguration ==
  ASSUME NEW c \in Configurations
  PROVE  NewProvider(c) \in Configurations
<1>1. /\ Or(c.host, "loopback") \in Hosts \union {Blank}
      /\ Or(c.model, "model") \in Models \union {Blank}
  BY DEF Or, Configurations, Hosts, Models
<1>2. c.provider \in {"mock", "gemma", "ollama"}
  BY DEF Configurations, Providers
<1>3. CASE c.provider = "ollama"
  BY <1>1, <1>3 DEF NewProvider, Configurations
<1>4. CASE c.provider = "gemma"
  BY <1>1, <1>4 DEF NewProvider, Configurations
<1>5. CASE c.provider = "mock"
  BY <1>5 DEF NewProvider
<1>. QED  BY <1>2, <1>3, <1>4, <1>5

\* The key of a row does not bear on its validity.
LEMMA ValidityWithoutKey ==
  ASSUME NEW s \in Settings, NEW e \in EncryptedKeys, ValidateLLMConfig(Merge(s))
  PROVE  /\ [s EXCEPT !.enc = e] \in Settings
         /\ ValidateLLMConfig(Merge([s EXCEPT !.enc = e]))
<1>. DEFINE t == [s EXCEPT !.enc = e]
<1>1. /\ t.provider = s.provider /\ t.host = s.host /\ t.model = s.model
      /\ t.limits = s.limits /\ t.enabled = s.enabled /\ t \in Settings
  BY DEF Settings
<1>2. s # NoSettings /\ t # NoSettings
  BY <1>1, SettingsFields
<1>. HIDE DEF t
<1>3. /\ Merge(t).provider = Merge(s).provider /\ Merge(t).host = Merge(s).host
      /\ Merge(t).model = Merge(s).model /\ Merge(t).enabled = Merge(s).enabled
  BY <1>1, <1>2 DEF Merge
<1>. QED  BY <1>1, <1>3 DEF ValidateLLMConfig, ProviderBaseURLCompatible, t

\* A request moves on; the tables, the cache and the other requests stay.
LEMMA JobStepKeepsInv ==
  ASSUME ProviderInv, NEW j \in Jobs, ProviderTypeOK', DOMAIN job' = Jobs, JobFits(j)',
         \A k \in Jobs \ {j} :
           /\ jpc'[k] = jpc[k] /\ job'[k] = job[k] /\ row'[k] = row[k]
           /\ provider'[k] = provider[k] /\ attempt'[k] = attempt[k],
         \A o \in Tenancies : CacheFits(o)',
         StoredSettingsAreValid', secret' = secret
  PROVE  ProviderInv'
<1>1. ASSUME NEW k \in Jobs \ {j} PROVE JobFits(k)'
  <2>1. JobFits(k)
    BY DEF ProviderInv
  <2>2. Merge(row[k])' = Merge(row[k])
    BY DEF Merge, DecryptString
  <2>3. NewProvider(Merge(row[k]))' = NewProvider(Merge(row[k]))
    BY <2>2 DEF NewProvider
  <2>4. /\ Usable(row[k])' <=> Usable(row[k])
        /\ ValidateLLMConfig(Merge(row[k]))' <=> ValidateLLMConfig(Merge(row[k]))
    BY <2>2 DEF Usable, ValidateLLMConfig, ProviderBaseURLCompatible
  <2>. QED  BY <2>1, <2>3, <2>4 DEF JobFits
<1>. QED  BY <1>1 DEF ProviderInv

LEMMA CacheStays ==
  ASSUME NEW o \in Tenancies, CacheFits(o), secret' = secret,
         cache'[o] = cache[o] \/ cache'[o] = NoProvider
  PROVE  CacheFits(o)'
<1>1. CASE cache'[o] = NoProvider
  BY <1>1 DEF CacheFits
<1>2. CASE cache'[o] = cache[o]
  <2>1. Merge(cache[o].settings)' = Merge(cache[o].settings)
    BY <1>2 DEF Merge, DecryptString
  <2>2. NewProvider(Merge(cache[o].settings))' = NewProvider(Merge(cache[o].settings))
    BY <2>1 DEF NewProvider
  <2>3. Usable(cache[o].settings)' <=> Usable(cache[o].settings)
    BY <2>1 DEF Usable, ValidateLLMConfig, ProviderBaseURLCompatible
  <2>. QED  BY <1>2, <2>2, <2>3 DEF CacheFits
<1>. QED  BY <1>1, <1>2

LEMMA TableStays ==
  ASSUME ProviderInv, settings' = settings
  PROVE  StoredSettingsAreValid'
<1>1. ASSUME NEW o \in Tenancies, settings[o] # NoSettings
      PROVE  ValidateLLMConfig(Merge(settings[o]))'
  <2>1. ValidateLLMConfig(Merge(settings[o]))
    BY <1>1 DEF ProviderInv, StoredSettingsAreValid
  <2>2. /\ Merge(settings[o])'.provider = Merge(settings[o]).provider
        /\ Merge(settings[o])'.host = Merge(settings[o]).host
        /\ Merge(settings[o])'.model = Merge(settings[o]).model
        /\ Merge(settings[o])'.enabled = Merge(settings[o]).enabled
    BY <1>1 DEF Merge
  <2>. QED  BY <2>1, <2>2 DEF ValidateLLMConfig, ProviderBaseURLCompatible
<1>. QED  BY <1>1 DEF StoredSettingsAreValid

\* What the draft of an update is, and that it fits the request.
LEMMA DraftFits ==
  ASSUME ProviderInv, NEW j \in Jobs, job[j] \in JobInputs[j], job[j].op = "update",
         NEW e \in Settings \union {NoSettings}
  PROVE  /\ Draft(j, e) \in Settings
         /\ job[j].key \notin {Blank, "clear"} =>
              Draft(j, e).enc # Blank /\ Draft(j, e).enc.plain = job[j].key
<1>. DEFINE i == job[j]
            enc == Draft(j, e).enc
<1>. USE ProviderAssumption
<1>1. /\ i.provider \in Providers /\ i.host \in Hosts \union {Blank}
      /\ i.model \in Models \union {Blank} /\ i.key \in APIKeys \union {Blank, "clear"}
      /\ i.limits \in Limits \union {Blank} /\ i.enabled \in BOOLEAN
  BY JobFields
<1>2. secret \in Secrets
  BY DEF ProviderInv, ProviderTypeOK
<1>3. enc \in EncryptedKeys
  <2>1. CASE i.key = "clear"
    BY <2>1 DEF Draft, EncryptedKeys
  <2>2. CASE i.key = Blank
    BY <2>2, SettingsFields DEF Draft, EncryptedKeys
  <2>3. CASE i.key \in APIKeys
    <3>1. enc = [plain |-> i.key, secret |-> secret]
      BY <2>3 DEF Draft, EncryptString
    <3>. QED  BY <1>2, <2>3, <3>1 DEF EncryptedKeys
  <2>. QED  BY <1>1, <2>1, <2>2, <2>3
<1>4. Draft(j, e).limits \in Limits
  BY <1>1, SettingsFields, GlobalFields DEF Draft, Or
<1>5. i.key \notin {Blank, "clear"} => enc # Blank /\ enc.plain = i.key
  <2>1. ASSUME i.key \in APIKeys PROVE enc = [plain |-> i.key, secret |-> secret]
    BY <2>1 DEF Draft, EncryptString
  <2>. QED  BY <1>1, <1>2, <2>1
<1>6. Draft(j, e) \in Settings
  BY <1>1, <1>3, <1>4 DEF Draft, Settings
<1>. QED  BY <1>5, <1>6

\* A request moves and only its own variables with it.
LEMMA OwnStepKeepsInv ==
  ASSUME ProviderInv, NEW j \in Jobs, ProviderTypeOK', DOMAIN job' = Jobs, JobFits(j)',
         \A k \in Jobs \ {j} :
           /\ jpc'[k] = jpc[k] /\ job'[k] = job[k] /\ row'[k] = row[k]
           /\ provider'[k] = provider[k] /\ attempt'[k] = attempt[k],
         UNCHANGED <<settings, secret, cache>>
  PROVE  ProviderInv'
<1>1. \A o \in Tenancies : CacheFits(o)'
  BY CacheStays DEF ProviderInv
<1>. QED  BY <1>1, TableStays, JobStepKeepsInv

LEMMA ReceiveKeepsInv ==
  ASSUME ProviderInv, NEW j \in Jobs, NEW i \in JobInputs[j], Receive(j, i)
  PROVE  ProviderInv'
<1>. USE DEF Receive, Advance, storeVars, jobVars
<1>1. /\ i.op \in {"update", "reset", "generate", "probe"}
      /\ jpc[j] = "idle" /\ attempt[j] = 0
  BY JobFields DEF ProviderInv, JobFits
<1>2. /\ i.op = "update" => jpc'[j] = "existing"
      /\ i.op = "reset" => jpc'[j] = "delete"
      /\ i.op \in {"generate", "probe"} => jpc'[j] = "read"
      /\ jpc' = [jpc EXCEPT ![j] = jpc'[j]]
      /\ job'[j] = i
  BY DEF ProviderInv, ProviderTypeOK
<1>3. jpc'[j] \in {"existing", "delete", "read"}
  BY <1>1, <1>2
<1>4. ProviderTypeOK'
  BY <1>2, <1>3 DEF ProviderInv, ProviderTypeOK
<1>5. JobFits(j)'
  BY <1>1, <1>2, <1>3 DEF JobFits
<1>6. DOMAIN job' = Jobs /\ \A k \in Jobs \ {j} :
        /\ jpc'[k] = jpc[k] /\ job'[k] = job[k] /\ row'[k] = row[k]
        /\ provider'[k] = provider[k] /\ attempt'[k] = attempt[k]
  BY DEF ProviderInv, ProviderTypeOK
<1>. QED  BY <1>2, <1>4, <1>5, <1>6, OwnStepKeepsInv

\* A request is refused, or asks what it can without a change.
LEMMA StayKeepsInv ==
  ASSUME ProviderInv, NEW j \in Jobs, Stay(j, jpc[j], "refused"), jpc[j] # "idle"
  PROVE  ProviderInv'
<1>. USE DEF Stay, Advance, storeVars, jobVars
<1>1. jpc'[j] = "refused"
  BY DEF ProviderInv, ProviderTypeOK
<1>2. ProviderTypeOK'
  BY DEF ProviderInv, ProviderTypeOK
<1>3. JobFits(j)'
  BY <1>1 DEF ProviderInv, JobFits
<1>4. DOMAIN job' = Jobs /\ \A k \in Jobs \ {j} :
        /\ jpc'[k] = jpc[k] /\ job'[k] = job[k] /\ row'[k] = row[k]
        /\ provider'[k] = provider[k] /\ attempt'[k] = attempt[k]
  BY DEF ProviderInv, ProviderTypeOK
<1>. QED  BY <1>2, <1>3, <1>4, OwnStepKeepsInv

LEMMA ReadExistingKeepsInv ==
  ASSUME ProviderInv, NEW j \in Jobs, ReadExisting(j)
  PROVE  ProviderInv'
<1>. USE DEF ReadExisting, Advance, storeVars
<1>. DEFINE update == Draft(j, settings[job[j].org])
            to == IF ValidateLLMConfig(Merge(update)) THEN "upsert" ELSE "refused"
<1>1. jpc[j] = "existing" /\ job[j] \in JobInputs[j] /\ job[j].op = "update" /\ attempt[j] = 0
  BY DEF ProviderInv, JobFits
<1>2. settings[job[j].org] \in Settings \union {NoSettings}
  BY <1>1, JobFields DEF ProviderInv, ProviderTypeOK
<1>3. /\ update \in Settings /\ update # NoSettings
      /\ job[j].key \notin {Blank, "clear"} => update.enc # Blank /\ update.enc.plain = job[j].key
  BY <1>1, <1>2, DraftFits, SettingsFields
<1>4. /\ jpc' = [jpc EXCEPT ![j] = to] /\ row' = [row EXCEPT ![j] = update]
      /\ UNCHANGED <<settings, secret, cache, job, provider, attempt>>
  OBVIOUS
<1>. HIDE DEF update, ReadExisting
<1>5. ProviderTypeOK'
  BY <1>3, <1>4 DEF ProviderInv, ProviderTypeOK
<1>6. jpc'[j] = to /\ row'[j] = update
  BY <1>4 DEF ProviderInv, ProviderTypeOK
<1>7. Merge(row[j])' = Merge(update)
  BY <1>4, <1>6 DEF Merge, DecryptString
<1>8. ValidateLLMConfig(Merge(row[j]))' <=> ValidateLLMConfig(Merge(update))
  BY <1>7 DEF ValidateLLMConfig, ProviderBaseURLCompatible
<1>9. JobFits(j)'
  BY <1>1, <1>3, <1>4, <1>6, <1>8 DEF JobFits
<1>10. DOMAIN job' = Jobs /\ \A k \in Jobs \ {j} :
        /\ jpc'[k] = jpc[k] /\ job'[k] = job[k] /\ row'[k] = row[k]
        /\ provider'[k] = provider[k] /\ attempt'[k] = attempt[k]
  BY <1>4 DEF ProviderInv, ProviderTypeOK
<1>. QED  BY <1>4, <1>5, <1>9, <1>10, OwnStepKeepsInv

\* The statements of an update and a reset, and the invalidation after them.
LEMMA WriteKeepsInv ==
  ASSUME ProviderInv, NEW j \in Jobs, Upsert(j) \/ Delete(j) \/ Invalidate(j)
  PROVE  ProviderInv'
<1>. USE DEF Advance, storeVars, jobVars
<1>1. /\ jpc[j] \in {"upsert", "delete", "invalidate"}
      /\ \E to \in {"invalidate", "ok"} : jpc' = [jpc EXCEPT ![j] = to]
      /\ secret' = secret /\ UNCHANGED <<job, row, provider, attempt>>
  BY DEF Upsert, Delete, Invalidate
<1>2. job[j] \in JobInputs[j] /\ job[j].org \in Tenancies /\ attempt[j] = 0
  BY <1>1, JobFields DEF ProviderInv, JobFits
<1>. DEFINE o == job[j].org
<1>3. /\ settings' \in [Tenancies -> Settings \union {NoSettings}]
      /\ cache' \in [Tenancies -> CacheEntries \union {NoProvider}]
      /\ \A p \in Tenancies : cache'[p] = cache[p] \/ cache'[p] = NoProvider
      /\ StoredSettingsAreValid'
  <2>1. CASE Upsert(j)
    <3>. DEFINE kept == IF settings[o] = NoSettings THEN Blank ELSE settings[o].enc
                e == IF UpdatesKey(job[j]) THEN row[j].enc ELSE kept
    <3>1. row[j] \in Settings /\ ValidateLLMConfig(Merge(row[j]))
      BY <2>1 DEF Upsert, ProviderInv, ProviderTypeOK, JobFits
    <3>2. e \in EncryptedKeys
      <4>1. settings[o] \in Settings \union {NoSettings}
        BY <1>2 DEF ProviderInv, ProviderTypeOK
      <4>. QED  BY <3>1, <4>1, SettingsFields DEF EncryptedKeys
    <3>3. settings' = [settings EXCEPT ![o] = [row[j] EXCEPT !.enc = e]] /\ cache' = cache
      BY <2>1, <3>1 DEF Upsert, Settings
    <3>. HIDE DEF e
    <3>. DEFINE t == [row[j] EXCEPT !.enc = e]
    <3>4. t \in Settings /\ ValidateLLMConfig(Merge(t))
      BY <3>1, <3>2, ValidityWithoutKey
    <3>. HIDE DEF t
    <3>5. settings' = [settings EXCEPT ![o] = t]
      BY <3>3 DEF t
    <3>6. ASSUME NEW p \in Tenancies, settings'[p] # NoSettings
          PROVE  ValidateLLMConfig(Merge(settings[p]))'
      <4>1. settings'[p] = IF p = o THEN t ELSE settings[p]
        BY <3>5 DEF ProviderInv, ProviderTypeOK
      <4>. DEFINE u == IF p = o THEN t ELSE settings[p]
      <4>2. u # NoSettings /\ ValidateLLMConfig(Merge(u))
        BY <3>4, <3>6, <4>1 DEF ProviderInv, StoredSettingsAreValid
      <4>3. Merge(settings[p])' = Merge(u)
        BY <1>1, <4>1 DEF Merge, DecryptString
      <4>. QED  BY <4>2, <4>3 DEF ValidateLLMConfig, ProviderBaseURLCompatible
    <3>. QED  BY <1>2, <3>3, <3>4, <3>5, <3>6 DEF ProviderInv, ProviderTypeOK, StoredSettingsAreValid
  <2>2. CASE Delete(j)
    <3>1. settings' = [settings EXCEPT ![o] = NoSettings] /\ cache' = cache
      BY <2>2 DEF Delete
    <3>2. ASSUME NEW p \in Tenancies, settings'[p] # NoSettings
          PROVE  ValidateLLMConfig(Merge(settings[p]))'
      <4>1. settings'[p] = settings[p] /\ settings[p] # NoSettings
        BY <3>1, <3>2 DEF ProviderInv, ProviderTypeOK
      <4>2. Merge(settings[p])' = Merge(settings[p])
        BY <1>1, <4>1 DEF Merge, DecryptString
      <4>. QED  BY <4>1, <4>2 DEF ValidateLLMConfig, ProviderBaseURLCompatible, ProviderInv,
             StoredSettingsAreValid
    <3>. QED  BY <3>1, <3>2 DEF ProviderInv, ProviderTypeOK, StoredSettingsAreValid
  <2>3. CASE Invalidate(j)
    <3>1. settings' = settings /\ cache' = [cache EXCEPT ![o] = NoProvider]
      BY <2>3 DEF Invalidate
    <3>. QED  BY <3>1, TableStays DEF ProviderInv, ProviderTypeOK
  <2>. QED  BY <2>1, <2>2, <2>3
<1>4. ProviderTypeOK'
  BY <1>1, <1>3 DEF ProviderInv, ProviderTypeOK
<1>5. \A p \in Tenancies : CacheFits(p)'
  BY <1>1, <1>3, CacheStays DEF ProviderInv
<1>6. JobFits(j)'
  <2>1. jpc'[j] \in {"invalidate", "ok"}
    BY <1>1 DEF ProviderInv, ProviderTypeOK
  <2>. QED  BY <1>1, <1>2, <2>1 DEF JobFits
<1>7. \A k \in Jobs \ {j} : jpc'[k] = jpc[k]
  BY <1>1 DEF ProviderInv, ProviderTypeOK
<1>8. DOMAIN job' = Jobs
  BY <1>1 DEF ProviderInv
<1>. QED  BY <1>1, <1>3, <1>4, <1>5, <1>6, <1>7, <1>8, JobStepKeepsInv

LEMMA ResolveKeepsInv ==
  ASSUME ProviderInv, NEW j \in Jobs, GetByOrganizationID(j) \/ LookUp(j)
  PROVE  ProviderInv'
<1>. USE DEF Advance, storeVars, jobVars
<1>1. CASE Stay(j, "lookup", "refused")
  BY <1>1, StayKeepsInv DEF Stay
<1>2. ASSUME ~ Stay(j, "lookup", "refused") PROVE ProviderInv'
  <2>1. /\ jpc[j] \in {"read", "lookup"} /\ UNCHANGED <<settings, secret, cache, job, attempt>>
        /\ \E to \in {"lookup", "ask", "store"} : jpc' = [jpc EXCEPT ![j] = to]
    BY <1>2 DEF GetByOrganizationID, LookUp
  <2>2. /\ job[j] \in JobInputs[j] /\ job[j].org \in Tenancies
        /\ job[j].op \in {"generate", "probe", "update", "reset"} /\ attempt[j] = 0
    BY <2>1, JobFields DEF ProviderInv, JobFits
  <2>3. CASE GetByOrganizationID(j)
    <3>1. settings[job[j].org] \in Settings \union {NoSettings}
      BY <2>2 DEF ProviderInv, ProviderTypeOK
    <3>2. jpc'[j] = "lookup" /\ provider' = provider /\ ProviderTypeOK'
      BY <2>1, <2>3, <3>1 DEF GetByOrganizationID, ProviderInv, ProviderTypeOK
    <3>3. JobFits(j)'
      BY <2>1, <2>2, <3>2 DEF JobFits
    <3>4. DOMAIN job' = Jobs /\ \A k \in Jobs \ {j} :
            /\ jpc'[k] = jpc[k] /\ job'[k] = job[k] /\ row'[k] = row[k]
            /\ provider'[k] = provider[k] /\ attempt'[k] = attempt[k]
      BY <2>1, <2>3 DEF GetByOrganizationID, ProviderInv, ProviderTypeOK
    <3>. QED  BY <2>1, <3>2, <3>3, <3>4, OwnStepKeepsInv
  <2>4. CASE LookUp(j)
    <3>. DEFINE entry == cache[job[j].org]
                effective == Merge(row[j])
    <3>1. row[j] \in Settings \union {NoSettings} /\ effective \in Configurations
      BY MergeIsAConfiguration DEF ProviderInv, ProviderTypeOK
    <3>2. PICK c \in Configurations :
            /\ provider' = [provider EXCEPT ![j] = c]
            /\ c = NewProvider(effective) /\ Usable(row[j])
            /\ row' = row /\ \E to \in {"ask", "store"} : jpc' = [jpc EXCEPT ![j] = to]
      <4>1. CASE entry # NoProvider /\ SettingsEqual(entry.settings, row[j])
        <5>1. entry \in CacheEntries /\ CacheFits(job[j].org)
          BY <2>2, <4>1 DEF ProviderInv, ProviderTypeOK
        <5>2. /\ entry.settings = row[j] /\ entry.provider = NewProvider(effective)
              /\ Usable(row[j]) /\ entry.provider \in Configurations
          BY <4>1, <5>1 DEF CacheFits, SettingsEqual, CacheEntries
        <5>3. /\ provider' = [provider EXCEPT ![j] = entry.provider] /\ row' = row
              /\ jpc' = [jpc EXCEPT ![j] = "ask"]
          BY <1>2, <2>4, <4>1 DEF LookUp
        <5>. QED  BY <5>2, <5>3
      <4>2. CASE ~ (entry # NoProvider /\ SettingsEqual(entry.settings, row[j]))
        <5>1. /\ provider' = [provider EXCEPT ![j] = NewProvider(effective)] /\ row' = row
              /\ jpc' = [jpc EXCEPT ![j] = "store"]
              /\ effective.enabled /\ ValidateLLMConfig(effective)
          BY <1>2, <2>4, <4>2 DEF LookUp
        <5>. QED  BY <3>1, <5>1, NewProviderIsAConfiguration DEF Usable
      <4>. QED  BY <4>1, <4>2
    <3>3. ProviderTypeOK'
      BY <2>1, <3>2 DEF ProviderInv, ProviderTypeOK
    <3>4. jpc'[j] \in {"ask", "store"} /\ provider'[j] = c /\ row'[j] = row[j]
      BY <3>2 DEF ProviderInv, ProviderTypeOK
    <3>5. Merge(row[j])' = effective
      BY <2>1, <3>4 DEF Merge, DecryptString
    <3>6. NewProvider(Merge(row[j]))' = NewProvider(effective)
      BY <3>5 DEF NewProvider
    <3>7. Usable(row[j])'
      BY <3>2, <3>5 DEF Usable, ValidateLLMConfig, ProviderBaseURLCompatible
    <3>8. JobFits(j)'
      BY <2>1, <2>2, <3>2, <3>4, <3>6, <3>7, ProviderAssumption DEF JobFits, ProviderInv
    <3>9. DOMAIN job' = Jobs /\ \A k \in Jobs \ {j} :
            /\ jpc'[k] = jpc[k] /\ job'[k] = job[k] /\ row'[k] = row[k]
            /\ provider'[k] = provider[k] /\ attempt'[k] = attempt[k]
      BY <2>1, <3>2 DEF ProviderInv, ProviderTypeOK
    <3>. QED  BY <2>1, <3>3, <3>8, <3>9, OwnStepKeepsInv
  <2>. QED  BY <2>3, <2>4
<1>. QED  BY <1>1, <1>2

LEMMA StoreKeepsInv ==
  ASSUME ProviderInv, NEW j \in Jobs, Store(j)
  PROVE  ProviderInv'
<1>. USE DEF Store, Advance, jobVars
<1>. DEFINE entry == [provider |-> provider[j], settings |-> row[j]]
<1>1. /\ jpc[j] = "store" /\ job[j] \in JobInputs[j] /\ job[j].org \in Tenancies
      /\ provider[j] = NewProvider(Merge(row[j])) /\ Usable(row[j]) /\ attempt[j] = 0
  BY JobFields DEF ProviderInv, JobFits
<1>2. row[j] \in Settings \union {NoSettings} /\ provider[j] \in Configurations
  BY <1>1, MergeIsAConfiguration, NewProviderIsAConfiguration DEF ProviderInv, ProviderTypeOK
<1>3. entry \in CacheEntries /\ entry.provider = provider[j] /\ entry.settings = row[j]
  BY <1>2 DEF CacheEntries
<1>4. /\ cache' = [cache EXCEPT ![job[j].org] = entry] /\ jpc' = [jpc EXCEPT ![j] = "ask"]
      /\ UNCHANGED <<settings, secret, job, row, provider, attempt>>
  OBVIOUS
<1>. HIDE DEF entry, Store
<1>5. ProviderTypeOK'
  BY <1>1, <1>3, <1>4 DEF ProviderInv, ProviderTypeOK
<1>6. Merge(row[j])' = Merge(row[j])
  BY <1>4 DEF Merge, DecryptString
<1>7. NewProvider(Merge(row[j]))' = NewProvider(Merge(row[j]))
  BY <1>6 DEF NewProvider
<1>8. Usable(row[j])'
  BY <1>1, <1>6 DEF Usable, ValidateLLMConfig, ProviderBaseURLCompatible
<1>9. JobFits(j)'
  <2>1. jpc'[j] = "ask" /\ attempt'[j] = 0 /\ provider'[j] = provider[j] /\ job'[j] = job[j]
    BY <1>1, <1>4 DEF ProviderInv, ProviderTypeOK
  <2>. QED  BY <1>1, <1>7, <1>8, <2>1, ProviderAssumption DEF JobFits
<1>10. ASSUME NEW o \in Tenancies PROVE CacheFits(o)'
  <2>1. CASE o # job[j].org
    BY <1>4, <2>1, CacheStays DEF ProviderInv, ProviderTypeOK
  <2>2. CASE o = job[j].org
    <3>1. cache'[o] = entry
      BY <1>4, <2>2 DEF ProviderInv, ProviderTypeOK
    <3>2. Merge(cache[o].settings)' = Merge(row[j])
      BY <1>3, <1>4, <3>1 DEF Merge, DecryptString
    <3>3. NewProvider(Merge(cache[o].settings))' = NewProvider(Merge(row[j]))
      BY <3>2 DEF NewProvider
    <3>4. Usable(cache[o].settings)'
      BY <1>1, <3>2 DEF Usable, ValidateLLMConfig, ProviderBaseURLCompatible
    <3>. QED  BY <1>1, <1>3, <3>1, <3>3, <3>4 DEF CacheFits
  <2>. QED  BY <2>1, <2>2
<1>11. DOMAIN job' = Jobs /\ \A k \in Jobs \ {j} : jpc'[k] = jpc[k]
  BY <1>4 DEF ProviderInv, ProviderTypeOK
<1>. QED  BY <1>4, <1>5, <1>9, <1>10, <1>11, TableStays, JobStepKeepsInv

LEMMA AskKeepsInv ==
  ASSUME ProviderInv, NEW j \in Jobs, NEW a \in Answers, Ask(j, a)
  PROVE  ProviderInv'
<1>. USE DEF Advance, storeVars
<1>1. /\ jpc[j] = "ask" /\ attempt[j] \in 0 .. MaxRetries /\ JobFits(j)
  BY ProviderAssumption DEF Ask, ProviderInv, ProviderTypeOK, JobFits
<1>2. PICK to \in {"ok", "ask", "refused"} :
        /\ jpc' = [jpc EXCEPT ![j] = to] /\ attempt' = [attempt EXCEPT ![j] = attempt[j] + 1]
        /\ to = "ask" => attempt[j] # MaxRetries
        /\ UNCHANGED <<settings, secret, cache, job, row, provider>>
  <2>. HIDE DEF ProviderInv
  <2>. DEFINE last == job[j].op = "probe" \/ attempt[j] = MaxRetries
              to == IF Succeeds(a) THEN "ok"
                    ELSE IF IsTransientLLMError(a) /\ ~ last THEN "ask" ELSE "refused"
  <2>1. /\ jpc' = [jpc EXCEPT ![j] = to] /\ attempt' = [attempt EXCEPT ![j] = attempt[j] + 1]
        /\ UNCHANGED <<settings, secret, cache, job, row, provider>>
    BY DEF Ask
  <2>2. to \in {"ok", "ask", "refused"} /\ (to = "ask" => attempt[j] # MaxRetries)
    OBVIOUS
  <2>. QED  BY <2>1, <2>2
<1>3. attempt[j] + 1 \in 0 .. MaxRetries + 1 /\ (to = "ask" => attempt[j] + 1 <= MaxRetries)
  BY <1>1, <1>2, ProviderAssumption
<1>4. ProviderTypeOK'
  BY <1>2, <1>3 DEF ProviderInv, ProviderTypeOK
<1>5. jpc'[j] = to /\ attempt'[j] = attempt[j] + 1
  BY <1>2 DEF ProviderInv, ProviderTypeOK
<1>6. Merge(row[j])' = Merge(row[j])
  BY <1>2 DEF Merge, DecryptString
<1>7. NewProvider(Merge(row[j]))' = NewProvider(Merge(row[j]))
  BY <1>6 DEF NewProvider
<1>8. Usable(row[j])' <=> Usable(row[j])
  BY <1>6 DEF Usable, ValidateLLMConfig, ProviderBaseURLCompatible
<1>9. JobFits(j)'
  BY <1>1, <1>2, <1>3, <1>5, <1>7, <1>8 DEF JobFits
<1>10. DOMAIN job' = Jobs /\ \A k \in Jobs \ {j} :
         /\ jpc'[k] = jpc[k] /\ job'[k] = job[k] /\ row'[k] = row[k]
         /\ provider'[k] = provider[k] /\ attempt'[k] = attempt[k]
  BY <1>2 DEF ProviderInv, ProviderTypeOK
<1>. QED  BY <1>2, <1>4, <1>9, <1>10, OwnStepKeepsInv

LEMMA RestartKeepsInv ==
  ASSUME ProviderInv, NEW s \in Secrets, Restart(s)
  PROVE  ProviderInv'
<1>. USE DEF Restart, jobVars
<1>1. ProviderTypeOK' /\ DOMAIN job' = Jobs
  BY DEF ProviderInv, ProviderTypeOK
<1>2. \A o \in Tenancies : CacheFits(o)'
  BY DEF CacheFits
<1>3. StoredSettingsAreValid'
  BY TableStays
<1>4. ASSUME NEW j \in Jobs PROVE JobFits(j)'
  <2>1. /\ jpc'[j] = IF jpc[j] \in {"idle", "ok"} THEN jpc[j] ELSE "refused"
        /\ JobFits(j)
    BY DEF ProviderInv
  <2>2. CASE jpc[j] = "idle"
    BY <2>1, <2>2 DEF JobFits
  <2>3. CASE jpc[j] # "idle"
    <3>1. jpc'[j] \in {"ok", "refused"}
      BY <2>1, <2>3
    <3>. QED  BY <2>1, <2>3, <3>1 DEF JobFits
  <2>. QED  BY <2>2, <2>3
<1>. QED  BY <1>1, <1>2, <1>3, <1>4 DEF ProviderInv

LEMMA ProviderStepKeepsInv == ProviderInv /\ [ProviderNext]_providerVars => ProviderInv'
<1>. SUFFICES ASSUME ProviderInv, [ProviderNext]_providerVars PROVE ProviderInv'
  OBVIOUS
<1>1. ASSUME NEW s \in Secrets, Restart(s) PROVE ProviderInv'
  BY <1>1, RestartKeepsInv
<1>2. ASSUME NEW j \in Jobs, NEW i \in JobInputs[j], Receive(j, i) PROVE ProviderInv'
  BY <1>2, ReceiveKeepsInv
<1>3. ASSUME NEW j \in Jobs, Abort(j) PROVE ProviderInv'
  BY <1>3, StayKeepsInv DEF Abort
<1>4. ASSUME NEW j \in Jobs, ReadExisting(j) PROVE ProviderInv'
  BY <1>4, ReadExistingKeepsInv
<1>5. ASSUME NEW j \in Jobs, Upsert(j) \/ Delete(j) \/ Invalidate(j) PROVE ProviderInv'
  BY <1>5, WriteKeepsInv
<1>6. ASSUME NEW j \in Jobs, GetByOrganizationID(j) \/ LookUp(j) PROVE ProviderInv'
  BY <1>6, ResolveKeepsInv
<1>7. ASSUME NEW j \in Jobs, Store(j) PROVE ProviderInv'
  BY <1>7, StoreKeepsInv
<1>8. ASSUME NEW j \in Jobs, NEW a \in Answers, Ask(j, a) PROVE ProviderInv'
  BY <1>8, AskKeepsInv
<1>9. CASE UNCHANGED providerVars
  <2>. USE <1>9 DEF providerVars, storeVars, jobVars
  <2>1. ProviderTypeOK' /\ DOMAIN job' = Jobs /\ StoredSettingsAreValid'
    BY TableStays DEF ProviderInv, ProviderTypeOK
  <2>2. \A o \in Tenancies : CacheFits(o)'
    BY CacheStays DEF ProviderInv
  <2>3. ASSUME NEW j \in Jobs PROVE ProviderInv'
    <3>1. Merge(row[j])' = Merge(row[j])
      BY DEF Merge, DecryptString
    <3>2. NewProvider(Merge(row[j]))' = NewProvider(Merge(row[j]))
      BY <3>1 DEF NewProvider
    <3>3. /\ Usable(row[j])' <=> Usable(row[j])
          /\ ValidateLLMConfig(Merge(row[j]))' <=> ValidateLLMConfig(Merge(row[j]))
      BY <3>1 DEF Usable, ValidateLLMConfig, ProviderBaseURLCompatible
    <3>4. JobFits(j)'
      BY <3>2, <3>3 DEF ProviderInv, JobFits
    <3>. QED  BY <2>1, <2>2, <3>4, JobStepKeepsInv
  <2>. QED  BY <2>1, <2>2, <2>3 DEF ProviderInv
<1>. QED  BY <1>1, <1>2, <1>3, <1>4, <1>5, <1>6, <1>7, <1>8, <1>9 DEF ProviderNext

THEOREM ProviderInvariant == ProviderSpec => []ProviderInv
<1>1. ProviderInit => ProviderInv
  BY ProviderAssumption DEF ProviderInit, ProviderInv, ProviderTypeOK, CacheFits, JobFits,
    StoredSettingsAreValid
<1>. QED  BY <1>1, ProviderStepKeepsInv, PTL DEF ProviderSpec

\* What the table holds is valid for its environment, however the updates of
\* one organization overlap, and whatever secret the server is started with.
THEOREM StoredSettingsStayValid == ProviderSpec => []StoredSettingsAreValid
<1>1. ProviderInv => StoredSettingsAreValid
  BY DEF ProviderInv
<1>. QED  BY <1>1, ProviderInvariant, PTL

\* Every call goes to the provider that the settings it read describe, enabled
\* and valid, whether it was built for the call or found in the cache.
THEOREM CallsFollow == ProviderSpec => []CallsFollowTheSettings
<1>1. ASSUME ProviderInv, NEW j \in Jobs, jpc[j] = "ask"
      PROVE  /\ provider[j] = NewProvider(Merge(row[j]))
             /\ provider[j].enabled
             /\ Production => (provider[j].provider = "mock" => AllowMockInProduction)
             /\ Production => provider[j].host # "loopback" \/ provider[j].provider # "ollama"
  <2>. DEFINE c == Merge(row[j])
  <2>1. /\ provider[j] = NewProvider(c) /\ c.enabled /\ ValidateLLMConfig(c)
        /\ c \in Configurations
    BY <1>1, MergeIsAConfiguration DEF ProviderInv, ProviderTypeOK, JobFits, Usable
  <2>. HIDE DEF c
  <2>2. c.provider \in {"mock", "gemma", "ollama"}
    BY <2>1 DEF Configurations, Providers
  <2>3. /\ NewProvider(c).enabled = c.enabled /\ NewProvider(c).provider = c.provider
        /\ c.provider = "ollama" => NewProvider(c).host = Or(c.host, "loopback")
    <3>1. CASE c.provider = "ollama"
      BY <2>1, <3>1 DEF NewProvider, Configurations
    <3>2. CASE c.provider = "gemma"
      BY <2>1, <3>2 DEF NewProvider, Configurations
    <3>3. CASE c.provider = "mock"
      BY <3>3 DEF NewProvider
    <3>. QED  BY <2>2, <3>1, <3>2, <3>3
  <2>. QED  BY <2>1, <2>3 DEF ValidateLLMConfig, Or, c
<1>2. ProviderInv => CallsFollowTheSettings
  BY <1>1 DEF CallsFollowTheSettings
<1>. QED  BY <1>2, ProviderInvariant, PTL

KeyColumn(s) == IF s = NoSettings THEN Blank ELSE s.enc

\* An organization's key changes only by an update that brings one or clears
\* it and by a reset, whatever the update had read before it was written.
THEOREM KeysChangeOnlyOnRequest == ProviderSpec => KeysChangeOnRequestOnly
<1>1. ASSUME ProviderInv, [ProviderNext]_providerVars, NEW o \in Tenancies,
             KeyColumn(settings'[o]) # KeyColumn(settings[o])
      PROVE  \E j \in Jobs :
               /\ jpc'[j] # jpc[j]
               /\ job[j].org = o
               /\ \/ job[j].op = "reset" \/ job[j].key = "clear"
                  \/ /\ KeyColumn(settings'[o]) # Blank
                     /\ KeyColumn(settings'[o]).plain = job[j].key
  <2>1. settings' # settings
    BY <1>1
  <2>2. PICK j \in Jobs : Upsert(j) \/ Delete(j)
    BY <1>1, <2>1 DEF ProviderNext, Restart, Receive, Abort, Stay, ReadExisting, Invalidate,
      GetByOrganizationID, LookUp, Store, Ask, providerVars, storeVars, jobVars
  <2>3. /\ jpc'[j] # jpc[j] /\ JobFits(j) /\ jpc[j] \in {"upsert", "delete"}
        /\ (Upsert(j) => jpc[j] = "upsert") /\ (Delete(j) => jpc[j] = "delete")
    BY <1>1, <2>2 DEF Upsert, Delete, Advance, ProviderInv, ProviderTypeOK
  <2>4. job[j] \in JobInputs[j] /\ job[j].org \in Tenancies
    BY <2>3, JobFields DEF JobFits
  <2>5. job[j].org = o
    BY <1>1, <2>2, <2>4 DEF Upsert, Delete, ProviderInv, ProviderTypeOK
  <2>6. CASE Delete(j)
    BY <2>3, <2>5, <2>6 DEF JobFits
  <2>7. CASE Upsert(j)
    <3>. DEFINE kept == IF settings[o] = NoSettings THEN Blank ELSE settings[o].enc
                e == IF UpdatesKey(job[j]) THEN row[j].enc ELSE kept
                t == [row[j] EXCEPT !.enc = e]
    <3>1. row[j] \in Settings
      BY <1>1, <2>3, <2>7 DEF ProviderInv, ProviderTypeOK, JobFits
    <3>2. settings'[o] = t
      BY <1>1, <2>4, <2>5, <2>7, <3>1 DEF Upsert, ProviderInv, ProviderTypeOK, Settings
    <3>3. settings[o] \in Settings \union {NoSettings}
      BY <1>1 DEF ProviderInv, ProviderTypeOK
    <3>4. e \in EncryptedKeys
      BY <3>1, <3>3, SettingsFields DEF EncryptedKeys
    <3>. HIDE DEF e
    <3>5. t \in Settings /\ t.enc = e
      BY <3>1, <3>4 DEF Settings
    <3>6. KeyColumn(settings'[o]) = e
      BY <3>2, <3>5, SettingsFields DEF KeyColumn
    <3>7. UpdatesKey(job[j]) /\ e = row[j].enc
      BY <1>1, <3>6 DEF KeyColumn, e
    <3>. QED  BY <2>3, <2>5, <2>7, <3>6, <3>7 DEF JobFits, UpdatesKey
  <2>. QED  BY <2>2, <2>6, <2>7
<1>2. ProviderInv /\ [ProviderNext]_providerVars =>
        [\A o \in Tenancies :
           LET key(s) == IF s = NoSettings THEN Blank ELSE s.enc IN
           key(settings'[o]) # key(settings[o]) =>
             \E j \in Jobs :
               /\ jpc'[j] # jpc[j]
               /\ job[j].org = o
               /\ \/ job[j].op = "reset" \/ job[j].key = "clear"
                  \/ key(settings'[o]) # Blank /\ key(settings'[o]).plain = job[j].key]_providerVars
  BY <1>1 DEF KeyColumn
<1>. QED  BY <1>2, ProviderInvariant, PTL DEF ProviderSpec, KeysChangeOnRequestOnly


----------------------------------------------------------------------------
(***************************************************************************)
(* Bulks and readiness.                                                    *)
(***************************************************************************)
\* The stages a request of each kind passes, before it is answered.
StagesOf(op) ==
  CASE op = "answer"    -> {"question", "upsert"}
    [] op = "bulk"      -> {"begin", "write"}
    [] op = "profile"   -> {"read", "save"}
    [] op = "readiness" -> {"completeness", "missing", "documents"}

\* A request is at a stage of its kind, a bulk has found each question of the
\* items it has written, and no profile scores between 96 and 100.
Steps == (0 .. 96) \union {100}

EditFits(r) ==
  /\ edit[r] = NoRequest <=> epc[r] = "idle"
  /\ epc[r] \notin {"idle", "workspace", "ok", "refused"} => epc[r] \in StagesOf(edit[r].op)
  /\ epc[r] = "upsert" => edit[r].question \in Questions
  /\ epc[r] \notin {"write", "ok", "refused"} => item[r] = 1
  /\ epc[r] = "write" =>
       /\ item[r] \in 1 .. Len(edit[r].items) + 1
       /\ \A k \in 1 .. item[r] - 1 : edit[r].items[k].question \in Questions
  /\ seen[r].profile \in Steps
  /\ seen[r].answered <= seen[r].total /\ seen[r].total < 100
  /\ seen[r].answered = seen[r].total => seen[r].missing = {}
  /\ epc[r] # "ok" => seen[r].score = 0

\* No row is from a request that is still at work: one that has written has
\* succeeded, or lost the reply to its commit.
AuthorsAreDone ==
  \A q \in Questions : author[q] \in Edits => epc[author[q]] \in {"ok", "refused"}

StudioInv ==
  /\ StudioTypeOK
  /\ \A r \in Edits : EditFits(r)
  /\ AuthorsAreDone
  /\ ReadyMeansReady

\* What a request brings, by its kind.
LEMMA EditFields ==
  ASSUME NEW i \in EditInputs
  PROVE  /\ i.op \in {"answer", "bulk", "profile", "readiness"}
         /\ i.own \in BOOLEAN
         /\ i.op = "answer" => i.value \in Values
         /\ i.op = "bulk" =>
              i.items \in Seq([question : Questions \union {UnknownQuestion}, value : Values])
         /\ i.op = "profile" => i.level \in 0 .. 3
         /\ i # NoRequest
<1>. i \in EditRequests
  BY StudioAssumption
<1>1. i # NoRequest
  BY StudioAssumption
<1>2. CASE i \in [op : {"answer"}, own : BOOLEAN,
                  question : Questions \union {UnknownQuestion}, value : Values]
  BY <1>1, <1>2
<1>3. CASE i \in [op : {"bulk"}, own : BOOLEAN,
                  items : Seq([question : Questions \union {UnknownQuestion}, value : Values])]
  BY <1>1, <1>3
<1>4. CASE i \in [op : {"profile"}, own : BOOLEAN,
                  fields : SUBSET (General \union Sections), level : 0 .. 3]
  BY <1>1, <1>4
<1>5. CASE i \in [op : {"readiness"}, own : BOOLEAN]
  BY <1>1, <1>5
<1>. QED  BY <1>2, <1>3, <1>4, <1>5 DEF EditRequests

\* The score of a profile: one of the steps.
LEMMA CompletenessSteps ==
  ASSUME NEW p \in Profiles
  PROVE  CalculateCompleteness(p) \in Steps
<1>1. \A f \in General : p[f] \in {0, 1}
  BY DEF Profiles, General, Sections
<1>2. \A f \in Sections : SectionScore(p, f) \in {0, 3, 6, 10}
  <2>. SUFFICES ASSUME NEW f \in Sections PROVE SectionScore(p, f) \in {0, 3, 6, 10}
    OBVIOUS
  <2>1. p[f] \in 0 .. 3
    BY DEF Profiles, General, Sections
  <2>. QED  BY <2>1 DEF SectionScore
<1>. DEFINE G == Weight("project_name") * p["project_name"]
                   + Weight("project_description") * p["project_description"]
                   + Weight("product_type") * p["product_type"]
                   + Weight("target_users") * p["target_users"]
                   + Weight("main_problem") * p["main_problem"]
                   + Weight("main_use_cases") * p["main_use_cases"]
            S == SectionScore(p, "frontend") + SectionScore(p, "backend") + SectionScore(p, "data")
                   + SectionScore(p, "infrastructure") + SectionScore(p, "ai")
                   + SectionScore(p, "development_standards")
<1>3. G \in (0 .. 34) \union {40}
  <2>1. /\ p["project_name"] \in {0, 1} /\ p["project_description"] \in {0, 1}
        /\ p["product_type"] \in {0, 1} /\ p["target_users"] \in {0, 1}
        /\ p["main_problem"] \in {0, 1} /\ p["main_use_cases"] \in {0, 1}
    BY <1>1 DEF General
  <2>. HIDE <1>1
  <2>. QED  BY <2>1 DEF Weight
<1>4. S \in (0 .. 56) \union {60}
  <2>1. /\ SectionScore(p, "frontend") \in {0, 3, 6, 10}
        /\ SectionScore(p, "backend") \in {0, 3, 6, 10}
        /\ SectionScore(p, "data") \in {0, 3, 6, 10}
        /\ SectionScore(p, "infrastructure") \in {0, 3, 6, 10}
        /\ SectionScore(p, "ai") \in {0, 3, 6, 10}
        /\ SectionScore(p, "development_standards") \in {0, 3, 6, 10}
    BY <1>2 DEF Sections
  <2>. QED  BY <2>1
<1>5. CalculateCompleteness(p) = G + S
  <2>1. /\ p["project_name"] \in Int /\ p["project_description"] \in Int
        /\ p["product_type"] \in Int /\ p["target_users"] \in Int
        /\ p["main_problem"] \in Int /\ p["main_use_cases"] \in Int
    BY <1>1 DEF General
  <2>2. /\ SectionScore(p, "frontend") \in Int
        /\ SectionScore(p, "backend") \in Int
        /\ SectionScore(p, "data") \in Int
        /\ SectionScore(p, "infrastructure") \in Int
        /\ SectionScore(p, "ai") \in Int
        /\ SectionScore(p, "development_standards") \in Int
    BY <1>2 DEF Sections
  <2>. QED  BY <2>1, <2>2 DEF CalculateCompleteness, Weight
<1>. QED  BY <1>3, <1>4, <1>5 DEF Steps

\* The share of answered questions: full, or below 99 percent.
LEMMA QuestionnaireSteps ==
  ASSUME NEW a \in Nat, NEW n \in Nat, a <= n, n < 100
  PROVE  /\ QuestionnairePct(a, n) \in 0 .. 100
         /\ a # n => QuestionnairePct(a, n) <= 98
<1>1. CASE n = 0
  BY <1>1 DEF QuestionnairePct
<1>2. CASE n # 0
  <2>. DEFINE x == (100 * a) \div n
  <2>1. x \in Nat /\ n * x <= 100 * a
    BY <1>2
  <2>2. x <= 100
    <3>. SUFFICES ASSUME x > 100 PROVE FALSE
      BY <2>1
    <3>1. n * x >= n * 101
      BY <2>1
    <3>. QED  BY <3>1, <2>1, <1>2
  <2>3. ASSUME a # n PROVE x <= 98
    <3>. SUFFICES ASSUME x > 98 PROVE FALSE
      BY <2>1
    <3>1. n * x >= n * 99
      BY <2>1
    <3>2. 100 * a <= 100 * n - 100
      BY <2>3
    <3>. QED  BY <3>1, <3>2, <2>1
  <2>. QED  BY <2>1, <2>2, <2>3, <1>2 DEF QuestionnairePct
<1>. QED  BY <1>1, <1>2

\* Only what is complete is rounded to 100.
LEMMA FullScore ==
  ASSUME NEW p \in Steps, NEW q \in 0 .. 100, NEW d \in {0, 100}
  PROVE  /\ CalculateReadinessScore(p, q, d) \in 0 .. 100
         /\ CalculateReadinessScore(p, q, d) = 100 => p = 100 /\ q > 98 /\ d = 100
<1>1. p \in Int
  BY DEF Steps
<1>. QED  BY <1>1 DEF CalculateReadinessScore, Steps

\* A step of one request leaves the others as they are.
LEMMA EditStepKeepsInv ==
  ASSUME StudioInv, NEW r \in Edits, StudioTypeOK', EditFits(r)',
         \A s \in Edits \ {r} : /\ edit'[s] = edit[s] /\ epc'[s] = epc[s]
                                /\ item'[s] = item[s] /\ seen'[s] = seen[s],
         epc[r] \notin {"ok", "refused"},
         succeeded' = succeeded,
         \A q \in Questions :
           author'[q] = author[q] \/ (author'[q] = r /\ epc'[r] \in {"ok", "refused"}),
         seen'[r].score = 100 =>
           seen'[r].profile = 100 /\ seen'[r].missing = {} /\ succeeded
  PROVE  StudioInv'
<1>1. ASSUME NEW s \in Edits PROVE EditFits(s)'
  <2>1. CASE s = r
    BY <2>1
  <2>2. CASE s # r
    BY <2>2 DEF StudioInv, EditFits
  <2>. QED  BY <2>1, <2>2
<1>2. AuthorsAreDone'
  BY DEF StudioInv, AuthorsAreDone
<1>3. ReadyMeansReady'
  BY DEF StudioInv, ReadyMeansReady
<1>. QED  BY <1>1, <1>2, <1>3 DEF StudioInv

LEMMA CheckKeepsInv ==
  ASSUME StudioInv, NEW r \in Edits, NEW from, NEW to \in EditStages \ {"idle", "workspace", "ok"},
         Check(r, from, to),
         from \notin {"idle", "ok", "refused"},
         to # "refused" => /\ to \in StagesOf(edit[r].op)
                           /\ to = "upsert" => edit[r].question \in Questions
                           /\ from # "write"
         PROVE  StudioInv'
<1>. USE DEF Check, Turn, studioTables
<1>1. StudioTypeOK'
  BY DEF StudioInv, StudioTypeOK
<1>2. EditFits(r)'
  <2>1. EditFits(r) /\ epc' = [epc EXCEPT ![r] = to] /\ epc[r] = from /\ epc'[r] = to
    BY DEF StudioInv, StudioTypeOK
  <2>2. CASE to = "refused"
    BY <2>1, <2>2 DEF EditFits
  <2>3. CASE to # "refused"
    BY <2>1, <2>3 DEF EditFits
  <2>. QED  BY <2>2, <2>3
<1>3. \A s \in Edits \ {r} : epc'[s] = epc[s]
  BY DEF StudioInv, StudioTypeOK
<1>4. seen[r].score = 0
  BY DEF StudioInv, EditFits
<1>. QED  BY <1>1, <1>2, <1>3, <1>4, EditStepKeepsInv DEF StudioInv

LEMMA SubmitKeepsInv ==
  ASSUME StudioInv, NEW r \in Edits, NEW i \in EditInputs, Submit(r, i)
  PROVE  StudioInv'
<1>. USE DEF Submit, Turn, studioTables
<1>1. i # NoRequest
  BY EditFields
<1>2. StudioTypeOK'
  BY DEF StudioInv, StudioTypeOK, EditStages
<1>3. EditFits(r)'
  <2>1. epc[r] = "idle" /\ epc'[r] = "workspace" /\ edit'[r] = i
    BY DEF StudioInv, StudioTypeOK
  <2>2. EditFits(r) /\ item'[r] = item[r] /\ seen'[r] = seen[r]
    BY DEF StudioInv
  <2>. QED  BY <1>1, <2>1, <2>2 DEF EditFits
<1>4. \A s \in Edits \ {r} : epc'[s] = epc[s] /\ edit'[s] = edit[s]
  BY DEF StudioInv, StudioTypeOK
<1>5. seen[r].score = 0
  BY DEF StudioInv, EditFits
<1>. QED  BY <1>2, <1>3, <1>4, <1>5, EditStepKeepsInv DEF StudioInv

\* Looking the workspace or the question up, opening a transaction, giving up.
LEMMA AdvanceKeepsInv ==
  ASSUME StudioInv, NEW r \in Edits,
         ResolveWorkspace(r) \/ Falter(r) \/ GetQuestion(r) \/ BeginBulk(r)
  PROVE  StudioInv'
<1>. EditFits(r) /\ epc[r] \in EditStages
  BY DEF StudioInv, StudioTypeOK
<1>1. CASE ResolveWorkspace(r)
  <2>1. epc[r] = "workspace"
    BY <1>1 DEF ResolveWorkspace, Check, Turn
  <2>2. edit[r] \in EditInputs
    BY <2>1 DEF StudioInv, StudioTypeOK, EditFits
  <2>. DEFINE to == IF edit[r].own THEN AfterWorkspace(edit[r]) ELSE "refused"
  <2>3. to = "refused" \/ to \in StagesOf(edit[r].op) \ {"upsert"}
    BY <2>2, EditFields DEF AfterWorkspace, StagesOf
  <2>4. StagesOf(edit[r].op) \subseteq EditStages \ {"idle", "workspace", "ok"}
    BY <2>2, EditFields DEF StagesOf, EditStages
  <2>5. to \in EditStages \ {"idle", "workspace", "ok"}
    BY <2>3, <2>4 DEF EditStages
  <2>6. Check(r, "workspace", to)
    BY <1>1 DEF ResolveWorkspace
  <2>. HIDE DEF to
  <2>. QED  BY <2>3, <2>5, <2>6, CheckKeepsInv
<1>2. CASE Falter(r)
  BY <1>2, CheckKeepsInv DEF Falter, EditStages
<1>3. CASE GetQuestion(r)
  <2>1. epc[r] = "question"
    BY <1>3 DEF GetQuestion, Check, Turn
  <2>2. edit[r].op = "answer"
    <3>1. edit[r] \in EditInputs
      BY <2>1 DEF StudioInv, StudioTypeOK, EditFits
    <3>. QED  BY <2>1, <3>1, EditFields DEF EditFits, StagesOf
  <2>. DEFINE to == IF edit[r].question \in Questions THEN "upsert" ELSE "refused"
  <2>3. to \in EditStages \ {"idle", "workspace", "ok"} /\ Check(r, "question", to)
    BY <1>3 DEF EditStages, GetQuestion
  <2>4. to # "refused" => /\ to \in StagesOf(edit[r].op)
                          /\ to = "upsert" => edit[r].question \in Questions
    BY <2>2 DEF StagesOf
  <2>. HIDE DEF to
  <2>. QED  BY <2>3, <2>4, CheckKeepsInv
<1>4. CASE BeginBulk(r)
  <2>1. epc[r] = "begin" /\ Check(r, "begin", "write")
    BY <1>4 DEF BeginBulk, Check, Turn
  <2>2. edit[r] \in EditInputs
    BY <2>1 DEF StudioInv, StudioTypeOK, EditFits
  <2>3. edit[r].op = "bulk"
    BY <2>1, <2>2, EditFields DEF EditFits, StagesOf
  <2>4. edit[r].items \in Seq([question : Questions \union {UnknownQuestion}, value : Values])
    BY <2>2, <2>3, EditFields
  <2>5. StudioTypeOK'
    BY <2>1 DEF StudioInv, StudioTypeOK, Check, Turn, studioTables, EditStages
  <2>6. item'[r] = 1 /\ item' = item /\ edit' = edit /\ seen' = seen /\ epc'[r] = "write"
    BY <2>1 DEF StudioInv, StudioTypeOK, EditFits, Check, Turn
  <2>7. EditFits(r)'
    BY <2>1, <2>3, <2>4, <2>6 DEF EditFits, StagesOf
  <2>8. \A s \in Edits \ {r} : epc'[s] = epc[s]
    BY <2>1 DEF StudioInv, StudioTypeOK, Check, Turn
  <2>9. seen[r].score = 0
    BY <2>1 DEF EditFits
  <2>. QED  BY <2>1, <2>5, <2>6, <2>7, <2>8, <2>9, EditStepKeepsInv
       DEF StudioInv, Check, studioTables
<1>. QED  BY <1>1, <1>2, <1>3, <1>4

LEMMA UpsertAnswerKeepsInv ==
  ASSUME StudioInv, NEW r \in Edits, UpsertAnswer(r)
  PROVE  StudioInv'
<1>. USE DEF UpsertAnswer, Turn
<1>1. EditFits(r) /\ epc[r] = "upsert" /\ edit[r] \in EditInputs /\ edit[r].question \in Questions
  BY DEF StudioInv, StudioTypeOK, EditFits
<1>2. edit[r].value \in Values
  BY <1>1, EditFields DEF EditFits, StagesOf
<1>3. StudioTypeOK'
  BY <1>1, <1>2 DEF StudioInv, StudioTypeOK, EditStages
<1>4. /\ epc'[r] = "ok" /\ edit' = edit /\ item' = item /\ seen' = seen
      /\ \A s \in Edits \ {r} : epc'[s] = epc[s]
  BY DEF StudioInv, StudioTypeOK
<1>5. EditFits(r)'
  BY <1>1, <1>4 DEF EditFits
<1>6. \A q \in Questions : author'[q] = author[q] \/ author'[q] = r
  BY DEF StudioInv, StudioTypeOK
<1>. QED  BY <1>1, <1>3, <1>4, <1>5, <1>6, EditStepKeepsInv DEF StudioInv, EditFits

\* A bulk that writes brings a list of items.
LEMMA WritingBulk ==
  ASSUME StudioInv, NEW r \in Edits, epc[r] = "write"
  PROVE  /\ edit[r] \in EditInputs /\ edit[r].op = "bulk"
         /\ Items(r) \in Seq([question : Questions \union {UnknownQuestion}, value : Values])
         /\ item[r] \in 1 .. Len(Items(r)) + 1
         /\ \A k \in 1 .. item[r] - 1 : Items(r)[k].question \in Questions
<1>1. edit[r] \in EditInputs
  BY DEF StudioInv, StudioTypeOK, EditFits
<1>2. edit[r].op = "bulk"
  BY <1>1, EditFields DEF StudioInv, EditFits, StagesOf
<1>. QED  BY <1>1, <1>2, EditFields DEF StudioInv, EditFits, Items

LEMMA WriteItemKeepsInv ==
  ASSUME StudioInv, NEW r \in Edits, WriteItem(r)
  PROVE  StudioInv'
<1>. USE DEF WriteItem, Writing, Target
<1>1. EditFits(r) /\ epc[r] = "write"
  BY DEF StudioInv
<1>2. /\ item[r] \in 1 .. Len(Items(r)) /\ Len(Items(r)) \in Nat
      /\ \A k \in 1 .. item[r] : Items(r)[k].question \in Questions
  BY <1>1, WritingBulk
<1>3. /\ item'[r] = item[r] + 1 /\ edit' = edit /\ epc' = epc /\ seen' = seen
      /\ \A s \in Edits \ {r} : item'[s] = item[s]
  BY DEF StudioInv, StudioTypeOK
<1>4. StudioTypeOK'
  <2>1. item' \in [Edits -> Nat] /\ holder' \in [Questions -> Edits \union {NoOne}]
    BY <1>2 DEF StudioInv, StudioTypeOK
  <2>. QED  BY <2>1 DEF StudioInv, StudioTypeOK
<1>5. EditFits(r)'
  BY <1>1, <1>2, <1>3 DEF EditFits, Items
<1>. QED  BY <1>1, <1>3, <1>4, <1>5, EditStepKeepsInv DEF StudioInv, EditFits

\* Bounded naturals have a greatest one.
LEMMA GreatestExists ==
  ASSUME NEW n \in Nat, NEW S, S \subseteq 0 .. n, S # {}
  PROVE  \E m \in S : \A x \in S : m >= x
<1>. DEFINE Below == OpToRel(<, Nat)
            T == {y \in Nat : n - y \in S}
<1>1. \A x, y \in Nat : <<x, y>> \in Below <=> x < y
  BY DEF OpToRel
<1>2. IsWellFoundedOn(Below, Nat)
  BY NatLessThanWellFounded
<1>. HIDE DEF Below
<1>3. T \subseteq Nat /\ T # {}
  <2>1. PICK x \in S : x \in 0 .. n
    OBVIOUS
  <2>2. n - x \in Nat /\ n - (n - x) = x
    BY <2>1
  <2>3. n - x \in T
    BY <2>1, <2>2
  <2>. QED  BY <2>3
<1>4. PICK t \in T : \A y \in T : ~ (<<y, t>> \in Below)
  <2>. HIDE DEF T
  <2>. QED  BY <1>2, <1>3, WFMin
<1>5. ASSUME NEW x \in S PROVE n - t >= x
  <2>1. x \in 0 .. n /\ n - x \in Nat /\ n - (n - x) = x
    OBVIOUS
  <2>2. n - x \in T
    BY <2>1
  <2>3. ~ (n - x < t)
    BY <1>1, <1>3, <1>4, <2>1, <2>2
  <2>. QED  BY <2>1, <2>3, <1>3
<1>. QED  BY <1>5

\* The last item of a question a bulk has written.
LEMMA LastItemIsLast ==
  ASSUME StudioInv, NEW r \in Edits, epc[r] = "write", ~ Writing(r)
  PROVE  /\ item[r] = Len(Items(r)) + 1
         /\ DOMAIN Items(r) = 1 .. Len(Items(r))
         /\ Written(r) = {Items(r)[k].question : k \in DOMAIN Items(r)}
         /\ Written(r) \subseteq Questions
         /\ \A q \in Written(r) : Items(r)[LastItem(r, q)].value \in Values
         /\ \A k \in DOMAIN Items(r) :
              (\A l \in k + 1 .. Len(Items(r)) : Items(r)[l].question # Items(r)[k].question)
                => LastItem(r, Items(r)[k].question) = k
<1>. DEFINE s == Items(r)
<1>1. s \in Seq([question : Questions \union {UnknownQuestion}, value : Values])
  BY WritingBulk
<1>2. item[r] = Len(s) + 1
  BY WritingBulk DEF Writing
<1>3. DOMAIN s = 1 .. Len(s) /\ Len(s) \in Nat
  BY <1>1
<1>4. Written(r) = {s[k].question : k \in DOMAIN s}
  BY <1>2, <1>3 DEF Written
<1>5. Written(r) \subseteq Questions
  BY WritingBulk DEF Written
<1>6. ASSUME NEW q \in Written(r) PROVE s[LastItem(r, q)].value \in Values
  <2>. DEFINE S == {k \in DOMAIN s : s[k].question = q}
  <2>1. S # {} /\ S \subseteq 0 .. Len(s)
    BY <1>3, <1>4, <1>6
  <2>2. \E m \in S : \A x \in S : m >= x
    BY <1>3, <2>1, GreatestExists
  <2>3. LastItem(r, q) \in S
    BY <2>2 DEF LastItem, Max
  <2>4. \A k \in 1 .. Len(s) :
          s[k] \in [question : Questions \union {UnknownQuestion}, value : Values]
    <3>. DEFINE R == [question : Questions \union {UnknownQuestion}, value : Values]
    <3>1. s \in Seq(R)
      BY <1>1
    <3>. HIDE DEF R, s
    <3>2. \A k \in 1 .. Len(s) : s[k] \in R
      BY <3>1
    <3>. QED  BY <3>2 DEF R
  <2>5. \A k \in DOMAIN s : s[k].value \in Values
    BY <1>3, <2>4
  <2>. HIDE DEF s
  <2>. QED  BY <2>3, <2>5
<1>7. ASSUME NEW k \in DOMAIN s, \A l \in k + 1 .. Len(s) : s[l].question # s[k].question
      PROVE  LastItem(r, s[k].question) = k
  <2>. DEFINE S == {l \in DOMAIN s : s[l].question = s[k].question}
  <2>1. k \in S /\ \A x \in S : k >= x
    BY <1>3, <1>7
  <2>2. \A m \in S : (\A x \in S : m >= x) => m = k
    BY <1>3, <2>1
  <2>. QED  BY <2>1, <2>2 DEF LastItem, Max
<1>. QED  BY <1>2, <1>3, <1>4, <1>5, <1>6, <1>7

LEMMA EndOfBulkKeepsInv ==
  ASSUME StudioInv, NEW r \in Edits, CommitBulk(r) \/ RollbackBulk(r)
  PROVE  StudioInv'
<1>. USE DEF CommitBulk, RollbackBulk, Turn
<1>1. EditFits(r) /\ epc[r] = "write" /\ epc'[r] \in {"ok", "refused"}
  BY DEF StudioInv, StudioTypeOK
<1>2. /\ edit' = edit /\ item' = item /\ seen' = seen /\ succeeded' = succeeded
      /\ \A s \in Edits \ {r} : epc'[s] = epc[s]
  BY DEF StudioInv, StudioTypeOK
<1>3. EditFits(r)'
  BY <1>1, <1>2 DEF EditFits
<1>4. \A q \in Questions :
        author'[q] = author[q] \/ (author'[q] = r /\ epc'[r] \in {"ok", "refused"})
  BY DEF StudioInv, StudioTypeOK
<1>5. holder' \in [Questions -> Edits \union {NoOne}]
  BY DEF StudioInv, StudioTypeOK
<1>6. StudioTypeOK'
  <2>1. CASE CommitBulk(r)
    <3>1. \A q \in Written(r) : Items(r)[LastItem(r, q)].value \in Values
      BY <2>1, <1>1, LastItemIsLast
    <3>. QED  BY <2>1, <3>1, <1>5 DEF StudioInv, StudioTypeOK, EditStages
  <2>2. CASE RollbackBulk(r)
    BY <2>2, <1>5 DEF StudioInv, StudioTypeOK, EditStages
  <2>. QED  BY <2>1, <2>2
<1>. QED  BY <1>1, <1>2, <1>3, <1>4, <1>6, EditStepKeepsInv DEF StudioInv, EditFits

LEMMA ProfileStepKeepsInv ==
  ASSUME StudioInv, NEW r \in Edits, ReadProfile(r) \/ SaveProfile(r)
  PROVE  StudioInv'
<1>. USE DEF ReadProfile, SaveProfile, Turn, studioTables
<1>1. EditFits(r) /\ epc[r] \in {"read", "save"} /\ epc'[r] \in {"save", "ok"}
  BY DEF StudioInv, StudioTypeOK
<1>2. edit[r] \in EditInputs /\ edit[r].op = "profile" /\ edit[r].level \in 0 .. 3
  <2>1. edit[r] \in EditInputs
    BY <1>1 DEF StudioInv, StudioTypeOK, EditFits
  <2>. QED  BY <1>1, <2>1, EditFields DEF EditFits, StagesOf
<1>3. /\ edit' = edit /\ item' = item /\ seen' = seen /\ succeeded' = succeeded /\ author' = author
      /\ \A s \in Edits \ {r} : epc'[s] = epc[s]
  BY DEF StudioInv, StudioTypeOK
<1>4. ApplyUpsertRequest(profile, edit[r]) \in Profiles
  <2>1. profile \in Profiles
    BY DEF StudioInv, StudioTypeOK
  <2>. QED  BY <1>2, <2>1 DEF ApplyUpsertRequest, Profiles
<1>5. StudioTypeOK'
  <2>1. epc' \in [Edits -> EditStages] /\ profile' \in Profiles /\ draft' \in [Edits -> Profiles]
    <3>1. epc' \in [Edits -> EditStages]
      BY DEF StudioInv, StudioTypeOK, EditStages
    <3>2. CASE ReadProfile(r)
      BY <1>4, <3>1, <3>2 DEF StudioInv, StudioTypeOK
    <3>3. CASE SaveProfile(r)
      BY <3>1, <3>3 DEF StudioInv, StudioTypeOK
    <3>. QED  BY <3>2, <3>3
  <2>2. <<answer, author, holder, succeeded, edit, item, seen>>'
          = <<answer, author, holder, succeeded, edit, item, seen>>
    OBVIOUS
  <2>. QED  BY <2>1, <2>2 DEF StudioInv, StudioTypeOK
<1>6. EditFits(r)'
  BY <1>1, <1>2, <1>3 DEF EditFits, StagesOf
<1>. QED  BY <1>1, <1>3, <1>5, <1>6, EditStepKeepsInv DEF StudioInv, EditFits

LEMMA ReadinessStepKeepsInv ==
  ASSUME StudioInv, NEW r \in Edits, ReadCompleteness(r) \/ ReadMissing(r) \/ ReadDocuments(r)
  PROVE  StudioInv'
<1>. USE DEF Turn, studioTables
<1>1. /\ EditFits(r) /\ edit[r] \in EditInputs /\ edit[r].op = "readiness"
      /\ epc[r] \in {"completeness", "missing", "documents"}
  <2>1. /\ EditFits(r) /\ epc[r] \in {"completeness", "missing", "documents"}
        /\ edit[r] \in EditInputs
    BY DEF StudioInv, StudioTypeOK, EditFits, ReadCompleteness, ReadMissing, ReadDocuments
  <2>. QED  BY <2>1, EditFields DEF EditFits, StagesOf
<1>2. /\ edit' = edit /\ item' = item /\ succeeded' = succeeded /\ author' = author
      /\ \A s \in Edits \ {r} : epc'[s] = epc[s] /\ seen'[s] = seen[s]
  BY DEF StudioInv, StudioTypeOK, ReadCompleteness, ReadMissing, ReadDocuments
<1>. DEFINE Reports == [profile : 0 .. 100, answered : Nat, total : Nat,
                        missing : SUBSET Questions, score : 0 .. 100]
<1>3. seen[r] \in Reports /\ seen[r].score = 0
  BY <1>1 DEF StudioInv, StudioTypeOK, EditFits
<1>4. ASSUME epc' \in [Edits -> EditStages], seen'[r] \in Reports
      PROVE  StudioTypeOK'
  <2>1. seen' \in [Edits -> Reports]
    BY <1>4 DEF StudioInv, StudioTypeOK, ReadCompleteness, ReadMissing, ReadDocuments
  <2>2. <<profile, answer, author, holder, succeeded, edit, item, draft>>'
          = <<profile, answer, author, holder, succeeded, edit, item, draft>>
    BY DEF ReadCompleteness, ReadMissing, ReadDocuments
  <2>. QED  BY <1>4, <2>1, <2>2 DEF StudioInv, StudioTypeOK
<1>5. CASE ReadCompleteness(r)
  <2>. DEFINE c == CalculateCompleteness(profile)
  <2>1. c \in Steps /\ c \in 0 .. 100
    BY CompletenessSteps DEF StudioInv, StudioTypeOK, Steps
  <2>. HIDE DEF c
  <2>2. /\ epc'[r] = "missing" /\ epc' \in [Edits -> EditStages]
        /\ seen'[r] = [seen[r] EXCEPT !.profile = c]
    BY <1>5 DEF ReadCompleteness, StudioInv, StudioTypeOK, EditStages, c
  <2>3. EditFits(r)'
    BY <1>1, <1>2, <1>3, <2>1, <2>2 DEF EditFits, StagesOf
  <2>4. StudioTypeOK' /\ seen'[r].score = 0
    BY <1>3, <1>4, <2>1, <2>2
  <2>. QED  BY <1>1, <1>2, <2>3, <2>4, EditStepKeepsInv
<1>6. CASE ReadMissing(r)
  <2>. DEFINE N == Needed(answer)
              there == {q \in N : Answered(q, answer)}
              missing == {q \in N : IsEmptyValue(answer[q])}
              a == Cardinality(there)
              n == Cardinality(N)
  <2>1. N \subseteq Required
    BY DEF Needed
  <2>2. IsFiniteSet(N) /\ n \in Nat /\ n < 100
    <3>1. IsFiniteSet(Required) /\ Cardinality(Required) < 100 /\ Cardinality(Required) \in Nat
      BY StudioAssumption, FS_CardinalityType
    <3>. HIDE DEF N
    <3>2. IsFiniteSet(N) /\ n <= Cardinality(Required)
      BY <2>1, <3>1, FS_Subset
    <3>. QED  BY <3>1, <3>2, FS_CardinalityType
  <2>3. a \in Nat /\ a <= n /\ (a = n => there = N)
    <3>. HIDE DEF N
    <3>1. there \subseteq N
      OBVIOUS
    <3>. QED  BY <2>2, <3>1, FS_Subset, FS_CardinalityType
  <2>4. a = n => missing = {}
    BY <2>3 DEF Answered
  <2>5. missing \subseteq Questions
    BY <2>1, StudioAssumption
  <2>6. seen' = [seen EXCEPT ![r].answered = a, ![r].total = n, ![r].missing = missing]
    BY <1>6 DEF ReadMissing
  <2>. HIDE DEF N, there, missing, a, n
  <2>7. /\ epc'[r] = "documents" /\ epc' \in [Edits -> EditStages]
        /\ seen'[r] = [seen[r] EXCEPT !.answered = a, !.total = n, !.missing = missing]
    BY <1>6, <2>6 DEF ReadMissing, StudioInv, StudioTypeOK, EditStages
  <2>8. EditFits(r)'
    BY <1>1, <1>2, <1>3, <2>2, <2>3, <2>4, <2>7 DEF EditFits, StagesOf
  <2>9. StudioTypeOK' /\ seen'[r].score = 0
    BY <1>3, <1>4, <2>2, <2>3, <2>5, <2>7
  <2>. QED  BY <1>1, <1>2, <2>8, <2>9, EditStepKeepsInv
<1>7. CASE ReadDocuments(r)
  <2>. DEFINE s == seen[r]
              q == QuestionnairePct(s.answered, s.total)
              d == IF succeeded THEN 100 ELSE 0
              score == CalculateReadinessScore(s.profile, q, d)
  <2>1. s.answered \in Nat /\ s.total \in Nat /\ s.answered <= s.total /\ s.total < 100
    BY <1>1, <1>3 DEF EditFits
  <2>2. q \in 0 .. 100 /\ (s.answered # s.total => q <= 98)
    BY <2>1, QuestionnaireSteps
  <2>3. d \in {0, 100} /\ s.profile \in Steps
    BY <1>1 DEF EditFits
  <2>. HIDE DEF q, d
  <2>4. score \in 0 .. 100 /\ (score = 100 => s.profile = 100 /\ q > 98 /\ d = 100)
    BY <2>2, <2>3, FullScore
  <2>5. score = 100 => s.missing = {} /\ succeeded
    BY <1>1, <2>2, <2>4 DEF EditFits, d
  <2>6. seen' = [seen EXCEPT ![r].score = score] /\ epc' = [epc EXCEPT ![r] = "ok"]
    BY <1>7 DEF ReadDocuments, q, d
  <2>. HIDE DEF score
  <2>7. /\ epc'[r] = "ok" /\ epc' \in [Edits -> EditStages]
        /\ seen'[r] = [s EXCEPT !.score = score]
    BY <2>6 DEF StudioInv, StudioTypeOK, EditStages
  <2>8. EditFits(r)'
    BY <1>1, <1>2, <1>3, <2>7 DEF EditFits
  <2>9. /\ StudioTypeOK'
        /\ seen'[r].score = 100 => seen'[r].profile = 100 /\ seen'[r].missing = {} /\ succeeded
    BY <1>3, <1>4, <2>4, <2>5, <2>7
  <2>. QED  BY <1>1, <1>2, <2>8, <2>9, EditStepKeepsInv
<1>. QED  BY <1>5, <1>6, <1>7

LEMMA StudioStepKeepsInv == StudioInv /\ [StudioNext]_studioVars => StudioInv'
<1>. SUFFICES ASSUME StudioInv, [StudioNext]_studioVars PROVE StudioInv'
  OBVIOUS
<1>1. CASE DocumentSucceeds
  BY <1>1 DEF DocumentSucceeds, StudioInv, StudioTypeOK, EditFits, AuthorsAreDone, ReadyMeansReady
<1>2. ASSUME NEW r \in Edits, NEW i \in EditInputs, Submit(r, i) PROVE StudioInv'
  BY <1>2, SubmitKeepsInv
<1>3. ASSUME NEW r \in Edits, ResolveWorkspace(r) \/ Falter(r) \/ GetQuestion(r) \/ BeginBulk(r)
      PROVE  StudioInv'
  BY <1>3, AdvanceKeepsInv
<1>4. ASSUME NEW r \in Edits, UpsertAnswer(r) PROVE StudioInv'
  BY <1>4, UpsertAnswerKeepsInv
<1>5. ASSUME NEW r \in Edits, WriteItem(r) PROVE StudioInv'
  BY <1>5, WriteItemKeepsInv
<1>6. ASSUME NEW r \in Edits, CommitBulk(r) \/ RollbackBulk(r) PROVE StudioInv'
  BY <1>6, EndOfBulkKeepsInv
<1>7. ASSUME NEW r \in Edits, ReadProfile(r) \/ SaveProfile(r) PROVE StudioInv'
  BY <1>7, ProfileStepKeepsInv
<1>8. ASSUME NEW r \in Edits, ReadCompleteness(r) \/ ReadMissing(r) \/ ReadDocuments(r)
      PROVE  StudioInv'
  BY <1>8, ReadinessStepKeepsInv
<1>9. CASE UNCHANGED studioVars
  BY <1>9 DEF studioVars, studioTables, StudioInv, StudioTypeOK, EditFits, AuthorsAreDone,
    ReadyMeansReady
<1>. QED  BY <1>1, <1>2, <1>3, <1>4, <1>5, <1>6, <1>7, <1>8, <1>9 DEF StudioNext

THEOREM StudioInvariant == StudioSpec => []StudioInv
<1>1. StudioInit => StudioInv
  <2>. SUFFICES ASSUME StudioInit PROVE StudioInv
    OBVIOUS
  <2>1. StudioTypeOK
    <3>1. Blankness \in Profiles /\ profile \in Profiles
      BY StudioAssumption DEF StudioInit, Blankness, Profiles
    <3>2. NothingSeen \in [profile : 0 .. 100, answered : Nat, total : Nat,
                           missing : SUBSET Questions, score : 0 .. 100]
      BY DEF NothingSeen
    <3>. QED  BY <3>1, <3>2 DEF StudioInit, StudioTypeOK, EditStages
  <2>2. \A r \in Edits : EditFits(r)
    BY DEF StudioInit, EditFits, NothingSeen, Steps
  <2>3. AuthorsAreDone /\ ReadyMeansReady
    BY StudioAssumption DEF StudioInit, AuthorsAreDone, ReadyMeansReady, NothingSeen
  <2>. QED  BY <2>1, <2>2, <2>3 DEF StudioInv
<1>. QED  BY <1>1, StudioStepKeepsInv, PTL DEF StudioSpec

\* The steps of StudioNext never leave the values the variables are declared
\* with: profile columns in range, every answer one of the values or none.
THEOREM StudioTypes == StudioSpec => []StudioTypeOK
<1>1. StudioInv => StudioTypeOK
  BY DEF StudioInv
<1>. QED  BY <1>1, StudioInvariant, PTL

\* Rounding never makes up for what is missing (CalculateReadinessScore), for
\* fewer than a hundred required questions: then one that is missing costs more
\* than the half point that rounding adds.
THEOREM ReadinessIsEarned == StudioSpec => []ReadyMeansReady
<1>1. StudioInv => ReadyMeansReady
  BY DEF StudioInv
<1>. QED  BY <1>1, StudioInvariant, PTL

\* The statements of a bulk are seen together: the answers of a bulk are its
\* items, the last one of each question, from the commit on, and none before,
\* whether or not the request hears of the commit.
THEOREM BulksStayWhole == StudioSpec => BulksAreWhole
<1>1. ASSUME StudioInv, [StudioNext]_studioVars, NEW r \in Edits,
             edit[r] # NoRequest, edit[r].op = "bulk", epc'[r] = "ok", epc[r] # "ok"
      PROVE  CommitBulk(r)
  <2>1. edit[r] \in EditInputs /\ EditFits(r)
    BY <1>1 DEF StudioInv, StudioTypeOK
  <2>2. epc[r] \in {"idle", "workspace", "refused", "begin", "write"}
    BY <1>1, <2>1 DEF EditFits, StagesOf
  <2>3. AfterWorkspace(edit[r]) # "ok"
    BY <1>1 DEF AfterWorkspace
  <2>4. epc \in [Edits -> EditStages]
    BY <1>1 DEF StudioInv, StudioTypeOK
  <2>5. PICK s \in Edits :
          \/ \E i \in EditInputs : Submit(s, i)
          \/ ResolveWorkspace(s) \/ Falter(s) \/ GetQuestion(s) \/ BeginBulk(s)
          \/ UpsertAnswer(s) \/ CommitBulk(s) \/ RollbackBulk(s)
          \/ ReadProfile(s) \/ SaveProfile(s)
          \/ ReadCompleteness(s) \/ ReadMissing(s) \/ ReadDocuments(s)
    <3>1. epc' # epc
      BY <1>1
    <3>. QED  BY <1>1, <3>1 DEF StudioNext, DocumentSucceeds, WriteItem, studioVars
  <2>6. \E to \in EditStages : epc' = [epc EXCEPT ![s] = to]
    <3>1. CASE ResolveWorkspace(s)
      <4>1. epc[s] = "workspace" /\ edit[s] \in EditInputs
        BY <3>1, <1>1 DEF ResolveWorkspace, Check, Turn, StudioInv, StudioTypeOK, EditFits
      <4>2. AfterWorkspace(edit[s]) \in EditStages
        BY <4>1, EditFields DEF AfterWorkspace, EditStages
      <4>. QED  BY <3>1, <4>2 DEF ResolveWorkspace, Check, Turn, EditStages
    <3>2. CASE ~ ResolveWorkspace(s)
      BY <2>5, <3>2 DEF Submit, Falter, Check, Turn, GetQuestion, UpsertAnswer, BeginBulk, CommitBulk,
        RollbackBulk, ReadProfile, SaveProfile, ReadCompleteness, ReadMissing, ReadDocuments, EditStages
    <3>. QED  BY <3>1, <3>2
  <2>7. s = r
    BY <1>1, <2>4, <2>6
  <2>8. ~ UpsertAnswer(r) /\ ~ SaveProfile(r) /\ ~ ReadDocuments(r)
    BY <2>2 DEF UpsertAnswer, SaveProfile, ReadDocuments, Turn
  <2>9. ~ ResolveWorkspace(r) /\ ~ Falter(r) /\ ~ GetQuestion(r) /\ ~ BeginBulk(r)
    BY <1>1, <2>3, <2>4 DEF ResolveWorkspace, Falter, GetQuestion, BeginBulk, Check, Turn
  <2>10. /\ \A i \in EditInputs : ~ Submit(r, i)
         /\ ~ RollbackBulk(r) /\ ~ ReadProfile(r) /\ ~ ReadCompleteness(r) /\ ~ ReadMissing(r)
    BY <1>1, <2>4 DEF Submit, RollbackBulk, ReadProfile, ReadCompleteness, ReadMissing, Turn
  <2>. QED  BY <2>5, <2>7, <2>8, <2>9, <2>10
<1>2. ASSUME StudioInv, [StudioNext]_studioVars, NEW r \in Edits,
             edit[r] # NoRequest, edit[r].op = "bulk",
             NEW q \in Questions, author'[q] = r, author[q] # r \/ answer'[q] # answer[q]
      PROVE  CommitBulk(r)
  <2>1. PICK s \in Edits : UpsertAnswer(s) \/ CommitBulk(s)
    BY <1>2 DEF StudioNext, DocumentSucceeds, Submit, ResolveWorkspace, Falter,
         Check, GetQuestion, BeginBulk, WriteItem, RollbackBulk, ReadProfile, SaveProfile,
         ReadCompleteness, ReadMissing, ReadDocuments, studioVars, studioTables
  <2>2. s = r
    BY <1>2, <2>1 DEF UpsertAnswer, CommitBulk, StudioInv, StudioTypeOK
  <2>3. ~ UpsertAnswer(r)
    <3>1. edit[r] \in EditInputs /\ EditFits(r)
      BY <1>2 DEF StudioInv, StudioTypeOK
    <3>. QED  BY <1>2, <3>1 DEF EditFits, StagesOf, UpsertAnswer, Turn
  <2>. QED  BY <2>1, <2>2, <2>3
<1>3. ASSUME StudioInv, NEW r \in Edits, CommitBulk(r)
      PROVE  /\ SavedWhole(r) /\ epc[r] = "write" /\ epc'[r] # "write"
             /\ \A q \in Questions : author[q] # r
  <2>1. epc[r] = "write" /\ ~ Writing(r) /\ epc'[r] # "write"
    BY <1>3 DEF CommitBulk, Turn, StudioInv, StudioTypeOK
  <2>2. /\ Written(r) = {Items(r)[k].question : k \in DOMAIN Items(r)}
        /\ Written(r) \subseteq Questions
    BY <1>3, <2>1, LastItemIsLast
  <2>3. \A q \in Questions : author[q] # r
    BY <1>3, <2>1 DEF StudioInv, AuthorsAreDone
  <2>4. \A q \in Questions : author'[q] = IF q \in Written(r) THEN r ELSE author[q]
    BY <1>3 DEF CommitBulk
  <2>5. {q \in Questions : author'[q] = r} = {Items(r)[k].question : k \in DOMAIN Items(r)}
    BY <2>2, <2>3, <2>4
  <2>6. ASSUME NEW k \in DOMAIN Items(r),
               \A l \in k + 1 .. Len(Items(r)) : Items(r)[l].question # Items(r)[k].question
        PROVE  answer'[Items(r)[k].question] = Items(r)[k].value
    <3>1. LastItem(r, Items(r)[k].question) = k
      BY <1>3, <2>1, <2>6, LastItemIsLast
    <3>2. Items(r)[k].question \in Written(r) /\ Items(r)[k].question \in Questions
      BY <2>2
    <3>. QED  BY <1>3, <3>1, <3>2 DEF CommitBulk
  <2>7. SavedWhole(r)
    BY <2>5, <2>6 DEF SavedWhole
  <2>. QED  BY <2>1, <2>3, <2>7
<1>4. ASSUME StudioInv, [StudioNext]_studioVars, NEW r \in Edits,
             edit[r] # NoRequest, edit[r].op = "bulk"
      PROVE  /\ epc[r] # "ok" /\ epc'[r] = "ok" => SavedWhole(r)
             /\ (\E q \in Questions : author[q] # r /\ author'[q] = r)
                  => SavedWhole(r) /\ epc[r] = "write" /\ epc'[r] # "write"
             /\ \A q \in Questions :
                  author[q] = r /\ author'[q] = r => answer'[q] = answer[q]
  <2>1. epc[r] # "ok" /\ epc'[r] = "ok" => SavedWhole(r)
    BY <1>1, <1>3, <1>4
  <2>2. (\E q \in Questions : author[q] # r /\ author'[q] = r)
          => SavedWhole(r) /\ epc[r] = "write" /\ epc'[r] # "write"
    BY <1>2, <1>3, <1>4
  <2>3. ASSUME NEW q \in Questions, author[q] = r, author'[q] = r
        PROVE  answer'[q] = answer[q]
    BY <1>2, <1>3, <1>4, <2>3
  <2>. QED  BY <2>1, <2>2, <2>3
<1>5. StudioInv /\ [StudioNext]_studioVars =>
        [\A r \in Edits :
           edit[r] # NoRequest /\ edit[r].op = "bulk" =>
             /\ epc[r] # "ok" /\ epc'[r] = "ok" => SavedWhole(r)
             /\ (\E q \in Questions : author[q] # r /\ author'[q] = r)
                  => SavedWhole(r) /\ epc[r] = "write" /\ epc'[r] # "write"
             /\ \A q \in Questions :
                  author[q] = r /\ author'[q] = r => answer'[q] = answer[q]]_studioVars
  BY <1>4
<1>. QED  BY <1>5, StudioInvariant, PTL DEF StudioSpec, BulksAreWhole
=============================================================================
