----------------------------- MODULE MCServices -----------------------------
(***************************************************************************)
(* The services around the generation of documents, each on an instance of *)
(* its own.  They share no variable, so that running them beside each      *)
(* other would only multiply their states: a behaviour picks one of them   *)
(* and the others stay as they are.                                        *)
(***************************************************************************)
EXTENDS Tenancy, Identity, ServerLifecycle, EventDelivery, OrgProvider,
        CatalogSeeding, Studio, Access, Forwarding, DatasetExport

CONSTANTS t1, t2, c1, c2, c3, slug1, slug2, name1, name2,
          v1, v2, v3, mail1, mail2, org1, org2, room1,
          tenant1, j1, j2, j3, key1, key2, q1, q2, f1, f2, claim1, claim2, console1,
          spec1, spec2, spec3, folder1, folder2, exp1, exp2

VARIABLE part

Parts == {"tenancy", "identity", "server", "delivery", "provider", "seeding",
          "studio", "access", "forwarding", "export"}

----------------------------------------------------------------------------
(***************************************************************************)
(* One administrator and one user without an organization; a workspace is  *)
(* created, updated twice and archived, a second organization founded.     *)
(***************************************************************************)
UpdateOf(u, o, w, s, n, status) ==
  [op |-> "updateWorkspace", user |-> u, org |-> o, id |-> w, slug |-> s, name |-> n,
   status |-> status]

MCInputs == [c \in Calls |->
  CASE c = c1 ->
         {[op |-> "createOrg", user |-> t2, slug |-> slug1],
          [op |-> "createWorkspace", user |-> t1, org |-> SeedOrg, slug |-> slug1, name |-> name1],
          [op |-> "createApp", user |-> t1, org |-> SeedOrg, slug |-> slug1]}
    [] c = c2 ->
         {[op |-> "createOrg", user |-> t1, slug |-> slug1],
          [op |-> "createWorkspace", user |-> t1, org |-> SeedOrg, slug |-> slug1, name |-> name2],
          UpdateOf(t1, SeedOrg, c1, slug2, Unset, Unset),
          [op |-> "deleteWorkspace", user |-> t1, org |-> SeedOrg, id |-> c1],
          [op |-> "createApp", user |-> t1, org |-> SeedOrg, slug |-> slug1],
          [op |-> "createKey", user |-> t1, org |-> SeedOrg, id |-> c1]}
    [] c = c3 ->
         {UpdateOf(t1, SeedOrg, c1, Unset, name2, Unset),
          UpdateOf(t2, c1, c2, slug2, Unset, "active"),
          [op |-> "createWorkspace", user |-> t2, org |-> c1, slug |-> slug1, name |-> name1],
          [op |-> "revokeKey", user |-> t1, org |-> SeedOrg, id |-> c2]}]

(***************************************************************************)
(* A user of two organizations makes keys with and without scopes, for     *)
(* tool calls in both; somebody else registers.                            *)
(***************************************************************************)
ToolCall(k, o, tool) ==
  [op |-> "tool", user |-> NoUser, key |-> k, org |-> o, room |-> room1, tool |-> tool]

MCVisitInputs == [v \in Visits |->
  CASE v = v1 ->
         {[op |-> "register", email |-> mail2],
          [op |-> "createKey", user |-> SeedUser, scopes |-> {EmptyScope}],
          [op |-> "createKey", user |-> SeedUser, scopes |-> {}],
          [op |-> "createKey", user |-> SeedUser, scopes |-> {EmptyScope, "mcp:profile"}]}
    [] v = v2 ->
         {[op |-> "register", email |-> mail2],
          [op |-> "login", email |-> mail2, right |-> TRUE],
          [op |-> "revokeKey", user |-> SeedUser, key |-> v1],
          [op |-> "createKey", user |-> v1, scopes |-> {"mcp:workspace"}],
          ToolCall(v1, NoOrg, "get_me")}
    [] v = v3 ->
         {[op |-> "login", email |-> mail2, right |-> FALSE],
          [op |-> "revokeKey", user |-> v1, key |-> v1],
          ToolCall(v1, org1, "list_documents"),
          ToolCall(v1, org2, "list_documents"),
          ToolCall(v2, org1, "llm_health")}]
MCMembership == {<<org1, SeedUser>>, <<org2, SeedUser>>}
MCRoomOrg == [r \in Rooms |-> org1]

\* A server for production that lacks nothing, one that lacks its database,
\* its seeds or its provider, and one for development with and without.
Environment(name, database, seeds, llm) ==
  [name |-> name, database |-> database, seeds |-> seeds, llm |-> llm]
MCEnvironments ==
  {Environment("prod", TRUE, TRUE, TRUE), Environment("production", FALSE, TRUE, TRUE),
   Environment("prod", TRUE, FALSE, TRUE), Environment("production", TRUE, TRUE, FALSE),
   Environment("development", FALSE, FALSE, TRUE)}

(***************************************************************************)
(* One organization's settings, for another provider, another key or none, *)
(* one update that names no key, and one that production refuses.          *)
(***************************************************************************)
MCGlobal == [provider |-> "gemma", host |-> "hosted", model |-> "model", key |-> key1,
             limits |-> "slow", enabled |-> TRUE]
SettingsOf(p, h, k, l) ==
  [op |-> "update", org |-> tenant1, provider |-> p, host |-> h, model |-> Blank, key |-> k,
   limits |-> l, enabled |-> TRUE]
MCJobInputs ==
  LET other(op) == [op |-> op, org |-> tenant1] IN
  [j \in Jobs |->
     CASE j = j1 -> {SettingsOf("gemma", "huggingface", key2, Blank), other("generate")}
       [] j = j2 -> {SettingsOf("ollama", "hosted", "clear", Blank), other("reset"),
                     SettingsOf("gemma", Blank, Blank, "fast"),
                     SettingsOf("mock", "hosted", Blank, Blank)}
       [] j = j3 -> {other("generate"), other("probe")}]

(***************************************************************************)
(* Two releases: the later one has a role, a permission and a question     *)
(* more, and a question with one option less.                              *)
(***************************************************************************)
MCReleaseOf == [s \in Starts |-> IF s = 1 THEN "old" ELSE "new"]
MCRoleList == [v \in Releases |->
  IF v = "old" THEN <<[name |-> "viewer", permissions |-> {"*:read"}]>>
  ELSE <<[name |-> "viewer", permissions |-> {"*:read"}],
         [name |-> "developer", permissions |-> {"llm:read"}]>>]
MCQuestionList == [v \in Releases |->
  IF v = "old" THEN <<[key |-> "stage", options |-> <<"idea", "live">>]>>
  ELSE <<[key |-> "team", options |-> << >>], [key |-> "stage", options |-> <<"idea">>]>>]

(***************************************************************************)
(* Two questions, the second shown when the first is answered with yes; a  *)
(* profile that is complete and one that is not.                           *)
(***************************************************************************)
Yes == [list |-> FALSE, items |-> {"yes"}]
No == [list |-> FALSE, items |-> {"no"}]
Empty == [list |-> TRUE, items |-> {}]
MCValues == {Yes, No, Empty}
MCShowIf == [q \in Questions |->
  IF q = q2 THEN [key |-> q1, op |-> "equals", value |-> Yes] ELSE NoRule]

Full == [f \in General \union Sections |-> IF f \in General THEN 1 ELSE 3]
MCFirstProfiles == {Full, [Full EXCEPT !["product_type"] = 0, !["data"] = 2]}

It(q, v) == [question |-> q, value |-> v]
BulkOf(items) == [op |-> "bulk", own |-> TRUE, items |-> items]
AnswerOf(own, q, v) == [op |-> "answer", own |-> own, question |-> q, value |-> v]
ProfileOf(fields, level) ==
  [op |-> "profile", own |-> TRUE, fields |-> fields, level |-> level]
MCEditInputs ==
  {AnswerOf(TRUE, q1, Yes), AnswerOf(FALSE, q1, No), AnswerOf(TRUE, UnknownQuestion, No),
   AnswerOf(TRUE, q2, Empty),
   BulkOf(<<It(q1, Yes), It(q2, Yes)>>), BulkOf(<<It(q2, Empty), It(q1, No), It(q2, Yes)>>),
   BulkOf(<<It(q1, Yes), It(q2, Empty)>>), BulkOf(<<It(q2, No), It(UnknownQuestion, No)>>),
   BulkOf(<< >>),
   ProfileOf({"product_type", "data"}, 3), ProfileOf({"product_type", "ai"}, 0),
   [op |-> "readiness", own |-> TRUE]}

(***************************************************************************)
(* Two organizations send requests to endpoints that mask and validate,    *)
(* over methods that fit their action and methods that do not.             *)
(***************************************************************************)
Via(m, a, b) == [method |-> m, action |-> a, backend |-> b, schema |-> TRUE, masking |-> TRUE]
Object(s) == [object |-> TRUE, fits |-> TRUE, secret |-> s]
ForwardOf(e, o, i, b) == [endpoint |-> e, org |-> o, app |-> console1, id |-> i, body |-> b]
MCForwardInputs ==
  {ForwardOf(Via("POST", "create", "table"), claim1, NoId, Object("raw")),
   ForwardOf(Via("GET", "create", "table"), claim2, NoId, Object("raw")),
   ForwardOf(Via("PUT", "update", "table"), claim1, f1, Object("raw")),
   ForwardOf(Via("PATCH", "patch", "table"), claim2, f1, Object("absent")),
   ForwardOf(Via("GET", "get", "table"), claim1, f1, NoBody),
   ForwardOf(Via("GET", "list", "table"), claim2, NoId, NoBody),
   ForwardOf(Via("DELETE", "delete", "table"), claim1, f1, NoBody),
   ForwardOf(Via("POST", "create", "table"), NoClaim, NoId, [Object("raw") EXCEPT !.fits = FALSE]),
   ForwardOf(Via("POST", "create", "url"), claim1, NoId, [Object("raw") EXCEPT !.object = FALSE]),
   ForwardOf([Via("PUT", "update", "table") EXCEPT !.masking = FALSE], claim1, f1, Object("raw"))}

(***************************************************************************)
(* Two specs of one workspace, whose profile and answers change, and one   *)
(* of another.                                                             *)
(***************************************************************************)
MaterialOf(p, a) == [name |-> name1, profile |-> p, answers |-> a]
MCFolderOf == [d \in Specs |-> IF d = spec3 THEN folder2 ELSE folder1]
MCMadeFrom == [d \in Specs |-> MaterialOf(1, IF d = spec2 THEN 2 ELSE 1)]
MCMaterials == [w \in {folder1, folder2} |->
  IF w = folder1 THEN {MaterialOf(1, 1), MaterialOf(1, 2), MaterialOf(2, 2)}
  ELSE {MaterialOf(1, 1)}]
FlagsOf(mode, force, skip) ==
  [dedupe |-> mode, force |-> force, dry |-> FALSE, legacy |-> FALSE, listSkipped |-> skip,
   excludeSmoke |-> skip]
\* What a smoke test left in the answers of its workspace.
MCMarked == {MaterialOf(1, 2)}
MCExportOptions == [e \in Exports |->
  {FlagsOf("fingerprint", FALSE, FALSE), FlagsOf("workspace-latest", TRUE, TRUE),
   FlagsOf("none", TRUE, TRUE), [FlagsOf("none", TRUE, FALSE) EXCEPT !.dry = TRUE]}]
NoFiles == [f \in {"manifest", "train", "val", "skipped"} |-> NoFile]
MCFirstFiles == {NoFiles,
  [NoFiles EXCEPT !["manifest"] = Garbled],
  [f \in {"manifest", "train", "val", "skipped"} |->
     CASE f = "manifest" -> [candidates |-> 2, exported |-> 1, skipped |-> 1, train |-> 1, val |-> 0]
       [] f = "train"    -> {[doc |-> spec3, material |-> MaterialOf(1, 1)]}
       [] f = "val"      -> {}
       [] f = "skipped"  -> {spec1}]}

----------------------------------------------------------------------------
\* Where a component may begin in several ways, it does so in its own part only.
ServicesInit ==
  /\ part \in Parts
  /\ TenancyInit  /\ (part # "tenancy"  => orgSlug[SeedOrg] = slug1 /\ suspended = {})
  /\ IdentityInit /\ (part # "identity" => inactive = {})
  /\ ServerInit   /\ (part # "server"   => environment.name = "development")
  /\ DeliveryInit
  /\ ProviderInit /\ (part # "provider" => secret = 1)
  /\ SeedingInit
  /\ StudioInit   /\ (part # "studio"   => profile = Full)
  /\ AccessInit   /\ (part # "access"   => \A u \in Members : userRoles[u] = {})
  /\ ForwardingInit
  /\ ExportInit   /\ (part # "export"   => material[folder1] = MaterialOf(1, 1) /\ file = NoFiles)

TenancyStep ==
  /\ part = "tenancy"
  /\ TenancyNext
  /\ UNCHANGED <<part, identityVars, serverVars, deliveryVars, providerVars, seedVars,
                 studioVars, accessVars, forwardVars, exportVars>>

IdentityStep ==
  /\ part = "identity"
  /\ IdentityNext
  /\ UNCHANGED <<part, tenancyVars, serverVars, deliveryVars, providerVars, seedVars,
                 studioVars, accessVars, forwardVars, exportVars>>

ServerStep ==
  /\ part = "server"
  /\ ServerNext
  /\ UNCHANGED <<part, tenancyVars, identityVars, deliveryVars, providerVars, seedVars,
                 studioVars, accessVars, forwardVars, exportVars>>

DeliveryStep ==
  /\ part = "delivery"
  /\ DeliveryNext
  /\ UNCHANGED <<part, tenancyVars, identityVars, serverVars, providerVars, seedVars,
                 studioVars, accessVars, forwardVars, exportVars>>

ProviderStep ==
  /\ part = "provider"
  /\ ProviderNext
  /\ UNCHANGED <<part, tenancyVars, identityVars, serverVars, deliveryVars, seedVars,
                 studioVars, accessVars, forwardVars, exportVars>>

SeedingStep ==
  /\ part = "seeding"
  /\ SeedingNext
  /\ UNCHANGED <<part, tenancyVars, identityVars, serverVars, deliveryVars, providerVars,
                 studioVars, accessVars, forwardVars, exportVars>>

StudioStep ==
  /\ part = "studio"
  /\ StudioNext
  /\ UNCHANGED <<part, tenancyVars, identityVars, serverVars, deliveryVars, providerVars,
                 seedVars, accessVars, forwardVars, exportVars>>

AccessStep ==
  /\ part = "access"
  /\ AccessNext
  /\ UNCHANGED <<part, tenancyVars, identityVars, serverVars, deliveryVars, providerVars,
                 seedVars, studioVars, forwardVars, exportVars>>

ForwardingStep ==
  /\ part = "forwarding"
  /\ ForwardingNext
  /\ UNCHANGED <<part, tenancyVars, identityVars, serverVars, deliveryVars, providerVars,
                 seedVars, studioVars, accessVars, exportVars>>

ExportStep ==
  /\ part = "export"
  /\ ExportNext
  /\ UNCHANGED <<part, tenancyVars, identityVars, serverVars, deliveryVars, providerVars,
                 seedVars, studioVars, accessVars, forwardVars>>

ServicesNext ==
  \/ TenancyStep \/ IdentityStep \/ ServerStep \/ DeliveryStep \/ ProviderStep
  \/ SeedingStep \/ StudioStep \/ AccessStep \/ ForwardingStep
  \/ ExportStep

servicesVars ==
  <<part, tenancyVars, identityVars, serverVars, deliveryVars, providerVars, seedVars,
    studioVars, accessVars, forwardVars, exportVars>>

ServicesSpec ==
  ServicesInit /\ [][ServicesNext]_servicesVars /\ ServerFairness /\ DeliveryFairness

\* The variables of every component have their types: create, update and
\* compute what their tables and answers can hold, scores from 0 to 100 among
\* them (score.go, completeness.go).
ServicesTypeOK ==
  /\ part \in Parts
  /\ TenancyTypeOK /\ IdentityTypeOK /\ ServerTypeOK /\ DeliveryTypeOK /\ ProviderTypeOK
  /\ SeedingTypeOK /\ StudioTypeOK /\ AccessTypeOK /\ ForwardingTypeOK
  /\ ExportTypeOK
=============================================================================
