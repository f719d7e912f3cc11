# Agentic App Reporter: verification project

TLA+ specifications of the API server in `src/backend` (Go), the TLC
configurations that model-check them on small instances, and TLAPS proofs of
their main theorems. Paths below are relative to `src/backend` unless they
start with `src/`.

Run everything from this directory:

    tlc -workers 2 -config services.cfg MCServices
    tlapm ServerProofs.tla

`PROJECT.json` lists the components, the runs, a mutant for every checked
property, the lines each definition models, the findings, the hazards and the
theorems.

## 1. Inventory

The server turns a workspace's questionnaire answers and project profile into
documents written by a language model, and offers tenancy, permissions, an API
gateway and real-time events around that.

| Part | State | Operations | What is hard | What makes it correct |
|---|---|---|---|---|
| Generation lock (`internal/infrastructure/redis/generation_lock.go`) | Redis key per workspace with a time to live; per server a map workspace to token and a counter | TryBegin, End, HasInflight | TryBegin and End are each a Redis call and a mutex section; keys expire, replies and releases get lost, servers die | one call per workspace; a release deletes only what its server owns; the counter is what shutdown believes it is; no workspace is locked out for good |
| Generation gate (`.../generation/usecase/generation_gate.go`) | in-memory set | the same interface, one server | no expiry, a dozen return paths | held exactly for the calls in progress |
| Generate, regenerate, approve (`.../generation/usecase/`) | rows of `generated_documents`; local state of a call | Execute of three use cases, `persistFailedDocument` | clients hang up, retries, repairs, fallback provider, failing or half-failing inserts, read-check-write approval | answers and rows agree; what is stored is the accepted draft, under the name of its provider; only succeeded rows are approved; sources stay untouched; calls end |
| Resilient provider (`internal/infrastructure/llm/resilient.go`) | attempt counter of a call | Generate | one timeout per attempt, retry of transient errors, cancellation | bounded attempts; a cancelled parent stops them |
| WebSocket hub and pumps (`internal/infrastructure/websocket/`) | registry, rooms, a bounded channel per connection | Register, Subscribe, Unsubscribe, SendToClient, Broadcast, Close; two goroutines per connection | three places close a channel, two client objects share it, overflow | no double close, no send on a closed channel, tenants apart, order kept, dead connections leave |
| Event bridge, in-process bus (`event_bridge.go`, `internal/shared/events/inprocess.go`) | bounded queue | Publish, Subscribe, Close, dispatch | drops when full, a handler uses the publisher's context, Close beside publishers | never blocks or reorders; what was accepted is heard before the process ends |
| Kafka bus (`internal/infrastructure/kafka/`) | handlers, readers, offsets | Publish, Subscribe, Start, consume, Close | lost acknowledgements, commits, redelivery, order of subscribe and start | at least once, but for messages a handler fails on |
| Start and shutdown (`cmd/server/main.go`) | environment, draining, two budgets | start, signal, wait, Shutdown, deferred closes | budgets against long calls, new calls while draining, closing order | who is cut off has had its time; nobody publishes to a closed bus in a graceful exit; the process ends |
| Gateway pipeline (`internal/gateway/pipeline.go`) | Redis counter per endpoint | Enforce | ignored errors, increment and expiry apart | served requests are permitted, windows are limited and end |
| Gateway interceptors and generic handler (`validator.go`, `masker.go`, `dynamic_handler.go`) | rows of derived tables | validate, mask, pass on; list, get, create, update, patch, delete | which methods have a body, whose row an id names | rows stay in their app; masked fields stay masked |
| API management (`.../apimanagement/usecase/`) | endpoint and policy rows | define, activate, retire, update policy | read-check-write, no row lock | one row per endpoint; policies take effect for later requests |
| RBAC (`internal/infrastructure/auth/rbac_service.go`), routes (`.../http/router`) | permissions cached for 15 minutes; role templates | read-through, invalidate, match; a permission per route | fill against invalidation, dropped errors, wildcards | the cache grants nothing the roles do not; roles change only what they are for |
| Tenancy (`.../application/tenant`) | organizations, members, roles, workspaces, apps, app keys | create, update, archive, revoke, backfill at start | statements without a transaction, check-then-insert, lost updates | slugs are unique; no organization without an administrator but after a failure; changes are authorised |
| Identity (`.../application/iam`, MCP and JWT middleware) | users, user API keys and scopes | register, login, create and revoke keys, tool calls | late update of `last_used_at`, expiry, empty scope lists | a key opens only what it was made for |
| Questionnaire, profile, readiness (`.../questionnaire`, `.../projectprofile`, `.../observe`) | answers, profile, documents | one answer, a bulk, upsert of the profile, readiness | transactions with row locks, three reads and two roundings | bulks are whole; 100 means complete |
| Organization LLM settings (`.../llmsettings`) | a row and a cached provider per organization, encrypted key | update, reset, Resolve, Invalidate | settings read before the cache is locked, read-modify-write of the key | calls follow the settings read; keys change only on request |
| Seeding (`internal/infrastructure/postgres/bootstrap`) | roles, permissions, questions, options | SeedRoles, SeedQuestionnaires, Verify | no transaction, overlapping and broken-off starts, two releases | a start on its own repairs what is there |
| Dataset export (`cmd/export-peft-dataset`, `.../datasetexport`) | four files of a directory | list, rebuild contexts, gates, deduplication, split, write | several reads beside edits, leftovers in the directory, broken-off writes | what a finished export wrote is one sound data set |
| Product-spec rules, prompt text, package export | none | pure functions on text | - | - |
| Telemetry, logging, audit, pools, other tools | none the server reads | - | - | - |
| `src/frontend`, `src/peft-dataset` | - | separate client, offline scripts | - | - |

How they interact: HTTP and MCP handlers pass the middleware (token or key,
organization, membership, permission) and call the use cases; Generate and
Regenerate go through a `GenerationLocker` (the Redis lock when Redis is
configured, the gate otherwise) and the provider resolved for the organization;
use cases publish events to the bus (in-process or Kafka), whose dispatcher
calls the event bridge, which broadcasts to the hub's rooms; a request of the
gateway passes the pipeline, whose permission check is the cached one, then the
interceptors and a handler; shutdown polls the locker's counter before it stops
the HTTP server and closes the bus. The export runs beside the server on its
database.

The hazards of this code, each at its line, are the `hazards` of
`PROJECT.json`: the properties below are aimed at them.

## 2. What is modelled

| Module | Models | Depends on |
|---|---|---|
| `WorkspaceMutex` | the abstract promise of the in-process gate: one call per workspace | - |
| `WorkspaceLease` | the abstract promise of the Redis keys: a lease is granted only where there is none, never passed on, and ends only when its call is no longer inside | - |
| `GenerationLock` | the Redis lock over several servers | implements `WorkspaceLease` |
| `DocumentTable` | the abstract promise of the table: a row is written once, by a call that holds its workspace, and later only approved | uses `WorkspaceMutex` |
| `GenerateDocument` | generate, regenerate, approve, with gate, provider and rows | implements `WorkspaceMutex` and `DocumentTable` |
| `WebSocketHub` | bus, bridge, hub, sessions and pumps | - |
| `PermissionCache` | role assignment and the cached permission check | - |
| `Gateway` | the policy pipeline and the administration of endpoints | extends `PermissionCache`: a request is a check |
| `Forwarding` | interceptors, handlers and the generic table behind the pipeline | - |
| `Access` | routes, the permissions they ask for, the role templates | - |
| `Tenancy` | organizations, members, workspaces, apps, app keys | - |
| `Identity` | registration, login, user API keys, tool calls | - |
| `ServerLifecycle` | start, requests, in-process bus, shutdown of one process | - |
| `EventDelivery` | the Kafka bus, one partition of one topic | - |
| `OrgProvider` | LLM settings, provider cache, calls to a provider | - |
| `CatalogSeeding` | what starting servers write into the tables | - |
| `Studio` | answers, profile, visibility, readiness | - |
| `DatasetExport` | the export command beside members' edits | - |
| `MC*` | the instances TLC checks; `MCServices` has the last ten | the modules of that name |
| `*Proofs` | theorems and proofs; `GatewayProofs` has the cache's too, `ServicesProofs` the composition's and the seeding's | the modules they extend |

**GenerationLock.** `key` and `ttl` are Redis; `held` and `localCount` are the
struct's `held` and `inflight`; `pc`, `attempt`, `left` and `taken` are the local
state of a request. A request stands for its own token, since TryBegin draws a
fresh UUID each time. TryBegin is `SetNXWins`, `SetNXFails` or `SetNXReplyLost`
(the command ran, the answer did not arrive), then `RecordToken`, the mutex
section. End is `EndLocal` or `EndLocalMisses` (no entry in the map, the early
return), then `ReleaseKey` (the compare-and-delete script) or `ReleaseLost`.
Between them: `StartCall`, `RetryCall`, `FinishCall`, `Save`, `ReturnEarly`. `Tick`
passes time, expires keys and cannot pass the end of an attempt's timeout; `Crash`
kills a server and its requests and keeps Redis. `Lease` maps the keys and the
requests inside to `WorkspaceLease`. A mutex would not tell what the keys do: a
lease outlasts a call that died with its server or whose release got lost, and one
is granted to a call that never hears of it; nobody is inside then and nobody gets
in. What the refinement asks of the code is that neither the clock nor any
release ends the lease of a call that is still inside, and that no step hands one
over.

**GenerateDocument.** `inflight` is the gate's set; `provider`, `repairs` and
`attempt` are the pipeline's and the retry loop's local variables, `draft` what the
last reply of each provider was worth; `status`, `body`, `writer` (`provider_name`),
`approval` and `approvedBy` are the columns of a request's row; `answer` is what the
client is told. `ReadSource`/`RefuseSource` are Regenerate's checks;
`TryBegin`/`TryBeginBusy` the gate; `Reject` the returns before the provider is
called; `StartCall`, `RetryAttempt` and `HearReply` a provider call; `TakeReply`,
`RepairReply`, `FallBack` and `CallFails` what the pipeline makes of a reply, or of a
call that failed; `Save`, `SaveError` (an insert may fail with or without
committing) and `SaveFailure` (the failed row, which has no text and names the
organization's provider) the repository; `End` the deferred End. `ReadForApproval`,
`UpdateApproval` and `UpdateApprovalError` are the approval. `HangUp` cancels a request's
context at a provider call or an insert, where it is looked at (a hang-up between
two of them shows at the next); `Restart` kills the server: rows stay, the gate is
new. A reply is what parser, validator and quality gate say of it: `invalid` (may be
repaired), `weak` (may not), `acceptable`, or `plain` for documents that are not
judged; text and prompts are left out. `Table` maps the gate's set and the rows to
`DocumentTable`, which knows neither gate nor provider: the insert takes no lock and
the update of an approval checks nothing, and still no row is written without
its workspace or changed but by the approval of a succeeded one.

**WebSocketHub.** `clients`, `rooms`, `subs` and `hubClosed` are the hub and the client
objects it made; `buf` and `closings` the send channels; `linked`, `writing`,
`welcoming` and `reader` the socket, the write pump, the Connect handler and the read
pump; `queue`, `published`, `current` and `todo` the bus, the dispatcher's event and
the channels it still has to serve. Every hub operation holds the hub's mutex
and is one action; the pumps, the handler and the dispatcher interleave between
them. `Register`, `RegisterFull` and `RegisterClosed` are the outcomes of Register;
`SendWelcome` the end of Connect; `Subscribe`, `Unsubscribe`, `Ask` and `Reply` what a
client may ask for; `ReaderEnds` the read pump's exit with `removeClient` and the
socket's close; `Unregister` the session's deferred removal; `WriterTakes` and
`WriterStops` the write pump; `Publish`, `Dispatch`, `DispatchLost` (a lookup under a
cancelled context) and `Broadcast` the event's way; `Close` closes the hub. `Die` is the
panic of a goroutine that nothing recovers.

**PermissionCache.** `granted` is what the tables `user_roles` and
`role_permissions` allow a member (a user in an organization); `cached` and `cache`
are Redis. A check is `StartCheck`, then `Hit` or `Miss` (no entry, or Redis fails),
`ReadPermissions` (which may see a part of the rows, because `rows.Err` is not
looked at) or `ReadPermissionsError`, then `Fill` or `FillLost`. An assignment is
`AssignRole` (committed) or `AssignRoleError`, then `InvalidateCache` or
`InvalidateLost`. `Expire` ends an entry. A permission is the sequence of its parts,
so that `Matches` can be the wildcard rules of `matchesPermission`.

**Gateway.** `pc` and `policy` are the local state of Enforce: `Lookup`,
`ReadPolicy` or `ReadNoPolicy` (none, or an error that is dropped), the check,
`Decide`, `Increment` or `IncrementError`, `SetExpiry` or `SetExpiryLost`, `Forward`.
`count` and `expiring` are the counter's key in Redis, which `CloseWindow` ends if
it has a time to live; `admitted` is a history variable, the requests the counter
has let through. `row` is the endpoint, `rule` the policy rows, each under the name
of the call that inserted it. The use cases read (`DefineRead`, `ChangeRead`,
`PolicyRead`, keeping what they found in `apc` and `found`) and then write. Every
answer that is not the backend's is `refused`; no property tells them apart.

**Forwarding.** What `Forward` of `Gateway` leaves open. `record` are the rows of
the derived tables, named by the request that inserted them, with the request
whose field each has (`by`); `body` is a request's body as it stands, `given` the
rows in its answer, `sent` what was passed on. `ValidateSchema` and `Mask` are the
chain in the order it is built in, `PassOn` a registered handler or another
service, `HandleGeneric` the choice of the operation, then `HandleList` (two queries),
`HandleGet`, `HandleCreate`, `HandleUpdate` (update and patch) and `HandleDelete` with
their single statements; `Trip` is a body that cannot be read, or a statement that
fails. Read from the code and kept so: the id of a path is looked for behind the
singular of the table's name and endpoint paths match exactly, so `/orders/{id}`
has no id; a login's token has no organization claim, and without one the generic
handler answers 400; an empty body skips the schema; response interceptors are
called nowhere.

**Access.** `RoleTemplates` is the table of `SeedRoles`, `Routes` the router's
list: for each handler the permission it is behind and what it changes.
`RequirePermission` lets a request in, `ServeRoute` and `RouteFails` are its handler,
which runs later, when the member may have more roles (`GainRole`). `Duties` says what
each role is for, after its description in the templates.

**Tenancy.** One variable per table (`orgSlug` and `suspended`, `members`, `admins`,
`workspace`, `app`, `appKey`), rows named by the call that inserted them; `tpc` is the
next statement of a call, `copy` the workspace it means to write, `overtaken` a
history variable: the calls whose workspace another one has written since they
read it. No use case opens a transaction, so every statement is an action.
`Begin` is the permission check, and `CheckOrgSlug`, `InsertOrg`, `AddMember`, `FindRole`,
`AssignAdmin` are CreateOrg; the checks before an insert drop their errors and
may pass whatever is there; the unique constraints do not. `Fail` is a failing
statement, `Backfill` what a starting server does for members without a role.

**Identity.** `email`, `inactive` and `signedIn` are users and tokens; `keys`,
`scopes`, `revoked`, `expired` and `lastUsed` the rows of `user_api_keys`. `Arrive`
is the middleware up to the first query; `FindKey`, `FindOwner`, `RequireOrgMembership`
and `CallTool` the chain of a tool call; `TouchLastUsed` the update that a goroutine
does later. `late` is a history variable, the calls that began with a dead key.

**ServerLifecycle.** `phase` is where `run()` is. `ConnectDatabase`, `Bootstrap`,
`RefuseConfiguration` and `BuildDependencies` are the start with the check of the
wiring; `Signal`, `LookAtInflight`, `Shutdown` or `ShutdownTimesOut`, `CloseBus` and `Exit`
the end; `ServeFails` a listener's error, which drains nothing. A request goes from
`loading` through `generating` (counted by the locker) or `saving` and `publishing` to
`done`; `Dispatch` is the bus's dispatcher, for which a look-up under a context that
is over fails. `age` and `clock` count ticks of 500 ms, the pause between two looks at
the counter. The write deadline of a connection (`main.go:172`) ends what the client
sees and not the handler; it is left out.

**EventDelivery.** `written` is the partition, `committed` the group's offset, `offset`,
`rpc`, `handler` and `handlerErr` the loop of `consumeLoop`; `done` and `failed` are
history variables. `WriteMessage` may be written without being acknowledged, and
tried again; `RunHandler` runs every handler whether or not one failed; `EndOfHandlers`
decides whether to commit; `CommitMessages` may fail unseen; `Crash` starts the next
reader behind the committed offset. `InitEventBus` makes readers for the topics
subscribed by then. `main.go:257` calls Start before the first Subscribe, although
its comment says "after subscriptions are registered in buildDependencies": that
process writes and reads nothing, and `WrittenEventsAreHandled` speaks of processes
that do read. In Kafka mode a handler is also given a `*events.Envelope`, which the
bridge's `extractRoutes` passes over; which type a handler gets is not modelled.

**OrgProvider.** `settings` is the table, `secret` the key material of the process,
`cache` the cached provider with the settings it was built from. An update is
`ReadExisting` (read, merge, validate), `Upsert`, `Invalidate`; a generation is
`GetByOrganizationID`, `LookUp` (under the read lock), `Store` (under the write lock), and
`Ask` for each attempt. `Restart` may change the secret: keys encrypted with the old
one no longer decrypt and the environment's is used. `IsTransientLLMError` works on
statuses and the words of a body, as the code does on the error's text.

**CatalogSeeding.** The tables of roles, permissions, questions and options, and per
start the statement it is at. A start may end after any of them (`EndEarly`) and
others may run beside it (`mixed`). `ClearOptions` and `InsertOption` are the delete and
the inserts that replace a question's options. Overlapping starts can leave options
twice, since the table has no unique constraint, although `questionnaire.go` says
"Safe to run multiple times"; the next start on its own repairs it.

**Studio.** One workspace: `profile`, `answer`, `author`, and `holder`, the open
transaction that has written a row. `WriteItem` takes row locks in the order of the
request, `CommitBulk` (whose reply may get lost) and `RollbackBulk` end the transaction; a circle of waiting bulks
is broken by a rollback, as PostgreSQL does. `ReadProfile`/`SaveProfile` is the upsert;
`ReadCompleteness`, `ReadMissing` and `ReadDocuments` are the three reads of readiness.
`Evaluate` has the eight operators of visibility, `CalculateCompleteness`,
`QuestionnairePct` and `CalculateReadinessScore` the arithmetic, in whole numbers. A
section `{}` that a request brings replaces the stored one, although
the comment of `isNonEmptyJSONSection` counts an empty object as absent; the model does as the code.

**DatasetExport.** `material` is what a prompt is built from, `approvedAt` the order of
approvals, `file` the directory. An export is `Connect`, `ListForPEFTExport`, then for
each candidate `ReadWorkspace`, `ReadProfileRow` and the read of the answers with the
gates (`ReadAnswersKeep`, `ReadAnswersSkip`), then `DedupeRows`, `PrepareOutDir` and one
`WriteArtifact` per file, any of which may break off. `PassesGates` has the
gates together: the fingerprint, those that look at a document's text as one
verdict (`Rejected`), and the marker of smoke tests in a rebuilt prompt (`Marked`),
which `--exclude-smoke-markers` keeps out. `touched` is a history variable,
the exports into whose directory another one wrote after they had looked at it: two
exports without `--force` may both find it empty and mix their files, so
`DatasetsAreSound` does not speak of them. Also read from the code: a failed read or
the command's five minutes make a candidate a skipped row and the exit code stays
0; the fingerprint leaves out names and titles that a prompt shows; a single row
always goes to train, so that "Same workspace → same split on every re-export"
(finetune README, line 97) holds among exports of several rows only; a dry run with
`--force` leaves a new manifest beside older files, as does one that breaks off.

**MCServices.** The ten modules from `Forwarding` to `DatasetExport` share no variable,
so their instances are put beside each other in one run: a behaviour picks one
(`part`) and the others stay as they are. Where in the program two of them meet (a
route's permission before a tenancy call, a generation that asks for a provider),
the one models the other by every answer it may give. `Gateway` is composed with
`PermissionCache`, which it extends.

## 3. Runs

| Run | Instance | Shows |
|---|---|---|
| `lock_covered` | 2 servers, 2 workspaces, 4 requests, key longer than a request | `NoOverlap`, `ImplementsLease`, exact `BusyOnlyWhileRunning`, `LockoutEnds`, `TypeOK` |
| `lock_overrun` | the same, key shorter than a request | what survives: `CountsEveryCall`, `ReleaseStaysOnInstance` |
| `lock_overlap` | the same | `NoOverlap` fails (finding 1) |
| `lock_stuck_count` | the same | `BusyOnlyWhileRunning` fails (finding 2) |
| `documents` | 2 workspaces, a plain call, a regeneration of its row, a structured call with fallback, 1 approver, failing database | `ImplementsMutex`, `GateMatchesCalls`, `ImplementsTable`, `AnswersMatchRows`, `StoredSpecsAreAccepted`, `ApprovedSucceeded`, `CallsEnd`, `TypeOK` |
| `failed_row` | the same with 2 approvers, working database | `FailuresAreListed` fails (finding 3) |
| `approve_race` | the same as `failed_row` | `ApproverIsKept` fails (finding 4) |
| `hub` | 2 connections of 2 organizations, room for one, channels and bus of one, 2 events | `ClosedOnce`, `RegistryIsSound`, `TenantsDoNotMix`, `EventsInOrder`, `DeadWritersLeave`, `TypeOK` |
| `hub_panic` | 2 connections of one app, nobody closes the hub | `BroadcastSends` fails (finding 5) |
| `gateway` | 1 user in 2 organizations, 2 requests to an endpoint, 1 assignment, 2 policies (one with a permission, limits 1 and 2), 1 definition, 1 activation or retirement | `CacheIsSound`, `ServedArePermitted`, `RateIsLimited`, `TypeOK` |
| `gateway_window` | 2 requests, 1 policy without a permission | `CountersExpire` fails (finding 6) |
| `services` | the ten instances of `MCServices`, one per behaviour (next table) | the properties of the next table, and `ServicesTypeOK`: the types of all ten, scores from 0 to 100 among them |

| Part of `services` | Instance | Shows |
|---|---|---|
| tenancy | 3 calls of an administrator and a user without organization: found, create, update two fields, archive, key; the old organization active or suspended | `OrgsAreAdministered`, `OnlyOverlapLosesUpdates` |
| identity | 3 requests: register, login, keys with no, empty, one and all scopes, calls in 2 organizations | `KeysOpenWhatTheyWereMadeFor` |
| server | 5 environments, 1 generation, 2 writers (one event needs a look-up), both waits of 1 tick, a bus of 1 | `NobodyIsCutShort`, `PublishedEventsAreHeard`, `ShutdownEnds` |
| delivery | 1 publication of 2 attempts, junk, 2 handlers, 3 messages, 1 crash | `OnlyFailuresArePassedOver`, `WrittenEventsAreHandled` |
| provider | 1 organization, 2 keys, 2 secrets, 3 requests among updates with and without a key, reset, generation, probe; production | `CallsFollowTheSettings`, `KeysChangeOnRequestOnly` |
| seeding | 3 starts, the first of an older release | `SeedingAloneRepairs` |
| studio | 2 questions, one shown by the other's answer, 2 requests among single answers, bulks (one naming a question twice, one unknown, one empty), profiles, readiness; profile complete or not | `BulksAreWhole`, `ReadyMeansReady` |
| access | 1 member with any roles, all routes | types only; `RolesAreHonoured` is proved |
| forwarding | 2 requests of 2 organizations, 10 kinds | types only; `RowsStayInTheirApp` and `MaskingHolds` are proved |
| export | 1 export in 4 modes, 3 specs in 2 workspaces, materials that change; the directory empty, with a broken manifest, or with another export's files | `DatasetsAreSound` |

Deadlock is not checked where the system comes to rest: every request has been
answered, every event published.

**Bounds and why they suffice.** Two requests of one workspace on one server and
one on another give both kinds of overlap; the fourth request, of another
workspace, shares the counter of the first server. Two attempts tell a retry from
a first try. `lock_covered` has 1 + 2*1 + 1 ticks of work against a key of 5 ticks
(`TTLCovers`), `lock_overrun` 1 + 2*2 + 1 against 3, the ratio of the shipped
defaults (60 s per attempt, 3 attempts, a key of 90 s). One repair tells repairing
from giving up. A channel and a bus of one element and a registry of one make
every overflow happen; two events, one of the organization (sent to several rooms)
and one of its app, make order and routing observable. A connection is used once,
so `Conns` also bounds how often clients come and go. In `gateway` the two requests
come from one user in two organizations, so that a cache shared between them
would show; the endpoint starts with any status; two policy calls make both an
update and two rows of one endpoint happen; a limit of one against two requests
makes the limit bite, and a limit that changes between them is held against both.

In `services`: three tenancy calls are a creation and two updates that overlap, or
two founders of one slug; three visits are a key, its revocation and its use. Two
waits of one tick order everything a wait can be ordered with; `MaxAge` stops
counting where both waits are over. One publication written twice, with junk
before, between or behind, gives a failed offset that a later commit covers and a
redelivery after a crash; `MaxWritten` and `MaxCrashes` bound the partition and the
crashes. Three jobs let two updates and a generation overlap in every order. Three
starts leave one to run alone after two that overlapped or broke off; `MaxRows`
bounds how often an option may be doubled. Two edits write the same rows in both
orders. One export meets every leftover; the theorem is for any number of them
(two that overlap, with two specs, have been checked as well). The theorems of
section 5 remove these bounds for the safety properties, except where section 5
says that a property is only model-checked.

**Fairness.** `GenerationLock`: a request that has passed TryBegin goes on
(its goroutine is scheduled and Redis calls return or fail) and time passes.
`GenerateDocument`: a call that has passed the gate goes on, since every attempt
has a timeout (`resilient.go:69-71`). `WebSocketHub`: a read pump answers what it has
read and notices a closed socket. `Gateway` (`FairSpec`, for `gateway_window` only): a
request past the look-up goes on, and Redis ends keys that have a time to live.
`ServerLifecycle` (`ServerFairness`): `run()`, the dispatcher and time go on; no handler
need, which is what both waits are for. `EventDelivery` (`DeliveryFairness`): the
consuming loop goes on; no writer and no crash need. Nothing is assumed of
clients, approvers, administrators, crashes, hang-ups or events. The liveness
properties need no more.

**Assumption on time.** The code sets no limit to the database work of a request
before and after the provider calls; `Overhead` is the model's bound for each, and
the backoff sleep counts as no time. `TTLCovers` is the relation between these and
the key's time to live that `generation_lock.go:32` asks of the caller.

## 4. Findings

1. `lock_overlap`: `main.go:397` gives the key the length of one attempt plus
   30 s; a request may make several attempts, so a second request of the
   workspace can start beside it where `STUDIO.md:118` promises a 409.
2. `lock_stuck_count`: after two overlapping calls on one server the second `End`
   finds no entry and does not count down; `HasInflight` stays true.
3. `failed_row`: the failed row is inserted under the request's context; after a
   hang-up the insert fails and the attempt is not in the list.
4. `approve_race`: two approvals that both read the draft; the later overwrites
   the approver.
5. `hub_panic`: the hub's client object stays in its rooms when the pumps'
   object is removed; the next broadcast sends on the closed channel.
6. `gateway_window`: `INCR` and `EXPIRE` are two commands (`pipeline.go:256-264`).
   When the first one's reply is lost, or the second fails, the counter has no
   time to live and nothing sets one later: the "1 minute window" never ends.

## 5. Proofs

TLAPS proves, for every value of the constants that satisfies the named
assumptions of the modules:

| Module | Theorem | Statement |
|---|---|---|
| `GenerationLockProofs` | `TypeCorrect` | `Spec => []TypeOK` |
| | `MutualExclusion` | `NoOverlap`, given `TTLCovers` |
| | `LockImplementsLease` | `ImplementsLease`: the lock implements `WorkspaceLease`, given `TTLCovers` |
| | `NoCallOverlooked` | `CountsEveryCall`, whatever the time to live |
| | `BusyMeansRunning` | `BusyOnlyWhileRunning`, given `TTLCovers` |
| | `ReleaseOwnServersKey` | `ReleaseStaysOnInstance`, whatever the time to live |
| | `LocksRunOut` | variant of `LockoutEnds`: a key has time left and only loses it |
| `GenerateDocumentProofs` | `TypeCorrect`, `GateIsExact`, `GateImplementsMutex` | types, `GateMatchesCalls`, refinement of `WorkspaceMutex` |
| | `RowsTellTheAnswer`, `OnlyAcceptedSpecsAreStored`, `OnlySucceededIsApproved`, `RowsAreKept` | `AnswersMatchRows`, `StoredSpecsAreAccepted`, `ApprovedSucceeded`, `DocumentsAreKept` |
| | `RequestsImplementTable` | `ImplementsTable`: refinement of `DocumentTable` |
| | `CallsAreBounded` | variant of `CallsEnd`: a call takes at most `StepLimit` steps |
| `WebSocketHubProofs` | `TypeCorrect`, `RegistrySound`, `ChannelsCloseOnce`, `TenantsAreApart`, `EventsArriveInOrder` | the hub's safety |
| | `DeadWritersAreLeaving` | variant of `DeadWritersLeave` |
| `GatewayProofs` | `CacheTypeCorrect`, `CacheSound` | types, `CacheIsSound` |
| | `GatewayUsesCache` | `Spec => CacheSpec`: what is proved of the cache holds in the gateway |
| | `TypeCorrect`, `ServedOnlyIfPermitted`, `RateLimited` | types, `ServedArePermitted`, `RateIsLimited` |
| `TenancyProofs` | `TenancyTypes`, `SlugsStayUnique`, `OrgsStayAdministered`, `ChangesStayAuthorised`, `OnlyOverlapLoses` | types, `SlugsAreUnique`, `OrgsAreAdministered`, `ChangesAreAuthorised`, `OnlyOverlapLosesUpdates` |
| `ServerProofs` | `ServerTypes`, `ProductionStaysGuarded`, `NobodyGetsCutShort`, `EventsGetHeard` | types, `ProductionIsGuarded`, `NobodyIsCutShort`, `PublishedEventsAreHeard` |
| | `ShutdownIsBounded` | variant of `ShutdownEnds` |
| | `DeliveryTypes`, `OnlyFailuresGetPassedOver` | types, `OnlyFailuresArePassedOver` |
| | `EventsGetTheirTurn` | variant of `WrittenEventsAreHandled` |
| | `DatasetsStaySound` | `DatasetsAreSound` |
| `RequestProofs` | `RolesStayHonoured`; `RowsStayHome`, `MasksHold` | `RolesAreHonoured`; `RowsStayInTheirApp`, `MaskingHolds` |
| | `EmailsStayUnique`, `KeysOpenOnlyThat` | `EmailsAreUnique`, `KeysOpenWhatTheyWereMadeFor` |
| | `CallsFollow`, `KeysChangeOnlyOnRequest`, `StoredSettingsStayValid` | `CallsFollowTheSettings`, `KeysChangeOnRequestOnly`, `StoredSettingsAreValid` |
| | `StudioTypes`, `ReadinessIsEarned`, `BulksStayWhole` | types, `ReadyMeansReady`, `BulksAreWhole` |
| `ServicesProofs` | `SeedingKeepsProgress`, `SeedingRepairs` | the invariant of a start's progress, `SeedingAloneRepairs` |
| | `ServicesAreTheirParts` | a behaviour of `ServicesSpec` is one of each of the ten components |
| | `ServicesTypes`, `ServicesStaySafe` | `ServicesTypeOK`; the safety of all ten together |

**The arguments.** None of the invariants is inductive by itself.

* *Lock.* `LockInv` says that a request inside owns the key, that the key has at
  least as many ticks left as the request can still need, and that the entry in
  the map is its own. The second part is why `TTLCovers` is needed: SetNX gives the
  key more time than a whole request takes, a tick takes one from both, and a
  retry adds nothing. Mutual exclusion follows because a key has one value.
  For the lease: taking the key is `Grant`, whether or not the answer arrives; the
  release script and the clock are `Free`, several at once in a tick. That they end
  nobody's lease is `LockInv` (the key of a call inside has time left)
  and `KeysNameTheirWorkspace` (a key holds a token of its own workspace, so that a
  release names the lease it ends). `CountsEveryCall` holds without `TTLCovers`: `RecordToken` counts up once per call and a
  call only counts down when it leaves.
* *Gate.* `GateInv` adds to `GateMatchesCalls` that a workspace has one call inside;
  without that the End of one call would free the workspace of another. `GateStep`
  lists what a step can do to the gate, and the refinement follows from it.
* *Rows.* `RowInv` ties a row's columns to where its request is (`RowOK`) and says
  that an approver holds only succeeded rows (`TargetOK`): the check was made on a
  copy, and a row's status never changes.
* *Drafts.* `StoredSpecsAreAccepted` speaks of both providers' drafts and of the row,
  so it needs to know what a call can hold at each stage (`DraftInv`): drafts last
  no longer than the provider calls; a provider that is asked again or given up on
  has left no acceptable one; the fallback has none before it is asked; and a call
  goes on to the insert with an acceptable one of the provider it is at. An insert
  that takes the text from anywhere else (the first attempt, say) breaks it.
* *Table.* Each step is mapped to one of `DocumentTable`: a gate that lets a call in to
  `Begin`, an insert to `Store`, an approval to `Approve`, End and a restart to `Leave`,
  the rest to a stutter. `Store` asks that the call holds its workspace and has no
  row yet, which is `GateInv` and `RowInv` together; `Approve` that the row has
  succeeded, which the code knows only from the copy it read (`TargetOK`).
* *Hub.* `CloseInv`: a connection that is not yet registered has an open channel;
  one in the registry too; a channel is closed only together with leaving the
  registry, which happens once. `TenantInv`: a room holds connections of its own
  app only. `OrderInv`: what is in a channel is not newer than the dispatcher's event,
  what is in the bus is newer and increasing.
* *Cache.* `FoundIsGranted`: what a check has found is granted now. A fill that
  comes after an invalidation writes old permissions, and they are still granted
  because roles only ever grow (`GrantedGrows`). A use case that takes a role away
  would break exactly this step: the entry of a slow fill would outlive it.
* *Gateway.* `OnlyPermittedPass` says of every stage past the permission step that
  the request needs no permission or has it. `CounterCoversAdmitted`: the counter is
  at least the number of requests it let through. So a request that is let through
  leaves that number no larger than its own limit, hence no larger than any higher
  limit, while requests held against a lower one are not affected.
* *Tenancy.* `TenancyInv`: the stage of a call fits its request; `Founded`, the founder
  of an organization is a member once that insert is done; `Authority`, whoever is
  past the permission check is still an administrator, since nothing takes a role
  away; `Known`, a workspace that was found in an organization stays there, and a
  call that nobody has overtaken would still write what it read. The slugs are
  unique because the constraint is tested in the statement that writes.
* *Server.* `Quiet`: nothing runs before the server serves, and nobody is left when the
  bus begins to close after a `Shutdown` that did not run out of time. `Waited`:
  whoever has been counted since the signal is as old as the wait, and whoever
  runs in `stopping` as old as that wait, which add up. `Carried`: an event of a
  handler that has gone on is in the bus, heard, dropped or missed, and the bus is
  empty at the exit because `Close` waits for the dispatcher.
* *Delivery.* Between the committed offset and the one the loop has reached, every
  message is settled or failed (`LoopFits`); a commit is made on a settled one only, so
  every failed one it takes along has a settled one behind it.
* *Export.* `ExportInv`: approvals are in a strict order, so that the latest of a key is
  one row (`Ordered`, `Deduped`); a row's profile and answers passed the fingerprint
  gate as they were read (`RowsFit`, `GatheredFits`); and as long as nobody else has
  touched the directory, the files written so far are the export's own (`FilesFit`).
* *Roles.* `AccessInv` is the case split over routes and templates: no wildcard opens
  a route whose change is not among the role's duties. Roles only grow, so what was
  allowed when the request was let in is allowed when it writes.
* *Forwarding.* `ForwardInv`: a body past the mask is masked where the endpoint masks;
  the fields of a row are from a request of its own organization and app.
* *Identity.* `IdentityInv` follows a call along the chain: past each check, what was
  checked still holds (memberships and scopes of a row do not change), and no
  request makes a row without scopes.
* *Provider.* `ProviderInv`: an entry of the cache is what its own settings give under
  the secret of this process, whoever stored it and when. That, and comparing the
  whole settings on a hit, is why a late store does no harm.
* *Studio.* `StudioInv`: no row is from a request that is still at work
  (`AuthorsAreDone`), so that a bulk's rows come from its commit alone. For the score: a profile's score is at
  most 96 or it is 100 (`Steps`), because the smallest thing that can lack takes at
  least 4 points; with at most 99 required questions, one that is missing leaves
  98 % or less after truncation (99 % would be rounded up to 100 in the sum); hence
  100 is reached only by 100, 100 and 100.
  `StudioAssumption` therefore asks for fewer than 100 required questions; the
  shipped set has 36.
* *Seeding.* `SeedingInv`: a start that nobody ran beside is the only one running, and
  the tables hold what it has passed in its lists (`Progress`): the roles and
  questions before its position, and of the current question as many of each
  option as the list has before the option's position (`OptionsAre`). The induction
  is over the start's statements, not over the lists; a later entry leaves an
  earlier one alone because keys do not repeat in a release. Since the
  delete and the inserts are separate, counting the options is what makes the claim
  hold: a set would not notice an option that is there twice.
* *Composition.* `EachStepIsOneService` reads `ServicesNext` as a step or a stutter of
  each component, so every theorem of a component holds of the whole.

**Liveness, as far as it can be proved.** That something eventually happens needs
fairness and ENABLED, which the prover does not have. What the code contributes is
a number that the steps of the component itself lower and nobody raises; that is an
action property and is proved, and it says more than the run: how long it takes at
most, for every value of the constants.

* `LocksRunOut` (for `LockoutEnds`): a key has time left; while it is there its token
  stays, its time never grows and every tick takes some. No retry and no
  restarted server renews it.
* `CallsAreBounded` (for `CallsEnd`): `StepsLeft` is at most
  `4 * (Repairs + 1) * Attempts + 4` (two providers, each attempt a step to make it
  and one to hear the reply), each step of the call lowers it and no hang-up,
  error or other call raises it. Falling back gives the second provider its own
  attempts, once; a repair costs one of `Repairs` and starts the attempts anew.
* `DeadWritersAreLeaving` (for `DeadWritersLeave`): a registered connection without a
  writer has a reader that reads a broken socket or owes one answer into an open
  channel, so its end is at most two steps of its reader away.
* `ShutdownIsBounded` (for `ShutdownEnds`): from the signal, `run()` has at most
  `2 * WaitBudget + StopBudget + 4` looks, sleeps and ticks left, and behind `Shutdown`
  the bus only shrinks.
* `EventsGetTheirTurn` (for `WrittenEventsAreHandled`): an acknowledged message is in the
  partition; each step of the loop lowers the number of steps to it unless the
  process crashes; where that number is zero the message is settled or a handler
  failed on it.

**Assumptions.** Each module names what it asks of its constants (`...Assumption`):
mostly that stand-ins for "none" are not values and that requests are of the right
form. With content: `TTLCovers` (a hypothesis of the theorems that need it);
`ServerAssumption`, that time is counted at least to the end of both waits;
`SeedingAssumption`, that a release has finite non-empty lists of roles and
questions and no question key twice, which `LoadStudioDefault` checks of the question
list (an option may be listed twice);
`StudioAssumption`, fewer than 100 required questions.

**Only model-checked:** the liveness properties `LockoutEnds`, `CallsEnd`,
`DeadWritersLeave`, `ShutdownEnds` and `WrittenEventsAreHandled`, because fairness and
ENABLED are beyond the prover; their variants are proved, as above. Every
other property of a passing run is stated by a theorem.
**Only proved**, and in no run: `SlugsAreUnique`, `ChangesAreAuthorised`,
`ProductionIsGuarded`, `EmailsAreUnique`, `StoredSettingsAreValid`, `RolesAreHonoured`,
`RowsStayInTheirApp`, `MaskingHolds`, `DocumentsAreKept` (which also follows from
`ImplementsTable`) and the five variants.

## 6. Not modelled, and why

* *Text.* Prompts, documents, quality rules on a text, JSON, exports of packages,
  the wording of errors: pure functions of their input that unit tests reach.
  Where the control flow depends on one, its verdict is in the model (the judge of
  a spec, the gates of the dataset export, the schema of a body, the words that
  make an error transient).
* *Reads.* Lists and gets of every service, the summary: they change nothing.
* *Plumbing.* Telemetry, logging, audit rows, request ids, CORS, connection pools,
  migrations, the HTTP exchange with a language model, the reading of environment
  variables that no modelled decision depends on.
* *Not wired.* `resolver.go`, the request and response transformers and the response
  interceptors of the gateway are called by nothing; removing roles or
  permissions has no caller.
* *Time.* The length of backoff sleeps, the HTTP write deadline, pings (a write
  error is `WriterStops`), the length of the rate window. How old a cache entry may
  be is not stated: no document promises that a new role works within a time.
* *Other programs.* The frontend and the fine-tuning scripts are clients of what is
  modelled here; the other command-line tools run once, by hand and sequentially.

Three hazards have no property. A request passes the gateway when its policy cannot
be read, and two first updates of a policy leave two rows: both are in the model
(`ReadNoPolicy`, `PolicyInsert`) and nothing in the repository says what should be.
The server starts its Kafka readers before anything has subscribed
(`main.go:257`) and so reads nothing: this is in the model too (`InitEventBus`), but
`WrittenEventsAreHandled` excuses it, being a claim about processes that do read.
