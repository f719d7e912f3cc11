---------------------------- MODULE OrgProvider ----------------------------
(***************************************************************************)
(* Which language model an organization's calls go to: the settings its    *)
(* administrators keep, how they merge with the environment's, the cache   *)
(* of built providers, and the calls to a provider with their retries.     *)
(*                                                                         *)
(* A provider is named by the configuration it was built from.  Each query *)
(* or statement is a step, and so is each use of the cache's mutex.        *)
(* Hosts, models and keys are a few values; timeout and retries, which an  *)
(* update copies alike, are one field, `limits'.                           *)
(***************************************************************************)
EXTENDS Naturals

CONSTANTS Jobs,         \* requests
          JobInputs,    \* what each may ask, of JobRequests
          Tenancies,    \* organizations
          APIKeys, Limits,
          Global,       \* the environment's configuration
          Production, AllowMockInProduction,  \* two settings more of it
          MaxRetries,
          Secrets,      \* key material the server may be started with
          Blank,        \* an empty field, or none
          NoSettings, NoJob, NoProvider

Providers == {"mock", "gemma", "ollama"}
Hosts == {"hosted", "huggingface", "loopback"}
Models == {"model"}

Configurations ==
  [provider : Providers, host : Hosts \union {Blank}, model : Models \union {Blank},
   key : APIKeys \union {Blank}, limits : Limits, enabled : BOOLEAN]

\* What is in the table: the organization's own fields, the key encrypted with
\* some secret, and the update that wrote them in the place of updated_at.
EncryptedKeys == [plain : APIKeys, secret : Secrets] \union {Blank}
Settings ==
  [provider : Providers, host : Hosts \union {Blank}, model : Models \union {Blank},
   enc : EncryptedKeys, limits : Limits, enabled : BOOLEAN, stamp : Jobs]

\* The requests that settings_handler and generation bring.
UpdateRequests ==
  [op : {"update"}, org : Tenancies, provider : Providers, host : Hosts \union {Blank},
   model : Models \union {Blank}, key : APIKeys \union {Blank, "clear"},
   limits : Limits \union {Blank}, enabled : BOOLEAN]
JobRequests ==
  UpdateRequests \union [op : {"reset", "generate", "probe"}, org : Tenancies]

ASSUME ProviderAssumption ==
  /\ JobInputs \in [Jobs -> SUBSET JobRequests]
  /\ Global \in Configurations
  /\ Production \in BOOLEAN
  /\ AllowMockInProduction \in BOOLEAN
  /\ MaxRetries \in Nat
  /\ Blank \notin Providers \union Hosts \union Models \union APIKeys \union Limits
  /\ "clear" \notin APIKeys \union {Blank}
  /\ Blank \notin [plain : APIKeys, secret : Secrets]
  /\ NoSettings \notin Settings
  /\ NoJob \notin JobRequests
  /\ NoProvider \notin Configurations

VARIABLES
  settings,  \* organization_llm_settings: a row, or NoSettings
  secret,    \* the key material of this process
  cache,     \* a provider and the settings it was built from, or NoProvider
  job,       \* what each request asks
  jpc,       \* where it is
  row,       \* the settings it has read
  provider,  \* the provider it has resolved
  attempt    \* the calls it has made to that provider

storeVars == <<settings, secret, cache>>
jobVars == <<job, row, provider, attempt>>
providerVars == <<storeVars, jobVars, jpc>>

CacheEntries == [provider : Configurations, settings : Settings \union {NoSettings}]

ProviderTypeOK ==
  /\ settings \in [Tenancies -> Settings \union {NoSettings}]
  /\ secret \in Secrets
  /\ cache \in [Tenancies -> CacheEntries \union {NoProvider}]
  /\ \A j \in Jobs : job[j] \in JobInputs[j] \union {NoJob}
  /\ jpc \in [Jobs -> {"idle", "existing", "upsert", "delete", "invalidate", "read", "lookup",
                       "store", "ask", "ok", "refused"}]
  /\ row \in [Jobs -> Settings \union {NoSettings}]
  /\ provider \in [Jobs -> Configurations \union {NoProvider}]
  /\ attempt \in [Jobs -> 0 .. MaxRetries + 1]

ProviderInit ==
  /\ settings = [o \in Tenancies |-> NoSettings]
  /\ secret \in Secrets
  /\ cache = [o \in Tenancies |-> NoProvider]
  /\ job = [j \in Jobs |-> NoJob]
  /\ jpc = [j \in Jobs |-> "idle"]
  /\ row = [j \in Jobs |-> NoSettings]
  /\ provider = [j \in Jobs |-> NoProvider]
  /\ attempt = [j \in Jobs |-> 0]

----------------------------------------------------------------------------
(***************************************************************************)
(* The configuration that holds for an organization, and its validation.   *)
(***************************************************************************)
Or(field, default) == IF field = Blank THEN default ELSE field

EncryptString(k) == IF k = Blank THEN Blank ELSE [plain |-> k, secret |-> secret]

\* A key that does not decrypt, with the secret of this process, is passed over.
DecryptString(enc) ==
  IF enc # Blank /\ enc.secret = secret THEN enc.plain ELSE Blank

Merge(s) ==
  IF s = NoSettings THEN Global
  ELSE [provider |-> s.provider,
        host     |-> Or(s.host, Global.host),
        model    |-> Or(s.model, Global.model),
        key      |-> Or(DecryptString(s.enc), Global.key),
        limits   |-> s.limits,
        enabled  |-> s.enabled]

ProviderBaseURLCompatible(c) == c.provider = "ollama" => c.host # "huggingface"

ValidateLLMConfig(c) ==
  c.enabled =>
    /\ c.provider = "gemma" => c.host # Blank
    /\ Production /\ c.provider = "ollama" => c.host \notin {Blank, "loopback"}
    /\ Production => c.model # Blank
    /\ Production /\ c.provider = "mock" => AllowMockInProduction
    /\ ProviderBaseURLCompatible(c)

\* NewProvider: what an adapter puts in the place of an empty field.
NewProvider(c) ==
  CASE c.provider = "ollama" -> [c EXCEPT !.host = Or(c.host, "loopback"),
                                          !.model = Or(c.model, "model")]
    [] c.provider = "gemma"  -> [c EXCEPT !.model = Or(c.model, "model")]
    [] OTHER                 -> c

----------------------------------------------------------------------------
Advance(j, from, to) == jpc[j] = from /\ jpc' = [jpc EXCEPT ![j] = to]

Stay(j, from, to) == Advance(j, from, to) /\ UNCHANGED <<storeVars, jobVars>>

Receive(j, i) ==
  /\ Advance(j, "idle", CASE i.op = "update" -> "existing"
                          [] i.op = "reset" -> "delete"
                          [] OTHER -> "read")
  /\ job' = [job EXCEPT ![j] = i]
  /\ UNCHANGED <<storeVars, row, provider, attempt>>

\* A query or a statement fails.
Abort(j) ==
  /\ jpc[j] \in {"existing", "upsert", "delete", "read"}
  /\ Stay(j, jpc[j], "refused")

----------------------------------------------------------------------------
(***************************************************************************)
(* The settings.                                                           *)
(***************************************************************************)
\* The row an update means to write: all of its fields but two from the
\* request, whether it names them or not.
Draft(j, existing) ==
  LET i == job[j] IN
  [provider |-> i.provider, host |-> i.host, model |-> i.model, enabled |-> i.enabled,
   enc |-> CASE i.key = "clear" -> Blank
             [] i.key = Blank   -> IF existing = NoSettings THEN Blank ELSE existing.enc
             [] OTHER           -> EncryptString(i.key),
   limits |-> Or(i.limits, IF existing = NoSettings THEN Global.limits ELSE existing.limits),
   stamp |-> j]

ReadExisting(j) ==
  LET draft == Draft(j, settings[job[j].org]) IN
  /\ Advance(j, "existing", IF ValidateLLMConfig(Merge(draft)) THEN "upsert" ELSE "refused")
  /\ row' = [row EXCEPT ![j] = draft]
  /\ UNCHANGED <<storeVars, job, provider, attempt>>

\* Mutant: every update writes the key's column.
UpdatesKeyAlways(i) == TRUE

\* The key's column is written only if the request names a key or clears it;
\* a row that is inserted has none otherwise.
UpdatesKey(i) == i.key # Blank

Upsert(j) ==
  LET o == job[j].org
      kept == IF settings[o] = NoSettings THEN Blank ELSE settings[o].enc
  IN /\ Advance(j, "upsert", "invalidate")
     /\ settings' = [settings EXCEPT ![o] =
          [row[j] EXCEPT !.enc = IF UpdatesKey(job[j]) THEN @ ELSE kept]]
     /\ UNCHANGED <<secret, cache, jobVars>>

Delete(j) ==
  /\ Advance(j, "delete", "invalidate")
  /\ settings' = [settings EXCEPT ![job[j].org] = NoSettings]
  /\ UNCHANGED <<secret, cache, jobVars>>

Invalidate(j) ==
  /\ Advance(j, "invalidate", "ok")
  /\ cache' = [cache EXCEPT ![job[j].org] = NoProvider]
  /\ UNCHANGED <<settings, secret, jobVars>>

----------------------------------------------------------------------------
(***************************************************************************)
(* Resolve, for a generation or a health probe.                            *)
(***************************************************************************)
GetByOrganizationID(j) ==
  /\ Advance(j, "read", "lookup")
  /\ row' = [row EXCEPT ![j] = settings[job[j].org]]
  /\ UNCHANGED <<storeVars, job, provider, attempt>>

\* Mutant: what is cached holds until an update takes it away.
TrustInvalidation(a, b) == TRUE

SettingsEqual(a, b) == a = b

\* The read lock, and what is done without one: merging, validating, building.
LookUp(j) ==
  LET entry == cache[job[j].org]
      hit == entry # NoProvider /\ SettingsEqual(entry.settings, row[j])
      effective == Merge(row[j])
  IN \/ /\ Advance(j, "lookup", "ask")
        /\ hit
        /\ provider' = [provider EXCEPT ![j] = entry.provider]
        /\ UNCHANGED <<storeVars, job, row, attempt>>
     \/ /\ Advance(j, "lookup", "store")
        /\ ~ hit /\ effective.enabled /\ ValidateLLMConfig(effective)
        /\ provider' = [provider EXCEPT ![j] = NewProvider(effective)]
        /\ UNCHANGED <<storeVars, job, row, attempt>>
     \/ /\ Stay(j, "lookup", "refused")
        /\ ~ hit /\ ~ (effective.enabled /\ ValidateLLMConfig(effective))

Store(j) ==
  /\ Advance(j, "store", "ask")
  /\ cache' = [cache EXCEPT ![job[j].org] = [provider |-> provider[j], settings |-> row[j]]]
  /\ UNCHANGED <<settings, secret, jobVars>>

----------------------------------------------------------------------------
(***************************************************************************)
(* Calls to the provider.  What comes back is a status, with words of the  *)
(* body in the error's text, or one of three ways not to answer.           *)
(***************************************************************************)
Answers ==
  [status : {200, 400, 401, 404, 402, 429, 503}, words : SUBSET {"context length", "timeout"}]
    \union [status : {0}, words : {{"timeout"}, {"connection refused"}, {"reset by peer"}}]

\* classifyProviderHTTPStatus, and what the body says.
Message(a) ==
  IF "context length" \in a.words /\ a.status > 0 THEN {"context length exceeded"}
  ELSE IF a.status = 503 THEN {"provider unavailable"} ELSE {}

Succeeds(a) == a.status = 200 /\ a.words = {}

IsTransientLLMError(a) ==
  \/ a.status = 429
  \/ (Message(a) \union a.words) \intersect
       {"provider unavailable", "timeout", "connection refused"} # {}

\* Each attempt is a call with a deadline of its own; a probe makes only one.
Ask(j, a) ==
  LET last == job[j].op = "probe" \/ attempt[j] = MaxRetries
  IN /\ Advance(j, "ask", IF Succeeds(a) THEN "ok"
                          ELSE IF IsTransientLLMError(a) /\ ~ last THEN "ask" ELSE "refused")
     /\ attempt' = [attempt EXCEPT ![j] = @ + 1]
     /\ UNCHANGED <<storeVars, job, row, provider>>

\* The server ends and is started anew, perhaps with another secret: what it
\* was doing is over, and its cache is empty.
Restart(s) ==
  /\ secret' = s
  /\ cache' = [o \in Tenancies |-> NoProvider]
  /\ jpc' = [j \in Jobs |-> IF jpc[j] \in {"idle", "ok"} THEN jpc[j] ELSE "refused"]
  /\ UNCHANGED <<settings, jobVars>>

ProviderNext ==
  \/ \E s \in Secrets : Restart(s)
  \/ \E j \in Jobs :
       \/ \E i \in JobInputs[j] : Receive(j, i)
       \/ Abort(j)
       \/ ReadExisting(j) \/ Upsert(j) \/ Delete(j) \/ Invalidate(j)
       \/ GetByOrganizationID(j) \/ LookUp(j) \/ Store(j)
       \/ \E a \in Answers : Ask(j, a)

ProviderSpec == ProviderInit /\ [][ProviderNext]_providerVars

----------------------------------------------------------------------------
\* A call goes to the provider its organization's settings describe, as they
\* were when it read them, and to one that is enabled and valid here (Resolve):
\* the cache may be stored late, after other calls' updates and invalidations,
\* and still answers only for the settings it was built from.
CallsFollowTheSettings ==
  \A j \in Jobs :
    jpc[j] = "ask" =>
      /\ provider[j] = NewProvider(Merge(row[j]))
      /\ provider[j].enabled
      /\ Production => (provider[j].provider = "mock" => AllowMockInProduction)
      /\ Production => provider[j].host # "loopback" \/ provider[j].provider # "ollama"

\* The organization's key is changed only by an update that brings a key or
\* clears it, and by a reset: an update without one, which has read the row
\* before, never puts an older key back nor takes a newer one away (Execute and
\* Upsert of the settings).
KeysChangeOnRequestOnly ==
  [][\A o \in Tenancies :
       LET key(s) == IF s = NoSettings THEN Blank ELSE s.enc IN
       key(settings'[o]) # key(settings[o]) =>
         \E j \in Jobs :
           /\ jpc'[j] # jpc[j]
           /\ job[j].org = o
           /\ \/ job[j].op = "reset" \/ job[j].key = "clear"
              \/ key(settings'[o]) # Blank /\ key(settings'[o]).plain = job[j].key]_providerVars

\* What the table holds is valid for this environment as it stands: an update
\* is validated with the row it has read, and is written over another (Execute).
StoredSettingsAreValid ==
  \A o \in Tenancies : settings[o] # NoSettings => ValidateLLMConfig(Merge(settings[o]))
=============================================================================
