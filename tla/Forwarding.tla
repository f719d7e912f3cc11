----------------------------- MODULE Forwarding -----------------------------
(***************************************************************************)
(* What becomes of a request that the gateway's pipeline has let through:  *)
(* the request interceptors, then a registered handler, another service,   *)
(* or the table that is derived from the endpoint, whose rows it lists,    *)
(* reads, inserts, updates or deletes in one statement (two for a list).   *)
(*                                                                         *)
(* A row is named by the request that inserted it.  Of a body the model    *)
(* keeps whether it is a JSON object, whether it fits the schema, and its  *)
(* sensitive field.  The chain's response interceptors are called nowhere. *)
(***************************************************************************)
CONSTANTS Forwards,       \* requests
          ForwardInputs,  \* what they may bring, a subset of ForwardRequests
          Claimants,      \* organizations a token may claim
          Consoles,       \* apps
          NoClaim, NoId, NoBody, NoRecord, NoForward

Methods == {"GET", "POST", "PUT", "PATCH", "DELETE"}
Actions == {"list", "get", "create", "update", "patch", "delete", "other"}
Backends == {"registered", "url", "table"}
Endpoint ==
  [method : Methods, action : Actions, backend : Backends, schema : BOOLEAN, masking : BOOLEAN]
Bodies == [object : BOOLEAN, fits : BOOLEAN, secret : {"absent", "raw", "masked"}]

\* The id is the one extractIDFromPath finds: it looks for the singular of the
\* table's name, so that /order/{id} has one and /orders/{id} has none.
ForwardRequests ==
  [endpoint : Endpoint, org : Claimants \union {NoClaim}, app : Consoles,
   id : Forwards \union {NoId}, body : Bodies \union {NoBody}]

ASSUME ForwardAssumption ==
  /\ ForwardInputs \subseteq ForwardRequests
  /\ NoClaim \notin Claimants
  /\ NoId \notin Forwards
  /\ NoBody \notin Bodies
  /\ NoForward \notin ForwardRequests

\* by: the request whose field the row has.
Record ==
  [org : Claimants, app : Consoles, secret : {"absent", "raw", "masked"}, by : Forwards,
   live : BOOLEAN]
ASSUME NoRecordAssumption == NoRecord \notin Record

VARIABLES
  record,   \* the rows of the tables: a record, or NoRecord
  forward,  \* what each request brings
  fpc,      \* where it is
  body,     \* its body as it stands
  sent,     \* the requests passed on to another service or a handler
  given     \* the rows its answer contains

forwardVars == <<record, forward, fpc, body, sent, given>>

ForwardStages == {"idle", "schema", "mask", "resolve", "statement", "rows", "answered", "refused"}

ForwardingTypeOK ==
  /\ record \in [Forwards -> Record \union {NoRecord}]
  /\ forward \in [Forwards -> ForwardInputs \union {NoForward}]
  /\ fpc \in [Forwards -> ForwardStages]
  /\ body \in [Forwards -> Bodies \union {NoBody}]
  /\ sent \subseteq Forwards
  /\ given \in [Forwards -> SUBSET Forwards]

ForwardingInit ==
  /\ record = [q \in Forwards |-> NoRecord]
  /\ forward = [q \in Forwards |-> NoForward]
  /\ fpc = [q \in Forwards |-> "idle"]
  /\ body = [q \in Forwards |-> NoBody]
  /\ sent = {}
  /\ given = [q \in Forwards |-> {}]

Hop(q, from, to) == fpc[q] = from /\ fpc' = [fpc EXCEPT ![q] = to]
Leap(q, from, to) == Hop(q, from, to) /\ UNCHANGED <<record, forward, body, sent, given>>

LetThrough(q, i) ==
  /\ Hop(q, "idle", "schema")
  /\ forward' = [forward EXCEPT ![q] = i]
  /\ body' = [body EXCEPT ![q] = i.body]
  /\ UNCHANGED <<record, sent, given>>

\* A body cannot be read, or a statement or the other service fails.
Trip(q) ==
  /\ fpc[q] \in {"schema", "mask", "resolve", "statement", "rows"}
  /\ Leap(q, fpc[q], "refused")

----------------------------------------------------------------------------
(***************************************************************************)
(* The chain: the schema first, then the mask.                             *)
(***************************************************************************)
At(q) == forward[q].endpoint
HasBody(q) == At(q).method \in {"POST", "PUT", "PATCH"} /\ body[q] # NoBody

ValidateSchema(q) ==
  LET wrong == At(q).schema /\ HasBody(q) /\ ~ body[q].fits
  IN \/ Leap(q, "schema", "refused") /\ wrong
     \/ Leap(q, "schema", "mask") /\ ~ wrong

\* What is no object is left as it is.
MaskBody(b) == IF b.object /\ b.secret = "raw" THEN [b EXCEPT !.secret = "masked"] ELSE b

Mask(q) ==
  /\ Hop(q, "mask", "resolve")
  /\ body' = [body EXCEPT ![q] = IF At(q).masking /\ HasBody(q) THEN MaskBody(@) ELSE @]
  /\ UNCHANGED <<record, forward, sent, given>>

----------------------------------------------------------------------------
(***************************************************************************)
(* ResolveHandler.                                                         *)
(***************************************************************************)
PassOn(q) ==
  /\ Hop(q, "resolve", "answered")
  /\ At(q).backend \in {"registered", "url"}
  /\ sent' = sent \union {q}
  /\ UNCHANGED <<record, forward, body, given>>

\* The organization is the token's claim, and no other.
HandleGeneric(q) ==
  LET usable == forward[q].org # NoClaim /\ At(q).action # "other"
  IN \/ Leap(q, "resolve", "statement") /\ At(q).backend = "table" /\ usable
     \/ Leap(q, "resolve", "refused") /\ At(q).backend = "table" /\ ~ usable

Mine(q, r) ==
  /\ record[r] # NoRecord
  /\ record[r].live
  /\ record[r].org = forward[q].org
  /\ record[r].app = forward[q].app

\* The fields a statement writes: an object's, unless the method has no body.
FieldsWritten(q) ==
  IF At(q).method \in {"GET", "DELETE"} \/ body[q] = NoBody THEN "absent"
  ELSE IF body[q].object THEN body[q].secret ELSE "absent"

HandleCreate(q) ==
  /\ Hop(q, "statement", "answered")
  /\ At(q).action = "create"
  /\ record' = [record EXCEPT ![q] =
       [org |-> forward[q].org, app |-> forward[q].app, secret |-> FieldsWritten(q), by |-> q,
        live |-> TRUE]]
  /\ given' = [given EXCEPT ![q] = {q}]
  /\ UNCHANGED <<forward, body, sent>>

\* The row the request is for; without one the answer is 500.
Found(q) == forward[q].id # NoId /\ Mine(q, forward[q].id)

HandleUpdate(q) ==
  LET r == forward[q].id IN
  /\ Hop(q, "statement", "answered")
  /\ At(q).action \in {"update", "patch"}
  /\ Found(q)
  /\ record' = [record EXCEPT ![r] =
       IF FieldsWritten(q) = "absent" THEN @ ELSE [@ EXCEPT !.secret = FieldsWritten(q), !.by = q]]
  /\ given' = [given EXCEPT ![q] = {r}]
  /\ UNCHANGED <<forward, body, sent>>

HandleDelete(q) ==
  /\ Hop(q, "statement", "answered")
  /\ At(q).action = "delete"
  /\ Found(q)
  /\ record' = [record EXCEPT ![forward[q].id] = [@ EXCEPT !.live = FALSE]]
  /\ UNCHANGED <<forward, body, sent, given>>

HandleGet(q) ==
  /\ Hop(q, "statement", "answered")
  /\ At(q).action = "get"
  /\ Found(q)
  /\ given' = [given EXCEPT ![q] = {forward[q].id}]
  /\ UNCHANGED <<record, forward, body, sent>>

\* Two queries: the count, and a page.
HandleList(q) ==
  \/ Leap(q, "statement", "rows") /\ At(q).action = "list"
  \/ /\ Hop(q, "rows", "answered")
     /\ \E page \in SUBSET {r \in Forwards : Mine(q, r)} : given' = [given EXCEPT ![q] = page]
     /\ UNCHANGED <<record, forward, body, sent>>

ForwardingNext ==
  \E q \in Forwards :
    \/ \E i \in ForwardInputs : LetThrough(q, i)
    \/ Trip(q)
    \/ ValidateSchema(q) \/ Mask(q) \/ PassOn(q) \/ HandleGeneric(q)
    \/ HandleCreate(q) \/ HandleUpdate(q) \/ HandleDelete(q) \/ HandleGet(q) \/ HandleList(q)

ForwardingSpec == ForwardingInit /\ [][ForwardingNext]_forwardVars

----------------------------------------------------------------------------
\* A row stays in the organization and the app it was inserted for, and only a
\* request of both changes it or has it in its answer (handleList, handleGet,
\* handleCreate, handleUpdate, handleDelete), whatever id the path names.
RowsStayInTheirApp ==
  /\ \A q, r \in Forwards : r \in given[q] =>
       record[r] # NoRecord /\ record[r].org = forward[q].org /\ record[r].app = forward[q].app
  /\ \A r \in Forwards : record[r] # NoRecord =>
       LET q == record[r].by IN
       /\ record[r].org = forward[r].org /\ record[r].app = forward[r].app
       /\ record[r].org = forward[q].org /\ record[r].app = forward[q].app

\* Where an endpoint masks, no sensitive field of an object reaches a row, or a
\* service it passes requests with a body on to (InterceptRequest of the
\* masker): the methods whose bodies the statements use are those it masks.
MaskingHolds ==
  /\ \A r \in Forwards : record[r] # NoRecord /\ record[r].secret = "raw" =>
       ~ At(record[r].by).masking
  /\ \A q \in sent : At(q).masking /\ HasBody(q) /\ body[q].object => body[q].secret # "raw"
=============================================================================
