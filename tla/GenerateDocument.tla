-------------------------- MODULE GenerateDocument --------------------------
(***************************************************************************)
(* The document lifecycle on one API server without Redis: generate and    *)
(* regenerate calls (generate_document.go, regenerate_document.go) behind  *)
(* the in-process GenerationGate, the resilient provider and the           *)
(* structured Product Spec pipeline they drive, the document rows they     *)
(* leave behind, and the approvals of those rows (approve_document.go).    *)
(*                                                                         *)
(* A request writes at most one row, so a request also names its row.      *)
(* Clients may hang up at any time, the database may fail or commit        *)
(* without saying so, and the server may die and start again with its rows *)
(* but without its gate.                                                   *)
(***************************************************************************)
EXTENDS Naturals

CONSTANTS Workspaces,
          Requests,      \* generate and regenerate calls
          WorkspaceOf,   \* the workspace a request names
          SourceOf,      \* the document a regenerate names, NoDocument for a generate
          NoDocument,
          Structured,    \* Product Spec requests of the organization with the adapter
          WithFallback,  \* requests whose fallback provider is another one
          Approvers,     \* approve calls, each of a user of its own
          NoUser,
          Attempts,      \* LLM_MAX_RETRIES + 1
          Repairs,       \* maxStructuredRepairAttempts
          DatabaseFails  \* whether the database may fail

ASSUME RequestAssumption ==
  /\ WorkspaceOf \in [Requests -> Workspaces]
  /\ NoDocument \notin Requests
  /\ SourceOf \in [Requests -> Requests \union {NoDocument}]
  /\ \A r \in Requests : SourceOf[r] # NoDocument =>
       (r \in Structured <=> SourceOf[r] \in Structured)  \* the type is the source's
  /\ NoUser \notin Approvers
  /\ Structured \subseteq Requests
ASSUME LimitAssumption == Attempts \in Nat \ {0} /\ Repairs \in Nat
ASSUME DatabaseAssumption == DatabaseFails \in BOOLEAN

VARIABLES
  inflight,    \* the gate: workspaces with a call in progress
  pc,          \* where each request is
  alive,       \* the client is still there: the request's context is live
  provider,    \* which provider the structured pipeline is using
  repairs,     \* repair prompts sent to it
  attempt,     \* attempts of the provider call under way
  draft,       \* what the last reply of each provider was worth
  answer,      \* what the request was answered
  status,      \* the request's row in generated_documents
  body,        \* markdown_body of the row: what the text in it was worth
  writer,      \* provider_name of the row
  approval,    \* approval_status of the row
  approvedBy,  \* approved_by of the row
  apc,         \* where each approve call is
  target       \* the document it has read and is about to update

callVars   == <<provider, repairs, attempt, draft>>
textVars   == <<body, writer>>
rowVars    == <<status, textVars, approval, approvedBy>>
approverVars == <<apc, target>>
vars == <<inflight, pc, alive, callVars, answer, rowVars, approverVars>>

----------------------------------------------------------------------------
\* Between TryBegin and End.
Executing == {"preparing", "calling", "judging", "saving", "savingFailure", "ending"}
\* lost: the server died with the request.
States    == Executing \union {"idle", "beginning", "answered", "lost"}
Answers   == {"none", "created", "refused", "conflict", "rejected",
              "providerFailed", "saveFailed"}
Providers == {"primary", "fallback"}
\* A structured reply is invalid (it does not parse or validate), weak (it does
\* not render or pass the quality gate) or acceptable.
Replies(r) == IF r \in Structured THEN {"invalid", "weak", "acceptable"} ELSE {"plain"}
Texts     == {"none", "plain", "invalid", "weak", "acceptable"}
Accepted  == {"plain", "acceptable"}
NoDraft   == [p \in Providers |-> "none"]
Statuses  == {"none", "succeeded", "failed"}

TypeOK ==
  /\ inflight \subseteq Workspaces
  /\ pc \in [Requests -> States]
  /\ alive \in [Requests -> BOOLEAN]
  /\ provider \in [Requests -> Providers]
  /\ repairs \in [Requests -> 0 .. Repairs]
  /\ attempt \in [Requests -> 0 .. Attempts]
  /\ draft \in [Requests -> [Providers -> Texts]]
  /\ answer \in [Requests -> Answers]
  /\ status \in [Requests -> Statuses]
  /\ body \in [Requests -> Texts]
  /\ writer \in [Requests -> Providers \union {"none"}]
  /\ approval \in [Requests -> {"draft", "approved"}]
  /\ approvedBy \in [Requests -> Approvers \union {NoUser}]
  /\ apc \in [Approvers -> {"idle", "updating", "done"}]
  /\ target \in [Approvers -> Requests \union {NoDocument}]

Init ==
  /\ inflight = {}
  /\ pc = [r \in Requests |-> "idle"]
  /\ alive = [r \in Requests |-> TRUE]
  /\ provider = [r \in Requests |-> "primary"]
  /\ repairs = [r \in Requests |-> 0]
  /\ attempt = [r \in Requests |-> 0]
  /\ draft = [r \in Requests |-> NoDraft]
  /\ answer = [r \in Requests |-> "none"]
  /\ status = [r \in Requests |-> "none"]
  /\ body = [r \in Requests |-> "none"]
  /\ writer = [r \in Requests |-> "none"]
  /\ approval = [r \in Requests |-> "draft"]
  /\ approvedBy = [r \in Requests |-> NoUser]
  /\ apc = [a \in Approvers |-> "idle"]
  /\ target = [a \in Approvers |-> NoDocument]

Goto(r, from, to) == pc[r] = from /\ pc' = [pc EXCEPT ![r] = to]
Answer(r, a) == answer' = [answer EXCEPT ![r] = a]

\* The provider calls are over and their local state is gone.
ForgetCalls(R) ==
  /\ provider' = [r \in Requests |-> IF r \in R THEN "primary" ELSE provider[r]]
  /\ repairs' = [r \in Requests |-> IF r \in R THEN 0 ELSE repairs[r]]
  /\ attempt' = [r \in Requests |-> IF r \in R THEN 0 ELSE attempt[r]]
  /\ draft' = [r \in Requests |-> IF r \in R THEN NoDraft ELSE draft[r]]

----------------------------------------------------------------------------
(***************************************************************************)
(* Regenerate reads the source document, then goes on as a generate call   *)
(* with the source's title and type.                                       *)
(***************************************************************************)
Regenerates(r) == SourceOf[r] # NoDocument
SourceUsable(r) == /\ status[SourceOf[r]] # "none"
                   /\ WorkspaceOf[SourceOf[r]] = WorkspaceOf[r]

ReadSource(r) ==
  /\ Regenerates(r)
  /\ SourceUsable(r)
  /\ Goto(r, "idle", "beginning")
  /\ UNCHANGED <<inflight, alive, callVars, answer, rowVars, approverVars>>

\* It is missing, or belongs to another workspace, or could not be read.
RefuseSource(r) ==
  /\ Regenerates(r)
  /\ ~SourceUsable(r) \/ DatabaseFails
  /\ Goto(r, "idle", "answered")
  /\ Answer(r, "refused")
  /\ UNCHANGED <<inflight, alive, callVars, rowVars, approverVars>>

----------------------------------------------------------------------------
(***************************************************************************)
(* GenerateDocumentUseCase.Execute up to the first provider call.          *)
(***************************************************************************)
AtGate(r) == pc[r] = "beginning" \/ (pc[r] = "idle" /\ ~Regenerates(r))

\* Mutant: TryBegin marks the workspace without looking.
TryBeginUnchecked(r) ==
  /\ AtGate(r)
  /\ pc' = [pc EXCEPT ![r] = "preparing"]
  /\ inflight' = inflight \union {WorkspaceOf[r]}
  /\ UNCHANGED <<alive, callVars, answer, rowVars, approverVars>>

TryBegin(r) ==
  /\ AtGate(r)
  /\ WorkspaceOf[r] \notin inflight
  /\ pc' = [pc EXCEPT ![r] = "preparing"]
  /\ inflight' = inflight \union {WorkspaceOf[r]}
  /\ UNCHANGED <<alive, callVars, answer, rowVars, approverVars>>

\* Another call is in progress: 409.
TryBeginBusy(r) ==
  /\ AtGate(r)
  /\ WorkspaceOf[r] \in inflight
  /\ pc' = [pc EXCEPT ![r] = "answered"]
  /\ Answer(r, "conflict")
  /\ UNCHANGED <<inflight, alive, callVars, rowVars, approverVars>>

\* Mutant: the early return goes past the deferred End.
RejectWithoutEnd(r) ==
  /\ Goto(r, "preparing", "answered")
  /\ Answer(r, "rejected")
  /\ UNCHANGED <<inflight, alive, callVars, rowVars, approverVars>>

\* The document type, the readiness gate, the workspace context, the provider
\* resolution or the prompt says no, or the database does: nothing is stored.
Reject(r) ==
  /\ Goto(r, "preparing", "ending")
  /\ Answer(r, "rejected")
  /\ UNCHANGED <<inflight, alive, callVars, rowVars, approverVars>>

StartCall(r) ==
  /\ Goto(r, "preparing", "calling")
  /\ attempt' = [attempt EXCEPT ![r] = 1]
  /\ UNCHANGED <<inflight, alive, provider, repairs, draft, answer, rowVars, approverVars>>

----------------------------------------------------------------------------
(***************************************************************************)
(* Provider calls.                                                         *)
(***************************************************************************)
\* Mutant: the attempts have no limit.
RetryForever(r) ==
  /\ pc[r] = "calling" /\ alive[r]
  /\ attempt' = [attempt EXCEPT ![r] = (@ % Attempts) + 1]
  /\ UNCHANGED <<inflight, pc, alive, provider, repairs, draft, answer, rowVars, approverVars>>

\* A timeout, a rate limit or a network error, and attempts are left.
RetryAttempt(r) ==
  /\ pc[r] = "calling" /\ alive[r]
  /\ attempt[r] < Attempts
  /\ attempt' = [attempt EXCEPT ![r] = @ + 1]
  /\ UNCHANGED <<inflight, pc, alive, provider, repairs, draft, answer, rowVars, approverVars>>

\* The provider answers, and the answer is parsed and validated; in the place
\* of what this provider has answered before.
HearReply(r) ==
  /\ alive[r]
  /\ Goto(r, "calling", "judging")
  /\ \E reply \in Replies(r) : draft' = [draft EXCEPT ![r][provider[r]] = reply]
  /\ UNCHANGED <<inflight, alive, provider, repairs, attempt, answer, rowVars, approverVars>>

InHand(r) == draft[r][provider[r]]
Repairable(r) == InHand(r) = "invalid" /\ repairs[r] < Repairs

\* The reply becomes the document: a plain one as it is, a structured one that
\* has validated, rendered and passed the quality gate.
TakeReply(r) ==
  /\ Goto(r, "judging", "saving")
  /\ InHand(r) \in Accepted
  /\ UNCHANGED <<inflight, alive, callVars, answer, rowVars, approverVars>>

\* Mutant: the repairs have no limit.
RepairWithoutLimit(r) ==
  /\ Goto(r, "judging", "calling")
  /\ InHand(r) = "invalid"
  /\ repairs' = [repairs EXCEPT ![r] = @ + 1]
  /\ attempt' = [attempt EXCEPT ![r] = 1]
  /\ UNCHANGED <<inflight, alive, provider, draft, answer, rowVars, approverVars>>

\* A structured reply that does not parse or validate: a repair prompt, which is
\* a provider call with attempts of its own.
RepairReply(r) ==
  /\ Goto(r, "judging", "calling")
  /\ Repairable(r)
  /\ repairs' = [repairs EXCEPT ![r] = @ + 1]
  /\ attempt' = [attempt EXCEPT ![r] = 1]
  /\ UNCHANGED <<inflight, alive, provider, draft, answer, rowVars, approverVars>>

CanFallBack(r) == r \in Structured \intersect WithFallback /\ provider[r] = "primary"

\* The provider's pipeline has ended in an error (of the provider or of the
\* context) or in a document that is not acceptable.
PipelineFailed(r) ==
  \/ pc[r] = "calling"
  \/ pc[r] = "judging" /\ InHand(r) \in {"invalid", "weak"} /\ ~Repairable(r)

\* After the primary's: the same prompt goes to the fallback provider, with
\* repairs and attempts anew.
FallBack(r) ==
  /\ CanFallBack(r)
  /\ PipelineFailed(r)
  /\ pc' = [pc EXCEPT ![r] = "calling"]
  /\ provider' = [provider EXCEPT ![r] = "fallback"]
  /\ repairs' = [repairs EXCEPT ![r] = 0]
  /\ attempt' = [attempt EXCEPT ![r] = 1]
  /\ UNCHANGED <<inflight, alive, draft, answer, rowVars, approverVars>>

\* After the last one's.
CallFails(r) ==
  /\ ~CanFallBack(r)
  /\ PipelineFailed(r)
  /\ pc' = [pc EXCEPT ![r] = "savingFailure"]
  /\ UNCHANGED <<inflight, alive, callVars, answer, rowVars, approverVars>>

----------------------------------------------------------------------------
(***************************************************************************)
(* The row is inserted under the request's own context.                    *)
(***************************************************************************)
\* The insert can come to an error: the context is cancelled or the database
\* is in trouble.
InsertMayFail(r) == ~alive[r] \/ DatabaseFails

\* The row of the request gets the text of one provider under its name.
InsertText(r, p) ==
  /\ status' = [status EXCEPT ![r] = "succeeded"]
  /\ body' = [body EXCEPT ![r] = draft[r][p]]
  /\ writer' = [writer EXCEPT ![r] = p]
  /\ UNCHANGED <<approval, approvedBy>>

\* The failed row has no text and names the organization's provider, whoever
\* failed last.
InsertFailure(r) ==
  /\ status' = [status EXCEPT ![r] = "failed"]
  /\ writer' = [writer EXCEPT ![r] = "primary"]
  /\ UNCHANGED <<body, approval, approvedBy>>

\* Mutant: the regenerated document replaces its source.
SaveOverSource(r) ==
  LET d == IF Regenerates(r) THEN SourceOf[r] ELSE r
  IN /\ Goto(r, "saving", "ending")
     /\ alive[r]
     /\ status' = [status EXCEPT ![d] = "succeeded"]
     /\ approval' = [approval EXCEPT ![d] = "draft"]
     /\ Answer(r, "created")
     /\ ForgetCalls({r})
     /\ UNCHANGED <<inflight, alive, textVars, approvedBy, approverVars>>

\* Mutant: the first attempt is what is stored, although the second was taken.
SaveFirstAttempt(r) ==
  /\ Goto(r, "saving", "ending")
  /\ alive[r]
  /\ InsertText(r, "primary")
  /\ Answer(r, "created")
  /\ ForgetCalls({r})
  /\ UNCHANGED <<inflight, alive, approverVars>>

Save(r) ==
  /\ Goto(r, "saving", "ending")
  /\ alive[r]
  /\ InsertText(r, provider[r])
  /\ Answer(r, "created")
  /\ ForgetCalls({r})
  /\ UNCHANGED <<inflight, alive, approverVars>>

\* Mutant: the error of the insert is logged and the document answered.
SaveErrorIgnored(r) ==
  /\ Goto(r, "saving", "ending")
  /\ InsertMayFail(r)
  /\ InsertText(r, provider[r]) \/ UNCHANGED rowVars
  /\ Answer(r, "created")
  /\ ForgetCalls({r})
  /\ UNCHANGED <<inflight, alive, approverVars>>

\* The insert reports an error; the row may have been committed all the same.
SaveError(r) ==
  /\ Goto(r, "saving", "ending")
  /\ InsertMayFail(r)
  /\ InsertText(r, provider[r]) \/ UNCHANGED rowVars
  /\ Answer(r, "saveFailed")
  /\ ForgetCalls({r})
  /\ UNCHANGED <<inflight, alive, approverVars>>

\* persistFailedDocument; its own error is logged and the provider's answered.
SaveFailure(r) ==
  /\ Goto(r, "savingFailure", "ending")
  /\ \/ (alive[r] \/ InsertMayFail(r)) /\ InsertFailure(r)
     \/ InsertMayFail(r) /\ UNCHANGED rowVars
  /\ Answer(r, "providerFailed")
  /\ ForgetCalls({r})
  /\ UNCHANGED <<inflight, alive, approverVars>>

\* The deferred End, and the answer goes out; the context is of no more use.
End(r) ==
  /\ Goto(r, "ending", "answered")
  /\ inflight' = inflight \ {WorkspaceOf[r]}
  /\ alive' = [alive EXCEPT ![r] = TRUE]
  /\ UNCHANGED <<callVars, answer, rowVars, approverVars>>

----------------------------------------------------------------------------
(***************************************************************************)
(* Approval: a read, the checks on what was read, and an update by id that *)
(* checks nothing.                                                         *)
(***************************************************************************)
\* Mutant: the status of the document is not looked at.
ReadForApprovalAnyStatus(a) ==
  /\ apc[a] = "idle"
  /\ \E d \in Requests :
       /\ status[d] # "none"
       /\ apc' = [apc EXCEPT ![a] = IF approval[d] = "draft" THEN "updating" ELSE "done"]
       /\ target' = [target EXCEPT ![a] = IF apc'[a] = "updating" THEN d ELSE NoDocument]
  /\ UNCHANGED <<inflight, pc, alive, callVars, answer, rowVars>>

\* Only a succeeded document goes on to the update; an approved one is
\* returned as it is.  A document that is missing or of another workspace is
\* an error that changes nothing.
ReadForApproval(a) ==
  /\ apc[a] = "idle"
  /\ \E d \in Requests :
       /\ status[d] # "none"
       /\ apc' = [apc EXCEPT ![a] = IF status[d] = "succeeded" /\ approval[d] = "draft"
                                    THEN "updating" ELSE "done"]
       /\ target' = [target EXCEPT ![a] = IF apc'[a] = "updating" THEN d ELSE NoDocument]
  /\ UNCHANGED <<inflight, pc, alive, callVars, answer, rowVars>>

UpdateApproval(a) ==
  /\ apc[a] = "updating"
  /\ apc' = [apc EXCEPT ![a] = "done"]
  /\ target' = [target EXCEPT ![a] = NoDocument]
  /\ approval' = [approval EXCEPT ![target[a]] = "approved"]
  /\ approvedBy' = [approvedBy EXCEPT ![target[a]] = a]
  /\ UNCHANGED <<inflight, pc, alive, callVars, answer, status, textVars>>

\* The update reports an error and did nothing.
UpdateApprovalError(a) ==
  /\ apc[a] = "updating"
  /\ apc' = [apc EXCEPT ![a] = "done"]
  /\ target' = [target EXCEPT ![a] = NoDocument]
  /\ UNCHANGED <<inflight, pc, alive, callVars, answer, rowVars>>

----------------------------------------------------------------------------
(***************************************************************************)
(* The environment.                                                        *)
(***************************************************************************)
\* The client goes away: net/http cancels the request's context.  What a call
\* does between its provider calls and its insert goes on without looking, so
\* that a hang-up there is one at the next of them.
HangUp(r) ==
  /\ pc[r] \in {"calling", "saving", "savingFailure"}
  /\ alive[r]
  /\ alive' = [alive EXCEPT ![r] = FALSE]
  /\ UNCHANGED <<inflight, pc, callVars, answer, rowVars, approverVars>>

\* The server dies and starts again: the rows stay, the gate is new and empty.
Restart ==
  LET lost == {r \in Requests : pc[r] \in Executing \union {"beginning"}}
  IN /\ lost # {}
     /\ inflight' = {}
     /\ pc' = [r \in Requests |-> IF r \in lost THEN "lost" ELSE pc[r]]
     /\ alive' = [r \in Requests |-> TRUE]
     /\ ForgetCalls(lost)
     /\ apc' = [a \in Approvers |-> IF apc[a] = "updating" THEN "done" ELSE apc[a]]
     /\ target' = [a \in Approvers |-> NoDocument]
     /\ UNCHANGED <<answer, rowVars>>

----------------------------------------------------------------------------
Arrive(r) == ReadSource(r) \/ RefuseSource(r) \/ TryBegin(r) \/ TryBeginBusy(r)

\* What a call that has passed the gate does by itself.
Proceed(r) ==
  \/ Reject(r) \/ StartCall(r)
  \/ RetryAttempt(r) \/ HearReply(r) \/ TakeReply(r) \/ RepairReply(r)
  \/ FallBack(r) \/ CallFails(r)
  \/ Save(r) \/ SaveError(r) \/ SaveFailure(r)
  \/ End(r)

Approve(a) == ReadForApproval(a) \/ UpdateApproval(a) \/ UpdateApprovalError(a)

Next ==
  \/ \E r \in Requests : Arrive(r) \/ Proceed(r) \/ HangUp(r)
  \/ \E a \in Approvers : Approve(a)
  \/ Restart

Spec == Init /\ [][Next]_vars

\* A call that has passed the gate goes on: its goroutine is scheduled, every
\* attempt ends within its timeout and every query returns.  Nothing is assumed
\* of clients, of approvals or of restarts.
FairSpec == Spec /\ \A r \in Requests : WF_vars(Proceed(r))

----------------------------------------------------------------------------
(***************************************************************************)
(* Properties.                                                             *)
(***************************************************************************)
Working(w) == {r \in Requests : WorkspaceOf[r] = w /\ pc[r] \in Executing}

(***************************************************************************)
(* GenerationGate "prevents overlapping generate/regenerate calls for the  *)
(* same workspace": it implements the abstract mutex.                      *)
(***************************************************************************)
Mutex == INSTANCE WorkspaceMutex WITH holders <- [w \in Workspaces |-> Working(w)]
ImplementsMutex == Mutex!Spec

(***************************************************************************)
(* The rows as their readers see them: written once, by the call that      *)
(* holds the workspace, and changed after that only by the approval of a   *)
(* succeeded one, whoever regenerates, approves, hangs up or restarts (the *)
(* claims below of DocumentsAreKept and ApprovedSucceeded follow from it). *)
(***************************************************************************)
Table == INSTANCE DocumentTable WITH holders <- [w \in Workspaces |-> Working(w)]
ImplementsTable == Table!Spec

(***************************************************************************)
(* The gate is held exactly for the calls in progress: no early return, no *)
(* error path and no restart leaves a workspace marked busy (it would      *)
(* answer 409 until the next restart), and HasInflight is exact.           *)
(***************************************************************************)
GateMatchesCalls == inflight = {WorkspaceOf[r] : r \in {q \in Requests : pc[q] \in Executing}}

(***************************************************************************)
(* What the client is told and what the table holds fit together: 201 only *)
(* with a succeeded row, a row only if the provider was called, a failed   *)
(* row only with the provider's error, and after an error of the insert    *)
(* never a failed one.                                                     *)
(***************************************************************************)
AnswersMatchRows ==
  \A r \in Requests :
    /\ answer[r] = "created" => status[r] = "succeeded"
    /\ status[r] = "succeeded" => answer[r] \in {"created", "saveFailed"}
    /\ status[r] = "failed" => answer[r] = "providerFailed"

(***************************************************************************)
(* Repairs and the fallback leave several drafts behind in one call.  What *)
(* is stored is the draft that was accepted, under the name of the         *)
(* provider that wrote it, and not an earlier one or the other provider's; *)
(* no call reports a failure of the provider with an acceptable draft of   *)
(* either provider in hand; and nobody gives a row another text later.     *)
(***************************************************************************)
AcceptedBy(r) == {p \in Providers : draft[r][p] \in Accepted}

StoredSpecsAreAccepted ==
  [][\A r \in Requests :
       /\ status[r] # "succeeded" /\ status'[r] = "succeeded" =>
            AcceptedBy(r) = {writer'[r]} /\ body'[r] = draft[r][writer'[r]]
       /\ status[r] = "succeeded" => body'[r] = body[r] /\ writer'[r] = writer[r]
       /\ answer[r] = "none" /\ answer'[r] = "providerFailed" => AcceptedBy(r) = {}]_vars

(***************************************************************************)
(* "Only succeeded documents may be approved": the check is made on a copy *)
(* read earlier, and still no failed row is ever approved.                 *)
(***************************************************************************)
ApprovedSucceeded ==
  \A d \in Requests : approval[d] = "approved" => status[d] = "succeeded"

(***************************************************************************)
(* "The source document is never modified or deleted": a row, once there,  *)
(* keeps its outcome and an approval is never taken back, whoever          *)
(* regenerates or approves it.                                             *)
(***************************************************************************)
DocumentsAreKept ==
  [][\A d \in Requests :
       /\ status[d] # "none" => status'[d] = status[d]
       /\ approval[d] = "approved" => approval'[d] = "approved"]_vars

(***************************************************************************)
(* Every call that passes the gate is answered or dies with the server,    *)
(* through all retries, repairs and the fallback.                          *)
(***************************************************************************)
CallsEnd == \A r \in Requests : pc[r] \in Executing ~> pc[r] \in {"answered", "lost"}

(***************************************************************************)
(* Claimed by STUDIO.md: provider failures "also persist a status=failed   *)
(* document row ... so the attempt appears in the list".                   *)
(***************************************************************************)
FailuresAreListed ==
  \A r \in Requests : answer[r] = "providerFailed" => status[r] = "failed"

(***************************************************************************)
(* Claimed by approve_document.go: "Already-approved documents are         *)
(* returned as-is", so who approved a document does not change.            *)
(***************************************************************************)
ApproverIsKept ==
  [][\A d \in Requests : approval[d] = "approved" => approvedBy'[d] = approvedBy[d]]_vars
=============================================================================
