----------------------- MODULE GenerateDocumentProofs -----------------------
(***************************************************************************)
(* Proofs about GenerateDocument, for any number of workspaces, requests   *)
(* and approvers and any limits on attempts and repairs.                   *)
(***************************************************************************)
EXTENDS GenerateDocument, TLAPS

----------------------------------------------------------------------------
LEMMA TypeCorrectInit == Init => TypeOK
BY RequestAssumption, LimitAssumption
DEF Init, TypeOK, States, Executing, Answers, Statuses, Providers, Texts, NoDraft

LEMMA TypeCorrectStep == TypeOK /\ [Next]_vars => TypeOK'
<1> USE RequestAssumption, LimitAssumption
    DEF TypeOK, States, Executing, Answers, Statuses, textVars
<1> SUFFICES ASSUME TypeOK, [Next]_vars
             PROVE  TypeOK'
  OBVIOUS
<1>1. ASSUME NEW r \in Requests, Arrive(r)
      PROVE  TypeOK'
  <2>1. CASE ReadSource(r)
    BY <2>1 DEF ReadSource, Goto, callVars, rowVars, approverVars
  <2>2. CASE RefuseSource(r)
    BY <2>2 DEF RefuseSource, Goto, Answer, callVars, rowVars, approverVars
  <2>3. CASE TryBegin(r)
    BY <2>3 DEF TryBegin, callVars, rowVars, approverVars
  <2>4. CASE TryBeginBusy(r)
    BY <2>4 DEF TryBeginBusy, Answer, callVars, rowVars, approverVars
  <2>5. QED
    BY <1>1, <2>1, <2>2, <2>3, <2>4 DEF Arrive
<1>2. ASSUME NEW r \in Requests, Reject(r) \/ StartCall(r) \/ End(r)
      PROVE  TypeOK'
  <2>1. CASE Reject(r)
    BY <2>1 DEF Reject, Goto, Answer, callVars, rowVars, approverVars
  <2>2. CASE StartCall(r)
    BY <2>2 DEF StartCall, Goto, rowVars, approverVars
  <2>3. CASE End(r)
    BY <2>3 DEF End, Goto, callVars, rowVars, approverVars
  <2>4. QED
    BY <1>2, <2>1, <2>2, <2>3
<1>3. ASSUME NEW r \in Requests,
             \/ RetryAttempt(r) \/ HearReply(r) \/ TakeReply(r) \/ RepairReply(r)
             \/ FallBack(r) \/ CallFails(r)
      PROVE  TypeOK'
  <2>1. CASE RetryAttempt(r)
    BY <2>1 DEF RetryAttempt, rowVars, approverVars
  <2>2. CASE HearReply(r)
    <3>1. PICK reply \in Replies(r) : draft' = [draft EXCEPT ![r][provider[r]] = reply]
      BY <2>2 DEF HearReply
    <3>2. reply \in Texts /\ provider[r] \in Providers /\ draft[r] \in [Providers -> Texts]
      BY DEF Replies, Texts
    <3>3. draft' \in [Requests -> [Providers -> Texts]]
      BY <3>1, <3>2
    <3>4. QED
      BY <2>2, <3>3 DEF HearReply, Goto, rowVars, approverVars
  <2>3. CASE TakeReply(r)
    BY <2>3 DEF TakeReply, Goto, callVars, rowVars, approverVars
  <2>4. CASE RepairReply(r)
    BY <2>4 DEF RepairReply, Repairable, Goto, rowVars, approverVars
  <2>5. CASE FallBack(r)
    BY <2>5 DEF FallBack, Providers, rowVars, approverVars
  <2>6. CASE CallFails(r)
    BY <2>6 DEF CallFails, callVars, rowVars, approverVars
  <2>7. QED
    BY <1>3, <2>1, <2>2, <2>3, <2>4, <2>5, <2>6
<1>4. ASSUME NEW r \in Requests, Save(r) \/ SaveError(r) \/ SaveFailure(r)
      PROVE  TypeOK'
  <2>1. /\ provider' \in [Requests -> Providers] /\ repairs' \in [Requests -> 0 .. Repairs]
        /\ attempt' \in [Requests -> 0 .. Attempts]
        /\ draft' \in [Requests -> [Providers -> Texts]]
    BY <1>4 DEF Save, SaveError, SaveFailure, ForgetCalls, Providers, NoDraft, Texts
  <2>2. ASSUME InsertText(r, provider[r])
        PROVE  /\ status' \in [Requests -> Statuses] /\ body' \in [Requests -> Texts]
               /\ writer' \in [Requests -> Providers \union {"none"}]
               /\ UNCHANGED <<approval, approvedBy>>
    BY <2>2 DEF InsertText
  <2>3. ASSUME InsertFailure(r)
        PROVE  /\ status' \in [Requests -> Statuses] /\ body' \in [Requests -> Texts]
               /\ writer' \in [Requests -> Providers \union {"none"}]
               /\ UNCHANGED <<approval, approvedBy>>
    BY <2>3 DEF InsertFailure, Providers
  <2>4. CASE Save(r)
    BY <2>1, <2>2, <2>4 DEF Save, Goto, Answer, approverVars
  <2>5. CASE SaveError(r)
    BY <2>1, <2>2, <2>5 DEF SaveError, Goto, Answer, rowVars, approverVars
  <2>6. CASE SaveFailure(r)
    BY <2>1, <2>3, <2>6 DEF SaveFailure, Goto, Answer, rowVars, approverVars
  <2>7. QED
    BY <1>4, <2>4, <2>5, <2>6
<1>5. ASSUME NEW r \in Requests, HangUp(r)
      PROVE  TypeOK'
  BY <1>5 DEF HangUp, callVars, rowVars, approverVars
<1>6. ASSUME NEW a \in Approvers, Approve(a)
      PROVE  TypeOK'
  <2>1. CASE ReadForApproval(a)
    BY <2>1 DEF ReadForApproval, callVars, rowVars
  <2>2. CASE UpdateApproval(a)
    BY <2>2 DEF UpdateApproval, callVars
  <2>3. CASE UpdateApprovalError(a)
    BY <2>3 DEF UpdateApprovalError, callVars, rowVars
  <2>4. QED
    BY <1>6, <2>1, <2>2, <2>3 DEF Approve
<1>7. CASE Restart
  <2>1. /\ provider' \in [Requests -> Providers] /\ repairs' \in [Requests -> 0 .. Repairs]
        /\ attempt' \in [Requests -> 0 .. Attempts]
        /\ draft' \in [Requests -> [Providers -> Texts]]
    BY <1>7 DEF Restart, ForgetCalls, Providers, NoDraft, Texts
  <2>2. QED
    BY <1>7, <2>1 DEF Restart, rowVars
<1>8. CASE UNCHANGED vars
  BY <1>8 DEF vars, callVars, rowVars, approverVars
<1>9. QED
  BY <1>1, <1>2, <1>3, <1>4, <1>5, <1>6, <1>7, <1>8 DEF Next, Proceed

(***************************************************************************)
(* The variables keep their types: in particular no provider call makes    *)
(* more than Attempts attempts and no provider gets more than Repairs      *)
(* repair prompts.                                                         *)
(***************************************************************************)
THEOREM TypeCorrect == Spec => []TypeOK
BY TypeCorrectInit, TypeCorrectStep, PTL DEF Spec

----------------------------------------------------------------------------
(***************************************************************************)
(* The gate.                                                               *)
(***************************************************************************)
OneCallPerWorkspace ==
  \A r, s \in Requests :
    pc[r] \in Executing /\ pc[s] \in Executing /\ WorkspaceOf[r] = WorkspaceOf[s] => r = s

GateInv == GateMatchesCalls /\ OneCallPerWorkspace

\* What a step can do to the gate: begin one call, end one call, lose all
\* calls, or none of these.
LEMMA GateStep ==
  ASSUME TypeOK, [Next]_vars
  PROVE  \/ \E r \in Requests :
              /\ pc[r] \notin Executing /\ WorkspaceOf[r] \notin inflight
              /\ pc' = [pc EXCEPT ![r] = "preparing"]
              /\ inflight' = inflight \union {WorkspaceOf[r]}
         \/ \E r \in Requests :
              /\ pc[r] \in Executing /\ pc' = [pc EXCEPT ![r] = "answered"]
              /\ inflight' = inflight \ {WorkspaceOf[r]}
         \/ inflight' = {} /\ \A s \in Requests : pc'[s] \notin Executing
         \/ /\ inflight' = inflight
            /\ \A s \in Requests : pc'[s] \in Executing <=> pc[s] \in Executing
<1>1. ASSUME NEW r \in Requests, TryBegin(r)
      PROVE  /\ pc[r] \notin Executing /\ WorkspaceOf[r] \notin inflight
             /\ pc' = [pc EXCEPT ![r] = "preparing"]
             /\ inflight' = inflight \union {WorkspaceOf[r]}
  BY <1>1 DEF TryBegin, AtGate, Executing
<1>2. ASSUME NEW r \in Requests, End(r)
      PROVE  /\ pc[r] \in Executing /\ pc' = [pc EXCEPT ![r] = "answered"]
             /\ inflight' = inflight \ {WorkspaceOf[r]}
  BY <1>2 DEF End, Goto, Executing
<1>3. CASE Restart
  BY <1>3 DEF Restart, Executing, TypeOK
<1>4. ASSUME NEW r \in Requests, ReadSource(r) \/ RefuseSource(r) \/ TryBeginBusy(r)
      PROVE  /\ inflight' = inflight
             /\ \A s \in Requests : pc'[s] \in Executing <=> pc[s] \in Executing
  BY <1>4 DEF ReadSource, RefuseSource, TryBeginBusy, AtGate, Goto, Executing, TypeOK
<1>5. ASSUME NEW r \in Requests,
             \/ Reject(r) \/ StartCall(r) \/ HearReply(r) \/ TakeReply(r) \/ RepairReply(r)
             \/ FallBack(r) \/ CallFails(r)
      PROVE  /\ inflight' = inflight
             /\ \A s \in Requests : pc'[s] \in Executing <=> pc[s] \in Executing
  BY <1>5 DEF Reject, StartCall, HearReply, TakeReply, RepairReply, FallBack, CallFails,
              PipelineFailed, Goto, Executing, TypeOK
<1>6. ASSUME NEW r \in Requests, Save(r) \/ SaveError(r) \/ SaveFailure(r)
      PROVE  /\ inflight' = inflight
             /\ \A s \in Requests : pc'[s] \in Executing <=> pc[s] \in Executing
  BY <1>6 DEF Save, SaveError, SaveFailure, Goto, Executing, TypeOK
<1>7. ASSUME NEW r \in Requests, RetryAttempt(r) \/ HangUp(r)
      PROVE  inflight' = inflight /\ pc' = pc
  BY <1>7 DEF RetryAttempt, HangUp
<1>8. ASSUME NEW a \in Approvers, Approve(a)
      PROVE  inflight' = inflight /\ pc' = pc
  BY <1>8 DEF Approve, ReadForApproval, UpdateApproval, UpdateApprovalError
<1>9. CASE UNCHANGED vars
  BY <1>9 DEF vars
<1>10. QED
  BY <1>1, <1>2, <1>3, <1>4, <1>5, <1>6, <1>7, <1>8, <1>9 DEF Next, Arrive, Proceed

LEMMA GateInvStep ==
  ASSUME TypeOK, GateInv, [Next]_vars
  PROVE  GateInv'
<1> USE RequestAssumption DEF GateInv, GateMatchesCalls, OneCallPerWorkspace
<1>1. ASSUME NEW r \in Requests, pc[r] \notin Executing, WorkspaceOf[r] \notin inflight,
             pc' = [pc EXCEPT ![r] = "preparing"],
             inflight' = inflight \union {WorkspaceOf[r]}
      PROVE  GateInv'
  <2>1. \A s \in Requests : pc'[s] \in Executing <=> pc[s] \in Executing \/ s = r
    BY <1>1 DEF TypeOK, Executing
  <2>2. \A s \in Requests : pc[s] \in Executing => WorkspaceOf[s] # WorkspaceOf[r]
    BY <1>1
  <2>3. QED
    BY <1>1, <2>1, <2>2
<1>2. ASSUME NEW r \in Requests, pc[r] \in Executing, pc' = [pc EXCEPT ![r] = "answered"],
             inflight' = inflight \ {WorkspaceOf[r]}
      PROVE  GateInv'
  <2>1. \A s \in Requests : pc'[s] \in Executing <=> pc[s] \in Executing /\ s # r
    BY <1>2 DEF TypeOK, Executing
  <2>2. \A s \in Requests : pc[s] \in Executing /\ s # r => WorkspaceOf[s] # WorkspaceOf[r]
    BY <1>2
  <2>3. QED
    BY <1>2, <2>1, <2>2
<1>3. CASE inflight' = {} /\ \A s \in Requests : pc'[s] \notin Executing
  BY <1>3
<1>4. CASE /\ inflight' = inflight
           /\ \A s \in Requests : pc'[s] \in Executing <=> pc[s] \in Executing
  BY <1>4
<1>5. QED
  BY <1>1, <1>2, <1>3, <1>4, GateStep

LEMMA GateInvariant == Spec => [](TypeOK /\ GateInv)
<1>1. Init => TypeOK /\ GateInv
  <2>1. Init => GateInv
    BY DEF Init, GateInv, GateMatchesCalls, OneCallPerWorkspace, Executing
  <2>2. QED
    BY <2>1, TypeCorrectInit
<1>2. TypeOK /\ GateInv /\ [Next]_vars => (TypeOK /\ GateInv)'
  BY TypeCorrectStep, GateInvStep
<1>3. QED
  BY <1>1, <1>2, PTL DEF Spec

(***************************************************************************)
(* The gate is held exactly for the calls in progress, on every path       *)
(* through Execute and across restarts.                                    *)
(***************************************************************************)
THEOREM GateIsExact == Spec => []GateMatchesCalls
BY GateInvariant, PTL DEF GateInv

LEMMA MutexStep ==
  ASSUME TypeOK, GateInv, [Next]_vars
  PROVE  Mutex!Leave \/ \E r \in Requests : Mutex!Begin(r, WorkspaceOf[r])
<1> USE RequestAssumption
<1>1. ASSUME NEW r \in Requests, pc[r] \notin Executing, WorkspaceOf[r] \notin inflight,
             pc' = [pc EXCEPT ![r] = "preparing"]
      PROVE  Mutex!Begin(r, WorkspaceOf[r])
  <2>1. Working(WorkspaceOf[r]) = {}
    BY <1>1 DEF GateInv, GateMatchesCalls, Working
  <2>2. \A w \in Workspaces : Working(w)' = IF w = WorkspaceOf[r] THEN {r} ELSE Working(w)
    BY <1>1, <2>1 DEF Working, TypeOK, Executing
  <2>3. QED
    BY <2>1, <2>2 DEF Mutex!Begin
<1>2. ASSUME \A s \in Requests : pc'[s] \in Executing => pc[s] \in Executing
      PROVE  Mutex!Leave
  <2>1. \A w \in Workspaces : Working(w)' \in SUBSET Requests /\ Working(w)' \subseteq Working(w)
    BY <1>2 DEF Working
  <2>2. QED
    BY <2>1 DEF Mutex!Leave
<1>3. ASSUME NEW r \in Requests, pc' = [pc EXCEPT ![r] = "answered"]
      PROVE  \A s \in Requests : pc'[s] \in Executing => pc[s] \in Executing
  BY <1>3 DEF TypeOK, Executing
<1>4. QED
  BY <1>1, <1>2, <1>3, GateStep

(***************************************************************************)
(* The in-process gate implements the abstract mutex, with no assumption   *)
(* on how long a call lasts.                                               *)
(***************************************************************************)
THEOREM GateImplementsMutex == Spec => ImplementsMutex
<1>1. Init => Mutex!Init
  BY DEF Init, Mutex!Init, Working, Executing
<1>2. TypeOK /\ GateInv /\ [Next]_vars => [Mutex!Next]_([w \in Workspaces |-> Working(w)])
  BY MutexStep, RequestAssumption DEF Mutex!Next
<1>3. QED
  BY <1>1, <1>2, GateInvariant, PTL DEF Spec, ImplementsMutex, Mutex!Spec

----------------------------------------------------------------------------
(***************************************************************************)
(* The rows.  The strengthening: until a request is at its insert it has   *)
(* neither a row nor an answer, and what an approver is about to update    *)
(* had succeeded when it was read, which does not change.                  *)
(***************************************************************************)
BeforeInsert == {"idle", "beginning", "preparing", "calling", "judging",
                 "saving", "savingFailure"}

RowOK(r) ==
  /\ pc[r] \in BeforeInsert => status[r] = "none" /\ answer[r] = "none"
  /\ answer[r] = "created" => status[r] = "succeeded"
  /\ status[r] = "succeeded" => answer[r] \in {"created", "saveFailed"}
  /\ status[r] = "failed" => answer[r] = "providerFailed"
  /\ approval[r] = "approved" => status[r] = "succeeded"

TargetOK(a) ==
  apc[a] = "updating" => target[a] \in Requests /\ status[target[a]] = "succeeded"

RowInv == (\A r \in Requests : RowOK(r)) /\ (\A a \in Approvers : TargetOK(a))

\* Rows are only ever added, and only by the request they belong to.
RowsOnlyAdded ==
  \A d \in Requests :
    /\ status[d] # "none" => status'[d] = status[d]
    /\ approval[d] = "approved" => approval'[d] = "approved"

LEMMA RowInvInit == Init => RowInv
BY DEF Init, RowInv, RowOK, TargetOK

LEMMA RowInvStep ==
  ASSUME TypeOK, RowInv, [Next]_vars
  PROVE  RowInv' /\ RowsOnlyAdded
<1> USE DEF TypeOK, RowInv, RowOK, TargetOK, RowsOnlyAdded, BeforeInsert
<1>1. ASSUME NEW r \in Requests, Arrive(r)
      PROVE  RowInv' /\ RowsOnlyAdded
  <2>1. CASE ReadSource(r)
    BY <2>1 DEF ReadSource, Goto, rowVars, approverVars
  <2>2. CASE RefuseSource(r)
    BY <2>2 DEF RefuseSource, Goto, Answer, rowVars, approverVars
  <2>3. CASE TryBegin(r)
    BY <2>3 DEF TryBegin, AtGate, rowVars, approverVars
  <2>4. CASE TryBeginBusy(r)
    BY <2>4 DEF TryBeginBusy, AtGate, Answer, rowVars, approverVars
  <2>5. QED
    BY <1>1, <2>1, <2>2, <2>3, <2>4 DEF Arrive
<1>2. ASSUME NEW r \in Requests, Reject(r) \/ StartCall(r) \/ End(r)
      PROVE  RowInv' /\ RowsOnlyAdded
  <2>1. CASE Reject(r)
    BY <2>1 DEF Reject, Goto, Answer, rowVars, approverVars
  <2>2. CASE StartCall(r)
    BY <2>2 DEF StartCall, Goto, rowVars, approverVars
  <2>3. CASE End(r)
    BY <2>3 DEF End, Goto, rowVars, approverVars
  <2>4. QED
    BY <1>2, <2>1, <2>2, <2>3
<1>3. ASSUME NEW r \in Requests,
             \/ RetryAttempt(r) \/ HearReply(r) \/ TakeReply(r) \/ RepairReply(r)
             \/ FallBack(r) \/ CallFails(r)
      PROVE  RowInv' /\ RowsOnlyAdded
  <2>1. pc[r] \in BeforeInsert /\ \E to \in BeforeInsert : pc' = [pc EXCEPT ![r] = to]
    BY <1>3 DEF RetryAttempt, HearReply, TakeReply, RepairReply, FallBack, CallFails,
                PipelineFailed, Goto
  <2>2. UNCHANGED <<answer, rowVars, approverVars>>
    BY <1>3 DEF RetryAttempt, HearReply, TakeReply, RepairReply, FallBack, CallFails
  <2>3. QED
    BY <2>1, <2>2 DEF rowVars, approverVars
<1>4. ASSUME NEW r \in Requests, Save(r) \/ SaveError(r) \/ SaveFailure(r)
      PROVE  RowInv' /\ RowsOnlyAdded
  <2>1. CASE Save(r)
    BY <2>1 DEF Save, InsertText, Goto, Answer, approverVars
  <2>2. CASE SaveError(r)
    BY <2>2 DEF SaveError, InsertText, Goto, Answer, rowVars, approverVars
  <2>3. CASE SaveFailure(r)
    BY <2>3 DEF SaveFailure, InsertFailure, Goto, Answer, rowVars, approverVars
  <2>4. QED
    BY <1>4, <2>1, <2>2, <2>3
<1>5. ASSUME NEW r \in Requests, HangUp(r)
      PROVE  RowInv' /\ RowsOnlyAdded
  BY <1>5 DEF HangUp, rowVars, approverVars
<1>6. ASSUME NEW a \in Approvers, Approve(a)
      PROVE  RowInv' /\ RowsOnlyAdded
  <2>1. CASE ReadForApproval(a)
    BY <2>1 DEF ReadForApproval, rowVars
  <2>2. CASE UpdateApproval(a)
    BY <2>2 DEF UpdateApproval
  <2>3. CASE UpdateApprovalError(a)
    BY <2>3 DEF UpdateApprovalError, rowVars
  <2>4. QED
    BY <1>6, <2>1, <2>2, <2>3 DEF Approve
<1>7. CASE Restart
  BY <1>7 DEF Restart, rowVars
<1>8. CASE UNCHANGED vars
  BY <1>8 DEF vars, rowVars, approverVars
<1>9. QED
  BY <1>1, <1>2, <1>3, <1>4, <1>5, <1>6, <1>7, <1>8 DEF Next, Proceed

LEMMA RowInvariant == Spec => [](TypeOK /\ RowInv)
<1>1. Init => TypeOK /\ RowInv
  BY TypeCorrectInit, RowInvInit
<1>2. TypeOK /\ RowInv /\ [Next]_vars => (TypeOK /\ RowInv)'
  BY TypeCorrectStep, RowInvStep
<1>3. QED
  BY <1>1, <1>2, PTL DEF Spec

(***************************************************************************)
(* Answers and rows fit together, whoever hangs up and whatever the        *)
(* database loses or commits without saying so.                            *)
(***************************************************************************)
THEOREM RowsTellTheAnswer == Spec => []AnswersMatchRows
<1>1. RowInv => AnswersMatchRows
  BY DEF RowInv, RowOK, AnswersMatchRows
<1>2. QED
  BY <1>1, RowInvariant, PTL

(***************************************************************************)
(* No failed document is ever approved, although the approval updates by   *)
(* id and checks nothing: a row keeps the status it was read with.         *)
(***************************************************************************)
THEOREM OnlySucceededIsApproved == Spec => []ApprovedSucceeded
<1>1. RowInv => ApprovedSucceeded
  BY DEF RowInv, RowOK, ApprovedSucceeded
<1>2. QED
  BY <1>1, RowInvariant, PTL

(***************************************************************************)
(* Rows keep their outcome and approvals are not taken back.               *)
(***************************************************************************)
THEOREM RowsAreKept == Spec => DocumentsAreKept
<1>1. TypeOK /\ RowInv /\ [Next]_vars =>
        [\A d \in Requests :
          /\ status[d] # "none" => status'[d] = status[d]
          /\ approval[d] = "approved" => approval'[d] = "approved"]_vars
  BY RowInvStep DEF RowsOnlyAdded
<1>2. QED
  BY <1>1, RowInvariant, PTL DEF Spec, DocumentsAreKept

----------------------------------------------------------------------------
(***************************************************************************)
(* The drafts.  What makes the text of a row the accepted one: a draft     *)
(* lasts no longer than the provider calls, a provider that is asked again *)
(* or given up on has no acceptable draft, the fallback has none before it *)
(* is asked, and only an acceptable one goes to the insert.                *)
(***************************************************************************)
WithDrafts == {"calling", "judging", "saving", "savingFailure"}

DraftOK(r) ==
  /\ pc[r] \notin WithDrafts => draft[r] = NoDraft /\ provider[r] = "primary"
  /\ provider[r] = "primary" => draft[r]["fallback"] = "none"
  /\ provider[r] = "fallback" => draft[r]["primary"] \notin Accepted
  /\ pc[r] \in {"calling", "savingFailure"} => InHand(r) \notin Accepted
  /\ pc[r] = "saving" => InHand(r) \in Accepted

DraftInv == \A r \in Requests : DraftOK(r)

LEMMA DraftInvInit == Init => DraftInv
BY DEF Init, DraftInv, DraftOK, NoDraft, Providers, WithDrafts, InHand, Accepted

\* A call that nobody moves keeps its drafts.
LEMMA OthersKeepTheirDrafts ==
  ASSUME NEW s \in Requests, DraftOK(s), draft'[s] = draft[s], provider'[s] = provider[s],
         \/ pc'[s] = pc[s]
         \/ pc[s] \notin WithDrafts /\ pc'[s] \notin WithDrafts
  PROVE  DraftOK(s)'
BY DEF DraftOK, InHand, WithDrafts

LEMMA DraftInvStep ==
  ASSUME TypeOK, DraftInv, [Next]_vars
  PROVE  DraftInv'
<1> USE DEF TypeOK, Providers
<1> SUFFICES ASSUME NEW s \in Requests
             PROVE  DraftOK(s)'
  BY DEF DraftInv
<1>0. DraftOK(s)
  BY DEF DraftInv
<1>1. ASSUME UNCHANGED <<draft, provider, pc>>
      PROVE  DraftOK(s)'
  BY <1>0, <1>1, OthersKeepTheirDrafts
<1>2. ASSUME NEW r \in Requests, Arrive(r) \/ Reject(r) \/ End(r)
      PROVE  DraftOK(s)'
  <2>1. /\ UNCHANGED <<draft, provider>>
        /\ \/ pc'[s] = pc[s]
           \/ pc[s] \notin WithDrafts /\ pc'[s] \notin WithDrafts
    BY <1>2 DEF Arrive, ReadSource, RefuseSource, TryBegin, TryBeginBusy, AtGate, Reject, End,
                Goto, WithDrafts, callVars
  <2>2. QED
    BY <1>0, <2>1, OthersKeepTheirDrafts
<1>3. ASSUME NEW r \in Requests,
             \/ StartCall(r) \/ RetryAttempt(r) \/ HearReply(r) \/ TakeReply(r)
             \/ RepairReply(r) \/ FallBack(r) \/ CallFails(r)
      PROVE  DraftOK(s)'
  <2>1. CASE s # r
    <3>1. draft'[s] = draft[s] /\ provider'[s] = provider[s] /\ pc'[s] = pc[s]
      BY <1>3, <2>1 DEF StartCall, RetryAttempt, HearReply, TakeReply, RepairReply, FallBack,
                        CallFails, Goto, callVars
    <3>2. QED
      BY <1>0, <3>1, OthersKeepTheirDrafts
  <2>2. CASE s = r /\ StartCall(r)
    <3>1. pc[s] = "preparing" /\ pc'[s] = "calling" /\ UNCHANGED <<draft, provider>>
      BY <2>2 DEF StartCall, Goto
    <3>2. draft[s] = NoDraft
      BY <1>0, <3>1 DEF DraftOK, WithDrafts
    <3>3. QED
      BY <1>0, <3>1, <3>2 DEF DraftOK, WithDrafts, InHand, NoDraft, Accepted
  <2>3. CASE s = r /\ RetryAttempt(r)
    BY <1>1, <2>3 DEF RetryAttempt
  <2>4. CASE s = r /\ HearReply(r)
    <3>1. /\ pc'[s] = "judging" /\ provider' = provider
          /\ \A p \in Providers : p # provider[s] => draft'[s][p] = draft[s][p]
      BY <2>4 DEF HearReply, Goto
    <3>2. QED
      BY <1>0, <3>1 DEF DraftOK, WithDrafts
  <2>5. CASE s = r /\ TakeReply(r)
    <3>1. pc'[s] = "saving" /\ InHand(s) \in Accepted /\ UNCHANGED <<draft, provider>>
      BY <2>5 DEF TakeReply, Goto, callVars
    <3>2. QED
      BY <1>0, <3>1 DEF DraftOK, WithDrafts, InHand
  <2>6. CASE s = r /\ RepairReply(r)
    <3>1. pc'[s] = "calling" /\ InHand(s) = "invalid" /\ UNCHANGED <<draft, provider>>
      BY <2>6 DEF RepairReply, Repairable, Goto
    <3>2. QED
      BY <1>0, <3>1 DEF DraftOK, WithDrafts, InHand, Accepted
  <2>7. PipelineFailed(s) => InHand(s) \notin Accepted
    BY <1>0 DEF PipelineFailed, DraftOK, Accepted
  <2>8. CASE s = r /\ FallBack(r)
    <3>1. /\ pc'[s] = "calling" /\ provider[s] = "primary" /\ provider'[s] = "fallback"
          /\ PipelineFailed(s) /\ draft' = draft
      BY <2>8 DEF FallBack, CanFallBack
    <3>2. draft[s]["primary"] \notin Accepted /\ draft[s]["fallback"] = "none"
      BY <1>0, <2>7, <3>1 DEF DraftOK, InHand
    <3>3. QED
      BY <3>1, <3>2 DEF DraftOK, WithDrafts, InHand, Accepted
  <2>9. CASE s = r /\ CallFails(r)
    <3>1. pc'[s] = "savingFailure" /\ PipelineFailed(s) /\ UNCHANGED <<draft, provider>>
      BY <2>9 DEF CallFails, callVars
    <3>2. QED
      BY <1>0, <2>7, <3>1 DEF DraftOK, WithDrafts, InHand
  <2>10. QED
    BY <1>3, <2>1, <2>2, <2>3, <2>4, <2>5, <2>6, <2>8, <2>9
<1>4. ASSUME NEW r \in Requests, Save(r) \/ SaveError(r) \/ SaveFailure(r)
      PROVE  DraftOK(s)'
  <2>1. ForgetCalls({r}) /\ pc' = [pc EXCEPT ![r] = "ending"]
    BY <1>4 DEF Save, SaveError, SaveFailure, Goto
  <2>2. CASE s = r
    <3>1. pc'[s] = "ending" /\ draft'[s] = NoDraft /\ provider'[s] = "primary"
      BY <2>1, <2>2 DEF ForgetCalls
    <3>2. QED
      BY <3>1 DEF DraftOK, WithDrafts, NoDraft
  <2>3. CASE s # r
    <3>1. draft'[s] = draft[s] /\ provider'[s] = provider[s] /\ pc'[s] = pc[s]
      BY <2>1, <2>3 DEF ForgetCalls
    <3>2. QED
      BY <1>0, <3>1, OthersKeepTheirDrafts
  <2>4. QED
    BY <2>2, <2>3
<1>5. CASE Restart
  <2>1. CASE pc[s] \in Executing \union {"beginning"}
    <3>1. pc'[s] = "lost" /\ draft'[s] = NoDraft /\ provider'[s] = "primary"
      BY <1>5, <2>1 DEF Restart, ForgetCalls
    <3>2. QED
      BY <3>1 DEF DraftOK, WithDrafts, NoDraft
  <2>2. CASE pc[s] \notin Executing \union {"beginning"}
    <3>1. draft'[s] = draft[s] /\ provider'[s] = provider[s] /\ pc'[s] = pc[s]
      BY <1>5, <2>2 DEF Restart, ForgetCalls
    <3>2. QED
      BY <1>0, <3>1, OthersKeepTheirDrafts
  <2>3. QED
    BY <2>1, <2>2
<1>6. ASSUME NEW r \in Requests, HangUp(r)
      PROVE  DraftOK(s)'
  BY <1>1, <1>6 DEF HangUp, callVars
<1>7. ASSUME NEW a \in Approvers, Approve(a)
      PROVE  DraftOK(s)'
  BY <1>1, <1>7 DEF Approve, ReadForApproval, UpdateApproval, UpdateApprovalError, callVars
<1>8. CASE UNCHANGED vars
  BY <1>1, <1>8 DEF vars, callVars
<1>9. QED
  BY <1>2, <1>3, <1>4, <1>5, <1>6, <1>7, <1>8 DEF Next, Proceed

LEMMA DraftInvariant == Spec => [](TypeOK /\ RowInv /\ DraftInv)
<1>1. Init => DraftInv
  BY DraftInvInit
<1>2. TypeOK /\ DraftInv /\ [Next]_vars => DraftInv'
  BY DraftInvStep
<1>3. QED
  BY <1>1, <1>2, RowInvariant, PTL DEF Spec

\* What a step does to a text: a call at its insert writes its own row, with
\* the draft of the provider it used or as a failed one.
LEMMA TextStep ==
  ASSUME TypeOK, [Next]_vars
  PROVE  \/ UNCHANGED <<status, body, writer>>
         \/ \E r \in Requests :
              \/ pc[r] = "saving" /\ InsertText(r, provider[r])
              \/ pc[r] = "savingFailure" /\ InsertFailure(r)
<1>1. ASSUME NEW r \in Requests, Save(r) \/ SaveError(r) \/ SaveFailure(r)
      PROVE  \/ UNCHANGED <<status, body, writer>>
             \/ pc[r] = "saving" /\ InsertText(r, provider[r])
             \/ pc[r] = "savingFailure" /\ InsertFailure(r)
  BY <1>1 DEF Save, SaveError, SaveFailure, Goto, rowVars, textVars
<1>2. ASSUME NEW a \in Approvers, Approve(a)
      PROVE  UNCHANGED <<status, body, writer>>
  BY <1>2 DEF Approve, ReadForApproval, UpdateApproval, UpdateApprovalError, rowVars, textVars
<1>3. ASSUME NEW r \in Requests, Arrive(r) \/ HangUp(r)
      PROVE  UNCHANGED <<status, body, writer>>
  BY <1>3 DEF Arrive, ReadSource, RefuseSource, TryBegin, TryBeginBusy, HangUp, rowVars,
              textVars
<1>4. ASSUME NEW r \in Requests, Proceed(r), ~ Save(r), ~ SaveError(r), ~ SaveFailure(r)
      PROVE  UNCHANGED <<status, body, writer>>
  BY <1>4 DEF Proceed, Reject, StartCall, RetryAttempt, HearReply, TakeReply, RepairReply,
              FallBack, CallFails, End, rowVars, textVars
<1>5. CASE Restart \/ UNCHANGED vars
  BY <1>5 DEF Restart, vars, rowVars, textVars
<1>6. QED
  BY <1>1, <1>2, <1>3, <1>4, <1>5 DEF Next

\* Only a call whose last provider failed answers so.
LEMMA FailureStep ==
  ASSUME TypeOK, [Next]_vars, NEW r \in Requests, answer[r] # "providerFailed",
         answer'[r] = "providerFailed"
  PROVE  pc[r] = "savingFailure"
<1>1. ASSUME NEW q \in Requests, SaveFailure(q)
      PROVE  pc[r] = "savingFailure"
  BY <1>1 DEF SaveFailure, Goto, Answer, TypeOK
<1>2. ASSUME NEW q \in Requests, Arrive(q) \/ HangUp(q)
      PROVE  FALSE
  BY <1>2 DEF Arrive, ReadSource, RefuseSource, TryBegin, TryBeginBusy, HangUp, Answer, TypeOK
<1>3. ASSUME NEW q \in Requests, Proceed(q), ~ SaveFailure(q)
      PROVE  FALSE
  BY <1>3 DEF Proceed, Reject, StartCall, RetryAttempt, HearReply, TakeReply, RepairReply,
              FallBack, CallFails, Save, SaveError, End, Answer, TypeOK
<1>4. ASSUME NEW a \in Approvers, Approve(a)
      PROVE  FALSE
  BY <1>4 DEF Approve, ReadForApproval, UpdateApproval, UpdateApprovalError
<1>5. ASSUME Restart \/ UNCHANGED vars
      PROVE  FALSE
  BY <1>5 DEF Restart, vars
<1>6. QED
  BY <1>1, <1>2, <1>3, <1>4, <1>5 DEF Next

\* At the insert of a text one provider has an acceptable draft, the one in
\* use; at the insert of a failure none has.
LEMMA OneIsAccepted ==
  ASSUME TypeOK, DraftInv, NEW r \in Requests
  PROVE  /\ pc[r] = "saving" => AcceptedBy(r) = {provider[r]}
         /\ pc[r] = "savingFailure" => AcceptedBy(r) = {}
BY DEF DraftInv, DraftOK, InHand, AcceptedBy, Accepted, Providers, TypeOK

StoredTextStep(r) ==
  /\ status[r] # "succeeded" /\ status'[r] = "succeeded" =>
       AcceptedBy(r) = {writer'[r]} /\ body'[r] = draft[r][writer'[r]]
  /\ status[r] = "succeeded" => body'[r] = body[r] /\ writer'[r] = writer[r]
  /\ answer[r] = "none" /\ answer'[r] = "providerFailed" => AcceptedBy(r) = {}

LEMMA StoredTextHolds ==
  ASSUME TypeOK, RowInv, DraftInv, [Next]_vars, NEW r \in Requests
  PROVE  StoredTextStep(r)
<1>1. answer[r] = "none" /\ answer'[r] = "providerFailed" => AcceptedBy(r) = {}
  BY FailureStep, OneIsAccepted
<1>2. CASE UNCHANGED <<status, body, writer>>
  BY <1>1, <1>2 DEF StoredTextStep
<1>3. ASSUME NEW q \in Requests, pc[q] = "saving", InsertText(q, provider[q])
      PROVE  StoredTextStep(r)
  <2>1. status[q] = "none"
    BY <1>3 DEF RowInv, RowOK, BeforeInsert
  <2>2. CASE q = r
    <3>1. body'[r] = draft[r][provider[r]] /\ writer'[r] = provider[r]
      BY <1>3, <2>2 DEF InsertText, TypeOK
    <3>2. AcceptedBy(r) = {provider[r]}
      BY <1>3, <2>2, OneIsAccepted
    <3>3. QED
      BY <1>1, <2>1, <2>2, <3>1, <3>2 DEF StoredTextStep
  <2>3. CASE q # r
    BY <1>1, <1>3, <2>3 DEF StoredTextStep, InsertText, TypeOK
  <2>4. QED
    BY <2>2, <2>3
<1>4. ASSUME NEW q \in Requests, pc[q] = "savingFailure", InsertFailure(q)
      PROVE  StoredTextStep(r)
  <2>1. status[q] = "none" /\ status' = [status EXCEPT ![q] = "failed"]
    BY <1>4 DEF RowInv, RowOK, BeforeInsert, InsertFailure
  <2>2. body' = body /\ writer' = [writer EXCEPT ![q] = "primary"]
    BY <1>4 DEF InsertFailure
  <2>3. QED
    BY <1>1, <2>1, <2>2 DEF StoredTextStep, TypeOK
<1>5. QED
  BY <1>2, <1>3, <1>4, TextStep

(***************************************************************************)
(* Whatever repairs, hang-ups and a fallback came before, the text stored  *)
(* is the accepted draft, under the name of its provider, and no failure   *)
(* of the provider is answered with an acceptable draft in hand, for any   *)
(* limits on attempts and repairs and any approvers.                       *)
(***************************************************************************)
THEOREM OnlyAcceptedSpecsAreStored == Spec => StoredSpecsAreAccepted
<1>1. TypeOK /\ RowInv /\ DraftInv /\ [Next]_vars =>
        [\A r \in Requests :
           /\ status[r] # "succeeded" /\ status'[r] = "succeeded" =>
                AcceptedBy(r) = {writer'[r]} /\ body'[r] = draft[r][writer'[r]]
           /\ status[r] = "succeeded" => body'[r] = body[r] /\ writer'[r] = writer[r]
           /\ answer[r] = "none" /\ answer'[r] = "providerFailed" => AcceptedBy(r) = {}]_vars
  BY StoredTextHolds DEF StoredTextStep
<1>2. QED
  BY <1>1, DraftInvariant, PTL DEF Spec, StoredSpecsAreAccepted

----------------------------------------------------------------------------
(***************************************************************************)
(* The table.  A step inserts the row of a call that is in progress and    *)
(* stays so, approves a row that has succeeded, or leaves the rows alone;  *)
(* what it does to the calls in progress is the mutex's Begin or Leave.    *)
(***************************************************************************)
RowStored(r) ==
  /\ pc[r] \in Executing
  /\ status[r] = "none"
  /\ \E outcome \in {"succeeded", "failed"} : status' = [status EXCEPT ![r] = outcome]
  /\ \A s \in Requests : pc'[s] \in Executing <=> pc[s] \in Executing
  /\ UNCHANGED approval

RowApproved(d) ==
  /\ status[d] = "succeeded"
  /\ approval' = [approval EXCEPT ![d] = "approved"]
  /\ UNCHANGED <<status, pc>>

LEMMA RowStep ==
  ASSUME TypeOK, RowInv, [Next]_vars
  PROVE  \/ UNCHANGED <<status, approval>>
         \/ \E r \in Requests : RowStored(r) \/ RowApproved(r)
<1>1. ASSUME NEW r \in Requests, Save(r) \/ SaveError(r) \/ SaveFailure(r)
      PROVE  UNCHANGED <<status, approval>> \/ RowStored(r)
  <2>1. /\ pc[r] \in {"saving", "savingFailure"} /\ pc' = [pc EXCEPT ![r] = "ending"]
        /\ UNCHANGED approval
        /\ \/ status' = status
           \/ \E outcome \in {"succeeded", "failed"} : status' = [status EXCEPT ![r] = outcome]
    BY <1>1 DEF Save, SaveError, SaveFailure, InsertText, InsertFailure, Goto, rowVars
  <2>2. status[r] = "none"
    BY <2>1 DEF RowInv, RowOK, BeforeInsert
  <2>3. \A s \in Requests : pc'[s] \in Executing <=> pc[s] \in Executing
    BY <2>1 DEF TypeOK, Executing
  <2>4. QED
    BY <2>1, <2>2, <2>3 DEF RowStored, Executing
<1>2. ASSUME NEW a \in Approvers, UpdateApproval(a)
      PROVE  \E d \in Requests : RowApproved(d)
  BY <1>2 DEF UpdateApproval, RowInv, TargetOK, RowApproved
<1>3. ASSUME NEW a \in Approvers, ReadForApproval(a) \/ UpdateApprovalError(a)
      PROVE  UNCHANGED <<status, approval>>
  BY <1>3 DEF ReadForApproval, UpdateApprovalError, rowVars
<1>4. ASSUME NEW r \in Requests, Arrive(r) \/ HangUp(r)
      PROVE  UNCHANGED <<status, approval>>
  BY <1>4 DEF Arrive, ReadSource, RefuseSource, TryBegin, TryBeginBusy, HangUp, rowVars
<1>5. ASSUME NEW r \in Requests, Proceed(r), ~ Save(r), ~ SaveError(r), ~ SaveFailure(r)
      PROVE  UNCHANGED <<status, approval>>
  BY <1>5 DEF Proceed, Reject, StartCall, RetryAttempt, HearReply, TakeReply, RepairReply,
              FallBack, CallFails, End, rowVars
<1>6. CASE Restart \/ UNCHANGED vars
  BY <1>6 DEF Restart, vars, rowVars
<1>7. QED
  BY <1>1, <1>2, <1>3, <1>4, <1>5, <1>6 DEF Next, Approve

LEMMA TableStep ==
  ASSUME TypeOK, GateInv, RowInv, [Next]_vars
  PROVE  [Table!Next]_(Table!tableVars)
<1> USE RequestAssumption
<1> DEFINE held == [w \in Workspaces |-> Working(w)]
<1>1. CASE UNCHANGED <<status, approval>>
  <2>1. ASSUME Mutex!Leave
        PROVE  Table!Leave
    BY <1>1, <2>1 DEF Mutex!Leave, Table!Leave, Table!Mutex!Leave, Table!rows
  <2>2. ASSUME NEW r \in Requests, Mutex!Begin(r, WorkspaceOf[r])
        PROVE  Table!Begin(r)
    BY <1>1, <2>2 DEF Mutex!Begin, Table!Begin, Table!Mutex!Begin, Table!rows
  <2>3. QED
    BY <2>1, <2>2, MutexStep DEF Table!Next
<1>2. ASSUME NEW r \in Requests, RowStored(r)
      PROVE  Table!Store(r)
  <2>1. r \in held[WorkspaceOf[r]]
    BY <1>2 DEF RowStored, Working
  <2>2. \A w \in Workspaces : Working(w)' = Working(w)
    BY <1>2 DEF RowStored, Working
  <2>3. held' = held
    BY <2>2
  <2>4. QED
    BY <1>2, <2>1, <2>3 DEF RowStored, Table!Store
<1>3. ASSUME NEW d \in Requests, RowApproved(d)
      PROVE  Table!Approve(d)
  <2>1. held' = held
    BY <1>3 DEF RowApproved, Working
  <2>2. QED
    BY <1>3, <2>1 DEF RowApproved, Table!Approve
<1>4. QED
  BY <1>1, <1>2, <1>3, RowStep DEF Table!Next

(***************************************************************************)
(* Generating, regenerating and approving implement the table: every row   *)
(* is written once by a call that holds its workspace, and what is done to *)
(* it later is the approval of a succeeded one, although the update that   *)
(* approves checks nothing and the insert takes no lock of its own.        *)
(***************************************************************************)
THEOREM RequestsImplementTable == Spec => ImplementsTable
<1>1. Init => Table!Init
  BY DEF Init, Table!Init, Table!Mutex!Init, Working, Executing
<1>2. TypeOK /\ GateInv /\ RowInv /\ [Next]_vars => [Table!Next]_(Table!tableVars)
  BY TableStep
<1>3. QED
  BY <1>1, <1>2, GateInvariant, RowInvariant, PTL DEF Spec, ImplementsTable, Table!Spec

----------------------------------------------------------------------------
(***************************************************************************)
(* What CallsEnd rests on, apart from the calls being scheduled: a call in *)
(* progress has a bounded number of steps to go.  The provider calls it    *)
(* may still make count most: the attempts left of the one under way, all  *)
(* attempts of the repairs left, and a whole pipeline of the fallback      *)
(* provider where there is one.                                            *)
(***************************************************************************)
PipelineCalls == (Repairs + 1) * Attempts

CallsLeft(r) ==
  (IF CanFallBack(r) THEN PipelineCalls ELSE 0)
    + (Repairs - repairs[r]) * Attempts + (Attempts - attempt[r])

\* Two providers, each asked once and for every repair: the calls a request can
\* make.  Each is a step to begin it and one to hear its answer; then the check
\* before the first, the end of the pipeline, the insert and End.
CallLimit == PipelineCalls + PipelineCalls
StepLimit == 2 * CallLimit + 4

StepsLeft(r) ==
  CASE pc[r] = "preparing" -> StepLimit
    [] pc[r] = "calling" -> 2 * CallsLeft(r) + 4
    [] pc[r] = "judging" -> 2 * CallsLeft(r) + 3
    [] pc[r] \in {"saving", "savingFailure"} -> 2
    [] pc[r] = "ending" -> 1
    [] OTHER -> 0

CallRunsDown(r) ==
  pc[r] \in Executing =>
    /\ StepsLeft(r)' \in 0 .. StepsLeft(r)
    /\ Proceed(r) => StepsLeft(r)' < StepsLeft(r)

CallsRunDown == [][\A r \in Requests : CallRunsDown(r)]_vars

\* Products of a number with Attempts, which the steps below take as numbers.
LEMMA AttemptsTimes ==
  ASSUME NEW m \in Nat
  PROVE  m * Attempts \in Nat /\ (m + 1) * Attempts = m * Attempts + Attempts
BY LimitAssumption

LEMMA CallsLeftIsBounded ==
  ASSUME TypeOK, NEW r \in Requests
  PROVE  /\ PipelineCalls \in Nat /\ PipelineCalls = Repairs * Attempts + Attempts
         /\ (Repairs - repairs[r]) * Attempts \in Nat
         /\ (Repairs - repairs[r]) * Attempts <= Repairs * Attempts
         /\ CallsLeft(r) \in 0 .. CallLimit
<1>1. /\ repairs[r] \in 0 .. Repairs /\ attempt[r] \in 0 .. Attempts
      /\ Repairs \in Nat /\ Attempts \in Nat
  BY LimitAssumption DEF TypeOK
<1>2. PipelineCalls \in Nat /\ PipelineCalls = Repairs * Attempts + Attempts
  <2>1. Repairs * Attempts \in Nat
    BY <1>1, AttemptsTimes
  <2>2. (Repairs + 1) * Attempts = Repairs * Attempts + Attempts
    BY <1>1, AttemptsTimes
  <2>3. QED
    BY <1>1, <2>1, <2>2 DEF PipelineCalls
<1>3. /\ (Repairs - repairs[r]) * Attempts \in Nat
      /\ (Repairs - repairs[r]) * Attempts <= Repairs * Attempts
  <2>1. repairs[r] * Attempts \in Nat /\ Repairs * Attempts \in Nat
    BY <1>1, AttemptsTimes
  <2>2. (Repairs - repairs[r]) * Attempts \in Nat
    <3>1. PICK m \in Nat : Repairs - repairs[r] = m
      BY <1>1
    <3>2. m * Attempts \in Nat
      BY AttemptsTimes
    <3>3. QED
      BY <3>1, <3>2
  <2>3. (Repairs - repairs[r]) * Attempts + repairs[r] * Attempts = Repairs * Attempts
    BY <1>1
  <2>4. QED
    BY <2>1, <2>2, <2>3
<1>4. Repairs * Attempts \in Nat
  BY <1>1, AttemptsTimes
<1>5. CallsLeft(r) \in 0 .. CallLimit
  <2>1. Attempts - attempt[r] \in 0 .. Attempts
    BY <1>1
  <2>2. PICK a \in Nat, b \in Nat, c \in Nat :
          /\ a = Attempts - attempt[r] /\ b = (Repairs - repairs[r]) * Attempts
          /\ c = Repairs * Attempts
    BY <1>3, <1>4, <2>1
  <2>3. /\ CallsLeft(r) = (IF CanFallBack(r) THEN PipelineCalls ELSE 0) + b + a
        /\ PipelineCalls = c + Attempts /\ b <= c /\ a <= Attempts
    BY <1>2, <1>3, <2>1, <2>2 DEF CallsLeft
  <2>4. QED
    BY <1>1, <1>2, <2>3 DEF CallLimit
<1>6. QED
  BY <1>2, <1>3, <1>5

LEMMA CallsLeftIsBoundedNext ==
  TypeOK' => (\A r \in Requests : CallsLeft(r) \in 0 .. CallLimit)'
<1>1. TypeOK => \A r \in Requests : CallsLeft(r) \in 0 .. CallLimit
  BY CallsLeftIsBounded
<1>2. QED
  BY <1>1, PTL

LEMMA StepsLeftIsBounded ==
  TypeOK => \A r \in Requests : StepsLeft(r) \in 0 .. StepLimit
BY CallsLeftIsBounded DEF StepsLeft, StepLimit, CallLimit

LEMMA StepsLeftIsBoundedNext ==
  TypeOK' => (\A r \in Requests : StepsLeft(r) \in 0 .. StepLimit)'
BY StepsLeftIsBounded, PTL

\* Who does not move a call does not change what it has left.
LEMMA OthersLeaveTheCall ==
  ASSUME NEW r \in Requests, pc'[r] = pc[r], provider'[r] = provider[r],
         repairs'[r] = repairs[r], attempt'[r] = attempt[r]
  PROVE  StepsLeft(r)' = StepsLeft(r)
BY DEF StepsLeft, CallsLeft, CanFallBack

\* Every provider call a request makes is one of those it had left.
LEMMA ProviderCallCounts ==
  ASSUME TypeOK, NEW r \in Requests, RetryAttempt(r) \/ RepairReply(r) \/ FallBack(r)
  PROVE  pc[r] \in {"calling", "judging"} /\ pc'[r] = "calling" /\ CallsLeft(r)' < CallsLeft(r)
<1>1. /\ repairs[r] \in 0 .. Repairs /\ attempt[r] \in 0 .. Attempts
      /\ Repairs \in Nat /\ Attempts \in Nat \ {0}
  BY LimitAssumption DEF TypeOK
<1>2. PICK b \in Nat, c \in Nat :
        /\ b = (Repairs - repairs[r]) * Attempts /\ c = Repairs * Attempts
  BY <1>1, CallsLeftIsBounded, AttemptsTimes
<1>3. PipelineCalls = c + Attempts /\ PipelineCalls \in Nat
  BY <1>2, CallsLeftIsBounded
<1>4. CallsLeft(r) = (IF CanFallBack(r) THEN PipelineCalls ELSE 0) + b + (Attempts - attempt[r])
  BY <1>2 DEF CallsLeft
<1>5. CASE RetryAttempt(r)
  <2>1. /\ pc[r] = "calling" /\ pc' = pc /\ provider' = provider /\ repairs' = repairs
        /\ attempt'[r] = attempt[r] + 1
    BY <1>5 DEF RetryAttempt, TypeOK
  <2>2. CallsLeft(r)' = (IF CanFallBack(r) THEN PipelineCalls ELSE 0) + b
                          + (Attempts - (attempt[r] + 1))
    BY <1>2, <2>1 DEF CallsLeft, CanFallBack
  <2>3. QED
    BY <1>1, <1>3, <1>4, <2>1, <2>2
<1>6. CASE RepairReply(r)
  <2>1. /\ pc[r] = "judging" /\ pc'[r] = "calling" /\ provider' = provider
        /\ repairs[r] < Repairs /\ repairs'[r] = repairs[r] + 1 /\ attempt'[r] = 1
    BY <1>6 DEF RepairReply, Repairable, Goto, TypeOK
  <2>2. PICK m \in Nat : m = Repairs - (repairs[r] + 1)
    BY <1>1, <2>1
  <2>3. PICK d \in Nat : d = m * Attempts /\ (m + 1) * Attempts = d + Attempts
    BY AttemptsTimes
  <2>4. b = d + Attempts
    BY <1>1, <1>2, <2>2, <2>3
  <2>5. CallsLeft(r)' = (IF CanFallBack(r) THEN PipelineCalls ELSE 0) + d + (Attempts - 1)
    BY <2>1, <2>2, <2>3 DEF CallsLeft, CanFallBack
  <2>6. QED
    BY <1>1, <1>3, <1>4, <2>1, <2>4, <2>5
<1>7. CASE FallBack(r)
  <2>1. /\ pc[r] \in {"calling", "judging"} /\ pc'[r] = "calling" /\ CanFallBack(r)
        /\ provider'[r] = "fallback" /\ repairs'[r] = 0 /\ attempt'[r] = 1
    BY <1>7 DEF FallBack, PipelineFailed, TypeOK
  <2>2. CallsLeft(r)' = c + (Attempts - 1)
    <3>1. ~CanFallBack(r)'
      BY <2>1 DEF CanFallBack
    <3>2. CallsLeft(r)' = 0 + (Repairs - 0) * Attempts + (Attempts - 1)
      BY <2>1, <3>1 DEF CallsLeft
    <3>3. Repairs - 0 = Repairs
      BY <1>1
    <3>4. QED
      BY <1>1, <1>2, <3>2, <3>3
  <2>3. QED
    BY <1>1, <1>3, <1>4, <2>1, <2>2
<1>8. QED
  BY <1>5, <1>6, <1>7

LEMMA CallRunsDownStep ==
  ASSUME TypeOK, TypeOK', [Next]_vars, NEW r \in Requests, pc[r] \in Executing
  PROVE  /\ StepsLeft(r)' \in 0 .. StepsLeft(r)
         /\ Proceed(r) => StepsLeft(r)' < StepsLeft(r)
<1> DEFINE Falls == StepsLeft(r)' < StepsLeft(r)
<1>1. /\ StepsLeft(r) \in 0 .. StepLimit /\ StepsLeft(r)' \in 0 .. StepLimit
      /\ CallsLeft(r) \in 0 .. CallLimit /\ CallLimit \in Nat
  BY StepsLeftIsBounded, StepsLeftIsBoundedNext, CallsLeftIsBounded DEF CallLimit
<1>2. ASSUME Proceed(r)
      PROVE  Falls
  <2>1. CASE Reject(r)
    <3>1. pc[r] = "preparing" /\ pc'[r] = "ending"
      BY <2>1 DEF Reject, Goto, TypeOK
    <3>2. QED
      BY <1>1, <3>1 DEF StepsLeft, StepLimit
  <2>2. CASE StartCall(r)
    <3>1. /\ pc[r] = "preparing" /\ pc'[r] = "calling" /\ attempt'[r] = 1
          /\ provider' = provider /\ repairs' = repairs
      BY <2>2 DEF StartCall, Goto, TypeOK
    <3>2. /\ StepsLeft(r) = StepLimit /\ StepsLeft(r)' = 2 * CallsLeft(r)' + 4
      BY <3>1 DEF StepsLeft
    <3>3. CallsLeft(r)' < CallLimit
      <4>1. PICK b \in Nat, c \in Nat :
              /\ b = (Repairs - repairs[r]) * Attempts /\ c = Repairs * Attempts /\ b <= c
        BY CallsLeftIsBounded, AttemptsTimes, LimitAssumption
      <4>2. PipelineCalls = c + Attempts /\ Attempts \in Nat \ {0}
        BY <4>1, CallsLeftIsBounded, LimitAssumption
      <4>3. CallsLeft(r)' = (IF CanFallBack(r) THEN PipelineCalls ELSE 0) + b + (Attempts - 1)
        BY <3>1, <4>1 DEF CallsLeft, CanFallBack
      <4>4. QED
        BY <4>1, <4>2, <4>3 DEF CallLimit
    <3>4. QED
      BY <1>1, <3>2, <3>3, CallsLeftIsBoundedNext DEF StepLimit
  <2>3. CASE RetryAttempt(r) \/ RepairReply(r) \/ FallBack(r)
    <3>1. /\ StepsLeft(r) >= 2 * CallsLeft(r) + 3 /\ StepsLeft(r)' = 2 * CallsLeft(r)' + 4
          /\ CallsLeft(r)' < CallsLeft(r)
      BY <1>1, <2>3, ProviderCallCounts DEF StepsLeft
    <3>2. CallsLeft(r)' \in 0 .. CallLimit
      BY CallsLeftIsBoundedNext
    <3>3. QED
      BY <1>1, <3>1, <3>2
  <2>4. CASE HearReply(r)
    <3>1. /\ pc[r] = "calling" /\ pc'[r] = "judging"
          /\ UNCHANGED <<provider, repairs, attempt>>
      BY <2>4 DEF HearReply, Goto, TypeOK
    <3>2. CallsLeft(r)' = CallsLeft(r)
      BY <3>1 DEF CallsLeft, CanFallBack
    <3>3. StepsLeft(r) = 2 * CallsLeft(r) + 4 /\ StepsLeft(r)' = 2 * CallsLeft(r) + 3
      BY <3>1, <3>2 DEF StepsLeft
    <3>4. QED
      BY <1>1, <3>3
  <2>5. CASE TakeReply(r) \/ CallFails(r)
    <3>1. pc[r] \in {"calling", "judging"} /\ pc'[r] \in {"saving", "savingFailure"}
      BY <2>5 DEF TakeReply, CallFails, PipelineFailed, Goto, TypeOK
    <3>2. StepsLeft(r) >= 2 * CallsLeft(r) + 3 /\ StepsLeft(r)' = 2
      BY <1>1, <3>1 DEF StepsLeft
    <3>3. QED
      BY <1>1, <3>2
  <2>6. CASE Save(r) \/ SaveError(r) \/ SaveFailure(r)
    <3>1. pc[r] \in {"saving", "savingFailure"} /\ pc'[r] = "ending"
      BY <2>6 DEF Save, SaveError, SaveFailure, Goto, TypeOK
    <3>2. QED
      BY <3>1 DEF StepsLeft
  <2>7. CASE End(r)
    BY <2>7 DEF End, Goto, TypeOK, StepsLeft
  <2>8. QED
    BY <1>2, <2>1, <2>2, <2>3, <2>4, <2>5, <2>6, <2>7 DEF Proceed
<1>3. ASSUME NEW q \in Requests, q # r, Arrive(q) \/ Proceed(q)
      PROVE  pc'[r] = pc[r] /\ provider'[r] = provider[r] /\ repairs'[r] = repairs[r]
             /\ attempt'[r] = attempt[r]
  BY <1>3 DEF Arrive, ReadSource, RefuseSource, TryBegin, TryBeginBusy, Proceed, Reject,
              StartCall, RetryAttempt, HearReply, TakeReply, RepairReply, FallBack, CallFails,
              Save, SaveError, SaveFailure, End, Goto, ForgetCalls, callVars, TypeOK
<1>4. ~Arrive(r)
  BY DEF Arrive, ReadSource, RefuseSource, TryBegin, TryBeginBusy, AtGate, Goto, Executing
<1>5. ASSUME NEW q \in Requests, HangUp(q)
      PROVE  UNCHANGED <<pc, provider, repairs, attempt>>
  BY <1>5 DEF HangUp, callVars
<1>6. ASSUME NEW a \in Approvers, Approve(a)
      PROVE  UNCHANGED <<pc, provider, repairs, attempt>>
  BY <1>6 DEF Approve, ReadForApproval, UpdateApproval, UpdateApprovalError, callVars
<1>7. CASE Restart
  <2>1. pc'[r] = "lost"
    BY <1>7 DEF Restart
  <2>2. StepsLeft(r)' = 0
    BY <2>1 DEF StepsLeft
  <2>3. ~Proceed(r)
    BY <2>1 DEF Proceed, Reject, StartCall, RetryAttempt, HearReply, TakeReply, RepairReply,
                FallBack, CallFails, Save, SaveError, SaveFailure, End, Goto, Executing, TypeOK
  <2>4. QED
    BY <1>1, <2>2, <2>3
<1>8. ASSUME UNCHANGED vars
      PROVE  UNCHANGED <<pc, provider, repairs, attempt>>
  BY <1>8 DEF vars, callVars
<1>9. QED
  <2>1. CASE Proceed(r)
    BY <1>1, <1>2, <2>1
  <2>2. CASE ~Proceed(r) /\ ~Restart
    <3>1. pc'[r] = pc[r] /\ provider'[r] = provider[r] /\ repairs'[r] = repairs[r]
          /\ attempt'[r] = attempt[r]
      BY <1>3, <1>4, <1>5, <1>6, <1>8, <2>2 DEF Next, vars, callVars
    <3>2. StepsLeft(r)' = StepsLeft(r)
      BY <3>1, OthersLeaveTheCall
    <3>3. QED
      BY <1>1, <2>2, <3>2
  <2>3. QED
    BY <1>7, <2>1, <2>2

(***************************************************************************)
(* A call in progress runs down: no reply, error, repair, fallback, hang   *)
(* up or other call gives it back a step, and every step it takes is one   *)
(* of at most StepLimit, for any limits on attempts and repairs.           *)
(***************************************************************************)
THEOREM CallsAreBounded == Spec => CallsRunDown
<1>1. TypeOK /\ TypeOK' /\ [Next]_vars => [\A r \in Requests : CallRunsDown(r)]_vars
  BY CallRunsDownStep DEF CallRunsDown
<1>2. QED
  BY <1>1, TypeCorrect, PTL DEF Spec, CallsRunDown
=============================================================================
