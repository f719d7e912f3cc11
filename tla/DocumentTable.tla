---------------------------- MODULE DocumentTable ----------------------------
(***************************************************************************)
(* What the table of generated documents promises the readers of it,       *)
(* whoever generates, regenerates and approves at the same time: a row is  *)
(* written by the one call that holds its workspace, once, and is never    *)
(* changed again but for its approval, which only a succeeded document     *)
(* gets and none loses (generate_document.go, regenerate_document.go,      *)
(* approve_document.go over document_repository.go).  The module           *)
(* GenerateDocument is related to this one by a refinement mapping.        *)
(*                                                                         *)
(* A call writes at most one row, so a call also names its row.  Nothing   *)
(* here says why a call fails or when it ends; a holder may be lost        *)
(* together with its server, and its row, written or not, stays as it is.  *)
(***************************************************************************)
CONSTANTS Workspaces,
          Requests,      \* the generate and regenerate calls, and their rows
          WorkspaceOf    \* the workspace a call names

VARIABLES holders,       \* workspace -> the calls in progress on it
          status,        \* of each row: none, succeeded or failed
          approval       \* of each row: draft or approved

rows == <<status, approval>>
tableVars == <<holders, rows>>

Mutex == INSTANCE WorkspaceMutex

Init ==
  /\ Mutex!Init
  /\ status = [r \in Requests |-> "none"]
  /\ approval = [r \in Requests |-> "draft"]

Begin(r) == Mutex!Begin(r, WorkspaceOf[r]) /\ UNCHANGED rows

\* The insert, while the call holds its workspace.
Store(r) ==
  /\ r \in holders[WorkspaceOf[r]]
  /\ status[r] = "none"
  /\ \E outcome \in {"succeeded", "failed"} : status' = [status EXCEPT ![r] = outcome]
  /\ UNCHANGED <<holders, approval>>

Leave == Mutex!Leave /\ UNCHANGED rows

\* Approving asks nobody who is generating.
Approve(d) ==
  /\ status[d] = "succeeded"
  /\ approval' = [approval EXCEPT ![d] = "approved"]
  /\ UNCHANGED <<holders, status>>

Next == Leave \/ \E r \in Requests : Begin(r) \/ Store(r) \/ Approve(r)

Spec == Init /\ [][Next]_tableVars
=============================================================================
