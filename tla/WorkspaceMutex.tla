--------------------------- MODULE WorkspaceMutex ---------------------------
(***************************************************************************)
(* What a GenerationLocker promises its caller (generation_locker.go): a   *)
(* workspace has at most one generate or regenerate call in progress.  The *)
(* module GenerateDocument, with the in-process GenerationGate, is related *)
(* to this one by a refinement mapping; the Redis GenerationLock promises  *)
(* it as far as its leases reach (WorkspaceLease).                         *)
(*                                                                         *)
(* Nothing here says how long a call lasts or how it ends: a call may      *)
(* finish, be cancelled, or be lost together with its server.              *)
(***************************************************************************)
CONSTANTS Workspaces,   \* the workspaces a call can name
          Requests      \* the generate and regenerate calls

VARIABLE holders        \* workspace -> the calls in progress on it

MutexTypeOK == holders \in [Workspaces -> SUBSET Requests]

Init == holders = [w \in Workspaces |-> {}]

\* TryBegin answers true only for a workspace nobody is working on.
Begin(r, w) ==
  /\ holders[w] = {}
  /\ holders' = [holders EXCEPT ![w] = {r}]

\* Calls come to an end, several at once when the process holding them dies.
Leave ==
  /\ holders' \in [Workspaces -> SUBSET Requests]
  /\ \A w \in Workspaces : holders'[w] \subseteq holders[w]

Next == Leave \/ \E r \in Requests, w \in Workspaces : Begin(r, w)

Spec == Init /\ [][Next]_holders

(***************************************************************************)
(* No two calls are ever in progress on one workspace.                     *)
(***************************************************************************)
AtMostOne == \A w \in Workspaces : \A r, s \in holders[w] : r = s
=============================================================================
