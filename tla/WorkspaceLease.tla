--------------------------- MODULE WorkspaceLease ---------------------------
(***************************************************************************)
(* What the Redis keys of the generation lock promise the servers that     *)
(* share them (generation_lock.go): the lease of a workspace is granted    *)
(* only while there is none, is never passed from one call to another, and *)
(* ends only when its call is no longer inside, be it by the call's        *)
(* release or by time.  The module GenerationLock is related to this one   *)
(* by a refinement mapping.                                                *)
(*                                                                         *)
(* Unlike a mutex, a lease outlasts a call that is lost with its server,   *)
(* or whose release is lost, and it may be granted to a call that never    *)
(* learns of it: then nobody is inside and still nobody gets in.           *)
(***************************************************************************)
CONSTANTS Workspaces,
          Requests,      \* the generate and regenerate calls
          WorkspaceOf,   \* the workspace a call names
          NoToken        \* nobody has the lease

VARIABLES lease,         \* workspace -> the call it was granted to
          inside         \* the calls that know of their lease and use it

leaseVars == <<lease, inside>>

Init ==
  /\ lease = [w \in Workspaces |-> NoToken]
  /\ inside = {}

\* Granted; the answer reaches the call or is lost.
Grant(r) ==
  /\ lease[WorkspaceOf[r]] = NoToken
  /\ lease' = [lease EXCEPT ![WorkspaceOf[r]] = r]
  /\ inside' \in {inside, inside \union {r}}

\* Calls come to an end, several at once when the process holding them dies.
Leave ==
  /\ inside' \in SUBSET inside
  /\ UNCHANGED lease

\* Released, or run out, several at once.
Free ==
  /\ lease' \in [Workspaces -> Requests \union {NoToken}]
  /\ \A w \in Workspaces :
       lease'[w] # lease[w] => lease'[w] = NoToken /\ lease[w] \notin inside
  /\ UNCHANGED inside

Next == Leave \/ Free \/ \E r \in Requests : Grant(r)

Spec == Init /\ [][Next]_leaseVars
=============================================================================
