-------------------------- MODULE MCGenerationLock --------------------------
(***************************************************************************)
(* Two servers and two workspaces.  Two requests for the first workspace   *)
(* land on the first server and one on the second, so that calls can       *)
(* overlap on one server and across two; a fourth request keeps the first  *)
(* server busy with the other workspace.                                   *)
(***************************************************************************)
EXTENDS GenerationLock

CONSTANTS i1, i2, w1, w2, r1, r2, r3, r4

MCInstances == {i1, i2}
MCWorkspaces == {w1, w2}
MCRequests == {r1, r2, r3, r4}
MCInstanceOf == [r \in MCRequests |-> IF r = r3 THEN i2 ELSE i1]
MCWorkspaceOf == [r \in MCRequests |-> IF r = r4 THEN w2 ELSE w1]
=============================================================================
