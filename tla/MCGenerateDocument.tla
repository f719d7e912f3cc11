------------------------- MODULE MCGenerateDocument -------------------------
(***************************************************************************)
(* Two workspaces.  In the first, a plain generate call competes with a    *)
(* regenerate of its own document; in the second, a structured call with a *)
(* fallback provider runs beside them.  One user approves, or two.         *)
(***************************************************************************)
EXTENDS GenerateDocument

CONSTANTS w1, w2, r1, r2, r3, a1, a2

MCWorkspaces == {w1, w2}
MCRequests == {r1, r2, r3}
MCWorkspaceOf == [r \in MCRequests |-> IF r = r3 THEN w2 ELSE w1]
MCSourceOf == [r \in MCRequests |-> IF r = r2 THEN r1 ELSE NoDocument]
MCStructured == {r3}
MCWithFallback == {r3}
MCApprovers == {a1, a2}
MCOneApprover == {a1}
=============================================================================
