----------------------------- MODULE MCGateway -----------------------------
(***************************************************************************)
(* One user in two organizations sends a request from each to an endpoint  *)
(* that is defined, retired or brought back, and whose policy two   *)
(* administrators change; the user is given a role in one of them.         *)
(***************************************************************************)
EXTENDS Gateway

CONSTANTS u1, o1, o2, q1, q2, s1, e1, define1, status1,
          policy1, policy2

Read  == <<"order", "read">>
Write == <<"order", "write">>
All   == <<"order", "*">>

MCMembers == {<<u1, o1>>, <<u1, o2>>}
MCPermissions == {Read, Write, All}
MCMemberOf == [q \in Checks |-> IF q = q1 THEN <<u1, o1>> ELSE <<u1, o2>>]
MCAssigneeOf == [s \in Assignments |-> <<u1, o1>>]
MCRoleOf == [s \in Assignments |-> {Read, All}]
MCEndpointOf == [q \in Checks |-> e1]
MCOpOf == [a \in Admins |->
  CASE a = define1 -> "define"
    [] a = status1 -> "status"
    [] OTHER -> "policy"]
MCTargetOf == [a \in Admins |-> e1]
MCPolicyOf == [a \in Admins |->
  IF a = policy1 THEN [permission |-> Write, limit |-> 2]
                 ELSE [permission |-> NoPermission, limit |-> 1]]
=============================================================================
