SPECIFICATION FairSpec
\* Every request and every call has been answered.
CHECK_DEADLOCK FALSE
CONSTANTS
  u1 = u1
  o1 = o1
  o2 = o2
  q1 = q1
  q2 = q2
  s1 = s1
  e1 = e1
  define1 = define1
  status1 = status1
  policy1 = policy1
  policy2 = policy2
  NoPermission = NoPermission
  NoPolicy = NoPolicy
  NoRow = NoRow
  Members <- MCMembers
  Permissions <- MCPermissions
  Checks = {q1, q2}
  MemberOf <- MCMemberOf
  Assignments = {}
  AssigneeOf <- MCAssigneeOf
  RoleOf <- MCRoleOf
  Endpoints = {e1}
  EndpointOf <- MCEndpointOf
  Admins = {policy2}
  OpOf <- MCOpOf
  TargetOf <- MCTargetOf
  PolicyOf <- MCPolicyOf
PROPERTY CountersExpire
