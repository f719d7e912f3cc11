\* A database that never fails, two users approve.
SPECIFICATION FairSpec
CONSTANTS
  w1 = w1
  w2 = w2
  r1 = r1
  r2 = r2
  r3 = r3
  a1 = a1
  a2 = a2
  NoDocument = NoDocument
  NoUser = NoUser
  Workspaces <- MCWorkspaces
  Requests <- MCRequests
  WorkspaceOf <- MCWorkspaceOf
  SourceOf <- MCSourceOf
  Structured <- MCStructured
  WithFallback <- MCWithFallback
  Approvers <- MCApprovers
  Attempts = 2
  Repairs = 1
  DatabaseFails = FALSE
PROPERTY ApproverIsKept
\* Every call is answered in the end and no new one arrives.
CHECK_DEADLOCK FALSE
