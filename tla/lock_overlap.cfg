\* The shipped shape again: the key expires under a running call.
SPECIFICATION FairSpec
CONSTANTS
  i1 = i1
  i2 = i2
  w1 = w1
  w2 = w2
  r1 = r1
  r2 = r2
  r3 = r3
  r4 = r4
  NoToken = NoToken
  Instances <- MCInstances
  Workspaces <- MCWorkspaces
  Requests <- MCRequests
  InstanceOf <- MCInstanceOf
  WorkspaceOf <- MCWorkspaceOf
  CallTimeout = 2
  Slack = 1
  Attempts = 2
  Overhead = 1
INVARIANT NoOverlap
\* Every request is answered in the end and no new one arrives.
CHECK_DEADLOCK FALSE
