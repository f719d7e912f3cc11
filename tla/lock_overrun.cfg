\* TTLCovers fails, as with the shipped defaults (3 attempts of 60 s against a
\* key of 90 s): 1 + 2 * 2 + 1 ticks of work against a key of 3 ticks.
SPECIFICATION FairSpec
CONSTANTS
  i1 = i1
  i2 = i2
  w1 = w1
  w2 = w2
  r1 = r1
  r2 = r2
  r3 = r3
  r4 = r4
  NoToken = NoToken
  Instances <- MCInstances
  Workspaces <- MCWorkspaces
  Requests <- MCRequests
  InstanceOf <- MCInstanceOf
  WorkspaceOf <- MCWorkspaceOf
  CallTimeout = 2
  Slack = 1
  Attempts = 2
  Overhead = 1
INVARIANT CountsEveryCall
PROPERTY ReleaseStaysOnInstance
\* Every request is answered in the end and no new one arrives.
CHECK_DEADLOCK FALSE
