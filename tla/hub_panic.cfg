SPECIFICATION Spec
\* Every connection may be gone and every event published.
CHECK_DEADLOCK FALSE
CONSTANTS
  c1 = c1
  c2 = c2
  c3 = c3
  app1 = app1
  app2 = app2
  org1 = org1
  org2 = org2
  events = events
  topic = topic
  NoApp = NoApp
  Conns = {c1, c2}
  Apps = {app1, app2}
  Orgs = {org1, org2}
  Channels = {events, topic}
  Default = events
  AppOf <- MCAppOf
  OrgOf <- MCOrgOf
  MaxConnections = 1
  Buffer = 1
  QueueSize = 1
  Events = 2
  EventApp <- MCEventApp
  EventOrg <- MCEventOrg
  EventChannel <- MCEventChannel
  Lookups <- MCLookups
  MayClose = FALSE
INVARIANT BroadcastSends
