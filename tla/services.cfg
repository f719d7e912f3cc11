\* One component moves in each behaviour; its requests are answered in the end.
SPECIFICATION ServicesSpec
CHECK_DEADLOCK FALSE
CONSTANTS
  t1 = t1
  t2 = t2
  c1 = c1
  c2 = c2
  c3 = c3
  slug1 = slug1
  slug2 = slug2
  name1 = name1
  name2 = name2
  Calls = {c1, c2, c3}
  Inputs <- MCInputs
  Tenants = {t1, t2}
  Slugs = {slug1, slug2}
  WorkspaceNames = {name1, name2}
  SeedOrg = SeedOrg
  Founder = t1
  Unset = Unset
  NoRow = NoRow
  NoInput = NoInput
  v1 = v1
  v2 = v2
  v3 = v3
  mail1 = mail1
  mail2 = mail2
  org1 = org1
  org2 = org2
  room1 = room1
  Visits = {v1, v2, v3}
  VisitInputs <- MCVisitInputs
  Emails = {mail1, mail2}
  SeedUser = SeedUser
  SeedEmail = mail1
  Orgs = {org1, org2}
  Membership <- MCMembership
  Rooms = {room1}
  RoomOrg <- MCRoomOrg
  EmptyScope = EmptyScope
  NoOrg = NoOrg
  NoRoom = NoRoom
  NoKey = NoKey
  NoUser = NoUser
  NoVisit = NoVisit
  Environments <- MCEnvironments
  Generations = {g1}
  Writers = {w1, w2}
  Lookups = {w2}
  WaitBudget = 1
  StopBudget = 1
  MaxAge = 2
  BusSize = 1
  Publications = {p1}
  Junk = Junk
  LastHandler = 2
  Attempts = 2
  MaxWritten = 3
  MaxCrashes = 1
  tenant1 = tenant1
  key1 = key1
  key2 = key2
  j1 = j1
  j2 = j2
  j3 = j3
  Jobs = {j1, j2, j3}
  JobInputs <- MCJobInputs
  Tenancies = {tenant1}
  APIKeys = {key1, key2}
  Limits = {"slow", "fast"}
  Global <- MCGlobal
  Production = TRUE
  AllowMockInProduction = FALSE
  MaxRetries = 1
  Secrets = {1, 2}
  Blank = Blank
  NoSettings = NoSettings
  NoJob = NoJob
  NoProvider = NoProvider
  Starts = {1, 2, 3}
  Releases = {"old", "new"}
  ReleaseOf <- MCReleaseOf
  RoleList <- MCRoleList
  QuestionList <- MCQuestionList
  MaxRows = 2
  NoRelease = NoRelease
  q1 = q1
  q2 = q2
  Edits = {ed1, ed2}
  EditInputs <- MCEditInputs
  Questions = {q1, q2}
  Required = {q1, q2}
  Shown = {q1, q2}
  ShowIf <- MCShowIf
  Values <- MCValues
  FirstProfiles <- MCFirstProfiles
  UnknownQuestion = UnknownQuestion
  NoRule = NoRule
  NoAnswer = NoAnswer
  NoRequest = NoRequest
  NoOne = NoOne
  Members = {m1}
  NoRoute = NoRoute
  f1 = f1
  f2 = f2
  claim1 = claim1
  claim2 = claim2
  console1 = console1
  Forwards = {f1, f2}
  ForwardInputs <- MCForwardInputs
  Claimants = {claim1, claim2}
  Consoles = {console1}
  NoClaim = NoClaim
  NoId = NoId
  NoBody = NoBody
  NoRecord = NoRecord
  NoForward = NoForward
  spec1 = spec1
  spec2 = spec2
  spec3 = spec3
  folder1 = folder1
  folder2 = folder2
  exp1 = exp1
  exp2 = exp2
  Exports = {exp1}
  ExportOptions <- MCExportOptions
  Specs = {spec1, spec2, spec3}
  FolderOf <- MCFolderOf
  MadeFrom <- MCMadeFrom
  Legacy = {}
  Rejected = {}
  Marked <- MCMarked
  Materials <- MCMaterials
  TrainSide = {folder1}
  FirstFiles <- MCFirstFiles
  NoFile = NoFile
  Garbled = Garbled
  NoOptions = NoOptions
  Unread = Unread
INVARIANT ServicesTypeOK
INVARIANT OrgsAreAdministered
INVARIANT KeysOpenWhatTheyWereMadeFor
INVARIANT NobodyIsCutShort
INVARIANT PublishedEventsAreHeard
INVARIANT OnlyFailuresArePassedOver
INVARIANT CallsFollowTheSettings
INVARIANT ReadyMeansReady
INVARIANT DatasetsAreSound
PROPERTY OnlyOverlapLosesUpdates
PROPERTY KeysChangeOnRequestOnly
PROPERTY SeedingAloneRepairs
PROPERTY BulksAreWhole
PROPERTY ShutdownEnds
PROPERTY WrittenEventsAreHandled
