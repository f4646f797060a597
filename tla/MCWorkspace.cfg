SPECIFICATION WorkspaceSpec
SYMMETRY Symmetry
CHECK_DEADLOCK FALSE
CONSTANTS
  a1 = a1
  a2 = a2
  b1 = b1
  b2 = b2
  c1 = c1
  c2 = c2
  col1 = col1
  col2 = col2
  col3 = col3
  col4 = col4
  worker = worker
  client = client
  File = {a1, a2}
  NoFile = nofile
  StorageKey = {b1, b2}
  FileName = {"n"}
  Folder = {"contracts"}
  Visibility = {TRUE}
  Handler = {c1, c2}
  MaxPurges = 1
  Command = {1, 2, 3}
  MinRequests = 5
  MetricCap = 7
  Column = {col1, col2, col3, col4}
  DefaultColumns <- ColumnsAtFirst
  Place = {0, 1, 2, 3}
  MaxPosition = 3
  Editor = {b1, b2}
  Request = {a1, a2}
  Task = {t1}
  Client = {b1, b2}
  Admin = {b1, b2}
  Tick = {c1, c2}
  NoTick = notick
  PublishBatch = 2
  Verdict = {"rejected", "approved"}
  MaxBegun = 2
  Message = {a1, a2}
  Account = {worker, client}
  RoleOf <- RoleOfAccount
  Joined = {worker}
  Channel = {"internal", "external"}
  MaxClock = 3
  Staff = {a1, a2}
  Guest = {client}
  Founder = {a1, a2}
  Writer = {b1, b2}
  TaskPatch <- TaskPatches
  MaxChanges = 3
  Process = {a1, a2}
  NoProcess = noprocess
  Person = {u}
  Lookup = {b1, b2}
  MaxVersion = 3
INVARIANTS
  WorkspaceTypeOK
  TreeMatchesStore
  ApprovedFileExists
  VersionFree
  CachedUrlAlive
  OneOpenMinor
  ToldWhatHolds
  NotifiedOnce
  SeenMeansRead
  InternalStaysInside
  RightPeopleTold
  OwnChangeCached
PROPERTIES
  SignedKept
  CooldownHolds
  OpensOnOwnEvidence
  OneColumnMoves
