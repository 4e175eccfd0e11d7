SPECIFICATION Spec
CONSTANTS
  People = {ann, bob}
  AllowList = {}
  MaxIds = 3
  MaxFlows = 3
  MaxBlips = 1
  MaxAdminOps = 2
  MaxBoots = 1
  MaxVisits = 1
  Owners = {u1, u2}
  Endpoints = {1, 2, 3}
  PushLevels = {"important"}
  MaxSubs = 1
  MaxMs = 1
  MaxCalls = 3
  MaxSends = 1
  NoSub = NoSub
  Renames = {r1, r2}
  Titles = {t1, t2}
  DefaultName = d
  NoName = none
  MaxTitlers = 2
  MaxStarts = 1
  Reqs = {1, 2, 3, 4, 5, 6, 7}
  Uploads = {1, 2}
  Writes = {3}
  Deletes = {4}
  FileRenames = {5}
  Rmdirs = {6}
  Mkdirs = {7}
  Candidates = 2
  MaxServed = 4
  OldFile = 9
  SeedTitles = {a}
  SeedTitles2 = {b}
  OwnTitles = {}
  Targets = {d1, d2}
  SessionsEach = 2
  MaxPresets = 1
  MaxBumps = 1
  MaxReboots = 2
  RingCap = 2
  WriterCap = 1
  Verdicts = {up}
  NoCost = NoCost
  MaxSpent = 2
  MaxRuns = 3
  MaxProcesses = 2
  LogSids = {s1, s2}
  RingSize = 2
  LogCap = 2
  Batch = 2
  MaxEntries = 3
  MaxLogDays = 1
  EventOwners = {u, adm}
  EventAdmin = adm
  LegacyOwner = nobody
  Retention = 1
  MaxEvents = 2
  MaxEventDays = 3
INVARIANT AccessIsGranted
PROPERTY
  ApprovalReaches
  ChoicesStand
  RecordsStand
CHECK_DEADLOCK FALSE
