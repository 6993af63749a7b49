CONSTANTS
  Focus = {"accounts"}
  User = {"u", "v"}
  NoUser = "nobody"
  Person = {"u", "v"}
  InviteCall = {1, 2, 3, 4, 5}
  CallerOf <- MCCallerOf
  CodeFrom <- MCCodeFrom
  NoCode = 0
  MaxAccepts = 2
  MaxInviteFaults = 1
  Login = {1, 2, 3}
  LoginKind <- NewLoginKind
  SubjectOf <- NewSubjectOf
  HomeOf <- NewHomeOf
  Imported = {}
  NodeOf <- NewNodeOf
  Shards = 1
  NodeIds = 2
  SequenceIds = 2
  ShardIds = 1
  MaxMs = 2
  Player = {"p", "q"}
  ProjEvent = {1, 2, 3, 4, 5}
  EventOf <- MCEventOf
  TaskKey = {"steal_1", "help_water_3"}
  Target <- MCTarget
  Reward <- MCReward
  Member = {"m1", "m2"}
  NoEvent = 0
  MaxTries = 0
  Handled <- MCHandled
  MaxProjFaults = 1
  Farmsvr = {"a", "b"}
  Score <- MCScore
  NoOwner = "none"
  MaxStarts = 2
  MaxLag = 1
  MaxRouteFaults = 1
  UserTable = {"accounts", "mails"}
  TableOrder <- MCTableOrder
  SourceRow = {1, 2, 3}
  FriendPair <- MCPair
  SeededRow = {1, 2}
  SeededPair <- MCPair
  BatchRows = 1
  MaxBackfills = 2
  MaxSourceWrites = 1
SPECIFICATION Spec
INVARIANT IdsUnique
CHECK_DEADLOCK FALSE
