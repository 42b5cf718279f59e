CONSTANTS
  w1 = w1
  w2 = w2
  w3 = w3
  NoWriter = NoWriter
  GitUri = "GIT_URI"
  VaultHost = "VAULT_HOST"
  Writers = {w1, w2, w3}
  Registries = {w1, w2}
  Parameters = {"GIT_URI", "VAULT_HOST", "GIT_HOSTKEY"}
  ParamsOf <- Params
  ProfileOf <- Switches
  Second = 1
  Latency = 2
  Interval = 3
  Timeout = 11
  PackageTime = 6
  Instances = {i1, i2}
  Rounds = 3
  Creators = {c1}
  Updaters = {u1}
  Sizes = {1, 2, 3}
  MaxMoves = 1
  Binds = {b1, b2, b3}
  Ring = 3
  Length = 2
SPECIFICATION PartsSpec
INVARIANTS
  PartsTypeOK
  SettingsBacked
  Coherent
  PackagePollEnds
  TimeoutHonest
  BuildPollEnds
  CrashSeen
  WatchLasts
  StoredMatches
  EveryoneTold
  CommonWordsExplained
CHECK_DEADLOCK FALSE
