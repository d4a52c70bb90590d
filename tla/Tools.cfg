SPECIFICATION ToolSpec
CHECK_DEADLOCK FALSE
CONSTANTS
  Id = {a, b, c}
  NoId = none
  BufferCap = 2
  SeenCap = 2
  MaxAccepted = 5
  Content = {a, b}
  Large = {b}
  Fetcher = {f, g}
  PathBound = 3
  NoContent = none
  Kernels <- PoolKernels
  Limits = {1, 2}
  MsgId = {m1, m2}
  NoMsg = none
  ConfirmTime = 3
  StepTime = 2
  DrainBudget = 5
  AttemptBound = 1
  Caller = {c1, c2}
  Topic = {t1}
  SessionBound = 2
  Task = {t}
  Every = 1
  Clock = {k1}
  DigestRun = {d1, d2}
  Reader = {r1, r2}
  TimeBound = 2
  LineBound = 2
  Reviewer = {o, a}
  Outsider = x
  PostBound = 2
  PostCount = 3
  SEEN_CAP = 2
  DeathCount = 1
  FailCount = 1
  TextBound = 4
  HopBound = 3
  Script = {p, q}
  HoldTime = 1
  RepostEvery = 1
  Network = {"prod", "testnet"}
  DefaultNetwork = "prod"
  StartCount = 3
  LaunchCount = 2
  PeerBound = 1
  SparkCap = 1
  Key = {1, 2, 3}
  SizeBound = 3
  CtxCap = 3
  EvidenceCap = 8
  ArrayNote = 3
  ObjectNote = 2
  ProviderCount = 3
  ReadBudget = 4
  ReadShort = 3
  ListenBound = 2
  Node = {r, a, b}
  Root = r
  NoNode = none
  Horizon = 5
  Uncertainty = 1
  Slo = 1
  LiveWindow = 1
  Deadline = 2
  LastMoment = 4
  LifeBound = 2
  LastTick = 3
  SweepEvery = 1
  Silence = 0
  Near = 2
  LastSeq = 2
  Restarts = 1
  RowBound = 2
  Sidecar = {s1, s2}
  SidecarLives = 2
  Severities <- TroubleRules
  TTL <- ShownFor
  StaleAfter = 0
  RelayCount = 2
  SayBound = 2
  LedgerHost = {o, a, b}
  Driver = o
  Uncovered = {b}
  EdgeBound = 3
  PollCount = 2
INVARIANTS
  BufferIsSuffix FilesAreWhatTheySay JoinsOnlyAsAsked ReadsAreHonest
  ListSaysWhatIsHosted WhatWaitsIsTold  ReportsAreTrue ViewsAgree LosesTheLeast
  GoesWhereItWasTold VerdictsFollow DetectorsMeanRestarts
