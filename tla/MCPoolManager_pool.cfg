CONSTANTS
  c1 = c1
  c2 = c2
  bad = bad
  Cfg <- MCCfg
  ValidCfg <- MCValidCfg
  Configs <- MCConfigs
  MAX_POOL_NUMBER = 2
  MAX_POOL_SEQREJECT = 0
  Slots = {s1, s2}
  MaxObjects = 2
  MaxOps = 1
  PromptStart = TRUE
SPECIFICATION FairSpec
INVARIANTS TypeOK ListLayout OnlyCurrentUnstopped RunningHasGoroutine OneGoroutinePerPool
PROPERTIES StoppedPoolEnds MiningResumes
CHECK_DEADLOCK FALSE
