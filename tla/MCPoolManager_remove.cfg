CONSTANTS
  c1 = c1
  c2 = c2
  bad = bad
  Cfg <- MCCfg
  ValidCfg <- MCValidCfg
  Configs <- MCPair
  MAX_POOL_NUMBER = 2
  MAX_POOL_SEQREJECT = 0
  Slots = {s1, s2}
  MaxObjects = 2
  MaxOps = 2
  PromptStart = TRUE
SPECIFICATION Spec
PROPERTY ActiveNotRemoved
CHECK_DEADLOCK FALSE
