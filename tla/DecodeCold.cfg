CONSTANTS
 Layers = 2
 Heads = {h1, h2}
 Split = 2
 PpsMin = 1
 Page = 2
 MaxLen = 5
 Mcap = 1
 Confs <- ColdConfs
 Prompt = 3
 MaxSteps = 2
 None = None
 Depth <- MCDepth
 Groups <- MCGroups
 Team <- MCTeam
 MaxPages = 5
SPECIFICATION MCSpec
INVARIANTS QOnce
CHECK_DEADLOCK FALSE
