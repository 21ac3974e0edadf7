CONSTANTS
 Layers = 2
 Heads = {h1, h2}
 Split = 2
 PpsMin = 1
 Page = 2
 MaxLen = 5
 Mcap = 1
 Confs <- MCConfs
 Prompt = 3
 MaxSteps = 2
 None = None
 Depth <- MCDepth
 Groups <- MCGroups
 Team <- MCTeam
 MaxPages = 5
SYMMETRY Heads2
SPECIFICATION MCSpec
INVARIANTS OutExact QOnce Deferred MailExact RingExact
CHECK_DEADLOCK FALSE
