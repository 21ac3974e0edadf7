CONSTANTS
 Pages <- MCPages
 L = 3
 Lcap = 2
 Streams = 2
 Picks <- MCPicks
 HotSlots <- MCHotSlots
 Reqs = 2
 MaxSel = 2
 Margin = 1
 Mcap = 1
 Writes <- MCWrites
 Steps <- MCSteps
SPECIFICATION MCSpec
INVARIANTS MapsInverse FitsResident ClaimExclusive Settled
PROPERTIES Reads EvictsOldest StepEnds
CHECK_DEADLOCK FALSE
