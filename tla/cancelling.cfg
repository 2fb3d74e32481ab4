CONSTANTS
  Run = {r1}
  HybridRun = {r1}
  EdgeOnlyRun = {}
  GatedRun = {}
  EdgeStep = {s1}
  Worker = {w1}
  NoRun = NoRun
  Env = {}
  MaxFaults = 0
  MaxCancels = 1
  MaxApprovals = 0
SPECIFICATION FairSpec
PROPERTIES CancellingEnds
