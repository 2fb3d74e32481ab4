CONSTANTS
  Run = {r1}
  HybridRun = {}
  EdgeOnlyRun = {}
  GatedRun = {}
  EdgeStep = {}
  Worker = {w1, w2}
  NoRun = NoRun
  Env = {"crash", "shutdown", "stall", "cancelled"}
  MaxFaults = 2
  MaxCancels = 1
  MaxApprovals = 0
SPECIFICATION FairSpec
PROPERTIES QueuedRunEnds CancellingEnds
