CONSTANTS
  Run = {r1}
  HybridRun = {}
  EdgeOnlyRun = {}
  GatedRun = {}
  EdgeStep = {}
  Worker = {w1}
  NoRun = NoRun
  Env = {"deny"}
  MaxFaults = 1
  MaxCancels = 0
  MaxApprovals = 0
SPECIFICATION Spec
PROPERTIES DenialIsPersisted
