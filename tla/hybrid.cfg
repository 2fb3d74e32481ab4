CONSTANTS
  Run = {r1}
  HybridRun = {r1}
  EdgeOnlyRun = {}
  GatedRun = {}
  EdgeStep = {s1, s2}
  Worker = {w1, w2}
  NoRun = NoRun
  Env = {"crash", "shutdown", "stall", "deny", "network", "ask", "cancelled", "edge_shutdown"}
  MaxFaults = 1
  MaxCancels = 1
  MaxApprovals = 0
SPECIFICATION Spec
SYMMETRY Symmetry
INVARIANTS JobsOnlyAfterCentral JobsOfTheAttempt CompletedMeansReported CancelReachesJobs
PROPERTIES ImplementsLifecycle
