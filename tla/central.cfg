CONSTANTS
  Run = {r1}
  HybridRun = {}
  EdgeOnlyRun = {}
  GatedRun = {r1}
  EdgeStep = {}
  Worker = {w1, w2}
  NoRun = NoRun
  Env = {"crash", "shutdown", "stall", "deny", "ask", "interrupted", "cancelled"}
  MaxFaults = 1
  MaxCancels = 2
  MaxApprovals = 2
SPECIFICATION Spec
SYMMETRY Symmetry
INVARIANTS TypeOK SingleOwner OneLiveAttempt NoRunIsLost
PROPERTIES TerminalIsFinal CancellingNeverResumes StaleAttemptNeverMovesRun ImplementsLifecycle
