SPECIFICATION Spec
CONSTANTS
  Flows = {f1, f2}
  Apps = {"a", "b"}
  Registered = "a"
  Reqs = {1, 2}
  Drafts <- MCDrafts
  MaxTries = 4
SYMMETRY FlowsAlike
INVARIANTS OneHolder FileCurrent PairFits
CHECK_DEADLOCK FALSE
