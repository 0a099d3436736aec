\* Three requests on one artifact with a full history.
CONSTANTS
  Clients = {k1, k2, k3}
  Mixes <- MCMixes
  Lists <- MCLists
  Denied <- MCDenied
  Reports <- MCReports
  Verdicts = {"verified", "unchecked"}
  Stages <- MCStages
  Teams = {"platform"}
  InForce <- MCInForce
  Known <- MCKnown
  Past <- MCPast
  MaxSnapshots = 4
  Start = 4
  Horizon = 8
  Nothing = nothing
SYMMETRY Interchangeable
SPECIFICATION Spec
INVARIANTS GateIsHonest AloneAsMemStore NewsAreNew RetentionBounded
PROPERTIES StoreSpec
CHECK_DEADLOCK FALSE
