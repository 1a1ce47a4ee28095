SPECIFICATION FairSpec
CONSTANTS
  VCPUs = {v0, v1}
  Askers = {k0, k1}
INVARIANTS TypeOK TargetWhole AskedLeaves
PROPERTY AskedReturns
CHECK_DEADLOCK FALSE
