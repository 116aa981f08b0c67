SPECIFICATION Spec
CONSTANTS
  pa = pa
  pb = pb
  sa = sa
  sb = sb
  sc = sc
  x25519 = x25519
  mlkem = mlkem
  Profiles = {pa, pb}
  Deep = {pb}
  Scenarios = {sa, sb, sc}
  ChainOf <- MCChainOf
  GroupOf <- MCGroupOf
  Null = Null
  Rows = 2
  Ends = {"interrupt", "power"}
  MaxRuns = 3
  MaxEnds = 2
CHECK_DEADLOCK FALSE
INVARIANTS UsableChain NoServerLeft
