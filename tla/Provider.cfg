SPECIFICATION Spec
CONSTANTS
  sig = sig
  own = own
  mldsa = mldsa
  hybrid = hybrid
  kem = kem
  Instances = {a, b}
  Threads = {t1, t2}
  Ops = {sig}
  Algs = {own, mldsa, hybrid, kem}
  Listed <- MCListed
  OidList <- MCOidList
  Native = {mldsa}
  Blocks = {b1, b2, b3}
  Null = Null
  Junk = Junk
  End = End
SYMMETRY Symmetry
INVARIANTS TypeOK FillInBounds SettledTableExact OfferedIsFetchable OfferedHasNid ChildFreedOnce
