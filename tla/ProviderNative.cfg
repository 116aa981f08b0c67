SPECIFICATION Spec
CONSTANTS
  sig = sig
  own = own
  mldsa = mldsa
  hybrid = hybrid
  kem = kem
  Instances = {a, b}
  Threads = {t1}
  Ops = {sig}
  Algs = {own, mldsa, hybrid, kem}
  Listed <- MCListed
  OidList <- MCOidList
  Native = {mldsa}
  Blocks = {b1, b2}
  Null = Null
  Junk = Junk
  End = End
SYMMETRY Symmetry
INVARIANT NativeStaysDisabled
