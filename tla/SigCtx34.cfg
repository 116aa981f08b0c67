SPECIFICATION Spec
CONSTANTS
  c1 = c1
  c2 = c2
  Ctxs = {c1, c2}
  New34 = {c1, c2}
  Chunks = {a}
  Mds = {sha}
  Strs = {x}
  Null = Null
  MaxData = 2
  MaxSigs = 1
SYMMETRY Alike
INVARIANTS SignatureCoversFed VerifyAgrees OnlyPrivateKeysSign
