SPECIFICATION Spec
CONSTANTS
  c1 = c1
  c2 = c2
  Ctxs = {c1, c2}
  New34 = {}
  Chunks = {a}
  Mds = {sha, sha3}
  Strs = {}
  Null = Null
  MaxData = 1
  MaxSigs = 1
SYMMETRY Alike
PROPERTY MdFixedAfterUpdate
