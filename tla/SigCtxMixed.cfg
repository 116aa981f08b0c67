SPECIFICATION Spec
CONSTANTS
  c1 = c1
  c2 = c2
  Ctxs = {c1, c2}
  New34 = {c2}
  Chunks = {a, b}
  Mds = {sha, sha3}
  Strs = {}
  Null = Null
  MaxData = 2
  MaxSigs = 1
SYMMETRY Texts
INVARIANTS TypeOK SignatureCoversFed VerifyAgrees LateOnlyAfterQuery
