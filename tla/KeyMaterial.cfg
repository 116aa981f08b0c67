SPECIFICATION Spec
CONSTANTS
  Slots = {p, q}
  Ids = {i1, i2}
  Kinds = {"hybsig", "hybkem", "hybkemrev"}
  CP = 1
  CS = 2
  QP = 2
  QS = 1
  Null = Null
  MaxArts = 2
  MaxCts = 1
SYMMETRY Symmetry
INVARIANTS TypeOK ComponentsInPlace ClassicalMatchesBuffers SecretsAgree HalfKeyNotCopied
