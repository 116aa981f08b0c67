SPECIFICATION Spec
CONSTANTS
  Slots = {p, q}
  Ids = {i1, i2}
  Kinds = {"sig", "kem", "hybsig", "hybkem", "hybkemrev"}
  CP = 1
  CS = 2
  QP = 2
  QS = 1
  Null = Null
  MaxArts = 2
  MaxCts = 1
INVARIANT GeneratedKeyIsWhole
