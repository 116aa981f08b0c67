SPECIFICATION Spec
CONSTANTS
  Slots = {k1, k2}
  Algs = {"mldsa44", "p256_mldsa44"}
  Names = {"mldsa44", "p256_mldsa44", "rsa3072_mldsa44"}
  Mats = {"mldsa44", "p256_mldsa44", "rsa3072_mldsa44"}
  Made <- MadeByName
  Pairs = {p, q}
  Encs = {e1}
  MaxDocs = 1
  Null = Null
SYMMETRY Symmetry
INVARIANTS TypeOK IntentHonoured OidNamesMaterial SelectionHonoured PrivateAsGenerated MatchSharesAHalf RoundTrip
