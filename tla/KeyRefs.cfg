SPECIFICATION FairSpec
CONSTANTS
  Threads = {t1, t2}
  Keys = {k1, k2}
  SigCtxs = {s1, s2}
  KemCtxs = {e1}
  Handles = {h1}
  NoKey = NoKey
  NoCtx = NoCtx
INVARIANTS IInv RefCountExact NoDanglingKey DestroyedOnce
PROPERTIES NeverRevived SharedSafe SharedLive
