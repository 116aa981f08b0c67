------------------------ MODULE OqsKeyRefs_refinement ------------------------
(***************************************************************************)
(* The counted references of OqsKeyRefs implement SharedOwnership: every   *)
(* step of a thread is a step of the abstract owners or changes nothing    *)
(* there.  The assertions of oqsx_key_up_ref and oqsx_key_free follow.     *)
(***************************************************************************)
EXTENDS OqsKeyRefs_proofs

(* The refinement mapping.                                                 *)
Owners == [k \in Keys |-> OwnersOf(k)]

(* What a key's owners become when one slot changes, or two.               *)
LEMMA OwnersOneSlot ==
  ASSUME NEW s \in Slots, \A r \in Slots \ {s} : RefOf(r)' = RefOf(r), NEW k \in Keys
  PROVE  OwnersOf(k)' = IF RefOf(s)' = k THEN OwnersOf(k) \cup {s} ELSE OwnersOf(k) \ {s}
BY DEF OwnersOf

(* The owners of the keys after a step that passes one reference on.       *)
LEMMA OwnersMove ==
  ASSUME NEW s \in Slots, NEW r \in Slots, r # s,
         \A q \in Slots \ {r, s} : RefOf(q)' = RefOf(q),
         RefOf(r) \notin Keys, RefOf(s)' \notin Keys, RefOf(r)' = RefOf(s), NEW k \in Keys
  PROVE  OwnersOf(k)' = IF RefOf(s) = k THEN (OwnersOf(k) \ {s}) \cup {r} ELSE OwnersOf(k)
BY DEF OwnersOf

(* The owners after a step that touches no reference.                      *)
LEMMA OwnersSame ==
  ASSUME \A r \in Slots : RefOf(r)' = RefOf(r)
  PROVE  Owners' = Owners
BY DEF Owners, OwnersOf

(* Acquiring, releasing and moving, seen from the slots.                   *)
LEMMA Acquires ==
  ASSUME NEW s \in Slots, \A r \in Slots \ {s} : RefOf(r)' = RefOf(r), RefOf(s) = NoKey,
         NEW k \in Keys, RefOf(s)' = k, OwnersOf(k) # {}, UNCHANGED <<mem, orphans>>
  PROVE  Shared!Acquire(k, s)
<1>1. s \notin OwnersOf(k)
  BY SlotKinds DEF OwnersOf
<1>2. \A j \in Keys : OwnersOf(j)' = IF j = k THEN OwnersOf(j) \cup {s} ELSE OwnersOf(j)
  BY SlotKinds, OwnersOneSlot DEF OwnersOf
<1> QED BY <1>1, <1>2 DEF Shared!Acquire

(* A slot gives its reference up, or the key is lost with it.              *)
LEMMA Releases ==
  ASSUME NEW s \in Slots, \A r \in Slots \ {s} : RefOf(r)' = RefOf(r), RefOf(s)' = NoKey,
         NEW k \in Keys, RefOf(s) = k, UNCHANGED mem
  PROVE  /\ orphans' = orphans => Shared!Release(k, s)
         /\ orphans' = orphans \cup {k} => Shared!Lose(k, s)
<1>1. s \in OwnersOf(k)
  BY DEF OwnersOf
<1>2. \A j \in Keys : OwnersOf(j)' = IF j = k THEN OwnersOf(j) \ {s} ELSE OwnersOf(j)
  BY SlotKinds, OwnersOneSlot DEF OwnersOf
<1> QED BY <1>1, <1>2 DEF Shared!Release, Shared!Lose

(* One slot passes its reference on to another.                            *)
LEMMA Moves ==
  ASSUME NEW s \in Slots, NEW r \in Slots, r # s,
         \A q \in Slots \ {r, s} : RefOf(q)' = RefOf(q),
         RefOf(r) = NoKey, RefOf(s)' = NoKey, RefOf(r)' = RefOf(s),
         NEW k \in Keys, RefOf(s) = k, UNCHANGED <<mem, orphans>>
  PROVE  Shared!Move(k, s, r)
<1>1. s \in OwnersOf(k) /\ r \notin OwnersOf(k)
  BY SlotKinds DEF OwnersOf
<1>2. \A j \in Keys : OwnersOf(j)' = IF j = k THEN (OwnersOf(j) \ {s}) \cup {r} ELSE OwnersOf(j)
  BY SlotKinds, OwnersMove
<1> QED BY <1>1, <1>2 DEF Shared!Move

(* No slot changes.                                                        *)
LEMMA Stutters ==
  ASSUME \A r \in Slots : RefOf(r)' = RefOf(r), UNCHANGED <<mem, orphans>>
  PROVE  UNCHANGED Shared!ovars
BY OwnersSame DEF Owners, Shared!ovars

(* These are steps of the abstract specification.                          *)
LEMMA AcquireIsStep ==
  ASSUME NEW k \in Keys, NEW s \in Slots,
         Shared!Acquire(k, s) \/ Shared!Release(k, s) \/ Shared!Lose(k, s) \/ Shared!Create(k, s)
  PROVE  Shared!ONext
BY DEF Shared!ONext

(* And so is a move.                                                       *)
LEMMA MoveIsStep ==
  ASSUME NEW k \in Keys, NEW s \in Slots, NEW r \in Slots, Shared!Move(k, s, r)
  PROVE  Shared!ONext
BY DEF Shared!ONext

(* A counter at zero is a key without owners that nobody lost.             *)
LEMMA ZeroMeansEmpty ==
  ASSUME RefCountExact, NEW k \in Keys, refs[k] = 0
  PROVE  OwnersOf(k) = {} /\ k \notin orphans
<1>1. Cardinality(OwnersOf(k)) = 0 /\ k \notin orphans /\ IsFiniteSet(OwnersOf(k))
  BY ZeroMeansNoOwner, OwnersFinite
<1> QED BY <1>1, FS_EmptySet

(* A slot that refers to a key is one of its owners.                       *)
LEMMA HeldIsOwned ==
  ASSUME NEW s \in Slots, RefOf(s) \in Keys
  PROVE  OwnersOf(RefOf(s)) # {}
BY DEF OwnersOf

-----------------------------------------------------------------------------
(* Initial states map to initial states.                                   *)
LEMMA InitMaps == Init => Shared!OInit
<1> SUFFICES ASSUME Init PROVE Shared!OInit
  OBVIOUS
<1>1. \A k \in Keys : OwnersOf(k) = {}
  BY SlotKinds DEF Init, OwnersOf, RefOf, CtxRef, ThreadRef, GivenBack, Slots, Idle, Frame
<1> QED BY <1>1 DEF Shared!OInit, Init

(* Every step maps to a step, or to none.                                  *)
LEMMA NextMaps ==
  ASSUME IInv, IInv', Next
  PROVE  Shared!ONext \/ UNCHANGED Shared!ovars
<1> USE SlotKinds DEF IInv, Counting
<1>1. ASSUME NEW t \in Threads, NEW k \in Keys, KeyNew(t, k) PROVE Shared!ONext
  <2>1. mem[k] = "unused" /\ refs[k] = 0 /\ mem' = [mem EXCEPT ![k] = "live"] /\ orphans' = orphans
    BY <1>1 DEF KeyNew, OnlyLiveCounted
  <2>2. OwnersOf(k) = {}
    BY <2>1, ZeroMeansEmpty
  <2>3. \A j \in Keys : OwnersOf(j)' = IF j = k THEN {t} ELSE OwnersOf(j)
    BY <1>1, <2>2, KeyNewSlot, OwnersOneSlot DEF OwnersOf
  <2>4. Shared!Create(k, t)
    BY <2>1, <2>3 DEF Shared!Create
  <2> QED BY <2>4, AcquireIsStep
<1>2. ASSUME NEW t \in Threads, NEW h \in Handles, KeyToHandle(t, h) PROVE Shared!ONext
  <2>1. RefOf(t) \in Keys /\ UNCHANGED <<mem, orphans>>
    BY <1>2 DEF KeyToHandle, RefOf, ThreadRef, Shape, FramesOK, FrameOK
  <2>2. PICK k \in Keys : RefOf(t) = k
    BY <2>1
  <2>3. Shared!Move(k, t, h)
    BY <1>2, <2>1, <2>2, KeyToHandleSlots, Moves
  <2> QED BY <2>3, MoveIsStep
<1>3. ASSUME NEW t \in Threads, KeyGenFailed(t) PROVE Shared!ONext
  <2>1. call[t].new \in Keys /\ mem' = mem /\ orphans' = orphans \cup {call[t].new}
    BY <1>3 DEF KeyGenFailed, Shape, FramesOK, FrameOK
  <2>2. Shared!Lose(call[t].new, t)
    BY <1>3, <2>1, KeyGenFailedSlot, Releases
  <2> QED BY <2>1, <2>2, AcquireIsStep
<1>4. ASSUME NEW t \in Threads, NEW h \in Handles, EvpFree(t, h)
      PROVE  Shared!ONext \/ UNCHANGED Shared!ovars
  <2>1. UNCHANGED <<mem, orphans>>
    BY <1>4 DEF EvpFree
  <2>2. CASE \A r \in Slots : RefOf(r)' = RefOf(r)
    BY <2>1, <2>2, Stutters
  <2>3. CASE /\ RefOf(t) = NoKey /\ RefOf(h)' = NoKey /\ RefOf(t)' = RefOf(h)
             /\ \A r \in Slots \ {t, h} : RefOf(r)' = RefOf(r)
    <3>1. RefOf(h) \in Keys
      BY <1>4, HandleCarriesKey DEF EvpFree, RefOf, Slots
    <3>2. PICK k \in Keys : RefOf(h) = k
      BY <3>1
    <3>3. Shared!Move(k, h, t)
      BY <2>1, <2>3, <3>2, Moves
    <3> QED BY <3>3, MoveIsStep
  <2> QED BY <1>4, <2>2, <2>3, EvpFreeSlots
<1>5. ASSUME NEW t \in Threads, NEW c \in Ctxs, NEW h \in Handles, InitCtx(t, c, h)
      PROVE  Shared!ONext
  <2>1. OwnersOf(pkey[h]) # {} /\ pkey[h] \in Keys /\ UNCHANGED <<mem, orphans>>
    BY <1>5, InitCtxSlot, HeldIsOwned DEF InitCtx
  <2>2. Shared!Acquire(pkey[h], t)
    BY <1>5, <2>1, InitCtxSlot, Acquires
  <2> QED BY <2>1, <2>2, AcquireIsStep
<1>6. ASSUME NEW t \in Threads, NEW s \in SigCtxs, NEW d \in SigCtxs, DupCtx(t, s, d)
      PROVE  Shared!ONext \/ UNCHANGED Shared!ovars
  <2>1. UNCHANGED <<mem, orphans>>
    BY <1>6 DEF DupCtx
  <2>2. CASE ctx[s] = NoKey
    <3>1. \A r \in Slots : RefOf(r)' = RefOf(r)
      BY <1>6, <2>2, DupCtxSlot
    <3> QED BY <2>1, <3>1, Stutters
  <2>3. CASE ctx[s] # NoKey
    <3>1. OwnersOf(ctx[s]) # {} /\ ctx[s] \in Keys /\ d \in Slots
      BY <1>6, <2>3, DupCtxSlot, HeldIsOwned
    <3>2. Shared!Acquire(ctx[s], d)
      BY <1>6, <2>1, <3>1, DupCtxSlot, Acquires
    <3> QED BY <3>1, <3>2, AcquireIsStep
  <2> QED BY <2>2, <2>3
<1>7. ASSUME NEW t \in Threads, Dec(t) PROVE Shared!ONext
  <2>1. PICK s : s = Giver(t)
    OBVIOUS
  <2>2. s \in Slots /\ RefOf(s) \in Keys /\ RefOf(s)' = NoKey
        /\ \A r \in Slots \ {s} : RefOf(r)' = RefOf(r)
    BY <1>7, <2>1, DecSlot
  <2>3. UNCHANGED <<mem, orphans>>
    BY <1>7 DEF Dec
  <2>4. PICK k \in Keys : RefOf(s) = k
    BY <2>2
  <2>5. Shared!Release(k, s)
    BY <2>2, <2>3, <2>4, Releases
  <2> QED BY <2>2, <2>5, AcquireIsStep
<1>8. ASSUME NEW t \in Threads, Destroy(t) PROVE Shared!ONext
  <2> DEFINE k == call[t].old
  <2>1. k \in Keys /\ refs[k] = 0 /\ mem[k] = "live"
    BY <1>8 DEF Destroy, DestroyedOnce, Shape, FramesOK, FrameOK
  <2>2. OwnersOf(k) = {} /\ k \notin orphans
    BY <2>1, ZeroMeansEmpty
  <2>3. Owners' = Owners
    BY <1>8, QuietSlots, OwnersSame DEF Quiet
  <2>4. mem' = [mem EXCEPT ![k] = "dead"] /\ orphans' = orphans
    BY <1>8 DEF Destroy
  <2>5. Shared!Reclaim(k)
    BY <2>1, <2>2, <2>3, <2>4 DEF Shared!Reclaim, Owners
  <2> QED BY <2>1, <2>5 DEF Shared!ONext
<1>9. ASSUME NEW t \in Threads, Assign(t) PROVE Shared!ONext
  <2>1. PICK c : c = call[t].ctx
    OBVIOUS
  <2>2. RefOf(t) \in Keys /\ UNCHANGED <<mem, orphans>>
    BY <1>9 DEF Assign, RefOf, ThreadRef, Shape, FramesOK, FrameOK
  <2>3. PICK k \in Keys : RefOf(t) = k
    BY <2>2
  <2>4. c \in Slots /\ Shared!Move(k, t, c)
    BY <1>9, <2>1, <2>2, <2>3, AssignSlots, Moves
  <2> QED BY <2>4, MoveIsStep
<1>10. ASSUME NEW t \in Threads, Quiet(t), ~Destroy(t) PROVE UNCHANGED Shared!ovars
  <2>1. UNCHANGED <<mem, orphans>>
    BY <1>10 DEF Quiet, KeyDiscard, CtxFree, DupDone, DupFailed, EvpShare, NewCtx, FreeCtx
  <2> QED BY <1>10, <2>1, QuietSlots, Stutters
<1> QED BY <1>1, <1>2, <1>3, <1>4, <1>5, <1>6, <1>7, <1>8, <1>9, <1>10
        DEF Next, Continue, Quiet

(* Shared ownership is implemented: a key is created once, gets a further  *)
(* owner only while it has one, and is reclaimed after its last owner let  *)
(* go, whatever the interleaving of the three-step init functions, dupctx  *)
(* and the two-step oqsx_key_free.                                         *)
THEOREM ImplementsSharedOwnership == Spec => SharedSafe
<1>1. IInv /\ IInv' /\ [Next]_vars => [Shared!ONext]_(Shared!ovars)
  <2> SUFFICES ASSUME IInv, IInv', [Next]_vars PROVE Shared!ONext \/ UNCHANGED Shared!ovars
    OBVIOUS
  <2>1. CASE Next
    BY <2>1, NextMaps
  <2>2. CASE UNCHANGED vars
    <3>1. \A r \in Slots : RefOf(r)' = RefOf(r)
      BY <2>2 DEF vars, RefOf, CtxRef, ThreadRef, GivenBack
    <3> QED BY <2>2, <3>1, Stutters DEF vars
  <2> QED BY <2>1, <2>2
<1> QED BY <1>1, InitMaps, Inductive, PTL DEF Spec, SharedSafe, Shared!OSafeSpec

-----------------------------------------------------------------------------
(* The assertion of oqsx_key_up_ref holds: a counter at zero stays there.  *)
THEOREM ZeroIsFinal == Spec => NeverRevived
<1>1. ASSUME IInv, IInv', [Next]_vars, NEW k \in Keys, refs[k] = 0, mem[k] = "live"
      PROVE  refs'[k] = 0
  <2> USE DEF IInv, Counting
  <2>1. \A s \in Slots : RefOf(s) # k
    BY <1>1, HeldIsCounted DEF Shape
  <2>2. ASSUME NEW t \in Threads, NEW j \in Keys, KeyNew(t, j) PROVE refs'[k] = 0
    BY <1>1, <2>2 DEF KeyNew
  <2>3. ASSUME NEW t \in Threads, NEW c \in Ctxs, NEW h \in Handles, InitCtx(t, c, h)
        PROVE  refs'[k] = 0
    <3>1. RefOf(h) = pkey[h] /\ h \in Slots
      BY <1>1, <2>3, InitCtxSlot, SlotKinds
    <3> QED BY <1>1, <2>1, <2>3, <3>1 DEF InitCtx, UpRef, Shape, TypeOK
  <2>4. ASSUME NEW t \in Threads, NEW s \in SigCtxs, NEW d \in SigCtxs, DupCtx(t, s, d)
        PROVE  refs'[k] = 0
    <3>1. RefOf(s) = ctx[s] /\ s \in Slots
      BY <1>1, <2>4, DupCtxSlot
    <3> QED BY <1>1, <2>1, <2>4, <3>1 DEF DupCtx, UpRef, Shape, TypeOK
  <2>5. ASSUME NEW t \in Threads, Dec(t) PROVE refs'[k] = 0
    <3>1. PICK s : s = Giver(t)
      OBVIOUS
    <3>2. RefOf(s) = call[t].old /\ s \in Slots
      BY <1>1, <2>5, <3>1, DecSlot
    <3> QED BY <1>1, <2>1, <2>5, <3>2 DEF Dec, Shape, TypeOK
  <2>6. \/ refs' = refs
        \/ \E t \in Threads : \/ \E j \in Keys : KeyNew(t, j)
                              \/ \E c \in Ctxs, h \in Handles : InitCtx(t, c, h)
                              \/ \E s, d \in SigCtxs : DupCtx(t, s, d)
                              \/ Dec(t)
    BY <1>1 DEF Next, Continue, vars, KeyToHandle, KeyDiscard, KeyGenFailed, EvpShare, EvpFree,
                NewCtx, FreeCtx, Destroy, Assign, CtxFree, DupDone, DupFailed
  <2> QED BY <1>1, <2>2, <2>3, <2>4, <2>5, <2>6
<1>2. IInv /\ IInv' /\ [Next]_vars =>
        [\A k \in Keys : refs[k] = 0 /\ mem[k] = "live" => refs'[k] = 0]_vars
  BY <1>1
<1> QED BY <1>2, Inductive, PTL DEF Spec, NeverRevived
=============================================================================
