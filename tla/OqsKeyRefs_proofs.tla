-------------------------- MODULE OqsKeyRefs_proofs --------------------------
(***************************************************************************)
(* The reference counter of an OQSX_KEY is exact and no key is used after  *)
(* its release, for every number of threads, keys, contexts and handles.   *)
(***************************************************************************)
EXTENDS OqsKeyRefs, FiniteSetTheorems, TLAPS

(* The slots are pairwise different kinds of things.                       *)
LEMMA SlotKinds ==
  /\ \A c \in Ctxs : c \in Slots /\ c \notin Threads /\ c \notin Handles
  /\ \A t \in Threads : t \in Slots /\ t \notin Ctxs /\ t \notin Handles
  /\ \A h \in Handles : h \in Slots /\ h \notin Ctxs /\ h \notin Threads
  /\ NoKey \notin Keys /\ NoCtx \notin Ctxs /\ NoCtx \notin Keys /\ NoCtx # NoKey
BY SlotsAssumption DEF Slots

(* Owners of a key are slots, finitely many.                               *)
LEMMA OwnersFinite ==
  \A k \in Keys : IsFiniteSet(OwnersOf(k)) /\ Cardinality(OwnersOf(k)) \in Nat
<1> SUFFICES ASSUME NEW k \in Keys
             PROVE IsFiniteSet(OwnersOf(k)) /\ Cardinality(OwnersOf(k)) \in Nat
  OBVIOUS
<1>1. OwnersOf(k) \in SUBSET Slots
  BY DEF OwnersOf
<1>2. IsFiniteSet(OwnersOf(k))
  BY <1>1, FS_Subset, SlotsAssumption
<1> QED BY <1>2, FS_CardinalityType

(* A step that changes what at most one slot holds changes each count by   *)
(* what that slot took or gave back.                                       *)
LEMMA OneSlotChanges ==
  ASSUME NEW s \in Slots, \A r \in Slots \ {s} : RefOf(r)' = RefOf(r),
         NEW k \in Keys
  PROVE  Cardinality(OwnersOf(k))' = Cardinality(OwnersOf(k))
           + (IF RefOf(s)' = k THEN 1 ELSE 0) - (IF RefOf(s) = k THEN 1 ELSE 0)
<1>1. OwnersOf(k)' = IF RefOf(s)' = k THEN OwnersOf(k) \cup {s} ELSE OwnersOf(k) \ {s}
  BY DEF OwnersOf
<1>2. s \in OwnersOf(k) <=> RefOf(s) = k
  BY DEF OwnersOf
<1>3. IsFiniteSet(OwnersOf(k)) /\ Cardinality(OwnersOf(k)) \in Nat
  BY OwnersFinite
<1>4. Cardinality(OwnersOf(k) \cup {s}) =
        IF s \in OwnersOf(k) THEN Cardinality(OwnersOf(k)) ELSE Cardinality(OwnersOf(k)) + 1
  BY <1>3, FS_AddElement
<1>5. Cardinality(OwnersOf(k) \ {s}) =
        IF s \in OwnersOf(k) THEN Cardinality(OwnersOf(k)) - 1 ELSE Cardinality(OwnersOf(k))
  BY <1>3, FS_RemoveElement
<1>6. CASE RefOf(s)' = k
  BY <1>1, <1>2, <1>3, <1>4, <1>6
<1>7. CASE RefOf(s)' # k
  BY <1>1, <1>2, <1>3, <1>5, <1>7
<1> QED BY <1>6, <1>7

(* A step that hands a reference from one slot to another changes no count. *)
LEMMA ReferenceMoves ==
  ASSUME NEW s \in Slots, NEW r \in Slots, r # s,
         \A q \in Slots \ {r, s} : RefOf(q)' = RefOf(q),
         RefOf(r) \notin Keys, RefOf(s)' \notin Keys, RefOf(r)' = RefOf(s),
         NEW k \in Keys
  PROVE  Cardinality(OwnersOf(k))' = Cardinality(OwnersOf(k))
<1>1. CASE RefOf(s) = k
  <2>1. OwnersOf(k)' = (OwnersOf(k) \ {s}) \cup {r}
    BY <1>1 DEF OwnersOf
  <2>2. s \in OwnersOf(k) /\ r \notin OwnersOf(k) \ {s}
    BY <1>1 DEF OwnersOf
  <2>3. IsFiniteSet(OwnersOf(k)) /\ Cardinality(OwnersOf(k)) \in Nat
    BY OwnersFinite
  <2>4. /\ IsFiniteSet(OwnersOf(k) \ {s})
        /\ Cardinality(OwnersOf(k) \ {s}) = Cardinality(OwnersOf(k)) - 1
    BY <2>2, <2>3, FS_RemoveElement
  <2>5. Cardinality((OwnersOf(k) \ {s}) \cup {r}) = Cardinality(OwnersOf(k) \ {s}) + 1
    BY <2>2, <2>4, FS_AddElement
  <2> QED BY <2>1, <2>3, <2>4, <2>5
<1>2. CASE RefOf(s) # k
  <2>1. OwnersOf(k)' = OwnersOf(k)
    BY <1>2 DEF OwnersOf
  <2> QED BY <2>1
<1> QED BY <1>1, <1>2

(* A step that changes no slot changes no count.                           *)
LEMMA NoSlotChanges ==
  ASSUME \A r \in Slots : RefOf(r)' = RefOf(r), NEW k \in Keys
  PROVE  Cardinality(OwnersOf(k))' = Cardinality(OwnersOf(k))
<1>1. OwnersOf(k)' = OwnersOf(k)
  BY DEF OwnersOf
<1> QED BY <1>1

(* A slot that holds a key keeps that key's counter above zero.            *)
LEMMA HeldIsCounted ==
  ASSUME TypeOK, RefCountExact, NEW s \in Slots, RefOf(s) \in Keys
  PROVE  refs[RefOf(s)] >= 1
<1> DEFINE k == RefOf(s)
<1>1. s \in OwnersOf(k)
  BY DEF OwnersOf
<1>2. Cardinality(OwnersOf(k)) # 0
  BY <1>1, OwnersFinite, FS_EmptySet
<1> QED BY <1>2, OwnersFinite DEF RefCountExact

-----------------------------------------------------------------------------
(* The shape of the state: types, frames and handles.                      *)
LEMMA ShapeInit == Init => Shape
BY SlotKinds, SMTT(60) DEF Init, Shape, TypeOK, FramesOK, FrameOK, HandlesOK, Idle, Frame, Call, IsIdle

LEMMA ShapeNext == Shape /\ [Next]_vars => Shape'
<1> SUFFICES ASSUME Shape, [Next]_vars PROVE Shape'
  OBVIOUS
<1> USE SlotKinds DEF Shape, TypeOK, FramesOK, FrameOK, HandlesOK
<1>1. ASSUME NEW t \in Threads, NEW k \in Keys, KeyNew(t, k) PROVE Shape'
  <2>1. TypeOK'
    BY <1>1 DEF KeyNew, Idle, Frame, IsIdle, Call
  <2>2. FramesOK'
    BY <1>1 DEF KeyNew, Idle, Frame, IsIdle, Call
  <2>3. HandlesOK'
    BY <1>1 DEF KeyNew, Idle, Frame, IsIdle, Call
  <2> QED BY <2>1, <2>2, <2>3
<1>2. ASSUME NEW t \in Threads, NEW h \in Handles, KeyToHandle(t, h) PROVE Shape'
  <2>1. TypeOK'
    BY <1>2 DEF KeyToHandle, Idle, Frame, IsIdle, Call
  <2>2. FramesOK'
    BY <1>2 DEF KeyToHandle, Idle, Frame, IsIdle, Call
  <2>3. HandlesOK'
    BY <1>2, SMTT(60) DEF KeyToHandle, Idle, Frame, IsIdle, Call
  <2> QED BY <2>1, <2>2, <2>3
<1>3. ASSUME NEW t \in Threads, KeyDiscard(t) PROVE Shape'
  <2>1. TypeOK'
    BY <1>3 DEF KeyDiscard, Idle, Frame, IsIdle, Call, FreeFrame
  <2>2. FramesOK'
    BY <1>3 DEF KeyDiscard, Idle, Frame, IsIdle, Call, FreeFrame
  <2>3. HandlesOK'
    BY <1>3 DEF KeyDiscard, Idle, Frame, IsIdle, Call, FreeFrame
  <2> QED BY <2>1, <2>2, <2>3
<1>4. ASSUME NEW t \in Threads, KeyGenFailed(t) PROVE Shape'
  <2>1. TypeOK'
    BY <1>4 DEF KeyGenFailed, Idle, Frame, IsIdle, Call
  <2>2. FramesOK'
    BY <1>4 DEF KeyGenFailed, Idle, Frame, IsIdle, Call
  <2>3. HandlesOK'
    BY <1>4 DEF KeyGenFailed, Idle, Frame, IsIdle, Call
  <2> QED BY <2>1, <2>2, <2>3
<1>5. ASSUME NEW t \in Threads, NEW u \in Threads, NEW h \in Handles, EvpShare(t, u, h) PROVE Shape'
  <2>1. TypeOK'
    BY <1>5 DEF EvpShare, Idle, Frame, IsIdle, Call
  <2>2. FramesOK'
    BY <1>5 DEF EvpShare, Idle, Frame, IsIdle, Call
  <2>3. HandlesOK'
    BY <1>5 DEF EvpShare, Idle, Frame, IsIdle, Call
  <2> QED BY <2>1, <2>2, <2>3
<1>6. ASSUME NEW t \in Threads, NEW h \in Handles, EvpFree(t, h) PROVE Shape'
  <2>1. TypeOK'
    <3>1. pkey[h] \in Keys /\ FreeFrame(pkey[h], NoCtx, NoCtx, NoKey, "idle") \in Call
      BY <1>6 DEF EvpFree, Frame, Call, FreeFrame
    <3>2. call' \in [Threads -> Call] /\ pkey' \in [Handles -> Keys \cup {NoKey}]
      BY <1>6, <3>1 DEF EvpFree
    <3>3. users' \in [Handles -> SUBSET Threads]
      BY <1>6 DEF EvpFree
    <3> QED BY <1>6, <3>2, <3>3 DEF EvpFree
  <2>2. FramesOK'
    BY <1>6 DEF EvpFree, Idle, Frame, IsIdle, Call, FreeFrame
  <2>3. HandlesOK'
    BY <1>6 DEF EvpFree, Idle, Frame, IsIdle, Call, FreeFrame
  <2> QED BY <2>1, <2>2, <2>3
<1>7. ASSUME NEW t \in Threads, NEW c \in Ctxs, NewCtx(t, c) PROVE Shape'
  <2>1. TypeOK'
    BY <1>7 DEF NewCtx, Idle, Frame, IsIdle, Call, Busy
  <2>2. FramesOK'
    BY <1>7 DEF NewCtx, Idle, Frame, IsIdle, Call, Busy
  <2>3. HandlesOK'
    BY <1>7 DEF NewCtx, Idle, Frame, IsIdle, Call, Busy
  <2> QED BY <2>1, <2>2, <2>3
<1>8. ASSUME NEW t \in Threads, NEW c \in Ctxs, NEW h \in Handles, InitCtx(t, c, h) PROVE Shape'
  <2>1. TypeOK'
    BY <1>8 DEF InitCtx, Idle, Frame, IsIdle, Call, FreeFrame, Busy, UpRef
  <2>2. FramesOK'
    BY <1>8 DEF InitCtx, Idle, Frame, IsIdle, Call, FreeFrame, Busy, UpRef
  <2>3. HandlesOK'
    BY <1>8 DEF InitCtx, Idle, Frame, IsIdle, Call, FreeFrame, Busy, UpRef
  <2> QED BY <2>1, <2>2, <2>3
<1>9. ASSUME NEW t \in Threads, NEW c \in Ctxs, FreeCtx(t, c) PROVE Shape'
  <2>1. TypeOK'
    BY <1>9 DEF FreeCtx, Idle, Frame, IsIdle, Call, FreeFrame, Busy
  <2>2. FramesOK'
    BY <1>9 DEF FreeCtx, Idle, Frame, IsIdle, Call, FreeFrame, Busy
  <2>3. HandlesOK'
    BY <1>9 DEF FreeCtx, Idle, Frame, IsIdle, Call, FreeFrame, Busy
  <2> QED BY <2>1, <2>2, <2>3
<1>10. ASSUME NEW t \in Threads, NEW s \in SigCtxs, NEW d \in SigCtxs, DupCtx(t, s, d) PROVE Shape'
  <2>1. TypeOK'
    BY <1>10 DEF DupCtx, Idle, Frame, IsIdle, Call, Busy, UpRef, Ctxs
  <2>2. FramesOK'
    BY <1>10 DEF DupCtx, Idle, Frame, IsIdle, Call, Busy, UpRef, Ctxs
  <2>3. HandlesOK'
    BY <1>10 DEF DupCtx, Idle, Frame, IsIdle, Call, Busy, UpRef, Ctxs
  <2> QED BY <2>1, <2>2, <2>3
<1>11. ASSUME NEW t \in Threads, Dec(t) PROVE Shape'
  <2>1. TypeOK'
    BY <1>11 DEF Dec, Idle, Frame, IsIdle, Call, ReturnFrame
  <2>2. FramesOK'
    BY <1>11 DEF Dec, Idle, Frame, IsIdle, Call, ReturnFrame
  <2>3. HandlesOK'
    BY <1>11 DEF Dec, Idle, Frame, IsIdle, Call, ReturnFrame
  <2> QED BY <2>1, <2>2, <2>3
<1>12. ASSUME NEW t \in Threads, Destroy(t) PROVE Shape'
  <2>1. TypeOK'
    BY <1>12 DEF Destroy, Idle, Frame, IsIdle, Call, ReturnFrame
  <2>2. FramesOK'
    BY <1>12 DEF Destroy, Idle, Frame, IsIdle, Call, ReturnFrame
  <2>3. HandlesOK'
    BY <1>12 DEF Destroy, Idle, Frame, IsIdle, Call, ReturnFrame
  <2> QED BY <2>1, <2>2, <2>3
<1>13. ASSUME NEW t \in Threads, Assign(t) PROVE Shape'
  <2>1. TypeOK'
    BY <1>13 DEF Assign, Idle, Frame, IsIdle, Call
  <2>2. FramesOK'
    BY <1>13 DEF Assign, Idle, Frame, IsIdle, Call
  <2>3. HandlesOK'
    BY <1>13 DEF Assign, Idle, Frame, IsIdle, Call
  <2> QED BY <2>1, <2>2, <2>3
<1>14. ASSUME NEW t \in Threads, CtxFree(t) PROVE Shape'
  <2>1. TypeOK'
    BY <1>14 DEF CtxFree, Idle, Frame, IsIdle, Call
  <2>2. FramesOK'
    BY <1>14 DEF CtxFree, Idle, Frame, IsIdle, Call
  <2>3. HandlesOK'
    BY <1>14 DEF CtxFree, Idle, Frame, IsIdle, Call
  <2> QED BY <2>1, <2>2, <2>3
<1>15. ASSUME NEW t \in Threads, DupDone(t) PROVE Shape'
  <2>1. TypeOK'
    BY <1>15 DEF DupDone, Idle, Frame, IsIdle, Call
  <2>2. FramesOK'
    BY <1>15 DEF DupDone, Idle, Frame, IsIdle, Call
  <2>3. HandlesOK'
    BY <1>15 DEF DupDone, Idle, Frame, IsIdle, Call
  <2> QED BY <2>1, <2>2, <2>3
<1>16. ASSUME NEW t \in Threads, DupFailed(t) PROVE Shape'
  <2>1. TypeOK'
    BY <1>16 DEF DupFailed, Idle, Frame, IsIdle, Call, FreeFrame
  <2>2. FramesOK'
    BY <1>16 DEF DupFailed, Idle, Frame, IsIdle, Call, FreeFrame
  <2>3. HandlesOK'
    BY <1>16 DEF DupFailed, Idle, Frame, IsIdle, Call, FreeFrame
  <2> QED BY <2>1, <2>2, <2>3
<1>17. CASE UNCHANGED vars
  BY <1>17 DEF vars
<1> QED BY <1>1, <1>2, <1>3, <1>4, <1>5, <1>6, <1>7, <1>8, <1>9, <1>10, <1>11, <1>12, <1>13, <1>14, <1>15, <1>16, <1>17 DEF Next, Continue

(* The state keeps its types: mem, refs, the handles, the contexts and the *)
(* frames of the calls in progress.                                        *)
THEOREM TypeCorrect == Spec => []TypeOK
<1>1. Shape => TypeOK
  BY DEF Shape
<1> QED BY <1>1, ShapeInit, ShapeNext, PTL DEF Spec

-----------------------------------------------------------------------------
(* What each action does to the references the slots hold.                 *)
Quiet(t) == \/ KeyDiscard(t) \/ Destroy(t) \/ CtxFree(t) \/ DupDone(t) \/ DupFailed(t)
            \/ \E u \in Threads, h \in Handles : EvpShare(t, u, h)
            \/ \E c \in Ctxs : NewCtx(t, c) \/ FreeCtx(t, c)

LEMMA QuietSlots ==
  ASSUME Shape, Shape', NEW t \in Threads, Quiet(t)
  PROVE  \A r \in Slots : RefOf(r)' = RefOf(r)
<1> USE SlotKinds DEF Shape, TypeOK, FramesOK, FrameOK, Idle, Frame, IsIdle, Busy,
                      RefOf, CtxRef, ThreadRef, GivenBack, Slots, Call
<1>1. CASE KeyDiscard(t)
  BY <1>1 DEF KeyDiscard, FreeFrame
<1>2. CASE Destroy(t)
  BY <1>2 DEF Destroy, ReturnFrame
<1>3. CASE CtxFree(t)
  BY <1>3 DEF CtxFree
<1>4. CASE DupDone(t)
  BY <1>4 DEF DupDone
<1>5. CASE DupFailed(t)
  BY <1>5 DEF DupFailed, FreeFrame
<1>6. ASSUME NEW u \in Threads, NEW h \in Handles, EvpShare(t, u, h)
      PROVE  \A r \in Slots : RefOf(r)' = RefOf(r)
  BY <1>6 DEF EvpShare
<1>7. ASSUME NEW c \in Ctxs, NewCtx(t, c)
      PROVE  \A r \in Slots : RefOf(r)' = RefOf(r)
  BY <1>7 DEF NewCtx
<1>8. ASSUME NEW c \in Ctxs, FreeCtx(t, c)
      PROVE  \A r \in Slots : RefOf(r)' = RefOf(r)
  BY <1>8 DEF FreeCtx, FreeFrame
<1> QED BY <1>1, <1>2, <1>3, <1>4, <1>5, <1>6, <1>7, <1>8 DEF Quiet

(* The new key's first reference is its constructor's.                     *)
LEMMA KeyNewSlot ==
  ASSUME Shape, Shape', NEW t \in Threads, NEW k \in Keys, KeyNew(t, k)
  PROVE  /\ RefOf(t) = NoKey /\ RefOf(t)' = k
         /\ \A r \in Slots \ {t} : RefOf(r)' = RefOf(r)
BY SlotKinds DEF Shape, TypeOK, FramesOK, FrameOK, Idle, Frame, IsIdle, RefOf, CtxRef,
                 ThreadRef, GivenBack, Slots, Call, KeyNew

(* oqsx_genkey's error return drops the reference of the constructor.      *)
LEMMA KeyGenFailedSlot ==
  ASSUME Shape, Shape', NEW t \in Threads, KeyGenFailed(t)
  PROVE  /\ RefOf(t) = call[t].new /\ RefOf(t)' = NoKey
         /\ \A r \in Slots \ {t} : RefOf(r)' = RefOf(r)
BY SlotKinds DEF Shape, TypeOK, FramesOK, FrameOK, Idle, Frame, IsIdle, RefOf, CtxRef,
                 ThreadRef, GivenBack, Slots, Call, KeyGenFailed

(* The constructor's reference moves to the EVP_PKEY.                      *)
LEMMA KeyToHandleSlots ==
  ASSUME Shape, Shape', NEW t \in Threads, NEW h \in Handles, KeyToHandle(t, h)
  PROVE  /\ RefOf(h) = NoKey /\ RefOf(t)' = NoKey /\ RefOf(h)' = RefOf(t)
         /\ \A r \in Slots \ {h, t} : RefOf(r)' = RefOf(r)
BY SlotKinds DEF Shape, TypeOK, FramesOK, FrameOK, Idle, Frame, IsIdle, RefOf, CtxRef,
                 ThreadRef, GivenBack, Slots, Call, KeyToHandle

(* An EVP_PKEY somebody uses carries a key.                                *)
LEMMA HandleCarriesKey ==
  ASSUME Shape, NEW h \in Handles, users[h] # {}
  PROVE  pkey[h] \in Keys
BY DEF Shape, TypeOK, HandlesOK

(* The last EVP_PKEY_free moves the handle's reference to the thread that  *)
(* is about to give it back; an earlier one moves nothing.                 *)
LEMMA EvpFreeSlots ==
  ASSUME Shape, Shape', NEW t \in Threads, NEW h \in Handles, EvpFree(t, h)
  PROVE  \/ /\ RefOf(t) = NoKey /\ RefOf(h)' = NoKey /\ RefOf(t)' = RefOf(h)
            /\ \A r \in Slots \ {t, h} : RefOf(r)' = RefOf(r)
         \/ \A r \in Slots : RefOf(r)' = RefOf(r)
<1> USE SlotKinds DEF Shape, TypeOK, FramesOK, FrameOK, Idle, Frame, IsIdle, RefOf, CtxRef,
                      ThreadRef, GivenBack, Slots, Call, EvpFree
<1>1. CASE users[h] = {t}
  <2>1. pkey[h] \in Keys
    BY <1>1, HandleCarriesKey
  <2>2. call' = [call EXCEPT ![t] = Frame("dec", "idle", NoCtx, NoCtx, NoKey, pkey[h])]
    BY <1>1, <2>1 DEF FreeFrame
  <2>3. pkey' = [pkey EXCEPT ![h] = NoKey] /\ ctx' = ctx
    BY <1>1
  <2>4. RefOf(h) = pkey[h] /\ RefOf(h)' = NoKey /\ RefOf(t) = NoKey /\ RefOf(t)' = pkey[h]
    BY <2>1, <2>2, <2>3
  <2>5. \A c \in Ctxs : RefOf(c)' = RefOf(c)
    BY <2>2, <2>3
  <2>6. \A u \in Threads \ {t} : RefOf(u)' = RefOf(u)
    BY <2>2
  <2>7. \A g \in Handles \ {h} : RefOf(g)' = RefOf(g)
    BY <2>3
  <2> QED BY <2>4, <2>5, <2>6, <2>7
<1>2. CASE users[h] # {t}
  BY <1>2
<1> QED BY <1>1, <1>2

(* The init functions take one reference for the thread; the context's own *)
(* is untouched until it is given back.                                    *)
LEMMA InitCtxSlot ==
  ASSUME Shape, Shape', NEW t \in Threads, NEW c \in Ctxs, NEW h \in Handles,
         InitCtx(t, c, h)
  PROVE  /\ RefOf(t) = NoKey /\ RefOf(t)' = pkey[h] /\ RefOf(h) = pkey[h]
         /\ pkey[h] \in Keys
         /\ \A r \in Slots \ {t} : RefOf(r)' = RefOf(r)
<1> USE SlotKinds DEF Shape, TypeOK
<1>1. pkey[h] \in Keys
  BY HandleCarriesKey DEF InitCtx
<1> QED BY <1>1 DEF FramesOK, FrameOK, Idle, Frame, IsIdle, RefOf, CtxRef, Busy,
                    ThreadRef, GivenBack, Slots, Call, InitCtx, FreeFrame

(* The copy of a context holds the source's key on its own account.        *)
LEMMA DupCtxSlot ==
  ASSUME Shape, Shape', NEW t \in Threads, NEW s \in SigCtxs, NEW d \in SigCtxs,
         DupCtx(t, s, d)
  PROVE  /\ RefOf(d) = NoKey /\ RefOf(d)' = ctx[s] /\ RefOf(s) = ctx[s]
         /\ s \in Slots /\ d \in Slots /\ ctx[s] \in Keys \cup {NoKey}
         /\ \A r \in Slots \ {d} : RefOf(r)' = RefOf(r)
BY SlotKinds DEF Shape, TypeOK, FramesOK, FrameOK, Idle, Frame, IsIdle, RefOf, CtxRef,
                 ThreadRef, GivenBack, Slots, Call, DupCtx, Busy, Ctxs

(* The stored pointer takes over the thread's reference.                   *)
LEMMA AssignSlots ==
  ASSUME Shape, Shape', NEW t \in Threads, Assign(t), NEW c, c = call[t].ctx
  PROVE  /\ c \in Slots /\ c # t /\ RefOf(c) = NoKey /\ RefOf(t)' = NoKey
         /\ RefOf(c)' = RefOf(t)
         /\ \A r \in Slots \ {c, t} : RefOf(r)' = RefOf(r)
<1> USE SlotKinds DEF Shape, TypeOK, FramesOK, FrameOK, Idle, Frame, RefOf, CtxRef,
                      ThreadRef, GivenBack, Slots, Call
<1>1. c \in Ctxs /\ call[t].new \in Keys /\ call[t].pc = "assign"
  BY DEF Assign
<1>2. ctx' = [ctx EXCEPT ![c] = call[t].new] /\ call' = [call EXCEPT ![t] = Idle] /\ pkey' = pkey
  BY DEF Assign
<1>3. RefOf(c) = NoKey /\ RefOf(t) = call[t].new /\ RefOf(t)' = NoKey
  BY <1>1, <1>2
<1>4. RefOf(c)' = call[t].new
  <2>1. ~GivenBack(c)'
    BY <1>1, <1>2
  <2> QED BY <1>1, <1>2, <2>1
<1>5. \A d \in Ctxs \ {c} : RefOf(d)' = RefOf(d)
  BY <1>1, <1>2
<1>6. \A r \in (Threads \ {t}) \cup Handles : RefOf(r)' = RefOf(r)
  BY <1>2
<1> QED BY <1>1, <1>3, <1>4, <1>5, <1>6

(* The atomic decrement gives back the reference of the context it is      *)
(* about, or the thread's own.                                             *)
Giver(t) == IF call[t].then = "idle" THEN t ELSE call[t].ctx

LEMMA DecSlot ==
  ASSUME Shape, Shape', NEW t \in Threads, Dec(t), NEW s, s = Giver(t)
  PROVE  /\ s \in Slots /\ RefOf(s) = call[t].old /\ call[t].old \in Keys
         /\ RefOf(s)' = NoKey
         /\ \A r \in Slots \ {s} : RefOf(r)' = RefOf(r)
<1> USE SlotKinds DEF Shape, TypeOK, FramesOK, FrameOK, Idle, Frame, RefOf, CtxRef,
                      ThreadRef, GivenBack, Slots, Call
<1>1. call[t].old \in Keys /\ ctx' = ctx /\ pkey' = pkey /\ call[t].pc = "dec"
  BY DEF Dec
<1>2. \/ call'[t] = Idle /\ call[t].then = "idle"
      \/ /\ call'[t].then = call[t].then /\ call'[t].ctx = call[t].ctx
         /\ call'[t].new = call[t].new
         /\ call'[t].pc = IF call[t].then = "idle" THEN "destroy" ELSE call'[t].pc
         /\ call'[t].pc \in {"destroy", "assign", "ctxfree"}
  BY <1>1 DEF Dec, ReturnFrame
<1>3. \A u \in Threads \ {t} : call'[u] = call[u]
  BY DEF Dec
<1>4. CASE call[t].then = "idle"
  <2>1. s = t /\ RefOf(t) = call[t].old /\ RefOf(t)' = NoKey
    BY <1>1, <1>2, <1>4 DEF Giver
  <2>2. \A d \in Ctxs : RefOf(d)' = RefOf(d)
    BY <1>1, <1>2, <1>3, <1>4, SMTT(60)
  <2>3. \A u \in Threads \ {t} : RefOf(u)' = RefOf(u)
    BY <1>3
  <2>4. \A h \in Handles : RefOf(h)' = RefOf(h)
    BY <1>1
  <2> HIDE DEF RefOf
  <2>5. s \in Slots /\ \A r \in Slots \ {s} : RefOf(r)' = RefOf(r)
    BY <2>1, <2>2, <2>3, <2>4
  <2>6. RefOf(s) = call[t].old /\ RefOf(s)' = NoKey
    BY <2>1
  <2> QED BY <1>1, <2>5, <2>6
<1>5. CASE call[t].then # "idle"
  <2>1. s = call[t].ctx /\ s \in Ctxs /\ ctx[s] = call[t].old /\ ~GivenBack(s) /\ GivenBack(s)'
    BY <1>1, <1>2, <1>3, <1>5 DEF Giver
  <2>2. \A d \in Ctxs \ {s} : RefOf(d)' = RefOf(d)
    BY <1>1, <1>2, <1>3, <2>1, SMTT(60)
  <2>3. \A u \in Threads : RefOf(u)' = RefOf(u)
    BY <1>1, <1>2, <1>3, <1>5, <2>1
  <2>4. \A h \in Handles : RefOf(h)' = RefOf(h)
    BY <1>1
  <2> QED BY <1>1, <2>1, <2>2, <2>3, <2>4, SMTT(60)
<1> QED BY <1>4, <1>5

-----------------------------------------------------------------------------
(* The counter.                                                            *)
LEMMA CountingInit == Init => Counting
<1> SUFFICES ASSUME Init PROVE Counting
  OBVIOUS
<1>1. \A k \in Keys : OwnersOf(k) = {}
  BY SlotKinds DEF Init, OwnersOf, RefOf, CtxRef, ThreadRef, GivenBack, Slots, Idle, Frame
<1>2. Cardinality({}) = 0
  BY FS_EmptySet
<1>3. RefCountExact
  BY <1>1, <1>2 DEF Init, RefCountExact
<1> QED BY <1>3 DEF Init, Counting, OnlyLiveCounted, BuiltPrivate, DestroyedOnce, Idle, Frame

(* A key with a zero counter has no owner and was not lost.                *)
LEMMA ZeroMeansNoOwner ==
  ASSUME RefCountExact, NEW k \in Keys, refs[k] = 0
  PROVE  Cardinality(OwnersOf(k)) = 0 /\ k \notin orphans
BY OwnersFinite DEF RefCountExact

(* Steps that leave counters, memory and owners alone.                     *)
LEMMA CountingKept ==
  ASSUME Shape, Counting, refs' = refs, mem' = mem, orphans' = orphans,
         \A k \in Keys : Cardinality(OwnersOf(k))' = Cardinality(OwnersOf(k)),
         \A t \in Threads : call'[t].pc \in {"built", "destroy"} => call'[t] = call[t]
  PROVE  Counting'
<1>1. RefCountExact'
  BY DEF Counting, RefCountExact
<1>2. OnlyLiveCounted'
  BY DEF Counting, OnlyLiveCounted
<1>3. BuiltPrivate'
  BY DEF Counting, BuiltPrivate
<1>4. DestroyedOnce'
  BY DEF Counting, DestroyedOnce
<1> QED BY <1>1, <1>2, <1>3, <1>4 DEF Counting

LEMMA CountingKeyNew ==
  ASSUME Shape, Shape', Counting, NEW t \in Threads, NEW k \in Keys, KeyNew(t, k)
  PROVE  Counting'
<1> USE DEF Counting
<1>1. refs[k] = 0 /\ mem[k] = "unused"
  BY DEF KeyNew, OnlyLiveCounted
<1>2. Cardinality(OwnersOf(k)) = 0 /\ k \notin orphans
  BY <1>1, ZeroMeansNoOwner
<1>3. \A j \in Keys : Cardinality(OwnersOf(j))' =
        Cardinality(OwnersOf(j)) + (IF j = k THEN 1 ELSE 0)
  BY KeyNewSlot, OneSlotChanges, OwnersFinite, SlotKinds
<1>4. RefCountExact'
  <2>1. refs' = [refs EXCEPT ![k] = 1] /\ refs \in [Keys -> Int] /\ orphans' = orphans
    BY DEF KeyNew, Shape, TypeOK
  <2>2. ASSUME NEW j \in Keys
        PROVE  refs'[j] = Cardinality(OwnersOf(j))' + (IF j \in orphans' THEN 1 ELSE 0)
    <3>1. refs[j] = Cardinality(OwnersOf(j)) + (IF j \in orphans THEN 1 ELSE 0)
      BY DEF RefCountExact
    <3>2. Cardinality(OwnersOf(j)) \in Nat
      BY OwnersFinite
    <3>3. refs'[j] = IF j = k THEN 1 ELSE refs[j]
      BY <2>1
    <3>4. Cardinality(OwnersOf(j))' = Cardinality(OwnersOf(j)) + (IF j = k THEN 1 ELSE 0)
      BY <1>3
    <3>5. CASE j = k
      BY <1>2, <2>1, <3>3, <3>4, <3>5
    <3>6. CASE j # k
      BY <2>1, <3>1, <3>2, <3>3, <3>4, <3>6
    <3> QED BY <3>5, <3>6
  <2> QED BY <2>2 DEF RefCountExact
<1>5. OnlyLiveCounted'
  BY <1>1 DEF OnlyLiveCounted, KeyNew, Shape, TypeOK
<1>6. BuiltPrivate'
  BY <1>1, <1>2 DEF BuiltPrivate, KeyNew, Shape, TypeOK, FramesOK, FrameOK, Frame
<1>7. DestroyedOnce'
  BY <1>1 DEF DestroyedOnce, KeyNew, Shape, TypeOK, FramesOK, FrameOK, Frame
<1> QED BY <1>4, <1>5, <1>6, <1>7

LEMMA CountingKeyGenFailed ==
  ASSUME Shape, Shape', Counting, NEW t \in Threads, KeyGenFailed(t)
  PROVE  Counting'
<1> USE DEF Counting
<1> DEFINE k == call[t].new
<1>1. k \in Keys /\ k \notin orphans
  BY DEF KeyGenFailed, BuiltPrivate, Shape, FramesOK, FrameOK
<1>2. \A j \in Keys : Cardinality(OwnersOf(j))' =
        Cardinality(OwnersOf(j)) - (IF j = k THEN 1 ELSE 0)
  BY <1>1, KeyGenFailedSlot, OneSlotChanges, OwnersFinite, SlotKinds
<1>3. RefCountExact'
  <2>1. refs' = refs /\ orphans' = orphans \cup {k}
    BY DEF KeyGenFailed
  <2>2. ASSUME NEW j \in Keys
        PROVE  refs'[j] = Cardinality(OwnersOf(j))' + (IF j \in orphans' THEN 1 ELSE 0)
    <3>1. refs[j] = Cardinality(OwnersOf(j)) + (IF j \in orphans THEN 1 ELSE 0)
      BY DEF RefCountExact
    <3>2. Cardinality(OwnersOf(j)) \in Nat
      BY OwnersFinite
    <3> QED BY <1>1, <1>2, <2>1, <3>1, <3>2
  <2> QED BY <2>2 DEF RefCountExact
<1>4. OnlyLiveCounted' /\ DestroyedOnce'
  BY DEF OnlyLiveCounted, DestroyedOnce, KeyGenFailed, Shape, TypeOK, Idle, Frame
<1>5. BuiltPrivate'
  BY DEF BuiltPrivate, KeyGenFailed, Shape, TypeOK, Idle, Frame
<1> QED BY <1>3, <1>4, <1>5

LEMMA CountingTakes ==
  ASSUME Shape, Counting, NEW k \in Keys, NEW t \in Threads, NEW s \in Slots, RefOf(s) = k,
         UpRef(k), mem' = mem, orphans' = orphans,
         \A j \in Keys : Cardinality(OwnersOf(j))' =
           Cardinality(OwnersOf(j)) + (IF j = k THEN 1 ELSE 0),
         \A u \in Threads : call'[u].pc \in {"built", "destroy"} => call'[u] = call[u]
  PROVE  Counting'
<1> USE DEF Counting
<1>1. refs[k] >= 1 /\ refs[k] \in Int
  BY HeldIsCounted DEF Shape, TypeOK
<1>2. mem[k] = "live" /\ \A u \in Threads : ~(call[u].pc = "destroy" /\ call[u].old = k)
  BY <1>1 DEF OnlyLiveCounted, DestroyedOnce
<1>3. RefCountExact'
  BY <1>1, OwnersFinite DEF RefCountExact, UpRef, Shape, TypeOK
<1>4. OnlyLiveCounted'
  BY <1>1, <1>2 DEF OnlyLiveCounted, UpRef, Shape, TypeOK
<1>5. BuiltPrivate'
  BY DEF BuiltPrivate
<1>6. DestroyedOnce'
  BY <1>1, <1>2 DEF DestroyedOnce, UpRef, Shape, TypeOK, FramesOK, FrameOK
<1> QED BY <1>3, <1>4, <1>5, <1>6

LEMMA CountingDec ==
  ASSUME Shape, Shape', Counting, NEW t \in Threads, Dec(t)
  PROVE  Counting'
<1> USE DEF Counting
<1> DEFINE k == call[t].old
<1>1. PICK s : s = Giver(t)
  OBVIOUS
<1>2. s \in Slots /\ RefOf(s) = k /\ k \in Keys /\ RefOf(s)' = NoKey
  BY <1>1, DecSlot
<1>3. \A j \in Keys : Cardinality(OwnersOf(j))' =
        Cardinality(OwnersOf(j)) - (IF j = k THEN 1 ELSE 0)
  BY <1>1, <1>2, DecSlot, OneSlotChanges, OwnersFinite, SlotKinds
<1>4. refs[k] >= 1 /\ refs[k] \in Int
  BY <1>2, HeldIsCounted DEF Shape, TypeOK
<1>5. mem[k] = "live" /\ \A u \in Threads : ~(call[u].pc = "destroy" /\ call[u].old = k)
  BY <1>2, <1>4 DEF OnlyLiveCounted, DestroyedOnce
<1>6. refs' = [refs EXCEPT ![k] = @ - 1] /\ mem' = mem /\ orphans' = orphans
  BY DEF Dec
<1>7. RefCountExact'
  BY <1>2, <1>3, <1>6, OwnersFinite DEF RefCountExact, Shape, TypeOK
<1>8. OnlyLiveCounted'
  BY <1>2, <1>5, <1>6 DEF OnlyLiveCounted, Shape, TypeOK
<1>9. \A u \in Threads \ {t} : call'[u] = call[u]
  BY DEF Dec
<1>10. /\ call'[t].pc # "built"
       /\ call'[t].pc = "destroy" => refs[k] = 1 /\ call'[t].old = k
  BY <1>4 DEF Dec, ReturnFrame, Idle, Frame, Shape, TypeOK, Call
<1>11. BuiltPrivate'
  BY <1>6, <1>9, <1>10 DEF BuiltPrivate
<1>12. DestroyedOnce'
  BY <1>2, <1>4, <1>5, <1>6, <1>9, <1>10
     DEF DestroyedOnce, Shape, TypeOK, FramesOK, FrameOK
<1> QED BY <1>7, <1>8, <1>11, <1>12

LEMMA CountingDestroy ==
  ASSUME Shape, Shape', Counting, NEW t \in Threads, Destroy(t)
  PROVE  Counting'
<1> USE DEF Counting
<1> DEFINE k == call[t].old
<1>1. k \in Keys /\ refs[k] = 0 /\ mem[k] = "live"
  BY DEF Destroy, DestroyedOnce, Shape, FramesOK, FrameOK
<1>2. \A j \in Keys : Cardinality(OwnersOf(j))' = Cardinality(OwnersOf(j))
  BY QuietSlots, NoSlotChanges DEF Quiet
<1>3. RefCountExact'
  BY <1>2 DEF RefCountExact, Destroy
<1>4. OnlyLiveCounted'
  BY <1>1 DEF OnlyLiveCounted, Destroy, Shape, TypeOK
<1>5. \A u \in Threads \ {t} : call'[u] = call[u]
  BY DEF Destroy
<1>6. call'[t].pc \notin {"built", "destroy"}
  BY DEF Destroy, ReturnFrame, Idle, Frame, Shape, TypeOK, Call
<1>7. \A u \in Threads : call[u].pc = "built" => call[u].new # k
  <2>1. SUFFICES ASSUME NEW u \in Threads, call[u].pc = "built", call[u].new = k PROVE FALSE
    OBVIOUS
  <2>2. RefOf(u) = k /\ u \in Slots
    BY <1>1, <2>1, SlotKinds DEF RefOf, ThreadRef
  <2> QED BY <1>1, <2>2, HeldIsCounted DEF Shape
<1>8. BuiltPrivate'
  BY <1>5, <1>6, <1>7 DEF BuiltPrivate, Destroy, Shape, TypeOK, FramesOK, FrameOK
<1>9. DestroyedOnce'
  BY <1>1, <1>5, <1>6 DEF DestroyedOnce, Destroy, Shape, TypeOK, FramesOK, FrameOK
<1> QED BY <1>3, <1>4, <1>8, <1>9

LEMMA CountingNext == IInv /\ [Next]_vars => Counting'
<1> SUFFICES ASSUME Shape, Shape', Counting, [Next]_vars PROVE Counting'
  BY ShapeNext DEF IInv
<1> USE SlotKinds
<1>1. ASSUME NEW t \in Threads, NEW k \in Keys, KeyNew(t, k) PROVE Counting'
  BY <1>1, CountingKeyNew
<1>2. ASSUME NEW t \in Threads, NEW h \in Handles, KeyToHandle(t, h) PROVE Counting'
  <2>1. \A k \in Keys : Cardinality(OwnersOf(k))' = Cardinality(OwnersOf(k))
    BY <1>2, KeyToHandleSlots, ReferenceMoves
  <2> QED BY <1>2, <2>1, CountingKept DEF KeyToHandle, Idle, Frame, Shape, TypeOK
<1>3. ASSUME NEW t \in Threads, KeyGenFailed(t) PROVE Counting'
  BY <1>3, CountingKeyGenFailed
<1>4. ASSUME NEW t \in Threads, NEW h \in Handles, EvpFree(t, h) PROVE Counting'
  <2>1. \A k \in Keys : Cardinality(OwnersOf(k))' = Cardinality(OwnersOf(k))
    BY <1>4, EvpFreeSlots, ReferenceMoves, NoSlotChanges
  <2> QED BY <1>4, <2>1, CountingKept DEF EvpFree, FreeFrame, Frame, Shape, TypeOK
<1>5. ASSUME NEW t \in Threads, NEW c \in Ctxs, NEW h \in Handles, InitCtx(t, c, h)
      PROVE  Counting'
  <2>1. \A j \in Keys : Cardinality(OwnersOf(j))' =
          Cardinality(OwnersOf(j)) + (IF j = pkey[h] THEN 1 ELSE 0)
    BY <1>5, InitCtxSlot, OneSlotChanges, OwnersFinite
  <2>2. pkey[h] \in Keys /\ RefOf(h) = pkey[h] /\ h \in Slots
    BY <1>5, InitCtxSlot
  <2>3. \A u \in Threads : call'[u].pc \in {"built", "destroy"} => call'[u] = call[u]
    BY <1>5 DEF InitCtx, FreeFrame, Frame, Shape, TypeOK
  <2> QED BY <1>5, <2>1, <2>2, <2>3, CountingTakes DEF InitCtx
<1>6. ASSUME NEW t \in Threads, NEW s \in SigCtxs, NEW d \in SigCtxs, DupCtx(t, s, d)
      PROVE  Counting'
  <2>1. \A u \in Threads : call'[u].pc \in {"built", "destroy"} => call'[u] = call[u]
    BY <1>6 DEF DupCtx, Frame, Shape, TypeOK
  <2>2. CASE ctx[s] = NoKey
    <3>1. \A r \in Slots : RefOf(r)' = RefOf(r)
      BY <1>6, <2>2, DupCtxSlot
    <3> QED BY <1>6, <2>1, <2>2, <3>1, NoSlotChanges, CountingKept DEF DupCtx
  <2>3. CASE ctx[s] # NoKey
    <3>1. ctx[s] \in Keys /\ RefOf(s) = ctx[s] /\ s \in Slots
      BY <1>6, <2>3, DupCtxSlot
    <3>2. \A j \in Keys : Cardinality(OwnersOf(j))' =
            Cardinality(OwnersOf(j)) + (IF j = ctx[s] THEN 1 ELSE 0)
      BY <1>6, DupCtxSlot, OneSlotChanges, OwnersFinite
    <3> QED BY <1>6, <2>1, <2>3, <3>1, <3>2, CountingTakes DEF DupCtx
  <2> QED BY <2>2, <2>3
<1>7. ASSUME NEW t \in Threads, Dec(t) PROVE Counting'
  BY <1>7, CountingDec
<1>8. ASSUME NEW t \in Threads, Destroy(t) PROVE Counting'
  BY <1>8, CountingDestroy
<1>9. ASSUME NEW t \in Threads, Assign(t) PROVE Counting'
  <2>1. PICK c : c = call[t].ctx
    OBVIOUS
  <2>2. \A k \in Keys : Cardinality(OwnersOf(k))' = Cardinality(OwnersOf(k))
    BY <1>9, <2>1, AssignSlots, ReferenceMoves
  <2> QED BY <1>9, <2>2, CountingKept DEF Assign, Idle, Frame, Shape, TypeOK
<1>10. ASSUME NEW t \in Threads, Quiet(t), ~Destroy(t) PROVE Counting'
  <2>1. \A k \in Keys : Cardinality(OwnersOf(k))' = Cardinality(OwnersOf(k))
    BY <1>10, QuietSlots, NoSlotChanges
  <2>2. refs' = refs /\ mem' = mem /\ orphans' = orphans
    BY <1>10 DEF Quiet, KeyDiscard, CtxFree, DupDone, DupFailed, EvpShare, NewCtx, FreeCtx
  <2>3. \A u \in Threads : call'[u].pc \in {"built", "destroy"} => call'[u] = call[u]
    BY <1>10 DEF Quiet, KeyDiscard, CtxFree, DupDone, DupFailed, EvpShare, NewCtx, FreeCtx,
                 FreeFrame, Idle, Frame, Shape, TypeOK
  <2> QED BY <2>1, <2>2, <2>3, CountingKept
<1>11. CASE UNCHANGED vars
  <2>1. \A r \in Slots : RefOf(r)' = RefOf(r)
    BY <1>11 DEF vars, RefOf, CtxRef, ThreadRef, GivenBack
  <2> QED BY <1>11, <2>1, NoSlotChanges, CountingKept DEF vars
<1> QED BY <1>1, <1>2, <1>3, <1>4, <1>5, <1>6, <1>7, <1>8, <1>9, <1>10, <1>11
        DEF Next, Continue, Quiet

(* IInv is inductive, hence an invariant.                                  *)
THEOREM Inductive == Spec => []IInv
<1>1. Init => IInv
  BY ShapeInit, CountingInit DEF IInv
<1>2. IInv /\ [Next]_vars => IInv'
  BY ShapeNext, CountingNext DEF IInv
<1> QED BY <1>1, <1>2, PTL DEF Spec

(* oqsx_key_free's counter is the number of references still to be given   *)
(* back, for any number of threads, keys, contexts and EVP_PKEY objects.   *)
THEOREM CounterIsExact == Spec => []RefCountExact
<1>1. IInv => RefCountExact
  BY DEF IInv, Counting
<1> QED BY <1>1, Inductive, PTL

(* The release in oqsx_key_free happens with the counter at zero, for a    *)
(* live key, in one thread.                                                *)
THEOREM ReleasedOnce == Spec => []DestroyedOnce
<1>1. IInv => DestroyedOnce
  BY DEF IInv, Counting
<1> QED BY <1>1, Inductive, PTL

(* No context, handle or thread holds a key that is released or about to   *)
(* be released.                                                            *)
THEOREM HeldKeysAreLive == Spec => []NoDanglingKey
<1>1. IInv => NoDanglingKey
  <2> SUFFICES ASSUME IInv, NEW s \in Slots, RefOf(s) # NoKey
               PROVE  /\ mem[RefOf(s)] = "live"
                      /\ \A t \in Threads :
                           ~(call[t].pc = "destroy" /\ call[t].old = RefOf(s))
    BY DEF NoDanglingKey
  <2>1. RefOf(s) \in Keys
    BY DEF IInv, Shape, TypeOK, RefOf, CtxRef, ThreadRef, Slots, Call, FramesOK, FrameOK
  <2>2. refs[RefOf(s)] >= 1 /\ refs[RefOf(s)] \in Int
    BY <2>1, HeldIsCounted DEF IInv, Shape, Counting, TypeOK
  <2> QED BY <2>1, <2>2 DEF IInv, Counting, OnlyLiveCounted, DestroyedOnce
<1> QED BY <1>1, Inductive, PTL
=============================================================================
