----------------------------- MODULE OqsKeyRefs -----------------------------
(***************************************************************************)
(* The life of an OQSX_KEY: who holds a counted reference to it, from      *)
(* oqsx_key_new to the last oqsx_key_free, when several threads use the    *)
(* same key through EVP_PKEY handles, signature contexts                   *)
(* (oqs_sig.c, PROV_OQSSIG_CTX.sig) and KEM contexts (oqs_kem.c,           *)
(* PROV_OQSKEM_CTX.kem).                                                   *)
(*                                                                         *)
(* The counter is atomic, everything around it is not: oqsx_key_free       *)
(* decrements first and releases the memory in a later step, and the init  *)
(* functions take the new reference, give the old one back and store the   *)
(* new pointer in three steps.  A context is used by one thread at a time, *)
(* which is what libcrypto asks of its callers; keys are shared.           *)
(***************************************************************************)
EXTENDS Integers, FiniteSets

CONSTANTS
  Threads,    (* application threads calling into the provider             *)
  Keys,       (* addresses of OQSX_KEY objects, each allocated at most once *)
  SigCtxs,    (* slots for PROV_OQSSIG_CTX objects                         *)
  KemCtxs,    (* slots for PROV_OQSKEM_CTX objects                         *)
  Handles,    (* EVP_PKEY objects of libcrypto (external)                  *)
  NoKey,      (* a NULL OQSX_KEY pointer                                   *)
  NoCtx       (* a context that is not allocated                           *)

Ctxs  == SigCtxs \cup KemCtxs
Slots == Ctxs \cup Threads \cup Handles

(* The slots are told apart, and the set of them is finite.                *)
ASSUME SlotsAssumption ==
  /\ IsFiniteSet(Slots)
  /\ Ctxs \cap Threads = {} /\ Ctxs \cap Handles = {} /\ Threads \cap Handles = {}
  /\ NoKey \notin Keys /\ NoCtx \notin Ctxs \cup Keys \cup {NoKey}

VARIABLES
  mem,      (* is the key object unused, live or released                  *)
  refs,     (* key->references                                             *)
  pkey,     (* the key an EVP_PKEY carries (external)                      *)
  users,    (* the threads that hold an EVP_PKEY reference (external)      *)
  ctx,      (* ctx->sig or ctx->kem; NoCtx for a context not allocated     *)
  call,     (* per thread: the provider function it is in                  *)
  orphans   (* keys oqsx_genkey dropped on its error return                *)

vars == <<mem, refs, pkey, users, ctx, call, orphans>>

-----------------------------------------------------------------------------
(* A thread's frame: where it is, where oqsx_key_free returns to, the      *)
(* contexts it works on, the reference it carries and the one it gives     *)
(* back.                                                                   *)
Call == [pc   : {"idle", "built", "dec", "destroy", "assign", "ctxfree", "dup"},
         then : {"idle", "assign", "ctxfree"},
         ctx  : Ctxs \cup {NoCtx},  src : Ctxs \cup {NoCtx},
         new  : Keys \cup {NoKey},  old : Keys \cup {NoKey}]

Frame(pc, then, c, s, n, o) ==
  [pc |-> pc, then |-> then, ctx |-> c, src |-> s, new |-> n, old |-> o]

Idle == Frame("idle", "idle", NoCtx, NoCtx, NoKey, NoKey)

IsIdle(t) == call[t] = Idle
Busy(c)   == \E t \in Threads : call[t].ctx = c \/ call[t].src = c

(* A context's pointer is stale once its reference was given back and the  *)
(* pointer is not yet overwritten.                                         *)
GivenBack(c) ==
  \E t \in Threads : call[t].ctx = c /\ call[t].pc \in {"destroy", "assign", "ctxfree"}

(* The counted reference each slot holds.                                  *)
CtxRef(c) ==
  IF ctx[c] = NoCtx \/ GivenBack(c) THEN NoKey ELSE ctx[c]
ThreadRef(t) ==
  IF call[t].new # NoKey THEN call[t].new
  ELSE IF call[t].pc = "dec" /\ call[t].then = "idle" THEN call[t].old ELSE NoKey
RefOf(s) ==
  IF s \in Ctxs THEN CtxRef(s) ELSE IF s \in Threads THEN ThreadRef(s) ELSE pkey[s]
OwnersOf(k) == {s \in Slots : RefOf(s) = k}

-----------------------------------------------------------------------------
(* Definitions marked "Bug:" are no part of the specification: each is the *)
(* next definition with a mistake in it, for showing which property fails. *)
(* Bug: the increment is missing.                                          *)
UpRefForgotten(k) == k \in Keys /\ refs' = refs

UpRef(k) == refs' = [refs EXCEPT ![k] = @ + 1]

(* Enter oqsx_key_free(k) on the way to "then"; nothing to do for NULL.    *)
FreeFrame(k, c, s, n, then) ==
  Frame(IF k = NoKey THEN then ELSE "dec", then, c, s, n, k)

ReturnFrame(t) ==
  IF call[t].then = "idle" THEN Idle ELSE [call[t] EXCEPT !.pc = call[t].then]

Init ==
  /\ mem = [k \in Keys |-> "unused"]
  /\ refs = [k \in Keys |-> 0]
  /\ pkey = [h \in Handles |-> NoKey]
  /\ users = [h \in Handles |-> {}]
  /\ ctx = [c \in Ctxs |-> NoCtx]
  /\ call = [t \in Threads |-> Idle]
  /\ orphans = {}

(* Bug: the counter starts at zero.                                        *)
KeyNewUncounted(t, k) ==
  /\ IsIdle(t) /\ mem[k] = "unused"
  /\ mem' = [mem EXCEPT ![k] = "live"]
  /\ refs' = [refs EXCEPT ![k] = 0]
  /\ call' = [call EXCEPT ![t] = Frame("built", "idle", NoCtx, NoCtx, k, NoKey)]
  /\ UNCHANGED <<pkey, users, ctx, orphans>>

(* oqsx_key_new: one reference, held by the constructing thread.           *)
KeyNew(t, k) ==
  /\ IsIdle(t) /\ mem[k] = "unused"
  /\ mem' = [mem EXCEPT ![k] = "live"]
  /\ refs' = [refs EXCEPT ![k] = 1]
  /\ call' = [call EXCEPT ![t] = Frame("built", "idle", NoCtx, NoCtx, k, NoKey)]
  /\ UNCHANGED <<pkey, users, ctx, orphans>>

(* Bug: oqsx_load leaves the reference with the decoder, which frees it.   *)
KeyToHandleAttached(t, h) ==
  /\ call[t].pc = "built" /\ pkey[h] = NoKey
  /\ pkey' = [pkey EXCEPT ![h] = call[t].new]
  /\ users' = [users EXCEPT ![h] = {t}]
  /\ UNCHANGED <<mem, refs, ctx, call, orphans>>

(* The constructed key becomes the key of an EVP_PKEY: oqsx_gen returns it *)
(* or oqsx_load detaches it from the decoder's reference.                  *)
KeyToHandle(t, h) ==
  /\ call[t].pc = "built" /\ pkey[h] = NoKey
  /\ pkey' = [pkey EXCEPT ![h] = call[t].new]
  /\ users' = [users EXCEPT ![h] = {t}]
  /\ call' = [call EXCEPT ![t] = Idle]
  /\ UNCHANGED <<mem, refs, ctx, orphans>>

(* The key is not wanted: oqsx_key_op failed on the encoding, check_key    *)
(* refused it, or the decoder's callback left the reference in place.      *)
KeyDiscard(t) ==
  /\ call[t].pc = "built"
  /\ call' = [call EXCEPT ![t] = FreeFrame(call[t].new, NoCtx, NoCtx, NoKey, "idle")]
  /\ UNCHANGED <<mem, refs, pkey, users, ctx, orphans>>

(* oqsx_genkey returns NULL when oqsx_key_gen fails, and forgets the key.  *)
KeyGenFailed(t) ==
  /\ call[t].pc = "built"
  /\ orphans' = orphans \cup {call[t].new}
  /\ call' = [call EXCEPT ![t] = Idle]
  /\ UNCHANGED <<mem, refs, pkey, users, ctx>>

(* EVP_PKEY_up_ref on behalf of another thread, and EVP_PKEY_free, whose   *)
(* last call reaches the key management's free function.                   *)
EvpShare(t, u, h) ==
  /\ IsIdle(t) /\ t \in users[h] /\ u \notin users[h]
  /\ users' = [users EXCEPT ![h] = @ \cup {u}]
  /\ UNCHANGED <<mem, refs, pkey, ctx, call, orphans>>

EvpFree(t, h) ==
  /\ IsIdle(t) /\ t \in users[h]
  /\ users' = [users EXCEPT ![h] = @ \ {t}]
  /\ IF users[h] = {t}
     THEN /\ pkey' = [pkey EXCEPT ![h] = NoKey]
          /\ call' = [call EXCEPT ![t] = FreeFrame(pkey[h], NoCtx, NoCtx, NoKey, "idle")]
     ELSE UNCHANGED <<pkey, call>>
  /\ UNCHANGED <<mem, refs, ctx, orphans>>

(* oqs_sig_newctx and oqs_kem_newctx.                                      *)
NewCtx(t, c) ==
  /\ IsIdle(t) /\ ctx[c] = NoCtx /\ ~Busy(c)
  /\ ctx' = [ctx EXCEPT ![c] = NoKey]
  /\ UNCHANGED <<mem, refs, pkey, users, call, orphans>>

(* Bug: the context borrows the caller's reference.                        *)
InitCtxBorrowed(t, c, h) ==
  /\ IsIdle(t) /\ ctx[c] # NoCtx /\ ~Busy(c)
  /\ t \in users[h]
  /\ call' = [call EXCEPT ![t] = FreeFrame(ctx[c], c, NoCtx, pkey[h], "assign")]
  /\ UNCHANGED <<mem, refs, pkey, users, ctx, orphans>>

(* oqs_sig_signverify_init and oqs_kem_decapsencaps_init: up_ref the       *)
(* caller's key, then free the context's old one, then store the pointer.  *)
InitCtx(t, c, h) ==
  /\ IsIdle(t) /\ ctx[c] # NoCtx /\ ~Busy(c)
  /\ t \in users[h]
  /\ UpRef(pkey[h])
  /\ call' = [call EXCEPT ![t] = FreeFrame(ctx[c], c, NoCtx, pkey[h], "assign")]
  /\ UNCHANGED <<mem, pkey, users, ctx, orphans>>

Assign(t) ==
  /\ call[t].pc = "assign"
  /\ ctx' = [ctx EXCEPT ![call[t].ctx] = call[t].new]
  /\ call' = [call EXCEPT ![t] = Idle]
  /\ UNCHANGED <<mem, refs, pkey, users, orphans>>

(* Bug: the context is freed and its key is not.                           *)
FreeCtxForgets(t, c) ==
  /\ IsIdle(t) /\ ctx[c] # NoCtx /\ ~Busy(c)
  /\ call' = [call EXCEPT ![t] = Frame("ctxfree", "ctxfree", c, NoCtx, NoKey, NoKey)]
  /\ UNCHANGED <<mem, refs, pkey, users, ctx, orphans>>

(* oqs_sig_freectx and oqs_kem_freectx: free the key, then the context.    *)
FreeCtx(t, c) ==
  /\ IsIdle(t) /\ ctx[c] # NoCtx /\ ~Busy(c)
  /\ call' = [call EXCEPT ![t] = FreeFrame(ctx[c], c, NoCtx, NoKey, "ctxfree")]
  /\ UNCHANGED <<mem, refs, pkey, users, ctx, orphans>>

CtxFree(t) ==
  /\ call[t].pc = "ctxfree"
  /\ ctx' = [ctx EXCEPT ![call[t].ctx] = NoCtx]
  /\ call' = [call EXCEPT ![t] = Idle]
  /\ UNCHANGED <<mem, refs, pkey, users, orphans>>

(* oqs_sig_dupctx: the copy takes a reference of its own before anything   *)
(* else is duplicated; a later failure frees the copy with freectx.        *)
DupCtx(t, s, d) ==
  /\ IsIdle(t) /\ ctx[s] # NoCtx /\ ~Busy(s) /\ ctx[d] = NoCtx /\ ~Busy(d)
  /\ IF ctx[s] = NoKey THEN UNCHANGED refs ELSE UpRef(ctx[s])
  /\ ctx' = [ctx EXCEPT ![d] = ctx[s]]
  /\ call' = [call EXCEPT ![t] = Frame("dup", "idle", d, s, NoKey, NoKey)]
  /\ UNCHANGED <<mem, pkey, users, orphans>>

DupDone(t) ==
  /\ call[t].pc = "dup"
  /\ call' = [call EXCEPT ![t] = Idle]
  /\ UNCHANGED <<mem, refs, pkey, users, ctx, orphans>>

DupFailed(t) ==
  /\ call[t].pc = "dup"
  /\ call' = [call EXCEPT ![t] =
       FreeFrame(ctx[call[t].ctx], call[t].ctx, call[t].src, NoKey, "ctxfree")]
  /\ UNCHANGED <<mem, refs, pkey, users, ctx, orphans>>

(* Bug: the last but one reference destroys the key.                       *)
DecTooEarly(t) ==
  /\ call[t].pc = "dec"
  /\ refs' = [refs EXCEPT ![call[t].old] = @ - 1]
  /\ call' = [call EXCEPT ![t] = IF refs[call[t].old] - 1 > 1 THEN ReturnFrame(t)
                                 ELSE [call[t] EXCEPT !.pc = "destroy"]]
  /\ UNCHANGED <<mem, pkey, users, ctx, orphans>>

(* oqsx_key_free: the atomic decrement decides who destroys the key; the   *)
(* memory is released afterwards.                                          *)
Dec(t) ==
  /\ call[t].pc = "dec"
  /\ refs' = [refs EXCEPT ![call[t].old] = @ - 1]
  /\ call' = [call EXCEPT ![t] = IF refs[call[t].old] - 1 > 0 THEN ReturnFrame(t)
                                 ELSE [call[t] EXCEPT !.pc = "destroy"]]
  /\ UNCHANGED <<mem, pkey, users, ctx, orphans>>

Destroy(t) ==
  /\ call[t].pc = "destroy"
  /\ mem' = [mem EXCEPT ![call[t].old] = "dead"]
  /\ call' = [call EXCEPT ![t] = ReturnFrame(t)]
  /\ UNCHANGED <<refs, pkey, users, ctx, orphans>>

-----------------------------------------------------------------------------
(* What a thread inside a provider function does next.                     *)
Continue(t) == Dec(t) \/ Destroy(t) \/ Assign(t) \/ CtxFree(t) \/ DupDone(t) \/ DupFailed(t)

Next ==
  \E t \in Threads :
    \/ \E k \in Keys : KeyNew(t, k)
    \/ \E h \in Handles : KeyToHandle(t, h)
    \/ KeyDiscard(t)
    \/ KeyGenFailed(t)
    \/ \E u \in Threads, h \in Handles : EvpShare(t, u, h)
    \/ \E h \in Handles : EvpFree(t, h)
    \/ \E c \in Ctxs : NewCtx(t, c)
    \/ \E c \in Ctxs, h \in Handles : InitCtx(t, c, h)
    \/ \E c \in Ctxs : FreeCtx(t, c)
    \/ \E s, d \in SigCtxs : DupCtx(t, s, d)
    \/ Continue(t)

Spec == Init /\ [][Next]_vars

(* A thread inside a provider function is scheduled until it returns:      *)
(* these functions take no lock and wait for nobody.                       *)
FairSpec == Spec /\ \A t \in Threads : WF_vars(Continue(t))

-----------------------------------------------------------------------------
(* The memory and counter of each key, the pointers to it, and the frames  *)
(* of the threads inside provider functions are well typed.                *)
TypeOK ==
  /\ mem \in [Keys -> {"unused", "live", "dead"}]
  /\ refs \in [Keys -> Int]
  /\ pkey \in [Handles -> Keys \cup {NoKey}]
  /\ users \in [Handles -> SUBSET Threads]
  /\ ctx \in [Ctxs -> Keys \cup {NoKey, NoCtx}]
  /\ call \in [Threads -> Call]
  /\ orphans \subseteq Keys

(* oqsx_key_free's counter and the pointers that were stored agree: the    *)
(* count is the number of contexts, handles and threads that still have a  *)
(* reference to give back, whatever the interleaving of init, dup and free *)
(* on a shared key; a key lost by oqsx_genkey keeps its first reference.   *)
RefCountExact ==
  \A k \in Keys :
    refs[k] = Cardinality(OwnersOf(k)) + (IF k \in orphans THEN 1 ELSE 0)

(* No context, handle or thread can reach a key whose memory is released   *)
(* or about to be: what sign, verify, encapsulate and decapsulate          *)
(* dereference is alive.                                                   *)
NoDanglingKey ==
  \A s \in Slots : RefOf(s) # NoKey =>
    /\ mem[RefOf(s)] = "live"
    /\ \A t \in Threads : ~(call[t].pc = "destroy" /\ call[t].old = RefOf(s))

(* The release part of oqsx_key_free runs for a live key, with the counter *)
(* at zero (the assertion in oqsx_key_free), and in one thread only.       *)
DestroyedOnce ==
  \A t \in Threads : call[t].pc = "destroy" =>
    /\ mem[call[t].old] = "live" /\ refs[call[t].old] = 0
    /\ \A u \in Threads \ {t} : ~(call[u].pc = "destroy" /\ call[u].old = call[t].old)

(* The assertion of oqsx_key_up_ref (refcnt > 1): taking a reference never *)
(* revives a key whose counter had reached zero.                           *)
NeverRevived ==
  [][\A k \in Keys : refs[k] = 0 /\ mem[k] = "live" => refs'[k] = 0]_vars

(* What makes the counter inductive: a frame names the pointer it is about *)
(* to give back, no two threads work on one context, an EVP_PKEY in use    *)
(* carries a key, only live keys have a non-zero counter, and a key under  *)
(* construction is known to its constructor alone.                         *)
FrameOK(t) ==
  LET f == call[t] IN
  /\ f.pc = "idle" => f = Idle
  /\ f.pc = "built" => f.new \in Keys /\ f.ctx = NoCtx /\ f.then = "idle"
  /\ f.pc = "dup" => f.new = NoKey /\ f.ctx \in Ctxs /\ f.then = "idle"
  /\ f.pc \in {"assign", "ctxfree"} => f.then = f.pc
  /\ f.then = "assign" => f.new \in Keys /\ f.ctx \in Ctxs
  /\ f.then = "ctxfree" => f.new = NoKey /\ f.ctx \in Ctxs
  /\ f.pc \in {"dec", "destroy"} =>
       /\ f.old \in Keys
       /\ IF f.then = "idle" THEN f.new = NoKey /\ f.ctx = NoCtx ELSE ctx[f.ctx] = f.old
  /\ f.ctx \in Ctxs => ctx[f.ctx] # NoCtx
  /\ \A u \in Threads \ {t} : f.ctx = call[u].ctx => f.ctx = NoCtx

FramesOK    == \A t \in Threads : FrameOK(t)
HandlesOK   == \A h \in Handles : users[h] = {} <=> pkey[h] = NoKey
OnlyLiveCounted == \A k \in Keys : mem[k] # "live" => refs[k] = 0

BuiltPrivate ==
  \A t \in Threads : call[t].pc = "built" =>
    /\ call[t].new \notin orphans /\ mem[call[t].new] = "live"
    /\ \A u \in Threads \ {t} : ~(call[u].pc = "built" /\ call[u].new = call[t].new)

Shape    == TypeOK /\ FramesOK /\ HandlesOK
Counting == OnlyLiveCounted /\ BuiltPrivate /\ RefCountExact /\ DestroyedOnce
IInv     == Shape /\ Counting

(* oqsx_key_up_ref and oqsx_key_free implement shared ownership: every     *)
(* step of the code is a step of SharedOwnership or changes nothing there. *)
Shared == INSTANCE SharedOwnership WITH
  Objects <- Keys, Holders <- Slots,
  state <- mem, owners <- [k \in Keys |-> OwnersOf(k)], lost <- orphans

(* The promise without its liveness half, and the whole of it.             *)
SharedSafe == Shared!OSafeSpec
SharedLive == Shared!OSpec
=============================================================================
