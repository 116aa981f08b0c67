------------------------------ MODULE OqsSigCtx ------------------------------
(***************************************************************************)
(* The signature context of oqs_sig.c: which bytes a signature covers and  *)
(* when a verification succeeds, over every order in which libcrypto lets  *)
(* an application call init, update, final, the one-shot functions, the    *)
(* parameter setter and dupctx.  Signer and verifier may be built against  *)
(* different OpenSSL versions: a build for 3.4 maps the digest functions   *)
(* to the message operations and has further entry points.                 *)
(*                                                                         *)
(* Data are sequences of chunks, a hash is the pair of its algorithm and   *)
(* its input, and a signature records what was signed: the primitives are  *)
(* ideal.  The history fields fed, hash, asked, refused, late and queried   *)
(* of a context say what the application asked for and was told, and never *)
(* steer an action.                                                        *)
(***************************************************************************)
EXTENDS Naturals, Sequences, FiniteSets

CONSTANTS
  Ctxs,     (* slots for PROV_OQSSIG_CTX objects                           *)
  New34,    (* the slots of processes built against OpenSSL 3.4 or later   *)
  Chunks,   (* units of data handed to an update                           *)
  Mds,      (* digests EVP_MD_fetch finds                                  *)
  Strs,     (* non-empty context strings                                   *)
  Null,     (* a NULL pointer; a free slot                                 *)
  MaxData,  (* bound on the length of the data of one context              *)
  MaxSigs   (* bound on the number of signatures made                      *)

VARIABLES
  ctx,      (* the contexts                                                *)
  sigs,     (* the signatures made so far                                  *)
  verdict   (* of a verification step: what was returned, what was due     *)

vars == <<ctx, sigs, verdict>>

Pieces == {<<>>} \cup {<<k>> : k \in Chunks}
Data   == UNION {[1..n -> Chunks] : n \in 0..MaxData}
Hash   == [alg : Mds, data : Data]                       (* an EVP_MD_CTX *)

(* NULL is no digest, no string, no buffer and no hash.                    *)
ASSUME SigCtxAssumption ==
  /\ New34 \subseteq Ctxs /\ MaxData \in Nat /\ MaxSigs \in Nat
  /\ Null \notin Mds \cup Strs \cup Chunks /\ Null \notin Data /\ Null \notin Hash

Tbs    == [md : Mds \cup {Null}, data : Data]
Claim  == [md : Mds \cup {Null}, data : Data, cstr : Strs \cup {Null},
           refused : BOOLEAN, late : BOOLEAN, priv : BOOLEAN]
Sig    == [tbs : Tbs, cstr : Strs \cup {Null}, claim : Claim]

Context ==
  [api     : {"new", "digest", "done", "pkey", "message"},
   op      : {"none", "sign", "verify", "signmsg", "verifymsg"},
   priv    : BOOLEAN,              (* the key has its private half         *)
   allow   : BOOLEAN,              (* flag_allow_md                        *)
   md      : Mds \cup {Null},
   mdctx   : Hash \cup {Null},
   mddata  : Data \cup {Null},
   cptr    : BOOLEAN,              (* context_string is not NULL           *)
   cstr    : Strs \cup {Null},     (* the string; Null when its length is 0 *)
   sig     : Sig \cup {Null},      (* the 3.4 signature field              *)
   fed     : Data,                 (* what the updates passed in           *)
   hash    : Mds \cup {Null},      (* the digest chosen at init            *)
   asked   : Strs \cup {Null},     (* the string of the last call accepted *)
   refused : BOOLEAN,              (* a call to set a string has failed    *)
   late    : BOOLEAN, queried : BOOLEAN]

-----------------------------------------------------------------------------
Blank ==
  [api |-> "new", op |-> "none", priv |-> FALSE, allow |-> FALSE, md |-> Null,
   mdctx |-> Null, mddata |-> Null, cptr |-> FALSE, cstr |-> Null, sig |-> Null,
   fed |-> <<>>, hash |-> Null, asked |-> Null, refused |-> FALSE,
   late |-> FALSE, queried |-> FALSE]

(* After its final a context is only good for being freed: libcrypto lets  *)
(* nothing more be signed or verified with it, and what it still holds is  *)
(* forgotten here.                                                         *)
Spent == [Blank EXCEPT !.api = "done"]

NoVerdict == [ok |-> FALSE, data |-> FALSE, str |-> FALSE, late |-> FALSE, refused |-> FALSE]

Quiet      == sigs' = sigs /\ verdict' = NoVerdict
Live(c)    == ctx[c] # Null
Fits(x, d) == Len(x.fed) + Len(d) <= MaxData
Signing(x) == x.op \in {"sign", "signmsg"}
Becomes(c, x) == ctx' = [ctx EXCEPT ![c] = x]
Stays(c)   == Becomes(c, ctx[c])

(* oqs_sig_collect_data: the first allocation of nothing fails.            *)
CanCollect(x, d) == x.mddata # Null \/ d # <<>>
Gathered(x)      == IF x.mddata = Null THEN <<>> ELSE x.mddata
(* Definitions marked "Bug:" are no part of the specification: each is the *)
(* next definition with a mistake in it, for showing which property fails. *)
(* Bug: the new data are put in front of those collected.                  *)
CollectInFront(x, d) == [x EXCEPT !.mddata = d \o Gathered(x), !.fed = @ \o d]

Collect(x, d)    == [x EXCEPT !.mddata = Gathered(x) \o d, !.fed = @ \o d]

Collected(x) == [md |-> Null, data |-> Gathered(x)]
Hashed(x)    == [md |-> x.mdctx.alg, data |-> x.mdctx.data]

(* What the application asked to be signed or verified.                    *)
ClaimOf(x, md, d) == [md |-> md, data |-> d, cstr |-> x.asked,
                      refused |-> x.refused, late |-> x.late, priv |-> x.priv]

(* Bug: no check for the private half.                                     *)
SignDirectlyAnyKey(x, t, claim, big) ==
  /\ verdict' = NoVerdict
  /\ sigs' = IF big THEN sigs \cup {[tbs |-> t, cstr |-> x.cstr, claim |-> claim]} ELSE sigs
  /\ Cardinality(sigs') <= MaxSigs

(* Bug: the context string is not passed to the signing function.          *)
SignDirectlyNoStr(x, t, claim, big) ==
  /\ verdict' = NoVerdict
  /\ sigs' = IF x.priv /\ big
             THEN sigs \cup {[tbs |-> t, cstr |-> Null, claim |-> claim]} ELSE sigs
  /\ Cardinality(sigs') <= MaxSigs

(* oqs_sig_sign_directly with an output buffer: it refuses a key without   *)
(* its private half and a buffer below the maximal signature length.       *)
SignDirectly(x, t, claim, big) ==
  /\ verdict' = NoVerdict
  /\ sigs' = IF x.priv /\ big
             THEN sigs \cup {[tbs |-> t, cstr |-> x.cstr, claim |-> claim]} ELSE sigs
  /\ Cardinality(sigs') <= MaxSigs

(* What a verification was due to find: whether both sides fed the same    *)
(* data under the same digest, and whether they had the same string.       *)
Due(ok, s, claim) ==
  [ok      |-> ok,
   data    |-> s # Null /\ s.claim.md = claim.md /\ s.claim.data = claim.data,
   str     |-> s # Null /\ s.claim.cstr = claim.cstr,
   late    |-> claim.late \/ (s # Null /\ s.claim.late),
   refused |-> claim.refused \/ (s # Null /\ s.claim.refused)]

(* Bug: verification does not look at the context string.                  *)
VerifyDirectlyNoStr(x, s, t, claim) ==
  /\ sigs' = sigs
  /\ verdict' = Due(s # Null /\ s.tbs = t, s, claim)

(* oqs_sig_verify_directly.                                                *)
VerifyDirectly(x, s, t, claim) ==
  /\ sigs' = sigs
  /\ verdict' = Due(s # Null /\ s.tbs = t /\ s.cstr = x.cstr, s, claim)

Init ==
  /\ ctx = [c \in Ctxs |-> Null]
  /\ sigs = {}
  /\ verdict = NoVerdict

(* oqs_sig_newctx, oqs_sig_freectx, oqs_sig_dupctx (within one process).   *)
(* A context string whose length is zero cannot be copied: the call fails, *)
(* and neither context changes.  The duplicate of a context that holds a   *)
(* 3.4 signature shares its memory with the original, each frees it, and   *)
(* what either does then is undefined: such duplicates are left out.       *)
NewCtx(c)  == ~Live(c) /\ Becomes(c, Blank) /\ Quiet
FreeCtx(c) == Live(c) /\ Becomes(c, Null) /\ Quiet

DupCtx(c, d) ==
  /\ Live(c) /\ ~Live(d) /\ (c \in New34 <=> d \in New34)
  /\ ctx[c].api # "done" /\ ctx[c].sig = Null /\ (ctx[c].cptr => ctx[c].cstr # Null)
  /\ Becomes(d, ctx[c])
  /\ Quiet

(* oqs_sig_signverify_init as the init functions call it.  libcrypto       *)
(* initialises a fresh context only, and frees it when the call fails; the *)
(* check for the private half is skipped for the message operations.       *)
Started(x, api, op, priv) == [x EXCEPT !.api = api, !.op = op, !.priv = priv, !.allow = TRUE]
InitFails(op, priv)       == op = "sign" /\ ~priv

SignVerifyInit(c, op, priv) ==
  /\ Live(c) /\ ctx[c].api = "new" /\ op \in {"sign", "verify"}
  /\ Becomes(c, IF InitFails(op, priv) THEN Null ELSE Started(ctx[c], "pkey", op, priv))
  /\ Quiet

MessageInit(c, op, priv) ==
  /\ c \in New34 /\ Live(c) /\ ctx[c].api = "new" /\ op \in {"signmsg", "verifymsg"}
  /\ Becomes(c, Started(ctx[c], "message", op, priv))
  /\ Quiet

(* Bug: the digest is set up even when none is named.                      *)
DigestInitUnnamed(c, op, priv, m) ==
  /\ Live(c) /\ ctx[c].api = "new"
  /\ op \in IF c \in New34 THEN {"signmsg", "verifymsg"} ELSE {"sign", "verify"}
  /\ Becomes(c, IF InitFails(op, priv) THEN Null
                ELSE [Started(ctx[c], "digest", op, priv) EXCEPT
                        !.md = m, !.hash = m, !.mdctx = [alg |-> m, data |-> <<>>]])
  /\ Quiet

(* oqs_sig_digest_sign_init, oqs_sig_digest_verify_init with their setup   *)
(* of the digest; m = Null is an init without a digest name.               *)
DigestInit(c, op, priv, m) ==
  /\ Live(c) /\ ctx[c].api = "new"
  /\ op \in IF c \in New34 THEN {"signmsg", "verifymsg"} ELSE {"sign", "verify"}
  /\ Becomes(c, IF InitFails(op, priv) THEN Null
                ELSE LET x == Started(ctx[c], "digest", op, priv) IN
                     IF m = Null THEN x
                     ELSE [x EXCEPT !.md = m, !.hash = m,
                             !.mdctx = [alg |-> m, data |-> <<>>]])
  /\ Quiet

(* Bug: the flag stays set.                                                *)
DigestUpdateUnflagged(c, d) ==
  /\ Live(c) /\ ctx[c].api = "digest" /\ Fits(ctx[c], d)
  /\ LET x == ctx[c] IN
     Becomes(c, IF x.mdctx # Null
                THEN [x EXCEPT !.mdctx.data = @ \o d, !.fed = @ \o d]
                ELSE IF CanCollect(x, d) THEN Collect(x, d) ELSE x)
  /\ Quiet

(* oqs_sig_digest_signverify_update clears the flag before anything else.  *)
DigestUpdate(c, d) ==
  /\ Live(c) /\ ctx[c].api = "digest" /\ Fits(ctx[c], d)
  /\ LET x == [ctx[c] EXCEPT !.allow = FALSE] IN
     Becomes(c, IF x.mdctx # Null
                THEN [x EXCEPT !.mdctx.data = @ \o d, !.fed = @ \o d]
                ELSE IF CanCollect(x, d) THEN Collect(x, d) ELSE x)
  /\ Quiet

MessageUpdate(c, d) ==
  /\ Live(c) /\ ctx[c].api = "message" /\ Fits(ctx[c], d) /\ CanCollect(ctx[c], d)
  /\ Becomes(c, Collect(ctx[c], d))
  /\ Quiet

(* A final or one-shot sign call without an output buffer: only the digest *)
(* final touches the context.                                              *)
SizeQuery(c) ==
  /\ Live(c) /\ Signing(ctx[c])
  /\ Becomes(c, IF ctx[c].api = "digest"
                THEN [ctx[c] EXCEPT !.allow = TRUE, !.queried = TRUE] ELSE ctx[c])
  /\ Quiet

(* The data in the hash, or those collected, are signed or verified.       *)
Final(x) == IF x.mdctx # Null THEN Hashed(x) ELSE Collected(x)

(* oqs_sig_digest_sign_final with an output buffer, and                    *)
(* oqs_sig_digest_verify_final.  The hash is closed and flag_allow_md set  *)
(* whether or not the call then succeeds, which nobody sees any more.      *)
DigestSignFinal(c, big) ==
  LET x == ctx[c] IN
  /\ Live(c) /\ x.api = "digest" /\ Signing(x)
  /\ Becomes(c, Spent)
  /\ SignDirectly(x, Final(x), ClaimOf(x, x.hash, x.fed), big)

DigestVerifyFinal(c, s) ==
  LET x == ctx[c] IN
  /\ Live(c) /\ x.api = "digest" /\ ~Signing(x)
  /\ Becomes(c, Spent)
  /\ VerifyDirectly(x, s, Final(x), ClaimOf(x, x.hash, x.fed))

(* oqs_sig_sign_message_final and oqs_sig_verify_message_final.            *)
MessageSignFinal(c, big) ==
  /\ Live(c) /\ ctx[c].api = "message" /\ Signing(ctx[c])
  /\ Stays(c)
  /\ SignDirectly(ctx[c], Collected(ctx[c]), ClaimOf(ctx[c], Null, ctx[c].fed), big)

(* Bug: the final verifies the empty message.                              *)
MessageVerifyFinalEmpty(c) ==
  /\ Live(c) /\ ctx[c].api = "message" /\ ~Signing(ctx[c])
  /\ Stays(c)
  /\ VerifyDirectly(ctx[c], ctx[c].sig, Collected(Blank), ClaimOf(ctx[c], Null, ctx[c].fed))

MessageVerifyFinal(c) ==
  /\ Live(c) /\ ctx[c].api = "message" /\ ~Signing(ctx[c])
  /\ Stays(c)
  /\ VerifyDirectly(ctx[c], ctx[c].sig, Collected(ctx[c]), ClaimOf(ctx[c], Null, ctx[c].fed))

(* oqs_sig_sign, oqs_sig_verify: under the message operations an update    *)
(* and a final, otherwise the bytes of this call alone.                    *)
Sign(c, d, big) ==
  LET x == ctx[c]  y == Collect(x, d) IN
  /\ Live(c) /\ Signing(x) /\ Fits(x, d)
  /\ \/ /\ x.api = "pkey"
        /\ Stays(c)
        /\ SignDirectly(x, [md |-> Null, data |-> d], ClaimOf(x, Null, d), big)
     \/ /\ x.api = "message" /\ CanCollect(x, d)
        /\ Becomes(c, y)
        /\ SignDirectly(y, Collected(y), ClaimOf(y, Null, y.fed), big)

Verify(c, d, s) ==
  LET x == ctx[c]  y == Collect([x EXCEPT !.sig = s], d) IN
  /\ Live(c) /\ ~Signing(x) /\ Fits(x, d)
  /\ \/ /\ x.api = "pkey"
        /\ Stays(c)
        /\ VerifyDirectly(x, s, [md |-> Null, data |-> d], ClaimOf(x, Null, d))
     \/ /\ x.api = "message"
        /\ IF CanCollect(x, d)
           THEN Becomes(c, y) /\ VerifyDirectly(y, s, Collected(y), ClaimOf(y, Null, y.fed))
           ELSE Becomes(c, [x EXCEPT !.sig = s]) /\ Quiet

-----------------------------------------------------------------------------
(* oqs_sig_set_ctx_params.  A new digest replaces the running hash, which  *)
(* is not started again: later data are collected as they are.             *)
SetDigest(c, m) ==
  LET x == ctx[c] IN
  /\ Live(c) /\ x.api \notin {"new", "done"} /\ x.allow
  /\ Becomes(c, [x EXCEPT !.md = m, !.mdctx = Null, !.hash = Null,
                          !.late = @ \/ (x.fed # <<>> /\ x.mdctx # Null /\ x.api = "digest")])
  /\ Quiet

(* A second context string does not fit the buffer of the first, whose     *)
(* size the code gives as 0: the call fails and switches the first one off *)
(* with its length, although the application had it accepted.              *)
SetCtxStr(c, s) ==
  /\ Live(c) /\ ctx[c].api \notin {"new", "done"}
  /\ Becomes(c, IF ctx[c].cptr THEN [ctx[c] EXCEPT !.cstr = Null, !.refused = TRUE]
                ELSE [ctx[c] EXCEPT !.cptr = TRUE, !.cstr = s, !.asked = s])
  /\ Quiet

SetSignature(c, s) ==
  /\ Live(c) /\ c \in New34 /\ ctx[c].op = "verifymsg"
  /\ Becomes(c, [ctx[c] EXCEPT !.sig = s])
  /\ Quiet

-----------------------------------------------------------------------------
Setup(c) ==
  \/ NewCtx(c) \/ FreeCtx(c)
  \/ \E d \in Ctxs : DupCtx(c, d)
  \/ \E op \in {"sign", "verify", "signmsg", "verifymsg"} :
       \E priv \in IF op \in {"sign", "signmsg"} THEN BOOLEAN ELSE {FALSE} :
         \/ SignVerifyInit(c, op, priv) \/ MessageInit(c, op, priv)
         \/ \E m \in Mds \cup {Null} : DigestInit(c, op, priv, m)
  \/ \E m \in Mds : SetDigest(c, m)
  \/ \E s \in Strs : SetCtxStr(c, s)

Use(c) ==
  \/ SizeQuery(c)
  \/ MessageVerifyFinal(c)
  \/ \E d \in Pieces :
       \/ DigestUpdate(c, d) \/ MessageUpdate(c, d)
       \/ \E big \in BOOLEAN : Sign(c, d, big)
       \/ \E s \in sigs : Verify(c, d, s)
  \/ \E big \in BOOLEAN : DigestSignFinal(c, big) \/ MessageSignFinal(c, big)
  \/ \E s \in sigs : DigestVerifyFinal(c, s) \/ SetSignature(c, s)

Next == \E c \in Ctxs : Setup(c) \/ Use(c)

Spec == Init /\ [][Next]_vars

-----------------------------------------------------------------------------
(* Every field of a PROV_OQSSIG_CTX and of a stored signature has a value  *)
(* that its C type and the code give it.                                   *)
TypeOK ==
  /\ ctx \in [Ctxs -> Context \cup {Null}]
  /\ sigs \subseteq Sig
  /\ verdict \in [ok : BOOLEAN, data : BOOLEAN, str : BOOLEAN, late : BOOLEAN, refused : BOOLEAN]

(* Every signature covers exactly the data the application fed, in order   *)
(* and under the digest it chose at init (as they are when a digest was    *)
(* set by parameter), whichever functions were used, whatever was queried, *)
(* retried or duplicated in between, unless the digest was replaced while  *)
(* data were in the hash.  It is made under the context string that        *)
(* oqs_sig_set_ctx_params accepted last; where that function has refused a *)
(* string since, under none at all, never under the one refused.           *)
SignatureCoversFed ==
  \A s \in sigs : ~s.claim.late =>
    /\ s.tbs = [md |-> s.claim.md, data |-> s.claim.data]
    /\ s.cstr = IF s.claim.refused THEN Null ELSE s.claim.cstr

(* A verification succeeds exactly when signer and verifier fed the same   *)
(* data under the same digest and had the same context string accepted:    *)
(* across one-shot and streaming calls, duplicated contexts and OpenSSL    *)
(* builds.  Where a string was refused on either side the strings need not *)
(* decide as the two sides believe, but no other data ever pass.           *)
VerifyAgrees ==
  ~verdict.late =>
    /\ verdict.ok => verdict.data
    /\ ~verdict.refused => verdict.ok = (verdict.data /\ verdict.str)

(* The two length and key checks of oqs_sig_sign_directly stand in for the *)
(* check that init skips for the message operations.                       *)
OnlyPrivateKeysSign == \A s \in sigs : s.claim.priv

(* flag_allow_md does protect data in the hash from a change of digest, as *)
(* long as nobody asks for the signature's size in the middle.             *)
LateOnlyAfterQuery == \A c \in Ctxs : Live(c) /\ ctx[c].late => ctx[c].queried

(* "disallow MD changes after update has been called at least once", the   *)
(* comment in oqs_sig_digest_signverify_update: while data are in a hash,  *)
(* a step that leaves the operation open keeps its digest.                 *)
MdFixedAfterUpdate ==
  [][\A c \in Ctxs :
       Live(c) /\ ctx'[c] # Null /\ ctx[c].api = "digest" /\ ctx'[c].api = "digest"
       /\ ctx[c].mdctx # Null /\ ctx[c].fed # <<>> => ctx'[c].md = ctx[c].md]_vars
=============================================================================
