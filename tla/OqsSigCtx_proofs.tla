--------------------------- MODULE OqsSigCtx_proofs ---------------------------
(***************************************************************************)
(* What a signature covers and when a verification succeeds, for every     *)
(* number of contexts and signatures, every length of the data, whichever  *)
(* of the contexts belong to a build for OpenSSL 3.4.                      *)
(***************************************************************************)
EXTENDS OqsSigCtx, SequenceTheorems, TLAPS

(* The string in force: the accepted one until another is refused.         *)
InForce(refused, asked) == IF refused THEN Null ELSE asked

(* The bytes of a signature are those asked for, its string is in force.   *)
Faithful(s) ==
  ~s.claim.late =>
    /\ s.tbs = [md |-> s.claim.md, data |-> s.claim.data]
    /\ s.cstr = InForce(s.claim.refused, s.claim.cstr)

(* A running hash holds what was fed, under the digest chosen at init, and *)
(* nothing is collected beside it; only the digest functions have one.     *)
HashHoldsFed(x) ==
  x.mdctx # Null =>
    /\ x.api = "digest" /\ x.mddata = Null
    /\ x.mdctx.data = x.fed /\ x.mdctx.alg = x.hash

(* Without a hash what was fed is collected, unless a hash was dropped     *)
(* with data in it; the buffer is then shorter than what was fed.          *)
BufferHoldsFed(x) ==
  x.mdctx = Null /\ x.api # "done" =>
    IF x.late THEN Len(Gathered(x)) <= Len(x.fed)
    ELSE x.hash = Null /\ Gathered(x) = x.fed

FreshIsEmpty(x) ==
  x.api = "new" => x.fed = <<>> /\ x.mdctx = Null /\ x.mddata = Null /\ x.hash = Null

(* The flag is set again in the middle of the data by a size query only.   *)
FlagNeedsQuery(x) ==
  /\ x.late => x.mdctx = Null /\ x.api = "digest" /\ x.queried
  /\ x.api = "digest" /\ x.allow /\ x.fed # <<>> /\ x.mdctx # Null => x.queried

Sound(x) ==
  /\ HashHoldsFed(x) /\ BufferHoldsFed(x) /\ FreshIsEmpty(x) /\ FlagNeedsQuery(x)
  /\ x.cstr = InForce(x.refused, x.asked)
  /\ x.refused => x.cptr
  /\ x.sig # Null => Faithful(x.sig)

Good(x) == x \in Context /\ Sound(x)

Verdict == [ok : BOOLEAN, data : BOOLEAN, str : BOOLEAN, late : BOOLEAN, refused : BOOLEAN]

CtxsGood == ctx \in [Ctxs -> Context \cup {Null}] /\ \A c \in Ctxs : Live(c) => Sound(ctx[c])
SigsGood ==
  /\ sigs \subseteq Sig /\ verdict \in Verdict
  /\ SignatureCoversFed /\ VerifyAgrees /\ OnlyPrivateKeysSign
IInv == CtxsGood /\ SigsGood

-----------------------------------------------------------------------------
(* Data within the bound.                                                  *)
LEMMA DataIsSeq == \A d : d \in Data <=> d \in Seq(Chunks) /\ Len(d) <= MaxData
<1> SUFFICES ASSUME NEW d PROVE d \in Data <=> d \in Seq(Chunks) /\ Len(d) <= MaxData
  OBVIOUS
<1>1. ASSUME d \in Data PROVE d \in Seq(Chunks) /\ Len(d) <= MaxData
  <2>1. PICK n \in 0..MaxData : d \in [1..n -> Chunks]
    BY <1>1 DEF Data
  <2> QED BY <2>1, SigCtxAssumption
<1>2. ASSUME d \in Seq(Chunks), Len(d) <= MaxData PROVE d \in Data
  <2>1. Len(d) \in 0..MaxData /\ d \in [1..Len(d) -> Chunks]
    BY <1>2, SigCtxAssumption
  <2> QED BY <2>1 DEF Data
<1> QED BY <1>1, <1>2

(* No data at all are data.                                                *)
LEMMA EmptyIsData == <<>> \in Data
<1>1. <<>> \in Seq(Chunks) /\ Len(<<>>) = 0
  BY EmptySeq
<1>2. Len(<<>>) <= MaxData
  BY <1>1, SigCtxAssumption
<1> QED BY <1>1, <1>2, DataIsSeq, Zenon

(* What one update passes in is a sequence of chunks.                      *)
LEMMA PieceIsSeq == \A d \in Pieces : d \in Seq(Chunks)
<1> SUFFICES ASSUME NEW d \in Pieces PROVE d \in Seq(Chunks)
  OBVIOUS
<1>1. CASE d = <<>>
  BY <1>1, EmptySeq
<1>2. CASE \E k \in Chunks : d = <<k>>
  BY <1>2
<1> QED BY <1>1, <1>2 DEF Pieces

(* What an update appends stays within the bound, and so does a shorter    *)
(* buffer to which the same is appended.                                   *)
LEMMA FitsGrows ==
  ASSUME NEW x \in Context, NEW d \in Pieces, Fits(x, d), NEW b \in Data, Len(b) <= Len(x.fed)
  PROVE  /\ x.fed \o d \in Data /\ b \o d \in Data /\ d \in Data
         /\ Len(b \o d) <= Len(x.fed \o d)
<1>1. x.fed \in Seq(Chunks) /\ b \in Seq(Chunks) /\ d \in Seq(Chunks)
  BY DataIsSeq, PieceIsSeq DEF Context
<1>2. Len(x.fed \o d) = Len(x.fed) + Len(d) /\ Len(b \o d) = Len(b) + Len(d)
  BY <1>1
<1>3. Len(x.fed) \in Nat /\ Len(b) \in Nat /\ Len(d) \in Nat
  BY <1>1, LenProperties
<1>4. x.fed \o d \in Seq(Chunks) /\ b \o d \in Seq(Chunks)
  BY <1>1, ConcatProperties
<1>5. /\ Len(x.fed \o d) <= MaxData /\ Len(b \o d) <= MaxData /\ Len(d) <= MaxData
      /\ Len(b \o d) <= Len(x.fed \o d)
  BY <1>2, <1>3, SigCtxAssumption DEF Fits
<1> QED BY <1>1, <1>4, <1>5, DataIsSeq, Zenon

-----------------------------------------------------------------------------
(* What the operations make of a good context.                             *)
LEMMA GoodBlank == Good(Blank) /\ Good(Spent)
<1> USE EmptyIsData, SigCtxAssumption
    DEF Blank, Good, Context, Sound, InForce, HashHoldsFed, BufferHoldsFed, FreshIsEmpty,
        FlagNeedsQuery, Gathered
<1>1. Good(Blank)
  OBVIOUS
<1>2. Good(Spent)
  BY DEF Spent
<1> QED BY <1>1, <1>2

(* An init without a digest leaves a good context.                         *)
LEMMA GoodStarted ==
  ASSUME NEW x, Good(x), x.api = "new", NEW api \in {"pkey", "message", "digest"},
         NEW op \in {"sign", "verify", "signmsg", "verifymsg"}, NEW priv \in BOOLEAN
  PROVE  Good(Started(x, api, op, priv))
<1> USE DEF Good, Started
<1>1. Started(x, api, op, priv) \in Context
  BY ZenonT(60) DEF Context
<1>2. Sound(Started(x, api, op, priv))
  BY SigCtxAssumption
     DEF Context, Sound, HashHoldsFed, BufferHoldsFed, FreshIsEmpty, FlagNeedsQuery, Gathered
<1> QED BY <1>1, <1>2

(* So does an init that opens a hash.                                      *)
LEMMA GoodHashStarted ==
  ASSUME NEW x, Good(x), x.api = "new", NEW m \in Mds,
         NEW op \in {"sign", "verify", "signmsg", "verifymsg"}, NEW priv \in BOOLEAN
  PROVE  Good([Started(x, "digest", op, priv) EXCEPT
                 !.md = m, !.hash = m, !.mdctx = [alg |-> m, data |-> <<>>]])
<1> DEFINE h == [alg |-> m, data |-> <<>>]
           y == Started(x, "digest", op, priv)
           z == [y EXCEPT !.md = m, !.hash = m, !.mdctx = h]
<1>1. h \in Hash /\ h.data = <<>> /\ h.alg = m
  BY EmptyIsData DEF Hash
<1>2. h # Null
  BY <1>1, SigCtxAssumption
<1>3. Good(y)
  BY GoodStarted
<1>4. y.fed = <<>> /\ y.mddata = Null /\ y.api = "digest" /\ ~y.late
  BY DEF Good, Started, Sound, FreshIsEmpty, FlagNeedsQuery, Context
<1> HIDE DEF h, y
<1>5. z \in Context
  <2>1. \A w \in Context, g \in Hash : [w EXCEPT !.md = m, !.hash = m, !.mdctx = g] \in Context
    BY ZenonT(60) DEF Context
  <2> QED BY <1>1, <1>3, <2>1 DEF Good
<1>6. Sound(z)
  BY <1>1, <1>2, <1>3, <1>4, SigCtxAssumption
     DEF Good, Context, Sound, HashHoldsFed, BufferHoldsFed, FreshIsEmpty, FlagNeedsQuery
<1> QED BY <1>5, <1>6 DEF Good, h, y

(* Collecting data keeps a context good.                                   *)
LEMMA GoodCollect ==
  ASSUME NEW x, Good(x), x.api \in {"digest", "message"}, x.mdctx = Null,
         NEW d \in Pieces, Fits(x, d)
  PROVE  Good(Collect(x, d))
<1> DEFINE b == Gathered(x) \o d
           f == x.fed \o d
           z == [x EXCEPT !.mddata = b, !.fed = f]
<1>1. Gathered(x) \in Data /\ Len(Gathered(x)) <= Len(x.fed)
  BY EmptyIsData DEF Good, Sound, BufferHoldsFed, Gathered, Context
<1>2. b \in Data /\ f \in Data /\ Len(b) <= Len(f) /\ b # Null
  BY <1>1, FitsGrows, SigCtxAssumption DEF Good
<1>3. ~x.late => x.hash = Null /\ b = f
  BY DEF Good, Sound, BufferHoldsFed
<1>4. z = Collect(x, d)
  BY DEF Collect, Good, Context
<1> HIDE DEF b, f
<1>5. z \in Context
  BY <1>2, ZenonT(60) DEF Context, Good
<1>6. Sound(z)
  BY <1>2, <1>3
     DEF Good, Context, Sound, HashHoldsFed, BufferHoldsFed, FreshIsEmpty, FlagNeedsQuery, Gathered
<1> QED BY <1>4, <1>5, <1>6 DEF Good

(* An update of a running hash.                                            *)
LEMMA GoodHashed ==
  ASSUME NEW x, Good(x), x.api = "digest", x.mdctx # Null, ~x.allow,
         NEW d \in Pieces, Fits(x, d)
  PROVE  Good([x EXCEPT !.mdctx.data = @ \o d, !.fed = @ \o d])
<1> DEFINE f == x.fed \o d
           h == [x.mdctx EXCEPT !.data = f]
           z == [x EXCEPT !.mdctx = h, !.fed = f]
<1>1. x \in Context /\ x.mdctx \in Hash /\ x.mdctx.data = x.fed /\ x.mddata = Null
      /\ x.mdctx.alg = x.hash /\ ~x.late
  BY DEF Good, Sound, HashHoldsFed, FlagNeedsQuery, Context
<1>2. f \in Data
  BY <1>1, FitsGrows, EmptyIsData DEF Context
<1>3. z = [x EXCEPT !.mdctx.data = @ \o d, !.fed = @ \o d]
  BY <1>1 DEF Context
<1> HIDE DEF f
<1>4. h \in Hash /\ h # Null /\ h.data = f /\ h.alg = x.hash
  BY <1>1, <1>2, SigCtxAssumption DEF Hash
<1> HIDE DEF h
<1>5. z \in Context
  <2>1. \A w \in Context, g \in Hash, e \in Data : [w EXCEPT !.mdctx = g, !.fed = e] \in Context
    BY ZenonT(60) DEF Context
  <2> QED BY <1>1, <1>2, <1>4, <2>1
<1>6. Sound(z)
  BY <1>1, <1>4 DEF Good, Context, Sound, HashHoldsFed, BufferHoldsFed, FreshIsEmpty, FlagNeedsQuery
<1> QED BY <1>3, <1>5, <1>6 DEF Good

(* The changes that leave the data alone.                                  *)
LEMMA GoodFlags ==
  ASSUME NEW x, Good(x)
  PROVE  /\ Good([x EXCEPT !.allow = FALSE])
         /\ x.api = "digest" => Good([x EXCEPT !.allow = TRUE, !.queried = TRUE])
<1> USE DEF Good, Sound, HashHoldsFed, BufferHoldsFed, FreshIsEmpty, FlagNeedsQuery, Gathered
<1>1. Good([x EXCEPT !.allow = FALSE])
  <2> DEFINE y == [x EXCEPT !.allow = FALSE]
  <2>1. y \in Context
    BY DEF Context
  <2>2. Sound(y)
    BY DEF Context
  <2> QED BY <2>1, <2>2
<1>2. Good([x EXCEPT !.allow = TRUE, !.queried = TRUE])
  <2> DEFINE y == [x EXCEPT !.allow = TRUE, !.queried = TRUE]
  <2>1. y \in Context
    BY DEF Context
  <2>2. Sound(y)
    BY DEF Context
  <2> QED BY <2>1, <2>2
<1> HIDE DEF Good
<1> QED BY <1>1, <1>2

(* So does setting a digest, where that is allowed.                        *)
LEMMA GoodSetDigest ==
  ASSUME NEW x, Good(x), x.api \notin {"new", "done"}, x.allow, NEW m \in Mds
  PROVE  Good([x EXCEPT !.md = m, !.mdctx = Null, !.hash = Null,
                 !.late = @ \/ (x.fed # <<>> /\ x.mdctx # Null /\ x.api = "digest")])
<1> DEFINE z == [x EXCEPT !.md = m, !.mdctx = Null, !.hash = Null,
                   !.late = @ \/ (x.fed # <<>> /\ x.mdctx # Null /\ x.api = "digest")]
<1>1. z \in Context
  <2>1. \A w \in Context, l \in BOOLEAN :
          [w EXCEPT !.md = m, !.mdctx = Null, !.hash = Null, !.late = l] \in Context
    BY ZenonT(60) DEF Context
  <2>2. (x.late \/ (x.fed # <<>> /\ x.mdctx # Null /\ x.api = "digest")) \in BOOLEAN
    OBVIOUS
  <2> QED BY <2>1, <2>2 DEF Good
<1>2. Len(<<>>) = 0 /\ Len(x.fed) \in Nat
  BY EmptySeq, DataIsSeq, LenProperties DEF Good, Context
<1>3. x.mdctx # Null => x.api = "digest" /\ Gathered(x) = <<>>
  BY DEF Good, Sound, HashHoldsFed, Gathered, Context
<1>4. Gathered(z) = Gathered(x) /\ z.fed = x.fed /\ z.api = x.api
  BY DEF Gathered, Good, Context
<1>5. BufferHoldsFed(z)
  BY <1>2, <1>3, <1>4 DEF Good, Context, Sound, BufferHoldsFed
<1>6. HashHoldsFed(z) /\ FreshIsEmpty(z) /\ FlagNeedsQuery(z)
  BY DEF Good, Context, Sound, HashHoldsFed, FreshIsEmpty, FlagNeedsQuery
<1> QED BY <1>1, <1>5, <1>6 DEF Good, Sound, Context

(* So does setting a context string, and having one refused.              *)
LEMMA GoodSetCtxStr ==
  ASSUME NEW x, Good(x), NEW s \in Strs
  PROVE  /\ x.cptr => Good([x EXCEPT !.cstr = Null, !.refused = TRUE])
         /\ ~x.refused => Good([x EXCEPT !.cptr = TRUE, !.cstr = s, !.asked = s])
<1> USE DEF Good, Sound, InForce, HashHoldsFed, BufferHoldsFed, FreshIsEmpty, FlagNeedsQuery, Gathered
<1>1. ASSUME x.cptr PROVE Good([x EXCEPT !.cstr = Null, !.refused = TRUE])
  <2> DEFINE y == [x EXCEPT !.cstr = Null, !.refused = TRUE]
  <2>1. y \in Context
    BY DEF Context
  <2>2. Sound(y)
    BY <1>1 DEF Context
  <2> QED BY <2>1, <2>2
<1>2. ASSUME ~x.refused PROVE Good([x EXCEPT !.cptr = TRUE, !.cstr = s, !.asked = s])
  <2> DEFINE y == [x EXCEPT !.cptr = TRUE, !.cstr = s, !.asked = s]
  <2>1. y \in Context
    BY DEF Context
  <2>2. Sound(y)
    BY <1>2 DEF Context
  <2> QED BY <2>1, <2>2
<1> QED BY <1>1, <1>2

(* So does storing a signature to verify.                                  *)
LEMMA GoodSetSignature ==
  ASSUME NEW x, Good(x), NEW s \in Sig, Faithful(s)
  PROVE  Good([x EXCEPT !.sig = s])
BY DEF Good, Context, Sound, HashHoldsFed, BufferHoldsFed, FreshIsEmpty, FlagNeedsQuery, Gathered

-----------------------------------------------------------------------------
(* One context changes, or none.                                           *)
LEMMA OneContext ==
  ASSUME CtxsGood, NEW c \in Ctxs, NEW y, Becomes(c, y), y = Null \/ Good(y)
  PROVE  CtxsGood'
BY DEF CtxsGood, Becomes, Good, Live

(* Every context in use is good.                                           *)
LEMMA LiveIsGood == ASSUME CtxsGood, NEW c \in Ctxs, Live(c) PROVE Good(ctx[c])
BY DEF CtxsGood, Live, Good

(* No context changes.                                                     *)
LEMMA ContextStays ==
  ASSUME CtxsGood, NEW c \in Ctxs, Stays(c)
  PROVE  CtxsGood'
BY DEF CtxsGood, Stays, Becomes, Live

(* Steps without a signature.                                              *)
LEMMA QuietSigs == ASSUME SigsGood, Quiet PROVE SigsGood'
BY DEF SigsGood, Quiet, NoVerdict, Verdict, SignatureCoversFed, VerifyAgrees, OnlyPrivateKeysSign

(* What is signed is what the claim says, unless a hash was dropped.       *)
Covers(t, claim) == ~claim.late => t = [md |-> claim.md, data |-> claim.data]

(* What a good context signs covers what was asked of it.                  *)
LEMMA SignedIsCovered ==
  ASSUME SigsGood, NEW x \in Context, NEW t \in Tbs, NEW claim \in Claim, NEW big,
         SignDirectly(x, t, claim, big), Covers(t, claim),
         x.cstr = InForce(claim.refused, claim.cstr), claim.priv = x.priv
  PROVE  SigsGood'
<1> DEFINE s == [tbs |-> t, cstr |-> x.cstr, claim |-> claim]
<1>1. sigs' = sigs \/ (x.priv /\ sigs' = sigs \cup {s})
  BY DEF SignDirectly
<1>2. s \in Sig /\ Faithful(s) /\ (x.priv => s.claim.priv)
  BY DEF Sig, Context, Covers, Faithful
<1>3. SignatureCoversFed <=> \A r \in sigs : Faithful(r)
  BY DEF SignatureCoversFed, Faithful, InForce
<1>4. SignatureCoversFed' <=> \A r \in sigs' : Faithful(r)
  BY DEF SignatureCoversFed, Faithful, InForce
<1> HIDE DEF s
<1>5. sigs' \subseteq Sig /\ SignatureCoversFed' /\ OnlyPrivateKeysSign'
  BY <1>1, <1>2, <1>3, <1>4 DEF SigsGood, OnlyPrivateKeysSign
<1>6. verdict' = NoVerdict
  BY DEF SignDirectly
<1>7. verdict' \in Verdict /\ VerifyAgrees'
  BY <1>6 DEF VerifyAgrees, NoVerdict, Verdict
<1> QED BY <1>5, <1>7 DEF SigsGood

(* A verification compares what was signed with what is verified, which    *)
(* both are what was fed.                                                  *)
LEMMA VerifiedIsDue ==
  ASSUME SigsGood, NEW x \in Context, NEW s, s \in Sig \cup {Null}, s # Null => Faithful(s),
         NEW t \in Tbs, NEW claim \in Claim, VerifyDirectly(x, s, t, claim),
         Covers(t, claim), x.cstr = InForce(claim.refused, claim.cstr)
  PROVE  SigsGood'
<1> DEFINE ok == s # Null /\ s.tbs = t /\ s.cstr = x.cstr
<1>1. sigs' = sigs /\ verdict' = Due(ok, s, claim) /\ ok \in BOOLEAN
  BY DEF VerifyDirectly
<1>2. PICK v : v = Due(ok, s, claim)
  OBVIOUS
<1>3. ASSUME ~v.late PROVE (v.ok => v.data) /\ (~v.refused => v.ok = (v.data /\ v.str))
  <2>1. CASE s = Null
    BY <1>2, <2>1 DEF Due
  <2>2. CASE s # Null
    <3>1. /\ v.ok = (s.tbs = t /\ s.cstr = x.cstr)
          /\ v.data = (s.claim.md = claim.md /\ s.claim.data = claim.data)
          /\ v.str = (s.claim.cstr = claim.cstr)
          /\ ~claim.late /\ ~s.claim.late
          /\ v.refused = (claim.refused \/ s.claim.refused)
      BY <1>2, <1>3, <2>2 DEF Due
    <3>2. s.tbs = [md |-> s.claim.md, data |-> s.claim.data]
          /\ s.cstr = InForce(s.claim.refused, s.claim.cstr)
      BY <2>2, <3>1 DEF Faithful
    <3>3. t = [md |-> claim.md, data |-> claim.data]
      BY <3>1 DEF Covers
    <3>4. (s.tbs = t) <=> s.claim.md = claim.md /\ s.claim.data = claim.data
      BY <3>2, <3>3
    <3> QED BY <3>1, <3>2, <3>4 DEF InForce
  <2> QED BY <2>1, <2>2
<1>4. v \in Verdict
  <2>1. (claim.late \/ (s # Null /\ s.claim.late)) \in BOOLEAN
        /\ (claim.refused \/ (s # Null /\ s.claim.refused)) \in BOOLEAN
    BY DEF Claim, Sig
  <2> QED BY <1>1, <1>2, <2>1 DEF Due, Verdict
<1>5. verdict' \in Verdict /\ VerifyAgrees'
  BY <1>1, <1>2, <1>3, <1>4 DEF VerifyAgrees
<1> QED BY <1>1, <1>5 DEF SigsGood, SignatureCoversFed, OnlyPrivateKeysSign

(* What the finals sign or verify.                                         *)
LEMMA ClaimsOf ==
  ASSUME NEW x, Good(x), NEW m \in Mds \cup {Null}, NEW d \in Data
  PROVE  /\ ClaimOf(x, m, d) \in Claim
         /\ x.cstr = InForce(ClaimOf(x, m, d).refused, ClaimOf(x, m, d).cstr)
         /\ ClaimOf(x, m, d).priv = x.priv /\ ClaimOf(x, m, d).late = x.late
         /\ ClaimOf(x, m, d).md = m /\ ClaimOf(x, m, d).data = d
BY DEF ClaimOf, Claim, Good, Sound, Context

(* The collected data are the data fed.                                    *)
LEMMA CollectedIsFed ==
  ASSUME NEW x, Good(x), x.mdctx = Null, x.api # "done"
  PROVE  /\ Collected(x) \in Tbs /\ x.hash \in Mds \cup {Null} /\ x.fed \in Data
         /\ Covers(Collected(x), ClaimOf(x, x.hash, x.fed))
         /\ Covers(Collected(x), ClaimOf(x, Null, x.fed))
<1>1. Gathered(x) \in Data /\ x.hash \in Mds \cup {Null} /\ x.fed \in Data
  BY EmptyIsData DEF Gathered, Good, Context
<1>2. ~x.late => x.hash = Null /\ Gathered(x) = x.fed
  BY DEF Good, Sound, BufferHoldsFed
<1> QED BY <1>1, <1>2 DEF Collected, Tbs, Covers, ClaimOf

(* The hash is over the data fed, under the digest asked for.              *)
LEMMA HashedIsFed ==
  ASSUME NEW x, Good(x), x.mdctx # Null
  PROVE  /\ Hashed(x) \in Tbs /\ x.hash \in Mds \cup {Null} /\ x.fed \in Data
         /\ Covers(Hashed(x), ClaimOf(x, x.hash, x.fed))
<1>1. x.mdctx \in Hash /\ x.mdctx.alg = x.hash /\ x.mdctx.data = x.fed
      /\ x.hash \in Mds \cup {Null} /\ x.fed \in Data
  BY DEF Good, Sound, HashHoldsFed, Context
<1> QED BY <1>1 DEF Hashed, Tbs, Covers, ClaimOf, Hash

(* So a final of the digest functions covers the data fed.                 *)
LEMMA FinalIsFed ==
  ASSUME NEW x, Good(x), x.api = "digest"
  PROVE  /\ Final(x) \in Tbs /\ x.hash \in Mds \cup {Null} /\ x.fed \in Data
         /\ Covers(Final(x), ClaimOf(x, x.hash, x.fed))
<1>1. CASE x.mdctx = Null
  BY <1>1, CollectedIsFed DEF Final
<1>2. CASE x.mdctx # Null
  BY <1>2, HashedIsFed DEF Final
<1> QED BY <1>1, <1>2

-----------------------------------------------------------------------------
(* The actions.                                                            *)
LEMMA SetupKeeps ==
  ASSUME IInv, NEW c \in Ctxs, Setup(c)
  PROVE  IInv'
<1> USE DEF IInv
<1> DEFINE Ops == {"sign", "verify", "signmsg", "verifymsg"}
<1>1. CASE NewCtx(c)
  BY <1>1, GoodBlank, OneContext, QuietSigs DEF NewCtx
<1>2. CASE FreeCtx(c)
  BY <1>2, OneContext, QuietSigs DEF FreeCtx
<1>3. ASSUME NEW d \in Ctxs, DupCtx(c, d) PROVE IInv'
  BY <1>3, LiveIsGood, OneContext, QuietSigs DEF DupCtx
<1>4. ASSUME NEW op \in Ops, NEW priv \in BOOLEAN, SignVerifyInit(c, op, priv) PROVE IInv'
  <2>1. Good(Started(ctx[c], "pkey", op, priv))
    BY <1>4, LiveIsGood, GoodStarted DEF SignVerifyInit
  <2> QED BY <1>4, <2>1, OneContext, QuietSigs DEF SignVerifyInit
<1>5. ASSUME NEW op \in Ops, NEW priv \in BOOLEAN, MessageInit(c, op, priv) PROVE IInv'
  <2>1. Good(Started(ctx[c], "message", op, priv))
    BY <1>5, LiveIsGood, GoodStarted DEF MessageInit
  <2> QED BY <1>5, <2>1, OneContext, QuietSigs DEF MessageInit
<1>6. ASSUME NEW op \in Ops, NEW priv \in BOOLEAN, NEW m \in Mds \cup {Null},
             DigestInit(c, op, priv, m)
      PROVE  IInv'
  <2> DEFINE x == Started(ctx[c], "digest", op, priv)
             z == [x EXCEPT !.md = m, !.hash = m,
                            !.mdctx = [alg |-> m, data |-> <<>>]]
  <2>1. Good(x)
    BY <1>6, LiveIsGood, GoodStarted DEF DigestInit
  <2>2. m # Null => Good(z)
    BY <1>6, LiveIsGood, GoodHashStarted, ZenonT(60) DEF DigestInit
  <2>3. \E y : Becomes(c, y) /\ (y = Null \/ y = x \/ (m # Null /\ y = z))
    BY <1>6 DEF DigestInit
  <2> QED BY <1>6, <2>1, <2>2, <2>3, OneContext, QuietSigs DEF DigestInit
<1>7. ASSUME NEW m \in Mds, SetDigest(c, m) PROVE IInv'
  BY <1>7, LiveIsGood, GoodSetDigest, OneContext, QuietSigs DEF SetDigest
<1>8. ASSUME NEW s \in Strs, SetCtxStr(c, s) PROVE IInv'
  <2>1. Good(ctx[c]) /\ (ctx[c].refused => ctx[c].cptr)
    BY <1>8, LiveIsGood DEF SetCtxStr, Good, Sound
  <2>2. CASE ctx[c].cptr
    BY <1>8, <2>1, <2>2, GoodSetCtxStr, OneContext, QuietSigs DEF SetCtxStr
  <2>3. CASE ~ctx[c].cptr
    BY <1>8, <2>1, <2>3, GoodSetCtxStr, OneContext, QuietSigs DEF SetCtxStr
  <2> QED BY <2>2, <2>3
<1> QED BY <1>1, <1>2, <1>3, <1>4, <1>5, <1>6, <1>7, <1>8 DEF Setup

(* Every call on an initialised context keeps the invariant.               *)
LEMMA UseKeeps ==
  ASSUME IInv, NEW c \in Ctxs, Use(c)
  PROVE  IInv'
<1> USE DEF IInv
<1> DEFINE x == ctx[c]
<1>0. Live(c) => Good(x)
  BY LiveIsGood
<1>1. CASE SizeQuery(c)
  BY <1>0, <1>1, GoodFlags, OneContext, QuietSigs DEF SizeQuery
<1>2. ASSUME NEW d \in Pieces, DigestUpdate(c, d) PROVE IInv'
  <2> DEFINE y == [x EXCEPT !.allow = FALSE]
             hashed == [y EXCEPT !.mdctx.data = @ \o d, !.fed = @ \o d]
  <2>0. Good(x) /\ Good(y) /\ x \in Context /\ x.api = "digest" /\ Fits(x, d)
    BY <1>0, <1>2, GoodFlags DEF DigestUpdate, Good
  <2>1. Good(y) /\ y.api = "digest" /\ ~y.allow /\ Fits(y, d)
    BY <2>0 DEF Fits, Context
  <2>2. y.mdctx # Null => Good(hashed)
    BY <2>1, GoodHashed
  <2>3. y.mdctx = Null => Good(Collect(y, d))
    BY <2>1, GoodCollect
  <2>4. \E z : /\ Becomes(c, z)
               /\ z = y \/ (y.mdctx # Null /\ z = hashed) \/ (y.mdctx = Null /\ z = Collect(y, d))
    BY <1>2 DEF DigestUpdate
  <2> HIDE DEF y, hashed
  <2>5. CtxsGood'
    BY <2>1, <2>2, <2>3, <2>4, OneContext
  <2> QED BY <1>2, <2>5, QuietSigs DEF DigestUpdate
<1>3. ASSUME NEW d \in Pieces, MessageUpdate(c, d) PROVE IInv'
  <2>1. Good(x) /\ x.mdctx = Null
    BY <1>0, <1>3 DEF MessageUpdate, Good, Sound, HashHoldsFed
  <2> QED BY <1>3, <2>1, GoodCollect, OneContext, QuietSigs DEF MessageUpdate
<1>4. ASSUME NEW big \in BOOLEAN, DigestSignFinal(c, big) PROVE IInv'
  <2>1. Good(x) /\ x \in Context /\ x.api = "digest"
    BY <1>0, <1>4 DEF DigestSignFinal, Good
  <2>2. CtxsGood'
    BY <1>4, GoodBlank, OneContext DEF DigestSignFinal
  <2>3. Final(x) \in Tbs /\ x.hash \in Mds \cup {Null} /\ x.fed \in Data
        /\ Covers(Final(x), ClaimOf(x, x.hash, x.fed))
    BY <2>1, FinalIsFed
  <2> QED BY <1>4, <2>1, <2>2, <2>3, ClaimsOf, SignedIsCovered DEF DigestSignFinal
<1>5. ASSUME NEW s \in sigs, DigestVerifyFinal(c, s) PROVE IInv'
  <2>1. Good(x) /\ x \in Context /\ x.api = "digest"
    BY <1>0, <1>5 DEF DigestVerifyFinal, Good
  <2>2. s \in Sig \cup {Null} /\ Faithful(s)
    BY DEF SigsGood, SignatureCoversFed, Faithful, InForce
  <2>3. CtxsGood'
    BY <1>5, GoodBlank, OneContext DEF DigestVerifyFinal
  <2>4. Final(x) \in Tbs /\ x.hash \in Mds \cup {Null} /\ x.fed \in Data
        /\ Covers(Final(x), ClaimOf(x, x.hash, x.fed))
    BY <2>1, FinalIsFed
  <2> QED BY <1>5, <2>1, <2>2, <2>3, <2>4, ClaimsOf, VerifiedIsDue DEF DigestVerifyFinal
<1>6. ASSUME NEW big \in BOOLEAN, MessageSignFinal(c, big) PROVE IInv'
  <2>1. Good(x) /\ x \in Context /\ x.api = "message" /\ x.mdctx = Null
    BY <1>0, <1>6 DEF MessageSignFinal, Good, Sound, HashHoldsFed
  <2>2. CtxsGood'
    BY <1>6, ContextStays DEF MessageSignFinal
  <2> QED BY <1>6, <2>1, <2>2, CollectedIsFed, ClaimsOf, SignedIsCovered DEF MessageSignFinal
<1>7. CASE MessageVerifyFinal(c)
  <2>1. Good(x) /\ x \in Context /\ x.api = "message" /\ x.mdctx = Null
    BY <1>0, <1>7 DEF MessageVerifyFinal, Good, Sound, HashHoldsFed
  <2>2. CtxsGood'
    BY <1>7, ContextStays DEF MessageVerifyFinal
  <2>3. x.sig \in Sig \cup {Null} /\ (x.sig # Null => Faithful(x.sig))
    BY <2>1 DEF Good, Sound, Context
  <2>4. ASSUME NEW s, s = x.sig PROVE SigsGood'
    <3> DEFINE t == Collected(x)
               claim == ClaimOf(x, Null, x.fed)
    <3>1. VerifyDirectly(x, s, t, claim)
      BY <1>7, <2>4 DEF MessageVerifyFinal
    <3>2. t \in Tbs /\ claim \in Claim /\ Covers(t, claim) /\ x.cstr = InForce(claim.refused, claim.cstr)
      BY <2>1, CollectedIsFed, ClaimsOf
    <3>3. s \in Sig \cup {Null} /\ (s # Null => Faithful(s))
      BY <2>3, <2>4
    <3> HIDE DEF t, claim
    <3> QED BY <2>1, <3>1, <3>2, <3>3, VerifiedIsDue
  <2> QED BY <2>2, <2>4
<1>8. ASSUME NEW d \in Pieces, NEW big \in BOOLEAN, Sign(c, d, big) PROVE IInv'
  <2> DEFINE y == Collect(x, d)
             t == [md |-> Null, data |-> d]
  <2>1. Good(x) /\ x \in Context /\ Fits(x, d)
    BY <1>0, <1>8 DEF Sign, Good
  <2>2. CASE /\ x.api = "pkey" /\ Stays(c) /\ SignDirectly(x, t, ClaimOf(x, Null, d), big)
    <3>1. d \in Data
      BY <2>1, FitsGrows, EmptyIsData DEF Context
    <3>2. t \in Tbs /\ Covers(t, ClaimOf(x, Null, d))
      BY <3>1 DEF Tbs, Covers, ClaimOf
    <3> QED BY <2>1, <2>2, <3>1, <3>2, ContextStays, ClaimsOf, SignedIsCovered
  <2>3. CASE /\ x.api = "message" /\ CanCollect(x, d) /\ Becomes(c, y)
             /\ SignDirectly(y, Collected(y), ClaimOf(y, Null, y.fed), big)
    <3>1. Good(y) /\ y \in Context /\ y.mdctx = Null /\ y.api = "message"
      BY <2>1, <2>3, GoodCollect, ZenonT(60) DEF Good, Sound, HashHoldsFed, Collect, Context
    <3> HIDE DEF y
    <3> QED BY <2>3, <3>1, OneContext, CollectedIsFed, ClaimsOf, SignedIsCovered
  <2> QED BY <1>8, <2>2, <2>3 DEF Sign
<1>9. ASSUME NEW d \in Pieces, NEW s \in sigs, Verify(c, d, s) PROVE IInv'
  <2> DEFINE w == [x EXCEPT !.sig = s]
             y == Collect(w, d)
             t == [md |-> Null, data |-> d]
  <2>1. Good(x) /\ x \in Context /\ Fits(x, d)
    BY <1>0, <1>9 DEF Verify, Good
  <2>2. s \in Sig /\ Faithful(s)
    BY DEF SigsGood, SignatureCoversFed, Faithful, InForce
  <2>3. CASE /\ x.api = "pkey" /\ Stays(c) /\ VerifyDirectly(x, s, t, ClaimOf(x, Null, d))
    <3>1. d \in Data
      BY <2>1, FitsGrows, EmptyIsData DEF Context
    <3>2. t \in Tbs /\ Covers(t, ClaimOf(x, Null, d))
      BY <3>1 DEF Tbs, Covers, ClaimOf
    <3> QED BY <2>1, <2>2, <2>3, <3>1, <3>2, ContextStays, ClaimsOf, VerifiedIsDue
  <2>4. Good(w)
    BY <2>1, <2>2, GoodSetSignature
  <2>5. CASE /\ x.api = "message" /\ Becomes(c, y)
             /\ VerifyDirectly(y, s, Collected(y), ClaimOf(y, Null, y.fed))
    <3>1. w.api = "message" /\ w.mdctx = Null /\ Fits(w, d)
      BY <2>1, <2>5 DEF Good, Sound, HashHoldsFed, Context, Fits
    <3>2. Good(y) /\ y \in Context /\ y.mdctx = Null /\ y.api = "message"
      BY <2>4, <3>1, GoodCollect, ZenonT(60) DEF Good, Collect, Context
    <3> HIDE DEF y
    <3> QED BY <2>2, <2>5, <3>2, OneContext, CollectedIsFed, ClaimsOf, VerifiedIsDue
  <2>6. CASE Becomes(c, w) /\ Quiet
    BY <2>4, <2>6, OneContext, QuietSigs
  <2> QED BY <1>9, <2>3, <2>5, <2>6 DEF Verify
<1>10. ASSUME NEW s \in sigs, SetSignature(c, s) PROVE IInv'
  <2>1. s \in Sig /\ Faithful(s)
    BY DEF SigsGood, SignatureCoversFed, Faithful, InForce
  <2> QED BY <1>0, <1>10, <2>1, GoodSetSignature, OneContext, QuietSigs DEF SetSignature
<1> QED BY <1>1, <1>2, <1>3, <1>4, <1>5, <1>6, <1>7, <1>8, <1>9, <1>10 DEF Use

(* The invariant is inductive.                                             *)
THEOREM Inductive == Spec => []IInv
<1>1. Init => IInv
  <2> SUFFICES ASSUME Init PROVE IInv
    OBVIOUS
  <2>1. CtxsGood
    BY DEF Init, CtxsGood, Live
  <2>2. sigs \subseteq Sig /\ SignatureCoversFed /\ OnlyPrivateKeysSign
    BY DEF Init, SignatureCoversFed, OnlyPrivateKeysSign
  <2>3. verdict \in Verdict /\ VerifyAgrees
    BY DEF Init, VerifyAgrees, NoVerdict, Verdict
  <2> QED BY <2>1, <2>2, <2>3 DEF IInv, SigsGood
<1>2. IInv /\ [Next]_vars => IInv'
  <2> SUFFICES ASSUME IInv, [Next]_vars PROVE IInv'
    OBVIOUS
  <2>1. CASE Next
    BY <2>1, SetupKeeps, UseKeeps DEF Next
  <2>2. CASE UNCHANGED vars
    BY <2>2 DEF vars, IInv, CtxsGood, SigsGood, Live, SignatureCoversFed, VerifyAgrees,
                OnlyPrivateKeysSign
  <2> QED BY <2>1, <2>2
<1> QED BY <1>1, <1>2, PTL DEF Spec

(* Contexts, signatures and verdicts keep their types; in particular no    *)
(* buffer and no hash outgrows what was fed.                               *)
THEOREM TypeCorrect == Spec => []TypeOK
<1>1. IInv => TypeOK
  BY DEF IInv, CtxsGood, SigsGood, TypeOK, Verdict
<1> QED BY <1>1, Inductive, PTL

(* oqs_sig_sign_directly signs what the application fed, under the digest  *)
(* of its init, in whatever order the calls of oqs_sig.c were made, and    *)
(* under the string accepted last, or none once a string was refused.      *)
THEOREM SignaturesCoverFed == Spec => []SignatureCoversFed
<1>1. IInv => SignatureCoversFed
  BY DEF IInv, SigsGood
<1> QED BY <1>1, Inductive, PTL

(* oqs_sig_verify_directly succeeds exactly when both sides fed the same   *)
(* data under the same digest and had the same context string accepted,    *)
(* whichever builds they come from; with a string refused on one side it   *)
(* still succeeds for the same data only.                                  *)
THEOREM VerificationAgrees == Spec => []VerifyAgrees
<1>1. IInv => VerifyAgrees
  BY DEF IInv, SigsGood
<1> QED BY <1>1, Inductive, PTL

(* Whoever dropped a hash with data in it by setting a digest had asked    *)
(* for the size of the signature before.                                   *)
THEOREM LateChangeNeedsQuery == Spec => []LateOnlyAfterQuery
<1>1. IInv => LateOnlyAfterQuery
  BY DEF IInv, CtxsGood, Sound, FlagNeedsQuery, LateOnlyAfterQuery
<1> QED BY <1>1, Inductive, PTL

(* No signature without a private half, although the message inits skip    *)
(* the check.                                                              *)
THEOREM SignersArePrivate == Spec => []OnlyPrivateKeysSign
<1>1. IInv => OnlyPrivateKeysSign
  BY DEF IInv, SigsGood
<1> QED BY <1>1, Inductive, PTL
=============================================================================
