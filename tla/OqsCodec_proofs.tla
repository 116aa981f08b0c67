---------------------------- MODULE OqsCodec_proofs ----------------------------
(***************************************************************************)
(* Theorems about OqsKeyMgmt and OqsCodec, for any number of keys,         *)
(* algorithms, names, encoder contexts and documents.                      *)
(***************************************************************************)
EXTENDS OqsCodec, TLAPS

(* A context whose application asked for a cipher, in a call that was not  *)
(* turned away, intends to encrypt.                                        *)
AskedIntends == \A e \in Encs : enc[e] # Null => (enc[e].asked = "cipher" => enc[e].intent)

(* A group name gives a key material of another kind, a decoder of another *)
(* algorithm misplaces a key: one that has the name of the algorithm it is *)
(* held under suffered neither.                                            *)
OwnNameOwnMaterial == \A s \in Slots : IsKey(s) => (key[s].name = key[s].alg => key[s].mat = key[s].alg)

DocsInv == IntentHonoured /\ OidNamesMaterial /\ SelectionHonoured

IInv == TypeOK /\ AskedIntends /\ OwnNameOwnMaterial /\ PrivateAsGenerated /\ DocsInv

-----------------------------------------------------------------------------
(* What a selection that an encoder serves says of the private bit.        *)
LEMMA ServedSelection ==
  ASSUME NEW kind \in Structures, NEW sel \in Selections,
         DoesSelection(Mask(kind), sel), sel \cap Mask(kind) # {}
  PROVE  (kind \in Private) <=> ("private" \in sel)
BY DEF DoesSelection, Mask, Level, Private, Structures, Selections, Bits, Halves

(* NULL is none of the pairs and none of the algorithms, which are kinds   *)
(* of material.                                                            *)
LEMMA NullApart == Null \notin Pairs /\ Null \notin Algs /\ Algs \subseteq Names /\ Algs \subseteq Mats
BY KeyMgmtAssumption

(* The keys held are those of the slots in use.                            *)
LEMMA KeysOfSlots ==
  PrivateAsGenerated <=> \A s \in Slots : IsKey(s) => (key[s].priv # Null => key[s].mat = Made[key[s].alg][key[s].name])
BY DEF PrivateAsGenerated, Keys

LEMMA KeysOfSlotsNext ==
  PrivateAsGenerated' <=> \A s \in Slots : IsKey(s)' => (key'[s].priv # Null => key'[s].mat = Made[key'[s].alg][key'[s].name])
BY DEF PrivateAsGenerated, Keys, IsKey

(* Putting a key into a free slot.                                         *)
LEMMA NewKey ==
  ASSUME IInv, NEW s \in Slots, NEW k \in KeyObj, LoadKey(s, k), UNCHANGED <<enc, docs>>,
         k.name = k.alg => k.mat = k.alg,
         k.priv # Null => k.mat = Made[k.alg][k.name]
  PROVE  IInv'
<1>1. key' = [key EXCEPT ![s] = k] /\ gctx' = gctx /\ DOMAIN key = Slots
  BY DEF LoadKey, IInv, TypeOK, MgmtTypeOK
<1>2. \A t \in Slots : key'[t] = IF t = s THEN k ELSE key[t]
  BY <1>1
<1>3. MgmtTypeOK'
  BY <1>1, <1>2 DEF IInv, TypeOK, MgmtTypeOK, IsKey
<1>4. OwnNameOwnMaterial'
  BY <1>2 DEF IInv, OwnNameOwnMaterial, IsKey
<1>5. PrivateAsGenerated'
  BY <1>2, KeysOfSlots, KeysOfSlotsNext DEF IInv, IsKey
<1>6. TypeOK' /\ AskedIntends' /\ DocsInv'
  BY <1>3 DEF IInv, TypeOK, AskedIntends, DocsInv, IntentHonoured, OidNamesMaterial, SelectionHonoured
<1> QED BY <1>4, <1>5, <1>6 DEF IInv

LEMMA MgmtKeeps == ASSUME IInv, MgmtStep, UNCHANGED <<enc, docs>> PROVE IInv'
<1>1. ASSUME NEW s \in Slots, NEW p \in Pairs, Gen(s, p) PROVE IInv'
  <2>1. gctx # Null /\ Made[gctx.alg][gctx.name] # Null /\ LoadKey(s, Generated(gctx, p))
    BY <1>1 DEF Gen, LoadKey
  <2>2. gctx.alg \in Algs /\ gctx.name \in Names
    BY <2>1 DEF IInv, TypeOK, MgmtTypeOK
  <2>3. PICK a \in Algs, n \in Names : a = gctx.alg /\ n = gctx.name
    BY <2>2
  <2>4. PICK m : a = gctx.alg /\ n = gctx.name /\ m = Made[a][n]
    BY <2>3
  <2>5. Generated(gctx, p) = [alg |-> a, mat |-> m, name |-> n, pub |-> p, priv |-> p]
    BY <2>4 DEF Generated
  <2>6. PICK k : k = Generated(gctx, p)
    OBVIOUS
  <2>7. k.alg = a /\ k.mat = m /\ k.name = n
    BY <2>5, <2>6
  <2>8. m \in Mats /\ (n = a => m = a)
    BY <2>1, <2>4, KeyMgmtAssumption
  <2>9. k \in KeyObj
    BY <2>5, <2>6, <2>8 DEF KeyObj
  <2> QED BY <2>1, <2>4, <2>6, <2>7, <2>8, <2>9, NewKey
<1>2. ASSUME NEW s \in Slots, NEW a \in Algs, NEW sel \in SUBSET Halves,
             NEW pub \in Pairs \cup {Null}, NEW priv \in Pairs \cup {Null}, Import(s, a, sel, pub, priv)
      PROVE  IInv'
  <2> DEFINE k == [alg |-> a, mat |-> a, name |-> a, pub |-> pub,
                   priv |-> IF "private" \in sel THEN priv ELSE Null]
  <2>1. k \in KeyObj /\ k.alg = a /\ k.mat = a /\ k.name = a
    BY NullApart DEF KeyObj
  <2>2. LoadKey(s, k)
    BY <1>2 DEF Import, LoadKey
  <2>3. Made[a][a] = a
    BY KeyMgmtAssumption
  <2> HIDE DEF k
  <2>4. k.mat = Made[k.alg][k.name]
    BY <2>1, <2>3
  <2> QED BY <2>1, <2>2, <2>4, NewKey
<1>3. ASSUME NEW s \in Slots, FreeKey(s) PROVE IInv'
  <2>1. key' = [key EXCEPT ![s] = Null] /\ gctx' = gctx /\ DOMAIN key = Slots
    BY <1>3 DEF FreeKey, IInv, TypeOK, MgmtTypeOK
  <2>2. \A t \in Slots : key'[t] = IF t = s THEN Null ELSE key[t]
    BY <2>1
  <2>3. MgmtTypeOK' /\ OwnNameOwnMaterial'
    BY <2>1, <2>2 DEF IInv, TypeOK, MgmtTypeOK, IsKey, OwnNameOwnMaterial
  <2>4. PrivateAsGenerated'
    BY <2>2, KeysOfSlots, KeysOfSlotsNext DEF IInv, IsKey
  <2> QED BY <2>3, <2>4 DEF IInv, TypeOK, AskedIntends, DocsInv, IntentHonoured, OidNamesMaterial, SelectionHonoured
<1>4. ASSUME UNCHANGED key, gctx' = Null \/ gctx' \in [alg : Algs, name : Names] PROVE IInv'
  BY <1>4 DEF IInv, TypeOK, MgmtTypeOK, IsKey, Keys, OwnNameOwnMaterial, PrivateAsGenerated,
              AskedIntends, DocsInv, IntentHonoured, OidNamesMaterial, SelectionHonoured
<1>5. CASE \E a \in Algs : GenInit(a)
  BY <1>4, <1>5, NullApart DEF GenInit
<1>6. CASE \E n \in Names : GenSetName(n)
  <2>1. PICK n \in Names : GenSetName(n)
    BY <1>6
  <2>2. gctx \in [alg : Algs, name : Names]
    BY <2>1 DEF GenSetName, IInv, TypeOK, MgmtTypeOK
  <2>3. gctx' \in [alg : Algs, name : Names]
    BY <2>1, <2>2 DEF GenSetName
  <2> QED BY <1>4, <2>1, <2>3 DEF GenSetName
<1>7. CASE GenCleanup
  BY <1>4, <1>7 DEF GenCleanup
<1> QED BY <1>1, <1>2, <1>3, <1>5, <1>6, <1>7 DEF MgmtStep

(* The contexts of the encoders.                                           *)
LEMMA ContextKeeps ==
  ASSUME IInv, NEW e \in Encs,
         NewCtx(e) \/ FreeCtx(e) \/ SetCipherUnread(e)
           \/ \E named, fetched \in BOOLEAN : SetCipher(e, named, fetched)
  PROVE  IInv'
<1>1. PICK c : /\ enc' = [enc EXCEPT ![e] = c] /\ UNCHANGED <<key, gctx, docs>>
               /\ c = Null \/ (c \in Context /\ (c.asked = "cipher" \/ c.cipher => c.intent))
  <2>1. CASE NewCtx(e)
    <3> WITNESS Fresh
    <3> QED BY <2>1 DEF NewCtx, Context, Fresh, Wishes
  <2>2. CASE FreeCtx(e)
    BY <2>2 DEF FreeCtx
  <2>3. ASSUME NEW named \in BOOLEAN, NEW fetched \in BOOLEAN, SetCipher(e, named, fetched)
        PROVE  \E c : /\ enc' = [enc EXCEPT ![e] = c] /\ UNCHANGED <<key, gctx, docs>>
                      /\ c = Null \/ (c \in Context /\ (c.asked = "cipher" \/ c.cipher => c.intent))
    <3> WITNESS [intent |-> named, cipher |-> fetched, asked |-> Wish(named)]
    <3> QED BY <2>3 DEF SetCipher, Context, Wish, Wishes
  <2>4. CASE SetCipherUnread(e)
    <3>1. enc[e] \in Context /\ (enc[e].cipher => enc[e].intent)
      BY <2>4 DEF SetCipherUnread, IInv, TypeOK
    <3> WITNESS [enc[e] EXCEPT !.asked = "unread"]
    <3> QED BY <2>4, <3>1 DEF SetCipherUnread, Context, Wishes
  <2> QED BY <2>1, <2>2, <2>3, <2>4
<1>2. DOMAIN enc = Encs
  BY DEF IInv, TypeOK
<1>3. \A x \in Encs : enc'[x] = IF x = e THEN c ELSE enc[x]
  BY <1>1, <1>2
<1>4. AskedIntends' /\ DOMAIN enc' = Encs
      /\ \A x \in Encs : enc'[x] # Null => enc'[x] \in Context /\ (enc'[x].cipher => enc'[x].intent)
  BY <1>1, <1>2, <1>3 DEF IInv, TypeOK, AskedIntends
<1> QED BY <1>1, <1>4 DEF IInv, TypeOK, MgmtTypeOK, IsKey, Keys, OwnNameOwnMaterial, PrivateAsGenerated,
                          DocsInv, IntentHonoured, OidNamesMaterial, SelectionHonoured

(* A document whose fields are right may join the others.                  *)
DocRight(d) ==
  /\ d \in Document
  /\ d.form = "PrivateKeyInfo" => d.asked # "cipher"
  /\ d.form \in Structures => d.oid = d.mat
  /\ (d.priv # Null) <=> d.wanted

LEMMA NewDoc ==
  ASSUME IInv, NEW d, DocRight(d), docs' \subseteq docs \cup {d}, UNCHANGED <<key, gctx, enc>>
  PROVE  IInv'
<1>1. docs' \subseteq Document /\ DocsInv'
  BY DEF IInv, TypeOK, DocRight, DocsInv, IntentHonoured, OidNamesMaterial, SelectionHonoured
<1> QED BY <1>1 DEF IInv, TypeOK, MgmtTypeOK, IsKey, Keys, OwnNameOwnMaterial, PrivateAsGenerated, AskedIntends

LEMMA WrittenIsRight ==
  ASSUME IInv, NEW e \in Encs, enc[e] # Null, NEW s \in Slots, IsKey(s), NEW a \in Algs,
         NEW kind \in Structures, NEW sel \in Selections, NEW pw \in BOOLEAN,
         Writes(a, kind, key[s], enc[e], sel, pw)
  PROVE  DocRight(Written(a, kind, key[s], enc[e], sel))
<1> DEFINE k == key[s]
           c == enc[e]
           d == Written(a, kind, k, c, sel)
<1>1. k \in KeyObj /\ c \in Context /\ (c.asked = "cipher" => c.intent) /\ (k.name = k.alg => k.mat = k.alg)
  BY DEF IInv, TypeOK, MgmtTypeOK, AskedIntends, OwnNameOwnMaterial
<1>2. k.alg = a /\ k.name = a /\ (kind \in Private => k.priv # Null)
  BY DEF Writes, Accepts, ParamsFit, HalvesFor
<1>3. (kind \in Private) <=> ("private" \in sel)
  BY ServedSelection DEF Writes, Accepts
<1>4. Form(kind, c) \in Structures /\ (Form(kind, c) = "PrivateKeyInfo" => ~c.intent)
  BY DEF Form, Structures
<1>5. d \in Document
  BY <1>1, <1>4, NullApart DEF Written, Document, KeyObj, Context
<1>6. d.form = "PrivateKeyInfo" => d.asked # "cipher"
  BY <1>1, <1>4 DEF Written
<1>7. d.oid = d.mat
  BY <1>1, <1>2 DEF Written
<1>8. (d.priv # Null) <=> d.wanted
  BY <1>2, <1>3 DEF Written
<1> QED BY <1>5, <1>6, <1>7, <1>8 DEF DocRight

LEMMA PrintedIsRight ==
  ASSUME IInv, NEW s \in Slots, IsKey(s), NEW sel \in Selections, Prints(key[s], sel)
  PROVE  DocRight(Printed(key[s], sel))
<1> DEFINE d == Printed(key[s], sel)
<1>1. key[s] \in KeyObj
  BY DEF IInv, TypeOK, MgmtTypeOK
<1>2. d \in Document
  BY <1>1 DEF Printed, Document, KeyObj, Wishes
<1>3. d.form = "text" /\ d.wanted = ("private" \in sel)
      /\ d.priv = IF "private" \in sel THEN key[s].priv ELSE Null
  BY DEF Printed
<1>4. (d.priv # Null) <=> d.wanted
  BY <1>3 DEF Prints
<1> HIDE DEF d
<1>5. d.form # "PrivateKeyInfo" /\ d.form \notin Structures
  BY <1>3 DEF Structures
<1> QED BY <1>2, <1>4, <1>5 DEF DocRight, d

LEMMA DecodeKeeps ==
  ASSUME IInv, NEW d \in docs, NEW s \in Slots, NEW a \in Algs,
         NEW kind \in {"PrivateKeyInfo", "SubjectPublicKeyInfo"}, NEW sel \in Selections,
         Decode(s, a, kind, d, sel)
  PROVE  IInv'
<1>1. d \in Document /\ (d.form \in Structures => d.oid = d.mat) /\ ((d.priv # Null) <=> d.wanted)
  BY DEF IInv, TypeOK, DocsInv, OidNamesMaterial, SelectionHonoured
<1>2. d.oid = d.mat /\ (kind = "PrivateKeyInfo" => d.oid = a)
  BY <1>1 DEF Decode, Decodes, ReadsPrivate, ReadsPublic, Structures, Private
<1> DEFINE k == Decoded(a, kind, d)
<1>3. k \in KeyObj /\ k.name = k.mat /\ (k.priv # Null => k.alg = a /\ k.name = a /\ k.mat = a)
  BY <1>1, <1>2 DEF Decoded, KeyObj, Document
<1>5. Made[a][a] = a
  BY KeyMgmtAssumption
<1>4. LoadKey(s, k) /\ UNCHANGED <<enc, docs>>
  BY DEF Decode
<1> HIDE DEF k
<1>6. k.priv # Null => k.mat = Made[k.alg][k.name]
  BY <1>3, <1>5
<1> QED BY <1>3, <1>4, <1>6, NewKey

LEMMA Inductive == IInv /\ [Next]_vars => IInv'
<1> SUFFICES ASSUME IInv, [Next]_vars PROVE IInv'
  OBVIOUS
<1>1. CASE UNCHANGED vars
  BY <1>1 DEF vars, IInv, TypeOK, MgmtTypeOK, IsKey, Keys, OwnNameOwnMaterial, PrivateAsGenerated,
              AskedIntends, DocsInv, IntentHonoured, OidNamesMaterial, SelectionHonoured
<1>2. CASE MgmtStep /\ UNCHANGED <<enc, docs>>
  BY <1>2, MgmtKeeps
<1>3. ASSUME NEW e \in Encs, NewCtx(e) \/ FreeCtx(e) \/ SetCipherUnread(e)
                               \/ \E named, fetched \in BOOLEAN : SetCipher(e, named, fetched)
      PROVE  IInv'
  BY <1>3, ContextKeeps
<1>4. ASSUME NEW e \in Encs, NEW s \in Slots, NEW a \in Algs, NEW kind \in Structures,
             NEW sel \in Selections, NEW pw \in BOOLEAN, Encode(e, s, a, kind, sel, pw)
      PROVE  IInv'
  <2>1. DocRight(Written(a, kind, key[s], enc[e], sel))
    BY <1>4, WrittenIsRight DEF Encode
  <2> QED BY <1>4, <2>1, NewDoc DEF Encode
<1>5. ASSUME NEW s \in Slots, NEW sel \in Selections, EncodeText(s, sel) PROVE IInv'
  <2>1. DocRight(Printed(key[s], sel))
    BY <1>5, PrintedIsRight DEF EncodeText
  <2> QED BY <1>5, <2>1, NewDoc DEF EncodeText
<1>6. ASSUME NEW d \in docs, Discard(d) PROVE IInv'
  <2>1. DocRight(d)
    BY DEF DocRight, IInv, TypeOK, DocsInv, IntentHonoured, OidNamesMaterial, SelectionHonoured
  <2> QED BY <1>6, <2>1, NewDoc DEF Discard
<1>7. ASSUME NEW d \in docs, NEW s \in Slots, NEW a \in Algs,
             NEW kind \in {"PrivateKeyInfo", "SubjectPublicKeyInfo"}, NEW sel \in Selections,
             Decode(s, a, kind, d, sel)
      PROVE  IInv'
  BY <1>7, DecodeKeeps
<1> QED BY <1>1, <1>2, <1>3, <1>4, <1>5, <1>6, <1>7 DEF Next

LEMMA Initial == Init => IInv
BY DEF Init, MgmtInit, IInv, TypeOK, MgmtTypeOK, IsKey, Keys, OwnNameOwnMaterial, PrivateAsGenerated,
       AskedIntends, DocsInv, IntentHonoured, OidNamesMaterial, SelectionHonoured

(***************************************************************************)
(* Keys, encoder contexts and documents keep their types                   *)
(* (oqs_kmgmt.c, oqs_encode_key2any.c, oqs_decode_der2key.c).              *)
(***************************************************************************)
THEOREM TypeCorrect == Spec => []TypeOK
<1>1. IInv => TypeOK
  BY DEF IInv
<1> QED BY Initial, Inductive, <1>1, PTL DEF Spec

(***************************************************************************)
(* No private key is written in the clear by a context for which a cipher  *)
(* was asked, fetched or not, as long as the parameters that asked for it  *)
(* had the right types (oqs_encode_key2any.c:1016-1028).                   *)
(***************************************************************************)
THEOREM CipherIsHonoured == Spec => []IntentHonoured
<1>1. IInv => IntentHonoured
  BY DEF IInv, DocsInv
<1> QED BY Initial, Inductive, <1>1, PTL DEF Spec

(***************************************************************************)
(* The OID of a document is the algorithm of its material, although the    *)
(* decoders for public keys do not compare it and group names rename keys  *)
(* (oqs_encode_key2any.c:452-482).                                         *)
(***************************************************************************)
THEOREM DocumentsNameTheirKeys == Spec => []OidNamesMaterial
<1>1. IInv => OidNamesMaterial
  BY DEF IInv, DocsInv
<1> QED BY Initial, Inductive, <1>1, PTL DEF Spec

(***************************************************************************)
(* Private halves leave exactly when the caller selected them              *)
(* (oqs_encode_key2any.c:1041-1077).                                       *)
(***************************************************************************)
THEOREM PrivateOnlyIfSelected == Spec => []SelectionHonoured
<1>1. IInv => SelectionHonoured
  BY DEF IInv, DocsInv
<1> QED BY Initial, Inductive, <1>1, PTL DEF Spec

(***************************************************************************)
(* A key with a private half is one that the algorithm it is held under    *)
(* generates under its name (oqs_decode_der2key.c:174-178,                 *)
(* oqs_kmgmt.c:609-629).                                                   *)
(***************************************************************************)
THEOREM PrivateKeysAreGenuine == Spec => []PrivateAsGenerated
<1>1. IInv => PrivateAsGenerated
  BY DEF IInv
<1> QED BY Initial, Inductive, <1>1, PTL DEF Spec

(***************************************************************************)
(* Whatever keys there are, a match means a half in common                 *)
(* (oqs_kmgmt.c:148-219).                                                  *)
(***************************************************************************)
THEOREM MatchIsSound == Spec => []MatchSharesAHalf
<1>1. MatchSharesAHalf
  BY DEF MatchSharesAHalf, Match, PrivMatch, PubMatch, SamePub, SamePriv, OneSided
<1> QED BY <1>1, PTL DEF Spec

(***************************************************************************)
(* Every key that can be written reads back as the same key, its private   *)
(* half included (oqs_encode_key2any.c:1079-1113,                          *)
(* oqs_decode_der2key.c:281-396).                                          *)
(***************************************************************************)
THEOREM WrittenKeysReadBack == Spec => []RoundTrip
<1>1. ASSUME NEW k \in Keys, NEW e \in {x \in Encs : enc[x] # Null}, NEW kind \in Structures,
             NEW sel \in Selections, Writes(k.alg, kind, k, enc[e], sel, TRUE),
             NEW wish \in Selections,
             DoesSelection(Mask(IF kind \in Private THEN "PrivateKeyInfo" ELSE kind), wish)
      PROVE  Decodes(k.alg, IF kind \in Private THEN "PrivateKeyInfo" ELSE kind,
                     Written(k.alg, kind, k, enc[e], sel), wish)
  <2>1. CASE kind \in Private
    BY <1>1, <2>1 DEF DoesSelection, Mask, Level, Selections, Bits, Halves, Decodes, ReadsPrivate, Asked,
                      Written, Form, Private
  <2>2. CASE kind = "SubjectPublicKeyInfo"
    BY <1>1, <2>2 DEF DoesSelection, Mask, Level, Selections, Bits, Halves, Decodes, ReadsPublic, Asked,
                      Written, Form, Private
  <2> QED BY <2>1, <2>2 DEF Structures, Private
<1>2. ASSUME NEW k \in Keys, NEW e \in {x \in Encs : enc[x] # Null}, NEW kind \in Structures,
             NEW sel \in Selections, Writes(k.alg, kind, k, enc[e], sel, TRUE)
      PROVE  LET back == Decoded(k.alg, IF kind \in Private THEN "PrivateKeyInfo" ELSE kind,
                                 Written(k.alg, kind, k, enc[e], sel))
             IN  EvpEq(k, back) /\ (kind \in Private => SamePriv(k, back))
  <2> DEFINE back == Decoded(k.alg, IF kind \in Private THEN "PrivateKeyInfo" ELSE kind,
                             Written(k.alg, kind, k, enc[e], sel))
  <2>1. /\ k.name = k.alg /\ k.pub # Null /\ (kind \in Private => k.priv # Null)
    BY <1>2 DEF Writes, ParamsFit, HalvesFor
  <2>2. /\ back.alg = k.alg /\ back.mat = k.mat /\ back.name = k.alg /\ back.pub = k.pub
        /\ kind \in Private => back.priv = k.priv
    BY DEF Decoded, Written
  <2> HIDE DEF back
  <2>3. EvpEq(k, back)
    BY <2>1, <2>2 DEF EvpEq, Has, Match, PubMatch, OneSided, SamePub
  <2>4. kind \in Private => SamePriv(k, back)
    BY <2>1, <2>2 DEF SamePriv
  <2> QED BY <2>3, <2>4 DEF back
<1>3. RoundTrip
  BY <1>1, <1>2, ZenonT(60) DEF RoundTrip
<1> QED BY <1>3, PTL DEF Spec
=============================================================================
