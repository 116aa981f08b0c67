------------------------------- MODULE OqsCodec -------------------------------
(***************************************************************************)
(* The encoders of oqs_encode_key2any.c and the decoders of                *)
(* oqs_decode_der2key.c over the keys of OqsKeyMgmt: which selection they  *)
(* serve, when a private key is encrypted, under which OID a key is        *)
(* written, and which key comes back from a document.                      *)
(*                                                                         *)
(* DER and PEM differ by their packaging only.  The context of an encoder  *)
(* holds nothing of the algorithm or the structure it was made for, so     *)
(* that each Encode chooses them; the decoders keep no state from one call *)
(* to the next but the NID they stand for, which the provider registered   *)
(* before a decoder can be made.                                           *)
(***************************************************************************)
EXTENDS OqsKeyMgmt

CONSTANTS
  Encs,     (* contexts of encoders                                        *)
  MaxDocs   (* bound: documents that exist at one time                     *)

ASSUME CodecAssumption == MaxDocs \in Nat

VARIABLES
  enc,      (* of each context: Null or its state                          *)
  docs      (* documents written and not discarded                         *)

vars == <<key, gctx, enc, docs>>

Structures == {"PrivateKeyInfo", "EncryptedPrivateKeyInfo", "SubjectPublicKeyInfo"}
Private    == {"PrivateKeyInfo", "EncryptedPrivateKeyInfo"}

(* What the application last asked for; "unread" in a call that was turned *)
(* away for the type of a parameter.                                       *)
Wishes == {"clear", "cipher", "unread"}

(* key2any_ctx_st: cipher_intent and whether there is a cipher; a ghost    *)
(* for the wish of the application.                                        *)
Context == [intent : BOOLEAN, cipher : BOOLEAN, asked : Wishes]
Fresh   == [intent |-> FALSE, cipher |-> FALSE, asked |-> "clear"]

(* A document: its structure (or text), the name or OID it gives its key,  *)
(* the kind of the material in it and the halves it carries.  Ghosts: the  *)
(* caller selected the private key, and what it had asked for.             *)
Document == [form : Structures \cup {"text"}, oid : Names, mat : Mats, pub : Pairs \cup {Null},
             priv : Pairs \cup {Null}, wanted : BOOLEAN, asked : Wishes]

Init ==
  /\ MgmtInit
  /\ enc = [e \in Encs |-> Null] /\ docs = {}

-----------------------------------------------------------------------------
(* What the encoders and the decoders of a structure are for.              *)
(* Definitions marked "Bug:" are no part of the specification: each is the *)
(* next definition with a mistake in it, for showing which property fails. *)
Mask(kind) == IF kind \in Private THEN {"private"} ELSE {"public"}

(* Selections are levels: a key pair is the private key first of all.      *)
Level == [private |-> 1, public |-> 2, params |-> 3]

(* Bug: serving any of the halves selected is enough.                      *)
DoesSelectionAny(mask, sel) == sel # {} => sel \cap mask # {}

(* key2any_check_selection, der2key_check_selection.                       *)
DoesSelection(mask, sel) ==
  sel # {} => \E b \in sel \cap mask : \A other \in sel : Level[b] <= Level[other]

(* key2any_newctx, freectx and set_ctx_params.                             *)
NewCtx(e) ==
  /\ enc[e] = Null
  /\ enc' = [enc EXCEPT ![e] = Fresh]
  /\ UNCHANGED <<key, gctx, docs>>

FreeCtx(e) == enc[e] # Null /\ enc' = [enc EXCEPT ![e] = Null] /\ UNCHANGED <<key, gctx, docs>>

Wish(named) == IF named THEN "cipher" ELSE "clear"

(* Bug: the old cipher stays where none is named.                          *)
SetCipherKeeps(e, named, fetched) ==
  /\ enc[e] # Null
  /\ fetched => named
  /\ enc' = [enc EXCEPT ![e] = [intent |-> named, cipher |-> IF named THEN fetched ELSE @.cipher,
                               asked |-> Wish(named)]]
  /\ UNCHANGED <<key, gctx, docs>>

(* Bug: the intent is recorded once there is a cipher.                     *)
SetCipherLate(e, named, fetched) ==
  /\ enc[e] # Null
  /\ fetched => named
  /\ enc' = [enc EXCEPT ![e] = [intent |-> fetched, cipher |-> fetched, asked |-> Wish(named)]]
  /\ UNCHANGED <<key, gctx, docs>>

(* The parameters have the right types.  Where the cipher cannot be        *)
(* fetched the call fails, with the old one gone and the intent recorded.  *)
SetCipher(e, named, fetched) ==
  /\ enc[e] # Null
  /\ fetched => named
  /\ enc' = [enc EXCEPT ![e] = [intent |-> named, cipher |-> fetched, asked |-> Wish(named)]]
  /\ UNCHANGED <<key, gctx, docs>>

(* The cipher or the properties are no strings: the call fails before it   *)
(* looks at either, and the context stays as an earlier call left it.      *)
SetCipherUnread(e) ==
  /\ enc[e] # Null
  /\ enc' = [enc EXCEPT ![e].asked = "unread"]
  /\ UNCHANGED <<key, gctx, docs>>

-----------------------------------------------------------------------------
(* Writing.                                                                *)
(* key_to_pki_*: with the intent to encrypt, a PrivateKeyInfo turns into   *)
(* an EncryptedPrivateKeyInfo.                                             *)
Form(kind, c) == IF kind = "PrivateKeyInfo" /\ c.intent THEN "EncryptedPrivateKeyInfo" ELSE kind

(* key_to_epki_*, p8info_to_encp8: with the passphrase of the callback.    *)
Encrypts(c, pw) == c.intent /\ c.cipher /\ pw

(* Bug: the name of the key is not compared.                               *)
ParamsFitAny(a, k) == TRUE

(* prepare_oqsx_params: the name of the key has the NID of the encoder.    *)
ParamsFit(a, k) == k.name = a

(* oqsx_spki_pub_to_der, oqsx_pki_priv_to_der: a private key is written    *)
(* with its public half.                                                   *)
HalvesFor(kind, k) == k.pub # Null /\ (kind \in Private => k.priv # Null)

(* libcrypto asks an encoder of the key's algorithm that does the          *)
(* selection.                                                              *)
Accepts(a, kind, k, sel) ==
  /\ k.alg = a /\ DoesSelection(Mask(kind), sel)
  /\ sel \cap Mask(kind) # {}

Writes(a, kind, k, c, sel, pw) ==
  /\ Accepts(a, kind, k, sel)
  /\ ParamsFit(a, k) /\ HalvesFor(kind, k)
  /\ Form(kind, c) = "EncryptedPrivateKeyInfo" => Encrypts(c, pw)

Written(a, kind, k, c, sel) ==
  [form |-> Form(kind, c), oid |-> a, mat |-> k.mat, pub |-> k.pub,
   priv |-> IF kind \in Private THEN k.priv ELSE Null,
   wanted |-> "private" \in sel, asked |-> c.asked]

Encode(e, s, a, kind, sel, pw) ==
  /\ Cardinality(docs) < MaxDocs
  /\ enc[e] # Null /\ IsKey(s)
  /\ Writes(a, kind, key[s], enc[e], sel, pw)
  /\ docs' = docs \cup {Written(a, kind, key[s], enc[e], sel)}
  /\ UNCHANGED <<key, gctx, enc>>

(* oqsx_to_text: of a pair without a public half the private one is        *)
(* printed alone; without a selection nothing is.                          *)
Prints(k, sel) ==
  /\ "private" \in sel => k.priv # Null
  /\ "public" \in sel /\ "private" \notin sel => k.pub # Null

Printed(k, sel) ==
  [form |-> "text", oid |-> k.name, mat |-> k.mat,
   pub |-> IF "public" \in sel THEN k.pub ELSE Null,
   priv |-> IF "private" \in sel THEN k.priv ELSE Null,
   wanted |-> "private" \in sel, asked |-> "clear"]

EncodeText(s, sel) ==
  /\ Cardinality(docs) < MaxDocs
  /\ IsKey(s) /\ Prints(key[s], sel)
  /\ docs' = docs \cup {Printed(key[s], sel)}
  /\ UNCHANGED <<key, gctx, enc>>

Discard(d) == docs' = docs \ {d} /\ UNCHANGED <<key, gctx, enc>>

-----------------------------------------------------------------------------
(* Reading.                                                                *)
(* Bug: an open selection stays open.                                      *)
AskedAsGiven(kind, sel) == sel

(* oqs_der2key_decode: a caller who leaves the selection open gets what    *)
(* the decoder is for.                                                     *)
Asked(kind, sel) == IF sel = {} THEN Mask(kind) ELSE sel

(* Bug: a private key is taken under any OID.                              *)
ReadsPrivateAny(a, kind, d, sel) == kind = "PrivateKeyInfo" /\ d.form \in Private /\ "private" \in Asked(kind, sel)

(* oqs_der2key_decode_p8 compares the OID with the decoder's; libcrypto    *)
(* has decrypted the document.                                             *)
ReadsPrivate(a, kind, d, sel) ==
  /\ kind = "PrivateKeyInfo" /\ "private" \in Asked(kind, sel)
  /\ d.form \in Private /\ d.oid = a

(* oqsx_d2i_PUBKEY makes a key of whatever algorithm the OID names.  A     *)
(* decoder without private keys gives up where one is selected.            *)
ReadsPublic(kind, d, sel) ==
  /\ kind = "SubjectPublicKeyInfo"
  /\ "public" \in Asked(kind, sel) /\ "private" \notin Asked(kind, sel)
  /\ d.form = "SubjectPublicKeyInfo"

Decodes(a, kind, d, sel) == ReadsPrivate(a, kind, d, sel) \/ ReadsPublic(kind, d, sel)

(* oqsx_key_op: material and name are those of the OID; the caller of the  *)
(* decoder takes the key under the decoder's algorithm.                    *)
Decoded(a, kind, d) ==
  [alg |-> a, mat |-> d.mat, name |-> d.oid, pub |-> d.pub,
   priv |-> IF kind = "PrivateKeyInfo" THEN d.priv ELSE Null]

(* libcrypto may try the decoder of any algorithm that does the selection. *)
(* A key it does not take is freed by the decoder.                         *)
Decode(s, a, kind, d, sel) ==
  /\ DoesSelection(Mask(kind), sel)
  /\ Decodes(a, kind, d, sel)
  /\ LoadKey(s, Decoded(a, kind, d))
  /\ UNCHANGED <<enc, docs>>

Next ==
  \/ MgmtStep /\ UNCHANGED <<enc, docs>>
  \/ \E e \in Encs :
       \/ NewCtx(e) \/ FreeCtx(e) \/ SetCipherUnread(e)
       \/ \E named, fetched \in BOOLEAN : SetCipher(e, named, fetched)
       \/ \E s \in Slots, a \in Algs, kind \in Structures, sel \in Selections, pw \in BOOLEAN :
            Encode(e, s, a, kind, sel, pw)
  \/ \E s \in Slots, sel \in Selections : EncodeText(s, sel)
  \/ \E d \in docs :
       \/ Discard(d)
       \/ \E s \in Slots, a \in Algs, kind \in {"PrivateKeyInfo", "SubjectPublicKeyInfo"},
             sel \in Selections : Decode(s, a, kind, d, sel)

Spec == Init /\ [][Next]_vars

-----------------------------------------------------------------------------
(* Keys, contexts and documents have their types, and a context with a     *)
(* cipher intends to encrypt.  (oqs_encode_key2any.c:42-55, 1022-1028.)    *)
TypeOK ==
  /\ MgmtTypeOK
  /\ \A e \in Encs : enc[e] # Null => enc[e] \in Context /\ (enc[e].cipher => enc[e].intent)
  /\ DOMAIN enc = Encs
  /\ docs \subseteq Document

(* Whoever asked for a cipher gets no private key in the clear, also after *)
(* the cipher could not be fetched and the failure went unnoticed.  Only a *)
(* failure before that, for the type of a parameter, must not go           *)
(* unnoticed: the context then does what an earlier call asked for.        *)
(* (oqs_encode_key2any.c:1016-1028, 266-268.)                              *)
IntentHonoured == \A d \in docs : d.form = "PrivateKeyInfo" => d.asked # "cipher"

(* A document names the algorithm of the material in it, although keys may *)
(* carry another algorithm's name and decoders make keys of other          *)
(* algorithms.  (oqs_encode_key2any.c:452-482.)                            *)
OidNamesMaterial == \A d \in docs : d.form \in Structures => d.oid = d.mat

(* A document carries a private half exactly when the caller selected it.  *)
(* (oqs_encode_key2any.c:1041-1077 and the masks at 1118-1140.)            *)
SelectionHonoured == \A d \in docs : (d.priv # Null) <=> d.wanted

(* A key with a private half is one that the algorithm it is held under    *)
(* generates under its name, whichever decoder it came through: only a     *)
(* group name gives it material of another kind.                           *)
(* (oqs_decode_der2key.c:162-182, oqs_kmgmt.c:609-629.)                    *)
PrivateAsGenerated == \A k \in Keys : k.priv # Null => k.mat = Made[k.alg][k.name]

(* What a key writes reads back, by every decoder of its algorithm that    *)
(* does the selection for the structure, as a key EVP_PKEY_eq takes for    *)
(* the same, and a private document gives back the private half.           *)
(* (oqs_encode_key2any.c:1079-1113, oqs_decode_der2key.c:281-396.)         *)
RoundTrip ==
  \A k \in Keys, e \in {x \in Encs : enc[x] # Null}, kind \in Structures, sel \in Selections :
    Writes(k.alg, kind, k, enc[e], sel, TRUE) =>
      LET d      == Written(k.alg, kind, k, enc[e], sel)
          reader == IF kind \in Private THEN "PrivateKeyInfo" ELSE kind
          back   == Decoded(k.alg, reader, d)
      IN  /\ \A wish \in Selections :
               DoesSelection(Mask(reader), wish) => Decodes(k.alg, reader, d, wish)
          /\ EvpEq(k, back)
          /\ kind \in Private => SamePriv(k, back)
=============================================================================
