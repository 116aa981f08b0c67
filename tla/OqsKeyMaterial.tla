--------------------------- MODULE OqsKeyMaterial ---------------------------
(***************************************************************************)
(* The bytes of an OQSX_KEY: how oqsprov_keys.c lays a classical and a     *)
(* post-quantum component out in the privkey and pubkey buffers, where     *)
(* comp_privkey and comp_pubkey point, and what key generation, import,    *)
(* encoding, decoding, set_params and the hybrid KEM make of them.         *)
(*                                                                         *)
(* A buffer is a sequence of cells.  A component of length n of key pair i *)
(* is n cells that name it, so that a component read at a wrong offset or  *)
(* with a wrong length is not a component.  The leading length field is    *)
(* one cell.  Offsets count cells from 1.                                  *)
(***************************************************************************)
EXTENDS Naturals, Sequences, FiniteSets

CONSTANTS
  Slots,    (* OQSX_KEY objects in use, in any process                     *)
  Ids,      (* key pairs that generation can draw: no numbers              *)
  Kinds,    (* kinds of key: subset of AllKinds                            *)
  CP, CS,   (* evp_info->length_public_key, length_private_key             *)
  QP, QS,   (* length_public_key, length_secret_key of the OQS algorithm   *)
  Null,
  MaxArts,  (* bound on the artefacts that leave a key object              *)
  MaxCts    (* bound on the ciphertexts                                    *)

AllKinds == {"sig", "kem", "hybsig", "hybkem", "hybkemrev"}

(* A cell of a buffer; classical_pkey; and an OQSX_KEY: its buffers, the   *)
(* offsets its component pointers hold, the key pair and halves of         *)
(* classical_pkey, and the ghosts id and peer: the key pair it is meant to *)
(* hold, and whether a peer's share was set.  The classical pair of a      *)
(* generation that failed after it wrote to the buffers is Torn (all such  *)
(* pairs count as one): id is Null then.                                   *)
Cell      == {"zero", "wild", "len", "cp", "cs", "qp", "qs"} \X (Ids \cup Nat) \X Nat \X Nat
Torn      == 0
Owners    == Ids \cup {Torn}
Classical == [id : Owners, priv : BOOLEAN]
Key ==
  [kd : Kinds, pub : Seq(Cell) \cup {Null}, priv : Seq(Cell) \cup {Null},
   cpub : Seq(Nat) \cup {Null}, cpriv : Seq(Nat) \cup {Null},
   classical : Classical \cup {Null}, id : Ids \cup {Null}, peer : BOOLEAN]

(* NULL is nothing that a pointer leads to.                                *)
ASSUME MaterialAssumption ==
  /\ Kinds \subseteq AllKinds
  /\ {CP, CS, QP, QS, MaxArts, MaxCts} \subseteq Nat \ {0}
  /\ Torn \notin Ids
  /\ Null \notin Ids \cup Seq(Cell) \cup Seq(Nat) \cup Classical \cup Key

VARIABLES
  key,      (* the key objects                                             *)
  arts,     (* what was exported: shares, SPKI, PKCS#8, parameter sets     *)
  cts,      (* ciphertexts with the secret their maker derived             *)
  derived   (* by the last step: a decapsulation's result, its ciphertext  *)

vars == <<key, arts, cts, derived>>

-----------------------------------------------------------------------------
(* Cells.                                                                  *)
Zero       == <<"zero", 0, 0, 0>>
Wild       == <<"wild", 0, 0, 0>>
Num(n)     == <<"len", n, 0, 0>>
Zeros(n)   == [p \in 1..n |-> Zero]
Part(tag, i, n) == [p \in 1..n |-> <<tag, i, p, n>>]

Read(buf, off, n) == IF off + n - 1 <= Len(buf) THEN SubSeq(buf, off, off + n - 1)
                     ELSE [p \in 1..n |-> Wild]
Overlay(buf, off, s) ==
  [p \in 1..Len(buf) |-> IF p \in off..(off + Len(s) - 1) THEN s[p - off + 1] ELSE buf[p]]

(* The key pair a component belongs to, when it is one.  liboqs takes any  *)
(* bytes, the zeros that allocation left among them.                       *)
OwnerOf(tag, s)  == {i \in Owners : s # <<>> /\ s = Part(tag, i, Len(s))}
OqsOwner(tag, s) == IF s = Zeros(Len(s)) THEN {Torn} ELSE OwnerOf(tag, s)

-----------------------------------------------------------------------------
(* Shape of a kind of key: oqsx_key_new, oqsx_comp_set_idx.                *)
Hybrid(kd)  == kd \in {"hybsig", "hybkem", "hybkemrev"}
IsKem(kd)   == kd \in {"kem", "hybkem", "hybkemrev"}
Fixed(kd)   == kd \in {"hybkem", "hybkemrev"}     (* classic_lengths_fixed *)
Reversed(kd) == kd = "hybkemrev"
PubLen(kd)  == IF Hybrid(kd) THEN 1 + CP + QP ELSE QP
PrivLen(kd) == IF Hybrid(kd) THEN 1 + CS + QS ELSE QS
NumKeys(kd) == IF Hybrid(kd) THEN 2 ELSE 1
IdxC(kd)    == IF Reversed(kd) THEN 2 ELSE 1
IdxQ(kd)    == IF Reversed(kd) THEN 1 ELSE NumKeys(kd)

(* Encoded lengths of classical private keys: DER of RSA keys varies.      *)
PrivLens(kd) == IF kd = "hybsig" THEN 1..CS ELSE {CS}

(* Definitions marked "Bug:" are no part of the specification: each is the *)
(* next definition with a mistake in it, for showing which property fails. *)
(* Bug: the recorded length of the classical component is not used.        *)
OffsetsLongest(kd, buf, cmax, q) ==
  IF ~Hybrid(kd) THEN <<1>>
  ELSE IF Reversed(kd) THEN <<2, 2 + q>>
  ELSE <<2, 2 + cmax>>

(* oqsx_comp_set_offsets for one buffer, oqsx_key_set_composites.          *)
Offsets(kd, buf, cmax, q) ==
  IF ~Hybrid(kd) THEN <<1>>
  ELSE IF Reversed(kd) THEN <<2, 2 + q>>
  ELSE <<2, 2 + (IF Fixed(kd) THEN cmax ELSE buf[1][2])>>

CompPub(kd, pub)   == IF pub = Null THEN Null ELSE Offsets(kd, pub, CP, QP)
CompPriv(kd, priv) == IF priv = Null THEN Null ELSE Offsets(kd, priv, CS, QS)

(* What a user of the key reads through the component pointers.            *)
ClassicPub(k)  == Read(k.pub, k.cpub[IdxC(k.kd)], IF Fixed(k.kd) THEN CP ELSE k.pub[1][2])
ClassicPriv(k) == Read(k.priv, k.cpriv[IdxC(k.kd)], k.priv[1][2])
OqsPub(k)      == Read(k.pub, k.cpub[IdxQ(k.kd)], QP)
OqsPriv(k)     == Read(k.priv, k.cpriv[IdxQ(k.kd)], QS)

KeyObj(kd, pub, priv, cpub, cpriv, cl, id, peer) ==
  [kd |-> kd, pub |-> pub, priv |-> priv, cpub |-> cpub, cpriv |-> cpriv,
   classical |-> cl, id |-> id, peer |-> peer]

Live(s)    == key[s] # Null
Put(s, k)  == key' = [key EXCEPT ![s] = k]
Same       == UNCHANGED <<arts, cts>> /\ derived' = Null
Release(a) == arts' = arts \cup {a} /\ Cardinality(arts') <= MaxArts
Drawn(i)   == \/ \E s \in Slots : Live(s) /\ key[s].id = i
              \/ \E a \in arts : a.id = i

Init ==
  /\ key = [s \in Slots |-> Null]
  /\ arts = {} /\ cts = {} /\ derived = Null

Free(s) == Live(s) /\ Put(s, Null) /\ Same

-----------------------------------------------------------------------------
(* oqsx_key_gen.  A hybrid KEM sets its composites before it generates, a  *)
(* hybrid signature key after the classical half.                          *)
GenPub(kd, i) ==
  LET off == Offsets(kd, <<Num(CP)>>, CP, QP)
      q   == Overlay(Zeros(PubLen(kd)), off[IdxQ(kd)], Part("qp", i, QP))
  IN  IF ~Hybrid(kd) THEN q
      ELSE Overlay(Overlay(q, 1, <<Num(CP)>>), off[IdxC(kd)], Part("cp", i, CP))

GenPriv(kd, i, n) ==
  LET off == Offsets(kd, <<Num(n)>>, CS, QS)
      q   == Overlay(Zeros(PrivLen(kd)), off[IdxQ(kd)], Part("qs", i, QS))
  IN  IF ~Hybrid(kd) THEN q
      ELSE Overlay(Overlay(q, 1, <<Num(n)>>), off[IdxC(kd)], Part("cs", i, n))

KeyGen(s, kd, i, n) ==
  /\ ~Live(s) /\ ~Drawn(i) /\ n \in PrivLens(kd)
  /\ LET pub == GenPub(kd, i)  priv == GenPriv(kd, i, n) IN
     Put(s, KeyObj(kd, pub, priv, CompPub(kd, pub), CompPriv(kd, priv),
                   IF Hybrid(kd) THEN [id |-> i, priv |-> TRUE] ELSE Null, i, FALSE))
  /\ Same

(* Classical generation failed: before it wrote to the buffers, or with    *)
(* the classical public key in its place (p) and the first n cells of the  *)
(* private key, when reading the private key or the self-test fails.  The  *)
(* lengths are stored last, so they are still 0.  oqsx_key_gen jumps to    *)
(* its end with ret still 0, so that the caller takes these buffers for a  *)
(* generated key.  A hybrid signature key has no composites yet.           *)
HalfPub(kd, p) ==
  IF p THEN Overlay(Zeros(PubLen(kd)), Offsets(kd, <<Zero>>, CP, QP)[IdxC(kd)], Part("cp", Torn, CP))
  ELSE Zeros(PubLen(kd))
HalfPriv(kd, n) ==
  Overlay(Zeros(PrivLen(kd)), Offsets(kd, <<Zero>>, CS, QS)[IdxC(kd)], Part("cs", Torn, n))
HalfKey(kd, pub, priv) ==
  KeyObj(kd, pub, priv, IF Fixed(kd) THEN CompPub(kd, pub) ELSE Null,
         IF Fixed(kd) THEN CompPriv(kd, priv) ELSE Null, Null, Null, FALSE)

(* Bug: the lengths are stored before the private key is checked.          *)
KeyGenHalfSized(s, kd, p, n) ==
  /\ ~Live(s) /\ Hybrid(kd)
  /\ n = 0 \/ (n \in PrivLens(kd) /\ p)
  /\ Put(s, HalfKey(kd, Overlay(HalfPub(kd, p), 1, <<Num(IF p THEN CP ELSE 0)>>),
                    Overlay(HalfPriv(kd, n), 1, <<Num(n)>>)))
  /\ Same

KeyGenHalf(s, kd, p, n) ==
  /\ ~Live(s) /\ Hybrid(kd)
  /\ n = 0 \/ (n \in PrivLens(kd) /\ p)
  /\ Put(s, HalfKey(kd, HalfPub(kd, p), HalfPriv(kd, n)))
  /\ Same

-----------------------------------------------------------------------------
(* oqsx_key_recreate_classickey on a key whose composites are set: the     *)
(* classical key read from the buffers, or none when they hold no key.     *)
ReadablePub(k)  == OwnerOf("cp", Read(k.pub, k.cpub[IdxC(k.kd)], k.pub[1][2]))
ReadablePriv(k) == OwnerOf("cs", ClassicPriv(k))

Recreated(k, op) ==
  IF ~Hybrid(k.kd) THEN {k}
  ELSE IF op = "public" THEN {[k EXCEPT !.classical = [id |-> i, priv |-> FALSE]] : i \in ReadablePub(k)}
  ELSE {[k EXCEPT !.classical = [id |-> i, priv |-> TRUE],
                  !.pub = IF @ = Null THEN Null
                          ELSE Overlay(@, k.cpub[IdxC(k.kd)], Part("cp", i, CP))] : i \in ReadablePriv(k)}

(* The import and decoder paths: composites, then the classical key; the   *)
(* object is freed when it cannot be recreated.                            *)
Composed(kd, pub, priv, id) ==
  KeyObj(kd, pub, priv, CompPub(kd, pub), CompPriv(kd, priv), Null, id, FALSE)
Build(s, kd, pub, priv, op, id) ==
  LET made == Recreated(Composed(kd, pub, priv, id), op) IN
  IF made = {} THEN Put(s, Null) ELSE \E k \in made : Put(s, k)

(* oqsx_export and oqsx_import (oqsx_key_fromdata).                        *)
Export(s, withPriv) ==
  LET k == key[s] IN
  /\ Live(s)
  /\ Release([form |-> "params", kd |-> k.kd, id |-> k.id, pub |-> k.pub,
              priv |-> IF withPriv THEN k.priv ELSE Null])
  /\ UNCHANGED <<key, cts>> /\ derived' = Null

(* Bug: the private half is imported as if it were public.                 *)
ImportPublic(s, a) ==
  /\ ~Live(s) /\ a.form = "params" /\ (a.pub # Null \/ a.priv # Null)
  /\ Build(s, a.kd, a.pub, a.priv, IF a.pub # Null THEN "public" ELSE "private", a.id)
  /\ Same

Import(s, a) ==
  /\ ~Live(s) /\ a.form = "params" /\ (a.pub # Null \/ a.priv # Null)
  /\ Build(s, a.kd, a.pub, a.priv, IF a.priv # Null THEN "private" ELSE "public", a.id)
  /\ Same

(* oqsx_spki_pub_to_der and the public side of oqsx_key_op.                *)
EncodePub(s) ==
  LET k == key[s] IN
  /\ Live(s) /\ k.pub # Null
  /\ Release([form |-> "spki", kd |-> k.kd, id |-> k.id, blob |-> k.pub])
  /\ UNCHANGED <<key, cts>> /\ derived' = Null

DecodePub(s, a) ==
  /\ ~Live(s) /\ a.form = "spki"
  /\ Build(s, a.kd, a.blob, Null, "public", a.id)
  /\ Same

(* oqsx_pki_priv_to_der: the private buffer without the slack of a short   *)
(* classical key, then the OQS public key.                                 *)
PrivBlob(k) ==
  LET used == PrivLen(k.kd) - (IF Hybrid(k.kd) THEN CS - k.priv[1][2] ELSE 0)
      last == IF Reversed(k.kd) THEN 1 ELSE NumKeys(k.kd)
  IN  SubSeq(k.priv, 1, used) \o
      (IF k.cpub = Null THEN [p \in 1..QP |-> Wild] ELSE Read(k.pub, k.cpub[last], QP))

EncodePriv(s) ==
  LET k == key[s] IN
  /\ Live(s) /\ k.priv # Null /\ k.pub # Null
  /\ Release([form |-> "pkcs8", kd |-> k.kd, id |-> k.id, blob |-> PrivBlob(k)])
  /\ UNCHANGED <<key, cts>> /\ derived' = Null

(* The private side of oqsx_key_op: the length field must match the room   *)
(* left for the classical key, and the OQS public key goes to its place in *)
(* a public buffer whose classical part is recreated.                      *)
BlobFits(kd, blob) ==
  IF ~Hybrid(kd) THEN Len(blob) = QS + QP
  ELSE /\ Len(blob) > 1 + QS + QP
       /\ Len(blob) - QS - QP - 1 <= CS
       /\ blob[1] = Num(Len(blob) - QS - QP - 1)

DecodePriv(s, a) ==
  LET n    == Len(a.blob) - QP
      pq   == SubSeq(a.blob, n + 1, Len(a.blob))
      priv == Overlay(Zeros(PrivLen(a.kd)), 1, SubSeq(a.blob, 1, n))
      pub  == IF ~Hybrid(a.kd) THEN pq
              ELSE Overlay(Overlay(Zeros(PubLen(a.kd)), 1, <<Num(CP)>>),
                           IF Reversed(a.kd) THEN 2 ELSE 2 + CP, pq)
  IN
  /\ ~Live(s) /\ a.form = "pkcs8"
  /\ IF BlobFits(a.kd, a.blob) THEN Build(s, a.kd, pub, priv, "private", a.id) ELSE Put(s, Null)
  /\ Same

-----------------------------------------------------------------------------
(* oqsx_get_params and oqsx_set_params for the encoded public key: a       *)
(* hybrid KEM passes out no length field, and the key loses its private    *)
(* buffer when a peer's share is set.  The composites stay as they are.    *)
GetShare(s) ==
  LET k == key[s] IN
  /\ Live(s) /\ k.pub # Null
  /\ Release([form |-> "share", kd |-> k.kd, id |-> k.id,
              blob |-> IF Fixed(k.kd) THEN Tail(k.pub) ELSE k.pub])
  /\ UNCHANGED <<key, cts>> /\ derived' = Null

(* Bug: a hybrid KEM takes the share for the whole buffer.                 *)
SetShareWhole(s, a) ==
  LET k == key[s] IN
  /\ Live(s) /\ k.pub # Null /\ a.form = "share" /\ a.kd = k.kd
  /\ Put(s, [k EXCEPT !.pub = a.blob, !.priv = Null, !.peer = TRUE, !.id = a.id])
  /\ Same

SetShare(s, a) ==
  LET k == key[s] IN
  /\ Live(s) /\ k.pub # Null /\ a.form = "share" /\ a.kd = k.kd
  /\ Put(s, [k EXCEPT !.pub = IF Fixed(k.kd) THEN Overlay(@, k.cpub[1], a.blob) ELSE a.blob,
                      !.priv = Null, !.peer = TRUE, !.id = a.id])
  /\ Same

-----------------------------------------------------------------------------
(* oqs_hyb_kem_encaps, oqs_qs_kem_encaps: halves in the order of the key.  *)
Ordered(kd, c, q) == IF ~Hybrid(kd) THEN <<q>> ELSE IF Reversed(kd) THEN <<q, c>> ELSE <<c, q>>

Encaps(s) ==
  LET k == key[s]
      c == IF Hybrid(k.kd) THEN OwnerOf("cp", ClassicPub(k)) ELSE Ids
      q == OqsOwner("qp", OqsPub(k))
  IN
  /\ Live(s) /\ IsKem(k.kd) /\ k.pub # Null /\ c # {} /\ q # {}
  /\ \E i \in c, j \in q :
       cts' = cts \cup {[kd |-> k.kd, to |-> k.id,
                         ct |-> Ordered(k.kd, <<"eph", 0>>, <<"enc", j>>),
                         ss |-> Ordered(k.kd, <<"ecdh", i>>, <<"kem", j>>)]}
  /\ Cardinality(cts') <= MaxCts
  /\ UNCHANGED <<key, arts>> /\ derived' = Null

(* Bug: the post-quantum ciphertext is always looked for at the end.       *)
DecapsLast(s, x) ==
  LET k   == key[s]
      c   == IF Hybrid(k.kd) THEN OwnerOf("cs", Read(k.priv, k.cpriv[IdxC(k.kd)], CS)) ELSE Ids
      q   == OqsOwner("qs", OqsPriv(k))
      ctq == x.ct[NumKeys(k.kd)]
  IN
  /\ Live(s) /\ k.cpriv # Null /\ IsKem(k.kd) /\ x.kd = k.kd
  /\ IF k.priv = Null THEN derived' = [own |-> Null, x |-> x, ss |-> Wild]
     ELSE \E i \in c, j \in q :
            derived' = [own |-> k.id, x |-> x,
                        ss |-> Ordered(k.kd, <<"ecdh", i>>,
                                       IF j # Torn /\ ctq = <<"enc", j>> THEN <<"kem", j>> ELSE <<"reject", j>>)]
  /\ UNCHANGED <<key, arts, cts>>

(* oqs_hyb_kem_decaps, oqs_qs_kem_decaps: a ciphertext of another key      *)
(* decapsulates to an unrelated secret.  The check is for comp_privkey, so *)
(* that a key whose private buffer set_params released passes it and the   *)
(* released memory is read.                                                *)
Decaps(s, x) ==
  LET k   == key[s]
      c   == IF Hybrid(k.kd) THEN OwnerOf("cs", Read(k.priv, k.cpriv[IdxC(k.kd)], CS)) ELSE Ids
      q   == OqsOwner("qs", OqsPriv(k))
      ctq == x.ct[IdxQ(k.kd)]
  IN
  /\ Live(s) /\ k.cpriv # Null /\ IsKem(k.kd) /\ x.kd = k.kd
  /\ IF k.priv = Null THEN derived' = [own |-> Null, x |-> x, ss |-> Wild]
     ELSE \E i \in c, j \in q :
            derived' = [own |-> k.id, x |-> x,
                        ss |-> Ordered(k.kd, <<"ecdh", i>>,
                                       IF j # Torn /\ ctq = <<"enc", j>> THEN <<"kem", j>> ELSE <<"reject", j>>)]
  /\ UNCHANGED <<key, arts, cts>>

-----------------------------------------------------------------------------
Next ==
  \/ \E s \in Slots :
       \/ Free(s) \/ EncodePub(s) \/ EncodePriv(s) \/ GetShare(s) \/ Encaps(s)
       \/ \E kd \in Kinds, p \in BOOLEAN, n \in 0..CS : KeyGenHalf(s, kd, p, n)
       \/ \E kd \in Kinds, i \in Ids, n \in 1..CS : KeyGen(s, kd, i, n)
       \/ \E w \in BOOLEAN : Export(s, w)
       \/ \E a \in arts : Import(s, a) \/ DecodePub(s, a) \/ DecodePriv(s, a) \/ SetShare(s, a)
       \/ \E x \in cts : Decaps(s, x)

Spec == Init /\ [][Next]_vars

-----------------------------------------------------------------------------
(* A key object is of its kind, and its buffers have the lengths that      *)
(* oqsx_key_new records and every later path relies on.                    *)
TypeOK ==
  \A s \in Slots : Live(s) =>
    /\ key[s].kd \in Kinds /\ key[s].id \in Ids \cup {Null} /\ key[s].peer \in BOOLEAN
    /\ key[s].pub # Null => Len(key[s].pub) = PubLen(key[s].kd)
    /\ key[s].priv # Null => Len(key[s].priv) = PrivLen(key[s].kd)

(* Whatever way a key took - generated, imported, decoded from SPKI or     *)
(* PKCS#8, or given a peer's share, repeatedly and in any order - each     *)
(* component read through its pointer is the component of the key pair it  *)
(* is meant to hold, for every length of the classical private key.        *)
ComponentsInPlace ==
  \A s \in Slots : Live(s) /\ key[s].id # Null =>
    LET k == key[s] IN
    /\ k.cpub # Null => /\ OqsPub(k) = Part("qp", k.id, QP)
                        /\ Hybrid(k.kd) => ClassicPub(k) = Part("cp", k.id, CP)
    /\ k.priv # Null => /\ OqsPriv(k) = Part("qs", k.id, QS)
                        /\ Hybrid(k.kd) => k.id \in OwnerOf("cs", ClassicPriv(k))

(* classical_pkey is of the same key pair and of the same halves as the    *)
(* buffers, until set_params replaces the public buffer.                   *)
ClassicalMatchesBuffers ==
  \A s \in Slots : Live(s) /\ Hybrid(key[s].kd) /\ key[s].id # Null /\ ~key[s].peer =>
    key[s].classical = [id |-> key[s].id, priv |-> key[s].priv # Null]

(* The owner of a key decapsulates what was encapsulated to it - to the    *)
(* key itself, a decoded or imported copy, or a share - to the secret the  *)
(* sender has, both halves from that key pair and in the sender's order.   *)
SecretsAgree ==
  derived # Null /\ derived.own # Null /\ derived.own = derived.x.to =>
    derived.ss = derived.x.ss

(* Wherever a classical generation failed and whatever it had written, no  *)
(* import and no decoder makes a key pair of what the half key exports:    *)
(* its private half comes back with no classical key beside it, although   *)
(* its share can be set in a peer and reach public keys from there.        *)
HalfKeyNotCopied ==
  \A s \in Slots : Live(s) /\ key[s].id = Null /\ key[s].priv # Null =>
    key[s].classical = Null

-----------------------------------------------------------------------------
(* "allocates OQS and classical keys", the comment of oqsx_key_gen: a      *)
(* hybrid key that oqsx_key_gen delivers has its classical key.            *)
GeneratedKeyIsWhole ==
  \A s \in Slots : Live(s) /\ Hybrid(key[s].kd) => key[s].classical # Null

(* "point to actual priv key material", the comment of oqsx_key_st: a      *)
(* component pointer that is set points into the buffer the key has.       *)
ComponentsPointToMaterial ==
  \A s \in Slots : Live(s) /\ key[s].cpriv # Null => key[s].priv # Null
=============================================================================
