----------------------- MODULE OqsKeyMaterial_proofs -----------------------
(***************************************************************************)
(* Theorems about OqsKeyMaterial, for any lengths of components, any sets  *)
(* of key objects and key pairs, and any number of artefacts and           *)
(* ciphertexts.                                                            *)
(***************************************************************************)
EXTENDS OqsKeyMaterial, SequenceTheorems, TLAPS

(* Where the components of each kind of key are, in the public buffer and  *)
(* in a private one whose classical component has length n.                *)
PubC(kd)     == IF Reversed(kd) THEN 2 + QP ELSE 2
PubQ(kd)     == IF ~Hybrid(kd) THEN 1 ELSE IF Reversed(kd) THEN 2 ELSE 2 + CP
PrivC(kd)    == IF Reversed(kd) THEN 2 + QS ELSE 2
PrivQ(kd, n) == IF ~Hybrid(kd) THEN 1 ELSE IF Reversed(kd) THEN 2 ELSE 2 + n
PubOffs(kd)  == IF ~Hybrid(kd) THEN <<1>> ELSE IF Reversed(kd) THEN <<2, 2 + QP>> ELSE <<2, 2 + CP>>
PrivOffs(kd, n) ==
  IF ~Hybrid(kd) THEN <<1>> ELSE IF Reversed(kd) THEN <<2, 2 + QS>> ELSE <<2, 2 + n>>

(* The n cells from off on are the component of key pair i.                *)
At(b, off, tag, i, n) == \A p \in 1..n : b[off + p - 1] = <<tag, i, p, n>>

(* A public buffer holds both components of its key pair.  One whose       *)
(* generation failed may hold anything.  The length field may be missing   *)
(* where it is not used, as a share does not carry it.                     *)
PubHas(kd, id, b) ==
  /\ At(b, PubQ(kd), "qp", id, QP)
  /\ Hybrid(kd) => At(b, PubC(kd), "cp", id, CP)
  /\ kd = "hybsig" => b[1] = Num(CP)
PubOK(kd, id, b) ==
  /\ b \in [1..PubLen(kd) -> Cell]
  /\ Hybrid(kd) => b[1] \in {Zero, Num(CP)}
  /\ IF id = Null THEN Hybrid(kd) ELSE PubHas(kd, id, b)

(* The same of a private buffer, and of what PKCS#8 carries of it.  One    *)
(* whose generation failed never had its length stored.                    *)
PrivUsed(kd, n) == IF Hybrid(kd) THEN 1 + n + QS ELSE QS
PrivHas(kd, id, b, n) ==
  /\ At(b, PrivQ(kd, n), "qs", id, QS)
  /\ Hybrid(kd) => b[1] = Num(n) /\ At(b, PrivC(kd), "cs", id, n)
PrivOK(kd, id, b) ==
  /\ b \in [1..PrivLen(kd) -> Cell]
  /\ IF id = Null THEN Hybrid(kd) /\ b[1] = Zero
     ELSE \E n \in PrivLens(kd) : PrivHas(kd, id, b, n)

(* A public and a private buffer that belong together.                     *)
PairOK(kd, id, pub, priv) ==
  /\ PubOK(kd, id, pub)
  /\ priv # Null => PrivOK(kd, id, priv) /\ (Hybrid(kd) /\ id # Null => pub[1] = Num(CP))

(* The component pointers are right where they are used: a signature key   *)
(* whose generation failed has none, and a key that has a peer's share     *)
(* keeps those of a private buffer it no longer has.                       *)
PointersOK(k) ==
  /\ k.cpub \in {Null, PubOffs(k.kd)}
  /\ k.kd # "hybsig" \/ (k.id # Null /\ k.priv # Null) => k.cpub # Null
  /\ k.priv # Null /\ (k.id # Null \/ k.kd # "hybsig") => k.cpriv = CompPriv(k.kd, k.priv)
ClassicalOK(k) ==
  /\ k.id = Null /\ k.priv # Null => k.classical = Null
  /\ ~k.peer /\ k.id # Null /\ Hybrid(k.kd) => k.classical = [id |-> k.id, priv |-> k.priv # Null]
KeyOK(k) == k \in Key /\ PairOK(k.kd, k.id, k.pub, k.priv) /\ PointersOK(k) /\ ClassicalOK(k)
KeysOK == key \in [Slots -> Key \cup {Null}] /\ \A s \in Slots : Live(s) => KeyOK(key[s])

(* What leaves a key object says the same as the key it came from.         *)
BlobOK(kd, id, b) ==
  IF id = Null THEN Hybrid(kd) /\ Len(b) = 1 + QS + QP
  ELSE \E n \in PrivLens(kd) :
         /\ b \in [1..(PrivUsed(kd, n) + QP) -> Cell]
         /\ PrivHas(kd, id, b, n) /\ At(b, PrivUsed(kd, n) + 1, "qp", id, QP)
ArtOK(a) ==
  /\ a.kd \in Kinds /\ a.id \in Ids \cup {Null}
  /\ a.form = "params" => PairOK(a.kd, a.id, a.pub, a.priv)
  /\ a.form = "spki" => PubOK(a.kd, a.id, a.blob)
  /\ a.form = "pkcs8" => BlobOK(a.kd, a.id, a.blob)
  /\ a.form = "share" => \E b : PubOK(a.kd, a.id, b) /\ a.blob = IF Fixed(a.kd) THEN Tail(b) ELSE b
ArtsOK == \A a \in arts : ArtOK(a)

(* A ciphertext to a generated key has the two halves of its key pair, in  *)
(* the key's order.                                                        *)
CtOK(x) ==
  /\ x.kd \in Kinds /\ IsKem(x.kd)
  /\ x.to # Null => /\ x.ct = Ordered(x.kd, <<"eph", 0>>, <<"enc", x.to>>)
                    /\ x.ss = Ordered(x.kd, <<"ecdh", x.to>>, <<"kem", x.to>>)
CtsOK == \A x \in cts : CtOK(x)

IInv == KeysOK /\ ArtsOK /\ CtsOK /\ SecretsAgree

-----------------------------------------------------------------------------
(* Cells, kinds and buffers.                                               *)

(* The lengths of components are at least one.                             *)
LEMMA Lengths == CP \in Nat \ {0} /\ CS \in Nat \ {0} /\ QP \in Nat \ {0} /\ QS \in Nat \ {0}
BY MaterialAssumption

(* What tells cells apart.                                                 *)
LEMMA CellFacts ==
  /\ Zero \in Cell /\ Wild \in Cell /\ Zero[2] = 0 /\ \A n \in Nat : Num(n) \in Cell
  /\ \A n : Num(n)[2] = n /\ Num(n) # Zero
BY DEF Zero, Wild, Num, Cell

(* A cell of a component is a cell, no zero cell, and names its key pair.  *)
LEMMA ComponentCells ==
  ASSUME NEW tag \in {"cp", "cs", "qp", "qs"}, NEW i \in Owners, NEW p \in Nat, NEW n \in Nat
  PROVE  /\ <<tag, i, p, n>> \in Cell /\ <<tag, i, p, n>> # Zero
         /\ \A j : <<tag, i, p, n>> = <<tag, j, p, n>> => i = j
BY DEF Cell, Zero, Owners, Torn

(* The shape of each kind of key.                                          *)
LEMMA KindFacts ==
  ASSUME NEW kd \in Kinds
  PROVE  /\ Hybrid(kd) \in BOOLEAN /\ Reversed(kd) \in BOOLEAN /\ Fixed(kd) \in BOOLEAN
         /\ Reversed(kd) => Fixed(kd)
         /\ Fixed(kd) => Hybrid(kd)
         /\ Hybrid(kd) /\ ~Fixed(kd) <=> kd = "hybsig"
         /\ IsKem(kd) /\ Hybrid(kd) => Fixed(kd)
         /\ PrivLens(kd) = IF kd = "hybsig" THEN 1..CS ELSE {CS}
         /\ IdxC(kd) = IF Reversed(kd) THEN 2 ELSE 1
         /\ IdxQ(kd) = IF ~Hybrid(kd) \/ Reversed(kd) THEN 1 ELSE 2
BY MaterialAssumption DEF AllKinds, Hybrid, Reversed, Fixed, IsKem, PrivLens, IdxC, IdxQ, NumKeys

(* A function on 1..n is a sequence of length n.                           *)
LEMMA FunSeq ==
  ASSUME NEW n \in Nat, NEW C, NEW s \in [1..n -> C]
  PROVE  s \in Seq(C) /\ Len(s) = n /\ DOMAIN s = 1..n
OBVIOUS

(* Buffers of one length are equal when their cells are.                   *)
LEMMA SameBuffer ==
  ASSUME NEW n \in Nat, NEW s \in [1..n -> Cell], NEW t \in [1..n -> Cell],
         \A p \in 1..n : s[p] = t[p]
  PROVE  s = t
OBVIOUS

(* The cells of a component.                                               *)
LEMMA PartIs ==
  ASSUME NEW tag \in {"cp", "cs", "qp", "qs"}, NEW i \in Owners, NEW n \in Nat
  PROVE  Part(tag, i, n) \in [1..n -> Cell] /\ \A p \in 1..n : Part(tag, i, n)[p] = <<tag, i, p, n>>
<1>1. \A p \in 1..n : <<tag, i, p, n>> \in Cell
  BY ComponentCells
<1> QED BY <1>1 DEF Part

(* A buffer as OPENSSL_secure_zalloc gives it.                             *)
LEMMA ZerosIs ==
  ASSUME NEW n \in Nat
  PROVE  Zeros(n) \in [1..n -> Cell] /\ \A p \in 1..n : Zeros(n)[p] = Zero
BY CellFacts DEF Zeros

(* Reading and writing inside a buffer.                                    *)
LEMMA SubSeqIs ==
  ASSUME NEW m \in Nat, NEW b \in [1..m -> Cell], NEW off \in Nat \ {0}, NEW n \in Nat, off + n - 1 <= m
  PROVE  /\ SubSeq(b, off, off + n - 1) \in [1..n -> Cell]
         /\ \A p \in 1..n : SubSeq(b, off, off + n - 1)[p] = b[off + p - 1]
<1>1. b \in Seq(Cell) /\ Len(b) = m
  BY FunSeq
<1>2. off \in 1..Len(b) + 1 /\ off + n - 1 \in off - 1 .. Len(b)
  BY <1>1
<1>3. PICK s : s = SubSeq(b, off, off + n - 1)
  OBVIOUS
<1>4. /\ s \in Seq(Cell) /\ Len(s) = (off + n - 1) - off + 1
      /\ \A p \in 1..((off + n - 1) - off + 1) : s[p] = b[off + p - 1]
  BY <1>1, <1>2, <1>3, SubSeqProperties
<1>5. (off + n - 1) - off + 1 = n
  OBVIOUS
<1>6. Len(s) = n /\ \A p \in 1..n : s[p] = b[off + p - 1]
  BY <1>4, <1>5
<1>7. s \in [1..n -> Cell]
  BY <1>4, <1>6
<1> QED BY <1>3, <1>6, <1>7

(* The same from the first cell on.                                        *)
LEMMA SubSeqFirst ==
  ASSUME NEW m \in Nat, NEW b \in [1..m -> Cell], NEW n \in Nat, n <= m
  PROVE  SubSeq(b, 1, n) \in [1..n -> Cell] /\ \A p \in 1..n : SubSeq(b, 1, n)[p] = b[p]
<1>1. b \in Seq(Cell) /\ Len(b) = m
  BY FunSeq
<1>2. PICK s : s = SubSeq(b, 1, n)
  OBVIOUS
<1>3. s \in Seq(Cell) /\ Len(s) = n /\ \A p \in 1..n : s[p] = b[p]
  BY <1>1, <1>2
<1>4. s \in [1..n -> Cell]
  BY <1>3
<1> QED BY <1>2, <1>3, <1>4

(* What is read is what the buffer has there, while it is inside.          *)
LEMMA ReadIs ==
  ASSUME NEW m \in Nat, NEW b \in [1..m -> Cell], NEW off \in Nat \ {0}, NEW n \in Nat, off + n - 1 <= m
  PROVE  /\ Read(b, off, n) \in [1..n -> Cell]
         /\ \A p \in 1..n : Read(b, off, n)[p] = b[off + p - 1]
<1>1. Len(b) = m
  BY FunSeq
<1>2. Read(b, off, n) = SubSeq(b, off, off + n - 1)
  BY <1>1 DEF Read
<1> QED BY <1>2, SubSeqIs

(* What is written goes there, and only there.                             *)
LEMMA OverlayIs ==
  ASSUME NEW m \in Nat, NEW b \in [1..m -> Cell], NEW off \in Nat \ {0},
         NEW l \in Nat, NEW s \in [1..l -> Cell]
  PROVE  /\ Overlay(b, off, s) \in [1..m -> Cell]
         /\ \A p \in 1..m : Overlay(b, off, s)[p] = IF p \in off..(off + l - 1) THEN s[p - off + 1] ELSE b[p]
<1>1. Len(b) = m /\ Len(s) = l
  BY FunSeq
<1>2. Overlay(b, off, s) = [p \in 1..m |-> IF p \in off..(off + l - 1) THEN s[p - off + 1] ELSE b[p]]
  BY <1>1 DEF Overlay
<1>3. \A p \in 1..m : (IF p \in off..(off + l - 1) THEN s[p - off + 1] ELSE b[p]) \in Cell
  OBVIOUS
<1> QED BY <1>2, <1>3

(* A component that is at a place is read there.                           *)
LEMMA ReadPart ==
  ASSUME NEW m \in Nat, NEW b \in [1..m -> Cell], NEW off \in Nat \ {0}, NEW n \in Nat, off + n - 1 <= m,
         NEW tag \in {"cp", "cs", "qp", "qs"}, NEW i \in Ids, At(b, off, tag, i, n)
  PROVE  Read(b, off, n) = Part(tag, i, n)
<1>1. PICK r : r = Read(b, off, n)
  OBVIOUS
<1>2. PICK t : t = Part(tag, i, n)
  OBVIOUS
<1>3. r \in [1..n -> Cell] /\ \A p \in 1..n : r[p] = b[off + p - 1]
  BY <1>1, ReadIs
<1>4. t \in [1..n -> Cell] /\ \A p \in 1..n : t[p] = <<tag, i, p, n>>
  BY <1>2, PartIs DEF Owners
<1>5. \A p \in 1..n : r[p] = t[p]
  BY <1>3, <1>4 DEF At
<1>6. r = t
  BY <1>3, <1>4, <1>5, SameBuffer
<1> QED BY <1>1, <1>2, <1>6

(* A component that is written at a place is there.                        *)
LEMMA OverlayPuts ==
  ASSUME NEW m \in Nat, NEW b \in [1..m -> Cell], NEW off \in Nat \ {0}, NEW n \in Nat, off + n - 1 <= m,
         NEW tag \in {"cp", "cs", "qp", "qs"}, NEW i \in Ids,
         NEW s \in [1..n -> Cell], \A p \in 1..n : s[p] = <<tag, i, p, n>>
  PROVE  At(Overlay(b, off, s), off, tag, i, n)
<1>1. PICK c : c = Overlay(b, off, s)
  OBVIOUS
<1>2. \A p \in 1..m : c[p] = IF p \in off..(off + n - 1) THEN s[p - off + 1] ELSE b[p]
  BY <1>1, OverlayIs
<1>3. ASSUME NEW p \in 1..n PROVE c[off + p - 1] = <<tag, i, p, n>>
  <2>1. off + p - 1 \in 1..m /\ off + p - 1 \in off..(off + n - 1) /\ (off + p - 1) - off + 1 = p
    OBVIOUS
  <2> QED BY <1>2, <2>1
<1> QED BY <1>1, <1>3 DEF At

(* A component at another place stays.                                     *)
LEMMA OverlayLeaves ==
  ASSUME NEW m \in Nat, NEW b \in [1..m -> Cell], NEW off \in Nat \ {0}, NEW l \in Nat, NEW s \in [1..l -> Cell],
         NEW o \in Nat \ {0}, NEW n \in Nat, o + n - 1 <= m, o + n <= off \/ off + l <= o,
         NEW tag, NEW i, At(b, o, tag, i, n)
  PROVE  At(Overlay(b, off, s), o, tag, i, n)
<1>1. PICK c : c = Overlay(b, off, s)
  OBVIOUS
<1>2. \A p \in 1..m : c[p] = IF p \in off..(off + l - 1) THEN s[p - off + 1] ELSE b[p]
  BY <1>1, OverlayIs
<1>3. ASSUME NEW p \in 1..n PROVE c[o + p - 1] = <<tag, i, p, n>>
  <2>1. o + p - 1 \in 1..m /\ o + p - 1 \notin off..(off + l - 1)
    OBVIOUS
  <2> QED BY <1>2, <2>1 DEF At
<1> QED BY <1>1, <1>3 DEF At

(* Whose component it is, if it is one.                                    *)
LEMMA OwnerOfPart ==
  ASSUME NEW tag \in {"cp", "cs", "qp", "qs"}, NEW i \in Owners, NEW n \in Nat \ {0}
  PROVE  OwnerOf(tag, Part(tag, i, n)) = {i}
<1>1. PICK s : s = Part(tag, i, n)
  OBVIOUS
<1>2. s \in [1..n -> Cell] /\ Len(s) = n /\ s # <<>> /\ s[1] = <<tag, i, 1, n>>
  <2>1. s \in [1..n -> Cell] /\ s[1] = <<tag, i, 1, n>> /\ 1 \in 1..n
    BY <1>1, PartIs
  <2>2. Len(s) = n /\ s \in Seq(Cell)
    BY <2>1, FunSeq
  <2>3. s # <<>>
    BY <2>2
  <2> QED BY <2>1, <2>2, <2>3
<1>3. ASSUME NEW j \in Owners, s = Part(tag, j, n) PROVE j = i
  <2>1. s[1] = <<tag, j, 1, n>>
    BY <1>3, PartIs
  <2> QED BY <1>2, <2>1, ComponentCells
<1> QED BY <1>1, <1>2, <1>3 DEF OwnerOf

(* liboqs takes a component for what it is, too.                           *)
LEMMA OqsOwnerOfPart ==
  ASSUME NEW tag \in {"cp", "cs", "qp", "qs"}, NEW i \in Owners, NEW n \in Nat \ {0}
  PROVE  OqsOwner(tag, Part(tag, i, n)) = {i}
<1>1. PICK s : s = Part(tag, i, n)
  OBVIOUS
<1>2. s \in [1..n -> Cell] /\ s[1] = <<tag, i, 1, n>> /\ 1 \in 1..n
  BY <1>1, PartIs
<1>3. Len(s) = n
  BY <1>2, FunSeq
<1>4. s # Zeros(n)
  <2>1. Zeros(n)[1] = Zero
    BY <1>2, ZerosIs
  <2> QED BY <1>2, <2>1, ComponentCells
<1>5. OqsOwner(tag, s) = OwnerOf(tag, s)
  BY <1>3, <1>4 DEF OqsOwner
<1> QED BY <1>1, <1>5, OwnerOfPart

(* Cells that begin with a zero cell, and no cells, are no component.      *)
LEMMA OwnerOfNothing ==
  ASSUME NEW tag \in {"cp", "cs", "qp", "qs"}, NEW n \in Nat, NEW s \in [1..n -> Cell],
         n # 0 => s[1] = Zero
  PROVE  OwnerOf(tag, s) = {}
<1>1. s \in Seq(Cell) /\ Len(s) = n
  BY FunSeq
<1>2. CASE n = 0
  <2>1. s = <<>>
    BY <1>1, <1>2, EmptySeq
  <2> QED BY <2>1 DEF OwnerOf
<1>3. ASSUME n # 0, NEW i \in Owners, s = Part(tag, i, n) PROVE FALSE
  <2>1. s[1] = <<tag, i, 1, n>>
    BY <1>3, PartIs, SMTT(60)
  <2> QED BY <1>3, <2>1, ComponentCells
<1> QED BY <1>1, <1>2, <1>3 DEF OwnerOf

-----------------------------------------------------------------------------
(* Where the components lie: inside their buffer, apart from each other    *)
(* and behind the length field.                                            *)
LEMMA PubPlaces ==
  ASSUME NEW kd \in Kinds
  PROVE  /\ PubLen(kd) \in Nat \ {0} /\ PubC(kd) \in Nat \ {0} /\ PubQ(kd) \in Nat \ {0}
         /\ PubQ(kd) + QP - 1 <= PubLen(kd)
         /\ PubOffs(kd)[IdxQ(kd)] = PubQ(kd)
         /\ Hybrid(kd) => /\ PubC(kd) + CP - 1 <= PubLen(kd) /\ PubC(kd) > 1 /\ PubQ(kd) > 1
                          /\ PubC(kd) + CP <= PubQ(kd) \/ PubQ(kd) + QP <= PubC(kd)
                          /\ PubOffs(kd)[IdxC(kd)] = PubC(kd) /\ PubOffs(kd)[1] = 2
                          /\ PubLen(kd) = 1 + CP + QP
<1>1. CASE ~Hybrid(kd)
  BY <1>1, Lengths, KindFacts DEF PubLen, PubC, PubQ, PubOffs
<1>2. CASE Hybrid(kd) /\ Reversed(kd)
  BY <1>2, Lengths, KindFacts DEF PubLen, PubC, PubQ, PubOffs
<1>3. CASE Hybrid(kd) /\ ~Reversed(kd)
  BY <1>3, Lengths, KindFacts DEF PubLen, PubC, PubQ, PubOffs
<1> QED BY <1>1, <1>2, <1>3, KindFacts

(* The same of a private buffer, and of the part of it that PKCS#8 keeps.  *)
LEMMA PrivPlaces ==
  ASSUME NEW kd \in Kinds, NEW n \in PrivLens(kd)
  PROVE  /\ PrivLen(kd) \in Nat \ {0} /\ PrivC(kd) \in Nat \ {0} /\ PrivQ(kd, n) \in Nat \ {0}
         /\ PrivUsed(kd, n) \in Nat \ {0} /\ PrivUsed(kd, n) <= PrivLen(kd)
         /\ PrivQ(kd, n) + QS - 1 <= PrivUsed(kd, n)
         /\ PrivOffs(kd, n)[IdxQ(kd)] = PrivQ(kd, n)
         /\ n \in Nat \ {0} /\ n <= CS
         /\ Hybrid(kd) => /\ PrivC(kd) + n - 1 <= PrivUsed(kd, n) /\ PrivC(kd) > 1 /\ PrivQ(kd, n) > 1
                          /\ PrivC(kd) + n <= PrivQ(kd, n) \/ PrivQ(kd, n) + QS <= PrivC(kd)
                          /\ PrivOffs(kd, n)[IdxC(kd)] = PrivC(kd)
                          /\ PrivLen(kd) = 1 + CS + QS /\ PrivUsed(kd, n) = 1 + n + QS
<1>1. n \in Nat \ {0} /\ n <= CS
  BY Lengths, KindFacts
<1>2. CASE ~Hybrid(kd)
  BY <1>1, <1>2, Lengths, KindFacts DEF PrivLen, PrivC, PrivQ, PrivOffs, PrivUsed
<1>3. CASE Hybrid(kd) /\ Reversed(kd)
  BY <1>1, <1>3, Lengths, KindFacts DEF PrivLen, PrivC, PrivQ, PrivOffs, PrivUsed
<1>4. CASE Hybrid(kd) /\ ~Reversed(kd)
  BY <1>1, <1>4, Lengths, KindFacts DEF PrivLen, PrivC, PrivQ, PrivOffs, PrivUsed
<1> QED BY <1>2, <1>3, <1>4, KindFacts

(* NULL is no buffer.                                                      *)
LEMMA BufferIsNotNull ==
  ASSUME NEW n \in Nat, NEW b \in [1..n -> Cell]
  PROVE  b # Null
BY FunSeq, MaterialAssumption, SMTT(60)

(* oqsx_comp_set_offsets finds the components.                             *)
LEMMA OffsetsOfPub ==
  ASSUME NEW kd \in Kinds, NEW b, kd = "hybsig" => b[1] = Num(CP)
  PROVE  Offsets(kd, b, CP, QP) = PubOffs(kd)
BY KindFacts, CellFacts DEF Offsets, PubOffs

(* The same in a private buffer of a classical key of length n.            *)
LEMMA OffsetsOfPriv ==
  ASSUME NEW kd \in Kinds, NEW n \in PrivLens(kd), NEW b, kd = "hybsig" => b[1] = Num(n)
  PROVE  Offsets(kd, b, CS, QS) = PrivOffs(kd, n)
BY KindFacts, CellFacts DEF Offsets, PrivOffs

(* So do the pointers of a public buffer.                                  *)
LEMMA CompPubIs ==
  ASSUME NEW kd \in Kinds, NEW b \in [1..PubLen(kd) -> Cell], kd = "hybsig" => b[1] = Num(CP)
  PROVE  CompPub(kd, b) = PubOffs(kd)
<1>1. b # Null
  BY PubPlaces, BufferIsNotNull
<1> QED BY <1>1, OffsetsOfPub DEF CompPub

(* And those of a private one.                                             *)
LEMMA CompPrivIs ==
  ASSUME NEW kd \in Kinds, NEW n \in PrivLens(kd), NEW b \in [1..PrivLen(kd) -> Cell],
         kd = "hybsig" => b[1] = Num(n)
  PROVE  CompPriv(kd, b) = PrivOffs(kd, n)
<1>1. b # Null
  BY PrivPlaces, BufferIsNotNull
<1> QED BY <1>1, OffsetsOfPriv DEF CompPriv

(* What is read through right pointers.                                    *)
LEMMA PubRead ==
  ASSUME NEW kd \in Kinds, NEW id \in Ids, NEW b, PubOK(kd, id, b)
  PROVE  /\ Read(b, PubOffs(kd)[IdxQ(kd)], QP) = Part("qp", id, QP)
         /\ Hybrid(kd) => Read(b, PubOffs(kd)[IdxC(kd)], CP) = Part("cp", id, CP)
<1>1. b \in [1..PubLen(kd) -> Cell] /\ PubHas(kd, id, b)
  BY MaterialAssumption DEF PubOK
<1>2. Read(b, PubQ(kd), QP) = Part("qp", id, QP)
  BY <1>1, PubPlaces, Lengths, ReadPart DEF PubHas
<1>3. ASSUME Hybrid(kd) PROVE Read(b, PubC(kd), CP) = Part("cp", id, CP)
  <2>1. At(b, PubC(kd), "cp", id, CP)
    BY <1>1, <1>3 DEF PubHas
  <2>2. PubC(kd) \in Nat \ {0} /\ PubC(kd) + CP - 1 <= PubLen(kd) /\ PubLen(kd) \in Nat
    BY <1>3, PubPlaces
  <2> QED BY <1>1, <2>1, <2>2, Lengths, ReadPart
<1> QED BY <1>2, <1>3, PubPlaces

(* The same of a private buffer.                                           *)
LEMMA PrivRead ==
  ASSUME NEW kd \in Kinds, NEW id \in Ids, NEW b \in [1..PrivLen(kd) -> Cell],
         NEW n \in PrivLens(kd), PrivHas(kd, id, b, n)
  PROVE  /\ CompPriv(kd, b) = PrivOffs(kd, n)
         /\ Read(b, CompPriv(kd, b)[IdxQ(kd)], QS) = Part("qs", id, QS)
         /\ Hybrid(kd) => /\ b[1][2] = n
                          /\ Read(b, CompPriv(kd, b)[IdxC(kd)], n) = Part("cs", id, n)
<1>1. CompPriv(kd, b) = PrivOffs(kd, n)
  BY KindFacts, CompPrivIs DEF PrivHas
<1>2. Read(b, PrivQ(kd, n), QS) = Part("qs", id, QS)
  BY PrivPlaces, Lengths, ReadPart, SMTT(60) DEF PrivHas
<1>3. ASSUME Hybrid(kd) PROVE b[1][2] = n /\ Read(b, PrivC(kd), n) = Part("cs", id, n)
  <2>1. b[1] = Num(n) /\ At(b, PrivC(kd), "cs", id, n)
    BY <1>3 DEF PrivHas
  <2>2. /\ PrivC(kd) \in Nat \ {0} /\ PrivUsed(kd, n) \in Nat /\ PrivLen(kd) \in Nat /\ n \in Nat
        /\ PrivC(kd) + n - 1 <= PrivUsed(kd, n) /\ PrivUsed(kd, n) <= PrivLen(kd)
    BY <1>3, PrivPlaces
  <2>3. PrivC(kd) + n - 1 <= PrivLen(kd)
    BY <2>2
  <2>4. Read(b, PrivC(kd), n) = Part("cs", id, n)
    BY <2>1, <2>2, <2>3, ReadPart
  <2> QED BY <2>1, <2>4, CellFacts
<1> QED BY <1>1, <1>2, <1>3, PrivPlaces

-----------------------------------------------------------------------------
(* Filling a buffer.                                                       *)

(* The length field is where it was written, and the rest as it was.       *)
LEMMA OverlayLength ==
  ASSUME NEW m \in Nat \ {0}, NEW b \in [1..m -> Cell], NEW n \in Nat
  PROVE  /\ Overlay(b, 1, <<Num(n)>>) \in [1..m -> Cell]
         /\ Overlay(b, 1, <<Num(n)>>)[1] = Num(n)
         /\ \A tag, i : \A o \in Nat, l \in Nat :
              o > 1 /\ o + l - 1 <= m /\ At(b, o, tag, i, l) => At(Overlay(b, 1, <<Num(n)>>), o, tag, i, l)
<1>1. PICK one \in Nat \ {0} : one = 1
  OBVIOUS
<1>2. PICK s : s = <<Num(n)>>
  OBVIOUS
<1>3. s \in [1..one -> Cell] /\ s[one] = Num(n)
  BY <1>1, <1>2, CellFacts
<1>4. PICK c : c = Overlay(b, one, s)
  OBVIOUS
<1>5. c \in [1..m -> Cell]
  BY <1>3, <1>4, OverlayIs
<1>6. \A p \in 1..m : c[p] = IF p \in one..(one + one - 1) THEN s[p - one + 1] ELSE b[p]
  BY <1>3, <1>4, OverlayIs
<1>7. one \in 1..m /\ one \in one..(one + one - 1) /\ one - one + 1 = one
  BY <1>1
<1>8. c[one] = Num(n)
  BY <1>3, <1>6, <1>7
<1>9. ASSUME NEW tag, NEW i, NEW o \in Nat, NEW l \in Nat, o > 1, o + l - 1 <= m, At(b, o, tag, i, l)
      PROVE  At(c, o, tag, i, l)
  <2>1. o \in Nat \ {0} /\ one + one <= o
    BY <1>1, <1>9
  <2> QED BY <1>3, <1>4, <1>9, <2>1, OverlayLeaves
<1> QED BY <1>1, <1>2, <1>4, <1>5, <1>8, <1>9

(* Writing behind the length field leaves it alone.                        *)
LEMMA OverlayBehind ==
  ASSUME NEW m \in Nat \ {0}, NEW b \in [1..m -> Cell], NEW off \in Nat, off > 1, NEW l \in Nat, NEW s \in [1..l -> Cell]
  PROVE  Overlay(b, off, s)[1] = b[1]
<1> off \in Nat \ {0}
  OBVIOUS
<1>1. \A p \in 1..m : Overlay(b, off, s)[p] = IF p \in off..(off + l - 1) THEN s[p - off + 1] ELSE b[p]
  BY OverlayIs
<1>2. 1 \in 1..m /\ 1 \notin off..(off + l - 1)
  OBVIOUS
<1> QED BY <1>1, <1>2

(* A hybrid public buffer is complete once the classical part is written.  *)
LEMMA PubCompleted ==
  ASSUME NEW kd \in Kinds, NEW i \in Ids, Hybrid(kd), NEW b \in [1..PubLen(kd) -> Cell],
         b[1] = Num(CP), At(b, PubQ(kd), "qp", i, QP)
  PROVE  /\ PubOK(kd, i, Overlay(b, PubC(kd), Part("cp", i, CP)))
         /\ Overlay(b, PubC(kd), Part("cp", i, CP))[1] = Num(CP)
<1>1. PICK s : s = Part("cp", i, CP)
  OBVIOUS
<1>2. s \in [1..CP -> Cell] /\ \A p \in 1..CP : s[p] = <<"cp", i, p, CP>>
  BY <1>1, PartIs, Lengths DEF Owners
<1>3. PICK c : c = Overlay(b, PubC(kd), s)
  OBVIOUS
<1>4. /\ PubLen(kd) \in Nat \ {0} /\ PubC(kd) \in Nat \ {0} /\ PubQ(kd) \in Nat \ {0}
      /\ PubC(kd) > 1 /\ PubC(kd) + CP - 1 <= PubLen(kd) /\ PubQ(kd) + QP - 1 <= PubLen(kd)
      /\ PubC(kd) + CP <= PubQ(kd) \/ PubQ(kd) + QP <= PubC(kd)
  BY PubPlaces
<1>5. c \in [1..PubLen(kd) -> Cell]
  BY <1>2, <1>3, <1>4, Lengths, OverlayIs
<1>6. c[1] = Num(CP)
  <2>1. PubLen(kd) \in Nat \ {0} /\ PubC(kd) \in Nat /\ PubC(kd) > 1 /\ CP \in Nat
    BY <1>4, Lengths
  <2>2. Overlay(b, PubC(kd), s)[1] = b[1]
    BY <1>2, <2>1, OverlayBehind, ZenonT(60)
  <2> QED BY <1>3, <2>2
<1>7. At(c, PubC(kd), "cp", i, CP)
  BY <1>2, <1>3, <1>4, Lengths, OverlayPuts
<1>8. At(c, PubQ(kd), "qp", i, QP)
  BY <1>2, <1>3, <1>4, Lengths, OverlayLeaves
<1>9. PubOK(kd, i, c)
  BY <1>5, <1>6, <1>7, <1>8, MaterialAssumption DEF PubOK, PubHas
<1> QED BY <1>1, <1>3, <1>6, <1>9

(* oqsx_key_gen fills the public buffer.                                   *)
LEMMA GenPubOK ==
  ASSUME NEW kd \in Kinds, NEW i \in Ids
  PROVE  PubOK(kd, i, GenPub(kd, i)) /\ (Hybrid(kd) => GenPub(kd, i)[1] = Num(CP))
<1>1. PICK z : z = Zeros(PubLen(kd))
  OBVIOUS
<1>2. PICK s : s = Part("qp", i, QP)
  OBVIOUS
<1>3. PICK q : q = Overlay(z, PubQ(kd), s)
  OBVIOUS
<1>4. /\ PubLen(kd) \in Nat \ {0} /\ PubQ(kd) \in Nat \ {0} /\ PubQ(kd) + QP - 1 <= PubLen(kd)
      /\ PubOffs(kd)[IdxQ(kd)] = PubQ(kd)
  BY PubPlaces
<1>5. z \in [1..PubLen(kd) -> Cell]
  BY <1>1, <1>4, ZerosIs
<1>6. s \in [1..QP -> Cell] /\ \A p \in 1..QP : s[p] = <<"qp", i, p, QP>>
  BY <1>2, PartIs, Lengths DEF Owners
<1>7. q \in [1..PubLen(kd) -> Cell]
  BY <1>3, <1>4, <1>5, <1>6, Lengths, OverlayIs
<1>8. At(q, PubQ(kd), "qp", i, QP)
  BY <1>3, <1>4, <1>5, <1>6, Lengths, OverlayPuts
<1>9. Offsets(kd, <<Num(CP)>>, CP, QP) = PubOffs(kd)
  BY OffsetsOfPub
<1>10. CASE ~Hybrid(kd)
  <2>1. GenPub(kd, i) = q
    BY <1>1, <1>2, <1>3, <1>4, <1>9, <1>10 DEF GenPub
  <2>2. kd # "hybsig"
    BY <1>10 DEF Hybrid
  <2> QED BY <1>7, <1>8, <1>10, <2>1, <2>2, MaterialAssumption DEF PubOK, PubHas
<1>11. CASE Hybrid(kd)
  <2>1. PICK c : c = Overlay(q, 1, <<Num(CP)>>)
    OBVIOUS
  <2>2. PubQ(kd) > 1 /\ PubOffs(kd)[IdxC(kd)] = PubC(kd)
    BY <1>11, PubPlaces
  <2>3. GenPub(kd, i) = Overlay(c, PubC(kd), Part("cp", i, CP))
    BY <1>1, <1>2, <1>3, <1>4, <1>9, <1>11, <2>1, <2>2 DEF GenPub
  <2>4. c \in [1..PubLen(kd) -> Cell] /\ c[1] = Num(CP)
    BY <1>4, <1>7, <2>1, Lengths, OverlayLength
  <2>5. At(c, PubQ(kd), "qp", i, QP)
    BY <1>4, <1>7, <1>8, <2>1, <2>2, Lengths, OverlayLength
  <2> QED BY <1>11, <2>3, <2>4, <2>5, PubCompleted
<1> QED BY <1>10, <1>11

(* And the private one.                                                    *)
LEMMA GenPrivOK ==
  ASSUME NEW kd \in Kinds, NEW i \in Ids, NEW n \in PrivLens(kd)
  PROVE  GenPriv(kd, i, n) \in [1..PrivLen(kd) -> Cell] /\ PrivHas(kd, i, GenPriv(kd, i, n), n)
<1>1. PICK z : z = Zeros(PrivLen(kd))
  OBVIOUS
<1>2. PICK s : s = Part("qs", i, QS)
  OBVIOUS
<1>3. PICK q : q = Overlay(z, PrivQ(kd, n), s)
  OBVIOUS
<1>4. /\ PrivLen(kd) \in Nat \ {0} /\ PrivQ(kd, n) \in Nat \ {0} /\ PrivUsed(kd, n) \in Nat /\ n \in Nat
      /\ PrivQ(kd, n) + QS - 1 <= PrivUsed(kd, n) /\ PrivUsed(kd, n) <= PrivLen(kd)
      /\ PrivOffs(kd, n)[IdxQ(kd)] = PrivQ(kd, n)
  BY PrivPlaces
<1>5. z \in [1..PrivLen(kd) -> Cell] /\ PrivQ(kd, n) + QS - 1 <= PrivLen(kd)
  BY <1>1, <1>4, Lengths, ZerosIs
<1>6. s \in [1..QS -> Cell] /\ \A p \in 1..QS : s[p] = <<"qs", i, p, QS>>
  BY <1>2, PartIs, Lengths DEF Owners
<1>7. q \in [1..PrivLen(kd) -> Cell]
  BY <1>3, <1>4, <1>5, <1>6, Lengths, OverlayIs
<1>8. At(q, PrivQ(kd, n), "qs", i, QS)
  BY <1>3, <1>4, <1>5, <1>6, Lengths, OverlayPuts
<1>9. Offsets(kd, <<Num(n)>>, CS, QS) = PrivOffs(kd, n)
  BY OffsetsOfPriv
<1>10. CASE ~Hybrid(kd)
  <2>1. GenPriv(kd, i, n) = q
    BY <1>1, <1>2, <1>3, <1>4, <1>9, <1>10 DEF GenPriv
  <2> QED BY <1>7, <1>8, <1>10, <2>1 DEF PrivHas
<1>11. CASE Hybrid(kd)
  <2>1. PICK c : c = Overlay(q, 1, <<Num(n)>>)
    OBVIOUS
  <2>2. PICK t : t = Part("cs", i, n)
    OBVIOUS
  <2>3. PICK d : d = Overlay(c, PrivC(kd), t)
    OBVIOUS
  <2>4. /\ PrivQ(kd, n) > 1 /\ PrivC(kd) > 1 /\ PrivC(kd) \in Nat \ {0}
        /\ PrivC(kd) + n - 1 <= PrivUsed(kd, n)
        /\ PrivC(kd) + n <= PrivQ(kd, n) \/ PrivQ(kd, n) + QS <= PrivC(kd)
        /\ PrivOffs(kd, n)[IdxC(kd)] = PrivC(kd)
    BY <1>11, PrivPlaces
  <2>5. GenPriv(kd, i, n) = d
    BY <1>1, <1>2, <1>3, <1>4, <1>9, <1>11, <2>1, <2>2, <2>3, <2>4 DEF GenPriv
  <2>7. c \in [1..PrivLen(kd) -> Cell] /\ c[1] = Num(n)
    BY <1>4, <1>7, <2>1, OverlayLength
  <2>8. PrivC(kd) + n - 1 <= PrivLen(kd)
    BY <1>4, <2>4
  <2>10. At(c, PrivQ(kd, n), "qs", i, QS)
    BY <1>4, <1>5, <1>7, <1>8, <2>1, <2>4, Lengths, OverlayLength
  <2>11. t \in [1..n -> Cell] /\ \A p \in 1..n : t[p] = <<"cs", i, p, n>>
    BY <1>4, <2>2, PartIs, ZenonT(60) DEF Owners
  <2>12. d \in [1..PrivLen(kd) -> Cell]
    BY <1>4, <2>3, <2>4, <2>7, <2>11, OverlayIs
  <2>13. d[1] = Num(n)
    <3>1. PrivLen(kd) \in Nat \ {0} /\ PrivC(kd) \in Nat /\ PrivC(kd) > 1 /\ n \in Nat
      BY <1>4, <2>4
    <3>2. Overlay(c, PrivC(kd), t)[1] = c[1]
      BY <2>7, <2>11, <3>1, OverlayBehind, ZenonT(60)
    <3> QED BY <2>3, <2>7, <3>2
  <2>14. At(d, PrivC(kd), "cs", i, n)
    BY <1>4, <2>3, <2>4, <2>7, <2>8, <2>11, OverlayPuts
  <2>15. At(d, PrivQ(kd, n), "qs", i, QS)
    BY <1>4, <1>5, <2>3, <2>4, <2>7, <2>10, <2>11, Lengths, OverlayLeaves
  <2> QED BY <2>5, <2>12, <2>13, <2>14, <2>15 DEF PrivHas
<1> QED BY <1>10, <1>11

-----------------------------------------------------------------------------
(* Key objects.                                                            *)

(* The values the fields of a key object take.                             *)
LEMMA PubOffsIs ==
  ASSUME NEW kd \in Kinds
  PROVE  PubOffs(kd) \in Seq(Nat) /\ PubOffs(kd) # Null
<1>1. PubOffs(kd) \in Seq(Nat)
  BY Lengths DEF PubOffs
<1> QED BY <1>1, MaterialAssumption

(* Private pointers are pointers.                                          *)
LEMMA PrivOffsIs ==
  ASSUME NEW kd \in Kinds, NEW n \in Nat
  PROVE  PrivOffs(kd, n) \in Seq(Nat) /\ PrivOffs(kd, n) # Null
<1>1. PrivOffs(kd, n) \in Seq(Nat)
  BY Lengths DEF PrivOffs
<1> QED BY <1>1, MaterialAssumption

(* A public buffer is a buffer of its length.                              *)
LEMMA PubIs ==
  ASSUME NEW kd \in Kinds, NEW b \in [1..PubLen(kd) -> Cell]
  PROVE  b \in Seq(Cell) /\ b # Null /\ Len(b) = PubLen(kd)
<1>1. PubLen(kd) \in Nat
  BY PubPlaces
<1> QED BY <1>1, FunSeq, BufferIsNotNull

(* And so is a private one.                                                *)
LEMMA PrivIs ==
  ASSUME NEW kd \in Kinds, NEW b \in [1..PrivLen(kd) -> Cell]
  PROVE  b \in Seq(Cell) /\ b # Null /\ Len(b) = PrivLen(kd) /\ PrivLen(kd) \in Nat \ {0}
<1>1. PrivLen(kd) \in Nat \ {0}
  BY Lengths DEF PrivLen
<1>2. PICK m \in Nat \ {0} : m = PrivLen(kd)
  BY <1>1
<1>3. b \in Seq(Cell) /\ Len(b) = m
  BY <1>2, FunSeq
<1>4. b # Null
  BY <1>3, MaterialAssumption
<1> QED BY <1>1, <1>2, <1>3, <1>4

(* The classical pointer of a hybrid key does not depend on the buffer.    *)
LEMMA ClassicOffset ==
  ASSUME NEW kd \in Kinds, Hybrid(kd), NEW b, NEW c, NEW q
  PROVE  Offsets(kd, b, c, q)[IdxC(kd)] = IF Reversed(kd) THEN 2 + q ELSE 2
<1>1. CASE Reversed(kd)
  BY <1>1, KindFacts DEF Offsets
<1>2. CASE ~Reversed(kd)
  BY <1>2, KindFacts DEF Offsets
<1> QED BY <1>1, <1>2

(* What was never generated has no owner.                                  *)
LEMMA ReadZeros ==
  ASSUME NEW m \in Nat, NEW b \in [1..m -> Cell], NEW off \in Nat \ {0}, NEW n \in Nat, off + n - 1 <= m,
         NEW tag \in {"cp", "cs", "qp", "qs"}, n # 0 => b[off] = Zero
  PROVE  OwnerOf(tag, Read(b, off, n)) = {}
<1>1. PICK r : r = Read(b, off, n)
  OBVIOUS
<1>2. r \in [1..n -> Cell] /\ \A p \in 1..n : r[p] = b[off + p - 1]
  BY <1>1, ReadIs
<1>3. n # 0 => r[1] = Zero
  <2>1. SUFFICES ASSUME n # 0 PROVE r[1] = Zero
    OBVIOUS
  <2>2. 1 \in 1..n /\ off + 1 - 1 = off
    BY <2>1
  <2>3. r[1] = b[off]
    BY <1>2, <2>2
  <2> QED BY <2>1, <2>3
<1>4. OwnerOf(tag, r) = {}
  BY <1>2, <1>3, OwnerOfNothing
<1> QED BY <1>1, <1>4

(* The classical public key that oqsx_key_recreate_classickey finds: that  *)
(* of the key pair, or one that a failed generation left.                  *)
LEMMA ReadablePubIs ==
  ASSUME NEW kd \in Kinds, Hybrid(kd), NEW id \in Ids \cup {Null}, NEW b, PubOK(kd, id, b),
         NEW i \in OwnerOf("cp", Read(b, CompPub(kd, b)[IdxC(kd)], b[1][2]))
  PROVE  i \in Owners /\ (id # Null => i = id) /\ b[1] = Num(CP)
<1>1. b \in [1..PubLen(kd) -> Cell] /\ b[1] \in {Zero, Num(CP)}
  BY DEF PubOK
<1>2. CompPub(kd, b)[IdxC(kd)] = PubC(kd)
  BY <1>1, PubIs, ClassicOffset DEF CompPub, PubC
<1>3. PubC(kd) \in Nat \ {0} /\ PubC(kd) > 1 /\ PubC(kd) + CP - 1 <= PubLen(kd) /\ PubLen(kd) \in Nat
  BY PubPlaces
<1>4. ASSUME b[1] = Zero PROVE FALSE
  <2>1. b[1][2] = 0 /\ PubC(kd) + 0 - 1 <= PubLen(kd)
    BY <1>3, <1>4, CellFacts, Lengths
  <2>2. OwnerOf("cp", Read(b, PubC(kd), 0)) = {}
    BY <1>1, <1>3, <2>1, ReadZeros
  <2> QED BY <1>2, <2>1, <2>2
<1>5. b[1] = Num(CP) /\ b[1][2] = CP
  BY <1>1, <1>4, CellFacts
<1>6. i \in Owners
  BY DEF OwnerOf
<1>7. ASSUME id # Null PROVE i = id
  <2>1. id \in Ids /\ id \in Owners
    BY <1>7 DEF Owners
  <2>2. Read(b, PubC(kd), CP) = Part("cp", id, CP)
    BY <2>1, PubRead, PubPlaces
  <2>3. OwnerOf("cp", Part("cp", id, CP)) = {id}
    BY <2>1, Lengths, OwnerOfPart
  <2> QED BY <1>2, <1>5, <2>2, <2>3
<1> QED BY <1>5, <1>6, <1>7

(* And the classical private one.                                          *)
LEMMA ReadablePrivIs ==
  ASSUME NEW kd \in Kinds, Hybrid(kd), NEW id \in Ids \cup {Null}, NEW b, PrivOK(kd, id, b),
         NEW i \in OwnerOf("cs", Read(b, CompPriv(kd, b)[IdxC(kd)], b[1][2]))
  PROVE  id # Null /\ i = id
<1>1. b \in [1..PrivLen(kd) -> Cell]
  BY DEF PrivOK
<1>2. ASSUME id = Null PROVE FALSE
  <2>1. b[1] = Zero
    BY <1>2 DEF PrivOK
  <2>2. CompPriv(kd, b)[IdxC(kd)] = PrivC(kd)
    BY <1>1, PrivIs, ClassicOffset DEF CompPriv, PrivC
  <2>3. PrivC(kd) \in Nat \ {0} /\ PrivC(kd) - 1 <= PrivLen(kd) /\ PrivLen(kd) \in Nat \ {0}
    BY Lengths DEF PrivC, PrivLen
  <2>4. b[1][2] = 0 /\ PrivC(kd) + 0 - 1 <= PrivLen(kd)
    BY <2>1, <2>3, CellFacts
  <2>5. OwnerOf("cs", Read(b, PrivC(kd), 0)) = {}
    BY <1>1, <2>3, <2>4, ReadZeros
  <2> QED BY <2>2, <2>4, <2>5
<1>3. id \in Ids /\ id \in Owners
  BY <1>2 DEF Owners
<1>4. PICK n \in PrivLens(kd) : PrivHas(kd, id, b, n)
  BY <1>2 DEF PrivOK
<1>5. b[1][2] = n /\ Read(b, CompPriv(kd, b)[IdxC(kd)], n) = Part("cs", id, n)
  BY <1>1, <1>3, <1>4, PrivRead
<1>6. OwnerOf("cs", Part("cs", id, n)) = {id}
  BY <1>3, PrivPlaces, OwnerOfPart
<1> QED BY <1>2, <1>5, <1>6

(* A key object is right when its parts are.                               *)
LEMMA KeyOKIs ==
  ASSUME NEW kd \in Kinds, NEW id \in Ids \cup {Null}, NEW k \in Key, k.kd = kd, k.id = id,
         PairOK(kd, id, k.pub, k.priv), PointersOK(k), ClassicalOK(k)
  PROVE  KeyOK(k)
BY DEF KeyOK

(* What the pointers of a private buffer are, whatever it holds.           *)
LEMMA CompPrivType ==
  ASSUME NEW kd \in Kinds, NEW id \in Ids \cup {Null}, NEW b, PrivOK(kd, id, b)
  PROVE  CompPriv(kd, b) \in Seq(Nat) /\ CompPriv(kd, b) # Null
<1>1. b \in [1..PrivLen(kd) -> Cell]
  BY DEF PrivOK
<1>2. CASE id = Null
  <2>1. b[1] = Zero
    BY <1>2 DEF PrivOK
  <2>2. CompPriv(kd, b) \in Seq(Nat)
    BY <1>1, <2>1, PrivIs, CellFacts, Lengths, KindFacts DEF CompPriv, Offsets
  <2> QED BY <2>2, MaterialAssumption
<1>3. CASE id \in Ids
  <2>1. PICK n \in PrivLens(kd) : PrivHas(kd, id, b, n)
    BY <1>3, MaterialAssumption DEF PrivOK
  <2>2. CompPriv(kd, b) = PrivOffs(kd, n) /\ n \in Nat
    BY <1>1, <1>3, <2>1, PrivRead, PrivPlaces
  <2> QED BY <2>2, PrivOffsIs
<1> QED BY <1>2, <1>3

(* A public key built from a buffer: by oqsx_key_fromdata or oqsx_key_op.  *)
LEMMA MadePublic ==
  ASSUME NEW kd \in Kinds, NEW id \in Ids \cup {Null}, NEW pub, PubOK(kd, id, pub),
         NEW k \in Recreated(Composed(kd, pub, Null, id), "public")
  PROVE  KeyOK(k)
<1>1. PICK k0 : k0 = Composed(kd, pub, Null, id)
  OBVIOUS
<1>2. pub \in [1..PubLen(kd) -> Cell] /\ pub \in Seq(Cell)
  BY PubIs DEF PubOK
<1>3. CompPub(kd, pub) \in Seq(Nat)
  <2>1. CASE kd = "hybsig"
    <3>1. Hybrid(kd)
      BY <2>1 DEF Hybrid
    <3>2. pub[1] \in {Zero, Num(CP)}
      BY <3>1 DEF PubOK
    <3> QED BY <1>2, <3>2, PubIs, CellFacts, Lengths DEF CompPub, Offsets
  <2>2. CASE kd # "hybsig"
    BY <1>2, <2>2, CompPubIs, PubOffsIs
  <2> QED BY <2>1, <2>2
<1>4. /\ k0 \in Key
      /\ k0.kd = kd /\ k0.pub = pub /\ k0.priv = Null /\ k0.cpub = CompPub(kd, pub)
      /\ k0.classical = Null /\ k0.id = id /\ k0.peer = FALSE
  <2>1. k0 = KeyObj(kd, pub, Null, CompPub(kd, pub), Null, Null, id, FALSE)
    BY <1>1 DEF Composed, CompPriv
  <2> QED BY <1>2, <1>3, <2>1 DEF KeyObj, Key
<1>5. PairOK(kd, id, pub, Null)
  BY DEF PairOK
<1>6. CASE ~Hybrid(kd)
  <2>1. k = k0
    BY <1>1, <1>4, <1>6 DEF Recreated
  <2>2. kd # "hybsig" /\ id # Null
    BY <1>6 DEF PubOK, Hybrid
  <2>3. CompPub(kd, pub) = PubOffs(kd) /\ PubOffs(kd) # Null
    BY <1>2, <2>2, CompPubIs, PubOffsIs
  <2>4. PointersOK(k)
    BY <1>4, <2>1, <2>3 DEF PointersOK
  <2>5. ClassicalOK(k)
    BY <1>4, <1>6, <2>1, <2>2 DEF ClassicalOK
  <2> QED BY <1>4, <1>5, <2>1, <2>4, <2>5, KeyOKIs
<1>7. CASE Hybrid(kd)
  <2>1. PICK i \in ReadablePub(k0) : k = [k0 EXCEPT !.classical = [id |-> i, priv |-> FALSE]]
    BY <1>1, <1>4, <1>7 DEF Recreated
  <2>2. i \in OwnerOf("cp", Read(pub, CompPub(kd, pub)[IdxC(kd)], pub[1][2]))
    BY <1>4, <2>1 DEF ReadablePub
  <2>3. i \in Owners /\ (id # Null => i = id) /\ pub[1] = Num(CP)
    BY <1>7, <2>2, ReadablePubIs
  <2>4. CompPub(kd, pub) = PubOffs(kd) /\ PubOffs(kd) # Null
    BY <1>2, <2>3, CompPubIs, PubOffsIs
  <2>5. /\ k.kd = kd /\ k.pub = pub /\ k.priv = Null /\ k.cpub = PubOffs(kd)
        /\ k.classical = [id |-> i, priv |-> FALSE] /\ k.id = id
    BY <1>4, <2>1, <2>4 DEF Key
  <2>6. k \in Key
    BY <1>4, <2>1, <2>3, ZenonT(60) DEF Key, Classical
  <2>7. PointersOK(k)
    BY <2>4, <2>5 DEF PointersOK
  <2>8. ClassicalOK(k)
    BY <2>3, <2>5 DEF ClassicalOK
  <2> QED BY <1>5, <2>5, <2>6, <2>7, <2>8, KeyOKIs
<1> QED BY <1>6, <1>7

(* A key pair built from its private buffer and a public one that has the  *)
(* post-quantum part.                                                      *)
LEMMA MadePrivate ==
  ASSUME NEW kd \in Kinds, NEW id \in Ids \cup {Null}, NEW pub \in [1..PubLen(kd) -> Cell],
         NEW priv, PrivOK(kd, id, priv),
         id # Null => At(pub, PubQ(kd), "qp", id, QP) /\ (Hybrid(kd) => pub[1] = Num(CP)),
         Hybrid(kd) => pub[1] \in {Zero, Num(CP)},
         NEW k \in Recreated(Composed(kd, pub, priv, id), "private")
  PROVE  KeyOK(k)
<1>1. PICK k0 : k0 = Composed(kd, pub, priv, id)
  OBVIOUS
<1>2. pub \in Seq(Cell) /\ pub # Null /\ priv \in Seq(Cell) /\ priv # Null
  BY PubIs, PrivIs DEF PrivOK
<1>3. CompPub(kd, pub) \in Seq(Nat)
  <2>1. CASE kd = "hybsig"
    <3>1. Hybrid(kd)
      BY <2>1 DEF Hybrid
    <3>2. pub[1] \in {Zero, Num(CP)}
      BY <3>1
    <3> QED BY <1>2, <3>2, PubIs, CellFacts, Lengths DEF CompPub, Offsets
  <2>2. CASE kd # "hybsig"
    BY <1>2, <2>2, CompPubIs, PubOffsIs
  <2> QED BY <2>1, <2>2
<1>4. /\ k0 \in Key
      /\ k0.kd = kd /\ k0.pub = pub /\ k0.priv = priv /\ k0.cpub = CompPub(kd, pub)
      /\ k0.cpriv = CompPriv(kd, priv) /\ k0.classical = Null /\ k0.id = id /\ k0.peer = FALSE
  <2>1. k0 = KeyObj(kd, pub, priv, CompPub(kd, pub), CompPriv(kd, priv), Null, id, FALSE)
    BY <1>1 DEF Composed
  <2>2. CompPriv(kd, priv) \in Seq(Nat)
    BY CompPrivType
  <2> QED BY <1>2, <1>3, <2>1, <2>2 DEF KeyObj, Key
<1>5. CASE ~Hybrid(kd)
  <2>1. k = k0
    BY <1>1, <1>4, <1>5 DEF Recreated
  <2>2. kd # "hybsig" /\ id # Null
    BY <1>5 DEF PrivOK, Hybrid
  <2>3. CompPub(kd, pub) = PubOffs(kd) /\ PubOffs(kd) # Null
    BY <2>2, CompPubIs, PubOffsIs
  <2>4. PairOK(kd, id, pub, priv)
    BY <1>5, <2>2 DEF PairOK, PubOK, PubHas
  <2>5. PointersOK(k)
    BY <1>4, <2>1, <2>3 DEF PointersOK
  <2>6. ClassicalOK(k)
    BY <1>4, <1>5, <2>1, <2>2 DEF ClassicalOK
  <2> QED BY <1>4, <2>1, <2>4, <2>5, <2>6, KeyOKIs
<1>6. CASE Hybrid(kd)
  <2>1. PICK i \in ReadablePriv(k0) :
          k = [k0 EXCEPT !.classical = [id |-> i, priv |-> TRUE],
                         !.pub = Overlay(pub, CompPub(kd, pub)[IdxC(kd)], Part("cp", i, CP))]
    BY <1>1, <1>2, <1>4, <1>6, ZenonT(60) DEF Recreated
  <2>2. i \in OwnerOf("cs", Read(priv, CompPriv(kd, priv)[IdxC(kd)], priv[1][2]))
    BY <1>4, <2>1 DEF ReadablePriv, ClassicPriv
  <2>3. id \in Ids /\ id \in Owners /\ id # Null /\ i = id
    BY <1>6, <2>2, ReadablePrivIs DEF Owners
  <2>4. CompPub(kd, pub) = PubOffs(kd) /\ PubOffs(kd) # Null
    BY <1>6, <2>3, CompPubIs, PubOffsIs
  <2>5. CompPub(kd, pub)[IdxC(kd)] = PubC(kd)
    BY <1>6, <2>4, PubPlaces
  <2>6. PICK b : b = Overlay(pub, PubC(kd), Part("cp", id, CP))
    OBVIOUS
  <2>7. PubOK(kd, id, b) /\ b[1] = Num(CP)
    BY <1>6, <2>3, <2>6, PubCompleted
  <2>8. /\ k.kd = kd /\ k.pub = b /\ k.priv = priv /\ k.cpub = PubOffs(kd) /\ k.cpriv = CompPriv(kd, priv)
        /\ k.classical = [id |-> id, priv |-> TRUE] /\ k.id = id
    BY <1>4, <2>1, <2>3, <2>4, <2>5, <2>6 DEF Key
  <2>9. b \in Seq(Cell)
    BY <2>7, PubIs DEF PubOK
  <2>10. k \in Key
    <3>1. PICK c : c = [id |-> id, priv |-> TRUE]
      OBVIOUS
    <3>2. c \in Classical
      BY <2>3, <3>1 DEF Classical
    <3>3. k = [k0 EXCEPT !.classical = c, !.pub = b]
      BY <2>1, <2>3, <2>5, <2>6, <3>1
    <3> QED BY <1>4, <2>9, <3>2, <3>3, ZenonT(60) DEF Key
  <2>11. PairOK(kd, id, b, priv)
    BY <2>7 DEF PairOK
  <2>12. PointersOK(k)
    BY <2>4, <2>8 DEF PointersOK
  <2>13. ClassicalOK(k)
    BY <1>2, <2>3, <2>8 DEF ClassicalOK
  <2> QED BY <2>8, <2>10, <2>11, <2>12, <2>13, KeyOKIs
<1> QED BY <1>5, <1>6

(* Putting a key object that is right, or none, in a slot.                 *)
LEMMA PutKey ==
  ASSUME KeysOK, NEW s \in Slots, NEW k, k = Null \/ KeyOK(k), Put(s, k)
  PROVE  KeysOK'
<1>1. key' = [key EXCEPT ![s] = k] /\ key \in [Slots -> Key \cup {Null}]
  BY DEF Put, KeysOK
<1>2. k \in Key \cup {Null}
  BY DEF KeyOK
<1>3. key' \in [Slots -> Key \cup {Null}]
  BY <1>1, <1>2
<1>4. ASSUME NEW t \in Slots, key'[t] # Null PROVE KeyOK(key'[t])
  <2>1. CASE t = s
    BY <1>1, <1>4, <2>1
  <2>2. CASE t # s
    <3>1. key'[t] = key[t]
      BY <1>1, <2>2
    <3> QED BY <1>4, <3>1 DEF KeysOK, Live
  <2> QED BY <2>1, <2>2
<1> QED BY <1>3, <1>4 DEF KeysOK, Live

(* The import and decoder paths put a right key, or free the object.       *)
LEMMA BuildOK ==
  ASSUME KeysOK, NEW s \in Slots, NEW kd, NEW pub, NEW priv, NEW op, NEW id,
         Build(s, kd, pub, priv, op, id),
         \A k \in Recreated(Composed(kd, pub, priv, id), op) : KeyOK(k)
  PROVE  KeysOK'
<1>1. \/ Put(s, Null)
      \/ \E k \in Recreated(Composed(kd, pub, priv, id), op) : Put(s, k)
  BY DEF Build
<1>2. CASE Put(s, Null)
  BY <1>2, PutKey
<1>3. ASSUME NEW k \in Recreated(Composed(kd, pub, priv, id), op), Put(s, k) PROVE KeysOK'
  BY <1>3, PutKey
<1> QED BY <1>1, <1>2, <1>3

-----------------------------------------------------------------------------
(* The actions that make, use and free key objects.                        *)

(* What the invariant says of the key object in a slot.                    *)
LEMMA LiveKey ==
  ASSUME KeysOK, NEW s \in Slots, Live(s), NEW k, k = key[s]
  PROVE  /\ k \in Key /\ k.kd \in Kinds /\ k.id \in Ids \cup {Null} /\ Null \notin Ids
         /\ KeyOK(k) /\ PairOK(k.kd, k.id, k.pub, k.priv) /\ PubOK(k.kd, k.id, k.pub)
         /\ k.pub \in [1..PubLen(k.kd) -> Cell] /\ k.pub # Null
         /\ k.priv # Null => PrivOK(k.kd, k.id, k.priv)
         /\ PointersOK(k) /\ ClassicalOK(k)
<1>1. KeyOK(k)
  BY DEF KeysOK
<1>2. k \in Key /\ k.kd \in Kinds /\ k.id \in Ids \cup {Null}
  BY <1>1 DEF KeyOK, Key
<1>3. PairOK(k.kd, k.id, k.pub, k.priv) /\ PointersOK(k) /\ ClassicalOK(k)
  BY <1>1 DEF KeyOK
<1>4. PubOK(k.kd, k.id, k.pub) /\ (k.priv # Null => PrivOK(k.kd, k.id, k.priv))
  BY <1>3 DEF PairOK
<1>5. k.pub \in [1..PubLen(k.kd) -> Cell]
  BY <1>4 DEF PubOK
<1>6. k.pub # Null
  BY <1>2, <1>5, PubIs
<1> QED BY <1>1, <1>2, <1>3, <1>4, <1>5, <1>6, MaterialAssumption

(* oqsx_key_gen that succeeds.                                             *)
LEMMA KeyGenOK ==
  ASSUME KeysOK, NEW s \in Slots, NEW kd \in Kinds, NEW i \in Ids, NEW n, KeyGen(s, kd, i, n)
  PROVE  KeysOK'
<1>1. PICK pub : pub = GenPub(kd, i)
  OBVIOUS
<1>2. PICK priv : priv = GenPriv(kd, i, n)
  OBVIOUS
<1>3. PICK cl : cl = IF Hybrid(kd) THEN [id |-> i, priv |-> TRUE] ELSE Null
  OBVIOUS
<1>4. PICK k : k = KeyObj(kd, pub, priv, CompPub(kd, pub), CompPriv(kd, priv), cl, i, FALSE)
  OBVIOUS
<1>5. Put(s, k) /\ n \in PrivLens(kd)
  BY <1>1, <1>2, <1>3, <1>4 DEF KeyGen
<1>6. PubOK(kd, i, pub) /\ (Hybrid(kd) => pub[1] = Num(CP))
  BY <1>1, GenPubOK
<1>7. priv \in [1..PrivLen(kd) -> Cell] /\ PrivHas(kd, i, priv, n)
  BY <1>2, <1>5, GenPrivOK
<1>8. i # Null
  BY MaterialAssumption
<1>9. PrivOK(kd, i, priv)
  BY <1>5, <1>7, <1>8 DEF PrivOK
<1>10. pub \in [1..PubLen(kd) -> Cell]
  BY <1>6 DEF PubOK
<1>11. CompPub(kd, pub) = PubOffs(kd) /\ PubOffs(kd) # Null /\ PubOffs(kd) \in Seq(Nat)
  BY <1>6, <1>10, KindFacts, CompPubIs, PubOffsIs
<1>12. CompPriv(kd, priv) \in Seq(Nat)
  BY <1>9, CompPrivType
<1>13. pub \in Seq(Cell) /\ priv \in Seq(Cell) /\ priv # Null
  BY <1>7, <1>10, PubIs, PrivIs
<1>14. cl \in Classical \cup {Null}
  BY <1>3 DEF Classical, Owners
<1>15. /\ k.kd = kd /\ k.pub = pub /\ k.priv = priv /\ k.cpub = CompPub(kd, pub)
       /\ k.cpriv = CompPriv(kd, priv) /\ k.classical = cl /\ k.id = i
  BY <1>4 DEF KeyObj
<1>16. k \in Key
  BY <1>4, <1>11, <1>12, <1>13, <1>14 DEF KeyObj, Key
<1>17. PairOK(kd, i, pub, priv)
  BY <1>6, <1>9 DEF PairOK
<1>18. PointersOK(k)
  BY <1>11, <1>15 DEF PointersOK
<1>19. ClassicalOK(k)
  BY <1>3, <1>8, <1>13, <1>15 DEF ClassicalOK
<1>20. KeyOK(k)
  BY <1>15, <1>16, <1>17, <1>18, <1>19, KeyOKIs
<1> QED BY <1>5, <1>20, PutKey

(* A buffer that a failed classical generation leaves: whatever was        *)
(* written behind the length field, that field is zero.                    *)
LEMMA HalfBuffer ==
  ASSUME NEW m \in Nat \ {0}, NEW off \in Nat, off > 1, NEW l \in Nat, NEW c \in [1..l -> Cell]
  PROVE  /\ Zeros(m) \in [1..m -> Cell] /\ Zeros(m)[1] = Zero
         /\ Overlay(Zeros(m), off, c) \in [1..m -> Cell] /\ Overlay(Zeros(m), off, c)[1] = Zero
<1>1. PICK z : z = Zeros(m)
  OBVIOUS
<1>2. z \in [1..m -> Cell] /\ z[1] = Zero
  <2>1. 1 \in 1..m
    OBVIOUS
  <2> QED BY <1>1, <2>1, ZerosIs
<1>3. Overlay(z, off, c) \in [1..m -> Cell]
  BY <1>2, OverlayIs
<1>4. Overlay(z, off, c)[1] = Zero
  BY <1>2, OverlayBehind
<1> QED BY <1>1, <1>2, <1>3, <1>4

(* oqsx_key_gen whose classical half failed.                               *)
LEMMA KeyGenHalfOK ==
  ASSUME KeysOK, NEW s \in Slots, NEW kd \in Kinds, NEW p \in BOOLEAN, NEW n \in 0..CS,
         KeyGenHalf(s, kd, p, n)
  PROVE  KeysOK'
<1>1. PICK pub : pub = HalfPub(kd, p)
  OBVIOUS
<1>2. PICK priv : priv = HalfPriv(kd, n)
  OBVIOUS
<1>3. PICK cpub : cpub = IF Fixed(kd) THEN CompPub(kd, pub) ELSE Null
  OBVIOUS
<1>4. PICK cpriv : cpriv = IF Fixed(kd) THEN CompPriv(kd, priv) ELSE Null
  OBVIOUS
<1>5. PICK k : k = KeyObj(kd, pub, priv, cpub, cpriv, Null, Null, FALSE)
  OBVIOUS
<1>6. Put(s, k) /\ Hybrid(kd)
  BY <1>1, <1>2, <1>3, <1>4, <1>5 DEF KeyGenHalf, HalfKey
<1>7. PubLen(kd) \in Nat \ {0} /\ PrivLen(kd) \in Nat \ {0} /\ Torn \in Owners
  BY Lengths DEF PubLen, PrivLen, Owners
<1>8. pub \in [1..PubLen(kd) -> Cell] /\ pub[1] = Zero
  <2>1. PICK off : off = Offsets(kd, <<Zero>>, CP, QP)[IdxC(kd)]
    OBVIOUS
  <2>2. off \in Nat /\ off > 1
    BY <1>6, <2>1, Lengths, KindFacts DEF Offsets
  <2>3. Part("cp", Torn, CP) \in [1..CP -> Cell]
    BY <1>7, Lengths, PartIs
  <2>4. CASE p
    BY <1>1, <1>7, <2>1, <2>2, <2>3, <2>4, Lengths, HalfBuffer DEF HalfPub
  <2>5. CASE ~p
    <3>1. pub = Zeros(PubLen(kd))
      BY <1>1, <2>5 DEF HalfPub
    <3> QED BY <1>7, <2>2, <2>3, <3>1, Lengths, HalfBuffer
  <2> QED BY <2>4, <2>5
<1>9. priv \in [1..PrivLen(kd) -> Cell] /\ priv[1] = Zero
  <2>1. PICK off : off = Offsets(kd, <<Zero>>, CS, QS)[IdxC(kd)]
    OBVIOUS
  <2>2. off \in Nat /\ off > 1
    BY <1>6, <2>1, Lengths, KindFacts DEF Offsets
  <2>3. n \in Nat
    BY Lengths
  <2>4. Part("cs", Torn, n) \in [1..n -> Cell]
    BY <1>7, <2>3, PartIs
  <2> QED BY <1>2, <1>7, <2>1, <2>2, <2>3, <2>4, HalfBuffer DEF HalfPriv
<1>10. PubOK(kd, Null, pub)
  BY <1>6, <1>8 DEF PubOK
<1>11. PrivOK(kd, Null, priv)
  BY <1>6, <1>9 DEF PrivOK
<1>12. PairOK(kd, Null, pub, priv)
  BY <1>10, <1>11 DEF PairOK
<1>13. Fixed(kd) <=> kd # "hybsig"
  BY <1>6, KindFacts
<1>14. cpub \in Seq(Nat) \cup {Null} /\ cpub \in {Null, PubOffs(kd)} /\ (kd # "hybsig" => cpub # Null)
  BY <1>3, <1>8, <1>13, CompPubIs, PubOffsIs
<1>15. cpriv \in Seq(Nat) \cup {Null} /\ (kd # "hybsig" => cpriv = CompPriv(kd, priv))
  BY <1>4, <1>11, <1>13, CompPrivType
<1>16. /\ k.kd = kd /\ k.pub = pub /\ k.priv = priv /\ k.cpub = cpub
       /\ k.cpriv = cpriv /\ k.classical = Null /\ k.id = Null
  BY <1>5 DEF KeyObj
<1>17. pub \in Seq(Cell) /\ priv \in Seq(Cell)
  BY <1>8, <1>9, PubIs, PrivIs
<1>18. k \in Key
  BY <1>5, <1>14, <1>15, <1>17 DEF KeyObj, Key
<1>19. PointersOK(k)
  BY <1>14, <1>15, <1>16 DEF PointersOK
<1>20. ClassicalOK(k)
  BY <1>16 DEF ClassicalOK
<1>21. KeyOK(k)
  BY <1>12, <1>16, <1>18, <1>19, <1>20, KeyOKIs
<1> QED BY <1>6, <1>21, PutKey

(* oqsx_import.                                                            *)
LEMMA ImportOK ==
  ASSUME KeysOK, NEW s \in Slots, NEW a, ArtOK(a), Import(s, a)
  PROVE  KeysOK'
<1>1. a.kd \in Kinds /\ a.id \in Ids \cup {Null} /\ PairOK(a.kd, a.id, a.pub, a.priv)
  BY DEF ArtOK, Import
<1>2. PubOK(a.kd, a.id, a.pub)
  BY <1>1 DEF PairOK
<1>3. CASE a.priv = Null
  <2>1. Build(s, a.kd, a.pub, Null, "public", a.id)
    BY <1>3 DEF Import
  <2>2. \A k \in Recreated(Composed(a.kd, a.pub, Null, a.id), "public") : KeyOK(k)
    BY <1>1, <1>2, MadePublic
  <2> QED BY <2>1, <2>2, BuildOK
<1>4. CASE a.priv # Null
  <2>1. Build(s, a.kd, a.pub, a.priv, "private", a.id)
    BY <1>4 DEF Import
  <2>2. PrivOK(a.kd, a.id, a.priv) /\ (Hybrid(a.kd) /\ a.id # Null => a.pub[1] = Num(CP))
    BY <1>1, <1>4 DEF PairOK
  <2>3. /\ a.pub \in [1..PubLen(a.kd) -> Cell]
        /\ a.id # Null => At(a.pub, PubQ(a.kd), "qp", a.id, QP)
        /\ Hybrid(a.kd) => a.pub[1] \in {Zero, Num(CP)}
    BY <1>2 DEF PubOK, PubHas
  <2>4. \A k \in Recreated(Composed(a.kd, a.pub, a.priv, a.id), "private") : KeyOK(k)
    BY <1>1, <2>2, <2>3, MadePrivate
  <2> QED BY <2>1, <2>4, BuildOK
<1> QED BY <1>3, <1>4

(* The public side of oqsx_key_op.                                         *)
LEMMA DecodePubOK ==
  ASSUME KeysOK, NEW s \in Slots, NEW a, ArtOK(a), DecodePub(s, a)
  PROVE  KeysOK'
<1>1. a.kd \in Kinds /\ a.id \in Ids \cup {Null} /\ PubOK(a.kd, a.id, a.blob)
  BY DEF ArtOK, DecodePub
<1>2. Build(s, a.kd, a.blob, Null, "public", a.id)
  BY DEF DecodePub
<1>3. \A k \in Recreated(Composed(a.kd, a.blob, Null, a.id), "public") : KeyOK(k)
  BY <1>1, MadePublic
<1> QED BY <1>2, <1>3, BuildOK

-----------------------------------------------------------------------------
(* PKCS#8 and shares.                                                      *)

(* The private components are where they are as far as the used part goes. *)
LEMMA PrivHasSame ==
  ASSUME NEW kd \in Kinds, NEW id, NEW n \in PrivLens(kd), NEW b, NEW c,
         \A p \in 1..PrivUsed(kd, n) : c[p] = b[p], PrivHas(kd, id, b, n)
  PROVE  PrivHas(kd, id, c, n)
<1>1. PICK u \in Nat : u = PrivUsed(kd, n) /\ u > 0
  BY PrivPlaces
<1>2. PICK o \in Nat \ {0} : o = PrivQ(kd, n) /\ o + QS - 1 <= u
  BY <1>1, PrivPlaces
<1>3. At(c, PrivQ(kd, n), "qs", id, QS)
  <2>1. ASSUME NEW p \in 1..QS PROVE c[o + p - 1] = <<"qs", id, p, QS>>
    <3>1. o + p - 1 \in 1..u
      BY <1>2, Lengths
    <3>2. c[o + p - 1] = b[o + p - 1]
      BY <1>1, <3>1
    <3> QED BY <1>2, <3>2 DEF PrivHas, At
  <2> QED BY <1>2, <2>1 DEF At
<1>4. ASSUME Hybrid(kd) PROVE c[1] = Num(n) /\ At(c, PrivC(kd), "cs", id, n)
  <2>1. PICK d \in Nat \ {0} : d = PrivC(kd) /\ d + n - 1 <= u
    BY <1>1, <1>4, PrivPlaces
  <2>2. n \in Nat
    BY PrivPlaces
  <2>3. ASSUME NEW p \in 1..n PROVE c[d + p - 1] = <<"cs", id, p, n>>
    <3>1. d + p - 1 \in 1..u
      BY <2>1, <2>2
    <3>2. c[d + p - 1] = b[d + p - 1]
      BY <1>1, <3>1
    <3> QED BY <1>4, <2>1, <3>2 DEF PrivHas, At
  <2>4. 1 \in 1..u /\ b[1] = Num(n)
    BY <1>1, <1>4 DEF PrivHas
  <2> QED BY <1>1, <2>1, <2>3, <2>4 DEF At
<1> QED BY <1>3, <1>4 DEF PrivHas

(* Writing from the first cell on.                                         *)
LEMMA OverlayFirst ==
  ASSUME NEW m \in Nat, NEW b \in [1..m -> Cell], NEW l \in Nat, l <= m, NEW s \in [1..l -> Cell]
  PROVE  Overlay(b, 1, s) \in [1..m -> Cell] /\ \A p \in 1..l : Overlay(b, 1, s)[p] = s[p]
<1>1. PICK one \in Nat \ {0} : one = 1
  OBVIOUS
<1>2. PICK c : c = Overlay(b, one, s)
  OBVIOUS
<1>3. c \in [1..m -> Cell] /\ \A p \in 1..m : c[p] = IF p \in one..(one + l - 1) THEN s[p - one + 1] ELSE b[p]
  BY <1>2, OverlayIs
<1>4. ASSUME NEW p \in 1..l PROVE c[p] = s[p]
  <2>1. p \in 1..m /\ p \in one..(one + l - 1) /\ p - one + 1 = p
    BY <1>1
  <2> QED BY <1>3, <2>1
<1> QED BY <1>1, <1>2, <1>3, <1>4

(* Writing from the second cell on, to the end.                            *)
LEMMA OverlaySecond ==
  ASSUME NEW m \in Nat, m > 1, NEW b \in [1..m -> Cell], NEW s \in [1..(m - 1) -> Cell]
  PROVE  /\ Overlay(b, 2, s) \in [1..m -> Cell] /\ Overlay(b, 2, s)[1] = b[1]
         /\ \A p \in 2..m : Overlay(b, 2, s)[p] = s[p - 1]
<1>1. PICK two \in Nat \ {0} : two = 2
  OBVIOUS
<1>2. PICK l \in Nat : l = m - 1 /\ s \in [1..l -> Cell]
  OBVIOUS
<1>3. PICK c : c = Overlay(b, two, s)
  OBVIOUS
<1>4. c \in [1..m -> Cell] /\ \A p \in 1..m : c[p] = IF p \in two..(two + l - 1) THEN s[p - two + 1] ELSE b[p]
  BY <1>2, <1>3, OverlayIs
<1>5. c[1] = b[1]
  <2>1. 1 \in 1..m /\ 1 \notin two..(two + l - 1)
    BY <1>1
  <2> QED BY <1>4, <2>1
<1>6. ASSUME NEW p \in 2..m PROVE c[p] = s[p - 1]
  <2>1. p \in 1..m /\ p \in two..(two + l - 1) /\ p - two + 1 = p - 1
    BY <1>1, <1>2
  <2> QED BY <1>4, <2>1
<1> QED BY <1>1, <1>3, <1>4, <1>5, <1>6

(* A sequence of cells behind another.                                     *)
LEMMA ConcatIs ==
  ASSUME NEW m \in Nat, NEW s \in [1..m -> Cell], NEW n \in Nat, NEW t \in [1..n -> Cell]
  PROVE  /\ s \o t \in [1..(m + n) -> Cell]
         /\ \A p \in 1..m : (s \o t)[p] = s[p]
         /\ \A p \in 1..n : (s \o t)[m + p] = t[p]
<1>1. s \in Seq(Cell) /\ t \in Seq(Cell) /\ Len(s) = m /\ Len(t) = n
  BY FunSeq
<1>2. PICK c : c = s \o t
  OBVIOUS
<1>3. c \in Seq(Cell) /\ Len(c) = m + n
  BY <1>1, <1>2, SMTT(60)
<1>4. c \in [1..(m + n) -> Cell]
  BY <1>3
<1>5. \A p \in 1..m : c[p] = s[p]
  BY <1>1, <1>2
<1>6. ASSUME NEW p \in 1..n PROVE c[m + p] = t[p]
  BY <1>1, <1>2
<1> QED BY <1>2, <1>4, <1>5, <1>6

(* oqsx_pki_priv_to_der.                                                   *)
LEMMA PrivBlobOK ==
  ASSUME NEW k, KeyOK(k), k.kd \in Kinds, k.id \in Ids \cup {Null}, k.priv # Null
  PROVE  BlobOK(k.kd, k.id, PrivBlob(k))
<1>1. PICK kd \in Kinds : kd = k.kd
  OBVIOUS
<1>2. PICK pub : pub = k.pub
  OBVIOUS
<1>3. PICK priv : priv = k.priv
  OBVIOUS
<1>4. PairOK(kd, k.id, pub, priv) /\ PointersOK(k) /\ priv # Null
  BY <1>1, <1>2, <1>3 DEF KeyOK
<1>5. PubOK(kd, k.id, pub) /\ PrivOK(kd, k.id, priv)
  BY <1>4 DEF PairOK
<1>6. /\ pub \in [1..PubLen(kd) -> Cell] /\ priv \in [1..PrivLen(kd) -> Cell]
      /\ PrivLen(kd) \in Nat \ {0} /\ Len(priv) = PrivLen(kd)
  BY <1>5, PrivIs DEF PubOK, PrivOK
<1>7. PICK used : used = PrivLen(kd) - (IF Hybrid(kd) THEN CS - priv[1][2] ELSE 0)
  OBVIOUS
<1>8. PICK tail : tail = IF k.cpub = Null THEN [p \in 1..QP |-> Wild] ELSE Read(pub, k.cpub[IdxQ(kd)], QP)
  OBVIOUS
<1>9. PrivBlob(k) = SubSeq(priv, 1, used) \o tail
  BY <1>1, <1>2, <1>3, <1>7, <1>8 DEF PrivBlob, IdxQ
<1>10. k.cpub # Null => k.cpub[IdxQ(kd)] = PubQ(kd)
  BY <1>1, <1>4, PubPlaces DEF PointersOK
<1>11. ASSUME NEW u \in Nat, used = u, u <= PrivLen(kd)
       PROVE  /\ SubSeq(priv, 1, used) \in [1..u -> Cell]
              /\ \A p \in 1..u : SubSeq(priv, 1, used)[p] = priv[p]
  <2>1. PICK m \in Nat : m = PrivLen(kd) /\ priv \in [1..m -> Cell] /\ u <= m
    BY <1>6, <1>11
  <2>2. SubSeq(priv, 1, u) \in [1..u -> Cell] /\ \A p \in 1..u : SubSeq(priv, 1, u)[p] = priv[p]
    BY <2>1, SubSeqFirst
  <2> QED BY <1>11, <2>2
<1>12. CASE k.id = Null
  <2>1. Hybrid(kd) /\ priv[1] = Zero
    BY <1>5, <1>12 DEF PrivOK
  <2>2. used = 1 + QS /\ 1 + QS \in Nat /\ 1 + QS <= PrivLen(kd)
    BY <1>7, <2>1, CellFacts, Lengths DEF PrivLen
  <2>3. tail \in [1..QP -> Cell]
    <3>1. CASE k.cpub = Null
      BY <1>8, <3>1, CellFacts
    <3>2. CASE k.cpub # Null
      <4>1. PubQ(kd) \in Nat \ {0} /\ PubLen(kd) \in Nat /\ PubQ(kd) + QP - 1 <= PubLen(kd) /\ QP \in Nat
        BY PubPlaces, Lengths
      <4>2. tail = Read(pub, PubQ(kd), QP)
        BY <1>8, <1>10, <3>2
      <4> QED BY <1>6, <4>1, <4>2, ReadIs
    <3> QED BY <3>1, <3>2
  <2>4. PICK h : h = SubSeq(priv, 1, used)
    OBVIOUS
  <2>5. PICK u \in Nat : u = 1 + QS /\ h \in [1..u -> Cell]
    BY <1>11, <2>2, <2>4
  <2>6. h \o tail \in [1..(u + QP) -> Cell]
    BY <2>3, <2>5, Lengths, ConcatIs
  <2>7. Len(h \o tail) = u + QP
    BY <2>5, <2>6, Lengths, FunSeq
  <2>8. Len(PrivBlob(k)) = 1 + QS + QP
    BY <1>9, <2>4, <2>5, <2>7
  <2> QED BY <1>1, <1>12, <2>1, <2>8 DEF BlobOK
<1>13. CASE k.id \in Ids
  <2>1. k.id # Null
    BY <1>13, MaterialAssumption
  <2>2. PICK n \in PrivLens(kd) : PrivHas(kd, k.id, priv, n)
    BY <1>5, <2>1 DEF PrivOK
  <2>3. PICK u \in Nat : u = PrivUsed(kd, n) /\ u <= PrivLen(kd) /\ used = u
    <3>1. PrivUsed(kd, n) \in Nat /\ PrivUsed(kd, n) <= PrivLen(kd) /\ n \in Nat
      BY PrivPlaces
    <3>2. used = PrivUsed(kd, n)
      <4>1. CASE ~Hybrid(kd)
        BY <1>6, <1>7, <4>1 DEF PrivUsed, PrivLen
      <4>2. CASE Hybrid(kd)
        <5>1. priv[1][2] = n
          BY <2>2, <4>2, CellFacts DEF PrivHas
        <5> QED BY <1>7, <3>1, <4>2, <5>1, Lengths DEF PrivUsed, PrivLen
      <4> QED BY <4>1, <4>2
    <3> QED BY <3>1, <3>2
  <2>4. tail = Part("qp", k.id, QP)
    <3>1. k.cpub = PubOffs(kd) /\ k.cpub # Null
      BY <1>1, <1>3, <1>4, <2>1 DEF PointersOK
    <3> QED BY <1>5, <1>8, <1>13, <3>1, PubRead
  <2>5. tail \in [1..QP -> Cell] /\ \A p \in 1..QP : tail[p] = <<"qp", k.id, p, QP>>
    BY <1>13, <2>4, Lengths, PartIs DEF Owners
  <2>6. PICK h : h = SubSeq(priv, 1, used)
    OBVIOUS
  <2>7. h \in [1..u -> Cell] /\ \A p \in 1..u : h[p] = priv[p]
    BY <1>11, <2>3, <2>6
  <2>8. PICK b : b = h \o tail
    OBVIOUS
  <2>9. /\ b \in [1..(u + QP) -> Cell]
        /\ \A p \in 1..u : b[p] = h[p]
        /\ \A p \in 1..QP : b[u + p] = tail[p]
    <3>1. tail \in [1..QP -> Cell] /\ h \in [1..u -> Cell] /\ QP \in Nat
      BY <2>5, <2>7, Lengths
    <3>2. h \o tail \in [1..(u + QP) -> Cell]
      BY <3>1, ConcatIs
    <3>3. (\A p \in 1..u : (h \o tail)[p] = h[p]) /\ (\A p \in 1..QP : (h \o tail)[u + p] = tail[p])
      BY <3>1, ConcatIs, Zenon
    <3> QED BY <2>8, <3>2, <3>3
  <2>10. PrivHas(kd, k.id, b, n)
    <3>1. \A p \in 1..PrivUsed(kd, n) : b[p] = priv[p]
      BY <2>3, <2>7, <2>9
    <3> QED BY <2>2, <3>1, PrivHasSame
  <2>11. At(b, u + 1, "qp", k.id, QP)
    <3>1. ASSUME NEW p \in 1..QP PROVE b[(u + 1) + p - 1] = <<"qp", k.id, p, QP>>
      <4>1. (u + 1) + p - 1 = u + p
        OBVIOUS
      <4> QED BY <2>5, <2>9, <4>1
    <3> QED BY <3>1 DEF At
  <2>12. PrivBlob(k) = b
    BY <1>9, <2>6, <2>8
  <2> QED BY <1>1, <2>1, <2>3, <2>9, <2>10, <2>11, <2>12 DEF BlobOK
<1> QED BY <1>12, <1>13

(* What the private side of oqsx_key_op takes a PKCS#8 blob apart into.    *)
LEMMA BlobParts ==
  ASSUME NEW kd \in Kinds, NEW id \in Ids, NEW n \in PrivLens(kd), NEW b \in [1..(PrivUsed(kd, n) + QP) -> Cell],
         PrivHas(kd, id, b, n), At(b, PrivUsed(kd, n) + 1, "qp", id, QP),
         NEW t, t = SubSeq(b, Len(b) - QP + 1, Len(b)),
         NEW c, c = Overlay(Zeros(PrivLen(kd)), 1, SubSeq(b, 1, Len(b) - QP))
  PROVE  /\ t \in [1..QP -> Cell] /\ At(t, 1, "qp", id, QP)
         /\ c \in [1..PrivLen(kd) -> Cell] /\ PrivHas(kd, id, c, n)
<1>1. PICK u \in Nat : u = PrivUsed(kd, n) /\ u <= PrivLen(kd) /\ PrivLen(kd) \in Nat
  BY PrivPlaces
<1>2. PICK m \in Nat : m = u + QP /\ b \in [1..m -> Cell] /\ Len(b) = m /\ m - QP = u
  BY <1>1, Lengths, FunSeq
<1>3. t = SubSeq(b, u + 1, m)
  BY <1>2
<1>4. PICK o \in Nat \ {0} : o = u + 1 /\ o + QP - 1 = m
  BY <1>2, Lengths
<1>5. /\ SubSeq(b, o, o + QP - 1) \in [1..QP -> Cell]
      /\ \A p \in 1..QP : SubSeq(b, o, o + QP - 1)[p] = b[o + p - 1]
  <2>1. b \in [1..m -> Cell] /\ o + QP - 1 <= m /\ QP \in Nat
    BY <1>2, <1>4, Lengths
  <2> QED BY <2>1, SubSeqIs, ZenonT(60)
<1>6. t = SubSeq(b, o, o + QP - 1)
  BY <1>3, <1>4
<1>7. t \in [1..QP -> Cell] /\ \A p \in 1..QP : t[p] = <<"qp", id, p, QP>>
  <2>1. \A p \in 1..QP : b[o + p - 1] = <<"qp", id, p, QP>>
    BY <1>1, <1>4 DEF At
  <2> QED BY <1>5, <1>6, <2>1
<1>8. PICK h : h = SubSeq(b, 1, u)
  OBVIOUS
<1>9. h \in [1..u -> Cell] /\ \A p \in 1..u : h[p] = b[p]
  <2>1. b \in [1..m -> Cell] /\ u <= m
    BY <1>2, Lengths
  <2> QED BY <1>8, <2>1, SubSeqFirst
<1>10. PICK z : z = Zeros(PrivLen(kd))
  OBVIOUS
<1>11. c = Overlay(z, 1, h)
  BY <1>2, <1>8, <1>10
<1>12. z \in [1..PrivLen(kd) -> Cell]
  BY <1>1, <1>10, ZerosIs
<1>13. c \in [1..PrivLen(kd) -> Cell] /\ \A p \in 1..u : c[p] = h[p]
  <2>1. PICK m1 \in Nat : m1 = PrivLen(kd) /\ z \in [1..m1 -> Cell] /\ u <= m1
    BY <1>1, <1>12
  <2>2. h \in [1..u -> Cell]
    BY <1>9
  <2>3. Overlay(z, 1, h) \in [1..m1 -> Cell] /\ \A p \in 1..u : Overlay(z, 1, h)[p] = h[p]
    BY <2>1, <2>2, OverlayFirst, SMTT(60)
  <2> QED BY <1>11, <2>1, <2>3
<1>14. \A p \in 1..PrivUsed(kd, n) : c[p] = b[p]
  BY <1>1, <1>9, <1>13
<1>15. PrivHas(kd, id, c, n)
  BY <1>14, PrivHasSame, ZenonT(60)
<1>16. At(t, 1, "qp", id, QP)
  <2>1. \A p \in 1..QP : 1 + p - 1 = p
    BY Lengths
  <2> QED BY <1>7, <2>1 DEF At
<1> QED BY <1>7, <1>13, <1>15, <1>16

(* The post-quantum part goes to its place in a public buffer.             *)
LEMMA PubPlaced ==
  ASSUME NEW kd \in Kinds, Hybrid(kd), NEW id \in Ids, NEW pq \in [1..QP -> Cell], At(pq, 1, "qp", id, QP),
         NEW c \in [1..PubLen(kd) -> Cell], c[1] = Num(CP)
  PROVE  /\ Overlay(c, PubQ(kd), pq) \in [1..PubLen(kd) -> Cell]
         /\ At(Overlay(c, PubQ(kd), pq), PubQ(kd), "qp", id, QP)
         /\ Overlay(c, PubQ(kd), pq)[1] = Num(CP)
<1>1. PICK m \in Nat \ {0} : m = PubLen(kd)
  BY PubPlaces
<1>2. PICK o \in Nat \ {0} : o = PubQ(kd) /\ o > 1 /\ o + QP - 1 <= m
  BY <1>1, PubPlaces
<1>3. c \in [1..m -> Cell] /\ QP \in Nat
  BY <1>1, Lengths
<1>4. Overlay(c, o, pq) \in [1..m -> Cell]
  BY <1>3, OverlayIs
<1>5. Overlay(c, o, pq)[1] = c[1]
  <2>1. o \in Nat /\ o > 1
    BY <1>2
  <2> QED BY <1>3, <2>1, OverlayBehind, ZenonT(60)
<1>6. At(Overlay(c, o, pq), o, "qp", id, QP)
  <2>1. ASSUME NEW p \in 1..QP PROVE pq[p] = <<"qp", id, p, QP>>
    <3>1. 1 + p - 1 = p
      OBVIOUS
    <3>2. pq[1 + p - 1] = <<"qp", id, p, QP>>
      BY DEF At
    <3> QED BY <3>1, <3>2
  <2> QED BY <1>2, <1>3, <2>1, OverlayPuts
<1> QED BY <1>1, <1>2, <1>4, <1>5, <1>6

(* The public buffer it makes, before the classical part is recreated.     *)
LEMMA DecodedPub ==
  ASSUME NEW kd \in Kinds, NEW id \in Ids, NEW pq \in [1..QP -> Cell], At(pq, 1, "qp", id, QP),
         NEW pub, pub = IF ~Hybrid(kd) THEN pq
                        ELSE Overlay(Overlay(Zeros(PubLen(kd)), 1, <<Num(CP)>>),
                                     IF Reversed(kd) THEN 2 ELSE 2 + CP, pq)
  PROVE  /\ pub \in [1..PubLen(kd) -> Cell] /\ At(pub, PubQ(kd), "qp", id, QP)
         /\ Hybrid(kd) => pub[1] = Num(CP)
<1>1. CASE ~Hybrid(kd)
  <2>1. pub = pq /\ PubLen(kd) = QP /\ PubQ(kd) = 1
    BY <1>1 DEF PubLen, PubQ
  <2> QED BY <1>1, <2>1
<1>2. CASE Hybrid(kd)
  <2>1. PICK z : z = Zeros(PubLen(kd))
    OBVIOUS
  <2>2. PICK c : c = Overlay(z, 1, <<Num(CP)>>)
    OBVIOUS
  <2>3. PubLen(kd) \in Nat \ {0} /\ CP \in Nat
    BY PubPlaces, Lengths
  <2>4. z \in [1..PubLen(kd) -> Cell]
    BY <2>1, <2>3, ZerosIs
  <2>5. c \in [1..PubLen(kd) -> Cell] /\ c[1] = Num(CP)
    BY <2>2, <2>3, <2>4, OverlayLength
  <2>6. pub = Overlay(c, PubQ(kd), pq)
    BY <1>2, <2>1, <2>2 DEF PubQ
  <2>7. /\ Overlay(c, PubQ(kd), pq) \in [1..PubLen(kd) -> Cell]
        /\ At(Overlay(c, PubQ(kd), pq), PubQ(kd), "qp", id, QP)
        /\ Overlay(c, PubQ(kd), pq)[1] = Num(CP)
    BY <1>2, <2>5, PubPlaced, Zenon
  <2> QED BY <1>2, <2>6, <2>7, Zenon
<1> QED BY <1>1, <1>2

(* The private side of oqsx_key_op.                                        *)
LEMMA DecodePrivOK ==
  ASSUME KeysOK, NEW s \in Slots, NEW a, ArtOK(a), DecodePriv(s, a)
  PROVE  KeysOK'
<1>1. PICK kd \in Kinds : kd = a.kd
  BY DEF ArtOK
<1>2. PICK id \in Ids \cup {Null} : id = a.id
  BY DEF ArtOK
<1>3. PICK b : b = a.blob
  OBVIOUS
<1>4. BlobOK(kd, id, b)
  BY <1>1, <1>2, <1>3 DEF ArtOK, DecodePriv
<1>5. PICK pq : pq = SubSeq(b, Len(b) - QP + 1, Len(b))
  OBVIOUS
<1>6. PICK priv : priv = Overlay(Zeros(PrivLen(kd)), 1, SubSeq(b, 1, Len(b) - QP))
  OBVIOUS
<1>7. PICK pub : pub = IF ~Hybrid(kd) THEN pq
                       ELSE Overlay(Overlay(Zeros(PubLen(kd)), 1, <<Num(CP)>>),
                                    IF Reversed(kd) THEN 2 ELSE 2 + CP, pq)
  OBVIOUS
<1>8. IF BlobFits(kd, b) THEN Build(s, kd, pub, priv, "private", id) ELSE Put(s, Null)
  BY <1>1, <1>2, <1>3, <1>5, <1>6, <1>7 DEF DecodePriv
<1>9. CASE ~BlobFits(kd, b)
  BY <1>8, <1>9, PutKey
<1>10. CASE BlobFits(kd, b)
  <2>1. id \in Ids /\ id # Null
    <3>1. ASSUME id = Null PROVE FALSE
      <4>1. Hybrid(kd) /\ Len(b) = 1 + QS + QP
        BY <1>4, <3>1 DEF BlobOK
      <4>2. Len(b) > 1 + QS + QP
        BY <1>10, <4>1 DEF BlobFits
      <4> QED BY <4>1, <4>2, Lengths
    <3> QED BY <3>1
  <2>2. PICK n \in PrivLens(kd) : /\ b \in [1..(PrivUsed(kd, n) + QP) -> Cell]
                                  /\ PrivHas(kd, id, b, n) /\ At(b, PrivUsed(kd, n) + 1, "qp", id, QP)
    BY <1>4, <2>1 DEF BlobOK
  <2>3. pq \in [1..QP -> Cell] /\ At(pq, 1, "qp", id, QP)
    BY <1>5, <1>6, <2>1, <2>2, BlobParts, ZenonT(60)
  <2>4. priv \in [1..PrivLen(kd) -> Cell] /\ PrivHas(kd, id, priv, n)
    BY <1>5, <1>6, <2>1, <2>2, BlobParts, Zenon
  <2>5. PrivOK(kd, id, priv)
    BY <2>1, <2>4 DEF PrivOK
  <2>6. /\ pub \in [1..PubLen(kd) -> Cell] /\ At(pub, PubQ(kd), "qp", id, QP)
        /\ Hybrid(kd) => pub[1] = Num(CP)
    BY <1>7, <2>1, <2>3, DecodedPub
  <2>7. \A k \in Recreated(Composed(kd, pub, priv, id), "private") : KeyOK(k)
    BY <2>1, <2>5, <2>6, MadePrivate
  <2>8. Build(s, kd, pub, priv, "private", id)
    BY <1>8, <1>10
  <2> QED BY <2>7, <2>8, BuildOK
<1> QED BY <1>9, <1>10

(* A share written behind the length field makes the buffer the peer's.    *)
LEMMA SharePlaced ==
  ASSUME NEW kd \in Kinds, Fixed(kd), NEW id \in Ids \cup {Null}, NEW b, PubOK(kd, id, b),
         NEW old \in [1..PubLen(kd) -> Cell], old[1] \in {Zero, Num(CP)}
  PROVE  PubOK(kd, id, Overlay(old, 2, Tail(b)))
<1>1. Hybrid(kd) /\ kd # "hybsig"
  BY KindFacts
<1>2. PICK m \in Nat : m = PubLen(kd) /\ m > 1
  BY <1>1, PubPlaces, Lengths
<1>3. b \in [1..m -> Cell] /\ b \in Seq(Cell) /\ Len(b) = m
  BY <1>2, FunSeq DEF PubOK
<1>4. PICK t : t = Tail(b)
  OBVIOUS
<1>5. PICK l \in Nat : l = m - 1 /\ t \in [1..l -> Cell] /\ \A p \in 1..l : t[p] = b[p + 1]
  <2>1. t \in Seq(Cell) /\ Len(t) = m - 1 /\ \A p \in 1..(m - 1) : t[p] = b[p + 1]
    BY <1>2, <1>3, <1>4
  <2> QED BY <1>2, <2>1
<1>7. PICK c : c = Overlay(old, 2, t)
  OBVIOUS
<1>8. c \in [1..m -> Cell] /\ c[1] = old[1] /\ \A p \in 2..m : c[p] = t[p - 1]
  <2>1. old \in [1..m -> Cell] /\ t \in [1..(m - 1) -> Cell]
    BY <1>2, <1>5
  <2> QED BY <1>2, <1>7, <2>1, OverlaySecond
<1>10. ASSUME NEW p \in 2..m PROVE c[p] = b[p]
  <2>1. p - 1 \in 1..l /\ (p - 1) + 1 = p
    BY <1>2, <1>5
  <2>2. c[p] = t[p - 1]
    BY <1>8
  <2>3. t[p - 1] = b[(p - 1) + 1]
    BY <1>5, <2>1
  <2> QED BY <2>1, <2>2, <2>3
<1>11. ASSUME NEW o \in Nat, o > 1, NEW n \in Nat, o + n - 1 <= m, NEW tag, At(b, o, tag, id, n)
       PROVE  At(c, o, tag, id, n)
  <2>1. ASSUME NEW p \in 1..n PROVE c[o + p - 1] = <<tag, id, p, n>>
    <3>1. o + p - 1 \in 2..m
      BY <1>11
    <3> QED BY <1>10, <1>11, <3>1 DEF At
  <2> QED BY <2>1 DEF At
<1>12. PubOK(kd, id, c)
  <2>1. c \in [1..PubLen(kd) -> Cell] /\ c[1] \in {Zero, Num(CP)}
    BY <1>2, <1>8
  <2>2. CASE id = Null
    BY <1>1, <2>1, <2>2 DEF PubOK
  <2>3. CASE id # Null
    <3>1. At(b, PubQ(kd), "qp", id, QP) /\ At(b, PubC(kd), "cp", id, CP)
      BY <1>1, <2>3 DEF PubOK, PubHas
    <3>2. /\ PubQ(kd) \in Nat /\ PubQ(kd) > 1 /\ PubQ(kd) + QP - 1 <= m /\ QP \in Nat
          /\ PubC(kd) \in Nat /\ PubC(kd) > 1 /\ PubC(kd) + CP - 1 <= m /\ CP \in Nat
      BY <1>1, <1>2, PubPlaces, Lengths
    <3>3. At(c, PubQ(kd), "qp", id, QP)
      BY <1>11, <3>1, <3>2
    <3>4. At(c, PubC(kd), "cp", id, CP)
      BY <1>11, <3>1, <3>2
    <3> QED BY <1>1, <2>1, <2>3, <3>3, <3>4 DEF PubOK, PubHas
  <2> QED BY <2>2, <2>3
<1> QED BY <1>4, <1>7, <1>12

(* oqsx_set_params with a peer's share.                                    *)
LEMMA SetShareOK ==
  ASSUME KeysOK, NEW s \in Slots, NEW a, ArtOK(a), SetShare(s, a)
  PROVE  KeysOK'
<1>1. PICK k : k = key[s]
  OBVIOUS
<1>2. Live(s) /\ a.form = "share" /\ a.kd = k.kd
  BY <1>1 DEF SetShare
<1>3. PICK b : PubOK(k.kd, a.id, b) /\ a.blob = IF Fixed(k.kd) THEN Tail(b) ELSE b
  BY <1>2 DEF ArtOK
<1>4. PICK pub : pub = IF Fixed(k.kd) THEN Overlay(k.pub, k.cpub[1], a.blob) ELSE a.blob
  OBVIOUS
<1>5. PICK n : n = [k EXCEPT !.pub = pub, !.priv = Null, !.peer = TRUE, !.id = a.id]
  OBVIOUS
<1>6. Put(s, n)
  BY <1>1, <1>4, <1>5 DEF SetShare
<1>7. /\ k \in Key /\ k.kd \in Kinds /\ a.id \in Ids \cup {Null}
      /\ PubOK(k.kd, k.id, k.pub) /\ PointersOK(k)
  BY <1>1, <1>2, LiveKey DEF ArtOK
<1>8. PubOK(k.kd, a.id, pub)
  <2>1. CASE Fixed(k.kd)
    <3>1. Hybrid(k.kd) /\ k.kd # "hybsig"
      BY <1>7, <2>1, KindFacts
    <3>2. k.cpub[1] = 2
      BY <1>7, <3>1, PubPlaces DEF PointersOK
    <3>3. k.pub \in [1..PubLen(k.kd) -> Cell] /\ k.pub[1] \in {Zero, Num(CP)}
      BY <1>7, <3>1 DEF PubOK
    <3>4. pub = Overlay(k.pub, 2, Tail(b))
      BY <1>3, <1>4, <2>1, <3>2
    <3> QED BY <1>3, <1>7, <2>1, <3>3, <3>4, SharePlaced
  <2>2. CASE ~Fixed(k.kd)
    BY <1>3, <1>4, <2>2
  <2> QED BY <2>1, <2>2
<1>9. pub \in Seq(Cell)
  BY <1>7, <1>8, PubIs DEF PubOK
<1>10. n \in Key
  BY <1>5, <1>7, <1>9 DEF Key
<1>11. /\ n.kd = k.kd /\ n.pub = pub /\ n.priv = Null /\ n.cpub = k.cpub /\ n.id = a.id /\ n.peer = TRUE
  BY <1>5, <1>7 DEF Key
<1>12. PairOK(k.kd, a.id, pub, Null)
  BY <1>8 DEF PairOK
<1>13. PointersOK(n)
  BY <1>7, <1>11 DEF PointersOK
<1>14. ClassicalOK(n)
  BY <1>11 DEF ClassicalOK
<1>15. KeyOK(n)
  BY <1>7, <1>10, <1>11, <1>12, <1>13, <1>14, KeyOKIs
<1> QED BY <1>6, <1>15, PutKey

-----------------------------------------------------------------------------
(* What leaves a key object, and the KEM.                                  *)

(* An artefact that is right joins the others.                             *)
LEMMA ReleaseOK ==
  ASSUME ArtsOK, NEW a, ArtOK(a), Release(a)
  PROVE  ArtsOK'
<1>1. arts' = arts \cup {a}
  BY DEF Release
<1>2. \A x \in arts' : ArtOK(x)
  BY <1>1 DEF ArtsOK
<1> QED BY <1>2 DEF ArtsOK

(* oqsx_export.                                                            *)
LEMMA ExportOK ==
  ASSUME KeysOK, ArtsOK, NEW s \in Slots, NEW w \in BOOLEAN, Export(s, w)
  PROVE  ArtsOK'
<1>1. PICK k : k = key[s]
  OBVIOUS
<1>2. PICK priv : priv = IF w THEN k.priv ELSE Null
  OBVIOUS
<1>3. PICK a : a = [form |-> "params", kd |-> k.kd, id |-> k.id, pub |-> k.pub, priv |-> priv]
  OBVIOUS
<1>4. Live(s) /\ Release(a)
  BY <1>1, <1>2, <1>3 DEF Export
<1>5. k.kd \in Kinds /\ k.id \in Ids \cup {Null} /\ PairOK(k.kd, k.id, k.pub, k.priv)
  BY <1>1, <1>4, LiveKey
<1>6. PairOK(k.kd, k.id, k.pub, priv)
  BY <1>2, <1>5 DEF PairOK
<1>7. ArtOK(a)
  BY <1>3, <1>5, <1>6 DEF ArtOK
<1> QED BY <1>4, <1>7, ReleaseOK

(* oqsx_spki_pub_to_der.                                                   *)
LEMMA EncodePubOK ==
  ASSUME KeysOK, ArtsOK, NEW s \in Slots, EncodePub(s)
  PROVE  ArtsOK'
<1>1. PICK k : k = key[s]
  OBVIOUS
<1>2. PICK a : a = [form |-> "spki", kd |-> k.kd, id |-> k.id, blob |-> k.pub]
  OBVIOUS
<1>3. Live(s) /\ Release(a)
  BY <1>1, <1>2 DEF EncodePub
<1>4. k.kd \in Kinds /\ k.id \in Ids \cup {Null} /\ PubOK(k.kd, k.id, k.pub)
  BY <1>1, <1>3, LiveKey
<1>5. ArtOK(a)
  BY <1>2, <1>4 DEF ArtOK
<1> QED BY <1>3, <1>5, ReleaseOK

(* oqsx_pki_priv_to_der.                                                   *)
LEMMA EncodePrivOK ==
  ASSUME KeysOK, ArtsOK, NEW s \in Slots, EncodePriv(s)
  PROVE  ArtsOK'
<1>1. PICK k : k = key[s]
  OBVIOUS
<1>2. PICK a : a = [form |-> "pkcs8", kd |-> k.kd, id |-> k.id, blob |-> PrivBlob(k)]
  OBVIOUS
<1>3. Live(s) /\ k.priv # Null /\ Release(a)
  BY <1>1, <1>2 DEF EncodePriv
<1>4. k.kd \in Kinds /\ k.id \in Ids \cup {Null} /\ KeyOK(k)
  BY <1>1, <1>3, LiveKey
<1>5. BlobOK(k.kd, k.id, PrivBlob(k))
  BY <1>3, <1>4, PrivBlobOK
<1>6. ArtOK(a)
  BY <1>2, <1>4, <1>5 DEF ArtOK
<1> QED BY <1>3, <1>6, ReleaseOK

(* oqsx_get_params for a peer's share.                                     *)
LEMMA GetShareOK ==
  ASSUME KeysOK, ArtsOK, NEW s \in Slots, GetShare(s)
  PROVE  ArtsOK'
<1>1. PICK k : k = key[s]
  OBVIOUS
<1>2. PICK b : b = IF Fixed(k.kd) THEN Tail(k.pub) ELSE k.pub
  OBVIOUS
<1>3. PICK a : a = [form |-> "share", kd |-> k.kd, id |-> k.id, blob |-> b]
  OBVIOUS
<1>4. Live(s) /\ Release(a)
  BY <1>1, <1>2, <1>3 DEF GetShare
<1>5. k.kd \in Kinds /\ k.id \in Ids \cup {Null} /\ PubOK(k.kd, k.id, k.pub)
  BY <1>1, <1>4, LiveKey
<1>6. ArtOK(a)
  BY <1>2, <1>3, <1>5 DEF ArtOK
<1> QED BY <1>4, <1>6, ReleaseOK

(* Which half of a pair of halves is the post-quantum one.                 *)
LEMMA OrderedHalves ==
  ASSUME NEW kd \in Kinds, NEW c, NEW q
  PROVE  Ordered(kd, c, q)[IdxQ(kd)] = q
<1>1. CASE ~Hybrid(kd)
  BY <1>1, KindFacts DEF Ordered
<1>2. CASE Hybrid(kd) /\ Reversed(kd)
  BY <1>2, KindFacts DEF Ordered
<1>3. CASE Hybrid(kd) /\ ~Reversed(kd)
  BY <1>3, KindFacts DEF Ordered
<1> QED BY <1>1, <1>2, <1>3

(* oqs_hyb_kem_encaps, oqs_qs_kem_encaps: both halves of one key pair.     *)
LEMMA EncapsOK ==
  ASSUME KeysOK, CtsOK, NEW s \in Slots, Encaps(s)
  PROVE  CtsOK'
<1>1. PICK k : k = key[s]
  OBVIOUS
<1>2. PICK c : c = IF Hybrid(k.kd) THEN OwnerOf("cp", ClassicPub(k)) ELSE Ids
  OBVIOUS
<1>3. PICK q : q = OqsOwner("qp", OqsPub(k))
  OBVIOUS
<1>4. Live(s) /\ IsKem(k.kd)
  BY <1>1 DEF Encaps
<1>5. PICK i \in c, j \in q :
        cts' = cts \cup {[kd |-> k.kd, to |-> k.id,
                          ct |-> Ordered(k.kd, <<"eph", 0>>, <<"enc", j>>),
                          ss |-> Ordered(k.kd, <<"ecdh", i>>, <<"kem", j>>)]}
  BY <1>1, <1>2, <1>3 DEF Encaps
<1>6. /\ k.kd \in Kinds /\ k.id \in Ids \cup {Null}
      /\ PubOK(k.kd, k.id, k.pub) /\ PointersOK(k) /\ k.pub \in [1..PubLen(k.kd) -> Cell]
  BY <1>1, <1>4, LiveKey
<1>7. k.cpub = PubOffs(k.kd) /\ k.kd # "hybsig"
  BY <1>4, <1>6 DEF PointersOK, IsKem
<1>8. PICK x : x = [kd |-> k.kd, to |-> k.id,
                    ct |-> Ordered(k.kd, <<"eph", 0>>, <<"enc", j>>),
                    ss |-> Ordered(k.kd, <<"ecdh", i>>, <<"kem", j>>)]
  OBVIOUS
<1>9. ASSUME k.id # Null
      PROVE  /\ x.ct = Ordered(k.kd, <<"eph", 0>>, <<"enc", k.id>>)
             /\ x.ss = Ordered(k.kd, <<"ecdh", k.id>>, <<"kem", k.id>>)
  <2>1. k.id \in Ids /\ k.id \in Owners
    BY <1>6, <1>9 DEF Owners
  <2>2. j = k.id
    <3>1. OqsPub(k) = Part("qp", k.id, QP)
      BY <1>6, <1>7, <2>1, PubRead DEF OqsPub
    <3>2. OqsOwner("qp", Part("qp", k.id, QP)) = {k.id}
      BY <2>1, Lengths, OqsOwnerOfPart
    <3> QED BY <1>3, <3>1, <3>2
  <2>3. ASSUME Hybrid(k.kd) PROVE i = k.id
    <3>1. Fixed(k.kd)
      BY <1>6, <1>7, <2>3, KindFacts
    <3>2. ClassicPub(k) = Part("cp", k.id, CP)
      BY <1>6, <1>7, <2>1, <2>3, <3>1, PubRead DEF ClassicPub
    <3>3. OwnerOf("cp", Part("cp", k.id, CP)) = {k.id}
      BY <2>1, Lengths, OwnerOfPart
    <3> QED BY <1>2, <2>3, <3>2, <3>3
  <2>4. x.ct = Ordered(k.kd, <<"eph", 0>>, <<"enc", k.id>>)
    BY <1>8, <2>2
  <2>5. x.ss = Ordered(k.kd, <<"ecdh", i>>, <<"kem", k.id>>)
    BY <1>8, <2>2
  <2>6. CASE Hybrid(k.kd)
    BY <2>3, <2>4, <2>5, <2>6
  <2>7. CASE ~Hybrid(k.kd)
    BY <2>4, <2>5, <2>7 DEF Ordered
  <2> QED BY <2>6, <2>7
<1>10. x.kd = k.kd /\ x.to = k.id
  BY <1>8
<1>11. CtOK(x)
  BY <1>4, <1>6, <1>9, <1>10 DEF CtOK
<1>12. cts' = cts \cup {x}
  BY <1>5, <1>8
<1>13. \A y \in cts' : CtOK(y)
  BY <1>11, <1>12 DEF CtsOK
<1> QED BY <1>13 DEF CtsOK

(* oqs_hyb_kem_decaps, oqs_qs_kem_decaps: the owner gets the secret.       *)
LEMMA DecapsOK ==
  ASSUME KeysOK, NEW s \in Slots, NEW x, CtOK(x), Decaps(s, x)
  PROVE  SecretsAgree'
<1>1. PICK k : k = key[s]
  OBVIOUS
<1>2. PICK c : c = IF Hybrid(k.kd) THEN OwnerOf("cs", Read(k.priv, k.cpriv[IdxC(k.kd)], CS)) ELSE Ids
  OBVIOUS
<1>3. PICK q : q = OqsOwner("qs", OqsPriv(k))
  OBVIOUS
<1>4. PICK ctq : ctq = x.ct[IdxQ(k.kd)]
  OBVIOUS
<1>5. Live(s) /\ IsKem(k.kd) /\ x.kd = k.kd
  BY <1>1 DEF Decaps
<1>6. \/ k.priv = Null /\ derived' = [own |-> Null, x |-> x, ss |-> Wild]
      \/ k.priv # Null /\ \E i \in c, j \in q :
           derived' = [own |-> k.id, x |-> x,
                       ss |-> Ordered(k.kd, <<"ecdh", i>>,
                                      IF j # Torn /\ ctq = <<"enc", j>> THEN <<"kem", j>> ELSE <<"reject", j>>)]
  BY <1>1, <1>2, <1>3, <1>4 DEF Decaps
<1>7. CASE k.priv = Null
  <2>1. derived'.own = Null
    BY <1>6, <1>7
  <2> QED BY <2>1 DEF SecretsAgree
<1>8. CASE k.priv # Null
  <2>1. PICK i \in c, j \in q :
          derived' = [own |-> k.id, x |-> x,
                      ss |-> Ordered(k.kd, <<"ecdh", i>>,
                                     IF j # Torn /\ ctq = <<"enc", j>> THEN <<"kem", j>> ELSE <<"reject", j>>)]
    BY <1>6, <1>8
  <2>2. /\ derived'.own = k.id /\ derived'.x = x
        /\ derived'.ss = Ordered(k.kd, <<"ecdh", i>>,
                                 IF j # Torn /\ ctq = <<"enc", j>> THEN <<"kem", j>> ELSE <<"reject", j>>)
    BY <2>1
  <2>3. SUFFICES ASSUME k.id # Null, k.id = x.to PROVE derived'.ss = x.ss
    BY <2>2 DEF SecretsAgree
  <2>4. /\ k.kd \in Kinds /\ k.id \in Ids /\ k.id \in Owners /\ k.id # Torn
        /\ PrivOK(k.kd, k.id, k.priv) /\ PointersOK(k)
    BY <1>1, <1>5, <1>8, <2>3, LiveKey, MaterialAssumption DEF Owners
  <2>5. k.cpriv = CompPriv(k.kd, k.priv)
    BY <1>8, <2>3, <2>4 DEF PointersOK
  <2>6. k.priv \in [1..PrivLen(k.kd) -> Cell]
    BY <2>4 DEF PrivOK
  <2>7. PICK n \in PrivLens(k.kd) : PrivHas(k.kd, k.id, k.priv, n)
    BY <2>3, <2>4 DEF PrivOK
  <2>8. j = k.id
    <3>1. OqsPriv(k) = Part("qs", k.id, QS)
      BY <2>4, <2>5, <2>6, <2>7, PrivRead DEF OqsPriv
    <3>2. OqsOwner("qs", Part("qs", k.id, QS)) = {k.id}
      BY <2>4, Lengths, OqsOwnerOfPart
    <3> QED BY <1>3, <2>1, <3>1, <3>2
  <2>9. ASSUME Hybrid(k.kd) PROVE i = k.id
    <3>1. k.kd # "hybsig"
      BY <1>5 DEF IsKem
    <3>2. n = CS
      BY <2>4, <2>7, <3>1, KindFacts
    <3>3. Read(k.priv, k.cpriv[IdxC(k.kd)], CS) = Part("cs", k.id, CS)
      BY <2>4, <2>5, <2>6, <2>7, <2>9, <3>2, PrivRead
    <3>4. OwnerOf("cs", Part("cs", k.id, CS)) = {k.id}
      BY <2>4, Lengths, OwnerOfPart
    <3> QED BY <1>2, <2>1, <2>9, <3>3, <3>4
  <2>10. x.ct = Ordered(k.kd, <<"eph", 0>>, <<"enc", k.id>>)
    BY <1>5, <2>3 DEF CtOK
  <2>11. ctq = <<"enc", k.id>>
    BY <1>4, <2>4, <2>10, OrderedHalves
  <2>12. x.ss = Ordered(k.kd, <<"ecdh", k.id>>, <<"kem", k.id>>)
    BY <1>5, <2>3 DEF CtOK
  <2>13. derived'.ss = Ordered(k.kd, <<"ecdh", i>>, <<"kem", k.id>>)
    BY <2>2, <2>4, <2>8, <2>11
  <2>14. CASE Hybrid(k.kd)
    BY <2>9, <2>12, <2>13, <2>14
  <2>15. CASE ~Hybrid(k.kd)
    BY <2>12, <2>13, <2>15 DEF Ordered
  <2> QED BY <2>14, <2>15
<1> QED BY <1>7, <1>8

-----------------------------------------------------------------------------
(* The inductive invariant.                                                *)

(* No key object, artefact or ciphertext: nothing to be wrong.             *)
LEMMA InitOK == Init => IInv
<1>1. SUFFICES ASSUME Init PROVE IInv
  OBVIOUS
<1>2. KeysOK
  BY <1>1 DEF Init, KeysOK, Live
<1>3. ArtsOK /\ CtsOK /\ SecretsAgree
  BY <1>1 DEF Init, ArtsOK, CtsOK, SecretsAgree
<1> QED BY <1>2, <1>3 DEF IInv

(* A step that changes only key objects.                                   *)
LEMMA OnlyKeys ==
  ASSUME IInv, KeysOK', Same
  PROVE  IInv'
<1>1. arts' = arts /\ cts' = cts /\ derived' = Null
  BY DEF Same
<1>2. ArtsOK' /\ CtsOK'
  BY <1>1 DEF IInv, ArtsOK, CtsOK
<1>3. SecretsAgree'
  BY <1>1 DEF SecretsAgree
<1> QED BY <1>2, <1>3 DEF IInv

(* A step that only releases an artefact.                                  *)
LEMMA OnlyArts ==
  ASSUME IInv, ArtsOK', UNCHANGED <<key, cts>>, derived' = Null
  PROVE  IInv'
<1>1. key' = key /\ cts' = cts
  OBVIOUS
<1>2. KeysOK' /\ CtsOK'
  BY <1>1 DEF IInv, KeysOK, Live, CtsOK
<1>3. SecretsAgree'
  BY DEF SecretsAgree
<1> QED BY <1>2, <1>3 DEF IInv

(* Every action keeps the invariant.                                       *)
LEMMA StepOK == IInv /\ [Next]_vars => IInv'
<1>1. SUFFICES ASSUME IInv, [Next]_vars PROVE IInv'
  OBVIOUS
<1>2. KeysOK /\ ArtsOK /\ CtsOK /\ SecretsAgree
  BY <1>1 DEF IInv
<1>3. ASSUME NEW s \in Slots, Free(s) PROVE IInv'
  <2>1. Put(s, Null) /\ Same
    BY <1>3 DEF Free
  <2>2. KeysOK'
    BY <1>2, <2>1, PutKey
  <2> QED BY <1>1, <2>1, <2>2, OnlyKeys
<1>4. ASSUME NEW s \in Slots, NEW kd \in Kinds, NEW i \in Ids, NEW n, KeyGen(s, kd, i, n) PROVE IInv'
  <2>1. KeysOK'
    BY <1>2, <1>4, KeyGenOK
  <2>2. Same
    BY <1>4 DEF KeyGen
  <2> QED BY <1>1, <2>1, <2>2, OnlyKeys
<1>5. ASSUME NEW s \in Slots, NEW kd \in Kinds, NEW p \in BOOLEAN, NEW n \in 0..CS, KeyGenHalf(s, kd, p, n)
      PROVE  IInv'
  <2>1. KeysOK'
    BY <1>2, <1>5, KeyGenHalfOK
  <2>2. Same
    BY <1>5 DEF KeyGenHalf
  <2> QED BY <1>1, <2>1, <2>2, OnlyKeys
<1>6. ASSUME NEW s \in Slots, NEW w \in BOOLEAN, Export(s, w) PROVE IInv'
  <2>1. ArtsOK'
    BY <1>2, <1>6, ExportOK
  <2>2. UNCHANGED <<key, cts>> /\ derived' = Null
    BY <1>6 DEF Export
  <2> QED BY <1>1, <2>1, <2>2, OnlyArts
<1>7. ASSUME NEW s \in Slots, EncodePub(s) PROVE IInv'
  <2>1. ArtsOK'
    BY <1>2, <1>7, EncodePubOK
  <2>2. UNCHANGED <<key, cts>> /\ derived' = Null
    BY <1>7 DEF EncodePub
  <2> QED BY <1>1, <2>1, <2>2, OnlyArts
<1>8. ASSUME NEW s \in Slots, EncodePriv(s) PROVE IInv'
  <2>1. ArtsOK'
    BY <1>2, <1>8, EncodePrivOK
  <2>2. UNCHANGED <<key, cts>> /\ derived' = Null
    BY <1>8 DEF EncodePriv
  <2> QED BY <1>1, <2>1, <2>2, OnlyArts
<1>9. ASSUME NEW s \in Slots, GetShare(s) PROVE IInv'
  <2>1. ArtsOK'
    BY <1>2, <1>9, GetShareOK
  <2>2. UNCHANGED <<key, cts>> /\ derived' = Null
    BY <1>9 DEF GetShare
  <2> QED BY <1>1, <2>1, <2>2, OnlyArts
<1>10. ASSUME NEW s \in Slots, NEW a \in arts, Import(s, a) \/ DecodePub(s, a) \/ DecodePriv(s, a) \/ SetShare(s, a)
       PROVE  IInv'
  <2>1. ArtOK(a)
    BY <1>2 DEF ArtsOK
  <2>2. CASE Import(s, a)
    <3>1. KeysOK'
      BY <1>2, <2>1, <2>2, ImportOK
    <3>2. Same
      BY <2>2 DEF Import
    <3> QED BY <1>1, <3>1, <3>2, OnlyKeys
  <2>3. CASE DecodePub(s, a)
    <3>1. KeysOK'
      BY <1>2, <2>1, <2>3, DecodePubOK
    <3>2. Same
      BY <2>3 DEF DecodePub
    <3> QED BY <1>1, <3>1, <3>2, OnlyKeys
  <2>4. CASE DecodePriv(s, a)
    <3>1. KeysOK'
      BY <1>2, <2>1, <2>4, DecodePrivOK
    <3>2. Same
      BY <2>4 DEF DecodePriv
    <3> QED BY <1>1, <3>1, <3>2, OnlyKeys
  <2>5. CASE SetShare(s, a)
    <3>1. KeysOK'
      BY <1>2, <2>1, <2>5, SetShareOK
    <3>2. Same
      BY <2>5 DEF SetShare
    <3> QED BY <1>1, <3>1, <3>2, OnlyKeys
  <2> QED BY <1>10, <2>2, <2>3, <2>4, <2>5
<1>11. ASSUME NEW s \in Slots, Encaps(s) PROVE IInv'
  <2>1. CtsOK'
    BY <1>2, <1>11, EncapsOK
  <2>2. key' = key /\ arts' = arts /\ derived' = Null
    BY <1>11 DEF Encaps
  <2>3. KeysOK' /\ ArtsOK'
    BY <1>2, <2>2 DEF KeysOK, Live, ArtsOK
  <2>4. SecretsAgree'
    BY <2>2 DEF SecretsAgree
  <2> QED BY <2>1, <2>3, <2>4 DEF IInv
<1>12. ASSUME NEW s \in Slots, NEW x \in cts, Decaps(s, x) PROVE IInv'
  <2>1. CtOK(x)
    BY <1>2 DEF CtsOK
  <2>2. SecretsAgree'
    BY <1>2, <1>12, <2>1, DecapsOK
  <2>3. key' = key /\ arts' = arts /\ cts' = cts
    BY <1>12 DEF Decaps
  <2>4. KeysOK' /\ ArtsOK' /\ CtsOK'
    BY <1>2, <2>3 DEF KeysOK, Live, ArtsOK, CtsOK
  <2> QED BY <2>2, <2>4 DEF IInv
<1>13. CASE UNCHANGED vars
  <2>1. key' = key /\ arts' = arts /\ cts' = cts /\ derived' = derived
    BY <1>13 DEF vars
  <2> QED BY <1>2, <2>1 DEF IInv, KeysOK, Live, ArtsOK, CtsOK, SecretsAgree
<1>14. CASE Next
  <2>1. PICK s \in Slots :
          \/ Free(s) \/ EncodePub(s) \/ EncodePriv(s) \/ GetShare(s) \/ Encaps(s)
          \/ \E kd \in Kinds, p \in BOOLEAN, n \in 0..CS : KeyGenHalf(s, kd, p, n)
          \/ \E kd \in Kinds, i \in Ids, n \in 1..CS : KeyGen(s, kd, i, n)
          \/ \E w \in BOOLEAN : Export(s, w)
          \/ \E a \in arts : Import(s, a) \/ DecodePub(s, a) \/ DecodePriv(s, a) \/ SetShare(s, a)
          \/ \E x \in cts : Decaps(s, x)
    BY <1>14 DEF Next
  <2>2. CASE Free(s) \/ EncodePub(s) \/ EncodePriv(s) \/ GetShare(s) \/ Encaps(s)
    BY <1>3, <1>7, <1>8, <1>9, <1>11, <2>2
  <2>3. CASE \E kd \in Kinds, p \in BOOLEAN, n \in 0..CS : KeyGenHalf(s, kd, p, n)
    BY <1>5, <2>3
  <2>4. CASE \E kd \in Kinds, i \in Ids, n \in 1..CS : KeyGen(s, kd, i, n)
    BY <1>4, <2>4
  <2>5. CASE \E w \in BOOLEAN : Export(s, w)
    BY <1>6, <2>5
  <2>6. CASE \E a \in arts : Import(s, a) \/ DecodePub(s, a) \/ DecodePriv(s, a) \/ SetShare(s, a)
    BY <1>10, <2>6
  <2>7. CASE \E x \in cts : Decaps(s, x)
    BY <1>12, <2>7
  <2> QED BY <2>1, <2>2, <2>3, <2>4, <2>5, <2>6, <2>7
<1> QED BY <1>1, <1>13, <1>14

(* In every reachable state the buffers, pointers and classical key of     *)
(* each key object, and what it sent out, belong to the key pair it is     *)
(* meant to hold.                                                          *)
THEOREM Inductive == Spec => []IInv
BY InitOK, StepOK, PTL DEF Spec

-----------------------------------------------------------------------------
(* The properties.                                                         *)

(* A buffer has the length oqsx_key_new gives it for the kind of key.      *)
THEOREM TypeCorrect == Spec => []TypeOK
<1>1. IInv => TypeOK
  <2>1. SUFFICES ASSUME KeysOK, NEW s \in Slots, Live(s)
        PROVE  /\ key[s].kd \in Kinds /\ key[s].id \in Ids \cup {Null} /\ key[s].peer \in BOOLEAN
               /\ key[s].pub # Null => Len(key[s].pub) = PubLen(key[s].kd)
               /\ key[s].priv # Null => Len(key[s].priv) = PrivLen(key[s].kd)
    BY DEF IInv, TypeOK
  <2>2. PICK k : k = key[s]
    OBVIOUS
  <2>3. /\ k \in Key /\ k.kd \in Kinds /\ k.id \in Ids \cup {Null}
        /\ k.pub \in [1..PubLen(k.kd) -> Cell] /\ (k.priv # Null => PrivOK(k.kd, k.id, k.priv))
    BY <2>1, <2>2, LiveKey
  <2>4. k.peer \in BOOLEAN
    BY <2>3 DEF Key
  <2>5. Len(k.pub) = PubLen(k.kd)
    BY <2>3, PubIs
  <2>6. k.priv # Null => Len(k.priv) = PrivLen(k.kd)
    BY <2>3, PrivIs DEF PrivOK
  <2> QED BY <2>2, <2>3, <2>4, <2>5, <2>6
<1> QED BY <1>1, Inductive, PTL

(* Whatever oqsx_key_gen, fromdata, the decoders and set_params did to a   *)
(* key and in whatever order, comp_pubkey and comp_privkey lead to the     *)
(* components of its key pair, for any length of the classical private     *)
(* key.                                                                    *)
THEOREM ComponentsAreInPlace == Spec => []ComponentsInPlace
<1>1. IInv => ComponentsInPlace
  <2>1. SUFFICES ASSUME KeysOK, NEW s \in Slots, Live(s), key[s].id # Null
        PROVE  LET k == key[s] IN
               /\ k.cpub # Null => /\ OqsPub(k) = Part("qp", k.id, QP)
                                   /\ Hybrid(k.kd) => ClassicPub(k) = Part("cp", k.id, CP)
               /\ k.priv # Null => /\ OqsPriv(k) = Part("qs", k.id, QS)
                                   /\ Hybrid(k.kd) => k.id \in OwnerOf("cs", ClassicPriv(k))
    BY DEF IInv, ComponentsInPlace
  <2>2. PICK k : k = key[s]
    OBVIOUS
  <2>3. /\ k.kd \in Kinds /\ k.id \in Ids /\ k.id \in Owners /\ k.id # Null /\ PubOK(k.kd, k.id, k.pub)
        /\ (k.priv # Null => PrivOK(k.kd, k.id, k.priv)) /\ PointersOK(k)
    BY <2>1, <2>2, LiveKey DEF Owners
  <2>4. ASSUME k.cpub # Null PROVE OqsPub(k) = Part("qp", k.id, QP)
    <3>1. k.cpub = PubOffs(k.kd)
      BY <2>3, <2>4 DEF PointersOK
    <3> QED BY <2>3, <3>1, PubRead DEF OqsPub
  <2>5. ASSUME k.cpub # Null, Hybrid(k.kd) PROVE ClassicPub(k) = Part("cp", k.id, CP)
    <3>1. k.cpub = PubOffs(k.kd)
      BY <2>3, <2>5 DEF PointersOK
    <3>2. (IF Fixed(k.kd) THEN CP ELSE k.pub[1][2]) = CP
      <4>1. CASE Fixed(k.kd)
        BY <4>1
      <4>2. CASE ~Fixed(k.kd)
        <5>1. k.kd = "hybsig"
          BY <2>3, <2>5, <4>2, KindFacts
        <5>2. k.pub[1] = Num(CP)
          BY <2>3, <5>1 DEF PubOK, PubHas
        <5> QED BY <4>2, <5>2, CellFacts
      <4> QED BY <4>1, <4>2
    <3> QED BY <2>3, <2>5, <3>1, <3>2, PubRead DEF ClassicPub
  <2>6. ASSUME k.priv # Null
        PROVE  OqsPriv(k) = Part("qs", k.id, QS) /\ (Hybrid(k.kd) => k.id \in OwnerOf("cs", ClassicPriv(k)))
    <3>1. k.cpriv = CompPriv(k.kd, k.priv)
      BY <2>3, <2>6 DEF PointersOK
    <3>2. PICK n \in PrivLens(k.kd) : PrivHas(k.kd, k.id, k.priv, n)
      BY <2>3, <2>6 DEF PrivOK
    <3>3. k.priv \in [1..PrivLen(k.kd) -> Cell]
      BY <2>3, <2>6 DEF PrivOK
    <3>4. OqsPriv(k) = Part("qs", k.id, QS)
      BY <2>3, <3>1, <3>2, <3>3, PrivRead DEF OqsPriv
    <3>5. ASSUME Hybrid(k.kd) PROVE k.id \in OwnerOf("cs", ClassicPriv(k))
      <4>1. ClassicPriv(k) = Part("cs", k.id, n)
        BY <2>3, <3>1, <3>2, <3>3, <3>5, PrivRead DEF ClassicPriv
      <4>2. OwnerOf("cs", Part("cs", k.id, n)) = {k.id}
        BY <2>3, PrivPlaces, OwnerOfPart
      <4> QED BY <4>1, <4>2
    <3> QED BY <3>4, <3>5
  <2> QED BY <2>2, <2>4, <2>5, <2>6
<1> QED BY <1>1, Inductive, PTL

(* classical_pkey, which oqsx_key_gen makes and                            *)
(* oqsx_key_recreate_classickey makes again from the buffers, is the       *)
(* classical key the buffers hold, with its private half exactly when they *)
(* have one.                                                               *)
THEOREM ClassicalKeysMatch == Spec => []ClassicalMatchesBuffers
<1>1. IInv => ClassicalMatchesBuffers
  <2>1. SUFFICES ASSUME KeysOK, NEW s \in Slots, Live(s), Hybrid(key[s].kd), key[s].id # Null, ~key[s].peer
        PROVE  key[s].classical = [id |-> key[s].id, priv |-> key[s].priv # Null]
    BY DEF IInv, ClassicalMatchesBuffers
  <2>2. ClassicalOK(key[s])
    BY <2>1, LiveKey
  <2> QED BY <2>1, <2>2 DEF ClassicalOK
<1> QED BY <1>1, Inductive, PTL

(* oqs_hyb_kem_decaps with the key a ciphertext was made for - the key     *)
(* itself, or a copy that was decoded or imported - derives the secret     *)
(* that oqs_hyb_kem_encaps derived, both halves and in the same order.     *)
THEOREM DerivedSecretsAgree == Spec => []SecretsAgree
<1>1. IInv => SecretsAgree
  BY DEF IInv
<1> QED BY <1>1, Inductive, PTL

(* Whatever a failed classical generation had written when oqsx_key_gen    *)
(* gave it up, oqsx_import and oqsx_key_op make no key pair of it: its     *)
(* private half never has a classical key beside it, as the length that    *)
(* oqsx_key_recreate_classickey reads by was not stored.                   *)
THEOREM HalfKeysAreNotCopied == Spec => []HalfKeyNotCopied
<1>1. IInv => HalfKeyNotCopied
  <2>1. SUFFICES ASSUME KeysOK, NEW s \in Slots, Live(s), key[s].id = Null, key[s].priv # Null
        PROVE  key[s].classical = Null
    BY DEF IInv, HalfKeyNotCopied
  <2>2. ClassicalOK(key[s])
    BY <2>1, LiveKey
  <2> QED BY <2>1, <2>2 DEF ClassicalOK
<1> QED BY <1>1, Inductive, PTL
=============================================================================
