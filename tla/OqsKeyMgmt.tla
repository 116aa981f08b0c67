------------------------------ MODULE OqsKeyMgmt ------------------------------
(***************************************************************************)
(* The key management of oqs_kmgmt.c: which key object libcrypto holds     *)
(* under which algorithm, with which name and which halves, how a context  *)
(* for generation makes one, what has and match say of them.               *)
(*                                                                         *)
(* A half is known by the pair it belongs to; how the halves lie in memory *)
(* is in OqsKeyMaterial, who owns the object in OqsKeyRefs.  Allocations   *)
(* succeed; a generation that fails gives no key and changes nothing.      *)
(***************************************************************************)
EXTENDS Naturals, FiniteSets

CONSTANTS
  Slots,  (* the EVP_PKEYs of the application                              *)
  Algs,   (* algorithms: each has a KEYMGMT, a name and an OID             *)
  Names,  (* strings an application may give as a group name               *)
  Pairs,  (* generated key pairs                                           *)
  Mats,   (* kinds of material: every algorithm is the kind of its keys    *)
  Made,   (* the material that each algorithm generates under a name       *)
  Null

(* A hybrid takes its classical half from the name: the family from its    *)
(* prefix, for a KEM the curve too.  Under a name of no family it makes no *)
(* key; the other algorithms do not look at the name.                      *)
ASSUME KeyMgmtAssumption ==
  /\ Algs \subseteq Names /\ Algs \subseteq Mats
  /\ Null \notin Pairs \cup Names \cup Mats
  /\ Made \in [Algs -> [Names -> Mats \cup {Null}]]
  /\ \A a \in Algs : Made[a][a] = a

VARIABLES
  key,    (* of each slot: Null or a key object                            *)
  gctx    (* the context for generation: Null or its algorithm and name    *)

keyVars == <<key, gctx>>

(* Selections, with one bit for the domain and the other parameters.       *)
Halves     == {"private", "public"}
Bits       == Halves \cup {"params"}
Selections == SUBSET Bits

(* An OQSX_KEY that libcrypto holds under the KEYMGMT of alg.  Its buffers *)
(* hold material of the kind mat, and tls_name is name.                    *)
KeyObj  == [alg : Algs, mat : Mats, name : Names, pub : Pairs \cup {Null}, priv : Pairs \cup {Null}]
IsKey(s) == key[s] # Null
Keys    == {key[s] : s \in {t \in Slots : IsKey(t)}}

MgmtTypeOK ==
  /\ \A s \in Slots : IsKey(s) => key[s] \in KeyObj
  /\ DOMAIN key = Slots
  /\ gctx = Null \/ gctx \in [alg : Algs, name : Names]

MgmtInit == key = [s \in Slots |-> Null] /\ gctx = Null

-----------------------------------------------------------------------------
(* oqsx_has and oqsx_match, without NOPUBKEY_IN_PRIVKEY.                   *)
Has(k, sel) ==
  /\ "public" \in sel => k.pub # Null
  /\ "private" \in sel => k.priv # Null

OneSided(h1, h2) == (h1 = Null) # (h2 = Null)
(* Halves compare by their bytes, those of different kinds differ.         *)
SamePub(k1, k2)  == k1.pub # Null /\ k1.pub = k2.pub /\ k1.mat = k2.mat
SamePriv(k1, k2) == k1.priv # Null /\ k1.priv = k2.priv /\ k1.mat = k2.mat

(* Private halves are compared only where no public ones are asked for.    *)
PrivMatch(k1, k2) ==
  /\ ~OneSided(k1.priv, k2.priv) /\ k1.name = k2.name
  /\ k1.priv = Null \/ SamePriv(k1, k2)

(* Definitions marked "Bug:" are no part of the specification: each is the *)
(* next definition with a mistake in it, for showing which property fails. *)
(* Bug: with a public half missing, having both private halves is enough.  *)
PubMatchBlind(k1, k2, sel) ==
  IF OneSided(k1.pub, k2.pub) \/ k1.name # k2.name
  THEN "params" \in sel /\ k1.priv # Null /\ k2.priv # Null
  ELSE k1.pub = Null \/ SamePub(k1, k2)

(* With one public half missing, or different names, equal private halves  *)
(* make up for it where the parameters are asked for.                      *)
PubMatch(k1, k2, sel) ==
  IF OneSided(k1.pub, k2.pub) \/ k1.name # k2.name
  THEN "params" \in sel /\ SamePriv(k1, k2)
  ELSE k1.pub = Null \/ SamePub(k1, k2)

Match(k1, k2, sel) ==
  /\ "private" \in sel /\ "public" \notin sel => PrivMatch(k1, k2)
  /\ "public" \in sel => PubMatch(k1, k2, sel)

(* EVP_PKEY_eq: keys of one KEYMGMT, by their public halves if both have   *)
(* one, else by the pair.                                                  *)
EvpEq(k1, k2) ==
  /\ k1.alg = k2.alg
  /\ Match(k1, k2, IF Has(k1, {"public"}) /\ Has(k2, {"public"}) THEN {"params", "public"} ELSE Bits)

-----------------------------------------------------------------------------
(* Generation.  A group name replaces tls_name, and with it the classical  *)
(* half of a hybrid; the KEYMGMT and the OQS algorithm stay.               *)
GenInit(a) == gctx = Null /\ gctx' = [alg |-> a, name |-> a] /\ UNCHANGED key

GenSetName(n) == gctx # Null /\ gctx' = [gctx EXCEPT !.name = n] /\ UNCHANGED key

Generated(g, p) == [alg |-> g.alg, mat |-> Made[g.alg][g.name], name |-> g.name, pub |-> p, priv |-> p]

Gen(s, p) ==
  /\ gctx # Null /\ ~IsKey(s)
  /\ Made[gctx.alg][gctx.name] # Null
  /\ key' = [key EXCEPT ![s] = Generated(gctx, p)]
  /\ UNCHANGED gctx

GenCleanup == gctx # Null /\ gctx' = Null /\ UNCHANGED key

(* EVP_PKEY_fromdata: a new key of the algorithm, then oqsx_import.  The   *)
(* public half is taken whatever the selection says of it, other bits than *)
(* those of the halves decide nothing; the halves may be of two pairs.     *)
Import(s, a, sel, pub, priv) ==
  /\ ~IsKey(s)
  /\ sel \cap Halves # {}
  /\ pub # Null \/ priv # Null
  /\ key' = [key EXCEPT ![s] = [alg |-> a, mat |-> a, name |-> a, pub |-> pub,
                                priv |-> IF "private" \in sel THEN priv ELSE Null]]
  /\ UNCHANGED gctx

(* oqsx_load of a key that a decoder made.                                 *)
LoadKey(s, k) == ~IsKey(s) /\ key' = [key EXCEPT ![s] = k] /\ UNCHANGED gctx

FreeKey(s) == IsKey(s) /\ key' = [key EXCEPT ![s] = Null] /\ UNCHANGED gctx

MgmtStep ==
  \/ \E a \in Algs : GenInit(a)
  \/ \E n \in Names : GenSetName(n)
  \/ GenCleanup
  \/ \E s \in Slots :
       \/ FreeKey(s)
       \/ \E p \in Pairs : Gen(s, p)
       \/ \E a \in Algs, sel \in SUBSET Halves, pub, priv \in Pairs \cup {Null} : Import(s, a, sel, pub, priv)

-----------------------------------------------------------------------------
(* Keys that match have a half in common, whichever halves are asked for,  *)
(* as long as one of them has a half the match looks at.                   *)
(* (oqs_kmgmt.c:148-219: the special cases for missing halves and names.)  *)
MatchSharesAHalf ==
  \A k1, k2 \in Keys, sel \in Selections :
    /\ Match(k1, k2, sel)
    /\ \/ "public" \in sel /\ (k1.pub # Null \/ k2.pub # Null)
       \/ "public" \notin sel /\ "private" \in sel /\ (k1.priv # Null \/ k2.priv # Null)
    => SamePub(k1, k2) \/ SamePriv(k1, k2)
=============================================================================
