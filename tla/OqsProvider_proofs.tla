-------------------------- MODULE OqsProvider_proofs --------------------------
(***************************************************************************)
(* Theorems about OqsProvider, for any number of instances, threads and    *)
(* algorithms.                                                             *)
(***************************************************************************)
EXTENDS OqsProvider, FiniteSetTheorems, SequenceTheorems, TLAPS

(* The state of loading and unloading has its type.                        *)
LoadTypeOK == disabled = Null \/ disabled \subseteq Algs

(* The loop over the OIDs sees names only, and in the end all of them.     *)
LEMMA SeenAreAlgs ==
  /\ \A n \in 0..Len(OidList) : Seen(n) \subseteq Algs
  /\ Seen(Len(OidList)) = Elems(OidList)
BY ProviderAssumption DEF Seen, Elems

(* A stack that exists is not NULL, so nothing on it is overlooked.        *)
LEMMA OffOfStack ==
  ASSUME NEW S, S \subseteq Algs, disabled' = S
  PROVE  Off' = S
BY ProviderAssumption DEF Off

(* What the list holds are names of algorithms.                            *)
LEMMA OffIsSet == LoadTypeOK => Off \subseteq Algs
BY DEF LoadTypeOK, Off

(* No step of a query touches what loading and unloading maintain.         *)
LEMMA QueryStutters ==
  ASSUME NEW t \in Threads, InQuery(t)
  PROVE  UNCHANGED Shared
BY DEF InQuery, Query, TestTable, AllocTable, FillEntry, FillDone, ReturnTable, WalkDone

(* What the steps of an init that got as far as the OIDs do to the list    *)
(* and the NIDs.                                                           *)
LEMMA ListGrows ==
  ASSUME LoadTypeOK, NEW i \in Instances, NEW noObj, NEW noSig,
         \/ Load(i, noObj, noSig)
         \/ \E n \in 0..Len(OidList) : LoadFailsAtOid(i, n, noObj, noSig)
         \/ LoadFailsEarly(i)
  PROVE  /\ LoadTypeOK' /\ Off \subseteq Off' /\ nids \subseteq nids'
         /\ UNCHANGED <<spoiled, loaded>>
         /\ starting' # starting => Elems(OidList) \ Off' \subseteq nids'
<1>1. CASE Load(i, noObj, noSig)
  <2> DEFINE S == Off \cup noObj \cup noSig \cup DoneByCore
  <2>1. Register(Len(OidList), noObj, noSig) /\ disabled' = S /\ UNCHANGED <<spoiled, loaded>>
    BY <1>1 DEF Load, Prepare
  <2>2. noObj \subseteq Algs /\ noSig \subseteq Algs
    BY <2>1, SeenAreAlgs, ProviderAssumption DEF Register
  <2>3. S \subseteq Algs
    BY <2>2, OffIsSet, ProviderAssumption DEF DoneByCore
  <2>4. Off' = S
    BY <2>1, <2>3, OffOfStack
  <2>5. nids' = nids \cup (Elems(OidList) \ noObj)
    BY <2>1, SeenAreAlgs DEF Register
  <2> QED BY <2>1, <2>3, <2>4, <2>5 DEF LoadTypeOK
<1>2. CASE \E n \in 0..Len(OidList) : LoadFailsAtOid(i, n, noObj, noSig)
  <2>1. PICK n \in 0..Len(OidList) : LoadFailsAtOid(i, n, noObj, noSig)
    BY <1>2
  <2> DEFINE S == Off \cup noObj \cup noSig
  <2>2. Register(n, noObj, noSig) /\ disabled' = S /\ UNCHANGED <<spoiled, loaded, starting>>
    BY <2>1 DEF LoadFailsAtOid
  <2>3. S \subseteq Algs
    BY <2>2, SeenAreAlgs, OffIsSet DEF Register
  <2>4. Off' = S
    BY <2>2, <2>3, OffOfStack
  <2> QED BY <2>2, <2>3, <2>4 DEF LoadTypeOK, Register
<1>3. CASE LoadFailsEarly(i)
  <2>1. disabled' = Off /\ UNCHANGED <<spoiled, loaded, starting, nids>>
    BY <1>3 DEF LoadFailsEarly
  <2>2. Off' = Off
    BY <2>1, OffIsSet, OffOfStack
  <2> QED BY <2>1, <2>2, OffIsSet DEF LoadTypeOK
<1> QED BY <1>1, <1>2, <1>3

(* Where an attempt to load goes on, it has dealt with every name.         *)
NidsDealtWith == starting # Null => Offered \cap Elems(OidList) \subseteq nids

(***************************************************************************)
(* A name with an OID that the provider offers has its NID, unless an      *)
(* instance was torn down beside another one (oqsprov.c:1288-1349: the     *)
(* end of the loop disables what it could not register).                   *)
(***************************************************************************)
THEOREM OfferedNamesHaveNids == Spec => []OfferedHasNid
<1> DEFINE Inv == LoadTypeOK /\ OfferedHasNid /\ NidsDealtWith
<1>1. Init => Inv
  BY DEF Init, LoadTypeOK, OfferedHasNid, NidsDealtWith
<1>2. Inv /\ [Next]_vars => Inv'
  <2> SUFFICES ASSUME Inv, [Next]_vars PROVE Inv'
    OBVIOUS
  <2>1. CASE UNCHANGED Shared
    BY <2>1 DEF Shared, LoadTypeOK, OfferedHasNid, NidsDealtWith, Offered, Off
  <2>2. ASSUME NEW i \in Instances, Unload(i) PROVE Inv'
    BY <2>2 DEF Unload, Teardown, LoadTypeOK, OfferedHasNid, NidsDealtWith
  <2>3. CASE InInit
    <3>1. ASSUME UNCHANGED <<disabled, nids, spoiled>>, starting' = Null \/ starting # Null,
                 loaded' = loaded \/ starting # Null
          PROVE  Inv'
      BY <3>1 DEF LoadTypeOK, OfferedHasNid, NidsDealtWith, Offered, Off
    <3>2. CASE Create \/ CreateFails
      BY <3>1, <3>2 DEF Create, CreateFails, Making, Process
    <3>3. CASE Loaded
      BY <3>1, <3>3 DEF Loaded, Process
    <3>4. CASE CleanUp
      <4>1. starting' = Null /\ UNCHANGED <<loaded, nids>>
        BY <3>4 DEF CleanUp
      <4>2. UNCHANGED <<disabled, spoiled>> \/ Teardown
        BY <3>4 DEF CleanUp
      <4>3. CASE Teardown
        BY <4>1, <4>3 DEF Teardown, LoadTypeOK, OfferedHasNid, NidsDealtWith
      <4> QED BY <3>1, <4>1, <4>2, <4>3
    <3> QED BY <2>3, <3>2, <3>3, <3>4 DEF InInit
  <2>4. ASSUME NEW i \in Instances, NEW noObj, NEW noSig,
               \/ Load(i, noObj, noSig)
               \/ \E n \in 0..Len(OidList) : LoadFailsAtOid(i, n, noObj, noSig)
               \/ LoadFailsEarly(i)
        PROVE  Inv'
    <3>1. /\ LoadTypeOK' /\ Off \subseteq Off' /\ nids \subseteq nids' /\ UNCHANGED <<spoiled, loaded>>
          /\ starting' # starting => Elems(OidList) \ Off' \subseteq nids'
      BY <2>4, ListGrows
    <3> QED BY <3>1 DEF OfferedHasNid, NidsDealtWith, Offered
  <2>5. CASE UNCHANGED vars
    BY <2>5, <2>1 DEF vars, Shared
  <2>6. CASE \E t \in Threads : InQuery(t)
    BY <2>6, <2>1, QueryStutters
  <2>7. CASE \E i \in Instances : LoadOrUnload(i)
    BY <2>7, <2>2, <2>4 DEF LoadOrUnload
  <2> QED BY <2>3, <2>5, <2>6, <2>7 DEF Next
<1>3. Inv => OfferedHasNid
  OBVIOUS
<1> QED BY <1>1, <1>2, <1>3, PTL DEF Spec

(* An attempt to load has its child library context from when it is made,  *)
(* is for an instance that is not loaded, and does not fail any more once  *)
(* it has a provider context.                                              *)
HasChild(i) ==
  i \in loaded \/ (starting # Null /\ starting.inst = i /\ starting.last \in {"libctx", "provctx"})
ChildInv ==
  /\ children \in [Instances -> Int] /\ starting \in Attempt \cup {Null}
  /\ \A i \in Instances : children[i] = IF HasChild(i) THEN 1 ELSE 0
  /\ starting # Null => starting.inst \notin loaded /\ (starting.failed => starting.last # "provctx")

(* One child library context is made or freed.                             *)
LEMMA ChildChange ==
  ASSUME ChildInv, NEW i \in Instances, NEW d \in Int, children' = [children EXCEPT ![i] = @ + d],
         starting' \in Attempt \cup {Null},
         d = (IF HasChild(i)' THEN 1 ELSE 0) - (IF HasChild(i) THEN 1 ELSE 0),
         \A j \in Instances : j # i => HasChild(j)' = HasChild(j),
         starting' # Null => starting'.inst \notin loaded' /\ (starting'.failed => starting'.last # "provctx")
  PROVE  ChildInv'
<1>1. children \in [Instances -> Int] /\ \A j \in Instances : children[j] = IF HasChild(j) THEN 1 ELSE 0
  BY DEF ChildInv
<1>2. children' \in [Instances -> Int] /\ children'[i] = children[i] + d
  BY <1>1
<1>3. ASSUME NEW j \in Instances PROVE children'[j] = IF HasChild(j)' THEN 1 ELSE 0
  <2>1. CASE j = i
    BY <1>1, <1>2, <2>1
  <2>2. CASE j # i
    <3>1. children'[j] = children[j]
      BY <1>1, <2>2
    <3> QED BY <1>1, <2>2, <3>1
  <2> QED BY <2>1, <2>2
<1> QED BY <1>2, <1>3 DEF ChildInv

(* No child library context is made or freed.                              *)
LEMMA ChildSame ==
  ASSUME ChildInv, children' = children, starting' \in Attempt \cup {Null},
         \A j \in Instances : HasChild(j)' = HasChild(j),
         starting' # Null => starting'.inst \notin loaded' /\ (starting'.failed => starting'.last # "provctx")
  PROVE  ChildInv'
BY DEF ChildInv

(* The entry point makes a child library context and frees it.             *)
LEMMA InitKeepsChildren ==
  ASSUME ChildInv, InInit
  PROVE  ChildInv'
<1>1. starting \in Attempt /\ starting # Null /\ Null \notin Attempt
  <2>1. starting # Null
    BY DEF InInit, Create, CreateFails, Making, Loaded, CleanUp
  <2> QED BY <2>1, ProviderAssumption DEF ChildInv
<1>2. PICK c \in Attempt : c = starting
  BY <1>1
<1>3. /\ c.inst \in Instances /\ c.inst \notin loaded /\ (c.failed => c.last # "provctx")
      /\ c.last \in {"none", "bio", "libctx", "provctx"}
  BY <1>1, <1>2 DEF ChildInv, Attempt, Stages
<1>4. \A j \in Instances : HasChild(j) <=> j \in loaded \/ (c.inst = j /\ c.last \in {"libctx", "provctx"})
  BY <1>1, <1>2 DEF HasChild
<1>5. CASE Create
  <2>1. /\ ~c.failed /\ c.last \in {"none", "bio", "libctx"} /\ loaded' = loaded
        /\ starting' = [c EXCEPT !.last = After[c.last]]
        /\ children' = IF c.last = "bio" THEN [children EXCEPT ![c.inst] = @ + 1] ELSE children
    BY <1>2, <1>3, <1>5 DEF Create, Making
  <2>2. PICK n : n = After[c.last]
    OBVIOUS
  <2>3. /\ c.last = "none" => n = "bio"
        /\ c.last = "bio" => n = "libctx"
        /\ c.last = "libctx" => n = "provctx"
    BY <2>2 DEF After
  <2>4. PICK d : d = [c EXCEPT !.last = n]
    OBVIOUS
  <2>5. starting' = d /\ d \in Attempt /\ d.inst = c.inst /\ d.last = n /\ d.failed = c.failed
    BY <2>1, <2>2, <2>3, <2>4 DEF Attempt, Stages
  <2>6. \A j \in Instances : HasChild(j)' <=> j \in loaded \/ (c.inst = j /\ n \in {"libctx", "provctx"})
    BY <1>1, <2>1, <2>5 DEF HasChild
  <2>7. CASE c.last = "bio"
    <3>1. HasChild(c.inst)' /\ ~HasChild(c.inst)
      BY <1>3, <1>4, <2>3, <2>6, <2>7
    <3>2. \A j \in Instances : j # c.inst => HasChild(j)' = HasChild(j)
      BY <1>4, <2>6 DEF HasChild
    <3>3. PICK one \in Int : one = 1
      OBVIOUS
    <3>4. children' = [children EXCEPT ![c.inst] = @ + one]
      BY <2>1, <2>7, <3>3
    <3>5. one = (IF HasChild(c.inst)' THEN 1 ELSE 0) - (IF HasChild(c.inst) THEN 1 ELSE 0)
      BY <3>1, <3>3
    <3> QED BY <1>3, <2>1, <2>5, <3>2, <3>3, <3>4, <3>5, ChildChange, ZenonT(60)
  <2>8. CASE c.last # "bio"
    <3>1. \A j \in Instances : HasChild(j)' = HasChild(j)
      BY <1>4, <2>1, <2>3, <2>6, <2>8 DEF HasChild
    <3> QED BY <1>3, <2>1, <2>5, <2>8, <3>1, ChildSame
  <2> QED BY <2>7, <2>8
<1>6. CASE CreateFails
  <2>1. /\ c.last # "provctx" /\ loaded' = loaded /\ children' = children
        /\ starting' = [c EXCEPT !.failed = TRUE]
    BY <1>2, <1>6 DEF CreateFails, Making
  <2>2. PICK d : d = [c EXCEPT !.failed = TRUE]
    OBVIOUS
  <2>3. starting' = d /\ d \in Attempt /\ d.inst = c.inst /\ d.last = c.last
    BY <2>1, <2>2 DEF Attempt
  <2>4. \A j \in Instances : HasChild(j)' = HasChild(j)
    BY <1>1, <1>2, <2>1, <2>3 DEF HasChild
  <2> QED BY <1>3, <2>1, <2>3, <2>4, ChildSame
<1>7. CASE Loaded
  <2>1. /\ c.last = "provctx" /\ loaded' = loaded \cup {c.inst} /\ starting' = Null /\ children' = children
    BY <1>2, <1>7 DEF Loaded
  <2>2. \A j \in Instances : HasChild(j)' = HasChild(j)
    BY <1>1, <1>2, <1>3, <2>1 DEF HasChild
  <2> QED BY <2>1, <2>2, ChildSame
<1>8. CASE CleanUp
  <2>1. c.failed /\ starting' = Null /\ loaded' = loaded /\ c.last \in {"none", "bio", "libctx"}
    BY <1>2, <1>3, <1>8 DEF CleanUp
  <2>2. \A j \in Instances : HasChild(j)' <=> j \in loaded
    BY <2>1 DEF HasChild
  <2>3. CASE c.last = "libctx"
    <3>1. ~HasChild(c.inst)' /\ HasChild(c.inst)
      BY <1>3, <1>4, <2>2, <2>3
    <3>2. \A j \in Instances : j # c.inst => HasChild(j)' = HasChild(j)
      BY <1>4, <2>2 DEF HasChild
    <3>3. PICK d \in Int : d = -1
      OBVIOUS
    <3>4. children' = [children EXCEPT ![c.inst] = @ - 1]
      BY <1>2, <1>8, <2>3 DEF CleanUp, ChildFreed
    <3>5. children[c.inst] - 1 = children[c.inst] + d
      BY <1>3, <3>3 DEF ChildInv
    <3>6. children' = [children EXCEPT ![c.inst] = @ + d]
      BY <3>4, <3>5
    <3>7. d = (IF HasChild(c.inst)' THEN 1 ELSE 0) - (IF HasChild(c.inst) THEN 1 ELSE 0)
      BY <3>1, <3>3
    <3> QED BY <1>3, <2>1, <3>2, <3>3, <3>6, <3>7, ChildChange
  <2>4. CASE c.last # "libctx"
    <3>1. children' = children
      BY <1>2, <1>8, <2>1, <2>4 DEF CleanUp
    <3>2. \A j \in Instances : HasChild(j)' = HasChild(j)
      BY <1>4, <2>1, <2>2, <2>4 DEF HasChild
    <3> QED BY <2>1, <3>1, <3>2, ChildSame
  <2> QED BY <2>3, <2>4
<1> QED BY <1>5, <1>6, <1>7, <1>8 DEF InInit

(***************************************************************************)
(* However many attempts to load fail and wherever, and however often an   *)
(* instance is loaded and unloaded, its child library context is freed     *)
(* once (oqsprov.c:1478-1513, oqsprov_keys.c:431-435).                     *)
(***************************************************************************)
THEOREM ChildrenAreFreedOnce == Spec => []ChildFreedOnce
<1>1. Init => ChildInv
  BY DEF Init, ChildInv, HasChild
<1>2. ChildInv /\ [Next]_vars => ChildInv'
  <2> SUFFICES ASSUME ChildInv, [Next]_vars PROVE ChildInv'
    OBVIOUS
  <2>1. CASE UNCHANGED Shared
    BY <2>1 DEF Shared, ChildInv, HasChild
  <2>2. CASE UNCHANGED vars
    BY <2>2 DEF vars, ChildInv, HasChild
  <2>3. CASE \E t \in Threads : InQuery(t)
    BY <2>3, <2>1, QueryStutters
  <2>4. ASSUME NEW i \in Instances, NEW noObj, NEW noSig, Load(i, noObj, noSig) PROVE ChildInv'
    <3>1. PICK d : d = [inst |-> i, last |-> "none", failed |-> FALSE]
      OBVIOUS
    <3>2. /\ starting = Null /\ starting' = d /\ i \notin loaded
          /\ loaded' = loaded /\ children' = children
      BY <2>4, <3>1 DEF Load, CanLoad
    <3>3. d \in Attempt /\ d.inst = i /\ d.last = "none" /\ d.failed = FALSE
      BY <3>1 DEF Attempt, Stages
    <3>4. \A j \in Instances : HasChild(j)' = HasChild(j)
      BY <3>2, <3>3 DEF HasChild
    <3> QED BY <3>2, <3>3, <3>4, ChildSame
  <2>5. ASSUME NEW i \in Instances, LoadFailsEarly(i) \/ UNCHANGED <<loaded, starting, children>>
        PROVE  ChildInv'
    BY <2>5 DEF LoadFailsEarly, ChildInv, HasChild
  <2>6. ASSUME NEW i \in Instances, NEW n, NEW noObj, NEW noSig, LoadFailsAtOid(i, n, noObj, noSig)
        PROVE  ChildInv'
    BY <2>5, <2>6 DEF LoadFailsAtOid
  <2>7. ASSUME NEW i \in Instances, Unload(i) PROVE ChildInv'
    <3>1. /\ starting = Null /\ starting' = Null /\ i \in loaded /\ loaded' = loaded \ {i}
          /\ children' = [children EXCEPT ![i] = @ - 1]
      BY <2>7 DEF Unload, ChildFreed
    <3>2. ~HasChild(i)' /\ HasChild(i)
      BY <3>1 DEF HasChild
    <3>3. \A j \in Instances : j # i => HasChild(j)' = HasChild(j)
      BY <3>1 DEF HasChild
    <3>4. PICK d \in Int : d = -1
      OBVIOUS
    <3>5. children[i] - 1 = children[i] + d
      BY <3>4 DEF ChildInv
    <3>6. children' = [children EXCEPT ![i] = @ + d]
      BY <3>1, <3>5
    <3>7. d = (IF HasChild(i)' THEN 1 ELSE 0) - (IF HasChild(i) THEN 1 ELSE 0)
      BY <3>2, <3>4
    <3> QED BY <3>1, <3>3, <3>4, <3>6, <3>7, ChildChange
  <2>8. CASE \E i \in Instances : LoadOrUnload(i)
    BY <2>8, <2>4, <2>5, <2>6, <2>7 DEF LoadOrUnload
  <2> QED BY <2>2, <2>3, <2>8, InitKeepsChildren DEF Next
<1>3. ChildInv => ChildFreedOnce
  BY DEF ChildInv, ChildFreedOnce, HasChild
<1> QED BY <1>1, <1>2, <1>3, PTL DEF Spec

-----------------------------------------------------------------------------
(* The filtered tables, which any number of threads may make at once.      *)

Size(op) == Len(Static(op))

(* What a thread in a query knows of the table it is about to make, makes  *)
(* or returns: the count is right for the names now disabled, the entries  *)
(* written are those that precede the next one, and there is a table.      *)
Knows(c) ==
  /\ c # Idle => loaded # {}
  /\ c.at \in {"test", "alloc", "fill"} => filter
  /\ c.at \in {"test", "alloc"} => c.size = Rank(c.op, Off, Size(c.op))
  /\ c.at = "fill" => rt[c.op] # Null /\ c.k \in 1..Size(c.op) + 1 /\ c.n = Rank(c.op, Off, c.k - 1)
  /\ c.at = "return" => rt[c.op] # Null
QueryInv == \A t \in Threads : Knows(call[t])

(* With the filter on, what the core implements is on the list.            *)
NativeInv ==
  /\ filter => core >= 5
  /\ core >= 5 /\ (starting # Null \/ loaded # {}) /\ ~spoiled => Native \subseteq Off

(* No two operations share a block.                                        *)
Apart == \A o1, o2 \in Ops : rt[o1] # Null /\ rt[o1] = rt[o2] => o1 = o2

(* A table has the size of the names that D leaves, and each of them is in *)
(* its place or still ahead of a thread that is filling the table.         *)
Grows(op, D) ==
  /\ Len(heap[rt[op]]) = Rank(op, D, Size(op))
  /\ \A j \in 1..Size(op) : Static(op)[j] \notin D =>
       \/ heap[rt[op]][Rank(op, D, j)] = Static(op)[j]
       \/ \E t \in Filling(op) : call[t].k <= j

(* D is a part of the list, and all of it while threads make the table.    *)
Busy(op) == \E t \in Threads : call[t].at \in {"alloc", "fill"} /\ call[t].op = op
Made(op, D) ==
  /\ D \subseteq Off /\ (~spoiled => Native \subseteq D) /\ (Busy(op) => D = Off)
  /\ Grows(op, D)
Tables == \A op \in Ops : rt[op] # Null => \E D \in SUBSET Off : Made(op, D)

TableInv == TypeOK /\ QueryInv /\ NativeInv /\ Apart /\ Tables

(* The static table of an operation ends with the closing entry.           *)
LEMMA StaticShape ==
  ASSUME NEW op \in Ops
  PROVE  /\ Listed[op] \in Seq(Algs) /\ Len(Listed[op]) \in Nat
         /\ Static(op) \in Seq(Algs \cup {End}) /\ Size(op) = Len(Listed[op]) + 1
         /\ \A j \in 1..Len(Listed[op]) : Static(op)[j] = Listed[op][j]
         /\ Static(op)[Size(op)] = End /\ DOMAIN Static(op) = 1..Size(op)
         /\ DOMAIN Listed[op] = 1..Len(Listed[op])
<1>1. Listed[op] \in Seq(Algs) /\ Listed[op] \in Seq(Algs \cup {End})
  BY ProviderAssumption
<1>2. Len(Listed[op]) \in Nat /\ DOMAIN Listed[op] = 1..Len(Listed[op])
  BY <1>1
<1> QED BY <1>1, <1>2, AppendProperties, LenProperties DEF Static, Size

(* Rank counts; it grows by one at each name that D leaves.                *)
LEMMA RankStep ==
  ASSUME NEW op, NEW D, NEW k \in Nat
  PROVE  /\ Rank(op, D, k) \in Nat
         /\ Rank(op, D, k + 1) = IF Static(op)[k + 1] \in D THEN Rank(op, D, k) ELSE Rank(op, D, k) + 1
<1> DEFINE S == {j \in 1..k : Static(op)[j] \notin D}
           T == {j \in 1..(k + 1) : Static(op)[j] \notin D}
<1>1. IsFiniteSet(S) /\ Cardinality(S) \in Nat
  <2>1. IsFiniteSet(1..k) /\ S \in SUBSET (1..k)
    BY FS_Interval
  <2>2. IsFiniteSet(S)
    BY <2>1, FS_Subset
  <2> QED BY <2>2, FS_CardinalityType
<1>2. k + 1 \notin S /\ 1..(k + 1) = 1..k \cup {k + 1}
  OBVIOUS
<1>3. T = IF Static(op)[k + 1] \in D THEN S ELSE S \cup {k + 1}
  BY <1>2
<1>4. Cardinality(S \cup {k + 1}) = Cardinality(S) + 1
  BY <1>1, <1>2, FS_AddElement
<1> QED BY <1>1, <1>3, <1>4 DEF Rank

(* Nothing precedes the first entry.                                       *)
LEMMA RankZero == ASSUME NEW op, NEW D PROVE Rank(op, D, 0) = 0
<1>1. {j \in 1..0 : Static(op)[j] \notin D} = {}
  OBVIOUS
<1> QED BY <1>1, FS_EmptySet DEF Rank

(* Names that D leaves have different places.                              *)
LEMMA RankGrows ==
  ASSUME NEW op, NEW D, NEW i \in Nat, NEW k \in Nat, i < k
  PROVE  /\ Rank(op, D, i) <= Rank(op, D, k)
         /\ Static(op)[k] \notin D => Rank(op, D, i) < Rank(op, D, k)
<1> DEFINE S == {j \in 1..i : Static(op)[j] \notin D}
           T == {j \in 1..k : Static(op)[j] \notin D}
<1>1. IsFiniteSet(T)
  <2>1. IsFiniteSet(1..k) /\ T \in SUBSET (1..k)
    BY FS_Interval
  <2> QED BY <2>1, FS_Subset
<1>2. S \in SUBSET T
  OBVIOUS
<1>3. /\ IsFiniteSet(S) /\ Cardinality(S) <= Cardinality(T)
      /\ Cardinality(T) = Cardinality(S) => T = S
  BY <1>1, <1>2, FS_Subset
<1>4. Cardinality(S) \in Nat /\ Cardinality(T) \in Nat
  BY <1>1, <1>3, FS_CardinalityType
<1>5. Static(op)[k] \notin D => k \in T /\ k \notin S
  OBVIOUS
<1> HIDE DEF S, T
<1>6. Static(op)[k] \notin D => T # S
  BY <1>5
<1>7. Static(op)[k] \notin D => Cardinality(S) < Cardinality(T)
  BY <1>3, <1>4, <1>6
<1> QED BY <1>3, <1>7 DEF Rank, S, T

(* What is left is what was not counted: the size that malloc is given.    *)
LEMMA CountIsRest ==
  ASSUME NEW op \in Ops, Off \subseteq Algs
  PROVE  Size(op) - Count(op) = Rank(op, Off, Size(op))
<1> DEFINE n == Len(Listed[op])
           K == {j \in 1..Size(op) : Static(op)[j] \notin Off}
           C == {j \in DOMAIN Listed[op] : Listed[op][j] \in Off}
<1>1. n \in Nat /\ Size(op) = n + 1 /\ DOMAIN Listed[op] = 1..n
      /\ (\A j \in 1..n : Static(op)[j] = Listed[op][j]) /\ Static(op)[n + 1] = End
  BY StaticShape
<1>2. End \notin Off
  BY ProviderAssumption
<1>3. K \cup C = 1..(n + 1) /\ K \cap C = {}
  BY <1>1, <1>2
<1>4. IsFiniteSet(1..(n + 1)) /\ Cardinality(1..(n + 1)) = n + 1
  BY <1>1, FS_Interval
<1>5. IsFiniteSet(K) /\ IsFiniteSet(C)
  BY <1>3, <1>4, FS_Subset
<1>6. Cardinality(K \cup C) = Cardinality(K) + Cardinality(C) - Cardinality(K \cap C)
  BY <1>5, FS_Union
<1>7. Cardinality(K) \in Nat /\ Cardinality(C) \in Nat /\ Cardinality(K \cap C) = 0
  BY <1>3, <1>5, FS_CardinalityType, FS_EmptySet
<1> HIDE DEF K, C, n
<1>8. n + 1 = Cardinality(K) + Cardinality(C)
  <2>1. Cardinality(K \cup C) = n + 1
    BY <1>3, <1>4
  <2> QED BY <1>6, <1>7, <2>1
<1>9. Count(op) = Cardinality(C) /\ Rank(op, Off, Size(op)) = Cardinality(K)
  BY DEF Count, Rank, K, C
<1> QED BY <1>1, <1>7, <1>8, <1>9

(* What a thread is doing determines the fields of its frame.              *)
LEMMA FrameShape ==
  ASSUME NEW c \in Frame
  PROVE  /\ c.at \in {"idle", "test", "alloc", "fill", "return", "walk"}
         /\ c.at = "idle" <=> c = Idle
         /\ c.at \in {"test", "alloc"} => c \in [at : {"test", "alloc"}, op : Ops, size : Nat]
         /\ c.at = "fill" => c \in [at : {"fill"}, op : Ops, k : Nat, n : Nat]
         /\ c.at = "return" => c.op \in Ops
         /\ c.at = "walk" => c \in [at : {"walk"}, op : Ops, ptr : Blocks \cup {Null}]
BY DEF Frame, Idle

(* Loading and unloading find no query under way.                          *)
LEMMA QuietKeepsQueries ==
  ASSUME Quiet, UNCHANGED call
  PROVE  QueryInv' /\ \A op \in Ops : ~Busy(op)' /\ Filling(op) = {} /\ Filling(op)' = {}
<1>1. \A t \in Threads : call'[t] = Idle /\ call[t] = Idle /\ Idle.at = "idle"
  BY DEF Quiet, Idle
<1> QED BY <1>1 DEF QueryInv, Knows, Busy, Filling

(* A list that grows while nobody queries leaves the tables as they were.  *)
LEMMA QuietKeepsTables ==
  ASSUME Quiet, Tables, UNCHANGED <<rt, heap, call, spoiled>>, Off \subseteq Off'
  PROVE  Tables'
<1>1. \A op \in Ops : ~Busy(op)' /\ Filling(op) = {} /\ Filling(op)' = {}
  BY QuietKeepsQueries
<1>2. ASSUME NEW op \in Ops, rt[op] # Null PROVE \E D \in SUBSET Off' : Made(op, D)'
  <2>1. PICK D \in SUBSET Off : Made(op, D)
    BY <1>2 DEF Tables
  <2>2. Grows(op, D)'
    BY <1>1, <2>1 DEF Made, Grows, Rank, Size, Static
  <2>3. D \subseteq Off' /\ (~spoiled' => Native \subseteq D) /\ ~Busy(op)'
    BY <1>1, <2>1 DEF Made
  <2>4. Made(op, D)'
    BY <2>2, <2>3 DEF Made
  <2> QED BY <2>3, <2>4
<1> QED BY <1>2 DEF Tables

(* What loading and unloading maintain has its type after the step.        *)
Housed ==
  /\ loaded \subseteq Instances /\ starting \in Attempt \cup {Null}
  /\ children \in [Instances -> Int] /\ nids \subseteq Algs

(* A step that finds no query under way and frees no table.                *)
LEMMA QuietKeepsAll ==
  ASSUME TableInv, LoadTypeOK', Off \subseteq Off', Housed', Quiet,
         UNCHANGED <<core, rt, heap, call, spoiled>>,
         filter' \in BOOLEAN, messageApi' \in BOOLEAN, NativeInv'
  PROVE  TableInv'
<1>1. QueryInv' /\ Tables'
  BY QuietKeepsQueries, QuietKeepsTables DEF TableInv
<1>2. \A t \in Threads : call'[t].at = "idle"
  BY DEF Quiet, Idle
<1>3. TypeOK'
  BY <1>2 DEF TableInv, TypeOK, LoadTypeOK, Housed
<1>4. Apart'
  BY DEF TableInv, Apart
<1> QED BY <1>1, <1>3, <1>4 DEF TableInv

(* A teardown leaves no table and no list.                                 *)
LEMMA TeardownKeepsAll ==
  ASSUME TableInv, Quiet, Teardown, Housed', UNCHANGED <<core, filter, nids, messageApi, call>>,
         starting' = Null
  PROVE  TableInv'
<1>1. rt' = [op \in Ops |-> Null] /\ disabled' = Null /\ spoiled' = (loaded' # {})
  BY DEF Teardown
<1>2. heap' \in [Blocks -> Seq(Algs \cup {Junk, End})]
  <2>1. <<>> \in Seq(Algs \cup {Junk, End})
    BY EmptySeq
  <2>2. heap \in [Blocks -> Seq(Algs \cup {Junk, End})]
    BY DEF TableInv, TypeOK
  <2>3. \A b \in Blocks : (IF b \in Elems(rt) THEN <<>> ELSE heap[b]) \in Seq(Algs \cup {Junk, End})
    BY <2>1, <2>2
  <2> QED BY <2>3 DEF Teardown
<1>3. \A t \in Threads : call'[t].at = "idle"
  BY DEF Quiet, Idle
<1>4. spoiled' \in BOOLEAN
  BY <1>1
<1>5. TypeOK'
  <2>1. call \in [Threads -> Frame] /\ rt' \in [Ops -> Blocks \cup {Null}]
    BY <1>1 DEF TableInv, TypeOK
  <2> QED BY <1>1, <1>2, <1>3, <1>4, <2>1 DEF TableInv, TypeOK, Housed
<1>6. QueryInv'
  BY QuietKeepsQueries
<1>7. Apart' /\ Tables'
  BY <1>1 DEF Apart, Tables
<1>8. NativeInv'
  BY <1>1 DEF TableInv, NativeInv
<1> QED BY <1>5, <1>6, <1>7, <1>8 DEF TableInv

(* Every outcome of an init up to the OIDs, and an unload, keeps the       *)
(* invariant.                                                              *)
LEMMA LoadKeepsTables ==
  ASSUME TableInv, NEW i \in Instances, LoadOrUnload(i)
  PROVE  TableInv'
<1>a. LoadTypeOK
  BY DEF TableInv, TypeOK, LoadTypeOK
<1>b. core \in 3..5 /\ filter \in BOOLEAN /\ messageApi \in BOOLEAN /\ Housed
  BY DEF TableInv, TypeOK, Housed
<1>c. NativeInv
  BY DEF TableInv
<1>1. ASSUME NEW noObj, NEW noSig, Load(i, noObj, noSig)
      PROVE  TableInv'
  <2>1. LoadTypeOK' /\ Off \subseteq Off' /\ nids \subseteq nids'
    BY <1>1, <1>a, ListGrows
  <2>2. nids' \subseteq Algs
    BY <1>1, <1>b, SeenAreAlgs, ProviderAssumption DEF Load, Prepare, Register, Housed
  <2>3. Quiet /\ UNCHANGED <<core, rt, heap, call, spoiled, loaded, children>>
    BY <1>1 DEF Load, CanLoad
  <2>4. starting' \in Attempt
    BY <1>1 DEF Load, Attempt, Stages
  <2>5. Housed'
    BY <1>b, <2>2, <2>3, <2>4 DEF Housed
  <2>6. filter' = (filter \/ core >= 5) /\ messageApi' = (messageApi \/ core >= 4)
    BY <1>1 DEF Load, Prepare
  <2>7. core >= 5 => Native \subseteq Off'
    <3>1. disabled' = Off \cup noObj \cup noSig \cup DoneByCore
      BY <1>1 DEF Load, Prepare
    <3>2. Off \cup noObj \cup noSig \cup DoneByCore \subseteq Algs
      BY <1>1, <1>a, OffIsSet, SeenAreAlgs, ProviderAssumption
         DEF Load, Prepare, Register, DoneByCore
    <3>3. Off' = Off \cup noObj \cup noSig \cup DoneByCore
      BY <3>1, <3>2, OffOfStack
    <3> QED BY <3>3 DEF DoneByCore
  <2>8. NativeInv'
    BY <1>c, <2>3, <2>6, <2>7 DEF NativeInv
  <2>9. filter' \in BOOLEAN /\ messageApi' \in BOOLEAN
    BY <2>6
  <2> QED BY <2>1, <2>3, <2>8, <2>9, <2>5, QuietKeepsAll
<1>2. ASSUME NEW noObj, NEW noSig, NEW n \in 0..Len(OidList), LoadFailsAtOid(i, n, noObj, noSig)
      PROVE  TableInv'
  <2>1. LoadTypeOK' /\ Off \subseteq Off' /\ nids \subseteq nids'
    BY <1>2, <1>a, ListGrows
  <2>2. nids' \subseteq Algs
    BY <1>2, <1>b, SeenAreAlgs DEF LoadFailsAtOid, Register, Housed
  <2>3. Quiet /\ UNCHANGED <<core, loaded, starting, children, filter, messageApi, rt, heap, call, spoiled>>
    BY <1>2 DEF LoadFailsAtOid, CanLoad
  <2>4. NativeInv' /\ Housed'
    BY <1>b, <1>c, <2>1, <2>2, <2>3 DEF NativeInv, Housed
  <2> QED BY <1>b, <2>1, <2>3, <2>4, QuietKeepsAll
<1>3. CASE LoadFailsEarly(i)
  <2>1. LoadTypeOK' /\ Off \subseteq Off' /\ nids \subseteq nids'
    BY <1>3, <1>a, ListGrows
  <2>2. /\ Quiet
        /\ UNCHANGED <<core, loaded, starting, children, filter, nids, messageApi, rt, heap, call, spoiled>>
    BY <1>3 DEF LoadFailsEarly, CanLoad
  <2>3. NativeInv' /\ Housed'
    BY <1>b, <1>c, <2>1, <2>2 DEF NativeInv, Housed
  <2> QED BY <1>b, <2>1, <2>2, <2>3, QuietKeepsAll
<1>4. CASE Unload(i)
  <2>1. /\ Quiet /\ Teardown /\ starting' = Null /\ loaded' \subseteq Instances
        /\ UNCHANGED <<core, filter, nids, messageApi, call>>
    BY <1>4, <1>b DEF Unload, Housed
  <2>2. children' \in [Instances -> Int]
    BY <1>4, <1>b DEF Unload, ChildFreed, Housed
  <2> QED BY <1>b, <2>1, <2>2, TeardownKeepsAll DEF Housed
<1> QED BY <1>1, <1>2, <1>3, <1>4 DEF LoadOrUnload

(* The rest of an init, and its clean-up, keep the invariant.              *)
LEMMA InitKeepsTables ==
  ASSUME TableInv, InInit
  PROVE  TableInv'
<1>1. core \in 3..5 /\ filter \in BOOLEAN /\ messageApi \in BOOLEAN /\ Housed /\ LoadTypeOK /\ NativeInv
  BY DEF TableInv, TypeOK, Housed, LoadTypeOK
<1>2. Quiet /\ starting # Null
  BY DEF InInit, Create, CreateFails, Making, Loaded, CleanUp
<1>3. PICK c \in Attempt : c = starting
  BY <1>1, <1>2 DEF Housed
<1>4. c.inst \in Instances /\ c.last \in Stages
  BY DEF Attempt
<1>5. ASSUME Housed', starting' = Null \/ starting' \in Attempt,
             UNCHANGED <<core, filter, disabled, nids, messageApi, rt, heap, call, spoiled>>
      PROVE  TableInv'
  <2>1. Off' = Off /\ LoadTypeOK'
    BY <1>1, <1>5 DEF Off, LoadTypeOK
  <2>2. NativeInv'
    BY <1>1, <1>2, <1>5, <2>1 DEF NativeInv
  <2> QED BY <1>1, <1>2, <1>5, <2>1, <2>2, QuietKeepsAll
<1>6. CASE Create
  <2>1. /\ starting' = [c EXCEPT !.last = After[c.last]] /\ c.last # "provctx"
        /\ children' = IF c.last = "bio" THEN [children EXCEPT ![c.inst] = @ + 1] ELSE children
        /\ UNCHANGED <<loaded, Process>>
    BY <1>3, <1>6 DEF Create, Making
  <2>2. PICK n : n = After[c.last]
    OBVIOUS
  <2>3. n \in Stages
    BY <1>4, <2>1, <2>2 DEF After, Stages
  <2>4. starting' \in Attempt
    BY <2>1, <2>2, <2>3 DEF Attempt
  <2>5. children' \in [Instances -> Int]
    <3>1. children \in [Instances -> Int]
      BY <1>1 DEF Housed
    <3>2. [children EXCEPT ![c.inst] = @ + 1] \in [Instances -> Int]
      BY <1>4, <3>1
    <3> QED BY <2>1, <3>1, <3>2
  <2> QED BY <1>1, <1>5, <2>1, <2>4, <2>5 DEF Housed, Process
<1>7. CASE CreateFails
  <2>1. starting' = [c EXCEPT !.failed = TRUE] /\ UNCHANGED <<loaded, children, Process>>
    BY <1>3, <1>7 DEF CreateFails
  <2>2. starting' \in Attempt
    BY <2>1 DEF Attempt
  <2> QED BY <1>1, <1>5, <2>1, <2>2 DEF Housed, Process
<1>8. CASE Loaded
  <2>1. loaded' = loaded \cup {c.inst} /\ starting' = Null /\ UNCHANGED <<children, Process>>
    BY <1>3, <1>8 DEF Loaded
  <2> QED BY <1>1, <1>4, <1>5, <2>1 DEF Housed, Process
<1>9. CASE CleanUp
  <2>1. starting' = Null /\ loaded' = loaded /\ UNCHANGED <<core, filter, nids, messageApi, call>>
    BY <1>9 DEF CleanUp
  <2>2. /\ \/ UNCHANGED <<heap, rt, disabled, spoiled>> \/ Teardown
        /\ \/ children' = children
           \/ children' = [children EXCEPT ![c.inst] = @ - 1]
           \/ children' = [children EXCEPT ![c.inst] = @ - 2]
    BY <1>3, <1>4, <1>9 DEF CleanUp, ChildFreed, Stages
  <2>3. children' \in [Instances -> Int]
    BY <1>1, <2>2 DEF Housed
  <2>4. Housed'
    BY <1>1, <2>1, <2>3 DEF Housed
  <2>5. CASE Teardown
    BY <1>2, <2>1, <2>4, <2>5, TeardownKeepsAll
  <2>6. CASE UNCHANGED <<heap, rt, disabled, spoiled>>
    BY <1>5, <2>1, <2>4, <2>6
  <2> QED BY <2>2, <2>5, <2>6
<1> QED BY <1>6, <1>7, <1>8, <1>9 DEF InInit

-----------------------------------------------------------------------------
(* Steps of a query.  A step that makes no table and writes to none: it    *)
(* may give up a table that is already made to the end.                    *)
LEMMA StutterKeepsTables ==
  ASSUME Tables, UNCHANGED <<Shared, rt, heap>>,
         \A op \in Ops : rt[op] # Null =>
           /\ Busy(op)' => Busy(op)
           /\ \A j \in 1..Size(op), u \in Filling(op) :
                call[u].k <= j => u \in Filling(op)' /\ call'[u].k = call[u].k
  PROVE  Tables'
<1>1. Off' = Off /\ spoiled' = spoiled
  BY DEF Off, Shared
<1>2. ASSUME NEW op \in Ops, rt[op] # Null PROVE \E D \in SUBSET Off' : Made(op, D)'
  <2>1. PICK D \in SUBSET Off : Made(op, D)
    BY <1>2 DEF Tables
  <2>2. ASSUME NEW j \in 1..Size(op), Static(op)[j] \notin D
        PROVE  \/ heap[rt[op]][Rank(op, D, j)] = Static(op)[j]
               \/ \E u \in Filling(op)' : call'[u].k <= j
    BY <1>2, <2>1, <2>2 DEF Made, Grows
  <2>3. Grows(op, D)'
    BY <2>1, <2>2 DEF Made, Grows, Rank, Size, Static
  <2>4. D \subseteq Off' /\ (~spoiled' => Native \subseteq D) /\ (Busy(op)' => D = Off')
    BY <1>1, <1>2, <2>1 DEF Made
  <2>5. Made(op, D)'
    BY <2>3, <2>4 DEF Made
  <2> QED BY <2>4, <2>5
<1> QED BY <1>2 DEF Tables

(* A thread makes the table of an operation: new memory, not yet filled.   *)
LEMMA AllocKeepsTables ==
  ASSUME TableInv, NEW t \in Threads, AllocTable(t)
  PROVE  /\ Apart' /\ Tables' /\ rt' \in [Ops -> Blocks \cup {Null}]
         /\ heap' \in [Blocks -> Seq(Algs \cup {Junk, End})]
         /\ \A op \in Ops : rt[op] # Null => rt'[op] # Null
         /\ rt'[call[t].op] # Null
<1>1. PICK c : c = call[t]
  OBVIOUS
<1>2. c \in [at : {"test", "alloc"}, op : Ops, size : Nat] /\ c.at = "alloc"
  BY <1>1, FrameShape DEF AllocTable, TableInv, TypeOK
<1>3. PICK op : op = c.op
  OBVIOUS
<1>4. PICK b \in Blocks \ Used : /\ rt' = [rt EXCEPT ![op] = b]
                                /\ heap' = [heap EXCEPT ![b] = [k \in 1..c.size |-> Junk]]
  BY <1>1, <1>3 DEF AllocTable
<1>5. PICK s : s = [k \in 1..c.size |-> Junk]
  OBVIOUS
<1>6. s \in Seq(Algs \cup {Junk, End}) /\ Len(s) = c.size
  BY <1>2, <1>5
<1>7. op \in Ops /\ b \in Blocks /\ b # Null /\ \A o \in Ops : rt[o] # b
  <2>1. rt \in [Ops -> Blocks \cup {Null}]
    BY DEF TableInv, TypeOK
  <2>2. b \notin Elems(rt)
    BY <1>4 DEF Used
  <2> QED BY <1>2, <1>3, <1>4, <2>1, <2>2, ProviderAssumption DEF Elems
<1>8. /\ rt \in [Ops -> Blocks \cup {Null}] /\ heap \in [Blocks -> Seq(Algs \cup {Junk, End})]
      /\ call \in [Threads -> Frame]
  BY DEF TableInv, TypeOK
<1>9. /\ rt'[op] = b /\ \A o \in Ops \ {op} : rt'[o] = rt[o]
      /\ heap'[b] = s /\ \A x \in Blocks \ {b} : heap'[x] = heap[x]
      /\ rt' \in [Ops -> Blocks \cup {Null}] /\ heap' \in [Blocks -> Seq(Algs \cup {Junk, End})]
  BY <1>4, <1>5, <1>6, <1>7, <1>8
<1>10. Apart'
  BY <1>7, <1>9 DEF TableInv, Apart
<1>11. PICK d : d = [at |-> "fill", op |-> op, k |-> 1, n |-> 0]
  OBVIOUS
<1>12. d.at = "fill" /\ d.op = op /\ d.k = 1
  BY <1>11
<1>13. call'[t] = d /\ \A u \in Threads \ {t} : call'[u] = call[u]
  BY <1>1, <1>3, <1>8, <1>11 DEF AllocTable, Goes
<1>14. Off' = Off /\ spoiled' = spoiled
  BY DEF AllocTable, Shared, Off
<1>15. ASSUME NEW o \in Ops, o # op, rt[o] # Null PROVE \E D \in SUBSET Off' : Made(o, D)'
  <2>1. PICK D \in SUBSET Off : Made(o, D)
    BY <1>15 DEF TableInv, Tables
  <2>2. rt'[o] = rt[o] /\ heap'[rt[o]] = heap[rt[o]]
    BY <1>7, <1>8, <1>9, <1>15
  <2>3. Filling(o)' = Filling(o) /\ \A u \in Filling(o) : call'[u] = call[u]
    BY <1>1, <1>2, <1>12, <1>13, <1>15 DEF Filling
  <2>4. Busy(o)' => Busy(o)
    BY <1>12, <1>13, <1>15 DEF Busy
  <2>5. Grows(o, D)'
    BY <2>1, <2>2, <2>3 DEF Made, Grows, Rank, Size, Static
  <2>6. Made(o, D)'
    BY <1>14, <2>1, <2>4, <2>5 DEF Made
  <2> QED BY <1>14, <2>6
<1>16. Made(op, Off)'
  <2>1. c.size = Rank(op, Off, Size(op)) /\ filter /\ loaded # {}
    <3>1. Idle.at = "idle"
      BY DEF Idle
    <3> QED BY <1>1, <1>2, <1>3, <3>1 DEF TableInv, QueryInv, Knows
  <2>2. ~spoiled => Native \subseteq Off
    BY <2>1 DEF TableInv, NativeInv
  <2>3. t \in Filling(op)' /\ call'[t].k = 1
    BY <1>12, <1>13 DEF Filling
  <2>4. \A j \in 1..Size(op) : call'[t].k <= j
    <3>1. Size(op) \in Nat
      BY <1>7, StaticShape
    <3> QED BY <2>3, <3>1
  <2>5. Grows(op, Off)'
    BY <1>6, <1>9, <1>14, <2>1, <2>3, <2>4 DEF Grows, Rank, Size, Static
  <2> QED BY <1>14, <2>2, <2>5 DEF Made
<1>17. Tables'
  BY <1>9, <1>15, <1>16 DEF Tables
<1> QED BY <1>1, <1>3, <1>7, <1>9, <1>10, <1>17

(* A thread that fills writes the right entry to its right place, in       *)
(* whosever block the pointer now leads to.                                *)
LEMMA FillKeepsTables ==
  ASSUME TableInv, NEW t \in Threads, FillEntry(t)
  PROVE  Tables' /\ heap' \in [Blocks -> Seq(Algs \cup {Junk, End})]
         /\ call'[t] \in Frame /\ Knows(call[t])'
<1>1. PICK c : c = call[t]
  OBVIOUS
<1>2. c \in [at : {"fill"}, op : Ops, k : Nat, n : Nat] /\ c.at = "fill" /\ c # Idle
  <2>1. c \in Frame /\ c.at = "fill"
    BY <1>1 DEF FillEntry, TableInv, TypeOK
  <2>2. Idle.at = "idle"
    BY DEF Idle
  <2> QED BY <2>1, <2>2, FrameShape
<1>3. PICK op, k, n : op = c.op /\ k = c.k /\ n = c.n
  OBVIOUS
<1>4. PICK a : a = Static(op)[k]
  OBVIOUS
<1>5. PICK b : b = rt[op]
  OBVIOUS
<1>6. /\ rt \in [Ops -> Blocks \cup {Null}] /\ heap \in [Blocks -> Seq(Algs \cup {Junk, End})]
      /\ call \in [Threads -> Frame]
  BY DEF TableInv, TypeOK
<1>7. /\ op \in Ops /\ k \in Nat /\ n \in Nat /\ loaded # {} /\ filter
      /\ b # Null /\ b \in Blocks /\ k \in 1..Size(op) + 1 /\ n = Rank(op, Off, k - 1)
  BY <1>1, <1>2, <1>3, <1>5, <1>6 DEF TableInv, QueryInv, Knows
<1>8. Size(op) \in Nat /\ k \in 1..Size(op) /\ a \in Algs \cup {End}
  <2>1. Size(op) \in Nat /\ Static(op) \in Seq(Algs \cup {End}) /\ DOMAIN Static(op) = 1..Size(op)
    BY <1>7, StaticShape
  <2>2. k <= Size(op)
    BY <1>1, <1>3 DEF FillEntry, Size
  <2>3. k \in 1..Size(op)
    BY <1>7, <2>1, <2>2
  <2> QED BY <1>4, <2>1, <2>3
<1>9. Rank(op, Off, k) = IF a \in Off THEN n ELSE n + 1
  <2>1. k - 1 \in Nat /\ (k - 1) + 1 = k
    BY <1>8
  <2>2. Rank(op, Off, (k - 1) + 1) = IF Static(op)[(k - 1) + 1] \in Off THEN Rank(op, Off, k - 1)
                                     ELSE Rank(op, Off, k - 1) + 1
    BY <2>1, RankStep
  <2> QED BY <1>4, <1>7, <2>1, <2>2
<1>10. PICK d : d = [c EXCEPT !.k = k + 1, !.n = Rank(op, Off, k)]
  OBVIOUS
<1>11. call' = [call EXCEPT ![t] = d]
  <2>1. call' = [call EXCEPT ![t] = [c EXCEPT !.k = k + 1, !.n = IF a \in Off THEN n ELSE n + 1]]
    BY <1>1, <1>3, <1>4 DEF FillEntry, Goes
  <2> QED BY <1>9, <1>10, <2>1
<1>12. call'[t] = d /\ \A u \in Threads \ {t} : call'[u] = call[u]
  BY <1>6, <1>11
<1>13. Rank(op, Off, k) \in Nat
  BY <1>7, RankStep
<1>14. /\ d \in [at : {"fill"}, op : Ops, k : Nat, n : Nat] /\ d.at = "fill" /\ d.op = op
       /\ d.k = k + 1 /\ d.n = Rank(op, Off, k)
  <2>2. k + 1 \in Nat
    BY <1>7
  <2>3. PICK x, y : x = k + 1 /\ y = Rank(op, Off, k)
    OBVIOUS
  <2>4. x \in Nat /\ y \in Nat /\ d = [c EXCEPT !.k = x, !.n = y]
    BY <1>10, <1>13, <2>2, <2>3
  <2>5. /\ d \in [at : {"fill"}, op : Ops, k : Nat, n : Nat] /\ d.at = "fill" /\ d.op = c.op
        /\ d.k = x /\ d.n = y
    BY <1>2, <2>4
  <2> QED BY <1>3, <2>3, <2>5
<1>15. d \in Frame
  BY <1>14 DEF Frame
<1>16. Off' = Off /\ spoiled' = spoiled /\ rt' = rt /\ filter' = filter /\ loaded' = loaded
  BY DEF FillEntry, Shared, Off
<1>17. Knows(call[t])'
  <2>1. d.k \in 1..Size(op) + 1 /\ d.k - 1 = k
    BY <1>8, <1>14
  <2> QED BY <1>5, <1>7, <1>12, <1>14, <1>16, <2>1 DEF Knows, Rank, Size, Static
(* The size of the block, and the place in it.                             *)
<1>18. Made(op, Off)
  <2>1. Busy(op)
    BY <1>1, <1>2, <1>3 DEF Busy
  <2> QED BY <1>5, <1>7, <2>1 DEF TableInv, Tables, Made
<1>19. PICK m : m = Rank(op, Off, k)
  OBVIOUS
<1>20. PICK s : s = heap[b]
  OBVIOUS
<1>21. s \in Seq(Algs \cup {Junk, End}) /\ Len(s) = Rank(op, Off, Size(op)) /\ DOMAIN s = 1..Len(s)
       /\ Len(s) \in Nat
  BY <1>5, <1>6, <1>7, <1>18, <1>20 DEF Made, Grows
<1>22. a \notin Off => m \in 1..Len(s)
  <2>1. m <= Len(s)
    BY <1>7, <1>8, <1>13, <1>19, <1>21, RankGrows
  <2>2. a \notin Off => m >= 1
    BY <1>7, <1>9, <1>19
  <2> QED BY <1>13, <1>19, <1>21, <2>1, <2>2
<1>23. PICK z : z = IF a \in Off THEN s ELSE [s EXCEPT ![m] = a]
  OBVIOUS
<1>24. heap' = [heap EXCEPT ![b] = z]
  <2>1. heap' = IF a \in Off THEN heap ELSE [heap EXCEPT ![b][n + 1] = a]
    BY <1>1, <1>3, <1>4, <1>5 DEF FillEntry
  <2>2. CASE a \in Off
    BY <1>6, <1>7, <1>20, <1>23, <2>1, <2>2
  <2>3. CASE a \notin Off
    BY <1>9, <1>19, <1>20, <1>23, <2>1, <2>3
  <2> QED BY <2>2, <2>3
<1>25. z \in Seq(Algs \cup {Junk, End}) /\ Len(z) = Len(s)
       /\ (a \notin Off => z[m] = a) /\ \A j \in 1..Len(s) : (a \notin Off => j # m) => z[j] = s[j]
  <2>1. CASE a \in Off
    BY <1>21, <1>23, <2>1
  <2>2. CASE a \notin Off
    <3>1. z = [s EXCEPT ![m] = a] /\ a \in Algs \cup {Junk, End}
      BY <1>8, <1>23, <2>2
    <3>2. z \in Seq(Algs \cup {Junk, End}) /\ Len(z) = Len(s)
      BY <1>21, <1>22, <2>2, <3>1, ExceptSeq
    <3> QED BY <1>21, <1>22, <2>2, <3>1, <3>2
  <2> QED BY <2>1, <2>2
<1>26. heap'[b] = z /\ (\A x \in Blocks \ {b} : heap'[x] = heap[x])
       /\ heap' \in [Blocks -> Seq(Algs \cup {Junk, End})]
  BY <1>6, <1>7, <1>24, <1>25
<1>27. ASSUME NEW j \in 1..Size(op), Static(op)[j] \notin Off
       PROVE  \/ z[Rank(op, Off, j)] = Static(op)[j]
              \/ \E u \in Filling(op)' : call'[u].k <= j
  <2>1. j \in Nat /\ k \in Nat /\ Rank(op, Off, j) \in Nat
    BY <1>7, <1>8, RankStep
  <2>2. CASE j = k
    BY <1>4, <1>19, <1>25, <1>27, <2>2
  <2>3. CASE j # k
    <3>1. Rank(op, Off, j) \in 1..Len(s)
      <4>1. Rank(op, Off, 0) < Rank(op, Off, j)
        BY <1>27, <2>1, RankGrows
      <4>2. Rank(op, Off, j) <= Len(s)
        BY <1>8, <1>21, <1>27, <2>1, RankGrows
      <4> QED BY <1>21, <2>1, <4>1, <4>2, RankZero
    <3>2. a \notin Off => Rank(op, Off, j) # m
      <4>1. CASE j < k
        BY <1>4, <1>13, <1>19, <2>1, <4>1, RankGrows
      <4>2. CASE k < j
        BY <1>13, <1>19, <1>27, <2>1, <4>2, RankGrows
      <4> QED BY <2>1, <2>3, <4>1, <4>2
    <3>3. z[Rank(op, Off, j)] = s[Rank(op, Off, j)]
      BY <1>25, <3>1, <3>2
    <3>4. CASE s[Rank(op, Off, j)] = Static(op)[j]
      BY <3>3, <3>4
    <3>5. ASSUME NEW u \in Filling(op), call[u].k <= j PROVE \E v \in Filling(op)' : call'[v].k <= j
      <4>1. CASE u = t
        <5>1. t \in Filling(op)' /\ call'[t].k = k + 1
          BY <1>12, <1>14 DEF Filling
        <5>2. k + 1 <= j
          BY <1>1, <1>3, <2>1, <2>3, <3>5, <4>1
        <5> QED BY <5>1, <5>2
      <4>2. CASE u # t
        BY <1>12, <3>5, <4>2 DEF Filling
      <4> QED BY <4>1, <4>2
    <3> QED BY <1>5, <1>18, <1>20, <1>27, <3>4, <3>5 DEF Made, Grows
  <2> QED BY <2>2, <2>3
<1>28. Made(op, Off)'
  <2>1. Grows(op, Off)'
    BY <1>5, <1>16, <1>21, <1>25, <1>26, <1>27 DEF Grows, Rank, Size, Static
  <2> QED BY <1>16, <1>18, <2>1 DEF Made
<1>29. ASSUME NEW o \in Ops, o # op, rt[o] # Null PROVE \E D \in SUBSET Off' : Made(o, D)'
  <2>1. PICK D \in SUBSET Off : Made(o, D)
    BY <1>29 DEF TableInv, Tables
  <2>2. rt'[o] = rt[o] /\ heap'[rt[o]] = heap[rt[o]]
    <3>1. rt[o] \in Blocks \ {b}
      BY <1>5, <1>6, <1>7, <1>29 DEF TableInv, Apart
    <3> QED BY <1>16, <1>26, <3>1
  <2>3. Filling(o)' = Filling(o) /\ \A u \in Filling(o) : call'[u] = call[u]
    BY <1>1, <1>3, <1>12, <1>14, <1>29 DEF Filling
  <2>4. Busy(o)' => Busy(o)
    BY <1>12, <1>14, <1>29 DEF Busy
  <2>5. Grows(o, D)'
    BY <2>1, <2>2, <2>3 DEF Made, Grows, Rank, Size, Static
  <2>6. Made(o, D)'
    BY <1>16, <2>1, <2>4, <2>5 DEF Made
  <2> QED BY <1>16, <2>6
<1>30. Tables'
  BY <1>16, <1>28, <1>29 DEF Tables
<1> QED BY <1>12, <1>15, <1>17, <1>26, <1>30

(* Every step of a query.                                                  *)
LEMMA QueryKeepsTables ==
  ASSUME TableInv, NEW t \in Threads, InQuery(t)
  PROVE  TableInv'
<1>a. UNCHANGED Shared
  BY QueryStutters
<1>b. Off' = Off
      /\ UNCHANGED <<core, loaded, starting, children, filter, disabled, nids, messageApi, spoiled>>
  BY <1>a DEF Shared, Off
<1>c. /\ rt \in [Ops -> Blocks \cup {Null}] /\ heap \in [Blocks -> Seq(Algs \cup {Junk, End})]
      /\ call \in [Threads -> Frame]
  BY DEF TableInv, TypeOK
<1>d. Idle.at = "idle"
  BY DEF Idle
<1>e. call[t] \in Frame
  BY <1>c
(* What the other threads know stays true.                                 *)
<1>f. ASSUME NEW c, call' = [call EXCEPT ![t] = c], c \in Frame, Knows(call[t])',
             rt' \in [Ops -> Blocks \cup {Null}], heap' \in [Blocks -> Seq(Algs \cup {Junk, End})],
             \A op \in Ops : rt[op] # Null => rt'[op] # Null,
             c.at = "walk" /\ filter => c.ptr # Null, Apart', Tables'
      PROVE  TableInv'
  <2>1. call'[t] = c /\ (\A u \in Threads \ {t} : call'[u] = call[u]) /\ call' \in [Threads -> Frame]
    BY <1>c, <1>f
  <2>2. ASSUME NEW u \in Threads, u # t PROVE Knows(call[u])'
    <3>1. PICK d : d = call[u]
      OBVIOUS
    <3>2. d \in Frame /\ Knows(d) /\ call'[u] = d
      BY <1>c, <2>1, <2>2, <3>1 DEF TableInv, QueryInv
    <3>3. d.at \in {"fill", "return"} => d.op \in Ops
      BY <3>2, FrameShape
    <3>4. /\ d # Idle => loaded' # {}
          /\ d.at \in {"test", "alloc", "fill"} => filter'
      BY <1>b, <3>2 DEF Knows
    <3>5. d.at \in {"fill", "return"} => rt'[d.op] # Null
      BY <1>f, <3>2, <3>3 DEF Knows
    <3>6. d.at \in {"test", "alloc"} => d.size = Rank(d.op, Off, Size(d.op))
      BY <3>2 DEF Knows
    <3>7. d.at = "fill" => d.k \in 1..Size(d.op) + 1 /\ d.n = Rank(d.op, Off, d.k - 1)
      BY <3>2 DEF Knows
    <3>8. d.at \in {"test", "alloc"} => call'[u].size = Rank(call[u].op, Off, Size(call[u].op))'
      BY <1>b, <3>2, <3>6 DEF Rank, Size, Static
    <3>9. d.at = "fill" => /\ call'[u].k \in (1..Size(call[u].op) + 1)'
                           /\ call'[u].n = Rank(call[u].op, Off, call[u].k - 1)'
      BY <1>b, <3>2, <3>7 DEF Rank, Size, Static
    <3> QED BY <3>2, <3>4, <3>5, <3>8, <3>9 DEF Knows
  <2>3. QueryInv'
    BY <1>f, <2>2 DEF QueryInv
  <2>4. \A u \in Threads : call'[u].at = "walk" /\ filter' => call'[u].ptr # Null
    BY <1>b, <1>f, <2>1 DEF TableInv, TypeOK
  <2>5. TypeOK'
    BY <1>b, <1>f, <2>1, <2>4 DEF TableInv, TypeOK
  <2>6. NativeInv'
    BY <1>b DEF TableInv, NativeInv
  <2> QED BY <1>f, <2>3, <2>5, <2>6 DEF TableInv
(* The same for a step that leaves the tables alone.                       *)
<1>g. ASSUME NEW c, call' = [call EXCEPT ![t] = c], c \in Frame, UNCHANGED <<rt, heap>>, Knows(call[t])',
             c.at = "walk" /\ filter => c.ptr # Null,
             c.at # "fill", c.at = "alloc" => rt[c.op] = Null,
             call[t].at = "fill" => call[t].k > Size(call[t].op)
      PROVE  TableInv'
  <2>1. call'[t] = c /\ (\A u \in Threads \ {t} : call'[u] = call[u])
    BY <1>c, <1>g
  <2>2. ASSUME NEW op \in Ops, rt[op] # Null PROVE Busy(op)' => Busy(op)
    BY <1>g, <2>1, <2>2 DEF Busy
  <2>3. ASSUME NEW op \in Ops, NEW j \in 1..Size(op), NEW u \in Filling(op), call[u].k <= j
        PROVE  u \in Filling(op)' /\ call'[u].k = call[u].k
    <3>1. u # t
      <4>1. SUFFICES ASSUME u = t PROVE FALSE
        OBVIOUS
      <4>2. call[t].at = "fill" /\ call[t].op = op
        BY <2>3, <4>1 DEF Filling
      <4>3. call[t].k \in Nat /\ Size(op) \in Nat
        BY <1>e, <4>2, FrameShape, StaticShape
      <4> QED BY <1>g, <2>3, <4>1, <4>2, <4>3
    <3> QED BY <2>1, <2>3, <3>1 DEF Filling
  <2>4. Tables'
    <3>1. Tables
      BY DEF TableInv
    <3> QED BY <1>a, <1>g, <2>2, <2>3, <3>1, StutterKeepsTables
  <2>5. Apart'
    BY <1>g DEF TableInv, Apart
  <2> QED BY <1>c, <1>f, <1>g, <2>4, <2>5
<1>1. ASSUME NEW op \in Ops, Query(t, op) PROVE TableInv'
  <2>1. loaded # {} /\ call[t] = Idle /\ UNCHANGED <<rt, heap>>
    BY <1>1 DEF Query
  <2>2. CASE filter
    <3>1. PICK n : n = Rank(op, Off, Size(op))
      OBVIOUS
    <3>2. Off \subseteq Algs
      BY OffIsSet DEF TableInv, TypeOK, LoadTypeOK
    <3>3. n = Len(Static(op)) - Count(op) /\ n \in Nat
      BY <3>1, <3>2, CountIsRest, RankStep, StaticShape DEF Size
    <3>4. PICK c : c = [at |-> "test", op |-> op, size |-> n]
      OBVIOUS
    <3>5. call' = [call EXCEPT ![t] = c]
      BY <1>1, <2>2, <3>3, <3>4 DEF Query, Goes
    <3>6. c \in [at : {"test", "alloc"}, op : Ops, size : Nat] /\ c.at = "test" /\ c.op = op /\ c.size = n
      BY <3>3, <3>4
    <3>7. c \in Frame
      BY <3>6 DEF Frame
    <3>8. call'[t] = c
      BY <1>c, <3>5
    <3>9. Knows(call[t])'
      BY <1>b, <2>1, <2>2, <3>1, <3>6, <3>8 DEF Knows, Rank, Size, Static
    <3> QED BY <1>d, <1>g, <2>1, <3>5, <3>6, <3>7, <3>9
  <2>3. CASE ~filter
    <3>1. PICK c : c = [at |-> "walk", op |-> op, ptr |-> Null]
      OBVIOUS
    <3>2. call' = [call EXCEPT ![t] = c]
      BY <1>1, <2>3, <3>1 DEF Query, Goes
    <3>3. c \in Frame /\ c.at = "walk"
      BY <3>1 DEF Frame
    <3>4. call'[t] = c
      BY <1>c, <3>2
    <3>5. Knows(call[t])'
      BY <1>b, <2>1, <3>3, <3>4 DEF Knows
    <3> QED BY <1>d, <1>g, <2>1, <2>3, <3>2, <3>3, <3>5
  <2> QED BY <2>2, <2>3
<1>2. CASE TestTable(t)
  <2>1. PICK d : d = call[t]
    OBVIOUS
  <2>2. d.at = "test" /\ UNCHANGED <<rt, heap>>
    BY <1>2, <2>1 DEF TestTable
  <2>3. d \in [at : {"test", "alloc"}, op : Ops, size : Nat] /\ Knows(d) /\ d # Idle
    BY <1>d, <1>e, <2>1, <2>2, FrameShape DEF TableInv, QueryInv
  <2>4. CASE rt[d.op] = Null
    <3>1. PICK c : c = [d EXCEPT !.at = "alloc"]
      OBVIOUS
    <3>2. call' = [call EXCEPT ![t] = c]
      BY <1>2, <2>1, <2>4, <3>1 DEF TestTable, Goes
    <3>3. c \in [at : {"test", "alloc"}, op : Ops, size : Nat] /\ c.at = "alloc" /\ c.op = d.op /\ c.size = d.size
      BY <2>3, <3>1
    <3>4. c \in Frame /\ call'[t] = c
      BY <1>c, <3>2, <3>3 DEF Frame
    <3>5. Knows(call[t])'
      BY <1>b, <2>2, <2>3, <3>3, <3>4 DEF Knows, Rank, Size, Static
    <3> QED BY <1>g, <2>1, <2>2, <2>4, <3>2, <3>3, <3>4, <3>5
  <2>5. CASE rt[d.op] # Null
    <3>1. PICK c : c = [at |-> "return", op |-> d.op]
      OBVIOUS
    <3>2. call' = [call EXCEPT ![t] = c]
      BY <1>2, <2>1, <2>5, <3>1 DEF TestTable, Goes
    <3>3. c \in [at : {"return"}, op : Ops] /\ c.at = "return" /\ c.op = d.op
      BY <2>3, <3>1
    <3>4. c \in Frame /\ call'[t] = c
      BY <1>c, <3>2, <3>3 DEF Frame
    <3>5. Knows(call[t])'
      BY <1>b, <2>2, <2>3, <2>5, <3>3, <3>4 DEF Knows
    <3> QED BY <1>g, <2>1, <2>2, <3>2, <3>3, <3>4, <3>5
  <2> QED BY <2>4, <2>5
<1>3. CASE AllocTable(t)
  <2>1. PICK d : d = call[t]
    OBVIOUS
  <2>2. d.at = "alloc"
    BY <1>3, <2>1 DEF AllocTable
  <2>3. d \in [at : {"test", "alloc"}, op : Ops, size : Nat] /\ Knows(d) /\ d # Idle
    BY <1>d, <1>e, <2>1, <2>2, FrameShape DEF TableInv, QueryInv
  <2>4. PICK c : c = [at |-> "fill", op |-> d.op, k |-> 1, n |-> 0]
    OBVIOUS
  <2>5. call' = [call EXCEPT ![t] = c]
    BY <1>3, <2>1, <2>4 DEF AllocTable, Goes
  <2>6. /\ c \in [at : {"fill"}, op : Ops, k : Nat, n : Nat] /\ c.at = "fill" /\ c.op = d.op
        /\ c.k = 1 /\ c.n = 0
    BY <2>3, <2>4
  <2>7. c \in Frame /\ call'[t] = c
    BY <1>c, <2>5, <2>6 DEF Frame
  <2>8. /\ Apart' /\ Tables' /\ rt' \in [Ops -> Blocks \cup {Null}]
        /\ heap' \in [Blocks -> Seq(Algs \cup {Junk, End})]
        /\ \A op \in Ops : rt[op] # Null => rt'[op] # Null
        /\ rt'[d.op] # Null
    <3>1. /\ Apart' /\ Tables' /\ rt' \in [Ops -> Blocks \cup {Null}]
          /\ heap' \in [Blocks -> Seq(Algs \cup {Junk, End})]
          /\ \A op \in Ops : rt[op] # Null => rt'[op] # Null
          /\ rt'[call[t].op] # Null
      BY <1>3, AllocKeepsTables
    <3> QED BY <2>1, <3>1
  <2>9. Knows(call[t])'
    <3>1. Size(d.op) \in Nat /\ 1 \in 1..Size(d.op) + 1 /\ Rank(d.op, Off, 1 - 1) = 0
      BY <2>3, StaticShape, RankZero
    <3> QED BY <1>b, <2>3, <2>2, <2>6, <2>7, <2>8, <3>1 DEF Knows, Rank, Size, Static
  <2> QED BY <1>f, <2>5, <2>6, <2>7, <2>8, <2>9
<1>4. CASE FillEntry(t)
  <2>1. PICK c : call' = [call EXCEPT ![t] = c]
    BY <1>4 DEF FillEntry, Goes
  <2>2. call'[t] = c
    BY <1>c, <2>1
  <2>3. /\ Tables' /\ heap' \in [Blocks -> Seq(Algs \cup {Junk, End})]
        /\ c \in Frame /\ Knows(call[t])'
    BY <1>4, <2>2, FillKeepsTables
  <2>4. rt' = rt /\ Apart'
    BY <1>4 DEF FillEntry, TableInv, Apart
  <2>5. c.at = "fill"
    <3>1. call[t].at = "fill"
      BY <1>4 DEF FillEntry
    <3>2. PICK d : d = call[t]
      OBVIOUS
    <3>3. d \in [at : {"fill"}, op : Ops, k : Nat, n : Nat]
      BY <1>e, <3>1, <3>2, FrameShape
    <3>4. PICK x, y : c = [d EXCEPT !.k = x, !.n = y]
      BY <1>4, <1>c, <2>2, <3>2 DEF FillEntry, Goes
    <3> QED BY <3>3, <3>4
  <2> QED BY <1>c, <1>f, <2>1, <2>3, <2>4, <2>5
<1>5. CASE FillDone(t)
  <2>1. PICK d : d = call[t]
    OBVIOUS
  <2>2. d.at = "fill" /\ d.k > Size(d.op) /\ UNCHANGED <<rt, heap>>
    BY <1>5, <2>1 DEF FillDone, Size
  <2>3. d \in [at : {"fill"}, op : Ops, k : Nat, n : Nat] /\ Knows(d) /\ d # Idle
    BY <1>d, <1>e, <2>1, <2>2, FrameShape DEF TableInv, QueryInv
  <2>4. PICK c : c = [at |-> "return", op |-> d.op]
    OBVIOUS
  <2>5. call' = [call EXCEPT ![t] = c]
    BY <1>5, <2>1, <2>4 DEF FillDone, Goes
  <2>6. c \in [at : {"return"}, op : Ops] /\ c.at = "return" /\ c.op = d.op
    BY <2>3, <2>4
  <2>7. c \in Frame /\ call'[t] = c
    BY <1>c, <2>5, <2>6 DEF Frame
  <2>8. Knows(call[t])'
    BY <1>b, <2>2, <2>3, <2>6, <2>7 DEF Knows
  <2> QED BY <1>g, <2>1, <2>2, <2>5, <2>6, <2>7, <2>8
<1>6. CASE ReturnTable(t)
  <2>1. PICK d : d = call[t]
    OBVIOUS
  <2>2. d.at = "return" /\ UNCHANGED <<rt, heap>>
    BY <1>6, <2>1 DEF ReturnTable
  <2>3. d.op \in Ops /\ Knows(d) /\ d # Idle /\ rt[d.op] # Null
    BY <1>d, <1>e, <2>1, <2>2, FrameShape DEF TableInv, QueryInv, Knows
  <2>4. PICK c : c = [at |-> "walk", op |-> d.op, ptr |-> rt[d.op]]
    OBVIOUS
  <2>5. call' = [call EXCEPT ![t] = c]
    BY <1>6, <2>1, <2>4 DEF ReturnTable, Goes
  <2>6. c \in [at : {"walk"}, op : Ops, ptr : Blocks \cup {Null}] /\ c.at = "walk" /\ c.ptr # Null
    BY <1>c, <2>3, <2>4
  <2>7. c \in Frame /\ call'[t] = c
    BY <1>c, <2>5, <2>6 DEF Frame
  <2>8. Knows(call[t])'
    BY <1>b, <2>2, <2>3, <2>6, <2>7 DEF Knows
  <2> QED BY <1>g, <2>1, <2>2, <2>5, <2>6, <2>7, <2>8
<1>7. CASE WalkDone(t)
  <2>1. call[t].at = "walk" /\ UNCHANGED <<rt, heap>> /\ call' = [call EXCEPT ![t] = Idle]
    BY <1>7 DEF WalkDone, Goes
  <2>2. Idle \in Frame /\ call'[t] = Idle
    BY <1>c, <2>1 DEF Frame
  <2>3. Knows(call[t])'
    BY <1>d, <2>2 DEF Knows
  <2> QED BY <1>d, <1>g, <2>1, <2>2, <2>3
<1> QED BY <1>1, <1>2, <1>3, <1>4, <1>5, <1>6, <1>7 DEF InQuery

(* The place of an entry that D leaves is inside the table.                *)
LEMMA PlaceInTable ==
  ASSUME NEW op \in Ops, NEW D, NEW j \in 1..Size(op), Static(op)[j] \notin D
  PROVE  /\ Rank(op, D, j - 1) \in Nat /\ Rank(op, D, j - 1) < Rank(op, D, j)
         /\ Rank(op, D, j) \in 1..Rank(op, D, Size(op))
<1>1. Size(op) \in Nat /\ j \in Nat /\ j - 1 \in Nat /\ j <= Size(op) /\ j - 1 < j
  BY StaticShape
<1>2. Rank(op, D, j - 1) \in Nat /\ Rank(op, D, j) \in Nat /\ Rank(op, D, Size(op)) \in Nat
  BY <1>1, RankStep
<1>3. Rank(op, D, j - 1) < Rank(op, D, j)
  BY <1>1, RankGrows
<1>4. Rank(op, D, j) <= Rank(op, D, Size(op))
  <2>1. CASE j = Size(op)
    BY <1>2, <2>1
  <2>2. CASE j # Size(op)
    BY <1>1, <2>2, RankGrows
  <2> QED BY <2>1, <2>2
<1> QED BY <1>2, <1>3, <1>4

(* There is no table at first.                                             *)
LEMMA TablesStart == Init => TableInv
<1> SUFFICES ASSUME Init PROVE TableInv
  OBVIOUS
<1>1. \A t \in Threads : call[t] = Idle /\ call[t].at = "idle"
  BY DEF Init, Idle
<1>2. QueryInv
  BY <1>1 DEF QueryInv, Knows
<1>3. NativeInv /\ Apart /\ Tables
  BY DEF Init, NativeInv, Apart, Tables
<1>4. <<>> \in Seq(Algs \cup {Junk, End})
  BY EmptySeq
<1>5. /\ rt \in [Ops -> Blocks \cup {Null}] /\ heap \in [Blocks -> Seq(Algs \cup {Junk, End})]
      /\ call \in [Threads -> Frame]
  BY <1>4 DEF Init, Frame
<1>6. children \in [Instances -> Int]
  BY DEF Init
<1>7. TypeOK
  BY <1>1, <1>5, <1>6 DEF Init, TypeOK
<1> QED BY <1>2, <1>3, <1>7 DEF TableInv

(* A step that changes nothing keeps the invariant.                        *)
LEMMA StillKeepsTables == TableInv /\ UNCHANGED vars => TableInv'
<1> SUFFICES ASSUME TableInv, UNCHANGED vars PROVE TableInv'
  OBVIOUS
<1>1. UNCHANGED <<Shared, rt, heap>> /\ call' = call
  BY DEF vars, Shared
<1>2. Off' = Off
      /\ UNCHANGED <<core, loaded, starting, children, filter, disabled, nids, messageApi, spoiled>>
  BY DEF vars, Off
<1>3. \A op \in Ops : Busy(op)' = Busy(op) /\ Filling(op)' = Filling(op)
  BY <1>1 DEF Busy, Filling
<1>4. Tables'
  <2>1. Tables
    BY DEF TableInv
  <2> QED BY <1>1, <1>3, <2>1, StutterKeepsTables
<1>5. TypeOK'
  BY <1>1, <1>2 DEF TableInv, TypeOK
<1>6. NativeInv' /\ Apart'
  BY <1>1, <1>2 DEF TableInv, NativeInv, Apart
<1>7. QueryInv'
  BY <1>1, <1>2 DEF TableInv, QueryInv, Knows, Rank, Size, Static
<1> QED BY <1>4, <1>5, <1>6, <1>7 DEF TableInv

(* The inductive invariant of the filtered tables: every step of an        *)
(* instance and of a query keeps it.                                       *)
THEOREM TablesInductive == Spec => []TableInv
<1>1. TableInv /\ [Next]_vars => TableInv'
  <2> SUFFICES ASSUME TableInv, [Next]_vars PROVE TableInv'
    OBVIOUS
  <2>1. CASE \E i \in Instances : LoadOrUnload(i)
    BY <2>1, LoadKeepsTables
  <2>2. CASE \E t \in Threads : InQuery(t)
    BY <2>2, QueryKeepsTables
  <2>3. CASE UNCHANGED vars
    BY <2>3, StillKeepsTables
  <2> QED BY <2>1, <2>2, <2>3, InitKeepsTables DEF Next
<1> QED BY <1>1, TablesStart, PTL DEF Spec

(***************************************************************************)
(* The shared state has its type, and a query never returns without a      *)
(* table while the filter is on (oqsprov.c:1137-1178).                     *)
(***************************************************************************)
THEOREM TypeCorrect == Spec => []TypeOK
<1>1. TableInv => TypeOK
  BY DEF TableInv
<1> QED BY <1>1, TablesInductive, PTL

(***************************************************************************)
(* Any number of threads may make one table at a time, each in the block   *)
(* the pointer leads to when it reads it: none writes past the end of a    *)
(* block (oqsprov.c:1127-1153, cnt_rt_disabled and FILTERED_ALGS).         *)
(***************************************************************************)
THEOREM FillsStayInBounds == Spec => []FillInBounds
<1>1. TableInv => FillInBounds
  <2> SUFFICES ASSUME TableInv, NEW op \in Ops, NEW t \in Filling(op),
                      call[t].k <= Len(Static(op)), Static(op)[call[t].k] \notin Off
               PROVE  call[t].n < Len(heap[rt[op]])
    BY DEF FillInBounds
  <2>1. t \in Threads /\ call[t].at = "fill" /\ call[t].op = op
    BY DEF Filling
  <2>2. /\ rt[op] # Null /\ call[t].k \in 1..Size(op) + 1
        /\ call[t].n = Rank(op, Off, call[t].k - 1)
    BY <2>1 DEF TableInv, QueryInv, Knows
  <2>3. call[t].k \in 1..Size(op)
    <3>1. Size(op) \in Nat
      BY StaticShape
    <3> QED BY <2>2, <3>1 DEF Size
  <2>4. Len(heap[rt[op]]) = Rank(op, Off, Size(op))
    <3>1. Busy(op)
      BY <2>1 DEF Busy
    <3> QED BY <2>2, <3>1 DEF TableInv, Tables, Made, Grows
  <2>5. PICK j : j = call[t].k
    OBVIOUS
  <2>6. /\ Rank(op, Off, j - 1) \in Nat /\ Rank(op, Off, j - 1) < Rank(op, Off, j)
        /\ Rank(op, Off, j) \in 1..Rank(op, Off, Size(op))
    BY <2>3, <2>5, PlaceInTable
  <2>7. Rank(op, Off, Size(op)) \in Nat
    <3>1. Size(op) \in Nat
      BY StaticShape
    <3> QED BY <3>1, RankStep
  <2> QED BY <2>2, <2>4, <2>5, <2>6, <2>7
<1> QED BY <1>1, TablesInductive, PTL

(***************************************************************************)
(* A filtered table that nobody is filling is the static table, in its     *)
(* order and closed, without names that are disabled, whatever threads     *)
(* raced to make it (oqsprov.c:1137-1153, FILTERED_ALGS).                  *)
(***************************************************************************)
THEOREM SettledTablesAreExact == Spec => []SettledTableExact
<1>1. TableInv => SettledTableExact
  <2> SUFFICES ASSUME TableInv, ~spoiled, NEW op \in Ops, Settled(op)
               PROVE  \E D \in SUBSET Off : Native \subseteq D /\ Kept(heap[rt[op]], op, D)
    BY DEF SettledTableExact
  <2>1. PICK D \in SUBSET Off : Made(op, D)
    BY DEF TableInv, Tables, Settled
  <2>2. Native \subseteq D /\ Grows(op, D) /\ Filling(op) = {}
    BY <2>1 DEF Made, Settled
  <2>3. DOMAIN Static(op) = 1..Size(op)
    BY StaticShape
  <2>4. Kept(heap[rt[op]], op, D)
    BY <2>2, <2>3 DEF Grows, Kept, Size
  <2> QED BY <2>2, <2>4
<1> QED BY <1>1, TablesInductive, PTL

(***************************************************************************)
(* A name the capabilities list is in every filtered table it belongs to,  *)
(* also after a teardown beside another instance and after failed inits    *)
(* (oqsprov_capabilities.c and FILTERED_ALGS read the same list).          *)
(***************************************************************************)
THEOREM OfferedNamesAreFetchable == Spec => []OfferedIsFetchable
<1>1. TableInv => OfferedIsFetchable
  <2> SUFFICES ASSUME TableInv, NEW op \in Ops, Settled(op),
                      NEW x \in Offered, x \in Elems(Listed[op])
               PROVE  x \in Elems(heap[rt[op]])
    BY DEF OfferedIsFetchable
  <2>1. PICK D \in SUBSET Off : Made(op, D)
    BY DEF TableInv, Tables, Settled
  <2>2. PICK j \in 1..Len(Listed[op]) : x = Listed[op][j]
    BY StaticShape DEF Elems
  <2>3. j \in 1..Size(op) /\ Static(op)[j] = x
    BY <2>2, StaticShape
  <2>4. x \notin D
    BY <2>1 DEF Offered
  <2>5. PICK s : s = heap[rt[op]]
    OBVIOUS
  <2>6. s[Rank(op, D, j)] = x /\ Len(s) = Rank(op, D, Size(op))
    BY <2>1, <2>3, <2>4, <2>5 DEF Made, Grows, Settled
  <2>7. Rank(op, D, j) \in 1..Len(s)
    BY <2>3, <2>4, <2>6, PlaceInTable
  <2>8. DOMAIN s = 1..Len(s)
    <3>1. s \in Seq(Algs \cup {Junk, End})
      BY <2>5 DEF TableInv, TypeOK, Settled
    <3> QED BY <3>1
  <2> QED BY <2>5, <2>6, <2>7, <2>8 DEF Elems
<1> QED BY <1>1, TablesInductive, PTL
=============================================================================
