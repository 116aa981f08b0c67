----------------------------- MODULE OqsProvider -----------------------------
(***************************************************************************)
(* Loading, querying and unloading of oqsprov.c.  Each library context that *)
(* loads the provider has an instance of its own, but the filtered tables  *)
(* of algorithms, the list of disabled algorithms, the flag that turns the *)
(* filter on and the NIDs are static: all instances of a process and all   *)
(* their threads share them.                                               *)
(*                                                                         *)
(* Queries of different threads interleave at every access to a table.  An *)
(* instance is loaded or unloaded while no query runs: the stack of names  *)
(* has no lock, and libcrypto serialises only what one library context     *)
(* does.  Allocations succeed except where a failure is an action.         *)
(***************************************************************************)
EXTENDS Integers, Sequences, FiniteSets

CONSTANTS
  Instances,  (* library contexts that may load the provider               *)
  Threads,    (* threads of the application                                *)
  Ops,        (* operations with a table (OSSL_OP_SIGNATURE, ...)          *)
  Algs,       (* algorithm names                                           *)
  Listed,     (* of an operation: the names of its static table, in order  *)
  OidList,    (* the names with an OID, in the order of oqs_oid_alg_list   *)
  Native,     (* the names OpenSSL 3.5 implements itself                   *)
  Blocks,     (* memory for filtered tables                                *)
  Null, Junk, End  (* NULL; a cell never written; the closing entry        *)

(* An OSSL_provider_init that has passed the loop over the OIDs: the last   *)
(* it made of the BIO method, the child library context and the provider   *)
(* context, and whether it goes to end_init with a failure.                *)
Stages  == {"none", "bio", "libctx", "provctx"}
Attempt == [inst : Instances, last : Stages, failed : BOOLEAN]

ASSUME ProviderAssumption ==
  /\ Listed \in [Ops -> Seq(Algs)] /\ OidList \in Seq(Algs) /\ Native \subseteq Algs
  /\ Null \notin Blocks \cup Attempt /\ (\A names \in SUBSET Algs : names # Null)
  /\ Junk \notin Algs /\ End \notin Algs /\ Junk # End

VARIABLES
  core,       (* minor version of the OpenSSL 3 in this process            *)
  loaded,     (* instances between a successful init and their teardown    *)
  starting,   (* the attempt to load that is under way, or Null            *)
  children,   (* child library contexts made less those freed, by instance *)
  filter,     (* rt_algo_filter_enabled                                    *)
  disabled,   (* rt_disabled_algs: Null or the names on the stack          *)
  nids,       (* the names oqs_set_nid has given a NID                     *)
  messageApi, (* use_sign_verify_message_api of oqs_sig.c                  *)
  rt,         (* the ..._rt pointer of each operation                      *)
  heap,       (* contents of the blocks; <<>> when not allocated           *)
  call,       (* what each thread is doing in a query                      *)
  spoiled     (* ghost: a teardown left another instance loaded            *)

vars == <<core, loaded, starting, children, filter, disabled, nids, messageApi, rt, heap,
          call, spoiled>>

Elems(s) == {s[k] : k \in DOMAIN s}
Idle     == [at |-> "idle"]
Quiet    == \A t \in Threads : call[t] = Idle
CanLoad(i) == Quiet /\ starting = Null /\ i \notin loaded
Off      == IF disabled = Null THEN {} ELSE disabled

(* The static table of an operation, closed by {NULL, NULL, NULL}.         *)
Static(op) == Append(Listed[op], End)

(* How many of its first k entries are left without the names in D; where  *)
(* the k-th goes if it is one of them; and the table of those that are.    *)
Rank(op, D, k) == Cardinality({j \in 1..k : Static(op)[j] \notin D})
Kept(table, op, D) ==
  /\ Len(table) = Rank(op, D, Len(Static(op)))
  /\ \A k \in DOMAIN Static(op) :
       Static(op)[k] \notin D => table[Rank(op, D, k)] = Static(op)[k]

Init ==
  /\ core \in 3..5
  /\ loaded = {} /\ starting = Null /\ children = [i \in Instances |-> 0]
  /\ filter = FALSE /\ disabled = Null
  /\ nids = {} /\ messageApi = FALSE /\ spoiled = FALSE
  /\ rt = [op \in Ops |-> Null] /\ heap = [b \in Blocks |-> <<>>]
  /\ call = [t \in Threads |-> Idle]

-----------------------------------------------------------------------------
(* OSSL_provider_init.                                                     *)
(* The loop over oqs_oid_alg_list has passed n names.  For those in noObj   *)
(* the core did not create the object, for those in noSig it did not       *)
(* accept the signature identifier.                                        *)
Seen(n) == {OidList[k] : k \in 1..n}

Register(n, noObj, noSig) ==
  /\ noObj \subseteq Seen(n) /\ noSig \subseteq Seen(n) \ noObj
  /\ nids' = nids \cup (Seen(n) \ noObj)

(* What OpenSSL 3.5 and later implement themselves is disabled here.       *)
DoneByCore == IF core >= 5 THEN Native ELSE {}

(* Everything the entry point does before it creates the library context:  *)
(* the stack, the OIDs, the features of the core's version.                *)
(* Definitions marked "Bug:" are no part of the specification: each is the *)
(* next definition with a mistake in it, for showing which property fails. *)
(* Bug: a failed registration is only reported.                            *)
PrepareWarnOnly(noObj, noSig) ==
  /\ Register(Len(OidList), noObj, noSig)
  /\ messageApi' = (messageApi \/ core >= 4)
  /\ filter' = (filter \/ core >= 5)
  /\ disabled' = Off \cup DoneByCore

Prepare(noObj, noSig) ==
  /\ Register(Len(OidList), noObj, noSig)
  /\ messageApi' = (messageApi \/ core >= 4)
  /\ filter' = (filter \/ core >= 5)
  /\ disabled' = Off \cup noObj \cup noSig \cup DoneByCore

Load(i, noObj, noSig) ==
  /\ CanLoad(i)
  /\ Prepare(noObj, noSig)
  /\ starting' = [inst |-> i, last |-> "none", failed |-> FALSE]
  /\ UNCHANGED <<core, loaded, children, rt, heap, call, spoiled>>

(* A failing init leaves the shared state as it is at that point: neither  *)
(* libctx nor *provctx is set yet, so nothing is freed or torn down.       *)
LoadFailsEarly(i) ==
  /\ CanLoad(i)
  /\ disabled' = Off
  /\ UNCHANGED <<core, loaded, starting, children, filter, nids, messageApi, rt, heap, call, spoiled>>

(* oqs_set_nid does not know the name after the first n.                   *)
LoadFailsAtOid(i, n, noObj, noSig) ==
  /\ CanLoad(i)
  /\ n < Len(OidList)
  /\ Register(n, noObj, noSig)
  /\ disabled' = Off \cup noObj \cup noSig
  /\ UNCHANGED <<core, loaded, starting, children, filter, messageApi, rt, heap, call, spoiled>>

(* The BIO method, the child library context and the provider context are  *)
(* made in this order, and each can fail.                                  *)
After   == [none |-> "bio", bio |-> "libctx", libctx |-> "provctx"]
Process == <<core, filter, disabled, nids, messageApi, rt, heap, call, spoiled>>
Making  == Quiet /\ starting # Null /\ ~starting.failed /\ starting.last # "provctx"

Create ==
  /\ Making
  /\ starting' = [starting EXCEPT !.last = After[@]]
  /\ children' = IF starting.last = "bio" THEN [children EXCEPT ![starting.inst] = @ + 1] ELSE children
  /\ UNCHANGED <<loaded, Process>>

CreateFails ==
  /\ Making
  /\ starting' = [starting EXCEPT !.failed = TRUE]
  /\ UNCHANGED <<loaded, children, Process>>

(* Bug: a missing default provider is a failure, not a warning.            *)
LoadedIfAvailable ==
  /\ Quiet /\ starting # Null /\ starting.last = "provctx" /\ ~starting.failed
  /\ \/ loaded' = loaded \cup {starting.inst} /\ starting' = Null
     \/ loaded' = loaded /\ starting' = [starting EXCEPT !.failed = TRUE]
  /\ UNCHANGED <<children, Process>>

(* The entry point succeeds; a missing default provider is only reported.  *)
Loaded ==
  /\ Quiet /\ starting # Null /\ starting.last = "provctx" /\ ~starting.failed
  /\ loaded' = loaded \cup {starting.inst} /\ starting' = Null
  /\ UNCHANGED <<children, Process>>

-----------------------------------------------------------------------------
(* oqsprovider_teardown and what oqsx_freeprovctx frees for it.            *)
Teardown ==
  /\ heap' = [b \in Blocks |-> IF b \in Elems(rt) THEN <<>> ELSE heap[b]]
  /\ rt' = [op \in Ops |-> Null]
  /\ disabled' = Null
  /\ spoiled' = (loaded' # {})
ChildFreed(i, times) == children' = [children EXCEPT ![i] = @ - times]

(* end_init: the child library context is freed through libctx, and again  *)
(* by the teardown of a provider context that has it.  The BIO method of a *)
(* failed attempt is not freed.                                            *)
CleanUp ==
  /\ Quiet /\ starting # Null /\ starting.failed
  /\ starting' = Null /\ loaded' = loaded
  /\ IF starting.last \in {"none", "bio"} THEN UNCHANGED children
     ELSE ChildFreed(starting.inst, IF starting.last = "provctx" THEN 2 ELSE 1)
  /\ IF starting.last = "provctx" THEN Teardown ELSE UNCHANGED <<heap, rt, disabled, spoiled>>
  /\ UNCHANGED <<core, filter, nids, messageApi, call>>

(* Bug: the tables are freed but their pointers are kept.                  *)
UnloadKeepsPointers(i) ==
  /\ Quiet /\ starting = Null /\ i \in loaded
  /\ loaded' = loaded \ {i} /\ ChildFreed(i, 1)
  /\ heap' = [b \in Blocks |-> IF b \in Elems(rt) THEN <<>> ELSE heap[b]]
  /\ rt' = rt
  /\ disabled' = Null
  /\ spoiled' = (loaded' # {})
  /\ UNCHANGED <<core, starting, filter, nids, messageApi, call>>

(* Bug: the tables outlive the list they were made from.                   *)
UnloadKeepsTables(i) ==
  /\ Quiet /\ starting = Null /\ i \in loaded
  /\ loaded' = loaded \ {i} /\ ChildFreed(i, 1)
  /\ UNCHANGED <<heap, rt>>
  /\ disabled' = Null
  /\ spoiled' = (loaded' # {})
  /\ UNCHANGED <<core, starting, filter, nids, messageApi, call>>

Unload(i) ==
  /\ Quiet /\ starting = Null /\ i \in loaded
  /\ loaded' = loaded \ {i} /\ ChildFreed(i, 1)
  /\ Teardown
  /\ UNCHANGED <<core, starting, filter, nids, messageApi, call>>

-----------------------------------------------------------------------------
(* oqsprovider_query, with its macro FILTERED_ALGS: the static table when  *)
(* there is no filter; otherwise the entries to leave out are counted      *)
(* (cnt_rt_disabled) and the filtered table is made if there is none.      *)
Shared == <<core, loaded, starting, children, filter, disabled, nids, messageApi, spoiled>>
Goes(t, c) == call' = [call EXCEPT ![t] = c]

(* Bug: the names on the stack are counted, not the entries they hide.     *)
CountStack(op) == Cardinality(Off)

Count(op) == Cardinality({k \in DOMAIN Listed[op] : Listed[op][k] \in Off})

Query(t, op) ==
  /\ call[t] = Idle /\ loaded # {} /\ starting = Null
  /\ Goes(t, IF filter THEN [at |-> "test", op |-> op, size |-> Len(Static(op)) - Count(op)]
              ELSE [at |-> "walk", op |-> op, ptr |-> Null])
  /\ UNCHANGED <<Shared, rt, heap>>

(* Bug: the pointer is returned whether or not there is a table.           *)
TestTableNever(t) ==
  /\ call[t].at = "test"
  /\ Goes(t, [at |-> "return", op |-> call[t].op])
  /\ UNCHANGED <<Shared, rt, heap>>

TestTable(t) ==
  /\ call[t].at = "test"
  /\ Goes(t, IF rt[call[t].op] = Null THEN [call[t] EXCEPT !.at = "alloc"]
              ELSE [at |-> "return", op |-> call[t].op])
  /\ UNCHANGED <<Shared, rt, heap>>

(* The pointer is stored before the table is filled.  A block no pointer   *)
(* leads to stands for new memory.                                         *)
Used == Elems(rt) \cup {call[t].ptr : t \in {u \in Threads : call[u].at = "walk"}}

AllocTable(t) ==
  /\ call[t].at = "alloc"
  /\ \E b \in Blocks \ Used :
       /\ rt'   = [rt EXCEPT ![call[t].op] = b]
       /\ heap' = [heap EXCEPT ![b] = [k \in 1..call[t].size |-> Junk]]
  /\ Goes(t, [at |-> "fill", op |-> call[t].op, k |-> 1, n |-> 0])
  /\ UNCHANGED Shared

(* One round of the loop.  The pointer is read again for every entry, so   *)
(* the thread may go on in a table another thread has put there.           *)
FillEntry(t) ==
  LET c == call[t]  a == Static(c.op)[c.k] IN
  /\ c.at = "fill" /\ c.k <= Len(Static(c.op))
  /\ heap' = IF a \in Off THEN heap ELSE [heap EXCEPT ![rt[c.op]][c.n + 1] = a]
  /\ Goes(t, [c EXCEPT !.k = @ + 1, !.n = IF a \in Off THEN @ ELSE @ + 1])
  /\ UNCHANGED <<Shared, rt>>

FillDone(t) ==
  /\ call[t].at = "fill" /\ call[t].k > Len(Static(call[t].op))
  /\ Goes(t, [at |-> "return", op |-> call[t].op])
  /\ UNCHANGED <<Shared, rt, heap>>

ReturnTable(t) ==
  /\ call[t].at = "return"
  /\ Goes(t, [at |-> "walk", op |-> call[t].op, ptr |-> rt[call[t].op]])
  /\ UNCHANGED <<Shared, rt, heap>>

(* libcrypto is through with the entries.                                  *)
WalkDone(t) ==
  /\ call[t].at = "walk"
  /\ Goes(t, Idle)
  /\ UNCHANGED <<Shared, rt, heap>>

-----------------------------------------------------------------------------
LoadOrUnload(i) ==
  \/ \E noObj, noSig \in SUBSET Elems(OidList) :
       \/ Load(i, noObj, noSig)
       \/ \E n \in 0..Len(OidList) : LoadFailsAtOid(i, n, noObj, noSig)
  \/ LoadFailsEarly(i) \/ Unload(i)

InInit == Create \/ CreateFails \/ Loaded \/ CleanUp

InQuery(t) ==
  \/ \E op \in Ops : Query(t, op)
  \/ TestTable(t) \/ AllocTable(t) \/ FillEntry(t) \/ FillDone(t)
  \/ ReturnTable(t) \/ WalkDone(t)

Next == (\E i \in Instances : LoadOrUnload(i)) \/ InInit \/ (\E t \in Threads : InQuery(t))

Spec == Init /\ [][Next]_vars

-----------------------------------------------------------------------------
Frame ==
  {Idle}
  \cup [at : {"test", "alloc"}, op : Ops, size : Nat]
  \cup [at : {"fill"}, op : Ops, k : Nat, n : Nat]
  \cup [at : {"return"}, op : Ops]
  \cup [at : {"walk"}, op : Ops, ptr : Blocks \cup {Null}]

(* The shared state has its type; in particular a query never returns with *)
(* the filter on and no table.                                             *)
TypeOK ==
  /\ core \in 3..5 /\ filter \in BOOLEAN /\ messageApi \in BOOLEAN /\ spoiled \in BOOLEAN
  /\ loaded \subseteq Instances /\ starting \in Attempt \cup {Null}
  /\ children \in [Instances -> Int] /\ nids \subseteq Algs
  /\ disabled = Null \/ disabled \subseteq Algs
  /\ rt \in [Ops -> Blocks \cup {Null}]
  /\ heap \in [Blocks -> Seq(Algs \cup {Junk, End})]
  /\ call \in [Threads -> Frame]
  /\ \A t \in Threads : call[t].at = "walk" /\ filter => call[t].ptr # Null

Filling(op) == {t \in Threads : call[t].at = "fill" /\ call[t].op = op}
Settled(op) == rt[op] # Null /\ Filling(op) = {}

(* Writing a filtered table stays inside its block: the count made before  *)
(* malloc (cnt_rt_disabled) is the number of entries the loop leaves out,  *)
(* also when another thread has meanwhile put its own block there.         *)
FillInBounds ==
  \A op \in Ops : \A t \in Filling(op) :
    LET c == call[t] IN
    c.k <= Len(Static(op)) /\ Static(op)[c.k] \notin Off => c.n < Len(heap[rt[op]])

(* Once no thread is filling it, a filtered table is whole, whatever       *)
(* threads raced to make it: it is the static table in its order, closed,  *)
(* without the names disabled for this core.  Names whose registration     *)
(* failed may be missing too.  Not claimed after a teardown beside another *)
(* instance, which drops the list.                                         *)
SettledTableExact ==
  ~spoiled => \A op \in Ops : Settled(op) =>
    \E D \in SUBSET Off : Native \subseteq D /\ Kept(heap[rt[op]], op, D)

(* The names a listing of TLS groups or signature algorithms would offer   *)
(* now (oqs_group_capability, oqs_sigalg_capability).                      *)
Offered == Algs \ Off

(* What the provider offers for TLS its tables can supply, also after      *)
(* another instance was torn down or failed to load: a filtered table      *)
(* never lacks a name that the capabilities list.                          *)
OfferedIsFetchable ==
  \A op \in Ops : Settled(op) =>
    Offered \cap Elems(Listed[op]) \subseteq Elems(heap[rt[op]])

(* A name with an OID that is offered has the NID its keys and signatures  *)
(* are found by: a name whose object could not be created is disabled.     *)
OfferedHasNid ==
  loaded # {} /\ ~spoiled => Offered \cap Elems(OidList) \subseteq nids

(* Wherever the entry point failed, and whether an instance was loaded and *)
(* unloaded or not, its child library context is freed once: end_init      *)
(* frees libctx, and the teardown it may call frees it too.                *)
ChildFreedOnce ==
  starting = Null => \A i \in Instances : children[i] = IF i \in loaded THEN 1 ELSE 0

(* README.md:86: when loaded with OpenSSL 3.5, the provider disables the   *)
(* algorithms OpenSSL implements itself.                                   *)
NativeStaysDisabled == core >= 5 /\ loaded # {} => Offered \cap Native = {}
=============================================================================
