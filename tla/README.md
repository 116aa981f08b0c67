# Formal models of the PQC TLS laboratory and its oqs-provider

The repository has two parts. `src/oqs-provider/` is an OpenSSL provider for
post-quantum and hybrid keys, signatures and KEMs; its own logic is in
`oqsprov/`. Around it, `pki_factory/`, `runner/`, `bench/` and `analysis/` are
a laboratory: scripts that make certificate chains, start a TLS server and a
benchmark client, and summarise the results. This directory holds TLA+ models
of both, the TLC configurations that check them, and machine-checked proofs.

## Inventory

| Component | State it keeps | Operations | What is hard | What makes it correct |
|---|---|---|---|---|
| Key objects (`oqsprov_keys.c`, `oqs_kmgmt.c`) | `OQSX_KEY.references`, held by EVP_PKEYs, contexts, callers | new, up_ref, free, load | keys are shared by threads; the counter is atomic, nothing else is | the counter is the number of holders; a key is released once, after the last |
| Signature contexts (`oqs_sig.c`) | key, digest, running hash, collected data, context string, operation | init, update, final, one-shot, message operations, dup, set_params | many legal orders of calls; two API generations; size queries and retries | a signature covers what was fed; verification agrees with signing |
| Key material (`oqsprov_keys.c`, encoder, `oqs_kmgmt.c`) | `privkey`, `pubkey`, `comp_*key`, `classical_pkey` | gen, import, export, encode, decode, get/set encoded public key | offsets depend on kind, share order and encoded length; partial failures | components are where their pointers say, and of one key pair |
| KEMs (`oqs_kem.c`, `oqs_hyb_kem.c`) | a key reference | encaps, decaps | order of halves | both sides derive the same secret |
| Key management glue (`oqs_kmgmt.c`) | a generation's algorithm, name and property query; the key's name | gen_init, gen_set_params, gen, import, load, has, match | keys without a public half; keys renamed by a group name | keys that match share a half |
| Encoders (`oqs_encode_key2any.c`) | of each context the cipher and the intent to encrypt | newctx, set_ctx_params, does_selection, encode, text | a cipher that cannot be fetched; selections as levels; one context type for all algorithms | what is written is what was asked for, under its own OID, encrypted if asked |
| Decoders (`oqs_decode_der2key.c`) | the key under construction | does_selection, decode, export | the reference changes hands inside a callback; the public decoder takes any OID; open selections | no leak, no double free; what was written reads back |
| Provider entry (`oqsprov.c`) | filtered algorithm tables, list of disabled algorithms, both global | init, query, teardown | several instances and threads share the globals | a query never shows a disabled algorithm |
| Capabilities (`oqsprov_capabilities.c`) | the list of disabled algorithms (read) | list groups, signature algorithms | reads what loads and unloads change | what is offered can be fetched |
| BIO glue, tables | static | lookups | - | - |
| Chain generation (`gen_chain.sh`) | `pki_factory/output/<profile>` | wipe, keys, certificates, verify, `chain.json`, `meta.json` | may be cut between any two commands; rewrites in place | what counts as generated is usable |
| Scenario runner (`run_scenario.sh`, `run_openssl_server.sh`) | server, perf and client processes, result directory, one port | generate on demand, spawn, measure, stop, write | readiness by sleeping, leftovers of killed scripts, waiting for perf | a result is of its own scenario; scripts end |
| Benchmark client (`tls_bench_client.c`) | rows of the CSV | one handshake per row | exit code 0 whatever the handshakes gave | it verifies the chain and the group |
| Analysis (`analysis/*.py`) | none | accept, choose, summarise | partial or stale result directories | it reads whole results only |

Calls go from libcrypto into key management, signature, KEM and coder
functions; keys pass between them by counted reference (EVP_PKEY to context)
or by moving one reference (decoder to `oqsx_load`). The laboratory's parts
interact through files, the shared port 4433 and process exit codes.

## Modules

| Module | Models | Remarks |
|---|---|---|
| `SharedOwnership` | what reference counting promises, without a counter | abstract specification |
| `OqsKeyRefs` | references to keys, threads inside provider functions | implements `SharedOwnership` |
| `OqsKeyRefs_proofs` | - | theorems about `OqsKeyRefs` |
| `OqsKeyRefs_refinement` | - | `OqsKeyRefs` implements `SharedOwnership` |
| `OqsSigCtx` | the signature context and what its signatures cover | primitives are ideal |
| `OqsSigCtx_proofs` | - | theorems about `OqsSigCtx` |
| `OqsKeyMaterial` | buffers, component pointers, codecs, KEMs | cells instead of bytes |
| `OqsKeyMaterial_proofs` | - | theorems about `OqsKeyMaterial` |
| `OqsKeyMgmt` | generation, import, has and match of keys | used by `OqsCodec` |
| `OqsCodec` | encoders and decoders over the keys of `OqsKeyMgmt` | documents instead of bytes |
| `OqsCodec_proofs` | - | theorems about `OqsCodec` and `OqsKeyMgmt` |
| `OqsProvider` | init, query, teardown over shared tables | threads race in queries |
| `OqsProvider_proofs` | - | theorems about `OqsProvider` |
| `ScenarioLab` | scripts, servers, clients, files, early ends | processes interleave |
| `ScenarioLab_proofs` | - | theorems about `ScenarioLab` |
| `MC...` | instances for TLC | constant values and symmetry sets |

Definitions whose comment starts with "Bug:" are no part of any specification.
Each is the definition below it with one plausible mistake; put in its place, a
property of a run must fail, which shows that the property can.

### OqsKeyRefs

`mem` and `refs` are a key's memory and counter, `ctx` is the key pointer of
each `PROV_OQSSIG_CTX` and `PROV_OQSKEM_CTX`, `pkey` and `users` stand for
libcrypto's EVP_PKEY objects (external), and `call` is the frame of each thread
inside a provider function. An action is what happens between two points where
another thread can observe a difference: `oqsx_key_free` is `Dec` then
`Destroy`; an init is `InitCtx` (up_ref, entry of free), `Dec`, perhaps
`Destroy`, and `Assign` (the pointer is stored). One thread at a time uses a
context, which is libcrypto's rule for its callers; keys are shared freely. An
address is allocated at most once: reuse would only hide an error. Memory is
sequentially consistent; the relaxed ordering of the counter is not modelled.

`orphans` are the keys `oqsx_genkey` forgets on its error return. They are
never released (the code leaks them), so the exact count gives them one.

### OqsSigCtx

A context is a record with the fields of `PROV_OQSSIG_CTX` that decide what is
signed, and ghost fields, which no guard reads: what the application fed
(`fed`), the digest it chose (`hash`), the context string it last had accepted
(`asked`), and whether another was refused since (`refused`). A second string is
always refused, as the size of the buffer is given as 0, and the failing call
switches the first one off (`oqs_sig.c:941-944`). `asked` keeps what the
application may still believe in; the properties say what a signature made after
that is worth: it is under no string. `api` is the part of the protocol that
libcrypto, not the provider, enforces: which family of calls an init admits,
that a context is initialised once, and that a final ends a digest operation.
`New34` tells the contexts of a build against OpenSSL 3.4, where the digest
functions use the message operations. A signature records the message, the
digest and the context string that reached the primitive. The classical half
of hybrid signatures, with its own hashing rule, is left to a later module.

`DupCtx` duplicates contexts without a stored signature only. `oqs_sig_dupctx`
starts with a byte copy and never duplicates `signature`, so that a duplicate of
a 3.4 context that holds one shares its memory, and what either context does
after one of them freed it is undefined.

### OqsKeyMaterial

A buffer is a sequence of cells, each naming the component, key pair, position
and length it belongs to. Reading at a wrong offset or with a wrong length thus
yields something that is no component. There are five kinds of key: pure
signature and KEM, hybrid signature (variable classical length), hybrid KEM,
and hybrid KEM with reversed share. `arts` are the artefacts that leave a key
(parameter sets, SPKI, PKCS#8, shares), from which other objects are built, in
any number of rounds. `KeyGenHalf` is a failure of the classical half that
`oqsx_key_gen` returns as success: before anything was written, with the
classical public key written, or with that and the private key
(`oqsprov_keys.c:1389-1420`, `1482-1513`), and always before the lengths are.
What it wrote belongs to no key pair (`Torn`). Such a key may have a share that a
peer takes over, reaches public keys, and gets ciphertexts made for it; what it
does not become is a copy with a classical private key (`HalfKeyNotCopied`). The build without `NOPUBKEY_IN_PRIVKEY` (the
default) is modelled.

### OqsKeyMgmt and OqsCodec

`key` are the EVP_PKEYs of an application. An `OQSX_KEY` is known by four
things: the KEYMGMT under which libcrypto holds it (`alg`), the algorithm of its
buffers (`mat`), its `tls_name` (`name`), and the pair each half belongs to. The
four differ in legal ways: `oqsx_gen_set_params` renames a key, and as a hybrid
takes its classical half from that name (`oqsprov_keys.c:548-561`, `613-618`,
`650-655`, `688-693`) its material may be of another kind than its algorithm.
The constant `Made` says which material an algorithm makes under which name; the
theorems hold for any. `oqsx_import` takes two halves without comparing them, or
none at all, and `oqsx_d2i_PUBKEY` makes a key of whatever algorithm the OID
names while libcrypto takes it under the algorithm of the decoder it happened to
ask.
`Has` and `Match` follow `oqsx_has` and `oqsx_match`; `EvpEq` is the call
sequence of `EVP_PKEY_eq` (external). Halves compare by their bytes, and those
of different algorithms differ.

`enc` are encoder contexts (`key2any_ctx_st`). A context holds the cipher and
the intent and nothing of the algorithm or structure it was made for, so that
every `Encode` chooses both; this includes libcrypto's use of one context per
implementation and more. `SetCipher` has the failure of the fetch: the call
fails, the old cipher is gone, the intent stays. `SetCipherUnread` has the
returns before that: a parameter of a wrong type, after which cipher and intent
are those of the last call that could be read. A caller who overlooks that
failure may get a private key in the clear, which `IntentHonoured` exempts and
the ghost field records (`asked = "unread"`). `Encode` is one run through
`MAKE_ENCODER`'s function, `key2any_encode`, the writer (`key_to_*_bio`),
`prepare_oqsx_params` and `oqsx_*_to_der`; an encoding that fails changes
nothing and is no step. `docs` are the documents written. `Decode` is
`oqs_der2key_decode` with its callback, in which `oqsx_load` takes the key. The
NIDs that decoders compare exist before any decoder does, as init registers them
(`OqsProvider!OfferedHasNid`). The decoders exist for `PrivateKeyInfo` and
`SubjectPublicKeyInfo`; libcrypto decrypts an `EncryptedPrivateKeyInfo` before
it asks them. Ghost fields (`asked`, `wanted`) record what the caller said, and
no guard reads them.

### OqsProvider

The static variables of `oqsprov.c` are variables of the module: `filter`
(`rt_algo_filter_enabled`), `disabled` (`rt_disabled_algs`), `rt` (the filtered
tables), and two that init sets elsewhere (`nids`, `messageApi`). `loaded` are
the instances, one per library context; `test/oqs_test_endecode.c` loads two.
The entry point fails before the OIDs or at one of them (`LoadFailsEarly`,
`LoadFailsAtOid`), or goes past them (`Load`). It then makes the BIO method, the
child library context and the provider context, one `Create` each, of which any
can fail, and either succeeds (`Loaded`) or goes through `end_init` (`CleanUp`),
where the library context is freed through `libctx` and once more by a teardown
of `*provctx`. `children` counts, for each instance, how often its library
context was made less how often it was freed. That the two frees of `end_init`
never meet is due to the order of the steps: nothing after `oqsx_newprovctx`
fails. The BIO method of a failed attempt is not freed, nor counted here. A query (`FILTERED_ALGS`) is a sequence of steps of its thread: test,
allocation, one step per entry, return, and the time libcrypto uses the table.
Every access reads the global pointer anew, as the calls between them force the
compiler to do, so a thread may go on in another thread's block. A listing of
capabilities changes nothing and is the state function `Offered`.

Loading and unloading happen while no query runs. The stack of names has no
lock, so an overlap is a data race without outcomes to enumerate. Even so, two
threads can meet a table that is public and not yet filled (`oqsprov.c:1142`):
the model has these states, and no property claims that there are none.
`SettledTableExact` claims that such a table becomes whole: `Rank` counts the
entries that are left among the first k of a static table, which is where the
k-th belongs, and `Kept` says that a table has them all in their places. The values of OIDs
are abstracted into which registrations fail; code points are data.

### ScenarioLab

Each command of `gen_chain.sh` is an action; under `set -e` a failing command
ends the script. `chain.json` is created by the shell (`OpenChain`) before jq
fills it (`FillChain`). The runner goes from `spawn` to `write` as the script
does; server, perf and client are processes of their own. A server loads files
(`LoadServer`), then binds (`BindServer`), and ends when either fails. A
handshake is answered by whichever server holds the port and succeeds if the
client, with the root it loaded at start, accepts the chain and the group.
Early ends: a terminal interrupt (EXIT trap), SIGKILL of the script alone or of
the client, and a power loss. "failed" stands for every status other than
"completed" and "started". Start of a background process and storing its PID
are one step; tcpdump is treated by the script as perf is and left out.

## Runs

| Run | Configuration | Checks | Bounds and why they suffice |
|---|---|---|---|
| key_refs | `KeyRefs.cfg` | `IInv`, `RefCountExact`, `NoDanglingKey`, `DestroyedOnce`, `NeverRevived`, `SharedSafe`, `SharedLive` | 2 threads racing on 2 keys, 2 signature and 1 KEM context, 1 handle that several owners share: each code path can meet each other on the same key; the theorems extend it to every size. No symmetry, as liveness is checked |
| sigctx_mixed | `SigCtxMixed.cfg` | `TypeOK`, `SignatureCoversFed`, `VerifyAgrees`, `LateOnlyAfterQuery` | a context of each build, data of up to 2 out of 2 different chunks (a lost, repeated or displaced chunk shows), 2 digests, 1 signature; no context string and no duplicates, which the next run has |
| sigctx_34 | `SigCtx34.cfg` | `SignatureCoversFed`, `VerifyAgrees`, `OnlyPrivateKeysSign` | 2 contexts of the new build (original and duplicate, or signer and verifier), one chunk fed up to twice (so that a one-shot call may append to another or to updates), no context string, one, or one and a refused one; 1 digest, 1 signature; the theorems extend both runs to any data, strings and builds |
| sigctx_md_change | `SigCtxMdChange.cfg` | `MdFixedAfterUpdate` is violated | - |
| key_material | `KeyMaterial.cfg` | `TypeOK`, `ComponentsInPlace`, `ClassicalMatchesBuffers`, `SecretsAgree`, `HalfKeyNotCopied` | 2 objects, 2 key pairs, 2 artefacts, 1 ciphertext; the three hybrid kinds; component lengths differ and a classical private key may be short; the theorems extend it to plain keys, which have one component at the start of their buffer, and to all lengths and sizes |
| key_gen_whole, key_stale | `KeyGenWhole.cfg`, `KeyStale.cfg` | `GeneratedKeyIsWhole`, `ComponentsPointToMaterial` are violated | - |
| provider | `Provider.cfg` | `TypeOK`, `FillInBounds`, `SettledTableExact`, `OfferedIsFetchable`, `OfferedHasNid`, `ChildFreedOnce` | 2 instances, 2 threads, core versions 3.3 to 3.5, one table with a disabled name between two others (tables do not interact), a name of another table, 3 blocks (one per thread and one for the table) |
| provider_native | `ProviderNative.cfg` | `NativeStaysDisabled` is violated | - |
| lab_kill | `LabKill.cfg` | `TypeOK`, `SuccessIsOwn`, `AcceptedIsWhole`, `ScriptsEnd` | 2 scripts, 1 interrupt, kill or power loss in the first or in the second, 2 profiles (depth 2 and 3), 3 scenarios of which two share a profile and two a group, 2 rows; under `FairSpec` |
| lab_sequential | `LabSequential.cfg` | `UsableChain`, `NoServerLeft` | 3 scripts, 2 interrupts or power losses: a cut generation, a second one, and a use |
| codec | `Codec.cfg` | `TypeOK`, `IntentHonoured`, `OidNamesMaterial`, `SelectionHonoured`, `PrivateAsGenerated`, `MatchSharesAHalf`, `RoundTrip` | 2 keys (what match compares), a signature algorithm and a hybrid, a group name that is neither and selects another classical half for the hybrid, 2 pairs (so that halves can be of different pairs), 1 context, 1 document at a time, which may be read any number of times; contexts do not interact, and the theorems extend it to every size |

Deadlock is checked in all runs but those of `ScenarioLab`, where a campaign
ends when its scripts are used up.

Properties that hold under a condition say so. `SignatureCoversFed` and
`VerifyAgrees` leave out operations whose digest was replaced while data were
hashed; `LateOnlyAfterQuery` shows that only a size query opens that way.
`UsableChain` and `NoServerLeft` are not claimed when scripts are killed, as a
generator or server then lives on. `ComponentsInPlace` speaks of keys that were
generated; `HalfKeyNotCopied` of those that were not. Where a context string was
refused on either side, `VerifyAgrees` claims only that no other data pass.
`IntentHonoured` exempts a cipher that was named in a call whose parameters
could not be read. `SharedLive` exempts the keys that `oqsx_genkey` forgets. `SettledTableExact` and
`OfferedHasNid` say nothing after an instance was torn down beside another.

### Fairness

`OqsKeyRefs!FairSpec` lets every thread inside a provider function continue:
those functions take no lock and wait for nobody. Nothing obliges an application
to free its keys; `SharedLive` only says that a key without owners, which was
not lost, is reclaimed. `ScenarioLab!FairSpec` lets the operating system run the
script in the foreground and each child process. It is the weak fairness of a
scheduler; signals, kills and new scripts have no fairness.

### What the violation runs show

* `sigctx_md_change`: asking for the signature length sets `flag_allow_md`
  (`oqs_sig.c:721`), after which a digest can be set although data were hashed;
  the hash is dropped. The comment at `oqs_sig.c:669` promises otherwise.
* `key_gen_whole`: a failed classical key generation leaves `ret` at 0
  (`oqsprov_keys.c:1553` and `1572`), which the caller takes for success.
* `key_stale`: `oqsx_set_params` releases `privkey` and leaves `comp_privkey`
  (`oqs_kmgmt.c:563`); the comment at `oqs_prov.h:177` has it point to the
  actual material.

* `provider_native`: tearing down one of two instances releases the list of
  disabled algorithms both share (`oqsprov.c:1193`); the other then offers the
  algorithms that `README.md:86` of the provider says are disabled.

Smaller observations have no run of their own. With a reversed share the OQS
component comes first (`IdxQ`), while the comments at `oqs_prov.h:178` and
`oqsprov_keys.c:1324` place it last. A generation interrupted after `chain.json`
was created counts as generated from then on (`run_scenario.sh:68`), without the
whole `chain.json` and `meta.json` that `src/README.md:84` lists;
`UsableChain` shows that its certificates are usable nevertheless. The provider's
README lists `X448MLKEM1024` as disabled, which no push of init does. A failed
init does not free the BIO method it made (`oqsprov.c:1478`). Asked to compare
key pairs, `oqsx_match` looks at private halves only where a public one is
missing or the names differ, although the comment at `oqs_kmgmt.c:136-138` says
that they "are matched binary if available in both keys"; two different keys
that both lack a public half are therefore equal for `EVP_PKEY_eq`, which
`MatchSharesAHalf` allows: it speaks of selections that look at a half one of
the keys has. The text output of a key with a reversed share prints
`comp_*key[0]` under the classical label and with the classical length
(`oqs_encode_key2any.c:1404-1411`), although component 0 is then the OQS one.

## Proofs

`OqsKeyRefs_proofs` proves, for every finite set of threads, contexts and
handles and every set of keys:

| Theorem | States |
|---|---|
| `TypeCorrect` | `Spec => []TypeOK` |
| `Inductive` | `Spec => []IInv` |
| `CounterIsExact` | `Spec => []RefCountExact` |
| `ReleasedOnce` | `Spec => []DestroyedOnce` |
| `HeldKeysAreLive` | `Spec => []NoDanglingKey` |

The only assumption is `SlotsAssumption`: the slots are finitely many and of
distinct kinds, and the null values are no members. `RefCountExact` is not
inductive alone: that a decrement removes exactly one owner needs to know that
the frame of the thread names the pointer it gives back, and that no other
thread works on that context (`FramesOK`); that an up_ref of a handle's key
adds one to a positive count needs `HandlesOK`; that `Destroy` meets a live key
needs `DestroyedOnce` itself, and that a key under construction is counted once
needs `BuiltPrivate`. `IInv` is their conjunction. The proof has a lemma on what
each kind of step does to the set of owners, and one step per action.
`NoDanglingKey` follows from `IInv` in one state: a holder means a positive
count, and a key released or being released has count zero.

`OqsKeyRefs_refinement` adds, from the same assumption and invariant:

| Theorem | States |
|---|---|
| `ImplementsSharedOwnership` | `Spec => SharedSafe` |
| `ZeroIsFinal` | `Spec => NeverRevived` |

The mapping sends each key to the set of slots that refer to it. A lemma for
each abstract action (`Acquires`, `Releases`, `Moves`, `Stutters`) says which
change of the slots is that action; every action of a thread is then one of
them. `Destroy` maps to the abstract reclaiming because `RefCountExact` turns a
counter at zero into an empty set of owners.

`OqsSigCtx_proofs` proves, for all sets of contexts of either build, digests,
context strings and chunks, and any bound on data and signatures:

| Theorem | States |
|---|---|
| `TypeCorrect` | `Spec => []TypeOK` |
| `SignaturesCoverFed` | `Spec => []SignatureCoversFed` |
| `VerificationAgrees` | `Spec => []VerifyAgrees` |
| `LateChangeNeedsQuery` | `Spec => []LateOnlyAfterQuery` |
| `SignersArePrivate` | `Spec => []OnlyPrivateKeysSign` |

They assume `SigCtxAssumption`: the bounds are numbers, and NULL is no digest, no
string, no buffer and no hash (a NULL pointer is none of these in the code). What
a signature covers depends on how the context came to its hash and its buffer,
so the invariant is about contexts: while a hash runs it holds what was fed,
under the digest of the init, and nothing is collected beside it (`HashHoldsFed`);
without one the buffer holds what was fed, unless a hash with data was dropped,
and is then shorter (`BufferHoldsFed`); a new context is empty (`FreshIsEmpty`);
and the flag that admits a new digest is set amid data by a size query only
(`FlagNeedsQuery`). The string of a context is the one accepted, and none once
another was refused (`InForce`). The bound on data enters the proof there: a context whose
hash was dropped has room for what it collects. Each kind of call has a lemma
that it keeps a good context good. A stored signature is itself faithful, which
`VerifyAgrees` needs.

`OqsKeyMaterial_proofs` proves, for any sets of key objects and key pairs, any
lengths of the components and of the classical private keys, and any number of
artefacts and ciphertexts:

| Theorem | States |
|---|---|
| `TypeCorrect` | `Spec => []TypeOK` |
| `ComponentsAreInPlace` | `Spec => []ComponentsInPlace` |
| `ClassicalKeysMatch` | `Spec => []ClassicalMatchesBuffers` |
| `DerivedSecretsAgree` | `Spec => []SecretsAgree` |
| `HalfKeysAreNotCopied` | `Spec => []HalfKeyNotCopied` |

They assume `MaterialAssumption`: components have at least one cell, and NULL is
no buffer, pointer, classical key, key pair or key object. A pointer is right or
wrong only together with the buffer it leads into, and a buffer comes from an
artefact that another key object released, so the invariant (`IInv`, proved by
`Inductive`) says what each buffer contains, cell by cell, wherever it is
(`KeysOK`, `ArtsOK`), and to which key pair a ciphertext belongs (`CtsOK`). A
public buffer holds both components at `PubC` and `PubQ` (`PubOK`); its length
field may be missing in a hybrid KEM key, as a share does not carry it and the
receiving key may never have been generated. A private buffer holds its
components where the length n of its classical one puts them (`PrivOK`), and a
PKCS#8 blob is the used part of such a buffer and the post-quantum public key
(`BlobOK`). Of the buffers of a key that was half generated only the length of
the private one is known: it is zero, as lengths are stored last, which is what
keeps `oqsx_key_recreate_classickey` from finding the private key that may be
there, and gives their blob a length that `oqsx_key_op` refuses. `PointersOK` leaves out the two
cases in which pointers are not right (a half-generated signature key has none,
and a peer's share leaves stale private ones), and the proof shows that no
property rests on them.

The lemmas come in layers: what `Read`, `SubSeq` and `Overlay` do to cells; where
the components of each kind of key lie, inside their buffer and apart from each
other (`PubPlaces`, `PrivPlaces`); that `Offsets` finds them (`CompPubIs`,
`CompPrivIs`) and reading gives them (`PubRead`, `PrivRead`); that generation and
decoding fill a buffer (`GenPubOK`, `GenPrivOK`, `BlobParts`, `SharePlaced`); and
that a recreated key is right (`MadePublic`, `MadePrivate`), on which every
import and decoder rests. The offsets of oqsx_comp_set_offsets, which depend on
the recorded length for signature keys and on the maximum for hybrid KEM keys,
are thus correct for every length a classical key may have.

`OqsProvider_proofs` proves, for every set of instances, threads, operations and
blocks and all lists of algorithms:

| Theorem | States |
|---|---|
| `TypeCorrect` | `Spec => []TypeOK` |
| `FillsStayInBounds` | `Spec => []FillInBounds` |
| `SettledTablesAreExact` | `Spec => []SettledTableExact` |
| `OfferedNamesAreFetchable` | `Spec => []OfferedIsFetchable` |
| `OfferedNamesHaveNids` | `Spec => []OfferedHasNid` |
| `ChildrenAreFreedOnce` | `Spec => []ChildFreedOnce` |

They assume `ProviderAssumption`: the lists are sequences of names, NULL is
neither a block, nor a set of names, nor an attempt to load, and an unwritten cell and the closing entry
are no names. `ListGrows` says what every outcome of init
does to the list and the NIDs; both only grow until a teardown, and a complete
init closes the gap between them, so that a later failure cannot open it.
`ChildFreedOnce` speaks of the time when no init is under way; its invariant
(`ChildInv`) says which steps of one have made the child library context and
that an attempt with a provider context does not fail any more, without which
`end_init` would free it twice.

The first four rest on `TableInv` (`TablesInductive`). Any number of threads may
find no table and each make one; the pointer then leads to the block of the
last, and all of them go on writing there. Two facts make this harmless. First,
a thread that fills knows its own place: the entries it has written are as many
as precede its position among those that are left (`Knows`, with
`n = Rank(k - 1)`), and as the list cannot change while a query runs, all
threads agree on the place of every entry. Second, in the block the pointer
leads to, every entry is in its place or still ahead of some thread that is
filling (`Grows`): a new block puts everything ahead of its maker, at position
1. When nobody fills, nothing is ahead of anyone and the table is whole. `Apart`
(no block serves two operations) keeps the write of one operation out of
another's table, and the set of names D with which a table was made is
remembered by `Made`, as the list may grow afterwards by a failed or second
init; while anyone is busy with the table, D is the list itself. The operators
have their own lemmas: `RankStep`, `RankGrows` (entries that are left have
different places) and `CountIsRest` (the count before `malloc` is right).

`OqsCodec_proofs` proves, for all sets of keys, algorithms, names, pairs and
contexts and any bound on documents:

| Theorem | States |
|---|---|
| `TypeCorrect` | `Spec => []TypeOK` |
| `CipherIsHonoured` | `Spec => []IntentHonoured` |
| `DocumentsNameTheirKeys` | `Spec => []OidNamesMaterial` |
| `PrivateOnlyIfSelected` | `Spec => []SelectionHonoured` |
| `PrivateKeysAreGenuine` | `Spec => []PrivateAsGenerated` |
| `MatchIsSound` | `Spec => []MatchSharesAHalf` |
| `WrittenKeysReadBack` | `Spec => []RoundTrip` |

They assume `KeyMgmtAssumption` (algorithms are names and kinds of material, an
algorithm makes its own kind under its own name, NULL is none of them) and
`CodecAssumption`. None of the properties of documents is
inductive by itself, as what is written depends on the keys and what is decoded
on the documents. `IInv` therefore joins `TypeOK` and `PrivateAsGenerated` with
three statements:
`AskedIntends` (a context whose caller asked for a cipher intends to encrypt,
also after a failed fetch), `OwnNameOwnMaterial` (a key that has the name of the
algorithm it is held under has its material too: whatever a group name or a
public decoder made of the others, the name check of `prepare_oqsx_params`
refuses them) and `DocsInv` (`IntentHonoured`, `OidNamesMaterial` and
`SelectionHonoured`). `PrivateAsGenerated` needs `DocsInv` for `Decode`, and
`DocsInv` needs `AskedIntends` and `OwnNameOwnMaterial` for `Encode`.
`MatchSharesAHalf` and `RoundTrip` follow from `IInv` in one state.

`ScenarioLab_proofs` proves, for all sets of profiles and scenarios and any
number of scripts, early ends and rows:

| Theorem | States | If |
|---|---|---|
| `TypeCorrect` | `Spec => []TypeOK` | |
| `SuccessesAreOwn` | `Spec => []SuccessIsOwn` | |
| `AcceptedAreWhole` | `Spec => []AcceptedIsWhole` | |
| `ChainsAreUsable` | `Spec => []UsableChain` | `"kill" \notin Ends` |
| `ServersAreStopped` | `Spec => []NoServerLeft` | `"kill" \notin Ends` |

They assume `LabAssumption`, in which NULL is neither a client nor a result. The
condition of the last two is that of the run `lab_sequential`: behind a killed
script a generator or a server lives on, and the properties fail. `SuccessIsOwn`
speaks of rows only, and holds because a client accepts a chain that leads to its
root and because roots of different profiles differ. The invariant therefore says
to which profile every key pair belongs, wherever it occurs: in files that are
half rewritten, in servers that loaded them earlier, in the roots of clients
(`KeysOwned`, with the owner of a key pair as a function that only grows).
`AcceptedIsWhole` needs that an exit code 0, a status "completed" and the
variable the script holds in between all imply a row for every run (`Complete`).
Both need what exists at each place of the script (`InOrder`). Without kills, the
only generator at work is that of the script in the foreground, and its files are
as far as it is (`OneGenerator`, `FarAs`); the only server is that of a script
between start and stop (`OneServer`).

Every safety property of a passing run is a theorem. Model-checked only are the
liveness properties `SharedLive` and `ScriptsEnd`, and the properties of the
violation runs, which do not hold.
Liveness under fairness, `ENABLED` and induction over data are out of the
prover's reach and stay with TLC.

## Not modelled

The contents of static tables, code points and OIDs; BIO glue; labels and layout
of the text output; the export of a decoded key to another provider
(`der2key_export_object`, with the selection of the last decode); the builds with
`NOPUBKEY_IN_PRIVKEY`; the property query; duplicates of contexts that hold a
signature, and failures inside `oqs_sig_dupctx` after which freed buffers are
used; which result directory the analysis takes when it has no hint; tests,
examples, CI scripts and the code generator; the arithmetic of the
statistics; the primitives of liboqs and libcrypto; memory ordering weaker than
sequential consistency. Failures of allocation are modelled where they change
what is owned or left behind.

## Plan

In this order, the most important behaviour first:

1. *done* `OqsKeyRefs` with `SharedOwnership`, its inductive invariant and proofs.
2. *done* `OqsSigCtx`. 3. *done* `OqsKeyMaterial`. 4. *done* `ScenarioLab`.
5. `OqsHybridSig`: encoding, hashing rule and verification of composite
   signatures, between builds and API generations.
6. `OqsSigBuffers`: ownership of the context's buffers in dupctx, its error
   path and set_params (each buffer freed once).
7. *done* `OqsProvider`.
8. *done* `OqsKeyMgmt` and `OqsCodec`, with proofs of all the safety properties
   of the run.
9. `Campaign`: stop at the first failure, choice of the latest valid result,
   summaries; composed with `ScenarioLab`.
10. *done* Proofs of the safety properties of `OqsKeyRefs` with its refinement,
    `OqsSigCtx`, `OqsProvider`, `OqsCodec`, `ScenarioLab` and `OqsKeyMaterial`.
