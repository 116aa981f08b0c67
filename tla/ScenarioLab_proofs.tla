-------------------------- MODULE ScenarioLab_proofs --------------------------
(***************************************************************************)
(* What the results of the laboratory are worth, for every number of       *)
(* profiles, scenarios, scripts and early ends.                            *)
(***************************************************************************)
EXTENDS ScenarioLab, SequenceTheorems, TLAPS

(* The records of the model.                                               *)
Cert   == [key : Nat, iss : Nat]
Files  == [root : Nat, intreq : Nat, int : Cert, leaf : Nat, crt : Cert, served : Cert,
           chain : Nat, whole : BOOLEAN, meta : BOOLEAN]
GenPcs == {"wipe", "root", "intreq", "int", "leafreq", "leaf", "serve", "verify", "chain",
           "fill", "meta", "done", "failed"}
Gen    == [p : Profiles, pc : GenPcs]
Server == [st : {"new", "loaded", "bound"}, p : Profiles, group : Groups, served : Cert, crt : Cert]
Serving == {"perf", "client", "wait", "stop"}     (* a server has been started *)
Ending  == {"stop", "waitperf", "open", "write"}  (* the client is through     *)
Script  == [pc : {"idle", "gen", "spawn"} \cup Serving \cup Ending, scn : Scenarios \cup {Null},
            p : Profiles \cup {Null}, status : {"started", "completed", "failed"}]

Types ==
  /\ started \in 0..MaxRuns /\ ended \in 0..MaxEnds
  /\ pki \in [Profiles -> Files] /\ gen \in [Runs -> Gen \cup {Null}] /\ run \in Script
  /\ srv \in [Runs -> Server \cup {Null}] /\ perf \in [Runs -> BOOLEAN]
  /\ cli \in [Runs -> Client \cup {Null}] /\ res \in [Runs -> Result \cup {Null}]

(* The script in the foreground is the last one started; what it has not   *)
(* yet made does not exist.                                                *)
InOrder ==
  /\ \A r \in Runs : r > started => gen[r] = Null /\ srv[r] = Null /\ cli[r] = Null /\ res[r] = Null
  /\ run.pc # "idle" => started \in Runs
  /\ run.pc = "gen" => gen[started] \in Gen
  /\ run.pc \in {"gen", "spawn"} => srv[started] = Null /\ cli[started] = Null /\ res[started] = Null
  /\ run.pc \in {"perf", "client"} => cli[started] = Null
  /\ run.pc = "wait" => cli[started] \in Client
  /\ run.pc \notin {"idle", "gen"} => run.scn \in Scenarios /\ run.p = ChainOf[run.scn]
  /\ run.pc \in Serving \cup Ending => res[started] \in Result /\ res[started].scn = run.scn
  /\ run.pc = "gen" => run.p \in Profiles /\ (run.scn # Null => run.p = ChainOf[run.scn])
  /\ \A r \in Runs : cli[r] # Null => res[r] \in Result

(* A result is called completed, and a client exits with code 0, with a    *)
(* row for every run.                                                      *)
Whole(r) == Len(res[r].rows) = Rows
Complete ==
  /\ \A r \in Runs : res[r] # Null =>
       /\ Len(res[r].rows) <= Rows
       /\ res[r].status = "completed" => Whole(r)
  /\ \A r \in Runs : cli[r] # Null /\ cli[r].st = "exited" /\ cli[r].code = 0 => Whole(r)
  /\ run.status = "completed" => run.pc \in Ending /\ Whole(started)

(* Every key pair belongs to the profile its generator worked for, in the  *)
(* files, in the certificates of the servers and in the clients' roots.    *)
KeysIn(f) == {f.root, f.intreq, f.leaf, f.int.key, f.int.iss, f.crt.key, f.crt.iss,
              f.served.key, f.served.iss}
Of(own, k, p) == k \in 0..started /\ (k # 0 => own[k] = p)
FilesOwned(own)   == \A p \in Profiles : \A k \in KeysIn(pki[p]) : Of(own, k, p)
GensOwned(own)    == \A r \in Runs : gen[r] # Null => own[r] = gen[r].p
CertOwned(own, c, p) == Of(own, c.key, p) /\ Of(own, c.iss, p)
ServersOwned(own) ==
  \A r \in Runs : srv[r] # Null => CertOwned(own, srv[r].crt, srv[r].p) /\ CertOwned(own, srv[r].served, srv[r].p)
ClientsOwned(own) == \A r \in Runs : cli[r] # Null => Of(own, cli[r].ca, ChainOf[res[r].scn])
Owned(own) == FilesOwned(own) /\ GensOwned(own) /\ ServersOwned(own) /\ ClientsOwned(own)
KeysOwned == \E own \in [Runs -> Profiles \cup {Null}] : Owned(own)

IInv == Types /\ InOrder /\ Complete /\ KeysOwned /\ SuccessIsOwn

(* As long as no script is killed: the only generator at work is that of   *)
(* the script in the foreground, and its files are as far as it is.        *)
Working(r) == gen[r] # Null /\ gen[r].pc \notin {"done", "failed"}
Usable(f)  == Chains(f.root, f.served, f.crt) /\ f.crt.key = f.leaf
FarAs(pc, f) ==
  /\ pc \in {"root", "intreq", "int", "leafreq", "leaf", "serve", "verify", "chain"} => f.chain = 0
  /\ pc \in {"serve", "verify", "chain"} => f.crt.key = f.leaf
  /\ pc = "chain" => Usable(f)
OneGenerator ==
  \A r \in Runs : Working(r) => r = started /\ run.pc = "gen" /\ FarAs(gen[r].pc, pki[gen[r].p])
OneServer == \A r \in Runs : srv[r] # Null => r = started /\ run.pc \in Serving
Unkilled == OneGenerator /\ OneServer /\ UsableChain

-----------------------------------------------------------------------------
(* A step of gen_chain.sh: the files of the profile, and the next command. *)
Writes(r, files, next) ==
  /\ gen[r] \in Gen /\ files \in Files /\ next \in GenPcs
  /\ KeysIn(files) \subseteq KeysIn(pki[gen[r].p]) \cup {0, r}
  /\ pki' = [pki EXCEPT ![gen[r].p] = files]
  /\ gen' = [gen EXCEPT ![r].pc = next]
  /\ UNCHANGED <<run, srv, perf, cli, res, started, ended>>

(* Whatever gen_chain.sh writes, it writes its own number or one it found  *)
(* in the files of its profile.                                            *)
LEMMA GeneratorWrites ==
  ASSUME Types, NEW r \in Runs, Generate(r)
  PROVE  \E files, next : Writes(r, files, next)
<1> DEFINE f == pki[gen[r].p]
<1>0. r \in Nat /\ gen[r] \in Gen /\ f \in Files /\ pki = [pki EXCEPT ![gen[r].p] = f]
  BY LabAssumption DEF Types, Runs, Generate, Wipe, GenStep, Gen, MakeRoot, RequestInt, IssueInt,
     RequestLeaf, IssueLeaf, WriteServed, VerifyChain, OpenChain, FillChain, WriteMeta, GenBy
<1>a. ASSUME pki' = pki, gen' = [gen EXCEPT ![r].pc = "failed"],
             UNCHANGED <<run, srv, perf, cli, res, started, ended>>
      PROVE  Writes(r, f, "failed")
  BY <1>0, <1>a DEF Writes, GenPcs
<1> HIDE DEF f
<1>1. CASE Wipe(r)
  <2> DEFINE g == NoFiles
  <2>2. gen[r] # Null /\ pki' = [pki EXCEPT ![gen[r].p] = g] /\ gen' = [gen EXCEPT ![r].pc = "root"]
        /\ UNCHANGED <<run, srv, perf, cli, res, started, ended>>
    BY <1>1 DEF Wipe, GenStep, FilesOf, f
  <2>3. g \in Files /\ KeysIn(g) \subseteq KeysIn(f) \cup {0, r}
    BY <1>0 DEF Files, Cert, KeysIn, NoFiles, NoCert
  <2>4. ("root") \in GenPcs
    BY DEF GenPcs
  <2>5. Writes(r, g, "root")
    BY <1>0, <2>2, <2>3, <2>4 DEF Writes, f
  <2> QED BY <2>5
<1>2. CASE MakeRoot(r)
  <2> DEFINE g == [f EXCEPT !.root = r]
  <2>2. gen[r] # Null /\ pki' = [pki EXCEPT ![gen[r].p] = g] /\ gen' = [gen EXCEPT ![r].pc = IF IsDeep(r) THEN "intreq" ELSE "leafreq"]
        /\ UNCHANGED <<run, srv, perf, cli, res, started, ended>>
    BY <1>2 DEF MakeRoot, GenStep, FilesOf, f
  <2>3. g \in Files /\ KeysIn(g) \subseteq KeysIn(f) \cup {0, r}
    BY <1>0 DEF Files, Cert, KeysIn
  <2>4. (IF IsDeep(r) THEN "intreq" ELSE "leafreq") \in GenPcs
    BY DEF GenPcs
  <2>5. Writes(r, g, IF IsDeep(r) THEN "intreq" ELSE "leafreq")
    BY <1>0, <2>2, <2>3, <2>4 DEF Writes, f
  <2> QED BY <2>5
<1>3. CASE RequestInt(r)
  <2> DEFINE g == [f EXCEPT !.intreq = r]
  <2>2. gen[r] # Null /\ pki' = [pki EXCEPT ![gen[r].p] = g] /\ gen' = [gen EXCEPT ![r].pc = "int"]
        /\ UNCHANGED <<run, srv, perf, cli, res, started, ended>>
    BY <1>3 DEF RequestInt, GenStep, FilesOf, f
  <2>3. g \in Files /\ KeysIn(g) \subseteq KeysIn(f) \cup {0, r}
    BY <1>0 DEF Files, Cert, KeysIn
  <2>4. ("int") \in GenPcs
    BY DEF GenPcs
  <2>5. Writes(r, g, "int")
    BY <1>0, <2>2, <2>3, <2>4 DEF Writes, f
  <2> QED BY <2>5
<1>4. CASE IssueInt(r)
  <2> DEFINE g == [f EXCEPT !.int = [key |-> f.intreq, iss |-> f.root]]
  <2>2. CASE f.root # 0 /\ f.intreq # 0
    <3>1. pki' = [pki EXCEPT ![gen[r].p] = g] /\ gen' = [gen EXCEPT ![r].pc = "leafreq"]
          /\ UNCHANGED <<run, srv, perf, cli, res, started, ended>>
      BY <1>4, <2>2 DEF IssueInt, GenStep, FilesOf, f
    <3>2. g \in Files /\ KeysIn(g) \subseteq KeysIn(f) \cup {0, r} /\ "leafreq" \in GenPcs
      BY <1>0 DEF Files, Cert, KeysIn, GenPcs
    <3>3. Writes(r, g, "leafreq")
      BY <1>0, <3>1, <3>2 DEF Writes, f
    <3> QED BY <3>3
  <2>3. CASE ~(f.root # 0 /\ f.intreq # 0)
    <3>1. pki' = pki /\ gen' = [gen EXCEPT ![r].pc = "failed"]
          /\ UNCHANGED <<run, srv, perf, cli, res, started, ended>>
      BY <1>4, <2>3 DEF IssueInt, GenStep, FilesOf, f
    <3> QED BY <1>a, <3>1
  <2> QED BY <2>2, <2>3
<1>5. CASE RequestLeaf(r)
  <2> DEFINE g == [f EXCEPT !.leaf = r]
  <2>2. gen[r] # Null /\ pki' = [pki EXCEPT ![gen[r].p] = g] /\ gen' = [gen EXCEPT ![r].pc = "leaf"]
        /\ UNCHANGED <<run, srv, perf, cli, res, started, ended>>
    BY <1>5 DEF RequestLeaf, GenStep, FilesOf, f
  <2>3. g \in Files /\ KeysIn(g) \subseteq KeysIn(f) \cup {0, r}
    BY <1>0 DEF Files, Cert, KeysIn
  <2>4. ("leaf") \in GenPcs
    BY DEF GenPcs
  <2>5. Writes(r, g, "leaf")
    BY <1>0, <2>2, <2>3, <2>4 DEF Writes, f
  <2> QED BY <2>5
<1>6. CASE IssueLeaf(r)
  <2> DEFINE i == IF ~IsDeep(r) THEN f.root ELSE IF f.int.key = f.intreq THEN f.int.key ELSE 0
             g == [f EXCEPT !.crt = [key |-> f.leaf, iss |-> i]]
  <2>1. i \in Nat /\ i \in KeysIn(f) \cup {0}
    BY <1>0 DEF Files, Cert, KeysIn, NoCert
  <2>2. CASE f.leaf # 0 /\ i # 0
    <3>1. pki' = [pki EXCEPT ![gen[r].p] = g] /\ gen' = [gen EXCEPT ![r].pc = "serve"]
          /\ UNCHANGED <<run, srv, perf, cli, res, started, ended>>
      BY <1>6, <2>2 DEF IssueLeaf, GenStep, FilesOf, f
    <3> HIDE DEF i
    <3>2. g \in Files /\ KeysIn(g) \subseteq KeysIn(f) \cup {0, r} /\ "serve" \in GenPcs
      BY <1>0, <2>1 DEF Files, Cert, KeysIn, GenPcs
    <3>3. Writes(r, g, "serve")
      BY <1>0, <3>1, <3>2 DEF Writes, f
    <3> QED BY <3>3
  <2>3. CASE ~(f.leaf # 0 /\ i # 0)
    <3>1. pki' = pki /\ gen' = [gen EXCEPT ![r].pc = "failed"]
          /\ UNCHANGED <<run, srv, perf, cli, res, started, ended>>
      BY <1>6, <2>3 DEF IssueLeaf, GenStep, FilesOf, f
    <3> QED BY <1>a, <3>1
  <2> QED BY <2>2, <2>3
<1>7. CASE WriteServed(r)
  <2> DEFINE c == IF IsDeep(r) THEN f.int ELSE NoCert
             g == [f EXCEPT !.served = c]
  <2>1. c \in Cert /\ c.key \in KeysIn(f) \cup {0} /\ c.iss \in KeysIn(f) \cup {0}
    BY <1>0 DEF Files, Cert, KeysIn, NoCert
  <2>2. CASE IsDeep(r) => f.int # NoCert
    <3>1. pki' = [pki EXCEPT ![gen[r].p] = g] /\ gen' = [gen EXCEPT ![r].pc = "verify"]
          /\ UNCHANGED <<run, srv, perf, cli, res, started, ended>>
      BY <1>7, <2>2 DEF WriteServed, GenStep, FilesOf, f
    <3> HIDE DEF c
    <3>2. g \in Files /\ KeysIn(g) \subseteq KeysIn(f) \cup {0, r} /\ "verify" \in GenPcs
      BY <1>0, <2>1 DEF Files, Cert, KeysIn, GenPcs
    <3>3. Writes(r, g, "verify")
      BY <1>0, <3>1, <3>2 DEF Writes, f
    <3> QED BY <3>3
  <2>3. CASE ~(IsDeep(r) => f.int # NoCert)
    <3>1. pki' = pki /\ gen' = [gen EXCEPT ![r].pc = "failed"]
          /\ UNCHANGED <<run, srv, perf, cli, res, started, ended>>
      BY <1>7, <2>3 DEF WriteServed, GenStep, FilesOf, f
    <3> QED BY <1>a, <3>1
  <2> QED BY <2>2, <2>3
<1>8. CASE VerifyChain(r)
  <2> DEFINE g == f
  <2>2. CASE Chains(f.root, f.served, f.crt)
    <3>1. pki' = [pki EXCEPT ![gen[r].p] = g] /\ gen' = [gen EXCEPT ![r].pc = "chain"]
          /\ UNCHANGED <<run, srv, perf, cli, res, started, ended>>
      BY <1>8, <2>2 DEF VerifyChain, GenStep, FilesOf, f
    <3>2. g \in Files /\ KeysIn(g) \subseteq KeysIn(f) \cup {0, r} /\ "chain" \in GenPcs
      BY <1>0 DEF Files, Cert, KeysIn, GenPcs
    <3>3. Writes(r, g, "chain")
      BY <1>0, <3>1, <3>2 DEF Writes, f
    <3> QED BY <3>3
  <2>3. CASE ~(Chains(f.root, f.served, f.crt))
    <3>1. pki' = pki /\ gen' = [gen EXCEPT ![r].pc = "failed"]
          /\ UNCHANGED <<run, srv, perf, cli, res, started, ended>>
      BY <1>8, <2>3 DEF VerifyChain, GenStep, FilesOf, f
    <3> QED BY <1>a, <3>1
  <2> QED BY <2>2, <2>3
<1>9. CASE OpenChain(r)
  <2> DEFINE g == [f EXCEPT !.chain = r, !.whole = FALSE]
  <2>2. CASE f.root # 0 /\ f.crt # NoCert /\ (IsDeep(r) => f.int # NoCert)
    <3>1. pki' = [pki EXCEPT ![gen[r].p] = g] /\ gen' = [gen EXCEPT ![r].pc = "fill"]
          /\ UNCHANGED <<run, srv, perf, cli, res, started, ended>>
      BY <1>9, <2>2 DEF OpenChain, GenStep, FilesOf, f
    <3>2. g \in Files /\ KeysIn(g) \subseteq KeysIn(f) \cup {0, r} /\ "fill" \in GenPcs
      BY <1>0 DEF Files, Cert, KeysIn, GenPcs
    <3>3. Writes(r, g, "fill")
      BY <1>0, <3>1, <3>2 DEF Writes, f
    <3> QED BY <3>3
  <2>3. CASE ~(f.root # 0 /\ f.crt # NoCert /\ (IsDeep(r) => f.int # NoCert))
    <3>1. pki' = pki /\ gen' = [gen EXCEPT ![r].pc = "failed"]
          /\ UNCHANGED <<run, srv, perf, cli, res, started, ended>>
      BY <1>9, <2>3 DEF OpenChain, GenStep, FilesOf, f
    <3> QED BY <1>a, <3>1
  <2> QED BY <2>2, <2>3
<1>10. CASE FillChain(r)
  <2> DEFINE w == f.whole \/ f.chain = r
             g == [f EXCEPT !.whole = w]
  <2>1. w \in BOOLEAN
    BY <1>0 DEF Files, Cert, KeysIn, NoCert
  <2>2. gen[r] # Null /\ pki' = [pki EXCEPT ![gen[r].p] = g] /\ gen' = [gen EXCEPT ![r].pc = "meta"]
        /\ UNCHANGED <<run, srv, perf, cli, res, started, ended>>
    BY <1>10 DEF FillChain, GenStep, FilesOf, f
  <2> HIDE DEF w
  <2>3. g \in Files /\ KeysIn(g) \subseteq KeysIn(f) \cup {0, r}
    BY <1>0, <2>1 DEF Files, Cert, KeysIn
  <2>4. ("meta") \in GenPcs
    BY DEF GenPcs
  <2>5. Writes(r, g, "meta")
    BY <1>0, <2>2, <2>3, <2>4 DEF Writes, f
  <2> QED BY <2>5
<1>11. CASE WriteMeta(r)
  <2> DEFINE g == [f EXCEPT !.meta = TRUE]
  <2>2. gen[r] # Null /\ pki' = [pki EXCEPT ![gen[r].p] = g] /\ gen' = [gen EXCEPT ![r].pc = "done"]
        /\ UNCHANGED <<run, srv, perf, cli, res, started, ended>>
    BY <1>11 DEF WriteMeta, GenStep, FilesOf, f
  <2>3. g \in Files /\ KeysIn(g) \subseteq KeysIn(f) \cup {0, r}
    BY <1>0 DEF Files, Cert, KeysIn
  <2>4. ("done") \in GenPcs
    BY DEF GenPcs
  <2>5. Writes(r, g, "done")
    BY <1>0, <2>2, <2>3, <2>4 DEF Writes, f
  <2> QED BY <2>5
<1> QED BY <1>1, <1>2, <1>3, <1>4, <1>5, <1>6, <1>7, <1>8, <1>9, <1>10, <1>11 DEF Generate

-----------------------------------------------------------------------------
(* Records keep their types under the updates the actions make.            *)
LEMMA Updates ==
  /\ \A g \in Gen, x \in GenPcs : [g EXCEPT !.pc = x] \in Gen
  /\ \A s \in Server, c \in Cert, d \in Cert : [s EXCEPT !.st = "loaded", !.served = c, !.crt = d] \in Server
  /\ \A s \in Server : [s EXCEPT !.st = "bound"] \in Server
  /\ \A c \in Client : [c EXCEPT !.st = "exited"] \in Client
  /\ \A c \in Client : [c EXCEPT !.st = "exited", !.code = 1] \in Client
  /\ \A c \in Client, k \in Nat : [c EXCEPT !.st = "running", !.ca = k] \in Client
  /\ \A s \in Result : [s EXCEPT !.meta = "empty"] \in Result
  /\ \A s \in Result, x \in {"started", "completed", "failed"}, k \in Nat :
       [s EXCEPT !.meta = "whole", !.status = x, !.chain = k] \in Result
  /\ \A s \in Result, y \in Seq(Row \cup {Null}) : [s EXCEPT !.rows = y] \in Result
  /\ \A s \in Script, x \in {"idle", "gen", "spawn"} \cup Serving \cup Ending : [s EXCEPT !.pc = x] \in Script
  /\ \A s \in Script, x \in {"started", "completed", "failed"} : [s EXCEPT !.pc = "stop", !.status = x] \in Script
<1>1. \A g \in Gen, x \in GenPcs : [g EXCEPT !.pc = x] \in Gen
  BY DEF Gen
<1>2. /\ \A s \in Server, c \in Cert, d \in Cert : [s EXCEPT !.st = "loaded", !.served = c, !.crt = d] \in Server
      /\ \A s \in Server : [s EXCEPT !.st = "bound"] \in Server
  BY DEF Server
<1>3. /\ \A c \in Client : [c EXCEPT !.st = "exited"] \in Client
      /\ \A c \in Client : [c EXCEPT !.st = "exited", !.code = 1] \in Client
      /\ \A c \in Client, k \in Nat : [c EXCEPT !.st = "running", !.ca = k] \in Client
  BY DEF Client
<1>4. \A s \in Result : [s EXCEPT !.meta = "empty"] \in Result
  BY DEF Result
<1>5. \A s \in Result, x \in {"started", "completed", "failed"}, k \in Nat :
        [s EXCEPT !.meta = "whole", !.status = x, !.chain = k] \in Result
  BY DEF Result
<1>6. \A s \in Result, y \in Seq(Row \cup {Null}) : [s EXCEPT !.rows = y] \in Result
  BY DEF Result
<1>7. /\ \A s \in Script, x \in {"idle", "gen", "spawn"} \cup Serving \cup Ending : [s EXCEPT !.pc = x] \in Script
      /\ \A s \in Script, x \in {"started", "completed", "failed"} : [s EXCEPT !.pc = "stop", !.status = x] \in Script
  BY DEF Script, Ending
<1> QED BY <1>1, <1>2, <1>3, <1>4, <1>5, <1>6, <1>7

(* The row that a handshake adds.                                          *)
RowOf(r) ==
  LET peers == {q \in Runs : Bound(q) /\ Accepts(r, q)} IN
  IF peers = {} THEN Null
  ELSE LET q == CHOOSE q \in peers : TRUE IN
       [p |-> srv[q].p, group |-> srv[q].group, key |-> srv[q].crt.key]

(* It is Null or tells of a server that the client accepts.                *)
LEMMA RowIsAccepted ==
  ASSUME Types, NEW r \in Runs
  PROVE  \/ RowOf(r) = Null
         \/ \E q \in Runs : /\ srv[q] \in Server /\ srv[q] # Null /\ Accepts(r, q)
                            /\ RowOf(r) = [p |-> srv[q].p, group |-> srv[q].group, key |-> srv[q].crt.key]
<1> DEFINE peers == {q \in Runs : Bound(q) /\ Accepts(r, q)}
<1>1. CASE peers = {}
  BY <1>1 DEF RowOf
<1>2. CASE peers # {}
  <2>1. PICK q \in peers : q = (CHOOSE x \in peers : TRUE)
    BY <1>2
  <2>2. q \in Runs /\ Bound(q) /\ Accepts(r, q)
    BY <2>1
  <2>3. srv[q] \in Server /\ srv[q] # Null
    BY <2>2 DEF Types, Bound
  <2>4. RowOf(r) = [p |-> srv[q].p, group |-> srv[q].group, key |-> srv[q].crt.key]
    BY <1>2, <2>1 DEF RowOf
  <2> QED BY <2>2, <2>3, <2>4
<1> QED BY <1>1, <1>2

(* A handshake leaves a row of the right type.                             *)
LEMMA RowTyped == ASSUME Types, NEW r \in Runs PROVE RowOf(r) \in Row \cup {Null}
<1>1. \A s \in Server : [p |-> s.p, group |-> s.group, key |-> s.crt.key] \in Row
  BY DEF Server, Row, Cert
<1> QED BY <1>1, RowIsAccepted

-----------------------------------------------------------------------------
(* Type correctness, one step per action.                                  *)
LEMMA TypesStart == ASSUME Init PROVE Types
<1>1. NoFiles \in Files
  BY DEF NoFiles, NoCert, Files, Cert
<1>2. NoRun \in Script
  BY DEF NoRun, Script
<1> QED BY <1>1, <1>2, LabAssumption DEF Init, Types

(* Every step keeps the types.                                             *)
LEMMA TypesStep == ASSUME Types, InOrder, Next PROVE Types'
<1> USE LabAssumption
<1>a. started \in Nat /\ ended \in Nat /\ run \in Script
  BY DEF Types
<1>b. NoRun \in Script
  BY DEF NoRun, Script
<1>1. ASSUME NEW p \in Profiles, RunGenChain(p) PROVE Types'
  <2>1. [p |-> p, pc |-> "wipe"] \in Gen
    BY DEF Gen, GenPcs
  <2>2. run' \in Script
    BY <1>1 DEF RunGenChain, Begin, NoRun, Script
  <2> QED BY <1>a, <1>1, <2>1, <2>2 DEF RunGenChain, StartGen, Types, Runs
<1>2. ASSUME NEW s \in Scenarios, RunScenario(s) PROVE Types'
  <2>1. [p |-> ChainOf[s], pc |-> "wipe"] \in Gen
    BY DEF Gen, GenPcs
  <2>2. run' \in Script
    BY <1>2 DEF RunScenario, Begin, NoRun, Script
  <2>3. started' \in 0..MaxRuns
    BY <1>a, <1>2 DEF RunScenario
  <2>4. gen' = gen \/ gen' = [gen EXCEPT ![started + 1] = [p |-> ChainOf[s], pc |-> "wipe"]]
    BY <1>2 DEF RunScenario, StartGen
  <2>5. gen' \in [Runs -> Gen \cup {Null}]
    BY <2>1, <2>4 DEF Types
  <2> QED BY <1>2, <2>2, <2>3, <2>5 DEF RunScenario, Types
<1>3. ASSUME GenOver PROVE Types'
  <2>1. run' \in Script
    <3>1. run' = NoRun \/ run' = [run EXCEPT !.pc = "spawn"]
      BY <1>3 DEF GenOver, Go
    <3>2. [run EXCEPT !.pc = "spawn"] \in Script
      BY <1>a, Updates
    <3> QED BY <1>b, <3>1, <3>2
  <2> QED BY <1>3, <2>1 DEF GenOver, Types
<1>4. ASSUME Spawn PROVE Types'
  <2>1. run.scn \in Scenarios /\ run.p = ChainOf[run.scn] /\ started \in Runs
    BY <1>4 DEF InOrder, Spawn, Serving, Ending
  <2>2. [scn |-> run.scn, rows |-> <<>>, status |-> "started", meta |-> "none", chain |-> 0] \in Result
    BY <2>1 DEF Result
  <2>3. [st |-> "new", p |-> run.p, group |-> GroupOf[run.scn], served |-> NoCert, crt |-> NoCert] \in Server
    BY <2>1 DEF Server, Groups, NoCert, Cert
  <2>4. run' \in Script
    BY <1>a, <1>4, Updates DEF Spawn, Go, Serving
  <2> QED BY <1>4, <2>1, <2>2, <2>3, <2>4 DEF Spawn, Types
<1>5. ASSUME NEW wanted \in BOOLEAN, AttachPerf(wanted) PROVE Types'
  <2>1. run' \in Script
    BY <1>a, <1>5, Updates DEF AttachPerf, Go, Serving
  <2>2. (wanted /\ srv[started] # Null) \in BOOLEAN
    OBVIOUS
  <2> QED BY <1>5, <2>1, <2>2 DEF AttachPerf, Types
<1>6. ASSUME StartClient PROVE Types'
  <2>1. run' \in Script
    BY <1>a, <1>6, Updates DEF StartClient, Go, Serving
  <2>2. [st |-> "new", ca |-> 0, code |-> 0] \in Client
    BY DEF Client
  <2> QED BY <1>6, <2>1, <2>2 DEF StartClient, Types
<1>7. ASSUME ClientOver PROVE Types'
  <2>1. run' \in Script
    BY <1>a, <1>7, Updates DEF ClientOver
  <2> QED BY <1>7, <2>1 DEF ClientOver, Types
<1>8. ASSUME StopServer PROVE Types'
  <2>1. run' \in Script
    BY <1>a, <1>8, Updates DEF StopServer, Go, Ending
  <2> QED BY <1>8, <2>1 DEF StopServer, Types
<1>9. ASSUME WaitPerf PROVE Types'
  <2>1. run' \in Script
    BY <1>a, <1>9, Updates DEF WaitPerf, Go, Ending
  <2> QED BY <1>9, <2>1 DEF WaitPerf, Types
<1>10. ASSUME OpenResult PROVE Types'
  <2>1. run' \in Script
    BY <1>a, <1>10, Updates DEF OpenResult, Go, Ending
  <2>2. started \in Runs /\ res[started] \in Result
    BY <1>10 DEF InOrder, OpenResult, Ending, Serving
  <2>3. [res[started] EXCEPT !.meta = "empty"] \in Result
    BY <2>2, Updates
  <2> QED BY <1>10, <2>1, <2>2, <2>3 DEF OpenResult, Types
<1>11. ASSUME WriteResult PROVE Types'
  <2>1. started \in Runs /\ res[started] \in Result /\ run.p \in Profiles
    BY <1>11 DEF InOrder, WriteResult, Ending, Serving
  <2> DEFINE f == pki[run.p]
             k == IF f.whole THEN f.chain ELSE 0
  <2>2. k \in Nat /\ run.status \in {"started", "completed", "failed"}
    BY <1>a, <2>1 DEF Types, Files, Script
  <2>3. res' = IF f.chain = 0 THEN res
               ELSE [res EXCEPT ![started].meta = "whole", ![started].status = run.status, ![started].chain = k]
    BY <1>11 DEF WriteResult
  <2> HIDE DEF k, f
  <2>4. [res[started] EXCEPT !.meta = "whole", !.status = run.status, !.chain = k] \in Result
    BY <2>1, <2>2, Updates
  <2>5. res' \in [Runs -> Result \cup {Null}]
    BY <2>1, <2>3, <2>4 DEF Types
  <2> QED BY <1>11, <1>b, <2>5 DEF WriteResult, Types
<1>12. ASSUME NEW r \in Runs, Generate(r) PROVE Types'
  <2>1. PICK files, next : Writes(r, files, next)
    BY <1>12, GeneratorWrites
  <2>2. [gen[r] EXCEPT !.pc = next] \in Gen
    BY <2>1, Updates DEF Writes
  <2> QED BY <2>1, <2>2 DEF Writes, Types
<1>13. ASSUME NEW r \in Runs, LoadServer(r) PROVE Types'
  <2>1. srv[r] \in Server /\ pki[srv[r].p] \in Files
    BY <1>13 DEF LoadServer, Types, Server
  <2> DEFINE f == pki[srv[r].p]
             s == [srv[r] EXCEPT !.st = "loaded", !.served = f.served, !.crt = f.crt]
  <2>2. f.served \in Cert /\ f.crt \in Cert
    BY <2>1, SMTT(60) DEF Files
  <2>3. s \in Server
    BY <2>1, <2>2, Updates
  <2>4. srv' = [srv EXCEPT ![r] = Null] \/ srv' = [srv EXCEPT ![r] = s]
    BY <1>13 DEF LoadServer
  <2> QED BY <1>13, <2>3, <2>4 DEF LoadServer, Types
<1>14. ASSUME NEW r \in Runs, BindServer(r) PROVE Types'
  <2>1. [srv[r] EXCEPT !.st = "bound"] \in Server
    BY <1>14, Updates DEF BindServer, Types
  <2>2. srv' = [srv EXCEPT ![r] = Null] \/ srv' = [srv EXCEPT ![r] = [srv[r] EXCEPT !.st = "bound"]]
    BY <1>14 DEF BindServer
  <2> QED BY <1>14, <2>1, <2>2 DEF BindServer, Types
<1>15. ASSUME NEW r \in Runs, PerfExit(r) PROVE Types'
  BY <1>15 DEF PerfExit, Types
<1>16. ASSUME NEW r \in Runs, LoadClient(r) PROVE Types'
  <2>1. cli[r] \in Client /\ res[r] \in Result
    BY <1>16 DEF LoadClient, ClientIn, Types, InOrder
  <2>2. ChainOf[res[r].scn] \in Profiles
    BY <2>1 DEF Result
  <2> DEFINE ca == pki[ChainOf[res[r].scn]].root
  <2>3. ca \in Nat
    BY <2>2 DEF Types, Files
  <2>4. \/ cli' = [cli EXCEPT ![r] = [cli[r] EXCEPT !.st = "exited", !.code = 1]]
        \/ cli' = [cli EXCEPT ![r] = [cli[r] EXCEPT !.st = "running", !.ca = ca]]
    BY <1>16 DEF LoadClient
  <2> HIDE DEF ca
  <2>5. /\ [cli[r] EXCEPT !.st = "exited", !.code = 1] \in Client
        /\ [cli[r] EXCEPT !.st = "running", !.ca = ca] \in Client
    BY <2>1, <2>3, Updates
  <2>6. cli' \in [Runs -> Client \cup {Null}]
    BY <2>4, <2>5 DEF Types
  <2> QED BY <1>16, <2>6 DEF LoadClient, Types
<1>17. ASSUME NEW r \in Runs, Handshake(r) PROVE Types'
  <2>1. res[r] \in Result
    BY <1>17 DEF Handshake, ClientIn, InOrder
  <2>2. res' = [res EXCEPT ![r].rows = Append(@, RowOf(r))]
    BY <1>17 DEF Handshake, RowOf
  <2>3. res[r].rows \in Seq(Row \cup {Null})
    BY <2>1 DEF Result
  <2>4. Append(res[r].rows, RowOf(r)) \in Seq(Row \cup {Null})
    BY <2>3, RowTyped, AppendProperties
  <2>5. [res[r] EXCEPT !.rows = Append(res[r].rows, RowOf(r))] \in Result
    BY <2>1, <2>4, Updates
  <2> QED BY <1>17, <2>2, <2>5, ZenonT(60) DEF Handshake, Types
<1>18. ASSUME NEW r \in Runs, ClientExit(r) PROVE Types'
  <2>1. [cli[r] EXCEPT !.st = "exited"] \in Client
    BY <1>18, Updates DEF ClientExit, ClientIn, Types
  <2> QED BY <1>18, <2>1 DEF ClientExit, Types
<1>19. ASSUME NEW r \in Runs, ClientKilled(r) PROVE Types'
  <2>1. [cli[r] EXCEPT !.st = "exited", !.code = 1] \in Client
    BY <1>19, Updates DEF ClientKilled, ClientIn, Types
  <2> QED BY <1>a, <1>19, <2>1 DEF ClientKilled, EndsBy, Types
<1>20. ASSUME Interrupt PROVE Types'
  <2>1. ended' \in 0..MaxEnds
    BY <1>a, <1>20 DEF Interrupt, EndsBy, Types
  <2>2. perf' \in [Runs -> BOOLEAN]
    BY <1>20 DEF Interrupt, Types
  <2>3. gen' \in [Runs -> Gen \cup {Null}] /\ srv' \in [Runs -> Server \cup {Null}]
    BY <1>20 DEF Interrupt, Types
  <2>4. cli' \in [Runs -> Client \cup {Null}]
    BY <1>20 DEF Interrupt, Types
  <2> QED BY <1>b, <1>20, <2>1, <2>2, <2>3, <2>4 DEF Interrupt, Types
<1>21. ASSUME Kill PROVE Types'
  <2>1. ended' \in 0..MaxEnds
    BY <1>a, <1>21 DEF Kill, EndsBy, Types
  <2>2. gen' \in [Runs -> Gen \cup {Null}]
    BY <1>21 DEF Kill, Types
  <2> QED BY <1>b, <1>21, <2>1, <2>2 DEF Kill, Types
<1>22. ASSUME PowerLoss PROVE Types'
  BY <1>a, <1>b, <1>22 DEF PowerLoss, EndsBy, Types
<1> QED
  BY <1>1, <1>2, <1>3, <1>4, <1>5, <1>6, <1>7, <1>8, <1>9, <1>10, <1>11, <1>12, <1>13, <1>14, <1>15,
     <1>16, <1>17, <1>18, <1>19, <1>20, <1>21, <1>22 DEF Next, Runner, Children

(* The script keeps its order: nothing of a later script exists yet, and   *)
(* what the script waits for it has started.                               *)
LEMMA InOrderStep == ASSUME Types, Types', InOrder, Next PROVE InOrder'
<1> USE LabAssumption DEF Serving, Ending
<1>a. started \in 0..MaxRuns /\ Runs = 1..MaxRuns /\ MaxRuns \in Nat
  BY DEF Types, Runs
<1>b. \A x : /\ [run EXCEPT !.pc = x].pc = x /\ [run EXCEPT !.pc = x].scn = run.scn
             /\ [run EXCEPT !.pc = x].p = run.p
  BY DEF Types, Script
<1>f. /\ gen \in [Runs -> Gen \cup {Null}] /\ srv \in [Runs -> Server \cup {Null}]
      /\ cli \in [Runs -> Client \cup {Null}] /\ res \in [Runs -> Result \cup {Null}]
  BY DEF Types
<1>g. ASSUME NEW r \in Runs, NEW d, res' = [res EXCEPT ![r] = d]
      PROVE  res'[r] = d /\ \A q \in Runs \ {r} : res'[q] = res[q]
  BY <1>f, <1>g
<1>c. ASSUME NEW r \in Runs, cli[r] # Null, UNCHANGED <<gen, run, srv, res, started>>,
             \A q \in Runs : cli'[q] = cli[q] \/ (q = r /\ cli'[q] \in Client)
      PROVE  InOrder'
  BY <1>a, <1>c DEF InOrder, Types
<1>d. ASSUME NEW r \in Runs, res[r] \in Result, r <= started, UNCHANGED <<gen, srv, cli, started>>,
             run.pc \in {"gen", "spawn"} => r # started,
             \A q \in Runs : res'[q] = res[q] \/ (q = r /\ res'[q] \in Result /\ res'[q].scn = res[q].scn),
             \/ run' = run
             \/ run'.pc = "idle"
             \/ run.pc \in Ending /\ run'.pc \in Ending /\ run'.scn = run.scn /\ run'.p = run.p
      PROVE  InOrder'
  <2>1. \A q \in Runs : q > started' => gen'[q] = Null /\ srv'[q] = Null /\ cli'[q] = Null /\ res'[q] = Null
    BY <1>a, <1>d DEF InOrder
  <2>2. \A q \in Runs : cli'[q] # Null => res'[q] \in Result
    BY <1>d DEF InOrder
  <2>3. CASE run' = run
    <3>1. run.pc # "idle" => started \in Runs
      BY DEF InOrder
    <3>2. run.pc \in {"gen", "spawn"} => res'[started] = Null
      BY <1>d, <3>1 DEF InOrder
    <3>3. run.pc \in Serving \cup Ending => res'[started] \in Result /\ res'[started].scn = run.scn
      BY <1>d, <3>1 DEF InOrder
    <3> QED BY <1>d, <2>1, <2>2, <2>3, <3>2, <3>3 DEF InOrder
  <2>4. CASE run'.pc = "idle"
    BY <2>1, <2>2, <2>4 DEF InOrder
  <2>5. CASE run.pc \in Ending /\ run'.pc \in Ending /\ run'.scn = run.scn /\ run'.p = run.p
    BY <1>d, <2>1, <2>2, <2>5 DEF InOrder
  <2> QED BY <1>d, <2>3, <2>4, <2>5
<1>e. ASSUME NEW g, NEW q, q = started + 1, started < MaxRuns, gen' = [gen EXCEPT ![q] = g] \/ gen' = gen
      PROVE  /\ q \in Runs
             /\ \A r \in Runs : r > q => gen'[r] = Null
             /\ \A r \in Runs : r > q => srv[r] = Null /\ cli[r] = Null /\ res[r] = Null
             /\ srv[q] = Null /\ cli[q] = Null /\ res[q] = Null
  <2>1. q \in Runs /\ q > started
    BY <1>a, <1>e
  <2>2. \A r \in Runs : r > q => r > started /\ r # q
    BY <1>a, <2>1
  <2>3. \A r \in Runs : r > started => gen[r] = Null /\ srv[r] = Null /\ cli[r] = Null /\ res[r] = Null
    BY DEF InOrder
  <2>4. \A r \in Runs : r # q => gen'[r] = gen[r]
    BY <1>e, <1>f, <2>1
  <2> QED BY <2>1, <2>2, <2>3, <2>4
<1>1. ASSUME NEW p \in Profiles, RunGenChain(p) PROVE InOrder'
  <2> DEFINE g == [p |-> p, pc |-> "wipe"]
             q == started + 1
  <2>1. g \in Gen
    BY DEF Gen, GenPcs
  <2>2. gen' = [gen EXCEPT ![q] = g]
    BY <1>1 DEF RunGenChain, StartGen
  <2>3. run'.pc = "gen" /\ run'.scn = Null /\ run'.p = p /\ started' = q /\ UNCHANGED <<srv, cli, res>>
    BY <1>1 DEF RunGenChain, Begin, NoRun
  <2>5. started < MaxRuns
    BY <1>1 DEF RunGenChain
  <2> HIDE DEF g, q
  <2>6. /\ q \in Runs
        /\ \A r \in Runs : r > q => gen'[r] = Null
        /\ \A r \in Runs : r > q => srv[r] = Null /\ cli[r] = Null /\ res[r] = Null
        /\ srv[q] = Null /\ cli[q] = Null /\ res[q] = Null
    BY <2>2, <2>5, <1>e DEF q
  <2>7. gen'[q] = g
    BY <2>2, <2>6 DEF Types
  <2> QED BY <2>1, <2>3, <2>6, <2>7 DEF InOrder
<1>2. ASSUME NEW s \in Scenarios, RunScenario(s) PROVE InOrder'
  <2> DEFINE g == [p |-> ChainOf[s], pc |-> "wipe"]
             q == started + 1
  <2>1. g \in Gen /\ ChainOf[s] \in Profiles
    BY DEF Gen, GenPcs
  <2>2. \/ gen' = [gen EXCEPT ![q] = g] /\ run'.pc = "gen"
        \/ gen' = gen /\ run'.pc = "spawn"
    BY <1>2 DEF RunScenario, StartGen, Begin, NoRun
  <2>3. run'.scn = s /\ run'.p = ChainOf[s] /\ started' = q /\ UNCHANGED <<srv, cli, res>>
    BY <1>2 DEF RunScenario, Begin, NoRun
  <2>5. started < MaxRuns
    BY <1>2 DEF RunScenario
  <2> HIDE DEF g, q
  <2>6. /\ q \in Runs
        /\ \A r \in Runs : r > q => gen'[r] = Null
        /\ \A r \in Runs : r > q => srv[r] = Null /\ cli[r] = Null /\ res[r] = Null
        /\ srv[q] = Null /\ cli[q] = Null /\ res[q] = Null
    BY <2>2, <2>5, <1>e DEF q
  <2>7. run'.pc = "gen" => gen'[q] = g
    BY <2>2, <2>6 DEF Types
  <2> QED BY <2>1, <2>2, <2>3, <2>6, <2>7 DEF InOrder
<1>3. ASSUME GenOver PROVE InOrder'
  <2>1. \/ run'.pc = "idle"
        \/ run'.pc = "spawn" /\ run'.scn = run.scn /\ run'.p = run.p /\ run.scn # Null
    <3>1. run' = NoRun \/ (run' = [run EXCEPT !.pc = "spawn"] /\ run.scn # Null)
      BY <1>3 DEF GenOver, Go
    <3>2. NoRun.pc = "idle"
      BY DEF NoRun
    <3>3. CASE run' = NoRun
      BY <3>2, <3>3
    <3>4. CASE run' = [run EXCEPT !.pc = "spawn"] /\ run.scn # Null
      BY <1>b, <3>4
    <3> QED BY <3>1, <3>3, <3>4
  <2>2. run.pc = "gen" /\ UNCHANGED <<gen, srv, cli, res, started>>
    BY <1>3 DEF GenOver
  <2>3. run.scn \in Scenarios \cup {Null}
    BY DEF Types, Script
  <2> QED BY <2>1, <2>2, <2>3 DEF InOrder
<1>4. ASSUME Spawn PROVE InOrder'
  <2> DEFINE d == [scn |-> run.scn, rows |-> <<>>, status |-> "started", meta |-> "none", chain |-> 0]
             s == [st |-> "new", p |-> run.p, group |-> GroupOf[run.scn], served |-> NoCert, crt |-> NoCert]
  <2>1. run.pc = "spawn" /\ run'.pc = "perf" /\ run'.scn = run.scn /\ run'.p = run.p
        /\ UNCHANGED <<gen, cli, started>>
    BY <1>b, <1>4 DEF Spawn, Go
  <2>2. res' = [res EXCEPT ![started] = d] /\ srv' = [srv EXCEPT ![started] = s]
    BY <1>4 DEF Spawn
  <2>3. started \in Runs /\ run.scn \in Scenarios /\ run.p = ChainOf[run.scn] /\ cli[started] = Null
    BY <2>1 DEF InOrder
  <2>4. d.scn = run.scn /\ d \in Result
    BY <2>3 DEF Result
  <2> HIDE DEF d, s
  <2>5. /\ \A q \in Runs \ {started} : res'[q] = res[q] /\ srv'[q] = srv[q]
        /\ res'[started] = d
    BY <2>2, <2>3 DEF Types
  <2>6. \A q \in Runs : q > started' => gen'[q] = Null /\ srv'[q] = Null /\ cli'[q] = Null /\ res'[q] = Null
    BY <1>a, <2>1, <2>3, <2>5 DEF InOrder
  <2>7. \A q \in Runs : cli'[q] # Null => res'[q] \in Result
    BY <2>1, <2>3, <2>5 DEF InOrder
  <2> QED BY <2>1, <2>3, <2>4, <2>5, <2>6, <2>7 DEF InOrder
<1>5. ASSUME NEW wanted \in BOOLEAN, AttachPerf(wanted) PROVE InOrder'
  BY <1>a, <1>5 DEF AttachPerf, Go, InOrder, Types
<1>6. ASSUME StartClient PROVE InOrder'
  <2> DEFINE c == [st |-> "new", ca |-> 0, code |-> 0]
  <2>1. run.pc = "client" /\ run'.pc = "wait" /\ run'.scn = run.scn /\ run'.p = run.p
        /\ UNCHANGED <<gen, srv, res, started>>
    BY <1>b, <1>6 DEF StartClient, Go
  <2>2. started \in Runs /\ res[started] \in Result
    BY <2>1 DEF InOrder
  <2>3. c \in Client
    BY DEF Client
  <2>4. cli' = [cli EXCEPT ![started] = c]
    BY <1>6 DEF StartClient
  <2> HIDE DEF c
  <2>5. cli'[started] = c /\ \A q \in Runs \ {started} : cli'[q] = cli[q]
    BY <2>2, <2>4 DEF Types
  <2>6. \A q \in Runs : q > started' => gen'[q] = Null /\ srv'[q] = Null /\ cli'[q] = Null /\ res'[q] = Null
    BY <1>a, <2>1, <2>2, <2>5 DEF InOrder
  <2>7. \A q \in Runs : cli'[q] # Null => res'[q] \in Result
    BY <2>1, <2>2, <2>5 DEF InOrder
  <2> QED BY <2>1, <2>2, <2>3, <2>5, <2>6, <2>7 DEF InOrder
<1>7. ASSUME ClientOver PROVE InOrder'
  BY <1>a, <1>7 DEF ClientOver, InOrder, Types
<1>8. ASSUME StopServer PROVE InOrder'
  BY <1>a, <1>8 DEF StopServer, Go, InOrder, Types
<1>9. ASSUME WaitPerf PROVE InOrder'
  BY <1>a, <1>9 DEF WaitPerf, Go, InOrder, Types
<1>10. ASSUME OpenResult PROVE InOrder'
  <2>1. run.pc = "open" /\ run'.pc = "write" /\ run'.scn = run.scn /\ run'.p = run.p
    BY <1>b, <1>10 DEF OpenResult, Go
  <2>2. started \in Runs /\ res[started] \in Result /\ started <= started
    BY <1>a, <2>1 DEF InOrder
  <2> DEFINE d == [res[started] EXCEPT !.meta = "empty"]
  <2>a. res' = [res EXCEPT ![started] = d]
    BY <1>10 DEF OpenResult
  <2>b. d \in Result /\ d.scn = res[started].scn
    BY <2>2 DEF Result
  <2> HIDE DEF d
  <2>c. res'[started] = d /\ \A q \in Runs \ {started} : res'[q] = res[q]
    BY <1>g, <2>2, <2>a
  <2>4. \A q \in Runs : res'[q] = res[q] \/ (q = started /\ res'[q] \in Result /\ res'[q].scn = res[q].scn)
    BY <2>b, <2>c
  <2> QED BY <1>10, <1>d, <2>1, <2>2, <2>4 DEF OpenResult
<1>11. ASSUME WriteResult PROVE InOrder'
  <2>1. run.pc = "write" /\ run'.pc = "idle"
    BY <1>11 DEF WriteResult, NoRun
  <2>2. started \in Runs /\ res[started] \in Result /\ started <= started
    BY <1>a, <2>1 DEF InOrder
  <2> DEFINE k == IF pki[run.p].whole THEN pki[run.p].chain ELSE 0
             d == [res[started] EXCEPT !.meta = "whole", !.status = run.status, !.chain = k]
  <2>3. res' = res \/ res' = [res EXCEPT ![started] = d]
    BY <1>11 DEF WriteResult
  <2>4. d.scn = res[started].scn
    BY <2>2 DEF Result
  <2> HIDE DEF d
  <2>5. \A q \in Runs : res'[q] = res[q] \/ (q = started /\ res'[q] = d)
    <3>1. CASE res' = res
      BY <3>1
    <3>2. CASE res' = [res EXCEPT ![started] = d]
      BY <1>g, <2>2, <3>2
    <3> QED BY <2>3, <3>1, <3>2
  <2>6. res'[started] \in Result
    <3>1. run.status \in {"started", "completed", "failed"} /\ k \in Nat
      BY <2>1, SMTT(60) DEF Types, Script, InOrder, Files
    <3>2. d \in Result
      BY <2>2, <3>1, Updates DEF d
    <3> QED BY <2>2, <2>5, <3>2
  <2>7. UNCHANGED <<gen, srv, cli, started>>
    BY <1>11 DEF WriteResult
  <2>8. \A q \in Runs : res'[q] = res[q] \/ (q = started /\ res'[q] \in Result /\ res'[q].scn = res[q].scn)
    BY <2>4, <2>5, <2>6
  <2> QED BY <1>d, <2>1, <2>2, <2>7, <2>8
<1>12. ASSUME NEW r \in Runs, Generate(r) PROVE InOrder'
  <2>1. PICK files, next : Writes(r, files, next)
    BY <1>12, GeneratorWrites
  <2>2. /\ \A q \in Runs : gen'[q] = gen[q] \/ (q = r /\ gen'[q] \in Gen)
        /\ gen[r] \in Gen /\ gen[r] # Null
        /\ UNCHANGED <<run, srv, cli, res, started>>
    <3>1. [gen[r] EXCEPT !.pc = next] \in Gen
      BY <2>1, Updates DEF Writes
    <3>2. gen[r] # Null
      BY <1>12 DEF Generate, Wipe, GenStep, MakeRoot, RequestInt, IssueInt, RequestLeaf, IssueLeaf,
         WriteServed, VerifyChain, OpenChain, FillChain, WriteMeta, GenBy
    <3> QED BY <2>1, <3>1, <3>2, SMTT(60) DEF Writes, Types
  <2> QED BY <1>a, <2>2 DEF InOrder, Types
<1>13. ASSUME NEW r \in Runs, LoadServer(r) PROVE InOrder'
  BY <1>a, <1>13 DEF LoadServer, InOrder, Types
<1>14. ASSUME NEW r \in Runs, BindServer(r) PROVE InOrder'
  BY <1>a, <1>14 DEF BindServer, InOrder, Types
<1>15. ASSUME NEW r \in Runs, PerfExit(r) PROVE InOrder'
  BY <1>a, <1>15 DEF PerfExit, InOrder, Types
<1>16. ASSUME NEW r \in Runs, LoadClient(r) PROVE InOrder'
  <2>1. cli[r] # Null /\ UNCHANGED <<gen, run, srv, res, started>>
    BY <1>16 DEF LoadClient, ClientIn
  <2>2. cli[r] \in Client
    BY <2>1 DEF Types
  <2>3. pki[ChainOf[res[r].scn]].root \in Nat
    BY <2>1, SMTT(60) DEF InOrder, Types, Result, Files
  <2>4. cli'[r] \in Client
    BY <1>16, <2>2, <2>3, Updates DEF LoadClient, Types
  <2>5. \A q \in Runs : cli'[q] = cli[q] \/ (q = r /\ cli'[q] \in Client)
    BY <1>16, <2>4 DEF LoadClient, Types
  <2> QED BY <1>c, <2>1, <2>5
<1>17. ASSUME NEW r \in Runs, Handshake(r) PROVE InOrder'
  <2>1. cli[r] # Null /\ UNCHANGED <<gen, run, srv, cli, started>>
    BY <1>17 DEF Handshake, ClientIn
  <2>2. res[r] \in Result /\ r <= started
    BY <1>a, <2>1 DEF InOrder
  <2> DEFINE y == Append(res[r].rows, RowOf(r))
  <2>3. res' = [res EXCEPT ![r].rows = y]
    BY <1>17 DEF Handshake, RowOf
  <2>4. y \in Seq(Row \cup {Null})
    BY <2>2, RowTyped, AppendProperties DEF Result
  <2> HIDE DEF y
  <2>5. /\ [res[r] EXCEPT !.rows = y] \in Result
        /\ [res[r] EXCEPT !.rows = y].scn = res[r].scn
    BY <2>2, <2>4 DEF Result
  <2> DEFINE d == [res[r] EXCEPT !.rows = y]
  <2>a. res' = [res EXCEPT ![r] = d]
    BY <2>3
  <2>b. d \in Result /\ d.scn = res[r].scn
    BY <2>5
  <2> HIDE DEF d
  <2>c. res'[r] = d /\ \A q \in Runs \ {r} : res'[q] = res[q]
    BY <1>g, <2>a
  <2>6. \A q \in Runs : res'[q] = res[q] \/ (q = r /\ res'[q] \in Result /\ res'[q].scn = res[q].scn)
    BY <2>b, <2>c
  <2>7. run.pc \in {"gen", "spawn"} => r # started
    BY <2>1 DEF InOrder
  <2> QED BY <1>d, <2>1, <2>2, <2>6, <2>7
<1>18. ASSUME NEW r \in Runs, ClientExit(r) PROVE InOrder'
  <2>1. cli[r] # Null /\ UNCHANGED <<gen, run, srv, res, started>>
    BY <1>18, SMTT(60) DEF ClientExit, ClientIn
  <2>2. cli[r] \in Client
    BY <2>1 DEF Types
  <2>4. cli'[r] \in Client
    BY <1>18, <2>2, Updates, ZenonT(60) DEF ClientExit, Types
  <2>5. \A q \in Runs : cli'[q] = cli[q] \/ (q = r /\ cli'[q] \in Client)
    BY <1>18, <2>4 DEF ClientExit, Types
  <2> QED BY <1>c, <2>1, <2>5
<1>19. ASSUME NEW r \in Runs, ClientKilled(r) PROVE InOrder'
  <2>1. cli[r] # Null /\ UNCHANGED <<gen, run, srv, res, started>>
    BY <1>19 DEF ClientKilled, ClientIn
  <2>2. cli[r] \in Client
    BY <2>1 DEF Types
  <2>4. cli'[r] \in Client
    BY <1>19, <2>2, Updates DEF ClientKilled, Types
  <2>5. \A q \in Runs : cli'[q] = cli[q] \/ (q = r /\ cli'[q] \in Client)
    BY <1>19, <2>4 DEF ClientKilled, Types
  <2> QED BY <1>c, <2>1, <2>5
<1>20. ASSUME Interrupt PROVE InOrder'
  BY <1>a, <1>20 DEF Interrupt, NoRun, InOrder, Types
<1>21. ASSUME Kill PROVE InOrder'
  BY <1>a, <1>21 DEF Kill, NoRun, InOrder, Types
<1>22. ASSUME PowerLoss PROVE InOrder'
  BY <1>a, <1>22 DEF PowerLoss, NoRun, InOrder, Types
<1> QED
  BY <1>1, <1>2, <1>3, <1>4, <1>5, <1>6, <1>7, <1>8, <1>9, <1>10, <1>11, <1>12, <1>13, <1>14, <1>15,
     <1>16, <1>17, <1>18, <1>19, <1>20, <1>21, <1>22 DEF Next, Runner, Children

-----------------------------------------------------------------------------
(* What is called completed has all its rows, one step per action.         *)
LEMMA CompleteStep == ASSUME Types, Types', InOrder, Complete, Next PROVE Complete'
<1> USE LabAssumption DEF Serving, Ending
<1>a. \A x : /\ [run EXCEPT !.pc = x].pc = x /\ [run EXCEPT !.pc = x].status = run.status
  BY DEF Types, Script
<1>b. NoRun.status = "started" /\ NoRun.pc = "idle"
  BY DEF NoRun
<1>c. /\ cli \in [Runs -> Client \cup {Null}] /\ res \in [Runs -> Result \cup {Null}]
  BY DEF Types
(* Neither the results nor the clients change.                             *)
<1>d. ASSUME UNCHANGED <<cli, res>>,
             run'.status = "completed" => run.status = "completed" /\ run'.pc \in Ending /\ started' = started
      PROVE  Complete'
  BY <1>d DEF Complete, Whole
(* One client changes, and has its rows if it exits with code 0.           *)
<1>e. ASSUME NEW r \in Runs, NEW c, cli' = [cli EXCEPT ![r] = c],
             c # Null /\ c.st = "exited" /\ c.code = 0 => Whole(r),
             UNCHANGED <<res, started>>,
             run'.status = "completed" => run.status = "completed" /\ run'.pc \in Ending
      PROVE  Complete'
  <2>1. cli'[r] = c /\ \A q \in Runs \ {r} : cli'[q] = cli[q]
    BY <1>c, <1>e
  <2> QED BY <1>e, <2>1 DEF Complete, Whole
(* The script writes to its result, and leaves the rows alone.             *)
<1>h. ASSUME NEW d, started \in Runs, res' = [res EXCEPT ![started] = d],
             d.rows = res[started].rows, d.status \in {res[started].status, run.status},
             res[started] \in Result, UNCHANGED <<cli, started>>,
             run'.status = "completed" => run.status = "completed" /\ run'.pc \in Ending
      PROVE  Complete'
  <2>1. res'[started] = d /\ \A q \in Runs \ {started} : res'[q] = res[q]
    BY <1>c, <1>h
  <2>2. res[started] # Null
    BY <1>h
  <2>3. Len(d.rows) <= Rows /\ (d.status = "completed" => Len(d.rows) = Rows)
    BY <1>h, <2>2 DEF Complete, Whole
  <2>4. \A q \in Runs : Whole(q) => Whole(q)'
    BY <1>h, <2>1 DEF Whole
  <2>5. \A q \in Runs : res'[q] # Null =>
          Len(res'[q].rows) <= Rows /\ (res'[q].status = "completed" => Len(res'[q].rows) = Rows)
    BY <2>1, <2>3 DEF Complete, Whole
  <2> QED BY <1>h, <2>4, <2>5 DEF Complete, Whole
<1>1. ASSUME NEW p \in Profiles, RunGenChain(p) PROVE Complete'
  <2>1. UNCHANGED <<cli, res>> /\ run'.status = "started"
    BY <1>1 DEF RunGenChain, Begin, NoRun
  <2> QED BY <1>d, <2>1
<1>2. ASSUME NEW s \in Scenarios, RunScenario(s) PROVE Complete'
  <2>1. UNCHANGED <<cli, res>> /\ run'.status = "started"
    BY <1>2 DEF RunScenario, Begin, NoRun
  <2> QED BY <1>d, <2>1
<1>3. ASSUME GenOver PROVE Complete'
  <2>1. run' = NoRun \/ run' = [run EXCEPT !.pc = "spawn"]
    BY <1>3 DEF GenOver, Go
  <2>2. run'.status # "completed"
    <3>1. run.status # "completed"
      BY <1>3 DEF GenOver, Complete
    <3>2. [run EXCEPT !.pc = "spawn"].status = run.status
      BY <1>a
    <3>3. CASE run' = NoRun
      BY <1>b, <3>3
    <3>4. CASE run' = [run EXCEPT !.pc = "spawn"]
      BY <3>1, <3>2, <3>4
    <3> QED BY <2>1, <3>3, <3>4
  <2> QED BY <1>3, <1>d, <2>2 DEF GenOver
<1>4. ASSUME Spawn PROVE Complete'
  <2> DEFINE d == [scn |-> run.scn, rows |-> <<>>, status |-> "started", meta |-> "none", chain |-> 0]
  <2>1. d.rows = <<>> /\ d.status = "started" /\ res' = [res EXCEPT ![started] = d]
    BY <1>4 DEF Spawn
  <2>2. started \in Runs /\ res[started] = Null /\ cli[started] = Null /\ UNCHANGED <<cli, started>>
    BY <1>4 DEF Spawn, InOrder
  <2>3. run'.status = run.status /\ run.status # "completed"
    BY <1>4, <1>a DEF Spawn, Go, Complete
  <2> HIDE DEF d
  <2>4. Len(d.rows) = 0 /\ Rows \in Nat
    BY <2>1
  <2>5. res'[started] = d /\ \A q \in Runs \ {started} : res'[q] = res[q]
    BY <1>c, <2>1, <2>2
  <2>6. \A q \in Runs : cli[q] # Null => q # started
    BY <2>2
  <2>7. run'.status # "completed"
    BY <2>3
  <2>8. \A q \in Runs : res'[q] # Null =>
          Len(res'[q].rows) <= Rows /\ (res'[q].status = "completed" => Len(res'[q].rows) = Rows)
    BY <2>1, <2>4, <2>5 DEF Complete, Whole
  <2>9. \A q \in Runs : cli[q] # Null /\ cli[q].st = "exited" /\ cli[q].code = 0 => Len(res'[q].rows) = Rows
    BY <2>5, <2>6 DEF Complete, Whole
  <2> QED BY <2>2, <2>7, <2>8, <2>9 DEF Complete, Whole
<1>5. ASSUME NEW wanted \in BOOLEAN, AttachPerf(wanted) PROVE Complete'
  <2>1. run'.status = run.status /\ run.status # "completed" /\ UNCHANGED <<cli, res>>
    BY <1>5, <1>a DEF AttachPerf, Go, Complete
  <2> QED BY <1>d, <2>1
<1>6. ASSUME StartClient PROVE Complete'
  <2> DEFINE c == [st |-> "new", ca |-> 0, code |-> 0]
  <2>1. run'.status = run.status /\ run.status # "completed" /\ UNCHANGED <<res, started>>
    BY <1>6, <1>a DEF StartClient, Go, Complete
  <2>2. cli' = [cli EXCEPT ![started] = c] /\ c.st = "new" /\ started \in Runs
    BY <1>6 DEF StartClient, InOrder
  <2> HIDE DEF c
  <2> QED BY <1>e, <2>1, <2>2
<1>7. ASSUME ClientOver PROVE Complete'
  <2>1. cli[started] \in Client /\ started \in Runs /\ cli[started].st = "exited" /\ UNCHANGED <<cli, res, started>>
    BY <1>7 DEF ClientOver, InOrder
  <2>2. run'.pc = "stop" /\ (run'.status = "completed" => cli[started].code = 0)
    BY <1>7 DEF ClientOver, Types, Script
  <2>3. cli[started] # Null
    BY <2>1
  <2> QED BY <2>1, <2>2, <2>3 DEF Complete, Whole
<1>8. ASSUME StopServer PROVE Complete'
  BY <1>8, <1>a, <1>d DEF StopServer, Go
<1>9. ASSUME WaitPerf PROVE Complete'
  BY <1>9, <1>a, <1>d DEF WaitPerf, Go
<1>10. ASSUME OpenResult PROVE Complete'
  <2> DEFINE d == [res[started] EXCEPT !.meta = "empty"]
  <2>1. started \in Runs /\ res[started] \in Result
    BY <1>10 DEF OpenResult, InOrder
  <2>2. res' = [res EXCEPT ![started] = d] /\ UNCHANGED <<cli, started>>
    BY <1>10 DEF OpenResult
  <2>3. d.rows = res[started].rows /\ d.status = res[started].status
    BY <2>1 DEF Result
  <2>4. run'.status = run.status /\ run'.pc \in Ending
    BY <1>10, <1>a DEF OpenResult, Go
  <2> HIDE DEF d
  <2> QED BY <2>1, <2>2, <2>3, <2>4, <1>h
<1>11. ASSUME WriteResult PROVE Complete'
  <2>1. started \in Runs /\ res[started] \in Result
    BY <1>11 DEF WriteResult, InOrder
  <2> DEFINE k == IF pki[run.p].whole THEN pki[run.p].chain ELSE 0
             d == [res[started] EXCEPT !.meta = "whole", !.status = run.status, !.chain = k]
  <2>2. res' = res \/ res' = [res EXCEPT ![started] = d]
    BY <1>11 DEF WriteResult
  <2>3. UNCHANGED <<cli, started>> /\ run'.status = "started"
    BY <1>11, <1>b DEF WriteResult
  <2>4. d.rows = res[started].rows /\ d.status = run.status
    BY <2>1 DEF Result
  <2> HIDE DEF d
  <2>5. CASE res' = res
    BY <1>d, <2>3, <2>5
  <2>6. CASE res' = [res EXCEPT ![started] = d]
    BY <1>h, <2>1, <2>3, <2>4, <2>6
  <2> QED BY <2>2, <2>5, <2>6
<1>12. ASSUME NEW r \in Runs, Generate(r) PROVE Complete'
  <2>1. UNCHANGED <<run, cli, res, started>>
    BY <1>12, GeneratorWrites DEF Writes
  <2> QED BY <2>1 DEF Complete, Whole
<1>13. ASSUME NEW r \in Runs, LoadServer(r) PROVE Complete'
  BY <1>13 DEF LoadServer, Complete, Whole
<1>14. ASSUME NEW r \in Runs, BindServer(r) PROVE Complete'
  BY <1>14 DEF BindServer, Complete, Whole
<1>15. ASSUME NEW r \in Runs, PerfExit(r) PROVE Complete'
  BY <1>15 DEF PerfExit, Complete, Whole
<1>16. ASSUME NEW r \in Runs, LoadClient(r) PROVE Complete'
  <2> DEFINE ca == pki[ChainOf[res[r].scn]].root
             c == [cli[r] EXCEPT !.st = "exited", !.code = 1]
             d == [cli[r] EXCEPT !.st = "running", !.ca = ca]
  <2>1. cli' = [cli EXCEPT ![r] = c] \/ cli' = [cli EXCEPT ![r] = d]
    BY <1>16 DEF LoadClient
  <2>2. cli[r] \in Client
    BY <1>16 DEF LoadClient, ClientIn, Types
  <2>3. c.code = 1 /\ d.st = "running"
    BY <2>2 DEF Client
  <2>4. UNCHANGED <<run, res, started>>
    BY <1>16 DEF LoadClient
  <2>5. run.status = "completed" => run.pc \in Ending
    BY DEF Complete
  <2> HIDE DEF c, d
  <2>6. CASE cli' = [cli EXCEPT ![r] = c]
    <3>1. c.code # 0
      BY <2>3
    <3> QED BY <1>e, <2>4, <2>5, <2>6, <3>1
  <2>7. CASE cli' = [cli EXCEPT ![r] = d]
    BY <1>e, <2>3, <2>4, <2>5, <2>7
  <2> QED BY <2>1, <2>6, <2>7
<1>17. ASSUME NEW r \in Runs, Handshake(r) PROVE Complete'
  <2> DEFINE y == Append(res[r].rows, RowOf(r))
             d == [res[r] EXCEPT !.rows = y]
  <2>1. cli[r] # Null /\ res[r] \in Result
    BY <1>17 DEF Handshake, ClientIn, InOrder
  <2>2. res' = [res EXCEPT ![r] = d]
    BY <1>17 DEF Handshake, RowOf
  <2>3. d.rows = y /\ d.status = res[r].status
    BY <2>1 DEF Result
  <2>4. Len(y) = Len(res[r].rows) + 1 /\ Len(res[r].rows) \in Nat
    BY <2>1, RowTyped, AppendProperties, LenProperties DEF Result
  <2>5. Len(res[r].rows) < Rows
    BY <1>17 DEF Handshake
  <2>6. UNCHANGED <<run, cli, started>>
    BY <1>17 DEF Handshake
  <2> HIDE DEF y, d
  <2>7. Len(d.rows) <= Rows /\ Len(res[r].rows) # Rows
    BY <2>3, <2>4, <2>5
  <2>8. res'[r] = d /\ \A q \in Runs \ {r} : res'[q] = res[q]
    BY <1>c, <2>2
  <2>9. res[r] = Null \/ d.status # "completed"
    BY <2>3, <2>7 DEF Complete, Whole
  <2>10. cli[r].st = "running"
    BY <1>17 DEF Handshake, ClientIn
  <2>11. run.status = "completed" => started # r
    BY <2>7 DEF Complete, Whole
  <2>12. run.status = "completed" => started \in Runs
    BY DEF Complete, InOrder
  <2>13. \A q \in Runs : res'[q] # Null =>
           Len(res'[q].rows) <= Rows /\ (res'[q].status = "completed" => Len(res'[q].rows) = Rows)
    BY <2>1, <2>7, <2>8, <2>9 DEF Complete, Whole
  <2>14. \A q \in Runs : cli[q] # Null /\ cli[q].st = "exited" /\ cli[q].code = 0 => Len(res'[q].rows) = Rows
    BY <2>8, <2>10 DEF Complete, Whole
  <2>15. run.status = "completed" => run.pc \in Ending /\ Len(res'[started].rows) = Rows
    BY <2>8, <2>11, <2>12 DEF Complete, Whole
  <2> QED BY <2>6, <2>13, <2>14, <2>15 DEF Complete, Whole
<1>18. ASSUME NEW r \in Runs, ClientExit(r) PROVE Complete'
  <2>1. Whole(r) /\ cli' = [cli EXCEPT ![r] = [cli[r] EXCEPT !.st = "exited"]] /\ UNCHANGED <<run, res, started>>
    BY <1>18 DEF ClientExit, Whole
  <2>2. run.status = "completed" => run.pc \in Ending
    BY DEF Complete
  <2> QED BY <1>e, <2>1, <2>2
<1>19. ASSUME NEW r \in Runs, ClientKilled(r) PROVE Complete'
  <2> DEFINE c == [cli[r] EXCEPT !.st = "exited", !.code = 1]
  <2>1. cli' = [cli EXCEPT ![r] = c] /\ UNCHANGED <<run, res, started>>
    BY <1>19 DEF ClientKilled
  <2>2. cli[r] \in Client
    BY <1>19 DEF ClientKilled, ClientIn, Types
  <2>3. c.code = 1
    BY <2>2 DEF Client
  <2>4. run.status = "completed" => run.pc \in Ending
    BY DEF Complete
  <2> HIDE DEF c
  <2>5. c.code # 0
    BY <2>3
  <2> QED BY <1>e, <2>1, <2>4, <2>5
<1>20. ASSUME Interrupt PROVE Complete'
  <2>1. started \in Runs /\ cli' = [cli EXCEPT ![started] = Null] /\ UNCHANGED <<res, started>>
    BY <1>20 DEF Interrupt, InOrder
  <2>2. run'.status = "started"
    BY <1>20, <1>b DEF Interrupt
  <2> QED BY <1>e, <2>1, <2>2
<1>21. ASSUME Kill PROVE Complete'
  BY <1>21, <1>b, <1>d DEF Kill
<1>22. ASSUME PowerLoss PROVE Complete'
  <2>1. \A r \in Runs : cli'[r] = Null
    BY <1>22 DEF PowerLoss
  <2>2. run'.status = "started" /\ UNCHANGED res
    BY <1>22, <1>b DEF PowerLoss
  <2> QED BY <2>1, <2>2 DEF Complete, Whole
<1> QED
  BY <1>1, <1>2, <1>3, <1>4, <1>5, <1>6, <1>7, <1>8, <1>9, <1>10, <1>11, <1>12, <1>13, <1>14, <1>15,
     <1>16, <1>17, <1>18, <1>19, <1>20, <1>21, <1>22 DEF Next, Runner, Children

-----------------------------------------------------------------------------
(* A script that starts a generator makes a new number the profile's.      *)
LEMMA StartKeepsOwned ==
  ASSUME Types, InOrder, KeysOwned, NEW p \in Profiles, started < MaxRuns, started' = started + 1,
         StartGen(p) \/ gen' = gen, UNCHANGED <<pki, srv, cli, res>>
  PROVE  KeysOwned'
<1> USE LabAssumption
<1>1. PICK own \in [Runs -> Profiles \cup {Null}] : Owned(own)
  BY DEF KeysOwned
<1>q. PICK q : q = started + 1
  OBVIOUS
<1>n. PICK new : new = [own EXCEPT ![q] = p]
  OBVIOUS
<1>2. started \in Nat /\ q \in Runs /\ 0..started' = 0..started \cup {q} /\ q \notin 0..started
  BY <1>q DEF Types, Runs
<1>3. new \in [Runs -> Profiles \cup {Null}] /\ new[q] = p /\ \A r \in Runs \ {q} : new[r] = own[r]
  BY <1>n, <1>2
<1>4. 0..started \subseteq Runs \cup {0} /\ 0 \notin Runs /\ \A r \in Runs : r > started \/ r \in 0..started
  BY DEF Types, Runs
<1>5. \A k, x : Of(own, k, x) => Of(new, k, x)'
  <2>1. \A k \in 0..started : k # q /\ k \in 0..started' /\ (k # 0 => new[k] = own[k])
    BY <1>2, <1>3, <1>4
  <2> QED BY <2>1 DEF Of
<1>6. FilesOwned(new)'
  BY <1>1, <1>5 DEF Owned, FilesOwned, KeysIn
<1>7. ServersOwned(new)' /\ ClientsOwned(new)'
  BY <1>1, <1>5 DEF Owned, ServersOwned, ClientsOwned, CertOwned
<1>8. GensOwned(new)'
  <2>1. \A r \in Runs \ {q} : gen'[r] = gen[r]
    BY <1>q, <1>2 DEF StartGen, Types
  <2>2. gen[q] = Null
    BY <1>q, <1>2 DEF InOrder, Types
  <2>3. gen'[q] = Null \/ gen'[q].p = p
    <3>1. CASE gen' = gen
      BY <2>2, <3>1
    <3>2. CASE gen' = [gen EXCEPT ![q] = [p |-> p, pc |-> "wipe"]]
      BY <1>2, <3>2 DEF Types
    <3> QED BY <1>q, <3>1, <3>2 DEF StartGen
  <2> QED BY <1>1, <1>3, <2>1, <2>3 DEF Owned, GensOwned
<1> QED BY <1>3, <1>6, <1>7, <1>8 DEF KeysOwned, Owned

(* Every step keeps each key within the profile it was made for.           *)
LEMMA KeysOwnedStep == ASSUME Types, Types', InOrder, InOrder', KeysOwned, Next PROVE KeysOwned'
<1> USE LabAssumption
<1>a. PICK own \in [Runs -> Profiles \cup {Null}] : Owned(own)
  BY DEF KeysOwned
<1>b. /\ srv \in [Runs -> Server \cup {Null}] /\ cli \in [Runs -> Client \cup {Null}]
      /\ res \in [Runs -> Result \cup {Null}]
  BY DEF Types
<1>c. \A p \in Profiles : Of(own, 0, p) /\ CertOwned(own, NoCert, p)
  BY DEF Of, CertOwned, NoCert, Types
<1>d. ASSUME FilesOwned(own)', GensOwned(own)', ServersOwned(own)', ClientsOwned(own)' PROVE KeysOwned'
  BY <1>d DEF KeysOwned, Owned
<1>f. ASSUME UNCHANGED <<pki, started>> PROVE FilesOwned(own)'
  BY <1>a, <1>f DEF Owned, FilesOwned, Of, KeysIn
<1>g. ASSUME \A r \in Runs : gen'[r] # Null => gen[r] # Null /\ gen'[r].p = gen[r].p PROVE GensOwned(own)'
  BY <1>a, <1>g DEF Owned, GensOwned
<1>s. ASSUME started' = started,
             \A r \in Runs : srv'[r] # Null => /\ srv[r] # Null /\ srv'[r].p = srv[r].p
                                               /\ srv'[r].crt = srv[r].crt /\ srv'[r].served = srv[r].served
      PROVE  ServersOwned(own)'
  BY <1>a, <1>s DEF Owned, ServersOwned, CertOwned, Of
<1>h. ASSUME started' = started,
             \A r \in Runs : cli'[r] # Null => /\ cli[r] # Null /\ cli'[r].ca = cli[r].ca
                                               /\ res'[r].scn = res[r].scn
      PROVE  ClientsOwned(own)'
  BY <1>a, <1>h DEF Owned, ClientsOwned, Of
<1>i. ASSUME UNCHANGED <<pki, gen, srv, cli, res, started>> PROVE KeysOwned'
  BY <1>d, <1>f, <1>g, <1>h, <1>i, <1>s
<1>1. ASSUME NEW p \in Profiles, RunGenChain(p) PROVE KeysOwned'
  BY <1>1, StartKeepsOwned DEF RunGenChain
<1>2. ASSUME NEW s \in Scenarios, RunScenario(s) PROVE KeysOwned'
  <2>1. StartGen(ChainOf[s]) \/ gen' = gen
    BY <1>2 DEF RunScenario
  <2>2. ChainOf[s] \in Profiles
    OBVIOUS
  <2>3. started < MaxRuns /\ started' = started + 1 /\ UNCHANGED <<pki, srv, cli, res>>
    BY <1>2 DEF RunScenario
  <2> QED BY <2>1, <2>2, <2>3, StartKeepsOwned
<1>3. ASSUME GenOver PROVE KeysOwned'
  BY <1>3, <1>i DEF GenOver
<1>4. ASSUME Spawn PROVE KeysOwned'
  <2> DEFINE s == [st |-> "new", p |-> run.p, group |-> GroupOf[run.scn], served |-> NoCert, crt |-> NoCert]
  <2>1. srv' = [srv EXCEPT ![started] = s] /\ s.p = run.p /\ s.served = NoCert /\ s.crt = NoCert
    BY <1>4 DEF Spawn
  <2>2. started \in Runs /\ run.p \in Profiles /\ cli[started] = Null /\ UNCHANGED <<pki, gen, cli, started>>
    BY <1>4 DEF Spawn, InOrder, Serving, Ending
  <2>3. \A r \in Runs \ {started} : res'[r] = res[r]
    BY <1>4, <1>b, <2>2 DEF Spawn
  <2> HIDE DEF s
  <2>4. srv'[started] = s /\ \A r \in Runs \ {started} : srv'[r] = srv[r]
    BY <1>b, <2>1, <2>2
  <2>5. ServersOwned(own)'
    BY <1>a, <1>c, <2>1, <2>2, <2>4 DEF Owned, ServersOwned, CertOwned, Of
  <2>6. ClientsOwned(own)'
    BY <1>h, <2>2, <2>3
  <2> QED BY <1>d, <1>f, <1>g, <2>2, <2>5, <2>6
<1>5. ASSUME NEW wanted \in BOOLEAN, AttachPerf(wanted) PROVE KeysOwned'
  BY <1>5, <1>i DEF AttachPerf
<1>6. ASSUME StartClient PROVE KeysOwned'
  <2> DEFINE c == [st |-> "new", ca |-> 0, code |-> 0]
  <2>1. cli' = [cli EXCEPT ![started] = c] /\ c.ca = 0 /\ UNCHANGED <<pki, gen, srv, res, started>>
    BY <1>6 DEF StartClient
  <2>2. started \in Runs /\ ChainOf[res[started].scn] \in Profiles
    BY <1>6 DEF StartClient, InOrder, Serving, Ending, Result
  <2> HIDE DEF c
  <2>3. cli'[started] = c /\ \A r \in Runs \ {started} : cli'[r] = cli[r]
    BY <1>b, <2>1, <2>2
  <2>4. ClientsOwned(own)'
    BY <1>a, <1>c, <2>1, <2>2, <2>3 DEF Owned, ClientsOwned, Of
  <2> QED BY <1>d, <1>f, <1>g, <1>s, <2>1, <2>4
<1>7. ASSUME ClientOver PROVE KeysOwned'
  BY <1>7, <1>i DEF ClientOver
<1>8. ASSUME StopServer PROVE KeysOwned'
  <2>1. started \in Runs /\ srv' = [srv EXCEPT ![started] = Null] /\ UNCHANGED <<pki, gen, cli, res, started>>
    BY <1>8 DEF StopServer, InOrder
  <2>2. srv'[started] = Null /\ \A r \in Runs \ {started} : srv'[r] = srv[r]
    BY <1>b, <2>1
  <2> QED BY <1>d, <1>f, <1>g, <1>h, <1>s, <2>1, <2>2
<1>9. ASSUME WaitPerf PROVE KeysOwned'
  BY <1>9, <1>i DEF WaitPerf
<1>10. ASSUME OpenResult PROVE KeysOwned'
  <2> DEFINE d == [res[started] EXCEPT !.meta = "empty"]
  <2>1. started \in Runs /\ res[started] \in Result
    BY <1>10 DEF OpenResult, InOrder, Serving, Ending
  <2>2. res' = [res EXCEPT ![started] = d] /\ UNCHANGED <<pki, gen, srv, cli, started>>
    BY <1>10 DEF OpenResult
  <2>3. d.scn = res[started].scn
    BY <2>1 DEF Result
  <2> HIDE DEF d
  <2>4. \A r \in Runs : res'[r].scn = res[r].scn
    BY <1>b, <2>1, <2>2, <2>3
  <2> QED BY <1>d, <1>f, <1>g, <1>h, <1>s, <2>2, <2>4
<1>11. ASSUME WriteResult PROVE KeysOwned'
  <2> DEFINE k == IF pki[run.p].whole THEN pki[run.p].chain ELSE 0
             d == [res[started] EXCEPT !.meta = "whole", !.status = run.status, !.chain = k]
  <2>1. started \in Runs /\ res[started] \in Result
    BY <1>11 DEF WriteResult, InOrder, Serving, Ending
  <2>2. (res' = res \/ res' = [res EXCEPT ![started] = d]) /\ UNCHANGED <<pki, gen, srv, cli, started>>
    BY <1>11 DEF WriteResult
  <2>3. d.scn = res[started].scn
    BY <2>1 DEF Result
  <2> HIDE DEF d
  <2>4. \A r \in Runs : res'[r].scn = res[r].scn
    <3>1. CASE res' = res
      BY <3>1
    <3>2. CASE res' = [res EXCEPT ![started] = d]
      BY <1>b, <2>1, <2>3, <3>2
    <3> QED BY <2>2, <3>1, <3>2
  <2> QED BY <1>d, <1>f, <1>g, <1>h, <1>s, <2>2, <2>4
<1>12. ASSUME NEW r \in Runs, Generate(r) PROVE KeysOwned'
  <2>1. PICK files, next : Writes(r, files, next)
    BY <1>12, GeneratorWrites
  <2> DEFINE p == gen[r].p
  <2>2. gen[r] \in Gen /\ gen[r] # Null /\ p \in Profiles /\ r \in 1..started
    <3>1. gen[r] # Null
      BY <1>12 DEF Generate, Wipe, GenStep, MakeRoot, RequestInt, IssueInt, RequestLeaf, IssueLeaf,
         WriteServed, VerifyChain, OpenChain, FillChain, WriteMeta, GenBy
    <3>2. r \in Nat /\ 1 <= r /\ ~(r > started) /\ started \in Nat
      BY <3>1 DEF InOrder, Runs, Types
    <3>3. r \in 1..started
      BY <3>2
    <3> QED BY <2>1, <3>1, <3>3 DEF Writes, Gen
  <2>3. UNCHANGED <<srv, cli, res, started>> /\ KeysIn(files) \subseteq KeysIn(pki[p]) \cup {0, r}
    BY <2>1 DEF Writes
  <2>4. pki'[p] = files /\ \A q \in Profiles \ {p} : pki'[q] = pki[q]
    BY <2>1, <2>2 DEF Writes, Types
  <2>5. \A q \in Runs : gen'[q] # Null => gen[q] # Null /\ gen'[q].p = gen[q].p
    <3>1. [gen[r] EXCEPT !.pc = next].p = gen[r].p
      BY <2>2 DEF Gen
    <3> QED BY <2>1, <2>2, <3>1 DEF Writes, Types
  <2>6. Of(own, r, p)
    BY <1>a, <2>2 DEF Owned, GensOwned, Of
  <2> HIDE DEF p
  <2>7. \A k \in KeysIn(files) : Of(own, k, p)
    BY <1>a, <1>c, <2>2, <2>3, <2>6 DEF Owned, FilesOwned
  <2>8. \A q \in Profiles : \A k \in KeysIn(pki'[q]) : Of(own, k, q)
    BY <1>a, <2>4, <2>7 DEF Owned, FilesOwned
  <2>9. FilesOwned(own)'
    BY <2>3, <2>8 DEF FilesOwned, KeysIn, Of
  <2> QED BY <1>d, <1>g, <1>h, <1>s, <2>3, <2>5, <2>9
<1>13. ASSUME NEW r \in Runs, LoadServer(r) PROVE KeysOwned'
  <2> DEFINE f == pki[srv[r].p]
             s == [srv[r] EXCEPT !.st = "loaded", !.served = f.served, !.crt = f.crt]
  <2>1. srv[r] \in Server /\ srv[r] # Null /\ UNCHANGED <<pki, gen, cli, res, started>>
    BY <1>13 DEF LoadServer, Types
  <2>2. srv' = [srv EXCEPT ![r] = Null] \/ srv' = [srv EXCEPT ![r] = s]
    BY <1>13 DEF LoadServer
  <2>3. s.p = srv[r].p /\ s.crt = f.crt /\ s.served = f.served /\ srv[r].p \in Profiles
    BY <2>1 DEF Server
  <2>4. \A k \in {f.crt.key, f.crt.iss, f.served.key, f.served.iss} : Of(own, k, srv[r].p)
    BY <1>a, <2>3 DEF Owned, FilesOwned, KeysIn
  <2> HIDE DEF f, s
  <2>5. CertOwned(own, s.crt, s.p) /\ CertOwned(own, s.served, s.p)
    BY <2>3, <2>4 DEF CertOwned
  <2>6. \A q \in Runs : srv'[q] = srv[q] \/ srv'[q] = Null \/ srv'[q] = s
    <3>1. CASE srv' = [srv EXCEPT ![r] = Null]
      BY <1>b, <3>1
    <3>2. CASE srv' = [srv EXCEPT ![r] = s]
      BY <1>b, <3>2
    <3> QED BY <2>2, <3>1, <3>2
  <2>7. ServersOwned(own)'
    BY <1>a, <2>1, <2>5, <2>6 DEF Owned, ServersOwned, CertOwned, Of
  <2> QED BY <1>d, <1>f, <1>g, <1>h, <2>1, <2>7
<1>14. ASSUME NEW r \in Runs, BindServer(r) PROVE KeysOwned'
  <2> DEFINE s == [srv[r] EXCEPT !.st = "bound"]
  <2>1. srv[r] \in Server /\ srv[r] # Null /\ UNCHANGED <<pki, gen, cli, res, started>>
    BY <1>14 DEF BindServer, Types
  <2>2. srv' = [srv EXCEPT ![r] = Null] \/ srv' = [srv EXCEPT ![r] = s]
    BY <1>14 DEF BindServer
  <2>3. s.p = srv[r].p /\ s.crt = srv[r].crt /\ s.served = srv[r].served
    BY <2>1 DEF Server
  <2> HIDE DEF s
  <2>4. \A q \in Runs : srv'[q] = srv[q] \/ srv'[q] = Null \/ (q = r /\ srv'[q] = s)
    <3>1. CASE srv' = [srv EXCEPT ![r] = Null]
      BY <1>b, <3>1
    <3>2. CASE srv' = [srv EXCEPT ![r] = s]
      BY <1>b, <3>2
    <3> QED BY <2>2, <3>1, <3>2
  <2>5. ServersOwned(own)'
    BY <1>s, <2>1, <2>3, <2>4
  <2> QED BY <1>d, <1>f, <1>g, <1>h, <2>1, <2>5
<1>15. ASSUME NEW r \in Runs, PerfExit(r) PROVE KeysOwned'
  BY <1>15, <1>i DEF PerfExit
<1>16. ASSUME NEW r \in Runs, LoadClient(r) PROVE KeysOwned'
  <2> DEFINE p == ChainOf[res[r].scn]
             ca == pki[p].root
             c == [cli[r] EXCEPT !.st = "exited", !.code = 1]
             d == [cli[r] EXCEPT !.st = "running", !.ca = ca]
  <2>1. cli[r] \in Client /\ cli[r] # Null /\ res[r] \in Result /\ UNCHANGED <<pki, gen, srv, res, started>>
    BY <1>16 DEF LoadClient, ClientIn, Types, InOrder
  <2>2. cli' = [cli EXCEPT ![r] = c] \/ cli' = [cli EXCEPT ![r] = d]
    BY <1>16 DEF LoadClient
  <2>3. c.ca = cli[r].ca /\ d.ca = ca /\ p \in Profiles
    BY <2>1 DEF Client, Result
  <2>4. Of(own, ca, p)
    BY <1>a, <2>3 DEF Owned, FilesOwned, KeysIn
  <2>5. Of(own, cli[r].ca, p)
    BY <1>a, <2>1 DEF Owned, ClientsOwned
  <2> HIDE DEF c, d, ca
  <2>6. \A q \in Runs : cli'[q] = cli[q] \/ (q = r /\ cli'[q] \in {c, d})
    <3>1. CASE cli' = [cli EXCEPT ![r] = c]
      BY <1>b, <3>1
    <3>2. CASE cli' = [cli EXCEPT ![r] = d]
      BY <1>b, <3>2
    <3> QED BY <2>2, <3>1, <3>2
  <2>7. ClientsOwned(own)'
    BY <1>a, <2>1, <2>3, <2>4, <2>5, <2>6 DEF Owned, ClientsOwned, Of
  <2> QED BY <1>d, <1>f, <1>g, <1>s, <2>1, <2>7
<1>17. ASSUME NEW r \in Runs, Handshake(r) PROVE KeysOwned'
  <2> DEFINE d == [res[r] EXCEPT !.rows = Append(res[r].rows, RowOf(r))]
  <2>1. cli[r] # Null /\ res[r] \in Result /\ UNCHANGED <<pki, gen, srv, cli, started>>
    BY <1>17 DEF Handshake, ClientIn, InOrder
  <2>2. res' = [res EXCEPT ![r] = d]
    BY <1>17 DEF Handshake, RowOf
  <2>3. d.scn = res[r].scn
    BY <2>1 DEF Result
  <2> HIDE DEF d
  <2>4. \A q \in Runs : res'[q].scn = res[q].scn
    BY <1>b, <2>2, <2>3
  <2> QED BY <1>d, <1>f, <1>g, <1>h, <1>s, <2>1, <2>4
<1>18. ASSUME NEW r \in Runs, ClientExit(r) PROVE KeysOwned'
  <2> DEFINE c == [cli[r] EXCEPT !.st = "exited"]
  <2>1. cli[r] \in Client /\ cli[r] # Null /\ UNCHANGED <<pki, gen, srv, res, started>>
    BY <1>18 DEF ClientExit, ClientIn, Types
  <2>2. cli' = [cli EXCEPT ![r] = c] /\ c.ca = cli[r].ca
    BY <1>18, <2>1 DEF ClientExit, Client
  <2> HIDE DEF c
  <2>3. \A q \in Runs : cli'[q] = cli[q] \/ (q = r /\ cli'[q] = c)
    BY <1>b, <2>2
  <2> QED BY <1>d, <1>f, <1>g, <1>h, <1>s, <2>1, <2>2, <2>3
<1>19. ASSUME NEW r \in Runs, ClientKilled(r) PROVE KeysOwned'
  <2> DEFINE c == [cli[r] EXCEPT !.st = "exited", !.code = 1]
  <2>1. cli[r] \in Client /\ cli[r] # Null /\ UNCHANGED <<pki, gen, srv, res, started>>
    BY <1>19 DEF ClientKilled, ClientIn, Types
  <2>2. cli' = [cli EXCEPT ![r] = c] /\ c.ca = cli[r].ca
    BY <1>19, <2>1 DEF ClientKilled, Client
  <2> HIDE DEF c
  <2>3. \A q \in Runs : cli'[q] = cli[q] \/ (q = r /\ cli'[q] = c)
    BY <1>b, <2>2
  <2> QED BY <1>d, <1>f, <1>g, <1>h, <1>s, <2>1, <2>2, <2>3
<1>20. ASSUME Interrupt PROVE KeysOwned'
  <2>1. started \in Runs /\ UNCHANGED <<pki, res, started>>
    BY <1>20 DEF Interrupt, InOrder
  <2>2. \A q \in Runs : gen'[q] \in {gen[q], Null} /\ srv'[q] \in {srv[q], Null} /\ cli'[q] \in {cli[q], Null}
    BY <1>20, <2>1 DEF Interrupt, Types
  <2> QED BY <1>d, <1>f, <1>g, <1>h, <1>s, <2>1, <2>2
<1>21. ASSUME Kill PROVE KeysOwned'
  <2>1. started \in Runs /\ UNCHANGED <<pki, srv, cli, res, started>>
    BY <1>21 DEF Kill, InOrder
  <2>2. \A q \in Runs : gen'[q] \in {gen[q], Null}
    BY <1>21, <2>1 DEF Kill, Types
  <2> QED BY <1>d, <1>f, <1>g, <1>h, <1>s, <2>1, <2>2
<1>22. ASSUME PowerLoss PROVE KeysOwned'
  <2>1. UNCHANGED <<pki, res, started>>
    BY <1>22 DEF PowerLoss
  <2>2. \A q \in Runs : gen'[q] = Null /\ srv'[q] = Null /\ cli'[q] = Null
    BY <1>22 DEF PowerLoss
  <2> QED BY <1>d, <1>f, <1>g, <1>h, <1>s, <2>1, <2>2
<1> QED
  BY <1>1, <1>2, <1>3, <1>4, <1>5, <1>6, <1>7, <1>8, <1>9, <1>10, <1>11, <1>12, <1>13, <1>14, <1>15,
     <1>16, <1>17, <1>18, <1>19, <1>20, <1>21, <1>22 DEF Next, Runner, Children

-----------------------------------------------------------------------------
(* A server that the client accepts shows a chain to the client's root, so *)
(* its keys and the root are of one profile.                               *)
LEMMA AcceptedIsOwn ==
  ASSUME Types, KeysOwned, NEW r \in Runs, cli[r] # Null, RowOf(r) # Null
  PROVE  RowOf(r).p = ChainOf[res[r].scn] /\ RowOf(r).group = GroupOf[res[r].scn]
<1>1. PICK own \in [Runs -> Profiles \cup {Null}] : Owned(own)
  BY DEF KeysOwned
<1>2. PICK q \in Runs :
        /\ srv[q] # Null /\ Accepts(r, q)
        /\ RowOf(r) = [p |-> srv[q].p, group |-> srv[q].group, key |-> srv[q].crt.key]
  BY RowIsAccepted
<1>3. RowOf(r).p = srv[q].p /\ RowOf(r).group = srv[q].group
  BY <1>2
<1>4. srv[q].group = GroupOf[res[r].scn] /\ Chains(cli[r].ca, srv[q].served, srv[q].crt)
  BY <1>2 DEF Accepts
<1>5. cli[r].ca # 0 /\ cli[r].ca \in {srv[q].crt.iss, srv[q].served.iss}
  BY <1>4 DEF Chains
<1>6. own[cli[r].ca] = srv[q].p
  BY <1>1, <1>2, <1>5 DEF Owned, ServersOwned, CertOwned, Of
<1>7. own[cli[r].ca] = ChainOf[res[r].scn]
  BY <1>1, <1>5 DEF Owned, ClientsOwned, Of
<1> QED BY <1>3, <1>4, <1>6, <1>7

(* Every step keeps successes within their own scenario.                   *)
LEMMA SuccessStep == ASSUME Types, InOrder, KeysOwned, SuccessIsOwn, Next PROVE SuccessIsOwn'
<1> USE LabAssumption DEF Serving, Ending
<1> DEFINE Own(d) == \A i \in 1..Len(d.rows) : d.rows[i] # Null =>
             d.rows[i].p = ChainOf[d.scn] /\ d.rows[i].group = GroupOf[d.scn]
<1>a. res \in [Runs -> Result \cup {Null}]
  BY DEF Types
<1>b. \A r \in Runs : res[r] # Null => Own(res[r])
  BY DEF SuccessIsOwn
<1>c. ASSUME \A r \in Runs : res'[r] # Null => Own(res'[r]) PROVE SuccessIsOwn'
  BY <1>c DEF SuccessIsOwn
<1>d. ASSUME UNCHANGED res PROVE SuccessIsOwn'
  BY <1>d DEF SuccessIsOwn
(* The script writes to its result, and leaves the rows alone.             *)
<1>e. ASSUME NEW d, started \in Runs, res[started] \in Result, res' = [res EXCEPT ![started] = d],
             d.rows = res[started].rows, d.scn = res[started].scn
      PROVE  SuccessIsOwn'
  <2>1. res'[started] = d /\ \A q \in Runs \ {started} : res'[q] = res[q]
    BY <1>a, <1>e
  <2>2. Own(res[started])
    BY <1>b, <1>e
  <2>3. Own(d)
    BY <1>e, <2>2
  <2> HIDE DEF Own
  <2> QED BY <1>b, <1>c, <2>1, <2>3
<1>1. ASSUME NEW p \in Profiles, RunGenChain(p) PROVE SuccessIsOwn'
  BY <1>1, <1>d DEF RunGenChain
<1>2. ASSUME NEW s \in Scenarios, RunScenario(s) PROVE SuccessIsOwn'
  BY <1>2, <1>d DEF RunScenario
<1>3. ASSUME GenOver PROVE SuccessIsOwn'
  BY <1>3, <1>d DEF GenOver
<1>4. ASSUME Spawn PROVE SuccessIsOwn'
  <2> DEFINE d == [scn |-> run.scn, rows |-> <<>>, status |-> "started", meta |-> "none", chain |-> 0]
  <2>1. res' = [res EXCEPT ![started] = d] /\ started \in Runs
    BY <1>4 DEF Spawn, InOrder
  <2>2. Own(d)
    OBVIOUS
  <2> HIDE DEF d, Own
  <2>3. \A r \in Runs : res'[r] = res[r] \/ res'[r] = d
    BY <1>a, <2>1
  <2> QED BY <1>b, <1>c, <2>2, <2>3
<1>5. ASSUME NEW wanted \in BOOLEAN, AttachPerf(wanted) PROVE SuccessIsOwn'
  BY <1>5, <1>d DEF AttachPerf
<1>6. ASSUME StartClient PROVE SuccessIsOwn'
  BY <1>6, <1>d DEF StartClient
<1>7. ASSUME ClientOver PROVE SuccessIsOwn'
  BY <1>7, <1>d DEF ClientOver
<1>8. ASSUME StopServer PROVE SuccessIsOwn'
  BY <1>8, <1>d DEF StopServer
<1>9. ASSUME WaitPerf PROVE SuccessIsOwn'
  BY <1>9, <1>d DEF WaitPerf
<1>10. ASSUME OpenResult PROVE SuccessIsOwn'
  <2> DEFINE d == [res[started] EXCEPT !.meta = "empty"]
  <2>1. started \in Runs /\ res[started] \in Result /\ res' = [res EXCEPT ![started] = d]
    BY <1>10 DEF OpenResult, InOrder
  <2>2. d.scn = res[started].scn /\ d.rows = res[started].rows
    BY <2>1 DEF Result
  <2> HIDE DEF d
  <2> QED BY <1>e, <2>1, <2>2
<1>11. ASSUME WriteResult PROVE SuccessIsOwn'
  <2> DEFINE k == IF pki[run.p].whole THEN pki[run.p].chain ELSE 0
             d == [res[started] EXCEPT !.meta = "whole", !.status = run.status, !.chain = k]
  <2>1. started \in Runs /\ res[started] \in Result
    BY <1>11 DEF WriteResult, InOrder
  <2>2. res' = res \/ res' = [res EXCEPT ![started] = d]
    BY <1>11 DEF WriteResult
  <2>3. d.scn = res[started].scn /\ d.rows = res[started].rows
    BY <2>1 DEF Result
  <2> HIDE DEF d
  <2> QED BY <1>d, <1>e, <2>1, <2>2, <2>3
<1>12. ASSUME NEW r \in Runs, Generate(r) PROVE SuccessIsOwn'
  <2>1. UNCHANGED res
    BY <1>12, GeneratorWrites DEF Writes
  <2> QED BY <1>d, <2>1
<1>13. ASSUME NEW r \in Runs, LoadServer(r) \/ BindServer(r) \/ PerfExit(r) PROVE SuccessIsOwn'
  BY <1>13, <1>d DEF LoadServer, BindServer, PerfExit
<1>14. ASSUME NEW r \in Runs, LoadClient(r) \/ ClientExit(r) \/ ClientKilled(r) PROVE SuccessIsOwn'
  BY <1>14, <1>d DEF LoadClient, ClientExit, ClientKilled
<1>15. ASSUME NEW r \in Runs, Handshake(r) PROVE SuccessIsOwn'
  <2> DEFINE rows == res[r].rows
             y == Append(rows, RowOf(r))
             d == [res[r] EXCEPT !.rows = y]
  <2>1. cli[r] # Null /\ res[r] \in Result
    BY <1>15 DEF Handshake, ClientIn, InOrder
  <2>2. res' = [res EXCEPT ![r] = d]
    BY <1>15 DEF Handshake, RowOf
  <2>3. d.scn = res[r].scn /\ d.rows = y
    BY <2>1 DEF Result
  <2>4. rows \in Seq(Row \cup {Null}) /\ RowOf(r) \in Row \cup {Null}
    BY <2>1, RowTyped DEF Result
  <2>5. Len(y) = Len(rows) + 1 /\ Len(rows) \in Nat /\ y[Len(rows) + 1] = RowOf(r)
        /\ \A i \in 1..Len(rows) : y[i] = rows[i]
    BY <2>4, AppendProperties, LenProperties
  <2>6. Own(res[r])
    BY <1>b, <2>1
  <2> HIDE DEF y, d
  <2>7. \A i \in 1..Len(y) : i \in 1..Len(rows) \/ y[i] = RowOf(r)
    BY <2>5
  <2>8. \A i \in 1..Len(y) : y[i] # Null => y[i].p = ChainOf[res[r].scn] /\ y[i].group = GroupOf[res[r].scn]
    BY <2>1, <2>5, <2>6, <2>7, AcceptedIsOwn
  <2>9. Own(d)
    BY <2>3, <2>8
  <2>10. \A q \in Runs : res'[q] = res[q] \/ res'[q] = d
    BY <1>a, <2>2
  <2> HIDE DEF Own
  <2> QED BY <1>b, <1>c, <2>9, <2>10
<1>16. ASSUME Interrupt \/ Kill \/ PowerLoss PROVE SuccessIsOwn'
  BY <1>16, <1>d DEF Interrupt, Kill, PowerLoss
<1> QED
  BY <1>1, <1>2, <1>3, <1>4, <1>5, <1>6, <1>7, <1>8, <1>9, <1>10, <1>11, <1>12, <1>13, <1>14, <1>15,
     <1>16 DEF Next, Runner, Children

-----------------------------------------------------------------------------
(* The laboratory starts in the invariant.                                 *)
LEMMA Start == ASSUME Init PROVE IInv
<1>1. Types
  BY TypesStart
<1>2. NoRun.pc = "idle" /\ NoRun.status = "started"
  BY DEF NoRun
<1>3. InOrder /\ Complete /\ SuccessIsOwn
  BY <1>2 DEF Init, InOrder, Complete, SuccessIsOwn, Serving, Ending
<1>4. KeysOwned
  <2>1. PICK own : own = [r \in Runs |-> Null]
    OBVIOUS
  <2>2. FilesOwned(own)
    BY DEF Init, FilesOwned, KeysIn, NoFiles, NoCert, Of
  <2>3. GensOwned(own) /\ ServersOwned(own) /\ ClientsOwned(own)
    BY DEF Init, GensOwned, ServersOwned, ClientsOwned
  <2>4. own \in [Runs -> Profiles \cup {Null}]
    BY <2>1
  <2> QED BY <2>2, <2>3, <2>4 DEF KeysOwned, Owned
<1> QED BY <1>1, <1>3, <1>4 DEF IInv

(* Every step keeps the invariant.                                         *)
LEMMA Step == ASSUME IInv, [Next]_vars PROVE IInv'
<1>1. CASE Next
  <2>1. Types' /\ InOrder'
    BY <1>1, TypesStep, InOrderStep DEF IInv
  <2> QED BY <1>1, <2>1, CompleteStep, KeysOwnedStep, SuccessStep DEF IInv
<1>2. CASE UNCHANGED vars
  <2>1. Types' /\ InOrder' /\ Complete' /\ SuccessIsOwn'
    BY <1>2 DEF vars, IInv, Types, InOrder, Complete, Whole, SuccessIsOwn
  <2>2. \A own : Owned(own) => Owned(own)'
    BY <1>2 DEF vars, Owned, FilesOwned, GensOwned, ServersOwned, ClientsOwned, CertOwned, Of, KeysIn
  <2>3. KeysOwned'
    BY <2>2 DEF IInv, KeysOwned
  <2> QED BY <2>1, <2>3 DEF IInv
<1> QED BY <1>1, <1>2

(* Over every run of the scripts the invariant holds.                      *)
THEOREM Inductive == Spec => []IInv
<1>1. Init => IInv
  BY Start
<1>2. IInv /\ [Next]_vars => IInv'
  BY Step
<1> QED BY <1>1, <1>2, PTL DEF Spec

(* Nothing of a script that was not started exists, and no result has more *)
(* rows than runs_effective asks for.                                      *)
THEOREM TypeCorrect == Spec => []TypeOK
<1>1. IInv => TypeOK
  BY DEF IInv, Types, InOrder, Complete, TypeOK, Script
<1> QED BY <1>1, Inductive, PTL

(* A row that counts as a success tells of a server of the scenario's own  *)
(* chain profile and group, whoever holds the shared port and however      *)
(* often the chains were regenerated.                                      *)
THEOREM SuccessesAreOwn == Spec => []SuccessIsOwn
<1>1. IInv => SuccessIsOwn
  BY DEF IInv
<1> QED BY <1>1, Inductive, PTL

(* What the analysis scripts accept has a row for every run.               *)
THEOREM AcceptedAreWhole == Spec => []AcceptedIsWhole
<1>1. IInv => AcceptedIsWhole
  BY DEF IInv, Complete, Whole, AcceptedIsWhole, Accepted
<1> QED BY <1>1, Inductive, PTL

-----------------------------------------------------------------------------
(* Scripts that are not killed.  A generator keeps what it did in step     *)
(* with its files, and opens chain.json only over a chain it verified.     *)
LEMMA GeneratorUsable ==
  ASSUME Types, NEW r \in Runs, Generate(r), FarAs(gen[r].pc, pki[gen[r].p]),
         pki[gen[r].p].chain # 0 => Usable(pki[gen[r].p])
  PROVE  /\ FarAs(gen'[r].pc, pki'[gen[r].p])
         /\ pki'[gen[r].p].chain # 0 => Usable(pki'[gen[r].p])
<1> DEFINE p == gen[r].p
           f == pki[p]
           Good(x, g) == FarAs(x, g) /\ (g.chain # 0 => Usable(g))
<1>0. gen[r] \in Gen /\ p \in Profiles /\ f \in Files
  BY GeneratorWrites DEF Writes, Types, Gen
<1>1. Good(gen[r].pc, f) /\ Good("failed", f)
  BY DEF FarAs
<1>2. ASSUME NEW g, NEW x, pki' = [pki EXCEPT ![p] = g], gen' = [gen EXCEPT ![r].pc = x]
      PROVE  pki'[p] = g /\ gen'[r].pc = x
  BY <1>0, <1>2 DEF Types, Gen
<1>3. ASSUME pki' = pki, gen' = [gen EXCEPT ![r].pc = "failed"]
      PROVE  Good(gen'[r].pc, pki'[p])
  <2>1. pki'[p] = f /\ gen'[r].pc = "failed"
    BY <1>0, <1>3 DEF Types, Gen
  <2> QED BY <1>1, <2>1
<1>4. SUFFICES Good(gen'[r].pc, pki'[p])
  OBVIOUS
<1>5. /\ \A k \in Nat : \A g \in {[f EXCEPT !.root = k], [f EXCEPT !.intreq = k], [f EXCEPT !.leaf = k]} :
           g.chain = f.chain
      /\ \A c \in Cert : LET g == [f EXCEPT !.int = c] IN g.chain = f.chain
      /\ \A c \in Cert : LET g == [f EXCEPT !.crt = c] IN
           g.chain = f.chain /\ g.leaf = f.leaf /\ g.crt = c
      /\ \A c \in Cert : LET g == [f EXCEPT !.served = c] IN
           g.chain = f.chain /\ g.leaf = f.leaf /\ g.crt = f.crt
  BY <1>0 DEF Files
<1>6. /\ LET g == [f EXCEPT !.chain = r, !.whole = FALSE] IN
           g.root = f.root /\ g.leaf = f.leaf /\ g.crt = f.crt /\ g.served = f.served
      /\ \A w \in BOOLEAN : \A g \in {[f EXCEPT !.whole = w], [f EXCEPT !.meta = w]} :
           g.chain = f.chain /\ g.root = f.root /\ g.leaf = f.leaf /\ g.crt = f.crt /\ g.served = f.served
  BY <1>0 DEF Files
<1>7. r \in Nat /\ f.root \in Nat /\ f.intreq \in Nat /\ f.leaf \in Nat /\ f.int \in Cert
  BY <1>0, LabAssumption DEF Files, Runs
<1> HIDE DEF p
<1>10. CASE Wipe(r)
  <2> DEFINE g == NoFiles
  <2>1. gen[r].pc = "wipe"
    BY <1>10 DEF Wipe, GenStep
  <2>2. pki'[p] = g /\ gen'[r].pc = "root"
    BY <1>10, <1>2 DEF Wipe, GenStep, FilesOf, p
  <2>3. g.chain = 0
    BY DEF NoFiles
  <2> HIDE DEF g
  <2> QED BY <2>2, <2>3 DEF FarAs
<1>11. CASE MakeRoot(r)
  <2> DEFINE g == [f EXCEPT !.root = r]
  <2>1. gen[r].pc = "root"
    BY <1>11 DEF MakeRoot, GenStep
  <2>2. pki'[p] = g /\ gen'[r].pc = (IF IsDeep(r) THEN "intreq" ELSE "leafreq")
    BY <1>11, <1>2 DEF MakeRoot, GenStep, FilesOf, p
  <2>3. g.chain = 0
    BY <1>1, <1>5, <1>7, <2>1 DEF FarAs
  <2> HIDE DEF g
  <2> QED BY <2>2, <2>3 DEF FarAs
<1>12. CASE RequestInt(r)
  <2> DEFINE g == [f EXCEPT !.intreq = r]
  <2>1. gen[r].pc = "intreq"
    BY <1>12 DEF RequestInt, GenStep
  <2>2. pki'[p] = g /\ gen'[r].pc = "int"
    BY <1>12, <1>2 DEF RequestInt, GenStep, FilesOf, p
  <2>3. g.chain = 0
    BY <1>1, <1>5, <1>7, <2>1 DEF FarAs
  <2> HIDE DEF g
  <2> QED BY <2>2, <2>3 DEF FarAs
<1>13. CASE IssueInt(r)
  <2> DEFINE c == [key |-> f.intreq, iss |-> f.root]
             g == [f EXCEPT !.int = c]
  <2>1. gen[r].pc = "int"
    BY <1>13 DEF IssueInt, GenStep
  <2>2. CASE f.root # 0 /\ f.intreq # 0
    <3>1. pki'[p] = g /\ gen'[r].pc = "leafreq"
      BY <1>13, <1>2, <2>2 DEF IssueInt, GenStep, FilesOf, p
    <3>2. c \in Cert
      BY <1>7 DEF Cert
    <3>3. g.chain = 0
      BY <1>1, <1>5, <2>1, <3>2 DEF FarAs
    <3> HIDE DEF c, g
    <3> QED BY <3>1, <3>3 DEF FarAs
  <2>3. CASE ~(f.root # 0 /\ f.intreq # 0)
    BY <1>13, <1>3, <2>3 DEF IssueInt, GenStep, FilesOf, p
  <2> QED BY <2>2, <2>3
<1>14. CASE RequestLeaf(r)
  <2> DEFINE g == [f EXCEPT !.leaf = r]
  <2>1. gen[r].pc = "leafreq"
    BY <1>14 DEF RequestLeaf, GenStep
  <2>2. pki'[p] = g /\ gen'[r].pc = "leaf"
    BY <1>14, <1>2 DEF RequestLeaf, GenStep, FilesOf, p
  <2>3. g.chain = 0
    BY <1>1, <1>5, <1>7, <2>1 DEF FarAs
  <2> HIDE DEF g
  <2> QED BY <2>2, <2>3 DEF FarAs
<1>15. CASE IssueLeaf(r)
  <2> DEFINE i == IF ~IsDeep(r) THEN f.root ELSE IF f.int.key = f.intreq THEN f.int.key ELSE 0
             c == [key |-> f.leaf, iss |-> i]
             g == [f EXCEPT !.crt = c]
  <2>1. gen[r].pc = "leaf"
    BY <1>15 DEF IssueLeaf, GenStep
  <2>2. CASE f.leaf # 0 /\ i # 0
    <3>1. pki'[p] = g /\ gen'[r].pc = "serve"
      BY <1>15, <1>2, <2>2, SMTT(60) DEF IssueLeaf, GenStep, FilesOf, p
    <3>2. c \in Cert
      BY <1>7 DEF Cert
    <3>3. g.chain = 0 /\ g.leaf = f.leaf /\ g.crt = c /\ c.key = f.leaf
      BY <1>1, <1>5, <2>1, <3>2 DEF FarAs
    <3> HIDE DEF c, g
    <3> QED BY <3>1, <3>3 DEF FarAs
  <2>3. CASE ~(f.leaf # 0 /\ i # 0)
    BY <1>15, <1>3, <2>3 DEF IssueLeaf, GenStep, FilesOf, p
  <2> QED BY <2>2, <2>3
<1>16. CASE WriteServed(r)
  <2> DEFINE c == IF IsDeep(r) THEN f.int ELSE NoCert
             g == [f EXCEPT !.served = c]
  <2>1. gen[r].pc = "serve"
    BY <1>16 DEF WriteServed, GenStep
  <2>2. CASE IsDeep(r) => f.int # NoCert
    <3>1. pki'[p] = g /\ gen'[r].pc = "verify"
      BY <1>16, <1>2, <2>2 DEF WriteServed, GenStep, FilesOf, p
    <3>2. c \in Cert
      BY <1>7 DEF Cert, NoCert
    <3>3. g.chain = 0 /\ g.leaf = f.leaf /\ g.crt = f.crt /\ f.crt.key = f.leaf
      BY <1>1, <1>5, <2>1, <3>2 DEF FarAs
    <3> HIDE DEF c, g
    <3> QED BY <3>1, <3>3 DEF FarAs
  <2>3. CASE ~(IsDeep(r) => f.int # NoCert)
    BY <1>16, <1>3, <2>3 DEF WriteServed, GenStep, FilesOf, p
  <2> QED BY <2>2, <2>3
<1>17. CASE VerifyChain(r)
  <2> DEFINE g == f
  <2>1. gen[r].pc = "verify"
    BY <1>17 DEF VerifyChain, GenStep
  <2>2. CASE Chains(f.root, f.served, f.crt)
    <3>1. pki'[p] = g /\ gen'[r].pc = "chain"
      BY <1>17, <1>2, <2>2 DEF VerifyChain, GenStep, FilesOf, p
    <3> QED BY <1>1, <2>1, <2>2, <3>1 DEF FarAs, Usable
  <2>3. CASE ~(Chains(f.root, f.served, f.crt))
    BY <1>17, <1>3, <2>3 DEF VerifyChain, GenStep, FilesOf, p
  <2> QED BY <2>2, <2>3
<1>18. CASE OpenChain(r)
  <2> DEFINE g == [f EXCEPT !.chain = r, !.whole = FALSE]
  <2>1. gen[r].pc = "chain"
    BY <1>18 DEF OpenChain, GenStep
  <2>2. CASE f.root # 0 /\ f.crt # NoCert /\ (IsDeep(r) => f.int # NoCert)
    <3>1. pki'[p] = g /\ gen'[r].pc = "fill"
      BY <1>18, <1>2, <2>2 DEF OpenChain, GenStep, FilesOf, p
    <3>2. Usable(f)
      BY <1>1, <2>1 DEF FarAs
    <3>3. Usable(g)
      BY <1>6, <3>2 DEF Usable
    <3> HIDE DEF g
    <3> QED BY <3>1, <3>3 DEF FarAs
  <2>3. CASE ~(f.root # 0 /\ f.crt # NoCert /\ (IsDeep(r) => f.int # NoCert))
    BY <1>18, <1>3, <2>3 DEF OpenChain, GenStep, FilesOf, p
  <2> QED BY <2>2, <2>3
<1>19. CASE FillChain(r)
  <2> DEFINE w == f.whole \/ f.chain = r
             g == [f EXCEPT !.whole = w]
  <2>1. gen[r].pc = "fill"
    BY <1>19 DEF FillChain, GenStep
  <2>2. pki'[p] = g /\ gen'[r].pc = "meta"
    BY <1>19, <1>2 DEF FillChain, GenStep, FilesOf, p
  <2>3. w \in BOOLEAN
    OBVIOUS
  <2> HIDE DEF w
  <2>4. Usable(g) = Usable(f) /\ g.chain = f.chain
    BY <1>6, <2>3 DEF Usable
  <2> HIDE DEF g
  <2> QED BY <1>1, <2>2, <2>4 DEF FarAs
<1>20. CASE WriteMeta(r)
  <2> DEFINE g == [f EXCEPT !.meta = TRUE]
  <2>1. gen[r].pc = "meta"
    BY <1>20 DEF WriteMeta, GenStep
  <2>2. pki'[p] = g /\ gen'[r].pc = "done"
    BY <1>20, <1>2 DEF WriteMeta, GenStep, FilesOf, p
  <2>4. Usable(g) = Usable(f) /\ g.chain = f.chain
    BY <1>6 DEF Usable
  <2> HIDE DEF g
  <2> QED BY <1>1, <2>2, <2>4 DEF FarAs
<1> QED BY <1>10, <1>11, <1>12, <1>13, <1>14, <1>15, <1>16, <1>17, <1>18, <1>19, <1>20 DEF Generate

(* One step of scripts that are not killed.                                *)
LEMMA UnkilledStep ==
  ASSUME "kill" \notin Ends, Types, InOrder, Unkilled, Next PROVE Unkilled'
<1> USE LabAssumption DEF Serving
<1>a. /\ gen \in [Runs -> Gen \cup {Null}] /\ srv \in [Runs -> Server \cup {Null}]
      /\ pki \in [Profiles -> Files] /\ run \in Script
  BY DEF Types
<1>b. \A x : [run EXCEPT !.pc = x].pc = x
  BY <1>a DEF Script
<1>c. NoRun.pc = "idle"
  BY DEF NoRun
(* Outside its own generation the script leaves no generator at work.      *)
<1>d. run.pc # "gen" => \A r \in Runs : ~Working(r)
  BY DEF Unkilled, OneGenerator
<1>e. run.pc \notin Serving => \A r \in Runs : srv[r] = Null
  BY DEF Unkilled, OneServer
<1>f. ASSUME run.pc # "gen", UNCHANGED <<gen, pki>> PROVE OneGenerator' /\ UsableChain'
  BY <1>d, <1>f DEF Unkilled, OneGenerator, Working, UsableChain
<1>g. ASSUME \A r \in Runs : srv'[r] = Null PROVE OneServer'
  BY <1>g DEF OneServer
(* Nothing changes but what the invariant does not look at.                *)
<1>h. ASSUME UNCHANGED <<gen, pki, run, started>>,
             \A r \in Runs : srv'[r] # Null => srv[r] # Null
      PROVE  Unkilled'
  BY <1>h DEF Unkilled, OneGenerator, Working, FarAs, Usable, UsableChain, OneServer
(* The script of a profile starts a generator.                             *)
<1>i. ASSUME NEW p \in Profiles, run.pc = "idle", StartGen(p), run'.pc = "gen", started' = started + 1,
             started < MaxRuns, UNCHANGED <<pki, srv>>
      PROVE  Unkilled'
  <2>1. PICK q : q = started + 1
    OBVIOUS
  <2>2. q \in Runs
    BY <1>i, <2>1 DEF Types, Runs
  <2>3. PICK g : g = [p |-> p, pc |-> "wipe"]
    OBVIOUS
  <2>4. gen' = [gen EXCEPT ![q] = g]
    BY <1>i, <2>1, <2>3 DEF StartGen
  <2>5. gen'[q] = g /\ \A r \in Runs \ {q} : gen'[r] = gen[r]
    BY <1>a, <2>2, <2>4
  <2>6. \A r \in Runs : Working(r)' => r = q
    BY <1>d, <1>i, <2>5 DEF Working
  <2>7. FarAs(g.pc, pki[g.p])
    BY <2>3 DEF FarAs
  <2>8. FarAs(gen'[q].pc, pki'[gen'[q].p])
    BY <1>i, <2>5, <2>7
  <2>9. OneGenerator'
    BY <1>i, <2>1, <2>6, <2>8 DEF OneGenerator
  <2>10. OneServer' /\ UsableChain'
    BY <1>e, <1>i DEF Unkilled, OneServer, UsableChain
  <2> QED BY <2>9, <2>10 DEF Unkilled
<1>1. ASSUME NEW p \in Profiles, RunGenChain(p) PROVE Unkilled'
  BY <1>1, <1>i DEF RunGenChain, Begin, NoRun
<1>2. ASSUME NEW s \in Scenarios, RunScenario(s) PROVE Unkilled'
  <2>1. run.pc = "idle" /\ started < MaxRuns /\ started' = started + 1 /\ UNCHANGED <<pki, srv>>
    BY <1>2 DEF RunScenario
  <2>2. \/ StartGen(ChainOf[s]) /\ run'.pc = "gen"
        \/ gen' = gen
    BY <1>2 DEF RunScenario, Begin, NoRun
  <2>3. CASE StartGen(ChainOf[s]) /\ run'.pc = "gen"
    BY <1>i, <2>1, <2>3
  <2>4. CASE gen' = gen
    BY <1>e, <1>f, <1>g, <2>1, <2>4 DEF Unkilled
  <2> QED BY <2>2, <2>3, <2>4
<1>3. ASSUME GenOver PROVE Unkilled'
  <2>1. run.pc = "gen" /\ ~Working(started) /\ UNCHANGED <<pki, gen, srv, started>>
    BY <1>3 DEF GenOver, Working
  <2>2. \A r \in Runs : ~Working(r)
    BY <2>1 DEF Unkilled, OneGenerator
  <2>3. OneGenerator' /\ UsableChain'
    BY <2>1, <2>2 DEF Unkilled, OneGenerator, Working, UsableChain
  <2> QED BY <1>e, <1>g, <2>1, <2>3 DEF Unkilled
<1>4. ASSUME Spawn PROVE Unkilled'
  <2>1. run.pc = "spawn" /\ run'.pc = "perf" /\ started \in Runs /\ UNCHANGED <<pki, gen, started>>
    BY <1>4, <1>b DEF Spawn, Go, InOrder
  <2>2. \A r \in Runs \ {started} : srv'[r] = srv[r]
    BY <1>4, <1>a, <2>1 DEF Spawn
  <2>3. OneServer'
    BY <1>e, <2>1, <2>2 DEF OneServer
  <2> QED BY <1>f, <2>1, <2>3 DEF Unkilled
<1>5. ASSUME (\E wanted \in BOOLEAN : AttachPerf(wanted)) \/ StartClient \/ ClientOver PROVE Unkilled'
  <2>1. run.pc \in Serving /\ UNCHANGED <<pki, gen, srv, started>>
    BY <1>5 DEF AttachPerf, StartClient, ClientOver
  <2>2. run'.pc \in Serving
    <3>1. CASE \E wanted \in BOOLEAN : AttachPerf(wanted)
      BY <1>b, <3>1 DEF AttachPerf, Go
    <3>2. CASE StartClient
      BY <1>b, <3>2 DEF StartClient, Go
    <3>3. CASE ClientOver
      BY <1>a, <3>3 DEF ClientOver, Script
    <3> QED BY <1>5, <3>1, <3>2, <3>3
  <2>3. OneServer'
    BY <2>1, <2>2 DEF Unkilled, OneServer
  <2> QED BY <1>f, <2>1, <2>3 DEF Unkilled
<1>6. ASSUME StopServer PROVE Unkilled'
  <2>1. run.pc = "stop" /\ started \in Runs /\ srv' = [srv EXCEPT ![started] = Null] /\ UNCHANGED <<pki, gen>>
    BY <1>6 DEF StopServer, InOrder
  <2>2. \A r \in Runs : srv'[r] = Null
    BY <1>a, <2>1 DEF Unkilled, OneServer
  <2> QED BY <1>f, <1>g, <2>1, <2>2 DEF Unkilled
<1>7. ASSUME WaitPerf \/ OpenResult \/ WriteResult PROVE Unkilled'
  <2>1. run.pc \in {"waitperf", "open", "write"} /\ UNCHANGED <<pki, gen, srv>>
    BY <1>7 DEF WaitPerf, OpenResult, WriteResult
  <2> QED BY <1>e, <1>f, <1>g, <2>1 DEF Unkilled
<1>8. ASSUME NEW r \in Runs, Generate(r) PROVE Unkilled'
  <2>1. PICK files, next : Writes(r, files, next)
    BY <1>8, GeneratorWrites
  <2>2. gen[r] # Null /\ gen[r].pc \notin {"done", "failed"}
    BY <1>8 DEF Generate, Wipe, GenStep, MakeRoot, RequestInt, IssueInt, RequestLeaf, IssueLeaf,
       WriteServed, VerifyChain, OpenChain, FillChain, WriteMeta, GenBy
  <2>3. PICK p : p = gen[r].p
    OBVIOUS
  <2>4. r = started /\ run.pc = "gen" /\ FarAs(gen[r].pc, pki[p]) /\ p \in Profiles
    BY <2>1, <2>2, <2>3 DEF Unkilled, OneGenerator, Working, Writes, Gen
  <2>5. pki[p].chain # 0 => Usable(pki[p])
    BY <2>4 DEF Unkilled, UsableChain, Usable
  <2>6. FarAs(gen'[r].pc, pki'[p]) /\ (pki'[p].chain # 0 => Usable(pki'[p]))
    BY <1>8, <2>3, <2>4, <2>5, GeneratorUsable
  <2>7. /\ \A q \in Profiles \ {p} : pki'[q] = pki[q]
        /\ \A q \in Runs \ {r} : gen'[q] = gen[q]
        /\ gen'[r].p = p
    BY <1>a, <2>1, <2>3 DEF Writes, Gen
  <2>8. UNCHANGED <<run, srv, started>>
    BY <2>1 DEF Writes
  <2>9. \A q \in Runs \ {r} : ~Working(q)'
    BY <2>4, <2>7 DEF Unkilled, OneGenerator, Working
  <2>10. OneGenerator'
    BY <2>4, <2>6, <2>7, <2>8, <2>9 DEF OneGenerator
  <2>11. \A q \in Profiles : pki'[q].chain # 0 => Usable(pki'[q])
    BY <2>6, <2>7 DEF Unkilled, UsableChain, Usable
  <2>12. UsableChain'
    BY <2>11 DEF UsableChain, Usable
  <2> QED BY <1>e, <2>4, <2>8, <2>10, <2>12, <1>g DEF Unkilled
<1>9. ASSUME NEW r \in Runs, LoadServer(r) PROVE Unkilled'
  <2>1. srv[r] # Null /\ UNCHANGED <<gen, pki, run, started>>
    BY <1>9 DEF LoadServer
  <2>2. \A q \in Runs \ {r} : srv'[q] = srv[q]
    BY <1>9, <1>a DEF LoadServer
  <2> QED BY <1>h, <2>1, <2>2
<1>10. ASSUME NEW r \in Runs, BindServer(r) PROVE Unkilled'
  <2>1. srv[r] # Null /\ UNCHANGED <<gen, pki, run, started>>
    BY <1>10 DEF BindServer
  <2>2. \A q \in Runs \ {r} : srv'[q] = srv[q]
    BY <1>10, <1>a DEF BindServer
  <2> QED BY <1>h, <2>1, <2>2
<1>11. ASSUME NEW r \in Runs, PerfExit(r) \/ LoadClient(r) \/ Handshake(r) \/ ClientExit(r) PROVE Unkilled'
  <2>1. UNCHANGED <<gen, pki, run, srv, started>>
    BY <1>11 DEF PerfExit, LoadClient, Handshake, ClientExit
  <2> QED BY <1>h, <2>1
<1>12. ASSUME Interrupt PROVE Unkilled'
  <2>1. started \in Runs /\ UNCHANGED pki
    BY <1>12 DEF Interrupt, InOrder
  <2>2. gen' = [gen EXCEPT ![started] = Null] /\ srv' = [srv EXCEPT ![started] = Null]
    BY <1>12 DEF Interrupt
  <2>3. /\ gen'[started] = Null /\ \A q \in Runs \ {started} : gen'[q] = gen[q]
        /\ srv'[started] = Null /\ \A q \in Runs \ {started} : srv'[q] = srv[q]
    BY <1>a, <2>1, <2>2
  <2>4. \A q \in Runs : ~Working(q)' /\ srv'[q] = Null
    BY <2>3 DEF Unkilled, OneGenerator, OneServer, Working
  <2>5. OneGenerator' /\ UsableChain'
    BY <2>1, <2>4 DEF Unkilled, OneGenerator, UsableChain
  <2> QED BY <1>g, <2>4, <2>5 DEF Unkilled
<1>13. ASSUME PowerLoss PROVE Unkilled'
  <2>1. \A q \in Runs : ~Working(q)' /\ srv'[q] = Null
    BY <1>13 DEF PowerLoss, Working
  <2>2. OneGenerator' /\ UsableChain'
    BY <1>13, <2>1 DEF PowerLoss, Unkilled, OneGenerator, UsableChain
  <2> QED BY <1>g, <2>1, <2>2 DEF Unkilled
<1>14. ~Kill /\ \A r \in Runs : ~ClientKilled(r)
  BY DEF Kill, ClientKilled, EndsBy
<1> QED
  BY <1>1, <1>2, <1>3, <1>4, <1>5, <1>6, <1>7, <1>8, <1>9, <1>10, <1>11, <1>12, <1>13, <1>14
     DEF Next, Runner, Children

(* What holds in addition when no script is killed.                        *)
LEMMA UnkilledAlways == ASSUME "kill" \notin Ends PROVE Spec => []Unkilled
<1>1. Init => Unkilled
  BY DEF Init, Unkilled, OneGenerator, Working, OneServer, UsableChain, NoFiles
<1>2. IInv /\ Unkilled /\ [Next]_vars => Unkilled'
  <2>1. IInv /\ Unkilled /\ Next => Unkilled'
    BY UnkilledStep DEF IInv
  <2>2. Unkilled /\ UNCHANGED vars => Unkilled'
    BY DEF vars, Unkilled, OneGenerator, Working, FarAs, Usable, OneServer, UsableChain
  <2> QED BY <2>1, <2>2
<1> QED BY <1>1, <1>2, Inductive, PTL DEF Spec

(* Where no script is killed, a chain.json stands beside a chain that      *)
(* verifies and a key that fits, after any interrupted or failed           *)
(* generation and any power loss.                                          *)
THEOREM ChainsAreUsable == ASSUME "kill" \notin Ends PROVE Spec => []UsableChain
<1>1. Unkilled => UsableChain
  BY DEF Unkilled
<1> QED BY <1>1, UnkilledAlways, PTL

(* Where no script is killed, none leaves a server on the port.            *)
THEOREM ServersAreStopped == ASSUME "kill" \notin Ends PROVE Spec => []NoServerLeft
<1>1. Unkilled => NoServerLeft
  BY DEF Unkilled, OneServer, NoServerLeft, Serving
<1> QED BY <1>1, UnkilledAlways, PTL
=============================================================================
