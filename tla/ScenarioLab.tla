---------------------------- MODULE ScenarioLab ----------------------------
(***************************************************************************)
(* The laboratory around the provider: gen_chain.sh makes certificate      *)
(* chains, run_scenario.sh starts a TLS server and the benchmark client    *)
(* and writes a result directory, and the analysis scripts pick result     *)
(* directories to read.  The scripts are run one after the other, but they *)
(* can be interrupted (the EXIT trap runs), killed (their children live    *)
(* on) or stopped by a power loss, all the servers share one port, and     *)
(* every chain is regenerated in place.                                    *)
(*                                                                         *)
(* The n-th script started, and everything it starts or makes, is          *)
(* numbered n: its generator, keys, server, client and result directory    *)
(* (time stamps have seconds, and every run sleeps at least one).          *)
(***************************************************************************)
EXTENDS Naturals, Sequences, FiniteSets

CONSTANTS
  Profiles,   (* chain profiles                                            *)
  Deep,       (* those of depth 3                                          *)
  Scenarios,  (* profiles/scenarios                                        *)
  ChainOf, GroupOf,  (* a scenario's chain_profile and tls_group           *)
  Ends,       (* how a script may end early: subset of AllEnds             *)
  Null,
  MaxRuns,    (* bound on the scripts started                              *)
  MaxEnds,    (* bound on the early ends                                   *)
  Rows        (* runs_effective of every scenario                          *)

AllEnds == {"interrupt", "kill", "power"}

(* A process of tls_bench_client: the root it loaded, and its exit code;   *)
(* and a result directory, with a row for every handshake.                 *)
Client == [st : {"new", "running", "exited"}, ca : Nat, code : {0, 1}]
Groups == {GroupOf[s] : s \in Scenarios}
Row    == [p : Profiles, group : Groups, key : Nat]
Result == [scn : Scenarios, rows : Seq(Row \cup {Null}), status : {"started", "completed", "failed"},
           meta : {"none", "empty", "whole"}, chain : Nat]

ASSUME LabAssumption ==
  /\ Deep \subseteq Profiles /\ Ends \subseteq AllEnds
  /\ \A s \in Scenarios : ChainOf[s] \in Profiles
  /\ MaxRuns \in Nat /\ MaxEnds \in Nat /\ Rows \in Nat \ {0}
  /\ Null \notin Client \cup Result

VARIABLES
  pki,    (* the files under pki_factory/output/<profile>                  *)
  gen,    (* the gen_chain.sh processes                                    *)
  run,    (* the script in the foreground                                  *)
  srv,    (* the openssl s_server processes                                *)
  perf,   (* is perf stat attached to the server                           *)
  cli,    (* the tls_bench_client processes                                *)
  res,    (* the result directories                                        *)
  started, ended  (* scripts started, scripts ended early                  *)

vars == <<pki, gen, run, srv, perf, cli, res, started, ended>>

Runs == 1..MaxRuns

(* Key pairs are numbered by their generator, 0 is a missing file; a       *)
(* certificate names its key pair and its issuer's.                        *)
NoCert  == [key |-> 0, iss |-> 0]
NoFiles == [root |-> 0, intreq |-> 0, int |-> NoCert, leaf |-> 0, crt |-> NoCert,
            served |-> NoCert, chain |-> 0, whole |-> FALSE, meta |-> FALSE]
NoRun   == [pc |-> "idle", scn |-> Null, p |-> Null, status |-> "started"]

(* What TLS verification and "openssl verify" accept: the leaf issued by   *)
(* the root, or by a served intermediate that the root issued.             *)
Chains(root, served, crt) ==
  /\ root # 0 /\ crt # NoCert
  /\ \/ served = NoCert /\ crt.iss = root
     \/ served # NoCert /\ crt.iss = served.key /\ served.iss = root

Init ==
  /\ pki = [p \in Profiles |-> NoFiles]
  /\ gen = [r \in Runs |-> Null] /\ srv = [r \in Runs |-> Null]
  /\ cli = [r \in Runs |-> Null] /\ res = [r \in Runs |-> Null]
  /\ perf = [r \in Runs |-> FALSE]
  /\ run = NoRun /\ started = 0 /\ ended = 0

-----------------------------------------------------------------------------
(* gen_chain.sh: one step per command; under set -e a command that finds   *)
(* its input missing or fails ends the script.                             *)
GenStep(r, pc, ok, files, next) ==
  /\ gen[r] # Null /\ gen[r].pc = pc
  /\ IF ok THEN /\ pki' = [pki EXCEPT ![gen[r].p] = files]
                /\ gen' = [gen EXCEPT ![r].pc = next]
     ELSE pki' = pki /\ gen' = [gen EXCEPT ![r].pc = "failed"]
  /\ UNCHANGED <<run, srv, perf, cli, res, started, ended>>

IsDeep(r)   == gen[r].p \in Deep
FilesOf(r)  == pki[gen[r].p]
GenBy(r)    == gen[r] # Null

(* Definitions marked "Bug:" are no part of the specification: each is the *)
(* next definition with a mistake in it, for showing which property fails. *)
(* Bug: the old files are overwritten one by one, not removed first.       *)
WipeNothing(r) == GenBy(r) /\ GenStep(r, "wipe", TRUE, FilesOf(r), "root")

Wipe(r) == GenStep(r, "wipe", TRUE, NoFiles, "root")

MakeRoot(r) == GenBy(r) /\
  GenStep(r, "root", TRUE, [FilesOf(r) EXCEPT !.root = r], IF IsDeep(r) THEN "intreq" ELSE "leafreq")

RequestInt(r) == GenBy(r) /\
  GenStep(r, "intreq", TRUE, [FilesOf(r) EXCEPT !.intreq = r], "int")

IssueInt(r) == GenBy(r) /\
  LET f == FilesOf(r) IN
  GenStep(r, "int", f.root # 0 /\ f.intreq # 0,
          [f EXCEPT !.int = [key |-> f.intreq, iss |-> f.root]], "leafreq")

RequestLeaf(r) == GenBy(r) /\
  GenStep(r, "leafreq", TRUE, [FilesOf(r) EXCEPT !.leaf = r], "leaf")

(* The issuer's certificate and key must belong together.                  *)
IssueLeaf(r) == GenBy(r) /\
  LET f   == FilesOf(r)
      iss == IF ~IsDeep(r) THEN f.root ELSE IF f.int.key = f.intreq THEN f.int.key ELSE 0
  IN GenStep(r, "leaf", f.leaf # 0 /\ iss # 0, [f EXCEPT !.crt = [key |-> f.leaf, iss |-> iss]], "serve")

WriteServed(r) == GenBy(r) /\
  LET f == FilesOf(r) IN
  GenStep(r, "serve", IsDeep(r) => f.int # NoCert,
          [f EXCEPT !.served = IF IsDeep(r) THEN f.int ELSE NoCert], "verify")

VerifyChain(r) == GenBy(r) /\
  LET f == FilesOf(r) IN
  GenStep(r, "verify", Chains(f.root, f.served, f.crt), f, "chain")

(* chain.json: the shell creates the file, jq fills it; a writer whose     *)
(* file was removed in between fills nothing.                              *)
OpenChain(r) == GenBy(r) /\
  LET f == FilesOf(r) IN
  GenStep(r, "chain", f.root # 0 /\ f.crt # NoCert /\ (IsDeep(r) => f.int # NoCert),
          [f EXCEPT !.chain = r, !.whole = FALSE], "fill")

FillChain(r) == GenBy(r) /\
  LET f == FilesOf(r) IN
  GenStep(r, "fill", TRUE, [f EXCEPT !.whole = @ \/ f.chain = r], "meta")

WriteMeta(r) == GenBy(r) /\
  GenStep(r, "meta", TRUE, [FilesOf(r) EXCEPT !.meta = TRUE], "done")

Generate(r) ==
  \/ Wipe(r) \/ MakeRoot(r) \/ RequestInt(r) \/ IssueInt(r) \/ RequestLeaf(r) \/ IssueLeaf(r)
  \/ WriteServed(r) \/ VerifyChain(r) \/ OpenChain(r) \/ FillChain(r) \/ WriteMeta(r)

-----------------------------------------------------------------------------
(* run_scenario.sh, and gen_chain.sh started on its own.                   *)
Go(pc)       == run' = [run EXCEPT !.pc = pc]
Begin(s, p, pc) == run' = [NoRun EXCEPT !.pc = pc, !.scn = s, !.p = p]
StartGen(p)  == gen' = [gen EXCEPT ![started + 1] = [p |-> p, pc |-> "wipe"]]

RunGenChain(p) ==
  /\ run.pc = "idle" /\ started < MaxRuns
  /\ started' = started + 1
  /\ StartGen(p) /\ Begin(Null, p, "gen")
  /\ UNCHANGED <<pki, srv, perf, cli, res, ended>>

(* A profile with a chain.json is not generated again.                     *)
RunScenario(s) ==
  /\ run.pc = "idle" /\ started < MaxRuns
  /\ started' = started + 1
  /\ IF pki[ChainOf[s]].chain = 0
     THEN StartGen(ChainOf[s]) /\ Begin(s, ChainOf[s], "gen")
     ELSE UNCHANGED gen /\ Begin(s, ChainOf[s], "spawn")
  /\ UNCHANGED <<pki, srv, perf, cli, res, ended>>

GenOver ==
  /\ run.pc = "gen" /\ gen[started].pc \in {"done", "failed"}
  /\ IF gen[started].pc = "failed" \/ run.scn = Null THEN run' = NoRun ELSE Go("spawn")
  /\ UNCHANGED <<pki, gen, srv, perf, cli, res, started, ended>>

(* The server is in the background; the script sleeps and goes on.         *)
Spawn ==
  /\ run.pc = "spawn"
  /\ res' = [res EXCEPT ![started] = [scn |-> run.scn, rows |-> <<>>, status |-> "started",
                                      meta |-> "none", chain |-> 0]]
  /\ srv' = [srv EXCEPT ![started] = [st |-> "new", p |-> run.p, group |-> GroupOf[run.scn],
                                      served |-> NoCert, crt |-> NoCert]]
  /\ Go("perf")
  /\ UNCHANGED <<pki, gen, perf, cli, started, ended>>

(* perf stat -p on a server that is gone ends at once.                     *)
AttachPerf(wanted) ==
  /\ run.pc = "perf"
  /\ perf' = [perf EXCEPT ![started] = wanted /\ srv[started] # Null]
  /\ Go("client")
  /\ UNCHANGED <<pki, gen, srv, cli, res, started, ended>>

StartClient ==
  /\ run.pc = "client"
  /\ cli' = [cli EXCEPT ![started] = [st |-> "new", ca |-> 0, code |-> 0]]
  /\ Go("wait")
  /\ UNCHANGED <<pki, gen, srv, perf, res, started, ended>>

(* Bug: the exit code of the client is lost.                               *)
ClientOverUnchecked ==
  /\ run.pc = "wait" /\ cli[started].st = "exited"
  /\ run' = [run EXCEPT !.pc = "stop", !.status = "completed"]
  /\ UNCHANGED <<pki, gen, srv, perf, cli, res, started, ended>>

ClientOver ==
  /\ run.pc = "wait" /\ cli[started].st = "exited"
  /\ run' = [run EXCEPT !.pc = "stop",
                        !.status = IF cli[started].code = 0 THEN "completed" ELSE "failed"]
  /\ UNCHANGED <<pki, gen, srv, perf, cli, res, started, ended>>

(* Bug: perf is waited for while the server it watches goes on.            *)
StopServerNever ==
  /\ run.pc = "stop" /\ Go("waitperf")
  /\ UNCHANGED <<pki, gen, srv, perf, cli, res, started, ended>>

StopServer ==
  /\ run.pc = "stop"
  /\ srv' = [srv EXCEPT ![started] = Null]
  /\ Go("waitperf")
  /\ UNCHANGED <<pki, gen, perf, cli, res, started, ended>>

WaitPerf ==
  /\ run.pc = "waitperf" /\ ~perf[started]
  /\ Go("open")
  /\ UNCHANGED <<pki, gen, srv, perf, cli, res, started, ended>>

OpenResult ==
  /\ run.pc = "open"
  /\ res' = [res EXCEPT ![started].meta = "empty"]
  /\ Go("write")
  /\ UNCHANGED <<pki, gen, srv, perf, cli, started, ended>>

(* jq fails without a chain.json, and takes an empty one for null.         *)
WriteResult ==
  LET f == pki[run.p] IN
  /\ run.pc = "write"
  /\ res' = IF f.chain = 0 THEN res
            ELSE [res EXCEPT ![started].meta = "whole", ![started].status = run.status,
                             ![started].chain = IF f.whole THEN f.chain ELSE 0]
  /\ run' = NoRun
  /\ UNCHANGED <<pki, gen, srv, perf, cli, started, ended>>

Runner ==
  \/ GenOver \/ Spawn \/ StartClient \/ ClientOver \/ StopServer \/ WaitPerf \/ OpenResult
  \/ WriteResult
  \/ \E wanted \in BOOLEAN : AttachPerf(wanted)

-----------------------------------------------------------------------------
(* run_openssl_server.sh and s_server: the files are loaded, then the port *)
(* is bound; either may fail, and the process ends.                        *)
Bound(r) == srv[r] # Null /\ srv[r].st = "bound"

LoadServer(r) ==
  LET f == pki[srv[r].p] IN
  /\ srv[r] # Null /\ srv[r].st = "new"
  /\ srv' = [srv EXCEPT ![r] =
       IF f.root = 0 \/ f.crt = NoCert \/ f.crt.key # f.leaf THEN Null
       ELSE [@ EXCEPT !.st = "loaded", !.served = f.served, !.crt = f.crt]]
  /\ UNCHANGED <<pki, gen, run, perf, cli, res, started, ended>>

BindServer(r) ==
  /\ srv[r] # Null /\ srv[r].st = "loaded"
  /\ srv' = [srv EXCEPT ![r] = IF \E q \in Runs : Bound(q) THEN Null ELSE [@ EXCEPT !.st = "bound"]]
  /\ UNCHANGED <<pki, gen, run, perf, cli, res, started, ended>>

PerfExit(r) ==
  /\ perf[r] /\ srv[r] = Null
  /\ perf' = [perf EXCEPT ![r] = FALSE]
  /\ UNCHANGED <<pki, gen, run, srv, cli, res, started, ended>>

(* tls_bench_client: load the root, one handshake per row, exit code 0     *)
(* whatever the handshakes gave.                                           *)
ClientIn(r, st) == cli[r] # Null /\ cli[r].st = st

LoadClient(r) ==
  LET ca == pki[ChainOf[res[r].scn]].root IN
  /\ ClientIn(r, "new")
  /\ cli' = [cli EXCEPT ![r] = IF ca = 0 THEN [@ EXCEPT !.st = "exited", !.code = 1]
                               ELSE [@ EXCEPT !.st = "running", !.ca = ca]]
  /\ UNCHANGED <<pki, gen, run, srv, perf, res, started, ended>>

(* Bug: the client does not verify the server's chain.                     *)
AcceptsAnyChain(r, q) == srv[q].group = GroupOf[res[r].scn]

(* A row: the server that answered, or Null for a failed handshake.        *)
Accepts(r, q) ==
  srv[q].group = GroupOf[res[r].scn] /\ Chains(cli[r].ca, srv[q].served, srv[q].crt)

(* Bug: the loop runs once too often.                                      *)
HandshakeOnceMore(r) ==
  /\ ClientIn(r, "running") /\ Len(res[r].rows) <= Rows
  /\ res' = [res EXCEPT ![r].rows = Append(@, Null)]
  /\ UNCHANGED <<pki, gen, run, srv, perf, cli, started, ended>>

Handshake(r) ==
  /\ ClientIn(r, "running") /\ Len(res[r].rows) < Rows
  /\ LET peers == {q \in Runs : Bound(q) /\ Accepts(r, q)} IN
     res' = [res EXCEPT ![r].rows = Append(@,
       IF peers = {} THEN Null
       ELSE LET q == CHOOSE q \in peers : TRUE IN
            [p |-> srv[q].p, group |-> srv[q].group, key |-> srv[q].crt.key])]
  /\ UNCHANGED <<pki, gen, run, srv, perf, cli, started, ended>>

ClientExit(r) ==
  /\ ClientIn(r, "running") /\ Len(res[r].rows) = Rows
  /\ cli' = [cli EXCEPT ![r].st = "exited"]
  /\ UNCHANGED <<pki, gen, run, srv, perf, res, started, ended>>

Children(r) ==
  LoadServer(r) \/ BindServer(r) \/ PerfExit(r) \/ LoadClient(r) \/ Handshake(r) \/ ClientExit(r)

-----------------------------------------------------------------------------
(* Early ends.  A signal may hit the client alone.                         *)
EndsBy(e) == e \in Ends /\ ended < MaxEnds /\ ended' = ended + 1

ClientKilled(r) ==
  /\ EndsBy("kill") /\ ClientIn(r, "running")
  /\ cli' = [cli EXCEPT ![r].st = "exited", ![r].code = 1]
  /\ UNCHANGED <<pki, gen, run, srv, perf, res, started>>

(* Bug: no trap is set.                                                    *)
InterruptUntrapped ==
  /\ EndsBy("interrupt") /\ run.pc # "idle"
  /\ run' = NoRun
  /\ gen' = [gen EXCEPT ![started] = Null] /\ cli' = [cli EXCEPT ![started] = Null]
  /\ UNCHANGED <<pki, srv, perf, res, started>>

(* Interrupted from the terminal: the foreground child dies with the       *)
(* script, whose EXIT trap ends perf and the server.                       *)
Interrupt ==
  /\ EndsBy("interrupt") /\ run.pc # "idle"
  /\ run' = NoRun
  /\ gen' = [gen EXCEPT ![started] = Null] /\ cli' = [cli EXCEPT ![started] = Null]
  /\ srv' = [srv EXCEPT ![started] = Null] /\ perf' = [perf EXCEPT ![started] = FALSE]
  /\ UNCHANGED <<pki, res, started>>

(* SIGKILL: no trap, and the children go on.                               *)
Kill ==
  /\ EndsBy("kill") /\ run.pc # "idle"
  /\ run' = NoRun
  /\ gen' = IF run.scn = Null THEN [gen EXCEPT ![started] = Null] ELSE gen
  /\ UNCHANGED <<pki, srv, perf, cli, res, started>>

PowerLoss ==
  /\ EndsBy("power")
  /\ run' = NoRun
  /\ gen' = [r \in Runs |-> Null] /\ srv' = [r \in Runs |-> Null]
  /\ cli' = [r \in Runs |-> Null] /\ perf' = [r \in Runs |-> FALSE]
  /\ UNCHANGED <<pki, res, started>>

-----------------------------------------------------------------------------
Next ==
  \/ \E p \in Profiles : RunGenChain(p)
  \/ \E s \in Scenarios : RunScenario(s)
  \/ Runner
  \/ \E r \in Runs : Generate(r) \/ Children(r) \/ ClientKilled(r)
  \/ Interrupt \/ Kill \/ PowerLoss

Spec == Init /\ [][Next]_vars

(* The operating system runs every process that can run.                   *)
FairSpec ==
  /\ Spec /\ WF_vars(Runner)
  /\ \A r \in Runs : WF_vars(Generate(r)) /\ WF_vars(Children(r))

-----------------------------------------------------------------------------
(* is_valid_run_dir of the analysis scripts.                               *)
Accepted(r) ==
  /\ res[r] # Null /\ res[r].meta = "whole"
  /\ res[r].status = "completed" /\ res[r].rows # <<>>

(* The files, processes and results of the laboratory are what the scripts *)
(* and programs write, start and leave behind.                             *)
TypeOK ==
  /\ started \in 0..MaxRuns /\ ended \in 0..MaxEnds
  /\ run.scn \in Scenarios \cup {Null}
  /\ \A r \in Runs :
       /\ perf[r] \in BOOLEAN
       /\ r > started => gen[r] = Null /\ srv[r] = Null /\ cli[r] = Null /\ res[r] = Null
       /\ res[r] # Null => Len(res[r].rows) <= Rows

(* A handshake that a result counts as a success was with a server of the  *)
(* scenario's chain profile and TLS group, although all the servers share  *)
(* the port, killed scripts leave servers behind, chains are regenerated   *)
(* while servers run, and a new server that finds the port taken just ends.*)
SuccessIsOwn ==
  \A r \in Runs : res[r] # Null =>
    \A i \in 1..Len(res[r].rows) :
      LET row == res[r].rows[i] IN
      row # Null => row.p = ChainOf[res[r].scn] /\ row.group = GroupOf[res[r].scn]

(* The analysis scripts never average over a truncated run: a directory    *)
(* they accept has a row for every run asked for, whatever was killed.     *)
AcceptedIsWhole == \A r \in Runs : Accepted(r) => Len(res[r].rows) = Rows

(* A chain.json, which keeps run_scenario.sh from generating the profile,  *)
(* stands beside a chain that verifies and a key that fits, after any      *)
(* sequence of generations that are not left running behind a killed       *)
(* script.                                                                 *)
UsableChain ==
  \A p \in Profiles : pki[p].chain # 0 =>
    Chains(pki[p].root, pki[p].served, pki[p].crt) /\ pki[p].crt.key = pki[p].leaf

(* The EXIT trap: a script that ends, other than by SIGKILL, leaves no     *)
(* server on the port for the next one.                                    *)
NoServerLeft == run.pc = "idle" => \A r \in Runs : srv[r] = Null

(* Every script comes to its end: neither the client, nor the server it    *)
(* stops, nor the perf that watches the server is waited for in vain.      *)
ScriptsEnd == run.pc # "idle" ~> run.pc = "idle"
=============================================================================
