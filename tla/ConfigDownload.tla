--------------------------- MODULE ConfigDownload ---------------------------
(***************************************************************************)
(* The chain configuration download (chain_management/                     *)
(* download_chain_config.go): DownloadChainConfigHandler.Handle builds a   *)
(* release/ tree of per-node directories in the process's working          *)
(* directory, zips it to <chainId>.zip, reads the zip back as the HTTP     *)
(* body and removes it.  Every request uses the same paths: release/, the  *)
(* temporary files bc1.yml and chainmaker.yml, and the zip of its chain.   *)
(* gin serves requests concurrently, so the model runs several requests    *)
(* whose file-system calls interleave.                                     *)
(*                                                                         *)
(* File contents are abstracted to what they were written for: a bc1.yml   *)
(* to the chain and the node's organisation (its trust-root paths), a      *)
(* chainmaker.yml to the chain and the node, the other files of a node     *)
(* directory (log.yml, bin/, lib/, certificates) to the chain.  A file is  *)
(* an inode, so that a write through an open handle lands wherever the     *)
(* file has been renamed to.  The database reads succeed and are constant. *)
(***************************************************************************)
EXTENDS Integers, Sequences, FiniteSets

CONSTANTS
  Chains,      \* chain ids that can be downloaded
  Orgs,        \* organisation ids
  NodeNames,   \* node names
  ChainNodes,  \* [Chains -> Seq(Orgs \X NodeNames)]: GetChainOrgByChainIdList
  Requests,    \* concurrent HTTP requests, each serving one download
  None,
  Empty        \* the contents of a file just created or truncated

\* release/<org>-<node>: a node directory.
Dirs == Orgs \X NodeNames

\* The two temporary files of the working directory.
Temps == {"bc", "cm"}

\* The subdirectories a rename needs: config/<org> and config/<org>/chainconfig.
Subs == {"org", "chainconfig"}

\* Inode <<r, i, k>>: the file request r creates for its i-th node under temp
\* path k when that path is free.
MaxNodes == 3
Inodes == Requests \X (1..MaxNodes) \X Temps

ASSUME \A c \in Chains : /\ ChainNodes[c] \in Seq(Dirs)
                         /\ Len(ChainNodes[c]) \in 1..MaxNodes

NodesOf(c) == {ChainNodes[c][i] : i \in DOMAIN ChainNodes[c]}

BcContent(c, d) == [chain |-> c, org |-> d[1]]

CmContent(c, d) == [chain |-> c, node |-> d]

Contents == {BcContent(c, d) : c \in Chains, d \in Dirs}
              \cup {CmContent(c, d) : c \in Chains, d \in Dirs}

NoFiles == [bc |-> None, cm |-> None, rest |-> None]

VARIABLES
  pc,          \* [Requests -> step]
  want,        \* [Requests -> Chains \cup {None}]: params.ChainId
  idx,         \* [Requests -> 1..MaxNodes]: the chainOrgNode being written
  fd,          \* [Requests -> Inodes \cup {None}]: the open temporary file
  tmp,         \* [Temps -> Inodes \cup {None}]: bc1.yml, chainmaker.yml
  data,        \* [Inodes -> Contents \cup {Empty, None}]
  dirs,        \* SUBSET (Dirs \X Subs): the node subdirectories that exist
  release,     \* [Dirs -> [bc, cm: inode, rest: chain]]: files under release/
  scripts,     \* release/chainmaker, start.sh and quick_stop.sh exist
  zips,        \* [Chains -> snapshot \cup {None}]: <chainId>.zip
  resp,        \* [Requests -> snapshot \cup {Empty, None}]: the body sent
  overlapped   \* [Requests -> BOOLEAN]: another request was in flight

vars == <<pc, want, idx, fd, tmp, data, dirs, release, scripts, zips, resp,
          overlapped>>

Node(r) == ChainNodes[want[r]][idx[r]]

Busy == {q \in Requests : pc[q] \notin {"idle", "done"}}

ReleaseExists == dirs # {} \/ scripts

FileData(i) == IF i = None THEN None ELSE data[i]

\* utils.Zip("release", ...): every node directory holding a file, with
\* the contents its files have now, and the top-level scripts.
Snapshot ==
  [files   |-> [d \in {e \in Dirs : release[e] # NoFiles} |->
                  [bc |-> FileData(release[d].bc), cm |-> FileData(release[d].cm),
                   rest |-> release[d].rest]],
   scripts |-> scripts]

EmptyZip == [files |-> [d \in {} |-> NoFiles], scripts |-> FALSE]

\* What the zip of chain c holds when nothing disturbs its construction.
Expected(c) ==
  [files   |-> [d \in NodesOf(c) |->
                  [bc |-> BcContent(c, d), cm |-> CmContent(c, d), rest |-> c]],
   scripts |-> TRUE]

Init ==
  /\ pc = [r \in Requests |-> "idle"]
  /\ want = [r \in Requests |-> None]
  /\ idx = [r \in Requests |-> 1]
  /\ fd = [r \in Requests |-> None]
  /\ tmp = [k \in Temps |-> None]
  /\ data = [i \in Inodes |-> None]
  /\ dirs = {}
  /\ release = [d \in Dirs |-> NoFiles]
  /\ scripts = FALSE
  /\ zips = [c \in Chains |-> None]
  /\ resp = [r \in Requests |-> None]
  /\ overlapped = [r \in Requests |-> FALSE]

-----------------------------------------------------------------------------
\* Mutant: createBc without its RemoveAll("release/").
ReceiveKeepsRelease(r, c) ==
  /\ pc[r] = "idle"
  /\ want' = [want EXCEPT ![r] = c]
  /\ overlapped' = [q \in Requests |->
                      IF q = r THEN Busy # {} ELSE overlapped[q] \/ q \in Busy]
  /\ idx' = [idx EXCEPT ![r] = 1]
  /\ pc' = [pc EXCEPT ![r] = "bcCreate"]
  /\ UNCHANGED <<fd, tmp, data, zips, resp, dirs, release, scripts>>

(* Handle up to createBc's RemoveAll("release/"): the request binds its    *)
(* chain id and wipes the whole tree, whoever is building it.              *)
Receive(r, c) ==
  /\ pc[r] = "idle"
  /\ want' = [want EXCEPT ![r] = c]
  /\ overlapped' = [q \in Requests |->
                      IF q = r THEN Busy # {} ELSE overlapped[q] \/ q \in Busy]
  /\ dirs' = {}
  /\ release' = [d \in Dirs |-> NoFiles]
  /\ scripts' = FALSE
  /\ idx' = [idx EXCEPT ![r] = 1]
  /\ pc' = [pc EXCEPT ![r] = "bcCreate"]
  /\ UNCHANGED <<fd, tmp, data, zips, resp>>

\* os.Create(path): truncates the file at path if there is one, so both
\* requests then hold the same inode; otherwise makes a fresh file.
CreateTemp(r, k, next) ==
  LET ino == IF tmp[k] # None THEN tmp[k] ELSE <<r, idx[r], k>>
  IN /\ tmp' = [tmp EXCEPT ![k] = ino]
     /\ fd' = [fd EXCEPT ![r] = ino]
     /\ data' = [data EXCEPT ![ino] = Empty]
     /\ pc' = [pc EXCEPT ![r] = next]
     /\ UNCHANGED <<want, idx, dirs, release, scripts, zips, resp, overlapped>>

\* f.Write(bytes) through the handle, then os.MkdirAll of the target
\* directory (chainconfig lies under config/<org>).
WriteTemp(r, content, subs, next) ==
  /\ data' = [data EXCEPT ![fd[r]] = content]
  /\ dirs' = dirs \cup ({Node(r)} \X subs)
  /\ pc' = [pc EXCEPT ![r] = next]
  /\ UNCHANGED <<want, idx, fd, tmp, release, scripts, zips, resp, overlapped>>

\* os.Rename(temp, release/<dir>/...): moves whatever file the temp path
\* names now; fails when the path is gone or the directory was removed.
RenameOK(r, k, sub) == tmp[k] # None /\ <<Node(r), sub>> \in dirs

MoveTemp(r, k) ==
  /\ release' = [release EXCEPT ![Node(r)][k] = tmp[k]]
  /\ tmp' = [tmp EXCEPT ![k] = None]

\* removeBc, one chainOrgNode per round: Create, Write, MkdirAll, Rename.
\* A failed Rename is only logged and the loop goes on; after the last node
\* createBc returns and Handle starts createChainmaker on the first node.
BcCreate(r) == pc[r] = "bcCreate" /\ CreateTemp(r, "bc", "bcWrite")

BcWrite(r) ==
  /\ pc[r] = "bcWrite"
  /\ WriteTemp(r, BcContent(want[r], Node(r)), Subs, "bcRename")

BcRename(r) ==
  /\ pc[r] = "bcRename"
  /\ \/ RenameOK(r, "bc", "chainconfig") /\ MoveTemp(r, "bc")
     \/ ~RenameOK(r, "bc", "chainconfig") /\ UNCHANGED <<release, tmp>>
  /\ IF idx[r] < Len(ChainNodes[want[r]])
     THEN /\ idx' = [idx EXCEPT ![r] = @ + 1]
          /\ pc' = [pc EXCEPT ![r] = "bcCreate"]
     ELSE /\ idx' = [idx EXCEPT ![r] = 1]
          /\ pc' = [pc EXCEPT ![r] = "cmCreate"]
  /\ UNCHANGED <<want, fd, data, dirs, scripts, zips, resp, overlapped>>

\* createChainmaker: Create, Write, MkdirAll config/<org>, Rename.  A
\* failed Rename returns before log.yml; Handle logs it and goes on.
CmCreate(r) == pc[r] = "cmCreate" /\ CreateTemp(r, "cm", "cmWrite")

CmWrite(r) ==
  /\ pc[r] = "cmWrite"
  /\ WriteTemp(r, CmContent(want[r], Node(r)), {"org"}, "cmRename")

CmRename(r) ==
  /\ pc[r] = "cmRename"
  /\ \/ RenameOK(r, "cm", "org") /\ MoveTemp(r, "cm")
     \/ ~RenameOK(r, "cm", "org") /\ UNCHANGED <<release, tmp>>
  /\ pc' = [pc EXCEPT ![r] = "nodeRest"]
  /\ UNCHANGED <<want, idx, fd, data, dirs, scripts, zips, resp, overlapped>>

\* createBinAndLib and createCert: MkdirAll bin/, lib/ and config/<org>/certs
\* and write the node's binaries, scripts and certificates.
\* createCert's MkdirAll of config/<org>/certs/{node,user,ca}/...: it
\* recreates config/<org> whatever removed it.
CertDirs(r) == {<<Node(r), "org">>}

NodeRest(r) ==
  /\ pc[r] = "nodeRest"
  /\ dirs' = dirs \cup CertDirs(r)
  /\ release' = [release EXCEPT ![Node(r)].rest = want[r]]
  /\ IF idx[r] < Len(ChainNodes[want[r]])
     THEN /\ idx' = [idx EXCEPT ![r] = @ + 1]
          /\ pc' = [pc EXCEPT ![r] = "cmCreate"]
     ELSE /\ UNCHANGED idx
          /\ pc' = [pc EXCEPT ![r] = "scripts"]
  /\ UNCHANGED <<want, fd, tmp, data, scripts, zips, resp, overlapped>>

\* createChainmakerAndScript: os.Create("release/chainmaker") fails when
\* release/ is gone, and the function returns before zipping.
Scripts(r) ==
  /\ pc[r] = "scripts"
  /\ \/ ReleaseExists /\ scripts' = TRUE /\ pc' = [pc EXCEPT ![r] = "zip"]
     \/ ~ReleaseExists /\ UNCHANGED scripts /\ pc' = [pc EXCEPT ![r] = "read"]
  /\ UNCHANGED <<want, idx, fd, tmp, data, dirs, release, zips, resp, overlapped>>

\* utils.Zip("release", chainId+".zip").  Its source is not in the
\* repository: when release/ has vanished, it may leave the old zip or an
\* empty one.
Zip(r) ==
  /\ pc[r] = "zip"
  /\ \/ ReleaseExists /\ zips' = [zips EXCEPT ![want[r]] = Snapshot]
     \/ ~ReleaseExists /\ \E z \in {zips[want[r]], EmptyZip} :
                            zips' = [zips EXCEPT ![want[r]] = z]
  /\ pc' = [pc EXCEPT ![r] = "read"]
  /\ UNCHANGED <<want, idx, fd, tmp, data, dirs, release, scripts, resp, overlapped>>

\* ioutil.ReadFile(chainId+".zip") and ctx.Writer.Write: a missing zip is
\* logged and answered with an empty 200 body.
ReadZip(r) ==
  /\ pc[r] = "read"
  /\ resp' = [resp EXCEPT ![r] = IF zips[want[r]] # None THEN zips[want[r]]
                                                        ELSE Empty]
  /\ pc' = [pc EXCEPT ![r] = "rmzip"]
  /\ UNCHANGED <<want, idx, fd, tmp, data, dirs, release, scripts, zips, overlapped>>

\* The deferred os.RemoveAll(chainId+".zip"), whoever's zip it is by now.
RemoveZip(r) ==
  /\ pc[r] = "rmzip"
  /\ zips' = [zips EXCEPT ![want[r]] = None]
  /\ fd' = [fd EXCEPT ![r] = None]
  /\ pc' = [pc EXCEPT ![r] = "done"]
  /\ UNCHANGED <<want, idx, tmp, data, dirs, release, scripts, resp, overlapped>>

\* Every request has been answered: the model's bounded load is served.
Served == \A r \in Requests : pc[r] = "done"

Terminated == Served /\ UNCHANGED vars

Next ==
  \/ \E r \in Requests, c \in Chains : Receive(r, c)
  \/ \E r \in Requests :
       \/ BcCreate(r) \/ BcWrite(r) \/ BcRename(r)
       \/ CmCreate(r) \/ CmWrite(r) \/ CmRename(r) \/ NodeRest(r)
       \/ Scripts(r) \/ Zip(r) \/ ReadZip(r) \/ RemoveZip(r)
  \/ Terminated

Spec == Init /\ [][Next]_vars

-----------------------------------------------------------------------------
(* A download that no other download overlapped answers with exactly its   *)
(* chain's configuration: one directory per node of the chain, each with   *)
(* the bc1.yml and chainmaker.yml written for it and the node's other      *)
(* files, and the start scripts; nothing left by an earlier download of    *)
(* another chain, whatever earlier overlapping downloads left behind       *)
(* (createBc's RemoveAll, os.Create's truncation of a leftover temp file). *)
DownloadComplete ==
  \A r \in Requests :
    pc[r] = "done" /\ ~overlapped[r] => resp[r] = Expected(want[r])

=============================================================================
