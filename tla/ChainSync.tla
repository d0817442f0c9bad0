------------------------------ MODULE ChainSync ------------------------------
(***************************************************************************)
(* Chain subscription and block mirroring of the management backend.      *)
(*                                                                         *)
(*  - SubscribeChain (sync.go) builds a client, takes the global pool from *)
(*    GetSdkClientPool (created lazily, no lock), adds the client to the   *)
(*    pool's map and calls LoadChains on the global pool, which starts     *)
(*    Load for EVERY client in the map;                                    *)
(*  - Load reads the highest stored block and starts blockListenStart,    *)
(*    which subscribes from max - 1 and hands each received block to a    *)
(*    one-worker Pool (utils.go) that runs ParseBlockToDB; a block whose   *)
(*    ParseBlockToDB fails is logged and dropped, never retried;           *)
(*  - the stream closing marks the chain NO_WORK and ends the listener;   *)
(*    a failed SubscribeBlock leaves the channel nil.                      *)
(*                                                                         *)
(* The process may restart: goroutines and the in-memory pool are lost,   *)
(* the stored blocks stay.  Nothing in the code re-subscribes at start;   *)
(* a user calls SubscribeChain again.                                      *)
(***************************************************************************)
EXTENDS Integers, FiniteSets, Sequences

CONSTANTS
  Chains,            \* chain ids
  Requests,          \* SubscribeChain requests (SubscribeChainHandler.Handle)
  MaxHeight,         \* blocks the ledger of a chain produces
  MaxPools,          \* SdkClientPool objects that can be allocated
  MaxRestarts,       \* process restarts
  SerialRequests,    \* TRUE: a subscription starts only when the others have returned
  SubscribeMayFail,  \* TRUE: chainClient.SubscribeBlock can return an error
  StreamMayClose,    \* TRUE: the block stream can close (node gone, bad payload)
  ParseMayFail       \* TRUE: ParseBlockToDB can fail (QueryCert, InsertBlockAndTx)

ASSUME SerialRequests \in BOOLEAN /\ SubscribeMayFail \in BOOLEAN /\ StreamMayClose \in BOOLEAN
ASSUME ParseMayFail \in BOOLEAN

Heights == 0..MaxHeight - 1

PoolIds == 1..MaxPools

\* Tasks a listener has handed to its Pool and that are not yet stored: one
\* held by Pool.Run on the unbuffered workerChan, one run by the worker.
PoolSlots == 2

\* Listener goroutines of a Load that has not ended.
Live == {"load", "sub", "recv", "hung"}

VARIABLES
  height,     \* height[c]: blocks on the ledger of chain c
  stored,     \* stored[c]: heights whose block rows InsertBlockAndTx has written
  dropped,    \* dropped[c]: heights whose task failed and was dropped (history)
  noWork,     \* noWork[c]: chain status set to NO_WORK by updateChainNoWork
  global,     \* the package variable sdkClientPool: a pool id, 0 for nil
  poolMap,    \* poolMap[i]: chain ids in pool object i's SdkClients map
  npools,     \* pool objects allocated since the process started
  req,        \* state of each SubscribeChain request
  lst,        \* lst[r][c]: the Load / listener of chain c started by request r
  okSubs,     \* chains whose SubscribeChain returned nil since the last start
  restarts    \* process restarts so far

vars == <<height, stored, dropped, noWork, global, poolMap, npools, req, lst, okSubs, restarts>>

ListenerRec == [pc : {"none", "dead", "closed"} \union Live, next : 0..MaxHeight,
                q : Seq(Heights)]

TypeOK ==
  /\ height \in [Chains -> 0..MaxHeight]
  /\ stored \in [Chains -> SUBSET Heights]
  /\ dropped \in [Chains -> SUBSET Heights]
  /\ noWork \in [Chains -> BOOLEAN]
  /\ global \in 0..MaxPools
  /\ poolMap \in [PoolIds -> SUBSET Chains]
  /\ npools \in 0..MaxPools
  /\ req \in [Requests -> [pc : {"idle", "getpool", "create", "add", "load", "done"},
                           chain : Chains, pid : 0..MaxPools]]
  /\ lst \in [Requests -> [Chains -> ListenerRec]]
  /\ \A r \in Requests, c \in Chains : Len(lst[r][c].q) <= PoolSlots
  /\ okSubs \subseteq Chains
  /\ restarts \in 0..MaxRestarts

NoListener == [pc |-> "none", next |-> 0, q |-> << >>]

Init ==
  /\ height = [c \in Chains |-> 0]
  /\ stored = [c \in Chains |-> {}]
  /\ dropped = [c \in Chains |-> {}]
  /\ noWork = [c \in Chains |-> FALSE]
  /\ global = 0
  /\ poolMap = [i \in PoolIds |-> {}]
  /\ npools = 0
  /\ req \in [Requests -> [pc : {"idle"}, chain : Chains, pid : {0}]]
  /\ lst = [r \in Requests |-> [c \in Chains |-> NoListener]]
  /\ okSubs = {}
  /\ restarts = 0

CanStart == SerialRequests => \A r \in Requests : req[r].pc \in {"idle", "done"}

(***************************************************************************)
(* SubscribeChain.  NewSdkClient and GetChainConfig are reads of the node; *)
(* their failure returns before any state changes and is not modelled.    *)
(* LoadChainRefInfos writes chain metadata and is left out.               *)
(***************************************************************************)
StartSubscribe(r) ==
  /\ req[r].pc = "idle"
  /\ CanStart
  /\ req' = [req EXCEPT ![r].pc = "getpool"]
  /\ UNCHANGED <<height, stored, dropped, noWork, global, poolMap, npools, lst, okSubs, restarts>>

\* GetSdkClientPool reads the package variable; a non-nil pool is returned
\* and assigned back to it.
GetSdkClientPool(r) ==
  /\ req[r].pc = "getpool"
  /\ req' = [req EXCEPT ![r].pc = IF global = 0 THEN "create" ELSE "add",
                        ![r].pid = global]
  /\ UNCHANGED <<height, stored, dropped, noWork, global, poolMap, npools, lst, okSubs, restarts>>

\* It read nil: a new pool with an empty map is stored in the package
\* variable, whatever another request stored there meanwhile.
CreateSdkClientPool(r) ==
  /\ req[r].pc = "create"
  /\ npools < MaxPools
  /\ npools' = npools + 1
  /\ global' = npools + 1
  /\ poolMap' = [poolMap EXCEPT ![npools + 1] = {}]
  /\ req' = [req EXCEPT ![r].pc = "add", ![r].pid = npools + 1]
  /\ UNCHANGED <<height, stored, dropped, noWork, lst, okSubs, restarts>>

\* AddSdkClient writes the chain's client into the map of the pool this
\* request obtained.
AddSdkClient(r) ==
  /\ req[r].pc = "add"
  /\ poolMap' = [poolMap EXCEPT ![req[r].pid] = @ \union {req[r].chain}]
  /\ req' = [req EXCEPT ![r].pc = "load"]
  /\ UNCHANGED <<height, stored, dropped, noWork, global, npools, lst, okSubs, restarts>>

\* sdkClientPool.LoadChains on the package variable: `go sdkClient.Load()`
\* for every client in its map, the other chains' clients included; then
\* SubscribeChain returns nil.
LoadChains(r) ==
  LET loaded == IF global = 0 THEN {} ELSE poolMap[global]
  IN /\ req[r].pc = "load"
     /\ lst' = [lst EXCEPT ![r] = [c \in Chains |->
                  IF c \in loaded THEN [pc |-> "load", next |-> 0, q |-> << >>]
                  ELSE lst[r][c]]]
     /\ okSubs' = okSubs \union {req[r].chain}
     /\ req' = [req EXCEPT ![r].pc = "done"]
     /\ UNCHANGED <<height, stored, dropped, noWork, global, poolMap, npools, restarts>>

(***************************************************************************)
(* Load and blockListenStart.                                              *)
(***************************************************************************)
\* chain.GetMaxBlockHeight: the highest stored height, 0 when none.
GetMaxBlockHeight(c) ==
  IF stored[c] = {} THEN 0 ELSE CHOOSE h \in stored[c] : \A k \in stored[c] : k <= h

\* blockListenStart's first height: one below the highest stored block.
StartBlock(maxBlockHeight) == IF maxBlockHeight > 0 THEN maxBlockHeight - 1 ELSE 0

\* Load reads the max height and starts the listener goroutine.
Load(r, c) ==
  /\ lst[r][c].pc = "load"
  /\ lst' = [lst EXCEPT ![r][c] = [pc |-> "sub", next |-> StartBlock(GetMaxBlockHeight(c)),
                                   q |-> << >>]]
  /\ UNCHANGED <<height, stored, dropped, noWork, global, poolMap, npools, req, okSubs, restarts>>

\* SubscribeBlock(ctx, startBlock, -1, ...) returns the block channel.
SubscribeBlock(r, c) ==
  /\ lst[r][c].pc = "sub"
  /\ lst' = [lst EXCEPT ![r][c].pc = "recv"]
  /\ UNCHANGED <<height, stored, dropped, noWork, global, poolMap, npools, req, okSubs, restarts>>

\* SubscribeBlock returns an error: it is logged, c stays nil and the
\* select that follows never receives.
SubscribeBlockFails(r, c) ==
  /\ SubscribeMayFail
  /\ lst[r][c].pc = "sub"
  /\ lst' = [lst EXCEPT ![r][c].pc = "hung"]
  /\ UNCHANGED <<height, stored, dropped, noWork, global, poolMap, npools, req, okSubs, restarts>>

\* Variant: the listener hands blocks over without waiting for the pool.
ReceiveBlockUnbounded(r, c) ==
  LET l == lst[r][c]
  IN /\ l.pc = "recv"
     /\ l.next < height[c]
     /\ lst' = [lst EXCEPT ![r][c].next = l.next + 1, ![r][c].q = Append(l.q, l.next)]
     /\ UNCHANGED <<height, stored, dropped, noWork, global, poolMap, npools, req, okSubs, restarts>>

\* A block arrives and `pool.EntryChan <- NewTask(storageBlock(blockInfo))`
\* returns once Pool.Run has taken it.
ReceiveBlock(r, c) ==
  LET l == lst[r][c]
  IN /\ l.pc = "recv"
     /\ l.next < height[c]
     /\ Len(l.q) < PoolSlots
     /\ lst' = [lst EXCEPT ![r][c].next = l.next + 1, ![r][c].q = Append(l.q, l.next)]
     /\ UNCHANGED <<height, stored, dropped, noWork, global, poolMap, npools, req, okSubs, restarts>>

\* Variant: the listener returns without updateChainNoWork.
StreamClosedSilently(r, c) ==
  /\ StreamMayClose
  /\ lst[r][c].pc = "recv"
  /\ lst' = [lst EXCEPT ![r][c].pc = "closed"]
  /\ UNCHANGED <<height, stored, dropped, noWork, global, poolMap, npools, req, okSubs, restarts>>

\* The channel is closed (or delivers a value of the wrong type):
\* updateChainNoWork and return.  Tasks already in the Pool still run.
StreamClosed(r, c) ==
  /\ StreamMayClose
  /\ lst[r][c].pc = "recv"
  /\ noWork' = [noWork EXCEPT ![c] = TRUE]
  /\ lst' = [lst EXCEPT ![r][c].pc = "closed"]
  /\ UNCHANGED <<height, stored, dropped, global, poolMap, npools, req, okSubs, restarts>>

\* Variant: the pool runs its tasks in any order.
StoreBlockAnyOrder(r, c) ==
  LET q == lst[r][c].q
  IN /\ lst[r][c].pc # "dead"
     /\ \E i \in 1..Len(q) :
          /\ stored' = [stored EXCEPT ![c] = @ \union {q[i]}]
          /\ lst' = [lst EXCEPT ![r][c].q = [j \in 1..Len(q) - 1 |-> IF j < i THEN q[j] ELSE q[j + 1]]]
     /\ UNCHANGED <<height, dropped, noWork, global, poolMap, npools, req, okSubs, restarts>>

\* The Pool's single worker runs storageBlock: ParseBlockToDB of the oldest
\* task, written by InsertBlockAndTx.
StoreBlock(r, c) ==
  LET q == lst[r][c].q
  IN /\ lst[r][c].pc # "dead"
     /\ q # << >>
     /\ stored' = [stored EXCEPT ![c] = @ \union {Head(q)}]
     /\ lst' = [lst EXCEPT ![r][c].q = Tail(q)]
     /\ UNCHANGED <<height, dropped, noWork, global, poolMap, npools, req, okSubs, restarts>>

\* storageBlock's ParseBlockToDB returns an error (a sender whose certificate
\* QueryCert cannot fetch, a failed InsertBlockAndTx): Task.execute logs it
\* and the worker takes the next task.  Nothing of the block is written.
StoreBlockFails(r, c) ==
  LET q == lst[r][c].q
  IN /\ ParseMayFail
     /\ lst[r][c].pc # "dead"
     /\ q # << >>
     /\ dropped' = [dropped EXCEPT ![c] = @ \union {Head(q)}]
     /\ lst' = [lst EXCEPT ![r][c].q = Tail(q)]
     /\ UNCHANGED <<height, stored, noWork, global, poolMap, npools, req, okSubs, restarts>>

\* The worker runs the oldest task, which succeeds or fails.
RunTask(r, c) == StoreBlock(r, c) \/ StoreBlockFails(r, c)

(***************************************************************************)
(* The environment: the ledger grows, the process restarts.                *)
(***************************************************************************)
ProduceBlock(c) ==
  /\ height[c] < MaxHeight
  /\ height' = [height EXCEPT ![c] = @ + 1]
  /\ UNCHANGED <<stored, dropped, noWork, global, poolMap, npools, req, lst, okSubs, restarts>>

\* Every goroutine and the package variable are lost; the database stays.
Restart ==
  /\ restarts < MaxRestarts
  /\ restarts' = restarts + 1
  /\ global' = 0
  /\ poolMap' = [i \in PoolIds |-> {}]
  /\ npools' = 0
  /\ req' = [r \in Requests |-> IF req[r].pc = "idle" THEN req[r] ELSE [req[r] EXCEPT !.pc = "done"]]
  /\ lst' = [r \in Requests |-> [c \in Chains |->
               IF lst[r][c].pc = "none" THEN lst[r][c] ELSE [pc |-> "dead", next |-> 0, q |-> << >>]]]
  /\ okSubs' = {}
  /\ UNCHANGED <<height, stored, dropped, noWork>>

\* Nothing is left to do but wait for users and blocks.
Idle ==
  /\ \A r \in Requests : req[r].pc \in {"idle", "done"}
  /\ UNCHANGED vars

ListenerStep(r, c) ==
  Load(r, c) \/ SubscribeBlock(r, c) \/ ReceiveBlock(r, c) \/ RunTask(r, c)

Next ==
  \/ \E r \in Requests :
        \/ StartSubscribe(r) \/ GetSdkClientPool(r) \/ CreateSdkClientPool(r)
        \/ AddSdkClient(r) \/ LoadChains(r)
  \/ \E r \in Requests, c \in Chains :
        ListenerStep(r, c) \/ SubscribeBlockFails(r, c) \/ StreamClosed(r, c)
  \/ \E c \in Chains : ProduceBlock(c)
  \/ Restart
  \/ Idle

(***************************************************************************)
(* Goroutines that have started keep running; users, the ledger, failures *)
(* and restarts carry no fairness.                                         *)
(***************************************************************************)
Fairness ==
  /\ \A r \in Requests :
        WF_vars(GetSdkClientPool(r) \/ CreateSdkClientPool(r) \/ AddSdkClient(r) \/ LoadChains(r))
  /\ \A r \in Requests, c \in Chains : WF_vars(ListenerStep(r, c))

Spec == Init /\ [][Next]_vars /\ Fairness

(***************************************************************************)
(* Properties.                                                             *)
(***************************************************************************)
LiveListeners(c) == {r \in Requests : lst[r][c].pc \in Live}

\* Every hole below a stored block of a chain is a block whose ingestion
\* failed: the single worker stores a listener's blocks in order and a
\* restarted listener resumes at or below the first height never handed to
\* the worker, whatever restarts and duplicate listeners do.  (A dropped
\* block itself is never fetched again: spec section 7, no retry.)
NoGap ==
  \A c \in Chains : \A h \in stored[c] : \A k \in 0..h : k \in stored[c] \union dropped[c]

\* Every chain whose SubscribeChain returned nil is in the map of the pool
\* that SaveVote and mgmtContract later read through GetSdkClientPool.
RegistryKeepsSubscribed ==
  \A c \in okSubs : global # 0 /\ c \in poolMap[global]

\* One block listener per subscribed chain (spec section 5).
OneListenerPerChain == \A c \in Chains : Cardinality(LiveListeners(c)) <= 1

\* Every block of chain c has been ingested: stored, or failed and logged.
CaughtUp(c) == \A h \in 0..height[c] - 1 : h \in stored[c] \union dropped[c]

\* The listener of a subscribed chain eventually ingests every block up to
\* the ledger's height, unless it ended and marked the chain NO_WORK or the
\* process restarted.
SubscribedChainCatchesUp ==
  \A c \in Chains :
     c \in okSubs ~> (CaughtUp(c) \/ c \notin okSubs \/ (LiveListeners(c) = {} /\ noWork[c]))

====
