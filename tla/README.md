# A verification project for bee-snips-sup

`src/code/bee-snips-sup` is a fork of the Swarm node Bee with two additions:
**SNIPS** (`pkg/snips`), by which neighbours find out and repair which chunks of
their common neighbourhood one of them lacks, and **POS** (`pkg/pos`), by which
the owner of a file challenges the network to prove that its chunks are stored
and pushes again the ones nobody proves. `src/code/evaluation` holds
command-line experiments. This directory holds TLA+ modules that model the two
protocols and the parts of Bee they rest on (push sync, pull sync, the local
store, accounting, transactions), TLC configurations that check them on small
instances, and proofs of the most important results for every instance, which
TLAPS checks.

`PROJECT.json` lists components, runs, mutants (a mutant is an operator that
changes one definition as a plausible bug would; each property is violated by
one), hazards, findings, theorems, and which lines of the source each
definition stands for.

Run the tools in this directory: `tlc -config snips_two.cfg MCSnips`,
`tlapm SnipsProofs.tla`.

## 1. Inventory

All paths are under `src/code/bee-snips-sup/pkg` unless they start otherwise.

| component | state | operations | interaction |
|---|---|---|---|
| SNIPS exchange `snips/{snips,proof,expectedvals}.go` | `mapValToChunkId[nonce][value]`, the semaphores `sem` (50) and `semmaintain` (5), `Options.Enabled` | `CreateAndSendProofForMyChunks`, handlers of Proof, Maintain, Request, Neighbors | streams to neighbours, reads `localstore`, uploads over a stream of `pushsync`, asks `topology` for depth and neighbours |
| SNIPS worker `snips/snips.go` | two goroutines, `lastBlock`, the channels `quit`, `done`, `blockNumber` | `Start`, `Close`, poll, hand-off | reads the chain, calls the exchange |
| MPHF construction `snips/proof.go` | gamma, the function, the nonce's mapping under `mapVTCMu` | `CreateMPHF` | `go-bbhash` (external) |
| Proof of storage `pos`, `pos/sender` | one challenge per chunk, `skipPeers` and `retries` per `SendClosest` call | `Reupload`, `handler`, `processChallenge`, `handleResponse`, `pushChunk` | forwards along `topology.ClosestPeer`, reads `localstore`, pushes with `pushsync` |
| Kademlia `topology/{kademlia,pslice}` | connected and known peers by bin, depth, own reachability, waiting times | connect, disconnect, prune, `ClosestPeer`, `EachNeighbor`, `NeighborhoodDepth` | used by every protocol; told of reachability by libp2p |
| Push sync `pushsync`, `skippeers` | skip lists of chunks, warm-up | `PushChunkToClosest`, `pushToClosest`, `handler` | concurrent attempts at several peers, accounting of each, receipts |
| Puller, pull sync, intervals `puller`, `pullsync`, `intervalstore`, `bitvector` | cursors per peer, intervals per peer and bin, one context per worker | manage, history and live workers, offer/want | topology changes, localstore subscriptions |
| Local store `localstore`, `sharky`, `shed` | indexes, gc size, reserve, slots of shards | put, get, set, gc, reserve eviction, iteration | leveldb batches, postage |
| Accounting, settlement `accounting`, `settlement/*` | balance, reserved, shadow reserve, surplus per peer; times of refreshments; cheques | prepare/apply debit and credit, pay, refresh, blocklist | every paid protocol |
| Postage `postage/{batchstore,batchservice,listener}` | batches, value tree, chain state, radius | create, top up, deepen, put chain state, unreserve | listens to the chain; evicts from the localstore |
| Transactions `transaction` | nonces, pending transactions, watches | send, resend, cancel, monitor | the chain backend |
| Storage incentives `storageincentives` | phase, sample, reveal key | commit, reveal, claim | batch store, sampler, chain |
| Retrieval, pusher `retrieval`, `pusher`, `netstore` | in-flight pushes and retrievals, attempts | fetch, push loop | like push sync |
| Network `p2p/libp2p`, `hive`, `blocker`, breaker, reacher | peers, streams, blocklist, breaker, ping times | connect, stream, gossip | below everything |
| Formats `file`, `bmt`, `manifest`, `encryption`, `feeds`, `traversal` | none | encode, decode, walk | pure |
| API, node, CLI `api`, `node`, `src/code/bee-snips-sup/cmd` | wiring, `Enabled` switches | HTTP handlers | trigger everything |
| Evaluation `src/code/evaluation` | none | experiments | HTTP calls to a network |

### What is hard, and what makes each component correct

*SNIPS exchange.* Three handlers at two peers, a worker and the API run
concurrently; the creator keeps **one mapping per nonce**, so every new proof
for the nonce replaces what pending Maintain messages refer to. Chunks are
evicted and processes restart between any two messages; a stream that cannot be
opened is used all the same and takes the process down. Sender and receiver
judge "neighbour" each by its own depth. Correct means: only chunks that were
proved for the nonce are uploaded, and only to peers that accept the creator;
the chunks uploaded are the ones asked for; the receiver is complete when
nothing went wrong; the handlers end; neighbours converge.

*SNIPS worker.* Three unbuffered channels between two goroutines and `Close`.
Correct: no nonce twice, `Close` returns, the goroutines end.

*MPHF construction.* A `for` loop over a float, re-entered by `goto` past its
test, replacing the nonce's mapping before it knows that it will succeed.
Correct: a returned function and the mapping fit; the loop ends.

*Proof of storage.* The challenge is forwarded hop by hop; each hop has its own
view of the network, of its own reachability and of whom it has tried; once the
challenge is written nobody else is tried. Correct: a chunk counted as proved
was stored by a node deep enough, a stored chunk is not pushed again when
nothing failed, every chunk gets a status, cancelling works.

*Push sync.* Concurrent attempts, a timer that is set from several places, a
skip list that all pushes of the chunk share, results that arrive after their
call has returned. Correct: a receipt is signed by a node that stored the
chunk, the budget of attempts holds, calls end, the chunk is at last synced.

*Puller.* Workers of several sessions of the same peer and bin read, change and
write one interval record without a lock; cursors outlive the peer. Correct: an
interval is marked only when its chunks are stored (or cannot be had), and no
chunk between history and live is forgotten.

*Local store.* Six indexes, two sizes and the slots change in one batch, but
what a batch is computed from may be read before the lock, and a batch store
calls in without it. Correct: a chunk in the index has its data in a slot of
its own, the cache holds nothing that is pinned, its size is covered by the
counter that garbage collection goes by.

*Accounting.* Two peers keep two books of the same requests, refreshments and
cheques, entered at different times. Correct: the books cancel out but for what
is in transit, debts are bounded, nobody is blocklisted for what was under way.

*Transactions.* The backend takes a transaction before three writes remember
it; the monitor's round takes several calls of the backend, over maps that
change meanwhile, of a chain that is reorganised. Correct: nonces without reuse
or gaps, cancelled only what has lost its nonce, nothing pending for ever.

*Kademlia:* depth never counts unreachable peers; peers balanced per bin.
*Postage:* a chunk of a live batch outside the reserve is evictable, the radius
follows capacity. *Storage incentives:* reveal only after commit of the same
round. These have no module of their own yet.

## 2. Plan

| step | modules | abstract specification | theorems |
|---|---|---|---|
| done | `Snips`, `SnipsSync`, `ChunkSync`, `MCSnips` | `ChunkSync` | type, `UploadsWereProved`, refinement |
| done | `SnipsWorker` and `CreateMPHF`, composed in `SnipsProving` | | |
| done | `Pos`, `Pushsync`, `Puller`, `Localstore`, `Accounting`, `Transactions`, each with its MC module | | |
| done | `SnipsProofs`, extended; `SnipsProvingProofs`, `PosProofs`, `PushsyncProofs`, `PullerProofs`, `AccountingProofs`, `TransactionsProofs`, `LocalstoreProofs` | | section 5 |
| open | `Kademlia` (bins, depth, pruning), `BatchStore`, `Incentives`, `Breaker` | | depth recomputation |

The modules are written for that: parameters are constants with named
assumptions, a handler is an action, and nothing is declared RECURSIVE.

Where components meet, a model has what the other promises: `Snips` has a
store as a set, and the peer's push sync handler stores or fails (which
`Pushsync` and `Localstore` look into); `Pos` pushes by one step that
`Pushsync` takes apart; `Puller` takes the store's `Put` for atomic;
`Accounting` has of a retrieval the order of its calls.

## 3. The modules

### Snips

One action per handler, cut where the code waits for another party:

| action | code |
|---|---|
| `CreateAndSendProofForMyChunks`, `NewProof` | `CreateAndSendProofForMyChunks` up to the end of the iteration in `GetChunksInMyRadius` (a snapshot of the index); as a fault the iterator stops early and nobody is told (`snips.go:606`) |
| `CreateMPHF` | the part under `mapVTCMu`: the function is built and the nonce's mapping replaced |
| `SendProof` | one call of `PeerFunc`; nothing is sent for an empty proof |
| `handlerIncomingProof` | that function with `verifySignature`, `FindMissingChunks` and the sending of the Maintain |
| `handlerIncomingMaintain` | up to the first push: `Enabled` is tested once, then the handler may wait for a slot of `semmaintain` ("waiting"), then `GetMissingChunks` |
| `PushChunk`, `handlerPushsync` | a round of `uploadMissingChunks`; the peer's push sync handler stores the chunk |
| `UploadDone`, `UploadDoneReceived` | the acknowledgement, and the Request that may follow |
| `handlerIncomingRequest` | a new proof for the same nonce |
| `MPHFFails`, `SendProofFails`, `RetrieveFails`, `UploadDoneLost`, `PushFails`, `RequestFails`, `Evict`, `SetEnabled`, `Crash` | the error paths and the environment, each a fault |

State: `store[n]` (localstore), `mapValToChunkId[n][nonce]`, `enabled[n]`, the
proofs made (`proofs`), and for each proof and receiver both ends of their
exchange (`session`): where the receiver's and the creator's handlers are, the
values asked for, the chunks still to push. `triggers` and `faults` only count.

Abstractions: a chunk is its address, a number; the chunk proof (hash of nonce
and data) is injective, so an MPHF is a function of chunks. `MPHFs(base)` is
every function a minimal perfect hash may be: a bijection on `base`, and any
value or 0 for chunks it was not built for (`ForeignHits`). That bbhash keeps
this promise is assumed here; `CreateMPHF` looks at what happens when it does
not. Signatures and encodings hold. Streams lose messages by failing; they do
not duplicate or reorder.

`ChunkSync` is the abstract specification: peers advertise chunks of their
radius that they store, and a chunk is added to a store only when a peer of the
receiver's neighbourhood has advertised it. `SnipsSync` gives the mapping:
`advertised` is the union of the bases of a peer's proofs.

### SnipsWorker, CreateMPHF, SnipsProving

The watcher (`select`, `poll`, `send`), the worker (`select`, `prove`, `done`)
and `Close` meet over unbuffered channels: `HandOff`, `Quit` and `Done` are
joint steps. A failed `HeaderByNumber` is logged and its nil result used
(`snips.go:491-494`): the watcher panics.

`CreateMPHF` is the loop with gamma counted in halves. `NewSerialFails` is the
`continue` (and the loop's `i++`, which is 2 halves), `Collision` the `goto`. A
mapping is the partial function it is between two assignments. `Call` starts
it, `Step` is one step of it.

`SnipsProving` composes the two: the hand-off of a block calls `CreateMPHF`,
and the worker is back at its select only when that has returned, while polls,
`Close` and new blocks go on. So a construction that does not end shows up as a
`Close` that does not return.

### Pos

The challenge for a chunk is the stack `path` of `SendClosest` calls: each
handler on the way waits for the next. `Forward` sends the challenge,
`SendFails` is a failed attempt with a retry left or not, `NoPeer` and
`processChallenge` are `ErrNotFound` and `ErrWantSelf`, `Return` a handler that
passes the answer back, `handleResponse` and `pushChunk` the two halves of
`reuploadChunk` after its `SendClosest`. `Candidates` is `Kad.ClosestPeer`: a
node counts itself only when it is asked by its handler and its own
reachability is public. Distances are numbers that differ for different nodes;
`Radius` is the origin's depth. `holders` is a history variable.

### Pushsync

One chunk, an origin with the pusher and other callers, and the nodes on the
way. A path of nodes names a stream: `loop[q]` is the call of `pushToClosest` at
the end of path q, `push[q]` the `pushPeer` goroutine that opened it.

| action | code |
|---|---|
| `PusherPushes`, `PusherReturns` | the pusher's loop: push, `checkReceipt`, retry or `SetSync`, which may fail (as a fault: the chunk is pushed again later) |
| `OtherPushes`, `OtherReturns` | another caller of `PushChunkToClosest` (upload with direct push, POS, SNIPS), as a fault |
| `TimerFires`, `NoPeer`, `WantSelf`, `NextPeer`, `OnResult`, `CtxDone` | the cases of the `select` in `pushToClosest` |
| `Deliver`, `PushFails`, `Discard` | `pushPeer`: the delivery, an error, a result nobody waits for |
| `Store`, `StoreFails`, `Reply`, `Deferred`, `ReplyError` | `handler`: storing, and answering after its own `pushToClosest` |
| `Replicate` | `pushToNeighbour` |
| `WarmUp`, `Expire` | the end of the warm-up, and of a peer's time on the skip list |

Nodes are numbered by their distance from the chunk. The timer is Go's: a
deadline and a channel of one element, so that a tick may be left over from an
earlier setting. `Late` names the steps in which a peer takes longer than
`p90TTL`. Payments are `Accounting`'s.

### Puller

One peer and one bin. `manage` is the goroutine of that name, with a step at
each point where it has let go of a lock (`OnTopologyChange`, `SyncPeer`,
`GetCursors`, `StartBin`, `Recalc`, `DisconnectPeer`); `worker[w]` a
historical or a live worker, old ones of earlier sessions included:
`NextInterval`, `MakeOffer` (the peer's `IntervalChunks`), `Deliver` (want,
`processWant`, deliveries, `Put`), `ReadIntervals` and `WriteIntervals` (the
two halves of `addPeerInterval`), `Stop`. `ClearCursors` and `ClearSyncPeers`
are what `ClearCursors` does under its two locks; `NilSyncPeer` is the nil
pointer it may leave to `manage`. The peer puts and evicts chunks.
`SetEnabled` is the node's own switch: while it is off, `manage` takes a change
of the topology and does nothing with it (`puller.go:128`), and no one repeats
it; `missed` is a history variable that says so. A live worker whose iteration
fails has `MaxUint64` for the end of its interval: it stores what it was
offered before, and ends without an entry.
`skipped` is a history variable: what a failed iteration of the peer's index
left out.

### Localstore

The chunks of one batch. `db` is what LevelDB holds: the location of a chunk
(data, postage and pull index), the access index, the push index, the gc index
in its order, pins, the stamp indexes, the batch's radius and both sizes.
`PutChunk` with `ModePutUploadPin` pins a chunk even if it drops it, because its
stamp is not later than the one stored.
A batch of updates is a record `t` that the helpers named after the code's
(`PutChunk`, `SetPin`, `SetUnpin`, `SetRemove`, ...) extend; `Put`, `SetSync`,
`Pin`, `Unpin` and `RemoveChunk` write it in one step, as they hold `batchMu`.
What the code does in several steps is several actions: `CollectStart` reads
the candidates without the lock and `CollectCommit` removes them; `GetLocation`
and `GetData` read the index and the slot, `UpdateGC` is the goroutine that
follows; `UnpinRead`, `UnpinWrite`, `BinDone`, `UnreserveDone` are
`UnreserveBatch`, begun by `EvictReserve` (which holds the lock) or by `Expire`
(the batch store, which does not). `Restart` recovers the free slots from the
index. `past` remembers whether an update met another's (`race`): the
invariants of the cache are stated without it, as the code has no lock there.

### Accounting

Two peers; `acc[n]` is what n keeps of the other: balance, surplus, originated
balance, reserves, and the refreshment and the cheque under way.

| action | code |
|---|---|
| `PrepareCredit`, `ApplyCredit`, `CleanupCredit` | of the requester, with `settle` |
| `PrepareDebit`, `Deliver`, `ApplyDebit`, `CleanupDebit` | of the peer that serves |
| `RefreshAccept`, `RefreshReceived` | pseudosettle's handler, and `NotifyRefreshmentReceived` |
| `RefreshSent` | `NotifyRefreshmentSent` after an answer, with its expectation and the blocklisting |
| `RefreshFails` | `NotifyRefreshmentSent` with any error of pseudosettle's `Pay`: a stream that is not opened or breaks before or after the other peer has accepted, the timeout, an answer that comes too late (`Late`), a store that fails. It blocklists the peer, unless that was not found |
| `PaymentReceived`, `PaymentSent`, `PaymentFails` | `NotifyPaymentReceived`, `NotifyPaymentSent`; after a failure no cheque for `failedSettlementInterval` |
| `Tick` | a second |

### Transactions

A transaction is one call of `Send` or `CancelTransaction`, which goes from
step to step (`SendTransaction`, `putNonce`, `putTransaction`, `putPending`) and
may fail or be cut off between any two. `Unregister` is the end of the
goroutine of `waitForPendingTx`, which `WatchFails` ends with an error instead of
a watch; `NewService` watches again what is pending.
The monitor: `Poll` and `potentiallyConfirmedTxWatches` begin a round,
`TransactionReceipt` looks up one receipt, `Notify` answers the watches.
`WatchTransaction` may come at any time, also for a nonce whose receipts are
being looked up. `BlockNumber` and the first `NonceAt` are calls at different
times: a `Reorganise` between them may change the nonce the round has (`age` is
the number of blocks since the first call); the second `NonceAt` is of a block
that no reorganisation reaches. `reorged` is a history variable: blocks were
replaced since the round's first look-up of a receipt. The backend is external: `NewBlock`, `Reorganise` (less deep
than `cancellationDepth`), `ForeignTransaction`, `Vanish`. The height of the
chain is not kept, only how many nonces were used so many blocks ago, so blocks
come without end in a finite model.

## 4. What the runs check

| run | instance | shows |
|---|---|---|
| `snips_two` | 2 neighbours and a third peer that one of them does not accept, 3 chunks, 1 nonce, 2 proofs, 1 fault; chunk 3 outside a creator's radius | `TypeOK`, `SoleProofIsAnswered`, `CompleteWhenClean`, `UploadsWereProved`, `ImplementsChunkSync` |
| `snips_ends` | 2 peers, all stores over 2 chunks, one slot in each semaphore, 1 fault, fair | `ExchangeEnds`, `Converges` |
| `pos_routes` | all symmetric topologies of 4 nodes, any nodes public, any nodes storing, 1 fault, fair | `ProofOfStorage`, `NeighbourhoodProves`, `ReuploadReturns`, `CancelReturns` |
| `proving` | interval 3, height up to 9, 3 chunks, gammas 2 to 3, every function bbhash may return, fair | `ProvingTypeOK`, `NoncesIncrease`, `MappingFits`, `Terminates`, `CloseReturns`, `OnlyAHandOffBlocksTheEnd` |
| `pushsync` | 6 networks of up to 5 nodes, one node unsure of its own reachability or not warmed up in two of them, 2 pushes, 4 peers, 1 fault, fair | `ReceiptMeansStored`, `OnePushTooManyAtMost`, `SyncedInNeighbourhood`, `CallsEnd`, `EventuallySynced` |
| `puller` | 2 bin ids, one of them possibly with an invalid stamp, 3 workers at a time, 2 changes of the topology or the switch, 1 `ClearCursors`, 1 fault, fair | `TypeOK`, `IntervalsCovered`, `NoStrayWorkers`, `EventuallyPulled` |
| `localstore` | 3 chunks, two of them with the same stamp index, 4 slots, 3 calls, 1 fault, fair | `TypeOK`, `DataIsThere`, `CacheIsUnpinned`, `GCSizeCoversCache`, `GetReturnsData`, `CollectKeepsPinned`, `CacheShrinks` |
| `accounting` | 2 requests one way and 1 the other, 3 seconds, 2 faults | `BooksBalance`, `DebtIsBounded`, `BlocksOnlyDebtors`, `OwnDebtIsOwed` |
| `transactions` | 2 transactions, one awaited by another caller too, final after 2 confirmations, 1 fault, fair | `NoncesInOrder`, `CancelledIsLost`, `PendingEnds` |

The remaining runs are expected to fail and record where the code and its
comments disagree:

| run | comment | what the code does |
|---|---|---|
| `snips_stale` | `snips.go:164` "uploads the chunks that are missing (requested)" | a second proof for the nonce replaces the mapping: the Maintain for the first is answered with other chunks |
| `puller_complete` | `pullstorage.go:142` "end of interval reached. no more chunks so interval is complete" | the channel is closed also when the iteration of the index failed; the interval is sealed with chunks never offered |
| `localstore_put` | `mode_put.go:60` "put stores Chunks to database and updates other indexes" | `setUnpin` makes a gc entry without a stamp index; its collection removes the stamp index entry 0 and leaves its own, and a later chunk with that stamp index is dropped |

Some properties are kept by the code only with an exception, which they state:

* `BlocksOnlyDebtors` excepts a refreshment that crosses one of the other peer,
  which is entered on one side only (`Crossed`), and one that ends with an error
  (`Broken`): the code then blocklists the creditor that was to be paid.
* `DebtIsBounded` excepts a peer to whom the other has sent a refreshment
  (`NeverRefreshed`), which may carry it beyond its limit.
* `CancelledIsLost` excepts watches that join a nonce after its receipts were
  looked up: they are told `ErrTransactionCancelled` though their transaction may
  be mined; typically at a restart, when a transaction and its cancellation are
  both pending. And it excepts nonces that were not final when the round began,
  if blocks were replaced during the round: the receipt of a competitor was seen
  and may be gone again.
* `EventuallyPulled` excepts a change of the topology that came while the switch
  was off.
* The invariants of the cache except behaviours in which `UnreserveBatch` of an
  expired batch met another update.

Noted while modelling, without a run of their own:

* `snips.go:469` "For each s.o.BlockInterval-th block": intervals that pass
  between two polls, or while the worker is busy, are skipped
  (`PollProvingBlock`).
* `proof.go:95` "until the maximum": `goto` skips the loop's test, so gamma may
  pass the maximum, and `Close` waits for it (`Terminates`, `CloseReturns`).
  "incremented by 0.5": a failed construction adds 1 (`NewSerialFails`).
* `sender.go:20` "If the closest peer is this node itself, the error returned
  will be topology.ErrWantSelf": a node that is not public forwards away from
  the chunk; two of them send a challenge in circles (`Candidates`).
* `snips.go:410` "enters a loop which will terminate when there are no missing
  chunks": `RetrieveMissingChunks` has no loop; `CompleteWhenClean` says how far
  one pass comes.
* `pos.go:38` "how many peers to try": `SendClosest` gives up below zero
  retries, after `maxPeers + 1` peers (`SendFails`).
* `sender.go:22` "If the request was not sent successfully, the error returned
  will be ErrNotSent": it is `ErrNotFound` once all known peers were tried
  (`NoPeer`), and `reuploadChunk` counts a challenge that was never sent.
* `pushsync.go:533`: the allowance is tested after the push was counted; with a
  tick left over a call makes one push more than allowed
  (`OnePushTooManyAtMost`). A peer that is late every time keeps the chunk from
  being synced: the call gives up on it and the next one must skip it
  (`EventuallySynced`).
* `pusher.go:187`: a chunk whose stamp is invalid is pushed all the same.
* `puller.go:128`: a change of the topology that arrives while the switch is off
  is taken from the channel and forgotten. Setting the switch signals nobody, so
  nothing is pulled from the peer until the topology changes again
  (`EventuallyPulled`).
* `puller.go:423`: a historical worker that fails leaves its bin marked as
  syncing; what it had left is only pulled after the bin or the peer is dropped
  and wanted again, or by a restart (`SyncFails`).
* `mode_put.go:235`: when two chunks of one `Put` replace the same stored chunk,
  its location is on the list of released slots twice, and sharky frees it twice.
  `Write` takes the slots as a set, so that one release counts;
  `DataIsThere` says nothing of this case.
* `localstore/reserve.go:55`: a crash between the two writes of `UnreserveBatch`
  leaves the radius as it was, and the next call may take a pin of the user for
  one of the reserve's. `pinning.go:67`: pinning a root again after a failure
  counts the pins of its chunks twice. `mode_set.go:156`: `setSync` pins chunks
  below the radius, too.
* `accounting.go:1119`: a refreshment that fails leaves the reserve for it, so
  that no cheque is sent. The ghost balance only grows. Connecting again resets
  reserves while actions of the earlier connection still release theirs. A peer
  may be blocklisted although it paid, when a refreshment is acknowledged but
  not entered, when the creditor's own requests are not credited yet, or after
  a small refreshment has just reset the allowance (`DebtIsBounded` takes what
  is in transit off the debt for that reason).
* `accounting.go:1131`: whatever the error of a refreshment but `ErrPeerNotFound`,
  the other peer is blocklisted: also when the stream broke on the way, the
  answer took more than 5 seconds or came 2 seconds late, or the node's own
  store failed (`RefreshFails`, `Broken`).
* `accounting.go:1452`: `Connect` sets the balance to zero, but neither the
  originated balance, which is persisted, nor the times of refreshments. So
  `OwnDebtIsOwed` says what holds during one connection, as the model has one
  that starts with a new peer; after a reconnection the originated debt may
  exceed the debt.
* `accounting.go:1160`: when both peers refresh at the same time and one of them
  has entered the other's refreshment already, the other accepts less than it
  was asked for (`PeerDebt`, line 875, reads a balance without it), the shortfall
  is not in what `NotifyRefreshmentSent` expects, and an honest peer is
  blocklisted (`Crossed`).
* `accounting.go:1194`: a refreshment is accepted by the debt at that time and
  entered later; requests that its receiver reserved before that are not
  counted, so it may end in debt beyond its own limit (`NeverRefreshed`).
* `monitor.go:206`: the maps that are iterated without the lock are written to
  by `WatchTransaction`; if the runtime detects it the process dies (`Crash`).
  `monitor.go:30` "a competing transaction with cancellationDepth
  confirmations": a competitor that is itself watched is enough with one, and a
  reorganisation after the round may undo it. `CancelledIsLost` states what the
  code does keep: at the time of the answer the competitor is on the chain.
  `monitor.go:228`: on a chain shorter than `cancellationDepth` the subtraction
  wraps around and rounds without a receipt fail.

### Bounds, and why they are enough

*Snips.* `MaxProofs = 2` is the least number at which a mapping is replaced; the
second proof may be the same peer's (by trigger or Request) or another's.
`MaxFaults` counts crashes, losses, evictions and switches together. One nonce
is enough for what mappings of a nonce do to each other; the mapping of another
nonce is not read (the proof covers any number). Three chunks allow a missing,
a present and a foreign one. The semaphores have one slot, the least that makes
handlers wait for each other (the code has 5 and 50).
*Pos.* `MaxHops` cuts challenges that go round; with all nodes public they
cannot, and it is above what the nodes of the run need. `maxPeers = 1` lets
retries run out before peers do and the other way round.
*SnipsProving.* `GammaBound` stops constructions above the maximum, where the
loop's test no longer matters; `Terminates` allows for it. Three multiples of
the interval are enough for one to be skipped.
*Pushsync.* The networks are those in which an attempt has one or several
alternatives, directly and behind a forwarder. Two pushes and one call at a
time: a leftover tick and a late result both occur.
*Puller.* Two ids make an interval with a gap; three workers are an old session
and the two of a new one. `MaxChanges` counts changes of the topology and of the
switch together: with two, a change is lost while the switch is off.
*Localstore.* Two chunks that compete for a stamp index and one with another;
one slot more than chunks, so that a slot is freed and given away again while a
reader has its location; three calls around one run of each worker.
*Accounting.* The prices and the rate are chosen so that thresholds are crossed
by single requests; with two faults a payment and a refreshment may both fail.
Three seconds let an answer be later than `maxDrift`, which is 2 as in the code,
and a payment be tried again after `failedSettlementInterval`, which is 10 in
the code and 1 here.
The instance reaches refreshments that cross and are answered short, and the
debt of a refreshed peer beyond its limit, so neither exception is idle.
*Transactions.* Two transactions of one nonce (one cancels the other, or reuses
it) or of two.

`CHECK_DEADLOCK FALSE` wherever it stands: those systems stop when their bounded
work is done, and the SNIPS watcher stops the process when it panics.
`transactions` never stops, as blocks go on.

### Fairness

Weak fairness on the steps of a handler: a goroutine that can go on does.
Nothing makes a fault happen. `Create` is weakly fair in `Snips` because
convergence is about peers that do send their proofs. `SnipsProving` takes
strong fairness for `Quit` and `Done`: Go's `select` chooses at random among
ready cases, so a case that is ready again and again is taken. `Pos` has a
fairness of its own for reads whose context is done: they return, at no cost in
faults. `Pushsync` lets time pass (timers, skip lists, warm-ups) and the pusher
go on with its queue; `Puller` assumes that the peer answers; `Localstore` that
its two workers and the batch store's goroutine run. `Transactions` lets blocks
come and a stopped process be started again; a watch that was asked for gets
the lock of the service sooner or later (strong fairness, as `Send` takes and
releases it; Go's mutex does not starve). `Accounting` has no liveness: what a
peer does next is up to its requests.

## 5. What is proved

Each component has its proofs in a module of its own, which TLAPS checks from the
named assumptions on the constants of the component's module and from nothing
else: for any nodes, networks, requests, transactions, ids and bounds. The
bounds of section 4 are constants there, and the proofs hold for all of them.
TLC evaluates every assumption in the run of the component. The pattern is the
same everywhere: an invariant `Inv` that is inductive, one lemma for each action
or group of actions that says what it does, one for each conjunct that it
preserves, and theorems that read the properties off.

**`SnipsProofs`**

* `TypeCorrect`: `Spec => []TypeOK`. The part that is work is that a mapping is
  always one from `1..n` to chunks: each value of an MPHF is that of a chunk of
  its base (`MPHFMapsBase`).
* `UploadsProved`: `Spec => []UploadsWereProved`. The formula is not inductive:
  it says nothing of the mapping the next Maintain is answered from, nor of
  whether the receiver accepted the creator. The invariant is

      IInv == TypeOK /\ MappingProved /\ Accepted /\ Quiet /\ UploadsWereProved

  where `MappingProved` says that each mapping holds only chunks proved for its
  nonce, `Accepted` that the creator's handler of an exchange has started only
  at receivers that have the creator as a neighbour, and `Quiet` that an
  exchange in which it has not started uploads nothing. `ProvedGrows` is what
  makes stale mappings harmless in this respect: the set of proved chunks never
  shrinks, not even by a crash.
* `SnipsImplementsChunkSync`: `Spec => ImplementsChunkSync`. Every step maps to
  an `Advertise`, a `Replicate`, an `Evict` or a stutter; the `Replicate` case
  needs `UploadsWereProved` for the chunk on its way and `Accepted` for the
  receiver.
* `SoleProofsAreAnswered`: `Spec => []SoleProofIsAnswered`. `Moves` says what a
  step can do to one exchange. The invariant adds to `IInv` that the mapping of
  a nonce with one proof is the proof's own or was lost in a crash
  (`SoleMapping`), since a `CreateMPHF` that replaces it makes the other proof a
  built one as well; that the MPHF of a built proof is one of its base
  (`BuiltByMPHF`); and that a proof is sent to a peer once (`Fresh`).
* `CleanIsComplete`: `Spec => []CompleteWhenClean`. An MPHF gives a value to one
  chunk of its base only (`MPHFInverts`, by the pigeon-hole principle), so a
  chunk of the proof is in the store of the receiver, hidden there by another
  one, or missing (`FoundMissing`). While nothing fails, what is missing has been
  asked for, and what was asked for is under way or stored (`Found`, `Uploaded`,
  `Ended`), because the creator still stores what it proved (`Steady`): otherwise
  `GetMissingChunks` would answer with nothing at all.

**`SnipsProvingProofs`**: `ProvingTypes`, `NoncesOnlyIncrease`,
`MappingAlwaysFits`.

* Nonces increase although polls are missed: the watcher notes the height of the
  chain and not the block it hands on, so what it has in hand lies between the
  nonces used so far and the height noted (`NoncesInv`). `LastMultiple` is the
  arithmetic of `PollProvingBlock`.
* `MappingInv` says, for each place in the loop of `CreateMPHF`, how much of the
  mapping has been entered; it assumes nothing of what bbhash returns. The
  composition adds that no construction runs while the worker waits.

**`PosProofs`**: `ProofsMeanStored`, `WhatIsThereIsNotPushed`.

* That a proof means storage needs who held the chunk since the challenge began
  (`Held`) and the shape of the stack of calls (`Stacks`).
* For `NeighbourhoodProves` the argument is geometric: while nothing fails and
  all nodes are public, a challenge goes to the origin's closest peer and comes
  closer with each hop, so it never returns to the origin, and ends at a node
  that is the nearest of those it knows (`OnTheWay`, `Ended`). The theorem
  assumes `Symmetric`: whoever is connected to the origin is so on both sides.
  All topologies of the run are symmetric, as connections of libp2p are; in an
  asymmetric one a challenge may come back to the node that sent it.

**`PushsyncProofs`**: `ReceiptsMeanStored`, `NeverTwoPushesTooMany`,
`SyncedOnlyInNeighbourhood`.

* `LoopOK` and `PushOK` say of each call and each push that a receipt in it names
  a node that has stored the chunk. For the budget of pushes the invariant
  counts what may still start one: the tick in the channel and the timer that
  is set (`Ticks`). Both can be there only while a push is left, and each takes
  one at most; hence at most one push too many, for any `maxAttempts`.

**`PullerProofs`**: `TypeCorrect`, `IntervalsAreCovered`, `NoWorkerIsStray`.

* `IntervalsCovered` is about a record that several workers read and write
  without a lock. The invariant says of each worker (`WorkerOK`) that what it
  was offered, or will enter, has no hole but in what is gone or was skipped;
  this holds because a worker never looks beyond the last id that the peer has
  assigned. A write with what was read earlier loses entries of others, and
  adds none.
* `NoStrayWorkers` needs what `manage` knows at each of its steps (`Sessions`).

**`AccountingProofs`**: `TypeCorrect`, `BooksAlwaysBalance`,
`OwnDebtIsAlwaysOwed`, `OnlyDebtorsAreBlocked`, `DebtIsAlwaysBounded`.

* The books are sums of prices over sets of requests. `AdditiveExists` and
  `SumIsAdditive` show that the community modules' sum over a finite set is
  additive, by a smallest set for which it is not (`SmallestSubset`);
  `WorthRules`, `WorthGrows` and `WorthAdds` are what the steps need.
* The invariant has nine parts: types, the order of the two actions of a request
  (`Order`), what is reserved and shadow-reserved as sums (`Reserves`,
  `Shadows`), the two books (`Balanced`), a peer's own debt (`OwnDebt`), what a
  refreshment attempts (`Attempts`), and what both peers know of it: its amount
  (`Answers`) and its time (`Clocks`).
* `OnlyDebtorsAreBlocked`: who is blocklisted owes the limit, has answered a
  refreshment short, has asked for more than could be delivered, or was party to
  a refreshment that ended with an error. What is work is the rest.
* That nobody is blocklisted for a refreshment refused rests on `Clocks`: both
  peers agree on the second of the last refreshment. That none is answered
  short rests on `DebtIsKnown`: the balances and shadow reserves of the two
  peers add up to no less than zero, unless refreshments cross.
* A debtor's limit holds in its own book (`Allowed`), the bound on a debt in the
  creditor's (`Bounded`). `OwedByTheBooks` carries one over to the other: the two
  books differ by what is in transit, provided that the creditor has paid
  nothing. A creditor that has sent no refreshment has sent no cheque (`Unpaid`),
  since `settle` begins with the refreshment when the last one is a second old.
  That needs a clock past zero: at second 0 a peer never refreshed would count as
  refreshed just now. TLC finds the debt beyond its bound for such a clock, which
  is why `RateAssumption` has `Start` above zero.

**`TransactionsProofs`**: `TypeCorrect`, `NoncesAreInOrder`,
`WhatIsCancelledIsLost`.

* The nonces of `Send` are in order since whoever has the lock has signed with a
  nonce not below the stored one and with all below it covered (`Nonces`, with
  `Calls` for the step that each call has reached); a crash between sending and
  `putNonce` leaves a nonce that the chain covers.
* `CancelledIsLost` is an action property about a round of several calls of the
  backend. `Rounds` says that the part of the chain below `check.old` is final,
  so a receipt that was not found there will not appear, and `Receipts` that a
  receipt the round has seen is still on the chain unless blocks were replaced
  since. The conclusion is about the chain itself: the answer "cancelled" is
  given only when another transaction has the nonce there, whether or not the
  service knows it (`ForeignAssumption`: what others send is none of `Tx`). It
  does not say that no later reorganisation brings the transaction back.

**`LocalstoreProofs`**: `TypeCorrect`, `DataStaysThere`, `CacheStaysUnpinned`,
`GCSizeAlwaysCovers`, `GetAlwaysReturnsData`, `PinnedIsNotCollected`.

* The helpers that extend a batch are dealt with one by one: what `SetPin`,
  `SetUnpin`, `SetRemove`, `PreserveOrCache`, `Replace` and `Add` leave of the
  indexes (`SetPinFacts`, ...), and that what they make keeps two predicates on a
  batch that is not written yet: `SlotsOK` (its slots) and `CacheOK` (its gc
  entries, and the change of the size that pays for them). `WriteKeeps` then
  turns the predicates into the invariant, and a page of two chunks is the same
  step twice.
* `DataIsThere` and `GetReturnsData` (`Placed`, `Reading`) hold whatever meets
  whatever: a slot is released only when no index names it any more.
* What is said of the cache needs more than it states (`CachedAt`): a chunk that
  is not stored has a pin at most (`DroppedPinCache`); one
  with an access time is not in the push index and is in the gc index if and
  only if it has no pin, which is what lets `setPin` take an access time for a gc
  entry; there is one entry for a chunk at most (`Single`). A candidate of
  garbage collection that was not noted as dirty is still in the gc index, or was
  removed (`Candidates`); so as many entries go as the size is lowered by
  (`CollectedAre`). A batch that `UnreserveBatch` has yet to write is the one
  that it would read now (`Cache`). All of that is stated unless an update raced.
* `Numbering` and `EntriesFacts` are the lemmas on counting places of a sequence,
  `SetToSeqFacts` is the one on the community modules' `SetToSeq`.

**Assumptions.** Those of `Pushsync` and `Accounting` are stronger than a run
needs: networks are typed and no node is its own peer (`NetworkAssumption`),
peers are two, requests are finitely many and have prices above zero, the limit
for disconnecting is not below the payment threshold, and the clock starts after
second zero (`RequestAssumption`, `RateAssumption`); the code's constants, its
price function and Unix time are like that.

**Only model-checked:** all liveness, `CacheShrinks` and `OnlyAHandOffBlocksTheEnd`
included: the prover does not handle fairness and ENABLED. Every invariant of a
passing run is a theorem, `NeighbourhoodProves` for networks with connections on
both sides. What recursive definitions compute for every input
would need induction theorems the installed provers cannot instantiate; the
modules use none. The type invariant of `Pos` is part of the invariant there and
no property of a run. That of `Pushsync` is no property of a run and no theorem:
the invariant there has the types that its three theorems need, and leaves the
counters without upper ends.
