# BinaryCoin: a TLA+ verification project

BinaryCoin (`src/`) is a small proof-of-work node in C++: a daemon with a P2P
network, a JSON-RPC server and a wallet, one-shot commands that work on the same
data directory, and a durable chain store. This directory holds TLA+ models of
its parts, the TLC configurations that check them on small instances, and proofs
about them checked by TLAPS.

## 1. Inventory

Paths are below `src/src/`.

| Part | State | Operations | Hard behaviour |
|---|---|---|---|
| Durable chain store (`storage.cpp`) | `blk00000.dat` (append-only records), `block-index-v1-N`, `utxo-v1-N`, `manifest-v1`, `LOCK` | `exists`, `load`, `commit`, `scan_all_blocks` | crashes between any two system calls, partial records, damaged files, several processes |
| Active chain (`chain.cpp`) | `blocks_`, `utxos_` in memory | `initialize`, `load`, `append_blocks`, `activate_if_more_work`, `generate`, `reindex`, `save` | reorganisation, rollback in memory, stale chain saved over a newer one |
| Mempool (`mempool.cpp`, `utxo.cpp`) | ordered list of transactions, `mempool-v1.tsv` | `load`, `save`, `add`, `revalidate`, `clear`, `effective_utxos` | must always apply, in order, to the UTXO set of the chain; the two files are not written together |
| Side branches (`branch_store.cpp`) | list of blocks, `sidebranches-v1.dat` | `load`, `save`, `put`, `put_many`, `remove_active` | whole-file load and save by concurrent sessions |
| Node sessions (`net.cpp`, `PersistentTestnetNode`) | one thread per connection; candidate synchronisation, knowledge of the remote, misbehaviour score; shared `data_mutex` | one handler per message, inventory scan, ping | messages that cross, state kept after an exception, scores for local failures |
| Connections (`net.cpp`) | listening socket, outbound threads, nonces of active peers, counters, ban list | `accept_loop`, `outbound_loop`, `session_loop`, `ban_peer`, `request_stop`, `wait` | duplicate and self connections, limits, stop racing with new sessions |
| Peer and ban lists (`peer_store.cpp`, `ban_store.cpp`, `bootstrap.cpp`) | `peers.dat`, `banlist-v1.tsv` | add, mark, select, ban, prune | gossip, failures and the operator's wishes merged into one record |
| One-shot client (`net.cpp`, `sync_from_peer`) | chain, mempool, branches loaded once | one synchronisation | overwrites what other processes wrote since it loaded |
| RPC server and commands (`rpc.cpp`, `rpc_commands.cpp`) | accept thread, client threads, cookie | one handler per method, under `data_mutex` | shutdown, long calls, partial failure of `generate` |
| Wallet (`hd_wallet_backend.cpp`, `wallet_manager.cpp`) | master key, next indices, cache of owned scripts, wallet file | create, import, upgrade, `get_new_address`, `balance`, `create_payment` | index persisted after use, look-ahead |
| Node start and stop (`node_app.cpp`, `main.cpp`, `platform.cpp`) | stop flag, cookie file, readiness pipe | start, signal, shutdown | order of stopping |
| Consensus arithmetic (`pow.cpp`, `block.cpp`, `merkle.cpp`, `fees.cpp`, `transaction.cpp`, `script.cpp`) | none | pure functions | widths and rounding |
| Encodings and primitives (`serialize.cpp`, `json.cpp`, `bech32.cpp`, `hash.cpp`, `key.cpp`, `hdkey.cpp`, `mnemonic.cpp`, `logger.cpp`, `cli_main.cpp`) | none | pure functions, I/O | a second encoding of a value, lengths at their limits |

The chain store is the foundation: every other part works by loading the files
of the data directory, changing what it loaded and saving it. Inside a process
the sessions and the RPC handlers are kept apart by `data_mutex_`, processes only
by the `flock` that one load or one commit takes. The sessions also keep state
of their own between messages (a candidate chain, what the peer knows, a score)
while the files change under them. Those two facts are where most of the hazards
in `PROJECT.json` come from.

What makes each part correct:

- Chain store: a committed chain can be loaded after any crash; the manifest
  never names what is not on disk; one damaged file costs one generation at most.
- Active chain: it is only replaced by a chain with more work.
- Mempool: it applies, in order, to the chain that is active.
- Side branches: no block that was ever active is lost.
- Sessions: every request is answered, nothing is asked for in vain, an honest
  peer is blamed for no more than the cases named, and two nodes end up with the same work.
- Connections: the limit holds and no place is lost; one session per peer; a stop
  ends every thread and touches the node's own sockets only.
- Peer lists: what is learned never overrides what the operator decided.
- One-shot client: it adopts what was announced, and loses no block.
- Node and RPC server: one node on a directory, and everything built on it is gone
  before it is; every stop ends, and the waiting parent is told.
- Wallet: no key twice, none lost; a payment that every node accepts.
- Encodings: one string for each value.

## 2. Modules

| Part | Modules | State of the work |
|---|---|---|
| Tree of blocks, chains named by their tips, work | `BlockTree` | |
| Chain store | `ChainStore`, implementing the abstract `DurableChain` | checked, proved (`ChainStore_proofs`) |
| Chain, mempool, side store | `Coins`, `NodeData`, implementing the abstract `Ledger` | checked, proved (`NodeData_proofs`) |
| Two nodes that synchronise | `Headers`, `ChainSync` | checked, proved (`Headers_proofs`, `ChainSync_proofs`) |
| Threads, sockets and sessions of a node | `Connections` | checked, proved (`Connections_proofs`) |
| Daemons, RPC server, callers | `NodeApp` | checked, proved (`NodeApp_proofs`) |
| One-shot client and the server it asks | `Headers`, `OneShot` | checked, proved (`OneShot_proofs`) |
| Wallet file | `Wallet` | checked, proved (`Wallet_proofs`) |
| Binary encodings | `Encodings` | checked over bounded values; all but the version message and the peer records proved (`Connections_proofs`) |
| Amounts, fees, payments | `Payment` (on top of `Encodings`) | checked over bounded values |
| Peers and bans | `PeerBook` | checked, proved (`Connections_proofs`) |

The modules whose names begin with `MC` are the instances for TLC. `Headers` has the two
functions of a locator that `ChainSync` and `OneShot` share.

`ChainStore` looks at one `commit` system call by system call. `NodeData` takes a
commit as one step, which is what `DurableChainSpec` justifies, and looks at the
handlers save by save. `ChainSync` takes an activation as one step, because its
handler holds `data_mutex_` from the first load to the last save, and looks at the
messages. All three, and `OneShot`, use the same `BlockTree`.

### ChainStore

| Model | Code |
|---|---|
| `blockFile`, `synced` | records of `blk00000.dat`; how many the last `fsync` covers |
| `index[g]`, `utxo[g]`, `manifest` | the files of generation g and `manifest-v1` |
| `lock`, `pc`, `tip`, `todo`, `draft` | the `flock`; where a process is in `commit`; its `blocks_`; what it still has to append; the manifest it is going to publish |
| `InitializeFresh`, `Load`, `Close`, `AppendBlocks`, `Activate`, `Generate`, `Reindex` | the operations of `TestnetChain` up to `save` |
| `CommitBegin` ... `Cleanup` | the system calls of `DurableChainStore::commit`, in order; `BlockMissing` is its exception |
| `Kill`, `PowerLoss`, `Damage` | a process killed (or a call that fails) at any step; unsynced records lost, or cut, or left with a length but no data; a file that fails its checksum |

A checksum is the content it was computed from, a UTXO snapshot the tip it was
computed for. A record is whole, `Torn` (a prefix) or `Damaged` (right length,
wrong content); the scan of the file stops at the first and skips the second.

### NodeData

`chain`, `pool` and `side` are the three files; `candidate[s]` is the
`CandidateSync` in the memory of a session; `job` is the handler that holds
`data_mutex_` and how far it has come: `ConnectBlock`, `Generate` and
`ActivateCandidate` begin one, and `StoreDisconnected`, `ActivateIfMoreWork`,
`RemoveActive`, `Revalidate` (one transaction of the loop per step),
`SaveRetained`, `ReturnTransaction`, `ClearPool` and `FinishJob` carry it on. All
other handlers save one file and are one step. `Restart` and `SaveFails` may come
between any two saves; a save that fails in the loop that returns transactions does not
end the handler (`ReturnNotSaved`). `job.kept` is the mempool in the handler's memory, of
which the file may then lack the end. `reached` is a history variable: every block that was
ever active.

### ChainSync

One action per message handler and path through it: `HandleVersion`,
`HandleGetStatus`, `HandleStatus`, `HandleGetHeaders`, the four outcomes of
`headers` (`RefuseHeaders`, `OverrunHeaders`, `ContinueHeaders`, `FinishHeaders`),
`HandleInv`, `HandleGetData`, `HandleCandidateBlock`, `HandleOtherBlock`, and the
inventory scan (`Scan`). `announced[n]` is the gap in the `status` handler between
the comparison of the chains and the load of the chain that the candidate starts
from: `data_mutex_` is given up in between. `Advance` stands for everything else
that changes the chain of a node, `stale` remembers whether that ever replaced one
branch by another: from then on a candidate may count from a fork height of a branch
that is gone, as in `data_stale_fork`.

`misbehavior_score` is kept in two parts (`Misbehavior`): what the exchange of headers and
blocks adds (`score`), and 25 points for each transaction refused (`refused`). The `tx`
messages themselves are not in the inbox; `RefuseTransaction` is the outcome of one that
counts here, at any moment between two others, because the mempools of two honest nodes
differ where their chains do. At the threshold the session ends and the peer is banned
(`Ban`), for a time (`BanEnds`).

### Connections

A thread is a session of an accepted connection (`In`), an outbound endpoint (`Out`)
or the accept thread; `main` is the thread that calls `start`, `request_stop` and
`wait`. `pc[t]` is where a thread is between two critical sections or blocking calls.
`Zero` is the peer that sends the nonce 0, which the code also uses for "not registered"
(`HasNonce`).
`sockets`, `nonces`, `live`, `inbound`, `active`, `threads` and `banned` are the
members of `PersistentTestnetNode`; `fd`, `peer` and `registered` the locals of a
thread; `open` and `shut` what the system knows of its sockets. The system hands out
any free socket number, also one that was closed a moment ago.

| Model | Code |
|---|---|
| `Poll`, `AcceptNothing`, `Accept`, `RejectBanned`, `CountInbound`, `TurnAway`, `StartSession` | `accept_loop` and `start_session`; a place is counted before the limit is tested |
| `Check`, `Connect`, `ConnectFails`, `Pause` | `outbound_loop` |
| `Enter` ... `Greet` | `session_loop` up to its main loop: `active_sockets_`, handshake, registration of the nonce, refusal of a duplicate or of the node itself |
| `Loop`, `Answer`, `Flooded`, `PeerLeaves`, `Failed`, `Blame` | the main loop: one message, the rate limit, the end of a session, its exceptions, `ban_peer` |
| `Erase`, `Forget`, `Close` | the cleanup, lock by lock, and the destructor of the socket |
| `RequestStop`, `ShutSockets`, `JoinAccept`, `JoinOutbound`, `JoinSessions` | `request_stop` and `wait` |

### NodeApp

`pc[p]` is where `run_node_child` of process p is, `lock`, `pidFile` and `cookie` the
files, `node` and `rpc` what has been built, `waiting` the processes whose parent waits in
`launch_node`, and `call`, `at`, `key` the calls of `binarycoin-cli`. A thread of the server
that receives or answers goes on when the caller does something or leaves (`Serve`), and
not before. An exception, of the start (`StartFails`, `ProtectFails`) or with the server up
(`ServeFails`), unwinds what has been built in reverse order (`DestroyRpc` ...
`ReleaseLock`), and the catch clause comes last (`Catch`). `Part` is a cookie file that is
empty or cut short: what `create_rpc_cookie` writes is not looked at. `Kill` ends a process at any step and leaves cookie and PID
file behind; `AnswerError` is the exception that leaves an RPC thread and ends the
process.

### OneShot

`pc` is what `sync_from_peer` waits for or saves next, and `sync` its locals: the chain
it loaded (`base`), what the peer announced (`tip`), the fork and the last header, the
side store in memory, the blocks at hand, missing and asked for. `Serve...` are the
answers of `TestnetP2pServer::handle_client`. `PeerMoves` gives the peer another chain
between any two messages, with or without the blocks it disconnects in its side store, `Drop` loses the connection or kills the command, `Start`
starts it again.

### Wallet

`wallet` and `legacy` are the two files, `mem` the `HdWalletBackend` of whoever is at
work, `step` how far its save has come, `given` the keys shown to callers so far. A key is
its seed and index. `ReplaceFile`, `RestrictPermissionsFails` and `Answer` come in the
order of the code: the key is shown after the file is in place, so a failure costs a
key and never repeats one. `Loads` is the limit that `load` checks and `get_new_address`
does not.

### Encodings, Payment, PeerBook

`Encodings` has a `Write...` and a `Read...` operator for each pair of functions; a
reader yields the set of its results, empty (`Throw`) where the code throws, each with the
place where reading goes on. Bytes have the base `Base` and integers the widths `W16`,
`W32`, `W64`, so that numbers wrap and size prefixes change form at small values. Every
loop of the code is a recursive function on numbers (`Power`, `Number`, `Value`), on
readers (`InTurn`: the fields of a record, the items of a list) or on what is written
(`Linked`), so that the proofs can follow it.
`Payment` has the selection of coins and the fee as `create_payment` computes them, with
the sizes of the encodings, and `apply_transaction` as the check of the other nodes.
`PeerBook` is a state machine: each handler loads a file, changes it and saves it under a
mutex, and is one step. `mine` holds the endpoints the node took for its own at its last
start and does not dial: `Loopbacks` (its port on 127.0.0.1 and ::1) and, unless it listens
on all addresses, `Own`. A start on 0.0.0.0 or :: records no endpoint of its own
(`net.cpp:1061`), so the node may then hear of itself and dial itself.

## 3. Runs

| Run | What it shows |
|---|---|
| `store_faults` | One process commits, reorganises and reindexes. It may be killed once, the machine may lose power once and one file may be damaged, each at any step. The committed chain stays loadable (`CommittedLoadable`), what the manifest reaches was synced before (`ManifestDurable`), one damaged file is survived (`OneDamageRecoverable`), and the store implements `DurableChain`. |
| `store_two_processes` | Two processes, one kill. The lock keeps commits apart (`StoredOnce`), and every commit gives it back (`CommitEnds`). |
| `store_torn_tail` | Violation, see below. |
| `data_node` | One session, `generate`, single blocks and transactions, one fault. The mempool applies to the chain (`PoolStays`), no block that was active is lost (`DisconnectedRetained`), transactions of disconnected blocks come back, in the file but for those whose save failed (`DisconnectedReturned`), nothing else is dropped without reason (`DropsOnlyInvalid`), work only grows (`WorkGrows`), and the data implements `Ledger`. |
| `data_stale_fork` | Violation, see below. |
| `sync_two_nodes` | Two nodes with chains that may differ in every way two branches allow; at most two events out of chain changes from outside (two), a lost connection (one) and a refused transaction (one, which with one exception makes a ban). As long as no other session reorganises a chain, every candidate has its answer on the way (`AnswerOnItsWay`), what a node takes its peer to know is so (`KnowsWhatPeerHas`) and nothing is asked for in vain (`NothingMissing`). Besides the transactions it refuses, a node blames its honest peer at most once in a session (`BlamedOnce`), and the nodes end up with the same work but for the exceptions named in `InStepOrStuck`. |
| `sync_outgrown` | Violation, see below. |
| `connections` | One outbound endpoint, inbound connections to a limit of one, bans, failures of every call, and a stop at any moment. No path loses or doubles a place (`InboundLimited`), `active_peer_nonces_` has the peers of the registered sessions and, but for a nonce of 0, no other (`OneSessionPerPeer`), `request_stop` shuts down sockets of sessions only (`ShutsItsOwnSockets`), and `wait` returns (`StopEnds`) with nothing left (`StoppedIsQuiet`). |
| `node_app` | Two processes on one directory, two callers, kills and restarts. One node at a time (`OneNode`), no RPC thread without its node (`HandlersHaveNode`), the parent always told (`ParentIsTold`) and every stop at its end (`StopEnds`), but for a caller who holds the server up: who neither sends, nor takes its answer, nor leaves (`HeldUp`). `TypeOK` includes that no stop flag is left over. |
| `wallet_file` | Two threads and the commands on one wallet, a failure or the end of the process at every step. No key is handed out twice (`HandedOutOnce`), and the wallet that is loaded owns every key that was, until the last index is spent (`KeysKept`). |
| `one_shot` | `syncfrom` against a peer whose chain changes, with lost connections and kills, and repeated. It adopts the chain that was announced and no other (`AdoptsWhatWasAnnounced`), loses no block (`NothingLost`), and a session that nothing disturbs catches up (`QuietSyncCatchesUp`). |
| `values` | Three independent parts, told apart by `kind`. Strings with one byte changed, added, removed or the rest cut off: what is written is read back, and what is read has that one string (`EncodingsExact`). Some 60,000 payments: accepted by every node, the amount and the fee exact, refused only when the coins do not cover them (`PaymentSound`). Peers and bans in any order of starts, dials, gossip and bans (`BooksKept`). |

### Where the code and its own statements differ

- `store_torn_tail`: `storage.cpp` says "interrupted tail is ignored". The scan
  does ignore it, but nothing cuts it off: `commit` opens the file for appending
  and writes behind it, and no scan finds those records any more. Every later
  commit that has a new block fails with "Committed block is missing".
- `data_stale_fork`: `activate_candidate` stores the active blocks above the fork
  height of its candidate. If another session has replaced the branch the
  candidate started from, blocks of that branch below this height are neither on
  the new chain nor stored.
- `sync_outgrown`: a peer that mines while its headers are downloaded sends one
  more header than it announced. The exception leaves `candidate.active` set with
  nothing outstanding, and the session never synchronises again.

These effects are in the models, where a condition of a property or of the fairness
excludes them; they have no run of their own:

- A transaction that its receiver refuses costs the sender 25 points (`net.cpp:1823`),
  although the mempools of honest nodes differ when their chains do. Four of them in one
  session, or three and the exception of an overrun, ban an honest peer
  (`RefuseTransaction` and `Ban` in `ChainSync`). `BlamedOnce` says that nothing else does,
  but for the message rate, which is not in the model.
- `commit` takes the lock but does not look whether the manifest is still the one its
  chain was loaded from (`storage.cpp:771`). A one-shot command that loaded before a
  running node reorganised publishes its lighter chain. `DurableChainSpec` is checked
  with one process for this reason.
- Chain and mempool are two files. After a failure between the two saves
  (`rpc_commands.cpp:459`) the mempool no longer applies to the chain, and `add` then
  refuses every transaction until the next block revalidates the pool. `PoolStays` ends
  with the first fault.
- `activate_candidate` takes a save that fails for a refusal (`net.cpp:1501`) and goes on:
  the returned transaction is in its mempool but in the file only if another one is
  returned after it. `DisconnectedReturned` says how many may be missing.
- A tip that reached the side store before the connection broke is neither requested nor
  compared again by the side that takes the next call (`net.cpp:1761`; `Overlooked` in
  `ChainSync`).
- A daemon that does not get the lock removes the cookie of the one that runs
  (`node_app.cpp:237`); from then on `binarycoin-cli` reports no running daemon. `OneNode`
  allows for a cookie that is gone.
- `receive_http` and `send_all` have no time-out (`rpc.cpp:125`, `110`): a client that
  connects and sends nothing, or does not take its answer, keeps `rpc_server.wait` waiting
  for as long as it stays, and after an exception the parent as well. `StopEnds` and
  `ParentIsTold` of `NodeApp` except this case and no other.
- `create_rpc_cookie` does not look whether the secret was written (`rpc.cpp:371`): the server
  comes up with a cookie file that lets nobody in. `OneNode` allows for it.
- The answer to an `RpcError` is sent from a catch clause (`rpc.cpp:352`). When the caller
  has left, the exception of `send_all` leaves the thread and ends the daemon
  (`AnswerError`).
- A handshake that fails for any reason bans the host for a day (`net.cpp:1361`), the
  node's own stop and its own files included (`Blame` follows `Handshake` in
  `Connections`).
- A nonce of 0 stands for "not registered" (`net.cpp:1337`, `1379`): a peer that sends 0 is
  inserted into `active_peer_nonces_` and never erased, so that after its first session every
  other one with nonce 0 is refused as a duplicate until the node is started again.
  `OneSessionPerPeer` says which nonces may be left behind.
- `get_new_address` does not stop at the last index that `load` accepts; the call that hands
  out its key leaves a wallet that does not load again (`hd_wallet_backend.cpp:57`, `195`;
  `Spent`). Its keys can only be had from the seed in the file. `KeysKept` says so.
- `create_payment` takes the smallest coins first, also those worth less than the fee of
  their own input, so that it may refuse a payment that a choice of coins would allow.
  `PaymentSound` compares with all coins together.
- A process killed after it appended a record and before it synced the file
  (`storage.cpp:799`): the next commit finds the record, appends nothing and so
  syncs nothing, and publishes a manifest that reaches an unsynced record.
  `ManifestDurable` holds without kills, `CommittedLoadable` with kills or power
  losses but not both.
- `revalidate` runs before the transactions of disconnected blocks come back
  (`net.cpp:1498`), so a mempool transaction that spends an output of one of them
  is dropped although its parent returns a moment later (last case of
  `DropsOnlyInvalid`).
- A block that arrives during a download whose headers end exactly at the
  announced tip, because the message is full (2000 headers), stays in the side
  store above the new tip; later announcements of it are ignored (`Overlooked`
  with `moves > 0`).

### Bounds

- `ChainStore`: four blocks in two branches give growth, reorganisation and a
  rival of equal work. Six or seven generations are enough for three to four
  commits, so that cleanup removes files and a new generation follows the removal;
  `RoomForCommit` keeps generations in reserve so that the bound never stops a
  commit or a recovery half-way. One fault of each kind, in any order.
- `NodeData`: eight blocks in three branches, three transactions of which one
  spends another and one conflicts: blocks confirm, disconnect, conflict with and
  return mempool transactions, and a second reorganisation can follow the first.
  One restart or failed save. `data_stale_fork` has two sessions and empty blocks;
  the violation is out of reach of one session, which is what `RetainInv` proves.
- `ChainSync`: six blocks, two on one branch and three on the other, any of them but `a1` the
  tip of a node's first chain; two headers per message (2000 in the code), so that a
  download takes one or two messages, and three in `sync_outgrown`, so that the
  overrun comes in one message. `MaxMoves`, `MaxDrops`, `MaxRefusals` and `MaxEvents`
  bound what happens from outside. The ban threshold is 50 instead of 100 in
  `sync_two_nodes`: one refused transaction and one exception end a session. A locator that
  leaves a block out stands for the gaps of `make_block_locator` on long chains.
- `Connections`: two inbound threads for a limit of one, so that one ends while the next
  begins and one is turned away; two socket numbers, which are reused at once; one other
  node that is banned and one on a loopback address that is not.
- `NodeApp`: two processes and two callers, each restarted without limit: the old and
  the new daemon overlap in every way two can, and one caller may stay silent while the
  other stops the daemon.
- `OneShot`: six blocks in two branches, two headers per message and two blocks per
  request, two changes of the peer's chain and two interruptions, so that a second attempt
  meets what a first one left, and is disturbed again.
- `Wallet`: two threads, two seeds, a look-ahead of two (20 in the code) and indices to
  five (1,000,000), one beyond which the file no longer loads.
- `values`: base 6 for bytes, integers of 2, 3 and 4 bytes for those of 2, 4 and 8, hashes
  of 2 bytes, lists to four elements: every size prefix occurs in each of its forms, next to
  its limits, and a changed byte reaches each field. Amounts to 120 with a limit of 300,
  coins below, at and above the fee of their input. Peers: a seed, the
  node's own endpoint (which the seed's name resolves to) and its loopback one, each named or
  heard of, with starts on one address and on all; one outbound place, two failures for ten.

### Fairness

- `ChainStore`: weak fairness of the steps of a commit that has begun, which is
  straight-line code. Nothing is assumed of `flock`: `CommitBegin` is one of the
  steps but is disabled again and again while others commit.
- `ChainSync`: weak fairness of each session thread (its next message, its
  continuation after `status`, its ban of the peer, its scan every 200 ms) and of the dialler, which
  retries for ever, and the time of a ban passes. None for chain changes, lost connections
  and refused transactions.
- `Connections`: weak fairness of each thread. No call blocks for ever: `accept` follows
  a poll, and connect, send and receive have time-outs. The peer may keep a session as
  long as it likes; only the stop ends it.
- `NodeApp`: weak fairness of the main thread, the accept thread and the handlers. None for
  callers: whether a request arrives, an answer is taken or a connection closed is theirs.
- `OneShot`: weak fairness of client and server, which are one thread each. None for the
  start of the command, changes of the chain and interruptions.
- `NodeData`, `Wallet` and `PeerBook` have no liveness property: nothing in them waits.

`store_faults`, the `sync` runs, `connections`, `wallet_file` and `values` switch the
deadlock check off: after damage to the files no load may succeed any more, two nodes that
are in step are at rest, a stopped node stays stopped, a wallet past its last index does not
load, and a string is read once. The other runs keep it.

## 4. Proofs

`ChainStore_proofs` proves, for every block tree and bounds:

- `TypeCorrect`: `Spec => []TypeOK`, for every set of processes.
- `CommittedStaysLoadable`: `Spec => []CommittedLoadable`. The property is not inductive. `IInv`
  adds that only the holder of the lock is inside a commit (`PhaseInv`), that without
  kills nothing but the records of the commit under way is unsynced (`SyncInv`),
  that the files the manifest names are complete and readable (`ManifestInv`), and
  that the files of the generation being written are complete up to the step
  reached and are not those of the committed one (`DraftInv`). The crux is that
  appending a record, or losing unsynced ones, moves no record that an index
  points to.
- `SyncedBeforePublished`: `Spec => []ManifestDurable`, from the same invariant.
- `NothingStoredTwice`: `Spec => []StoredOnce`, for every set of processes. `OnceInv` adds
  what the holder of the lock still has to append: no block twice, and none that the scan
  under the lock has found.
- `StoreImplementsDurableChain`: `Spec => DurableChainSpec`, with one process: `Publish` is the
  commit, everything else stutters. `AloneInv` says what the committed chain is between the
  steps, and that a number given to a generation is above every file left behind.
- `DamageIsRecoverable`: `Spec => []OneDamageRecoverable`, with one process. `RecoveryInv` adds
  that a single unreadable file is never both a block and the snapshot it would be
  rebuilt from, and that a file of a newer generation than the committed one carries no less
  work, so that recovery by the heaviest index does not go back behind the commit.

The last two need the process to be alone: a commit does not look at what another
process has published since it loaded, so with two a `Publish` may replace a heavier
chain and leave the files of a lighter one with the higher number.

`NodeData_proofs` proves, for every block tree, transactions, sessions and bounds:

- `TypeCorrect`: `Spec => []TypeOK`.
- `PoolStaysValid`: `Spec => []PoolStays`. Until the first failed save or restart the
  mempool applies whenever no handler is at work.
- `WorkOnlyGrows`: `Spec => WorkGrows`.
- `LedgerImplemented`: `Spec => LedgerSpec`. Until the first fault, every step between
  handlers is a step of `Ledger`; the data while a handler is at work is what it was
  before (`LedgerTip`, `LedgerPool`).
- `NothingForgotten`: with one session, `Spec => []DisconnectedRetained`, faults
  included. With two it is refuted by `data_stale_fork`.
- `NothingLostOnActivation` (`DisconnectedReturned`): failed saves cost the file the end of
  the mempool, one transaction each at most, and cost the handler nothing.
  `OnlyInvalidDropped` (`DropsOnlyInvalid`), whatever has failed before.

`IInv` there says what the handler under way has done so far (`JobInv`) and that each
loop keeps what it has built applicable (`PoolInv`); the lemmas on `Coins` say how
applicability behaves under `\o` and `Append`. `RetainInv` adds that a candidate of a
single session starts from a chain that is still part of the active one.

`LoopInv` is behind the last two: each loop over transactions has settled those it has
passed. That does not last by itself, because a transaction refused for a missing input
would apply once the input is created. It lasts because nothing in the order of the loop
spends what comes after it (`Ordered`). A valid chain is in such an order, and so is every
mempool: it applied when it was last changed, and keeps its order when it no longer does.
A returned transaction may create what a dropped one was missing, which is the last case of
`DropsOnlyInvalid`.

`Connections_proofs` proves, for any number of threads, sockets and peers:

- `TypeCorrect`; the unsigned counters are never lowered below zero.
- `InboundIsLimited`: `Spec => []InboundLimited`. The invariant counts places by the program
  counters of the threads; each step moves one thread across the boundary of the set and
  changes the counter with it.
- `PeersAreDistinct`: `Spec => []OneSessionPerPeer`. Registration tests and inserts under
  one lock, and only a session that has inserted its nonce erases it; one whose nonce is 0
  erases none.
- `OwnSockets`: `Spec => []ShutsItsOwnSockets`. An entry of `active_sockets_` is erased
  before its socket is closed, so its number cannot have been given to another thread.
- `StopIsComplete`: `Spec => []StoppedIsQuiet`. No thread starts a session any more once
  the accept thread and the outbound threads are joined, which is why `wait` takes the
  session threads last.

It also has the two components that share no state with a connection. On `PeerBook`, for
any endpoints, records, limits and clock:

- `BooksAreKept`: `BookSpec => BooksKept`. An endpoint keeps one record, a peer that was
  named at the last start, other than the node itself, is dialled or the places went to other named ones, and a ban
  lasts to its end unless the operator clears the list. `BookInv` adds that what is dialled
  has a record and that no ban reaches beyond its length from now, so that the next ban of
  the host never ends earlier. The loops over records are recursive functions: an induction
  over the records passed so far says what the loop has kept, and the number of records
  that come before a peer says whether selection gets to it.

On `Encodings`, for any base, widths and limits that fit them:

- `SizesAreExact`, `HeadersAreExact`, `TransactionsAreExact`, `TransactionListsAreExact`,
  `BlocksAreExact`, `GetHeadersAreExact`, `InventoriesAreExact`, `HeaderListsAreExact`: for every string, what
  is read of it are exactly the values that are written as it, and these are at most one.
  `Transaction::deserialize`, for one, reads every valid transaction from what `serialize`
  writes of it, and no other string, so an id stands for one transaction; the last three
  add that nothing beyond the limits is written or read.
- `FramesAreExact`: `receive_message` takes exactly the messages whose frame stands at a
  place in the stream, and goes on where that frame ends.

Behind these is one notion. `Stands(w, s, at)` says that the string w lies in s at a place;
`Exactly(r, s, at, written)` that a reader r, at that place, yields a value when what is
written of it stands there, and otherwise nothing. Reading in one place says nothing about
the whole string, and it is this form that composes: two exact readers one after the other
are exact (`PairsExact`), hence any number of them (`InTurnExact`, by induction over the
fields), a count and its items (`ListExact`), a string with its size in front that is parsed
on its own (`NestedExact`) and a reader that refuses some values (`OnlyExact`). At the bottom
are the integers (`ReadNumberExact`: a number is its lowest byte and the rest, divided by
the base) and the sizes (`ReadCompactExact`, where the refusal of longer forms is what makes
it hold). `WholeExact` and `Agreement` get from there to a whole string.

`Wallet_proofs` proves, for any seeds, threads and limits, `TypeCorrect`, `NoKeyTwice`
(`HandedOutOnce`) and `NoKeyLost` (`KeysKept`). What makes them inductive: a key handed out
is of the seed on the disk and below the next index there, the key on its way to the
caller is the one just below it, and no file is more than one index past the limit of
`load`.

`NodeApp_proofs` proves, for any number of processes and callers:

- `TypeCorrect`, which includes that a stop flag is gone when its node is.
- `OneNodeAtATime`: `Spec => []OneNode`. What has been built follows from the program counter,
  and only the holder of the lock is past the point where it is taken.
- `HandlersAreServed`: `Spec => []HandlersHaveNode`. The RPC server joins its threads before
  the node is destroyed, whichever step an exception unwinds from.

`OneShot_proofs` proves, for every block tree and any bounds: `TypeCorrect`,
`OnlyAnnouncedAdopted` (`AdoptsWhatWasAnnounced`) and `BlocksAreKept` (`NothingLost`). The
invariant follows `sync_from_peer` from message to message: what is at hand, what is
missing and what was asked for together are the announced chain above the fork, and
the side store in memory is never behind the file by a block that the command removed.

`ChainSync_proofs` proves, for every block tree, finite set of nodes and any bounds:

- `TypeCorrect`.
- `SyncBlamesOnce`: `Spec => []BlamedOnce`. Each exception a node may raise against its peer
  is excluded by what the message was sent for; the exception of an overrun is the one that is left.
  What refused transactions add is counted, not bounded: the code does not bound it either.
- `RequestsAreAnswered` (`AnswerOnItsWay`), `NothingAskedInVain` (`NothingMissing`) and
  `NothingKeptFromPeer` (`KnowsWhatPeerHas`). The invariant says for each
  message on its way what its sender had when it was sent, and that a chain a node once
  had remains among what it can serve. `Headers_proofs` has what the locator and the
  answer to it amount to: the fork is an ancestor of both chains.

The last three hold until a chain change from outside replaces a branch (`stale`).
Without this condition TLC finds a trace of 33 steps in which `NothingMissing` and
`AnswerOnItsWay` fail: a candidate keeps the fork height of a branch that is gone, the
activation drops blocks below it (`data_stale_fork`), and the node announces a chain
whose blocks it cannot serve.

Assumptions are those of the modules: the blocks form a tree with finite chains,
coins are created once, histories grow along a chain, `None` and the markers are not
data, the bounds are natural numbers, threads and nodes are finite in number and of one kind
each (`BookAssumption`: the node's own endpoint, its loopback ones and the seeds are endpoints, a peer needs at
least one failure to be dropped), and of the encodings (`SizesAssumption`) that the three
widths grow, that a byte can mark three of them and that a limit fits the type it is
compared in, as all of them do in the code. TLC evaluates them in every run. Two theorems of `ChainStore_proofs` add that
there is one process, `NothingForgotten` of `NodeData_proofs` that there is one session, each as a
hypothesis of the theorem that `store_faults` and `data_node` satisfy.

Model-checked only: `CommitEnds`, `InStepOrStuck`, `ParentIsTold`, `QuietSyncCatchesUp`
and the two `StopEnds` (liveness, like `ENABLED`, is out of reach of the prover), and two
properties of pure functions:

- `EncodingsExact` as a whole. It has the version message and the peer records besides what
  is proved above, and the text of amounts: decimal digits, and a selection of records by
  `SelectSeq`, of which the library has no usable theorems.
- `PaymentSound`, which rests on a sort, on folds over coins and on amounts.

The library's induction theorems take an operator as a parameter and cannot be cited here.
What a recursive function computes is proved instead with the set of the numbers up to
which it is right, by the induction on numbers that the provers have for sets
(`UpTo`, `Recursion`). No module has a recursive operator.

## 5. What is not modelled

- Single blocks: proof of work, timestamps, sizes, scripts and signatures. Blocks of
  the models are valid; the checks reject the others before any state changes.
- Coinbases, which cannot be spent within the depth of the models
  (`COINBASE_MATURITY` is 100), and amounts. The chain of legacy format
  (`load_legacy_v3`).
- Overlapping saves of the side-store file: the session that receives a candidate
  block does not hold `data_mutex_` (`net.cpp:1845`). The models make that load,
  change and save one step.
- In `ChainSync`: the timers, the message rate (`net.cpp:1580`, which bans an honest peer
  whose blocks are handled faster than 2000 in ten seconds), `tx` but for its refusals,
  `getaddr`, failures of the node's own files (they belong
  to `NodeData` and `Connections`), and peers that send wrong data. A session whose messages
  never pause does not come to its timers; in the model every part of the loop gets its turn.
- In `Connections`: an exception of the ban list or of `peers.dat` outside the handlers'
  try blocks (`net.cpp:1269`, `1295`, `1306`), which ends the process.
- In `OneShot`: a running node that saves into the same directory during the exchange, the
  transactions that are fetched, and a persistent node as the peer, which asks for headers
  itself when it has less work; the client takes that for an unexpected message. When such
  a peer asks for the status, the client loads its chain anew (`net.cpp:2047`) and goes on with
  the fork index it had; it only differs if another process writes to the directory.
- In `NodeApp`: a signal between the end of `stop_requested` and the reset of
  `signal_stop` (`node_app.cpp:237`), when the handler would write through a dangling pointer;
  HTTP, JSON, and the methods that only read. Every call leaves a thread to be joined at
  the stop (`rpc.cpp:311`).
- In `Wallet`: loss of power (the file is not synced before it is renamed), a recovery
  phrase that is saved but never shown because permissions cannot be set
  (`hd_wallet_backend.cpp:72`), and commands run while the daemon has the wallet, which
  `src/README.md:369` rules out. A wallet restored from its words starts with 21 receive
  keys, whatever it had handed out before.
- In `PeerBook`: services, scores and reasons, the text of the files and of endpoints, a
  clock that steps back.
- Compact targets, the search for a nonce, the Merkle tree and the subsidy; `json`,
  `bech32`, `mnemonic`, keys and hashes, the logger, `main.cpp`'s options and
  `cli_main.cpp`: arithmetic on 256-bit numbers, cryptography, text and output, which
  the unit tests' vectors check better than small instances would.

## 6. Theorems still worth proving

- The version message and the peer records of `EncodingsExact`. The first is a longer
  header; the second is not one string for each value, since a time is cut to 32 bits and
  hosts without an address are left out.
- `PaymentSound`: that what `create_payment` selects covers amount and fee for any coins.
- `StoredOnce` holds for any number of processes; how much of `DurableChain` survives with
  several (the committed chain stays loadable, but not its work) deserves an abstract
  specification of its own.
