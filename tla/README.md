# A TLA+ verification of Shadows

Shadows is a Substrate node with an Ethereum layer on top: an EVM pallet runs
Ethereum transactions in the runtime, an Ethereum pallet wraps them into
Ethereum blocks, every Substrate block carries the hashes of its Ethereum block
in its digest, and the client keeps a database that maps Ethereum hashes back to
Substrate blocks and serves the Ethereum RPC from it. This directory holds the
TLA+ modules that model that layer, the TLC configurations that check them on
small instances, and proofs checked by TLAPS. `PROJECT.json` lists components,
runs, mutants, findings, hazards and theorems, and maps every definition to the
source lines it models.

## 1. Inventory

| Component | State | Operations | Talks to |
|---|---|---|---|
| Digest logs, `primitives/consensus` | none; a block's digest | `find_pre_log`, `find_post_log`, `find_log`, `ensure_log`, `into_hashes` | written by the Ethereum pallet, read by the importer, the sync worker and the pending-transaction task |
| Ethereum pallet, `frame/ethereum` | `Pending`, `CurrentBlock`, `CurrentReceipts`, `CurrentTransactionStatuses` | `on_initialize`, `transact`, `validate_unsigned`, `on_finalize` | calls the EVM runner; deposits the post log |
| EVM pallet and runner, `frame/evm` | balances and nonces (in the balances and system pallets), contract code and storage | `call`, `create`, `create2`, `withdraw`, `Runner::execute`, the fee adapter | interpreter (external crate), balances pallet |
| Dynamic fee pallet, `frame/dynamic-fee` | `MinGasPrice`, `TargetMinGasPrice` | the inherent `note_min_gas_price_target`, `on_finalize` | a `FeeCalculator` for the EVM pallet (not in this runtime) |
| Block import, `client/consensus` | none | `import_block` | checks the digest, then the inner import |
| Mapping database, `client/db` | columns META, BLOCK_MAPPING, TRANSACTION_MAPPING, SYNCED_MAPPING | `write_hashes`, `write_current_syncing_tips`, `is_synced` | written by the sync worker, read by the RPC |
| Mapping sync, `client/mapping-sync` | syncing tips in the database, `have_next` | `sync_one_block`, `sync_blocks`, the worker's `poll_next` | import notifications, leaves and headers of the client |
| Filter API, `client/rpc` | the filter pool, under a mutex | create, poll, uninstall, `filter_pool_task` | best number of the client, import notifications |
| Pending transactions, `client/rpc` | map from hash to transaction, under a mutex | `send_transaction`, `send_raw_transaction`, `pending_transaction_task` | transaction pool, import notifications, lookups by hash |
| RPC lookups, `client/rpc` | none | `transaction_by_hash`, `transaction_receipt`, `block_by_hash`, `block_by_number`, `logs`, `transaction_count` ... | mapping database, runtime APIs, storage overrides |
| Gas estimation, `client/rpc` | the bounds of a search | `estimate_gas` | the runtime API, once per run, on the best block of that moment |
| Publish/subscribe, `client/rpc` | open subscriptions | `newHeads`, `logs`, `newPendingTransactions`, `syncing` | notification streams |
| Storage overrides, `client/rpc` | none; the schema stored on chain | blocks, codes and slots by raw key, or through the runtime API | storage of the client |
| Filter parameters, `client/rpc-core` | none | parsing and flattening of topics, `filter_*` | log polls, `eth_getLogs`, subscriptions |
| Precompiles, `frame/evm/precompile` | none | gas charging, taking inputs apart, cryptography | called by the interpreter |
| Node, runtime composition | constants, wiring, CLI | `revert`, start and stop | everything |

What is hard here: the index is written in two commits that a stop of the node
or a database error can separate; imports, forks and reverts move the chain
under the sync worker, under RPC handlers that read in several steps without a
lock, and under a gas search that runs on a new best block every time; a
transaction leaves the pending map and enters the index on two different clocks;
filter polls read the best block before they take the lock they use it under;
extrinsics are not transactional, so the place of an error in the fee logic
matters; accounts are reaped in the middle of an execution by the existential
deposit; two stacks (substates and storage transactions) have to be kept in step
through early returns; `Pending` outlives its block in storage; the digest is
written by one function and judged by two others, and logs are numbered by three
walks. The `hazards` of `PROJECT.json` list these by line.

## 2. Modules

### The index and its readers

`ConsensusLog` - the digest as a sequence of items and the four searches as
operators: a pre log with a block, a post log with a block or with hashes, and
items of other engines. SCALE encoding is dropped, hashing is an injective
constructor (`Keccak`).

`EthIndex` - the abstract index: what fc-db promises its readers, without worker,
tips, commits and faults. Blocks enter one at a time, whole, once, only while the
node has them, and never leave.

`MappingSync` (extends `ConsensusLog`) - a chain with forks, the mapping
database, the worker. `imported` is the client's block tree, `synced`,
`block_mapping`, `transaction_mapping` and `tips` are the database,
`pc`/`calls`/`todo`/`op`/`have_next` the worker between its commits.
`ImportBlock` asks `ensure_log`; `FireOnNotification`, `FireOnHaveNext` and
`FireOnDelay` are the three ways `poll_next` starts a pass; `SelectTip` reads
the tips or the leaves and pops to an unsynced one; `SyncBlock` is the commit
of `write_hashes` (with `sync_genesis_block` for the genesis block); `WriteTips`
is the commit of the tips. Between commits anything else may happen. `SyncFails`
and `Restart` are database errors and stops of the node, bounded by `MaxFaults`
outside and `MaxTorn` inside the window between the two commits; `RevertBlock`
is the `revert` command, bounded by `MaxReverts`. `TipUnusable` is the pass that
fails because the popped tip has no header. Assumed of the data: no transaction
is twice in one block. `Index` maps the lists of the database to the sets of
`EthIndex`; `ImplementsIndex` says the one specification implements the other.

`Chain` (extends `EthIndex`) - what RPC handlers and subscriptions see: the best
chain, reorganisations, import notifications (without one for blocks of the
initial sync), pruning of old states, and the index, which grows at its own
pace. Because `MappingSync` implements `EthIndex`, what holds for every behaviour
of the abstract index holds for the worker.

`TreeAssumption` says that the constants form a tree: an ancestor is the block
itself or an ancestor of its parent, and numbers count from the genesis block.

`EthRpc` (extends `Chain`) - handlers as sequences of reads. `LookupOf` stands for
`transaction_by_hash` and `transaction_receipt`, `AtBlock` for the handlers that
take a block by hash or number, with `block_by`, `transaction_by_block_and_index`,
`block_transaction_count` and `state_at` as their requests. `LoadTransactions`,
`LookInPending`, `ReadHashes`, `CheckCanon`, `ChooseCanon`, `ReadBlock` and
`ReadStatuses` are the steps; `StartSend`, `ReadNumber`, `Submit` and
`InsertPending` those of sending; `HandleNotification` is one turn of
`pending_transaction_task`. The answer is abstracted to the blocks it was read
from. `moved`, `findable` and `accepted` are observations. `SpecRpc` is the chain
with the index and the handlers.

`Pubsub` (extends `Chain`) - the four kinds of subscription, each at its own place
in the stream of notifications. `SpecPubsub` is the chain with the subscriptions;
handlers and subscriptions write none of each other's state, so they are
specified apart.

`FilterPool` - clients with a handler that is either idle or past its first read
of the best number; the pool; the queue of import notifications that
`filter_pool_task` has not handled. What happens under the mutex is one step.
The answer of a poll is reduced to the heights it covers, counted in
`delivered`; a reorganisation that puts another block at a height already covered
is not part of it. `overlapped` observes the keys that were polled by two
handlers at once.

`EstimateGas` - the binary search of `eth_estimateGas` and the variant without
it. What a request does on a state is an arbitrary function from gas limits to
gas used, or failure: contracts may look at their gas. `NewBest` changes the
function between two runs.

### The runtime

`EvmRunner` - operators on a world of balances, nonces and issuance: the
balances pallet with its existential deposit (external), the fee adapter, one
run of the interpreter as a nondeterministic outcome (external), and
`Runner::execute` with its checks in order. Integer widths are constants, so
that `low_u64`, `low_u128`, the checked and the saturating operations act as
in the code. Any account may be reaped; in the runtime an account with code
may hold a consumer reference that keeps its record, so for contracts this model
allows more than the code does. References are in `EvmStack`.

`EvmStack` - what an execution works on: substates (`frames`) with their logs and
deletions, storage transactions (`layers`), codes, storages and consumer
references. The interpreter is external: it calls, creates, writes, logs,
self-destructs, runs out of gas, returns and reverts in any order. Frames end
through `exit_commit`, `exit_revert` and `exit_discard`; `Finish` is the end of
`Runner::execute`. `inc_consumers` and `dec_consumers` may be refused unnoticed,
as in the code: a contract created without endowment gets no reference.
`remove_accounts` is the loop over the deletions; each turn touches its own
account only, so their order does not matter. `live` and `deleted` are
observations: the logs made and the accounts marked since the execution began, but
for what a revert undid.

`EthereumPallet` (extends `EvmRunner` and `ConsensusLog`) - the life of a block:
`on_initialize`, extrinsics, `on_finalize`, `import_block`, where a refused
block takes its state with it. `transact` is entered through
`validate_unsigned`, as the executive enters it. `call` stands for `evm.call`,
`evm.create` and `evm.create2`. `applied` is an observation: the extrinsics of
the block with their results. `DigestAssumption`: before a block is executed its
digest holds what the author put there, pre-runtime items and no post log;
`GenesisAssumption`: the issuance of the genesis, a `u128`, is the sum of its
balances. Not in the header: author, timestamp, bloom. The
fees and nonces of the Substrate accounts that sign `evm.call` are left out.

`DynamicFee` - price and target, the inherent and `on_finalize` (`FeeSpec`).

### Functions

`LogFilter` - JSON topics, their parsing and flattening, the four filters, the
range of `eth_getLogs`, and the three numberings of a block's logs.
`Precompiles` - the runtime's set, the cost of an input, how each precompile
takes its input apart (lengths and outcomes; what is computed is external), and
`Dispatch`. `StorageSchema` - raw keys, the runtime's reads and the choice
between them. `TransactionCount` - the pending count of an account from one walk
over the ready queue, whose order is that of the pool tags of
`validate_unsigned`. `MCPure` picks inputs for all of these and for the digest
searches; `MCFunctions` adds the gas search and the minimal gas price, which share
nothing with them: a behaviour runs one of the three (`focus`).

`MC*` modules give the constants their values; `*Proofs` modules hold theorems:
`ConsensusLogProofs` those about folds and digest searches that others build on,
`EthereumPalletProofs` those about `EvmRunner` too, `GasProofs` those about
`DynamicFee` and `EstimateGas`, `PureProofs` those about the functions.

## 3. Runs

| Run | Question | Result |
|---|---|---|
| `functions_and_gas` | Do the functions agree with reference definitions on all small inputs: the digest searches among each other (`DigestSearchesAgree`), log filters and ranges with what they mean (`LogFilterExact`), the numberings of logs and the sums of gas (`ReceiptViewsAgree`), costs and panics of precompiles (`PrecompilesSafe`), reads by raw key with reads through the runtime (`OverrideAgrees`), the pending count with the ready transactions (`TransactionCountExact`)? Do the bounds of the gas search stay ordered, is its answer witnessed by a run, when does its subtraction underflow, does it end? Does the minimal gas price move towards its target without overflow, and does it arrive once all authors agree? | holds |
| `earliest_block` | Does a range that names the earliest block begin or end at the genesis block? | violated |
| `pushed_index` | Is a pushed log in the transaction that `eth_getLogs` shows it in? | violated |
| `storage_override` | Does the override read the slot that was asked for? | violated |
| `mapping_sync` | With imports on two forks and errors, stops and reverts anywhere, also between the two commits: do the mappings stay exact, does a fault cost at most one link (`GapsBounded`), does the index catch up (`CatchesUp`), and is all this an implementation of `EthIndex`? | holds |
| `mapping_sync_retry` | Does the retry the worker logs repair an error between the commits? | violated |
| `filter_pool` | Two clients: is nothing missed, is a height delivered once by a block filter, does no filter expire early? | holds |
| `filter_pool_logs` | Is a height delivered once by a log filter? | violated |
| `eth_rpc` | While three forks are imported and indexed under them: are the answers of handlers true (`LookupTruthful`) and do they not panic, is what can be found found, are accepted transactions tracked and later dropped, are mined ones found at last? And, with a block that comes without a notification and with pruned states, do subscribers see the chain and the syncing state go on, and which blocks may be missing (`PushesFaithful`)? | holds |
| `evm_stack` | Are both stacks in step, does a revert undo everything below it, are exactly the logs and deletions of committed frames carried out, are accounts and references sound? | holds |
| `ethereum_pallet` | Issuance, block contents, digest, links, atomic refusals, validation against execution, what a sender pays, nonces | holds |
| `ethereum_pallet_nonce` | Does every executed transaction raise its sender's nonce? | violated |

### What the violations show

*Retry.* `sync_one_block` marks a block synced and then stores its parent as the
next tip. An error between the two leaves the block synced; on the next pass the
block is skipped and its unsynced ancestors are never visited, unless another
branch leads to them. `GapsBounded` says how far the damage goes.

*Override.* `schema_v1_override.rs` builds the key of a slot from the little-endian
bytes of the index, the EVM and the runtime (`runtime/src/lib.rs`) from the
big-endian ones. `OverrideAgrees` says that this is the only difference: slot by
slot, the override reads the slot with the mirrored index.

*Earliest.* `block_number.rs` calls `earliest` the genesis block, and
`native_block_id` answers it with block 0. `logs` and `filter_logs` know a number or
nothing: from `earliest` is from the best block, to `earliest` is to the best block.
`filter_block_range`, which subscriptions use, ignores it as the first bound and
refuses every block when it is the last. `LogFilterExact` is about ranges without it.

*Transaction index.* The logs subscription puts `log_index` where `eth_getLogs` and
the receipt put the index of the transaction. `ReceiptViewsAgree` says that a pushed
log is otherwise the one `eth_getLogs` shows.

*Log polls.* A log poll reads the best number before the lock and again inside it.
A height can be delivered twice; `NoneMissed`, proved for any number of clients,
says none is lost.

*Nonce.* A transaction that leaves its sender between zero and the existential
deposit reaps it: the nonce starts from zero again when the account returns.
`NonceAdvances` is the part that does hold: a sender that keeps the existential
deposit on top of everything it may owe keeps its nonce, and success raises it
by one.

### What the properties leave out

Some properties state an exception, because the code does not promise more:

- `CatchesUp`: after a revert, the persisted tips may name a block that is gone;
  each pass then fails with "Header not found" before it changes anything, and
  meets the same tip again.
- `BlocksOnce`: two overlapping polls of one key may apply their numbers in the
  other order, and a height is delivered again.
- `FindableIsFound`, `MinedEventuallyFound`: a transaction that was in two forks
  has two metadata entries for ever, and `load_transactions` wants exactly one,
  so it is never found by hash. A reorganisation under a handler, or a pruned
  state, may also lose an answer.
- `LookupTruthful`, `NoPanic`: block and statuses are read by number in two calls;
  a reorganisation between them pairs one block with the statuses of another, and
  an index may lie beyond the shorter list.
- `PushesFaithful`: a block of the chain may be missing between two pushed heads
  although it was announced and kept its state: b1 is pushed, a block a2 of a fork
  arrives without a notification and becomes best, b2 is then no new best block
  and is not pushed, b3 is. The property names such a block as the reason: an
  untold one, at least as high as the missing one and lower than the next head.
- `NoUnderflow`: `old_best - best` panics when the best block changes between two
  runs so that the request becomes dearer, or when a request uses more gas under
  a smaller limit. `BestIsWitnessed`: a request that fails at every limit is not
  refused but estimated at `UPPER`.
- `LogFilterExact`: the doc of `Topic` lists `[null,[null,C]]` as supported; with it
  the loop of `filter_topics` refuses every log whose second topic is not C, because a
  choice that is too long or ends in a topic decides before a shorter one is tried.
  Of filters with null among the alternatives of a position the property says that
  they let no log too many through, and of those with an empty list nothing.
  An absent first number is the best one, read again: a block that comes between the
  two reads makes the range empty. The property requires that nothing is walked that
  is not meant, and all of it when no block comes in between.
- `ReceiptViewsAgree`: `cumulative_gas_used` is exact, without a panic, while the gas
  of the transactions up to the one asked for fits 32 bits. Beyond that `as_u32`
  panics, or the sum of several wraps; the weight limit of a block does not exclude
  it, and the property does not speak of it.
- `PrecompilesSafe`: Bn128Add and Bn128Mul panic on short inputs and Blake2F on every
  input of its length, 213 bytes, because it copies 44 bytes into a buffer of 64; the
  runtime leaves them out. That the hashes and Identity do not panic is not a result:
  they take their input as a whole. `Dispatch` compares the declared weight with the
  gas, but charges the weight the call reports: the property says that only a call
  that reports more than it declared costs more than it was given.

### Bounds

`functions_and_gas`: digests of up to four items (two logs of interest, with foreign
items around), topic filters and logs of up to two positions with alternatives of
up to two, blocks of up to three receipts, indices of two bytes of one bit each (the
smallest width in which byte order matters), up to four ready transactions of two
accounts. Widths are small constants (`U32` = 8, `U64` = 4096), and the costs and
lengths are chosen on both sides of every boundary; a receipt's gas is 0, 3 or what
does not fit. `MAX_SIZE` of Modexp is 8 instead of 1024. The gas search has limits
from 3 to 24, a threshold of 10 per cent, and requests that need a limit on any side
of the range and whose gas is constant, grows or shrinks with it, changing into each
other at any time. The price has every price and target of a five-bit width; the
divisor is 2, the smallest for which the sum fits and so the one with the largest
step. `earliest_block`, `pushed_index` and `storage_override` draw the same inputs
without the search and the price.
`mapping_sync*`: six blocks in two forks of length two plus one block the
importer refuses; the forks share an Ethereum block (so one hash has two
Substrate blocks) and a transaction at different indices; genesis is reached
from both forks. A pass of `sync_blocks` ends with the first block it syncs
(`synced_any || ...` does not call again), so `LIMIT`, 8 in the node, only counts
empty rounds; two are enough to have a repeated one. One fault, one torn commit
and one revert, in every combination.
`filter_pool*`: two clients suffice for overlapping polls and for a race for the
last place in the pool, four heights for polls that cover several. The pool holds
one filter and there are two keys, so that ids are given out again. The retention
is 2 or 3 blocks instead of 100.
`eth_rpc`: five blocks in three forks, two of which share an Ethereum block, one
transaction in both forks, one in a single block; one client, because handlers
share nothing but the pending map, whose only other writer is the task; retention
of 2 blocks instead of 5, pruning after 2, at most one notification waiting. A
behaviour runs the handlers or a subscription (`focus`), which write none of each
other's state. The subscription has five blocks in two forks of its own, one of them
silent, the smallest tree in which a head is skipped for the sake of a fork, and
three results; subscriptions share only the stream they read, so one is enough. Its
blocks are empty: no property speaks of the transactions pushed.
`evm_stack`: a user, a contract of the genesis and an address to create at; depth
3, two executions of up to four operations (with five the same properties hold,
in 3.3 million states); a deposit of 2 and values 0 and 2, so that transfers reap.
`ethereum_pallet*`: widths of 2, 5 and 6 bits, an existential deposit of 3 and
balances up to 12, so that truncation, overflow and reaping all happen; two
blocks for what carries over from one to the next; two extrinsics per block for
what carries over within one.
The theorems of section 4 hold without these bounds.

`CHECK_DEADLOCK FALSE` is given where a behaviour ends: when an input was picked,
a search answered, all blocks are imported, or a bound is reached.

### Fairness

`mapping_sync` assumes weak fairness of the worker as a whole: it is an essential
task of the node (`node/src/service.rs`), its delay elapses again and again, and
a pass that has started ends. Nothing is assumed of imports or notifications,
and faults are finitely many. `eth_rpc` assumes weak fairness of the indexing and
of `pending_transaction_task`, essential tasks too, and nothing of clients.
`functions_and_gas` assumes that the thread of `estimate_gas` runs until it returns,
that blocks keep being produced, and that each carries the inherent of the minimal
gas price, which its provider puts in every block. `SearchTerminates` and
`PriceConverges` are `Terminates` and `Converges` of the behaviours that run the
search and the price.

### Mutants

Every property of a passing run has a mutant in the module it speaks about: an
operator next to the definition it replaces (`Mut...`), with a bug one could write
there: a dropped guard, a swapped order, a missing reset. The run must then find
that property violated.

## 4. Proofs

All theorems hold for every value of the constants under the named `ASSUME`s of
the modules (finite sets of blocks and of accounts, block numbers along parents,
non-zero widths in order, a divisor of at least two, ...), which TLC evaluates in the
runs. Every safety property of a passing run, invariant or action property, is a
theorem, and so is the refinement; what TLC alone checks is liveness. The functions
ask the least of their constants: `WidthAssumption` (a width of more than two words),
`IndexAssumption` (a width is not zero, null is no tag), `StorageAssumption` (a byte
has more than one value, a missing entry is no schema), `BoundAssumption` and
`NullAssumption` (the bounds of the inputs drawn are naturals, null is no topic).

**Index.** `MappingSyncProofs`: `TypeCorrect`, `BlockMappingCorrect`,
`TransactionMappingCorrect`, `WalkKeepsItsPlace`, `DatabaseImplementsIndex`. The
invariant has three facts besides the properties. `WorkerInv` relates the worker's
local state to the database between the commits: the block in hand is not synced
before its commit and is after it, its parent is then on the worker's list, and
every persisted tip is either on that list or already synced; without it the walk
could lose a tip that `WriteTips` overwrites. `CommittedInv`: a synced block has a
readable log. `CutsBounded` counts the blocks cut off by the persisted tips alone,
but for the one in the window. `GapsBounded` itself is not inductive: a pass that
begins at the leaves may put the missing parent of a cut-off block on its list,
and loses it again when it is cut short. The largest step is `write_hashes`:
appending one metadata entry per transaction keeps all lists exact. The refinement
rests on the same invariant: `write_hashes` is one `IndexBlock`, imports and
reverts are those of the index, everything else stutters.

**Readers.** `EthRpcProofs`, first part, for `SpecRpc`: `LookupTruthfulAlways`,
`NoPanicAlways`, `FindableIsFoundAlways`, `AcceptedTrackedAlways`, all from
`RpcInv`. It says what each handler's locals are worth between two reads. `Reads`
gives, place by place, what was established when it came there: the hash is that of
the transaction asked for, the blocks still to be checked are indexed under it,
those kept were canonical, unless a reorganisation overtook the handler (`moved`).
`Tracks` says that a transaction the index had when the request came is still on its
way to the answer. `IndexInv` and `ChainInv` are what the
reads find: the index lists imported blocks under what they commit to, imported
blocks come with their ancestors, the best block is a highest one. Two facts about
trees carry the rest: two ancestors of a block at one height are equal, and a chain
holds at most one block with a given Ethereum hash. They are proved by taking a
counterexample of least number.

Second part, for `SpecPubsub`: `PushesFaithfulAlways`. The property speaks of
results only, so `PubsubInv` first describes the stream of notifications
(`NotesInv`): announced heads get higher, and a block between two of them that was
not announced as best was overtaken by one that came between them. `HeadsOK` then
places two consecutive results in that stream and says that every head between them
lost its state. The proof found the weaker form of the property that is true (see
above).

**Filters.** `FilterPoolProofs`: `NothingMissed`, `LastPollCorrect`,
`BlocksDeliveredOnce`, `NoFilterExpiresEarly`. For the first two, a handler's early
read is never ahead of the chain (`SeenInv`): a `last_poll` written from it stays
below best + 1, and a poll covers at least up to it. `OnceInv`: heights from
`last_poll` on were not delivered, nor those above the number that a poll in
progress has read; this is kept only while no two polls of the key overlap, which
is why the property excepts them. `QueueInv`: notifications waiting for the task
are not above the best block.

**Gas.** `GasProofs`, second part: `MidStaysInRange`, `AnswerWitnessed`,
`UnderflowExplained`. `SearchInv` distinguishes what the search can know while the
best block stays: nothing has succeeded, and then only the limit `UPPER` was tried;
or the run at `UPPER` did succeed, `best` was used with the limit `upper`, and it is
no more than what was used with `UPPER`.

**Execution.** `EvmStackProofs`: `StorageInStepAlways`, `RevertUndoesAlways`,
`EffectsAreLiveAlways`, `AccountsSoundAlways`, for any depth. `StackInv` describes a
pair of stacks that belong together (`Steady`): the layer under a substate is the
world it was entered with, that world is itself sound (a rollback returns to it), no
substate but the innermost has failed, and the logs of the substates are
consecutive stretches of the live ones. The early returns of `exit_commit` and
`exit_revert` are then shown not to be reached with a failed parent.

**Blocks.** `EthereumPalletProofs`, first for `EvmRunner`, for every world, sender,
price and outcome: `ExecuteAllOrNothing`, by cases on the checks. The one error
after the fee is taken would be the offset in `correct_and_deposit_fee`;
`SettlingSucceeds` shows that a refund never exceeds what was paid.
`ExecuteConserves`: the issuance changes by what the sum of all balances changes
by, through fee, transfers, reaping and refund. `ExecuteBillsSender`: what the sender
pays, and what becomes of its nonce.

Then the pallet, which builds on these. `TypeCorrect` and
`RefusalsAreAtomic`: the type invariant needs the parent's state too, because a
refused block returns to it. `IssuanceIsExact`, from `LedgerInv`: the issuance also
never exceeds that of the genesis, so no deposit overflows. `ValidationIsSufficient`:
a sum that saturates exceeds every balance, so what passes does not overflow in the
runner. `SurvivorsPayActual`, `NoncesAdvance`. `BlocksAreWhatRan`, from `RanInv`:
while a block is built, `Pending` is entry by entry what the successful transact
calls left. `EnsureAgreesWithFindLog` (in `ConsensusLogProofs`): importer and sync
worker give the same verdict on every digest of any length.
`BuiltBlocksAreImportable` and `ImportedChainsAreSound` follow from it: `BuildInv` says what has been sealed and
for which parent, `ChainInv` that the parent's state holds the block imported last.

**Fees.** `GasProofs`, first part: `FeeTypeCorrect`, `BoundNeverOverflows`,
`PriceFollowsTarget`, from the facts about division in `DivFacts`.

**Functions.** `PureProofs`. Each property of the functions is the special case,
for the inputs that `MCPure` draws, of a theorem about every input. `Drawn` is the
inductive invariant of `InputsDrawn`: what an input of each kind is, without the
bounds of the instance (sequences of any length, any naturals, any storage that has a
schema). From it and the general theorems follow `DigestSearchesAgreeAlways`,
`LogFilterExactAlways`, `ReceiptViewsAgreeAlways`, `PrecompilesSafeAlways`,
`OverrideAgreesAlways` and `TransactionCountExactAlways`.

- `SearchesAgree`: each of the four searches of a digest is a search for a set of
  positions (`Searched`): it gives nothing when the set is empty, the only one when
  it has one, and an error when it has more. Pre and post logs exclude each other.
- `TopicsFiltered`: `cartesian` returns exactly the choices of one alternative per
  position (`CartesianIsProduct`), shrinking a choice drops its trailing wildcards and
  nothing else (`Shrunk`), so that a turn of the loop lets a log through when the
  log has every topic the choice names (`TurnFits`); the loop, with its early exits,
  lets through nothing that fits no choice, and finds one that fits when all choices
  end in the same position (`FilterChoices`). With null among the alternatives they
  may not: a longer choice ends the loop before a shorter one that fits is tried.
  There only the first half is claimed, and of empty lists nothing.
- `LogsRangeIsExact`: for bounds other than `earliest`, the range walked against the
  range meant; what is walked begins at the meant first number or, after the race,
  above it.
- `IndicesAgree`: the walk over the receipts puts the logs of each at the positions
  that follow the logs before it, and numbers them by the exact sum, wrapped
  (`NumberedLogs`); the receipt sums the same counts wrapping at every addition
  (`RemainderOfSum`); what is filtered out leaves a segment that is the receipt's
  (`SublistSegment`). A pushed log equals that of `eth_getLogs` in all but the
  transaction index, of which nothing is claimed.
- `CumulativeGasIsExact`: wrapping at every addition is wrapping once, and each
  transaction's gas is no larger than the sum (`SumsGrow`), so none panics.
- `PrecompilesSafeAlways`: `LinearCost`, by cases on where the sums saturate;
  `RecoverSlices`, `ModexpSlices` and `PairingSlices`: the buffer, or the checks on
  lengths that come before a slice, imply its bounds; `DispatchCost`.
- `OverrideIsRuntime`: reads depend on the schema only by the choice of the
  reader, and the other keys differ from that of the schema (`SchemaOnly`). Slots need
  that the mirror image of an index exists: every sequence of bytes is that of an
  index (`EveryBytes`, by adding one byte at a time), so `Mirrored` chooses one.
- `CountIsExact`: after every prefix of the queue the count is above every nonce of
  the account in it, and every nonce it passed is there; in a queue ordered by the tags
  no nonce comes before the one it builds on.

**Folds.** Sums over accounts, searches through a digest, numberings and filters are
folds of the library, recursive functions on the subsets of a finite set or along a
sequence. The prover has no induction over data and cannot instantiate a theorem about
an operator, but a least counterexample serves: a set of naturals has a
least element (`LeastNatural`), a set of finite sets one that loses membership
with any of its elements (`SmallestSet`). From these follow that the recursive function of
a fold exists (`FoldDefined`) and what its values are (`FoldTyped`); writing one
balance changes the sum by the difference (`TotalChanges`). A fold along a sequence is
then described by a path: the values after each element, each the step of the one
before (`Path` in `ConsensusLogProofs`). Steps are functions, not operators, so a lemma
about paths is stated once and used for all of them; what every step keeps holds at
the end by `PrefixInduction`. For the same reason
`BlockIsWhatRan` and `EffectsAreLive` speak of positions, not of filtered sequences,
`logs_build` filters with `Sublist`, a fold, where the library's `SelectSeq` is
recursive, and the number of values of `k` bytes is `Numbers[k]`, not a power.

Only model-checked: liveness (`CatchesUp`, `PendingDropped`,
`MinedEventuallyFound`, `SearchTerminates`, `PriceConverges`), which is outside the
prover's reach. The six violated properties are, of course, no theorems;
`GapsBounded`, `OverrideAgrees`, `NoneMissed`, `NonceAdvances`, `LogFilterExact` and
`ReceiptViewsAgree`, which say what holds in their place, are.

## 5. Plan

Every safety property that a run checks is proved. What is left for later work are the
conditions under which the six violated properties would hold, and those hazards of
`PROJECT.json` that no property covers, or covers with an exception: ids of filters
that are given out again, gas beyond 32 bits, null among the alternatives of a topic.

## 6. Not modelled

Networking, consensus (Aura, GRANDPA), the transaction pool's own ordering beyond
the tags it is given, CLI parsing, wiring of the node and chain specifications,
serialisation of RPC types, decoding of revert messages, what the cryptography in
signatures and precompiles computes, database opening, the interpreter (its calls
on the state are chosen freely), block context getters, handlers that answer a
constant or forward one call, and `frame/evm/src/backend.rs`, which no module
declares. `PROJECT.json` gives the reason component by component.
