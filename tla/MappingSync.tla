---------------------------- MODULE MappingSync -----------------------------
(***************************************************************************)
(* The Ethereum-to-Substrate index of a node and the worker that fills it: *)
(* ShadowsBlockImport (client/consensus), the fc-db database (client/db)   *)
(* and the mapping-sync worker (client/mapping-sync).                      *)
(*                                                                         *)
(* Blocks are imported at any time, in any order that respects parents.    *)
(* The worker, a single task, walks from the leaves of the block tree      *)
(* towards genesis.  For one block it makes two separate database commits: *)
(* write_hashes (the block's mappings and its "synced" flag, atomically)   *)
(* and then write_current_syncing_tips (the blocks it still has to visit). *)
(* The two commits are separate actions here, because imports, crashes and *)
(* commit errors fall between them.                                        *)
(*                                                                         *)
(* Simplifications: a block's hash stands for the block, so its header is  *)
(* a constant; database decoding errors are among the errors of SyncFails. *)
(***************************************************************************)
EXTENDS ConsensusLog, FiniteSets

CONSTANTS
  Blocks,        \* the Substrate blocks that may ever exist, by hash
  Genesis,       \* the genesis block
  Header,        \* Header[b] = [parent, number, digest]
  GenesisEth,    \* hash of the Ethereum genesis block (runtime storage)
  EthHashes,     \* Ethereum block hashes
  TxHashes,      \* Ethereum transaction hashes
  None,          \* "no operating tip"
  LIMIT,         \* calls of sync_one_block per poll of the worker
  MaxFaults,     \* bound: errors and restarts outside the two-commit window
  MaxTorn,       \* bound: errors and restarts between the two commits
  MaxReverts     \* bound: uses of the node's `revert` command

(* The Ethereum hashes that syncing a block writes: for genesis they come  *)
(* from the runtime API (sync_genesis_block), for every other block from   *)
(* the log in its digest (sync_block); None where find_log fails.          *)
Commitment ==
  [b \in Blocks |->
     IF b = Genesis
     THEN [block_hash |-> GenesisEth, transaction_hashes |-> <<>>]
     ELSE LET r == find_log(Header[b].digest) IN
          IF r.res = "Ok" THEN IntoHashes(r.log) ELSE None]

(* The blocks that ShadowsBlockImport lets through to the inner import. *)
Importable == {b \in Blocks : ensure_log(Header[b].digest) = "Ok"}

ASSUME GenesisAssumption ==
  /\ IsFiniteSet(Blocks)
  /\ Genesis \in Blocks
  /\ None \notin Blocks

(* Parents are blocks, and numbers count the distance from genesis. *)
ASSUME HeaderAssumption ==
  /\ \A b \in Blocks : Header[b].number \in Nat
  /\ Header[Genesis].number = 0
  /\ \A b \in Blocks \ {Genesis} :
       /\ Header[b].parent \in Blocks
       /\ Header[b].number = Header[Header[b].parent].number + 1

(* What the logs carry is well formed, and no transaction is in one block  *)
(* twice.                                                                  *)
ASSUME CommitmentAssumption ==
  \A b \in Blocks : Commitment[b] # None =>
    /\ Commitment[b].block_hash \in EthHashes
    /\ Commitment[b].transaction_hashes \in Seq(TxHashes)
    /\ IsInjective(Commitment[b].transaction_hashes)

ASSUME BoundsAssumption ==
  /\ LIMIT \in Nat \ {0}
  /\ MaxFaults \in Nat
  /\ MaxTorn \in Nat
  /\ MaxReverts \in Nat

VARIABLES
  \* Substrate backend
  imported,             \* the blocks in the backend
  \* fc-db, on disk
  block_mapping,        \* column BLOCK_MAPPING: Ethereum hash -> Seq(block)
  transaction_mapping,  \* column TRANSACTION_MAPPING: tx hash -> Seq(metadata)
  synced,               \* column SYNCED_MAPPING: blocks whose flag is set
  tips,                 \* META / CURRENT_SYNCING_TIPS
  \* the worker, in memory
  pc,                   \* "idle", "select", "hashes" or "tips"
  calls,                \* calls of sync_one_block left in this poll
  todo,                 \* local current_syncing_tips
  op,                   \* local operating_tip
  have_next,            \* MappingSyncWorker.have_next
  notified,             \* an import notification is waiting in the stream
  \* bounds
  faults, torn, reverts

chain  == <<imported, notified>>
db     == <<block_mapping, transaction_mapping, synced, tips>>
worker == <<pc, calls, todo, op, have_next>>
bounds == <<faults, torn, reverts>>
vars   == <<imported, block_mapping, transaction_mapping, synced, tips,
            pc, calls, todo, op, have_next, notified,
            faults, torn, reverts>>

Metadata == [block_hash : Blocks, ethereum_block_hash : EthHashes, ethereum_index : Nat]

TypeOK ==
  /\ imported \subseteq Blocks
  /\ block_mapping \in [EthHashes -> Seq(Blocks)]
  /\ transaction_mapping \in [TxHashes -> Seq(Metadata)]
  /\ synced \subseteq Blocks
  /\ tips \in Seq(Blocks)
  /\ pc \in {"idle", "select", "hashes", "tips"}
  /\ calls \in 0..LIMIT
  /\ todo \in Seq(Blocks)
  /\ op \in Blocks \cup {None}
  /\ have_next \in BOOLEAN
  /\ notified \in BOOLEAN
  /\ faults \in 0..MaxFaults
  /\ torn \in 0..MaxTorn
  /\ reverts \in 0..MaxReverts

Init ==
  /\ imported = {Genesis}
  /\ block_mapping = [e \in EthHashes |-> <<>>]
  /\ transaction_mapping = [t \in TxHashes |-> <<>>]
  /\ synced = {}
  /\ tips = <<>>
  /\ pc = "idle"
  /\ calls = 0
  /\ todo = <<>>
  /\ op = None
  /\ have_next = TRUE
  /\ notified = FALSE
  /\ faults = 0
  /\ torn = 0
  /\ reverts = 0

-----------------------------------------------------------------------------
(* ShadowsBlockImport::import_block: ensure_log, then the inner import.    *)
(* Substrate announces most imports on the notification stream, but not    *)
(* the ones of an initial sync.                                            *)
ImportBlock(b) ==
  /\ b \notin imported
  /\ Header[b].parent \in imported
  /\ b \in Importable
  /\ imported' = imported \cup {b}
  /\ notified' \in {notified, TRUE}
  /\ UNCHANGED <<db, worker, bounds>>

Leaves == {b \in imported : \A c \in imported \ {Genesis} : Header[c].parent # b}

(* MappingSyncWorker::poll_next fires: a notification was drained, the     *)
(* delay elapsed, or the last poll left something to do.  The delay may    *)
(* have elapsed at any time.                                               *)
StartSync ==
  /\ pc = "idle"
  /\ pc' = "select"
  /\ calls' = LIMIT
  /\ notified' = FALSE
  /\ UNCHANGED <<imported, db, todo, op, have_next, bounds>>

FireOnNotification == notified  /\ StartSync
FireOnHaveNext     == have_next /\ StartSync

MutFireOnDelay == notified /\ StartSync

FireOnDelay == StartSync

(* Popping tips until one is not synced: the candidates are taken from the *)
(* end, so the operating tip is the last unsynced one, and the ones before *)
(* it are kept.                                                            *)
Unsynced(s) == {i \in DOMAIN s : s[i] \notin synced}

(* sync_one_block up to the choice of the operating tip.  The candidates   *)
(* are the persisted tips or, when there are none, the current leaves,     *)
(* which the backend lists from the highest number to the lowest.  There   *)
(* is always a leaf, so the early return for an empty list is never taken. *)
Candidates ==
  IF tips # <<>>
  THEN {tips}
  ELSE {s \in SetToSeqs(Leaves) :
          \A i, j \in DOMAIN s : i < j => Header[s[i]].number >= Header[s[j]].number}

MutPickUnsynced(s) ==
  /\ s # <<>>
  /\ op' = s[Len(s)]
  /\ todo' = SubSeq(s, 1, Len(s) - 1)
  /\ pc' = "hashes"

PickUnsynced(s) ==
  \E i \in Unsynced(s) :
     /\ \A j \in Unsynced(s) : j <= i
     /\ op' = s[i]
     /\ todo' = SubSeq(s, 1, i - 1)
     /\ pc' = "hashes"

PickNothing(s) ==
  /\ Unsynced(s) = {}
  /\ op' = None
  /\ todo' = <<>>
  /\ pc' = "tips"

SelectTip ==
  /\ pc = "select"
  /\ \E s \in Candidates : PickUnsynced(s) \/ PickNothing(s)
  /\ UNCHANGED <<chain, db, calls, have_next, bounds>>

(* write_hashes: one commit that appends the block to the list of its      *)
(* Ethereum hash, appends metadata to the list of each of its transactions *)
(* and sets the synced flag.                                               *)
MutAppendMetadata(b, c) ==
  [t \in TxHashes |->
     IF \E i \in DOMAIN c.transaction_hashes : c.transaction_hashes[i] = t
     THEN <<[ block_hash          |-> b,
              ethereum_block_hash |-> c.block_hash,
              ethereum_index      |->
                (CHOOSE i \in DOMAIN c.transaction_hashes : c.transaction_hashes[i] = t) - 1 ]>>
     ELSE transaction_mapping[t]]

AppendMetadata(b, c) ==
  [t \in TxHashes |->
     IF \E i \in DOMAIN c.transaction_hashes : c.transaction_hashes[i] = t
     THEN Append(transaction_mapping[t],
                 [ block_hash          |-> b,
                   ethereum_block_hash |-> c.block_hash,
                   ethereum_index      |->
                     (CHOOSE i \in DOMAIN c.transaction_hashes :
                                 c.transaction_hashes[i] = t) - 1 ])
     ELSE transaction_mapping[t]]

WriteHashes(b, c) ==
  /\ block_mapping' = [block_mapping EXCEPT ![c.block_hash] = Append(@, b)]
  /\ transaction_mapping' = AppendMetadata(b, c)
  /\ synced' = synced \cup {b}

(* A block that is not genesis puts its parent on the list of tips still   *)
(* to visit.                                                               *)
ParentPushed == IF Header[op].number = 0 THEN todo ELSE Append(todo, Header[op].parent)

(* The header lookup, and sync_block or sync_genesis_block. *)
MutSyncBlock ==
  /\ pc = "hashes"
  /\ \E c \in {Commitment[op]} \ {None} : WriteHashes(op, c)
  /\ todo' = ParentPushed
  /\ pc' = "tips"
  /\ UNCHANGED <<chain, tips, calls, op, have_next, bounds>>

SyncBlock ==
  /\ pc = "hashes"
  /\ op \in imported
  /\ \E c \in {Commitment[op]} \ {None} : WriteHashes(op, c)
  /\ todo' = ParentPushed
  /\ pc' = "tips"
  /\ UNCHANGED <<chain, tips, calls, op, have_next, bounds>>

(* write_current_syncing_tips and the return to sync_blocks.  A synced     *)
(* block ends the poll with have_next set, because `synced_any || ...`     *)
(* does not call sync_one_block again; an empty round is repeated until    *)
(* the LIMIT calls are used up.                                            *)
WriteTips ==
  /\ pc = "tips"
  /\ tips' = todo
  /\ IF op # None
     THEN pc' = "idle" /\ calls' = 0 /\ have_next' = TRUE
     ELSE IF calls > 1
          THEN pc' = "select" /\ calls' = calls - 1 /\ UNCHANGED have_next
          ELSE pc' = "idle" /\ calls' = 0 /\ have_next' = FALSE
  /\ todo' = <<>>
  /\ op' = None
  /\ UNCHANGED <<chain, block_mapping, transaction_mapping, synced, bounds>>

-----------------------------------------------------------------------------
(* Between the two commits: the mappings of op are on disk, the tip list   *)
(* that would lead to its parent is not.                                   *)
InWindow == pc = "tips" /\ op # None

Spend ==
  IF InWindow
  THEN torn < MaxTorn /\ torn' = torn + 1 /\ UNCHANGED faults
  ELSE faults < MaxFaults /\ faults' = faults + 1 /\ UNCHANGED torn

(* sync_blocks returns an error: the worker clears have_next and waits for *)
(* the next event.                                                         *)
MutAbort ==
  /\ pc' = "idle"
  /\ calls' = 0
  /\ tips' = todo
  /\ todo' = <<>>
  /\ op' = None
  /\ have_next' = FALSE
  /\ UNCHANGED <<chain, block_mapping, transaction_mapping, synced>>

Abort ==
  /\ pc' = "idle"
  /\ calls' = 0
  /\ todo' = <<>>
  /\ op' = None
  /\ have_next' = FALSE
  /\ UNCHANGED <<chain, db>>

(* "Header not found", or no usable log in it. *)
TipUnusable ==
  /\ pc = "hashes"
  /\ op \notin imported \/ Commitment[op] = None
  /\ Abort
  /\ UNCHANGED bounds

(* A database or runtime API error in any step. *)
SyncFails ==
  /\ pc # "idle"
  /\ Spend
  /\ Abort
  /\ UNCHANGED reverts

(* The process stops at any point and starts again: the databases survive, *)
(* MappingSyncWorker::new makes a fresh worker.                            *)
Restart ==
  /\ Spend
  /\ pc' = "idle"
  /\ calls' = 0
  /\ todo' = <<>>
  /\ op' = None
  /\ have_next' = TRUE
  /\ notified' = FALSE
  /\ UNCHANGED <<imported, db, reverts>>

(* The `revert` subcommand, run while the node is stopped: the best block  *)
(* leaves the backend and its header is no longer found; fc-db is not      *)
(* touched.  Afterwards the node starts again.                             *)
Best == {b \in imported : \A c \in imported : Header[c].number <= Header[b].number}

RevertBlock(b) ==
  /\ pc = "idle"
  /\ b \in Best
  /\ reverts < MaxReverts
  /\ reverts' = reverts + 1
  /\ imported' = imported \ {b}
  /\ have_next' = TRUE
  /\ notified' = FALSE
  /\ UNCHANGED <<db, pc, calls, todo, op, faults, torn>>

Next ==
  \/ \E b \in Blocks \ {Genesis} : ImportBlock(b) \/ RevertBlock(b)
  \/ FireOnNotification
  \/ FireOnHaveNext
  \/ FireOnDelay
  \/ SelectTip
  \/ SyncBlock
  \/ WriteTips
  \/ TipUnusable
  \/ SyncFails
  \/ Restart

Spec == Init /\ [][Next]_vars

(* The worker is an essential task of the node: its delay elapses again    *)
(* and again, and a started poll runs to its end.                          *)
Fairness ==
  WF_vars(FireOnDelay \/ SelectTip \/ SyncBlock \/ TipUnusable \/ WriteTips)

FairSpec == Spec /\ Fairness

-----------------------------------------------------------------------------
(* The BLOCK_MAPPING lists are exact: a block is in the list of its own    *)
(* Ethereum hash once if it is flagged synced, and in no list otherwise.   *)
(* load_hash (client/rpc) walks these lists; restarts, failed commits and  *)
(* reverts must not leave a duplicate or a stray entry in them.            *)
BlockMappingExact ==
  \A e \in EthHashes :
    /\ ToSet(block_mapping[e]) = {b \in synced : Commitment[b].block_hash = e}
    /\ IsInjective(block_mapping[e])

(* The TRANSACTION_MAPPING lists are exact in the same sense.  A duplicate *)
(* would make load_transactions (client/rpc), which wants exactly one      *)
(* entry, lose the transaction.                                            *)
TransactionMappingExact ==
  \A t \in TxHashes :
    /\ \A i \in DOMAIN transaction_mapping[t] :
         LET m == transaction_mapping[t][i]
             c == Commitment[m.block_hash]
         IN  /\ m.block_hash \in synced
             /\ m.ethereum_block_hash = c.block_hash
             /\ m.ethereum_index + 1 \in DOMAIN c.transaction_hashes
             /\ c.transaction_hashes[m.ethereum_index + 1] = t
    /\ \A b \in synced :
         (\E k \in DOMAIN Commitment[b].transaction_hashes :
             Commitment[b].transaction_hashes[k] = t)
         => \E i \in DOMAIN transaction_mapping[t] :
              transaction_mapping[t][i].block_hash = b
    /\ \A i, j \in DOMAIN transaction_mapping[t] :
         transaction_mapping[t][i].block_hash = transaction_mapping[t][j].block_hash
           => i = j

(* The synced blocks whose parent nobody will ever visit because of them:  *)
(* it is neither synced, nor a persisted tip, nor about to become one.     *)
Orphaned ==
  {b \in synced \ {Genesis} :
     /\ Header[b].parent \notin synced
     /\ Header[b].parent \notin ToSet(tips)
     /\ ~(pc = "tips" /\ Header[b].parent \in ToSet(todo))}

(* The walk towards genesis loses at most one link for every error or      *)
(* restart that hits the window between the two commits, and none as long  *)
(* as none does, whatever else fails.                                      *)
GapsBounded == Cardinality(Orphaned) <= torn

(* Every imported block is eventually indexed (or reverted before it is),  *)
(* as the worker's retries promise.                                        *)
EverySynced ==
  \A b \in Blocks : (b \in imported) ~> (b \in synced \/ b \notin imported)

(* What the worker does deliver: imports, errors and restarts (finitely    *)
(* many) may fall anywhere, and the index again and again catches up with  *)
(* the imported blocks, unless an error or a restart hit the window        *)
(* between the two commits or blocks were reverted.                        *)
CatchesUp == []<>(imported \subseteq synced \/ torn > 0 \/ reverts > 0)

-----------------------------------------------------------------------------
(* The lists of the database read as sets.  BLOCK_MAPPING and              *)
(* TRANSACTION_MAPPING are all that readers see.                           *)
Index == INSTANCE EthIndex WITH
  block_hashes         <- [e \in EthHashes |-> ToSet(block_mapping[e])],
  transaction_metadata <- [t \in TxHashes |-> ToSet(transaction_mapping[t])]

(* The database with its worker implements the abstract index: through all *)
(* faults and reverts a reader sees blocks appear whole, once, while the   *)
(* node has them, and never disappear.                                     *)
ImplementsIndex == Index!SpecIndex
=============================================================================
