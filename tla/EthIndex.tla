------------------------------ MODULE EthIndex ------------------------------
(***************************************************************************)
(* What the mapping database promises its readers, without the worker, the *)
(* tips, the commits and the faults: a set of indexed Substrate blocks,    *)
(* each listed once under its Ethereum block hash and once under each of   *)
(* its transactions.  Blocks enter the index one at a time, whole, only    *)
(* while the node has them, and never leave it.                            *)
(*                                                                         *)
(* MappingSync implements this specification (see Index there), and        *)
(* EthRpc reads it.                                                        *)
(***************************************************************************)
EXTENDS Naturals, Sequences

CONSTANTS
  Blocks,      \* the Substrate blocks that may ever exist, by hash
  Genesis,     \* the genesis block
  Commitment,  \* Commitment[b] = [block_hash, transaction_hashes] or None
  EthHashes,   \* Ethereum block hashes
  TxHashes,    \* Ethereum transaction hashes
  None

VARIABLES
  imported,             \* the blocks the node has
  block_hashes,         \* Ethereum block hash -> Substrate blocks
  transaction_metadata  \* transaction hash -> where it is

index     == <<block_hashes, transaction_metadata>>
indexVars == <<imported, block_hashes, transaction_metadata>>

Indexed == UNION {block_hashes[e] : e \in EthHashes}

(* TransactionMetadata of the i-th transaction of b *)
MetadataAt(b, i) ==
  [ block_hash          |-> b,
    ethereum_block_hash |-> Commitment[b].block_hash,
    ethereum_index      |-> i - 1 ]

Positions(b, t) ==
  {i \in DOMAIN Commitment[b].transaction_hashes :
     Commitment[b].transaction_hashes[i] = t}

InitIndex ==
  /\ imported = {Genesis}
  /\ block_hashes = [e \in EthHashes |-> {}]
  /\ transaction_metadata = [t \in TxHashes |-> {}]

Import(b) ==
  /\ b \in Blocks \ imported
  /\ imported' = imported \cup {b}
  /\ UNCHANGED index

Revert(b) ==
  /\ b \in imported
  /\ imported' = imported \ {b}
  /\ UNCHANGED index

(* A block becomes visible to all lookups at once, and only once. *)
IndexBlock(b) ==
  /\ b \in imported
  /\ b \notin Indexed
  /\ Commitment[b] # None
  /\ block_hashes' = [block_hashes EXCEPT ![Commitment[b].block_hash] = @ \cup {b}]
  /\ transaction_metadata' =
       [t \in TxHashes |->
          transaction_metadata[t] \cup {MetadataAt(b, i) : i \in Positions(b, t)}]
  /\ UNCHANGED imported

NextIndex == \E b \in Blocks : Import(b) \/ Revert(b) \/ IndexBlock(b)

SpecIndex == InitIndex /\ [][NextIndex]_indexVars
=============================================================================
