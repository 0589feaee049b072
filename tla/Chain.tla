------------------------------- MODULE Chain --------------------------------
(***************************************************************************)
(* The Substrate client as the RPC layer sees it: imported blocks, the     *)
(* best block by the longest chain rule (node/src/service.rs,              *)
(* LongestChain), the canonical block of each height, import               *)
(* notifications, and the index that the mapping sync worker fills         *)
(* (EthIndex).  All of it is external to the code in this repository.      *)
(***************************************************************************)
EXTENDS EthIndex, FiniteSets

CONSTANTS
  Parent,   \* Parent[b] for every block but Genesis
  Silent,   \* blocks of the initial sync: imported without a notification
  PRUNING   \* blocks after which the state of a block may be discarded

PathTo[b \in Blocks] ==
  IF b = Genesis THEN {b} ELSE {b} \cup PathTo[Parent[b]]

Ancestors == [b \in Blocks |-> PathTo[b]]
Number    == [b \in Blocks |-> Cardinality(PathTo[b]) - 1]

Transactions(b) == Commitment[b].transaction_hashes

(* The parents of every block lead to genesis: the blocks are a tree, and  *)
(* the number of a block is its distance from the root.                    *)
ASSUME TreeAssumption ==
  /\ Ancestors[Genesis] = {Genesis}
  /\ Number[Genesis] = 0
  /\ \A b \in Blocks \ {Genesis} :
       /\ Parent[b] \in Blocks
       /\ Ancestors[b] = {b} \cup Ancestors[Parent[b]]
       /\ Number[b] = Number[Parent[b]] + 1
  /\ \A b \in Blocks : Number[b] \in Nat

ASSUME PruningAssumption == PRUNING \in Nat

(* Every block has a log, equal Ethereum blocks have equal hashes and      *)
(* contents, and no chain holds the same Ethereum block twice (its header  *)
(* has the number and the parent).                                         *)
ASSUME ChainAssumption ==
  /\ Genesis \in Blocks
  /\ \A b \in Blocks :
       Commitment[b] \in [block_hash : EthHashes, transaction_hashes : Seq(TxHashes)]
  /\ \A a, b \in Blocks : Commitment[a].block_hash = Commitment[b].block_hash =>
       /\ Transactions(a) = Transactions(b)
       /\ a # b => a \notin Ancestors[b]

VARIABLES
  best,   \* client.info().best_hash
  notes   \* all import notifications so far, in order

chainVars == <<imported, best, notes>>

InitChain == InitIndex /\ best = Genesis /\ notes = <<>>

Canonical(b) == b \in Ancestors[best]

CanonicalAt(n) == {b \in Ancestors[best] : Number[b] = n}

IsReorg(b) == Number[b] > Number[best] /\ best \notin Ancestors[b]

ImportBlock(b) ==
  /\ b # Genesis
  /\ Parent[b] \in imported
  /\ Import(b)
  /\ best' = IF Number[b] > Number[best] THEN b ELSE best
  /\ notes' = IF b \in Silent THEN notes
              ELSE Append(notes, [block |-> b, is_new_best |-> Number[b] > Number[best]])

(* The state of a block so far behind the best one may be gone. *)
MayBePruned(b) == Number[b] + PRUNING <= Number[best]
=============================================================================
