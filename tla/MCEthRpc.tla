------------------------------ MODULE MCEthRpc ------------------------------
(***************************************************************************)
(* The readers of the chain.  A behaviour runs the handlers or the         *)
(* subscriptions, which write none of each other's state (focus), each     *)
(* with its own branches of the tree.                                      *)
(*                                                                         *)
(*        a1          Handlers: a1 and c1 hold the same Ethereum block; t1 *)
(*       /            is in both forks, t2 only in a1 (and c1), t3 only in *)
(*   g0 -- b1 -- b2   b2.  A node that has a1 first is reorganised by b2:  *)
(*       \            the block at height 1 then has one transaction       *)
(*        c1          instead of two.                                      *)
(*                                                                         *)
(*        x1 -- x2          Subscriptions: x2 comes with the initial sync  *)
(*       /                  and is not announced.  When it is imported     *)
(*   g0 -- y1 -- y2 -- y3   between y1 and y2, y2 is no new best block: a  *)
(*                          subscriber sees y1 and y3, and y2 is missing.  *)
(***************************************************************************)
EXTENDS EthRpc, Pubsub, TLC

VARIABLE focus

Eth(e, ts) == [block_hash |-> e, transaction_hashes |-> ts]

RpcBlocks == {"g0", "a1", "b1", "b2", "c1"}
PubsubBlocks == {"g0", "x1", "x2", "y1", "y2", "y3"}
MCBlocks == RpcBlocks \cup PubsubBlocks

MCParent ==
  ("a1" :> "g0") @@ ("b1" :> "g0") @@ ("b2" :> "b1") @@ ("c1" :> "g0") @@
  ("x1" :> "g0") @@ ("x2" :> "x1") @@ ("y1" :> "g0") @@ ("y2" :> "y1") @@ ("y3" :> "y2")

MCCommitment ==
  [b \in MCBlocks |->
     CASE b = "g0" -> Eth("e0", <<>>)
       [] b \in {"a1", "c1"} -> Eth("e1", <<"t1", "t2">>)
       [] b = "b1" -> Eth("e2", <<"t1">>)
       [] b = "b2" -> Eth("e3", <<"t3">>)
       [] b \in PubsubBlocks \ {"g0"} -> Eth(b, <<>>)]

MCEthHashes == {"e0", "e1", "e2", "e3"} \cup (PubsubBlocks \ {"g0"})
MCTxHashes == {"t1", "t2", "t3"}

MCRequests ==
  { LookupOf("transaction_by_hash", "t2"), LookupOf("transaction_receipt", "t1"),
    transaction_by_block_and_index(Hash("e1"), 0), block_by(Num(1), TRUE),
    transaction_by_block_and_index(Num(1), 1), state_at(Latest),
    block_transaction_count(Earliest), state_at(Pending) }

-----------------------------------------------------------------------------
all == <<chainVars, index, rpcVars, pubsubVars, focus>>

Init == InitRpc /\ InitPubsub /\ focus \in {"rpc", "pubsub"}

Handlers(step) == focus = "rpc" /\ step /\ UNCHANGED <<pubsubVars, focus>>

Next ==
  \/ Handlers(NextRpc) /\ imported' \subseteq RpcBlocks
  \/ /\ focus = "pubsub" /\ NextPubsub /\ UNCHANGED <<rpcVars, focus>>
     /\ imported' \subseteq PubsubBlocks

(* The sync worker and the task are spawned as essential tasks             *)
(* (node/src/service.rs) and take every step they can.                     *)
FairSpec ==
  /\ Init /\ [][Next]_all
  /\ WF_all(Handlers(\E b \in Blocks : RpcIndex(b)))
  /\ WF_all(Handlers(HandleNotification))
=============================================================================
