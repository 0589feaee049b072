-------------------------- MODULE MCEthereumPallet --------------------------
(***************************************************************************)
(* EthereumPallet on two senders and a contract.  The widths are scaled    *)
(* down together (U64 = 4, U128 = 32, U256 = 64) and so is the existential *)
(* deposit (3 instead of 500), so that truncation, overflow and reaping    *)
(* all happen with balances of at most a dozen.                            *)
(***************************************************************************)
EXTENDS EthereumPallet

MCAddr      == {"alice", "bob", "pot"}
MCContracts == {"pot"}
MCGenesis   == [a \in MCAddr |-> IF a = "alice" THEN 12 ELSE IF a = "pot" THEN 4 ELSE 0]

MCSends == { [to |-> "alice", value |-> 0], [to |-> "alice", value |-> 3],
             [to |-> "bob", value |-> 3] }

Tx(from, to, ids, n, price, limit, value) ==
  [from |-> from, to |-> to, chain_id |-> ids, nonce |-> n, gas_price |-> price,
   gas_limit |-> limit, value |-> value]

MCTxs == { Tx("alice", "bob", {1}, 0, 1, 2, 5),      \* a transfer
           Tx("alice", "pot", {}, 1, 1, 2, 0),       \* a call, one nonce later
           Tx("alice", "pot", {1}, 0, 2, 5, 1),      \* a limit of which low_u64 keeps 1
           Tx("alice", "bob", {1}, 0, 20, 4, 0),     \* a fee beyond U256
           Tx("alice", "bob", {}, 1, 0, 1, 0),       \* below the minimal price
           Tx("bob", "alice", {1}, 0, 1, 1, 3),      \* back again
           Tx("alice", "bob", {2}, 0, 1, 1, 1),      \* another chain
           Tx("nobody", "bob", {1}, 0, 1, 1, 1) }    \* not recoverable

MCCalls == { [from |-> "bob", to |-> "pot", nonce |-> {}, gas_price |-> 2, gas_limit |-> 1,
              value |-> 1],
             [from |-> "alice", to |-> "bob", nonce |-> {1}, gas_price |-> 1, gas_limit |-> 1,
              value |-> 4] }

MCWithdrawals == { [from |-> "bob", to |-> "alice", value |-> 4] }

EmptyBlock == [header |-> "author's", transactions |-> <<>>]
FullBlock  == [header |-> "author's", transactions |-> <<Tx("alice", "bob", {1}, 0, 1, 2, 5)>>]

MCPreDigests == { <<OtherLog>>, <<OtherLog, PreBlockLog(EmptyBlock)>>,
                  <<PreBlockLog(FullBlock)>>,
                  <<PreBlockLog(EmptyBlock), PreBlockLog(EmptyBlock)>> }
=============================================================================
