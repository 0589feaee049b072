-------------------------- MODULE TransactionCount --------------------------
(***************************************************************************)
(* eth_getTransactionCount with the pending tag (client/rpc/src/eth.rs):   *)
(* one walk over the ready transactions of the pool, counting those that   *)
(* continue the account's nonce, by the tags validate_unsigned gives them  *)
(* (frame/ethereum/src/lib.rs).                                            *)
(***************************************************************************)
EXTENDS Integers, Sequences, SequencesExt

Tag_(address, nonce) == <<address, nonce>>

(* validate_unsigned at an account nonce: what a transaction provides, and *)
(* what it requires                                                        *)
Provides(tx) == <<Tag_(tx.from, tx.nonce)>>
Requires(tx, account_nonce) ==
  IF tx.nonce > account_nonce THEN {Tag_(tx.from, tx.nonce - 1)} ELSE {}

(* The pool yields a transaction after everything it requires. *)
IsReadyOrder(ready, account_nonce) ==
  \A i \in DOMAIN ready : \A tag \in Requires(ready[i], account_nonce[ready[i].from]) :
    \E j \in 1..i - 1 : Head(Provides(ready[j])) = tag

MutTransactionCount(ready, address, nonce) ==
  nonce + Len(SelectSeq(ready, LAMBDA tx : tx.from = address))

transaction_count(ready, address, nonce) ==
  FoldLeft(LAMBDA current, tx :
             IF Head(Provides(tx)) = Tag_(address, current) THEN current + 1 ELSE current,
           nonce, ready)
=============================================================================
