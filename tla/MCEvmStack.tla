----------------------------- MODULE MCEvmStack -----------------------------
(***************************************************************************)
(* A user, a contract of the genesis, and an address to create at.         *)
(***************************************************************************)
EXTENDS EvmStack, TLC

MCGenesis ==
  "user" :> [nonce |-> 0, balance |-> 6, storage |-> {}, code |-> Empty]
  @@ "dex" :> [nonce |-> 0, balance |-> 2, storage |-> {"s"}, code |-> Code]
=============================================================================
