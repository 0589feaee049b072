--------------------------- MODULE MCMappingSync ----------------------------
(***************************************************************************)
(* A block tree for MappingSync with two forks of length two.              *)
(*                                                                         *)
(*        a1 -- a2        a1 and b1 contain the same Ethereum block, so    *)
(*       /                their hash has two Substrate blocks; t2 is in    *)
(*   g0 -- b1 -- b2       both forks at different places; a1 and a2 carry  *)
(*       \                post logs, b1 a pre log; x1 has two logs and is  *)
(*        x1              refused on import.                               *)
(***************************************************************************)
EXTENDS MappingSync

Eth1 == [header |-> "e1", transactions |-> <<"t1">>]
Eth2 == [header |-> "e2", transactions |-> <<"t2">>]
Eth3 == [header |-> "e3", transactions |-> <<"t3", "t2">>]
Eth0 == [header |-> "e0", transactions |-> <<>>]

MCBlocks == {"g0", "a1", "a2", "b1", "b2", "x1"}

Hdr(p, n, d) == [parent |-> p, number |-> n, digest |-> d]

MCHeader ==
  [b \in MCBlocks |->
     CASE b = "g0" -> Hdr("none", 0, <<>>)
       [] b = "a1" -> Hdr("g0", 1, <<OtherLog, PostHashesLog(Eth1)>>)
       [] b = "a2" -> Hdr("a1", 2, <<PostBlockLog(Eth2), OtherLog>>)
       [] b = "b1" -> Hdr("g0", 1, <<PreBlockLog(Eth1)>>)
       [] b = "b2" -> Hdr("b1", 2, <<OtherLog, PostHashesLog(Eth3)>>)
       [] b = "x1" -> Hdr("g0", 1, <<PreBlockLog(Eth1), PostHashesLog(Eth1)>>)]

MCEthHashes == {Keccak(h) : h \in {"e0", "e1", "e2", "e3"}}
MCTxHashes  == {Keccak(t) : t \in {"t1", "t2", "t3"}}
MCGenesisEth == Keccak("e0")
=============================================================================
