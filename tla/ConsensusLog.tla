---------------------------- MODULE ConsensusLog ----------------------------
(***************************************************************************)
(* The digest logs by which a Substrate block carries the hashes of the    *)
(* Ethereum block inside it (primitives/consensus).  A digest is the       *)
(* sequence of log items of a header.  Three kinds of item belong to the   *)
(* Shadows engine: PreLog::Block, put there before execution, and          *)
(* PostLog::Hashes / PostLog::Block, deposited by the runtime after it.    *)
(* Every other item (seals, other engines) is of kind "Other".             *)
(*                                                                         *)
(* An Ethereum block is [header, transactions]; hashing (RLP and Keccak)   *)
(* is modelled as an injective tagging of what is hashed.                  *)
(***************************************************************************)
EXTENDS Naturals, Sequences, SequencesExt

Keccak(x) == <<"keccak", x>>

(* Hashes::from_block *)
HashesFromBlock(block) ==
  [ block_hash         |-> Keccak(block.header),
    transaction_hashes |-> [i \in DOMAIN block.transactions |->
                              Keccak(block.transactions[i])] ]

PreBlockLog(block)   == [kind |-> "PreBlock",   block  |-> block]
PostBlockLog(block)  == [kind |-> "PostBlock",  block  |-> block]
PostHashesLog(block) == [kind |-> "PostHashes", hashes |-> HashesFromBlock(block)]
OtherLog             == [kind |-> "Other"]

(* log.try_to::<PreLog>(PreRuntime(..)) / try_to::<PostLog>(Consensus(..)) *)
IsPreLog(item)  == item.kind = "PreBlock"
IsPostLog(item) == item.kind \in {"PostHashes", "PostBlock"}

(* the positions of the pre, the post and all Shadows logs of a digest *)
PreLogsOf(digest)  == {i \in DOMAIN digest : IsPreLog(digest[i])}
PostLogsOf(digest) == {i \in DOMAIN digest : IsPostLog(digest[i])}
LogsOf(digest)     == PreLogsOf(digest) \cup PostLogsOf(digest)

(* Log::into_hashes *)
IntoHashes(item) ==
  IF item.kind = "PostHashes" THEN item.hashes ELSE HashesFromBlock(item.block)

NotFound     == [res |-> "NotFound"]
MultipleLogs == [res |-> "MultipleLogs"]
Found(item)  == [res |-> "Ok", log |-> item]

(* One arm of the loops below: the match on (log, found.is_some()).  Once  *)
(* MultipleLogs is returned the rest of the digest is not looked at.       *)
Match(is, found, item) ==
  CASE found = MultipleLogs                -> MultipleLogs
    [] found # MultipleLogs /\ ~is         -> found
    [] found.res = "Ok" /\ is              -> MultipleLogs
    [] found = NotFound /\ is              -> Found(item)

find_pre_log(digest) ==
  FoldLeft(LAMBDA found, item : Match(IsPreLog(item), found, item), NotFound, digest)

find_post_log(digest) ==
  FoldLeft(LAMBDA found, item : Match(IsPostLog(item), found, item), NotFound, digest)

(* Each item is tried as a pre log and then as a post log. *)
find_log(digest) ==
  FoldLeft(LAMBDA found, item :
             Match(IsPostLog(item), Match(IsPreLog(item), found, item), item),
           NotFound, digest)

(* The check made on import: like find_log, but only a flag is kept. *)
EnsureArm(is, state) ==
  CASE state = "MultipleLogs"           -> "MultipleLogs"
    [] state # "MultipleLogs" /\ ~is    -> state
    [] state = "Ok" /\ is               -> "MultipleLogs"
    [] state = "NotFound" /\ is         -> "Ok"

MutEnsureLog(digest) ==
  FoldLeft(LAMBDA state, item : EnsureArm(IsPostLog(item), state),
           "NotFound", digest)

ensure_log(digest) ==
  FoldLeft(LAMBDA state, item :
             EnsureArm(IsPostLog(item), EnsureArm(IsPreLog(item), state)),
           "NotFound", digest)
=============================================================================
