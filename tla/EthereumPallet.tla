--------------------------- MODULE EthereumPallet ---------------------------
(***************************************************************************)
(* The life of a block in the runtime: the Ethereum pallet                 *)
(* (frame/ethereum/src/lib.rs), the EVM pallet's own calls                 *)
(* (frame/evm/src/lib.rs) and the import check of the client               *)
(* (client/consensus/src/lib.rs).                                          *)
(*                                                                         *)
(*   on_initialize   -> "building": Pending is killed                      *)
(*   transact, call, withdraw: extrinsics, each changing the state         *)
(*   on_finalize     -> "sealed": store_block, post log deposited          *)
(*   import_block    -> "idle": ensure_log decides, the state is kept or   *)
(*                      the build is dropped with everything it changed    *)
(*                                                                         *)
(* A transaction is [from, chain_id, nonce, gas_price, gas_limit, value,   *)
(* to]; from is what recover_signer yields (NoSigner: nothing), chain_id a *)
(* set with at most one id.  Contract creation is a call to the address    *)
(* the contract gets.                                                      *)
(***************************************************************************)
EXTENDS EvmRunner, ConsensusLog, FiniteSets

CONSTANTS NoSigner,    \* no address: the signature cannot be recovered
          Txs,         \* the transactions clients sign
          Calls,       \* the calls of evm.call / create / create2
          Withdrawals, \* the calls of evm.withdraw
          PreDigests,  \* the pre-runtime digests of an author
          ChainId,     \* T::ChainId
          Genesis,     \* the balances of the genesis block
          MaxBlocks,   \* bound: imported blocks
          MaxExtrinsics \* bound: extrinsics in a block

ASSUME PalletAssumption ==
  /\ NoSigner \notin Addr
  /\ Genesis \in [Addr -> Nat]
  /\ \A tx \in Txs : tx \in [ from : (Addr \ Contracts) \cup {NoSigner}, to : Addr,
                             chain_id : SUBSET Nat, nonce : Nat, gas_price : Nat,
                             gas_limit : Nat, value : Nat ]
  /\ \A c \in Calls : c \in [ from : Addr \ Contracts, to : Addr, nonce : SUBSET Nat,
                              gas_price : Nat, gas_limit : Nat, value : Nat ]
  /\ Withdrawals \subseteq [from : Addr, to : Addr, value : Nat]
  /\ MaxBlocks \in Nat /\ MaxExtrinsics \in Nat

(* Before a block is executed its digest holds the pre-runtime items of    *)
(* the author only: post logs are deposited by the runtime.                *)
ASSUME DigestAssumption ==
  \A pre \in PreDigests : /\ pre \in Seq({pre[i] : i \in DOMAIN pre})
                          /\ \A i \in DOMAIN pre : ~IsPostLog(pre[i])

VARIABLES
  phase,      \* "idle", "building" or "sealed"
  w,          \* balances, nonces and issuance (see EvmRunner)
  number,     \* frame_system's block number
  digest,     \* frame_system's digest of the block being built
  pending,    \* Pending: the transactions, statuses and receipts so far
  current,    \* CurrentBlock, CurrentReceipts, CurrentTransactionStatuses
  applied,    \* the extrinsics of the block with their dispatch results
  committed,  \* the state of the parent block
  chain       \* the imported blocks, oldest first: digest and CurrentBlock

vars == <<phase, w, number, digest, pending, current, applied, committed, chain>>

-----------------------------------------------------------------------------
(* store_block builds the block out of Pending.  Of the header are kept    *)
(* the parent and the number and the fields computed from Pending; the     *)
(* hash of a block that is not there is the default hash.                  *)
Stored(parent_hash, n, entries) ==
  LET txs      == [i \in DOMAIN entries |-> entries[i].transaction]
      statuses == [i \in DOMAIN entries |-> entries[i].status]
      receipts == [i \in DOMAIN entries |-> entries[i].receipt]
  IN  [ block |-> [ header |-> [ parent_hash   |-> parent_hash,
                                 number        |-> n,
                                 transactions  |-> Keccak(txs),
                                 receipts_root |-> Keccak(receipts),
                                 gas_used      |-> FoldLeft(LAMBDA a, r : a + r.used_gas,
                                                            0, receipts) ],
                    transactions |-> txs ],
        statuses |-> statuses,
        receipts |-> receipts ]

DefaultHash == <<"default">>

State == [w |-> w, number |-> number, pending |-> pending, current |-> current]

(* Balances, and the issuance the genesis build sums up, are u128. *)
ASSUME GenesisAssumption == Total(Genesis) < U128

(* Genesis: store_block(false) on an empty Pending. *)
Init ==
  /\ phase = "idle"
  /\ w = [free |-> Genesis, nonce |-> [a \in Addr |-> 0], issuance |-> Total(Genesis)]
  /\ number = 0
  /\ digest = <<>>
  /\ pending = <<>>
  /\ current = Stored(DefaultHash, 0, <<>>)
  /\ applied = <<>>
  /\ committed = State
  /\ chain = <<>>

-----------------------------------------------------------------------------
(* ValidateUnsigned::validate_unsigned, which the executive also calls     *)
(* (pre_dispatch) on the state in which the transaction is applied.        *)
MutValidate(tx) ==
  IF \E id \in tx.chain_id : id # ChainId   THEN "InvalidChainId"
  ELSE IF tx.from = NoSigner                THEN "InvalidSignature"
  ELSE IF tx.nonce < w.nonce[tx.from]       THEN "Stale"
  ELSE IF w.free[tx.from] < saturating_mul(tx.gas_price, tx.gas_limit) THEN "Payment"
  ELSE IF tx.gas_price < MinGasPrice        THEN "Payment"
  ELSE "Valid"

validate_unsigned(tx) ==
  LET fee           == saturating_mul(tx.gas_price, tx.gas_limit)
      total_payment == saturating_add(tx.value, fee)
  IN  IF \E id \in tx.chain_id : id # ChainId   THEN "InvalidChainId"
      ELSE IF tx.from = NoSigner                THEN "InvalidSignature"
      ELSE IF tx.nonce < w.nonce[tx.from]       THEN "Stale"
      ELSE IF w.free[tx.from] < total_payment   THEN "Payment"
      ELSE IF tx.gas_price < MinGasPrice        THEN "Payment"
      ELSE "Valid"

PreLogIn(d) == find_pre_log(d).res = "Ok"

Applied(kind, tx, r) ==
  Append(applied, [kind |-> kind, tx |-> tx, res |-> r.res, reason |-> r.reason,
                   fee |-> r.fee])

(* on_initialize.  A pre log's transactions go through do_transact, which  *)
(* refuses every one because there is a pre log: with one transaction the  *)
(* expect panics and the block is not built.                               *)
Begin(pre) ==
  /\ phase = "idle" /\ Len(chain) < MaxBlocks
  /\ PreLogIn(pre) => find_pre_log(pre).log.block.transactions = <<>>
  /\ phase' = "building"
  /\ number' = number + 1
  /\ digest' = pre
  /\ applied' = <<>>
  /\ UNCHANGED <<w, current, committed, chain>>

MutOnInitialize(pre) == Begin(pre) /\ UNCHANGED pending

on_initialize(pre) == Begin(pre) /\ pending' = <<>>

on_initialize_panics(pre) ==
  /\ phase = "idle" /\ Len(chain) < MaxBlocks
  /\ PreLogIn(pre)
  /\ find_pre_log(pre).log.block.transactions # <<>>
  /\ applied' = <<>>
  /\ UNCHANGED <<phase, w, number, digest, pending, current, committed, chain>>

Room == phase = "building" /\ Len(applied) < MaxExtrinsics

(* What do_transact appends to Pending.  The receipt's state_root field    *)
(* is its success flag.                                                    *)
PendingEntry(tx, r, index) ==
  [ transaction |-> tx,
    status  |-> [transaction_hash |-> Keccak(tx), transaction_index |-> index,
                 from |-> tx.from, to |-> tx.to],
    receipt |-> [succeeded |-> r.reason = "Succeed", used_gas |-> r.used] ]

transaction_index == Len(pending)

(* transact / do_transact, entered from pre_dispatch.  An error leaves in  *)
(* the state whatever was written before it: calls are not transactional.  *)
transact(tx, o) ==
  /\ Room
  /\ validate_unsigned(tx) = "Valid"
  /\ \E r \in { IF PreLogIn(digest) THEN Refused("PreLogExists", w)
                ELSE execute(w, tx.from, tx.to, tx.value, low_u64(tx.gas_limit),
                             tx.gas_price, {tx.nonce}, o) } :
       /\ w' = r.w
       /\ pending' = IF r.res = "Ok"
                       THEN Append(pending, PendingEntry(tx, r, transaction_index))
                       ELSE pending
       /\ applied' = Applied("transact", tx, r)
  /\ UNCHANGED <<phase, number, digest, current, committed, chain>>

(* evm.call, evm.create, evm.create2: signed by an account that stands for *)
(* the source, the nonce optional; nothing is appended to Pending.         *)
call(c, o) ==
  /\ Room
  /\ \E r \in { execute(w, c.from, c.to, c.value, c.gas_limit, c.gas_price, c.nonce, o) } :
       /\ w' = r.w
       /\ applied' = Applied("call", c, r)
  /\ UNCHANGED <<phase, number, digest, pending, current, committed, chain>>

(* evm.withdraw: the balance of an EVM account goes back to its owner. *)
withdraw(c) ==
  /\ Room
  /\ \E r \in { Transfer(w, c.from, c.to, c.value) } :
       /\ w' = r.w
       /\ applied' = Applied("withdraw", c, [res |-> r.res, reason |-> "Succeed", fee |-> 0])
  /\ UNCHANGED <<phase, number, digest, pending, current, committed, chain>>

MutCurrentBlockHash == DefaultHash

current_block_hash == Keccak(current.block.header)

(* The post log is deposited unless a pre log already describes the block. *)
MutPostLog(stored) ==
  IF PreLogIn(digest) THEN Append(digest, PostHashesLog(stored.block)) ELSE digest

WithPostLog(stored) ==
  IF PreLogIn(digest) THEN digest ELSE Append(digest, PostHashesLog(stored.block))

on_finalize ==
  /\ phase = "building"
  /\ phase' = "sealed"
  /\ \E stored \in {Stored(current_block_hash, number, pending)} :
       /\ current' = stored
       /\ digest' = WithPostLog(stored)
  /\ UNCHANGED <<w, number, pending, applied, committed, chain>>

(* ShadowsBlockImport::import_block *)
import_block ==
  /\ phase = "sealed"
  /\ phase' = "idle"
  /\ IF ensure_log(digest) = "Ok"
       THEN /\ chain' = Append(chain, [digest |-> digest, block |-> current.block])
            /\ committed' = State
            /\ UNCHANGED <<w, number, pending, current, applied>>
       ELSE /\ w' = committed.w
            /\ number' = committed.number
            /\ pending' = committed.pending
            /\ current' = committed.current
            /\ applied' = <<>>
            /\ UNCHANGED <<chain, committed>>
  /\ UNCHANGED digest

Next ==
  \/ \E pre \in PreDigests : on_initialize(pre) \/ on_initialize_panics(pre)
  \/ \E tx \in Txs : \E o \in Outcomes(tx.to, low_u64(tx.gas_limit)) : transact(tx, o)
  \/ \E c \in Calls : \E o \in Outcomes(c.to, c.gas_limit) : call(c, o)
  \/ \E c \in Withdrawals : withdraw(c)
  \/ on_finalize
  \/ import_block

Spec == Init /\ [][Next]_vars

-----------------------------------------------------------------------------
(* Shapes of the state: balances, nonces and issuance are naturals, and    *)
(* the three lists of the stored block have one entry per transaction,     *)
(* the statuses with an index that fits u32 counting from zero.            *)
TypeOK ==
  /\ phase \in {"idle", "building", "sealed"}
  /\ w \in Worlds
  /\ number \in Nat
  /\ \A i \in DOMAIN pending : pending[i].status.transaction_index \in Nat
  /\ DOMAIN current.statuses = DOMAIN current.block.transactions
  /\ DOMAIN current.receipts = DOMAIN current.block.transactions

(* The total issuance is the sum of all balances after every extrinsic:    *)
(* what withdraw_fee takes is, to the unit, refunded or burned, also when  *)
(* the account is reaped on the way and the refund cannot be deposited.    *)
IssuanceExact == w.issuance = Total(w.free)

(* pos lists the transact calls of this block that returned Ok, in order. *)
Lists(pos) ==
  /\ \A i, j \in DOMAIN pos : i < j => pos[i] < pos[j]
  /\ \A k \in DOMAIN applied :
       (applied[k].kind = "transact" /\ applied[k].res = "Ok") <=> \E i \in DOMAIN pos : pos[i] = k

(* The stored block is the block that was executed: its transactions are   *)
(* those of this block's transact calls that returned Ok, in order, each   *)
(* with the status and receipt of its own execution at its own index.      *)
BlockIsWhatRan ==
  phase = "sealed" =>
    \E pos \in [DOMAIN current.block.transactions -> DOMAIN applied] :
      /\ Lists(pos)
      /\ \A i \in DOMAIN pos :
           /\ current.block.transactions[i] = applied[pos[i]].tx
           /\ current.statuses[i].transaction_hash = Keccak(applied[pos[i]].tx)
           /\ current.statuses[i].transaction_index = i - 1
           /\ current.receipts[i].succeeded = (applied[pos[i]].reason = "Succeed")

(* A block whose author put no pre log into its digest passes the import   *)
(* check: on_finalize and ensure_log agree on what "one log" means.        *)
BuiltBlockImportable ==
  (phase = "sealed" /\ PreLogsOf(digest) = {}) => ensure_log(digest) = "Ok"

(* An imported chain can be indexed and served: the hashes the mapping     *)
(* sync will read from a block without a pre log are those of the block    *)
(* the runtime stored, and the stored blocks are linked, number by one,    *)
(* parent_hash by the previous header's hash.                              *)
ImportedChainSound ==
  \A i \in DOMAIN chain :
    /\ PreLogsOf(chain[i].digest) = {} =>
         \E item \in {find_log(chain[i].digest).log} :
           IntoHashes(item) = HashesFromBlock(chain[i].block)
    /\ chain[i].block.header.number = i
    /\ i > 1 => chain[i].block.header.parent_hash = Keccak(chain[i - 1].block.header)

(* The last extrinsic of a step that applies one. *)
Applies(kinds) == Len(applied') = Len(applied) + 1 /\ Last(applied').kind \in kinds

(* Extrinsics are not transactional, so an error must come before the      *)
(* first write or not at all: a refused call changes no balance, no nonce  *)
(* and not Pending.                                                        *)
FailedChangesNothing ==
  [][ (Applies({"transact", "call", "withdraw"}) /\ Last(applied').res # "Ok")
        => w' = w /\ pending' = pending ]_vars

(* What validate_unsigned lets through with the nonce that is due, do_     *)
(* transact executes in the same state: the two fee computations, one      *)
(* saturating on the full gas limit, one checked on its low 64 bits, never *)
(* disagree.                                                               *)
ValidatedExecutes ==
  [][ (Applies({"transact"}) /\ Last(applied').tx.nonce = w.nonce[Last(applied').tx.from])
        => Last(applied').res \in {"Ok", "PreLogExists"} ]_vars

Spent(e) == e.fee + IF e.reason = "Succeed" THEN e.tx.value ELSE 0

(* A sender that still has a balance paid no more than the gas used and,   *)
(* if the call succeeded, the value; one that was reaped lost less than    *)
(* the existential deposit on top of the fee limit and the value.          *)
SurvivorPaysActual ==
  [][ (Applies({"transact", "call"}) /\ Last(applied').res = "Ok") =>
        \E e \in {Last(applied')} :
          \/ w'.free[e.tx.from] + Spent(e) >= w.free[e.tx.from]
          \/ /\ w'.free[e.tx.from] = 0
             /\ w.free[e.tx.from] < e.tx.value + e.tx.gas_price * e.tx.gas_limit + ED ]_vars

Affords(e) == w.free[e.tx.from] >= e.tx.value + e.tx.gas_price * e.tx.gas_limit + ED

(* A sender that keeps the existential deposit on top of all it may owe    *)
(* keeps its nonce, and a call that succeeds raises it by exactly one.     *)
NonceAdvances ==
  [][ (Applies({"transact", "call"}) /\ Last(applied').res = "Ok") =>
        \E e \in {Last(applied')} : Affords(e) =>
          /\ w'.nonce[e.tx.from] >= w.nonce[e.tx.from]
          /\ e.reason = "Succeed" => w'.nonce[e.tx.from] = w.nonce[e.tx.from] + 1 ]_vars

(* Without that reserve: what the unit test transaction_should_increment_  *)
(* nonce asserts, that an executed transaction raises the sender's nonce.  *)
SuccessIncrementsNonce ==
  [][ (Applies({"transact"}) /\ Last(applied').res = "Ok"
         /\ Last(applied').reason = "Succeed") =>
        w'.nonce[Last(applied').tx.from] = w.nonce[Last(applied').tx.from] + 1 ]_vars
=============================================================================
