------------------------------- MODULE EthRpc -------------------------------
(***************************************************************************)
(* The Ethereum RPC handlers that read blocks and transactions, the two    *)
(* that send transactions, and pending_transaction_task                    *)
(* (client/rpc/src/eth.rs).                                                *)
(*                                                                         *)
(* A handler takes no lock over its reads: the mapping database, the       *)
(* pending map, the canonical chain and the state of a block are read one  *)
(* after the other, and blocks are imported and indexed in between.  Each  *)
(* read is an action here.  What is built from a block is abstracted to    *)
(* the block it was read from, the block the statuses were read from and   *)
(* the indices that were looked up.                                        *)
(***************************************************************************)
EXTENDS Chain

CONSTANTS
  Clients,    \* RPC threads
  Requests,   \* the requests clients make, see LookupOf and AtBlock
  SendTxs,    \* the transactions clients send
  THRESHOLD,  \* retain_threshold, in blocks
  MaxLag,     \* bound on undelivered notifications
  Absent,     \* not in the pending map
  All, Count, State  \* what is read of a block, see AtBlock

ASSUME RpcAssumption ==
  /\ SendTxs \subseteq TxHashes
  /\ THRESHOLD \in Nat
  /\ Absent \notin Nat

(* the indices of the transactions of a block *)
Indices(b) == {i - 1 : i \in DOMAIN Transactions(b)}

(* Clients ask for a transaction, or for a block by an Ethereum hash or by *)
(* a block number; All is not mistaken for one index.                      *)
ASSUME RequestAssumption ==
  /\ \A r \in Requests :
       IF r.method = "at_block"
       THEN /\ r.number.tag \in {"Hash", "Num", "Latest", "Earliest", "Pending"}
            /\ r.number.tag = "Hash" => r.number.hash \in EthHashes
       ELSE /\ r.method \in {"transaction_by_hash", "transaction_receipt"}
            /\ r.transaction \in TxHashes
  /\ \A b \in Blocks : All \notin {{i} : i \in Indices(b)}

VARIABLES
  pending,   \* pending_transactions: hash -> at_block or Absent
  handled,   \* number of notifications pending_transaction_task has taken
  accepted,  \* observation: hash -> at_block and handled at its insertion, or Absent
  call       \* per client: the handler in progress

rpcVars == <<pending, handled, accepted, call>>

-----------------------------------------------------------------------------
(* Requests: which handler is called, what it resolves and what it reads.  *)
(* The steps that the handlers share follow.  LookupOf stands for          *)
(* transaction_by_hash and transaction_receipt, AtBlock for the handlers   *)
(* that take a block, by hash or by number; at_index is what is read of    *)
(* it.                                                                     *)
LookupOf(method, t) == [method |-> method, transaction |-> t]
AtBlock(number, at_index) == [method |-> "at_block", number |-> number, at_index |-> at_index]

block_by(number, full) == AtBlock(number, IF full THEN All ELSE {})
transaction_by_block_and_index(number, i) == AtBlock(number, {i})
block_transaction_count(number) == AtBlock(number, Count)
(* balance, storage_at, code_at, transaction_count *)
state_at(number) == AtBlock(number, State)

(* BlockNumber *)
Hash(e) == [tag |-> "Hash", hash |-> e]
Num(n) == [tag |-> "Num", number |-> n]
Latest == [tag |-> "Latest"]
Earliest == [tag |-> "Earliest"]
Pending == [tag |-> "Pending"]

ById(b) == [tag |-> "Hash", block |-> b]
ByNumber(n) == [tag |-> "Number", number |-> n]

Idle == [pc |-> "idle"]
NotFound == [found |-> "nothing"]
Panic == [found |-> "panic"]
InPending == [found |-> "pending"]
Built(b, s, at_index) ==
  [found |-> "block", block |-> b, statuses |-> s, at_index |-> at_index]

InitRpc ==
  /\ InitChain
  /\ pending = [t \in SendTxs |-> Absent]
  /\ handled = 0
  /\ accepted = [t \in SendTxs |-> Absent]
  /\ call = [c \in Clients |-> Idle]

(* The handler goes on with some of its locals changed, or returns. *)
Goto(c, new) ==
  /\ call' = [call EXCEPT ![c] = new]
  /\ UNCHANGED <<chainVars, index, pending, handled, accepted>>

Done(c, answer) ==
  Goto(c, [call[c] EXCEPT !.pc = "done", !.answer = answer, !.out = {}, !.block = None])

(* The answer is on its way to the client. *)
Return(c) == call[c].pc = "done" /\ Goto(c, Idle)

-----------------------------------------------------------------------------
MutIsCanon(h) == h \in imported
MutIsBest(h) == h = best
is_canon(h) == h \in imported /\ Canonical(h)

(* native_block_id, but for Hash, which goes through load_hash *)
native_block_id(number) ==
  CASE number.tag = "Num"      -> ByNumber(number.number)
    [] number.tag = "Latest"   -> ById(best)
    [] number.tag = "Earliest" -> ByNumber(0)
    [] number.tag = "Pending"  -> None

(* load_transactions: the places of t, if it has exactly one *)
MutLoadSeveral(t) ==
  IF Cardinality(transaction_metadata[t]) > 1 THEN transaction_metadata[t] ELSE {}

MutLoadShifted(t) == {[m EXCEPT !.ethereum_index = @ + 1] : m \in transaction_metadata[t]}

load_transactions(t) ==
  IF Cardinality(transaction_metadata[t]) = 1 THEN transaction_metadata[t] ELSE {}

(* Would an undisturbed lookup find t? *)
Findable(t) ==
  \E m \in load_transactions(t) :
    {h \in block_hashes[m.ethereum_block_hash] : Canonical(h)} # {}

(* A request arrives.  moved is an observation: whether the canonical      *)
(* chain lost a block since; findable, whether the index had the           *)
(* transaction then.                                                       *)
Handler(r, pc, id) ==
  [ pc |-> pc, req |-> r, id |-> id, hash |-> None, at_index |-> {},
    todo |-> {}, out |-> {}, block |-> None, answer |-> NotFound,
    number |-> 0, moved |-> FALSE, findable |-> FALSE ]

StartLookup(c, r) ==
  /\ call[c] = Idle
  /\ r.method # "at_block"
  /\ Goto(c, [Handler(r, "metadata", None) EXCEPT !.findable = Findable(r.transaction)])

StartAtBlock(c, r) ==
  /\ call[c] = Idle
  /\ r.method = "at_block"
  /\ \/ /\ r.number.tag = "Hash"
        /\ Goto(c, [Handler(r, "hashes", None) EXCEPT !.hash = r.number.hash,
                                                      !.at_index = r.at_index])
     \/ /\ r.number.tag # "Hash"
        /\ LET id == native_block_id(r.number) IN
           Goto(c, [Handler(r, IF id = None THEN "done" ELSE "block", id)
                      EXCEPT !.at_index = r.at_index])

(* transaction_by_hash and transaction_receipt: the metadata first; only   *)
(* transaction_by_hash goes on to the pending map.                         *)
LoadTransactions(c) ==
  LET r == call[c].req
      found == load_transactions(r.transaction) IN
  /\ call[c].pc = "metadata"
  /\ \/ \E m \in found :
          Goto(c, [call[c] EXCEPT !.pc = "hashes", !.hash = m.ethereum_block_hash,
                                  !.at_index = {m.ethereum_index}])
     \/ /\ found = {}
        /\ r.method = "transaction_by_hash"
        /\ Goto(c, [call[c] EXCEPT !.pc = "pending"])
     \/ /\ found = {}
        /\ r.method = "transaction_receipt"
        /\ Done(c, NotFound)

LookInPending(c) ==
  LET t == call[c].req.transaction IN
  /\ call[c].pc = "pending"
  /\ Done(c, IF t \in SendTxs /\ pending[t] # Absent THEN InPending ELSE NotFound)

(* load_hash: the Substrate blocks under the hash, then is_canon for each *)
ReadHashes(c) ==
  /\ call[c].pc = "hashes"
  /\ Goto(c, [call[c] EXCEPT !.pc = "canon", !.todo = block_hashes[call[c].hash]])

CheckCanon(c) ==
  /\ call[c].pc = "canon"
  /\ \E h \in call[c].todo :
       Goto(c, [call[c] EXCEPT !.todo = @ \ {h},
                               !.out = IF is_canon(h) THEN @ \cup {h} ELSE @])

ChooseCanon(c) ==
  /\ call[c].pc = "canon"
  /\ call[c].todo = {}
  /\ \/ \E b \in call[c].out :
          /\ call[c].out = {b}
          /\ Goto(c, [call[c] EXCEPT !.pc = "block", !.id = ById(b)])
     \/ Cardinality(call[c].out) # 1 /\ Done(c, NotFound)

(* What a read at an id finds: the block, or nothing when the number has   *)
(* no block or the state was pruned.                                       *)
Resolve(id) == IF id.tag = "Hash" THEN {id.block} ELSE CanonicalAt(id.number)

ReadFails(c) ==
  /\ call[c].pc \in {"block", "statuses"}
  /\ \A b \in Resolve(call[c].id) : MayBePruned(b)
  /\ Done(c, NotFound)

(* current_block, or the runtime API call of the state readers *)
ReadBlock(c) ==
  /\ call[c].pc = "block"
  /\ \E b \in Resolve(call[c].id) :
       \/ /\ call[c].at_index \notin {Count, State}
          /\ Goto(c, [call[c] EXCEPT !.pc = "statuses", !.block = b])
       \/ /\ call[c].at_index \in {Count, State}
          /\ Done(c, Built(b, b, {}))

(* current_transaction_statuses (and current_receipts), and the answer:    *)
(* an index beyond either list panics.                                     *)
ReadStatuses(c) ==
  /\ call[c].pc = "statuses"
  /\ \E s \in Resolve(call[c].id) :
       LET b == call[c].block
           wanted == IF call[c].at_index = All THEN Indices(b) ELSE call[c].at_index IN
       Done(c, IF wanted \subseteq Indices(b) \cap Indices(s)
               THEN Built(b, s, wanted) ELSE Panic)

Lookup(c) ==
  \/ \E r \in Requests : StartLookup(c, r) \/ StartAtBlock(c, r)
  \/ LoadTransactions(c) \/ LookInPending(c)
  \/ ReadHashes(c) \/ CheckCanon(c) \/ ChooseCanon(c)
  \/ ReadFails(c) \/ ReadBlock(c) \/ ReadStatuses(c)
  \/ Return(c)

-----------------------------------------------------------------------------
(* send_transaction and send_raw_transaction: the best hash, then the best *)
(* number are read, the pool validates at that hash, and after its answer  *)
(* the hash is put into the pending map.  (A request that cannot be signed *)
(* or decoded returns before that and changes nothing.)                    *)
StartSend(c, t) ==
  /\ call[c] = Idle
  /\ Goto(c, [Handler(LookupOf("send_transaction", t), "number", None) EXCEPT !.block = best])

ReadNumber(c) ==
  /\ call[c].pc = "number"
  /\ Goto(c, [call[c] EXCEPT !.pc = "submit", !.number = Number[best]])

(* submit_one: the pool may refuse, and does refuse what that chain        *)
(* contains and what it has accepted before (already imported, or banned   *)
(* after it was mined).                                                    *)
Submit(c) ==
  LET t == call[c].req.transaction IN
  /\ call[c].pc = "submit"
  /\ \/ /\ accepted[t] = Absent
        /\ \A b \in Ancestors[call[c].block] : Positions(b, t) = {}
        /\ Goto(c, [call[c] EXCEPT !.pc = "insert"])
     \/ Goto(c, Idle)

InsertPending(c) ==
  LET t == call[c].req.transaction IN
  /\ call[c].pc = "insert"
  /\ pending' = [pending EXCEPT ![t] = call[c].number]
  /\ accepted' = [accepted EXCEPT ![t] = [at_block |-> call[c].number, handled |-> handled]]
  /\ call' = [call EXCEPT ![c] = Idle]
  /\ UNCHANGED <<chainVars, index, handled>>

Send(c) ==
  \/ \E t \in SendTxs : StartSend(c, t)
  \/ ReadNumber(c) \/ Submit(c) \/ InsertPending(c)

(* pending_transaction_task takes the next notification: what the block    *)
(* has processed goes, then what has outlived its lifespan.                *)
MutLeaves(at, n) == at + THRESHOLD < n
MutEarly(at, n) == at + THRESHOLD <= n + 1
Outlived(at, n) == at + THRESHOLD <= n

Removes(b, t) == Positions(b, t) # {} \/ Outlived(pending[t], Number[b])

HandleNotification ==
  /\ handled < Len(notes)
  /\ handled' = handled + 1
  /\ LET b == notes[handled + 1].block IN
     pending' = [t \in SendTxs |-> IF pending[t] # Absent /\ Removes(b, t)
                                  THEN Absent ELSE pending[t]]
  /\ UNCHANGED <<chainVars, index, accepted, call>>

-----------------------------------------------------------------------------
(* A block is imported, or indexed by the sync worker, under the handlers. *)
RpcImport(b) ==
  /\ Len(notes) - handled < MaxLag
  /\ ImportBlock(b)
  /\ call' = [c \in Clients |->
                IF call[c].pc \in {"idle", "number", "submit", "insert"} THEN call[c]
                ELSE [call[c] EXCEPT !.moved = @ \/ IsReorg(b)]]
  /\ UNCHANGED <<pending, handled, accepted>>

RpcIndex(b) == IndexBlock(b) /\ UNCHANGED <<best, notes, rpcVars>>

NextRpc ==
  \/ \E b \in Blocks : RpcImport(b) \/ RpcIndex(b)
  \/ HandleNotification
  \/ \E c \in Clients : Lookup(c) \/ Send(c)

rpcAll == <<chainVars, index, rpcVars>>

SpecRpc == InitRpc /\ [][NextRpc]_rpcAll

-----------------------------------------------------------------------------
OnChain(t) == \E b \in Ancestors[best] : Positions(b, t) # {}

MinedIn(t) == {b \in imported : Positions(b, t) # {}}

Answered == {c \in Clients : call[c].pc = "done"}

(* What a handler answers is true.  The answer is built from one block,    *)
(* also when block and statuses were read by number; a transaction found   *)
(* by its hash is where the answer says; and the block was canonical, all  *)
(* unless the chain was reorganised under the handler.                     *)
LookupTruthful ==
  \A c \in Answered : call[c].answer.found = "block" =>
    LET a == call[c].answer
        r == call[c].req IN
    /\ r.method # "at_block" =>
         /\ \A i \in a.at_index : Transactions(a.block)[i + 1] = r.transaction
         /\ Commitment[a.block].block_hash = call[c].hash
    /\ ~call[c].moved => Canonical(a.block) /\ a.statuses = a.block

(* A handler panics only on an index the client made up, or when a         *)
(* reorganisation came between its two reads by number.                    *)
NoPanic ==
  \A c \in Answered : call[c].answer = Panic =>
    \/ call[c].moved /\ call[c].id.tag = "Number"
    \/ /\ call[c].req.method = "at_block"
       /\ call[c].at_index # All

(* A transaction the index had when the request came is found, although    *)
(* the handler reads in four steps: unless the chain was reorganised, a    *)
(* second block with it was indexed, or the state is pruned.               *)
FindableIsFound ==
  \A c \in Answered : call[c].findable /\ call[c].answer = NotFound =>
    \/ call[c].moved
    \/ load_transactions(call[c].req.transaction) = {}
    \/ \E b \in MinedIn(call[c].req.transaction) : MayBePruned(b)

(* An accepted transaction is in the pending map until a block with it is  *)
(* imported or the chain has grown by the threshold.                       *)
AcceptedTracked ==
  \A t \in SendTxs : accepted[t] # Absent =>
    \/ pending[t] # Absent
    \/ MinedIn(t) # {}
    \/ Number[best] >= accepted[t].at_block + THRESHOLD

(* "otherwise we leak": the task keeps up, and no entry stays in the       *)
(* pending map past the announcement of a block that processed or outlived *)
(* it, if it was there before the task came to that block.                 *)
PendingDropped ==
  []<>(\A t \in SendTxs : pending[t] # Absent =>
         \A i \in accepted[t].handled + 1 .. Len(notes) :
           /\ Positions(notes[i].block, t) = {}
           /\ pending[t] + THRESHOLD > Number[notes[i].block])

(* A transaction that is in one block only, and that block on the best     *)
(* chain, is in the end always found by its hash.                          *)
MinedEventuallyFound ==
  <>[](\A t \in TxHashes : OnChain(t) /\ Cardinality(MinedIn(t)) = 1 => Findable(t))
=============================================================================
