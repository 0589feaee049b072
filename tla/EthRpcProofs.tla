---------------------------- MODULE EthRpcProofs ----------------------------
(***************************************************************************)
(* Proofs about the readers of the chain: the RPC handlers and the task of *)
(* the pending transactions (EthRpc), and the subscriptions (Pubsub), for  *)
(* every block tree, any number of clients and subscriptions.              *)
(***************************************************************************)
EXTENDS EthRpc, Pubsub, FiniteSetTheorems, WellFoundedInduction, TLAPS

-----------------------------------------------------------------------------
(* The block tree.  Induction along the branches: a set of blocks has one  *)
(* of least number.                                                        *)
LEMMA LeastNumber ==
  ASSUME NEW T \in SUBSET Blocks, T # {}
  PROVE  \E b \in T : \A c \in T : Number[b] <= Number[c]
<1> DEFINE R == OpToRel(<, Nat)
           N == {Number[b] : b \in T}
<1>1. IsWellFoundedOn(R, Nat)
  BY NatLessThanWellFounded
<1>2. N \subseteq Nat /\ N # {}
  BY TreeAssumption
<1>3. \A x, y \in Nat : <<x, y>> \in R <=> x < y
  BY DEF OpToRel
<1> HIDE DEF R
<1>4. PICK n \in N : \A m \in N : ~(<<m, n>> \in R)
  <2> HIDE DEF N
  <2> QED
    BY <1>1, <1>2, WFMin
<1>5. PICK b \in T : Number[b] = n
  OBVIOUS
<1>6. \A c \in T : ~(Number[c] < Number[b])
  BY <1>2, <1>3, <1>4, <1>5
<1>7. \A c \in T : Number[c] \in Nat
  BY TreeAssumption
<1>8. QED
  BY <1>6, <1>7

(* the ancestors of an ancestor are ancestors, and lie below it *)
Below(b) ==
  /\ b \in Ancestors[b]
  /\ \A a \in Ancestors[b] :
       /\ a \in Blocks
       /\ Ancestors[a] \subseteq Ancestors[b]
       /\ a # b => Number[a] < Number[b]

LEMMA AncestorsBelow ==
  ASSUME NEW b \in Blocks
  PROVE  Below(b)
<1> SUFFICES ASSUME \E x \in Blocks : ~Below(x) PROVE FALSE
  OBVIOUS
<1> DEFINE T == {x \in Blocks : ~Below(x)}
<1>1. PICK x \in T : \A y \in T : Number[x] <= Number[y]
  <2>1. T # {} /\ T \in SUBSET Blocks
    OBVIOUS
  <2> HIDE DEF T
  <2> QED
    BY <2>1, LeastNumber
<1>2. x # Genesis
  BY TreeAssumption DEF Below
<1>3. /\ Parent[x] \in Blocks
      /\ Ancestors[x] = {x} \cup Ancestors[Parent[x]]
      /\ Number[x] = Number[Parent[x]] + 1
      /\ Number[x] \in Nat /\ Number[Parent[x]] \in Nat
  BY <1>2, TreeAssumption
<1>4. Below(Parent[x])
  BY <1>1, <1>3
<1>5. Below(x)
  <2>1. \A a \in Ancestors[Parent[x]] :
          a \in Blocks /\ Ancestors[a] \subseteq Ancestors[Parent[x]] /\ Number[a] < Number[x]
    <3> TAKE a \in Ancestors[Parent[x]]
    <3>1. a \in Blocks /\ Ancestors[a] \subseteq Ancestors[Parent[x]]
      BY <1>4 DEF Below
    <3>2. Number[a] \in Nat /\ (a = Parent[x] \/ Number[a] < Number[Parent[x]])
      BY <1>4, <3>1, TreeAssumption DEF Below
    <3> QED
      BY <1>3, <3>1, <3>2
  <2>2. QED
    BY <1>3, <2>1 DEF Below
<1>6. QED
  BY <1>5

(* the ancestors of a block are in one line *)
InLine(b) ==
  \A x, y \in Ancestors[b] : x \in Ancestors[y] \/ y \in Ancestors[x]

LEMMA AncestorsInLine ==
  ASSUME NEW b \in Blocks
  PROVE  InLine(b)
<1> SUFFICES ASSUME \E x \in Blocks : ~InLine(x) PROVE FALSE
  OBVIOUS
<1> DEFINE T == {x \in Blocks : ~InLine(x)}
<1>1. PICK x \in T : \A y \in T : Number[x] <= Number[y]
  <2>1. T # {} /\ T \in SUBSET Blocks
    OBVIOUS
  <2> HIDE DEF T
  <2> QED
    BY <2>1, LeastNumber
<1>2. x # Genesis
  BY TreeAssumption DEF InLine
<1>3. /\ Parent[x] \in Blocks
      /\ Ancestors[x] = {x} \cup Ancestors[Parent[x]]
      /\ Number[x] = Number[Parent[x]] + 1
      /\ Number[x] \in Nat /\ Number[Parent[x]] \in Nat
  BY <1>2, TreeAssumption
<1>4. InLine(Parent[x])
  BY <1>1, <1>3
<1>5. InLine(x)
  BY <1>3, <1>4 DEF InLine
<1>6. QED
  BY <1>5

(* What the readers use of the tree: a canonical block at a height is the  *)
(* only one, and an Ethereum block is on one chain once.                   *)
LEMMA OneAtHeight ==
  ASSUME NEW b \in Blocks, NEW x \in Ancestors[b], NEW y \in Ancestors[b],
         Number[x] = Number[y]
  PROVE  x = y
<1>1. x \in Blocks /\ y \in Blocks
  BY AncestorsBelow DEF Below
<1>2. x \in Ancestors[y] \/ y \in Ancestors[x]
  BY AncestorsInLine DEF InLine
<1>3. Number[x] \in Nat /\ Number[y] \in Nat
  BY <1>1, TreeAssumption
<1>4. (x \in Ancestors[y] /\ x # y => Number[x] < Number[y])
      /\ (y \in Ancestors[x] /\ x # y => Number[y] < Number[x])
  BY <1>1, AncestorsBelow DEF Below
<1>5. QED
  BY <1>2, <1>3, <1>4

LEMMA OnePerChain ==
  ASSUME NEW b \in Blocks, NEW x \in Ancestors[b], NEW y \in Ancestors[b],
         Commitment[x].block_hash = Commitment[y].block_hash
  PROVE  x = y
<1>1. x \in Blocks /\ y \in Blocks
  BY AncestorsBelow DEF Below
<1>2. x \in Ancestors[y] \/ y \in Ancestors[x]
  BY AncestorsInLine DEF InLine
<1>3. QED
  BY <1>1, <1>2, ChainAssumption

-----------------------------------------------------------------------------
(* The inductive invariant.  Imported blocks have their ancestors with     *)
(* them, the best one is a highest one, and notifications are of imported  *)
(* blocks.                                                                 *)
ChainInv ==
  /\ imported \subseteq Blocks
  /\ best \in imported
  /\ \A b \in imported : Ancestors[b] \subseteq imported /\ Number[b] <= Number[best]
  /\ notes \in Seq([block : imported, is_new_best : BOOLEAN])

(* The index lists imported blocks under what they commit to. *)
IndexInv ==
  /\ block_hashes \in [EthHashes -> SUBSET imported]
  /\ \A e \in EthHashes : \A b \in block_hashes[e] : Commitment[b].block_hash = e
  /\ DOMAIN transaction_metadata = TxHashes
  /\ \A t \in TxHashes :
       /\ IsFiniteSet(transaction_metadata[t])
       /\ \A m \in transaction_metadata[t] :
            \E b \in imported : \E i \in Positions(b, t) : m = MetadataAt(b, i)

(* An entry of the pending map is the one that was accepted last. *)
PendingInv ==
  /\ handled \in Nat
  /\ pending \in [SendTxs -> Nat \cup {Absent}]
  /\ DOMAIN accepted = SendTxs
  /\ \A t \in SendTxs :
       /\ accepted[t] # Absent => accepted[t].at_block \in Nat
       /\ pending[t] # Absent => pending[t] = accepted[t].at_block
  /\ AcceptedTracked

(* A handler in progress, by its locals h. *)
IsHandler(h) ==
  DOMAIN h = {"pc", "req", "id", "hash", "at_index", "todo", "out", "block",
              "answer", "number", "moved", "findable"}

Sends(h) ==
  /\ h.pc \in {"number", "submit", "insert"}
  /\ h.req.transaction \in SendTxs
  /\ h.pc = "insert" => h.number \in Nat
  /\ h.pc = "submit" => h.number \in Nat

(* the blocks that load_hash may choose from *)
CommittedTo(e) == {b \in imported : Commitment[b].block_hash = e}

ByHash(h) == h.req.method # "at_block"

(* a transaction is looked up where the index has it *)
Located(h) ==
  \E b \in imported : \E i \in Positions(b, h.req.transaction) :
    h.hash = Commitment[b].block_hash /\ h.at_index = {i - 1}

(* the id a block is read at *)
IdOK(h) ==
  \/ /\ h.id.tag = "Hash"
     /\ h.id.block \in Blocks
     /\ ~h.moved => Canonical(h.id.block)
     /\ ByHash(h) => h.id.block \in CommittedTo(h.hash)
  \/ h.id.tag = "Number" /\ ~ByHash(h)

BlockOK(h) ==
  IF h.id.tag = "Hash" THEN h.block = h.id.block
  ELSE ~h.moved => h.block \in CanonicalAt(h.id.number)

TruthOK(h) ==
  h.answer.found = "block" =>
    /\ ByHash(h) =>
         /\ \A i \in h.answer.at_index : Transactions(h.answer.block)[i + 1] = h.req.transaction
         /\ Commitment[h.answer.block].block_hash = h.hash
    /\ ~h.moved => Canonical(h.answer.block) /\ h.answer.statuses = h.answer.block

PanicOK(h) ==
  h.answer = Panic =>
    \/ h.moved /\ h.id.tag = "Number"
    \/ ~ByHash(h) /\ h.at_index # All

Reads(h) ==
  /\ h.pc \in {"metadata", "pending", "hashes", "canon", "block", "statuses", "done"}
  /\ h.moved \in BOOLEAN
  /\ h.findable => ByHash(h)
  /\ ByHash(h) => h.req.transaction \in TxHashes
  /\ h.pc \in {"metadata", "pending"} => ByHash(h)
  /\ h.pc \in {"hashes", "canon", "block", "statuses"} /\ ByHash(h) => Located(h)
  /\ h.pc = "hashes" => h.hash \in EthHashes /\ h.out = {}
  /\ h.pc = "metadata" => h.out = {}
  /\ h.pc = "canon" =>
       /\ h.todo \cup h.out \subseteq CommittedTo(h.hash)
       /\ ~h.moved => \A b \in h.out : Canonical(b)
  /\ h.pc \in {"block", "statuses"} => IdOK(h)
  /\ h.pc = "statuses" => BlockOK(h)
  /\ h.pc = "done" => TruthOK(h) /\ PanicOK(h)

(* A transaction that the index had when the request came is still on the  *)
(* way to the answer.                                                      *)
OnItsWay(h) ==
  /\ h.pc # "pending"
  /\ h.pc = "metadata" => Findable(h.req.transaction)
  /\ h.pc = "hashes" => \E b \in block_hashes[h.hash] : Canonical(b)
  /\ h.pc = "canon" => \E b \in h.todo \cup h.out : Canonical(b)
  /\ h.pc = "done" /\ h.answer = NotFound =>
       \E b \in MinedIn(h.req.transaction) : MayBePruned(b)

Tracks(h) ==
  h.findable =>
    /\ transaction_metadata[h.req.transaction] # {}
    /\ ~h.moved /\ load_transactions(h.req.transaction) # {} => OnItsWay(h)

CallOK(h) ==
  \/ h = Idle
  \/ IsHandler(h) /\ Sends(h)
  \/ IsHandler(h) /\ Reads(h) /\ Tracks(h)

CallsInv == DOMAIN call = Clients /\ \A c \in Clients : CallOK(call[c])

RpcInv == ChainInv /\ IndexInv /\ PendingInv /\ CallsInv

-----------------------------------------------------------------------------
(* The chain under the readers. *)

LEMMA WidenSeq ==
  ASSUME NEW S, NEW T, S \subseteq T, NEW s \in Seq(S)
  PROVE  s \in Seq(T)
OBVIOUS

LEMMA AppendSeq ==
  ASSUME NEW T, NEW s \in Seq(T), NEW x \in T
  PROVE  /\ Append(s, x) \in Seq(T)
         /\ Len(Append(s, x)) = Len(s) + 1 /\ Len(s) \in Nat
         /\ \A i \in 1..Len(s) : Append(s, x)[i] = s[i]
         /\ Append(s, x)[Len(s) + 1] = x
OBVIOUS

(* what a reader may rely on when a block is imported *)
LEMMA ImportGrows ==
  ASSUME ChainInv, NEW b \in Blocks, ImportBlock(b)
  PROVE  /\ ChainInv'
         /\ imported' = imported \cup {b}
         /\ b \notin imported
         /\ Number[best] \in Nat /\ Number[best'] \in Nat /\ Number[best] <= Number[best']
         /\ UNCHANGED index
         /\ ~IsReorg(b) => Ancestors[best] \subseteq Ancestors[best']
<1>1. /\ b # Genesis /\ Parent[b] \in imported /\ imported' = imported \cup {b}
      /\ b \notin imported
      /\ best' = IF Number[b] > Number[best] THEN b ELSE best
      /\ UNCHANGED index
  BY DEF ImportBlock, Import
<1>2. \A x \in Blocks : Number[x] \in Nat
  BY TreeAssumption
<1>3. best \in Blocks /\ imported' \subseteq Blocks /\ best' \in imported' /\ best' \in Blocks
  BY <1>1 DEF ChainInv
<1>4. Number[best] <= Number[best'] /\ Number[b] <= Number[best']
  BY <1>1, <1>2, <1>3
<1>5. \A x \in imported' : Ancestors[x] \subseteq imported'
  <2>1. Ancestors[b] = {b} \cup Ancestors[Parent[b]]
    BY <1>1, TreeAssumption
  <2>2. QED
    BY <1>1, <2>1 DEF ChainInv
<1>6. \A x \in imported' : Number[x] <= Number[best']
  <2> TAKE x \in imported'
  <2>1. CASE x = b
    BY <1>4, <2>1
  <2>2. CASE x \in imported
    <3>1. Number[x] <= Number[best] /\ Number[x] \in Nat
      BY <1>2, <2>2 DEF ChainInv
    <3>2. QED
      BY <1>2, <1>3, <1>4, <3>1
  <2>3. QED
    BY <1>1, <2>1, <2>2
<1>7. notes' \in Seq([block : imported', is_new_best : BOOLEAN])
  <2> DEFINE note == [block |-> b, is_new_best |-> Number[b] > Number[best]]
             S == [block : imported, is_new_best : BOOLEAN]
             T == [block : imported', is_new_best : BOOLEAN]
  <2>1. S \subseteq T /\ note \in T
    BY <1>1
  <2>2. notes' = notes \/ notes' = Append(notes, note)
    BY DEF ImportBlock
  <2>3. notes \in Seq(S)
    BY DEF ChainInv
  <2> HIDE DEF note, S, T
  <2>4. notes \in Seq(T)
    BY <2>1, <2>3, WidenSeq
  <2>5. notes' \in Seq(T)
    BY <2>1, <2>2, <2>4, AppendSeq
  <2>6. QED
    BY <2>5 DEF T
<1>8. ChainInv'
  BY <1>3, <1>5, <1>6, <1>7 DEF ChainInv
<1>9. ~IsReorg(b) => Ancestors[best] \subseteq Ancestors[best']
  <2> SUFFICES ASSUME ~IsReorg(b) PROVE Ancestors[best] \subseteq Ancestors[best']
    OBVIOUS
  <2>1. CASE Number[b] > Number[best]
    BY <1>1, <2>1, AncestorsBelow DEF IsReorg, Below
  <2>2. CASE ~(Number[b] > Number[best])
    BY <1>1, <2>2
  <2>3. QED
    BY <2>1, <2>2
<1>10. QED
  BY <1>1, <1>2, <1>3, <1>4, <1>8, <1>9

LEMMA ImportIndex ==
  ASSUME IndexInv, imported \subseteq imported', UNCHANGED index
  PROVE  IndexInv'
<1>1. block_hashes' = block_hashes /\ transaction_metadata' = transaction_metadata
  BY DEF index
<1>2. block_hashes' \in [EthHashes -> SUBSET imported']
  BY <1>1 DEF IndexInv
<1>3. QED
  BY <1>1, <1>2 DEF IndexInv

LEMMA PositionsFinite ==
  ASSUME NEW b \in Blocks, NEW t
  PROVE  IsFiniteSet(Positions(b, t)) /\ Positions(b, t) \subseteq Nat
<1>1. Transactions(b) \in Seq(TxHashes)
  BY ChainAssumption DEF Transactions
<1>2. Len(Transactions(b)) \in Nat /\ DOMAIN Transactions(b) = 1..Len(Transactions(b))
  BY <1>1
<1>3. IsFiniteSet(1..Len(Transactions(b)))
  BY <1>2, FS_Interval
<1>4. Positions(b, t) \subseteq 1..Len(Transactions(b))
  BY <1>2 DEF Positions, Transactions
<1>5. QED
  BY <1>2, <1>3, <1>4, FS_Subset

LEMMA MetadataFinite ==
  ASSUME NEW b \in Blocks, NEW t
  PROVE  IsFiniteSet({MetadataAt(b, i) : i \in Positions(b, t)})
<1> DEFINE S == Positions(b, t)
           T == {MetadataAt(b, i) : i \in S}
           f == [i \in S |-> MetadataAt(b, i)]
<1>1. f \in Surjection(S, T)
  BY DEF Surjection
<1>2. IsFiniteSet(S)
  BY PositionsFinite
<1> HIDE DEF S, T, f
<1>3. QED
  BY <1>1, <1>2, FS_Surjection DEF T, S

(* a block enters the index, and nothing leaves it *)
LEMMA IndexGrows ==
  ASSUME ChainInv, IndexInv, NEW b \in Blocks, IndexBlock(b)
  PROVE  /\ IndexInv'
         /\ imported' = imported
         /\ \A e \in EthHashes : block_hashes[e] \subseteq block_hashes'[e]
         /\ \A t \in TxHashes : transaction_metadata[t] \subseteq transaction_metadata'[t]
<1> DEFINE e0 == Commitment[b].block_hash
<1>1. /\ b \in imported /\ imported' = imported
      /\ block_hashes' = [block_hashes EXCEPT ![e0] = @ \cup {b}]
      /\ transaction_metadata' =
           [t \in TxHashes |->
              transaction_metadata[t] \cup {MetadataAt(b, i) : i \in Positions(b, t)}]
  BY DEF IndexBlock
<1>2. \A e \in EthHashes :
        block_hashes'[e] = IF e = e0 THEN block_hashes[e] \cup {b} ELSE block_hashes[e]
  <2> HIDE DEF e0
  <2> QED
    BY <1>1 DEF IndexInv
<1>3. block_hashes' \in [EthHashes -> SUBSET imported']
  <2> HIDE DEF e0
  <2> QED
    BY <1>1 DEF IndexInv
<1>4. \A e \in EthHashes : \A x \in block_hashes'[e] : Commitment[x].block_hash = e
  <2>1. \A e \in EthHashes : \A x \in block_hashes[e] : Commitment[x].block_hash = e
    BY DEF IndexInv
  <2>2. \A e \in EthHashes : e = e0 => Commitment[b].block_hash = e
    OBVIOUS
  <2> HIDE DEF e0
  <2>3. ASSUME NEW e \in EthHashes, NEW x \in block_hashes'[e]
        PROVE  Commitment[x].block_hash = e
    <3>1. CASE e = e0
      <4>1. x \in block_hashes[e] \/ x = b
        BY <1>2, <3>1
      <4>2. QED
        BY <2>1, <2>2, <3>1, <4>1
    <3>2. CASE e # e0
      <4>1. x \in block_hashes[e]
        BY <1>2, <3>2
      <4>2. QED
        BY <2>1, <4>1
    <3>3. QED
      BY <3>1, <3>2
  <2>4. QED
    BY <2>3
<1>5. ASSUME NEW t \in TxHashes
      PROVE  /\ IsFiniteSet(transaction_metadata'[t])
             /\ transaction_metadata[t] \subseteq transaction_metadata'[t]
             /\ \A m \in transaction_metadata'[t] :
                  \E x \in imported' : \E i \in Positions(x, t) : m = MetadataAt(x, i)
  <2> DEFINE new == {MetadataAt(b, i) : i \in Positions(b, t)}
  <2>1. transaction_metadata'[t] = transaction_metadata[t] \cup new
    BY <1>1
  <2>2. IsFiniteSet(new) /\ IsFiniteSet(transaction_metadata[t])
    BY MetadataFinite DEF IndexInv
  <2>3. \A m \in new : \E x \in imported' : \E i \in Positions(x, t) : m = MetadataAt(x, i)
    BY <1>1
  <2>4. \A m \in transaction_metadata[t] :
          \E x \in imported' : \E i \in Positions(x, t) : m = MetadataAt(x, i)
    BY <1>1 DEF IndexInv
  <2> HIDE DEF new
  <2>5. IsFiniteSet(transaction_metadata[t] \cup new)
    BY <2>2, FS_Union
  <2>6. \A m \in transaction_metadata'[t] : m \in transaction_metadata[t] \/ m \in new
    BY <2>1
  <2>7. QED
    BY <2>1, <2>3, <2>4, <2>5, <2>6
<1>6. DOMAIN transaction_metadata' = TxHashes
  BY <1>1
<1>7. QED
  BY <1>1, <1>2, <1>3, <1>4, <1>5, <1>6 DEF IndexInv

(* load_transactions finds something if the transaction has one place *)
LEMMA LoadOne ==
  ASSUME IndexInv, NEW t \in TxHashes
  PROVE  /\ load_transactions(t) # {} => load_transactions(t) = transaction_metadata[t]
         /\ load_transactions(t) # {} <=> \E m : transaction_metadata[t] = {m}
<1>1. IsFiniteSet(transaction_metadata[t])
  BY DEF IndexInv
<1>2. Cardinality(transaction_metadata[t]) = 1 <=> \E m : transaction_metadata[t] = {m}
  BY <1>1, FS_Singleton
<1>3. QED
  BY <1>2 DEF load_transactions

LEMMA LoadKept ==
  ASSUME IndexInv, IndexInv', NEW t \in TxHashes, transaction_metadata[t] # {},
         transaction_metadata[t] \subseteq transaction_metadata'[t],
         load_transactions(t)' # {}
  PROVE  /\ load_transactions(t) # {}
         /\ load_transactions(t)' = load_transactions(t)
<1>1. load_transactions(t)' = transaction_metadata'[t] /\ Cardinality(transaction_metadata'[t]) = 1
  BY DEF load_transactions
<1>2. \E m : transaction_metadata'[t] = {m}
  <2>1. IsFiniteSet(transaction_metadata'[t])
    BY DEF IndexInv
  <2>2. QED
    BY <1>1, <2>1, FS_Singleton
<1>3. transaction_metadata'[t] = transaction_metadata[t]
  BY <1>2
<1>4. QED
  BY <1>1, <1>2, <1>3, LoadOne

-----------------------------------------------------------------------------
(* The pending map. *)
LEMMA PendingImport ==
  ASSUME ChainInv, PendingInv, NEW b \in Blocks, RpcImport(b)
  PROVE  PendingInv'
<1>1. /\ imported' = imported \cup {b}
      /\ Number[best] \in Nat /\ Number[best'] \in Nat /\ Number[best] <= Number[best']
  BY ImportGrows DEF RpcImport
<1>2. UNCHANGED <<pending, handled, accepted>>
  BY DEF RpcImport
<1>3. AcceptedTracked'
  <2> SUFFICES ASSUME NEW t \in SendTxs, accepted'[t] # Absent, pending'[t] = Absent,
                      MinedIn(t)' = {}
               PROVE  Number[best'] >= accepted'[t].at_block + THRESHOLD
    BY DEF AcceptedTracked
  <2>1. MinedIn(t) = {}
    BY <1>1 DEF MinedIn
  <2>2. Number[best] >= accepted[t].at_block + THRESHOLD
    BY <1>2, <2>1 DEF PendingInv, AcceptedTracked
  <2>3. accepted[t].at_block \in Nat /\ THRESHOLD \in Nat
    BY <1>2, RpcAssumption DEF PendingInv
  <2>4. QED
    BY <1>1, <1>2, <2>2, <2>3
<1>4. QED
  BY <1>2, <1>3 DEF PendingInv

LEMMA PendingKept ==
  ASSUME PendingInv, UNCHANGED <<imported, best, pending, handled, accepted>>
  PROVE  PendingInv'
BY DEF PendingInv, AcceptedTracked, MinedIn

LEMMA PendingInserted ==
  ASSUME PendingInv, NEW c \in Clients, InsertPending(c), call[c].number \in Nat,
         call[c].req.transaction \in SendTxs
  PROVE  PendingInv'
<1> DEFINE n == call[c].number
           t == call[c].req.transaction
           a == [at_block |-> n, handled |-> handled]
<1>1. /\ pending' = [pending EXCEPT ![t] = n] /\ accepted' = [accepted EXCEPT ![t] = a]
      /\ UNCHANGED <<imported, best, handled>>
  BY DEF InsertPending, chainVars
<1>2. n \in Nat /\ t \in SendTxs /\ a.at_block = n /\ n # Absent
  BY RpcAssumption
<1> HIDE DEF n, t, a
<1>3. /\ pending' \in [SendTxs -> Nat \cup {Absent}]
      /\ DOMAIN accepted' = SendTxs
  BY <1>1, <1>2 DEF PendingInv
<1>4. /\ pending'[t] = n /\ accepted'[t] = a
      /\ \A s \in SendTxs \ {t} : pending'[s] = pending[s] /\ accepted'[s] = accepted[s]
  BY <1>1, <1>2 DEF PendingInv
<1>5. \A s \in SendTxs : MinedIn(s)' = MinedIn(s)
  BY <1>1 DEF MinedIn
<1>6. AcceptedTracked'
  <2> SUFFICES ASSUME NEW s \in SendTxs, accepted'[s] # Absent, pending'[s] = Absent,
                      MinedIn(s)' = {}
               PROVE  Number[best'] >= accepted'[s].at_block + THRESHOLD
    BY DEF AcceptedTracked
  <2>1. s # t
    BY <1>2, <1>4
  <2>2. QED
    BY <1>1, <1>4, <1>5, <2>1 DEF PendingInv, AcceptedTracked
<1>7. QED
  BY <1>1, <1>2, <1>3, <1>4, <1>6 DEF PendingInv

LEMMA PendingHandled ==
  ASSUME ChainInv, PendingInv, HandleNotification
  PROVE  PendingInv'
<1>1. PICK b : b = notes[handled + 1].block
  OBVIOUS
<1>2. /\ handled < Len(notes) /\ handled' = handled + 1
      /\ pending' = [t \in SendTxs |-> IF pending[t] # Absent /\ Removes(b, t)
                                       THEN Absent ELSE pending[t]]
      /\ UNCHANGED <<imported, best, accepted>>
  BY <1>1 DEF HandleNotification, chainVars
<1>3. b \in imported
  <2>1. handled \in Nat /\ Len(notes) \in Nat /\ DOMAIN notes = 1..Len(notes)
    BY DEF PendingInv, ChainInv
  <2>2. handled + 1 \in DOMAIN notes
    BY <1>2, <2>1
  <2>3. \A i \in DOMAIN notes : notes[i].block \in imported
    <3> DEFINE S == [block : imported, is_new_best : BOOLEAN]
    <3>1. \A x \in S : x.block \in imported
      OBVIOUS
    <3>2. notes \in Seq(S)
      BY DEF ChainInv
    <3> HIDE DEF S
    <3>3. \A i \in DOMAIN notes : notes[i] \in S
      BY <3>2
    <3>4. QED
      BY <3>1, <3>3
  <2>4. QED
    BY <1>1, <2>2, <2>3
<1>4. Number[b] \in Nat /\ Number[best] \in Nat /\ Number[b] <= Number[best]
  BY <1>3, TreeAssumption DEF ChainInv
<1>5. AcceptedTracked'
  <2> SUFFICES ASSUME NEW t \in SendTxs, accepted'[t] # Absent, pending'[t] = Absent,
                      MinedIn(t)' = {}
               PROVE  Number[best'] >= accepted'[t].at_block + THRESHOLD
    BY DEF AcceptedTracked
  <2>1. MinedIn(t) = {} /\ accepted[t] # Absent
    BY <1>2 DEF MinedIn
  <2>2. CASE pending[t] = Absent
    BY <1>2, <2>1, <2>2 DEF PendingInv, AcceptedTracked
  <2>3. CASE pending[t] # Absent
    <3>1. Removes(b, t)
      BY <1>2, <2>3
    <3>2. Positions(b, t) = {}
      BY <1>3, <2>1 DEF MinedIn
    <3>3. pending[t] + THRESHOLD <= Number[b]
      BY <3>1, <3>2 DEF Removes, Outlived
    <3>4. pending[t] = accepted[t].at_block /\ accepted[t].at_block \in Nat /\ THRESHOLD \in Nat
      BY <2>1, <2>3, RpcAssumption DEF PendingInv
    <3>5. QED
      BY <1>2, <1>4, <3>3, <3>4
  <2>4. QED
    BY <2>2, <2>3
<1>6. handled' \in Nat /\ pending' \in [SendTxs -> Nat \cup {Absent}]
  BY <1>2 DEF PendingInv
<1>7. QED
  BY <1>2, <1>5, <1>6 DEF PendingInv

-----------------------------------------------------------------------------
(* The handlers.  The locals h of a handler become g while others act: only *)
(* moved may change, and it stays FALSE only while the canonical chain      *)
(* keeps its blocks.                                                        *)
Grown ==
  /\ imported \subseteq imported'
  /\ Number[best] <= Number[best']
  /\ \A e \in EthHashes : block_hashes[e] \subseteq block_hashes'[e]
  /\ \A t \in TxHashes : transaction_metadata[t] \subseteq transaction_metadata'[t]

SameLocals(g, h) ==
  /\ DOMAIN g = DOMAIN h
  /\ g.pc = h.pc /\ g.req = h.req /\ g.id = h.id /\ g.hash = h.hash
  /\ g.at_index = h.at_index /\ g.todo = h.todo /\ g.out = h.out
  /\ g.block = h.block /\ g.answer = h.answer /\ g.findable = h.findable
  /\ g.moved \in BOOLEAN
  /\ ~g.moved => ~h.moved

LEMMA PrunedStays ==
  ASSUME ChainInv, ChainInv', Number[best] <= Number[best'], NEW b \in Blocks, MayBePruned(b)
  PROVE  MayBePruned(b)'
<1>1. Number[best] \in Nat /\ Number[best'] \in Nat
  BY TreeAssumption DEF ChainInv
<1> DEFINE n == Number[b] + PRUNING
<1>2. n \in Nat
  BY TreeAssumption, PruningAssumption
<1>3. n <= Number[best] /\ (MayBePruned(b)' <=> n <= Number[best'])
  BY DEF MayBePruned
<1> HIDE DEF n
<1>4. QED
  BY <1>1, <1>2, <1>3

LEMMA ReadsKept ==
  ASSUME ChainInv, ChainInv', Grown, NEW h, NEW g, SameLocals(g, h),
         ~g.moved => Ancestors[best] \subseteq Ancestors[best'],
         Reads(h)
  PROVE  Reads(g)'
<1>1. \A e : CommittedTo(e) \subseteq CommittedTo(e)'
  BY DEF Grown, CommittedTo
<1>2. ~g.moved => \A x : Canonical(x) => Canonical(x)'
  BY DEF Canonical
<1>3. Located(h) => Located(g)'
  BY DEF Located, Grown, SameLocals
<1>4. ByHash(g) <=> ByHash(h)
  BY DEF ByHash, SameLocals
<1>5. IdOK(h) => IdOK(g)'
  BY <1>1, <1>2, <1>4 DEF IdOK, SameLocals
<1>6. BlockOK(h) => BlockOK(g)'
  BY DEF BlockOK, SameLocals, CanonicalAt
<1>7. TruthOK(h) => TruthOK(g)'
  <2> SUFFICES ASSUME TruthOK(h), g.answer.found = "block"
               PROVE  TruthOK(g)'
    BY DEF TruthOK
  <2>1. h.answer.found = "block"
    BY DEF SameLocals
  <2>2. ByHash(g) =>
          /\ \A i \in g.answer.at_index : Transactions(g.answer.block)[i + 1] = g.req.transaction
          /\ Commitment[g.answer.block].block_hash = g.hash
    BY <1>4, <2>1 DEF TruthOK, SameLocals
  <2>3. ~g.moved => Canonical(g.answer.block)' /\ g.answer.statuses = g.answer.block
    BY <1>2, <2>1 DEF TruthOK, SameLocals
  <2>4. QED
    BY <2>2, <2>3 DEF TruthOK
<1>8. PanicOK(h) => PanicOK(g)
  BY <1>4 DEF PanicOK, SameLocals
<1>9. h.pc = "canon" =>
        /\ g.todo \cup g.out \subseteq CommittedTo(g.hash)'
        /\ ~g.moved => \A b \in g.out : Canonical(b)'
  BY <1>1, <1>2 DEF Reads, SameLocals
<1>10. QED
  BY <1>3, <1>4, <1>5, <1>6, <1>7, <1>8, <1>9 DEF Reads, SameLocals

LEMMA TracksKept ==
  ASSUME ChainInv, ChainInv', IndexInv, IndexInv', Grown, NEW h, NEW g, SameLocals(g, h),
         ~g.moved => Ancestors[best] \subseteq Ancestors[best'],
         Reads(h), Tracks(h)
  PROVE  Tracks(g)'
<1> SUFFICES ASSUME g.findable PROVE Tracks(g)'
  BY DEF Tracks
<1>1. PICK t \in TxHashes : t = h.req.transaction /\ t = g.req.transaction
  BY DEF Reads, SameLocals
<1>2. transaction_metadata[t] # {} /\ transaction_metadata[t] \subseteq transaction_metadata'[t]
  BY <1>1 DEF Tracks, SameLocals, Grown
<1>3. transaction_metadata'[t] # {}
  BY <1>2
<1>4. ASSUME ~g.moved, load_transactions(t)' # {}
      PROVE  OnItsWay(g)'
  <2>1. load_transactions(t) # {} /\ load_transactions(t)' = load_transactions(t)
    BY <1>2, <1>4, LoadKept
  <2>2. OnItsWay(h)
    BY <1>1, <1>4, <2>1 DEF Tracks, SameLocals
  <2>3. \A x : Canonical(x) => Canonical(x)'
    BY <1>4 DEF Canonical
  <2>4. Findable(t) => Findable(t)'
    <3> SUFFICES ASSUME Findable(t) PROVE Findable(t)'
      OBVIOUS
    <3>1. PICK m \in load_transactions(t) :
            {x \in block_hashes[m.ethereum_block_hash] : Canonical(x)} # {}
      BY DEF Findable
    <3>2. m \in transaction_metadata[t]
      BY <3>1, LoadOne
    <3>3. m.ethereum_block_hash \in EthHashes
      <4>1. PICK b \in imported : \E i \in Positions(b, t) : m = MetadataAt(b, i)
        BY <3>2 DEF IndexInv
      <4>2. b \in Blocks
        BY <4>1 DEF ChainInv
      <4>3. QED
        BY <4>1, <4>2, ChainAssumption DEF MetadataAt
    <3>4. {x \in block_hashes'[m.ethereum_block_hash] : Canonical(x)'} # {}
      BY <2>3, <3>1, <3>3 DEF Grown
    <3>5. m \in load_transactions(t)'
      BY <2>1, <3>1
    <3>6. QED
      BY <3>4, <3>5 DEF Findable
  <2>5. MinedIn(t) \subseteq MinedIn(t)'
    BY DEF MinedIn, Grown
  <2>6. \A b \in MinedIn(t) : MayBePruned(b) => MayBePruned(b)'
    <3>1. MinedIn(t) \subseteq Blocks /\ Number[best] <= Number[best']
      BY DEF MinedIn, ChainInv, Grown
    <3>2. QED
      BY <3>1, PrunedStays
  <2>7. g.pc = "hashes" => \E b \in block_hashes'[g.hash] : Canonical(b)'
    BY <2>2, <2>3 DEF OnItsWay, SameLocals, Reads, Grown
  <2>8. g.pc = "canon" => \E b \in g.todo \cup g.out : Canonical(b)'
    BY <2>2, <2>3 DEF OnItsWay, SameLocals
  <2>9. g.pc = "done" /\ g.answer = NotFound =>
          \E b \in MinedIn(t)' : MayBePruned(b)'
    BY <1>1, <2>2, <2>5, <2>6 DEF OnItsWay, SameLocals
  <2>10. g.pc # "pending" /\ (g.pc = "metadata" => Findable(t)')
    BY <1>1, <2>2, <2>4 DEF OnItsWay, SameLocals
  <2>11. QED
    BY <1>1, <2>7, <2>8, <2>9, <2>10 DEF OnItsWay
<1>5. QED
  BY <1>1, <1>3, <1>4 DEF Tracks

LEMMA CallKept ==
  ASSUME ChainInv, ChainInv', IndexInv, IndexInv', Grown, NEW h, NEW g, CallOK(h),
         g = h \/ (Reads(h) /\ IsHandler(h) /\ SameLocals(g, h)),
         ~(h.pc \in {"idle", "number", "submit", "insert"}) /\ ~g.moved
           => Ancestors[best] \subseteq Ancestors[best']
  PROVE  CallOK(g)'
<1>1. CASE g = h /\ (h = Idle \/ (IsHandler(h) /\ Sends(h)))
  BY <1>1 DEF CallOK, Sends, IsHandler, Idle
<1>2. CASE IsHandler(h) /\ Reads(h) /\ Tracks(h)
  <2>1. SameLocals(g, h)
    BY <1>2 DEF SameLocals, Reads
  <2>2. ~g.moved => Ancestors[best] \subseteq Ancestors[best']
    BY <1>2 DEF Reads
  <2>3. Reads(g)' /\ Tracks(g)'
    BY <1>2, <2>1, <2>2, ReadsKept, TracksKept
  <2>4. IsHandler(g)
    BY <1>2, <2>1 DEF SameLocals, IsHandler
  <2>5. QED
    BY <2>3, <2>4 DEF CallOK, IsHandler
<1>3. CASE Reads(h) /\ ~(h = Idle \/ (IsHandler(h) /\ Sends(h)))
  BY <1>2, <1>3 DEF CallOK
<1>4. CASE Reads(h) /\ (h = Idle \/ (IsHandler(h) /\ Sends(h)))
  <2>1. FALSE
    BY <1>4 DEF Reads, Idle, Sends
  <2>2. QED
    BY <2>1
<1>5. QED
  BY <1>1, <1>2, <1>3, <1>4 DEF CallOK

LEMMA CallsImport ==
  ASSUME ChainInv, IndexInv, CallsInv, NEW b \in Blocks, RpcImport(b)
  PROVE  CallsInv'
<1>1. /\ ImportBlock(b)
      /\ call' = [c \in Clients |->
                    IF call[c].pc \in {"idle", "number", "submit", "insert"} THEN call[c]
                    ELSE [call[c] EXCEPT !.moved = @ \/ IsReorg(b)]]
  BY DEF RpcImport
<1>2. /\ ChainInv' /\ imported \subseteq imported' /\ Number[best] <= Number[best']
      /\ UNCHANGED index /\ (~IsReorg(b) => Ancestors[best] \subseteq Ancestors[best'])
  BY <1>1, ImportGrows
<1>3. IndexInv'
  BY <1>2, ImportIndex
<1>4. Grown
  BY <1>2 DEF Grown, index
<1>5. ASSUME NEW c \in Clients
      PROVE  CallOK(call[c])'
  <2>1. PICK h : h = call[c]
    OBVIOUS
  <2>2. PICK g : g = call'[c]
    OBVIOUS
  <2>3. g = IF h.pc \in {"idle", "number", "submit", "insert"} THEN h
            ELSE [h EXCEPT !.moved = @ \/ IsReorg(b)]
    BY <1>1, <2>1, <2>2
  <2>4. CallOK(h)
    BY <2>1 DEF CallsInv
  <2>5. CASE h.pc \in {"idle", "number", "submit", "insert"}
    <3>1. g = h
      BY <2>3, <2>5
    <3>2. CallOK(g)'
      BY <1>2, <1>3, <1>4, <2>4, <2>5, <3>1, CallKept
    <3>3. QED
      BY <2>2, <3>2
  <2>6. CASE ~(h.pc \in {"idle", "number", "submit", "insert"})
    <3>1. IsHandler(h) /\ Reads(h)
      BY <2>4, <2>6 DEF CallOK, Idle, Sends
    <3> DEFINE r == IsReorg(b)
    <3>2. g = [h EXCEPT !.moved = @ \/ r] /\ r \in BOOLEAN
      BY <2>3, <2>6 DEF IsReorg
    <3>3. ~r => Ancestors[best] \subseteq Ancestors[best']
      BY <1>2
    <3> HIDE DEF r
    <3>4. h.moved \in BOOLEAN
      BY <3>1 DEF Reads
    <3>5. g.moved = (h.moved \/ r)
      BY <3>1, <3>2 DEF IsHandler
    <3>6. SameLocals(g, h)
      <4>1. g.moved \in BOOLEAN /\ (~g.moved => ~h.moved)
        BY <3>2, <3>4, <3>5
      <4>2. /\ DOMAIN g = DOMAIN h
            /\ g.pc = h.pc /\ g.req = h.req /\ g.id = h.id /\ g.hash = h.hash
            /\ g.at_index = h.at_index /\ g.todo = h.todo /\ g.out = h.out
            /\ g.block = h.block /\ g.answer = h.answer /\ g.findable = h.findable
        BY <3>1, <3>2 DEF IsHandler
      <4>3. QED
        BY <4>1, <4>2 DEF SameLocals
    <3>7. ~g.moved => Ancestors[best] \subseteq Ancestors[best']
      BY <3>2, <3>3, <3>4, <3>5
    <3>8. CallOK(g)'
      BY <1>2, <1>3, <1>4, <2>4, <3>1, <3>6, <3>7, CallKept
    <3>9. QED
      BY <2>2, <3>8
  <2>7. QED
    BY <2>5, <2>6
<1>6. QED
  BY <1>1, <1>5 DEF CallsInv

LEMMA CallsIndex ==
  ASSUME ChainInv, IndexInv, CallsInv, NEW b \in Blocks, RpcIndex(b)
  PROVE  CallsInv' /\ IndexInv' /\ ChainInv'
<1>1. IndexBlock(b) /\ UNCHANGED <<best, notes, call>>
  BY DEF RpcIndex, rpcVars
<1>2. /\ IndexInv' /\ imported' = imported
      /\ \A e \in EthHashes : block_hashes[e] \subseteq block_hashes'[e]
      /\ \A t \in TxHashes : transaction_metadata[t] \subseteq transaction_metadata'[t]
  BY <1>1, IndexGrows
<1>3. ChainInv'
  BY <1>1, <1>2 DEF ChainInv
<1>4. Grown
  <2>1. Number[best] \in Nat
    BY TreeAssumption DEF ChainInv
  <2>2. QED
    BY <1>1, <1>2, <2>1 DEF Grown
<1>5. ASSUME NEW c \in Clients
      PROVE  CallOK(call[c])'
  <2>1. PICK h : h = call[c]
    OBVIOUS
  <2>2. CallOK(h) /\ h = call'[c]
    BY <1>1, <2>1 DEF CallsInv
  <2>3. CallOK(h)'
    BY <1>1, <1>2, <1>3, <1>4, <2>2, CallKept
  <2>4. QED
    BY <2>2, <2>3
<1>6. QED
  BY <1>1, <1>2, <1>3, <1>5 DEF CallsInv

(* what a client does changes its own locals only *)
LEMMA CallsStep ==
  ASSUME ChainInv, IndexInv, CallsInv, NEW c \in Clients, NEW g, CallOK(g),
         call' = [call EXCEPT ![c] = g], UNCHANGED <<imported, best, notes, index>>
  PROVE  CallsInv' /\ IndexInv' /\ ChainInv'
<1>1. ChainInv' /\ IndexInv'
  BY DEF ChainInv, IndexInv, index
<1>2. Grown
  <2>1. Number[best] \in Nat
    BY TreeAssumption DEF ChainInv
  <2>2. QED
    BY <2>1 DEF Grown, index
<1>3. ASSUME NEW d \in Clients
      PROVE  CallOK(call[d])'
  <2>1. PICK h : h = call'[d]
    OBVIOUS
  <2>2. CallOK(h)
    BY <2>1 DEF CallsInv
  <2>3. CallOK(h)'
    BY <1>1, <1>2, <2>2, CallKept
  <2>4. QED
    BY <2>1, <2>3
<1>4. QED
  BY <1>1, <1>3 DEF CallsInv

-----------------------------------------------------------------------------
(* The steps of a handler, one lemma each. *)
LEMMA ReaderAt ==
  ASSUME CallsInv, NEW c \in Clients,
         call[c].pc \in {"metadata", "pending", "hashes", "canon", "block", "statuses", "done"}
  PROVE  IsHandler(call[c]) /\ Reads(call[c]) /\ Tracks(call[c])
<1>1. CallOK(call[c])
  BY DEF CallsInv
<1>2. QED
  BY <1>1 DEF CallOK, Idle, Sends

(* the locals of a handler that returns a *)
Finished(h, a) ==
  [h EXCEPT !.pc = "done", !.answer = a, !.out = {}, !.block = None]

LEMMA FinishedFields ==
  ASSUME NEW h, IsHandler(h), NEW a
  PROVE  LET g == Finished(h, a) IN
         /\ IsHandler(g) /\ g.pc = "done" /\ g.answer = a
         /\ g.req = h.req /\ g.id = h.id /\ g.hash = h.hash /\ g.at_index = h.at_index
         /\ g.moved = h.moved /\ g.findable = h.findable
BY DEF IsHandler, Finished

LEMMA FinishedOK ==
  ASSUME NEW h, IsHandler(h), Reads(h), Tracks(h), NEW a,
         TruthOK(Finished(h, a)), PanicOK(Finished(h, a)),
         h.findable /\ ~h.moved /\ load_transactions(h.req.transaction) # {} /\ a = NotFound
           => \E b \in MinedIn(h.req.transaction) : MayBePruned(b)
  PROVE  CallOK(Finished(h, a))
<1>1. PICK g : g = Finished(h, a)
  OBVIOUS
<1>2. /\ IsHandler(g) /\ g.pc = "done" /\ g.answer = a
      /\ g.req = h.req /\ g.id = h.id /\ g.hash = h.hash /\ g.at_index = h.at_index
      /\ g.moved = h.moved /\ g.findable = h.findable
  BY <1>1, FinishedFields
<1>3. TruthOK(g) /\ PanicOK(g)
  BY <1>1
<1>4. Reads(g)
  BY <1>2, <1>3 DEF Reads, ByHash
<1>5. Tracks(g)
  BY <1>2 DEF Tracks, OnItsWay
<1>6. QED
  BY <1>1, <1>2, <1>4, <1>5 DEF CallOK

LEMMA NothingFound ==
  ASSUME NEW h, IsHandler(h), Reads(h), Tracks(h),
         h.findable /\ ~h.moved /\ load_transactions(h.req.transaction) # {}
           => \E b \in MinedIn(h.req.transaction) : MayBePruned(b)
  PROVE  CallOK(Finished(h, NotFound))
<1>1. Finished(h, NotFound).answer = NotFound
  BY FinishedFields
<1>2. NotFound.found = "nothing" /\ Panic.found = "panic"
  BY DEF NotFound, Panic
<1>3. TruthOK(Finished(h, NotFound)) /\ PanicOK(Finished(h, NotFound))
  BY <1>1, <1>2 DEF TruthOK, PanicOK
<1>4. QED
  BY <1>3, FinishedOK

LEMMA DoneGoto ==
  ASSUME NEW c \in Clients, NEW a, Done(c, a)
  PROVE  Goto(c, Finished(call[c], a))
BY DEF Done, Finished

LEMMA StartLookupOK ==
  ASSUME ChainInv, IndexInv, CallsInv, NEW c \in Clients, NEW r \in Requests, StartLookup(c, r)
  PROVE  \E g : CallOK(g) /\ Goto(c, g)
<1> DEFINE f == Findable(r.transaction)
<1>1. PICK g : g = [Handler(r, "metadata", None) EXCEPT !.findable = f]
  OBVIOUS
<1>2. Goto(c, g) /\ r.method # "at_block"
  BY <1>1 DEF StartLookup
<1>3. r.transaction \in TxHashes
  BY <1>2, RequestAssumption
<1>4. f => load_transactions(r.transaction) # {}
  BY DEF Findable
<1>5. f => transaction_metadata[r.transaction] # {}
  BY <1>3, <1>4, LoadOne
<1> HIDE DEF f
<1>6. /\ IsHandler(g) /\ g.pc = "metadata" /\ g.req = r /\ g.out = {} /\ g.moved = FALSE
      /\ g.findable = f
  BY <1>1 DEF Handler, IsHandler
<1>7. Reads(g)
  BY <1>2, <1>3, <1>6 DEF Reads, ByHash
<1>8. Tracks(g)
  <2>1. g.findable => Findable(g.req.transaction)
    BY <1>6 DEF f
  <2>2. QED
    BY <1>5, <1>6, <2>1 DEF Tracks, OnItsWay
<1>9. QED
  BY <1>2, <1>6, <1>7, <1>8 DEF CallOK

LEMMA StartAtBlockOK ==
  ASSUME ChainInv, IndexInv, CallsInv, NEW c \in Clients, NEW r \in Requests, StartAtBlock(c, r)
  PROVE  \E g : CallOK(g) /\ Goto(c, g)
<1>1. CASE r.number.tag = "Hash"
  <2>1. PICK g : g = [Handler(r, "hashes", None) EXCEPT !.hash = r.number.hash,
                                                         !.at_index = r.at_index]
    OBVIOUS
  <2>2. Goto(c, g) /\ r.method = "at_block"
    BY <1>1, <2>1 DEF StartAtBlock
  <2>3. r.number.hash \in EthHashes
    BY <1>1, <2>2, RequestAssumption
  <2>4. /\ IsHandler(g) /\ g.pc = "hashes" /\ g.req = r /\ g.out = {} /\ g.moved = FALSE
        /\ g.findable = FALSE /\ g.hash = r.number.hash
    BY <2>1 DEF Handler, IsHandler
  <2>5. Reads(g) /\ Tracks(g)
    BY <2>2, <2>3, <2>4 DEF Reads, ByHash, Tracks
  <2>6. QED
    BY <2>2, <2>4, <2>5 DEF CallOK
<1>2. CASE r.number.tag # "Hash"
  <2>1. PICK id : id = native_block_id(r.number)
    OBVIOUS
  <2>2. PICK pc : pc = IF id = None THEN "done" ELSE "block"
    OBVIOUS
  <2>3. PICK g : g = [Handler(r, pc, id) EXCEPT !.at_index = r.at_index]
    OBVIOUS
  <2>4. Goto(c, g) /\ r.method = "at_block"
    BY <1>2, <2>1, <2>2, <2>3 DEF StartAtBlock
  <2>5. id # None => \/ id.tag = "Number"
                     \/ id.tag = "Hash" /\ id.block = best
    <3>1. r.number.tag \in {"Num", "Latest", "Earliest", "Pending"}
      BY <1>2, <2>4, RequestAssumption
    <3>2. QED
      BY <2>1, <3>1 DEF native_block_id, ByNumber, ById
  <2>6. best \in Blocks /\ Canonical(best)
    BY AncestorsBelow DEF ChainInv, Below, Canonical
  <2>7. /\ IsHandler(g) /\ g.pc = pc /\ g.req = r /\ g.id = id /\ g.moved = FALSE
        /\ g.findable = FALSE /\ g.answer = NotFound
    BY <2>3 DEF Handler, IsHandler
  <2>8. ~ByHash(g)
    BY <2>4, <2>7 DEF ByHash
  <2>9. pc = "block" => IdOK(g)
    BY <2>2, <2>5, <2>6, <2>7, <2>8 DEF IdOK
  <2>10. TruthOK(g) /\ PanicOK(g)
    BY <2>7 DEF TruthOK, PanicOK, NotFound, Panic
  <2>11. pc \in {"done", "block"}
    BY <2>2
  <2>12. Reads(g) /\ Tracks(g)
    BY <2>7, <2>8, <2>9, <2>10, <2>11 DEF Reads, Tracks
  <2>13. QED
    BY <2>4, <2>7, <2>12 DEF CallOK
<1>3. QED
  BY <1>1, <1>2

LEMMA LoadTransactionsOK ==
  ASSUME ChainInv, IndexInv, CallsInv, NEW c \in Clients, LoadTransactions(c)
  PROVE  \E g : CallOK(g) /\ Goto(c, g)
<1>1. PICK h : h = call[c]
  OBVIOUS
<1>2. h.pc = "metadata"
  BY <1>1 DEF LoadTransactions
<1>3. IsHandler(h) /\ Reads(h) /\ Tracks(h)
  BY <1>1, <1>2, ReaderAt
<1>4. PICK t \in TxHashes : t = h.req.transaction
  BY <1>2, <1>3 DEF Reads
<1>5. ByHash(h) /\ h.moved \in BOOLEAN /\ h.out = {}
  BY <1>2, <1>3 DEF Reads
<1>6. CASE \E m \in load_transactions(t) :
             Goto(c, [h EXCEPT !.pc = "hashes", !.hash = m.ethereum_block_hash,
                               !.at_index = {m.ethereum_index}])
  <2>1. PICK m \in load_transactions(t) :
          Goto(c, [h EXCEPT !.pc = "hashes", !.hash = m.ethereum_block_hash,
                            !.at_index = {m.ethereum_index}])
    BY <1>6
  <2>2. PICK g : g = [h EXCEPT !.pc = "hashes", !.hash = m.ethereum_block_hash,
                               !.at_index = {m.ethereum_index}]
    OBVIOUS
  <2>3. /\ IsHandler(g) /\ g.pc = "hashes" /\ g.hash = m.ethereum_block_hash
        /\ g.at_index = {m.ethereum_index} /\ g.req = h.req /\ g.out = h.out
        /\ g.moved = h.moved /\ g.findable = h.findable
    BY <1>3, <2>2 DEF IsHandler
  <2>4. transaction_metadata[t] = {m} /\ load_transactions(t) = {m}
    BY <2>1, LoadOne
  <2>5. PICK b \in imported : \E i \in Positions(b, t) : m = MetadataAt(b, i)
    BY <2>4 DEF IndexInv
  <2>6. b \in Blocks /\ Commitment[b].block_hash \in EthHashes
    BY <2>5, ChainAssumption DEF ChainInv
  <2>7. PICK i \in Positions(b, t) : m = MetadataAt(b, i)
    BY <2>5
  <2>8. m.ethereum_block_hash = Commitment[b].block_hash /\ m.ethereum_index = i - 1
    BY <2>7 DEF MetadataAt
  <2>9. Located(g) /\ g.hash \in EthHashes
    BY <1>4, <2>3, <2>5, <2>6, <2>7, <2>8 DEF Located
  <2>10. Reads(g)
    BY <1>3, <1>4, <1>5, <2>3, <2>9 DEF Reads, ByHash
  <2>11. Tracks(g)
    <3> SUFFICES ASSUME g.findable PROVE Tracks(g)
      BY DEF Tracks
    <3>1. transaction_metadata[t] # {}
      BY <2>4
    <3>2. ~h.moved => Findable(t)
      BY <1>2, <1>3, <1>4, <2>3, <2>4 DEF Tracks, OnItsWay
    <3>3. Findable(t) => \E x \in block_hashes[g.hash] : Canonical(x)
      BY <2>3, <2>4 DEF Findable
    <3>4. QED
      BY <1>4, <2>3, <3>1, <3>2, <3>3 DEF Tracks, OnItsWay
  <2>12. QED
    BY <2>1, <2>2, <2>3, <2>10, <2>11 DEF CallOK
<1>7. CASE load_transactions(t) = {} /\ Goto(c, [h EXCEPT !.pc = "pending"])
  <2>1. PICK g : g = [h EXCEPT !.pc = "pending"]
    OBVIOUS
  <2>2. /\ IsHandler(g) /\ g.pc = "pending" /\ g.req = h.req
        /\ g.moved = h.moved /\ g.findable = h.findable
    BY <1>3, <2>1 DEF IsHandler
  <2>3. Reads(g)
    BY <1>3, <1>4, <1>5, <2>2 DEF Reads, ByHash
  <2>4. Tracks(g)
    BY <1>3, <1>4, <1>7, <2>2 DEF Tracks
  <2>5. QED
    BY <1>7, <2>1, <2>2, <2>3, <2>4 DEF CallOK
<1>8. CASE load_transactions(t) = {} /\ Done(c, NotFound)
  <2>1. CallOK(Finished(h, NotFound))
    BY <1>3, <1>4, <1>8, NothingFound
  <2>2. Goto(c, Finished(h, NotFound))
    BY <1>1, <1>8, DoneGoto
  <2>3. QED
    BY <2>1, <2>2
<1>9. QED
  BY <1>1, <1>4, <1>6, <1>7, <1>8 DEF LoadTransactions

LEMMA LookInPendingOK ==
  ASSUME ChainInv, IndexInv, CallsInv, NEW c \in Clients, LookInPending(c)
  PROVE  \E g : CallOK(g) /\ Goto(c, g)
<1>1. PICK h : h = call[c]
  OBVIOUS
<1>2. PICK a : a \in {InPending, NotFound} /\ Done(c, a)
  BY DEF LookInPending
<1>3. h.pc = "pending"
  BY <1>1 DEF LookInPending
<1>4. IsHandler(h) /\ Reads(h) /\ Tracks(h)
  BY <1>1, <1>3, ReaderAt
<1>5. h.findable => h.moved \/ load_transactions(h.req.transaction) = {}
  BY <1>3, <1>4 DEF Tracks, OnItsWay
<1>6. Finished(h, a).answer = a
  BY <1>4, FinishedFields
<1>7. a.found # "block" /\ a # Panic
  BY <1>2 DEF InPending, NotFound, Panic
<1>8. TruthOK(Finished(h, a)) /\ PanicOK(Finished(h, a))
  BY <1>6, <1>7 DEF TruthOK, PanicOK
<1>9. CallOK(Finished(h, a))
  BY <1>4, <1>5, <1>8, FinishedOK
<1>10. QED
  BY <1>1, <1>2, <1>9, DoneGoto

LEMMA ReadHashesOK ==
  ASSUME ChainInv, IndexInv, CallsInv, NEW c \in Clients, ReadHashes(c)
  PROVE  \E g : CallOK(g) /\ Goto(c, g)
<1>1. PICK h : h = call[c]
  OBVIOUS
<1>2. PICK g : g = [h EXCEPT !.pc = "canon", !.todo = block_hashes[h.hash]]
  OBVIOUS
<1>3. h.pc = "hashes" /\ Goto(c, g)
  BY <1>1, <1>2 DEF ReadHashes
<1>4. IsHandler(h) /\ Reads(h) /\ Tracks(h)
  BY <1>1, <1>3, ReaderAt
<1>5. /\ IsHandler(g) /\ g.pc = "canon" /\ g.todo = block_hashes[h.hash]
      /\ g.req = h.req /\ g.hash = h.hash /\ g.at_index = h.at_index /\ g.out = h.out
      /\ g.moved = h.moved /\ g.findable = h.findable
  BY <1>2, <1>4 DEF IsHandler
<1>6. h.hash \in EthHashes /\ h.out = {}
  BY <1>3, <1>4 DEF Reads
<1>7. g.todo \cup g.out \subseteq CommittedTo(g.hash)
  <2>1. block_hashes[h.hash] \subseteq imported
    BY <1>6 DEF IndexInv
  <2>2. QED
    BY <1>5, <1>6, <2>1 DEF IndexInv, CommittedTo
<1>8. Located(h) => Located(g)
  BY <1>5 DEF Located
<1>9. Reads(g)
  BY <1>3, <1>4, <1>5, <1>6, <1>7, <1>8 DEF Reads, ByHash
<1>10. Tracks(g)
  BY <1>3, <1>4, <1>5 DEF Tracks, OnItsWay
<1>11. QED
  BY <1>3, <1>5, <1>9, <1>10 DEF CallOK

LEMMA CheckCanonOK ==
  ASSUME ChainInv, IndexInv, CallsInv, NEW c \in Clients, CheckCanon(c)
  PROVE  \E g : CallOK(g) /\ Goto(c, g)
<1>1. PICK h : h = call[c]
  OBVIOUS
<1>2. PICK x \in h.todo :
        Goto(c, [h EXCEPT !.todo = @ \ {x}, !.out = IF is_canon(x) THEN @ \cup {x} ELSE @])
  BY <1>1 DEF CheckCanon
<1> DEFINE y == is_canon(x)
<1>3. PICK g : g = [h EXCEPT !.todo = @ \ {x}, !.out = IF y THEN @ \cup {x} ELSE @]
  OBVIOUS
<1>4. h.pc = "canon" /\ Goto(c, g)
  BY <1>1, <1>2, <1>3 DEF CheckCanon
<1>5. IsHandler(h) /\ Reads(h) /\ Tracks(h)
  BY <1>1, <1>4, ReaderAt
<1>6. /\ h.todo \cup h.out \subseteq CommittedTo(h.hash)
      /\ ~h.moved => \A b \in h.out : Canonical(b)
  BY <1>4, <1>5 DEF Reads
<1>7. y <=> Canonical(x)
  BY <1>2, <1>6 DEF is_canon, CommittedTo
<1> HIDE DEF y
<1>8. /\ IsHandler(g) /\ g.pc = "canon" /\ g.todo = h.todo \ {x}
      /\ g.out = (IF y THEN h.out \cup {x} ELSE h.out)
      /\ g.req = h.req /\ g.hash = h.hash /\ g.at_index = h.at_index
      /\ g.moved = h.moved /\ g.findable = h.findable
  BY <1>3, <1>4, <1>5 DEF IsHandler
<1>9. g.todo \cup g.out \subseteq CommittedTo(g.hash)
  BY <1>2, <1>6, <1>8
<1>10. ~g.moved => \A b \in g.out : Canonical(b)
  BY <1>6, <1>7, <1>8
<1>11. Located(h) => Located(g)
  BY <1>8 DEF Located
<1>12. Reads(g)
  BY <1>4, <1>5, <1>8, <1>9, <1>10, <1>11 DEF Reads, ByHash
<1>13. (\E b \in h.todo \cup h.out : Canonical(b)) => \E b \in g.todo \cup g.out : Canonical(b)
  BY <1>7, <1>8
<1>14. Tracks(g)
  BY <1>4, <1>5, <1>8, <1>13 DEF Tracks, OnItsWay
<1>15. QED
  BY <1>4, <1>8, <1>12, <1>14 DEF CallOK

LEMMA ChooseCanonOK ==
  ASSUME ChainInv, IndexInv, CallsInv, NEW c \in Clients, ChooseCanon(c)
  PROVE  \E g : CallOK(g) /\ Goto(c, g)
<1>1. PICK h : h = call[c]
  OBVIOUS
<1>2. h.pc = "canon" /\ h.todo = {}
  BY <1>1 DEF ChooseCanon
<1>3. IsHandler(h) /\ Reads(h) /\ Tracks(h)
  BY <1>1, <1>2, ReaderAt
<1>4. /\ h.out \subseteq CommittedTo(h.hash)
      /\ ~h.moved => \A b \in h.out : Canonical(b)
  BY <1>2, <1>3 DEF Reads
<1>5. CASE \E b \in h.out : h.out = {b} /\ Goto(c, [h EXCEPT !.pc = "block", !.id = ById(b)])
  <2>1. PICK b \in h.out : Goto(c, [h EXCEPT !.pc = "block", !.id = ById(b)])
    BY <1>5
  <2>2. PICK g : g = [h EXCEPT !.pc = "block", !.id = ById(b)]
    OBVIOUS
  <2>3. /\ IsHandler(g) /\ g.pc = "block" /\ g.id = ById(b)
        /\ g.req = h.req /\ g.hash = h.hash /\ g.at_index = h.at_index
        /\ g.moved = h.moved /\ g.findable = h.findable
    BY <1>3, <2>2 DEF IsHandler
  <2>4. g.id.tag = "Hash" /\ g.id.block = b
    BY <2>3 DEF ById
  <2>5. b \in Blocks
    BY <1>4, <2>1 DEF CommittedTo, ChainInv
  <2>6. IdOK(g)
    BY <1>4, <2>1, <2>3, <2>4, <2>5 DEF IdOK
  <2>7. Located(h) => Located(g)
    BY <2>3 DEF Located
  <2>8. Reads(g)
    BY <1>2, <1>3, <2>3, <2>6, <2>7 DEF Reads, ByHash
  <2>9. Tracks(g)
    BY <1>3, <2>3 DEF Tracks, OnItsWay
  <2>10. QED
    BY <2>1, <2>2, <2>3, <2>8, <2>9 DEF CallOK
<1>6. CASE Cardinality(h.out) # 1 /\ Done(c, NotFound)
  <2>1. ASSUME h.findable, ~h.moved, load_transactions(h.req.transaction) # {}
        PROVE  FALSE
    <3>1. PICK x \in h.out : Canonical(x)
      BY <1>2, <1>3, <2>1 DEF Tracks, OnItsWay
    <3>2. \A y \in h.out : y = x
      <4> TAKE y \in h.out
      <4>1. Canonical(y) /\ Commitment[x].block_hash = Commitment[y].block_hash
        BY <1>4, <2>1, <3>1 DEF CommittedTo
      <4>2. best \in Blocks /\ x \in Ancestors[best] /\ y \in Ancestors[best]
        BY <3>1, <4>1 DEF Canonical, ChainInv
      <4>3. QED
        BY <4>1, <4>2, OnePerChain
    <3>3. h.out = {x}
      BY <3>1, <3>2
    <3>4. QED
      BY <1>6, <3>3, FS_Singleton
  <2>2. CallOK(Finished(h, NotFound))
    BY <1>3, <2>1, NothingFound
  <2>3. QED
    BY <1>1, <1>6, <2>2, DoneGoto
<1>7. QED
  BY <1>1, <1>5, <1>6 DEF ChooseCanon

(* a block under the hash of a lookup has the transaction where it is looked for *)
LEMMA LocatedIn ==
  ASSUME ChainInv, NEW h, Located(h), NEW x \in CommittedTo(h.hash)
  PROVE  \E i \in Positions(x, h.req.transaction) : h.at_index = {i - 1}
<1>1. PICK b \in imported : \E i \in Positions(b, h.req.transaction) :
        h.hash = Commitment[b].block_hash /\ h.at_index = {i - 1}
  BY DEF Located
<1>2. x \in Blocks /\ b \in Blocks /\ Commitment[x].block_hash = Commitment[b].block_hash
  BY <1>1 DEF CommittedTo, ChainInv
<1>3. Transactions(x) = Transactions(b)
  BY <1>2, ChainAssumption
<1>4. QED
  BY <1>1, <1>3 DEF Positions, Transactions

LEMMA ReadFailsOK ==
  ASSUME ChainInv, IndexInv, CallsInv, NEW c \in Clients, ReadFails(c)
  PROVE  \E g : CallOK(g) /\ Goto(c, g)
<1>1. PICK h : h = call[c]
  OBVIOUS
<1>2. h.pc \in {"block", "statuses"} /\ (\A b \in Resolve(h.id) : MayBePruned(b))
      /\ Done(c, NotFound)
  BY <1>1 DEF ReadFails
<1>3. IsHandler(h) /\ Reads(h) /\ Tracks(h)
  BY <1>1, <1>2, ReaderAt
<1>4. h.findable => \E b \in MinedIn(h.req.transaction) : MayBePruned(b)
  <2> SUFFICES ASSUME h.findable
               PROVE  \E b \in MinedIn(h.req.transaction) : MayBePruned(b)
    OBVIOUS
  <2>1. ByHash(h) /\ Located(h) /\ IdOK(h)
    BY <1>2, <1>3 DEF Reads
  <2>2. h.id.tag = "Hash" /\ h.id.block \in CommittedTo(h.hash)
    BY <2>1 DEF IdOK
  <2>3. MayBePruned(h.id.block)
    BY <1>2, <2>2 DEF Resolve
  <2>4. Positions(h.id.block, h.req.transaction) # {}
    BY <2>1, <2>2, LocatedIn
  <2>5. QED
    BY <2>2, <2>3, <2>4 DEF MinedIn, CommittedTo
<1>5. CallOK(Finished(h, NotFound))
  BY <1>3, <1>4, NothingFound
<1>6. QED
  BY <1>1, <1>2, <1>5, DoneGoto

(* what is read at an id: the block of a hash, or a canonical block *)
LEMMA Resolved ==
  ASSUME ChainInv, NEW h, IdOK(h), NEW b \in Resolve(h.id)
  PROVE  /\ h.id.tag = "Hash" => b = h.id.block
         /\ h.id.tag # "Hash" => b \in CanonicalAt(h.id.number) /\ ~ByHash(h)
         /\ ~h.moved => Canonical(b)
         /\ ByHash(h) => b \in CommittedTo(h.hash)
BY DEF Resolve, IdOK, CanonicalAt, Canonical

LEMMA ReadBlockOK ==
  ASSUME ChainInv, IndexInv, CallsInv, NEW c \in Clients, ReadBlock(c)
  PROVE  \E g : CallOK(g) /\ Goto(c, g)
<1>1. PICK h : h = call[c]
  OBVIOUS
<1>2. PICK b \in Resolve(h.id) : \/ Goto(c, [h EXCEPT !.pc = "statuses", !.block = b])
                                  \/ Done(c, Built(b, b, {}))
  BY <1>1 DEF ReadBlock
<1>3. h.pc = "block"
  BY <1>1 DEF ReadBlock
<1>4. IsHandler(h) /\ Reads(h) /\ Tracks(h)
  BY <1>1, <1>3, ReaderAt
<1>5. IdOK(h) /\ (ByHash(h) => Located(h))
  BY <1>3, <1>4 DEF Reads
<1>6. /\ h.id.tag = "Hash" => b = h.id.block
      /\ h.id.tag # "Hash" => b \in CanonicalAt(h.id.number) /\ ~ByHash(h)
      /\ ~h.moved => Canonical(b)
      /\ ByHash(h) => b \in CommittedTo(h.hash)
  BY <1>2, <1>5, Resolved
<1>7. CASE Goto(c, [h EXCEPT !.pc = "statuses", !.block = b])
  <2>1. PICK g : g = [h EXCEPT !.pc = "statuses", !.block = b]
    OBVIOUS
  <2>2. /\ IsHandler(g) /\ g.pc = "statuses" /\ g.block = b /\ g.id = h.id
        /\ g.req = h.req /\ g.hash = h.hash /\ g.at_index = h.at_index
        /\ g.moved = h.moved /\ g.findable = h.findable
    BY <1>4, <2>1 DEF IsHandler
  <2>3. (ByHash(g) <=> ByHash(h)) /\ (Located(h) => Located(g))
    BY <2>2 DEF ByHash, Located
  <2>4. IdOK(g) /\ BlockOK(g)
    BY <1>5, <1>6, <2>2, <2>3 DEF IdOK, BlockOK
  <2>5. Reads(g)
    BY <1>4, <1>5, <2>2, <2>3, <2>4 DEF Reads
  <2>6. Tracks(g)
    BY <1>4, <2>2 DEF Tracks, OnItsWay
  <2>7. QED
    BY <1>7, <2>1, <2>2, <2>5, <2>6 DEF CallOK
<1>8. CASE Done(c, Built(b, b, {}))
  <2>1. PICK a : a = Built(b, b, {})
    OBVIOUS
  <2>2. a.found = "block" /\ a.block = b /\ a.statuses = b /\ a.at_index = {}
    BY <2>1 DEF Built
  <2>3. a # NotFound /\ a # Panic
    BY <2>2 DEF NotFound, Panic
  <2>4. PICK g : g = Finished(h, a)
    OBVIOUS
  <2>5. /\ g.answer = a /\ g.req = h.req /\ g.hash = h.hash /\ g.moved = h.moved
    BY <1>4, <2>4, FinishedFields
  <2>6. TruthOK(g) /\ PanicOK(g)
    BY <1>6, <2>2, <2>3, <2>5 DEF TruthOK, PanicOK, ByHash, CommittedTo
  <2>7. CallOK(g)
    BY <1>4, <2>3, <2>4, <2>6, FinishedOK
  <2>8. QED
    BY <1>1, <1>8, <2>1, <2>4, <2>7, DoneGoto
<1>9. QED
  BY <1>2, <1>7, <1>8

LEMMA ReadStatusesOK ==
  ASSUME ChainInv, IndexInv, CallsInv, NEW c \in Clients, ReadStatuses(c)
  PROVE  \E g : CallOK(g) /\ Goto(c, g)
<1>1. PICK h : h = call[c]
  OBVIOUS
<1>2. PICK b : b = h.block
  OBVIOUS
<1>3. PICK wanted : wanted = IF h.at_index = All THEN Indices(b) ELSE h.at_index
  OBVIOUS
<1>4. PICK s \in Resolve(h.id) :
        Done(c, IF wanted \subseteq Indices(b) \cap Indices(s)
                THEN Built(b, s, wanted) ELSE Panic)
  BY <1>1, <1>2, <1>3 DEF ReadStatuses
<1>5. h.pc = "statuses"
  BY <1>1 DEF ReadStatuses
<1>6. IsHandler(h) /\ Reads(h) /\ Tracks(h)
  BY <1>1, <1>5, ReaderAt
<1>7. IdOK(h) /\ BlockOK(h) /\ (ByHash(h) => Located(h))
  BY <1>5, <1>6 DEF Reads
<1>8. /\ h.id.tag = "Hash" => s = h.id.block
      /\ h.id.tag # "Hash" => s \in CanonicalAt(h.id.number) /\ ~ByHash(h)
      /\ ~h.moved => Canonical(s)
      /\ ByHash(h) => s \in CommittedTo(h.hash)
  BY <1>4, <1>7, Resolved
(* the two reads are of one block, unless the chain moved between reads by number *)
<1>9. /\ h.id.tag = "Hash" => s = b
      /\ ~h.moved => s = b
      /\ ByHash(h) => s = b
  <2>1. h.id.tag = "Hash" => s = b
    BY <1>2, <1>7, <1>8 DEF BlockOK
  <2>2. ASSUME h.id.tag # "Hash", ~h.moved
        PROVE  s = b
    <3>1. b \in CanonicalAt(h.id.number) /\ s \in CanonicalAt(h.id.number)
      BY <1>2, <1>7, <1>8, <2>2 DEF BlockOK
    <3>2. /\ b \in Ancestors[best] /\ s \in Ancestors[best] /\ Number[b] = Number[s]
          /\ best \in Blocks
      BY <3>1 DEF CanonicalAt, ChainInv
    <3>3. QED
      BY <3>2, OneAtHeight
  <2>3. QED
    BY <1>8, <2>1, <2>2
(* a transaction that is looked up is in its block *)
<1>10. ASSUME ByHash(h)
       PROVE  /\ wanted \subseteq Indices(b)
              /\ \A i \in wanted : Transactions(b)[i + 1] = h.req.transaction
              /\ Commitment[b].block_hash = h.hash
  <2>1. b \in CommittedTo(h.hash)
    BY <1>8, <1>9, <1>10
  <2>2. PICK i \in Positions(b, h.req.transaction) : h.at_index = {i - 1}
    BY <1>7, <1>10, <2>1, LocatedIn
  <2>3. /\ i \in DOMAIN Transactions(b) /\ Transactions(b)[i] = h.req.transaction
    BY <2>2 DEF Positions, Transactions
  <2>4. b \in Blocks /\ i \in Nat
    BY <2>1, <2>2, PositionsFinite DEF CommittedTo, ChainInv
  <2>5. i - 1 \in Indices(b)
    BY <2>3 DEF Indices
  <2>6. h.at_index # All
    BY <2>2, <2>4, <2>5, RequestAssumption
  <2>7. wanted = {i - 1} /\ (i - 1) + 1 = i
    BY <1>3, <2>2, <2>4, <2>6
  <2>8. QED
    BY <2>1, <2>3, <2>5, <2>7 DEF CommittedTo
<1>11. CASE wanted \subseteq Indices(b) \cap Indices(s) /\ Done(c, Built(b, s, wanted))
  <2>1. PICK a : a = Built(b, s, wanted)
    OBVIOUS
  <2>2. a.found = "block" /\ a.block = b /\ a.statuses = s /\ a.at_index = wanted
    BY <2>1 DEF Built
  <2>3. a # NotFound /\ a # Panic
    BY <2>2 DEF NotFound, Panic
  <2>4. PICK g : g = Finished(h, a)
    OBVIOUS
  <2>5. g.answer = a /\ g.req = h.req /\ g.hash = h.hash /\ g.moved = h.moved
    BY <1>6, <2>4, FinishedFields
  <2>6. ByHash(g) <=> ByHash(h)
    BY <2>5 DEF ByHash
  <2>7. ByHash(g) => /\ \A i \in wanted : Transactions(b)[i + 1] = g.req.transaction
                     /\ Commitment[b].block_hash = g.hash
    BY <1>10, <2>5, <2>6
  <2>8. ~g.moved => Canonical(b) /\ s = b
    BY <1>8, <1>9, <2>5
  <2>9. TruthOK(g)
    BY <2>2, <2>5, <2>7, <2>8 DEF TruthOK
  <2>10. PanicOK(g)
    BY <2>3, <2>5 DEF PanicOK
  <2>11. CallOK(g)
    BY <1>6, <2>3, <2>4, <2>9, <2>10, FinishedOK
  <2>12. QED
    BY <1>1, <1>11, <2>1, <2>4, <2>11, DoneGoto
<1>12. CASE ~(wanted \subseteq Indices(b) \cap Indices(s)) /\ Done(c, Panic)
  <2>1. PICK g : g = Finished(h, Panic)
    OBVIOUS
  <2>2. /\ g.answer = Panic /\ g.req = h.req /\ g.hash = h.hash /\ g.moved = h.moved
        /\ g.id = h.id /\ g.at_index = h.at_index
    BY <1>6, <2>1, FinishedFields
  <2>3. Panic.found # "block" /\ Panic # NotFound
    BY DEF Panic, NotFound
  <2>4. TruthOK(g)
    BY <2>2, <2>3 DEF TruthOK
  <2>5. ~ByHash(h)
    BY <1>9, <1>10, <1>12
  <2>6. h.at_index = All => h.moved /\ h.id.tag = "Number"
    BY <1>3, <1>7, <1>9, <1>12 DEF IdOK
  <2>7. PanicOK(g)
    BY <2>2, <2>5, <2>6 DEF PanicOK, ByHash
  <2>8. CallOK(g)
    BY <1>6, <2>1, <2>3, <2>4, <2>7, FinishedOK
  <2>9. QED
    BY <1>1, <1>12, <2>1, <2>8, DoneGoto
<1>13. QED
  BY <1>4, <1>11, <1>12

LEMMA IdleOK ==
  ASSUME NEW c \in Clients, Goto(c, Idle)
  PROVE  \E g : CallOK(g) /\ Goto(c, g)
BY DEF CallOK

LEMMA StartSendOK ==
  ASSUME NEW c \in Clients, NEW t \in SendTxs, StartSend(c, t)
  PROVE  \E g : CallOK(g) /\ Goto(c, g)
<1>1. PICK g : g = [Handler(LookupOf("send_transaction", t), "number", None) EXCEPT !.block = best]
  OBVIOUS
<1>2. Goto(c, g)
  BY <1>1 DEF StartSend
<1>3. IsHandler(g) /\ g.pc = "number" /\ g.req = LookupOf("send_transaction", t)
  BY <1>1 DEF Handler, IsHandler
<1>4. g.req.transaction = t
  BY <1>3 DEF LookupOf
<1>5. QED
  BY <1>2, <1>3, <1>4 DEF CallOK, Sends

LEMMA SenderAt ==
  ASSUME CallsInv, NEW c \in Clients, call[c].pc \in {"number", "submit", "insert"}
  PROVE  IsHandler(call[c]) /\ Sends(call[c])
<1>1. CallOK(call[c])
  BY DEF CallsInv
<1>2. QED
  BY <1>1 DEF CallOK, Idle, Reads

LEMMA ReadNumberOK ==
  ASSUME ChainInv, CallsInv, NEW c \in Clients, ReadNumber(c)
  PROVE  \E g : CallOK(g) /\ Goto(c, g)
<1>1. PICK h : h = call[c]
  OBVIOUS
<1>2. PICK g : g = [h EXCEPT !.pc = "submit", !.number = Number[best]]
  OBVIOUS
<1>3. h.pc = "number" /\ Goto(c, g)
  BY <1>1, <1>2 DEF ReadNumber
<1>4. IsHandler(h) /\ Sends(h)
  BY <1>1, <1>3, SenderAt
<1>5. Number[best] \in Nat
  BY TreeAssumption DEF ChainInv
<1>6. IsHandler(g) /\ g.pc = "submit" /\ g.number = Number[best] /\ g.req = h.req
  BY <1>2, <1>4 DEF IsHandler
<1>7. QED
  BY <1>3, <1>4, <1>5, <1>6 DEF CallOK, Sends

LEMMA SubmitOK ==
  ASSUME CallsInv, NEW c \in Clients, Submit(c)
  PROVE  \E g : CallOK(g) /\ Goto(c, g)
<1>1. PICK h : h = call[c]
  OBVIOUS
<1>2. PICK g : g = [h EXCEPT !.pc = "insert"]
  OBVIOUS
<1>3. h.pc = "submit" /\ (Goto(c, g) \/ Goto(c, Idle))
  BY <1>1, <1>2 DEF Submit
<1>4. IsHandler(h) /\ Sends(h)
  BY <1>1, <1>3, SenderAt
<1>5. IsHandler(g) /\ g.pc = "insert" /\ g.number = h.number /\ g.req = h.req
  BY <1>2, <1>4 DEF IsHandler
<1>6. CallOK(g)
  BY <1>3, <1>4, <1>5 DEF CallOK, Sends
<1>7. QED
  BY <1>3, <1>6, IdleOK

-----------------------------------------------------------------------------
LEMMA GotoInv ==
  ASSUME RpcInv, NEW c \in Clients, \E g : CallOK(g) /\ Goto(c, g)
  PROVE  RpcInv'
<1>1. PICK g : CallOK(g) /\ Goto(c, g)
  OBVIOUS
<1>2. /\ call' = [call EXCEPT ![c] = g]
      /\ UNCHANGED <<imported, best, notes, index, pending, handled, accepted>>
  BY <1>1 DEF Goto, chainVars
<1>3. CallsInv' /\ IndexInv' /\ ChainInv'
  BY <1>1, <1>2, CallsStep DEF RpcInv
<1>4. PendingInv'
  BY <1>2, PendingKept DEF RpcInv
<1>5. QED
  BY <1>3, <1>4 DEF RpcInv

LEMMA InsertInv ==
  ASSUME RpcInv, NEW c \in Clients, InsertPending(c)
  PROVE  RpcInv'
<1>1. /\ call[c].pc = "insert" /\ call' = [call EXCEPT ![c] = Idle]
      /\ UNCHANGED <<imported, best, notes, index>>
  BY DEF InsertPending, chainVars
<1>2. call[c].number \in Nat /\ call[c].req.transaction \in SendTxs
  BY <1>1, SenderAt DEF RpcInv, Sends
<1>3. PendingInv'
  BY <1>2, PendingInserted DEF RpcInv
<1>4. CallOK(Idle)
  BY DEF CallOK
<1>5. PICK g : g = Idle
  OBVIOUS
<1>6. CallsInv' /\ IndexInv' /\ ChainInv'
  BY <1>1, <1>4, <1>5, CallsStep DEF RpcInv
<1>7. QED
  BY <1>3, <1>6 DEF RpcInv

(* nothing that the handlers read or keep changes *)
LEMMA StillInv ==
  ASSUME RpcInv, UNCHANGED <<imported, best, notes, index, call>>
  PROVE  ChainInv' /\ IndexInv' /\ CallsInv'
<1>1. ChainInv' /\ IndexInv'
  BY DEF RpcInv, ChainInv, IndexInv, index
<1>2. Grown
  <2>1. Number[best] \in Nat
    BY TreeAssumption DEF RpcInv, ChainInv
  <2>2. QED
    BY <2>1 DEF Grown, index
<1>3. ASSUME NEW c \in Clients
      PROVE  CallOK(call[c])'
  <2>1. PICK h : h = call[c]
    OBVIOUS
  <2>2. CallOK(h) /\ h = call'[c]
    BY <2>1 DEF RpcInv, CallsInv
  <2>3. CallOK(h)'
    BY <1>1, <1>2, <2>2, CallKept DEF RpcInv
  <2>4. QED
    BY <2>2, <2>3
<1>4. QED
  BY <1>1, <1>3 DEF RpcInv, CallsInv

LEMMA HandleInv ==
  ASSUME RpcInv, HandleNotification
  PROVE  RpcInv'
<1>1. UNCHANGED <<imported, best, notes, index, call>>
  BY DEF HandleNotification, chainVars
<1>2. QED
  BY <1>1, PendingHandled, StillInv DEF RpcInv

LEMMA HandlerInv ==
  ASSUME RpcInv, NEW c \in Clients, Lookup(c) \/ Send(c)
  PROVE  RpcInv'
<1> USE DEF RpcInv
<1>1. CASE \E r \in Requests : StartLookup(c, r) \/ StartAtBlock(c, r)
  BY <1>1, StartLookupOK, StartAtBlockOK, GotoInv
<1>2. CASE LoadTransactions(c)
  BY <1>2, LoadTransactionsOK, GotoInv
<1>3. CASE LookInPending(c)
  BY <1>3, LookInPendingOK, GotoInv
<1>4. CASE ReadHashes(c)
  BY <1>4, ReadHashesOK, GotoInv
<1>5. CASE CheckCanon(c)
  BY <1>5, CheckCanonOK, GotoInv
<1>6. CASE ChooseCanon(c)
  BY <1>6, ChooseCanonOK, GotoInv
<1>7. CASE ReadFails(c)
  BY <1>7, ReadFailsOK, GotoInv
<1>8. CASE ReadBlock(c)
  BY <1>8, ReadBlockOK, GotoInv
<1>9. CASE ReadStatuses(c)
  BY <1>9, ReadStatusesOK, GotoInv
<1>10. CASE Return(c)
  BY <1>10, IdleOK, GotoInv DEF Return
<1>11. CASE \E t \in SendTxs : StartSend(c, t)
  BY <1>11, StartSendOK, GotoInv
<1>12. CASE ReadNumber(c)
  BY <1>12, ReadNumberOK, GotoInv
<1>13. CASE Submit(c)
  BY <1>13, SubmitOK, GotoInv
<1>14. CASE InsertPending(c)
  BY <1>14, InsertInv
<1>15. QED
  BY <1>1, <1>2, <1>3, <1>4, <1>5, <1>6, <1>7, <1>8, <1>9, <1>10, <1>11, <1>12,
     <1>13, <1>14 DEF Lookup, Send

LEMMA RpcInit == InitRpc => RpcInv
<1> SUFFICES ASSUME InitRpc PROVE RpcInv
  OBVIOUS
<1>1. ChainInv
  <2>1. /\ imported = {Genesis} /\ best = Genesis /\ notes = <<>> /\ Genesis \in Blocks
        /\ Ancestors[Genesis] = {Genesis} /\ Number[Genesis] \in Nat
    BY ChainAssumption, TreeAssumption DEF InitRpc, InitChain, InitIndex
  <2>2. <<>> \in Seq([block : imported, is_new_best : BOOLEAN])
    OBVIOUS
  <2>3. QED
    BY <2>1, <2>2 DEF ChainInv
<1>2. IndexInv
  BY FS_EmptySet DEF InitRpc, InitChain, InitIndex, IndexInv
<1>3. PendingInv
  BY DEF InitRpc, PendingInv, AcceptedTracked
<1>4. CallsInv
  BY DEF InitRpc, CallsInv, CallOK
<1>5. QED
  BY <1>1, <1>2, <1>3, <1>4 DEF RpcInv

LEMMA RpcNext == RpcInv /\ [NextRpc]_rpcAll => RpcInv'
<1> SUFFICES ASSUME RpcInv, [NextRpc]_rpcAll PROVE RpcInv'
  OBVIOUS
<1>1. CASE \E b \in Blocks : RpcImport(b)
  <2>1. PICK b \in Blocks : RpcImport(b)
    BY <1>1
  <2>2. ChainInv' /\ imported \subseteq imported' /\ UNCHANGED index
    BY <2>1, ImportGrows DEF RpcInv, RpcImport
  <2>3. QED
    BY <2>1, <2>2, ImportIndex, PendingImport, CallsImport DEF RpcInv
<1>2. CASE \E b \in Blocks : RpcIndex(b)
  <2>1. PICK b \in Blocks : RpcIndex(b)
    BY <1>2
  <2>2. UNCHANGED <<imported, best, pending, handled, accepted>>
    BY <2>1 DEF RpcIndex, rpcVars, IndexBlock
  <2>3. PendingInv'
    BY <2>2, PendingKept DEF RpcInv
  <2>4. QED
    BY <2>1, <2>3, CallsIndex DEF RpcInv
<1>3. CASE HandleNotification
  BY <1>3, HandleInv
<1>4. CASE \E c \in Clients : Lookup(c) \/ Send(c)
  BY <1>4, HandlerInv
<1>5. CASE UNCHANGED rpcAll
  <2>1. UNCHANGED <<imported, best, notes, index, pending, handled, accepted, call>>
    BY <1>5 DEF rpcAll, chainVars, rpcVars
  <2>2. PendingInv'
    BY <2>1, PendingKept DEF RpcInv
  <2>3. QED
    BY <2>1, <2>2, StillInv DEF RpcInv
<1>6. QED
  BY <1>1, <1>2, <1>3, <1>4, <1>5 DEF NextRpc

LEMMA RpcInductive == SpecRpc => []RpcInv
BY RpcInit, RpcNext, PTL DEF SpecRpc

-----------------------------------------------------------------------------
(* An accepted transaction stays in the pending map until a block with it  *)
(* is imported or its lifespan is over (pending_transaction_task), however *)
(* senders, imports and the task interleave.                               *)
THEOREM AcceptedTrackedAlways == SpecRpc => []AcceptedTracked
<1>1. RpcInv => AcceptedTracked
  BY DEF RpcInv, PendingInv
<1>2. QED
  BY <1>1, RpcInductive, PTL

(* Handlers answer from one block, which has what they were asked for and  *)
(* is canonical, unless a reorganisation comes between their reads         *)
(* (load_hash, rich_block_build, transaction_build).                       *)
THEOREM LookupTruthfulAlways == SpecRpc => []LookupTruthful
<1>1. RpcInv => LookupTruthful
  <2> SUFFICES ASSUME RpcInv, NEW c \in Clients, call[c].pc = "done" PROVE TruthOK(call[c])
    BY DEF LookupTruthful, Answered, TruthOK, ByHash
  <2>1. QED
    BY ReaderAt DEF RpcInv, Reads
<1>2. QED
  BY <1>1, RpcInductive, PTL

(* No lookup indexes past the end of the transactions or statuses it read, *)
(* but by a client's own index or between two reads by number that a       *)
(* reorganisation separates (transaction_build, transaction_receipt).      *)
THEOREM NoPanicAlways == SpecRpc => []NoPanic
<1>1. RpcInv => NoPanic
  <2> SUFFICES ASSUME RpcInv, NEW c \in Clients, call[c].pc = "done" PROVE PanicOK(call[c])
    BY DEF NoPanic, Answered, PanicOK, ByHash
  <2>1. QED
    BY ReaderAt DEF RpcInv, Reads
<1>2. QED
  BY <1>1, RpcInductive, PTL

(* A transaction that the index had when the request came is found, but    *)
(* for a reorganisation, a second block with it or a pruned state          *)
(* (transaction_by_hash, transaction_receipt).                             *)
THEOREM FindableIsFoundAlways == SpecRpc => []FindableIsFound
<1>1. RpcInv => FindableIsFound
  <2> SUFFICES ASSUME RpcInv, NEW c \in Clients, call[c].pc = "done",
                      call[c].findable, call[c].answer = NotFound
               PROVE  \/ call[c].moved
                      \/ load_transactions(call[c].req.transaction) = {}
                      \/ \E b \in MinedIn(call[c].req.transaction) : MayBePruned(b)
    BY DEF FindableIsFound, Answered
  <2>1. Tracks(call[c])
    BY ReaderAt DEF RpcInv
  <2>2. QED
    BY <2>1 DEF Tracks, OnItsWay
<1>2. QED
  BY <1>1, RpcInductive, PTL

-----------------------------------------------------------------------------
(* The subscriptions.  Note k announces a new best block. *)
IsHead(k) == k \in DOMAIN notes /\ notes[k].is_new_best

(* u came silently, or was announced as best after note i and before j *)
CameBetween(u, i, j) ==
  \/ u \in Silent
  \/ \E k \in DOMAIN notes : i < k /\ k < j /\ IsHead(k) /\ notes[k].block = u

(* New best blocks grow, and what the chain has above one of them, or had  *)
(* when a later one was announced, was reached after it.                   *)
HeadsGrow ==
  \A i, j \in DOMAIN notes : i < j /\ IsHead(i) /\ IsHead(j) =>
    Number[notes[i].block] < Number[notes[j].block]

ReachedSince ==
  \A i \in DOMAIN notes : IsHead(i) =>
    \A z \in imported : Number[notes[i].block] < Number[z] =>
      \E u \in imported : Number[z] <= Number[u] /\ CameBetween(u, i, Len(notes) + 1)

ReachedBefore ==
  \A i, j \in DOMAIN notes : i < j /\ IsHead(i) /\ IsHead(j) =>
    \A z \in Ancestors[notes[j].block] \ {notes[j].block} :
      Number[notes[i].block] < Number[z] =>
        \E u \in imported : /\ Number[z] <= Number[u]
                            /\ Number[u] < Number[notes[j].block]
                            /\ CameBetween(u, i, j)

NotesInv == HeadsGrow /\ ReachedSince /\ ReachedBefore

(* the heads between notes j and k lost their state *)
Passed(j, k) ==
  /\ j < k
  /\ \A l \in DOMAIN notes : j < l /\ l < k /\ IsHead(l) => MayBePruned(notes[l].block)

HeadsOK(p, next) ==
  /\ p \in Seq(Blocks)
  /\ \A i \in 1..Len(p) - 1 :
       \E j, k \in DOMAIN notes : /\ IsHead(j) /\ notes[j].block = p[i]
                                  /\ IsHead(k) /\ notes[k].block = p[i + 1]
                                  /\ Passed(j, k)
  /\ p # <<>> => \E j \in DOMAIN notes : /\ IsHead(j) /\ notes[j].block = p[Len(p)]
                                         /\ Passed(j, next)

AlternatesOK(x) ==
  /\ x.since \in BOOLEAN
  /\ x.pushed \in Seq(BOOLEAN)
  /\ \A i \in DOMAIN x.pushed : x.pushed[i] = (IF i % 2 = 1 THEN ~x.since ELSE x.since)
  /\ x.previous_syncing = (IF Len(x.pushed) % 2 = 1 THEN ~x.since ELSE x.since)

SubOK(x) ==
  /\ DOMAIN x = {"kind", "next", "pushed", "previous_syncing", "since"}
  /\ x.next \in Nat \ {0} /\ x.next <= Len(notes) + 1
  /\ x.kind \in {"logs", "newHeads"} => HeadsOK(x.pushed, x.next)
  /\ x.kind = "syncing" => AlternatesOK(x)

SubsInv ==
  /\ syncing \in BOOLEAN
  /\ DOMAIN sub = Subs
  /\ \A s \in Subs : sub[s] = Off \/ SubOK(sub[s])

PubsubInv == ChainInv /\ NotesInv /\ SubsInv

LEMMA NoteType ==
  ASSUME ChainInv
  PROVE  /\ Len(notes) \in Nat /\ DOMAIN notes = 1..Len(notes)
         /\ \A k \in DOMAIN notes : notes[k].block \in imported /\ notes[k].block \in Blocks
                                    /\ notes[k].is_new_best \in BOOLEAN
<1> DEFINE S == [block : imported, is_new_best : BOOLEAN]
<1>1. \A x \in S : x.block \in imported /\ x.is_new_best \in BOOLEAN
  OBVIOUS
<1>2. notes \in Seq(S)
  BY DEF ChainInv
<1> HIDE DEF S
<1>3. \A k \in DOMAIN notes : notes[k] \in S
  BY <1>2
<1>4. Len(notes) \in Nat /\ DOMAIN notes = 1..Len(notes)
  BY <1>2
<1>5. QED
  BY <1>1, <1>3, <1>4 DEF ChainInv

(* an import adds at most one note, at the end *)
LEMMA NotesAppended ==
  ASSUME ChainInv, NEW b \in Blocks, ImportBlock(b)
  PROVE  /\ \A k \in DOMAIN notes : k \in DOMAIN notes' /\ notes'[k] = notes[k]
         /\ Len(notes) <= Len(notes')
         /\ b \in Silent => notes' = notes
         /\ b \notin Silent =>
              /\ Len(notes') = Len(notes) + 1
              /\ DOMAIN notes' = DOMAIN notes \cup {Len(notes) + 1}
              /\ notes'[Len(notes) + 1].block = b
              /\ notes'[Len(notes) + 1].is_new_best <=> Number[b] > Number[best]
<1> DEFINE n == [block |-> b, is_new_best |-> Number[b] > Number[best]]
           T == [block : Blocks, is_new_best : BOOLEAN]
<1>1. notes' = IF b \in Silent THEN notes ELSE Append(notes, n)
  BY DEF ImportBlock
<1>2. n.block = b /\ (n.is_new_best <=> Number[b] > Number[best]) /\ n \in T
  <2>1. n.is_new_best = (Number[b] > Number[best])
    OBVIOUS
  <2>2. (Number[b] > Number[best]) \in BOOLEAN
    OBVIOUS
  <2>3. n.block = b /\ n \in T
    BY <2>2
  <2> HIDE DEF n
  <2>4. QED
    BY <2>1, <2>3
<1>3. notes \in Seq(T)
  <2> DEFINE S == [block : imported, is_new_best : BOOLEAN]
  <2>1. S \subseteq T /\ notes \in Seq(S)
    BY DEF ChainInv
  <2> HIDE DEF S, T
  <2>2. QED
    BY <2>1, WidenSeq
<1> HIDE DEF n, T
<1>4. Len(notes) \in Nat /\ DOMAIN notes = 1..Len(notes)
  BY <1>3
<1>5. CASE b \in Silent
  <2>1. notes' = notes
    BY <1>1, <1>5
  <2>2. Len(notes) <= Len(notes')
    BY <1>4, <2>1
  <2>3. QED
    BY <1>5, <2>1, <2>2
<1>6. CASE b \notin Silent
  <2>1. notes' = Append(notes, n)
    BY <1>1, <1>6
  <2>2. /\ notes' \in Seq(T) /\ Len(notes') = Len(notes) + 1
        /\ \A i \in 1..Len(notes) : notes'[i] = notes[i]
        /\ notes'[Len(notes) + 1] = n
    BY <1>2, <1>3, <2>1, AppendSeq
  <2>3. DOMAIN notes' = 1..Len(notes) + 1
    BY <2>2
  <2>4. QED
    BY <1>2, <1>4, <1>6, <2>2, <2>3
<1>7. QED
  BY <1>5, <1>6

LEMMA NotesInvImport ==
  ASSUME ChainInv, NotesInv, NEW b \in Blocks, ImportBlock(b)
  PROVE  NotesInv'
<1>1. /\ \A k \in DOMAIN notes : k \in DOMAIN notes' /\ notes'[k] = notes[k]
      /\ Len(notes) <= Len(notes')
      /\ b \in Silent => notes' = notes
      /\ b \notin Silent =>
           /\ Len(notes') = Len(notes) + 1
           /\ DOMAIN notes' = DOMAIN notes \cup {Len(notes) + 1}
           /\ notes'[Len(notes) + 1].block = b
           /\ notes'[Len(notes) + 1].is_new_best <=> Number[b] > Number[best]
  BY NotesAppended
<1>2. /\ ChainInv' /\ imported' = imported \cup {b}
      /\ Number[best] \in Nat /\ Number[best'] \in Nat /\ Number[best] <= Number[best']
  BY ImportGrows
<1>3. /\ Len(notes) \in Nat /\ DOMAIN notes = 1..Len(notes)
      /\ \A k \in DOMAIN notes : notes[k].block \in imported /\ notes[k].block \in Blocks
  BY NoteType
<1>4. \A z \in Blocks : Number[z] \in Nat
  BY TreeAssumption
<1>5. \A z \in imported : Number[z] <= Number[best] /\ z \in Blocks /\ Ancestors[z] \subseteq imported
  BY DEF ChainInv
<1>6. \A k \in DOMAIN notes : IsHead(k)' <=> IsHead(k)
  BY <1>1 DEF IsHead
<1>7. \A k \in DOMAIN notes' \ DOMAIN notes :
        k = Len(notes) + 1 /\ notes'[k].block = b /\ b \notin Silent /\ Len(notes') = k
        /\ (IsHead(k)' <=> Number[b] > Number[best])
  BY <1>1 DEF IsHead
<1>8. \A u, i, j : CameBetween(u, i, j) => CameBetween(u, i, j)'
  BY <1>1, <1>6 DEF CameBetween
<1>13. Len(notes') \in Nat
  BY <1>1, <1>3
<1>9. HeadsGrow'
  <2> SUFFICES ASSUME NEW i \in DOMAIN notes', NEW j \in DOMAIN notes', i < j,
                      IsHead(i)', IsHead(j)'
               PROVE  Number[notes'[i].block] < Number[notes'[j].block]
    BY DEF HeadsGrow
  <2>1. CASE j \in DOMAIN notes
    <3>1. i \in DOMAIN notes
      BY <1>3, <1>7, <2>1
    <3>2. QED
      BY <1>1, <1>6, <2>1, <3>1 DEF NotesInv, HeadsGrow
  <2>2. CASE j \notin DOMAIN notes
    <3>1. i \in DOMAIN notes
      BY <1>7, <2>2
    <3>2. notes'[i].block = notes[i].block /\ notes[i].block \in imported
      BY <1>1, <1>3, <3>1
    <3>3. notes'[j].block = b /\ Number[b] > Number[best]
      BY <1>7, <2>2
    <3>4. QED
      BY <1>2, <1>4, <1>5, <3>2, <3>3
  <2>3. QED
    BY <2>1, <2>2
<1>10. ReachedSince'
  <2> SUFFICES ASSUME NEW i \in DOMAIN notes', IsHead(i)', NEW z \in imported',
                      Number[notes'[i].block] < Number[z]
               PROVE  \E u \in imported' : Number[z] <= Number[u]
                                           /\ CameBetween(u, i, Len(notes) + 1)'
    BY DEF ReachedSince
  <2>0. z \in Blocks /\ Number[z] \in Nat
    BY <1>2, <1>4, <1>5
  <2>1. i \in DOMAIN notes /\ notes'[i].block = notes[i].block /\ IsHead(i)
    <3>1. CASE i \notin DOMAIN notes
      <4>1. notes'[i].block = b /\ Number[b] > Number[best]
        BY <1>7, <3>1
      <4>2. best' = b
        BY <4>1 DEF ImportBlock
      <4>3. Number[z] <= Number[b]
        BY <1>2, <4>2 DEF ChainInv
      <4>4. FALSE
        BY <1>4, <2>0, <4>1, <4>3
      <4>5. QED
        BY <4>4
    <3>2. QED
      BY <1>1, <1>6, <3>1
  <2>2. \A x \in imported : Number[notes[i].block] < Number[x] =>
          \E u \in imported : Number[x] <= Number[u] /\ CameBetween(u, i, Len(notes) + 1)
    BY <2>1 DEF NotesInv, ReachedSince
  <2>3. \A u : CameBetween(u, i, Len(notes) + 1) => CameBetween(u, i, Len(notes) + 1)'
    <3> SUFFICES ASSUME NEW u, CameBetween(u, i, Len(notes) + 1)
                 PROVE  CameBetween(u, i, Len(notes) + 1)'
      OBVIOUS
    <3>1. CASE u \in Silent
      BY <3>1 DEF CameBetween
    <3>2. CASE \E k \in DOMAIN notes : i < k /\ k < Len(notes) + 1 /\ IsHead(k)
                                       /\ notes[k].block = u
      <4>1. PICK k \in DOMAIN notes : i < k /\ IsHead(k) /\ notes[k].block = u
        BY <3>2
      <4>2. k \in DOMAIN notes' /\ IsHead(k)' /\ notes'[k].block = u
        BY <1>1, <1>6, <4>1
      <4>3. k < Len(notes') + 1
        BY <1>1, <1>3, <1>13, <4>1
      <4>4. QED
        BY <4>1, <4>2, <4>3 DEF CameBetween
    <3>3. QED
      BY <3>1, <3>2 DEF CameBetween
  <2>4. CASE z \in imported
    BY <1>2, <2>1, <2>2, <2>3, <2>4
  <2>5. CASE z = b /\ Number[b] > Number[best]
    <3>1. CameBetween(b, i, Len(notes) + 1)'
      <4>1. CASE b \in Silent
        BY <4>1 DEF CameBetween
      <4>2. CASE b \notin Silent
        <5>0. PICK k : k = Len(notes) + 1
          OBVIOUS
        <5>1. k \in DOMAIN notes' /\ IsHead(k)' /\ notes'[k].block = b
          BY <1>1, <2>5, <4>2, <5>0 DEF IsHead
        <5>2. i < k /\ k < Len(notes') + 1
          BY <1>1, <1>3, <2>1, <4>2, <5>0
        <5>3. QED
          BY <5>1, <5>2 DEF CameBetween
      <4>3. QED
        BY <4>1, <4>2
    <3>2. QED
      BY <1>2, <2>0, <2>5, <3>1
  <2>6. CASE z = b /\ ~(Number[b] > Number[best])
    <3>1. Number[notes[i].block] < Number[best] /\ Number[z] <= Number[best]
      <4>1. Number[notes[i].block] \in Nat
        BY <1>3, <1>4, <2>1
      <4>2. QED
        BY <1>2, <2>0, <2>1, <2>6, <4>1
    <3>2. best \in imported
      BY DEF ChainInv
    <3>3. PICK u \in imported : Number[best] <= Number[u] /\ CameBetween(u, i, Len(notes) + 1)
      BY <2>2, <3>1, <3>2
    <3>4. Number[z] <= Number[u]
      BY <1>2, <1>4, <1>5, <2>0, <3>1, <3>3
    <3>5. QED
      BY <1>2, <2>3, <3>3, <3>4
  <2>7. QED
    BY <1>2, <2>4, <2>5, <2>6
<1>11. ReachedBefore'
  <2> SUFFICES ASSUME NEW i \in DOMAIN notes', NEW j \in DOMAIN notes', i < j,
                      IsHead(i)', IsHead(j)',
                      NEW z \in Ancestors[notes'[j].block] \ {notes'[j].block},
                      Number[notes'[i].block] < Number[z]
               PROVE  \E u \in imported' : /\ Number[z] <= Number[u]
                                           /\ Number[u] < Number[notes'[j].block]
                                           /\ CameBetween(u, i, j)'
    BY DEF ReachedBefore
  <2>1. CASE j \in DOMAIN notes
    <3>1. i \in DOMAIN notes
      BY <1>3, <1>7, <2>1
    <3>2. /\ IsHead(i) /\ IsHead(j) /\ notes'[i].block = notes[i].block
          /\ notes'[j].block = notes[j].block
      BY <1>1, <1>6, <2>1, <3>1
    <3>3. PICK u \in imported : /\ Number[z] <= Number[u]
                                /\ Number[u] < Number[notes[j].block]
                                /\ CameBetween(u, i, j)
      BY <2>1, <3>1, <3>2 DEF NotesInv, ReachedBefore
    <3>4. QED
      BY <1>2, <1>8, <3>2, <3>3
  <2>2. CASE j \notin DOMAIN notes
    <3>1. i \in DOMAIN notes
      BY <1>7, <2>2
    <3>2. /\ j = Len(notes) + 1 /\ notes'[j].block = b /\ Number[b] > Number[best]
          /\ IsHead(i) /\ notes'[i].block = notes[i].block
      BY <1>1, <1>6, <1>7, <2>2, <3>1
    <3>3. z \in imported
      <4>1. Ancestors[b] \subseteq imported'
        BY <1>2 DEF ChainInv
      <4>2. QED
        BY <1>2, <3>2, <4>1
    <3>4. PICK u \in imported : Number[z] <= Number[u] /\ CameBetween(u, i, Len(notes) + 1)
      BY <3>1, <3>2, <3>3 DEF NotesInv, ReachedSince
    <3>5. Number[u] < Number[b]
      BY <1>2, <1>4, <1>5, <3>2, <3>4
    <3>6. QED
      BY <1>2, <1>8, <3>2, <3>4, <3>5
  <2>3. QED
    BY <2>1, <2>2
<1>12. QED
  BY <1>9, <1>10, <1>11 DEF NotesInv

LEMMA SubKept ==
  ASSUME ChainInv, NEW b \in Blocks, ImportBlock(b), NEW x, SubOK(x)
  PROVE  SubOK(x)'
<1>1. /\ \A k \in DOMAIN notes : k \in DOMAIN notes' /\ notes'[k] = notes[k]
      /\ Len(notes) <= Len(notes')
      /\ \A k \in DOMAIN notes' \ DOMAIN notes : k = Len(notes) + 1
  BY NotesAppended
<1>2. ChainInv' /\ Number[best] <= Number[best']
  BY ImportGrows
<1>3. /\ Len(notes) \in Nat /\ DOMAIN notes = 1..Len(notes)
      /\ \A k \in DOMAIN notes : notes[k].block \in Blocks
  BY NoteType
<1>4. Len(notes') \in Nat
  BY <1>1, NotesAppended, <1>3
<1>5. \A k \in DOMAIN notes : IsHead(k)' <=> IsHead(k)
  BY <1>1 DEF IsHead
<1>6. ASSUME NEW j, NEW k \in Nat, k <= Len(notes) + 1, Passed(j, k)
      PROVE  Passed(j, k)'
  <2> SUFFICES ASSUME NEW l \in DOMAIN notes', j < l, l < k, IsHead(l)'
               PROVE  MayBePruned(notes[l].block)'
    BY <1>6 DEF Passed
  <2>1. l \in DOMAIN notes
    BY <1>1, <1>3, <1>6
  <2>2. MayBePruned(notes[l].block) /\ notes'[l].block = notes[l].block
    BY <1>1, <1>5, <1>6, <2>1 DEF Passed
  <2>3. PICK y \in Blocks : y = notes[l].block /\ y = notes'[l].block
    BY <1>3, <2>1, <2>2
  <2>4. MayBePruned(y)'
    BY <1>2, <2>2, <2>3, PrunedStays
  <2>5. QED
    BY <2>3, <2>4
<1>7. x.next \in Nat \ {0} /\ x.next <= Len(notes) + 1
  BY DEF SubOK
<1>8. HeadsOK(x.pushed, x.next) => HeadsOK(x.pushed, x.next)'
  <2> SUFFICES ASSUME HeadsOK(x.pushed, x.next) PROVE HeadsOK(x.pushed, x.next)'
    OBVIOUS
  <2>1. ASSUME NEW i \in 1..Len(x.pushed) - 1
        PROVE  \E j, k \in DOMAIN notes' : /\ IsHead(j)' /\ notes'[j].block = x.pushed[i]
                                           /\ IsHead(k)' /\ notes'[k].block = x.pushed[i + 1]
                                           /\ Passed(j, k)'
    <3>1. PICK j \in DOMAIN notes, k \in DOMAIN notes :
            /\ IsHead(j) /\ notes[j].block = x.pushed[i]
            /\ IsHead(k) /\ notes[k].block = x.pushed[i + 1]
            /\ Passed(j, k)
      BY <2>1 DEF HeadsOK
    <3>2. k \in Nat /\ k <= Len(notes) + 1
      BY <1>3
    <3>3. QED
      BY <1>1, <1>5, <1>6, <3>1, <3>2
  <2>2. ASSUME x.pushed # <<>>
        PROVE  \E j \in DOMAIN notes' : /\ IsHead(j)' /\ notes'[j].block = x.pushed[Len(x.pushed)]
                                        /\ Passed(j, x.next)'
    <3>1. PICK j \in DOMAIN notes : /\ IsHead(j) /\ notes[j].block = x.pushed[Len(x.pushed)]
                                    /\ Passed(j, x.next)
      BY <2>2 DEF HeadsOK
    <3>2. QED
      BY <1>1, <1>5, <1>6, <1>7, <3>1
  <2>3. QED
    BY <2>1, <2>2 DEF HeadsOK
<1>9. x.next <= Len(notes') + 1
  BY <1>1, <1>3, <1>4, <1>7
<1>10. QED
  BY <1>7, <1>8, <1>9 DEF SubOK, AlternatesOK

(* a subscription that passes a note without pushing its block *)
LEMMA HeadsPassed ==
  ASSUME ChainInv, NEW p, NEW n \in DOMAIN notes, HeadsOK(p, n),
         IsHead(n) => MayBePruned(notes[n].block)
  PROVE  HeadsOK(p, n + 1)
<1>1. \A k \in DOMAIN notes : k \in Nat
  BY NoteType
<1>2. \A j \in DOMAIN notes : Passed(j, n) => Passed(j, n + 1)
  BY <1>1 DEF Passed
<1>3. QED
  BY <1>2 DEF HeadsOK

LEMMA PushedSeq ==
  ASSUME NEW S, NEW p \in Seq(S), NEW b \in S
  PROVE  /\ p \o <<b>> \in Seq(S)
         /\ Len(p \o <<b>>) = Len(p) + 1 /\ Len(p) \in Nat
         /\ \A i \in 1..Len(p) : (p \o <<b>>)[i] = p[i]
         /\ (p \o <<b>>)[Len(p) + 1] = b
         /\ p \o <<>> = p
OBVIOUS

LEMMA HeadsPushed ==
  ASSUME ChainInv, NEW p, NEW n \in DOMAIN notes, HeadsOK(p, n), IsHead(n)
  PROVE  HeadsOK(p \o <<notes[n].block>>, n + 1)
<1>1. \A k \in DOMAIN notes : k \in Nat /\ notes[k].block \in Blocks
  BY NoteType
<1>2. PICK b \in Blocks : b = notes[n].block
  BY <1>1
<1>3. PICK q : q = p \o <<b>>
  OBVIOUS
<1>4. /\ q \in Seq(Blocks) /\ Len(q) = Len(p) + 1 /\ Len(p) \in Nat
      /\ \A i \in 1..Len(p) : q[i] = p[i]
      /\ q[Len(p) + 1] = b
  BY <1>3, PushedSeq DEF HeadsOK
<1>5. ASSUME NEW i \in 1..Len(q) - 1
      PROVE  \E j, k \in DOMAIN notes : /\ IsHead(j) /\ notes[j].block = q[i]
                                        /\ IsHead(k) /\ notes[k].block = q[i + 1]
                                        /\ Passed(j, k)
  <2>1. i \in 1..Len(p)
    BY <1>4, <1>5
  <2>2. CASE i = Len(p)
    <3>1. p # <<>>
      BY <1>4, <2>1, <2>2
    <3>2. PICK j \in DOMAIN notes : IsHead(j) /\ notes[j].block = p[Len(p)] /\ Passed(j, n)
      BY <3>1 DEF HeadsOK
    <3>3. QED
      BY <1>2, <1>4, <2>1, <2>2, <3>2
  <2>3. CASE i # Len(p)
    <3>1. i \in 1..Len(p) - 1 /\ i + 1 \in 1..Len(p)
      BY <1>4, <2>1, <2>3
    <3>2. q[i] = p[i] /\ q[i + 1] = p[i + 1]
      BY <1>4, <2>1, <3>1
    <3>3. QED
      BY <3>1, <3>2 DEF HeadsOK
  <2>4. QED
    BY <2>2, <2>3
<1>6. IsHead(n) /\ notes[n].block = q[Len(q)] /\ Passed(n, n + 1)
  <2>1. notes[n].block = q[Len(q)]
    BY <1>2, <1>4
  <2>2. Passed(n, n + 1)
    BY <1>1 DEF Passed
  <2>3. QED
    BY <2>1, <2>2
<1>7. HeadsOK(q, n + 1)
  BY <1>4, <1>5, <1>6 DEF HeadsOK
<1>8. QED
  BY <1>2, <1>3, <1>7

(* one subscription changes, and the chain does not *)
LEMMA SubsStep ==
  ASSUME PubsubInv, NEW s \in Subs, NEW x, x = Off \/ SubOK(x),
         DOMAIN sub' = Subs, \A i \in Subs : sub'[i] = IF i = s THEN x ELSE sub[i],
         UNCHANGED <<imported, best, notes, syncing>>
  PROVE  PubsubInv'
<1>1. ChainInv'
  BY DEF PubsubInv, ChainInv
<1>2. NotesInv'
  BY DEF PubsubInv, NotesInv, HeadsGrow, ReachedSince, ReachedBefore, CameBetween, IsHead
<1>3. ASSUME NEW y, SubOK(y)
      PROVE  SubOK(y)'
  BY <1>3 DEF SubOK, HeadsOK, IsHead, Passed, MayBePruned, AlternatesOK
<1>4. \A i \in Subs : sub'[i] = Off \/ SubOK(sub[i])'
  <2> TAKE i \in Subs
  <2>1. PICK y : y = sub'[i]
    OBVIOUS
  <2>2. y = Off \/ SubOK(y)
    BY <2>1 DEF PubsubInv, SubsInv
  <2>3. y = Off \/ SubOK(y)'
    BY <1>3, <2>2
  <2>4. QED
    BY <2>1, <2>3
<1>5. QED
  BY <1>1, <1>2, <1>4 DEF PubsubInv, SubsInv

LEMMA SubscribeInv ==
  ASSUME PubsubInv, NEW s \in Subs, NEW kind \in Kinds, subscribe(s, kind)
  PROVE  PubsubInv'
<1>1. PICK x : x = [ kind |-> kind, next |-> Len(notes) + 1, pushed |-> <<>>,
                     previous_syncing |-> syncing, since |-> syncing ]
  OBVIOUS
<1>2. sub' = [sub EXCEPT ![s] = x] /\ UNCHANGED <<imported, best, notes, syncing>>
  BY <1>1 DEF subscribe, chainVars
<1>3. Len(notes) \in Nat /\ syncing \in BOOLEAN
  BY NoteType DEF PubsubInv, SubsInv
<1>4. /\ x.next = Len(notes) + 1 /\ x.pushed = <<>> /\ x.previous_syncing = syncing
      /\ x.since = syncing
      /\ DOMAIN x = {"kind", "next", "pushed", "previous_syncing", "since"}
  BY <1>1
<1>5. <<>> \in Seq(Blocks) /\ <<>> \in Seq(BOOLEAN) /\ Len(<<>>) = 0 /\ DOMAIN <<>> = {}
  OBVIOUS
<1>6. HeadsOK(x.pushed, x.next)
  BY <1>4, <1>5 DEF HeadsOK
<1>7. AlternatesOK(x)
  <2>1. Len(x.pushed) % 2 = 0 /\ DOMAIN x.pushed = {} /\ x.pushed \in Seq(BOOLEAN)
    BY <1>4, <1>5
  <2>2. QED
    BY <1>3, <1>4, <2>1 DEF AlternatesOK
<1>8. SubOK(x)
  BY <1>3, <1>4, <1>6, <1>7 DEF SubOK
<1>9. DOMAIN sub' = Subs /\ \A i \in Subs : sub'[i] = IF i = s THEN x ELSE sub[i]
  BY <1>2 DEF PubsubInv, SubsInv
<1>10. QED
  BY <1>2, <1>8, <1>9, SubsStep

LEMMA UnsubscribeInv ==
  ASSUME PubsubInv, NEW s \in Subs, unsubscribe(s)
  PROVE  PubsubInv'
<1>1. sub' = [sub EXCEPT ![s] = Off] /\ UNCHANGED <<imported, best, notes, syncing>>
  BY DEF unsubscribe, chainVars
<1>2. DOMAIN sub' = Subs /\ \A i \in Subs : sub'[i] = IF i = s THEN Off ELSE sub[i]
  BY <1>1 DEF PubsubInv, SubsInv
<1>3. PICK x : x = Off
  OBVIOUS
<1>4. QED
  BY <1>1, <1>2, <1>3, SubsStep

(* the subscription after Advance *)
LEMMA Advanced ==
  ASSUME PubsubInv, NEW s \in Subs, sub[s] # Off, NEW results, Advance(s, results)
  PROVE  /\ UNCHANGED <<imported, best, notes, syncing>>
         /\ DOMAIN sub' = Subs /\ \A i \in Subs : i # s => sub'[i] = sub[i]
         /\ DOMAIN sub'[s] = {"kind", "next", "pushed", "previous_syncing", "since"}
         /\ sub'[s].kind = sub[s].kind /\ sub'[s].next = sub[s].next + 1
         /\ sub'[s].pushed = sub[s].pushed \o results
         /\ sub'[s].previous_syncing = sub[s].previous_syncing
         /\ sub'[s].since = sub[s].since
<1>1. /\ DOMAIN sub = Subs
      /\ DOMAIN sub[s] = {"kind", "next", "pushed", "previous_syncing", "since"}
  BY DEF PubsubInv, SubsInv, SubOK
<1>2. /\ sub' = [sub EXCEPT ![s].next = @ + 1, ![s].pushed = @ \o results]
      /\ UNCHANGED <<imported, best, notes, syncing>>
  BY DEF Advance, chainVars
<1>3. QED
  BY <1>1, <1>2

LEMMA PollsAt ==
  ASSUME PubsubInv, NEW s \in Subs, NEW kinds, Polls(s, kinds)
  PROVE  /\ sub[s] # Off /\ SubOK(sub[s]) /\ sub[s].kind \in kinds
         /\ sub[s].next \in DOMAIN notes /\ sub[s].next \in Nat \ {0}
         /\ sub[s].next + 1 \in Nat \ {0} /\ sub[s].next + 1 <= Len(notes) + 1
<1>1. sub[s] # Off /\ SubOK(sub[s]) /\ sub[s].kind \in kinds /\ sub[s].next <= Len(notes)
  BY DEF PubsubInv, SubsInv, Polls
<1>2. sub[s].next \in Nat \ {0}
  BY <1>1 DEF SubOK
<1>3. Len(notes) \in Nat /\ DOMAIN notes = 1..Len(notes)
  BY NoteType DEF PubsubInv
<1>4. QED
  BY <1>1, <1>2, <1>3

LEMMA PushHeadInv ==
  ASSUME PubsubInv, NEW s \in Subs, PushHead(s)
  PROVE  PubsubInv'
<1>1. PICK x : x = sub[s]
  OBVIOUS
<1>2. PICK n : n = x.next
  OBVIOUS
<1>3. /\ sub[s] # Off /\ SubOK(x) /\ x.kind \in {"logs", "newHeads"} /\ n \in DOMAIN notes
      /\ n + 1 \in Nat \ {0} /\ n + 1 <= Len(notes) + 1
  BY <1>1, <1>2, PollsAt DEF PushHead
<1>4. HeadsOK(x.pushed, n)
  BY <1>2, <1>3 DEF SubOK
<1>5. PICK results : /\ Advance(s, results)
                     /\ HeadsOK(x.pushed \o results, n + 1)
  <2>1. x.pushed \o <<>> = x.pushed
    BY <1>4, PushedSeq DEF HeadsOK
  <2>2. CASE Advance(s, HeadOf(notes[n]))
    <3>1. CASE notes[n].is_new_best
      <4>1. IsHead(n) /\ HeadOf(notes[n]) = <<notes[n].block>>
        BY <1>3, <3>1 DEF IsHead, HeadOf
      <4>2. HeadsOK(x.pushed \o <<notes[n].block>>, n + 1)
        BY <1>3, <1>4, <4>1, HeadsPushed DEF PubsubInv
      <4>3. QED
        BY <2>2, <4>1, <4>2
    <3>2. CASE ~notes[n].is_new_best
      <4>1. ~IsHead(n) /\ HeadOf(notes[n]) = <<>>
        BY <3>2 DEF IsHead, HeadOf
      <4>2. HeadsOK(x.pushed, n + 1)
        BY <1>3, <1>4, <4>1, HeadsPassed DEF PubsubInv
      <4>3. QED
        BY <2>1, <2>2, <4>1, <4>2
    <3>3. QED
      BY <3>1, <3>2
  <2>3. CASE MayBePruned(notes[n].block) /\ Advance(s, <<>>)
    <3>1. HeadsOK(x.pushed, n + 1)
      BY <1>3, <1>4, <2>3, HeadsPassed DEF PubsubInv
    <3>2. QED
      BY <2>1, <2>3, <3>1
  <2>4. QED
    BY <1>1, <1>2, <2>2, <2>3 DEF PushHead
<1>6. PICK y : y = sub'[s]
  OBVIOUS
<1>7. /\ UNCHANGED <<imported, best, notes, syncing>>
      /\ DOMAIN sub' = Subs /\ \A i \in Subs : i # s => sub'[i] = sub[i]
      /\ DOMAIN y = {"kind", "next", "pushed", "previous_syncing", "since"}
      /\ y.kind = x.kind /\ y.next = n + 1 /\ y.pushed = x.pushed \o results
  BY <1>1, <1>2, <1>3, <1>5, <1>6, Advanced
<1>8. y.kind # "syncing" /\ HeadsOK(y.pushed, y.next)
  BY <1>3, <1>5, <1>7
<1>9. SubOK(y)
  BY <1>3, <1>7, <1>8 DEF SubOK
<1>10. QED
  BY <1>6, <1>7, <1>9, SubsStep

LEMMA PushTransactionsInv ==
  ASSUME PubsubInv, NEW s \in Subs, PushTransactions(s)
  PROVE  PubsubInv'
<1>1. PICK results : Advance(s, results)
  BY DEF PushTransactions
<1>2. /\ sub[s] # Off /\ SubOK(sub[s]) /\ sub[s].kind = "newPendingTransactions"
      /\ sub[s].next + 1 \in Nat \ {0} /\ sub[s].next + 1 <= Len(notes) + 1
  BY PollsAt DEF PushTransactions
<1>3. PICK y : y = sub'[s]
  OBVIOUS
<1>4. /\ UNCHANGED <<imported, best, notes, syncing>>
      /\ DOMAIN sub' = Subs /\ \A i \in Subs : i # s => sub'[i] = sub[i]
      /\ DOMAIN y = {"kind", "next", "pushed", "previous_syncing", "since"}
      /\ y.kind = sub[s].kind /\ y.next = sub[s].next + 1
  BY <1>1, <1>2, <1>3, Advanced
<1>5. SubOK(y)
  BY <1>2, <1>4 DEF SubOK
<1>6. QED
  BY <1>3, <1>4, <1>5, SubsStep

LEMMA PushSyncingInv ==
  ASSUME PubsubInv, NEW s \in Subs, PushSyncing(s)
  PROVE  PubsubInv'
<1>1. PICK x : x = sub[s]
  OBVIOUS
<1>2. /\ sub[s] # Off /\ SubOK(x) /\ x.kind = "syncing"
      /\ x.next + 1 \in Nat \ {0} /\ x.next + 1 <= Len(notes) + 1
  BY <1>1, PollsAt DEF PushSyncing
<1>3. AlternatesOK(x)
  BY <1>2 DEF SubOK
<1>4. PICK y : y = sub'[s]
  OBVIOUS
<1>5. CASE Advance(s, <<>>)
  <2>1. x.pushed \o <<>> = x.pushed
    BY <1>3 DEF AlternatesOK
  <2>2. /\ UNCHANGED <<imported, best, notes, syncing>>
        /\ DOMAIN sub' = Subs /\ \A i \in Subs : i # s => sub'[i] = sub[i]
        /\ DOMAIN y = {"kind", "next", "pushed", "previous_syncing", "since"}
        /\ y.kind = x.kind /\ y.next = x.next + 1 /\ y.pushed = x.pushed
        /\ y.previous_syncing = x.previous_syncing /\ y.since = x.since
    BY <1>1, <1>2, <1>4, <1>5, <2>1, Advanced
  <2>3. AlternatesOK(y)
    BY <1>3, <2>2 DEF AlternatesOK
  <2>4. SubOK(y)
    BY <1>2, <2>2, <2>3 DEF SubOK
  <2>5. QED
    BY <1>4, <2>2, <2>4, SubsStep
<1>6. CASE /\ syncing # x.previous_syncing
           /\ sub' = [sub EXCEPT ![s].next = @ + 1, ![s].pushed = Append(@, syncing),
                                 ![s].previous_syncing = syncing]
           /\ UNCHANGED <<chainVars, index, syncing>>
  <2>1. /\ DOMAIN sub = Subs
        /\ DOMAIN x = {"kind", "next", "pushed", "previous_syncing", "since"}
        /\ syncing \in BOOLEAN
    BY <1>2 DEF PubsubInv, SubsInv, SubOK
  <2>2. /\ UNCHANGED <<imported, best, notes, syncing>>
        /\ DOMAIN sub' = Subs /\ \A i \in Subs : i # s => sub'[i] = sub[i]
        /\ DOMAIN y = {"kind", "next", "pushed", "previous_syncing", "since"}
        /\ y.kind = x.kind /\ y.next = x.next + 1 /\ y.pushed = Append(x.pushed, syncing)
        /\ y.previous_syncing = syncing /\ y.since = x.since
    BY <1>1, <1>4, <1>6, <2>1 DEF chainVars
  <2>3. PICK m : m = Len(x.pushed)
    OBVIOUS
  <2>4. /\ y.pushed \in Seq(BOOLEAN) /\ Len(y.pushed) = m + 1 /\ m \in Nat
        /\ \A i \in 1..m : y.pushed[i] = x.pushed[i]
        /\ y.pushed[m + 1] = syncing
    BY <1>3, <2>1, <2>2, <2>3, AppendSeq DEF AlternatesOK
  <2>5. DOMAIN y.pushed = 1..m + 1 /\ DOMAIN x.pushed = 1..m
    BY <1>3, <2>3, <2>4 DEF AlternatesOK
  <2>6. (m + 1) % 2 = 1 <=> m % 2 # 1
    BY <2>4
  <2>7. syncing = IF (m + 1) % 2 = 1 THEN ~x.since ELSE x.since
    <3>1. x.since \in BOOLEAN /\ x.previous_syncing = (IF m % 2 = 1 THEN ~x.since ELSE x.since)
      BY <1>3, <2>3 DEF AlternatesOK
    <3>2. syncing # x.previous_syncing /\ syncing \in BOOLEAN
      BY <1>6, <2>1
    <3>3. QED
      BY <2>6, <3>1, <3>2
  <2>8. \A i \in 1..m + 1 : y.pushed[i] = (IF i % 2 = 1 THEN ~y.since ELSE y.since)
    <3> TAKE i \in 1..m + 1
    <3>1. CASE i = m + 1
      BY <2>2, <2>4, <2>7, <3>1
    <3>2. CASE i # m + 1
      <4>1. i \in 1..m
        BY <2>4, <3>2
      <4>2. x.pushed[i] = (IF i % 2 = 1 THEN ~x.since ELSE x.since)
        BY <1>3, <2>5, <4>1 DEF AlternatesOK
      <4>3. QED
        BY <2>2, <2>4, <4>1, <4>2
    <3>3. QED
      BY <3>1, <3>2
  <2>9. y.since \in BOOLEAN
        /\ y.previous_syncing = (IF Len(y.pushed) % 2 = 1 THEN ~y.since ELSE y.since)
    BY <1>3, <2>2, <2>4, <2>7 DEF AlternatesOK
  <2>10. AlternatesOK(y)
    BY <2>4, <2>5, <2>8, <2>9 DEF AlternatesOK
  <2>11. SubOK(y)
    BY <1>2, <2>2, <2>10 DEF SubOK
  <2>12. QED
    BY <1>4, <2>2, <2>11, SubsStep
<1>7. QED
  BY <1>1, <1>5, <1>6 DEF PushSyncing

LEMMA PubsubImportInv ==
  ASSUME PubsubInv, NEW b \in Blocks, PubsubImport(b)
  PROVE  PubsubInv'
<1>1. ImportBlock(b) /\ syncing' = syncing /\ sub' = sub
  BY DEF PubsubImport, pubsubVars
<1>2. ChainInv' /\ NotesInv'
  BY <1>1, ImportGrows, NotesInvImport DEF PubsubInv
<1>3. \A s \in Subs : sub'[s] = Off \/ SubOK(sub[s])'
  <2> TAKE s \in Subs
  <2>1. PICK x : x = sub[s] /\ x = sub'[s]
    BY <1>1
  <2>2. x = Off \/ SubOK(x)
    BY <2>1 DEF PubsubInv, SubsInv
  <2>3. x = Off \/ SubOK(x)'
    BY <1>1, <2>2, SubKept DEF PubsubInv
  <2>4. QED
    BY <2>1, <2>3
<1>4. QED
  BY <1>1, <1>2, <1>3 DEF PubsubInv, SubsInv

LEMMA PubsubStill ==
  ASSUME PubsubInv, UNCHANGED <<imported, best, notes, sub>>, syncing' \in BOOLEAN
  PROVE  PubsubInv'
<1>1. ChainInv'
  BY DEF PubsubInv, ChainInv
<1>2. NotesInv'
  BY DEF PubsubInv, NotesInv, HeadsGrow, ReachedSince, ReachedBefore, CameBetween, IsHead
<1>3. ASSUME NEW y, SubOK(y)
      PROVE  SubOK(y)'
  BY <1>3 DEF SubOK, HeadsOK, IsHead, Passed, MayBePruned, AlternatesOK
<1>4. \A s \in Subs : sub'[s] = Off \/ SubOK(sub[s])'
  <2> TAKE s \in Subs
  <2>1. PICK y : y = sub[s] /\ y = sub'[s]
    OBVIOUS
  <2>2. y = Off \/ SubOK(y)'
    BY <1>3, <2>1 DEF PubsubInv, SubsInv
  <2>3. QED
    BY <2>1, <2>2
<1>5. QED
  BY <1>1, <1>2, <1>4 DEF PubsubInv, SubsInv

LEMMA PubsubInit == InitChain /\ InitPubsub => PubsubInv
<1> SUFFICES ASSUME InitChain, InitPubsub PROVE PubsubInv
  OBVIOUS
<1>1. /\ imported = {Genesis} /\ best = Genesis /\ notes = <<>> /\ Genesis \in Blocks
      /\ Ancestors[Genesis] = {Genesis} /\ Number[Genesis] \in Nat
  BY ChainAssumption, TreeAssumption DEF InitChain, InitIndex
<1>2. <<>> \in Seq([block : imported, is_new_best : BOOLEAN]) /\ DOMAIN <<>> = {}
  OBVIOUS
<1>3. ChainInv
  BY <1>1, <1>2 DEF ChainInv
<1>4. NotesInv
  BY <1>1, <1>2 DEF NotesInv, HeadsGrow, ReachedSince, ReachedBefore
<1>5. SubsInv
  BY DEF InitPubsub, SubsInv
<1>6. QED
  BY <1>3, <1>4, <1>5 DEF PubsubInv

LEMMA PubsubNext == PubsubInv /\ [NextPubsub]_pubsubAll => PubsubInv'
<1> SUFFICES ASSUME PubsubInv, [NextPubsub]_pubsubAll PROVE PubsubInv'
  OBVIOUS
<1>1. CASE SyncingChanges
  <2>1. UNCHANGED <<imported, best, notes, sub>> /\ syncing' \in BOOLEAN
    BY <1>1 DEF SyncingChanges, chainVars, PubsubInv, SubsInv
  <2>2. QED
    BY <2>1, PubsubStill
<1>2. CASE \E s \in Subs : \/ \E kind \in Kinds : subscribe(s, kind)
                           \/ unsubscribe(s)
                           \/ PushHead(s) \/ PushTransactions(s) \/ PushSyncing(s)
  BY <1>2, SubscribeInv, UnsubscribeInv, PushHeadInv, PushTransactionsInv, PushSyncingInv
<1>3. CASE \E b \in Blocks : PubsubImport(b)
  BY <1>3, PubsubImportInv
<1>4. CASE UNCHANGED pubsubAll
  <2>1. UNCHANGED <<imported, best, notes, sub>> /\ syncing' \in BOOLEAN
    BY <1>4 DEF pubsubAll, pubsubVars, chainVars, PubsubInv, SubsInv
  <2>2. QED
    BY <2>1, PubsubStill
<1>5. QED
  BY <1>1, <1>2, <1>3, <1>4 DEF NextPubsub, PubsubStep

LEMMA HeadsFollow ==
  ASSUME PubsubInv
  PROVE  HeadsFollowChain
<1> SUFFICES ASSUME NEW s \in Subs, sub[s] # Off, sub[s].kind \in {"logs", "newHeads"},
                    NEW i \in 1..Len(sub[s].pushed) - 1
             PROVE  LET p == sub[s].pushed IN
                    /\ Number[p[i]] < Number[p[i + 1]]
                    /\ p[i] \in Ancestors[p[i + 1]] =>
                         \A b \in Ancestors[p[i + 1]] \ (Ancestors[p[i]] \cup {p[i + 1]}) :
                           \E u \in imported : /\ Untold(u) /\ Number[b] <= Number[u]
                                               /\ Number[u] < Number[p[i + 1]]
  BY DEF HeadsFollowChain, Pushed
<1>1. PICK j \in DOMAIN notes, k \in DOMAIN notes :
        /\ IsHead(j) /\ notes[j].block = sub[s].pushed[i]
        /\ IsHead(k) /\ notes[k].block = sub[s].pushed[i + 1]
        /\ Passed(j, k)
  BY DEF PubsubInv, SubsInv, SubOK, HeadsOK
<1>2. j < k
  BY <1>1 DEF Passed
<1>3. PICK x \in Blocks, y \in Blocks : x = notes[j].block /\ y = notes[k].block
  BY NoteType DEF PubsubInv
<1>4. Number[x] < Number[y]
  BY <1>1, <1>2, <1>3 DEF PubsubInv, NotesInv, HeadsGrow
<1>5. ASSUME x \in Ancestors[y], NEW b \in Ancestors[y] \ (Ancestors[x] \cup {y})
      PROVE  \E u \in imported : Untold(u) /\ Number[b] <= Number[u] /\ Number[u] < Number[y]
  <2>1. b \in Blocks /\ b # x
    BY <1>5, AncestorsBelow DEF Below
  <2>2. x \in Ancestors[b]
    BY <1>5, AncestorsInLine DEF InLine
  <2>3. Number[x] < Number[b]
    BY <2>1, <2>2, AncestorsBelow DEF Below
  <2>4. PICK u \in imported : /\ Number[b] <= Number[u] /\ Number[u] < Number[y]
                              /\ CameBetween(u, j, k)
    BY <1>1, <1>2, <1>3, <1>5, <2>3 DEF PubsubInv, NotesInv, ReachedBefore
  <2>5. Untold(u)
    BY <1>1, <2>4 DEF CameBetween, Passed, Untold
  <2>6. QED
    BY <2>4, <2>5
<1>6. QED
  BY <1>1, <1>3, <1>4, <1>5

(* Subscribers see the heads grow and miss a block of the chain only next  *)
(* to one that came silently or lost its state, and see the syncing flag   *)
(* alternate (EthPubSubApi::subscribe), however imports, subscriptions and *)
(* their streams interleave.                                               *)
THEOREM PushesFaithfulAlways == SpecPubsub => []PushesFaithful
<1>1. PubsubInv => PushesFaithful
  <2> SUFFICES ASSUME PubsubInv PROVE PushesFaithful
    OBVIOUS
  <2>1. SyncAlternates
    BY DEF SyncAlternates, PubsubInv, SubsInv, SubOK, AlternatesOK
  <2>2. QED
    BY <2>1, HeadsFollow DEF PushesFaithful
<1>2. SpecPubsub => []PubsubInv
  BY PubsubInit, PubsubNext, PTL DEF SpecPubsub
<1>3. QED
  BY <1>1, <1>2, PTL
=============================================================================
