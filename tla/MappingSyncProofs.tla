------------------------- MODULE MappingSyncProofs --------------------------
(***************************************************************************)
(* Proofs about MappingSync, for every block tree and every bound.         *)
(***************************************************************************)
EXTENDS MappingSync, TLAPS, FiniteSetTheorems, SequenceTheorems

(***************************************************************************)
(* The inductive invariant: besides the properties themselves, what the    *)
(* worker's local variables say about the database at each point.          *)
(***************************************************************************)
WorkerInv ==
  /\ pc \in {"idle", "select"} => op = None /\ todo = <<>>
  /\ pc = "hashes" =>
       /\ op \in Blocks \ synced
       /\ ToSet(tips) \subseteq ToSet(todo) \cup synced \cup {op}
  /\ pc = "tips" =>
       /\ ToSet(tips) \subseteq ToSet(todo) \cup synced
       /\ op = None => todo = <<>>
       /\ op \notin {None, Genesis} => Header[op].parent \in ToSet(todo)

(* The synced blocks whose parent neither is synced nor on the persisted   *)
(* list of tips, but for the block in the window between the commits.      *)
(* Orphaned is not inductive: while leaves are candidates a block may stop *)
(* being orphaned, and it is orphaned again when the pass is cut short.    *)
CutOff ==
  {b \in synced \ {Genesis} :
     /\ Header[b].parent \notin synced
     /\ Header[b].parent \notin ToSet(tips)
     /\ ~(InWindow /\ b = op)}

CutsBounded == Cardinality(CutOff) <= torn

CommittedInv == \A b \in synced : Commitment[b] # None

IndInv ==
  /\ TypeOK
  /\ WorkerInv
  /\ CommittedInv
  /\ CutsBounded
  /\ BlockMappingExact
  /\ TransactionMappingExact

-----------------------------------------------------------------------------
(* Lemmas about the sequences the database and the worker keep. *)

(* push on a list adds the element and nothing else *)
LEMMA PushRange ==
  ASSUME NEW S, NEW s \in Seq(S), NEW x \in S
  PROVE  /\ Append(s, x) \in Seq(S)
         /\ ToSet(Append(s, x)) = ToSet(s) \cup {x}
         /\ DOMAIN Append(s, x) = 1..Len(s) + 1
         /\ DOMAIN s = 1..Len(s)
         /\ Len(s) \in Nat
         /\ \A i \in 1..Len(s) : Append(s, x)[i] = s[i]
         /\ Append(s, x)[Len(s) + 1] = x
<1>1. /\ Append(s, x) \in Seq(S)
      /\ Len(Append(s, x)) = Len(s) + 1
      /\ \A i \in 1..Len(s) : Append(s, x)[i] = s[i]
      /\ Append(s, x)[Len(s) + 1] = x
  BY AppendProperties
<1>2. DOMAIN s = 1..Len(s) /\ Len(s) \in Nat
  OBVIOUS
<1>3. DOMAIN Append(s, x) = 1..Len(s) + 1
  BY <1>1
<1>4. QED
  BY <1>1, <1>2, <1>3 DEF ToSet

(* pushing an element that is not there keeps a list free of duplicates *)
LEMMA PushInjective ==
  ASSUME NEW S, NEW s \in Seq(S), NEW x \in S, IsInjective(s), x \notin ToSet(s)
  PROVE  IsInjective(Append(s, x))
<1> DEFINE a == Append(s, x)
<1>1. SUFFICES ASSUME NEW i \in DOMAIN a, NEW j \in DOMAIN a, a[i] = a[j]
               PROVE  i = j
  BY DEF IsInjective
<1>2. /\ DOMAIN a = 1..Len(s) + 1
      /\ DOMAIN s = 1..Len(s)
      /\ Len(s) \in Nat
      /\ \A k \in 1..Len(s) : a[k] = s[k] /\ a[k] # x
      /\ a[Len(s) + 1] = x
  BY PushRange DEF ToSet
<1>3. CASE i \in 1..Len(s) /\ j \in 1..Len(s)
  BY <1>1, <1>2, <1>3 DEF IsInjective
<1>4. CASE i = Len(s) + 1 \/ j = Len(s) + 1
  BY <1>1, <1>2, <1>4
<1>5. QED
  BY <1>1, <1>2, <1>3, <1>4

(* popping to the last unsynced tip loses only synced tips and that one *)
LEMMA PopRange ==
  ASSUME NEW S, NEW s \in Seq(S), NEW X, NEW i \in DOMAIN s,
         \A j \in DOMAIN s : s[j] \notin X => j <= i
  PROVE  /\ SubSeq(s, 1, i - 1) \in Seq(S)
         /\ s[i] \in S
         /\ ToSet(s) \subseteq ToSet(SubSeq(s, 1, i - 1)) \cup X \cup {s[i]}
<1> DEFINE p == SubSeq(s, 1, i - 1)
<1>1. DOMAIN s = 1..Len(s) /\ Len(s) \in Nat /\ i \in 1..Len(s)
  OBVIOUS
<1>2. p \in Seq(S) /\ Len(p) = i - 1 /\ DOMAIN p = 1..i - 1
  BY <1>1
<1>3. \A k \in 1..i - 1 : p[k] = s[k]
  BY <1>1
<1>4. ASSUME NEW j \in DOMAIN s
      PROVE  s[j] \in ToSet(p) \cup X \cup {s[i]}
  <2>1. j \in Nat /\ i \in Nat
    BY <1>1
  <2>2. CASE j < i
    BY <1>1, <1>2, <1>3, <2>1, <2>2 DEF ToSet
  <2>3. CASE j = i
    BY <2>3
  <2>4. CASE j > i
    BY <2>1, <2>4
  <2>5. QED
    BY <2>1, <2>2, <2>3, <2>4
<1>5. QED
  BY <1>1, <1>2, <1>4 DEF ToSet

LEMMA EmptyRange == ToSet(<<>>) = {} /\ \A S : <<>> \in Seq(S)
BY DEF ToSet

(* what the worker pops from is a list of blocks *)
LEMMA CandidatesType ==
  ASSUME TypeOK, NEW s \in Candidates
  PROVE  s \in Seq(Blocks) /\ (tips # <<>> => s = tips)
<1>1. CASE tips # <<>>
  BY <1>1 DEF Candidates, TypeOK
<1>2. CASE tips = <<>>
  <2>1. Leaves \subseteq Blocks
    BY DEF Leaves, TypeOK
  <2>2. Cardinality(Leaves) \in Nat
    BY <2>1, GenesisAssumption, FS_Subset, FS_CardinalityType
  <2>3. s \in [1..Cardinality(Leaves) -> Leaves]
    BY <1>2 DEF Candidates, SetToSeqs
  <2>4. s \in Seq(Blocks)
    BY <2>1, <2>2, <2>3
  <2>5. QED
    BY <1>2, <2>4
<1>3. QED
  BY <1>1, <1>2

-----------------------------------------------------------------------------
(* steps that leave the mapping columns alone leave their invariants alone *)
LEMMA MappingsUntouched ==
  ASSUME IndInv, UNCHANGED <<block_mapping, transaction_mapping, synced>>
  PROVE  CommittedInv' /\ BlockMappingExact' /\ TransactionMappingExact'
BY DEF IndInv, CommittedInv, BlockMappingExact, TransactionMappingExact

LEMMA CutOffFinite ==
  ASSUME TypeOK
  PROVE  IsFiniteSet(CutOff) /\ Cardinality(CutOff) \in Nat
<1>1. CutOff \subseteq Blocks
  BY DEF CutOff, TypeOK
<1>2. QED
  BY <1>1, GenesisAssumption, FS_Subset, FS_CardinalityType

(* a step that cuts nothing off, or one block and counts it *)
LEMMA NoNewCut ==
  ASSUME TypeOK, CutsBounded, CutOff' \subseteq CutOff, torn' = torn
  PROVE  CutsBounded'
<1>1. IsFiniteSet(CutOff) /\ Cardinality(CutOff) \in Nat
  BY CutOffFinite
<1>2. IsFiniteSet(CutOff') /\ Cardinality(CutOff') <= Cardinality(CutOff)
  BY <1>1, FS_Subset
<1>3. Cardinality(CutOff') \in Nat /\ torn \in Nat
  BY <1>2, FS_CardinalityType DEF TypeOK
<1>4. QED
  BY <1>1, <1>2, <1>3 DEF CutsBounded

LEMMA OneNewCut ==
  ASSUME TypeOK, CutsBounded, NEW x, CutOff' \subseteq CutOff \cup {x}, torn' = torn + 1
  PROVE  CutsBounded'
<1>1. IsFiniteSet(CutOff) /\ Cardinality(CutOff) \in Nat
  BY CutOffFinite
<1>2. /\ IsFiniteSet(CutOff \cup {x})
      /\ Cardinality(CutOff \cup {x}) \in {Cardinality(CutOff), Cardinality(CutOff) + 1}
  BY <1>1, FS_AddElement
<1>3. /\ IsFiniteSet(CutOff')
      /\ Cardinality(CutOff') <= Cardinality(CutOff \cup {x})
  BY <1>2, FS_Subset
<1>4. Cardinality(CutOff') \in Nat /\ torn \in Nat
  BY <1>3, FS_CardinalityType DEF TypeOK
<1>5. QED
  BY <1>1, <1>2, <1>3, <1>4 DEF CutsBounded

(* steps that also leave the tips alone, and leave the worker idle, keep   *)
(* everything                                                              *)
LEMMA BackToIdle ==
  ASSUME IndInv, TypeOK', UNCHANGED <<block_mapping, transaction_mapping, synced, tips>>,
         pc' = "idle", op' = None, todo' = <<>>,
         torn' = IF InWindow THEN torn + 1 ELSE torn
  PROVE  IndInv'
<1>1. WorkerInv'
  BY DEF WorkerInv
<1>2. ~InWindow'
  BY DEF InWindow
<1>3. CutsBounded'
  <2>1. CASE InWindow
    <3>1. CutOff' \subseteq CutOff \cup {op}
      BY <2>1 DEF CutOff
    <3>2. QED
      BY <2>1, <3>1, OneNewCut DEF IndInv
  <2>2. CASE ~InWindow
    <3>1. CutOff' \subseteq CutOff
      BY <2>2 DEF CutOff
    <3>2. QED
      BY <2>2, <3>1, NoNewCut DEF IndInv
  <2>3. QED
    BY <2>1, <2>2
<1>4. QED
  BY <1>1, <1>3, MappingsUntouched DEF IndInv

LEMMA CommitmentType ==
  ASSUME NEW b \in Blocks, Commitment[b] # None
  PROVE  /\ Commitment[b].block_hash \in EthHashes
         /\ Commitment[b].transaction_hashes \in Seq(TxHashes)
         /\ IsInjective(Commitment[b].transaction_hashes)
BY CommitmentAssumption

(* initial states *)
LEMMA InitInv == Init => IndInv
<1> SUFFICES ASSUME Init PROVE IndInv
  OBVIOUS
<1>1. TypeOK
  <2>1. /\ block_mapping \in [EthHashes -> Seq(Blocks)]
        /\ transaction_mapping \in [TxHashes -> Seq(Metadata)]
        /\ tips \in Seq(Blocks)
        /\ todo \in Seq(Blocks)
    BY EmptyRange DEF Init
  <2>2. calls \in 0..LIMIT /\ faults \in 0..MaxFaults /\ torn \in 0..MaxTorn
        /\ reverts \in 0..MaxReverts
    BY BoundsAssumption DEF Init
  <2>3. QED
    BY <2>1, <2>2, GenesisAssumption DEF Init, TypeOK
<1>2. WorkerInv /\ CommittedInv
  BY DEF Init, WorkerInv, CommittedInv
<1>3. CutsBounded
  <2>1. CutOff = {}
    BY DEF Init, CutOff
  <2>2. QED
    BY <2>1, FS_EmptySet DEF Init, CutsBounded
<1>4. BlockMappingExact
  BY DEF Init, BlockMappingExact, ToSet, IsInjective
<1>5. TransactionMappingExact
  BY DEF Init, TransactionMappingExact
<1>6. QED
  BY <1>1, <1>2, <1>3, <1>4, <1>5 DEF IndInv

(* write_hashes, seen column by column *)
LEMMA WriteHashesInv ==
  ASSUME IndInv, NEW b \in Blocks \ synced, NEW c,
         c = Commitment[b], c # None, WriteHashes(b, c)
  PROVE  /\ block_mapping' \in [EthHashes -> Seq(Blocks)]
         /\ transaction_mapping' \in [TxHashes -> Seq(Metadata)]
         /\ BlockMappingExact'
         /\ TransactionMappingExact'
<1> DEFINE h == c.block_hash
           ts == c.transaction_hashes
           has(t) == \E i \in DOMAIN ts : ts[i] = t
           idx(t) == CHOOSE i \in DOMAIN ts : ts[i] = t
           entry(t) == [block_hash |-> b, ethereum_block_hash |-> h,
                        ethereum_index |-> idx(t) - 1]
<1>1. h \in EthHashes /\ ts \in Seq(TxHashes) /\ synced' = synced \cup {b}
  BY CommitmentType DEF WriteHashes
<1>2. /\ block_mapping \in [EthHashes -> Seq(Blocks)]
      /\ transaction_mapping \in [TxHashes -> Seq(Metadata)]
      /\ BlockMappingExact
      /\ TransactionMappingExact
  BY DEF IndInv, TypeOK
<1>3. block_mapping' = [block_mapping EXCEPT ![h] = Append(block_mapping[h], b)]
  BY <1>1, <1>2 DEF WriteHashes
<1>4. block_mapping' \in [EthHashes -> Seq(Blocks)]
  BY <1>1, <1>2, <1>3, PushRange
<1>5. BlockMappingExact'
  <2>1. SUFFICES ASSUME NEW e \in EthHashes
                 PROVE  /\ ToSet(block_mapping'[e])
                             = {x \in synced' : Commitment[x].block_hash = e}
                        /\ IsInjective(block_mapping'[e])
    BY DEF BlockMappingExact
  <2>2. /\ ToSet(block_mapping[e]) = {x \in synced : Commitment[x].block_hash = e}
        /\ IsInjective(block_mapping[e])
        /\ block_mapping[e] \in Seq(Blocks)
    BY <1>2 DEF BlockMappingExact
  <2>3. CASE e = h
    <3>1. block_mapping'[e] = Append(block_mapping[e], b)
      BY <1>1, <1>2, <1>3, <2>3
    <3>2. b \notin ToSet(block_mapping[e])
      BY <2>2
    <3>3. QED
      BY <1>1, <2>2, <2>3, <3>1, <3>2, PushRange, PushInjective
  <2>4. CASE e # h
    BY <1>1, <1>2, <1>3, <2>2, <2>4
  <2>5. QED
    BY <2>3, <2>4
<1>6. ASSUME NEW t \in TxHashes
      PROVE  /\ transaction_mapping'[t] =
                   IF has(t) THEN Append(transaction_mapping[t], entry(t))
                             ELSE transaction_mapping[t]
             /\ has(t) => /\ entry(t) \in Metadata
                          /\ idx(t) \in DOMAIN ts
                          /\ ts[idx(t)] = t
                          /\ entry(t).block_hash = b
                          /\ entry(t).ethereum_block_hash = h
                          /\ entry(t).ethereum_index + 1 = idx(t)
  <2>1. has(t) => idx(t) \in DOMAIN ts /\ ts[idx(t)] = t
    OBVIOUS
  <2>2. DOMAIN ts = 1..Len(ts) /\ Len(ts) \in Nat
    BY <1>1
  <2>3. has(t) => idx(t) \in Nat /\ idx(t) - 1 \in Nat
    BY <2>1, <2>2
  <2>4. has(t) => entry(t) \in Metadata
    BY <1>1, <2>3 DEF Metadata
  <2>5. has(t) => entry(t).ethereum_index + 1 = idx(t)
    <3>1. \A k \in Nat : (k - 1) + 1 = k
      OBVIOUS
    <3>2. entry(t).ethereum_index = idx(t) - 1
      OBVIOUS
    <3>3. QED
      BY <2>3, <3>1, <3>2, Zenon
  <2>6. transaction_mapping'[t] = IF has(t) THEN Append(transaction_mapping[t], entry(t))
                                            ELSE transaction_mapping[t]
    BY Zenon DEF WriteHashes, AppendMetadata
  <2>7. QED
    BY <2>1, <2>4, <2>5, <2>6
<1> HIDE DEF has, idx, entry
<1>7. transaction_mapping' \in [TxHashes -> Seq(Metadata)]
  <2>1. ASSUME NEW t \in TxHashes
        PROVE  transaction_mapping'[t] \in Seq(Metadata)
    <3>1. transaction_mapping[t] \in Seq(Metadata)
      BY <1>2
    <3>2. CASE has(t)
      <4>1. transaction_mapping'[t] = Append(transaction_mapping[t], entry(t))
        BY <1>6, <3>2
      <4>2. entry(t) \in Metadata
        BY <1>6, <3>2
      <4>3. QED
        BY <3>1, <4>1, <4>2, PushRange
    <3>3. CASE ~has(t)
      BY <1>6, <3>1, <3>3
    <3>4. QED
      BY <3>2, <3>3
  <2>2. transaction_mapping' = [t \in TxHashes |-> transaction_mapping'[t]]
    BY DEF WriteHashes, AppendMetadata
  <2>3. QED
    BY <2>1, <2>2
<1>8. TransactionMappingExact'
  <2>1. SUFFICES ASSUME NEW t \in TxHashes
                 PROVE  /\ \A i \in DOMAIN transaction_mapping'[t] :
                             /\ transaction_mapping'[t][i].block_hash \in synced'
                             /\ transaction_mapping'[t][i].ethereum_block_hash
                                  = Commitment[transaction_mapping'[t][i].block_hash].block_hash
                             /\ transaction_mapping'[t][i].ethereum_index + 1
                                  \in DOMAIN Commitment[transaction_mapping'[t][i].block_hash].transaction_hashes
                             /\ Commitment[transaction_mapping'[t][i].block_hash].transaction_hashes
                                  [transaction_mapping'[t][i].ethereum_index + 1] = t
                        /\ \A x \in synced' :
                             (\E k \in DOMAIN Commitment[x].transaction_hashes :
                                 Commitment[x].transaction_hashes[k] = t)
                             => \E i \in DOMAIN transaction_mapping'[t] :
                                  transaction_mapping'[t][i].block_hash = x
                        /\ \A i, j \in DOMAIN transaction_mapping'[t] :
                             transaction_mapping'[t][i].block_hash
                               = transaction_mapping'[t][j].block_hash => i = j
    BY DEF TransactionMappingExact
  <2> DEFINE old == transaction_mapping[t]
             new == transaction_mapping'[t]
  <2>2. /\ \A i \in DOMAIN old :
             /\ old[i].block_hash \in synced
             /\ old[i].ethereum_block_hash = Commitment[old[i].block_hash].block_hash
             /\ old[i].ethereum_index + 1 \in DOMAIN Commitment[old[i].block_hash].transaction_hashes
             /\ Commitment[old[i].block_hash].transaction_hashes[old[i].ethereum_index + 1] = t
        /\ \A x \in synced :
             (\E k \in DOMAIN Commitment[x].transaction_hashes :
                 Commitment[x].transaction_hashes[k] = t)
             => \E i \in DOMAIN old : old[i].block_hash = x
        /\ \A i, j \in DOMAIN old : old[i].block_hash = old[j].block_hash => i = j
        /\ old \in Seq(Metadata)
    BY <1>2 DEF TransactionMappingExact
  <2>3. CASE ~has(t)
    <3>1. new = old
      BY <1>6, <2>3
    <3>2. \A k \in DOMAIN Commitment[b].transaction_hashes :
            Commitment[b].transaction_hashes[k] # t
      BY <2>3 DEF has
    <3>3. QED
      BY <1>1, <2>2, <3>1, <3>2
  <2>4. CASE has(t)
    <3>1. /\ new = Append(old, entry(t))
          /\ entry(t) \in Metadata
          /\ entry(t).block_hash = b
          /\ entry(t).ethereum_block_hash = h
          /\ entry(t).ethereum_index + 1 = idx(t)
          /\ idx(t) \in DOMAIN ts
          /\ ts[idx(t)] = t
      BY <1>6, <2>4
    <3>2. /\ DOMAIN new = 1..Len(old) + 1
          /\ DOMAIN old = 1..Len(old)
          /\ Len(old) \in Nat
          /\ \A i \in DOMAIN old : new[i] = old[i]
          /\ new[Len(old) + 1] = entry(t)
      BY <2>2, <3>1, PushRange
    <3>3. \A i \in DOMAIN new : i \in DOMAIN old \/ i = Len(old) + 1
      BY <3>2
    <3>4. \A i \in DOMAIN old : old[i].block_hash # b
      BY <2>2
    <3> HIDE DEF old, new
    <3>5. ASSUME NEW i \in DOMAIN new
          PROVE  /\ new[i].block_hash \in synced'
                 /\ new[i].ethereum_block_hash = Commitment[new[i].block_hash].block_hash
                 /\ new[i].ethereum_index + 1
                      \in DOMAIN Commitment[new[i].block_hash].transaction_hashes
                 /\ Commitment[new[i].block_hash].transaction_hashes
                      [new[i].ethereum_index + 1] = t
      <4>1. CASE i \in DOMAIN old
        BY <1>1, <2>2, <3>2, <4>1
      <4>2. CASE i = Len(old) + 1
        BY <1>1, <3>1, <3>2, <4>2
      <4>3. QED
        BY <3>3, <4>1, <4>2
    <3>6. ASSUME NEW x \in synced',
                 \E k \in DOMAIN Commitment[x].transaction_hashes :
                    Commitment[x].transaction_hashes[k] = t
          PROVE  \E i \in DOMAIN new : new[i].block_hash = x
      <4>1. CASE x = b
        BY <3>1, <3>2, <4>1
      <4>2. CASE x \in synced
        BY <2>2, <3>2, <3>6, <4>2
      <4>3. QED
        BY <1>1, <4>1, <4>2
    <3>7. ASSUME NEW i \in DOMAIN new, NEW j \in DOMAIN new,
                 new[i].block_hash = new[j].block_hash
          PROVE  i = j
      BY <2>2, <3>1, <3>2, <3>3, <3>4, <3>7
    <3>8. QED
      BY <3>5, <3>6, <3>7 DEF new
  <2>5. QED
    BY <2>3, <2>4
<1>9. QED
  BY <1>4, <1>5, <1>7, <1>8

-----------------------------------------------------------------------------
(* the steps of the environment *)
LEMMA ImportInv ==
  ASSUME IndInv, NEW b \in Blocks \ {Genesis}, ImportBlock(b)
  PROVE  IndInv'
<1>1. TypeOK'
  BY DEF IndInv, TypeOK, ImportBlock, db, worker, bounds
<1>2. WorkerInv' /\ CutOff' = CutOff /\ torn' = torn
  BY DEF IndInv, WorkerInv, CutOff, InWindow, ImportBlock, db, worker, bounds
<1>3. QED
  BY <1>1, <1>2, NoNewCut, MappingsUntouched DEF IndInv, ImportBlock, db

LEMMA RevertInv ==
  ASSUME IndInv, NEW b \in Blocks \ {Genesis}, RevertBlock(b)
  PROVE  IndInv'
<1>1. TypeOK'
  <2>1. reverts' \in 0..MaxReverts
    BY BoundsAssumption DEF IndInv, TypeOK, RevertBlock
  <2>2. QED
    BY <2>1, Zenon DEF IndInv, TypeOK, RevertBlock, db
<1>2. WorkerInv' /\ CutOff' = CutOff /\ torn' = torn
  BY DEF IndInv, WorkerInv, CutOff, InWindow, RevertBlock, db
<1>3. QED
  BY <1>1, <1>2, NoNewCut, MappingsUntouched DEF IndInv, RevertBlock, db

(* the steps of the worker *)
LEMMA StartInv ==
  ASSUME IndInv, StartSync
  PROVE  IndInv'
<1>1. TypeOK'
  <2>1. calls' \in 0..LIMIT
    BY BoundsAssumption DEF StartSync
  <2>2. QED
    BY <2>1, Zenon DEF IndInv, TypeOK, StartSync, db, bounds
<1>2. WorkerInv' /\ CutOff' = CutOff /\ torn' = torn
  BY DEF IndInv, WorkerInv, CutOff, InWindow, StartSync, db, bounds
<1>3. QED
  BY <1>1, <1>2, NoNewCut, MappingsUntouched DEF IndInv, StartSync, db

LEMMA SelectInv ==
  ASSUME IndInv, SelectTip
  PROVE  IndInv'
<1>1. PICK s \in Candidates : PickUnsynced(s) \/ PickNothing(s)
  BY DEF SelectTip
<1>2. s \in Seq(Blocks) /\ (tips # <<>> => s = tips)
  BY CandidatesType DEF IndInv
<1>3. UNCHANGED <<chain, db, calls, have_next, bounds>> /\ pc = "select"
  BY DEF SelectTip
<1>4. ToSet(tips) \subseteq ToSet(s)
  BY <1>2, EmptyRange
<1>5. CutsBounded'
  <2>1. ~InWindow /\ ~InWindow'
    BY <1>1, <1>3 DEF InWindow, PickUnsynced, PickNothing
  <2>2. CutOff' \subseteq CutOff /\ torn' = torn
    BY <1>3, <2>1 DEF CutOff, db, bounds
  <2>3. QED
    BY <2>2, NoNewCut DEF IndInv
<1>6. /\ todo' \in Seq(Blocks)
      /\ op' \in Blocks \cup {None}
      /\ pc' \in {"hashes", "tips"}
      /\ WorkerInv'
  <2>1. CASE PickUnsynced(s)
    <3>1. PICK i \in Unsynced(s) : /\ \A j \in Unsynced(s) : j <= i
                                  /\ op' = s[i]
                                  /\ todo' = SubSeq(s, 1, i - 1)
                                  /\ pc' = "hashes"
      BY <2>1 DEF PickUnsynced
    <3>2. i \in DOMAIN s /\ s[i] \notin synced
          /\ \A j \in DOMAIN s : s[j] \notin synced => j <= i
      BY <3>1 DEF Unsynced
    <3>3. /\ todo' \in Seq(Blocks)
          /\ op' \in Blocks
          /\ ToSet(s) \subseteq ToSet(todo') \cup synced \cup {op'}
      BY <1>2, <3>1, <3>2, PopRange
    <3>4. QED
      BY <1>3, <1>4, <3>1, <3>2, <3>3 DEF WorkerInv, db
  <2>2. CASE PickNothing(s)
    <3>1. ToSet(s) \subseteq synced
      BY <2>2 DEF PickNothing, Unsynced, ToSet
    <3>2. QED
      BY <1>3, <1>4, <2>2, <3>1, EmptyRange DEF PickNothing, WorkerInv, db
  <2>3. QED
    BY <1>1, <2>1, <2>2
<1>7. TypeOK'
  BY <1>3, <1>6 DEF IndInv, TypeOK, chain, db, bounds
<1>8. QED
  BY <1>3, <1>5, <1>6, <1>7, MappingsUntouched DEF IndInv, db

LEMMA SyncBlockInv ==
  ASSUME IndInv, SyncBlock
  PROVE  IndInv'
<1>1. PICK c \in {Commitment[op]} \ {None} : WriteHashes(op, c)
  BY DEF SyncBlock, ParentPushed
<1>2. /\ op \in Blocks \ synced
      /\ pc' = "tips" /\ op' = op /\ op # None
      /\ tips' = tips /\ torn' = torn
      /\ synced' = synced \cup {op}
      /\ ToSet(tips) \subseteq ToSet(todo) \cup synced \cup {op}
      /\ todo \in Seq(Blocks)
  BY <1>1, GenesisAssumption DEF IndInv, TypeOK, WorkerInv, SyncBlock, ParentPushed, WriteHashes, bounds
<1>3. /\ block_mapping' \in [EthHashes -> Seq(Blocks)]
      /\ transaction_mapping' \in [TxHashes -> Seq(Metadata)]
      /\ BlockMappingExact'
      /\ TransactionMappingExact'
  BY <1>1, <1>2, WriteHashesInv
<1>4. /\ todo' \in Seq(Blocks)
      /\ ToSet(todo) \subseteq ToSet(todo')
      /\ op # Genesis => Header[op].parent \in ToSet(todo')
  <2>1. CASE Header[op].number = 0
    <3>1. op = Genesis
      BY <1>2, <2>1, HeaderAssumption, GenesisAssumption
    <3>2. QED
      BY <1>2, <2>1, <3>1 DEF SyncBlock, ParentPushed
  <2>2. CASE Header[op].number # 0
    <3>1. op # Genesis
      BY <2>2, HeaderAssumption
    <3>2. Header[op].parent \in Blocks
      BY <1>2, <3>1, HeaderAssumption
    <3>3. todo' = Append(todo, Header[op].parent)
      BY <2>2 DEF SyncBlock, ParentPushed
    <3>4. QED
      BY <1>2, <3>2, <3>3, PushRange
  <2>3. QED
    BY <2>1, <2>2
<1>5. TypeOK'
  BY <1>2, <1>3, <1>4 DEF IndInv, TypeOK, SyncBlock, ParentPushed, chain, bounds
<1>6. WorkerInv'
  BY <1>2, <1>4 DEF WorkerInv
<1>7. CommittedInv'
  BY <1>1, <1>2 DEF IndInv, CommittedInv
<1>8. CutsBounded'
  <2>1. CutOff' \subseteq CutOff
    <3>1. SUFFICES ASSUME NEW b \in CutOff' PROVE b \in CutOff
      OBVIOUS
    <3>2. InWindow' /\ ~InWindow
      BY <1>2 DEF InWindow, SyncBlock, ParentPushed
    <3>3. /\ b \in synced' \ {Genesis} /\ b # op
          /\ Header[b].parent \notin synced'
          /\ Header[b].parent \notin ToSet(tips)
      BY <1>2, <3>1, <3>2 DEF CutOff
    <3>4. QED
      BY <1>2, <3>2, <3>3 DEF CutOff
  <2>2. QED
    BY <1>2, <2>1, NoNewCut DEF IndInv
<1>9. QED
  BY <1>3, <1>5, <1>6, <1>7, <1>8 DEF IndInv

LEMMA WriteTipsInv ==
  ASSUME IndInv, WriteTips
  PROVE  IndInv'
<1>1. /\ pc = "tips" /\ tips' = todo /\ todo' = <<>> /\ op' = None
      /\ pc' \in {"idle", "select"}
      /\ UNCHANGED <<block_mapping, transaction_mapping, synced, imported, notified,
                     faults, torn, reverts>>
  BY DEF WriteTips, chain, bounds
<1>2. TypeOK'
  <2>1. calls' \in 0..LIMIT
    BY BoundsAssumption DEF IndInv, TypeOK, WriteTips
  <2>2. have_next' \in BOOLEAN
    BY Zenon DEF IndInv, TypeOK, WriteTips
  <2>3. todo' \in Seq(Blocks)
    BY <1>1, EmptyRange
  <2>4. QED
    BY <1>1, <2>1, <2>2, <2>3 DEF IndInv, TypeOK
<1>3. WorkerInv'
  BY <1>1 DEF WorkerInv
<1>4. CutsBounded'
  <2>1. /\ ToSet(tips) \subseteq ToSet(todo) \cup synced
        /\ op \notin {None, Genesis} => Header[op].parent \in ToSet(todo)
        /\ ~InWindow'
    BY <1>1 DEF IndInv, WorkerInv, InWindow
  <2>2. CutOff' \subseteq CutOff
    <3>1. SUFFICES ASSUME NEW b \in CutOff' PROVE b \in CutOff
      OBVIOUS
    <3>2. /\ b \in synced \ {Genesis}
          /\ Header[b].parent \notin synced
          /\ Header[b].parent \notin ToSet(todo)
      BY <1>1, <2>1, <3>1 DEF CutOff
    <3>3. ~(InWindow /\ b = op)
      BY <2>1, <3>2 DEF InWindow
    <3>4. QED
      BY <2>1, <3>2, <3>3 DEF CutOff
  <2>3. QED
    BY <1>1, <2>2, NoNewCut DEF IndInv
<1>5. QED
  BY <1>1, <1>2, <1>3, <1>4, MappingsUntouched DEF IndInv

(* the ways a poll can be cut short *)
LEMMA CutShortInv ==
  ASSUME IndInv, TipUnusable \/ SyncFails \/ Restart
  PROVE  IndInv'
<1>1. /\ UNCHANGED <<imported, block_mapping, transaction_mapping, synced, tips, reverts>>
      /\ pc' = "idle" /\ op' = None /\ todo' = <<>> /\ calls' = 0
      /\ have_next' \in BOOLEAN
      /\ notified' \in {notified, FALSE}
  BY DEF TipUnusable, SyncFails, Restart, Abort, chain, db, bounds
<1>2. /\ torn' = IF InWindow THEN torn + 1 ELSE torn
      /\ faults' \in 0..MaxFaults
      /\ torn' \in 0..MaxTorn
  <2>1. CASE TipUnusable
    BY <2>1 DEF IndInv, TypeOK, TipUnusable, bounds, InWindow
  <2>2. CASE SyncFails \/ Restart
    BY <2>2, BoundsAssumption DEF IndInv, TypeOK, SyncFails, Restart, Spend
  <2>3. QED
    BY <2>1, <2>2
<1>3. TypeOK'
  <2>1. todo' \in Seq(Blocks) /\ calls' \in 0..LIMIT
    BY <1>1, EmptyRange, BoundsAssumption
  <2>2. QED
    BY <1>1, <1>2, <2>1 DEF IndInv, TypeOK
<1>4. QED
  BY <1>1, <1>2, <1>3, BackToIdle

LEMMA NextInv == IndInv /\ [Next]_vars => IndInv'
<1> SUFFICES ASSUME IndInv, [Next]_vars PROVE IndInv'
  OBVIOUS
<1>1. CASE \E b \in Blocks \ {Genesis} : ImportBlock(b) \/ RevertBlock(b)
  BY <1>1, ImportInv, RevertInv
<1>2. CASE FireOnNotification \/ FireOnHaveNext \/ FireOnDelay
  BY <1>2, StartInv DEF FireOnNotification, FireOnHaveNext, FireOnDelay
<1>3. CASE SelectTip
  BY <1>3, SelectInv
<1>4. CASE SyncBlock
  BY <1>4, SyncBlockInv
<1>5. CASE WriteTips
  BY <1>5, WriteTipsInv
<1>6. CASE TipUnusable \/ SyncFails \/ Restart
  BY <1>6, CutShortInv
<1>7. CASE UNCHANGED vars
  <2>1. TypeOK' /\ WorkerInv' /\ CutsBounded'
    BY <1>7 DEF IndInv, TypeOK, WorkerInv, CutsBounded, CutOff, InWindow, vars
  <2>2. QED
    BY <1>7, <2>1, MappingsUntouched DEF IndInv, vars
<1>8. QED
  BY <1>1, <1>2, <1>3, <1>4, <1>5, <1>6, <1>7 DEF Next

LEMMA Inductive == Spec => []IndInv
BY InitInv, NextInv, PTL DEF Spec

-----------------------------------------------------------------------------
(* The refinement: the lists of the database, read as sets, change only    *)
(* when write_hashes commits, and then as IndexBlock says.                 *)

LEMMA IndexInit == Init => Index!InitIndex
BY EmptyRange DEF Init, Index!InitIndex

(* steps that leave the lists alone *)
LEMMA IndexUntouched ==
  ASSUME UNCHANGED <<block_mapping, transaction_mapping>>
  PROVE  UNCHANGED <<[e \in EthHashes |-> ToSet(block_mapping[e])],
                     [t \in TxHashes |-> ToSet(transaction_mapping[t])]>>
OBVIOUS

(* the list of a transaction grows by its place in the block *)
LEMMA MetadataAdded ==
  ASSUME IndInv, NEW b \in Blocks, Commitment[b] # None, NEW t \in TxHashes
  PROVE  ToSet(AppendMetadata(b, Commitment[b])[t])
           = ToSet(transaction_mapping[t])
               \cup {Index!MetadataAt(b, i) : i \in Index!Positions(b, t)}
<1> DEFINE c == Commitment[b]
           ts == c.transaction_hashes
           idx == CHOOSE i \in DOMAIN ts : ts[i] = t
           entry == [block_hash |-> b, ethereum_block_hash |-> c.block_hash,
                     ethereum_index |-> idx - 1]
<1>1. /\ c.block_hash \in EthHashes /\ ts \in Seq(TxHashes) /\ IsInjective(ts)
      /\ transaction_mapping[t] \in Seq(Metadata)
  BY CommitmentType DEF IndInv, TypeOK
<1>2. CASE \E i \in DOMAIN ts : ts[i] = t
  <2>1. idx \in DOMAIN ts /\ ts[idx] = t
    BY <1>2
  <2>2. \A i \in DOMAIN ts : ts[i] = t => i = idx
    BY <1>1, <2>1 DEF IsInjective
  <2>3. Index!Positions(b, t) = {idx}
    BY <2>1, <2>2 DEF Index!Positions
  <2>4. Index!MetadataAt(b, idx) = entry
    BY DEF Index!MetadataAt
  <2>5. idx - 1 \in Nat
    BY <1>1, <2>1
  <2>6. entry \in Metadata
    BY <1>1, <2>5 DEF Metadata
  <2>7. AppendMetadata(b, c)[t] = Append(transaction_mapping[t], entry)
    BY <1>2 DEF AppendMetadata
  <2> HIDE DEF idx, entry
  <2>8. ToSet(AppendMetadata(b, c)[t]) = ToSet(transaction_mapping[t]) \cup {entry}
    BY <1>1, <2>6, <2>7, PushRange
  <2>9. QED
    BY <2>3, <2>4, <2>8
<1>3. CASE ~\E i \in DOMAIN ts : ts[i] = t
  <2>1. Index!Positions(b, t) = {}
    BY <1>3 DEF Index!Positions
  <2>2. AppendMetadata(b, c)[t] = transaction_mapping[t]
    BY <1>3 DEF AppendMetadata
  <2>3. QED
    BY <2>1, <2>2
<1>4. QED
  BY <1>2, <1>3

(* the commit of write_hashes is one step of the index *)
LEMMA SyncBlockIndexes ==
  ASSUME IndInv, SyncBlock
  PROVE  Index!IndexBlock(op) /\ op \in Blocks
<1> DEFINE h == Commitment[op].block_hash
           bh == [e \in EthHashes |-> ToSet(block_mapping[e])]
<1>1. /\ op \in Blocks \ synced /\ op \in imported /\ UNCHANGED imported
      /\ Commitment[op] # None /\ WriteHashes(op, Commitment[op])
  BY GenesisAssumption DEF IndInv, TypeOK, WorkerInv, SyncBlock, ParentPushed, chain
<1>2. /\ h \in EthHashes
      /\ block_mapping \in [EthHashes -> Seq(Blocks)]
      /\ block_mapping' = [block_mapping EXCEPT ![h] = Append(block_mapping[h], op)]
      /\ transaction_mapping' = AppendMetadata(op, Commitment[op])
  BY <1>1, CommitmentType DEF IndInv, TypeOK, WriteHashes
<1>3. op \notin Index!Indexed
  BY <1>1 DEF IndInv, BlockMappingExact, Index!Indexed
<1>4. bh' = [bh EXCEPT ![h] = bh[h] \cup {op}]
  <2>1. ASSUME NEW e \in EthHashes
        PROVE  ToSet(block_mapping'[e])
                 = IF e = h THEN ToSet(block_mapping[e]) \cup {op} ELSE ToSet(block_mapping[e])
    <3>1. CASE e = h
      BY <1>1, <1>2, <3>1, PushRange
    <3>2. CASE e # h
      BY <1>2, <3>2
    <3>3. QED
      BY <3>1, <3>2
  <2>2. QED
    BY <1>2, <2>1
<1>5. [t \in TxHashes |-> ToSet(transaction_mapping'[t])]
        = [t \in TxHashes |->
             [u \in TxHashes |-> ToSet(transaction_mapping[u])][t]
               \cup {Index!MetadataAt(op, i) : i \in Index!Positions(op, t)}]
  <2>1. ASSUME NEW t \in TxHashes
        PROVE  ToSet(transaction_mapping'[t])
                 = ToSet(transaction_mapping[t])
                     \cup {Index!MetadataAt(op, i) : i \in Index!Positions(op, t)}
    BY <1>1, <1>2, MetadataAdded
  <2>2. QED
    BY <2>1
<1>6. QED
  BY <1>1, <1>2, <1>3, <1>4, <1>5 DEF Index!IndexBlock

LEMMA IndexStep == IndInv /\ [Next]_vars => [Index!NextIndex]_Index!indexVars
<1> SUFFICES ASSUME IndInv, [Next]_vars PROVE [Index!NextIndex]_Index!indexVars
  OBVIOUS
<1>1. CASE SyncBlock
  BY <1>1, SyncBlockIndexes DEF Index!NextIndex
<1>2. ASSUME NEW b \in Blocks \ {Genesis}, ImportBlock(b) PROVE Index!Import(b)
  BY <1>2, IndexUntouched DEF ImportBlock, db, Index!Import, Index!index
<1>3. ASSUME NEW b \in Blocks \ {Genesis}, RevertBlock(b) PROVE Index!Revert(b)
  BY <1>3, IndexUntouched DEF RevertBlock, Best, db, Index!Revert, Index!index
<1>4. CASE \/ FireOnNotification \/ FireOnHaveNext \/ FireOnDelay \/ SelectTip \/ WriteTips
           \/ TipUnusable \/ SyncFails \/ Restart \/ UNCHANGED vars
  <2>1. UNCHANGED <<imported, block_mapping, transaction_mapping>>
    BY <1>4 DEF FireOnNotification, FireOnHaveNext, FireOnDelay, StartSync, SelectTip,
                WriteTips, TipUnusable, SyncFails, Restart, Abort, chain, db, vars
  <2>2. QED
    BY <2>1, IndexUntouched DEF Index!indexVars
<1>5. QED
  BY <1>1, <1>2, <1>3, <1>4 DEF Next, Index!NextIndex

-----------------------------------------------------------------------------
(* Every variable of the node and its database keeps its type, for every   *)
(* block tree: in particular the worker never puts anything but a block on *)
(* its list of tips (it does not walk past genesis).                       *)
THEOREM TypeCorrect == Spec => []TypeOK
<1>1. IndInv => TypeOK
  BY DEF IndInv
<1>2. QED
  BY Inductive, <1>1, PTL

(* fc-db's BLOCK_MAPPING lists each synced block exactly once, under its   *)
(* own Ethereum hash, whatever errors, restarts and reverts happen.        *)
THEOREM BlockMappingCorrect == Spec => []BlockMappingExact
<1>1. IndInv => BlockMappingExact
  BY DEF IndInv
<1>2. QED
  BY Inductive, <1>1, PTL

(* fc-db's TRANSACTION_MAPPING lists each transaction of each synced block *)
(* exactly once, with the right block and index.                           *)
THEOREM TransactionMappingCorrect == Spec => []TransactionMappingExact
<1>1. IndInv => TransactionMappingExact
  BY DEF IndInv
<1>2. QED
  BY Inductive, <1>1, PTL

(* The walk towards genesis loses at most one link for every error or      *)
(* restart between the two commits of sync_one_block, and none without.    *)
THEOREM WalkKeepsItsPlace == Spec => []GapsBounded
<1>1. IndInv => GapsBounded
  <2> SUFFICES ASSUME IndInv PROVE GapsBounded
    OBVIOUS
  <2>1. Orphaned \subseteq CutOff
    BY DEF IndInv, WorkerInv, Orphaned, CutOff, InWindow
  <2>2. IsFiniteSet(CutOff) /\ Cardinality(CutOff) \in Nat
    BY CutOffFinite DEF IndInv
  <2>3. IsFiniteSet(Orphaned) /\ Cardinality(Orphaned) <= Cardinality(CutOff)
    BY <2>1, <2>2, FS_Subset
  <2>4. Cardinality(Orphaned) \in Nat /\ torn \in Nat
    BY <2>3, FS_CardinalityType DEF IndInv, TypeOK
  <2>5. QED
    BY <2>2, <2>3, <2>4 DEF IndInv, CutsBounded, GapsBounded
<1>2. QED
  BY Inductive, <1>1, PTL

(* MappingSync implements EthIndex: through all faults and reverts a       *)
(* reader of fc-db sees blocks appear whole, once, while the node has      *)
(* them, and never disappear.                                              *)
THEOREM DatabaseImplementsIndex == Spec => ImplementsIndex
<1>1. Spec => Index!InitIndex /\ [][Index!NextIndex]_Index!indexVars
  BY Inductive, IndexInit, IndexStep, PTL DEF Spec
<1>2. QED
  BY <1>1 DEF ImplementsIndex, Index!SpecIndex
=============================================================================
