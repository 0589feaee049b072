----------------------------- MODULE PureProofs -----------------------------
(***************************************************************************)
(* Proofs about the functions of the project without state of their own.   *)
(* Each is first shown correct for every input, then for the inputs that   *)
(* MCPure draws: Drawn is what is known of an input.                       *)
(***************************************************************************)
EXTENDS MCPure, ConsensusLogProofs

-----------------------------------------------------------------------------
(* The cost of a precompile, its input and its panics.                     *)

(* Saturation cannot hide a cost: a target that is kept to is never        *)
(* exceeded, and a cost is exact while the length does not reach the       *)
(* width.                                                                  *)
LEMMA LinearCost ==
  ASSUME NEW target \in Int, NEW len \in Nat, NEW base \in Nat, NEW word \in Nat
  PROVE  LET cost == ensure_linear_cost(target, len, base, word)
             exact == base + word * ((len + 31) \div 32) IN
         /\ len + 31 < U64 =>
              cost = IF exact >= U64 \/ (target >= 0 /\ exact > target) THEN -1 ELSE exact
         /\ target >= 0 => cost <= target
<1> DEFINE words == saturating(len + 31) \div 32
           product == word * words
<1>1. U64 \in Nat /\ U64 > 0
  BY WidthAssumption
<1>2. saturating(len + 31) \in Nat
  BY <1>1 DEF saturating
<1>3. words \in Nat
  BY <1>2
<1>4. len + 31 < U64 => words = (len + 31) \div 32
  BY <1>1 DEF saturating
<1> HIDE DEF words
<1>5. product \in Nat
  BY <1>3
<1>6. len + 31 < U64 => product = word * ((len + 31) \div 32)
  BY <1>4
<1>7. ensure_linear_cost(target, len, base, word) =
        IF product >= U64 \/ base + product >= U64 \/ (target >= 0 /\ base + product > target)
        THEN -1 ELSE base + product
  <2>1. CASE product >= U64
    BY <1>1, <1>5, <2>1 DEF ensure_linear_cost, words
  <2>2. CASE product < U64 /\ base + product >= U64
    BY <1>1, <1>5, <2>2 DEF ensure_linear_cost, words
  <2>3. CASE product < U64 /\ base + product < U64
    BY <1>1, <1>5, <2>3 DEF ensure_linear_cost, words
  <2> QED
    BY <1>1, <1>5, <2>1, <2>2, <2>3
<1> HIDE DEF product
<1>8. ASSUME len + 31 < U64
      PROVE  ensure_linear_cost(target, len, base, word) =
               IF base + product >= U64 \/ (target >= 0 /\ base + product > target)
               THEN -1 ELSE base + product
  BY <1>1, <1>5, <1>7
<1>9. target >= 0 => ensure_linear_cost(target, len, base, word) <= target
  BY <1>1, <1>5, <1>7
<1> QED
  BY <1>6, <1>8, <1>9

(* What a precompile knows of its input: the lengths its header declares.  *)
Lengths(i) == i.len \in Nat /\ i.base_len \in Nat /\ i.exp_len \in Nat /\ i.mod_len \in Nat

(* The recoveries slice their buffer, and the input as far as it fits the  *)
(* buffer: the ranges are inside and as long as what they go to.           *)
LEMMA RecoverSlices ==
  ASSUME NEW i, Lengths(i), NEW output
  PROVE  Recover(i, output).res # "panic"
<1> DEFINE n == IF i.len < 128 THEN i.len ELSE 128
           buffer == [len |-> 128]
<1>1. n \in Nat /\ n <= 128 /\ n <= i.len /\ buffer.len = 128
  BY DEF Lengths
<1> HIDE DEF n, buffer
<1>2. Slice(buffer, 0, n) /\ CopyFromSlice(n, i, 0, n) /\ Slice(buffer, 63, 64)
  BY <1>1 DEF Slice, CopyFromSlice
<1>3. \A at \in {0, 64, 96} : CopyFromSlice(32, buffer, at, at + 32)
  BY <1>1 DEF Slice, CopyFromSlice
<1>4. Recover(i, output) = IF i.accepted THEN Returned(output) ELSE OtherError
  BY <1>2, <1>3 DEF Recover, n, buffer
<1> QED
  BY <1>4 DEF Returned, OtherError

LEMMA ResultKinds ==
  /\ OtherError.res = "Other" /\ Panicked.res = "panic" /\ OutOfGas.res = "OutOfGas"
  /\ \A n : Returned(n).res = "Ok" /\ Returned(n).output = n
  BY DEF OtherError, Panicked, OutOfGas, Returned

(* The slices of the pairing precompile and of Modexp stay inside the      *)
(* input, whatever lengths the header declares.                            *)
LEMMA PairingSlices ==
  ASSUME NEW i, Lengths(i)
  PROVE  Bn128Pairing(i).res # "panic"
<1> DEFINE q == i.len \div 192
           slices == [k \in 1 .. q |-> <<(k - 1) * 192, k * 192>>]
<1>1. i.len \in Nat /\ q \in Nat /\ 192 * q <= i.len
  BY DEF Lengths
<1> HIDE DEF q
<1>2. ASSUME NEW k \in DOMAIN slices PROVE Slice(i, slices[k][1], slices[k][2])
  <2>1. k \in 1 .. q /\ slices[k][1] = (k - 1) * 192 /\ slices[k][2] = k * 192
    OBVIOUS
  <2>2. k \in Nat /\ k <= q
    BY <1>1, <2>1
  <2>3. (k - 1) * 192 <= k * 192 /\ k * 192 <= i.len
    BY <1>1, <2>2
  <2> QED
    BY <2>1, <2>3 DEF Slice
<1> HIDE DEF slices
<1>3. Points(i, slices, 32).res # "panic"
  BY <1>2, ResultKinds DEF Points
<1> QED
  BY <1>3 DEF Bn128Pairing, slices, q

LEMMA ModexpSlices ==
  ASSUME NEW i, Lengths(i)
  PROVE  /\ Modexp(i).res # "panic"
         /\ Modexp(i).res = "Ok" => /\ Modexp(i).output = i.mod_len
                                    /\ i.len >= 96 + i.base_len + i.exp_len + i.mod_len
<1>1. CASE i.len < 96 \/ \E l \in {i.base_len, i.exp_len, i.mod_len} : l > MAX_SIZE
  BY <1>1, ResultKinds DEF Modexp, Lengths
<1>2. CASE ~(i.len < 96 \/ \E l \in {i.base_len, i.exp_len, i.mod_len} : l > MAX_SIZE)
  <2> DEFINE total == 96 + i.base_len + i.exp_len + i.mod_len
  <2>1. Slice(i, 96, 96 + i.base_len) /\ Slice(i, 96 + i.base_len, 96 + i.base_len + i.exp_len)
        /\ Slice(i, 96 + i.base_len + i.exp_len, total) <=> i.len >= total
    BY DEF Slice, Lengths
  <2>2. Modexp(i) = IF i.len < total THEN OtherError
                    ELSE IF i.base_len = 0 /\ i.mod_len = 0 THEN OtherError
                    ELSE IF i.mod_len = 0 THEN OtherError ELSE Returned(i.mod_len)
    BY <1>2, <2>1 DEF Modexp, Lengths
  <2> QED
    BY <2>2, ResultKinds DEF Lengths
<1> QED
  BY <1>1, <1>2

(* Only the three precompiles that slice or copy without looking at the    *)
(* length of their input can panic.                                        *)
LEMMA RunPanics ==
  ASSUME NEW name \in Linear, NEW i, Lengths(i)
  PROVE  Run(name, i).res = "panic" => name \in {"Bn128Add", "Bn128Mul", "Blake2F"}
<1>1. CASE name \in {"Identity", "Ripemd160", "Sha256", "Sha3FIPS256", "Sha3FIPS512"}
  BY <1>1, ResultKinds DEF Run, Identity, Ripemd160, Sha256, Sha3FIPS256, Sha3FIPS512
<1>2. CASE name \in {"ECRecover", "ECRecoverPublicKey"}
  BY <1>2, RecoverSlices DEF Run, ECRecover, ECRecoverPublicKey
<1>3. CASE name = "Ed25519Verify"
  BY <1>3, ResultKinds DEF Run, Ed25519Verify
<1>4. CASE name = "Modexp"
  BY <1>4, ModexpSlices DEF Run
<1>5. CASE name = "Bn128Pairing"
  BY <1>5, PairingSlices DEF Run
<1> QED
  BY <1>1, <1>2, <1>3, <1>4, <1>5 DEF Linear

(* A linear-cost precompile panics or answers only as its body does.       *)
LEMMA ExecuteOutcome ==
  ASSUME NEW name, NEW i, NEW target
  PROVE  /\ Execute(name, i, target).res = "panic" => Run(name, i).res = "panic"
         /\ Execute(name, i, target).res = "Ok" =>
              Run(name, i).res = "Ok" /\ Execute(name, i, target).output = Run(name, i).output
<1> DEFINE cost == ensure_linear_cost(target, i.len, Cost(name)[1], Cost(name)[2])
           r == Run(name, i)
           x == [res |-> "Ok", output |-> r.output, cost |-> cost]
<1>1. Execute(name, i, target) = IF cost = -1 THEN OutOfGas ELSE IF r.res = "Ok" THEN x ELSE r
  BY DEF Execute
<1>2. x.res = "Ok" /\ x.output = r.output
  OBVIOUS
<1> HIDE DEF cost, r, x
<1>3. Execute(name, i, target) = OutOfGas \/ (r.res = "Ok" /\ Execute(name, i, target) = x)
      \/ (r.res # "Ok" /\ Execute(name, i, target) = r)
  BY <1>1
<1>4. OutOfGas.res = "OutOfGas"
  BY ResultKinds
<1> QED
  BY <1>2, <1>3, <1>4 DEF r

(* A dispatched call costs more than it was given only when it reports     *)
(* more weight than it declared.                                           *)
LEMMA DispatchCost ==
  ASSUME NEW call, call.weight \in Nat, call.actual_weight \in Nat, NEW target \in Int
  PROVE  Dispatch(call, target).res = "Ok" /\ target >= 0 /\ Dispatch(call, target).cost > target =>
           call.actual_weight > call.weight
<1> DEFINE paid == [res |-> "Ok", output |-> 0, cost |-> call.actual_weight]
<1>1. paid.cost = call.actual_weight
  OBVIOUS
<1> HIDE DEF paid
<1>2. \/ Dispatch(call, target) = OtherError
      \/ Dispatch(call, target) = OutOfGas
      \/ ~(target >= 0 /\ call.weight > target) /\ Dispatch(call, target) = paid
  BY DEF Dispatch, paid
<1> QED
  BY <1>1, <1>2, ResultKinds

-----------------------------------------------------------------------------
(* The walk of eth_getTransactionCount over the ready transactions.        *)

(* The tag a transaction provides names its sender and its nonce.          *)
LEMMA TagsDiffer ==
  ASSUME NEW tx, NEW a, NEW n
  PROVE  Head(Provides(tx)) = Tag_(a, n) <=> tx.from = a /\ tx.nonce = n
  BY DEF Provides, Tag_

CountStep(ready, a) ==
  [i \in DOMAIN ready |-> [v \in Nat |->
     IF ready[i].from = a /\ ready[i].nonce = v THEN v + 1 ELSE v]]

(* The count is the end of a walk along the ready queue.                   *)
LEMMA CountPath ==
  ASSUME NEW X, NEW ready \in Seq(X), NEW a, NEW nonce \in Nat
  PROVE  \E p : /\ Path(Len(ready), Nat, nonce, CountStep(ready, a), p)
                /\ p[Len(ready)] = transaction_count(ready, a, nonce)
<1> DEFINE n == Len(ready)
           V == Nat
           G == CountStep(ready, a)
           Arm(i, v) == IF Head(Provides(ready[i])) = Tag_(a, v) THEN v + 1 ELSE v
           Def(it) == it = [s \in SUBSET (DOMAIN ready) |->
                              IF s = {} THEN nonce ELSE Arm(Max(s), it[s \ {Max(s)}])]
<1>1. n \in Nat /\ DOMAIN ready = 1 .. n
  OBVIOUS
<1>2. \A i \in 1 .. n : \A v \in V : Arm(i, v) = G[i][v] /\ G[i][v] \in V
  BY <1>1, TagsDiffer DEF CountStep
<1> HIDE DEF Arm, V, G
<1>3. Steps(n, V, nonce, G)
  BY <1>2 DEF Steps, V
<1>4. PICK it : LeftFold(n, V, nonce, G, it)
  BY <1>1, <1>3, LeftFoldDefined
<1>5. \A s \in SUBSET (1 .. n) : s # {} => Max(s) \in 1 .. n
  BY <1>1, LastIsGreatest
<1>6. Def(it)
  <2>1. ASSUME NEW s \in SUBSET (1 .. n), s # {}
        PROVE  it[s] = Arm(Max(s), it[s \ {Max(s)}])
    <3>1. Max(s) \in 1 .. n
      BY <1>5, <2>1
    <3>2. it[s \ {Max(s)}] \in V
      BY <1>4 DEF LeftFold
    <3>3. it[s] = G[Max(s)][it[s \ {Max(s)}]]
      BY <1>4, <2>1 DEF LeftFold
    <3> QED
      BY <1>2, <3>1, <3>2, <3>3
  <2> QED
    BY <1>1, <1>4, <2>1 DEF LeftFold
<1> DEFINE jt == CHOOSE j : Def(j)
<1>7. Def(jt)
  <2> HIDE DEF Def
  <2> QED
    BY <1>6
<1>8. transaction_count(ready, a, nonce) = jt[1 .. n]
  BY <1>1 DEF transaction_count, FoldLeft, MapThenFoldSet, jt, Arm
<1> HIDE DEF jt
<1>9. Unwinds(n, V, nonce, G, jt)
  BY <1>1, <1>2, <1>5, <1>7 DEF Unwinds
<1>10. PICK p : Path(n, V, nonce, G, p) /\ p[n] = jt[1 .. n]
  <2> HIDE DEF n
  <2> QED
    BY <1>1, <1>3, <1>9, LeftFoldPath
<1> QED
  BY <1>8, <1>10 DEF V, G

Nonces(ready, a) == {ready[i].nonce : i \in {j \in DOMAIN ready : ready[j].from = a}}

(* One walk counts every transaction that continues the account's nonce,   *)
(* in every order in which a pool can yield them: after k transactions the *)
(* count is above every nonce of the account among them, and every nonce   *)
(* that it passed is there.                                                *)
THEOREM CountIsExact ==
  ASSUME NEW X, NEW ready \in Seq(X), NEW nonces, NEW a, nonces[a] \in Nat,
         \A i \in DOMAIN ready : ready[i].nonce \in Nat, IsReadyOrder(ready, nonces)
  PROVE  LET c == transaction_count(ready, a, nonces[a]) IN
         /\ c \in Nat /\ c >= nonces[a]
         /\ c \notin Nonces(ready, a)
         /\ nonces[a] .. c - 1 \subseteq Nonces(ready, a)
<1> DEFINE n == Len(ready)
           b == nonces[a]
<1>1. n \in Nat /\ DOMAIN ready = 1 .. n /\ b \in Nat
  OBVIOUS
<1>2. PICK p : Path(n, Nat, b, CountStep(ready, a), p) /\ p[n] = transaction_count(ready, a, b)
  BY CountPath
<1> HIDE DEF n, b
<1> DEFINE Passed(k) == /\ p[k] >= b
                        /\ \A i \in 1 .. k : ready[i].from = a => ready[i].nonce < p[k]
                        /\ b .. p[k] - 1 \subseteq Nonces(ready, a)
           Q == {k \in 0 .. n : Passed(k)}
<1>3. p[0] = b /\ \A k \in 0 .. n : p[k] \in Nat
  BY <1>2 DEF Path
<1>4. 0 \in Q
  <2>1. 0 \in 0 .. n /\ 1 .. 0 = {} /\ b .. b - 1 = {}
    BY <1>1
  <2> QED
    BY <1>1, <1>3, <2>1
<1>5. ASSUME NEW k \in 0 .. n, k # n, k \in Q PROVE k + 1 \in Q
  <2> DEFINE i == k + 1
             tx == ready[i]
  <2>1. i \in 1 .. n /\ i \in 0 .. n /\ i - 1 = k /\ i \in DOMAIN ready
    BY <1>1, <1>5
  <2>2. p[k] \in Nat /\ p[i] \in Nat /\ Passed(k) /\ tx.nonce \in Nat
    BY <1>3, <1>5, <2>1
  <2>3. p[i] = IF tx.from = a /\ tx.nonce = p[k] THEN p[k] + 1 ELSE p[k]
    BY <1>2, <2>1, <2>2 DEF Path, CountStep
  <2>4. ASSUME tx.from = a PROVE tx.nonce <= p[k]
    <3>1. CASE tx.nonce <= b
      BY <1>1, <2>2, <3>1
    <3>2. CASE tx.nonce > b
      <4>1. Requires(tx, b) = {Tag_(a, tx.nonce - 1)}
        BY <2>4, <3>2 DEF Requires
      <4>2. PICK j \in 1 .. i - 1 : Head(Provides(ready[j])) = Tag_(a, tx.nonce - 1)
        BY <2>1, <2>4, <4>1 DEF IsReadyOrder, b
      <4>3. ready[j].from = a /\ ready[j].nonce = tx.nonce - 1 /\ j \in 1 .. k
        BY <2>1, <4>2, TagsDiffer
      <4>4. tx.nonce - 1 < p[k]
        BY <2>2, <4>3
      <4> QED
        BY <2>2, <4>4
    <3> QED
      BY <1>1, <2>2, <3>1, <3>2
  <2>5. 1 .. i = (1 .. k) \cup {i}
    BY <2>1
  <2>6. CASE tx.from = a /\ tx.nonce = p[k]
    <3>1. p[i] = p[k] + 1
      BY <2>3, <2>6
    <3>2. p[k] \in Nonces(ready, a)
      BY <2>1, <2>6 DEF Nonces
    <3>3. b .. p[i] - 1 = (b .. p[k] - 1) \cup {p[k]}
      <4> DEFINE c == p[k]
      <4>1. b \in Nat /\ c \in Nat /\ c >= b
        BY <1>1, <2>2
      <4> HIDE DEF c, b
      <4>2. b .. (c + 1) - 1 = (b .. c - 1) \cup {c}
        BY <4>1
      <4> QED
        BY <3>1, <4>2 DEF c
    <3>4. \A j \in 1 .. i : ready[j].from = a => ready[j].nonce < p[i]
      <4> TAKE j \in 1 .. i
      <4>1. CASE j \in 1 .. k
        <5>1. j \in DOMAIN ready
          BY <1>1, <2>1, <4>1
        <5> QED
          BY <2>2, <3>1, <4>1, <5>1
      <4>2. CASE j = i
        BY <2>2, <2>6, <3>1, <4>2
      <4> QED
        BY <2>5, <4>1, <4>2
    <3> QED
      BY <1>1, <2>1, <2>2, <3>1, <3>2, <3>3, <3>4
  <2>7. CASE ~(tx.from = a /\ tx.nonce = p[k])
    <3>1. p[i] = p[k]
      BY <2>3, <2>7
    <3>2. tx.from = a => tx.nonce < p[i]
      BY <2>2, <2>4, <2>7, <3>1
    <3>3. \A j \in 1 .. i : ready[j].from = a => ready[j].nonce < p[i]
      BY <2>2, <2>5, <3>1, <3>2
    <3> QED
      BY <2>1, <2>2, <3>1, <3>3
  <2> QED
    BY <2>6, <2>7
<1>6. n \in Q
  <2>1. n \in 0 .. n
    BY <1>1
  <2> HIDE DEF Q
  <2> QED
    BY <1>1, <1>4, <1>5, <2>1, PrefixInduction
<1>7. p[n] \in Nat /\ p[n] \notin Nonces(ready, a)
  BY <1>1, <1>3, <1>6 DEF Nonces
<1> QED
  BY <1>2, <1>6, <1>7 DEF b

-----------------------------------------------------------------------------
(* The gas of a block up to a transaction: summed in 32 bits by            *)
(* transaction_receipt, and exactly.                                       *)

Gas(r) == [i \in DOMAIN r |-> r[i].used_gas]

(* the steps of a sum of the weights w, in 32 bits and exactly *)
WrappingSum(w) == [i \in DOMAIN w |-> [v \in Nat |-> (v + w[i]) % U32]]
ExactSum(w) == [i \in DOMAIN w |-> [v \in Nat |-> v + w[i]]]


(* The two sums of gas are the ends of paths of additions, exact and       *)
(* wrapping.                                                               *)
LEMMA ExactGasPath ==
  ASSUME NEW X, NEW r \in Seq(X), Gas(r) \in [DOMAIN r -> Nat]
  PROVE  \E p : /\ Path(Len(r), Nat, 0, ExactSum(Gas(r)), p)
                /\ p[Len(r)] = ExactGas(r)
<1> DEFINE n == Len(r)
           V == Nat
           G == ExactSum(Gas(r))
           Arm(i, v) == v + r[i].used_gas
           Def(it) == it = [s \in SUBSET (DOMAIN r) |->
                              IF s = {} THEN 0 ELSE Arm(Max(s), it[s \ {Max(s)}])]
<1>1. n \in Nat /\ DOMAIN r = 1 .. n
  OBVIOUS
<1>2. \A i \in 1 .. n : \A v \in V : Arm(i, v) = G[i][v] /\ G[i][v] \in V
  BY <1>1 DEF ExactSum, Gas
<1> HIDE DEF Arm, V, G
<1>3. Steps(n, V, 0, G)
  BY <1>2 DEF Steps, V
<1>4. PICK it : LeftFold(n, V, 0, G, it)
  BY <1>1, <1>3, LeftFoldDefined
<1>5. \A s \in SUBSET (1 .. n) : s # {} => Max(s) \in 1 .. n
  BY <1>1, LastIsGreatest
<1>6. Def(it)
  <2>1. ASSUME NEW s \in SUBSET (1 .. n), s # {}
        PROVE  it[s] = Arm(Max(s), it[s \ {Max(s)}])
    <3>1. Max(s) \in 1 .. n
      BY <1>5, <2>1
    <3>2. it[s \ {Max(s)}] \in V
      BY <1>4 DEF LeftFold
    <3>3. it[s] = G[Max(s)][it[s \ {Max(s)}]]
      BY <1>4, <2>1 DEF LeftFold
    <3> QED
      BY <1>2, <3>1, <3>2, <3>3
  <2> QED
    BY <1>1, <1>4, <2>1 DEF LeftFold
<1> DEFINE jt == CHOOSE j : Def(j)
<1>7. Def(jt)
  <2> HIDE DEF Def
  <2> QED
    BY <1>6
<1>8. ExactGas(r) = jt[1 .. n]
  BY <1>1 DEF ExactGas, FoldLeft, MapThenFoldSet, jt, Arm
<1> HIDE DEF jt
<1>9. Unwinds(n, V, 0, G, jt)
  BY <1>1, <1>2, <1>5, <1>7 DEF Unwinds
<1>10. PICK p : Path(n, V, 0, G, p) /\ p[n] = jt[1 .. n]
  <2> HIDE DEF n
  <2> QED
    BY <1>1, <1>3, <1>9, LeftFoldPath
<1> QED
  BY <1>8, <1>10 DEF V, G


LEMMA GasPath ==
  ASSUME NEW X, NEW r \in Seq(X), Gas(r) \in [DOMAIN r -> Nat]
  PROVE  \E p : /\ Path(Len(r), Nat, 0, WrappingSum(Gas(r)), p)
                /\ p[Len(r)] = SumOver(r, LAMBDA x : x.used_gas)
<1> DEFINE n == Len(r)
           V == Nat
           G == WrappingSum(Gas(r))
           Arm(i, v) == (v + r[i].used_gas) % U32
           Def(it) == it = [s \in SUBSET (DOMAIN r) |->
                              IF s = {} THEN 0 ELSE Arm(Max(s), it[s \ {Max(s)}])]
<1>1. n \in Nat /\ DOMAIN r = 1 .. n
  OBVIOUS
<1>2. \A i \in 1 .. n : \A v \in V : Arm(i, v) = G[i][v] /\ G[i][v] \in V
  BY <1>1, IndexAssumption DEF WrappingSum, Gas
<1> HIDE DEF Arm, V, G
<1>3. Steps(n, V, 0, G)
  BY <1>2 DEF Steps, V
<1>4. PICK it : LeftFold(n, V, 0, G, it)
  BY <1>1, <1>3, LeftFoldDefined
<1>5. \A s \in SUBSET (1 .. n) : s # {} => Max(s) \in 1 .. n
  BY <1>1, LastIsGreatest
<1>6. Def(it)
  <2>1. ASSUME NEW s \in SUBSET (1 .. n), s # {}
        PROVE  it[s] = Arm(Max(s), it[s \ {Max(s)}])
    <3>1. Max(s) \in 1 .. n
      BY <1>5, <2>1
    <3>2. it[s \ {Max(s)}] \in V
      BY <1>4 DEF LeftFold
    <3>3. it[s] = G[Max(s)][it[s \ {Max(s)}]]
      BY <1>4, <2>1 DEF LeftFold
    <3> QED
      BY <1>2, <3>1, <3>2, <3>3
  <2> QED
    BY <1>1, <1>4, <2>1 DEF LeftFold
<1> DEFINE jt == CHOOSE j : Def(j)
<1>7. Def(jt)
  <2> HIDE DEF Def
  <2> QED
    BY <1>6
<1>8. SumOver(r, LAMBDA x : x.used_gas) = jt[1 .. n]
  BY <1>1 DEF SumOver, FoldLeft, MapThenFoldSet, jt, Arm
<1> HIDE DEF jt
<1>9. Unwinds(n, V, 0, G, jt)
  BY <1>1, <1>2, <1>5, <1>7 DEF Unwinds
<1>10. PICK p : Path(n, V, 0, G, p) /\ p[n] = jt[1 .. n]
  <2> HIDE DEF n
  <2> QED
    BY <1>1, <1>3, <1>9, LeftFoldPath
<1> QED
  BY <1>8, <1>10 DEF V, G

(* Division with remainder has one solution.                               *)
LEMMA RemainderIsUnique ==
  ASSUME NEW M \in Nat \ {0}, NEW x \in Nat, NEW k \in Int, NEW r \in 0 .. M - 1, x = M * k + r
  PROVE  x % M = r
<1> DEFINE k2 == x \div M
           r2 == x % M
<1>1. k2 \in Int /\ r2 \in 0 .. M - 1 /\ x = M * k2 + r2
  BY Z3
<1> HIDE DEF k2, r2
<1> DEFINE d == k - k2
<1>2. d \in Int /\ M * d = M * k - M * k2 /\ M * d = r2 - r
  BY <1>1, Z3
<1> HIDE DEF d
<1>3. d = 0
  <2>1. CASE d >= 1
    <3>1. M * d >= M
      BY <1>2, <2>1, Z3
    <3> QED
      BY <1>1, <1>2, <3>1, Z3
  <2>2. CASE d <= -1
    <3>1. M * d <= M * (-1) /\ M * (-1) = -M
      BY <1>2, <2>2, Z3
    <3> QED
      BY <1>1, <1>2, <3>1, Z3
  <2> QED
    BY <1>2, <2>1, <2>2
<1>4. r = r2
  BY <1>1, <1>2, <1>3, Z3
<1> QED
  BY <1>4 DEF r2

(* Wrapping at every addition is wrapping once.                            *)
LEMMA RemainderOfSum ==
  ASSUME NEW M \in Nat \ {0}, NEW a \in Nat, NEW b \in Nat
  PROVE  /\ ((a % M) + b) % M = (a + b) % M
         /\ a % M \in Nat
<1> DEFINE q == a \div M
           r == a % M
<1>1. q \in Int /\ r \in 0 .. M - 1 /\ a = M * q + r
  BY Z3
<1> HIDE DEF q, r
<1> DEFINE q2 == (r + b) \div M
           r2 == (r + b) % M
<1>2. q2 \in Int /\ r2 \in 0 .. M - 1 /\ r + b = M * q2 + r2
  BY <1>1, Z3
<1> HIDE DEF q2, r2
<1>3. a + b = M * (q + q2) + r2
  <2>1. M * (q + q2) = M * q + M * q2
    BY <1>1, <1>2, Z3
  <2> QED
    BY <1>1, <1>2, <2>1, Z3
<1>4. q + q2 \in Int /\ a + b \in Nat
  BY <1>1, <1>2
<1>5. (a + b) % M = r2
  BY <1>2, <1>3, <1>4, RemainderIsUnique
<1> QED
  BY <1>1, <1>5 DEF r, r2

LEMMA SmallRemainder ==
  ASSUME NEW M \in Nat \ {0}, NEW a \in Nat, a < M
  PROVE  a % M = a
<1>1. a = M * 0 + a /\ a \in 0 .. M - 1
  OBVIOUS
<1> QED
  BY <1>1, RemainderIsUnique

Prefix(w, m) == [i \in 1 .. m |-> w[i]]

(* The sums over a prefix, exact and wrapping, and the sum over the whole. *)
LEMMA PrefixSums ==
  ASSUME NEW n \in Nat, NEW w \in [1 .. n -> Nat], NEW m \in 0 .. n,
         NEW e, Path(n, Nat, 0, ExactSum(w), e),
         NEW x, Path(m, Nat, 0, ExactSum(Prefix(w, m)), x),
         NEW s, Path(m, Nat, 0, WrappingSum(Prefix(w, m)), s)
  PROVE  /\ x[m] = e[m] /\ s[m] = e[m] % U32
         /\ e[m] \in Nat /\ e[n] \in Nat /\ e[m] <= e[n]
<1> DEFINE Q == {k \in 0 .. m : x[k] = e[k] /\ s[k] = e[k] % U32}
           R == {k \in 0 .. n : k >= m => e[m] <= e[k]}
<1>1. U32 \in Nat \ {0}
  BY IndexAssumption
<1>2. m \in Nat /\ m <= n /\ m \in 0 .. m /\ n \in 0 .. n /\ 0 \in 0 .. m /\ 0 \in 0 .. n
  OBVIOUS
<1>3. \A k \in 0 .. n : e[k] \in Nat
  BY DEF Path
<1>4. \A k \in 1 .. n : e[k] = e[k - 1] + w[k]
  <2> TAKE k \in 1 .. n
  <2>1. k - 1 \in 0 .. n
    OBVIOUS
  <2> QED
    BY <1>3, <2>1 DEF Path, ExactSum
<1>5. \A k \in 1 .. m : /\ x[k] = x[k - 1] + w[k] /\ s[k] = (s[k - 1] + w[k]) % U32
                       /\ w[k] \in Nat /\ k \in 1 .. n
  <2> TAKE k \in 1 .. m
  <2>1. k - 1 \in 0 .. m /\ k \in 1 .. n
    BY <1>2
  <2>2. x[k - 1] \in Nat /\ s[k - 1] \in Nat /\ Prefix(w, m)[k] = w[k]
    BY <2>1 DEF Path, Prefix
  <2>3. DOMAIN Prefix(w, m) = 1 .. m
    BY DEF Prefix
  <2>4. x[k] = x[k - 1] + w[k]
    BY <2>1, <2>2, <2>3 DEF Path, ExactSum
  <2>5. s[k] = (s[k - 1] + w[k]) % U32
    BY <2>1, <2>2, <2>3 DEF Path, WrappingSum
  <2> QED
    BY <2>1, <2>4, <2>5
<1>6. 0 \in Q
  <2>1. x[0] = 0 /\ s[0] = 0 /\ e[0] = 0
    BY DEF Path
  <2>2. 0 % U32 = 0
    BY <1>1, SmallRemainder
  <2> QED
    BY <1>2, <2>1, <2>2
<1>7. ASSUME NEW k \in 0 .. m, k # m, k \in Q PROVE k + 1 \in Q
  <2>1. k + 1 \in 1 .. m /\ k + 1 \in 0 .. m /\ k \in 0 .. n /\ (k + 1) - 1 = k
    BY <1>2, <1>7
  <2>2. /\ x[k + 1] = x[k] + w[k + 1] /\ s[k + 1] = (s[k] + w[k + 1]) % U32
        /\ e[k + 1] = e[k] + w[k + 1] /\ w[k + 1] \in Nat /\ e[k] \in Nat
    BY <1>3, <1>4, <1>5, <2>1
  <2>3. ((e[k] % U32) + w[k + 1]) % U32 = (e[k] + w[k + 1]) % U32
    BY <1>1, <2>2, RemainderOfSum
  <2> QED
    BY <1>7, <2>1, <2>2, <2>3
<1>8. m \in Q
  <2> HIDE DEF Q
  <2> QED
    BY <1>2, <1>6, <1>7, PrefixInduction
<1>9. 0 \in R
  BY <1>2, <1>3
<1>10. ASSUME NEW k \in 0 .. n, k # n, k \in R PROVE k + 1 \in R
  <2>1. k + 1 \in 1 .. n /\ k + 1 \in 0 .. n /\ (k + 1) - 1 = k
    BY <1>2, <1>10
  <2>2. e[k + 1] = e[k] + w[k + 1] /\ w[k + 1] \in Nat /\ e[k] \in Nat
    BY <1>3, <1>4, <2>1
  <2>3. e[m] \in Nat
    BY <1>3
  <2>4. CASE k + 1 = m
    BY <2>1, <2>3, <2>4
  <2>5. CASE k + 1 # m
    BY <1>2, <1>10, <2>1, <2>2, <2>3, <2>5
  <2> QED
    BY <2>4, <2>5
<1>11. n \in R
  <2> HIDE DEF R
  <2> QED
    BY <1>2, <1>9, <1>10, PrefixInduction
<1> QED
  BY <1>2, <1>3, <1>8, <1>11

(* The exact sums of any weights are a path.                               *)
LEMMA ExactSums ==
  ASSUME NEW n \in Nat, NEW w \in [1 .. n -> Nat]
  PROVE  \E e : Path(n, Nat, 0, ExactSum(w), e)
<1>1. Steps(n, Nat, 0, ExactSum(w))
  BY DEF Steps, ExactSum
<1>2. PICK it : LeftFold(n, Nat, 0, ExactSum(w), it)
  BY <1>1, LeftFoldDefined
<1>3. Unwinds(n, Nat, 0, ExactSum(w), it)
  BY <1>2 DEF LeftFold, Unwinds
<1> QED
  BY <1>1, <1>3, LeftFoldPath

(* The sums of a path of additions grow.                                   *)
LEMMA SumsGrow ==
  ASSUME NEW n \in Nat, NEW w \in [1 .. n -> Nat], NEW e, Path(n, Nat, 0, ExactSum(w), e)
  PROVE  /\ e \in [0 .. n -> Nat] /\ e[0] = 0
         /\ \A k \in 1 .. n : e[k] = e[k - 1] + w[k]
         /\ \A i, k \in 0 .. n : i <= k => e[i] <= e[k]
<1>1. e \in [0 .. n -> Nat] /\ e[0] = 0
  BY DEF Path
<1>2. \A k \in 1 .. n : e[k] = e[k - 1] + w[k]
  <2> TAKE k \in 1 .. n
  <2>1. k - 1 \in 0 .. n
    OBVIOUS
  <2> QED
    BY <1>1, <2>1 DEF Path, ExactSum
<1>3. ASSUME NEW i \in 0 .. n PROVE \A k \in 0 .. n : i <= k => e[i] <= e[k]
  <2> DEFINE Q == {k \in 0 .. n : i <= k => e[i] <= e[k]}
  <2>1. 0 \in Q
    BY <1>1
  <2>2. ASSUME NEW k \in 0 .. n, k # n, k \in Q PROVE k + 1 \in Q
    <3>1. k + 1 \in 1 .. n /\ k + 1 \in 0 .. n /\ (k + 1) - 1 = k
      BY <2>2
    <3>2. e[k + 1] = e[k] + w[k + 1] /\ w[k + 1] \in Nat /\ e[k] \in Nat /\ e[i] \in Nat
      BY <1>1, <1>2, <3>1
    <3>3. CASE k + 1 = i
      BY <3>1, <3>2, <3>3
    <3>4. CASE k + 1 # i
      BY <2>2, <3>1, <3>2, <3>4
    <3> QED
      BY <3>3, <3>4
  <2>3. \A k \in 0 .. n : k \in Q
    <3> HIDE DEF Q
    <3> QED
      BY <2>1, <2>2, PrefixInduction
  <2> QED
    BY <2>3
<1> QED
  BY <1>1, <1>2, <1>3

(* While the gas of the transactions up to one fits 32 bits, its receipt   *)
(* does not panic and its cumulative gas is exact, whatever the            *)
(* transactions after it use.                                              *)
THEOREM CumulativeGasIsExact ==
  ASSUME NEW X, NEW r \in Seq(X), Gas(r) \in [DOMAIN r -> Nat], NEW i \in DOMAIN r,
         ExactGas(SubSeq(r, 1, i)) < U32
  PROVE  cumulative_gas_used(r, i - 1) = ExactGas(SubSeq(r, 1, i))
<1> DEFINE t == SubSeq(r, 1, i)
           w == Gas(t)
           sum == SumOver(t, LAMBDA y : y.used_gas)
<1>1. DOMAIN r = 1 .. Len(r) /\ Len(r) \in Nat /\ i \in Nat /\ i \in 0 .. i
  OBVIOUS
<1>2. t \in Seq(X) /\ Len(t) = i /\ DOMAIN t = 1 .. i /\ \A k \in 1 .. i : t[k] = r[k]
  BY <1>1
<1>3. w \in [DOMAIN t -> Nat] /\ w \in [1 .. i -> Nat] /\ \A k \in 1 .. i : w[k] = t[k].used_gas
  BY <1>1, <1>2 DEF Gas
<1>4. cumulative_gas_used(r, i - 1) =
        IF \E k \in DOMAIN t : t[k].used_gas >= U32 THEN -1 ELSE sum
  <2>1. (i - 1) + 1 = i
    BY <1>1
  <2> QED
    BY <2>1 DEF cumulative_gas_used
<1> HIDE DEF t, sum
<1>5. PICK x : Path(i, Nat, 0, ExactSum(w), x) /\ x[i] = ExactGas(t)
  BY <1>2, <1>3, ExactGasPath
<1>6. PICK s : Path(i, Nat, 0, WrappingSum(w), s) /\ s[i] = sum
  BY <1>2, <1>3, GasPath DEF sum
<1> HIDE DEF w
<1>7. PICK e : Path(Len(r), Nat, 0, ExactSum(Gas(r)), e)
  BY <1>1, ExactSums
<1>8. s[i] = x[i] % U32
  <2> DEFINE n == Len(r)
             g == Gas(r)
  <2>1. w = Prefix(g, i)
    BY <1>1, <1>2 DEF w, t, Gas, Prefix
  <2>2. /\ n \in Nat /\ i \in 0 .. n /\ g \in [1 .. n -> Nat]
        /\ Path(n, Nat, 0, ExactSum(g), e)
        /\ Path(i, Nat, 0, ExactSum(Prefix(g, i)), x)
        /\ Path(i, Nat, 0, WrappingSum(Prefix(g, i)), s)
    BY <1>1, <1>5, <1>6, <1>7, <2>1
  <2> HIDE DEF n, g, Path
  <2> QED
    BY <2>2, PrefixSums
<1>9. x \in [0 .. i -> Nat] /\ (\A k \in 1 .. i : x[k] = x[k - 1] + w[k])
      /\ \A k, l \in 0 .. i : k <= l => x[k] <= x[l]
  BY <1>1, <1>3, <1>5, SumsGrow
<1>10. U32 \in Nat \ {0} /\ x[i] \in Nat /\ x[i] < U32
  BY <1>1, <1>5, <1>9, IndexAssumption DEF t
<1>11. ASSUME NEW k \in DOMAIN t PROVE t[k].used_gas < U32 /\ t[k].used_gas \in Nat
  <2>1. k \in 1 .. i /\ k \in 0 .. i /\ k - 1 \in 0 .. i /\ k <= i
    BY <1>1, <1>2
  <2>2. x[k] = x[k - 1] + w[k] /\ x[k] <= x[i] /\ x[k] \in Nat /\ x[k - 1] \in Nat /\ w[k] \in Nat
    BY <1>1, <1>3, <1>9, <2>1
  <2>3. w[k] < U32
    BY <1>10, <2>2
  <2> QED
    BY <1>3, <2>1, <2>2, <2>3
<1>12. \A k \in DOMAIN t : ~(t[k].used_gas >= U32)
  BY <1>10, <1>11
<1>13. x[i] % U32 = x[i]
  BY <1>10, SmallRemainder
<1> QED
  BY <1>4, <1>5, <1>6, <1>8, <1>12, <1>13 DEF t

-----------------------------------------------------------------------------
(* The four searches of a digest.                                          *)

(* More than one log: two of them at different positions.                  *)
LEMMA MoreThanOne ==
  ASSUME NEW n \in Nat, NEW L \in SUBSET (1 .. n)
  PROVE  Cardinality(L) > 1 <=> \E i, j \in L : i # j
<1>1. IsFiniteSet(L)
  <2>1. IsFiniteSet(1 .. n)
    BY FS_Interval
  <2> QED
    BY <2>1, FS_Subset
<1>2. Cardinality(L) \in Nat
  BY <1>1, FS_CardinalityType
<1>3. CASE L = {}
  BY <1>3, FS_EmptySet
<1>4. CASE \E i : L = {i}
  BY <1>4, FS_Singleton
<1>5. CASE \E i, j \in L : i # j
  <2>1. Cardinality(L) # 0
    BY <1>1, <1>5, FS_EmptySet
  <2>2. Cardinality(L) # 1
    BY <1>1, <1>5, FS_Singleton
  <2> QED
    BY <1>2, <1>5, <2>1, <2>2
<1>6. CASE L # {} /\ ~\E i, j \in L : i # j
  <2>1. PICK i \in L : TRUE
    BY <1>6
  <2>2. L = {i}
    BY <1>6, <2>1
  <2> QED
    BY <1>4, <2>2
<1> QED
  BY <1>3, <1>5, <1>6

(* On every digest the importer's check, the search of the sync worker and *)
(* those of the runtime see the same logs.                                 *)
THEOREM SearchesAgree ==
  ASSUME NEW X, NEW d \in Seq(X)
  PROVE  /\ ensure_log(d) = find_log(d).res
         /\ find_log(d) = NotFound <=> LogsOf(d) = {}
         /\ find_log(d) = MultipleLogs <=> Cardinality(LogsOf(d)) > 1
         /\ \A i \in LogsOf(d) : LogsOf(d) = {i} => find_log(d) = Found(d[i])
         /\ find_log(d).res = "Ok" =>
              {find_pre_log(d), find_post_log(d)} = {NotFound, find_log(d)}
<1> DEFINE n == Len(d)
           L == LogsOf(d)
           pre == PreLogsOf(d)
           post == PostLogsOf(d)
<1>1. n \in Nat /\ DOMAIN d = 1 .. n /\ L \in SUBSET (1 .. n)
  BY DEF LogsOf, PreLogsOf, PostLogsOf
<1>2. L = pre \cup post /\ pre \cap post = {}
  BY NotBoth DEF LogsOf, PreLogsOf, PostLogsOf
<1>3. ensure_log(d) = find_log(d).res
  BY EnsureAgreesWithFindLog
<1>4. /\ L = {} => find_log(d) = NotFound
      /\ \A i \in 1 .. n : L = {i} => find_log(d) = Found(d[i])
      /\ (\E i, j \in L : i # j) => find_log(d) = MultipleLogs
  BY <1>1, FindSearches DEF Searched, FoundIn
<1>5. /\ pre = {} => find_pre_log(d) = NotFound
      /\ \A i \in 1 .. n : pre = {i} => find_pre_log(d) = Found(d[i])
  BY <1>1, PreSearches DEF Searched, FoundIn
<1>6. /\ post = {} => find_post_log(d) = NotFound
      /\ \A i \in 1 .. n : post = {i} => find_post_log(d) = Found(d[i])
  BY <1>1, PostSearches DEF Searched, FoundIn
<1>7. Cardinality(L) > 1 <=> \E i, j \in L : i # j
  <2> HIDE DEF L, n
  <2> QED
    BY <1>1, MoreThanOne
<1>8. L = {} \/ (\E i \in 1 .. n : L = {i}) \/ \E i, j \in L : i # j
  BY <1>1
<1> HIDE DEF n, L, pre, post
<1>9. /\ find_log(d) = NotFound <=> L = {}
      /\ find_log(d) = MultipleLogs <=> \E i, j \in L : i # j
      /\ \A i \in L : L = {i} => find_log(d) = Found(d[i])
      /\ find_log(d).res = "Ok" => \E i \in 1 .. n : L = {i}
  BY <1>1, <1>4, <1>8, ResultsDiffer
<1>10. ASSUME NEW i \in 1 .. n, L = {i}
       PROVE  {find_pre_log(d), find_post_log(d)} = {NotFound, find_log(d)}
  <2>1. (pre = {i} /\ post = {}) \/ (pre = {} /\ post = {i})
    BY <1>2, <1>10
  <2> QED
    BY <1>4, <1>5, <1>6, <1>10, <2>1
<1> QED
  BY <1>3, <1>7, <1>9, <1>10 DEF L

-----------------------------------------------------------------------------
(* The bytes of an index.                                                  *)

(* Division with remainder has one solution.                               *)
LEMMA QuotientIsUnique ==
  ASSUME NEW M \in Nat \ {0}, NEW x \in Nat, NEW k \in Int, NEW r \in 0 .. M - 1, x = M * k + r
  PROVE  x \div M = k
<1> DEFINE k2 == x \div M
           r2 == x % M
<1>1. k2 \in Int /\ r2 \in 0 .. M - 1 /\ x = M * k2 + r2
  BY Z3
<1>2. r2 = r
  BY RemainderIsUnique
<1> HIDE DEF k2, r2
<1> DEFINE d == k - k2
<1>3. d \in Int /\ M * d = M * k - M * k2
  BY <1>1, Z3
<1>4. M * d = 0
  BY <1>1, <1>2, <1>3, Z3
<1> HIDE DEF d
<1>5. d = 0
  BY <1>3, <1>4, Z3
<1> QED
  BY <1>1, <1>5 DEF d, k2

(* Dropping the last byte first.                                           *)
LEMMA QuotientByProduct ==
  ASSUME NEW B \in Nat \ {0}, NEW P \in Nat \ {0}, NEW m \in Nat, NEW c \in 0 .. B - 1
  PROVE  (B * m + c) \div (B * P) = m \div P
<1> DEFINE q == m \div P
           r == m % P
<1>1. q \in Int /\ r \in 0 .. P - 1 /\ m = P * q + r
  BY Z3
<1> HIDE DEF q, r
<1> DEFINE M == B * P
           s == B * r + c
           x == B * m + c
<1>2. M \in Nat \ {0} /\ x \in Nat
  <2>1. B * P >= 1 /\ B * P \in Int /\ B * m >= 0 /\ B * m \in Int
    BY Z3
  <2> QED
    BY <2>1
<1>3. s \in 0 .. M - 1
  <2>1. B * r \in Int /\ B * r >= 0 /\ B * r <= B * (P - 1)
    BY <1>1, Z3
  <2>2. B * (P - 1) = B * P - B
    BY Z3
  <2>3. B * P \in Int
    BY Z3
  <2> QED
    BY <2>1, <2>2, <2>3, Z3
<1>4. x = M * q + s
  <2>1. B * m = B * (P * q) + B * r
    BY <1>1, Z3
  <2>2. B * (P * q) = (B * P) * q
    BY <1>1, Z3
  <2>3. B * m \in Int /\ B * r \in Int /\ (B * P) * q \in Int
    BY <1>1, Z3
  <2> QED
    BY <1>1, <2>1, <2>2, <2>3
<1> HIDE DEF M, s, x
<1>5. x \div M = q
  BY <1>1, <1>2, <1>3, <1>4, QuotientIsUnique
<1> QED
  BY <1>5 DEF x, M, q

(* The recursive function Numbers exists: n steps of it do, for every n.   *)
Positive == Nat \ {0}

Times(n) == [i \in 1 .. n |-> [v \in Positive |-> BYTE * v]]

ProductOf(n, p) == Path(n, Positive, 1, Times(n), p)

(* The equations of the recursion, written forwards.                       *)
LEMMA ProductSteps ==
  ASSUME NEW n \in Nat, NEW p
  PROVE  ProductOf(n, p) <=> /\ p \in [0 .. n -> Positive] /\ p[0] = 1
                             /\ \A k \in 1 .. n : p[k] = BYTE * p[k - 1]
<1>1. ASSUME p \in [0 .. n -> Positive], NEW k \in 1 .. n
      PROVE  Times(n)[k][p[k - 1]] = BYTE * p[k - 1]
  <2>1. k - 1 \in 0 .. n
    OBVIOUS
  <2>2. p[k - 1] \in Positive
    BY <1>1, <2>1
  <2> QED
    BY <2>2 DEF Times
<1> QED
  BY <1>1 DEF ProductOf, Path

(* They have a solution for every number of bytes, and the solutions       *)
(* agree, so the recursive function is what its equation says.             *)
LEMMA ProductExists ==
  ASSUME NEW n \in Nat
  PROVE  \E p : ProductOf(n, p)
<1> DEFINE one == 1
           V == Positive
           G == Times(n)
<1>1. one \in V /\ \A i \in 1 .. n : \A v \in V : G[i][v] \in V
  <2>1. \A v \in Positive : BYTE * v \in Positive
    <3>1. BYTE \in Positive
      BY StorageAssumption DEF Positive
    <3> QED
      BY <3>1, Z3 DEF Positive
  <2> QED
    BY <2>1 DEF Times, Positive
<1> HIDE DEF one, V, G
<1>2. Steps(n, V, one, G)
  BY <1>1 DEF Steps
<1>3. PICK it : LeftFold(n, V, one, G, it)
  BY <1>2, LeftFoldDefined
<1>4. Unwinds(n, V, one, G, it)
  BY <1>3 DEF LeftFold, Unwinds
<1>5. \E p : Path(n, V, one, G, p)
  BY <1>2, <1>4, LeftFoldPath
<1> QED
  BY <1>5 DEF one, V, G, ProductOf

LEMMA ProductIsUnique ==
  ASSUME NEW n \in Nat, NEW p, ProductOf(n, p), NEW q, ProductOf(n + 1, q)
  PROVE  q[n] = p[n]
<1> DEFINE Q == {k \in 0 .. n : q[k] = p[k]}
<1>1. /\ p[0] = 1 /\ q[0] = 1
      /\ \A k \in 1 .. n : p[k] = BYTE * p[k - 1]
      /\ \A k \in 1 .. n + 1 : q[k] = BYTE * q[k - 1]
  BY ProductSteps
<1>2. 0 \in Q
  BY <1>1
<1>3. ASSUME NEW k \in 0 .. n, k # n, k \in Q PROVE k + 1 \in Q
  <2>1. k + 1 \in 1 .. n /\ k + 1 \in 1 .. n + 1 /\ (k + 1) - 1 = k /\ k + 1 \in 0 .. n
    BY <1>3
  <2> QED
    BY <1>1, <1>3, <2>1
<1>4. n \in Q
  <2>1. n \in 0 .. n
    OBVIOUS
  <2> HIDE DEF Q
  <2> QED
    BY <1>2, <1>3, <2>1, PrefixInduction
<1> QED
  BY <1>4

LEMMA NumbersFacts ==
  /\ Numbers[0] = 1
  /\ \A k \in Nat : Numbers[k + 1] = BYTE * Numbers[k] /\ Numbers[k] \in Positive
<1> DEFINE P(n) == CHOOSE p : ProductOf(n, p)
           f == [k \in Nat |-> P(k)[k]]
           Def(g) == g = [k \in Nat |-> IF k = 0 THEN 1 ELSE BYTE * g[k - 1]]
<1>1. \A n \in Nat : ProductOf(n, P(n))
  BY ProductExists
<1> HIDE DEF P
<1>2. f[0] = 1
  BY <1>1, ProductSteps
<1>3. ASSUME NEW k \in Nat PROVE f[k + 1] = BYTE * f[k]
  <2>1. ProductOf(k, P(k)) /\ ProductOf(k + 1, P(k + 1)) /\ k + 1 \in Nat
    BY <1>1
  <2>2. P(k + 1)[k] = P(k)[k]
    BY <2>1, ProductIsUnique
  <2>3. k + 1 \in 1 .. k + 1 /\ (k + 1) - 1 = k
    OBVIOUS
  <2>4. P(k + 1)[k + 1] = BYTE * P(k + 1)[k]
    BY <2>1, <2>3, ProductSteps
  <2> QED
    BY <2>1, <2>2, <2>4
<1>4. Def(f)
  <2>1. \A k \in Nat : k # 0 => f[k] = BYTE * f[k - 1]
    <3> TAKE k \in Nat
    <3>1. k # 0 => k - 1 \in Nat /\ (k - 1) + 1 = k
      OBVIOUS
    <3> QED
      BY <1>3, <3>1
  <2>2. f = [k \in Nat |-> f[k]]
    OBVIOUS
  <2> HIDE DEF f
  <2> QED
    BY <1>2, <2>1, <2>2
<1>5. Def(Numbers)
  <2>1. Numbers = CHOOSE g : Def(g)
    BY DEF Numbers
  <2> HIDE DEF Def
  <2> QED
    BY <1>4, <2>1
<1>6. Numbers[0] = 1 /\ \A k \in Nat : Numbers[k + 1] = BYTE * Numbers[k]
  BY <1>5
<1>7. ASSUME NEW n \in Nat PROVE Numbers[n] \in Positive
  <2> DEFINE Q == {k \in 0 .. n : Numbers[k] \in Positive}
  <2>1. 0 \in Q
    BY <1>6 DEF Positive
  <2>2. ASSUME NEW k \in 0 .. n, k # n, k \in Q PROVE k + 1 \in Q
    <3>1. Numbers[k + 1] = BYTE * Numbers[k] /\ Numbers[k] \in Positive /\ k + 1 \in 0 .. n
      BY <1>6, <2>2
    <3>2. BYTE \in Positive
      BY StorageAssumption DEF Positive
    <3>3. BYTE * Numbers[k] \in Positive
      BY <3>1, <3>2, Z3 DEF Positive
    <3> QED
      BY <3>1, <3>3
  <2>3. n \in 0 .. n
    OBVIOUS
  <2> HIDE DEF Q
  <2>4. n \in Q
    BY <2>1, <2>2, <2>3, PrefixInduction
  <2> QED
    BY <2>4 DEF Q
<1> QED
  BY <1>6, <1>7

(* The bytes of m, of which there are k, are d.                            *)
Digits(k) == [1 .. k -> 0 .. BYTE - 1]

HasDigits(m, k, d) == \A i \in 1 .. k : (m \div Numbers[k - i]) % BYTE = d[i]

(* Every sequence of bytes is that of a number.                            *)
LEMMA EveryBytes ==
  ASSUME NEW n \in Nat, NEW d \in Digits(n)
  PROVE  \E m \in 0 .. Numbers[n] - 1 : HasDigits(m, n, d)
<1> DEFINE Q == {k \in 0 .. n : \E m \in 0 .. Numbers[k] - 1 : HasDigits(m, k, d)}
<1>1. BYTE \in Nat \ {0}
  BY StorageAssumption
<1>2. 0 \in Q
  <2>1. 0 \in 0 .. Numbers[0] - 1 /\ HasDigits(0, 0, d)
    BY NumbersFacts DEF HasDigits
  <2> QED
    BY <2>1
<1>3. ASSUME NEW k \in 0 .. n, k # n, k \in Q PROVE k + 1 \in Q
  <2>1. PICK m \in 0 .. Numbers[k] - 1 : HasDigits(m, k, d)
    BY <1>3
  <2> DEFINE c == d[k + 1]
             x == BYTE * m + c
  <2>2. k \in Nat /\ k + 1 \in 1 .. n /\ k + 1 \in 0 .. n
    BY <1>3
  <2>3. c \in 0 .. BYTE - 1
    BY <2>2 DEF Digits
  <2>4. m \in Nat /\ Numbers[k] \in Nat \ {0} /\ Numbers[k + 1] = BYTE * Numbers[k]
    BY <2>2, NumbersFacts DEF Positive
  <2>5. x \in 0 .. Numbers[k + 1] - 1
    <3>1. m <= Numbers[k] - 1
      BY <2>1, <2>4
    <3>2. BYTE * m \in Int /\ BYTE * m >= 0 /\ BYTE * m <= BYTE * (Numbers[k] - 1)
      BY <1>1, <2>4, <3>1, Z3
    <3>3. BYTE * (Numbers[k] - 1) = BYTE * Numbers[k] - BYTE /\ BYTE * Numbers[k] \in Int
      BY <1>1, <2>4, Z3
    <3> QED
      BY <1>1, <2>3, <2>4, <3>2, <3>3, Z3
  <2>6. ASSUME NEW i \in 1 .. k + 1 PROVE (x \div Numbers[(k + 1) - i]) % BYTE = d[i]
    <3>1. CASE i = k + 1
      <4>1. Numbers[(k + 1) - i] = 1
        BY <2>2, <3>1, NumbersFacts
      <4>2. x \in Nat /\ x \div 1 = x
        BY <1>1, <2>3, <2>4, <2>5
      <4>3. x % BYTE = c
        <5>1. x = BYTE * m + c /\ m \in Int
          BY <2>4
        <5> HIDE DEF x, c
        <5> QED
          BY <1>1, <2>3, <4>2, <5>1, RemainderIsUnique
      <4> QED
        BY <3>1, <4>1, <4>2, <4>3
    <3>2. CASE i # k + 1
      <4> DEFINE j == k - i
      <4>1. i \in 1 .. k /\ j \in Nat /\ (k + 1) - i = j + 1
        BY <2>2, <3>2
      <4>2. Numbers[j] \in Nat \ {0} /\ Numbers[j + 1] = BYTE * Numbers[j]
        BY <4>1, NumbersFacts DEF Positive
      <4>3. x \div (BYTE * Numbers[j]) = m \div Numbers[j]
        <5> DEFINE P == Numbers[j]
        <5>1. BYTE \in Nat \ {0} /\ P \in Nat \ {0} /\ m \in Nat /\ c \in 0 .. BYTE - 1
          BY <1>1, <2>3, <2>4, <4>2
        <5> HIDE DEF P, c
        <5>2. (BYTE * m + c) \div (BYTE * P) = m \div P
          BY <5>1, QuotientByProduct
        <5> QED
          BY <5>2 DEF P, x
      <4>4. (m \div Numbers[j]) % BYTE = d[i]
        BY <2>1, <4>1 DEF HasDigits
      <4> QED
        BY <4>1, <4>2, <4>3, <4>4
    <3> QED
      BY <3>1, <3>2
  <2>7. HasDigits(x, k + 1, d)
    BY <2>6 DEF HasDigits
  <2> QED
    BY <2>2, <2>5, <2>7
<1>4. n \in Q
  <2>1. n \in 0 .. n
    OBVIOUS
  <2> HIDE DEF Q
  <2> QED
    BY <1>2, <1>3, <2>1, PrefixInduction
<1> QED
  BY <1>4

(* The mirror image of an index is an index.                               *)
LEMMA MirroredIndex ==
  ASSUME NEW n \in Nat
  PROVE  Mirrored(n) \in Indices /\ to_big_endian(Mirrored(n)) = to_little_endian(n)
<1> DEFINE b == to_big_endian(n)
           d == to_little_endian(n)
<1>1. BYTE \in Nat \ {0} /\ BYTES \in Nat
  BY StorageAssumption
<1>2. b \in Digits(BYTES)
  <2>1. \A i \in 1 .. BYTES : (n \div Numbers[BYTES - i]) % BYTE \in 0 .. BYTE - 1
    <3> TAKE i \in 1 .. BYTES
    <3>1. BYTES - i \in Nat
      BY <1>1
    <3>2. Numbers[BYTES - i] \in Nat \ {0}
      BY <3>1, NumbersFacts DEF Positive
    <3>3. n \div Numbers[BYTES - i] \in Int
      BY <3>2, Z3
    <3> HIDE DEF b
    <3> QED
      BY <1>1, <3>3, Z3
  <2> QED
    BY <2>1 DEF to_big_endian, Digits
<1>3. b \in Seq(0 .. BYTE - 1) /\ Len(b) = BYTES
  <2> HIDE DEF b
  <2> QED
    BY <1>1, <1>2 DEF Digits
<1>4. d = [i \in 1 .. BYTES |-> b[(BYTES - i) + 1]]
  BY <1>3 DEF to_little_endian, Reverse
<1>5. d \in Digits(BYTES)
  <2> HIDE DEF b, d
  <2>1. \A i \in 1 .. BYTES : (BYTES - i) + 1 \in 1 .. BYTES
    BY <1>1
  <2> QED
    BY <1>2, <1>4, <2>1 DEF Digits
<1> HIDE DEF b, d
<1>6. PICK m \in 0 .. Numbers[BYTES] - 1 : HasDigits(m, BYTES, d)
  BY <1>1, <1>5, EveryBytes
<1>7. m \in Indices /\ to_big_endian(m) = d
  BY <1>5, <1>6 DEF Indices, HasDigits, to_big_endian, Digits
<1> QED
  BY <1>7 DEF Mirrored, d

-----------------------------------------------------------------------------
(* Storage read by raw key and through the runtime.                        *)

SchemaKey == StorageKey("Ethereum", "Schema", <<>>)

(* Only one key holds the schema, and no other read sees it.               *)
LEMMA OtherKeys ==
  ASSUME NEW pallet, NEW item, NEW args, item # "Schema"
  PROVE  StorageKey(pallet, item, args) # SchemaKey
<1>1. StorageKey(pallet, item, args).item = item /\ SchemaKey.item = "Schema"
  BY DEF StorageKey, SchemaKey
<1> QED
  BY <1>1

(* Storage with the schema of the chain set to v.                          *)
WithSchema(s, v) == [s EXCEPT ![SchemaKey] = v]

LEMMA SchemaOnly ==
  ASSUME NEW s, SchemaKey \in DOMAIN s, NEW v
  PROVE  /\ \A k : k # SchemaKey => Value(WithSchema(s, v), k) = Value(s, k)
         /\ v # Missing => onchain_storage_schema(WithSchema(s, v)) = v
<1>1. \A k : k # SchemaKey => Value(WithSchema(s, v), k) = Value(s, k)
  BY DEF Value, WithSchema
<1>2. Value(WithSchema(s, v), SchemaKey) = v
  BY DEF Value, WithSchema
<1>3. v # Missing => onchain_storage_schema(WithSchema(s, v)) = v
  BY <1>2 DEF onchain_storage_schema, OrDefault, SchemaKey
<1> QED
  BY <1>1, <1>3

(* For every content of the storage, address and index: what the schema's  *)
(* override answers is what the runtime answers, for slots at the index    *)
(* with its bytes in the other order.                                      *)
THEOREM OverrideIsRuntime ==
  ASSUME NEW s, SchemaKey \in DOMAIN s, NEW address, NEW n \in Nat
  PROVE  LET v1 == WithSchema(s, "V1")
             other == WithSchema(s, "Undefined") IN
         /\ BlockReads(v1) = BlockReads(other)
         /\ code_at(v1, address) = code_at(other, address)
         /\ storage_at(v1, address, n) = storage_at(other, address, Mirrored(n))
<1> DEFINE v1 == WithSchema(s, "V1")
           other == WithSchema(s, "Undefined")
<1>1. UsesOverride(v1) /\ ~UsesOverride(other)
  <2>1. "V1" # Missing /\ "Undefined" # Missing /\ "V1" # "Undefined"
    BY StorageAssumption
  <2>2. onchain_storage_schema(v1) = "V1" /\ onchain_storage_schema(other) = "Undefined"
    BY <2>1, SchemaOnly
  <2> QED
    BY <2>1, <2>2 DEF UsesOverride
<1>2. \A k : k # SchemaKey => Value(v1, k) = Value(other, k)
  BY SchemaOnly
<1> HIDE DEF v1, other
<1>3. \A pallet, item, args : item # "Schema" =>
        Value(v1, StorageKey(pallet, item, args)) = Value(other, StorageKey(pallet, item, args))
  BY <1>2, OtherKeys
<1>4. BlockReads(v1) = BlockReads(other)
  BY <1>1, <1>3 DEF BlockReads, override_current_block, override_current_receipts,
     override_current_transaction_statuses, runtime_current_block, runtime_current_receipts,
     runtime_current_transaction_statuses
<1>5. \A v, x : OrDefault(OrDefault(v, x), x) = OrDefault(v, x)
  BY DEF OrDefault
<1>6. code_at(v1, address) = code_at(other, address)
  BY <1>1, <1>3, <1>5 DEF code_at, override_account_code_at, runtime_account_code_at
<1>7. to_big_endian(Mirrored(n)) = to_little_endian(n)
  BY MirroredIndex
<1>8. storage_at(v1, address, n) = storage_at(other, address, Mirrored(n))
  BY <1>1, <1>3, <1>5, <1>7 DEF storage_at, override_storage_at, runtime_storage_at
<1> QED
  BY <1>4, <1>6, <1>8 DEF v1, other

-----------------------------------------------------------------------------
(* The logs of a block: the loops that drop some of them.                  *)

SublistStep(s, keep) ==
  [i \in DOMAIN s |-> [v \in Seq(Range(s)) |-> IF i \in keep THEN Append(v, s[i]) ELSE v]]


(* The loop that pushes the kept elements, as a path.                      *)
LEMMA SublistPath ==
  ASSUME NEW X, NEW s \in Seq(X), NEW keep
  PROVE  \E p : /\ Path(Len(s), Seq(Range(s)), <<>>, SublistStep(s, keep), p)
                /\ p[Len(s)] = Sublist(s, keep)
<1> DEFINE n == Len(s)
           V == Seq(Range(s))
           G == SublistStep(s, keep)
           ids == [i \in DOMAIN s |-> i]
           Arm(i, v) == IF ids[i] \in keep THEN Append(v, s[ids[i]]) ELSE v
           Def(it) == it = [z \in SUBSET (DOMAIN ids) |->
                              IF z = {} THEN <<>> ELSE Arm(Max(z), it[z \ {Max(z)}])]
<1>1. n \in Nat /\ DOMAIN s = 1 .. n /\ DOMAIN ids = 1 .. n
  OBVIOUS
<1>2. \A i \in 1 .. n : \A v \in V : Arm(i, v) = G[i][v] /\ G[i][v] \in V
  BY <1>1 DEF SublistStep, Range
<1> HIDE DEF Arm, V, G
<1>3. Steps(n, V, <<>>, G)
  BY <1>2 DEF Steps, V
<1>4. PICK it : LeftFold(n, V, <<>>, G, it)
  BY <1>1, <1>3, LeftFoldDefined
<1>5. \A z \in SUBSET (1 .. n) : z # {} => Max(z) \in 1 .. n
  BY <1>1, LastIsGreatest
<1>6. Def(it)
  <2>1. \A z \in SUBSET (1 .. n) : z # {} => it[z] = Arm(Max(z), it[z \ {Max(z)}])
    BY <1>2, <1>4, <1>5 DEF LeftFold
  <2> QED
    BY <1>1, <1>4, <2>1 DEF LeftFold
<1> DEFINE jt == CHOOSE j : Def(j)
<1>7. Def(jt)
  <2> HIDE DEF Def
  <2> QED
    BY <1>6
<1>8. Sublist(s, keep) = jt[1 .. n]
  BY <1>1 DEF Sublist, FoldLeftDomain, FoldLeft, MapThenFoldSet, jt, Arm
<1> HIDE DEF jt
<1>9. Unwinds(n, V, <<>>, G, jt)
  BY <1>1, <1>2, <1>5, <1>7 DEF Unwinds
<1>10. PICK p : Path(n, V, <<>>, G, p) /\ p[n] = jt[1 .. n]
  <2> HIDE DEF n
  <2> QED
    BY <1>1, <1>3, <1>9, LeftFoldPath
<1> QED
  BY <1>8, <1>10 DEF V, G

(* One more element of a segment that starts after a.                      *)
LEMMA SegmentGrows ==
  ASSUME NEW X, NEW s \in Seq(X), NEW a \in Nat, NEW j \in 0 .. Len(s), j # Len(s), a <= j
  PROVE  Append(SubSeq(s, a + 1, j), s[j + 1]) = SubSeq(s, a + 1, j + 1)
<1> DEFINE u == SubSeq(s, a + 1, j)
           w == SubSeq(s, a + 1, j + 1)
<1>1. j \in Nat /\ j + 1 \in 1 .. Len(s)
  OBVIOUS
<1>2. u \in Seq(X) /\ Len(u) = j - a /\ \A i \in 1 .. j - a : u[i] = s[a + i]
  BY <1>1
<1>3. w \in Seq(X) /\ Len(w) = j + 1 - a /\ \A i \in 1 .. j + 1 - a : w[i] = s[a + i]
  BY <1>1
<1> HIDE DEF u, w
<1>4. PICK x \in X : x = s[j + 1]
  BY <1>1
<1>5. Append(u, x) \in Seq(X) /\ Len(Append(u, x)) = Len(u) + 1 /\ Len(u) + 1 = Len(w)
  <2>1. Append(u, x) \in Seq(X) /\ Len(Append(u, x)) = Len(u) + 1
    BY <1>2
  <2>2. Len(u) + 1 = Len(w)
    BY <1>1, <1>2, <1>3
  <2> QED
    BY <2>1, <2>2
<1>6. Append(u, x)[Len(u) + 1] = x /\ \A i \in 1 .. Len(u) : Append(u, x)[i] = u[i]
  BY <1>2
<1>7. \A i \in 1 .. Len(w) : Append(u, x)[i] = w[i]
  <2> TAKE i \in 1 .. Len(w)
  <2>1. i \in Nat /\ j + 1 - a \in Nat /\ i \in 1 .. j + 1 - a
    BY <1>1, <1>3
  <2>2. CASE i \in 1 .. Len(u)
    BY <1>2, <1>3, <1>6, <2>1, <2>2
  <2>3. CASE i = Len(u) + 1
    <3>1. a + i = j + 1
      BY <1>1, <1>2, <2>3
    <3>2. w[i] = s[j + 1]
      BY <1>3, <2>1, <3>1
    <3> QED
      BY <1>4, <1>6, <2>3, <3>2
  <2> QED
    BY <1>1, <1>2, <1>5, <2>1, <2>2, <2>3
<1>8. Append(u, x) = w
  <2> HIDE DEF u
  <2> DEFINE y == Append(u, x)
  <2>1. y \in Seq(X) /\ Len(y) = Len(w) /\ \A i \in 1 .. Len(w) : y[i] = w[i]
    BY <1>5, <1>7
  <2> HIDE DEF y
  <2>2. y = w
    BY <1>3, <2>1
  <2> QED
    BY <2>2 DEF y
<1> QED
  BY <1>4, <1>8 DEF u, w

(* Keeping exactly the positions after a up to b.                          *)
LEMMA SublistSegment ==
  ASSUME NEW X, NEW s \in Seq(X), NEW a \in Nat, NEW b \in Nat, a <= b, b <= Len(s),
         NEW keep, \A j \in 1 .. Len(s) : j \in keep <=> a < j /\ j <= b
  PROVE  Sublist(s, keep) = SubSeq(s, a + 1, b)
<1> DEFINE n == Len(s)
           Cut(j) == IF j <= b THEN j ELSE b
           V == Seq(Range(s))
<1>1. PICK q : Path(n, V, <<>>, SublistStep(s, keep), q) /\ q[n] = Sublist(s, keep)
  BY SublistPath
<1> DEFINE Q == {j \in 0 .. n : q[j] = SubSeq(s, a + 1, Cut(j))}
<1>2. n \in Nat /\ DOMAIN s = 1 .. n
  OBVIOUS
<1>3. \A j \in 0 .. n : j <= a => SubSeq(s, a + 1, j) = <<>>
  OBVIOUS
<1>4. 0 \in Q
  BY <1>1, <1>2, <1>3 DEF Path
<1>5. ASSUME NEW j \in 0 .. n, j # n, j \in Q PROVE j + 1 \in Q
  <2>1. j + 1 \in 1 .. n /\ j + 1 \in 0 .. n /\ (j + 1) - 1 = j /\ j \in Nat
    <3> HIDE DEF n, Q
    <3> QED
      BY <1>2, <1>5
  <2>2. q[j] \in V /\ q[j + 1] = SublistStep(s, keep)[j + 1][q[j]]
    BY <1>1, <2>1 DEF Path
  <2>3. q[j + 1] = IF j + 1 \in keep THEN Append(q[j], s[j + 1]) ELSE q[j]
    BY <1>2, <2>1, <2>2 DEF SublistStep
  <2>4. CASE j + 1 <= a
    <3>1. j + 1 \notin keep /\ Cut(j) = j /\ Cut(j + 1) = j + 1
      BY <2>1, <2>4
    <3>2. SubSeq(s, a + 1, j) = SubSeq(s, a + 1, j + 1)
      BY <1>3, <2>1, <2>4
    <3> QED
      BY <1>5, <2>1, <2>3, <3>1, <3>2
  <2>5. CASE a < j + 1 /\ j + 1 <= b
    <3>1. j + 1 \in keep /\ Cut(j) = j /\ Cut(j + 1) = j + 1 /\ a <= j
      BY <2>1, <2>5
    <3>2. Append(SubSeq(s, a + 1, j), s[j + 1]) = SubSeq(s, a + 1, j + 1)
      BY <1>5, <3>1, SegmentGrows
    <3> QED
      BY <1>5, <2>1, <2>3, <3>1, <3>2
  <2>6. CASE b < j + 1
    <3>1. j + 1 \notin keep /\ Cut(j + 1) = b /\ Cut(j) = b
      BY <2>1, <2>6
    <3> QED
      BY <1>5, <2>1, <2>3, <3>1
  <2> QED
    BY <2>1, <2>4, <2>5, <2>6
<1>6. n \in Q
  <2>1. n \in 0 .. n
    BY <1>2
  <2> HIDE DEF Q, n
  <2> QED
    BY <1>2, <1>4, <1>5, <2>1, PrefixInduction
<1>7. Cut(n) = b
  <2>1. b <= n
    OBVIOUS
  <2> HIDE DEF n
  <2> QED
    BY <1>2, <2>1
<1> QED
  BY <1>1, <1>6, <1>7

(* c is what s has after a up to b, and keep holds those positions.        *)
IsSegment(X, s, keep, a, b, c) ==
  /\ s \in Seq(X) /\ c \in Seq(X)
  /\ a \in Nat /\ b \in Nat /\ a <= b /\ b <= Len(s) /\ Len(c) = b - a
  /\ \A j \in 1 .. Len(s) : j \in keep <=> a < j /\ j <= b
  /\ \A j \in 1 .. b - a : s[a + j] = c[j]

(* What such a loop returns, once a segment is known to be it.             *)
LEMMA SublistIs ==
  ASSUME NEW X, NEW s, NEW keep, NEW a, NEW b, NEW c, IsSegment(X, s, keep, a, b, c)
  PROVE  Sublist(s, keep) = c
<1> DEFINE u == SubSeq(s, a + 1, b)
<1>1. u \in Seq(X) /\ Len(u) = b - a /\ \A j \in 1 .. b - a : u[j] = s[a + j]
  BY DEF IsSegment
<1>2. Sublist(s, keep) = u
  BY SublistSegment DEF IsSegment
<1> HIDE DEF u
<1>3. u = c
  BY <1>1 DEF IsSegment
<1> QED
  BY <1>2, <1>3

(* It returns all if all are kept, and nothing that was not there.         *)
LEMMA SublistWhole ==
  ASSUME NEW X, NEW s \in Seq(X), NEW keep, \A j \in 1 .. Len(s) : j \in keep
  PROVE  Sublist(s, keep) = s
<1> DEFINE n == Len(s)
<1>1. n \in Nat /\ 0 \in Nat /\ 0 <= n /\ n <= Len(s)
  OBVIOUS
<1>2. \A j \in 1 .. Len(s) : j \in keep <=> 0 < j /\ j <= n
  OBVIOUS
<1>3. SubSeq(s, 0 + 1, n) = s
  OBVIOUS
<1> HIDE DEF n
<1>4. Sublist(s, keep) = SubSeq(s, 0 + 1, n)
  BY <1>1, <1>2, SublistSegment
<1> QED
  BY <1>3, <1>4

LEMMA SublistInside ==
  ASSUME NEW X, NEW s \in Seq(X), NEW keep
  PROVE  /\ Sublist(s, keep) \in Seq(Range(s))
         /\ \A i \in DOMAIN Sublist(s, keep) : \E j \in DOMAIN s : Sublist(s, keep)[i] = s[j]
<1>1. PICK p : /\ Path(Len(s), Seq(Range(s)), <<>>, SublistStep(s, keep), p)
               /\ p[Len(s)] = Sublist(s, keep)
  BY SublistPath
<1>2. Len(s) \in 0 .. Len(s)
  OBVIOUS
<1>3. Sublist(s, keep) \in Seq(Range(s))
  BY <1>1, <1>2 DEF Path
<1>4. \A i \in DOMAIN Sublist(s, keep) : Sublist(s, keep)[i] \in Range(s)
  BY <1>3
<1> QED
  BY <1>3, <1>4 DEF Range

-----------------------------------------------------------------------------
(* The logs of a block: the three numberings.                              *)

Counts(r) == [i \in DOMAIN r |-> Len(r[i].logs)]

HasLogs(r, L) == \A i \in DOMAIN r : r[i].logs \in Seq(L)

Entries(L) == [transaction_index : Nat, log_index : Nat, transaction_log_index : Nat, log : L]

(* The entries of the receipt at i when next logs come before it.          *)
Chunk(r, i, next) ==
  [k \in DOMAIN r[i].logs |-> Numbered(i - 1, (next + k - 1) % U32, k - 1, r[i].logs[k])]

Walks(L) == [next : Nat, out : Seq(Entries(L))]

NumberStep(r, L) ==
  [i \in DOMAIN r |-> [v \in Walks(L) |-> [ next |-> v.next + Len(r[i].logs),
                                           out |-> v.out \o Chunk(r, i, v.next) ]]]

(* The entries of one receipt: as many as it has logs, all of its          *)
(* transaction.                                                            *)
LEMMA CountsTyped ==
  ASSUME NEW X, NEW r \in Seq(X), NEW L, HasLogs(r, L)
  PROVE  Counts(r) \in [DOMAIN r -> Nat]
BY DEF Counts, HasLogs

LEMMA ChunkTyped ==
  ASSUME NEW X, NEW r \in Seq(X), NEW L, HasLogs(r, L), NEW i \in DOMAIN r, NEW next \in Nat
  PROVE  /\ Chunk(r, i, next) \in Seq(Entries(L))
         /\ Len(Chunk(r, i, next)) = Counts(r)[i]
         /\ DOMAIN Chunk(r, i, next) = 1 .. Counts(r)[i]
         /\ \A k \in 1 .. Counts(r)[i] : Chunk(r, i, next)[k].transaction_index = i - 1
<1> DEFINE logs == r[i].logs
           m == Len(logs)
           c == Chunk(r, i, next)
<1>1. logs \in Seq(L) /\ m \in Nat /\ DOMAIN logs = 1 .. m /\ Counts(r)[i] = m /\ i \in Nat \ {0}
  BY DEF HasLogs, Counts
<1>2. c = [k \in 1 .. m |-> Numbered(i - 1, (next + k - 1) % U32, k - 1, logs[k])]
  BY <1>1 DEF Chunk
<1> HIDE DEF logs, m, c
<1>3. ASSUME NEW k \in 1 .. m PROVE c[k] \in Entries(L) /\ c[k].transaction_index = i - 1
  <2>1. logs[k] \in L /\ i - 1 \in Nat /\ k - 1 \in Nat /\ next + k - 1 \in Nat
    BY <1>1
  <2>2. U32 \in Nat \ {0}
    BY IndexAssumption
  <2> DEFINE x == (next + k - 1) % U32
  <2>3. x \in Nat
    <3> HIDE DEF x
    <3>1. \A y \in Nat : y % U32 \in Nat
      BY <2>2
    <3> QED
      BY <2>1, <3>1 DEF x
  <2>4. c[k] = Numbered(i - 1, x, k - 1, logs[k])
    BY <1>2
  <2> HIDE DEF x
  <2> QED
    BY <2>1, <2>3, <2>4 DEF Numbered, Entries
<1>4. c \in [1 .. m -> Entries(L)]
  BY <1>2, <1>3
<1>5. c \in Seq(Entries(L)) /\ Len(c) = m /\ DOMAIN c = 1 .. m
  BY <1>1, <1>4
<1> QED
  BY <1>1, <1>3, <1>5 DEF c

(* The numbering of a block's logs and the counting of its logs, as paths  *)
(* along the receipts.                                                     *)
LEMMA NumberPath ==
  ASSUME NEW X, NEW r \in Seq(X), NEW L, HasLogs(r, L)
  PROVE  \E p : /\ Path(Len(r), Walks(L), [next |-> 0, out |-> <<>>], NumberStep(r, L), p)
                /\ p[Len(r)].out = NumberLogs(r)
<1> DEFINE n == Len(r)
           V == Walks(L)
           G == NumberStep(r, L)
           base == [next |-> 0, out |-> <<>>]
           ids == [i \in DOMAIN r |-> i]
           Arm(i, v) == [ next |-> v.next + Len(r[ids[i]].logs),
                          out |-> v.out \o [k \in DOMAIN r[ids[i]].logs |->
                             Numbered(ids[i] - 1, (v.next + k - 1) % U32, k - 1, r[ids[i]].logs[k])] ]
           Def(it) == it = [z \in SUBSET (DOMAIN ids) |->
                              IF z = {} THEN base ELSE Arm(Max(z), it[z \ {Max(z)}])]
<1>1. n \in Nat /\ DOMAIN r = 1 .. n /\ DOMAIN ids = 1 .. n
  OBVIOUS
<1>2. ASSUME NEW i \in 1 .. n, NEW v \in V PROVE Arm(i, v) = G[i][v] /\ G[i][v] \in V
  <2>1. i \in DOMAIN r /\ ids[i] = i /\ v.next \in Nat /\ v.out \in Seq(Entries(L))
    BY <1>1 DEF Walks
  <2>2. G[i][v] = [next |-> v.next + Len(r[i].logs), out |-> v.out \o Chunk(r, i, v.next)]
    BY <2>1 DEF NumberStep
  <2>3. Arm(i, v) = G[i][v]
    BY <2>1, <2>2 DEF Chunk
  <2>4. Chunk(r, i, v.next) \in Seq(Entries(L)) /\ Len(r[i].logs) \in Nat
    BY <2>1, ChunkTyped DEF HasLogs
  <2>5. v.out \o Chunk(r, i, v.next) \in Seq(Entries(L)) /\ v.next + Len(r[i].logs) \in Nat
    BY <2>1, <2>4
  <2> QED
    BY <2>2, <2>3, <2>5 DEF Walks
<1> HIDE DEF Arm, V, G
<1>3. Steps(n, V, base, G)
  BY <1>2 DEF Steps, V, Walks
<1>4. PICK it : LeftFold(n, V, base, G, it)
  BY <1>1, <1>3, LeftFoldDefined
<1>5. \A z \in SUBSET (1 .. n) : z # {} => Max(z) \in 1 .. n
  BY <1>1, LastIsGreatest
<1>6. Def(it)
  <2>1. \A z \in SUBSET (1 .. n) : z # {} => it[z] = Arm(Max(z), it[z \ {Max(z)}])
    BY <1>2, <1>4, <1>5 DEF LeftFold
  <2> QED
    BY <1>1, <1>4, <2>1 DEF LeftFold
<1> DEFINE jt == CHOOSE j : Def(j)
<1>7. Def(jt)
  <2> HIDE DEF Def
  <2> QED
    BY <1>6
<1>8. NumberLogs(r) = jt[1 .. n].out
  BY <1>1 DEF NumberLogs, FoldLeftDomain, FoldLeft, MapThenFoldSet, jt, Arm
<1> HIDE DEF jt
<1>9. Unwinds(n, V, base, G, jt)
  <2> HIDE DEF base
  <2> QED
    BY <1>1, <1>2, <1>5, <1>7 DEF Unwinds
<1>10. PICK p : Path(n, V, base, G, p) /\ p[n] = jt[1 .. n]
  <2> HIDE DEF n, base
  <2> QED
    BY <1>1, <1>3, <1>9, LeftFoldPath
<1> QED
  BY <1>8, <1>10 DEF V, G

LEMMA CountsPath ==
  ASSUME NEW X, NEW r \in Seq(X), Counts(r) \in [DOMAIN r -> Nat]
  PROVE  \E p : /\ Path(Len(r), Nat, 0, WrappingSum(Counts(r)), p)
                /\ p[Len(r)] = SumOver(r, LAMBDA x : Len(x.logs))
<1> DEFINE n == Len(r)
           V == Nat
           G == WrappingSum(Counts(r))
           Arm(i, v) == (v + Len(r[i].logs)) % U32
           Def(it) == it = [s \in SUBSET (DOMAIN r) |->
                              IF s = {} THEN 0 ELSE Arm(Max(s), it[s \ {Max(s)}])]
<1>1. n \in Nat /\ DOMAIN r = 1 .. n
  OBVIOUS
<1>2. \A i \in 1 .. n : \A v \in V : Arm(i, v) = G[i][v] /\ G[i][v] \in V
  <2> TAKE i \in 1 .. n
  <2> TAKE v \in V
  <2>1. DOMAIN Counts(r) = 1 .. n /\ Counts(r)[i] \in Nat /\ Counts(r)[i] = Len(r[i].logs)
    BY <1>1 DEF Counts
  <2>2. G[i][v] = (v + Counts(r)[i]) % U32
    BY <2>1 DEF WrappingSum
  <2>3. v + Counts(r)[i] \in Nat /\ \A y \in Nat : y % U32 \in Nat
    BY <2>1, IndexAssumption
  <2> QED
    BY <2>1, <2>2, <2>3
<1> HIDE DEF Arm, V, G
<1>3. Steps(n, V, 0, G)
  BY <1>2 DEF Steps, V
<1>4. PICK it : LeftFold(n, V, 0, G, it)
  BY <1>1, <1>3, LeftFoldDefined
<1>5. \A s \in SUBSET (1 .. n) : s # {} => Max(s) \in 1 .. n
  BY <1>1, LastIsGreatest
<1>6. Def(it)
  <2>1. ASSUME NEW s \in SUBSET (1 .. n), s # {}
        PROVE  it[s] = Arm(Max(s), it[s \ {Max(s)}])
    <3>1. Max(s) \in 1 .. n
      BY <1>5, <2>1
    <3>2. it[s \ {Max(s)}] \in V
      BY <1>4 DEF LeftFold
    <3>3. it[s] = G[Max(s)][it[s \ {Max(s)}]]
      BY <1>4, <2>1 DEF LeftFold
    <3> QED
      BY <1>2, <3>1, <3>2, <3>3
  <2> QED
    BY <1>1, <1>4, <2>1 DEF LeftFold
<1> DEFINE jt == CHOOSE j : Def(j)
<1>7. Def(jt)
  <2> HIDE DEF Def
  <2> QED
    BY <1>6
<1>8. SumOver(r, LAMBDA x : Len(x.logs)) = jt[1 .. n]
  BY <1>1 DEF SumOver, FoldLeft, MapThenFoldSet, jt, Arm
<1> HIDE DEF jt
<1>9. Unwinds(n, V, 0, G, jt)
  BY <1>1, <1>2, <1>5, <1>7 DEF Unwinds
<1>10. PICK p : Path(n, V, 0, G, p) /\ p[n] = jt[1 .. n]
  <2> HIDE DEF n
  <2> QED
    BY <1>1, <1>3, <1>9, LeftFoldPath
<1> QED
  BY <1>8, <1>10 DEF V, G

(* Where the elements of a concatenation come from.                        *)
LEMMA Concatenation ==
  ASSUME NEW X, NEW u \in Seq(X), NEW v \in Seq(X)
  PROVE  /\ u \o v \in Seq(X) /\ Len(u \o v) = Len(u) + Len(v)
         /\ \A m \in 1 .. Len(u) : (u \o v)[m] = u[m]
         /\ \A m \in 1 .. Len(v) : (u \o v)[Len(u) + m] = v[m]
OBVIOUS

(* e counts the logs before each receipt: the walk numbers the logs of the *)
(* receipt at i in the positions after e[i - 1] up to e[i].                *)
NumbersLogs(r, e, k, walk) ==
  /\ walk.next = e[k] /\ Len(walk.out) = e[k]
  /\ \A i \in 1 .. k : \A j \in 1 .. Counts(r)[i] :
       walk.out[e[i - 1] + j] = Chunk(r, i, e[i - 1])[j]
  /\ \A m \in 1 .. e[k] : /\ walk.out[m].transaction_index \in 0 .. k - 1
                          /\ \A i \in 1 .. k : walk.out[m].transaction_index = i - 1 <=>
                               e[i - 1] < m /\ m <= e[i]

(* The walk over the receipts keeps the numbering.                         *)
LEMMA WalkStep ==
  ASSUME NEW X, NEW r \in Seq(X), NEW L, HasLogs(r, L),
         NEW e, Path(Len(r), Nat, 0, ExactSum(Counts(r)), e),
         NEW k \in 0 .. Len(r), k # Len(r),
         NEW v \in Walks(L), NumbersLogs(r, e, k, v)
  PROVE  NumbersLogs(r, e, k + 1, NumberStep(r, L)[k + 1][v])
<1> DEFINE n == Len(r)
           w == Counts(r)
           u == v.out
           c == Chunk(r, k + 1, e[k])
           z == NumberStep(r, L)[k + 1][v]
           all == z.out
<1>1. n \in Nat /\ DOMAIN r = 1 .. n /\ k + 1 \in 1 .. n /\ k + 1 \in DOMAIN r /\ (k + 1) - 1 = k /\ k \in Nat
  OBVIOUS
<1>2. w \in [1 .. n -> Nat]
  BY <1>1, CountsTyped
<1>3. /\ e \in [0 .. n -> Nat] /\ e[0] = 0
      /\ \A i \in 1 .. n : e[i] = e[i - 1] + w[i]
      /\ \A i, j \in 0 .. n : i <= j => e[i] <= e[j]
  <2> HIDE DEF n, w
  <2> QED
    BY <1>1, <1>2, SumsGrow DEF n, w
<1>4. v.next = e[k] /\ Len(u) = e[k] /\ u \in Seq(Entries(L)) /\ e[k] \in Nat
  BY <1>3 DEF NumbersLogs, Walks
<1>5. /\ c \in Seq(Entries(L)) /\ Len(c) = w[k + 1] /\ DOMAIN c = 1 .. w[k + 1]
      /\ \A j \in 1 .. w[k + 1] : c[j].transaction_index = k
  <2> DEFINE k1 == k + 1
             x == e[k]
  <2>1. k1 \in DOMAIN r /\ x \in Nat /\ k1 - 1 = k
    BY <1>1, <1>4
  <2> HIDE DEF k1, x
  <2>2. /\ Chunk(r, k1, x) \in Seq(Entries(L)) /\ Len(Chunk(r, k1, x)) = w[k1]
        /\ DOMAIN Chunk(r, k1, x) = 1 .. w[k1]
        /\ \A j \in 1 .. w[k1] : Chunk(r, k1, x)[j].transaction_index = k1 - 1
    BY <2>1, ChunkTyped
  <2> QED
    BY <2>1, <2>2 DEF k1, x
<1>6. z = [next |-> v.next + w[k + 1], out |-> u \o c]
  BY <1>1, <1>4 DEF NumberStep, Counts
<1> HIDE DEF n, w, u, c, z
<1>7. z.next = e[k + 1] /\ all = u \o c /\ e[k + 1] = e[k] + w[k + 1] /\ w[k + 1] \in Nat
  <2>1. e[k + 1] = e[k] + w[k + 1] /\ w[k + 1] \in Nat
    BY <1>1, <1>2, <1>3
  <2> QED
    BY <1>4, <1>6, <2>1
<1> HIDE DEF all
<1>8. /\ Len(all) = e[k + 1]
      /\ \A m \in 1 .. e[k] : all[m] = u[m]
      /\ \A m \in 1 .. w[k + 1] : all[e[k] + m] = c[m]
  <2>1. /\ Len(u \o c) = Len(u) + Len(c)
        /\ \A m \in 1 .. Len(u) : (u \o c)[m] = u[m]
        /\ \A m \in 1 .. Len(c) : (u \o c)[Len(u) + m] = c[m]
    <3>1. u \in Seq(Entries(L)) /\ c \in Seq(Entries(L))
      BY <1>4, <1>5
    <3> QED
      BY <3>1, Concatenation
  <2> QED
    BY <1>4, <1>5, <1>7, <2>1
<1>9. ASSUME NEW i \in 1 .. k + 1, NEW j \in 1 .. w[i]
      PROVE  all[e[i - 1] + j] = Chunk(r, i, e[i - 1])[j]
  <2>1. CASE i = k + 1
    BY <1>1, <1>8, <2>1 DEF c
  <2>2. CASE i # k + 1
    <3>1. i \in 1 .. k /\ i \in 1 .. n /\ i \in 0 .. n /\ i - 1 \in 0 .. n /\ i <= k /\ k \in 0 .. n
      BY <1>1, <2>2
    <3>2. e[i] = e[i - 1] + w[i] /\ e[i] <= e[k] /\ e[i] \in Nat /\ e[i - 1] \in Nat /\ w[i] \in Nat
      BY <1>2, <1>3, <3>1
    <3>3. e[i - 1] + j \in 1 .. e[k]
      <4> DEFINE a == e[i - 1]
                 b == e[k]
                 q == w[i]
      <4>1. a \in Nat /\ b \in Nat /\ q \in Nat /\ a + q <= b /\ j \in 1 .. q
        BY <1>4, <3>2
      <4> HIDE DEF a, b, q
      <4>2. a + j \in 1 .. b
        BY <4>1
      <4> QED
        BY <4>2 DEF a, b
    <3>4. u[e[i - 1] + j] = Chunk(r, i, e[i - 1])[j]
      BY <3>1 DEF NumbersLogs, u, w
    <3> QED
      BY <1>8, <3>3, <3>4
  <2> QED
    BY <2>1, <2>2
<1>10. ASSUME NEW m \in 1 .. e[k + 1]
       PROVE  /\ all[m].transaction_index \in 0 .. k
              /\ \A i \in 1 .. k + 1 : all[m].transaction_index = i - 1 <=> e[i - 1] < m /\ m <= e[i]
  <2>1. m \in Nat /\ e[k + 1] \in Nat /\ m <= e[k + 1]
    BY <1>1, <1>3
  <2>2. CASE m <= e[k]
    <3>1. m \in 1 .. e[k] /\ all[m] = u[m]
      BY <1>4, <1>8, <2>1, <2>2
    <3>2. /\ u[m].transaction_index \in 0 .. k - 1
          /\ \A i \in 1 .. k : u[m].transaction_index = i - 1 <=> e[i - 1] < m /\ m <= e[i]
      BY <3>1 DEF NumbersLogs, u
    <3>3. u[m].transaction_index # (k + 1) - 1 /\ ~(e[(k + 1) - 1] < m)
      BY <1>1, <1>4, <2>1, <2>2, <3>2
    <3>4. \A i \in 1 .. k + 1 : i \in 1 .. k \/ i = k + 1
      BY <1>1
    <3>5. all[m].transaction_index \in 0 .. k
      BY <1>1, <3>1, <3>2
    <3>6. ASSUME NEW i \in 1 .. k + 1
          PROVE  all[m].transaction_index = i - 1 <=> e[i - 1] < m /\ m <= e[i]
      <4>1. CASE i \in 1 .. k
        BY <3>1, <3>2, <4>1
      <4>2. CASE i = k + 1
        BY <3>1, <3>3, <4>2
      <4> QED
        BY <3>4, <4>1, <4>2
    <3> QED
      BY <3>5, <3>6
  <2>3. CASE ~(m <= e[k])
    <3>1. m - e[k] \in 1 .. w[k + 1] /\ e[k] + (m - e[k]) = m /\ e[k] < m
      BY <1>4, <1>7, <2>1, <2>3
    <3>2. all[m].transaction_index = k
      BY <1>5, <1>8, <3>1
    <3>3. ASSUME NEW i \in 1 .. k + 1
          PROVE  all[m].transaction_index = i - 1 <=> e[i - 1] < m /\ m <= e[i]
      <4>1. CASE i = k + 1
        BY <1>1, <2>1, <3>1, <3>2, <4>1
      <4>2. CASE i # k + 1
        <5>1. i \in 0 .. n /\ i <= k /\ k \in 0 .. n
          BY <1>1, <4>2
        <5>2. e[i] <= e[k] /\ e[i] \in Nat
          BY <1>3, <5>1
        <5> QED
          BY <1>1, <1>4, <2>1, <3>1, <3>2, <4>2, <5>2
      <4> QED
        BY <4>1, <4>2
    <3> QED
      BY <1>1, <3>2, <3>3
  <2> QED
    BY <2>2, <2>3
<1> QED
  BY <1>1, <1>7, <1>8, <1>9, <1>10 DEF NumbersLogs, all, w, z

(* The whole walk numbers the logs by the exact sums.                      *)
LEMMA NumberedLogs ==
  ASSUME NEW X, NEW r \in Seq(X), NEW L, HasLogs(r, L),
         NEW e, Path(Len(r), Nat, 0, ExactSum(Counts(r)), e)
  PROVE  /\ NumberLogs(r) \in Seq(Entries(L))
         /\ \E walk : NumbersLogs(r, e, Len(r), walk) /\ walk.out = NumberLogs(r)
<1> DEFINE n == Len(r)
           base == [next |-> 0, out |-> <<>>]
<1>1. PICK p : Path(n, Walks(L), base, NumberStep(r, L), p) /\ p[n].out = NumberLogs(r)
  BY NumberPath
<1>2. n \in Nat /\ n \in 0 .. n /\ DOMAIN r = 1 .. n
  OBVIOUS
<1> DEFINE Q == {k \in 0 .. n : NumbersLogs(r, e, k, p[k])}
<1>3. 0 \in Q
  <2>1. e[0] = 0 /\ p[0] = base
    BY <1>1 DEF Path
  <2> QED
    BY <1>2, <2>1 DEF NumbersLogs
<1>4. ASSUME NEW k \in 0 .. n, k # n, k \in Q PROVE k + 1 \in Q
  <2>1. k + 1 \in 1 .. n /\ k + 1 \in 0 .. n /\ (k + 1) - 1 = k
    <3> HIDE DEF n, Q
    <3> QED
      BY <1>2, <1>4
  <2>2. p[k] \in Walks(L) /\ p[k + 1] = NumberStep(r, L)[k + 1][p[k]]
    BY <1>1, <2>1 DEF Path
  <2>3. NumbersLogs(r, e, k, p[k])
    BY <1>4
  <2>4. NumbersLogs(r, e, k + 1, NumberStep(r, L)[k + 1][p[k]])
    BY <1>4, <2>2, <2>3, WalkStep
  <2> QED
    BY <2>1, <2>2, <2>4
<1>5. n \in Q
  <2> HIDE DEF Q, n
  <2> QED
    BY <1>2, <1>3, <1>4, PrefixInduction
<1>6. p[n] \in Walks(L)
  BY <1>1, <1>2 DEF Path
<1> QED
  BY <1>1, <1>5, <1>6 DEF Walks

(* transaction_receipt numbers the logs of its transaction as the walk     *)
(* over the whole block does.                                              *)
LEMMA ReceiptChunk ==
  ASSUME NEW X, NEW r \in Seq(X), NEW L, HasLogs(r, L), NEW i \in DOMAIN r,
         NEW e, Path(Len(r), Nat, 0, ExactSum(Counts(r)), e)
  PROVE  ReceiptLogs(r, i - 1) = Chunk(r, i, e[i - 1])
<1> DEFINE n == Len(r)
           m == i - 1
           w == Counts(r)
           t == SubSeq(r, 1, m)
           before == SumOver(t, LAMBDA x : Len(x.logs))
           logs == r[i].logs
<1>1. n \in Nat /\ DOMAIN r = 1 .. n /\ m \in 0 .. n /\ m \in Nat /\ m + 1 = i
  OBVIOUS
<1>2. t \in Seq(X) /\ Len(t) = m /\ DOMAIN t = 1 .. m /\ \A k \in 1 .. m : t[k] = r[k] /\ k \in 1 .. n
  BY <1>1
<1>3. w \in [1 .. n -> Nat]
  BY <1>1, CountsTyped
<1> HIDE DEF t, m
<1>4. Counts(t) = Prefix(w, m) /\ Counts(t) \in [DOMAIN t -> Nat]
  BY <1>1, <1>2, <1>3 DEF Counts, Prefix
<1>5. PICK s : Path(m, Nat, 0, WrappingSum(Prefix(w, m)), s) /\ s[m] = before
  BY <1>2, <1>4, CountsPath
<1>6. PICK x : Path(m, Nat, 0, ExactSum(Prefix(w, m)), x)
  BY <1>1, <1>2, <1>4, ExactSums
<1> HIDE DEF n, w, before
<1>7. before = e[m] % U32 /\ e[m] \in Nat
  <2>1. Path(n, Nat, 0, ExactSum(w), e)
    BY DEF n, w
  <2>2. s[m] = e[m] % U32 /\ e[m] \in Nat
    <3> HIDE DEF Path
    <3> QED
      BY <1>1, <1>3, <1>5, <1>6, <2>1, PrefixSums
  <2> QED
    BY <1>5, <2>2
<1>8. logs \in Seq(L) /\ DOMAIN logs = 1 .. Len(logs) /\ Len(logs) \in Nat
  BY DEF HasLogs
<1>9. ReceiptLogs(r, m) = [k \in DOMAIN logs |-> Numbered(m, (before + k - 1) % U32, k - 1, logs[k])]
  BY <1>1 DEF ReceiptLogs, before, t
<1>10. \A k \in DOMAIN logs : (before + k - 1) % U32 = (e[m] + k - 1) % U32
  <2> HIDE DEF logs
  <2> TAKE k \in DOMAIN logs
  <2>1. k - 1 \in Nat /\ k \in Nat /\ U32 \in Nat \ {0}
    BY <1>8, IndexAssumption
  <2>2. ((e[m] % U32) + (k - 1)) % U32 = (e[m] + (k - 1)) % U32 /\ e[m] % U32 \in Nat
    BY <1>7, <2>1, RemainderOfSum
  <2>3. before + k - 1 = (e[m] % U32) + (k - 1) /\ e[m] + k - 1 = e[m] + (k - 1)
    BY <1>7, <2>1, <2>2
  <2> QED
    BY <2>2, <2>3
<1> QED
  BY <1>9, <1>10 DEF Chunk, m

(* A filter that asks for nothing keeps every log, in order.               *)
LEMMA AllLogs ==
  ASSUME NEW X, NEW r \in Seq(X), NEW L, HasLogs(r, L)
  PROVE  logs_build(AnyLog, r) = NumberLogs(r) /\ NumberLogs(r) \in Seq(Entries(L))
<1>1. PICK e : Path(Len(r), Nat, 0, ExactSum(Counts(r)), e)
  <2>1. DOMAIN r = 1 .. Len(r) /\ Len(r) \in Nat
    OBVIOUS
  <2>2. Counts(r) \in [1 .. Len(r) -> Nat]
    BY <2>1, CountsTyped
  <2> QED
    BY <2>1, <2>2, ExactSums
<1>2. NumberLogs(r) \in Seq(Entries(L))
  BY <1>1, NumberedLogs
<1> DEFINE all == NumberLogs(r)
           keep == {j \in DOMAIN all : Keep(AnyLog, all[j].log)}
<1>3. \A x : Keep(AnyLog, x)
  BY DEF Keep, AnyLog, Filter
<1>4. logs_build(AnyLog, r) = Sublist(all, keep)
  BY DEF logs_build
<1>5. \A j \in 1 .. Len(all) : j \in keep
  BY <1>2, <1>3
<1> HIDE DEF all, keep
<1>6. Sublist(all, keep) = all
  BY <1>2, <1>5, SublistWhole DEF all
<1> QED
  BY <1>2, <1>4, <1>6 DEF all

(* A filter without a range or a hash keeps the same logs in eth_getLogs   *)
(* and in the subscription.                                                *)
LEMMA SameLogsKept ==
  ASSUME NEW f, f.from_block = Null, f.to_block = Null, f.block_hash = Null, NEW block, NEW log
  PROVE  add_log(f, block, log) <=> Keep(f, log)
<1>1. ~IsNum(Null)
  BY DEF IsNum
<1>2. Null # Tag("earliest")
  BY IndexAssumption DEF Tag
<1> QED
  BY <1>1, <1>2 DEF add_log, filter_block_range, filter_block_hash

(* For every block and filter: the receipt of each transaction shows the   *)
(* logs eth_getLogs shows of it, with the same three indices, and the      *)
(* subscription pushes the logs eth_getLogs selects, equal to them but for *)
(* the transaction_index.                                                  *)
THEOREM IndicesAgree ==
  ASSUME NEW X, NEW r \in Seq(X), NEW L, HasLogs(r, L),
         NEW f, f.from_block = Null, f.to_block = Null, f.block_hash = Null, NEW block
  PROVE  LET all == logs_build(AnyLog, r)
             some == logs_build(f, r)
             pushed == pubsub_logs(f, block, r) IN
         /\ \A i \in DOMAIN r :
              Sublist(all, {j \in DOMAIN all : all[j].transaction_index = i - 1}) =
                ReceiptLogs(r, i - 1)
         /\ \A i \in DOMAIN some : \E j \in DOMAIN all : some[i] = all[j]
         /\ Len(pushed) = Len(some)
         /\ \A i \in DOMAIN some :
              [pushed[i] EXCEPT !.transaction_index = some[i].transaction_index] = some[i]
<1> DEFINE n == Len(r)
           w == Counts(r)
           all == logs_build(AnyLog, r)
           keep == {j \in DOMAIN all : Keep(f, all[j].log)}
           some == logs_build(f, r)
           pushed == pubsub_logs(f, block, r)
<1>1. n \in Nat /\ DOMAIN r = 1 .. n /\ w \in [1 .. n -> Nat]
  BY CountsTyped
<1>2. all = NumberLogs(r) /\ all \in Seq(Entries(L))
  BY AllLogs
<1>3. some = Sublist(all, keep)
  BY <1>2 DEF logs_build
<1>4. some \in Seq(Range(all)) /\ \A i \in DOMAIN some : \E j \in DOMAIN all : some[i] = all[j]
  <2> HIDE DEF all, keep, some
  <2> QED
    BY <1>2, <1>3, SublistInside
<1>5. pushed = MapSeq(some, LAMBDA x : [x EXCEPT !.transaction_index = x.log_index])
  <2>1. keep = {j \in DOMAIN all : add_log(f, block, all[j].log)}
    BY SameLogsKept
  <2> HIDE DEF all, keep, some
  <2> QED
    BY <1>2, <1>3, <2>1 DEF pubsub_logs
<1>6. pushed = [i \in DOMAIN some |-> [some[i] EXCEPT !.transaction_index = some[i].log_index]]
  BY <1>5 DEF MapSeq
<1> HIDE DEF all, keep, some, pushed
<1>7. Len(pushed) = Len(some)
  <2>1. DOMAIN some = 1 .. Len(some) /\ Len(some) \in Nat
    BY <1>4
  <2> QED
    BY <1>6, <2>1
<1>8. ASSUME NEW i \in DOMAIN some
      PROVE  [pushed[i] EXCEPT !.transaction_index = some[i].transaction_index] = some[i]
  <2>1. pushed[i] = [some[i] EXCEPT !.transaction_index = some[i].log_index]
    BY <1>6
  <2>2. some[i] \in Entries(L)
    <3>1. PICK j \in DOMAIN all : some[i] = all[j]
      BY <1>4
    <3> QED
      BY <1>2, <3>1
  <2> QED
    BY <2>1, <2>2 DEF Entries
<1>9. ASSUME NEW i \in DOMAIN r
      PROVE  Sublist(all, {j \in DOMAIN all : all[j].transaction_index = i - 1}) = ReceiptLogs(r, i - 1)
  <2>1. PICK e : Path(n, Nat, 0, ExactSum(w), e)
    <3> HIDE DEF n, w
    <3> QED
      BY <1>1, ExactSums
  <2>2. PICK walk : NumbersLogs(r, e, n, walk) /\ walk.out = all
    BY <1>2, <2>1, NumberedLogs
  <2>3. /\ e \in [0 .. n -> Nat] /\ \A k \in 1 .. n : e[k] = e[k - 1] + w[k]
        /\ \A k, j \in 0 .. n : k <= j => e[k] <= e[j]
    <3> HIDE DEF n, w
    <3> QED
      BY <1>1, <2>1, SumsGrow
  <2> DEFINE a == e[i - 1]
             b == e[i]
             c == Chunk(r, i, a)
             mine == {j \in DOMAIN all : all[j].transaction_index = i - 1}
  <2>4. i \in 1 .. n /\ i - 1 \in 0 .. n /\ i \in 0 .. n /\ n \in 0 .. n /\ i <= n
    BY <1>1
  <2>5. a \in Nat /\ b \in Nat /\ b = a + w[i] /\ b <= e[n] /\ w[i] \in Nat
    <3> HIDE DEF n, w
    <3> QED
      BY <1>1, <2>3, <2>4
  <2>6. Len(all) = e[n] /\ DOMAIN all = 1 .. e[n]
    BY <1>2, <2>2 DEF NumbersLogs
  <2>7. \A j \in 1 .. Len(all) : j \in mine <=> a < j /\ j <= b
    BY <2>2, <2>4, <2>6 DEF NumbersLogs
  <2>8. \A j \in 1 .. w[i] : all[a + j] = c[j]
    BY <2>2, <2>4 DEF NumbersLogs
  <2>9. c \in Seq(Entries(L)) /\ Len(c) = w[i]
    BY <2>5, ChunkTyped
  <2>10. ReceiptLogs(r, i - 1) = c
    BY <2>1, ReceiptChunk
  <2> HIDE DEF n, w, a, b, c, mine
  <2>11. a <= b /\ b <= Len(all) /\ b - a = w[i]
    BY <2>5, <2>6
  <2>12. Sublist(all, mine) = c
    <3>1. Len(c) = b - a /\ \A j \in 1 .. b - a : all[a + j] = c[j]
      BY <2>8, <2>9, <2>11
    <3>2. a \in Nat /\ b \in Nat /\ a <= b /\ b <= Len(all)
      BY <2>5, <2>11
    <3>3. all \in Seq(Entries(L)) /\ c \in Seq(Entries(L))
      BY <1>2, <2>9
    <3>4. \A j \in 1 .. Len(all) : j \in mine <=> a < j /\ j <= b
      BY <2>7
    <3>5. IsSegment(Entries(L), all, mine, a, b, c)
      BY <3>1, <3>2, <3>3, <3>4 DEF IsSegment
    <3> QED
      BY <3>5, SublistIs
  <2> QED
    BY <2>10, <2>12 DEF mine
<1> QED
  BY <1>4, <1>7, <1>8, <1>9 DEF all, some, pushed

-----------------------------------------------------------------------------
(* The topic filter.  Has: x is an element of the sequence.                *)

Has(s, x) == \E m \in DOMAIN s : s[m] = x

(* A concatenation has the elements of both parts.                         *)
LEMMA HasConcatenation ==
  ASSUME NEW X, NEW u \in Seq(X), NEW v \in Seq(X), NEW x
  PROVE  u \o v \in Seq(X) /\ (Has(u \o v, x) <=> Has(u, x) \/ Has(v, x))
<1> DEFINE z == u \o v
<1>1. /\ z \in Seq(X) /\ Len(z) = Len(u) + Len(v)
      /\ \A m \in 1 .. Len(u) : z[m] = u[m]
      /\ \A m \in 1 .. Len(v) : z[Len(u) + m] = v[m]
  BY Concatenation
<1>2. /\ Len(u) \in Nat /\ Len(v) \in Nat
      /\ DOMAIN u = 1 .. Len(u) /\ DOMAIN v = 1 .. Len(v) /\ DOMAIN z = 1 .. Len(z)
  BY <1>1
<1> HIDE DEF z
<1>3. ASSUME NEW m \in DOMAIN u PROVE m \in DOMAIN z /\ z[m] = u[m]
  BY <1>1, <1>2
<1>4. ASSUME NEW m \in DOMAIN v PROVE Len(u) + m \in DOMAIN z /\ z[Len(u) + m] = v[m]
  BY <1>1, <1>2
<1>5. ASSUME NEW m \in DOMAIN z
      PROVE  (m \in DOMAIN u /\ z[m] = u[m]) \/ (\E k \in DOMAIN v : z[m] = v[k])
  <2>1. CASE m <= Len(u)
    BY <1>1, <1>2, <2>1
  <2>2. CASE ~(m <= Len(u))
    <3>1. m - Len(u) \in 1 .. Len(v) /\ Len(u) + (m - Len(u)) = m
      BY <1>1, <1>2, <2>2
    <3> QED
      BY <1>1, <1>2, <3>1
  <2> QED
    BY <2>1, <2>2
<1> QED
  BY <1>1, <1>3, <1>4, <1>5, ZenonT(40) DEF Has, z

Joins(X, ss) == [i \in 1 .. Len(ss) |-> [v \in Seq(X) |-> v \o ss[i]]]

(* FlattenSeq as a path of concatenations.                                 *)
LEMMA JoinPath ==
  ASSUME NEW X, NEW ss \in Seq(Seq(X))
  PROVE  \E p : Path(Len(ss), Seq(X), <<>>, Joins(X, ss), p)
<1> DEFINE n == Len(ss)
           V == Seq(X)
           G == Joins(X, ss)
<1>1. n \in Nat
  OBVIOUS
<1>2. \A i \in 1 .. n : \A v \in V : G[i][v] \in V
  <2> TAKE i \in 1 .. n
  <2> TAKE v \in V
  <2>1. ss[i] \in Seq(X) /\ G[i][v] = v \o ss[i]
    BY DEF Joins
  <2> QED
    BY <2>1
<1>3. <<>> \in V
  OBVIOUS
<1> HIDE DEF n, V, G
<1>4. Steps(n, V, <<>>, G)
  BY <1>2, <1>3 DEF Steps
<1>5. PICK it : LeftFold(n, V, <<>>, G, it)
  BY <1>1, <1>4, LeftFoldDefined
<1>6. Unwinds(n, V, <<>>, G, it)
  BY <1>5 DEF LeftFold, Unwinds
<1> QED
  BY <1>1, <1>4, <1>6, LeftFoldPath DEF n, V, G

LEMMA FlattenUnfolds ==
  ASSUME NEW X, NEW ss \in Seq(Seq(X)), ss # <<>>
  PROVE  \E f : /\ f[1] = ss[1]
                /\ \A i \in 2 .. Len(ss) : f[i] = f[i - 1] \o ss[i]
                /\ FlattenSeq(ss) = f[Len(ss)]
<1> DEFINE n == Len(ss)
           Def(f) == f = [i \in 1 .. n |-> IF i = 1 THEN ss[i] ELSE f[i - 1] \o ss[i]]
           g == CHOOSE f : Def(f)
<1>1. n \in Nat /\ n # 0 /\ 1 \in 1 .. n
  OBVIOUS
<1>2. PICK p : Path(n, Seq(X), <<>>, Joins(X, ss), p)
  BY JoinPath
<1> DEFINE h == [i \in 1 .. n |-> p[i]]
<1>3. \A i \in 1 .. n : p[i] = p[i - 1] \o ss[i]
  <2> TAKE i \in 1 .. n
  <2>1. i - 1 \in 0 .. n
    BY <1>1
  <2>2. p[i - 1] \in Seq(X)
    BY <1>2, <2>1 DEF Path
  <2> QED
    BY <1>2, <2>2 DEF Path, Joins
<1>4. p[1] = ss[1]
  <2>1. p[0] = <<>> /\ 1 - 1 = 0 /\ ss[1] \in Seq(X)
    BY <1>1, <1>2 DEF Path
  <2>2. <<>> \o ss[1] = ss[1]
    BY <2>1
  <2> QED
    BY <1>1, <1>3, <2>1, <2>2
<1>5. Def(h)
  <2>1. \A i \in 1 .. n : h[i] = IF i = 1 THEN ss[i] ELSE h[i - 1] \o ss[i]
    <3> TAKE i \in 1 .. n
    <3>1. CASE i = 1
      BY <1>4, <3>1
    <3>2. CASE i # 1
      <4>1. i - 1 \in 1 .. n
        BY <1>1, <3>2
      <4> QED
        BY <1>3, <3>2, <4>1
    <3> QED
      BY <3>1, <3>2
  <2> QED
    BY <2>1
<1>6. Def(g)
  <2> HIDE DEF Def
  <2> QED
    BY <1>5
<1>7. FlattenSeq(ss) = g[n]
  BY <1>1 DEF FlattenSeq, g
<1> HIDE DEF g
<1>8. \A i \in 1 .. n : g[i] = IF i = 1 THEN ss[i] ELSE g[i - 1] \o ss[i]
  BY <1>6
<1>9. \A i \in 2 .. n : i \in 1 .. n /\ i # 1
  OBVIOUS
<1> QED
  BY <1>1, <1>7, <1>8, <1>9

(* Flattening keeps exactly the elements of the parts.                     *)
LEMMA Flattened ==
  ASSUME NEW X, NEW ss \in Seq(Seq(X))
  PROVE  /\ FlattenSeq(ss) \in Seq(X)
         /\ \A x : Has(FlattenSeq(ss), x) <=> \E i \in DOMAIN ss : Has(ss[i], x)
<1>1. CASE ss = <<>>
  <2>1. FlattenSeq(ss) = <<>>
    BY <1>1 DEF FlattenSeq
  <2>2. DOMAIN <<>> = {} /\ <<>> \in Seq(X)
    OBVIOUS
  <2>3. \A x : ~Has(<<>>, x)
    BY <2>2 DEF Has
  <2>4. ~\E i \in DOMAIN ss : TRUE
    BY <1>1, <2>2
  <2> QED
    BY <2>1, <2>2, <2>3, <2>4
<1>2. CASE ss # <<>>
  <2> DEFINE n == Len(ss)
  <2>1. PICK f : /\ f[1] = ss[1]
                 /\ \A i \in 2 .. n : f[i] = f[i - 1] \o ss[i]
                 /\ FlattenSeq(ss) = f[n]
    BY <1>2, FlattenUnfolds
  <2>2. n \in Nat /\ n # 0 /\ DOMAIN ss = 1 .. n /\ \A i \in 1 .. n : ss[i] \in Seq(X)
    BY <1>2
  <2> DEFINE Upto(k) == f[k] \in Seq(X) /\ \A x : Has(f[k], x) <=> \E i \in 1 .. k : Has(ss[i], x)
             Q == {k \in 0 .. n : k = 0 \/ Upto(k)}
  <2> HIDE DEF n
  <2>3. 0 \in Q
    BY <2>2
  <2>4. ASSUME NEW k \in 0 .. n, k # n, k \in Q PROVE k + 1 \in Q
    <3>1. k + 1 \in 1 .. n /\ k + 1 \in 0 .. n /\ (k + 1) - 1 = k
      BY <2>2, <2>4
    <3>2. CASE k = 0
      <4>1. f[k + 1] = ss[1] /\ \A i \in 1 .. k + 1 : i = 1
        BY <2>1, <3>2
      <4>2. 1 \in 1 .. k + 1 /\ ss[1] \in Seq(X)
        BY <2>2, <3>1, <3>2
      <4> QED
        BY <3>1, <4>1, <4>2
    <3>3. CASE k # 0
      <4>1. k + 1 \in 2 .. n /\ Upto(k)
        BY <2>4, <3>1, <3>3
      <4>2. f[k + 1] = f[k] \o ss[k + 1] /\ f[k] \in Seq(X) /\ ss[k + 1] \in Seq(X)
        BY <2>1, <2>2, <3>1, <4>1
      <4>3. /\ f[k + 1] \in Seq(X)
            /\ \A x : Has(f[k + 1], x) <=> Has(f[k], x) \/ Has(ss[k + 1], x)
        BY <4>2, HasConcatenation
      <4>4. \A i : i \in 1 .. k + 1 <=> i \in 1 .. k \/ i = k + 1
        BY <3>1
      <4>5. Upto(k + 1)
        BY <4>1, <4>3, <4>4
      <4> QED
        BY <3>1, <4>5
    <3> QED
      BY <3>2, <3>3
  <2>5. n \in Q
    <3>1. n \in 0 .. n
      BY <2>2
    <3> HIDE DEF Q
    <3> QED
      BY <2>2, <2>3, <2>4, <3>1, PrefixInduction
  <2>6. Upto(n)
    BY <2>2, <2>5
  <2> QED
    BY <2>1, <2>2, <2>6
<1> QED
  BY <1>1, <1>2

LEMMA FunctionIsSequence ==
  ASSUME NEW S, NEW n \in Nat, NEW f \in [1 .. n -> S]
  PROVE  f \in Seq(S) /\ Len(f) = n /\ DOMAIN f = 1 .. n
OBVIOUS

Extend(v, l) == FlattenSeq([i \in DOMAIN v |-> MapSeq(l, LAMBDA x : Append(v[i], x))])

OneLonger(v, l, c) == \E b, x : Has(v, b) /\ Has(l, x) /\ c = Append(b, x)

(* One position more: every element of l after every element of v.         *)
LEMMA Extended ==
  ASSUME NEW A, NEW v \in Seq(Seq(A)), NEW l \in Seq(A)
  PROVE  /\ Extend(v, l) \in Seq(Seq(A))
         /\ \A c : Has(Extend(v, l), c) <=> OneLonger(v, l, c)
<1> DEFINE part(i) == [k \in DOMAIN l |-> Append(v[i], l[k])]
           parts == [i \in DOMAIN v |-> part(i)]
<1>1. DOMAIN v = 1 .. Len(v) /\ Len(v) \in Nat /\ DOMAIN l = 1 .. Len(l) /\ Len(l) \in Nat
  OBVIOUS
<1>2. Extend(v, l) = FlattenSeq(parts)
  BY DEF Extend, MapSeq
<1>3. ASSUME NEW i \in DOMAIN v
      PROVE  part(i) \in Seq(Seq(A)) /\ \A c : Has(part(i), c) <=> \E x : Has(l, x) /\ c = Append(v[i], x)
  <2>1. v[i] \in Seq(A) /\ \A k \in 1 .. Len(l) : l[k] \in A
    OBVIOUS
  <2>2. \A x \in A : Append(v[i], x) \in Seq(A)
    BY <2>1
  <2>3. part(i) \in [1 .. Len(l) -> Seq(A)]
    BY <1>1, <2>1, <2>2
  <2>4. part(i) \in Seq(Seq(A))
    <3> HIDE DEF part
    <3> QED
      BY <1>1, <2>3, FunctionIsSequence
  <2>5. DOMAIN part(i) = DOMAIN l /\ \A k \in DOMAIN l : part(i)[k] = Append(v[i], l[k])
    OBVIOUS
  <2> HIDE DEF part
  <2> QED
    BY <2>4, <2>5 DEF Has
<1> HIDE DEF part
<1>4. parts \in Seq(Seq(Seq(A))) /\ DOMAIN parts = DOMAIN v /\ \A i \in DOMAIN v : parts[i] = part(i)
  <2>1. parts \in [1 .. Len(v) -> Seq(Seq(A))]
    BY <1>1, <1>3
  <2> QED
    BY <1>1, <2>1
<1> HIDE DEF parts
<1>5. /\ FlattenSeq(parts) \in Seq(Seq(A))
      /\ \A c : Has(FlattenSeq(parts), c) <=> \E i \in DOMAIN parts : Has(parts[i], c)
  <2> DEFINE X == Seq(A)
  <2>1. parts \in Seq(Seq(X))
    BY <1>4
  <2> HIDE DEF X
  <2>2. /\ FlattenSeq(parts) \in Seq(X)
        /\ \A c : Has(FlattenSeq(parts), c) <=> \E i \in DOMAIN parts : Has(parts[i], c)
    BY <2>1, Flattened
  <2> QED
    BY <2>2 DEF X
<1>6. \A c : Has(FlattenSeq(parts), c) <=> \E i \in DOMAIN v : \E x : Has(l, x) /\ c = Append(v[i], x)
  BY <1>3, <1>4, <1>5
<1>7. \A b : Has(v, b) <=> \E i \in DOMAIN v : v[i] = b
  BY DEF Has
<1> QED
  BY <1>2, <1>5, <1>6, <1>7 DEF OneLonger

ProductStep(A, ls) == [i \in DOMAIN ls |-> [v \in Seq(Seq(A)) |-> Extend(v, ls[i])]]

FoldedProduct(start, ls) ==
  FoldLeft(LAMBDA res, l : FlattenSeq([i \in DOMAIN res |-> MapSeq(l, LAMBDA x : Append(res[i], x))]),
           start, ls)

(* The folds of cartesian as a path along the positions, and what one more *)
(* position adds to a product.                                             *)
LEMMA ProductPath ==
  ASSUME NEW A, NEW start \in Seq(Seq(A)), NEW ls \in Seq(Seq(A))
  PROVE  \E p : /\ Path(Len(ls), Seq(Seq(A)), start, ProductStep(A, ls), p)
                /\ p[Len(ls)] = FoldedProduct(start, ls)
<1> DEFINE n == Len(ls)
           V == Seq(Seq(A))
           G == ProductStep(A, ls)
           Arm(i, v) == FlattenSeq([k \in DOMAIN v |-> MapSeq(ls[i], LAMBDA x : Append(v[k], x))])
           Def(it) == it = [s \in SUBSET (DOMAIN ls) |->
                              IF s = {} THEN start ELSE Arm(Max(s), it[s \ {Max(s)}])]
<1>1. n \in Nat /\ DOMAIN ls = 1 .. n
  OBVIOUS
<1>2. \A i \in 1 .. n : \A v \in V : Arm(i, v) = G[i][v] /\ G[i][v] \in V
  <2> TAKE i \in 1 .. n
  <2> TAKE v \in V
  <2>1. ls[i] \in Seq(A) /\ G[i][v] = Extend(v, ls[i])
    BY <1>1 DEF ProductStep
  <2>2. Arm(i, v) = Extend(v, ls[i])
    BY DEF Extend
  <2>3. Extend(v, ls[i]) \in Seq(Seq(A))
    BY <2>1, Extended
  <2> QED
    BY <2>1, <2>2, <2>3
<1> HIDE DEF Arm, V, G
<1>3. Steps(n, V, start, G)
  BY <1>2 DEF Steps, V
<1>4. PICK it : LeftFold(n, V, start, G, it)
  BY <1>1, <1>3, LeftFoldDefined
<1>5. \A s \in SUBSET (1 .. n) : s # {} => Max(s) \in 1 .. n
  BY <1>1, LastIsGreatest
<1>6. Def(it)
  <2>1. ASSUME NEW s \in SUBSET (1 .. n), s # {}
        PROVE  it[s] = Arm(Max(s), it[s \ {Max(s)}])
    <3>1. Max(s) \in 1 .. n
      BY <1>5, <2>1
    <3>2. it[s \ {Max(s)}] \in V
      BY <1>4 DEF LeftFold
    <3>3. it[s] = G[Max(s)][it[s \ {Max(s)}]]
      BY <1>4, <2>1 DEF LeftFold
    <3> QED
      BY <1>2, <3>1, <3>2, <3>3
  <2> QED
    BY <1>1, <1>4, <2>1 DEF LeftFold
<1> DEFINE jt == CHOOSE j : Def(j)
<1>7. Def(jt)
  <2> HIDE DEF Def
  <2> QED
    BY <1>6
<1>8. FoldedProduct(start, ls) = jt[1 .. n]
  BY <1>1 DEF FoldedProduct, FoldLeft, MapThenFoldSet, jt, Arm
<1> HIDE DEF jt
<1>9. Unwinds(n, V, start, G, jt)
  BY <1>1, <1>2, <1>5, <1>7 DEF Unwinds
<1>10. PICK p : Path(n, V, start, G, p) /\ p[n] = jt[1 .. n]
  <2> HIDE DEF n
  <2> QED
    BY <1>1, <1>3, <1>9, LeftFoldPath
<1> QED
  BY <1>8, <1>10 DEF V, G

InProduct(A, lists, k, c) == c \in Seq(A) /\ Len(c) = k /\ \A j \in 1 .. k : Has(lists[j], c[j])

GrownProduct(A, lists, k, c) ==
  \E b, x : InProduct(A, lists, k, b) /\ Has(lists[k + 1], x) /\ c = Append(b, x)

LEMMA ProductGrows ==
  ASSUME NEW A, NEW lists, NEW k \in Nat, NEW c, \A x : Has(lists[k + 1], x) => x \in A
  PROVE  InProduct(A, lists, k + 1, c) <=> GrownProduct(A, lists, k, c)
<1>1. ASSUME InProduct(A, lists, k + 1, c)
      PROVE  \E b, x : InProduct(A, lists, k, b) /\ Has(lists[k + 1], x) /\ c = Append(b, x)
  <2> DEFINE b == SubSeq(c, 1, k)
  <2>1. c \in Seq(A) /\ Len(c) = k + 1 /\ \A j \in 1 .. k + 1 : Has(lists[j], c[j])
    BY <1>1 DEF InProduct
  <2>2. b \in Seq(A) /\ Len(b) = k /\ \A j \in 1 .. k : b[j] = c[j] /\ j \in 1 .. k + 1
    BY <2>1
  <2>3. InProduct(A, lists, k, b)
    BY <2>1, <2>2 DEF InProduct
  <2>4. Append(b, c[k + 1]) = c
    <3>1. 0 \in Nat /\ k \in 0 .. Len(c) /\ k # Len(c) /\ 0 <= k
      BY <2>1
    <3>2. Append(SubSeq(c, 0 + 1, k), c[k + 1]) = SubSeq(c, 0 + 1, k + 1)
      BY <2>1, <3>1, SegmentGrows
    <3>3. SubSeq(c, 1, k + 1) = c
      BY <2>1
    <3> QED
      BY <3>2, <3>3
  <2>5. Has(lists[k + 1], c[k + 1])
    BY <2>1
  <2> HIDE DEF b
  <2> QED
    BY <2>3, <2>4, <2>5
<1>2. ASSUME NEW b, NEW x, InProduct(A, lists, k, b), Has(lists[k + 1], x), c = Append(b, x)
      PROVE  InProduct(A, lists, k + 1, c)
  <2>1. b \in Seq(A) /\ Len(b) = k /\ x \in A
    BY <1>2 DEF InProduct
  <2>2. Append(b, x) \in Seq(A) /\ Len(Append(b, x)) = k + 1
    BY <2>1
  <2>3. Append(b, x)[k + 1] = x /\ \A j \in 1 .. k : Append(b, x)[j] = b[j]
    BY <2>1
  <2>4. \A j \in 1 .. k + 1 : j \in 1 .. k \/ j = k + 1
    OBVIOUS
  <2>5. \A j \in 1 .. k + 1 : Has(lists[j], c[j])
    BY <1>2, <2>3, <2>4 DEF InProduct
  <2> QED
    BY <1>2, <2>2, <2>5 DEF InProduct
<1> QED
  BY <1>1, <1>2 DEF GrownProduct

(* cartesian yields exactly the choices of one alternative per position.   *)
LEMMA CartesianIsProduct ==
  ASSUME NEW A, NEW lists \in Seq(Seq(A)), lists # <<>>
  PROVE  /\ cartesian(lists) \in Seq(Seq(A))
         /\ \A c : Has(cartesian(lists), c) <=> InProduct(A, lists, Len(lists), c)
<1> DEFINE n == Len(lists)
           ls == Tail(lists)
           start == [i \in DOMAIN lists[1] |-> <<lists[1][i]>>]
           V == Seq(Seq(A))
<1>1. n \in Nat /\ n # 0 /\ \A i \in 1 .. n : lists[i] \in Seq(A)
  OBVIOUS
<1>2. ls \in Seq(Seq(A)) /\ Len(ls) = n - 1 /\ \A i \in 1 .. n - 1 : ls[i] = lists[i + 1]
  OBVIOUS
<1>3. start \in V /\ \A c : Has(start, c) <=> InProduct(A, lists, 1, c)
  <2>1. lists[1] \in Seq(A) /\ DOMAIN lists[1] = 1 .. Len(lists[1]) /\ Len(lists[1]) \in Nat
    BY <1>1
  <2>2. \A i \in DOMAIN lists[1] : lists[1][i] \in A
    BY <2>1
  <2>3. \A x \in A : <<x>> \in Seq(A) /\ Len(<<x>>) = 1 /\ <<x>>[1] = x
    OBVIOUS
  <2>4. start \in [1 .. Len(lists[1]) -> Seq(A)]
    BY <2>1, <2>2, <2>3
  <2>5. start \in Seq(Seq(A))
    <3> HIDE DEF start
    <3> QED
      BY <2>1, <2>4, FunctionIsSequence
  <2>6. ASSUME NEW c PROVE Has(start, c) <=> InProduct(A, lists, 1, c)
    <3>1. Has(start, c) <=> \E i \in DOMAIN lists[1] : c = <<lists[1][i]>>
      BY DEF Has
    <3>2. InProduct(A, lists, 1, c) <=> c \in Seq(A) /\ Len(c) = 1 /\ Has(lists[1], c[1])
      BY DEF InProduct
    <3>3. ASSUME c \in Seq(A), Len(c) = 1 PROVE c = <<c[1]>>
      BY <3>3
    <3> HIDE DEF start
    <3> QED
      BY <2>2, <2>3, <3>1, <3>2, <3>3 DEF Has
  <2> QED
    BY <2>5, <2>6
<1>4. cartesian(lists) = FoldedProduct(start, ls)
  BY DEF cartesian, FoldedProduct, MapSeq
<1> HIDE DEF start, ls, n
<1>5. PICK p : Path(n - 1, V, start, ProductStep(A, ls), p) /\ p[n - 1] = cartesian(lists)
  <2>1. start \in Seq(Seq(A))
    BY <1>3
  <2>2. PICK p : /\ Path(Len(ls), Seq(Seq(A)), start, ProductStep(A, ls), p)
                 /\ p[Len(ls)] = FoldedProduct(start, ls)
    BY <1>2, <2>1, ProductPath
  <2>3. Len(ls) = n - 1
    BY <1>2
  <2>4. Path(n - 1, V, start, ProductStep(A, ls), p) /\ p[n - 1] = cartesian(lists)
    BY <1>4, <2>2, <2>3
  <2> QED
    BY <2>4
<1> DEFINE Q == {k \in 0 .. n - 1 : \A c : Has(p[k], c) <=> InProduct(A, lists, k + 1, c)}
<1>6. n - 1 \in Nat /\ n - 1 \in 0 .. n - 1 /\ 0 \in 0 .. n - 1
  BY <1>1
<1>7. 0 \in Q
  <2>1. p[0] = start /\ 0 + 1 = 1
    BY <1>5 DEF Path
  <2> QED
    BY <1>3, <1>6, <2>1
<1>8. ASSUME NEW k \in 0 .. n - 1, k # n - 1, k \in Q PROVE k + 1 \in Q
  <2>1. k + 1 \in 1 .. n - 1 /\ k + 1 \in 0 .. n - 1 /\ (k + 1) - 1 = k /\ k + 1 \in Nat
    BY <1>1, <1>8
  <2> DEFINE l == lists[(k + 1) + 1]
  <2>2. l \in Seq(A) /\ ls[k + 1] = l /\ DOMAIN ls = 1 .. n - 1
    BY <1>1, <1>2, <2>1
  <2>3. p[k] \in V /\ p[k + 1] = Extend(p[k], l)
    BY <1>5, <2>1, <2>2 DEF Path, ProductStep
  <2>4. \A c : Has(p[k + 1], c) <=> OneLonger(p[k], l, c)
    <3> DEFINE v == p[k]
    <3>1. v \in Seq(Seq(A)) /\ p[k + 1] = Extend(v, l) /\ l \in Seq(A)
      BY <2>2, <2>3
    <3> HIDE DEF v, l
    <3>2. \A c : Has(Extend(v, l), c) <=> OneLonger(v, l, c)
      BY <3>1, Extended
    <3> QED
      BY <3>1, <3>2 DEF v
  <2>5. \A x : Has(l, x) => x \in A
    BY <2>2 DEF Has
  <2>6. \A b : Has(p[k], b) <=> InProduct(A, lists, k + 1, b)
    BY <1>8
  <2>7. \A c : InProduct(A, lists, (k + 1) + 1, c) <=> GrownProduct(A, lists, k + 1, c)
    <3> DEFINE k1 == k + 1
    <3>1. k1 \in Nat /\ \A x : Has(lists[k1 + 1], x) => x \in A
      BY <2>1, <2>5
    <3> HIDE DEF k1
    <3>2. \A c : InProduct(A, lists, k1 + 1, c) <=> GrownProduct(A, lists, k1, c)
      BY <3>1, ProductGrows
    <3> QED
      BY <3>2 DEF k1
  <2>8. \A c : Has(p[k + 1], c) <=> InProduct(A, lists, (k + 1) + 1, c)
    <3>1. \A c : OneLonger(p[k], l, c) <=> GrownProduct(A, lists, k + 1, c)
      <4> HIDE DEF Q
      <4> QED
        BY <2>6 DEF OneLonger, GrownProduct
    <3> QED
      BY <2>4, <2>7, <3>1
  <2> QED
    BY <2>1, <2>8
<1>9. n - 1 \in Q
  <2> DEFINE m == n - 1
  <2>1. m \in Nat /\ m \in 0 .. m /\ \A k \in 0 .. m : k # m /\ k \in Q => k + 1 \in Q
    BY <1>6, <1>8
  <2> HIDE DEF m, Q
  <2>2. m \in Q
    BY <1>7, <2>1, PrefixInduction
  <2> QED
    BY <2>2 DEF m
<1>10. (n - 1) + 1 = n /\ p[n - 1] \in V
  BY <1>1, <1>5, <1>6 DEF Path
<1> QED
  BY <1>5, <1>9, <1>10 DEF n

(* The last position of m that is not a wildcard, 0 if all are.            *)
LastTopic(m, n) ==
  /\ n \in 0 .. Len(m)
  /\ \A k \in n + 1 .. Len(m) : m[k] = Null
  /\ n > 0 => m[n] # Null

(* There is exactly one last position without a wildcard.                  *)
LEMMA LastTopicExists ==
  ASSUME NEW A, NEW m \in Seq(A)
  PROVE  \E n : LastTopic(m, n)
<1> DEFINE S == {n \in 0 .. Len(m) : \A k \in n + 1 .. Len(m) : m[k] = Null}
<1>1. S \in SUBSET Nat /\ Len(m) \in S /\ Len(m) \in Nat
  OBVIOUS
<1>2. PICK n \in S : \A i \in S : n <= i
  <2> HIDE DEF S
  <2> QED
    BY <1>1, LeastNatural
<1>3. n \in 0 .. Len(m) /\ n \in Nat /\ \A k \in n + 1 .. Len(m) : m[k] = Null
  BY <1>1
<1>4. ASSUME n > 0, m[n] = Null PROVE FALSE
  <2>1. n - 1 \in 0 .. Len(m) /\ ~(n <= n - 1) /\ (n - 1) + 1 = n
    BY <1>1, <1>3, <1>4
  <2>2. \A k \in n .. Len(m) : k = n \/ k \in n + 1 .. Len(m)
    BY <1>1, <1>3
  <2>3. n - 1 \in S
    BY <1>3, <1>4, <2>1, <2>2
  <2> QED
    BY <1>2, <2>1, <2>3
<1> QED
  BY <1>3, <1>4 DEF LastTopic

LEMMA LastTopicIsUnique ==
  ASSUME NEW A, NEW B, NEW m \in Seq(A), NEW u \in Seq(B), Len(m) = Len(u),
         \A k \in 1 .. Len(m) : m[k] = Null <=> u[k] = Null,
         NEW n, LastTopic(m, n), NEW i, LastTopic(u, i)
  PROVE  n = i
<1>1. Len(m) \in Nat /\ n \in 0 .. Len(m) /\ i \in 0 .. Len(m)
  BY DEF LastTopic
<1>2. ASSUME n < i PROVE FALSE
  <2>1. i \in n + 1 .. Len(m) /\ i > 0 /\ i \in 1 .. Len(m)
    BY <1>1, <1>2
  <2> QED
    BY <2>1 DEF LastTopic
<1>3. ASSUME i < n PROVE FALSE
  <2>1. n \in i + 1 .. Len(u) /\ n > 0 /\ n \in 1 .. Len(m)
    BY <1>1, <1>3
  <2> QED
    BY <2>1 DEF LastTopic
<1> QED
  BY <1>1, <1>2, <1>3

(* Shrinking drops the wildcards at the end.                               *)
LEMMA Shrunk ==
  ASSUME NEW A, NEW m \in Seq(A)
  PROVE  \E n : LastTopic(m, n) /\ Shrink(m) = SubSeq(m, 1, n)
<1> DEFINE IsLast(n) == /\ \A k \in n + 1 .. Len(m) : m[k] = Null
                        /\ n > 0 => m[n] # Null
           c == CHOOSE n \in 0 .. Len(m) : IsLast(n)
<1>1. \E n \in 0 .. Len(m) : IsLast(n)
  BY LastTopicExists DEF LastTopic
<1>2. c \in 0 .. Len(m) /\ IsLast(c)
  <2> HIDE DEF IsLast
  <2> QED
    BY <1>1
<1>3. Shrink(m) = SubSeq(m, 1, c)
  BY DEF Shrink
<1> HIDE DEF c
<1> QED
  BY <1>2, <1>3 DEF LastTopic

(* Every topic m names is the log's in its position.                       *)
Fits(topics, m) == \A k \in 1 .. Len(m) : m[k] = Null \/ (k <= Len(topics) /\ topics[k] = m[k])

Yes == [out |-> TRUE, stop |-> FALSE]
No == [out |-> FALSE, stop |-> FALSE]
YesStop == [out |-> TRUE, stop |-> TRUE]
NoStop == [out |-> FALSE, stop |-> TRUE]

(* The comparison of the loop, position by position.                       *)
LEMMA PrefixAgrees ==
  ASSUME NEW X, NEW s \in Seq(X), NEW t \in Seq(X), Len(s) <= Len(t)
  PROVE  IsPrefix(s, t) <=> \A k \in 1 .. Len(s) : s[k] = t[k]
<1> DEFINE u == SubSeq(t, 1, Len(s))
<1>1. SubSeq(s, 1, Len(s)) = s
  OBVIOUS
<1>2. u \in Seq(X) /\ Len(u) = Len(s) /\ \A k \in 1 .. Len(s) : u[k] = t[k]
  OBVIOUS
<1>3. IsPrefix(s, t) <=> s = u
  BY <1>1 DEF IsPrefix
<1> HIDE DEF u
<1> QED
  BY <1>2, <1>3

LEMMA FirstElement ==
  ASSUME NEW X, NEW h \in X, NEW t \in Seq(X)
  PROVE  IsPrefix(<<h>>, t) <=> 1 <= Len(t) /\ t[1] = h
<1>1. PICK g \in Seq(X) : g = <<h>> /\ Len(g) = 1 /\ g[1] = h
  <2>1. <<h>> \in Seq(X) /\ Len(<<h>>) = 1 /\ <<h>>[1] = h
    OBVIOUS
  <2> QED
    BY <2>1
<1>2. CASE 1 <= Len(t)
  <2>1. Len(g) <= Len(t) /\ \A k : k \in 1 .. Len(g) <=> k = 1
    BY <1>1, <1>2
  <2>2. IsPrefix(g, t) <=> \A k \in 1 .. Len(g) : g[k] = t[k]
    BY <2>1, PrefixAgrees
  <2>3. IsPrefix(g, t) <=> t[1] = h
    BY <1>1, <2>1, <2>2
  <2> QED
    BY <1>1, <1>2, <2>3
<1>3. CASE ~(1 <= Len(t))
  BY <1>1, <1>3 DEF IsPrefix
<1> QED
  BY <1>2, <1>3

(* One turn over a choice of alternatives, while the loop goes on.         *)
LEMMA TurnFits ==
  ASSUME NEW H, Null \notin H, NEW topics \in Seq(H), NEW m \in Seq(H \cup {Null}),
         NEW acc \in {Yes, No}, NEW n, LastTopic(m, n)
  PROVE  LET turn == FilterTurn(topics, acc, Multiple(m)) IN
         /\ n > Len(topics) => turn = NoStop /\ ~Fits(topics, m)
         /\ n = 0 => turn = acc /\ Fits(topics, m)
         /\ n # 0 /\ n <= Len(topics) /\ Fits(topics, m) => turn = YesStop
         /\ n # 0 /\ n <= Len(topics) /\ ~Fits(topics, m) => turn = No
<1> DEFINE new == Shrink(m)
           turn == FilterTurn(topics, acc, Multiple(m))
           rep == replace(topics, new)
<1>1. PICK i : LastTopic(m, i) /\ new = SubSeq(m, 1, i)
  BY Shrunk
<1>2. i = n
  BY <1>1, LastTopicIsUnique
<1>3. n \in Nat /\ n <= Len(m) /\ Len(m) \in Nat /\ Len(topics) \in Nat
  BY DEF LastTopic
<1>4. /\ new \in Seq(H \cup {Null}) /\ Len(new) = n /\ DOMAIN new = 1 .. n
      /\ \A k \in 1 .. n : new[k] = m[k] /\ k \in 1 .. Len(m)
  BY <1>1, <1>2, <1>3
<1>5. ~acc.stop
  BY DEF Yes, No
<1>6. turn = IF Len(new) > Len(topics) THEN NoStop
             ELSE IF new = <<>> THEN acc
             ELSE [out |-> IsPrefix(rep, topics), stop |-> IsPrefix(rep, topics)]
  BY <1>5 DEF FilterTurn, Multiple, NoStop
<1>7. rep = [k \in 1 .. n |-> IF new[k] = Null THEN topics[k] ELSE new[k]]
  BY <1>4 DEF replace
<1> HIDE DEF new, rep, turn
<1>8. n = 0 <=> new = <<>>
  BY <1>4
<1>9. ASSUME n > Len(topics) PROVE ~Fits(topics, m)
  <2>1. n \in 1 .. Len(m) /\ m[n] # Null /\ ~(n <= Len(topics))
    BY <1>3, <1>9 DEF LastTopic
  <2> QED
    BY <2>1 DEF Fits
<1>10. ASSUME n = 0 PROVE Fits(topics, m)
  BY <1>10 DEF LastTopic, Fits
<1>11. ASSUME n <= Len(topics) PROVE IsPrefix(rep, topics) <=> Fits(topics, m)
  <2>1. ASSUME NEW k \in 1 .. n
        PROVE  rep[k] \in H /\ (rep[k] = topics[k] <=> m[k] = Null \/ topics[k] = m[k])
    <3>1. k \in 1 .. Len(topics) /\ topics[k] \in H /\ new[k] = m[k] /\ m[k] \in H \cup {Null}
      BY <1>3, <1>4, <1>11
    <3> QED
      BY <1>7, <3>1
  <2>2. rep \in [1 .. n -> H]
    BY <1>7, <2>1
  <2>3. rep \in Seq(H) /\ Len(rep) = n
    BY <1>3, <2>2, FunctionIsSequence
  <2>4. IsPrefix(rep, topics) <=> \A k \in 1 .. n : rep[k] = topics[k]
    BY <1>11, <2>3, PrefixAgrees
  <2>5. IsPrefix(rep, topics) <=> \A k \in 1 .. n : m[k] = Null \/ topics[k] = m[k]
    BY <2>1, <2>4
  <2>6. \A k \in 1 .. n : k <= Len(topics) /\ k \in 1 .. Len(m)
    BY <1>3, <1>11
  <2>7. \A k \in 1 .. Len(m) : k \in 1 .. n \/ m[k] = Null
    <3> TAKE k \in 1 .. Len(m)
    <3>1. k \in 1 .. n \/ k \in n + 1 .. Len(m)
      BY <1>3
    <3> QED
      BY <3>1 DEF LastTopic
  <2> QED
    BY <2>5, <2>6, <2>7 DEF Fits
<1>12. ASSUME n # 0, n <= Len(topics)
       PROVE  turn = [out |-> IsPrefix(rep, topics), stop |-> IsPrefix(rep, topics)]
  BY <1>3, <1>4, <1>6, <1>8, <1>12
<1>13. n # 0 /\ n <= Len(topics) /\ Fits(topics, m) => turn = YesStop
  BY <1>11, <1>12 DEF YesStop
<1>14. n # 0 /\ n <= Len(topics) /\ ~Fits(topics, m) => turn = No
  BY <1>11, <1>12 DEF No
<1>15. n = 0 => turn = acc
  BY <1>3, <1>4, <1>6, <1>8
<1>16. n > Len(topics) => turn = NoStop
  BY <1>4, <1>6
<1> QED
  BY <1>9, <1>10, <1>13, <1>14, <1>15, <1>16 DEF turn

Accs == {Yes, No, YesStop, NoStop}

FilterStep(topics, flats) ==
  [i \in DOMAIN flats |-> [v \in Accs |-> FilterTurn(topics, v, flats[i])]]

TopicFold(topics, flats) == FoldLeft(LAMBDA acc, f : FilterTurn(topics, acc, f), Yes, flats)

TurnsTyped(topics, flats) ==
  \A i \in DOMAIN flats : \A v \in Accs : FilterTurn(topics, v, flats[i]) \in Accs

(* The loop of filter_topics as a path along its choices; a loop that has  *)
(* stopped stays as it is.                                                 *)
LEMMA FilterFold ==
  ASSUME NEW X, NEW flats \in Seq(X), NEW topics, TurnsTyped(topics, flats)
  PROVE  \E p : /\ Path(Len(flats), Accs, Yes, FilterStep(topics, flats), p)
                /\ p[Len(flats)] = TopicFold(topics, flats)
<1> DEFINE n == Len(flats)
           V == Accs
           G == FilterStep(topics, flats)
           Arm(i, v) == FilterTurn(topics, v, flats[i])
           Def(it) == it = [s \in SUBSET (DOMAIN flats) |->
                              IF s = {} THEN Yes ELSE Arm(Max(s), it[s \ {Max(s)}])]
<1>1. n \in Nat /\ DOMAIN flats = 1 .. n
  OBVIOUS
<1>2. \A i \in 1 .. n : \A v \in V : Arm(i, v) = G[i][v] /\ G[i][v] \in V
  BY <1>1 DEF FilterStep, TurnsTyped
<1> HIDE DEF Arm, V, G
<1>3. Steps(n, V, Yes, G)
  BY <1>2 DEF Steps, V, Accs
<1>4. PICK it : LeftFold(n, V, Yes, G, it)
  BY <1>1, <1>3, LeftFoldDefined
<1>5. \A s \in SUBSET (1 .. n) : s # {} => Max(s) \in 1 .. n
  BY <1>1, LastIsGreatest
<1>6. Def(it)
  <2>1. ASSUME NEW s \in SUBSET (1 .. n), s # {}
        PROVE  it[s] = Arm(Max(s), it[s \ {Max(s)}])
    <3>1. Max(s) \in 1 .. n
      BY <1>5, <2>1
    <3>2. it[s \ {Max(s)}] \in V
      BY <1>4 DEF LeftFold
    <3>3. it[s] = G[Max(s)][it[s \ {Max(s)}]]
      BY <1>4, <2>1 DEF LeftFold
    <3> QED
      BY <1>2, <3>1, <3>2, <3>3
  <2> QED
    BY <1>1, <1>4, <2>1 DEF LeftFold
<1> DEFINE jt == CHOOSE j : Def(j)
<1>7. Def(jt)
  <2> HIDE DEF Def
  <2> QED
    BY <1>6
<1>8. TopicFold(topics, flats) = jt[1 .. n]
  BY <1>1 DEF TopicFold, FoldLeft, MapThenFoldSet, jt, Arm
<1> HIDE DEF jt
<1>9. Unwinds(n, V, Yes, G, jt)
  BY <1>1, <1>2, <1>5, <1>7 DEF Unwinds
<1>10. PICK p : Path(n, V, Yes, G, p) /\ p[n] = jt[1 .. n]
  <2> HIDE DEF n
  <2> QED
    BY <1>1, <1>3, <1>9, LeftFoldPath
<1> QED
  BY <1>8, <1>10 DEF V, G

LEMMA FilterPath ==
  ASSUME NEW X, NEW flats \in Seq(X), NEW topics, TurnsTyped(topics, flats)
  PROVE  \E p : /\ Path(Len(flats), Accs, Yes, FilterStep(topics, flats), p)
                /\ p[Len(flats)].out = filter_topics(topics, flats)
<1>1. PICK p : /\ Path(Len(flats), Accs, Yes, FilterStep(topics, flats), p)
               /\ p[Len(flats)] = TopicFold(topics, flats)
  BY FilterFold
<1>2. filter_topics(topics, flats) = TopicFold(topics, flats).out
  BY DEF filter_topics, TopicFold, Yes
<1> QED
  BY <1>1, <1>2

LEMMA StoppedTurn ==
  ASSUME NEW topics, NEW flat, NEW acc, acc.stop
  PROVE  FilterTurn(topics, acc, flat) = acc
BY DEF FilterTurn

LEMMA OutAndStop ==
  /\ Yes.out /\ ~Yes.stop /\ ~No.out /\ ~No.stop /\ YesStop.out /\ YesStop.stop
  /\ ~NoStop.out /\ NoStop.stop
BY DEF Yes, No, YesStop, NoStop

FlatChoices(C) == [i \in DOMAIN C |-> Multiple(C[i])]

(* A loop over choices of alternatives: what it lets through fits one of   *)
(* them, and it lets through what fits one when all choices have their     *)
(* last topic in the same position.                                        *)
LEMMA FilterChoices ==
  ASSUME NEW H, Null \notin H, NEW topics \in Seq(H), NEW C \in Seq(Seq(H \cup {Null})), C # <<>>
  PROVE  /\ filter_topics(topics, FlatChoices(C)) => \E i \in DOMAIN C : Fits(topics, C[i])
         /\ \A l : /\ \A i \in DOMAIN C : LastTopic(C[i], l)
                   /\ \E i \in DOMAIN C : Fits(topics, C[i])
                   => filter_topics(topics, FlatChoices(C))
<1> DEFINE n == Len(C)
           A == H \cup {Null}
           Turn(i, v) == FilterTurn(topics, v, Multiple(C[i]))
<1>1. n \in Nat /\ n # 0 /\ DOMAIN C = 1 .. n /\ \A i \in 1 .. n : C[i] \in Seq(A)
  OBVIOUS
<1>2. DOMAIN FlatChoices(C) = 1 .. n /\ \A i \in 1 .. n : FlatChoices(C)[i] = Multiple(C[i])
  BY <1>1 DEF FlatChoices
<1>3. FlatChoices(C) \in Seq({Multiple(C[i]) : i \in 1 .. n}) /\ Len(FlatChoices(C)) = n
  <2> DEFINE X == {Multiple(C[i]) : i \in 1 .. n}
             z == FlatChoices(C)
  <2>1. z \in [1 .. n -> X]
    BY <1>1 DEF FlatChoices
  <2> HIDE DEF n, X, z
  <2>2. z \in Seq(X) /\ Len(z) = n
    BY <1>1, <2>1, FunctionIsSequence
  <2> QED
    BY <2>2 DEF X, z
<1>4. ASSUME NEW i \in 1 .. n PROVE \E l : LastTopic(C[i], l) /\ l \in Nat
  <2>1. PICK l : LastTopic(C[i], l)
    BY <1>1, LastTopicExists
  <2>2. Len(C[i]) \in Nat
    BY <1>1
  <2>3. l \in 0 .. Len(C[i])
    BY <2>1 DEF LastTopic
  <2>4. l \in Nat
    BY <2>2, <2>3
  <2> QED
    BY <2>1, <2>4
<1>5. ASSUME NEW i \in 1 .. n, NEW v \in {Yes, No}, NEW l, LastTopic(C[i], l)
      PROVE  /\ l > Len(topics) => Turn(i, v) = NoStop /\ ~Fits(topics, C[i])
             /\ l = 0 => Turn(i, v) = v /\ Fits(topics, C[i])
             /\ l # 0 /\ l <= Len(topics) /\ Fits(topics, C[i]) => Turn(i, v) = YesStop
             /\ l # 0 /\ l <= Len(topics) /\ ~Fits(topics, C[i]) => Turn(i, v) = No
  BY <1>1, <1>5, TurnFits, SMTT(30)
<1>6. \A i : \A v \in {YesStop, NoStop} : Turn(i, v) = v
  BY StoppedTurn, OutAndStop
<1> HIDE DEF Turn
<1>7. Len(topics) \in Nat
  OBVIOUS
<1>8. ASSUME NEW i \in 1 .. n, NEW v \in Accs
      PROVE  /\ Turn(i, v) \in Accs
             /\ v \in {Yes, No} /\ Turn(i, v).out => Fits(topics, C[i])
  <2>1. PICK l : LastTopic(C[i], l) /\ l \in Nat
    BY <1>4
  <2>2. CASE v \in {YesStop, NoStop}
    BY <1>6, <2>2, OutAndStop DEF Accs
  <2>3. CASE v \in {Yes, No}
    <3>1. CASE l > Len(topics)
      BY <1>5, <2>1, <2>3, <3>1, OutAndStop DEF Accs
    <3>2. CASE l = 0
      BY <1>5, <2>1, <2>3, <3>2 DEF Accs
    <3>3. CASE l # 0 /\ l <= Len(topics) /\ Fits(topics, C[i])
      BY <1>5, <2>1, <2>3, <3>3 DEF Accs
    <3>4. CASE l # 0 /\ l <= Len(topics) /\ ~Fits(topics, C[i])
      BY <1>5, <2>1, <2>3, <3>4, OutAndStop DEF Accs
    <3> QED
      BY <1>7, <2>1, <3>1, <3>2, <3>3, <3>4
  <2> QED
    BY <2>2, <2>3 DEF Accs
<1>9. TurnsTyped(topics, FlatChoices(C))
  BY <1>2, <1>8 DEF TurnsTyped, Turn
<1>10. PICK p : /\ Path(n, Accs, Yes, FilterStep(topics, FlatChoices(C)), p)
                /\ p[n].out = filter_topics(topics, FlatChoices(C))
  BY <1>3, <1>9, FilterPath
<1>11. p[0] = Yes /\ \A k \in 0 .. n : p[k] \in Accs
  BY <1>10 DEF Path
<1>12. \A k \in 1 .. n : p[k] = Turn(k, p[k - 1])
  <2> TAKE k \in 1 .. n
  <2>1. k - 1 \in 0 .. n
    BY <1>1
  <2>2. p[k - 1] \in Accs
    BY <1>11, <2>1
  <2> QED
    BY <1>2, <1>10, <2>2 DEF Path, FilterStep, Turn
<1> HIDE DEF n
<1> DEFINE FitsUpTo(k) == \E i \in 1 .. k : Fits(topics, C[i])
<1>13. ASSUME p[n].out PROVE \E i \in DOMAIN C : Fits(topics, C[i])
  <2> DEFINE Q == {k \in 0 .. n : /\ k # 0 /\ p[k].out => FitsUpTo(k)
                                  /\ k = 0 => p[k] = Yes}
  <2>1. 0 \in Q
    BY <1>1, <1>11
  <2>2. ASSUME NEW k \in 0 .. n, k # n, k \in Q PROVE k + 1 \in Q
    <3>1. k + 1 \in 1 .. n /\ k + 1 \in 0 .. n /\ (k + 1) - 1 = k /\ k + 1 # 0 /\ k \in Nat
      BY <1>1, <2>2
    <3>2. p[k] \in Accs /\ p[k + 1] = Turn(k + 1, p[k])
      BY <1>11, <1>12, <3>1
    <3>3. \A i \in 1 .. k : i \in 1 .. k + 1
      BY <3>1
    <3>4. k + 1 \in 1 .. k + 1
      BY <3>1
    <3>5. ASSUME p[k + 1].out PROVE FitsUpTo(k + 1)
      <4>1. CASE p[k] \in {Yes, No}
        <5>1. Fits(topics, C[k + 1])
          BY <1>8, <3>1, <3>2, <3>5, <4>1
        <5> QED
          BY <3>4, <5>1
      <4>2. CASE p[k] \in {YesStop, NoStop}
        <5>1. p[k + 1] = p[k] /\ p[k] # Yes
          BY <1>6, <3>2, <4>2, OutAndStop
        <5>2. k # 0 /\ p[k].out
          BY <2>2, <3>5, <5>1
        <5>3. FitsUpTo(k)
          BY <2>2, <5>2
        <5> QED
          BY <3>3, <5>3
      <4> QED
        BY <3>2, <4>1, <4>2 DEF Accs
    <3> HIDE DEF FitsUpTo
    <3> QED
      BY <3>1, <3>5
  <2>3. n \in Q
    <3>1. n \in 0 .. n
      BY <1>1
    <3> HIDE DEF Q
    <3> QED
      BY <1>1, <2>1, <2>2, <3>1, PrefixInduction
  <2> QED
    BY <1>1, <1>13, <2>3
<1>14. ASSUME NEW l, \A i \in DOMAIN C : LastTopic(C[i], l), NEW f \in DOMAIN C, Fits(topics, C[f])
       PROVE  p[n].out
  <2>1. f \in 1 .. n /\ LastTopic(C[f], l) /\ l \in Nat
    <3>1. f \in 1 .. n /\ LastTopic(C[f], l)
      BY <1>1, <1>14
    <3>2. Len(C[f]) \in Nat
      BY <1>1, <3>1
    <3> QED
      BY <3>1, <3>2 DEF LastTopic
  <2>2. l <= Len(topics)
    <3>1. Yes \in {Yes, No}
      OBVIOUS
    <3>2. ~(l > Len(topics))
      BY <1>5, <1>14, <2>1, <3>1
    <3> QED
      BY <1>7, <2>1, <3>2
  <2>3. CASE l = 0
    <3> DEFINE Q == {k \in 0 .. n : p[k] = Yes}
    <3>1. 0 \in Q
      BY <1>1, <1>11
    <3>2. ASSUME NEW k \in 0 .. n, k # n, k \in Q PROVE k + 1 \in Q
      <4>1. k + 1 \in 1 .. n /\ k + 1 \in 0 .. n /\ (k + 1) - 1 = k
        BY <1>1, <3>2
      <4>2. p[k] = Yes /\ p[k + 1] = Turn(k + 1, p[k]) /\ LastTopic(C[k + 1], l)
        BY <1>1, <1>12, <1>14, <3>2, <4>1
      <4>3. p[k + 1] = p[k]
        BY <1>5, <2>3, <4>1, <4>2
      <4> QED
        BY <4>1, <4>2, <4>3
    <3>3. n \in Q
      <4>1. n \in 0 .. n
        BY <1>1
      <4> HIDE DEF Q
      <4> QED
        BY <1>1, <3>1, <3>2, <4>1, PrefixInduction
    <3> QED
      BY <3>3, OutAndStop
  <2>4. CASE l # 0
    <3> DEFINE Q == {k \in 0 .. n : /\ p[k] \in {Yes, No, YesStop}
                                    /\ f <= k => p[k] = YesStop}
    <3>1. 0 \in Q
      BY <1>1, <1>11, <2>1
    <3>2. ASSUME NEW k \in 0 .. n, k # n, k \in Q PROVE k + 1 \in Q
      <4>1. k + 1 \in 1 .. n /\ k + 1 \in 0 .. n /\ (k + 1) - 1 = k /\ k \in Nat
        BY <1>1, <3>2
      <4>2. p[k + 1] = Turn(k + 1, p[k]) /\ LastTopic(C[k + 1], l) /\ p[k] \in {Yes, No, YesStop}
        BY <1>1, <1>12, <1>14, <3>2, <4>1
      <4>3. CASE p[k] = YesStop
        <5>1. p[k + 1] = YesStop
          BY <1>6, <4>2, <4>3
        <5> QED
          BY <4>1, <5>1
      <4>4. CASE p[k] \in {Yes, No}
        <5>1. ~(f <= k)
          BY <3>2, <4>4, OutAndStop
        <5>2. f <= k + 1 => f = k + 1
          BY <1>1, <2>1, <4>1, <5>1
        <5>3. Fits(topics, C[k + 1]) => p[k + 1] = YesStop
          BY <1>5, <2>2, <2>4, <4>1, <4>2, <4>4
        <5>4. ~Fits(topics, C[k + 1]) => p[k + 1] = No
          BY <1>5, <2>2, <2>4, <4>1, <4>2, <4>4
        <5> QED
          BY <1>14, <4>1, <5>2, <5>3, <5>4
      <4> QED
        BY <4>2, <4>3, <4>4
    <3>3. n \in Q
      <4>1. n \in 0 .. n
        BY <1>1
      <4> HIDE DEF Q
      <4> QED
        BY <1>1, <3>1, <3>2, <4>1, PrefixInduction
    <3>4. f <= n
      BY <1>1, <2>1
    <3> QED
      BY <3>3, <3>4, OutAndStop
  <2> QED
    BY <2>3, <2>4
<1> QED
  BY <1>10, <1>13, <1>14

(* The JSON values a topic filter can be, over the hashes H.               *)
AtomsOf(H) == {NullValue} \cup {Hash(h) : h \in H}
InnersOf(H) == AtomsOf(H) \cup {List(s) : s \in Seq(AtomsOf(H))}
JsonOf(H) == AtomsOf(H) \cup {List(s) : s \in Seq(InnersOf(H))}

(* The three kinds of JSON value are told apart by their tag.              *)
LEMMA JsonKinds ==
  /\ NullValue.json = "null"
  /\ \A h : Hash(h).json = "hash" /\ Hash(h).value = h
  /\ \A s : List(s).json = "list" /\ List(s).items = s
BY DEF NullValue, Hash, List

LEMMA AtomHash ==
  ASSUME NEW H, NEW a \in AtomsOf(H)
  PROVE  /\ a.json # "list" /\ OptionHash(a) \in H \cup {Null}
         /\ Allowed(a) = {OptionHash(a)}
<1>1. CASE a = NullValue
  BY <1>1, JsonKinds DEF OptionHash, Allowed
<1>2. CASE \E h \in H : a = Hash(h)
  <2>1. PICK h \in H : a = Hash(h)
    BY <1>2
  <2> QED
    BY <2>1, JsonKinds DEF OptionHash, Allowed
<1> QED
  BY <1>1, <1>2 DEF AtomsOf

Alts(x) == Alternatives(ParseOption(x))

(* The alternatives of a position are the hashes it allows.                *)
LEMMA AltsAreAllowed ==
  ASSUME NEW H, NEW x \in InnersOf(H)
  PROVE  Alts(x) \in Seq(H \cup {Null}) /\ \A a : Has(Alts(x), a) <=> a \in Allowed(x)
<1> DEFINE A == H \cup {Null}
<1>1. \A a \in A : <<a>> \in Seq(A) /\ \A b : Has(<<a>>, b) <=> b = a
  <2> TAKE a \in A
  <2>1. <<a>> \in Seq(A) /\ DOMAIN <<a>> = 1 .. 1 /\ <<a>>[1] = a
    OBVIOUS
  <2>2. \A m \in 1 .. 1 : m = 1
    OBVIOUS
  <2> QED
    BY <2>1, <2>2 DEF Has
<1>2. CASE x = NullValue
  <2>1. Alts(x) = <<Null>>
    BY <1>2, JsonKinds DEF Alts, Alternatives, ParseOption, NoneVariant
  <2>2. Allowed(x) = {Null}
    BY <1>2, JsonKinds DEF Allowed
  <2> QED
    BY <1>1, <2>1, <2>2
<1>3. CASE \E h \in H : x = Hash(h)
  <2>1. PICK h \in H : x = Hash(h)
    BY <1>3
  <2>2. ParseOption(x) = Single(h)
    BY <2>1, JsonKinds DEF ParseOption, ParseFlat
  <2>3. Alts(x) = <<h>>
    BY <2>2 DEF Alts, Alternatives, Single
  <2>4. Allowed(x) = {h}
    BY <2>1, JsonKinds DEF Allowed
  <2> QED
    BY <1>1, <2>3, <2>4
<1>4. CASE \E s \in Seq(AtomsOf(H)) : x = List(s)
  <2>1. PICK s \in Seq(AtomsOf(H)) : x = List(s)
    BY <1>4
  <2> DEFINE y == [i \in DOMAIN s |-> OptionHash(s[i])]
  <2>2. ParseOption(x) = Multiple(y)
    BY <2>1, JsonKinds DEF ParseOption, ParseFlat, MapSeq
  <2>3. Alts(x) = y
    BY <2>2 DEF Alts, Alternatives, Multiple
  <2>4. Allowed(x) = {OptionHash(s[i]) : i \in DOMAIN s}
    BY <2>1, JsonKinds DEF Allowed
  <2>5. DOMAIN s = 1 .. Len(s) /\ Len(s) \in Nat /\ \A i \in DOMAIN s : s[i] \in AtomsOf(H)
    OBVIOUS
  <2>6. y \in [1 .. Len(s) -> A]
    BY <2>5, AtomHash
  <2>7. y \in Seq(A)
    <3> HIDE DEF y, A
    <3> QED
      BY <2>5, <2>6, FunctionIsSequence
  <2>8. \A a : Has(y, a) <=> a \in Allowed(x)
    BY <2>4 DEF Has
  <2> QED
    BY <2>3, <2>7, <2>8
<1> QED
  BY <1>2, <1>3, <1>4 DEF InnersOf, AtomsOf

(* A filter with one topic, or none.                                       *)
LEMMA FilterAtom ==
  ASSUME NEW H, Null \notin H, NEW topics \in Seq(H), NEW j \in AtomsOf(H)
  PROVE  filter_topics(topics, flatten(ParseTopic(j))) <=> Matches(topics, j)
<1> DEFINE flats == flatten(ParseTopic(j))
<1>1. ASSUME NEW flat, flats = <<flat>>, \A v \in Accs : FilterTurn(topics, v, flat) \in Accs
      PROVE  filter_topics(topics, flats) = FilterTurn(topics, Yes, flat).out
  <2> HIDE DEF flats
  <2>1. flats \in Seq({flat}) /\ Len(flats) = 1 /\ DOMAIN flats = 1 .. 1 /\ flats[1] = flat
    BY <1>1
  <2>2. \A i \in DOMAIN flats : i = 1
    BY <2>1
  <2>3. TurnsTyped(topics, flats)
    BY <1>1, <2>1, <2>2 DEF TurnsTyped
  <2>4. PICK p : Path(1, Accs, Yes, FilterStep(topics, flats), p) /\ p[1].out = filter_topics(topics, flats)
    BY <2>1, <2>3, FilterPath
  <2>5. p[1] = FilterStep(topics, flats)[1][p[1 - 1]] /\ 1 - 1 = 0 /\ p[0] = Yes
    BY <2>4 DEF Path
  <2>6. p[1] = FilterTurn(topics, Yes, flat)
    BY <2>1, <2>5 DEF FilterStep, Accs
  <2> QED
    BY <2>4, <2>6
<1>2. PositionsOf(j) = <<j>>
  BY AtomHash DEF PositionsOf
<1>3. Matches(topics, j) <=> Null \in Allowed(j) \/ (1 <= Len(topics) /\ topics[1] \in Allowed(j))
  <2>1. DOMAIN <<j>> = 1 .. 1 /\ <<j>>[1] = j
    OBVIOUS
  <2>2. \A k : k \in 1 .. 1 <=> k = 1
    OBVIOUS
  <2> QED
    BY <1>2, <2>1, <2>2 DEF Matches
<1>4. CASE j = NullValue
  <2>1. flats = <<NullVariant>>
    BY <1>4, JsonKinds DEF ParseTopic, flatten, NullVariant
  <2>2. \A v \in Accs : FilterTurn(topics, v, NullVariant) = IF v.stop THEN v ELSE [v EXCEPT !.out = TRUE]
    BY DEF FilterTurn, NullVariant, Accs, Yes, No, YesStop, NoStop
  <2>3. \A v \in Accs : FilterTurn(topics, v, NullVariant) \in Accs
    BY <2>2, OutAndStop DEF Accs, Yes, No, YesStop, NoStop
  <2>4. FilterTurn(topics, Yes, NullVariant).out
    BY <2>2, OutAndStop DEF Accs, Yes
  <2>5. Null \in Allowed(j)
    BY <1>4, JsonKinds DEF Allowed
  <2> QED
    BY <1>1, <1>3, <2>1, <2>3, <2>4, <2>5
<1>5. CASE \E h \in H : j = Hash(h)
  <2>1. PICK h \in H : j = Hash(h)
    BY <1>5
  <2>2. flats = <<Single(h)>>
    <3>1. IsFlat(j) /\ j.json = "hash" /\ j.value = h
      BY <2>1, JsonKinds DEF IsFlat
    <3>2. ParseTopic(j) = Single(Single(h))
      BY <3>1 DEF ParseTopic, ParseFlat
    <3> QED
      BY <3>2 DEF flatten, Single
  <2> DEFINE first == IsPrefix(<<h>>, topics)
  <2>3. \A v \in Accs : FilterTurn(topics, v, Single(h)) =
                         IF v.stop \/ first THEN v ELSE [v EXCEPT !.out = FALSE]
    BY DEF FilterTurn, Single, Accs, Yes, No, YesStop, NoStop
  <2> HIDE DEF first
  <2>4. \A v \in Accs : FilterTurn(topics, v, Single(h)) \in Accs
    BY <2>3, OutAndStop DEF Accs, Yes, No, YesStop, NoStop
  <2>5. FilterTurn(topics, Yes, Single(h)).out <=> first
    BY <2>3, OutAndStop DEF Accs, Yes
  <2>6. first <=> 1 <= Len(topics) /\ topics[1] = h
    BY FirstElement DEF first
  <2>7. Allowed(j) = {h} /\ h # Null
    BY <2>1, JsonKinds DEF Allowed
  <2>8. filter_topics(topics, flats) = FilterTurn(topics, Yes, Single(h)).out
    BY <1>1, <2>2, <2>4
  <2> QED
    BY <1>3, <2>5, <2>6, <2>7, <2>8
<1> QED
  BY <1>4, <1>5 DEF AtomsOf

(* What a list of JSON values asks of each position.                       *)
LEMMA ListPositions ==
  ASSUME NEW H, NEW s \in Seq(InnersOf(H)), NEW topics
  PROVE  /\ PositionsOf(List(s)) = s
         /\ DOMAIN s = 1 .. Len(s) /\ Len(s) \in Nat /\ \A k \in 1 .. Len(s) : s[k] \in InnersOf(H)
         /\ Matches(topics, List(s)) <=>
              \A k \in 1 .. Len(s) : \/ Null \in Allowed(s[k])
                                     \/ k <= Len(topics) /\ topics[k] \in Allowed(s[k])
         /\ NothingAllowed(List(s)) <=> \E k \in 1 .. Len(s) : Allowed(s[k]) = {}
<1>1. PositionsOf(List(s)) = s
  BY JsonKinds DEF PositionsOf
<1>2. DOMAIN s = 1 .. Len(s) /\ Len(s) \in Nat /\ \A k \in 1 .. Len(s) : s[k] \in InnersOf(H)
  OBVIOUS
<1> QED
  BY <1>1, <1>2 DEF Matches, NothingAllowed

(* A list without lists in it: one hash or a wildcard per position.        *)
LEMMA FilterFlatList ==
  ASSUME NEW H, Null \notin H, NEW topics \in Seq(H),
         NEW s \in Seq(InnersOf(H)), IsFlat(List(s))
  PROVE  filter_topics(topics, flatten(ParseTopic(List(s)))) <=> Matches(topics, List(s))
<1> DEFINE j == List(s)
           n == Len(s)
           m == [i \in DOMAIN s |-> OptionHash(s[i])]
           C == <<m>>
<1>1. DOMAIN s = 1 .. n /\ n \in Nat /\ \A k \in 1 .. n : s[k] \in InnersOf(H)
  BY ListPositions
<1>2. j.json = "list" /\ j.items = s
  BY JsonKinds
<1>3. \A k \in 1 .. n : s[k] \in AtomsOf(H)
  <2> TAKE k \in 1 .. n
  <2>1. s[k].json # "list"
    BY <1>1, <1>2 DEF IsFlat
  <2> QED
    BY <1>1, <2>1, JsonKinds DEF InnersOf
<1>4. m \in [1 .. n -> H \cup {Null}]
  BY <1>1, <1>3, AtomHash
<1>5. flatten(ParseTopic(j)) = <<Multiple(m)>>
  <2>1. ParseFlat(j) = Multiple(m)
    <3>1. ParseFlat(j) = Multiple(MapSeq(j.items, OptionHash))
      BY <1>2 DEF ParseFlat
    <3> QED
      BY <1>2, <3>1 DEF MapSeq
  <2>2. ParseTopic(j) = Single(Multiple(m))
    BY <1>2, <2>1 DEF ParseTopic
  <2> HIDE DEF m, j
  <2> QED
    BY <2>2 DEF flatten, Single
<1>6. m \in Seq(H \cup {Null}) /\ Len(m) = n
  <2> HIDE DEF m, n
  <2> QED
    BY <1>1, <1>4, FunctionIsSequence
<1>7. ASSUME NEW k \in 1 .. n PROVE Allowed(s[k]) = {m[k]}
  BY <1>1, <1>3, AtomHash
<1>8. Matches(topics, j) <=> \A k \in 1 .. n : \/ Null \in Allowed(s[k])
                                               \/ k <= Len(topics) /\ topics[k] \in Allowed(s[k])
  BY ListPositions
<1> HIDE DEF m, n, j
<1>9. Matches(topics, j) <=> Fits(topics, m)
  BY <1>6, <1>7, <1>8 DEF Fits
<1>10. C \in Seq(Seq(H \cup {Null})) /\ C # <<>> /\ DOMAIN C = 1 .. 1 /\ C[1] = m
  BY <1>6
<1>11. FlatChoices(C) = <<Multiple(m)>>
  BY <1>10 DEF FlatChoices
<1>12. PICK l : LastTopic(m, l)
  BY <1>6, LastTopicExists
<1>13. \A i \in DOMAIN C : C[i] = m
  BY <1>10
<1>14. 1 \in DOMAIN C
  BY <1>10
<1> HIDE DEF C
<1>15. /\ filter_topics(topics, FlatChoices(C)) => \E i \in DOMAIN C : Fits(topics, C[i])
       /\ (\A i \in DOMAIN C : LastTopic(C[i], l)) /\ (\E i \in DOMAIN C : Fits(topics, C[i]))
            => filter_topics(topics, FlatChoices(C))
  BY <1>10, FilterChoices
<1> QED
  BY <1>5, <1>9, <1>11, <1>12, <1>13, <1>14, <1>15 DEF j

(* A list with lists among its positions: the loop runs over the product   *)
(* of the alternatives.                                                    *)
LEMMA FilterNestedList ==
  ASSUME NEW H, Null \notin H, NEW topics \in Seq(H),
         NEW s \in Seq(InnersOf(H)), ~IsFlat(List(s)), ~NothingAllowed(List(s))
  PROVE  LET accepts == filter_topics(topics, flatten(ParseTopic(List(s)))) IN
         /\ accepts => Matches(topics, List(s))
         /\ PlainAlternatives(List(s)) /\ Matches(topics, List(s)) => accepts
<1> DEFINE j == List(s)
           n == Len(s)
           A == H \cup {Null}
           lists == [k \in DOMAIN s |-> Alts(s[k])]
           C == cartesian(lists)
           accepts == filter_topics(topics, flatten(ParseTopic(j)))
<1>1. DOMAIN s = 1 .. n /\ n \in Nat /\ \A k \in 1 .. n : s[k] \in InnersOf(H)
  BY ListPositions
<1>2. j.json = "list" /\ j.items = s
  BY JsonKinds
<1>3. n # 0
  BY <1>1, <1>2 DEF IsFlat
<1>4. \A k \in 1 .. n : Alts(s[k]) \in Seq(A) /\ \A a : Has(Alts(s[k]), a) <=> a \in Allowed(s[k])
  BY <1>1, AltsAreAllowed
<1>5. lists \in [1 .. n -> Seq(A)] /\ \A k \in 1 .. n : lists[k] = Alts(s[k])
  BY <1>1, <1>4
<1>6. accepts = filter_topics(topics, FlatChoices(C))
  <2>1. ParseTopic(j) = Multiple(MapSeq(s, ParseOption))
    BY <1>2 DEF ParseTopic
  <2>2. Multiple(MapSeq(s, ParseOption)).variant = "Multiple" /\
        Multiple(MapSeq(s, ParseOption)).value = MapSeq(s, ParseOption)
    BY DEF Multiple
  <2>3. flatten(ParseTopic(j)) = MapSeq(cartesian(MapSeq(MapSeq(s, ParseOption), Alternatives)), Multiple)
    BY <2>1, <2>2 DEF flatten
  <2>4. MapSeq(MapSeq(s, ParseOption), Alternatives) = lists
    BY DEF MapSeq, Alts
  <2> HIDE DEF lists
  <2> QED
    BY <2>3, <2>4 DEF FlatChoices, MapSeq
<1>7. lists \in Seq(Seq(A)) /\ Len(lists) = n /\ lists # <<>>
  <2> HIDE DEF lists, A, n
  <2>1. lists \in Seq(Seq(A)) /\ Len(lists) = n
    BY <1>1, <1>5, FunctionIsSequence
  <2> QED
    BY <1>3, <2>1
<1>8. /\ Matches(topics, j) <=> \A k \in 1 .. n : \/ Null \in Allowed(s[k])
                                                  \/ k <= Len(topics) /\ topics[k] \in Allowed(s[k])
      /\ \A k \in 1 .. n : Allowed(s[k]) # {}
  BY ListPositions
<1>9. \A k \in 1 .. n : Allowed(s[k]) \subseteq A
  <2> TAKE k \in 1 .. n
  <2> SUFFICES ASSUME NEW a \in Allowed(s[k]) PROVE a \in A
    OBVIOUS
  <2>1. Alts(s[k]) \in Seq(A) /\ Has(Alts(s[k]), a)
    BY <1>4
  <2> HIDE DEF A
  <2> QED
    BY <2>1 DEF Has
<1> HIDE DEF lists, accepts, n, j, A
<1>10. C \in Seq(Seq(A)) /\ \A c : Has(C, c) <=> InProduct(A, lists, n, c)
  BY <1>7, CartesianIsProduct
<1> HIDE DEF C
<1>11. \A c : Has(C, c) <=> c \in Seq(A) /\ Len(c) = n /\ \A k \in 1 .. n : c[k] \in Allowed(s[k])
  BY <1>4, <1>5, <1>10 DEF InProduct
<1>12. ASSUME NEW c \in [1 .. n -> A], \A k \in 1 .. n : c[k] \in Allowed(s[k])
       PROVE  Has(C, c) /\ Len(c) = n
  <2>1. c \in Seq(A) /\ Len(c) = n
    BY <1>1, FunctionIsSequence
  <2> QED
    BY <1>11, <1>12, <2>1
<1>13. C # <<>>
  <2> DEFINE c == [k \in 1 .. n |-> CHOOSE a : a \in Allowed(s[k])]
  <2>1. \A k \in 1 .. n : c[k] \in Allowed(s[k])
    BY <1>8
  <2>2. c \in [1 .. n -> A]
    BY <1>9, <2>1
  <2> HIDE DEF c
  <2>3. Has(C, c)
    BY <1>12, <2>1, <2>2
  <2> QED
    BY <1>10, <2>3 DEF Has
<1>14. \A i \in DOMAIN C : /\ C[i] \in Seq(A) /\ Len(C[i]) = n
                           /\ \A k \in 1 .. n : C[i][k] \in Allowed(s[k])
  BY <1>11 DEF Has
<1>15. /\ accepts => \E i \in DOMAIN C : Fits(topics, C[i])
       /\ \A l : (\A i \in DOMAIN C : LastTopic(C[i], l)) /\ (\E i \in DOMAIN C : Fits(topics, C[i]))
                   => accepts
  BY <1>6, <1>10, <1>13, FilterChoices DEF A
<1>16. ASSUME accepts PROVE Matches(topics, j)
  <2>1. PICK i \in DOMAIN C : Fits(topics, C[i])
    BY <1>15, <1>16
  <2>2. Len(C[i]) = n /\ \A k \in 1 .. n : C[i][k] \in Allowed(s[k])
    BY <1>14
  <2> QED
    BY <1>8, <2>1, <2>2 DEF Fits
<1>17. ASSUME PlainAlternatives(j), Matches(topics, j) PROVE accepts
  <2>1. ASSUME NEW k \in 1 .. n, Null \in Allowed(s[k]) PROVE Allowed(s[k]) = {Null}
    <3>1. s[k].json # "list"
      BY <1>1, <1>17, <2>1, ListPositions DEF PlainAlternatives, j
    <3>2. s[k] \in AtomsOf(H)
      BY <1>1, <3>1, JsonKinds DEF InnersOf
    <3> QED
      BY <2>1, <3>2, AtomHash
  <2> DEFINE c == [k \in 1 .. n |-> IF Null \in Allowed(s[k]) THEN Null ELSE topics[k]]
  <2>2. \A k \in 1 .. n : c[k] \in Allowed(s[k]) /\ (c[k] = Null \/ (k <= Len(topics) /\ topics[k] = c[k]))
    BY <1>8, <1>17
  <2>3. c \in [1 .. n -> A]
    BY <1>9, <2>2
  <2> HIDE DEF c
  <2>4. Has(C, c) /\ Len(c) = n
    BY <1>12, <2>2, <2>3
  <2>5. Fits(topics, c)
    BY <2>2, <2>4 DEF Fits
  <2>6. PICK f \in DOMAIN C : C[f] = c
    BY <2>4 DEF Has
  <2>7. c \in Seq(A)
    BY <1>14, <2>6
  <2>8. PICK l : LastTopic(c, l)
    BY <2>7, LastTopicExists
  <2>9. ASSUME NEW i \in DOMAIN C PROVE LastTopic(C[i], l)
    <3> DEFINE d == C[i]
    <3>1. d \in Seq(A) /\ Len(d) = n /\ \A k \in 1 .. n : d[k] \in Allowed(s[k])
      BY <1>14
    <3> HIDE DEF d
    <3>2. \A k \in 1 .. n : d[k] = Null <=> c[k] = Null
      BY <2>1, <2>2, <3>1
    <3>3. PICK x : LastTopic(d, x)
      BY <3>1, LastTopicExists
    <3>4. x = l
      BY <2>4, <2>7, <2>8, <3>1, <3>2, <3>3, LastTopicIsUnique
    <3> QED
      BY <3>3, <3>4 DEF d
  <2> QED
    BY <1>15, <2>5, <2>6, <2>9
<1> QED
  BY <1>16, <1>17 DEF accepts, j

(* For every filter and every log: filter_topics lets through no log that  *)
(* the filter does not describe, and every one it does when no position    *)
(* has null or nothing among its alternatives.                             *)
THEOREM TopicsFiltered ==
  ASSUME NEW H, Null \notin H, NEW j \in JsonOf(H), NEW topics \in Seq(H)
  PROVE  LET accepts == filter_topics(topics, flatten(ParseTopic(j))) IN
         /\ PlainAlternatives(j) => (accepts <=> Matches(topics, j))
         /\ accepts /\ ~NothingAllowed(j) => Matches(topics, j)
<1>1. CASE j \in AtomsOf(H)
  BY <1>1, FilterAtom
<1>2. CASE \E s \in Seq(InnersOf(H)) : j = List(s)
  <2>1. PICK s \in Seq(InnersOf(H)) : j = List(s)
    BY <1>2
  <2>2. CASE IsFlat(j)
    BY <2>1, <2>2, FilterFlatList
  <2>3. CASE ~IsFlat(j)
    <3>1. PlainAlternatives(j) => ~NothingAllowed(j)
      BY DEF PlainAlternatives
    <3>2. CASE NothingAllowed(j)
      BY <3>1, <3>2
    <3>3. CASE ~NothingAllowed(j)
      BY <2>1, <2>3, <3>3, FilterNestedList
    <3> QED
      BY <3>2, <3>3
  <2> QED
    BY <2>2, <2>3
<1> QED
  BY <1>1, <1>2 DEF JsonOf

-----------------------------------------------------------------------------
(* The heights eth_getLogs walks.                                          *)

HeightValues == {Null} \cup {[num |-> n] : n \in Nat} \cup {Tag(t) : t \in Tags}

LEMMA NumbersHaveHeights ==
  ASSUME NEW h \in HeightValues, IsNum(h)
  PROVE  h.num \in Nat
<1>1. PICK n \in Nat : h = [num |-> n]
  BY DEF IsNum, HeightValues
<1> QED
  BY <1>1

(* For every range without earliest, best number and later best number:    *)
(* eth_getLogs walks no height but those meant, all of them when the first *)
(* is a number or no block comes between the two reads of the best one,    *)
(* and for a first that is a number those the subscription lets through.   *)
(* Of earliest nothing is claimed: see EarliestIsGenesis.                  *)
THEOREM LogsRangeIsExact ==
  ASSUME NEW f, f.from_block \in HeightValues, f.to_block \in HeightValues,
         Tag("earliest") \notin {f.from_block, f.to_block},
         NEW best \in Nat, NEW again \in Nat, best <= again
  PROVE  /\ LogsRange(f, best, again) \subseteq MeantRange(f, best)
         /\ IsNum(f.from_block) \/ again = best => LogsRange(f, best, again) = MeantRange(f, best)
         /\ IsNum(f.from_block) => MeantRange(f, best) = {n \in 0 .. best : filter_block_range(f, n)}
<1> DEFINE from == f.from_block
           to == f.to_block
           bottom == to_min_block_num(from, again)
           limit == to_min_block_num(to, best)
           top == IF limit > best THEN best ELSE limit
           low == Height(from, best)
           high == Height(to, best)
<1>1. (IsNum(from) => from.num \in Nat) /\ (IsNum(to) => to.num \in Nat)
  BY NumbersHaveHeights
<1>2. LogsRange(f, best, again) = bottom .. top
  BY DEF LogsRange
<1>3. limit = high /\ high \in Nat /\ high = IF IsNum(to) THEN to.num ELSE best
  BY <1>1 DEF to_min_block_num, Height
<1>4. /\ low = IF IsNum(from) THEN from.num ELSE best
      /\ bottom = IF IsNum(from) THEN from.num ELSE again
      /\ low \in Nat /\ bottom \in Nat /\ low <= bottom
      /\ IsNum(from) \/ again = best => low = bottom
  BY <1>1 DEF to_min_block_num, Height
<1>5. \A n : filter_block_range(f, n) <=>
               (IsNum(from) => from.num <= n) /\ (IsNum(to) => to.num >= n)
  BY DEF filter_block_range
<1>6. MeantRange(f, best) = {n \in 0 .. best : low <= n /\ n <= high}
  BY DEF MeantRange
<1> HIDE DEF bottom, low, limit, high
<1>7. top \in Nat /\ \A n \in Nat : n <= top <=> n <= best /\ n <= high
  BY <1>3
<1> HIDE DEF top, from, to
<1>8. \A n : n \in bottom .. top <=> n \in 0 .. best /\ bottom <= n /\ n <= high
  BY <1>3, <1>4, <1>7
<1>9. bottom .. top \subseteq MeantRange(f, best)
  BY <1>3, <1>4, <1>6, <1>8
<1>10. IsNum(from) \/ again = best => bottom .. top = MeantRange(f, best)
  BY <1>4, <1>6, <1>8
<1>11. ASSUME IsNum(from), NEW n \in 0 .. best
       PROVE  low <= n /\ n <= high <=> filter_block_range(f, n)
  BY <1>1, <1>3, <1>4, <1>5, <1>11
<1>12. IsNum(from) => MeantRange(f, best) = {n \in 0 .. best : filter_block_range(f, n)}
  BY <1>6, <1>11
<1> QED
  BY <1>2, <1>9, <1>10, <1>12 DEF from

-----------------------------------------------------------------------------
(* What an input of MCPure is, without the bounds of the instance.         *)

Receipts == [logs : Seq(Logs), used_gas : Nat]

Declared == [len : Nat, accepted : BOOLEAN, flag : Nat, read : Nat,
             base_len : Nat, exp_len : Nat, mod_len : Nat]

Calls == [ weight : Nat, actual_weight : Nat, decodes : BOOLEAN, pays_fee : BOOLEAN,
           normal : BOOLEAN, succeeds : BOOLEAN ]

Ready == [from : {"x", "y"}, nonce : Nat]

DrawnDigest == \E d \in Seq(Items) : input = [about |-> "digest", digest |-> d]

DrawnTopics ==
  \E j \in JsonOf(Topics), t \in Seq(Topics) : input = [about |-> "topics", json |-> j, topics |-> t]

DrawnReceipts ==
  \E r \in Seq(Receipts), f \in LogFilters :
    input = [about |-> "receipts", receipts |-> r, filter |-> f]

DrawnRange ==
  \E from, to \in HeightValues, best, again \in Nat :
    /\ best <= again
    /\ input = [about |-> "range", filter |-> Filter(from, to, Null, Null, Null),
                best |-> best, again |-> again]

DrawnCost ==
  \E base, word, len \in Nat, target \in Int :
    input = [about |-> "cost", base |-> base, word |-> word, len |-> len, target |-> target]

DrawnPrecompile ==
  \E name \in Linear, i \in Declared : input = [about |-> "precompile", name |-> name, input |-> i]

DrawnCall ==
  \E call \in Calls, target \in Int :
    input = [about |-> "call", target |-> target, call |-> call]

DrawnStorage ==
  \E s : \E n \in Nat :
    /\ SchemaKey \in DOMAIN s
    /\ input = [about |-> "storage", index |-> n, storage |-> s]

DrawnReady ==
  \E ready \in Seq(Ready), nonces \in [{"x", "y"} -> Nat] :
    /\ IsReadyOrder(ready, nonces)
    /\ input = [about |-> "ready", ready |-> ready, nonces |-> nonces]

Drawn ==
  \/ DrawnDigest \/ DrawnTopics \/ DrawnReceipts \/ DrawnRange \/ DrawnCost
  \/ DrawnPrecompile \/ DrawnCall \/ DrawnStorage \/ DrawnReady

(* The kind of an input tells which part of the invariant is about it.     *)
LEMMA DrawnKinds ==
  ASSUME Drawn
  PROVE  /\ Is("digest") => DrawnDigest
         /\ Is("topics") => DrawnTopics
         /\ Is("receipts") => DrawnReceipts
         /\ Is("range") => DrawnRange
         /\ Is("cost") => DrawnCost
         /\ Is("precompile") => DrawnPrecompile
         /\ Is("call") => DrawnCall
         /\ Is("storage") => DrawnStorage
         /\ Is("ready") => DrawnReady
<1>1. /\ DrawnDigest => Is("digest")
      /\ DrawnTopics => Is("topics")
      /\ DrawnReceipts => Is("receipts")
      /\ DrawnRange => Is("range")
      /\ DrawnCost => Is("cost")
      /\ DrawnPrecompile => Is("precompile")
      /\ DrawnCall => Is("call")
      /\ DrawnStorage => Is("storage")
      /\ DrawnReady => Is("ready")
  BY DEF Is, DrawnDigest, DrawnTopics, DrawnReceipts, DrawnRange, DrawnCost, DrawnPrecompile,
     DrawnCall, DrawnStorage, DrawnReady
<1>2. \A a, b : Is(a) /\ Is(b) => a = b
  BY DEF Is
<1> QED
  BY <1>1, <1>2 DEF Drawn

LEMMA BoundedSequence ==
  ASSUME NEW n \in Nat, NEW S, NEW T, S \subseteq T
  PROVE  UpTo(n, S) \subseteq Seq(T)
<1> SUFFICES ASSUME NEW k \in 0 .. n, NEW f \in [1 .. k -> S] PROVE f \in Seq(T)
  BY DEF UpTo
<1>1. k \in Nat /\ f \in [1 .. k -> T]
  OBVIOUS
<1> QED
  BY <1>1, FunctionIsSequence

LEMMA TopicInputsAreJson == TopicInputs \subseteq JsonOf(Topics)
<1>1. Atoms \subseteq AtomsOf(Topics)
  BY DEF Atoms, AtomsOf, Topics
<1>2. \A S, T : S \subseteq T => UpTo(2, S) \subseteq Seq(T) /\ UpTo(MaxTopics, S) \subseteq Seq(T)
  BY BoundAssumption, BoundedSequence
<1>3. Atoms \cup {List(s) : s \in UpTo(2, Atoms)} \subseteq InnersOf(Topics)
  BY <1>1, <1>2 DEF InnersOf
<1> DEFINE I == Atoms \cup {List(s) : s \in UpTo(2, Atoms)}
<1>4. UpTo(MaxTopics, I) \subseteq Seq(InnersOf(Topics))
  <2> HIDE DEF I
  <2> QED
    BY <1>2, <1>3 DEF I
<1> HIDE DEF I
<1>5. Atoms \cup {List(s) : s \in UpTo(MaxTopics, I)} \subseteq JsonOf(Topics)
  BY <1>1, <1>4 DEF JsonOf
<1> QED
  BY <1>5 DEF TopicInputs, I

(* The input is always one of those kinds.                                 *)

LEMMA DigestsDrawn ==
  ASSUME Drawn, DepositLog
  PROVE  Drawn'
<1>1. PICK d \in Seq(Items) : input = [about |-> "digest", digest |-> d]
  BY DrawnKinds DEF DepositLog, DrawnDigest
<1>2. PICK item \in Items : input' = [input EXCEPT !.digest = Append(@, item)]
  BY DEF DepositLog
<1>3. Append(d, item) \in Seq(Items)
  OBVIOUS
<1>4. input' = [about |-> "digest", digest |-> Append(d, item)]
  BY <1>1, <1>2
<1> QED
  BY <1>3, <1>4 DEF Drawn, DrawnDigest

LEMMA TopicsDrawn ==
  ASSUME PickTopics
  PROVE  Drawn'
<1>1. PICK j \in TopicInputs, t \in UpTo(MaxTopics, Topics) :
        input' = [about |-> "topics", json |-> j, topics |-> t]
  BY DEF PickTopics
<1>2. j \in JsonOf(Topics) /\ t \in Seq(Topics)
  BY TopicInputsAreJson, BoundAssumption, BoundedSequence
<1> QED
  BY <1>1, <1>2 DEF Drawn, DrawnTopics

LEMMA ReceiptsDrawn ==
  ASSUME PickReceipts
  PROVE  Drawn'
<1> DEFINE R == [logs : UpTo(2, Logs), used_gas : {0, 3, U32}]
<1>1. PICK r \in UpTo(MaxReceipts, R), f \in LogFilters :
        input' = [about |-> "receipts", receipts |-> r, filter |-> f]
  BY DEF PickReceipts
<1>2. UpTo(2, Logs) \subseteq Seq(Logs)
  BY BoundedSequence
<1>3. R \subseteq Receipts
  BY <1>2, IndexAssumption DEF Receipts
<1> HIDE DEF R
<1>4. r \in Seq(Receipts)
  BY <1>3, BoundAssumption, BoundedSequence
<1> QED
  BY <1>1, <1>4 DEF Drawn, DrawnReceipts

LEMMA RangesDrawn ==
  ASSUME PickRange
  PROVE  Drawn'
<1>1. PICK from \in Heights, to \in Heights, best \in 0 .. 3, again \in 0 .. 3 :
        /\ best <= again
        /\ input' = [about |-> "range", filter |-> Filter(from, to, Null, Null, Null),
                     best |-> best, again |-> again]
  BY DEF PickRange
<1>2. from \in HeightValues /\ to \in HeightValues /\ best \in Nat /\ again \in Nat
  BY DEF Heights, HeightValues
<1> QED
  BY <1>1, <1>2 DEF Drawn, DrawnRange

LEMMA CostsDrawn ==
  ASSUME PickCost
  PROVE  Drawn'
<1>1. PICK base \in {0, 15, U64 - 4}, word \in {0, 3, 120}, target \in {-1, 15, U64 - 1},
           len \in {0, 1, 31, 32, 33, U64 \div 2, U64 - 33, U64 - 32, U64 - 31, U64 - 1} :
        input' = [about |-> "cost", base |-> base, word |-> word, len |-> len, target |-> target]
  BY DEF PickCost
<1>2. U64 \in Nat /\ U64 > 64 /\ U64 \div 2 \in Nat
  BY WidthAssumption
<1>3. base \in Nat /\ word \in Nat /\ len \in Nat /\ target \in Int
  BY <1>2
<1> QED
  BY <1>1, <1>3 DEF Drawn, DrawnCost

LEMMA PrecompilesDrawn ==
  ASSUME PickPrecompile
  PROVE  Drawn'
<1>1. PICK name \in Linear, accepted \in BOOLEAN, flag \in 0..2, read \in 1..4,
           len \in InputLengths, base_len, exp_len, mod_len \in {0, 1, MAX_SIZE + 1} :
        /\ name # "Modexp" => base_len = 0 /\ exp_len = 0 /\ mod_len = 0
        /\ name # "Blake2F" => flag = 0
        /\ name \notin {"Bn128Add", "Bn128Mul", "Bn128Pairing"} => read = 1
        /\ input' = [about |-> "precompile", name |-> name,
                     input |-> [ len |-> len, accepted |-> accepted, flag |-> flag, read |-> read,
                                 base_len |-> base_len, exp_len |-> exp_len, mod_len |-> mod_len ]]
  BY Zenon DEF PickPrecompile
<1>2. /\ MAX_SIZE \in Nat /\ len \in Nat /\ flag \in Nat /\ read \in Nat
      /\ base_len \in Nat /\ exp_len \in Nat /\ mod_len \in Nat
  BY WidthAssumption DEF InputLengths
<1> QED
  BY <1>1, <1>2 DEF Drawn, DrawnPrecompile, Declared

LEMMA CallsDrawn ==
  ASSUME PickCall
  PROVE  Drawn'
<1>1. PICK weight \in 0 .. 3, actual \in 0 .. 3, target \in -1 .. 3, b \in [1 .. 4 -> BOOLEAN] :
        input' = [about |-> "call", target |-> target,
                  call |-> [ weight |-> weight, actual_weight |-> actual, decodes |-> b[1],
                             pays_fee |-> b[2], normal |-> b[3], succeeds |-> b[4] ]]
  BY DEF PickCall
<1>2. b[1] \in BOOLEAN /\ b[2] \in BOOLEAN /\ b[3] \in BOOLEAN /\ b[4] \in BOOLEAN
  OBVIOUS
<1>3. weight \in Nat /\ actual \in Nat /\ target \in Int
  OBVIOUS
<1> DEFINE call == [ weight |-> weight, actual_weight |-> actual, decodes |-> b[1],
                     pays_fee |-> b[2], normal |-> b[3], succeeds |-> b[4] ]
<1>4. call \in Calls
  BY <1>1, <1>2, <1>3 DEF Calls
<1> QED
  BY <1>1, <1>3, <1>4 DEF Drawn, DrawnCall

LEMMA StorageDrawn ==
  ASSUME PickStorage
  PROVE  Drawn'
<1> DEFINE content(keys, schema) ==
             [k \in keys \cup {Eth("Schema")} |->
                CASE k = Eth("Schema") -> schema
                  [] k = Slot(1) -> "slot one"
                  [] OTHER -> k.item]
<1>1. PICK keys \in SUBSET StorageKeys, schema \in {"V1", "Undefined"}, n \in Indices :
        input' = [about |-> "storage", index |-> n, storage |-> content(keys, schema)]
  BY DEF PickStorage
<1>2. SchemaKey \in DOMAIN content(keys, schema)
  BY DEF SchemaKey, Eth
<1>3. n \in Nat
  BY NumbersFacts, StorageAssumption DEF Indices
<1> DEFINE s == content(keys, schema)
<1>4. input' = [about |-> "storage", index |-> n, storage |-> s] /\ SchemaKey \in DOMAIN s
  BY <1>1, <1>2
<1> HIDE DEF content, s
<1> QED
  BY <1>3, <1>4 DEF Drawn, DrawnStorage

LEMMA ReadyDrawn ==
  ASSUME PickReady
  PROVE  Drawn'
<1>1. PICK ready \in UNION {[1 .. k -> [from : {"x", "y"}, nonce : 0 .. 2]] : k \in 0 .. 4},
           x \in 0 .. 2, y \in 0 .. 2 :
        /\ IsReadyOrder(ready, [a \in {"x", "y"} |-> IF a = "x" THEN x ELSE y])
        /\ input' = [about |-> "ready", ready |-> ready,
                     nonces |-> [a \in {"x", "y"} |-> IF a = "x" THEN x ELSE y]]
  BY DEF PickReady
<1> DEFINE nonces == [a \in {"x", "y"} |-> IF a = "x" THEN x ELSE y]
           S == [from : {"x", "y"}, nonce : 0 .. 2]
<1>2. nonces \in [{"x", "y"} -> Nat]
  OBVIOUS
<1>3. S \subseteq Ready
  BY DEF Ready
<1>4. ready \in UpTo(4, S)
  BY <1>1 DEF UpTo
<1> HIDE DEF S
<1>5. ready \in Seq(Ready)
  BY <1>3, <1>4, BoundedSequence
<1> QED
  BY <1>1, <1>2, <1>5 DEF Drawn, DrawnReady

(* The inductive invariant: an input of any kind is well formed.           *)
THEOREM InputsDrawn == Spec => []Drawn
<1>1. Init => Drawn
  <2>1. <<>> \in Seq(Items)
    OBVIOUS
  <2> QED
    BY <2>1 DEF Init, Start, Drawn, DrawnDigest
<1>2. Drawn /\ [Next]_input => Drawn'
  <2> SUFFICES ASSUME Drawn, [Next]_input PROVE Drawn'
    OBVIOUS
  <2>1. CASE DepositLog
    BY <2>1, DigestsDrawn
  <2>2. CASE PickTopics
    BY <2>2, TopicsDrawn
  <2>3. CASE PickReceipts
    BY <2>3, ReceiptsDrawn
  <2>4. CASE PickRange
    BY <2>4, RangesDrawn
  <2>5. CASE PickCost
    BY <2>5, CostsDrawn
  <2>6. CASE PickPrecompile
    BY <2>6, PrecompilesDrawn
  <2>7. CASE PickCall
    BY <2>7, CallsDrawn
  <2>8. CASE PickStorage
    BY <2>8, StorageDrawn
  <2>9. CASE PickReady
    BY <2>9, ReadyDrawn
  <2>10. CASE UNCHANGED input
    BY <2>10 DEF Drawn, DrawnDigest, DrawnTopics, DrawnReceipts, DrawnRange, DrawnCost,
       DrawnPrecompile, DrawnCall, DrawnStorage, DrawnReady
  <2> QED
    BY <2>1, <2>2, <2>3, <2>4, <2>5, <2>6, <2>7, <2>8, <2>9, <2>10 DEF Next
<1> QED
  BY <1>1, <1>2, PTL DEF Spec

-----------------------------------------------------------------------------
(* The properties of the inputs drawn.                                     *)

(* ensure_log, find_log, find_pre_log and find_post_log see the same logs  *)
(* in every digest that grows by deposit_log: what the importer accepts is *)
(* what the sync worker and the runtime can use.                           *)
THEOREM DigestSearchesAgreeAlways == Spec => []DigestSearchesAgree
<1>1. Drawn => DigestSearchesAgree
  <2> SUFFICES ASSUME Drawn, Is("digest")
               PROVE  DigestSearchesAgree
    BY DEF DigestSearchesAgree, EnsureAgreesWithFind, FindLogIsUnique, SearchesConsistent
  <2>1. PICK d \in Seq(Items) : input = [about |-> "digest", digest |-> d]
    BY DrawnKinds DEF DrawnDigest
  <2>2. input.digest = d
    BY <2>1
  <2>3. /\ ensure_log(d) = find_log(d).res
        /\ find_log(d) = NotFound <=> LogsOf(d) = {}
        /\ find_log(d) = MultipleLogs <=> Cardinality(LogsOf(d)) > 1
        /\ \A i \in LogsOf(d) : LogsOf(d) = {i} => find_log(d) = Found(d[i])
        /\ find_log(d).res = "Ok" =>
             {find_pre_log(d), find_post_log(d)} = {NotFound, find_log(d)}
    BY SearchesAgree
  <2> QED
    BY <2>2, <2>3 DEF DigestSearchesAgree, EnsureAgreesWithFind, FindLogIsUnique, SearchesConsistent
<1> QED
  BY <1>1, InputsDrawn, PTL

(* filter_topics lets through what the topics of the filter describe, but  *)
(* for empty lists of alternatives and for null among them, and            *)
(* eth_getLogs walks the heights its range means, but for earliest and for *)
(* a block that comes between the two reads of the best number.            *)
THEOREM LogFilterExactAlways == Spec => []LogFilterExact
<1>1. Drawn => TopicsMatch
  <2> SUFFICES ASSUME Drawn, Is("topics")
               PROVE  TopicsMatch
    BY DEF TopicsMatch
  <2>1. PICK j \in JsonOf(Topics), t \in Seq(Topics) :
          input = [about |-> "topics", json |-> j, topics |-> t]
    BY DrawnKinds DEF DrawnTopics
  <2>2. input.json = j /\ input.topics = t
    BY <2>1
  <2>3. LET accepts == filter_topics(t, flatten(ParseTopic(j))) IN
        /\ PlainAlternatives(j) => (accepts <=> Matches(t, j))
        /\ accepts /\ ~NothingAllowed(j) => Matches(t, j)
    BY NullAssumption, TopicsFiltered
  <2> QED
    BY <2>2, <2>3 DEF TopicsMatch
<1>2. Drawn => LogsRangeExact
  <2> SUFFICES ASSUME Drawn, Is("range")
               PROVE  LogsRangeExact
    BY DEF LogsRangeExact
  <2>1. PICK from \in HeightValues, to \in HeightValues, best \in Nat, again \in Nat :
          /\ best <= again
          /\ input = [about |-> "range", filter |-> Filter(from, to, Null, Null, Null),
                      best |-> best, again |-> again]
    BY DrawnKinds DEF DrawnRange
  <2> DEFINE f == input.filter
  <2>2. /\ f.from_block \in HeightValues /\ f.to_block \in HeightValues
        /\ input.best \in Nat /\ input.again \in Nat /\ input.best <= input.again
    BY <2>1 DEF Filter
  <2> HIDE DEF f
  <2>3. Tag("earliest") \notin {f.from_block, f.to_block} =>
          /\ LogsRange(f, input.best, input.again) \subseteq MeantRange(f, input.best)
          /\ IsNum(f.from_block) \/ input.again = input.best =>
               LogsRange(f, input.best, input.again) = MeantRange(f, input.best)
          /\ IsNum(f.from_block) =>
               MeantRange(f, input.best) = {n \in 0 .. input.best : filter_block_range(f, n)}
    BY <2>2, LogsRangeIsExact
  <2> QED
    BY <2>3 DEF LogsRangeExact, f
<1>3. Drawn => LogFilterExact
  BY <1>1, <1>2 DEF LogFilterExact
<1> QED
  BY <1>3, InputsDrawn, PTL

(* eth_getLogs and transaction_receipt show the same logs of a block with  *)
(* the same indices, the subscription too but for the transaction_index    *)
(* (of which nothing is claimed: see TransactionIndexAgrees), and          *)
(* cumulative_gas_used is the gas up to the transaction, without a panic,  *)
(* while that gas fits 32 bits.                                            *)
THEOREM ReceiptViewsAgreeAlways == Spec => []ReceiptViewsAgree
<1>1. Drawn => ReceiptViewsAgree
  <2> SUFFICES ASSUME Drawn, Is("receipts")
               PROVE  ReceiptViewsAgree
    BY DEF ReceiptViewsAgree, LogIndicesAgree, CumulativeGasExact
  <2>1. PICK r \in Seq(Receipts), f \in LogFilters :
          input = [about |-> "receipts", receipts |-> r, filter |-> f]
    BY DrawnKinds DEF DrawnReceipts
  <2>2. input.receipts = r /\ input.filter = f
    BY <2>1
  <2>3. f.from_block = Null /\ f.to_block = Null /\ f.block_hash = Null
    BY DEF LogFilters, AnyLog, Filter
  <2>4. HasLogs(r, Logs) /\ Gas(r) \in [DOMAIN r -> Nat]
    <3>1. \A i \in DOMAIN r : r[i] \in Receipts
      OBVIOUS
    <3>2. \A i \in DOMAIN r : r[i].logs \in Seq(Logs) /\ r[i].used_gas \in Nat
      BY <3>1 DEF Receipts
    <3> QED
      BY <3>2 DEF HasLogs, Gas
  <2> DEFINE block == [number |-> 1, hash |-> "e1"]
  <2>5. LogIndicesAgree
    <3> HIDE DEF block
    <3>1. LET all == logs_build(AnyLog, r)
              some == logs_build(f, r)
              pushed == pubsub_logs(f, block, r) IN
          /\ \A i \in DOMAIN r :
               Sublist(all, {j \in DOMAIN all : all[j].transaction_index = i - 1}) =
                 ReceiptLogs(r, i - 1)
          /\ \A i \in DOMAIN some : \E j \in DOMAIN all : some[i] = all[j]
          /\ Len(pushed) = Len(some)
          /\ \A i \in DOMAIN some :
               [pushed[i] EXCEPT !.transaction_index = some[i].transaction_index] = some[i]
      BY <2>3, <2>4, IndicesAgree
    <3> QED
      BY <2>2, <3>1 DEF LogIndicesAgree, block
  <2>6. CumulativeGasExact
    <3> SUFFICES ASSUME NEW i \in DOMAIN r, ExactGas(SubSeq(r, 1, i)) < U32
                 PROVE  cumulative_gas_used(r, i - 1) = ExactGas(SubSeq(r, 1, i))
      BY <2>2 DEF CumulativeGasExact
    <3> QED
      BY <2>4, CumulativeGasIsExact
  <2> QED
    BY <2>5, <2>6 DEF ReceiptViewsAgree
<1> QED
  BY <1>1, InputsDrawn, PTL

(* For every input: the slices that the recoveries, Modexp, the pairing    *)
(* and the signature check take of it stay inside, so that only Bn128Add,  *)
(* Bn128Mul and Blake2F panic, none of them in the runtime;                *)
(* ensure_linear_cost charges the formula and refuses what does not fit;   *)
(* and a dispatched call exceeds its gas only by reporting more weight     *)
(* than it declared.                                                       *)
THEOREM PrecompilesSafeAlways == Spec => []PrecompilesSafe
<1>1. Drawn => LinearCostExact
  <2> SUFFICES ASSUME Drawn, Is("cost")
               PROVE  LinearCostExact
    BY DEF LinearCostExact
  <2>1. PICK base \in Nat, word \in Nat, len \in Nat, target \in Int :
          input = [about |-> "cost", base |-> base, word |-> word, len |-> len, target |-> target]
    BY DrawnKinds DEF DrawnCost
  <2>2. input.base = base /\ input.word = word /\ input.len = len /\ input.target = target
    BY <2>1
  <2>3. LET cost == ensure_linear_cost(target, len, base, word)
            exact == base + word * ((len + 31) \div 32) IN
        /\ len + 31 < U64 =>
             cost = IF exact >= U64 \/ (target >= 0 /\ exact > target) THEN -1 ELSE exact
        /\ target >= 0 => cost <= target
    BY LinearCost
  <2> QED
    BY <2>2, <2>3 DEF LinearCostExact
<1>2. Drawn => PrecompilesTotal
  <2> SUFFICES ASSUME Drawn, Is("precompile")
               PROVE  PrecompilesTotal
    BY DEF PrecompilesTotal
  <2>1. PICK name \in Linear, i \in Declared :
          input = [about |-> "precompile", name |-> name, input |-> i]
    BY DrawnKinds DEF DrawnPrecompile
  <2>2. input.name = name /\ input.input = i /\ Lengths(i)
    BY <2>1 DEF Declared, Lengths
  <2> DEFINE r == Execute(name, i, -1)
             missing == {"Bn128Add", "Bn128Mul", "Blake2F"}
  <2>3. r.res = "panic" => name \in missing
    BY <2>2, RunPanics, ExecuteOutcome
  <2>4. \A k \in DOMAIN RuntimePrecompiles : AtAddress(RuntimePrecompiles, k) \notin missing
    <3>1. DOMAIN RuntimePrecompiles = 1 .. 7
      BY DEF RuntimePrecompiles
    <3>2. \A k \in 1 .. 7 : k \in {1, 2, 3, 4, 5, 6, 7}
      OBVIOUS
    <3>3. \A k \in 1 .. 7 : RuntimePrecompiles[k] \notin missing
      BY <3>2 DEF RuntimePrecompiles
    <3> QED
      BY <3>1, <3>3 DEF AtAddress
  <2>5. name = "Modexp" /\ r.res = "Ok" =>
          r.output = i.mod_len /\ i.len >= 96 + i.base_len + i.exp_len + r.output
    <3> SUFFICES ASSUME name = "Modexp", r.res = "Ok"
                 PROVE  r.output = i.mod_len /\ i.len >= 96 + i.base_len + i.exp_len + r.output
      OBVIOUS
    <3>1. Run(name, i) = Modexp(i)
      BY DEF Run
    <3>2. Modexp(i).res = "Ok" /\ r.output = Modexp(i).output
      BY <3>1, ExecuteOutcome
    <3> QED
      BY <2>2, <3>2, ModexpSlices
  <2> HIDE DEF r
  <2> QED
    BY <2>2, <2>3, <2>4, <2>5 DEF PrecompilesTotal, r
<1>3. Drawn => DispatchPaid
  <2> SUFFICES ASSUME Drawn, Is("call")
               PROVE  DispatchPaid
    BY DEF DispatchPaid
  <2>1. PICK call \in Calls, target \in Int :
          input = [about |-> "call", target |-> target, call |-> call]
    BY DrawnKinds DEF DrawnCall
  <2>2. input.call = call /\ input.target = target
    BY <2>1
  <2>3. call.weight \in Nat /\ call.actual_weight \in Nat
    BY DEF Calls
  <2>4. Dispatch(call, target).res = "Ok" /\ target >= 0 /\ Dispatch(call, target).cost > target =>
          call.actual_weight > call.weight
    BY <2>3, DispatchCost
  <2> QED
    BY <2>2, <2>4 DEF DispatchPaid
<1>4. Drawn => PrecompilesSafe
  BY <1>1, <1>2, <1>3 DEF PrecompilesSafe
<1> QED
  BY <1>4, InputsDrawn, PTL

(* The override of the known schema answers what the runtime answers, with *)
(* the bytes of a slot's index in the other order.                         *)
THEOREM OverrideAgreesAlways == Spec => []OverrideAgrees
<1>1. Drawn => OverrideAgrees
  <2> SUFFICES ASSUME Drawn, Is("storage")
               PROVE  OverrideAgrees
    BY DEF OverrideAgrees
  <2>1. PICK s : \E n \in Nat : /\ SchemaKey \in DOMAIN s
                                /\ input = [about |-> "storage", index |-> n, storage |-> s]
    BY DrawnKinds DEF DrawnStorage
  <2>2. PICK n \in Nat : /\ SchemaKey \in DOMAIN s
                         /\ input = [about |-> "storage", index |-> n, storage |-> s]
    BY <2>1
  <2>3. input.storage = s /\ input.index = n
    BY <2>2
  <2>4. Eth("Schema") = SchemaKey
    BY DEF Eth, SchemaKey
  <2>5. LET v1 == WithSchema(s, "V1")
            other == WithSchema(s, "Undefined") IN
        /\ BlockReads(v1) = BlockReads(other)
        /\ code_at(v1, "c1") = code_at(other, "c1")
        /\ storage_at(v1, "c1", n) = storage_at(other, "c1", Mirrored(n))
    BY <2>2, OverrideIsRuntime
  <2> QED
    BY <2>3, <2>4, <2>5 DEF OverrideAgrees, WithSchema
<1> QED
  BY <1>1, InputsDrawn, PTL

(* One walk over the ready transactions finds the pending nonce of every   *)
(* account, in every order the pool can yield them.                        *)
THEOREM TransactionCountExactAlways == Spec => []TransactionCountExact
<1>1. Drawn => TransactionCountExact
  <2> SUFFICES ASSUME Drawn, Is("ready")
               PROVE  TransactionCountExact
    BY DEF TransactionCountExact
  <2>1. PICK ready \in Seq(Ready), nonces \in [{"x", "y"} -> Nat] :
          /\ IsReadyOrder(ready, nonces)
          /\ input = [about |-> "ready", ready |-> ready, nonces |-> nonces]
    BY DrawnKinds DEF DrawnReady
  <2>2. input.ready = ready /\ input.nonces = nonces
    BY <2>1
  <2>3. \A i \in DOMAIN ready : ready[i].nonce \in Nat
    <3>1. \A i \in DOMAIN ready : ready[i] \in Ready
      OBVIOUS
    <3> QED
      BY <3>1 DEF Ready
  <2>4. ASSUME NEW a \in {"x", "y"}
        PROVE  LET c == transaction_count(ready, a, nonces[a]) IN
               /\ c \in Nat /\ c >= nonces[a]
               /\ c \notin Nonces(ready, a)
               /\ nonces[a] .. c - 1 \subseteq Nonces(ready, a)
    <3>1. nonces[a] \in Nat
      OBVIOUS
    <3> QED
      BY <2>1, <2>3, <3>1, CountIsExact
  <2> QED
    BY <2>2, <2>4 DEF TransactionCountExact, Nonces
<1> QED
  BY <1>1, InputsDrawn, PTL
=============================================================================
