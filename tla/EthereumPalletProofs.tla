------------------------ MODULE EthereumPalletProofs ------------------------
(***************************************************************************)
(* Proofs about EvmRunner and EthereumPallet, for every set of accounts,   *)
(* transactions, calls and digests and every width and deposit.            *)
(*                                                                         *)
(* First what every execution of the runner leaves behind, for every       *)
(* world, sender, price, limit and outcome of the EVM.  Then the pallet:   *)
(* its type invariant is inductive together with the types of Pending, of  *)
(* the dispatch results and of the parent's state, to which a refused      *)
(* block returns.  On top of it: the ledger (LedgerInv), what validation   *)
(* promises and what senders pay, Pending while a block is built (RanInv), *)
(* and the chain of stored blocks (BuildInv, ChainInv).                    *)
(***************************************************************************)
EXTENDS EthereumPallet, ConsensusLogProofs

-----------------------------------------------------------------------------
(* The sum of all balances.                                                *)

AnyOf(s) == CHOOSE x \in s : TRUE

(* it sums f over every set of addresses *)
SumsOf(f, it) ==
  /\ it \in [SUBSET Addr -> Nat]
  /\ \A s \in SUBSET Addr : it[s] = IF s = {} THEN 0 ELSE f[AnyOf(s)] + it[s \ {AnyOf(s)}]

LEMMA TotalIsASum ==
  ASSUME NEW f \in [Addr -> Nat]
  PROVE  /\ \E it : SumsOf(f, it) /\ Total(f) = it[Addr]
         /\ Total(f) \in Nat
<1> DEFINE V    == Nat
           zero == 0
           G  == [x \in Addr |-> [v \in Nat |-> f[x] + v]]
           ch == [s \in SUBSET Addr |-> AnyOf(s)]
           Def(it) == it = [s \in SUBSET Addr |->
                              IF s = {} THEN 0
                              ELSE f[CHOOSE x \in s : TRUE] + it[s \ {CHOOSE x \in s : TRUE}]]
<1>1. \A s \in SUBSET Addr : s # {} => ch[s] \in s
  BY DEF AnyOf
<1>2. \A x \in Addr : \A v \in V : G[x][v] \in V
  OBVIOUS
<1>3. Foldable(Addr, V, zero, G, ch)
  BY <1>1, <1>2, RunnerAssumption DEF Foldable
<1>4. PICK it : FoldOf(Addr, V, zero, G, ch, it)
  <2> HIDE DEF V, zero, G, ch
  <2> QED
    BY <1>3, FoldDefined
<1>5. SumsOf(f, it)
  <2>1. ASSUME NEW s \in SUBSET Addr, s # {}
        PROVE  it[s] = f[AnyOf(s)] + it[s \ {AnyOf(s)}]
    <3>1. AnyOf(s) \in Addr /\ it[s \ {AnyOf(s)}] \in Nat /\ ch[s] = AnyOf(s)
      BY <2>1, <1>1, <1>4 DEF FoldOf
    <3> QED
      BY <2>1, <1>4, <3>1 DEF FoldOf
  <2> QED
    BY <2>1, <1>4 DEF SumsOf, FoldOf
<1>6. Def(it)
  <2>1. \A s \in SUBSET Addr :
          it[s] = IF s = {} THEN 0
                  ELSE f[CHOOSE x \in s : TRUE] + it[s \ {CHOOSE x \in s : TRUE}]
    BY <1>5 DEF SumsOf, AnyOf
  <2>2. it = [s \in SUBSET Addr |-> it[s]]
    BY <1>5 DEF SumsOf
  <2> QED
    BY <2>1, <2>2
<1> DEFINE jt == CHOOSE i : Def(i)
<1>7. Def(jt)
  <2> HIDE DEF Def
  <2> QED
    BY <1>6
<1> HIDE DEF jt
<1>8. SumsOf(f, jt)
  <2>1. jt = [s \in SUBSET Addr |-> jt[s]]
    BY <1>7
  <2>2. \A s \in SUBSET Addr : jt[s] = IF s = {} THEN 0 ELSE f[AnyOf(s)] + jt[s \ {AnyOf(s)}]
    BY <1>7 DEF AnyOf
  <2>3. ASSUME NEW s \in SUBSET Addr
        PROVE  /\ s = {} => jt[s] = zero
               /\ s # {} /\ jt[s \ {ch[s]}] \in V => jt[s] = G[ch[s]][jt[s \ {ch[s]}]]
    <3>1. CASE s # {} /\ jt[s \ {ch[s]}] \in V
      <4>1. ch[s] = AnyOf(s) /\ ch[s] \in Addr
        BY <3>1, <1>1
      <4> QED
        BY <3>1, <4>1, <2>2
    <3> QED
      BY <3>1, <2>2
  <2>4. Unfolds(Addr, V, zero, G, ch, jt)
    BY <2>3 DEF Unfolds
  <2>5. \A s \in SUBSET Addr : jt[s] \in V
    <3> HIDE DEF V, zero, G, ch, Def
    <3> QED
      BY <1>3, <2>4, FoldTyped
  <2> QED
    BY <2>1, <2>2, <2>5 DEF SumsOf
<1>9. Total(f) = jt[Addr]
  BY DEF Total, FoldFunction, FoldFunctionOnSet, MapThenFoldSet, jt
<1>10. jt[Addr] \in Nat
  BY <1>8 DEF SumsOf
<1> QED
  BY <1>8, <1>9, <1>10

(* The sum of all balances is a natural, no balance exceeds it, and        *)
(* writing one balance changes it by what the balance changes by.          *)
LEMMA TotalChanges ==
  ASSUME NEW f \in [Addr -> Nat], NEW a \in Addr, NEW x \in Nat
  PROVE  /\ Total(f) \in Nat /\ f[a] <= Total(f)
         /\ Total([f EXCEPT ![a] = x]) \in Nat
         /\ Total([f EXCEPT ![a] = x]) + f[a] = Total(f) + x
<1> DEFINE g == [f EXCEPT ![a] = x]
<1>1. g \in [Addr -> Nat] /\ g[a] = x /\ \A b \in Addr \ {a} : g[b] = f[b]
  OBVIOUS
<1> HIDE DEF g
<1>2. PICK it : SumsOf(f, it) /\ Total(f) = it[Addr]
  BY TotalIsASum
<1>3. PICK jt : SumsOf(g, jt) /\ Total(g) = jt[Addr]
  BY <1>1, TotalIsASum
<1>4. \A s \in SUBSET Addr : it[s] \in Nat /\ jt[s] \in Nat
  BY <1>2, <1>3 DEF SumsOf
<1> DEFINE Same(s) == IF a \in s THEN f[a] <= it[s] /\ jt[s] + f[a] = it[s] + x
                                 ELSE jt[s] = it[s]
           T == {s \in SUBSET Addr : ~Same(s)}
<1>5. T = {}
  <2> SUFFICES ASSUME T # {} PROVE FALSE
    OBVIOUS
  <2>1. T \in SUBSET (SUBSET Addr) /\ IsFiniteSet(Addr)
    BY RunnerAssumption
  <2>2. PICK s \in T : \A y \in s : s \ {y} \notin T
    <3> HIDE DEF T
    <3> QED
      BY <2>1, SmallestSet
  <2>3. s # {}
    BY <1>2, <1>3 DEF SumsOf
  <2> DEFINE y == AnyOf(s)
             r == s \ {y}
  <2>4. y \in s /\ y \in Addr /\ r \in SUBSET Addr
    BY <2>3 DEF AnyOf
  <2>5. it[s] = f[y] + it[r] /\ jt[s] = g[y] + jt[r]
    BY <1>2, <1>3, <2>3 DEF SumsOf
  <2>6. Same(r)
    BY <2>2, <2>4
  <2>7. it[r] \in Nat /\ jt[r] \in Nat /\ f[y] \in Nat /\ g[y] \in Nat /\ f[a] \in Nat
    BY <1>1, <1>4, <2>4
  <2>8. a \in r <=> a \in s /\ a # y
    OBVIOUS
  <2>9. ~Same(s)
    OBVIOUS
  <2> HIDE DEF y, r, T
  <2>10. CASE a = y
    BY <1>1, <2>4, <2>5, <2>6, <2>7, <2>8, <2>9, <2>10
  <2>11. CASE a # y
    <3>1. g[y] = f[y]
      BY <1>1, <2>4, <2>11
    <3> QED
      BY <3>1, <2>5, <2>6, <2>7, <2>8, <2>9, <2>11
  <2> QED
    BY <2>10, <2>11
<1>6. Same(Addr)
  BY <1>5
<1>7. f[a] <= it[Addr] /\ jt[Addr] + f[a] = it[Addr] + x
  BY <1>6
<1> QED
  BY <1>2, <1>3, <1>4, <1>7 DEF g

(* The errors of the EVM pallet, of the currency and of the Ethereum       *)
(* pallet's do_transact.                                                   *)
DispatchResults == { "Ok", "GasPriceTooLow", "FeeOverflow", "PaymentOverflow", "BalanceLow",
                     "InvalidNonce", "InsufficientBalance", "ExistentialDeposit",
                     "PreLogExists" }

Outcome == [reason : Reasons, entered : BOOLEAN, used : Nat, send : Sends]

(* The conversions of the runner yield naturals.                           *)
LEMMA Conversions ==
  ASSUME NEW x \in Nat, NEW y \in Nat
  PROVE  /\ low_u64(x) \in Nat /\ low_u128(x) \in Nat
         /\ saturating_sub(x, y) \in Nat /\ saturating_sub(x, y) <= x
         /\ x * y \in Nat
  BY RunnerAssumption, Z3 DEF low_u64, low_u128, saturating_sub

(* Burning and writing a balance keep the world a world.                   *)
LEMMA SetFreeType ==
  ASSUME NEW m \in Worlds, NEW a \in Addr, NEW f \in Nat
  PROVE  Burn(m, f) \in Worlds /\ SetFree(m, a, f) \in Worlds
<1>1. \A v \in Worlds : Burn(v, f) \in Worlds
  BY Conversions DEF Worlds, Burn
<1>2. [m EXCEPT !.free[a] = f] \in Worlds
  BY DEF Worlds
<1>3. [m EXCEPT !.free[a] = 0, !.nonce[a] = 0] \in Worlds
  BY DEF Worlds
<1> QED
  BY <1>1, <1>2, <1>3 DEF SetFree

(* The currency operations yield a world and, on an error, the same one.   *)
LEMMA CurrencyType ==
  ASSUME NEW m \in Worlds, NEW a \in Addr, NEW b \in Addr, NEW v \in Nat
  PROVE  /\ Withdraw(m, a, v).w \in Worlds
         /\ DepositIntoExisting(m, a, v).w \in Worlds
         /\ Transfer(m, a, b, v).w \in Worlds
         /\ IncNonce(m, a) \in Worlds
         /\ DepositIntoExisting(m, a, v).res # "Ok" => DepositIntoExisting(m, a, v).w = m
<1>1. m.free[a] \in Nat /\ m.free[b] \in Nat
  BY DEF Worlds
<1>2. Withdraw(m, a, v).w \in Worlds
  <2>1. CASE v = 0 \/ m.free[a] < v
    BY <2>1 DEF Withdraw, Ok, Err
  <2>2. CASE ~(v = 0 \/ m.free[a] < v)
    <3>1. m.free[a] - v \in Nat
      BY <2>2, <1>1
    <3> QED
      BY <2>2, <3>1, SetFreeType DEF Withdraw, Ok, Err
  <2> QED
    BY <2>1, <2>2
<1>3. [m EXCEPT !.free[a] = @ + v] \in Worlds /\ [m EXCEPT !.free[b] = @ + v] \in Worlds
  BY <1>1 DEF Worlds
<1>4. DepositIntoExisting(m, a, v).w \in Worlds
  BY <1>3 DEF DepositIntoExisting, Ok, Err
<1>5. Transfer(m, a, b, v).w \in Worlds
  <2>1. CASE v = 0 \/ a = b \/ m.free[a] < v \/ m.free[b] + v < ED
    BY <2>1 DEF Transfer, Ok, Err
  <2>2. CASE ~(v = 0 \/ a = b \/ m.free[a] < v \/ m.free[b] + v < ED)
    <3>1. m.free[a] - v \in Nat
      BY <2>2, <1>1
    <3>2. SetFree([m EXCEPT !.free[b] = @ + v], a, m.free[a] - v) \in Worlds
      BY <3>1, <1>3, SetFreeType
    <3> QED
      BY <2>2, <3>2 DEF Transfer, Ok, Err
  <2> QED
    BY <2>1, <2>2
<1>6. IncNonce(m, a) \in Worlds
  BY DEF IncNonce, Worlds
<1>7. DepositIntoExisting(m, a, v).res # "Ok" => DepositIntoExisting(m, a, v).w = m
  BY DEF DepositIntoExisting, Ok, Err
<1> QED
  BY <1>2, <1>4, <1>5, <1>6, <1>7

(* correct_and_deposit_fee cannot fail: the refund is never more than the  *)
(* fee that was paid, so the imbalances always offset.                     *)
LEMMA SettlingSucceeds ==
  ASSUME NEW m \in Worlds, NEW a \in Addr, NEW corrected \in Nat, NEW paid \in Nat
  PROVE  /\ correct_and_deposit_fee(m, a, corrected, paid).res = "Ok"
         /\ correct_and_deposit_fee(m, a, corrected, paid).w \in Worlds
<1> DEFINE refund   == saturating_sub(paid, low_u128(corrected))
           r        == DepositIntoExisting(m, a, refund)
           refunded == IF r.res = "Ok" THEN refund ELSE 0
<1>1. refund \in Nat /\ refund <= paid
  BY Conversions
<1>2. r.w \in Worlds
  BY <1>1, CurrencyType
<1>3. refunded \in Nat /\ refunded <= paid /\ paid - refunded \in Nat
  BY <1>1
<1>4. correct_and_deposit_fee(m, a, corrected, paid) = Ok(Burn(r.w, paid - refunded))
  BY <1>3 DEF correct_and_deposit_fee
<1>5. Burn(r.w, paid - refunded) \in Worlds
  BY <1>2, <1>3, SetFreeType
<1> QED
  BY <1>4, <1>5 DEF Ok

(* An EVM run leaves a world.                                              *)
LEMMA RunType ==
  ASSUME NEW m \in Worlds, NEW a \in Addr, NEW b \in Addr, NEW v \in Nat, NEW o \in Outcome
  PROVE  RunEvm(m, a, b, v, o).w \in Worlds /\ RunEvm(m, a, b, v, o).reason \in Reasons
<1> DEFINE entered == IF o.entered THEN IncNonce(m, a) ELSE m
           moved   == Transfer(entered, a, b, low_u128(v))
           sent    == Transfer(moved.w, b, o.send.to, low_u128(o.send.value))
<1>1. o.send.to \in Addr /\ o.send.value \in Nat /\ o.reason \in Reasons
  BY RunnerAssumption DEF Outcome
<1>2. entered \in Worlds
  BY CurrencyType
<1>3. moved.w \in Worlds
  BY <1>2, Conversions, CurrencyType
<1> HIDE DEF entered, moved
<1>4. sent.w \in Worlds
  <2>1. low_u128(o.send.value) \in Nat
    BY <1>1, Conversions
  <2> QED
    BY <1>1, <1>3, <2>1, CurrencyType
<1> HIDE DEF sent
<1>5. RunEvm(m, a, b, v, o) = IF o.reason # "Succeed"  THEN [reason |-> o.reason,  w |-> entered]
                              ELSE IF moved.res # "Ok" THEN [reason |-> "Fail",    w |-> entered]
                              ELSE                          [reason |-> "Succeed", w |-> sent.w]
  BY DEF RunEvm, transfer, entered, moved, sent
<1> QED
  BY <1>1, <1>2, <1>4, <1>5 DEF Reasons

(* Runner::execute is all or nothing without being transactional: it       *)
(* yields a world, and when it returns an error that world is the one it   *)
(* was given, because every error after the fee withdrawal is impossible.  *)
THEOREM ExecuteAllOrNothing ==
  ASSUME NEW m \in Worlds, NEW source \in Addr, NEW target \in Addr, NEW value \in Nat,
         NEW gas_limit \in Nat, NEW gas_price \in Nat, NEW nonce, NEW o \in Outcome
  PROVE  LET r == execute(m, source, target, value, gas_limit, gas_price, nonce, o)
         IN  /\ r.w \in Worlds
             /\ r.res # "Ok" => r.w = m
             /\ r.reason \in Reasons /\ r.used \in Nat /\ r.fee \in Nat /\ r.res \in DispatchResults
<1> DEFINE check       == Check(m, source, value, gas_limit, gas_price)
           check_nonce == CheckNonce(m, source, nonce)
           total_fee   == gas_price * gas_limit
           charged     == withdraw_fee(m, source, total_fee)
           r           == execute(m, source, target, value, gas_limit, gas_price, nonce, o)
           settled     == RunAndSettle(charged.w, source, target, value, gas_price,
                                       total_fee, o)
<1>1. total_fee \in Nat /\ low_u128(total_fee) \in Nat
  BY Conversions
<1> HIDE DEF total_fee
<1>2. charged.w \in Worlds
  BY <1>1, CurrencyType DEF withdraw_fee, Err
<1>3. /\ settled.res = "Ok" /\ settled.w \in Worlds /\ settled.reason \in Reasons
      /\ settled.used \in Nat /\ settled.fee \in Nat
  <2>1. o.used \in Nat
    BY DEF Outcome
  <2>2. o.used * gas_price \in Nat
    BY <2>1, Conversions
  <2> DEFINE run  == RunEvm(charged.w, source, target, value, o)
             fee  == o.used * gas_price
             paid == low_u128(total_fee)
             done == correct_and_deposit_fee(run.w, source, fee, paid)
  <2>3. run.w \in Worlds
    BY <1>2, RunType
  <2>4. run.reason \in Reasons
    BY <1>2, RunType
  <2>5. /\ settled.res = done.res /\ settled.w = done.w /\ settled.reason = run.reason
        /\ settled.used = o.used /\ settled.fee = fee
    <3> HIDE DEF charged
    <3> QED
      BY DEF RunAndSettle
  <2>6. done.res = "Ok" /\ done.w \in Worlds
    <3>1. fee \in Nat /\ paid \in Nat
      BY <1>1, <2>2
    <3> HIDE DEF run, fee, paid
    <3> QED
      BY <2>3, <3>1, SettlingSucceeds
  <2> HIDE DEF run, done, settled
  <2> QED
    BY <2>1, <2>2, <2>4, <2>5, <2>6
<1>4a. check \in DispatchResults /\ check_nonce \in DispatchResults /\ charged.res \in DispatchResults
  <2>1. check \in DispatchResults
    BY DEF Check, DispatchResults
  <2>2. check_nonce \in DispatchResults
    BY DEF CheckNonce, DispatchResults
  <2>3. charged.res = "Ok" \/ charged.res = "BalanceLow"
    BY DEF withdraw_fee, Err
  <2> QED
    BY <2>1, <2>2, <2>3 DEF DispatchResults
<1>4. \A e : /\ Refused(e, m).res = e
             /\ Refused(e, m).w = m /\ Refused(e, m).reason \in Reasons
             /\ Refused(e, m).used \in Nat /\ Refused(e, m).fee \in Nat
  BY DEF Refused, Reasons
<1> HIDE DEF check, check_nonce, charged, settled
<1>5. r = IF check # "Ok"            THEN Refused(check, m)
          ELSE IF check_nonce # "Ok" THEN Refused(check_nonce, m)
          ELSE IF charged.res # "Ok" THEN Refused(charged.res, m)
          ELSE settled
  BY DEF execute, check, check_nonce, charged, settled, total_fee
<1> HIDE DEF r
<1>6. /\ r.w \in Worlds /\ (r.res # "Ok" => r.w = m)
      /\ r.reason \in Reasons /\ r.used \in Nat /\ r.fee \in Nat /\ r.res \in DispatchResults
  BY <1>3, <1>4, <1>5, <1>4a DEF DispatchResults
<1> QED
  BY <1>6 DEF r

-----------------------------------------------------------------------------
(* What the operations do to one balance, one nonce and the issuance.      *)

(* What is left of a balance: below the existential deposit nothing is.    *)
Kept(f) == IF f >= ED THEN f ELSE 0

LEMMA SetFreeWrites ==
  ASSUME NEW m \in Worlds, NEW a \in Addr, NEW f \in Nat
  PROVE  SetFree(m, a, f).free = [m.free EXCEPT ![a] = Kept(f)]
  BY DEF SetFree, Kept, Worlds, Burn

(* Below the deposit the nonce is forgotten and the rest is burned.        *)
LEMMA SetFreeReaps ==
  ASSUME NEW m \in Worlds, NEW a \in Addr, NEW f \in Nat
  PROVE  /\ f >= ED => /\ SetFree(m, a, f).nonce = m.nonce
                       /\ SetFree(m, a, f).issuance = m.issuance
         /\ ~(f >= ED) => /\ SetFree(m, a, f).nonce = [m.nonce EXCEPT ![a] = 0]
                          /\ SetFree(m, a, f).issuance = saturating_sub(m.issuance, f)
  BY DEF SetFree, Worlds, Burn

LEMMA SetFreeIssuance ==
  ASSUME NEW m \in Worlds, NEW a \in Addr, NEW f \in Nat
  PROVE  /\ f >= ED => SetFree(m, a, f).issuance = m.issuance
         /\ ~(f >= ED) => SetFree(m, a, f).issuance = saturating_sub(m.issuance, f)
<1>1. CASE f >= ED
  BY <1>1, SetFreeReaps
<1>2. CASE ~(f >= ED)
  BY <1>2, SetFreeReaps
<1> QED
  BY <1>1, <1>2

(* The imbalances held next to the balances make up the issuance.          *)
Balanced(m, held) == m.issuance = Total(m.free) + held

(* Burning what is held, or a part of it.                                  *)
LEMMA BurnBalance ==
  ASSUME NEW m \in Worlds, NEW h \in Nat, NEW k \in Nat, Balanced(m, h + k)
  PROVE  Balanced(Burn(m, k), h) /\ Burn(m, k).issuance <= m.issuance
<1>1. m.free \in [Addr -> Nat] /\ m.issuance \in Nat
  BY DEF Worlds
<1>2. Burn(m, k).free = m.free /\ Burn(m, k).issuance = saturating_sub(m.issuance, k)
  BY DEF Burn, Worlds
<1>3. Total(m.free) \in Nat
  BY <1>1, TotalIsASum
<1>4. m.issuance = Total(m.free) + (h + k)
  BY DEF Balanced
<1> HIDE DEF Balanced
<1>5. saturating_sub(m.issuance, k) = Total(m.free) + h /\ saturating_sub(m.issuance, k) <= m.issuance
  BY <1>1, <1>3, <1>4 DEF saturating_sub
<1> QED
  BY <1>2, <1>5 DEF Balanced

(* Taking k out of an account leaves k held, whether or not the rest of    *)
(* the account is reaped.                                                  *)
LEMMA SetFreeBalance ==
  ASSUME NEW m \in Worlds, NEW a \in Addr, NEW f \in Nat, NEW k \in Nat,
         f + k = m.free[a], NEW h \in Nat, Balanced(m, h)
  PROVE  Balanced(SetFree(m, a, f), h + k) /\ SetFree(m, a, f).issuance <= m.issuance
<1> DEFINE v == SetFree(m, a, f)
           t == Total(m.free)
           u == Total(v.free)
<1>1. m.free \in [Addr -> Nat] /\ m.issuance \in Nat /\ m.free[a] \in Nat
  BY DEF Worlds
<1>2. Kept(f) \in Nat
  BY DEF Kept
<1>3. /\ v.free = [m.free EXCEPT ![a] = Kept(f)]
      /\ f >= ED => v.issuance = m.issuance
      /\ ~(f >= ED) => v.issuance = saturating_sub(m.issuance, f)
  <2>1. v.free = [m.free EXCEPT ![a] = Kept(f)]
    BY SetFreeWrites
  <2>2. /\ f >= ED => v.issuance = m.issuance
        /\ ~(f >= ED) => v.issuance = saturating_sub(m.issuance, f)
    BY SetFreeIssuance
  <2> QED
    BY <2>1, <2>2
<1>4. t \in Nat /\ u \in Nat /\ m.free[a] <= t /\ u + m.free[a] = t + Kept(f)
  BY <1>1, <1>2, <1>3, TotalChanges
<1>5. m.issuance = t + h
  BY DEF Balanced
<1> HIDE DEF t, u, v
<1>6. v.issuance = u + (h + k) /\ v.issuance <= m.issuance
  <2>1. CASE f >= ED
    BY <2>1, <1>1, <1>3, <1>4, <1>5 DEF Kept
  <2>2. CASE ~(f >= ED)
    BY <2>2, <1>1, <1>3, <1>4, <1>5 DEF Kept, saturating_sub
  <2> QED
    BY <2>1, <2>2
<1> QED
  BY <1>6 DEF Balanced, u, v

(* A withdrawal leaves its value held, a transfer nothing.                 *)
LEMMA CurrencyBalance ==
  ASSUME NEW m \in Worlds, NEW a \in Addr, NEW b \in Addr, NEW v \in Nat,
         NEW h \in Nat, Balanced(m, h)
  PROVE  /\ Withdraw(m, a, v).res = "Ok" => Balanced(Withdraw(m, a, v).w, h + v)
         /\ Withdraw(m, a, v).w.issuance <= m.issuance
         /\ Balanced(Transfer(m, a, b, v).w, h)
         /\ Transfer(m, a, b, v).w.issuance <= m.issuance
<1>1. /\ m.free \in [Addr -> Nat] /\ m.free[a] \in Nat /\ m.free[b] \in Nat
      /\ m.issuance \in Nat /\ m.issuance <= m.issuance
  BY DEF Worlds
<1>2. /\ Withdraw(m, a, v).res = "Ok" => Balanced(Withdraw(m, a, v).w, h + v)
      /\ Withdraw(m, a, v).w.issuance <= m.issuance
  <2>1. CASE v = 0
    <3>1. h + v = h
      BY <2>1
    <3>2. Withdraw(m, a, v).w = m
      BY <2>1 DEF Withdraw, Ok
    <3> QED
      BY <3>1, <3>2, <1>1
  <2>2. CASE v # 0 /\ m.free[a] < v
    BY <2>2, <1>1 DEF Withdraw, Err
  <2>3. CASE v # 0 /\ ~(m.free[a] < v)
    <3>1. m.free[a] - v \in Nat /\ (m.free[a] - v) + v = m.free[a]
      BY <2>3, <1>1
    <3>2. Withdraw(m, a, v).w = SetFree(m, a, m.free[a] - v)
      BY <2>3 DEF Withdraw, Ok
    <3>3. /\ Balanced(SetFree(m, a, m.free[a] - v), h + v)
          /\ SetFree(m, a, m.free[a] - v).issuance <= m.issuance
      BY <3>1, SetFreeBalance
    <3> QED
      BY <3>2, <3>3
  <2> QED
    BY <2>1, <2>2, <2>3
<1>3. /\ Balanced(Transfer(m, a, b, v).w, h)
      /\ Transfer(m, a, b, v).w.issuance <= m.issuance
  <2>1. CASE v = 0 \/ a = b \/ m.free[a] < v \/ m.free[b] + v < ED
    <3>1. Transfer(m, a, b, v).w = m
      BY <2>1 DEF Transfer, Ok, Err
    <3> QED
      BY <3>1, <1>1
  <2>2. CASE ~(v = 0 \/ a = b \/ m.free[a] < v \/ m.free[b] + v < ED)
    <3> DEFINE f == m.free[a] - v
               u == [m EXCEPT !.free[b] = @ + v]
               x == SetFree(u, a, f)
               t0 == Total(m.free)
               t1 == Total(u.free)
               t2 == Total(x.free)
    <3>1. f \in Nat /\ f + v = m.free[a] /\ m.free[b] + v \in Nat
      BY <2>2, <1>1
    <3>2. u \in Worlds /\ u.free = [m.free EXCEPT ![b] = m.free[b] + v]
      BY <1>1, <3>1 DEF Worlds
    <3>3. u.issuance = m.issuance /\ u.free \in [Addr -> Nat] /\ u.free[a] = m.free[a]
      BY <2>2, <3>2 DEF Worlds
    <3>4. Transfer(m, a, b, v).w = x
      BY <2>2 DEF Transfer, Ok
    <3> HIDE DEF f, u
    <3>5. /\ x.free = [u.free EXCEPT ![a] = Kept(f)]
          /\ f >= ED => x.issuance = u.issuance
          /\ ~(f >= ED) => x.issuance = saturating_sub(u.issuance, f)
      <4>0. u \in Worlds /\ f \in Nat
        BY <3>1, <3>2
      <4>1. x.free = [u.free EXCEPT ![a] = Kept(f)]
        BY <4>0, SetFreeWrites
      <4>2. /\ f >= ED => x.issuance = u.issuance
            /\ ~(f >= ED) => x.issuance = saturating_sub(u.issuance, f)
        BY <4>0, SetFreeIssuance
      <4> QED
        BY <4>1, <4>2
    <3>6. Kept(f) \in Nat
      BY <3>1 DEF Kept
    <3>7. t0 \in Nat /\ t1 \in Nat /\ t1 + m.free[b] = t0 + (m.free[b] + v) /\ m.free[a] <= t0
      BY <1>1, <3>1, <3>2, TotalChanges
    <3>8. t2 \in Nat /\ t2 + u.free[a] = t1 + Kept(f)
      BY <3>3, <3>5, <3>6, TotalChanges
    <3>9. m.issuance = t0 + h
      BY DEF Balanced
    <3> HIDE DEF x, t0, t1, t2
    <3>10. x.issuance = t2 + h /\ x.issuance <= m.issuance
      <4>1. CASE f >= ED
        BY <4>1, <1>1, <3>1, <3>3, <3>5, <3>7, <3>8, <3>9 DEF Kept
      <4>2. CASE ~(f >= ED)
        BY <4>2, <1>1, <3>1, <3>3, <3>5, <3>7, <3>8, <3>9 DEF Kept, saturating_sub
      <4> QED
        BY <4>1, <4>2
    <3> QED
      BY <3>4, <3>10 DEF Balanced, t2
  <2> QED
    BY <2>1, <2>2
<1> QED
  BY <1>2, <1>3

(* Settling: the refund goes back to the account if it is still there, the *)
(* rest of the held fee is burned, and no nonce changes.                   *)
Settled(m, a, corrected, paid, u, refunded) ==
  /\ u \in Worlds /\ refunded \in Nat /\ refunded <= paid
  /\ correct_and_deposit_fee(m, a, corrected, paid).w = Burn(u, paid - refunded)
  /\ u.nonce = m.nonce /\ u.issuance = m.issuance
  /\ u.free = [m.free EXCEPT ![a] = m.free[a] + refunded]
  /\ m.free[a] = 0 => refunded = 0
  /\ m.free[a] # 0 => refunded + corrected >= paid

LEMMA SettlingEffect ==
  ASSUME NEW m \in Worlds, NEW a \in Addr, NEW corrected \in Nat, NEW paid \in Nat
  PROVE  \E u, refunded : Settled(m, a, corrected, paid, u, refunded)
<1> DEFINE refund   == saturating_sub(paid, low_u128(corrected))
           r        == DepositIntoExisting(m, a, refund)
           refunded == IF r.res = "Ok" THEN refund ELSE 0
<1>0. m.free \in [Addr -> Nat] /\ m.free[a] \in Nat
  BY DEF Worlds
<1>1. refund \in Nat /\ refund <= paid /\ refund + corrected >= paid
  <2>1. low_u128(corrected) \in Nat /\ low_u128(corrected) <= corrected
    BY RunnerAssumption, Z3 DEF low_u128
  <2> QED
    BY <2>1 DEF saturating_sub
<1> HIDE DEF refund
<1>2. refunded \in Nat /\ refunded <= paid
  BY <1>1
<1>3. correct_and_deposit_fee(m, a, corrected, paid) = Ok(Burn(r.w, paid - refunded))
  BY <1>2 DEF correct_and_deposit_fee, refund
<1>4. r.w \in Worlds
  BY <1>1, CurrencyType
<1>5. CASE refund = 0 \/ m.free[a] = 0
  <2>1. r.w = m /\ refunded = 0
    BY <1>5, <1>1 DEF DepositIntoExisting, Ok, Err
  <2>2. m.free = [m.free EXCEPT ![a] = m.free[a] + refunded]
    <3> HIDE DEF refunded
    <3> QED
      BY <2>1, <1>0
  <2>3. m.free[a] # 0 => refunded + corrected >= paid
    BY <1>5, <1>1, <2>1
  <2> HIDE DEF r, refunded
  <2>4. Settled(m, a, corrected, paid, m, refunded)
    BY <1>2, <1>3, <2>1, <2>2, <2>3 DEF Ok, Settled
  <2> QED
    BY <2>4
<1>6. CASE refund # 0 /\ m.free[a] # 0
  <2>1. r.w = [m EXCEPT !.free[a] = @ + refund] /\ refunded = refund
    BY <1>6 DEF DepositIntoExisting, Ok, Err
  <2>2. /\ r.w.nonce = m.nonce /\ r.w.issuance = m.issuance
        /\ r.w.free = [m.free EXCEPT ![a] = m.free[a] + refund]
    <3> HIDE DEF r
    <3> QED
      BY <2>1 DEF Worlds
  <2> HIDE DEF r, refunded
  <2>3. correct_and_deposit_fee(m, a, corrected, paid).w = Burn(r.w, paid - refunded)
    BY <1>3 DEF Ok
  <2>4. Settled(m, a, corrected, paid, r.w, refunded)
    BY <1>1, <1>2, <1>4, <1>6, <2>1, <2>2, <2>3 DEF Settled
  <2> QED
    BY <2>4
<1> QED
  BY <1>5, <1>6

(* Settling burns what is held and not refunded.                           *)
LEMMA SettlingBalance ==
  ASSUME NEW m \in Worlds, NEW a \in Addr, NEW corrected \in Nat, NEW paid \in Nat,
         Balanced(m, paid)
  PROVE  /\ Balanced(correct_and_deposit_fee(m, a, corrected, paid).w, 0)
         /\ correct_and_deposit_fee(m, a, corrected, paid).w.issuance <= m.issuance
<1>0. PICK u, refunded : Settled(m, a, corrected, paid, u, refunded)
  BY SettlingEffect
<1>1. /\ u \in Worlds /\ refunded \in Nat /\ refunded <= paid
      /\ correct_and_deposit_fee(m, a, corrected, paid).w = Burn(u, paid - refunded)
      /\ u.issuance = m.issuance
      /\ u.free = [m.free EXCEPT ![a] = m.free[a] + refunded]
  BY <1>0 DEF Settled
<1>2. m.free \in [Addr -> Nat] /\ m.free[a] \in Nat /\ m.issuance \in Nat
  BY DEF Worlds
<1>3. /\ Total(m.free) \in Nat /\ Total(u.free) \in Nat
      /\ Total(u.free) + m.free[a] = Total(m.free) + (m.free[a] + refunded)
  <2>1. m.free[a] + refunded \in Nat
    BY <1>1, <1>2
  <2> QED
    BY <1>1, <1>2, <2>1, TotalChanges
<1>4. paid - refunded \in Nat /\ 0 \in Nat
  BY <1>1
<1>5. Balanced(u, 0 + (paid - refunded))
  BY <1>1, <1>2, <1>3 DEF Balanced
<1>6. Balanced(Burn(u, paid - refunded), 0) /\ Burn(u, paid - refunded).issuance <= u.issuance
  <2> DEFINE k == paid - refunded
             z == 0
  <2>1. u \in Worlds /\ k \in Nat /\ z \in Nat /\ Balanced(u, z + k)
    BY <1>1, <1>4, <1>5
  <2> HIDE DEF k, z
  <2>2. Balanced(Burn(u, k), z) /\ Burn(u, k).issuance <= u.issuance
    BY <2>1, BurnBalance
  <2> QED
    BY <2>2 DEF k, z
<1> QED
  BY <1>1, <1>6

(* A run of the EVM moves balances and burns dust; what is held stays held.*)
LEMMA RunBalance ==
  ASSUME NEW m \in Worlds, NEW a \in Addr, NEW b \in Addr, NEW v \in Nat, NEW o \in Outcome,
         NEW h \in Nat, Balanced(m, h)
  PROVE  Balanced(RunEvm(m, a, b, v, o).w, h) /\ RunEvm(m, a, b, v, o).w.issuance <= m.issuance
<1> DEFINE entered == IF o.entered THEN IncNonce(m, a) ELSE m
           moved   == Transfer(entered, a, b, low_u128(v))
           sent    == Transfer(moved.w, b, o.send.to, low_u128(o.send.value))
<1>1. o.send.to \in Addr /\ o.send.value \in Nat
  BY RunnerAssumption DEF Outcome
<1>2. low_u128(v) \in Nat /\ low_u128(o.send.value) \in Nat
  BY <1>1, Conversions
<1>3. entered \in Worlds /\ entered.free = m.free /\ entered.issuance = m.issuance
  BY CurrencyType DEF IncNonce, Worlds
<1>4. Balanced(entered, h) /\ entered.issuance <= m.issuance /\ m.issuance \in Nat
  BY <1>3 DEF Balanced, Worlds
<1> HIDE DEF entered
<1>5. moved.w \in Worlds /\ Balanced(moved.w, h) /\ moved.w.issuance <= entered.issuance
  BY <1>2, <1>3, <1>4, CurrencyType, CurrencyBalance
<1> HIDE DEF moved
<1>6. sent.w \in Worlds /\ Balanced(sent.w, h) /\ sent.w.issuance <= moved.w.issuance
  BY <1>1, <1>2, <1>5, CurrencyType, CurrencyBalance
<1> HIDE DEF sent
<1>7. RunEvm(m, a, b, v, o).w = entered \/ RunEvm(m, a, b, v, o).w = sent.w
  BY DEF RunEvm, transfer, entered, moved, sent
<1>8. sent.w.issuance <= m.issuance
  <2>1. sent.w.issuance \in Nat /\ moved.w.issuance \in Nat /\ entered.issuance \in Nat
    BY <1>3, <1>5, <1>6 DEF Worlds
  <2> QED
    BY <1>4, <1>5, <1>6, <2>1
<1> QED
  BY <1>4, <1>6, <1>7, <1>8

(* Runner::execute creates and loses nothing: if the issuance is the sum   *)
(* of all balances before it, it is so after it, whatever is charged,      *)
(* moved, reaped, refunded or burned on the way, and it never grows.       *)
THEOREM ExecuteConserves ==
  ASSUME NEW m \in Worlds, NEW source \in Addr, NEW target \in Addr, NEW value \in Nat,
         NEW gas_limit \in Nat, NEW gas_price \in Nat, NEW nonce, NEW o \in Outcome,
         m.issuance = Total(m.free)
  PROVE  LET r == execute(m, source, target, value, gas_limit, gas_price, nonce, o)
         IN  r.w.issuance = Total(r.w.free) /\ r.w.issuance <= m.issuance
<1> DEFINE check       == Check(m, source, value, gas_limit, gas_price)
           check_nonce == CheckNonce(m, source, nonce)
           total_fee   == gas_price * gas_limit
           paid        == low_u128(total_fee)
           charged     == withdraw_fee(m, source, total_fee)
           r           == execute(m, source, target, value, gas_limit, gas_price, nonce, o)
           run         == RunEvm(charged.w, source, target, value, o)
           settled     == correct_and_deposit_fee(run.w, source, o.used * gas_price, paid)
<1>1. total_fee \in Nat /\ paid \in Nat /\ o.used * gas_price \in Nat
  BY Conversions DEF Outcome
<1>2. m.issuance \in Nat /\ Total(m.free) \in Nat
  BY TotalIsASum DEF Worlds
<1> HIDE DEF total_fee
<1>4. CASE check # "Ok" \/ check_nonce # "Ok" \/ charged.res # "Ok"
  <2>1. r.w = m
    BY <1>4 DEF execute, Refused, total_fee
  <2> QED
    BY <2>1, <1>2
<1>5. CASE check = "Ok" /\ check_nonce = "Ok" /\ charged.res = "Ok"
  <2>1. r.w = settled.w
    BY <1>5 DEF execute, RunAndSettle, total_fee
  <2> DEFINE z == 0
  <2>2. z \in Nat /\ Balanced(m, z) /\ z + paid = paid
    BY <1>1, <1>2 DEF Balanced
  <2>3. charged = Withdraw(m, source, paid) /\ Withdraw(m, source, paid).res = "Ok"
    BY <1>5 DEF withdraw_fee, Err
  <2> HIDE DEF paid, z
  <2>4. charged.w \in Worlds /\ Balanced(charged.w, z + paid) /\ charged.w.issuance <= m.issuance
    BY <1>1, <2>2, <2>3, CurrencyType, CurrencyBalance
  <2>5. charged.w \in Worlds /\ Balanced(charged.w, paid)
    BY <2>2, <2>4
  <2> HIDE DEF charged
  <2>6. run.w \in Worlds /\ Balanced(run.w, paid) /\ run.w.issuance <= charged.w.issuance
    BY <1>1, <2>5, RunType, RunBalance
  <2> HIDE DEF run
  <2>7. Balanced(settled.w, 0) /\ settled.w.issuance <= run.w.issuance /\ settled.w \in Worlds
    BY <1>1, <2>6, SettlingBalance, SettlingSucceeds
  <2> HIDE DEF settled
  <2>8. settled.w.issuance = Total(settled.w.free)
    <3>1. Total(settled.w.free) \in Nat
      BY <2>7, TotalIsASum DEF Worlds
    <3> QED
      BY <2>7, <3>1 DEF Balanced
  <2>9. settled.w.issuance <= m.issuance
    <3>1. settled.w.issuance \in Nat /\ run.w.issuance \in Nat /\ charged.w.issuance \in Nat
      BY <2>4, <2>6, <2>7 DEF Worlds
    <3> QED
      BY <1>2, <2>4, <2>6, <2>7, <3>1
  <2> QED
    BY <2>1, <2>8, <2>9
<1> QED
  BY <1>4, <1>5

-----------------------------------------------------------------------------
(* What an execution costs its sender.                                     *)

(* a transfer seen from the account that pays *)
LEMMA TransferFrom ==
  ASSUME NEW m \in Worlds, NEW a \in Addr, NEW b \in Addr, NEW v \in Nat
  PROVE  LET x == Transfer(m, a, b, v).w
         IN  \/ x.free[a] = m.free[a] /\ x.nonce[a] = m.nonce[a]
             \/ /\ v <= m.free[a] /\ x.free[a] = Kept(m.free[a] - v)
                /\ m.free[a] - v >= ED => x.nonce[a] = m.nonce[a]
<1> DEFINE x == Transfer(m, a, b, v).w
           f == m.free[a] - v
           u == [m EXCEPT !.free[b] = @ + v]
<1>1. m.free[a] \in Nat /\ m.free[b] \in Nat
  BY DEF Worlds
<1>2. CASE v = 0 \/ a = b \/ m.free[a] < v \/ m.free[b] + v < ED
  BY <1>2 DEF Transfer, Ok, Err
<1>3. CASE ~(v = 0 \/ a = b \/ m.free[a] < v \/ m.free[b] + v < ED)
  <2>1. f \in Nat /\ v <= m.free[a]
    BY <1>1, <1>3
  <2>2. u \in Worlds /\ u.free \in [Addr -> Nat] /\ u.nonce = m.nonce
    BY <1>1 DEF Worlds
  <2>3. x = SetFree(u, a, f)
    BY <1>3 DEF Transfer, Ok
  <2> HIDE DEF f, u, x
  <2>4. x.free[a] = Kept(f)
    <3>1. x.free = [u.free EXCEPT ![a] = Kept(f)]
      BY <2>1, <2>2, <2>3, SetFreeWrites
    <3> QED
      BY <2>2, <3>1
  <2>5. f >= ED => x.nonce = m.nonce
    BY <2>1, <2>2, <2>3, SetFreeReaps
  <2> QED
    BY <2>1, <2>4, <2>5 DEF f, x
<1> QED
  BY <1>2, <1>3

(* ... and from any other account: it may only gain, and then lives *)
LEMMA TransferOthers ==
  ASSUME NEW m \in Worlds, NEW a \in Addr, NEW b \in Addr, NEW v \in Nat,
         NEW c \in Addr, c # a
  PROVE  LET x == Transfer(m, a, b, v).w
         IN  /\ x.nonce[c] = m.nonce[c]
             /\ \/ x.free[c] = m.free[c]
                \/ x.free[c] >= m.free[c] /\ x.free[c] >= ED
<1> DEFINE x == Transfer(m, a, b, v).w
           f == m.free[a] - v
           u == [m EXCEPT !.free[b] = @ + v]
<1>1. m.free[a] \in Nat /\ m.free[b] \in Nat /\ m.free[c] \in Nat
  BY DEF Worlds
<1>2. CASE v = 0 \/ a = b \/ m.free[a] < v \/ m.free[b] + v < ED
  BY <1>2 DEF Transfer, Ok, Err
<1>3. CASE ~(v = 0 \/ a = b \/ m.free[a] < v \/ m.free[b] + v < ED)
  <2>1. f \in Nat
    BY <1>1, <1>3
  <2>2. /\ u \in Worlds /\ u.free \in [Addr -> Nat] /\ u.nonce = m.nonce
        /\ u.free[c] = IF c = b THEN m.free[b] + v ELSE m.free[c]
    BY <1>1 DEF Worlds
  <2>3. x = SetFree(u, a, f)
    BY <1>3 DEF Transfer, Ok
  <2>4. m.free[b] + v >= ED
    BY <1>1, <1>3, RunnerAssumption
  <2> HIDE DEF f, u, x
  <2>5. x.free[c] = u.free[c]
    <3>1. x.free = [u.free EXCEPT ![a] = Kept(f)]
      BY <2>1, <2>2, <2>3, SetFreeWrites
    <3> QED
      BY <2>2, <3>1
  <2>6. x.nonce[c] = m.nonce[c]
    <3>1. x.nonce = m.nonce \/ x.nonce = [m.nonce EXCEPT ![a] = 0]
      <4>1. u \in Worlds /\ f \in Nat
        BY <2>1, <2>2
      <4>2. f >= ED => x.nonce = u.nonce
        BY <4>1, <2>3, SetFreeReaps
      <4>3. ~(f >= ED) => x.nonce = [u.nonce EXCEPT ![a] = 0]
        BY <4>1, <2>3, SetFreeReaps
      <4> QED
        BY <2>2, <4>2, <4>3
    <3>2. m.nonce \in [Addr -> Nat]
      BY DEF Worlds
    <3> QED
      BY <3>1, <3>2
  <2>7. \/ x.free[c] = m.free[c]
        \/ x.free[c] >= m.free[c] /\ x.free[c] >= ED
    BY <1>1, <2>2, <2>4, <2>5
  <2> QED
    BY <2>6, <2>7 DEF x
<1> QED
  BY <1>2, <1>3

(* What a run that moves at most V leaves its sender: all but V, or        *)
(* nothing when V and the deposit were not there; a sender that had        *)
(* nothing and has something lives; one with V and the deposit keeps its   *)
(* nonce, plus one if the run was entered.                                 *)
SenderAfterRun(m, x, a, V, entered) ==
  /\ x.free[a] \in Nat
  /\ \/ x.free[a] + V >= m.free[a]
     \/ x.free[a] = 0 /\ m.free[a] < V + ED
  /\ m.free[a] = 0 /\ x.free[a] # 0 => x.free[a] >= ED
  /\ m.free[a] >= V + ED => x.nonce[a] = m.nonce[a] + (IF entered THEN 1 ELSE 0)

LEMMA RunSender ==
  ASSUME NEW m \in Worlds, NEW a \in Addr \ Contracts, NEW b \in Addr, NEW v \in Nat,
         NEW g \in Nat, NEW o \in Outcomes(b, g)
  PROVE  LET run == RunEvm(m, a, b, v, o)
         IN  /\ SenderAfterRun(m, run.w, a, IF run.reason = "Succeed" THEN v ELSE 0, o.entered)
             /\ run.reason = "Succeed" => o.entered
<1> DEFINE run     == RunEvm(m, a, b, v, o)
           entered == IF o.entered THEN IncNonce(m, a) ELSE m
           lv      == low_u128(v)
           moved   == Transfer(entered, a, b, lv)
           sv      == low_u128(o.send.value)
           sent    == Transfer(moved.w, b, o.send.to, sv)
<1>1. /\ o \in Outcome /\ o.send.to \in Addr /\ o.send.value \in Nat
      /\ o.entered \in BOOLEAN /\ (o.reason = "Succeed" => o.entered)
      /\ (b \notin Contracts => o.send.value = 0)
  BY RunnerAssumption DEF Outcomes, Outcome
<1>2. lv \in Nat /\ lv <= v /\ sv \in Nat /\ (o.send.value = 0 => sv = 0)
  BY <1>1, RunnerAssumption, Z3 DEF low_u128
<1>3. entered \in Worlds /\ entered.free = m.free
  BY CurrencyType DEF IncNonce, Worlds
<1>4. entered.nonce[a] = m.nonce[a] + (IF o.entered THEN 1 ELSE 0)
  BY DEF IncNonce, Worlds
<1>5. /\ m.free \in [Addr -> Nat] /\ m.free[a] \in Nat /\ m.nonce[a] \in Nat /\ ED \in Nat /\ ED # 0
  BY RunnerAssumption DEF Worlds
<1> HIDE DEF lv, sv, entered
<1>6. /\ run.reason = "Succeed" => run.w = sent.w /\ o.reason = "Succeed" /\ moved.res = "Ok"
      /\ run.reason # "Succeed" => run.w = entered
  BY DEF RunEvm, transfer, entered, lv, sv
<1>7. CASE run.reason # "Succeed"
  <2>1. run.w = entered
    BY <1>6, <1>7
  <2> QED
    BY <2>1, <1>3, <1>4, <1>5, <1>7 DEF SenderAfterRun
<1>8. CASE run.reason = "Succeed"
  <2>1. run.w = sent.w /\ o.entered
    BY <1>1, <1>6, <1>8
  <2>2. moved.w \in Worlds /\ moved.w.free[a] \in Nat
    <3>1. moved.w \in Worlds
      BY <1>2, <1>3, CurrencyType
    <3> HIDE DEF moved
    <3> QED
      BY <3>1 DEF Worlds
  <2>3. \/ moved.w.free[a] = entered.free[a] /\ moved.w.nonce[a] = entered.nonce[a]
        \/ /\ lv <= entered.free[a] /\ moved.w.free[a] = Kept(entered.free[a] - lv)
           /\ entered.free[a] - lv >= ED => moved.w.nonce[a] = entered.nonce[a]
    BY <1>2, <1>3, TransferFrom
  <2> HIDE DEF moved
  <2>4. sent.w \in Worlds /\ sent.w.free[a] \in Nat
    <3>1. sent.w \in Worlds
      BY <1>1, <1>2, <2>2, CurrencyType
    <3> HIDE DEF sent
    <3> QED
      BY <3>1 DEF Worlds
  <2>5. /\ sent.w.nonce[a] = moved.w.nonce[a]
        /\ \/ sent.w.free[a] = moved.w.free[a]
           \/ sent.w.free[a] >= moved.w.free[a] /\ sent.w.free[a] >= ED
    <3>1. CASE b = a
      <4>1. sv = 0
        BY <3>1, <1>1, <1>2
      <4>2. sent.w = moved.w
        BY <4>1 DEF Transfer, Ok
      <4> QED
        BY <4>2
    <3>2. CASE b # a
      BY <3>2, <1>1, <1>2, <2>2, TransferOthers
    <3> QED
      BY <3>1, <3>2
  <2> HIDE DEF sent
  <2>6. SenderAfterRun(m, sent.w, a, v, o.entered)
    <3>1. \/ sent.w.free[a] + v >= m.free[a]
          \/ sent.w.free[a] = 0 /\ m.free[a] < v + ED
      BY <1>2, <1>3, <1>5, <2>2, <2>3, <2>4, <2>5 DEF Kept
    <3>2. m.free[a] = 0 /\ sent.w.free[a] # 0 => sent.w.free[a] >= ED
      BY <1>2, <1>3, <1>5, <2>2, <2>3, <2>4, <2>5 DEF Kept
    <3>3. m.free[a] >= v + ED => sent.w.nonce[a] = entered.nonce[a]
      BY <1>2, <1>3, <1>5, <2>3, <2>5
    <3> QED
      BY <3>1, <3>2, <3>3, <1>4, <2>4 DEF SenderAfterRun
  <2> QED
    BY <2>1, <2>6, <1>8
<1> QED
  BY <1>7, <1>8

(* What an execution costs its sender at most, with limit the fee limit    *)
(* gas_price * gas_limit: the fee of the gas used and, on success, the     *)
(* value; only a sender left with nothing, which had less than the deposit *)
(* on top of the fee limit and the value, loses more.                      *)
SenderPays(m, r, a, value, limit) ==
  \/ r.w.free[a] + (r.fee + IF r.reason = "Succeed" THEN value ELSE 0) >= m.free[a]
  \/ r.w.free[a] = 0 /\ m.free[a] < value + limit + ED

(* A sender with the deposit on top of the fee limit and the value keeps   *)
(* its nonce, and success adds one.                                        *)
SenderCounts(m, r, a, value, limit) ==
  m.free[a] >= value + limit + ED =>
    /\ r.w.nonce[a] >= m.nonce[a]
    /\ r.reason = "Succeed" => r.w.nonce[a] = m.nonce[a] + 1

(* An execution that returns Ok charges its sender for the gas it used and *)
(* the value it moved and counts it, for every outcome of the EVM, also    *)
(* when the account is reaped by the fee, reaped by the transfer or        *)
(* brought back to life by the contract it calls.                          *)
THEOREM ExecuteBillsSender ==
  ASSUME NEW m \in Worlds, NEW source \in Addr \ Contracts, NEW target \in Addr,
         NEW value \in Nat, NEW gas_limit \in Nat, NEW gas_price \in Nat, NEW nonce,
         NEW o \in Outcomes(target, gas_limit)
  PROVE  LET r == execute(m, source, target, value, gas_limit, gas_price, nonce, o)
         IN  r.res = "Ok" =>
               /\ SenderPays(m, r, source, value, gas_price * gas_limit)
               /\ SenderCounts(m, r, source, value, gas_price * gas_limit)
<1> DEFINE check       == Check(m, source, value, gas_limit, gas_price)
           check_nonce == CheckNonce(m, source, nonce)
           total_fee   == gas_price * gas_limit
           paid        == low_u128(total_fee)
           fee         == o.used * gas_price
           charged     == withdraw_fee(m, source, total_fee)
           r           == execute(m, source, target, value, gas_limit, gas_price, nonce, o)
           run         == RunEvm(charged.w, source, target, value, o)
           settled     == correct_and_deposit_fee(run.w, source, fee, paid)
           V           == IF run.reason = "Succeed" THEN value ELSE 0
<1> SUFFICES ASSUME r.res = "Ok"
             PROVE  /\ SenderPays(m, r, source, value, total_fee)
                    /\ SenderCounts(m, r, source, value, total_fee)
  OBVIOUS
<1>0. o \in Outcome
  BY DEF Outcomes, Outcome
<1>1. total_fee \in Nat /\ paid \in Nat /\ fee \in Nat
  BY <1>0, Conversions DEF Outcome
<1>2. paid <= total_fee
  <2> HIDE DEF total_fee
  <2> QED
    BY <1>1, RunnerAssumption, Z3 DEF low_u128
<1> HIDE DEF total_fee, fee
<1>3. check = "Ok" /\ check_nonce = "Ok" /\ charged.res = "Ok"
  BY DEF execute, Refused, total_fee
<1>4. r.w = settled.w /\ r.fee = fee /\ r.reason = run.reason
  BY <1>3 DEF execute, RunAndSettle, total_fee, fee
<1>5. charged = Withdraw(m, source, paid) /\ Withdraw(m, source, paid).res = "Ok"
  BY <1>3 DEF withdraw_fee, Err
<1> HIDE DEF check, check_nonce, r, paid
<1>6. /\ m.free \in [Addr -> Nat] /\ m.free[source] \in Nat /\ m.nonce[source] \in Nat
      /\ m.nonce \in [Addr -> Nat] /\ ED \in Nat /\ ED # 0
  BY RunnerAssumption DEF Worlds
<1>7. charged.w \in Worlds
  BY <1>1, <1>5, CurrencyType
<1>8. /\ paid <= m.free[source] \/ paid = 0
      /\ \/ charged.w.free[source] = m.free[source] - paid
         \/ charged.w.free[source] = 0 /\ m.free[source] < paid + ED
      /\ m.free[source] >= paid + ED => /\ charged.w.nonce[source] = m.nonce[source]
                                       /\ charged.w.free[source] = m.free[source] - paid
  <2>1. CASE paid = 0
    BY <2>1, <1>5, <1>6 DEF Withdraw, Ok
  <2>2. CASE paid # 0
    <3> DEFINE f == m.free[source] - paid
    <3>1. f \in Nat /\ charged.w = SetFree(m, source, f)
      BY <2>2, <1>1, <1>5, <1>6 DEF Withdraw, Ok, Err
    <3> HIDE DEF f, charged
    <3>2. charged.w.free[source] = Kept(f)
      <4>1. charged.w.free = [m.free EXCEPT ![source] = Kept(f)]
        BY <3>1, SetFreeWrites
      <4> QED
        BY <4>1, <1>6
    <3>3. f >= ED => charged.w.nonce = m.nonce
      <4>1. f \in Nat /\ m \in Worlds /\ source \in Addr
        BY <3>1
      <4>2. f >= ED => SetFree(m, source, f).nonce = m.nonce
        BY <4>1, SetFreeReaps
      <4> QED
        BY <3>1, <4>2
    <3> QED
      BY <3>1, <3>2, <3>3, <1>1, <1>6 DEF f, Kept
  <2> QED
    BY <2>1, <2>2
<1> HIDE DEF charged
<1>9. charged.w.free[source] \in Nat /\ charged.w.nonce[source] \in Nat
  BY <1>7 DEF Worlds
<1>10. SenderAfterRun(charged.w, run.w, source, V, o.entered) /\ (run.reason = "Succeed" => o.entered)
  BY <1>7, RunSender
<1>11. run.w \in Worlds
  BY <1>0, <1>7, RunType
<1>12. V \in Nat /\ V <= value
  OBVIOUS
<1> HIDE DEF run
<1>13. PICK u, refunded : Settled(run.w, source, fee, paid, u, refunded)
  BY <1>1, <1>11, SettlingEffect
<1> DEFINE before == m.free[source]
           left   == charged.w.free[source]
           ran    == run.w.free[source]
           after  == r.w.free[source]
<1>14. /\ refunded \in Nat /\ after = ran + refunded /\ r.w.nonce = run.w.nonce
       /\ ran = 0 => refunded = 0
       /\ ran # 0 => refunded + fee >= paid
  <2>1. /\ u \in Worlds /\ refunded \in Nat /\ settled.w = Burn(u, paid - refunded)
        /\ u.nonce = run.w.nonce /\ u.free = [run.w.free EXCEPT ![source] = ran + refunded]
        /\ ran = 0 => refunded = 0
        /\ ran # 0 => refunded + fee >= paid
    BY <1>13 DEF Settled
  <2>2. settled.w.free = u.free /\ settled.w.nonce = u.nonce
    BY <2>1 DEF Burn, Worlds
  <2>3. u.free[source] = ran + refunded
    BY <2>1, <1>11 DEF Worlds
  <2> QED
    BY <1>4, <2>1, <2>2, <2>3
<1>15. /\ ran \in Nat
       /\ ran + V >= left \/ (ran = 0 /\ left < V + ED)
       /\ left = 0 /\ ran # 0 => ran >= ED
       /\ left >= V + ED => run.w.nonce[source] = charged.w.nonce[source] + (IF o.entered THEN 1 ELSE 0)
  BY <1>10 DEF SenderAfterRun
<1>16. before \in Nat /\ left \in Nat
  BY <1>6, <1>9
<1>17. /\ left = before - paid \/ (left = 0 /\ before < paid + ED)
       /\ before >= paid + ED => charged.w.nonce[source] = m.nonce[source] /\ left = before - paid
  BY <1>8
<1> HIDE DEF V, before, left, ran, after
<1>18. after + (fee + V) >= before \/ (after = 0 /\ before < value + total_fee + ED)
  <2>1. CASE ran = 0
    <3>1. after = 0
      BY <2>1, <1>14
    <3>2. before < V + paid + ED
      BY <2>1, <1>1, <1>6, <1>12, <1>15, <1>16, <1>17
    <3> QED
      BY <3>1, <3>2, <1>1, <1>2, <1>6, <1>12, <1>16
  <2>2. CASE ran # 0
    <3>1. refunded + fee >= paid
      BY <2>2, <1>14
    <3>2. ran + V + paid >= before
      BY <2>2, <1>1, <1>6, <1>12, <1>15, <1>16, <1>17
    <3> QED
      BY <3>1, <3>2, <1>1, <1>12, <1>14, <1>15, <1>16
  <2> QED
    BY <2>1, <2>2
<1>19. SenderPays(m, r, source, value, total_fee)
  BY <1>4, <1>18 DEF SenderPays, V, before, after
<1>20. ASSUME before >= value + total_fee + ED
       PROVE  r.w.nonce[source] = m.nonce[source] + (IF o.entered THEN 1 ELSE 0)
  <2>1. before >= paid + ED /\ left >= V + ED
    BY <1>20, <1>1, <1>2, <1>6, <1>12, <1>16, <1>17
  <2> QED
    BY <2>1, <1>14, <1>15, <1>17
<1>21. SenderCounts(m, r, source, value, total_fee)
  BY <1>4, <1>6, <1>10, <1>20 DEF SenderCounts, before
<1> QED
  BY <1>19, <1>21

(* A product grows with its second factor.                                 *)
LEMMA Monotone ==
  ASSUME NEW p \in Nat, NEW x \in Nat, NEW y \in Nat, x <= y
  PROVE  p * x \in Nat /\ p * y \in Nat /\ p * x <= p * y
<1>1. y - x \in Nat /\ y = x + (y - x)
  OBVIOUS
<1>2. p * x \in Nat /\ p * y \in Nat /\ p * (y - x) \in Nat
  BY <1>1, Conversions
<1>3. p * y = p * x + p * (y - x)
  BY <1>1, <1>2, Z3
<1> QED
  BY <1>2, <1>3

(* Runner::execute refuses nobody who offers the minimal price, has the    *)
(* value and the whole fee, within the width, and names the due nonce.     *)
LEMMA ExecuteAccepts ==
  ASSUME NEW m \in Worlds, NEW source \in Addr, NEW target \in Addr, NEW value \in Nat,
         NEW gas_limit \in Nat, NEW gas_price \in Nat, NEW nonce, NEW o \in Outcome,
         gas_price >= MinGasPrice, value + gas_price * gas_limit < U256,
         m.free[source] >= value + gas_price * gas_limit,
         \A n \in nonce : n = m.nonce[source]
  PROVE  execute(m, source, target, value, gas_limit, gas_price, nonce, o).res = "Ok"
<1> DEFINE total_fee == gas_price * gas_limit
           paid      == low_u128(total_fee)
           charged   == withdraw_fee(m, source, total_fee)
           run       == RunEvm(charged.w, source, target, value, o)
           fee       == o.used * gas_price
<1>0. m.free[source] \in Nat
  BY DEF Worlds
<1>1. total_fee \in Nat /\ fee \in Nat
  BY Conversions DEF Outcome
<1> HIDE DEF total_fee, fee
<1>2. paid \in Nat /\ paid <= total_fee
  BY <1>1, RunnerAssumption, Z3 DEF low_u128
<1>3. Check(m, source, value, gas_limit, gas_price) = "Ok"
  <2>1. /\ ~(gas_price < MinGasPrice) /\ ~(total_fee >= U256) /\ ~(value + total_fee >= U256)
        /\ ~(m.free[source] < value + total_fee)
    <3>1. value + total_fee < U256 /\ m.free[source] >= value + total_fee
      BY DEF total_fee
    <3> QED
      BY <1>0, <1>1, <3>1, RunnerAssumption
  <2> QED
    BY <2>1 DEF Check, total_fee
<1>4. CheckNonce(m, source, nonce) = "Ok"
  BY DEF CheckNonce
<1>5. charged.res = "Ok" /\ charged.w \in Worlds
  <2>1. ~(m.free[source] < paid)
    <3>1. m.free[source] >= value + total_fee
      BY DEF total_fee
    <3> QED
      BY <1>0, <1>1, <1>2, <3>1
  <2>2. charged = Withdraw(m, source, paid) /\ charged.res = "Ok"
    BY <2>1 DEF withdraw_fee, Withdraw, Ok, Err
  <2> HIDE DEF paid
  <2> QED
    BY <1>2, <2>2, CurrencyType
<1> HIDE DEF charged
<1>6. run.w \in Worlds
  BY <1>5, RunType
<1>7. execute(m, source, target, value, gas_limit, gas_price, nonce, o)
        = RunAndSettle(charged.w, source, target, value, gas_price, total_fee, o)
  BY <1>3, <1>4, <1>5 DEF execute, charged, total_fee
<1>8. correct_and_deposit_fee(run.w, source, fee, paid).res = "Ok"
  <2> HIDE DEF run, paid
  <2> QED
    BY <1>1, <1>2, <1>6, SettlingSucceeds
<1> QED
  BY <1>7, <1>8 DEF RunAndSettle, fee

-----------------------------------------------------------------------------
(* The parts of a Pending entry that the type invariant speaks about.      *)
PendingEntries == [ transaction : Txs,
                    status  : [transaction_hash : {Keccak(tx) : tx \in Txs},
                               transaction_index : Nat,
                               from : {tx.from : tx \in Txs}, to : {tx.to : tx \in Txs}],
                    receipt : [succeeded : BOOLEAN, used_gas : Nat] ]

(* The dispatch results of a block.                                        *)
Results == [kind : {"transact", "call", "withdraw"}, tx : Txs \cup Calls \cup Withdrawals,
            res : DispatchResults, reason : Reasons, fee : Nat]

SameLength(c) == /\ DOMAIN c.statuses = DOMAIN c.block.transactions
                 /\ DOMAIN c.receipts = DOMAIN c.block.transactions

IndInv ==
  /\ phase \in {"idle", "building", "sealed"}
  /\ w \in Worlds /\ number \in Nat /\ pending \in Seq(PendingEntries) /\ SameLength(current)
  /\ applied \in Seq(Results)
  /\ committed.w \in Worlds /\ committed.number \in Nat
  /\ committed.pending \in Seq(PendingEntries) /\ SameLength(committed.current)

(* store_block gives the three lists the length of Pending.                *)
LEMMA StoredLengths ==
  ASSUME NEW h, NEW n, NEW p
  PROVE  SameLength(Stored(h, n, p))
  BY DEF SameLength, Stored

(* An outcome offered to an execution is one the runner's theorem covers.  *)
LEMMA OutcomesAreOutcomes ==
  ASSUME NEW t, NEW g \in Nat
  PROVE  Outcomes(t, g) \subseteq Outcome
  BY DEF Outcomes, Outcome

(* What a transact call does to the world and to Pending.                  *)
LEMMA TransactEffect ==
  ASSUME IndInv, NEW tx \in Txs, NEW o \in Outcomes(tx.to, low_u64(tx.gas_limit)),
         transact(tx, o)
  PROVE  /\ w' \in Worlds
         /\ \E r : /\ applied' = Applied("transact", tx, r)
                   /\ r.res \in DispatchResults /\ r.reason \in Reasons /\ r.fee \in Nat
                   /\ r.res # "Ok" => w' = w /\ pending' = pending
                   /\ \/ pending' = pending
                      \/ pending' = Append(pending, PendingEntry(tx, r, Len(pending)))
                   /\ r.used \in Nat
<1>1. tx.from \in (Addr \ Contracts) \cup {NoSigner}
  BY PalletAssumption
<1>2. tx.from # NoSigner
  BY DEF transact, validate_unsigned
<1>3. tx.from \in Addr /\ tx.to \in Addr
  BY <1>1, <1>2, PalletAssumption
<1>4. tx.value \in Nat /\ tx.gas_price \in Nat /\ tx.gas_limit \in Nat
  BY PalletAssumption
<1>5. low_u64(tx.gas_limit) \in Nat
  BY <1>4, Conversions
<1>6. o \in Outcome
  BY <1>5, OutcomesAreOutcomes
<1> DEFINE due == {tx.nonce}
           x == execute(w, tx.from, tx.to, tx.value, low_u64(tx.gas_limit),
                        tx.gas_price, due, o)
           r == IF PreLogIn(digest) THEN Refused("PreLogExists", w) ELSE x
<1>7. /\ x.w \in Worlds /\ (x.res # "Ok" => x.w = w) /\ x.used \in Nat
      /\ x.res \in DispatchResults /\ x.reason \in Reasons /\ x.fee \in Nat
  <2>1. w \in Worlds
    BY DEF IndInv
  <2> HIDE DEF due
  <2> QED
    BY <2>1, <1>3, <1>4, <1>5, <1>6, ExecuteAllOrNothing
<1>8. /\ w' = r.w
      /\ pending' = IF r.res = "Ok" THEN Append(pending, PendingEntry(tx, r, Len(pending)))
                    ELSE pending
      /\ applied' = Applied("transact", tx, r)
  BY DEF transact, transaction_index
<1> HIDE DEF x
<1>9. /\ r.w \in Worlds /\ (r.res # "Ok" => r.w = w) /\ r.used \in Nat
      /\ r.res \in DispatchResults /\ r.reason \in Reasons /\ r.fee \in Nat
  BY <1>7 DEF Refused, IndInv, DispatchResults, Reasons
<1> HIDE DEF r
<1> QED
  BY <1>8, <1>9

(* What an EVM call and a withdrawal do to the world.                      *)
LEMMA CallEffect ==
  ASSUME IndInv, NEW c \in Calls, NEW o \in Outcomes(c.to, c.gas_limit), call(c, o)
  PROVE  /\ w' \in Worlds /\ pending' = pending
         /\ \E r : /\ applied' = Applied("call", c, r)
                   /\ r.res \in DispatchResults /\ r.reason \in Reasons /\ r.fee \in Nat
                   /\ r.res # "Ok" => w' = w
<1>1. /\ c.from \in Addr /\ c.to \in Addr
      /\ c.value \in Nat /\ c.gas_price \in Nat /\ c.gas_limit \in Nat
  BY PalletAssumption
<1>2. o \in Outcome
  BY <1>1, OutcomesAreOutcomes
<1> DEFINE x == execute(w, c.from, c.to, c.value, c.gas_limit, c.gas_price, c.nonce, o)
<1>3. /\ x.w \in Worlds /\ (x.res # "Ok" => x.w = w)
      /\ x.res \in DispatchResults /\ x.reason \in Reasons /\ x.fee \in Nat
  <2>1. w \in Worlds
    BY DEF IndInv
  <2> QED
    BY <2>1, <1>1, <1>2, ExecuteAllOrNothing
<1>4. w' = x.w /\ applied' = Applied("call", c, x) /\ pending' = pending
  BY DEF call
<1> HIDE DEF x
<1> QED
  BY <1>3, <1>4

LEMMA WithdrawEffect ==
  ASSUME IndInv, NEW c \in Withdrawals, withdraw(c)
  PROVE  /\ w' \in Worlds /\ pending' = pending
         /\ \E r : /\ applied' = Applied("withdraw", c, r)
                   /\ r.res \in DispatchResults /\ r.reason \in Reasons /\ r.fee \in Nat
                   /\ r.res # "Ok" => w' = w
<1>1. c.from \in Addr /\ c.to \in Addr /\ c.value \in Nat
  BY PalletAssumption
<1> DEFINE t == Transfer(w, c.from, c.to, c.value)
           r == [res |-> t.res, reason |-> "Succeed", fee |-> 0]
<1>2. t.w \in Worlds
  BY <1>1, CurrencyType DEF IndInv
<1>3. (t.res # "Ok" => t.w = w) /\ t.res \in DispatchResults
  BY DEF Transfer, Ok, Err, DispatchResults
<1>4. w' = t.w /\ pending' = pending /\ applied' = Applied("withdraw", c, r)
  BY DEF withdraw
<1> HIDE DEF t
<1>5. r.res = t.res /\ r.reason \in Reasons /\ r.fee \in Nat
  BY DEF Reasons
<1> HIDE DEF r
<1> QED
  BY <1>2, <1>3, <1>4, <1>5

(* Appending a result keeps the list a list of results, with that result   *)
(* last.                                                                   *)
LEMMA AppliedType ==
  ASSUME IndInv, NEW kind \in {"transact", "call", "withdraw"},
         NEW tx \in Txs \cup Calls \cup Withdrawals, NEW r,
         r.res \in DispatchResults, r.reason \in Reasons, r.fee \in Nat
  PROVE  /\ Applied(kind, tx, r) \in Seq(Results)
         /\ Last(Applied(kind, tx, r)).res = r.res
<1> DEFINE e == [kind |-> kind, tx |-> tx, res |-> r.res, reason |-> r.reason, fee |-> r.fee]
<1>1. e \in Results /\ e.res = r.res
  BY DEF Results
<1>2. applied \in Seq(Results)
  BY DEF IndInv
<1>3. Applied(kind, tx, r) = Append(applied, e)
  BY DEF Applied
<1> HIDE DEF e
<1>4. /\ Append(applied, e) \in Seq(Results)
      /\ Append(applied, e)[Len(Append(applied, e))] = e
  BY <1>1, <1>2
<1> QED
  BY <1>1, <1>3, <1>4 DEF Last

(* Every step keeps the inductive invariant.                               *)
LEMMA Inductive == IndInv /\ [Next]_vars => IndInv'
<1> SUFFICES ASSUME IndInv, [Next]_vars PROVE IndInv'
  OBVIOUS
<1>1. ASSUME NEW pre \in PreDigests, on_initialize(pre) PROVE IndInv'
  <2>1. <<>> \in Seq(PendingEntries) /\ <<>> \in Seq(Results)
    OBVIOUS
  <2> QED
    BY <1>1, <2>1 DEF IndInv, on_initialize, Begin, SameLength
<1>2. ASSUME NEW pre \in PreDigests, on_initialize_panics(pre) PROVE IndInv'
  <2>1. <<>> \in Seq(Results)
    OBVIOUS
  <2> QED
    BY <1>2, <2>1 DEF IndInv, on_initialize_panics, SameLength
<1>3. ASSUME NEW tx \in Txs, NEW o \in Outcomes(tx.to, low_u64(tx.gas_limit)), transact(tx, o)
      PROVE  IndInv'
  <2>1. PICK r : /\ applied' = Applied("transact", tx, r)
                 /\ r.res \in DispatchResults /\ r.reason \in Reasons /\ r.fee \in Nat
                 /\ \/ pending' = pending
                    \/ pending' = Append(pending, PendingEntry(tx, r, Len(pending)))
                 /\ r.used \in Nat
    BY <1>3, TransactEffect
  <2>2. w' \in Worlds
    BY <1>3, TransactEffect
  <2>3. pending \in Seq(PendingEntries) /\ Len(pending) \in Nat
    BY DEF IndInv
  <2>4. (r.reason = "Succeed") \in BOOLEAN
    OBVIOUS
  <2>5. PendingEntry(tx, r, Len(pending)) \in PendingEntries
    BY <2>1, <2>3, <2>4 DEF PendingEntry, PendingEntries
  <2>6. pending' \in Seq(PendingEntries)
    BY <2>1, <2>3, <2>5
  <2>7. UNCHANGED <<phase, number, current, committed>>
    BY <1>3 DEF transact
  <2>8. applied' \in Seq(Results)
    BY <2>1, AppliedType
  <2> QED
    BY <2>2, <2>6, <2>7, <2>8 DEF IndInv, SameLength
<1>4. ASSUME NEW c \in Calls, NEW o \in Outcomes(c.to, c.gas_limit), call(c, o) PROVE IndInv'
  <2>1. w' \in Worlds /\ pending' = pending
    BY <1>4, CallEffect
  <2>2. UNCHANGED <<phase, number, current, committed>>
    BY <1>4 DEF call
  <2>3. PICK r : /\ applied' = Applied("call", c, r)
                 /\ r.res \in DispatchResults /\ r.reason \in Reasons /\ r.fee \in Nat
    BY <1>4, CallEffect
  <2>4. applied' \in Seq(Results)
    BY <2>3, AppliedType
  <2> QED
    BY <2>1, <2>2, <2>4 DEF IndInv, SameLength
<1>5. ASSUME NEW c \in Withdrawals, withdraw(c) PROVE IndInv'
  <2>1. w' \in Worlds /\ pending' = pending
    BY <1>5, WithdrawEffect
  <2>2. UNCHANGED <<phase, number, current, committed>>
    BY <1>5 DEF withdraw
  <2>3. PICK r : /\ applied' = Applied("withdraw", c, r)
                 /\ r.res \in DispatchResults /\ r.reason \in Reasons /\ r.fee \in Nat
    BY <1>5, WithdrawEffect
  <2>4. applied' \in Seq(Results)
    BY <2>3, AppliedType
  <2> QED
    BY <2>1, <2>2, <2>4 DEF IndInv, SameLength
<1>6. CASE on_finalize
  <2>1. SameLength(current')
    BY <1>6, StoredLengths DEF on_finalize
  <2>2. UNCHANGED <<w, number, pending, applied, committed>> /\ phase' = "sealed"
    BY <1>6 DEF on_finalize
  <2> QED
    BY <2>1, <2>2 DEF IndInv, SameLength
<1>7. CASE import_block
  <2>1. CASE ensure_log(digest) = "Ok"
    <3>1. /\ committed' = State /\ UNCHANGED <<w, number, pending, current, applied>>
          /\ phase' = "idle"
      BY <1>7, <2>1 DEF import_block
    <3> QED
      BY <3>1 DEF IndInv, State, SameLength
  <2>2. CASE ensure_log(digest) # "Ok"
    <3>1. /\ w' = committed.w /\ number' = committed.number
          /\ pending' = committed.pending /\ current' = committed.current
          /\ committed' = committed /\ phase' = "idle" /\ applied' = <<>>
      BY <1>7, <2>2 DEF import_block
    <3>2. <<>> \in Seq(Results)
      OBVIOUS
    <3> QED
      BY <3>1, <3>2 DEF IndInv, SameLength
  <2> QED
    BY <2>1, <2>2
<1>8. CASE UNCHANGED vars
  BY <1>8 DEF IndInv, vars, SameLength
<1> QED
  BY <1>1, <1>2, <1>3, <1>4, <1>5, <1>6, <1>7, <1>8 DEF Next

(* The genesis state satisfies it.                                         *)
LEMMA Initially == Init => IndInv
<1> SUFFICES ASSUME Init PROVE IndInv
  OBVIOUS
<1>1. <<>> \in Seq(PendingEntries) /\ <<>> \in Seq(Results)
  OBVIOUS
<1>2. SameLength(current)
  BY StoredLengths DEF Init
<1>3. w \in Worlds
  BY PalletAssumption, TotalIsASum DEF Init, Worlds
<1> QED
  BY <1>1, <1>2, <1>3 DEF Init, IndInv, State, SameLength

(* The type invariant of the pallet: balances, nonces and issuance are     *)
(* naturals in every reachable state, and the lists of the stored block    *)
(* have one entry per transaction.                                         *)
THEOREM TypeCorrect == Spec => []TypeOK
<1>1. IndInv => TypeOK
  <2> SUFFICES ASSUME IndInv PROVE TypeOK
    OBVIOUS
  <2>1. \A i \in DOMAIN pending : pending[i] \in PendingEntries
    BY DEF IndInv
  <2>2. \A e \in PendingEntries : e.status.transaction_index \in Nat
    BY DEF PendingEntries
  <2>3. \A i \in DOMAIN pending : pending[i].status.transaction_index \in Nat
    BY <2>1, <2>2
  <2> QED
    BY <2>3 DEF IndInv, TypeOK, SameLength
<1> QED
  BY <1>1, Initially, Inductive, PTL DEF Spec

(* A refused transact, call or withdraw changes no balance, no nonce and   *)
(* not Pending, although nothing rolls it back.                            *)
THEOREM RefusalsAreAtomic == Spec => FailedChangesNothing
<1> DEFINE P == (Applies({"transact", "call", "withdraw"}) /\ Last(applied').res # "Ok")
                  => w' = w /\ pending' = pending
<1>1. IndInv /\ [Next]_vars => [P]_vars
  <2> SUFFICES ASSUME IndInv, Next, Len(applied') = Len(applied) + 1, Last(applied').res # "Ok"
               PROVE  w' = w /\ pending' = pending
    BY DEF Applies
  <2>0. Len(applied) \in Nat
    BY DEF IndInv
  <2>1. ASSUME NEW tx \in Txs, NEW o \in Outcomes(tx.to, low_u64(tx.gas_limit)), transact(tx, o)
        PROVE  w' = w /\ pending' = pending
    <3>1. PICK r : /\ applied' = Applied("transact", tx, r)
                   /\ r.res \in DispatchResults /\ r.reason \in Reasons /\ r.fee \in Nat
                   /\ r.res # "Ok" => w' = w /\ pending' = pending
      BY <2>1, TransactEffect
    <3> QED
      BY <3>1, AppliedType
  <2>2. ASSUME NEW c \in Calls, NEW o \in Outcomes(c.to, c.gas_limit), call(c, o)
        PROVE  w' = w /\ pending' = pending
    <3>1. PICK r : /\ applied' = Applied("call", c, r)
                   /\ r.res \in DispatchResults /\ r.reason \in Reasons /\ r.fee \in Nat
                   /\ r.res # "Ok" => w' = w
      BY <2>2, CallEffect
    <3>2. pending' = pending
      BY <2>2, CallEffect
    <3> QED
      BY <3>1, <3>2, AppliedType
  <2>3. ASSUME NEW c \in Withdrawals, withdraw(c)
        PROVE  w' = w /\ pending' = pending
    <3>1. PICK r : /\ applied' = Applied("withdraw", c, r)
                   /\ r.res \in DispatchResults /\ r.reason \in Reasons /\ r.fee \in Nat
                   /\ r.res # "Ok" => w' = w
      BY <2>3, WithdrawEffect
    <3>2. pending' = pending
      BY <2>3, WithdrawEffect
    <3> QED
      BY <3>1, <3>2, AppliedType
  <2>4. ASSUME NEW pre \in PreDigests, on_initialize(pre) \/ on_initialize_panics(pre)
        PROVE  FALSE
    <3>1. applied' = <<>>
      BY <2>4 DEF on_initialize, Begin, on_initialize_panics
    <3> QED
      BY <3>1, <2>0
  <2>5. CASE on_finalize
    BY <2>5, <2>0 DEF on_finalize
  <2>6. CASE import_block
    <3>1. applied' = applied \/ applied' = <<>>
      BY <2>6 DEF import_block
    <3> QED
      BY <3>1, <2>0
  <2> QED
    BY <2>1, <2>2, <2>3, <2>4, <2>5, <2>6 DEF Next
<1> QED
  BY <1>1, Initially, Inductive, PTL DEF Spec, FailedChangesNothing

-----------------------------------------------------------------------------
(* The result of an extrinsic, as the actions compute it.                  *)

TransactResult(tx, o) ==
  IF PreLogIn(digest) THEN Refused("PreLogExists", w)
  ELSE execute(w, tx.from, tx.to, tx.value, low_u64(tx.gas_limit), tx.gas_price, {tx.nonce}, o)

CallResult(c, o) ==
  execute(w, c.from, c.to, c.value, c.gas_limit, c.gas_price, c.nonce, o)

(* The last entry of the list of results after an extrinsic.               *)
LEMMA AppliedLast ==
  ASSUME IndInv, NEW kind, NEW tx, NEW r
  PROVE  /\ Len(Applied(kind, tx, r)) = Len(applied) + 1
         /\ \A i \in DOMAIN applied : Applied(kind, tx, r)[i] = applied[i]
         /\ DOMAIN Applied(kind, tx, r) = 1 .. Len(applied) + 1
         /\ \E e \in {Applied(kind, tx, r)[Len(applied) + 1]} :
              /\ Last(Applied(kind, tx, r)) = e
              /\ e.kind = kind /\ e.tx = tx /\ e.res = r.res
              /\ e.reason = r.reason /\ e.fee = r.fee
<1> DEFINE e == [kind |-> kind, tx |-> tx, res |-> r.res, reason |-> r.reason, fee |-> r.fee]
<1>1. applied \in Seq(Results) /\ Len(applied) \in Nat /\ DOMAIN applied = 1 .. Len(applied)
  BY DEF IndInv
<1>2. Applied(kind, tx, r) = Append(applied, e)
  BY DEF Applied
<1>3. e.kind = kind /\ e.tx = tx /\ e.res = r.res /\ e.reason = r.reason /\ e.fee = r.fee
  OBVIOUS
<1> HIDE DEF e
<1>4. /\ Len(Append(applied, e)) = Len(applied) + 1
      /\ \A i \in DOMAIN applied : Append(applied, e)[i] = applied[i]
      /\ DOMAIN Append(applied, e) = 1 .. Len(applied) + 1
      /\ Append(applied, e)[Len(applied) + 1] = e
  BY <1>1
<1>5. Last(Append(applied, e)) = e
  BY <1>4 DEF Last
<1> QED
  BY <1>2, <1>3, <1>4, <1>5

(* The constants of a valid transaction.                                   *)
LEMMA ValidTx ==
  ASSUME NEW tx \in Txs, validate_unsigned(tx) = "Valid"
  PROVE  /\ tx.from \in Addr \ Contracts /\ tx.to \in Addr
         /\ tx.value \in Nat /\ tx.gas_price \in Nat /\ tx.gas_limit \in Nat
         /\ low_u64(tx.gas_limit) \in Nat /\ low_u64(tx.gas_limit) <= tx.gas_limit
<1>1. tx.from \in (Addr \ Contracts) \cup {NoSigner} /\ tx.to \in Addr
  BY PalletAssumption
<1>2. tx.value \in Nat /\ tx.gas_price \in Nat /\ tx.gas_limit \in Nat
  BY PalletAssumption
<1>3. tx.from # NoSigner
  BY DEF validate_unsigned
<1>4. \A x \in Nat : low_u64(x) \in Nat /\ low_u64(x) <= x
  BY RunnerAssumption, Z3 DEF low_u64
<1> QED
  BY <1>1, <1>2, <1>3, <1>4

(* What an extrinsic of each kind does.                                    *)
LEMMA TransactDoes ==
  ASSUME IndInv, NEW tx \in Txs, NEW o, transact(tx, o)
  PROVE  /\ w' = TransactResult(tx, o).w
         /\ TransactResult(tx, o).res = "Ok" =>
              pending' = Append(pending, PendingEntry(tx, TransactResult(tx, o), Len(pending)))
         /\ TransactResult(tx, o).res # "Ok" => pending' = pending
         /\ applied' = Applied("transact", tx, TransactResult(tx, o))
         /\ validate_unsigned(tx) = "Valid"
         /\ UNCHANGED <<phase, number, digest, current, committed, chain>>
  BY DEF transact, transaction_index, TransactResult

LEMMA CallDoes ==
  ASSUME IndInv, NEW c \in Calls, NEW o, call(c, o)
  PROVE  /\ w' = CallResult(c, o).w
         /\ applied' = Applied("call", c, CallResult(c, o))
         /\ UNCHANGED <<phase, number, digest, pending, current, committed, chain>>
  BY DEF call, CallResult

(* The extrinsics are the only steps that lengthen the list of results.    *)
LEMMA StepApplies ==
  ASSUME IndInv, Next, Len(applied') = Len(applied) + 1
  PROVE  \/ \E tx \in Txs : \E o \in Outcomes(tx.to, low_u64(tx.gas_limit)) : transact(tx, o)
         \/ \E c \in Calls : \E o \in Outcomes(c.to, c.gas_limit) : call(c, o)
         \/ \E c \in Withdrawals : withdraw(c)
<1>0. Len(applied) \in Nat
  BY DEF IndInv
<1>1. ASSUME NEW pre \in PreDigests, on_initialize(pre) \/ on_initialize_panics(pre)
      PROVE  FALSE
  <2>1. applied' = <<>>
    BY <1>1 DEF on_initialize, Begin, on_initialize_panics
  <2> QED
    BY <1>0, <2>1
<1>2. ~on_finalize
  BY <1>0 DEF on_finalize
<1>3. ~import_block
  <2>1. import_block => applied' = applied \/ applied' = <<>>
    BY DEF import_block
  <2> QED
    BY <1>0, <2>1
<1> QED
  BY <1>1, <1>2, <1>3 DEF Next

-----------------------------------------------------------------------------
(* The ledger: in every state, and in the parent's state to which a        *)
(* refused block returns, the issuance is the sum of all balances and no   *)
(* more than the genesis issued.                                           *)

Ledger(v) == v.issuance = Total(v.free) /\ v.issuance <= Total(Genesis)

LedgerInv == Ledger(w) /\ Ledger(committed.w)

LEMMA LedgerInitially == Init => LedgerInv
<1> SUFFICES ASSUME Init PROVE LedgerInv
  OBVIOUS
<1>1. w.free = Genesis /\ w.issuance = Total(Genesis) /\ committed.w = w
  BY DEF Init, State
<1>2. Total(Genesis) \in Nat
  BY PalletAssumption, TotalIsASum
<1> QED
  BY <1>1, <1>2 DEF LedgerInv, Ledger

(* An execution and a transfer keep a ledger.                              *)
LEMMA LedgerKept ==
  ASSUME IndInv, LedgerInv, NEW v \in Worlds, v.issuance = Total(v.free),
         v.issuance <= w.issuance
  PROVE  Ledger(v)
<1>1. v.issuance \in Nat /\ w.issuance \in Nat
  BY DEF Worlds, IndInv
<1>2. Total(Genesis) \in Nat /\ w.issuance <= Total(Genesis)
  BY PalletAssumption, TotalIsASum DEF LedgerInv, Ledger
<1> QED
  BY <1>1, <1>2 DEF Ledger

LEMMA LedgerStep == IndInv /\ LedgerInv /\ [Next]_vars => LedgerInv'
<1> SUFFICES ASSUME IndInv, LedgerInv, [Next]_vars PROVE LedgerInv'
  OBVIOUS
<1>0. w \in Worlds /\ w.issuance = Total(w.free) /\ w.issuance <= w.issuance
  BY DEF IndInv, LedgerInv, Ledger, Worlds
<1>1. ASSUME NEW tx \in Txs, NEW o \in Outcomes(tx.to, low_u64(tx.gas_limit)), transact(tx, o)
      PROVE  LedgerInv'
  <2>1. w' = TransactResult(tx, o).w /\ validate_unsigned(tx) = "Valid" /\ committed' = committed
    BY <1>1, TransactDoes
  <2>2. /\ tx.from \in Addr /\ tx.to \in Addr /\ tx.value \in Nat /\ tx.gas_price \in Nat
        /\ low_u64(tx.gas_limit) \in Nat
    BY <2>1, ValidTx
  <2>3. o \in Outcome
    BY <2>2, OutcomesAreOutcomes
  <2> DEFINE due == {tx.nonce}
             x == execute(w, tx.from, tx.to, tx.value, low_u64(tx.gas_limit),
                          tx.gas_price, due, o)
  <2>4. x.w \in Worlds /\ x.w.issuance = Total(x.w.free) /\ x.w.issuance <= w.issuance
    <3> HIDE DEF due
    <3> QED
      BY <1>0, <2>2, <2>3, ExecuteAllOrNothing, ExecuteConserves
  <2>5. TransactResult(tx, o).w = w \/ TransactResult(tx, o).w = x.w
    BY DEF TransactResult, Refused
  <2> HIDE DEF x
  <2>6. w' \in Worlds /\ w'.issuance = Total(w'.free) /\ w'.issuance <= w.issuance
    BY <1>0, <2>1, <2>4, <2>5
  <2>7. Ledger(w')
    BY <2>6, LedgerKept
  <2> QED
    BY <2>1, <2>7 DEF LedgerInv, Ledger
<1>2. ASSUME NEW c \in Calls, NEW o \in Outcomes(c.to, c.gas_limit), call(c, o) PROVE LedgerInv'
  <2>1. w' = CallResult(c, o).w /\ committed' = committed
    BY <1>2, CallDoes
  <2>2. /\ c.from \in Addr /\ c.to \in Addr
        /\ c.value \in Nat /\ c.gas_price \in Nat /\ c.gas_limit \in Nat
    BY PalletAssumption
  <2>3. o \in Outcome
    BY <2>2, OutcomesAreOutcomes
  <2> DEFINE x == execute(w, c.from, c.to, c.value, c.gas_limit, c.gas_price, c.nonce, o)
  <2>4. x.w \in Worlds /\ x.w.issuance = Total(x.w.free) /\ x.w.issuance <= w.issuance
    <3>1. x.w \in Worlds
      BY <1>0, <2>2, <2>3, ExecuteAllOrNothing
    <3>2. x.w.issuance = Total(x.w.free) /\ x.w.issuance <= w.issuance
      BY <1>0, <2>2, <2>3, ExecuteConserves
    <3> QED
      BY <3>1, <3>2
  <2>5. w' = x.w
    BY <2>1 DEF CallResult
  <2> HIDE DEF x
  <2>6. w' \in Worlds /\ w'.issuance = Total(w'.free) /\ w'.issuance <= w.issuance
    BY <2>4, <2>5
  <2>7. Ledger(w')
    BY <2>6, LedgerKept
  <2> QED
    BY <2>1, <2>7 DEF LedgerInv, Ledger
<1>3. ASSUME NEW c \in Withdrawals, withdraw(c) PROVE LedgerInv'
  <2>1. c.from \in Addr /\ c.to \in Addr /\ c.value \in Nat
    BY PalletAssumption
  <2> DEFINE x == Transfer(w, c.from, c.to, c.value).w
             z == 0
  <2>2. w' = x /\ committed' = committed
    BY <1>3 DEF withdraw
  <2>3. Total(w.free) \in Nat
    BY <1>0, TotalIsASum DEF Worlds
  <2>4. z \in Nat /\ Balanced(w, z)
    BY <1>0, <2>3 DEF Balanced
  <2> HIDE DEF z
  <2>5. x \in Worlds /\ Balanced(x, z) /\ x.issuance <= w.issuance
    BY <1>0, <2>1, <2>4, CurrencyType, CurrencyBalance
  <2> HIDE DEF x
  <2>6. x.issuance = Total(x.free)
    <3>1. Total(x.free) \in Nat
      BY <2>5, TotalIsASum DEF Worlds
    <3> QED
      BY <2>5, <3>1 DEF Balanced, z
  <2>7. w' \in Worlds /\ w'.issuance = Total(w'.free) /\ w'.issuance <= w.issuance
    BY <2>2, <2>5, <2>6
  <2>8. Ledger(w')
    BY <2>7, LedgerKept
  <2> QED
    BY <2>2, <2>8 DEF LedgerInv, Ledger
<1>4. CASE import_block
  <2>1. \/ w' = w /\ committed'.w = w
        \/ w' = committed.w /\ committed' = committed
    BY <1>4 DEF import_block, State
  <2> QED
    BY <2>1 DEF LedgerInv, Ledger
<1>5. ASSUME UNCHANGED <<w, committed>> PROVE LedgerInv'
  BY <1>5 DEF LedgerInv, Ledger
<1>6. ASSUME NEW pre \in PreDigests, on_initialize(pre) \/ on_initialize_panics(pre)
      PROVE  LedgerInv'
  BY <1>5, <1>6 DEF on_initialize, Begin, on_initialize_panics
<1>7. CASE on_finalize \/ UNCHANGED vars
  BY <1>5, <1>7 DEF on_finalize, vars
<1> QED
  BY <1>1, <1>2, <1>3, <1>4, <1>6, <1>7 DEF Next

(* The total issuance is the sum of all balances after every extrinsic of  *)
(* every block, for any set of accounts: what withdraw_fee takes is, to    *)
(* the unit, refunded or burned.                                           *)
THEOREM IssuanceIsExact == Spec => []IssuanceExact
<1>1. LedgerInv => IssuanceExact
  BY DEF LedgerInv, Ledger, IssuanceExact
<1> QED
  BY <1>1, Initially, Inductive, LedgerInitially, LedgerStep, PTL DEF Spec

-----------------------------------------------------------------------------
(* What a valid transaction and what a sender may rely on.                 *)

(* validate_unsigned computes with the full gas limit and saturates,       *)
(* execute with the low 64 bits and checks; on a ledger within u128 the    *)
(* sums they compare with the balance do not reach the width at which the  *)
(* two could differ.                                                       *)
LEMMA ValidatedIsAccepted ==
  ASSUME IndInv, LedgerInv, NEW tx \in Txs, NEW o \in Outcomes(tx.to, low_u64(tx.gas_limit)),
         validate_unsigned(tx) = "Valid", tx.nonce = w.nonce[tx.from]
  PROVE  TransactResult(tx, o).res \in {"Ok", "PreLogExists"}
<1>1. /\ tx.from \in Addr /\ tx.to \in Addr
      /\ tx.value \in Nat /\ tx.gas_price \in Nat /\ tx.gas_limit \in Nat
      /\ low_u64(tx.gas_limit) \in Nat /\ low_u64(tx.gas_limit) <= tx.gas_limit
  BY ValidTx
<1>2. o \in Outcome
  BY <1>1, OutcomesAreOutcomes
<1> DEFINE free == w.free[tx.from]
           most == tx.gas_price * tx.gas_limit
           fee  == tx.gas_price * low_u64(tx.gas_limit)
           sat  == saturating_mul(tx.gas_price, tx.gas_limit)
<1>3. w \in Worlds /\ w.free \in [Addr -> Nat] /\ free \in Nat
  BY <1>1 DEF IndInv, Worlds
<1>4. most \in Nat /\ fee \in Nat /\ fee <= most
  BY <1>1, Monotone
<1>5. free < U128
  <2>1. free <= Total(w.free) /\ Total(w.free) \in Nat
    BY <1>1, <1>3, TotalChanges
  <2>2. Total(w.free) <= Total(Genesis) /\ Total(Genesis) < U128
    BY GenesisAssumption DEF LedgerInv, Ledger
  <2>3. Total(Genesis) \in Nat /\ U128 \in Nat
    BY PalletAssumption, TotalIsASum, RunnerAssumption
  <2> QED
    BY <1>3, <2>1, <2>2, <2>3
<1>6. sat = (IF most < U256 THEN most ELSE U256 - 1)
  BY DEF saturating_mul
<1>7. ~(free < saturating_add(tx.value, sat)) /\ ~(tx.gas_price < MinGasPrice)
  BY DEF validate_unsigned
<1> HIDE DEF free, most, fee, sat
<1>8. /\ ~(free < (IF tx.value + sat < U256 THEN tx.value + sat ELSE U256 - 1))
      /\ U128 \in Nat /\ U256 \in Nat /\ U128 < U256 /\ MinGasPrice \in Nat
  BY <1>7, RunnerAssumption DEF saturating_add
<1>9. most < U256 /\ tx.value + most <= free /\ tx.value + most < U256
  BY <1>1, <1>3, <1>4, <1>5, <1>6, <1>8
<1>10. tx.gas_price >= MinGasPrice /\ tx.value + fee < U256 /\ free >= tx.value + fee
  BY <1>1, <1>3, <1>4, <1>7, <1>8, <1>9
<1> DEFINE due == {tx.nonce}
           x   == execute(w, tx.from, tx.to, tx.value, low_u64(tx.gas_limit),
                          tx.gas_price, due, o)
<1>11. \A n \in due : n = w.nonce[tx.from]
  OBVIOUS
<1>12. x.res = "Ok"
  <2>1. /\ tx.value + tx.gas_price * low_u64(tx.gas_limit) < U256
        /\ w.free[tx.from] >= tx.value + tx.gas_price * low_u64(tx.gas_limit)
    BY <1>10 DEF free, fee
  <2>2. w \in Worlds /\ tx.gas_price >= MinGasPrice
    BY <1>3, <1>10
  <2> HIDE DEF due
  <2> QED
    BY <1>1, <1>2, <1>11, <2>1, <2>2, ExecuteAccepts
<1> QED
  BY <1>12 DEF TransactResult, Refused

(* What validate_unsigned lets through with the nonce that is due, do_     *)
(* transact executes, for all widths, limits and prices.                   *)
THEOREM ValidationIsSufficient == Spec => ValidatedExecutes
<1> DEFINE P == (Applies({"transact"})
                   /\ Last(applied').tx.nonce = w.nonce[Last(applied').tx.from])
                  => Last(applied').res \in {"Ok", "PreLogExists"}
<1>1. IndInv /\ LedgerInv /\ [Next]_vars => [P]_vars
  <2> SUFFICES ASSUME IndInv, LedgerInv, Next, Len(applied') = Len(applied) + 1,
                      Last(applied').kind = "transact",
                      Last(applied').tx.nonce = w.nonce[Last(applied').tx.from]
               PROVE  Last(applied').res \in {"Ok", "PreLogExists"}
    BY DEF Applies
  <2>1. ASSUME NEW tx \in Txs, NEW o \in Outcomes(tx.to, low_u64(tx.gas_limit)), transact(tx, o)
        PROVE  Last(applied').res \in {"Ok", "PreLogExists"}
    <3>1. applied' = Applied("transact", tx, TransactResult(tx, o)) /\ validate_unsigned(tx) = "Valid"
      BY <2>1, TransactDoes
    <3>2. Last(applied').tx = tx /\ Last(applied').res = TransactResult(tx, o).res
      BY <3>1, AppliedLast
    <3> QED
      BY <3>1, <3>2, ValidatedIsAccepted
  <2>2. ASSUME NEW c \in Calls, NEW o \in Outcomes(c.to, c.gas_limit), call(c, o) PROVE FALSE
    <3>1. applied' = Applied("call", c, CallResult(c, o))
      BY <2>2, CallDoes
    <3>2. Last(applied').kind = "call"
      BY <3>1, AppliedLast
    <3> QED
      BY <3>2
  <2>3. ASSUME NEW c \in Withdrawals, withdraw(c) PROVE FALSE
    <3>1. PICK r : applied' = Applied("withdraw", c, r)
      BY <2>3, WithdrawEffect
    <3>2. Last(applied').kind = "withdraw"
      BY <3>1, AppliedLast
    <3> QED
      BY <3>2
  <2> QED
    BY <2>1, <2>2, <2>3, StepApplies
<1> QED
  BY <1>1, Initially, Inductive, LedgerInitially, LedgerStep, PTL DEF Spec, ValidatedExecutes

(* The bill of the extrinsic with the entry e, as the two properties of    *)
(* senders state it.                                                       *)
Paid(e) ==
  \/ w'.free[e.tx.from] + Spent(e) >= w.free[e.tx.from]
  \/ /\ w'.free[e.tx.from] = 0
     /\ w.free[e.tx.from] < e.tx.value + e.tx.gas_price * e.tx.gas_limit + ED

Counted(e) ==
  Affords(e) => /\ w'.nonce[e.tx.from] >= w.nonce[e.tx.from]
                /\ e.reason = "Succeed" => w'.nonce[e.tx.from] = w.nonce[e.tx.from] + 1

(* The runner's bill for a fee limit is one for any larger fee limit.      *)
LEMMA BillGrows ==
  ASSUME IndInv, NEW a \in Addr, NEW r, w' = r.w, NEW v \in Nat, NEW k \in Nat, NEW m \in Nat,
         k <= m, SenderPays(w, r, a, v, k), SenderCounts(w, r, a, v, k)
  PROVE  SenderPays(w, r, a, v, m) /\ SenderCounts(w, r, a, v, m)
<1>1. w.free[a] \in Nat /\ ED \in Nat
  BY RunnerAssumption DEF IndInv, Worlds
<1>2. (w.free[a] < v + k + ED => w.free[a] < v + m + ED)
      /\ (w.free[a] >= v + m + ED => w.free[a] >= v + k + ED)
  BY <1>1
<1> QED
  BY <1>2 DEF SenderPays, SenderCounts

(* The entry of an extrinsic that ran carries the runner's bill.           *)
LEMMA EntryBills ==
  ASSUME NEW e, NEW r, w' = r.w, e.fee = r.fee, e.reason = r.reason,
         SenderPays(w, r, e.tx.from, e.tx.value, e.tx.gas_price * e.tx.gas_limit),
         SenderCounts(w, r, e.tx.from, e.tx.value, e.tx.gas_price * e.tx.gas_limit)
  PROVE  Paid(e) /\ Counted(e)
<1>1. Spent(e) = r.fee + IF r.reason = "Succeed" THEN e.tx.value ELSE 0
  BY DEF Spent
<1>2. Paid(e)
  BY <1>1 DEF Paid, SenderPays
<1>3. Counted(e)
  BY DEF Counted, Affords, SenderCounts
<1> QED
  BY <1>2, <1>3

LEMMA SendersAreBilled ==
  ASSUME IndInv, Next, Len(applied') = Len(applied) + 1,
         Last(applied').kind \in {"transact", "call"}, Last(applied').res = "Ok"
  PROVE  Paid(Last(applied')) /\ Counted(Last(applied'))
<1>0. w \in Worlds
  BY DEF IndInv
<1>1. ASSUME NEW tx \in Txs, NEW o \in Outcomes(tx.to, low_u64(tx.gas_limit)), transact(tx, o)
      PROVE  Paid(Last(applied')) /\ Counted(Last(applied'))
  <2> DEFINE r == TransactResult(tx, o)
             g == low_u64(tx.gas_limit)
             e == Last(applied')
  <2>1. /\ w' = r.w /\ applied' = Applied("transact", tx, r)
        /\ validate_unsigned(tx) = "Valid"
    BY <1>1, TransactDoes
  <2>2. e.tx = tx /\ e.res = r.res /\ e.fee = r.fee /\ e.reason = r.reason
    BY <2>1, AppliedLast
  <2>3. /\ tx.from \in Addr \ Contracts /\ tx.to \in Addr
        /\ tx.value \in Nat /\ tx.gas_price \in Nat /\ tx.gas_limit \in Nat
        /\ g \in Nat /\ g <= tx.gas_limit
    BY <2>1, ValidTx
  <2> DEFINE due == {tx.nonce}
             x == execute(w, tx.from, tx.to, tx.value, g, tx.gas_price, due, o)
  <2>4. r = x
    BY <2>2 DEF TransactResult, Refused
  <2>5. x.res = "Ok" => /\ SenderPays(w, x, tx.from, tx.value, tx.gas_price * g)
                       /\ SenderCounts(w, x, tx.from, tx.value, tx.gas_price * g)
    <3> HIDE DEF due, r, e
    <3> QED
      BY <1>0, <2>3, ExecuteBillsSender
  <2>6. r.res = "Ok"
    BY <2>2
  <2> HIDE DEF x, r, e
  <2>7. /\ SenderPays(w, r, tx.from, tx.value, tx.gas_price * g)
        /\ SenderCounts(w, r, tx.from, tx.value, tx.gas_price * g)
    BY <2>4, <2>5, <2>6
  <2>8. /\ tx.gas_price * g \in Nat /\ tx.gas_price * tx.gas_limit \in Nat
        /\ tx.gas_price * g <= tx.gas_price * tx.gas_limit
    <3> HIDE DEF g
    <3> QED
      BY <2>3, Monotone
  <2>9. /\ SenderPays(w, r, tx.from, tx.value, tx.gas_price * tx.gas_limit)
        /\ SenderCounts(w, r, tx.from, tx.value, tx.gas_price * tx.gas_limit)
    <3> DEFINE k == tx.gas_price * g
               m == tx.gas_price * tx.gas_limit
    <3>1. k \in Nat /\ m \in Nat /\ k <= m
      BY <2>8
    <3>2. SenderPays(w, r, tx.from, tx.value, k) /\ SenderCounts(w, r, tx.from, tx.value, k)
      BY <2>7
    <3> HIDE DEF k, m
    <3>3. SenderPays(w, r, tx.from, tx.value, m) /\ SenderCounts(w, r, tx.from, tx.value, m)
      BY <2>1, <2>3, <3>1, <3>2, BillGrows
    <3> QED
      BY <3>3 DEF m
  <2>10. Paid(e) /\ Counted(e)
    BY <2>1, <2>2, <2>9, EntryBills
  <2> QED
    BY <2>10 DEF e
<1>2. ASSUME NEW c \in Calls, NEW o \in Outcomes(c.to, c.gas_limit), call(c, o)
      PROVE  Paid(Last(applied')) /\ Counted(Last(applied'))
  <2> DEFINE r == CallResult(c, o)
             e == Last(applied')
  <2>1. w' = r.w /\ applied' = Applied("call", c, r)
    BY <1>2, CallDoes
  <2>2. e.tx = c /\ e.res = r.res /\ e.fee = r.fee /\ e.reason = r.reason
    BY <2>1, AppliedLast
  <2>3. /\ c.from \in Addr \ Contracts /\ c.to \in Addr
        /\ c.value \in Nat /\ c.gas_price \in Nat /\ c.gas_limit \in Nat
    BY PalletAssumption
  <2>4. r.res = "Ok" => /\ SenderPays(w, r, c.from, c.value, c.gas_price * c.gas_limit)
                       /\ SenderCounts(w, r, c.from, c.value, c.gas_price * c.gas_limit)
    <3> HIDE DEF e
    <3> QED
      BY <1>0, <2>3, ExecuteBillsSender DEF CallResult
  <2>5. r.res = "Ok"
    BY <2>2
  <2> HIDE DEF r, e
  <2>6. Paid(e) /\ Counted(e)
    BY <2>1, <2>2, <2>4, <2>5, EntryBills
  <2> QED
    BY <2>6 DEF e
<1>3. ASSUME NEW c \in Withdrawals, withdraw(c) PROVE FALSE
  <2>1. PICK r : applied' = Applied("withdraw", c, r)
    BY <1>3, WithdrawEffect
  <2>2. Last(applied').kind = "withdraw"
    BY <2>1, AppliedLast
  <2> QED
    BY <2>2
<1> QED
  BY <1>1, <1>2, <1>3, StepApplies

(* A sender that still has a balance paid no more than the gas used and,   *)
(* if the call succeeded, the value; one that was reaped lost less than    *)
(* the existential deposit on top of the fee limit and the value.          *)
THEOREM SurvivorsPayActual == Spec => SurvivorPaysActual
<1> DEFINE P == (Applies({"transact", "call"}) /\ Last(applied').res = "Ok") =>
                  \E e \in {Last(applied')} :
                    \/ w'.free[e.tx.from] + Spent(e) >= w.free[e.tx.from]
                    \/ /\ w'.free[e.tx.from] = 0
                       /\ w.free[e.tx.from] < e.tx.value + e.tx.gas_price * e.tx.gas_limit + ED
<1>1. IndInv /\ [Next]_vars => [P]_vars
  <2> SUFFICES ASSUME IndInv, Next, Applies({"transact", "call"}), Last(applied').res = "Ok"
               PROVE  Paid(Last(applied'))
    BY DEF Paid
  <2> QED
    BY SendersAreBilled DEF Applies
<1> QED
  BY <1>1, Initially, Inductive, PTL DEF Spec, SurvivorPaysActual

(* A sender that keeps the existential deposit on top of all it may owe    *)
(* keeps its nonce, and a call that succeeds raises it by exactly one.     *)
THEOREM NoncesAdvance == Spec => NonceAdvances
<1> DEFINE P == (Applies({"transact", "call"}) /\ Last(applied').res = "Ok") =>
                  \E e \in {Last(applied')} : Affords(e) =>
                    /\ w'.nonce[e.tx.from] >= w.nonce[e.tx.from]
                    /\ e.reason = "Succeed" => w'.nonce[e.tx.from] = w.nonce[e.tx.from] + 1
<1>1. IndInv /\ [Next]_vars => [P]_vars
  <2> SUFFICES ASSUME IndInv, Next, Applies({"transact", "call"}), Last(applied').res = "Ok"
               PROVE  Counted(Last(applied'))
    BY DEF Counted
  <2> QED
    BY SendersAreBilled DEF Applies
<1> QED
  BY <1>1, Initially, Inductive, PTL DEF Spec, NonceAdvances

-----------------------------------------------------------------------------
(* Pending while a block is built: entry by entry what the transact calls  *)
(* that returned Ok left, in their order.                                  *)

Records(entry, i, e) ==
  /\ entry.transaction = e.tx
  /\ entry.status.transaction_hash = Keccak(e.tx)
  /\ entry.status.transaction_index = i - 1
  /\ entry.receipt.succeeded = (e.reason = "Succeed")

Recorded(pos) ==
  /\ pos \in [DOMAIN pending -> DOMAIN applied]
  /\ Lists(pos)
  /\ \A i \in DOMAIN pos : Records(pending[i], i, applied[pos[i]])

RanInv ==
  /\ phase \in {"building", "sealed"} => \E pos : Recorded(pos)
  /\ phase = "sealed" =>
       /\ current.block.transactions = [i \in DOMAIN pending |-> pending[i].transaction]
       /\ current.statuses = [i \in DOMAIN pending |-> pending[i].status]
       /\ current.receipts = [i \in DOMAIN pending |-> pending[i].receipt]

(* A result that adds nothing to Pending leaves the list as it is.         *)
LEMMA RecordedStays ==
  ASSUME IndInv, NEW pos, Recorded(pos), pending' = pending,
         NEW kind, NEW tx, NEW r, applied' = Applied(kind, tx, r),
         kind # "transact" \/ r.res # "Ok"
  PROVE  Recorded(pos)'
<1> DEFINE n == Len(applied)
<1>1. n \in Nat /\ DOMAIN applied = 1 .. n
  BY DEF IndInv
<1>2. /\ DOMAIN applied' = 1 .. n + 1 /\ \A i \in 1 .. n : applied'[i] = applied[i]
      /\ applied'[n + 1].kind = kind /\ applied'[n + 1].res = r.res
  BY <1>1, AppliedLast
<1>3. /\ pos \in [DOMAIN pending -> 1 .. n]
      /\ \A i, j \in DOMAIN pos : i < j => pos[i] < pos[j]
      /\ \A k \in 1 .. n : (applied[k].kind = "transact" /\ applied[k].res = "Ok")
                              <=> \E i \in DOMAIN pos : pos[i] = k
      /\ \A i \in DOMAIN pos : Records(pending[i], i, applied[pos[i]])
  BY <1>1 DEF Recorded, Lists
<1> HIDE DEF n
<1>4. pos \in [DOMAIN pending' -> DOMAIN applied']
  BY <1>1, <1>2, <1>3
<1>5. \A k \in DOMAIN applied' : (applied'[k].kind = "transact" /\ applied'[k].res = "Ok")
                                    <=> \E i \in DOMAIN pos : pos[i] = k
  <2> TAKE k \in DOMAIN applied'
  <2>1. CASE k \in 1 .. n
    BY <2>1, <1>2, <1>3
  <2>2. CASE k = n + 1
    <3>1. \A i \in DOMAIN pos : pos[i] # n + 1
      BY <1>1, <1>3
    <3> QED
      BY <2>2, <3>1, <1>2
  <2> QED
    BY <1>1, <1>2, <2>1, <2>2
<1>6. Lists(pos)'
  BY <1>3, <1>5 DEF Lists
<1>7. \A i \in DOMAIN pos : Records(pending'[i], i, applied'[pos[i]])
  <2> TAKE i \in DOMAIN pos
  <2>1. pos[i] \in 1 .. n
    BY <1>3
  <2>2. applied'[pos[i]] = applied[pos[i]]
    BY <1>2, <2>1
  <2> QED
    BY <1>3, <2>2
<1> QED
  BY <1>4, <1>6, <1>7 DEF Recorded, Records

(* A transact call that returns Ok is recorded by the entry it appends.    *)
LEMMA RecordedGrows ==
  ASSUME IndInv, NEW pos, Recorded(pos), NEW tx, NEW r, r.res = "Ok",
         applied' = Applied("transact", tx, r),
         pending' = Append(pending, PendingEntry(tx, r, Len(pending)))
  PROVE  \E q : Recorded(q)'
<1> DEFINE n == Len(applied)
           m == Len(pending)
           entry == PendingEntry(tx, r, m)
           f == [i \in 1 .. m + 1 |-> IF i = m + 1 THEN n + 1 ELSE pos[i]]
<1>1. n \in Nat /\ DOMAIN applied = 1 .. n /\ m \in Nat /\ DOMAIN pending = 1 .. m
  BY DEF IndInv
<1>2. /\ DOMAIN applied' = 1 .. n + 1 /\ \A i \in 1 .. n : applied'[i] = applied[i]
      /\ applied'[n + 1].kind = "transact" /\ applied'[n + 1].res = r.res
      /\ applied'[n + 1].tx = tx /\ applied'[n + 1].reason = r.reason
  BY <1>1, AppliedLast
<1>3. /\ pos \in [1 .. m -> 1 .. n]
      /\ \A i, j \in 1 .. m : i < j => pos[i] < pos[j]
      /\ \A k \in 1 .. n : (applied[k].kind = "transact" /\ applied[k].res = "Ok")
                              <=> \E i \in 1 .. m : pos[i] = k
      /\ \A i \in 1 .. m : Records(pending[i], i, applied[pos[i]])
  BY <1>1 DEF Recorded, Lists
<1>4. Records(entry, m + 1, applied'[n + 1])
  <2>1. (m + 1) - 1 = m
    BY <1>1
  <2> QED
    BY <1>2, <2>1 DEF Records, PendingEntry
<1> HIDE DEF entry
<1>5. pending' = Append(pending, entry) /\ pending \in Seq(PendingEntries)
  BY DEF entry, IndInv
<1>6. /\ DOMAIN pending' = 1 .. m + 1 /\ \A i \in 1 .. m : pending'[i] = pending[i]
      /\ pending'[m + 1] = entry
  BY <1>1, <1>5
<1> HIDE DEF n, m
<1>7a. /\ f \in [1 .. m + 1 -> 1 .. n + 1] /\ DOMAIN f = 1 .. m + 1 /\ f[m + 1] = n + 1
       /\ \A i \in 1 .. m : f[i] = pos[i] /\ f[i] \in 1 .. n
  <2>1. \A i \in 1 .. m : pos[i] \in 1 .. n /\ i # m + 1 /\ i \in 1 .. m + 1
    BY <1>1, <1>3
  <2>2. \A i \in 1 .. m + 1 : i \in 1 .. m \/ i = m + 1
    BY <1>1
  <2>3. m + 1 \in 1 .. m + 1 /\ n + 1 \in 1 .. n + 1 /\ 1 .. n \subseteq 1 .. n + 1
    BY <1>1
  <2> QED
    BY <2>1, <2>2, <2>3
<1> HIDE DEF f
<1>7. PICK q : /\ q \in [1 .. m + 1 -> 1 .. n + 1] /\ DOMAIN q = 1 .. m + 1 /\ q[m + 1] = n + 1
               /\ \A i \in 1 .. m : q[i] = pos[i] /\ q[i] \in 1 .. n
  BY <1>7a
<1>8. \A i, j \in DOMAIN q : i < j => q[i] < q[j]
  <2> SUFFICES ASSUME NEW i \in 1 .. m + 1, NEW j \in 1 .. m + 1, i < j PROVE q[i] < q[j]
    BY <1>7
  <2>1. i \in 1 .. m
    BY <1>1
  <2>2. CASE j \in 1 .. m
    BY <1>3, <1>7, <2>1, <2>2
  <2>3. CASE j = m + 1
    <3>1. q[i] \in 1 .. n /\ q[j] = n + 1
      BY <1>7, <2>1, <2>3
    <3> QED
      BY <1>1, <3>1
  <2> QED
    BY <1>1, <2>2, <2>3
<1>9. \A k \in DOMAIN applied' : (applied'[k].kind = "transact" /\ applied'[k].res = "Ok")
                                    <=> \E i \in DOMAIN q : q[i] = k
  <2> TAKE k \in DOMAIN applied'
  <2>1. CASE k = n + 1
    BY <1>1, <1>2, <1>7, <2>1
  <2>2. CASE k \in 1 .. n
    <3>1. k # n + 1
      BY <1>1, <2>2
    <3>2. (\E i \in 1 .. m + 1 : q[i] = k) <=> \E i \in 1 .. m : pos[i] = k
      <4>1. \A i \in 1 .. m : i \in 1 .. m + 1
        BY <1>1
      <4>2. \A i \in 1 .. m + 1 : i \in 1 .. m \/ i = m + 1
        BY <1>1
      <4> QED
        BY <1>7, <3>1, <4>1, <4>2
    <3> QED
      BY <1>2, <1>3, <1>7, <2>2, <3>2
  <2> QED
    BY <1>1, <1>2, <2>1, <2>2
<1>10. Lists(q)'
  BY <1>8, <1>9 DEF Lists
<1>11. \A i \in DOMAIN q : Records(pending'[i], i, applied'[q[i]])
  <2> TAKE i \in DOMAIN q
  <2>1. CASE i = m + 1
    BY <1>4, <1>6, <1>7, <2>1
  <2>2. CASE i \in 1 .. m
    <3>1. q[i] = pos[i] /\ pos[i] \in 1 .. n
      BY <1>7, <2>2
    <3>2. applied'[q[i]] = applied[pos[i]] /\ pending'[i] = pending[i]
      BY <1>2, <1>6, <2>2, <3>1
    <3> QED
      BY <1>3, <2>2, <3>2
  <2>3. i \in 1 .. m \/ i = m + 1
    BY <1>1, <1>7
  <2> QED
    BY <2>1, <2>2, <2>3
<1>12. q \in [DOMAIN pending' -> DOMAIN applied']
  BY <1>2, <1>6, <1>7
<1>13. Recorded(q)'
  BY <1>10, <1>11, <1>12 DEF Recorded, Records
<1> QED
  BY <1>13

LEMMA RanInitially == Init => RanInv
  BY DEF Init, RanInv

LEMMA RanStep == IndInv /\ RanInv /\ [Next]_vars => RanInv'
<1> SUFFICES ASSUME IndInv, RanInv, [Next]_vars PROVE RanInv'
  OBVIOUS
<1>1. CASE UNCHANGED vars
  BY <1>1 DEF RanInv, Recorded, Lists, vars
<1>2. ASSUME NEW pre \in PreDigests, on_initialize(pre) PROVE RanInv'
  <2>1. pending' = <<>> /\ applied' = <<>> /\ phase' = "building"
    BY <1>2 DEF on_initialize, Begin
  <2>2. PICK p : p = [i \in {} |-> 0]
    OBVIOUS
  <2>3. Lists(p)'
    BY <2>1, <2>2 DEF Lists
  <2>4. p \in [DOMAIN pending' -> DOMAIN applied'] /\ DOMAIN p = {}
    BY <2>1, <2>2
  <2>5. Recorded(p)'
    BY <2>3, <2>4 DEF Recorded
  <2> QED
    BY <2>1, <2>5 DEF RanInv
<1>3. ASSUME NEW pre \in PreDigests, on_initialize_panics(pre) PROVE RanInv'
  BY <1>3 DEF RanInv, on_initialize_panics
<1>4. ASSUME NEW tx \in Txs, NEW o \in Outcomes(tx.to, low_u64(tx.gas_limit)), transact(tx, o)
      PROVE RanInv'
  <2>1. phase = "building" /\ phase' = "building"
    BY <1>4 DEF transact, Room
  <2>2. PICK pos : Recorded(pos)
    BY <2>1 DEF RanInv
  <2>3. PICK r : /\ applied' = Applied("transact", tx, r)
                 /\ pending' = IF r.res = "Ok"
                                 THEN Append(pending, PendingEntry(tx, r, transaction_index))
                                 ELSE pending
    BY <1>4 DEF transact
  <2>4. CASE r.res = "Ok"
    <3>1. pending' = Append(pending, PendingEntry(tx, r, Len(pending)))
      BY <2>3, <2>4 DEF transaction_index
    <3>2. \E q : Recorded(q)'
      BY <2>2, <2>3, <2>4, <3>1, RecordedGrows
    <3> QED
      BY <2>1, <3>2 DEF RanInv
  <2>5. CASE r.res # "Ok"
    <3>1. pending' = pending
      BY <2>3, <2>5
    <3>2. Recorded(pos)'
      BY <2>2, <2>3, <2>5, <3>1, RecordedStays
    <3> QED
      BY <2>1, <3>2 DEF RanInv
  <2> QED
    BY <2>4, <2>5
<1>5. ASSUME NEW c \in Calls, NEW o \in Outcomes(c.to, c.gas_limit), call(c, o) PROVE RanInv'
  <2>1. phase = "building" /\ phase' = "building" /\ pending' = pending
    BY <1>5 DEF call, Room
  <2>2. PICK pos : Recorded(pos)
    BY <2>1 DEF RanInv
  <2>3. PICK r : applied' = Applied("call", c, r)
    BY <1>5 DEF call
  <2>4. Recorded(pos)'
    BY <2>1, <2>2, <2>3, RecordedStays
  <2> QED
    BY <2>1, <2>4 DEF RanInv
<1>6. ASSUME NEW c \in Withdrawals, withdraw(c) PROVE RanInv'
  <2>1. phase = "building" /\ phase' = "building" /\ pending' = pending
    BY <1>6 DEF withdraw, Room
  <2>2. PICK pos : Recorded(pos)
    BY <2>1 DEF RanInv
  <2>3. PICK r : applied' = Applied("withdraw", c, r)
    BY <1>6 DEF withdraw
  <2>4. Recorded(pos)'
    BY <2>1, <2>2, <2>3, RecordedStays
  <2> QED
    BY <2>1, <2>4 DEF RanInv
<1>7. CASE on_finalize
  <2>1. /\ phase = "building" /\ phase' = "sealed" /\ pending' = pending /\ applied' = applied
        /\ current' = Stored(current_block_hash, number, pending)
    BY <1>7 DEF on_finalize
  <2>2. PICK pos : Recorded(pos)
    BY <2>1 DEF RanInv
  <2>3. Recorded(pos)'
    BY <2>1, <2>2 DEF Recorded, Lists
  <2>4. /\ current'.block.transactions = [i \in DOMAIN pending' |-> pending'[i].transaction]
        /\ current'.statuses = [i \in DOMAIN pending' |-> pending'[i].status]
        /\ current'.receipts = [i \in DOMAIN pending' |-> pending'[i].receipt]
    BY <2>1 DEF Stored
  <2> QED
    BY <2>3, <2>4 DEF RanInv
<1>8. CASE import_block
  BY <1>8 DEF RanInv, import_block
<1> QED
  BY <1>1, <1>2, <1>3, <1>4, <1>5, <1>6, <1>7, <1>8 DEF Next

(* The stored block is the block that was executed: its transactions are   *)
(* those of this block's transact calls that returned Ok, in order, each   *)
(* with the status and receipt of its own execution at its own index.      *)
THEOREM BlocksAreWhatRan == Spec => []BlockIsWhatRan
<1>1. IndInv /\ RanInv => BlockIsWhatRan
  <2> SUFFICES ASSUME RanInv, phase = "sealed" PROVE BlockIsWhatRan
    BY DEF BlockIsWhatRan
  <2>1. PICK pos : Recorded(pos)
    BY DEF RanInv
  <2>2. /\ current.block.transactions = [i \in DOMAIN pending |-> pending[i].transaction]
        /\ current.statuses = [i \in DOMAIN pending |-> pending[i].status]
        /\ current.receipts = [i \in DOMAIN pending |-> pending[i].receipt]
    BY DEF RanInv
  <2>3. DOMAIN current.block.transactions = DOMAIN pending
    BY <2>2
  <2>4. /\ pos \in [DOMAIN current.block.transactions -> DOMAIN applied] /\ Lists(pos)
        /\ DOMAIN pos = DOMAIN pending
    BY <2>1, <2>3 DEF Recorded
  <2>5. \A i \in DOMAIN pos :
          /\ current.block.transactions[i] = applied[pos[i]].tx
          /\ current.statuses[i].transaction_hash = Keccak(applied[pos[i]].tx)
          /\ current.statuses[i].transaction_index = i - 1
          /\ current.receipts[i].succeeded = (applied[pos[i]].reason = "Succeed")
    <3> TAKE i \in DOMAIN pos
    <3>1. Records(pending[i], i, applied[pos[i]])
      BY <2>1 DEF Recorded
    <3>2. /\ current.block.transactions[i] = pending[i].transaction
          /\ current.statuses[i] = pending[i].status
          /\ current.receipts[i] = pending[i].receipt
      BY <2>2, <2>4
    <3> QED
      BY <3>1, <3>2 DEF Records
  <2> QED
    BY <2>4, <2>5 DEF BlockIsWhatRan
<1> QED
  BY <1>1, Initially, Inductive, RanInitially, RanStep, PTL DEF Spec

-----------------------------------------------------------------------------
(* A digest without a pre log: what on_finalize makes of it.               *)
LEMMA NoPreLog ==
  ASSUME NEW X, NEW d \in Seq(X), PreLogsOf(d) = {}
  PROVE  ~PreLogIn(d)
<1>1. find_pre_log(d) = NotFound
  BY PreSearches DEF Searched
<1> QED
  BY <1>1, ResultsDiffer DEF PreLogIn

(* d is what on_finalize leaves for the stored block.                      *)
SealedBy(d, block) ==
  \E pre \in PreDigests : d = IF PreLogIn(pre) THEN pre ELSE Append(pre, PostHashesLog(block))

(* The one log of a digest that was sealed without a pre log is the post   *)
(* log of the stored block.                                                *)
LEMMA SealedSearch ==
  ASSUME NEW d, NEW block, SealedBy(d, block), PreLogsOf(d) = {}
  PROVE  ensure_log(d) = "Ok" /\ find_log(d) = Found(PostHashesLog(block))
<1>1. PICK pre \in PreDigests :
        d = IF PreLogIn(pre) THEN pre ELSE Append(pre, PostHashesLog(block))
  BY DEF SealedBy
<1>2. PICK X : pre \in Seq(X) /\ \A i \in DOMAIN pre : ~IsPostLog(pre[i])
  BY DigestAssumption
<1>3. PICK n \in Nat : n = Len(pre) /\ DOMAIN pre = 1 .. n
  BY <1>2
<1>4. PICK post : post = PostHashesLog(block)
  OBVIOUS
<1>5. IsPostLog(post) /\ ~IsPreLog(post)
  BY <1>4 DEF PostHashesLog, IsPostLog, IsPreLog
<1>6. PreLogsOf(pre) = {}
  <2>1. CASE PreLogIn(pre)
    BY <1>1, <2>1
  <2>2. CASE ~PreLogIn(pre)
    <3>1. d = Append(pre, post)
      BY <1>1, <1>4, <2>2
    <3>2. \A i \in 1 .. n : i \in DOMAIN d /\ d[i] = pre[i]
      BY <1>2, <1>3, <3>1
    <3> QED
      BY <1>3, <3>2 DEF PreLogsOf
  <2> QED
    BY <2>1, <2>2
<1>7. d = Append(pre, post)
  BY <1>1, <1>2, <1>4, <1>6, NoPreLog
<1>8. d \in Seq(X \cup {post})
  <2>1. pre \in Seq(X \cup {post})
    BY <1>2
  <2> QED
    BY <1>7, <2>1
<1>9. /\ DOMAIN d = 1 .. n + 1 /\ d[n + 1] = post
      /\ \A i \in 1 .. n : d[i] = pre[i]
  BY <1>2, <1>3, <1>7
<1>10. LogsOf(d) = {n + 1}
  <2>1. n + 1 \in 1 .. n + 1 /\ \A i \in 1 .. n + 1 : i = n + 1 \/ i \in 1 .. n
    OBVIOUS
  <2>2. \A i \in 1 .. n : ~IsPreLog(d[i]) /\ ~IsPostLog(d[i])
    BY <1>2, <1>3, <1>6, <1>9 DEF PreLogsOf
  <2> QED
    BY <1>5, <1>9, <2>1, <2>2 DEF LogsOf, PreLogsOf, PostLogsOf
<1>11. n + 1 \in DOMAIN d
  BY <1>9
<1> QED
  BY <1>4, <1>8, <1>9, <1>10, <1>11, EnsureAgreesWithFindLog

-----------------------------------------------------------------------------
(* The chain of stored blocks: what is imported was sealed by on_finalize, *)
(* and the parent's state holds the block that was imported last.          *)

Linked(b, i) ==
  /\ SealedBy(b.digest, b.block)
  /\ b.block.header.number = i
  /\ i > 1 => b.block.header.parent_hash = Keccak(chain[i - 1].block.header)

ChainInv ==
  /\ \E X : chain \in Seq(X)
  /\ committed.number = Len(chain)
  /\ Len(chain) > 0 => chain[Len(chain)].block = committed.current.block
  /\ \A i \in DOMAIN chain : Linked(chain[i], i)

BuildInv ==
  /\ phase = "idle" => number = committed.number /\ current = committed.current
  /\ phase = "building" => /\ number = committed.number + 1 /\ current = committed.current
                           /\ digest \in PreDigests
  /\ phase = "sealed" =>
       /\ number = committed.number + 1
       /\ current.block.header.number = number
       /\ current.block.header.parent_hash = Keccak(committed.current.block.header)
       /\ SealedBy(digest, current.block)

LEMMA LinkInitially == Init => ChainInv /\ BuildInv
<1> SUFFICES ASSUME Init PROVE ChainInv /\ BuildInv
  OBVIOUS
<1>1. committed.number = 0 /\ number = 0 /\ committed.current = current
  BY DEF Init, State
<1>2. chain = <<>> /\ phase = "idle"
  BY DEF Init
<1>3. chain \in Seq({}) /\ Len(chain) = 0 /\ DOMAIN chain = {}
  BY <1>2
<1> QED
  BY <1>1, <1>2, <1>3 DEF ChainInv, BuildInv

LEMMA BuildStep == IndInv /\ BuildInv /\ [Next]_vars => BuildInv'
<1> SUFFICES ASSUME IndInv, BuildInv, [Next]_vars PROVE BuildInv'
  OBVIOUS
<1>1. CASE UNCHANGED <<phase, number, digest, current, committed>>
  BY <1>1 DEF BuildInv, SealedBy
<1>2. ASSUME NEW pre \in PreDigests, on_initialize(pre) PROVE BuildInv'
  BY <1>2 DEF BuildInv, on_initialize, Begin
<1>3. ASSUME NEW pre \in PreDigests, on_initialize_panics(pre) PROVE BuildInv'
  BY <1>1, <1>3 DEF on_initialize_panics
<1>4. ASSUME NEW tx \in Txs, NEW o, transact(tx, o) PROVE BuildInv'
  BY <1>1, <1>4 DEF transact
<1>5. ASSUME NEW c \in Calls, NEW o, call(c, o) PROVE BuildInv'
  BY <1>1, <1>5 DEF call
<1>6. ASSUME NEW c \in Withdrawals, withdraw(c) PROVE BuildInv'
  BY <1>1, <1>6 DEF withdraw
<1>7. CASE on_finalize
  <2>1. /\ phase = "building" /\ phase' = "sealed" /\ number' = number
        /\ committed' = committed /\ current' = Stored(current_block_hash, number, pending)
        /\ digest' = IF PreLogIn(digest) THEN digest
                     ELSE Append(digest, PostHashesLog(current'.block))
    BY <1>7 DEF on_finalize, WithPostLog
  <2>2. number = committed.number + 1 /\ current = committed.current /\ digest \in PreDigests
    BY <2>1 DEF BuildInv
  <2>3. /\ current'.block.header.number = number
        /\ current'.block.header.parent_hash = Keccak(committed.current.block.header)
    BY <2>1, <2>2 DEF Stored, current_block_hash
  <2>4. SealedBy(digest, current.block)'
    BY <2>1, <2>2 DEF SealedBy
  <2> QED
    BY <2>1, <2>2, <2>3, <2>4 DEF BuildInv
<1>8. CASE import_block
  <2>1. phase' = "idle"
    BY <1>8 DEF import_block
  <2>2. CASE ensure_log(digest) = "Ok"
    BY <1>8, <2>1, <2>2 DEF import_block, BuildInv, State
  <2>3. CASE ensure_log(digest) # "Ok"
    BY <1>8, <2>1, <2>3 DEF import_block, BuildInv
  <2> QED
    BY <2>2, <2>3
<1>9. CASE UNCHANGED vars
  BY <1>1, <1>9 DEF vars
<1> QED
  BY <1>2, <1>3, <1>4, <1>5, <1>6, <1>7, <1>8, <1>9 DEF Next

LEMMA ChainStep == IndInv /\ BuildInv /\ ChainInv /\ [Next]_vars => ChainInv'
<1> SUFFICES ASSUME IndInv, BuildInv, ChainInv, [Next]_vars PROVE ChainInv'
  OBVIOUS
<1>1. CASE UNCHANGED <<chain, committed>>
  BY <1>1 DEF ChainInv, Linked, SealedBy
<1>2. CASE import_block /\ ensure_log(digest) = "Ok"
  <2>1. PICK X : chain \in Seq(X)
    BY DEF ChainInv
  <2>2. PICK n \in Nat : n = Len(chain) /\ DOMAIN chain = 1 .. n
    BY <2>1
  <2>3. PICK b : b = [digest |-> digest, block |-> current.block]
    OBVIOUS
  <2>4. /\ phase = "sealed" /\ chain' = Append(chain, b)
        /\ committed'.number = number /\ committed'.current = current
    BY <1>2, <2>3 DEF import_block, State
  <2>5. chain' \in Seq(X \cup {b})
    <3>1. chain \in Seq(X \cup {b})
      BY <2>1
    <3> QED
      BY <2>4, <3>1
  <2>6. /\ Len(chain') = n + 1 /\ DOMAIN chain' = 1 .. n + 1 /\ chain'[n + 1] = b
        /\ \A i \in 1 .. n : chain'[i] = chain[i]
    BY <2>1, <2>2, <2>4
  <2>7. /\ number = n + 1 /\ b.block = current.block /\ b.digest = digest
        /\ b.block.header.number = n + 1 /\ SealedBy(digest, current.block)
        /\ b.block.header.parent_hash = Keccak(committed.current.block.header)
    BY <2>2, <2>3, <2>4 DEF BuildInv, ChainInv
  <2>8. n > 0 => chain[n].block = committed.current.block
    BY <2>2 DEF ChainInv
  <2>9. ASSUME NEW i \in 1 .. n + 1
        PROVE  /\ SealedBy(chain'[i].digest, chain'[i].block)
               /\ chain'[i].block.header.number = i
               /\ i > 1 => chain'[i].block.header.parent_hash = Keccak(chain'[i - 1].block.header)
    <3>1. CASE i \in 1 .. n
      <4>1. Linked(chain[i], i) /\ chain'[i] = chain[i]
        BY <2>2, <2>6, <3>1 DEF ChainInv
      <4>2. i > 1 => i - 1 \in 1 .. n
        BY <3>1
      <4>3. i > 1 => chain'[i - 1] = chain[i - 1]
        BY <2>6, <4>2
      <4> QED
        BY <4>1, <4>3 DEF Linked
    <3>2. CASE i = n + 1
      <4>1. i > 1 => n > 0 /\ i - 1 = n /\ n \in 1 .. n
        BY <3>2
      <4>2. i > 1 => chain'[i - 1].block = committed.current.block
        BY <2>6, <2>8, <4>1
      <4> QED
        BY <2>6, <2>7, <3>2, <4>2
    <3> QED
      BY <3>1, <3>2
  <2>10. \A i \in DOMAIN chain' : Linked(chain[i], i)'
    BY <2>6, <2>9 DEF Linked, SealedBy
  <2>11. committed'.number = Len(chain') /\ chain'[Len(chain')].block = committed'.current.block
    BY <2>4, <2>6, <2>7
  <2> QED
    BY <2>5, <2>10, <2>11 DEF ChainInv
<1>3. CASE import_block /\ ensure_log(digest) # "Ok"
  BY <1>1, <1>3 DEF import_block
<1>4. ASSUME NEW pre \in PreDigests, on_initialize(pre) \/ on_initialize_panics(pre)
      PROVE  ChainInv'
  BY <1>1, <1>4 DEF on_initialize, Begin, on_initialize_panics
<1>5. ASSUME NEW tx \in Txs, NEW o, transact(tx, o) PROVE ChainInv'
  BY <1>1, <1>5 DEF transact
<1>6. ASSUME NEW c \in Calls, NEW o, call(c, o) PROVE ChainInv'
  BY <1>1, <1>6 DEF call
<1>7. ASSUME NEW c \in Withdrawals, withdraw(c) PROVE ChainInv'
  BY <1>1, <1>7 DEF withdraw
<1>8. CASE on_finalize
  BY <1>1, <1>8 DEF on_finalize
<1>9. CASE UNCHANGED vars
  BY <1>1, <1>9 DEF vars
<1> QED
  BY <1>2, <1>3, <1>4, <1>5, <1>6, <1>7, <1>8, <1>9 DEF Next

(* A block whose author put no pre log into its digest passes the import   *)
(* check: on_finalize and ensure_log agree on what "one log" means.        *)
THEOREM BuiltBlocksAreImportable == Spec => []BuiltBlockImportable
<1>1. BuildInv => BuiltBlockImportable
  BY SealedSearch DEF BuildInv, BuiltBlockImportable
<1>2. Init => BuildInv
  BY LinkInitially
<1> QED
  BY <1>1, <1>2, Initially, Inductive, BuildStep, PTL DEF Spec

(* An imported chain can be indexed and served: the hashes read from a     *)
(* block without a pre log are those of the stored block, and the stored   *)
(* blocks are linked by number and parent hash.                            *)
THEOREM ImportedChainsAreSound == Spec => []ImportedChainSound
<1>1. ChainInv => ImportedChainSound
  <2> SUFFICES ASSUME ChainInv, NEW i \in DOMAIN chain
               PROVE  /\ PreLogsOf(chain[i].digest) = {} =>
                           IntoHashes(find_log(chain[i].digest).log)
                             = HashesFromBlock(chain[i].block)
                      /\ chain[i].block.header.number = i
                      /\ i > 1 => chain[i].block.header.parent_hash
                                    = Keccak(chain[i - 1].block.header)
    BY DEF ImportedChainSound
  <2>1. Linked(chain[i], i)
    BY DEF ChainInv
  <2>2. ASSUME PreLogsOf(chain[i].digest) = {}
        PROVE  find_log(chain[i].digest).log = PostHashesLog(chain[i].block)
    <3>1. find_log(chain[i].digest) = Found(PostHashesLog(chain[i].block))
      BY <2>1, <2>2, SealedSearch DEF Linked
    <3> QED
      BY <3>1, ResultsDiffer
  <2>3. IntoHashes(PostHashesLog(chain[i].block)) = HashesFromBlock(chain[i].block)
    BY DEF IntoHashes, PostHashesLog
  <2> QED
    BY <2>1, <2>2, <2>3 DEF Linked
<1>2. Init => BuildInv /\ ChainInv
  BY LinkInitially
<1> QED
  BY <1>1, <1>2, Initially, Inductive, BuildStep, ChainStep, PTL DEF Spec

=============================================================================
