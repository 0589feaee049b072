------------------------------ MODULE GasProofs -----------------------------
(***************************************************************************)
(* Proofs about the price of gas (DynamicFee), for every width, divisor of *)
(* at least two and set of targets, and about its estimation               *)
(* (EstimateGas), for every range, threshold and set of states.  The bound *)
(* of a price is a quotient by a parameter: DivFacts is all the theorems   *)
(* need to know about it.                                                  *)
(***************************************************************************)
EXTENDS DynamicFee, EstimateGas, TLAPS

(* The bound of a price in on_finalize is at least one, and fits the width *)
(* whenever the price does.                                                *)
LEMMA DivFacts ==
  ASSUME NEW p \in Prices
  PROVE  /\ p \div Divisor \in Nat
         /\ p \div Divisor + 1 < U256
         /\ p \in Nat /\ p < U256
<1> DEFINE q == p \div Divisor
           r == p % Divisor
<1>1. p \in Nat /\ p < U256 /\ U256 > 2 /\ U256 \in Nat
  BY FeeAssumption DEF Prices
<1>2. Divisor \in Nat /\ Divisor >= 2
  BY FeeAssumption
<1>3. q \in Int /\ r \in 0 .. (Divisor - 1) /\ p = Divisor * q + r
  BY <1>1, <1>2, Z3
<1> HIDE DEF q, r
<1>4. q >= 0
  <2>1. SUFFICES ASSUME q < 0 PROVE FALSE
    BY <1>3
  <2>2. Divisor * q <= Divisor * (-1)
    BY <2>1, <1>2, <1>3, Z3
  <2>3. Divisor * (-1) = - Divisor
    BY <1>2, Z3
  <2> QED
    BY <1>1, <1>2, <1>3, <2>2, <2>3, Z3
<1>5. Divisor * q >= 2 * q
  BY <1>2, <1>3, <1>4, Z3
<1>6. q + 1 < U256
  BY <1>1, <1>2, <1>3, <1>4, <1>5, Z3
<1> QED
  BY <1>1, <1>3, <1>4, <1>6 DEF q

(* The price and the pending target stay U256 values.                      *)
THEOREM FeeTypeCorrect == FeeSpec => []FeeTypeOK
<1>1. FeeInit => FeeTypeOK
  BY DEF FeeInit, FeeTypeOK
<1>2. FeeTypeOK /\ [FeeNext]_feeVars => FeeTypeOK'
  <2> SUFFICES ASSUME FeeTypeOK, [FeeNext]_feeVars PROVE FeeTypeOK'
    OBVIOUS
  <2>1. CASE \E t \in Targets : note_min_gas_price_target(t)
    BY <2>1, FeeAssumption DEF FeeTypeOK, note_min_gas_price_target, Prices
  <2>2. CASE on_finalize
    <3>1. CASE targetMinGasPrice = NoTarget
      BY <2>2, <3>1 DEF FeeTypeOK, on_finalize
    <3>2. CASE targetMinGasPrice # NoTarget
      <4>1. targetMinGasPrice \in Prices /\ minGasPrice \in Prices
        BY <3>2 DEF FeeTypeOK
      <4>2. minGasPrice' = Clamp(minGasPrice, targetMinGasPrice)
        BY <2>2, <3>2 DEF on_finalize
      <4>3. minGasPrice' \in Prices
        BY <4>1, <4>2, DivFacts, FeeAssumption
           DEF Clamp, upper_limit, lower_limit, Bound, min, max, Prices
      <4> QED
        BY <4>3, <2>2 DEF FeeTypeOK, on_finalize
    <3> QED
      BY <3>1, <3>2
  <2>3. CASE UNCHANGED feeVars
    BY <2>3 DEF FeeTypeOK, feeVars
  <2> QED
    BY <2>1, <2>2, <2>3 DEF FeeNext
<1> QED
  BY <1>1, <1>2, PTL DEF FeeSpec

(* on_finalize's unchecked addition does not overflow, whatever prices     *)
(* genesis and the authors choose.                                         *)
THEOREM BoundNeverOverflows == FeeSpec => []BoundFits
<1>1. FeeTypeOK => BoundFits
  BY DivFacts DEF FeeTypeOK, BoundFits, Bound
<1> QED
  BY <1>1, FeeTypeCorrect, PTL

(* on_finalize moves the price towards the noted target, by at least one   *)
(* unless it is there, and never past it.                                  *)
THEOREM PriceFollowsTarget == FeeSpec => MovesTowardsTarget
<1> DEFINE Moves ==
      (targetMinGasPrice # NoTarget /\ targetMinGasPrice' = NoTarget) =>
        /\ minGasPrice < targetMinGasPrice
             => minGasPrice' > minGasPrice /\ minGasPrice' <= targetMinGasPrice
        /\ minGasPrice > targetMinGasPrice
             => minGasPrice' < minGasPrice /\ minGasPrice' >= targetMinGasPrice
        /\ minGasPrice = targetMinGasPrice => minGasPrice' = minGasPrice
<1>1. FeeTypeOK /\ [FeeNext]_feeVars => [Moves]_feeVars
  <2> SUFFICES ASSUME FeeTypeOK, FeeNext, targetMinGasPrice # NoTarget,
                      targetMinGasPrice' = NoTarget
               PROVE  Moves
    BY DEF feeVars
  <2>1. on_finalize
    BY FeeAssumption DEF FeeNext, note_min_gas_price_target
  <2>2. targetMinGasPrice \in Prices /\ minGasPrice \in Prices
    BY DEF FeeTypeOK
  <2>3. minGasPrice' = Clamp(minGasPrice, targetMinGasPrice)
    BY <2>1 DEF on_finalize
  <2> QED
    BY <2>2, <2>3, DivFacts, FeeAssumption
       DEF Clamp, upper_limit, lower_limit, Bound, min, max, Prices
<1> QED
  BY <1>1, FeeTypeCorrect, PTL DEF FeeSpec, MovesTowardsTarget

-----------------------------------------------------------------------------
(***************************************************************************)
(* What the search knows while the best block stays.  Either no run has    *)
(* succeeded: then at most the first was made, at UPPER, and if it was it  *)
(* failed.  Or the run at UPPER succeeded, upper is the smallest limit     *)
(* that did, and best is what the request used with it.                    *)
(***************************************************************************)
NoneSucceeded ==
  /\ upper = UPPER /\ mid = UPPER /\ best = UPPER
  /\ pc = "loop" => change_pct = 100
  /\ pc \in {"break", "answered"} => state[UPPER] = Fails

SomeSucceeded ==
  /\ state[upper] = best
  /\ state[UPPER] # Fails
  /\ best <= state[UPPER]

SearchInv == feature /\ ~moved => NoneSucceeded \/ SomeSucceeded

IndInv ==
  /\ SearchTypeOK
  /\ MidInRange
  /\ feature => best >= 1
  /\ SearchInv
  /\ NoUnderflow

-----------------------------------------------------------------------------
(* the middle, rounded up, stays between the bounds *)
LEMMA MiddleBetween ==
  ASSUME NEW l \in Nat, NEW u \in Nat, l <= u
  PROVE  Middle(l, u) \in Nat /\ l <= Middle(l, u) /\ Middle(l, u) <= u
BY DEF Middle

LEMMA MiddleOfOne ==
  ASSUME NEW l \in Nat
  PROVE  Middle(l, l) = l
BY DEF Middle

LEMMA DivNat ==
  ASSUME NEW a \in Nat, NEW b \in Nat, b >= 1
  PROVE  a \div b \in Nat
OBVIOUS

(* what a run may answer *)
LEMMA GasUsed ==
  ASSUME SearchTypeOK, MidInRange, NEW g \in LOWER..UPPER, state[g] # Fails
  PROVE  state[g] \in Nat /\ state[g] >= 1 /\ state[g] <= g
<1>1. state[g] \in 1..g /\ g \in Nat
  BY EstimateAssumption DEF SearchTypeOK
<1>2. QED
  BY <1>1

LEMMA InRange ==
  ASSUME SearchTypeOK, MidInRange
  PROVE  /\ mid \in LOWER..UPPER /\ upper \in LOWER..UPPER /\ UPPER \in LOWER..UPPER
         /\ LOWER \in Nat /\ UPPER \in Nat
BY EstimateAssumption DEF SearchTypeOK, MidInRange

-----------------------------------------------------------------------------
LEMMA InitInv == SearchInit => IndInv
<1> SUFFICES ASSUME SearchInit PROVE IndInv
  OBVIOUS
<1>1. SearchTypeOK /\ MidInRange /\ best >= 1
  <2>1. moved \in BOOLEAN /\ feature \in BOOLEAN /\ state \in States
        /\ pc \in {"loop", "break", "answered", "refused", "panicked"}
    BY Zenon DEF SearchInit
  <2>2. /\ lower \in Nat /\ upper \in Nat /\ mid \in Nat /\ best \in Nat /\ change_pct \in Nat
        /\ LOWER <= lower /\ lower <= mid /\ mid <= upper /\ upper <= UPPER /\ best >= 1
    BY EstimateAssumption DEF SearchInit
  <2>3. QED
    BY <2>1, <2>2, Zenon DEF SearchTypeOK, MidInRange
<1>2. SearchInv /\ NoUnderflow
  BY DEF SearchInit, SearchInv, NoneSucceeded, NoUnderflow
<1>3. QED
  BY <1>1, <1>2 DEF IndInv

(* a new best block: what was known of the old one is dropped *)
LEMMA NewBestInv == IndInv /\ NewBest => IndInv'
<1> SUFFICES ASSUME IndInv, NewBest PROVE IndInv'
  OBVIOUS
<1>1. SearchTypeOK' /\ MidInRange' /\ (feature' => best' >= 1)
  BY DEF IndInv, NewBest, SearchTypeOK, MidInRange, bounds
<1>2. SearchInv' /\ NoUnderflow'
  BY DEF NewBest, SearchInv, NoUnderflow
<1>3. QED
  BY <1>1, <1>2 DEF IndInv

(* a run that succeeded *)
LEMMA ReduceInv == IndInv /\ Reduce => IndInv'
<1> SUFFICES ASSUME IndInv, Reduce PROVE IndInv'
  OBVIOUS
<1>1. SearchTypeOK /\ MidInRange /\ best >= 1 /\ feature
  BY DEF IndInv, Reduce, Running
<1>2. /\ mid \in LOWER..UPPER /\ upper \in LOWER..UPPER /\ UPPER \in LOWER..UPPER
      /\ lower \in Nat /\ upper \in Nat /\ mid \in Nat /\ best \in Nat
  BY <1>1, InRange DEF SearchTypeOK
<1>3. /\ state[mid] \in Nat /\ state[mid] >= 1 /\ state[mid] # Fails /\ state[mid] <= best
      /\ best' = state[mid] /\ upper' = mid /\ lower' = lower
      /\ mid' = Middle(lower, mid) /\ pc' = pc /\ state' = state
      /\ moved' = moved /\ feature' = feature /\ pc = "loop"
      /\ change_pct' = (100 * (best - best')) \div best
  BY <1>1, <1>2, GasUsed DEF Reduce, Running, calculate_gas_used
<1>4. change_pct' \in Nat
  <2>1. 100 * (best - best') \in Nat
    BY <1>2, <1>3
  <2>2. QED
    BY <1>1, <1>2, <1>3, <2>1, DivNat
<1>5. Middle(lower, mid) \in Nat /\ lower <= Middle(lower, mid) /\ Middle(lower, mid) <= mid
  BY <1>1, <1>2, MiddleBetween DEF MidInRange
<1>6. SearchTypeOK'
  BY <1>1, <1>2, <1>3, <1>4, <1>5 DEF SearchTypeOK
<1>7. MidInRange'
  BY <1>1, <1>2, <1>3, <1>5, EstimateAssumption DEF MidInRange
<1>8. SearchInv'
  <2>1. SUFFICES ASSUME ~moved PROVE SomeSucceeded'
    BY <1>3 DEF SearchInv
  <2>2. CASE NoneSucceeded
    BY <1>2, <1>3, <2>2 DEF NoneSucceeded, SomeSucceeded
  <2>3. CASE SomeSucceeded
    <3>1. state[UPPER] \in Nat /\ best <= state[UPPER] /\ state[UPPER] # Fails
      BY <1>1, <1>2, <2>3, GasUsed DEF SomeSucceeded
    <3>2. QED
      BY <1>2, <1>3, <3>1 DEF SomeSucceeded
  <2>4. QED
    BY <1>1, <2>1, <2>2, <2>3 DEF IndInv, SearchInv
<1>9. NoUnderflow'
  BY <1>3 DEF NoUnderflow
<1>10. QED
  BY <1>3, <1>6, <1>7, <1>8, <1>9 DEF IndInv

(* a run that used more than the best one *)
LEMMA UnderflowInv == IndInv /\ Underflow => IndInv'
<1> SUFFICES ASSUME IndInv, Underflow PROVE IndInv'
  OBVIOUS
<1>1. /\ UNCHANGED <<state, moved, feature, lower, upper, mid, best, change_pct>>
      /\ pc' = "panicked" /\ feature /\ pc = "loop"
      /\ state[mid] # Fails /\ state[mid] > best
  BY DEF Underflow, Running, calculate_gas_used, bounds
<1>2. SearchTypeOK' /\ MidInRange' /\ (feature' => best' >= 1)
  BY <1>1 DEF IndInv, SearchTypeOK, MidInRange
<1>3. SearchInv'
  BY <1>1 DEF IndInv, SearchInv, NoneSucceeded, SomeSucceeded
<1>4. NoUnderflow'
  <2>1. SUFFICES ASSUME ~moved PROVE Decreasing(state)
    BY <1>1 DEF NoUnderflow, Decreasing
  <2>2. /\ mid \in LOWER..UPPER /\ upper \in LOWER..UPPER
        /\ mid \in Nat /\ upper \in Nat /\ mid <= upper /\ best \in Nat
    BY InRange DEF IndInv, SearchTypeOK, MidInRange
  <2>3. state[mid] \in Nat /\ state[mid] <= mid
    BY <1>1, <2>2, GasUsed DEF IndInv
  <2>4. SomeSucceeded
    <3>1. ~NoneSucceeded
      BY <1>1, <2>2, <2>3 DEF NoneSucceeded
    <3>2. QED
      BY <1>1, <2>1, <3>1 DEF IndInv, SearchInv
  <2>5. mid # upper /\ state[upper] # Fails /\ state[mid] > state[upper]
    BY <1>1, <2>2, <2>3, <2>4, EstimateAssumption DEF SomeSucceeded
  <2>6. mid < upper
    BY <2>2, <2>5
  <2>7. QED
    BY <1>1, <2>2, <2>5, <2>6 DEF Decreasing
<1>5. QED
  BY <1>2, <1>3, <1>4 DEF IndInv

(* a run that failed *)
LEMMA RaiseInv == IndInv /\ Raise => IndInv'
<1> SUFFICES ASSUME IndInv, Raise PROVE IndInv'
  OBVIOUS
<1>1. /\ UNCHANGED <<state, moved, feature, upper, best, change_pct>>
      /\ feature /\ pc = "loop" /\ state[mid] = Fails
      /\ lower' = mid /\ mid' = Middle(mid, upper)
      /\ pc' = IF mid' = lower' THEN "break" ELSE pc
  BY DEF Raise, Running, calculate_gas_used
<1>2. /\ lower \in Nat /\ upper \in Nat /\ mid \in Nat /\ UPPER \in Nat /\ LOWER \in Nat
      /\ LOWER <= lower /\ lower <= mid /\ mid <= upper /\ upper <= UPPER
  BY EstimateAssumption DEF IndInv, SearchTypeOK, MidInRange
<1>3. mid' \in Nat /\ mid <= mid' /\ mid' <= upper
  BY <1>1, <1>2, MiddleBetween
<1>4. pc' \in {"loop", "break"}
  BY <1>1
<1>5. SearchTypeOK' /\ (feature' => best' >= 1)
  BY <1>1, <1>2, <1>3, <1>4 DEF IndInv, SearchTypeOK
<1>6. MidInRange'
  BY <1>1, <1>2, <1>3 DEF MidInRange
<1>7. SearchInv'
  <2>1. SUFFICES ASSUME ~moved PROVE NoneSucceeded' \/ SomeSucceeded'
    BY <1>1 DEF SearchInv
  <2>2. CASE NoneSucceeded
    <3>1. mid' = UPPER /\ lower' = UPPER /\ upper' = UPPER
      BY <1>1, <1>2, <2>2, MiddleOfOne DEF NoneSucceeded
    <3>2. pc' = "break" /\ best' = UPPER /\ state'[UPPER] = Fails
      BY <1>1, <2>2, <3>1 DEF NoneSucceeded
    <3>3. QED
      BY <3>1, <3>2 DEF NoneSucceeded
  <2>3. CASE SomeSucceeded
    BY <1>1, <2>3 DEF SomeSucceeded
  <2>4. QED
    BY <1>1, <2>1, <2>2, <2>3 DEF IndInv, SearchInv
<1>8. NoUnderflow'
  BY <1>4 DEF NoUnderflow
<1>9. QED
  BY <1>5, <1>6, <1>7, <1>8 DEF IndInv

LEMMA AnswerInv == IndInv /\ Answer => IndInv'
<1> SUFFICES ASSUME IndInv, Answer PROVE IndInv'
  OBVIOUS
<1>1. /\ UNCHANGED <<state, moved, feature, lower, upper, mid, best, change_pct>>
      /\ pc' = "answered"
      /\ pc = "break" \/ (pc = "loop" /\ change_pct <= Threshold)
  BY DEF Answer, bounds
<1>2. SearchTypeOK' /\ MidInRange' /\ (feature' => best' >= 1) /\ NoUnderflow'
  BY <1>1 DEF IndInv, SearchTypeOK, MidInRange, NoUnderflow
<1>3. SearchInv'
  <2>1. CASE pc = "break"
    BY <1>1, <2>1 DEF IndInv, SearchInv, NoneSucceeded, SomeSucceeded
  <2>2. CASE pc = "loop" /\ change_pct <= Threshold
    <3>1. change_pct # 100
      BY <2>2, EstimateAssumption DEF IndInv, SearchTypeOK
    <3>2. QED
      BY <1>1, <2>2, <3>1 DEF IndInv, SearchInv, NoneSucceeded, SomeSucceeded
  <2>3. QED
    BY <1>1, <2>1, <2>2
<1>4. QED
  BY <1>2, <1>3 DEF IndInv

LEMMA RunOnceInv == IndInv /\ RunOnce => IndInv'
<1> SUFFICES ASSUME IndInv, RunOnce PROVE IndInv'
  OBVIOUS
<1>1. /\ UNCHANGED <<state, moved, feature, lower, upper, mid, change_pct>>
      /\ ~feature
      /\ \/ pc' = "refused" /\ best' = best
         \/ pc' = "answered" /\ Unlimited[state] # Fails /\ best' = Unlimited[state]
  BY DEF RunOnce, bounds
<1>2. best' \in Nat
  BY <1>1, EstimateAssumption DEF IndInv, SearchTypeOK
<1>3. SearchTypeOK' /\ MidInRange'
  BY <1>1, <1>2 DEF IndInv, SearchTypeOK, MidInRange
<1>4. SearchInv' /\ NoUnderflow' /\ ~feature'
  BY <1>1 DEF SearchInv, NoUnderflow
<1>5. QED
  BY <1>3, <1>4 DEF IndInv

LEMMA NextInv == IndInv /\ [SearchNext]_searchVars => IndInv'
<1> SUFFICES ASSUME IndInv, [SearchNext]_searchVars PROVE IndInv'
  OBVIOUS
<1>1. CASE UNCHANGED searchVars
  <2>1. SearchTypeOK' /\ MidInRange' /\ (feature' => best' >= 1)
    BY <1>1 DEF IndInv, searchVars, bounds, SearchTypeOK, MidInRange
  <2>2. SearchInv' /\ NoUnderflow'
    BY <1>1 DEF IndInv, searchVars, bounds, SearchInv, NoneSucceeded, SomeSucceeded,
                NoUnderflow, Decreasing
  <2>3. QED
    BY <2>1, <2>2 DEF IndInv
<1>2. QED
  BY <1>1, NewBestInv, ReduceInv, UnderflowInv, RaiseInv, AnswerInv, RunOnceInv
     DEF SearchNext, Handler

LEMMA Inductive == SearchSpec => []IndInv
BY InitInv, NextInv, PTL DEF SearchSpec

-----------------------------------------------------------------------------
(* The comment on the loop of estimate_gas is true: lower <= mid <= upper, *)
(* never beyond where they began, although every run may see another best  *)
(* block.                                                                  *)
THEOREM MidStaysInRange == SearchSpec => []MidInRange
<1>1. IndInv => MidInRange
  BY DEF IndInv
<1>2. QED
  BY Inductive, <1>1, PTL

(* While the best block stays, best is what the request used with the      *)
(* limit upper, and the answer is no more than with the largest limit, for *)
(* requests that may behave differently at every limit.                    *)
THEOREM AnswerWitnessed == SearchSpec => []BestIsWitnessed
<1>1. IndInv => BestIsWitnessed
  BY DEF IndInv, SearchInv, NoneSucceeded, SomeSucceeded, BestIsWitnessed
<1>2. QED
  BY Inductive, <1>1, PTL

(* old_best - best underflows only when the best block changed or the      *)
(* request uses more gas under a smaller limit.                            *)
THEOREM UnderflowExplained == SearchSpec => []NoUnderflow
<1>1. IndInv => NoUnderflow
  BY DEF IndInv
<1>2. QED
  BY Inductive, <1>1, PTL
=============================================================================
