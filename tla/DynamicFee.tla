----------------------------- MODULE DynamicFee -----------------------------
(***************************************************************************)
(* The dynamic fee pallet (frame/dynamic-fee/src/lib.rs): the minimal gas  *)
(* price follows the target that block authors propose by an inherent, in  *)
(* each block by at most a fraction of its value and one more.             *)
(***************************************************************************)
EXTENDS Integers

CONSTANTS U256,      \* the modulus of the integer width
          Divisor,   \* T::MinGasPriceBoundDivisor
          Targets,   \* the targets authors propose
          NoTarget   \* None

(* A divisor of 0 panics in every block with a target, and with 1 a price  *)
(* at the top of the width overflows the bound; 2 is the least that works. *)
ASSUME FeeAssumption ==
  /\ U256 \in Nat /\ U256 > 2
  /\ Divisor \in Nat /\ Divisor >= 2
  /\ Targets \subseteq 0 .. (U256 - 1)
  /\ NoTarget \notin Int

VARIABLES minGasPrice,        \* MinGasPrice
          targetMinGasPrice   \* TargetMinGasPrice

feeVars == <<minGasPrice, targetMinGasPrice>>

Prices == 0 .. (U256 - 1)

(* The price of the genesis configuration is any. *)
FeeInit == minGasPrice \in Prices /\ targetMinGasPrice = NoTarget

min(a, b) == IF a <= b THEN a ELSE b
max(a, b) == IF a <= b THEN b ELSE a

MutBound(price) == price \div (Divisor - 1) + 1

Bound(price) == price \div Divisor + 1

upper_limit(price) == min(price + Bound(price), U256 - 1)   \* saturating_add
lower_limit(price) == max(price - Bound(price), 0)          \* saturating_sub

MutClampSwapped(price, target) == max(upper_limit(price), min(lower_limit(price), target))

Clamp(price, target) == min(upper_limit(price), max(lower_limit(price), target))

(* The inherent; a second one in the same block overwrites the first. *)
note_min_gas_price_target(t) ==
  /\ targetMinGasPrice' = t
  /\ UNCHANGED minGasPrice

MutOnFinalize ==
  /\ targetMinGasPrice # NoTarget
  /\ Clamp(minGasPrice, targetMinGasPrice) # targetMinGasPrice
  /\ minGasPrice' = Clamp(minGasPrice, targetMinGasPrice)
  /\ targetMinGasPrice' = NoTarget

on_finalize ==
  /\ minGasPrice' = IF targetMinGasPrice = NoTarget THEN minGasPrice
                    ELSE Clamp(minGasPrice, targetMinGasPrice)
  /\ targetMinGasPrice' = NoTarget

FeeNext == (\E t \in Targets : note_min_gas_price_target(t)) \/ on_finalize

FeeSpec == FeeInit /\ [][FeeNext]_feeVars

(* Blocks keep being finalized, and authors run the inherent data provider *)
(* in blocks that have no target yet.                                      *)
FairFeeSpec == /\ FeeSpec
               /\ WF_feeVars(on_finalize)
               /\ WF_feeVars(/\ targetMinGasPrice = NoTarget
                             /\ \E t \in Targets : note_min_gas_price_target(t))

-----------------------------------------------------------------------------
(* The price and the pending target are U256 values, so that none of the   *)
(* comparisons of on_finalize meets anything else.                         *)
FeeTypeOK == minGasPrice \in Prices /\ targetMinGasPrice \in Prices \cup {NoTarget}

(* The unchecked "+ U256::one()" of on_finalize never overflows, so that   *)
(* a high price cannot make every later block panic.                       *)
BoundFits == Bound(minGasPrice) < U256

(* The price moves towards the target that was noted last and never past   *)
(* it, and it does move unless it is there: it cannot get stuck, not even  *)
(* at zero or at the top of the width.                                     *)
MovesTowardsTarget ==
  [][ (targetMinGasPrice # NoTarget /\ targetMinGasPrice' = NoTarget) =>
        /\ minGasPrice < targetMinGasPrice
             => minGasPrice' > minGasPrice /\ minGasPrice' <= targetMinGasPrice
        /\ minGasPrice > targetMinGasPrice
             => minGasPrice' < minGasPrice /\ minGasPrice' >= targetMinGasPrice
        /\ minGasPrice = targetMinGasPrice => minGasPrice' = minGasPrice ]_feeVars

(* When from some block on all authors propose the same target the price   *)
(* reaches it and stays, wherever contradicting proposals left it before.  *)
Converges ==
  \A t \in Targets :
    <>[](targetMinGasPrice \in {t, NoTarget}) => <>[](minGasPrice = t)
=============================================================================
