------------------------------ MODULE EvmRunner ------------------------------
(***************************************************************************)
(* The EVM pallet's runner (frame/evm/src/runner/stack.rs) and the fee     *)
(* adapter it charges with (EVMCurrencyAdapter in frame/evm/src/lib.rs),   *)
(* as operators on a world                                                 *)
(*                                                                         *)
(*   w = [free |-> [Addr -> balance], nonce |-> [Addr -> nonce],           *)
(*        issuance |-> total issuance]                                     *)
(*                                                                         *)
(* The balances and system pallets and the EVM interpreter are external.   *)
(* Of the first the model keeps the existential deposit: an account that   *)
(* falls below ED is reaped, which burns its dust and forgets its nonce.   *)
(* Of the interpreter it keeps an outcome the caller supplies (Outcomes).  *)
(*                                                                         *)
(* U64, U128 and U256 are the moduli of the integer widths.                *)
(***************************************************************************)
EXTENDS Naturals, FiniteSets, Functions

CONSTANTS Addr,         \* the Ethereum addresses
          Contracts,    \* those that have code
          Sends,        \* the transfers [to, value] a contract's code makes
          ED,           \* ExistentialDeposit of the runtime
          MinGasPrice,  \* FixedGasPrice::min_gas_price()
          U64, U128, U256

ASSUME RunnerAssumption ==
  /\ IsFiniteSet(Addr) /\ Contracts \subseteq Addr
  /\ Sends \subseteq [to : Addr, value : Nat]
  /\ ED \in Nat \ {0}
  /\ MinGasPrice \in Nat
  /\ U64 \in Nat \ {0} /\ U128 \in Nat \ {0} /\ U256 \in Nat \ {0}
  /\ U64 <= U128 /\ U128 < U256

low_u64(x)  == x % U64
low_u128(x) == x % U128
saturating_sub(x, y) == IF x < y THEN 0 ELSE x - y
saturating_add(x, y) == IF x + y < U256 THEN x + y ELSE U256 - 1
saturating_mul(x, y) == IF x * y < U256 THEN x * y ELSE U256 - 1

-----------------------------------------------------------------------------
(* External: pallet_balances over frame_system.                            *)

Worlds == [free : [Addr -> Nat], nonce : [Addr -> Nat], issuance : Nat]

(* The sum of all balances. *)
Total(free) == FoldFunction(LAMBDA x, y : x + y, 0, free)

(* Dropping a negative imbalance takes it out of the issuance. *)
Burn(w, amount) == [w EXCEPT !.issuance = saturating_sub(@, amount)]

(* Writes a new free balance of a.  Below ED the account is reaped: the    *)
(* rest is dust and is burned, and the account's record, nonce included,   *)
(* is removed.                                                             *)
SetFree(w, a, free) ==
  IF free >= ED
    THEN [w EXCEPT !.free[a] = free]
    ELSE Burn([w EXCEPT !.free[a] = 0, !.nonce[a] = 0], free)

Err(error, w)  == [res |-> error, w |-> w]
Ok(w)          == [res |-> "Ok",  w |-> w]

(* Currency::withdraw(who, value, FEE, AllowDeath): the value leaves the   *)
(* account and is held by an imbalance, issuance still counting it.        *)
Withdraw(w, a, value) ==
  IF value = 0          THEN Ok(w)
  ELSE IF w.free[a] < value THEN Err("InsufficientBalance", w)
  ELSE Ok(SetFree(w, a, w.free[a] - value))

(* Currency::deposit_into_existing: fails on a dead account. *)
DepositIntoExisting(w, a, value) ==
  IF value = 0         THEN Ok(w)
  ELSE IF w.free[a] = 0 THEN Err("DeadAccount", w)
  ELSE Ok([w EXCEPT !.free[a] = @ + value])

(* Currency::transfer(from, to, value, AllowDeath) *)
Transfer(w, from, to, value) ==
  IF value = 0 \/ from = to          THEN Ok(w)
  ELSE IF w.free[from] < value       THEN Err("InsufficientBalance", w)
  ELSE IF w.free[to] + value < ED    THEN Err("ExistentialDeposit", w)
  ELSE Ok(SetFree([w EXCEPT !.free[to] = @ + value], from, w.free[from] - value))

IncNonce(w, a) == [w EXCEPT !.nonce[a] = @ + 1]

-----------------------------------------------------------------------------
(* EVMCurrencyAdapter.                                                     *)

withdraw_fee(w, who, fee) ==
  LET r == Withdraw(w, who, low_u128(fee))
  IN  IF r.res = "Ok" THEN r ELSE Err("BalanceLow", w)

(* The refund is merged into the imbalance of the withdrawn fee (offset),  *)
(* which fails when the refund exceeds it; the rest is burned on drop.     *)
MutCorrectFee(w, who, corrected_fee, paid) ==
  LET refund == saturating_sub(paid, low_u128(corrected_fee))
      r      == DepositIntoExisting(w, who, refund)
  IN  Ok(Burn(r.w, paid))

MutNoRefund(w, who, corrected_fee, paid) == Ok(Burn(w, paid))

correct_and_deposit_fee(w, who, corrected_fee, paid) ==
  LET refund  == saturating_sub(paid, low_u128(corrected_fee))
      r       == DepositIntoExisting(w, who, refund)
      refunded == IF r.res = "Ok" THEN refund ELSE 0
  IN  IF refunded <= paid THEN Ok(Burn(r.w, paid - refunded))
                          ELSE Err("BalanceLow", Burn(r.w, paid))

-----------------------------------------------------------------------------
(* External: one run of the EVM's StackExecutor.  It gives an exit reason  *)
(* and the gas it used, at most the limit.  A run may be given up before   *)
(* the sender's nonce is raised (entered = FALSE: the gas does not even    *)
(* pay for starting it, or a creation's endowment is not there).  A        *)
(* contract that is called may send balance of its own (send).  The exits  *)
(* Error, Revert and Fatal are one reason, "Fail": the callers treat them  *)
(* alike.                                                                  *)

Reasons == {"Succeed", "Fail"}

Outcomes(target, gas_limit) ==
  { o \in [reason : Reasons, entered : BOOLEAN, used : 0 .. gas_limit, send : Sends] :
      /\ o.reason = "Succeed" => o.entered
      /\ (o.reason # "Succeed" \/ target \notin Contracts) => o.send.value = 0 }

(* StackState::transfer, through which the executor moves balances. *)
transfer(w, source, target, value) == Transfer(w, source, target, low_u128(value))

(* transact_call / transact_create: inc_nonce, then in a substate of its   *)
(* own the value transfer and the code; any failure undoes the substate    *)
(* and not the nonce.                                                      *)
RunEvm(w, source, target, value, o) ==
  LET entered == IF o.entered THEN IncNonce(w, source) ELSE w
      moved   == transfer(entered, source, target, value)
      sent    == transfer(moved.w, target, o.send.to, o.send.value)
  IN  IF o.reason # "Succeed"    THEN [reason |-> o.reason,  w |-> entered]
      ELSE IF moved.res # "Ok"   THEN [reason |-> "Fail",    w |-> entered]
      ELSE                            [reason |-> "Succeed", w |-> sent.w]

-----------------------------------------------------------------------------
(* Runner::execute, for a call to (or the creation of) target.  nonce is   *)
(* a set with the nonce to check, or empty when none is given.             *)

(* The checks before anything is charged, in their order. *)
Check(w, source, value, gas_limit, gas_price) ==
  LET total_fee     == gas_price * gas_limit
      total_payment == value + total_fee
  IN  IF gas_price < MinGasPrice             THEN "GasPriceTooLow"
      ELSE IF total_fee >= U256              THEN "FeeOverflow"
      ELSE IF total_payment >= U256          THEN "PaymentOverflow"
      ELSE IF w.free[source] < total_payment THEN "BalanceLow"
      ELSE "Ok"

CheckNonce(w, source, nonce) ==
  IF \E n \in nonce : n # w.nonce[source] THEN "InvalidNonce" ELSE "Ok"

Refused(error, w) == [res |-> error, w |-> w, reason |-> "Fail", used |-> 0, fee |-> 0]

(* The run on the world w the fee was taken from, then the refund. *)
RunAndSettle(w, source, target, value, gas_price, paid, o) ==
  LET run     == RunEvm(w, source, target, value, o)
      settled == correct_and_deposit_fee(run.w, source, o.used * gas_price, low_u128(paid))
  IN  [res |-> settled.res, w |-> settled.w, reason |-> run.reason,
       used |-> o.used, fee |-> o.used * gas_price]

MutLateNonce(w, source, target, value, gas_limit, gas_price, nonce, o) ==
  LET check   == Check(w, source, value, gas_limit, gas_price)
      charged == withdraw_fee(w, source, gas_price * gas_limit)
  IN  IF check # "Ok"            THEN Refused(check, w)
      ELSE IF charged.res # "Ok" THEN Refused("BalanceLow", w)
      ELSE IF CheckNonce(w, source, nonce) # "Ok"
                                 THEN Refused("InvalidNonce", charged.w)
      ELSE RunAndSettle(charged.w, source, target, value, gas_price, gas_price * gas_limit, o)

MutChargeValue(w, source, target, value, gas_limit, gas_price, nonce, o) ==
  LET check   == Check(w, source, value, gas_limit, gas_price)
      charged == withdraw_fee(w, source, value + gas_price * gas_limit)
  IN  IF check # "Ok"            THEN Refused(check, w)
      ELSE IF CheckNonce(w, source, nonce) # "Ok" THEN Refused("InvalidNonce", w)
      ELSE RunAndSettle(charged.w, source, target, value, gas_price,
                        value + gas_price * gas_limit, o)

execute(w, source, target, value, gas_limit, gas_price, nonce, o) ==
  LET check       == Check(w, source, value, gas_limit, gas_price)
      check_nonce == CheckNonce(w, source, nonce)
      total_fee   == gas_price * gas_limit
      charged     == withdraw_fee(w, source, total_fee)
  IN  IF check # "Ok"            THEN Refused(check, w)
      ELSE IF check_nonce # "Ok" THEN Refused(check_nonce, w)
      ELSE IF charged.res # "Ok" THEN Refused(charged.res, w)
      ELSE RunAndSettle(charged.w, source, target, value, gas_price, total_fee, o)
=============================================================================
