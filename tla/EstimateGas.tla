---------------------------- MODULE EstimateGas -----------------------------
(***************************************************************************)
(* eth_estimateGas (client/rpc/src/eth.rs).  With the feature              *)
(* rpc_binary_search_estimate the handler runs the request again and again *)
(* with limits between LOWER and UPPER; without it, once.                  *)
(*                                                                         *)
(* Every run reads the best block anew, so blocks imported meanwhile       *)
(* change what the search looks at.  What a request does on a state is a   *)
(* function from gas limits to the gas used, or Fails (an error of the     *)
(* runtime, a revert, not enough gas): the code that is run may look at    *)
(* its gas, so nothing more is known of it.                                *)
(***************************************************************************)
EXTENDS Integers

CONSTANTS
  LOWER,      \* 21_000
  UPPER,      \* 1_000_000_000
  Threshold,  \* threshold_pct
  States,     \* what the request may do: functions from limits to gas used
  Unlimited,  \* the gas used without a limit of its own, by state
  Fails

ASSUME EstimateAssumption ==
  /\ LOWER \in Nat \ {0} /\ UPPER \in Nat /\ LOWER <= UPPER
  /\ Threshold \in 0..99
  /\ Fails \notin Nat
  /\ States # {}
  /\ \A s \in States : \A g \in LOWER..UPPER : s[g] = Fails \/ s[g] \in 1..g
  /\ \A s \in States : Unlimited[s] = Fails \/ Unlimited[s] \in Nat

VARIABLES
  state,               \* what the request does on the best block
  moved,               \* observation: whether that changed since the first run
  feature,             \* cfg!(feature = "rpc_binary_search_estimate")
  pc,                  \* where the handler is
  lower, upper, mid, best, change_pct  \* its locals

bounds == <<lower, upper, mid>>
searchVars == <<state, moved, feature, pc, bounds, best, change_pct>>

SearchInit ==
  /\ state \in States
  /\ moved = FALSE
  /\ feature \in BOOLEAN
  /\ pc = "loop"
  /\ lower = LOWER /\ upper = UPPER /\ mid = UPPER
  /\ best = UPPER
  /\ change_pct = 100

(* A new best block, external to the handler *)
NewBest ==
  /\ pc = "loop"
  /\ state' \in States \ {state}
  /\ moved' = TRUE
  /\ UNCHANGED <<feature, pc, bounds, best, change_pct>>

(* calculate_gas_used with test_request.gas = mid *)
calculate_gas_used == state[mid]

Middle(l, u) == (l + u + 1) \div 2

Running == feature /\ pc = "loop" /\ change_pct > Threshold

(* Ok: U256 subtraction panics when the call used more than before. *)
MutOldUpper ==
  /\ Running
  /\ calculate_gas_used # Fails
  /\ calculate_gas_used <= best
  /\ best' = calculate_gas_used
  /\ change_pct' = (100 * (best - best')) \div best
  /\ mid' = Middle(lower, mid)
  /\ UNCHANGED <<state, moved, feature, pc, lower, upper>>

Reduce ==
  /\ Running
  /\ calculate_gas_used # Fails
  /\ calculate_gas_used <= best
  /\ best' = calculate_gas_used
  /\ change_pct' = (100 * (best - best')) \div best
  /\ upper' = mid
  /\ mid' = Middle(lower, mid)
  /\ UNCHANGED <<state, moved, feature, pc, lower>>

MutUnderflow ==
  /\ Running
  /\ calculate_gas_used # Fails
  /\ calculate_gas_used >= best
  /\ pc' = "panicked"
  /\ UNCHANGED <<state, moved, feature, bounds, best, change_pct>>

Underflow ==
  /\ Running
  /\ calculate_gas_used # Fails
  /\ calculate_gas_used > best
  /\ pc' = "panicked"
  /\ UNCHANGED <<state, moved, feature, bounds, best, change_pct>>

(* Err: more gas is needed; break when there is none to add. *)
MutRaise ==
  /\ Running
  /\ calculate_gas_used = Fails
  /\ lower' = mid
  /\ mid' = Middle(lower, upper)
  /\ pc' = IF mid' = lower' THEN "break" ELSE pc
  /\ UNCHANGED <<state, moved, feature, upper, best, change_pct>>

MutNoBreak ==
  /\ Running
  /\ calculate_gas_used = Fails
  /\ lower' = mid
  /\ mid' = Middle(mid, upper)
  /\ UNCHANGED <<state, moved, feature, pc, upper, best, change_pct>>

Raise ==
  /\ Running
  /\ calculate_gas_used = Fails
  /\ lower' = mid
  /\ mid' = Middle(mid, upper)
  /\ pc' = IF mid' = lower' THEN "break" ELSE pc
  /\ UNCHANGED <<state, moved, feature, upper, best, change_pct>>

(* Ok(best) *)
Answer ==
  /\ feature
  /\ pc = "break" \/ (pc = "loop" /\ change_pct <= Threshold)
  /\ pc' = "answered"
  /\ UNCHANGED <<state, moved, feature, bounds, best, change_pct>>

(* Without the feature: one run with the request's own limit. *)
RunOnce ==
  /\ ~feature
  /\ pc = "loop"
  /\ \/ /\ Unlimited[state] = Fails
        /\ pc' = "refused"
        /\ UNCHANGED best
     \/ /\ Unlimited[state] # Fails
        /\ pc' = "answered"
        /\ best' = Unlimited[state]
  /\ UNCHANGED <<state, moved, feature, bounds, change_pct>>

Handler == Reduce \/ Underflow \/ Raise \/ Answer \/ RunOnce

SearchNext == NewBest \/ Handler

SearchSpec == SearchInit /\ [][SearchNext]_searchVars

(* The handler runs on a thread of the RPC pool until it returns. *)
FairSearchSpec == SearchSpec /\ WF_searchVars(Handler)

-----------------------------------------------------------------------------
SearchTypeOK ==
  /\ state \in States
  /\ moved \in BOOLEAN /\ feature \in BOOLEAN
  /\ pc \in {"loop", "break", "answered", "refused", "panicked"}
  /\ lower \in Nat /\ upper \in Nat /\ mid \in Nat /\ best \in Nat /\ change_pct \in Nat

(* "invariant: lower <= mid <= upper", and never beyond where it began     *)
(* (eth.rs, the comment on the loop).                                      *)
MidInRange == LOWER <= lower /\ lower <= mid /\ mid <= upper /\ upper <= UPPER

(* While the best block stays, the search is a witness of its answer: best *)
(* is what the request used with the limit upper, or UPPER while no run    *)
(* has succeeded.  What it answers is then the gas of a run that did       *)
(* succeed, and no more than with the largest limit.  (A request that      *)
(* fails there is not refused: the search answers UPPER.)                  *)
BestIsWitnessed ==
  feature /\ ~moved =>
    /\ state[upper] = best \/ (upper = UPPER /\ mid = UPPER /\ best = UPPER)
    /\ pc = "answered" =>
         IF state[UPPER] = Fails THEN best = UPPER ELSE best <= state[UPPER]

Decreasing(s) == \E g, h \in LOWER..UPPER : g < h /\ s[g] # Fails /\ s[h] # Fails /\ s[g] > s[h]

(* The subtraction of old_best and best underflows only when the state     *)
(* moved or the request uses more gas under a smaller limit.               *)
NoUnderflow == pc = "panicked" => moved \/ Decreasing(state)

(* The search ends, although mid is rounded up and every run may see       *)
(* another state.                                                          *)
Terminates == <>(pc \in {"answered", "refused", "panicked"})
=============================================================================
