----------------------------- MODULE MCFunctions ----------------------------
(***************************************************************************)
(* What has no other actor to wait for: the functions, one input after the *)
(* other, the gas search, and the minimal gas price.  They share nothing,  *)
(* so a behaviour runs one of them (focus) and the others rest.            *)
(*                                                                         *)
(* Requests of several shapes are searched: one that always fails, those   *)
(* that need a limit to succeed at all, whose gas is constant, grows with  *)
(* the limit (the 63/64 rule), or shrinks with it.  The price starts       *)
(* anywhere and every target may be proposed.                              *)
(***************************************************************************)
EXTENDS MCPure, EstimateGas, DynamicFee

VARIABLE focus

Shape(need, base, slope) ==
  [g \in LOWER..UPPER |->
     IF g < need THEN Fails
     ELSE LET used == base + (slope * (g - need)) \div 2
          IN  IF used > g THEN g ELSE IF used < 1 THEN 1 ELSE used]

MCStates ==
  { Shape(need, base, slope) :
      need \in {LOWER, LOWER + 1, (LOWER + UPPER) \div 2, UPPER - 1, UPPER, UPPER + 1},
      base \in {LOWER, UPPER - 2}, slope \in {-1, 0, 1} }

MCUnlimited == [s \in MCStates |-> s[UPPER]]

AllTargets == Prices

-----------------------------------------------------------------------------
all == <<input, searchVars, feeVars, focus>>

Resting ==
  /\ focus # "search" => state = Shape(LOWER, LOWER, 0) /\ feature
  /\ focus # "price" => minGasPrice = 0

InitAll ==
  /\ focus \in {"input", "search", "price"}
  /\ Init /\ SearchInit /\ FeeInit /\ Resting

InputStep == focus = "input" /\ Next /\ UNCHANGED <<searchVars, feeVars, focus>>
SearchStep(step) == focus = "search" /\ step /\ UNCHANGED <<input, feeVars, focus>>
PriceStep(step) == focus = "price" /\ step /\ UNCHANGED <<input, searchVars, focus>>

NextAll == InputStep \/ SearchStep(SearchNext) \/ PriceStep(FeeNext)

(* The fairness of FairSearchSpec and of FairFeeSpec *)
FairAll ==
  /\ InitAll /\ [][NextAll]_all
  /\ WF_all(SearchStep(Handler))
  /\ WF_all(PriceStep(on_finalize))
  /\ WF_all(PriceStep(/\ targetMinGasPrice = NoTarget
                      /\ \E t \in Targets : note_min_gas_price_target(t)))

-----------------------------------------------------------------------------
(* A gas search ends: Terminates, of the behaviours that run one. *)
SearchTerminates == focus = "search" => Terminates

(* The price settles on a target all come to propose: Converges, of the    *)
(* behaviours that run it.                                                 *)
PriceConverges == focus = "price" => Converges
=============================================================================
