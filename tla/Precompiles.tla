---------------------------- MODULE Precompiles -----------------------------
(***************************************************************************)
(* The precompiled contracts: their dispatch by address, the gas they      *)
(* charge and how they take their input apart                              *)
(* (primitives/evm/src/precompile.rs, frame/evm/precompile).  What they    *)
(* compute is external: an input is its length, the lengths or flags that  *)
(* its header declares, and whether the external function accepts it.      *)
(***************************************************************************)
EXTENDS Integers, Sequences

CONSTANTS U64,       \* 2^64, or the width of the instance
          MAX_SIZE   \* the largest operand of Modexp, 1024

(* The width holds more than the two words a length is rounded up by. *)
ASSUME WidthAssumption == U64 \in Nat /\ U64 > 64 /\ MAX_SIZE \in Nat

OutOfGas == [res |-> "OutOfGas"]
OtherError == [res |-> "Other"]
Panicked == [res |-> "panic"]
Returned(len) == [res |-> "Ok", output |-> len]

(* BASE and WORD *)
Cost(name) ==
  CASE name = "Identity"           -> <<15, 3>>
    [] name = "ECRecover"          -> <<3000, 0>>
    [] name = "ECRecoverPublicKey" -> <<3000, 0>>
    [] name = "Ripemd160"          -> <<600, 120>>
    [] name \in {"Sha256", "Sha3FIPS256", "Sha3FIPS512"} -> <<60, 12>>
    [] name \in {"Modexp", "Bn128Add", "Bn128Mul", "Bn128Pairing", "Blake2F", "Ed25519Verify"}
         -> <<15, 3>>

Linear == {"Identity", "ECRecover", "ECRecoverPublicKey", "Ripemd160", "Sha256", "Sha3FIPS256",
           "Sha3FIPS512", "Modexp", "Bn128Add", "Bn128Mul", "Bn128Pairing", "Blake2F",
           "Ed25519Verify"}

(* type Precompiles of the runtime, from address 1 *)
RuntimePrecompiles ==
  << "ECRecover", "Sha256", "Ripemd160", "Identity", "ECRecoverPublicKey",
     "Sha3FIPS256", "Sha3FIPS512" >>

(* PrecompileSet::execute *)
AtAddress(set, address) ==
  IF address \in DOMAIN set THEN set[address] ELSE "none"

(* ensure_linear_cost, in 64 bits; target is a number or -1 for None *)
saturating(n) == IF n >= U64 THEN U64 - 1 ELSE n

MutLinearCost(target, len, base, word) ==
  LET cost == (base + word * (saturating(len + 31) \div 32)) % U64 IN
  IF target >= 0 /\ cost > target THEN -1 ELSE cost

ensure_linear_cost(target, len, base, word) ==
  LET product == word * (saturating(len + 31) \div 32)
      cost == base + product
  IN  CASE product >= U64 -> -1
        [] product < U64 /\ cost >= U64 -> -1
        [] product < U64 /\ cost < U64 -> IF target >= 0 /\ cost > target THEN -1 ELSE cost

-----------------------------------------------------------------------------
(* input[a..b] panics outside the input *)
Slice(input, a, b) == a <= b /\ b <= input.len

Identity(input) == Returned(input.len)

(* copy_from_slice from s[a..b] into `into` bytes: the range has to be in  *)
(* s and as long as the destination.                                       *)
CopyFromSlice(into, s, a, b) == Slice(s, a, b) /\ into = b - a

(* The input goes into a buffer of 128 bytes, padded or cut; hash, r, s    *)
(* and byte 63 are copied out of it.  The recovery may fail.               *)
Recover(input, output) ==
  LET n == IF input.len < 128 THEN input.len ELSE 128
      buffer == [len |-> 128]
      copied == /\ Slice(buffer, 0, n) /\ CopyFromSlice(n, input, 0, n)
                /\ \A at \in {0, 64, 96} : CopyFromSlice(32, buffer, at, at + 32)
                /\ Slice(buffer, 63, 64)
  IN  IF ~copied THEN Panicked ELSE IF input.accepted THEN Returned(output) ELSE OtherError
ECRecover(input) == Recover(input, 32)
ECRecoverPublicKey(input) == Recover(input, 64)

(* Hashes of the whole input; Ripemd160 is padded to 32 bytes. *)
Ripemd160(input) == Returned(32)
Sha256(input) == Returned(32)
Sha3FIPS256(input) == Returned(32)
Sha3FIPS512(input) == Returned(64)

(* The result of modpow is below the modulus, so it has at most mod_len    *)
(* bytes, but zero has one byte, which does not fit a modulus of length 0. *)
Modexp(input) ==
  CASE input.len < 96 -> OtherError
    [] input.len >= 96 /\ (\E l \in {input.base_len, input.exp_len, input.mod_len} : l > MAX_SIZE)
         -> OtherError
    [] OTHER ->
       LET exp_start == 96 + input.base_len
           mod_start == exp_start + input.exp_len
           total == mod_start + input.mod_len
       IN  IF input.len < total THEN OtherError
           ELSE IF input.base_len = 0 /\ input.mod_len = 0 THEN OtherError
           ELSE IF ~( /\ Slice(input, 96, exp_start)
                      /\ Slice(input, exp_start, mod_start)
                      /\ Slice(input, mod_start, total) ) THEN Panicked
           ELSE IF input.mod_len = 0 THEN OtherError ELSE Returned(input.mod_len)

Ed25519Verify(input) ==
  IF input.len < 128 \/ ~input.accepted THEN OtherError ELSE Returned(4)

(* read_point and read_fr slice the input without looking at its length; a *)
(* refused input is refused after `read` coordinates, before the next.     *)
Points(input, slices, output) ==
  CASE \E i \in DOMAIN slices : /\ ~input.accepted => i <= input.read
                                /\ ~Slice(input, slices[i][1], slices[i][2]) -> Panicked
    [] OTHER -> IF input.accepted THEN Returned(output) ELSE OtherError

Bn128Add(input) == Points(input, <<<<0, 32>>, <<32, 64>>, <<64, 96>>, <<96, 128>>>>, 64)
Bn128Mul(input) == Points(input, <<<<0, 32>>, <<32, 64>>, <<64, 96>>>>, 64)
Bn128Pairing(input) ==
  Points(input, [i \in 1..(input.len \div 192) |-> <<(i - 1) * 192, i * 192>>], 32)

(* h_buf is 64 bytes long and gets the 44 bytes input[4..48], whatever the *)
(* input.                                                                  *)
Blake2F(input) ==
  CASE input.len # 213 -> OtherError
    [] input.len = 213 /\ ~CopyFromSlice(64, input, 4, 48) -> Panicked
    [] OTHER -> IF input.flag \in {0, 1} THEN Returned(64) ELSE OtherError

Run(name, input) ==
  CASE name = "Identity" -> Identity(input)
    [] name = "ECRecover" -> ECRecover(input)
    [] name = "ECRecoverPublicKey" -> ECRecoverPublicKey(input)
    [] name = "Ripemd160" -> Ripemd160(input)
    [] name = "Sha256" -> Sha256(input)
    [] name = "Sha3FIPS256" -> Sha3FIPS256(input)
    [] name = "Sha3FIPS512" -> Sha3FIPS512(input)
    [] name = "Modexp" -> Modexp(input)
    [] name = "Ed25519Verify" -> Ed25519Verify(input)
    [] name = "Bn128Add" -> Bn128Add(input)
    [] name = "Bn128Mul" -> Bn128Mul(input)
    [] name = "Bn128Pairing" -> Bn128Pairing(input)
    [] name = "Blake2F" -> Blake2F(input)

(* LinearCostPrecompile: charged first, then run *)
Execute(name, input, target) ==
  LET cost == ensure_linear_cost(target, input.len, Cost(name)[1], Cost(name)[2]) IN
  IF cost = -1 THEN OutOfGas
  ELSE LET r == Run(name, input) IN
       IF r.res = "Ok" THEN [res |-> "Ok", output |-> r.output, cost |-> cost] ELSE r

(* Dispatch: only a normal call that pays, whose declared weight the gas   *)
(* covers; it charges the weight the call reports, whatever that is.  Gas  *)
(* and weight are the same number in this runtime (GasWeightMapping = ()). *)
Dispatch(call, target) ==
  CASE ~call.decodes -> OtherError
    [] call.decodes /\ ~(call.pays_fee /\ call.normal) -> OtherError
    [] call.decodes /\ call.pays_fee /\ call.normal /\ target >= 0 /\ call.weight > target -> OutOfGas
    [] OTHER -> IF call.succeeds THEN [res |-> "Ok", output |-> 0, cost |-> call.actual_weight]
                ELSE OtherError
=============================================================================
