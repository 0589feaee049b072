--------------------------- MODULE StorageSchema ----------------------------
(***************************************************************************)
(* The two ways the RPC reads the state of the EVM and Ethereum pallets:   *)
(* by raw storage key, for a known schema                                  *)
(* (client/rpc/src/overrides/schema_v1_override.rs), and through the       *)
(* runtime API (overrides/mod.rs and runtime/src/lib.rs), the fallback.    *)
(* Hashing of the keys is injective and left out; the byte order of an     *)
(* index is not.  Storage is a function from keys to values.               *)
(***************************************************************************)
EXTENDS Integers, Sequences, SequencesExt

CONSTANTS Missing,  \* no value under a key
          BYTES,    \* bytes of an index (32)
          BYTE      \* values of a byte (256)

ASSUME StorageAssumption ==
  /\ Missing \notin {"V1", "Undefined", "empty", "zero"}
  /\ BYTES \in Nat \ {0} /\ BYTE \in Nat \ {0, 1}

Value(storage, key) == IF key \in DOMAIN storage THEN storage[key] ELSE Missing

OrDefault(v, default) == IF v = Missing THEN default ELSE v

(* the numbers of k bytes, BYTE^k of them *)
Numbers[k \in Nat] == IF k = 0 THEN 1 ELSE BYTE * Numbers[k - 1]

Indices == 0 .. Numbers[BYTES] - 1

(* to_big_endian, to_little_endian *)
to_big_endian(index) == [i \in 1..BYTES |-> (index \div Numbers[BYTES - i]) % BYTE]
to_little_endian(index) == Reverse(to_big_endian(index))

StorageKey(pallet, item, args) == [pallet |-> pallet, item |-> item, args |-> args]

(* onchain_storage_schema; the overrides have an entry for V1 only *)
onchain_storage_schema(storage) ==
  OrDefault(Value(storage, StorageKey("Ethereum", "Schema", <<>>)), "Undefined")

-----------------------------------------------------------------------------
(* SchemaV1Override: query_storage under the key; a missing value is None  *)
MutOverrideCode(storage, address) ==
  Value(storage, StorageKey("Ethereum", "AccountCodes", <<address>>))

override_account_code_at(storage, address) ==
  Value(storage, StorageKey("EVM", "AccountCodes", <<address>>))

override_storage_at(storage, address, index) ==
  Value(storage, StorageKey("EVM", "AccountStorages", <<address, to_little_endian(index)>>))

override_current_block(storage) == Value(storage, StorageKey("Ethereum", "CurrentBlock", <<>>))
override_current_receipts(storage) == Value(storage, StorageKey("Ethereum", "CurrentReceipts", <<>>))
override_current_transaction_statuses(storage) ==
  Value(storage, StorageKey("Ethereum", "CurrentTransactionStatuses", <<>>))

(* The runtime API: the storage items with their defaults *)
runtime_account_code_at(storage, address) ==
  OrDefault(Value(storage, StorageKey("EVM", "AccountCodes", <<address>>)), "empty")

runtime_storage_at(storage, address, index) ==
  OrDefault(Value(storage, StorageKey("EVM", "AccountStorages", <<address, to_big_endian(index)>>)),
            "zero")

runtime_current_block(storage) == Value(storage, StorageKey("Ethereum", "CurrentBlock", <<>>))
runtime_current_receipts(storage) == Value(storage, StorageKey("Ethereum", "CurrentReceipts", <<>>))
runtime_current_transaction_statuses(storage) ==
  Value(storage, StorageKey("Ethereum", "CurrentTransactionStatuses", <<>>))

-----------------------------------------------------------------------------
(* code_at and storage_at of the RPC: the override of the block's schema,  *)
(* or the fallback; None becomes the default                               *)
UsesOverride(storage) == onchain_storage_schema(storage) = "V1"

code_at(storage, address) ==
  OrDefault(IF UsesOverride(storage) THEN override_account_code_at(storage, address)
                                     ELSE runtime_account_code_at(storage, address), "empty")

storage_at(storage, address, index) ==
  OrDefault(IF UsesOverride(storage) THEN override_storage_at(storage, address, index)
                                     ELSE runtime_storage_at(storage, address, index), "zero")

(* current_block, current_transaction_statuses and current_receipts: the   *)
(* reads of every block and transaction lookup                             *)
BlockReads(storage) ==
  IF UsesOverride(storage)
  THEN << override_current_block(storage), override_current_transaction_statuses(storage),
          override_current_receipts(storage) >>
  ELSE << runtime_current_block(storage), runtime_current_transaction_statuses(storage),
          runtime_current_receipts(storage) >>
=============================================================================
