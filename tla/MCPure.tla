------------------------------- MODULE MCPure -------------------------------
(***************************************************************************)
(* The functions of the project without state of their own, against        *)
(* reference definitions on all small inputs.  Each action picks an input  *)
(* for one of them; digests grow item by item, as deposit_log grows them.  *)
(***************************************************************************)
EXTENDS ConsensusLog, LogFilter, Precompiles, StorageSchema, TransactionCount,
        FiniteSets, FiniteSetsExt

CONSTANTS MaxItems,   \* bound on the length of a digest
          MaxTopics,  \* bound on the positions of a topic filter and of a log
          MaxReceipts \* bound on the transactions of a block

ASSUME BoundAssumption == MaxItems \in Nat /\ MaxTopics \in Nat /\ MaxReceipts \in Nat

(* the topics of the instance; null is none of them *)
Topics == {"A", "B", "C"}

ASSUME NullAssumption == Null \notin Topics

VARIABLE input

UpTo(n, S) == UNION {[1..k -> S] : k \in 0..n}

Is(about) == input.about = about

Start == [about |-> "digest", digest |-> <<>>]

Init == input = Start

-----------------------------------------------------------------------------
(* Two blocks with different headers, one of them with two transactions. *)
EthBlocks == { [header |-> "h1", transactions |-> <<"t1", "t2">>],
               [header |-> "h2", transactions |-> <<>>] }

Items == {OtherLog} \cup UNION { {PreBlockLog(e), PostBlockLog(e), PostHashesLog(e)} :
                                 e \in EthBlocks }

(* deposit_log pushes at the end of the digest *)
DepositLog ==
  /\ Is("digest")
  /\ Len(input.digest) < MaxItems
  /\ \E item \in Items : input' = [input EXCEPT !.digest = Append(@, item)]

Atoms == {NullValue, Hash("A"), Hash("B")}
TopicInputs ==
  Atoms \cup {List(s) : s \in UpTo(MaxTopics, Atoms \cup {List(s) : s \in UpTo(2, Atoms)})}

PickTopics ==
  /\ input = Start
  /\ \E j \in TopicInputs, topics \in UpTo(MaxTopics, Topics) :
       input' = [about |-> "topics", json |-> j, topics |-> topics]

Log(a, t) == [address |-> a, topics |-> t]
Filter(from, to, hash, address, topics) ==
  [ from_block |-> from, to_block |-> to, block_hash |-> hash,
    address |-> address, topics |-> topics ]
AnyLog == Filter(Null, Null, Null, Null, Null)
LogFilters ==
  { AnyLog, Filter(Null, Null, Null, Single("c1"), Null),
    Filter(Null, Null, Null, Multiple(<<"c1", "c2">>), Hash("A")),
    Filter(Null, Null, Null, Null, List(<<NullValue, Hash("B")>>)) }

Logs == {Log("c1", <<"A">>), Log("c2", <<"A", "B">>)}

PickReceipts ==
  /\ input = Start
  /\ \E receipts \in UpTo(MaxReceipts, [logs : UpTo(2, Logs), used_gas : {0, 3, U32}]),
        f \in LogFilters :
       input' = [about |-> "receipts", receipts |-> receipts, filter |-> f]

Heights == {Null} \cup {[num |-> n] : n \in 0..4} \cup {Tag(t) : t \in Tags}

PickRange ==
  /\ input = Start
  /\ \E from, to \in Heights, best, again \in 0..3 :
       /\ best <= again
       /\ input' = [about |-> "range", filter |-> Filter(from, to, Null, Null, Null),
                    best |-> best, again |-> again]

PickCost ==
  /\ input = Start
  /\ \E base \in {0, 15, U64 - 4}, word \in {0, 3, 120}, target \in {-1, 15, U64 - 1},
        len \in {0, 1, 31, 32, 33, U64 \div 2, U64 - 33, U64 - 32, U64 - 31, U64 - 1} :
       input' = [about |-> "cost", base |-> base, word |-> word, len |-> len, target |-> target]

(* at the ends of the words, points and headers the precompiles slice out *)
InputLengths == {0, 1, 63, 64, 95, 96, 97, 98, 99, 127, 128, 129, 191, 192, 212, 213, 400}

PickPrecompile ==
  /\ input = Start
  /\ \E name \in Linear, accepted \in BOOLEAN, flag \in 0..2, read \in 1..4,
        len \in InputLengths, base_len, exp_len, mod_len \in {0, 1, MAX_SIZE + 1} :
       /\ name # "Modexp" => base_len = 0 /\ exp_len = 0 /\ mod_len = 0
       /\ name # "Blake2F" => flag = 0
       /\ name \notin {"Bn128Add", "Bn128Mul", "Bn128Pairing"} => read = 1
       /\ input' = [about |-> "precompile", name |-> name,
                    input |-> [ len |-> len, accepted |-> accepted, flag |-> flag, read |-> read,
                                base_len |-> base_len, exp_len |-> exp_len, mod_len |-> mod_len ]]

PickCall ==
  /\ input = Start
  /\ \E weight, actual \in 0..3, target \in -1..3, b \in [1..4 -> BOOLEAN] :
       input' = [about |-> "call", target |-> target,
                 call |-> [ weight |-> weight, actual_weight |-> actual, decodes |-> b[1],
                            pays_fee |-> b[2], normal |-> b[3], succeeds |-> b[4] ]]

Evm(item, args) == StorageKey("EVM", item, args)
Eth(item) == StorageKey("Ethereum", item, <<>>)
Slot(n) == Evm("AccountStorages", <<"c1", to_big_endian(n)>>)
StorageKeys ==
  { Eth("CurrentBlock"), Eth("CurrentReceipts"), Eth("CurrentTransactionStatuses"),
    Evm("AccountCodes", <<"c1">>), Slot(1), Slot(BYTE) }

(* The chain always has a schema; values are told apart by their keys. *)
PickStorage ==
  /\ input = Start
  /\ \E keys \in SUBSET StorageKeys, schema \in {"V1", "Undefined"}, n \in Indices :
       input' = [ about |-> "storage", index |-> n,
                  storage |-> [k \in keys \cup {Eth("Schema")} |->
                                 CASE k = Eth("Schema") -> schema
                                   [] k = Slot(1) -> "slot one"
                                   [] OTHER -> k.item] ]

PickReady ==
  /\ input = Start
  /\ \E ready \in UNION {[1..k -> [from : {"x", "y"}, nonce : 0..2]] : k \in 0..4},
        x, y \in 0..2 :
       LET nonces == [a \in {"x", "y"} |-> IF a = "x" THEN x ELSE y] IN
       /\ Cardinality({ready[i] : i \in DOMAIN ready}) = Len(ready)
       /\ IsReadyOrder(ready, nonces)
       /\ input' = [about |-> "ready", ready |-> ready, nonces |-> nonces]

Next ==
  \/ DepositLog \/ PickTopics \/ PickReceipts \/ PickRange \/ PickCost
  \/ PickPrecompile \/ PickCall \/ PickStorage \/ PickReady

Spec == Init /\ [][Next]_input

-----------------------------------------------------------------------------
ExactGas(receipts) == FoldLeft(LAMBDA acc, r : acc + r.used_gas, 0, receipts)

Mirrored(n) == CHOOSE m \in Indices : to_big_endian(m) = to_little_endian(n)

(* What the block import accepts (ensure_log) is exactly what the mapping  *)
(* sync can later use (find_log): the import check stands in for the sync  *)
(* worker's, which has no way to repair a block that is already imported.  *)
EnsureAgreesWithFind ==
  Is("digest") => ensure_log(input.digest) = find_log(input.digest).res

(* find_log yields a log exactly when one item of the digest is a Shadows  *)
(* log, and yields that item; none is NotFound, several are MultipleLogs.  *)
FindLogIsUnique ==
  Is("digest") =>
    LET r == find_log(input.digest)
        items == LogsOf(input.digest) IN
    /\ r = NotFound      <=> items = {}
    /\ r = MultipleLogs  <=> Cardinality(items) > 1
    /\ \A i \in items : items = {i} => r = Found(input.digest[i])

(* The three searches are consistent: a digest find_log accepts is one in  *)
(* which exactly one of the pre and post searches finds the same log, and  *)
(* the other finds nothing.                                                *)
SearchesConsistent ==
  Is("digest") =>
    LET r == find_log(input.digest)
        s == {find_pre_log(input.digest), find_post_log(input.digest)}
    IN  r.res = "Ok" => s = {NotFound, r}

(* The four searches of a digest agree: the importer's check, the sync     *)
(* worker's search and those of the runtime never see different logs.      *)
DigestSearchesAgree == EnsureAgreesWithFind /\ FindLogIsUnique /\ SearchesConsistent

(* filter_topics, with its early exits and the shrinking of trailing       *)
(* wildcards, lets no log through that the filter does not describe unless *)
(* a position is an empty list, and every log it does unless a position is *)
(* an empty list or has null among its alternatives.  The last exception   *)
(* is a divergence: the doc of Topic lists [null,[null,C]] as supported,   *)
(* and the loop refuses every log whose second topic is not C.             *)
TopicsMatch ==
  Is("topics") =>
    LET accepts == filter_topics(input.topics, flatten(ParseTopic(input.json)))
        matches == Matches(input.topics, input.json) IN
    /\ PlainAlternatives(input.json) => (accepts <=> matches)
    /\ accepts /\ ~NothingAllowed(input.json) => matches

(* eth_getLogs walks the heights its range means, and a subscription with  *)
(* a first number gets those too, when no bound is earliest (for which see *)
(* EarliestIsGenesis).  An absent first number is the best one, read       *)
(* twice: a block that comes between the reads may cost heights (none are  *)
(* required then), but adds none.                                          *)
LogsRangeExact ==
  Is("range") =>
    LET f == input.filter
        walked == LogsRange(f, input.best, input.again)
        meant == MeantRange(f, input.best) IN
    Tag("earliest") \notin {f.from_block, f.to_block} =>
      /\ walked \subseteq meant
      /\ IsNum(f.from_block) \/ input.again = input.best => walked = meant
      /\ IsNum(f.from_block) => meant = {n \in 0..input.best : filter_block_range(f, n)}

(* "Earliest block (genesis)": a range that names it begins or ends there. *)
EarliestIsGenesis ==
  Is("range") /\ Tag("earliest") \in {input.filter.from_block, input.filter.to_block} =>
    LogsRange(input.filter, input.best, input.again) = MeantRange(input.filter, input.best)

(* Log filters take what they describe, with the exceptions that           *)
(* TopicsMatch and LogsRangeExact name.                                    *)
LogFilterExact == TopicsMatch /\ LogsRangeExact

(* The three numberings of a block's logs agree: eth_getLogs, the receipt  *)
(* of each transaction and the subscription show the same logs, each with  *)
(* the same log_index and transaction_log_index, whatever is filtered out  *)
(* before it; eth_getLogs and the receipt with the same transaction_index. *)
(* For that of the subscription see TransactionIndexAgrees.                *)
LogIndicesAgree ==
  Is("receipts") =>
    LET r == input.receipts
        all == logs_build(AnyLog, r)
        some == logs_build(input.filter, r)
        pushed == pubsub_logs(input.filter, [number |-> 1, hash |-> "e1"], r) IN
    /\ \A i \in DOMAIN r :
         Sublist(all, {j \in DOMAIN all : all[j].transaction_index = i - 1}) = ReceiptLogs(r, i - 1)
    /\ \A i \in DOMAIN some : \E j \in DOMAIN all : some[i] = all[j]
    /\ Len(pushed) = Len(some)
    /\ \A i \in DOMAIN some :
         [pushed[i] EXCEPT !.transaction_index = some[i].transaction_index] = some[i]

(* "Transaction Index": a log that is pushed is in the transaction that    *)
(* eth_getLogs shows it in.                                                *)
TransactionIndexAgrees ==
  Is("receipts") =>
    LET some == logs_build(input.filter, input.receipts)
        pushed == pubsub_logs(input.filter, [number |-> 1, hash |-> "e1"], input.receipts) IN
    \A i \in DOMAIN some : pushed[i].transaction_index = some[i].transaction_index

(* cumulative_gas_used is the gas of the block up to the transaction, and  *)
(* the receipt does not panic, while that gas fits 32 bits, whatever the   *)
(* transactions after it use.  Nothing is said of larger sums.             *)
CumulativeGasExact ==
  Is("receipts") =>
    \A i \in DOMAIN input.receipts :
      LET exact == ExactGas(SubSeq(input.receipts, 1, i)) IN
      exact < U32 => cumulative_gas_used(input.receipts, i - 1) = exact

(* A log has one place in its block in every answer that shows it, but for *)
(* the transaction_index of a pushed one, and a receipt the gas up to it.  *)
ReceiptViewsAgree == LogIndicesAgree /\ CumulativeGasExact

(* ensure_linear_cost charges for every started word, never less, refuses  *)
(* what does not fit 64 bits instead of wrapping, and never exceeds the    *)
(* gas it was given.                                                       *)
LinearCostExact ==
  Is("cost") =>
    LET cost == ensure_linear_cost(input.target, input.len, input.base, input.word)
        exact == input.base + input.word * ((input.len + 31) \div 32) IN
    /\ input.len + 31 < U64 =>
         cost = IF exact >= U64 \/ (input.target >= 0 /\ exact > input.target) THEN -1 ELSE exact
    /\ input.target >= 0 => cost <= input.target

(* The precompiles that take slices of their input do so without           *)
(* panicking, the two recoveries of the runtime among them; only Bn128Add  *)
(* and Bn128Mul, on short inputs, and Blake2F, on every input of the right *)
(* length, do panic: the runtime leaves them out.  What Modexp returns has *)
(* the length of the modulus.  (The hashes and Identity take their input   *)
(* as a whole: of them this says nothing.)                                 *)
PrecompilesTotal ==
  Is("precompile") =>
    LET r == Execute(input.name, input.input, -1) IN
    /\ r.res = "panic" => input.name \in {"Bn128Add", "Bn128Mul", "Blake2F"}
    /\ \A i \in DOMAIN RuntimePrecompiles :
         AtAddress(RuntimePrecompiles, i) = input.name => r.res # "panic"
    /\ input.name = "Modexp" /\ r.res = "Ok" =>
         /\ r.output = input.input.mod_len
         /\ input.input.len >= 96 + input.input.base_len + input.input.exp_len + r.output

(* A dispatched call is charged more gas than it was given only when it    *)
(* reports more weight than it declared, which Dispatch does not check.    *)
DispatchPaid ==
  Is("call") =>
    LET r == Dispatch(input.call, input.target) IN
    r.res = "Ok" /\ input.target >= 0 /\ r.cost > input.target =>
      input.call.actual_weight > input.call.weight

(* No length of an input makes a precompile of the runtime panic, or run   *)
(* for less gas than its formula or for more than it was given.            *)
PrecompilesSafe == LinearCostExact /\ PrecompilesTotal /\ DispatchPaid

(* Reading a block, a code or a slot by raw key is the same as asking the  *)
(* runtime, for every content of the storage; for slots, up to the byte    *)
(* order of the index.                                                     *)
OverrideAgrees ==
  Is("storage") =>
    LET s == input.storage
        v1 == [s EXCEPT ![Eth("Schema")] = "V1"]
        other == [s EXCEPT ![Eth("Schema")] = "Undefined"] IN
    /\ BlockReads(v1) = BlockReads(other)
    /\ code_at(v1, "c1") = code_at(other, "c1")
    /\ storage_at(v1, "c1", input.index) = storage_at(other, "c1", Mirrored(input.index))

(* "For a given account address and index, returns                         *)
(* pallet_evm::AccountStorages.": for slots too, then.                     *)
StorageAtAgrees ==
  Is("storage") =>
    storage_at(input.storage, "c1", input.index) =
      runtime_storage_at(input.storage, "c1", input.index)

(* "since transactions in `ready()` need to be ordered by nonce it's fine  *)
(* to continue with current iterator": one walk finds every ready          *)
(* transaction that continues the account's nonce, whatever other accounts *)
(* and already included transactions stand between.                        *)
TransactionCountExact ==
  Is("ready") =>
    \A a \in {"x", "y"} :
      LET nonces == {input.ready[i].nonce : i \in {j \in DOMAIN input.ready : input.ready[j].from = a}}
          n == transaction_count(input.ready, a, input.nonces[a]) IN
      /\ n >= input.nonces[a]
      /\ n \notin nonces
      /\ input.nonces[a] .. n - 1 \subseteq nonces
=============================================================================
