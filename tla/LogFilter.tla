----------------------------- MODULE LogFilter ------------------------------
(***************************************************************************)
(* Filters over logs: the topic language of eth_newFilter, eth_getLogs and *)
(* eth_subscribe (client/rpc-core/src/types/filter.rs), and the three      *)
(* places that number the logs of a block: logs_build and                  *)
(* transaction_receipt (client/rpc/src/eth.rs) and the logs subscription   *)
(* (client/rpc/src/eth_pubsub.rs).                                         *)
(*                                                                         *)
(* A request's topics are a JSON value: Null, a hash, or a list of those   *)
(* and of lists.  A log is [address, topics].                              *)
(***************************************************************************)
EXTENDS Integers, Sequences, SequencesExt

CONSTANTS Null,   \* null, None
          U32     \* 2^32

ASSUME IndexAssumption == U32 \in Nat \ {0} /\ Null # [tag |-> "earliest"]

Hash(a) == [json |-> "hash", value |-> a]
NullValue == [json |-> "null"]
List(s) == [json |-> "list", items |-> s]

Single(v) == [variant |-> "Single", value |-> v]
Multiple(s) == [variant |-> "Multiple", value |-> s]
NullVariant == [variant |-> "Null", value |-> Null]
NoneVariant == [variant |-> "None"]   \* no variant at all, the None of an Option

-----------------------------------------------------------------------------
(* VariadicValue::deserialize: null, else a single value if it parses as   *)
(* one, else a list.  A topic is a VariadicValue of optional VariadicValue *)
(* of optional hashes, so a list without lists in it parses as Single.     *)
OptionHash(j) == IF j.json = "null" THEN Null ELSE j.value

MapSeq(s, F(_)) == [i \in DOMAIN s |-> F(s[i])]

ParseFlat(j) ==
  CASE j.json = "null" -> NullVariant
    [] j.json = "hash" -> Single(j.value)
    [] j.json = "list" -> Multiple(MapSeq(j.items, OptionHash))

ParseOption(j) == IF j.json = "null" THEN NoneVariant ELSE ParseFlat(j)

IsFlat(j) == j.json = "list" => \A i \in DOMAIN j.items : j.items[i].json # "list"

ParseTopic(j) ==
  CASE j.json = "null" -> NullVariant
    [] j.json # "null" /\ IsFlat(j) -> Single(ParseFlat(j))
    [] j.json # "null" /\ ~IsFlat(j) -> Multiple(MapSeq(j.items, ParseOption))

(* flatten: the cartesian product of the alternatives of each position *)
cartesian(lists) ==
  IF lists = <<>> THEN <<>>
  ELSE FoldLeft(LAMBDA res, l :
                  FlattenSeq([i \in DOMAIN res |-> MapSeq(l, LAMBDA x : Append(res[i], x))]),
                MapSeq(lists[1], LAMBDA x : <<x>>), Tail(lists))

Alternatives(v) ==
  CASE v.variant = "None" -> <<Null>>
    [] v.variant = "Single" -> <<v.value>>
    [] v.variant = "Multiple" -> v.value
    [] v.variant = "Null" -> <<Null>>

flatten(topic) ==
  CASE topic.variant = "Multiple" ->
         MapSeq(cartesian(MapSeq(topic.value, Alternatives)), Multiple)
    [] topic.variant = "Single" -> <<topic.value>>
    [] topic.variant = "Null" -> <<NullVariant>>

(* replace: wildcards take the log's topic in their position *)
replace(topics, multi) ==
  [k \in DOMAIN multi |-> IF multi[k] = Null THEN topics[k] ELSE multi[k]]

(* Shrink the topics until the last item is Some. *)
Shrink(multi) ==
  SubSeq(multi, 1, CHOOSE n \in 0..Len(multi) :
                     /\ \A k \in n + 1..Len(multi) : multi[k] = Null
                     /\ n > 0 => multi[n] # Null)

(* One turn of the loop of filter_topics over the flat topics; stop stands *)
(* for break.                                                              *)
FilterTurn(topics, acc, flat) ==
  LET new == Shrink(flat.value) IN
  CASE acc.stop -> acc
    [] ~acc.stop /\ flat.variant = "Null" -> [acc EXCEPT !.out = TRUE]
    [] ~acc.stop /\ flat.variant = "Single" ->
         IF IsPrefix(<<flat.value>>, topics) THEN acc ELSE [acc EXCEPT !.out = FALSE]
    [] ~acc.stop /\ flat.variant = "Multiple" ->
         IF Len(new) > Len(topics) THEN [out |-> FALSE, stop |-> TRUE]
         ELSE IF new = <<>> THEN acc
         ELSE LET match == IsPrefix(replace(topics, new), topics)
              IN  [out |-> match, stop |-> match]

MutFilterTopics(topics, flats) ==
  FoldLeft(LAMBDA acc, f : [FilterTurn(topics, acc, f) EXCEPT !.stop = FALSE],
           [out |-> TRUE, stop |-> FALSE], flats).out

filter_topics(topics, flats) ==
  FoldLeft(LAMBDA acc, f : FilterTurn(topics, acc, f), [out |-> TRUE, stop |-> FALSE], flats).out

(* an address filter: Null (none), or a VariadicValue of addresses *)
filter_address(address, f) ==
  CASE f = Null -> TRUE
    [] f # Null /\ f.variant = "Single" -> address = f.value
    [] f # Null /\ f.variant = "Multiple" -> \E i \in DOMAIN f.value : f.value[i] = address
    [] f # Null /\ f.variant = "Null" -> TRUE

(* A block number in a filter is Null, a number, or one of the tags. *)
Tags == {"latest", "earliest", "pending"}
Tag(t) == [tag |-> t]
IsNum(n) == n # Null /\ n \notin {Tag(t) : t \in Tags}

to_min_block_num(n, default) == IF IsNum(n) THEN n.num ELSE default

filter_block_range(f, block_number) ==
  /\ IsNum(f.from_block) => f.from_block.num <= block_number
  /\ IsNum(f.to_block) => f.to_block.num >= block_number
  /\ f.to_block # Tag("earliest")

filter_block_hash(f, hash) == f.block_hash # Null => f.block_hash = hash

(* logs, filter_logs: the heights walked, from best_number read first and  *)
(* the best number read again for an absent from_block                     *)
LogsRange(f, best, again) ==
  LET to == to_min_block_num(f.to_block, best) IN
  to_min_block_num(f.from_block, again) .. (IF to > best THEN best ELSE to)

-----------------------------------------------------------------------------
(* The logs of a block.  A block is the sequence of its receipts, each     *)
(* [logs, used_gas]; statuses have the same logs.                          *)
Numbered(tx, log_index, transaction_log_index, log) ==
  [ transaction_index |-> tx, log_index |-> log_index,
    transaction_log_index |-> transaction_log_index, log |-> log ]

Keep(f, log) ==
  /\ f.address # Null => filter_address(log.address, f.address)
  /\ f.topics # Null => filter_topics(log.topics, flatten(ParseTopic(f.topics)))

(* a loop that pushes the elements at the positions in keep *)
Sublist(s, keep) ==
  FoldLeftDomain(LAMBDA out, i : IF i \in keep THEN Append(out, s[i]) ELSE out, <<>>, s)

(* Both walks number every log and drop those the filter refuses. *)
NumberLogs(receipts) ==
  FoldLeftDomain(
    LAMBDA acc, i :
      LET logs == receipts[i].logs IN
      [ next |-> acc.next + Len(logs),
        out  |-> acc.out \o [k \in DOMAIN logs |->
                               Numbered(i - 1, (acc.next + k - 1) % U32, k - 1, logs[k])] ],
    [next |-> 0, out |-> <<>>], receipts).out

MutLogsBuild(f, receipts) ==
  NumberLogs(MapSeq(receipts, LAMBDA r :
    [r EXCEPT !.logs = SelectSeq(@, LAMBDA log : Keep(f, log))]))

logs_build(f, receipts) ==
  LET all == NumberLogs(receipts) IN
  Sublist(all, {i \in DOMAIN all : Keep(f, all[i].log)})

(* SubscriptionResult::logs; transaction_index is given the log index *)
add_log(f, block, log) ==
  /\ filter_block_range(f, block.number)
  /\ filter_block_hash(f, block.hash)
  /\ Keep(f, log)

pubsub_logs(f, block, receipts) ==
  LET all == NumberLogs(receipts) IN
  MapSeq(Sublist(all, {i \in DOMAIN all : add_log(f, block, all[i].log)}),
         LAMBDA n : [n EXCEPT !.transaction_index = n.log_index])

SumOver(s, F(_)) == FoldLeft(LAMBDA acc, x : (acc + F(x)) % U32, 0, s)

(* transaction_receipt of the transaction at `index` *)
ReceiptLogs(receipts, index) ==
  LET before == SumOver(SubSeq(receipts, 1, index), LAMBDA r : Len(r.logs))
      logs == receipts[index + 1].logs
  IN  [k \in DOMAIN logs |-> Numbered(index, (before + k - 1) % U32, k - 1, logs[k])]

(* used_gas.as_u32() panics, -1, on what does not fit; the sum of those    *)
(* that do wraps.                                                          *)
cumulative_gas_used(receipts, index) ==
  LET counted == SubSeq(receipts, 1, index + 1) IN
  IF \E i \in DOMAIN counted : counted[i].used_gas >= U32 THEN -1
  ELSE SumOver(counted, LAMBDA r : r.used_gas)

-----------------------------------------------------------------------------
(* What a topic filter means: every position that names alternatives has   *)
(* one of them.                                                            *)
Allowed(j) ==
  CASE j.json = "null" -> {Null}
    [] j.json = "hash" -> {j.value}
    [] j.json = "list" -> {OptionHash(j.items[i]) : i \in DOMAIN j.items}

PositionsOf(j) == IF j.json = "list" THEN j.items ELSE <<j>>

Matches(topics, j) ==
  \A k \in DOMAIN PositionsOf(j) :
    \/ Null \in Allowed(PositionsOf(j)[k])
    \/ k <= Len(topics) /\ topics[k] \in Allowed(PositionsOf(j)[k])

(* Two kinds of filter are told apart: those with an empty list among      *)
(* their positions, and those with null among the alternatives of one.     *)
NothingAllowed(j) == \E k \in DOMAIN PositionsOf(j) : Allowed(PositionsOf(j)[k]) = {}

PlainAlternatives(j) ==
  /\ ~NothingAllowed(j)
  /\ \A k \in DOMAIN PositionsOf(j) :
       PositionsOf(j)[k].json = "list" => Null \notin Allowed(PositionsOf(j)[k])

(* What a range means: a number is itself, earliest the genesis block, and *)
(* anything else the best one, as in native_block_id.                      *)
Height(n, best) ==
  CASE IsNum(n) -> n.num
    [] n = Tag("earliest") -> 0
    [] OTHER -> best

MeantRange(f, best) ==
  {n \in 0..best : Height(f.from_block, best) <= n /\ n <= Height(f.to_block, best)}
=============================================================================
