----------------------------- MODULE FilterPool -----------------------------
(***************************************************************************)
(* eth_newFilter, eth_newBlockFilter, eth_getFilterChanges,                *)
(* eth_uninstallFilter and the filter_pool_task (client/rpc/src/eth.rs).   *)
(*                                                                         *)
(* The pool is a map under a mutex, shared by the RPC threads and by the   *)
(* task that drops old filters.  A handler reads the best block number     *)
(* BEFORE it takes the mutex and uses it inside, so creating and polling   *)
(* take two steps here; what happens under the mutex is one step.          *)
(*                                                                         *)
(* A poll's answer is abstracted to the heights it covers: `delivered`     *)
(* counts, for the filter now stored under a key, how often each height    *)
(* was in an answer.  Reorganisations (another block at a height already   *)
(* covered) are left out.                                                  *)
(***************************************************************************)
EXTENDS Integers, Sequences, FiniteSets, FiniteSetsExt

CONSTANTS
  Clients,     \* RPC threads serving requests
  MAX_STORED,  \* max_stored_filters
  THRESHOLD,   \* FILTER_RETAIN_THRESHOLD, in blocks
  NoFilter,    \* an unused key
  NoNumber,    \* a block parameter that is not a number (latest, absent, ...)
  FilterTypes, \* the filters clients ask for, see FilterType
  MaxBest,     \* bound on the chain's height
  MaxKey,      \* bound on filter keys
  MaxQueue     \* bound on undelivered import notifications

Heights == 0..MaxBest
Keys    == 1..MaxKey

(* FilterType::Block, and FilterType::Log with its from_block and to_block *)
BlockFilter == [type |-> "Block", from |-> NoNumber, to |-> NoNumber]
FilterType  == [type : {"Block", "Log"},
                from : Nat \cup {NoNumber}, to : Nat \cup {NoNumber}]

ASSUME FilterAssumption ==
  /\ FilterTypes \subseteq FilterType
  /\ NoNumber \notin Nat

ASSUME PoolAssumption ==
  /\ MAX_STORED \in Nat \ {0}
  /\ THRESHOLD \in Nat
  /\ MaxBest \in Nat /\ MaxKey \in Nat /\ MaxQueue \in Nat

Item == [filter_type : FilterTypes, last_poll : Nat, at_block : Heights]

ASSUME NoFilterAssumption == NoFilter \notin Item

VARIABLES
  best,       \* client.info().best_number
  queue,      \* numbers of imported blocks not yet seen by filter_pool_task
  pool,       \* the filter pool: key -> item or NoFilter
  delivered,  \* observation: key -> height -> number of answers covering it
  overlapped, \* observation: keys with two polls in progress at once
  pc,         \* per client: "idle", or the handler past its first read
  seen,       \* per client: the best number read before locking
  req         \* per client: the key polled, or the filter to create

vars == <<best, queue, pool, delivered, overlapped, pc, seen, req>>

Stored == {k \in Keys : pool[k] # NoFilter}

TypeOK ==
  /\ best \in Heights
  /\ queue \in Seq(Heights)
  /\ pool \in [Keys -> Item \cup {NoFilter}]
  /\ delivered \in [Keys -> [Heights -> Nat]]
  /\ overlapped \subseteq Keys
  /\ pc \in [Clients -> {"idle", "create", "poll"}]
  /\ seen \in [Clients -> Heights]
  /\ req = [c \in Clients |-> req[c]]
  /\ \A c \in Clients : /\ pc[c] = "create" => req[c] \in FilterTypes
                        /\ pc[c] = "poll"   => req[c] \in Keys

Init ==
  /\ best = 0
  /\ queue = <<>>
  /\ pool = [k \in Keys |-> NoFilter]
  /\ delivered = [k \in Keys |-> [n \in Heights |-> 0]]
  /\ overlapped = {}
  /\ pc = [c \in Clients |-> "idle"]
  /\ seen = [c \in Clients |-> 0]
  /\ req = [c \in Clients |-> NoFilter]

-----------------------------------------------------------------------------
(* A block is imported, on top of the best chain or beside it, and         *)
(* announced on the import notification stream.                            *)
ImportBest ==
  /\ best < MaxBest
  /\ Len(queue) < MaxQueue
  /\ best' = best + 1
  /\ queue' = Append(queue, best + 1)
  /\ UNCHANGED <<pool, delivered, overlapped, pc, seen, req>>

ImportFork(n) ==
  /\ Len(queue) < MaxQueue
  /\ n \in 1..best
  /\ queue' = Append(queue, n)
  /\ UNCHANGED <<best, pool, delivered, overlapped, pc, seen, req>>

(* create_filter and filter_changes up to the lock *)
Enter(c, step, r) ==
  /\ pc[c] = "idle"
  /\ pc' = [pc EXCEPT ![c] = step]
  /\ seen' = [seen EXCEPT ![c] = best]
  /\ req' = [req EXCEPT ![c] = r]
  /\ UNCHANGED <<best, queue, pool, delivered>>

CreateBegin(c, f) == Enter(c, "create", f) /\ UNCHANGED overlapped

PollBegin(c, k) ==
  /\ Enter(c, "poll", k)
  /\ overlapped' = IF \E d \in Clients : pc[d] = "poll" /\ req[d] = k
                   THEN overlapped \cup {k} ELSE overlapped

(* the handler returns, and its locals are gone *)
Return(c) ==
  /\ pc' = [pc EXCEPT ![c] = "idle"]
  /\ seen' = [seen EXCEPT ![c] = 0]
  /\ req' = [req EXCEPT ![c] = NoFilter]
  /\ UNCHANGED <<best, queue>>

(* create_filter under the lock: refused when the pool is full, otherwise  *)
(* stored under the successor of the largest key in use.                   *)
CreateRefused(c) ==
  /\ pc[c] = "create"
  /\ Cardinality(Stored) >= MAX_STORED
  /\ Return(c)
  /\ UNCHANGED <<pool, delivered, overlapped>>

CreateStored(c) ==
  /\ pc[c] = "create"
  /\ Cardinality(Stored) < MAX_STORED
  /\ \E key \in Keys :
       /\ key = Max(Stored \cup {0}) + 1
       /\ pool' = [pool EXCEPT ![key] = [filter_type |-> req[c],
                                         last_poll   |-> seen[c],
                                         at_block    |-> seen[c]]]
       /\ delivered' = [delivered EXCEPT ![key] = [n \in Heights |-> 0]]
  /\ Return(c)
  /\ UNCHANGED overlapped

(* The heights an answer covers.  A block filter walks last_poll ..        *)
(* block_number, the number read before the lock.  A log filter walks from *)
(* max(last_poll, from_block) to min(to_block, best_number), for which the *)
(* best number is read again.                                              *)
BlockRange(item, block_number) ==
  {n \in Heights : item.last_poll <= n /\ n < block_number + 1}

OrElse(x, default) == IF x = NoNumber THEN default ELSE x

LogRange(item) ==
  {n \in Heights :
     /\ n <= best
     /\ n <= OrElse(item.filter_type.to, best)
     /\ n >= item.last_poll
     /\ n >= OrElse(item.filter_type.from, item.last_poll)}

Covered(item, block_number) ==
  IF item.filter_type.type = "Block" THEN BlockRange(item, block_number)
                                     ELSE LogRange(item)

MutAfterPoll(item, block_number) == [item EXCEPT !.last_poll = best + 1]

MutLastPoll(item, block_number) == [item EXCEPT !.last_poll = block_number]

AfterPoll(item, block_number) == [item EXCEPT !.last_poll = block_number + 1]

(* filter_changes under the lock *)
PollAnswered(c) ==
  LET k == req[c] IN
  /\ pc[c] = "poll"
  /\ pool[k] # NoFilter
  /\ delivered' = [delivered EXCEPT ![k] =
                     [n \in Heights |-> IF n \in Covered(pool[k], seen[c])
                                        THEN @[n] + 1 ELSE @[n]]]
  /\ pool' = [pool EXCEPT ![k] = AfterPoll(@, seen[c])]
  /\ Return(c)
  /\ UNCHANGED overlapped

(* The filter does not exist, or the runtime API fails for one of the      *)
(* blocks: an error is returned and the filter keeps its last_poll.        *)
PollFailed(c) ==
  /\ pc[c] = "poll"
  /\ Return(c)
  /\ UNCHANGED <<pool, delivered, overlapped>>

Uninstall(k) ==
  /\ pool[k] # NoFilter
  /\ pool' = [pool EXCEPT ![k] = NoFilter]
  /\ UNCHANGED <<best, queue, delivered, overlapped, pc, seen, req>>

(* filter_pool_task takes the next notification: every filter whose        *)
(* lifespan ends at that height is removed.                                *)
MutExpired(item, number) == item.at_block + THRESHOLD <= number + 1

Expired(item, number) == item.at_block + THRESHOLD <= number

DropOldFilters ==
  /\ queue # <<>>
  /\ queue' = Tail(queue)
  /\ pool' = [k \in Keys |->
                IF pool[k] # NoFilter /\ Expired(pool[k], Head(queue))
                THEN NoFilter ELSE pool[k]]
  /\ UNCHANGED <<best, delivered, overlapped, pc, seen, req>>

Next ==
  \/ ImportBest
  \/ \E n \in Heights : ImportFork(n)
  \/ \E c \in Clients :
       \/ \E f \in FilterTypes : CreateBegin(c, f)
       \/ \E k \in Keys : PollBegin(c, k)
       \/ CreateRefused(c)
       \/ CreateStored(c)
       \/ PollAnswered(c)
       \/ PollFailed(c)
  \/ \E k \in Keys : Uninstall(k)
  \/ DropOldFilters

Spec == Init /\ [][Next]_vars

-----------------------------------------------------------------------------
(* What filter k asks for at height n. *)
Wanted(k, n) ==
  LET f == pool[k].filter_type IN
  /\ n >= pool[k].at_block
  /\ f.type = "Log" => n >= OrElse(f.from, n) /\ n <= OrElse(f.to, n)

(* Nothing is lost: every height below a filter's last_poll that the       *)
(* filter asks for was in some answer since the filter was stored, however *)
(* the two reads of the best number, imports, other polls of the same      *)
(* filter and failed polls interleave.                                     *)
NoneMissed ==
  \A k \in Stored : \A n \in Heights :
    n < pool[k].last_poll /\ Wanted(k, n) => delivered[k][n] > 0

(* A poll never promises more than the chain had: last_poll is at most one *)
(* above the best block.                                                   *)
LastPollBounded ==
  \A k \in Stored : pool[k].last_poll <= best + 1

(* "For each block created since last poll": a block filter delivers a     *)
(* height at most once, as long as no two polls of its key overlapped.     *)
(* (The one that locks last may have the older number, and moves last_poll *)
(* back.)                                                                  *)
BlocksOnce ==
  \A k \in Stored \ overlapped : pool[k].filter_type.type = "Block" =>
    \A n \in Heights : delivered[k][n] <= 1

(* "For each event since last poll": a log filter covers a height at most  *)
(* once, so that the next poll of an idle chain is empty.                  *)
LogsOnce ==
  \A k \in Stored : pool[k].filter_type.type = "Log" =>
    \A n \in Heights : delivered[k][n] <= 1

(* "Each filter is allowed to stay in the pool for 100 blocks":            *)
(* filter_pool_task removes no filter before the chain is that much longer *)
(* than when the filter was created.                                       *)
NoEarlyExpiry ==
  [][ queue # queue' /\ best' = best =>
        \A k \in Stored : pool'[k] = NoFilter => best - pool[k].at_block >= THRESHOLD ]_vars
=============================================================================
