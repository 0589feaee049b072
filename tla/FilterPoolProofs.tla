-------------------------- MODULE FilterPoolProofs --------------------------
(***************************************************************************)
(* Proofs about FilterPool, for any number of RPC threads and filters.     *)
(***************************************************************************)
EXTENDS FilterPool, TLAPS, SequenceTheorems

(* What a handler read before it locked is never ahead of the chain. *)
SeenInv == \A c \in Clients : seen[c] <= best

IndInv ==
  /\ TypeOK
  /\ SeenInv
  /\ LastPollBounded
  /\ NoneMissed

(* Reading the invariants at one key. *)
Answered(item, d, top) ==
  /\ item.last_poll <= top + 1
  /\ \A n \in Heights :
       /\ n < item.last_poll
       /\ n >= item.at_block
       /\ item.filter_type.type = "Log" =>
            /\ n >= OrElse(item.filter_type.from, n)
            /\ n <= OrElse(item.filter_type.to, n)
       => d[n] > 0

LEMMA PerKey ==
  LastPollBounded /\ NoneMissed
    <=> \A k \in Keys : pool[k] # NoFilter => Answered(pool[k], delivered[k], best)
BY DEF LastPollBounded, NoneMissed, Stored, Wanted, Answered

LEMMA PerKeyPrime ==
  LastPollBounded' /\ NoneMissed'
    <=> \A k \in Keys : pool'[k] # NoFilter => Answered(pool'[k], delivered'[k], best')
BY DEF LastPollBounded, NoneMissed, Stored, Wanted, Answered

LEMMA InitInv == Init => IndInv
<1> SUFFICES ASSUME Init PROVE IndInv
  OBVIOUS
<1>1. TypeOK
  BY PoolAssumption DEF Init, TypeOK, Heights
<1>2. SeenInv
  BY DEF Init, SeenInv
<1>3. LastPollBounded /\ NoneMissed
  BY DEF Init, LastPollBounded, NoneMissed, Stored
<1>4. QED
  BY <1>1, <1>2, <1>3 DEF IndInv

(* A poll covers every height between the old and the new last_poll that   *)
(* the filter asks for.                                                    *)
LEMMA PollCovers ==
  ASSUME NEW item \in Item, NEW d \in [Heights -> Nat], NEW top \in Heights, top <= best,
         best \in Heights, Answered(item, d, best)
  PROVE  Answered(AfterPoll(item, top),
                  [n \in Heights |-> IF n \in Covered(item, top) THEN d[n] + 1 ELSE d[n]],
                  best)
<1> DEFINE new == AfterPoll(item, top)
           cnt == [n \in Heights |-> IF n \in Covered(item, top) THEN d[n] + 1 ELSE d[n]]
<1>1. /\ item.last_poll \in Nat /\ item.at_block \in Nat
      /\ new.last_poll = top + 1
      /\ new.at_block = item.at_block
      /\ new.filter_type = item.filter_type
      /\ top \in Nat /\ best \in Nat
  BY DEF Item, AfterPoll, Heights
<1>2. ASSUME NEW n \in Heights, n < top + 1, n >= item.at_block,
             item.filter_type.type = "Log" =>
               /\ n >= OrElse(item.filter_type.from, n)
               /\ n <= OrElse(item.filter_type.to, n)
      PROVE  cnt[n] > 0
  <2>1. n \in Nat /\ d[n] \in Nat
    BY DEF Heights
  <2>2. CASE n < item.last_poll
    <3>1. d[n] > 0
      BY <1>2, <2>2 DEF Answered
    <3>2. QED
      BY <2>1, <3>1
  <2>3. CASE n >= item.last_poll
    <3>1. n \in Covered(item, top)
      <4>1. CASE item.filter_type.type = "Block"
        BY <1>2, <2>3, <4>1 DEF Covered, BlockRange
      <4>2. CASE item.filter_type.type # "Block"
        <5>1. item.filter_type.type = "Log"
          BY <4>2, FilterAssumption DEF Item, FilterType
        <5>2. n <= best
          BY <1>1, <1>2, <2>1
        <5>3. n >= OrElse(item.filter_type.from, item.last_poll)
          BY <1>2, <2>3, <5>1 DEF OrElse
        <5>4. n <= OrElse(item.filter_type.to, best)
          BY <1>2, <5>1, <5>2 DEF OrElse
        <5>5. QED
          BY <2>3, <4>2, <5>2, <5>3, <5>4 DEF Covered, LogRange
      <4>3. QED
        BY <4>1, <4>2
    <3>2. QED
      BY <2>1, <3>1
  <2>4. QED
    BY <1>1, <2>1, <2>2, <2>3
<1>3. new.last_poll <= best + 1
  BY <1>1
<1>4. QED
  BY <1>1, <1>2, <1>3 DEF Answered

(* More blocks on the chain do not disturb what was answered. *)
LEMMA ChainGrows ==
  ASSUME NEW item \in Item, NEW d, NEW m \in Nat, NEW n \in Nat, m <= n,
         Answered(item, d, m)
  PROVE  Answered(item, d, n)
BY DEF Answered, Item

LEMMA ReturnType ==
  ASSUME TypeOK, SeenInv, NEW c \in Clients, Return(c)
  PROVE  /\ best' \in Heights /\ queue' \in Seq(Heights)
         /\ pc' \in [Clients -> {"idle", "create", "poll"}]
         /\ seen' \in [Clients -> Heights]
         /\ req' = [x \in Clients |-> req'[x]]
         /\ \A x \in Clients : /\ pc'[x] = "create" => req'[x] \in FilterTypes
                               /\ pc'[x] = "poll"   => req'[x] \in Keys
         /\ SeenInv'
<1>1. 0 \in Heights /\ best \in Nat
  BY PoolAssumption DEF TypeOK, Heights
<1>2. /\ pc' \in [Clients -> {"idle", "create", "poll"}]
      /\ seen' \in [Clients -> Heights]
      /\ req' = [x \in Clients |-> req'[x]]
      /\ UNCHANGED <<best, queue>>
  BY <1>1 DEF TypeOK, Return
<1>3. \A x \in Clients : pc'[x] # "idle" => pc'[x] = pc[x] /\ req'[x] = req[x]
  <2>1. SUFFICES ASSUME NEW x \in Clients, pc'[x] # "idle"
                 PROVE  pc'[x] = pc[x] /\ req'[x] = req[x]
    OBVIOUS
  <2>2. x # c
    BY <2>1 DEF TypeOK, Return
  <2>3. QED
    BY <2>2 DEF TypeOK, Return
<1>4. SeenInv'
  BY <1>1, <1>2 DEF SeenInv, TypeOK, Return
<1>5. QED
  BY <1>2, <1>3, <1>4 DEF TypeOK

-----------------------------------------------------------------------------
(* blocks arrive *)
LEMMA ImportInv ==
  ASSUME IndInv, ImportBest \/ \E n \in Heights : ImportFork(n)
  PROVE  IndInv'
<1>1. /\ best' \in Heights /\ best <= best' /\ best \in Nat /\ best' \in Nat
      /\ UNCHANGED <<pool, delivered, overlapped, pc, seen, req>>
  BY PoolAssumption DEF IndInv, TypeOK, ImportBest, ImportFork, Heights
<1>2. queue' \in Seq(Heights)
  <2>1. CASE ImportBest
    BY <1>1, <2>1 DEF IndInv, TypeOK, ImportBest
  <2>2. CASE \E n \in Heights : ImportFork(n)
    BY <2>2 DEF IndInv, TypeOK, ImportFork
  <2>3. QED
    BY <2>1, <2>2
<1>3. TypeOK'
  BY <1>1, <1>2 DEF IndInv, TypeOK
<1>4. SeenInv'
  BY <1>1 DEF IndInv, TypeOK, SeenInv, Heights
<1>5. ASSUME NEW k \in Keys, pool'[k] # NoFilter
      PROVE  Answered(pool'[k], delivered'[k], best')
  <2>1. pool[k] \in Item /\ Answered(pool[k], delivered[k], best)
    BY <1>1, <1>5, PerKey DEF IndInv, TypeOK
  <2>2. QED
    BY <1>1, <2>1, ChainGrows
<1>6. QED
  BY <1>3, <1>4, <1>5, PerKeyPrime DEF IndInv

(* a handler reads the best number *)
LEMMA EnterInv ==
  ASSUME IndInv, NEW c \in Clients, NEW step \in {"create", "poll"}, NEW r,
         step = "create" => r \in FilterTypes, step = "poll" => r \in Keys,
         Enter(c, step, r), overlapped' \subseteq Keys
  PROVE  IndInv'
<1>1. TypeOK'
  BY DEF IndInv, TypeOK, Enter
<1>2. SeenInv'
  BY DEF IndInv, TypeOK, SeenInv, Enter, Heights
<1>3. LastPollBounded' /\ NoneMissed'
  BY DEF IndInv, LastPollBounded, NoneMissed, Stored, Wanted, Enter
<1>4. QED
  BY <1>1, <1>2, <1>3 DEF IndInv

(* a handler returns without touching the pool *)
LEMMA RefusedInv ==
  ASSUME IndInv, NEW c \in Clients, CreateRefused(c) \/ PollFailed(c)
  PROVE  IndInv'
<1>1. Return(c) /\ UNCHANGED <<pool, delivered, overlapped>>
  BY DEF CreateRefused, PollFailed
<1>2. best' = best
  BY <1>1 DEF Return
<1>3. LastPollBounded' /\ NoneMissed'
  BY <1>1, <1>2 DEF IndInv, LastPollBounded, NoneMissed, Stored, Wanted
<1>4. TypeOK' /\ SeenInv'
  BY <1>1, ReturnType DEF IndInv, TypeOK
<1>5. QED
  BY <1>3, <1>4 DEF IndInv

(* a filter is stored *)
LEMMA StoredInv ==
  ASSUME IndInv, NEW c \in Clients, CreateStored(c)
  PROVE  IndInv'
<1> DEFINE item == [filter_type |-> req[c], last_poll |-> seen[c], at_block |-> seen[c]]
<1>1. PICK key \in Keys :
        /\ pool' = [pool EXCEPT ![key] = item]
        /\ delivered' = [delivered EXCEPT ![key] = [n \in Heights |-> 0]]
  BY DEF CreateStored
<1>2. Return(c) /\ best' = best /\ overlapped' = overlapped
  BY DEF CreateStored, Return
<1>3. /\ seen[c] \in Heights /\ seen[c] \in Nat /\ seen[c] <= best
      /\ req[c] \in FilterTypes /\ best \in Nat
  BY DEF IndInv, TypeOK, SeenInv, CreateStored, Heights
<1>4. item \in Item
  BY <1>3 DEF Item
<1>5. Answered(item, [n \in Heights |-> 0], best)
  BY <1>3 DEF Answered, Heights
<1>6. TypeOK' /\ SeenInv'
  <2>1. pool' \in [Keys -> Item \cup {NoFilter}] /\ delivered' \in [Keys -> [Heights -> Nat]]
    BY <1>1, <1>4 DEF IndInv, TypeOK
  <2>2. QED
    BY <1>2, <2>1, ReturnType DEF IndInv, TypeOK
<1>7. ASSUME NEW k \in Keys, pool'[k] # NoFilter
      PROVE  Answered(pool'[k], delivered'[k], best')
  <2>1. CASE k = key
    BY <1>1, <1>2, <1>5, <2>1 DEF IndInv, TypeOK
  <2>2. CASE k # key
    <3>1. pool'[k] = pool[k] /\ delivered'[k] = delivered[k]
      BY <1>1, <2>2 DEF IndInv, TypeOK
    <3>2. QED
      BY <1>2, <1>7, <3>1, PerKey DEF IndInv
  <2>3. QED
    BY <2>1, <2>2
<1>8. QED
  BY <1>6, <1>7, PerKeyPrime DEF IndInv

(* a filter is polled *)
LEMMA PolledInv ==
  ASSUME IndInv, NEW c \in Clients, PollAnswered(c)
  PROVE  IndInv'
<1> DEFINE k == req[c]
           cnt == [n \in Heights |-> IF n \in Covered(pool[k], seen[c])
                                     THEN delivered[k][n] + 1 ELSE delivered[k][n]]
<1>1. /\ k \in Keys /\ pool[k] # NoFilter /\ Return(c) /\ best' = best
      /\ overlapped' = overlapped
      /\ seen[c] \in Heights /\ seen[c] <= best /\ best \in Heights
      /\ pool[k] \in Item
      /\ delivered[k] \in [Heights -> Nat]
  BY DEF IndInv, TypeOK, SeenInv, PollAnswered, Return
<1>2. /\ delivered' = [delivered EXCEPT ![k] = cnt]
      /\ pool' = [pool EXCEPT ![k] = AfterPoll(pool[k], seen[c])]
  BY <1>1 DEF PollAnswered, IndInv, TypeOK
<1>3. Answered(AfterPoll(pool[k], seen[c]), cnt, best)
  BY <1>1, PollCovers, PerKey DEF IndInv
<1>4. AfterPoll(pool[k], seen[c]) \in Item /\ cnt \in [Heights -> Nat]
  <2>1. seen[c] + 1 \in Nat
    BY <1>1 DEF Heights
  <2>2. AfterPoll(pool[k], seen[c]) \in Item
    BY <1>1, <2>1 DEF AfterPoll, Item
  <2>3. \A n \in Heights : delivered[k][n] \in Nat /\ delivered[k][n] + 1 \in Nat
    BY <1>1
  <2>4. QED
    BY <2>2, <2>3
<1> HIDE DEF k, cnt
<1>5. TypeOK' /\ SeenInv'
  <2>1. pool' \in [Keys -> Item \cup {NoFilter}] /\ delivered' \in [Keys -> [Heights -> Nat]]
    BY <1>1, <1>2, <1>4 DEF IndInv, TypeOK
  <2>2. QED
    BY <1>1, <2>1, ReturnType DEF IndInv, TypeOK
<1>6. ASSUME NEW j \in Keys, pool'[j] # NoFilter
      PROVE  Answered(pool'[j], delivered'[j], best')
  <2>1. CASE j = k
    BY <1>1, <1>2, <1>3, <2>1 DEF IndInv, TypeOK
  <2>2. CASE j # k
    <3>1. pool'[j] = pool[j] /\ delivered'[j] = delivered[j]
      BY <1>2, <2>2 DEF IndInv, TypeOK
    <3>2. QED
      BY <1>1, <1>6, <3>1, PerKey DEF IndInv
  <2>3. QED
    BY <2>1, <2>2
<1>7. QED
  BY <1>5, <1>6, PerKeyPrime DEF IndInv

(* filters are removed, by their owner or by the task *)
LEMMA RemovedInv ==
  ASSUME IndInv, DropOldFilters \/ \E k \in Keys : Uninstall(k)
  PROVE  IndInv'
<1>1. /\ UNCHANGED <<best, delivered, overlapped, pc, seen, req>>
      /\ pool' \in [Keys -> Item \cup {NoFilter}]
      /\ \A k \in Keys : pool'[k] # NoFilter => pool'[k] = pool[k]
  BY DEF IndInv, TypeOK, DropOldFilters, Uninstall
<1>2. queue' \in Seq(Heights)
  <2>1. queue \in Seq(Heights)
    BY DEF IndInv, TypeOK
  <2>2. queue # <<>> => Tail(queue) \in Seq(Heights)
    BY <2>1, HeadTailProperties
  <2>3. queue' = queue \/ (queue # <<>> /\ queue' = Tail(queue))
    <3>1. CASE DropOldFilters
      BY <3>1, Zenon DEF DropOldFilters
    <3>2. CASE \E k \in Keys : Uninstall(k)
      <4>1. PICK k \in Keys : Uninstall(k)
        BY <3>2
      <4>2. queue' = queue
        BY <4>1 DEF Uninstall
      <4>3. QED
        BY <4>2
    <3>3. QED
      BY <3>1, <3>2
  <2>4. QED
    BY <2>1, <2>2, <2>3
<1>3. TypeOK' /\ SeenInv'
  BY <1>1, <1>2 DEF IndInv, TypeOK, SeenInv
<1>4. ASSUME NEW k \in Keys, pool'[k] # NoFilter
      PROVE  Answered(pool'[k], delivered'[k], best')
  BY <1>1, <1>4, PerKey DEF IndInv
<1>5. QED
  BY <1>3, <1>4, PerKeyPrime DEF IndInv

LEMMA NextInv == IndInv /\ [Next]_vars => IndInv'
<1> SUFFICES ASSUME IndInv, [Next]_vars PROVE IndInv'
  OBVIOUS
<1>1. CASE ImportBest \/ \E n \in Heights : ImportFork(n)
  BY <1>1, ImportInv
<1>2. ASSUME NEW c \in Clients, NEW f \in FilterTypes, CreateBegin(c, f)
      PROVE  IndInv'
  <2>1. Enter(c, "create", f) /\ overlapped' \subseteq Keys
    BY <1>2 DEF CreateBegin, IndInv, TypeOK
  <2>2. QED
    BY <2>1, EnterInv
<1>3. ASSUME NEW c \in Clients, NEW k \in Keys, PollBegin(c, k)
      PROVE  IndInv'
  <2>1. Enter(c, "poll", k) /\ overlapped' \subseteq Keys
    BY <1>3 DEF PollBegin, IndInv, TypeOK
  <2>2. QED
    BY <2>1, EnterInv
<1>4. ASSUME NEW c \in Clients, CreateRefused(c) \/ PollFailed(c)
      PROVE  IndInv'
  BY <1>4, RefusedInv
<1>5. ASSUME NEW c \in Clients, CreateStored(c)
      PROVE  IndInv'
  BY <1>5, StoredInv
<1>6. ASSUME NEW c \in Clients, PollAnswered(c)
      PROVE  IndInv'
  BY <1>6, PolledInv
<1>7. CASE DropOldFilters \/ \E k \in Keys : Uninstall(k)
  BY <1>7, RemovedInv
<1>8. CASE UNCHANGED vars
  BY <1>8 DEF IndInv, TypeOK, SeenInv, LastPollBounded, NoneMissed, Stored, Wanted, vars
<1>9. QED
  BY <1>1, <1>2, <1>3, <1>4, <1>5, <1>6, <1>7, <1>8 DEF Next

LEMMA Inductive == Spec => []IndInv
BY InitInv, NextInv, PTL DEF Spec

(* However many threads create, poll and remove filters while blocks       *)
(* arrive, no height a filter asks for is skipped by its polls.            *)
THEOREM NothingMissed == Spec => []NoneMissed
<1>1. IndInv => NoneMissed
  BY DEF IndInv
<1>2. QED
  BY Inductive, <1>1, PTL

(* A filter's last_poll never runs ahead of the chain. *)
THEOREM LastPollCorrect == Spec => []LastPollBounded
<1>1. IndInv => LastPollBounded
  BY DEF IndInv
<1>2. QED
  BY Inductive, <1>1, PTL

-----------------------------------------------------------------------------
(* BlocksOnce is not inductive: a poll must also find nothing delivered at *)
(* and above last_poll, nor above the number it has read itself, although  *)
(* the filter may have been removed and its key given out again since.     *)
Polls(c, k) == pc[c] = "poll" /\ req[c] = k

Exclusive ==
  \A c, d \in Clients : \A k \in Keys :
    c # d /\ Polls(c, k) /\ Polls(d, k) => k \in overlapped

OnceAt(k) ==
  pool[k].filter_type.type = "Block" =>
    \A n \in Heights :
      /\ delivered[k][n] <= 1
      /\ n >= pool[k].last_poll => delivered[k][n] = 0
      /\ \A c \in Clients : Polls(c, k) /\ n > seen[c] => delivered[k][n] = 0

OnceInv ==
  /\ Exclusive
  /\ \A k \in Keys : pool[k] # NoFilter /\ k \notin overlapped => OnceAt(k)

(* The notifications waiting for the task are about blocks of the chain or *)
(* beside it.                                                              *)
QueueInv == \A i \in 1..Len(queue) : queue[i] <= best

(* A handler that returns, or one that begins to create, polls no key. *)
LEMMA FewerPolls ==
  ASSUME Exclusive, \A c \in Clients, k \in Keys : Polls(c, k)' => Polls(c, k),
         overlapped' = overlapped
  PROVE  Exclusive'
BY DEF Exclusive

LEMMA OnceKept ==
  ASSUME OnceInv, NEW k \in Keys, pool[k] # NoFilter, pool'[k] = pool[k],
         delivered'[k] = delivered[k], k \notin overlapped,
         \A c \in Clients : Polls(c, k)' => Polls(c, k) /\ seen'[c] = seen[c]
  PROVE  OnceAt(k)'
<1>1. OnceAt(k)
  BY DEF OnceInv
<1>2. QED
  BY <1>1 DEF OnceAt

LEMMA ReturnPolls ==
  ASSUME TypeOK, NEW c \in Clients, Return(c)
  PROVE  \A d \in Clients, k \in Keys :
           Polls(d, k)' => d # c /\ Polls(d, k) /\ seen'[d] = seen[d]
<1> SUFFICES ASSUME NEW d \in Clients, NEW k \in Keys, Polls(d, k)'
             PROVE  d # c /\ Polls(d, k) /\ seen'[d] = seen[d]
  OBVIOUS
<1>1. d # c
  BY DEF Polls, Return, TypeOK
<1>2. QED
  BY <1>1 DEF Polls, Return, TypeOK

LEMMA OncePolled ==
  ASSUME IndInv, OnceInv, NEW c \in Clients, PollAnswered(c)
  PROVE  OnceInv'
<1>0. PICK k \in Keys : k = req[c]
  BY DEF IndInv, TypeOK, PollAnswered
<1> DEFINE cnt == [n \in Heights |-> IF n \in Covered(pool[k], seen[c])
                                       THEN delivered[k][n] + 1 ELSE delivered[k][n]]
           new == AfterPoll(pool[k], seen[c])
<1>1. /\ k \in Keys /\ Polls(c, k) /\ pool[k] # NoFilter /\ Return(c) /\ overlapped' = overlapped
      /\ seen[c] \in Nat /\ pool[k] \in Item /\ pool[k].last_poll \in Nat
      /\ delivered[k] \in [Heights -> Nat]
  BY <1>0 DEF IndInv, TypeOK, PollAnswered, Polls, Item, Heights
<1>2. delivered' = [delivered EXCEPT ![k] = cnt] /\ pool' = [pool EXCEPT ![k] = new]
  BY <1>0, <1>1 DEF PollAnswered, IndInv, TypeOK
<1>3. new.last_poll = seen[c] + 1 /\ new.filter_type = pool[k].filter_type
  BY <1>1 DEF AfterPoll, Item
<1>4. \A d \in Clients, j \in Keys :
        Polls(d, j)' => d # c /\ Polls(d, j) /\ seen'[d] = seen[d]
  BY <1>1, ReturnPolls DEF IndInv
<1>5. Exclusive'
  BY <1>1, <1>4, FewerPolls DEF OnceInv
<1>6. k \notin overlapped => \A d \in Clients : ~Polls(d, k)'
  BY <1>1, <1>4 DEF OnceInv, Exclusive
<1>7. ASSUME k \notin overlapped
      PROVE  OnceAt(k)'
  <2> SUFFICES ASSUME pool'[k].filter_type.type = "Block", NEW n \in Heights
               PROVE  /\ delivered'[k][n] <= 1
                      /\ n >= pool'[k].last_poll => delivered'[k][n] = 0
    BY <1>6, <1>7 DEF OnceAt
  <2>1. pool'[k] = new /\ delivered'[k] = cnt
    BY <1>1, <1>2 DEF IndInv, TypeOK
  <2>2. pool[k].filter_type.type = "Block"
    BY <1>3, <2>1
  <2>3. OnceAt(k)
    BY <1>1, <1>7 DEF OnceInv
  <2>4. /\ delivered[k][n] \in Nat /\ n \in Nat
        /\ delivered[k][n] <= 1
        /\ n >= pool[k].last_poll => delivered[k][n] = 0
        /\ n > seen[c] => delivered[k][n] = 0
    <3> HIDE DEF cnt, new
    <3>0. n \in Nat
      BY PoolAssumption DEF Heights
    <3>1. delivered[k][n] \in Nat
      BY <1>1
    <3>2. \A d \in Clients : Polls(d, k) /\ n > seen[d] => delivered[k][n] = 0
      BY <2>2, <2>3 DEF OnceAt
    <3>3. delivered[k][n] <= 1 /\ (n >= pool[k].last_poll => delivered[k][n] = 0)
      BY <2>2, <2>3 DEF OnceAt
    <3>4. QED
      BY <1>1, <3>0, <3>1, <3>2, <3>3
  <2>5. n \in Covered(pool[k], seen[c]) <=> pool[k].last_poll <= n /\ n < seen[c] + 1
    BY <2>2 DEF Covered, BlockRange
  <2>6. cnt[n] = IF n \in Covered(pool[k], seen[c]) THEN delivered[k][n] + 1 ELSE delivered[k][n]
    OBVIOUS
  <2> HIDE DEF cnt, new
  <2>7. QED
    BY <1>1, <1>3, <2>1, <2>4, <2>5, <2>6
<1> HIDE DEF cnt, new
<1>8. ASSUME NEW j \in Keys, pool'[j] # NoFilter, j \notin overlapped'
      PROVE  OnceAt(j)'
  <2>1. CASE j = k
    BY <1>1, <1>7, <1>8, <2>1
  <2>2. CASE j # k
    <3>1. pool'[j] = pool[j] /\ delivered'[j] = delivered[j]
      BY <1>2, <2>2 DEF IndInv, TypeOK
    <3>2. QED
      BY <1>1, <1>4, <1>8, <3>1, OnceKept
  <2>3. QED
    BY <2>1, <2>2
<1>9. QED
  BY <1>5, <1>8 DEF OnceInv

LEMMA OnceStored ==
  ASSUME IndInv, OnceInv, NEW c \in Clients, CreateStored(c)
  PROVE  OnceInv'
<1> DEFINE item == [filter_type |-> req[c], last_poll |-> seen[c], at_block |-> seen[c]]
<1>1. PICK key \in Keys :
        /\ pool' = [pool EXCEPT ![key] = item]
        /\ delivered' = [delivered EXCEPT ![key] = [n \in Heights |-> 0]]
  BY DEF CreateStored
<1>2. Return(c) /\ overlapped' = overlapped
  BY DEF CreateStored
<1>3. \A d \in Clients, j \in Keys :
        Polls(d, j)' => d # c /\ Polls(d, j) /\ seen'[d] = seen[d]
  BY <1>2, ReturnPolls DEF IndInv
<1>4. Exclusive'
  BY <1>2, <1>3, FewerPolls DEF OnceInv
<1>5. ASSUME NEW j \in Keys, pool'[j] # NoFilter, j \notin overlapped'
      PROVE  OnceAt(j)'
  <2>1. CASE j = key
    <3>1. \A n \in Heights : delivered'[j][n] = 0
      BY <1>1, <2>1 DEF IndInv, TypeOK
    <3>2. QED
      BY <3>1 DEF OnceAt
  <2>2. CASE j # key
    <3>1. pool'[j] = pool[j] /\ delivered'[j] = delivered[j]
      BY <1>1, <2>2 DEF IndInv, TypeOK
    <3>2. QED
      BY <1>2, <1>3, <1>5, <3>1, OnceKept
  <2>3. QED
    BY <2>1, <2>2
<1>6. QED
  BY <1>4, <1>5 DEF OnceInv

LEMMA OncePollBegin ==
  ASSUME IndInv, OnceInv, NEW c \in Clients, NEW k \in Keys, PollBegin(c, k)
  PROVE  OnceInv'
<1>1. /\ pc[c] = "idle" /\ pc' = [pc EXCEPT ![c] = "poll"] /\ req' = [req EXCEPT ![c] = k]
      /\ seen' = [seen EXCEPT ![c] = best] /\ UNCHANGED <<pool, delivered>>
  BY DEF PollBegin, Enter
<1>2. /\ overlapped \subseteq overlapped'
      /\ (\E d \in Clients : Polls(d, k)) => k \in overlapped'
  BY DEF PollBegin, Polls
<1>3. \A d \in Clients, j \in Keys : d # c => (Polls(d, j)' <=> Polls(d, j)) /\ seen'[d] = seen[d]
  BY <1>1 DEF Polls, IndInv, TypeOK
<1>4. \A j \in Keys : Polls(c, j)' => j = k
  BY <1>1 DEF Polls, IndInv, TypeOK
<1>5. Exclusive'
  BY <1>2, <1>3, <1>4 DEF OnceInv, Exclusive
<1>6. seen'[c] = best /\ best \in Nat
  BY <1>1 DEF IndInv, TypeOK, Heights
<1>7. ASSUME NEW j \in Keys, pool'[j] # NoFilter, j \notin overlapped'
      PROVE  OnceAt(j)'
  <2>1. OnceAt(j) /\ pool'[j] = pool[j] /\ delivered'[j] = delivered[j]
    BY <1>1, <1>2, <1>7 DEF OnceInv
  <2>2. pool[j].last_poll <= best + 1 /\ pool[j].last_poll \in Nat
    BY <1>1, <1>7 DEF IndInv, LastPollBounded, Stored, TypeOK, Item
  <2>3. \A n \in Heights : n \in Nat /\ (n > best => n >= pool[j].last_poll)
    BY <1>6, <2>2 DEF Heights
  <2>4. SUFFICES ASSUME pool[j].filter_type.type = "Block", NEW n \in Heights,
                        NEW d \in Clients, Polls(d, j)', n > seen'[d]
                 PROVE  delivered[j][n] = 0
    BY <2>1 DEF OnceAt
  <2>5. CASE d = c
    BY <1>6, <2>1, <2>3, <2>4, <2>5 DEF OnceAt
  <2>6. CASE d # c
    BY <1>3, <2>1, <2>4, <2>6 DEF OnceAt
  <2>7. QED
    BY <2>5, <2>6
<1>8. QED
  BY <1>5, <1>7 DEF OnceInv

(* Every other step leaves the stored filters, and what was delivered, as  *)
(* they are, and no further poll begins.                                   *)
LEMMA OnceOthers ==
  ASSUME IndInv, OnceInv, overlapped' = overlapped, delivered' = delivered,
         \A k \in Keys : pool'[k] # NoFilter => pool'[k] = pool[k],
         \A c \in Clients, k \in Keys : Polls(c, k)' => Polls(c, k) /\ seen'[c] = seen[c]
  PROVE  OnceInv'
<1>1. Exclusive'
  BY FewerPolls DEF OnceInv
<1>2. ASSUME NEW k \in Keys, pool'[k] # NoFilter, k \notin overlapped'
      PROVE  OnceAt(k)'
  BY <1>2, OnceKept
<1>3. QED
  BY <1>1, <1>2 DEF OnceInv

LEMMA OnceNext == IndInv /\ OnceInv /\ [Next]_vars => OnceInv'
<1> SUFFICES ASSUME IndInv, OnceInv, [Next]_vars PROVE OnceInv'
  OBVIOUS
<1>1. CASE ImportBest \/ \E n \in Heights : ImportFork(n)
  <2>1. UNCHANGED <<pool, delivered, overlapped, pc, seen, req>>
    BY <1>1 DEF ImportBest, ImportFork
  <2>2. \A c \in Clients, k \in Keys : Polls(c, k)' => Polls(c, k) /\ seen'[c] = seen[c]
    BY <2>1 DEF Polls
  <2>3. QED
    BY <2>1, <2>2, OnceOthers
<1>2. ASSUME NEW c \in Clients, NEW f \in FilterTypes, CreateBegin(c, f)
      PROVE  OnceInv'
  <2>1. Enter(c, "create", f) /\ UNCHANGED <<pool, delivered, overlapped>>
    BY <1>2 DEF CreateBegin, Enter
  <2>2. ASSUME NEW d \in Clients, NEW k \in Keys, Polls(d, k)'
        PROVE  Polls(d, k) /\ seen'[d] = seen[d]
    <3>1. d # c
      BY <2>1, <2>2 DEF Enter, Polls, IndInv, TypeOK
    <3>2. QED
      BY <2>1, <2>2, <3>1 DEF Enter, Polls, IndInv, TypeOK
  <2>3. QED
    BY <2>1, <2>2, OnceOthers
<1>3. ASSUME NEW c \in Clients, NEW k \in Keys, PollBegin(c, k)
      PROVE  OnceInv'
  BY <1>3, OncePollBegin
<1>4. ASSUME NEW c \in Clients, CreateRefused(c) \/ PollFailed(c)
      PROVE  OnceInv'
  <2>1. Return(c) /\ UNCHANGED <<pool, delivered, overlapped>>
    BY <1>4 DEF CreateRefused, PollFailed
  <2>2. \A d \in Clients, k \in Keys : Polls(d, k)' => Polls(d, k) /\ seen'[d] = seen[d]
    BY <2>1, ReturnPolls DEF IndInv
  <2>3. QED
    BY <2>1, <2>2, OnceOthers
<1>5. ASSUME NEW c \in Clients, CreateStored(c)
      PROVE  OnceInv'
  BY <1>5, OnceStored
<1>6. ASSUME NEW c \in Clients, PollAnswered(c)
      PROVE  OnceInv'
  BY <1>6, OncePolled
<1>7. CASE DropOldFilters \/ \E k \in Keys : Uninstall(k)
  <2>1. /\ UNCHANGED <<delivered, overlapped, pc, seen, req>>
        /\ \A k \in Keys : pool'[k] # NoFilter => pool'[k] = pool[k]
    BY <1>7 DEF IndInv, TypeOK, DropOldFilters, Uninstall
  <2>2. \A c \in Clients, k \in Keys : Polls(c, k)' => Polls(c, k) /\ seen'[c] = seen[c]
    BY <2>1 DEF Polls
  <2>3. QED
    BY <2>1, <2>2, OnceOthers
<1>8. CASE UNCHANGED vars
  <2>1. UNCHANGED <<pool, delivered, overlapped, pc, seen, req>>
    BY <1>8 DEF vars
  <2>2. \A c \in Clients, k \in Keys : Polls(c, k)' => Polls(c, k) /\ seen'[c] = seen[c]
    BY <2>1 DEF Polls
  <2>3. QED
    BY <2>1, <2>2, OnceOthers
<1>9. QED
  BY <1>1, <1>2, <1>3, <1>4, <1>5, <1>6, <1>7, <1>8 DEF Next

(* A block filter delivers no height twice as long as no two polls of its  *)
(* key were in progress at once, also when filter_changes runs against a   *)
(* filter that was uninstalled and created again after it had read the     *)
(* best number.                                                            *)
THEOREM BlocksDeliveredOnce == Spec => []BlocksOnce
<1>1. Init => OnceInv
  BY DEF Init, OnceInv, Exclusive, Polls
<1>2. OnceInv => BlocksOnce
  BY DEF OnceInv, OnceAt, BlocksOnce, Stored
<1>3. QED
  BY <1>1, <1>2, Inductive, OnceNext, PTL DEF Spec

-----------------------------------------------------------------------------
LEMMA QueueNext == IndInv /\ QueueInv /\ [Next]_vars => QueueInv'
<1> SUFFICES ASSUME IndInv, QueueInv, [Next]_vars PROVE QueueInv'
  OBVIOUS
<1>0. best \in Nat /\ queue \in Seq(Heights) /\ Len(queue) \in Nat
  BY LenProperties DEF IndInv, TypeOK, Heights
<1>1. ASSUME NEW n \in Heights, queue' = Append(queue, n), n <= best', best <= best',
             best' \in Nat
      PROVE  QueueInv'
  <2>1. /\ Len(queue') = Len(queue) + 1 /\ queue'[Len(queue) + 1] = n
        /\ \A i \in 1..Len(queue) : queue'[i] = queue[i]
    BY <1>0, <1>1, AppendProperties
  <2>2. ASSUME NEW i \in 1..Len(queue')
        PROVE  queue'[i] <= best'
    <3>1. CASE i = Len(queue) + 1
      BY <1>1, <2>1, <3>1
    <3>2. CASE i # Len(queue) + 1
      <4>1. i \in 1..Len(queue)
        BY <1>0, <2>1, <3>2
      <4>2. queue[i] <= best /\ queue[i] \in Heights
        BY <1>0, <4>1, ElementOfSeq DEF QueueInv
      <4>3. QED
        BY <1>0, <1>1, <2>1, <4>1, <4>2 DEF Heights
    <3>3. QED
      BY <3>1, <3>2
  <2>3. QED
    BY <2>2 DEF QueueInv
<1>2. CASE ImportBest
  <2>1. /\ best + 1 \in Heights /\ queue' = Append(queue, best + 1)
        /\ best' = best + 1 /\ best + 1 <= best' /\ best <= best' /\ best' \in Nat
    BY <1>0, <1>2, PoolAssumption DEF ImportBest, Heights
  <2>2. QED
    BY <1>1, <2>1
<1>3. CASE \E n \in Heights : ImportFork(n)
  <2>1. PICK n \in Heights : ImportFork(n)
    BY <1>3
  <2>2. queue' = Append(queue, n) /\ n <= best' /\ best <= best' /\ best' \in Nat
    BY <1>0, <2>1 DEF ImportFork
  <2>3. QED
    BY <1>1, <2>2
<1>4. CASE DropOldFilters
  <2>1. queue # <<>> /\ queue' = Tail(queue) /\ best' = best
    BY <1>4, Zenon DEF DropOldFilters
  <2>2. /\ Len(Tail(queue)) = Len(queue) - 1
        /\ \A i \in 1..Len(Tail(queue)) : Tail(queue)[i] = queue[i + 1]
    BY <1>0, <2>1, HeadTailProperties
  <2>3. \A i \in 1..Len(Tail(queue)) : i + 1 \in 1..Len(queue)
    BY <1>0, <2>2
  <2>4. QED
    BY <2>1, <2>2, <2>3 DEF QueueInv
<1>5. CASE UNCHANGED <<best, queue>>
  BY <1>5 DEF QueueInv
<1>6. CASE \E c \in Clients :
             \/ \E f \in FilterTypes : CreateBegin(c, f)
             \/ \E k \in Keys : PollBegin(c, k)
             \/ CreateRefused(c)
             \/ CreateStored(c)
             \/ PollAnswered(c)
             \/ PollFailed(c)
  <2>1. UNCHANGED <<best, queue>>
    BY <1>6 DEF CreateBegin, PollBegin, Enter, CreateRefused, CreateStored, PollAnswered,
                PollFailed, Return
  <2>2. QED
    BY <1>5, <2>1
<1>7. CASE \E k \in Keys : Uninstall(k)
  BY <1>5, <1>7 DEF Uninstall
<1>8. CASE UNCHANGED vars
  BY <1>5, <1>8 DEF vars
<1>9. QED
  BY <1>2, <1>3, <1>4, <1>6, <1>7, <1>8 DEF Next

(* filter_pool_task removes no filter before the chain is                  *)
(* FILTER_RETAIN_THRESHOLD blocks longer than when the filter was created, *)
(* although notifications come late and for blocks of forks.               *)
THEOREM NoFilterExpiresEarly == Spec => NoEarlyExpiry
<1> DEFINE Kept == queue # queue' /\ best' = best =>
                     \A k \in Stored : pool'[k] = NoFilter => best - pool[k].at_block >= THRESHOLD
<1>1. Init => QueueInv
  BY EmptySeq DEF Init, QueueInv
<1>2. IndInv /\ QueueInv /\ [Next]_vars => [Kept]_vars
  <2> SUFFICES ASSUME IndInv, QueueInv, [Next]_vars, queue # queue', best' = best,
                      NEW k \in Stored, pool'[k] = NoFilter
               PROVE  best - pool[k].at_block >= THRESHOLD
    OBVIOUS
  <2>0. k \in Keys /\ pool[k] # NoFilter /\ pool[k] \in Item
    BY DEF Stored, IndInv, TypeOK
  <2>1. DropOldFilters
    <3>1. ~UNCHANGED <<best, queue>> /\ ~UNCHANGED pool
      BY <2>0
    <3>2. ~ImportBest /\ ~(\E n \in Heights : ImportFork(n)) /\ ~UNCHANGED vars
      BY <3>1 DEF ImportBest, ImportFork, vars
    <3>3. ~\E j \in Keys : Uninstall(j)
      BY <3>1 DEF Uninstall
    <3>4. ~\E c \in Clients :
             \/ \E f \in FilterTypes : CreateBegin(c, f)
             \/ \E j \in Keys : PollBegin(c, j)
             \/ CreateRefused(c)
             \/ CreateStored(c)
             \/ PollAnswered(c)
             \/ PollFailed(c)
      BY <3>1 DEF CreateBegin, PollBegin, Enter, CreateRefused, CreateStored, PollAnswered,
                  PollFailed, Return
    <3>5. QED
      BY <3>2, <3>3, <3>4 DEF Next
  <2>2. queue # <<>> /\ Expired(pool[k], Head(queue))
    BY <2>0, <2>1 DEF DropOldFilters
  <2>3. Head(queue) = queue[1] /\ 1 \in 1..Len(queue) /\ Head(queue) \in Heights
    BY <2>2, EmptySeq, HeadTailProperties DEF IndInv, TypeOK
  <2>4. Head(queue) <= best
    BY <2>3 DEF QueueInv
  <2>5. pool[k].at_block + THRESHOLD <= Head(queue)
    BY <2>2 DEF Expired
  <2>6. /\ pool[k].at_block \in Nat /\ best \in Nat /\ THRESHOLD \in Nat /\ Head(queue) \in Nat
    BY <2>0, <2>3, PoolAssumption DEF Item, Heights, IndInv, TypeOK
  <2>7. QED
    BY <2>4, <2>5, <2>6
<1>3. QED
  BY <1>1, <1>2, Inductive, QueueNext, PTL DEF Spec, NoEarlyExpiry
=============================================================================
