------------------------------ MODULE EvmStack ------------------------------
(***************************************************************************)
(* The state an EVM execution works on: SubstrateStackState and its        *)
(* substates (frame/evm/src/runner/stack.rs), and the codes and storages   *)
(* of contracts with the references they hold on accounts                  *)
(* (frame/evm/src/lib.rs).                                                 *)
(*                                                                         *)
(* Two stacks are kept in step by the code: the substates (frames), which  *)
(* collect logs and deletions, and the transactional layers of the         *)
(* runtime's storage (layers), which undo writes.  Frame 1 is the root and *)
(* has no layer.                                                           *)
(*                                                                         *)
(* External: the layers, the balances and system pallets, and the EVM's    *)
(* StackExecutor, of which the order of its calls on the state is kept     *)
(* (actions); what the code of a contract does is chosen freely.  Fees are *)
(* in EvmRunner.                                                           *)
(***************************************************************************)
EXTENDS Naturals, Sequences, SequencesExt, FiniteSetsExt

CONSTANTS
  Addr,      \* Ethereum addresses
  User,      \* the account that sends the transactions
  Slots,     \* storage indices
  Logs,      \* what a log may say
  Values,    \* the values sent with a call or a creation
  ED,        \* ExistentialDeposit
  GenesisAccounts,  \* address -> [nonce, balance, storage, code]
  Absent,    \* no entry in AccountCodes
  MaxDepth,  \* bound on the substates
  MaxOps,    \* bound on the operations of one execution
  MaxRuns    \* bound on the executions

Empty == "empty"  \* the code of no bytes
Code  == "code"   \* any other

ASSUME StackAssumption ==
  /\ User \in Addr
  /\ ED \in Nat \ {0}
  /\ Values \subseteq Nat
  /\ DOMAIN GenesisAccounts \subseteq Addr
  /\ \A a \in DOMAIN GenesisAccounts :
       GenesisAccounts[a] \in
         [nonce : Nat, balance : Nat, storage : SUBSET Slots, code : {Empty, Code}]
  /\ Absent \notin {Empty, Code}

VARIABLES
  world,   \* codes, storages, balances, nonces and consumer references
  layers,  \* storage transactions: the worlds they would roll back to
  frames,  \* substates, the innermost last
  events,  \* the logs deposited by the last execution
  ops, runs,  \* counters for the bounds
  live,    \* observation: the logs that were not reverted, in order
  deleted, \* observation: the deletions that were not reverted
  gone     \* observation: the accounts the last execution deleted

vars == <<world, layers, frames, events, ops, runs, live, deleted, gone>>

-----------------------------------------------------------------------------
(* External: pallet_balances and frame_system.  An account with free       *)
(* balance has a provider; without one, no consumer can be added.          *)
Providers(w, a) == IF w.free[a] >= ED THEN 1 ELSE 0

inc_consumers(w, a) == IF Providers(w, a) > 0 THEN [w EXCEPT !.consumers[a] = @ + 1] ELSE w

dec_consumers(w, a) == IF w.consumers[a] > 0 THEN [w EXCEPT !.consumers[a] = @ - 1] ELSE w

inc_account_nonce(w, a) == [w EXCEPT !.nonce[a] = @ + 1]

(* The account that a transfer leaves below ED is reaped, with its nonce,  *)
(* and cannot be while something holds a reference on it.                  *)
CanTransfer(w, from, to, value) ==
  \/ value = 0 \/ from = to
  \/ /\ w.free[from] >= value
     /\ w.free[to] + value >= ED
     /\ w.consumers[from] > 0 => w.free[from] - value >= ED

Transfer(w, from, to, value) ==
  IF value = 0 \/ from = to THEN w
  ELSE LET rest == w.free[from] - value IN
       IF rest >= ED THEN [w EXCEPT !.free[from] = rest, !.free[to] = @ + value]
       ELSE [w EXCEPT !.free[from] = 0, !.nonce[from] = 0, !.free[to] = @ + value]

-----------------------------------------------------------------------------
(* pallet_evm::Module *)
contains_key(w, a) == w.code[a] # Absent

MutLeak(w, a) == [w EXCEPT !.code[a] = Absent, !.storage[a] = {}]

remove_account(w, a) ==
  [ (IF contains_key(w, a) THEN dec_consumers(w, a) ELSE w)
    EXCEPT !.code[a] = Absent, !.storage[a] = {} ]

(* remove_account of every account of del, each of which changes the       *)
(* entries of its own account only.                                        *)
remove_accounts(w, del) ==
  LET each(was, a, now) == IF a \in del THEN now ELSE was IN
  [w EXCEPT
    !.code      = [a \in Addr |-> each(@[a], a, remove_account(w, a).code[a])],
    !.storage   = [a \in Addr |-> each(@[a], a, remove_account(w, a).storage[a])],
    !.consumers = [a \in Addr |-> each(@[a], a, remove_account(w, a).consumers[a])]]

create_account(w, a, code) ==
  IF code = Empty THEN w
  ELSE [ (IF contains_key(w, a) THEN w ELSE inc_consumers(w, a)) EXCEPT !.code[a] = code ]

genesis ==
  LET has(a) == a \in DOMAIN GenesisAccounts IN
  [ code      |-> [a \in Addr |-> IF has(a) THEN GenesisAccounts[a].code ELSE Absent],
    storage   |-> [a \in Addr |-> IF has(a) THEN GenesisAccounts[a].storage ELSE {}],
    free      |-> [a \in Addr |-> IF has(a) THEN GenesisAccounts[a].balance ELSE 0],
    nonce     |-> [a \in Addr |-> IF has(a) THEN GenesisAccounts[a].nonce ELSE 0],
    consumers |-> [a \in Addr |-> 0] ]

-----------------------------------------------------------------------------
(* A substate: the logs and deletions it collected, and its metadata, of   *)
(* which the model keeps whether the gasometer has failed.  at is the      *)
(* account whose code runs, creates whether it is a constructor; was, seen *)
(* and doomed are observations: the world, how many logs were live and     *)
(* which accounts deleted when it was entered.                             *)
Substate(s, at, creates) ==
  [ logs |-> <<>>, deletes |-> {}, failed |-> FALSE, at |-> at, creates |-> creates,
    was |-> s.world, seen |-> Len(s.live), doomed |-> s.deleted ]

Depth == Len(frames)
Top == frames[Depth]

(* The locals of one call on the state: everything it may change. *)
Now == [ world |-> world, layers |-> layers, frames |-> frames, live |-> live,
         deleted |-> deleted ]

Set(s) ==
  /\ world' = s.world /\ layers' = s.layers /\ frames' = s.frames
  /\ live' = s.live /\ deleted' = s.deleted

enter(s, at, creates) ==
  [s EXCEPT !.frames = Append(@, Substate(s, at, creates)), !.layers = Append(@, s.world)]

commit_transaction(s) == [s EXCEPT !.layers = Front(@)]
rollback_transaction(s) == [s EXCEPT !.layers = Front(@), !.world = Last(s.layers)]

(* swallow_commit and swallow_revert give unused gas back to the parent's  *)
(* gasometer, which refuses when it has failed; swallow_discard does not.  *)
ParentRefuses(s) == s.frames[Len(s.frames) - 1].failed

Merge(s) ==
  LET n == Len(s.frames) IN
  [Front(s.frames) EXCEPT ![n - 1].logs = @ \o s.frames[n].logs,
                          ![n - 1].deletes = @ \cup s.frames[n].deletes]

MutExitCommit(s) ==
  LET n == Len(s.frames) IN
  IF ParentRefuses(s) THEN [s EXCEPT !.frames = Front(@)]
  ELSE commit_transaction([s EXCEPT
    !.frames = [Front(@) EXCEPT ![n - 1].logs = s.frames[n].logs \o @,
                                ![n - 1].deletes = @ \cup s.frames[n].deletes]])

exit_commit(s) ==
  IF ParentRefuses(s) THEN [s EXCEPT !.frames = Front(@)]
  ELSE commit_transaction([s EXCEPT !.frames = Merge(s)])

(* The observations forget what the frame and its children did. *)
Forget(s) ==
  [s EXCEPT !.frames = Front(@), !.live = SubSeq(@, 1, Last(s.frames).seen),
            !.deleted = Last(s.frames).doomed]

MutExitRevert(s) ==
  IF ParentRefuses(s) THEN Forget(s) ELSE commit_transaction(Forget(s))

exit_revert(s) ==
  IF ParentRefuses(s) THEN Forget(s) ELSE rollback_transaction(Forget(s))

MutExitDiscard(s) ==
  IF Last(s.frames).failed THEN Forget(s) ELSE rollback_transaction(Forget(s))

exit_discard(s) == rollback_transaction(Forget(s))

set_storage(a, slot, value) ==
  [world EXCEPT !.storage[a] = IF value = 0 THEN @ \ {slot} ELSE @ \cup {slot}]

reset_storage(w, a) == [w EXCEPT !.storage[a] = {}]

-----------------------------------------------------------------------------
(* The executor. *)
Init ==
  /\ world = genesis
  /\ layers = <<>> /\ frames = <<>>
  /\ events = <<>>
  /\ ops = 0 /\ runs = 0
  /\ live = <<>> /\ deleted = {} /\ gone = {}

(* Runner::execute makes the root substate; nothing runs in it but the     *)
(* transaction's call or creation.                                         *)
Begin ==
  /\ frames = <<>>
  /\ runs < MaxRuns
  /\ frames' = <<Substate([Now EXCEPT !.live = <<>>, !.deleted = {}], User, FALSE)>>
  /\ runs' = runs + 1
  /\ ops' = 0
  /\ live' = <<>> /\ deleted' = {} /\ gone' = {} /\ events' = <<>>
  /\ UNCHANGED <<world, layers>>

(* The innermost frame goes on: the root with the transaction, once; a     *)
(* frame with code, a constructor's or that of its account, with anything. *)
InRoot == Depth = 1 /\ ops = 0
InCall == Depth > 1 /\ ~Top.failed
InCode == InCall /\ (Top.creates \/ world.code[Top.at] = Code)

Op ==
  /\ ops < MaxOps
  /\ ops' = ops + 1
  /\ UNCHANGED <<events, runs, gone>>

(* transact_call raises the nonce in the root, call_inner enters, moves    *)
(* the value, and reverts at once when it cannot.                          *)
Call(to, value) ==
  /\ (InRoot \/ InCode) /\ Op
  /\ Depth < MaxDepth
  /\ LET raised == IF Depth = 1 THEN inc_account_nonce(world, Top.at) ELSE world
         in == enter([Now EXCEPT !.world = raised], to, FALSE)
     IN  Set(IF CanTransfer(raised, Top.at, to, value)
             THEN [in EXCEPT !.world = Transfer(@, Top.at, to, value)]
             ELSE exit_revert(in))

(* create_inner: the balance is looked at, the creator's nonce raised,     *)
(* and in a frame of its own come the collision check, reset_storage, the  *)
(* value and the new account's nonce.                                      *)
Create(a, value) ==
  /\ (InRoot \/ InCode) /\ Op
  /\ Depth < MaxDepth
  /\ world.free[Top.at] >= value
  /\ LET raised == inc_account_nonce(world, Top.at)
         in == enter([Now EXCEPT !.world = raised], a, TRUE)
         fresh == raised.code[a] # Code /\ raised.nonce[a] = 0
         cleared == reset_storage(raised, a)
     IN  Set(IF ~fresh THEN exit_discard(in)
             ELSE IF ~CanTransfer(cleared, Top.at, a, value) THEN exit_revert(in)
             ELSE [in EXCEPT !.world = inc_account_nonce(Transfer(cleared, Top.at, a, value), a)])

SetStorage(slot, value) ==
  /\ InCode /\ Op
  /\ world' = set_storage(Top.at, slot, value)
  /\ UNCHANGED <<layers, frames, live, deleted>>

Log(l) ==
  /\ InCode /\ Op
  /\ frames' = [frames EXCEPT ![Depth].logs = Append(@, l)]
  /\ live' = Append(live, l)
  /\ UNCHANGED <<world, layers, deleted>>

(* SELFDESTRUCT: all the balance goes to heir; when it cannot, the frame   *)
(* fails.  Otherwise set_deleted, and the frame ends with success.         *)
SelfDestruct(heir) ==
  /\ InCode /\ Op
  /\ LET me == Top.at
         balance == world.free[me]
         marked == [Now EXCEPT !.world = Transfer(@, me, heir, balance),
                               !.frames[Depth].deletes = @ \cup {me},
                               !.deleted = @ \cup {me}]
     IN  Set(IF CanTransfer(world, me, heir, balance) THEN exit_commit(marked)
             ELSE exit_discard(Now))

(* The gasometer fails for good; the frame can only be given up. *)
OutOfGas ==
  /\ InCode /\ Op
  /\ frames' = [frames EXCEPT ![Depth].failed = TRUE]
  /\ UNCHANGED <<world, layers, live, deleted>>

(* The frame ends: with success, and then a constructor's code is set      *)
(* outside of its frame; with a revert; or with an error.                  *)
Return(code) ==
  /\ InCall
  /\ ~Top.creates => code = Empty
  /\ LET out == exit_commit(Now)
     IN  Set(IF Top.creates THEN [out EXCEPT !.world = create_account(@, Top.at, code)] ELSE out)
  /\ UNCHANGED <<events, ops, runs, gone>>

Revert ==
  /\ InCode
  /\ Set(exit_revert(Now))
  /\ UNCHANGED <<events, ops, runs, gone>>

Fail ==
  /\ Depth > 1
  /\ Top.failed
  /\ Set(exit_discard(Now))
  /\ UNCHANGED <<events, ops, runs, gone>>

(* The end of Runner::execute: deletions, then the logs as events.         *)
Finish ==
  /\ Depth = 1
  /\ ops > 0
  /\ world' = remove_accounts(world, Top.deletes)
  /\ events' = Top.logs
  /\ gone' = Top.deletes
  /\ frames' = <<>>
  /\ UNCHANGED <<layers, ops, runs, live, deleted>>

Next ==
  \/ Begin \/ OutOfGas \/ Revert \/ Fail \/ Finish
  \/ \E a \in Addr, v \in Values : Call(a, v)
  \/ \E a \in Addr \ {User}, v \in Values : Create(a, v)
  \/ \E slot \in Slots, v \in {0, 1} : SetStorage(slot, v)
  \/ \E l \in Logs : Log(l)
  \/ \E a \in Addr : SelfDestruct(a)
  \/ \E code \in {Empty, Code} : Return(code)

Spec == Init /\ [][Next]_vars

-----------------------------------------------------------------------------
(* Every substate but the root has its storage transaction and no other is *)
(* open, although exit_commit and exit_revert return early when the        *)
(* metadata refuses: the executor never leaves a frame into a failed one.  *)
(* An execution leaves no storage transaction open.                        *)
StorageInStep == Len(layers) = IF frames = <<>> THEN 0 ELSE Depth - 1

(* A reverted or failed frame leaves nothing: the world is the one it was  *)
(* entered with, whatever its children committed into it, and its logs and *)
(* deletions go with it.                                                   *)
RevertUndoes ==
  [][Revert \/ Fail => /\ world' = Top.was
                       /\ frames' = Front(frames)
                       /\ layers' = Front(layers)]_vars

(* A substate holds what was logged since it was entered, outside of the   *)
(* substates entered from it and in the order in which it was made, but    *)
(* for what was reverted; together they hold the deletions that were not   *)
(* reverted; and that is what the execution deposits and removes.          *)
EffectsAreLive ==
  IF frames = <<>> THEN events = live /\ gone = deleted
  ELSE /\ frames[1].seen = 0
       /\ \A i \in 1..Depth :
            frames[i].logs = SubSeq(live, frames[i].seen + 1,
                                    IF i = Depth THEN Len(live) ELSE frames[i + 1].seen)
       /\ UNION {frames[i].deletes : i \in 1..Depth} = deleted

(* A deleted contract is gone with code, storage and reference, also when  *)
(* it was created in the same execution or called again after its end.     *)
DeletedGone ==
  frames = <<>> => \A a \in gone :
    world.code[a] = Absent /\ world.storage[a] = {} /\ world.consumers[a] = 0

(* References are counted without leaks although inc_consumers and         *)
(* dec_consumers may fail unnoticed: an account has at most one, only      *)
(* while it has code, and the reference keeps the account alive.           *)
ReferenceSound ==
  \A a \in Addr :
    /\ world.consumers[a] <= 1
    /\ world.consumers[a] = 1 =>
         world.code[a] = Code /\ world.free[a] >= ED

(* Accounts stay consistent through any sequence of creations, deletions   *)
(* and transfers: what is deleted is gone, what is referenced is there.    *)
AccountsSound == DeletedGone /\ ReferenceSound
=============================================================================
