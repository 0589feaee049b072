------------------------------- MODULE Pubsub -------------------------------
(***************************************************************************)
(* eth_subscribe and eth_unsubscribe (client/rpc/src/eth_pubsub.rs).  A    *)
(* subscription is a stream over the import notifications that came after  *)
(* it; each one is filtered, turned into results and sent, in its own      *)
(* time.  Results are abstracted to what they were made from: a block      *)
(* (newHeads, and logs, whose matching is in LogFilter), a transaction or  *)
(* the syncing flag.                                                       *)
(***************************************************************************)
EXTENDS Chain, SequencesExt

CONSTANTS
  Subs,      \* subscription ids
  Off,       \* not subscribed
  MaxPushed  \* bound on the results of one subscription

Kinds == {"logs", "newHeads", "newPendingTransactions", "syncing"}

VARIABLES
  syncing,  \* network.is_major_syncing()
  sub       \* id -> the subscription, or Off

pubsubVars == <<syncing, sub>>

InitPubsub == syncing = FALSE /\ sub = [s \in Subs |-> Off]

SyncingChanges ==
  /\ syncing' = ~syncing
  /\ UNCHANGED <<chainVars, index, sub>>

(* since is an observation: the flag when the subscription was made *)
subscribe(s, kind) ==
  /\ sub[s] = Off
  /\ sub' = [sub EXCEPT ![s] = [ kind |-> kind, next |-> Len(notes) + 1, pushed |-> <<>>,
                                 previous_syncing |-> syncing, since |-> syncing ]]
  /\ UNCHANGED <<chainVars, index, syncing>>

unsubscribe(s) ==
  /\ sub[s] # Off
  /\ sub' = [sub EXCEPT ![s] = Off]
  /\ UNCHANGED <<chainVars, index, syncing>>

(* The stream goes past one notification and pushes some results. *)
Advance(s, results) ==
  /\ Len(sub[s].pushed) + Len(results) <= MaxPushed
  /\ sub' = [sub EXCEPT ![s].next = @ + 1, ![s].pushed = @ \o results]
  /\ UNCHANGED <<chainVars, index, syncing>>

Polls(s, kinds) == sub[s] # Off /\ sub[s].kind \in kinds /\ sub[s].next <= Len(notes)

(* logs and newHeads: only new best blocks, read at their hash; a block    *)
(* whose state is gone is passed over.                                     *)
MutHeadOf(note) == <<note.block>>

HeadOf(note) == IF note.is_new_best THEN <<note.block>> ELSE <<>>

PushHead(s) ==
  /\ Polls(s, {"logs", "newHeads"})
  /\ LET note == notes[sub[s].next] IN
     \/ Advance(s, HeadOf(note))
     \/ note.is_new_best /\ MayBePruned(note.block) /\ Advance(s, <<>>)

(* newPendingTransactions: the Pending storage item of every imported      *)
(* block, on whatever fork.                                                *)
PushTransactions(s) ==
  /\ Polls(s, {"newPendingTransactions"})
  /\ Advance(s, Transactions(notes[sub[s].next].block))

(* syncing: the flag is read on every notification, and pushed when it     *)
(* changed and the block is a new best one.                                *)
PushSyncing(s) ==
  /\ Polls(s, {"syncing"})
  /\ IF notes[sub[s].next].is_new_best /\ syncing # sub[s].previous_syncing
     THEN /\ Len(sub[s].pushed) < MaxPushed
          /\ sub' = [sub EXCEPT ![s].next = @ + 1, ![s].pushed = Append(@, syncing),
                                ![s].previous_syncing = syncing]
          /\ UNCHANGED <<chainVars, index, syncing>>
     ELSE Advance(s, <<>>)

PubsubStep ==
  \/ SyncingChanges
  \/ \E s \in Subs :
       \/ \E kind \in Kinds : subscribe(s, kind)
       \/ unsubscribe(s)
       \/ PushHead(s) \/ PushTransactions(s) \/ PushSyncing(s)

(* Blocks are imported under the subscriptions; these read no index. *)
PubsubImport(b) == ImportBlock(b) /\ UNCHANGED pubsubVars

NextPubsub == PubsubStep \/ \E b \in Blocks : PubsubImport(b)

pubsubAll == <<chainVars, index, pubsubVars>>

SpecPubsub == InitChain /\ InitPubsub /\ [][NextPubsub]_pubsubAll

-----------------------------------------------------------------------------
Pushed(kinds) == {sub[s].pushed : s \in {i \in Subs : sub[i] # Off /\ sub[i].kind \in kinds}}

(* A block that no subscriber to heads is told of, although it became the *)
(* best one: it came with the initial sync, or its state is gone.          *)
Untold(b) == b \in Silent \/ MayBePruned(b)

(* The heads a subscriber sees grow, and leave out no block of the chain:  *)
(* if a block between two heads of one chain is missing, then a block at   *)
(* least as high was best before the second head and went untold, the      *)
(* missing block itself or one of a fork, next to which it was not a new   *)
(* best block.  (After a reorganisation the blocks below the new head were *)
(* never announced as best and are not pushed.)                            *)
HeadsFollowChain ==
  \A p \in Pushed({"logs", "newHeads"}) : \A i \in 1..Len(p) - 1 :
    /\ Number[p[i]] < Number[p[i + 1]]
    /\ p[i] \in Ancestors[p[i + 1]] =>
         \A b \in Ancestors[p[i + 1]] \ (Ancestors[p[i]] \cup {p[i + 1]}) :
           \E u \in imported :
             Untold(u) /\ Number[b] <= Number[u] /\ Number[u] < Number[p[i + 1]]

(* The syncing states a subscriber sees alternate, beginning with the      *)
(* opposite of what held when it subscribed, whatever it missed between.   *)
SyncAlternates ==
  \A s \in Subs : sub[s] # Off /\ sub[s].kind = "syncing" =>
    \A i \in DOMAIN sub[s].pushed :
      sub[s].pushed[i] = (IF i % 2 = 1 THEN ~sub[s].since ELSE sub[s].since)

(* Subscribers see the chain and the syncing state as they went on, not a  *)
(* step of them twice or out of order.                                     *)
PushesFaithful == HeadsFollowChain /\ SyncAlternates
=============================================================================
