--------------------------- MODULE EvmStackProofs ---------------------------
(***************************************************************************)
(* Proofs about EvmStack, for every set of addresses, every genesis, and   *)
(* executions of any length and depth.                                     *)
(***************************************************************************)
EXTENDS EvmStack, TLAPS, SequenceTheorems

World ==
  [ code : [Addr -> {Absent, Empty, Code}], storage : [Addr -> SUBSET Slots],
    free : [Addr -> Nat], nonce : [Addr -> Nat], consumers : [Addr -> Nat] ]

(* What AccountsSound says of the current world must hold of every world   *)
(* that a storage transaction may roll back to.                            *)
Referenced(w) ==
  \A a \in Addr :
    /\ w.consumers[a] <= 1
    /\ w.consumers[a] = 1 => w.code[a] = Code /\ w.free[a] >= ED

SoundWorld == {w \in World : Referenced(w)}

Frame ==
  [ logs : Seq(Logs), deletes : SUBSET Addr, failed : BOOLEAN, at : Addr,
    creates : BOOLEAN, was : SoundWorld, seen : Nat, doomed : SUBSET Addr ]

-----------------------------------------------------------------------------
(* The operations on the world keep it sound.                              *)

LEMMA TransferSound ==
  ASSUME NEW w \in SoundWorld, NEW from \in Addr, NEW to \in Addr, NEW value \in Nat,
         CanTransfer(w, from, to, value)
  PROVE  Transfer(w, from, to, value) \in SoundWorld
<1> USE StackAssumption
<1>1. CASE value = 0 \/ from = to
  BY <1>1 DEF Transfer
<1>2. CASE ~(value = 0 \/ from = to)
  <2> DEFINE t == Transfer(w, from, to, value)
             rest == w.free[from] - value
  <2>0. w \in World /\ Referenced(w)
    BY DEF SoundWorld
  <2>1. rest \in Nat /\ (w.consumers[from] > 0 => rest >= ED)
    BY <1>2, <2>0 DEF CanTransfer, World
  <2>2. t \in World
    <3>1. CASE rest >= ED
      <4>1. t = [w EXCEPT !.free = [[w.free EXCEPT ![from] = rest] EXCEPT ![to] = w.free[to] + value]]
        BY <1>2, <2>0, <3>1 DEF Transfer, World
      <4>2. [[w.free EXCEPT ![from] = rest] EXCEPT ![to] = w.free[to] + value] \in [Addr -> Nat]
        BY <2>0, <2>1 DEF World
      <4>3. QED
        BY <2>0, <4>1, <4>2 DEF World
    <3>2. CASE ~(rest >= ED)
      <4>1. t = [w EXCEPT !.free = [[w.free EXCEPT ![from] = 0] EXCEPT ![to] = w.free[to] + value],
                          !.nonce = [w.nonce EXCEPT ![from] = 0]]
        BY <1>2, <2>0, <3>2 DEF Transfer, World
      <4>2. /\ [[w.free EXCEPT ![from] = 0] EXCEPT ![to] = w.free[to] + value] \in [Addr -> Nat]
            /\ [w.nonce EXCEPT ![from] = 0] \in [Addr -> Nat]
        BY <2>0 DEF World
      <4>3. QED
        BY <2>0, <4>1, <4>2 DEF World
    <3>3. QED
      BY <3>1, <3>2
  <2>3. ASSUME NEW a \in Addr
        PROVE  /\ t.consumers[a] = w.consumers[a]
               /\ t.code[a] = w.code[a]
               /\ w.consumers[a] = 1 /\ w.free[a] >= ED => t.free[a] >= ED
    BY <1>2, <2>0, <2>1 DEF Transfer, World
  <2> HIDE DEF t
  <2>4. Referenced(t)
    BY <2>0, <2>3 DEF Referenced
  <2>5. QED
    BY <2>2, <2>4 DEF SoundWorld, t
<1>3. QED
  BY <1>1, <1>2

LEMMA NonceSound ==
  ASSUME NEW w \in SoundWorld, NEW a \in Addr
  PROVE  inc_account_nonce(w, a) \in SoundWorld
BY DEF inc_account_nonce, SoundWorld, World, Referenced

LEMMA ResetSound ==
  ASSUME NEW w \in SoundWorld, NEW a \in Addr
  PROVE  reset_storage(w, a) \in SoundWorld
BY DEF reset_storage, SoundWorld, World, Referenced

LEMMA CreateAccountSound ==
  ASSUME NEW w \in SoundWorld, NEW a \in Addr, NEW code \in {Empty, Code}
  PROVE  create_account(w, a, code) \in SoundWorld
<1> USE StackAssumption
<1> DEFINE t == create_account(w, a, code)
<1>0. w \in World /\ Referenced(w)
  BY DEF SoundWorld
<1>1. t \in World
  <2> DEFINE v == IF contains_key(w, a) THEN w ELSE inc_consumers(w, a)
  <2>1. v \in World
    <3>1. inc_consumers(w, a) \in World
      BY <1>0 DEF inc_consumers, World
    <3>2. QED
      BY <1>0, <3>1
  <2>2. code # Empty => t = [v EXCEPT !.code[a] = code]
    BY DEF create_account
  <2>3. code = Empty => t = w
    BY DEF create_account
  <2> HIDE DEF v
  <2>4. [v EXCEPT !.code[a] = code] \in World
    BY <2>1 DEF World
  <2>5. QED
    BY <1>0, <2>2, <2>3, <2>4
<1>2. ASSUME NEW b \in Addr
      PROVE  /\ t.consumers[b] <= 1
             /\ t.consumers[b] = 1 => t.code[b] = Code /\ t.free[b] >= ED
  <2>1. w.consumers[b] \in Nat /\ w.free[b] \in Nat /\ ED \in Nat
    BY <1>0 DEF World
  <2>2. /\ w.consumers[b] <= 1
        /\ w.consumers[b] = 1 => w.code[b] = Code /\ w.free[b] >= ED
    BY <1>0 DEF Referenced
  <2>3. CASE code = Empty
    BY <2>2, <2>3 DEF create_account
  <2>4. CASE code = Code /\ b # a
    BY <1>0, <2>1, <2>2, <2>4 DEF create_account, inc_consumers, World
  <2>5. CASE code = Code /\ b = a
    BY <1>0, <2>1, <2>2, <2>5 DEF create_account, inc_consumers, Providers, contains_key, World,
       Empty, Code
  <2>6. QED
    BY <2>3, <2>4, <2>5
<1> HIDE DEF t
<1>3. QED
  BY <1>1, <1>2 DEF SoundWorld, Referenced, t

(* The deletions leave neither code nor storage nor reference.             *)
LEMMA RemoveAccountsSound ==
  ASSUME NEW w \in SoundWorld, NEW del \in SUBSET Addr
  PROVE  /\ remove_accounts(w, del) \in SoundWorld
         /\ \A a \in del :
              /\ remove_accounts(w, del).code[a] = Absent
              /\ remove_accounts(w, del).storage[a] = {}
              /\ remove_accounts(w, del).consumers[a] = 0
<1> USE StackAssumption
<1> DEFINE t == remove_accounts(w, del)
<1>0. w \in World /\ Referenced(w)
  BY DEF SoundWorld
<1>1. ASSUME NEW a \in Addr
      PROVE  /\ remove_account(w, a).code[a] = Absent
             /\ remove_account(w, a).storage[a] = {}
             /\ remove_account(w, a).consumers[a] = 0
  <2>1. w.consumers[a] \in Nat /\ w.consumers[a] <= 1 /\ (w.consumers[a] = 1 => w.code[a] = Code)
    BY <1>0 DEF World, Referenced
  <2>2. QED
    BY <1>0, <2>1 DEF remove_account, dec_consumers, contains_key, World
<1>2. /\ t.code = [a \in Addr |-> IF a \in del THEN Absent ELSE w.code[a]]
      /\ t.storage = [a \in Addr |-> IF a \in del THEN {} ELSE w.storage[a]]
      /\ t.consumers = [a \in Addr |-> IF a \in del THEN 0 ELSE w.consumers[a]]
      /\ t.free = w.free /\ t.nonce = w.nonce
      /\ t = [code |-> t.code, storage |-> t.storage, free |-> t.free, nonce |-> t.nonce,
              consumers |-> t.consumers]
  <2> DEFINE code == [a \in Addr |-> IF a \in del THEN Absent ELSE w.code[a]]
             storage == [a \in Addr |-> IF a \in del THEN {} ELSE w.storage[a]]
             consumers == [a \in Addr |-> IF a \in del THEN 0 ELSE w.consumers[a]]
  <2>1. t = [w EXCEPT !.code = code, !.storage = storage, !.consumers = consumers]
    <3> DEFINE c == [a \in Addr |-> IF a \in del THEN remove_account(w, a).code[a] ELSE w.code[a]]
               s == [a \in Addr |-> IF a \in del THEN remove_account(w, a).storage[a]
                                    ELSE w.storage[a]]
               n == [a \in Addr |-> IF a \in del THEN remove_account(w, a).consumers[a]
                                    ELSE w.consumers[a]]
    <3>1. t = [w EXCEPT !.code = c, !.storage = s, !.consumers = n]
      BY DEF remove_accounts
    <3>2. c = code
      BY <1>1
    <3>3. s = storage
      BY <1>1
    <3>4. n = consumers
      BY <1>1
    <3>5. QED
      BY <3>1, <3>2, <3>3, <3>4
  <2> HIDE DEF code, storage, consumers, t
  <2>2. /\ t.code = code /\ t.storage = storage /\ t.consumers = consumers
        /\ t.free = w.free /\ t.nonce = w.nonce
        /\ t = [code |-> t.code, storage |-> t.storage, free |-> t.free, nonce |-> t.nonce,
                consumers |-> t.consumers]
    BY <1>0, <2>1 DEF World
  <2>3. QED
    BY <2>2 DEF code, storage, consumers
<1> HIDE DEF t
<1>3. t \in World
  BY <1>0, <1>2 DEF World
<1>4. Referenced(t)
  BY <1>0, <1>2 DEF World, Referenced
<1>5. QED
  BY <1>2, <1>3, <1>4 DEF SoundWorld, t

LEMMA GenesisSound == genesis \in SoundWorld
<1>1. genesis \in World
  BY StackAssumption DEF genesis, World
<1>2. Referenced(genesis)
  BY DEF genesis, Referenced
<1>3. QED
  BY <1>1, <1>2 DEF SoundWorld

-----------------------------------------------------------------------------
(* The two stacks in step: a frame other than the root has the transaction *)
(* that would restore the world it was entered with, and no frame but the  *)
(* innermost has a failed gasometer, the root never.                       *)
InStep(ws, fs) ==
  /\ ws \in Seq(SoundWorld)
  /\ fs \in Seq(Frame) /\ fs # <<>>
  /\ Len(ws) = Len(fs) - 1
  /\ \A i \in 1..Len(fs) : fs[i].failed => i = Len(fs) /\ i > 1
  /\ \A i \in 1..Len(ws) : fs[i + 1].was = ws[i]

LEMMA FrontProperties ==
  ASSUME NEW S, NEW s \in Seq(S), s # <<>>
  PROVE  /\ Len(s) \in Nat \ {0}
         /\ Front(s) \in Seq(S)
         /\ Len(Front(s)) = Len(s) - 1
         /\ \A i \in 1..(Len(s) - 1) : Front(s)[i] = s[i]
         /\ Last(s) \in S /\ Last(s) = s[Len(s)]
         /\ \A i \in 1..Len(s) : s[i] \in S
<1>1. Len(s) \in Nat \ {0} /\ \A i \in 1..Len(s) : s[i] \in S
  BY LenProperties, EmptySeq
<1> DEFINE n == Len(s) - 1
<1>2. n \in Nat /\ \A i \in 1..n : s[i] \in S
  BY <1>1
<1> HIDE DEF n
<1>3. /\ SubSeq(s, 1, n) \in Seq(S)
      /\ Len(SubSeq(s, 1, n)) = IF 1 <= n THEN n - 1 + 1 ELSE 0
      /\ \A i \in 1..(n - 1 + 1) : SubSeq(s, 1, n)[i] = s[1 + i - 1]
  BY <1>2, SubSeqProperties
<1>4. /\ SubSeq(s, 1, n) \in Seq(S)
      /\ Len(SubSeq(s, 1, n)) = n
      /\ \A i \in 1..n : SubSeq(s, 1, n)[i] = s[i]
  BY <1>2, <1>3
<1>5. QED
  BY <1>1, <1>4 DEF n, Front, Last

(* What the calls on the state return, field by field. *)
IsState(s) == DOMAIN s = {"world", "layers", "frames", "live", "deleted"}

LEMMA Enters ==
  ASSUME NEW s, IsState(s), NEW at, NEW creates
  PROVE  LET out == enter(s, at, creates)
         IN  /\ IsState(out)
             /\ out.world = s.world /\ out.live = s.live /\ out.deleted = s.deleted
             /\ out.layers = Append(s.layers, s.world)
             /\ out.frames = Append(s.frames, Substate(s, at, creates))
<1> DEFINE f == Substate(s, at, creates)
<1> HIDE DEF f
<1> DEFINE r == [s EXCEPT !.frames = Append(@, f), !.layers = Append(@, s.world)]
<1>1. /\ IsState(r)
      /\ r.world = s.world /\ r.live = s.live /\ r.deleted = s.deleted
      /\ r.layers = Append(s.layers, s.world)
      /\ r.frames = Append(s.frames, f)
  BY DEF IsState
<1> HIDE DEF r
<1>2. r = enter(s, at, creates)
  BY Zenon DEF r, f, enter
<1>3. QED
  BY <1>1, <1>2 DEF f

LEMMA Discards ==
  ASSUME NEW s, IsState(s)
  PROVE  LET out == exit_discard(s)
         IN  /\ IsState(out)
             /\ out.world = Last(s.layers)
             /\ out.layers = Front(s.layers)
             /\ out.frames = Front(s.frames)
             /\ out.live = SubSeq(s.live, 1, Last(s.frames).seen)
             /\ out.deleted = Last(s.frames).doomed
<1> DEFINE k == SubSeq(s.live, 1, Last(s.frames).seen)
           d == Last(s.frames).doomed
           r == [s EXCEPT !.frames = Front(@), !.live = k, !.deleted = d]
<1> HIDE DEF k, d
<1>1. /\ IsState(r) /\ r.world = s.world /\ r.layers = s.layers /\ r.frames = Front(s.frames)
      /\ r.live = k /\ r.deleted = d
  BY DEF IsState
<1> HIDE DEF r
<1>2. Forget(s) = r
  BY Zenon DEF Forget, r, k, d
<1> DEFINE q == [r EXCEPT !.layers = Front(@), !.world = Last(r.layers)]
<1>3. /\ IsState(q) /\ q.world = Last(s.layers) /\ q.layers = Front(s.layers)
      /\ q.frames = Front(s.frames) /\ q.live = k /\ q.deleted = d
  BY <1>1 DEF IsState
<1> HIDE DEF q
<1>4. exit_discard(s) = q
  BY <1>2, Zenon DEF exit_discard, rollback_transaction, q
<1>5. QED
  BY <1>3, <1>4 DEF k, d

LEMMA Reverts ==
  ASSUME NEW s, ~s.frames[Len(s.frames) - 1].failed
  PROVE  exit_revert(s) = exit_discard(s)
BY DEF exit_revert, exit_discard, ParentRefuses

LEMMA Commits ==
  ASSUME NEW s, IsState(s), ~s.frames[Len(s.frames) - 1].failed
  PROVE  LET out == exit_commit(s)
         IN  /\ IsState(out)
             /\ out.world = s.world /\ out.live = s.live /\ out.deleted = s.deleted
             /\ out.layers = Front(s.layers)
             /\ out.frames = Merge(s)
<1> DEFINE m == Merge(s)
           r == [s EXCEPT !.frames = m]
<1> HIDE DEF m
<1>1. /\ IsState(r) /\ r.world = s.world /\ r.layers = s.layers /\ r.frames = m
      /\ r.live = s.live /\ r.deleted = s.deleted
  BY DEF IsState
<1> HIDE DEF r
<1> DEFINE q == [r EXCEPT !.layers = Front(@)]
<1>2. /\ IsState(q) /\ q.world = s.world /\ q.layers = Front(s.layers) /\ q.frames = m
      /\ q.live = s.live /\ q.deleted = s.deleted
  BY <1>1 DEF IsState
<1> HIDE DEF q
<1>3. exit_commit(s) = q
  <2>1. ~ParentRefuses(s)
    BY DEF ParentRefuses
  <2>2. QED
    BY <2>1, Zenon DEF exit_commit, commit_transaction, q, r, m
<1>4. QED
  BY <1>2, <1>3 DEF m

-----------------------------------------------------------------------------
(* How the stacks stay in step. *)

(* A frame is entered from one whose gasometer has not failed. *)
LEMMA StepIn ==
  ASSUME NEW ws, NEW fs, InStep(ws, fs), ~fs[Len(fs)].failed,
         NEW w \in SoundWorld, NEW f \in Frame, ~f.failed, f.was = w
  PROVE  /\ InStep(Append(ws, w), Append(fs, f))
         /\ Len(Append(fs, f)) = Len(fs) + 1
         /\ Append(fs, f)[Len(Append(fs, f))] = f
<1> DEFINE us == Append(ws, w)
           gs == Append(fs, f)
<1>1. /\ fs \in Seq(Frame) /\ ws \in Seq(SoundWorld)
      /\ Len(fs) \in Nat /\ Len(fs) > 0 /\ Len(ws) = Len(fs) - 1
  BY LenProperties, EmptySeq DEF InStep
<1>2. /\ us \in Seq(SoundWorld) /\ Len(us) = Len(ws) + 1
      /\ \A i \in 1..Len(ws) : us[i] = ws[i]
      /\ us[Len(ws) + 1] = w
  BY <1>1, AppendProperties
<1>3. /\ gs \in Seq(Frame) /\ Len(gs) = Len(fs) + 1
      /\ \A i \in 1..Len(fs) : gs[i] = fs[i]
      /\ gs[Len(fs) + 1] = f
  BY <1>1, AppendProperties
<1> HIDE DEF us, gs
<1>4. gs # <<>> /\ Len(us) = Len(gs) - 1
  BY <1>1, <1>2, <1>3
<1>5. ASSUME NEW i \in 1..Len(gs), gs[i].failed
      PROVE  FALSE
  <2>1. i # Len(gs)
    BY <1>1, <1>3, <1>5
  <2>2. i \in 1..Len(fs) /\ fs[i].failed
    BY <1>1, <1>3, <1>5, <2>1
  <2>3. QED
    BY <1>1, <2>2 DEF InStep
<1>6. ASSUME NEW i \in 1..Len(us)
      PROVE  gs[i + 1].was = us[i]
  <2>1. CASE i = Len(fs)
    BY <1>1, <1>2, <1>3, <2>1
  <2>2. CASE i # Len(fs)
    <3>1. i \in 1..Len(ws) /\ i + 1 \in 1..Len(fs)
      BY <1>1, <1>2, <1>3, <1>4, <2>2
    <3>2. QED
      BY <1>2, <1>3, <3>1 DEF InStep
  <2>3. QED
    BY <2>1, <2>2
<1>7. InStep(us, gs)
  BY <1>2, <1>3, <1>4, <1>5, <1>6 DEF InStep
<1>8. QED
  BY <1>3, <1>7 DEF us, gs

(* A frame other than the root is left: its transaction holds the world it *)
(* was entered with, and the frame it was entered from has not failed.     *)
LEMMA StepOut ==
  ASSUME NEW ws, NEW fs, InStep(ws, fs), Len(fs) > 1
  PROVE  /\ InStep(Front(ws), Front(fs))
         /\ Last(ws) = fs[Len(fs)].was /\ Last(ws) \in SoundWorld
         /\ Len(Front(fs)) = Len(fs) - 1
         /\ Front(fs)[Len(fs) - 1] = fs[Len(fs) - 1]
         /\ ~fs[Len(fs) - 1].failed
<1> DEFINE us == Front(ws)
           gs == Front(fs)
<1>1. /\ fs \in Seq(Frame) /\ ws \in Seq(SoundWorld)
      /\ Len(fs) \in Nat /\ Len(ws) \in Nat /\ Len(ws) = Len(fs) - 1 /\ fs # <<>>
  BY LenProperties DEF InStep
<1>2. ws # <<>>
  BY <1>1, EmptySeq
<1>3. /\ us \in Seq(SoundWorld) /\ Len(us) = Len(ws) - 1
      /\ \A i \in 1..(Len(ws) - 1) : us[i] = ws[i]
      /\ Last(ws) \in SoundWorld /\ Last(ws) = ws[Len(ws)]
  BY <1>1, <1>2, FrontProperties
<1>4. /\ gs \in Seq(Frame) /\ Len(gs) = Len(fs) - 1
      /\ \A i \in 1..(Len(fs) - 1) : gs[i] = fs[i]
  BY <1>1, FrontProperties
<1> HIDE DEF us, gs
<1>5. gs # <<>> /\ Len(us) = Len(gs) - 1
  BY <1>1, <1>3, <1>4, EmptySeq
<1>6. ASSUME NEW i \in 1..Len(gs), gs[i].failed
      PROVE  FALSE
  <2>1. i \in 1..Len(fs) /\ i # Len(fs) /\ fs[i].failed
    BY <1>1, <1>4, <1>6
  <2>2. QED
    BY <2>1 DEF InStep
<1>7. ASSUME NEW i \in 1..Len(us)
      PROVE  gs[i + 1].was = us[i]
  <2>1. i \in 1..Len(ws) /\ i \in 1..(Len(ws) - 1) /\ i + 1 \in 1..(Len(fs) - 1)
    BY <1>1, <1>3, <1>4
  <2>2. QED
    BY <1>3, <1>4, <2>1 DEF InStep
<1>8. InStep(us, gs)
  BY <1>3, <1>4, <1>5, <1>6, <1>7 DEF InStep
<1>9. Last(ws) = fs[Len(fs)].was
  <2>1. Len(ws) \in 1..Len(ws) /\ Len(ws) + 1 = Len(fs)
    BY <1>1
  <2>2. QED
    BY <1>3, <2>1 DEF InStep
<1>10. ~fs[Len(fs) - 1].failed
  <2>1. Len(fs) - 1 \in 1..Len(fs) /\ Len(fs) - 1 # Len(fs)
    BY <1>1
  <2>2. QED
    BY <2>1 DEF InStep
<1>11. gs[Len(fs) - 1] = fs[Len(fs) - 1]
  BY <1>1, <1>4
<1>12. QED
  BY <1>3, <1>4, <1>8, <1>9, <1>10, <1>11 DEF us, gs

(* The innermost frame changes; the root's gasometer does not fail. *)
LEMMA StepTop ==
  ASSUME NEW ws, NEW fs, InStep(ws, fs), NEW g \in Frame,
         g.was = fs[Len(fs)].was, g.failed => Len(fs) > 1
  PROVE  /\ InStep(ws, [fs EXCEPT ![Len(fs)] = g])
         /\ Len([fs EXCEPT ![Len(fs)] = g]) = Len(fs)
         /\ [fs EXCEPT ![Len(fs)] = g][Len(fs)] = g
<1> DEFINE gs == [fs EXCEPT ![Len(fs)] = g]
<1>1. /\ fs \in Seq(Frame) /\ ws \in Seq(SoundWorld)
      /\ Len(fs) \in Nat /\ Len(fs) > 0 /\ Len(ws) = Len(fs) - 1 /\ fs # <<>>
  BY LenProperties, EmptySeq DEF InStep
<1>2. Len(fs) \in 1..Len(fs)
  BY <1>1
<1>3. /\ gs \in Seq(Frame) /\ Len(gs) = Len(fs)
      /\ \A j \in 1..Len(fs) : gs[j] = IF j = Len(fs) THEN g ELSE fs[j]
  BY <1>1, <1>2, ExceptSeq
<1> HIDE DEF gs
<1>4. gs # <<>>
  BY <1>1, <1>3, EmptySeq
<1>5. ASSUME NEW i \in 1..Len(gs), gs[i].failed
      PROVE  i = Len(gs) /\ i > 1
  <2>1. CASE i = Len(fs)
    BY <1>1, <1>3, <1>5, <2>1
  <2>2. CASE i # Len(fs)
    BY <1>1, <1>3, <1>5, <2>2 DEF InStep
  <2>3. QED
    BY <2>1, <2>2
<1>6. ASSUME NEW i \in 1..Len(ws)
      PROVE  gs[i + 1].was = ws[i]
  <2>1. i + 1 \in 1..Len(fs) /\ fs[i + 1].was = ws[i]
    BY <1>1 DEF InStep
  <2>2. gs[i + 1].was = fs[i + 1].was
    BY <1>3, <2>1
  <2>3. QED
    BY <2>1, <2>2
<1>7. InStep(ws, gs)
  BY <1>1, <1>3, <1>4, <1>5, <1>6 DEF InStep
<1>8. QED
  BY <1>2, <1>3, <1>7 DEF gs

-----------------------------------------------------------------------------
(* The logs of the frames are adjacent segments of the live ones. *)
EndOf(fs, lv, i) == IF i = Len(fs) THEN Len(lv) ELSE fs[i + 1].seen

LogsCollected(fs, lv) ==
  /\ lv \in Seq(Logs)
  /\ fs[1].seen = 0
  /\ \A i \in 1..Len(fs) : fs[i].seen <= Len(lv)
  /\ \A i, j \in 1..Len(fs) : i <= j => fs[i].seen <= fs[j].seen
  /\ \A i \in 1..Len(fs) : fs[i].logs = SubSeq(lv, fs[i].seen + 1, EndOf(fs, lv, i))

LEMMA SegmentsAgree ==
  ASSUME NEW S, NEW s \in Seq(S), NEW t \in Seq(S), NEW a \in Nat, NEW b \in Nat,
         b <= Len(s), b <= Len(t), \A i \in 1..b : s[i] = t[i]
  PROVE  SubSeq(s, a + 1, b) = SubSeq(t, a + 1, b)
<1>1. Len(s) \in Nat /\ Len(t) \in Nat
  BY LenProperties
<1>2. \A i \in (a + 1)..b : i \in 1..Len(s) /\ i \in 1..Len(t) /\ i \in 1..b
  BY <1>1
<1>3. \A i \in (a + 1)..b : s[i] \in S /\ t[i] \in S /\ s[i] = t[i]
  BY <1>2, ElementOfSeq
<1> DEFINE m == a + 1
           u == SubSeq(s, m, b)
           v == SubSeq(t, m, b)
<1>4. m \in Int /\ b \in Int /\ m >= 1
  OBVIOUS
<1> HIDE DEF m
<1>5. /\ u \in Seq(S) /\ Len(u) = IF m <= b THEN b - m + 1 ELSE 0
      /\ \A i \in 1..(b - m + 1) : u[i] = s[m + i - 1]
  BY <1>3, <1>4, SubSeqProperties DEF m
<1>6. /\ v \in Seq(S) /\ Len(v) = IF m <= b THEN b - m + 1 ELSE 0
      /\ \A i \in 1..(b - m + 1) : v[i] = t[m + i - 1]
  BY <1>3, <1>4, SubSeqProperties DEF m
<1> HIDE DEF u, v
<1>7. ASSUME NEW i \in 1..Len(u)
      PROVE  u[i] = v[i]
  <2>1. i \in 1..(b - m + 1) /\ m + i - 1 \in m..b
    BY <1>4, <1>5
  <2>2. QED
    BY <1>3, <1>5, <1>6, <2>1 DEF m
<1>8. u = v
  BY <1>5, <1>6, <1>7, SeqEqual
<1>9. QED
  BY <1>8 DEF u, v, m

LEMMA SegmentGrows ==
  ASSUME NEW S, NEW s \in Seq(S), NEW e \in S, NEW a \in Nat, a <= Len(s)
  PROVE  SubSeq(Append(s, e), a + 1, Len(s) + 1) = Append(SubSeq(s, a + 1, Len(s)), e)
<1> DEFINE t == Append(s, e)
<1>1. /\ Len(s) \in Nat /\ t \in Seq(S) /\ Len(t) = Len(s) + 1
      /\ \A i \in 1..Len(s) : t[i] = s[i]
      /\ t[Len(s) + 1] = e
  BY LenProperties, AppendProperties
<1> HIDE DEF t
<1>3. SubSeq(t, a + 1, Len(s)) \o SubSeq(t, Len(s) + 1, Len(t)) = SubSeq(t, a + 1, Len(t))
  <2> DEFINE m == a + 1
             k == Len(s)
             n == Len(t)
  <2>1. m \in 1..(n + 1) /\ k \in (m - 1)..n /\ n \in k..n
    BY <1>1
  <2> HIDE DEF m, k
  <2>2. SubSeq(t, m, k) \o SubSeq(t, k + 1, n) = SubSeq(t, m, n)
    BY <1>1, <2>1, ConcatAdjacentSubSeq
  <2>3. QED
    BY <2>2 DEF m, k
<1>4. SubSeq(t, Len(s) + 1, Len(s) + 1) = <<e>>
  <2> DEFINE m == Len(s) + 1
             n == Len(s) + 1
             u == SubSeq(t, m, n)
  <2>0. m = n
    OBVIOUS
  <2>1. m \in Int /\ n \in Int /\ \A i \in m..n : t[i] \in S
    BY <1>1
  <2> HIDE DEF m, n
  <2>2. /\ u \in Seq(S) /\ Len(u) = IF m <= n THEN n - m + 1 ELSE 0
        /\ \A i \in 1..(n - m + 1) : u[i] = t[m + i - 1]
    BY <2>1, SubSeqProperties
  <2> HIDE DEF u
  <2>3. Len(u) = 1 /\ u[1] = t[n]
    BY <2>0, <2>1, <2>2
  <2>4. <<e>> \in Seq(S) /\ Len(<<e>>) = 1 /\ <<e>>[1] = e
    OBVIOUS
  <2>5. ASSUME NEW i \in 1..Len(u) PROVE u[i] = <<e>>[i]
    <3>1. i = 1 /\ t[n] = e
      BY <1>1, <2>3 DEF n
    <3>2. QED
      BY <2>3, <2>4, <3>1
  <2>6. u = <<e>>
    BY <2>2, <2>3, <2>4, <2>5, SeqEqual
  <2>7. QED
    BY <2>6 DEF u, m, n
<1>5. SubSeq(t, a + 1, Len(s)) = SubSeq(s, a + 1, Len(s))
  BY <1>1, SegmentsAgree
<1>6. SubSeq(s, a + 1, Len(s)) \in Seq(S)
  <2>1. \A i \in (a + 1)..Len(s) : s[i] \in S
    BY <1>1, ElementOfSeq
  <2> DEFINE m == a + 1
             n == Len(s)
  <2>2. m \in Int /\ n \in Int /\ \A i \in m..n : s[i] \in S
    BY <1>1, <2>1
  <2> HIDE DEF m, n
  <2>3. SubSeq(s, m, n) \in Seq(S)
    BY <2>2, SubSeqProperties
  <2>4. QED
    BY <2>3 DEF m, n
<1>7. QED
  BY <1>1, <1>3, <1>4, <1>5, <1>6, AppendIsConcat DEF t

(* What a frame's segment is made of. *)
LEMMA FrameTypes ==
  ASSUME NEW fs \in Seq(Frame), fs # <<>>
  PROVE  /\ Len(fs) \in Nat /\ Len(fs) > 0
         /\ \A i \in 1..Len(fs) :
              /\ fs[i] \in Frame /\ fs[i].seen \in Nat /\ fs[i].logs \in Seq(Logs)
              /\ fs[i].deletes \subseteq Addr /\ fs[i].doomed \subseteq Addr
              /\ fs[i].at \in Addr /\ fs[i].was \in SoundWorld
<1>1. Len(fs) \in Nat /\ Len(fs) > 0 /\ \A i \in 1..Len(fs) : fs[i] \in Frame
  BY LenProperties, EmptySeq
<1>2. QED
  BY <1>1 DEF Frame

(* An entered frame starts with an empty segment at the end. *)
LEMMA LogsIn ==
  ASSUME NEW fs \in Seq(Frame), fs # <<>>, NEW lv, LogsCollected(fs, lv),
         NEW gs \in Seq(Frame), Len(gs) = Len(fs) + 1, \A i \in 1..Len(fs) : gs[i] = fs[i],
         gs[Len(gs)].seen = Len(lv), gs[Len(gs)].logs = <<>>
  PROVE  LogsCollected(gs, lv)
<1>1. /\ Len(fs) \in Nat /\ Len(fs) > 0 /\ lv \in Seq(Logs) /\ Len(lv) \in Nat
      /\ \A i \in 1..Len(fs) : fs[i].seen \in Nat
  BY FrameTypes, LenProperties DEF LogsCollected
<1>2. \A i \in 1..Len(gs) : i # Len(gs) => i \in 1..Len(fs) /\ gs[i] = fs[i]
  BY <1>1
<1>3. gs[1].seen = 0
  BY <1>1 DEF LogsCollected
<1>4. \A i \in 1..Len(gs) : gs[i].seen <= Len(lv)
  BY <1>1, <1>2 DEF LogsCollected
<1>5. ASSUME NEW i \in 1..Len(gs), NEW j \in 1..Len(gs), i <= j
      PROVE  gs[i].seen <= gs[j].seen
  <2>1. CASE j = Len(gs)
    BY <1>4, <2>1
  <2>2. CASE j # Len(gs)
    <3>1. i # Len(gs)
      BY <1>1, <1>5, <2>2
    <3>2. QED
      BY <1>2, <1>5, <2>2, <3>1 DEF LogsCollected
  <2>3. QED
    BY <2>1, <2>2
<1>6. ASSUME NEW i \in 1..Len(gs)
      PROVE  gs[i].logs = SubSeq(lv, gs[i].seen + 1, EndOf(gs, lv, i))
  <2>1. CASE i = Len(gs)
    <3> DEFINE m == Len(lv) + 1
               n == Len(lv)
    <3>1. m \in Int /\ n \in Int /\ n < m
      BY <1>1
    <3> HIDE DEF m, n
    <3>2. SubSeq(lv, m, n) = <<>>
      BY <3>1, SubSeqEmpty
    <3>3. QED
      BY <2>1, <3>2 DEF EndOf, m, n
  <2>2. CASE i # Len(gs)
    <3>1. i \in 1..Len(fs) /\ gs[i] = fs[i]
      BY <1>2, <2>2
    <3>2. EndOf(gs, lv, i) = EndOf(fs, lv, i)
      <4>1. CASE i = Len(fs)
        BY <1>1, <2>2, <4>1 DEF EndOf
      <4>2. CASE i # Len(fs)
        <5>1. i + 1 \in 1..Len(fs)
          BY <1>1, <3>1, <4>2
        <5>2. QED
          BY <2>2, <4>2, <5>1 DEF EndOf
      <4>3. QED
        BY <4>1, <4>2
    <3>3. QED
      BY <3>1, <3>2 DEF LogsCollected
  <2>3. QED
    BY <2>1, <2>2
<1>7. QED
  BY <1>1, <1>3, <1>4, <1>5, <1>6 DEF LogsCollected

(* The live logs are cut back to those before the frame that is left. *)
LEMMA LogsOut ==
  ASSUME NEW fs \in Seq(Frame), Len(fs) > 1, NEW lv, LogsCollected(fs, lv),
         NEW gs \in Seq(Frame), Len(gs) = Len(fs) - 1, \A i \in 1..Len(gs) : gs[i] = fs[i]
  PROVE  LogsCollected(gs, SubSeq(lv, 1, fs[Len(fs)].seen))
<1> DEFINE k == fs[Len(fs)].seen
           kv == SubSeq(lv, 1, k)
<1>0. fs # <<>> /\ Len(fs) \in Nat
  BY LenProperties, EmptySeq
<1>1. /\ lv \in Seq(Logs) /\ Len(lv) \in Nat
      /\ \A i \in 1..Len(fs) : fs[i].seen \in Nat
  BY <1>0, FrameTypes, LenProperties DEF LogsCollected
<1>2. k \in Nat /\ k <= Len(lv)
  BY <1>0, <1>1 DEF LogsCollected
<1> HIDE DEF k
<1>3. kv \in Seq(Logs) /\ Len(kv) = k /\ \A i \in 1..k : kv[i] = lv[i]
  <2>1. \A i \in 1..k : lv[i] \in Logs
    BY <1>1, <1>2, ElementOfSeq
  <2>2. /\ kv \in Seq(Logs) /\ Len(kv) = IF 1 <= k THEN k - 1 + 1 ELSE 0
        /\ \A i \in 1..(k - 1 + 1) : kv[i] = lv[1 + i - 1]
    BY <1>2, <2>1, SubSeqProperties
  <2>3. QED
    BY <1>2, <2>2
<1> HIDE DEF kv
<1>4. \A i \in 1..Len(gs) : i \in 1..Len(fs) /\ gs[i] = fs[i] /\ i < Len(fs)
  BY <1>0
<1>5. gs[1].seen = 0
  BY <1>0, <1>4 DEF LogsCollected
<1>6. \A i \in 1..Len(gs) : gs[i].seen <= Len(kv)
  BY <1>0, <1>3, <1>4 DEF LogsCollected, k
<1>7. \A i, j \in 1..Len(gs) : i <= j => gs[i].seen <= gs[j].seen
  BY <1>4 DEF LogsCollected
<1>8. ASSUME NEW i \in 1..Len(gs)
      PROVE  gs[i].logs = SubSeq(kv, gs[i].seen + 1, EndOf(gs, kv, i))
  <2>1. EndOf(gs, kv, i) = fs[i + 1].seen /\ EndOf(fs, lv, i) = fs[i + 1].seen
    <3>1. CASE i = Len(gs)
      BY <1>0, <1>3, <3>1 DEF EndOf, k
    <3>2. CASE i # Len(gs)
      <4>1. i + 1 \in 1..Len(gs) /\ i # Len(fs)
        BY <1>0, <3>2
      <4>2. QED
        BY <3>2, <4>1 DEF EndOf
    <3>3. QED
      BY <3>1, <3>2
  <2> DEFINE a == fs[i].seen
             b == fs[i + 1].seen
  <2>2. a \in Nat /\ b \in Nat /\ b <= k
    <3>1. i \in 1..Len(fs) /\ i + 1 \in 1..Len(fs) /\ Len(fs) \in 1..Len(fs) /\ i + 1 <= Len(fs)
      BY <1>0, <1>4
    <3>2. QED
      BY <1>1, <3>1 DEF LogsCollected, k
  <2>3. fs[i].logs = SubSeq(lv, a + 1, b)
    BY <1>4, <2>1 DEF LogsCollected
  <2> HIDE DEF a, b
  <2>4. b <= Len(lv) /\ b <= Len(kv) /\ \A x \in 1..b : lv[x] = kv[x]
    BY <1>1, <1>2, <1>3, <2>2
  <2>5. SubSeq(lv, a + 1, b) = SubSeq(kv, a + 1, b)
    BY <1>1, <1>3, <2>2, <2>4, SegmentsAgree
  <2>6. QED
    BY <1>4, <2>1, <2>3, <2>5 DEF a, b
<1>9. QED
  BY <1>3, <1>5, <1>6, <1>7, <1>8 DEF LogsCollected, kv, k

(* The segment of a frame that is committed joins that of its parent. *)
LEMMA LogsMerge ==
  ASSUME NEW fs \in Seq(Frame), Len(fs) > 1, NEW lv, LogsCollected(fs, lv),
         NEW gs \in Seq(Frame), Len(gs) = Len(fs) - 1,
         \A i \in 1..Len(gs) : i # Len(gs) => gs[i] = fs[i],
         gs[Len(gs)].seen = fs[Len(gs)].seen,
         gs[Len(gs)].logs = fs[Len(gs)].logs \o fs[Len(fs)].logs
  PROVE  LogsCollected(gs, lv)
<1> DEFINE n == Len(gs)
<1>0. fs # <<>> /\ Len(fs) \in Nat /\ n \in Nat /\ n > 0 /\ Len(fs) = n + 1
  BY LenProperties, EmptySeq
<1>1. /\ lv \in Seq(Logs) /\ Len(lv) \in Nat
      /\ \A i \in 1..Len(fs) : fs[i].seen \in Nat
  BY <1>0, FrameTypes, LenProperties DEF LogsCollected
<1>2. \A i \in 1..n : i \in 1..Len(fs) /\ i # Len(fs) /\ gs[i].seen = fs[i].seen
  BY <1>0
<1>3. gs[1].seen = 0 /\ \A i \in 1..n : gs[i].seen <= Len(lv)
  <2>1. 1 \in 1..n
    BY <1>0
  <2>2. fs[1].seen = 0 /\ \A i \in 1..Len(fs) : fs[i].seen <= Len(lv)
    BY DEF LogsCollected
  <2>3. QED
    BY <1>2, <2>1, <2>2
<1>4. \A i, j \in 1..n : i <= j => gs[i].seen <= gs[j].seen
  BY <1>2 DEF LogsCollected
<1>5. ASSUME NEW i \in 1..n
      PROVE  gs[i].logs = SubSeq(lv, gs[i].seen + 1, EndOf(gs, lv, i))
  <2>1. CASE i # n
    <3>1. i + 1 \in 1..n
      BY <1>0, <2>1
    <3>2. EndOf(gs, lv, i) = EndOf(fs, lv, i)
      BY <1>2, <2>1, <3>1 DEF EndOf
    <3>3. QED
      BY <1>2, <2>1, <3>2 DEF LogsCollected
  <2>2. CASE i = n
    <3> DEFINE a == fs[n].seen
               b == fs[n + 1].seen
               e == Len(lv)
    <3>1. n \in 1..Len(fs) /\ n + 1 \in 1..Len(fs) /\ n <= n + 1 /\ n # Len(fs)
      BY <1>0
    <3>2. a \in Nat /\ b \in Nat /\ a <= b /\ b <= e /\ e \in Nat
      BY <1>1, <3>1 DEF LogsCollected
    <3>3. /\ fs[n].logs = SubSeq(lv, a + 1, b)
          /\ fs[n + 1].logs = SubSeq(lv, b + 1, e)
      <4>1. EndOf(fs, lv, n) = b /\ EndOf(fs, lv, n + 1) = e
        BY <1>0 DEF EndOf
      <4>2. QED
        BY <3>1, <4>1 DEF LogsCollected
    <3> HIDE DEF a, b
    <3> DEFINE m == a + 1
    <3>4. m \in 1..(Len(lv) + 1) /\ b \in (m - 1)..Len(lv) /\ e \in b..Len(lv)
      BY <3>2
    <3> HIDE DEF m
    <3>5. SubSeq(lv, m, b) \o SubSeq(lv, b + 1, e) = SubSeq(lv, m, e)
      BY <1>1, <3>4, ConcatAdjacentSubSeq
    <3>6. gs[n].logs = SubSeq(lv, a + 1, e)
      BY <1>0, <3>3, <3>5 DEF m
    <3>7. gs[n].seen = a /\ EndOf(gs, lv, n) = e
      BY <1>2, <3>1 DEF EndOf, a
    <3>8. QED
      BY <2>2, <3>6, <3>7
  <2>3. QED
    BY <2>1, <2>2
<1>6. QED
  BY <1>1, <1>3, <1>4, <1>5 DEF LogsCollected

(* A log is added to the innermost frame. *)
LEMMA LogsAdd ==
  ASSUME NEW fs \in Seq(Frame), fs # <<>>, NEW lv, LogsCollected(fs, lv), NEW l \in Logs,
         NEW gs \in Seq(Frame), Len(gs) = Len(fs),
         \A i \in 1..Len(fs) : i # Len(fs) => gs[i] = fs[i],
         gs[Len(fs)].seen = fs[Len(fs)].seen,
         gs[Len(fs)].logs = Append(fs[Len(fs)].logs, l)
  PROVE  LogsCollected(gs, Append(lv, l))
<1> DEFINE n == Len(fs)
           kv == Append(lv, l)
<1>1. /\ n \in Nat /\ n > 0 /\ lv \in Seq(Logs) /\ Len(lv) \in Nat
      /\ \A i \in 1..n : fs[i].seen \in Nat /\ fs[i].seen <= Len(lv)
  BY FrameTypes, LenProperties DEF LogsCollected
<1>2. /\ kv \in Seq(Logs) /\ Len(kv) = Len(lv) + 1
      /\ \A i \in 1..Len(lv) : kv[i] = lv[i]
  BY <1>1, AppendProperties
<1>3. \A i \in 1..n : gs[i].seen = fs[i].seen
  OBVIOUS
<1>4. gs[1].seen = 0 /\ \A i \in 1..n : gs[i].seen <= Len(lv) + 1
  BY <1>1, <1>3 DEF LogsCollected
<1>5. \A i, j \in 1..n : i <= j => gs[i].seen <= gs[j].seen
  BY <1>3 DEF LogsCollected
<1>6. ASSUME NEW i \in 1..n
      PROVE  gs[i].logs = SubSeq(kv, gs[i].seen + 1, EndOf(gs, kv, i))
  <2>1. CASE i # n
    <3> DEFINE a == fs[i].seen
               b == fs[i + 1].seen
    <3>1. i + 1 \in 1..n
      BY <1>1, <2>1
    <3>2. EndOf(gs, kv, i) = b /\ EndOf(fs, lv, i) = b
      BY <1>3, <2>1, <3>1 DEF EndOf
    <3>3. fs[i].logs = SubSeq(lv, a + 1, b)
      BY <3>2 DEF LogsCollected
    <3>4. a \in Nat /\ b \in Nat /\ b <= Len(lv)
      BY <1>1, <3>1
    <3> HIDE DEF a, b
    <3>5. b <= Len(kv) /\ \A x \in 1..b : lv[x] = kv[x]
      BY <1>1, <1>2, <3>4
    <3> HIDE DEF kv
    <3>6. SubSeq(lv, a + 1, b) = SubSeq(kv, a + 1, b)
      BY <1>1, <1>2, <3>4, <3>5, SegmentsAgree
    <3>7. QED
      BY <1>3, <2>1, <3>2, <3>3, <3>6 DEF a
  <2>2. CASE i = n
    <3> DEFINE a == fs[n].seen
    <3>1. a \in Nat /\ a <= Len(lv) /\ fs[n].logs = SubSeq(lv, a + 1, Len(lv))
      BY <1>1 DEF LogsCollected, EndOf
    <3> HIDE DEF a
    <3>2. SubSeq(Append(lv, l), a + 1, Len(lv) + 1) = Append(SubSeq(lv, a + 1, Len(lv)), l)
      BY <1>1, <3>1, SegmentGrows
    <3>3. EndOf(gs, kv, n) = Len(lv) + 1 /\ gs[n].seen = a
      BY <1>1, <1>2, <1>3 DEF EndOf, a
    <3>4. QED
      BY <2>2, <3>1, <3>2, <3>3
  <2>3. QED
    BY <2>1, <2>2
<1> HIDE DEF kv
<1>7. LogsCollected(gs, kv)
  BY <1>2, <1>4, <1>5, <1>6 DEF LogsCollected
<1>8. QED
  BY <1>7 DEF kv

LEMMA LogsSame ==
  ASSUME NEW fs, NEW lv, LogsCollected(fs, lv), NEW gs, Len(gs) = Len(fs), Len(fs) \in Nat \ {0},
         \A i \in 1..Len(fs) : gs[i].seen = fs[i].seen /\ gs[i].logs = fs[i].logs
  PROVE  LogsCollected(gs, lv)
<1>1. ASSUME NEW i \in 1..Len(fs)
      PROVE  EndOf(gs, lv, i) = EndOf(fs, lv, i)
  <2>1. i # Len(fs) => i + 1 \in 1..Len(fs)
    OBVIOUS
  <2>2. QED
    BY <2>1 DEF EndOf
<1>2. gs[1].seen = 0
  BY DEF LogsCollected
<1>3. QED
  BY <1>1, <1>2 DEF LogsCollected

-----------------------------------------------------------------------------
(* The deletions of the frames are those that were not reverted, and a     *)
(* frame knows those of the frames below it.                               *)
DeletesCollected(fs, dl) ==
  /\ \A i \in 1..Len(fs) : \A a :
       a \in fs[i].doomed <=> \E j \in 1..(i - 1) : a \in fs[j].deletes
  /\ \A a : a \in dl <=> \E j \in 1..Len(fs) : a \in fs[j].deletes

LEMMA DeletesIn ==
  ASSUME NEW fs, Len(fs) \in Nat, NEW dl, DeletesCollected(fs, dl),
         NEW gs, Len(gs) = Len(fs) + 1, \A i \in 1..Len(fs) : gs[i] = fs[i],
         gs[Len(gs)].doomed = dl, gs[Len(gs)].deletes = {}
  PROVE  DeletesCollected(gs, dl)
<1>1. ASSUME NEW i \in 1..Len(gs), NEW a
      PROVE  a \in gs[i].doomed <=> \E j \in 1..(i - 1) : a \in gs[j].deletes
  <2>1. CASE i = Len(gs)
    <3>1. 1..(i - 1) = 1..Len(fs)
      BY <2>1
    <3>2. QED
      BY <2>1, <3>1 DEF DeletesCollected
  <2>2. CASE i # Len(gs)
    <3>1. i \in 1..Len(fs) /\ \A j \in 1..(i - 1) : j \in 1..Len(fs)
      BY <2>2
    <3>2. QED
      BY <3>1 DEF DeletesCollected
  <2>3. QED
    BY <2>1, <2>2
<1>2. ASSUME NEW a
      PROVE  a \in dl <=> \E j \in 1..Len(gs) : a \in gs[j].deletes
  <2>1. \A j \in 1..Len(gs) : j = Len(gs) \/ j \in 1..Len(fs)
    OBVIOUS
  <2>2. \A j \in 1..Len(fs) : j \in 1..Len(gs)
    OBVIOUS
  <2>3. QED
    BY <2>1, <2>2 DEF DeletesCollected
<1>3. QED
  BY <1>1, <1>2 DEF DeletesCollected

LEMMA DeletesOut ==
  ASSUME NEW fs, Len(fs) \in Nat, Len(fs) > 1, NEW dl, DeletesCollected(fs, dl),
         NEW gs, Len(gs) = Len(fs) - 1, \A i \in 1..Len(gs) : gs[i] = fs[i]
  PROVE  DeletesCollected(gs, fs[Len(fs)].doomed)
<1>1. ASSUME NEW i \in 1..Len(gs), NEW a
      PROVE  a \in gs[i].doomed <=> \E j \in 1..(i - 1) : a \in gs[j].deletes
  <2>1. i \in 1..Len(fs) /\ \A j \in 1..(i - 1) : j \in 1..Len(gs)
    OBVIOUS
  <2>2. QED
    BY <2>1 DEF DeletesCollected
<1>2. ASSUME NEW a
      PROVE  a \in fs[Len(fs)].doomed <=> \E j \in 1..Len(gs) : a \in gs[j].deletes
  <2>1. Len(fs) \in 1..Len(fs) /\ 1..(Len(fs) - 1) = 1..Len(gs)
    OBVIOUS
  <2>2. QED
    BY <2>1 DEF DeletesCollected
<1>3. QED
  BY <1>1, <1>2 DEF DeletesCollected

LEMMA DeletesMerge ==
  ASSUME NEW fs, Len(fs) \in Nat, Len(fs) > 1, NEW dl, DeletesCollected(fs, dl),
         NEW gs, Len(gs) = Len(fs) - 1,
         \A i \in 1..Len(gs) : i # Len(gs) => gs[i] = fs[i],
         gs[Len(gs)].doomed = fs[Len(gs)].doomed,
         gs[Len(gs)].deletes = fs[Len(gs)].deletes \cup fs[Len(fs)].deletes
  PROVE  DeletesCollected(gs, dl)
<1>1. ASSUME NEW i \in 1..Len(gs), NEW a
      PROVE  a \in gs[i].doomed <=> \E j \in 1..(i - 1) : a \in gs[j].deletes
  <2>1. i \in 1..Len(fs) /\ \A j \in 1..(i - 1) : j \in 1..Len(gs) /\ j # Len(gs)
    OBVIOUS
  <2>2. gs[i].doomed = fs[i].doomed
    OBVIOUS
  <2>3. \A j \in 1..(i - 1) : gs[j] = fs[j]
    BY <2>1
  <2>4. a \in fs[i].doomed <=> \E j \in 1..(i - 1) : a \in fs[j].deletes
    BY <2>1 DEF DeletesCollected
  <2>5. QED
    BY <2>2, <2>3, <2>4
<1>2. ASSUME NEW a
      PROVE  a \in dl <=> \E j \in 1..Len(gs) : a \in gs[j].deletes
  <2>1. /\ Len(gs) \in 1..Len(gs) /\ Len(gs) \in 1..Len(fs) /\ Len(fs) \in 1..Len(fs)
        /\ \A j \in 1..Len(fs) : j = Len(fs) \/ j \in 1..Len(gs)
        /\ \A j \in 1..Len(gs) : j \in 1..Len(fs)
    OBVIOUS
  <2>2. (\E j \in 1..Len(fs) : a \in fs[j].deletes) <=> \E j \in 1..Len(gs) : a \in gs[j].deletes
    BY <2>1
  <2>3. QED
    BY <2>2 DEF DeletesCollected
<1>3. QED
  BY <1>1, <1>2 DEF DeletesCollected

(* The innermost frame marks the account of its code, if any (new). *)
LEMMA DeletesAdd ==
  ASSUME NEW fs, Len(fs) \in Nat, Len(fs) > 0, NEW dl, DeletesCollected(fs, dl), NEW new,
         NEW gs, Len(gs) = Len(fs),
         \A i \in 1..Len(fs) : i # Len(fs) => gs[i] = fs[i],
         gs[Len(fs)].doomed = fs[Len(fs)].doomed,
         gs[Len(fs)].deletes = fs[Len(fs)].deletes \cup new
  PROVE  DeletesCollected(gs, dl \cup new)
<1>1. ASSUME NEW i \in 1..Len(gs), NEW a
      PROVE  a \in gs[i].doomed <=> \E j \in 1..(i - 1) : a \in gs[j].deletes
  <2>1. i \in 1..Len(fs) /\ \A j \in 1..(i - 1) : j \in 1..Len(fs) /\ j # Len(fs)
    OBVIOUS
  <2>2. gs[i].doomed = fs[i].doomed
    OBVIOUS
  <2>3. QED
    BY <2>1, <2>2 DEF DeletesCollected
<1>2. ASSUME NEW a
      PROVE  a \in dl \cup new <=> \E j \in 1..Len(gs) : a \in gs[j].deletes
  <2>1. Len(fs) \in 1..Len(fs)
    OBVIOUS
  <2>2. (\E j \in 1..Len(gs) : a \in gs[j].deletes) <=>
          a \in new \/ \E j \in 1..Len(fs) : a \in fs[j].deletes
    <3>1. ASSUME NEW j \in 1..Len(fs)
          PROVE  a \in gs[j].deletes <=> a \in fs[j].deletes \/ (j = Len(fs) /\ a \in new)
      <4>1. CASE j = Len(fs)
        BY <4>1
      <4>2. CASE j # Len(fs)
        BY <4>2
      <4>3. QED
        BY <4>1, <4>2
    <3>2. QED
      BY <2>1, <3>1
  <2>3. QED
    BY <2>2 DEF DeletesCollected
<1>3. QED
  BY <1>1, <1>2 DEF DeletesCollected

-----------------------------------------------------------------------------
(* The inductive invariant while a transaction runs, and that the calls on *)
(* the state keep it.                                                      *)
Steady(s) ==
  /\ IsState(s)
  /\ s.world \in SoundWorld
  /\ InStep(s.layers, s.frames)
  /\ LogsCollected(s.frames, s.live)
  /\ DeletesCollected(s.frames, s.deleted)

LEMMA DeletedTyped ==
  ASSUME NEW s, Steady(s)
  PROVE  s.deleted \in SUBSET Addr /\ s.live \in Seq(Logs) /\ Len(s.live) \in Nat
<1>1. s.frames \in Seq(Frame) /\ s.frames # <<>>
  BY DEF Steady, InStep
<1>2. \A i \in 1..Len(s.frames) : s.frames[i].deletes \subseteq Addr
  BY <1>1, FrameTypes
<1>3. s.deleted \subseteq Addr
  BY <1>2 DEF Steady, DeletesCollected
<1>4. QED
  BY <1>3, LenProperties DEF Steady, LogsCollected

LEMMA WorldSteady ==
  ASSUME NEW s, Steady(s), NEW w \in SoundWorld
  PROVE  /\ Steady([s EXCEPT !.world = w])
         /\ [s EXCEPT !.world = w].world = w
         /\ [s EXCEPT !.world = w].layers = s.layers
         /\ [s EXCEPT !.world = w].frames = s.frames
<1> DEFINE r == [s EXCEPT !.world = w]
<1>1. /\ IsState(r) /\ r.world = w /\ r.layers = s.layers /\ r.frames = s.frames
      /\ r.live = s.live /\ r.deleted = s.deleted
  BY DEF IsState, Steady
<1> HIDE DEF r
<1>2. Steady(r)
  BY <1>1 DEF Steady
<1>3. QED
  BY <1>1, <1>2 DEF r

LEMMA EnterSteady ==
  ASSUME NEW s, Steady(s), ~s.frames[Len(s.frames)].failed, NEW at \in Addr,
         NEW creates \in BOOLEAN
  PROVE  /\ Steady(enter(s, at, creates))
         /\ enter(s, at, creates).world = s.world
         /\ Len(enter(s, at, creates).frames) > 1
<1> DEFINE f == Substate(s, at, creates)
           out == enter(s, at, creates)
<1>1. /\ f \in Frame /\ ~f.failed /\ f.was = s.world /\ f.logs = <<>> /\ f.deletes = {}
      /\ f.seen = Len(s.live) /\ f.doomed = s.deleted
  <2>1. /\ s.world \in SoundWorld /\ <<>> \in Seq(Logs) /\ Len(s.live) \in Nat
        /\ s.deleted \in SUBSET Addr
    BY EmptySeq, DeletedTyped DEF Steady
  <2>2. f \in Frame
    BY <2>1 DEF Substate, Frame
  <2>3. QED
    BY <2>2 DEF Substate
<1>2. /\ IsState(out)
      /\ out.world = s.world /\ out.live = s.live /\ out.deleted = s.deleted
      /\ out.layers = Append(s.layers, s.world)
      /\ out.frames = Append(s.frames, f)
  BY Enters DEF Steady
<1> HIDE DEF f, out
<1>3. /\ s.world \in SoundWorld /\ InStep(s.layers, s.frames)
      /\ s.frames \in Seq(Frame) /\ s.frames # <<>> /\ Len(s.frames) \in Nat /\ Len(s.frames) > 0
  <2>1. /\ s.world \in SoundWorld /\ InStep(s.layers, s.frames)
        /\ s.frames \in Seq(Frame) /\ s.frames # <<>>
    BY DEF Steady, InStep
  <2>2. QED
    BY <2>1, FrameTypes
<1>4. /\ InStep(out.layers, out.frames) /\ Len(out.frames) = Len(s.frames) + 1
      /\ out.frames[Len(out.frames)] = f
  BY <1>1, <1>2, <1>3, StepIn
<1>5. /\ out.frames \in Seq(Frame)
      /\ \A i \in 1..Len(s.frames) : out.frames[i] = s.frames[i]
  BY <1>1, <1>2, <1>3, AppendProperties
<1>6. LogsCollected(out.frames, out.live)
  BY <1>1, <1>2, <1>3, <1>4, <1>5, LogsIn DEF Steady
<1>7. DeletesCollected(out.frames, out.deleted)
  BY <1>1, <1>2, <1>3, <1>4, <1>5, DeletesIn DEF Steady
<1>8. QED
  BY <1>2, <1>3, <1>4, <1>6, <1>7 DEF Steady, out

LEMMA DiscardSteady ==
  ASSUME NEW s, Steady(s), Len(s.frames) > 1
  PROVE  /\ Steady(exit_discard(s))
         /\ exit_revert(s) = exit_discard(s)
         /\ exit_discard(s).world = s.frames[Len(s.frames)].was
         /\ exit_discard(s).layers = Front(s.layers)
         /\ exit_discard(s).frames = Front(s.frames)
<1> DEFINE out == exit_discard(s)
<1>1. InStep(s.layers, s.frames) /\ s.frames \in Seq(Frame) /\ s.frames # <<>>
  BY DEF Steady, InStep
<1>2. /\ IsState(out)
      /\ out.world = Last(s.layers)
      /\ out.layers = Front(s.layers)
      /\ out.frames = Front(s.frames)
      /\ out.live = SubSeq(s.live, 1, Last(s.frames).seen)
      /\ out.deleted = Last(s.frames).doomed
  BY Discards DEF Steady
<1>3. /\ InStep(Front(s.layers), Front(s.frames))
      /\ Last(s.layers) = s.frames[Len(s.frames)].was /\ Last(s.layers) \in SoundWorld
      /\ ~s.frames[Len(s.frames) - 1].failed
  BY <1>1, StepOut
<1>4. /\ Len(s.frames) \in Nat /\ Front(s.frames) \in Seq(Frame)
      /\ Len(Front(s.frames)) = Len(s.frames) - 1
      /\ \A i \in 1..(Len(s.frames) - 1) : Front(s.frames)[i] = s.frames[i]
      /\ Last(s.frames) = s.frames[Len(s.frames)]
  BY <1>1, FrontProperties
<1> HIDE DEF out
<1>5. LogsCollected(out.frames, out.live)
  BY <1>1, <1>2, <1>4, LogsOut DEF Steady
<1>6. DeletesCollected(out.frames, out.deleted)
  BY <1>2, <1>4, DeletesOut DEF Steady
<1>7. Steady(out)
  BY <1>2, <1>3, <1>5, <1>6 DEF Steady
<1>8. exit_revert(s) = exit_discard(s)
  BY <1>3, Reverts
<1>9. QED
  BY <1>2, <1>3, <1>7, <1>8 DEF out

LEMMA MergeProperties ==
  ASSUME NEW s, s.frames \in Seq(Frame), Len(s.frames) > 1
  PROVE  LET n == Len(s.frames) - 1
             f == s.frames[n]
             g == Merge(s)[n]
         IN  /\ Merge(s) = [Front(s.frames) EXCEPT ![n] = g]
             /\ g \in Frame
             /\ g.was = f.was /\ g.seen = f.seen /\ g.doomed = f.doomed
             /\ g.failed = f.failed
             /\ g.logs = f.logs \o s.frames[n + 1].logs
             /\ g.deletes = f.deletes \cup s.frames[n + 1].deletes
<1> DEFINE n == Len(s.frames) - 1
           fs == Front(s.frames)
           f == s.frames[n]
           h == s.frames[n + 1]
           logs == f.logs \o h.logs
           del == f.deletes \cup h.deletes
           g == [f EXCEPT !.logs = logs, !.deletes = del]
<1>1. s.frames # <<>> /\ Len(s.frames) \in Nat /\ n \in Nat /\ n + 1 = Len(s.frames)
  BY LenProperties, EmptySeq
<1>2. n \in 1..Len(s.frames) /\ n + 1 \in 1..Len(s.frames)
  BY <1>1
<1>3. f \in Frame /\ h \in Frame
  BY <1>1, <1>2, ElementOfSeq
<1>4. logs \in Seq(Logs) /\ del \in SUBSET Addr
  <2>1. f.logs \in Seq(Logs) /\ h.logs \in Seq(Logs) /\ f.deletes \in SUBSET Addr
        /\ h.deletes \in SUBSET Addr
    BY <1>3 DEF Frame
  <2>2. QED
    BY <2>1, ConcatProperties
<1>5. /\ fs \in Seq(Frame) /\ Len(fs) = n /\ fs[n] = f
  <2>1. /\ fs \in Seq(Frame) /\ Len(fs) = Len(s.frames) - 1
        /\ \A i \in 1..(Len(s.frames) - 1) : fs[i] = s.frames[i]
    BY <1>1, FrontProperties
  <2>2. n \in 1..(Len(s.frames) - 1)
    BY <1>1
  <2>3. QED
    BY <2>1, <2>2
<1> HIDE DEF fs, logs, del, f, h
<1>6. /\ g \in Frame
      /\ g.was = f.was /\ g.seen = f.seen /\ g.doomed = f.doomed
      /\ g.failed = f.failed /\ g.logs = logs /\ g.deletes = del
  BY <1>3, <1>4 DEF Frame
<1>7. Merge(s) = [fs EXCEPT ![n] = g]
  <2>1. n \in DOMAIN fs
    BY <1>1, <1>2, <1>5, LenProperties
  <2> DEFINE fa == [fs EXCEPT ![n].logs = @ \o s.frames[n + 1].logs]
             fb == [fa EXCEPT ![n].deletes = @ \cup s.frames[n + 1].deletes]
  <2>2. fa = [fs EXCEPT ![n] = [f EXCEPT !.logs = logs]]
    BY <1>5 DEF logs, h
  <2>3. fa[n] = [f EXCEPT !.logs = logs] /\ fa[n].deletes = f.deletes
    BY <1>3, <2>1, <2>2 DEF Frame
  <2> HIDE DEF fa
  <2>4. fb = [fa EXCEPT ![n] = [fa[n] EXCEPT !.deletes = del]]
    BY <2>3 DEF del, h
  <2>5. fb = [fs EXCEPT ![n] = g]
    BY <2>2, <2>3, <2>4
  <2>6. Merge(s) = fb
    BY <1>1, Zenon DEF Merge, fa, fs
  <2>7. QED
    BY <2>5, <2>6
<1> HIDE DEF g
<1>8. Merge(s)[n] = g
  BY <1>1, <1>2, <1>5, <1>6, <1>7, ExceptSeq
<1>9. QED
  BY <1>6, <1>7, <1>8 DEF fs, f, h, logs, del

LEMMA CommitSteady ==
  ASSUME NEW s, Steady(s), Len(s.frames) > 1
  PROVE  Steady(exit_commit(s)) /\ exit_commit(s).world = s.world
<1> DEFINE out == exit_commit(s)
           n == Len(s.frames) - 1
           fs == Front(s.frames)
           g == Merge(s)[n]
<1>1. /\ InStep(s.layers, s.frames) /\ s.frames \in Seq(Frame) /\ s.frames # <<>>
      /\ LogsCollected(s.frames, s.live) /\ DeletesCollected(s.frames, s.deleted)
  BY DEF Steady, InStep
<1>2. /\ InStep(Front(s.layers), fs) /\ ~s.frames[n].failed
  BY <1>1, StepOut
<1>3. /\ IsState(out)
      /\ out.world = s.world /\ out.live = s.live /\ out.deleted = s.deleted
      /\ out.layers = Front(s.layers)
      /\ out.frames = Merge(s)
  BY <1>2, Commits DEF Steady
<1>4. /\ Len(s.frames) \in Nat /\ fs \in Seq(Frame) /\ Len(fs) = n
      /\ \A i \in 1..n : fs[i] = s.frames[i]
  BY <1>1, FrontProperties
<1>5. /\ n \in Nat /\ n > 0 /\ n + 1 = Len(s.frames) /\ n \in 1..n
  BY <1>4
<1>6. /\ Merge(s) = [fs EXCEPT ![n] = g] /\ g \in Frame
      /\ g.was = s.frames[n].was /\ g.seen = s.frames[n].seen /\ g.doomed = s.frames[n].doomed
      /\ g.failed = s.frames[n].failed
      /\ g.logs = s.frames[n].logs \o s.frames[n + 1].logs
      /\ g.deletes = s.frames[n].deletes \cup s.frames[n + 1].deletes
  BY <1>1, MergeProperties
<1> HIDE DEF g, out, n, fs
<1> DEFINE gs == [fs EXCEPT ![n] = g]
<1>7. /\ gs \in Seq(Frame) /\ Len(gs) = n
      /\ \A j \in 1..n : gs[j] = IF j = n THEN g ELSE fs[j]
  BY <1>4, <1>5, <1>6, ExceptSeq
<1>8. fs[n] = s.frames[n] /\ ~g.failed
  BY <1>2, <1>4, <1>5, <1>6
<1>9. InStep(Front(s.layers), gs)
  BY <1>2, <1>4, <1>6, <1>8, StepTop
<1>10. /\ Len(gs) = Len(s.frames) - 1
       /\ \A i \in 1..Len(gs) : i # Len(gs) => gs[i] = s.frames[i]
       /\ gs[Len(gs)].seen = s.frames[Len(gs)].seen
       /\ gs[Len(gs)].doomed = s.frames[Len(gs)].doomed
       /\ gs[Len(gs)].logs = s.frames[Len(gs)].logs \o s.frames[Len(s.frames)].logs
       /\ gs[Len(gs)].deletes = s.frames[Len(gs)].deletes \cup s.frames[Len(s.frames)].deletes
  <2>1. gs[n] = g /\ \A i \in 1..n : i # n => gs[i] = s.frames[i]
    BY <1>4, <1>5, <1>7
  <2>2. Len(gs) = n /\ n = Len(s.frames) - 1 /\ Len(s.frames) = n + 1
    BY <1>4, <1>5, <1>7
  <2>3. QED
    BY <1>6, <2>1, <2>2
<1> HIDE DEF gs
<1>11. LogsCollected(gs, s.live)
  BY <1>1, <1>7, <1>10, LogsMerge
<1>12. DeletesCollected(gs, s.deleted)
  BY <1>1, <1>4, <1>10, DeletesMerge
<1>13. out.frames = gs
  BY <1>3, <1>6 DEF gs
<1>14. Steady(out)
  BY <1>3, <1>9, <1>11, <1>12, <1>13 DEF Steady
<1>15. QED
  BY <1>3, <1>14 DEF out

-----------------------------------------------------------------------------
(* The inductive invariant. *)
StackInv ==
  /\ ops \in Nat
  /\ gone \in SUBSET Addr
  /\ IF frames = <<>>
     THEN world \in SoundWorld /\ layers = <<>> /\ events = live /\ gone = deleted
     ELSE Steady(Now)
  /\ DeletedGone

LEMMA InitInv == Init => StackInv
<1> SUFFICES ASSUME Init PROVE StackInv
  OBVIOUS
<1>1. world \in SoundWorld
  BY GenesisSound DEF Init
<1>2. QED
  BY <1>1 DEF Init, StackInv, DeletedGone

LEMMA NowFields ==
  /\ IsState(Now)
  /\ Now.world = world /\ Now.layers = layers /\ Now.frames = frames
  /\ Now.live = live /\ Now.deleted = deleted
BY DEF Now, IsState

(* While a transaction runs, a call that leaves a steady state keeps the   *)
(* invariant.                                                              *)
LEMMA SetSteady ==
  ASSUME NEW s, Steady(s), Set(s), ops' \in Nat, StackInv, UNCHANGED gone
  PROVE  StackInv' /\ frames' # <<>>
<1>1. /\ world' = s.world /\ layers' = s.layers /\ frames' = s.frames
      /\ live' = s.live /\ deleted' = s.deleted
  BY DEF Set
<1>2. /\ IsState(Now)'
      /\ Now'.world = world' /\ Now'.layers = layers' /\ Now'.frames = frames'
      /\ Now'.live = live' /\ Now'.deleted = deleted'
  BY DEF Now, IsState
<1>3. Steady(Now)'
  BY <1>1, <1>2 DEF Steady
<1>4. frames' # <<>>
  BY <1>1 DEF Steady, InStep
<1>5. QED
  BY <1>3, <1>4 DEF StackInv, DeletedGone

LEMMA DepthNat ==
  ASSUME StackInv
  PROVE  Depth \in Nat
<1>1. CASE frames = <<>>
  BY <1>1, EmptySeq DEF Depth
<1>2. CASE frames # <<>>
  <2>1. frames \in Seq(Frame)
    BY <1>2, NowFields DEF StackInv, Steady, InStep
  <2>2. QED
    BY <2>1, LenProperties DEF Depth
<1>3. QED
  BY <1>1, <1>2

LEMMA Running ==
  ASSUME StackInv, Depth > 0
  PROVE  /\ Steady(Now) /\ frames # <<>> /\ Depth \in Nat
         /\ Top \in Frame /\ Top.at \in Addr
         /\ world \in SoundWorld /\ world \in World
         /\ InStep(layers, frames)
         /\ Depth = 1 => ~Top.failed
<1>1. frames # <<>>
  BY EmptySeq DEF Depth
<1>2. Steady(Now)
  BY <1>1 DEF StackInv
<1>3. InStep(layers, frames) /\ world \in SoundWorld
  BY <1>2, NowFields DEF Steady
<1>4. frames \in Seq(Frame)
  BY <1>3 DEF InStep
<1>5. Depth \in Nat /\ Depth \in 1..Depth /\ Top \in Frame /\ Top.at \in Addr
  BY <1>1, <1>4, FrameTypes DEF Depth, Top
<1>6. Depth = 1 => ~Top.failed
  BY <1>3, <1>5 DEF InStep, Depth, Top
<1>7. QED
  BY <1>1, <1>2, <1>3, <1>5, <1>6 DEF SoundWorld

LEMMA CallInv ==
  ASSUME StackInv, NEW to \in Addr, NEW value \in Values, Call(to, value)
  PROVE  StackInv'
<1>0. /\ Depth > 0 /\ (Depth = 1 \/ ~Top.failed) /\ ops' \in Nat /\ UNCHANGED gone /\ value \in Nat
  <2>1. (InRoot \/ InCode) /\ Op
    BY DEF Call
  <2>2. Depth > 0 /\ (Depth = 1 \/ ~Top.failed)
    BY <2>1, DepthNat DEF InRoot, InCode, InCall
  <2>3. ops' \in Nat /\ UNCHANGED gone
    BY <2>1 DEF Op, StackInv
  <2>4. QED
    BY <2>2, <2>3, StackAssumption
<1>1. Steady(Now) /\ Top.at \in Addr /\ world \in SoundWorld /\ ~Top.failed
  BY <1>0, Running
<1> DEFINE raised == IF Depth = 1 THEN inc_account_nonce(world, Top.at) ELSE world
           now == [Now EXCEPT !.world = raised]
           in == enter(now, to, FALSE)
           ok == CanTransfer(raised, Top.at, to, value)
           moved == [in EXCEPT !.world = Transfer(@, Top.at, to, value)]
<1>2. Set(IF ok THEN moved ELSE exit_revert(in))
  BY DEF Call
<1>3. raised \in SoundWorld
  BY <1>1, NonceSound
<1> HIDE DEF raised
<1>4. Steady(now) /\ now.world = raised /\ now.frames = frames
  BY <1>1, <1>3, WorldSteady, NowFields
<1> HIDE DEF now
<1>5. Steady(in) /\ in.world = raised /\ Len(in.frames) > 1
  <2>1. ~now.frames[Len(now.frames)].failed /\ FALSE \in BOOLEAN
    BY <1>1, <1>4 DEF Top, Depth
  <2>2. QED
    BY <1>4, <2>1, EnterSteady
<1> HIDE DEF in
<1>6. CASE ok
  <2>1. Transfer(in.world, Top.at, to, value) \in SoundWorld
    BY <1>0, <1>1, <1>3, <1>5, <1>6, TransferSound
  <2>2. Steady(moved)
    BY <1>5, <2>1, WorldSteady
  <2> HIDE DEF moved
  <2>3. QED
    BY <1>0, <1>2, <1>6, <2>2, SetSteady
<1>7. CASE ~ok
  <2>1. Steady(exit_revert(in))
    BY <1>5, DiscardSteady
  <2>2. Set(exit_revert(in))
    BY <1>2, <1>7
  <2>3. QED
    BY <1>0, <2>1, <2>2, SetSteady
<1>8. QED
  BY <1>6, <1>7

LEMMA CreateInv ==
  ASSUME StackInv, NEW a \in Addr, NEW value \in Values, Create(a, value)
  PROVE  StackInv'
<1>0. /\ Depth > 0 /\ (Depth = 1 \/ ~Top.failed) /\ ops' \in Nat /\ UNCHANGED gone /\ value \in Nat
  <2>1. (InRoot \/ InCode) /\ Op
    BY DEF Create
  <2>2. Depth > 0 /\ (Depth = 1 \/ ~Top.failed)
    BY <2>1, DepthNat DEF InRoot, InCode, InCall
  <2>3. ops' \in Nat /\ UNCHANGED gone
    BY <2>1 DEF Op, StackInv
  <2>4. QED
    BY <2>2, <2>3, StackAssumption
<1>1. Steady(Now) /\ Top.at \in Addr /\ world \in SoundWorld /\ ~Top.failed
  BY <1>0, Running
<1> DEFINE raised == inc_account_nonce(world, Top.at)
           now == [Now EXCEPT !.world = raised]
           in == enter(now, a, TRUE)
           fresh == raised.code[a] # Code /\ raised.nonce[a] = 0
           cleared == reset_storage(raised, a)
           ok == CanTransfer(cleared, Top.at, a, value)
           new == inc_account_nonce(Transfer(cleared, Top.at, a, value), a)
           made == [in EXCEPT !.world = new]
<1>2. Set(IF ~fresh THEN exit_discard(in) ELSE IF ~ok THEN exit_revert(in) ELSE made)
  BY DEF Create
<1>3. raised \in SoundWorld
  BY <1>1, NonceSound
<1> HIDE DEF raised
<1>4. Steady(now) /\ now.world = raised /\ now.frames = frames
  BY <1>1, <1>3, WorldSteady, NowFields
<1> HIDE DEF now
<1>5. Steady(in) /\ in.world = raised /\ Len(in.frames) > 1
  <2>1. ~now.frames[Len(now.frames)].failed /\ TRUE \in BOOLEAN
    BY <1>1, <1>4 DEF Top, Depth
  <2>2. QED
    BY <1>4, <2>1, EnterSteady
<1> HIDE DEF in, fresh
<1>6. CASE fresh /\ ok
  <2>1. cleared \in SoundWorld
    BY <1>3, ResetSound
  <2> HIDE DEF cleared
  <2>2. Transfer(cleared, Top.at, a, value) \in SoundWorld
    BY <1>0, <1>1, <1>6, <2>1, TransferSound
  <2>3. new \in SoundWorld
    BY <2>2, NonceSound
  <2> HIDE DEF new
  <2>4. Steady(made)
    BY <1>5, <2>3, WorldSteady
  <2> HIDE DEF made
  <2>5. Set(made)
    BY <1>2, <1>6
  <2>6. QED
    BY <1>0, <2>4, <2>5, SetSteady
<1>7. CASE ~(fresh /\ ok)
  <2>1. Steady(exit_discard(in)) /\ exit_revert(in) = exit_discard(in)
    BY <1>5, DiscardSteady
  <2>2. Set(exit_discard(in))
    BY <1>2, <1>7, <2>1
  <2>3. QED
    BY <1>0, <2>1, <2>2, SetSteady
<1>8. QED
  BY <1>6, <1>7

(* A step of the innermost frame that keeps both stacks. *)
LEMMA SetStorageInv ==
  ASSUME StackInv, NEW slot \in Slots, NEW value \in {0, 1}, SetStorage(slot, value)
  PROVE  StackInv'
<1>0. Depth > 0 /\ ops' \in Nat /\ UNCHANGED gone
  BY DepthNat DEF SetStorage, InCode, InCall, Op, StackInv
<1>1. Steady(Now) /\ Top.at \in Addr /\ world \in SoundWorld
  BY <1>0, Running
<1> DEFINE w == set_storage(Top.at, slot, value)
<1>2. w \in SoundWorld
  BY <1>1 DEF set_storage, SoundWorld, World, Referenced
<1>3. world' = w /\ UNCHANGED <<layers, frames, live, deleted>>
  BY DEF SetStorage
<1> HIDE DEF w
<1> DEFINE s == [Now EXCEPT !.world = w]
<1>4. Steady(s)
  BY <1>1, <1>2, WorldSteady
<1>5. Set(s)
  BY <1>3 DEF Set, Now
<1> HIDE DEF s
<1>6. QED
  BY <1>0, <1>4, <1>5, SetSteady

(* A step that changes the innermost frame by logs and deletions. *)
LEMMA TopSteady ==
  ASSUME StackInv, Depth > 0, NEW g \in Frame, NEW t, IsState(t),
         t.world \in SoundWorld, t.layers = layers, t.frames = [frames EXCEPT ![Depth] = g],
         g.was = Top.was, g.failed => Depth > 1, g.seen = Top.seen, g.doomed = Top.doomed,
         \/ g.logs = Top.logs /\ t.live = live
         \/ \E l \in Logs : g.logs = Append(Top.logs, l) /\ t.live = Append(live, l),
         NEW new, g.deletes = Top.deletes \cup new, t.deleted = deleted \cup new
  PROVE  Steady(t) /\ Len(t.frames) = Depth
<1> DEFINE gs == [frames EXCEPT ![Depth] = g]
<1>1. /\ InStep(layers, frames) /\ frames \in Seq(Frame) /\ frames # <<>>
      /\ LogsCollected(frames, live) /\ DeletesCollected(frames, deleted)
  BY Running, NowFields DEF Steady, InStep
<1>2. Depth = Len(frames) /\ Depth \in Nat /\ Depth \in 1..Depth /\ Top = frames[Depth]
  BY <1>1, FrameTypes DEF Depth, Top
<1>3. InStep(layers, gs)
  BY <1>1, <1>2, StepTop
<1>4. /\ gs \in Seq(Frame) /\ Len(gs) = Depth
      /\ \A j \in 1..Depth : gs[j] = IF j = Depth THEN g ELSE frames[j]
  BY <1>1, <1>2, ExceptSeq
<1> HIDE DEF gs
<1>5. gs[Depth] = g /\ \A i \in 1..Depth : i # Depth => gs[i] = frames[i]
  BY <1>2, <1>4
<1>6. DeletesCollected(gs, deleted \cup new)
  <2>1. /\ Len(frames) \in Nat /\ Len(frames) > 0 /\ Len(gs) = Len(frames)
        /\ \A i \in 1..Len(frames) : i # Len(frames) => gs[i] = frames[i]
        /\ gs[Len(frames)].doomed = frames[Len(frames)].doomed
        /\ gs[Len(frames)].deletes = frames[Len(frames)].deletes \cup new
    BY <1>2, <1>4, <1>5
  <2>2. QED
    BY <1>1, <2>1, DeletesAdd
<1>7. CASE g.logs = Top.logs /\ t.live = live
  <2>1. \A i \in 1..Depth : gs[i].seen = frames[i].seen /\ gs[i].logs = frames[i].logs
    BY <1>2, <1>5, <1>7
  <2>2. LogsCollected(gs, live)
    <3>1. Len(frames) \in Nat \ {0} /\ Len(gs) = Len(frames)
      BY <1>2, <1>4
    <3>2. QED
      BY <1>1, <1>2, <2>1, <3>1, LogsSame
  <2>3. QED
    BY <1>3, <1>4, <1>6, <1>7, <2>2 DEF Steady, gs
<1>8. ASSUME NEW l \in Logs, g.logs = Append(Top.logs, l), t.live = Append(live, l)
      PROVE  Steady(t)
  <2>0. gs[Depth].seen = frames[Depth].seen /\ gs[Depth].logs = Append(frames[Depth].logs, l)
    BY <1>2, <1>5, <1>8
  <2>1. LogsCollected(gs, Append(live, l))
    BY <1>1, <1>2, <1>4, <1>5, <2>0, LogsAdd
  <2>2. QED
    BY <1>3, <1>6, <1>8, <2>1 DEF Steady, gs
<1>9. QED
  BY <1>4, <1>7, <1>8 DEF gs

LEMMA LogInv ==
  ASSUME StackInv, NEW l \in Logs, Log(l)
  PROVE  StackInv'
<1>0. Depth > 0 /\ ops' \in Nat /\ UNCHANGED gone
  BY DepthNat DEF Log, InCode, InCall, Op, StackInv
<1>1. Steady(Now) /\ Top \in Frame /\ world \in SoundWorld /\ ~Top.failed
  BY <1>0, Running DEF Log, InCode, InCall
<1> DEFINE g == [Top EXCEPT !.logs = Append(@, l)]
           fs == [frames EXCEPT ![Depth] = g]
           t == [Now EXCEPT !.frames = fs, !.live = Append(@, l)]
<1>2. /\ frames' = fs /\ live' = Append(live, l) /\ UNCHANGED <<world, layers, deleted>>
  BY DEF Log, Top
<1>3. /\ g \in Frame /\ g.was = Top.was /\ ~g.failed /\ g.seen = Top.seen
      /\ g.doomed = Top.doomed /\ g.logs = Append(Top.logs, l) /\ g.deletes = Top.deletes \cup {}
  <2>1. Append(Top.logs, l) \in Seq(Logs)
    BY <1>1, AppendProperties DEF Frame
  <2>2. QED
    BY <1>1, <2>1 DEF Frame
<1> HIDE DEF g, fs
<1>4. /\ IsState(t) /\ t.world = world /\ t.layers = layers /\ t.frames = fs
      /\ t.live = Append(live, l) /\ t.deleted = deleted \cup {}
  BY NowFields DEF IsState
<1> HIDE DEF t
<1>5. Steady(t)
  BY <1>0, <1>1, <1>3, <1>4, TopSteady DEF fs
<1>6. Set(t)
  BY <1>2, <1>4 DEF Set
<1>7. QED
  BY <1>0, <1>5, <1>6, SetSteady

LEMMA OutOfGasInv ==
  ASSUME StackInv, OutOfGas
  PROVE  StackInv'
<1>0. Depth > 1 /\ ops' \in Nat /\ UNCHANGED gone
  BY DEF OutOfGas, InCode, InCall, Op, StackInv
<1>1. Steady(Now) /\ Top \in Frame /\ world \in SoundWorld
  BY <1>0, Running, DepthNat
<1> DEFINE g == [Top EXCEPT !.failed = TRUE]
           fs == [frames EXCEPT ![Depth] = g]
           t == [Now EXCEPT !.frames = fs]
<1>2. /\ frames' = fs /\ UNCHANGED <<world, layers, live, deleted>>
  BY DEF OutOfGas, Top
<1>3. /\ g \in Frame /\ g.was = Top.was /\ g.seen = Top.seen
      /\ g.doomed = Top.doomed /\ g.logs = Top.logs /\ g.deletes = Top.deletes \cup {}
  BY <1>1 DEF Frame
<1> HIDE DEF g, fs
<1>4. /\ IsState(t) /\ t.world = world /\ t.layers = layers /\ t.frames = fs
      /\ t.live = live /\ t.deleted = deleted \cup {}
  BY NowFields DEF IsState
<1> HIDE DEF t
<1>5. Steady(t)
  <2>1. Depth > 0 /\ t.world \in SoundWorld /\ t.frames = [frames EXCEPT ![Depth] = g]
    BY <1>0, <1>1, <1>4, DepthNat DEF fs
  <2>2. QED
    BY <1>0, <1>3, <1>4, <2>1, TopSteady
<1>6. Set(t)
  BY <1>2, <1>4 DEF Set
<1>7. QED
  BY <1>0, <1>5, <1>6, SetSteady

LEMMA SelfDestructInv ==
  ASSUME StackInv, NEW heir \in Addr, SelfDestruct(heir)
  PROVE  StackInv'
<1>0. Depth > 1 /\ ops' \in Nat /\ UNCHANGED gone
  BY DEF SelfDestruct, InCode, InCall, Op, StackInv
<1>1. /\ Steady(Now) /\ Top \in Frame /\ Top.at \in Addr /\ world \in SoundWorld
      /\ world.free[Top.at] \in Nat /\ ~Top.failed
  BY <1>0, Running, DepthNat DEF World, SelfDestruct, InCode, InCall
<1> DEFINE me == Top.at
           balance == world.free[me]
           ok == CanTransfer(world, me, heir, balance)
           w == Transfer(world, me, heir, balance)
           marked == [Now EXCEPT !.world = Transfer(@, me, heir, balance),
                                 !.frames[Depth].deletes = @ \cup {me},
                                 !.deleted = @ \cup {me}]
           g == [Top EXCEPT !.deletes = @ \cup {me}]
           fs == [frames EXCEPT ![Depth] = g]
<1>2. Set(IF ok THEN exit_commit(marked) ELSE exit_discard(Now))
  BY DEF SelfDestruct
<1>3. /\ g \in Frame /\ g.was = Top.was /\ g.seen = Top.seen /\ ~g.failed
      /\ g.doomed = Top.doomed /\ g.logs = Top.logs /\ g.deletes = Top.deletes \cup {me}
  BY <1>1 DEF Frame
<1>4. /\ IsState(marked) /\ marked.world = w /\ marked.layers = layers /\ marked.frames = fs
      /\ marked.live = live /\ marked.deleted = deleted \cup {me}
  BY DEF IsState, Now, Top
<1> HIDE DEF marked, g
<1>5. CASE ok
  <2>1. w \in SoundWorld
    BY <1>1, <1>5, TransferSound
  <2>2. Steady(marked) /\ Len(marked.frames) = Depth
    <3>1. /\ Depth > 0 /\ marked.world \in SoundWorld
          /\ marked.frames = [frames EXCEPT ![Depth] = g]
      BY <1>0, <1>4, <2>1, DepthNat
    <3>2. QED
      BY <1>3, <1>4, <3>1, TopSteady
  <2>3. Len(marked.frames) > 1
    BY <1>0, <2>2
  <2>4. Steady(exit_commit(marked))
    BY <2>2, <2>3, CommitSteady
  <2>5. Set(exit_commit(marked))
    BY <1>2, <1>5
  <2>6. QED
    BY <1>0, <2>4, <2>5, SetSteady
<1>6. CASE ~ok
  <2>1. Len(Now.frames) > 1
    BY <1>0, NowFields DEF Depth
  <2>2. Steady(exit_discard(Now))
    BY <1>1, <2>1, DiscardSteady
  <2>3. Set(exit_discard(Now))
    BY <1>2, <1>6
  <2>4. QED
    BY <1>0, <2>2, <2>3, SetSteady
<1>7. QED
  BY <1>5, <1>6

(* Leaving a frame. *)
LEMMA ReturnInv ==
  ASSUME StackInv, NEW code \in {Empty, Code}, Return(code)
  PROVE  StackInv'
<1>0. Depth > 1 /\ ops' \in Nat /\ UNCHANGED gone
  BY DEF Return, InCall, StackInv
<1>1. Steady(Now) /\ Top.at \in Addr /\ Len(Now.frames) > 1
  BY <1>0, Running, DepthNat, NowFields DEF Depth
<1> DEFINE out == exit_commit(Now)
           made == [out EXCEPT !.world = create_account(@, Top.at, code)]
<1>2. Set(IF Top.creates THEN made ELSE out)
  BY DEF Return
<1>3. Steady(out)
  BY <1>1, CommitSteady
<1> HIDE DEF out
<1>4. CASE Top.creates
  <2>1. create_account(out.world, Top.at, code) \in SoundWorld
    BY <1>1, <1>3, CreateAccountSound DEF Steady
  <2>2. Steady(made)
    BY <1>3, <2>1, WorldSteady
  <2> HIDE DEF made
  <2>3. Set(made)
    BY <1>2, <1>4
  <2>4. QED
    BY <1>0, <2>2, <2>3, SetSteady
<1>5. CASE ~Top.creates
  <2>1. Set(out)
    BY <1>2, <1>5
  <2>2. QED
    BY <1>0, <1>3, <2>1, SetSteady
<1>6. QED
  BY <1>4, <1>5

LEMMA LeaveInv ==
  ASSUME StackInv, Revert \/ Fail
  PROVE  /\ StackInv'
         /\ world' = Top.was /\ frames' = Front(frames) /\ layers' = Front(layers)
<1>0. Depth > 1 /\ ops' \in Nat /\ UNCHANGED gone
  BY DEF Revert, Fail, InCode, InCall, StackInv
<1>1. Steady(Now) /\ Len(Now.frames) > 1
  BY <1>0, Running, DepthNat, NowFields DEF Depth
<1> DEFINE out == exit_discard(Now)
<1>2. /\ Steady(out) /\ exit_revert(Now) = out
      /\ out.world = Top.was /\ out.layers = Front(layers) /\ out.frames = Front(frames)
  BY <1>1, DiscardSteady, NowFields DEF Top, Depth
<1>3. Set(out)
  BY <1>2 DEF Revert, Fail
<1> HIDE DEF out
<1>4. QED
  BY <1>0, <1>2, <1>3, SetSteady DEF Set

(* The root substate is made, and taken apart. *)
LEMMA BeginInv ==
  ASSUME StackInv, Begin
  PROVE  StackInv'
<1> DEFINE base == [Now EXCEPT !.live = <<>>, !.deleted = {}]
           f == Substate(base, User, FALSE)
           fs == <<f>>
<1>1. /\ frames' = fs /\ ops' = 0 /\ live' = <<>> /\ deleted' = {} /\ gone' = {}
      /\ world' = world /\ layers' = layers
  BY DEF Begin
<1>2. world \in SoundWorld /\ layers = <<>>
  BY DEF Begin, StackInv
<1>3. base.world = world /\ base.live = <<>> /\ base.deleted = {}
  BY DEF Now
<1> HIDE DEF base
<1>4. /\ f \in Frame /\ f.logs = <<>> /\ f.seen = 0 /\ ~f.failed
      /\ f.deletes = {} /\ f.doomed = {}
  <2>1. <<>> \in Seq(Logs) /\ Len(<<>>) = 0
    BY EmptySeq
  <2>2. QED
    BY <1>2, <1>3, <2>1, StackAssumption DEF Substate, Frame
<1> HIDE DEF f
<1>5. fs \in Seq(Frame) /\ Len(fs) = 1 /\ fs[1] = f /\ fs # <<>>
  BY <1>4
<1> HIDE DEF fs
<1>6. InStep(<<>>, fs)
  <2>1. <<>> \in Seq(SoundWorld) /\ Len(<<>>) = 0
    BY EmptySeq
  <2>2. \A i \in 1..Len(fs) : i = 1
    BY <1>5
  <2>3. QED
    BY <1>4, <1>5, <2>1, <2>2 DEF InStep
<1>7. LogsCollected(fs, <<>>)
  <2>1. <<>> \in Seq(Logs) /\ Len(<<>>) = 0
    BY EmptySeq
  <2>2. \A i \in 1..Len(fs) : i = 1 /\ EndOf(fs, <<>>, i) = 0
    BY <1>5, <2>1 DEF EndOf
  <2> DEFINE none == <<>>
  <2>3. SubSeq(none, 0 + 1, 0) = <<>>
    BY SubSeqEmpty
  <2>4. none \in Seq(Logs) /\ Len(none) = 0
    BY <2>1
  <2>5. \A i \in 1..Len(fs) : i = 1 /\ EndOf(fs, none, i) = 0
    BY <2>2
  <2> HIDE DEF none
  <2>6. \A i \in 1..Len(fs) : fs[i].logs = SubSeq(none, fs[i].seen + 1, EndOf(fs, none, i))
    BY <1>4, <1>5, <2>3, <2>5
  <2>7. LogsCollected(fs, none)
    BY <1>4, <1>5, <2>4, <2>5, <2>6 DEF LogsCollected
  <2>8. QED
    BY <2>7 DEF none
<1>8. DeletesCollected(fs, {})
  <2>1. \A i \in 1..Len(fs) : i = 1
    BY <1>5
  <2>2. QED
    BY <1>4, <1>5, <2>1 DEF DeletesCollected
<1>9. /\ IsState(Now)'
      /\ Now'.world = world' /\ Now'.layers = layers' /\ Now'.frames = frames'
      /\ Now'.live = live' /\ Now'.deleted = deleted'
  BY DEF Now, IsState
<1>10. Steady(Now)'
  BY <1>1, <1>2, <1>6, <1>7, <1>8, <1>9 DEF Steady
<1>11. QED
  BY <1>1, <1>5, <1>10 DEF StackInv, DeletedGone

LEMMA FinishInv ==
  ASSUME StackInv, Finish
  PROVE  StackInv'
<1>0. Depth = 1
  BY DEF Finish
<1>1. /\ Steady(Now) /\ world \in SoundWorld /\ Top \in Frame /\ InStep(layers, frames)
      /\ frames \in Seq(Frame) /\ Top = frames[1] /\ Len(frames) = 1
  BY <1>0, Running DEF Depth, Top, InStep
<1>2. /\ world' = remove_accounts(world, Top.deletes) /\ events' = Top.logs
      /\ gone' = Top.deletes /\ frames' = <<>> /\ UNCHANGED <<layers, ops, live, deleted>>
  BY DEF Finish
<1>3. Top.deletes \in SUBSET Addr
  BY <1>1 DEF Frame
<1>4. layers = <<>>
  <2>1. layers \in Seq(SoundWorld) /\ Len(layers) = 0
    BY <1>1 DEF InStep
  <2>2. QED
    BY <2>1, EmptySeq
<1>5. Top.logs = live
  <2>1. live \in Seq(Logs) /\ Top.seen = 0 /\ Top.logs = SubSeq(live, Top.seen + 1, Len(live))
    <3>1. LogsCollected(frames, live)
      BY <1>1, NowFields DEF Steady
    <3>2. EndOf(frames, live, 1) = Len(live) /\ 1 \in 1..Len(frames)
      BY <1>1 DEF EndOf
    <3>3. QED
      BY <1>1, <3>1, <3>2 DEF LogsCollected
  <2>2. SubSeq(live, 1, Len(live)) = live
    BY <2>1, SubSeqFull
  <2>3. QED
    BY <2>1, <2>2
<1>6. Top.deletes = deleted
  <2>1. \A a : a \in deleted <=> \E j \in 1..1 : a \in frames[j].deletes
    BY <1>1, NowFields DEF Steady, DeletesCollected
  <2>2. \A j \in 1..1 : j = 1
    OBVIOUS
  <2>3. \A a : a \in deleted <=> a \in Top.deletes
    BY <1>1, <2>1, <2>2
  <2>4. QED
    BY <2>3
<1> DEFINE w == remove_accounts(world, Top.deletes)
<1>7. /\ w \in SoundWorld
      /\ \A a \in Top.deletes : w.code[a] = Absent /\ w.storage[a] = {} /\ w.consumers[a] = 0
  BY <1>1, <1>3, RemoveAccountsSound
<1> HIDE DEF w
<1>8. world' = w
  BY <1>2 DEF w
<1>9. DeletedGone'
  BY <1>2, <1>7, <1>8 DEF DeletedGone
<1>10. QED
  BY <1>2, <1>3, <1>4, <1>5, <1>6, <1>7, <1>8, <1>9 DEF StackInv

LEMMA StepInv == StackInv /\ [Next]_vars => StackInv'
<1> SUFFICES ASSUME StackInv, [Next]_vars PROVE StackInv'
  OBVIOUS
<1>1. CASE Begin
  BY <1>1, BeginInv
<1>2. CASE OutOfGas
  BY <1>2, OutOfGasInv
<1>3. CASE Revert \/ Fail
  BY <1>3, LeaveInv
<1>4. CASE Finish
  BY <1>4, FinishInv
<1>5. ASSUME NEW a \in Addr, NEW v \in Values, Call(a, v)
      PROVE  StackInv'
  BY <1>5, CallInv
<1>6. ASSUME NEW a \in Addr \ {User}, NEW v \in Values, Create(a, v)
      PROVE  StackInv'
  BY <1>6, CreateInv
<1>7. ASSUME NEW slot \in Slots, NEW v \in {0, 1}, SetStorage(slot, v)
      PROVE  StackInv'
  BY <1>7, SetStorageInv
<1>8. ASSUME NEW l \in Logs, Log(l)
      PROVE  StackInv'
  BY <1>8, LogInv
<1>9. ASSUME NEW a \in Addr, SelfDestruct(a)
      PROVE  StackInv'
  BY <1>9, SelfDestructInv
<1>10. ASSUME NEW code \in {Empty, Code}, Return(code)
       PROVE  StackInv'
  BY <1>10, ReturnInv
<1>11. CASE UNCHANGED vars
  <2>1. /\ ops' = ops /\ gone' = gone /\ frames' = frames /\ world' = world /\ layers' = layers
        /\ events' = events /\ live' = live /\ deleted' = deleted
    BY <1>11 DEF vars
  <2>2. Now' = Now
    BY <2>1 DEF Now
  <2>3. QED
    BY <2>1, <2>2 DEF StackInv, DeletedGone, Steady, IsState
<1>12. QED
  BY <1>1, <1>2, <1>3, <1>4, <1>5, <1>6, <1>7, <1>8, <1>9, <1>10, <1>11 DEF Next

LEMMA Inductive == Spec => []StackInv
BY InitInv, StepInv, PTL DEF Spec

-----------------------------------------------------------------------------
(* The substates and the storage transactions stay in step through every   *)
(* nesting of calls, creations, reverts and failures, although exit_commit *)
(* and exit_revert return before they close the transaction when the       *)
(* parent's gasometer has failed.                                          *)
THEOREM StorageInStepAlways == Spec => []StorageInStep
<1>1. StackInv => StorageInStep
  <2> SUFFICES ASSUME StackInv PROVE StorageInStep
    OBVIOUS
  <2>1. CASE frames = <<>>
    BY <2>1, EmptySeq DEF StackInv, StorageInStep
  <2>2. CASE frames # <<>>
    BY <2>2, NowFields DEF StackInv, Steady, InStep, StorageInStep, Depth
  <2>3. QED
    BY <2>1, <2>2
<1>2. QED
  BY <1>1, Inductive, PTL

(* exit_revert and exit_discard restore the world the frame was entered    *)
(* with, whatever its children committed into it, and drop its substate    *)
(* and its storage transaction, and no other.                              *)
THEOREM RevertUndoesAlways == Spec => RevertUndoes
<1>1. StackInv /\ [Next]_vars =>
        [Revert \/ Fail => /\ world' = Top.was
                          /\ frames' = Front(frames)
                          /\ layers' = Front(layers)]_vars
  BY LeaveInv
<1>2. QED
  BY <1>1, Inductive, PTL DEF Spec, RevertUndoes

(* The substates hold the logs and deletions that were not reverted, each  *)
(* those made in it and in order, and Runner::execute deposits and removes *)
(* exactly these.                                                          *)
THEOREM EffectsAreLiveAlways == Spec => []EffectsAreLive
<1>1. StackInv => EffectsAreLive
  <2> SUFFICES ASSUME StackInv PROVE EffectsAreLive
    OBVIOUS
  <2>1. CASE frames = <<>>
    BY <2>1 DEF StackInv, EffectsAreLive
  <2>2. CASE frames # <<>>
    <3>1. LogsCollected(frames, live) /\ DeletesCollected(frames, deleted)
      BY <2>2, NowFields DEF StackInv, Steady
    <3>2. \A a : a \in deleted <=> \E j \in 1..Depth : a \in frames[j].deletes
      BY <3>1 DEF DeletesCollected, Depth
    <3>3. UNION {frames[i].deletes : i \in 1..Depth} = deleted
      BY <3>2
    <3>4. frames[1].seen = 0
      BY <3>1 DEF LogsCollected
    <3>5. \A i \in 1..Depth :
            frames[i].logs = SubSeq(live, frames[i].seen + 1,
                                    IF i = Depth THEN Len(live) ELSE frames[i + 1].seen)
      BY <3>1 DEF LogsCollected, EndOf, Depth
    <3>6. QED
      BY <2>2, <3>3, <3>4, <3>5 DEF EffectsAreLive
  <2>3. QED
    BY <2>1, <2>2
<1>2. QED
  BY <1>1, Inductive, PTL

(* remove_account and create_account leak no reference and lose none, in   *)
(* any interleaving of creations, deletions, transfers and rollbacks: what *)
(* was deleted is gone, what is referenced has code and stays alive.       *)
THEOREM AccountsSoundAlways == Spec => []AccountsSound
<1>1. StackInv => AccountsSound
  <2> SUFFICES ASSUME StackInv PROVE AccountsSound
    OBVIOUS
  <2>1. world \in SoundWorld
    BY NowFields DEF StackInv, Steady
  <2>2. QED
    BY <2>1 DEF StackInv, AccountsSound, ReferenceSound, SoundWorld, Referenced
<1>2. QED
  BY <1>1, Inductive, PTL
=============================================================================
