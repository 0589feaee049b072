------------------------- MODULE ConsensusLogProofs -------------------------
(***************************************************************************)
(* Folds, and the searches of a digest, which are folds.  The provers      *)
(* cannot instantiate a theorem about an operator, so a fold is described  *)
(* here by functions: G[i][v] is the value after element i when the value  *)
(* before it is v.  A proof about FoldLeft first shows that the function   *)
(* by which it is defined exists and then follows it along the prefixes of *)
(* the sequence (Path).                                                    *)
(***************************************************************************)
EXTENDS ConsensusLog, FiniteSetTheorems, WellFoundedInduction, TLAPS

(* Every nonempty set of naturals has a least element.                     *)
LEMMA LeastNatural ==
  ASSUME NEW T \in SUBSET Nat, T # {}
  PROVE  \E n \in T : \A m \in T : n <= m
<1> DEFINE R == OpToRel(<, Nat)
<1>1. IsWellFoundedOn(R, Nat)
  BY NatLessThanWellFounded
<1>2. \A x, y \in Nat : <<x, y>> \in R <=> x < y
  BY DEF OpToRel
<1> HIDE DEF R
<1>3. T \subseteq Nat /\ T # {}
  OBVIOUS
<1>4. PICK n \in T : \A m \in T : ~(<<m, n>> \in R)
  BY <1>1, <1>3, WFMin
<1>5. \A m \in T : ~(m < n) /\ m \in Nat /\ n \in Nat
  BY <1>2, <1>3, <1>4
<1> QED
  BY <1>5

(* A nonempty family of subsets of a finite set has a member from which no *)
(* element can be taken away within the family.                            *)
LEMMA SmallestSet ==
  ASSUME NEW S, IsFiniteSet(S), NEW T \in SUBSET (SUBSET S), T # {}
  PROVE  \E s \in T : \A x \in s : s \ {x} \notin T
<1> DEFINE N == {Cardinality(s) : s \in T}
<1>1. \A s \in SUBSET S : IsFiniteSet(s) /\ Cardinality(s) \in Nat
  BY FS_Subset, FS_CardinalityType
<1>2. N \in SUBSET Nat /\ N # {}
  BY <1>1
<1>3. PICK n \in N : \A m \in N : n <= m
  <2> HIDE DEF N
  <2> QED
    BY <1>2, LeastNatural
<1>4. PICK s \in T : Cardinality(s) = n
  OBVIOUS
<1>5. ASSUME NEW x \in s, s \ {x} \in T PROVE FALSE
  <2>1. Cardinality(s \ {x}) = Cardinality(s) - 1
    BY <1>1, FS_RemoveElement
  <2>2. n <= Cardinality(s \ {x}) /\ n \in Nat
    BY <1>2, <1>3, <1>5
  <2> QED
    BY <1>4, <2>1, <2>2
<1> QED
  BY <1>5

(* A fold over the finite set S that starts from base, takes the elements  *)
(* in the order ch and makes the step G[x][v] with values v in V.          *)
Foldable(S, V, base, G, ch) ==
  /\ IsFiniteSet(S) /\ base \in V
  /\ \A s \in SUBSET S : s # {} => ch[s] \in s
  /\ \A x \in S : \A v \in V : G[x][v] \in V

FoldOf(S, V, base, G, ch, it) ==
  /\ it \in [SUBSET S -> V]
  /\ \A s \in SUBSET S : it[s] = IF s = {} THEN base ELSE G[ch[s]][it[s \ {ch[s]}]]

(* its recursion, as long as the values stay in V *)
Unfolds(S, V, base, G, ch, it) ==
  \A s \in SUBSET S :
    /\ s = {} => it[s] = base
    /\ s # {} /\ it[s \ {ch[s]}] \in V => it[s] = G[ch[s]][it[s \ {ch[s]}]]

(* The recursive function by which such a fold is defined exists.          *)
LEMMA FoldDefined ==
  ASSUME NEW S, NEW V, NEW base, NEW G, NEW ch, Foldable(S, V, base, G, ch)
  PROVE  \E it : FoldOf(S, V, base, G, ch, it)
<1> USE DEF Foldable
<1> DEFINE Sized(n) == {s \in SUBSET S : Cardinality(s) <= n}
           Good(n, it) == /\ it \in [Sized(n) -> V]
                          /\ \A s \in Sized(n) :
                               it[s] = IF s = {} THEN base ELSE G[ch[s]][it[s \ {ch[s]}]]
           P(n) == \E it : Good(n, it)
           Bad  == {n \in Nat : ~P(n)}
<1>0. \A s \in SUBSET S : IsFiniteSet(s) /\ Cardinality(s) \in Nat /\ Cardinality(s) <= Cardinality(S)
  BY FS_Subset, FS_CardinalityType
<1>1. P(0)
  <2> DEFINE it == [s \in Sized(0) |-> base]
  <2>1. \A s \in Sized(0) : s = {}
    BY <1>0, FS_EmptySet
  <2>2. Good(0, it)
    BY <2>1
  <2> QED
    BY <2>2
<1>2. ASSUME NEW n \in Nat, P(n) PROVE P(n + 1)
  <2>1. PICK it : Good(n, it)
    BY <1>2
  <2> DEFINE jt == [s \in Sized(n + 1) |-> IF s \in Sized(n) THEN it[s] ELSE G[ch[s]][it[s \ {ch[s]}]]]
  <2>2. ASSUME NEW s \in Sized(n + 1), s # {} PROVE s \ {ch[s]} \in Sized(n) /\ ch[s] \in S
    <3>1. ch[s] \in s /\ IsFiniteSet(s)
      BY <2>2, <1>0
    <3>2. Cardinality(s \ {ch[s]}) = Cardinality(s) - 1
      BY <3>1, FS_RemoveElement
    <3> QED
      BY <3>1, <3>2, <1>0
  <2>3. {} \in Sized(n)
    BY FS_EmptySet
  <2>4. \A s \in Sized(n + 1) : jt[s] \in V
    <3> TAKE s \in Sized(n + 1)
    <3>1. CASE s \in Sized(n)
      BY <3>1, <2>1
    <3>2. CASE s \notin Sized(n)
      <4>1. s # {}
        BY <3>2, <2>3
      <4>2. it[s \ {ch[s]}] \in V
        BY <4>1, <2>1, <2>2
      <4> QED
        BY <3>2, <4>1, <4>2, <2>2
    <3> QED
      BY <3>1, <3>2
  <2>5. \A s \in Sized(n + 1) : jt[s] = IF s = {} THEN base ELSE G[ch[s]][jt[s \ {ch[s]}]]
    <3> TAKE s \in Sized(n + 1)
    <3>1. CASE s = {}
      BY <3>1, <2>1, <2>3
    <3>2. CASE s # {}
      <4>1. s \ {ch[s]} \in Sized(n) /\ s \ {ch[s]} \in Sized(n + 1)
        BY <3>2, <2>2, <1>0
      <4>2. jt[s \ {ch[s]}] = it[s \ {ch[s]}]
        BY <4>1
      <4>3. jt[s] = G[ch[s]][it[s \ {ch[s]}]]
        BY <3>2, <2>1
      <4> QED
        BY <3>2, <4>2, <4>3
    <3> QED
      BY <3>1, <3>2
  <2>6. Good(n + 1, jt)
    <3> HIDE DEF jt
    <3>1. jt = [s \in Sized(n + 1) |-> jt[s]]
      BY DEF jt
    <3> QED
      BY <3>1, <2>4, <2>5
  <2> QED
    BY <2>6
<1>3. Bad = {}
  <2> SUFFICES ASSUME Bad # {} PROVE FALSE
    OBVIOUS
  <2>0. Bad \in SUBSET Nat
    OBVIOUS
  <2>1. PICK n \in Bad : \A m \in Bad : n <= m
    <3> HIDE DEF Bad
    <3> QED
      BY <2>0, LeastNatural
  <2> HIDE DEF P
  <2>2. n \in Nat /\ n # 0
    BY <2>1, <1>1
  <2>3. n - 1 \in Nat /\ (n - 1) + 1 = n
    BY <2>2
  <2>4. P(n - 1)
    BY <2>1, <2>3
  <2>5. P((n - 1) + 1)
    BY <2>3, <2>4, <1>2
  <2> QED
    BY <2>1, <2>3, <2>5
<1>4. P(Cardinality(S))
  <2> HIDE DEF P
  <2>1. Cardinality(S) \in Nat
    BY FS_CardinalityType
  <2> QED
    BY <2>1, <1>3
<1>5. Sized(Cardinality(S)) = SUBSET S
  BY <1>0
<1> QED
  BY <1>4, <1>5 DEF FoldOf

(* ... and its values are in the set the steps of the fold stay in.        *)
LEMMA FoldTyped ==
  ASSUME NEW S, NEW V, NEW base, NEW G, NEW ch, Foldable(S, V, base, G, ch),
         NEW it, Unfolds(S, V, base, G, ch, it)
  PROVE  \A s \in SUBSET S : it[s] \in V
<1> USE DEF Foldable, Unfolds
<1> DEFINE T == {s \in SUBSET S : it[s] \notin V}
<1> SUFFICES ASSUME T # {} PROVE FALSE
  OBVIOUS
<1>1. T \in SUBSET (SUBSET S)
  OBVIOUS
<1>2. PICK s \in T : \A x \in s : s \ {x} \notin T
  <2> HIDE DEF T
  <2> QED
    BY <1>1, SmallestSet
<1>3. s # {}
  OBVIOUS
<1>4. ch[s] \in s /\ ch[s] \in S /\ s \ {ch[s]} \in SUBSET S
  BY <1>3
<1>5. it[s \ {ch[s]}] \in V
  BY <1>2, <1>4
<1>6. it[s] = G[ch[s]][it[s \ {ch[s]}]]
  BY <1>3, <1>5
<1>7. G[ch[s]][it[s \ {ch[s]}]] \in V
  BY <1>4, <1>5
<1> QED
  BY <1>6, <1>7

(* Induction along the prefixes of a sequence of length n.                 *)
LEMMA PrefixInduction ==
  ASSUME NEW n \in Nat, NEW Q, 0 \in Q, \A k \in 0 .. n : k # n /\ k \in Q => k + 1 \in Q
  PROVE  \A k \in 0 .. n : k \in Q
<1> DEFINE Bad == {k \in 0 .. n : k \notin Q}
<1> SUFFICES ASSUME Bad # {} PROVE FALSE
  OBVIOUS
<1>1. Bad \in SUBSET Nat
  OBVIOUS
<1>2. PICK k \in Bad : \A m \in Bad : k <= m
  <2> HIDE DEF Bad
  <2> QED
    BY <1>1, LeastNatural
<1>3. k \in 0 .. n /\ k # 0
  BY <1>2
<1>4. k - 1 \in 0 .. n /\ k - 1 # n /\ (k - 1) + 1 = k /\ ~(k <= k - 1)
  BY <1>3
<1>5. k - 1 \in Q
  BY <1>2, <1>4
<1> QED
  BY <1>2, <1>4, <1>5

-----------------------------------------------------------------------------
(* Folds from the left over the positions 1 .. n.                          *)

LEMMA LastIsGreatest ==
  ASSUME NEW n \in Nat, NEW s \in SUBSET (1 .. n), s # {}
  PROVE  Max(s) \in s /\ \A y \in s : Max(s) >= y
<1> DEFINE N == {n - x : x \in s}
<1>1. N \in SUBSET Nat /\ N # {}
  <2>1. \A x \in s : x \in 1 .. n /\ n - x \in Nat
    OBVIOUS
  <2> QED
    BY <2>1
<1>2. PICK k \in N : \A m \in N : k <= m
  <2> HIDE DEF N
  <2> QED
    BY <1>1, LeastNatural
<1>3. PICK x \in s : k = n - x
  OBVIOUS
<1>4. \A y \in s : x >= y
  <2> TAKE y \in s
  <2>1. n - x <= n - y /\ x \in 1 .. n /\ y \in 1 .. n
    BY <1>2, <1>3
  <2> QED
    BY <2>1
<1> QED
  BY <1>4 DEF Max

(* The steps of such a fold stay in V.                                     *)
Steps(n, V, base, G) == base \in V /\ \A i \in 1 .. n : \A v \in V : G[i][v] \in V

(* it is the function by which FoldLeft is defined; Unwinds is what is     *)
(* known of it before its values are known to be in V.                     *)
LeftFold(n, V, base, G, it) ==
  /\ it \in [SUBSET (1 .. n) -> V]
  /\ it[{}] = base
  /\ \A s \in SUBSET (1 .. n) : s # {} => it[s] = G[Max(s)][it[s \ {Max(s)}]]

Unwinds(n, V, base, G, it) ==
  /\ it[{}] = base
  /\ \A s \in SUBSET (1 .. n) :
       s # {} /\ it[s \ {Max(s)}] \in V => it[s] = G[Max(s)][it[s \ {Max(s)}]]

(* f[k] is the value of the fold after the first k elements.               *)
Path(n, V, base, G, f) ==
  /\ f \in [0 .. n -> V]
  /\ f[0] = base
  /\ \A k \in 1 .. n : f[k] = G[k][f[k - 1]]

(* The function exists when the steps stay in V.                           *)
LEMMA LeftFoldDefined ==
  ASSUME NEW n \in Nat, NEW V, NEW base, NEW G, Steps(n, V, base, G)
  PROVE  \E it : LeftFold(n, V, base, G, it)
<1> DEFINE ch == [s \in SUBSET (1 .. n) |-> Max(s)]
<1>1. IsFiniteSet(1 .. n)
  BY FS_Interval
<1>2. \A s \in SUBSET (1 .. n) : s # {} => ch[s] \in s
  BY LastIsGreatest
<1>3. \A s \in SUBSET (1 .. n) : ch[s] = Max(s)
  OBVIOUS
<1> HIDE DEF ch
<1>4. Foldable(1 .. n, V, base, G, ch)
  BY <1>1, <1>2 DEF Foldable, Steps
<1>5. PICK it : FoldOf(1 .. n, V, base, G, ch, it)
  BY <1>4, FoldDefined
<1>6. LeftFold(n, V, base, G, it)
  BY <1>3, <1>5 DEF FoldOf, LeftFold
<1> QED
  BY <1>6

(* Along the prefixes it is a path from the base.                          *)
LEMMA LeftFoldPath ==
  ASSUME NEW n \in Nat, NEW V, NEW base, NEW G, Steps(n, V, base, G),
         NEW it, Unwinds(n, V, base, G, it)
  PROVE  \E p : Path(n, V, base, G, p) /\ p[n] = it[1 .. n]
<1> DEFINE Q == {k \in 0 .. n : it[1 .. k] \in V}
<1>1. ASSUME NEW k \in 0 .. n, k # n, it[1 .. k] \in V
      PROVE  it[1 .. k + 1] = G[k + 1][it[1 .. k]]
  <2> DEFINE s == 1 .. k + 1
  <2>1. s \in SUBSET (1 .. n) /\ k + 1 \in s /\ s # {}
    BY <1>1
  <2>2. \A y \in s : y <= k + 1 /\ y \in Nat
    BY <1>1
  <2>3. Max(s) = k + 1
    <3>1. Max(s) \in s /\ Max(s) >= k + 1
      BY <2>1, LastIsGreatest
    <3> QED
      BY <2>2, <3>1
  <2>4. s \ {k + 1} = 1 .. k
    BY <1>1
  <2> HIDE DEF s
  <2>5. it[s] = G[k + 1][it[1 .. k]]
    BY <1>1, <2>1, <2>3, <2>4 DEF Unwinds
  <2> QED
    BY <2>5 DEF s
<1>2. it[1 .. 0] = base
  <2>1. 1 .. 0 = {}
    OBVIOUS
  <2> QED
    BY <2>1 DEF Unwinds
<1>3. \A k \in 0 .. n : it[1 .. k] \in V
  <2>1. 0 \in Q
    BY <1>2 DEF Steps
  <2>2. ASSUME NEW k \in 0 .. n, k # n, k \in Q PROVE k + 1 \in Q
    <3>1. it[1 .. k + 1] = G[k + 1][it[1 .. k]] /\ it[1 .. k] \in V
      BY <1>1, <2>2
    <3>2. k + 1 \in 1 .. n /\ k + 1 \in 0 .. n
      BY <2>2
    <3> QED
      BY <3>1, <3>2 DEF Steps
  <2> HIDE DEF Q
  <2>3. \A k \in 0 .. n : k \in Q
    BY <2>1, <2>2, PrefixInduction
  <2> QED
    BY <2>3 DEF Q
<1>4. \A k \in 1 .. n : it[1 .. k] = G[k][it[1 .. k - 1]]
  <2> TAKE k \in 1 .. n
  <2>1. k - 1 \in 0 .. n /\ k - 1 # n /\ (k - 1) + 1 = k
    OBVIOUS
  <2>2. it[1 .. (k - 1) + 1] = G[(k - 1) + 1][it[1 .. k - 1]]
    BY <1>1, <1>3, <2>1
  <2> QED
    BY <2>1, <2>2
<1>5. \A k \in 1 .. n : k - 1 \in 0 .. n /\ k \in 0 .. n
  OBVIOUS
<1>6. 0 \in 0 .. n /\ n \in 0 .. n
  OBVIOUS
<1> DEFINE p == [k \in 0 .. n |-> it[1 .. k]]
<1>7. Path(n, V, base, G, p) /\ p[n] = it[1 .. n]
  BY <1>2, <1>3, <1>4, <1>5, <1>6 DEF Path
<1> QED
  BY <1>7

-----------------------------------------------------------------------------
(* The searches of a digest: folds that keep the first match and give up   *)
(* on a second one.                                                        *)

(* The values such a search takes over n items of which those in L match,  *)
(* and the step it makes at item i.                                        *)
SearchValues(n, f, none, many) == {none, many} \cup {f[i] : i \in 1 .. n}

SearchStep(n, L, f, none, many) ==
  [i \in 1 .. n |-> [v \in SearchValues(n, f, none, many) |->
     IF i \notin L THEN v ELSE IF v = none THEN f[i] ELSE many]]

(* r is the outcome: nothing, the match of the only log, or too many.      *)
Searched(r, n, L, f, none, many) ==
  /\ L = {} => r = none
  /\ \A i \in 1 .. n : L = {i} => r = f[i]
  /\ (\E i, j \in L : i # j) => r = many

(* The values a search goes through are those a fold can go through.       *)
LEMMA SearchSteps ==
  ASSUME NEW n \in Nat, NEW L, NEW f, NEW none, NEW many
  PROVE  Steps(n, SearchValues(n, f, none, many), none, SearchStep(n, L, f, none, many))
  BY DEF Steps, SearchValues, SearchStep

(* From one prefix to the next the search looks at one more item.          *)
LEMMA SearchOutcome ==
  ASSUME NEW n \in Nat, NEW L \in SUBSET (1 .. n), NEW f, NEW none, NEW many, many # none,
         \A i \in 1 .. n : f[i] # none,
         NEW p, Path(n, SearchValues(n, f, none, many), none,
                     SearchStep(n, L, f, none, many), p)
  PROVE  Searched(p[n], n, L, f, none, many)
<1> DEFINE V == SearchValues(n, f, none, many)
           Q == {k \in 0 .. n : Searched(p[k], n, L \cap (1 .. k), f, none, many)}
<1>1. 0 \in Q
  BY DEF Searched, Path
<1>2. ASSUME NEW k \in 0 .. n, k # n, k \in Q PROVE k + 1 \in Q
  <2> DEFINE s == 1 .. k + 1
             v == p[k]
  <2>1. k + 1 \in 1 .. n /\ k + 1 \in 0 .. n /\ (k + 1) - 1 = k
    BY <1>2
  <2>2. s = (1 .. k) \cup {k + 1} /\ k + 1 \notin 1 .. k
    OBVIOUS
  <2>3. v \in V /\ p[k + 1] = SearchStep(n, L, f, none, many)[k + 1][v]
    BY <2>1 DEF Path
  <2>4. /\ k + 1 \notin L => p[k + 1] = v
        /\ k + 1 \in L /\ v = none => p[k + 1] = f[k + 1]
        /\ k + 1 \in L /\ v # none => p[k + 1] = many
    BY <2>1, <2>3 DEF SearchStep
  <2>5. Searched(v, n, L \cap (1 .. k), f, none, many)
    BY <1>2
  <2> HIDE DEF s, v
  <2>6. CASE k + 1 \notin L
    <3>1. L \cap s = L \cap (1 .. k)
      BY <2>2, <2>6
    <3> QED
      BY <2>1, <2>4, <2>5, <2>6, <3>1 DEF s
  <2>7. CASE k + 1 \in L /\ L \cap (1 .. k) = {}
    <3>1. v = none
      BY <2>5, <2>7 DEF Searched
    <3>2. L \cap s = {k + 1}
      BY <2>2, <2>7
    <3>3. p[k + 1] = f[k + 1]
      BY <2>4, <2>7, <3>1
    <3>4. Searched(p[k + 1], n, L \cap s, f, none, many)
      BY <3>2, <3>3 DEF Searched
    <3> QED
      BY <2>1, <3>4 DEF s
  <2>8. CASE k + 1 \in L /\ L \cap (1 .. k) # {}
    <3>1. PICK i \in L \cap (1 .. k) : TRUE
      BY <2>8
    <3>2. v # none
      <4>1. CASE L \cap (1 .. k) = {i}
        BY <2>5, <4>1 DEF Searched
      <4>2. CASE L \cap (1 .. k) # {i}
        BY <2>5, <3>1, <4>2 DEF Searched
      <4> QED
        BY <4>1, <4>2
    <3>3. p[k + 1] = many
      BY <2>4, <2>8, <3>2
    <3>4. i \in L \cap s /\ k + 1 \in L \cap s /\ i # k + 1
      BY <2>2, <2>8, <3>1
    <3>5. Searched(p[k + 1], n, L \cap s, f, none, many)
      BY <3>3, <3>4 DEF Searched
    <3> QED
      BY <2>1, <3>5 DEF s
  <2> QED
    BY <2>6, <2>7, <2>8
<1>3. n \in Q
  <2> HIDE DEF Q
  <2> QED
    BY <1>1, <1>2, PrefixInduction
<1>4. L \cap (1 .. n) = L
  OBVIOUS
<1> QED
  BY <1>3, <1>4

-----------------------------------------------------------------------------
(* The four searches.  A digest is a sequence of items d; an item is a pre *)
(* log or a post log but not both.                                         *)

Flags(d) == [i \in DOMAIN d |-> "Ok"]

FoundIn(d) == [i \in DOMAIN d |-> Found(d[i])]

(* A digest item is a pre log or a post log, never both.                   *)
LEMMA NotBoth == \A item : ~(IsPreLog(item) /\ IsPostLog(item))
  BY DEF IsPreLog, IsPostLog

(* The three outcomes of a search are told apart by res.                   *)
LEMMA ResultsDiffer ==
  /\ NotFound # MultipleLogs
  /\ \A x : Found(x) # NotFound /\ Found(x) # MultipleLogs /\ Found(x).res = "Ok"
             /\ Found(x).log = x
  /\ NotFound.res = "NotFound" /\ MultipleLogs.res = "MultipleLogs"
<1>1. NotFound.res = "NotFound" /\ MultipleLogs.res = "MultipleLogs"
  BY DEF NotFound, MultipleLogs
<1>2. \A x : Found(x).res = "Ok" /\ Found(x).log = x
  BY DEF Found
<1> QED
  BY <1>1, <1>2

(* What the match over FindLogError does with an item of interest, and     *)
(* with one that is none.                                                  *)
LEMMA MatchTrue ==
  ASSUME NEW v, NEW y, v = NotFound \/ v = MultipleLogs \/ \E x : v = Found(x)
  PROVE  Match(TRUE, v, y) = IF v = NotFound THEN Found(y) ELSE MultipleLogs
<1>1. CASE v = NotFound
  BY <1>1, ResultsDiffer DEF Match
<1>2. CASE v = MultipleLogs
  BY <1>2, ResultsDiffer DEF Match
<1>3. CASE \E x : v = Found(x)
  BY <1>3, ResultsDiffer DEF Match
<1> QED
  BY <1>1, <1>2, <1>3

LEMMA MatchFalse == \A v, y : Match(FALSE, v, y) = v
  BY DEF Match

(* Each of the four searches of a digest is a search for its kind of logs. *)
LEMMA EnsureSearches ==
  ASSUME NEW X, NEW d \in Seq(X)
  PROVE  Searched(ensure_log(d), Len(d), LogsOf(d), Flags(d), "NotFound", "MultipleLogs")
<1> DEFINE n == Len(d)
           L == LogsOf(d)
           f == Flags(d)
           V == SearchValues(n, f, "NotFound", "MultipleLogs")
           G == SearchStep(n, L, f, "NotFound", "MultipleLogs")
           Arm(i, v) == EnsureArm(IsPostLog(d[i]), EnsureArm(IsPreLog(d[i]), v))
           Def(it) == it = [s \in SUBSET (DOMAIN d) |->
                              IF s = {} THEN "NotFound" ELSE Arm(Max(s), it[s \ {Max(s)}])]
<1>1. n \in Nat /\ DOMAIN d = 1 .. n /\ L \in SUBSET (1 .. n)
  BY DEF LogsOf, PreLogsOf, PostLogsOf
<1>2. \A i \in 1 .. n : \A v \in V : Arm(i, v) = G[i][v]
  <2> TAKE i \in 1 .. n
  <2> TAKE v \in V
  <2>1. v \in {"NotFound", "MultipleLogs", "Ok"} /\ f[i] = "Ok"
    BY <1>1 DEF SearchValues, Flags
  <2>2. i \in L <=> IsPreLog(d[i]) \/ IsPostLog(d[i])
    BY <1>1 DEF LogsOf, PreLogsOf, PostLogsOf
  <2>3. G[i][v] = IF i \notin L THEN v ELSE IF v = "NotFound" THEN "Ok" ELSE "MultipleLogs"
    BY <2>1 DEF SearchStep
  <2>4. ~(IsPreLog(d[i]) /\ IsPostLog(d[i]))
    BY NotBoth
  <2> HIDE DEF L, G, V
  <2>5. EnsureArm(TRUE, v) = IF v = "NotFound" THEN "Ok" ELSE "MultipleLogs"
    BY <2>1 DEF EnsureArm
  <2>6. EnsureArm(FALSE, v) = v
    BY <2>1 DEF EnsureArm
  <2>7. EnsureArm(FALSE, EnsureArm(TRUE, v)) = EnsureArm(TRUE, v)
    BY <2>1, <2>5 DEF EnsureArm
  <2>8. IsPreLog(d[i]) \in BOOLEAN /\ IsPostLog(d[i]) \in BOOLEAN
    BY DEF IsPreLog, IsPostLog
  <2>9. CASE i \notin L
    <3>1. IsPreLog(d[i]) = FALSE /\ IsPostLog(d[i]) = FALSE
      BY <2>2, <2>8, <2>9
    <3> QED
      BY <2>3, <2>6, <2>9, <3>1
  <2>10. CASE i \in L /\ IsPreLog(d[i])
    <3>1. IsPreLog(d[i]) = TRUE /\ IsPostLog(d[i]) = FALSE
      BY <2>4, <2>8, <2>10
    <3> QED
      BY <2>3, <2>5, <2>7, <2>10, <3>1
  <2>11. CASE i \in L /\ ~IsPreLog(d[i])
    <3>1. IsPreLog(d[i]) = FALSE /\ IsPostLog(d[i]) = TRUE
      BY <2>2, <2>8, <2>11
    <3> QED
      BY <2>3, <2>5, <2>6, <2>11, <3>1
  <2> QED
    BY <2>9, <2>10, <2>11
<1> HIDE DEF Arm, V, G
<1>3. Steps(n, V, "NotFound", G)
  BY <1>1, SearchSteps DEF V, G
<1>4. PICK it : LeftFold(n, V, "NotFound", G, it)
  BY <1>1, <1>3, LeftFoldDefined
<1>5. \A s \in SUBSET (1 .. n) : s # {} => Max(s) \in 1 .. n
  BY <1>1, LastIsGreatest
<1>6. Def(it)
  <2>1. ASSUME NEW s \in SUBSET (1 .. n), s # {}
        PROVE  it[s] = Arm(Max(s), it[s \ {Max(s)}])
    <3>1. Max(s) \in 1 .. n
      BY <1>5, <2>1
    <3>2. it[s \ {Max(s)}] \in V
      BY <1>4 DEF LeftFold
    <3>3. it[s] = G[Max(s)][it[s \ {Max(s)}]]
      BY <1>4, <2>1 DEF LeftFold
    <3> QED
      BY <1>2, <3>1, <3>2, <3>3
  <2> QED
    BY <1>1, <1>4, <2>1 DEF LeftFold
<1> DEFINE jt == CHOOSE j : Def(j)
<1>7. Def(jt)
  <2> HIDE DEF Def
  <2> QED
    BY <1>6
<1>8. ensure_log(d) = jt[1 .. n]
  BY <1>1 DEF ensure_log, FoldLeft, MapThenFoldSet, jt, Arm
<1> HIDE DEF jt
<1>9. Unwinds(n, V, "NotFound", G, jt)
  BY <1>1, <1>2, <1>5, <1>7 DEF Unwinds
<1>10. PICK p : Path(n, V, "NotFound", G, p) /\ p[n] = jt[1 .. n]
  <2> HIDE DEF n
  <2> QED
    BY <1>1, <1>3, <1>9, LeftFoldPath
<1>11. \A i \in 1 .. n : f[i] # "NotFound"
  BY <1>1 DEF Flags
<1>12. Searched(p[n], n, L, f, "NotFound", "MultipleLogs")
  <2> HIDE DEF L, n, f
  <2> QED
    BY <1>1, <1>10, <1>11, SearchOutcome DEF V, G
<1> QED
  BY <1>8, <1>10, <1>12

LEMMA FindSearches ==
  ASSUME NEW X, NEW d \in Seq(X)
  PROVE  Searched(find_log(d), Len(d), LogsOf(d), FoundIn(d), NotFound, MultipleLogs)
<1> DEFINE n == Len(d)
           L == LogsOf(d)
           f == FoundIn(d)
           V == SearchValues(n, f, NotFound, MultipleLogs)
           G == SearchStep(n, L, f, NotFound, MultipleLogs)
           Arm(i, v) == Match(IsPostLog(d[i]), Match(IsPreLog(d[i]), v, d[i]), d[i])
           Def(it) == it = [s \in SUBSET (DOMAIN d) |->
                              IF s = {} THEN NotFound ELSE Arm(Max(s), it[s \ {Max(s)}])]
<1>1. n \in Nat /\ DOMAIN d = 1 .. n /\ L \in SUBSET (1 .. n)
  BY DEF LogsOf, PreLogsOf, PostLogsOf
<1>2. \A i \in 1 .. n : \A v \in V : Arm(i, v) = G[i][v]
  <2> TAKE i \in 1 .. n
  <2> TAKE v \in V
  <2>1. (v = NotFound \/ v = MultipleLogs \/ \E x : v = Found(x)) /\ f[i] = Found(d[i])
    BY <1>1 DEF SearchValues, FoundIn
  <2>2. i \in L <=> IsPreLog(d[i]) \/ IsPostLog(d[i])
    BY <1>1 DEF LogsOf, PreLogsOf, PostLogsOf
  <2>3. G[i][v] = IF i \notin L THEN v ELSE IF v = NotFound THEN Found(d[i]) ELSE MultipleLogs
    BY <2>1 DEF SearchStep
  <2>4. ~(IsPreLog(d[i]) /\ IsPostLog(d[i]))
    BY NotBoth
  <2> HIDE DEF L, G, V
  <2>5. Match(TRUE, v, d[i]) = IF v = NotFound THEN Found(d[i]) ELSE MultipleLogs
    BY <2>1, MatchTrue
  <2>6. Match(FALSE, v, d[i]) = v
    BY <2>1, MatchFalse
  <2>7. Match(FALSE, Match(TRUE, v, d[i]), d[i]) = Match(TRUE, v, d[i])
    BY <2>5, MatchFalse
  <2>8. IsPreLog(d[i]) \in BOOLEAN /\ IsPostLog(d[i]) \in BOOLEAN
    BY DEF IsPreLog, IsPostLog
  <2>9. CASE i \notin L
    <3>1. IsPreLog(d[i]) = FALSE /\ IsPostLog(d[i]) = FALSE
      BY <2>2, <2>8, <2>9
    <3> QED
      BY <2>3, <2>6, <2>9, <3>1
  <2>10. CASE i \in L /\ IsPreLog(d[i])
    <3>1. IsPreLog(d[i]) = TRUE /\ IsPostLog(d[i]) = FALSE
      BY <2>4, <2>8, <2>10
    <3> QED
      BY <2>3, <2>5, <2>7, <2>10, <3>1
  <2>11. CASE i \in L /\ ~IsPreLog(d[i])
    <3>1. IsPreLog(d[i]) = FALSE /\ IsPostLog(d[i]) = TRUE
      BY <2>2, <2>8, <2>11
    <3> QED
      BY <2>3, <2>5, <2>6, <2>11, <3>1
  <2> QED
    BY <2>9, <2>10, <2>11
<1> HIDE DEF Arm, V, G
<1>3. Steps(n, V, NotFound, G)
  BY <1>1, SearchSteps DEF V, G
<1>4. PICK it : LeftFold(n, V, NotFound, G, it)
  BY <1>1, <1>3, LeftFoldDefined
<1>5. \A s \in SUBSET (1 .. n) : s # {} => Max(s) \in 1 .. n
  BY <1>1, LastIsGreatest
<1>6. Def(it)
  <2>1. ASSUME NEW s \in SUBSET (1 .. n), s # {}
        PROVE  it[s] = Arm(Max(s), it[s \ {Max(s)}])
    <3>1. Max(s) \in 1 .. n
      BY <1>5, <2>1
    <3>2. it[s \ {Max(s)}] \in V
      BY <1>4 DEF LeftFold
    <3>3. it[s] = G[Max(s)][it[s \ {Max(s)}]]
      BY <1>4, <2>1 DEF LeftFold
    <3> QED
      BY <1>2, <3>1, <3>2, <3>3
  <2> QED
    BY <1>1, <1>4, <2>1 DEF LeftFold
<1> DEFINE jt == CHOOSE j : Def(j)
<1>7. Def(jt)
  <2> HIDE DEF Def
  <2> QED
    BY <1>6
<1>8. find_log(d) = jt[1 .. n]
  BY <1>1 DEF find_log, FoldLeft, MapThenFoldSet, jt, Arm
<1> HIDE DEF jt
<1>9. Unwinds(n, V, NotFound, G, jt)
  BY <1>1, <1>2, <1>5, <1>7 DEF Unwinds
<1>10. PICK p : Path(n, V, NotFound, G, p) /\ p[n] = jt[1 .. n]
  <2> HIDE DEF n
  <2> QED
    BY <1>1, <1>3, <1>9, LeftFoldPath
<1>11. \A i \in 1 .. n : f[i] # NotFound
  BY <1>1, ResultsDiffer DEF FoundIn
<1>12. Searched(p[n], n, L, f, NotFound, MultipleLogs)
  <2> HIDE DEF L, n, f
  <2> QED
    BY <1>1, <1>10, <1>11, SearchOutcome, ResultsDiffer DEF V, G
<1> QED
  BY <1>8, <1>10, <1>12

LEMMA PreSearches ==
  ASSUME NEW X, NEW d \in Seq(X)
  PROVE  Searched(find_pre_log(d), Len(d), PreLogsOf(d), FoundIn(d), NotFound, MultipleLogs)
<1> DEFINE n == Len(d)
           L == PreLogsOf(d)
           f == FoundIn(d)
           V == SearchValues(n, f, NotFound, MultipleLogs)
           G == SearchStep(n, L, f, NotFound, MultipleLogs)
           Arm(i, v) == Match(IsPreLog(d[i]), v, d[i])
           Def(it) == it = [s \in SUBSET (DOMAIN d) |->
                              IF s = {} THEN NotFound ELSE Arm(Max(s), it[s \ {Max(s)}])]
<1>1. n \in Nat /\ DOMAIN d = 1 .. n /\ L \in SUBSET (1 .. n)
  BY DEF PreLogsOf
<1>2. \A i \in 1 .. n : \A v \in V : Arm(i, v) = G[i][v]
  <2> TAKE i \in 1 .. n
  <2> TAKE v \in V
  <2>1. (v = NotFound \/ v = MultipleLogs \/ \E x : v = Found(x)) /\ f[i] = Found(d[i])
    BY <1>1 DEF SearchValues, FoundIn
  <2>2. i \in L <=> IsPreLog(d[i])
    BY <1>1 DEF PreLogsOf
  <2>3. G[i][v] = IF i \notin L THEN v ELSE IF v = NotFound THEN Found(d[i]) ELSE MultipleLogs
    BY <2>1 DEF SearchStep
  <2> HIDE DEF L, G, V
  <2>4. Match(TRUE, v, d[i]) = IF v = NotFound THEN Found(d[i]) ELSE MultipleLogs
    BY <2>1, MatchTrue
  <2>5. Match(FALSE, v, d[i]) = v
    BY <2>1, MatchFalse
  <2>6. IsPreLog(d[i]) \in BOOLEAN
    BY DEF IsPreLog
  <2>7. CASE i \in L
    <3>1. IsPreLog(d[i]) = TRUE
      BY <2>2, <2>6, <2>7
    <3> QED
      BY <2>3, <2>4, <2>7, <3>1
  <2>8. CASE i \notin L
    <3>1. IsPreLog(d[i]) = FALSE
      BY <2>2, <2>6, <2>8
    <3> QED
      BY <2>3, <2>5, <2>8, <3>1
  <2> QED
    BY <2>7, <2>8
<1> HIDE DEF Arm, V, G
<1>3. Steps(n, V, NotFound, G)
  BY <1>1, SearchSteps DEF V, G
<1>4. PICK it : LeftFold(n, V, NotFound, G, it)
  BY <1>1, <1>3, LeftFoldDefined
<1>5. \A s \in SUBSET (1 .. n) : s # {} => Max(s) \in 1 .. n
  BY <1>1, LastIsGreatest
<1>6. Def(it)
  <2>1. ASSUME NEW s \in SUBSET (1 .. n), s # {}
        PROVE  it[s] = Arm(Max(s), it[s \ {Max(s)}])
    <3>1. Max(s) \in 1 .. n
      BY <1>5, <2>1
    <3>2. it[s \ {Max(s)}] \in V
      BY <1>4 DEF LeftFold
    <3>3. it[s] = G[Max(s)][it[s \ {Max(s)}]]
      BY <1>4, <2>1 DEF LeftFold
    <3> QED
      BY <1>2, <3>1, <3>2, <3>3
  <2> QED
    BY <1>1, <1>4, <2>1 DEF LeftFold
<1> DEFINE jt == CHOOSE j : Def(j)
<1>7. Def(jt)
  <2> HIDE DEF Def
  <2> QED
    BY <1>6
<1>8. find_pre_log(d) = jt[1 .. n]
  BY <1>1 DEF find_pre_log, FoldLeft, MapThenFoldSet, jt, Arm
<1> HIDE DEF jt
<1>9. Unwinds(n, V, NotFound, G, jt)
  BY <1>1, <1>2, <1>5, <1>7 DEF Unwinds
<1>10. PICK p : Path(n, V, NotFound, G, p) /\ p[n] = jt[1 .. n]
  <2> HIDE DEF n
  <2> QED
    BY <1>1, <1>3, <1>9, LeftFoldPath
<1>11. \A i \in 1 .. n : f[i] # NotFound
  BY <1>1, ResultsDiffer DEF FoundIn
<1>12. Searched(p[n], n, L, f, NotFound, MultipleLogs)
  <2> HIDE DEF L, n, f
  <2> QED
    BY <1>1, <1>10, <1>11, SearchOutcome, ResultsDiffer DEF V, G
<1> QED
  BY <1>8, <1>10, <1>12

LEMMA PostSearches ==
  ASSUME NEW X, NEW d \in Seq(X)
  PROVE  Searched(find_post_log(d), Len(d), PostLogsOf(d), FoundIn(d), NotFound, MultipleLogs)
<1> DEFINE n == Len(d)
           L == PostLogsOf(d)
           f == FoundIn(d)
           V == SearchValues(n, f, NotFound, MultipleLogs)
           G == SearchStep(n, L, f, NotFound, MultipleLogs)
           Arm(i, v) == Match(IsPostLog(d[i]), v, d[i])
           Def(it) == it = [s \in SUBSET (DOMAIN d) |->
                              IF s = {} THEN NotFound ELSE Arm(Max(s), it[s \ {Max(s)}])]
<1>1. n \in Nat /\ DOMAIN d = 1 .. n /\ L \in SUBSET (1 .. n)
  BY DEF PostLogsOf
<1>2. \A i \in 1 .. n : \A v \in V : Arm(i, v) = G[i][v]
  <2> TAKE i \in 1 .. n
  <2> TAKE v \in V
  <2>1. (v = NotFound \/ v = MultipleLogs \/ \E x : v = Found(x)) /\ f[i] = Found(d[i])
    BY <1>1 DEF SearchValues, FoundIn
  <2>2. i \in L <=> IsPostLog(d[i])
    BY <1>1 DEF PostLogsOf
  <2>3. G[i][v] = IF i \notin L THEN v ELSE IF v = NotFound THEN Found(d[i]) ELSE MultipleLogs
    BY <2>1 DEF SearchStep
  <2> HIDE DEF L, G, V
  <2>4. Match(TRUE, v, d[i]) = IF v = NotFound THEN Found(d[i]) ELSE MultipleLogs
    BY <2>1, MatchTrue
  <2>5. Match(FALSE, v, d[i]) = v
    BY <2>1, MatchFalse
  <2>6. IsPostLog(d[i]) \in BOOLEAN
    BY DEF IsPostLog
  <2>7. CASE i \in L
    <3>1. IsPostLog(d[i]) = TRUE
      BY <2>2, <2>6, <2>7
    <3> QED
      BY <2>3, <2>4, <2>7, <3>1
  <2>8. CASE i \notin L
    <3>1. IsPostLog(d[i]) = FALSE
      BY <2>2, <2>6, <2>8
    <3> QED
      BY <2>3, <2>5, <2>8, <3>1
  <2> QED
    BY <2>7, <2>8
<1> HIDE DEF Arm, V, G
<1>3. Steps(n, V, NotFound, G)
  BY <1>1, SearchSteps DEF V, G
<1>4. PICK it : LeftFold(n, V, NotFound, G, it)
  BY <1>1, <1>3, LeftFoldDefined
<1>5. \A s \in SUBSET (1 .. n) : s # {} => Max(s) \in 1 .. n
  BY <1>1, LastIsGreatest
<1>6. Def(it)
  <2>1. ASSUME NEW s \in SUBSET (1 .. n), s # {}
        PROVE  it[s] = Arm(Max(s), it[s \ {Max(s)}])
    <3>1. Max(s) \in 1 .. n
      BY <1>5, <2>1
    <3>2. it[s \ {Max(s)}] \in V
      BY <1>4 DEF LeftFold
    <3>3. it[s] = G[Max(s)][it[s \ {Max(s)}]]
      BY <1>4, <2>1 DEF LeftFold
    <3> QED
      BY <1>2, <3>1, <3>2, <3>3
  <2> QED
    BY <1>1, <1>4, <2>1 DEF LeftFold
<1> DEFINE jt == CHOOSE j : Def(j)
<1>7. Def(jt)
  <2> HIDE DEF Def
  <2> QED
    BY <1>6
<1>8. find_post_log(d) = jt[1 .. n]
  BY <1>1 DEF find_post_log, FoldLeft, MapThenFoldSet, jt, Arm
<1> HIDE DEF jt
<1>9. Unwinds(n, V, NotFound, G, jt)
  BY <1>1, <1>2, <1>5, <1>7 DEF Unwinds
<1>10. PICK p : Path(n, V, NotFound, G, p) /\ p[n] = jt[1 .. n]
  <2> HIDE DEF n
  <2> QED
    BY <1>1, <1>3, <1>9, LeftFoldPath
<1>11. \A i \in 1 .. n : f[i] # NotFound
  BY <1>1, ResultsDiffer DEF FoundIn
<1>12. Searched(p[n], n, L, f, NotFound, MultipleLogs)
  <2> HIDE DEF L, n, f
  <2> QED
    BY <1>1, <1>10, <1>11, SearchOutcome, ResultsDiffer DEF V, G
<1> QED
  BY <1>8, <1>10, <1>12

(* The importer's check and the search of the sync worker agree on every   *)
(* digest: ensure_log accepts exactly the digests in which find_log finds  *)
(* a log, those with one log, and that log is the one found.               *)
THEOREM EnsureAgreesWithFindLog ==
  ASSUME NEW X, NEW d \in Seq(X)
  PROVE  /\ ensure_log(d) = find_log(d).res
         /\ \A i \in DOMAIN d : LogsOf(d) = {i} => find_log(d) = Found(d[i])
         /\ ensure_log(d) = "Ok" <=> \E i \in DOMAIN d : LogsOf(d) = {i}
<1> DEFINE n == Len(d)
           L == LogsOf(d)
<1>1. DOMAIN d = 1 .. n /\ L \in SUBSET (1 .. n)
  BY DEF LogsOf, PreLogsOf, PostLogsOf
<1>2. /\ L = {} => ensure_log(d) = "NotFound"
      /\ \A i \in 1 .. n : L = {i} => ensure_log(d) = "Ok"
      /\ (\E i, j \in L : i # j) => ensure_log(d) = "MultipleLogs"
  BY <1>1, EnsureSearches DEF Searched, Flags
<1>3. /\ L = {} => find_log(d) = NotFound
      /\ \A i \in 1 .. n : L = {i} => find_log(d) = Found(d[i])
      /\ (\E i, j \in L : i # j) => find_log(d) = MultipleLogs
  BY <1>1, FindSearches DEF Searched, FoundIn
<1>4. L = {} \/ (\E i \in 1 .. n : L = {i}) \/ \E i, j \in L : i # j
  BY <1>1
<1> HIDE DEF L, n
<1>5. CASE L = {}
  BY <1>1, <1>2, <1>3, <1>5, ResultsDiffer DEF L
<1>6. CASE \E i \in 1 .. n : L = {i}
  BY <1>1, <1>2, <1>3, <1>6, ResultsDiffer DEF L
<1>7. CASE \E i, j \in L : i # j
  BY <1>1, <1>2, <1>3, <1>7, ResultsDiffer DEF L
<1> QED
  BY <1>4, <1>5, <1>6, <1>7
=============================================================================
