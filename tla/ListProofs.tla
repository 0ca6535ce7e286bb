----------------------------- MODULE ListProofs -----------------------------
(***************************************************************************)
(* Induction, and the laws of Sum and Kept.  What a fold over a sequence   *)
(* returns is defined by recursion over sets of positions; here it is      *)
(* shown to be what going through the sequence from left to right gives.   *)
(*                                                                         *)
(* The predicate of an induction and the steps of a recursion are a set    *)
(* and a function, not operators: so the lemmas can be instantiated.       *)
(***************************************************************************)
EXTENDS Lists, SequenceTheorems, FiniteSetTheorems, WellFoundedInduction, TLAPS

-----------------------------------------------------------------------------
(* Induction.                                                              *)

LEMMA LeastNatural ==
  ASSUME NEW T \in SUBSET Nat, T # {}
  PROVE  \E n \in T : \A m \in T : n <= m
<1> DEFINE R == OpToRel(<, Nat)
<1>1. IsWellFoundedOn(R, Nat)
  BY NatLessThanWellFounded
<1>2. \A x, y \in Nat : <<y, x>> \in R <=> y < x
  BY DEF OpToRel
<1> HIDE DEF R
<1>3. PICK x \in T : \A y \in T : ~ (<<y, x>> \in R)
  BY <1>1, WFMin
<1>4. ASSUME NEW m \in T PROVE x <= m
  <2>1. ~ (<<m, x>> \in R) /\ m \in Nat /\ x \in Nat
    BY <1>3
  <2>2. ~ (m < x)
    BY <1>2, <2>1, Zenon
  <2> QED
    BY <2>1, <2>2
<1> QED
  BY <1>4

LEMMA SetInduction ==
  ASSUME NEW S, 0 \in S, \A n \in Nat : n \in S => n + 1 \in S
  PROVE  Nat \subseteq S
<1> SUFFICES ASSUME ~ (Nat \subseteq S) PROVE FALSE
  OBVIOUS
<1> DEFINE T == Nat \ S
<1>1. T \in SUBSET Nat /\ T # {}
  OBVIOUS
<1>2. PICK n \in T : \A m \in T : n <= m
  <2> HIDE DEF T
  <2> QED
    BY <1>1, LeastNatural
<1>3. n # 0 /\ n - 1 \in Nat /\ n - 1 \notin T
  BY <1>2
<1> QED
  BY <1>2, <1>3

LEMMA SeqInduction ==
  ASSUME NEW T, NEW Q, <<>> \in Q,
         \A s \in Seq(T), e \in T : s \in Q => Append(s, e) \in Q
  PROVE  Seq(T) \subseteq Q
<1> DEFINE S == {n \in Nat : \A s \in Seq(T) : Len(s) = n => s \in Q}
<1>1. 0 \in S
  <2>1. ASSUME NEW s \in Seq(T), Len(s) = 0 PROVE s \in Q
    <3>1. s = <<>>
      BY <2>1, EmptySeq
    <3> QED
      BY <3>1
  <2> QED
    BY <2>1
<1>2. ASSUME NEW n \in Nat, n \in S PROVE n + 1 \in S
  <2>1. ASSUME NEW s \in Seq(T), Len(s) = n + 1 PROVE s \in Q
    <3>1. s # <<>>
      BY <2>1, EmptySeq
    <3>2. PICK t \in Seq(T), e \in T : s = Append(t, e)
      BY <3>1, SequenceEmptyOrAppend
    <3>3. Len(t) \in Nat /\ Len(s) = Len(t) + 1
      BY <3>2, AppendProperties
    <3>4. t \in Q
      BY <1>2, <2>1, <3>3
    <3> QED
      BY <3>2, <3>4
  <2> QED
    BY <2>1
<1> HIDE DEF S
<1>3. Nat \subseteq S
  BY <1>1, <1>2, SetInduction
<1> QED
  BY <1>3, LenProperties DEF S

(* The first n values of f are the results of the steps from base on.      *)
Takes(f, n, base, step) ==
  f[0] = base /\ \A k \in 1 .. n : f[k] = step[k][f[k - 1]]

LEMMA HistoriesAgree ==
  ASSUME NEW n \in Nat, NEW base, NEW step, NEW f, NEW g,
         Takes(f, n, base, step), Takes(g, n, base, step)
  PROVE  \A k \in 0 .. n : f[k] = g[k]
<1> USE DEF Takes
<1> DEFINE S == {k \in Nat : k <= n => f[k] = g[k]}
<1>1. 0 \in S
  OBVIOUS
<1>2. ASSUME NEW k \in Nat, k \in S PROVE k + 1 \in S
  <2> SUFFICES ASSUME k + 1 <= n PROVE f[k + 1] = g[k + 1]
    OBVIOUS
  <2>1. f[k] = g[k] /\ k + 1 \in 1 .. n /\ (k + 1) - 1 = k
    BY <1>2
  <2> QED
    BY <2>1
<1> HIDE DEF S
<1>3. Nat \subseteq S
  BY <1>1, <1>2, SetInduction
<1> QED
  BY <1>3 DEF S

-----------------------------------------------------------------------------
(* Recursion.                                                              *)

(* f is the history of the steps from base on. *)
Follows(f, V, base, step) ==
  /\ f \in [Nat -> V] /\ f[0] = base
  /\ \A n \in Nat : f[n + 1] = step[n + 1][f[n]]

LEMMA Recursion ==
  ASSUME NEW V, NEW base \in V, NEW step \in [Nat -> [V -> V]]
  PROVE  \E f : Follows(f, V, base, step)
<1> DEFINE History(n) ==
             {g \in [0 .. n -> V] :
                g[0] = base /\ \A k \in 1 .. n : g[k] = step[k][g[k - 1]]}
           S == {n \in Nat : History(n) # {}}
<1>1. 0 \in S
  <2>1. [k \in 0 .. 0 |-> base] \in History(0)
    OBVIOUS
  <2> QED
    BY <2>1
<1>2. ASSUME NEW n \in Nat, n \in S PROVE n + 1 \in S
  <2>1. PICK g : g \in History(n)
    BY <1>2
  <2> DEFINE h == [k \in 0 .. n + 1 |->
                     IF k = n + 1 THEN step[n + 1][g[n]] ELSE g[k]]
  <2>2. g \in [0 .. n -> V] /\ g[0] = base /\ step[n + 1][g[n]] \in V
    BY <2>1
  <2>3. h \in [0 .. n + 1 -> V] /\ h[0] = base
    BY <2>2
  <2>4. ASSUME NEW k \in 1 .. n + 1 PROVE h[k] = step[k][h[k - 1]]
    <3>1. CASE k = n + 1
      BY <3>1
    <3>2. CASE k # n + 1
      <4>1. k \in 1 .. n /\ k - 1 \in 0 .. n /\ k - 1 # n + 1
        BY <3>2
      <4> QED
        BY <2>1, <4>1
    <3> QED
      BY <3>1, <3>2
  <2>5. h \in History(n + 1)
    BY <2>3, <2>4
  <2>6. n + 1 \in Nat
    OBVIOUS
  <2> HIDE DEF History, h
  <2>7. History(n + 1) # {}
    BY <2>5
  <2> QED
    BY <2>6, <2>7
<1>3. Nat \subseteq S
  <2> HIDE DEF S
  <2> QED
    BY <1>1, <1>2, SetInduction
<1>4. \E H : \A n \in Nat : H[n] \in History(n)
  <2> DEFINE H == [n \in Nat |-> CHOOSE g : g \in History(n)]
  <2>1. ASSUME NEW n \in Nat PROVE H[n] \in History(n)
    <3>1. \E g : g \in History(n)
      BY <1>3
    <3> HIDE DEF History
    <3>2. (CHOOSE g : g \in History(n)) \in History(n)
      BY <3>1
    <3> QED
      BY <3>2
  <2> HIDE DEF H
  <2> QED
    BY <2>1
<1>5. PICK H : \A n \in Nat : H[n] \in History(n)
  BY <1>4
<1>6. ASSUME NEW n \in Nat
      PROVE  /\ H[n] \in [0 .. n -> V] /\ H[n][0] = base
             /\ \A k \in 1 .. n : H[n][k] = step[k][H[n][k - 1]]
  BY <1>5
<1> HIDE DEF History
<1>7. ASSUME NEW n \in Nat PROVE H[n + 1][n] = H[n][n]
  <2>1. Takes(H[n], n, base, step)
    BY <1>6 DEF Takes
  <2>2. n + 1 \in Nat /\ 1 .. n \subseteq 1 .. n + 1
    OBVIOUS
  <2>3. Takes(H[n + 1], n, base, step)
    BY <1>6, <2>2 DEF Takes
  <2>4. \A k \in 0 .. n : H[n][k] = H[n + 1][k]
    BY <2>1, <2>3, HistoriesAgree
  <2> QED
    BY <2>4
<1> DEFINE f == [n \in Nat |-> H[n][n]]
<1>8. f \in [Nat -> V] /\ f[0] = base
  <2>1. \A n \in Nat : H[n][n] \in V
    BY <1>6
  <2> QED
    BY <1>6, <2>1
<1>9. ASSUME NEW n \in Nat PROVE f[n + 1] = step[n + 1][f[n]]
  <2>1. n + 1 \in 1 .. n + 1 /\ (n + 1) - 1 = n /\ n + 1 \in Nat
    OBVIOUS
  <2>2. H[n + 1][n + 1] = step[n + 1][H[n + 1][n]]
    BY <1>6, <2>1
  <2> QED
    BY <1>7, <2>1, <2>2
<1>10. Follows(f, V, base, step)
  <2> HIDE DEF f
  <2> QED
    BY <1>8, <1>9 DEF Follows
<1> QED
  BY <1>10

LEMMA MaxOfInts ==
  ASSUME NEW t \in SUBSET Int, t # {}, NEW b \in Int, \A y \in t : y <= b
  PROVE  Max(t) \in t /\ \A y \in t : Max(t) >= y
<1> DEFINE T == {k \in Nat : \E y \in t : k = b - y}
<1>1. ASSUME NEW y \in t PROVE b - y \in T
  <2>1. y \in Int /\ b - y \in Nat
    OBVIOUS
  <2> QED
    BY <2>1
<1>2. T \in SUBSET Nat /\ T # {}
  <2>1. PICK y : y \in t
    OBVIOUS
  <2> QED
    BY <1>1, <2>1
<1>3. PICK k \in T : \A m \in T : k <= m
  <2> HIDE DEF T
  <2> QED
    BY <1>2, LeastNatural
<1>4. PICK x \in t : k = b - x
  BY <1>3
<1>5. ASSUME NEW y \in t PROVE x >= y
  <2>1. k <= b - y
    BY <1>1, <1>3
  <2>2. x \in Int /\ y \in Int
    OBVIOUS
  <2> QED
    BY <1>4, <2>1, <2>2
<1> QED
  BY <1>5 DEF Max

LEMMA MinOfInts ==
  ASSUME NEW t \in SUBSET Int, t # {}, NEW b \in Int, \A y \in t : b <= y
  PROVE  Min(t) \in t /\ \A y \in t : Min(t) <= y
<1> DEFINE T == {k \in Nat : \E y \in t : k = y - b}
<1>1. ASSUME NEW y \in t PROVE y - b \in T
  <2>1. y \in Int /\ y - b \in Nat
    OBVIOUS
  <2> QED
    BY <2>1
<1>2. T \in SUBSET Nat /\ T # {}
  <2>1. PICK y : y \in t
    OBVIOUS
  <2> QED
    BY <1>1, <2>1
<1>3. PICK k \in T : \A m \in T : k <= m
  <2> HIDE DEF T
  <2> QED
    BY <1>2, LeastNatural
<1>4. PICK x \in t : k = x - b
  BY <1>3
<1>5. ASSUME NEW y \in t PROVE x <= y
  <2>1. k <= y - b
    BY <1>1, <1>3
  <2>2. x \in Int /\ y \in Int
    OBVIOUS
  <2> QED
    BY <1>4, <2>1, <2>2
<1> QED
  BY <1>5 DEF Min

LEMMA MaxIs ==
  ASSUME NEW t \in SUBSET Int, NEW x \in t, \A y \in t : y <= x
  PROVE  Max(t) = x
<1>1. Max(t) \in t /\ \A y \in t : Max(t) >= y
  <2>1. x \in Int /\ t # {}
    OBVIOUS
  <2> QED
    BY <2>1, MaxOfInts
<1>2. ASSUME NEW m \in t, m >= x PROVE m = x
  <2>1. m \in Int /\ x \in Int
    OBVIOUS
  <2> QED
    BY <1>2, <2>1
<1> QED
  BY <1>1, <1>2

LEMMA MinIs ==
  ASSUME NEW t \in SUBSET Int, NEW x \in t, \A y \in t : x <= y
  PROVE  Min(t) = x
<1>1. Min(t) \in t /\ \A y \in t : Min(t) <= y
  <2>1. x \in Int /\ t # {}
    OBVIOUS
  <2> QED
    BY <2>1, MinOfInts
<1>2. ASSUME NEW m \in t, m <= x PROVE m = x
  <2>1. m \in Int /\ x \in Int
    OBVIOUS
  <2> QED
    BY <1>2, <2>1
<1> QED
  BY <1>1, <1>2

LEMMA MaxOfTwo ==
  ASSUME NEW a \in Int, NEW b \in Int
  PROVE  Max({a, b}) = IF a >= b THEN a ELSE b
<1>1. CASE a >= b
  <2>1. {a, b} \in SUBSET Int /\ a \in {a, b} /\ \A y \in {a, b} : y <= a
    BY <1>1
  <2> QED
    BY <1>1, <2>1, MaxIs
<1>2. CASE ~ (a >= b)
  <2>1. {a, b} \in SUBSET Int /\ b \in {a, b} /\ \A y \in {a, b} : y <= b
    BY <1>2
  <2> QED
    BY <1>2, <2>1, MaxIs
<1> QED
  BY <1>1, <1>2

LEMMA MinOfTwo ==
  ASSUME NEW a \in Int, NEW b \in Int
  PROVE  Min({a, b}) = IF a <= b THEN a ELSE b
<1>1. CASE a <= b
  <2>1. {a, b} \in SUBSET Int /\ a \in {a, b} /\ \A y \in {a, b} : a <= y
    BY <1>1
  <2> QED
    BY <1>1, <2>1, MinIs
<1>2. CASE ~ (a <= b)
  <2>1. {a, b} \in SUBSET Int /\ b \in {a, b} /\ \A y \in {a, b} : b <= y
    BY <1>2
  <2> QED
    BY <1>2, <2>1, MinIs
<1> QED
  BY <1>1, <1>2

LEMMA MaxOfPositions ==
  ASSUME NEW n \in Nat, NEW t \in SUBSET (1 .. n), t # {}
  PROVE  Max(t) \in t /\ \A y \in t : Max(t) >= y
<1>1. t \in SUBSET Int /\ \A y \in t : y <= n
  OBVIOUS
<1> QED
  BY <1>1, MaxOfInts

LEMMA MaxOfPrefix ==
  ASSUME NEW n \in Nat, n # 0
  PROVE  Max(1 .. n) = n /\ (1 .. n) \ {n} = 1 .. n - 1
<1>1. 1 .. n \in SUBSET (1 .. n) /\ n \in 1 .. n
  OBVIOUS
<1>2. Max(1 .. n) \in 1 .. n /\ Max(1 .. n) >= n
  BY <1>1, MaxOfPositions
<1> QED
  BY <1>2

(* The recursion over sets of positions behind FoldLeft has a solution.    *)
Solves(it, V, base, N, step) ==
  /\ it \in [SUBSET (1 .. N) -> V]
  /\ it = [t \in SUBSET (1 .. N) |->
             IF t = {} THEN base ELSE step[Max(t)][it[t \ {Max(t)}]]]

LEMMA FoldExists ==
  ASSUME NEW V, NEW base \in V, NEW N \in Nat, NEW step \in [1 .. N -> [V -> V]]
  PROVE  \E it : Solves(it, V, base, N, step)
<1> DEFINE P == SUBSET (1 .. N)
           F == [P -> V]
           Again(g) == [t \in P |-> IF t = {} THEN base
                                    ELSE step[Max(t)][g[t \ {Max(t)}]]]
           again == [n \in Nat |-> [g \in F |-> Again(g)]]
           first == [t \in P |-> base]
<1>1. ASSUME NEW t \in P, t # {}
      PROVE  /\ Max(t) \in 1 .. N /\ Max(t) \in t /\ t \ {Max(t)} \in P
             /\ \A y \in t : y <= Max(t)
  BY <1>1, MaxOfPositions
<1>2. ASSUME NEW g \in F PROVE Again(g) \in F
  <2>1. ASSUME NEW t \in P, t # {}
        PROVE  step[Max(t)][g[t \ {Max(t)}]] \in V
    BY <1>1, <2>1
  <2> QED
    BY <2>1
<1>3. first \in F /\ again \in [Nat -> [F -> F]]
  BY <1>2
<1>4. PICK f : Follows(f, F, first, again)
  <2> HIDE DEF F, first, again
  <2> QED
    BY <1>3, Recursion
<1>5. f[0] = first
  BY <1>4 DEF Follows
<1>6. ASSUME NEW n \in Nat PROVE f[n] \in F
  <2> HIDE DEF F, again
  <2> QED
    BY <1>4 DEF Follows
<1>7. ASSUME NEW n \in Nat PROVE f[n + 1] = Again(f[n])
  <2>1. f[n + 1] = again[n + 1][f[n]]
    <3> HIDE DEF F, again
    <3> QED
      BY <1>4 DEF Follows
  <2>2. again[n + 1] = [g \in F |-> Again(g)]
    OBVIOUS
  <2> HIDE DEF again, F, Again
  <2> QED
    BY <1>6, <2>1, <2>2
<1>8. ASSUME NEW g, NEW t \in P
      PROVE  /\ t = {} => Again(g)[t] = base
             /\ t # {} => Again(g)[t] = step[Max(t)][g[t \ {Max(t)}]]
  OBVIOUS
<1> DEFINE S == {k \in Nat : \A t \in P : t \subseteq 1 .. k =>
                                f[k + 1][t] = f[k][t]}
<1>9. 0 \in S
  <2>1. ASSUME NEW t \in P, t \subseteq 1 .. 0 PROVE f[0 + 1][t] = f[0][t]
    <3>1. t = {}
      BY <2>1
    <3>2. f[0 + 1] = Again(f[0])
      BY <1>7, Zenon
    <3>3. f[0][t] = base
      BY <1>5
    <3> HIDE DEF Again
    <3> QED
      BY <1>8, <3>1, <3>2, <3>3
  <2> QED
    BY <2>1
<1>10. ASSUME NEW k \in Nat, k \in S PROVE k + 1 \in S
  <2>1. ASSUME NEW t \in P, t \subseteq 1 .. k + 1
        PROVE  f[(k + 1) + 1][t] = f[k + 1][t]
    <3>1. f[(k + 1) + 1] = Again(f[k + 1]) /\ f[k + 1] = Again(f[k])
      <4>1. k + 1 \in Nat
        OBVIOUS
      <4> HIDE DEF Again, F
      <4> QED
        BY <1>7, <4>1
    <3>2. CASE t = {}
      <4>1. Again(f[k + 1])[t] = base /\ Again(f[k])[t] = base
        <5> HIDE DEF Again
        <5> QED
          BY <1>8, <3>2
      <4> HIDE DEF Again
      <4> QED
        BY <3>1, <4>1
    <3>3. CASE t # {}
      <4> DEFINE u == t \ {Max(t)}
      <4>1. u \in P /\ u \subseteq 1 .. k
        BY <1>1, <2>1, <3>3
      <4>2. f[k + 1][u] = f[k][u]
        BY <1>10, <4>1
      <4>3. /\ Again(f[k + 1])[t] = step[Max(t)][f[k + 1][u]]
            /\ Again(f[k])[t] = step[Max(t)][f[k][u]]
        <5> HIDE DEF Again
        <5> QED
          BY <1>8, <3>3
      <4> HIDE DEF Again, u
      <4> QED
        BY <3>1, <4>2, <4>3
    <3> QED
      BY <3>2, <3>3
  <2>2. k + 1 \in Nat
    OBVIOUS
  <2> HIDE DEF P, Again, F
  <2> QED
    BY <2>1, <2>2
<1>11. N \in S
  <2> HIDE DEF S
  <2> QED
    BY <1>9, <1>10, SetInduction
<1>12. f[N] \in F /\ Again(f[N]) \in F
  BY <1>2, <1>6
<1>13. \A t \in P : Again(f[N])[t] = f[N][t]
  <2>1. f[N + 1] = Again(f[N])
    BY <1>7, Zenon
  <2> HIDE DEF Again
  <2> QED
    BY <1>11, <2>1
<1>14. f[N] = Again(f[N])
  <2> DEFINE a == f[N]  b == Again(f[N])
  <2>1. a \in F /\ b \in F /\ \A t \in P : a[t] = b[t]
    BY <1>12, <1>13
  <2>2. a = b
    <3> HIDE DEF a, b
    <3> QED
      BY <2>1
  <2> QED
    BY <2>2
<1> QED
  BY <1>12, <1>14 DEF Solves

(* What a solution gets to from the part below the greatest position.      *)
Unwinds(it, V, base, N, step) ==
  /\ N \in Nat /\ base \in V /\ step \in [1 .. N -> [V -> V]]
  /\ it[{}] = base
  /\ \A t \in SUBSET (1 .. N) : t # {} /\ it[t \ {Max(t)}] \in V
       => it[t] = step[Max(t)][it[t \ {Max(t)}]]

(* H holds the results of the first n steps from base on, for every n.     *)
History(H, V, N, base, step) == H \in [0 .. N -> V] /\ Takes(H, N, base, step)

(* Along the prefixes of 1 .. N a solution is the history of the steps.    *)
LEMMA FoldHistory ==
  ASSUME NEW V, NEW base, NEW N, NEW step, NEW it,
         Unwinds(it, V, base, N, step)
  PROVE  \E H : History(H, V, N, base, step) /\ H[N] = it[1 .. N]
<1> USE DEF Unwinds
<1>1. ASSUME NEW n \in 1 .. N, it[1 .. n - 1] \in V
      PROVE  it[1 .. n] = step[n][it[1 .. n - 1]]
  <2>1. 1 .. n \in SUBSET (1 .. N) /\ n \in 1 .. n /\ n \in Nat /\ n # 0
    OBVIOUS
  <2> DEFINE t == 1 .. n
  <2>2. Max(t) = n /\ t \ {Max(t)} = 1 .. n - 1
    BY <2>1, MaxOfPrefix
  <2>3. t \in SUBSET (1 .. N) /\ t # {} /\ it[t \ {Max(t)}] \in V
    BY <1>1, <2>1, <2>2
  <2> HIDE DEF t
  <2>4. it[t] = step[Max(t)][it[t \ {Max(t)}]]
    BY <2>3
  <2> QED
    BY <2>2, <2>4 DEF t
<1> DEFINE S == {n \in Nat : n <= N => it[1 .. n] \in V}
<1>2. 0 \in S
  <2>1. 1 .. 0 = {}
    OBVIOUS
  <2> QED
    BY <2>1
<1>3. ASSUME NEW n \in Nat, n \in S PROVE n + 1 \in S
  <2> SUFFICES ASSUME n + 1 <= N PROVE it[1 .. n + 1] \in V
    OBVIOUS
  <2>1. n + 1 \in 1 .. N /\ (n + 1) - 1 = n /\ it[1 .. n] \in V
    BY <1>3
  <2>2. it[1 .. n + 1] = step[n + 1][it[1 .. n]]
    BY <1>1, <2>1
  <2> QED
    BY <2>1, <2>2
<1>4. Nat \subseteq S
  <2> HIDE DEF S
  <2> QED
    BY <1>2, <1>3, SetInduction
<1> DEFINE H == [n \in 0 .. N |-> it[1 .. n]]
<1>5. H \in [0 .. N -> V] /\ H[0] = base /\ H[N] = it[1 .. N]
  <2>1. 1 .. 0 = {}
    OBVIOUS
  <2> QED
    BY <1>4, <2>1
<1>6. ASSUME NEW n \in 1 .. N PROVE H[n] = step[n][H[n - 1]]
  <2>1. n - 1 \in 0 .. N /\ n \in 0 .. N
    OBVIOUS
  <2>2. H[n] = it[1 .. n] /\ H[n - 1] = it[1 .. n - 1] /\ it[1 .. n - 1] \in V
    BY <1>5, <2>1
  <2> QED
    BY <1>1, <2>2
<1> HIDE DEF H
<1>7. History(H, V, N, base, step)
  BY <1>5, <1>6 DEF Takes, History
<1> QED
  BY <1>5, <1>7

-----------------------------------------------------------------------------
(* Slices of a sequence.                                                   *)

(* SubSeq(s, a, b) of a sequence: its rows, one by one. *)
LEMMA SliceOf ==
  ASSUME NEW T, NEW s \in Seq(T), NEW a \in Int, NEW b \in Int,
         1 <= a, a <= b + 1, b <= Len(s)
  PROVE  /\ SubSeq(s, a, b) \in Seq(T) /\ Len(SubSeq(s, a, b)) = b - a + 1
         /\ DOMAIN SubSeq(s, a, b) = 1 .. b - a + 1
         /\ \A i \in 1 .. b - a + 1 : SubSeq(s, a, b)[i] = s[a + i - 1]
<1>1. Len(s) \in Nat /\ \A i \in a .. b : s[i] \in T
  BY LenProperties, ElementOfSeq
<1>2. /\ SubSeq(s, a, b) \in Seq(T)
      /\ Len(SubSeq(s, a, b)) = IF a <= b THEN b - a + 1 ELSE 0
      /\ \A i \in 1 .. b - a + 1 : SubSeq(s, a, b)[i] = s[a + i - 1]
  BY <1>1, SubSeqProperties
<1>3. Len(SubSeq(s, a, b)) = b - a + 1
  BY <1>2
<1> QED
  BY <1>2, <1>3, LenProperties

LEMMA SliceGrows ==
  ASSUME NEW T, NEW s \in Seq(T), NEW a \in Int, NEW b \in Int,
         1 <= a, a <= b + 1, b + 1 <= Len(s)
  PROVE  SubSeq(s, a, b + 1) = Append(SubSeq(s, a, b), s[b + 1])
<1> DEFINE u == SubSeq(s, a, b)
           v == SubSeq(s, a, b + 1)
           n == b - a + 1
<1>1. /\ u \in Seq(T) /\ Len(u) = n /\ \A i \in 1 .. n : u[i] = s[a + i - 1]
      /\ v \in Seq(T) /\ Len(v) = n + 1 /\ \A i \in 1 .. n + 1 : v[i] = s[a + i - 1]
  <2>1. /\ v \in Seq(T) /\ Len(v) = (b + 1) - a + 1
        /\ \A i \in 1 .. (b + 1) - a + 1 : v[i] = s[a + i - 1]
    <3>1. b + 1 \in Int /\ a <= (b + 1) + 1
      OBVIOUS
    <3> QED
      BY <3>1, SliceOf
  <2>2. u \in Seq(T) /\ Len(u) = n /\ \A i \in 1 .. n : u[i] = s[a + i - 1]
    <3>1. b <= Len(s)
      BY LenProperties
    <3> QED
      BY <3>1, SliceOf
  <2> QED
    BY <2>1, <2>2
<1>2. n \in Nat /\ a + (n + 1) - 1 = b + 1 /\ s[b + 1] \in T
  <2>1. b + 1 \in 1 .. Len(s)
    BY LenProperties
  <2> QED
    BY <2>1, ElementOfSeq
<1> HIDE DEF u, v, n
<1>3. /\ Append(u, s[b + 1]) \in Seq(T) /\ Len(Append(u, s[b + 1])) = n + 1
      /\ \A i \in 1 .. n : Append(u, s[b + 1])[i] = u[i]
      /\ Append(u, s[b + 1])[n + 1] = s[b + 1]
  BY <1>1, <1>2, AppendProperties
<1>4. ASSUME NEW i \in 1 .. n + 1 PROVE v[i] = Append(u, s[b + 1])[i]
  <2>1. CASE i = n + 1
    <3>1. v[n + 1] = s[a + (n + 1) - 1]
      BY <1>1, <1>2
    <3> QED
      BY <1>2, <1>3, <2>1, <3>1
  <2>2. CASE i # n + 1
    <3>1. i \in 1 .. n
      BY <1>2, <2>2
    <3> QED
      BY <1>1, <1>3, <3>1
  <2> QED
    BY <2>1, <2>2
<1>5. v = Append(u, s[b + 1])
  BY <1>1, <1>3, <1>4, SeqEqual
<1> QED
  BY <1>5 DEF u, v

-----------------------------------------------------------------------------
(* Sum.                                                                    *)

(* H holds the sums of the prefixes of s. *)
Adds(H, s) ==
  /\ H \in [0 .. Len(s) -> Int] /\ H[0] = 0
  /\ \A n \in 1 .. Len(s) : H[n] = H[n - 1] + s[n]

LEMMA SumHistory ==
  ASSUME NEW s \in Seq(Int)
  PROVE  \E H : Adds(H, s) /\ H[Len(s)] = Sum(s)
<1> DEFINE N == Len(s)
           step == [n \in 1 .. N |-> [v \in Int |-> v + s[n]]]
           Sums(it) == it = [t \in SUBSET (1 .. N) |->
                         IF t = {} THEN 0 ELSE it[t \ {Max(t)}] + s[Max(t)]]
           chosen == CHOOSE it : Sums(it)
<1>1. N \in Nat /\ DOMAIN s = 1 .. N /\ \A n \in 1 .. N : s[n] \in Int
  BY LenProperties, ElementOfSeq
<1>2. Sum(s) = chosen[1 .. N]
  BY <1>1 DEF Sum, FoldLeft, MapThenFoldSet
<1>3. 0 \in Int /\ step \in [1 .. N -> [Int -> Int]]
  BY <1>1
<1>4. ASSUME NEW t \in SUBSET (1 .. N), t # {}, NEW v \in Int
      PROVE  step[Max(t)][v] = v + s[Max(t)]
  <2>1. Max(t) \in 1 .. N
    BY <1>1, <1>4, MaxOfPositions
  <2> QED
    BY <2>1
<1>5. \E it : Sums(it)
  <2>1. PICK it : Solves(it, Int, 0, N, step)
    <3>1. N \in Nat
      BY <1>1
    <3> HIDE DEF step, N
    <3> QED
      BY <1>3, <3>1, FoldExists, Zenon
  <2>2. ASSUME NEW t \in SUBSET (1 .. N), t # {}
        PROVE  step[Max(t)][it[t \ {Max(t)}]] = it[t \ {Max(t)}] + s[Max(t)]
    <3>1. it[t \ {Max(t)}] \in Int
      BY <2>1 DEF Solves
    <3> HIDE DEF step, N
    <3> QED
      BY <1>4, <2>2, <3>1
  <2>3. it = [t \in SUBSET (1 .. N) |->
                IF t = {} THEN 0 ELSE step[Max(t)][it[t \ {Max(t)}]]]
    <3> HIDE DEF step
    <3> QED
      BY <2>1 DEF Solves
  <2>4. Sums(it)
    <3> HIDE DEF step, N
    <3> QED
      BY <2>2, <2>3
  <2> QED
    BY <2>4
<1>6. Sums(chosen)
  <2> HIDE DEF Sums
  <2> QED
    BY <1>5
<1>7. PICK H : History(H, Int, N, 0, step) /\ H[N] = chosen[1 .. N]
  <2> HIDE DEF chosen
  <2>1. N \in Nat /\ chosen[{}] = 0
    BY <1>1, <1>6
  <2>2. ASSUME NEW t \in SUBSET (1 .. N), t # {}, chosen[t \ {Max(t)}] \in Int
        PROVE  chosen[t] = step[Max(t)][chosen[t \ {Max(t)}]]
    <3>1. chosen[t] = chosen[t \ {Max(t)}] + s[Max(t)]
      BY <1>6, <2>2
    <3> HIDE DEF step, N
    <3> QED
      BY <1>4, <2>2, <3>1
  <2> HIDE DEF step, N
  <2>3. Unwinds(chosen, Int, 0, N, step)
    BY <1>3, <2>1, <2>2 DEF Unwinds
  <2> QED
    BY <2>3, FoldHistory
<1>8. ASSUME NEW n \in 1 .. N PROVE H[n] = H[n - 1] + s[n]
  <2>1. n - 1 \in 0 .. N /\ H[n - 1] \in Int
    <3> HIDE DEF step, chosen
    <3> QED
      BY <1>1, <1>7 DEF History
  <2>2. H[n] = step[n][H[n - 1]]
    <3> HIDE DEF step, N
    <3> QED
      BY <1>7 DEF Takes, History
  <2> QED
    BY <2>1, <2>2
<1>9. H[0] = 0 /\ H[N] = Sum(s)
  BY <1>2, <1>7 DEF Takes, History
<1>10. Adds(H, s)
  <2> HIDE DEF step, chosen, Sums
  <2> QED
    BY <1>7, <1>8, <1>9 DEF Adds, History
<1> QED
  BY <1>9, <1>10

LEMMA SumEmpty == Sum(<<>>) = 0
<1>1. <<>> \in Seq(Int) /\ Len(<<>>) = 0
  BY EmptySeq
<1>2. PICK H : Adds(H, <<>>) /\ H[Len(<<>>)] = Sum(<<>>)
  BY <1>1, SumHistory
<1> QED
  BY <1>1, <1>2 DEF Adds

LEMMA SumType ==
  ASSUME NEW s \in Seq(Int)
  PROVE  Sum(s) \in Int
<1>1. Len(s) \in 0 .. Len(s)
  BY LenProperties
<1>2. PICK H : Adds(H, s) /\ H[Len(s)] = Sum(s)
  BY SumHistory
<1> QED
  BY <1>1, <1>2 DEF Adds

LEMMA SumAppend ==
  ASSUME NEW s \in Seq(Int), NEW x \in Int
  PROVE  Sum(Append(s, x)) = Sum(s) + x
<1> DEFINE r == Append(s, x)
           n == Len(s)
<1>1. /\ r \in Seq(Int) /\ Len(r) = n + 1 /\ n \in Nat /\ r[n + 1] = x
      /\ \A k \in 1 .. n : r[k] = s[k]
  BY AppendProperties, LenProperties
<1>2. PICK G : Adds(G, s) /\ G[n] = Sum(s)
  BY SumHistory
<1> HIDE DEF r
<1>3. PICK H : Adds(H, r) /\ H[Len(r)] = Sum(r)
  BY <1>1, SumHistory
<1> HIDE DEF n
<1> DEFINE S == {k \in Nat : k <= n => G[k] = H[k]}
<1>4. 0 \in S
  BY <1>2, <1>3 DEF Adds
<1>5. ASSUME NEW k \in Nat, k \in S PROVE k + 1 \in S
  <2> SUFFICES ASSUME k + 1 <= n PROVE G[k + 1] = H[k + 1]
    OBVIOUS
  <2>1. k + 1 \in 1 .. n /\ k + 1 \in 1 .. n + 1 /\ (k + 1) - 1 = k /\ G[k] = H[k]
    BY <1>1, <1>5
  <2>2. G[k + 1] = G[k] + s[k + 1]
    BY <1>2, <2>1 DEF Adds, n
  <2>3. H[k + 1] = H[k] + r[k + 1]
    BY <1>1, <1>3, <2>1 DEF Adds
  <2> QED
    BY <1>1, <2>1, <2>2, <2>3
<1>6. Nat \subseteq S
  <2> HIDE DEF S
  <2> QED
    BY <1>4, <1>5, SetInduction
<1>7. G[n] = H[n]
  BY <1>1, <1>6
<1>8. n + 1 \in 1 .. n + 1 /\ (n + 1) - 1 = n
  BY <1>1
<1>9. H[n + 1] = H[n] + r[n + 1]
  BY <1>1, <1>3, <1>8 DEF Adds
<1> QED
  BY <1>1, <1>2, <1>3, <1>7, <1>9 DEF r

-----------------------------------------------------------------------------
(* Kept.                                                                   *)

(* H holds what is kept of the prefixes of s. *)
Keeps(H, s, S, T) ==
  /\ H \in [0 .. Len(s) -> Seq(T)] /\ H[0] = <<>>
  /\ \A n \in 1 .. Len(s) :
       H[n] = IF s[n] \in S THEN Append(H[n - 1], s[n]) ELSE H[n - 1]

LEMMA KeptHistory ==
  ASSUME NEW T, NEW s \in Seq(T), NEW S
  PROVE  \E H : Keeps(H, s, S, T) /\ H[Len(s)] = Kept(s, S)
<1> DEFINE N == Len(s)
           V == Seq(T)
           Step(v, n) == IF s[n] \in S THEN Append(v, s[n]) ELSE v
           step == [n \in 1 .. N |-> [v \in V |-> Step(v, n)]]
           Keeping(it) == it = [t \in SUBSET (1 .. N) |->
                            IF t = {} THEN <<>> ELSE Step(it[t \ {Max(t)}], Max(t))]
           chosen == CHOOSE it : Keeping(it)
<1>1. N \in Nat /\ DOMAIN s = 1 .. N /\ \A n \in 1 .. N : s[n] \in T
  BY LenProperties, ElementOfSeq
<1>2. Kept(s, S) = chosen[1 .. N]
  BY <1>1 DEF Kept, FoldLeft, MapThenFoldSet
<1>3. <<>> \in V /\ step \in [1 .. N -> [V -> V]]
  <2>1. ASSUME NEW n \in 1 .. N, NEW v \in V PROVE Step(v, n) \in V
    BY <1>1, AppendProperties
  <2> HIDE DEF Step
  <2>2. step \in [1 .. N -> [V -> V]]
    BY <2>1
  <2> QED
    BY <2>2, EmptySeq
<1> HIDE DEF Step
<1>4. ASSUME NEW t \in SUBSET (1 .. N), t # {}, NEW v \in V
      PROVE  step[Max(t)][v] = Step(v, Max(t))
  <2>1. Max(t) \in 1 .. N
    BY <1>1, <1>4, MaxOfPositions
  <2> QED
    BY <2>1
<1> HIDE DEF V
<1>5. \E it : Keeping(it)
  <2>1. PICK it : Solves(it, V, <<>>, N, step)
    <3>1. N \in Nat
      BY <1>1
    <3> HIDE DEF step, N
    <3> QED
      BY <1>3, <3>1, FoldExists, Zenon
  <2>2. ASSUME NEW t \in SUBSET (1 .. N), t # {}
        PROVE  step[Max(t)][it[t \ {Max(t)}]] = Step(it[t \ {Max(t)}], Max(t))
    <3>1. it[t \ {Max(t)}] \in V
      BY <2>1 DEF Solves
    <3> HIDE DEF step, N
    <3> QED
      BY <1>4, <2>2, <3>1
  <2>3. it = [t \in SUBSET (1 .. N) |->
                IF t = {} THEN <<>> ELSE step[Max(t)][it[t \ {Max(t)}]]]
    <3> HIDE DEF step
    <3> QED
      BY <2>1 DEF Solves
  <2>4. Keeping(it)
    <3> HIDE DEF step, N
    <3> QED
      BY <2>2, <2>3
  <2> QED
    BY <2>4
<1>6. Keeping(chosen)
  <2> HIDE DEF Keeping
  <2> QED
    BY <1>5
<1>7. PICK H : History(H, V, N, <<>>, step) /\ H[N] = chosen[1 .. N]
  <2> HIDE DEF chosen
  <2>1. N \in Nat /\ chosen[{}] = <<>>
    BY <1>1, <1>6
  <2>2. ASSUME NEW t \in SUBSET (1 .. N), t # {}, chosen[t \ {Max(t)}] \in V
        PROVE  chosen[t] = step[Max(t)][chosen[t \ {Max(t)}]]
    <3>1. chosen[t] = Step(chosen[t \ {Max(t)}], Max(t))
      BY <1>6, <2>2
    <3> HIDE DEF step, N
    <3> QED
      BY <1>4, <2>2, <3>1
  <2> HIDE DEF step, N
  <2>3. Unwinds(chosen, V, <<>>, N, step)
    BY <1>3, <2>1, <2>2 DEF Unwinds
  <2> QED
    BY <2>3, FoldHistory
<1>8. ASSUME NEW n \in 1 .. N PROVE H[n] = Step(H[n - 1], n)
  <2>1. n - 1 \in 0 .. N /\ H[n - 1] \in V
    <3> HIDE DEF step, chosen
    <3> QED
      BY <1>1, <1>7 DEF History
  <2>2. H[n] = step[n][H[n - 1]]
    <3> HIDE DEF step, N
    <3> QED
      BY <1>7 DEF Takes, History
  <2> QED
    BY <2>1, <2>2
<1>9. H[0] = <<>> /\ H[N] = Kept(s, S)
  BY <1>2, <1>7 DEF Takes, History
<1>10. Keeps(H, s, S, T)
  <2> HIDE DEF step, chosen, Keeping
  <2> QED
    BY <1>7, <1>8, <1>9 DEF Keeps, History, Step, V
<1> QED
  BY <1>9, <1>10

LEMMA KeptEmpty ==
  ASSUME NEW S
  PROVE  Kept(<<>>, S) = <<>>
<1>1. <<>> \in Seq({}) /\ Len(<<>>) = 0
  BY EmptySeq
<1>2. PICK H : Keeps(H, <<>>, S, {}) /\ H[Len(<<>>)] = Kept(<<>>, S)
  BY <1>1, KeptHistory
<1> QED
  BY <1>1, <1>2 DEF Keeps

LEMMA KeptType ==
  ASSUME NEW T, NEW s \in Seq(T), NEW S
  PROVE  Kept(s, S) \in Seq(T)
<1>1. Len(s) \in 0 .. Len(s)
  BY LenProperties
<1>2. PICK H : Keeps(H, s, S, T) /\ H[Len(s)] = Kept(s, S)
  BY KeptHistory
<1> QED
  BY <1>1, <1>2 DEF Keeps

LEMMA KeptAppend ==
  ASSUME NEW T, NEW s \in Seq(T), NEW x \in T, NEW S
  PROVE  Kept(Append(s, x), S) =
           IF x \in S THEN Append(Kept(s, S), x) ELSE Kept(s, S)
<1> DEFINE r == Append(s, x)
           n == Len(s)
<1>1. /\ r \in Seq(T) /\ Len(r) = n + 1 /\ n \in Nat /\ r[n + 1] = x
      /\ \A k \in 1 .. n : r[k] = s[k]
  BY AppendProperties, LenProperties
<1>2. PICK G : Keeps(G, s, S, T) /\ G[n] = Kept(s, S)
  BY KeptHistory
<1> HIDE DEF r
<1>3. PICK H : Keeps(H, r, S, T) /\ H[Len(r)] = Kept(r, S)
  BY <1>1, KeptHistory
<1> HIDE DEF n
<1> DEFINE A == {k \in Nat : k <= n => G[k] = H[k]}
<1>4. 0 \in A
  BY <1>2, <1>3 DEF Keeps
<1>5. ASSUME NEW k \in Nat, k \in A PROVE k + 1 \in A
  <2> SUFFICES ASSUME k + 1 <= n PROVE G[k + 1] = H[k + 1]
    OBVIOUS
  <2>1. k + 1 \in 1 .. n /\ k + 1 \in 1 .. n + 1 /\ (k + 1) - 1 = k /\ G[k] = H[k]
    BY <1>1, <1>5
  <2>2. G[k + 1] = IF s[k + 1] \in S THEN Append(G[k], s[k + 1]) ELSE G[k]
    BY <1>2, <2>1 DEF Keeps, n
  <2>3. H[k + 1] = IF r[k + 1] \in S THEN Append(H[k], r[k + 1]) ELSE H[k]
    BY <1>1, <1>3, <2>1 DEF Keeps
  <2> QED
    BY <1>1, <2>1, <2>2, <2>3
<1>6. Nat \subseteq A
  <2> HIDE DEF A
  <2> QED
    BY <1>4, <1>5, SetInduction
<1>7. G[n] = H[n]
  BY <1>1, <1>6
<1>8. n + 1 \in 1 .. n + 1 /\ (n + 1) - 1 = n
  BY <1>1
<1>9. H[n + 1] = IF r[n + 1] \in S THEN Append(H[n], r[n + 1]) ELSE H[n]
  BY <1>1, <1>3, <1>8 DEF Keeps
<1> QED
  BY <1>1, <1>2, <1>3, <1>7, <1>9 DEF r

LEMMA MembersOfAppend ==
  ASSUME NEW T, NEW s \in Seq(T), NEW x \in T
  PROVE  /\ ToSet(s) \subseteq T
         /\ ToSet(Append(s, x)) = ToSet(s) \cup {x}
<1>1. /\ DOMAIN s = 1 .. Len(s) /\ Len(s) \in Nat
      /\ DOMAIN Append(s, x) = 1 .. Len(s) + 1
      /\ \A k \in 1 .. Len(s) : Append(s, x)[k] = s[k] /\ s[k] \in T
      /\ Append(s, x)[Len(s) + 1] = x
  BY AppendProperties, LenProperties, ElementOfSeq
<1>2. 1 .. Len(s) + 1 = (1 .. Len(s)) \cup {Len(s) + 1}
  BY <1>1
<1> QED
  BY <1>1, <1>2 DEF ToSet

(* Only the condition's verdict on the rows there are matters. *)
LEMMA KeptAgrees ==
  ASSUME NEW T, NEW s \in Seq(T), NEW U, NEW V, \A x \in ToSet(s) : x \in U <=> x \in V
  PROVE  Kept(s, U) = Kept(s, V)
<1> DEFINE Q == {r \in Seq(T) : (\A x \in ToSet(r) : x \in U <=> x \in V)
                                  => Kept(r, U) = Kept(r, V)}
<1>1. <<>> \in Q
  BY EmptySeq, KeptEmpty
<1>2. ASSUME NEW r \in Seq(T), NEW x \in T, r \in Q
      PROVE  Append(r, x) \in Q
  <2>1. Append(r, x) \in Seq(T) /\ ToSet(Append(r, x)) = ToSet(r) \cup {x}
    BY AppendProperties, MembersOfAppend
  <2>2. Kept(Append(r, x), U) = IF x \in U THEN Append(Kept(r, U), x) ELSE Kept(r, U)
    BY KeptAppend
  <2>3. Kept(Append(r, x), V) = IF x \in V THEN Append(Kept(r, V), x) ELSE Kept(r, V)
    BY KeptAppend
  <2>4. ASSUME \A y \in ToSet(Append(r, x)) : y \in U <=> y \in V
        PROVE  Kept(Append(r, x), U) = Kept(Append(r, x), V)
    <3>1. Kept(r, U) = Kept(r, V) /\ (x \in U <=> x \in V)
      BY <1>2, <2>1, <2>4
    <3> QED
      BY <2>2, <2>3, <3>1
  <2> QED
    BY <2>1, <2>4
<1> HIDE DEF Q
<1>3. Seq(T) \subseteq Q
  BY <1>1, <1>2, SeqInduction
<1> QED
  BY <1>3 DEF Q

LEMMA KeptMembers ==
  ASSUME NEW T, NEW s \in Seq(T), NEW U
  PROVE  ToSet(Kept(s, U)) = ToSet(s) \cap U
<1> DEFINE Q == {r \in Seq(T) : ToSet(Kept(r, U)) = ToSet(r) \cap U}
<1>1. <<>> \in Q
  BY EmptySeq, KeptEmpty DEF ToSet
<1>2. ASSUME NEW r \in Seq(T), NEW x \in T, r \in Q
      PROVE  Append(r, x) \in Q
  <2>1. Append(r, x) \in Seq(T) /\ ToSet(Append(r, x)) = ToSet(r) \cup {x}
    BY AppendProperties, MembersOfAppend
  <2>2. Kept(Append(r, x), U) = IF x \in U THEN Append(Kept(r, U), x) ELSE Kept(r, U)
    BY KeptAppend
  <2>3. ToSet(Append(Kept(r, U), x)) = ToSet(Kept(r, U)) \cup {x}
    BY KeptType, MembersOfAppend
  <2> QED
    BY <1>2, <2>1, <2>2, <2>3
<1> HIDE DEF Q
<1>3. Seq(T) \subseteq Q
  BY <1>1, <1>2, SeqInduction
<1> QED
  BY <1>3 DEF Q

(* As many rows are kept as there are positions with such a row. *)
LEMMA KeptCount ==
  ASSUME NEW T, NEW s \in Seq(T), NEW U
  PROVE  Len(Kept(s, U)) = Cardinality({i \in DOMAIN s : s[i] \in U})
<1> DEFINE At(r) == {i \in DOMAIN r : r[i] \in U}
           Q == {r \in Seq(T) : /\ IsFiniteSet(At(r))
                                /\ Len(Kept(r, U)) = Cardinality(At(r))}
<1>1. <<>> \in Q
  <2>1. <<>> \in Seq(T) /\ Kept(<<>>, U) = <<>> /\ Len(<<>>) = 0 /\ At(<<>>) = {}
    BY EmptySeq, KeptEmpty
  <2> HIDE DEF At
  <2> QED
    BY <2>1, FS_EmptySet
<1>2. ASSUME NEW r \in Seq(T), NEW x \in T, r \in Q
      PROVE  Append(r, x) \in Q
  <2> DEFINE n == Len(r)
  <2>1. /\ Append(r, x) \in Seq(T) /\ n \in Nat /\ DOMAIN r = 1 .. n
        /\ DOMAIN Append(r, x) = 1 .. n + 1 /\ Append(r, x)[n + 1] = x
        /\ \A i \in 1 .. n : Append(r, x)[i] = r[i]
    BY AppendProperties, LenProperties
  <2>2. Kept(Append(r, x), U) = IF x \in U THEN Append(Kept(r, U), x) ELSE Kept(r, U)
    BY KeptAppend
  <2>3. Kept(r, U) \in Seq(T) /\ Len(Append(Kept(r, U), x)) = Len(Kept(r, U)) + 1
    BY KeptType, AppendProperties
  <2>4. At(Append(r, x)) = IF x \in U THEN At(r) \cup {n + 1} ELSE At(r)
    BY <2>1
  <2>5. n + 1 \notin At(r)
    BY <2>1
  <2>6. IsFiniteSet(At(r)) /\ Len(Kept(r, U)) = Cardinality(At(r))
    BY <1>2
  <2> HIDE DEF At, n
  <2>7. /\ IsFiniteSet(At(r) \cup {n + 1})
        /\ Cardinality(At(r) \cup {n + 1}) = Cardinality(At(r)) + 1
    BY <2>5, <2>6, FS_AddElement
  <2> QED
    BY <2>1, <2>2, <2>3, <2>4, <2>6, <2>7
<1>3. Seq(T) \subseteq Q
  <2> HIDE DEF Q
  <2> QED
    BY <1>1, <1>2, SeqInduction
<1> QED
  BY <1>3

LEMMA WholeSlice ==
  ASSUME NEW T, NEW s \in Seq(T)
  PROVE  /\ SubSeq(s, 1, Len(s)) = s
         /\ SubSeq(s, 1, 0) = <<>> /\ SubSeq(s, Len(s) + 1, Len(s)) = <<>>
<1> DEFINE u == SubSeq(s, 1, Len(s))
<1>1. Len(s) \in Nat /\ Len(s) \in Int
  BY LenProperties
<1>2. /\ u \in Seq(T) /\ Len(u) = Len(s) - 1 + 1
      /\ \A i \in 1 .. Len(s) - 1 + 1 : u[i] = s[1 + i - 1]
  BY <1>1, SliceOf
<1>3. /\ Len(s) - 1 + 1 = Len(s)
      /\ \A i \in 1 .. Len(s) : 1 + i - 1 = i
  BY <1>1
<1> HIDE DEF u
<1>4. u = s
  BY <1>2, <1>3, SeqEqual
<1>5. SubSeq(s, 1, 0) = <<>> /\ SubSeq(s, Len(s) + 1, Len(s)) = <<>>
  BY <1>1, SubSeqEmpty
<1> QED
  BY <1>4, <1>5 DEF u

(* Rows after the last one kept do not matter. *)
LEMMA KeptOfPrefix ==
  ASSUME NEW T, NEW s \in Seq(T), NEW U, NEW k \in 0 .. Len(s),
         \A i \in k + 1 .. Len(s) : s[i] \notin U
  PROVE  Kept(s, U) = Kept(SubSeq(s, 1, k), U)
<1> DEFINE A == {n \in Nat : k + n <= Len(s) =>
                   Kept(SubSeq(s, 1, k + n), U) = Kept(SubSeq(s, 1, k), U)}
<1>1. Len(s) \in Nat /\ k \in Nat /\ k <= Len(s)
  BY LenProperties
<1>2. 0 \in A
  <2>1. k + 0 = k
    BY <1>1
  <2> QED
    BY <2>1
<1>3. ASSUME NEW n \in Nat, n \in A PROVE n + 1 \in A
  <2> SUFFICES ASSUME k + (n + 1) <= Len(s)
               PROVE  Kept(SubSeq(s, 1, k + (n + 1)), U) = Kept(SubSeq(s, 1, k), U)
    OBVIOUS
  <2> DEFINE m == k + n
  <2>1. /\ m \in Nat /\ m + 1 = k + (n + 1) /\ m + 1 <= Len(s) /\ m <= Len(s)
        /\ m + 1 \in k + 1 .. Len(s) /\ m + 1 \in 1 .. Len(s)
    BY <1>1
  <2>2. s[m + 1] \in T /\ s[m + 1] \notin U
    BY <2>1, ElementOfSeq
  <2>3. Kept(SubSeq(s, 1, m), U) = Kept(SubSeq(s, 1, k), U)
    BY <1>3, <2>1
  <2> HIDE DEF m
  <2>4. SubSeq(s, 1, m + 1) = Append(SubSeq(s, 1, m), s[m + 1])
        /\ SubSeq(s, 1, m) \in Seq(T)
    <3>1. m \in Int /\ 1 \in Int /\ 1 <= 1 /\ 1 <= m + 1
      BY <2>1
    <3> QED
      BY <2>1, <3>1, SliceGrows, SliceOf
  <2>5. Kept(SubSeq(s, 1, m + 1), U) = Kept(SubSeq(s, 1, m), U)
    <3> DEFINE p == SubSeq(s, 1, m)  x == s[m + 1]
    <3>1. p \in Seq(T) /\ x \in T /\ x \notin U
      BY <2>2, <2>4
    <3> HIDE DEF p, x
    <3>2. Kept(Append(p, x), U) = Kept(p, U)
      BY <3>1, KeptAppend
    <3> QED
      BY <2>4, <3>2 DEF p, x
  <2> QED
    BY <2>1, <2>3, <2>5
<1>4. Nat \subseteq A
  <2> HIDE DEF A
  <2> QED
    BY <1>2, <1>3, SetInduction
<1>5. Len(s) - k \in Nat /\ k + (Len(s) - k) = Len(s)
  BY <1>1
<1>6. Kept(SubSeq(s, 1, Len(s)), U) = Kept(SubSeq(s, 1, k), U)
  BY <1>1, <1>4, <1>5
<1> QED
  BY <1>6, WholeSlice

LEMMA KeptNone ==
  ASSUME NEW T, NEW s \in Seq(T), NEW U, \A i \in 1 .. Len(s) : s[i] \notin U
  PROVE  Kept(s, U) = <<>>
<1>1. 0 \in 0 .. Len(s) /\ \A i \in 0 + 1 .. Len(s) : s[i] \notin U
  BY LenProperties
<1>2. Kept(s, U) = Kept(SubSeq(s, 1, 0), U)
  BY <1>1, KeptOfPrefix
<1> QED
  BY <1>2, WholeSlice, KeptEmpty

(* Nor do the rows before the first one. *)
LEMMA KeptOfSuffix ==
  ASSUME NEW T, NEW s \in Seq(T), NEW U, NEW a \in 1 .. Len(s) + 1,
         \A i \in 1 .. a - 1 : s[i] \notin U
  PROVE  Kept(s, U) = Kept(SubSeq(s, a, Len(s)), U)
<1> DEFINE k == a - 1
           A == {n \in Nat : k + n <= Len(s) =>
                   Kept(SubSeq(s, 1, k + n), U) = Kept(SubSeq(s, a, k + n), U)}
<1>1. Len(s) \in Nat /\ k \in Nat /\ k <= Len(s) /\ a = k + 1 /\ a \in Int
  BY LenProperties
<1>2. 0 \in A
  <2>1. k + 0 = k /\ k \in Int /\ 1 \in Int /\ 1 <= 1 /\ 1 <= k + 1 /\ k < a
    BY <1>1
  <2>2. /\ SubSeq(s, 1, k) \in Seq(T) /\ Len(SubSeq(s, 1, k)) = k - 1 + 1
        /\ \A i \in 1 .. k - 1 + 1 : SubSeq(s, 1, k)[i] = s[1 + i - 1]
    BY <1>1, <2>1, SliceOf
  <2>3. k - 1 + 1 = k /\ \A i \in 1 .. k : 1 + i - 1 = i
    BY <1>1
  <2>4. Kept(SubSeq(s, 1, k), U) = <<>>
    BY <2>2, <2>3, KeptNone
  <2>5. SubSeq(s, a, k) = <<>>
    BY <1>1, <2>1, SubSeqEmpty
  <2> QED
    BY <2>1, <2>4, <2>5, KeptEmpty
<1>3. ASSUME NEW n \in Nat, n \in A PROVE n + 1 \in A
  <2> SUFFICES ASSUME k + (n + 1) <= Len(s)
               PROVE  Kept(SubSeq(s, 1, k + (n + 1)), U)
                        = Kept(SubSeq(s, a, k + (n + 1)), U)
    OBVIOUS
  <2> DEFINE m == k + n
  <2>1. /\ m \in Nat /\ m + 1 = k + (n + 1) /\ m + 1 <= Len(s) /\ m <= Len(s)
        /\ m + 1 \in 1 .. Len(s) /\ a <= m + 1 /\ m \in Int
    BY <1>1
  <2>2. s[m + 1] \in T
    BY <2>1, ElementOfSeq
  <2>3. Kept(SubSeq(s, 1, m), U) = Kept(SubSeq(s, a, m), U)
    BY <1>3, <2>1
  <2> HIDE DEF m, k
  <2>4. 1 \in Int /\ 1 <= 1 /\ 1 <= m + 1 /\ 1 <= a
    BY <2>1
  <2>5. SubSeq(s, 1, m + 1) = Append(SubSeq(s, 1, m), s[m + 1])
        /\ SubSeq(s, 1, m) \in Seq(T)
    BY <2>1, <2>4, SliceGrows, SliceOf
  <2>6. SubSeq(s, a, m + 1) = Append(SubSeq(s, a, m), s[m + 1])
        /\ SubSeq(s, a, m) \in Seq(T)
    BY <1>1, <2>1, <2>4, SliceGrows, SliceOf
  <2>7. Kept(SubSeq(s, 1, m + 1), U) = Kept(SubSeq(s, a, m + 1), U)
    <3> DEFINE p == SubSeq(s, 1, m)  q == SubSeq(s, a, m)  x == s[m + 1]
    <3>1. p \in Seq(T) /\ q \in Seq(T) /\ x \in T /\ Kept(p, U) = Kept(q, U)
      BY <2>2, <2>3, <2>5, <2>6
    <3> HIDE DEF p, q, x
    <3>2. /\ Kept(Append(p, x), U) = IF x \in U THEN Append(Kept(p, U), x) ELSE Kept(p, U)
          /\ Kept(Append(q, x), U) = IF x \in U THEN Append(Kept(q, U), x) ELSE Kept(q, U)
      BY <3>1, KeptAppend
    <3>3. Kept(Append(p, x), U) = Kept(Append(q, x), U)
      BY <3>1, <3>2
    <3> QED
      BY <2>5, <2>6, <3>3 DEF p, q, x
  <2> QED
    BY <2>1, <2>7
<1>4. Nat \subseteq A
  <2> HIDE DEF A
  <2> QED
    BY <1>2, <1>3, SetInduction
<1>5. Len(s) - k \in Nat /\ k + (Len(s) - k) = Len(s) /\ Len(s) <= Len(s)
  BY <1>1
<1>6. Kept(SubSeq(s, 1, Len(s)), U) = Kept(SubSeq(s, a, Len(s)), U)
  <2> HIDE DEF k
  <2>1. Len(s) - k \in A
    BY <1>4, <1>5
  <2> QED
    BY <1>5, <2>1
<1> QED
  BY <1>6, WholeSlice

LEMMA KeptAll ==
  ASSUME NEW T, NEW s \in Seq(T), NEW U, \A i \in 1 .. Len(s) : s[i] \in U
  PROVE  Kept(s, U) = s
<1> DEFINE Q == {r \in Seq(T) : (\A x \in ToSet(r) : x \in U) => Kept(r, U) = r}
<1>1. <<>> \in Q
  BY EmptySeq, KeptEmpty
<1>2. ASSUME NEW r \in Seq(T), NEW x \in T, r \in Q
      PROVE  Append(r, x) \in Q
  <2>1. Append(r, x) \in Seq(T) /\ ToSet(Append(r, x)) = ToSet(r) \cup {x}
    BY AppendProperties, MembersOfAppend
  <2>2. Kept(Append(r, x), U) = IF x \in U THEN Append(Kept(r, U), x) ELSE Kept(r, U)
    BY KeptAppend
  <2>3. ASSUME \A y \in ToSet(Append(r, x)) : y \in U
        PROVE  Kept(Append(r, x), U) = Append(r, x)
    BY <1>2, <2>1, <2>2, <2>3
  <2> QED
    BY <2>1, <2>3
<1> HIDE DEF Q
<1>3. s \in Q
  BY <1>1, <1>2, SeqInduction
<1>4. \A x \in ToSet(s) : x \in U
  BY LenProperties DEF ToSet
<1> QED
  BY <1>3, <1>4 DEF Q

(* What is kept is a slice when the rows to keep follow each other. *)
LEMMA KeptInterval ==
  ASSUME NEW T, NEW s \in Seq(T), NEW U, NEW a \in Int, NEW b \in Int,
         1 <= a, a <= b + 1, b <= Len(s),
         \A i \in 1 .. Len(s) : s[i] \in U <=> i \in a .. b
  PROVE  Kept(s, U) = SubSeq(s, a, b)
<1>1. Len(s) \in Nat /\ b \in 0 .. Len(s) /\ 1 \in Int /\ 1 <= 1 /\ 1 <= b + 1
  BY LenProperties
<1> DEFINE u == SubSeq(s, 1, b)
<1>2. Kept(s, U) = Kept(u, U)
  <2>1. \A i \in b + 1 .. Len(s) : s[i] \notin U
    BY <1>1
  <2> QED
    BY <1>1, <2>1, KeptOfPrefix
<1>3. u \in Seq(T) /\ Len(u) = b /\ \A i \in 1 .. b : u[i] = s[i]
  <2>1. /\ u \in Seq(T) /\ Len(u) = b - 1 + 1
        /\ \A i \in 1 .. b - 1 + 1 : u[i] = s[1 + i - 1]
    BY <1>1, SliceOf
  <2>2. b - 1 + 1 = b /\ \A i \in 1 .. b : 1 + i - 1 = i
    BY <1>1
  <2> QED
    BY <2>1, <2>2
<1> HIDE DEF u
<1>4. Kept(u, U) = Kept(SubSeq(u, a, b), U)
  <2>1. a \in 1 .. b + 1
    BY <1>1
  <2>2. \A i \in 1 .. a - 1 : u[i] \notin U
    <3>1. ASSUME NEW i \in 1 .. a - 1 PROVE u[i] \notin U
      <4>1. i \in 1 .. b /\ i \in 1 .. Len(s) /\ i \notin a .. b
        BY <1>1
      <4> QED
        BY <1>3, <4>1
    <3> QED
      BY <3>1
  <2> QED
    BY <1>3, <2>1, <2>2, KeptOfSuffix
<1> DEFINE v == SubSeq(u, a, b)
           w == SubSeq(s, a, b)
           n == b - a + 1
<1>5. /\ v \in Seq(T) /\ Len(v) = n /\ \A i \in 1 .. n : v[i] = u[a + i - 1]
      /\ w \in Seq(T) /\ Len(w) = n /\ \A i \in 1 .. n : w[i] = s[a + i - 1]
  <2>1. w \in Seq(T) /\ Len(w) = n /\ \A i \in 1 .. n : w[i] = s[a + i - 1]
    BY SliceOf
  <2>2. v \in Seq(T) /\ Len(v) = n /\ \A i \in 1 .. n : v[i] = u[a + i - 1]
    <3>1. b <= Len(u)
      BY <1>3
    <3> QED
      BY <1>3, <3>1, SliceOf
  <2> QED
    BY <2>1, <2>2
<1>6. ASSUME NEW i \in 1 .. n PROVE v[i] = w[i] /\ v[i] \in U
  <2>1. a + i - 1 \in 1 .. b /\ a + i - 1 \in a .. b /\ a + i - 1 \in 1 .. Len(s)
    BY <1>1
  <2> QED
    BY <1>3, <1>5, <2>1
<1> HIDE DEF v, w, n
<1>7. v = w
  BY <1>5, <1>6, SeqEqual
<1>8. Kept(v, U) = v
  BY <1>5, <1>6, KeptAll
<1> QED
  BY <1>2, <1>4, <1>7, <1>8 DEF v, w

(* A condition that fails from some row on keeps the rows before it. *)
LEMMA KeptDown ==
  ASSUME NEW T, NEW s \in Seq(T), NEW U,
         \A i, j \in 1 .. Len(s) : i <= j /\ s[j] \in U => s[i] \in U
  PROVE  \E c \in 0 .. Len(s) : /\ Kept(s, U) = SubSeq(s, 1, c)
                                /\ \A i \in 1 .. Len(s) : s[i] \in U <=> i <= c
<1>1. Len(s) \in Nat
  BY LenProperties
<1> DEFINE t == {i \in 1 .. Len(s) : s[i] \in U}
<1>2. CASE t = {}
  <2>1. 0 \in 0 .. Len(s) /\ \A i \in 1 .. Len(s) : s[i] \notin U /\ ~ (i <= 0)
    BY <1>1, <1>2
  <2>2. Kept(s, U) = SubSeq(s, 1, 0)
    BY <2>1, KeptNone, WholeSlice
  <2> QED
    BY <2>1, <2>2
<1>3. CASE t # {}
  <2>1. t \in SUBSET (1 .. Len(s))
    OBVIOUS
  <2> DEFINE c == Max(t)
  <2>2. c \in t /\ \A i \in t : c >= i
    <3> HIDE DEF t
    <3> QED
      BY <1>1, <1>3, <2>1, MaxOfPositions
  <2> HIDE DEF c
  <2>3. \A i \in 1 .. Len(s) : s[i] \in U <=> i <= c
    BY <2>2
  <2>4. /\ c \in Int /\ 1 \in Int /\ 1 <= 1 /\ 1 <= c + 1 /\ c <= Len(s)
        /\ c \in 0 .. Len(s) /\ \A i \in 1 .. Len(s) : s[i] \in U <=> i \in 1 .. c
    BY <1>1, <2>2, <2>3
  <2>5. Kept(s, U) = SubSeq(s, 1, c)
    BY <2>4, KeptInterval
  <2> QED
    BY <2>3, <2>4, <2>5
<1> QED
  BY <1>2, <1>3

(* One that holds from some row on keeps that row and those after it. *)
LEMMA KeptUp ==
  ASSUME NEW T, NEW s \in Seq(T), NEW U,
         \A i, j \in 1 .. Len(s) : i <= j /\ s[i] \in U => s[j] \in U
  PROVE  \E a \in 1 .. Len(s) + 1 :
           /\ Kept(s, U) = SubSeq(s, a, Len(s))
           /\ \A i \in 1 .. Len(s) : s[i] \in U <=> a <= i
<1>1. Len(s) \in Nat
  BY LenProperties
<1> DEFINE t == {i \in 1 .. Len(s) : s[i] \in U}
<1>2. CASE t = {}
  <2>1. Len(s) + 1 \in 1 .. Len(s) + 1
        /\ \A i \in 1 .. Len(s) : s[i] \notin U /\ ~ (Len(s) + 1 <= i)
    BY <1>1, <1>2
  <2>2. Kept(s, U) = SubSeq(s, Len(s) + 1, Len(s))
    BY <2>1, KeptNone, WholeSlice
  <2> QED
    BY <2>1, <2>2
<1>3. CASE t # {}
  <2>1. t \in SUBSET Int /\ 1 \in Int /\ \A i \in t : 1 <= i
    OBVIOUS
  <2> DEFINE a == Min(t)
  <2>2. a \in t /\ \A i \in t : a <= i
    <3> HIDE DEF t
    <3> QED
      BY <1>3, <2>1, MinOfInts
  <2> HIDE DEF a
  <2>3. \A i \in 1 .. Len(s) : s[i] \in U <=> a <= i
    BY <2>2
  <2>4. /\ a \in Int /\ Len(s) \in Int /\ 1 <= a /\ a <= Len(s) + 1
        /\ a \in 1 .. Len(s) + 1 /\ Len(s) <= Len(s)
        /\ \A i \in 1 .. Len(s) : s[i] \in U <=> i \in a .. Len(s)
    BY <1>1, <2>2, <2>3
  <2>5. Kept(s, U) = SubSeq(s, a, Len(s))
    BY <2>4, KeptInterval
  <2> QED
    BY <2>3, <2>4, <2>5
<1> QED
  BY <1>2, <1>3

LEMMA SliceOfSlice ==
  ASSUME NEW T, NEW s \in Seq(T), NEW a \in Int, NEW b \in Int,
         1 <= a, a <= b + 1, b <= Len(s),
         NEW c \in Int, NEW d \in Int, 1 <= c, c <= d + 1, d <= b - a + 1
  PROVE  SubSeq(SubSeq(s, a, b), c, d) = SubSeq(s, a + c - 1, a + d - 1)
<1> DEFINE u == SubSeq(s, a, b)
           v == SubSeq(u, c, d)
           w == SubSeq(s, a + c - 1, a + d - 1)
           n == d - c + 1
<1>1. Len(s) \in Nat
  BY LenProperties
<1>2. u \in Seq(T) /\ Len(u) = b - a + 1 /\ \A i \in 1 .. b - a + 1 : u[i] = s[a + i - 1]
  BY SliceOf
<1> HIDE DEF u
<1>3. v \in Seq(T) /\ Len(v) = n /\ \A i \in 1 .. n : v[i] = u[c + i - 1]
  <2>1. d <= Len(u)
    BY <1>2
  <2> QED
    BY <1>2, <2>1, SliceOf
<1>4. w \in Seq(T) /\ Len(w) = n /\ \A i \in 1 .. n : w[i] = s[(a + c - 1) + i - 1]
  <2> DEFINE p == a + c - 1
             q == a + d - 1
  <2>1. p \in Int /\ q \in Int /\ 1 <= p /\ p <= q + 1 /\ q <= Len(s) /\ q - p + 1 = n
    BY <1>1
  <2> HIDE DEF p, q, n
  <2>2. /\ SubSeq(s, p, q) \in Seq(T) /\ Len(SubSeq(s, p, q)) = n
        /\ \A i \in 1 .. n : SubSeq(s, p, q)[i] = s[p + i - 1]
    BY <2>1, SliceOf
  <2> QED
    BY <2>2 DEF p, q
<1>5. ASSUME NEW i \in 1 .. n PROVE v[i] = w[i]
  <2>1. /\ c + i - 1 \in 1 .. b - a + 1
        /\ a + (c + i - 1) - 1 = (a + c - 1) + i - 1
    BY <1>1
  <2> HIDE DEF v, w, n
  <2>2. v[i] = u[c + i - 1] /\ w[i] = s[(a + c - 1) + i - 1]
    BY <1>3, <1>4
  <2>3. u[c + i - 1] = s[a + (c + i - 1) - 1]
    BY <1>2, <2>1
  <2> QED
    BY <2>1, <2>2, <2>3
<1> HIDE DEF v, w, n
<1>6. v = w
  BY <1>3, <1>4, <1>5, SeqEqual
<1> QED
  BY <1>6 DEF u, v, w

LEMMA MaxOfThree ==
  ASSUME NEW x \in Int, NEW y \in Int, NEW z \in Int
  PROVE  /\ Max({x, y, z}) \in {x, y, z} /\ Max({x, y, z}) \in Int
         /\ x <= Max({x, y, z}) /\ y <= Max({x, y, z}) /\ z <= Max({x, y, z})
<1> DEFINE t == {x, y, z}
<1>1. PICK b \in t : \A u \in t : u <= b
  <2>1. CASE x >= y /\ x >= z
    BY <2>1
  <2>2. CASE y >= x /\ y >= z
    BY <2>2
  <2>3. CASE z >= x /\ z >= y
    BY <2>3
  <2> QED
    BY <2>1, <2>2, <2>3
<1>2. t \in SUBSET Int /\ x \in t /\ y \in t /\ z \in t
  OBVIOUS
<1> HIDE DEF t
<1>3. Max(t) = b
  BY <1>1, <1>2, MaxIs
<1> QED
  BY <1>1, <1>2, <1>3 DEF t

(* There are bounds for the numbers of a list.                             *)
LEMMA SeqBounds ==
  ASSUME NEW s \in Seq(Int)
  PROVE  \E b \in Int : \A i \in 1 .. Len(s) : - b <= s[i] /\ s[i] <= b
<1> DEFINE Bound(r, b) == \A i \in 1 .. Len(r) : - b <= r[i] /\ r[i] <= b
           Q == {r \in Seq(Int) : \E b \in Int : Bound(r, b)}
<1>1. <<>> \in Q
  <2>1. <<>> \in Seq(Int) /\ Len(<<>>) = 0 /\ 0 \in Int
    BY EmptySeq
  <2>2. Bound(<<>>, 0)
    BY <2>1
  <2> QED
    BY <2>1, <2>2
<1>2. ASSUME NEW r \in Seq(Int), NEW x \in Int, r \in Q
      PROVE  Append(r, x) \in Q
  <2> DEFINE p == Append(r, x)
             n == Len(r)
  <2>1. PICK b \in Int : Bound(r, b)
    BY <1>2
  <2>2. /\ p \in Seq(Int) /\ Len(p) = n + 1 /\ p[n + 1] = x /\ n \in Nat
        /\ \A i \in 1 .. n : p[i] = r[i] /\ r[i] \in Int
    BY AppendProperties, LenProperties, ElementOfSeq
  <2>3. PICK c \in Int : b <= c /\ x <= c /\ - x <= c
    <3>1. \E y \in Int : x <= y /\ - x <= y
      <4>1. CASE x <= - x
        <5>1. - x \in Int /\ x <= - x /\ - x <= - x
          BY <4>1
        <5> QED
          BY <5>1, Zenon
      <4>2. CASE - x <= x
        <5>1. x \in Int /\ x <= x /\ - x <= x
          BY <4>2
        <5> QED
          BY <5>1, Zenon
      <4> QED
        BY <4>1, <4>2
    <3>2. PICK y \in Int : x <= y /\ - x <= y
      BY <3>1
    <3>3. b <= y \/ y <= b
      OBVIOUS
    <3>4. CASE b <= y
      BY <3>2, <3>4
    <3>5. CASE y <= b
      <4>1. x <= b /\ - x <= b /\ b <= b
        BY <3>2, <3>5
      <4> QED
        BY <4>1
    <3> QED
      BY <3>3, <3>4, <3>5
  <2> HIDE DEF p, n
  <2>4. ASSUME NEW i \in 1 .. n + 1 PROVE - c <= p[i] /\ p[i] <= c
    <3>1. CASE i = n + 1
      BY <2>2, <2>3, <3>1
    <3>2. CASE i # n + 1
      <4>1. i \in 1 .. n
        BY <2>2, <3>2
      <4>2. p[i] = r[i] /\ r[i] \in Int /\ - b <= r[i] /\ r[i] <= b
        BY <2>1, <2>2, <4>1 DEF n
      <4> QED
        BY <2>3, <4>2
    <3> QED
      BY <3>1, <3>2
  <2>5. Bound(p, c)
    BY <2>2, <2>4
  <2> QED
    BY <2>2, <2>5 DEF p
<1> HIDE DEF Q
<1>3. s \in Q
  BY <1>1, <1>2, SeqInduction
<1> QED
  BY <1>3 DEF Q

LEMMA ExtremesOfSeq ==
  ASSUME NEW s \in Seq(Int), s # <<>>, NEW t, t = {s[i] : i \in DOMAIN s}
  PROVE  /\ t \in SUBSET Int
         /\ Min(t) \in t /\ \A y \in t : Min(t) <= y
         /\ Max(t) \in t /\ \A y \in t : Max(t) >= y
<1>1. /\ DOMAIN s = 1 .. Len(s) /\ Len(s) \in Nat /\ Len(s) # 0
      /\ \A i \in 1 .. Len(s) : s[i] \in Int
  BY LenProperties, ElementOfSeq, EmptySeq
<1>2. PICK b \in Int : \A i \in 1 .. Len(s) : - b <= s[i] /\ s[i] <= b
  BY SeqBounds
<1>3. t \in SUBSET Int /\ s[1] \in t
  BY <1>1
<1>4. (\A y \in t : y <= b) /\ (\A y \in t : - b <= y) /\ - b \in Int
  BY <1>1, <1>2
<1>5. Max(t) \in t /\ \A y \in t : Max(t) >= y
  BY <1>3, <1>4, MaxOfInts
<1>6. Min(t) \in t /\ \A y \in t : Min(t) <= y
  <2> DEFINE c == - b
  <2>1. c \in Int /\ \A y \in t : c <= y
    BY <1>4
  <2> HIDE DEF c
  <2> QED
    BY <1>3, <2>1, MinOfInts
<1> QED
  BY <1>3, <1>5, <1>6
=============================================================================
