------------------------------ MODULE LoopsProofs ------------------------------
(***************************************************************************)
(* What the proofs of several modules need of loops: how to reason about a *)
(* function of the rounds, and what the loops of Loops keep and join.      *)
(***************************************************************************)
EXTENDS Loops, SequenceTheorems, WellFoundedInduction, TLAPS

-----------------------------------------------------------------------------
(* Counting, and a computation round by round.                             *)

LEMMA LeastNumber ==
  ASSUME NEW S \in SUBSET Nat, S # {}
  PROVE  \E n \in S : \A m \in S : n <= m
<1>1. PICK n \in S : \A m \in S : <<m, n>> \notin OpToRel(<, Nat)
  BY NatLessThanWellFounded, WFMin
<1>2. \A m \in S : ~(m < n)
  BY <1>1 DEF OpToRel
<1>3. QED
  BY <1>2

\* A computation that goes on from a value, step by step, and its course.
GoesOn(F, X, N) == N \in Nat /\ F \in [1..N -> [X -> X]]
Course(f, F, X, N, first) ==
  f \in [0..N -> X] /\ f[0] = first /\ \A n \in 1..N : f[n] = F[n][f[n - 1]]

LEMMA CourseExists ==
  ASSUME NEW F, NEW X, NEW N, NEW first, first \in X, GoesOn(F, X, N)
  PROVE  \E f : Course(f, F, X, N, first)
<1>1. N \in Nat /\ F \in [1..N -> [X -> X]]
  BY DEF GoesOn
<1> DEFINE bad == {m \in 0..N : ~ \E f : Course(f, F, X, m, first)}
<1>2. SUFFICES ASSUME bad # {} PROVE FALSE
  <2>1. N \in 0..N
    BY <1>1
  <2>2. QED
    BY <2>1
<1>3. PICK m \in bad : \A n \in bad : m <= n
  <2>1. bad \in SUBSET Nat
    OBVIOUS
  <2>2. QED
    BY <1>2, <2>1, LeastNumber
<1>4. m # 0
  <2> DEFINE f == [n \in 0..0 |-> first]
  <2>1. f \in [0..0 -> X] /\ f[0] = first /\ \A n \in 1..0 : FALSE
    OBVIOUS
  <2>2. Course(f, F, X, 0, first)
    BY <2>1 DEF Course
  <2>3. QED
    BY <2>2
<1>5. m \in 1..N /\ m \in Nat /\ m - 1 \in 0..N /\ m - 1 \notin bad
  <2>1. m \in 0..N
    OBVIOUS
  <2>2. m \in 1..N /\ m - 1 \in 0..N /\ ~(m <= m - 1)
    BY <2>1, <1>1, <1>4
  <2> HIDE DEF bad
  <2>3. QED
    BY <2>2, <1>3
<1>6. PICK f : Course(f, F, X, m - 1, first)
  BY <1>5
<1> HIDE DEF bad
<1>7. f \in [0..m - 1 -> X] /\ f[0] = first /\ \A n \in 1..m - 1 : f[n] = F[n][f[n - 1]]
  BY <1>6 DEF Course
<1> DEFINE g == [n \in 0..m |-> IF n < m THEN f[n] ELSE F[m][f[m - 1]]]
<1>8. f[m - 1] \in X /\ F[m][f[m - 1]] \in X
  <2>1. f[m - 1] \in X
    BY <1>5, <1>7
  <2>2. F[m] \in [X -> X]
    BY <1>1, <1>5
  <2>3. QED
    BY <2>1, <2>2
<1>9. g \in [0..m -> X]
  BY <1>5, <1>7, <1>8
<1>10. g[0] = first
  BY <1>5, <1>7
<1>11. ASSUME NEW n \in 1..m PROVE g[n] = F[n][g[n - 1]]
  <2>1. g[n - 1] = f[n - 1]
    BY <1>5
  <2>2. CASE n = m
    <3>1. g[m] = F[m][f[m - 1]]
      BY <1>5
    <3>2. g[m - 1] = f[m - 1]
      BY <2>1, <2>2
    <3> HIDE DEF g
    <3>3. QED
      BY <3>1, <3>2, <2>2
  <2>3. CASE n # m
    <3>1. n \in 1..m - 1 /\ n < m /\ n \in 0..m
      BY <2>3, <1>5
    <3>2. f[n] = F[n][f[n - 1]] /\ g[n] = f[n]
      BY <3>1, <1>7
    <3>3. QED
      BY <2>1, <3>2
  <2>4. QED
    BY <2>2, <2>3
<1>12. Course(g, F, X, m, first)
  <2> HIDE DEF g
  <2>1. QED
    BY <1>9, <1>10, <1>11 DEF Course
<1>13. QED
  BY <1>3, <1>5, <1>12 DEF bad

\* Induction over the rounds of a loop: the rounds of which a claim holds are all rounds.
LEMMA Counting ==
  ASSUME NEW N \in Nat, NEW G, 0 \in G, \A n \in 1..N : n - 1 \in G => n \in G
  PROVE  \A n \in 0..N : n \in G
<1> DEFINE bad == {n \in 0..N : n \notin G}
<1>1. SUFFICES ASSUME bad # {} PROVE FALSE
  OBVIOUS
<1>2. PICK n \in bad : \A m \in bad : n <= m
  <2>1. bad \in SUBSET Nat
    OBVIOUS
  <2> HIDE DEF bad
  <2>2. QED
    BY <1>1, <2>1, LeastNumber
<1>3. n \in 1..N /\ n - 1 \in 0..N /\ ~(n <= n - 1)
  <2>1. n \in 0..N /\ n # 0
    OBVIOUS
  <2>2. QED
    BY <2>1
<1>4. n - 1 \in G
  BY <1>2, <1>3
<1>5. QED
  BY <1>3, <1>4

\* A recursive function whose rounds stay in a set is what its equation says.
RoundsOf(f, F, N, first) == f = [n \in 0..N |-> IF n = 0 THEN first ELSE F[n][f[n - 1]]]

LEMMA RoundsExist ==
  ASSUME NEW X, NEW N \in Nat, NEW F \in [1..N -> [X -> X]], NEW first \in X
  PROVE  \E f \in [0..N -> X] : RoundsOf(f, F, N, first)
<1>1. PICK f : Course(f, F, X, N, first)
  BY CourseExists DEF GoesOn
<1>2. f \in [0..N -> X] /\ f[0] = first /\ \A n \in 1..N : f[n] = F[n][f[n - 1]]
  BY <1>1 DEF Course
<1>3. ASSUME NEW n \in 0..N PROVE f[n] = IF n = 0 THEN first ELSE F[n][f[n - 1]]
  <2>1. n = 0 \/ n \in 1..N
    OBVIOUS
  <2>2. QED
    BY <2>1, <1>2
<1>4. f = [n \in 0..N |-> IF n = 0 THEN first ELSE F[n][f[n - 1]]]
  <2>1. f = [n \in 0..N |-> f[n]]
    BY <1>2
  <2>2. QED
    BY <2>1, <1>3
<1>5. QED
  BY <1>2, <1>4 DEF RoundsOf

-----------------------------------------------------------------------------
(* What a loop keeps.                                                      *)

\* f is what the loop has kept after each element.
KeptBy(f, list, places) ==
  f = [n \in 0..Len(list) |->
         IF n = 0 THEN <<>>
         ELSE IF n \in places THEN Append(f[n - 1], list[n]) ELSE f[n - 1]]

\* What a loop computes is what satisfies its equation.
LEMMA LoopIsUnique ==
  ASSUME NEW S, NEW list \in Seq(S), NEW places, NEW f, KeptBy(f, list, places)
  PROVE  Keeping(list, places) = f[Len(list)]
<1> DEFINE N == Len(list)
           kept == CHOOSE g : KeptBy(g, list, places)
           bad == {n \in 0..N : kept[n] # f[n]}
<1>1. Keeping(list, places) = kept[N] /\ N \in Nat
  BY DEF Keeping, KeptBy
<1>2. KeptBy(kept, list, places)
  OBVIOUS
<1> HIDE DEF kept
<1>3. /\ kept[0] = <<>>
      /\ \A n \in 1..N : kept[n] = IF n \in places THEN Append(kept[n - 1], list[n])
                                                   ELSE kept[n - 1]
  <2>1. kept = [n \in 0..N |->
                 IF n = 0 THEN <<>>
                 ELSE IF n \in places THEN Append(kept[n - 1], list[n]) ELSE kept[n - 1]]
    BY <1>2 DEF KeptBy
  <2>2. 0 \in 0..N /\ \A n \in 1..N : n \in 0..N /\ n # 0
    BY <1>1
  <2>3. QED
    BY <2>1, <2>2
<1>4. /\ f[0] = <<>>
      /\ \A n \in 1..N : f[n] = IF n \in places THEN Append(f[n - 1], list[n]) ELSE f[n - 1]
  <2>1. f = [n \in 0..N |->
              IF n = 0 THEN <<>>
              ELSE IF n \in places THEN Append(f[n - 1], list[n]) ELSE f[n - 1]]
    BY DEF KeptBy
  <2>2. 0 \in 0..N /\ \A n \in 1..N : n \in 0..N /\ n # 0
    BY <1>1
  <2>3. QED
    BY <2>1, <2>2
<1>5. bad = {}
  <2>1. SUFFICES ASSUME bad # {} PROVE FALSE
    OBVIOUS
  <2>2. PICK n \in bad : \A m \in bad : n <= m
    <3>1. bad \in SUBSET Nat
      BY <1>1
    <3>2. QED
      BY <2>1, <3>1, LeastNumber
  <2>3. n # 0 /\ n \in 1..N /\ n - 1 \in 0..N /\ n - 1 < n
    BY <1>1, <1>3, <1>4
  <2>4. kept[n - 1] = f[n - 1]
    BY <2>2, <2>3
  <2>5. QED
    BY <2>3, <2>4, <1>3, <1>4
<1>6. QED
  BY <1>1, <1>5

\* A loop that keeps what lies between two places.
LEMMA KeepingInterval ==
  ASSUME NEW S, NEW list \in Seq(S), NEW a \in 1..Len(list) + 1, NEW b \in 0..Len(list),
         NEW places, places = a..b
  PROVE  Keeping(list, places) = SubSeq(list, a, b)
<1> DEFINE N == Len(list)
           upto(n) == IF n < b THEN n ELSE b
           f == [n \in 0..N |-> SubSeq(list, a, upto(n))]
<1>1. N \in Nat /\ a \in Nat /\ b \in Nat /\ 1 <= a /\ b <= N
  OBVIOUS
<1>2. f[0] = <<>>
  BY <1>1
<1>3. ASSUME NEW n \in 1..N
      PROVE  f[n] = IF n \in places THEN Append(f[n - 1], list[n]) ELSE f[n - 1]
  <2>1. n \in Nat /\ n - 1 \in 0..N /\ n \in 0..N /\ 1 <= n /\ n <= N
    BY <1>1
  <2>2. f[n] = SubSeq(list, a, upto(n)) /\ f[n - 1] = SubSeq(list, a, upto(n - 1))
    BY <2>1
  <2>3. CASE n \in a..b
    <3>1. upto(n) = n /\ upto(n - 1) = n - 1
      BY <2>1, <2>3, <1>1
    <3>2. SubSeq(list, a, n) = Append(SubSeq(list, a, n - 1), list[n])
      BY <2>1, <2>3, <1>1
    <3>3. QED
      BY <2>2, <2>3, <3>1, <3>2
  <2>4. CASE n < a
    <3>1. upto(n) < a /\ upto(n - 1) < a /\ upto(n) \in Nat /\ upto(n - 1) \in Nat
      BY <2>1, <2>4, <1>1
    <3>2. f[n] = <<>> /\ f[n - 1] = <<>>
      BY <2>2, <3>1, <1>1
    <3>3. n \notin places
      BY <2>1, <2>4, <1>1
    <3>4. QED
      BY <3>2, <3>3
  <2>5. CASE n > b
    <3>1. upto(n) = b /\ upto(n - 1) = b
      BY <2>1, <2>5, <1>1
    <3>2. n \notin places
      BY <2>1, <2>5, <1>1
    <3>3. QED
      BY <2>2, <3>1, <3>2
  <2>6. QED
    BY <2>1, <2>3, <2>4, <2>5, <1>1
<1>4. KeptBy(f, list, places)
  <2> HIDE DEF upto
  <2>1. ASSUME NEW n \in 0..N
        PROVE  f[n] = IF n = 0 THEN <<>>
                      ELSE IF n \in places THEN Append(f[n - 1], list[n]) ELSE f[n - 1]
    <3>1. CASE n = 0
      BY <3>1, <1>2
    <3>2. CASE n # 0
      <4>1. n \in 1..N
        BY <3>2, <1>1
      <4>2. QED
        BY <4>1, <3>2, <1>3
    <3>3. QED
      BY <3>1, <3>2
  <2>2. QED
    BY <2>1 DEF KeptBy
<1>5. f[N] = SubSeq(list, a, b)
  BY <1>1
<1>6. QED
  BY <1>4, <1>5, LoopIsUnique

LEMMA KeptExists ==
  ASSUME NEW S, NEW list \in Seq(S), NEW places
  PROVE  \E f \in [0..Len(list) -> Seq(S)] : KeptBy(f, list, places)
<1> DEFINE N == Len(list)
           F == [n \in 1..N |-> [x \in Seq(S) |->
                   IF n \in places THEN Append(x, list[n]) ELSE x]]
<1>1. N \in Nat /\ <<>> \in Seq(S)
  OBVIOUS
<1>2. F \in [1..N -> [Seq(S) -> Seq(S)]]
  <2>1. ASSUME NEW n \in 1..N, NEW x \in Seq(S)
        PROVE  (IF n \in places THEN Append(x, list[n]) ELSE x) \in Seq(S)
    <3>1. list[n] \in S
      OBVIOUS
    <3>2. QED
      BY <3>1
  <2>2. QED
    BY <2>1
<1>3. ASSUME NEW x \in Seq(S), NEW n \in 1..N
      PROVE  F[n][x] = IF n \in places THEN Append(x, list[n]) ELSE x
  OBVIOUS
<1> HIDE DEF F
<1>4. PICK f \in [0..N -> Seq(S)] : f[0] = <<>> /\ \A n \in 1..N : f[n] = F[n][f[n - 1]]
  <2>1. GoesOn(F, Seq(S), N)
    BY <1>1, <1>2 DEF GoesOn
  <2>2. \E f : Course(f, F, Seq(S), N, <<>>)
    BY <1>1, <2>1, CourseExists
  <2>3. QED
    BY <2>2 DEF Course
<1>5. ASSUME NEW n \in 0..N
      PROVE  f[n] = IF n = 0 THEN <<>>
                    ELSE IF n \in places THEN Append(f[n - 1], list[n]) ELSE f[n - 1]
  <2>1. CASE n = 0
    BY <2>1, <1>4
  <2>2. CASE n # 0
    <3>1. n \in 1..N /\ n - 1 \in 0..N
      BY <2>2, <1>1
    <3>2. f[n - 1] \in Seq(S) /\ f[n] = F[n][f[n - 1]]
      BY <3>1, <1>4
    <3>3. QED
      BY <2>2, <3>1, <3>2, <1>3
  <2>3. QED
    BY <2>1, <2>2
<1>6. f = [n \in 0..N |->
             IF n = 0 THEN <<>>
             ELSE IF n \in places THEN Append(f[n - 1], list[n]) ELSE f[n - 1]]
  BY <1>5
<1>7. QED
  BY <1>6 DEF KeptBy

\* A list that grows by an element: what was kept of it stays.
LEMMA KeepingAppend ==
  ASSUME NEW S, NEW list \in Seq(S), NEW element \in S, NEW places, NEW more,
         \A n \in 1..Len(list) : n \in more <=> n \in places
  PROVE  Keeping(Append(list, element), more)
           = IF Len(list) + 1 \in more THEN Append(Keeping(list, places), element)
                                       ELSE Keeping(list, places)
<1> DEFINE N == Len(list)
           longer == Append(list, element)
           last(x) == IF N + 1 \in more THEN Append(x, element) ELSE x
<1>1. PICK f \in [0..N -> Seq(S)] : KeptBy(f, list, places)
  BY KeptExists
<1>2. Keeping(list, places) = f[N]
  BY <1>1, LoopIsUnique
<1>3. /\ N \in Nat /\ longer \in Seq(S) /\ Len(longer) = N + 1 /\ longer[N + 1] = element
      /\ \A n \in 1..N : longer[n] = list[n]
  OBVIOUS
<1>4. ASSUME NEW n \in 0..N
      PROVE  f[n] = IF n = 0 THEN <<>>
                    ELSE IF n \in places THEN Append(f[n - 1], list[n]) ELSE f[n - 1]
  BY <1>1 DEF KeptBy
<1> DEFINE g == [n \in 0..N + 1 |-> IF n = N + 1 THEN last(f[N]) ELSE f[n]]
<1> HIDE DEF longer, N
<1>5. ASSUME NEW n \in 0..N + 1
      PROVE  g[n] = IF n = 0 THEN <<>>
                    ELSE IF n \in more THEN Append(g[n - 1], longer[n]) ELSE g[n - 1]
  <2>1. CASE n = 0
    <3>1. 0 \in 0..N /\ 0 # N + 1
      BY <1>3
    <3>2. QED
      BY <2>1, <3>1, <1>4
  <2>2. CASE n = N + 1
    <3>1. n # 0 /\ n - 1 = N /\ n - 1 \in 0..N + 1 /\ n - 1 # N + 1
      BY <2>2, <1>3
    <3>2. g[n - 1] = f[N] /\ g[n] = last(f[N])
      BY <2>2, <3>1
    <3> HIDE DEF g
    <3>3. QED
      BY <2>2, <3>1, <3>2, <1>3
  <2>3. CASE n \in 1..N
    <3>1. n # 0 /\ n # N + 1 /\ n - 1 # N + 1 /\ n - 1 \in 0..N + 1 /\ n \in 0..N
      BY <2>3, <1>3
    <3>2. g[n] = f[n] /\ g[n - 1] = f[n - 1]
      BY <3>1
    <3>3. n \in more <=> n \in places
      BY <2>3 DEF N
    <3> HIDE DEF g
    <3>4. QED
      BY <2>3, <3>1, <3>2, <3>3, <1>3, <1>4
  <2>4. QED
    BY <2>1, <2>2, <2>3, <1>3
<1>6. KeptBy(g, longer, more)
  <2>1. g = [n \in 0..N + 1 |->
               IF n = 0 THEN <<>>
               ELSE IF n \in more THEN Append(g[n - 1], longer[n]) ELSE g[n - 1]]
    BY <1>5
  <2> HIDE DEF g
  <2>2. QED
    BY <2>1, <1>3 DEF KeptBy
<1>7. g[N + 1] = last(f[N])
  BY <1>3
<1> HIDE DEF g
<1>8. Keeping(longer, more) = last(f[N])
  BY <1>3, <1>6, <1>7, LoopIsUnique
<1>9. QED
  BY <1>2, <1>8 DEF longer, N

\* What is kept is some of the list.
LEMMA KeepingFrom ==
  ASSUME NEW S, NEW list \in Seq(S), NEW places
  PROVE  /\ Keeping(list, places) \in Seq(S)
         /\ Len(Keeping(list, places)) <= Len(list)
         /\ \A k \in 1..Len(Keeping(list, places)) :
              \E n \in 1..Len(list) : n \in places /\ Keeping(list, places)[k] = list[n]
<1> DEFINE N == Len(list)
<1>1. PICK f \in [0..N -> Seq(S)] : KeptBy(f, list, places)
  BY KeptExists
<1>2. Keeping(list, places) = f[N]
  BY <1>1, LoopIsUnique
<1>3. N \in Nat /\ \A n \in 1..N : list[n] \in S
  OBVIOUS
<1> HIDE DEF N
<1>4. ASSUME NEW n \in 0..N
      PROVE  f[n] = IF n = 0 THEN <<>>
                    ELSE IF n \in places THEN Append(f[n - 1], list[n]) ELSE f[n - 1]
  BY <1>1 DEF KeptBy, N
<1> DEFINE good(n) == /\ Len(f[n]) <= n
                      /\ \A k \in 1..Len(f[n]) : \E m \in 1..n : m \in places /\ f[n][k] = list[m]
           bad == {n \in 0..N : ~good(n)}
<1>5. bad = {}
  <2>1. SUFFICES ASSUME bad # {} PROVE FALSE
    OBVIOUS
  <2>2. PICK n \in bad : \A m \in bad : n <= m
    <3>1. bad \in SUBSET Nat
      BY <1>3
    <3>2. QED
      BY <2>1, <3>1, LeastNumber
  <2>3. ~good(n) /\ n \in 0..N
    OBVIOUS
  <2>4. n # 0
    <3>1. 0 \in 0..N
      BY <1>3
    <3>2. f[0] = <<>>
      BY <3>1, <1>4
    <3>3. good(0)
      BY <3>2
    <3>4. QED
      BY <2>3, <3>3
  <2>5. n \in 1..N /\ n - 1 \in 0..N /\ n - 1 < n
    BY <2>3, <2>4, <1>3
  <2>6. good(n - 1)
    <3>1. ~(n <= n - 1)
      BY <2>5
    <3>2. n - 1 \notin bad
      BY <2>2, <3>1
    <3>3. QED
      BY <2>5, <3>2
  <2>7. f[n - 1] \in Seq(S) /\ list[n] \in S
    BY <2>5, <1>1, <1>3 DEF N
  <2>8. CASE n \notin places
    <3>1. f[n] = f[n - 1]
      BY <2>3, <2>4, <2>8, <1>4
    <3>2. good(n)
      <4>1. Len(f[n]) <= n
        BY <3>1, <2>5, <2>6, <2>7
      <4>2. ASSUME NEW k \in 1..Len(f[n])
            PROVE  \E m \in 1..n : m \in places /\ f[n][k] = list[m]
        <5>1. PICK m \in 1..n - 1 : m \in places /\ f[n - 1][k] = list[m]
          BY <3>1, <2>6
        <5>2. m \in 1..n
          BY <2>5
        <5>3. QED
          BY <3>1, <5>1, <5>2
      <4>3. QED
        BY <4>1, <4>2
    <3>3. QED
      BY <2>3, <3>2
  <2>9. CASE n \in places
    <3>1. f[n] = Append(f[n - 1], list[n])
      BY <2>3, <2>4, <2>9, <1>4
    <3>2. /\ Len(f[n]) = Len(f[n - 1]) + 1 /\ f[n][Len(f[n - 1]) + 1] = list[n]
          /\ \A k \in 1..Len(f[n - 1]) : f[n][k] = f[n - 1][k]
      BY <3>1, <2>7, AppendProperties
    <3>3. good(n)
      <4>1. Len(f[n]) <= n /\ Len(f[n - 1]) \in Nat
        BY <3>2, <2>5, <2>6, <2>7
      <4>2. ASSUME NEW k \in 1..Len(f[n])
            PROVE  \E m \in 1..n : m \in places /\ f[n][k] = list[m]
        <5>1. CASE k \in 1..Len(f[n - 1])
          <6>1. PICK m \in 1..n - 1 : m \in places /\ f[n - 1][k] = list[m]
            BY <5>1, <2>6
          <6>2. m \in 1..n
            BY <2>5
          <6>3. QED
            BY <3>2, <5>1, <6>1, <6>2
        <5>2. CASE k = Len(f[n - 1]) + 1
          <6>1. n \in 1..n
            BY <2>5
          <6>2. QED
            BY <3>2, <5>2, <6>1, <2>9
        <5>3. QED
          BY <4>1, <5>1, <5>2, <3>2
      <4>3. QED
        BY <4>1, <4>2
    <3>4. QED
      BY <2>3, <3>3
  <2>10. QED
    BY <2>8, <2>9
<1>6. N \in 0..N /\ f[N] \in Seq(S)
  BY <1>1, <1>3 DEF N
<1>7. good(N)
  BY <1>5, <1>6
<1>8. QED
  BY <1>2, <1>6, <1>7 DEF N

LEMMA KeepingNone == ASSUME NEW places PROVE Keeping(<<>>, places) = <<>>
<1> DEFINE f == [n \in 0..0 |-> <<>>]
<1>1. <<>> \in Seq({}) /\ Len(<<>>) = 0
  OBVIOUS
<1>2. KeptBy(f, <<>>, places)
  BY DEF KeptBy
<1>3. QED
  BY <1>1, <1>2, LoopIsUnique

\* Each element that is kept has its place in the list, and these are all that are chosen,
\* in order.
LEMMA KeepingPlaces ==
  ASSUME NEW S, NEW list \in Seq(S), NEW places
  PROVE  \E at \in [1..Len(Keeping(list, places)) -> 1..Len(list)] :
           /\ \A k \in DOMAIN at : at[k] \in places /\ Keeping(list, places)[k] = list[at[k]]
           /\ \A k, l \in DOMAIN at : k < l => at[k] < at[l]
           /\ \A n \in 1..Len(list) : n \in places => \E k \in DOMAIN at : at[k] = n
<1> DEFINE N == Len(list)
<1>1. PICK f \in [0..N -> Seq(S)] : KeptBy(f, list, places)
  BY KeptExists
<1>2. Keeping(list, places) = f[N] /\ N \in Nat /\ \A n \in 1..N : list[n] \in S
  BY <1>1, LoopIsUnique
<1> HIDE DEF N
<1>3. ASSUME NEW n \in 0..N
      PROVE  f[n] = IF n = 0 THEN <<>>
                    ELSE IF n \in places THEN Append(f[n - 1], list[n]) ELSE f[n - 1]
  BY <1>1 DEF KeptBy, N
<1> DEFINE Fits(at, n) ==
             /\ at \in [1..Len(f[n]) -> 1..n]
             /\ \A k \in 1..Len(f[n]) : at[k] \in places /\ f[n][k] = list[at[k]]
             /\ \A k, l \in 1..Len(f[n]) : k < l => at[k] < at[l]
             /\ \A m \in 1..n : m \in places => \E k \in 1..Len(f[n]) : at[k] = m
           G == {n \in 0..N : \E at : Fits(at, n)}
<1>4. 0 \in G
  <2>1. f[0] = <<>> /\ 0 \in 0..N
    BY <1>2, <1>3
  <2>2. [k \in {} |-> 0] \in [1..0 -> 1..0]
    OBVIOUS
  <2>3. Fits([k \in {} |-> 0], 0)
    BY <2>1, <2>2
  <2>4. QED
    BY <2>1, <2>3
<1>5. ASSUME NEW n \in 1..N, n - 1 \in G PROVE n \in G
  <2>1. n \in 0..N /\ n - 1 \in 0..N /\ n # 0 /\ n \in Nat /\ list[n] \in S
    BY <1>2
  <2>2. PICK at : Fits(at, n - 1)
    BY <1>5
  <2> DEFINE old == f[n - 1]
             K == Len(old)
  <2>3. old \in Seq(S) /\ K \in Nat
    BY <2>1
  <2>4. /\ at \in [1..K -> 1..n - 1]
        /\ \A k \in 1..K : at[k] \in places /\ old[k] = list[at[k]]
        /\ \A k, l \in 1..K : k < l => at[k] < at[l]
        /\ \A m \in 1..n - 1 : m \in places => \E k \in 1..K : at[k] = m
    BY <2>2
  <2>5. \A k \in 1..K : at[k] \in 1..n /\ at[k] < n
    <3>1. \A k \in 1..K : at[k] \in 1..n - 1
      BY <2>4
    <3>2. QED
      BY <2>1, <3>1
  <2>6. CASE n \notin places
    <3>1. f[n] = old
      BY <1>3, <2>1, <2>6
    <3> HIDE DEF old
    <3>2. at \in [1..K -> 1..n]
      BY <2>4, <2>5
    <3>3. \A m \in 1..n : m \in places => \E k \in 1..K : at[k] = m
      <4>1. \A m \in 1..n : m \in places => m \in 1..n - 1
        BY <2>1, <2>6
      <4>2. QED
        BY <4>1, <2>4
    <3>4. Fits(at, n)
      BY <3>1, <3>2, <3>3, <2>4
    <3> HIDE DEF Fits
    <3>5. QED
      BY <2>1, <3>4
  <2>7. CASE n \in places
    <3>1. f[n] = Append(old, list[n])
      BY <1>3, <2>1, <2>7
    <3> HIDE DEF old
    <3>2. /\ Len(f[n]) = K + 1 /\ f[n][K + 1] = list[n]
          /\ \A k \in 1..K : f[n][k] = old[k]
      BY <2>1, <2>3, <3>1, AppendProperties
    <3> DEFINE now == [k \in 1..K + 1 |-> IF k = K + 1 THEN n ELSE at[k]]
    <3> HIDE DEF K
    <3>3. \A k \in 1..K + 1 : k = K + 1 \/ k \in 1..K
      BY <2>3
    <3>4. now \in [1..K + 1 -> 1..n]
      BY <2>1, <2>5, <3>3
    <3>5. now[K + 1] = n /\ \A k \in 1..K : now[k] = at[k]
      BY <2>3
    <3> HIDE DEF now
    <3>6. \A k \in 1..K + 1 : now[k] \in places /\ f[n][k] = list[now[k]]
      BY <2>4, <2>7, <3>2, <3>3, <3>5
    <3>7. ASSUME NEW k \in 1..K + 1, NEW l \in 1..K + 1, k < l PROVE now[k] < now[l]
      <4>1. k \in 1..K
        BY <2>3, <3>7
      <4>2. CASE l = K + 1
        BY <4>1, <4>2, <2>5, <3>5
      <4>3. CASE l \in 1..K
        BY <4>1, <4>3, <3>7, <2>4, <3>5
      <4>4. QED
        BY <4>2, <4>3, <3>3
    <3>8. ASSUME NEW m \in 1..n, m \in places PROVE \E k \in 1..K + 1 : now[k] = m
      <4>1. CASE m = n
        <5>1. K + 1 \in 1..K + 1
          BY <2>3
        <5>2. QED
          BY <4>1, <5>1, <3>5
      <4>2. CASE m # n
        <5>1. m \in 1..n - 1
          BY <4>2, <2>1
        <5>2. PICK k \in 1..K : at[k] = m
          BY <5>1, <3>8, <2>4
        <5>3. k \in 1..K + 1
          BY <2>3
        <5>4. QED
          BY <5>2, <5>3, <3>5
      <4>3. QED
        BY <4>1, <4>2
    <3>9. Fits(now, n)
      BY <3>2, <3>4, <3>6, <3>7, <3>8
    <3> HIDE DEF Fits
    <3>10. QED
      BY <2>1, <3>9
  <2>8. QED
    BY <2>6, <2>7
<1>6. N \in G
  <2>1. N \in 0..N
    BY <1>2
  <2> HIDE DEF G
  <2>2. QED
    BY <2>1, <1>2, <1>4, <1>5, Counting
<1>7. PICK at : Fits(at, N)
  BY <1>6
<1>8. /\ at \in [1..Len(f[N]) -> 1..N]
      /\ \A k \in 1..Len(f[N]) : at[k] \in places /\ f[N][k] = list[at[k]]
      /\ \A k, l \in 1..Len(f[N]) : k < l => at[k] < at[l]
      /\ \A m \in 1..N : m \in places => \E k \in 1..Len(f[N]) : at[k] = m
  BY <1>7
<1>9. DOMAIN at = 1..Len(f[N])
  BY <1>8
<1> HIDE DEF Fits, G
<1>10. /\ \A k \in DOMAIN at : at[k] \in places /\ f[N][k] = list[at[k]]
       /\ \A k, l \in DOMAIN at : k < l => at[k] < at[l]
       /\ \A n \in 1..N : n \in places => \E k \in DOMAIN at : at[k] = n
  BY <1>8, <1>9
<1>11. at \in [1..Len(Keeping(list, places)) -> 1..Len(list)]
  BY <1>2, <1>8 DEF N
<1> HIDE DEF N
<1>12. /\ \A k \in DOMAIN at : at[k] \in places /\ Keeping(list, places)[k] = list[at[k]]
       /\ \A k, l \in DOMAIN at : k < l => at[k] < at[l]
       /\ \A n \in 1..Len(list) : n \in places => \E k \in DOMAIN at : at[k] = n
  BY <1>2, <1>10 DEF N
<1>13. QED
  BY ONLY <1>11, <1>12

-----------------------------------------------------------------------------
(* What a loop joins.                                                      *)

Listed(lists, S) == Len(lists) \in Nat /\ \A n \in 1..Len(lists) : lists[n] \in Seq(S)

LEMMA JoinedExists ==
  ASSUME NEW S, NEW lists, Listed(lists, S)
  PROVE  \E f \in [0..Len(lists) -> Seq(S)] :
           f = [n \in 0..Len(lists) |-> IF n = 0 THEN <<>> ELSE f[n - 1] \o lists[n]]
<1> DEFINE N == Len(lists)
           F == [n \in 1..N |-> [x \in Seq(S) |-> x \o lists[n]]]
<1>1. N \in Nat /\ <<>> \in Seq(S) /\ \A n \in 1..N : lists[n] \in Seq(S)
  BY DEF Listed
<1> HIDE DEF N
<1>2. F \in [1..N -> [Seq(S) -> Seq(S)]]
  BY <1>1, ConcatProperties
<1>3. \A n \in 1..N : \A x \in Seq(S) : F[n][x] = x \o lists[n]
  OBVIOUS
<1> HIDE DEF F
<1>4. PICK f \in [0..N -> Seq(S)] : RoundsOf(f, F, N, <<>>)
  <2> DEFINE X == Seq(S)
  <2>1. F \in [1..N -> [X -> X]] /\ N \in Nat /\ <<>> \in X
    BY <1>1, <1>2
  <2> HIDE DEF X
  <2>2. \E f \in [0..N -> X] : RoundsOf(f, F, N, <<>>)
    BY ONLY <2>1, RoundsExist
  <2>3. QED
    BY <2>2 DEF X
<1>5. ASSUME NEW n \in 0..N PROVE f[n] = IF n = 0 THEN <<>> ELSE f[n - 1] \o lists[n]
  <2>1. n = 0 \/ (n # 0 /\ n \in 1..N /\ f[n - 1] \in Seq(S))
    BY <1>1
  <2>2. f[n] = IF n = 0 THEN <<>> ELSE F[n][f[n - 1]]
    BY <1>4 DEF RoundsOf
  <2>3. QED
    BY <2>1, <2>2, <1>3
<1>6. f = [n \in 0..N |-> IF n = 0 THEN <<>> ELSE f[n - 1] \o lists[n]]
  <2>1. f = [n \in 0..N |-> f[n]]
    OBVIOUS
  <2>2. QED
    BY <2>1, <1>5
<1>7. QED
  BY <1>6 DEF N

\* The lists joined so far.
JoinedBy(f, lists) ==
  f[0] = <<>> /\ \A n \in 1..Len(lists) : f[n] = f[n - 1] \o lists[n]

LEMMA JoinedIs ==
  ASSUME NEW S, NEW lists, Listed(lists, S)
  PROVE  \E f : /\ f \in [0..Len(lists) -> Seq(S)] /\ JoinedBy(f, lists)
                /\ Concatenated(lists) = f[Len(lists)]
<1> DEFINE N == Len(lists)
           Is(g) == g = [n \in 0..N |-> IF n = 0 THEN <<>> ELSE g[n - 1] \o lists[n]]
           f == CHOOSE g : Is(g)
<1>1. N \in Nat /\ <<>> \in Seq(S) /\ \A n \in 1..N : lists[n] \in Seq(S)
  BY DEF Listed
<1>2. Is(f)
  <2>1. \E g \in [0..N -> Seq(S)] : Is(g)
    BY JoinedExists
  <2> HIDE DEF Is
  <2>2. QED
    BY <2>1
<1>3. Concatenated(lists) = f[N]
  BY DEF Concatenated
<1> HIDE DEF f, N
<1>4. f[0] = <<>> /\ \A n \in 1..N : f[n] = f[n - 1] \o lists[n]
  <2>1. 0 \in 0..N /\ \A n \in 1..N : n \in 0..N /\ n # 0
    BY <1>1
  <2>2. \A n \in 0..N : f[n] = IF n = 0 THEN <<>> ELSE f[n - 1] \o lists[n]
    BY <1>2
  <2> HIDE DEF Is
  <2>3. QED
    BY <2>1, <2>2
<1> DEFINE G == {n \in 0..N : f[n] \in Seq(S)}
<1>5. \A n \in 0..N : n \in G
  <2>1. 0 \in G
    <3>1. 0 \in 0..N /\ f[0] \in Seq(S)
      BY ONLY <1>1, <1>4
    <3>2. QED
      BY ONLY <3>1
  <2>2. ASSUME NEW n \in 1..N, n - 1 \in G PROVE n \in G
    <3>1. f[n - 1] \in Seq(S) /\ n \in 0..N /\ lists[n] \in Seq(S)
      BY ONLY <2>2, <1>1
    <3>2. f[n - 1] \o lists[n] \in Seq(S)
      BY ONLY <3>1, ConcatProperties
    <3>3. f[n] \in Seq(S)
      BY ONLY <3>2, <1>4, n \in 1..N
    <3>4. QED
      BY ONLY <3>1, <3>3
  <2> HIDE DEF G
  <2>3. QED
    BY <2>1, <2>2, <1>1, Counting
<1>6. f \in [0..N -> Seq(S)]
  <2>1. f = [n \in 0..N |-> f[n]]
    BY <1>2
  <2> HIDE DEF Is
  <2>2. QED
    BY <2>1, <1>5
<1>7. JoinedBy(f, lists)
  BY <1>4 DEF JoinedBy, N
<1>8. QED
  BY <1>3, <1>6, <1>7 DEF N

LEMMA JoinedIsUnique ==
  ASSUME NEW S, NEW lists, Listed(lists, S), NEW f, JoinedBy(f, lists)
  PROVE  Concatenated(lists) = f[Len(lists)]
<1> DEFINE N == Len(lists)
<1>1. PICK g : g \in [0..N -> Seq(S)] /\ JoinedBy(g, lists) /\ Concatenated(lists) = g[N]
  BY JoinedIs
<1>2. N \in Nat
  BY DEF Listed
<1>3. /\ f[0] = <<>> /\ \A n \in 1..N : f[n] = f[n - 1] \o lists[n]
      /\ g[0] = <<>> /\ \A n \in 1..N : g[n] = g[n - 1] \o lists[n]
  BY <1>1 DEF JoinedBy
<1> HIDE DEF N
<1> DEFINE G == {n \in 0..N : f[n] = g[n]}
<1>4. 0 \in G
  BY <1>2, <1>3
<1>5. ASSUME NEW n \in 1..N, n - 1 \in G PROVE n \in G
  <2>1. n \in 0..N /\ f[n - 1] = g[n - 1]
    BY <1>2, <1>5
  <2>2. f[n] = g[n]
    BY <2>1, <1>3
  <2>3. QED
    BY <2>1, <2>2
<1>6. N \in G
  <2>1. N \in 0..N
    BY <1>2
  <2> HIDE DEF G
  <2>2. QED
    BY <2>1, <1>2, <1>4, <1>5, Counting
<1>7. QED
  BY <1>1, <1>6 DEF N

\* What the elements of a list have to say, one after the other.
SaidOf(list, says) == [n \in 1..Len(list) |-> says[list[n]]]
Gathered(list, says) == Concatenated(SaidOf(list, says))

LEMMA SaidBy ==
  ASSUME NEW M, NEW S, NEW list \in Seq(M), NEW says \in [M -> Seq(S)]
  PROVE  /\ Listed(SaidOf(list, says), S) /\ Len(SaidOf(list, says)) = Len(list)
         /\ Len(list) \in Nat
         /\ \A n \in 1..Len(list) : SaidOf(list, says)[n] = says[list[n]]
<1>1. Len(list) \in Nat /\ \A n \in 1..Len(list) : list[n] \in M
  OBVIOUS
<1>2. QED
  BY <1>1 DEF Listed, SaidOf

LEMMA GatheredType ==
  ASSUME NEW M, NEW S, NEW list \in Seq(M), NEW says \in [M -> Seq(S)]
  PROVE  Gathered(list, says) \in Seq(S)
<1> DEFINE lists == SaidOf(list, says)
<1>1. Listed(lists, S) /\ Len(lists) \in Nat
  BY SaidBy DEF Listed
<1>2. Gathered(list, says) = Concatenated(lists)
  BY DEF Gathered
<1> HIDE DEF lists
<1>3. PICK f : f \in [0..Len(lists) -> Seq(S)] /\ Concatenated(lists) = f[Len(lists)]
  BY <1>1, JoinedIs
<1>4. Len(lists) \in 0..Len(lists)
  BY <1>1
<1>5. QED
  BY <1>2, <1>3, <1>4

LEMMA GatheredEmpty == ASSUME NEW says PROVE Gathered(<<>>, says) = <<>>
<1> DEFINE lists == SaidOf(<<>>, says)
           f == [n \in {0} |-> <<>>]
<1>1. Listed(lists, {}) /\ Len(lists) = 0
  BY DEF Listed, SaidOf
<1> HIDE DEF lists
<1>2. JoinedBy(f, lists)
  BY <1>1 DEF JoinedBy
<1>3. Concatenated(lists) = f[0]
  <2> HIDE DEF f
  <2>1. QED
    BY <1>1, <1>2, JoinedIsUnique
<1>4. QED
  BY <1>3 DEF Gathered, lists

LEMMA GatheredAppend ==
  ASSUME NEW M, NEW S, NEW list \in Seq(M), NEW says \in [M -> Seq(S)], NEW e \in M
  PROVE  Gathered(Append(list, e), says) = Gathered(list, says) \o says[e]
<1> DEFINE N == Len(list)
           longer == Append(list, e)
           lists == SaidOf(list, says)
           more == SaidOf(longer, says)
<1>1. /\ N \in Nat /\ longer \in Seq(M) /\ Len(longer) = N + 1 /\ longer[N + 1] = e
      /\ \A n \in 1..N : longer[n] = list[n]
  BY AppendProperties
<1>2. Listed(lists, S) /\ Len(lists) = N
  BY SaidBy
<1>3. Listed(more, S) /\ Len(more) = N + 1
  <2>1. longer \in Seq(M)
    BY <1>1
  <2> HIDE DEF longer
  <2>2. QED
    BY <1>1, <2>1, SaidBy
<1>4. more[N + 1] = says[e] /\ \A n \in 1..N : more[n] = lists[n]
  <2>1. /\ \A n \in 1..N : n \in 1..N + 1
        /\ N + 1 \in 1..N + 1
    BY <1>1
  <2>2. \A n \in 1..N : lists[n] = says[list[n]]
    BY DEF SaidOf
  <2>3. \A n \in 1..N + 1 : more[n] = says[longer[n]]
    <3>1. longer \in Seq(M) /\ Len(longer) = N + 1
      BY <1>1
    <3> HIDE DEF longer
    <3>2. QED
      BY <3>1, SaidBy
  <2> HIDE DEF more, lists, longer, N
  <2>4. QED
    BY <1>1, <2>1, <2>2, <2>3
<1>5. Gathered(list, says) = Concatenated(lists) /\ Gathered(longer, says) = Concatenated(more)
  BY DEF Gathered
<1> HIDE DEF lists, more, longer, N
<1>6. PICK f : f \in [0..N -> Seq(S)] /\ JoinedBy(f, lists) /\ Concatenated(lists) = f[N]
  BY <1>2, JoinedIs
<1> DEFINE g == [n \in 0..N + 1 |-> IF n = N + 1 THEN f[N] \o says[e] ELSE f[n]]
<1>7. /\ g[N + 1] = f[N] \o says[e] /\ \A n \in 0..N : g[n] = f[n]
  BY <1>1
<1> HIDE DEF g
<1>8. JoinedBy(g, more)
  <2>1. g[0] = <<>>
    BY <1>1, <1>6, <1>7 DEF JoinedBy
  <2>2. ASSUME NEW n \in 1..N + 1 PROVE g[n] = g[n - 1] \o more[n]
    <3>1. CASE n = N + 1
      <4>1. n - 1 = N /\ N \in 0..N
        BY <3>1, <1>1
      <4>2. QED
        BY <3>1, <4>1, <1>4, <1>7
    <3>2. CASE n # N + 1
      <4>1. n \in 1..N /\ n \in 0..N /\ n - 1 \in 0..N
        BY <3>2, <1>1
      <4>2. f[n] = f[n - 1] \o lists[n]
        BY <4>1, <1>2, <1>6 DEF JoinedBy
      <4>3. QED
        BY <4>1, <4>2, <1>4, <1>7
    <3>3. QED
      BY <3>1, <3>2
  <2>3. QED
    BY <2>1, <2>2, <1>3 DEF JoinedBy
<1>9. Concatenated(more) = g[N + 1]
  BY <1>3, <1>8, JoinedIsUnique
<1>10. QED
  BY <1>5, <1>6, <1>7, <1>9 DEF longer

LEMMA GatheredConcat ==
  ASSUME NEW M, NEW S, NEW list \in Seq(M), NEW more \in Seq(M), NEW says \in [M -> Seq(S)]
  PROVE  Gathered(list \o more, says) = Gathered(list, says) \o Gathered(more, says)
<1> DEFINE N == Len(more)
           upto(n) == SubSeq(more, 1, n)
           G == {n \in 0..N :
                  Gathered(list \o upto(n), says) = Gathered(list, says) \o Gathered(upto(n), says)}
<1>1. N \in Nat /\ upto(N) = more /\ upto(0) = <<>> /\ \A n \in 1..N : more[n] \in M
  BY SubSeqFull, SubSeqEmpty
<1>2. ASSUME NEW n \in 0..N PROVE upto(n) \in Seq(M)
  <2>1. \A i \in 1..n : more[i] \in M
    BY <1>1
  <2>2. QED
    BY <2>1, SubSeqProperties
<1>3. \A x \in Seq(M) : Gathered(x, says) \in Seq(S)
  BY GatheredType
<1>4. \A x, y, z \in Seq(S) : (x \o y) \o z = x \o (y \o z)
  BY ConcatAssociative
<1>5. 0 \in G
  <2>1. list \o <<>> = list /\ Gathered(list, says) \o <<>> = Gathered(list, says)
    BY <1>3, ConcatEmptySeq
  <2>2. 0 \in 0..N /\ Gathered(upto(0), says) = <<>> /\ list \o upto(0) = list
    <3>1. upto(0) = <<>> /\ 0 \in 0..N
      BY <1>1
    <3> HIDE DEF upto
    <3>2. QED
      BY <3>1, <2>1, GatheredEmpty
  <2>3. Gathered(list \o upto(0), says) = Gathered(list, says) \o Gathered(upto(0), says)
    <3> HIDE DEF upto
    <3>1. QED
      BY <2>1, <2>2
  <2> HIDE DEF upto
  <2>4. QED
    BY <2>2, <2>3
<1>6. ASSUME NEW n \in 1..N, n - 1 \in G PROVE n \in G
  <2> DEFINE u == upto(n - 1)
  <2>1. n \in 0..N /\ n - 1 \in 0..N
    BY <1>1
  <2>2. u \in Seq(M) /\ more[n] \in M
    BY <2>1, <1>1, <1>2
  <2>3. upto(n) = Append(u, more[n])
    <3>1. upto(n) = u \o <<more[n]>>
      <4>1. 1 \in 1..N /\ n \in 1..N
        BY <1>1
      <4>2. QED
        BY <4>1, SubSeqRecursiveSecond
    <3> HIDE DEF upto, u
    <3>2. QED
      BY <3>1, <2>2, AppendIsConcat
  <2>4. Gathered(list \o u, says) = Gathered(list, says) \o Gathered(u, says)
    BY <1>6
  <2> HIDE DEF upto, u
  <2>5. list \o u \in Seq(M) /\ <<more[n]>> \in Seq(M)
    BY <2>2, ConcatProperties
  <2>6. list \o Append(u, more[n]) = Append(list \o u, more[n])
    <3>1. list \o (u \o <<more[n]>>) = (list \o u) \o <<more[n]>>
      BY <2>2, <2>5, ConcatAssociative
    <3>2. Append(u, more[n]) = u \o <<more[n]>>
      BY <2>2, AppendIsConcat
    <3>3. Append(list \o u, more[n]) = (list \o u) \o <<more[n]>>
      BY <2>2, <2>5, AppendIsConcat
    <3>4. QED
      BY <3>1, <3>2, <3>3
  <2>7. /\ Gathered(Append(list \o u, more[n]), says) = Gathered(list \o u, says) \o says[more[n]]
        /\ Gathered(Append(u, more[n]), says) = Gathered(u, says) \o says[more[n]]
    <3> DEFINE x == list \o u
               e == more[n]
    <3>1. x \in Seq(M) /\ u \in Seq(M) /\ e \in M
      BY <2>2, <2>5
    <3> HIDE DEF x, e
    <3>2. Gathered(Append(x, e), says) = Gathered(x, says) \o says[e]
      BY <3>1, GatheredAppend
    <3>3. Gathered(Append(u, e), says) = Gathered(u, says) \o says[e]
      BY <3>1, GatheredAppend
    <3>4. QED
      BY <3>2, <3>3 DEF x, e
  <2>8. (Gathered(list, says) \o Gathered(u, says)) \o says[more[n]]
          = Gathered(list, says) \o (Gathered(u, says) \o says[more[n]])
    <3>1. says[more[n]] \in Seq(S)
      BY <2>2
    <3>2. Gathered(list, says) \in Seq(S) /\ Gathered(u, says) \in Seq(S)
      BY <2>2, <1>3
    <3> DEFINE a == Gathered(list, says)
               b == Gathered(u, says)
               c == says[more[n]]
    <3>3. a \in Seq(S) /\ b \in Seq(S) /\ c \in Seq(S)
      BY <3>1, <3>2
    <3> HIDE DEF a, b, c
    <3>4. (a \o b) \o c = a \o (b \o c)
      BY <3>3, <1>4
    <3>5. QED
      BY <3>4 DEF a, b, c
  <2>9. Gathered(list \o upto(n), says) = Gathered(list, says) \o Gathered(upto(n), says)
    BY <2>3, <2>4, <2>6, <2>7, <2>8
  <2>10. QED
    BY <2>1, <2>9
<1>7. N \in G
  <2>1. N \in 0..N
    BY <1>1
  <2> HIDE DEF G, N
  <2>2. N \in Nat
    BY <1>1
  <2>3. QED
    BY <2>1, <2>2, <1>5, <1>6, Counting
<1>8. QED
  BY <1>1, <1>7

\* One that has nothing to say, and a list of such.
LEMMA GatheredNone ==
  ASSUME NEW M, NEW S, NEW list \in Seq(M), NEW says \in [M -> Seq(S)],
         \A n \in 1..Len(list) : says[list[n]] = <<>>
  PROVE  Gathered(list, says) = <<>>
<1> DEFINE N == Len(list)
           lists == SaidOf(list, says)
           f == [n \in 0..N |-> <<>>]
<1>1. N \in Nat /\ Listed(lists, S) /\ Len(lists) = N
  BY SaidBy
<1>2. \A n \in 1..N : lists[n] = <<>>
  BY SaidBy
<1>3. Gathered(list, says) = Concatenated(lists)
  BY DEF Gathered
<1> HIDE DEF lists, N
<1>4. JoinedBy(f, lists)
  <2>1. f[0] = <<>>
    BY <1>1
  <2>2. ASSUME NEW n \in 1..N PROVE f[n] = f[n - 1] \o lists[n]
    <3>1. n \in 0..N /\ n - 1 \in 0..N /\ <<>> \o <<>> = <<>>
      BY <1>1, ConcatEmptySeq
    <3>2. QED
      BY <3>1, <1>2
  <2> HIDE DEF f
  <2>3. QED
    BY <2>1, <2>2, <1>1 DEF JoinedBy
<1>5. Concatenated(lists) = f[N]
  <2> HIDE DEF f
  <2>1. QED
    BY <1>1, <1>4, JoinedIsUnique
<1>6. QED
  BY <1>1, <1>3, <1>5

\* A choice of elements is what those say that say themselves.
LEMMA KeepingIsGathered ==
  ASSUME NEW S, NEW list \in Seq(S), NEW places, NEW says \in [S -> Seq(S)],
         \A n \in 1..Len(list) : says[list[n]] = IF n \in places THEN <<list[n]>> ELSE <<>>
  PROVE  Keeping(list, places) = Gathered(list, says)
<1> DEFINE N == Len(list)
           lists == SaidOf(list, says)
<1>1. PICK f \in [0..N -> Seq(S)] : KeptBy(f, list, places)
  BY KeptExists
<1>2. /\ Listed(lists, S) /\ Len(lists) = N /\ N \in Nat
      /\ \A n \in 1..N : lists[n] = IF n \in places THEN <<list[n]>> ELSE <<>>
  <2>1. /\ Listed(lists, S) /\ Len(lists) = N /\ N \in Nat
        /\ \A n \in 1..N : lists[n] = says[list[n]]
    BY SaidBy
  <2> HIDE DEF lists
  <2>2. QED
    BY <2>1
<1>3. f[0] = <<>>
  BY <1>1, <1>2 DEF KeptBy
<1>4. ASSUME NEW n \in 1..N PROVE f[n] = f[n - 1] \o lists[n]
  <2>1. n \in 0..N /\ n # 0 /\ n - 1 \in 0..N
    BY <1>2
  <2>2. f[n] = IF n \in places THEN Append(f[n - 1], list[n]) ELSE f[n - 1]
    BY <1>1, <2>1 DEF KeptBy
  <2> DEFINE before == f[n - 1]
             e == list[n]
  <2>3. before \in Seq(S) /\ e \in S
    <3> DEFINE X == Seq(S)
    <3>1. f \in [0..N -> X]
      OBVIOUS
    <3> HIDE DEF X
    <3>2. before \in X
      BY ONLY <2>1, <3>1
    <3>3. QED
      BY <3>2 DEF X
  <2> HIDE DEF before, e
  <2>4. Append(before, e) = before \o <<e>> /\ before \o <<>> = before
    BY ONLY <2>3, AppendIsConcat, ConcatEmptySeq
  <2>5. QED
    BY <1>2, <2>2, <2>4 DEF before, e
<1>5. JoinedBy(f, lists)
  BY <1>2, <1>3, <1>4 DEF JoinedBy
<1> HIDE DEF lists
<1>6. Concatenated(lists) = f[N]
  BY <1>2, <1>5, JoinedIsUnique
<1>7. Keeping(list, places) = f[N]
  BY <1>1, LoopIsUnique
<1>8. QED
  BY <1>6, <1>7 DEF Gathered, lists

LEMMA GatheredItself ==
  ASSUME NEW S, NEW list \in Seq(S), NEW says \in [S -> Seq(S)],
         \A n \in 1..Len(list) : says[list[n]] = <<list[n]>>
  PROVE  Gathered(list, says) = list
<1> DEFINE N == Len(list)
           places == 1..N
<1>1. N \in Nat /\ 1 \in 1..N + 1 /\ N \in 0..N
  OBVIOUS
<1>2. Keeping(list, places) = Gathered(list, says)
  BY KeepingIsGathered
<1>3. Keeping(list, places) = SubSeq(list, 1, N)
  BY <1>1, KeepingInterval
<1>4. SubSeq(list, 1, N) = list
  OBVIOUS
<1>5. QED
  BY <1>2, <1>3, <1>4
================================================================================
