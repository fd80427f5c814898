---------------------------- MODULE BencodeProof ----------------------------
(***************************************************************************)
(* What the grammar of Bencode gives for every message, and that the token *)
(* benr_next takes is the one the grammar has there.                       *)
(***************************************************************************)
EXTENDS BenrToken, BenpToken, Bencode, SequenceTheorems, WellFoundedInduction, TLAPS

-----------------------------------------------------------------------------
(* Recursion: what is defined by looking at lower ranks has a value *)

\* A nonempty set of naturals has a least element.
LEMMA LeastElement ==
  ASSUME NEW T, T \subseteq Nat, T # {}
  PROVE  \E x \in T : \A y \in T : x <= y
<1>1. PICK x \in T : \A y \in T : ~(<<y, x>> \in OpToRel(<,Nat))
  BY NatLessThanWellFounded, WFMin
<1>2. \A y \in T : ~(y < x)
  BY <1>1 DEF OpToRel
<1>3. QED
  BY <1>2

\* Nothing is bad when below everything bad there is something bad.
LEMMA NoDescent ==
  ASSUME NEW S, NEW rank \in [S -> Nat], NEW Bad, Bad \subseteq S,
         \A x \in Bad : \E y \in Bad : rank[y] < rank[x]
  PROVE  Bad = {}
<1> DEFINE T == {rank[x] : x \in Bad}
<1> SUFFICES ASSUME Bad # {} PROVE FALSE
  OBVIOUS
<1>1. T \subseteq Nat /\ T # {}
  OBVIOUS
<1>2. \A r \in T : \E x \in Bad : r = rank[x]
  OBVIOUS
<1>3. \A x \in Bad : rank[x] \in T
  OBVIOUS
<1> HIDE DEF T
<1>4. PICK r \in T : \A o \in T : r <= o
  BY <1>1, LeastElement
<1>5. PICK x \in Bad : r = rank[x]
  BY <1>2
<1>6. PICK y \in Bad : rank[y] < rank[x]
  OBVIOUS
<1>7. rank[x] <= rank[y]
  BY <1>3, <1>4, <1>5
<1>8. QED
  BY <1>6, <1>7

\* F, at x and a function, looks at that function only below the rank of x
Recursion(F, rank, S, V) ==
  /\ rank \in [S -> Nat]
  /\ F \in [S -> [[S -> V] -> V]]
  /\ \A x \in S : \A g, h \in [S -> V] :
       (\A y \in S : rank[y] < rank[x] => g[y] = h[y]) => F[x][g] = F[x][h]

\* f follows the recursion F below the rank n
Follows(f, F, rank, S, V, n) ==
  /\ n \in Nat
  /\ f \in [S -> V]
  /\ \A x \in S : rank[x] < n => f[x] = F[x][f]

\* Two functions that follow a recursion agree.
LEMMA FollowersAgree ==
  ASSUME NEW S, NEW V, NEW rank, NEW F, Recursion(F, rank, S, V), NEW n, NEW m,
         NEW f, NEW g, Follows(f, F, rank, S, V, n), Follows(g, F, rank, S, V, m)
  PROVE  \A x \in S : rank[x] < n /\ rank[x] < m => f[x] = g[x]
<1> USE DEF Recursion, Follows
<1> DEFINE T == {r \in Nat : \E x \in S : rank[x] = r /\ r < n /\ r < m /\ f[x] # g[x]}
<1>1. CASE T = {}
  BY <1>1
<1>2. CASE T # {}
  <2>1. PICK r \in T : \A y \in T : r <= y
    <3>1. T \subseteq Nat
      OBVIOUS
    <3> HIDE DEF T
    <3>2. QED
      BY <1>2, <3>1, LeastElement
  <2>2. PICK x \in S : rank[x] = r /\ r < n /\ r < m /\ f[x] # g[x]
    BY <2>1
  <2>3. ASSUME NEW y \in S, rank[y] < rank[x] PROVE f[y] = g[y]
    <3>1. rank[y] \in Nat /\ rank[y] < n /\ rank[y] < m /\ ~(r <= rank[y])
      BY <2>2, <2>3
    <3>2. rank[y] \notin T
      BY <2>1, <3>1
    <3>3. QED
      BY <3>1, <3>2
  <2>4. F[x][f] = F[x][g]
    BY <2>3
  <2>5. f[x] = F[x][f] /\ g[x] = F[x][g]
    BY <2>2
  <2>6. QED
    BY <2>2, <2>4, <2>5
<1>3. QED
  BY <1>1, <1>2

\* Below every rank there is a function that follows it.
LEMMA FollowersExist ==
  ASSUME NEW S, NEW V, V # {}, NEW rank, NEW F, Recursion(F, rank, S, V)
  PROVE  \A n \in Nat : \E f \in [S -> V] : Follows(f, F, rank, S, V, n)
<1> DEFINE T == {n \in Nat : ~ \E f \in [S -> V] : Follows(f, F, rank, S, V, n)}
<1> SUFFICES ASSUME T # {} PROVE FALSE
  OBVIOUS
<1>1. PICK n \in T : \A m \in T : n <= m
  <2>1. T \subseteq Nat
    OBVIOUS
  <2> HIDE DEF T
  <2>2. QED
    BY <2>1, LeastElement
<1>2. n # 0
  <2>1. PICK v \in V : TRUE
    OBVIOUS
  <2>2. [x \in S |-> v] \in [S -> V] /\ Follows([x \in S |-> v], F, rank, S, V, 0)
    BY DEF Follows, Recursion
  <2>3. QED
    BY <2>2
<1>3. n - 1 \in Nat /\ n - 1 \notin T
  BY <1>1, <1>2
<1>4. PICK f \in [S -> V] : Follows(f, F, rank, S, V, n - 1)
  BY <1>3
<1> DEFINE g == [x \in S |-> IF rank[x] < n - 1 THEN f[x] ELSE F[x][f]]
<1>5. g \in [S -> V]
  BY DEF Recursion
<1>6. ASSUME NEW x \in S, rank[x] < n PROVE g[x] = F[x][g]
  <2>1. g[x] = F[x][f]
    BY <1>4 DEF Follows
  <2>2. ASSUME NEW y \in S, rank[y] < rank[x] PROVE f[y] = g[y]
    BY <1>1, <1>6, <2>2 DEF Recursion
  <2> HIDE DEF g
  <2>3. F[x][f] = F[x][g]
    BY <1>5, <2>2 DEF Recursion
  <2>4. QED
    BY <2>1, <2>3
<1> HIDE DEF g
<1>7. Follows(g, F, rank, S, V, n)
  BY <1>1, <1>5, <1>6 DEF Follows
<1>8. QED
  BY <1>1, <1>5, <1>7

\* A recursion that looks only below has a function that follows it.
LEMMA RecursionHasFunction ==
  ASSUME NEW S, NEW V, V # {}, NEW rank, NEW F, Recursion(F, rank, S, V)
  PROVE  \E f \in [S -> V] : \A x \in S : f[x] = F[x][f]
<1> DEFINE sol == [n \in Nat |-> CHOOSE f \in [S -> V] : Follows(f, F, rank, S, V, n)]
           f == [x \in S |-> sol[rank[x] + 1][x]]
<1>1. \A n \in Nat : Follows(sol[n], F, rank, S, V, n)
  BY FollowersExist
<1> HIDE DEF sol
<1>2. \A x \in S : /\ rank[x] \in Nat
                   /\ rank[x] + 1 \in Nat
                   /\ rank[x] < rank[x] + 1
                   /\ f[x] = sol[rank[x] + 1][x]
                   /\ Follows(sol[rank[x] + 1], F, rank, S, V, rank[x] + 1)
  BY <1>1 DEF Recursion
<1>3. f \in [S -> V]
  <2>1. \A x \in S : sol[rank[x] + 1][x] \in V
    BY <1>2 DEF Follows
  <2>2. QED
    BY <2>1
<1> HIDE DEF f
<1>4. ASSUME NEW x \in S PROVE f[x] = F[x][f]
  <2> DEFINE h == sol[rank[x] + 1]
  <2>1. Follows(h, F, rank, S, V, rank[x] + 1) /\ f[x] = h[x] /\ h \in [S -> V]
    BY <1>2 DEF Follows
  <2> HIDE DEF h
  <2>2. f[x] = F[x][h]
    BY <1>2, <2>1 DEF Follows
  <2>3. ASSUME NEW y \in S, rank[y] < rank[x] PROVE f[y] = h[y]
    <3>1. rank[y] < rank[y] + 1 /\ rank[y] < rank[x] + 1
      BY <1>2, <2>3
    <3>2. \A z \in S : rank[z] < rank[y] + 1 /\ rank[z] < rank[x] + 1
                         => sol[rank[y] + 1][z] = h[z]
      BY <1>2, <2>1, FollowersAgree
    <3>3. QED
      BY <1>2, <3>1, <3>2
  <2>4. F[x][f] = F[x][h]
    BY <1>3, <2>1, <2>3 DEF Recursion
  <2>5. QED
    BY <2>2, <2>4
<1>5. QED
  BY <1>3, <1>4

-----------------------------------------------------------------------------
(* Decimal numbers *)

\* f starts with 0 and goes on with step from each position to the next
Runs(f, first, last, V, step) ==
  /\ f \in [first - 1 .. last -> V]
  /\ f[first - 1] = 0
  /\ \A i \in first .. last : f[i] = step[i][f[i - 1]]

\* the positions first - 1 .. last in their order
Ranked(S, rank, first, last) ==
  /\ S = first - 1 .. last
  /\ S \subseteq Int
  /\ rank \in [S -> Nat]
  /\ first - 1 \in S /\ last \in S
  /\ \A i \in S : IF i < first THEN i = first - 1
                  ELSE i \in first .. last /\ i - 1 \in S /\ rank[i - 1] < rank[i]
  /\ \A i \in first .. last : i \in S /\ ~(i < first) /\ i - 1 \in S

\* positions of a sequence are naturals
LEMMA Positions ==
  ASSUME NEW first \in Nat, NEW last \in Nat, first <= last
  PROVE  \E S, rank : Ranked(S, rank, first, last)
<1> DEFINE S == first - 1 .. last
           rank == [i \in S |-> i - first + 1]
<1>1. rank \in [S -> Nat]
  OBVIOUS
<1>2. \A i \in S : ~(i < first) => rank[i - 1] < rank[i]
  OBVIOUS
<1> HIDE DEF rank
<1>3. S \subseteq Int /\ first - 1 \in S /\ last \in S
  OBVIOUS
<1>4. \A i \in S : IF i < first THEN i = first - 1
                   ELSE i \in first .. last /\ i - 1 \in S
  OBVIOUS
<1>5. \A i \in first .. last : i \in S /\ ~(i < first) /\ i - 1 \in S
  OBVIOUS
<1>6. Ranked(S, rank, first, last)
  BY <1>1, <1>2, <1>3, <1>4, <1>5 DEF Ranked
<1>7. QED
  BY <1>6, Zenon

\* A run over a sequence that carries a value along exists, as a function.
LEMMA RunsExist ==
  ASSUME NEW first \in Nat, NEW last \in Nat, first <= last, NEW V, 0 \in V,
         NEW step \in [first .. last -> [V -> V]]
  PROVE  \E f : Runs(f, first, last, V, step)
<1> PICK S, rank : Ranked(S, rank, first, last)
  BY Positions
<1> DEFINE F == [i \in S |-> [f \in [S -> V] |->
                   IF i < first THEN 0 ELSE step[i][f[i - 1]]]]
<1>1. ASSUME NEW f \in [S -> V], NEW i \in S
      PROVE  (IF i < first THEN 0 ELSE step[i][f[i - 1]]) \in V
  BY DEF Ranked
<1>2. F \in [S -> [[S -> V] -> V]]
  BY <1>1
<1>3. \A f \in [S -> V], i \in S :
        F[i][f] = IF i < first THEN 0 ELSE step[i][f[i - 1]]
  OBVIOUS
<1> HIDE DEF F
<1>4. ASSUME NEW x \in S, NEW g \in [S -> V], NEW h \in [S -> V],
             \A y \in S : rank[y] < rank[x] => g[y] = h[y]
      PROVE  F[x][g] = F[x][h]
  <2>1. CASE x < first
    BY <1>3, <2>1
  <2>2. CASE ~(x < first)
    <3>1. g[x - 1] = h[x - 1]
      BY <1>4, <2>2 DEF Ranked
    <3>2. F[x][g] = step[x][g[x - 1]] /\ F[x][h] = step[x][h[x - 1]]
      BY <1>3, <2>2, Zenon
    <3>3. QED
      BY <3>1, <3>2, Zenon
  <2>3. QED
    BY <2>1, <2>2
<1>5. rank \in [S -> Nat] /\ S = first - 1 .. last
  BY DEF Ranked
<1>6. Recursion(F, rank, S, V)
  BY <1>2, <1>4, <1>5, Zenon DEF Recursion
<1>7. PICK f \in [S -> V] : \A x \in S : f[x] = F[x][f]
  BY <1>6, RecursionHasFunction
<1>8. \A i \in S : f[i] = IF i < first THEN 0 ELSE step[i][f[i - 1]]
  BY <1>3, <1>7
<1>9. /\ f[first - 1] = 0
      /\ \A i \in first .. last : f[i] = step[i][f[i - 1]]
  BY <1>8 DEF Ranked
<1>10. Runs(f, first, last, V, step)
  BY <1>5, <1>9 DEF Runs
<1>11. QED
  BY <1>10

\* What holds before the first position, and at each position if at the one
\* before, holds at all.
LEMMA Upwards ==
  ASSUME NEW first \in Nat, NEW last \in Nat, first <= last, NEW Good,
         first - 1 \in Good,
         \A i \in first .. last : i - 1 \in Good => i \in Good
  PROVE  first - 1 .. last \subseteq Good
<1> PICK S, rank : Ranked(S, rank, first, last)
  BY Positions
<1> DEFINE Bad == {i \in S : i \notin Good}
<1>1. ASSUME NEW i \in Bad PROVE \E j \in Bad : rank[j] < rank[i]
  <2>1. i \in first .. last /\ i - 1 \in S /\ rank[i - 1] < rank[i]
    BY DEF Ranked
  <2>2. i - 1 \in Bad
    BY <2>1
  <2>3. QED
    BY <2>1, <2>2
<1>2. Bad \subseteq S /\ rank \in [S -> Nat] /\ S = first - 1 .. last
  BY DEF Ranked
<1>3. Bad = {}
  <2> HIDE DEF Bad
  <2>1. QED
    BY <1>1, <1>2, NoDescent, Zenon
<1>4. QED
  BY <1>2, <1>3

\* The same from the last position down.
LEMMA Downwards ==
  ASSUME NEW first \in Nat, NEW last \in Nat, first <= last, NEW Good,
         last \in Good,
         \A i \in first .. last : i \in Good => i - 1 \in Good
  PROVE  first - 1 .. last \subseteq Good
<1> DEFINE Mirror == {i \in Int : first - 1 + last - i \in Good}
<1>1. first - 1 \in Mirror
  OBVIOUS
<1>2. ASSUME NEW i \in first .. last, i - 1 \in Mirror PROVE i \in Mirror
  <2>1. first - 1 + last - (i - 1) = first + last - i
    OBVIOUS
  <2>2. first + last - i \in first .. last /\ first + last - i \in Good
    BY <1>2, <2>1
  <2>3. first + last - i - 1 \in Good
    BY <2>2
  <2>4. first - 1 + last - i = first + last - i - 1
    OBVIOUS
  <2>5. QED
    BY <2>3, <2>4
<1>3. first - 1 .. last \subseteq Mirror
  <2> HIDE DEF Mirror
  <2>1. QED
    BY <1>1, <1>2, Upwards
<1>4. ASSUME NEW j \in first - 1 .. last PROVE j \in Good
  <2>1. first - 1 + last - j \in first - 1 .. last
    OBVIOUS
  <2>2. first - 1 + last - j \in Mirror
    BY <1>3, <2>1
  <2>3. first - 1 + last - (first - 1 + last - j) = j
    OBVIOUS
  <2>4. QED
    BY <2>2, <2>3
<1>5. QED
  BY <1>4


-----------------------------------------------------------------------------
(* Decimal numbers, and the uintmax_t that holds them *)

\* n[i] is the number written in s[first .. i]
Written(n, s, first, last) ==
  /\ n \in [first - 1 .. last -> Int]
  /\ n[first - 1] = 0
  /\ \A i \in first .. last : n[i] = 10 * n[i - 1] + s[i] - 48

\* Decimal is the last of the values got by adding one digit at a time.
LEMMA DecimalWritten ==
  ASSUME NEW s \in Seq(Nat), NEW first \in 1 .. Len(s), NEW last \in first .. Len(s)
  PROVE  \E n : Written(n, s, first, last) /\ Decimal(s, first, last) = n[last]
<1> DEFINE V == Int
           n == CHOOSE n : n = [i \in first - 1 .. last |->
                                  IF i < first THEN 0 ELSE 10 * n[i - 1] + s[i] - 48]
           step == [i \in first .. last |-> [x \in V |-> 10 * x + s[i] - 48]]
<1>1. first \in Nat /\ last \in Nat /\ first <= last /\ 0 \in V
  OBVIOUS
<1>2. \A i \in first .. last : s[i] \in V /\ i \in first - 1 .. last /\ ~(i < first)
  OBVIOUS
<1>3. \A x \in V, y \in V : 10 * x + y - 48 \in V
  OBVIOUS
<1>4. \A i \in first - 1 .. last : ~(i < first) => i \in first .. last
  OBVIOUS
<1>5. first - 1 \in first - 1 .. last /\ first - 1 < first
  OBVIOUS
<1> HIDE DEF V
<1>6. step \in [first .. last -> [V -> V]]
  BY <1>2, <1>3
<1>7. \A i \in first .. last : \A x \in V : step[i][x] = 10 * x + s[i] - 48
  OBVIOUS
<1> HIDE DEF step
<1>8. PICK f : Runs(f, first, last, V, step)
  BY <1>1, <1>6, RunsExist
<1>9. ASSUME NEW i \in first - 1 .. last
      PROVE  f[i] = IF i < first THEN 0 ELSE 10 * f[i - 1] + s[i] - 48
  <2>1. CASE i < first
    <3>1. i = first - 1
      BY <2>1
    <3>2. QED
      BY <1>8, <2>1, <3>1 DEF Runs
  <2>2. CASE ~(i < first)
    <3>1. i \in first .. last /\ i - 1 \in first - 1 .. last
      BY <2>2
    <3>2. f[i - 1] \in V /\ f[i] = step[i][f[i - 1]]
      BY <1>8, <3>1 DEF Runs
    <3>3. QED
      BY <1>7, <2>2, <3>1, <3>2
  <2>3. QED
    BY <2>1, <2>2
<1>10. f = [i \in first - 1 .. last |-> IF i < first THEN 0 ELSE 10 * f[i - 1] + s[i] - 48]
  <2>1. f = [i \in first - 1 .. last |-> f[i]]
    BY <1>8 DEF Runs
  <2>2. QED
    BY <1>9, <2>1, Zenon
<1>11. n = [i \in first - 1 .. last |-> IF i < first THEN 0 ELSE 10 * n[i - 1] + s[i] - 48]
  BY <1>10, Zenon
<1>12. Decimal(s, first, last) = n[last]
  BY Zenon DEF Decimal
<1> HIDE DEF n
<1>13. n[first - 1] = 0 /\ \A i \in first .. last : n[i] = 10 * n[i - 1] + s[i] - 48
  <2>1. \A i \in first - 1 .. last : n[i] = IF i < first THEN 0 ELSE 10 * n[i - 1] + s[i] - 48
    BY <1>11, Zenon
  <2>2. QED
    BY <1>2, <1>5, <2>1, Zenon
<1>14. \A i \in first - 1 .. last : n[i] \in V
  <2> DEFINE Good == {i \in first - 1 .. last : n[i] \in V}
  <2>1. first - 1 \in Good
    BY <1>1, <1>5, <1>13
  <2>2. ASSUME NEW i \in first .. last, i - 1 \in Good PROVE i \in Good
    <3>1. n[i - 1] \in V
      BY <2>2
    <3>2. n[i] \in V
      BY <1>2, <1>3, <1>13, <3>1, Zenon
    <3>3. QED
      BY <1>2, <3>2, Zenon
  <2>3. first - 1 .. last \subseteq Good
    <3> HIDE DEF Good
    <3>1. QED
      BY <1>1, <2>1, <2>2, Upwards
  <2>4. QED
    BY <2>3
<1>15. n \in [first - 1 .. last -> V]
  BY <1>11, <1>14
<1>16. Written(n, s, first, last)
  BY <1>13, <1>15, Zenon DEF Written, V
<1>17. QED
  BY <1>12, <1>16

\* v[i] is what a uintmax_t holds when s[first .. i] has been read
Held(v, s, first, last) ==
  /\ v \in [first - 1 .. last -> Int]
  /\ v[first - 1] = 0
  /\ \A i \in first .. last : v[i] = (10 * v[i - 1] + s[i] - 48) % UINTMAX

\* UintValue is the last of the values got the same way, each cut to a uintmax_t.
LEMMA UintHeld ==
  ASSUME NEW s \in Seq(Nat), NEW first \in 1 .. Len(s), NEW last \in first .. Len(s)
  PROVE  \E n : Held(n, s, first, last) /\ UintValue(s, first, last) = n[last]
<1> DEFINE V == Int
           n == CHOOSE n : n = [i \in first - 1 .. last |->
               IF i < first THEN 0 ELSE (10 * n[i - 1] + s[i] - 48) % UINTMAX]
           step == [i \in first .. last |-> [x \in V |-> (10 * x + s[i] - 48) % UINTMAX]]
<1>1. first \in Nat /\ last \in Nat /\ first <= last /\ 0 \in V
  OBVIOUS
<1>2. \A i \in first .. last : s[i] \in V /\ i \in first - 1 .. last /\ ~(i < first)
  OBVIOUS
<1>3. \A x \in V, y \in V : (10 * x + y - 48) % UINTMAX \in V
  BY UintAssumption
<1>4. \A i \in first - 1 .. last : ~(i < first) => i \in first .. last
  OBVIOUS
<1>5. first - 1 \in first - 1 .. last /\ first - 1 < first
  OBVIOUS
<1> HIDE DEF V
<1>6. step \in [first .. last -> [V -> V]]
  BY <1>2, <1>3
<1>7. \A i \in first .. last : \A x \in V : step[i][x] = (10 * x + s[i] - 48) % UINTMAX
  OBVIOUS
<1> HIDE DEF step
<1>8. PICK f : Runs(f, first, last, V, step)
  BY <1>1, <1>6, RunsExist
<1>9. ASSUME NEW i \in first - 1 .. last
      PROVE  f[i] = IF i < first THEN 0 ELSE (10 * f[i - 1] + s[i] - 48) % UINTMAX
  <2>1. CASE i < first
    <3>1. i = first - 1
      BY <2>1
    <3>2. QED
      BY <1>8, <2>1, <3>1 DEF Runs
  <2>2. CASE ~(i < first)
    <3>1. i \in first .. last /\ i - 1 \in first - 1 .. last
      BY <2>2
    <3>2. f[i - 1] \in V /\ f[i] = step[i][f[i - 1]]
      BY <1>8, <3>1 DEF Runs
    <3>3. QED
      BY <1>7, <2>2, <3>1, <3>2
  <2>3. QED
    BY <2>1, <2>2
<1>10. f = [i \in first - 1 .. last |-> IF i < first THEN 0 ELSE (10 * f[i - 1] + s[i] - 48) % UINTMAX]
  <2>1. f = [i \in first - 1 .. last |-> f[i]]
    BY <1>8 DEF Runs
  <2>2. QED
    BY <1>9, <2>1, Zenon
<1>11. n = [i \in first - 1 .. last |-> IF i < first THEN 0 ELSE (10 * n[i - 1] + s[i] - 48) % UINTMAX]
  BY <1>10, Zenon
<1>12. UintValue(s, first, last) = n[last]
  BY Zenon DEF UintValue
<1> HIDE DEF n
<1>13. n[first - 1] = 0 /\ \A i \in first .. last : n[i] = (10 * n[i - 1] + s[i] - 48) % UINTMAX
  <2>1. \A i \in first - 1 .. last : n[i] = IF i < first THEN 0 ELSE (10 * n[i - 1] + s[i] - 48) % UINTMAX
    BY <1>11, Zenon
  <2>2. QED
    BY <1>2, <1>5, <2>1, Zenon
<1>14. \A i \in first - 1 .. last : n[i] \in V
  <2> DEFINE Good == {i \in first - 1 .. last : n[i] \in V}
  <2>1. first - 1 \in Good
    BY <1>1, <1>5, <1>13
  <2>2. ASSUME NEW i \in first .. last, i - 1 \in Good PROVE i \in Good
    <3>1. n[i - 1] \in V
      BY <2>2
    <3>2. n[i] \in V
      BY <1>2, <1>3, <1>13, <3>1, Zenon
    <3>3. QED
      BY <1>2, <3>2, Zenon
  <2>3. first - 1 .. last \subseteq Good
    <3> HIDE DEF Good
    <3>1. QED
      BY <1>1, <2>1, <2>2, Upwards
  <2>4. QED
    BY <2>3
<1>15. n \in [first - 1 .. last -> V]
  BY <1>11, <1>14
<1>16. Held(n, s, first, last)
  BY <1>13, <1>15, Zenon DEF Held, V
<1>17. QED
  BY <1>12, <1>16
\* the remainder of a number below the modulus is the number
LEMMA SmallRemainder ==
  ASSUME NEW m \in Nat \ {0}, NEW x \in 0 .. m - 1
  PROVE  x % m = x
  OBVIOUS

\* the bytes of s and of t at first .. last are the same
Same(s, t, first, last) == \A i \in first .. last : s[i] = t[i]

\* a number does not get less by a digit
LEMMA DigitAdded ==
  ASSUME NEW a \in Nat, NEW d \in 48 .. 57, NEW b, b = 10 * a + d - 48
  PROVE  b \in Nat /\ a <= b
  OBVIOUS

\* The number written in digits does not get smaller with a digit more.
LEMMA DecimalGrows ==
  ASSUME NEW s \in Seq(Nat), NEW first \in 1 .. Len(s), NEW last \in first .. Len(s),
         AllDigits(s, first, last), NEW n, Written(n, s, first, last)
  PROVE  \A i \in first - 1 .. last : n[i] \in Nat /\ n[i] <= n[last]
<1>1. first \in Nat /\ last \in Nat /\ first <= last
  OBVIOUS
<1>2. first - 1 \in first - 1 .. last /\ last \in first - 1 .. last
  OBVIOUS
<1>3. \A i \in first .. last : i - 1 \in first - 1 .. last /\ i \in first - 1 .. last
  OBVIOUS
<1>4. \A i \in first .. last : s[i] \in 48 .. 57
  BY DEF AllDigits, Digits
<1>5. \A i \in first - 1 .. last : n[i] \in Int
  BY DEF Written
<1>6. \A i \in first .. last : n[i] = 10 * n[i - 1] + s[i] - 48
  BY Zenon DEF Written
<1>7. first - 1 .. last \subseteq {i \in first - 1 .. last : n[i] \in Nat}
  <2> DEFINE Good == {i \in first - 1 .. last : n[i] \in Nat}
  <2>1. first - 1 \in Good
    BY <1>2 DEF Written
  <2>2. ASSUME NEW i \in first .. last, i - 1 \in Good PROVE i \in Good
    <3>1. n[i - 1] \in Nat
      BY <2>2
    <3>2. n[i] \in Nat
      BY <1>4, <1>6, <3>1, DigitAdded, Zenon
    <3>3. QED
      BY <1>3, <3>2
  <2> HIDE DEF Good
  <2>3. first - 1 .. last \subseteq Good
    BY <1>1, <2>1, <2>2, Upwards
  <2>4. QED
    BY <2>3 DEF Good
<1>8. first - 1 .. last \subseteq {i \in first - 1 .. last : n[i] <= n[last]}
  <2> DEFINE Good == {i \in first - 1 .. last : n[i] <= n[last]}
  <2>1. last \in Good
    BY <1>2, <1>5
  <2>2. ASSUME NEW i \in first .. last, i \in Good PROVE i - 1 \in Good
    <3>1. n[i - 1] \in Nat
      BY <1>3, <1>7
    <3>2. n[i - 1] <= n[i]
      BY <1>4, <1>6, <3>1, DigitAdded, Zenon
    <3>3. n[i] <= n[last] /\ n[i] \in Int /\ n[last] \in Int
      BY <1>2, <1>3, <1>5, <2>2
    <3>4. n[i - 1] <= n[last]
      BY <3>1, <3>2, <3>3
    <3>5. QED
      BY <1>3, <3>4
  <2> HIDE DEF Good
  <2>3. first - 1 .. last \subseteq Good
    BY <1>1, <2>1, <2>2, Downwards
  <2>4. QED
    BY <2>3 DEF Good
<1>9. QED
  BY <1>7, <1>8

\* A number written in digits is a natural.
LEMMA DecimalIsNat ==
  ASSUME NEW s \in Seq(Nat), NEW first \in 1 .. Len(s), NEW last \in first .. Len(s),
         AllDigits(s, first, last)
  PROVE  Decimal(s, first, last) \in Nat
<1>1. PICK n : Written(n, s, first, last) /\ Decimal(s, first, last) = n[last]
  BY DecimalWritten
<1>2. last \in first - 1 .. last
  OBVIOUS
<1>3. QED
  BY <1>1, <1>2, DecimalGrows

\* The number written does not depend on the bytes around it.
LEMMA DecimalSame ==
  ASSUME NEW s \in Seq(Nat), NEW t \in Seq(Nat), NEW first \in 1 .. Len(s),
         NEW last \in first .. Len(s), last <= Len(t), Same(s, t, first, last)
  PROVE  Decimal(t, first, last) = Decimal(s, first, last)
<1>1. PICK n : Written(n, s, first, last) /\ Decimal(s, first, last) = n[last]
  BY DecimalWritten
<1>2. first \in 1 .. Len(t) /\ last \in first .. Len(t)
  OBVIOUS
<1>3. PICK o : Written(o, t, first, last) /\ Decimal(t, first, last) = o[last]
  BY <1>2, DecimalWritten
<1> DEFINE Good == {i \in first - 1 .. last : n[i] = o[i]}
<1>4. first \in Nat /\ last \in Nat /\ first <= last
  OBVIOUS
<1>5. first - 1 \in Good
  BY <1>1, <1>3 DEF Written
<1>6. ASSUME NEW i \in first .. last, i - 1 \in Good PROVE i \in Good
  <2>1. n[i - 1] = o[i - 1] /\ s[i] = t[i]
    BY <1>6 DEF Same
  <2>2. n[i] = 10 * n[i - 1] + s[i] - 48 /\ o[i] = 10 * o[i - 1] + t[i] - 48
    BY <1>1, <1>3, Zenon DEF Written
  <2>3. n[i] = o[i] /\ i \in first - 1 .. last
    BY <2>1, <2>2
  <2>4. QED
    BY <2>3
<1>7. first - 1 .. last \subseteq Good
  <2> HIDE DEF Good
  <2>1. QED
    BY <1>4, <1>5, <1>6, Upwards
<1>8. last \in first - 1 .. last
  OBVIOUS
<1>9. QED
  BY <1>1, <1>3, <1>7, <1>8

(* The number benr_init_uint (benr.c:19) computes digit by digit in a uintmax_t
   is the one written, whenever that is below UINTMAX. *)
THEOREM UintIsDecimal ==
  ASSUME NEW s \in Seq(Nat), NEW t \in Seq(Nat), NEW first \in 1 .. Len(s),
         NEW last \in first .. Len(s), last <= Len(t), Same(s, t, first, last),
         AllDigits(s, first, last), Decimal(s, first, last) < UINTMAX
  PROVE  UintValue(t, first, last) = Decimal(s, first, last)
<1>1. PICK n : Written(n, s, first, last) /\ Decimal(s, first, last) = n[last]
  BY DecimalWritten
<1>2. first \in 1 .. Len(t) /\ last \in first .. Len(t)
  OBVIOUS
<1>3. PICK v : Held(v, t, first, last) /\ UintValue(t, first, last) = v[last]
  BY <1>2, UintHeld
<1>4. \A i \in first - 1 .. last : n[i] \in Nat /\ n[i] <= n[last]
  BY <1>1, DecimalGrows
<1>5. \A i \in first .. last : i \in first - 1 .. last
  OBVIOUS
<1>6. last \in first - 1 .. last /\ first \in Nat /\ last \in Nat /\ first <= last
  OBVIOUS
<1>7. \A i \in first - 1 .. last : n[i] % UINTMAX = n[i]
  <2>1. \A i \in first - 1 .. last : n[i] \in 0 .. UINTMAX - 1
    BY <1>1, <1>4, <1>6, UintAssumption
  <2>2. QED
    BY <2>1, UintAssumption, SmallRemainder
<1> DEFINE Good == {i \in first - 1 .. last : n[i] = v[i]}
<1>8. first - 1 \in Good
  BY <1>1, <1>3 DEF Written, Held
<1>9. ASSUME NEW i \in first .. last, i - 1 \in Good PROVE i \in Good
  <2>1. n[i - 1] = v[i - 1] /\ s[i] = t[i]
    BY <1>9 DEF Same
  <2>2. n[i] = 10 * n[i - 1] + s[i] - 48 /\ v[i] = (10 * v[i - 1] + t[i] - 48) % UINTMAX
    BY <1>1, <1>3, Zenon DEF Written, Held
  <2>3. v[i] = n[i] % UINTMAX
    BY <2>1, <2>2, Zenon
  <2>4. n[i] = v[i] /\ i \in first - 1 .. last
    BY <1>5, <1>7, <2>3, Zenon
  <2>5. QED
    BY <2>4
<1>10. first - 1 .. last \subseteq Good
  <2> HIDE DEF Good
  <2>1. QED
    BY <1>6, <1>8, <1>9, Upwards
<1>11. QED
  BY <1>1, <1>3, <1>6, <1>10

-----------------------------------------------------------------------------
(* Integers and strings *)

\* the `e' of the integer at p is at q; the colon of the string at p at q
IntegerTo(s, p, q) ==
  q \in p + 1 .. Len(s) /\ s[q] = E /\ AllDigits(s, FirstDigit(s, p), q - 1)

StringTo(s, p, q) ==
  q \in p + 1 .. Len(s) /\ s[q] = COLON /\ AllDigits(s, p, q - 1)

\* t is what s begins with
Begins(t, s) == s \in Seq(Nat) /\ t \in Seq(Nat) /\ Len(t) <= Len(s) /\ Same(s, t, 1, Len(t))

\* bytes are naturals
LEMMA BytesAre ==
  ASSUME NEW s \in Seq(0 .. 255)
  PROVE  s \in Seq(Nat) /\ Len(s) \in Nat
<1>1. 0 .. 255 \subseteq Nat
  OBVIOUS
<1>2. s \in Seq(Nat)
  <2>1. Seq(0 .. 255) \subseteq Seq(Nat)
    BY <1>1, SeqMonotonic, Zenon
  <2>2. QED
    BY <2>1, Zenon
<1>3. Len(s) \in Nat
  BY <1>2
<1>4. QED
  BY <1>2, <1>3

\* Digits end at one place.
LEMMA OneEnd ==
  ASSUME NEW s, NEW f \in Nat, NEW q \in Nat, NEW r \in Nat,
         AllDigits(s, f, q - 1), s[q] \notin Digits,
         AllDigits(s, f, r - 1), s[r] \notin Digits
  PROVE  q = r
<1>1. ~(q < r)
  <2>1. ASSUME q < r PROVE FALSE
    <3>1. q \in f .. r - 1
      BY <2>1 DEF AllDigits
    <3>2. QED
      BY <3>1 DEF AllDigits
  <2>2. QED
    BY <2>1
<1>2. ~(r < q)
  <2>1. ASSUME r < q PROVE FALSE
    <3>1. r \in f .. q - 1
      BY <2>1 DEF AllDigits
    <3>2. QED
      BY <3>1 DEF AllDigits
  <2>2. QED
    BY <2>1
<1>3. QED
  BY <1>1, <1>2

\* the end marker, the colon and the minus are no digits
LEMMA Signs == E \notin Digits /\ COLON \notin Digits /\ MINUS \notin Digits
  BY DEF E, COLON, MINUS, Digits

\* the digits of an integer start behind its minus, if it has one
LEMMA FirstDigitIs ==
  ASSUME NEW s \in Seq(Nat), NEW p \in 1 .. Len(s)
  PROVE  FirstDigit(s, p) \in {p + 1, p + 2}
  BY DEF FirstDigit

\* the end of an integer is the place behind the end marker that follows its digits ...
LEMMA IntEndIs ==
  ASSUME NEW s \in Seq(Nat), NEW p \in 1 .. Len(s), NEW q, IntegerTo(s, p, q)
  PROVE  IntEnd(s, p) = q + 1
<1> DEFINE Ends == {r \in p + 1 .. Len(s) :
                      s[r] = E /\ AllDigits(s, FirstDigit(s, p), r - 1)}
<1>1. \A r : r \in Ends <=> IntegerTo(s, p, r)
  BY DEF IntegerTo
<1>2. IntEnd(s, p) = IF Ends = {} THEN 0 ELSE 1 + CHOOSE r \in Ends : TRUE
  BY Zenon DEF IntEnd
<1> HIDE DEF Ends
<1>3. \A r \in Ends : r = q
  <2>1. FirstDigit(s, p) \in Nat
    BY FirstDigitIs
  <2>2. ASSUME NEW r \in Ends PROVE r = q
    <3>1. IntegerTo(s, p, r)
      BY <1>1
    <3>2. r \in Nat /\ q \in Nat
      BY <3>1 DEF IntegerTo
    <3>3. QED
      BY <2>1, <3>1, <3>2, Signs, OneEnd DEF IntegerTo
  <2>3. QED
    BY <2>2
<1>4. q \in Ends
  BY <1>1
<1>5. (CHOOSE r \in Ends : TRUE) = q
  BY <1>3, <1>4, Zenon
<1>6. IntEnd(s, p) = 1 + q
  BY <1>2, <1>4, <1>5, Zenon
<1>7. q \in Nat
  BY DEF IntegerTo
<1>8. QED
  BY <1>6, <1>7

\* ... and where there is an end there are digits and such a marker
LEMMA IntEndTo ==
  ASSUME NEW s \in Seq(Nat), NEW p \in 1 .. Len(s), IntEnd(s, p) # 0
  PROVE  IntegerTo(s, p, IntEnd(s, p) - 1)
<1> DEFINE Ends == {r \in p + 1 .. Len(s) :
                      s[r] = E /\ AllDigits(s, FirstDigit(s, p), r - 1)}
<1>1. \A r : r \in Ends <=> IntegerTo(s, p, r)
  BY DEF IntegerTo
<1>2. IntEnd(s, p) = IF Ends = {} THEN 0 ELSE 1 + CHOOSE r \in Ends : TRUE
  BY Zenon DEF IntEnd
<1> HIDE DEF Ends
<1>3. PICK q \in Ends : TRUE
  BY <1>2, Zenon
<1>4. IntegerTo(s, p, q) /\ IntEnd(s, p) = q + 1
  BY <1>1, <1>3, IntEndIs, Zenon
<1>5. q \in Nat
  BY <1>4 DEF IntegerTo
<1>6. QED
  BY <1>4, <1>5

\* the end of a string is as far behind the colon as the length before it says ...
LEMMA StringEndIs ==
  ASSUME NEW s \in Seq(Nat), NEW p \in 1 .. Len(s), NEW q, StringTo(s, p, q)
  PROVE  StringEnd(s, p) = IF q + 1 + Decimal(s, p, q - 1) <= Len(s) + 1
                           THEN q + 1 + Decimal(s, p, q - 1) ELSE 0
<1> DEFINE Colons == {c \in p + 1 .. Len(s) : s[c] = COLON /\ AllDigits(s, p, c - 1)}
           Ends == {c + 1 + Decimal(s, p, c - 1) : c \in Colons}
<1>1. \A r : r \in Colons <=> StringTo(s, p, r)
  BY DEF StringTo
<1>2. StringEnd(s, p) = IF \E r \in Ends : r <= Len(s) + 1
                        THEN CHOOSE r \in Ends : TRUE ELSE 0
  BY Zenon DEF StringEnd
<1> HIDE DEF Colons
<1>3. \A r \in Colons : r = q
  <2>1. ASSUME NEW r \in Colons PROVE r = q
    <3>1. StringTo(s, p, r)
      BY <1>1
    <3>2. r \in Nat /\ q \in Nat /\ p \in Nat
      BY <3>1 DEF StringTo
    <3>3. QED
      BY <3>1, <3>2, Signs, OneEnd DEF StringTo
  <2>2. QED
    BY <2>1
<1>4. q \in Colons
  BY <1>1
<1>5. \A e : e \in Ends <=> e = q + 1 + Decimal(s, p, q - 1)
  BY <1>3, <1>4, Zenon
<1> HIDE DEF Ends
<1>6. (CHOOSE r \in Ends : TRUE) = q + 1 + Decimal(s, p, q - 1)
  BY <1>5, Zenon
<1>7. (\E r \in Ends : r <= Len(s) + 1) <=> q + 1 + Decimal(s, p, q - 1) <= Len(s) + 1
  BY <1>5, Zenon
<1>8. QED
  BY <1>2, <1>6, <1>7, Zenon

\* ... and where there is an end there are such a length and colon
LEMMA StringEndTo ==
  ASSUME NEW s \in Seq(Nat), NEW p \in 1 .. Len(s), StringEnd(s, p) # 0
  PROVE  \E q : /\ StringTo(s, p, q)
                /\ StringEnd(s, p) = q + 1 + Decimal(s, p, q - 1)
                /\ StringEnd(s, p) <= Len(s) + 1
<1> DEFINE Colons == {c \in p + 1 .. Len(s) : s[c] = COLON /\ AllDigits(s, p, c - 1)}
           Ends == {c + 1 + Decimal(s, p, c - 1) : c \in Colons}
<1>1. \A r : r \in Colons <=> StringTo(s, p, r)
  BY DEF StringTo
<1>2. StringEnd(s, p) = IF \E r \in Ends : r <= Len(s) + 1
                        THEN CHOOSE r \in Ends : TRUE ELSE 0
  BY Zenon DEF StringEnd
<1>3. PICK r \in Ends : TRUE
  <2> HIDE DEF Ends
  <2>1. QED
    BY <1>2, Zenon
<1>4. PICK q \in Colons : TRUE
  BY <1>3, Zenon
<1> HIDE DEF Colons, Ends
<1>5. StringTo(s, p, q)
  BY <1>1, <1>4
<1>6. StringEnd(s, p) = IF q + 1 + Decimal(s, p, q - 1) <= Len(s) + 1
                        THEN q + 1 + Decimal(s, p, q - 1) ELSE 0
  BY <1>5, StringEndIs, Zenon
<1>7. QED
  BY <1>5, <1>6, Zenon

\* an integer ends in the message, and takes two bytes at least
LEMMA IntEndBounds ==
  ASSUME NEW s \in Seq(Nat), NEW p \in 1 .. Len(s), IntEnd(s, p) # 0
  PROVE  IntEnd(s, p) \in p + 2 .. Len(s) + 1
<1>1. IntEnd(s, p) - 1 \in p + 1 .. Len(s)
  BY IntEndTo DEF IntegerTo
<1>2. PICK q \in p + 1 .. Len(s) : IntegerTo(s, p, q)
  BY <1>1, IntEndTo
<1>3. IntEnd(s, p) = q + 1
  BY <1>2, IntEndIs
<1>4. QED
  BY <1>3

\* Of a string: where its colon is, its length, and where it ends.
LEMMA StringParts ==
  ASSUME NEW s \in Seq(Nat), NEW p \in 1 .. Len(s), StringEnd(s, p) # 0
  PROVE  \E q \in p + 1 .. Len(s) :
           /\ StringTo(s, p, q)
           /\ Decimal(s, p, q - 1) \in Nat
           /\ StringEnd(s, p) = q + 1 + Decimal(s, p, q - 1)
           /\ StringEnd(s, p) \in p + 2 .. Len(s) + 1
<1>1. PICK q : /\ StringTo(s, p, q)
               /\ StringEnd(s, p) = q + 1 + Decimal(s, p, q - 1)
               /\ StringEnd(s, p) <= Len(s) + 1
  BY StringEndTo
<1>2. q \in p + 1 .. Len(s) /\ AllDigits(s, p, q - 1)
  BY <1>1 DEF StringTo
<1>3. q - 1 \in p .. Len(s)
  BY <1>2
<1>4. Decimal(s, p, q - 1) \in Nat
  BY <1>2, <1>3, DecimalIsNat
<1>5. StringEnd(s, p) \in p + 2 .. Len(s) + 1
  <2>1. PICK n : n = Decimal(s, p, q - 1) /\ n \in Nat
    BY <1>4, Zenon
  <2>2. StringEnd(s, p) = q + 1 + n /\ q + 1 + n <= Len(s) + 1
    BY <1>1, <2>1, Zenon
  <2>3. PICK m \in Nat : m = Len(s)
    OBVIOUS
  <2>4. q \in p + 1 .. m /\ p \in 1 .. m /\ q + 1 + n <= m + 1
    BY <1>2, <2>2, <2>3, Zenon
  <2>5. PICK a \in Nat, c \in Nat, l \in Nat : a = p /\ c = q /\ l = n
    <3>1. p \in Nat
      OBVIOUS
    <3>2. q \in Nat
      BY <1>2
    <3>3. QED
      BY <2>1, <3>1, <3>2, Zenon
  <2>6. c + 1 + l \in a + 2 .. m + 1
    <3>1. c \in a + 1 .. m /\ c + 1 + l <= m + 1
      BY <2>4, <2>5, Zenon
    <3>2. QED
      BY <2>3, <2>5, <3>1
  <2>7. QED
    BY <2>2, <2>3, <2>5, <2>6, Zenon
<1>6. QED
  BY <1>1, <1>2, <1>4, <1>5

\* digits of a message are digits of its beginning
LEMMA DigitsBegin ==
  ASSUME NEW s, NEW t, Begins(t, s), NEW f \in Nat \ {0}, NEW l \in Nat,
         l <= Len(t), AllDigits(s, f, l)
  PROVE  AllDigits(t, f, l)
<1>1. \A r \in f .. l : t[r] = s[r]
  <2>1. PICK n \in Nat : n = Len(t)
    BY DEF Begins
  <2>2. \A r \in f .. l : r \in 1 .. n
    BY <2>1
  <2>3. QED
    BY <2>1, <2>2, Zenon DEF Begins, Same
<1>2. QED
  BY <1>1 DEF AllDigits

\* a beginning is no longer than the message
LEMMA BeginsLen ==
  ASSUME NEW s, NEW t, Begins(t, s)
  PROVE  /\ s \in Seq(Nat) /\ t \in Seq(Nat)
         /\ Len(s) \in Nat /\ Len(t) \in Nat /\ Len(t) <= Len(s)
  BY DEF Begins

\* a position of the shorter is one of the longer
LEMMA WithinBoth ==
  ASSUME NEW n \in Nat, NEW m \in Nat, m <= n, NEW p \in 1 .. m
  PROVE  p \in 1 .. n
  OBVIOUS

\* a beginning has the bytes of the message
LEMMA BeginsAt ==
  ASSUME NEW s, NEW t, Begins(t, s), NEW p \in 1 .. Len(t)
  PROVE  t[p] = s[p] /\ p \in 1 .. Len(s)
<1>1. t[p] = s[p]
  BY Zenon DEF Begins, Same
<1>2. p \in 1 .. Len(s)
  BY BeginsLen, WithinBoth
<1>3. QED
  BY <1>1, <1>2

\* an integer that a beginning holds whole is there as it is in the message
LEMMA IntegerToBegins ==
  ASSUME NEW s, NEW t, Begins(t, s), NEW p \in 1 .. Len(t), NEW q \in 1 .. Len(t),
         IntegerTo(s, p, q)
  PROVE  IntegerTo(t, p, q) /\ FirstDigit(t, p) = FirstDigit(s, p)
<1>1. q \in p + 1 .. Len(s) /\ s[q] = E /\ t[q] = E
  BY BeginsAt DEF IntegerTo
<1>2. p < Len(t) /\ p < Len(s) /\ t[p + 1] = s[p + 1]
  <2>1. p + 1 \in 1 .. Len(t) /\ Len(t) \in Nat /\ Len(s) \in Nat /\ Len(t) <= Len(s)
    BY <1>1, BeginsLen
  <2>2. QED
    BY <2>1, BeginsAt
<1>3. FirstDigit(t, p) = FirstDigit(s, p)
  BY <1>2 DEF FirstDigit
<1>4. FirstDigit(s, p) \in Nat \ {0}
  <2>1. p \in 1 .. Len(s) /\ s \in Seq(Nat)
    BY BeginsAt, BeginsLen, Zenon
  <2>2. FirstDigit(s, p) \in {p + 1, p + 2}
    BY <2>1, FirstDigitIs, Zenon
  <2>3. QED
    BY <2>2
<1>5. AllDigits(t, FirstDigit(s, p), q - 1)
  BY <1>1, <1>4, DigitsBegin DEF IntegerTo
<1>6. q \in p + 1 .. Len(t)
  BY <1>1
<1>7. QED
  BY <1>1, <1>3, <1>5, <1>6 DEF IntegerTo

\* so is its end
LEMMA IntEndBegins ==
  ASSUME NEW s, NEW t, Begins(t, s), NEW p \in 1 .. Len(t),
         IntEnd(s, p) # 0, IntEnd(s, p) <= Len(t) + 1
  PROVE  IntEnd(t, p) = IntEnd(s, p)
<1>1. p \in 1 .. Len(s) /\ s \in Seq(Nat) /\ t \in Seq(Nat) /\ Len(t) \in Nat
  BY BeginsAt, BeginsLen, Zenon
<1>2. IntegerTo(s, p, IntEnd(s, p) - 1) /\ IntEnd(s, p) \in p + 2 .. Len(s) + 1
  BY <1>1, IntEndTo, IntEndBounds
<1>3. PICK q \in Nat : q = IntEnd(s, p) - 1 /\ IntEnd(s, p) = q + 1
  BY <1>2
<1>4. q \in 1 .. Len(t)
  <2>1. q + 1 \in p + 2 .. Len(s) + 1 /\ q + 1 <= Len(t) + 1
    BY <1>2, <1>3, Zenon
  <2>2. QED
    BY <1>1, <2>1
<1>5. IntegerTo(t, p, q)
  BY <1>2, <1>3, <1>4, IntegerToBegins
<1>6. QED
  BY <1>1, <1>3, <1>5, IntEndIs

\* a length and colon that a beginning holds are there as they are in the message
LEMMA StringToBegins ==
  ASSUME NEW s, NEW t, Begins(t, s), NEW p \in 1 .. Len(t), NEW q \in 1 .. Len(t),
         StringTo(s, p, q)
  PROVE  StringTo(t, p, q) /\ Decimal(t, p, q - 1) = Decimal(s, p, q - 1)
<1>1. q \in p + 1 .. Len(s) /\ s[q] = COLON /\ t[q] = COLON
  BY BeginsAt DEF StringTo
<1>2. AllDigits(t, p, q - 1)
  BY <1>1, DigitsBegin DEF StringTo
<1>3. q \in p + 1 .. Len(t)
  BY <1>1
<1>4. /\ s \in Seq(Nat) /\ t \in Seq(Nat) /\ p \in 1 .. Len(s)
      /\ q - 1 \in p .. Len(s) /\ q - 1 <= Len(t)
  <2>1. s \in Seq(Nat) /\ t \in Seq(Nat) /\ p \in 1 .. Len(s) /\ Len(t) \in Nat
    BY BeginsAt, BeginsLen, Zenon
  <2>2. PICK n \in Nat, m \in Nat : n = Len(t) /\ m = Len(s)
    BY BeginsLen
  <2>3. q \in p + 1 .. n /\ q \in p + 1 .. m /\ p \in 1 .. m
    BY <1>1, <1>3, <2>1, <2>2, Zenon
  <2>4. q - 1 \in p .. m /\ q - 1 <= n
    BY <2>2, <2>3
  <2>5. QED
    BY <2>1, <2>2, <2>4, Zenon
<1>5. Same(s, t, p, q - 1)
  <2>1. \A i \in p .. q - 1 : i \in 1 .. Len(t)
    BY <1>3
  <2>2. QED
    BY <2>1, BeginsAt, Zenon DEF Same
<1>6. Decimal(t, p, q - 1) = Decimal(s, p, q - 1)
  BY <1>4, <1>5, DecimalSame
<1>7. QED
  BY <1>1, <1>2, <1>3, <1>6 DEF StringTo

\* so is the end of a string that it holds whole
LEMMA StringEndBegins ==
  ASSUME NEW s, NEW t, Begins(t, s), NEW p \in 1 .. Len(t),
         StringEnd(s, p) # 0, StringEnd(s, p) <= Len(t) + 1
  PROVE  StringEnd(t, p) = StringEnd(s, p)
<1>1. p \in 1 .. Len(s) /\ s \in Seq(Nat) /\ t \in Seq(Nat) /\ Len(t) \in Nat
  BY BeginsAt, BeginsLen, Zenon
<1>2. PICK q \in p + 1 .. Len(s) : /\ StringTo(s, p, q)
                                   /\ Decimal(s, p, q - 1) \in Nat
                                   /\ StringEnd(s, p) = q + 1 + Decimal(s, p, q - 1)
  BY <1>1, StringParts
<1>3. q \in 1 .. Len(t)
  <2>1. PICK n : n = Decimal(s, p, q - 1) /\ n \in Nat /\ q + 1 + n <= Len(t) + 1
    BY <1>2, Zenon
  <2>2. QED
    BY <1>1, <2>1
<1>4. StringTo(t, p, q) /\ Decimal(t, p, q - 1) = Decimal(s, p, q - 1)
  BY <1>2, <1>3, StringToBegins
<1>5. QED
  BY <1>1, <1>2, <1>4, StringEndIs

-----------------------------------------------------------------------------
(* The grammar: its recursion has a function, with the bounds one expects *)

Whats == {"value", "items", "pairs"}
Places(s) == (1 .. Len(s) + 1) \X Whats

\* g at p and what, from g elsewhere; on(q, what) is how it goes on at q
PastEnd(q) == IF q = 0 THEN 0 ELSE q + 1

ValueStep(s, g, p) ==
  CASE s[p] = I -> IntEnd(s, p)
    [] s[p] = L -> PastEnd(g[<<p + 1, "items">>])
    [] s[p] = D -> PastEnd(g[<<p + 1, "pairs">>])
    [] s[p] \in Digits -> StringEnd(s, p)
    [] OTHER -> 0

Goes(g, q, what) == IF q = 0 THEN 0 ELSE g[<<q, what>>]

\* the same, but only onward
GoesOn(s, g, p, q, what) ==
  IF q \in p + 1 .. Len(s) + 1 THEN g[<<q, what>>] ELSE 0

GrammarStep(s, g, p, what) ==
  IF p > Len(s) THEN 0
  ELSE IF what = "value" THEN ValueStep(s, g, p)
  ELSE IF s[p] = E THEN p
  ELSE IF what = "items" THEN Goes(g, g[<<p, "value">>], "items")
  ELSE IF s[p] \notin Digits THEN 0
  ELSE Goes(g, Goes(g, StringEnd(s, p), "value"), "pairs")

OnwardStep(s, g, p, what) ==
  IF p > Len(s) THEN 0
  ELSE IF what = "value" THEN ValueStep(s, g, p)
  ELSE IF s[p] = E THEN p
  ELSE IF what = "items" THEN GoesOn(s, g, p, g[<<p, "value">>], "items")
  ELSE IF s[p] \notin Digits THEN 0
  ELSE GoesOn(s, g, p, GoesOn(s, g, p, StringEnd(s, p), "value"), "pairs")

\* q may be the value of g at p and what; n is the number of bytes
MayEnd(n, p, what, q) ==
  q = 0 \/ q \in IF what = "value" THEN p + 1 .. n + 1 ELSE p .. n

\* the step at p and what looks at g at q and w
LooksAt(n, p, what, q, w) ==
  \/ q \in p + 1 .. n + 1
  \/ q = p /\ what # "value" /\ w = "value"

\* the bytes that tell values apart are five different ones
LEMMA FiveSigns ==
  /\ I # L /\ I # D /\ L # D /\ I \notin Digits /\ L \notin Digits /\ D \notin Digits
  /\ E # I /\ E # L /\ E # D /\ E \notin Digits
  BY DEF I, L, D, E, Digits

\* a value of any kind ends behind its first byte
LEMMA ValueStepMayEnd ==
  ASSUME NEW s \in Seq(Nat), NEW g, NEW p \in 1 .. Len(s),
         \A w \in Whats : MayEnd(Len(s), p + 1, w, g[<<p + 1, w>>])
  PROVE  MayEnd(Len(s), p, "value", ValueStep(s, g, p))
<1>1. MayEnd(Len(s), p, "value", IntEnd(s, p))
  <2>1. CASE IntEnd(s, p) # 0
    <3>1. IntEnd(s, p) \in p + 2 .. Len(s) + 1
      BY <2>1, IntEndBounds
    <3>2. IntEnd(s, p) \in p + 1 .. Len(s) + 1
      BY <3>1
    <3>3. QED
      BY <3>2 DEF MayEnd
  <2>2. QED
    BY <2>1 DEF MayEnd
<1>2. MayEnd(Len(s), p, "value", StringEnd(s, p))
  <2>1. CASE StringEnd(s, p) # 0
    <3>1. StringEnd(s, p) \in p + 2 .. Len(s) + 1
      BY <2>1, StringParts
    <3>2. StringEnd(s, p) \in p + 1 .. Len(s) + 1
      BY <3>1
    <3>3. QED
      BY <3>2 DEF MayEnd
  <2>2. QED
    BY <2>1 DEF MayEnd
<1>3. ASSUME NEW w \in {"items", "pairs"}
      PROVE  MayEnd(Len(s), p, "value", PastEnd(g[<<p + 1, w>>]))
  <2>1. PICK q : q = g[<<p + 1, w>>]
    OBVIOUS
  <2>2. q = 0 \/ q \in p + 1 .. Len(s)
    BY <2>1 DEF MayEnd, Whats
  <2>3. PastEnd(q) = 0 \/ PastEnd(q) \in p + 1 .. Len(s) + 1
    BY <2>2 DEF PastEnd
  <2>4. QED
    BY <2>1, <2>3 DEF MayEnd
<1>4. MayEnd(Len(s), p, "value", 0)
  BY DEF MayEnd
<1>5. QED
  BY <1>1, <1>2, <1>3, <1>4, Zenon DEF ValueStep

\* A step that looks at values in their bounds goes onward, and stays in bounds.
LEMMA StepMayEnd ==
  ASSUME NEW s \in Seq(Nat), NEW g, NEW p \in 1 .. Len(s) + 1, NEW what \in Whats,
         \A q \in 1 .. Len(s) + 1 : \A w \in Whats :
           LooksAt(Len(s), p, what, q, w) => MayEnd(Len(s), q, w, g[<<q, w>>])
  PROVE  /\ GrammarStep(s, g, p, what) = OnwardStep(s, g, p, what)
         /\ MayEnd(Len(s), p, what, GrammarStep(s, g, p, what))
<1>1. PICK n \in Nat : n = Len(s)
  OBVIOUS
<1>2. CASE p > n
  BY <1>1, <1>2, Zenon DEF GrammarStep, OnwardStep, MayEnd
<1>3. CASE ~(p > n)
  <2>1. p \in 1 .. n /\ p \in 1 .. n + 1
    BY <1>1, <1>3
  <2>2. \A q \in p + 1 .. n + 1 : \A w \in Whats : MayEnd(n, q, w, g[<<q, w>>])
    <3>1. \A q \in p + 1 .. n + 1 : q \in 1 .. n + 1
      BY <2>1
    <3>2. QED
      BY <1>1, <3>1, Zenon DEF LooksAt
  <2>3. CASE what = "value"
    <3>1. p + 1 \in p + 1 .. n + 1
      BY <2>1
    <3>2. MayEnd(n, p, "value", ValueStep(s, g, p))
      BY <1>1, <2>1, <2>2, <3>1, ValueStepMayEnd
    <3>3. QED
      BY <1>1, <1>3, <2>3, <3>2, Zenon DEF GrammarStep, OnwardStep
  <2>4. CASE what # "value" /\ s[p] = E
    <3>1. MayEnd(n, p, what, p)
      BY <2>1, <2>4 DEF MayEnd
    <3>2. QED
      BY <1>1, <1>3, <2>4, <3>1, Zenon DEF GrammarStep, OnwardStep
  <2>5. ASSUME what # "value", NEW w \in Whats, NEW q, MayEnd(n, p, "value", q)
        PROVE  /\ Goes(g, q, w) = GoesOn(s, g, p, q, w)
               /\ w # "value" => MayEnd(n, p, what, Goes(g, q, w))
               /\ w = "value" => MayEnd(n, p, "value", Goes(g, q, w))
    <3>1. CASE q = 0
      <4>1. q \notin p + 1 .. n + 1
        BY <2>1, <3>1
      <4>2. MayEnd(n, p, what, 0) /\ MayEnd(n, p, "value", 0)
        BY DEF MayEnd
      <4>3. QED
        BY <1>1, <3>1, <4>1, <4>2, Zenon DEF Goes, GoesOn
    <3>2. CASE q # 0
      <4>1. q \in p + 1 .. n + 1
        BY <2>5, <3>2 DEF MayEnd
      <4>2. PICK r : r = g[<<q, w>>]
        OBVIOUS
      <4>3. MayEnd(n, q, w, r)
        BY <2>2, <4>1, <4>2
      <4>4. w # "value" => MayEnd(n, p, what, r)
        BY <2>1, <2>5, <4>1, <4>3 DEF MayEnd
      <4>5. w = "value" => MayEnd(n, p, "value", r)
        BY <2>1, <4>1, <4>3 DEF MayEnd
      <4>6. QED
        BY <1>1, <3>2, <4>1, <4>2, <4>4, <4>5, Zenon DEF Goes, GoesOn
    <3>3. QED
      BY <3>1, <3>2
  <2>6. CASE what = "items" /\ s[p] # E
    <3>1. MayEnd(n, p, "value", g[<<p, "value">>])
      BY <1>1, <2>1, <2>6 DEF LooksAt, Whats
    <3>2. "items" \in Whats /\ "items" # "value"
      BY DEF Whats
    <3>3. QED
      BY <1>1, <1>3, <2>5, <2>6, <3>1, <3>2, Zenon DEF GrammarStep, OnwardStep
  <2>7. CASE what = "pairs" /\ s[p] # E
    <3>1. MayEnd(n, p, "value", 0) /\ MayEnd(n, p, "pairs", 0)
      BY DEF MayEnd
    <3>2. MayEnd(n, p, "value", StringEnd(s, p))
      <4>1. CASE StringEnd(s, p) # 0
        <5>1. StringEnd(s, p) \in p + 2 .. n + 1
          BY <1>1, <2>1, <4>1, StringParts
        <5>2. StringEnd(s, p) \in p + 1 .. n + 1
          BY <2>1, <5>1
        <5>3. QED
          BY <5>2 DEF MayEnd
      <4>2. QED
        BY <4>1 DEF MayEnd
    <3>3. "pairs" \in Whats /\ "pairs" # "value" /\ "value" \in Whats /\ "pairs" # "items"
      BY DEF Whats
    <3>4. PICK q : q = Goes(g, StringEnd(s, p), "value")
      OBVIOUS
    <3>5. q = GoesOn(s, g, p, StringEnd(s, p), "value") /\ MayEnd(n, p, "value", q)
      BY <2>5, <2>7, <3>2, <3>3, <3>4, Zenon
    <3>6. Goes(g, q, "pairs") = GoesOn(s, g, p, q, "pairs") /\ MayEnd(n, p, what, Goes(g, q, "pairs"))
      BY <2>5, <2>7, <3>3, <3>5, Zenon
    <3>7. QED
      BY <1>1, <1>3, <2>7, <3>1, <3>3, <3>4, <3>5, <3>6, Zenon DEF GrammarStep, OnwardStep
  <2>8. QED
    BY <2>3, <2>4, <2>6, <2>7, Zenon DEF Whats
<1>4. QED
  BY <1>2, <1>3

\* a step looks at the function only at places it may look at
LEMMA OnwardAgrees ==
  ASSUME NEW s \in Seq(Nat), NEW g, NEW h, NEW p \in 1 .. Len(s) + 1, NEW what \in Whats,
         \A q \in 1 .. Len(s) + 1 : \A w \in Whats :
           LooksAt(Len(s), p, what, q, w) => g[<<q, w>>] = h[<<q, w>>]
  PROVE  OnwardStep(s, g, p, what) = OnwardStep(s, h, p, what)
<1>1. PICK n \in Nat : n = Len(s)
  OBVIOUS
<1>2. CASE p > n
  BY <1>1, <1>2, Zenon DEF OnwardStep
<1>3. CASE ~(p > n)
  <2>1. p \in 1 .. n + 1 /\ p + 1 \in p + 1 .. n + 1
    BY <1>1, <1>3
  <2>2. \A q \in p + 1 .. n + 1 : \A w \in Whats : g[<<q, w>>] = h[<<q, w>>]
    <3>1. \A q \in p + 1 .. n + 1 : q \in 1 .. n + 1
      BY <2>1
    <3>2. QED
      BY <1>1, <3>1, Zenon DEF LooksAt
  <2>3. "value" \in Whats /\ "items" \in Whats /\ "pairs" \in Whats
    BY DEF Whats
  <2>4. ValueStep(s, g, p) = ValueStep(s, h, p)
    <3>1. g[<<p + 1, "items">>] = h[<<p + 1, "items">>]
      BY <2>1, <2>2, <2>3, Zenon
    <3>2. g[<<p + 1, "pairs">>] = h[<<p + 1, "pairs">>]
      BY <2>1, <2>2, <2>3, Zenon
    <3>3. QED
      BY <3>1, <3>2, Zenon DEF ValueStep
  <2>5. \A q : \A w \in Whats : GoesOn(s, g, p, q, w) = GoesOn(s, h, p, q, w)
    BY <1>1, <2>2, Zenon DEF GoesOn
  <2>6. what # "value" => g[<<p, "value">>] = h[<<p, "value">>]
    BY <1>1, <2>1, <2>3, Zenon DEF LooksAt
  <2>7. CASE what = "value"
    BY <2>4, <2>7, Zenon DEF OnwardStep
  <2>8. CASE what # "value"
    BY <2>3, <2>5, <2>6, <2>8, Zenon DEF OnwardStep
  <2>9. QED
    BY <2>7, <2>8
<1>4. QED
  BY <1>2, <1>3

\* a step of integers is an integer
LEMMA OnwardTyped ==
  ASSUME NEW s \in Seq(Nat), NEW g, NEW p \in 1 .. Len(s) + 1, NEW what \in Whats,
         \A q \in 1 .. Len(s) + 1 : \A w \in Whats : g[<<q, w>>] \in Int
  PROVE  OnwardStep(s, g, p, what) \in Int
<1>1. PICK n \in Nat : n = Len(s)
  OBVIOUS
<1>2. CASE p > n
  BY <1>1, <1>2 DEF OnwardStep
<1>3. CASE ~(p > n)
  <2>1. p \in 1 .. n /\ p \in 1 .. n + 1 /\ p + 1 \in 1 .. n + 1 /\ p \in Int /\ 0 \in Int
    BY <1>1, <1>3
  <2>2. "value" \in Whats /\ "items" \in Whats /\ "pairs" \in Whats
    BY DEF Whats
  <2>3. \A q \in Int : PastEnd(q) \in Int
    BY DEF PastEnd
  <2>4. IntEnd(s, p) \in Int /\ StringEnd(s, p) \in Int
    <3>1. IntEnd(s, p) = 0 \/ IntEnd(s, p) \in p + 2 .. Len(s) + 1
      BY <1>1, <2>1, IntEndBounds
    <3>2. StringEnd(s, p) = 0 \/ StringEnd(s, p) \in p + 2 .. Len(s) + 1
      BY <1>1, <2>1, StringParts
    <3>3. QED
      BY <1>1, <2>1, <3>1, <3>2
  <2>5. ValueStep(s, g, p) \in Int
    <3>1. g[<<p + 1, "items">>] \in Int
      BY <1>1, <2>1, <2>2, Zenon
    <3>2. g[<<p + 1, "pairs">>] \in Int
      BY <1>1, <2>1, <2>2, Zenon
    <3>3. QED
      BY <2>1, <2>3, <2>4, <3>1, <3>2, Zenon DEF ValueStep
  <2>6. \A q : \A w \in Whats : GoesOn(s, g, p, q, w) \in Int
    <3>1. \A q \in p + 1 .. n + 1 : q \in 1 .. n + 1
      BY <2>1
    <3>2. QED
      BY <1>1, <2>1, <3>1, Zenon DEF GoesOn
  <2>7. QED
    BY <2>1, <2>2, <2>5, <2>6, Zenon DEF OnwardStep
<1>4. QED
  BY <1>2, <1>3

\* the order in which the places can be computed
Rank(s) == [x \in Places(s) |-> 2 * (Len(s) + 1 - x[1]) + IF x[2] = "value" THEN 0 ELSE 1]

\* the rank of a place: further on first, then values before elements
LEMMA RankIs ==
  ASSUME NEW s \in Seq(Nat), NEW p \in 1 .. Len(s) + 1, NEW what \in Whats
  PROVE  /\ <<p, what>> \in Places(s)
         /\ Rank(s)[<<p, what>>] \in Nat
         /\ Rank(s)[<<p, what>>]
              = 2 * (Len(s) + 1 - p) + IF what = "value" THEN 0 ELSE 1
<1>1. <<p, what>> \in Places(s)
  BY DEF Places
<1>2. Rank(s)[<<p, what>>] = 2 * (Len(s) + 1 - p) + IF what = "value" THEN 0 ELSE 1
  BY <1>1 DEF Rank
<1>3. 2 * (Len(s) + 1 - p) + (IF what = "value" THEN 0 ELSE 1) \in Nat
  OBVIOUS
<1>4. QED
  BY <1>1, <1>2, <1>3

\* ranks are naturals
LEMMA RankTyped ==
  ASSUME NEW s \in Seq(Nat)
  PROVE  Rank(s) \in [Places(s) -> Nat]
<1>1. \A x \in Places(s) : x[1] \in 1 .. Len(s) + 1 /\ x[2] \in Whats /\ x = <<x[1], x[2]>>
  BY DEF Places
<1>2. \A x \in Places(s) : Rank(s)[x] \in Nat
  BY <1>1, RankIs
<1>3. Rank(s) = [x \in Places(s) |-> Rank(s)[x]]
  BY Zenon DEF Rank
<1>4. QED
  BY <1>2, <1>3

\* a step looks only at places of lower rank
LEMMA LooksBelow ==
  ASSUME NEW s \in Seq(Nat), NEW p \in 1 .. Len(s) + 1, NEW what \in Whats,
         NEW q \in 1 .. Len(s) + 1, NEW w \in Whats, LooksAt(Len(s), p, what, q, w)
  PROVE  <<q, w>> \in Places(s) /\ Rank(s)[<<q, w>>] < Rank(s)[<<p, what>>]
<1>1. /\ <<q, w>> \in Places(s)
      /\ Rank(s)[<<q, w>>] = 2 * (Len(s) + 1 - q) + IF w = "value" THEN 0 ELSE 1
      /\ Rank(s)[<<p, what>>] = 2 * (Len(s) + 1 - p) + IF what = "value" THEN 0 ELSE 1
  BY RankIs
<1>2. 2 * (Len(s) + 1 - q) + (IF w = "value" THEN 0 ELSE 1)
        < 2 * (Len(s) + 1 - p) + (IF what = "value" THEN 0 ELSE 1)
  BY DEF LooksAt
<1>3. QED
  BY <1>1, <1>2

\* There is a function that takes the onward step at every place.
LEMMA OnwardExists ==
  ASSUME NEW s \in Seq(Nat)
  PROVE  \E g \in [Places(s) -> Int] :
           \A p \in 1 .. Len(s) + 1 : \A what \in Whats :
             g[<<p, what>>] = OnwardStep(s, g, p, what)
<1> DEFINE V == Int
           S == Places(s)
           F == [x \in S |-> [g \in [S -> V] |-> OnwardStep(s, g, x[1], x[2])]]
<1>1. \A x \in S : x[1] \in 1 .. Len(s) + 1 /\ x[2] \in Whats /\ x = <<x[1], x[2]>>
  BY DEF Places
<1>2. \A p \in 1 .. Len(s) + 1 : \A what \in Whats : <<p, what>> \in S
  BY DEF Places
<1>3. ASSUME NEW g \in [S -> V], NEW x \in S PROVE OnwardStep(s, g, x[1], x[2]) \in V
  <2>1. \A q \in 1 .. Len(s) + 1 : \A w \in Whats : g[<<q, w>>] \in Int
    BY <1>2
  <2>2. QED
    BY <1>1, <2>1, OnwardTyped
<1>4. ASSUME NEW x \in S, NEW g \in [S -> V], NEW h \in [S -> V],
             \A y \in S : Rank(s)[y] < Rank(s)[x] => g[y] = h[y]
      PROVE  OnwardStep(s, g, x[1], x[2]) = OnwardStep(s, h, x[1], x[2])
  <2>1. ASSUME NEW q \in 1 .. Len(s) + 1, NEW w \in Whats, LooksAt(Len(s), x[1], x[2], q, w)
        PROVE  g[<<q, w>>] = h[<<q, w>>]
    BY <1>1, <1>4, <2>1, LooksBelow, Zenon
  <2>2. \E p \in 1 .. Len(s) + 1 : \E what \in Whats : p = x[1] /\ what = x[2]
    BY <1>1, Zenon
  <2>3. PICK p \in 1 .. Len(s) + 1, what \in Whats : p = x[1] /\ what = x[2]
    BY <2>2, Zenon
  <2>4. \A q \in 1 .. Len(s) + 1 : \A w \in Whats :
          LooksAt(Len(s), p, what, q, w) => g[<<q, w>>] = h[<<q, w>>]
    BY <2>1, <2>3, Zenon
  <2> HIDE DEF S, V
  <2>5. OnwardStep(s, g, p, what) = OnwardStep(s, h, p, what)
    BY <2>4, OnwardAgrees
  <2>6. QED
    BY <2>3, <2>5, Zenon
<1>5. V # {} /\ Rank(s) \in [S -> Nat]
  BY RankTyped
<1> HIDE DEF V, S
<1>6. F \in [S -> [[S -> V] -> V]]
  BY <1>3
<1>7. \A x \in S : \A g \in [S -> V] : F[x][g] = OnwardStep(s, g, x[1], x[2])
  OBVIOUS
<1> HIDE DEF F
<1>8. ASSUME NEW x \in S, NEW g \in [S -> V], NEW h \in [S -> V],
             \A y \in S : Rank(s)[y] < Rank(s)[x] => g[y] = h[y]
      PROVE  F[x][g] = F[x][h]
  <2>1. OnwardStep(s, g, x[1], x[2]) = OnwardStep(s, h, x[1], x[2])
    BY <1>4, <1>8, Zenon
  <2>2. QED
    BY <1>7, <2>1, Zenon
<1>9. Recursion(F, Rank(s), S, V)
  BY <1>5, <1>6, <1>8, Zenon DEF Recursion
<1>10. PICK g \in [S -> V] : \A x \in S : g[x] = F[x][g]
  BY <1>5, <1>9, RecursionHasFunction
<1>11. ASSUME NEW p \in 1 .. Len(s) + 1, NEW what \in Whats
       PROVE  g[<<p, what>>] = OnwardStep(s, g, p, what)
  <2>1. <<p, what>> \in S
    BY <1>2
  <2>2. g[<<p, what>>] = OnwardStep(s, g, <<p, what>>[1], <<p, what>>[2])
    BY <1>7, <1>10, <2>1, Zenon
  <2>3. <<p, what>>[1] = p /\ <<p, what>>[2] = what
    OBVIOUS
  <2>4. QED
    BY <2>2, <2>3, Zenon
<1>12. QED
  BY <1>10, <1>11, Zenon DEF V, S

\* A function that takes either step at every place keeps to the bounds.
LEMMA StepsMayEnd ==
  ASSUME NEW s \in Seq(Nat), NEW g,
         \A p \in 1 .. Len(s) + 1 : \A what \in Whats :
           g[<<p, what>>] \in {GrammarStep(s, g, p, what), OnwardStep(s, g, p, what)}
  PROVE  \A p \in 1 .. Len(s) + 1 : \A what \in Whats :
           /\ MayEnd(Len(s), p, what, g[<<p, what>>])
           /\ g[<<p, what>>] = GrammarStep(s, g, p, what)
<1> DEFINE S == Places(s)
           Bad == {x \in S : ~MayEnd(Len(s), x[1], x[2], g[x])}
<1>1. \A x \in S : \E p \in 1 .. Len(s) + 1 : \E what \in Whats : x = <<p, what>>
  BY DEF Places
<1>2. \A p \in 1 .. Len(s) + 1 : \A what \in Whats :
        <<p, what>> \in S /\ <<p, what>>[1] = p /\ <<p, what>>[2] = what
  BY DEF Places
<1>3. ASSUME NEW p \in 1 .. Len(s) + 1, NEW what \in Whats,
             \A q \in 1 .. Len(s) + 1 : \A w \in Whats :
               LooksAt(Len(s), p, what, q, w) => MayEnd(Len(s), q, w, g[<<q, w>>])
      PROVE  /\ MayEnd(Len(s), p, what, g[<<p, what>>])
             /\ g[<<p, what>>] = GrammarStep(s, g, p, what)
  <2>1. /\ GrammarStep(s, g, p, what) = OnwardStep(s, g, p, what)
        /\ MayEnd(Len(s), p, what, GrammarStep(s, g, p, what))
    BY <1>3, StepMayEnd
  <2>2. g[<<p, what>>] = GrammarStep(s, g, p, what)
    BY <2>1, Zenon
  <2>3. QED
    BY <2>1, <2>2, Zenon
<1> HIDE DEF S
<1>4. \A p \in 1 .. Len(s) + 1 : \A what \in Whats :
        <<p, what>> \in Bad <=> ~MayEnd(Len(s), p, what, g[<<p, what>>])
  BY <1>2, Zenon
<1>5. ASSUME NEW x \in Bad PROVE \E y \in Bad : Rank(s)[y] < Rank(s)[x]
  <2>1. PICK p \in 1 .. Len(s) + 1, what \in Whats : x = <<p, what>>
    BY <1>1, Zenon
  <2> HIDE DEF Bad
  <2>2. ~MayEnd(Len(s), p, what, g[<<p, what>>])
    BY <1>4, <1>5, <2>1, Zenon
  <2>3. PICK q \in 1 .. Len(s) + 1, w \in Whats :
          LooksAt(Len(s), p, what, q, w) /\ ~MayEnd(Len(s), q, w, g[<<q, w>>])
    BY <1>3, <2>2, Zenon
  <2>4. <<q, w>> \in Bad
    BY <1>4, <2>3, Zenon
  <2>5. Rank(s)[<<q, w>>] < Rank(s)[x]
    BY <2>1, <2>3, LooksBelow
  <2>6. QED
    BY <2>4, <2>5, Zenon
<1>6. Bad = {}
  <2>1. Bad \subseteq S /\ Rank(s) \in [S -> Nat]
    BY RankTyped DEF S
  <2> HIDE DEF Bad
  <2>2. QED
    BY <1>5, <2>1, NoDescent, Zenon
<1> HIDE DEF Bad
<1>7. \A p \in 1 .. Len(s) + 1 : \A what \in Whats : MayEnd(Len(s), p, what, g[<<p, what>>])
  BY <1>4, <1>6, Zenon
<1>8. QED
  BY <1>3, <1>7, Zenon

(* The recursive function by which Bencode defines the grammar exists: at every
   place of every message it satisfies its own equations, and what it gives is
   0 or an end further on in the message. *)
THEOREM GrammarIs ==
  ASSUME NEW s \in Seq(Nat), NEW p \in 1 .. Len(s) + 1, NEW what \in Whats
  PROVE  /\ Grammar(s)[<<p, what>>] = GrammarStep(s, Grammar(s), p, what)
         /\ MayEnd(Len(s), p, what, Grammar(s)[<<p, what>>])
<1> DEFINE Body(g, x) ==
        LET o == x[1]
            Closed(rest) == LET q == g[o + 1, rest] IN IF q = 0 THEN 0 ELSE q + 1
            Then(q, w) == IF q = 0 THEN 0 ELSE g[q, w]
        IN CASE o > Len(s) -> 0
             [] x[2] = "value" /\ o <= Len(s) ->
                  (CASE s[o] = I -> IntEnd(s, o)
                     [] s[o] = L -> Closed("items")
                     [] s[o] = D -> Closed("pairs")
                     [] s[o] \in Digits -> StringEnd(s, o)
                     [] OTHER -> 0)
             [] x[2] # "value" /\ o <= Len(s) ->
                  IF s[o] = E THEN o
                  ELSE IF x[2] = "items" THEN Then(g[o, "value"], "items")
                  ELSE IF s[o] \notin Digits THEN 0
                  ELSE Then(Then(StringEnd(s, o), "value"), "pairs")
           S == (1 .. Len(s) + 1) \X {"value", "items", "pairs"}
           chosen == CHOOSE g : g = [x \in S |-> Body(g, x)]
<1>1. Grammar(s) = chosen
  BY Zenon DEF Grammar
<1>2. ASSUME NEW g, NEW o \in 1 .. Len(s) + 1, NEW w \in Whats
      PROVE  Body(g, <<o, w>>) = GrammarStep(s, g, o, w)
  <2>1. <<o, w>>[1] = o /\ <<o, w>>[2] = w
    OBVIOUS
  <2>2. (o > Len(s)) <=> ~(o <= Len(s))
    OBVIOUS
  <2>3. CASE o > Len(s)
    BY <2>1, <2>2, <2>3, Zenon DEF GrammarStep
  <2>4. CASE ~(o > Len(s)) /\ w = "value"
    <3>1. GrammarStep(s, g, o, w) = ValueStep(s, g, o)
      BY <2>4, Zenon DEF GrammarStep
    <3>2. CASE s[o] = I
      BY <2>1, <2>2, <2>4, <3>1, <3>2, FiveSigns, Zenon DEF ValueStep
    <3>3. CASE s[o] = L
      BY <2>1, <2>2, <2>4, <3>1, <3>3, FiveSigns, Zenon DEF ValueStep, PastEnd
    <3>4. CASE s[o] = D
      BY <2>1, <2>2, <2>4, <3>1, <3>4, FiveSigns, Zenon DEF ValueStep, PastEnd
    <3>5. CASE s[o] \in Digits
      BY <2>1, <2>2, <2>4, <3>1, <3>5, FiveSigns, Zenon DEF ValueStep
    <3>6. CASE s[o] \notin {I, L, D} \cup Digits
      BY <2>1, <2>2, <2>4, <3>1, <3>6, Zenon DEF ValueStep
    <3>7. QED
      BY <3>2, <3>3, <3>4, <3>5, <3>6, Zenon
  <2>5. CASE ~(o > Len(s)) /\ w # "value"
    BY <2>1, <2>2, <2>5, Zenon DEF GrammarStep, Goes
  <2>6. QED
    BY <2>3, <2>4, <2>5
<1> HIDE DEF Body
<1>3. PICK f \in [Places(s) -> Int] :
        \A o \in 1 .. Len(s) + 1 : \A w \in Whats : f[<<o, w>>] = OnwardStep(s, f, o, w)
  BY OnwardExists
<1>4. \A o \in 1 .. Len(s) + 1 : \A w \in Whats : f[<<o, w>>] = GrammarStep(s, f, o, w)
  BY <1>3, StepsMayEnd
<1>5. \A x \in S : \E o \in 1 .. Len(s) + 1 : \E w \in Whats : x = <<o, w>>
  BY DEF Whats
<1>6. S = Places(s) /\ \A o \in 1 .. Len(s) + 1 : \A w \in Whats : <<o, w>> \in S
  BY DEF Places, Whats
<1> HIDE DEF S
<1>7. f = [x \in S |-> Body(f, x)]
  <2>1. \A x \in S : f[x] = Body(f, x)
    <3>1. ASSUME NEW o \in 1 .. Len(s) + 1, NEW w \in Whats
          PROVE  f[<<o, w>>] = Body(f, <<o, w>>)
      <4>1. Body(f, <<o, w>>) = GrammarStep(s, f, o, w)
        BY <1>2, Zenon
      <4>2. f[<<o, w>>] = GrammarStep(s, f, o, w)
        BY <1>4, Zenon
      <4>3. QED
        BY <4>1, <4>2, Zenon
    <3>2. TAKE x \in S
    <3>3. PICK o \in 1 .. Len(s) + 1, w \in Whats : x = <<o, w>>
      BY <1>5, Zenon
    <3>4. QED
      BY <3>1, <3>3, Zenon
  <2>2. f = [x \in S |-> f[x]]
    BY <1>3, <1>6
  <2>3. QED
    BY <2>1, <2>2, Zenon
<1>8. chosen = [x \in S |-> Body(chosen, x)]
  BY <1>7, Zenon
<1> HIDE DEF chosen
<1>9. \A o \in 1 .. Len(s) + 1 : \A w \in Whats :
        chosen[<<o, w>>] = GrammarStep(s, chosen, o, w)
  <2>1. \A o \in 1 .. Len(s) + 1 : \A w \in Whats :
          chosen[<<o, w>>] = Body(chosen, <<o, w>>)
    BY <1>6, <1>8, Zenon
  <2>2. QED
    BY <1>2, <2>1, Zenon
<1>10. QED
  <2>1. \A o \in 1 .. Len(s) + 1 : \A w \in Whats :
          /\ MayEnd(Len(s), o, w, chosen[<<o, w>>])
          /\ chosen[<<o, w>>] = GrammarStep(s, chosen, o, w)
    BY <1>9, StepsMayEnd
  <2>2. QED
    BY <1>1, <2>1, Zenon

-----------------------------------------------------------------------------
(* The grammar, unfolded *)

Kinds == {"LIST", "DICT"}

\* the ends of values, of lists and of dictionaries are the three parts of the grammar
LEMMA ByPlace ==
  /\ \A s, p : ValueEnd(s, p) = Grammar(s)[<<p, "value">>]
  /\ \A s, p : Close(s, "LIST", p) = Grammar(s)[<<p, "items">>]
  /\ \A s, p : Close(s, "DICT", p) = Grammar(s)[<<p, "pairs">>]
<1>1. \A s, p : ValueEnd(s, p) = Grammar(s)[<<p, "value">>]
  BY Zenon DEF ValueEnd
<1>2. \A s, p : Close(s, "LIST", p) = Grammar(s)[<<p, "items">>]
  BY Zenon DEF Close
<1>3. "DICT" # "LIST"
  OBVIOUS
<1>4. \A s, p : Close(s, "DICT", p) = Grammar(s)[<<p, "pairs">>]
  BY <1>3, Zenon DEF Close
<1>5. QED
  BY <1>1, <1>2, <1>4

\* the three parts of the grammar
LEMMA WhatsIs == "value" \in Whats /\ "items" \in Whats /\ "pairs" \in Whats
  BY DEF Whats

\* The value at p, by its first byte.
LEMMA ValueEndIs ==
  ASSUME NEW s \in Seq(Nat), NEW p \in 1 .. Len(s)
  PROVE  /\ ValueEnd(s, p) = 0 \/ ValueEnd(s, p) \in p + 1 .. Len(s) + 1
         /\ s[p] = I => ValueEnd(s, p) = IntEnd(s, p)
         /\ s[p] = L => ValueEnd(s, p) = PastEnd(Close(s, "LIST", p + 1))
         /\ s[p] = D => ValueEnd(s, p) = PastEnd(Close(s, "DICT", p + 1))
         /\ s[p] \in Digits => ValueEnd(s, p) = StringEnd(s, p)
         /\ s[p] \notin {I, L, D} \cup Digits => ValueEnd(s, p) = 0
<1>1. p \in 1 .. Len(s) + 1 /\ ~(p > Len(s))
  OBVIOUS
<1>2. /\ ValueEnd(s, p) = GrammarStep(s, Grammar(s), p, "value")
      /\ MayEnd(Len(s), p, "value", ValueEnd(s, p))
  BY <1>1, GrammarIs, WhatsIs, ByPlace, Zenon
<1>3. ValueEnd(s, p) = ValueStep(s, Grammar(s), p)
  BY <1>1, <1>2, Zenon DEF GrammarStep
<1>4. ValueEnd(s, p) = 0 \/ ValueEnd(s, p) \in p + 1 .. Len(s) + 1
  BY <1>2, Zenon DEF MayEnd
<1>5. s[p] = I => ValueEnd(s, p) = IntEnd(s, p)
  BY <1>3, FiveSigns, Zenon DEF ValueStep
<1>6. s[p] = L => ValueEnd(s, p) = PastEnd(Close(s, "LIST", p + 1))
  BY <1>3, FiveSigns, ByPlace, Zenon DEF ValueStep
<1>7. s[p] = D => ValueEnd(s, p) = PastEnd(Close(s, "DICT", p + 1))
  BY <1>3, FiveSigns, ByPlace, Zenon DEF ValueStep
<1>8. s[p] \in Digits => ValueEnd(s, p) = StringEnd(s, p)
  BY <1>3, FiveSigns, Zenon DEF ValueStep
<1>9. s[p] \notin {I, L, D} \cup Digits => ValueEnd(s, p) = 0
  BY <1>3, Zenon DEF ValueStep
<1>10. QED
  BY <1>4, <1>5, <1>6, <1>7, <1>8, <1>9, Zenon

\* a container closes at a byte of the message, or not at all
LEMMA CloseBounds ==
  ASSUME NEW s \in Seq(Nat), NEW p \in 1 .. Len(s) + 1, NEW kind \in Kinds
  PROVE  Close(s, kind, p) = 0 \/ Close(s, kind, p) \in p .. Len(s)
<1>1. \A what \in Whats : MayEnd(Len(s), p, what, Grammar(s)[<<p, what>>])
  BY GrammarIs
<1>2. MayEnd(Len(s), p, "items", Close(s, "LIST", p)) /\ MayEnd(Len(s), p, "pairs", Close(s, "DICT", p))
  BY <1>1, WhatsIs, ByPlace, Zenon
<1>3. Close(s, "LIST", p) = 0 \/ Close(s, "LIST", p) \in p .. Len(s)
  BY <1>2 DEF MayEnd
<1>4. Close(s, "DICT", p) = 0 \/ Close(s, "DICT", p) \in p .. Len(s)
  BY <1>2 DEF MayEnd
<1>5. QED
  BY <1>3, <1>4, Zenon DEF Kinds

\* The elements that go on at p: none are left, or there is one at p and the
\* others go on behind it.
LEMMA CloseIs ==
  ASSUME NEW s \in Seq(Nat), NEW p \in 1 .. Len(s)
  PROVE  /\ s[p] = E => Close(s, "LIST", p) = p /\ Close(s, "DICT", p) = p
         /\ s[p] # E => Close(s, "LIST", p)
                          = IF ValueEnd(s, p) = 0 THEN 0
                            ELSE Close(s, "LIST", ValueEnd(s, p))
         /\ s[p] # E => Close(s, "DICT", p)
                          = IF s[p] \notin Digits \/ StringEnd(s, p) = 0 THEN 0
                            ELSE IF ValueEnd(s, StringEnd(s, p)) = 0 THEN 0
                            ELSE Close(s, "DICT", ValueEnd(s, StringEnd(s, p)))
<1>1. p \in 1 .. Len(s) + 1 /\ ~(p > Len(s))
  OBVIOUS
<1>2. /\ Close(s, "LIST", p) = GrammarStep(s, Grammar(s), p, "items")
      /\ Close(s, "DICT", p) = GrammarStep(s, Grammar(s), p, "pairs")
  <2>1. \A what \in Whats : Grammar(s)[<<p, what>>] = GrammarStep(s, Grammar(s), p, what)
    BY <1>1, GrammarIs, Zenon
  <2>2. Grammar(s)[<<p, "items">>] = GrammarStep(s, Grammar(s), p, "items")
    BY <2>1, WhatsIs, Zenon
  <2>3. Grammar(s)[<<p, "pairs">>] = GrammarStep(s, Grammar(s), p, "pairs")
    BY <2>1, WhatsIs, Zenon
  <2>4. QED
    BY <2>2, <2>3, ByPlace
<1>3. "items" # "value" /\ "pairs" # "value" /\ "pairs" # "items"
  OBVIOUS
<1>4. s[p] = E => Close(s, "LIST", p) = p /\ Close(s, "DICT", p) = p
  BY <1>1, <1>2, <1>3, Zenon DEF GrammarStep
<1>5. s[p] # E => Close(s, "LIST", p)
                    = IF ValueEnd(s, p) = 0 THEN 0
                      ELSE Close(s, "LIST", ValueEnd(s, p))
  BY <1>1, <1>2, <1>3, ByPlace, Zenon DEF GrammarStep, Goes
<1>6. ASSUME s[p] # E
      PROVE  Close(s, "DICT", p)
                    = IF s[p] \notin Digits THEN 0
                      ELSE Goes(Grammar(s), Goes(Grammar(s), StringEnd(s, p), "value"), "pairs")
  BY <1>1, <1>2, <1>3, <1>6, Zenon DEF GrammarStep
<1>7. Goes(Grammar(s), StringEnd(s, p), "value")
         = IF StringEnd(s, p) = 0 THEN 0 ELSE ValueEnd(s, StringEnd(s, p))
  BY ByPlace, Zenon DEF Goes
<1>8. \A q : Goes(Grammar(s), q, "pairs") = IF q = 0 THEN 0 ELSE Close(s, "DICT", q)
  BY ByPlace, Zenon DEF Goes
<1>9. s[p] # E => Close(s, "DICT", p)
                    = IF s[p] \notin Digits \/ StringEnd(s, p) = 0 THEN 0
                      ELSE IF ValueEnd(s, StringEnd(s, p)) = 0 THEN 0
                      ELSE Close(s, "DICT", ValueEnd(s, StringEnd(s, p)))
  <2> SUFFICES ASSUME s[p] # E
      PROVE  Close(s, "DICT", p)
                    = IF s[p] \notin Digits \/ StringEnd(s, p) = 0 THEN 0
                      ELSE IF ValueEnd(s, StringEnd(s, p)) = 0 THEN 0
                      ELSE Close(s, "DICT", ValueEnd(s, StringEnd(s, p)))
    OBVIOUS
  <2>1. CASE s[p] \notin Digits
    BY <1>6, <2>1, Zenon
  <2>2. CASE s[p] \in Digits /\ StringEnd(s, p) = 0
    BY <1>6, <1>7, <1>8, <2>2, Zenon
  <2>3. CASE s[p] \in Digits /\ StringEnd(s, p) # 0
    BY <1>6, <1>7, <1>8, <2>3, Zenon
  <2>4. QED
    BY <2>1, <2>2, <2>3, Zenon
<1>10. QED
  BY <1>4, <1>5, <1>9, Zenon

\* no container closes at the end of the message
LEMMA CloseAtEnd ==
  ASSUME NEW s \in Seq(Nat), NEW kind \in Kinds
  PROVE  Close(s, kind, Len(s) + 1) = 0
<1>1. Len(s) + 1 \in 1 .. Len(s) + 1
  OBVIOUS
<1>2. Close(s, kind, Len(s) + 1) = 0 \/ Close(s, kind, Len(s) + 1) \in Len(s) + 1 .. Len(s)
  BY <1>1, CloseBounds, Zenon
<1>3. Len(s) + 1 .. Len(s) = {}
  OBVIOUS
<1>4. QED
  BY <1>2, <1>3

\* there is no value at the end of the message
LEMMA ValueEndAtEnd ==
  ASSUME NEW s \in Seq(Nat)
  PROVE  ValueEnd(s, Len(s) + 1) = 0
<1>1. Len(s) + 1 \in 1 .. Len(s) + 1
  OBVIOUS
<1>2. MayEnd(Len(s), Len(s) + 1, "value", ValueEnd(s, Len(s) + 1))
  BY <1>1, GrammarIs, WhatsIs, ByPlace, Zenon
<1>3. Len(s) + 1 + 1 .. Len(s) + 1 = {}
  OBVIOUS
<1>4. QED
  BY <1>2, <1>3 DEF MayEnd

-----------------------------------------------------------------------------
(* What a message cut short still has of the grammar *)

\* what s has at p, when it lies within the bytes of t, t has as well
KeepsValue(s, t, p) ==
  ValueEnd(s, p) # 0 /\ ValueEnd(s, p) <= Len(t) + 1 => ValueEnd(t, p) = ValueEnd(s, p)

KeepsClose(s, t, kind, p) ==
  Close(s, kind, p) # 0 /\ Close(s, kind, p) <= Len(t) => Close(t, kind, p) = Close(s, kind, p)

\* the place behind an end marker, if there is one
LEMMA PastEndIs ==
  ASSUME NEW q, q = 0 \/ q \in Nat
  PROVE  /\ PastEnd(q) = 0 <=> q = 0
         /\ q # 0 => PastEnd(q) = q + 1
  BY DEF PastEnd

\* the container at p is kept when the place it closes is, ...
LEMMA ContainerKept ==
  ASSUME NEW s, NEW t, Begins(t, s), NEW p \in 1 .. Len(t), NEW kind \in Kinds,
         KeepsClose(s, t, kind, p + 1),
         ValueEnd(s, p) = PastEnd(Close(s, kind, p + 1)),
         ValueEnd(t, p) = PastEnd(Close(t, kind, p + 1))
  PROVE  KeepsValue(s, t, p)
<1>1. PICK n \in Nat, m \in Nat : n = Len(t) /\ m = Len(s) /\ n <= m
  BY BeginsLen
<1>2. p + 1 \in 1 .. n + 1 /\ p + 1 \in 1 .. m + 1
  BY <1>1
<1>3. PICK q : q = Close(s, kind, p + 1)
  OBVIOUS
<1>4. q = 0 \/ q \in p + 1 .. m
  BY <1>1, <1>2, <1>3, BeginsLen, CloseBounds
<1>5. q = 0 \/ q \in Nat
  BY <1>4
<1>6. CASE q = 0
  BY <1>3, <1>6, PastEndIs DEF KeepsValue
<1>7. CASE q # 0
  <2>1. ValueEnd(s, p) = q + 1
    BY <1>3, <1>5, <1>7, PastEndIs
  <2>2. q + 1 <= n + 1 => q <= n
    BY <1>1, <1>5, <1>7
  <2>3. q <= n => Close(t, kind, p + 1) = q
    BY <1>1, <1>3, <1>7, Zenon DEF KeepsClose
  <2>4. QED
    BY <1>1, <1>3, <2>1, <2>2, <2>3, Zenon DEF KeepsValue
<1>8. QED
  BY <1>6, <1>7

\* ... the value at p when a container that starts there is, ...
LEMMA ValueKept ==
  ASSUME NEW s, NEW t, Begins(t, s), NEW p \in 1 .. Len(t),
         \A kind \in Kinds : KeepsClose(s, t, kind, p + 1)
  PROVE  KeepsValue(s, t, p)
<1>1. t[p] = s[p] /\ p \in 1 .. Len(s) /\ s \in Seq(Nat) /\ t \in Seq(Nat)
  BY BeginsAt, BeginsLen
<1>2. "LIST" \in Kinds /\ "DICT" \in Kinds
  BY DEF Kinds
<1>3. CASE s[p] = I
  <2>1. ValueEnd(s, p) = IntEnd(s, p) /\ ValueEnd(t, p) = IntEnd(t, p)
    BY <1>1, <1>3, ValueEndIs
  <2>2. QED
    BY <2>1, IntEndBegins DEF KeepsValue
<1>4. CASE s[p] \in Digits
  <2>1. ValueEnd(s, p) = StringEnd(s, p) /\ ValueEnd(t, p) = StringEnd(t, p)
    BY <1>1, <1>4, ValueEndIs
  <2>2. QED
    BY <2>1, StringEndBegins DEF KeepsValue
<1>5. CASE s[p] = L
  <2>1. /\ ValueEnd(s, p) = PastEnd(Close(s, "LIST", p + 1))
        /\ ValueEnd(t, p) = PastEnd(Close(t, "LIST", p + 1))
    BY <1>1, <1>5, ValueEndIs
  <2>2. QED
    BY <1>2, <2>1, ContainerKept
<1>6. CASE s[p] = D
  <2>1. /\ ValueEnd(s, p) = PastEnd(Close(s, "DICT", p + 1))
        /\ ValueEnd(t, p) = PastEnd(Close(t, "DICT", p + 1))
    BY <1>1, <1>6, ValueEndIs
  <2>2. QED
    BY <1>2, <2>1, ContainerKept
<1>7. CASE s[p] \notin {I, L, D} \cup Digits
  <2>1. ValueEnd(s, p) = 0
    BY <1>1, <1>7, ValueEndIs
  <2>2. QED
    BY <2>1 DEF KeepsValue
<1>8. QED
  BY <1>3, <1>4, <1>5, <1>6, <1>7, Zenon

\* ... where a list goes on at p when its first value and all further on are, ...
LEMMA ItemsKept ==
  ASSUME NEW s, NEW t, Begins(t, s), NEW p \in 1 .. Len(t), KeepsValue(s, t, p),
         \A q \in p + 1 .. Len(t) + 1 : KeepsClose(s, t, "LIST", q)
  PROVE  KeepsClose(s, t, "LIST", p)
<1>1. t[p] = s[p] /\ p \in 1 .. Len(s) /\ s \in Seq(Nat) /\ t \in Seq(Nat)
  BY BeginsAt, BeginsLen
<1>2. PICK n \in Nat, m \in Nat : n = Len(t) /\ m = Len(s) /\ n <= m
  BY BeginsLen
<1>3. "LIST" \in Kinds /\ "DICT" \in Kinds
  BY DEF Kinds
<1>4. CASE s[p] = E
  BY <1>1, <1>4, CloseIs DEF KeepsClose
<1>5. CASE s[p] # E
  <2> SUFFICES ASSUME Close(s, "LIST", p) # 0, Close(s, "LIST", p) <= n
               PROVE  Close(t, "LIST", p) = Close(s, "LIST", p)
    BY <1>2 DEF KeepsClose
  <2>1. PICK q : q = ValueEnd(s, p)
    OBVIOUS
  <2>2. q # 0 /\ Close(s, "LIST", p) = Close(s, "LIST", q)
    BY <1>1, <1>5, <2>1, CloseIs, Zenon
  <2>3. q \in p + 1 .. m + 1
    BY <1>1, <1>2, <2>1, <2>2, ValueEndIs, Zenon
  <2>4. PICK c : c = Close(s, "LIST", q)
    OBVIOUS
  <2>5. q \in 1 .. m + 1
    BY <1>2, <2>3
  <2>6. c \in q .. m
    BY <1>1, <1>2, <1>3, <2>2, <2>4, <2>5, CloseBounds, Zenon
  <2>7. q \in p + 1 .. n + 1 /\ q <= n + 1 /\ c <= n
    BY <1>2, <2>2, <2>3, <2>4, <2>6
  <2>8. ValueEnd(t, p) = q
    BY <1>2, <2>1, <2>2, <2>7, Zenon DEF KeepsValue
  <2>9. Close(t, "LIST", q) = c
    BY <1>2, <2>2, <2>4, <2>7, Zenon DEF KeepsClose
  <2>10. Close(t, "LIST", p) = Close(t, "LIST", q)
    BY <1>1, <1>5, <2>2, <2>8, CloseIs, Zenon
  <2>11. QED
    BY <2>2, <2>4, <2>9, <2>10, Zenon
<1>6. QED
  BY <1>4, <1>5

\* ... and so where a dictionary goes on at p
LEMMA PairsKept ==
  ASSUME NEW s, NEW t, Begins(t, s), NEW p \in 1 .. Len(t),
         \A q \in p + 1 .. Len(t) : KeepsValue(s, t, q),
         \A q \in p + 1 .. Len(t) + 1 : KeepsClose(s, t, "DICT", q)
  PROVE  KeepsClose(s, t, "DICT", p)
<1>1. t[p] = s[p] /\ p \in 1 .. Len(s) /\ s \in Seq(Nat) /\ t \in Seq(Nat)
  BY BeginsAt, BeginsLen
<1>2. PICK n \in Nat, m \in Nat : n = Len(t) /\ m = Len(s) /\ n <= m
  BY BeginsLen
<1>3. "LIST" \in Kinds /\ "DICT" \in Kinds
  BY DEF Kinds
<1>4. CASE s[p] = E
  BY <1>1, <1>4, CloseIs DEF KeepsClose
<1>5. CASE s[p] # E
  <2> SUFFICES ASSUME Close(s, "DICT", p) # 0, Close(s, "DICT", p) <= n
               PROVE  Close(t, "DICT", p) = Close(s, "DICT", p)
    BY <1>2 DEF KeepsClose
  <2>1. PICK r : r = StringEnd(s, p)
    OBVIOUS
  <2>2. PICK q : q = ValueEnd(s, r)
    OBVIOUS
  <2>3. s[p] \in Digits /\ r # 0 /\ q # 0 /\ Close(s, "DICT", p) = Close(s, "DICT", q)
    BY <1>1, <1>5, <2>1, <2>2, CloseIs, Zenon
  <2>4. r \in p + 1 .. m + 1
    <3>1. r = 0 \/ r \in p + 1 .. m + 1
      BY <1>1, <1>2, <2>1, <2>3, ValueEndIs, Zenon
    <3>2. QED
      BY <2>3, <3>1
  <2>5. PICK c : c = Close(s, "DICT", q)
    OBVIOUS
  <2>6. r \in 1 .. m
    <3>1. r # m + 1
      BY <1>1, <1>2, <2>2, <2>3, ValueEndAtEnd, Zenon
    <3>2. QED
      BY <1>2, <2>4, <3>1
  <2>7. q \in r + 1 .. m + 1
    BY <1>1, <1>2, <2>2, <2>3, <2>6, ValueEndIs, Zenon
  <2>8. q \in 1 .. m + 1
    BY <1>2, <2>6, <2>7
  <2>9. c \in q .. m
    BY <1>1, <1>2, <1>3, <2>3, <2>5, <2>8, CloseBounds, Zenon
  <2>10. /\ q \in p + 1 .. n + 1 /\ q <= n + 1 /\ c <= n
         /\ r \in p + 1 .. n /\ r <= n + 1
    BY <1>2, <2>3, <2>4, <2>5, <2>7, <2>9
  <2>11. StringEnd(t, p) = r
    BY <1>2, <2>1, <2>3, <2>10, StringEndBegins
  <2>12. ValueEnd(t, r) = q
    BY <1>2, <2>2, <2>3, <2>10, Zenon DEF KeepsValue
  <2>13. Close(t, "DICT", q) = c
    BY <1>2, <2>3, <2>5, <2>10, Zenon DEF KeepsClose
  <2>14. Close(t, "DICT", p) = Close(t, "DICT", q)
    BY <1>1, <1>5, <2>3, <2>11, <2>12, CloseIs, Zenon
  <2>15. QED
    BY <2>3, <2>5, <2>13, <2>14, Zenon
<1>6. QED
  BY <1>4, <1>5

(* What is whole in the beginning t of a message s is there what it is in s: a
   value or a container that ends in s within t ends in t at the same place. *)
THEOREM GrammarKept ==
  ASSUME NEW s, NEW t, Begins(t, s)
  PROVE  /\ \A p \in 1 .. Len(t) + 1 : KeepsValue(s, t, p)
         /\ \A p \in 1 .. Len(t) + 1 : \A kind \in Kinds : KeepsClose(s, t, kind, p)
<1> DEFINE Keeps(p, what) == CASE what = "value" -> KeepsValue(s, t, p)
                               [] what = "items" -> KeepsClose(s, t, "LIST", p)
                               [] what = "pairs" -> KeepsClose(s, t, "DICT", p)
           S == Places(t)
           Bad == {x \in S : ~Keeps(x[1], x[2])}
<1>1. PICK n \in Nat, m \in Nat : n = Len(t) /\ m = Len(s) /\ n <= m
  BY BeginsLen
<1>2. t \in Seq(Nat) /\ s \in Seq(Nat)
  BY BeginsLen
<1>3. \A x \in S : \E p \in 1 .. n + 1 : \E what \in Whats : x = <<p, what>>
  BY <1>1 DEF Places
<1>4. \A p \in 1 .. n + 1 : \A what \in Whats :
        <<p, what>> \in S /\ <<p, what>>[1] = p /\ <<p, what>>[2] = what
  BY <1>1 DEF Places
<1>5. \A p : /\ Keeps(p, "value") <=> KeepsValue(s, t, p)
             /\ Keeps(p, "items") <=> KeepsClose(s, t, "LIST", p)
             /\ Keeps(p, "pairs") <=> KeepsClose(s, t, "DICT", p)
  OBVIOUS
<1> HIDE DEF Keeps
<1>6. \A w \in Whats : Keeps(n + 1, w)
  <2>1. n + 1 \in 1 .. m + 1 /\ n + 1 \notin n + 2 .. m + 1
    BY <1>1
  <2>2. KeepsValue(s, t, n + 1)
    <3>1. CASE n = m
      BY <1>1, <1>2, <3>1, ValueEndAtEnd DEF KeepsValue
    <3>2. CASE n # m
      <4>1. n + 1 \in 1 .. m
        BY <1>1, <3>2
      <4>2. ValueEnd(s, n + 1) = 0 \/ ValueEnd(s, n + 1) \in n + 1 + 1 .. m + 1
        BY <1>1, <1>2, <4>1, ValueEndIs
      <4>3. ~(ValueEnd(s, n + 1) # 0 /\ ValueEnd(s, n + 1) <= n + 1)
        BY <1>1, <4>2
      <4>4. QED
        BY <1>1, <4>3 DEF KeepsValue
    <3>3. QED
      BY <3>1, <3>2
  <2>3. ASSUME NEW kind \in Kinds PROVE KeepsClose(s, t, kind, n + 1)
    <3>1. Close(s, kind, n + 1) = 0 \/ Close(s, kind, n + 1) \in n + 1 .. m
      BY <1>1, <1>2, <2>1, CloseBounds
    <3>2. ~(Close(s, kind, n + 1) # 0 /\ Close(s, kind, n + 1) <= n)
      BY <1>1, <3>1
    <3>3. QED
      BY <1>1, <3>2 DEF KeepsClose
  <2>4. QED
    BY <1>5, <2>2, <2>3, Zenon DEF Whats, Kinds
<1>7. ASSUME NEW p \in 1 .. n + 1, NEW what \in Whats,
             \A q \in 1 .. n + 1 : \A w \in Whats : LooksAt(n, p, what, q, w) => Keeps(q, w)
      PROVE  Keeps(p, what)
  <2>1. CASE p = n + 1
    BY <1>6, <2>1
  <2>2. CASE p # n + 1
    <3>1. p \in 1 .. n /\ p + 1 \in p + 1 .. n + 1
      BY <2>2
    <3>2. \A q \in p + 1 .. n + 1 : \A w \in Whats : Keeps(q, w)
      <4>1. \A q \in p + 1 .. n + 1 : q \in 1 .. n + 1
        BY <3>1
      <4>2. QED
        BY <1>7, <4>1, Zenon DEF LooksAt
    <3>3. \A q \in p + 1 .. n + 1 : /\ KeepsValue(s, t, q)
                                    /\ KeepsClose(s, t, "LIST", q)
                                    /\ KeepsClose(s, t, "DICT", q)
      BY <1>5, <3>2, WhatsIs, Zenon
    <3>4. KeepsValue(s, t, p)
      <4>1. \A kind \in Kinds : KeepsClose(s, t, kind, p + 1)
        BY <3>1, <3>3, Zenon DEF Kinds
      <4>2. QED
        BY <1>1, <3>1, <4>1, ValueKept
    <3>5. KeepsClose(s, t, "LIST", p)
      BY <1>1, <3>1, <3>3, <3>4, ItemsKept
    <3>6. KeepsClose(s, t, "DICT", p)
      <4>1. \A q \in p + 1 .. n : q \in p + 1 .. n + 1
        BY <3>1
      <4>2. QED
        BY <1>1, <3>1, <3>3, <4>1, PairsKept
    <3>7. QED
      BY <1>5, <3>4, <3>5, <3>6, Zenon DEF Whats
  <2>3. QED
    BY <2>1, <2>2
<1> HIDE DEF S
<1>8. \A p \in 1 .. n + 1 : \A what \in Whats : <<p, what>> \in Bad <=> ~Keeps(p, what)
  BY <1>4, Zenon
<1>9. ASSUME NEW x \in Bad PROVE \E y \in Bad : Rank(t)[y] < Rank(t)[x]
  <2>1. PICK p \in 1 .. n + 1, what \in Whats : x = <<p, what>>
    BY <1>3, Zenon
  <2> HIDE DEF Bad
  <2>2. ~Keeps(p, what)
    BY <1>8, <1>9, <2>1, Zenon
  <2>3. PICK q \in 1 .. n + 1, w \in Whats : LooksAt(n, p, what, q, w) /\ ~Keeps(q, w)
    BY <1>7, <2>2, Zenon
  <2>4. <<q, w>> \in Bad
    BY <1>8, <2>3, Zenon
  <2>5. Rank(t)[<<q, w>>] < Rank(t)[x]
    BY <1>1, <1>2, <2>1, <2>3, LooksBelow
  <2>6. QED
    BY <2>4, <2>5, Zenon
<1>10. Bad = {}
  <2>1. Bad \subseteq S /\ Rank(t) \in [S -> Nat]
    BY <1>2, RankTyped DEF S
  <2> HIDE DEF Bad
  <2>2. QED
    BY <1>9, <2>1, NoDescent, Zenon
<1> HIDE DEF Bad
<1>11. \A p \in 1 .. n + 1 : \A what \in Whats : Keeps(p, what)
  BY <1>8, <1>10, Zenon
<1>12. QED
  BY <1>1, <1>5, <1>11, WhatsIs, Zenon DEF Kinds

-----------------------------------------------------------------------------
(* The tokens benr_next takes of what is left of a message cut short *)

\* what is unread from p on
Rest(t, p) == Ctx(p, Len(t) + 1 - p)

\* the remainder of a negative number that is small enough
LEMMA NegativeRemainder ==
  ASSUME NEW m \in Nat \ {0}, NEW x \in 1 .. m - 1
  PROVE  (-x) % m = m - x
  OBVIOUS

\* An integer that fits is not changed by its way through a uintmax_t.
LEMMA SignedIs ==
  ASSUME NEW n \in Nat
  PROVE  /\ Fits(n) => n < UINTMAX /\ Signed(n, 1) = n
         /\ Fits(-n) => n < UINTMAX /\ Signed(n, -1) = -n
<1>1. PICK m \in Nat \ {0} : m = UINTMAX
  BY UintAssumption
<1>2. ASSUME Fits(n) PROVE n < UINTMAX /\ Signed(n, 1) = n
  <2>1. 2 * n < m /\ n \in 0 .. m - 1 /\ n * 1 = n
    BY <1>1, <1>2 DEF Fits
  <2>2. n % m = n
    BY <2>1, SmallRemainder
  <2>3. QED
    BY <1>1, <2>1, <2>2 DEF Signed
<1>3. ASSUME Fits(-n) PROVE n < UINTMAX /\ Signed(n, -1) = -n
  <2>1. 2 * n <= m /\ n \in 0 .. m - 1 /\ n * (-1) = -n
    BY <1>1, <1>3 DEF Fits
  <2>2. CASE n = 0
    <3>1. 0 % m = 0 /\ n * (-1) = 0 /\ -n = 0
      BY <2>1, <2>2, SmallRemainder
    <3>2. QED
      BY <1>1, <2>1, <3>1 DEF Signed
  <2>3. CASE n # 0
    <3>1. n \in 1 .. m - 1
      BY <2>1, <2>3
    <3>2. (-n) % m = m - n
      BY <3>1, NegativeRemainder
    <3>3. ~(2 * (m - n) < m) /\ m - n - m = -n
      BY <2>1
    <3>4. QED
      BY <1>1, <2>1, <3>2, <3>3 DEF Signed
  <2>4. QED
    BY <2>2, <2>3
<1>4. QED
  BY <1>2, <1>3

\* what the context that holds the message from p on has and gives
LEMMA RestIs ==
  ASSUME NEW t \in Seq(Nat), NEW p \in 1 .. Len(t) + 1
  PROVE  /\ Rest(t, p).pos = p /\ Rest(t, p).len = Len(t) + 1 - p
         /\ Unread(Rest(t, p)) = p .. Len(t)
         /\ Rest(t, p).len = 0 <=> p = Len(t) + 1
         /\ Peek(t, Rest(t, p)) = t[p]
         /\ \A n \in 0 .. Len(t) + 1 - p : Advance(Rest(t, p), n) = Rest(t, p + n)
<1>1. Rest(t, p).pos = p /\ Rest(t, p).len = Len(t) + 1 - p
  BY DEF Rest, Ctx
<1>2. p + (Len(t) + 1 - p) - 1 = Len(t)
  OBVIOUS
<1>3. Unread(Rest(t, p)) = p .. Len(t)
  BY <1>1, <1>2, Zenon DEF Unread
<1>4. (Len(t) + 1 - p = 0) <=> (p = Len(t) + 1)
  OBVIOUS
<1>5. ASSUME NEW n \in 0 .. Len(t) + 1 - p PROVE Advance(Rest(t, p), n) = Rest(t, p + n)
  <2>1. Len(t) + 1 - p - n = Len(t) + 1 - (p + n)
    OBVIOUS
  <2>2. Advance(Rest(t, p), n) = Ctx(p + n, Len(t) + 1 - p - n)
    <3>1. \A c : c.pos = p /\ c.len = Len(t) + 1 - p
                   => Advance(c, n) = Ctx(p + n, Len(t) + 1 - p - n)
      BY DEF Advance
    <3>2. QED
      BY <1>1, <3>1
  <2>3. Rest(t, p + n) = Ctx(p + n, Len(t) + 1 - (p + n))
    BY Zenon DEF Rest
  <2>4. QED
    BY <2>1, <2>2, <2>3, Zenon
<1>6. QED
  BY <1>1, <1>3, <1>4, <1>5, Zenon DEF Peek

\* taking n bytes of it leaves the message from p + n on
LEMMA AdvanceIs ==
  ASSUME NEW t \in Seq(Nat), NEW p \in 1 .. Len(t) + 1, NEW n \in 0 .. Len(t) + 1 - p
  PROVE  Advance(Rest(t, p), n) = Rest(t, p + n)
  BY RestIs, Zenon

\* digits end where the next byte is none
LEMMA StopIs ==
  ASSUME NEW t \in Seq(Nat), NEW f \in 1 .. Len(t) + 1, NEW q \in f .. Len(t),
         t[q] \notin Digits, \A r \in f .. q - 1 : t[r] \in Digits
  PROVE  Stops(t, Rest(t, f)) /\ Stop(t, Rest(t, f)) = q
<1>1. Rest(t, f).pos = f /\ Unread(Rest(t, f)) = f .. Len(t)
  BY RestIs
<1>2. StopsAt(t, Rest(t, f), q)
  BY <1>1 DEF StopsAt
<1>3. ASSUME NEW r \in f .. Len(t), StopsAt(t, Rest(t, f), r) PROVE r = q
  <2>1. t[r] \notin Digits /\ \A i \in f .. r - 1 : t[i] \in Digits
    BY <1>1, <1>3 DEF StopsAt
  <2>2. ~(r < q)
    <3>1. ASSUME r < q PROVE r \in f .. q - 1
      BY <3>1
    <3>2. QED
      BY <2>1, <3>1
  <2>3. ~(q < r)
    <3>1. ASSUME q < r PROVE q \in f .. r - 1
      BY <3>1
    <3>2. QED
      BY <2>1, <3>1
  <2>4. QED
    BY <2>2, <2>3
<1>4. Stop(t, Rest(t, f)) = q
  BY <1>1, <1>2, <1>3, Zenon DEF Stop
<1>5. QED
  BY <1>1, <1>2, <1>4, Zenon DEF Stops

\* benr_init_uint on a number that goes on to q in the whole message
LEMMA InitUintIs ==
  ASSUME NEW s, NEW t, Begins(t, s), NEW f \in 1 .. Len(t) + 1, NEW q \in f .. Len(s),
         AllDigits(s, f, q - 1), s[q] \notin Digits
  PROVE  /\ q <= Len(t) =>
              InitUint(t, Rest(t, f), s[q])
                = Take(Benr("UINT", UintValue(t, f, q - 1), Nowhere), Rest(t, q + 1))
         /\ q > Len(t) =>
              InitUint(t, Rest(t, f), s[q]) = Fail("UNEXPECTED_EOF_IN_INT", 0, 0, Rest(t, f))
<1>1. PICK n \in Nat, m \in Nat : n = Len(t) /\ m = Len(s) /\ n <= m
  BY BeginsLen
<1>2. t \in Seq(Nat) /\ s \in Seq(Nat)
  BY BeginsLen
<1>3. Rest(t, f).pos = f /\ Unread(Rest(t, f)) = f .. n
  BY <1>1, <1>2, RestIs
<1>4. ASSUME q <= n
      PROVE  InitUint(t, Rest(t, f), s[q])
                = Take(Benr("UINT", UintValue(t, f, q - 1), Nowhere), Rest(t, q + 1))
  <2>1. q \in 1 .. n /\ q \in f .. n /\ \A r \in f .. q - 1 : r \in 1 .. n
    BY <1>1, <1>4
  <2>2. t[q] = s[q] /\ \A r \in f .. q - 1 : t[r] \in Digits
    BY <1>1, <2>1, BeginsAt DEF AllDigits
  <2>3. Stops(t, Rest(t, f)) /\ Stop(t, Rest(t, f)) = q
    BY <1>1, <1>2, <2>1, <2>2, StopIs
  <2>4. Advance(Rest(t, f), q + 1 - f) = Rest(t, q + 1)
    <3>1. q + 1 - f \in 0 .. n + 1 - f /\ f + (q + 1 - f) = q + 1
      BY <1>1, <2>1
    <3>2. Advance(Rest(t, f), q + 1 - f) = Rest(t, f + (q + 1 - f))
      BY <1>1, <1>2, <3>1, RestIs
    <3>3. QED
      BY <3>1, <3>2, Zenon
  <2>5. QED
    BY <1>3, <2>2, <2>3, <2>4, Zenon DEF InitUint
<1>5. ASSUME q > n
      PROVE  InitUint(t, Rest(t, f), s[q]) = Fail("UNEXPECTED_EOF_IN_INT", 0, 0, Rest(t, f))
  <2>1. \A r \in f .. n : r \in 1 .. n /\ r \in f .. q - 1
    BY <1>1, <1>5
  <2>2. \A r \in f .. n : t[r] \in Digits
    BY <1>1, <2>1, BeginsAt DEF AllDigits
  <2>3. ~Stops(t, Rest(t, f))
    BY <1>3, <2>2, Zenon DEF Stops, StopsAt
  <2>4. QED
    BY <2>3, Zenon DEF InitUint
<1>6. QED
  BY <1>1, <1>4, <1>5

\* what a token taken is, and where the context is then
LEMMA TakeIs ==
  ASSUME NEW kind, NEW num, NEW place, NEW c, NEW x, x = Take(Benr(kind, num, place), c)
  PROVE  x.b.kind = kind /\ x.b.num = num /\ x.b.at = place /\ x.ctx = c
  BY DEF Take, Benr

\* the same, of a token that is there already
LEMMA TakenIs ==
  ASSUME NEW b, NEW c, NEW x, x = Take(b, c)
  PROVE  x.b = b /\ x.ctx = c
  BY DEF Take

\* an error is a token with the context given to it
LEMMA FailIs ==
  ASSUME NEW kind, NEW num, NEW p, NEW c, NEW x, x = Fail(kind, num, p, c)
  PROVE  x.b.kind = kind /\ x.ctx = c
  BY DEF Fail, Take, Benr

\* errors are none of the kinds of a token
LEMMA KindsDiffer ==
  /\ "UINT" \notin ErrorKinds /\ "INT" \notin ErrorKinds /\ "STRING" \notin ErrorKinds
  /\ "X_END" \notin ErrorKinds /\ "NONE" \notin ErrorKinds
  /\ "LIST" \notin ErrorKinds /\ "DICT" \notin ErrorKinds
  /\ "UNEXPECTED_EOF" \in ErrorKinds /\ "UNEXPECTED_EOF_IN_INT" \in ErrorKinds
  /\ "STRING_TOO_LONG" \in ErrorKinds
  BY DEF ErrorKinds

\* the token at p says that the message ends too early
CutShort(x, s, t, p) ==
  x.b.kind \in ErrorKinds /\ x.ctx = Rest(t, p) /\ Len(t) < Len(s)

\* the token is the integer from p to e
IsInteger(x, s, t, p, e) ==
  /\ e \in p + 1 .. Len(t) + 1
  /\ x.b.kind = "INT"
  /\ Fits(Integer(s, p)) => x.b.num = Integer(s, p)
  /\ x.ctx = Rest(t, e)

\* b is the string from p to e: the bytes behind the colon
StringFrom(b, s, p, e) ==
  /\ b.kind = "STRING"
  /\ b.at.pos \in p + 2 .. e /\ b.at.len \in Nat
  /\ b.at.pos + b.at.len = e
  /\ s[b.at.pos - 1] = COLON /\ AllDigits(s, p, b.at.pos - 2)

\* the token is the string from p to e
IsString(x, s, t, p, e) ==
  /\ e \in p + 1 .. Len(t) + 1
  /\ StringFrom(x.b, s, p, e)
  /\ x.ctx = Rest(t, e)

\* The integer at p: benr_next takes it whole, or says that the message is too short.
LEMMA NextIntIs ==
  ASSUME NEW s, NEW t, Begins(t, s), NEW p \in 1 .. Len(t), IntEnd(s, p) # 0
  PROVE  \/ CutShort(NextInt(t, Rest(t, p)), s, t, p)
         \/ IsInteger(NextInt(t, Rest(t, p)), s, t, p, IntEnd(s, p))
<1>1. PICK n \in Nat, m \in Nat : n = Len(t) /\ m = Len(s) /\ n <= m
  BY BeginsLen
<1>2. t \in Seq(Nat) /\ s \in Seq(Nat) /\ p \in 1 .. m
  BY <1>1, BeginsLen, BeginsAt
<1>3. IntegerTo(s, p, IntEnd(s, p) - 1) /\ IntEnd(s, p) \in p + 2 .. m + 1
  BY <1>1, <1>2, IntEndTo, IntEndBounds
<1>4. PICK q \in Nat : /\ q = IntEnd(s, p) - 1 /\ IntEnd(s, p) = q + 1
                       /\ q \in p + 1 .. m /\ q - 1 = IntEnd(s, p) - 2
  BY <1>3
<1>5. /\ IntegerTo(s, p, q) /\ s[q] = E /\ s[q] \notin Digits
      /\ AllDigits(s, FirstDigit(s, p), q - 1)
  BY <1>3, <1>4, Signs, Zenon DEF IntegerTo
<1> DEFINE d == Advance(Rest(t, p), 1)
           minus == Peek(t, d) = MINUS
           u == InitUint(t, IF minus THEN Advance(d, 1) ELSE d, E)
           x == NextInt(t, Rest(t, p))
<1>6. x = IF d.len = 0 THEN Fail("UNEXPECTED_EOF", 0, 0, Rest(t, p))
          ELSE IF u.b.kind # "UINT" THEN Take(u.b, Rest(t, p))
          ELSE Take(Benr("INT", Signed(u.b.num, IF minus THEN -1 ELSE 1), Nowhere), u.ctx)
  BY Zenon DEF NextInt
<1>7. d = Rest(t, p + 1)
  <2>1. 1 \in 0 .. n + 1 - p /\ p \in 1 .. n + 1
    BY <1>1
  <2>2. 1 \in 0 .. Len(t) + 1 - p /\ p \in 1 .. Len(t) + 1
    BY <1>1, <2>1, Zenon
  <2>3. QED
    BY <1>2, <2>2, AdvanceIs, Zenon
<1> HIDE DEF d, u, x
<1>8. CASE p = n
  <2>1. d.len = 0
    <3>1. p + 1 \in 1 .. n + 1 /\ p + 1 = n + 1
      BY <1>8
    <3>2. p + 1 \in 1 .. Len(t) + 1 /\ p + 1 = Len(t) + 1
      BY <1>1, <3>1, Zenon
    <3>3. QED
      BY <1>2, <1>7, <3>2, RestIs, Zenon
  <2>2. x.b.kind = "UNEXPECTED_EOF" /\ x.ctx = Rest(t, p)
    BY <1>6, <2>1, FailIs
  <2>3. n < m
    BY <1>1, <1>4, <1>8
  <2>4. CutShort(x, s, t, p)
    BY <1>1, <2>2, <2>3, KindsDiffer DEF CutShort
  <2>5. QED
    BY <2>4 DEF x
<1>9. CASE p # n
  <2>1. PICK f \in Nat : f = FirstDigit(s, p) /\ f \in {p + 1, p + 2}
    <3>1. FirstDigit(s, p) \in {p + 1, p + 2}
      BY <1>1, <1>2, FirstDigitIs, Zenon
    <3>2. p + 1 \in Nat /\ p + 2 \in Nat
      BY <1>2
    <3>3. QED
      BY <3>1, <3>2
  <2>2. p + 1 \in 1 .. n /\ p + 1 \in 1 .. n + 1 /\ p + 1 # n + 1 /\ p < m
    BY <1>1, <1>9
  <2>3. d.len # 0 /\ Peek(t, d) = s[p + 1]
    <3>1. d.len # 0 /\ Peek(t, d) = t[p + 1]
      <4>1. p + 1 \in 1 .. Len(t) + 1 /\ p + 1 # Len(t) + 1
        BY <1>1, <2>2, Zenon
      <4>2. QED
        BY <1>2, <1>7, <4>1, RestIs, Zenon
    <3>2. t[p + 1] = s[p + 1]
      <4>1. p + 1 \in 1 .. Len(t)
        BY <1>1, <2>2, Zenon
      <4>2. QED
        BY <4>1, BeginsAt, Zenon
    <3>3. QED
      BY <3>1, <3>2
  <2>4. minus <=> s[p + 1] = MINUS
    BY <2>3
  <2>5. f = IF s[p + 1] = MINUS THEN p + 2 ELSE p + 1
    BY <1>1, <2>1, <2>2, Zenon DEF FirstDigit
  <2>6. f \in 1 .. n + 1 /\ q \in f .. m
    <3>1. f <= q - 1
      BY <1>5, <2>1 DEF AllDigits
    <3>2. f \in 1 .. n + 1
      BY <2>1, <2>2
    <3>3. q \in f .. m
      BY <1>4, <2>1, <3>1
    <3>4. QED
      BY <3>2, <3>3
  <2>7. (IF minus THEN Advance(d, 1) ELSE d) = Rest(t, f)
    <3>1. 1 \in 0 .. n + 1 - (p + 1) /\ p + 1 + 1 = p + 2
      BY <2>2
    <3>2. Advance(Rest(t, p + 1), 1) = Rest(t, p + 1 + 1)
      <4>1. p + 1 \in 1 .. Len(t) + 1 /\ 1 \in 0 .. Len(t) + 1 - (p + 1)
        BY <1>1, <2>2, <3>1, Zenon
      <4>2. QED
        BY <1>2, <4>1, AdvanceIs, Zenon
    <3>3. QED
      BY <1>7, <2>4, <2>5, <3>1, <3>2
  <2> HIDE DEF minus
  <2>8. u = InitUint(t, Rest(t, f), s[q])
    BY <1>5, <2>7 DEF u
  <2>9. CASE q > n
    <3>1. u = Fail("UNEXPECTED_EOF_IN_INT", 0, 0, Rest(t, f))
      BY <1>1, <1>5, <2>1, <2>6, <2>8, <2>9, InitUintIs
    <3>2. u.b.kind = "UNEXPECTED_EOF_IN_INT"
      BY <3>1, FailIs
    <3>3. x = Take(u.b, Rest(t, p))
      BY <1>6, <2>3, <3>2
    <3>4. x.b = u.b /\ x.ctx = Rest(t, p)
      BY <3>3, TakenIs
    <3>5. n < m
      BY <1>1, <1>4, <2>9
    <3>6. CutShort(x, s, t, p)
      BY <1>1, <3>2, <3>4, <3>5, KindsDiffer DEF CutShort
    <3>7. QED
      BY <3>6 DEF x
  <2>10. CASE q <= n
    <3>1. u = Take(Benr("UINT", UintValue(t, f, q - 1), Nowhere), Rest(t, q + 1))
      <4>1. AllDigits(s, f, q - 1) /\ f \in 1 .. Len(t) + 1 /\ q \in f .. Len(s) /\ q <= Len(t)
        BY <1>1, <1>5, <2>1, <2>6, <2>10, Zenon
      <4>2. QED
        BY <1>5, <2>8, <4>1, InitUintIs
    <3>2. /\ u.b.kind = "UINT" /\ u.b.num = UintValue(t, f, q - 1)
          /\ u.ctx = Rest(t, q + 1)
      BY <3>1, TakeIs
    <3>3. PICK sign : sign = IF minus THEN -1 ELSE 1
      OBVIOUS
    <3>4. x = Take(Benr("INT", Signed(u.b.num, sign), Nowhere), u.ctx)
      BY <1>6, <2>3, <3>2, <3>3
    <3>5. x.b.kind = "INT" /\ x.b.num = Signed(u.b.num, sign) /\ x.ctx = u.ctx
      BY <3>4, TakeIs
    <3>6. PICK v : v = Decimal(s, f, q - 1)
      OBVIOUS
    <3>7. f \in 1 .. m /\ q - 1 \in f .. m /\ q - 1 <= n
      <4>1. f <= q - 1
        BY <1>5, <2>1 DEF AllDigits
      <4>2. QED
        BY <1>1, <1>4, <2>6, <2>10, <4>1
    <3>8. v \in Nat
      BY <1>1, <1>2, <1>5, <2>1, <3>6, <3>7, DecimalIsNat
    <3>9. Integer(s, p) = IF s[p + 1] = MINUS THEN -v ELSE v
      BY <1>4, <2>1, <3>6, Zenon DEF Integer
    <3>10. v < UINTMAX => UintValue(t, f, q - 1) = v
      <4>1. \A i \in f .. q - 1 : i \in 1 .. n
        BY <2>6, <3>7
      <4>2. Same(s, t, f, q - 1)
        BY <1>1, <4>1, BeginsAt, Zenon DEF Same
      <4>3. QED
        BY <1>1, <1>2, <1>5, <2>1, <3>6, <3>7, <4>2, UintIsDecimal
    <3>11. Fits(Integer(s, p)) => x.b.num = Integer(s, p)
      <4>1. CASE s[p + 1] = MINUS
        BY <2>4, <3>2, <3>3, <3>5, <3>8, <3>9, <3>10, <4>1, SignedIs
      <4>2. CASE s[p + 1] # MINUS
        BY <2>4, <3>2, <3>3, <3>5, <3>8, <3>9, <3>10, <4>2, SignedIs
      <4>3. QED
        BY <4>1, <4>2
    <3>12. IntEnd(s, p) \in p + 1 .. n + 1
      BY <1>4, <2>10
    <3>13. x.ctx = Rest(t, IntEnd(s, p))
      BY <1>4, <3>2, <3>5
    <3>14. IsInteger(x, s, t, p, IntEnd(s, p))
      BY <1>1, <3>5, <3>11, <3>12, <3>13 DEF IsInteger
    <3>15. QED
      BY <3>14 DEF x
  <2>11. q > n \/ q <= n
    BY <1>1
  <2>12. QED
    BY <2>9, <2>10, <2>11
<1>10. QED
  BY <1>8, <1>9

\* The string at p of a message whose length fits a uintmax_t.
LEMMA NextStringIs ==
  ASSUME NEW s, NEW t, Begins(t, s), Len(s) < UINTMAX, NEW p \in 1 .. Len(t),
         StringEnd(s, p) # 0
  PROVE  \/ CutShort(NextString(t, Rest(t, p)), s, t, p)
         \/ IsString(NextString(t, Rest(t, p)), s, t, p, StringEnd(s, p))
<1>1. PICK n \in Nat, m \in Nat : n = Len(t) /\ m = Len(s) /\ n <= m
  BY BeginsLen
<1>2. t \in Seq(Nat) /\ s \in Seq(Nat) /\ p \in 1 .. m
  BY <1>1, BeginsLen, BeginsAt
<1>3. PICK q \in p + 1 .. m : /\ StringTo(s, p, q)
                              /\ Decimal(s, p, q - 1) \in Nat
                              /\ StringEnd(s, p) = q + 1 + Decimal(s, p, q - 1)
                              /\ StringEnd(s, p) \in p + 2 .. m + 1
  BY <1>1, <1>2, StringParts
<1>4. s[q] = COLON /\ s[q] \notin Digits /\ AllDigits(s, p, q - 1)
  BY <1>3, Signs, Zenon DEF StringTo
<1>5. PICK l \in Nat, e \in Nat : /\ l = Decimal(s, p, q - 1) /\ e = StringEnd(s, p)
                                  /\ e = q + 1 + l /\ e <= m + 1
  BY <1>3
<1> DEFINE u == InitUint(t, Rest(t, p), COLON)
           x == NextString(t, Rest(t, p))
<1>6. x = IF u.b.kind # "UINT" THEN Take(u.b, Rest(t, p))
          ELSE IF u.b.num \in 0 .. u.ctx.len
            THEN Take(Benr("STRING", 0, Ctx(u.ctx.pos, u.b.num)), Advance(u.ctx, u.b.num))
          ELSE Fail("STRING_TOO_LONG", u.b.num, 0, Rest(t, p))
  BY Zenon DEF NextString
<1>7. p \in 1 .. n + 1 /\ q \in p .. m /\ q \in Nat /\ p \in Nat /\ p < q
  BY <1>1, <1>3
<1>8. u = InitUint(t, Rest(t, p), s[q])
  BY <1>4
<1> HIDE DEF u, x
<1>9. CASE q > n
  <2>1. u = Fail("UNEXPECTED_EOF_IN_INT", 0, 0, Rest(t, p))
    BY <1>1, <1>4, <1>7, <1>8, <1>9, InitUintIs
  <2>2. u.b.kind = "UNEXPECTED_EOF_IN_INT"
    BY <2>1, FailIs
  <2>3. x = Take(u.b, Rest(t, p))
    BY <1>6, <2>2
  <2>4. x.b = u.b /\ x.ctx = Rest(t, p)
    BY <2>3, TakenIs
  <2>5. n < m
    BY <1>3, <1>9
  <2>6. CutShort(x, s, t, p)
    BY <1>1, <2>2, <2>4, <2>5, KindsDiffer DEF CutShort
  <2>7. QED
    BY <2>6 DEF x
<1>10. CASE q <= n
  <2>1. u = Take(Benr("UINT", UintValue(t, p, q - 1), Nowhere), Rest(t, q + 1))
    BY <1>1, <1>4, <1>7, <1>8, <1>10, InitUintIs
  <2>2. /\ u.b.kind = "UINT" /\ u.b.num = UintValue(t, p, q - 1)
        /\ u.ctx = Rest(t, q + 1)
    BY <2>1, TakeIs
  <2>3. UintValue(t, p, q - 1) = l
    <3>1. p \in 1 .. m /\ q - 1 \in p .. m /\ q - 1 <= n /\ p .. q - 1 \subseteq 1 .. n
      BY <1>2, <1>7, <1>10
    <3>2. Same(s, t, p, q - 1)
      <4>1. \A r \in 1 .. n : s[r] = t[r]
        BY <1>1, Zenon DEF Begins, Same
      <4>2. QED
        BY <3>1, <4>1, Zenon DEF Same
    <3>3. l < UINTMAX
      <4>1. PICK w \in Nat : w = UINTMAX /\ m < w
        BY <1>1, UintAssumption
      <4>2. l <= m
        BY <1>1, <1>5, <1>7
      <4>3. l < w
        BY <1>1, <1>5, <4>1, <4>2
      <4>4. QED
        BY <4>1, <4>3, Zenon
    <3>4. QED
      <4>1. p \in 1 .. Len(s) /\ q - 1 \in p .. Len(s) /\ q - 1 <= Len(t)
        BY <1>1, <3>1, Zenon
      <4>2. QED
        BY <1>2, <1>4, <1>5, <3>2, <3>3, <4>1, UintIsDecimal
  <2>4. q + 1 \in 1 .. n + 1 /\ n + 1 - (q + 1) \in Nat
    BY <1>7, <1>10
  <2>5. u.ctx.pos = q + 1 /\ u.ctx.len = n + 1 - (q + 1)
    <3>1. q + 1 \in 1 .. Len(t) + 1
      BY <1>1, <2>4, Zenon
    <3>2. Rest(t, q + 1).pos = q + 1 /\ Rest(t, q + 1).len = Len(t) + 1 - (q + 1)
      BY <1>2, <3>1, RestIs, Zenon
    <3>3. QED
      BY <1>1, <2>2, <3>2, Zenon
  <2>6. CASE l <= n + 1 - (q + 1)
    <3>1. l \in 0 .. u.ctx.len /\ l \in 0 .. n + 1 - (q + 1)
      BY <2>4, <2>5, <2>6
    <3>2. x = Take(Benr("STRING", 0, Ctx(q + 1, l)), Advance(Rest(t, q + 1), l))
      <4>1. u.b.kind = "UINT" /\ u.b.num = l /\ u.ctx = Rest(t, q + 1) /\ u.ctx.pos = q + 1
        BY <2>2, <2>3, <2>5, Zenon
      <4>2. x = Take(Benr("STRING", 0, Ctx(u.ctx.pos, l)), Advance(u.ctx, l))
        BY <1>6, <3>1, <4>1, Zenon
      <4>3. QED
        BY <4>1, <4>2, Zenon
    <3>3. Advance(Rest(t, q + 1), l) = Rest(t, q + 1 + l)
      <4>1. q + 1 \in 1 .. Len(t) + 1 /\ l \in 0 .. Len(t) + 1 - (q + 1)
        BY <1>1, <2>4, <3>1, Zenon
      <4>2. QED
        BY <1>2, <4>1, AdvanceIs, Zenon
    <3>4. x.b.kind = "STRING" /\ x.b.at = Ctx(q + 1, l) /\ x.ctx = Rest(t, q + 1 + l)
      BY <3>2, <3>3, TakeIs
    <3>5. q + 1 + l \in p + 1 .. n + 1
      BY <1>7, <2>4, <2>6
    <3>6. /\ Ctx(q + 1, l).pos = q + 1 /\ Ctx(q + 1, l).len = l
          /\ q + 1 - 1 = q /\ q + 1 - 2 = q - 1
      BY <1>7 DEF Ctx
    <3>7. x.b.at.pos - 1 = q /\ x.b.at.pos - 2 = q - 1 /\ x.b.at.pos + x.b.at.len = q + 1 + l
      BY <3>4, <3>6
    <3>8. IsString(x, s, t, p, q + 1 + l)
      <4>1. q + 1 \in p + 2 .. q + 1 + l
        BY <1>1, <1>5, <1>7
      <4>2. x.b.at.pos = q + 1 /\ x.b.at.len \in Nat
        BY <1>5, <3>4, <3>6
      <4>3. StringFrom(x.b, s, p, q + 1 + l)
        BY <1>4, <3>4, <3>7, <4>1, <4>2, Zenon DEF StringFrom
      <4>4. QED
        BY <1>1, <3>4, <3>5, <4>3, Zenon DEF IsString
    <3>9. QED
      BY <1>5, <3>8 DEF x
  <2>7. CASE l > n + 1 - (q + 1)
    <3>1. l \notin 0 .. u.ctx.len
      BY <2>4, <2>5, <2>7
    <3>2. x = Fail("STRING_TOO_LONG", l, 0, Rest(t, p))
      BY <1>6, <2>2, <2>3, <3>1, Zenon
    <3>3. x.b.kind = "STRING_TOO_LONG" /\ x.ctx = Rest(t, p)
      BY <3>2, FailIs
    <3>4. n < m
      BY <1>5, <1>7, <2>7
    <3>5. CutShort(x, s, t, p)
      BY <1>1, <3>3, <3>4, KindsDiffer DEF CutShort
    <3>6. QED
      BY <3>5 DEF x
  <2>8. QED
    BY <1>7, <2>4, <2>6, <2>7
<1>11. QED
  BY <1>7, <1>9, <1>10

\* the token at p is the opening of a container of that kind
Opens(x, t, p, kind) ==
  /\ x.b.kind = kind
  /\ x.b.at = Rest(t, p + 1)
  /\ x.ctx = Rest(t, p + 1)

IsEnd(x, t, p)     == x.b.kind = "X_END" /\ x.ctx = Rest(t, p + 1)
IsNothing(x, t, p) == x.b = None /\ x.b.kind = "NONE" /\ x.ctx = Rest(t, p)

\* The token benr_next takes at p is the one that the grammar has there.
LEMMA TokenIs ==
  ASSUME NEW s, NEW t, Begins(t, s), Len(s) < UINTMAX, NEW p \in 1 .. Len(t)
  PROVE  /\ s[p] = E => IsEnd(BenrNext(t, Rest(t, p)), t, p)
         /\ s[p] = L => Opens(BenrNext(t, Rest(t, p)), t, p, "LIST")
         /\ s[p] = D => Opens(BenrNext(t, Rest(t, p)), t, p, "DICT")
         /\ s[p] = I /\ IntEnd(s, p) # 0 =>
              \/ CutShort(BenrNext(t, Rest(t, p)), s, t, p)
              \/ IsInteger(BenrNext(t, Rest(t, p)), s, t, p, IntEnd(s, p))
         /\ s[p] \in Digits /\ StringEnd(s, p) # 0 =>
              \/ CutShort(BenrNext(t, Rest(t, p)), s, t, p)
              \/ IsString(BenrNext(t, Rest(t, p)), s, t, p, StringEnd(s, p))
<1>1. PICK n \in Nat, m \in Nat : n = Len(t) /\ m = Len(s) /\ n <= m
  BY BeginsLen
<1>2. t \in Seq(Nat) /\ s \in Seq(Nat) /\ t[p] = s[p] /\ p \in 1 .. n + 1
      /\ p # n + 1 /\ 1 \in 0 .. n + 1 - p
  <2>1. t \in Seq(Nat) /\ s \in Seq(Nat) /\ t[p] = s[p]
    BY BeginsLen, BeginsAt, Zenon
  <2>2. p \in 1 .. n + 1 /\ p # n + 1 /\ 1 \in 0 .. n + 1 - p
    BY <1>1
  <2>3. QED
    BY <2>1, <2>2
<1> DEFINE c == Rest(t, p)
           x == BenrNext(t, c)
           b == Peek(t, c)
<1>3. /\ c.len # 0 /\ b = s[p]
      /\ Advance(c, 1) = Rest(t, p + 1)
  <2>1. p \in 1 .. Len(t) + 1 /\ p # Len(t) + 1 /\ 1 \in 0 .. Len(t) + 1 - p
    BY <1>1, <1>2, Zenon
  <2>2. QED
    BY <1>2, <2>1, RestIs, Zenon
<1>4. x = CASE b = I -> NextInt(t, c)
            [] b = D -> Open("DICT", c)
            [] b = L -> Open("LIST", c)
            [] b = E -> Take(Benr("X_END", 0, Nowhere), Advance(c, 1))
            [] b \in Digits -> NextString(t, c)
            [] OTHER -> Fail("UNEXPECTED_BYTE", 0, c.pos, c)
  BY <1>3, Zenon DEF BenrNext
<1> HIDE DEF x, b
<1>5. ASSUME s[p] = E PROVE IsEnd(x, t, p)
  <2>1. x = Take(Benr("X_END", 0, Nowhere), Advance(c, 1))
    BY <1>3, <1>4, <1>5 DEF I, D, L, E, Digits
  <2>2. x.b.kind = "X_END" /\ x.ctx = Advance(c, 1)
    BY <2>1, TakeIs
  <2>3. QED
    BY <1>3, <2>2 DEF IsEnd
<1>6. ASSUME s[p] = L PROVE Opens(x, t, p, "LIST")
  <2>1. x = Take(Benr("LIST", 0, Advance(c, 1)), Advance(c, 1))
    BY <1>3, <1>4, <1>6 DEF Open, I, D, L, E, Digits
  <2>2. x.b.kind = "LIST" /\ x.b.at = Advance(c, 1) /\ x.ctx = Advance(c, 1)
    BY <2>1, TakeIs
  <2>3. QED
    BY <1>3, <2>2 DEF Opens
<1>7. ASSUME s[p] = D PROVE Opens(x, t, p, "DICT")
  <2>1. x = Take(Benr("DICT", 0, Advance(c, 1)), Advance(c, 1))
    BY <1>3, <1>4, <1>7 DEF Open, I, D, L, E, Digits
  <2>2. x.b.kind = "DICT" /\ x.b.at = Advance(c, 1) /\ x.ctx = Advance(c, 1)
    BY <2>1, TakeIs
  <2>3. QED
    BY <1>3, <2>2 DEF Opens
<1>8. ASSUME s[p] = I PROVE x = NextInt(t, c)
  BY <1>3, <1>4, <1>8 DEF I, D, L, E, Digits
<1>9. ASSUME s[p] \in Digits PROVE x = NextString(t, c)
  BY <1>3, <1>4, <1>9 DEF I, D, L, E, Digits
<1>10. QED
  <2>1. s[p] = I /\ IntEnd(s, p) # 0 =>
              CutShort(x, s, t, p) \/ IsInteger(x, s, t, p, IntEnd(s, p))
    BY <1>8, NextIntIs, Zenon
  <2>2. s[p] \in Digits /\ StringEnd(s, p) # 0 =>
              CutShort(x, s, t, p) \/ IsString(x, s, t, p, StringEnd(s, p))
    BY <1>9, NextStringIs, Zenon
  <2>3. QED
    BY <1>5, <1>6, <1>7, <2>1, <2>2, Zenon DEF x

\* behind the last byte benr_next takes nothing
LEMMA NothingLeft ==
  ASSUME NEW t \in Seq(Nat)
  PROVE  IsNothing(BenrNext(t, Rest(t, Len(t) + 1)), t, Len(t) + 1)
<1> DEFINE c == Rest(t, Len(t) + 1)
           x == BenrNext(t, c)
<1>1. c.len = 0
  <2>1. Len(t) + 1 \in 1 .. Len(t) + 1
    OBVIOUS
  <2>2. QED
    BY <2>1, RestIs
<1>2. x = Take(None, c)
  BY <1>1 DEF BenrNext
<1> HIDE DEF x, c
<1>3. x.b = None /\ x.ctx = c
  BY <1>2, TakenIs
<1>4. None.kind = "NONE"
  BY DEF None, Benr
<1>5. QED
  BY <1>3, <1>4 DEF IsNothing, x, c

-----------------------------------------------------------------------------
(* Containers within containers *)

\* At q goes on, with an element, a key or the value of a key, a container
\* that has its end marker at c.
Pending(s, q, c) ==
  /\ q \in 1 .. Len(s) + 1
  /\ c # 0
  /\ \/ Close(s, "LIST", q) = c
     \/ Close(s, "DICT", q) = c
     \/ ValueEnd(s, q) # 0 /\ Close(s, "DICT", ValueEnd(s, q)) = c

\* There is the end marker at q, or a value behind which the container goes on.
LEMMA PendingIs ==
  ASSUME NEW s \in Seq(Nat), NEW q, NEW c, Pending(s, q, c)
  PROVE  /\ q \in 1 .. Len(s) /\ c \in 1 .. Len(s)
         /\ s[q] = E => q = c
         /\ s[q] # E => ValueEnd(s, q) # 0 /\ Pending(s, ValueEnd(s, q), c)
<1>1. q \in 1 .. Len(s) + 1 /\ c # 0 /\ "LIST" \in Kinds /\ "DICT" \in Kinds
  BY DEF Pending, Kinds
<1>2. q # Len(s) + 1
  <2>1. /\ Close(s, "LIST", Len(s) + 1) = 0 /\ Close(s, "DICT", Len(s) + 1) = 0
        /\ ValueEnd(s, Len(s) + 1) = 0
    BY <1>1, CloseAtEnd, ValueEndAtEnd, Zenon
  <2>2. QED
    BY <1>1, <2>1, Zenon DEF Pending
<1>3. q \in 1 .. Len(s)
  BY <1>1, <1>2
<1>4. ASSUME NEW p \in 1 .. Len(s), ValueEnd(s, p) # 0
      PROVE  ValueEnd(s, p) \in 1 .. Len(s) + 1
  <2>1. ValueEnd(s, p) \in p + 1 .. Len(s) + 1
    BY <1>4, ValueEndIs
  <2>2. QED
    BY <2>1
<1>5. ASSUME NEW p \in 1 .. Len(s) + 1, NEW kind \in Kinds, Close(s, kind, p) = c
      PROVE  c \in 1 .. Len(s)
  <2>1. c \in p .. Len(s)
    BY <1>1, <1>5, CloseBounds
  <2>2. QED
    BY <2>1
<1>6. CASE Close(s, "LIST", q) = c
  <2>1. s[q] = E => q = c
    BY <1>3, <1>6, CloseIs, Zenon
  <2>2. s[q] # E => ValueEnd(s, q) # 0 /\ Close(s, "LIST", ValueEnd(s, q)) = c
    BY <1>1, <1>3, <1>6, CloseIs, Zenon
  <2>3. s[q] # E => Pending(s, ValueEnd(s, q), c)
    BY <1>1, <1>3, <1>4, <2>2, Zenon DEF Pending
  <2>4. QED
    BY <1>1, <1>3, <1>5, <1>6, <2>1, <2>2, <2>3, Zenon
<1>7. CASE Close(s, "DICT", q) = c
  <2>1. s[q] = E => q = c
    BY <1>3, <1>7, CloseIs, Zenon
  <2>2. s[q] # E => /\ s[q] \in Digits /\ StringEnd(s, q) # 0
                    /\ ValueEnd(s, StringEnd(s, q)) # 0
                    /\ Close(s, "DICT", ValueEnd(s, StringEnd(s, q))) = c
    BY <1>1, <1>3, <1>7, CloseIs, Zenon
  <2>3. s[q] \in Digits => ValueEnd(s, q) = StringEnd(s, q)
    BY <1>3, ValueEndIs, Zenon
  <2>4. s[q] # E => ValueEnd(s, q) # 0 /\ Pending(s, ValueEnd(s, q), c)
    BY <1>1, <1>3, <1>4, <2>2, <2>3, Zenon DEF Pending
  <2>5. QED
    BY <1>1, <1>3, <1>5, <1>7, <2>1, <2>4, Zenon
<1>8. CASE ValueEnd(s, q) # 0 /\ Close(s, "DICT", ValueEnd(s, q)) = c
  <2>1. s[q] # E
    <3>1. E \notin {I, L, D} \cup Digits
      BY DEF E, I, L, D, Digits
    <3>2. QED
      BY <1>3, <1>8, <3>1, ValueEndIs, Zenon
  <2>2. Pending(s, ValueEnd(s, q), c)
    BY <1>1, <1>3, <1>4, <1>8, Zenon DEF Pending
  <2>3. QED
    BY <1>1, <1>3, <1>4, <1>5, <1>8, <2>1, <2>2, Zenon
<1>9. QED
  BY <1>6, <1>7, <1>8, Zenon DEF Pending

\* At q the containers that close at close[1 .. depth] are open, the innermost
\* last; the outermost ends before the position end.
Stack(s, q, close, depth, end) ==
  /\ depth \in Nat \ {0}
  /\ close \in [1 .. depth -> Nat]
  /\ Pending(s, q, close[depth])
  /\ \A j \in 2 .. depth : Pending(s, close[j] + 1, close[j - 1])
  /\ close[1] + 1 = end

Within(s, q, depth, end) == \E close : Stack(s, q, close, depth, end)

\* Behind the opening byte of a container one is open.
LEMMA StackStarts ==
  ASSUME NEW s \in Seq(Nat), NEW kind \in Kinds, NEW q \in 1 .. Len(s) + 1,
         Close(s, kind, q) # 0
  PROVE  Within(s, q, 1, Close(s, kind, q) + 1)
<1> DEFINE close == [j \in 1 .. 1 |-> Close(s, kind, q)]
<1>1. Close(s, kind, q) \in q .. Len(s)
  BY CloseBounds
<1>2. Close(s, kind, q) \in Nat
  BY <1>1
<1>3. Pending(s, q, Close(s, kind, q))
  BY Zenon DEF Pending, Kinds
<1>4. 1 \in 1 .. 1 /\ close[1] = Close(s, kind, q)
  OBVIOUS
<1>5. 1 \in Nat \ {0} /\ 2 .. 1 = {} /\ close \in [1 .. 1 -> Nat]
  BY <1>2
<1> HIDE DEF close
<1>6. Stack(s, q, close, 1, Close(s, kind, q) + 1)
  BY <1>3, <1>4, <1>5, Zenon DEF Stack
<1>7. QED
  BY <1>6 DEF Within

\* Behind a value that is no container the same are open.
LEMMA StackOn ==
  ASSUME NEW s \in Seq(Nat), NEW q, NEW depth, NEW end, Within(s, q, depth, end),
         s[q] # E
  PROVE  /\ q \in 1 .. Len(s) /\ ValueEnd(s, q) # 0
         /\ Within(s, ValueEnd(s, q), depth, end)
<1>1. PICK close : Stack(s, q, close, depth, end)
  BY DEF Within
<1>2. Pending(s, q, close[depth])
  BY <1>1 DEF Stack
<1>3. q \in 1 .. Len(s) /\ ValueEnd(s, q) # 0 /\ Pending(s, ValueEnd(s, q), close[depth])
  BY <1>2, PendingIs, Zenon
<1>4. Stack(s, ValueEnd(s, q), close, depth, end)
  BY <1>1, <1>3, Zenon DEF Stack
<1>5. QED
  BY <1>3, <1>4 DEF Within

\* Behind the opening byte of a container one more is open.
LEMMA StackDeeper ==
  ASSUME NEW s \in Seq(Nat), NEW q, NEW depth, NEW end, Within(s, q, depth, end),
         s[q] \in {L, D}
  PROVE  Within(s, q + 1, depth + 1, end)
<1>1. PICK close : Stack(s, q, close, depth, end)
  BY DEF Within
<1>2. PICK d \in Nat \ {0} : d = depth
  BY <1>1 DEF Stack
<1>3. /\ Pending(s, q, close[d]) /\ close \in [1 .. d -> Nat]
      /\ \A j \in 2 .. d : Pending(s, close[j] + 1, close[j - 1])
      /\ close[1] + 1 = end
  BY <1>1, <1>2, Zenon DEF Stack
<1>4. s[q] # E
  BY DEF L, D, E
<1>5. q \in 1 .. Len(s) /\ ValueEnd(s, q) # 0 /\ Pending(s, ValueEnd(s, q), close[d])
  BY <1>3, <1>4, PendingIs, Zenon
<1>6. PICK kind \in Kinds : ValueEnd(s, q) = PastEnd(Close(s, kind, q + 1))
  <2>1. "LIST" \in Kinds /\ "DICT" \in Kinds
    BY DEF Kinds
  <2>2. QED
    BY <1>5, <2>1, ValueEndIs, Zenon
<1>7. q + 1 \in 1 .. Len(s) + 1
  BY <1>5
<1>8. PICK c : c = Close(s, kind, q + 1)
  OBVIOUS
<1>9. c = 0 \/ c \in q + 1 .. Len(s)
  BY <1>7, <1>8, CloseBounds
<1>10. c = 0 \/ c \in Nat
  BY <1>5, <1>9
<1>11. c # 0 /\ c \in Nat /\ ValueEnd(s, q) = c + 1
  BY <1>5, <1>6, <1>8, <1>10, PastEndIs, Zenon
<1>12. Pending(s, q + 1, c)
  BY <1>7, <1>8, <1>11, Zenon DEF Pending, Kinds
<1> DEFINE more == [j \in 1 .. d + 1 |-> IF j = d + 1 THEN c ELSE close[j]]
<1>13. /\ d + 1 \in Nat \ {0} /\ d + 1 \in 1 .. d + 1 /\ 1 \in 1 .. d + 1 /\ 1 # d + 1
       /\ d + 1 - 1 = d /\ d # d + 1 /\ d \in 1 .. d + 1
       /\ \A j \in 2 .. d + 1 : j = d + 1 \/ j \in 2 .. d
       /\ \A j \in 2 .. d : j # d + 1 /\ j - 1 # d + 1 /\ j \in 1 .. d + 1 /\ j - 1 \in 1 .. d + 1
  OBVIOUS
<1>14. \A j \in 1 .. d + 1 : j # d + 1 => j \in 1 .. d
  OBVIOUS
<1>15. more \in [1 .. d + 1 -> Nat]
  BY <1>3, <1>11, <1>14
<1>16. more[d + 1] = c /\ more[d] = close[d] /\ more[1] = close[1]
  BY <1>13, Zenon
<1>20. \A j \in 2 .. d : more[j] = close[j] /\ more[j - 1] = close[j - 1]
  BY <1>13, Zenon
<1> HIDE DEF more
<1>17. ASSUME NEW j \in 2 .. d + 1 PROVE Pending(s, more[j] + 1, more[j - 1])
  <2>1. CASE j = d + 1
    <3>1. more[j] = c /\ more[j - 1] = close[d]
      <4>1. j - 1 = d
        BY <2>1
      <4>2. QED
        BY <1>16, <2>1, <4>1
    <3>2. ValueEnd(s, q) = more[j] + 1
      BY <1>11, <3>1, Zenon
    <3>3. Pending(s, ValueEnd(s, q), more[j - 1])
      BY <1>5, <3>1, Zenon
    <3>4. QED
      BY <3>2, <3>3, Zenon
  <2>2. CASE j \in 2 .. d
    <3>1. more[j] = close[j] /\ more[j - 1] = close[j - 1]
      BY <1>20, <2>2, Zenon
    <3>2. QED
      BY <1>3, <2>2, <3>1, Zenon
  <2>3. QED
    BY <1>13, <2>1, <2>2, Zenon
<1>18. Stack(s, q + 1, more, d + 1, end)
  BY <1>3, <1>12, <1>13, <1>15, <1>16, <1>17, Zenon DEF Stack
<1>19. QED
  BY <1>2, <1>18 DEF Within

\* Behind an end marker one less is open; behind the last, none.
LEMMA StackUp ==
  ASSUME NEW s \in Seq(Nat), NEW q, NEW depth, NEW end, Within(s, q, depth, end),
         s[q] = E
  PROVE  /\ q \in 1 .. Len(s)
         /\ depth > 1 => Within(s, q + 1, depth - 1, end)
         /\ depth = 1 => q + 1 = end
<1>1. PICK close : Stack(s, q, close, depth, end)
  BY DEF Within
<1>2. PICK d \in Nat \ {0} : d = depth
  BY <1>1 DEF Stack
<1>3. /\ Pending(s, q, close[d]) /\ close \in [1 .. d -> Nat]
      /\ \A j \in 2 .. d : Pending(s, close[j] + 1, close[j - 1])
      /\ close[1] + 1 = end
  BY <1>1, <1>2, Zenon DEF Stack
<1>4. q \in 1 .. Len(s) /\ q = close[d]
  BY <1>3, PendingIs, Zenon
<1>5. ASSUME d > 1 PROVE Within(s, q + 1, d - 1, end)
  <2> DEFINE less == [j \in 1 .. d - 1 |-> close[j]]
  <2>1. /\ d - 1 \in Nat \ {0} /\ d \in 2 .. d /\ 1 \in 1 .. d - 1 /\ d - 1 \in 1 .. d - 1
        /\ \A j \in 2 .. d - 1 : j \in 2 .. d /\ j \in 1 .. d - 1 /\ j - 1 \in 1 .. d - 1
        /\ \A j \in 1 .. d - 1 : j \in 1 .. d
    BY <1>5
  <2>2. less \in [1 .. d - 1 -> Nat]
    BY <1>3, <2>1
  <2>3. \A j \in 1 .. d - 1 : less[j] = close[j]
    OBVIOUS
  <2> HIDE DEF less
  <2>4. Pending(s, q + 1, less[d - 1])
    BY <1>3, <1>4, <2>1, <2>3, Zenon
  <2>5. \A j \in 2 .. d - 1 : Pending(s, less[j] + 1, less[j - 1])
    BY <1>3, <2>1, <2>3, Zenon
  <2>6. less[1] + 1 = end
    BY <1>3, <2>1, <2>3, Zenon
  <2>7. Stack(s, q + 1, less, d - 1, end)
    BY <2>1, <2>2, <2>4, <2>5, <2>6, Zenon DEF Stack
  <2>8. QED
    BY <2>7 DEF Within
<1>6. d = 1 => q + 1 = end
  BY <1>3, <1>4, Zenon
<1>7. QED
  BY <1>2, <1>4, <1>5, <1>6

-----------------------------------------------------------------------------
(* The tokens of values, and of what is within a container *)

\* b stands for the value at p
ReadAs(b, s, t, p) ==
  /\ p \in 1 .. Len(t)
  /\ ValueEnd(s, p) # 0
  /\ b.kind \in {"STRING", "INT", "LIST", "DICT"}
  /\ b.kind = "STRING" => StringFrom(b, s, p, ValueEnd(s, p))
  /\ b.kind = "INT" /\ Fits(Integer(s, p)) => b.num = Integer(s, p)
  /\ b.kind \in Kinds => b.at = Rest(t, p + 1) /\ Close(s, b.kind, p + 1) # 0
  /\ (b.kind = "LIST" <=> s[p] = L) /\ (b.kind = "DICT" <=> s[p] = D)

\* A value is taken whole, or it is a container and its opening byte is.
TakenAs(x, s, t, p) ==
  /\ ReadAs(x.b, s, t, p)
  /\ IF x.b.kind \in Kinds
     THEN /\ x.ctx = Rest(t, p + 1)
          /\ p + 1 \in 1 .. Len(t) + 1
          /\ Within(s, p + 1, 1, ValueEnd(s, p))
          /\ ValueEnd(s, p) = PastEnd(Close(s, x.b.kind, p + 1))
     ELSE /\ x.ctx = Rest(t, ValueEnd(s, p))
          /\ ValueEnd(s, p) \in 1 .. Len(t) + 1

\* a container at p is opened: its elements go on behind the byte taken
LEMMA ContainerTaken ==
  ASSUME NEW s, NEW t, Begins(t, s), NEW p \in 1 .. Len(t), NEW kind \in Kinds,
         ValueEnd(s, p) # 0, ValueEnd(s, p) = PastEnd(Close(s, kind, p + 1)),
         (kind = "LIST" <=> s[p] = L) /\ (kind = "DICT" <=> s[p] = D),
         NEW x, Opens(x, t, p, kind)
  PROVE  TakenAs(x, s, t, p)
<1>1. PICK n \in Nat, m \in Nat : n = Len(t) /\ m = Len(s) /\ n <= m
  BY BeginsLen
<1>2. /\ p + 1 \in 1 .. n + 1 /\ p + 1 \in 1 .. m + 1 /\ s \in Seq(Nat)
  BY <1>1, BeginsLen
<1>3. PICK c : c = Close(s, kind, p + 1)
  OBVIOUS
<1>4. c = 0 \/ c \in p + 1 .. m
  BY <1>1, <1>2, <1>3, CloseBounds
<1>5. c = 0 \/ c \in Nat
  BY <1>2, <1>4
<1>6. c # 0 /\ ValueEnd(s, p) = c + 1
  BY <1>3, <1>5, PastEndIs, Zenon
<1>7. Within(s, p + 1, 1, c + 1)
  BY <1>1, <1>2, <1>3, <1>6, StackStarts, Zenon
<1>8. kind \in {"LIST", "DICT"} /\ kind # "STRING" /\ kind # "INT"
  BY DEF Kinds
<1>9. x.b.kind = kind /\ x.b.at = Rest(t, p + 1) /\ x.ctx = Rest(t, p + 1)
  BY DEF Opens
<1>10. ReadAs(x.b, s, t, p)
  BY <1>3, <1>6, <1>8, <1>9, Zenon DEF ReadAs
<1>11. QED
  BY <1>1, <1>2, <1>6, <1>7, <1>9, <1>10, Zenon DEF TakenAs

(* At a value of a message of which t is all or the beginning, benr_next
   (benr.c:71) takes that value, or opens it when it is a container, or says that
   t is too short; it takes nothing else for it. *)
THEOREM ValueToken ==
  ASSUME NEW s, NEW t, Begins(t, s), Len(s) < UINTMAX, NEW p \in 1 .. Len(t),
         ValueEnd(s, p) # 0
  PROVE  \/ CutShort(BenrNext(t, Rest(t, p)), s, t, p)
         \/ TakenAs(BenrNext(t, Rest(t, p)), s, t, p)
<1> DEFINE x == BenrNext(t, Rest(t, p))
<1>1. p \in 1 .. Len(s) /\ s \in Seq(Nat) /\ "LIST" \in Kinds /\ "DICT" \in Kinds
  BY BeginsAt, BeginsLen DEF Kinds
<1>2. s[p] \in {I, L, D} \cup Digits
  BY <1>1, ValueEndIs, Zenon
<1>3. "INT" \notin Kinds /\ "STRING" \notin Kinds /\ "INT" # "STRING"
  BY DEF Kinds
<1>4. PICK n \in Nat : n = Len(t)
  BY BeginsLen
<1>5. CASE s[p] = I
  <2>1. ValueEnd(s, p) = IntEnd(s, p)
    BY <1>1, <1>5, ValueEndIs, Zenon
  <2>2. CutShort(x, s, t, p) \/ IsInteger(x, s, t, p, ValueEnd(s, p))
    BY <1>5, <2>1, TokenIs, Zenon
  <2> HIDE DEF x
  <2>3. ASSUME IsInteger(x, s, t, p, ValueEnd(s, p)) PROVE TakenAs(x, s, t, p)
    <3>1. /\ x.b.kind = "INT" /\ x.ctx = Rest(t, ValueEnd(s, p))
          /\ Fits(Integer(s, p)) => x.b.num = Integer(s, p)
          /\ ValueEnd(s, p) \in p + 1 .. n + 1
      BY <1>4, <2>3, Zenon DEF IsInteger
    <3>2. ValueEnd(s, p) \in 1 .. n + 1
      BY <1>4, <3>1
    <3>3. ReadAs(x.b, s, t, p)
      BY <1>3, <1>5, <3>1, FiveSigns, Zenon DEF ReadAs
    <3>4. QED
      BY <1>3, <1>4, <3>1, <3>2, <3>3, Zenon DEF TakenAs
  <2>4. QED
    BY <2>2, <2>3 DEF x
<1>6. CASE s[p] \in Digits
  <2>1. ValueEnd(s, p) = StringEnd(s, p)
    BY <1>1, <1>6, ValueEndIs, Zenon
  <2>2. CutShort(x, s, t, p) \/ IsString(x, s, t, p, ValueEnd(s, p))
    BY <1>6, <2>1, TokenIs, Zenon
  <2> HIDE DEF x
  <2>3. ASSUME IsString(x, s, t, p, ValueEnd(s, p)) PROVE TakenAs(x, s, t, p)
    <3>1. /\ x.b.kind = "STRING" /\ x.ctx = Rest(t, ValueEnd(s, p))
          /\ StringFrom(x.b, s, p, ValueEnd(s, p))
          /\ ValueEnd(s, p) \in p + 1 .. n + 1
      BY <1>4, <2>3, Zenon DEF IsString, StringFrom
    <3>2. ValueEnd(s, p) \in 1 .. n + 1
      BY <1>4, <3>1
    <3>3. ReadAs(x.b, s, t, p)
      BY <1>3, <1>6, <3>1, FiveSigns, Zenon DEF ReadAs
    <3>4. QED
      BY <1>3, <1>4, <3>1, <3>2, <3>3, Zenon DEF TakenAs
  <2>4. QED
    BY <2>2, <2>3 DEF x
<1>7. CASE s[p] = L
  <2>1. ValueEnd(s, p) = PastEnd(Close(s, "LIST", p + 1))
    BY <1>1, <1>7, ValueEndIs, Zenon
  <2>2. Opens(x, t, p, "LIST")
    BY <1>7, TokenIs, Zenon
  <2>3. ("LIST" = "LIST" <=> s[p] = L) /\ ("LIST" = "DICT" <=> s[p] = D)
    BY <1>7, FiveSigns
  <2>4. QED
    BY <1>1, <2>1, <2>2, <2>3, ContainerTaken, Zenon
<1>8. CASE s[p] = D
  <2>1. ValueEnd(s, p) = PastEnd(Close(s, "DICT", p + 1))
    BY <1>1, <1>8, ValueEndIs, Zenon
  <2>2. Opens(x, t, p, "DICT")
    BY <1>8, TokenIs, Zenon
  <2>3. ("DICT" = "LIST" <=> s[p] = L) /\ ("DICT" = "DICT" <=> s[p] = D)
    BY <1>8, FiveSigns
  <2>4. QED
    BY <1>1, <2>1, <2>2, <2>3, ContainerTaken, Zenon
<1>9. QED
  BY <1>2, <1>5, <1>6, <1>7, <1>8, Zenon

\* What the token at q does to the containers that are open there.
Scanned(x, s, t, q, depth, end) ==
  \/ x.b.kind = "X_END" /\ depth = 1 /\ x.ctx = Rest(t, q + 1) /\ q + 1 = end
  \/ \E r \in 1 .. Len(t) + 1 :
       /\ x.ctx = Rest(t, r)
       /\ \/ x.b.kind = "X_END" /\ depth > 1 /\ Within(s, r, depth - 1, end)
          \/ x.b.kind \in {"STRING", "INT"} /\ Within(s, r, depth, end)
          \/ x.b.kind \in Kinds /\ Within(s, r, depth + 1, end)

\* One round of ctx_adv_container inside a container that closes: the token read
\* is an element, a container one level down or the end marker of the innermost
\* one, or the message is too short.
LEMMA ScanToken ==
  ASSUME NEW s, NEW t, Begins(t, s), Len(s) < UINTMAX, NEW q \in 1 .. Len(t),
         NEW depth, NEW end, Within(s, q, depth, end)
  PROVE  \/ CutShort(BenrNext(t, Rest(t, q)), s, t, q)
         \/ /\ Scanned(BenrNext(t, Rest(t, q)), s, t, q, depth, end)
            /\ q + 1 \in 1 .. Len(t) + 1
<1> DEFINE x == BenrNext(t, Rest(t, q))
<1>1. s \in Seq(Nat) /\ q \in 1 .. Len(s)
  BY BeginsLen, BeginsAt
<1>2. PICK n \in Nat : n = Len(t)
  BY BeginsLen
<1>3. q + 1 \in 1 .. n + 1
  BY <1>2
<1>4. PICK d \in Nat \ {0} : d = depth
  BY DEF Within, Stack
<1>5. CASE s[q] = E
  <2>1. IsEnd(x, t, q)
    BY <1>5, TokenIs, Zenon
  <2> HIDE DEF x
  <2>2. x.b.kind = "X_END" /\ x.ctx = Rest(t, q + 1)
    BY <2>1 DEF IsEnd
  <2>3. /\ depth > 1 => Within(s, q + 1, depth - 1, end)
        /\ depth = 1 => q + 1 = end
    BY <1>1, <1>5, StackUp, Zenon
  <2>4. depth > 1 \/ depth = 1
    BY <1>4
  <2>5. Scanned(x, s, t, q, depth, end)
    BY <1>2, <1>3, <2>2, <2>3, <2>4, Zenon DEF Scanned
  <2>6. QED
    BY <1>2, <1>3, <2>5 DEF x
<1>6. CASE s[q] # E
  <2>1. ValueEnd(s, q) # 0 /\ Within(s, ValueEnd(s, q), depth, end)
    BY <1>1, <1>6, StackOn, Zenon
  <2>2. CutShort(x, s, t, q) \/ TakenAs(x, s, t, q)
    BY <2>1, ValueToken, Zenon
  <2>3. ASSUME TakenAs(x, s, t, q), x.b.kind \in Kinds
        PROVE  Scanned(x, s, t, q, depth, end)
    <3>1. s[q] \in {L, D}
      <4>1. s[q] \in {I, L, D} \cup Digits
        BY <1>1, <2>1, ValueEndIs, Zenon
      <4>2. ASSUME s[q] = I \/ s[q] \in Digits PROVE x.b.kind \in ErrorKinds \cup {"INT", "STRING"}
        <5>1. CutShort(x, s, t, q) \/ \E e : IsInteger(x, s, t, q, e) \/ IsString(x, s, t, q, e)
          <6>1. s[q] = I => ValueEnd(s, q) = IntEnd(s, q)
            BY <1>1, ValueEndIs, Zenon
          <6>2. s[q] \in Digits => ValueEnd(s, q) = StringEnd(s, q)
            BY <1>1, ValueEndIs, Zenon
          <6>3. QED
            BY <2>1, <4>2, <6>1, <6>2, TokenIs, Zenon
        <5> HIDE DEF x
        <5>2. QED
          BY <5>1, Zenon DEF CutShort, IsInteger, IsString, StringFrom
      <4> HIDE DEF x
      <4>3. "LIST" \notin ErrorKinds \cup {"INT", "STRING"} /\ "DICT" \notin ErrorKinds \cup {"INT", "STRING"}
        BY DEF ErrorKinds
      <4>4. QED
        BY <2>3, <4>1, <4>2, <4>3, Zenon DEF Kinds
    <3>2. Within(s, q + 1, depth + 1, end)
      BY <1>1, <3>1, StackDeeper, Zenon
    <3> HIDE DEF x
    <3>3. x.ctx = Rest(t, q + 1)
      BY <2>3, Zenon DEF TakenAs
    <3>4. QED
      BY <1>2, <1>3, <2>3, <3>2, <3>3, Zenon DEF Scanned
  <2> HIDE DEF x
  <2>4. ASSUME TakenAs(x, s, t, q), x.b.kind \notin Kinds
        PROVE  Scanned(x, s, t, q, depth, end)
    <3>1. x.b.kind \in {"STRING", "INT"}
      BY <2>4, Zenon DEF TakenAs, ReadAs, Kinds
    <3>2. x.ctx = Rest(t, ValueEnd(s, q)) /\ ValueEnd(s, q) \in 1 .. Len(t) + 1
      BY <2>4, Zenon DEF TakenAs
    <3>3. QED
      BY <2>1, <3>1, <3>2, Zenon DEF Scanned
  <2>5. QED
    BY <1>2, <1>3, <2>2, <2>3, <2>4 DEF x
<1>7. QED
  BY <1>5, <1>6

-----------------------------------------------------------------------------
(* The two tokenizers *)

(* benr_init_uint and _benp_next_uint differ in the name of one error. *)
SameUint(r, p) ==
  /\ \/ r.b.kind = "UINT" /\ p.ev.kind = "UINT"
     \/ r.b.kind = "UNEXPECTED_EOF_IN_INT" /\ p.ev.kind = "UNEXPECTED_EOF"
     \/ /\ r.b.kind = "UNEXPECTED_BYTE_IN_INT"
        /\ p.ev.kind = "UNEXPECTED_BYTE_IN_INT"
  /\ p.ev.num = r.b.num
  /\ p.ev.at = r.b.at
  /\ p.ctx = r.ctx

\* the digits of a number up to its terminator give both the same number or error
LEMMA UintsAgree ==
  ASSUME NEW t, NEW c, NEW end
  PROVE  SameUint(InitUint(t, c, end), BenpUint(t, c, end))
  <1> DEFINE r == InitUint(t, c, end)
             p == BenpUint(t, c, end)
             q == Stop(t, c)
             n == UintValue(t, c.pos, q - 1)
             d == Advance(c, q + 1 - c.pos)
  <1> USE DEF Fail, Take, Benr, Emit, Event, NoBytes, Nowhere
  <1>1. CASE ~Stops(t, c)
    <2>1. /\ r.b = Benr("UNEXPECTED_EOF_IN_INT", 0, Ctx(0, 0)) /\ r.ctx = c
          /\ p.ev = Event("UNEXPECTED_EOF", 0, Ctx(0, 0)) /\ p.ctx = c
        BY <1>1 DEF InitUint, BenpUint
    <2> QED BY <2>1 DEF SameUint
  <1>2. CASE Stops(t, c) /\ t[q] = end
    <2>1. /\ r.b = Benr("UINT", n, Ctx(0, 0)) /\ r.ctx = d
          /\ p.ev = Event("UINT", n, Ctx(0, 0)) /\ p.ctx = d
        BY <1>2 DEF InitUint, BenpUint
    <2> QED BY <2>1 DEF SameUint
  <1>3. CASE Stops(t, c) /\ t[q] # end
    <2>1. /\ r.b = Benr("UNEXPECTED_BYTE_IN_INT", 0, Ctx(q, 0)) /\ r.ctx = c
          /\ p.ev = Event("UNEXPECTED_BYTE_IN_INT", 0, Ctx(q, 0)) /\ p.ctx = c
        BY <1>3 DEF InitUint, BenpUint
    <2> QED BY <2>1 DEF SameUint
  <1> QED BY <1>1, <1>2, <1>3

\* a result of benr_next and one of benp_next
SameResult(r, p) == SameToken(r.b, p.ev) /\ p.ctx = r.ctx

\* an error of the number is handed out alike, and the context stays
LEMMA FailuresAgree ==
  ASSUME NEW r, NEW p, SameUint(r, p), r.b.kind # "UINT", NEW c
  PROVE  SameResult(Take(r.b, c), Emit(p.ev, c))
  <1>1. /\ Take(r.b, c).b = r.b /\ Take(r.b, c).ctx = c
        /\ Emit(p.ev, c).ev = p.ev /\ Emit(p.ev, c).ctx = c
      BY DEF Take, Emit
  <1>2. /\ p.ev.num = r.b.num /\ p.ev.at = r.b.at
        /\ <<r.b.kind, p.ev.kind>> \in
             {<<"UNEXPECTED_EOF_IN_INT", "UNEXPECTED_EOF">>,
              <<"UNEXPECTED_BYTE_IN_INT", "UNEXPECTED_BYTE_IN_INT">>}
      BY DEF SameUint
  <1> QED BY <1>1, <1>2 DEF SameResult, SameToken

\* an integer is the same to both
LEMMA IntsAgree ==
  ASSUME NEW t, NEW c
  PROVE  SameResult(NextInt(t, c), BenpInteger(t, c))
  <1> DEFINE d == Advance(c, 1)
             minus == Peek(t, d) = MINUS
             f == IF minus THEN Advance(d, 1) ELSE d
             r == InitUint(t, f, E)
             p == BenpUint(t, f, E)
             n == Signed(r.b.num, IF minus THEN -1 ELSE 1)
  <1>1. SameUint(r, p)
      BY UintsAgree
  <1>2. CASE d.len = 0
    <2>1. /\ NextInt(t, c) = Fail("UNEXPECTED_EOF", 0, 0, c)
          /\ BenpInteger(t, c) = Emit(Event("UNEXPECTED_EOF", 0, NoBytes), c)
        BY <1>2 DEF NextInt, BenpInteger
    <2> QED BY <2>1 DEF SameResult, SameToken, Fail, Take, Benr, Emit, Event,
                        NoBytes
  <1>3. CASE d.len # 0 /\ r.b.kind # "UINT"
    <2>1. p.ev.kind # "UINT"
        BY <1>1, <1>3 DEF SameUint
    <2>2. NextInt(t, c) = Take(r.b, c) /\ BenpInteger(t, c) = Emit(p.ev, c)
        BY <1>3, <2>1 DEF NextInt, BenpInteger
    <2> QED BY <1>1, <1>3, <2>2, FailuresAgree
  <1>4. CASE d.len # 0 /\ r.b.kind = "UINT"
    <2>1. p.ev.kind = "UINT" /\ p.ev.num = r.b.num /\ p.ctx = r.ctx
        BY <1>1, <1>4 DEF SameUint
    <2>2. /\ NextInt(t, c) = Take(Benr("INT", n, Nowhere), r.ctx)
          /\ BenpInteger(t, c) = Emit(Event("INTEGER", n, NoBytes), r.ctx)
        BY <1>4, <2>1 DEF NextInt, BenpInteger
    <2> QED BY <2>2 DEF SameResult, SameToken, Take, Benr, Emit, Event,
                        NoBytes, Nowhere
  <1> QED BY <1>2, <1>3, <1>4

\* a string is the same to both
LEMMA StringsAgree ==
  ASSUME NEW t, NEW c
  PROVE  SameResult(NextString(t, c), BenpString(t, c))
  <1> DEFINE r == InitUint(t, c, COLON)
             p == BenpUint(t, c, COLON)
             at == Ctx(r.ctx.pos, r.b.num)
  <1>1. SameUint(r, p)
      BY UintsAgree
  <1>2. CASE r.b.kind # "UINT"
    <2>1. p.ev.kind # "UINT"
        BY <1>1, <1>2 DEF SameUint
    <2>2. NextString(t, c) = Take(r.b, c) /\ BenpString(t, c) = Emit(p.ev, c)
        BY <1>2, <2>1 DEF NextString, BenpString
    <2> QED BY <1>1, <1>2, <2>2, FailuresAgree
  <1>3. CASE r.b.kind = "UINT"
    <2>1. p.ev.kind = "UINT" /\ p.ev.num = r.b.num /\ p.ctx = r.ctx
        BY <1>1, <1>3 DEF SameUint
    <2>2. CASE r.b.num \in 0 .. r.ctx.len
      <3>1. /\ NextString(t, c) =
                 Take(Benr("STRING", 0, at), Advance(r.ctx, r.b.num))
            /\ BenpString(t, c) =
                 Emit(Event("STRING", 0, at), Advance(r.ctx, r.b.num))
          BY <1>3, <2>1, <2>2 DEF NextString, BenpString
      <3> QED BY <3>1 DEF SameResult, SameToken, Take, Benr, Emit, Event
    <2>3. CASE r.b.num \notin 0 .. r.ctx.len
      <3>1. /\ NextString(t, c) = Fail("STRING_TOO_LONG", r.b.num, 0, c)
            /\ BenpString(t, c) =
                 Emit(Event("STRING_TOO_LONG", r.b.num, NoBytes), c)
          BY <1>3, <2>1, <2>3 DEF NextString, BenpString
      <3> QED BY <3>1 DEF SameResult, SameToken, Fail, Take, Benr, Emit, Event,
                          NoBytes
    <2> QED BY <2>2, <2>3
  <1> QED BY <1>2, <1>3

\* benr_next and benp_next agree on every token
LEMMA NextsAgree ==
  ASSUME NEW t, NEW c
  PROVE  SameResult(BenrNext(t, c), BenpNext(t, c))
  <1> DEFINE r == BenrNext(t, c)
             p == BenpNext(t, c)
             b == Peek(t, c)
  <1>1. CASE c.len = 0
    <2>1. r = Take(None, c) /\ p = Emit(Event("DONE", 0, NoBytes), c)
        BY <1>1 DEF BenrNext, BenpNext
    <2> QED BY <2>1 DEF SameResult, SameToken, Take, None, Nowhere, Benr, Emit,
                        Event, NoBytes
  <1>2. CASE c.len # 0 /\ b = I
    <2>1. r = NextInt(t, c) /\ p = BenpInteger(t, c)
        BY <1>2 DEF BenrNext, BenpNext, I, D, L, E, Digits
    <2> QED BY <2>1, IntsAgree
  <1>3. CASE c.len # 0 /\ b \in Digits
    <2>1. r = NextString(t, c) /\ p = BenpString(t, c)
        BY <1>3 DEF BenrNext, BenpNext, I, D, L, E, Digits
    <2> QED BY <2>1, StringsAgree
  <1>4. CASE c.len # 0 /\ b = D
    <2>1. r = Open("DICT", c)
          /\ p = Emit(Event("DICT_START", 0, NoBytes), Advance(c, 1))
        BY <1>4 DEF BenrNext, BenpNext, I, D, L, E, Digits
    <2> QED BY <2>1 DEF SameResult, SameToken, Open, Take, Benr, Emit, Event
  <1>5. CASE c.len # 0 /\ b = L
    <2>1. r = Open("LIST", c)
          /\ p = Emit(Event("LIST_START", 0, NoBytes), Advance(c, 1))
        BY <1>5 DEF BenrNext, BenpNext, I, D, L, E, Digits
    <2> QED BY <2>1 DEF SameResult, SameToken, Open, Take, Benr, Emit, Event
  <1>6. CASE c.len # 0 /\ b = E
    <2>1. r = Take(Benr("X_END", 0, Nowhere), Advance(c, 1))
          /\ p = Emit(Event("X_END", 0, NoBytes), Advance(c, 1))
        BY <1>6 DEF BenrNext, BenpNext, I, D, L, E, Digits
    <2> QED BY <2>1 DEF SameResult, SameToken, Take, Nowhere, Benr, Emit, Event,
                        NoBytes
  <1>7. CASE c.len # 0 /\ b \notin {I, D, L, E} \cup Digits
    <2>1. r = Fail("UNEXPECTED_BYTE", 0, c.pos, c)
          /\ p = Emit(Event("UNEXPECTED_BYTE", 0, Ctx(c.pos, 0)), c)
        BY <1>7 DEF BenrNext, BenpNext
    <2> QED BY <2>1 DEF SameResult, SameToken, Fail, Take, Benr, Emit, Event
  <1> QED BY <1>1, <1>2, <1>3, <1>4, <1>5, <1>6, <1>7

-----------------------------------------------------------------------------
(* Where the values of a message begin *)

\* a place where something is lies in the message
LEMMA PlaceIs ==
  ASSUME NEW s \in Seq(Nat), NEW p \in 1 .. Len(s) + 1, NEW what \in Whats,
         Grammar(s)[<<p, what>>] # 0
  PROVE  p \in 1 .. Len(s) /\ p + 1 \in 1 .. Len(s) + 1 /\ p + 1 \in p + 1 .. Len(s) + 1
<1>1. PICK n \in Nat : n = Len(s)
  OBVIOUS
<1>2. MayEnd(n, p, what, Grammar(s)[<<p, what>>])
  BY <1>1, GrammarIs, Zenon
<1>3. p <= n
  BY <1>1, <1>2 DEF MayEnd
<1>4. QED
  BY <1>1, <1>3

\* the value of the element at p, and what follows it
LEMMA ElementIs ==
  ASSUME NEW s \in Seq(Nat), NEW p \in 1 .. Len(s) + 1, NEW what \in Whats,
         what # "value", Grammar(s)[<<p, what>>] # 0, s[p] # E,
         NEW at, at = IF what = "items" THEN p ELSE StringEnd(s, p),
         NEW e, e = Grammar(s)[<<at, "value">>]
  PROVE  /\ at \in 1 .. Len(s) /\ at \in 1 .. Len(s) + 1
         /\ at = p \/ at \in p + 1 .. Len(s) + 1
         /\ e \in at + 1 .. Len(s) + 1 /\ e \in p + 1 .. Len(s) + 1
         /\ Grammar(s)[<<e, what>>] = Grammar(s)[<<p, what>>]
<1>1. PICK n \in Nat : n = Len(s)
  OBVIOUS
<1>2. p \in 1 .. n
  BY <1>1, PlaceIs, Zenon
<1>3. CASE what = "items"
  <2>1. Close(s, "LIST", p) # 0 /\ at = p /\ e = ValueEnd(s, p)
    BY <1>3, ByPlace, Zenon
  <2>2. e # 0 /\ Close(s, "LIST", e) = Close(s, "LIST", p) /\ (e = 0 \/ e \in p + 1 .. n + 1)
    <3>1. p \in 1 .. Len(s)
      BY <1>1, <1>2, Zenon
    <3>2. Close(s, "LIST", p) = IF ValueEnd(s, p) = 0 THEN 0
                                ELSE Close(s, "LIST", ValueEnd(s, p))
      BY <3>1, CloseIs
    <3>3. ValueEnd(s, p) = 0 \/ ValueEnd(s, p) \in p + 1 .. Len(s) + 1
      BY <3>1, ValueEndIs
    <3>4. e # 0 /\ Close(s, "LIST", e) = Close(s, "LIST", p)
      BY <2>1, <3>2
    <3>5. e = 0 \/ e \in p + 1 .. n + 1
      BY <1>1, <2>1, <3>3
    <3>6. QED
      BY <3>4, <3>5
  <2>3. Grammar(s)[<<e, what>>] = Grammar(s)[<<p, what>>]
    BY <1>3, <2>2, ByPlace, Zenon
  <2>4. e \in p + 1 .. n + 1
    BY <2>2, Zenon
  <2>5. p \in 1 .. n + 1
    BY <1>1, Zenon
  <2>6. at \in 1 .. n /\ at \in 1 .. n + 1 /\ e \in at + 1 .. n + 1
    BY <1>2, <2>1, <2>4, <2>5, Zenon
  <2>7. QED
    BY <1>1, <2>1, <2>3, <2>4, <2>6, Zenon
<1>4. CASE what = "pairs"
  <2>1. Close(s, "DICT", p) # 0 /\ at = StringEnd(s, p) /\ e = ValueEnd(s, at)
    BY <1>4, ByPlace, Zenon
  <2>2. /\ s[p] \in Digits /\ at # 0 /\ e # 0
        /\ Close(s, "DICT", e) = Close(s, "DICT", p)
    <3>1. Close(s, "DICT", p)
            = IF s[p] \notin Digits \/ StringEnd(s, p) = 0 THEN 0
              ELSE IF ValueEnd(s, StringEnd(s, p)) = 0 THEN 0
              ELSE Close(s, "DICT", ValueEnd(s, StringEnd(s, p)))
      BY <1>1, <1>2, CloseIs, Zenon
    <3>2. QED
      BY <2>1, <3>1
  <2>3. at \in p + 1 .. n + 1
    <3>1. ValueEnd(s, p) = at /\ (at = 0 \/ at \in p + 1 .. n + 1)
      BY <1>1, <1>2, <2>1, <2>2, ValueEndIs, Zenon
    <3>2. QED
      BY <2>2, <3>1
  <2>4. at # n + 1
    BY <1>1, <2>1, <2>2, ValueEndAtEnd, Zenon
  <2>5. at \in 1 .. n /\ at \in 1 .. n + 1
    BY <1>1, <2>3, <2>4
  <2>6. e \in at + 1 .. n + 1
    BY <1>1, <2>1, <2>2, <2>5, ValueEndIs, Zenon
  <2>7. e \in p + 1 .. n + 1
    BY <1>1, <2>3, <2>6
  <2>8. QED
    BY <1>1, <1>4, <2>2, <2>3, <2>5, <2>6, <2>7, ByPlace, Zenon
<1>5. QED
  BY <1>3, <1>4, Zenon DEF Whats

\* the places read next are among those LooksAt allows
LEMMA ValuesAgree ==
  ASSUME NEW s \in Seq(Nat), NEW f, NEW h, NEW p \in 1 .. Len(s) + 1, NEW what \in Whats,
         \A q \in 1 .. Len(s) + 1 : \A w \in Whats :
           LooksAt(Len(s), p, what, q, w) => f[<<q, w>>] = h[<<q, w>>]
  PROVE  ValuesAt(s, f, p, what) = ValuesAt(s, h, p, what)
<1>1. PICK n \in Nat : n = Len(s)
  OBVIOUS
<1>2. PICK here : here = Grammar(s)[<<p, what>>]
  OBVIOUS
<1>3. CASE here = 0
  BY <1>2, <1>3, Zenon DEF ValuesAt
<1>4. \A q \in p + 1 .. n + 1 : \A w \in Whats : f[<<q, w>>] = h[<<q, w>>]
  <2>1. \A q \in p + 1 .. n + 1 : q \in 1 .. n + 1
    BY <1>1
  <2>2. QED
    BY <1>1, <2>1, Zenon DEF LooksAt
<1>5. CASE here # 0 /\ what = "value"
  <2>1. p + 1 \in p + 1 .. n + 1
    BY <1>1, <1>2, <1>5, PlaceIs, Zenon
  <2>2. f[<<p + 1, "items">>] = h[<<p + 1, "items">>]
    BY <1>4, <2>1, WhatsIs, Zenon
  <2>3. f[<<p + 1, "pairs">>] = h[<<p + 1, "pairs">>]
    BY <1>4, <2>1, WhatsIs, Zenon
  <2>4. QED
    BY <1>2, <1>5, <2>2, <2>3, Zenon DEF ValuesAt
<1>6. CASE here # 0 /\ what # "value" /\ s[p] = E
  BY <1>2, <1>6, Zenon DEF ValuesAt
<1>7. CASE here # 0 /\ what # "value" /\ s[p] # E
  <2>1. PICK at : at = IF what = "items" THEN p ELSE StringEnd(s, p)
    OBVIOUS
  <2>2. PICK e : e = Grammar(s)[<<at, "value">>]
    OBVIOUS
  <2>3. /\ at \in 1 .. n + 1 /\ (at = p \/ at \in p + 1 .. n + 1)
        /\ e \in p + 1 .. n + 1
    BY <1>1, <1>2, <1>7, <2>1, <2>2, ElementIs, Zenon
  <2>4. f[<<at, "value">>] = h[<<at, "value">>]
    <3>1. LooksAt(n, p, what, at, "value")
      BY <1>7, <2>3, Zenon DEF LooksAt
    <3>2. QED
      BY <1>1, <2>3, <3>1, WhatsIs, Zenon
  <2>5. f[<<e, what>>] = h[<<e, what>>]
    BY <1>4, <2>3, Zenon
  <2>6. ValuesAt(s, f, p, what) = f[<<at, "value">>] \cup f[<<e, what>>]
    BY <1>2, <1>7, <2>1, <2>2, Zenon DEF ValuesAt
  <2>7. ValuesAt(s, h, p, what) = h[<<at, "value">>] \cup h[<<e, what>>]
    BY <1>2, <1>7, <2>1, <2>2, Zenon DEF ValuesAt
  <2>8. QED
    BY <2>4, <2>5, <2>6, <2>7, Zenon
<1>8. QED
  BY <1>3, <1>5, <1>6, <1>7, Zenon

\* places where values begin, of such
LEMMA ValuesTyped ==
  ASSUME NEW s \in Seq(Nat), NEW f, NEW p \in 1 .. Len(s) + 1, NEW what \in Whats,
         \A q \in 1 .. Len(s) + 1 : \A w \in Whats : f[<<q, w>>] \in SUBSET Nat
  PROVE  ValuesAt(s, f, p, what) \in SUBSET Nat
<1>1. PICK n \in Nat : n = Len(s)
  OBVIOUS
<1>2. PICK here : here = Grammar(s)[<<p, what>>]
  OBVIOUS
<1>3. CASE here = 0
  <2>1. ValuesAt(s, f, p, what) = {}
    BY <1>2, <1>3, Zenon DEF ValuesAt
  <2>2. QED
    BY <2>1
<1>4. CASE here # 0 /\ what = "value"
  <2>1. p + 1 \in 1 .. n + 1
    BY <1>1, <1>2, <1>4, PlaceIs, Zenon
  <2>2. f[<<p + 1, "items">>] \in SUBSET Nat
    BY <1>1, <2>1, WhatsIs, Zenon
  <2>3. f[<<p + 1, "pairs">>] \in SUBSET Nat
    BY <1>1, <2>1, WhatsIs, Zenon
  <2>4. {p} \in SUBSET Nat /\ {} \in SUBSET Nat
    OBVIOUS
  <2>5. PICK inner \in SUBSET Nat : ValuesAt(s, f, p, what) = {p} \cup inner
    <3>1. ValuesAt(s, f, p, what)
            = {p} \cup (CASE s[p] = L -> f[<<p + 1, "items">>]
                          [] s[p] = D -> f[<<p + 1, "pairs">>]
                          [] OTHER -> {})
      BY <1>2, <1>4, Zenon DEF ValuesAt
    <3>2. CASE s[p] = L
      BY <2>2, <3>1, <3>2, FiveSigns
    <3>3. CASE s[p] = D
      BY <2>3, <3>1, <3>3, FiveSigns
    <3>4. CASE s[p] # L /\ s[p] # D
      BY <2>4, <3>1, <3>4
    <3>5. QED
      BY <3>2, <3>3, <3>4
  <2>6. QED
    BY <2>4, <2>5
<1>5. CASE here # 0 /\ what # "value" /\ s[p] = E
  <2>1. ValuesAt(s, f, p, what) = {}
    BY <1>2, <1>5, Zenon DEF ValuesAt
  <2>2. QED
    BY <2>1
<1>6. CASE here # 0 /\ what # "value" /\ s[p] # E
  <2>1. PICK at : at = IF what = "items" THEN p ELSE StringEnd(s, p)
    OBVIOUS
  <2>2. PICK e : e = Grammar(s)[<<at, "value">>]
    OBVIOUS
  <2>3. at \in 1 .. n + 1 /\ e \in p + 1 .. n + 1
    BY <1>1, <1>2, <1>6, <2>1, <2>2, ElementIs, Zenon
  <2>4. e \in 1 .. n + 1
    BY <1>1, <2>3
  <2>5. f[<<at, "value">>] \in SUBSET Nat /\ f[<<e, what>>] \in SUBSET Nat
    BY <1>1, <2>3, <2>4, WhatsIs, Zenon
  <2>6. ValuesAt(s, f, p, what) = f[<<at, "value">>] \cup f[<<e, what>>]
    BY <1>2, <1>6, <2>1, <2>2, Zenon DEF ValuesAt
  <2>7. QED
    BY <2>5, <2>6
<1>7. QED
  BY <1>3, <1>4, <1>5, <1>6, Zenon

\* ValuesFrom is what its definition says.
LEMMA ValuesFromIs ==
  ASSUME NEW s \in Seq(Nat)
  PROVE  \A p \in 1 .. Len(s) + 1 : \A what \in Whats :
           ValuesFrom(s)[<<p, what>>] = ValuesAt(s, ValuesFrom(s), p, what)
<1> DEFINE V == SUBSET Nat
           S == Places(s)
           F == [x \in S |-> [g \in [S -> V] |-> ValuesAt(s, g, x[1], x[2])]]
           chosen == CHOOSE g : g = [x \in S |-> ValuesAt(s, g, x[1], x[2])]
<1>1. ValuesFrom(s) = chosen
  <2>1. S = (1 .. Len(s) + 1) \X {"value", "items", "pairs"}
    BY DEF Places, Whats
  <2>2. QED
    BY <2>1, Zenon DEF ValuesFrom
<1>2. \A x \in S : x[1] \in 1 .. Len(s) + 1 /\ x[2] \in Whats /\ x = <<x[1], x[2]>>
  BY DEF Places
<1>3. \A p \in 1 .. Len(s) + 1 : \A what \in Whats :
        <<p, what>> \in S /\ <<p, what>>[1] = p /\ <<p, what>>[2] = what
  BY DEF Places
<1>4. ASSUME NEW g \in [S -> V], NEW x \in S PROVE ValuesAt(s, g, x[1], x[2]) \in V
  <2>1. \A q \in 1 .. Len(s) + 1 : \A w \in Whats : g[<<q, w>>] \in SUBSET Nat
    BY <1>3
  <2>2. QED
    BY <1>2, <2>1, ValuesTyped
<1>5. ASSUME NEW x \in S, NEW g \in [S -> V], NEW h \in [S -> V],
             \A y \in S : Rank(s)[y] < Rank(s)[x] => g[y] = h[y]
      PROVE  ValuesAt(s, g, x[1], x[2]) = ValuesAt(s, h, x[1], x[2])
  <2>1. ASSUME NEW q \in 1 .. Len(s) + 1, NEW w \in Whats, LooksAt(Len(s), x[1], x[2], q, w)
        PROVE  g[<<q, w>>] = h[<<q, w>>]
    BY <1>2, <1>5, <2>1, LooksBelow, Zenon
  <2>2. PICK p \in 1 .. Len(s) + 1, what \in Whats : p = x[1] /\ what = x[2]
    BY <1>2, Zenon
  <2>3. \A q \in 1 .. Len(s) + 1 : \A w \in Whats :
          LooksAt(Len(s), p, what, q, w) => g[<<q, w>>] = h[<<q, w>>]
    BY <2>1, <2>2, Zenon
  <2> HIDE DEF S, V
  <2>4. ValuesAt(s, g, p, what) = ValuesAt(s, h, p, what)
    BY <2>3, ValuesAgree
  <2>5. QED
    BY <2>2, <2>4, Zenon
<1>6. V # {} /\ Rank(s) \in [S -> Nat]
  BY RankTyped
<1> HIDE DEF V, S
<1>7. F \in [S -> [[S -> V] -> V]]
  BY <1>4
<1>8. \A x \in S : \A g \in [S -> V] : F[x][g] = ValuesAt(s, g, x[1], x[2])
  OBVIOUS
<1> HIDE DEF F
<1>9. ASSUME NEW x \in S, NEW g \in [S -> V], NEW h \in [S -> V],
             \A y \in S : Rank(s)[y] < Rank(s)[x] => g[y] = h[y]
      PROVE  F[x][g] = F[x][h]
  <2>1. ValuesAt(s, g, x[1], x[2]) = ValuesAt(s, h, x[1], x[2])
    BY <1>5, <1>9, Zenon
  <2>2. QED
    BY <1>8, <2>1, Zenon
<1>10. Recursion(F, Rank(s), S, V)
  BY <1>6, <1>7, <1>9, Zenon DEF Recursion
<1>11. PICK g \in [S -> V] : \A x \in S : g[x] = F[x][g]
  BY <1>6, <1>10, RecursionHasFunction
<1>12. g = [x \in S |-> ValuesAt(s, g, x[1], x[2])]
  <2>1. \A x \in S : g[x] = ValuesAt(s, g, x[1], x[2])
    BY <1>8, <1>11, Zenon
  <2>2. g = [x \in S |-> g[x]]
    BY <1>11
  <2>3. QED
    BY <2>1, <2>2, Zenon
<1>13. chosen = [x \in S |-> ValuesAt(s, chosen, x[1], x[2])]
  BY <1>12, Zenon
<1> HIDE DEF chosen
<1>14. \A p \in 1 .. Len(s) + 1 : \A what \in Whats :
         chosen[<<p, what>>] = ValuesAt(s, chosen, p, what)
  <2>1. \A x \in S : chosen[x] = ValuesAt(s, chosen, x[1], x[2])
    <3>1. PICK G : G = [x \in S |-> ValuesAt(s, chosen, x[1], x[2])]
      OBVIOUS
    <3>2. \A x \in S : G[x] = ValuesAt(s, chosen, x[1], x[2])
      BY <3>1
    <3>3. G = chosen
      BY <1>13, <3>1
    <3>4. QED
      BY <3>2, <3>3
  <2>2. ASSUME NEW p \in 1 .. Len(s) + 1, NEW what \in Whats
        PROVE  chosen[<<p, what>>] = ValuesAt(s, chosen, p, what)
    <3>1. PICK x : x = <<p, what>>
      OBVIOUS
    <3>2. x \in S /\ x[1] = p /\ x[2] = what
      BY <1>3, <3>1, Zenon
    <3>3. chosen[x] = ValuesAt(s, chosen, x[1], x[2])
      BY <2>1, <3>2, Zenon
    <3>4. QED
      BY <3>1, <3>2, <3>3
  <2>3. QED
    BY <2>2, Zenon
<1>15. QED
  BY <1>1, <1>14, Zenon

\* the values from p on begin before what ends there does
Between(s, f, p, what) == f[<<p, what>>] \subseteq p .. Grammar(s)[<<p, what>>] - 1

\* ... if they do at the places looked at
LEMMA ValuesBetween ==
  ASSUME NEW s \in Seq(Nat), NEW f, NEW p \in 1 .. Len(s) + 1, NEW what \in Whats,
         \A q \in 1 .. Len(s) + 1 : \A w \in Whats :
           LooksAt(Len(s), p, what, q, w) => Between(s, f, q, w)
  PROVE  ValuesAt(s, f, p, what) \subseteq p .. Grammar(s)[<<p, what>>] - 1
<1>1. PICK n \in Nat : n = Len(s)
  OBVIOUS
<1>2. PICK here : here = Grammar(s)[<<p, what>>]
  OBVIOUS
<1>3. CASE here = 0
  <2>1. ValuesAt(s, f, p, what) = {}
    BY <1>2, <1>3, Zenon DEF ValuesAt
  <2>2. QED
    BY <2>1
<1>4. \A q \in p + 1 .. n + 1 : \A w \in Whats : Between(s, f, q, w)
  <2>1. \A q \in p + 1 .. n + 1 : q \in 1 .. n + 1
    BY <1>1
  <2>2. QED
    BY <1>1, <2>1, Zenon DEF LooksAt
<1>5. CASE here # 0 /\ what = "value"
  <2>1. p \in 1 .. n /\ p + 1 \in p + 1 .. n + 1 /\ p + 1 \in 1 .. n + 1
    BY <1>1, <1>2, <1>5, PlaceIs, Zenon
  <2>2. here = ValueEnd(s, p) /\ here \in p + 1 .. n + 1
    BY <1>1, <1>2, <1>5, <2>1, ByPlace, ValueEndIs, Zenon
  <2>3. ASSUME NEW kind \in Kinds, NEW w \in Whats, here = PastEnd(Close(s, kind, p + 1)),
               Close(s, kind, p + 1) = Grammar(s)[<<p + 1, w>>]
        PROVE  f[<<p + 1, w>>] \subseteq p .. here - 1
    <3>1. PICK c : c = Close(s, kind, p + 1)
      OBVIOUS
    <3>2. c = 0 \/ c \in p + 1 .. n
      BY <1>1, <2>1, <3>1, CloseBounds, Zenon
    <3>3. c = 0 \/ c \in Nat
      BY <3>2
    <3>4. here = c + 1 /\ c \in Nat
      BY <1>5, <2>3, <3>1, <3>3, PastEndIs, Zenon
    <3>5. Between(s, f, p + 1, w)
      BY <1>4, <2>1, Zenon
    <3>6. f[<<p + 1, w>>] \subseteq p + 1 .. c - 1
      BY <2>3, <3>1, <3>5, Zenon DEF Between
    <3>7. \A q \in p + 1 .. c - 1 : q \in p .. here - 1
      BY <3>4
    <3>8. QED
      BY <3>6, <3>7, Zenon
  <2>4. {p} \subseteq p .. here - 1
    BY <2>2
  <2>5. ValuesAt(s, f, p, what)
          = {p} \cup (CASE s[p] = L -> f[<<p + 1, "items">>]
                        [] s[p] = D -> f[<<p + 1, "pairs">>]
                        [] OTHER -> {})
    BY <1>2, <1>5, Zenon DEF ValuesAt
  <2>6. CASE s[p] = L
    <3>1. here = PastEnd(Close(s, "LIST", p + 1))
      BY <2>1, <2>2, <2>6, <1>1, ValueEndIs, Zenon
    <3>2. f[<<p + 1, "items">>] \subseteq p .. here - 1
      BY <2>3, <3>1, ByPlace, WhatsIs, Zenon DEF Kinds
    <3>3. ValuesAt(s, f, p, what) = {p} \cup f[<<p + 1, "items">>]
      BY <2>5, <2>6, FiveSigns
    <3>4. QED
      BY <1>2, <2>4, <3>2, <3>3, Zenon
  <2>7. CASE s[p] = D
    <3>1. here = PastEnd(Close(s, "DICT", p + 1))
      BY <2>1, <2>2, <2>7, <1>1, ValueEndIs, Zenon
    <3>2. f[<<p + 1, "pairs">>] \subseteq p .. here - 1
      BY <2>3, <3>1, ByPlace, WhatsIs, Zenon DEF Kinds
    <3>3. ValuesAt(s, f, p, what) = {p} \cup f[<<p + 1, "pairs">>]
      BY <2>5, <2>7, FiveSigns
    <3>4. QED
      BY <1>2, <2>4, <3>2, <3>3, Zenon
  <2>8. CASE s[p] # L /\ s[p] # D
    <3>1. ValuesAt(s, f, p, what) = {p}
      BY <2>5, <2>8
    <3>2. QED
      BY <1>2, <2>4, <3>1, Zenon
  <2>9. QED
    BY <2>6, <2>7, <2>8
<1>6. CASE here # 0 /\ what # "value" /\ s[p] = E
  <2>1. ValuesAt(s, f, p, what) = {}
    BY <1>2, <1>6, Zenon DEF ValuesAt
  <2>2. QED
    BY <2>1
<1>7. CASE here # 0 /\ what # "value" /\ s[p] # E
  <2>1. PICK at : at = IF what = "items" THEN p ELSE StringEnd(s, p)
    OBVIOUS
  <2>2. PICK e : e = Grammar(s)[<<at, "value">>]
    OBVIOUS
  <2>3. /\ at \in 1 .. n + 1 /\ (at = p \/ at \in p + 1 .. n + 1)
        /\ e \in at + 1 .. n + 1 /\ e \in p + 1 .. n + 1 /\ Grammar(s)[<<e, what>>] = here
    <3>1. what # "value" /\ Grammar(s)[<<p, what>>] # 0 /\ s[p] # E
      BY <1>2, <1>7, Zenon
    <3>2. /\ at \in 1 .. Len(s) + 1 /\ (at = p \/ at \in p + 1 .. Len(s) + 1)
          /\ e \in at + 1 .. Len(s) + 1 /\ e \in p + 1 .. Len(s) + 1
          /\ Grammar(s)[<<e, what>>] = Grammar(s)[<<p, what>>]
      BY <2>1, <2>2, <3>1, ElementIs
    <3>3. QED
      BY <1>1, <1>2, <3>2, Zenon
  <2>4. f[<<at, "value">>] \subseteq at .. e - 1
    <3>1. LooksAt(n, p, what, at, "value")
      BY <1>7, <2>3, Zenon DEF LooksAt
    <3>2. Between(s, f, at, "value")
      BY <1>1, <2>3, <3>1, WhatsIs, Zenon
    <3>3. QED
      BY <2>2, <3>2, Zenon DEF Between
  <2>5. f[<<e, what>>] \subseteq e .. here - 1
    BY <1>4, <2>3, Zenon DEF Between
  <2>6. ValuesAt(s, f, p, what) = f[<<at, "value">>] \cup f[<<e, what>>]
    BY <1>2, <1>7, <2>1, <2>2, Zenon DEF ValuesAt
  <2>7. here \in Nat /\ e <= here
    <3>1. MayEnd(n, e, what, Grammar(s)[<<e, what>>])
      <4>1. e \in 1 .. n + 1
        BY <1>1, <2>3
      <4>2. QED
        BY <1>1, <4>1, GrammarIs, Zenon
    <3>2. here \in e .. n
      BY <1>7, <2>3, <3>1, Zenon DEF MayEnd
    <3>3. QED
      BY <1>1, <2>3, <3>2
  <2>8. at .. e - 1 \subseteq p .. here - 1 /\ e .. here - 1 \subseteq p .. here - 1
    BY <1>1, <2>3, <2>7
  <2>9. QED
    BY <1>2, <2>4, <2>5, <2>6, <2>8, Zenon
<1>8. QED
  BY <1>3, <1>5, <1>6, <1>7, Zenon

\* ... and so from every place on.
LEMMA ValuesLieBetween ==
  ASSUME NEW s \in Seq(Nat)
  PROVE  \A p \in 1 .. Len(s) + 1 : \A what \in Whats : Between(s, ValuesFrom(s), p, what)
<1> DEFINE S == Places(s)
           Bad == {x \in S : ~Between(s, ValuesFrom(s), x[1], x[2])}
<1>1. \A x \in S : x[1] \in 1 .. Len(s) + 1 /\ x[2] \in Whats /\ x = <<x[1], x[2]>>
  BY DEF Places
<1>2. \A p \in 1 .. Len(s) + 1 : \A what \in Whats :
        <<p, what>> \in S /\ <<p, what>>[1] = p /\ <<p, what>>[2] = what
  BY DEF Places
<1>3. ASSUME NEW x \in Bad PROVE \E y \in Bad : Rank(s)[y] < Rank(s)[x]
  <2>1. x \in S /\ ~Between(s, ValuesFrom(s), x[1], x[2])
    OBVIOUS
  <2>2. PICK p \in 1 .. Len(s) + 1, what \in Whats : p = x[1] /\ what = x[2] /\ x = <<p, what>>
    BY <1>1, <2>1, Zenon
  <2>3. ValuesFrom(s)[<<p, what>>] = ValuesAt(s, ValuesFrom(s), p, what)
    BY ValuesFromIs, Zenon
  <2>4. ~(ValuesAt(s, ValuesFrom(s), p, what) \subseteq p .. Grammar(s)[<<p, what>>] - 1)
    BY <2>1, <2>2, <2>3, Zenon DEF Between
  <2>5. PICK q \in 1 .. Len(s) + 1, w \in Whats :
          LooksAt(Len(s), p, what, q, w) /\ ~Between(s, ValuesFrom(s), q, w)
    BY <2>4, ValuesBetween
  <2>6. <<q, w>> \in Bad
    BY <1>2, <2>5
  <2>7. Rank(s)[<<q, w>>] < Rank(s)[<<p, what>>]
    BY <2>5, LooksBelow, Zenon
  <2>8. QED
    BY <2>2, <2>6, <2>7, Zenon
<1>4. Bad = {}
  <2>1. Bad \subseteq S /\ Rank(s) \in [S -> Nat]
    BY RankTyped
  <2> HIDE DEF Bad, S
  <2>2. QED
    BY <1>3, <2>1, NoDescent, Zenon
<1>5. QED
  BY <1>2, <1>4

-----------------------------------------------------------------------------
(* The values of a message, unfolded *)

\* where the values begin of the value at p, and of the elements from p on
ValuesIn(s, p) == ValuesFrom(s)[<<p, "value">>]
Remaining(s, kind, p) == ValuesFrom(s)[<<p, IF kind = "LIST" THEN "items" ELSE "pairs">>]

\* a value is met before those in it
LEMMA ValuesInIs ==
  ASSUME NEW s \in Seq(Nat), NEW p \in 1 .. Len(s), ValueEnd(s, p) # 0
  PROVE  /\ s[p] = L => ValuesIn(s, p) = {p} \cup Remaining(s, "LIST", p + 1)
         /\ s[p] = D => ValuesIn(s, p) = {p} \cup Remaining(s, "DICT", p + 1)
         /\ s[p] # L /\ s[p] # D => ValuesIn(s, p) = {p}
<1>1. p \in 1 .. Len(s) + 1
  OBVIOUS
<1>2. ValuesIn(s, p) = ValuesAt(s, ValuesFrom(s), p, "value")
  BY <1>1, ValuesFromIs, WhatsIs, Zenon DEF ValuesIn
<1>3. Grammar(s)[<<p, "value">>] # 0
  BY ByPlace, Zenon
<1>4. ValuesIn(s, p)
        = {p} \cup (CASE s[p] = L -> ValuesFrom(s)[<<p + 1, "items">>]
                      [] s[p] = D -> ValuesFrom(s)[<<p + 1, "pairs">>]
                      [] OTHER -> {})
  BY <1>2, <1>3, Zenon DEF ValuesAt
<1>5. "DICT" # "LIST"
  OBVIOUS
<1>6. CASE s[p] = L
  <2>1. ValuesIn(s, p) = {p} \cup ValuesFrom(s)[<<p + 1, "items">>]
    BY <1>4, <1>6, FiveSigns
  <2>2. QED
    BY <1>6, <2>1, FiveSigns, Zenon DEF Remaining
<1>7. CASE s[p] = D
  <2>1. ValuesIn(s, p) = {p} \cup ValuesFrom(s)[<<p + 1, "pairs">>]
    BY <1>4, <1>7, FiveSigns
  <2>2. QED
    BY <1>5, <1>7, <2>1, FiveSigns, Zenon DEF Remaining
<1>8. CASE s[p] # L /\ s[p] # D
  <2>1. ValuesIn(s, p) = {p}
    BY <1>4, <1>8
  <2>2. QED
    BY <1>8, <2>1, Zenon
<1>9. QED
  BY <1>6, <1>7, <1>8, Zenon

\* the values from an element on: those of the element, and those behind it
LEMMA RemainingIs ==
  ASSUME NEW s \in Seq(Nat), NEW p \in 1 .. Len(s), NEW kind \in Kinds, Close(s, kind, p) # 0,
         NEW at, at = IF kind = "LIST" THEN p ELSE StringEnd(s, p)
  PROVE  /\ s[p] = E => Remaining(s, kind, p) = {}
         /\ s[p] # E => Remaining(s, kind, p)
                          = ValuesIn(s, at) \cup Remaining(s, kind, ValueEnd(s, at))
<1>1. p \in 1 .. Len(s) + 1
  OBVIOUS
<1>2. PICK what \in Whats : what = IF kind = "LIST" THEN "items" ELSE "pairs"
  BY WhatsIs, Zenon
<1>3. what # "value" /\ (kind = "LIST" <=> what = "items")
  BY <1>2
<1>4. Remaining(s, kind, p) = ValuesAt(s, ValuesFrom(s), p, what)
  BY <1>1, <1>2, ValuesFromIs, Zenon DEF Remaining
<1>5. Grammar(s)[<<p, what>>] # 0
  BY <1>2, Zenon DEF Close
<1>6. at = IF what = "items" THEN p ELSE StringEnd(s, p)
  BY <1>3, Zenon
<1>7. CASE s[p] = E
  <2>1. ValuesAt(s, ValuesFrom(s), p, what) = {}
    BY <1>3, <1>5, <1>7, Zenon DEF ValuesAt
  <2>2. QED
    BY <1>4, <1>7, <2>1, Zenon
<1>8. CASE s[p] # E
  <2>1. ValuesAt(s, ValuesFrom(s), p, what)
          = ValuesFrom(s)[<<at, "value">>] \cup ValuesFrom(s)[<<Grammar(s)[<<at, "value">>], what>>]
    BY <1>3, <1>5, <1>6, <1>8, Zenon DEF ValuesAt
  <2>2. Remaining(s, kind, ValueEnd(s, at)) = ValuesFrom(s)[<<Grammar(s)[<<at, "value">>], what>>]
    BY <1>2, ByPlace, Zenon DEF Remaining
  <2>3. QED
    BY <1>4, <1>8, <2>1, <2>2, Zenon DEF ValuesIn
<1>9. QED
  BY <1>7, <1>8, Zenon

\* the values of a value, and of the elements from p on, begin from p on and before the end
LEMMA ValuesBounds ==
  ASSUME NEW s \in Seq(Nat), NEW p \in 1 .. Len(s) + 1
  PROVE  /\ ValuesIn(s, p) \subseteq p .. ValueEnd(s, p) - 1
         /\ \A kind \in Kinds : Remaining(s, kind, p) \subseteq p .. Close(s, kind, p) - 1
<1>1. \A what \in Whats : ValuesFrom(s)[<<p, what>>] \subseteq p .. Grammar(s)[<<p, what>>] - 1
  BY ValuesLieBetween, Zenon DEF Between
<1>2. ValuesIn(s, p) \subseteq p .. ValueEnd(s, p) - 1
  BY <1>1, ByPlace, WhatsIs, Zenon DEF ValuesIn
<1>3. ASSUME NEW kind \in Kinds PROVE Remaining(s, kind, p) \subseteq p .. Close(s, kind, p) - 1
  <2>1. PICK what \in Whats : what = IF kind = "LIST" THEN "items" ELSE "pairs"
    BY WhatsIs, Zenon
  <2>2. Remaining(s, kind, p) = ValuesFrom(s)[<<p, what>>] /\ Close(s, kind, p) = Grammar(s)[<<p, what>>]
    BY <2>1, Zenon DEF Remaining, Close
  <2>3. QED
    BY <1>1, <2>2, Zenon
<1>4. QED
  BY <1>2, <1>3
=============================================================================
