---------------------------- MODULE Recon_proofs ----------------------------
(***************************************************************************)
(* Proofs about the reconciliation, for any orders, answers and words.     *)
(***************************************************************************)
EXTENDS Recon, FiniteSetTheorems, FunctionTheorems, WellFoundedInduction, TLAPS

-----------------------------------------------------------------------------
(* Numbers: induction is by the least counterexample. *)

LEMMA Least ==
    ASSUME NEW S \in SUBSET Nat, S # {}
    PROVE  \E n \in S : \A m \in S : n <= m
<1> DEFINE R == OpToRel(<, Nat)
<1>1. IsWellFoundedOn(R, Nat)
  BY NatLessThanWellFounded
<1>2. \A x, y \in Nat : y < x => <<y, x>> \in R
  BY DEF OpToRel
<1> HIDE DEF R
<1>3. PICK n \in S : \A m \in S : <<m, n>> \notin R
  BY <1>1, WFMin
<1>4. ASSUME NEW m \in S PROVE n <= m
  <2>1. m \in Nat /\ n \in Nat /\ ~(m < n)
    BY <1>2, <1>3
  <2> QED BY <2>1
<1> QED BY <1>4

LEMMA Below ==
    ASSUME NEW m \in Nat, NEW n \in 1 .. m + 1
    PROVE  /\ \A i \in Nat : i < n => i \in 0 .. m
           /\ 1 .. n - 1 \subseteq 1 .. m
           /\ n > m => 1 .. n - 1 = 1 .. m
OBVIOUS

LEMMA Greatest ==
    ASSUME NEW n \in Nat, NEW S \in SUBSET (1 .. n), S # {}
    PROVE  \E i \in S : \A j \in S : j <= i
<1> DEFINE T == {n - i : i \in S}
<1>1. PICK t \in T : \A u \in T : t <= u
  <2>1. T \in SUBSET Nat /\ T # {}
    <3>1. \A i \in S : n - i \in Nat
      OBVIOUS
    <3> QED BY <3>1
  <2> HIDE DEF T
  <2> QED BY <2>1, Least
<1>2. PICK i \in S : t = n - i
  BY <1>1
<1>3. ASSUME NEW j \in S PROVE j <= i
  <2>1. n - i <= n - j
    BY <1>1, <1>2
  <2> QED BY <2>1
<1> QED BY <1>3

-----------------------------------------------------------------------------
(* Sums.  A total is a fold over a set of positions, in an order that the    *)
(* fold chooses; it is the sum in the order of the positions.                *)

\* The sums of the weights v of the first positions, as far as they are in U.
SumTo(v, U, N) ==
    LET sum[k \in 0 .. N] ==
            IF k = 0 THEN 0 ELSE sum[k - 1] + (IF k \in U THEN v[k] ELSE 0)
    IN sum

SumTurn(sum, v, U, k) ==
    IF k = 0 THEN 0 ELSE sum[k - 1] + (IF k \in U THEN v[k] ELSE 0)

LEMMA SumExists ==
    ASSUME NEW N \in Nat, NEW v, NEW U
    PROVE  \E f : f = [k \in 0 .. N |-> SumTurn(f, v, U, k)]
<1> DEFINE Solves(f, n) == \A k \in 0 .. n : f[k] = SumTurn(f, v, U, k)
           Bad == {n \in 0 .. N : ~ \E f : f = [k \in 0 .. n |-> f[k]] /\ Solves(f, n)}
<1>1. ASSUME Bad # {} PROVE FALSE
  <2>1. PICK n \in Bad : \A m \in Bad : n <= m
    <3>1. Bad \in SUBSET Nat
      OBVIOUS
    <3> HIDE DEF Bad
    <3> QED BY <1>1, <3>1, Least
  <2>2. n \in 0 .. N /\ n \in Nat
    OBVIOUS
  <2>3. CASE n = 0
    <3> DEFINE f == [k \in 0 .. 0 |-> 0]
    <3>1. f = [k \in 0 .. n |-> f[k]] /\ Solves(f, n)
      BY <2>3 DEF SumTurn
    <3> QED BY <3>1
  <2>4. CASE n > 0
    <3>1. PICK f : f = [k \in 0 .. n - 1 |-> f[k]] /\ Solves(f, n - 1)
      <4>1. n - 1 \in 0 .. N /\ ~(n <= n - 1)
        BY <2>2, <2>4
      <4>2. n - 1 \notin Bad
        BY <2>1, <4>1
      <4> QED BY <4>1, <4>2
    <3> DEFINE g == [k \in 0 .. n |-> IF k = n THEN SumTurn(f, v, U, n) ELSE f[k]]
    <3>2. \A k \in 0 .. n - 1 : g[k] = f[k]
      BY <2>2
    <3>3. \A k \in 0 .. n : SumTurn(g, v, U, k) = SumTurn(f, v, U, k)
      BY <2>2, <3>2 DEF SumTurn
    <3>4. \A k \in 0 .. n : g[k] = SumTurn(f, v, U, k)
      BY <2>2, <3>1
    <3>5. g = [k \in 0 .. n |-> g[k]] /\ Solves(g, n)
      BY <3>3, <3>4
    <3> QED BY <3>5
  <2> QED BY <2>2, <2>3, <2>4
<1>2. PICK f : f = [k \in 0 .. N |-> f[k]] /\ Solves(f, N)
  BY <1>1
<1>3. f = [k \in 0 .. N |-> SumTurn(f, v, U, k)]
  BY <1>2
<1> QED BY <1>3

Sums(sum, v, U, N) ==
    /\ sum[0] = 0
    /\ \A k \in 1 .. N : sum[k] = sum[k - 1] + (IF k \in U THEN v[k] ELSE 0)

LEMMA SumSays ==
    ASSUME NEW N \in Nat, NEW v, NEW U
    PROVE  Sums(SumTo(v, U, N), v, U, N)
<1> DEFINE sum == CHOOSE f : f = [k \in 0 .. N |-> SumTurn(f, v, U, k)]
<1>1. SumTo(v, U, N) = sum
  BY DEF SumTo, SumTurn
<1>2. sum = [k \in 0 .. N |-> SumTurn(sum, v, U, k)]
  BY SumExists
<1> HIDE DEF sum
<1>3. \A k \in 0 .. N : sum[k] = SumTurn(sum, v, U, k)
  BY <1>2, Zenon
<1>4. sum[0] = 0
  <2>1. 0 \in 0 .. N
    OBVIOUS
  <2> QED BY <1>3, <2>1 DEF SumTurn
<1>5. ASSUME NEW k \in 1 .. N
      PROVE  sum[k] = sum[k - 1] + (IF k \in U THEN v[k] ELSE 0)
  <2>1. k \in 0 .. N /\ k # 0
    OBVIOUS
  <2> QED BY <1>3, <2>1 DEF SumTurn
<1> QED BY <1>1, <1>4, <1>5 DEF Sums

LEMMA SumType ==
    ASSUME NEW N \in Nat, NEW v \in [1 .. N -> Int], NEW U
    PROVE  \A k \in 0 .. N : SumTo(v, U, N)[k] \in Int
<1> DEFINE sum == SumTo(v, U, N)
           Bad == {k \in 0 .. N : sum[k] \notin Int}
<1>1. ASSUME Bad # {} PROVE FALSE
  <2>1. PICK n \in Bad : \A m \in Bad : n <= m
    <3>1. Bad \in SUBSET Nat
      OBVIOUS
    <3> HIDE DEF Bad
    <3> QED BY <1>1, <3>1, Least
  <2>2. n \in 0 .. N /\ sum[n] \notin Int
    OBVIOUS
  <2>3. n # 0
    BY <2>2, SumSays DEF Sums
  <2>4. n \in 1 .. N /\ n - 1 \in 0 .. N /\ ~(n <= n - 1)
    BY <2>2, <2>3
  <2>5. sum[n - 1] \in Int
    BY <2>1, <2>4
  <2>6. sum[n] = sum[n - 1] + (IF n \in U THEN v[n] ELSE 0)
    BY <2>4, SumSays, SMTT(40) DEF Sums
  <2> HIDE DEF sum
  <2> QED BY <2>2, <2>4, <2>5, <2>6
<1> QED BY <1>1

\* What one position more adds.
LEMMA SumMore ==
    ASSUME NEW N \in Nat, NEW v \in [1 .. N -> Int], NEW U, NEW j \in 1 .. N, j \notin U
    PROVE  SumTo(v, U \cup {j}, N)[N] = SumTo(v, U, N)[N] + v[j]
<1> DEFINE V == U \cup {j}
           sum == SumTo(v, U, N)
           more == SumTo(v, V, N)
           Agrees(k) == more[k] = sum[k] + (IF j <= k THEN v[j] ELSE 0)
           Bad == {k \in 0 .. N : ~Agrees(k)}
<1>1. Sums(sum, v, U, N) /\ Sums(more, v, V, N)
  <2> HIDE DEF V
  <2> QED BY SumSays
<1>2. \A k \in 0 .. N : sum[k] \in Int /\ more[k] \in Int
  <2> HIDE DEF V
  <2> QED BY SumType
<1>3. \A k \in 1 .. N : k \in V <=> k \in U \/ k = j
  OBVIOUS
<1> HIDE DEF V, sum, more
<1>4. ASSUME Bad # {} PROVE FALSE
  <2>1. PICK n \in Bad : \A m \in Bad : n <= m
    <3>1. Bad \in SUBSET Nat
      OBVIOUS
    <3> HIDE DEF Bad
    <3> QED BY <1>4, <3>1, Least
  <2>2. n \in 0 .. N /\ ~Agrees(n)
    OBVIOUS
  <2>3. n # 0
    BY <1>1, <2>2 DEF Sums
  <2>4. n \in 1 .. N /\ n - 1 \in 0 .. N /\ ~(n <= n - 1)
    BY <2>2, <2>3
  <2>5. Agrees(n - 1)
    BY <2>1, <2>4
  <2>6. /\ sum[n] = sum[n - 1] + (IF n \in U THEN v[n] ELSE 0)
        /\ more[n] = more[n - 1] + (IF n \in U \/ n = j THEN v[n] ELSE 0)
    BY <1>1, <1>3, <2>4 DEF Sums
  <2>7. sum[n - 1] \in Int /\ more[n - 1] \in Int /\ v[j] \in Int /\ v[n] \in Int
    BY <1>2, <2>4
  <2>8. CASE n = j
    <3>1. ~(j <= n - 1) /\ n \notin U
      BY <2>4, <2>8
    <3> QED BY <2>2, <2>5, <2>6, <2>7, <2>8, <3>1
  <2>9. CASE n # j
    <3>1. j <= n <=> j <= n - 1
      BY <2>4, <2>9
    <3> QED BY <2>2, <2>5, <2>6, <2>7, <2>9, <3>1
  <2> QED BY <2>8, <2>9
<1>5. N \in 0 .. N /\ j <= N
  OBVIOUS
<1>6. Agrees(N)
  BY <1>4, <1>5
<1> QED BY <1>5, <1>6 DEF sum, more, V

\* Nothing adds up to nothing, and weights that are not negative to no less
\* than some of them do.
LEMMA SumBounds ==
    ASSUME NEW N \in Nat, NEW v \in [1 .. N -> Int]
    PROVE  /\ SumTo(v, {}, N)[N] = 0
           /\ (\A i \in 1 .. N : v[i] >= 0) =>
                \A U \in SUBSET (1 .. N) : SumTo(v, U, N)[N] <= SumTo(v, 1 .. N, N)[N]
<1> DEFINE none == SumTo(v, {}, N)
           all == SumTo(v, 1 .. N, N)
<1>1. none[N] = 0
  <2> DEFINE Bad == {k \in 0 .. N : none[k] # 0}
  <2>1. ASSUME Bad # {} PROVE FALSE
    <3>1. PICK n \in Bad : \A m \in Bad : n <= m
      <4>1. Bad \in SUBSET Nat
        OBVIOUS
      <4> HIDE DEF Bad
      <4> QED BY <2>1, <4>1, Least
    <3>2. n \in 0 .. N /\ none[n] # 0
      OBVIOUS
    <3>3. n # 0
      BY <3>2, SumSays DEF Sums
    <3>4. n \in 1 .. N /\ n - 1 \in 0 .. N /\ ~(n <= n - 1)
      BY <3>2, <3>3
    <3>5. none[n - 1] = 0
      BY <3>1, <3>4
    <3>6. none[n] = none[n - 1] + (IF n \in {} THEN v[n] ELSE 0)
      BY <3>4, SumSays DEF Sums
    <3> HIDE DEF none
    <3> QED BY <3>2, <3>5, <3>6
  <2>2. N \in 0 .. N
    OBVIOUS
  <2> QED BY <2>1, <2>2
<1>2. ASSUME \A i \in 1 .. N : v[i] >= 0, NEW U \in SUBSET (1 .. N)
      PROVE  SumTo(v, U, N)[N] <= all[N]
  <2> DEFINE some == SumTo(v, U, N)
             Bad == {k \in 0 .. N : ~(some[k] <= all[k])}
  <2>1. Sums(some, v, U, N) /\ Sums(all, v, 1 .. N, N)
    BY SumSays
  <2>2. \A k \in 0 .. N : some[k] \in Int /\ all[k] \in Int
    BY SumType
  <2> HIDE DEF some, all
  <2>3. ASSUME Bad # {} PROVE FALSE
    <3>1. PICK n \in Bad : \A m \in Bad : n <= m
      <4>1. Bad \in SUBSET Nat
        OBVIOUS
      <4> HIDE DEF Bad
      <4> QED BY <2>3, <4>1, Least
    <3>2. n \in 0 .. N /\ ~(some[n] <= all[n])
      OBVIOUS
    <3>3. n # 0
      BY <2>1, <3>2 DEF Sums
    <3>4. n \in 1 .. N /\ n - 1 \in 0 .. N /\ ~(n <= n - 1)
      BY <3>2, <3>3
    <3>5. some[n - 1] <= all[n - 1]
      BY <3>1, <3>4
    <3>6. /\ some[n] = some[n - 1] + (IF n \in U THEN v[n] ELSE 0)
          /\ all[n] = all[n - 1] + v[n]
      BY <2>1, <3>4 DEF Sums
    <3>7. some[n - 1] \in Int /\ all[n - 1] \in Int /\ v[n] \in Int /\ v[n] >= 0
      BY <1>2, <2>2, <3>4
    <3> QED BY <3>2, <3>5, <3>6, <3>7
  <2>4. N \in 0 .. N
    OBVIOUS
  <2>5. some[N] <= all[N]
    BY <2>3, <2>4
  <2> QED BY <2>5 DEF some, all
<1> QED BY <1>1, <1>2

\* The fold, with the weights written out.
FoldOf(f, v, D) ==
    f = [s \in SUBSET D |-> IF s = {} THEN 0
                            ELSE LET x == CHOOSE x \in s : TRUE
                                 IN v[x] + f[s \ {x}]]

LEMMA FoldExists ==
    ASSUME NEW N \in Nat, NEW v \in [1 .. N -> Int]
    PROVE  \E f : FoldOf(f, v, 1 .. N)
<1> DEFINE f == [s \in SUBSET (1 .. N) |-> SumTo(v, s, N)[N]]
           g == [s \in SUBSET (1 .. N) |-> IF s = {} THEN 0
                                           ELSE LET x == CHOOSE x \in s : TRUE
                                                IN v[x] + f[s \ {x}]]
<1>1. ASSUME NEW s \in SUBSET (1 .. N) PROVE f[s] = g[s]
  <2>1. CASE s = {}
    <3>1. SumTo(v, {}, N)[N] = 0
      BY SumBounds
    <3> QED BY <2>1, <3>1
  <2>2. CASE s # {}
    <3> DEFINE x == CHOOSE x \in s : TRUE
               rest == s \ {x}
    <3>1. x \in s /\ x \in 1 .. N
      BY <2>2
    <3>2. rest \in SUBSET (1 .. N) /\ x \notin rest /\ rest \cup {x} = s
      BY <3>1
    <3>3. g[s] = v[x] + f[rest]
      BY <2>2
    <3>4. f[rest] = SumTo(v, rest, N)[N]
      BY <3>2
    <3> HIDE DEF x, rest
    <3>5. SumTo(v, rest \cup {x}, N)[N] = SumTo(v, rest, N)[N] + v[x]
      BY <3>1, <3>2, SumMore
    <3>6. SumTo(v, rest, N)[N] \in Int /\ v[x] \in Int
      <4>1. N \in 0 .. N
        OBVIOUS
      <4> QED BY <3>1, <4>1, SumType
    <3>7. f[s] = SumTo(v, s, N)[N]
      OBVIOUS
    <3> HIDE DEF f, g
    <3>8. f[s] = SumTo(v, rest, N)[N] + v[x]
      BY <3>2, <3>5, <3>7, Zenon
    <3>9. g[s] = v[x] + SumTo(v, rest, N)[N]
      BY <3>3, <3>4, Zenon
    <3> QED BY <3>6, <3>8, <3>9
  <2> QED BY <2>1, <2>2
<1>2. f = g
  <2> HIDE DEF f
  <2>1. DOMAIN f = SUBSET (1 .. N) /\ f = [s \in SUBSET (1 .. N) |-> f[s]]
    BY DEF f
  <2> QED BY <1>1, <2>1
<1> HIDE DEF f
<1>3. FoldOf(f, v, 1 .. N)
  BY <1>2 DEF FoldOf
<1> QED BY <1>3

LEMMA FoldIsSum ==
    ASSUME NEW N \in Nat, NEW v \in [1 .. N -> Int], NEW f, FoldOf(f, v, 1 .. N)
    PROVE  f[1 .. N] = SumTo(v, 1 .. N, N)[N]
<1> DEFINE D == 1 .. N
           Differ == {s \in SUBSET D : f[s] # SumTo(v, s, N)[N]}
           Sizes == {Cardinality(s) : s \in Differ}
<1>1. \A s \in SUBSET D : f[s] = IF s = {} THEN 0
                                 ELSE LET x == CHOOSE x \in s : TRUE IN v[x] + f[s \ {x}]
  <2> HIDE DEF D
  <2> QED BY Zenon DEF FoldOf, D
<1>2. \A s \in SUBSET D : IsFiniteSet(s) /\ Cardinality(s) \in Nat
  <2>1. IsFiniteSet(D)
    BY FS_Interval
  <2> HIDE DEF D
  <2> QED BY <2>1, FS_Subset, FS_CardinalityType
<1>3. ASSUME Differ # {} PROVE FALSE
  <2>1. Sizes \in SUBSET Nat /\ Sizes # {}
    BY <1>2, <1>3
  <2>2. PICK n \in Sizes : \A m \in Sizes : n <= m
    <3> HIDE DEF Sizes
    <3> QED BY <2>1, Least
  <2>3. PICK s \in Differ : n = Cardinality(s)
    BY <2>2
  <2>4. s \in SUBSET D /\ f[s] # SumTo(v, s, N)[N]
    OBVIOUS
  <2>5. s # {}
    <3>1. f[{}] = 0 /\ SumTo(v, {}, N)[N] = 0
      BY <1>1, SumBounds
    <3> QED BY <2>4, <3>1
  <2> DEFINE x == CHOOSE x \in s : TRUE
             rest == s \ {x}
  <2>6. x \in s /\ x \in D
    BY <2>4, <2>5
  <2>7. f[s] = v[x] + f[rest]
    BY <1>1, <2>4, <2>5
  <2> HIDE DEF x
  <2>8. rest \in SUBSET D /\ x \notin rest /\ rest \cup {x} = s
    BY <2>4, <2>6
  <2>9. Cardinality(rest) = n - 1 /\ n \in Nat
    <3>1. IsFiniteSet(s) /\ n \in Nat
      BY <1>2, <2>3, <2>4
    <3> QED BY <2>3, <2>6, <3>1, FS_RemoveElement
  <2>10. rest \notin Differ
    <3>1. ~(n <= Cardinality(rest))
      BY <2>9
    <3> HIDE DEF Differ, rest
    <3> QED BY <2>2, <3>1
  <2> HIDE DEF rest
  <2>11. f[rest] = SumTo(v, rest, N)[N]
    BY <2>8, <2>10
  <2>12. SumTo(v, s, N)[N] = SumTo(v, rest, N)[N] + v[x]
    <3> HIDE DEF Differ, Sizes
    <3>1. SumTo(v, rest \cup {x}, N)[N] = SumTo(v, rest, N)[N] + v[x]
      BY <2>6, <2>8, SumMore
    <3> QED BY <2>8, <3>1, Zenon
  <2>13. SumTo(v, rest, N)[N] \in Int /\ v[x] \in Int
    <3>1. N \in 0 .. N
      OBVIOUS
    <3> QED BY <2>6, <3>1, SumType
  <2>14. f[s] = v[x] + SumTo(v, rest, N)[N]
    BY <2>7, <2>11, Zenon
  <2> QED BY <2>4, <2>12, <2>13, <2>14
<1> QED BY <1>3

-----------------------------------------------------------------------------
(* The entries about lines of the PO. *)

Answer == [lines : Seq(AnswerLine), unexpected : Seq(InvoiceLine), total : Int]

\* What is kept of the first n entries.
Keeps(s, answer, lines, n) ==
    /\ s \in Seq(AnswerLine)
    /\ \A k \in DOMAIN s : \E l \in 1 .. n : s[k] = answer.lines[l]
    /\ \A k \in DOMAIN s : IsOn(s[k].no, lines)
    /\ DistinctEntries(answer) => \A k, l \in DOMAIN s : s[k].no = s[l].no => k = l

\* The loop of FromVerifyResult over the entries, with what it has kept.
KeptOf(f, answer, lines, k) ==
    IF k = 0 THEN <<>>
    ELSE IF IsOn(answer.lines[k].no, lines) THEN Append(f[k - 1], answer.lines[k])
         ELSE f[k - 1]

LEMMA KeepsOn ==
    ASSUME NEW answer \in Answer, NEW lines, NEW k \in 1 .. Len(answer.lines), NEW s,
           Keeps(s, answer, lines, k - 1)
    PROVE  /\ Keeps(s, answer, lines, k)
           /\ IsOn(answer.lines[k].no, lines) =>
                Keeps(Append(s, answer.lines[k]), answer, lines, k)
<1>1. /\ answer.lines \in Seq(AnswerLine) /\ answer.lines[k] \in AnswerLine
      /\ Len(answer.lines) \in Nat /\ DOMAIN answer.lines = 1 .. Len(answer.lines)
  BY DEF Answer
<1>2. s \in Seq(AnswerLine) /\ Len(s) \in Nat /\ DOMAIN s = 1 .. Len(s)
  BY DEF Keeps
<1>3. Keeps(s, answer, lines, k)
  BY DEF Keeps
<1>4. ASSUME IsOn(answer.lines[k].no, lines)
      PROVE  Keeps(Append(s, answer.lines[k]), answer, lines, k)
  <2> DEFINE t == Append(s, answer.lines[k])
  <2>1. /\ t \in Seq(AnswerLine) /\ DOMAIN t = 1 .. Len(s) + 1
        /\ t[Len(s) + 1] = answer.lines[k] /\ \A l \in 1 .. Len(s) : t[l] = s[l]
    BY <1>1, <1>2
  <2> HIDE DEF t
  <2>2. \A l \in DOMAIN t : \E i \in 1 .. k : t[l] = answer.lines[i]
    BY <1>2, <2>1, SMTT(40) DEF Keeps
  <2>3. \A l \in DOMAIN t : IsOn(t[l].no, lines)
    BY <1>2, <1>4, <2>1 DEF Keeps
  <2>4. ASSUME DistinctEntries(answer), NEW i \in DOMAIN t, NEW l \in DOMAIN t,
               t[i].no = t[l].no
        PROVE  i = l
    <3>1. \A x \in 1 .. Len(s) : s[x].no # answer.lines[k].no
      <4> TAKE x \in 1 .. Len(s)
      <4>1. PICK y \in 1 .. k - 1 : s[x] = answer.lines[y]
        BY <1>2 DEF Keeps
      <4>2. y \in DOMAIN answer.lines /\ k \in DOMAIN answer.lines /\ y # k
        BY <1>1
      <4> QED BY <2>4, <4>1, <4>2 DEF DistinctEntries
    <3>2. \A x, y \in 1 .. Len(s) : s[x].no = s[y].no => x = y
      BY <1>2, <2>4 DEF Keeps
    <3> QED BY <2>1, <2>4, <3>1, <3>2
  <2> QED BY <2>1, <2>2, <2>3, <2>4 DEF Keeps, t
<1> QED BY <1>3, <1>4

\* The recursion has a solution: one for every prefix, by the least prefix
\* without one.
LEMMA KeptExists ==
    ASSUME NEW answer \in Answer, NEW lines
    PROVE  \E f : f = [k \in 0 .. Len(answer.lines) |-> KeptOf(f, answer, lines, k)]
<1> DEFINE N == Len(answer.lines)
           Solves(f, n) == \A k \in 0 .. n : f[k] = KeptOf(f, answer, lines, k)
           Bad == {n \in 0 .. N : ~ \E f : f = [k \in 0 .. n |-> f[k]] /\ Solves(f, n)}
<1>1. N \in Nat
  BY DEF Answer
<1>2. ASSUME Bad # {} PROVE FALSE
  <2>1. PICK n \in Bad : \A m \in Bad : n <= m
    <3>1. Bad \in SUBSET Nat
      BY <1>1
    <3> HIDE DEF Bad
    <3> QED BY <1>2, <3>1, Least
  <2>2. n \in 0 .. N /\ n \in Nat
    BY <1>1
  <2>3. CASE n = 0
    <3> DEFINE f == [k \in 0 .. 0 |-> <<>>]
    <3>1. f = [k \in 0 .. n |-> f[k]] /\ Solves(f, n)
      BY <2>3 DEF KeptOf
    <3> QED BY <3>1
  <2>4. CASE n > 0
    <3>1. PICK f : f = [k \in 0 .. n - 1 |-> f[k]] /\ Solves(f, n - 1)
      <4>1. n - 1 \in 0 .. N /\ ~(n <= n - 1)
        BY <2>2, <2>4
      <4>2. n - 1 \notin Bad
        BY <2>1, <4>1
      <4> QED BY <4>1, <4>2
    <3> DEFINE g == [k \in 0 .. n |-> IF k = n THEN KeptOf(f, answer, lines, n) ELSE f[k]]
    <3>2. \A k \in 0 .. n - 1 : g[k] = f[k]
      BY <2>2
    <3>3. \A k \in 0 .. n : KeptOf(g, answer, lines, k) = KeptOf(f, answer, lines, k)
      BY <2>2, <3>2 DEF KeptOf
    <3>4. \A k \in 0 .. n : g[k] = KeptOf(f, answer, lines, k)
      BY <2>2, <3>1
    <3>5. g = [k \in 0 .. n |-> g[k]] /\ Solves(g, n)
      BY <3>3, <3>4
    <3> QED BY <3>5
  <2> QED BY <2>2, <2>3, <2>4
<1>3. PICK f : f = [k \in 0 .. N |-> f[k]] /\ Solves(f, N)
  BY <1>1, <1>2
<1>4. f = [k \in 0 .. N |-> KeptOf(f, answer, lines, k)]
  BY <1>3
<1> QED BY <1>4

LEMMA KnownKeeps ==
    ASSUME NEW answer \in Answer, NEW lines
    PROVE  Keeps(Known(answer, lines), answer, lines, Len(answer.lines))
<1> DEFINE N == Len(answer.lines)
           kept == CHOOSE f : f = [k \in 0 .. N |-> KeptOf(f, answer, lines, k)]
<1>1. Known(answer, lines) = kept[N]
  BY DEF Known, KeptOf
<1>2. kept = [k \in 0 .. N |-> KeptOf(kept, answer, lines, k)]
  BY KeptExists
<1> HIDE DEF kept
<1>3. N \in Nat /\ \A k \in 0 .. N : kept[k] = KeptOf(kept, answer, lines, k)
  <2>1. N \in Nat
    BY DEF Answer
  <2>2. ASSUME NEW k \in 0 .. N PROVE kept[k] = KeptOf(kept, answer, lines, k)
    <3> HIDE DEF N
    <3> QED BY <1>2, Zenon
  <2> QED BY <2>1, <2>2
<1> DEFINE Bad == {k \in 0 .. N : ~Keeps(kept[k], answer, lines, k)}
<1>4. ASSUME Bad # {} PROVE FALSE
  <2>1. PICK n \in Bad : \A m \in Bad : n <= m
    <3>1. Bad \in SUBSET Nat
      BY <1>3
    <3> HIDE DEF Bad
    <3> QED BY <1>4, <3>1, Least
  <2>2. n \in 0 .. N /\ n \in Nat /\ ~Keeps(kept[n], answer, lines, n)
    BY <1>3
  <2>3. CASE n = 0
    <3>1. kept[n] = <<>>
      BY <1>3, <2>2, <2>3 DEF KeptOf
    <3> QED BY <2>2, <3>1 DEF Keeps
  <2>4. CASE n > 0
    <3>1. Keeps(kept[n - 1], answer, lines, n - 1)
      <4>1. n - 1 \in 0 .. N /\ ~(n <= n - 1)
        BY <2>2, <2>4
      <4> QED BY <2>1, <4>1
    <3>2. kept[n] = IF IsOn(answer.lines[n].no, lines) THEN Append(kept[n - 1], answer.lines[n])
                    ELSE kept[n - 1]
      BY <1>3, <2>2, <2>4 DEF KeptOf
    <3>3. n \in 1 .. Len(answer.lines)
      BY <2>2, <2>4
    <3> QED BY <2>2, <3>1, <3>2, <3>3, KeepsOn
  <2> QED BY <2>2, <2>3, <2>4
<1> QED BY <1>1, <1>3, <1>4

LEMMA LineOf ==
    ASSUME NEW lines \in Seq(POLine), NEW no, IsOn(no, lines)
    PROVE  byLineNo(lines, no) \in DOMAIN lines /\ lines[byLineNo(lines, no)].no = no
<1> DEFINE S == {i \in DOMAIN lines : lines[i].no = no}
<1>1. PICK i \in S : \A j \in S : j <= i
  <2>1. Len(lines) \in Nat /\ DOMAIN lines = 1 .. Len(lines) /\ S # {}
    BY DEF IsOn
  <2>2. S \in SUBSET (1 .. Len(lines))
    BY <2>1
  <2> HIDE DEF S
  <2> QED BY <2>1, <2>2, Greatest
<1>2. \E x \in DOMAIN lines :
        /\ lines[x].no = no
        /\ \A j \in DOMAIN lines : lines[j].no = no => j <= x
  BY <1>1
<1> QED BY <1>2 DEF byLineNo

-----------------------------------------------------------------------------
(* The report of an answer. *)

EntryPairs(answer, lines) ==
    [k \in DOMAIN Known(answer, lines) |->
        Pair(IF Known(answer, lines)[k].status \in {"match", "differs"} THEN k ELSE 0,
             byLineNo(lines, Known(answer, lines)[k].no),
             EntryVerdict(Known(answer, lines)[k],
                          lines[byLineNo(lines, Known(answer, lines)[k].no)]))]

ExtraPairs(answer, lines) ==
    [k \in DOMAIN answer.unexpected |->
        Pair(Len(Known(answer, lines)) + k, 0, "extra_on_invoice")]

VerdictWords == Matching \cup Mismatching \cup {"missing_from_invoice", "extra_on_invoice", ""}

FeeWords == {"shipping_fee", "handling_fee", "tax_fee"}

PairType == [inv : Nat, pl : Nat, verdict : VerdictWords \cup FeeWords]

TotalAgrees(answer, lines) == answer.total = POTotal(lines)

Differs(answer, lines) ==
    \/ Verdicts(EntryPairs(answer, lines)) \cap Mismatching # {}
    \/ ~TotalAgrees(answer, lines)

ArePairs(f, n) == n \in Nat /\ f \in [1 .. n -> PairType]

Join(front, back) == front \o back

LEMMA VerdictsJoined ==
    ASSUME NEW i \in Nat, NEW front, DOMAIN front = 1 .. i,
           NEW j \in Nat, NEW back, DOMAIN back = 1 .. j,
           NEW all, DOMAIN all = 1 .. i + j,
           \A k \in 1 .. i : all[k] = front[k], \A k \in 1 .. j : all[i + k] = back[k]
    PROVE  Verdicts(all) = Verdicts(front) \cup Verdicts(back)
<1>1. \A k \in 1 .. i + j : k \in 1 .. i \/ (k - i \in 1 .. j /\ i + (k - i) = k)
  OBVIOUS
<1>2. ASSUME NEW v PROVE v \in Verdicts(all) <=> v \in Verdicts(front) \cup Verdicts(back)
  <2>1. ASSUME v \in Verdicts(all) PROVE v \in Verdicts(front) \cup Verdicts(back)
    <3>1. PICK k \in 1 .. i + j : v = all[k].verdict
      BY <2>1 DEF Verdicts
    <3>2. CASE k \in 1 .. i
      BY <3>1, <3>2 DEF Verdicts
    <3>3. CASE k - i \in 1 .. j /\ i + (k - i) = k
      <4>1. all[k] = back[k - i]
        BY <3>3
      <4> QED BY <3>1, <3>3, <4>1 DEF Verdicts
    <3> QED BY <1>1, <3>2, <3>3
  <2>2. ASSUME NEW k \in 1 .. i, v = front[k].verdict PROVE v \in Verdicts(all)
    <3>1. k \in 1 .. i + j
      OBVIOUS
    <3> QED BY <2>2, <3>1 DEF Verdicts
  <2>3. ASSUME NEW k \in 1 .. j, v = back[k].verdict PROVE v \in Verdicts(all)
    <3>1. i + k \in 1 .. i + j
      OBVIOUS
    <3> QED BY <2>3, <3>1 DEF Verdicts
  <2>4. v \in Verdicts(front) \cup Verdicts(back) =>
          \/ \E k \in 1 .. i : v = front[k].verdict
          \/ \E k \in 1 .. j : v = back[k].verdict
    BY DEF Verdicts
  <2> QED BY <2>1, <2>2, <2>3, <2>4
<1> QED BY <1>2

LEMMA PairsJoined ==
    ASSUME NEW n, NEW f, ArePairs(f, n), NEW m, NEW g, ArePairs(g, m)
    PROVE  /\ DOMAIN Join(f, g) = 1 .. n + m
           /\ \A k \in 1 .. n : Join(f, g)[k] = f[k]
           /\ Verdicts(Join(f, g)) = Verdicts(f) \cup Verdicts(g)
<1>1. n \in Nat /\ DOMAIN f = 1 .. n /\ m \in Nat /\ DOMAIN g = 1 .. m
  BY DEF ArePairs
<1>2. /\ DOMAIN Join(f, g) = 1 .. n + m
      /\ \A k \in 1 .. n : Join(f, g)[k] = f[k]
      /\ \A k \in 1 .. m : Join(f, g)[n + k] = g[k]
  <2>1. f \in Seq(PairType) /\ g \in Seq(PairType) /\ Len(f) = n /\ Len(g) = m
    BY DEF ArePairs
  <2> QED BY <1>1, <2>1 DEF Join
<1>3. Verdicts(Join(f, g)) = Verdicts(f) \cup Verdicts(g)
  BY <1>1, <1>2, VerdictsJoined
<1> QED BY <1>2, <1>3

Reports(r, e, answer, lines) ==
    /\ r.totalMatch <=> TotalAgrees(answer, lines)
    /\ Clean(r) <=> TotalAgrees(answer, lines) /\ Verdicts(e) \cap Mismatching = {}
    /\ DOMAIN e = DOMAIN Known(answer, lines)
    /\ DOMAIN e \subseteq DOMAIN r.pairs
    /\ \A k \in DOMAIN e : r.pairs[k] = e[k]
    /\ Verdicts(e) \subseteq Verdicts(r.pairs)
    /\ Verdicts(r.pairs) \subseteq VerdictWords

LEMMA PairsOf ==
    ASSUME NEW answer \in Answer, NEW lines \in Seq(POLine)
    PROVE  Reports(FromVerifyResult(answer, lines), EntryPairs(answer, lines), answer, lines)
<1> DEFINE known == Known(answer, lines)
           e == EntryPairs(answer, lines)
           x == ExtraPairs(answer, lines)
           r == FromVerifyResult(answer, lines)
<1>1. /\ Len(known) \in Nat /\ DOMAIN known = 1 .. Len(known)
      /\ Len(answer.unexpected) \in Nat
      /\ DOMAIN answer.unexpected = 1 .. Len(answer.unexpected)
  BY KnownKeeps DEF Keeps, Answer
<1>2. r = [totalMatch |-> TotalAgrees(answer, lines), anyLineMismatch |-> Differs(answer, lines),
           pairs |-> Join(e, x)]
  BY Zenon DEF FromVerifyResult, EntryPairs, ExtraPairs, Join, TotalAgrees, Differs
<1>3. \A k \in DOMAIN known : e[k] \in PairType /\ e[k].verdict \in VerdictWords
  <2>1. \A inv, pl : LineVerdict(inv, pl) \in Matching \cup Mismatching
    BY DEF LineVerdict, Matching, Mismatching
  <2>2. \A lr, pl : EntryVerdict(lr, pl) \in VerdictWords
    BY <2>1 DEF EntryVerdict, VerdictWords, Matching
  <2> TAKE k \in DOMAIN known
  <2>3. byLineNo(lines, known[k].no) \in Nat
    BY KnownKeeps, LineOf DEF Keeps
  <2> QED BY <1>1, <2>2, <2>3 DEF EntryPairs, Pair, PairType
<1>4. ASSUME NEW k \in DOMAIN answer.unexpected
      PROVE  x[k] \in PairType /\ x[k].verdict \in VerdictWords
  <2>1. x[k] = [inv |-> Len(known) + k, pl |-> 0, verdict |-> "extra_on_invoice"]
    BY DEF ExtraPairs, Pair
  <2>2. Len(known) + k \in Nat
    BY <1>1
  <2> QED BY <2>1, <2>2 DEF PairType, VerdictWords
<1>5. ArePairs(e, Len(known)) /\ DOMAIN e = DOMAIN known /\ ArePairs(x, Len(answer.unexpected))
  BY <1>1, <1>3, <1>4 DEF EntryPairs, ExtraPairs, ArePairs
<1>6. Verdicts(e) \subseteq VerdictWords /\ Verdicts(x) \subseteq VerdictWords
  BY <1>3, <1>4 DEF Verdicts, EntryPairs, ExtraPairs
<1> HIDE DEF known, e, x
<1>7. /\ DOMAIN Join(e, x) = 1 .. Len(known) + Len(answer.unexpected)
      /\ \A k \in 1 .. Len(known) : Join(e, x)[k] = e[k]
      /\ Verdicts(Join(e, x)) = Verdicts(e) \cup Verdicts(x)
  BY <1>5, PairsJoined
<1> HIDE DEF r
<1>8. /\ r.pairs = Join(e, x)
      /\ r.totalMatch = TotalAgrees(answer, lines)
      /\ r.anyLineMismatch = Differs(answer, lines)
  BY <1>2
<1>9. Clean(r) <=> TotalAgrees(answer, lines) /\ Verdicts(e) \cap Mismatching = {}
  BY <1>8 DEF Clean, Differs, e
<1>10. /\ DOMAIN e = DOMAIN known
       /\ DOMAIN e \subseteq DOMAIN r.pairs /\ \A k \in DOMAIN e : r.pairs[k] = e[k]
       /\ Verdicts(r.pairs) = Verdicts(e) \cup Verdicts(x)
       /\ Verdicts(r.pairs) \subseteq VerdictWords
  BY <1>1, <1>5, <1>6, <1>7, <1>8
<1>11. r.totalMatch <=> TotalAgrees(answer, lines)
  BY <1>8
<1>12. Reports(r, e, answer, lines)
  BY <1>9, <1>10, <1>11 DEF Reports, known
<1> QED BY <1>12, Zenon DEF e, r

-----------------------------------------------------------------------------
(* What a filed row says. *)

Flagged(answer, order) == ~Clean(FromVerifyResult(answer, order))

RowFields == {"filed", "answer", "taken", "poLines", "data", "recon", "needsRescan"}

IsFiled(r) ==
    /\ DOMAIN r = RowFields
    /\ r = [f \in RowFields |-> r[f]]
    /\ r.answer \in Answers
    /\ r.poLines \in Orders
    /\ r.data = Synthesized(r.answer, r.poLines)
    /\ r.taken => ~shouldEscalateVerify(r.answer, r.poLines)
    /\ r.needsRescan = Flagged(r.answer, r.poLines)

LEMMA FiledSays ==
    ASSUME NEW r, IsFiled(r)
    PROVE  /\ r # NoRow /\ r.answer \in Answer /\ r.poLines \in Seq(POLine)
           /\ \A recon : IsFiled([r EXCEPT !.recon = recon])
<1>1. r # NoRow
  BY DEF IsFiled, NoRow, RowFields
<1>2. r.answer \in Answer /\ r.poLines \in Seq(POLine)
  BY ReconAssumption DEF IsFiled, Answer
<1>3. ASSUME NEW recon PROVE IsFiled([r EXCEPT !.recon = recon])
  <2> DEFINE s == [r EXCEPT !.recon = recon]
  <2>1. /\ s.answer = r.answer /\ s.poLines = r.poLines /\ s.data = r.data
        /\ s.taken = r.taken /\ s.needsRescan = r.needsRescan
        /\ DOMAIN s = RowFields /\ s = [f \in RowFields |-> s[f]]
    BY DEF IsFiled, RowFields
  <2> HIDE DEF s
  <2>2. IsFiled(s)
    BY <2>1 DEF IsFiled
  <2> QED BY <2>2 DEF s
<1> QED BY <1>1, <1>2, <1>3

\* A report that is not clean calls for a blocker, and for Partial only when
\* nothing in it is mismatched or beyond the PO.
LEMMA BlockersOf ==
    ASSUME NEW answer \in Answer, NEW lines \in Seq(POLine)
    PROVE  LET r == FromVerifyResult(answer, lines)
           IN /\ ~Clean(r) => autoBlockersFromRecon(r) # {}
              /\ "Partial" \in autoBlockersFromRecon(r) =>
                    Verdicts(r.pairs) \subseteq Matching \cup {"missing_from_invoice", ""}
<1> DEFINE r == FromVerifyResult(answer, lines)
           e == EntryPairs(answer, lines)
           pricing ==
             Verdicts(r.pairs) \cap {"price_mismatch", "extra_on_invoice", "both_mismatch"} # {}
           purchasing == Verdicts(r.pairs) \cap {"qty_mismatch", "both_mismatch"} # {}
           partial == /\ ~r.totalMatch /\ ~pricing /\ ~purchasing
                      /\ "missing_from_invoice" \in Verdicts(r.pairs)
<1>1. /\ Verdicts(e) \subseteq Verdicts(r.pairs)
      /\ Verdicts(r.pairs) \subseteq VerdictWords
      /\ ~Clean(r) => ~r.totalMatch \/ Verdicts(e) \cap Mismatching # {}
  <2> HIDE DEF r, e
  <2>1. Reports(r, e, answer, lines)
    BY PairsOf, Zenon DEF r, e
  <2> QED BY <2>1 DEF Reports
<1>2. autoBlockersFromRecon(r) =
        IF partial THEN {"Partial"}
        ELSE (IF pricing \/ (~r.totalMatch /\ ~pricing /\ ~purchasing) THEN {"Pricing"} ELSE {})
             \cup (IF purchasing THEN {"Purchasing"} ELSE {})
  BY DEF autoBlockersFromRecon
<1>3. Verdicts(e) \cap Mismatching # {} => pricing \/ purchasing
  BY <1>1 DEF Mismatching
<1>4. "Partial" \in autoBlockersFromRecon(r) => ~pricing /\ ~purchasing
  BY <1>2
<1>5. ~pricing /\ ~purchasing =>
        Verdicts(r.pairs) \subseteq Matching \cup {"missing_from_invoice", ""}
  BY <1>1 DEF VerdictWords, Mismatching
<1>6. ~Clean(r) => autoBlockersFromRecon(r) # {}
  <2> HIDE DEF pricing, purchasing, r, e
  <2> QED BY <1>1, <1>2, <1>3
<1> QED BY <1>4, <1>5, <1>6

-----------------------------------------------------------------------------
(* The row in the cache is always the report of an answer on an order. *)

RowInv ==
    /\ po \in Orders
    /\ blocked \in BOOLEAN
    /\ row # NoRow => IsFiled(row)
    /\ cmp # Idle => row # NoRow

LEMMA RowInit == Init => RowInv
BY DEF Init, RowInv

LEMMA RowStep == RowInv /\ [Next]_vars => RowInv'
<1> SUFFICES ASSUME RowInv, [Next]_vars PROVE RowInv'
  OBVIOUS
<1>1. ASSUME NEW answer \in Answers, NEW taken \in BOOLEAN, processExtractionResult(answer, taken)
      PROVE  RowInv'
  <2> DEFINE data == Synthesized(answer, po)
             flag == Flagged(answer, po)
             recon == FromVerifyResult(answer, po)
  <2>1. row' = [filed |-> TRUE, answer |-> answer, taken |-> taken, poLines |-> po,
                data |-> data, recon |-> recon, needsRescan |-> flag]
    BY <1>1, Zenon DEF processExtractionResult, Flagged
  <2>2. (taken => ~shouldEscalateVerify(answer, po)) /\ po \in Orders
    BY <1>1 DEF processExtractionResult, RowInv
  <2>3. po' = po /\ cmp' = cmp /\ blocked' \in BOOLEAN /\ row = NoRow
    BY <1>1 DEF processExtractionResult, RowInv
  <2> HIDE DEF data, flag, recon
  <2>4. /\ DOMAIN row' = RowFields /\ row' = [f \in RowFields |-> row'[f]]
        /\ row'.answer = answer /\ row'.poLines = po /\ row'.data = data
        /\ row'.taken = taken /\ row'.needsRescan = flag
    BY <2>1 DEF RowFields
  <2>5. IsFiled(row')
    BY <2>2, <2>4 DEF IsFiled, data, flag
  <2> QED BY <2>2, <2>3, <2>5 DEF RowInv
<1>2. ASSUME NEW order \in Orders, EditPO(order) PROVE RowInv'
  BY <1>2 DEF EditPO, RowInv
<1>3. CASE ClerkBlocks
  BY <1>3 DEF ClerkBlocks, RowInv
<1>4. CASE StartRecheck
  BY <1>4 DEF StartRecheck, RowInv
<1>5. CASE ComparesLine
  BY <1>5 DEF ComparesLine, RowInv
<1>6. CASE ComparesRest
  BY <1>6 DEF ComparesRest, RowInv
<1>7. CASE EndRecheck
  <2>1. row # NoRow /\ IsFiled(row)
    BY <1>7 DEF EndRecheck, RowInv
  <2>2. po' = po /\ cmp' = Idle /\ blocked' \in BOOLEAN
    BY <1>7 DEF EndRecheck, RowInv
  <2>3. row' = row \/ row' = [row EXCEPT !.recon = CompareResult(cmp)]
    BY <1>7 DEF EndRecheck
  <2>4. IsFiled(row')
    BY <2>1, <2>3, FiledSays
  <2> QED BY <2>2, <2>4 DEF RowInv
<1>8. CASE UNCHANGED vars
  BY <1>8 DEF vars, RowInv
<1> QED BY <1>1, <1>2, <1>3, <1>4, <1>5, <1>6, <1>7, <1>8 DEF Next

LEMMA RowAlways == Spec => []RowInv
BY RowInit, RowStep, PTL DEF Spec

\* No discrepancy goes without a name (autoBlockersFromRecon): a row flagged
\* for rescan calls for a blocker, and Partial is said only of an invoice none
\* of whose lines is found mismatched or beyond the PO.
THEOREM DiscrepancyNamed == Spec => []DiscrepancyIsNamed
<1>1. RowInv => DiscrepancyIsNamed
  <2> SUFFICES ASSUME RowInv, row # NoRow PROVE DiscrepancyIsNamed
    BY DEF DiscrepancyIsNamed
  <2> DEFINE r == FromVerifyResult(row.answer, row.poLines)
  <2>1. row.answer \in Answer /\ row.poLines \in Seq(POLine)
    BY FiledSays DEF RowInv
  <2>2. row.needsRescan = Flagged(row.answer, row.poLines)
    BY DEF RowInv, IsFiled
  <2>3. row.needsRescan => ~Clean(r)
    BY <2>2 DEF Flagged
  <2>4. /\ ~Clean(r) => autoBlockersFromRecon(r) # {}
        /\ "Partial" \in autoBlockersFromRecon(r) =>
              Verdicts(r.pairs) \subseteq Matching \cup {"missing_from_invoice", ""}
    BY <2>1, BlockersOf
  <2> QED BY <2>3, <2>4 DEF DiscrepancyIsNamed
<1> QED BY <1>1, RowAlways, PTL

TellsApart(f, S, m) ==
    (\A k \in S : f[k] \in 1 .. m) /\ (\A k, l \in S : f[k] = f[l] => k = l)

\* As many different numbers from 1 to m as m leave none out.
LEMMA NoneLeftOut ==
    ASSUME NEW m \in Nat, NEW S, IsFiniteSet(S), ~(Cardinality(S) < m),
           NEW f, TellsApart(f, S, m)
    PROVE  \A i \in 1 .. m : \E k \in S : f[k] = i
<1>1. IsFiniteSet(1 .. m) /\ Cardinality(1 .. m) = m
  <2>1. m \in Int /\ 1 \in Int
    OBVIOUS
  <2>2. IsFiniteSet(1 .. m) /\ Cardinality(1 .. m) = IF 1 > m THEN 0 ELSE m - 1 + 1
    BY <2>1, FS_Interval
  <2> QED BY <2>2
<1>2. Cardinality(S) \in Nat
  BY FS_CardinalityType
<1> DEFINE g == [k \in S |-> f[k]]
<1>3. g \in Injection(S, 1 .. m)
  BY DEF Injection, IsInjective, TellsApart
<1>4. Cardinality(S) <= m /\ (Cardinality(S) = m <=> g \in Surjection(S, 1 .. m))
  BY <1>1, <1>3, FS_Injection
<1>5. g \in Surjection(S, 1 .. m)
  BY <1>2, <1>4
<1> QED BY <1>5 DEF Surjection

\* An answer taken below the last tier with each entry about a PO line of its
\* own speaks well of every PO line (shouldEscalateVerify): as many matches as
\* lines, no two about the same line, leave none out.
THEOREM TakenCovers == Spec => []TakenCoversPO
<1>1. RowInv => TakenCoversPO
  <2> SUFFICES ASSUME RowInv, row # NoRow, row.taken, DistinctEntries(row.answer),
                      Known(row.answer, row.poLines) = row.answer.lines
               PROVE  \A i \in DOMAIN row.poLines :
                        \E k \in DOMAIN FromVerifyResult(row.answer, row.poLines).pairs :
                          /\ FromVerifyResult(row.answer, row.poLines).pairs[k].pl = i
                          /\ FromVerifyResult(row.answer, row.poLines).pairs[k].verdict = "match"
    BY DEF TakenCoversPO
  <2> DEFINE answer == row.answer
             order == row.poLines
             entries == answer.lines
             S == Matched(answer)
             L == DOMAIN order
             line == [k \in S |-> byLineNo(order, entries[k].no)]
             e == EntryPairs(answer, order)
             r == FromVerifyResult(answer, order)
  <2>1. answer \in Answer /\ order \in Seq(POLine) /\ ~shouldEscalateVerify(answer, order)
    BY FiledSays DEF RowInv, IsFiled
  <2>2. /\ entries \in Seq(AnswerLine) /\ Len(entries) \in Nat /\ DOMAIN entries = 1 .. Len(entries)
        /\ S \subseteq 1 .. Len(entries) /\ Len(order) \in Nat /\ L = 1 .. Len(order)
    BY <2>1 DEF Answer, Matched
  <2>3. ~(Cardinality(S) < Len(order))
    BY <2>1 DEF shouldEscalateVerify
  <2>4. \A k \in 1 .. Len(entries) : IsOn(entries[k].no, order)
    BY <2>1, <2>2, KnownKeeps DEF Keeps
  <2>5. \A k \in S : line[k] \in L /\ order[line[k]].no = entries[k].no
    BY <2>1, <2>2, <2>4, LineOf
  <2>6. \A k \in S : line[k] \in 1 .. Len(order)
    BY <2>2, <2>5
  <2>7. \A k, l \in S : line[k] = line[l] => k = l
    BY <2>2, <2>5 DEF DistinctEntries
  <2>8. Reports(r, e, answer, order)
    BY <2>1, PairsOf
  <2>9. \A k \in S : e[k].pl = line[k] /\ e[k].verdict = "match"
    BY <2>2 DEF EntryPairs, Pair, EntryVerdict, Matched
  <2>10. \A i \in 1 .. Len(order) : \E k \in S : line[k] = i
    <3>1. IsFiniteSet(S) /\ Len(order) \in Nat
      <4>1. IsFiniteSet(1 .. Len(entries))
        <5>1. 1 \in Int /\ Len(entries) \in Int
          BY <2>2
        <5> QED BY <5>1, FS_Interval
      <4>2. S \in SUBSET (1 .. Len(entries)) /\ Len(order) \in Nat
        BY <2>2
      <4> HIDE DEF S
      <4> QED BY <4>1, <4>2, FS_Subset
    <3> HIDE DEF S, line, entries, order
    <3>2. TellsApart(line, S, Len(order))
      BY <2>6, <2>7 DEF TellsApart
    <3> QED BY <2>3, <3>1, <3>2, NoneLeftOut
  <2>11. DOMAIN e = DOMAIN entries /\ DOMAIN e \subseteq DOMAIN r.pairs
         /\ \A k \in DOMAIN e : r.pairs[k] = e[k]
    BY <2>8 DEF Reports
  <2>12. \A i \in L : \E k \in DOMAIN r.pairs : r.pairs[k].pl = i /\ r.pairs[k].verdict = "match"
    <3> HIDE DEF S, line, e, r, entries, order
    <3> TAKE i \in L
    <3>1. PICK k \in S : line[k] = i
      BY <2>2, <2>10
    <3>2. k \in DOMAIN e
      BY <2>2, <2>11
    <3>3. k \in DOMAIN r.pairs /\ r.pairs[k] = e[k]
      BY <2>11, <3>2
    <3> QED BY <2>9, <3>1, <3>3
  <2> QED BY <2>12
<1> QED BY <1>1, RowAlways, PTL

-----------------------------------------------------------------------------
(* A running comparison. *)

CmpFields == {"busy", "of", "data", "lines", "next", "rest", "used", "pairs"}

\* Exactly one pair of the report is about line n of the invoice, or about
\* line i of the PO.
OnceInv(pairs, n) == \E k \in DOMAIN pairs : \A l \in DOMAIN pairs : pairs[l].inv = n <=> l = k

OncePl(pairs, i) == \E k \in DOMAIN pairs : \A l \in DOMAIN pairs : pairs[l].pl = i <=> l = k

\* What is being compared, and how far the two loops are.
Running(c) ==
    /\ DOMAIN c = CmpFields
    /\ IsFiled(c.of)
    /\ c.data = c.of.data
    /\ c.lines \in Orders
    /\ c.next \in 1 .. Len(c.data.lines) + 1
    /\ c.rest \in 1 .. Len(c.lines) + 1
    /\ c.rest > 1 => c.next > Len(c.data.lines)
    /\ c.used \subseteq DOMAIN c.lines

\* The lines gone through have a pair each, and only they have one.
Accounts(c) ==
    /\ c.pairs \in Seq(PairType)
    /\ \A k \in DOMAIN c.pairs :
          /\ c.pairs[k].inv < c.next
          /\ c.pairs[k].pl \in {0} \cup c.used \cup (1 .. c.rest - 1)
    /\ \A n \in 1 .. c.next - 1 : OnceInv(c.pairs, n)
    /\ \A i \in c.used \cup (1 .. c.rest - 1) : OncePl(c.pairs, i)

\* As long as the PO reads as it did, an entry of the answer is paired with
\* the line it is about.
SameOrder(c) ==
    /\ c.lines = c.of.poLines
    /\ DistinctItems(c.lines)
    /\ DistinctEntries(c.of.answer)

EntriesOf(c) == Known(c.of.answer, c.of.poLines)

OwnLine(c, k) == byLineNo(c.lines, EntriesOf(c)[k].no)

Aligned(c) ==
    /\ Len(c.pairs) >= c.next - 1
    /\ c.rest = 1 => Len(c.pairs) = c.next - 1
    /\ SameOrder(c) =>
         /\ \A k \in 1 .. c.next - 1 : k <= Len(EntriesOf(c)) =>
               c.pairs[k] = Pair(k, OwnLine(c, k),
                                 LineVerdict(c.data.lines[k], c.lines[OwnLine(c, k)]))
         /\ c.next <= Len(EntriesOf(c)) =>
               \A i \in c.used : \E k \in 1 .. c.next - 1 : i = OwnLine(c, k)

\* A report that gets one more pair.
LEMMA OneMore ==
    ASSUME NEW p \in Seq(PairType), NEW x \in PairType
    PROVE  /\ Append(p, x) \in Seq(PairType)
           /\ Len(p) \in Nat /\ Len(Append(p, x)) = Len(p) + 1
           /\ DOMAIN p = 1 .. Len(p) /\ DOMAIN Append(p, x) = 1 .. Len(p) + 1
           /\ \A k \in 1 .. Len(p) : Append(p, x)[k] = p[k]
           /\ Append(p, x)[Len(p) + 1] = x
OBVIOUS

LEMMA OnceMore ==
    ASSUME NEW p \in Seq(PairType), NEW x \in PairType
    PROVE  /\ \A n : OnceInv(p, n) /\ x.inv # n => OnceInv(Append(p, x), n)
           /\ (\A k \in DOMAIN p : p[k].inv # x.inv) => OnceInv(Append(p, x), x.inv)
           /\ \A i : OncePl(p, i) /\ x.pl # i => OncePl(Append(p, x), i)
           /\ (\A k \in DOMAIN p : p[k].pl # x.pl) => OncePl(Append(p, x), x.pl)
<1> DEFINE q == Append(p, x)
           m == Len(p)
<1>1. /\ m \in Nat /\ DOMAIN p = 1 .. m /\ DOMAIN q = 1 .. m + 1
      /\ \A k \in 1 .. m : q[k] = p[k]
      /\ q[m + 1] = x
  BY OneMore
<1> HIDE DEF q, m
<1>2. ASSUME NEW n, OnceInv(p, n), x.inv # n PROVE OnceInv(q, n)
  <2>1. PICK k \in DOMAIN p : \A l \in DOMAIN p : p[l].inv = n <=> l = k
    BY <1>2 DEF OnceInv
  <2>2. \A l \in DOMAIN q : q[l].inv = n <=> l = k
    BY <1>1, <1>2, <2>1
  <2>3. k \in DOMAIN q
    BY <1>1
  <2> QED BY <2>2, <2>3 DEF OnceInv
<1>3. ASSUME \A k \in DOMAIN p : p[k].inv # x.inv PROVE OnceInv(q, x.inv)
  <2>1. m + 1 \in DOMAIN q /\ \A l \in DOMAIN q : q[l].inv = x.inv <=> l = m + 1
    BY <1>1, <1>3
  <2> QED BY <2>1 DEF OnceInv
<1>4. ASSUME NEW i, OncePl(p, i), x.pl # i PROVE OncePl(q, i)
  <2>1. PICK k \in DOMAIN p : \A l \in DOMAIN p : p[l].pl = i <=> l = k
    BY <1>4 DEF OncePl
  <2>2. \A l \in DOMAIN q : q[l].pl = i <=> l = k
    BY <1>1, <1>4, <2>1
  <2>3. k \in DOMAIN q
    BY <1>1
  <2> QED BY <2>2, <2>3 DEF OncePl
<1>5. ASSUME \A k \in DOMAIN p : p[k].pl # x.pl PROVE OncePl(q, x.pl)
  <2>1. m + 1 \in DOMAIN q /\ \A l \in DOMAIN q : q[l].pl = x.pl <=> l = m + 1
    BY <1>1, <1>5
  <2> QED BY <2>1 DEF OncePl
<1> QED BY <1>2, <1>3, <1>4, <1>5 DEF q

\* The invoice as it is kept has a line for each entry, and the lines beyond.
KeptLine(lr, pl) ==
    [item |-> pl.item, words |-> pl.words,
     qty |-> CASE lr.status = "match" -> pl.qty
               [] lr.status = "differs" -> lr.qty
               [] OTHER -> 0,
     unit |-> CASE lr.status = "match" -> pl.unit
                [] lr.status = "differs" -> lr.unit
                [] OTHER -> 0,
     ext |-> CASE lr.status = "match" -> Extended(pl)
               [] lr.status = "differs" -> lr.ext
               [] OTHER -> 0]

KeptLines(known, lines) ==
    [k \in DOMAIN known |-> KeptLine(known[k], lines[byLineNo(lines, known[k].no)])]

LEMMA KeptLineType ==
    ASSUME NEW lr \in AnswerLine, NEW pl \in POLine
    PROVE  KeptLine(lr, pl) \in InvoiceLine
<1>1. Extended(pl) \in Int
  BY DEF Extended, POLine
<1> DEFINE ext == Extended(pl)
<1>2. ext \in Int
  BY <1>1
<1> HIDE DEF ext
<1> QED BY <1>2 DEF KeptLine, AnswerLine, POLine, InvoiceLine, ext

LEMMA DataOf ==
    ASSUME NEW answer \in Answer, NEW lines \in Seq(POLine)
    PROVE  /\ Synthesized(answer, lines).lines \in Seq(InvoiceLine)
           /\ Len(Known(answer, lines)) \in Nat
           /\ Len(Known(answer, lines)) <= Len(Synthesized(answer, lines).lines)
           /\ \A k \in 1 .. Len(Known(answer, lines)) :
                Synthesized(answer, lines).lines[k]
                  = KeptLine(Known(answer, lines)[k],
                             lines[byLineNo(lines, Known(answer, lines)[k].no)])
           /\ Synthesized(answer, lines).total = answer.total
<1> DEFINE known == Known(answer, lines)
           front == KeptLines(known, lines)
           data == Synthesized(answer, lines)
<1>1. /\ Len(known) \in Nat /\ DOMAIN known = 1 .. Len(known)
      /\ answer.unexpected \in Seq(InvoiceLine)
  BY KnownKeeps DEF Keeps, Answer
<1>2. data = [lines |-> front \o answer.unexpected, total |-> answer.total]
  BY Zenon DEF Synthesized, KeptLines, KeptLine
<1>3. \A k \in DOMAIN known :
        KeptLine(known[k], lines[byLineNo(lines, known[k].no)]) \in InvoiceLine
  <2> TAKE k \in DOMAIN known
  <2>1. known[k] \in AnswerLine /\ IsOn(known[k].no, lines)
    BY KnownKeeps, <1>1 DEF Keeps
  <2>2. byLineNo(lines, known[k].no) \in DOMAIN lines
    BY <2>1, LineOf
  <2>3. lines[byLineNo(lines, known[k].no)] \in POLine
    BY <2>2
  <2> QED BY <2>1, <2>3, KeptLineType
<1>4. front \in Seq(InvoiceLine) /\ Len(front) = Len(known)
  BY <1>1, <1>3 DEF KeptLines
<1>5. \A k \in 1 .. Len(known) :
        front[k] = KeptLine(known[k], lines[byLineNo(lines, known[k].no)])
  BY <1>1 DEF KeptLines
<1> HIDE DEF known, front, data
<1>6. data.lines = front \o answer.unexpected /\ data.total = answer.total
  BY <1>2
<1>7. /\ front \o answer.unexpected \in Seq(InvoiceLine)
      /\ Len(known) <= Len(front \o answer.unexpected)
      /\ \A k \in 1 .. Len(known) : (front \o answer.unexpected)[k] = front[k]
  BY <1>1, <1>4
<1>8. /\ data.lines \in Seq(InvoiceLine) /\ Len(known) <= Len(data.lines)
      /\ \A k \in 1 .. Len(known) :
            data.lines[k] = KeptLine(known[k], lines[byLineNo(lines, known[k].no)])
  BY <1>5, <1>6, <1>7
<1> QED BY <1>1, <1>6, <1>8 DEF known, data

-----------------------------------------------------------------------------
(* The best free line. *)

LEMMA ScoreOf ==
    ASSUME NEW inv \in InvoiceLine, NEW pl \in POLine
    PROVE  /\ score(inv, pl) \in Nat
           /\ Cardinality(inv.words) \in Nat
           /\ inv.item # <<>> /\ inv.item # pl.item =>
                score(inv, pl) <= 60 + 5 * Cardinality(inv.words)
           /\ inv.item # <<>> /\ inv.item = pl.item /\ inv.words = pl.words =>
                score(inv, pl) >= 150 + 5 * Cardinality(inv.words)
<1> DEFINE w == Cardinality(inv.words \cap pl.words)
           all == Cardinality(inv.words)
<1>1. IsFiniteSet(inv.words)
  <2>1. inv.words \in SUBSET Words /\ IsFiniteSet(Words)
    BY ReconAssumption DEF InvoiceLine
  <2> QED BY <2>1, FS_Subset
<1>2. w \in Nat /\ all \in Nat /\ w <= all
  <2>1. inv.words \cap pl.words \in SUBSET inv.words
    OBVIOUS
  <2>2. /\ IsFiniteSet(inv.words \cap pl.words)
        /\ Cardinality(inv.words \cap pl.words) <= Cardinality(inv.words)
    BY <1>1, <2>1, FS_Subset
  <2> QED BY <1>1, <2>2, FS_CardinalityType
<1>3. inv.words = pl.words => w = all
  <2>1. inv.words = pl.words => inv.words \cap pl.words = inv.words
    OBVIOUS
  <2> QED BY <2>1
<1>4. inv.item \in Seq(STRING)
  BY DEF InvoiceLine
<1>5. IsSuffix(inv.item, inv.item)
  BY <1>4 DEF IsSuffix, IsPrefix, Reverse
<1> DEFINE same == inv.item # <<>> /\ inv.item = pl.item
           tail == inv.item # <<>> /\ IsSuffix(inv.item, pl.item)
           qty == inv.qty = pl.qty
<1>6. score(inv, pl) = (IF same THEN 100 ELSE 0) + (IF tail THEN 50 ELSE 0) + 5 * w
                       + (IF qty THEN 10 ELSE 0)
  BY DEF score
<1>7. same => tail
  BY <1>5
<1> HIDE DEF w, all, qty, tail
<1> QED BY <1>2, <1>3, <1>6, <1>7 DEF all

\* findBestPOMatch returns at most one index, of a line that is free.
LEMMA BestOf ==
    ASSUME NEW inv \in InvoiceLine, NEW lines \in Seq(POLine), NEW used
    PROVE  \/ findBestPOMatch(inv, lines, used) = {}
           \/ \E i \in (DOMAIN lines) \ used : findBestPOMatch(inv, lines, used) = {i}
<1>1. \A i \in DOMAIN lines : i \in Int /\ score(inv, lines[i]) \in Int
  BY ScoreOf
<1>2. \A i, j \in findBestPOMatch(inv, lines, used) : i = j
  BY <1>1 DEF findBestPOMatch
<1>3. findBestPOMatch(inv, lines, used) \subseteq (DOMAIN lines) \ used
  BY DEF findBestPOMatch
<1> QED BY <1>2, <1>3

\* A line that keeps the item and the words of a free line of the PO, which has
\* every item once, is paired with it.
LEMMA OwnLineWins ==
    ASSUME NEW inv \in InvoiceLine, NEW lines \in Seq(POLine), NEW used,
           NEW i \in (DOMAIN lines) \ used, DistinctItems(lines),
           inv.item = lines[i].item, inv.words = lines[i].words
    PROVE  findBestPOMatch(inv, lines, used) = {i}
<1>1. /\ i \in Int /\ score(inv, lines[i]) \in Int /\ Cardinality(inv.words) \in Nat
      /\ score(inv, lines[i]) >= 150 + 5 * Cardinality(inv.words)
  BY ScoreOf DEF DistinctItems
<1>2. ASSUME NEW j \in DOMAIN lines, j # i
      PROVE  score(inv, lines[j]) \in Int /\ score(inv, lines[j]) < score(inv, lines[i])
  <2>1. inv.item # <<>> /\ inv.item # lines[j].item
    BY <1>2 DEF DistinctItems
  <2>2. /\ score(inv, lines[j]) \in Int
        /\ score(inv, lines[j]) <= 60 + 5 * Cardinality(inv.words)
    BY <2>1, ScoreOf
  <2> QED BY <1>1, <2>2
<1>3. i \in findBestPOMatch(inv, lines, used)
  BY <1>1, <1>2 DEF findBestPOMatch
<1>4. \A j \in findBestPOMatch(inv, lines, used) : j = i
  BY <1>1, <1>2 DEF findBestPOMatch
<1> QED BY <1>3, <1>4

-----------------------------------------------------------------------------
(* One turn of either loop. *)

LEMMA RunningSays ==
    ASSUME NEW c, Running(c)
    PROVE  /\ c.of.answer \in Answer /\ c.of.poLines \in Seq(POLine)
           /\ c.data = Synthesized(c.of.answer, c.of.poLines)
           /\ c.lines \in Seq(POLine) /\ Len(c.lines) \in Nat /\ DOMAIN c.lines = 1 .. Len(c.lines)
           /\ c.data.lines \in Seq(InvoiceLine) /\ Len(c.data.lines) \in Nat
           /\ Len(EntriesOf(c)) \in Nat /\ Len(EntriesOf(c)) <= Len(c.data.lines)
           /\ c.next \in Nat \ {0} /\ c.rest \in Nat \ {0}
<1>1. c.of.answer \in Answer /\ c.of.poLines \in Seq(POLine)
  BY FiledSays DEF Running
<1>2. c.data = Synthesized(c.of.answer, c.of.poLines)
  BY DEF Running, IsFiled
<1>3. /\ c.data.lines \in Seq(InvoiceLine)
      /\ Len(EntriesOf(c)) \in Nat /\ Len(EntriesOf(c)) <= Len(c.data.lines)
  BY <1>1, <1>2, DataOf DEF EntriesOf
<1>4. c.lines \in Seq(POLine) /\ Len(c.lines) \in Nat /\ DOMAIN c.lines = 1 .. Len(c.lines)
  BY ReconAssumption DEF Running
<1>5. Len(c.data.lines) \in Nat
  BY <1>3
<1>6. c.next \in Nat \ {0} /\ c.rest \in Nat \ {0}
  BY <1>4, <1>5 DEF Running
<1> QED BY <1>1, <1>2, <1>3, <1>4, <1>5, <1>6

\* What the turn over invoice line n does, with the pair x it adds.
LineTurn(c, d, x) ==
    /\ DOMAIN d = CmpFields
    /\ d.of = c.of /\ d.data = c.data /\ d.lines = c.lines /\ d.rest = c.rest
    /\ d.next = c.next + 1
    /\ d.pairs = Append(c.pairs, x)
    /\ x.inv = c.next
    /\ \/ d.used = c.used /\ x.pl = 0
       \/ d.used = c.used \cup {x.pl} /\ x.pl \in (DOMAIN c.lines) \ c.used

\* What the turn over PO line i does.
RestTurn(c, d) ==
    /\ DOMAIN d = CmpFields
    /\ d.of = c.of /\ d.data = c.data /\ d.lines = c.lines /\ d.next = c.next
    /\ d.used = c.used
    /\ d.rest = c.rest + 1
    /\ d.pairs = IF c.rest \in c.used THEN c.pairs
                 ELSE Append(c.pairs, Pair(0, c.rest, "missing_from_invoice"))

LEMMA LineTurns ==
    ASSUME NEW c, Running(c), c.next <= Len(c.data.lines)
    PROVE  \E x \in PairType :
             /\ LineTurn(c, CompareLine(c), x)
             /\ \A i \in DOMAIN c.lines :
                  findBestPOMatch(c.data.lines[c.next], c.lines, c.used) = {i} =>
                    /\ x = Pair(c.next, i, LineVerdict(c.data.lines[c.next], c.lines[i]))
                    /\ CompareLine(c).used = c.used \cup {i}
<1> DEFINE inv == c.data.lines[c.next]
           best == findBestPOMatch(inv, c.lines, c.used)
           one == CHOOSE i \in best : TRUE
           x == IF best = {} THEN Pair(c.next, 0, classifyFeeLine(inv))
                ELSE Pair(c.next, one, LineVerdict(inv, c.lines[one]))
           d == CompareLine(c)
<1>1. /\ c.lines \in Seq(POLine) /\ DOMAIN c.lines = 1 .. Len(c.lines)
      /\ Len(c.lines) \in Nat /\ c.next \in Nat /\ inv \in InvoiceLine
  BY RunningSays, SMTT(40) DEF Running
<1>2. best = {} \/ \E i \in (DOMAIN c.lines) \ c.used : best = {i}
  BY <1>1, BestOf
<1>3. d = [c EXCEPT !.next = c.next + 1, !.used = c.used \cup best, !.pairs = Append(@, x)]
  BY Zenon DEF CompareLine
<1>4. classifyFeeLine(inv) \in VerdictWords \cup FeeWords
  BY DEF classifyFeeLine, VerdictWords, FeeWords
<1>5. \A pl : LineVerdict(inv, pl) \in VerdictWords
  BY DEF LineVerdict, VerdictWords, Matching, Mismatching
<1>6. DOMAIN c = CmpFields
  BY DEF Running
<1> HIDE DEF best, inv, d
<1>7. CASE best = {}
  <2>1. x = Pair(c.next, 0, classifyFeeLine(inv))
    BY <1>7
  <2> HIDE DEF x
  <2>2. x \in PairType /\ x.inv = c.next /\ x.pl = 0
    BY <1>1, <1>4, <2>1 DEF PairType, Pair
  <2>3. LineTurn(c, d, x)
    BY <1>3, <1>6, <1>7, <2>2 DEF LineTurn, CmpFields
  <2>4. \A i : best # {i}
    BY <1>7
  <2> QED BY <2>2, <2>3, <2>4 DEF d, best, inv
<1>8. ASSUME NEW i \in (DOMAIN c.lines) \ c.used, best = {i}
      PROVE  \E y \in PairType :
               /\ LineTurn(c, d, y)
               /\ \A j \in DOMAIN c.lines : best = {j} =>
                    /\ y = Pair(c.next, j, LineVerdict(inv, c.lines[j]))
                    /\ d.used = c.used \cup {j}
  <2>1. one = i
    BY <1>8
  <2> HIDE DEF one
  <2>2. x = Pair(c.next, i, LineVerdict(inv, c.lines[i]))
    BY <1>8, <2>1
  <2> HIDE DEF x
  <2>3. x \in PairType /\ x.inv = c.next /\ x.pl = i
    BY <1>1, <1>5, <2>2 DEF PairType, Pair
  <2>4. LineTurn(c, d, x) /\ d.used = c.used \cup {i}
    BY <1>3, <1>6, <1>8, <2>3 DEF LineTurn, CmpFields
  <2>5. \A j : best = {j} => j = i
    BY <1>8
  <2> QED BY <2>2, <2>3, <2>4, <2>5
<1> QED BY <1>2, <1>7, <1>8 DEF d, best, inv

LEMMA RestTurns ==
    ASSUME NEW c, Running(c)
    PROVE  RestTurn(c, CompareRest(c))
<1> DEFINE p == IF c.rest \in c.used THEN c.pairs
                ELSE Append(c.pairs, Pair(0, c.rest, "missing_from_invoice"))
           d == CompareRest(c)
<1>1. d = [c EXCEPT !.rest = c.rest + 1, !.pairs = p]
  BY Zenon DEF CompareRest
<1>2. DOMAIN c = CmpFields
  BY DEF Running
<1> HIDE DEF p, d
<1>3. /\ DOMAIN d = CmpFields
      /\ d.of = c.of /\ d.data = c.data /\ d.lines = c.lines /\ d.next = c.next
      /\ d.used = c.used /\ d.rest = c.rest + 1 /\ d.pairs = p
  BY <1>1, <1>2 DEF CmpFields
<1> QED BY <1>3 DEF RestTurn, p, d

LEMMA LineRuns ==
    ASSUME NEW c, Running(c), c.next <= Len(c.data.lines), NEW d, NEW x, LineTurn(c, d, x)
    PROVE  Running(d)
BY RunningSays, SMTT(40) DEF Running, LineTurn

LEMMA RestRuns ==
    ASSUME NEW c, Running(c), c.next > Len(c.data.lines), c.rest <= Len(c.lines),
           NEW d, RestTurn(c, d)
    PROVE  Running(d)
BY RunningSays DEF Running, RestTurn

LEMMA LineAccounts ==
    ASSUME NEW c, Running(c), Accounts(c), c.next <= Len(c.data.lines),
           NEW d, NEW x \in PairType, LineTurn(c, d, x)
    PROVE  Accounts(d)
<1> DEFINE p == c.pairs
           q == d.pairs
           n == c.next
<1>1. /\ n \in Nat \ {0} /\ DOMAIN c.lines = 1 .. Len(c.lines) /\ Len(c.lines) \in Nat
      /\ c.rest \in Nat \ {0} /\ Len(c.data.lines) \in Nat
  BY RunningSays
<1>2. c.rest = 1
  BY <1>1 DEF Running
<1>3. 1 .. c.rest - 1 = {}
  BY <1>2
<1>4. c.used \subseteq 1 .. Len(c.lines)
  BY <1>1 DEF Running
<1>5. /\ p \in Seq(PairType)
      /\ \A k \in DOMAIN p : p[k].inv < n /\ p[k].pl \in {0} \cup c.used
      /\ \A m \in 1 .. n - 1 : OnceInv(p, m)
      /\ \A i \in c.used : OncePl(p, i)
  BY <1>3 DEF Accounts
<1>6. /\ q = Append(p, x) /\ x.inv = n /\ d.next = n + 1 /\ d.rest = c.rest
      /\ \/ d.used = c.used /\ x.pl = 0
         \/ d.used = c.used \cup {x.pl} /\ x.pl \in (1 .. Len(c.lines)) \ c.used
  BY <1>1 DEF LineTurn
<1> HIDE DEF p, q, n
<1>7. /\ q \in Seq(PairType) /\ Len(p) \in Nat /\ DOMAIN p = 1 .. Len(p)
      /\ DOMAIN q = 1 .. Len(p) + 1
      /\ \A k \in 1 .. Len(p) : q[k] = p[k]
      /\ q[Len(p) + 1] = x
  BY <1>5, <1>6, OneMore
<1>8. \A k \in DOMAIN p : p[k].inv \in Nat
  <2>1. \A k \in DOMAIN p : p[k] \in PairType
    BY <1>5
  <2>2. \A y \in PairType : y.inv \in Nat
    BY DEF PairType
  <2> QED BY <2>1, <2>2
<1>9. \A k \in DOMAIN q : q[k].inv < n + 1 /\ q[k].pl \in {0} \cup d.used
  <2> TAKE k \in DOMAIN q
  <2>1. CASE k \in DOMAIN p
    <3>1. q[k] = p[k] /\ p[k].inv < n /\ p[k].pl \in {0} \cup c.used /\ p[k].inv \in Nat
      BY <1>5, <1>7, <1>8, <2>1
    <3> QED BY <1>1, <1>6, <3>1 DEF n
  <2>2. CASE k = Len(p) + 1
    BY <1>1, <1>6, <1>7, <2>2 DEF n
  <2> QED BY <1>7, <2>1, <2>2
<1>10. ASSUME NEW m \in 1 .. n PROVE OnceInv(q, m)
  <2>1. CASE m = n
    <3>1. \A k \in DOMAIN p : p[k].inv # x.inv
      <4> TAKE k \in DOMAIN p
      <4>1. p[k].inv < n /\ p[k].inv \in Nat /\ n \in Nat
        BY <1>1, <1>5, <1>8 DEF n
      <4> QED BY <1>6, <4>1
    <3>2. OnceInv(Append(p, x), x.inv)
      BY <1>5, <3>1, OnceMore
    <3> QED BY <1>6, <2>1, <3>2
  <2>2. CASE m # n
    <3>1. m \in 1 .. n - 1
      BY <1>1, <2>2 DEF n
    <3>2. OnceInv(p, m) /\ x.inv # m
      BY <1>5, <1>6, <2>2, <3>1
    <3>3. OnceInv(Append(p, x), m)
      BY <1>5, <3>2, OnceMore
    <3> QED BY <1>6, <3>3
  <2> QED BY <2>1, <2>2
<1>11. ASSUME NEW i \in d.used PROVE OncePl(q, i)
  <2>1. CASE i \in c.used
    <3>1. OncePl(p, i) /\ x.pl # i
      BY <1>1, <1>4, <1>5, <1>6, <2>1
    <3>2. OncePl(Append(p, x), i)
      BY <1>5, <3>1, OnceMore
    <3> QED BY <1>6, <3>2
  <2>2. CASE i \notin c.used
    <3>1. i = x.pl /\ x.pl \in (1 .. Len(c.lines)) \ c.used
      BY <1>6, <2>2
    <3>2. \A k \in DOMAIN p : p[k].pl # x.pl
      BY <1>1, <1>5, <3>1
    <3>3. OncePl(Append(p, x), x.pl)
      BY <1>5, <3>2, OnceMore
    <3> QED BY <1>6, <3>1, <3>3
  <2> QED BY <2>1, <2>2
<1>12. 1 .. d.rest - 1 = {} /\ 1 .. d.next - 1 = 1 .. n
  BY <1>1, <1>2, <1>6 DEF n
<1> QED BY <1>6, <1>7, <1>9, <1>10, <1>11, <1>12 DEF Accounts, q

LEMMA RestAccounts ==
    ASSUME NEW c, Running(c), Accounts(c), c.rest <= Len(c.lines), NEW d, RestTurn(c, d)
    PROVE  Accounts(d)
<1> DEFINE p == c.pairs
           q == d.pairs
           r == c.rest
           x == Pair(0, r, "missing_from_invoice")
<1>1. /\ c.next \in Nat \ {0} /\ DOMAIN c.lines = 1 .. Len(c.lines) /\ Len(c.lines) \in Nat
      /\ r \in Nat \ {0}
  BY RunningSays
<1>2. /\ p \in Seq(PairType)
      /\ \A k \in DOMAIN p : p[k].inv < c.next /\ p[k].pl \in {0} \cup c.used \cup (1 .. r - 1)
      /\ \A m \in 1 .. c.next - 1 : OnceInv(p, m)
      /\ \A i \in c.used \cup (1 .. r - 1) : OncePl(p, i)
  BY DEF Accounts
<1>3. /\ d.next = c.next /\ d.used = c.used /\ d.rest = r + 1
      /\ q = IF r \in c.used THEN p ELSE Append(p, x)
  BY DEF RestTurn
<1>4. 1 .. d.rest - 1 = (1 .. r - 1) \cup {r}
  BY <1>1, <1>3
<1>5. x \in PairType /\ x.inv = 0 /\ x.pl = r
  BY <1>1 DEF Pair, PairType, VerdictWords
<1> HIDE DEF p, q, x, r
<1>6. CASE r \in c.used
  <2>1. q = p /\ c.used \cup (1 .. d.rest - 1) = c.used \cup (1 .. r - 1)
    BY <1>3, <1>4, <1>6
  <2>2. d.pairs = c.pairs
    BY <2>1 DEF p, q
  <2> QED BY <1>2, <1>3, <2>1, <2>2 DEF Accounts, p
<1>7. CASE r \notin c.used
  <2>1. q = Append(p, x)
    BY <1>3, <1>7
  <2>2. /\ q \in Seq(PairType) /\ Len(p) \in Nat /\ DOMAIN p = 1 .. Len(p)
        /\ DOMAIN q = 1 .. Len(p) + 1
        /\ \A k \in 1 .. Len(p) : q[k] = p[k]
        /\ q[Len(p) + 1] = x
    BY <1>2, <1>5, <2>1, OneMore
  <2>3. \A k \in DOMAIN q :
          q[k].inv < c.next /\ q[k].pl \in {0} \cup c.used \cup (1 .. r - 1) \cup {r}
    <3> TAKE k \in DOMAIN q
    <3>1. CASE k \in DOMAIN p
      BY <1>2, <2>2, <3>1
    <3>2. CASE k = Len(p) + 1
      BY <1>1, <1>5, <2>2, <3>2
    <3> QED BY <2>2, <3>1, <3>2
  <2>4. ASSUME NEW m \in 1 .. c.next - 1 PROVE OnceInv(q, m)
    <3>1. OnceInv(p, m) /\ x.inv # m
      BY <1>2, <1>5
    <3>2. OnceInv(Append(p, x), m)
      BY <1>2, <1>5, <3>1, OnceMore
    <3> QED BY <2>1, <3>2
  <2>5. ASSUME NEW i \in c.used \cup (1 .. r - 1) PROVE OncePl(q, i)
    <3>1. OncePl(p, i) /\ x.pl # i
      BY <1>1, <1>2, <1>5, <1>7 DEF r
    <3>2. OncePl(Append(p, x), i)
      BY <1>2, <1>5, <3>1, OnceMore
    <3> QED BY <2>1, <3>2
  <2>6. OncePl(q, r)
    <3>1. \A k \in DOMAIN p : p[k].pl # x.pl
      BY <1>1, <1>2, <1>5, <1>7 DEF r
    <3>2. OncePl(Append(p, x), x.pl)
      BY <1>2, <1>5, <3>1, OnceMore
    <3> QED BY <1>5, <2>1, <3>2
  <2>7. \A i \in c.used \cup (1 .. d.rest - 1) : OncePl(q, i)
    BY <1>4, <2>5, <2>6
  <2>8. \A k \in DOMAIN q : q[k].inv < c.next /\ q[k].pl \in {0} \cup c.used \cup (1 .. d.rest - 1)
    BY <1>4, <2>3
  <2> QED BY <1>3, <2>2, <2>4, <2>7, <2>8 DEF Accounts, q
<1> QED BY <1>6, <1>7

\* An entry of the answer keeps the item and the words of its PO line, and two
\* entries have different ones.
LEMMA OwnLineOf ==
    ASSUME NEW c, Running(c), SameOrder(c)
    PROVE  /\ \A k \in 1 .. Len(EntriesOf(c)) :
                /\ OwnLine(c, k) \in DOMAIN c.lines
                /\ c.data.lines[k] = KeptLine(EntriesOf(c)[k], c.lines[OwnLine(c, k)])
           /\ \A k, l \in 1 .. Len(EntriesOf(c)) : OwnLine(c, k) = OwnLine(c, l) => k = l
<1> DEFINE known == EntriesOf(c)
<1>1. /\ c.of.answer \in Answer /\ c.lines = c.of.poLines /\ c.lines \in Seq(POLine)
      /\ c.data = Synthesized(c.of.answer, c.lines) /\ Len(known) \in Nat
      /\ DistinctEntries(c.of.answer)
  BY RunningSays DEF SameOrder
<1>2. known = Known(c.of.answer, c.lines)
  BY <1>1 DEF EntriesOf
<1>3. Keeps(known, c.of.answer, c.lines, Len(c.of.answer.lines))
  BY <1>1, <1>2, KnownKeeps
<1>4. DOMAIN known = 1 .. Len(known)
  BY <1>3 DEF Keeps
<1>5. \A k \in 1 .. Len(known) :
        OwnLine(c, k) \in DOMAIN c.lines /\ c.lines[OwnLine(c, k)].no = known[k].no
  <2> TAKE k \in 1 .. Len(known)
  <2>1. IsOn(known[k].no, c.lines)
    BY <1>3, <1>4 DEF Keeps
  <2> QED BY <1>1, <2>1, LineOf DEF OwnLine
<1>6. \A k \in 1 .. Len(known) :
        Synthesized(c.of.answer, c.lines).lines[k]
          = KeptLine(known[k], c.lines[byLineNo(c.lines, known[k].no)])
  BY <1>1, <1>2, DataOf
<1>7. \A k \in 1 .. Len(known) : c.data.lines[k] = KeptLine(known[k], c.lines[OwnLine(c, k)])
  BY <1>1, <1>6 DEF OwnLine
<1>8. \A k, l \in 1 .. Len(known) : known[k].no = known[l].no => k = l
  BY <1>1, <1>3, <1>4 DEF Keeps
<1>9. \A k, l \in 1 .. Len(known) : OwnLine(c, k) = OwnLine(c, l) => k = l
  BY <1>5, <1>8
<1> QED BY <1>5, <1>7, <1>9

LEMMA LineAligned ==
    ASSUME NEW c, Running(c), Accounts(c), Aligned(c), c.next <= Len(c.data.lines)
    PROVE  Aligned(CompareLine(c))
<1> DEFINE d == CompareLine(c)
           n == c.next
           p == c.pairs
           own(k) == Pair(k, OwnLine(c, k), LineVerdict(c.data.lines[k], c.lines[OwnLine(c, k)]))
<1>1. PICK x \in PairType :
        /\ LineTurn(c, d, x)
        /\ \A i \in DOMAIN c.lines :
              findBestPOMatch(c.data.lines[n], c.lines, c.used) = {i} =>
                x = Pair(n, i, LineVerdict(c.data.lines[n], c.lines[i])) /\ d.used = c.used \cup {i}
  BY LineTurns
<1>2. /\ n \in Nat \ {0} /\ DOMAIN c.lines = 1 .. Len(c.lines) /\ Len(c.lines) \in Nat
      /\ c.rest \in Nat \ {0} /\ Len(c.data.lines) \in Nat /\ Len(EntriesOf(c)) \in Nat
      /\ c.data.lines \in Seq(InvoiceLine) /\ c.lines \in Seq(POLine)
  BY RunningSays
<1>3. c.rest = 1
  BY <1>2 DEF Running
<1>4. p \in Seq(PairType) /\ Len(p) = n - 1
  BY <1>3 DEF Accounts, Aligned
<1> HIDE DEF d
<1>5. d.pairs = Append(p, x) /\ d.next = n + 1 /\ d.rest = 1 /\ d.lines = c.lines
      /\ d.of = c.of /\ d.data = c.data
  BY <1>1, <1>3 DEF LineTurn
<1>6. /\ Len(d.pairs) = n /\ d.pairs[n] = x
      /\ \A k \in 1 .. n - 1 : d.pairs[k] = p[k]
  BY <1>2, <1>4, <1>5, OneMore
<1>7. EntriesOf(d) = EntriesOf(c) /\ (SameOrder(d) <=> SameOrder(c))
      /\ \A k : OwnLine(d, k) = OwnLine(c, k)
  BY <1>5 DEF EntriesOf, SameOrder, OwnLine
<1>8. ASSUME SameOrder(c)
      PROVE  /\ \A k \in 1 .. n : k <= Len(EntriesOf(c)) => d.pairs[k] = own(k)
             /\ n + 1 <= Len(EntriesOf(c)) =>
                  \A i \in d.used : \E k \in 1 .. n : i = OwnLine(c, k)
  <2>1. \A k \in 1 .. n - 1 : k <= Len(EntriesOf(c)) => p[k] = own(k)
    BY <1>8 DEF Aligned
  <2>2. CASE n > Len(EntriesOf(c))
    <3>1. \A k \in 1 .. n : k <= Len(EntriesOf(c)) => k \in 1 .. n - 1
      BY <1>2, <2>2
    <3>2. ~(n + 1 <= Len(EntriesOf(c)))
      BY <1>2, <2>2
    <3> HIDE DEF own
    <3> QED BY <1>6, <2>1, <3>1, <3>2
  <2>3. CASE n <= Len(EntriesOf(c))
    <3> DEFINE i == OwnLine(c, n)
    <3>1. n \in 1 .. Len(EntriesOf(c))
      BY <1>2, <2>3
    <3>2. /\ i \in DOMAIN c.lines
          /\ c.data.lines[n] = KeptLine(EntriesOf(c)[n], c.lines[i])
          /\ \A k \in 1 .. Len(EntriesOf(c)) : OwnLine(c, k) = i => k = n
      BY <1>8, <3>1, OwnLineOf
    <3>3. \A j \in c.used : \E k \in 1 .. n - 1 : j = OwnLine(c, k)
      BY <1>8, <2>3 DEF Aligned
    <3>4. i \notin c.used
      <4> SUFFICES ASSUME i \in c.used PROVE FALSE
        OBVIOUS
      <4>1. PICK k \in 1 .. n - 1 : i = OwnLine(c, k)
        BY <3>3
      <4>2. k \in 1 .. Len(EntriesOf(c)) /\ k # n
        BY <1>2, <3>1
      <4> HIDE DEF i
      <4> QED BY <3>2, <4>1, <4>2
    <3>5. c.data.lines[n] \in InvoiceLine
      BY <1>2
    <3>6. c.data.lines[n].item = c.lines[i].item /\ c.data.lines[n].words = c.lines[i].words
      BY <3>2 DEF KeptLine
    <3>7. DistinctItems(c.lines)
      BY <1>8 DEF SameOrder
    <3> HIDE DEF i
    <3>8. findBestPOMatch(c.data.lines[n], c.lines, c.used) = {i}
      BY <1>2, <3>2, <3>4, <3>5, <3>6, <3>7, OwnLineWins
    <3>9. x = Pair(n, i, LineVerdict(c.data.lines[n], c.lines[i])) /\ d.used = c.used \cup {i}
      BY <1>1, <3>2, <3>8
    <3>10. d.pairs[n] = own(n)
      BY <1>6, <3>9 DEF i
    <3>11. \A k \in 1 .. n : k \in 1 .. n - 1 \/ k = n
      BY <1>2
    <3>12. \A k \in 1 .. n : k <= Len(EntriesOf(c)) => d.pairs[k] = own(k)
      <4> HIDE DEF own
      <4> QED BY <1>6, <2>1, <3>10, <3>11
    <3>13. \A j \in d.used : \E k \in 1 .. n : j = OwnLine(c, k)
      <4>1. n \in 1 .. n /\ \A k \in 1 .. n - 1 : k \in 1 .. n
        BY <1>2
      <4> QED BY <3>3, <3>9, <4>1 DEF i
    <3> QED BY <3>12, <3>13
  <2> QED BY <1>2, <2>2, <2>3
<1>9. n + 1 - 1 = n
  BY <1>2
<1>10. Aligned(d)
  BY <1>2, <1>5, <1>6, <1>7, <1>8, <1>9, SMTT(40) DEF Aligned
<1> QED BY <1>10 DEF d

LEMMA RestAligned ==
    ASSUME NEW c, Running(c), Accounts(c), Aligned(c), NEW d, RestTurn(c, d)
    PROVE  Aligned(d)
<1> DEFINE p == c.pairs
           x == Pair(0, c.rest, "missing_from_invoice")
<1>1. /\ c.next \in Nat \ {0} /\ c.rest \in Nat \ {0} /\ p \in Seq(PairType)
      /\ Len(p) >= c.next - 1
  BY RunningSays DEF Accounts, Aligned
<1>2. x \in PairType
  BY <1>1 DEF Pair, PairType, VerdictWords
<1>3. d.of = c.of /\ d.data = c.data /\ d.lines = c.lines /\ d.next = c.next /\ d.used = c.used
      /\ d.rest = c.rest + 1 /\ (d.pairs = p \/ d.pairs = Append(p, x))
  BY DEF RestTurn
<1>4. EntriesOf(d) = EntriesOf(c) /\ (SameOrder(d) <=> SameOrder(c))
      /\ \A k : OwnLine(d, k) = OwnLine(c, k)
  BY <1>3 DEF EntriesOf, SameOrder, OwnLine
<1> HIDE DEF x
<1>5. /\ Len(d.pairs) \in Nat /\ Len(p) \in Nat /\ Len(d.pairs) >= Len(p)
      /\ \A k \in 1 .. Len(p) : d.pairs[k] = p[k]
  BY <1>1, <1>2, <1>3, OneMore, SMTT(40)
<1>6. /\ Len(d.pairs) >= c.next - 1
      /\ \A k \in 1 .. c.next - 1 : d.pairs[k] = p[k]
  BY <1>1, <1>5
<1>7. d.rest # 1
  BY <1>1, <1>3
<1> QED BY <1>3, <1>4, <1>6, <1>7 DEF Aligned, p

-----------------------------------------------------------------------------
(* The inductive invariant of the whole system. *)

CmpInv == cmp # Idle => Running(cmp) /\ Accounts(cmp) /\ Aligned(cmp)

LEMMA BusyIsNotIdle == ASSUME NEW c, DOMAIN c = CmpFields PROVE c # Idle
BY DEF CmpFields, Idle

LEMMA StartRuns ==
    ASSUME RowInv, row # NoRow, StartRecheck
    PROVE  Running(cmp') /\ Accounts(cmp') /\ Aligned(cmp')
<1> DEFINE c == cmp'
<1>1. c = [busy |-> TRUE, of |-> row, data |-> row.data, lines |-> po,
           next |-> 1, rest |-> 1, used |-> {}, pairs |-> <<>>]
  BY DEF StartRecheck
<1> HIDE DEF c
<1>2. /\ DOMAIN c = CmpFields /\ c.of = row /\ c.data = row.data /\ c.lines = po
      /\ c.next = 1 /\ c.rest = 1 /\ c.used = {} /\ c.pairs = <<>>
  BY <1>1 DEF CmpFields
<1>3. IsFiled(row) /\ po \in Orders
  BY DEF RowInv
<1>4. /\ row.answer \in Answer /\ row.poLines \in Seq(POLine) /\ po \in Seq(POLine)
      /\ row.data = Synthesized(row.answer, row.poLines)
  BY <1>3, FiledSays, ReconAssumption DEF IsFiled
<1>5. row.data.lines \in Seq(InvoiceLine)
  BY <1>4, DataOf
<1>6. Len(row.data.lines) \in Nat /\ Len(po) \in Nat
  BY <1>4, <1>5
<1>7. Running(c)
  BY <1>2, <1>3, <1>6 DEF Running
<1>8. Accounts(c)
  BY <1>2 DEF Accounts
<1>9. Aligned(c)
  BY <1>2 DEF Aligned
<1> QED BY <1>7, <1>8, <1>9 DEF c

LEMMA CmpStep == RowInv /\ CmpInv /\ [Next]_vars => CmpInv'
<1> SUFFICES ASSUME RowInv, CmpInv, [Next]_vars PROVE CmpInv'
  OBVIOUS
<1>1. CASE cmp' = cmp \/ cmp' = Idle
  BY <1>1 DEF CmpInv
<1>2. CASE StartRecheck
  <2>1. row # NoRow
    BY <1>2 DEF StartRecheck
  <2> QED BY <1>2, <2>1, StartRuns DEF CmpInv
<1>3. CASE ComparesLine
  <2>1. /\ Running(cmp) /\ Accounts(cmp) /\ Aligned(cmp) /\ cmp.next <= Len(cmp.data.lines)
        /\ cmp' = CompareLine(cmp)
    BY <1>3 DEF ComparesLine, CmpInv
  <2>2. PICK x \in PairType : LineTurn(cmp, cmp', x)
    BY <2>1, LineTurns
  <2>3. Running(cmp') /\ Accounts(cmp')
    BY <2>1, <2>2, LineRuns, LineAccounts
  <2>4. Aligned(cmp')
    BY <2>1, LineAligned
  <2> QED BY <2>3, <2>4 DEF CmpInv
<1>4. CASE ComparesRest
  <2>1. /\ Running(cmp) /\ Accounts(cmp) /\ Aligned(cmp) /\ cmp.next > Len(cmp.data.lines)
        /\ cmp.rest <= Len(cmp.lines) /\ cmp' = CompareRest(cmp)
    BY <1>4 DEF ComparesRest, CmpInv
  <2>2. RestTurn(cmp, cmp')
    BY <2>1, RestTurns
  <2>3. Running(cmp') /\ Accounts(cmp') /\ Aligned(cmp')
    BY <2>1, <2>2, RestRuns, RestAccounts, RestAligned
  <2> QED BY <2>3 DEF CmpInv
<1>5. \/ cmp' = cmp \/ cmp' = Idle
      \/ StartRecheck \/ ComparesLine \/ ComparesRest
  BY DEF Next, vars, processExtractionResult, EditPO, ClerkBlocks, EndRecheck
<1> QED BY <1>1, <1>2, <1>3, <1>4, <1>5

LEMMA CmpAlways == Spec => [](RowInv /\ CmpInv)
<1>1. Init => CmpInv
  BY DEF Init, CmpInv
<1> QED BY <1>1, RowInit, RowStep, CmpStep, PTL DEF Spec

\* A pair of either report never points past the invoice that was filed or the
\* PO that was read (FromVerifyResult, Compare).
THEOREM TypeCorrect == Spec => []TypeOK
<1>1. RowInv /\ CmpInv => TypeOK
  <2> SUFFICES ASSUME RowInv, CmpInv PROVE TypeOK
    OBVIOUS
  <2>1. /\ po \in Orders /\ blocked \in BOOLEAN
        /\ row # NoRow => row.poLines \in Orders /\ row.answer \in Answers
    BY DEF RowInv, IsFiled
  <2>2. ASSUME cmp # Idle
        PROVE  /\ cmp.next \in 1 .. Len(cmp.data.lines) + 1
               /\ cmp.rest \in 1 .. Len(cmp.lines) + 1
               /\ cmp.used \subseteq DOMAIN cmp.lines
               /\ \A k \in DOMAIN cmp.pairs :
                    /\ cmp.pairs[k].inv \in 0 .. Len(cmp.data.lines)
                    /\ cmp.pairs[k].pl \in {0} \cup DOMAIN cmp.lines
    <3>1. Running(cmp) /\ Accounts(cmp)
      BY <2>2 DEF CmpInv
    <3>2. /\ Len(cmp.lines) \in Nat /\ DOMAIN cmp.lines = 1 .. Len(cmp.lines)
          /\ Len(cmp.data.lines) \in Nat
      BY <3>1, RunningSays
    <3>3. /\ cmp.next \in 1 .. Len(cmp.data.lines) + 1
          /\ cmp.rest \in 1 .. Len(cmp.lines) + 1
          /\ cmp.used \subseteq DOMAIN cmp.lines
      BY <3>1 DEF Running
    <3>4. ASSUME NEW k \in DOMAIN cmp.pairs
          PROVE  /\ cmp.pairs[k].inv \in 0 .. Len(cmp.data.lines)
                 /\ cmp.pairs[k].pl \in {0} \cup DOMAIN cmp.lines
      <4>1. cmp.pairs[k] \in PairType
        BY <3>1 DEF Accounts
      <4>2. cmp.pairs[k].inv \in Nat
        BY <4>1 DEF PairType
      <4>3. /\ cmp.pairs[k].inv < cmp.next
            /\ cmp.pairs[k].pl \in {0} \cup cmp.used \cup (1 .. cmp.rest - 1)
        BY <3>1 DEF Accounts
      <4>4. cmp.pairs[k].inv \in 0 .. Len(cmp.data.lines)
        BY <3>2, <3>3, <4>2, <4>3, Below
      <4>5. 1 .. cmp.rest - 1 \subseteq DOMAIN cmp.lines
        BY <3>2, <3>3, Below
      <4>6. cmp.pairs[k].pl \in {0} \cup DOMAIN cmp.lines
        BY <3>3, <4>3, <4>5
      <4> QED BY <4>4, <4>6
    <3> QED BY <3>3, <3>4
  <2> QED BY <2>1, <2>2 DEF TypeOK
<1> QED BY <1>1, CmpAlways, PTL

\* Compare accounts for every line once: a finished report has one pair for
\* each line of the invoice and one for each line of the PO.
THEOREM LinesAccounted == Spec => []EachLineOnce
<1>1. RowInv /\ CmpInv => EachLineOnce
  <2> SUFFICES ASSUME CmpInv, cmp # Idle, Complete(cmp)
               PROVE  /\ \A n \in 1 .. Len(cmp.data.lines) : OnceInv(cmp.pairs, n)
                      /\ \A i \in DOMAIN cmp.lines : OncePl(cmp.pairs, i)
    BY DEF EachLineOnce, OnceInv, OncePl
  <2>1. Running(cmp) /\ Accounts(cmp)
    BY DEF CmpInv
  <2>2. /\ Len(cmp.lines) \in Nat /\ DOMAIN cmp.lines = 1 .. Len(cmp.lines)
        /\ Len(cmp.data.lines) \in Nat
    BY <2>1, RunningSays
  <2>3. cmp.next \in 1 .. Len(cmp.data.lines) + 1 /\ cmp.rest \in 1 .. Len(cmp.lines) + 1
    BY <2>1 DEF Running
  <2>4. cmp.next > Len(cmp.data.lines) /\ cmp.rest > Len(cmp.lines)
    BY DEF Complete
  <2>5. /\ 1 .. cmp.next - 1 = 1 .. Len(cmp.data.lines)
        /\ 1 .. cmp.rest - 1 = 1 .. Len(cmp.lines)
    BY <2>2, <2>3, <2>4, Below
  <2> QED BY <2>1, <2>2, <2>5 DEF Accounts
<1> QED BY <1>1, CmpAlways, PTL

\* The two routes agree: as long as the PO reads as it did when the worker
\* verified the invoice, with every item once, and the answer spoke of each
\* line once, Compare finds nothing clean that FromVerifyResult did not.
THEOREM ReleaseHasCause == Spec => []NoFreeRelease
<1>1. RowInv /\ CmpInv => NoFreeRelease
  <2> SUFFICES ASSUME CmpInv, cmp # Idle, Complete(cmp), Clean(CompareResult(cmp)), SameOrder(cmp)
               PROVE  Clean(FromVerifyResult(cmp.of.answer, cmp.lines))
    BY DEF NoFreeRelease, SameOrder
  <2> DEFINE answer == cmp.of.answer
             order == cmp.lines
             known == EntriesOf(cmp)
             e == EntryPairs(answer, order)
             r == FromVerifyResult(answer, order)
  <2>1. Running(cmp) /\ Accounts(cmp) /\ Aligned(cmp)
    BY DEF CmpInv
  <2>2. /\ answer \in Answer /\ order = cmp.of.poLines /\ order \in Seq(POLine)
        /\ cmp.data = Synthesized(answer, order)
        /\ Len(known) \in Nat /\ Len(known) <= Len(cmp.data.lines)
        /\ Len(cmp.data.lines) \in Nat /\ cmp.next \in Nat
    BY <2>1, RunningSays DEF SameOrder
  <2>3. known = Known(answer, order)
    BY <2>2 DEF EntriesOf
  <2>4. DOMAIN known = 1 .. Len(known)
    BY <2>2, <2>3, KnownKeeps DEF Keeps
  <2>5. Reports(r, e, answer, order)
    BY <2>2, PairsOf
  <2>6. /\ cmp.data.total = POTotal(order)
        /\ Verdicts(cmp.pairs) \subseteq Matching \cup {"missing_from_invoice"}
    BY Zenon DEF Clean, CompareResult
  <2>7. TotalAgrees(answer, order)
    <3>1. cmp.data.total = answer.total
      BY <2>2, DataOf
    <3> QED BY <2>6, <3>1 DEF TotalAgrees
  <2>8. ASSUME NEW k \in DOMAIN known PROVE e[k].verdict \notin Mismatching
    <3> DEFINE pl == order[OwnLine(cmp, k)]
               inv == cmp.data.lines[k]
    <3>1. k \in 1 .. Len(known)
      BY <2>4
    <3>2. k \in 1 .. cmp.next - 1 /\ k <= Len(known) /\ k \in DOMAIN cmp.pairs
      BY <2>1, <2>2, <3>1 DEF Complete, Aligned, Accounts
    <3>3. cmp.pairs[k] = Pair(k, OwnLine(cmp, k), LineVerdict(inv, pl))
      BY <2>1, <3>2 DEF Aligned
    <3>4. LineVerdict(inv, pl) \in Verdicts(cmp.pairs)
      <4>1. cmp.pairs[k].verdict = LineVerdict(inv, pl)
        BY <3>3 DEF Pair
      <4> QED BY <3>2, <4>1 DEF Verdicts
    <3>5. LineVerdict(inv, pl) \notin Mismatching
      BY <2>6, <3>4 DEF Matching, Mismatching
    <3>6. inv = KeptLine(known[k], pl)
      BY <2>1, <3>1, OwnLineOf
    <3>7. e[k].verdict = EntryVerdict(known[k], pl)
      BY <2>3 DEF EntryPairs, Pair, OwnLine
    <3> HIDE DEF pl, inv
    <3>8. CASE known[k].status = "differs"
      <4>1. inv.qty = known[k].qty /\ inv.unit = known[k].unit /\ inv.ext = known[k].ext
        BY <3>6, <3>8 DEF KeptLine
      <4>2. LineVerdict(inv, pl) = LineVerdict(known[k], pl)
        BY <4>1 DEF LineVerdict
      <4>3. EntryVerdict(known[k], pl) = LineVerdict(known[k], pl)
        BY <3>8 DEF EntryVerdict
      <4> QED BY <3>5, <3>7, <4>2, <4>3
    <3>9. CASE known[k].status # "differs"
      <4>1. EntryVerdict(known[k], pl) \in {"match", "missing_from_invoice", ""}
        BY <3>9 DEF EntryVerdict
      <4> QED BY <3>7, <4>1 DEF Mismatching
    <3> QED BY <3>8, <3>9
  <2>9. Verdicts(e) \cap Mismatching = {}
    <3>1. DOMAIN e = DOMAIN known
      BY <2>3, <2>5 DEF Reports
    <3> HIDE DEF e, known
    <3> QED BY <2>8, <3>1 DEF Verdicts
  <2> QED BY <2>5, <2>7, <2>9 DEF Reports
<1> QED BY <1>1, CmpAlways, PTL

-----------------------------------------------------------------------------
(* What a running comparison has paired with matching amounts. *)

\* The sum of the weights of the positions in U.
SumOver(v, U, N) == SumTo(v, U, N)[N]

Costs(lines) == [i \in 1 .. Len(lines) |-> Extended(lines[i])]

Amounts(lines) == [k \in 1 .. Len(lines) |-> lines[k].ext]

\* As long as nothing disagrees, the invoice lines gone through add up to
\* what the PO lines they were paired with cost.
Balanced(c) ==
    Verdicts(c.pairs) \subseteq Matching \cup {"missing_from_invoice"} =>
        SumOver(Amounts(c.data.lines), 1 .. c.next - 1, Len(c.data.lines))
        = SumOver(Costs(c.lines), c.used, Len(c.lines))

BalanceInv == cmp # Idle => Balanced(cmp)

\* The totals the code takes are these sums.
LEMMA TotalIsSum ==
    ASSUME NEW lines \in Seq(POLine)
    PROVE  POTotal(lines) = SumOver(Costs(lines), 1 .. Len(lines), Len(lines))
<1> DEFINE N == Len(lines)
           D == 1 .. N
           v == Costs(lines)
           Solves(f) == f = [s \in SUBSET D |->
                       IF s = {} THEN 0
                       ELSE LET x == CHOOSE x \in s : TRUE IN Extended(lines[x]) + f[s \ {x}]]
           fold == CHOOSE f : Solves(f)
<1>1. N \in Nat /\ DOMAIN lines = D
  OBVIOUS
<1>2. POTotal(lines) = fold[D]
  BY <1>1 DEF POTotal, FoldFunction, FoldFunctionOnSet, MapThenFoldSet
<1>3. v \in [1 .. N -> Int] /\ \A i \in D : v[i] = Extended(lines[i])
  <2>1. ASSUME NEW i \in D PROVE Extended(lines[i]) \in Int
    <3>1. lines[i] \in POLine
      BY <1>1
    <3> QED BY <3>1 DEF POLine, Extended
  <2> QED BY <2>1 DEF Costs
<1> HIDE DEF N, v
<1>4. ASSUME NEW f
      PROVE  FoldOf(f, v, D) <=> Solves(f)
  <2>1. ASSUME NEW s \in SUBSET D
        PROVE  (IF s = {} THEN 0 ELSE LET x == CHOOSE x \in s : TRUE IN v[x] + f[s \ {x}])
               = IF s = {} THEN 0
                 ELSE LET x == CHOOSE x \in s : TRUE IN Extended(lines[x]) + f[s \ {x}]
    <3>1. CASE s # {}
      <4>1. (CHOOSE x \in s : TRUE) \in D
        BY <3>1
      <4>2. v[CHOOSE x \in s : TRUE] = Extended(lines[CHOOSE x \in s : TRUE])
        BY <1>3, <4>1
      <4> QED BY <3>1, <4>2
    <3> QED BY <3>1
  <2> QED BY <2>1, Zenon DEF FoldOf
<1>5. FoldOf(fold, v, D)
  <2>1. PICK f : FoldOf(f, v, D)
    BY <1>1, <1>3, FoldExists
  <2> HIDE DEF Solves
  <2>2. Solves(f)
    BY <1>4, <2>1, Zenon
  <2>3. Solves(fold)
    BY <2>2, Zenon
  <2> QED BY <1>4, <2>3, Zenon
<1> HIDE DEF fold
<1>6. fold[1 .. N] = SumTo(v, 1 .. N, N)[N]
  BY <1>1, <1>3, <1>5, FoldIsSum
<1> QED BY <1>2, <1>6 DEF SumOver, v, N

LEMMA InvoiceIsSum ==
    ASSUME NEW data, data.lines \in Seq(InvoiceLine), AddsUp(data)
    PROVE  data.total = SumOver(Amounts(data.lines), 1 .. Len(data.lines), Len(data.lines))
<1> DEFINE lines == data.lines
           N == Len(lines)
           D == 1 .. N
           v == Amounts(lines)
           Solves(f) == f = [s \in SUBSET D |->
                       IF s = {} THEN 0
                       ELSE LET x == CHOOSE x \in s : TRUE IN lines[x].ext + f[s \ {x}]]
           fold == CHOOSE f : Solves(f)
<1>1. N \in Nat /\ DOMAIN lines = D
  OBVIOUS
<1>2. data.total = fold[D]
  BY <1>1 DEF AddsUp, FoldFunction, FoldFunctionOnSet, MapThenFoldSet
<1>3. v \in [1 .. N -> Int] /\ \A i \in D : v[i] = lines[i].ext
  <2>1. ASSUME NEW i \in D PROVE lines[i].ext \in Int
    <3>1. lines[i] \in InvoiceLine
      BY <1>1
    <3> QED BY <3>1 DEF InvoiceLine
  <2> QED BY <2>1 DEF Amounts
<1> HIDE DEF N, v, lines
<1>4. ASSUME NEW f
      PROVE  FoldOf(f, v, D) <=> Solves(f)
  <2>1. ASSUME NEW s \in SUBSET D
        PROVE  (IF s = {} THEN 0 ELSE LET x == CHOOSE x \in s : TRUE IN v[x] + f[s \ {x}])
               = IF s = {} THEN 0
                 ELSE LET x == CHOOSE x \in s : TRUE IN lines[x].ext + f[s \ {x}]
    <3>1. CASE s # {}
      <4>1. (CHOOSE x \in s : TRUE) \in D
        BY <3>1
      <4>2. v[CHOOSE x \in s : TRUE] = lines[CHOOSE x \in s : TRUE].ext
        BY <1>3, <4>1
      <4> QED BY <3>1, <4>2
    <3> QED BY <3>1
  <2> QED BY <2>1, Zenon DEF FoldOf
<1>5. FoldOf(fold, v, D)
  <2>1. PICK f : FoldOf(f, v, D)
    BY <1>1, <1>3, FoldExists
  <2> HIDE DEF Solves
  <2>2. Solves(f)
    BY <1>4, <2>1, Zenon
  <2>3. Solves(fold)
    BY <2>2, Zenon
  <2> QED BY <1>4, <2>3, Zenon
<1> HIDE DEF fold
<1>6. fold[1 .. N] = SumTo(v, 1 .. N, N)[N]
  BY <1>1, <1>3, <1>5, FoldIsSum
<1> QED BY <1>2, <1>6 DEF SumOver, v, N, lines

LEMMA OverMore ==
    ASSUME NEW N \in Nat, NEW v \in [1 .. N -> Int], NEW U, NEW V, NEW j \in 1 .. N,
           j \notin U, V = U \cup {j}
    PROVE  SumOver(v, V, N) = SumOver(v, U, N) + v[j]
<1>1. SumTo(v, U \cup {j}, N)[N] = SumTo(v, U, N)[N] + v[j]
  BY SumMore
<1> QED BY <1>1, Zenon DEF SumOver

LEMMA WeightsType ==
    ASSUME NEW c, Running(c)
    PROVE  /\ Costs(c.lines) \in [1 .. Len(c.lines) -> Int]
           /\ Amounts(c.data.lines) \in [1 .. Len(c.data.lines) -> Int]
<1>1. /\ c.lines \in Seq(POLine) /\ DOMAIN c.lines = 1 .. Len(c.lines)
      /\ c.data.lines \in Seq(InvoiceLine)
  BY RunningSays
<1>2. ASSUME NEW i \in 1 .. Len(c.lines) PROVE Extended(c.lines[i]) \in Int
  <2>1. c.lines[i] \in POLine
    BY <1>1
  <2> QED BY <2>1 DEF POLine, Extended
<1>3. ASSUME NEW k \in 1 .. Len(c.data.lines) PROVE c.data.lines[k].ext \in Int
  <2>1. c.data.lines[k] \in InvoiceLine
    BY <1>1
  <2> QED BY <2>1 DEF InvoiceLine
<1> QED BY <1>2, <1>3 DEF Costs, Amounts

\* A report that gets one more pair has its verdict, and all it had.
LEMMA VerdictsGrow ==
    ASSUME NEW p \in Seq(PairType), NEW x \in PairType
    PROVE  Verdicts(Append(p, x)) = Verdicts(p) \cup {x.verdict}
<1> DEFINE q == Append(p, x)
<1>1. /\ Len(p) \in Nat /\ DOMAIN p = 1 .. Len(p) /\ DOMAIN q = 1 .. Len(p) + 1
      /\ \A k \in 1 .. Len(p) : q[k] = p[k]
      /\ q[Len(p) + 1] = x
  BY OneMore
<1> HIDE DEF q
<1>2. ASSUME NEW v PROVE v \in Verdicts(q) <=> v \in Verdicts(p) \cup {x.verdict}
  <2>1. ASSUME v \in Verdicts(q) PROVE v \in Verdicts(p) \cup {x.verdict}
    <3>1. PICK k \in DOMAIN q : v = q[k].verdict
      BY <2>1 DEF Verdicts
    <3>2. CASE k = Len(p) + 1
      BY <1>1, <3>1, <3>2
    <3>3. CASE k \in DOMAIN p
      BY <1>1, <3>1, <3>3 DEF Verdicts
    <3> QED BY <1>1, <3>2, <3>3
  <2>2. ASSUME v \in Verdicts(p) PROVE v \in Verdicts(q)
    <3>1. PICK k \in DOMAIN p : v = p[k].verdict
      BY <2>2 DEF Verdicts
    <3>2. k \in DOMAIN q /\ q[k] = p[k]
      BY <1>1
    <3> QED BY <3>1, <3>2 DEF Verdicts
  <2>3. x.verdict \in Verdicts(q)
    <3>1. Len(p) + 1 \in DOMAIN q
      BY <1>1
    <3> QED BY <1>1, <3>1 DEF Verdicts
  <2> QED BY <2>1, <2>2, <2>3
<1> QED BY <1>2 DEF q

LEMMA LineBalances ==
    ASSUME NEW c, Running(c), Accounts(c), Balanced(c), c.next <= Len(c.data.lines)
    PROVE  Balanced(CompareLine(c))
<1> DEFINE inv == c.data.lines[c.next]
           best == findBestPOMatch(inv, c.lines, c.used)
           d == CompareLine(c)
           u == Amounts(c.data.lines)
           w == Costs(c.lines)
           M == Len(c.data.lines)
           N == Len(c.lines)
           Fine == Matching \cup {"missing_from_invoice"}
<1>1. /\ c.lines \in Seq(POLine) /\ DOMAIN c.lines = 1 .. N /\ N \in Nat /\ M \in Nat
      /\ c.next \in 1 .. M /\ inv \in InvoiceLine /\ c.used \subseteq 1 .. N
  <2>1. /\ c.lines \in Seq(POLine) /\ DOMAIN c.lines = 1 .. N /\ N \in Nat
        /\ c.data.lines \in Seq(InvoiceLine) /\ M \in Nat /\ c.next \in Nat \ {0}
    BY RunningSays
  <2>2. c.used \subseteq 1 .. N
    BY <2>1 DEF Running
  <2>3. c.next \in 1 .. M
    BY <2>1
  <2>4. inv \in InvoiceLine
    BY <2>1, <2>3
  <2> QED BY <2>1, <2>2, <2>3, <2>4
<1>2. best = {} \/ \E i \in (1 .. N) \ c.used : best = {i}
  BY <1>1, BestOf
<1>3. c.pairs \in Seq(PairType)
  BY DEF Accounts
<1>4. PICK x \in PairType :
        /\ LineTurn(c, d, x)
        /\ \A i \in DOMAIN c.lines :
             best = {i} =>
               /\ x = Pair(c.next, i, LineVerdict(inv, c.lines[i]))
               /\ d.used = c.used \cup {i}
  BY LineTurns
<1>5. /\ d.data = c.data /\ d.lines = c.lines /\ d.next = c.next + 1
      /\ d.pairs = Append(c.pairs, x)
  BY <1>4 DEF LineTurn
<1>6. Verdicts(d.pairs) = Verdicts(c.pairs) \cup {x.verdict}
  BY <1>3, <1>5, VerdictsGrow
<1>7. SUFFICES ASSUME Verdicts(d.pairs) \subseteq Fine
               PROVE  SumOver(u, 1 .. d.next - 1, M) = SumOver(w, d.used, N)
  BY <1>5 DEF Balanced
<1>8. SumOver(u, 1 .. c.next - 1, M) = SumOver(w, c.used, N)
  BY <1>6, <1>7 DEF Balanced
<1>9. best # {}
  <2>1. SUFFICES ASSUME best = {} PROVE FALSE
    OBVIOUS
  <2>2. d.pairs = Append(c.pairs, Pair(c.next, 0, classifyFeeLine(inv)))
    <3>1. d = [c EXCEPT !.next = c.next + 1, !.used = c.used \cup best,
                        !.pairs = Append(@, Pair(c.next, 0, classifyFeeLine(inv)))]
      BY <2>1, Zenon DEF CompareLine
    <3>2. DOMAIN c = CmpFields
      BY DEF Running
    <3> HIDE DEF d
    <3> QED BY <3>1, <3>2 DEF CmpFields
  <2>3. classifyFeeLine(inv) \in FeeWords \cup {"extra_on_invoice"}
    BY DEF classifyFeeLine, FeeWords
  <2> DEFINE fee == classifyFeeLine(inv)
             y == Pair(c.next, 0, fee)
  <2> HIDE DEF fee, d
  <2>4. fee \in FeeWords \cup VerdictWords
    BY <2>3 DEF fee, VerdictWords
  <2>5. y \in PairType /\ y.verdict = fee
    <3>1. c.next \in Nat
      BY <1>1
    <3> QED BY <2>4, <3>1 DEF Pair, PairType
  <2>6. fee \in Verdicts(d.pairs)
    <3> HIDE DEF y
    <3>1. d.pairs = Append(c.pairs, y)
      BY <2>2 DEF y, fee
    <3> QED BY <1>3, <2>5, <3>1, VerdictsGrow
  <2> QED BY <1>7, <2>3, <2>6 DEF fee, FeeWords, Matching
<1>10. PICK i \in (1 .. N) \ c.used : best = {i}
  BY <1>2, <1>9
<1>11. x = Pair(c.next, i, LineVerdict(inv, c.lines[i])) /\ d.used = c.used \cup {i}
  BY <1>1, <1>4, <1>10
<1>12. inv.ext = Extended(c.lines[i])
  <2>1. LineVerdict(inv, c.lines[i]) \in Fine
    <3>1. x.verdict = LineVerdict(inv, c.lines[i])
      BY <1>11 DEF Pair
    <3> QED BY <1>6, <1>7, <3>1
  <2> HIDE DEF inv
  <2> QED BY <2>1 DEF LineVerdict, Matching
<1>13. u \in [1 .. M -> Int] /\ w \in [1 .. N -> Int]
  BY WeightsType
<1>14. u[c.next] = w[i]
  BY <1>1, <1>12 DEF Amounts, Costs
<1>15. 1 .. d.next - 1 = (1 .. c.next - 1) \cup {c.next} /\ c.next \notin 1 .. c.next - 1
  BY <1>1, <1>5
<1> HIDE DEF u, w, d, inv, best, M, N
<1>16. SumOver(u, 1 .. d.next - 1, M) = SumOver(u, 1 .. c.next - 1, M) + u[c.next]
  <2>1. M \in Nat /\ c.next \in 1 .. M
    BY <1>1
  <2>2. \A U, V : \A j \in 1 .. M :
          j \notin U /\ V = U \cup {j} => SumOver(u, V, M) = SumOver(u, U, M) + u[j]
    BY <1>13, <2>1, OverMore, SMTT(40)
  <2> QED BY <1>15, <2>1, <2>2
<1>17. SumOver(w, d.used, N) = SumOver(w, c.used, N) + w[i]
  <2>1. N \in Nat /\ i \in 1 .. N /\ i \notin c.used
    BY <1>1, <1>10
  <2>2. \A U, V : \A j \in 1 .. N :
          j \notin U /\ V = U \cup {j} => SumOver(w, V, N) = SumOver(w, U, N) + w[j]
    BY <1>13, <2>1, OverMore, SMTT(40)
  <2> QED BY <1>11, <2>1, <2>2
<1> QED BY <1>8, <1>14, <1>16, <1>17

LEMMA RestBalances ==
    ASSUME NEW c, Running(c), Accounts(c), Balanced(c), c.rest <= Len(c.lines)
    PROVE  Balanced(CompareRest(c))
<1> DEFINE d == CompareRest(c)
           x == Pair(0, c.rest, "missing_from_invoice")
<1>1. RestTurn(c, d)
  BY RestTurns
<1>2. /\ d.data = c.data /\ d.lines = c.lines /\ d.next = c.next /\ d.used = c.used
      /\ d.pairs = c.pairs \/ d.pairs = Append(c.pairs, x)
  BY <1>1 DEF RestTurn
<1>3. c.pairs \in Seq(PairType) /\ c.rest \in Nat
  BY RunningSays DEF Accounts
<1>4. x \in PairType
  BY <1>3 DEF Pair, PairType, VerdictWords
<1> HIDE DEF x, d
<1>5. Verdicts(c.pairs) \subseteq Verdicts(d.pairs)
  BY <1>2, <1>3, <1>4, VerdictsGrow
<1> QED BY <1>2, <1>5 DEF Balanced, d

LEMMA BalanceStep == RowInv /\ CmpInv /\ BalanceInv /\ [Next]_vars => BalanceInv'
<1> SUFFICES ASSUME RowInv, CmpInv, BalanceInv, [Next]_vars PROVE BalanceInv'
  OBVIOUS
<1>1. CASE cmp' = cmp \/ cmp' = Idle
  BY <1>1 DEF BalanceInv
<1>2. CASE StartRecheck
  <2> DEFINE c == cmp'
             w == Costs(c.lines)
             N == Len(c.lines)
             u == Amounts(c.data.lines)
             M == Len(c.data.lines)
  <2>1. c.next = 1 /\ c.used = {}
    BY <1>2 DEF StartRecheck
  <2>2. Running(c)
    BY <1>2, StartRuns DEF StartRecheck
  <2> HIDE DEF c
  <2>3. w \in [1 .. N -> Int] /\ u \in [1 .. M -> Int] /\ N \in Nat /\ M \in Nat
    BY <2>2, WeightsType, RunningSays
  <2> HIDE DEF w, u, N, M
  <2>4. SumOver(w, {}, N) = 0 /\ SumOver(u, {}, M) = 0
    BY <2>3, SumBounds DEF SumOver
  <2>5. 1 .. c.next - 1 = {}
    BY <2>1
  <2>6. Balanced(c)
    BY <2>1, <2>4, <2>5 DEF Balanced, w, u, N, M
  <2> QED BY <2>6 DEF BalanceInv, c
<1>3. CASE ComparesLine
  <2>1. /\ Running(cmp) /\ Accounts(cmp) /\ Balanced(cmp) /\ cmp.next <= Len(cmp.data.lines)
        /\ cmp' = CompareLine(cmp)
    BY <1>3 DEF ComparesLine, CmpInv, BalanceInv
  <2> QED BY <2>1, LineBalances DEF BalanceInv
<1>4. CASE ComparesRest
  <2>1. /\ Running(cmp) /\ Accounts(cmp) /\ Balanced(cmp) /\ cmp.rest <= Len(cmp.lines)
        /\ cmp' = CompareRest(cmp)
    BY <1>4 DEF ComparesRest, CmpInv, BalanceInv
  <2> QED BY <2>1, RestBalances DEF BalanceInv
<1>5. \/ cmp' = cmp \/ cmp' = Idle
      \/ StartRecheck \/ ComparesLine \/ ComparesRest
  BY DEF Next, vars, processExtractionResult, EditPO, ClerkBlocks, EndRecheck
<1> QED BY <1>1, <1>2, <1>3, <1>4, <1>5

\* What Compare releases was billed in full: when the amounts of the invoice
\* add up to its total and no line of any PO is a credit, a PO line that the
\* invoice does not have costs nothing.  With a credit among the lines left out
\* the rest of them may cost what it takes off.
THEOREM NothingHidden ==
    ASSUME \A order \in Orders : \A i \in DOMAIN order : Extended(order[i]) >= 0
    PROVE  Spec => []CleanHidesNothing
<1>1. RowInv /\ CmpInv /\ BalanceInv => CleanHidesNothing
  <2> SUFFICES ASSUME CmpInv, BalanceInv, cmp # Idle, Complete(cmp),
                      Clean(CompareResult(cmp)), AddsUp(cmp.data),
                      NEW i \in (DOMAIN cmp.lines) \ cmp.used
               PROVE  Extended(cmp.lines[i]) = 0
    BY DEF CleanHidesNothing
  <2> DEFINE order == cmp.lines
             w == Costs(order)
             N == Len(order)
             u == Amounts(cmp.data.lines)
             M == Len(cmp.data.lines)
  <2>1. Running(cmp) /\ Balanced(cmp)
    BY DEF CmpInv, BalanceInv
  <2>2. /\ order \in Seq(POLine) /\ N \in Nat /\ DOMAIN order = 1 .. N
        /\ cmp.data.lines \in Seq(InvoiceLine) /\ M \in Nat
        /\ cmp.next \in 1 .. M + 1 /\ cmp.used \subseteq 1 .. N /\ order \in Orders
    BY <2>1, RunningSays DEF Running
  <2>3. /\ cmp.data.total = POTotal(order)
        /\ Verdicts(cmp.pairs) \subseteq Matching \cup {"missing_from_invoice"}
    BY Zenon DEF Clean, CompareResult
  <2>4. SumOver(u, 1 .. cmp.next - 1, M) = SumOver(w, cmp.used, N)
    BY <2>1, <2>3 DEF Balanced
  <2>5. 1 .. cmp.next - 1 = 1 .. M
    BY <2>2, Below DEF Complete
  <2>6. SumOver(w, cmp.used, N) = SumOver(w, 1 .. N, N)
    <3>1. POTotal(order) = SumOver(w, 1 .. N, N)
      BY <2>2, TotalIsSum
    <3>2. cmp.data.total = SumOver(u, 1 .. M, M)
      BY <2>2, InvoiceIsSum
    <3> HIDE DEF u, w, N, M, order
    <3> QED BY <2>3, <2>4, <2>5, <3>1, <3>2
  <2>7. w \in [1 .. N -> Int]
    BY <2>1, WeightsType
  <2>8. \A j \in 1 .. N : w[j] = Extended(order[j])
    BY DEF Costs
  <2>9. \A j \in 1 .. N : w[j] >= 0
    BY <2>2, <2>8
  <2>10. i \in 1 .. N /\ i \notin cmp.used
    BY <2>2
  <2> HIDE DEF u, w, N, M, order
  <2>11. SumOver(w, cmp.used \cup {i}, N) = SumOver(w, cmp.used, N) + w[i]
    <3>1. N \in Nat
      BY <2>2
    <3>2. \A U, V : \A j \in 1 .. N :
            j \notin U /\ V = U \cup {j} => SumOver(w, V, N) = SumOver(w, U, N) + w[j]
      BY <2>7, <3>1, OverMore
    <3> QED BY <2>10, <3>2
  <2>12. SumOver(w, cmp.used \cup {i}, N) <= SumOver(w, 1 .. N, N)
    <3>1. cmp.used \cup {i} \in SUBSET (1 .. N)
      BY <2>2, <2>10
    <3> QED BY <2>2, <2>7, <2>9, <3>1, SumBounds DEF SumOver
  <2>13. SumOver(w, cmp.used, N) \in Int /\ w[i] \in Int
    <3>1. N \in 0 .. N
      BY <2>2
    <3> QED BY <2>2, <2>7, <2>10, <3>1, SumType DEF SumOver
  <2>14. w[i] = 0
    BY <2>6, <2>9, <2>10, <2>11, <2>12, <2>13
  <2> QED BY <2>8, <2>10, <2>14 DEF order
<1>2. Init => BalanceInv
  BY DEF Init, BalanceInv
<1> QED BY <1>1, <1>2, BalanceStep, CmpAlways, PTL DEF Spec

=============================================================================
