--------------------------- MODULE TradesSyncProofs ---------------------------
(* What the trades sync guarantees for all page sizes, limits, margins,       *)
(* windows, fills, runs and cuts, without the bounds of the small instance:   *)
(* what it writes twice, what it has when it says complete, and what a        *)
(* backfill in windows covers.                                                *)
EXTENDS TradesSync, SequenceTheorems, FiniteSetTheorems, WellFoundedInduction, TLAPS

Fill == [id : Ids, ts : Seconds]
Sync == [full : BOOLEAN, window : TimeWindow \cup {None}, honored : BOOLEAN,
         from : Nat, offset : Nat, page : Seq(Fill), fresh : Seq(Ids),
         earliest : Nat, latest : Nat, known : Nat]

(***************************************************************************)
(* Numbers and places                                                      *)
(***************************************************************************)

\* Among some subsets of a finite set one has no other below it.
LEMMA SmallestSubset ==
  ASSUME NEW S, IsFiniteSet(S), NEW B \in SUBSET SUBSET S, B # {}
  PROVE  \E m \in B : \A t \in B : t \subseteq m => t = m
<1>1. IsWellFoundedOn(StrictSubsetOrdering(S), FiniteSubsetsOf(S))
  BY FS_StrictSubsetOrderingWellFounded
<1>2. B \subseteq FiniteSubsetsOf(S)
  BY FS_Subset DEF FiniteSubsetsOf
<1>3. \E m \in B : \A t \in B : ~ (<<t, m>> \in StrictSubsetOrdering(S))
  BY <1>1, <1>2, WFMin
<1>4. QED BY <1>3 DEF StrictSubsetOrdering

\* Among some numbers one is the least: what the inductions rest on.
LEMMA LeastNumber ==
  ASSUME NEW T \in SUBSET Nat, NEW n \in T
  PROVE  \E m \in T : \A k \in T : m <= k
<1> DEFINE S == 1..n
           B == {t \in SUBSET S : \E i \in T : t = 1..i}
<1>1. IsFiniteSet(S) /\ B \in SUBSET SUBSET S /\ S \in B
  BY FS_Interval
<1>2. PICK m \in B : \A t \in B : t \subseteq m => t = m
  <2> HIDE DEF B, S
  <2>1. QED BY <1>1, SmallestSubset
<1>3. PICK i \in T : m = 1..i
  BY <1>2
<1>4. i <= n
  <2>1. m \subseteq 1..n
    BY <1>2
  <2>2. i \in Nat /\ n \in Nat
    OBVIOUS
  <2>3. i \in 1..i \/ i = 0
    BY <2>2
  <2>4. QED BY <1>3, <2>1, <2>2, <2>3
<1>5. ASSUME NEW k \in T PROVE i <= k
  <2>1. i \in Nat /\ k \in Nat /\ n \in Nat
    OBVIOUS
  <2>2. SUFFICES ASSUME k < i PROVE FALSE
    BY <2>1
  <2>3. 1..k \subseteq 1..i /\ 1..k \subseteq S /\ i \in 1..i /\ i \notin 1..k
    BY <1>4, <2>1, <2>2
  <2>4. 1..k \in B
    BY <2>3
  <2>5. 1..k = m
    <3> HIDE DEF B
    <3>1. QED BY <1>2, <1>3, <2>3, <2>4
  <2>6. QED BY <1>3, <2>3, <2>5
<1>6. QED BY <1>5

\* The bounds of a set of numbers that has them.
LEMMA LeastIs ==
  ASSUME NEW S, S \in SUBSET Int, NEW m \in S, \A k \in S : m <= k
  PROVE  Min(S) = m
<1> DEFINE P(x) == x \in S /\ \A k \in S : x <= k
<1>1. Min(S) = CHOOSE x : P(x)
  BY DEF Min
<1>2. P(m)
  OBVIOUS
<1>3. P(CHOOSE x : P(x))
  <2> HIDE DEF P
  <2>1. QED BY <1>2
<1>4. \A x : P(x) => x = m
  OBVIOUS
<1> HIDE DEF P
<1>5. QED BY <1>1, <1>3, <1>4

LEMMA GreatestIs ==
  ASSUME NEW S, S \in SUBSET Int, NEW m \in S, \A k \in S : k <= m
  PROVE  Max(S) = m
<1> DEFINE P(x) == x \in S /\ \A k \in S : x >= k
<1>1. Max(S) = CHOOSE x : P(x)
  BY DEF Max
<1>2. P(m)
  OBVIOUS
<1>3. P(CHOOSE x : P(x))
  <2> HIDE DEF P
  <2>1. QED BY <1>2
<1>4. \A x : P(x) => x = m
  OBVIOUS
<1> HIDE DEF P
<1>5. QED BY <1>1, <1>3, <1>4

Sorted(s) == \A m, n \in 1..Len(s) : m <= n => s[m].ts >= s[n].ts
Fills(s) == s \in Seq(Fill) /\ Sorted(s)

\* In a list that is sorted, the fills newer than a time come first.
LEMMA NewerIs ==
  ASSUME NEW s, Fills(s), NEW t \in Int
  PROVE  /\ Newer(s, t) \in 0..Len(s)
         /\ \A n \in 1..Len(s) : s[n].ts > t <=> n <= Newer(s, t)
<1> DEFINE N == Len(s)
           T == {n \in 1..(N + 1) : n = N + 1 \/ ~(s[n].ts > t)}
<1>1. N \in Nat /\ \A n \in 1..N : s[n] \in Fill
  BY DEF Fills
<1>2. \A n \in 1..N : s[n].ts \in Int
  BY <1>1 DEF Fill, Seconds
<1>3. PICK m \in T : \A k \in T : m <= k
  <2>1. N + 1 \in T /\ T \in SUBSET Nat
    BY <1>1
  <2> HIDE DEF T
  <2>2. QED BY <2>1, LeastNumber
<1>4. m \in 1..(N + 1)
  BY <1>3
<1>5. ASSUME NEW n \in 1..N PROVE s[n].ts > t <=> n <= m - 1
  <2>1. CASE n < m
    <3>1. n \notin T
      BY <1>1, <1>3, <1>4, <2>1
    <3>2. QED BY <1>1, <1>4, <2>1, <3>1
  <2>2. CASE n >= m
    <3>1. m \in 1..N /\ ~(s[m].ts > t)
      BY <1>1, <1>3, <1>4, <2>2
    <3>2. s[m].ts >= s[n].ts
      BY <2>2, <3>1 DEF Fills, Sorted
    <3>3. ~(s[n].ts > t)
      BY <1>2, <3>1, <3>2
    <3>4. QED BY <1>4, <2>2, <3>3
  <2>3. QED BY <1>1, <1>4, <2>1, <2>2
<1>6. {n \in 1..N : s[n].ts > t} = 1..(m - 1)
  <2> HIDE DEF T
  <2>1. QED BY <1>1, <1>4, <1>5
<1>7. Cardinality(1..(m - 1)) = m - 1
  <2>1. m - 1 \in Nat /\ m - 1 <= N
    BY <1>1, <1>4
  <2>2. QED BY <2>1, FS_Interval
<1>8. Newer(s, t) = m - 1
  BY <1>6, <1>7 DEF Newer
<1> HIDE DEF T
<1>9. QED BY <1>1, <1>4, <1>5, <1>8

\* Where things are once x was put at place p.
LEMMA InsertIs ==
  ASSUME NEW S, NEW s \in Seq(S), NEW p \in 1..(Len(s) + 1), NEW x \in S
  PROVE  /\ InsertAt(s, p, x) \in Seq(S) /\ Len(InsertAt(s, p, x)) = Len(s) + 1
         /\ \A n \in 1..(Len(s) + 1) :
              InsertAt(s, p, x)[n] = IF n < p THEN s[n] ELSE IF n = p THEN x ELSE s[n - 1]
<1> DEFINE N == Len(s)
           k == p - 1
           a == SubSeq(s, 1, k)
           b == SubSeq(s, k + 1, N)
           t == InsertAt(s, p, x)
<1>1. N \in Nat /\ k \in Nat /\ k <= N /\ p = k + 1
  OBVIOUS
<1>2. \A i \in 1..N : s[i] \in S
  OBVIOUS
<1>3. a \in Seq(S) /\ Len(a) = k /\ \A i \in 1..k : a[i] = s[i]
  <2>1. 1 \in Int /\ k \in Int /\ \A i \in 1..k : s[i] \in S
    BY <1>1, <1>2
  <2>2. /\ a \in Seq(S) /\ Len(a) = (IF 1 <= k THEN k - 1 + 1 ELSE 0)
        /\ \A i \in 1..(k - 1 + 1) : a[i] = s[1 + i - 1]
    BY <2>1, SubSeqProperties
  <2>3. QED BY <1>1, <2>2
<1>4. b \in Seq(S) /\ Len(b) = N - k /\ \A i \in 1..(N - k) : b[i] = s[k + i]
  <2>1. k + 1 \in Int /\ N \in Int /\ \A i \in (k + 1)..N : s[i] \in S
    BY <1>1, <1>2
  <2>2. /\ b \in Seq(S) /\ Len(b) = (IF k + 1 <= N THEN N - (k + 1) + 1 ELSE 0)
        /\ \A i \in 1..(N - (k + 1) + 1) : b[i] = s[k + 1 + i - 1]
    BY <2>1, SubSeqProperties
  <2>3. QED BY <1>1, <2>2
<1>5. t = a \o <<x>> \o b
  <2>1. t = SubSeq(s, 1, p - 1) \o <<x>> \o SubSeq(s, p, Len(s))
    BY DEF InsertAt
  <2>2. SubSeq(s, p, Len(s)) = b
    BY <1>1
  <2> HIDE DEF t, b
  <2>3. QED BY <2>1, <2>2
<1> DEFINE u == a \o <<x>>
<1> HIDE DEF a, b, t, N, k
<1>6. <<x>> \in Seq(S) /\ Len(<<x>>) = 1 /\ <<x>>[1] = x
  OBVIOUS
<1>7. u \in Seq(S) /\ Len(u) = k + 1 /\ \A i \in 1..(k + 1) : u[i] = IF i <= k THEN s[i] ELSE x
  <2>1. /\ u \in Seq(S) /\ Len(u) = Len(a) + Len(<<x>>)
        /\ \A i \in 1..(Len(a) + Len(<<x>>)) : u[i] = IF i <= Len(a) THEN a[i] ELSE <<x>>[i - Len(a)]
    BY <1>3, <1>6, ConcatProperties
  <2>2. ASSUME NEW i \in 1..(k + 1) PROVE u[i] = IF i <= k THEN s[i] ELSE x
    <3>1. CASE i <= k
      BY <1>1, <1>3, <1>6, <2>1, <3>1
    <3>2. CASE i = k + 1
      <4>1. u[i] = <<x>>[i - Len(a)] /\ i - Len(a) = 1
        BY <1>1, <1>3, <1>6, <2>1, <3>2
      <4>2. QED BY <1>1, <1>6, <3>2, <4>1
    <3>3. i <= k \/ i = k + 1
      BY <1>1
    <3>4. QED BY <3>1, <3>2, <3>3
  <2>3. QED BY <1>3, <1>6, <2>1, <2>2
<1> HIDE DEF u
<1>8. /\ u \o b \in Seq(S) /\ Len(u \o b) = Len(u) + Len(b)
      /\ \A i \in 1..(Len(u) + Len(b)) : (u \o b)[i] = IF i <= Len(u) THEN u[i] ELSE b[i - Len(u)]
  BY <1>4, <1>7, ConcatProperties
<1>9. t = u \o b
  BY <1>5 DEF u
<1>10. t \in Seq(S) /\ Len(t) = N + 1
  BY <1>1, <1>4, <1>7, <1>8, <1>9
<1>11. ASSUME NEW n \in 1..(N + 1)
       PROVE  t[n] = IF n <= k THEN s[n] ELSE IF n = k + 1 THEN x ELSE s[n - 1]
  <2>1. CASE n <= k + 1
    <3>1. t[n] = u[n]
      BY <1>1, <1>4, <1>7, <1>8, <1>9, <2>1
    <3>2. QED BY <1>1, <1>7, <2>1, <3>1
  <2>2. CASE n > k + 1
    <3>1. t[n] = b[n - (k + 1)]
      BY <1>1, <1>4, <1>7, <1>8, <1>9, <2>2
    <3> DEFINE i == n - (k + 1)
    <3>2. i \in 1..(N - k) /\ k + i = n - 1 /\ ~(n <= k) /\ n # k + 1
      BY <1>1, <2>2
    <3> HIDE DEF i
    <3>3. b[i] = s[n - 1]
      BY <1>4, <3>2
    <3>4. QED BY <3>1, <3>2, <3>3 DEF i
  <2>3. QED BY <1>1, <2>1, <2>2
<1>12. ASSUME NEW n \in 1..(N + 1)
       PROVE  t[n] = IF n < p THEN s[n] ELSE IF n = p THEN x ELSE s[n - 1]
  <2>1. n <= k <=> n < p
    BY <1>1
  <2>2. QED BY <1>1, <1>11, <2>1
<1>13. QED BY <1>10, <1>12 DEF t, N

\* A fill put in its place: the list stays sorted, and a time has one fill
\* more that is newer, or not.
Placed(s, x) == InsertAt(s, Newer(s, x.ts) + 1, x)

LEMMA PlacedIs ==
  ASSUME NEW s, Fills(s), NEW x \in Fill
  PROVE  /\ Fills(Placed(s, x)) /\ Len(Placed(s, x)) = Len(s) + 1
         /\ \A n \in 1..(Len(s) + 1) :
              Placed(s, x)[n] = IF n <= Newer(s, x.ts) THEN s[n]
                                ELSE IF n = Newer(s, x.ts) + 1 THEN x ELSE s[n - 1]
<1> DEFINE N == Len(s)
           c == Newer(s, x.ts)
           t == Placed(s, x)
<1>1. x.ts \in Int /\ N \in Nat /\ s \in Seq(Fill) /\ \A n \in 1..N : s[n].ts \in Int
  <2>1. s \in Seq(Fill)
    BY DEF Fills
  <2>2. \A n \in 1..N : s[n] \in Fill
    BY <2>1
  <2>3. QED BY <2>1, <2>2 DEF Fill, Seconds
<1>2. c \in 0..N /\ \A n \in 1..N : s[n].ts > x.ts <=> n <= c
  BY <1>1, NewerIs
<1>3. /\ t \in Seq(Fill) /\ Len(t) = N + 1
      /\ \A n \in 1..(N + 1) : t[n] = IF n <= c THEN s[n] ELSE IF n = c + 1 THEN x ELSE s[n - 1]
  <2>1. t = InsertAt(s, c + 1, x)
    BY DEF Placed
  <2> HIDE DEF c, t, N
  <2> DEFINE p == c + 1
  <2>2. p \in 1..(N + 1) /\ t = InsertAt(s, p, x)
    BY <1>1, <1>2, <2>1
  <2> HIDE DEF p
  <2>3. /\ t \in Seq(Fill) /\ Len(t) = N + 1
        /\ \A n \in 1..(N + 1) : t[n] = IF n < p THEN s[n] ELSE IF n = p THEN x ELSE s[n - 1]
    <3>1. p \in 1..(Len(s) + 1) /\ s \in Seq(Fill)
      BY <1>1, <2>2 DEF N
    <3>2. /\ InsertAt(s, p, x) \in Seq(Fill) /\ Len(InsertAt(s, p, x)) = Len(s) + 1
          /\ \A n \in 1..(Len(s) + 1) :
               InsertAt(s, p, x)[n] = IF n < p THEN s[n] ELSE IF n = p THEN x ELSE s[n - 1]
      BY <3>1, InsertIs
    <3>3. N = Len(s)
      BY DEF N
    <3>4. QED BY <2>2, <3>2, <3>3
  <2>4. ASSUME NEW n \in 1..(N + 1)
        PROVE  t[n] = IF n <= c THEN s[n] ELSE IF n = c + 1 THEN x ELSE s[n - 1]
    <3>1. p = c + 1 /\ (n < p <=> n <= c)
      BY <1>1, <1>2 DEF p
    <3>2. QED BY <2>3, <3>1
  <2>5. QED BY <2>3, <2>4
<1> HIDE DEF c, t
<1>4. ASSUME NEW m \in 1..(N + 1), NEW n \in 1..(N + 1), m <= n PROVE t[m].ts >= t[n].ts
  <2>1. \A i, j \in 1..N : i <= j => s[i].ts >= s[j].ts
    BY DEF Fills, Sorted
  <2>2. CASE n <= c
    <3>1. t[m] = s[m] /\ t[n] = s[n] /\ m \in 1..N /\ n \in 1..N
      BY <1>1, <1>2, <1>3, <1>4, <2>2
    <3>2. QED BY <1>4, <2>1, <3>1
  <2>3. CASE n = c + 1
    <3>1. t[n] = x
      BY <1>1, <1>2, <1>3, <2>3
    <3>2. CASE m = n
      BY <1>1, <3>1, <3>2
    <3>3. CASE m < n
      <4>1. m \in 1..N /\ m <= c /\ t[m] = s[m]
        BY <1>1, <1>2, <1>3, <2>3, <3>3
      <4>2. s[m].ts > x.ts /\ s[m].ts \in Int
        BY <1>1, <1>2, <4>1
      <4>3. QED BY <1>1, <3>1, <4>1, <4>2
    <3>4. QED BY <1>4, <3>2, <3>3
  <2>4. CASE n > c + 1
    <3>1. t[n] = s[n - 1] /\ n - 1 \in 1..N /\ ~(n - 1 <= c)
      BY <1>1, <1>2, <1>3, <2>4
    <3>2. ~(s[n - 1].ts > x.ts) /\ s[n - 1].ts \in Int
      BY <1>1, <1>2, <3>1
    <3>3. CASE m <= c
      <4>1. t[m] = s[m] /\ m \in 1..N /\ m <= n - 1
        BY <1>1, <1>2, <1>3, <2>4, <3>3
      <4>2. QED BY <2>1, <3>1, <4>1
    <3>4. CASE m = c + 1
      <4>1. t[m] = x
        BY <1>1, <1>2, <1>3, <3>4
      <4>2. QED BY <1>1, <3>1, <3>2, <4>1
    <3>5. CASE m > c + 1
      <4>1. t[m] = s[m - 1] /\ m - 1 \in 1..N /\ m - 1 <= n - 1
        BY <1>1, <1>2, <1>3, <1>4, <3>5
      <4>2. QED BY <2>1, <3>1, <4>1
    <3>6. QED BY <1>2, <3>3, <3>4, <3>5
  <2>5. QED BY <1>2, <2>2, <2>3, <2>4
<1>5. Fills(t)
  BY <1>1, <1>3, <1>4 DEF Fills, Sorted
<1>6. QED BY <1>3, <1>5 DEF c, t

LEMMA NewerShifts ==
  ASSUME NEW s, Fills(s), NEW x \in Fill, NEW h \in Int
  PROVE  Newer(Placed(s, x), h) = Newer(s, h) + IF x.ts > h THEN 1 ELSE 0
<1> DEFINE N == Len(s)
           c == Newer(s, x.ts)
           a == Newer(s, h)
           t == Placed(s, x)
           d == Newer(t, h)
<1>1. x.ts \in Int /\ N \in Nat /\ \A n \in 1..N : s[n].ts \in Int
  <2>1. s \in Seq(Fill)
    BY DEF Fills
  <2>2. \A n \in 1..N : s[n] \in Fill
    BY <2>1
  <2>3. QED BY <2>1, <2>2 DEF Fill, Seconds
<1>2. c \in 0..N /\ \A n \in 1..N : s[n].ts > x.ts <=> n <= c
  BY <1>1, NewerIs
<1>3. a \in 0..N /\ \A n \in 1..N : s[n].ts > h <=> n <= a
  BY NewerIs
<1>4. /\ Fills(t) /\ Len(t) = N + 1
      /\ \A n \in 1..(N + 1) : t[n] = IF n <= c THEN s[n] ELSE IF n = c + 1 THEN x ELSE s[n - 1]
  BY PlacedIs
<1>5. d \in 0..(N + 1) /\ \A n \in 1..(N + 1) : t[n].ts > h <=> n <= d
  <2>1. d \in 0..Len(t) /\ \A n \in 1..Len(t) : t[n].ts > h <=> n <= d
    BY <1>4, NewerIs
  <2>2. QED BY <1>4, <2>1
<1> HIDE DEF c, a, t, d, N
<1>6. CASE x.ts > h
  <2>1. c <= a
    <3>1. SUFFICES ASSUME c > a PROVE FALSE
      BY <1>2, <1>3
    <3>2. c \in 1..N /\ s[c].ts > x.ts /\ s[c].ts \in Int
      BY <1>1, <1>2, <1>3, <3>1
    <3>3. s[c].ts > h
      BY <1>1, <1>6, <3>2
    <3>4. QED BY <1>3, <3>1, <3>2, <3>3
  <2>2. a + 1 <= d
    <3>1. a + 1 \in 1..(N + 1)
      BY <1>1, <1>3
    <3>2. t[a + 1] = IF a + 1 = c + 1 THEN x ELSE s[a]
      BY <1>1, <1>2, <1>3, <1>4, <2>1, <3>1
    <3>3. CASE a = c
      BY <1>5, <1>6, <3>1, <3>2, <3>3
    <3>4. CASE a # c
      <4>1. a \in 1..N /\ s[a].ts > h /\ t[a + 1] = s[a]
        BY <1>2, <1>3, <2>1, <3>2, <3>4
      <4>2. QED BY <1>5, <3>1, <4>1
    <3>5. QED BY <3>3, <3>4
  <2>3. ~(a + 2 <= d)
    <3>1. SUFFICES ASSUME a + 2 <= d PROVE FALSE
      OBVIOUS
    <3>2. a + 2 \in 1..(N + 1) /\ a + 1 \in 1..N /\ t[a + 2] = s[a + 1]
      BY <1>1, <1>2, <1>3, <1>4, <1>5, <2>1, <3>1
    <3>3. s[a + 1].ts > h
      BY <1>5, <3>1, <3>2
    <3>4. QED BY <1>3, <3>2, <3>3
  <2>4. d = a + 1
    BY <1>3, <1>5, <2>2, <2>3
  <2>5. QED BY <1>6, <2>4 DEF d, a, t
<1>7. CASE ~(x.ts > h)
  <2>1. a <= c
    <3>1. SUFFICES ASSUME a > c PROVE FALSE
      BY <1>2, <1>3
    <3>2. a \in 1..N /\ s[a].ts > h /\ s[a].ts \in Int
      BY <1>1, <1>2, <1>3, <3>1
    <3>3. s[a].ts > x.ts
      BY <1>1, <1>7, <3>2
    <3>4. QED BY <1>2, <3>1, <3>2, <3>3
  <2>2. a <= d
    <3>1. CASE a = 0
      BY <1>5, <3>1
    <3>2. CASE a # 0
      <4>1. a \in 1..N /\ a \in 1..(N + 1) /\ t[a] = s[a] /\ s[a].ts > h
        BY <1>1, <1>2, <1>3, <1>4, <2>1, <3>2
      <4>2. QED BY <1>5, <4>1
    <3>3. QED BY <3>1, <3>2
  <2>3. ~(a + 1 <= d)
    <3>1. SUFFICES ASSUME a + 1 <= d PROVE FALSE
      OBVIOUS
    <3>2. a + 1 \in 1..(N + 1)
      BY <1>1, <1>3
    <3>3. t[a + 1].ts > h
      BY <1>5, <3>1, <3>2
    <3>4. CASE a = c
      <4>1. t[a + 1] = x
        BY <1>1, <1>2, <1>4, <3>2, <3>4
      <4>2. QED BY <1>7, <3>3, <4>1
    <3>5. CASE a < c
      <4>1. a + 1 \in 1..N /\ t[a + 1] = s[a + 1]
        BY <1>1, <1>2, <1>3, <1>4, <3>2, <3>5
      <4>2. QED BY <1>3, <3>3, <4>1
    <3>6. QED BY <1>2, <1>3, <2>1, <3>4, <3>5
  <2>4. d = a
    BY <1>3, <1>5, <2>2, <2>3
  <2>5. QED BY <1>3, <1>7, <2>4 DEF d, a, t
<1>8. QED BY <1>6, <1>7

(***************************************************************************)
(* What the API lists                                                      *)
(***************************************************************************)

\* A list that grew: nothing moved up, and x is all that came.
Grew(s, t, x) == \A n \in 1..Len(t) : t[n] = x \/ \E m \in 1..Len(s) : m <= n /\ t[n] = s[m]

LEMMA FeedGrows ==
  ASSUME NEW s, Fills(s), NEW x \in Fill
  PROVE  Grew(s, Placed(s, x), x)
<1> DEFINE N == Len(s)
           c == Newer(s, x.ts)
           t == Placed(s, x)
<1>1. N \in Nat /\ c \in 0..N
  <2>1. s \in Seq(Fill) /\ x.ts \in Int
    BY DEF Fills, Fill, Seconds
  <2>2. QED BY <2>1, NewerIs
<1>2. /\ Len(t) = N + 1
      /\ \A n \in 1..(N + 1) : t[n] = IF n <= c THEN s[n] ELSE IF n = c + 1 THEN x ELSE s[n - 1]
  BY PlacedIs
<1> HIDE DEF N, c, t
<1>3. ASSUME NEW n \in 1..Len(t), t[n] # x
      PROVE  \E m \in 1..N : m <= n /\ t[n] = s[m]
  <2>1. n \in 1..(N + 1)
    BY <1>2
  <2>2. CASE n <= c
    <3>1. n \in 1..N /\ n <= n /\ t[n] = s[n]
      BY <1>1, <1>2, <2>1, <2>2
    <3>2. QED BY <3>1
  <2>3. CASE ~(n <= c)
    <3>1. n - 1 \in 1..N /\ n - 1 <= n /\ t[n] = s[n - 1]
      BY <1>1, <1>2, <1>3, <2>1, <2>3
    <3>2. QED BY <3>1
  <2>4. QED BY <2>2, <2>3
<1>4. QED BY <1>3 DEF Grew, N, t

Within(s, w) == SubSeq(s, Newer(s, w.hi) + 1, Newer(s, w.lo))

\* A window is a part of the list, and has all that lies in it.
LEMMA WindowIs ==
  ASSUME NEW s, Fills(s), NEW w \in TimeWindow
  PROVE  /\ Within(s, w) \in Seq(Fill)
         /\ Len(Within(s, w)) = IF Newer(s, w.hi) <= Newer(s, w.lo)
                                THEN Newer(s, w.lo) - Newer(s, w.hi) ELSE 0
         /\ \A n \in 1..Len(Within(s, w)) : /\ Within(s, w)[n] = s[Newer(s, w.hi) + n]
                                            /\ Newer(s, w.hi) + n \in 1..Len(s)
<1> DEFINE a == Newer(s, w.hi)
           b == Newer(s, w.lo)
           L == Within(s, w)
           N == Len(s)
<1>1. w.lo \in Int /\ w.hi \in Int
  BY DEF TimeWindow
<1>2. s \in Seq(Fill) /\ N \in Nat
  BY DEF Fills
<1>3. a \in 0..N /\ b \in 0..N
  BY <1>1, NewerIs
<1>4. \A i \in 1..N : s[i] \in Fill
  BY <1>2
<1>5. L = SubSeq(s, a + 1, b)
  BY DEF Within
<1> HIDE DEF a, b, L, N
<1>6. a + 1 \in Int /\ b \in Int /\ \A i \in (a + 1)..b : s[i] \in Fill
  BY <1>2, <1>3, <1>4
<1> DEFINE c == a + 1
<1>7. c \in Int /\ \A i \in c..b : s[i] \in Fill
  BY <1>6
<1> HIDE DEF c
<1>8. /\ SubSeq(s, c, b) \in Seq(Fill)
      /\ Len(SubSeq(s, c, b)) = IF c <= b THEN b - c + 1 ELSE 0
      /\ \A i \in 1..(b - c + 1) : SubSeq(s, c, b)[i] = s[c + i - 1]
  BY <1>6, <1>7, SubSeqProperties
<1>9. L = SubSeq(s, c, b)
  BY <1>5 DEF c
<1>10. L \in Seq(Fill) /\ Len(L) = IF a <= b THEN b - a ELSE 0
  <2>1. Len(L) = IF c <= b THEN b - c + 1 ELSE 0
    BY <1>8, <1>9
  <2>2. QED BY <1>3, <1>8, <1>9, <2>1 DEF c
<1>11. ASSUME NEW n \in 1..Len(L) PROVE L[n] = s[a + n] /\ a + n \in 1..N
  <2>1. n \in 1..(b - a) /\ a <= b
    BY <1>3, <1>10
  <2>2. n \in 1..(b - c + 1) /\ c + n - 1 = a + n
    BY <1>3, <2>1 DEF c
  <2>3. QED BY <1>2, <1>3, <1>8, <1>9, <2>1, <2>2
<1>12. QED BY <1>10, <1>11 DEF a, b, L, N

LEMMA WindowSorted ==
  ASSUME NEW s, Fills(s), NEW w \in TimeWindow
  PROVE  Fills(Within(s, w))
<1> DEFINE a == Newer(s, w.hi)
           L == Within(s, w)
<1>1. L \in Seq(Fill) /\ \A n \in 1..Len(L) : L[n] = s[a + n] /\ a + n \in 1..Len(s)
  BY WindowIs
<1>2. a \in Nat
  <2>1. w.hi \in Int /\ s \in Seq(Fill)
    BY DEF TimeWindow, Fills
  <2>2. QED BY <2>1, NewerIs
<1> HIDE DEF a, L
<1>3. ASSUME NEW m \in 1..Len(L), NEW n \in 1..Len(L), m <= n PROVE L[m].ts >= L[n].ts
  <2>1. a + m \in 1..Len(s) /\ a + n \in 1..Len(s) /\ a + m <= a + n
    BY <1>1, <1>2, <1>3
  <2>2. s[a + m].ts >= s[a + n].ts
    BY <2>1 DEF Fills, Sorted
  <2>3. QED BY <1>1, <2>2
<1>4. QED BY <1>1, <1>3 DEF Fills, Sorted, L

LEMMA WindowCovers ==
  ASSUME NEW s, Fills(s), NEW w \in TimeWindow, NEW n \in 1..Len(s),
         w.lo < s[n].ts, s[n].ts <= w.hi
  PROVE  \E k \in 1..Len(Within(s, w)) : Within(s, w)[k] = s[n]
<1> DEFINE a == Newer(s, w.hi)
           b == Newer(s, w.lo)
           L == Within(s, w)
           N == Len(s)
<1>1. w.lo \in Int /\ w.hi \in Int /\ N \in Nat /\ s[n].ts \in Int
  <2>1. s \in Seq(Fill)
    BY DEF Fills
  <2>2. s[n] \in Fill
    BY <2>1
  <2>3. QED BY <2>1, <2>2 DEF TimeWindow, Fill, Seconds
<1>2. a \in 0..N /\ (s[n].ts > w.hi <=> n <= a)
  BY <1>1, NewerIs
<1>3. b \in 0..N /\ (s[n].ts > w.lo <=> n <= b)
  BY <1>1, NewerIs
<1>4. a < n /\ n <= b
  BY <1>1, <1>2, <1>3
<1>5. /\ Len(L) = IF a <= b THEN b - a ELSE 0
      /\ \A k \in 1..Len(L) : L[k] = s[a + k]
  BY WindowIs
<1> HIDE DEF a, b, L, N
<1>6. n - a \in 1..Len(L) /\ a + (n - a) = n
  BY <1>1, <1>2, <1>3, <1>4, <1>5
<1>7. L[n - a] = s[n]
  BY <1>5, <1>6
<1>8. QED BY <1>6, <1>7 DEF L

\* A fill that appears moves nothing up in a window either.
LEMMA WindowGrows ==
  ASSUME NEW s, Fills(s), NEW w \in TimeWindow, NEW x \in Fill
  PROVE  Grew(Within(s, w), Within(Placed(s, x), w), x)
<1> DEFINE t == Placed(s, x)
           N == Len(s)
           c == Newer(s, x.ts)
           a == Newer(s, w.hi)
           b == Newer(s, w.lo)
           d == Newer(t, w.hi)
           e == Newer(t, w.lo)
           L == Within(s, w)
           M == Within(t, w)
<1>1. w.lo \in Int /\ w.hi \in Int /\ x.ts \in Int /\ N \in Nat
      /\ \A n \in 1..N : s[n].ts \in Int
  <2>1. s \in Seq(Fill)
    BY DEF Fills
  <2>2. \A n \in 1..N : s[n] \in Fill
    BY <2>1
  <2>3. QED BY <2>1, <2>2 DEF TimeWindow, Fill, Seconds
<1>2. /\ Fills(t) /\ Len(t) = N + 1
      /\ \A n \in 1..(N + 1) : t[n] = IF n <= c THEN s[n] ELSE IF n = c + 1 THEN x ELSE s[n - 1]
  BY PlacedIs
<1>3. /\ d = a + IF x.ts > w.hi THEN 1 ELSE 0
      /\ e = b + IF x.ts > w.lo THEN 1 ELSE 0
  BY <1>1, NewerShifts
<1>4. /\ c \in 0..N /\ \A n \in 1..N : s[n].ts > x.ts <=> n <= c
      /\ a \in 0..N /\ \A n \in 1..N : s[n].ts > w.hi <=> n <= a
      /\ b \in 0..N /\ \A n \in 1..N : s[n].ts > w.lo <=> n <= b
  BY <1>1, NewerIs
<1>5. /\ Len(L) = IF a <= b THEN b - a ELSE 0
      /\ \A k \in 1..Len(L) : L[k] = s[a + k]
  BY WindowIs
<1>6. /\ Len(M) = IF d <= e THEN e - d ELSE 0
      /\ \A k \in 1..Len(M) : M[k] = t[d + k] /\ d + k \in 1..Len(t)
  BY <1>2, WindowIs
<1> HIDE DEF t, N, c, a, b, d, e, L, M
<1>7. ASSUME NEW h \in Int, NEW i \in 0..N, \A n \in 1..N : s[n].ts > h <=> n <= i
      PROVE  (x.ts > h => c <= i) /\ (~(x.ts > h) => i <= c)
  <2>1. ASSUME x.ts > h, c > i PROVE FALSE
    <3>1. c \in 1..N
      BY <1>4, <2>1
    <3>2. s[c].ts > x.ts /\ s[c].ts \in Int
      BY <1>1, <1>4, <3>1
    <3>3. s[c].ts > h
      BY <1>1, <2>1, <3>2
    <3>4. QED BY <1>4, <1>7, <2>1, <3>1, <3>3
  <2>2. ASSUME ~(x.ts > h), i > c PROVE FALSE
    <3>1. i \in 1..N
      BY <1>4, <2>2
    <3>2. s[i].ts > h /\ s[i].ts \in Int
      BY <1>1, <1>7, <3>1
    <3>3. s[i].ts > x.ts
      BY <1>1, <2>2, <3>2
    <3>4. QED BY <1>4, <2>2, <3>1, <3>3
  <2>3. QED BY <1>4, <2>1, <2>2
<1>8. /\ (x.ts > w.hi => c <= a) /\ (~(x.ts > w.hi) => a <= c)
      /\ (x.ts > w.lo => c <= b) /\ (~(x.ts > w.lo) => b <= c)
  BY <1>1, <1>4, <1>7
<1>9. ASSUME NEW n \in 1..Len(M), M[n] # x
      PROVE  \E m \in 1..Len(L) : m <= n /\ M[n] = L[m]
  <2>1. d + n \in 1..(N + 1) /\ M[n] = t[d + n] /\ n \in Nat /\ n >= 1 /\ d <= e /\ n <= e - d
    BY <1>2, <1>3, <1>4, <1>6
  <2>2. CASE x.ts > w.hi
    <3>1. d = a + 1 /\ c <= a /\ e <= b + 1
      BY <1>3, <1>4, <1>8, <2>2
    <3>2. n \in 1..Len(L)
      <4>1. e \in Int /\ a \in Int /\ b \in Int
        BY <1>3, <1>4
      <4>2. n <= b - a /\ a <= b
        BY <2>1, <3>1, <4>1
      <4>3. Len(L) = b - a
        BY <1>5, <4>2
      <4>4. QED BY <2>1, <4>1, <4>2, <4>3
    <3>3. t[d + n] = s[d + n - 1] /\ d + n - 1 = a + n
      BY <1>1, <1>2, <1>4, <2>1, <3>1
    <3>4. M[n] = L[n] /\ n <= n
      BY <1>5, <2>1, <3>2, <3>3
    <3>5. QED BY <3>2, <3>4
  <2>3. CASE ~(x.ts > w.hi) /\ a + n <= c
    <3>1. d = a /\ a <= c
      BY <1>3, <1>4, <1>8, <2>3
    <3>2. a + n <= b
      <4>1. CASE x.ts > w.lo
        BY <1>4, <1>8, <2>1, <2>3, <4>1
      <4>2. CASE ~(x.ts > w.lo)
        BY <1>3, <1>4, <2>1, <3>1, <4>2
      <4>3. QED BY <4>1, <4>2
    <3>3. n \in 1..Len(L)
      BY <1>4, <1>5, <2>1, <3>2
    <3>4. M[n] = s[a + n]
      BY <1>1, <1>2, <1>4, <2>1, <2>3, <3>1
    <3>5. M[n] = L[n] /\ n <= n
      BY <1>5, <2>1, <3>3, <3>4
    <3>6. QED BY <3>3, <3>5
  <2>4. CASE ~(x.ts > w.hi) /\ ~(a + n <= c)
    <3>1. d = a /\ a <= c /\ e <= b + 1
      BY <1>3, <1>4, <1>8, <2>4
    <3>2. a + n # c + 1
      BY <1>2, <1>4, <1>9, <2>1, <2>4, <3>1
    <3>3. a + n > c + 1 /\ n - 1 \in Nat /\ n - 1 >= 1
      BY <1>4, <2>1, <2>4, <3>1, <3>2
    <3>4. n - 1 \in 1..Len(L) /\ n - 1 <= n
      BY <1>3, <1>4, <1>5, <2>1, <3>1, <3>3
    <3>5. t[a + n] = s[a + n - 1] /\ a + n - 1 = a + (n - 1)
      BY <1>1, <1>2, <1>4, <2>1, <3>1, <3>3
    <3>6. M[n] = L[n - 1]
      BY <1>5, <2>1, <3>1, <3>4, <3>5
    <3>7. QED BY <3>4, <3>6
  <2>5. QED BY <2>2, <2>3, <2>4
<1>10. QED BY <1>9 DEF Grew, L, M, t

\* What the API lists for a run that asks with r's window.
ListOf(s, r) == IF r.window = None \/ ~r.honored THEN s ELSE Within(s, r.window)
InWindow(r, f) == r.window = None \/ (r.window.lo < f.ts /\ f.ts <= r.window.hi)

LEMMA ListOfIs ==
  ASSUME NEW s, Fills(s), NEW r \in Sync
  PROVE  /\ Fills(ListOf(s, r))
         /\ \A n \in 1..Len(s) : InWindow(r, s[n]) =>
              \E k \in 1..Len(ListOf(s, r)) : ListOf(s, r)[k] = s[n]
<1>1. CASE r.window = None \/ ~r.honored
  <2>1. ListOf(s, r) = s
    BY <1>1 DEF ListOf
  <2>2. QED BY <2>1
<1>2. CASE ~(r.window = None \/ ~r.honored)
  <2> DEFINE w == r.window
  <2>1. w \in TimeWindow
    BY <1>2 DEF Sync
  <2>2. ListOf(s, r) = Within(s, w)
    BY <1>2 DEF ListOf
  <2>3. \A n \in 1..Len(s) : InWindow(r, s[n]) => w.lo < s[n].ts /\ s[n].ts <= w.hi
    BY <1>2 DEF InWindow
  <2> HIDE DEF w
  <2>4. QED BY <2>1, <2>2, <2>3, WindowSorted, WindowCovers
<1>3. QED BY <1>1, <1>2

LEMMA ListOfGrows ==
  ASSUME NEW s, Fills(s), NEW r \in Sync, NEW x \in Fill
  PROVE  Grew(ListOf(s, r), ListOf(Placed(s, x), r), x)
<1>1. CASE r.window = None \/ ~r.honored
  BY <1>1, FeedGrows DEF ListOf
<1>2. CASE ~(r.window = None \/ ~r.honored)
  <2> DEFINE w == r.window
  <2>1. w \in TimeWindow
    BY <1>2 DEF Sync
  <2>2. ListOf(s, r) = Within(s, w) /\ ListOf(Placed(s, x), r) = Within(Placed(s, x), w)
    BY <1>2 DEF ListOf
  <2> HIDE DEF w
  <2>3. QED BY <2>1, <2>2, WindowGrows
<1>3. QED BY <1>1, <1>2

\* The page behind the first o of a list.
Page(L, o) == SubSeq(L, o + 1, Min({o + PageLimit, Len(L)}))

LEMMA PageIs ==
  ASSUME NEW L, Fills(L), NEW o \in Nat
  PROVE  /\ Page(L, o) \in Seq(Fill) /\ Len(Page(L, o)) <= PageLimit
         /\ \A i \in 1..Len(Page(L, o)) : Page(L, o)[i] = L[o + i] /\ o + i \in 1..Len(L)
         /\ Len(Page(L, o)) < PageLimit => Len(L) <= o + Len(Page(L, o))
<1> DEFINE N == Len(L)
           e == Min({o + PageLimit, N})
           p == Page(L, o)
           c == o + 1
<1>1. PageLimit \in Nat /\ PageLimit >= 2
  BY SyncAssumption
<1>2. L \in Seq(Fill) /\ N \in Nat /\ \A i \in 1..N : L[i] \in Fill
  BY DEF Fills
<1>3. e \in Int /\ (e = N \/ e = o + PageLimit) /\ e <= N /\ e <= o + PageLimit
  <2> DEFINE S == {o + PageLimit, N}
  <2>1. o + PageLimit \in Int /\ N \in Int
    BY <1>1, <1>2
  <2>2. CASE o + PageLimit <= N
    <3>1. S \in SUBSET Int /\ o + PageLimit \in S /\ \A k \in S : o + PageLimit <= k
      BY <2>1, <2>2
    <3> DEFINE m == o + PageLimit
    <3>2. m \in S /\ \A k \in S : m <= k
      BY <3>1
    <3> HIDE DEF m, S
    <3>3. Min(S) = m
      BY <3>1, <3>2, LeastIs
    <3>4. QED BY <2>1, <2>2, <3>3 DEF m, S
  <2>3. CASE N < o + PageLimit
    <3>1. S \in SUBSET Int /\ N \in S /\ \A k \in S : N <= k
      BY <2>1, <2>3
    <3> HIDE DEF S
    <3>2. Min(S) = N
      BY <3>1, LeastIs
    <3>3. QED BY <2>1, <2>3, <3>2 DEF S
  <2>4. QED BY <2>1, <2>2, <2>3
<1>4. p = SubSeq(L, c, e)
  BY DEF Page
<1> HIDE DEF N, e, p
<1>5. c \in Int /\ \A i \in c..e : L[i] \in Fill
  BY <1>2, <1>3
<1> HIDE DEF c
<1>6. /\ SubSeq(L, c, e) \in Seq(Fill)
      /\ Len(SubSeq(L, c, e)) = IF c <= e THEN e - c + 1 ELSE 0
      /\ \A i \in 1..(e - c + 1) : SubSeq(L, c, e)[i] = L[c + i - 1]
  BY <1>3, <1>5, SubSeqProperties
<1>7. c = o + 1
  BY DEF c
<1>8. p \in Seq(Fill) /\ Len(p) = IF o + 1 <= e THEN e - o ELSE 0
  BY <1>3, <1>4, <1>6, <1>7
<1>9. ASSUME NEW i \in 1..Len(p) PROVE p[i] = L[o + i] /\ o + i \in 1..N
  <2>1. i \in 1..(e - c + 1) /\ c + i - 1 = o + i /\ o + i <= e
    BY <1>3, <1>7, <1>8
  <2>2. QED BY <1>2, <1>3, <1>4, <1>6, <2>1
<1>10. Len(p) <= PageLimit /\ (Len(p) < PageLimit => N <= o + Len(p))
  BY <1>1, <1>2, <1>3, <1>8
<1>11. QED BY <1>8, <1>9, <1>10 DEF N, p

\* The first fill of a page is its newest, the last its oldest.
LEMMA EndsOfPage ==
  ASSUME NEW p, Fills(p), p # <<>>
  PROVE  /\ Newest(p) = p[1].ts /\ Oldest(p) = p[Len(p)].ts
         /\ Newest(p) \in Seconds /\ Oldest(p) \in Seconds
         /\ Len(p) >= 1
<1>1. p \in Seq(Fill) /\ Len(p) \in Nat /\ Len(p) >= 1
  BY DEF Fills
<1>2. \A n \in 1..Len(p) : p[n].ts \in Seconds
  <2>1. \A n \in 1..Len(p) : p[n] \in Fill
    BY <1>1
  <2>2. QED BY <2>1 DEF Fill
<1> DEFINE N == Len(p)
           S == Stamps(p)
<1>3. S \in SUBSET Int /\ p[1].ts \in S /\ p[N].ts \in S
  BY <1>1, <1>2 DEF Stamps, Seconds
<1>4. \A k \in S : k <= p[1].ts /\ p[N].ts <= k
  <2> SUFFICES ASSUME NEW n \in 1..N PROVE p[n].ts <= p[1].ts /\ p[N].ts <= p[n].ts
    BY DEF Stamps
  <2>1. 1 \in 1..N /\ N \in 1..N /\ 1 <= n /\ n <= N
    BY <1>1
  <2>2. p[1].ts >= p[n].ts /\ p[n].ts >= p[N].ts
    BY <2>1 DEF Fills, Sorted
  <2>3. p[1].ts \in Int /\ p[n].ts \in Int /\ p[N].ts \in Int
    BY <1>2, <2>1 DEF Seconds
  <2>4. QED BY <2>2, <2>3
<1> DEFINE u == p[1].ts
           v == p[N].ts
<1>5. u \in S /\ v \in S /\ (\A k \in S : k <= u) /\ (\A k \in S : v <= k)
  BY <1>3, <1>4
<1> HIDE DEF S, u, v
<1>6. Max(S) = u /\ Min(S) = v
  BY <1>3, <1>5, GreatestIs, LeastIs
<1>7. u \in Seconds /\ v \in Seconds
  BY <1>1, <1>2 DEF u, v
<1>8. QED BY <1>1, <1>6, <1>7 DEF Newest, Oldest, S, u, v

\* The identities that are kept are the new ones.
Keeps(ids, f, m) ==
  f = [n \in 0..m |-> IF n = 0 THEN <<>>
                      ELSE IF ids[n] \in keys THEN f[n - 1] ELSE Append(f[n - 1], ids[n])]

LEMMA KeeperIs ==
  ASSUME NEW ids, NEW m \in Nat, NEW f, Keeps(ids, f, m), NEW n \in 0..m
  PROVE  f[n] = IF n = 0 THEN <<>>
                ELSE IF ids[n] \in keys THEN f[n - 1] ELSE Append(f[n - 1], ids[n])
<1> DEFINE g == [i \in 0..m |-> IF i = 0 THEN <<>>
                      ELSE IF ids[i] \in keys THEN f[i - 1] ELSE Append(f[i - 1], ids[i])]
<1>1. f = g
  BY DEF Keeps
<1>2. g[n] = IF n = 0 THEN <<>>
             ELSE IF ids[n] \in keys THEN f[n - 1] ELSE Append(f[n - 1], ids[n])
  OBVIOUS
<1> HIDE DEF g
<1>3. QED BY <1>1, <1>2

LEMMA KeeperIsThere ==
  ASSUME NEW ids, NEW m \in Nat PROVE \E f : Keeps(ids, f, m)
<1> DEFINE T == {i \in Nat : ~\E f : Keeps(ids, f, i)}
<1> SUFFICES ASSUME ~\E f : Keeps(ids, f, m) PROVE FALSE
  OBVIOUS
<1>1. T \in SUBSET Nat /\ m \in T
  OBVIOUS
<1>2. PICK k \in T : \A j \in T : k <= j
  <2> HIDE DEF T
  <2>1. QED BY <1>1, LeastNumber
<1>3. k \in Nat /\ ~\E f : Keeps(ids, f, k)
  BY <1>2
<1>4. CASE k = 0
  <2> DEFINE f == [n \in 0..0 |-> <<>>]
  <2>1. Keeps(ids, f, 0)
    BY DEF Keeps
  <2>2. QED BY <1>3, <1>4, <2>1
<1>5. CASE k # 0
  <2>1. k - 1 \in Nat /\ k - 1 \notin T
    BY <1>2, <1>3, <1>5
  <2>2. PICK f : Keeps(ids, f, k - 1)
    BY <2>1
  <2> DEFINE g == [n \in 0..k |-> IF n < k THEN f[n]
                    ELSE IF ids[k] \in keys THEN f[k - 1] ELSE Append(f[k - 1], ids[k])]
  <2>3. ASSUME NEW n \in 0..k
        PROVE  g[n] = IF n = 0 THEN <<>>
                      ELSE IF ids[n] \in keys THEN g[n - 1] ELSE Append(g[n - 1], ids[n])
    <3>1. CASE n = 0
      <4>1. g[n] = f[n] /\ n \in 0..(k - 1)
        BY <1>3, <1>5, <3>1
      <4> HIDE DEF g
      <4>2. f[n] = <<>>
        BY <2>1, <2>2, <3>1, <4>1, KeeperIs
      <4>3. QED BY <3>1, <4>1, <4>2
    <3>2. CASE n # 0 /\ n < k
      <4>1. g[n] = f[n] /\ g[n - 1] = f[n - 1] /\ n \in 0..(k - 1)
        BY <1>3, <3>2
      <4> HIDE DEF g
      <4>2. f[n] = IF ids[n] \in keys THEN f[n - 1] ELSE Append(f[n - 1], ids[n])
        BY <2>1, <2>2, <3>2, <4>1, KeeperIs
      <4>3. QED BY <3>2, <4>1, <4>2
    <3>3. CASE n = k
      <4>1. g[k - 1] = f[k - 1]
        BY <1>3, <1>5
      <4>2. g[k] = IF ids[k] \in keys THEN f[k - 1] ELSE Append(f[k - 1], ids[k])
        BY <1>3
      <4> HIDE DEF g
      <4>3. QED BY <1>5, <3>3, <4>1, <4>2
    <3>4. QED BY <1>3, <3>1, <3>2, <3>3
  <2>4. g = [n \in 0..k |-> g[n]]
    OBVIOUS
  <2> HIDE DEF g
  <2>5. Keeps(ids, g, k)
    BY <2>3, <2>4 DEF Keeps
  <2>6. QED BY <1>3, <2>5
<1>6. QED BY <1>4, <1>5

LEMMA FilterNewIs ==
  ASSUME NEW ids \in Seq(Ids)
  PROVE  FilterNew(ids) \in Seq(Ids) /\ Range(FilterNew(ids)) = Range(ids) \ keys
<1> DEFINE N == Len(ids)
           k == CHOOSE f : Keeps(ids, f, N)
           Good(i) == k[i] \in Seq(Ids) /\ Range(k[i]) = {ids[j] : j \in 1..i} \ keys
           T == {i \in Nat : i <= N /\ ~Good(i)}
<1>1. N \in Nat /\ \A i \in 1..N : ids[i] \in Ids
  OBVIOUS
<1>2. Keeps(ids, k, N)
  <2>1. \E f : Keeps(ids, f, N)
    BY <1>1, KeeperIsThere
  <2>2. QED BY <2>1
<1>3. FilterNew(ids) = k[N]
  BY DEF FilterNew, Keeps
<1> HIDE DEF k
<1>4. ASSUME NEW n \in T PROVE FALSE
  <2>1. PICK i \in T : \A j \in T : i <= j
    <3>1. T \in SUBSET Nat /\ n \in T
      OBVIOUS
    <3> HIDE DEF T
    <3>2. QED BY <3>1, LeastNumber
  <2>2. i \in Nat /\ i <= N /\ i \in 0..N /\ ~Good(i)
    BY <1>1, <2>1
  <2>3. k[i] = IF i = 0 THEN <<>>
               ELSE IF ids[i] \in keys THEN k[i - 1] ELSE Append(k[i - 1], ids[i])
    BY <1>1, <1>2, <2>2, KeeperIs
  <2>4. CASE i = 0
    <3>1. k[i] = <<>> /\ <<>> \in Seq(Ids)
      BY <2>3, <2>4
    <3>2. Range(<<>>) = {}
      BY DEF Range
    <3>3. 1..i = {}
      BY <2>4
    <3>4. QED BY <2>2, <3>1, <3>2, <3>3
  <2>5. CASE i # 0
    <3> DEFINE p == k[i - 1]
               y == ids[i]
    <3>1. i - 1 \in Nat /\ i - 1 <= N /\ i - 1 \notin T /\ i \in 1..N
      <4> HIDE DEF T, Good
      <4>1. i - 1 \in Nat /\ i - 1 <= N /\ i \in 1..N /\ ~(i <= i - 1)
        BY <1>1, <2>2, <2>5
      <4>2. i - 1 \notin T
        BY <2>1, <4>1
      <4>3. QED BY <4>1, <4>2
    <3>2. p \in Seq(Ids) /\ Range(p) = {ids[j] : j \in 1..(i - 1)} \ keys
      BY <3>1
    <3>3. 1..i = 1..(i - 1) \cup {i}
      BY <2>2, <2>5
    <3>4. {ids[j] : j \in 1..i} = {ids[j] : j \in 1..(i - 1)} \cup {y}
      BY <3>3
    <3>5. y \in Ids
      BY <1>1, <3>1
    <3>6. k[i] = IF y \in keys THEN p ELSE Append(p, y)
      BY <2>3, <2>5
    <3> HIDE DEF p, y, T
    <3>7. CASE y \in keys
      BY <2>2, <3>2, <3>4, <3>6, <3>7
    <3>8. CASE y \notin keys
      <4>1. /\ Append(p, y) \in Seq(Ids) /\ Len(Append(p, y)) = Len(p) + 1
            /\ \A j \in 1..(Len(p) + 1) : Append(p, y)[j] = IF j <= Len(p) THEN p[j] ELSE y
        BY <3>2, <3>5, AppendProperties
      <4>2. Range(Append(p, y)) = Range(p) \cup {y}
        <5> DEFINE a == Append(p, y)
        <5>1. Len(p) \in Nat /\ DOMAIN p = 1..Len(p) /\ DOMAIN a = 1..(Len(p) + 1)
          BY <3>2, <4>1
        <5> HIDE DEF a
        <5>2. \A j \in 1..(Len(p) + 1) : a[j] = IF j <= Len(p) THEN p[j] ELSE y
          BY <4>1 DEF a
        <5>3. a[Len(p) + 1] = y
          BY <5>1, <5>2
        <5>4. \A j \in 1..Len(p) : a[j] = p[j] /\ j \in 1..(Len(p) + 1)
          BY <5>1, <5>2
        <5>5. Range(a) \subseteq Range(p) \cup {y}
          BY <5>1, <5>2 DEF Range
        <5>6. y \in Range(a) /\ Range(p) \subseteq Range(a)
          BY <5>1, <5>3, <5>4 DEF Range
        <5>7. QED BY <5>5, <5>6 DEF a
      <4>3. k[i] = Append(p, y)
        BY <3>6, <3>8
      <4>4. QED BY <2>2, <3>2, <3>4, <3>8, <4>1, <4>2, <4>3
    <3>9. QED BY <3>7, <3>8
  <2>6. QED BY <2>4, <2>5
<1>5. Good(N)
  <2>1. N \notin T
    <3> HIDE DEF T
    <3>1. QED BY <1>4
  <2> HIDE DEF Good
  <2>2. QED BY <1>1, <2>1
<1>6. Range(ids) = {ids[j] : j \in 1..N}
  BY DEF Range
<1>7. QED BY <1>3, <1>5, <1>6

(***************************************************************************)
(* What the steps do                                                       *)
(***************************************************************************)

RawFile == [whole : [Ids -> Nat], glued : [Ids -> Nat], torn : BOOLEAN]

TypeInv ==
  /\ Fills(feed) /\ Len(feed) <= MaxFills
  /\ raw \in RawFile /\ keys \in SUBSET Ids /\ cursor \in Nat
  /\ pc \in Steps \cup {"idle", "between"} /\ run \in Sync
  /\ run.earliest \in {0} \cup Seconds /\ Fills(run.page)
  /\ backfill \in Backfill \cup {None}

Has(file, id) == file.whole[id] + file.glued[id]

LEMMA Assumed ==
  /\ PageLimit \in Nat /\ PageLimit >= 2 /\ MaxOffset \in Nat /\ ApiCap \in Nat
  /\ Margin \in Nat /\ Delay \in Nat /\ Delay <= Margin /\ MaxTime \in Nat /\ MaxFills \in Nat
  /\ Windows \subseteq TimeWindow /\ None \notin TimeWindow /\ None \notin Backfill
<1>1. /\ PageLimit \in Nat /\ PageLimit >= 2 /\ MaxOffset \in Nat /\ ApiCap \in Nat
      /\ Margin \in Nat /\ Delay \in Nat /\ Delay <= Margin /\ MaxTime \in Nat /\ MaxFills \in Nat
  BY SyncAssumption
<1>2. Windows \subseteq TimeWindow
  BY <1>1, SyncAssumption DEF TimeWindow
<1>3. None \notin TimeWindow /\ None \notin Backfill
  BY SyncAssumption
<1>4. QED BY <1>1, <1>2, <1>3

\* A write adds one copy of what it writes, and changes nothing else.
LEMMA WrittenIs ==
  ASSUME NEW file \in RawFile, NEW ids \in Seq(Ids)
  PROVE  /\ Written(file, ids) \in RawFile
         /\ \A id \in Ids : Has(Written(file, ids), id) =
              Has(file, id) + IF id \in Range(ids) THEN 1 ELSE 0
<1> DEFINE shared == IF file.torn /\ ids # <<>> THEN {ids[1]} ELSE {}
           whole == [id \in Ids |-> file.whole[id] + IF id \in Range(ids) \ shared THEN 1 ELSE 0]
           glued == [id \in Ids |-> file.glued[id] + IF id \in shared THEN 1 ELSE 0]
<1>1. Written(file, ids) = [whole |-> whole, glued |-> glued, torn |-> file.torn /\ ids = <<>>]
  BY DEF Written
<1>2. file.whole \in [Ids -> Nat] /\ file.glued \in [Ids -> Nat] /\ file.torn \in BOOLEAN
  BY DEF RawFile
<1>3. shared \subseteq Range(ids)
  <2>1. CASE file.torn /\ ids # <<>>
    <3>1. 1 \in DOMAIN ids
      BY <2>1
    <3>2. QED BY <2>1, <3>1 DEF Range
  <2>2. QED BY <2>1
<1> HIDE DEF shared
<1>4. \A id \in Ids : /\ whole[id] = file.whole[id] + IF id \in Range(ids) \ shared THEN 1 ELSE 0
                      /\ glued[id] = file.glued[id] + IF id \in shared THEN 1 ELSE 0
  OBVIOUS
<1>5. whole \in [Ids -> Nat] /\ glued \in [Ids -> Nat]
  BY <1>2
<1> HIDE DEF whole, glued
<1>6. Written(file, ids) \in RawFile
  BY <1>1, <1>2, <1>5 DEF RawFile
<1>7. ASSUME NEW id \in Ids
      PROVE  whole[id] + glued[id] = file.whole[id] + file.glued[id] + IF id \in Range(ids) THEN 1 ELSE 0
  <2>1. file.whole[id] \in Nat /\ file.glued[id] \in Nat
    BY <1>2
  <2>2. QED BY <1>3, <1>4, <2>1
<1>8. QED BY <1>1, <1>6, <1>7 DEF Has

LEMMA CutAfterIs ==
  ASSUME NEW file \in RawFile, NEW ids \in Seq(Ids), NEW n \in 0..Len(ids),
         NEW f \in CutAfter(file, ids, n)
  PROVE  /\ f \in RawFile
         /\ \A id \in Ids : id \notin Range(ids) => Has(f, id) = Has(file, id)
<1> DEFINE u == SubSeq(ids, 1, n)
           w == Written(file, u)
<1>1. u \in Seq(Ids) /\ Range(u) \subseteq Range(ids)
  <2>1. n \in Nat /\ n <= Len(ids) /\ \A i \in 1..n : ids[i] \in Ids
    OBVIOUS
  <2>2. /\ u \in Seq(Ids) /\ Len(u) = (IF 1 <= n THEN n - 1 + 1 ELSE 0)
        /\ \A i \in 1..(n - 1 + 1) : u[i] = ids[1 + i - 1]
    BY <2>1, SubSeqProperties
  <2> HIDE DEF u
  <2>3. DOMAIN u = 1..Len(u) /\ \A i \in 1..Len(u) : u[i] = ids[i] /\ i \in DOMAIN ids
    BY <2>1, <2>2
  <2>4. QED BY <2>2, <2>3 DEF Range
<1> HIDE DEF u
<1>2. /\ w \in RawFile
      /\ \A id \in Ids : Has(w, id) = Has(file, id) + IF id \in Range(u) THEN 1 ELSE 0
  BY <1>1, WrittenIs
<1>3. \A id \in Ids : Has(file, id) \in Nat
  BY DEF RawFile, Has
<1>4. f = w \/ f = [w EXCEPT !.torn = TRUE]
  BY DEF CutAfter, u
<1> HIDE DEF w
<1>5. f \in RawFile /\ f.whole = w.whole /\ f.glued = w.glued
  BY <1>2, <1>4 DEF RawFile
<1>6. \A id \in Ids : Has(f, id) = Has(w, id)
  BY <1>5 DEF Has
<1>7. QED BY <1>1, <1>2, <1>3, <1>5, <1>6

LEMMA NoRunIs ==
  /\ NoRun \in Sync /\ NoRun.page = <<>> /\ NoRun.fresh = <<>> /\ NoRun.offset = 0
  /\ NoRun.earliest = 0 /\ NoRun.latest = 0 /\ NoRun.known = 0 /\ NoRun.from = 0
  /\ NoRun.full = FALSE /\ NoRun.window = None
<1>1. <<>> \in Seq(Fill) /\ <<>> \in Seq(Ids)
  OBVIOUS
<1>2. QED BY <1>1 DEF NoRun, Sync

\* A sync that begins has read nothing.
Begun(full, window) ==
  /\ run' \in Sync /\ run'.full = full /\ run'.window = window
  /\ run'.from = cursor /\ run'.known = Len(feed) /\ run'.offset = 0
  /\ run'.earliest = 0 /\ run'.latest = 0 /\ run'.page = <<>> /\ run'.fresh = <<>>
  /\ row' = "running" /\ pc' = "fetch"

LEMMA BeginIs ==
  ASSUME TypeInv, NEW full \in BOOLEAN, NEW window \in TimeWindow \cup {None},
         NEW honored \in BOOLEAN, Begin(full, window, honored)
  PROVE  Begun(full, window)
<1>1. run' = [NoRun EXCEPT !.full = full, !.window = window, !.honored = honored,
                          !.from = cursor, !.known = Len(feed)]
  BY DEF Begin
<1>2. cursor \in Nat /\ Len(feed) \in Nat
  BY DEF TypeInv, Fills
<1>3. /\ NoRun \in Sync /\ NoRun.offset = 0 /\ NoRun.earliest = 0 /\ NoRun.latest = 0
      /\ NoRun.page = <<>> /\ NoRun.fresh = <<>>
  BY NoRunIs
<1>4. run' \in Sync
  BY <1>1, <1>2, <1>3 DEF Sync
<1>5. /\ run'.full = full /\ run'.window = window /\ run'.from = cursor
      /\ run'.known = Len(feed) /\ run'.offset = 0 /\ run'.earliest = 0 /\ run'.latest = 0
      /\ run'.page = <<>> /\ run'.fresh = <<>>
  BY <1>1, <1>3 DEF Sync
<1>6. QED BY <1>4, <1>5 DEF Begin, Begun

\* The time a sync leaves in the cursor.
Horizon(r) == IF r.latest > r.from THEN r.latest ELSE r.from

Finished(status, r) ==
  /\ run' \in Sync /\ run'.full = r.full /\ run'.window = r.window
  /\ run'.known = r.known /\ run'.earliest = r.earliest
  /\ run'.page = <<>> /\ run'.fresh = <<>>
  /\ cursor' = IF r.latest > r.from THEN r.latest ELSE cursor
  /\ row' = status
  /\ pc' = IF backfill = None THEN "idle" ELSE "between"
  /\ unbroken' => /\ r.window = None /\ status # "offset_limit_reached"
                  /\ unbroken \/ (r.full /\ status \in {"complete", "empty"})

LEMMA FinishIs ==
  ASSUME NEW r \in Sync, NEW status, Finish(status, r)
  PROVE  Finished(status, r)
<1>1. run' = [NoRun EXCEPT !.full = r.full, !.window = r.window,
                          !.known = r.known, !.earliest = r.earliest]
  BY DEF Finish
<1>2. NoRun \in Sync /\ NoRun.page = <<>> /\ NoRun.fresh = <<>>
  BY NoRunIs
<1>3. run' \in Sync
  BY <1>1, <1>2 DEF Sync
<1>4. /\ run'.full = r.full /\ run'.window = r.window /\ run'.known = r.known
      /\ run'.earliest = r.earliest /\ run'.page = <<>> /\ run'.fresh = <<>>
  BY <1>1, <1>2 DEF Sync
<1>5. unbroken' => /\ r.window = None /\ status # "offset_limit_reached"
                   /\ unbroken \/ (r.full /\ status \in {"complete", "empty"})
  BY DEF Finish
<1>6. QED BY <1>3, <1>4, <1>5 DEF Finish, Finished

\* A page that was received: what of it is new, how far back and how far up
\* the run has seen.
SeenPage(q, r, page) ==
  /\ q \in Sync /\ q.full = r.full /\ q.window = r.window /\ q.honored = r.honored
  /\ q.from = r.from /\ q.offset = r.offset /\ q.known = r.known /\ q.page = page
  /\ Range(q.fresh) = {page[n].id : n \in 1..Len(page)} \ keys
  /\ page = <<>> => q.earliest = r.earliest /\ q.latest = r.latest
  /\ page # <<>> =>
       /\ q.earliest \in Seconds /\ q.earliest <= Oldest(page)
       /\ q.earliest = Oldest(page) \/ q.earliest = r.earliest
       /\ r.earliest # 0 => q.earliest <= r.earliest
       /\ q.latest >= r.latest /\ q.latest >= Newest(page)
       /\ q.latest = Newest(page) \/ q.latest = r.latest

LEMMA SeenIs ==
  ASSUME NEW r \in Sync, NEW page, Fills(page),
         r.earliest = 0 \/ r.earliest \in Seconds
  PROVE  SeenPage(Seen(r, page), r, page)
<1> DEFINE q == Seen(r, page)
<1>1. page \in Seq(Fill)
  BY DEF Fills
<1>2. CASE page = <<>>
  <2>1. q = [r EXCEPT !.page = page, !.fresh = <<>>]
    BY <1>2 DEF Seen
  <2>2. <<>> \in Seq(Ids)
    OBVIOUS
  <2>3. q \in Sync
    BY <1>1, <2>1, <2>2 DEF Sync
  <2>4. /\ q.full = r.full /\ q.window = r.window /\ q.honored = r.honored
        /\ q.from = r.from /\ q.offset = r.offset /\ q.known = r.known /\ q.page = page
        /\ q.fresh = <<>> /\ q.earliest = r.earliest /\ q.latest = r.latest
    BY <2>1 DEF Sync
  <2>5. Range(<<>>) = {} /\ 1..Len(page) = {}
    <3>1. Range(<<>>) = {}
      BY DEF Range
    <3>2. Len(page) = 0
      BY <1>2
    <3>3. QED BY <3>1, <3>2
  <2>6. Range(q.fresh) = {page[n].id : n \in 1..Len(page)} \ keys
    BY <2>4, <2>5
  <2> HIDE DEF q
  <2>7. QED BY <1>2, <2>3, <2>4, <2>6 DEF SeenPage, q
<1>3. CASE page # <<>>
  <2> DEFINE ids == IdsOf(page)
             early == IF r.earliest = 0 \/ Oldest(page) < r.earliest THEN Oldest(page) ELSE r.earliest
             late == IF Newest(page) > r.latest THEN Newest(page) ELSE r.latest
             new == FilterNew(ids)
  <2>1. q = [r EXCEPT !.page = page, !.fresh = new, !.earliest = early, !.latest = late]
    BY <1>3 DEF Seen
  <2>2. ids \in Seq(Ids) /\ Range(ids) = {page[n].id : n \in 1..Len(page)}
    <3>1. \A n \in 1..Len(page) : page[n] \in Fill
      BY <1>1
    <3>2. \A n \in 1..Len(page) : page[n].id \in Ids
      BY <3>1 DEF Fill
    <3>3. ids = [n \in 1..Len(page) |-> page[n].id] /\ Len(page) \in Nat
      BY <1>1 DEF IdsOf
    <3> HIDE DEF ids
    <3>4. QED BY <3>2, <3>3 DEF Range
  <2> HIDE DEF ids
  <2>3. new \in Seq(Ids) /\ Range(new) = Range(ids) \ keys
    BY <2>2, FilterNewIs
  <2>4. Newest(page) \in Seconds /\ Oldest(page) \in Seconds
    BY <1>3, EndsOfPage
  <2>5. r.earliest \in Nat /\ r.latest \in Nat
    BY DEF Sync
  <2>6. /\ early \in Seconds /\ early <= Oldest(page) /\ (early = Oldest(page) \/ early = r.earliest)
        /\ r.earliest # 0 => early <= r.earliest
    BY <2>4, <2>5 DEF Seconds
  <2>7. /\ late \in Nat /\ late >= r.latest /\ late >= Newest(page)
        /\ late = Newest(page) \/ late = r.latest
    BY <2>4, <2>5 DEF Seconds
  <2> HIDE DEF early, late, new, q
  <2>8. q \in Sync
    <3>1. early \in Nat
      BY <2>6 DEF Seconds
    <3>2. QED BY <1>1, <2>1, <2>3, <2>7, <3>1 DEF Sync
  <2>9. /\ q.full = r.full /\ q.window = r.window /\ q.honored = r.honored
        /\ q.from = r.from /\ q.offset = r.offset /\ q.known = r.known /\ q.page = page
        /\ q.fresh = new /\ q.earliest = early /\ q.latest = late
    BY <2>1 DEF Sync
  <2>10. QED BY <1>3, <2>2, <2>3, <2>6, <2>7, <2>8, <2>9 DEF SeenPage, q
<1>4. QED BY <1>2, <1>3

(***************************************************************************)
(* The inductive invariant                                                 *)
(***************************************************************************)

\* The statements between a page's receipt and the decision it ends in.
Reading == pc \in {"append", "register", "decide"}
Done(id) == id \in keys \/ (pc \in {"append", "register"} /\ id \in Range(run.fresh))
ReadTo == run.offset + IF Reading THEN Len(run.page) ELSE 0
Reached(ts) == ts = 0 \/ (feed # <<>> /\ ts <= feed[1].ts)

\* Every identity that was given is in the feed.
IdsListed ==
  /\ \A id \in 1..Len(feed) : \E n \in 1..Len(feed) : feed[n].id = id
  /\ run.known <= Len(feed)
  /\ backfill # None => backfill.known <= Len(feed)

NoDoubles ==
  \A id \in Ids \ cut : /\ Has(raw, id) <= 1
                        /\ Has(raw, id) = 1 => \/ id \in keys
                                               \/ pc = "register" /\ id \in Range(run.fresh)

FreshIsNew == pc \in {"append", "register"} => Range(run.fresh) \cap keys = {}

RunInv ==
  pc \in Steps =>
    /\ run.from = cursor /\ Reached(run.latest)
    /\ run.offset > 0 => run.earliest # 0
    /\ Reading => Len(run.page) <= PageLimit
    /\ Reading /\ run.page # <<>> => run.earliest # 0 /\ run.earliest <= Oldest(run.page)

PagesInv ==
  pc \in Steps =>
    \A n \in 1..Len(ListOf(feed, run)) :
      LET f == ListOf(feed, run)[n] IN
      f.id <= run.known /\ ~Done(f.id) =>
        /\ n > ReadTo /\ (Reading => Len(run.page) = PageLimit)
        /\ run.earliest = 0 \/ f.ts <= run.earliest

LateInv ==
  pc \in Steps /\ run.window = None =>
    \A n \in 1..Len(feed) :
      ~Done(feed[n].id) =>
        \/ feed[n].ts >= Horizon(run) - Delay
        \/ /\ n > ReadTo
           /\ Reading => Len(run.page) = PageLimit /\ feed[n].ts <= Oldest(run.page)

GapInv ==
  /\ Reached(cursor)
  /\ unbroken => \A n \in 1..Len(feed) :
                   feed[n].id \in keys \/ feed[n].ts >= cursor - Delay

FullCovers ==
  pc \in {"idle", "between"} /\ row = "complete" /\ run.full =>
    \A n \in 1..Len(feed) :
      feed[n].id <= run.known /\ InWindow(run, feed[n]) => feed[n].id \in keys

NoGap ==
  pc \in {"idle", "between"} /\ row = "complete" /\ unbroken => 1..run.known \subseteq keys

LeftInv ==
  pc = "between" =>
    /\ row \in {"complete", "empty", "offset_limit_reached", "time_params_not_honored"}
    /\ row = "offset_limit_reached" => run.earliest # 0
    /\ row # "time_params_not_honored" =>
         \A n \in 1..Len(feed) :
           /\ feed[n].id <= run.known /\ InWindow(run, feed[n])
           /\ row = "offset_limit_reached" => feed[n].ts > run.earliest
           => feed[n].id \in keys

BackInv ==
  /\ pc = "between" => backfill # None
  /\ pc # "idle" /\ backfill # None => backfillStatus = "running"
  /\ backfillStatus = "running" =>
       /\ pc # "idle" /\ backfill # None /\ run.full /\ run.window # None
       /\ run.window.lo = backfill.range.lo /\ backfill.known <= run.known
       /\ \A n \in 1..Len(feed) :
            /\ feed[n].id <= backfill.known /\ InRange(feed[n])
            /\ feed[n].ts > run.window.hi /\ feed[n].ts \notin backfill.split
            => feed[n].id \in keys

BackCovers ==
  backfillStatus = "complete" =>
    /\ backfill # None /\ pc = "idle"
    /\ \A n \in 1..Len(feed) :
         /\ feed[n].id <= backfill.known /\ InRange(feed[n])
         /\ feed[n].ts \notin backfill.split
         => feed[n].id \in keys

IInv ==
  /\ TypeInv /\ IdsListed /\ NoDoubles /\ FreshIsNew
  /\ RunInv /\ PagesInv /\ LateInv /\ GapInv
  /\ FullCovers /\ NoGap /\ LeftInv /\ BackInv /\ BackCovers

(***************************************************************************)
(* Types                                                                   *)
(***************************************************************************)

LEMMA PageSorted ==
  ASSUME NEW L, Fills(L), NEW o \in Nat
  PROVE  Fills(Page(L, o))
<1> DEFINE p == Page(L, o)
<1>1. /\ p \in Seq(Fill) /\ \A i \in 1..Len(p) : p[i] = L[o + i] /\ o + i \in 1..Len(L)
  BY PageIs
<1> HIDE DEF p
<1>2. Sorted(p)
  <2> SUFFICES ASSUME NEW m \in 1..Len(p), NEW n \in 1..Len(p), m <= n PROVE p[m].ts >= p[n].ts
    BY DEF Sorted
  <2>1. p[m] = L[o + m] /\ p[n] = L[o + n] /\ o + m \in 1..Len(L) /\ o + n \in 1..Len(L)
    BY <1>1
  <2>2. o + m <= o + n
    BY <1>1
  <2>3. L[o + m].ts >= L[o + n].ts
    BY <2>1, <2>2 DEF Fills, Sorted
  <2>4. QED BY <2>1, <2>3
<1>3. QED BY <1>1, <1>2 DEF Fills, p

\* The page of a run: what is at its places of the list.
LEMMA PageOfRun ==
  ASSUME TypeInv
  PROVE  /\ PageAt(run) = Page(ListOf(feed, run), run.offset)
         /\ Fills(ListOf(feed, run)) /\ run.offset \in Nat /\ Fills(PageAt(run))
<1>1. run \in Sync /\ Fills(feed)
  BY DEF TypeInv
<1>2. run.offset \in Nat /\ Fills(ListOf(feed, run))
  BY <1>1, ListOfIs DEF Sync
<1>3. Listed(run) = ListOf(feed, run)
  BY DEF Listed, ListOf, Within
<1>4. PageAt(run) = Page(ListOf(feed, run), run.offset)
  BY <1>3 DEF PageAt, Page
<1>5. QED BY <1>2, <1>4, PageSorted

LEMMA SeenByRun ==
  ASSUME TypeInv
  PROVE  SeenPage(Seen(run, PageAt(run)), run, PageAt(run))
<1>1. run \in Sync /\ Fills(PageAt(run)) /\ (run.earliest = 0 \/ run.earliest \in Seconds)
  BY PageOfRun DEF TypeInv
<1>2. QED BY <1>1, SeenIs

\* How a run ends: it finishes after its last page, or right after a page
\* that shows the window was not honored.
Ends(status, r) ==
  /\ r \in Sync /\ Finish(status, r)
  /\ UNCHANGED <<feed, raw, keys, backfill, backfillStatus, cut, cuts>>

Received ==
  LET seen == Seen(run, PageAt(run)) IN
  /\ pc = "fetch" /\ run' = seen
  /\ pc' = IF seen.fresh = <<>> THEN "decide" ELSE "append"
  /\ UNCHANGED <<feed, raw, keys, cursor, row, unbroken, backfill, backfillStatus, cut, cuts>>

LEMMA FetchIs ==
  ASSUME TypeInv, Fetch
  PROVE  \/ Received
         \/ /\ Ends("time_params_not_honored", Seen(run, PageAt(run)))
            /\ pc = "fetch" /\ run.window # None
<1>1. Seen(run, PageAt(run)) \in Sync
  BY SeenByRun DEF SeenPage
<1>2. QED BY <1>1 DEF Fetch, Received, Ends

LEMMA EndsType ==
  ASSUME TypeInv, NEW status, NEW r, Ends(status, r), r.earliest \in {0} \cup Seconds
  PROVE  TypeInv'
<1>1. /\ run' \in Sync /\ run'.earliest = r.earliest /\ run'.page = <<>>
      /\ cursor' = IF r.latest > r.from THEN r.latest ELSE cursor
      /\ pc' = IF backfill = None THEN "idle" ELSE "between"
  BY FinishIs DEF Ends, Finished
<1>2. cursor' \in Nat
  BY <1>1 DEF Ends, Sync, TypeInv
<1>3. Fills(<<>>)
  BY DEF Fills, Sorted
<1>4. QED BY <1>1, <1>2, <1>3 DEF TypeInv, Ends

\* A fill that appears is put in its place.
Appears(x) ==
  /\ x \in Fill /\ x.id = Len(feed) + 1 /\ feed' = Placed(feed, x)
  /\ feed # <<>> => x.ts >= feed[1].ts - Delay
  /\ Len(feed') = Len(feed) + 1 /\ Len(feed') <= MaxFills
  /\ UNCHANGED <<raw, keys, cursor, row, pc, run, backfill, backfillStatus, cut, cuts, unbroken>>

LEMMA NewFillIs ==
  ASSUME TypeInv, NEW ts \in Seconds, NewFill(ts)
  PROVE  \E x : Appears(x) /\ x.ts = ts
<1> DEFINE x == [id |-> Len(feed) + 1, ts |-> ts]
<1>1. Len(feed) \in Nat /\ Len(feed) < MaxFills /\ MaxFills \in Nat
  BY Assumed DEF TypeInv, Fills, NewFill
<1>2. x \in Fill /\ x.id = Len(feed) + 1 /\ x.ts = ts
  BY <1>1 DEF Fill, Ids
<1>3. feed' = Placed(feed, x)
  BY DEF NewFill, Placed
<1> HIDE DEF x
<1>4. Len(feed') = Len(feed) + 1
  BY <1>2, <1>3, PlacedIs DEF TypeInv
<1>5. QED BY <1>1, <1>2, <1>3, <1>4 DEF Appears, NewFill, disk, history

LEMMA CutOffType ==
  ASSUME TypeInv, CutOff
  PROVE  /\ raw' \in RawFile /\ run' = NoRun /\ pc' = "idle" /\ backfill' = None
         /\ backfillStatus' = "none" /\ ~unbroken'
         /\ \A id \in Ids : id \notin cut' => Has(raw', id) = Has(raw, id)
         /\ cut' = IF pc \in {"append", "register"} THEN cut \cup Range(run.fresh) ELSE cut
<1>1. raw \in RawFile /\ run.fresh \in Seq(Ids)
  BY DEF TypeInv, Sync
<1>2. CASE pc = "append"
  <2>1. raw' \in UNION {CutAfter(raw, run.fresh, n) : n \in 0..Len(run.fresh)}
    BY <1>2 DEF CutOff
  <2>2. PICK n \in 0..Len(run.fresh) : raw' \in CutAfter(raw, run.fresh, n)
    BY <2>1
  <2>3. raw' \in RawFile /\ \A id \in Ids : id \notin Range(run.fresh) => Has(raw', id) = Has(raw, id)
    BY <1>1, <2>2, CutAfterIs
  <2>4. Range(run.fresh) \subseteq cut'
    BY <1>2 DEF CutOff
  <2>5. QED BY <2>3, <2>4 DEF CutOff
<1>3. CASE pc # "append"
  <2>1. raw' = raw
    BY <1>3 DEF CutOff
  <2>2. QED BY <1>1, <2>1 DEF CutOff
<1>4. QED BY <1>2, <1>3

LEMMA BegunType ==
  ASSUME TypeInv, NEW full, NEW window, Begun(full, window),
         UNCHANGED <<feed, raw, keys, cursor>>, backfill' \in Backfill \cup {None}
  PROVE  TypeInv'
<1>1. Fills(<<>>)
  BY DEF Fills, Sorted
<1>2. QED BY <1>1 DEF Begun, TypeInv, Steps

\* The statuses a sync that goes through ends with.
Exits == \/ CapHit \/ Exhausted \/ DepthReached \/ EarlyStop

LEMMA ExitIs ==
  ASSUME TypeInv, Exits
  PROVE  \E status \in {"complete", "empty", "offset_limit_reached"} : Ends(status, run)
<1>1. run \in Sync
  BY DEF TypeInv
<1>2. CASE CapHit
  BY <1>1, <1>2 DEF CapHit, Ends
<1>3. CASE Exhausted
  <2>1. Ends(IF run.offset = 0 /\ run.page = <<>> THEN "empty" ELSE "complete", run)
    BY <1>1, <1>3 DEF Exhausted, Ends
  <2>2. QED BY <2>1
<1>4. CASE DepthReached
  BY <1>1, <1>4 DEF DepthReached, Ends
<1>5. CASE EarlyStop
  BY <1>1, <1>5 DEF EarlyStop, Ends
<1>6. QED BY <1>2, <1>3, <1>4, <1>5 DEF Exits

\* The ways a sync or a backfill starts.
LEMMA StartIs ==
  ASSUME TypeInv, Start
  PROVE  \/ \E full \in BOOLEAN, window \in TimeWindow \cup {None} :
              /\ pc = "idle" /\ Begun(full, window)
              /\ backfill' = None /\ backfillStatus' = "none"
              /\ UNCHANGED <<feed, raw, keys, cursor, cut, cuts, unbroken>>
         \/ \E range \in Windows :
              /\ pc = "idle" /\ Begun(TRUE, range) /\ range \in TimeWindow
              /\ backfill' = [range |-> range, windows |-> 1, known |-> Len(feed), split |-> {}]
              /\ backfillStatus' = "running"
              /\ UNCHANGED <<feed, raw, keys, cursor, cut, cuts, unbroken>>
<1>1. Windows \subseteq TimeWindow
  BY Assumed
<1>2. CASE \E full \in BOOLEAN : StartSync(full, None, TRUE)
  <2>1. PICK full \in BOOLEAN : StartSync(full, None, TRUE)
    BY <1>2
  <2>2. Begun(full, None)
    BY <2>1, BeginIs DEF StartSync
  <2>3. QED BY <2>1, <2>2 DEF StartSync, history
<1>3. CASE \E full, honored \in BOOLEAN, w \in Windows : StartSync(full, w, honored)
  <2>1. PICK full \in BOOLEAN, honored \in BOOLEAN, w \in Windows : StartSync(full, w, honored)
    BY <1>3
  <2>2. w \in TimeWindow
    BY <1>1
  <2>3. Begun(full, w)
    BY <2>1, <2>2, BeginIs DEF StartSync
  <2>4. QED BY <2>1, <2>2, <2>3 DEF StartSync, history
<1>4. CASE \E range \in Windows, honored \in BOOLEAN : StartBackfill(range, honored)
  <2>1. PICK range \in Windows, honored \in BOOLEAN : StartBackfill(range, honored)
    BY <1>4
  <2>2. range \in TimeWindow
    BY <1>1
  <2>3. Begun(TRUE, range)
    BY <2>1, <2>2, BeginIs DEF StartBackfill
  <2>4. QED BY <2>1, <2>2, <2>3 DEF StartBackfill, history
<1>5. QED BY <1>2, <1>3, <1>4 DEF Start

Shrunk == [lo |-> backfill.range.lo, hi |-> NewEnd]

LEMMA NextWindowIs ==
  ASSUME TypeInv, pc = "between" => backfill # None, NEW honored \in BOOLEAN, NextWindow(honored)
  PROVE  /\ Begun(TRUE, Shrunk) /\ Shrunk \in TimeWindow /\ backfill \in Backfill
         /\ backfill' = [backfill EXCEPT !.windows = @ + 1, !.split = @ \cup {run.earliest}]
         /\ backfill' \in Backfill
<1>1. backfill \in Backfill /\ run.earliest \in Nat
  BY DEF TypeInv, Sync, NextWindow
<1>2. backfill.range \in TimeWindow
  BY <1>1 DEF Backfill
<1>3. Shrunk \in TimeWindow
  BY <1>1, <1>2 DEF TimeWindow, Shrunk, NewEnd
<1>4. Begun(TRUE, Shrunk)
  BY <1>3, BeginIs DEF NextWindow, Shrunk
<1>5. backfill' = [backfill EXCEPT !.windows = @ + 1, !.split = @ \cup {run.earliest}]
  BY DEF NextWindow
<1>6. backfill' \in Backfill
  <2> DEFINE k == backfill.windows + 1
             c == backfill.split \cup {run.earliest}
  <2>1. k \in Nat /\ c \in SUBSET Int
    BY <1>1 DEF Backfill
  <2>2. backfill' = [backfill EXCEPT !.windows = k, !.split = c]
    BY <1>5
  <2> HIDE DEF k, c
  <2>3. QED BY <1>1, <2>1, <2>2 DEF Backfill
<1>7. QED BY <1>1, <1>3, <1>4, <1>5, <1>6

LEMMA TypeStep ==
  ASSUME TypeInv, pc = "between" => backfill # None, [Next]_vars
  PROVE  TypeInv'
<1>1. ASSUME NEW ts \in Seconds, NewFill(ts) PROVE TypeInv'
  <2>1. PICK x : Appears(x)
    BY <1>1, NewFillIs
  <2>2. Fills(feed')
    BY <2>1, PlacedIs DEF Appears, TypeInv
  <2>3. QED BY <2>1, <2>2 DEF Appears, TypeInv
<1>2. CASE Start
  <2>1. CASE \E full \in BOOLEAN, window \in TimeWindow \cup {None} :
               /\ pc = "idle" /\ Begun(full, window)
               /\ backfill' = None /\ backfillStatus' = "none"
               /\ UNCHANGED <<feed, raw, keys, cursor, cut, cuts, unbroken>>
    BY <2>1, BegunType
  <2>2. CASE \E range \in Windows :
               /\ pc = "idle" /\ Begun(TRUE, range) /\ range \in TimeWindow
               /\ backfill' = [range |-> range, windows |-> 1, known |-> Len(feed), split |-> {}]
               /\ backfillStatus' = "running"
               /\ UNCHANGED <<feed, raw, keys, cursor, cut, cuts, unbroken>>
    <3>1. PICK range \in Windows :
               /\ Begun(TRUE, range) /\ range \in TimeWindow
               /\ backfill' = [range |-> range, windows |-> 1, known |-> Len(feed), split |-> {}]
               /\ UNCHANGED <<feed, raw, keys, cursor>>
      BY <2>2
    <3>2. Len(feed) \in Nat
      BY DEF TypeInv, Fills
    <3>3. backfill' \in Backfill
      BY <3>1, <3>2 DEF Backfill
    <3>4. QED BY <3>1, <3>3, BegunType
  <2>3. QED BY <1>2, <2>1, <2>2, StartIs
<1>3. CASE Exits
  <2>1. PICK status \in {"complete", "empty", "offset_limit_reached"} : Ends(status, run)
    BY <1>3, ExitIs
  <2>2. run.earliest \in {0} \cup Seconds
    BY DEF TypeInv
  <2>3. QED BY <2>1, <2>2, EndsType
<1>4. CASE Fetch
  <2> DEFINE seen == Seen(run, PageAt(run))
  <2>1. SeenPage(seen, run, PageAt(run)) /\ Fills(PageAt(run))
    BY SeenByRun, PageOfRun
  <2>2. run.earliest \in {0} \cup Seconds
    BY DEF TypeInv
  <2> HIDE DEF seen
  <2>3. seen \in Sync /\ seen.earliest \in {0} \cup Seconds /\ seen.page = PageAt(run)
    BY <2>1, <2>2 DEF SeenPage
  <2>4. CASE Received
    BY <2>1, <2>3, <2>4 DEF Received, TypeInv, Steps, seen
  <2>5. CASE Ends("time_params_not_honored", Seen(run, PageAt(run)))
    BY <2>3, <2>5, EndsType DEF seen
  <2>6. QED BY <1>4, <2>4, <2>5, FetchIs
<1>5. CASE AppendMany
  <2>1. raw' \in RawFile
    BY <1>5, WrittenIs DEF AppendMany, TypeInv, Sync
  <2>2. QED BY <1>5, <2>1 DEF AppendMany, TypeInv, Steps
<1>6. CASE RegisterKeys
  <2>1. Range(run.fresh) \subseteq Ids
    BY DEF TypeInv, Sync, Range
  <2>2. QED BY <1>6, <2>1 DEF RegisterKeys, TypeInv, Steps
<1>7. CASE NextPage
  <2>1. run.offset + PageLimit \in Nat /\ run \in Sync
    BY Assumed DEF TypeInv, Sync
  <2>2. run' \in Sync /\ run'.earliest = run.earliest /\ run'.page = run.page
    BY <1>7, <2>1 DEF NextPage, Sync
  <2>3. QED BY <1>7, <2>2 DEF NextPage, TypeInv, Steps, disk
<1>8. CASE Raise \/ Crash
  <2>1. CutOff /\ cursor' \in Nat /\ UNCHANGED <<feed, keys>>
    BY <1>8 DEF Raise, Crash, TypeInv, Sync
  <2>2. raw' \in RawFile /\ run' = NoRun /\ pc' = "idle" /\ backfill' = None
    BY <2>1, CutOffType
  <2>3. Fills(<<>>) /\ NoRun \in Sync /\ NoRun.page = <<>> /\ NoRun.earliest = 0
    BY NoRunIs DEF Fills, Sorted
  <2>4. QED BY <2>1, <2>2, <2>3 DEF TypeInv
<1>9. CASE BackfillStep
  <2>1. CASE EndBackfill
    BY <2>1 DEF EndBackfill, TypeInv, disk
  <2>2. ASSUME NEW honored \in BOOLEAN, NextWindow(honored) PROVE TypeInv'
    <3>1. Begun(TRUE, Shrunk) /\ backfill' \in Backfill
      BY <2>2, NextWindowIs
    <3>2. QED BY <2>2, <3>1, BegunType DEF NextWindow
  <2>3. QED BY <1>9, <2>1, <2>2 DEF BackfillStep
<1>10. CASE UNCHANGED vars
  BY <1>10 DEF vars, disk, TypeInv
<1>11. QED
  BY <1>1, <1>2, <1>3, <1>4, <1>5, <1>6, <1>7, <1>8, <1>9, <1>10 DEF Next, SyncStep, Exits

(***************************************************************************)
(* What is written twice                                                   *)
(***************************************************************************)

\* A step that leaves the file, the table and the cut fills alone, and
\* neither comes from nor leads to a write, changes nothing about copies.
LEMMA FileKept ==
  ASSUME TypeInv, NoDoubles, pc # "register", pc' \notin {"append", "register"},
         UNCHANGED <<raw, keys, cut>>
  PROVE  NoDoubles' /\ FreshIsNew'
<1>1. FreshIsNew'
  BY DEF FreshIsNew
<1>2. NoDoubles'
  BY DEF NoDoubles, Has
<1>3. QED BY <1>1, <1>2

LEMMA FileStep ==
  ASSUME TypeInv, NoDoubles, FreshIsNew, pc = "between" => backfill # None, [Next]_vars
  PROVE  NoDoubles' /\ FreshIsNew'
<1>0. raw \in RawFile /\ run \in Sync /\ run.fresh \in Seq(Ids)
  BY DEF TypeInv, Sync
<1>1. ASSUME NEW ts \in Seconds, NewFill(ts) PROVE NoDoubles' /\ FreshIsNew'
  <2>1. UNCHANGED <<raw, keys, pc, run, cut>>
    BY <1>1 DEF NewFill, disk, history
  <2>2. QED BY <2>1 DEF NoDoubles, FreshIsNew, Has
<1>2. CASE Start
  <2>1. pc = "idle" /\ pc' = "fetch" /\ UNCHANGED <<raw, keys, cut>>
    BY <1>2, StartIs DEF Begun
  <2>2. QED BY <2>1, FileKept
<1>3. CASE Exits
  <2>1. PICK status \in {"complete", "empty", "offset_limit_reached"} : Ends(status, run)
    BY <1>3, ExitIs
  <2>2. pc' \in {"idle", "between"} /\ UNCHANGED <<raw, keys, cut>>
    BY <2>1 DEF Ends, Finish
  <2>3. pc \in {"fetch", "decide"}
    BY <1>3 DEF Exits, CapHit, Exhausted, DepthReached, EarlyStop
  <2>4. QED BY <2>2, <2>3, FileKept
<1>4. CASE Fetch
  <2> DEFINE seen == Seen(run, PageAt(run))
  <2>1. SeenPage(seen, run, PageAt(run))
    BY SeenByRun
  <2> HIDE DEF seen
  <2>2. CASE Received
    <3>1. pc = "fetch" /\ pc' \in {"append", "decide"} /\ run' = seen /\ UNCHANGED <<raw, keys, cut>>
      BY <2>2 DEF Received, seen
    <3>2. Range(run'.fresh) \cap keys' = {}
      BY <2>1, <3>1 DEF SeenPage
    <3>3. NoDoubles'
      BY <3>1 DEF NoDoubles, Has
    <3>4. QED BY <3>2, <3>3 DEF FreshIsNew
  <2>3. CASE Ends("time_params_not_honored", Seen(run, PageAt(run))) /\ pc = "fetch"
    <3>1. pc' \in {"idle", "between"} /\ UNCHANGED <<raw, keys, cut>>
      BY <2>3 DEF Ends, Finish
    <3>2. QED BY <2>3, <3>1, FileKept
  <2>4. QED BY <1>4, <2>2, <2>3, FetchIs
<1>5. CASE AppendMany
  <2>1. /\ pc = "append" /\ pc' = "register" /\ raw' = Written(raw, run.fresh)
        /\ UNCHANGED <<keys, run, cut>>
    BY <1>5 DEF AppendMany, history
  <2>2. \A id \in Ids : /\ Has(raw', id) = Has(raw, id) + IF id \in Range(run.fresh) THEN 1 ELSE 0
                        /\ Has(raw, id) \in Nat
    <3>1. \A id \in Ids : Has(raw, id) \in Nat
      BY <1>0 DEF RawFile, Has
    <3>2. QED BY <1>0, <2>1, <3>1, WrittenIs
  <2>3. Range(run.fresh) \cap keys = {}
    BY <2>1 DEF FreshIsNew
  <2>4. \A id \in Ids \ cut : Has(raw', id) <= 1 /\ (Has(raw', id) = 1 => id \in keys \/ id \in Range(run.fresh))
    <3> SUFFICES ASSUME NEW id \in Ids \ cut
                 PROVE  Has(raw', id) <= 1 /\ (Has(raw', id) = 1 => id \in keys \/ id \in Range(run.fresh))
      OBVIOUS
    <3>1. Has(raw, id) <= 1 /\ (Has(raw, id) = 1 => id \in keys)
      BY <2>1 DEF NoDoubles
    <3>2. CASE id \in Range(run.fresh)
      <4>1. Has(raw, id) = 0
        BY <2>2, <2>3, <3>1, <3>2
      <4>2. QED BY <2>2, <3>2, <4>1
    <3>3. CASE id \notin Range(run.fresh)
      BY <2>2, <3>1, <3>3
    <3>4. QED BY <3>2, <3>3
  <2>5. QED BY <2>1, <2>3, <2>4 DEF NoDoubles, FreshIsNew, Has
<1>6. CASE RegisterKeys
  <2>1. /\ pc = "register" /\ pc' = "decide" /\ keys' = keys \cup Range(run.fresh)
        /\ UNCHANGED <<raw, run, cut>>
    BY <1>6 DEF RegisterKeys, history
  <2>2. QED BY <2>1 DEF NoDoubles, FreshIsNew, Has
<1>7. CASE NextPage
  <2>1. pc = "decide" /\ pc' = "fetch" /\ UNCHANGED <<raw, keys, cut>>
    BY <1>7 DEF NextPage, disk, history
  <2>2. QED BY <2>1, FileKept
<1>8. CASE Raise \/ Crash
  <2>1. CutOff /\ UNCHANGED keys
    BY <1>8 DEF Raise, Crash
  <2>2. /\ pc' = "idle" /\ \A id \in Ids : id \notin cut' => Has(raw', id) = Has(raw, id)
        /\ cut' = IF pc \in {"append", "register"} THEN cut \cup Range(run.fresh) ELSE cut
    BY <2>1, CutOffType
  <2>3. \A id \in Ids \ cut' : /\ Has(raw', id) <= 1 /\ (Has(raw', id) = 1 => id \in keys)
    <3> SUFFICES ASSUME NEW id \in Ids \ cut'
                 PROVE  Has(raw', id) <= 1 /\ (Has(raw', id) = 1 => id \in keys)
      OBVIOUS
    <3>1. id \notin cut /\ (pc = "register" => id \notin Range(run.fresh))
      BY <2>2
    <3>2. Has(raw, id) <= 1 /\ (Has(raw, id) = 1 => id \in keys)
      BY <3>1 DEF NoDoubles
    <3>3. QED BY <2>2, <3>2
  <2>4. QED BY <2>1, <2>2, <2>3 DEF NoDoubles, FreshIsNew, Has
<1>9. CASE BackfillStep
  <2>1. pc = "between" /\ pc' \in {"fetch", "idle"} /\ UNCHANGED <<raw, keys, cut>>
    BY <1>9, NextWindowIs DEF BackfillStep, EndBackfill, NextWindow, Begun, disk, history
  <2>2. QED BY <2>1, FileKept
<1>10. CASE UNCHANGED vars
  BY <1>10 DEF vars, disk, history, NoDoubles, FreshIsNew, Has
<1>11. QED
  BY <1>1, <1>2, <1>3, <1>4, <1>5, <1>6, <1>7, <1>8, <1>9, <1>10 DEF Next, SyncStep, Exits

(***************************************************************************)
(* A fill appears                                                          *)
(***************************************************************************)

\* What was in the list still is, the new one is, and the front is no older.
LEMMA PlacedKeeps ==
  ASSUME NEW s, Fills(s), NEW x \in Fill
  PROVE  LET t == Placed(s, x) IN
         /\ \A m \in 1..Len(s) : \E n \in 1..Len(t) : t[n] = s[m]
         /\ \E n \in 1..Len(t) : t[n] = x
         /\ t # <<>> /\ t[1].ts >= x.ts
         /\ s # <<>> => t[1].ts >= s[1].ts
<1> DEFINE t == Placed(s, x)
           N == Len(s)
           c == Newer(s, x.ts)
<1>1. N \in Nat /\ x.ts \in Int /\ \A n \in 1..N : s[n].ts \in Int
  <2>1. s \in Seq(Fill)
    BY DEF Fills
  <2>2. \A n \in 1..N : s[n] \in Fill
    BY <2>1
  <2>3. QED BY <2>1, <2>2 DEF Fill, Seconds
<1>2. c \in 0..N /\ \A n \in 1..N : s[n].ts > x.ts <=> n <= c
  BY <1>1, NewerIs
<1>3. /\ Fills(t) /\ Len(t) = N + 1
      /\ \A n \in 1..(N + 1) : t[n] = IF n <= c THEN s[n] ELSE IF n = c + 1 THEN x ELSE s[n - 1]
  BY PlacedIs
<1>4. N = 0 \/ s # <<>>
  OBVIOUS
<1>5. s # <<>> => N >= 1
  BY <1>1 DEF Fills
<1> HIDE DEF t, N, c
<1>6. ASSUME NEW m \in 1..N PROVE \E n \in 1..Len(t) : t[n] = s[m]
  <2>1. CASE m <= c
    <3>1. m \in 1..Len(t) /\ t[m] = s[m]
      BY <1>1, <1>3, <2>1
    <3>2. QED BY <3>1
  <2>2. CASE ~(m <= c)
    <3> DEFINE n == m + 1
    <3>1. n \in 1..(N + 1) /\ ~(n <= c) /\ n # c + 1 /\ n - 1 = m
      BY <1>1, <1>2, <2>2
    <3> HIDE DEF n
    <3>2. n \in 1..Len(t) /\ t[n] = s[m]
      BY <1>3, <3>1
    <3>3. QED BY <3>2
  <2>3. QED BY <2>1, <2>2
<1>7. \E n \in 1..Len(t) : t[n] = x
  <2> DEFINE n == c + 1
  <2>1. n \in 1..(N + 1) /\ ~(n <= c) /\ n = c + 1
    BY <1>1, <1>2
  <2> HIDE DEF n
  <2>2. n \in 1..Len(t) /\ t[n] = x
    BY <1>3, <2>1
  <2>3. QED BY <2>2
<1>8. t # <<>>
  <2>1. Len(t) # 0
    BY <1>1, <1>3
  <2>2. QED BY <2>1
<1>9. t[1].ts >= x.ts /\ (s # <<>> => t[1].ts >= s[1].ts)
  <2>1. 1 \in 1..(N + 1)
    BY <1>1
  <2>2. CASE c = 0
    <3>1. t[1] = x
      BY <1>3, <2>1, <2>2
    <3>2. s # <<>> => 1 \in 1..N /\ ~(s[1].ts > x.ts) /\ s[1].ts \in Int
      BY <1>1, <1>2, <1>5, <2>2
    <3>3. QED BY <1>1, <3>1, <3>2
  <2>3. CASE c # 0
    <3>1. 1 <= c /\ 1 \in 1..N
      BY <1>1, <1>2, <2>3
    <3>2. t[1] = s[1] /\ s[1].ts > x.ts /\ s[1].ts \in Int
      BY <1>1, <1>2, <1>3, <2>1, <3>1
    <3>3. QED BY <1>1, <3>2
  <2>4. QED BY <2>2, <2>3
<1>10. QED BY <1>6, <1>7, <1>8, <1>9 DEF t, N

\* What a new fill does to the feed.
LEMMA AppearsIs ==
  ASSUME TypeInv, IdsListed, NEW x, Appears(x)
  PROVE  /\ Fills(feed') /\ Len(feed') \in Nat /\ x.id = Len(feed) + 1
         /\ \A n \in 1..Len(feed') :
              feed'[n] = x \/ \E m \in 1..Len(feed) : m <= n /\ feed'[n] = feed[m]
         /\ \A m \in 1..Len(feed) : \E n \in 1..Len(feed') : feed'[n] = feed[m]
         /\ \E n \in 1..Len(feed') : feed'[n] = x
         /\ feed' # <<>> /\ x.ts <= feed'[1].ts
         /\ feed # <<>> => feed[1].ts <= feed'[1].ts
         /\ x.id > run.known /\ (backfill # None => x.id > backfill.known)
<1>1. Fills(feed) /\ x \in Fill /\ feed' = Placed(feed, x) /\ x.id = Len(feed) + 1
  BY DEF TypeInv, Appears
<1>2. Fills(feed')
  BY <1>1, PlacedIs
<1>3. Grew(feed, feed', x)
  BY <1>1, FeedGrows
<1>4. /\ \A m \in 1..Len(feed) : \E n \in 1..Len(feed') : feed'[n] = feed[m]
      /\ \E n \in 1..Len(feed') : feed'[n] = x
      /\ feed' # <<>> /\ feed'[1].ts >= x.ts
      /\ feed # <<>> => feed'[1].ts >= feed[1].ts
  BY <1>1, PlacedKeeps
<1>5. Len(feed) \in Nat /\ Len(feed') \in Nat
  BY <1>1, <1>2 DEF Fills
<1>6. feed'[1].ts \in Int /\ x.ts \in Int /\ (feed # <<>> => feed[1].ts \in Int)
  <2>1. \A s : Fills(s) /\ s # <<>> => s[1].ts \in Int
    <3> TAKE s
    <3> HAVE Fills(s) /\ s # <<>>
    <3>1. s \in Seq(Fill) /\ 1 \in 1..Len(s)
      BY DEF Fills
    <3>2. s[1] \in Fill
      BY <3>1
    <3>3. QED BY <3>2 DEF Fill, Seconds
  <2>2. x.ts \in Int
    BY <1>1 DEF Fill, Seconds
  <2>3. QED BY <1>1, <1>2, <1>4, <2>1, <2>2
<1>7. run.known \in Nat /\ (backfill # None => backfill.known \in Nat)
  BY DEF TypeInv, Sync, Backfill
<1>8. x.id > run.known /\ (backfill # None => x.id > backfill.known)
  <2>1. run.known <= Len(feed) /\ (backfill # None => backfill.known <= Len(feed))
    BY DEF IdsListed
  <2>2. QED BY <1>1, <1>5, <1>7, <2>1
<1>9. x.ts <= feed'[1].ts /\ (feed # <<>> => feed[1].ts <= feed'[1].ts)
  BY <1>4, <1>6
<1>10. QED BY <1>1, <1>2, <1>3, <1>4, <1>5, <1>8, <1>9 DEF Grew

\* No fill that was known when a sync started is new.
LEMMA NoneIsLost ==
  ASSUME TypeInv, IdsListed, NEW x, Appears(x), NEW n \in 1..Len(feed'),
         \/ feed'[n].id <= run.known
         \/ backfill # None /\ feed'[n].id <= backfill.known
  PROVE  \E m \in 1..Len(feed) : feed'[n] = feed[m]
<1>1. /\ feed'[n] = x \/ \E m \in 1..Len(feed) : m <= n /\ feed'[n] = feed[m]
      /\ x.id > run.known /\ (backfill # None => x.id > backfill.known)
  BY AppearsIs
<1>2. run.known \in Nat /\ (backfill # None => backfill.known \in Nat) /\ x.id \in Nat
  BY DEF TypeInv, Sync, Backfill, Appears, Fills
<1>3. feed'[n] # x
  BY <1>1, <1>2
<1>4. QED BY <1>1, <1>3

LEMMA AppearsReading ==
  ASSUME TypeInv, IdsListed, RunInv, PagesInv, LateInv, GapInv, NEW x, Appears(x)
  PROVE  IdsListed' /\ RunInv' /\ PagesInv' /\ LateInv' /\ GapInv'
<1>1. UNCHANGED <<raw, keys, cursor, row, pc, run, backfill, backfillStatus, cut, cuts, unbroken>>
  BY DEF Appears
<1>2. /\ Fills(feed') /\ Len(feed') \in Nat /\ x.id = Len(feed) + 1
      /\ \A n \in 1..Len(feed') :
           feed'[n] = x \/ \E m \in 1..Len(feed) : m <= n /\ feed'[n] = feed[m]
      /\ \A m \in 1..Len(feed) : \E n \in 1..Len(feed') : feed'[n] = feed[m]
      /\ \E n \in 1..Len(feed') : feed'[n] = x
      /\ feed' # <<>> /\ x.ts <= feed'[1].ts
      /\ feed # <<>> => feed[1].ts <= feed'[1].ts
      /\ x.id > run.known /\ (backfill # None => x.id > backfill.known)
  BY AppearsIs
<1>3. x \in Fill /\ Len(feed') = Len(feed) + 1 /\ Len(feed) \in Nat /\ run \in Sync /\ cursor \in Nat
      /\ feed' = Placed(feed, x) /\ Fills(feed)
      /\ (feed # <<>> => x.ts >= feed[1].ts - Delay) /\ Delay \in Nat
  BY Assumed DEF Appears, TypeInv, Fills
<1>4. x.id \in Nat /\ x.ts \in Nat /\ x.ts >= 1 /\ run.known \in Nat /\ run.latest \in Nat
      /\ run.from \in Nat /\ run.offset \in Nat
  BY <1>3 DEF Fill, Ids, Seconds, Sync
<1>5. (feed # <<>> => feed[1].ts \in Nat) /\ feed'[1].ts \in Nat
  <2>1. \A s : Fills(s) /\ s # <<>> => s[1].ts \in Nat
    <3> TAKE s
    <3> HAVE Fills(s) /\ s # <<>>
    <3>1. s \in Seq(Fill) /\ 1 \in 1..Len(s)
      BY DEF Fills
    <3>2. s[1] \in Fill
      BY <3>1
    <3>3. QED BY <3>2 DEF Fill, Seconds
  <2>2. QED BY <1>2, <1>3, <2>1
<1>6. IdsListed'
  <2>1. ASSUME NEW id \in 1..Len(feed') PROVE \E n \in 1..Len(feed') : feed'[n].id = id
    <3>1. CASE id = Len(feed) + 1
      BY <1>2, <3>1
    <3>2. CASE id # Len(feed) + 1
      <4>1. id \in 1..Len(feed)
        BY <1>3, <3>2
      <4>2. PICK m \in 1..Len(feed) : feed[m].id = id
        BY <4>1 DEF IdsListed
      <4>3. QED BY <1>2, <4>2
    <3>3. QED BY <3>1, <3>2
  <2>2. run.known <= Len(feed') /\ (backfill # None => backfill.known <= Len(feed'))
    <3>1. run.known <= Len(feed) /\ (backfill # None => backfill.known <= Len(feed))
      BY DEF IdsListed
    <3>2. backfill # None => backfill.known \in Nat
      BY DEF TypeInv, Backfill
    <3>3. QED BY <1>3, <1>4, <3>1, <3>2
  <2>3. QED BY <1>1, <2>1, <2>2 DEF IdsListed
<1>7. ASSUME NEW ts \in Nat, Reached(ts) PROVE ts = 0 \/ (feed' # <<>> /\ ts <= feed'[1].ts)
  BY <1>2, <1>5, <1>7 DEF Reached
<1>8. RunInv'
  <2>1. pc \in Steps => Reached(run.latest)'
    BY <1>1, <1>4, <1>7 DEF RunInv, Reached
  <2>2. QED BY <1>1, <2>1 DEF RunInv, Reading
<1>9. PagesInv'
  <2> DEFINE L == ListOf(feed, run)
             M == ListOf(feed', run)
  <2>1. SUFFICES ASSUME pc \in Steps, NEW n \in 1..Len(M), M[n].id <= run.known, ~Done(M[n].id)
                 PROVE  /\ n > ReadTo /\ (Reading => Len(run.page) = PageLimit)
                        /\ run.earliest = 0 \/ M[n].ts <= run.earliest
    BY <1>1 DEF PagesInv, Done, ReadTo, Reading
  <2>2. Grew(L, M, x)
    BY <1>3, ListOfGrows
  <2>3. Len(L) \in Nat
    BY <1>3, ListOfIs DEF Fills
  <2> HIDE DEF L, M
  <2>4. M[n] # x
    BY <1>2, <1>4, <2>1
  <2>5. PICK m \in 1..Len(L) : m <= n /\ M[n] = L[m]
    BY <2>2, <2>4 DEF Grew
  <2>6. /\ m > ReadTo /\ (Reading => Len(run.page) = PageLimit)
        /\ run.earliest = 0 \/ L[m].ts <= run.earliest
    BY <2>1, <2>5 DEF PagesInv, L
  <2>7. ReadTo \in Nat /\ m \in Nat /\ n \in Nat
    BY <1>3, <1>4, <2>3 DEF ReadTo, Sync
  <2>8. QED BY <2>5, <2>6, <2>7
<1>10. Reached(cursor) /\ (pc \in Steps => Reached(Horizon(run)) /\ Horizon(run) \in Nat)
  <2>1. Reached(cursor)
    BY DEF GapInv
  <2>2. pc \in Steps => Reached(run.latest) /\ run.from = cursor
    BY DEF RunInv
  <2>3. QED BY <1>3, <1>4, <2>1, <2>2 DEF Horizon
<1>11. ASSUME NEW ts \in Nat, Reached(ts) PROVE x.ts >= ts - Delay
  BY <1>3, <1>4, <1>5, <1>11 DEF Reached
<1>12. LateInv'
  <2>1. SUFFICES ASSUME pc \in Steps, run.window = None, NEW n \in 1..Len(feed'), ~Done(feed'[n].id)
                 PROVE  \/ feed'[n].ts >= Horizon(run) - Delay
                        \/ /\ n > ReadTo
                           /\ Reading => Len(run.page) = PageLimit /\ feed'[n].ts <= Oldest(run.page)
    BY <1>1 DEF LateInv, Done, ReadTo, Reading
  <2>2. CASE feed'[n] = x
    BY <1>10, <1>11, <2>1, <2>2
  <2>3. CASE feed'[n] # x
    <3>1. PICK m \in 1..Len(feed) : m <= n /\ feed'[n] = feed[m]
      BY <1>2, <2>3
    <3>2. \/ feed[m].ts >= Horizon(run) - Delay
          \/ /\ m > ReadTo
             /\ Reading => Len(run.page) = PageLimit /\ feed[m].ts <= Oldest(run.page)
      BY <2>1, <3>1 DEF LateInv
    <3>3. ReadTo \in Nat /\ m \in Nat /\ n \in Nat
      BY <1>2, <1>3, <1>4 DEF ReadTo, Sync
    <3>4. m > ReadTo => n > ReadTo
      BY <3>1, <3>3
    <3>5. QED BY <3>1, <3>2, <3>4
  <2>4. QED BY <2>2, <2>3
<1>13. GapInv'
  <2>1. Reached(cursor)'
    BY <1>1, <1>3, <1>7, <1>10 DEF Reached
  <2>2. ASSUME unbroken, NEW n \in 1..Len(feed')
        PROVE  feed'[n].id \in keys \/ feed'[n].ts >= cursor - Delay
    <3>1. CASE feed'[n] = x
      BY <1>3, <1>10, <1>11, <3>1
    <3>2. CASE feed'[n] # x
      <4>1. PICK m \in 1..Len(feed) : feed'[n] = feed[m]
        BY <1>2, <3>2
      <4>2. QED BY <2>2, <4>1 DEF GapInv
    <3>3. QED BY <3>1, <3>2
  <2>3. QED BY <1>1, <2>1, <2>2 DEF GapInv
<1>14. QED BY <1>6, <1>8, <1>9, <1>12, <1>13

LEMMA AppearsResults ==
  ASSUME TypeInv, IdsListed, FullCovers, NoGap, LeftInv, BackInv, BackCovers, NEW x, Appears(x)
  PROVE  FullCovers' /\ NoGap' /\ LeftInv' /\ BackInv' /\ BackCovers'
<1>1. UNCHANGED <<raw, keys, cursor, row, pc, run, backfill, backfillStatus, cut, cuts, unbroken>>
  BY DEF Appears
<1>2. \A n \in 1..Len(feed') :
        \/ feed'[n].id <= run.known
        \/ backfill # None /\ feed'[n].id <= backfill.known
        => \E m \in 1..Len(feed) : feed'[n] = feed[m]
  BY NoneIsLost
<1>3. FullCovers'
  <2> SUFFICES ASSUME pc \in {"idle", "between"}, row = "complete", run.full,
                      NEW n \in 1..Len(feed'), feed'[n].id <= run.known, InWindow(run, feed'[n])
               PROVE  feed'[n].id \in keys
    BY <1>1 DEF FullCovers, InWindow
  <2>1. QED BY <1>2 DEF FullCovers
<1>4. NoGap'
  BY <1>1 DEF NoGap
<1>5. LeftInv'
  <2> SUFFICES ASSUME pc = "between", row # "time_params_not_honored",
                      NEW n \in 1..Len(feed'), feed'[n].id <= run.known, InWindow(run, feed'[n]),
                      row = "offset_limit_reached" => feed'[n].ts > run.earliest
               PROVE  feed'[n].id \in keys
    BY <1>1 DEF LeftInv, InWindow
  <2>1. QED BY <1>2 DEF LeftInv
<1>6. BackInv'
  <2> SUFFICES ASSUME backfillStatus = "running",
                      NEW n \in 1..Len(feed'), feed'[n].id <= backfill.known, InRange(feed'[n]),
                      feed'[n].ts > run.window.hi, feed'[n].ts \notin backfill.split
               PROVE  feed'[n].id \in keys
    BY <1>1 DEF BackInv, InRange
  <2>1. backfill # None
    BY DEF BackInv
  <2>2. QED BY <1>2, <2>1 DEF BackInv
<1>7. BackCovers'
  <2> SUFFICES ASSUME backfillStatus = "complete",
                      NEW n \in 1..Len(feed'), feed'[n].id <= backfill.known, InRange(feed'[n]),
                      feed'[n].ts \notin backfill.split
               PROVE  feed'[n].id \in keys
    BY <1>1 DEF BackCovers, InRange
  <2>1. backfill # None
    BY DEF BackCovers
  <2>2. QED BY <1>2, <2>1 DEF BackCovers
<1>8. QED BY <1>3, <1>4, <1>5, <1>6, <1>7

(***************************************************************************)
(* What a run has read                                                     *)
(***************************************************************************)

\* Before its first page a run has read nothing.
LEMMA BegunReading ==
  ASSUME TypeInv, IdsListed, GapInv, NEW full, NEW window, Begun(full, window),
         UNCHANGED <<feed, keys, cursor>>, unbroken' => unbroken,
         backfill' # None => backfill'.known <= Len(feed)
  PROVE  IdsListed' /\ RunInv' /\ PagesInv' /\ LateInv' /\ GapInv'
<1>1. /\ run'.from = cursor /\ run'.known = Len(feed) /\ run'.offset = 0 /\ run'.earliest = 0
      /\ run'.latest = 0 /\ run'.page = <<>> /\ pc' = "fetch" /\ run' \in Sync
  BY DEF Begun
<1>2. Len(feed) \in Nat /\ Fills(feed)
  BY DEF TypeInv, Fills
<1>3. ~Reading' /\ ReadTo' = 0
  BY <1>1 DEF Reading, ReadTo
<1>4. IdsListed'
  BY <1>1, <1>2 DEF IdsListed
<1>5. RunInv'
  BY <1>1, <1>3 DEF RunInv, Reached
<1>6. PagesInv'
  <2>1. \A n \in 1..Len(ListOf(feed', run')) : n > 0
    <3>1. Fills(ListOf(feed', run'))
      BY <1>1, <1>2, ListOfIs
    <3>2. Len(ListOf(feed', run')) \in Nat
      BY <3>1 DEF Fills
    <3>3. QED BY <3>2
  <2>2. QED BY <1>1, <1>3, <2>1 DEF PagesInv
<1>7. LateInv'
  <2>1. \A n \in 1..Len(feed') : n > 0
    BY <1>2
  <2>2. QED BY <1>1, <1>3, <2>1 DEF LateInv
<1>8. GapInv'
  BY DEF GapInv, Reached
<1>9. QED BY <1>4, <1>5, <1>6, <1>7, <1>8

\* What a run has seen last is not newer than the front of the feed.
LEMMA SeenReached ==
  ASSUME TypeInv, RunInv, pc \in Steps
  PROVE  Reached(Seen(run, PageAt(run)).latest)
<1> DEFINE L == ListOf(feed, run)
           p == PageAt(run)
           q == Seen(run, p)
           o == run.offset
           N == Len(p)
<1>1. SeenPage(q, run, p)
  BY SeenByRun
<1>2. /\ Fills(L) /\ o \in Nat /\ Fills(p) /\ N \in Nat
      /\ \A i \in 1..N : p[i] = L[o + i] /\ o + i \in 1..Len(L)
  <2>1. p = Page(L, o) /\ Fills(L) /\ o \in Nat /\ Fills(p)
    BY PageOfRun
  <2> HIDE DEF p, L, o
  <2>2. N \in Nat /\ Len(L) \in Nat
    BY <2>1 DEF Fills
  <2>3. QED BY <2>1, <2>2, PageIs
<1>3. p # <<>> => Newest(p) = p[1].ts /\ N >= 1
  BY <1>2, EndsOfPage
<1>4. run \in Sync /\ Fills(feed) /\ run.latest \in Nat
  BY DEF TypeInv, Sync
<1> HIDE DEF L, p, q, o, N
<1>5. \A s : Fills(s) => \A n \in 1..Len(s) : s[n].ts \in Nat
  <2> TAKE s
  <2> HAVE Fills(s)
  <2>1. \A n \in 1..Len(s) : s[n] \in Fill
    BY DEF Fills
  <2>2. QED BY <2>1 DEF Fill, Seconds
<1>6. p # <<>> => Reached(p[1].ts)
  <2> SUFFICES ASSUME p # <<>> PROVE feed # <<>> /\ p[1].ts <= feed[1].ts
    BY DEF Reached
  <2>1. p[1] = L[o + 1] /\ o + 1 \in 1..Len(L)
    BY <1>2, <1>3
  <2>2. PICK m \in 1..Len(feed) : L[o + 1] = feed[m]
    <3>1. CASE run.window = None \/ ~run.honored
      BY <2>1, <3>1 DEF L, ListOf
    <3>2. CASE ~(run.window = None \/ ~run.honored)
      <4> DEFINE w == run.window
                 k == o + 1
      <4>1. w \in TimeWindow /\ L = Within(feed, w)
        BY <1>4, <3>2 DEF L, ListOf, Sync
      <4>2. Fills(feed) /\ k \in 1..Len(L)
        BY <1>4, <2>1
      <4> HIDE DEF w, k
      <4>3. L[k] = feed[Newer(feed, w.hi) + k] /\ Newer(feed, w.hi) + k \in 1..Len(feed)
        BY <4>1, <4>2, WindowIs
      <4>4. QED BY <4>3 DEF k
    <3>3. QED BY <3>1, <3>2
  <2>3. Len(feed) \in Nat /\ Len(feed) >= 1 /\ feed # <<>> /\ 1 \in 1..Len(feed) /\ 1 <= m
    BY <1>4, <2>2 DEF Fills
  <2>4. feed[1].ts >= feed[m].ts
    BY <1>4, <2>2, <2>3 DEF Fills, Sorted
  <2>5. feed[m].ts \in Nat /\ feed[1].ts \in Nat
    BY <1>4, <1>5, <2>2, <2>3
  <2>6. QED BY <2>1, <2>2, <2>3, <2>4, <2>5
<1>7. Reached(run.latest)
  BY DEF RunInv
<1>8. Reached(q.latest)
  BY <1>1, <1>3, <1>6, <1>7 DEF SeenPage
<1>9. QED BY <1>8 DEF q, p

\* A page: what it lists is done with, and what is left lies behind it.
LEMMA ReceivedReading ==
  ASSUME TypeInv, IdsListed, RunInv, PagesInv, LateInv, GapInv, Received
  PROVE  IdsListed' /\ RunInv' /\ PagesInv' /\ LateInv' /\ GapInv'
<1> DEFINE L == ListOf(feed, run)
           p == PageAt(run)
           q == Seen(run, p)
           o == run.offset
           N == Len(p)
           After(id) == id \in keys \/ (q.fresh # <<>> /\ id \in Range(q.fresh))
<1>1. /\ pc = "fetch" /\ run' = q /\ pc' = IF q.fresh = <<>> THEN "decide" ELSE "append"
      /\ UNCHANGED <<feed, keys, cursor, unbroken, backfill>>
  BY DEF Received
<1>2. SeenPage(q, run, p)
  BY SeenByRun
<1>3. /\ Fills(L) /\ o \in Nat /\ Fills(p) /\ N \in Nat /\ N <= PageLimit
      /\ \A i \in 1..N : p[i] = L[o + i] /\ o + i \in 1..Len(L)
      /\ N < PageLimit => Len(L) <= o + N
      /\ PageLimit \in Nat /\ Len(L) \in Nat
  <2>1. p = Page(L, o) /\ Fills(L) /\ o \in Nat /\ Fills(p)
    BY PageOfRun
  <2> HIDE DEF p, L, o
  <2>2. N \in Nat /\ Len(L) \in Nat
    BY <2>1 DEF Fills
  <2>3. QED BY <2>1, <2>2, PageIs, Assumed
<1>4. p # <<>> => /\ Newest(p) = p[1].ts /\ Oldest(p) = p[N].ts /\ N >= 1
                  /\ Newest(p) \in Seconds /\ Oldest(p) \in Seconds
  BY <1>3, EndsOfPage
<1>5. run \in Sync /\ feed # <<>> => feed[1].ts \in Nat
  <2>1. feed \in Seq(Fill)
    BY DEF TypeInv, Fills
  <2>2. feed # <<>> => feed[1] \in Fill
    BY <2>1
  <2>3. QED BY <2>2 DEF Fill, Seconds
<1>6. run.earliest \in {0} \cup Seconds /\ run.latest \in Nat /\ run \in Sync
  BY DEF TypeInv, Sync
<1>7. p = <<>> => N = 0
  OBVIOUS
<1>8. /\ q.full = run.full /\ q.window = run.window /\ q.honored = run.honored
      /\ q.from = run.from /\ q.offset = o /\ q.known = run.known /\ q.page = p
  BY <1>2 DEF SeenPage
<1>9. ListOf(feed', run') = L
  BY <1>1, <1>8 DEF ListOf
<1>10. Reading' /\ ReadTo' = o + N
  BY <1>1, <1>8 DEF Reading, ReadTo
<1>11. \A i \in 1..N : After(p[i].id)
  <2>1. Range(q.fresh) = {p[n].id : n \in 1..N} \ keys
    BY <1>2 DEF SeenPage
  <2>2. q.fresh = <<>> => Range(q.fresh) = {}
    BY DEF Range
  <2> HIDE DEF q, p, N
  <2>3. QED BY <2>1, <2>2
<1>12. \A id : ~After(id) => ~Done(id)
  BY <1>1 DEF Done
<1>22. ~Reading /\ ReadTo = o /\ pc \in Steps
  <2>1. ~Reading
    BY <1>1 DEF Reading
  <2>2. ReadTo = o + 0
    BY <2>1 DEF ReadTo
  <2>3. QED BY <1>1, <1>3, <2>1, <2>2 DEF Steps
<1> HIDE DEF L, p, q, o, N, After
\* An undone fill that lies behind the offset lies behind the page.
<1>13. ASSUME NEW n \in 1..Len(L), ~After(L[n].id), n > o
       PROVE  n > o + N /\ N = PageLimit /\ p # <<>> /\ p[N].ts >= L[n].ts
  <2>1. n > o + N
    <3>1. SUFFICES ASSUME n <= o + N PROVE FALSE
      BY <1>3
    <3>2. n - o \in 1..N /\ o + (n - o) = n
      BY <1>3, <1>13, <3>1
    <3>3. p[n - o] = L[n]
      BY <1>3, <3>2
    <3>4. QED BY <1>11, <1>13, <3>2, <3>3
  <2>2. N = PageLimit
    BY <1>3, <2>1
  <2>3. p # <<>> /\ N >= 1
    BY <1>7, <2>2, Assumed
  <2>4. p[N] = L[o + N] /\ o + N \in 1..Len(L) /\ o + N <= n
    BY <1>3, <2>1, <2>3
  <2>5. L[o + N].ts >= L[n].ts
    BY <1>3, <2>4 DEF Fills, Sorted
  <2>6. QED BY <2>1, <2>2, <2>3, <2>4, <2>5
<1>14. \A n \in 1..Len(L) : L[n].ts \in Nat
  <2>1. \A n \in 1..Len(L) : L[n] \in Fill
    BY <1>3 DEF Fills
  <2>2. QED BY <2>1 DEF Fill, Seconds
<1>15. IdsListed'
  BY <1>1, <1>8 DEF IdsListed
<1>16. Reached(q.latest)
  BY <1>1, SeenReached DEF p, q, Steps
<1>17. RunInv'
  <2>1. q.from = cursor /\ Reached(run.latest) /\ (o > 0 => run.earliest # 0)
    BY <1>1, <1>8 DEF RunInv, Steps, o
  <2>2. Reached(q.latest)
    BY <1>16
  <2>3. o > 0 => q.earliest # 0
    BY <1>2, <2>1 DEF SeenPage, Seconds
  <2>4. p # <<>> => q.earliest # 0 /\ q.earliest <= Oldest(p)
    BY <1>2 DEF SeenPage, Seconds
  <2>5. QED BY <1>1, <1>3, <1>8, <2>1, <2>2, <2>3, <2>4 DEF RunInv, Reached, N
<1>18. PagesInv'
  <2>1. SUFFICES ASSUME NEW n \in 1..Len(L), L[n].id <= run.known, ~After(L[n].id)
                 PROVE  n > o + N /\ Len(p) = PageLimit /\ (q.earliest = 0 \/ L[n].ts <= q.earliest)
    BY <1>1, <1>8, <1>9, <1>10 DEF PagesInv, Done, After
  <2>2. n > o /\ (run.earliest = 0 \/ L[n].ts <= run.earliest)
    BY <1>12, <1>22, <2>1 DEF PagesInv, L
  <2>3. n > o + N /\ N = PageLimit /\ p # <<>> /\ p[N].ts >= L[n].ts
    BY <1>13, <2>1, <2>2
  <2>4. q.earliest = Oldest(p) \/ q.earliest = run.earliest
    BY <1>2, <2>3 DEF SeenPage
  <2>5. q.earliest \in Seconds /\ Oldest(p) = p[N].ts /\ Oldest(p) \in Seconds
    BY <1>2, <1>4, <2>3 DEF SeenPage
  <2>6. L[n].ts <= q.earliest
    BY <1>14, <2>2, <2>3, <2>4, <2>5 DEF Seconds
  <2>7. QED BY <2>3, <2>6 DEF N
<1>19. LateInv'
  <2>1. SUFFICES ASSUME run.window = None, NEW n \in 1..Len(feed), ~After(feed[n].id),
                        ~(feed[n].ts >= Horizon(q) - Delay)
                 PROVE  n > o + N /\ Len(p) = PageLimit /\ feed[n].ts <= Oldest(p)
    BY <1>1, <1>8, <1>10 DEF LateInv, Done, After
  <2>2. L = feed
    BY <2>1 DEF L, ListOf
  <2>3. n > o
    <3>1. CASE ~(feed[n].ts >= Horizon(run) - Delay)
      BY <1>12, <1>22, <2>1, <3>1 DEF LateInv
    <3>2. CASE feed[n].ts >= Horizon(run) - Delay
      <4>1. Horizon(q) # Horizon(run)
        BY <2>1, <3>2
      <4>2. p # <<>> /\ Horizon(q) = p[1].ts
        BY <1>2, <1>4, <1>6, <1>8, <4>1 DEF Horizon, SeenPage, Sync, Seconds
      <4>3. p[1] = L[o + 1] /\ o + 1 \in 1..Len(L)
        BY <1>3, <1>4, <4>2
      <4>4. L[n].ts \in Nat /\ L[o + 1].ts \in Nat /\ Delay \in Nat
        BY <1>14, <2>2, <4>3, Assumed
      <4>5. L[n].ts < L[o + 1].ts
        BY <2>1, <2>2, <4>2, <4>3, <4>4
      <4>6. ~(n <= o + 1)
        <5>1. n <= o + 1 => L[n].ts >= L[o + 1].ts
          BY <1>3, <2>2, <4>3 DEF Fills, Sorted
        <5>2. QED BY <4>4, <4>5, <5>1
      <4>7. QED BY <1>3, <4>6
    <3>3. QED BY <3>1, <3>2
  <2>4. n > o + N /\ N = PageLimit /\ p # <<>> /\ p[N].ts >= L[n].ts
    BY <1>13, <2>1, <2>2, <2>3
  <2>5. Oldest(p) = p[N].ts /\ Oldest(p) \in Seconds /\ L[n].ts \in Nat
    BY <1>4, <1>14, <2>2, <2>4
  <2>6. QED BY <2>2, <2>4, <2>5 DEF N, Seconds
<1>20. GapInv'
  BY <1>1 DEF GapInv, Reached
<1>21. QED BY <1>15, <1>17, <1>18, <1>19, <1>20

\* Writing and registering a page leave the same fills done with.
LEMMA StoredReading ==
  ASSUME TypeInv, IdsListed, RunInv, PagesInv, LateInv, GapInv, AppendMany \/ RegisterKeys
  PROVE  IdsListed' /\ RunInv' /\ PagesInv' /\ LateInv' /\ GapInv'
<1>1. /\ pc \in {"append", "register"} /\ pc' \in {"register", "decide"}
      /\ UNCHANGED <<feed, cursor, run, backfill, unbroken>> /\ keys \subseteq keys'
  BY DEF AppendMany, RegisterKeys, history
<1>2. \A id : Done(id) => id \in keys' \/ (pc' \in {"append", "register"} /\ id \in Range(run.fresh))
  BY DEF AppendMany, RegisterKeys, Done
<1>3. Reading /\ Reading' /\ ReadTo' = ReadTo
  <2>1. Reading /\ Reading'
    BY <1>1 DEF Reading
  <2>2. QED BY <1>1, <2>1 DEF ReadTo
<1>4. pc \in Steps /\ pc' \in Steps
  BY <1>1 DEF Steps
<1>5. IdsListed' /\ RunInv' /\ GapInv'
  BY <1>1, <1>3, <1>4 DEF IdsListed, RunInv, Reached, GapInv
<1>6. PagesInv'
  <2> DEFINE L == ListOf(feed, run)
  <2>1. SUFFICES ASSUME NEW n \in 1..Len(L), L[n].id <= run.known, ~Done(L[n].id)
                 PROVE  /\ n > ReadTo /\ Len(run.page) = PageLimit
                        /\ run.earliest = 0 \/ L[n].ts <= run.earliest
    BY <1>1, <1>2, <1>3 DEF PagesInv, Done
  <2>2. QED BY <1>3, <1>4, <2>1 DEF PagesInv
<1>7. LateInv'
  <2>1. SUFFICES ASSUME run.window = None, NEW n \in 1..Len(feed), ~Done(feed[n].id)
                 PROVE  \/ feed[n].ts >= Horizon(run) - Delay
                        \/ n > ReadTo /\ Len(run.page) = PageLimit /\ feed[n].ts <= Oldest(run.page)
    BY <1>1, <1>2, <1>3 DEF LateInv, Done
  <2>2. QED BY <1>3, <1>4, <2>1 DEF LateInv
<1>8. QED BY <1>5, <1>6, <1>7

\* The next page starts where this one ended.
LEMMA NextPageReading ==
  ASSUME TypeInv, IdsListed, RunInv, PagesInv, LateInv, GapInv, NextPage
  PROVE  IdsListed' /\ RunInv' /\ PagesInv' /\ LateInv' /\ GapInv'
<1> DEFINE o == run.offset + PageLimit
<1>1. /\ pc = "decide" /\ pc' = "fetch" /\ Len(run.page) = PageLimit
      /\ run' = [run EXCEPT !.offset = o]
      /\ UNCHANGED <<feed, keys, cursor, backfill, unbroken>>
  BY DEF NextPage, disk, history
<1>2. PageLimit \in Nat /\ PageLimit >= 2 /\ run.offset \in Nat /\ run \in Sync /\ o \in Nat
  BY Assumed DEF TypeInv, Sync
<1>3. Reading /\ ReadTo = o /\ pc \in Steps
  <2>1. Reading
    BY <1>1 DEF Reading
  <2>2. QED BY <1>1, <2>1 DEF ReadTo, Steps
<1> HIDE DEF o
<1>4. /\ run'.full = run.full /\ run'.window = run.window /\ run'.honored = run.honored
      /\ run'.from = run.from /\ run'.offset = o /\ run'.known = run.known
      /\ run'.earliest = run.earliest /\ run'.latest = run.latest /\ run'.page = run.page
  BY <1>1, <1>2 DEF Sync
<1>5. ~Reading' /\ ReadTo' = o
  <2>1. ~Reading'
    BY <1>1 DEF Reading
  <2>2. ReadTo' = o + 0
    BY <1>4, <2>1 DEF ReadTo
  <2>3. QED BY <1>2, <2>1, <2>2
<1>6. IdsListed' /\ GapInv'
  BY <1>1, <1>4 DEF IdsListed, Reached, GapInv
<1>7. run.earliest # 0
  <2>1. run.page # <<>>
    BY <1>1, <1>2
  <2>2. QED BY <1>3, <2>1 DEF RunInv
<1>8. RunInv'
  BY <1>1, <1>3, <1>4, <1>5, <1>7 DEF RunInv, Reached
<1>9. PagesInv'
  <2> DEFINE L == ListOf(feed, run)
  <2>1. ListOf(feed', run') = L
    BY <1>1, <1>4 DEF ListOf
  <2>2. SUFFICES ASSUME NEW n \in 1..Len(L), L[n].id <= run.known, L[n].id \notin keys
                 PROVE  n > o /\ (run.earliest = 0 \/ L[n].ts <= run.earliest)
    BY <1>1, <1>4, <1>5, <2>1 DEF PagesInv, Done
  <2>3. ~Done(L[n].id)
    BY <1>1, <2>2 DEF Done
  <2>4. QED BY <1>3, <2>2, <2>3 DEF PagesInv
<1>10. LateInv'
  <2>1. SUFFICES ASSUME run.window = None, NEW n \in 1..Len(feed), feed[n].id \notin keys
                 PROVE  feed[n].ts >= Horizon(run) - Delay \/ n > o
    BY <1>1, <1>4, <1>5 DEF LateInv, Done, Horizon
  <2>2. ~Done(feed[n].id)
    BY <1>1, <2>1 DEF Done
  <2>3. QED BY <1>3, <2>1, <2>2 DEF LateInv
<1>11. QED BY <1>6, <1>8, <1>9, <1>10

\* Where no sync is under way nothing is being read.
LEMMA IdleReading ==
  ASSUME pc' \notin Steps PROVE RunInv' /\ PagesInv' /\ LateInv'
BY DEF RunInv, PagesInv, LateInv

\* The cursor an ended sync leaves is a time the feed has reached.
LEMMA CursorReached ==
  ASSUME TypeInv, RunInv, GapInv, pc \in Steps
  PROVE  /\ Reached(IF run.latest > run.from THEN run.latest ELSE cursor)
         /\ (IF run.latest > run.from THEN run.latest ELSE cursor) = Horizon(run)
BY DEF RunInv, GapInv, Horizon

LEMMA CutReading ==
  ASSUME TypeInv, IdsListed, RunInv, GapInv, Raise \/ Crash
  PROVE  IdsListed' /\ RunInv' /\ PagesInv' /\ LateInv' /\ GapInv'
<1>1. CutOff /\ UNCHANGED feed
  BY DEF Raise, Crash
<1>2. run' = NoRun /\ pc' = "idle" /\ backfill' = None /\ ~unbroken'
  BY <1>1, CutOffType
<1>3. Reached(cursor')
  <2>1. Reached(cursor)
    BY DEF GapInv
  <2>2. QED BY <2>1, CursorReached DEF Raise, Crash
<1>4. GapInv'
  BY <1>1, <1>2, <1>3 DEF GapInv, Reached
<1>5. IdsListed'
  <2>1. run'.known = 0 /\ 0 <= Len(feed)
    BY <1>2, NoRunIs DEF TypeInv, Fills
  <2>2. QED BY <1>1, <1>2, <2>1 DEF IdsListed
<1>6. QED BY <1>2, <1>4, <1>5, IdleReading DEF Steps

\* The three ways a sync goes through to its end.
LEMMA ExitHow ==
  ASSUME TypeInv, RunInv, Exits
  PROVE  \E status \in {"complete", "empty", "offset_limit_reached"} :
           /\ Ends(status, run) /\ pc \in Steps /\ ~(pc \in {"append", "register"})
           /\ \/ status = "offset_limit_reached" /\ run.earliest # 0
              \/ status # "offset_limit_reached" /\ Reading /\ Len(run.page) # PageLimit
              \/ /\ status = "complete" /\ Reading /\ ~run.full /\ run.page # <<>>
                 /\ Oldest(run.page) < run.from - Margin
<1>1. run \in Sync /\ run.offset \in Nat /\ PageLimit \in Nat /\ PageLimit >= 2 /\ ApiCap \in Nat
      /\ run.page \in Seq(Fill)
  BY Assumed DEF TypeInv, Sync
<1>2. CASE CapHit
  <2>1. run.offset > 0
    BY <1>1, <1>2 DEF CapHit
  <2>2. run.earliest # 0
    BY <1>2, <2>1 DEF CapHit, RunInv, Steps
  <2>3. Ends("offset_limit_reached", run) /\ pc = "fetch"
    BY <1>1, <1>2 DEF CapHit, Ends
  <2>4. QED BY <2>2, <2>3 DEF Steps
<1>3. CASE Exhausted
  <2> DEFINE status == IF run.offset = 0 /\ run.page = <<>> THEN "empty" ELSE "complete"
  <2>1. Ends(status, run) /\ pc = "decide" /\ Len(run.page) # PageLimit
    BY <1>1, <1>3 DEF Exhausted, Ends
  <2>2. status \in {"complete", "empty"}
    OBVIOUS
  <2> HIDE DEF status
  <2>3. QED BY <2>1, <2>2 DEF Steps, Reading
<1>4. CASE DepthReached
  <2>1. pc = "decide" /\ run.page # <<>>
    BY <1>1, <1>4 DEF DepthReached
  <2>2. run.earliest # 0
    BY <2>1 DEF RunInv, Steps, Reading
  <2>3. Ends("offset_limit_reached", run)
    BY <1>1, <1>4 DEF DepthReached, Ends
  <2>4. QED BY <2>1, <2>2, <2>3 DEF Steps
<1>5. CASE EarlyStop
  <2>1. pc = "decide" /\ run.page # <<>> /\ ~run.full /\ Oldest(run.page) < run.from - Margin
    BY <1>1, <1>5 DEF EarlyStop, StopsHere
  <2>2. Ends("complete", run)
    BY <1>1, <1>5 DEF EarlyStop, Ends
  <2>3. QED BY <2>1, <2>2 DEF Steps, Reading
<1>6. QED BY <1>2, <1>3, <1>4, <1>5 DEF Exits

\* A sync of the whole feed that ends "complete" has, or had before it, all
\* that is older than its cursor less the delay.
LEMMA ExitCovers ==
  ASSUME TypeInv, IdsListed, RunInv, PagesInv, LateInv, GapInv, Exits, unbroken', NEW n \in 1..Len(feed)
  PROVE  feed[n].id \in keys \/ feed[n].ts >= Horizon(run) - Delay
<1>1. PICK status \in {"complete", "empty", "offset_limit_reached"} :
           /\ Ends(status, run) /\ pc \in Steps /\ ~(pc \in {"append", "register"})
           /\ \/ status = "offset_limit_reached" /\ run.earliest # 0
              \/ status # "offset_limit_reached" /\ Reading /\ Len(run.page) # PageLimit
              \/ /\ status = "complete" /\ Reading /\ ~run.full /\ run.page # <<>>
                 /\ Oldest(run.page) < run.from - Margin
  BY ExitHow
<1>2. /\ run.window = None /\ status # "offset_limit_reached"
      /\ unbroken \/ (run.full /\ status \in {"complete", "empty"})
  BY <1>1, FinishIs DEF Ends, Finished
<1>3. SUFFICES ASSUME feed[n].id \notin keys, ~(feed[n].ts >= Horizon(run) - Delay) PROVE FALSE
  OBVIOUS
<1>4. Reading /\ n > ReadTo /\ Len(run.page) = PageLimit /\ feed[n].ts <= Oldest(run.page)
  BY <1>1, <1>2, <1>3 DEF LateInv, Done
<1>5. unbroken /\ run.page # <<>> /\ Oldest(run.page) < run.from - Margin
  BY <1>1, <1>2, <1>4
<1>6. feed[n].ts >= run.from - Delay
  BY <1>1, <1>3, <1>5 DEF GapInv, RunInv
<1>7. Oldest(run.page) \in Nat
  BY <1>5, EndsOfPage DEF TypeInv, Seconds
<1>8. feed[n].ts \in Nat
  <2>1. feed[n] \in Fill
    BY DEF TypeInv, Fills
  <2>2. QED BY <2>1 DEF Fill, Seconds
<1>9. run.from \in Nat /\ Delay \in Nat /\ Margin \in Nat /\ Delay <= Margin
  BY Assumed DEF TypeInv, Sync
<1>10. QED BY <1>4, <1>5, <1>6, <1>7, <1>8, <1>9

LEMMA ExitReading ==
  ASSUME TypeInv, IdsListed, RunInv, PagesInv, LateInv, GapInv, Exits
  PROVE  IdsListed' /\ RunInv' /\ PagesInv' /\ LateInv' /\ GapInv'
<1>1. PICK status \in {"complete", "empty", "offset_limit_reached"} :
           Ends(status, run) /\ pc \in Steps
  BY ExitHow
<1>2. /\ UNCHANGED <<feed, keys, backfill>> /\ run'.known = run.known
      /\ cursor' = IF run.latest > run.from THEN run.latest ELSE cursor
      /\ pc' \in {"idle", "between"}
  BY <1>1, FinishIs DEF Ends, Finished
<1>3. IdsListed'
  BY <1>2 DEF IdsListed
<1>4. Reached(cursor') /\ cursor' = Horizon(run)
  BY <1>1, <1>2, CursorReached
<1>5. GapInv'
  BY <1>2, <1>4, ExitCovers DEF GapInv, Reached
<1>6. QED BY <1>2, <1>3, <1>5, IdleReading DEF Steps

LEMMA NotHonoredReading ==
  ASSUME TypeInv, IdsListed, RunInv, GapInv, pc = "fetch", run.window # None,
         Ends("time_params_not_honored", Seen(run, PageAt(run)))
  PROVE  IdsListed' /\ RunInv' /\ PagesInv' /\ LateInv' /\ GapInv'
<1> DEFINE q == Seen(run, PageAt(run))
<1>1. SeenPage(q, run, PageAt(run)) /\ Reached(q.latest)
  BY SeenByRun, SeenReached DEF Steps
<1>2. Finished("time_params_not_honored", q)
  BY FinishIs DEF Ends
<1> HIDE DEF q
<1>3. /\ UNCHANGED <<feed, keys, backfill>> /\ run'.known = run.known
      /\ cursor' = q.latest \/ cursor' = cursor
      /\ pc' \in {"idle", "between"} /\ ~unbroken'
  BY <1>1, <1>2 DEF Ends, Finished, SeenPage
<1>4. IdsListed'
  BY <1>3 DEF IdsListed
<1>5. GapInv'
  BY <1>1, <1>3 DEF GapInv, Reached
<1>6. QED BY <1>3, <1>4, <1>5, IdleReading DEF Steps

LEMMA ReadingStep ==
  ASSUME TypeInv, IdsListed, RunInv, PagesInv, LateInv, GapInv, pc = "between" => backfill # None,
         [Next]_vars
  PROVE  IdsListed' /\ RunInv' /\ PagesInv' /\ LateInv' /\ GapInv'
<1>1. ASSUME NEW ts \in Seconds, NewFill(ts)
      PROVE  IdsListed' /\ RunInv' /\ PagesInv' /\ LateInv' /\ GapInv'
  BY <1>1, NewFillIs, AppearsReading
<1>2. CASE Start
  <2>1. CASE \E full \in BOOLEAN, window \in TimeWindow \cup {None} :
               /\ pc = "idle" /\ Begun(full, window)
               /\ backfill' = None /\ backfillStatus' = "none"
               /\ UNCHANGED <<feed, raw, keys, cursor, cut, cuts, unbroken>>
    BY <2>1, BegunReading
  <2>2. CASE \E range \in Windows :
               /\ pc = "idle" /\ Begun(TRUE, range) /\ range \in TimeWindow
               /\ backfill' = [range |-> range, windows |-> 1, known |-> Len(feed), split |-> {}]
               /\ backfillStatus' = "running"
               /\ UNCHANGED <<feed, raw, keys, cursor, cut, cuts, unbroken>>
    <3>1. PICK range \in Windows :
               /\ Begun(TRUE, range)
               /\ backfill' = [range |-> range, windows |-> 1, known |-> Len(feed), split |-> {}]
               /\ UNCHANGED <<feed, keys, cursor, unbroken>>
      BY <2>2
    <3>2. Len(feed) \in Nat /\ backfill'.known = Len(feed)
      BY <3>1 DEF TypeInv, Fills
    <3>3. backfill'.known <= Len(feed)
      BY <3>2
    <3>4. QED BY <3>1, <3>3, BegunReading
  <2>3. QED BY <1>2, <2>1, <2>2, StartIs
<1>3. CASE Exits
  BY <1>3, ExitReading
<1>4. CASE Fetch
  BY <1>4, FetchIs, ReceivedReading, NotHonoredReading
<1>5. CASE AppendMany \/ RegisterKeys
  BY <1>5, StoredReading
<1>6. CASE NextPage
  BY <1>6, NextPageReading
<1>7. CASE Raise \/ Crash
  BY <1>7, CutReading
<1>8. CASE BackfillStep
  <2>1. CASE EndBackfill
    <3>1. pc' = "idle" /\ UNCHANGED <<feed, keys, cursor, run, backfill, unbroken>>
      BY <2>1 DEF EndBackfill, disk, history
    <3>2. IdsListed' /\ GapInv'
      BY <3>1 DEF IdsListed, GapInv, Reached
    <3>3. QED BY <3>1, <3>2, IdleReading DEF Steps
  <2>2. ASSUME NEW honored \in BOOLEAN, NextWindow(honored)
        PROVE  IdsListed' /\ RunInv' /\ PagesInv' /\ LateInv' /\ GapInv'
    <3>1. /\ Begun(TRUE, Shrunk) /\ backfill \in Backfill
          /\ backfill' = [backfill EXCEPT !.windows = @ + 1, !.split = @ \cup {run.earliest}]
      BY <2>2, NextWindowIs
    <3>2. UNCHANGED <<feed, keys, cursor, unbroken>>
      BY <2>2 DEF NextWindow, history
    <3>3. backfill'.known = backfill.known /\ backfill # None
      BY <3>1, Assumed DEF Backfill
    <3>4. backfill'.known <= Len(feed)
      BY <3>3 DEF IdsListed
    <3>5. QED BY <3>1, <3>2, <3>4, BegunReading
  <2>3. QED BY <1>8, <2>1, <2>2 DEF BackfillStep
<1>9. CASE UNCHANGED vars
  <2>1. /\ IdsListed' = IdsListed /\ RunInv' = RunInv /\ PagesInv' = PagesInv
        /\ LateInv' = LateInv /\ GapInv' = GapInv
    BY <1>9 DEF vars, disk, history, IdsListed, RunInv, PagesInv, LateInv, GapInv, Reached,
                Reading, ReadTo, Done
  <2>2. QED BY <2>1
<1>10. QED
  BY <1>1, <1>2, <1>3, <1>4, <1>5, <1>6, <1>7, <1>8, <1>9 DEF Next, SyncStep, Exits

(***************************************************************************)
(* What a sync and a backfill can say                                      *)
(***************************************************************************)

\* While a sync is under way, what was promised before it is not, and what a
\* backfill has so far it keeps.
LEMMA OngoingResults ==
  ASSUME TypeInv, BackInv, BackCovers, pc \in Steps, pc' \in Steps,
         UNCHANGED <<feed, backfill, backfillStatus>>, keys \subseteq keys',
         run'.full = run.full, run'.window = run.window, run'.known = run.known
  PROVE  FullCovers' /\ NoGap' /\ LeftInv' /\ BackInv' /\ BackCovers'
<1>1. pc' \notin {"idle", "between"} /\ pc # "idle"
  BY DEF Steps
<1>2. FullCovers' /\ NoGap' /\ LeftInv'
  BY <1>1 DEF FullCovers, NoGap, LeftInv
<1>3. BackInv'
  BY <1>1 DEF BackInv, InRange
<1>4. BackCovers'
  BY <1>1 DEF BackCovers
<1>5. QED BY <1>2, <1>3, <1>4

LEMMA StartResults ==
  ASSUME TypeInv, BackInv, Start
  PROVE  FullCovers' /\ NoGap' /\ LeftInv' /\ BackInv' /\ BackCovers'
<1>1. pc' = "fetch" /\ backfillStatus' # "complete"
  BY StartIs DEF Begun
<1>2. FullCovers' /\ NoGap' /\ LeftInv' /\ BackCovers'
  BY <1>1 DEF FullCovers, NoGap, LeftInv, BackCovers
<1>3. BackInv'
  <2>1. CASE \E full \in BOOLEAN, window \in TimeWindow \cup {None} :
               /\ pc = "idle" /\ Begun(full, window)
               /\ backfill' = None /\ backfillStatus' = "none"
               /\ UNCHANGED <<feed, raw, keys, cursor, cut, cuts, unbroken>>
    BY <1>1, <2>1 DEF BackInv
  <2>2. CASE \E range \in Windows :
               /\ pc = "idle" /\ Begun(TRUE, range) /\ range \in TimeWindow
               /\ backfill' = [range |-> range, windows |-> 1, known |-> Len(feed), split |-> {}]
               /\ backfillStatus' = "running"
               /\ UNCHANGED <<feed, raw, keys, cursor, cut, cuts, unbroken>>
    <3>1. PICK range \in Windows :
               /\ Begun(TRUE, range) /\ range \in TimeWindow
               /\ backfill' = [range |-> range, windows |-> 1, known |-> Len(feed), split |-> {}]
               /\ UNCHANGED feed
      BY <2>2
    <3>2. /\ run'.full /\ run'.window = range /\ run'.known = Len(feed)
          /\ backfill'.range = range /\ backfill'.known = Len(feed) /\ range # None
          /\ Len(feed) \in Nat
      BY <3>1, Assumed DEF Begun, TypeInv, Fills
    <3>3. backfill' # None
      <4>1. backfill' \in Backfill
        BY <3>1, <3>2 DEF Backfill
      <4>2. QED BY <4>1, Assumed
    <3>4. ASSUME NEW f \in Fill, range.lo < f.ts /\ f.ts <= range.hi, f.ts > range.hi PROVE FALSE
      <4>1. f.ts \in Int /\ range.hi \in Int
        BY <3>1 DEF Fill, Seconds, TimeWindow
      <4>2. QED BY <3>4, <4>1
    <3>5. \A n \in 1..Len(feed) : feed[n] \in Fill
      BY DEF TypeInv, Fills
    <3>6. backfillStatus' = "running"
      BY <2>2
    <3>7. \A n \in 1..Len(feed') : InRange(feed[n])' => ~(feed'[n].ts > run'.window.hi)
      BY <3>1, <3>2, <3>4, <3>5 DEF InRange
    <3>8. QED BY <1>1, <3>1, <3>2, <3>3, <3>6, <3>7 DEF BackInv, InRange
  <2>3. QED BY <2>1, <2>2, StartIs
<1>4. QED BY <1>2, <1>3

LEMMA CutResults ==
  ASSUME TypeInv, Raise \/ Crash
  PROVE  FullCovers' /\ NoGap' /\ LeftInv' /\ BackInv' /\ BackCovers'
<1>1. run' = NoRun /\ pc' = "idle" /\ backfill' = None /\ ~unbroken' /\ backfillStatus' = "none"
  BY CutOffType DEF Raise, Crash
<1>2. ~run'.full
  BY <1>1, NoRunIs
<1>3. QED BY <1>1, <1>2 DEF FullCovers, NoGap, LeftInv, BackInv, BackCovers

\* What a run that goes through to its end has.
LEMMA ExitLists ==
  ASSUME TypeInv, RunInv, PagesInv, pc \in Steps, pc \notin {"append", "register"},
         NEW n \in 1..Len(feed), feed[n].id <= run.known, InWindow(run, feed[n]),
         feed[n].id \notin keys
  PROVE  /\ Reading => Len(run.page) = PageLimit
         /\ run.earliest = 0 \/ feed[n].ts <= run.earliest
<1>1. run \in Sync /\ Fills(feed)
  BY DEF TypeInv
<1>2. PICK k \in 1..Len(ListOf(feed, run)) : ListOf(feed, run)[k] = feed[n]
  BY <1>1, ListOfIs
<1>3. ~Done(feed[n].id)
  BY DEF Done
<1>4. QED BY <1>2, <1>3 DEF PagesInv

LEMMA ExitResults ==
  ASSUME TypeInv, IdsListed, RunInv, PagesInv, GapInv, BackInv, BackCovers, Exits
  PROVE  FullCovers' /\ NoGap' /\ LeftInv' /\ BackInv' /\ BackCovers'
<1>1. PICK status \in {"complete", "empty", "offset_limit_reached"} :
           /\ Ends(status, run) /\ pc \in Steps /\ ~(pc \in {"append", "register"})
           /\ \/ status = "offset_limit_reached" /\ run.earliest # 0
              \/ status # "offset_limit_reached" /\ Reading /\ Len(run.page) # PageLimit
              \/ /\ status = "complete" /\ Reading /\ ~run.full /\ run.page # <<>>
                 /\ Oldest(run.page) < run.from - Margin
  BY ExitHow
<1>2. /\ UNCHANGED <<feed, keys, backfill, backfillStatus>> /\ row' = status
      /\ run'.full = run.full /\ run'.window = run.window /\ run'.known = run.known
      /\ run'.earliest = run.earliest /\ pc' = IF backfill = None THEN "idle" ELSE "between"
      /\ unbroken' => /\ run.window = None /\ status # "offset_limit_reached"
                      /\ unbroken \/ (run.full /\ status \in {"complete", "empty"})
  BY <1>1, FinishIs DEF Ends, Finished
<1>3. pc # "idle"
  BY <1>1 DEF Steps
<1>4. \A n \in 1..Len(feed) : feed[n].ts \in Nat
  <2>1. \A n \in 1..Len(feed) : feed[n] \in Fill
    BY DEF TypeInv, Fills
  <2>2. QED BY <2>1 DEF Fill, Seconds
<1>5. run.earliest \in Nat
  BY DEF TypeInv, Sync
<1>6. ASSUME NEW n \in 1..Len(feed), feed[n].id <= run.known, InWindow(run, feed[n]), run.full,
             status = "offset_limit_reached" => feed[n].ts > run.earliest
      PROVE  feed[n].id \in keys
  <2>1. SUFFICES ASSUME feed[n].id \notin keys PROVE FALSE
    OBVIOUS
  <2>2. (Reading => Len(run.page) = PageLimit) /\ (run.earliest = 0 \/ feed[n].ts <= run.earliest)
    BY <1>1, <1>6, <2>1, ExitLists
  <2>3. status = "offset_limit_reached" /\ run.earliest # 0
    BY <1>1, <1>6, <2>2
  <2>4. QED BY <1>4, <1>5, <1>6, <2>2, <2>3
<1>7. FullCovers'
  BY <1>2, <1>6 DEF FullCovers, InWindow
<1>8. NoGap'
  <2>1. SUFFICES ASSUME status = "complete", unbroken', NEW id \in 1..run.known, id \notin keys PROVE FALSE
    BY <1>2 DEF NoGap
  <2>2. PICK n \in 1..Len(feed) : feed[n].id = id
    <3>1. run.known \in Nat /\ run.known <= Len(feed) /\ Len(feed) \in Nat
      BY DEF TypeInv, Fills, Sync, IdsListed
    <3>2. id \in 1..Len(feed)
      BY <3>1
    <3>3. QED BY <3>2 DEF IdsListed
  <2>3. feed[n].id <= run.known /\ InWindow(run, feed[n]) /\ feed[n].id \notin keys
    BY <1>2, <2>1, <2>2 DEF InWindow
  <2>4. (Reading => Len(run.page) = PageLimit) /\ (run.earliest = 0 \/ feed[n].ts <= run.earliest)
    BY <1>1, <2>3, ExitLists
  <2>5. Reading /\ ~run.full /\ run.page # <<>> /\ Oldest(run.page) < run.from - Margin
    BY <1>1, <2>1, <2>4
  <2>6. feed[n].ts >= run.from - Delay
    BY <1>1, <1>2, <2>1, <2>3, <2>5 DEF GapInv, RunInv
  <2>7. run.earliest # 0 /\ run.earliest <= Oldest(run.page)
    BY <1>1, <2>5 DEF RunInv
  <2>8. Oldest(run.page) \in Nat
    BY <2>5, EndsOfPage DEF TypeInv, Seconds
  <2>9. run.from \in Nat /\ Delay \in Nat /\ Margin \in Nat /\ Delay <= Margin
    BY Assumed DEF TypeInv, Sync
  <2>10. QED BY <1>4, <1>5, <2>4, <2>5, <2>6, <2>7, <2>8, <2>9
<1>9. LeftInv'
  <2>1. SUFFICES ASSUME backfill # None
                 PROVE  /\ status = "offset_limit_reached" => run.earliest # 0
                        /\ \A n \in 1..Len(feed) :
                             /\ feed[n].id <= run.known /\ InWindow(run, feed[n])
                             /\ status = "offset_limit_reached" => feed[n].ts > run.earliest
                             => feed[n].id \in keys
    BY <1>2 DEF LeftInv, InWindow
  <2>2. run.full
    BY <1>3, <2>1 DEF BackInv
  <2>3. QED BY <1>1, <1>6, <2>2
<1>10. BackInv'
  BY <1>2, <1>3 DEF BackInv, InRange
<1>11. BackCovers'
  BY <1>2, <1>3 DEF BackCovers
<1>12. QED BY <1>7, <1>8, <1>9, <1>10, <1>11

LEMMA NotHonoredResults ==
  ASSUME TypeInv, BackInv, BackCovers, pc = "fetch", run.window # None,
         Ends("time_params_not_honored", Seen(run, PageAt(run)))
  PROVE  FullCovers' /\ NoGap' /\ LeftInv' /\ BackInv' /\ BackCovers'
<1> DEFINE q == Seen(run, PageAt(run))
<1>1. SeenPage(q, run, PageAt(run))
  BY SeenByRun
<1>2. Finished("time_params_not_honored", q)
  BY FinishIs DEF Ends
<1> HIDE DEF q
<1>3. /\ UNCHANGED <<feed, keys, backfill, backfillStatus>> /\ row' = "time_params_not_honored"
      /\ run'.full = run.full /\ run'.window = run.window /\ run'.known = run.known
      /\ pc' = IF backfill = None THEN "idle" ELSE "between"
  BY <1>1, <1>2 DEF Ends, Finished, SeenPage
<1>4. FullCovers' /\ NoGap' /\ LeftInv'
  BY <1>3 DEF FullCovers, NoGap, LeftInv
<1>5. BackInv'
  BY <1>3 DEF BackInv, InRange
<1>6. BackCovers'
  BY <1>3 DEF BackCovers
<1>7. QED BY <1>4, <1>5, <1>6

\* What a backfill has when one of its windows has ended.
LEMMA BetweenHas ==
  ASSUME TypeInv, IdsListed, LeftInv, BackInv, pc = "between", row # "time_params_not_honored",
         NEW n \in 1..Len(feed), feed[n].id <= backfill.known, InRange(feed[n]),
         feed[n].ts \notin backfill.split,
         row = "offset_limit_reached" => feed[n].ts > run.earliest
  PROVE  feed[n].id \in keys
<1>1. /\ backfill # None /\ run.full /\ run.window # None
      /\ run.window.lo = backfill.range.lo /\ backfill.known <= run.known
      /\ \A m \in 1..Len(feed) :
           /\ feed[m].id <= backfill.known /\ InRange(feed[m])
           /\ feed[m].ts > run.window.hi /\ feed[m].ts \notin backfill.split
           => feed[m].id \in keys
  BY DEF BackInv
<1>2. feed[n] \in Fill /\ run.window \in TimeWindow /\ backfill \in Backfill /\ run.known \in Nat
  BY <1>1 DEF TypeInv, Fills, Sync
<1>3. feed[n].ts \in Int /\ feed[n].id \in Nat /\ run.window.hi \in Int /\ backfill.known \in Nat
  BY <1>2 DEF Fill, Seconds, Ids, TimeWindow, Backfill
<1>4. CASE feed[n].ts > run.window.hi
  BY <1>1, <1>4
<1>5. CASE ~(feed[n].ts > run.window.hi)
  <2>1. InWindow(run, feed[n])
    BY <1>1, <1>3, <1>5 DEF InWindow, InRange
  <2>2. feed[n].id <= run.known
    BY <1>1, <1>2, <1>3
  <2>3. QED BY <2>1, <2>2 DEF LeftInv
<1>6. QED BY <1>4, <1>5

\* The next window loses nothing: what is newer than its end is there, but
\* for the second the last one was cut off at.
LEMMA NextWindowResults ==
  ASSUME TypeInv, IdsListed, LeftInv, BackInv, NEW honored \in BOOLEAN, NextWindow(honored)
  PROVE  FullCovers' /\ NoGap' /\ LeftInv' /\ BackInv' /\ BackCovers'
<1>1. pc = "between" => backfill # None
  BY DEF BackInv
<1>2. /\ Begun(TRUE, Shrunk) /\ Shrunk \in TimeWindow /\ backfill \in Backfill
      /\ backfill' = [backfill EXCEPT !.windows = @ + 1, !.split = @ \cup {run.earliest}]
      /\ backfill' \in Backfill
  BY <1>1, NextWindowIs
<1>3. /\ pc = "between" /\ row = "offset_limit_reached"
      /\ UNCHANGED <<feed, keys, backfillStatus>>
  BY DEF NextWindow, Shrinks
<1>4. /\ pc' = "fetch" /\ run'.full /\ run'.window = Shrunk /\ run'.known = Len(feed)
      /\ Shrunk # None /\ backfill' # None /\ backfill # None
  BY <1>2, Assumed DEF Begun
<1>5. /\ backfill'.range = backfill.range /\ backfill'.known = backfill.known
      /\ backfill'.split = backfill.split \cup {run.earliest}
  BY <1>2 DEF Backfill
<1>6. Shrunk.lo = backfill.range.lo /\ Shrunk.hi = run.earliest - 1
  BY DEF Shrunk, NewEnd
<1>7. backfillStatus = "running" /\ backfill.known <= Len(feed)
  BY <1>3, <1>4 DEF BackInv, IdsListed
<1>8. ASSUME NEW n \in 1..Len(feed), feed[n].id <= backfill.known, InRange(feed[n]),
             feed[n].ts > Shrunk.hi, feed[n].ts \notin backfill.split, feed[n].ts # run.earliest
      PROVE  feed[n].id \in keys
  <2>1. feed[n].ts \in Int /\ run.earliest \in Int
    <3>1. feed[n] \in Fill
      BY DEF TypeInv, Fills
    <3>2. QED BY <3>1 DEF Fill, Seconds, TypeInv, Sync
  <2>2. feed[n].ts > run.earliest
    BY <1>6, <1>8, <2>1
  <2>3. QED BY <1>3, <1>8, <2>2, BetweenHas
<1>9. FullCovers' /\ NoGap' /\ LeftInv' /\ BackCovers'
  BY <1>3, <1>4, <1>7 DEF FullCovers, NoGap, LeftInv, BackCovers
<1>10. BackInv'
  <2>1. \A n \in 1..Len(feed) : InRange(feed[n])' => InRange(feed[n])
    BY <1>3, <1>5 DEF InRange
  <2>2. ASSUME NEW n \in 1..Len(feed'), feed'[n].id <= backfill'.known, InRange(feed[n])',
               feed'[n].ts > run'.window.hi, feed'[n].ts \notin backfill'.split
        PROVE  feed'[n].id \in keys'
    BY <1>3, <1>4, <1>5, <1>8, <2>1, <2>2
  <2>3. QED BY <1>3, <1>4, <1>5, <1>6, <1>7, <2>2 DEF BackInv, InRange
<1>11. QED BY <1>9, <1>10

\* A backfill that says complete has nothing left to shrink to.
LEMMA EndBackfillResults ==
  ASSUME TypeInv, IdsListed, FullCovers, NoGap, LeftInv, BackInv, EndBackfill
  PROVE  FullCovers' /\ NoGap' /\ LeftInv' /\ BackInv' /\ BackCovers'
<1>1. /\ pc = "between" /\ pc' = "idle" /\ backfillStatus' = BackfillStatus
      /\ UNCHANGED <<feed, keys, row, run, backfill, unbroken>>
  BY DEF EndBackfill, disk, history
<1>2. /\ backfill # None /\ run.window # None
  BY <1>1 DEF BackInv
<1>3. run.window.hi \in Int /\ run.earliest \in Nat /\ backfill.range.lo \in Int
  <2>1. run.window \in TimeWindow /\ backfill.range \in TimeWindow
    BY <1>2 DEF TypeInv, Sync, Backfill
  <2>2. QED BY <2>1 DEF TimeWindow, TypeInv, Sync
<1>4. BackfillStatus # "running"
  <2>1. CASE Shrinks /\ NewEnd >= run.window.hi
    BY <1>3, <2>1 DEF BackfillStatus, NewEnd, Shrinks
  <2>2. CASE Shrinks /\ NewEnd < run.window.hi
    BY <1>3, <2>2 DEF BackfillStatus, NewEnd, Shrinks
  <2>3. CASE ~Shrinks
    BY <2>3 DEF BackfillStatus
  <2>4. QED BY <1>3, <2>1, <2>2, <2>3 DEF NewEnd
<1>5. BackfillStatus = "complete" => ~Shrinks /\ row # "time_params_not_honored"
  <2>1. CASE Shrinks /\ NewEnd >= run.window.hi
    BY <1>3, <2>1 DEF BackfillStatus, NewEnd, Shrinks
  <2>2. CASE Shrinks /\ NewEnd < run.window.hi
    BY <1>3, <2>2 DEF BackfillStatus, NewEnd, Shrinks
  <2>3. CASE ~Shrinks
    BY <2>3 DEF BackfillStatus
  <2>4. QED BY <1>3, <2>1, <2>2, <2>3 DEF NewEnd
<1>6. FullCovers' /\ NoGap' /\ LeftInv' /\ BackInv'
  BY <1>1, <1>4 DEF FullCovers, NoGap, LeftInv, BackInv, InWindow
<1>7. BackCovers'
  <2>1. SUFFICES ASSUME BackfillStatus = "complete",
                        NEW n \in 1..Len(feed), feed[n].id <= backfill.known, InRange(feed[n]),
                        feed[n].ts \notin backfill.split
                 PROVE  feed[n].id \in keys
    BY <1>1, <1>2 DEF BackCovers, InRange
  <2>2. ~Shrinks /\ row # "time_params_not_honored"
    BY <1>5, <2>1
  <2>3. row = "offset_limit_reached" => feed[n].ts > run.earliest
    <3>1. feed[n] \in Fill
      BY DEF TypeInv, Fills
    <3>2. feed[n].ts \in Int
      BY <3>1 DEF Fill, Seconds
    <3>3. backfill.range.lo < feed[n].ts
      BY <2>1 DEF InRange
    <3>4. QED BY <1>3, <2>2, <3>2, <3>3 DEF Shrinks
  <2>4. QED BY <1>1, <2>1, <2>2, <2>3, BetweenHas
<1>8. QED BY <1>6, <1>7

LEMMA ResultsStep ==
  ASSUME IInv, [Next]_vars
  PROVE  FullCovers' /\ NoGap' /\ LeftInv' /\ BackInv' /\ BackCovers'
<1> USE DEF IInv
<1>1. ASSUME NEW ts \in Seconds, NewFill(ts)
      PROVE  FullCovers' /\ NoGap' /\ LeftInv' /\ BackInv' /\ BackCovers'
  BY <1>1, NewFillIs, AppearsResults
<1>2. CASE Start
  BY <1>2, StartResults
<1>3. CASE Exits
  BY <1>3, ExitResults
<1>4. CASE Fetch
  <2>1. CASE Received
    <3>1. SeenPage(Seen(run, PageAt(run)), run, PageAt(run))
      BY SeenByRun
    <3>2. /\ pc \in Steps /\ pc' \in Steps /\ UNCHANGED <<feed, keys, backfill, backfillStatus>>
          /\ run'.full = run.full /\ run'.window = run.window /\ run'.known = run.known
      BY <2>1, <3>1 DEF Received, SeenPage, Steps
    <3>3. QED BY <3>2, OngoingResults
  <2>2. QED BY <1>4, <2>1, FetchIs, NotHonoredResults
<1>5. CASE AppendMany \/ RegisterKeys
  <2>1. /\ pc \in Steps /\ pc' \in Steps /\ UNCHANGED <<feed, run, backfill, backfillStatus>>
        /\ keys \subseteq keys'
    BY <1>5 DEF AppendMany, RegisterKeys, Steps
  <2>2. QED BY <2>1, OngoingResults
<1>6. CASE NextPage
  <2>1. /\ pc \in Steps /\ pc' \in Steps /\ UNCHANGED <<feed, keys, backfill, backfillStatus>>
        /\ run'.full = run.full /\ run'.window = run.window /\ run'.known = run.known
    BY <1>6 DEF NextPage, Steps, disk, TypeInv, Sync
  <2>2. QED BY <2>1, OngoingResults
<1>7. CASE Raise \/ Crash
  BY <1>7, CutResults
<1>8. CASE BackfillStep
  BY <1>8, NextWindowResults, EndBackfillResults DEF BackfillStep
<1>9. CASE UNCHANGED vars
  BY <1>9 DEF vars, disk, history, FullCovers, NoGap, LeftInv, BackInv, BackCovers, InWindow, InRange
<1>10. QED
  BY <1>1, <1>2, <1>3, <1>4, <1>5, <1>6, <1>7, <1>8, <1>9 DEF Next, SyncStep, Exits

(***************************************************************************)
(* The theorems                                                            *)
(***************************************************************************)

LEMMA InitHolds == Init => IInv
<1> SUFFICES ASSUME Init PROVE IInv
  OBVIOUS
<1>1. Fills(<<>>)
  BY DEF Fills, Sorted
<1>2. TypeInv
  BY <1>1, NoRunIs, Assumed DEF Init, TypeInv, RawFile
<1>3. NoDoubles
  BY DEF Init, NoDoubles, Has
<1>4. IdsListed
  BY NoRunIs DEF Init, IdsListed
<1>5. FreshIsNew /\ RunInv /\ PagesInv /\ LateInv
  BY DEF Init, FreshIsNew, RunInv, PagesInv, LateInv, Steps
<1>6. GapInv
  BY DEF Init, GapInv, Reached
<1>7. FullCovers /\ NoGap /\ LeftInv /\ BackInv /\ BackCovers
  BY DEF Init, FullCovers, NoGap, LeftInv, BackInv, BackCovers
<1>8. QED BY <1>2, <1>3, <1>4, <1>5, <1>6, <1>7 DEF IInv

LEMMA NextHolds == IInv /\ [Next]_vars => IInv'
<1> SUFFICES ASSUME IInv, [Next]_vars PROVE IInv'
  OBVIOUS
<1>1. pc = "between" => backfill # None
  BY DEF IInv, BackInv
<1>2. TypeInv'
  BY <1>1, TypeStep DEF IInv
<1>3. NoDoubles' /\ FreshIsNew'
  BY <1>1, FileStep DEF IInv
<1>4. IdsListed' /\ RunInv' /\ PagesInv' /\ LateInv' /\ GapInv'
  BY <1>1, ReadingStep DEF IInv
<1>5. FullCovers' /\ NoGap' /\ LeftInv' /\ BackInv' /\ BackCovers'
  BY ResultsStep
<1>6. QED BY <1>2, <1>3, <1>4, <1>5 DEF IInv

LEMMA InvariantHolds == Spec => []IInv
<1>1. QED BY InitHolds, NextHolds, PTL DEF Spec

\* A fill that no run was cut short over is in the raw file at most once,
\* however the pages shift while they are read.
THEOREM WrittenOnce == Spec => []DuplicatesOnlyAfterCut
<1>1. IInv => DuplicatesOnlyAfterCut
  BY DEF IInv, NoDoubles, DuplicatesOnlyAfterCut, Has, Copies
<1>2. QED BY <1>1, InvariantHolds, PTL

\* A full sync that says complete has every fill it was asked for that the
\* API had when it started.
THEOREM CompleteMeansAll == Spec => []FullSyncCoversFeed
<1>1. IInv => FullSyncCoversFeed
  <2> HAVE IInv
  <2>1. feed \in Seq(Fill)
    BY DEF IInv, TypeInv, Fills
  <2>2. \A f \in Range(feed) : \E n \in 1..Len(feed) : feed[n] = f
    BY <2>1 DEF Range
  <2>3. QED BY <2>2 DEF IInv, FullCovers, FullSyncCoversFeed, Asked, InWindow
<1>2. QED BY <1>1, InvariantHolds, PTL

\* An incremental sync that stops early leaves no hole behind it: no fill
\* comes later than the margin it looks back over.
THEOREM StopsWithoutGap == Spec => []IncrementalLeavesNoGap
<1>1. IInv => IncrementalLeavesNoGap
  BY DEF IInv, NoGap, IncrementalLeavesNoGap
<1>2. QED BY <1>1, InvariantHolds, PTL

\* The windows of a backfill leave out nothing of its range but seconds at
\* which one of them was cut off.
THEOREM WindowsCoverRange == Spec => []BackfillCoversRange
<1>1. IInv => BackfillCoversRange
  <2> HAVE IInv
  <2>1. feed \in Seq(Fill)
    BY DEF IInv, TypeInv, Fills
  <2>2. \A f \in Range(feed) : \E n \in 1..Len(feed) : feed[n] = f
    BY <2>1 DEF Range
  <2>3. QED BY <2>2 DEF IInv, BackCovers, BackfillCoversRange
<1>2. QED BY <1>1, InvariantHolds, PTL
==============================================================================
