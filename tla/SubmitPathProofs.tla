-------------------------- MODULE SubmitPathProofs --------------------------
(***************************************************************************)
(* Proofs about SubmitPath for any ids, orders, portfolios and limits.     *)
(* Sums over the holds are taken by induction over finite sets, in the     *)
(* form the provers can use: a smallest counterexample does not exist.     *)
(***************************************************************************)
EXTENDS SubmitPath, FiniteSets, SequenceTheorems, FiniteSetTheorems,
        WellFoundedInduction, TLAPS

\* A prefix of a sequence, and where the elements of the rest come from.
LEMMA Prefixes ==
  ASSUME NEW S, NEW s \in Seq(S), NEW n \in 0..Len(s)
  PROVE  /\ SubSeq(s, 1, n) \in Seq(S) /\ Len(SubSeq(s, 1, n)) = n
         /\ \A k \in 1..n : SubSeq(s, 1, n)[k] = s[k]
         /\ \A k \in (n + 1)..Len(s) : s[k] \in S
<1>1. \A k \in 1..Len(s) : s[k] \in S
  OBVIOUS
<1>2. \A k \in (n + 1)..Len(s) : k \in 1..Len(s)
  OBVIOUS
<1>3. SubSeq(s, 1, n) \in Seq(S) /\ Len(SubSeq(s, 1, n)) = n
  OBVIOUS
<1>4. \A k \in 1..n : SubSeq(s, 1, n)[k] = s[k]
  OBVIOUS
<1>5. QED BY <1>1, <1>2, <1>3, <1>4

\* Among some subsets of a finite set one has no other below it: what the
\* inductions over finite sets rest on.
LEMMA SmallestSubset ==
  ASSUME NEW S, IsFiniteSet(S), NEW B \in SUBSET SUBSET S, B # {}
  PROVE  \E m \in B : \A t \in B : t \subseteq m => t = m
<1>1. IsWellFoundedOn(StrictSubsetOrdering(S), FiniteSubsetsOf(S))
  BY FS_StrictSubsetOrderingWellFounded
<1>2. B \subseteq FiniteSubsetsOf(S)
  BY FS_Subset DEF FiniteSubsetsOf
<1>3. \E m \in B : \A t \in B : ~ (<<t, m>> \in StrictSubsetOrdering(S))
  BY <1>1, <1>2, WFMin
<1>4. QED BY <1>3 DEF StrictSubsetOrdering

\* The sum of a function over a set, and the function it is computed with.
SumOf(f, S) == MapThenSumSet(LAMBDA x : f[x], S)
One(s)      == CHOOSE x \in s : TRUE
SumRec(f, S, g) ==
  g = [s \in SUBSET S |-> IF s = {} THEN 0
                          ELSE LET x == One(s) IN f[x] + g[s \ {x}]]
Sums(f, S) == CHOOSE g : SumRec(f, S, g)

LEMMA SumOfSums ==
  ASSUME NEW f, NEW S
  PROVE  SumOf(f, S) = Sums(f, S)[S]
  BY DEF SumOf, MapThenSumSet, MapThenFoldSet, SumRec, Sums, One

LEMMA OneIn == ASSUME NEW s, s # {} PROVE One(s) \in s
  BY DEF One

\* What such a function is at the empty set and elsewhere.
LEMMA SumRecAt ==
  ASSUME NEW f, NEW S, NEW g, SumRec(f, S, g), NEW s \in SUBSET S
  PROVE  /\ s = {} => g[s] = 0
         /\ s # {} => g[s] = f[One(s)] + g[s \ {One(s)}]
<1> DEFINE h == [z \in SUBSET S |-> IF z = {} THEN 0
                          ELSE LET x == One(z) IN f[x] + g[z \ {x}]]
<1>1. g = h
  BY DEF SumRec
<1>2. h[s] = IF s = {} THEN 0 ELSE f[One(s)] + g[s \ {One(s)}]
  OBVIOUS
<1> HIDE DEF h
<1>3. QED BY <1>1, <1>2

\* Two such functions agree where both are defined.
LEMMA SumsAgree ==
  ASSUME NEW f, NEW S, NEW T, IsFiniteSet(S), NEW g, NEW h,
         SumRec(f, S, g), SumRec(f, T, h)
  PROVE  \A s \in SUBSET (S \cap T) : g[s] = h[s]
<1> DEFINE B == {s \in SUBSET (S \cap T) : g[s] # h[s]}
<1>1. SUFFICES ASSUME B # {} PROVE FALSE
  OBVIOUS
<1>2. B \in SUBSET SUBSET S
  OBVIOUS
<1> HIDE DEF B
<1>3. PICK m \in B : \A t \in B : t \subseteq m => t = m
  BY <1>1, <1>2, SmallestSubset
<1> USE DEF B
<1>4. m \in SUBSET S /\ m \in SUBSET T /\ g[m] # h[m]
  BY <1>3
<1>5. CASE m = {}
  BY <1>4, <1>5, SumRecAt
<1>6. CASE m # {}
  <2> DEFINE x == One(m)
             r == m \ {x}
  <2>1. x \in m
    BY <1>6, OneIn
  <2>2. r \subseteq m /\ r # m
    BY <2>1
  <2>3. g[r] = h[r]
    BY <1>3, <1>4, <2>2
  <2>4. g[m] = f[x] + g[r]
    BY <1>4, <1>6, SumRecAt
  <2>5. h[m] = f[x] + h[r]
    BY <1>4, <1>6, SumRecAt
  <2>6. QED BY <1>4, <2>3, <2>4, <2>5
<1>7. QED BY <1>5, <1>6

\* So a smaller set has the same sum under both.
LEMMA SumsMatch ==
  ASSUME NEW f, NEW S, NEW T, S \in SUBSET T, IsFiniteSet(S), NEW g, NEW h,
         SumRec(f, S, g), SumRec(f, T, h)
  PROVE  g[S] = h[S]
<1>1. \A s \in SUBSET (S \cap T) : g[s] = h[s]
  BY SumsAgree
<1>2. S \in SUBSET (S \cap T)
  OBVIOUS
<1>3. QED BY <1>1, <1>2

\* On a finite set there is such a function.
LEMMA SumsExist ==
  ASSUME NEW f, NEW S, IsFiniteSet(S)
  PROVE  SumRec(f, S, Sums(f, S))
<1> DEFINE B == {s \in SUBSET S : ~ \E g : SumRec(f, s, g)}
<1>1. ASSUME B # {} PROVE FALSE
  <2>0. B \in SUBSET SUBSET S
    OBVIOUS
  <2> HIDE DEF B
  <2>1. PICK m \in B : \A t \in B : t \subseteq m => t = m
    BY <1>1, <2>0, SmallestSubset
  <2> USE DEF B
  <2>2. IsFiniteSet(m) /\ m \in SUBSET S
    BY <2>1, FS_Subset
  <2>3. \A t \in SUBSET m : t # m => SumRec(f, t, Sums(f, t))
    BY <2>1, <2>2 DEF Sums
  <2> DEFINE v == [s \in SUBSET m |->
                     IF s = {} THEN 0
                     ELSE LET x == One(s) IN f[x] + Sums(f, s \ {x})[s \ {x}]]
  <2>4. ASSUME NEW t \in SUBSET m, t # m PROVE v[t] = Sums(f, t)[t]
    <3>1. SumRec(f, t, Sums(f, t))
      BY <2>3, <2>4
    <3>2. CASE t = {}
      <4>1. v[t] = 0
        BY <3>2
      <4>2. Sums(f, t)[t] = 0
        BY <3>1, <3>2, SumRecAt
      <4>3. QED BY <4>1, <4>2
    <3>3. CASE t # {}
      <4> DEFINE y == One(t)
                 u == t \ {y}
      <4>1. y \in t /\ u \in SUBSET m /\ u # m /\ u \in SUBSET t
        BY <2>4, <3>3, OneIn
      <4>2. SumRec(f, u, Sums(f, u))
        BY <2>3, <4>1
      <4>3. IsFiniteSet(u)
        BY <2>2, <4>1, FS_Subset
      <4>4. v[t] = f[y] + Sums(f, u)[u]
        BY <3>3
      <4>5. Sums(f, t)[t] = f[y] + Sums(f, t)[u]
        BY <3>1, <3>3, SumRecAt
      <4> HIDE DEF u, y, v, B
      <4>6. Sums(f, u)[u] = Sums(f, t)[u]
        BY <3>1, <4>1, <4>2, <4>3, SumsMatch
      <4>7. QED BY <4>4, <4>5, <4>6
    <3>4. QED BY <3>2, <3>3
  <2>5. ASSUME NEW s \in SUBSET m, s # {}
        PROVE  Sums(f, s \ {One(s)})[s \ {One(s)}] = v[s \ {One(s)}]
    <3>1. One(s) \in s
      BY <2>5, OneIn
    <3>2. s \ {One(s)} \in SUBSET m /\ s \ {One(s)} # m
      BY <3>1
    <3>3. QED BY <2>4, <3>2
  <2>6. v = [s \in SUBSET m |-> IF s = {} THEN 0
                               ELSE LET x == One(s) IN f[x] + v[s \ {x}]]
    <3> DEFINE w == [s \in SUBSET m |-> IF s = {} THEN 0
                               ELSE LET x == One(s) IN f[x] + v[s \ {x}]]
    <3>1. ASSUME NEW s \in SUBSET m PROVE v[s] = w[s]
      <4>1. CASE s = {}
        BY <4>1
      <4>2. CASE s # {}
        <5>1. v[s] = f[One(s)] + Sums(f, s \ {One(s)})[s \ {One(s)}]
          BY <4>2
        <5>2. w[s] = f[One(s)] + v[s \ {One(s)}]
          BY <4>2
        <5>3. QED BY <2>5, <4>2, <5>1, <5>2
      <4>3. QED BY <4>1, <4>2
    <3>2. v = [s \in SUBSET m |-> v[s]] /\ w = [s \in SUBSET m |-> w[s]]
      OBVIOUS
    <3> HIDE DEF v, w
    <3>3. v = w
      BY <3>1, <3>2
    <3>4. QED BY <3>3 DEF w
  <2>7. SumRec(f, m, v)
    BY <2>6 DEF SumRec
  <2>8. QED BY <2>1, <2>7
<1>2. \E g : SumRec(f, S, g)
  BY <1>1
<1>3. QED BY <1>2 DEF Sums

\* The sum over the empty set, and the sum with one element taken out.
LEMMA SumEmpty == ASSUME NEW f PROVE SumOf(f, {}) = 0
<1>1. IsFiniteSet({})
  BY FS_EmptySet
<1>2. SumRec(f, {}, Sums(f, {}))
  BY <1>1, SumsExist
<1>3. Sums(f, {})[{}] = 0
  BY <1>2, SumRecAt
<1>4. QED BY <1>3, SumOfSums

LEMMA SumOne ==
  ASSUME NEW f, NEW S, IsFiniteSet(S), S # {}
  PROVE  SumOf(f, S) = f[One(S)] + SumOf(f, S \ {One(S)})
<1> DEFINE T == S \ {One(S)}
<1>1. IsFiniteSet(T) /\ T \in SUBSET S
  BY FS_Subset
<1>2. SumRec(f, S, Sums(f, S)) /\ SumRec(f, T, Sums(f, T))
  BY <1>1, SumsExist
<1>3. S \in SUBSET S
  OBVIOUS
<1>4. Sums(f, S)[S] = f[One(S)] + Sums(f, S)[T]
  BY <1>2, <1>3, SumRecAt
<1> HIDE DEF T
<1>5. Sums(f, S)[T] = Sums(f, T)[T]
  BY <1>1, <1>2, SumsMatch
<1>6. QED BY <1>4, <1>5, SumOfSums DEF T

\* A sum of integers is an integer.
LEMMA SumInt ==
  ASSUME NEW f, NEW S, IsFiniteSet(S), \A x \in S : f[x] \in Int
  PROVE  SumOf(f, S) \in Int
<1> DEFINE B == {s \in SUBSET S : SumOf(f, s) \notin Int}
<1>1. ASSUME B # {} PROVE FALSE
  <2>1. B \in SUBSET SUBSET S
    OBVIOUS
  <2> HIDE DEF B
  <2>2. PICK m \in B : \A t \in B : t \subseteq m => t = m
    BY <1>1, <2>1, SmallestSubset
  <2> USE DEF B
  <2>3. m \in SUBSET S /\ SumOf(f, m) \notin Int /\ IsFiniteSet(m)
    BY <2>2, FS_Subset
  <2>4. m # {}
    BY <2>3, SumEmpty
  <2>5. One(m) \in m
    BY <2>4, OneIn
  <2>6. m \ {One(m)} \in SUBSET S /\ m \ {One(m)} # m
    BY <2>3, <2>5
  <2>7. SumOf(f, m \ {One(m)}) \in Int
    BY <2>2, <2>6
  <2>8. SumOf(f, m) = f[One(m)] + SumOf(f, m \ {One(m)})
    BY <2>3, <2>4, SumOne
  <2>9. f[One(m)] \in Int
    BY <2>3, <2>5
  <2>10. QED BY <2>3, <2>7, <2>8, <2>9
<1>2. S \in SUBSET S
  OBVIOUS
<1>3. QED BY <1>1, <1>2

\* It does not matter which element is taken out.
LEMMA SumPick ==
  ASSUME NEW f, NEW S, IsFiniteSet(S), \A x \in S : f[x] \in Int, NEW x \in S
  PROVE  SumOf(f, S) = f[x] + SumOf(f, S \ {x})
<1> DEFINE Good(s) == \A y \in s : SumOf(f, s) = f[y] + SumOf(f, s \ {y})
           B == {s \in SUBSET S : ~Good(s)}
<1>1. ASSUME B # {} PROVE FALSE
  <2>1. B \in SUBSET SUBSET S
    OBVIOUS
  <2> HIDE DEF B
  <2>2. PICK m \in B : \A t \in B : t \subseteq m => t = m
    BY <1>1, <2>1, SmallestSubset
  <2> USE DEF B
  <2>3. m \in SUBSET S /\ ~Good(m) /\ IsFiniteSet(m)
    BY <2>2, FS_Subset
  <2>4. PICK y \in m : SumOf(f, m) # f[y] + SumOf(f, m \ {y})
    BY <2>3
  <2> DEFINE z == One(m)
  <2>5. z \in m /\ m # {}
    BY <2>4, OneIn
  <2>6. SumOf(f, m) = f[z] + SumOf(f, m \ {z})
    BY <2>3, <2>5, SumOne
  <2>7. z # y
    BY <2>4, <2>6
  <2> DEFINE mz == m \ {z}
             my == m \ {y}
             mzy == m \ {z, y}
  <2>8. /\ mz \in SUBSET S /\ mz # m /\ mz \subseteq m /\ y \in mz
        /\ my \in SUBSET S /\ my # m /\ my \subseteq m /\ z \in my
        /\ mz \ {y} = mzy /\ my \ {z} = mzy /\ mzy \in SUBSET S
    BY <2>3, <2>4, <2>5, <2>7
  <2> HIDE DEF mz, my, mzy, z
  <2>9. Good(mz) /\ Good(my)
    BY <2>2, <2>8
  <2>10. SumOf(f, mz) = f[y] + SumOf(f, mzy)
    BY <2>8, <2>9
  <2>11. SumOf(f, my) = f[z] + SumOf(f, mzy)
    BY <2>8, <2>9
  <2>12. IsFiniteSet(mzy) /\ \A u \in mzy : f[u] \in Int
    BY <2>8, FS_Subset
  <2>13. SumOf(f, mzy) \in Int
    BY <2>12, SumInt
  <2>14. f[y] \in Int /\ f[z] \in Int
    BY <2>3, <2>4, <2>5
  <2>15. SumOf(f, m) # f[y] + SumOf(f, my)
    BY <2>4 DEF my
  <2>16. SumOf(f, m) = f[z] + SumOf(f, mz)
    BY <2>6 DEF mz
  <2>17. QED BY <2>10, <2>11, <2>13, <2>14, <2>15, <2>16
<1>2. S \in SUBSET S
  OBVIOUS
<1>3. Good(S)
  BY <1>1, <1>2
<1>4. QED BY <1>3

\* Putting one more element in.
LEMMA SumAdd ==
  ASSUME NEW f, NEW S, IsFiniteSet(S), NEW x, x \notin S,
         \A y \in S \cup {x} : f[y] \in Int
  PROVE  SumOf(f, S \cup {x}) = f[x] + SumOf(f, S)
<1> DEFINE T == S \cup {x}
<1>1. IsFiniteSet(T) /\ x \in T /\ T \ {x} = S /\ \A y \in T : f[y] \in Int
  BY FS_AddElement
<1> HIDE DEF T
<1>2. SumOf(f, T) = f[x] + SumOf(f, T \ {x})
  BY <1>1, SumPick
<1>3. SumOf(f, T) = f[x] + SumOf(f, S)
  BY <1>1, <1>2
<1>4. QED BY <1>3 DEF T

-----------------------------------------------------------------------------
(* Sums over intents                                                       *)

\* The three amounts as functions of the intent.
CashOf == [i \in Intents |-> CashNeeded(i.content)]
SellOf == [i \in Intents |-> SellQty(i.content)]
BuyOf  == [i \in Intents |-> BuyNotional(i.content)]

Cash(S) == Total(CashNeeded, S)
Sell(S) == Total(SellQty, S)
Buy(S)  == Total(BuyNotional, S)

\* What the model sums is the sum of these functions over the set.
LEMMA CashSums ==
  ASSUME NEW S \in SUBSET Intents
  PROVE  Cash(S) = SumOf(CashOf, S)
<1> DEFINE h(g) == [s \in SUBSET S |-> IF s = {} THEN 0
                 ELSE LET x == One(s) IN CashNeeded(x.content) + g[s \ {x}]]
           k(g) == [s \in SUBSET S |-> IF s = {} THEN 0
                 ELSE LET x == One(s) IN CashOf[x] + g[s \ {x}]]
<1>1. Cash(S) = (CHOOSE g : g = h(g))[S]
  BY DEF Cash, Total, MapThenSumSet, MapThenFoldSet, One
<1>2. ASSUME NEW g PROVE h(g) = k(g)
  <2>1. ASSUME NEW s \in SUBSET S PROVE h(g)[s] = k(g)[s]
    <3>1. CASE s = {}
      BY <3>1
    <3>2. CASE s # {}
      <4>1. CashOf[One(s)] = CashNeeded(One(s).content)
        BY <3>2, OneIn DEF CashOf
      <4>2. QED BY <3>2, <4>1
    <3>3. QED BY <3>1, <3>2
  <2>2. /\ h(g) = [s \in SUBSET S |-> h(g)[s]]
        /\ k(g) = [s \in SUBSET S |-> k(g)[s]]
    OBVIOUS
  <2> HIDE DEF h, k
  <2>3. QED BY <2>1, <2>2
<1>3. \A g : g = k(g) <=> SumRec(CashOf, S, g)
  BY DEF SumRec
<1> HIDE DEF h, k
<1>4. \A g : g = h(g) <=> SumRec(CashOf, S, g)
  BY <1>2, <1>3
<1>5. (CHOOSE g : g = h(g)) = Sums(CashOf, S)
  BY <1>4 DEF Sums
<1>6. QED BY <1>1, <1>5, SumOfSums

LEMMA SellSums ==
  ASSUME NEW S \in SUBSET Intents
  PROVE  Sell(S) = SumOf(SellOf, S)
<1> DEFINE h(g) == [s \in SUBSET S |-> IF s = {} THEN 0
                 ELSE LET x == One(s) IN SellQty(x.content) + g[s \ {x}]]
           k(g) == [s \in SUBSET S |-> IF s = {} THEN 0
                 ELSE LET x == One(s) IN SellOf[x] + g[s \ {x}]]
<1>1. Sell(S) = (CHOOSE g : g = h(g))[S]
  BY DEF Sell, Total, MapThenSumSet, MapThenFoldSet, One
<1>2. ASSUME NEW g PROVE h(g) = k(g)
  <2>1. ASSUME NEW s \in SUBSET S PROVE h(g)[s] = k(g)[s]
    <3>1. CASE s = {}
      BY <3>1
    <3>2. CASE s # {}
      <4>1. SellOf[One(s)] = SellQty(One(s).content)
        BY <3>2, OneIn DEF SellOf
      <4>2. QED BY <3>2, <4>1
    <3>3. QED BY <3>1, <3>2
  <2>2. /\ h(g) = [s \in SUBSET S |-> h(g)[s]]
        /\ k(g) = [s \in SUBSET S |-> k(g)[s]]
    OBVIOUS
  <2> HIDE DEF h, k
  <2>3. QED BY <2>1, <2>2
<1>3. \A g : g = k(g) <=> SumRec(SellOf, S, g)
  BY DEF SumRec
<1> HIDE DEF h, k
<1>4. \A g : g = h(g) <=> SumRec(SellOf, S, g)
  BY <1>2, <1>3
<1>5. (CHOOSE g : g = h(g)) = Sums(SellOf, S)
  BY <1>4 DEF Sums
<1>6. QED BY <1>1, <1>5, SumOfSums

LEMMA BuySums ==
  ASSUME NEW S \in SUBSET Intents
  PROVE  Buy(S) = SumOf(BuyOf, S)
<1> DEFINE h(g) == [s \in SUBSET S |-> IF s = {} THEN 0
                 ELSE LET x == One(s) IN BuyNotional(x.content) + g[s \ {x}]]
           k(g) == [s \in SUBSET S |-> IF s = {} THEN 0
                 ELSE LET x == One(s) IN BuyOf[x] + g[s \ {x}]]
<1>1. Buy(S) = (CHOOSE g : g = h(g))[S]
  BY DEF Buy, Total, MapThenSumSet, MapThenFoldSet, One
<1>2. ASSUME NEW g PROVE h(g) = k(g)
  <2>1. ASSUME NEW s \in SUBSET S PROVE h(g)[s] = k(g)[s]
    <3>1. CASE s = {}
      BY <3>1
    <3>2. CASE s # {}
      <4>1. BuyOf[One(s)] = BuyNotional(One(s).content)
        BY <3>2, OneIn DEF BuyOf
      <4>2. QED BY <3>2, <4>1
    <3>3. QED BY <3>1, <3>2
  <2>2. /\ h(g) = [s \in SUBSET S |-> h(g)[s]]
        /\ k(g) = [s \in SUBSET S |-> k(g)[s]]
    OBVIOUS
  <2> HIDE DEF h, k
  <2>3. QED BY <2>1, <2>2
<1>3. \A g : g = k(g) <=> SumRec(BuyOf, S, g)
  BY DEF SumRec
<1> HIDE DEF h, k
<1>4. \A g : g = h(g) <=> SumRec(BuyOf, S, g)
  BY <1>2, <1>3
<1>5. (CHOOSE g : g = h(g)) = Sums(BuyOf, S)
  BY <1>4 DEF Sums
<1>6. QED BY <1>1, <1>5, SumOfSums

USE DEF Intents, Receipts, Times, Steps, Halts, Statuses,
    Answers, ledgerVars, accountVars, pathVars, callVars, killVars

-----------------------------------------------------------------------------
(* Types                                                                   *)

\* What an order reserves is a whole number.
LEMMA AmountTypes ==
  ASSUME NEW o \in Orders
  PROVE  /\ CashNeeded(o) \in Int /\ SellQty(o) \in Int /\ BuyNotional(o) \in Int
         /\ Key(o) \in Keys
<1>1. o.notional \in Nat /\ o.qty \in Nat /\ FeeBps \in Nat
  BY SubmitAssumption
<1>2. o.notional * FeeBps \in Nat
  BY <1>1
<1>3. (o.notional * FeeBps) \div 10000 \in Int
  BY <1>2
<1>4. QED BY <1>1, <1>3 DEF CashNeeded, SellQty, BuyNotional, Key, Keys

-----------------------------------------------------------------------------
(* The account                                                             *)

\* Reserved: the accumulators are the sums over a set of intents.
Reserved(S, c, q) ==
  /\ c = Cash(S)
  /\ \A k \in Keys : q[k] = Sell(InKey(S, k))

\* Bounded: if all of them fill, a portfolio can pay and the limits hold.
Bounded(p, S) ==
  /\ Cash(S) <= p.cash
  /\ \A k \in Keys : Sell(InKey(S, k)) <= p.held[k]
  /\ \A i \in S : i.content.side = "BUY" =>
       /\ MarketExposure(p, i.content.market)
            + Buy(InMarket(S, i.content.market)) <= MaxMarketExposure
       /\ GrossExposure(p) + Buy(S) <= MaxGrossExposure

\* What an intent adds is never negative.
LEMMA AmountBounds ==
  ASSUME NEW i \in Intents
  PROVE  /\ i.content \in Orders /\ Key(i.content) \in Keys
         /\ CashNeeded(i.content) \in Nat /\ CashOf[i] = CashNeeded(i.content)
         /\ SellQty(i.content) \in Nat /\ SellOf[i] = SellQty(i.content)
         /\ BuyNotional(i.content) \in Nat /\ BuyOf[i] = BuyNotional(i.content)
<1> DEFINE o == i.content
<1>1. o \in Orders
  OBVIOUS
<1>2. o.notional \in Nat /\ o.qty \in Nat /\ FeeBps \in Nat
  BY <1>1, SubmitAssumption
<1>3. o.notional * FeeBps \in Nat
  BY <1>2
<1>4. (o.notional * FeeBps) \div 10000 \in Nat
  BY <1>3
<1>5. QED BY <1>1, <1>2, <1>4, AmountTypes DEF CashNeeded, SellQty, BuyNotional,
             CashOf, SellOf, BuyOf

\* The sums with one more intent.
LEMMA TotalsAdd ==
  ASSUME NEW S \in SUBSET Intents, IsFiniteSet(S), NEW i \in Intents, i \notin S
  PROVE  /\ Cash(S \cup {i}) = CashNeeded(i.content) + Cash(S)
         /\ Sell(S \cup {i}) = SellQty(i.content) + Sell(S)
         /\ Buy(S \cup {i}) = BuyNotional(i.content) + Buy(S)
         /\ Cash(S) \in Int /\ Sell(S) \in Int /\ Buy(S) \in Int
<1>1. \A x \in S \cup {i} : /\ CashOf[x] \in Int /\ SellOf[x] \in Int
                            /\ BuyOf[x] \in Int
  BY AmountBounds
<1>2. S \cup {i} \in SUBSET Intents
  OBVIOUS
<1>3. /\ Cash(S) = SumOf(CashOf, S) /\ Cash(S \cup {i}) = SumOf(CashOf, S \cup {i})
      /\ Sell(S) = SumOf(SellOf, S) /\ Sell(S \cup {i}) = SumOf(SellOf, S \cup {i})
      /\ Buy(S) = SumOf(BuyOf, S) /\ Buy(S \cup {i}) = SumOf(BuyOf, S \cup {i})
  BY <1>2, CashSums, SellSums, BuySums
<1>4. SumOf(CashOf, S \cup {i}) = CashOf[i] + SumOf(CashOf, S)
  BY <1>1, SumAdd
<1>5. SumOf(SellOf, S \cup {i}) = SellOf[i] + SumOf(SellOf, S)
  BY <1>1, SumAdd
<1>6. SumOf(BuyOf, S \cup {i}) = BuyOf[i] + SumOf(BuyOf, S)
  BY <1>1, SumAdd
<1>7. /\ SumOf(CashOf, S) \in Int /\ SumOf(SellOf, S) \in Int
      /\ SumOf(BuyOf, S) \in Int
  BY <1>1, SumInt
<1>8. QED BY <1>3, <1>4, <1>5, <1>6, <1>7, AmountBounds

\* The same within a market and for a position.
LEMMA PartsAdd ==
  ASSUME NEW S \in SUBSET Intents, IsFiniteSet(S), NEW i \in Intents, i \notin S
  PROVE  /\ \A k \in Keys :
              /\ Sell(InKey(S, k)) \in Int
              /\ Sell(InKey(S \cup {i}, k)) =
                   Sell(InKey(S, k))
                     + IF k = Key(i.content) THEN SellQty(i.content) ELSE 0
         /\ \A m :
              /\ Buy(InMarket(S, m)) \in Int
              /\ Buy(InMarket(S \cup {i}, m)) =
                   Buy(InMarket(S, m))
                     + IF m = i.content.market THEN BuyNotional(i.content) ELSE 0
<1>0. SellQty(i.content) \in Int /\ BuyNotional(i.content) \in Int
  BY AmountBounds
<1>1. ASSUME NEW k \in Keys
      PROVE  /\ Sell(InKey(S, k)) \in Int
             /\ Sell(InKey(S \cup {i}, k)) =
                  Sell(InKey(S, k))
                    + IF k = Key(i.content) THEN SellQty(i.content) ELSE 0
  <2> DEFINE P == InKey(S, k)
  <2>1. P \in SUBSET Intents /\ IsFiniteSet(P) /\ i \notin P
    BY FS_Subset DEF InKey
  <2>2. InKey(S \cup {i}, k) = IF k = Key(i.content) THEN P \cup {i} ELSE P
    BY DEF InKey
  <2> HIDE DEF P
  <2>3. Sell(P \cup {i}) = SellQty(i.content) + Sell(P) /\ Sell(P) \in Int
    BY <2>1, TotalsAdd
  <2>4. QED BY <1>0, <2>2, <2>3 DEF P
<1>2. ASSUME NEW m
      PROVE  /\ Buy(InMarket(S, m)) \in Int
             /\ Buy(InMarket(S \cup {i}, m)) =
                  Buy(InMarket(S, m))
                    + IF m = i.content.market THEN BuyNotional(i.content) ELSE 0
  <2> DEFINE P == InMarket(S, m)
  <2>1. P \in SUBSET Intents /\ IsFiniteSet(P) /\ i \notin P
    BY FS_Subset DEF InMarket
  <2>2. InMarket(S \cup {i}, m) = IF m = i.content.market THEN P \cup {i} ELSE P
    BY DEF InMarket
  <2> HIDE DEF P
  <2>3. Buy(P \cup {i}) = BuyNotional(i.content) + Buy(P) /\ Buy(P) \in Int
    BY <2>1, TotalsAdd
  <2>4. QED BY <1>0, <2>2, <2>3 DEF P
<1>3. QED BY <1>1, <1>2

\* Exposure of what is held is a whole number.
LEMMA ExposureTypes ==
  ASSUME NEW p \in Portfolios
  PROVE  /\ GrossExposure(p) \in Int /\ \A m : MarketExposure(p, m) \in Int
<1>1. \A k \in Keys : p.cost[k] \in Int
  BY SubmitAssumption
<1>2. IsFiniteSet(Keys)
  BY SubmitAssumption
<1>3. GrossExposure(p) \in Int
  <2>1. SumOf(p.cost, Keys) \in Int
    BY <1>1, <1>2, SumInt
  <2>2. QED BY <2>1 DEF GrossExposure, SumOf
<1>4. ASSUME NEW m PROVE MarketExposure(p, m) \in Int
  <2> DEFINE K == {k \in Keys : k[1] = m}
  <2>1. IsFiniteSet(K) /\ \A k \in K : p.cost[k] \in Int
    BY <1>1, <1>2, FS_Subset
  <2> HIDE DEF K
  <2>2. SumOf(p.cost, K) \in Int
    BY <2>1, SumInt
  <2>3. QED BY <2>2 DEF MarketExposure, SumOf, K
<1>5. QED BY <1>3, <1>4

\* Nothing on hold reserves nothing and breaks no limit.
LEMMA NothingReserved ==
  /\ Reserved({}, 0, [k \in Keys |-> 0])
  /\ \A p \in Portfolios : Bounded(p, {})
<1>1. {} \in SUBSET Intents
  OBVIOUS
<1>2. Cash({}) = 0 /\ Sell({}) = 0
  BY <1>1, CashSums, SellSums, SumEmpty
<1>3. \A k \in Keys : InKey({}, k) = {}
  BY DEF InKey
<1>4. \A p \in Portfolios : p.cash \in Nat /\ p.held \in [Keys -> Nat]
  BY SubmitAssumption
<1>5. Reserved({}, 0, [k \in Keys |-> 0])
  <2>1. \A k \in Keys : [j \in Keys |-> 0][k] = Sell(InKey({}, k))
    BY <1>2, <1>3
  <2>2. QED BY <1>2, <2>1 DEF Reserved
<1>6. ASSUME NEW p \in Portfolios PROVE Bounded(p, {})
  <2>1. Cash({}) <= p.cash
    BY <1>2, <1>4
  <2>2. \A k \in Keys : Sell(InKey({}, k)) <= p.held[k]
    BY <1>2, <1>3, <1>4
  <2>3. QED BY <2>1, <2>2 DEF Bounded
<1>7. QED BY <1>5, <1>6

\* Reserving for one more intent.
LEMMA ReservedAdd ==
  ASSUME NEW S \in SUBSET Intents, IsFiniteSet(S), NEW i \in Intents, i \notin S,
         NEW c \in Int, NEW q \in [Keys -> Int]
  PROVE  Reserved(S, c, q) <=>
           Reserved(S \cup {i}, c + CashNeeded(i.content),
                    [q EXCEPT ![Key(i.content)] = @ + SellQty(i.content)])
<1> DEFINE r == [q EXCEPT ![Key(i.content)] = @ + SellQty(i.content)]
<1>1. /\ CashNeeded(i.content) \in Int /\ SellQty(i.content) \in Int
      /\ Key(i.content) \in Keys
  BY AmountBounds
<1>2. \A k \in Keys : /\ q[k] \in Int
        /\ r[k] = q[k] + IF k = Key(i.content) THEN SellQty(i.content) ELSE 0
  BY <1>1
<1>3. /\ Cash(S \cup {i}) = CashNeeded(i.content) + Cash(S) /\ Cash(S) \in Int
  BY TotalsAdd
<1>4. \A k \in Keys :
        /\ Sell(InKey(S, k)) \in Int
        /\ Sell(InKey(S \cup {i}, k)) =
             Sell(InKey(S, k))
               + IF k = Key(i.content) THEN SellQty(i.content) ELSE 0
  BY PartsAdd
<1>5. c = Cash(S) <=> c + CashNeeded(i.content) = Cash(S \cup {i})
  <2> DEFINE n == CashNeeded(i.content)
             a == Cash(S)
             b == Cash(S \cup {i})
  <2>1. n \in Int /\ a \in Int /\ b = n + a
    BY <1>1, <1>3
  <2> HIDE DEF n, a, b
  <2>2. c = a <=> c + n = b
    BY <2>1
  <2>3. QED BY <2>2 DEF n, a, b
<1>6. ASSUME NEW k \in Keys
      PROVE  q[k] = Sell(InKey(S, k)) <=> r[k] = Sell(InKey(S \cup {i}, k))
  BY <1>1, <1>2, <1>4
<1>7. QED BY <1>5, <1>6 DEF Reserved

\* Giving it back for one.
LEMMA ReservedRemove ==
  ASSUME NEW S \in SUBSET Intents, IsFiniteSet(S), NEW i \in S,
         NEW c \in Int, NEW q \in [Keys -> Int], Reserved(S, c, q)
  PROVE  Reserved(S \ {i}, c - CashNeeded(i.content),
                  [q EXCEPT ![Key(i.content)] = @ - SellQty(i.content)])
<1> DEFINE T == S \ {i}
           d == c - CashNeeded(i.content)
           r == [q EXCEPT ![Key(i.content)] = @ - SellQty(i.content)]
<1>1. i \in Intents /\ T \in SUBSET Intents /\ IsFiniteSet(T) /\ i \notin T
  BY FS_Subset
<1>2. /\ CashNeeded(i.content) \in Int /\ SellQty(i.content) \in Int
      /\ Key(i.content) \in Keys
  BY <1>1, AmountBounds
<1>3. d \in Int /\ r \in [Keys -> Int]
  BY <1>2
<1>4. d + CashNeeded(i.content) = c
  BY <1>2
<1>5. [r EXCEPT ![Key(i.content)] = @ + SellQty(i.content)] = q
  <2> DEFINE u == [r EXCEPT ![Key(i.content)] = @ + SellQty(i.content)]
  <2>1. u = [k \in Keys |-> u[k]] /\ q = [k \in Keys |-> q[k]]
    BY <1>3
  <2>2. \A k \in Keys : u[k] = q[k]
    BY <1>2, <1>3
  <2> HIDE DEF u
  <2>3. u = q
    BY <2>1, <2>2
  <2>4. QED BY <2>3 DEF u
<1>6. T \cup {i} = S
  OBVIOUS
<1> HIDE DEF T, d, r
<1>7. Reserved(T, d, r) <=>
        Reserved(T \cup {i}, d + CashNeeded(i.content),
                 [r EXCEPT ![Key(i.content)] = @ + SellQty(i.content)])
  BY <1>1, <1>3, ReservedAdd
<1>8. Reserved(T, d, r)
  BY <1>4, <1>5, <1>6, <1>7
<1>9. QED BY <1>8 DEF T, d, r

\* What an order passed the checks with keeps the bounds with it on hold.
LEMMA BoundedAdd ==
  ASSUME NEW S \in SUBSET Intents, IsFiniteSet(S), NEW i \in Intents, i \notin S,
         NEW p \in Portfolios, Bounded(p, S),
         CashNeeded(i.content) + Cash(S) <= p.cash,
         SellQty(i.content) + Sell(InKey(S, Key(i.content)))
           <= p.held[Key(i.content)],
         MarketExposure(p, i.content.market)
           + (BuyNotional(i.content) + Buy(InMarket(S, i.content.market)))
           <= MaxMarketExposure,
         GrossExposure(p) + (BuyNotional(i.content) + Buy(S)) <= MaxGrossExposure
  PROVE  Bounded(p, S \cup {i})
<1> DEFINE T == S \cup {i}
<1>1. /\ SellQty(i.content) \in Int /\ BuyNotional(i.content) \in Int
  BY AmountBounds
<1>2. /\ Cash(T) = CashNeeded(i.content) + Cash(S)
      /\ Buy(T) = BuyNotional(i.content) + Buy(S)
  BY TotalsAdd
<1>3. \A k \in Keys :
        /\ Sell(InKey(S, k)) \in Int
        /\ Sell(InKey(T, k)) =
             Sell(InKey(S, k))
               + IF k = Key(i.content) THEN SellQty(i.content) ELSE 0
  BY PartsAdd
<1>4. \A m : /\ Buy(InMarket(S, m)) \in Int
             /\ Buy(InMarket(T, m)) = Buy(InMarket(S, m))
                     + IF m = i.content.market THEN BuyNotional(i.content) ELSE 0
  BY PartsAdd
<1> HIDE DEF T
<1>5. Cash(T) <= p.cash
  BY <1>2
<1>6. ASSUME NEW k \in Keys PROVE Sell(InKey(T, k)) <= p.held[k]
  <2>1. CASE k = Key(i.content)
    BY <1>1, <1>3, <2>1
  <2>2. CASE k # Key(i.content)
    <3>1. Sell(InKey(T, k)) = Sell(InKey(S, k))
      BY <1>3, <2>2
    <3>2. QED BY <3>1 DEF Bounded
  <2>3. QED BY <2>1, <2>2
<1>7. GrossExposure(p) + Buy(T) <= MaxGrossExposure
  BY <1>2
<1>8. ASSUME NEW j \in T, j.content.side = "BUY"
      PROVE  MarketExposure(p, j.content.market)
               + Buy(InMarket(T, j.content.market)) <= MaxMarketExposure
  <2> DEFINE m == j.content.market
  <2>1. CASE m = i.content.market
    <3>1. Buy(InMarket(T, m))
            = BuyNotional(i.content) + Buy(InMarket(S, i.content.market))
      BY <1>1, <1>4, <2>1
    <3>2. QED BY <2>1, <3>1
  <2>2. CASE m # i.content.market
    <3>1. Buy(InMarket(T, m)) = Buy(InMarket(S, m))
      BY <1>1, <1>4, <2>2
    <3>2. j \in S
      BY <2>2 DEF T
    <3>3. QED BY <1>8, <3>1, <3>2 DEF Bounded
  <2>3. QED BY <2>1, <2>2
<1>9. Bounded(p, T)
  BY <1>5, <1>6, <1>7, <1>8 DEF Bounded
<1>10. QED BY <1>9 DEF T

\* Fewer intents on hold stay within the bounds.
LEMMA BoundedLess ==
  ASSUME NEW S \in SUBSET Intents, IsFiniteSet(S), NEW i \in Intents, i \notin S,
         NEW p \in Portfolios, Bounded(p, S \cup {i})
  PROVE  Bounded(p, S)
<1> DEFINE T == S \cup {i}
<1>0. /\ p.cash \in Int /\ p.held \in [Keys -> Nat]
      /\ MaxMarketExposure \in Int /\ MaxGrossExposure \in Int
      /\ GrossExposure(p) \in Int /\ \A m : MarketExposure(p, m) \in Int
  BY SubmitAssumption, ExposureTypes
<1>1. /\ SellQty(i.content) \in Nat /\ BuyNotional(i.content) \in Nat
      /\ CashNeeded(i.content) \in Nat
  BY AmountBounds
<1>2. /\ Cash(T) = CashNeeded(i.content) + Cash(S) /\ Cash(S) \in Int
      /\ Buy(T) = BuyNotional(i.content) + Buy(S) /\ Buy(S) \in Int
  BY TotalsAdd
<1>3. \A k \in Keys :
        /\ Sell(InKey(S, k)) \in Int
        /\ Sell(InKey(T, k)) =
             Sell(InKey(S, k))
               + IF k = Key(i.content) THEN SellQty(i.content) ELSE 0
  BY PartsAdd
<1>4. \A m : /\ Buy(InMarket(S, m)) \in Int
             /\ Buy(InMarket(T, m)) = Buy(InMarket(S, m))
                     + IF m = i.content.market THEN BuyNotional(i.content) ELSE 0
  BY PartsAdd
<1>5. Bounded(p, T)
  OBVIOUS
<1>6. S \subseteq T
  OBVIOUS
<1> HIDE DEF T
<1>7. Cash(S) <= p.cash
  <2>1. Cash(T) <= p.cash
    BY <1>5 DEF Bounded
  <2>2. QED BY <1>0, <1>1, <1>2, <2>1
<1>8. ASSUME NEW k \in Keys PROVE Sell(InKey(S, k)) <= p.held[k]
  <2>1. Sell(InKey(T, k)) <= p.held[k] /\ p.held[k] \in Int
    BY <1>0, <1>5 DEF Bounded
  <2>2. Sell(InKey(S, k)) \in Int /\ Sell(InKey(T, k)) \in Int
    BY <1>1, <1>3
  <2>3. Sell(InKey(S, k)) <= Sell(InKey(T, k))
    BY <1>1, <1>3
  <2>4. QED BY <2>1, <2>2, <2>3
<1>9. ASSUME NEW j \in S, j.content.side = "BUY"
      PROVE  /\ MarketExposure(p, j.content.market)
                  + Buy(InMarket(S, j.content.market)) <= MaxMarketExposure
             /\ GrossExposure(p) + Buy(S) <= MaxGrossExposure
  <2> DEFINE m == j.content.market
  <2>1. /\ MarketExposure(p, m) + Buy(InMarket(T, m)) <= MaxMarketExposure
        /\ GrossExposure(p) + Buy(T) <= MaxGrossExposure
    BY <1>5, <1>6, <1>9 DEF Bounded
  <2> HIDE DEF m
  <2>2. MarketExposure(p, m) + Buy(InMarket(S, m)) <= MaxMarketExposure
    <3>1. Buy(InMarket(S, m)) \in Int /\ Buy(InMarket(T, m)) \in Int
      BY <1>1, <1>4
    <3>2. Buy(InMarket(S, m)) <= Buy(InMarket(T, m))
      BY <1>1, <1>4
    <3>3. MarketExposure(p, m) \in Int
      BY <1>0
    <3>4. QED BY <1>0, <2>1, <3>1, <3>2, <3>3
  <2>3. GrossExposure(p) + Buy(S) <= MaxGrossExposure
    BY <1>0, <1>1, <1>2, <2>1
  <2>4. QED BY <2>2, <2>3 DEF m
<1>10. QED BY <1>7, <1>8, <1>9 DEF Bounded
-----------------------------------------------------------------------------
(* Type invariance                                                         *)

\* The initial state has its types.
LEMMA InitTypes == Init => TypeOK
<1> SUFFICES ASSUME Init PROVE TypeOK
  OBVIOUS
<1>1. FileTypes
  BY DEF Init, FileTypes
<1>2. AccountTypes
  BY DEF Init, AccountTypes
<1>3. MemoryTypes
  BY DEF Init, MemoryTypes
<1>4. 0 \in Times
  BY SubmitAssumption
<1>5. CallTypes
  BY <1>4 DEF Init, CallTypes
<1>6. QED BY <1>1, <1>2, <1>3, <1>5 DEF TypeOK

\* Opening, closing, dying and interference keep the types.
LEMMA EnvironmentTypes == TypeOK /\ Environment => TypeOK'
<1> SUFFICES ASSUME TypeOK, Environment PROVE TypeOK'
  OBVIOUS
<1> USE DEF TypeOK, FileTypes, AccountTypes, MemoryTypes, CallTypes
<1>0. /\ 0 \in Times
      /\ cur \in Intents => cur.id \in Ids /\ cur.content \in Orders
  BY SubmitAssumption
<1>1. ASSUME NEW p \in Portfolios, Open(p) PROVE TypeOK'
  BY <1>0, <1>1, SubmitAssumption DEF Open
<1>2. CASE Close
  <2>1. FileTypes'
    BY <1>0, <1>2 DEF Close, Gone
  <2>2. AccountTypes'
    BY <1>0, <1>2 DEF Close, Gone
  <2>3. MemoryTypes'
    BY <1>0, <1>2 DEF Close, Gone
  <2>4. CallTypes'
    BY <1>0, <1>2 DEF Close, Gone
  <2>5. QED BY <2>1, <2>2, <2>3, <2>4
<1>3. CASE Crash
  <2>1. FileTypes'
    BY <1>0, <1>3 DEF Crash, Gone
  <2>2. AccountTypes'
    BY <1>0, <1>3 DEF Crash, Gone
  <2>3. MemoryTypes'
    BY <1>0, <1>3 DEF Crash, Gone
  <2>4. CallTypes'
    BY <1>0, <1>3 DEF Crash, Gone
  <2>5. QED BY <2>1, <2>2, <2>3, <2>4
<1>4. ASSUME NEW b \in BOOLEAN, SetKillSwitch(b) PROVE TypeOK'
  BY <1>0, <1>4 DEF SetKillSwitch
<1>5. CASE ForeignAppend
  <2>1. FileTypes'
    BY <1>0, <1>5 DEF ForeignAppend
  <2>2. AccountTypes'
    BY <1>0, <1>5 DEF ForeignAppend
  <2>3. MemoryTypes'
    BY <1>0, <1>5 DEF ForeignAppend
  <2>4. CallTypes'
    BY <1>0, <1>5 DEF ForeignAppend
  <2>5. QED BY <2>1, <2>2, <2>3, <2>4
<1>6. CASE RestoreBackup
  <2>1. FileTypes'
    <3>1. PICK n \in 0..Len(log) :
            LET lost == {log[k].id : k \in (n + 1)..Len(log)}
            IN  /\ log' = SubSeq(log, 1, n)
                /\ acked' = {r \in acked : r.seq <= n}
                /\ voided' = voided \cup lost
      BY <1>6 DEF RestoreBackup
    <3>2. log' \in Seq(Intents)
      BY <3>1, Prefixes
    <3>3. \A k \in (n + 1)..Len(log) : log[k] \in Intents
      BY Prefixes
    <3>4. acked' \subseteq acked
      BY <3>1
    <3>5. QED BY <1>6, <3>1, <3>2, <3>3, <3>4 DEF RestoreBackup
  <2>2. AccountTypes'
    BY <1>0, <1>6 DEF RestoreBackup
  <2>3. MemoryTypes'
    BY <1>0, <1>6 DEF RestoreBackup
  <2>4. CallTypes'
    BY <1>0, <1>6 DEF RestoreBackup
  <2>5. QED BY <2>1, <2>2, <2>3, <2>4
<1>7. QED BY <1>1, <1>2, <1>3, <1>4, <1>5, <1>6 DEF Environment

\* So does every step of a submit.
LEMMA SubmitTypes == TypeOK /\ Submit => TypeOK'
<1> SUFFICES ASSUME TypeOK, Submit PROVE TypeOK'
  OBVIOUS
<1> USE DEF TypeOK, FileTypes, AccountTypes, MemoryTypes, CallTypes
<1>0. /\ 0 \in Times
      /\ cur \in Intents => cur.id \in Ids /\ cur.content \in Orders
  BY SubmitAssumption
<1>1. ASSUME NEW i \in Intents, Begin(i) PROVE TypeOK'
  BY <1>0, <1>1 DEF Begin
<1>2. CASE LedgerGone
  BY <1>0, <1>2 DEF LedgerGone
<1>3. ASSUME NEW t \in Times, Gate(t) PROVE TypeOK'
  <2>1. FileTypes'
    BY <1>0, <1>3 DEF Gate, Return
  <2>2. AccountTypes'
    BY <1>0, <1>3 DEF Gate, Return
  <2>3. MemoryTypes'
    BY <1>0, <1>3 DEF Gate, Return
  <2>4. CallTypes'
    BY <1>0, <1>3 DEF Gate, Return
  <2>5. QED BY <2>1, <2>2, <2>3, <2>4
<1>4. ASSUME NEW t \in Times, Resample(t) PROVE TypeOK'
  BY <1>0, <1>4 DEF Resample
<1>5. ASSUME NEW t \in Times, FinalSample(t) PROVE TypeOK'
  <2>1. FileTypes'
    BY <1>0, <1>5, AmountTypes DEF FinalSample, FreeReservation
  <2>2. AccountTypes'
    BY <1>0, <1>5, AmountTypes DEF FinalSample, FreeReservation
  <2>3. MemoryTypes'
    BY <1>0, <1>5, AmountTypes DEF FinalSample, FreeReservation
  <2>4. CallTypes'
    BY <1>0, <1>5, AmountTypes DEF FinalSample, FreeReservation
  <2>5. QED BY <2>1, <2>2, <2>3, <2>4
<1>6. CASE Block
  BY <1>0, <1>6 DEF Block, Return
<1>7. CASE Reserve
  <2>1. FileTypes'
    BY <1>0, <1>7, AmountTypes DEF Reserve, Goto
  <2>2. AccountTypes'
    BY <1>0, <1>7, AmountTypes DEF Reserve, Goto
  <2>3. MemoryTypes'
    BY <1>0, <1>7, AmountTypes DEF Reserve, Goto
  <2>4. CallTypes'
    BY <1>0, <1>7, AmountTypes DEF Reserve, Goto
  <2>5. QED BY <2>1, <2>2, <2>3, <2>4
<1>8. CASE Hold
  BY <1>0, <1>8 DEF Hold, Goto
<1>9. CASE Consume
  BY <1>0, <1>9 DEF Consume, Goto
<1>10. CASE Persist
  BY <1>0, <1>10 DEF Persist, Goto
<1>11. CASE Acknowledge
  <2>1. FileTypes'
    BY <1>0, <1>11 DEF Acknowledge, Goto
  <2>2. AccountTypes'
    BY <1>0, <1>11 DEF Acknowledge, Goto
  <2>3. MemoryTypes'
    BY <1>0, <1>11 DEF Acknowledge, Goto
  <2>4. CallTypes'
    BY <1>0, <1>11 DEF Acknowledge, Goto
  <2>5. QED BY <2>1, <2>2, <2>3, <2>4
<1>12. CASE Bind
  BY <1>0, <1>12 DEF Bind, Goto
<1>13. CASE AppendFails
  BY <1>0, <1>13 DEF AppendFails, Store, Return
<1>14. CASE Recheck
  BY <1>0, <1>14 DEF Recheck, Goto
<1>15. CASE RecheckFails
  BY <1>0, <1>15 DEF RecheckFails, Store, Return
<1>16. CASE Dispatch
  BY <1>0, <1>16 DEF Dispatch
<1>17. CASE Acked
  BY <1>0, <1>17 DEF Acked, Store, Return
<1>18. CASE Rejected
  <2>1. FileTypes'
    BY <1>0, <1>18, AmountTypes DEF Rejected, FreeReservation
  <2>2. AccountTypes'
    BY <1>0, <1>18, AmountTypes DEF Rejected, FreeReservation
  <2>3. MemoryTypes'
    BY <1>0, <1>18, AmountTypes DEF Rejected, FreeReservation
  <2>4. CallTypes'
    BY <1>0, <1>18, AmountTypes DEF Rejected, FreeReservation
  <2>5. QED BY <2>1, <2>2, <2>3, <2>4
<1>19. CASE OutcomeUnknown
  BY <1>0, <1>19 DEF OutcomeUnknown, Store, Return
<1>20. CASE Release
  BY <1>0, <1>20 DEF Release, Store, Return
<1>21. CASE Interrupt
  BY <1>0, <1>21 DEF Interrupt, HaltWith, Return
<1>22. QED BY <1>1, <1>2, <1>3, <1>4, <1>5, <1>6, <1>7, <1>8, <1>9, <1>10, <1>11, <1>12, <1>13, <1>14, <1>15, <1>16, <1>17, <1>18, <1>19, <1>20, <1>21 DEF Submit, Sampling

\* The state always has its types, and a call is in progress exactly when
\* the path has an intent in hand.
THEOREM SubmitPathTypes == Spec => []TypeOK
<1>1. TypeOK /\ UNCHANGED vars => TypeOK'
  BY DEF TypeOK, FileTypes, AccountTypes, MemoryTypes, CallTypes, vars
<1>2. TypeOK /\ [Next]_vars => TypeOK'
  BY <1>1, EnvironmentTypes, SubmitTypes DEF Next
<1>3. QED BY <1>2, InitTypes, PTL DEF Spec

-----------------------------------------------------------------------------
(* What a call in progress knows                                          *)

HIDE DEF Intents, Receipts, Halts, Statuses

Early == {"gate", "risk", "hold", "consume"}
Spent == {"append", "acknowledge", "bind", "resample", "recheck", "final",
          "dispatch", "answer", "release"}

\* Before its id is spent a call knows no other call spent it; afterwards the
\* intent is consumed and, until the last statement, on hold.
CallInv ==
  /\ halt # None => pc = "idle"
  /\ pc = "down" => consumed = {}
  /\ pc \in Early => \A j \in consumed : j.id # cur.id
  /\ pc \in Spent => cur \in consumed /\ cur \in holds
  /\ pc = "consume" => cur \in holds
  /\ \A i, j \in consumed : i.id = j.id => i = j
  /\ OpenOrdersReserved

\* What the samples of the clock and the switch have established.
ControlInv ==
  /\ pc = "final" /\ ~stop => dispatchNow >= now
  /\ pc = "recheck" /\ ~stop => dispatchNow >= now
  /\ FreshDispatch
  /\ KillOutrun

\* Spending ids and holding reservations.
LEMMA CallKeeps == TypeOK /\ CallInv /\ Next => CallInv'
<1> SUFFICES ASSUME TypeOK, CallInv, Next PROVE CallInv'
  OBVIOUS
<1> USE DEF CallInv, OpenOrdersReserved, Early, Spent
<1>0. /\ MemoryTypes /\ CallTypes
  BY DEF TypeOK
<1>1. CASE \E i \in Intents : Begin(i)
  BY <1>0, <1>1 DEF Begin
<1>2. CASE LedgerGone
  BY <1>0, <1>2 DEF LedgerGone
<1>3. CASE \E t \in Times : Gate(t)
  BY <1>0, <1>3 DEF Gate, Return
<1>4. CASE \E t \in Times : Resample(t)
  BY <1>0, <1>4 DEF Resample
<1>5. CASE \E t \in Times : FinalSample(t)
  BY <1>0, <1>5 DEF FinalSample, FreeReservation
<1>6. CASE Block
  BY <1>0, <1>6 DEF Block, Return
<1>7. CASE Reserve
  BY <1>0, <1>7 DEF Reserve, Goto
<1>8. CASE Hold
  BY <1>0, <1>8 DEF Hold, Goto
<1>9. CASE Consume
  BY <1>0, <1>9 DEF Consume, Goto
<1>10. CASE Persist
  BY <1>0, <1>10 DEF Persist, Goto
<1>11. CASE Acknowledge
  BY <1>0, <1>11 DEF Acknowledge, Goto
<1>12. CASE Bind
  BY <1>0, <1>12 DEF Bind, Goto
<1>13. CASE AppendFails
  BY <1>0, <1>13 DEF AppendFails, Store, Return
<1>14. CASE Recheck
  BY <1>0, <1>14 DEF Recheck, Goto
<1>15. CASE RecheckFails
  BY <1>0, <1>15 DEF RecheckFails, Store, Return
<1>16. CASE Dispatch
  BY <1>0, <1>16 DEF Dispatch
<1>17. CASE Acked
  BY <1>0, <1>17 DEF Acked, Store, Return
<1>18. CASE Rejected
  BY <1>0, <1>18 DEF Rejected, FreeReservation
<1>19. CASE OutcomeUnknown
  BY <1>0, <1>19 DEF OutcomeUnknown, Store, Return
<1>20. CASE Release
  <2>1. cur \in consumed /\ cur.id \in Ids
    BY <1>0, <1>20 DEF Release, MemoryTypes, Intents
  <2>2. \A i \in consumed : i.id \in Ids
    BY <1>0 DEF MemoryTypes, Intents
  <2>3. results \in [Ids -> Statuses \cup {None}]
    BY <1>0 DEF MemoryTypes
  <2>4. results'[cur.id] \in {"OFFLINE_REJECTED", "NOT_DISPATCHED"}
    BY <1>20, <2>1, <2>3 DEF Release, Store
  <2>5. \A i \in consumed : i # cur => results'[i.id] = results[i.id]
    BY <1>20, <2>1, <2>2, <2>3 DEF Release, Store
  <2>6. OpenOrdersReserved'
    BY <1>20, <2>4, <2>5 DEF Release
  <2>7. QED BY <1>20, <2>6 DEF Release, Store, Return
<1>21. CASE Interrupt
  BY <1>0, <1>21 DEF Interrupt, HaltWith, Return
<1>22. CASE \E p \in Portfolios : Open(p)
  BY <1>0, <1>22 DEF Open
<1>23. CASE Close
  BY <1>0, <1>23 DEF Close, Gone
<1>24. CASE Crash
  BY <1>0, <1>24 DEF Crash, Gone
<1>25. CASE \E b \in BOOLEAN : SetKillSwitch(b)
  BY <1>0, <1>25 DEF SetKillSwitch
<1>26. CASE ForeignAppend
  BY <1>0, <1>26 DEF ForeignAppend
<1>27. CASE RestoreBackup
  BY <1>0, <1>27 DEF RestoreBackup
<1>28. QED
  BY <1>1, <1>2, <1>3, <1>4, <1>5, <1>6, <1>7, <1>8, <1>9, <1>10, <1>11,
     <1>12, <1>13, <1>14, <1>15, <1>16, <1>17, <1>18, <1>19, <1>20, <1>21,
     <1>22, <1>23, <1>24, <1>25, <1>26, <1>27
     DEF Next, Submit, Sampling, Environment

\* The order of the samples.
LEMMA ControlKeeps == TypeOK /\ ControlInv /\ Next => ControlInv'
<1> SUFFICES ASSUME TypeOK, ControlInv, Next PROVE ControlInv'
  OBVIOUS
<1> USE DEF ControlInv, FreshDispatch, KillOutrun
<1>0. now \in Int /\ dispatchNow \in Int /\ \A t \in Times : t \in Int
  BY DEF TypeOK, CallTypes
<1>1. CASE \E i \in Intents : Begin(i)
  BY <1>0, <1>1 DEF Begin
<1>2. CASE LedgerGone
  BY <1>0, <1>2 DEF LedgerGone
<1>3. CASE \E t \in Times : Gate(t)
  BY <1>0, <1>3 DEF Gate, Return
<1>4. CASE \E t \in Times : Resample(t)
  <2>1. PICK t \in Times : Resample(t)
    BY <1>4
  <2>2. pc' = "recheck" /\ dispatchNow' = t /\ now' = now
    BY <2>1 DEF Resample
  <2>3. stop' = (~NoReason(cur.content, t) \/ t < now)
    BY <2>1 DEF Resample
  <2>4. ~stop' => ~(t < now)
    BY <2>3, Zenon
  <2>5. ~stop' => dispatchNow' >= now'
    BY <1>0, <2>2, <2>4
  <2>6. QED BY <2>2, <2>5
<1>5. CASE \E t \in Times : FinalSample(t)
  <2>1. PICK t \in Times : FinalSample(t)
    BY <1>5
  <2>2. CASE ~stop /\ NoReason(cur.content, t) /\ t >= dispatchNow
    <3>1. /\ pc = "final" /\ pc' = "dispatch" /\ dispatchNow' = t
          /\ UNCHANGED <<stop, cur, now, kill>>
      BY <2>1, <2>2 DEF FinalSample
    <3>2. dispatchNow >= now
      BY <2>2, <3>1
    <3>3. dispatchNow' >= now'
      BY <1>0, <2>2, <3>1, <3>2
    <3>4. Fresh(cur.content, t) /\ ~kill
      BY <2>2 DEF NoReason
    <3>5. Fresh(cur.content, dispatchNow)'
      BY <3>1, <3>4 DEF Fresh
    <3>6. QED BY <2>2, <3>1, <3>3, <3>4, <3>5
  <2>3. CASE ~(~stop /\ NoReason(cur.content, t) /\ t >= dispatchNow)
    BY <2>1, <2>3 DEF FinalSample, FreeReservation
  <2>4. QED BY <2>2, <2>3
<1>6. CASE Block
  BY <1>0, <1>6 DEF Block, Return
<1>7. CASE Reserve
  BY <1>0, <1>7 DEF Reserve, Goto
<1>8. CASE Hold
  BY <1>0, <1>8 DEF Hold, Goto
<1>9. CASE Consume
  BY <1>0, <1>9 DEF Consume, Goto
<1>10. CASE Persist
  BY <1>0, <1>10 DEF Persist, Goto
<1>11. CASE Acknowledge
  BY <1>0, <1>11 DEF Acknowledge, Goto
<1>12. CASE Bind
  BY <1>0, <1>12 DEF Bind, Goto
<1>13. CASE AppendFails
  BY <1>0, <1>13 DEF AppendFails, Store, Return
<1>14. CASE Recheck
  BY <1>0, <1>14 DEF Recheck, Goto
<1>15. CASE RecheckFails
  BY <1>0, <1>15 DEF RecheckFails, Store, Return
<1>16. CASE Dispatch
  BY <1>0, <1>16 DEF Dispatch
<1>17. CASE Acked
  BY <1>0, <1>17 DEF Acked, Store, Return
<1>18. CASE Rejected
  BY <1>0, <1>18 DEF Rejected, FreeReservation
<1>19. CASE OutcomeUnknown
  BY <1>0, <1>19 DEF OutcomeUnknown, Store, Return
<1>20. CASE Release
  BY <1>0, <1>20 DEF Release, Store, Return
<1>21. CASE Interrupt
  BY <1>0, <1>21 DEF Interrupt, HaltWith, Return
<1>22. CASE \E p \in Portfolios : Open(p)
  BY <1>0, <1>22 DEF Open
<1>23. CASE Close
  BY <1>0, <1>23 DEF Close, Gone
<1>24. CASE Crash
  BY <1>0, <1>24 DEF Crash, Gone
<1>25. CASE \E b \in BOOLEAN : SetKillSwitch(b)
  BY <1>0, <1>25 DEF SetKillSwitch
<1>26. CASE ForeignAppend
  BY <1>0, <1>26 DEF ForeignAppend
<1>27. CASE RestoreBackup
  BY <1>0, <1>27 DEF RestoreBackup
<1>28. QED
  BY <1>1, <1>2, <1>3, <1>4, <1>5, <1>6, <1>7, <1>8, <1>9, <1>10, <1>11,
     <1>12, <1>13, <1>14, <1>15, <1>16, <1>17, <1>18, <1>19, <1>20, <1>21,
     <1>22, <1>23, <1>24, <1>25, <1>26, <1>27
     DEF Next, Submit, Sampling, Environment

\* The log, its receipts, and the record of the call in progress.
LogInv ==
  /\ \A j, k \in 1..Len(log) : log[j].id = log[k].id => j = k
  /\ \A r \in acked : r.seq \in 1..Len(log) /\ log[r.seq] = r.intent
  /\ pc = "acknowledge" => Len(log) > 0 /\ log[Len(log)] = cur
  /\ pc \in {"bind", "resample", "recheck", "final", "dispatch"} =>
       \E r \in acked : r.intent = cur

\* Records keep their place, and receipts name them.
LEMMA LogKeeps == TypeOK /\ LogInv /\ Next => LogInv'
<1> SUFFICES ASSUME TypeOK, LogInv, Next PROVE LogInv'
  OBVIOUS
<1> USE DEF LogInv
<1>0. /\ FileTypes /\ CallTypes
      /\ log \in Seq(Intents) /\ Len(log) \in Nat
  BY DEF TypeOK, FileTypes
<1>1. CASE \E i \in Intents : Begin(i)
  BY <1>0, <1>1 DEF Begin
<1>2. CASE LedgerGone
  BY <1>0, <1>2 DEF LedgerGone
<1>3. CASE \E t \in Times : Gate(t)
  BY <1>0, <1>3 DEF Gate, Return
<1>4. CASE \E t \in Times : Resample(t)
  BY <1>0, <1>4 DEF Resample
<1>5. CASE \E t \in Times : FinalSample(t)
  BY <1>0, <1>5 DEF FinalSample, FreeReservation
<1>6. CASE Block
  BY <1>0, <1>6 DEF Block, Return
<1>7. CASE Reserve
  BY <1>0, <1>7 DEF Reserve, Goto
<1>8. CASE Hold
  BY <1>0, <1>8 DEF Hold, Goto
<1>9. CASE Consume
  BY <1>0, <1>9 DEF Consume, Goto
<1>10. CASE Persist
  BY <1>0, <1>10 DEF Persist, Goto
<1>11. CASE Acknowledge
  <2>1. log[Len(log)] = cur /\ Len(log) \in 1..Len(log)
    BY <1>0, <1>11 DEF Acknowledge
  <2>2. acked' = acked \cup {[seq |-> Len(log), intent |-> cur]}
    BY <1>11 DEF Acknowledge
  <2>3. \A r \in acked' : r.seq \in 1..Len(log) /\ log[r.seq] = r.intent
    BY <2>1, <2>2
  <2>4. \E r \in acked' : r.intent = cur
    <3>1. [seq |-> Len(log), intent |-> cur] \in acked'
      BY <2>2
    <3>2. QED BY <3>1
  <2>5. QED BY <1>11, <2>3, <2>4 DEF Acknowledge, Goto
<1>12. CASE Bind
  BY <1>0, <1>12 DEF Bind, Goto
<1>13. CASE AppendFails
  BY <1>0, <1>13 DEF AppendFails, Store, Return
<1>14. CASE Recheck
  BY <1>0, <1>14 DEF Recheck, Goto
<1>15. CASE RecheckFails
  BY <1>0, <1>15 DEF RecheckFails, Store, Return
<1>16. CASE Dispatch
  BY <1>0, <1>16 DEF Dispatch
<1>17. CASE Acked
  BY <1>0, <1>17 DEF Acked, Store, Return
<1>18. CASE Rejected
  BY <1>0, <1>18 DEF Rejected, FreeReservation
<1>19. CASE OutcomeUnknown
  BY <1>0, <1>19 DEF OutcomeUnknown, Store, Return
<1>20. CASE Release
  BY <1>0, <1>20 DEF Release, Store, Return
<1>21. CASE Interrupt
  BY <1>0, <1>21 DEF Interrupt, HaltWith, Return
<1>22. CASE \E p \in Portfolios : Open(p)
  BY <1>0, <1>22 DEF Open
<1>23. CASE Close
  BY <1>0, <1>23 DEF Close, Gone
<1>24. CASE Crash
  BY <1>0, <1>24 DEF Crash, Gone
<1>25. CASE \E b \in BOOLEAN : SetKillSwitch(b)
  BY <1>0, <1>25 DEF SetKillSwitch
<1>26. CASE ForeignAppend
  BY <1>0, <1>26 DEF ForeignAppend
<1>27. CASE RestoreBackup
  BY <1>0, <1>27 DEF RestoreBackup
<1>28. QED
  BY <1>1, <1>2, <1>3, <1>4, <1>5, <1>6, <1>7, <1>8, <1>9, <1>10, <1>11,
     <1>12, <1>13, <1>14, <1>15, <1>16, <1>17, <1>18, <1>19, <1>20, <1>21,
     <1>22, <1>23, <1>24, <1>25, <1>26, <1>27
     DEF Next, Submit, Sampling, Environment

\* An unhalted path spent the id of every record and, but for the call in
\* progress, knows what became of it.
FateInv ==
  pc # "down" /\ halt = None =>
    \A k \in 1..Len(log) :
      /\ \E j \in consumed : j.id = log[k].id
      /\ \/ results[log[k].id] \in Settled
         \/ pc \in Spent \ {"append"} /\ log[k].id = cur.id

\* Every way out of a call settles its record or halts the path.
LEMMA FatesKeep == TypeOK /\ CallInv /\ FateInv /\ Next => FateInv'
<1> SUFFICES ASSUME TypeOK, CallInv, FateInv, Next PROVE FateInv'
  OBVIOUS
<1> USE DEF FateInv, Spent, Settled
<1>0. /\ FileTypes /\ MemoryTypes /\ CallTypes
      /\ log \in Seq(Intents) /\ Len(log) \in Nat
      /\ None \notin Halts
  BY SubmitAssumption DEF TypeOK, FileTypes
<1>1. CASE \E i \in Intents : Begin(i)
  BY <1>0, <1>1 DEF Begin
<1>2. CASE LedgerGone
  BY <1>0, <1>2 DEF LedgerGone
<1>3. CASE \E t \in Times : Gate(t)
  BY <1>0, <1>3 DEF Gate, Return
<1>4. CASE \E t \in Times : Resample(t)
  BY <1>0, <1>4 DEF Resample
<1>5. CASE \E t \in Times : FinalSample(t)
  BY <1>0, <1>5 DEF FinalSample, FreeReservation
<1>6. CASE Block
  BY <1>0, <1>6 DEF Block, Return
<1>7. CASE Reserve
  BY <1>0, <1>7 DEF Reserve, Goto
<1>8. CASE Hold
  BY <1>0, <1>8 DEF Hold, Goto
<1>9. CASE Consume
  BY <1>0, <1>9 DEF Consume, Goto
<1>10. CASE Persist
  <2>1. CASE halt = None
    <3>1. /\ log' = Append(log, cur) /\ cur \in Intents /\ cur \in consumed
          /\ UNCHANGED <<consumed, results, cur>>
          /\ pc = "append" /\ pc' = "acknowledge"
      BY <1>0, <1>10 DEF Persist, Goto, CallInv, Spent, CallTypes, Steps
    <3>2. \A k \in 1..Len(log) : log'[k] = log[k]
      BY <1>0, <3>1
    <3>3. Len(log') = Len(log) + 1 /\ log'[Len(log) + 1] = cur
      BY <1>0, <3>1
    <3>4. \A k \in 1..Len(log) :
            /\ \E j \in consumed : j.id = log'[k].id
            /\ results[log'[k].id] \in Settled
      BY <2>1, <3>1, <3>2
    <3>5. \A k \in 1..Len(log') : k \in 1..Len(log) \/ log'[k] = cur
      BY <1>0, <3>3
    <3>6. QED BY <3>1, <3>4, <3>5
  <2>2. CASE halt # None
    BY <1>10, <2>2 DEF Persist, Goto
  <2>3. QED BY <2>1, <2>2
<1>11. CASE Acknowledge
  BY <1>0, <1>11 DEF Acknowledge, Goto
<1>12. CASE Bind
  BY <1>0, <1>12 DEF Bind, Goto
<1>13. CASE AppendFails
  BY <1>0, <1>13 DEF AppendFails, Store, Return, Halts
<1>14. CASE Recheck
  BY <1>0, <1>14 DEF Recheck, Goto
<1>15. CASE RecheckFails
  BY <1>0, <1>15 DEF RecheckFails, Store, Return, Halts
<1>16. CASE Dispatch
  BY <1>0, <1>16 DEF Dispatch
<1>17. CASE Acked
  <2>1. cur.id \in Ids /\ results \in [Ids -> Statuses \cup {None}]
    BY <1>0, <1>17 DEF Acked, CallTypes, MemoryTypes, Intents, Steps
  <2>2. results'[cur.id] \in Settled
    BY <1>17, <2>1 DEF Acked, Store
  <2>3. \A i \in Ids : i # cur.id => results'[i] = results[i]
    BY <1>17, <2>1 DEF Acked, Store
  <2>4. \A k \in 1..Len(log) : log[k].id \in Ids
    <3>1. \A k \in 1..Len(log) : log[k] \in Intents
      BY <1>0
    <3>2. QED BY <3>1 DEF Intents
  <2>5. UNCHANGED <<log, consumed, halt>> /\ pc # "down"
    BY <1>17 DEF Acked, pathVars, ledgerVars
  <2>6. QED BY <2>2, <2>3, <2>4, <2>5
<1>18. CASE Rejected
  BY <1>0, <1>18 DEF Rejected, FreeReservation
<1>19. CASE OutcomeUnknown
  BY <1>0, <1>19 DEF OutcomeUnknown, Store, Return, Halts
<1>20. CASE Release
  <2>1. cur.id \in Ids /\ results \in [Ids -> Statuses \cup {None}]
    BY <1>0, <1>20 DEF Release, CallTypes, MemoryTypes, Intents, Steps
  <2>2. results'[cur.id] \in Settled
    BY <1>20, <2>1 DEF Release, Store
  <2>3. \A i \in Ids : i # cur.id => results'[i] = results[i]
    BY <1>20, <2>1 DEF Release, Store
  <2>4. \A k \in 1..Len(log) : log[k].id \in Ids
    <3>1. \A k \in 1..Len(log) : log[k] \in Intents
      BY <1>0
    <3>2. QED BY <3>1 DEF Intents
  <2>5. UNCHANGED <<log, consumed, halt>> /\ pc # "down"
    BY <1>20 DEF Release, pathVars, ledgerVars
  <2>6. QED BY <2>2, <2>3, <2>4, <2>5
<1>21. CASE Interrupt
  BY <1>0, <1>21 DEF Interrupt, HaltWith, Return, Halts
<1>22. CASE \E p \in Portfolios : Open(p)
  <2>1. PICK p \in Portfolios : Open(p)
    BY <1>22
  <2>2. halt' = IF Len(log) > 0 THEN "RECOVERED_HISTORY" ELSE None
    BY <2>1 DEF Open
  <2>3. halt' = None => Len(log) = 0
    BY <1>0, <2>2 DEF Halts
  <2>4. QED BY <2>1, <2>3 DEF Open
<1>23. CASE Close
  BY <1>0, <1>23 DEF Close, Gone
<1>24. CASE Crash
  BY <1>0, <1>24 DEF Crash, Gone
<1>25. CASE \E b \in BOOLEAN : SetKillSwitch(b)
  BY <1>0, <1>25 DEF SetKillSwitch
<1>26. CASE ForeignAppend
  BY <1>0, <1>26 DEF ForeignAppend
<1>27. CASE RestoreBackup
  BY <1>0, <1>27 DEF RestoreBackup
<1>28. QED
  BY <1>1, <1>2, <1>3, <1>4, <1>5, <1>6, <1>7, <1>8, <1>9, <1>10, <1>11,
     <1>12, <1>13, <1>14, <1>15, <1>16, <1>17, <1>18, <1>19, <1>20, <1>21,
     <1>22, <1>23, <1>24, <1>25, <1>26, <1>27
     DEF Next, Submit, Sampling, Environment

\* Requests are on record, and the call in progress has not made its own.
RequestInv ==
  /\ \A n \in 1..Len(requests) :
       requests[n].id \in voided \/ \E r \in acked : r.intent = requests[n]
  /\ pc \in Steps \ {"answer", "release"} =>
       \A n \in 1..Len(requests) :
         requests[n].id = cur.id => cur.id \in voided
  /\ AtMostOnce

\* Every request is on record and none is repeated.
LEMMA RequestsKeep == TypeOK /\ LogInv /\ FateInv /\ RequestInv /\ Next => RequestInv'
<1> SUFFICES ASSUME TypeOK, LogInv, FateInv, RequestInv, Next PROVE RequestInv'
  OBVIOUS
<1> USE DEF RequestInv, AtMostOnce
<1>0. /\ FileTypes /\ CallTypes
      /\ requests \in Seq(Intents) /\ Len(requests) \in Nat
  BY DEF TypeOK, FileTypes
<1>1. CASE \E i \in Intents : Begin(i)
  <2>1. PICK i \in Intents : Begin(i)
    BY <1>1
  <2>2. \A j \in consumed : j.id # i.id
    BY <2>1 DEF Begin
  <2>3. \A k \in 1..Len(log) : \E j \in consumed : j.id = log[k].id
    BY <2>1 DEF Begin, FateInv
  <2>4. \A r \in acked : r.intent.id # i.id
    BY <2>2, <2>3 DEF LogInv
  <2>5. \A n \in 1..Len(requests) : requests[n].id = i.id => i.id \in voided
    BY <2>4
  <2>6. QED BY <2>1, <2>5 DEF Begin
<1>2. CASE LedgerGone
  BY <1>0, <1>2 DEF LedgerGone
<1>3. CASE \E t \in Times : Gate(t)
  BY <1>0, <1>3 DEF Gate, Return
<1>4. CASE \E t \in Times : Resample(t)
  BY <1>0, <1>4 DEF Resample
<1>5. CASE \E t \in Times : FinalSample(t)
  BY <1>0, <1>5 DEF FinalSample, FreeReservation
<1>6. CASE Block
  BY <1>0, <1>6 DEF Block, Return
<1>7. CASE Reserve
  BY <1>0, <1>7 DEF Reserve, Goto
<1>8. CASE Hold
  BY <1>0, <1>8 DEF Hold, Goto
<1>9. CASE Consume
  BY <1>0, <1>9 DEF Consume, Goto
<1>10. CASE Persist
  BY <1>0, <1>10 DEF Persist, Goto
<1>11. CASE Acknowledge
  BY <1>0, <1>11 DEF Acknowledge, Goto
<1>12. CASE Bind
  BY <1>0, <1>12 DEF Bind, Goto
<1>13. CASE AppendFails
  BY <1>0, <1>13 DEF AppendFails, Store, Return
<1>14. CASE Recheck
  BY <1>0, <1>14 DEF Recheck, Goto
<1>15. CASE RecheckFails
  BY <1>0, <1>15 DEF RecheckFails, Store, Return
<1>16. CASE Dispatch
  <2>1. /\ requests' = Append(requests, cur) /\ pc = "dispatch" /\ pc' = "answer"
        /\ UNCHANGED <<voided, acked, cur>>
    BY <1>16 DEF Dispatch
  <2>2. \A n \in 1..Len(requests) :
          requests'[n] = requests[n]
            /\ (requests[n].id = cur.id => cur.id \in voided)
    BY <1>0, <2>1
  <2>3. Len(requests') = Len(requests) + 1 /\ requests'[Len(requests) + 1] = cur
    BY <1>0, <2>1
  <2>4. \A n \in 1..Len(requests') : n \in 1..Len(requests) \/ requests'[n] = cur
    BY <1>0, <2>3
  <2>5. \E r \in acked : r.intent = cur
    BY <2>1 DEF LogInv
  <2>6. \A m, n \in 1..Len(requests') :
          m # n /\ requests'[m].id = requests'[n].id => requests'[m].id \in voided
    <3>1. TAKE m, n \in 1..Len(requests')
    <3>2. HAVE m # n /\ requests'[m].id = requests'[n].id
    <3>3. CASE m \in 1..Len(requests) /\ n \in 1..Len(requests)
      BY <2>2, <3>2, <3>3
    <3>4. CASE m \notin 1..Len(requests)
      <4>1. m = Len(requests) + 1 /\ n \in 1..Len(requests)
        BY <1>0, <2>3, <3>2, <3>4
      <4>2. QED BY <2>2, <2>3, <3>2, <4>1
    <3>5. CASE n \notin 1..Len(requests)
      <4>1. n = Len(requests) + 1 /\ m \in 1..Len(requests)
        BY <1>0, <2>3, <3>2, <3>5
      <4>2. QED BY <2>2, <2>3, <3>2, <4>1
    <3>6. QED BY <3>3, <3>4, <3>5
  <2>7. QED BY <2>1, <2>2, <2>4, <2>5, <2>6
<1>17. CASE Acked
  BY <1>0, <1>17 DEF Acked, Store, Return
<1>18. CASE Rejected
  BY <1>0, <1>18 DEF Rejected, FreeReservation
<1>19. CASE OutcomeUnknown
  BY <1>0, <1>19 DEF OutcomeUnknown, Store, Return
<1>20. CASE Release
  BY <1>0, <1>20 DEF Release, Store, Return
<1>21. CASE Interrupt
  BY <1>0, <1>21 DEF Interrupt, HaltWith, Return
<1>22. CASE \E p \in Portfolios : Open(p)
  BY <1>0, <1>22 DEF Open
<1>23. CASE Close
  BY <1>0, <1>23 DEF Close, Gone
<1>24. CASE Crash
  BY <1>0, <1>24 DEF Crash, Gone
<1>25. CASE \E b \in BOOLEAN : SetKillSwitch(b)
  BY <1>0, <1>25 DEF SetKillSwitch
<1>26. CASE ForeignAppend
  BY <1>0, <1>26 DEF ForeignAppend
<1>27. CASE RestoreBackup
  <2>1. PICK n0 \in 0..Len(log) :
          /\ acked' = {r \in acked : r.seq <= n0}
          /\ voided' = voided \cup {log[k].id : k \in (n0 + 1)..Len(log)}
    BY <1>27 DEF RestoreBackup
  <2>2. \A r \in acked : r.seq \in Nat /\ r.seq \in 1..Len(log)
                           /\ log[r.seq] = r.intent
    BY DEF LogInv
  <2>3. \A r \in acked : r \in acked' \/ r.intent.id \in voided'
    <3>1. TAKE r \in acked
    <3>2. CASE r.seq <= n0
      BY <2>1, <3>2
    <3>3. CASE r.seq > n0
      <4>1. r.seq \in (n0 + 1)..Len(log)
        BY <2>2, <3>3
      <4>2. QED BY <2>1, <2>2, <4>1
    <3>4. QED BY <2>2, <3>2, <3>3
  <2>4. UNCHANGED <<requests, pc, cur>> /\ pc = "down"
    BY <1>27 DEF RestoreBackup
  <2>5. QED BY <2>1, <2>3, <2>4 DEF Steps
<1>28. QED
  BY <1>1, <1>2, <1>3, <1>4, <1>5, <1>6, <1>7, <1>8, <1>9, <1>10, <1>11,
     <1>12, <1>13, <1>14, <1>15, <1>16, <1>17, <1>18, <1>19, <1>20, <1>21,
     <1>22, <1>23, <1>24, <1>25, <1>26, <1>27
     DEF Next, Submit, Sampling, Environment

-----------------------------------------------------------------------------
(* The account through a call                                              *)

\* The intents the account reserves for: within _reserve and _release_hold
\* one assignment is ahead of the other.
Backed == IF pc = "hold" THEN holds \cup {cur}
          ELSE IF pc = "release" THEN holds \ {cur} ELSE holds

\* The account reserves for exactly these, and what is reserved, or on hold
\* after a call was cut short, stays within the limits.
AccountInv ==
  /\ IsFiniteSet(holds)
  /\ pc = "down" => holds = {} /\ halt = None
  /\ halt = None => \A i \in holds : i \in consumed \/ (pc = "consume" /\ i = cur)
  /\ halt # "UNEXPECTED_FAILURE" => Reserved(Backed, reservedCash, reservedQty)
  /\ pc # "down" =>
       Bounded(portfolio, IF pc = "hold" THEN holds \cup {cur} ELSE holds)

\* An intent on its way to its hold has none yet.
LEMMA NotYetHeld ==
  TypeOK /\ CallInv /\ AccountInv /\ pc \in {"gate", "risk", "hold"} =>
    cur \notin holds /\ halt = None /\ cur \in Intents
  BY DEF TypeOK, CallTypes, Steps, CallInv, Early, AccountInv

\* A step that touches neither the account nor what backs it.
LEMMA AccountRests ==
  ASSUME AccountInv, UNCHANGED <<holds, reservedCash, reservedQty, portfolio>>,
         pc \notin {"hold", "release", "down"},
         pc' \notin {"hold", "release", "down"},
         halt' = halt \/ halt' # None,
         halt = "UNEXPECTED_FAILURE" => halt' = halt,
         consumed \subseteq consumed',
         pc = "consume" => cur \in consumed' \/ halt' # None,
         pc' = "consume" => pc = "consume" /\ cur' = cur
  PROVE  AccountInv'
  BY DEF AccountInv, Backed

\* What the checks of submit establish for the bounds.
LEMMA AllowedBounds ==
  ASSUME TypeOK, IsFiniteSet(holds), portfolio \in Portfolios, cur \in Intents,
         cur \notin holds, Allowed(cur.content),
         Reserved(holds, reservedCash, reservedQty), Bounded(portfolio, holds)
  PROVE  Bounded(portfolio, holds \cup {cur})
<1> DEFINE o == cur.content
           m == cur.content.market
           k == Key(cur.content)
<1>0. holds \in SUBSET Intents
  BY DEF TypeOK, AccountTypes
<1>1. /\ CashNeeded(o) \in Int /\ SellQty(o) \in Int /\ BuyNotional(o) \in Int
      /\ k \in Keys
  BY AmountBounds
<1>2. /\ portfolio.cash \in Int /\ portfolio.held[k] \in Int
  BY <1>1, SubmitAssumption
<1>3. MarketExposure(portfolio, m) \in Int /\ GrossExposure(portfolio) \in Int
  BY ExposureTypes
<1>4. Cash(holds) \in Int /\ Buy(holds) \in Int
  BY <1>0, TotalsAdd
<1>5. Sell(InKey(holds, k)) \in Int /\ Buy(InMarket(holds, m)) \in Int
  BY <1>0, <1>1, PartsAdd
<1>6. reservedCash = Cash(holds) /\ reservedQty[k] = Sell(InKey(holds, k))
  BY <1>1 DEF Reserved
<1>7. /\ MarketExposure(portfolio, m) + BuyNotional(o) + Buy(InMarket(holds, m))
           <= MaxMarketExposure
      /\ GrossExposure(portfolio) + BuyNotional(o) + Buy(holds)
           <= MaxGrossExposure
      /\ CashNeeded(o) <= portfolio.cash - reservedCash
      /\ SellQty(o) <= portfolio.held[k] - reservedQty[k]
  BY DEF Allowed, Buy
<1> HIDE DEF o, m, k
<1>8. CashNeeded(o) + Cash(holds) <= portfolio.cash
  BY <1>1, <1>2, <1>4, <1>6, <1>7
<1>9. SellQty(o) + Sell(InKey(holds, k)) <= portfolio.held[k]
  BY <1>1, <1>2, <1>5, <1>6, <1>7
<1>10. MarketExposure(portfolio, m) + (BuyNotional(o) + Buy(InMarket(holds, m)))
         <= MaxMarketExposure
  BY <1>1, <1>3, <1>5, <1>7
<1>11. GrossExposure(portfolio) + (BuyNotional(o) + Buy(holds))
         <= MaxGrossExposure
  BY <1>1, <1>3, <1>4, <1>7
<1>12. QED BY <1>0, <1>8, <1>9, <1>10, <1>11, BoundedAdd DEF o, m, k

\* Giving a reservation back leaves the bounds alone and the intent on hold.
LEMMA FreeKeeps ==
  ASSUME TypeOK, CallInv, AccountInv, FreeReservation,
         pc \in {"final", "answer"},
         UNCHANGED <<portfolio, consumed, holds, halt, cur>>
  PROVE  AccountInv'
<1>1. /\ cur \in holds /\ halt = None /\ holds \in SUBSET Intents
      /\ reservedCash \in Int /\ reservedQty \in [Keys -> Int]
      /\ IsFiniteSet(holds) /\ None # "UNEXPECTED_FAILURE"
  BY SubmitAssumption
     DEF CallInv, Spent, TypeOK, AccountTypes, AccountInv, Halts
<1>2. Reserved(holds, reservedCash, reservedQty)
  BY <1>1 DEF AccountInv, Backed
<1>3. /\ reservedCash' = reservedCash - CashNeeded(cur.content)
      /\ reservedQty' = [reservedQty EXCEPT ![Key(cur.content)] =
                           @ - SellQty(cur.content)]
      /\ pc' = "release"
  BY DEF FreeReservation
<1>4. Reserved(holds \ {cur}, reservedCash', reservedQty')
  BY <1>1, <1>2, <1>3, ReservedRemove
<1>5. QED BY <1>1, <1>3, <1>4 DEF AccountInv, Backed

\* A coordinator that does not exist reserves nothing.
LEMMA GoneAccount == Gone => AccountInv'
<1> SUFFICES ASSUME Gone PROVE AccountInv'
  OBVIOUS
<1>1. /\ holds' = {} /\ halt' = None /\ pc' = "down"
      /\ reservedCash' = 0 /\ reservedQty' = [k \in Keys |-> 0]
  BY DEF Gone
<1>2. Reserved(holds', reservedCash', reservedQty')
  BY <1>1, NothingReserved
<1>3. IsFiniteSet(holds')
  BY <1>1, FS_EmptySet
<1>4. QED BY <1>1, <1>2, <1>3 DEF AccountInv, Backed

\* The account and its bounds through every step.
LEMMA AccountKeeps == TypeOK /\ CallInv /\ AccountInv /\ Next => AccountInv'
<1> SUFFICES ASSUME TypeOK, CallInv, AccountInv, Next PROVE AccountInv'
  OBVIOUS
<1>0. /\ holds \in SUBSET Intents /\ IsFiniteSet(holds)
      /\ reservedCash \in Int /\ reservedQty \in [Keys -> Int]
      /\ pc # "down" => portfolio \in Portfolios
      /\ pc \in Steps => cur \in Intents /\ halt = None
      /\ None \notin Halts
  BY SubmitAssumption
     DEF TypeOK, AccountTypes, CallTypes, AccountInv, CallInv, Steps
<1>1. CASE \E i \in Intents : Begin(i)
  BY <1>1, AccountRests DEF Begin
<1>2. CASE LedgerGone
  BY <1>0, <1>2, AccountRests DEF LedgerGone, Halts
<1>3. CASE \E t \in Times : Gate(t)
  BY <1>3, AccountRests DEF Gate, Return
<1>4. CASE \E t \in Times : Resample(t)
  BY <1>4, AccountRests DEF Resample
<1>5. CASE \E t \in Times : FinalSample(t)
  <2>1. PICK t \in Times : FinalSample(t)
    BY <1>5
  <2>2. CASE ~stop /\ NoReason(cur.content, t) /\ t >= dispatchNow
    BY <2>1, <2>2, AccountRests DEF FinalSample
  <2>3. CASE ~(~stop /\ NoReason(cur.content, t) /\ t >= dispatchNow)
    <3>1. /\ FreeReservation /\ pc = "final"
          /\ UNCHANGED <<portfolio, consumed, holds, halt, cur>>
      BY <2>1, <2>3 DEF FinalSample
    <3>2. QED BY <1>0, <3>1, FreeKeeps
  <2>4. QED BY <2>2, <2>3
<1>6. CASE Block
  BY <1>6, AccountRests DEF Block, Return
<1>7. CASE Reserve
  <2>1. /\ pc = "risk" /\ pc' = "hold" /\ Allowed(cur.content)
        /\ reservedCash' = reservedCash + CashNeeded(cur.content)
        /\ reservedQty' = [reservedQty EXCEPT ![Key(cur.content)] =
                             @ + SellQty(cur.content)]
        /\ UNCHANGED <<portfolio, consumed, holds, halt, cur>>
    BY <1>7 DEF Reserve, Goto
  <2>2. cur \notin holds /\ halt = None /\ cur \in Intents
    BY <2>1, NotYetHeld
  <2>3. Reserved(holds, reservedCash, reservedQty) /\ Bounded(portfolio, holds)
    BY <1>0, <2>1, <2>2 DEF AccountInv, Backed, Halts
  <2>4. Reserved(holds \cup {cur}, reservedCash', reservedQty')
    BY <1>0, <2>1, <2>2, <2>3, ReservedAdd
  <2>5. Bounded(portfolio, holds \cup {cur})
    BY <1>0, <2>1, <2>2, <2>3, AllowedBounds
  <2>6. \A i \in holds : i \in consumed
    BY <2>1, <2>2 DEF AccountInv
  <2>7. QED BY <1>0, <2>1, <2>2, <2>4, <2>5, <2>6 DEF AccountInv, Backed
<1>8. CASE Hold
  <2>1. /\ pc = "hold" /\ pc' = "consume" /\ holds' = holds \cup {cur}
        /\ UNCHANGED <<portfolio, consumed, halt, cur, reservedCash, reservedQty>>
    BY <1>8 DEF Hold, Goto
  <2>2. IsFiniteSet(holds')
    BY <1>0, <2>1, FS_AddElement
  <2>3. QED BY <2>1, <2>2 DEF AccountInv, Backed
<1>9. CASE Consume
  BY <1>9, AccountRests DEF Consume, Goto
<1>10. CASE Persist
  BY <1>10, AccountRests DEF Persist, Goto
<1>11. CASE Acknowledge
  BY <1>11, AccountRests DEF Acknowledge, Goto
<1>12. CASE Bind
  BY <1>12, AccountRests DEF Bind, Goto
<1>13. CASE AppendFails
  BY <1>0, <1>13, AccountRests DEF AppendFails, Store, Return, Halts, Steps
<1>14. CASE Recheck
  BY <1>14, AccountRests DEF Recheck, Goto
<1>15. CASE RecheckFails
  BY <1>0, <1>15, AccountRests DEF RecheckFails, Store, Return, Halts, Steps
<1>16. CASE Dispatch
  BY <1>16, AccountRests DEF Dispatch
<1>17. CASE Acked
  BY <1>17, AccountRests DEF Acked, Store, Return
<1>18. CASE Rejected
  <2>1. /\ FreeReservation /\ pc = "answer"
        /\ UNCHANGED <<portfolio, consumed, holds, halt, cur>>
    BY <1>18 DEF Rejected
  <2>2. QED BY <1>0, <2>1, FreeKeeps
<1>19. CASE OutcomeUnknown
  BY <1>0, <1>19, AccountRests DEF OutcomeUnknown, Store, Return, Halts, Steps
<1>20. CASE Release
  <2>1. /\ pc = "release" /\ pc' = "idle" /\ holds' = holds \ {cur}
        /\ UNCHANGED <<portfolio, consumed, halt, reservedCash, reservedQty>>
    BY <1>20 DEF Release, Store, Return
  <2>2. IsFiniteSet(holds') /\ cur \in holds
    BY <1>0, <2>1, FS_Subset DEF CallInv, Spent
  <2>3. Bounded(portfolio, holds')
    <3>1. /\ holds' \in SUBSET Intents /\ cur \in Intents /\ cur \notin holds'
          /\ holds' \cup {cur} = holds
      BY <1>0, <2>1, <2>2 DEF Steps
    <3>2. Bounded(portfolio, holds' \cup {cur})
      BY <2>1, <3>1 DEF AccountInv
    <3>3. QED BY <1>0, <2>1, <2>2, <3>1, <3>2, BoundedLess
  <2>4. QED BY <2>1, <2>2, <2>3 DEF AccountInv, Backed
<1>21. CASE Interrupt
  <2>1. /\ pc \in Steps /\ pc' = "idle" /\ halt' = "UNEXPECTED_FAILURE"
        /\ UNCHANGED <<portfolio, consumed, holds, reservedCash, reservedQty>>
    BY <1>0, <1>21 DEF Interrupt, HaltWith, Return
  <2>2. Bounded(portfolio, holds)
    <3>1. CASE pc = "hold"
      <4>1. Bounded(portfolio, holds \cup {cur})
        BY <3>1 DEF AccountInv
      <4>2. cur \notin holds /\ cur \in Intents
        BY <3>1, NotYetHeld
      <4>3. QED BY <1>0, <3>1, <4>1, <4>2, BoundedLess
    <3>2. CASE pc # "hold"
      BY <2>1, <3>2 DEF AccountInv, Steps
    <3>3. QED BY <3>1, <3>2
  <2>3. halt' # None
    BY <1>0, <2>1 DEF Halts
  <2>4. QED BY <1>0, <2>1, <2>2, <2>3 DEF AccountInv
<1>22. CASE \E p \in Portfolios : Open(p)
  <2>1. PICK p \in Portfolios : Open(p)
    BY <1>22
  <2>2. /\ pc = "down" /\ pc' = "idle" /\ portfolio' = p /\ halt = None
        /\ holds = {} /\ Reserved(holds, reservedCash, reservedQty)
        /\ UNCHANGED <<holds, consumed, reservedCash, reservedQty>>
    BY <1>0, <2>1 DEF Open, AccountInv, Backed, Halts
  <2>3. Bounded(portfolio', holds')
    BY <2>2, NothingReserved
  <2>4. QED BY <1>0, <2>2, <2>3 DEF AccountInv, Backed
<1>23. CASE Close
  BY <1>23, GoneAccount DEF Close
<1>24. CASE Crash
  BY <1>24, GoneAccount DEF Crash
<1>25. CASE \E b \in BOOLEAN : SetKillSwitch(b)
  BY <1>25 DEF SetKillSwitch, AccountInv, Backed
<1>26. CASE ForeignAppend
  BY <1>26 DEF ForeignAppend, AccountInv, Backed
<1>27. CASE RestoreBackup
  BY <1>27 DEF RestoreBackup, AccountInv, Backed
<1>28. QED
  BY <1>1, <1>2, <1>3, <1>4, <1>5, <1>6, <1>7, <1>8, <1>9, <1>10, <1>11,
     <1>12, <1>13, <1>14, <1>15, <1>16, <1>17, <1>18, <1>19, <1>20, <1>21,
     <1>22, <1>23, <1>24, <1>25, <1>26, <1>27
     DEF Next, Submit, Sampling, Environment

-----------------------------------------------------------------------------
(* Theorems                                                                *)

IInv == /\ TypeOK /\ CallInv /\ ControlInv /\ LogInv /\ FateInv /\ RequestInv
        /\ AccountInv

\* The inductive invariant: what each statement of submit may rely on.
THEOREM SubmitInvariant == Spec => []IInv
<1>0. IInv /\ UNCHANGED vars => IInv'
  <2> SUFFICES ASSUME IInv, UNCHANGED vars PROVE IInv'
    OBVIOUS
  <2> USE DEF vars, ledgerVars, pathVars, accountVars, killVars, callVars
  <2>1. TypeOK'
    BY DEF IInv, TypeOK, FileTypes, AccountTypes, MemoryTypes, CallTypes
  <2>2. CallInv'
    BY DEF IInv, CallInv, OpenOrdersReserved
  <2>3. ControlInv'
    BY DEF IInv, ControlInv, FreshDispatch, KillOutrun, Fresh
  <2>4. LogInv'
    BY DEF IInv, LogInv
  <2>5. FateInv'
    BY DEF IInv, FateInv
  <2>6. RequestInv'
    BY DEF IInv, RequestInv, AtMostOnce
  <2>7. AccountInv'
    BY DEF IInv, AccountInv, Backed
  <2>8. QED BY <2>1, <2>2, <2>3, <2>4, <2>5, <2>6, <2>7 DEF IInv
<1>1. IInv /\ Next => IInv'
  BY EnvironmentTypes, SubmitTypes, CallKeeps, ControlKeeps, LogKeeps,
     FatesKeep, RequestsKeep, AccountKeeps DEF IInv, Next
<1>2. IInv /\ [Next]_vars => IInv'
  BY <1>0, <1>1
<1>3. Init => IInv
  <2> SUFFICES ASSUME Init PROVE IInv
    OBVIOUS
  <2>1. CallInv /\ ControlInv
    BY DEF Init, CallInv, ControlInv, OpenOrdersReserved, FreshDispatch,
       KillOutrun, Early, Spent
  <2>2. LogInv /\ FateInv /\ RequestInv
    BY DEF Init, LogInv, FateInv, RequestInv, AtMostOnce
  <2>3. AccountInv
    BY FS_EmptySet, NothingReserved DEF Init, AccountInv, Backed
  <2>4. QED BY <2>1, <2>2, <2>3, InitTypes DEF IInv
<1>4. QED BY <1>2, <1>3, PTL DEF Spec

\* Whatever reached the stub has a durable record and a receipt.
THEOREM WriteAhead == Spec => []DispatchedOnRecord
<1>1. IInv => DispatchedOnRecord
  <2> SUFFICES ASSUME IInv PROVE DispatchedOnRecord
    OBVIOUS
  <2>1. \A r \in acked : r.seq \in 1..Len(log) /\ log[r.seq] = r.intent
    BY DEF IInv, LogInv
  <2>2. \A r \in acked : r.seq <= Len(log)
    BY <2>1
  <2>3. QED BY <2>1, <2>2 DEF IInv, RequestInv, DispatchedOnRecord
<1>2. QED BY <1>1, SubmitInvariant, PTL

\* No id is dispatched twice while its record stays in the ledger.
THEOREM DispatchAtMostOnce == Spec => []AtMostOnce
<1>1. IInv => AtMostOnce
  BY DEF IInv, RequestInv
<1>2. QED BY <1>1, SubmitInvariant, PTL

\* A path that accepts orders knows what became of every recorded one.
THEOREM NoUnknownFate == Spec => []FateKnown
<1>1. IInv => FateKnown
  BY DEF IInv, FateInv, FateKnown, Spent
<1>2. QED BY <1>1, SubmitInvariant, PTL

\* A reservation ends only with a stored proof of no open order.
THEOREM ReservationsStay == Spec => []OpenOrdersReserved
<1>1. IInv => OpenOrdersReserved
  BY DEF IInv, CallInv
<1>2. QED BY <1>1, SubmitInvariant, PTL

\* The accumulators of the portfolio are the sums over the holds.
THEOREM AccountsMatch == Spec => []AccountMatchesHolds
<1>1. IInv => AccountMatchesHolds
  BY DEF IInv, AccountInv, Backed, Reserved, Cash, Sell, AccountMatchesHolds
<1>2. QED BY <1>1, SubmitInvariant, PTL

\* Whatever fills of the orders on hold, cash, inventory and the exposure
\* limits hold, and what is reserved is what the orders on hold need.
THEOREM LimitsHoldInWorstCase == Spec => []WorstCaseWithinLimits
<1>1. IInv => WorstCaseWithinLimits
  <2> SUFFICES ASSUME IInv, pc # "down" PROVE
         /\ AccountMatchesHolds /\ Bounded(portfolio, holds)
    BY DEF WorstCaseWithinLimits, Bounded, Cash, Sell, Buy
  <2>1. AccountMatchesHolds
    BY DEF IInv, AccountInv, Backed, Reserved, Cash, Sell, AccountMatchesHolds
  <2>2. Bounded(portfolio, holds)
    <3>1. CASE pc = "hold"
      <4>1. Bounded(portfolio, holds \cup {cur})
        BY <3>1 DEF IInv, AccountInv
      <4>2. cur \notin holds /\ cur \in Intents
        BY <3>1, NotYetHeld DEF IInv
      <4>3. /\ holds \in SUBSET Intents /\ IsFiniteSet(holds)
            /\ portfolio \in Portfolios
        BY <3>1 DEF IInv, TypeOK, AccountTypes, AccountInv
      <4>4. QED BY <4>1, <4>2, <4>3, BoundedLess
    <3>2. CASE pc # "hold"
      BY <3>2 DEF IInv, AccountInv
    <3>3. QED BY <3>1, <3>2
  <2>3. QED BY <2>1, <2>2
<1>2. QED BY <1>1, SubmitInvariant, PTL

\* The call is made on fresh samples taken after the record was durable.
THEOREM DispatchIsFresh == Spec => []FreshDispatch
<1>1. IInv => FreshDispatch
  BY DEF IInv, ControlInv
<1>2. QED BY <1>1, SubmitInvariant, PTL

\* A kill switch that is on at the call went on after the last sample.
THEOREM KillStopsCall == Spec => []KillOutrun
<1>1. IInv => KillOutrun
  BY DEF IInv, ControlInv
<1>2. QED BY <1>1, SubmitInvariant, PTL

\* Once halted, a path only closes, dies or watches its kill switch.
THEOREM HaltIsLatched == Spec => HaltLatches
<1>1. IInv /\ [Next]_vars =>
        (pc # "down" /\ pc' # "down" /\ halt # None =>
           /\ halt' = halt /\ requests' = requests
           /\ holds' = holds /\ reservedCash' = reservedCash
           /\ reservedQty' = reservedQty)
  <2> SUFFICES ASSUME IInv, [Next]_vars, pc # "down", pc' # "down", halt # None
               PROVE  /\ halt' = halt /\ requests' = requests
                      /\ holds' = holds /\ reservedCash' = reservedCash
                      /\ reservedQty' = reservedQty
    OBVIOUS
  <2>1. pc = "idle"
    BY DEF IInv, CallInv
  <2>2. CASE UNCHANGED vars
    BY <2>2 DEF vars, accountVars
  <2>3. CASE Submit
    BY <2>1, <2>3 DEF Submit, Sampling, Begin, LedgerGone, Gate, Resample,
       FinalSample, Block, Reserve, Hold, Consume, Persist, Acknowledge, Bind,
       AppendFails, Recheck, RecheckFails, Dispatch, Acked, Rejected,
       OutcomeUnknown, Release, Interrupt
  <2>4. CASE Environment
    BY <2>1, <2>4 DEF Environment, Open, Close, Crash, Gone, SetKillSwitch,
       ForeignAppend, RestoreBackup
  <2>5. QED BY <2>2, <2>3, <2>4 DEF Next
<1>2. QED BY <1>1, SubmitInvariant, PTL DEF Spec, HaltLatches

\* The path's steps on its ledger are those of the abstract durable log.
THEOREM PathUsesDurableLog == Spec => RefinesDurableLog
<1>1. Init => LOG!LogInit
  BY DEF Init, LOG!LogInit
<1>2. IInv /\ [Next]_vars => [LOG!LogNext]_LOG!logVars
  <2> SUFFICES ASSUME IInv, [Next]_vars
               PROVE  LOG!LogNext \/ UNCHANGED <<log, acked>>
    BY DEF LOG!logVars
  <2>1. CASE Persist
    <3>1. cur \in LOG!Intents
      BY <2>1 DEF Persist, IInv, TypeOK, CallTypes, Intents, LOG!Intents
    <3>2. LOG!Persist
      BY <2>1, <3>1 DEF Persist, LOG!Persist
    <3>3. QED BY <3>2 DEF LOG!LogNext
  <2>2. CASE Acknowledge
    <3>1. Len(log) \in 1..Len(log) /\ log[Len(log)] = cur
      BY <2>2 DEF Acknowledge, IInv, LogInv, TypeOK, FileTypes
    <3>2. LOG!Acknowledge
      BY <2>2, <3>1 DEF Acknowledge, LOG!Acknowledge
    <3>3. QED BY <3>2 DEF LOG!LogNext
  <2>3. CASE RestoreBackup
    BY <2>3 DEF RestoreBackup, LOG!Rollback, LOG!LogNext
  <2>4. CASE UNCHANGED vars
    BY <2>4 DEF vars, ledgerVars
  <2>5. CASE Submit /\ ~Persist /\ ~Acknowledge
    BY <2>5 DEF Submit, Sampling, Begin, LedgerGone, Gate, Resample,
       FinalSample, Block, Reserve, Hold, Consume, Bind, AppendFails, Recheck,
       RecheckFails, Dispatch, Acked, Rejected, OutcomeUnknown, Release,
       Interrupt, ledgerVars
  <2>6. CASE Environment /\ ~RestoreBackup
    BY <2>6 DEF Environment, Open, Close, Crash, SetKillSwitch, ForeignAppend,
       ledgerVars
  <2>7. QED BY <2>1, <2>2, <2>3, <2>4, <2>5, <2>6 DEF Next
<1>3. QED
  BY <1>1, <1>2, SubmitInvariant, PTL DEF Spec, RefinesDurableLog, LOG!LogSpec
=============================================================================
