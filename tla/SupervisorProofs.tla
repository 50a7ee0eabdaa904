---------------------------- MODULE SupervisorProofs ----------------------------
(* For any number of collectors and supervisors and all settings: a session    *)
(* that was closed left no collector and no raw file of its own behind; a      *)
(* collector that is gone is replaced within the largest backoff and two       *)
(* sleeps; and no pattern of deaths gets more restarts into a storm window     *)
(* than the growing backoffs leave room for.                                   *)
EXTENDS Supervisor, FiniteSetTheorems, WellFoundedInduction, TLAPS

\* What is known of this supervisor's own collectors. Only its child may be
\* alive, and a sweep that came before it was started cannot have sealed its
\* file, so that a sidecar of its own is never stale.
OwnTypes ==
    /\ coll \in [Collectors -> {"running", "stopping", "over"}]
    /\ quiet \in [Collectors -> Nat]
    /\ sidecar \in [Collectors -> {"none", "true", "stale"}]
    /\ own \subseteq Collectors
    /\ child \in Collectors \cup {None}
OwnFiles ==
    \A c \in own : /\ sidecar[c] # "stale"
                   /\ Alive(c) => c = child /\ sidecar[c] = "none"
OwnOver == \A c \in own : ~Alive(c)
OwnSealed == \A c \in own : sidecar[c] = "true"
OwnInv ==
    /\ OwnTypes /\ OwnFiles
    /\ pc \in {"waiting", "interrupted", "terminated"} => child # None
    /\ pc \in {"sweep", "close"} => OwnOver
    /\ pc = "close" => OwnSealed
    /\ outcome = "closed" => pc = "off" /\ OwnOver /\ OwnSealed

LEMMA OwnInvStarts == Init => OwnInv
  BY DEF Init, OwnInv, OwnTypes, OwnFiles, OwnOver, OwnSealed, Alive

\* The loop starts a collector only when it has none.
LEMMA LoopKeepsOwn ==
  ASSUME OwnInv, StartUp \/ Notice \/ Watch \/ Serve \/ Wake \/ Leave
  PROVE  OwnInv'
<1>1. CASE StartUp
  <2>1. OwnTypes'
    BY <1>1 DEF StartUp, Sweep, Go, watch, OwnInv, OwnTypes
  <2> QED BY <1>1, <2>1 DEF StartUp, Go, OwnInv, OwnFiles, OwnOver, OwnSealed
<1>2. CASE Watch /\ own' # own
  <2>1. PICK c \in Free :
          /\ child = None /\ child' = c
          /\ coll' = [coll EXCEPT ![c] = "running"] /\ own' = own \cup {c}
          /\ quiet' = [quiet EXCEPT ![c] = 0] /\ sidecar' = [sidecar EXCEPT ![c] = "none"]
    BY <1>2 DEF Watch
  <2>2. pc' = "serve" /\ outcome' = outcome /\ outcome # "closed"
    BY <1>2 DEF Watch, Go, OwnInv
  <2>3. OwnTypes'
    BY <2>1 DEF OwnInv, OwnTypes, Free
  <2>4. OwnFiles'
    BY <2>1, <2>3, SupervisorAssumption DEF OwnInv, OwnTypes, OwnFiles, Alive, Free
  <2> QED BY <2>2, <2>3, <2>4 DEF OwnInv
<1>3. CASE Watch /\ own' = own
  <2>1. CASE UNCHANGED <<child, coll, quiet, sidecar>>
    BY <1>3, <2>1 DEF Watch, Go, OwnInv, OwnTypes, OwnFiles, OwnOver, OwnSealed, Alive
  <2>2. CASE ~UNCHANGED <<child, coll, quiet, sidecar>>
    <3>1. PICK c \in Free :
            /\ child = None /\ child' = c /\ c \in own
            /\ coll' = [coll EXCEPT ![c] = "running"]
            /\ quiet' = [quiet EXCEPT ![c] = 0] /\ sidecar' = [sidecar EXCEPT ![c] = "none"]
      BY <1>3, <2>2 DEF Watch, files
    <3>2. pc' = "serve" /\ outcome' = outcome /\ outcome # "closed"
      BY <1>3 DEF Watch, Go, OwnInv
    <3>3. OwnTypes'
      BY <1>3, <3>1 DEF OwnInv, OwnTypes, Free
    <3>4. OwnFiles'
      BY <1>3, <3>1, <3>3, SupervisorAssumption DEF OwnInv, OwnTypes, OwnFiles, Alive, Free
    <3> QED BY <3>2, <3>3, <3>4 DEF OwnInv
  <2> QED BY <2>1, <2>2
<1>4. CASE Notice
  <2>1. OwnOver
    BY <1>4 DEF Notice, ChildDead, OwnInv, OwnFiles, OwnOver
  <2> QED BY <1>4, <2>1 DEF Notice, Go, files, OwnInv, OwnTypes, OwnFiles, OwnOver, OwnSealed, Alive
<1>5. CASE Serve \/ Wake \/ Leave
  BY <1>5 DEF Serve, Wake, Leave, Go, watch, files, OwnInv, OwnTypes, OwnFiles, OwnOver, OwnSealed, Alive
<1> QED BY <1>1, <1>2, <1>3, <1>4, <1>5

\* The finally block comes to its sweep only when the child is over.
LEMMA FinallyKeepsOwn ==
  ASSUME OwnInv, Ending \/ ChildEnded \/ WaitedLong \/ Terminate \/ GiveUp \/ FinalSweep \/ Close
  PROVE  OwnInv'
<1>1. CASE Ending
  <2>1. CASE ~ChildAlive
    <3>1. OwnOver
      BY <2>1, SupervisorAssumption DEF ChildAlive, OwnInv, OwnTypes, OwnFiles, OwnOver
    <3> QED BY <1>1, <2>1, <3>1 DEF Ending, Go, watch, files, OwnInv, OwnTypes, OwnFiles, OwnOver, OwnSealed, Alive
  <2>2. CASE ChildAlive
    BY <1>1, <2>2 DEF Ending, Interrupt, Go, watch, files, ChildAlive, OwnInv, OwnTypes, OwnFiles, OwnOver, OwnSealed, Alive
  <2> QED BY <2>1, <2>2
<1>2. CASE ChildEnded
  <2>1. OwnOver
    BY <1>2 DEF ChildEnded, OwnInv, OwnFiles, OwnOver
  <2> QED BY <1>2, <2>1 DEF ChildEnded, Go, watch, files, OwnInv, OwnTypes, OwnFiles, OwnOver, OwnSealed, Alive
<1>3. CASE WaitedLong \/ Terminate
  BY <1>3 DEF WaitedLong, Terminate, Interrupt, Go, watch, files, OwnInv, OwnTypes, OwnFiles, OwnOver, OwnSealed, Alive
<1>4. CASE GiveUp
  BY <1>4 DEF GiveUp, Gone, Go, files, OwnInv, OwnTypes, OwnFiles, OwnOver, OwnSealed
<1>5. CASE FinalSweep
  <2>1. OwnTypes' /\ OwnOver' /\ OwnSealed'
    BY <1>5 DEF FinalSweep, Sweep, Go, watch, OwnInv, OwnTypes, OwnFiles, OwnOver, OwnSealed, Alive
  <2>2. OwnFiles'
    BY <2>1 DEF OwnFiles, OwnOver, OwnSealed
  <2> QED BY <1>5, <2>1, <2>2 DEF FinalSweep, Go, OwnInv
<1>6. CASE Close
  BY <1>6 DEF Close, Gone, Go, files, OwnInv, OwnTypes, OwnFiles, OwnOver, OwnSealed, Alive
<1> QED BY <1>1, <1>2, <1>3, <1>4, <1>5, <1>6

\* Signals, kills and the collectors themselves.
LEMMA OthersKeepOwn ==
  ASSUME OwnInv, \/ RequestStop \/ Kill \/ MachineStops \/ Tick
                 \/ \E c \in Collectors : Write(c) \/ CollectorEnds(c) \/ CollectorDies(c)
  PROVE  OwnInv'
<1>1. CASE RequestStop
  BY <1>1 DEF RequestStop, watch, files, ChildAlive, OwnInv, OwnTypes, OwnFiles, OwnOver, OwnSealed, Alive
<1>2. CASE Kill \/ MachineStops
  BY <1>2 DEF Kill, MachineStops, Gone, Go, files, OwnInv, OwnTypes, OwnFiles, OwnOver, OwnSealed
<1>3. CASE Tick
  <2>1. quiet' \in [Collectors -> Nat]
    BY <1>3, SupervisorAssumption DEF Tick, Least, OwnInv, OwnTypes
  <2>2. UNCHANGED <<pc, child, own, sidecar, outcome>>
    BY <1>3 DEF Tick
  <2>3. coll' = coll \/ (ChildAlive /\ coll' = [coll EXCEPT ![child] = "stopping"])
    BY <1>3 DEF Tick
  <2> QED BY <2>1, <2>2, <2>3 DEF ChildAlive, OwnInv, OwnTypes, OwnFiles, OwnOver, OwnSealed, Alive
<1>4. ASSUME NEW c \in Collectors, Write(c) \/ CollectorEnds(c) \/ CollectorDies(c)
      PROVE  OwnInv'
  <2>1. UNCHANGED <<pc, child, own, outcome>>
    BY <1>4 DEF Write, CollectorEnds, CollectorDies, watch
  <2>2. CASE Write(c)
    BY <2>1, <2>2 DEF Write, OwnInv, OwnTypes, OwnFiles, OwnOver, OwnSealed, Alive
  <2>3. CASE CollectorEnds(c)
    BY <2>1, <2>3 DEF CollectorEnds, OwnInv, OwnTypes, OwnFiles, OwnOver, OwnSealed, Alive
  <2>4. CASE CollectorDies(c)
    BY <2>1, <2>4 DEF CollectorDies, files, OwnInv, OwnTypes, OwnFiles, OwnOver, OwnSealed, Alive
  <2> QED BY <1>4, <2>2, <2>3, <2>4
<1> QED BY <1>1, <1>2, <1>3, <1>4

LEMMA OwnInvInductive == OwnInv /\ [Next]_vars => OwnInv'
<1> SUFFICES ASSUME OwnInv, [Next]_vars PROVE OwnInv'
  OBVIOUS
<1>1. CASE UNCHANGED vars
  BY <1>1 DEF vars, watch, files, OwnInv, OwnTypes, OwnFiles, OwnOver, OwnSealed, Alive
<1>2. QED BY <1>1, LoopKeepsOwn, FinallyKeepsOwn, OthersKeepOwn DEF Next

\* A session that wrote its manifest left no collector of its own running and no
\* raw file of its own without a true sidecar (the finally block), whatever
\* died, was killed, or had to be interrupted before.
THEOREM ManifestIsLast == Spec => []ManifestMeansDone
<1>1. OwnInv => ManifestMeansDone
  BY DEF OwnInv, OwnOver, OwnSealed, ManifestMeansDone
<1>2. QED BY <1>1, OwnInvStarts, OwnInvInductive, PTL DEF Spec

(***************************************************************************)
(* Recursive functions over the numbers, by a smallest counterexample      *)
(***************************************************************************)

\* Among some subsets of a finite set one has no other below it.
LEMMA SmallestSubset ==
  ASSUME NEW S, IsFiniteSet(S), NEW B \in SUBSET SUBSET S, B # {}
  PROVE  \E m \in B : \A t \in B : t \subseteq m => t = m
<1>1. IsWellFoundedOn(StrictSubsetOrdering(S), FiniteSubsetsOf(S))
  BY FS_StrictSubsetOrderingWellFounded
<1>2. B \subseteq FiniteSubsetsOf(S)
  BY FS_Subset DEF FiniteSubsetsOf
<1>3. \E m \in B : \A t \in B : ~ (<<t, m>> \in StrictSubsetOrdering(S))
  BY <1>1, <1>2, WFMin
<1>4. QED BY <1>3 DEF StrictSubsetOrdering

\* Among some numbers one is the least: what the inductions rest on.
LEMMA LeastNumber ==
  ASSUME NEW T \in SUBSET Nat, NEW n \in T
  PROVE  \E m \in T : \A k \in T : m <= k
<1> DEFINE S == 1..n
           B == {t \in SUBSET S : \E i \in T : t = 1..i}
<1>1. IsFiniteSet(S) /\ B \in SUBSET SUBSET S /\ S \in B
  BY FS_Interval
<1>2. PICK m \in B : \A t \in B : t \subseteq m => t = m
  <2> HIDE DEF B, S
  <2>1. QED BY <1>1, SmallestSubset
<1>3. PICK i \in T : m = 1..i
  BY <1>2
<1>4. i <= n
  <2>1. m \subseteq 1..n
    BY <1>2
  <2>2. i \in Nat /\ n \in Nat
    OBVIOUS
  <2>3. i \in 1..i \/ i = 0
    BY <2>2
  <2>4. QED BY <1>3, <2>1, <2>2, <2>3
<1>5. ASSUME NEW k \in T PROVE i <= k
  <2>1. i \in Nat /\ k \in Nat /\ n \in Nat
    OBVIOUS
  <2>2. SUFFICES ASSUME k < i PROVE FALSE
    BY <2>1
  <2>3. 1..k \subseteq 1..i /\ 1..k \subseteq S /\ i \in 1..i /\ i \notin 1..k
    BY <1>4, <2>1, <2>2
  <2>4. 1..k \in B
    BY <2>3
  <2>5. 1..k = m
    <3> HIDE DEF B
    <3>1. QED BY <1>2, <1>3, <2>3, <2>4
  <2>6. QED BY <1>3, <2>3, <2>5
<1>6. QED BY <1>5

\* h follows the recursion F up to m.
Follows(h, m, F) ==
    /\ h \in [Nat -> Nat] /\ h[0] = F[<<0, 0>>]
    /\ \A n \in Nat : n # 0 /\ n <= m => h[n] = F[<<n, h[n - 1]>>]

\* Two of them are the same up to there.
LEMMA FollowersAgree ==
  ASSUME NEW F, NEW m \in Nat, NEW h, NEW k, Follows(h, m, F), Follows(k, m, F)
  PROVE  h[m] = k[m]
<1> DEFINE T == {n \in Nat : n <= m /\ h[n] # k[n]}
<1> SUFFICES ASSUME h[m] # k[m] PROVE FALSE
  OBVIOUS
<1>1. m \in T /\ T \in SUBSET Nat
  OBVIOUS
<1>2. PICK n \in T : \A i \in T : n <= i
  <2> HIDE DEF T
  <2>1. QED BY <1>1, LeastNumber
<1>3. n \in Nat /\ n <= m /\ h[n] # k[n]
  BY <1>2
<1>4. n # 0
  BY <1>3 DEF Follows
<1>5. n - 1 \in Nat /\ n - 1 <= m /\ ~ (n <= n - 1)
  BY <1>3, <1>4
<1>6. h[n - 1] = k[n - 1]
  <2>1. n - 1 \notin T
    BY <1>2, <1>5
  <2>2. QED BY <1>5, <2>1
<1>7. QED BY <1>3, <1>4, <1>6 DEF Follows

\* One more step can always be taken.
LEMMA FollowerIsThere ==
  ASSUME NEW F \in [Nat \X Nat -> Nat], NEW m \in Nat
  PROVE  \E h : Follows(h, m, F)
<1> DEFINE T == {n \in Nat : ~ \E h : Follows(h, n, F)}
<1> SUFFICES ASSUME ~ \E h : Follows(h, m, F) PROVE FALSE
  OBVIOUS
<1>1. m \in T /\ T \in SUBSET Nat
  OBVIOUS
<1>2. PICK n \in T : \A i \in T : n <= i
  <2> HIDE DEF T
  <2>1. QED BY <1>1, LeastNumber
<1>3. n \in Nat /\ ~ \E h : Follows(h, n, F)
  BY <1>2
<1>4. CASE n = 0
  <2> DEFINE h == [i \in Nat |-> F[<<0, 0>>]]
  <2>1. h \in [Nat -> Nat] /\ h[0] = F[<<0, 0>>]
    OBVIOUS
  <2>2. Follows(h, 0, F)
    <3> HIDE DEF h
    <3>1. QED BY <2>1 DEF Follows
  <2>3. QED BY <1>3, <1>4, <2>2
<1>5. CASE n # 0
  <2>1. n - 1 \in Nat /\ ~ (n <= n - 1)
    BY <1>3, <1>5
  <2>2. n - 1 \notin T
    BY <1>2, <2>1
  <2>3. PICK g : Follows(g, n - 1, F)
    BY <2>1, <2>2
  <2> DEFINE h == [i \in Nat |-> IF i = n THEN F[<<n, g[n - 1]>>] ELSE g[i]]
  <2>4. g \in [Nat -> Nat] /\ g[n - 1] \in Nat
    BY <2>1, <2>3 DEF Follows
  <2>5. <<n, g[n - 1]>> \in Nat \X Nat
    BY <1>3, <2>4
  <2>6. F[<<n, g[n - 1]>>] \in Nat
    BY <2>5
  <2>7. h \in [Nat -> Nat]
    BY <2>4, <2>6
  <2>8. \A i \in Nat : i # n => h[i] = g[i]
    OBVIOUS
  <2>9. h[n] = F[<<n, g[n - 1]>>]
    BY <1>3
  <2> HIDE DEF h
  <2>10. h[n - 1] = g[n - 1]
    BY <1>3, <2>1, <2>8
  <2>11. h[0] = F[<<0, 0>>]
    BY <1>5, <2>3, <2>8 DEF Follows
  <2>12. ASSUME NEW i \in Nat, i # 0, i <= n PROVE h[i] = F[<<i, h[i - 1]>>]
    <3>1. CASE i = n
      BY <2>9, <2>10, <3>1
    <3>2. CASE i # n
      <4>1. i <= n - 1 /\ i - 1 \in Nat /\ i - 1 # n
        BY <1>3, <2>12, <3>2
      <4>2. h[i - 1] = g[i - 1] /\ h[i] = g[i]
        BY <2>8, <3>2, <4>1
      <4>3. g[i] = F[<<i, g[i - 1]>>]
        BY <2>3, <2>12, <4>1 DEF Follows
      <4>4. QED BY <4>2, <4>3
    <3>3. QED BY <3>1, <3>2
  <2>13. Follows(h, n, F)
    BY <2>7, <2>11, <2>12 DEF Follows
  <2>14. QED BY <1>3, <2>13
<1>6. QED BY <1>4, <1>5

\* A recursion over the numbers has a solution.
LEMMA RecursionIsSolved ==
  ASSUME NEW F \in [Nat \X Nat -> Nat]
  PROVE  \E f \in [Nat -> Nat] :
            f[0] = F[<<0, 0>>] /\ \A n \in Nat : n # 0 => f[n] = F[<<n, f[n - 1]>>]
<1> DEFINE H(n) == CHOOSE h : Follows(h, n, F)
           f == [n \in Nat |-> H(n)[n]]
<1>1. ASSUME NEW n \in Nat PROVE Follows(H(n), n, F)
  BY FollowerIsThere
<1> HIDE DEF H
<1>2. ASSUME NEW n \in Nat PROVE H(n)[n] \in Nat
  BY <1>1 DEF Follows
<1>3. f \in [Nat -> Nat]
  BY <1>2
<1>4. \A n \in Nat : f[n] = H(n)[n]
  OBVIOUS
<1> HIDE DEF f
<1>5. f[0] = F[<<0, 0>>]
  BY <1>1, <1>4 DEF Follows
<1>6. ASSUME NEW n \in Nat, n # 0 PROVE f[n] = F[<<n, f[n - 1]>>]
  <2>1. n - 1 \in Nat
    BY <1>6
  <2>2. Follows(H(n), n, F) /\ Follows(H(n - 1), n - 1, F)
    BY <1>1, <2>1
  <2>3. Follows(H(n), n - 1, F)
    BY <2>1, <2>2 DEF Follows
  <2>4. H(n)[n - 1] = H(n - 1)[n - 1]
    BY <2>1, <2>2, <2>3, FollowersAgree
  <2>5. H(n)[n] = F[<<n, H(n)[n - 1]>>]
    BY <1>6, <2>2 DEF Follows
  <2>6. QED BY <1>4, <2>1, <2>4, <2>5
<1>7. QED BY <1>3, <1>5, <1>6

\* The doublings are what their definition says.
LEMMA DoubledIs == Doubled = [n \in Nat |-> IF n < 2 THEN 1 ELSE 2 * Doubled[n - 1]]
<1> DEFINE F == [p \in Nat \X Nat |-> IF p[1] < 2 THEN 1 ELSE 2 * p[2]]
<1>1. F \in [Nat \X Nat -> Nat]
  OBVIOUS
<1>2. \A n \in Nat, x \in Nat : F[<<n, x>>] = IF n < 2 THEN 1 ELSE 2 * x
  OBVIOUS
<1> HIDE DEF F
<1>3. PICK f \in [Nat -> Nat] : f[0] = F[<<0, 0>>] /\ \A n \in Nat : n # 0 => f[n] = F[<<n, f[n - 1]>>]
  BY <1>1, RecursionIsSolved
<1>4. ASSUME NEW n \in Nat PROVE f[n] = IF n < 2 THEN 1 ELSE 2 * f[n - 1]
  <2>1. CASE n = 0
    BY <1>2, <1>3, <2>1
  <2>2. CASE n # 0
    <3>1. n - 1 \in Nat
      BY <2>2
    <3>2. f[n - 1] \in Nat
      BY <3>1
    <3>3. f[n] = F[<<n, f[n - 1]>>]
      BY <1>3, <2>2
    <3>4. F[<<n, f[n - 1]>>] = IF n < 2 THEN 1 ELSE 2 * f[n - 1]
      BY <1>2, <3>2
    <3>5. QED BY <3>3, <3>4
  <2>3. QED BY <2>1, <2>2
<1>5. f = [n \in Nat |-> IF n < 2 THEN 1 ELSE 2 * f[n - 1]]
  BY <1>4
<1>6. QED BY <1>5 DEF Doubled

\* The same at one place.
LEMMA DoubledAt ==
  ASSUME NEW n \in Nat
  PROVE  Doubled[n] = IF n < 2 THEN 1 ELSE 2 * Doubled[n - 1]
<1> DEFINE h == [i \in Nat |-> IF i < 2 THEN 1 ELSE 2 * Doubled[i - 1]]
<1>1. Doubled = h
  BY DoubledIs
<1>2. h[n] = IF n < 2 THEN 1 ELSE 2 * Doubled[n - 1]
  OBVIOUS
<1> HIDE DEF h
<1>3. QED BY <1>1, <1>2

\* Each doubling is a number, at least 1 and at least its place.
LEMMA DoubledGrows ==
  ASSUME NEW n \in Nat
  PROVE  Doubled[n] \in Nat /\ Doubled[n] >= 1 /\ Doubled[n] >= n
<1> DEFINE Good(i) == Doubled[i] \in Nat /\ Doubled[i] >= 1 /\ Doubled[i] >= i
           T == {i \in Nat : ~ Good(i)}
<1> SUFFICES ASSUME ~ Good(n) PROVE FALSE
  OBVIOUS
<1>1. n \in T /\ T \in SUBSET Nat
  OBVIOUS
<1>2. PICK i \in T : \A k \in T : i <= k
  <2> HIDE DEF T
  <2>1. QED BY <1>1, LeastNumber
<1>3. i \in Nat /\ ~ Good(i)
  BY <1>2
<1>4. CASE i < 2
  <2>1. Doubled[i] = 1
    BY <1>3, <1>4, DoubledAt
  <2>2. QED BY <1>3, <1>4, <2>1
<1>5. CASE i >= 2
  <2>1. i - 1 \in Nat /\ ~ (i <= i - 1)
    BY <1>3, <1>5
  <2>2. Good(i - 1)
    <3>1. i - 1 \notin T
      BY <1>2, <2>1
    <3>2. QED BY <2>1, <3>1
  <2>3. Doubled[i] = 2 * Doubled[i - 1]
    BY <1>3, <1>5, DoubledAt
  <2> DEFINE x == Doubled[i - 1]
  <2>4. x \in Nat /\ x >= 1 /\ x >= i - 1 /\ Doubled[i] = 2 * x
    BY <2>2, <2>3
  <2> HIDE DEF x
  <2>5. Good(i)
    BY <1>3, <1>5, <2>4
  <2>6. QED BY <1>3, <2>5
<1>6. QED BY <1>3, <1>4, <1>5

\* A backoff is at least 1, at most the maximum, and does not shrink.
LEMMA BackoffIs ==
  ASSUME NEW n \in Nat
  PROVE  Backoff(n) \in Nat /\ Backoff(n) >= 1 /\ Backoff(n) <= MaxBackoff
<1>1. MaxBackoff \in Nat /\ MaxBackoff >= 1
  BY SupervisorAssumption
<1>2. Doubled[n] \in Nat /\ Doubled[n] >= 1
  BY DoubledGrows
<1>3. QED BY <1>1, <1>2 DEF Backoff, Least

\* One more failure.
LEMMA BackoffSteps ==
  ASSUME NEW n \in Nat
  PROVE  Backoff(n) <= Backoff(n + 1)
<1>1. MaxBackoff \in Nat /\ MaxBackoff >= 1
  BY SupervisorAssumption
<1> DEFINE x == Doubled[n]
           y == Doubled[n + 1]
<1>2. x \in Nat /\ x >= 1
  BY DoubledGrows
<1>3. \/ y = 1 /\ x = 1
      \/ y = 2 * x
  <2>1. n + 1 \in Nat /\ (n + 1) - 1 = n
    OBVIOUS
  <2>2. Doubled[n + 1] = IF n + 1 < 2 THEN 1 ELSE 2 * Doubled[n]
    BY <2>1, DoubledAt
  <2>3. CASE n = 0
    BY <2>2, <2>3, DoubledAt
  <2>4. CASE n # 0
    <3>1. ~ (n + 1 < 2)
      BY <2>4
    <3>2. QED BY <2>2, <3>1
  <2>5. QED BY <2>3, <2>4
<1>4. Backoff(n) = Least(x, MaxBackoff) /\ Backoff(n + 1) = Least(y, MaxBackoff)
  BY DEF Backoff
<1> HIDE DEF x, y
<1>5. QED BY <1>1, <1>2, <1>3, <1>4 DEF Least

\* Any number more.
LEMMA BackoffGrows ==
  ASSUME NEW m \in Nat, NEW n \in Nat, m <= n
  PROVE  Backoff(m) <= Backoff(n)
<1> DEFINE T == {i \in Nat : m <= i /\ ~ (Backoff(m) <= Backoff(i))}
<1> SUFFICES ASSUME ~ (Backoff(m) <= Backoff(n)) PROVE FALSE
  OBVIOUS
<1>1. n \in T /\ T \in SUBSET Nat
  OBVIOUS
<1>2. PICK i \in T : \A k \in T : i <= k
  <2> HIDE DEF T
  <2>1. QED BY <1>1, LeastNumber
<1>3. i \in Nat /\ m <= i /\ ~ (Backoff(m) <= Backoff(i))
  BY <1>2
<1>4. i # m
  <2>1. Backoff(m) \in Nat
    BY BackoffIs
  <2>2. QED BY <1>3, <2>1
<1>5. i - 1 \in Nat /\ m <= i - 1 /\ ~ (i <= i - 1) /\ (i - 1) + 1 = i
  BY <1>3, <1>4
<1>6. Backoff(m) <= Backoff(i - 1)
  <2>1. i - 1 \notin T
    BY <1>2, <1>5
  <2>2. QED BY <1>5, <2>1
<1>7. Backoff(i - 1) <= Backoff(i)
  <2> DEFINE j == i - 1
  <2>1. j \in Nat /\ j + 1 = i
    BY <1>5
  <2> HIDE DEF j
  <2>2. Backoff(j) <= Backoff(j + 1)
    BY <2>1, BackoffSteps
  <2>3. Backoff(j) <= Backoff(i)
    BY <2>1, <2>2
  <2>4. QED BY <2>3 DEF j
<1>8. Backoff(m) \in Nat /\ Backoff(i - 1) \in Nat /\ Backoff(i) \in Nat
  BY <1>3, <1>5, BackoffIs
<1>9. QED BY <1>3, <1>6, <1>7, <1>8

\* The largest count is one at which the backoff has reached its maximum.
LEMMA CountsSuffice == Max(Shorts) \in Nat /\ Backoff(Max(Shorts)) = MaxBackoff
<1>1. MaxBackoff \in Nat /\ MaxBackoff >= 1
  BY SupervisorAssumption
<1> DEFINE T == {MaxBackoff + 1 - n : n \in Shorts}
<1>2. T \in SUBSET Nat /\ MaxBackoff + 1 \in T
  <2>1. \A n \in Shorts : n \in Nat /\ n <= MaxBackoff + 1 /\ MaxBackoff + 1 - n \in Nat
    BY <1>1 DEF Shorts
  <2>2. 0 \in Shorts
    BY <1>1 DEF Shorts
  <2>3. MaxBackoff + 1 - 0 = MaxBackoff + 1
    BY <1>1
  <2>4. QED BY <2>1, <2>2, <2>3
<1>3. PICK d \in T : \A k \in T : d <= k
  <2> HIDE DEF T
  <2>1. QED BY <1>2, LeastNumber
<1>4. PICK z \in Shorts : d = MaxBackoff + 1 - z
  BY <1>3
<1>5. \A n \in Shorts : n \in Nat /\ n <= MaxBackoff + 1
  BY <1>1 DEF Shorts
<1>6. \A n \in Shorts : z >= n
  <2>1. TAKE n \in Shorts
  <2>2. n \in Int /\ z \in Int
    BY <1>5
  <2>3. MaxBackoff + 1 - n \in T
    OBVIOUS
  <2>4. d <= MaxBackoff + 1 - n
    BY <1>3, <2>3
  <2>5. QED BY <1>1, <1>4, <2>2, <2>4
<1>7. Max(Shorts) \in Shorts /\ \A n \in Shorts : Max(Shorts) >= n
  BY <1>6 DEF Max
<1> DEFINE x == Max(Shorts)
<1>8. x \in Shorts /\ \A n \in Shorts : x >= n
  BY <1>7
<1> HIDE DEF x
<1>9. x \in Nat /\ x <= MaxBackoff + 1
  BY <1>5, <1>8
<1>10. Backoff(x) = MaxBackoff
  <2>1. CASE x = MaxBackoff + 1
    <3>1. Doubled[x] \in Nat /\ Doubled[x] >= x
      BY <1>9, DoubledGrows
    <3>2. QED BY <1>1, <1>9, <2>1, <3>1 DEF Backoff, Least
  <2>2. CASE x # MaxBackoff + 1
    <3>1. x + 1 \in 0..MaxBackoff + 1 /\ (x + 1) - 1 = x /\ ~ (x >= x + 1)
      BY <1>1, <1>9, <2>2
    <3>2. x + 1 \notin Shorts
      BY <1>8, <3>1
    <3>3. ~ (Backoff((x + 1) - 1) < MaxBackoff)
      BY <3>1, <3>2 DEF Shorts
    <3>4. ~ (Backoff(x) < MaxBackoff)
      BY <3>1, <3>3
    <3>5. Backoff(x) \in Nat /\ Backoff(x) <= MaxBackoff
      BY <1>9, BackoffIs
    <3>6. QED BY <1>1, <3>4, <3>5
  <2>3. QED BY <2>1, <2>2
<1>11. QED BY <1>9, <1>10 DEF x

\* The room that restarts take is what its definition says.
LEMMA SpacingIs == Spacing = [n \in Nat |-> IF n = 0 THEN 0 ELSE Spacing[n - 1] + Backoff(n - 1) + 1]
<1> DEFINE G(n, x) == IF n = 0 THEN 0 ELSE x + Backoff(n - 1) + 1
           F == [p \in Nat \X Nat |-> G(p[1], p[2])]
<1>1. ASSUME NEW n \in Nat, NEW x \in Nat PROVE G(n, x) \in Nat
  <2>1. CASE n = 0
    BY <2>1
  <2>2. CASE n # 0
    <3>1. n - 1 \in Nat
      BY <2>2
    <3>2. Backoff(n - 1) \in Nat
      BY <3>1, BackoffIs
    <3>3. QED BY <2>2, <3>2
  <2>3. QED BY <2>1, <2>2
<1> HIDE DEF G
<1>2. F \in [Nat \X Nat -> Nat]
  BY <1>1
<1>3. \A n \in Nat, x \in Nat : F[<<n, x>>] = G(n, x)
  OBVIOUS
<1> HIDE DEF F
<1>4. PICK f \in [Nat -> Nat] : f[0] = F[<<0, 0>>] /\ \A n \in Nat : n # 0 => f[n] = F[<<n, f[n - 1]>>]
  BY <1>2, RecursionIsSolved
<1>5. ASSUME NEW n \in Nat PROVE f[n] = IF n = 0 THEN 0 ELSE f[n - 1] + Backoff(n - 1) + 1
  <2>1. CASE n = 0
    <3>1. f[0] = G(0, 0)
      BY <1>3, <1>4
    <3>2. QED BY <2>1, <3>1 DEF G
  <2>2. CASE n # 0
    <3>1. n - 1 \in Nat
      BY <2>2
    <3>2. f[n - 1] \in Nat
      BY <3>1
    <3>3. f[n] = F[<<n, f[n - 1]>>]
      BY <1>4, <2>2
    <3>4. F[<<n, f[n - 1]>>] = G(n, f[n - 1])
      BY <1>3, <3>2
    <3>5. QED BY <2>2, <3>3, <3>4 DEF G
  <2>3. QED BY <2>1, <2>2
<1>6. f = [n \in Nat |-> IF n = 0 THEN 0 ELSE f[n - 1] + Backoff(n - 1) + 1]
  BY <1>5
<1>7. QED BY <1>6 DEF Spacing

\* One restart more.
LEMMA SpacingAt ==
  ASSUME NEW n \in Nat
  PROVE  /\ Spacing[0] = 0
         /\ Spacing[n + 1] = Spacing[n] + Backoff(n) + 1
<1> DEFINE h == [i \in Nat |-> IF i = 0 THEN 0 ELSE Spacing[i - 1] + Backoff(i - 1) + 1]
<1>1. Spacing = h
  BY SpacingIs
<1>2. h[0] = 0
  OBVIOUS
<1>3. n + 1 \in Nat /\ n + 1 # 0 /\ (n + 1) - 1 = n
  OBVIOUS
<1>4. h[n + 1] = Spacing[(n + 1) - 1] + Backoff((n + 1) - 1) + 1
  BY <1>3
<1>5. h[n + 1] = Spacing[n] + Backoff(n) + 1
  BY <1>3, <1>4
<1> HIDE DEF h
<1>6. QED BY <1>1, <1>2, <1>5

LEMMA SpacingIsNat ==
  ASSUME NEW n \in Nat
  PROVE  Spacing[n] \in Nat
<1> DEFINE T == {i \in Nat : Spacing[i] \notin Nat}
<1> SUFFICES ASSUME Spacing[n] \notin Nat PROVE FALSE
  OBVIOUS
<1>1. n \in T /\ T \in SUBSET Nat
  OBVIOUS
<1>2. PICK i \in T : \A k \in T : i <= k
  <2> HIDE DEF T
  <2>1. QED BY <1>1, LeastNumber
<1>3. i \in Nat /\ Spacing[i] \notin Nat
  BY <1>2
<1>4. i # 0
  BY <1>3, SpacingAt
<1> DEFINE j == i - 1
<1>5. j \in Nat /\ ~ (i <= j) /\ i = j + 1
  BY <1>3, <1>4
<1> HIDE DEF j
<1>6. Spacing[j] \in Nat
  <2>1. j \notin T
    BY <1>2, <1>5
  <2>2. QED BY <1>5, <2>1
<1>7. Spacing[j + 1] = Spacing[j] + Backoff(j) + 1 /\ Backoff(j) \in Nat
  BY <1>5, SpacingAt, BackoffIs
<1>8. QED BY <1>3, <1>5, <1>6, <1>7

(***************************************************************************)
(* How long the loop has been without a collector                          *)
(***************************************************************************)

\* While there is no child, what is left of the backoff and the time already
\* spent never exceed a backoff and one sleep, or the next round starts one;
\* a child that died is noticed after one sleep.
Times ==
    /\ delay \in 0..MaxBackoff /\ down \in 0..MostDown + 1 /\ timer \in Nat
    /\ ran \in Nat /\ short \in Nat /\ storm \subseteq 0..StormWindow
Waits ==
    /\ pc = "loop" => down <= MostDown /\ (delay > 0 => down + delay <= MaxBackoff + Interval)
    /\ pc = "serve" => down + delay <= MaxBackoff + Interval
    /\ pc = "asleep" =>
          /\ timer <= Interval
          /\ down + delay <= MaxBackoff + Interval \/ (delay = 0 /\ down + timer <= MostDown)
Watches ==
    /\ pc = "loop" => down <= Interval
    /\ pc = "serve" => down = 0
    /\ pc = "asleep" => down + timer <= Interval
TimeInv ==
    /\ OwnTypes /\ Times
    /\ ChildAlive => down = 0
    /\ pc = "off" => child = None /\ delay = 0 /\ down = 0 /\ storm = {}
    /\ child = None => Waits
    /\ child # None => Watches

(* How long ago the last restarts were: at least the backoff that followed    *)
(* the last of them, and before the child that runs now was started.          *)
Rested ==
    \A a \in storm :
        /\ child = None /\ pc \in Looping => delay + a >= Backoff(short)
        /\ child # None /\ pc \in Looping =>
              /\ a > ran
              /\ pc = "loop" => a > Backoff(short)
              /\ pc = "serve" => a >= Backoff(short)
              /\ pc = "asleep" => a + timer > Backoff(short)
LEMMA SettingsAre ==
  /\ Interval \in Nat /\ Interval >= 1 /\ MaxBackoff \in Nat /\ MaxBackoff >= 1
  /\ StormWindow \in Nat /\ StormWindow >= 1 /\ None \notin Collectors
  /\ MostDown \in Nat /\ MostDown = MaxBackoff + 2 * Interval
  /\ DurationWait \in Nat /\ StopWait \in Nat /\ TermWait \in Nat
BY SupervisorAssumption DEF MostDown

\* The count grows with every failure up to where the backoff is at its
\* maximum, except after a run as long as the storm window.
LEMMA ShortIs ==
  ASSUME short \in Nat
  PROVE  /\ ShortAfter \in Nat
         /\ ran >= StormWindow \/ ShortAfter = short + 1 \/ Backoff(ShortAfter) = MaxBackoff
<1> DEFINE k == Max(Shorts)
<1>1. k \in Nat /\ Backoff(k) = MaxBackoff
  BY CountsSuffice
<1>2. ShortAfter = IF ran >= StormWindow THEN 0 ELSE Least(short + 1, k)
  BY DEF ShortAfter
<1> HIDE DEF k
<1>3. Least(short + 1, k) = short + 1 \/ Least(short + 1, k) = k
  BY DEF Least
<1>4. QED BY <1>1, <1>2, <1>3

\* Sums after a step, which the provers want with names for the primed values.
LEMMA SumOfTwo ==
  ASSUME NEW a \in Nat, NEW b \in Nat, NEW x \in Nat, NEW y \in Nat, a <= x, b <= y
  PROVE  a + b <= x + y
OBVIOUS

LEMMA SleepGoesOn ==
  ASSUME NEW d \in Nat, NEW e \in Nat, e <= d + 1, NEW t \in Nat, NEW u \in Nat, u < t,
         NEW x \in Nat, NEW y, y = IF x = 0 THEN 0 ELSE x - 1,
         NEW a \in Nat, NEW i \in Nat, NEW b, b = a + i, t <= i,
         d + x <= a \/ (x = 0 /\ d + t <= b)
  PROVE  u <= i /\ (e + y <= a \/ (y = 0 /\ e + u <= b))
OBVIOUS

LEMMA WatchGoesOn ==
  ASSUME NEW d \in Nat, NEW e \in Nat, e <= d + 1, NEW t \in Nat, NEW u \in Nat, u < t,
         NEW i \in Nat, d + t <= i
  PROVE  e + u <= i
OBVIOUS

LEMMA TimesStart == Init => TimeInv
<1> SUFFICES ASSUME Init PROVE TimeInv
  OBVIOUS
<1>1. OwnTypes
  BY OwnInvStarts DEF OwnInv
<1>2. Times
  BY SettingsAre DEF Init, Times
<1>3. QED BY <1>1, <1>2 DEF Init, TimeInv, ChildAlive, Waits

\* Only Notice, Tick and the ends of a supervisor change the times and counts.
LEMMA TimesKeepTypes ==
  ASSUME TimeInv, Next
  PROVE  Times'
<1> USE DEF TimeInv, Times
<1>1. CASE Notice
  <2>1. ShortAfter \in Nat
    BY ShortIs
  <2>2. Backoff(ShortAfter) \in 0..MaxBackoff
    BY <2>1, BackoffIs, SettingsAre
  <2>3. QED BY <1>1, <2>1, <2>2, SettingsAre DEF Notice, Go
<1>2. CASE Tick
  <2>1. timer' \in Nat /\ ran' \in Nat /\ short' \in Nat
    BY <1>2, SettingsAre DEF Tick, Least
  <2>2. delay' \in 0..MaxBackoff /\ down' \in 0..MostDown + 1
    BY <1>2, SettingsAre DEF Tick, Least
  <2>3. storm' \subseteq 0..StormWindow
    BY <1>2 DEF Tick
  <2>4. QED BY <2>1, <2>2, <2>3
<1>3. CASE Watch
  BY <1>3, SettingsAre DEF Watch, Go
<1>4. CASE GiveUp \/ Close \/ Kill \/ MachineStops
  BY <1>4, SettingsAre DEF GiveUp, Close, Kill, MachineStops, Gone, Go
<1>5. CASE StartUp \/ Serve \/ Wake \/ Leave \/ Terminate \/ FinalSweep \/ ChildEnded \/ Ending \/ WaitedLong
  <2>1. timer' \in {0, 1, Interval, DurationWait, StopWait, TermWait}
    BY <1>5 DEF StartUp, Serve, Wake, Leave, Terminate, FinalSweep, ChildEnded, Ending, WaitedLong, Interrupt, Go
  <2>2. timer' \in Nat
    BY <2>1, SettingsAre
  <2>3. UNCHANGED <<delay, down, ran, short, storm>>
    BY <1>5 DEF StartUp, Serve, Wake, Leave, Terminate, FinalSweep, ChildEnded, Ending, WaitedLong, watch
  <2>4. QED BY <2>2, <2>3
<1>6. CASE RequestStop \/ \E c \in Collectors : Write(c) \/ CollectorEnds(c) \/ CollectorDies(c)
  BY <1>6 DEF RequestStop, Write, CollectorEnds, CollectorDies, watch
<1>7. QED BY <1>1, <1>2, <1>3, <1>4, <1>5, <1>6 DEF Next

\* The loop itself.
LEMMA LoopKeepsTime ==
  ASSUME TimeInv, StartUp \/ Notice \/ Watch \/ Serve \/ Wake \/ Leave, OwnTypes', Times'
  PROVE  TimeInv'
<1>1. CASE StartUp
  <2>1. pc = "off" /\ pc' = "loop" /\ child' = None /\ delay' = 0 /\ down' = 0 /\ Alive(child)' = Alive(child)
    BY <1>1 DEF StartUp, Go, watch, TimeInv, Alive
  <2>2. QED BY <2>1, SettingsAre DEF TimeInv, Waits, ChildAlive
<1>2. CASE Notice
  <2>1. child # None /\ ~Alive(child) /\ pc = "loop" /\ down <= Interval
    BY <1>2 DEF Notice, ChildDead, TimeInv, Watches
  <2>2. child' = None /\ pc' = "serve" /\ down' = down /\ delay' \in 0..MaxBackoff
    BY <1>2 DEF Notice, Go, Times
  <2>3. down \in Nat /\ delay' \in Nat /\ delay' <= MaxBackoff
    BY <2>2, SettingsAre DEF TimeInv, Times
  <2>4. delay' + down <= MaxBackoff + Interval
    BY <2>1, <2>3, SettingsAre, SumOfTwo
  <2>5. down' + delay' <= MaxBackoff + Interval
    BY <2>2, <2>3, <2>4
  <2>6. Waits'
    BY <2>2, <2>5 DEF Waits
  <2>7. QED BY <2>2, <2>6 DEF TimeInv, ChildAlive
<1>3. CASE Watch /\ ~UNCHANGED <<child, ran, down, coll, own, files>>
  <2>1. PICK c \in Free : child' = c /\ down' = 0 /\ pc' = "serve"
    BY <1>3 DEF Watch, Go
  <2>2. c \in Collectors /\ c # None
    BY <2>1, SettingsAre DEF Free
  <2>3. QED BY <2>1, <2>2 DEF TimeInv, Watches
<1>4. CASE Watch /\ UNCHANGED <<child, ran, down, coll, own, files>>
  <2>1. pc = "loop" /\ ~ChildDead /\ pc' = "serve" /\ UNCHANGED <<child, coll, down, delay>>
    BY <1>4 DEF Watch, Go
  <2>2. CASE child = None
    <3>1. delay # 0
      <4>1. SUFFICES ASSUME delay = 0 PROVE FALSE
        OBVIOUS
      <4>2. PICK c \in Free : child' = c
        BY <1>4, <2>2, <4>1 DEF Watch
      <4>3. QED BY <2>1, <2>2, <4>2, SettingsAre DEF Free
    <3>2. delay > 0
      BY <3>1 DEF TimeInv, Times
    <3>3. QED BY <2>1, <2>2, <3>2 DEF TimeInv, Waits, ChildAlive
  <2>3. CASE child # None
    <3>1. down = 0
      BY <2>1, <2>3 DEF ChildDead, ChildAlive, TimeInv
    <3>2. QED BY <2>1, <2>3, <3>1 DEF TimeInv, Watches
  <2>4. QED BY <2>2, <2>3
<1>5. CASE Serve \/ Wake \/ Leave
  <2>1. UNCHANGED <<child, coll, down, delay, storm>> /\ ChildAlive' = ChildAlive
    BY <1>5 DEF Serve, Wake, Leave, watch, ChildAlive, Alive
  <2>2. CASE Serve
    <3>1. pc = "serve" /\ pc' = "asleep" /\ timer' \in 1..Interval
      BY <2>2, SettingsAre DEF Serve, Go
    <3>2. down \in Nat /\ timer' \in Nat /\ timer' <= Interval
      BY <3>1, SettingsAre DEF TimeInv, Times
    <3>3. CASE child = None
      <4>1. down + delay <= MaxBackoff + Interval
        BY <3>1, <3>3 DEF TimeInv, Waits
      <4>2. down' + delay' <= MaxBackoff + Interval
        BY <2>1, <4>1
      <4>3. QED BY <2>1, <3>1, <3>2, <3>3, <4>2 DEF TimeInv, Waits
    <3>4. CASE child # None
      <4>1. down = 0
        BY <3>1, <3>4 DEF TimeInv, Watches
      <4>2. 0 + timer' <= Interval
        BY <3>2
      <4>3. down' + timer' <= Interval
        BY <2>1, <4>1, <4>2
      <4>4. QED BY <2>1, <3>1, <3>4, <4>3 DEF TimeInv, Watches
    <3>5. QED BY <3>3, <3>4
  <2>3. CASE Wake
    <3>1. pc = "asleep" /\ timer = 0 /\ pc' = "loop"
      BY <2>3 DEF Wake, Go
    <3>2. QED BY <2>1, <3>1, SettingsAre DEF TimeInv, Times, Waits, Watches
  <2>4. CASE Leave
    <3>1. pc' = "ending"
      BY <2>4 DEF Leave, Go
    <3>2. QED BY <2>1, <3>1 DEF TimeInv, Waits, Watches
  <2>5. QED BY <1>5, <2>2, <2>3, <2>4
<1>6. QED BY <1>1, <1>2, <1>3, <1>4, <1>5

\* The finally block and whoever ends the supervisor.
LEMMA EndsKeepTime ==
  ASSUME TimeInv, OwnTypes', Times',
         \/ Ending \/ ChildEnded \/ WaitedLong \/ Terminate \/ GiveUp \/ FinalSweep \/ Close
         \/ Kill \/ MachineStops
  PROVE  TimeInv'
<1>1. CASE GiveUp \/ Close \/ Kill \/ MachineStops
  <2>1. pc' = "off" /\ child' = None /\ delay' = 0 /\ down' = 0 /\ storm' = {}
    BY <1>1 DEF GiveUp, Close, Kill, MachineStops, Gone, Go
  <2>2. QED BY <2>1 DEF TimeInv, Waits, ChildAlive
<1>2. CASE Ending \/ ChildEnded \/ WaitedLong \/ Terminate \/ FinalSweep
  <2>1. UNCHANGED <<child, down, delay, storm>>
    BY <1>2 DEF Ending, ChildEnded, WaitedLong, Terminate, FinalSweep, watch
  <2>2. pc' \notin Looping \cup {"off"}
    BY <1>2 DEF Ending, ChildEnded, WaitedLong, Terminate, FinalSweep, Interrupt, Go, Looping
  <2>3. ChildAlive' => ChildAlive
    BY <1>2 DEF Ending, ChildEnded, WaitedLong, Terminate, FinalSweep, Interrupt, watch, ChildAlive, Alive, TimeInv, OwnTypes
  <2>4. QED BY <2>1, <2>2, <2>3 DEF TimeInv, Waits, Watches, Looping
<1>3. QED BY <1>1, <1>2

\* Signals, collectors and time.
LEMMA OthersKeepTime ==
  ASSUME TimeInv, OwnTypes', Times',
         \/ RequestStop \/ Tick
         \/ \E c \in Collectors : Write(c) \/ CollectorEnds(c) \/ CollectorDies(c)
  PROVE  TimeInv'
<1>1. CASE RequestStop
  <2>1. UNCHANGED <<pc, timer, child, down, delay, storm>>
    BY <1>1 DEF RequestStop, watch
  <2>2. ChildAlive' => ChildAlive
    BY <1>1, <2>1 DEF RequestStop, ChildAlive, Alive
  <2>3. QED BY <2>1, <2>2 DEF TimeInv, Waits, Watches
<1>2. CASE \E c \in Collectors : Write(c) \/ CollectorEnds(c) \/ CollectorDies(c)
  <2>1. UNCHANGED <<pc, timer, child, down, delay, storm>>
    BY <1>2 DEF Write, CollectorEnds, CollectorDies, watch
  <2>2. ChildAlive' => ChildAlive
    BY <1>2, <2>1 DEF Write, CollectorEnds, CollectorDies, ChildAlive, Alive, TimeInv, OwnTypes
  <2>3. QED BY <2>1, <2>2 DEF TimeInv, Waits, Watches
<1>3. CASE Tick
  <2>1. UNCHANGED <<pc, child>> /\ (ChildAlive' => ChildAlive)
    BY <1>3 DEF Tick, ChildAlive, Alive, TimeInv, OwnTypes
  <2>2. delay' = IF delay = 0 THEN 0 ELSE delay - 1
    BY <1>3 DEF Tick
  <2>3. down' = IF pc = "off" \/ ChildAlive THEN 0 ELSE Least(down + 1, MostDown + 1)
    BY <1>3 DEF Tick
  <2>4. storm = {} => storm' = {}
    BY <1>3 DEF Tick
  <2>5. pc \in Looping \cup {"off"} => pc = "off" \/ (pc = "asleep" /\ timer > 0 /\ timer' = timer - 1)
    BY <1>3 DEF Tick, Looping
  <2>6. CASE pc = "off"
    BY <2>1, <2>2, <2>3, <2>4, <2>6 DEF TimeInv, Waits, ChildAlive
  <2>7. CASE pc \notin Looping \cup {"off"}
    BY <2>1, <2>3, <2>7 DEF TimeInv, Waits, Watches, Looping
  <2>8. CASE pc = "asleep"
    <3>1. timer' < timer /\ timer \in Nat /\ timer' \in Nat /\ delay \in Nat /\ down \in Nat /\ pc' = "asleep"
      BY <2>1, <2>5, <2>8, SettingsAre DEF Looping, TimeInv, Times
    <3>2. CASE child = None
      <4>1. down' <= down + 1 /\ down' \in Nat
        BY <2>3, <3>1, SettingsAre DEF Least
      <4>2. Waits
        BY <3>2 DEF TimeInv
      <4>3. timer <= Interval /\ (down + delay <= MaxBackoff + Interval \/ (delay = 0 /\ down + timer <= MostDown))
        BY <2>8, <4>2 DEF Waits
      <4>4. MaxBackoff + Interval \in Nat /\ MostDown = (MaxBackoff + Interval) + Interval
        BY SettingsAre
      <4>5. timer' <= Interval /\ (down' + delay' <= MaxBackoff + Interval \/ (delay' = 0 /\ down' + timer' <= MostDown))
        <5> DEFINE d == down'
                   u == timer'
                   y == delay'
                   a == MaxBackoff + Interval
        <5>1. d \in Nat /\ d <= down + 1 /\ u \in Nat /\ u < timer /\ y = (IF delay = 0 THEN 0 ELSE delay - 1)
          BY <2>2, <3>1, <4>1
        <5>2. a \in Nat /\ MostDown = a + Interval /\ timer <= Interval
              /\ (down + delay <= a \/ (delay = 0 /\ down + timer <= MostDown))
          BY <4>3, <4>4
        <5> HIDE DEF d, u, y, a
        <5>3. u <= Interval /\ (d + y <= a \/ (y = 0 /\ d + u <= MostDown))
          BY <3>1, <5>1, <5>2, SettingsAre, SleepGoesOn
        <5>4. QED BY <5>3 DEF d, u, y, a
      <4>6. Waits'
        BY <3>1, <4>5 DEF Waits
      <4>7. QED BY <2>1, <3>1, <3>2, <4>6 DEF TimeInv, ChildAlive
    <3>3. CASE child # None
      <4>1. Watches
        BY <3>3 DEF TimeInv
      <4>2. down' <= down + 1 /\ down' \in Nat /\ (ChildAlive => down' = 0)
        BY <2>3, <3>1, SettingsAre DEF Least
      <4>3. down + timer <= Interval
        BY <2>8, <4>1 DEF Watches
      <4>4. down' + timer' <= Interval
        BY <3>1, <4>2, <4>3, SettingsAre, WatchGoesOn
      <4>5. Watches'
        BY <3>1, <4>4 DEF Watches
      <4>6. QED BY <2>1, <3>1, <3>3, <4>2, <4>5 DEF TimeInv
    <3>4. QED BY <3>2, <3>3
  <2>9. QED BY <2>5, <2>6, <2>7, <2>8
<1>4. QED BY <1>1, <1>2, <1>3

LEMMA TimeInvInductive == OwnInv /\ TimeInv /\ [Next]_vars => TimeInv'
<1> SUFFICES ASSUME OwnInv, TimeInv, [Next]_vars PROVE TimeInv'
  OBVIOUS
<1>1. CASE UNCHANGED vars
  BY <1>1 DEF vars, watch, files, TimeInv, OwnTypes, Times, Waits, Watches, ChildAlive, Alive
<1>2. CASE Next
  <2>1. OwnInv'
    BY <1>2, LoopKeepsOwn, FinallyKeepsOwn, OthersKeepOwn DEF Next
  <2>2. OwnTypes' /\ Times'
    BY <1>2, <2>1, TimesKeepTypes DEF OwnInv
  <2>3. QED BY <1>2, <2>2, LoopKeepsTime, EndsKeepTime, OthersKeepTime DEF Next
<1>3. QED BY <1>1, <1>2

\* A collector that is gone is replaced within the largest backoff and two
\* sleeps, however often it dies (run_live_supervisor.py 70-88).
THEOREM GoneIsReplaced == Spec => []ReplacedInTime
<1>1. TimeInv => ReplacedInTime
  <2> SUFFICES ASSUME TimeInv, pc \in Looping PROVE down <= MostDown
    BY DEF ReplacedInTime
  <2>1. down \in Nat /\ delay \in Nat /\ timer \in Nat
    BY SettingsAre DEF TimeInv, Times
  <2>2. CASE child = None
    BY <2>1, <2>2, SettingsAre DEF TimeInv, Waits, Looping
  <2>3. CASE child # None
    BY <2>1, <2>3, SettingsAre DEF TimeInv, Watches, Looping
  <2>4. QED BY <2>2, <2>3
<1>2. QED BY <1>1, OwnInvStarts, OwnInvInductive, TimesStart, TimeInvInductive, PTL DEF Spec

(***************************************************************************)
(* How many restarts a storm window has room for                           *)
(***************************************************************************)

\* g lists n ages, the last restart's first, each as old as the backoffs after
\* it took: i restarts later at least i backoffs have passed.
Ladder(n, g, ages) ==
    /\ n \in Nat /\ g \in [1..n -> Nat]
    /\ ages = {g[i] : i \in 1..n}
    /\ \A i, j \in 1..n : i < j => g[i] < g[j]
    /\ \A i \in 1..n : g[1] + Spacing[i - 1] <= g[i]
Counts(n, s) == n <= s + 1 \/ Backoff(s) = MaxBackoff
StormInv == Rested /\ \E n, g : Ladder(n, g, storm) /\ Counts(n, short)

\* No restart yet.
LEMMA NoLadder == \E g : Ladder(0, g, {})
<1> DEFINE g == [i \in 1..0 |-> 0]
<1>1. g \in [1..0 -> Nat] /\ {} = {g[i] : i \in 1..0} /\ \A i \in 1..0 : FALSE
  OBVIOUS
<1> HIDE DEF g
<1>2. Ladder(0, g, {})
  BY <1>1 DEF Ladder
<1>3. QED BY <1>2

\* A new restart goes first when the last one is older than its backoff.
LEMMA LadderGrows ==
  ASSUME NEW n, NEW g, NEW ages, Ladder(n, g, ages), NEW s \in Nat, Counts(n, s),
         \A a \in ages : a > Backoff(s)
  PROVE  \E h : Ladder(n + 1, h, ages \cup {0})
<1> DEFINE h == [i \in 1..(n + 1) |-> IF i = 1 THEN 0 ELSE g[i - 1]]
<1>1. n \in Nat /\ g \in [1..n -> Nat] /\ ages = {g[i] : i \in 1..n}
  BY DEF Ladder
<1>2. \A i \in 1..(n + 1) : i # 1 => i - 1 \in 1..n
  BY <1>1
<1>3. h \in [1..(n + 1) -> Nat]
  BY <1>1, <1>2
<1>4. h[1] = 0 /\ \A i \in 1..(n + 1) : i # 1 => h[i] = g[i - 1]
  BY <1>1
<1>5. 1 \in 1..(n + 1) /\ \A k \in 1..n : k + 1 \in 1..(n + 1) /\ k + 1 # 1 /\ (k + 1) - 1 = k
  BY <1>1
<1> HIDE DEF h
<1>6. ages \cup {0} = {h[i] : i \in 1..(n + 1)}
  <2>1. ASSUME NEW a \in ages \cup {0} PROVE \E i \in 1..(n + 1) : a = h[i]
    <3>1. CASE a = 0
      BY <1>4, <1>5, <3>1
    <3>2. CASE a \in ages
      <4>1. PICK k \in 1..n : a = g[k]
        BY <1>1, <3>2
      <4>2. h[k + 1] = g[k]
        <5>1. h[k + 1] = g[(k + 1) - 1]
          BY <1>4, <1>5
        <5>2. QED BY <1>5, <5>1
      <4>3. QED BY <1>5, <4>1, <4>2
    <3>3. QED BY <3>1, <3>2
  <2>2. ASSUME NEW i \in 1..(n + 1) PROVE h[i] \in ages \cup {0}
    BY <1>1, <1>2, <1>4
  <2>3. QED BY <2>1, <2>2
<1>7. \A k \in 1..n : g[k] \in Nat /\ g[k] > Backoff(s) /\ g[k] > 0
  <2>1. TAKE k \in 1..n
  <2>2. g[k] \in ages /\ g[k] \in Nat
    BY <1>1
  <2>3. QED BY <2>2, BackoffIs
<1>8. ASSUME NEW i \in 1..(n + 1), NEW j \in 1..(n + 1), i < j PROVE h[i] < h[j]
  <2>1. j # 1 /\ j - 1 \in 1..n
    BY <1>1, <1>8, <1>2
  <2>2. CASE i = 1
    BY <1>4, <1>7, <2>1, <2>2
  <2>3. CASE i # 1
    <3>1. i - 1 \in 1..n /\ i - 1 < j - 1
      BY <1>1, <1>2, <1>8, <2>3
    <3>2. g[i - 1] < g[j - 1]
      BY <2>1, <3>1 DEF Ladder
    <3>3. QED BY <1>4, <2>1, <2>3, <3>2
  <2>4. QED BY <2>2, <2>3
<1>9. ASSUME NEW i \in 1..(n + 1) PROVE h[1] + Spacing[i - 1] <= h[i]
  <2>1. CASE i = 1
    <3>1. Spacing[i - 1] = 0
      BY <2>1, SpacingAt
    <3>2. QED BY <1>4, <2>1, <3>1
  <2>2. CASE i # 1
    <3> DEFINE k == i - 1
               m == k - 1
    <3>1. k \in 1..n /\ m \in Nat /\ k = m + 1 /\ m < n
      BY <1>1, <1>2, <2>2
    <3>2. h[i] = g[k]
      BY <1>4, <2>2
    <3>3. g[1] + Spacing[k - 1] <= g[k]
      BY <3>1 DEF Ladder
    <3> HIDE DEF k
    <3>4. g[1] + Spacing[m] <= g[k]
      BY <3>3
    <3> HIDE DEF m
    <3>5. Spacing[k] = Spacing[m] + Backoff(m) + 1 /\ Spacing[m] \in Nat /\ Backoff(m) \in Nat
      BY <3>1, SpacingAt, SpacingIsNat, BackoffIs
    <3>6. Backoff(m) <= Backoff(s)
      <4>1. CASE n <= s + 1
        <5>1. m <= s
          BY <1>1, <3>1, <4>1
        <5>2. QED BY <3>1, <5>1, BackoffGrows
      <4>2. CASE Backoff(s) = MaxBackoff
        BY <3>1, <4>2, BackoffIs
      <4>3. QED BY <4>1, <4>2 DEF Counts
    <3>7. g[1] \in Nat /\ g[1] > Backoff(s) /\ g[k] \in Nat
      <4>1. 1 \in 1..n
        BY <1>1, <3>1
      <4>2. QED BY <1>7, <3>1, <4>1
    <3>8. Spacing[k] <= g[k]
      <4>1. Backoff(s) \in Nat
        BY BackoffIs
      <4>2. QED BY <3>4, <3>5, <3>6, <3>7, <4>1
    <3>9. h[1] + Spacing[k] <= h[i]
      <4>1. Spacing[k] \in Nat
        BY <3>5
      <4>2. QED BY <1>4, <3>2, <3>8, <4>1
    <3>10. QED BY <3>9 DEF k
  <2>3. QED BY <2>1, <2>2
<1>10. Ladder(n + 1, h, ages \cup {0})
  <2> DEFINE m == n + 1
             all == ages \cup {0}
  <2>0. m \in Nat
    BY <1>1
  <2>1. h \in [1..m -> Nat] /\ all = {h[i] : i \in 1..m}
    BY <1>3, <1>6
  <2>2. \A i, j \in 1..m : i < j => h[i] < h[j]
    BY <1>8
  <2>3. \A i \in 1..m : h[1] + Spacing[i - 1] <= h[i]
    BY <1>9
  <2> HIDE DEF m, all
  <2>4. Ladder(m, h, all)
    BY <2>0, <2>1, <2>2, <2>3 DEF Ladder
  <2>5. QED BY <2>4 DEF m, all
<1>11. QED BY <1>10

\* Time takes at most the last one out of the window.
LEMMA LadderAges ==
  ASSUME NEW n, NEW g, NEW ages, Ladder(n, g, ages), ages \subseteq 0..StormWindow
  PROVE  \E m, h : m \in Nat /\ m <= n /\ Ladder(m, h, {a + 1 : a \in ages} \cap 0..StormWindow)
<1>1. n \in Nat /\ g \in [1..n -> Nat] /\ ages = {g[i] : i \in 1..n}
  BY DEF Ladder
<1>2. \A i \in 1..n : g[i] \in Nat /\ g[i] <= StormWindow
  BY <1>1, SettingsAre
<1> DEFINE m == IF n # 0 /\ g[n] = StormWindow THEN n - 1 ELSE n
           h == [i \in 1..m |-> g[i] + 1]
           next == {a + 1 : a \in ages} \cap 0..StormWindow
<1>3. m \in Nat /\ m <= n /\ 1..m \subseteq 1..n
  BY <1>1
<1>4. \A i \in 1..m : g[i] < StormWindow
  <2>1. TAKE i \in 1..m
  <2>2. i \in 1..n /\ n \in 1..n /\ g[i] \in Nat /\ g[n] \in Nat /\ g[n] <= StormWindow
    BY <1>1, <1>2, <1>3
  <2>3. CASE i = n
    BY <2>2, <2>3, <1>1, SettingsAre
  <2>4. CASE i # n
    <3>1. i < n
      BY <1>1, <2>2, <2>4
    <3>2. g[i] < g[n]
      BY <2>2, <3>1 DEF Ladder
    <3>3. QED BY <2>2, <3>2, SettingsAre
  <2>5. QED BY <2>3, <2>4
<1>5. \A i \in 1..n : g[i] < StormWindow => i \in 1..m
  BY <1>1, <1>2, SettingsAre
<1> HIDE DEF m
<1>6. h \in [1..m -> Nat] /\ \A i \in 1..m : h[i] = g[i] + 1
  BY <1>2, <1>3
<1> HIDE DEF h
<1>7. next = {h[i] : i \in 1..m}
  <2>1. ASSUME NEW b \in next PROVE \E i \in 1..m : b = h[i]
    <3>1. PICK a \in ages : b = a + 1
      OBVIOUS
    <3>2. PICK i \in 1..n : a = g[i]
      BY <1>1
    <3>3. g[i] < StormWindow
      BY <1>2, <3>1, <3>2, SettingsAre
    <3>4. QED BY <1>5, <1>6, <3>1, <3>2, <3>3
  <2>2. ASSUME NEW i \in 1..m PROVE h[i] \in next
    <3>1. h[i] = g[i] + 1 /\ g[i] \in Nat /\ g[i] < StormWindow /\ i \in 1..n
      BY <1>2, <1>3, <1>4, <1>6
    <3>2. g[i] \in ages
      BY <1>1, <3>1
    <3>3. g[i] + 1 \in 0..StormWindow
      BY <3>1, SettingsAre
    <3>4. QED BY <3>1, <3>2, <3>3
  <2>3. QED BY <2>1, <2>2
<1>8. ASSUME NEW i \in 1..m, NEW j \in 1..m, i < j PROVE h[i] < h[j]
  <2>1. g[i] < g[j] /\ g[i] \in Nat /\ g[j] \in Nat
    BY <1>2, <1>3, <1>8 DEF Ladder
  <2>2. QED BY <1>6, <2>1
<1>9. ASSUME NEW i \in 1..m PROVE h[1] + Spacing[i - 1] <= h[i]
  <2>1. i - 1 \in Nat /\ 1 \in 1..m /\ 1 \in 1..n /\ i \in 1..n
    BY <1>3
  <2>2. Spacing[i - 1] \in Nat
    BY <2>1, SpacingIsNat
  <2>3. g[1] + Spacing[i - 1] <= g[i]
    BY <2>1 DEF Ladder
  <2> DEFINE x == Spacing[i - 1]
  <2>4. h[1] = g[1] + 1 /\ h[i] = g[i] + 1 /\ g[1] \in Nat /\ g[i] \in Nat /\ x \in Nat /\ g[1] + x <= g[i]
    BY <1>2, <1>6, <2>1, <2>2, <2>3
  <2> HIDE DEF x
  <2>5. h[1] + x <= h[i]
    BY <2>4
  <2>6. QED BY <2>5 DEF x
<1> HIDE DEF next
<1>10. Ladder(m, h, next)
  BY <1>3, <1>6, <1>7, <1>8, <1>9 DEF Ladder
<1>11. QED BY <1>3, <1>10 DEF next

\* It has room for the restarts it counts.
LEMMA LadderHasRoom ==
  ASSUME NEW n, NEW g, NEW ages, Ladder(n, g, ages), ages \subseteq 0..StormWindow,
         NEW k \in 1..Cardinality(ages) - 1
  PROVE  Spacing[k] <= StormWindow
<1>1. n \in Nat /\ g \in [1..n -> Nat] /\ ages = {g[i] : i \in 1..n}
  BY DEF Ladder
<1>2. g \in Surjection(1..n, ages)
  BY <1>1 DEF Surjection
<1>3. ExistsSurjection(1..n, ages)
  BY <1>2 DEF ExistsSurjection
<1>4. Cardinality(ages) <= n
  BY <1>1, <1>3, FS_SurjCardinalityBound
<1>5. Cardinality(ages) \in Nat
  <2>1. IsFiniteSet(0..StormWindow)
    BY SettingsAre, FS_Interval
  <2>2. QED BY <2>1, FS_Subset, FS_CardinalityType
<1>6. k \in Nat /\ k + 1 \in 1..n /\ 1 \in 1..n /\ (k + 1) - 1 = k
  BY <1>1, <1>4, <1>5
<1>7. g[1] + Spacing[(k + 1) - 1] <= g[k + 1]
  BY <1>6 DEF Ladder
<1>8. g[1] + Spacing[k] <= g[k + 1]
  BY <1>6, <1>7
<1>9. g[1] \in Nat /\ g[k + 1] \in Nat /\ g[k + 1] <= StormWindow
  BY <1>1, <1>6, SettingsAre
<1>10. Spacing[k] \in Nat
  BY <1>6, SpacingIsNat
<1>11. QED BY <1>8, <1>9, <1>10, SettingsAre

LEMMA StormStarts == Init => StormInv
<1> SUFFICES ASSUME Init PROVE StormInv
  OBVIOUS
<1>1. storm = {} /\ short = 0
  BY DEF Init
<1>2. Rested
  BY <1>1 DEF Rested
<1>3. PICK g : Ladder(0, g, storm)
  BY <1>1, NoLadder
<1>4. Counts(0, short)
  BY <1>1 DEF Counts
<1>5. QED BY <1>2, <1>3, <1>4 DEF StormInv

\* A dead child is noticed: one more restart, and one more backoff to wait.
LEMMA NoticeKeepsStorm ==
  ASSUME TimeInv, StormInv, Notice
  PROVE  StormInv'
<1>1. short \in Nat /\ storm \subseteq 0..StormWindow /\ ran \in Nat
  BY DEF TimeInv, Times
<1>2. /\ pc = "loop" /\ child # None
      /\ storm' = storm \cup {0} /\ short' = ShortAfter /\ delay' = Backoff(ShortAfter)
      /\ child' = None /\ pc' = "serve"
  BY DEF Notice, ChildDead, Go
<1>3. \A a \in storm : a > ran /\ a > Backoff(short)
  BY <1>2 DEF StormInv, Rested, Looping
<1>4. ShortAfter \in Nat /\ (ran >= StormWindow \/ ShortAfter = short + 1 \/ Backoff(ShortAfter) = MaxBackoff)
  BY <1>1, ShortIs
<1>5. Rested'
  <2>1. delay' = Backoff(short') /\ delay' \in Nat
    BY <1>2, <1>4, BackoffIs
  <2>2. \A a \in storm' : a \in Nat
    BY <1>1, <1>2, SettingsAre
  <2> DEFINE d == delay'
             b == Backoff(short')
  <2>3. d = b /\ d \in Nat /\ b \in Nat
    BY <2>1
  <2>4. \A a \in storm' : d + a >= b
    <3> HIDE DEF d, b
    <3>1. QED BY <2>2, <2>3
  <2>5. \A a \in storm' : delay' + a >= Backoff(short')
    BY <2>4
  <2>6. QED BY <1>2, <2>5 DEF Rested
<1>6. PICK n, g : Ladder(n, g, storm) /\ Counts(n, short)
  BY DEF StormInv
<1>7. PICK h : Ladder(n + 1, h, storm')
  <2>1. PICK h : Ladder(n + 1, h, storm \cup {0})
    BY <1>1, <1>3, <1>6, LadderGrows
  <2>2. QED BY <1>2, <2>1
<1>8. Counts(n + 1, short')
  <2>1. n \in Nat /\ g \in [1..n -> Nat] /\ storm = {g[i] : i \in 1..n}
    BY <1>6 DEF Ladder
  <2>2. CASE ran >= StormWindow
    <3>1. storm = {}
      BY <1>1, <1>3, <2>2, SettingsAre
    <3>2. n = 0
      <4>1. SUFFICES ASSUME n # 0 PROVE FALSE
        OBVIOUS
      <4>2. n \in 1..n
        BY <2>1, <4>1
      <4>3. QED BY <2>1, <3>1, <4>2
    <3>3. n + 1 <= ShortAfter + 1
      BY <1>4, <3>2
    <3>4. QED BY <1>2, <3>3 DEF Counts
  <2>3. CASE Backoff(ShortAfter) = MaxBackoff
    BY <1>2, <2>3 DEF Counts
  <2>4. CASE ShortAfter = short + 1
    <3>1. CASE n <= short + 1
      <4>1. n + 1 <= ShortAfter + 1
        BY <1>1, <2>1, <2>4, <3>1
      <4>2. QED BY <1>2, <4>1 DEF Counts
    <3>2. CASE Backoff(short) = MaxBackoff
      <4>1. Backoff(short) <= Backoff(short + 1)
        BY <1>1, BackoffSteps
      <4>2. Backoff(short + 1) \in Nat /\ Backoff(short + 1) <= MaxBackoff
        BY <1>1, BackoffIs
      <4>3. Backoff(short + 1) = MaxBackoff
        BY <3>2, <4>1, <4>2, SettingsAre
      <4>4. QED BY <1>2, <2>4, <4>3 DEF Counts
    <3>3. QED BY <1>6, <3>1, <3>2 DEF Counts
  <2>5. QED BY <1>4, <2>2, <2>3, <2>4
<1>9. QED BY <1>5, <1>7, <1>8 DEF StormInv

\* Time passes alike for the ages, the run and the sleep.
LEMMA TickKeepsStorm ==
  ASSUME TimeInv, StormInv, Tick
  PROVE  StormInv'
<1>1. /\ short \in Nat /\ storm \subseteq 0..StormWindow /\ ran \in Nat
      /\ delay \in Nat /\ timer \in Nat /\ (pc = "off" => storm = {})
  BY SettingsAre DEF TimeInv, Times
<1>2. /\ UNCHANGED <<pc, child, short>>
      /\ storm' = {a + 1 : a \in storm} \cap 0..StormWindow
      /\ ran' = IF child = None THEN 0 ELSE Least(ran + 1, StormWindow)
      /\ delay' = IF delay = 0 THEN 0 ELSE delay - 1
      /\ timer' = IF pc = "off" THEN 0 ELSE timer - 1
  BY DEF Tick
<1>3. pc \in Looping => pc = "asleep" /\ timer > 0
  BY DEF Tick, Looping
<1>4. Rested'
  <2> DEFINE d == delay'
             t == timer'
             r == ran'
             b == Backoff(short)
  <2>1. Backoff(short') = b /\ b \in Nat
    BY <1>1, <1>2, BackoffIs
  <2>2. ASSUME NEW x \in storm', pc \in Looping
        PROVE  /\ child = None => d + x >= b
               /\ child # None => x > r /\ x + t > b
    <3>1. PICK a \in storm : x = a + 1
      BY <1>2
    <3>2. a \in Nat /\ pc = "asleep" /\ timer > 0
      BY <1>1, <1>3, <2>2, SettingsAre
    <3>3. /\ child = None => delay + a >= b
          /\ child # None => a > ran /\ a + timer > b
      BY <2>2, <3>2 DEF StormInv, Rested
    <3>4. d = (IF delay = 0 THEN 0 ELSE delay - 1) /\ t = timer - 1 /\ (child # None => r <= ran + 1 /\ r \in Nat)
      BY <1>1, <1>2, <3>2, SettingsAre DEF Least
    <3> HIDE DEF d, t, r, b
    <3>5. child = None => d + x >= b
      BY <1>1, <2>1, <3>1, <3>2, <3>3, <3>4
    <3>6. child # None => x > r
      BY <1>1, <3>1, <3>2, <3>3, <3>4
    <3>7. child # None => x + t > b
      BY <1>1, <2>1, <3>1, <3>2, <3>3, <3>4
    <3>8. QED BY <3>5, <3>6, <3>7
  <2>3. pc' \in Looping => pc' = "asleep" /\ pc \in Looping
    BY <1>2, <1>3
  <2>4. QED BY <1>2, <2>1, <2>2, <2>3 DEF Rested
<1>5. PICK n, g : Ladder(n, g, storm) /\ Counts(n, short)
  BY DEF StormInv
<1>6. PICK m, h : m \in Nat /\ m <= n /\ Ladder(m, h, storm')
  <2>1. PICK m, h : m \in Nat /\ m <= n /\ Ladder(m, h, {a + 1 : a \in storm} \cap 0..StormWindow)
    BY <1>1, <1>5, LadderAges
  <2>2. QED BY <1>2, <2>1
<1>7. Counts(m, short')
  <2>1. n \in Nat
    BY <1>5 DEF Ladder
  <2>2. CASE n <= short + 1
    <3>1. m <= short + 1
      BY <1>1, <1>6, <2>1, <2>2
    <3>2. QED BY <1>2, <3>1 DEF Counts
  <2>3. CASE Backoff(short) = MaxBackoff
    BY <1>2, <2>3 DEF Counts
  <2>4. QED BY <1>5, <2>2, <2>3 DEF Counts
<1>8. QED BY <1>4, <1>6, <1>7 DEF StormInv

\* Nothing else changes the ages or the count, except the supervisor's end.
LEMMA OthersKeepStorm ==
  ASSUME TimeInv, StormInv, Next, ~Notice, ~Tick
  PROVE  StormInv'
<1>1. /\ short \in Nat /\ storm \subseteq 0..StormWindow /\ ran \in Nat
      /\ delay \in Nat /\ timer \in Nat /\ (pc = "off" => storm = {})
  BY SettingsAre DEF TimeInv, Times
<1>2. ASSUME storm' = {} PROVE StormInv'
  <2>1. PICK g : Ladder(0, g, storm')
    BY <1>2, NoLadder
  <2>2. short' \in Nat
    BY TimesKeepTypes DEF Times
  <2>3. Counts(0, short')
    <3> DEFINE s == short'
    <3>1. 0 <= s + 1
      <4>1. s \in Nat
        BY <2>2
      <4> HIDE DEF s
      <4>2. QED BY <4>1
    <3>2. QED BY <3>1 DEF Counts
  <2>4. Rested'
    BY <1>2 DEF Rested
  <2>5. QED BY <2>1, <2>3, <2>4 DEF StormInv
<1>3. ASSUME storm' = storm, short' = short, Rested' PROVE StormInv'
  <2>1. PICK n, g : Ladder(n, g, storm) /\ Counts(n, short)
    BY DEF StormInv
  <2>2. Ladder(n, g, storm') /\ Counts(n, short')
    BY <1>3, <2>1
  <2>3. QED BY <1>3, <2>2 DEF StormInv
<1>4. CASE GiveUp \/ Close \/ Kill \/ MachineStops
  BY <1>2, <1>4 DEF GiveUp, Close, Kill, MachineStops, Gone
<1>5. CASE StartUp
  BY <1>1, <1>2, <1>5 DEF StartUp, watch
<1>6. \A a \in storm : a \in Nat
  BY <1>1, SettingsAre
<1>7. CASE Watch
  <2>1. pc = "loop" /\ pc' = "serve" /\ UNCHANGED <<delay, short, storm>>
    BY <1>7 DEF Watch, Go
  <2>2. CASE UNCHANGED <<child, ran, down, coll, own, files>>
    <3>1. child # None => \A a \in storm : a > Backoff(short)
      BY <2>1 DEF StormInv, Rested, Looping
    <3>2. Backoff(short) \in Nat
      BY <1>1, BackoffIs
    <3>3. child # None => \A a \in storm : a >= Backoff(short)
      BY <1>6, <3>1, <3>2
    <3>4. Rested'
      BY <2>1, <2>2, <3>3 DEF StormInv, Rested, Looping
    <3>5. QED BY <1>3, <2>1, <3>4
  <2>3. CASE ~UNCHANGED <<child, ran, down, coll, own, files>>
    <3>1. child = None /\ delay = 0 /\ \E c \in Free : child' = c /\ ran' = 0
      BY <1>7, <2>3 DEF Watch
    <3>2. child' # None
      BY <3>1, SettingsAre DEF Free
    <3>3. \A a \in storm : delay + a >= Backoff(short)
      BY <2>1, <3>1 DEF StormInv, Rested, Looping
    <3>4. \A a \in storm : a >= Backoff(short)
      BY <1>6, <3>1, <3>3
    <3>5. \A a \in storm : a > 0
      BY <1>1, <1>6, <3>4, BackoffIs
    <3>6. Rested'
      BY <2>1, <3>1, <3>2, <3>4, <3>5 DEF Rested
    <3>7. QED BY <1>3, <2>1, <3>6
  <2>4. QED BY <2>2, <2>3
<1>8. CASE Serve
  <2>1. pc = "serve" /\ pc' = "asleep" /\ timer' \in 1..Interval /\ UNCHANGED <<child, ran, delay, short, storm>>
    BY <1>8, SettingsAre DEF Serve, Go, watch
  <2>2. \A a \in storm : child = None => delay + a >= Backoff(short)
    BY <2>1 DEF StormInv, Rested, Looping
  <2>3. \A a \in storm : child # None => a > ran /\ a >= Backoff(short)
    BY <2>1 DEF StormInv, Rested, Looping
  <2>4. \A a \in storm : child # None => a + timer' > Backoff(short)
    <3> DEFINE t == timer'
               b == Backoff(short)
    <3>1. t \in Nat /\ t >= 1 /\ b \in Nat /\ \A a \in storm : child # None => a >= b
      BY <1>1, <2>1, <2>3, BackoffIs, SettingsAre
    <3> HIDE DEF t, b
    <3>2. \A a \in storm : child # None => a + t > b
      BY <1>6, <3>1
    <3>3. QED BY <3>2 DEF t, b
  <2>5. Rested'
    BY <2>1, <2>2, <2>3, <2>4 DEF Rested
  <2>6. QED BY <1>3, <2>1, <2>5
<1>9. CASE Wake
  <2>1. pc = "asleep" /\ timer = 0 /\ pc' = "loop" /\ UNCHANGED <<child, ran, delay, short, storm>>
    BY <1>9 DEF Wake, Go, watch
  <2>2. \A a \in storm : child = None => delay + a >= Backoff(short)
    BY <2>1 DEF StormInv, Rested, Looping
  <2>3. \A a \in storm : child # None => a > ran /\ a + timer > Backoff(short)
    BY <2>1 DEF StormInv, Rested, Looping
  <2>4. \A a \in storm : child # None => a > Backoff(short)
    BY <1>6, <2>1, <2>3
  <2>5. Rested'
    BY <2>1, <2>2, <2>3, <2>4 DEF Rested
  <2>6. QED BY <1>3, <2>1, <2>5
<1>10. CASE Leave \/ Ending \/ ChildEnded \/ WaitedLong \/ Terminate \/ FinalSweep
  <2>1. UNCHANGED <<short, storm>>
    BY <1>10 DEF Leave, Ending, ChildEnded, WaitedLong, Terminate, FinalSweep, watch
  <2>2. pc' \notin Looping
    BY <1>10 DEF Leave, Ending, ChildEnded, WaitedLong, Terminate, FinalSweep, Interrupt, Go, Looping
  <2>3. Rested'
    BY <2>2 DEF Rested
  <2>4. QED BY <1>3, <2>1, <2>3
<1>11. CASE RequestStop \/ \E c \in Collectors : Write(c) \/ CollectorEnds(c) \/ CollectorDies(c)
  <2>1. UNCHANGED <<pc, timer, child, ran, delay, short, storm>>
    BY <1>11 DEF RequestStop, Write, CollectorEnds, CollectorDies, watch
  <2>2. Rested'
    BY <2>1 DEF StormInv, Rested
  <2>3. QED BY <1>3, <2>1, <2>2
<1>12. QED BY <1>4, <1>5, <1>7, <1>8, <1>9, <1>10, <1>11 DEF Next

\* In any storm window the collector is restarted only as often as the growing
\* backoff leaves room for (compute_backoff_seconds and the reset of the count,
\* run_live_supervisor.py 73-76).
THEOREM RestartsAreDamped == Spec => []RestartsDamped
<1>1. TimeInv /\ StormInv => RestartsDamped
  <2> SUFFICES ASSUME TimeInv, StormInv PROVE RestartsDamped
    OBVIOUS
  <2>1. PICK n, g : Ladder(n, g, storm)
    BY DEF StormInv
  <2>2. storm \subseteq 0..StormWindow
    BY DEF TimeInv, Times
  <2>3. QED BY <2>1, <2>2, LadderHasRoom DEF RestartsDamped
<1>2. TimeInv /\ StormInv /\ [Next]_vars => StormInv'
  <2> SUFFICES ASSUME TimeInv, StormInv, [Next]_vars PROVE StormInv'
    OBVIOUS
  <2>1. CASE UNCHANGED vars
    <3>1. PICK n, g : Ladder(n, g, storm) /\ Counts(n, short)
      BY DEF StormInv
    <3>2. Ladder(n, g, storm') /\ Counts(n, short')
      BY <2>1, <3>1 DEF vars, watch
    <3>3. Rested'
      BY <2>1 DEF vars, watch, StormInv, Rested
    <3>4. QED BY <3>2, <3>3 DEF StormInv
  <2>2. QED BY <2>1, NoticeKeepsStorm, TickKeepsStorm, OthersKeepStorm
<1>3. QED BY <1>1, <1>2, OwnInvStarts, OwnInvInductive, TimesStart, TimeInvInductive, StormStarts, PTL DEF Spec
================================================================================
