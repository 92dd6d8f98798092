------------------------------ MODULE Recursions ------------------------------
(***************************************************************************)
(* Induction on numbers, by the least counterexample, and what it gives:   *)
(* functions defined by recursion exist.  The proofs about walks, searches *)
(* and batches of links rest on it.                                        *)
(***************************************************************************)
EXTENDS Integers, TLAPS, WellFoundedInduction, NaturalsInduction

\* A non-empty set of numbers has a least one.
LEMMA Least ==
  ASSUME NEW T \in SUBSET Nat, T # {}
  PROVE  \E x \in T : \A y \in T : x <= y
<1> DEFINE R == {ss \in Nat \X Nat : ss[1] < ss[2]}
<1>1. IsWellFoundedOn(R, Nat)
  BY NatLessThanWellFounded, Zenon DEF OpToRel
<1> HIDE DEF R
<1>2. PICK x \in T : \A y \in T : ~(<<y, x>> \in R)
  BY <1>1, WFMin
<1>3. ASSUME NEW y \in T
      PROVE  x <= y
  <2>1. ~(<<y, x>> \in R)
    BY <1>2
  <2>2. y \in Nat /\ x \in Nat
    OBVIOUS
  <2>3. ~(y < x)
    BY <2>1, <2>2 DEF R
  <2>4. QED
    BY <2>2, <2>3
<1>4. QED
  BY <1>3

\* A set that holds 0 and the successor of each of its numbers below M holds them all.
LEMMA UpTo ==
  ASSUME NEW M \in Nat, NEW T, 0 \in T, \A m \in 0..(M - 1) : m \in T => m + 1 \in T
  PROVE  0..M \subseteq T
<1> DEFINE F == (0..M) \ T
<1> SUFFICES ASSUME F # {}
             PROVE  FALSE
  OBVIOUS
<1>1. F \in SUBSET Nat
  OBVIOUS
<1> HIDE DEF F
<1>2. PICK x \in F : \A y \in F : x <= y
  BY <1>1, Least
<1>3. x \in 0..M /\ x \notin T
  BY DEF F
<1>4. x # 0 /\ x - 1 \in 0..(M - 1)
  BY <1>3
<1>5. x - 1 \in T
  BY <1>1, <1>2, <1>4 DEF F
<1>6. x - 1 + 1 = x
  BY <1>3
<1>7. QED
  BY <1>3, <1>4, <1>5, <1>6

\* A sequence of values from a, each computed from its place and the one before it.
Steps(S, M) == [(1..M) \X S -> S]
IsRun(g, S, a, M, f) ==
  g \in [0..M -> S] /\ g[0] = a /\ \A k \in 1..M : g[k] = f[<<k, g[k - 1]>>]

LEMMA Recursion ==
  ASSUME NEW S, NEW a, NEW M, NEW f, a \in S, M \in Nat, f \in Steps(S, M)
  PROVE  \E g : IsRun(g, S, a, M, f)
<1> DEFINE G(m) == {g \in [0..m -> S] : g[0] = a /\ \A k \in 1..m : g[k] = f[<<k, g[k - 1]>>]}
           T == {m \in 0..M : G(m) # {}}
<1>0. f \in [(1..M) \X S -> S]
  BY DEF Steps
<1>1. 0 \in T
  <2>1. [k \in 0..0 |-> a] \in G(0)
    OBVIOUS
  <2>2. 0 \in 0..M
    OBVIOUS
  <2> HIDE DEF G
  <2>3. QED
    BY <2>1, <2>2
<1>2. ASSUME NEW m \in 0..(M - 1), m \in T
      PROVE  m + 1 \in T
  <2>1. PICK g \in [0..m -> S] : g[0] = a /\ \A k \in 1..m : g[k] = f[<<k, g[k - 1]>>]
    BY <1>2
  <2> DEFINE b == f[<<m + 1, g[m]>>]
             h == [k \in 0..(m + 1) |-> IF k = m + 1 THEN b ELSE g[k]]
  <2>2. m \in Nat /\ m + 1 \in 1..M /\ m \in 0..m /\ m + 1 \in 0..M
    OBVIOUS
  <2>3. g[m] \in S /\ b \in S
    BY <1>0, <2>2
  <2> HIDE DEF b
  <2>4. h \in [0..(m + 1) -> S] /\ h[0] = a
    <3>1. \A k \in 0..(m + 1) : k = m + 1 \/ k \in 0..m
      BY <2>2
    <3>2. 0 \in 0..(m + 1) /\ 0 # m + 1
      BY <2>2
    <3>3. QED
      BY <2>1, <2>3, <3>1, <3>2
  <2>5. ASSUME NEW k \in 1..(m + 1)
        PROVE  h[k] = f[<<k, h[k - 1]>>]
    <3>1. CASE k = m + 1
      <4>1. h[k] = b /\ h[k - 1] = g[m]
        BY <2>2, <3>1
      <4>2. QED
        BY <3>1, <4>1 DEF b
    <3>2. CASE k # m + 1
      <4>1. k \in 1..m /\ k - 1 \in 0..m
        BY <2>2, <3>2
      <4>2. h[k] = g[k] /\ h[k - 1] = g[k - 1]
        BY <2>2, <4>1
      <4>3. QED
        BY <2>1, <4>1, <4>2
    <3>3. QED
      BY <3>1, <3>2
  <2>6. h \in G(m + 1)
    BY <2>4, <2>5
  <2>7. QED
    BY <2>2, <2>6
<1>3. 0..M \subseteq T
  <2> HIDE DEF T
  <2>1. QED
    BY <1>1, <1>2, UpTo
<1>4. M \in T
  <2> HIDE DEF T
  <2>1. QED
    BY <1>3
<1>5. QED
  BY <1>4 DEF IsRun

(* Functions on things that have a depth, each value computed from those   *)
(* of less deep things.                                                    *)
Known(g, T, D, d, F, n) == \A t \in T : d[t] < n => g[t] = F[<<t, g>>]
Deepens(T, D, d, F) ==
  \A t \in T, g, h \in [T -> D] :
    (\A x \in T : d[x] < d[t] => g[x] = h[x]) => F[<<t, g>>] = F[<<t, h>>]

LEMMA DepthAgrees ==
  ASSUME NEW T, NEW D, NEW d \in [T -> Nat], NEW F, Deepens(T, D, d, F),
         NEW n \in Nat, NEW g \in [T -> D], Known(g, T, D, d, F, n),
         NEW m \in Nat, NEW h \in [T -> D], Known(h, T, D, d, F, m)
  PROVE  \A t \in T : d[t] < n /\ d[t] < m => g[t] = h[t]
<1> DEFINE Bad == {d[t] : t \in {x \in T : d[x] < n /\ d[x] < m /\ g[x] # h[x]}}
<1> SUFFICES ASSUME Bad # {} PROVE FALSE OBVIOUS
<1>1. Bad \in SUBSET Nat OBVIOUS
<1> HIDE DEF Bad
<1>2. PICK k \in Bad : \A y \in Bad : k <= y BY <1>1, Least
<1>3. PICK t \in T : d[t] = k /\ d[t] < n /\ d[t] < m /\ g[t] # h[t] BY <1>2 DEF Bad
<1>4. ASSUME NEW x \in T, d[x] < d[t] PROVE g[x] = h[x]
  <2> SUFFICES ASSUME g[x] # h[x] PROVE FALSE OBVIOUS
  <2>1. d[x] \in Nat /\ d[t] \in Nat OBVIOUS
  <2>2. d[x] < n /\ d[x] < m BY <1>3, <1>4, <2>1
  <2>3. d[x] \in Bad BY <2>2 DEF Bad
  <2> QED BY <1>2, <1>3, <1>4, <2>1, <2>3
<1>5. F[<<t, g>>] = F[<<t, h>>] BY <1>4 DEF Deepens
<1>6. g[t] = F[<<t, g>>] /\ h[t] = F[<<t, h>>] BY <1>3 DEF Known
<1> QED BY <1>3, <1>5, <1>6

DeepStep(T, D, d, F) ==
  D # {} /\ d \in [T -> Nat] /\ F \in [T \X [T -> D] -> D] /\ Deepens(T, D, d, F)
DeepRun(f, T, D, F) == f \in [T -> D] /\ \A t \in T : f[t] = F[<<t, f>>]

LEMMA DepthRecursion ==
  ASSUME NEW T, NEW D, NEW d, NEW F, DeepStep(T, D, d, F)
  PROVE  \E f : DeepRun(f, T, D, F)
<1>0. D # {} /\ d \in [T -> Nat] /\ F \in [T \X [T -> D] -> D] /\ Deepens(T, D, d, F) BY DEF DeepStep
<1> DEFINE G(n) == {g \in [T -> D] : Known(g, T, D, d, F, n)}
<1>1. ASSUME NEW M \in Nat PROVE G(M) # {}
  <2> DEFINE U == {m \in 0 .. M : G(m) # {}}
  <2>1. 0 \in U
    <3>1. PICK x \in D : TRUE BY <1>0
    <3>2. [t \in T |-> x] \in G(0) BY <1>0 DEF Known
    <3> QED BY <3>2
  <2>2. ASSUME NEW m \in 0 .. M - 1, m \in U PROVE m + 1 \in U
    <3>1. PICK g \in [T -> D] : Known(g, T, D, d, F, m) BY <2>2
    <3> DEFINE h == [t \in T |-> IF d[t] < m THEN g[t] ELSE F[<<t, g>>]]
    <3>2. h \in [T -> D] BY <1>0
    <3>3. ASSUME NEW t \in T, d[t] < m + 1 PROVE h[t] = F[<<t, h>>]
      <4>1. d[t] \in Nat /\ m \in Nat /\ \A x \in T : d[x] \in Nat BY <1>0
      <4>2. \A x \in T : d[x] < d[t] => g[x] = h[x] BY <3>3, <4>1
      <4> HIDE DEF h
      <4>3. F[<<t, g>>] = F[<<t, h>>] BY <1>0, <3>2, <4>2 DEF Deepens
      <4>4. h[t] = F[<<t, g>>]
        <5>1. CASE d[t] < m BY <3>1, <5>1 DEF h, Known
        <5>2. CASE ~(d[t] < m) BY <5>2 DEF h
        <5> QED BY <5>1, <5>2
      <4> QED BY <4>3, <4>4
    <3> HIDE DEF h
    <3>4. h \in G(m + 1) BY <3>2, <3>3 DEF Known
    <3> QED BY <3>4
  <2> HIDE DEF U
  <2>3. 0 .. M \subseteq U BY <2>1, <2>2, UpTo
  <2> QED BY <2>3 DEF U
<1> DEFINE c == [t \in T |-> CHOOSE g : g \in G(d[t] + 1)]
           f == [t \in T |-> c[t][t]]
<1>2. ASSUME NEW t \in T PROVE c[t] \in [T -> D] /\ Known(c[t], T, D, d, F, d[t] + 1)
  <2>1. d[t] + 1 \in Nat BY <1>0
  <2>2. G(d[t] + 1) # {} BY <1>1, <2>1
  <2>3. c[t] \in G(d[t] + 1)
    <3> HIDE DEF G
    <3> QED BY <2>2
  <2> QED BY <2>3
<1> HIDE DEF c
<1>3. f \in [T -> D] BY <1>2
<1>4. ASSUME NEW t \in T PROVE f[t] = F[<<t, f>>]
  <2>1. ASSUME NEW x \in T, d[x] < d[t] PROVE f[x] = c[t][x]
    <3>1. d[x] \in Nat /\ d[t] \in Nat /\ d[x] < d[x] + 1 /\ d[x] < d[t] + 1 BY <1>0, <2>1
    <3>2. c[x][x] = c[t][x] BY <1>0, <1>2, <3>1, DepthAgrees
    <3> QED BY <3>2
  <2>2. d[t] < d[t] + 1 BY <1>0
  <2>3. c[t][t] = F[<<t, c[t]>>] BY <1>2, <2>2 DEF Known
  <2> HIDE DEF f
  <2>4. F[<<t, c[t]>>] = F[<<t, f>>]
    <3>1. \A x \in T : d[x] < d[t] => c[t][x] = f[x] BY <2>1
    <3> QED BY <1>0, <1>2, <1>3, <3>1 DEF Deepens
  <2> QED BY <2>3, <2>4 DEF f
<1> QED BY <1>3, <1>4 DEF DeepRun

(* What holds of a thing when it holds of all less deep ones.              *)
LEMMA DepthInduction ==
  ASSUME NEW T, NEW d \in [T -> Nat], NEW A,
         \A t \in T : (\A x \in T : d[x] < d[t] => x \in A) => t \in A
  PROVE  T \subseteq A
<1> DEFINE Bad == {d[t] : t \in T \ A}
<1> SUFFICES ASSUME Bad # {} PROVE FALSE OBVIOUS
<1>1. Bad \in SUBSET Nat OBVIOUS
<1> HIDE DEF Bad
<1>2. PICK k \in Bad : \A y \in Bad : k <= y BY <1>1, Least
<1>3. PICK t \in T \ A : d[t] = k BY <1>2 DEF Bad
<1>4. ASSUME NEW x \in T, d[x] < d[t] PROVE x \in A
  <2> SUFFICES ASSUME x \notin A PROVE FALSE OBVIOUS
  <2>1. d[x] \in Bad BY DEF Bad
  <2> QED BY <1>2, <1>3, <1>4, <2>1
<1> QED BY <1>3, <1>4
===============================================================================
