----------------------------- MODULE FoldTheorems -----------------------------
(***************************************************************************)
(* Induction over the natural numbers for a set in place of a predicate,   *)
(* and that the recursive function behind a fold of the community modules  *)
(* exists and takes one step per element.                                  *)
(***************************************************************************)
EXTENDS Integers, SequencesExt, FiniteSetTheorems, SequenceTheorems, TLAPS

\* A set that contains 0 and with each number the next contains all of them:
\* were n missing, its predecessors would be missing too, and taking the
\* predecessor would map the missing ones up to n injectively, hence onto
\* themselves, and n + 1 would be one of them.
THEOREM SetInduction ==
  ASSUME NEW S, 0 \in S, \A n \in Nat : n \in S => n + 1 \in S
  PROVE  Nat \subseteq S
<1>. SUFFICES ASSUME NEW n \in Nat, n \notin S PROVE FALSE
  OBVIOUS
<1>. DEFINE T == {m \in 0 .. n : m \notin S}
            f == [m \in T |-> m - 1]
<1>1. IsFiniteSet(T)
  <2>1. T \in SUBSET (0 .. n)
    OBVIOUS
  <2>2. IsFiniteSet(0 .. n)
    BY FS_Interval
  <2>. HIDE DEF T
  <2>. QED  BY <2>1, <2>2, FS_Subset
<1>2. ASSUME NEW m \in T PROVE m - 1 \in T
  <2>1. m \in Nat /\ m # 0 /\ m <= n
    OBVIOUS
  <2>2. m - 1 \in Nat /\ m - 1 + 1 = m
    BY <2>1
  <2>. QED  BY <2>1, <2>2
<1>3. f \in Injection(T, T)
  BY <1>2 DEF Injection, IsInjective
<1>. HIDE DEF f
<1>4. f \in Surjection(T, T)
  BY <1>1, <1>3, FS_Injection
<1>5. PICK m \in T : f[m] = n
  BY <1>4 DEF Surjection
<1>. QED  BY <1>5 DEF f

\* The same below a bound.
THEOREM IntervalInduction ==
  ASSUME NEW N \in Nat, NEW S, 0 \in S, \A k \in 1 .. N : k - 1 \in S => k \in S
  PROVE  0 .. N \subseteq S
<1>. DEFINE T == {k \in Nat : k <= N => k \in S}
<1>1. ASSUME NEW k \in Nat, k \in T PROVE k + 1 \in T
  <2>. SUFFICES ASSUME k + 1 <= N PROVE k + 1 \in S
    OBVIOUS
  <2>1. k + 1 \in 1 .. N /\ (k + 1) - 1 = k /\ k \in S
    BY <1>1
  <2>. QED  BY <2>1
<1>2. 0 \in T
  OBVIOUS
<1>. HIDE DEF T
<1>3. Nat \subseteq T
  BY <1>1, <1>2, SetInduction
<1>. QED  BY <1>3 DEF T

\* The same for sequences: all of them are made by appending to the empty one.
THEOREM SequenceInduction ==
  ASSUME NEW X, NEW T, <<>> \in T,
         \A s \in Seq(X) : s \in T => \A x \in X : Append(s, x) \in T
  PROVE  Seq(X) \subseteq T
<1>. DEFINE S == {n \in Nat : \A s \in Seq(X) : Len(s) = n => s \in T}
<1>1. 0 \in S
  OBVIOUS
<1>2. ASSUME NEW n \in Nat, n \in S PROVE n + 1 \in S
  <2>. SUFFICES ASSUME NEW s \in Seq(X), Len(s) = n + 1 PROVE s \in T
    OBVIOUS
  <2>1. s # <<>>
    OBVIOUS
  <2>2. PICK r \in Seq(X), x \in X : s = Append(r, x)
    BY <2>1, SequenceEmptyOrAppend
  <2>3. Len(r) = n
    BY <2>2, AppendProperties
  <2>. QED  BY <1>2, <2>2, <2>3
<1>. HIDE DEF S
<1>3. Nat \subseteq S
  BY <1>1, <1>2, SetInduction
<1>. QED  BY <1>3, LenProperties DEF S

\* Every set of numbers that has an element has a least one.
THEOREM LeastExists ==
  ASSUME NEW S \in SUBSET Nat, S # {}
  PROVE  \E m \in S : \A n \in S : m <= n
<1>. DEFINE T == {k \in Nat : \A m \in S : k <= m}
<1>. SUFFICES ASSUME \A m \in S : \E n \in S : ~(m <= n) PROVE FALSE
  OBVIOUS
<1>1. 0 \in T
  OBVIOUS
<1>2. ASSUME NEW k \in Nat, k \in T PROVE k + 1 \in T
  <2>. SUFFICES ASSUME NEW m \in S PROVE k + 1 <= m
    OBVIOUS
  <2>1. k <= m /\ m \in Nat
    BY <1>2
  <2>2. k # m
    BY <1>2
  <2>. QED  BY <2>1, <2>2
<1>. HIDE DEF T
<1>3. Nat \subseteq T
  BY <1>1, <1>2, SetInduction
<1>4. PICK m \in S : TRUE
  OBVIOUS
<1>5. m + 1 \in T
  BY <1>3, <1>4
<1>. QED  BY <1>4, <1>5 DEF T

\* f is defined by recursion over 0 .. N: it starts with base and takes step F[i].
IsRecursion(f, A, base, N, F) ==
    /\ f \in [0 .. N -> A]
    /\ f[0] = base
    /\ \A i \in 1 .. N : f[i] = F[i][f[i - 1]]

\* A function can be defined by recursion over 0 .. N, if its steps stay in a set.
THEOREM RecursionExists ==
  ASSUME NEW A, NEW base \in A, NEW N \in Nat, NEW F,
         \A i \in 1 .. N : \A a \in A : F[i][a] \in A
  PROVE  \E f : IsRecursion(f, A, base, N, F)
<1>. DEFINE Solves(k, f) == /\ f \in [0 .. k -> A] /\ f[0] = base
                            /\ \A i \in 1 .. k : f[i] = F[i][f[i - 1]]
            S == {k \in Nat : \E f : Solves(k, f)}
<1>1. 0 \in S
  <2>1. Solves(0, [i \in 0 .. 0 |-> base])
    OBVIOUS
  <2>. HIDE DEF Solves
  <2>. QED  BY <2>1
<1>2. ASSUME NEW k \in 1 .. N, k - 1 \in S PROVE k \in S
  <2>. HIDE DEF Solves
  <2>1. PICK f : Solves(k - 1, f)
    BY <1>2
  <2>. USE DEF Solves
  <2>. DEFINE g == [i \in 0 .. k |-> IF i = k THEN F[k][f[k - 1]] ELSE f[i]]
  <2>2. k - 1 \in 0 .. (k - 1) /\ F[k][f[k - 1]] \in A
    BY <2>1
  <2>3. g \in [0 .. k -> A] /\ g[0] = base
    BY <2>1, <2>2
  <2>4. ASSUME NEW i \in 1 .. k PROVE g[i] = F[i][g[i - 1]]
    <3>1. i - 1 \in 0 .. (k - 1) /\ i - 1 # k
      OBVIOUS
    <3>2. g[i - 1] = f[i - 1]
      BY <3>1
    <3>3. i # k => g[i] = f[i] /\ i \in 1 .. (k - 1)
      OBVIOUS
    <3>4. g[k] = F[k][f[k - 1]]
      OBVIOUS
    <3>. HIDE DEF g
    <3>. QED  BY <2>1, <3>2, <3>3, <3>4
  <2>. HIDE DEF g
  <2>5. Solves(k, g)
    BY <2>3, <2>4
  <2>. HIDE DEF Solves
  <2>. QED  BY <2>5
<1>. HIDE DEF S, Solves
<1>3. N \in S
  BY <1>1, <1>2, IntervalInduction
<1>4. PICK f : Solves(N, f)
  BY <1>3 DEF S
<1>. QED  BY <1>4 DEF Solves, IsRecursion

LEMMA MaxOfInterval ==
  ASSUME NEW n \in Nat, NEW s \in SUBSET (1 .. n + 1), n + 1 \in s
  PROVE  Max(s) = n + 1
<1>1. \A y \in s : n + 1 >= y
  OBVIOUS
<1>2. \A x \in s : (\A y \in s : x >= y) => x = n + 1
  OBVIOUS
<1>. QED  BY <1>1, <1>2, Zenon DEF Max

\* The steps of a fold over 1 .. N go from 1 .. k - 1 to 1 .. k.
LEMMA FoldDomains ==
  ASSUME NEW N \in Nat
  PROVE  /\ {} = 1 .. 0 /\ {} \in SUBSET (1 .. N)
         /\ \A k \in 1 .. N : /\ 1 .. k \in SUBSET (1 .. N) /\ 1 .. k # {}
                              /\ Max(1 .. k) = k
                              /\ (1 .. k) \ {k} = 1 .. (k - 1)
<1>1. {} = 1 .. 0
  OBVIOUS
<1>2. ASSUME NEW k \in 1 .. N
      PROVE  /\ 1 .. k \in SUBSET (1 .. N) /\ 1 .. k # {} /\ Max(1 .. k) = k
             /\ (1 .. k) \ {k} = 1 .. (k - 1)
  <2>1. k - 1 \in Nat /\ k - 1 + 1 = k /\ k \in 1 .. k
    OBVIOUS
  <2>2. Max(1 .. k) = k
    BY <2>1, MaxOfInterval
  <2>3. (1 .. k) \ {k} = 1 .. (k - 1)
    OBVIOUS
  <2>. QED  BY <2>1, <2>2, <2>3
<1>. QED  BY <1>1, <1>2

LEMMA MaxIsElement ==
  ASSUME NEW n \in Nat, NEW s \in SUBSET (1 .. n), s # {}
  PROVE  Max(s) \in s
<1>. DEFINE S == {m \in Nat : \A t \in SUBSET (1 .. m) : t # {} => Max(t) \in t}
<1>1. 0 \in S
  <2>1. 1 .. 0 = {}
    OBVIOUS
  <2>. QED  BY <2>1
<1>2. ASSUME NEW m \in Nat, m \in S PROVE m + 1 \in S
  <2>1. ASSUME NEW t \in SUBSET (1 .. m + 1), t # {} PROVE Max(t) \in t
    <3>1. CASE m + 1 \in t
      BY <3>1, MaxOfInterval
    <3>2. CASE m + 1 \notin t
      <4>1. t \in SUBSET (1 .. m)
        BY <3>2
      <4>. QED  BY <1>2, <2>1, <4>1
    <3>. QED  BY <3>1, <3>2
  <2>. QED  BY <2>1
<1>. HIDE DEF S
<1>3. n \in S
  BY <1>1, <1>2, SetInduction
<1>. QED  BY <1>3 DEF S

\* g is the function by which a fold over 1 .. N is defined that starts with
\* base and for element i takes step F[i]: what it yields for each subset.
IsFold(g, A, base, N, F) ==
    /\ g \in [SUBSET (1 .. N) -> A]
    /\ g[{}] = base
    /\ \A s \in (SUBSET (1 .. N)) \ {{}} : g[s] = F[Max(s)][g[s \ {Max(s)}]]

\* The function a fold over 1 .. N is defined by exists, if its steps stay in
\* a set: it is built for 1 .. n from that for 1 .. n - 1.
THEOREM FoldExists ==
  ASSUME NEW A, NEW base \in A, NEW N \in Nat, NEW F,
         \A i \in 1 .. N : \A a \in A : F[i][a] \in A
  PROVE  \E g : IsFold(g, A, base, N, F)
<1>. DEFINE Value(g, s) == IF s = {} THEN base ELSE F[Max(s)][g[s \ {Max(s)}]]
            Solves(n, g) == /\ g \in [SUBSET (1 .. n) -> A]
                            /\ \A s \in SUBSET (1 .. n) : g[s] = Value(g, s)
            S == {n \in Nat : n <= N => \E g : Solves(n, g)}
<1>1. 0 \in S
  <2>. DEFINE g == [s \in SUBSET (1 .. 0) |-> base]
  <2>1. \A s \in SUBSET (1 .. 0) : s = {}
    OBVIOUS
  <2>2. Solves(0, g)
    BY <2>1, Zenon
  <2>. HIDE DEF Solves
  <2>. QED  BY <2>2
<1>2. ASSUME NEW n \in Nat, n \in S PROVE n + 1 \in S
  <2>. HIDE DEF Solves
  <2>. SUFFICES ASSUME n + 1 <= N PROVE \E g : Solves(n + 1, g)
    OBVIOUS
  <2>1. PICK g : Solves(n, g)
    BY <1>2
  <2>. USE DEF Solves
  <2>. DEFINE h == [s \in SUBSET (1 .. n + 1) |->
                      IF n + 1 \in s THEN F[n + 1][g[s \ {n + 1}]] ELSE g[s]]
  <2>2. ASSUME NEW s \in SUBSET (1 .. n + 1)
        PROVE  h[s] \in A /\ h[s] = Value(h, s)
    <3>1. CASE n + 1 \in s
      <4>. DEFINE r == s \ {n + 1}
      <4>1. Max(s) = n + 1 /\ s # {}
        BY <3>1, MaxOfInterval
      <4>2. r \in SUBSET (1 .. n) /\ r \in SUBSET (1 .. n + 1) /\ n + 1 \notin r
        OBVIOUS
      <4>3. h[r] = g[r] /\ g[r] \in A
        BY <4>2, <2>1
      <4>4. h[s] = F[n + 1][g[r]]
        BY <3>1
      <4>5. F[n + 1][g[r]] \in A
        BY <4>3
      <4>. HIDE DEF h, r
      <4>6. Value(h, s) = F[n + 1][h[r]]
        BY <4>1 DEF r
      <4>. QED  BY <4>3, <4>4, <4>5, <4>6
    <3>2. CASE n + 1 \notin s
      <4>. DEFINE r == s \ {Max(s)}
      <4>1. s \in SUBSET (1 .. n)
        BY <3>2
      <4>2. h[s] = g[s] /\ g[s] \in A /\ g[s] = Value(g, s)
        BY <3>2, <4>1, <2>1
      <4>3. h[r] = g[r]
        <5>1. r \subseteq s
          OBVIOUS
        <5>2. r \in SUBSET (1 .. n + 1) /\ n + 1 \notin r
          BY <5>1, <3>2
        <5>. HIDE DEF r
        <5>. QED  BY <5>2
      <4>. HIDE DEF h, Solves
      <4>4. Value(h, s) = Value(g, s)
        BY <4>3
      <4>. QED  BY <4>2, <4>4
    <3>. QED  BY <3>1, <3>2
  <2>3. h = [s \in SUBSET (1 .. n + 1) |-> h[s]]
    OBVIOUS
  <2>. HIDE DEF h
  <2>4. Solves(n + 1, h)
    BY <2>2, <2>3
  <2>. HIDE DEF Solves
  <2>. QED  BY <2>4
<1>. HIDE DEF S, Solves
<1>3. N \in S
  BY <1>1, <1>2, SetInduction
<1>4. PICK g : Solves(N, g)
  BY <1>3 DEF S
<1>. QED  BY <1>4 DEF Solves, IsFold
===============================================================================
