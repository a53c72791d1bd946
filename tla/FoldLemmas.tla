------------------------------ MODULE FoldLemmas ------------------------------
(***************************************************************************)
(* Induction over data. The induction theorems of the library take a       *)
(* predicate as a parameter, which none of the provers can be given; here  *)
(* induction is a fact about sets of numbers, from the minimum of a        *)
(* well-founded relation (WFMin), and a recursion is one over the          *)
(* iterates of a step function. FoldLeft of a sequence is the case in      *)
(* which the iterates are those of the positions of the sequence.          *)
(***************************************************************************)
EXTENDS SequencesExt, SequenceTheorems, WellFoundedInduction, TLAPS

\* A nonempty set of numbers has a least one.
LEMMA LeastNatural ==
  ASSUME NEW S \in SUBSET Nat, S # {}
  PROVE  \E m \in S : \A n \in S : m <= n
<1>1. PICK m \in S : \A n \in S : ~(<<n, m>> \in OpToRel(<, Nat)) BY NatLessThanWellFounded, WFMin
<1>2. \A n \in S : ~(n < m) BY <1>1 DEF OpToRel
<1> QED BY <1>2

\* Bounded sets of positions have a first and a last element.
LEMMA FirstAndLast ==
  ASSUME NEW n \in Nat, NEW S \in SUBSET (0..n), S # {}
  PROVE  /\ Min(S) \in S /\ \A x \in S : Min(S) <= x
         /\ Max(S) \in S /\ \A x \in S : Max(S) >= x
<1>1. \E m \in S : \A x \in S : m <= x
  <2>1. S \in SUBSET Nat OBVIOUS
  <2> QED BY <2>1, LeastNatural
<1>2. \E m \in S : \A x \in S : m >= x
  <2> DEFINE T == {k \in 0..n : n - k \in S}
  <2>1. T \in SUBSET Nat OBVIOUS
  <2>2. T # {}
    <3>1. PICK x \in S : TRUE OBVIOUS
    <3>2. n - x \in 0..n /\ n - (n - x) = x OBVIOUS
    <3> QED BY <3>2
  <2>3. PICK k \in T : \A j \in T : k <= j
    <3> HIDE DEF T
    <3> QED BY <2>1, <2>2, LeastNatural
  <2>4. \A j \in T : ~(j < k) BY <2>1, <2>3
  <2>5. ASSUME NEW x \in S PROVE n - k >= x
    <3>1. n - x \in 0..n /\ n - (n - x) = x OBVIOUS
    <3>2. n - x \in T BY <3>1
    <3>3. ~(n - x < k) BY <2>4, <3>2
    <3> QED BY <3>1, <3>3
  <2> QED BY <2>5
<1> QED BY <1>1, <1>2 DEF Min, Max

\* Induction up to a number.
LEMMA InductionUpTo ==
  ASSUME NEW N \in Nat, NEW H, 0 \in H, \A n \in 0..(N - 1) : n \in H => n + 1 \in H
  PROVE  \A n \in 0..N : n \in H
<1> SUFFICES ASSUME NEW z \in 0..N, z \notin H PROVE FALSE OBVIOUS
<1> DEFINE S == {n \in 0..N : n \notin H}
<1>1. S \in SUBSET Nat /\ S # {} OBVIOUS
<1>2. PICK m \in S : \A n \in S : m <= n
  <2> HIDE DEF S
  <2> QED BY <1>1, LeastNatural
<1>3. m # 0 /\ m - 1 \in 0..(N - 1) /\ m - 1 + 1 = m OBVIOUS
<1>4. m - 1 \notin S BY <1>2, <1>3
<1> QED BY <1>3, <1>4

\* What a fold computes on the way: the iterates of a step function, one for each set of
\* positions, the last of which is applied last.
Iterates(h, N, T, b, G) ==
  /\ h \in [SUBSET (1..N) -> T] /\ h[{}] = b
  /\ \A s \in SUBSET (1..N) : s # {} => h[s] = G[<<h[s \ {Max(s)}], Max(s)>>]

\* Every step function has its iterates.
LEMMA FoldIterates ==
  ASSUME NEW N \in Nat, NEW T, NEW b \in T, NEW G \in [T \X (1..N) -> T]
  PROVE  \E h : Iterates(h, N, T, b, G)
<1> DEFINE Folds(h, n) ==
             /\ h \in [SUBSET (1..n) -> T] /\ h[{}] = b
             /\ \A s \in SUBSET (1..n) : s # {} => h[s] = G[<<h[s \ {Max(s)}], Max(s)>>]
           H == {n \in 0..N : \E h : Folds(h, n)}
<1>1. \E h : Folds(h, 0)
  <2> DEFINE h == [s \in SUBSET (1..0) |-> b]
  <2>1. 1..0 = {} OBVIOUS
  <2>2. h \in [SUBSET (1..0) -> T] /\ h[{}] = b OBVIOUS
  <2>3. \A s \in SUBSET (1..0) : s = {} BY <2>1
  <2> HIDE DEF h
  <2> QED BY <2>2, <2>3
<1>2. ASSUME NEW n \in 0..(N - 1), NEW h, Folds(h, n) PROVE \E g : Folds(g, n + 1)
  <2> DEFINE m == n + 1
             g == [s \in SUBSET (1..m) |-> IF m \in s THEN G[<<h[s \ {m}], m>>] ELSE h[s]]
  <2>1. m \in 1..N /\ n \in Nat OBVIOUS
  <2>2. \A s \in SUBSET (1..m) : s \ {m} \in SUBSET (1..n) /\ (m \notin s => s \in SUBSET (1..n)) OBVIOUS
  <2>3. \A s \in SUBSET (1..m) : h[s \ {m}] \in T BY <1>2, <2>2
  <2>4. g \in [SUBSET (1..m) -> T] BY <1>2, <2>1, <2>2, <2>3
  <2>5. g[{}] = b BY <1>2
  <2>6. ASSUME NEW s \in SUBSET (1..m), s # {} PROVE g[s] = G[<<g[s \ {Max(s)}], Max(s)>>]
    <3>1. Max(s) \in s /\ \A x \in s : Max(s) >= x
      <4>1. s \in SUBSET (0..m) /\ m \in Nat OBVIOUS
      <4> QED BY <2>6, <4>1, FirstAndLast
    <3>2. CASE m \in s
      <4>1. Max(s) \in 1..m /\ Max(s) >= m BY <3>1, <3>2
      <4>2. Max(s) = m BY <4>1
      <4>3. g[s \ {m}] = h[s \ {m}] /\ g[s] = G[<<h[s \ {m}], m>>] BY <3>2
      <4> QED BY <4>2, <4>3
    <3>3. CASE m \notin s
      <4>1. s \in SUBSET (1..n) /\ s \ {Max(s)} \in SUBSET (1..n) /\ s \ {Max(s)} \in SUBSET (1..m) BY <2>2, <3>3
      <4>2. h[s] = G[<<h[s \ {Max(s)}], Max(s)>>] BY <1>2, <2>6, <4>1
      <4>3. g[s] = h[s] /\ g[s \ {Max(s)}] = h[s \ {Max(s)}] BY <3>3, <4>1
      <4> QED BY <4>2, <4>3
    <3> QED BY <3>2, <3>3
  <2> HIDE DEF g
  <2>7. Folds(g, m) BY <2>4, <2>5, <2>6
  <2> QED BY <2>7
<1>3. N \in H
  <2> HIDE DEF Folds
  <2>1. 0 \in H BY <1>1
  <2>2. \A n \in 0..(N - 1) : n \in H => n + 1 \in H BY <1>2
  <2> HIDE DEF H
  <2> QED BY <2>1, <2>2, InductionUpTo
<1> QED BY <1>3 DEF Iterates

\* The first positions of a sequence, without the last of them.
LEMMA Initials ==
  ASSUME NEW n \in Nat \ {0}
  PROVE  1..n # {} /\ Max(1..n) = n /\ (1..n) \ {n} = 1..(n - 1)
<1>1. 1..n \in SUBSET (0..n) /\ 1..n # {} OBVIOUS
<1>2. Max(1..n) \in 1..n /\ \A x \in 1..n : Max(1..n) >= x BY <1>1, FirstAndLast
<1>3. (1..n) \ {n} = 1..(n - 1) OBVIOUS
<1> QED BY <1>1, <1>2, <1>3

\* The iterates by position: f[n] is what the first n have made of the base, all of them v.
Stepwise(f, N, T, b, G, v) ==
  /\ f \in [0..N -> T] /\ f[0] = b /\ f[N] = v
  /\ \A n \in 1..N : f[n] = G[<<f[n - 1], n>>]

\* As MapThenFoldSet recurs to its value v, wherever what it has made is of the type of the base.
Recurs(h, N, T, b, G, v) ==
  /\ h[{}] = b /\ h[1..N] = v
  /\ \A s \in SUBSET (1..N) : s # {} /\ h[s \ {Max(s)}] \in T => h[s] = G[<<h[s \ {Max(s)}], Max(s)>>]

\* The recursion of FoldLeft, over the sets of positions, is one over the positions.
LEMMA FoldSteps ==
  ASSUME NEW N \in Nat, NEW T, NEW b \in T, NEW G \in [T \X (1..N) -> T], NEW h, NEW v,
         Recurs(h, N, T, b, G, v)
  PROVE  \E f : Stepwise(f, N, T, b, G, v)
<1> DEFINE f == [n \in 0..N |-> h[1..n]]
<1>1. 1..0 = {} OBVIOUS
<1>2. f[0] = b /\ f[N] = v BY <1>1 DEF Recurs
<1>3. \A n \in 1..N : f[n - 1] \in T => f[n] = G[<<f[n - 1], n>>]
  <2> SUFFICES ASSUME NEW n \in 1..N, f[n - 1] \in T PROVE f[n] = G[<<f[n - 1], n>>] OBVIOUS
  <2>1. n \in Nat \ {0} /\ n - 1 \in 0..N /\ n \in 0..N OBVIOUS
  <2>2. 1..n # {} /\ Max(1..n) = n /\ (1..n) \ {n} = 1..(n - 1) BY <2>1, Initials
  <2>3. f[n - 1] = h[1..(n - 1)] /\ f[n] = h[1..n] BY <2>1
  <2>4. 1..n \in SUBSET (1..N) OBVIOUS
  <2> HIDE DEF f
  <2> QED BY <2>2, <2>3, <2>4 DEF Recurs
<1>4. \A n \in 0..N : f[n] \in T
  <2> DEFINE H == {n \in 0..N : f[n] \in T}
  <2> HIDE DEF f
  <2>1. 0 \in H BY <1>2
  <2>2. ASSUME NEW n \in 0..(N - 1), n \in H PROVE n + 1 \in H
    <3>1. n + 1 \in 1..N /\ n + 1 \in 0..N /\ (n + 1) - 1 = n OBVIOUS
    <3>2. f[n + 1] = G[<<f[n], n + 1>>] /\ f[n] \in T BY <1>3, <2>2, <3>1
    <3> QED BY <3>1, <3>2
  <2>3. \A n \in 0..N : n \in H
    <3> HIDE DEF H
    <3> QED BY <2>1, <2>2, InductionUpTo
  <2> QED BY <2>3
<1>5. f \in [0..N -> T] BY <1>4
<1>6. \A n \in 1..N : f[n] = G[<<f[n - 1], n>>]
  <2> HIDE DEF f
  <2>1. \A n \in 1..N : n - 1 \in 0..N OBVIOUS
  <2> QED BY <1>3, <1>4, <2>1
<1> HIDE DEF f
<1> QED BY <1>2, <1>5, <1>6 DEF Stepwise
\* A stretch of a sequence, the empty ones included.
LEMMA SubSeqIs ==
  ASSUME NEW S, NEW s \in Seq(S), NEW a \in Nat \ {0}, NEW b \in Nat, b <= Len(s), a <= b + 1
  PROVE  /\ SubSeq(s, a, b) \in Seq(S) /\ Len(SubSeq(s, a, b)) = b + 1 - a
         /\ \A i \in 1..(b + 1 - a) : SubSeq(s, a, b)[i] = s[a + i - 1]
<1>1. SubSeq(s, a, b) \in Seq(S) BY Z3
<1>2. Len(SubSeq(s, a, b)) = b + 1 - a
  <2>1. CASE a <= b BY <2>1
  <2>2. CASE a = b + 1
    <3>1. SubSeq(s, a, b) = <<>> BY <2>2, SubSeqEmpty
    <3> QED BY <2>2, <3>1
  <2> QED BY <2>1, <2>2
<1>3. \A i \in 1..(b + 1 - a) : SubSeq(s, a, b)[i] = s[a + i - 1] OBVIOUS
<1> QED BY <1>1, <1>2, <1>3

\* A recursion that jumps forward until it stops: its value is where it stops.
Jumps(f, N, Stop, nxt) == f = [k \in 1..N |-> IF k \in Stop THEN k ELSE f[nxt[k]]]

Forward(N, Stop, nxt) == \A k \in 1..N : k \notin Stop => nxt[k] \in 1..N /\ nxt[k] > k

\* There is such a recursion.
LEMMA JumpsExist ==
  ASSUME NEW N \in Nat, NEW Stop, NEW nxt, Forward(N, Stop, nxt)
  PROVE  \E f : Jumps(f, N, Stop, nxt)
<1> DEFINE Part(f, n) == f = [k \in (N + 1 - n)..N |-> IF k \in Stop THEN k ELSE f[nxt[k]]]
           H == {n \in 0..N : \E f : Part(f, n)}
<1>1. \E f : Part(f, 0)
  <2> DEFINE f == [k \in (N + 1 - 0)..N |-> k]
  <2>1. (N + 1 - 0)..N = {} OBVIOUS
  <2>2. f = [k \in (N + 1 - 0)..N |-> IF k \in Stop THEN k ELSE f[nxt[k]]] BY <2>1
  <2> QED BY <2>2
<1>2. ASSUME NEW n \in 0..(N - 1), NEW f, Part(f, n) PROVE \E g : Part(g, n + 1)
  <2> DEFINE k0 == N - n
             g == [k \in k0..N |-> IF k = k0 THEN (IF k0 \in Stop THEN k0 ELSE f[nxt[k0]]) ELSE f[k]]
  <2>1. k0 \in 1..N /\ N + 1 - n = k0 + 1 /\ N + 1 - (n + 1) = k0 OBVIOUS
  <2>2. \A k \in k0..N : k = k0 \/ k \in (k0 + 1)..N OBVIOUS
  <2>3. \A k \in (k0 + 1)..N : f[k] = IF k \in Stop THEN k ELSE f[nxt[k]]
    <3> HIDE DEF k0
    <3>1. f = [k \in (k0 + 1)..N |-> IF k \in Stop THEN k ELSE f[nxt[k]]] BY <1>2, <2>1
    <3> QED BY <3>1
  <2>4. \A k \in k0..N : k \notin Stop => nxt[k] \in k0..N /\ nxt[k] > k0
    <3> HIDE DEF k0
    <3>1. \A k \in k0..N : k \in 1..N /\ k \in Nat BY <2>1
    <3> QED BY <2>1, <3>1 DEF Forward
  <2>5. \A j \in k0..N : j > k0 => g[j] = f[j] BY <2>1
  <2>6. \A k \in k0..N : g[k] = IF k \in Stop THEN k ELSE g[nxt[k]]
    <3> SUFFICES ASSUME NEW k \in k0..N PROVE g[k] = IF k \in Stop THEN k ELSE g[nxt[k]] OBVIOUS
    <3>1. k \notin Stop => g[nxt[k]] = f[nxt[k]] BY <2>4, <2>5
    <3>2. CASE k = k0 BY <3>1, <3>2
    <3>3. CASE k # k0
      <4>1. k \in (k0 + 1)..N BY <2>2, <3>3
      <4>2. g[k] = f[k] BY <3>3
      <4> HIDE DEF g, k0
      <4> QED BY <2>3, <3>1, <4>1, <4>2
    <3> QED BY <3>2, <3>3
  <2>7. g = [k \in k0..N |-> IF k \in Stop THEN k ELSE g[nxt[k]]]
    <3>1. g = [k \in k0..N |-> g[k]] OBVIOUS
    <3> HIDE DEF g, k0
    <3> QED BY <2>6, <3>1
  <2>8. Part(g, n + 1)
    <3> HIDE DEF g, k0
    <3> QED BY <2>1, <2>7
  <2> QED BY <2>8
<1>3. N \in H
  <2> HIDE DEF Part
  <2>1. 0 \in H BY <1>1
  <2>2. \A n \in 0..(N - 1) : n \in H => n + 1 \in H BY <1>2
  <2> HIDE DEF H
  <2> QED BY <2>1, <2>2, InductionUpTo
<1>4. PICK f : Part(f, N) BY <1>3
<1>5. N + 1 - N = 1 OBVIOUS
<1>6. f = [k \in 1..N |-> IF k \in Stop THEN k ELSE f[nxt[k]]] BY <1>4, <1>5
<1> QED BY <1>6 DEF Jumps

\* Where it stops: at a stop, which is where it began or one jump from where it does not stop.
LEMMA JumpsStop ==
  ASSUME NEW N \in Nat, NEW Stop, NEW nxt, Forward(N, Stop, nxt), NEW f, Jumps(f, N, Stop, nxt)
  PROVE  \A k \in 1..N : /\ f[k] \in Stop /\ f[k] \in 1..N /\ f[k] >= k
                         /\ f[k] = k \/ \E j \in 1..N : j >= k /\ j \notin Stop /\ f[k] = nxt[j]
<1> DEFINE Fine(k) == /\ f[k] \in Stop /\ f[k] \in 1..N /\ f[k] >= k
                      /\ f[k] = k \/ \E j \in 1..N : j >= k /\ j \notin Stop /\ f[k] = nxt[j]
           H == {n \in 0..N : \A k \in (N + 1 - n)..N : Fine(k)}
<1>1. 0 \in H
  <2>1. (N + 1 - 0)..N = {} OBVIOUS
  <2> QED BY <2>1
<1>2. ASSUME NEW n \in 0..(N - 1), n \in H PROVE n + 1 \in H
  <2> DEFINE k0 == N - n
  <2>1. k0 \in 1..N /\ N + 1 - n = k0 + 1 /\ N + 1 - (n + 1) = k0 /\ n + 1 \in 0..N OBVIOUS
  <2>2. \A k \in k0..N : k = k0 \/ k \in (k0 + 1)..N OBVIOUS
  <2>3. \A k \in (k0 + 1)..N : Fine(k) BY <1>2, <2>1
  <2> HIDE DEF k0
  <2>4. f[k0] = IF k0 \in Stop THEN k0 ELSE f[nxt[k0]]
    <3>1. f = [k \in 1..N |-> IF k \in Stop THEN k ELSE f[nxt[k]]] BY DEF Jumps
    <3> QED BY <2>1, <3>1
  <2>5. Fine(k0)
    <3>1. CASE k0 \in Stop BY <2>1, <2>4, <3>1
    <3>2. CASE k0 \notin Stop
      <4>1. nxt[k0] \in 1..N /\ nxt[k0] > k0 BY <2>1, <3>2 DEF Forward
      <4>2. nxt[k0] \in (k0 + 1)..N BY <2>1, <4>1
      <4>3. Fine(nxt[k0]) /\ f[k0] = f[nxt[k0]] BY <2>3, <2>4, <3>2, <4>2
      <4>4. f[k0] \in Stop /\ f[k0] \in 1..N /\ f[k0] >= k0 BY <2>1, <4>1, <4>3
      <4>5. \E j \in 1..N : j >= k0 /\ j \notin Stop /\ f[k0] = nxt[j]
        <5>1. CASE f[nxt[k0]] = nxt[k0] BY <2>1, <3>2, <4>3, <5>1
        <5>2. CASE f[nxt[k0]] # nxt[k0]
          <6>1. PICK j \in 1..N : j >= nxt[k0] /\ j \notin Stop /\ f[nxt[k0]] = nxt[j] BY <4>3, <5>2
          <6>2. j >= k0 BY <2>1, <4>1, <6>1
          <6> QED BY <4>3, <6>1, <6>2
        <5> QED BY <5>1, <5>2
      <4> QED BY <4>4, <4>5
    <3> QED BY <3>1, <3>2
  <2> HIDE DEF Fine
  <2>6. \A k \in k0..N : Fine(k) BY <2>2, <2>3, <2>5
  <2> QED BY <2>1, <2>6
<1>3. N \in H
  <2>1. N \in 0..N OBVIOUS
  <2> HIDE DEF H
  <2>2. \A n \in 0..N : n \in H BY <1>1, <1>2, InductionUpTo
  <2> QED BY <2>1, <2>2
<1>4. N + 1 - N = 1 OBVIOUS
<1> QED BY <1>3, <1>4
=============================================================================
