-------------------------- MODULE SpanStoreProofs --------------------------
(***************************************************************************)
(* Theorems about SpanStore, for any batches, configurations and contents  *)
(* of the records: the pushes, the store, the answers of the queries, and  *)
(* the document model.                                                     *)
(***************************************************************************)
EXTENDS SpanStore, TLAPS, FiniteSetTheorems, SequenceTheorems, WellFoundedInduction

-----------------------------------------------------------------------------
(* Positions, and folds over them.                                         *)

\* A set of natural numbers that is not empty has a least element.
LEMMA LeastOf ==
  ASSUME NEW S \in SUBSET Nat, S # {}
  PROVE  \E m \in S : \A n \in S : m <= n
<1> DEFINE Below == {0 .. n : n \in S}
<1>1. Below \subseteq FiniteSubsetsOf(Nat) /\ Below # {}
  <2>1. ASSUME NEW n \in S PROVE IsFiniteSet(0 .. n) /\ 0 .. n \subseteq Nat
    BY FS_Interval
  <2> QED BY <2>1 DEF FiniteSubsetsOf
<1>2. PICK B \in Below : \A C \in Below : <<C, B>> \notin StrictSubsetOrdering(Nat)
  <2> HIDE DEF Below
  <2> QED BY <1>1, FS_StrictSubsetOrderingWellFounded, WFMin
<1>3. PICK m \in S : B = 0 .. m
  BY <1>2
<1>4. ASSUME NEW n \in S PROVE m <= n
  <2> SUFFICES ASSUME n < m PROVE FALSE
    OBVIOUS
  <2>1. 0 .. n \subseteq 0 .. m /\ 0 .. n # 0 .. m /\ 0 .. n \subseteq Nat /\ 0 .. m \subseteq Nat
    <3>1. m \in 0 .. m /\ m \notin 0 .. n
      OBVIOUS
    <3> QED BY <3>1
  <2>2. <<0 .. n, 0 .. m>> \in StrictSubsetOrdering(Nat)
    BY <2>1 DEF StrictSubsetOrdering
  <2> QED BY <1>2, <1>3, <2>2
<1> QED BY <1>4

\* A set of positions that is not empty has a greatest element.
LEMMA GreatestOf ==
  ASSUME NEW N \in Nat, NEW S \in SUBSET (1 .. N), S # {}
  PROVE  Max(S) \in S /\ \A n \in S : n <= Max(S)
<1>1. {N - n : n \in S} \in SUBSET Nat /\ {N - n : n \in S} # {}
  OBVIOUS
<1>2. PICK d \in {N - n : n \in S} : \A e \in {N - n : n \in S} : d <= e
  BY <1>1, LeastOf
<1>3. PICK m \in S : d = N - m
  BY <1>2
<1>4. ASSUME NEW n \in S PROVE m >= n
  <2>1. N - m <= N - n
    BY <1>2, <1>3
  <2> QED BY <2>1
<1>5. \A n \in S : Max(S) >= n
  BY <1>4 DEF Max
<1>6. Max(S) \in S
  BY <1>4 DEF Max
<1> QED BY <1>5, <1>6

\* Induction up to N.
LEMMA UpTo ==
  ASSUME NEW N \in Nat, NEW S, 0 \in S, \A n \in 1 .. N : n - 1 \in S => n \in S
  PROVE  \A n \in 0 .. N : n \in S
<1> DEFINE Bad == {n \in 0 .. N : n \notin S}
<1> SUFFICES ASSUME Bad # {} PROVE FALSE
  OBVIOUS
<1>1. PICK m \in Bad : \A n \in Bad : m <= n
  <2>1. Bad \in SUBSET Nat
    OBVIOUS
  <2> HIDE DEF Bad
  <2> QED BY <2>1, LeastOf
<1>2. m \in 0 .. N /\ m # 0
  OBVIOUS
<1>3. m \in 1 .. N /\ m - 1 \in 0 .. N /\ ~(m <= m - 1)
  BY <1>2
<1>4. m - 1 \notin Bad
  <2> HIDE DEF Bad
  <2> QED BY <1>1, <1>3
<1> QED BY <1>3, <1>4

\* The positions in order are all of them, each after those that are less.
LEMMA InOrderType ==
  ASSUME NEW S \in SUBSET Nat, IsFiniteSet(S)
  PROVE  /\ Cardinality(S) \in Nat
         /\ InOrder(S) \in [1 .. Cardinality(S) -> S]
         /\ Len(InOrder(S)) = Cardinality(S) /\ DOMAIN InOrder(S) = 1 .. Cardinality(S)
         /\ \A n \in 1 .. Cardinality(S) : Cardinality({j \in S : j < InOrder(S)[n]}) = n - 1
         /\ \A m, n \in 1 .. Cardinality(S) : m < n <=> InOrder(S)[m] < InOrder(S)[n]
         /\ \A m, n \in 1 .. Cardinality(S) : InOrder(S)[m] = InOrder(S)[n] => m = n
         /\ \A i \in S : \E n \in 1 .. Cardinality(S) : InOrder(S)[n] = i
<1> DEFINE C == Cardinality(S)
           Below(n) == {m \in S : m < n}
           Ahead(n) == Cardinality(Below(n))
           R == 0 .. C - 1
           rank == [n \in S |-> Ahead(n)]
           order == InOrder(S)
<1>1. C \in Nat
  BY FS_CardinalityType
<1>2. order = [n \in 1 .. C |-> CHOOSE i \in S : Ahead(i) = n - 1]
  BY DEF InOrder
<1>3. ASSUME NEW n \in S PROVE IsFiniteSet(Below(n)) /\ Ahead(n) \in Nat /\ Ahead(n) <= C /\ Ahead(n) # C
  <2>1. Below(n) \in SUBSET S /\ n \notin Below(n)
    OBVIOUS
  <2> HIDE DEF Below, C
  <2>2. IsFiniteSet(Below(n)) /\ Cardinality(Below(n)) <= Cardinality(S) /\ Cardinality(Below(n)) # Cardinality(S)
    BY <2>1, FS_Subset
  <2>3. Cardinality(Below(n)) \in Nat
    BY <2>2, FS_CardinalityType
  <2> QED BY <2>2, <2>3 DEF C
<1>4. ASSUME NEW m \in S, NEW n \in S, m < n PROVE Ahead(m) < Ahead(n)
  <2>1. Below(m) \in SUBSET Below(n) /\ m \in Below(n) /\ m \notin Below(m)
    <3>1. \A x \in S : x < m => x < n
      BY <1>4
    <3>2. ~(m < m)
      OBVIOUS
    <3> QED BY <1>4, <3>1, <3>2
  <2> HIDE DEF Below
  <2>2. Cardinality(Below(m)) <= Cardinality(Below(n)) /\ Cardinality(Below(m)) # Cardinality(Below(n))
    BY <1>3, <2>1, FS_Subset
  <2>3. Ahead(m) \in Nat /\ Ahead(n) \in Nat
    BY <1>3
  <2> QED BY <2>2, <2>3
<1> HIDE DEF Ahead, C
<1>5. \A n \in S : Ahead(n) \in R
  <2> SUFFICES ASSUME NEW n \in S PROVE Ahead(n) \in R
    OBVIOUS
  <2>1. Ahead(n) \in Nat /\ Ahead(n) <= C /\ Ahead(n) # C
    BY <1>3
  <2> QED BY ONLY <1>1, <2>1
<1>6. \A m, n \in S : Ahead(m) = Ahead(n) => m = n
  <2> SUFFICES ASSUME NEW m \in S, NEW n \in S, Ahead(m) = Ahead(n) PROVE m = n
    OBVIOUS
  <2>1. Ahead(m) \in Nat /\ (m < n => Ahead(m) < Ahead(n)) /\ (n < m => Ahead(n) < Ahead(m))
    BY <1>3, <1>4
  <2>2. m \in Nat /\ n \in Nat
    OBVIOUS
  <2> QED BY ONLY <2>1, <2>2, Ahead(m) = Ahead(n)
<1>7. \A j \in R : \E n \in S : Ahead(n) = j
  <2>1. rank \in [S -> R]
    BY <1>5
  <2>2. \A n \in S : rank[n] = Ahead(n)
    OBVIOUS
  <2>3. IsFiniteSet(R) /\ Cardinality(R) = C
    <3>1. IsFiniteSet(R) /\ Cardinality(R) = IF 0 > C - 1 THEN 0 ELSE C - 1 - 0 + 1
      BY <1>1, FS_Interval
    <3> QED BY <1>1, <3>1
  <2> HIDE DEF rank, R
  <2>4. rank \in Injection(S, R)
    BY <1>6, <2>1, <2>2 DEF Injection, IsInjective
  <2>5. Cardinality(S) = Cardinality(R)
    BY <2>3 DEF C
  <2>6. rank \in Surjection(S, R)
    BY <2>3, <2>4, <2>5, FS_Injection
  <2> QED BY <2>2, <2>6 DEF Surjection
<1>8. ASSUME NEW n \in 1 .. C PROVE order[n] \in S /\ Ahead(order[n]) = n - 1
  <2>1. n - 1 \in R
    BY <1>1
  <2>2. order[n] = CHOOSE i \in S : Ahead(i) = n - 1
    BY <1>2
  <2> QED BY <1>7, <2>1, <2>2
<1>9. order \in [1 .. C -> S] /\ DOMAIN order = 1 .. C
  <2>1. DOMAIN order = 1 .. C
    BY <1>2
  <2>2. order = [n \in 1 .. C |-> order[n]]
    BY <1>2
  <2> HIDE DEF order
  <2> QED BY <1>8, <2>1, <2>2
<1> HIDE DEF order
<1>10. Len(order) = C
  <2>1. order \in Seq(S)
    BY <1>1, <1>9
  <2> QED BY <1>1, <1>9, <2>1
<1>11. \A m, n \in 1 .. C : order[m] = order[n] => m = n
  <2> SUFFICES ASSUME NEW m \in 1 .. C, NEW n \in 1 .. C, order[m] = order[n] PROVE m = n
    OBVIOUS
  <2>1. m - 1 = n - 1
    BY <1>8
  <2> QED BY <1>1, <2>1
<1>12. \A m, n \in 1 .. C : m < n <=> order[m] < order[n]
  <2> SUFFICES ASSUME NEW m \in 1 .. C, NEW n \in 1 .. C PROVE m < n <=> order[m] < order[n]
    OBVIOUS
  <2>1. order[m] \in S /\ order[n] \in S /\ Ahead(order[m]) = m - 1 /\ Ahead(order[n]) = n - 1
    BY <1>8
  <2>2. order[m] \in Nat /\ order[n] \in Nat /\ m \in Nat /\ n \in Nat
    <3>1. m \in Nat /\ n \in Nat
      BY ONLY m \in 1 .. C, n \in 1 .. C, <1>1
    <3> QED BY <2>1, <3>1
  <2>3. (order[m] < order[n] => m - 1 < n - 1) /\ (order[n] < order[m] => n - 1 < m - 1)
    BY <1>4, <2>1
  <2>4. order[m] = order[n] => m = n
    BY <1>11
  <2> QED BY ONLY <2>2, <2>3, <2>4
<1>13. \A i \in S : \E n \in 1 .. C : order[n] = i
  <2> SUFFICES ASSUME NEW i \in S PROVE \E n \in 1 .. C : order[n] = i
    OBVIOUS
  <2>1. Ahead(i) + 1 \in 1 .. C /\ (Ahead(i) + 1) - 1 = Ahead(i)
    BY <1>1, <1>5
  <2>2. order[Ahead(i) + 1] \in S /\ Ahead(order[Ahead(i) + 1]) = Ahead(i)
    BY <1>8, <2>1
  <2>3. order[Ahead(i) + 1] = i
    BY <1>6, <2>2
  <2> QED BY <2>1, <2>3
<1>14. \A n \in 1 .. C : Cardinality({j \in S : j < order[n]}) = n - 1
  BY <1>8 DEF Ahead
<1> QED BY <1>1, <1>9, <1>10, <1>11, <1>12, <1>13, <1>14 DEF C, order

\* The elements at some positions are those, in order.
LEMMA ElementsAtType ==
  ASSUME NEW X, NEW s \in Seq(X), NEW P \in SUBSET DOMAIN s
  PROVE  /\ Cardinality(P) \in Nat /\ Len(ElementsAt(s, P)) = Cardinality(P)
         /\ DOMAIN ElementsAt(s, P) = 1 .. Cardinality(P) /\ ElementsAt(s, P) \in Seq(X)
         /\ \A n \in 1 .. Cardinality(P) : InOrder(P)[n] \in P /\ ElementsAt(s, P)[n] = s[InOrder(P)[n]]
         /\ \A i \in P : \E n \in 1 .. Cardinality(P) : InOrder(P)[n] = i /\ ElementsAt(s, P)[n] = s[i]
         /\ \A m, n \in 1 .. Cardinality(P) : m < n <=> InOrder(P)[m] < InOrder(P)[n]
<1>1. DOMAIN s = 1 .. Len(s) /\ Len(s) \in Nat /\ \A i \in DOMAIN s : s[i] \in X
  OBVIOUS
<1>2. P \in SUBSET Nat /\ IsFiniteSet(P)
  <2>1. IsFiniteSet(1 .. Len(s))
    BY <1>1, FS_Interval
  <2> QED BY <1>1, <2>1, FS_Subset
<1> DEFINE order == InOrder(P)
           C == Cardinality(P)
<1>3. /\ C \in Nat /\ order \in [1 .. C -> P] /\ DOMAIN order = 1 .. C
      /\ \A m, n \in 1 .. C : m < n <=> order[m] < order[n]
      /\ \A i \in P : \E n \in 1 .. C : order[n] = i
  BY <1>2, InOrderType
<1>4. ElementsAt(s, P) = [n \in DOMAIN order |-> s[order[n]]]
  BY DEF ElementsAt
<1> HIDE DEF order, C
<1>5. DOMAIN ElementsAt(s, P) = 1 .. C /\ \A n \in 1 .. C : order[n] \in P /\ ElementsAt(s, P)[n] = s[order[n]]
  BY <1>3, <1>4
<1>6. ElementsAt(s, P) \in [1 .. C -> X]
  BY <1>1, <1>3, <1>4, <1>5
<1>7. ElementsAt(s, P) \in Seq(X)
  BY <1>3, <1>6
<1>8. Len(ElementsAt(s, P)) = C
  BY <1>3, <1>5, <1>7
<1>9. \A i \in P : \E n \in 1 .. C : order[n] = i /\ ElementsAt(s, P)[n] = s[i]
  BY <1>3, <1>5
<1> QED BY <1>3, <1>5, <1>7, <1>8, <1>9 DEF order, C

\* FoldLeft is defined by a recursive function on the sets of positions, of which only
\* those of the first positions count.

\* The greatest of the first positions.
LEMMA FirstPositions ==
  ASSUME NEW n \in Nat \ {0}
  PROVE  1 .. n # {} /\ Max(1 .. n) = n /\ (1 .. n) \ {Max(1 .. n)} = 1 .. n - 1
<1>1. 1 .. n # {} /\ n \in 1 .. n
  OBVIOUS
<1>2. Max(1 .. n) \in 1 .. n /\ \A m \in 1 .. n : m <= Max(1 .. n)
  BY <1>1, GreatestOf
<1>3. Max(1 .. n) = n
  BY <1>1, <1>2
<1>4. (1 .. n) \ {n} = 1 .. n - 1
  OBVIOUS
<1> QED BY <1>1, <1>3, <1>4

\* The recursive function, with g for the operator.
IsFold(h, N, V, base, g) ==
  /\ h \in [SUBSET (1 .. N) -> V] /\ h[{}] = base
  /\ \A S \in SUBSET (1 .. N) : S # {} => h[S] = g[<<Max(S), h[S \ {Max(S)}]>>]

\* It exists.
LEMMA FoldExists ==
  ASSUME NEW N \in Nat, NEW V, NEW base \in V, NEW g \in [(1 .. N) \X V -> V]
  PROVE  \E h : IsFold(h, N, V, base, g)
<1> DEFINE Is(h, n) == /\ h[{}] = base
                       /\ \A S \in SUBSET (1 .. n) : S # {} => h[S] = g[<<Max(S), h[S \ {Max(S)}]>>]
           Bad == {n \in 0 .. N : ~ \E h \in [SUBSET (1 .. n) -> V] : Is(h, n)}
<1>1. SUFFICES ASSUME Bad # {} PROVE FALSE
  <2>1. N \in 0 .. N
    OBVIOUS
  <2>2. N \notin Bad => \E h \in [SUBSET (1 .. N) -> V] : Is(h, N)
    BY <2>1
  <2> HIDE DEF Bad
  <2> QED BY <2>2 DEF IsFold
<1>2. PICK m \in Bad : \A n \in Bad : m <= n
  <2>1. Bad \in SUBSET Nat
    OBVIOUS
  <2> HIDE DEF Bad
  <2> QED BY <1>1, <2>1, LeastOf
<1>3. m \in 0 .. N /\ m \in Nat
  OBVIOUS
<1>4. m # 0
  <2> SUFFICES ASSUME m = 0 PROVE FALSE
    OBVIOUS
  <2> DEFINE h == [S \in SUBSET (1 .. 0) |-> base]
  <2>1. 1 .. 0 = {} /\ {} \in SUBSET (1 .. 0)
    OBVIOUS
  <2>2. h \in [SUBSET (1 .. 0) -> V] /\ h[{}] = base
    BY <2>1
  <2>3. \A S \in SUBSET (1 .. 0) : S = {}
    BY <2>1
  <2> HIDE DEF h
  <2>4. Is(h, 0)
    BY <2>2, <2>3
  <2> QED BY <2>2, <2>4
<1>5. m - 1 \in 0 .. N /\ m - 1 \notin Bad
  <2>1. m - 1 \in 0 .. N /\ ~(m <= m - 1)
    BY <1>3, <1>4
  <2> HIDE DEF Bad
  <2> QED BY <1>2, <2>1
<1>6. PICK h \in [SUBSET (1 .. m - 1) -> V] : Is(h, m - 1)
  BY <1>5
<1> DEFINE k == [S \in SUBSET (1 .. m) |-> IF m \in S THEN g[<<m, h[S \ {m}]>>] ELSE h[S]]
<1>7. ASSUME NEW S \in SUBSET (1 .. m), m \in S PROVE Max(S) = m /\ S \ {m} \in SUBSET (1 .. m - 1)
  <2>1. Max(S) \in S /\ \A n \in S : n <= Max(S)
    BY <1>3, <1>7, GreatestOf
  <2>2. Max(S) = m
    <3>1. m <= Max(S) /\ Max(S) \in 1 .. m
      BY <1>7, <2>1
    <3> QED BY ONLY <1>3, <3>1
  <2>3. \A x \in 1 .. m : x # m => x \in 1 .. m - 1
    BY <1>3
  <2> QED BY <2>2, <2>3
<1>8. ASSUME NEW S \in SUBSET (1 .. m), m \notin S PROVE S \in SUBSET (1 .. m - 1)
  <2>1. \A x \in 1 .. m : x # m => x \in 1 .. m - 1
    BY <1>3
  <2> QED BY <1>8, <2>1
<1>9. k \in [SUBSET (1 .. m) -> V]
  <2> SUFFICES ASSUME NEW S \in SUBSET (1 .. m) PROVE (IF m \in S THEN g[<<m, h[S \ {m}]>>] ELSE h[S]) \in V
    OBVIOUS
  <2>1. CASE m \in S
    <3>1. h[S \ {m}] \in V /\ m \in 1 .. N
      BY <1>3, <1>4, <1>7, <2>1
    <3> QED BY <2>1, <3>1
  <2>2. CASE m \notin S
    BY <1>8, <2>2
  <2> QED BY <2>1, <2>2
<1>10. k[{}] = base
  <2>1. {} \in SUBSET (1 .. m) /\ m \notin {}
    OBVIOUS
  <2> QED BY <1>6, <2>1
<1>11. ASSUME NEW S \in SUBSET (1 .. m), S # {} PROVE k[S] = g[<<Max(S), k[S \ {Max(S)}]>>]
  <2>1. CASE m \in S
    <3>1. Max(S) = m /\ S \ {m} \in SUBSET (1 .. m) /\ m \notin S \ {m}
      BY <1>7, <2>1
    <3>2. k[S] = g[<<m, h[S \ {m}]>>] /\ k[S \ {m}] = h[S \ {m}]
      BY <2>1, <3>1
    <3> HIDE DEF k
    <3> QED BY <3>1, <3>2
  <2>2. CASE m \notin S
    <3>1. S \in SUBSET (1 .. m - 1)
      BY <1>8, <2>2
    <3>2. h[S] = g[<<Max(S), h[S \ {Max(S)}]>>]
      BY <1>6, <1>11, <3>1
    <3>3. S \ {Max(S)} \in SUBSET (1 .. m) /\ m \notin S \ {Max(S)}
      BY <2>2
    <3>4. k[S] = h[S] /\ k[S \ {Max(S)}] = h[S \ {Max(S)}]
      BY <2>2, <3>3
    <3> HIDE DEF k
    <3> QED BY <3>2, <3>4
  <2> QED BY <2>1, <2>2
<1> HIDE DEF k
<1>12. Is(k, m)
  BY <1>10, <1>11
<1> QED BY <1>9, <1>12

\* What a fold has after each position, from base to last.
IsHistory(h, N, V, base, last, g) ==
  /\ h \in [0 .. N -> V] /\ h[0] = base /\ h[N] = last
  /\ \A n \in 1 .. N : h[n] = g[<<n, h[n - 1]>>]

\* It is in the recursive function, at the sets of the first positions.
LEMMA FoldSteps ==
  ASSUME NEW N \in Nat, NEW V, NEW base \in V, NEW g \in [(1 .. N) \X V -> V], NEW it, it[{}] = base,
         \A n \in 1 .. N : it[1 .. n] = g[<<n, it[1 .. n - 1]>>] \/ it[1 .. n - 1] \notin V
  PROVE  \E h : IsHistory(h, N, V, base, it[1 .. N], g)
<1> DEFINE h == [n \in 0 .. N |-> it[1 .. n]]
           Good == {n \in 0 .. N : h[n] \in V}
<1>1. h[0] = base
  <2>1. 1 .. 0 = {}
    OBVIOUS
  <2> QED BY <2>1
<1>2. \A n \in 1 .. N : h[n - 1] \in V => h[n] = g[<<n, h[n - 1]>>]
  OBVIOUS
<1>3. h[N] = it[1 .. N] /\ h = [n \in 0 .. N |-> h[n]]
  OBVIOUS
<1> HIDE DEF h
<1>4. 0 \in Good
  BY <1>1
<1>5. \A n \in 1 .. N : n - 1 \in Good => n \in Good
  <2> SUFFICES ASSUME NEW n \in 1 .. N, n - 1 \in Good PROVE n \in Good
    OBVIOUS
  <2>1. h[n] = g[<<n, h[n - 1]>>] /\ h[n - 1] \in V /\ n \in 0 .. N
    BY <1>2
  <2> QED BY <2>1
<1>6. \A n \in 0 .. N : h[n] \in V
  <2> HIDE DEF Good
  <2>1. \A n \in 0 .. N : n \in Good
    BY <1>4, <1>5, UpTo
  <2> QED BY <2>1 DEF Good
<1>7. h \in [0 .. N -> V]
  BY <1>3, <1>6
<1>8. \A n \in 1 .. N : n - 1 \in 0 .. N
  OBVIOUS
<1> QED BY <1>1, <1>2, <1>3, <1>6, <1>7, <1>8 DEF IsHistory

-----------------------------------------------------------------------------
(* What the pushes have taken.                                              *)

HasService(i) == ServiceName(batch[i]) # << >>

\* What the bulk indexer has taken when the push is at next and stage: all the
\* records before, the record itself once its services are next, and, in
\* Jaeger's format, the services of those before that have one.
PushInv ==
  /\ \A i \in DOMAIN batch :
       /\ (\E r \in Taken : r.of = i /\ r.service = FALSE) <=> i < next \/ (i = next /\ stage = "service")
       /\ (\E r \in Taken : r.of = i /\ r.service = TRUE) <=> i < next /\ config.mode = "jaeger" /\ HasService(i)
  /\ stage = "service" => config.mode = "jaeger"
  /\ outcome = "none" => next <= Len(batch)
  /\ outcome \in {"ok", "errors"} => next = Len(batch) + 1 /\ stage = "record"
  /\ outcome = "ok" => failed = FALSE
  /\ failed = FALSE /\ config.mode = "jaeger" => \A i \in DOMAIN batch : i < next => HasService(i)

\* A batch has its positions.
LEMMA BatchType ==
  ASSUME <<config, batch>> \in Workloads
  PROVE  Len(batch) \in Nat \ {0} /\ DOMAIN batch = 1 .. Len(batch)
BY StoreAssumption DEF StoreAssumption

\* What is in the index was taken.
TypeInv == TypeOK /\ index \in Seq(Taken)

\* The batch has records only.
LEMMA BatchIsRecords == ASSUME TypeInv, NEW i \in DOMAIN batch PROVE IsRecord(batch[i])
<1> DEFINE w == <<config, batch>>
<1>1. w \in Workloads /\ w[2] = batch
  BY DEF TypeInv, TypeOK
<1> HIDE DEF w
<1>2. \A j \in DOMAIN w[2] : IsRecord(w[2][j])
  BY <1>1, StoreAssumption DEF StoreAssumption
<1> QED BY <1>1, <1>2

\* A string that there is none of.
NoText == ""

\* A longer list of what was taken.
LEMMA SeqGrows == ASSUME NEW S, NEW T, S \subseteq T, NEW q \in Seq(S) PROVE q \in Seq(T)
  OBVIOUS

\* PushInv depends on the push and on what was taken alone.
LEMMA PushInvKept ==
  ASSUME PushInv, UNCHANGED <<config, batch, next, stage, failed, outcome>>, Taken' = Taken
  PROVE  PushInv'
<1>1. \A i : HasService(i)' <=> HasService(i)
  BY DEF HasService
<1> HIDE DEF Taken, HasService
<1> QED BY <1>1 DEF PushInv

\* A call of the query extension changes its answer alone.
LEMMA QueryTyped ==
  ASSUME TypeInv, UNCHANGED <<config, batch, pushVars, storeVars>>,
         queries' \in 0 .. MaxQueries,
         answer'.call \in {"none", "SearchTraces", "GetTrace", "GetService", "GetOperations"}
  PROVE  TypeInv'
<1>1. Taken' = Taken /\ Records' = Records /\ Range(settled)' = Range(settled)
  BY DEF Taken, Records, storeVars
<1> QED BY <1>1 DEF TypeInv, TypeOK, pushVars, storeVars

\* A record that was accepted settles.
LEMMA SettleTyped ==
  ASSUME TypeInv, NEW r \in accepted, NEW fate \in {"stored", "refused", "lost"}, Settle(r, fate),
         UNCHANGED <<config, batch, pushVars, queryVars>>,
         copies' \in 0 .. MaxCopies,
         index' = index \/ index' = Append(index, r)
  PROVE  TypeInv' /\ Taken' = Taken
<1>1. Taken' = Taken
  BY DEF Taken, Settle
<1>2. r \in Taken
  BY DEF Taken
<1>3. index' \in Seq(Taken)
  BY <1>2 DEF TypeInv
<1>4. \A n \in DOMAIN index' : index'[n] \in Taken
  BY <1>3
<1>5. \A x \in Taken : x.of \in DOMAIN batch
  BY DEF TypeInv, TypeOK, Records
<1>6. accepted' \cap DOMAIN settled' = {}
  BY DEF Settle, TypeInv, TypeOK
<1>7. Range(settled') \subseteq {"stored", "refused", "lost"}
  <2>1. \A x \in DOMAIN settled : settled[x] \in {"stored", "refused", "lost"}
    BY DEF TypeInv, TypeOK, Range
  <2>2. \A x \in DOMAIN settled' : settled'[x] \in {"stored", "refused", "lost"}
    BY <2>1 DEF Settle
  <2> QED BY <2>2 DEF Range
<1>8. Records' = Records
  BY DEF Records
<1> QED BY <1>1, <1>3, <1>4, <1>5, <1>6, <1>7, <1>8 DEF TypeInv, TypeOK, pushVars, queryVars

\* The bulk indexer takes a document of the record at next.
LEMMA AddTyped ==
  ASSUME TypeInv, PushInv, outcome = "none", NEW s \in BOOLEAN, NEW json,
         s = TRUE <=> stage = "service",
         accepted' = accepted \cup {Document(next, s, json)},
         UNCHANGED <<config, batch, canceled, settled, index, services, copies, queryVars>>,
         next' \in 1 .. Len(batch) + 1, stage' \in {"record", "service"}, failed' \in BOOLEAN,
         outcome' \in {"none", "ok", "errors", "canceled"}
  PROVE  /\ TypeInv'
         /\ Taken' = Taken \cup {Document(next, s, json)}
<1> DEFINE d == Document(next, s, json)
<1>0. d.of = next /\ d.service = s
  BY DEF Document
<1>1. Taken' = Taken \cup {d}
  BY DEF Taken
<1>2. next \in DOMAIN batch
  BY BatchType DEF TypeInv, TypeOK, PushInv
<1>3. d \notin Taken
  <2>1. CASE s = FALSE
    <3>1. stage # "service"
      BY <2>1
    <3>2. ~ (next < next \/ (next = next /\ stage = "service"))
      BY <1>2, <3>1, BatchType DEF TypeInv, TypeOK
    <3>3. ~ \E r \in Taken : r.of = next /\ r.service = FALSE
      BY <1>2, <3>2 DEF PushInv
    <3> QED BY <1>0, <2>1, <3>3
  <2>2. CASE s = TRUE
    <3>1. ~ (next < next)
      BY <1>2, BatchType DEF TypeInv, TypeOK
    <3>2. ~ \E r \in Taken : r.of = next /\ r.service = TRUE
      BY <1>2, <3>1 DEF PushInv
    <3> QED BY <1>0, <2>2, <3>2
  <2> QED BY <2>1, <2>2
<1> HIDE DEF d
<1>4. \A r \in Taken' : [of |-> r.of, service |-> r.service] \in Records'
  <2>1. [of |-> d.of, service |-> d.service] \in Records
    BY <1>0, <1>2 DEF Records
  <2>2. Records' = Records
    BY DEF Records
  <2> QED BY <1>1, <2>1, <2>2 DEF TypeInv, TypeOK
<1>5. accepted' \cap DOMAIN settled' = {}
  <2>1. d \notin DOMAIN settled /\ accepted' = accepted \cup {d} /\ settled' = settled
    BY <1>3 DEF d, Taken
  <2> QED BY <2>1 DEF TypeInv, TypeOK
<1>6. index' \in Seq(Taken')
  <2>1. Taken \subseteq Taken'
    BY <1>1
  <2> QED BY <2>1, SeqGrows DEF TypeInv
<1>7. Range(settled)' = Range(settled)
  OBVIOUS
<1> QED BY <1>1, <1>4, <1>5, <1>6, <1>7 DEF TypeInv, TypeOK, queryVars, d

\* The bulk indexer takes nothing.
LEMMA AdvanceTyped ==
  ASSUME TypeInv, UNCHANGED <<config, batch, canceled, storeVars, queryVars>>,
         next' \in 1 .. Len(batch) + 1, stage' \in {"record", "service"}, failed' \in BOOLEAN,
         outcome' \in {"none", "ok", "errors", "canceled"}
  PROVE  TypeInv' /\ Taken' = Taken
<1>1. Taken' = Taken /\ Records' = Records /\ Range(settled)' = Range(settled)
  BY DEF Taken, Records, storeVars
<1> QED BY <1>1 DEF TypeInv, TypeOK, storeVars, queryVars

\* The loop goes on to the next record, everything of this one being taken.
LEMMA AdvanceInv ==
  ASSUME TypeInv, PushInv, outcome = "none", UNCHANGED <<config, batch>>,
         NEW e \in BOOLEAN, Advance(e),
         e = FALSE /\ config.mode = "jaeger" => failed = FALSE /\ HasService(next),
         \A i \in DOMAIN batch :
           /\ (\E r \in Taken' : r.of = i /\ r.service = FALSE) <=> i <= next
           /\ (\E r \in Taken' : r.of = i /\ r.service = TRUE) <=>
                i <= next /\ config.mode = "jaeger" /\ HasService(i)
  PROVE  PushInv'
<1>0. /\ Len(batch) \in Nat \ {0} /\ DOMAIN batch = 1 .. Len(batch) /\ next \in 1 .. Len(batch)
  BY BatchType DEF TypeInv, TypeOK, PushInv
<1>1. \A i : HasService(i)' <=> HasService(i)
  BY DEF HasService
<1>2. next' = next + 1 /\ stage' = "record" /\ failed' = e
  BY DEF Advance
<1>3. /\ outcome' = "none" => next' <= Len(batch)
      /\ outcome' \in {"ok", "errors"} => next' = Len(batch) + 1
  <2>1. outcome' = IF next = Len(batch) THEN Result(e) ELSE "none"
    BY DEF Advance
  <2>2. Result(e) \in {"ok", "errors"}
    BY DEF Result
  <2>3. CASE next = Len(batch)
    BY <1>0, <1>2, <2>1, <2>2, <2>3
  <2>4. CASE next # Len(batch)
    <3>1. outcome' = "none"
      BY <2>1, <2>4
    <3>2. \A n \in Nat \ {0} : \A m \in 1 .. n : m # n => m + 1 <= n
      BY SMTT(30)
    <3>3. next' <= Len(batch)
      BY ONLY <1>0, <1>2, <2>4, <3>2
    <3> QED BY <3>1, <3>3
  <2> QED BY <2>3, <2>4
<1>4. outcome' = "ok" => e = FALSE
  <2>1. CASE e = TRUE
    BY <2>1 DEF Advance, Result
  <2> QED BY <2>1
<1>5. \A i \in DOMAIN batch : i <= next <=> i < next'
  BY <1>0, <1>2
<1>6. e = FALSE /\ config.mode = "jaeger" => \A i \in DOMAIN batch : i < next' => HasService(i)
  <2> SUFFICES ASSUME e = FALSE, config.mode = "jaeger", NEW i \in DOMAIN batch, i < next' PROVE HasService(i)
    OBVIOUS
  <2>1. CASE i = next
    BY <2>1
  <2>2. CASE i # next
    <3>1. i < next
      BY <1>0, <1>5, <2>2
    <3> QED BY <3>1 DEF PushInv
  <2> QED BY <2>1, <2>2
<1>7. \A i \in DOMAIN batch :
        /\ (\E r \in Taken' : r.of = i /\ r.service = FALSE) <=> i < next'
        /\ (\E r \in Taken' : r.of = i /\ r.service = TRUE) <=>
             i < next' /\ config.mode = "jaeger" /\ HasService(i)
  BY <1>5
<1> HIDE DEF Taken, HasService
<1> QED BY <1>1, <1>2, <1>3, <1>4, <1>6, <1>7 DEF PushInv

-----------------------------------------------------------------------------
(* The push and the store.                                                  *)

\* Both invariants are preserved by every step.
THEOREM PushInvariant == Spec => [](TypeInv /\ PushInv)
<1>1. Init => TypeInv /\ PushInv
  <2> SUFFICES ASSUME Init PROVE TypeInv /\ PushInv
    OBVIOUS
  <2>1. <<config, batch>> \in Workloads
    BY StoreAssumption DEF StoreAssumption, Init
  <2>2. Taken = {} /\ Range(settled) = {}
    BY DEF Init, Taken, Range
  <2>3. TypeInv
    <3>1. Len(batch) \in Nat \ {0} /\ DOMAIN batch = 1 .. Len(batch)
      BY <2>1, BatchType
    <3>2. /\ next \in 1 .. Len(batch) + 1 /\ stage = "record" /\ outcome = "none"
      BY <3>1 DEF Init
    <3>7. canceled \in BOOLEAN /\ failed \in BOOLEAN
      <4>1. canceled = FALSE /\ failed = FALSE
        BY DEF Init
      <4> QED BY <4>1, Zenon
    <3>3. accepted = {} /\ index = << >>
      BY DEF Init
    <3>4. copies \in 0 .. MaxCopies /\ queries \in 0 .. MaxQueries
      BY StoreAssumption DEF StoreAssumption, Init
    <3>5. answer.call = "none"
      BY DEF Init, NoAnswer
    <3>6. index \in Seq(Taken) /\ DOMAIN index = {}
      BY <3>3
    <3> QED BY <2>1, <2>2, <3>2, <3>3, <3>4, <3>5, <3>6, <3>7 DEF TypeInv, TypeOK
  <2>4. PushInv
    <3>1. next = 1 /\ stage = "record" /\ failed = FALSE /\ outcome = "none"
      BY DEF Init
    <3>2. Len(batch) \in Nat \ {0} /\ DOMAIN batch = 1 .. Len(batch)
      BY <2>1, BatchType
    <3> QED BY <2>2, <3>1, <3>2 DEF PushInv
  <2> QED BY <2>3, <2>4
<1>2. TypeInv /\ PushInv /\ [Next]_vars => TypeInv' /\ PushInv'
  <2> SUFFICES ASSUME TypeInv, PushInv, [Next]_vars PROVE TypeInv' /\ PushInv'
    OBVIOUS
  <2>0. /\ Len(batch) \in Nat \ {0} /\ DOMAIN batch = 1 .. Len(batch)
        /\ next \in 1 .. Len(batch) + 1
    BY BatchType DEF TypeInv, TypeOK
  <2>1. ASSUME PushRecord(TRUE) PROVE TypeInv' /\ PushInv'
    <3> DEFINE json == Encode(batch[next])
               d == Document(next, FALSE, json)
    <3>1. /\ outcome = "none" /\ stage = "record" /\ accepted' = accepted \cup {d}
          /\ UNCHANGED <<config, batch, canceled, settled, index, services, copies, queryVars>>
          /\ \/ config.mode = "jaeger" /\ stage' = "service" /\ UNCHANGED <<next, failed, outcome>>
             \/ config.mode # "jaeger" /\ Advance(failed)
      BY <2>1 DEF PushRecord
    <3>2. d.of = next /\ d.service = FALSE
      BY DEF Document
    <3> HIDE DEF json
    <3>3. next' \in 1 .. Len(batch) + 1 /\ stage' \in {"record", "service"} /\ failed' = failed
      <4>1. next + 1 \in 1 .. Len(batch) + 1
        BY <2>0, <3>1 DEF PushInv
      <4> QED BY <2>0, <3>1, <4>1 DEF Advance
    <3>4. outcome' \in {"none", "ok", "errors", "canceled"}
      BY <3>1 DEF Advance, Result
    <3>5. TypeInv' /\ Taken' = Taken \cup {d}
      <4>1. failed' \in BOOLEAN
        BY <3>3 DEF TypeInv, TypeOK
      <4>2. FALSE \in BOOLEAN /\ (FALSE = TRUE <=> stage = "service")
        BY <3>1
      <4> QED BY <3>1, <3>3, <3>4, <4>1, <4>2, AddTyped
    <3> HIDE DEF d
    <3>6. \A i \in DOMAIN batch :
            /\ (\E r \in Taken' : r.of = i /\ r.service = FALSE) <=> i <= next
            /\ (\E r \in Taken' : r.of = i /\ r.service = TRUE) <=>
                 i < next /\ config.mode = "jaeger" /\ HasService(i)
      BY <2>0, <3>1, <3>2, <3>5 DEF PushInv
    <3>7. CASE config.mode = "jaeger"
      <4>1. stage' = "service" /\ UNCHANGED <<config, batch, next, failed, outcome>>
        BY <3>1, <3>7
      <4>2. \A i : HasService(i)' <=> HasService(i)
        BY <4>1 DEF HasService
      <4>3. \A i \in DOMAIN batch : i <= next <=> i < next \/ i = next
        BY <2>0
      <4> HIDE DEF Taken, HasService
      <4>4. PushInv'
        BY <3>1, <3>6, <3>7, <4>1, <4>2, <4>3 DEF PushInv
      <4> QED BY <3>5, <4>4
    <3>8. CASE config.mode # "jaeger"
      <4>1. Advance(failed) /\ UNCHANGED <<config, batch>>
        BY <3>1, <3>8
      <4>2. failed \in BOOLEAN
        BY DEF TypeInv, TypeOK
      <4> HIDE DEF Taken, HasService
      <4>3. PushInv'
        BY <3>1, <3>6, <3>8, <4>1, <4>2, AdvanceInv
      <4> QED BY <3>5, <4>3
    <3> QED BY <3>7, <3>8
  <2>2. ASSUME outcome = "none", ReturnCanceled, UNCHANGED <<config, batch, canceled, storeVars, queryVars>>
        PROVE  TypeInv' /\ PushInv'
    <3>1. outcome' = "canceled" /\ UNCHANGED <<next, stage, failed>>
      BY <2>2 DEF ReturnCanceled
    <3>2. TypeInv' /\ Taken' = Taken
      <4>1. failed' \in BOOLEAN
        BY <3>1 DEF TypeInv, TypeOK
      <4> QED BY <2>2, <3>1, <4>1, AdvanceTyped DEF TypeInv, TypeOK
    <3>3. \A i : HasService(i)' <=> HasService(i)
      BY <2>2 DEF HasService
    <3> HIDE DEF Taken, HasService
    <3>4. PushInv'
      BY <2>2, <3>1, <3>2, <3>3 DEF PushInv
    <3> QED BY <3>2, <3>4
  <2>3. ASSUME PushRecord(FALSE) PROVE TypeInv' /\ PushInv'
    BY <2>2, <2>3 DEF PushRecord, storeVars
  <2>4. ASSUME NEW ok \in BOOLEAN, PushService(ok) PROVE TypeInv' /\ PushInv'
    <3>1. /\ outcome = "none" /\ stage = "service" /\ config.mode = "jaeger"
          /\ UNCHANGED <<config, batch, canceled, settled, index, services, copies, queryVars>>
      BY <2>4 DEF PushService, PushInv
    <3>2. next + 1 \in 1 .. Len(batch) + 1 /\ next \in DOMAIN batch
      BY <2>0, <3>1 DEF PushInv
    <3>3. CASE HasService(next) /\ accepted' = accepted \cup {Document(next, TRUE, EmptyJson)} /\ Advance(failed)
      <4> DEFINE d == Document(next, TRUE, EmptyJson)
      <4>1. d.of = next /\ d.service = TRUE
        BY DEF Document
      <4>2. next' = next + 1 /\ stage' = "record" /\ failed' = failed
        BY <3>3 DEF Advance
      <4>3. outcome' \in {"none", "ok", "errors", "canceled"}
        BY <3>3 DEF Advance, Result
      <4>4. failed \in BOOLEAN /\ failed' \in BOOLEAN
        BY <4>2 DEF TypeInv, TypeOK
      <4>5. TypeInv' /\ Taken' = Taken \cup {d}
        <5>1. TRUE \in BOOLEAN /\ (TRUE = TRUE <=> stage = "service")
          BY <3>1
        <5> QED BY <3>1, <3>2, <3>3, <4>2, <4>3, <4>4, <5>1, AddTyped
      <4> HIDE DEF d
      <4>6. \A i \in DOMAIN batch : i <= next <=> i < next \/ i = next
        BY <2>0
      <4>7. \A i \in DOMAIN batch :
              /\ (\E r \in Taken' : r.of = i /\ r.service = FALSE) <=> i <= next
              /\ (\E r \in Taken' : r.of = i /\ r.service = TRUE) <=>
                   i <= next /\ config.mode = "jaeger" /\ HasService(i)
        <5> HIDE DEF Taken, HasService
        <5> QED BY <3>1, <3>3, <4>1, <4>5, <4>6 DEF PushInv
      <4>8. failed = FALSE /\ config.mode = "jaeger" => failed = FALSE /\ HasService(next)
        BY <3>3
      <4> HIDE DEF Taken, HasService
      <4>9. PushInv'
        BY <3>1, <3>3, <4>4, <4>7, <4>8, AdvanceInv
      <4> QED BY <4>5, <4>9
    <3>4. CASE ~HasService(next) /\ UNCHANGED accepted /\ Advance(TRUE)
      <4>1. next' = next + 1 /\ stage' = "record" /\ failed' = TRUE
        BY <3>4 DEF Advance
      <4>2. outcome' \in {"none", "ok", "errors", "canceled"}
        BY <3>4 DEF Advance, Result
      <4>3. failed' \in BOOLEAN /\ TRUE \in BOOLEAN
        BY <4>1, Zenon
      <4>4. UNCHANGED <<config, batch, canceled, storeVars, queryVars>>
        BY <3>1, <3>4 DEF storeVars
      <4>5. TypeInv' /\ Taken' = Taken
        BY <3>2, <4>1, <4>2, <4>3, <4>4, AdvanceTyped
      <4>6. \A i \in DOMAIN batch : i <= next <=> i < next \/ i = next
        BY <2>0
      <4>7. \A i \in DOMAIN batch :
              /\ (\E r \in Taken' : r.of = i /\ r.service = FALSE) <=> i <= next
              /\ (\E r \in Taken' : r.of = i /\ r.service = TRUE) <=>
                   i <= next /\ config.mode = "jaeger" /\ HasService(i)
        <5> HIDE DEF Taken, HasService
        <5> QED BY <3>1, <3>4, <4>5, <4>6 DEF PushInv
      <4>8. ~(TRUE = FALSE)
        OBVIOUS
      <4> HIDE DEF Taken, HasService
      <4>9. PushInv'
        BY <3>1, <3>4, <4>3, <4>7, <4>8, AdvanceInv
      <4> QED BY <4>5, <4>9
    <3>5. CASE UNCHANGED accepted /\ ReturnCanceled
      BY <2>2, <3>1, <3>5 DEF storeVars
    <3> QED BY <2>4, <3>3, <3>4, <3>5 DEF PushService, HasService
  <2>5. ASSUME Cancel PROVE TypeInv' /\ PushInv'
    <3>1. canceled' = TRUE /\ UNCHANGED <<config, batch, next, stage, failed, outcome, storeVars, queryVars>>
      BY <2>5 DEF Cancel
    <3>2. canceled' \in BOOLEAN
      BY <3>1, Zenon
    <3>3. Taken' = Taken /\ Records' = Records /\ Range(settled)' = Range(settled)
      BY <3>1 DEF Taken, Records, storeVars
    <3>4. TypeInv'
      BY <3>1, <3>2, <3>3 DEF TypeInv, TypeOK, storeVars, queryVars
    <3> QED BY <3>1, <3>3, <3>4, PushInvKept
  <2>6. ASSUME NEW r \in accepted, NEW fate \in {"stored", "refused", "lost"}, Settle(r, fate),
               UNCHANGED <<config, batch, pushVars, queryVars>>, copies' \in 0 .. MaxCopies,
               index' = index \/ index' = Append(index, r)
        PROVE  TypeInv' /\ PushInv'
    <3>1. TypeInv' /\ Taken' = Taken
      BY <2>6, SettleTyped
    <3> QED BY <2>6, <3>1, PushInvKept DEF pushVars
  <2>7. copies \in 0 .. MaxCopies
    BY DEF TypeInv, TypeOK
  <2>8. ASSUME NEW r \in accepted, UNCHANGED <<config, batch, pushVars, queryVars, accepted, settled>>,
               index' = index \/ index' = Append(index, r), copies < MaxCopies, copies' = copies + 1
        PROVE  TypeInv' /\ PushInv'
    <3>1. Taken' = Taken /\ Records' = Records /\ Range(settled)' = Range(settled) /\ r \in Taken
      BY <2>8 DEF Taken, Records
    <3>2. index' \in Seq(Taken)
      BY <2>8, <3>1 DEF TypeInv
    <3>3. \A n \in DOMAIN index' : index'[n].of \in DOMAIN batch
      <4>1. \A n \in DOMAIN index' : index'[n] \in Taken
        BY <3>2
      <4> QED BY <4>1 DEF TypeInv, TypeOK, Records
    <3>4. copies' \in 0 .. MaxCopies
      BY <2>7, <2>8, StoreAssumption DEF StoreAssumption
    <3>5. TypeInv'
      BY <2>8, <3>1, <3>2, <3>3, <3>4 DEF TypeInv, TypeOK, pushVars, queryVars
    <3> QED BY <2>8, <3>1, <3>5, PushInvKept DEF pushVars
  <2>9. ASSUME NEW r \in accepted, NEW again \in BOOLEAN, StoreSpan(r, again) PROVE TypeInv' /\ PushInv'
    <3>1. CASE again
      BY <2>8, <2>9, <3>1 DEF StoreSpan
    <3>2. CASE ~again
      BY <2>6, <2>7, <2>9, <3>2 DEF StoreSpan
    <3> QED BY <3>1, <3>2
  <2>10. ASSUME NEW r \in accepted, NEW again \in BOOLEAN, StoreService(r, again) PROVE TypeInv' /\ PushInv'
    <3>1. CASE again
      BY <2>8, <2>10, <3>1 DEF StoreService
    <3>2. CASE ~again
      <4>1. PICK fate \in {"stored", "refused"} : Settle(r, fate)
        BY <2>10, <3>2 DEF StoreService
      <4> QED BY <2>6, <2>7, <2>10, <3>2, <4>1 DEF StoreService
    <3> QED BY <3>1, <3>2
  <2>11. ASSUME NEW r \in accepted, Refuse(r) \/ Lose(r) PROVE TypeInv' /\ PushInv'
    BY <2>6, <2>7, <2>11 DEF Refuse, Lose
  <2>12. ASSUME Query PROVE TypeInv' /\ PushInv'
    <3>1. UNCHANGED <<config, batch, pushVars, storeVars>>
      BY <2>12 DEF Query, FindTraceIds, MultiGetTraces, GetTrace, GetService, GetOperations, Ask
    <3>2. queries' \in 0 .. MaxQueries
      <4>1. queries' = queries \/ (queries < MaxQueries /\ queries' = queries + 1)
        BY <2>12 DEF Query, FindTraceIds, MultiGetTraces, GetTrace, GetService, GetOperations, Ask
      <4> QED BY <4>1, StoreAssumption DEF StoreAssumption, TypeInv, TypeOK
    <3>3. answer'.call \in {"none", "SearchTraces", "GetTrace", "GetService", "GetOperations"}
      <4>1. answer' = answer \/ \E c \in {"SearchTraces", "GetTrace", "GetService", "GetOperations"} : answer'.call = c
        BY <2>12 DEF Query, FindTraceIds, MultiGetTraces, GetTrace, GetService, GetOperations, NoAnswer
      <4> QED BY <4>1 DEF TypeInv, TypeOK
    <3>4. TypeInv'
      BY <3>1, <3>2, <3>3, QueryTyped
    <3>5. Taken' = Taken
      BY <3>1 DEF Taken, storeVars
    <3> QED BY <3>1, <3>4, <3>5, PushInvKept DEF pushVars
  <2>13. CASE UNCHANGED vars
    <3>1. Taken' = Taken /\ UNCHANGED <<config, batch, pushVars, storeVars, queryVars>>
      BY <2>13 DEF vars, Taken, storeVars
    <3>2. TypeInv'
      BY <3>1, QueryTyped DEF queryVars, TypeInv, TypeOK
    <3> QED BY <3>1, <3>2, PushInvKept DEF pushVars
  <2>14. ASSUME Push PROVE TypeInv' /\ PushInv'
    BY <2>1, <2>3, <2>4, <2>14 DEF Push
  <2>15. ASSUME Deliver PROVE TypeInv' /\ PushInv'
    BY <2>9, <2>10, <2>11, <2>15 DEF Deliver
  <2> QED BY <2>5, <2>12, <2>13, <2>14, <2>15 DEF Next
<1> QED BY <1>1, <1>2, PTL DEF Spec

\* The type invariant holds in every state.
THEOREM TypeCorrect == Spec => []TypeOK
<1>1. TypeInv => TypeOK
  BY DEF TypeInv
<1> QED BY <1>1, PushInvariant, PTL

\* A push reports success only of what the bulk indexer took.
THEOREM PushTruthful == Spec => []PushTellsTheTruth
<1>1. TypeInv /\ PushInv => PushTellsTheTruth
  <2> SUFFICES ASSUME TypeInv, PushInv PROVE PushTellsTheTruth
    OBVIOUS
  <2>0. Len(batch) \in Nat \ {0} /\ DOMAIN batch = 1 .. Len(batch)
    BY BatchType DEF TypeInv, TypeOK
  <2> DEFINE taken  == {[of |-> r.of, service |-> r.service] : r \in Taken}
             wanted == {r \in Records : r.service => config.mode = "jaeger" /\ ServiceName(batch[r.of]) # << >>}
  <2>1. ASSUME outcome \in {"ok", "errors"} PROVE taken = wanted
    <3>1. /\ stage = "record" /\ \A i \in DOMAIN batch : i < next /\ i # next
      BY <2>0, <2>1 DEF PushInv
    <3>2. \A i \in DOMAIN batch :
            /\ \E r \in Taken : r.of = i /\ r.service = FALSE
            /\ (\E r \in Taken : r.of = i /\ r.service = TRUE) <=> config.mode = "jaeger" /\ HasService(i)
      BY <3>1 DEF PushInv
    <3>3. \A r \in Taken : r.of \in DOMAIN batch /\ r.service \in BOOLEAN
      BY DEF TypeInv, TypeOK, Records
    <3>4. ASSUME NEW i \in DOMAIN batch, NEW s \in BOOLEAN
          PROVE  [of |-> i, service |-> s] \in wanted <=> (s = TRUE => config.mode = "jaeger" /\ HasService(i))
      BY DEF Records, HasService
    <3>5. ASSUME NEW i \in DOMAIN batch, NEW s \in BOOLEAN
          PROVE  [of |-> i, service |-> s] \in taken <=> \E r \in Taken : r.of = i /\ r.service = s
      OBVIOUS
    <3>6. ASSUME NEW i \in DOMAIN batch, NEW s \in BOOLEAN
          PROVE  [of |-> i, service |-> s] \in taken <=> [of |-> i, service |-> s] \in wanted
      <4>1. CASE s = TRUE
        BY <3>2, <3>4, <3>5, <4>1
      <4>2. CASE s = FALSE
        BY <3>2, <3>4, <3>5, <4>2
      <4> QED BY <4>1, <4>2
    <3>7. taken \subseteq Records /\ wanted \subseteq Records
      BY DEF TypeInv, TypeOK
    <3>8. \A x \in Records : \E i \in DOMAIN batch, s \in BOOLEAN : x = [of |-> i, service |-> s]
      BY DEF Records
    <3> HIDE DEF taken, wanted
    <3> QED BY <3>6, <3>7, <3>8
  <2>2. ASSUME outcome = "ok", config.mode = "jaeger" PROVE \A i \in DOMAIN batch : ServiceName(batch[i]) # << >>
    <3>1. \A i \in DOMAIN batch : i < next
      BY <2>0, <2>2 DEF PushInv
    <3> QED BY <2>2, <3>1 DEF PushInv, HasService
  <2> QED BY <2>1, <2>2 DEF PushTellsTheTruth
<1> QED BY <1>1, PushInvariant, PTL

-----------------------------------------------------------------------------
(* What the documents are, and what the store has of them.                  *)

DocumentOf(r) == IF r.service = TRUE THEN Document(r.of, TRUE, EmptyJson)
                 ELSE Document(r.of, FALSE, Encode(batch[r.of]))
IdOf(i)       == HashCode(Pair(i)[1], Pair(i)[2])

\* Every document is the encoding of its record; a record of services in the store is
\* of one that was taken, under its id, and one that settled but was not lost has an
\* id there; a document was refused for a reason that lasts.
StoreInv ==
  /\ \A r \in Taken : r = DocumentOf(r)
  /\ \A id \in DOMAIN services :
       \E s \in Taken : s.service = TRUE /\ services[id] = Pair(s.of) /\ id = IdOf(s.of)
  /\ \A r \in DOMAIN settled : r.service = TRUE /\ settled[r] # "lost" => IdOf(r.of) \in DOMAIN services
  /\ \A n \in DOMAIN index : index[n].service = FALSE
  /\ \A r \in DOMAIN settled : r.service = FALSE /\ settled[r] = "refused" => ~IsStorable(r)

\* What does not fit the index does not fit it with one document more.
LEMMA FitsKept ==
  ASSUME index \in Seq(Taken), NEW r, index' = Append(index, r), NEW d, FitsTheIndex(d)'
  PROVE  FitsTheIndex(d)
<1>1. \A n \in DOMAIN index : n \in DOMAIN index' /\ index'[n] = index[n]
  OBVIOUS
<1> QED BY <1>1 DEF FitsTheIndex

\* StoreInv depends on what is taken, on the store and on what settled.
LEMMA StoreInvKept ==
  ASSUME StoreInv, UNCHANGED <<config, batch, settled, index, services>>, Taken' = Taken
  PROVE  StoreInv'
<1>1. \A r : DocumentOf(r)' = DocumentOf(r)
  BY DEF DocumentOf, Encode, Fields, Prepared
<1>2. \A i : Pair(i)' = Pair(i) /\ IdOf(i)' = IdOf(i)
  BY DEF Pair, IdOf
<1>3. \A r : IsStorable(r)' <=> IsStorable(r)
  BY DEF IsStorable, FitsTheIndex
<1> HIDE DEF Taken
<1> QED BY <1>1, <1>2, <1>3 DEF StoreInv

\* The bulk indexer takes one document more.
LEMMA StoreInvAdds ==
  ASSUME StoreInv, UNCHANGED <<config, batch, settled, index, services>>,
         NEW d, Taken' = Taken \cup {d}, d = DocumentOf(d)
  PROVE  StoreInv'
<1>1. \A r : DocumentOf(r)' = DocumentOf(r)
  BY DEF DocumentOf, Encode, Fields, Prepared
<1>2. \A i : Pair(i)' = Pair(i) /\ IdOf(i)' = IdOf(i)
  BY DEF Pair, IdOf
<1>3. \A r : IsStorable(r)' <=> IsStorable(r)
  BY DEF IsStorable, FitsTheIndex
<1> HIDE DEF Taken
<1> QED BY <1>1, <1>2, <1>3 DEF StoreInv

\* A document settles: a span that is not storable may be refused, a record of
\* services is known under its id unless it is lost, and whatever is refused stays so.
LEMMA StoreInvSettles ==
  ASSUME StoreInv, TypeInv, UNCHANGED <<config, batch>>, NEW r \in accepted,
         Taken' = Taken,
         NEW fate, \/ UNCHANGED settled
                   \/ Settle(r, fate) /\ (r.service = FALSE /\ fate = "refused" => ~IsStorable(r)),
         r.service = TRUE /\ settled' # settled /\ fate # "lost" => IdOf(r.of) \in DOMAIN services',
         \/ UNCHANGED index
         \/ index' = Append(index, r) /\ r.service = FALSE,
         \/ UNCHANGED services
         \/ /\ services' = [i \in DOMAIN services \cup {IdOf(r.of)} |->
                              IF i \in DOMAIN services THEN services[i] ELSE Pair(r.of)]
            /\ r.service = TRUE
  PROVE  StoreInv'
<1>1. \A x : DocumentOf(x)' = DocumentOf(x)
  BY DEF DocumentOf, Encode, Fields, Prepared
<1>2. \A i : Pair(i)' = Pair(i) /\ IdOf(i)' = IdOf(i)
  BY DEF Pair, IdOf
<1>3. \A x : ~IsStorable(x) => ~IsStorable(x)'
  <2>1. CASE UNCHANGED index
    BY <2>1 DEF IsStorable, FitsTheIndex
  <2>2. CASE index' = Append(index, r)
    <3>1. \A x : FitsTheIndex(x)' => FitsTheIndex(x)
      BY <2>2, FitsKept DEF TypeInv
    <3> QED BY <3>1 DEF IsStorable
  <2> QED BY <2>1, <2>2
<1>4. r \in Taken
  BY DEF Taken
<1>5. \A x \in Taken' : x = DocumentOf(x)'
  <2> HIDE DEF Taken
  <2> QED BY <1>1 DEF StoreInv
<1>6. \A id \in DOMAIN services' :
        \E s \in Taken' : s.service = TRUE /\ services'[id] = Pair(s.of)' /\ id = IdOf(s.of)'
  <2> HIDE DEF Taken
  <2> QED BY <1>2, <1>4 DEF StoreInv
<1>7. DOMAIN services \subseteq DOMAIN services'
  OBVIOUS
<1>8. \A x \in DOMAIN settled' : x.service = TRUE /\ settled'[x] # "lost" => IdOf(x.of)' \in DOMAIN services'
  <2>1. CASE UNCHANGED settled
    BY <1>2, <1>7, <2>1 DEF StoreInv
  <2>2. CASE settled' # settled
    BY <1>2, <1>7, <2>2 DEF StoreInv, Settle
  <2> QED BY <2>1, <2>2
<1>9. \A n \in DOMAIN index' : index'[n].service = FALSE
  <2>1. CASE UNCHANGED index
    BY <2>1 DEF StoreInv
  <2>2. CASE index' = Append(index, r) /\ r.service = FALSE
    BY <2>2 DEF StoreInv, TypeInv
  <2> QED BY <2>1, <2>2
<1>10. \A x \in DOMAIN settled' : x.service = FALSE /\ settled'[x] = "refused" => ~IsStorable(x)'
  BY <1>3 DEF StoreInv, Settle
<1> HIDE DEF Taken
<1> QED BY <1>5, <1>6, <1>8, <1>9, <1>10 DEF StoreInv

\* StoreInv is preserved by every step.
THEOREM StoreInvariant == Spec => []StoreInv
<1>1. Init => StoreInv
  BY DEF Init, StoreInv, Taken
<1>2. TypeInv /\ PushInv /\ StoreInv /\ TypeInv' /\ [Next]_vars => StoreInv'
  <2> SUFFICES ASSUME TypeInv, PushInv, StoreInv, [Next]_vars PROVE StoreInv'
    OBVIOUS
  <2>1. ASSUME NEW ok \in BOOLEAN, PushRecord(ok) PROVE StoreInv'
    <3> DEFINE d == Document(next, FALSE, Encode(batch[next]))
    <3>1. UNCHANGED <<config, batch, settled, index, services>>
      BY <2>1 DEF PushRecord
    <3>2. CASE accepted' = accepted \cup {d}
      <4>1. Taken' = Taken \cup {d}
        BY <3>1, <3>2 DEF Taken
      <4>2. d = DocumentOf(d)
        BY DEF DocumentOf, Document
      <4> HIDE DEF d
      <4> QED BY <3>1, <4>1, <4>2, StoreInvAdds
    <3>3. CASE UNCHANGED accepted
      <4>1. Taken' = Taken
        BY <3>1, <3>3 DEF Taken
      <4> QED BY <3>1, <4>1, StoreInvKept
    <3> QED BY <2>1, <3>2, <3>3 DEF PushRecord
  <2>2. ASSUME NEW ok \in BOOLEAN, PushService(ok) PROVE StoreInv'
    <3> DEFINE d == Document(next, TRUE, EmptyJson)
    <3>1. UNCHANGED <<config, batch, settled, index, services>>
      BY <2>2 DEF PushService
    <3>2. CASE accepted' = accepted \cup {d}
      <4>1. Taken' = Taken \cup {d}
        BY <3>1, <3>2 DEF Taken
      <4>2. d = DocumentOf(d)
        BY DEF DocumentOf, Document
      <4> HIDE DEF d
      <4> QED BY <3>1, <4>1, <4>2, StoreInvAdds
    <3>3. CASE UNCHANGED accepted
      <4>1. Taken' = Taken
        BY <3>1, <3>3 DEF Taken
      <4> QED BY <3>1, <4>1, StoreInvKept
    <3> QED BY <2>2, <3>2, <3>3 DEF PushService
  <2>3. ASSUME UNCHANGED <<config, batch, storeVars>> PROVE StoreInv'
    <3>1. Taken' = Taken /\ UNCHANGED <<config, batch, settled, index, services>>
      BY <2>3 DEF storeVars, Taken
    <3> QED BY <3>1, StoreInvKept
  <2>4. ASSUME NEW r \in accepted PROVE r.service = TRUE \/ r.service = FALSE
    BY DEF Taken, TypeInv, TypeOK, Records
  <2>5. ASSUME NEW r \in accepted, NEW fate, Settle(r, fate) PROVE Taken' = Taken
    BY <2>5 DEF Settle, Taken
  <2>6. ASSUME NEW r \in accepted, NEW again \in BOOLEAN, StoreSpan(r, again) PROVE StoreInv'
    <3>1. /\ r.service = FALSE /\ UNCHANGED <<config, batch, services>> /\ index' = Append(index, r)
          /\ UNCHANGED <<accepted, settled>> \/ Settle(r, "stored")
      BY <2>4, <2>6 DEF StoreSpan
    <3>2. Taken' = Taken
      BY <2>5, <3>1 DEF Taken
    <3>3. UNCHANGED settled \/ (Settle(r, "stored") /\ (r.service = FALSE /\ "stored" = "refused" => ~IsStorable(r)))
      BY <3>1
    <3>4. r.service # TRUE
      BY <3>1
    <3> QED BY <3>1, <3>2, <3>3, <3>4, StoreInvSettles
  <2>7. ASSUME NEW r \in accepted, NEW again \in BOOLEAN, StoreService(r, again) PROVE StoreInv'
    <3>1. /\ r.service = TRUE /\ UNCHANGED <<config, batch, index>>
          /\ services' = [i \in DOMAIN services \cup {IdOf(r.of)} |->
                            IF i \in DOMAIN services THEN services[i] ELSE Pair(r.of)]
      BY <2>4, <2>7 DEF StoreService, Pair, IdOf
    <3>2. IdOf(r.of) \in DOMAIN services'
      BY <3>1
    <3>3. CASE UNCHANGED <<accepted, settled>>
      <4>1. Taken' = Taken
        BY <3>3 DEF Taken
      <4> QED BY <3>1, <3>2, <3>3, <4>1, StoreInvSettles
    <3>4. ASSUME NEW fate, Settle(r, fate) PROVE StoreInv'
      BY <2>5, <3>1, <3>2, <3>4, StoreInvSettles
    <3> QED BY <2>7, <3>3, <3>4 DEF StoreService
  <2>8. ASSUME NEW r \in accepted, Refuse(r) PROVE StoreInv'
    BY <2>4, <2>5, <2>8, StoreInvSettles DEF Refuse
  <2>9. ASSUME NEW r \in accepted, Lose(r) PROVE StoreInv'
    <3>1. /\ UNCHANGED <<config, batch, index, services>> /\ Taken' = Taken
          /\ Settle(r, "lost") /\ (r.service = FALSE /\ "lost" = "refused" => ~IsStorable(r))
      BY <2>5, <2>9 DEF Lose
    <3> QED BY <3>1, StoreInvSettles
  <2>10. ASSUME Query PROVE StoreInv'
    BY <2>3, <2>10 DEF Query, FindTraceIds, MultiGetTraces, GetTrace, GetService, GetOperations, Ask
  <2>11. ASSUME Cancel \/ UNCHANGED vars PROVE StoreInv'
    BY <2>3, <2>11 DEF Cancel, vars
  <2> QED BY <2>1, <2>2, <2>6, <2>7, <2>8, <2>9, <2>10, <2>11 DEF Next, Push, Deliver
<1> QED BY <1>1, <1>2, PushInvariant, PTL DEF Spec

\* The id of a record of services that settled and was not lost is there, with the
\* service and operation of a span whose names run together to that id.
THEOREM ServicesHeld == Spec => []ServicesAreHeld
<1>1. StoreInv => ServicesAreHeld
  <2> SUFFICES ASSUME StoreInv, NEW r \in DOMAIN settled, r.service, settled[r] # "lost"
               PROVE  /\ IdOf(r.of) \in DOMAIN services
                      /\ \E s \in Taken : /\ s.service /\ services[IdOf(r.of)] = Pair(s.of)
                                          /\ IdOf(s.of) = IdOf(r.of)
    BY DEF ServicesAreHeld, IdOf
  <2>1. r = DocumentOf(r)
    BY DEF StoreInv, Taken
  <2>2. r.service = TRUE
    BY <2>1 DEF DocumentOf, Document
  <2>3. IdOf(r.of) \in DOMAIN services
    BY <2>2 DEF StoreInv
  <2>4. PICK s \in Taken : s.service = TRUE /\ services[IdOf(r.of)] = Pair(s.of) /\ IdOf(r.of) = IdOf(s.of)
    <3> HIDE DEF Taken, IdOf
    <3> QED BY <2>3 DEF StoreInv
  <2> HIDE DEF Taken, IdOf
  <2> QED BY <2>3, <2>4
<1> QED BY <1>1, StoreInvariant, PTL

-----------------------------------------------------------------------------
(* What comes of the documents is left to the encoding alone: the order in  *)
(* which they are stored, lost answers, a canceled push and a search in     *)
(* between change nothing about it.                                         *)

\* The encoding of each record of the batch holds its fields ...
EncodingHolds ==
  config.mode = "ecs" => \A i \in DOMAIN batch : Holds(Range(LeafFields(Encode(batch[i]))), Fields(batch[i]))

\* ... is well nested, as an empty document is ...
EncodingNests == IsWellNested(EmptyJson) /\ \A i \in DOMAIN batch : IsWellNested(Encode(batch[i]))

\* ... and can be stored by itself, when its names are clean and dedup is on.
EncodingStores ==
  config.dedup => \A i \in DOMAIN batch :
    IsClean(Fields(batch[i])) => Storable(LeafFields(Encode(batch[i])))

\* A document that is taken is the encoding of a record of the batch.
LEMMA DocumentsAreEncodings ==
  ASSUME TypeInv, StoreInv, NEW r \in Taken
  PROVE  /\ r.of \in DOMAIN batch /\ r.fields = LeafFields(r.json)
         /\ \/ r.service = TRUE /\ r.json = EmptyJson
            \/ r.service = FALSE /\ r.json = Encode(batch[r.of])
<1>1. r.of \in DOMAIN batch
  BY DEF TypeInv, TypeOK, Records
<1>2. r = DocumentOf(r)
  BY DEF StoreInv
<1> QED BY <1>1, <1>2 DEF DocumentOf, Document

\* If the encodings hold their records, the index does.
LEMMA HeldAsEncoded == Spec => [](EncodingHolds => DocumentsHoldTheirRecords)
<1>1. TypeInv /\ StoreInv /\ EncodingHolds => RecordsAreHeld
  <2> SUFFICES ASSUME TypeInv, StoreInv, EncodingHolds, config.mode = "ecs", NEW n \in DOMAIN index
               PROVE  Holds(Range(index[n].fields), Fields(batch[index[n].of]))
    BY DEF RecordsAreHeld
  <2>1. index[n] \in Taken /\ index[n].service = FALSE
    BY DEF TypeInv, StoreInv
  <2>2. /\ index[n].of \in DOMAIN batch /\ index[n].fields = LeafFields(index[n].json)
        /\ index[n].json = Encode(batch[index[n].of])
    BY <2>1, DocumentsAreEncodings
  <2> QED BY <2>2 DEF EncodingHolds
<1>2. RecordsAreHeld /\ ServicesAreHeld => DocumentsHoldTheirRecords
  BY DEF DocumentsHoldTheirRecords
<1> QED BY <1>1, <1>2, PushInvariant, StoreInvariant, ServicesHeld, PTL

\* If the encodings are well nested, so is every document that is taken.
LEMMA NestedAsEncoded == Spec => [](EncodingNests => JsonIsWellNested)
<1>1. TypeInv /\ StoreInv /\ EncodingNests => JsonIsWellNested
  BY DocumentsAreEncodings DEF EncodingNests, JsonIsWellNested
<1> QED BY <1>1, PushInvariant, StoreInvariant, PTL

\* If dedup makes the encodings storable, a document is refused only because of the
\* documents before it, and goes on to be in conflict with them.
LEMMA RefusedAsEncoded == Spec => [](EncodingStores => DedupPreventsRefusal)
<1>1. TypeInv /\ StoreInv /\ EncodingStores => DedupPreventsRefusal
  <2> SUFFICES ASSUME TypeInv, StoreInv, EncodingStores, config.dedup, NEW r \in DOMAIN settled,
                      settled[r] = "refused", ~r.service, IsClean(Fields(batch[r.of]))
               PROVE  ~FitsTheIndex(r)
    BY DEF DedupPreventsRefusal
  <2>1. r \in Taken
    BY DEF Taken
  <2>2. /\ r.of \in DOMAIN batch /\ r.fields = LeafFields(r.json)
        /\ r.service = FALSE /\ r.json = Encode(batch[r.of])
    BY <2>1, DocumentsAreEncodings
  <2>3. ~IsStorable(r)
    BY <2>2 DEF StoreInv
  <2>4. Storable(r.fields)
    BY <2>2 DEF EncodingStores
  <2> QED BY <2>3, <2>4 DEF IsStorable
<1> QED BY <1>1, PushInvariant, StoreInvariant, PTL

-----------------------------------------------------------------------------
(* What the query extension answers.                                        *)

\* The span is of the service: it has one that has the word, or any will do.
IsSpanOf(span, service) ==
  service = "" \/ (ServiceName(span) # << >> /\ service \in Words[ServiceName(span)[1]])

\* A document is read back as the span that it stands for, its name and kind are found
\* in it, and it is found by the words of its service.
IsReadAs(span, d) ==
  /\ ReadBackAs(SpanOf(d.json), span)
  /\ Indexed(d, <<"Name">>) = span.Name /\ Indexed(d, <<"Kind">>) = span.Kind
  /\ SaysItsService(span) => \A service : IsOfService(d, service) <=> IsSpanOf(span, service)

\* The encoding of every span is.
EncodingIsRead ==
  config.signal = "traces" /\ config.mode = "ecs" =>
    \A i \in DOMAIN batch : IsReadAs(batch[i], Document(i, FALSE, Encode(batch[i])))

\* A search goes on only for spans.
SearchIsForSpans == search.active => config.signal = "traces" /\ config.mode = "ecs"

\* The first of some hits are of these hits.
LEMMA FirstAreHits ==
  ASSUME index \in Seq(Taken), NEW hits \in SUBSET DOMAIN index, NEW size \in Nat,
         NEW i \in DOMAIN FirstOf(hits, size)
  PROVE  \E n \in hits : FirstOf(hits, size)[i] = index[n].json
<1> DEFINE order == InOrder(hits)
           bound == Min({size, Len(order)})
<1>1. hits \in SUBSET Nat /\ IsFiniteSet(hits)
  <2>1. DOMAIN index = 1 .. Len(index) /\ Len(index) \in Nat
    OBVIOUS
  <2>2. IsFiniteSet(1 .. Len(index))
    BY <2>1, FS_Interval
  <2> QED BY <2>1, <2>2, FS_Subset
<1>2. /\ Cardinality(hits) \in Nat /\ Len(order) = Cardinality(hits)
      /\ order \in [1 .. Cardinality(hits) -> hits]
  BY <1>1, InOrderType
<1>3. FirstOf(hits, size) = [j \in 1 .. bound |-> index[order[j]].json]
  BY DEF FirstOf
<1> HIDE DEF order
<1>4. bound \in Nat /\ bound <= Len(order)
  <2>1. \E m \in {size, Len(order)} : \A n \in {size, Len(order)} : m <= n
    BY <1>2
  <2>2. bound \in {size, Len(order)} /\ bound <= Len(order)
    BY <2>1 DEF Min
  <2> QED BY <1>2, <2>2
<1> HIDE DEF bound
<1>5. i \in 1 .. Cardinality(hits) /\ FirstOf(hits, size)[i] = index[order[i]].json
  BY <1>2, <1>3, <1>4
<1> QED BY <1>2, <1>5

\* What is read from the first hits are spans of the index.
LEMMA HitsAreReadBack ==
  ASSUME TypeInv, StoreInv, EncodingIsRead, config.signal = "traces", config.mode = "ecs",
         NEW hits \in SUBSET DOMAIN index, NEW size \in Nat
  PROVE  SpansAreReadBack(DocumentsResourceSpansConvert(FirstOf(hits, size)))
<1> DEFINE jsons == FirstOf(hits, size)
           spans == DocumentsResourceSpansConvert(jsons)
<1>1. index \in Seq(Taken) /\ DOMAIN spans = DOMAIN jsons /\ \A n \in DOMAIN jsons : spans[n] = SpanOf(jsons[n])
  BY DEF TypeInv, DocumentsResourceSpansConvert
<1>2. ASSUME NEW n \in DOMAIN jsons PROVE \E m \in hits : jsons[n] = index[m].json
  BY <1>1, FirstAreHits
<1> HIDE DEF jsons, spans
<1>3. ASSUME NEW n \in DOMAIN spans
      PROVE  \E i \in {d.of : d \in Range(index)} : ReadBackAs(spans[n], batch[i])
  <2>1. PICK m \in hits : spans[n] = SpanOf(index[m].json)
    BY <1>1, <1>2
  <2>2. index[m] \in Taken /\ index[m].service = FALSE /\ index[m] \in Range(index)
    BY DEF TypeInv, StoreInv, Range
  <2>3. index[m].of \in DOMAIN batch /\ index[m].json = Encode(batch[index[m].of])
    BY <2>2, DocumentsAreEncodings
  <2>4. spans[n] = SpanOf(Encode(batch[index[m].of]))
    BY <2>1, <2>3
  <2>5. index[m].of \in {d.of : d \in Range(index)}
    BY <2>2
  <2>6. Document(index[m].of, FALSE, Encode(batch[index[m].of])).json = Encode(batch[index[m].of])
    BY DEF Document
  <2>7. IsReadAs(batch[index[m].of], Document(index[m].of, FALSE, Encode(batch[index[m].of])))
    BY <2>3 DEF EncodingIsRead
  <2> QED BY <2>4, <2>5, <2>6, <2>7 DEF IsReadAs
<1> QED BY <1>3 DEF SpansAreReadBack, spans, jsons

\* The operations found for a service are those of its spans.
LEMMA OperationsAreFound ==
  ASSUME TypeInv, StoreInv, EncodingIsRead, config.signal = "traces", config.mode = "ecs",
         NEW service, NEW kind, NEW names \in Operations(service, kind)
  PROVE  OperationsAreTheServices(service, kind, names)
<1> DEFINE IsKind(k) == IF kind = "" THEN k # "INTERNAL" ELSE k = kind
           Wanted(span) == IsSpanOf(span, service) /\ IsKind(span.Kind)
           stored == {batch[d.of] : d \in Range(index)}
           all    == {span.Name : span \in {s \in stored : Wanted(s)}}
           hits   == {n \in DOMAIN index : IsOfService(index[n], service) /\ IsOfKind(index[n], kind)}
           found  == {Indexed(index[n], <<"Name">>) : n \in hits}
<1> SUFFICES ASSUME \A i \in DOMAIN batch : SaysItsService(batch[i])
             PROVE  /\ names \subseteq all \ {NoText}
                    /\ names = all \ {NoText} \/ Cardinality(names) = OperationsSize
  BY Zenon DEF OperationsAreTheServices, IsSpanOf, NoText
<1>1. /\ names \in SUBSET (found \ {NoText})
      /\ Cardinality(names) = Min({OperationsSize, Cardinality(found \ {NoText})})
  BY Zenon DEF Operations, MostFrequent, Hits, NoText
<1>2. ASSUME NEW n \in DOMAIN index
      PROVE  /\ index[n] \in Range(index)
             /\ Indexed(index[n], <<"Name">>) = batch[index[n].of].Name
             /\ n \in hits <=> Wanted(batch[index[n].of])
  <2>1. index[n] \in Taken /\ index[n].service = FALSE /\ index[n] \in Range(index)
    BY DEF TypeInv, StoreInv, Range
  <2>2. index[n].of \in DOMAIN batch
    BY <2>1, DocumentsAreEncodings
  <2>3. index[n] = Document(index[n].of, FALSE, Encode(batch[index[n].of]))
    BY <2>1 DEF StoreInv, DocumentOf
  <2>4. IsReadAs(batch[index[n].of], index[n]) /\ SaysItsService(batch[index[n].of])
    BY <2>2, <2>3 DEF EncodingIsRead
  <2>5. /\ Indexed(index[n], <<"Name">>) = batch[index[n].of].Name
        /\ IsOfKind(index[n], kind) <=> IsKind(batch[index[n].of].Kind)
        /\ IsOfService(index[n], service) <=> IsSpanOf(batch[index[n].of], service)
    BY <2>4, Zenon DEF IsReadAs, IsOfKind
  <2> HIDE DEF IsKind
  <2> QED BY <2>1, <2>5
<1>3. found = all
  <2> HIDE DEF Wanted, hits
  <2>1. \A s \in stored : \E n \in DOMAIN index : s = batch[index[n].of]
    BY DEF Range
  <2>2. \A n \in DOMAIN index : batch[index[n].of] \in stored
    BY <1>2
  <2>3. hits \in SUBSET DOMAIN index
    BY DEF hits
  <2>4. \A x \in found : x \in all
    BY <1>2, <2>2, <2>3
  <2>5. \A x \in all : x \in found
    BY <1>2, <2>1
  <2> HIDE DEF found, all
  <2> QED BY <2>4, <2>5
<1>4. IsFiniteSet(found \ {NoText})
  <2>1. Len(index) \in Nat /\ DOMAIN index = 1 .. Len(index)
    BY DEF TypeInv
  <2>2. IsFiniteSet(DOMAIN index)
    BY <2>1, FS_Interval
  <2>3. hits \in SUBSET DOMAIN index
    OBVIOUS
  <2> HIDE DEF hits
  <2>4. IsFiniteSet(hits)
    BY ONLY <2>2, <2>3, FS_Subset
  <2>5. IsFiniteSet(found)
    <3> DEFINE f == [n \in hits |-> Indexed(index[n], <<"Name">>)]
    <3>1. f \in Surjection(hits, found)
      BY DEF Surjection
    <3> HIDE DEF f, found
    <3> QED BY ONLY <2>4, <3>1, FS_Surjection
  <2>6. found \ {NoText} \in SUBSET found
    OBVIOUS
  <2> HIDE DEF found
  <2> QED BY ONLY <2>5, <2>6, FS_Subset
<1> HIDE DEF found, all
<1>5. Cardinality(names) = OperationsSize \/ Cardinality(names) = Cardinality(found \ {NoText})
  <2>1. OperationsSize \in Nat /\ Cardinality(found \ {NoText}) \in Nat
    BY <1>4, FS_CardinalityType, StoreAssumption DEF StoreAssumption
  <2>2. \E m \in {OperationsSize, Cardinality(found \ {NoText})} :
          \A n \in {OperationsSize, Cardinality(found \ {NoText})} : m <= n
    BY <2>1
  <2>3. Min({OperationsSize, Cardinality(found \ {NoText})}) \in {OperationsSize, Cardinality(found \ {NoText})}
    BY <2>2 DEF Min
  <2> QED BY <1>1, <2>3
<1>6. Cardinality(names) = Cardinality(found \ {NoText}) => names = found \ {NoText}
  BY ONLY <1>1, <1>4, FS_Subset
<1> QED BY <1>1, <1>3, <1>5, <1>6

\* The query extension shows what is in the index, if the encoding is read back.
LEMMA AnsweredAsRead == Spec /\ EncodingIsRead => AnswersShowTheIndex
<1>1. ASSUME EncodingIsRead, [Next]_vars PROVE EncodingIsRead'
  <2>1. UNCHANGED <<config, batch>>
    BY <1>1 DEF Next, Push, Deliver, Query, PushRecord, PushService, Cancel, StoreSpan, StoreService, Refuse, Lose,
                FindTraceIds, MultiGetTraces, GetTrace, GetService, GetOperations, Ask, vars
  <2>2. \A record : Encode(record)' = Encode(record)
    BY <2>1 DEF Encode, Fields, Prepared
  <2>3. \A span, d : IsReadAs(span, d)' <=> IsReadAs(span, d)
    BY <2>1 DEF IsReadAs, ReadBackAs, IsPlain, Fields
  <2> QED BY <1>1, <2>1, <2>2, <2>3 DEF EncodingIsRead
<1>2. SpansAreReadBack(NoAnswer.spans) /\ SpansAreReadBack(<< >>)
  BY DEF NoAnswer, SpansAreReadBack
<1>3. Init => SearchIsForSpans
  BY DEF Init, NoSearch, SearchIsForSpans
<1>4. ASSUME SearchIsForSpans, [Next]_vars PROVE SearchIsForSpans'
  <2>1. UNCHANGED <<config, batch>>
    BY <1>4 DEF Next, Push, Deliver, Query, PushRecord, PushService, Cancel, StoreSpan, StoreService, Refuse, Lose,
                FindTraceIds, MultiGetTraces, GetTrace, GetService, GetOperations, Ask, vars
  <2>2. search' = search \/ search' = NoSearch \/ (config.signal = "traces" /\ config.mode = "ecs")
    BY <1>4 DEF Next, Push, Deliver, Query, PushRecord, PushService, Cancel, StoreSpan, StoreService, Refuse, Lose,
                FindTraceIds, MultiGetTraces, GetTrace, GetService, GetOperations, Ask, vars, queryVars
  <2> QED BY <1>4, <2>1, <2>2, SMTT(30) DEF SearchIsForSpans, NoSearch
<1>5. ASSUME TypeInv, StoreInv, SearchIsForSpans, EncodingIsRead, [Next]_vars, answer' # answer
      PROVE  /\ SpansAreReadBack(answer'.spans)
             /\ answer'.call = "GetOperations" =>
                  OperationsAreTheServices(answer'.of, answer'.kind, answer'.names)
  <2>1. CASE \E fails \in BOOLEAN : MultiGetTraces(fails)
    <3>1. PICK fails \in BOOLEAN : MultiGetTraces(fails)
      BY <2>1
    <3> DEFINE hits  == Hits(LAMBDA d : Indexed(d, <<"TraceId">>) \in search.ids)
               spans == IF fails THEN << >> ELSE DocumentsResourceSpansConvert(FirstOf(hits, SearchSize))
    <3>2. answer'.spans = spans /\ answer'.call = "SearchTraces" /\ search.active
      BY <3>1 DEF MultiGetTraces, NoAnswer
    <3>3. hits \in SUBSET DOMAIN index
      BY DEF Hits
    <3> HIDE DEF hits
    <3>4. SpansAreReadBack(DocumentsResourceSpansConvert(FirstOf(hits, SearchSize)))
      BY <1>5, <3>2, <3>3, HitsAreReadBack, StoreAssumption DEF StoreAssumption, SearchIsForSpans
    <3>5. SpansAreReadBack(spans)
      BY <1>2, <3>4
    <3> QED BY <3>2, <3>5
  <2>2. CASE \E t \in {Texts(record).TraceId : record \in Range(batch)} : GetTrace(t)
    <3>1. PICK t : GetTrace(t)
      BY <2>2
    <3> DEFINE hits == Hits(LAMBDA d : HasTerm(d, <<"TraceId">>, t))
    <3>2. /\ answer'.spans = DocumentsResourceSpansConvert(FirstOf(hits, DefaultSize))
          /\ answer'.call = "GetTrace" /\ config.signal = "traces" /\ config.mode = "ecs"
      BY <3>1 DEF GetTrace, Ask, NoAnswer
    <3>3. hits \in SUBSET DOMAIN index
      BY DEF Hits
    <3> HIDE DEF hits
    <3>4. SpansAreReadBack(DocumentsResourceSpansConvert(FirstOf(hits, DefaultSize)))
      BY <1>5, <3>2, <3>3, HitsAreReadBack, StoreAssumption DEF StoreAssumption
    <3> QED BY <3>2, <3>4
  <2>3. CASE GetService
    <3>1. answer'.spans = NoAnswer.spans /\ answer'.call = "GetService"
      BY <2>3 DEF GetService, NoAnswer
    <3> QED BY <1>2, <3>1
  <2>4. CASE \E q \in OperationQueries : GetOperations(q.service, q.kind)
    <3>1. PICK service, kind : GetOperations(service, kind)
      BY <2>4
    <3>2. PICK names \in Operations(service, kind) :
            answer' = [NoAnswer EXCEPT !.call = "GetOperations", !.of = service, !.kind = kind, !.names = names]
      BY <3>1 DEF GetOperations
    <3>3. config.signal = "traces" /\ config.mode = "ecs"
      BY <3>1 DEF GetOperations, Ask
    <3>4. /\ answer'.spans = NoAnswer.spans /\ answer'.of = service /\ answer'.kind = kind
          /\ answer'.names = names
      BY <3>2 DEF NoAnswer
    <3> QED BY <1>2, <1>5, <3>3, <3>4, OperationsAreFound
  <2> QED
    BY <1>5, <2>1, <2>2, <2>3, <2>4
    DEF Next, Push, Deliver, Query, PushRecord, PushService, Cancel, StoreSpan, StoreService, Refuse, Lose,
        FindTraceIds, vars, queryVars
<1> QED BY <1>1, <1>3, <1>4, <1>5, PushInvariant, StoreInvariant, PTL DEF Spec, AnswersShowTheIndex

-----------------------------------------------------------------------------
(* The traces of an answer.                                                 *)

\* DocumentsTracesConvert goes from span to span.
LEMMA AddResourceSteps ==
  ASSUME NEW X, NEW spans \in Seq(X)
  PROVE  LET U == {spans[n].resource : n \in 1 .. Len(spans)}
         IN  \E h \in [0 .. Len(spans) -> Seq(U)] :
               /\ h[0] = << >> /\ h[Len(spans)] = FoldLeft(AddResource, << >>, spans)
               /\ \A n \in 1 .. Len(spans) : h[n] = AddResource(h[n - 1], spans[n])
<1> DEFINE N == Len(spans)
           U == {spans[n].resource : n \in 1 .. N}
           V == Seq(U)
           g == [x \in (1 .. N) \X V |-> AddResource(x[2], spans[x[1]])]
           E(k) == k = [S \in SUBSET (1 .. N) |->
                          IF S = {} THEN << >> ELSE AddResource(k[S \ {Max(S)}], spans[Max(S)])]
           it == CHOOSE k : E(k)
<1>1. N \in Nat /\ DOMAIN spans = 1 .. N
  OBVIOUS
<1>2. ASSUME NEW v \in V, NEW n \in 1 .. N PROVE AddResource(v, spans[n]) \in V
  <2>1. spans[n].resource \in U
    OBVIOUS
  <2> HIDE DEF U
  <2>2. Append(v, spans[n].resource) \in Seq(U)
    BY <2>1
  <2> QED BY <2>2 DEF AddResource
<1> HIDE DEF N, U
<1>3. FoldLeft(AddResource, << >>, spans) = it[1 .. N]
  BY <1>1, Zenon DEF FoldLeft, MapThenFoldSet
<1>4. g \in [(1 .. N) \X V -> V] /\ << >> \in V
  BY <1>2
<1>5. PICK k : IsFold(k, N, V, << >>, g)
  <2> HIDE DEF g, V
  <2> QED BY <1>1, <1>4, FoldExists
<1>6. E(k)
  <2> USE <1>5 DEF IsFold
  <2> SUFFICES ASSUME NEW S \in SUBSET (1 .. N)
               PROVE  k[S] = IF S = {} THEN << >> ELSE AddResource(k[S \ {Max(S)}], spans[Max(S)])
    OBVIOUS
  <2>1. CASE S # {}
    <3>1. Max(S) \in 1 .. N
      BY <1>1, <2>1, GreatestOf
    <3> HIDE DEF V
    <3> QED BY <2>1, <3>1
  <2> QED BY <2>1
<1>7. E(it)
  <2> HIDE DEF E
  <2> QED BY <1>6
<1> HIDE DEF it
<1>8. it[{}] = << >>
  BY <1>7
<1>9. \A n \in 1 .. N : it[1 .. n] = AddResource(it[1 .. n - 1], spans[n])
  <2> SUFFICES ASSUME NEW n \in 1 .. N PROVE it[1 .. n] = AddResource(it[1 .. n - 1], spans[n])
    OBVIOUS
  <2>1. 1 .. n # {} /\ Max(1 .. n) = n /\ (1 .. n) \ {Max(1 .. n)} = 1 .. n - 1
    <3>1. n \in Nat \ {0}
      BY <1>1
    <3> QED BY ONLY <3>1, FirstPositions
  <2>2. 1 .. n \in SUBSET (1 .. N)
    BY <1>1
  <2> QED BY <1>7, <2>1, <2>2
<1>10. \A n \in 1 .. N : it[1 .. n - 1] \in V => it[1 .. n] = g[<<n, it[1 .. n - 1]>>]
  <2> HIDE DEF V
  <2> QED BY <1>9
<1>11. \A n \in 1 .. N : \A v \in V : g[<<n, v>>] = AddResource(v, spans[n])
  <2> HIDE DEF V
  <2> QED OBVIOUS
<1> HIDE DEF g, V
<1>12. PICK h : IsHistory(h, N, V, << >>, it[1 .. N], g)
  BY <1>1, <1>4, <1>8, <1>10, FoldSteps
<1>13. /\ h \in [0 .. N -> V] /\ h[0] = << >> /\ h[N] = it[1 .. N]
       /\ \A n \in 1 .. N : h[n] = AddResource(h[n - 1], spans[n])
  <2>1. /\ h \in [0 .. N -> V] /\ h[0] = << >> /\ h[N] = it[1 .. N]
        /\ \A n \in 1 .. N : h[n] = g[<<n, h[n - 1]>>]
    BY <1>12 DEF IsHistory
  <2>2. \A n \in 1 .. N : h[n - 1] \in V
    BY <1>1, <2>1
  <2> QED BY <1>11, <2>1, <2>2
<1> QED BY <1>3, <1>13 DEF N, U, V

\* The processes of a trace are the services of its spans, none left out.
LEMMA ProcessesAreServices ==
  ASSUME NEW X, NEW spans \in Seq(X), NEW id
  PROVE  Range(TraceOf(id, spans).processes) = {ServiceOf(spans[i].resource) : i \in DOMAIN spans} \ {""}
<1> DEFINE N == Len(spans)
           U == {spans[n].resource : n \in 1 .. N}
           resources == FoldLeft(AddResource, << >>, spans)
           Services(r) == {ServiceOf(r[j]) : j \in DOMAIN r}
           Of(n) == {ServiceOf(spans[i].resource) : i \in 1 .. n} \ {""}
<1>1. N \in Nat /\ DOMAIN spans = 1 .. N
  OBVIOUS
<1>2. PICK h \in [0 .. N -> Seq(U)] :
        /\ h[0] = << >> /\ h[N] = resources
        /\ \A n \in 1 .. N : h[n] = AddResource(h[n - 1], spans[n])
  BY AddResourceSteps
<1> HIDE DEF U, resources
<1> DEFINE Good == {n \in 0 .. N : Services(h[n]) = Of(n)}
<1>3. 0 \in Good
  <2>1. DOMAIN h[0] = {} /\ 1 .. 0 = {} /\ 0 \in 0 .. N
    BY <1>1, <1>2
  <2>2. Services(h[0]) = {} /\ Of(0) = {}
    BY <2>1
  <2> HIDE DEF Services, Of
  <2> QED BY <2>1, <2>2
<1>4. ASSUME NEW n \in 1 .. N, n - 1 \in Good PROVE n \in Good
  <2> DEFINE r == h[n - 1]
             q == h[n]
             x == spans[n].resource
  <2>1. Services(r) = Of(n - 1) /\ r \in Seq(U) /\ q = AddResource(r, spans[n]) /\ n \in 0 .. N
    <3>1. n - 1 \in 0 .. N /\ n \in 0 .. N
      BY <1>1
    <3> HIDE DEF Services, Of
    <3> QED BY <1>2, <1>4, <3>1
  <2>2. 1 .. n = (1 .. n - 1) \cup {n}
    BY <1>1
  <2>3. Of(n) = Of(n - 1) \cup ({ServiceOf(x)} \ {""})
    BY <2>2
  <2> HIDE DEF Of, r, q, x
  <2>4. CASE ServiceOf(x) = ""
    <3>1. q = r
      BY <2>1, <2>4 DEF AddResource, x
    <3> QED BY <2>1, <2>3, <2>4, <3>1 DEF q, r
  <2>5. CASE ServiceOf(x) # "" /\ r # << >> /\ \A i \in DOMAIN r : ServiceOf(r[i]) = ServiceOf(x)
    <3>1. q = r
      BY <2>1, <2>5 DEF AddResource, x
    <3>2. 1 \in DOMAIN r
      <4>1. \A z \in Seq(U) : z # << >> => 1 \in DOMAIN z
        OBVIOUS
      <4> QED BY <2>1, <2>5, <4>1
    <3>3. ServiceOf(x) \in Services(r)
      BY <2>5, <3>2
    <3> HIDE DEF Services
    <3> QED BY <2>1, <2>3, <3>1, <3>3 DEF q, r
  <2>6. CASE ServiceOf(x) # "" /\ ~(r # << >> /\ \A i \in DOMAIN r : ServiceOf(r[i]) = ServiceOf(x))
    <3>1. q = Append(r, x)
      BY <2>1, <2>6, Zenon DEF AddResource, x
    <3>2. x \in U
      BY DEF x, U
    <3>3. /\ DOMAIN q = DOMAIN r \cup {Len(r) + 1} /\ q[Len(r) + 1] = x
          /\ \A j \in DOMAIN r : q[j] = r[j]
      BY <2>1, <3>1, <3>2
    <3>4. Services(q) = Services(r) \cup {ServiceOf(x)}
      BY <3>3
    <3> HIDE DEF Services
    <3> QED BY <2>1, <2>3, <2>6, <3>4 DEF q
  <2> QED BY <2>4, <2>5, <2>6
<1>5. N \in Good
  <2> HIDE DEF Good
  <2>1. \A n \in 0 .. N : n \in Good
    BY <1>1, <1>3, <1>4, UpTo
  <2> QED BY <1>1, <2>1
<1>6. Services(resources) = {ServiceOf(spans[i].resource) : i \in DOMAIN spans} \ {""}
  BY <1>1, <1>2, <1>5
<1>7. TraceOf(id, spans).processes = [i \in DOMAIN resources |-> ServiceOf(resources[i])]
  BY DEF TraceOf, resources
<1>8. Range(TraceOf(id, spans).processes) = Services(resources)
  BY <1>7 DEF Range
<1> QED BY <1>6, <1>8

\* The root of a trace is the first span whose parent is not there.
LEMMA RootIsFirst ==
  ASSUME NEW X, NEW spans \in Seq(X), NEW r \in DOMAIN spans,
         \A i \in DOMAIN spans : spans[i].SpanId # spans[r].ParentSpanId
  PROVE  LET root == FindRootSpan(spans)
         IN  root \in DOMAIN spans /\ \A i \in DOMAIN spans : spans[i].SpanId # spans[root].ParentSpanId
<1> DEFINE Tops == {n \in 1 .. Len(spans) : \A i \in DOMAIN spans : spans[i].SpanId # spans[n].ParentSpanId}
<1>1. DOMAIN spans = 1 .. Len(spans)
  OBVIOUS
<1>2. FindRootSpan(spans) = IF Tops # {} THEN Min(Tops) ELSE 0
  BY DEF FindRootSpan, SelectInSeq
<1>3. r \in Tops /\ Tops \in SUBSET Nat
  BY <1>1
<1>4. Min(Tops) \in Tops
  <2> HIDE DEF Tops
  <2>1. \E m \in Tops : \A n \in Tops : m <= n
    BY <1>3, LeastOf
  <2> QED BY <2>1 DEF Min
<1>5. FindRootSpan(spans) \in Tops
  <2> HIDE DEF Tops
  <2> QED BY <1>2, <1>3, <1>4
<1> QED BY <1>1, <1>5

\* What an answer shows are encodings of records of the batch, and the traces are those
\* of its spans.
AnswerInv ==
  /\ SearchIsForSpans
  /\ answer.spans \in Seq(Range(answer.spans))
  /\ answer.spans # << >> => config.signal = "traces" /\ config.mode = "ecs"
  /\ \A m \in DOMAIN answer.spans : \E i \in DOMAIN batch : answer.spans[m] = SpanOf(Encode(batch[i]))
  /\ answer.traces \in {<< >>, DocumentsTracesConvert(answer.spans)}

\* What is read from hits are encodings.
LEMMA HitsAreEncodings ==
  ASSUME TypeInv, StoreInv, NEW hits \in SUBSET DOMAIN index, NEW size \in Nat
  PROVE  LET spans == DocumentsResourceSpansConvert(FirstOf(hits, size))
         IN  /\ spans \in Seq(Range(spans))
             /\ \A n \in DOMAIN spans : \E i \in DOMAIN batch : spans[n] = SpanOf(Encode(batch[i]))
<1> DEFINE jsons == FirstOf(hits, size)
           spans == DocumentsResourceSpansConvert(jsons)
           order == InOrder(hits)
           bound == Min({size, Len(order)})
<1>1. index \in Seq(Taken) /\ DOMAIN spans = DOMAIN jsons /\ \A n \in DOMAIN jsons : spans[n] = SpanOf(jsons[n])
  BY DEF TypeInv, DocumentsResourceSpansConvert
<1>2. ASSUME NEW n \in DOMAIN jsons PROVE \E m \in hits : jsons[n] = index[m].json
  BY <1>1, FirstAreHits
<1>3. jsons = [i \in 1 .. bound |-> index[order[i]].json]
  BY DEF FirstOf
<1>4. bound \in Nat
  <2>1. hits \in SUBSET Nat /\ IsFiniteSet(hits)
    <3>1. DOMAIN index = 1 .. Len(index) /\ Len(index) \in Nat
      BY <1>1
    <3>2. IsFiniteSet(1 .. Len(index))
      BY <3>1, FS_Interval
    <3> QED BY <3>1, <3>2, FS_Subset
  <2>2. Len(order) \in Nat
    BY <2>1, InOrderType
  <2> HIDE DEF order
  <2>3. \E m \in {size, Len(order)} : \A n \in {size, Len(order)} : m <= n
    BY <2>2
  <2>4. bound \in {size, Len(order)}
    BY <2>3 DEF Min
  <2> QED BY <2>2, <2>4
<1> HIDE DEF bound, order
<1>5. spans = [i \in 1 .. bound |-> spans[i]]
  BY <1>3 DEF DocumentsResourceSpansConvert
<1>6. spans \in Seq(Range(spans))
  <2>1. DOMAIN spans = 1 .. bound
    BY <1>1, <1>3
  <2>2. \A i \in 1 .. bound : spans[i] \in Range(spans)
    BY <2>1 DEF Range
  <2> HIDE DEF spans
  <2>3. spans \in [1 .. bound -> Range(spans)]
    BY <1>5, <2>2
  <2> QED BY <1>4, <2>3
<1> HIDE DEF jsons, spans
<1>7. ASSUME NEW n \in DOMAIN spans PROVE \E i \in DOMAIN batch : spans[n] = SpanOf(Encode(batch[i]))
  <2>1. PICK m \in hits : spans[n] = SpanOf(index[m].json)
    BY <1>1, <1>2
  <2>2. index[m] \in Taken /\ index[m].service = FALSE
    BY DEF TypeInv, StoreInv
  <2>3. index[m].of \in DOMAIN batch /\ index[m].json = Encode(batch[index[m].of])
    BY <2>2, DocumentsAreEncodings
  <2> QED BY <2>1, <2>3
<1> QED BY <1>6, <1>7 DEF spans, jsons

\* An answer that has spans.
LEMMA AnswerShows ==
  ASSUME NEW spans, spans \in Seq(Range(spans)), UNCHANGED <<config, batch>>, SearchIsForSpans',
         config.signal = "traces" /\ config.mode = "ecs",
         \A n \in DOMAIN spans : \E i \in DOMAIN batch : spans[n] = SpanOf(Encode(batch[i])),
         answer'.spans = spans, answer'.traces \in {<< >>, DocumentsTracesConvert(spans)}
  PROVE  AnswerInv'
<1>1. \A record : Encode(record)' = Encode(record)
  BY DEF Encode, Fields, Prepared
<1>2. \A n \in DOMAIN spans : \E i \in DOMAIN batch' : spans[n] = SpanOf(Encode(batch[i]))'
  BY <1>1
<1> QED BY <1>2 DEF AnswerInv

\* An answer that has none.
LEMMA AnswerEmpty ==
  ASSUME SearchIsForSpans', answer'.spans = << >>, answer'.traces \in {<< >>, DocumentsTracesConvert(<< >>)}
  PROVE  AnswerInv'
<1>1. DOMAIN << >> = {} /\ << >> \in Seq(Range(<< >>))
  OBVIOUS
<1> QED BY <1>1 DEF AnswerInv

\* AnswerInv is preserved by every step.
THEOREM AnswerInvariant == Spec => []AnswerInv
<1>1. Init => AnswerInv
  <2>1. DOMAIN << >> = {} /\ << >> \in Seq(Range(<< >>))
    OBVIOUS
  <2>2. NoAnswer.spans = << >> /\ NoAnswer.traces = << >> /\ NoSearch.active = FALSE
    BY DEF NoSearch, NoAnswer
  <2>3. Init => answer = NoAnswer /\ search = NoSearch
    BY DEF Init
  <2>4. Init => answer.spans = << >> /\ answer.traces = << >> /\ search.active = FALSE
    BY <2>2, <2>3
  <2> QED BY <2>1, <2>4 DEF SearchIsForSpans, AnswerInv
<1>2. TypeInv /\ StoreInv /\ AnswerInv /\ [Next]_vars => AnswerInv'
  <2> SUFFICES ASSUME TypeInv, StoreInv, AnswerInv, [Next]_vars PROVE AnswerInv'
    BY SMTT(30)
  <2>1. UNCHANGED <<config, batch>>
    BY DEF Next, Push, Deliver, Query, PushRecord, PushService, Cancel, StoreSpan, StoreService, Refuse, Lose,
           FindTraceIds, MultiGetTraces, GetTrace, GetService, GetOperations, Ask, vars
  <2>2. SearchIsForSpans'
    <3>1. search' = search \/ search' = NoSearch \/ (config.signal = "traces" /\ config.mode = "ecs")
      BY DEF Next, Push, Deliver, Query, PushRecord, PushService, Cancel, StoreSpan, StoreService, Refuse, Lose,
             FindTraceIds, MultiGetTraces, GetTrace, GetService, GetOperations, Ask, vars, queryVars
    <3> QED BY <2>1, <3>1 DEF AnswerInv, SearchIsForSpans, NoSearch
  <2>3. CASE UNCHANGED answer
    <3>1. \A record : Encode(record)' = Encode(record)
      BY <2>1 DEF Encode, Fields, Prepared
    <3> QED BY <2>1, <2>2, <2>3, <3>1 DEF AnswerInv
  <2>4. ASSUME NEW fails \in BOOLEAN, MultiGetTraces(fails) PROVE AnswerInv'
    <3> DEFINE hits  == {n \in DOMAIN index : Indexed(index[n], <<"TraceId">>) \in search.ids}
               spans == IF fails THEN << >> ELSE DocumentsResourceSpansConvert(FirstOf(hits, SearchSize))
    <3>1. answer'.spans = spans /\ answer'.traces = DocumentsTracesConvert(spans) /\ search.active
      BY <2>4 DEF MultiGetTraces, NoAnswer, Hits
    <3>2. CASE fails
      BY <2>2, <3>1, <3>2, AnswerEmpty
    <3>3. CASE ~fails
      <4>1. hits \in SUBSET DOMAIN index /\ SearchSize \in Nat /\ config.signal = "traces" /\ config.mode = "ecs"
        BY <3>1, StoreAssumption DEF StoreAssumption, AnswerInv, SearchIsForSpans
      <4>2. spans = DocumentsResourceSpansConvert(FirstOf(hits, SearchSize))
        BY <3>3
      <4> HIDE DEF hits, spans
      <4>3. /\ spans \in Seq(Range(spans))
            /\ \A n \in DOMAIN spans : \E i \in DOMAIN batch : spans[n] = SpanOf(Encode(batch[i]))
        BY <4>1, <4>2, HitsAreEncodings
      <4> QED BY <2>1, <2>2, <3>1, <4>1, <4>3, AnswerShows
    <3> QED BY <3>2, <3>3
  <2>5. ASSUME NEW t, GetTrace(t) PROVE AnswerInv'
    <3> DEFINE hits  == {n \in DOMAIN index : HasTerm(index[n], <<"TraceId">>, t)}
               spans == DocumentsResourceSpansConvert(FirstOf(hits, DefaultSize))
    <3>1. answer'.spans = spans /\ answer'.traces = << >> /\ config.signal = "traces" /\ config.mode = "ecs"
      BY <2>5 DEF GetTrace, NoAnswer, Hits, Ask
    <3>2. hits \in SUBSET DOMAIN index /\ DefaultSize \in Nat
      BY StoreAssumption DEF StoreAssumption
    <3> HIDE DEF hits
    <3>3. /\ spans \in Seq(Range(spans))
          /\ \A n \in DOMAIN spans : \E i \in DOMAIN batch : spans[n] = SpanOf(Encode(batch[i]))
      BY <3>2, HitsAreEncodings
    <3> HIDE DEF spans
    <3> QED BY <2>1, <2>2, <3>1, <3>3, AnswerShows
  <2>6. ASSUME NEW service, NEW kind, GetService \/ GetOperations(service, kind) PROVE AnswerInv'
    <3>1. answer'.spans = << >> /\ answer'.traces = << >>
      BY <2>6 DEF GetService, GetOperations, NoAnswer
    <3> QED BY <2>2, <3>1, AnswerEmpty
  <2>7. CASE Push \/ Cancel \/ Deliver \/ UNCHANGED vars
    <3>1. UNCHANGED answer
      BY <2>7 DEF Push, Deliver, PushRecord, PushService, Cancel, StoreSpan, StoreService, Refuse, Lose, vars, queryVars
    <3> QED BY <2>3, <3>1
  <2>8. CASE Query
    <3>1. ASSUME NEW q, FindTraceIds(q) PROVE UNCHANGED answer
      BY <3>1 DEF FindTraceIds
    <3> QED BY <2>3, <2>4, <2>5, <2>6, <2>8, <3>1 DEF Query
  <2> QED BY <2>7, <2>8 DEF Next
<1> QED BY <1>1, <1>2, PushInvariant, StoreInvariant, PTL DEF Spec

\* The texts of two spans tell their parents as the ids do.
LEMMA TextsOfBatch ==
  ASSUME TypeInv, NEW i \in DOMAIN batch, NEW j \in DOMAIN batch
  PROVE  /\ Texts(batch[i]).Name = batch[i].Name
         /\ batch[i].ParentSpanId = NoText => Texts(batch[i]).ParentSpanId = NoText
         /\ batch[i].SpanId # NoText => Texts(batch[i]).SpanId # NoText
         /\ batch[j].SpanId = batch[i].ParentSpanId => Texts(batch[j]).SpanId = Texts(batch[i]).ParentSpanId
<1>1. {"SpanId", "ParentSpanId", "Name"} \subseteq Range(SpanStrings)
  <2>1. SpanStrings[2] = "SpanId" /\ SpanStrings[3] = "ParentSpanId" /\ SpanStrings[4] = "Name" /\ {2, 3, 4} \subseteq DOMAIN SpanStrings
    BY DEF SpanStrings
  <2> QED BY <2>1 DEF Range
<1>2. \A x, f : f \in Range(SpanStrings) =>
        Texts(x)[f] = IF f \in IdFields /\ x[f] # NoText THEN Hex(x[f]) ELSE x[f]
  BY Zenon DEF Texts, NoText
<1>3. "SpanId" \in IdFields /\ "ParentSpanId" \in IdFields /\ "Name" \notin IdFields
  BY DEF IdFields
<1>4. \A x : /\ Texts(x).SpanId = IF x.SpanId # NoText THEN Hex(x.SpanId) ELSE x.SpanId
             /\ Texts(x).ParentSpanId = IF x.ParentSpanId # NoText THEN Hex(x.ParentSpanId) ELSE x.ParentSpanId
             /\ Texts(x).Name = x.Name
  BY <1>1, <1>2, <1>3
<1>5. batch[i].SpanId = NoText \/ Hex(batch[i].SpanId) # NoText
  <2>1. IsRecord(batch[i])
    BY BatchIsRecords
  <2>2. batch[i]["SpanId"] = NoText \/ Hex(batch[i]["SpanId"]) \in Values \ {NoText}
    BY <1>3, <2>1, Zenon DEF IsRecord, NoText
  <2> QED BY <2>2
<1> QED BY <1>4, <1>5

\* A trace bears the name of its root, and has the services of its spans.
LEMMA TraceIsSummarised ==
  ASSUME TypeInv, AnswerInv, EncodingIsRead, NEW n \in DOMAIN answer.traces
  PROVE  LET shown == {m \in DOMAIN answer.spans : answer.spans[m].TraceId = answer.traces[n].id}
             trace == {i \in DOMAIN batch : Texts(batch[i]).TraceId = answer.traces[n].id}
             roots == {i \in trace : batch[i].ParentSpanId = ""}
             whole == /\ Cardinality(roots) = 1
                      /\ \A i \in trace \ roots : \E j \in trace : batch[j].SpanId = batch[i].ParentSpanId
                      /\ \A i \in trace : batch[i].SpanId # "" /\ \E m \in shown : IsShownAs(batch[i], answer.spans[m])
         IN  /\ whole => \A i \in roots : answer.traces[n].operation = batch[i].Name
             /\ Range(answer.traces[n].processes) = {ServiceOf(answer.spans[m].resource) : m \in shown} \ {""}
<1> DEFINE spans == answer.spans
           id    == answer.traces[n].id
           shown == {m \in DOMAIN spans : spans[m].TraceId = id}
           T     == ElementsAt(spans, shown)
           trace == {i \in DOMAIN batch : Texts(batch[i]).TraceId = id}
           roots == {i \in trace : batch[i].ParentSpanId = ""}
<1>1. answer.traces = DocumentsTracesConvert(spans)
  <2>1. answer.traces # << >>
    OBVIOUS
  <2> QED BY <2>1 DEF AnswerInv
<1>2. answer.traces[n] = TraceOf(id, T)
  <2> DEFINE ids == FoldLeft(LAMBDA seen, s : IF Contains(seen, s.TraceId) THEN seen ELSE Append(seen, s.TraceId),
                             << >>, spans)
             TraceAt(t) == TraceOf(t, ElementsAt(spans, {m \in DOMAIN spans : spans[m].TraceId = t}))
  <2>1. answer.traces = [k \in DOMAIN ids |-> TraceAt(ids[k])]
    BY <1>1 DEF DocumentsTracesConvert
  <2> HIDE DEF ids, TraceAt
  <2>2. answer.traces[n] = TraceAt(ids[n])
    BY <2>1
  <2>3. \A t : TraceAt(t).id = t
    BY DEF TraceAt, TraceOf
  <2>4. answer.traces[n] = TraceAt(id)
    BY <2>2, <2>3
  <2> QED BY <2>4 DEF TraceAt
<1>3. shown \in SUBSET DOMAIN spans /\ spans \in Seq(Range(spans))
  BY DEF AnswerInv
<1>4. /\ T \in Seq(Range(spans))
      /\ \A j \in DOMAIN T : \E m \in shown : T[j] = spans[m]
      /\ \A m \in shown : \E j \in DOMAIN T : T[j] = spans[m]
  <2> DEFINE size == Cardinality(shown)
  <2> HIDE DEF shown, spans
  <2>1. /\ DOMAIN T = 1 .. size /\ T \in Seq(Range(spans))
        /\ \A j \in 1 .. size : InOrder(shown)[j] \in shown /\ T[j] = spans[InOrder(shown)[j]]
        /\ \A m \in shown : \E j \in 1 .. size : InOrder(shown)[j] = m /\ T[j] = spans[m]
    BY ONLY <1>3, ElementsAtType
  <2> HIDE DEF T, size
  <2> QED BY <2>1
<1> HIDE DEF T
<1>5. Range(answer.traces[n].processes) = {ServiceOf(spans[m].resource) : m \in shown} \ {""}
  <2>1. Range(TraceOf(id, T).processes) = {ServiceOf(T[j].resource) : j \in DOMAIN T} \ {""}
    BY <1>4, ProcessesAreServices
  <2>2. {ServiceOf(T[j].resource) : j \in DOMAIN T} = {ServiceOf(spans[m].resource) : m \in shown}
    <3> HIDE DEF shown, spans
    <3> QED BY <1>4
  <2> HIDE DEF shown, spans, id
  <2> QED BY <1>2, <2>1, <2>2
<1>6. ASSUME NEW m \in shown
      PROVE  \E i \in trace : \A f \in Range(SpanStrings) : spans[m][f] = Texts(batch[i])[f]
  <2>1. PICK i \in DOMAIN batch : spans[m] = SpanOf(Encode(batch[i]))
    BY DEF AnswerInv
  <2>2. config.signal = "traces" /\ config.mode = "ecs"
    <3>1. answer.spans # << >>
      OBVIOUS
    <3> QED BY <3>1 DEF AnswerInv
  <2>3. ReadBackAs(spans[m], batch[i])
    <3>1. IsReadAs(batch[i], Document(i, FALSE, Encode(batch[i])))
      BY <2>2 DEF EncodingIsRead
    <3>2. Document(i, FALSE, Encode(batch[i])).json = Encode(batch[i])
      BY DEF Document
    <3> HIDE DEF spans
    <3> QED BY <2>1, <3>1, <3>2 DEF IsReadAs
  <2>4. "TraceId" \in Range(SpanStrings)
    <3>1. SpanStrings[1] = "TraceId" /\ 1 \in DOMAIN SpanStrings
      BY DEF SpanStrings
    <3> QED BY <3>1 DEF Range
  <2>5. \A f \in Range(SpanStrings) : spans[m][f] = Texts(batch[i])[f]
    <3> HIDE DEF spans
    <3> QED BY <2>3 DEF ReadBackAs
  <2>6. spans[m]["TraceId"] = Texts(batch[i])["TraceId"] /\ spans[m].TraceId = id
    BY <2>4, <2>5
  <2>7. Texts(batch[i]).TraceId = id
    BY <2>6
  <2> HIDE DEF spans, id
  <2> QED BY <2>5, <2>7
<1>7. {"SpanId", "ParentSpanId", "Name"} \subseteq Range(SpanStrings)
  <2>1. SpanStrings[2] = "SpanId" /\ SpanStrings[3] = "ParentSpanId" /\ SpanStrings[4] = "Name" /\ {2, 3, 4} \subseteq DOMAIN SpanStrings
    BY DEF SpanStrings
  <2> QED BY <2>1 DEF Range
<1>8. ASSUME NEW m \in shown
      PROVE  \E i \in trace : IsShownAs(batch[i], spans[m]) /\ spans[m].Name = batch[i].Name
  <2>1. \A i \in trace : Texts(batch[i]).Name = batch[i].Name
    BY TextsOfBatch
  <2> HIDE DEF shown, trace, spans
  <2> QED BY <1>6, <1>7, <2>1 DEF IsShownAs
<1>9. IsFiniteSet(roots) /\ roots \in SUBSET trace /\ \A i \in roots : batch[i].ParentSpanId = NoText
  <2>1. Len(batch) \in Nat /\ DOMAIN batch = 1 .. Len(batch)
    BY BatchType DEF TypeInv, TypeOK
  <2>2. IsFiniteSet(1 .. Len(batch))
    BY <2>1, FS_Interval
  <2>3. roots \in SUBSET (1 .. Len(batch))
    BY <2>1
  <2>4. roots \in SUBSET trace /\ \A i \in roots : batch[i].ParentSpanId = NoText
    BY Zenon DEF NoText
  <2> HIDE DEF roots, trace
  <2> QED BY ONLY <2>2, <2>3, <2>4, FS_Subset
<1>12. trace \in SUBSET DOMAIN batch
  OBVIOUS
<1> HIDE DEF roots, trace, shown, spans, id
<1>10. ASSUME NEW j \in DOMAIN T
       PROVE  \E i \in trace : IsShownAs(batch[i], T[j]) /\ T[j].Name = batch[i].Name
  <2>1. PICK m \in shown : T[j] = spans[m]
    BY <1>4
  <2> QED BY <1>8, <2>1
<1>11. ASSUME Cardinality(roots) = 1,
              \A i \in trace \ roots : \E j \in trace : batch[j].SpanId = batch[i].ParentSpanId,
              \A i \in trace : batch[i].SpanId # NoText /\ \E m \in shown : IsShownAs(batch[i], spans[m]),
              NEW r \in roots
       PROVE  answer.traces[n].operation = batch[r].Name
  <2>1. roots = {r}
    <3>1. PICK x : roots = {x}
      BY ONLY <1>9, <1>11, FS_Singleton
    <3> QED BY <3>1
  <2>2. r \in trace /\ batch[r].ParentSpanId = NoText /\ \A i \in trace : i # r => i \in trace \ roots
    BY <1>9, <2>1
  <2>3. PICK m \in shown : IsShownAs(batch[r], spans[m])
    BY <1>11, <2>2
  <2>4. PICK s \in DOMAIN T : T[s] = spans[m]
    BY <1>4
  <2>5. T[s].ParentSpanId = NoText
    <3>1. Texts(batch[r]).ParentSpanId = NoText
      BY <1>12, <2>2, TextsOfBatch
    <3> QED BY <2>3, <2>4, <3>1 DEF IsShownAs
  <2>6. \A j \in DOMAIN T : T[j].SpanId # T[s].ParentSpanId
    <3>1. \A i \in trace : Texts(batch[i]).SpanId # NoText
      BY <1>11, <1>12, TextsOfBatch
    <3> QED BY <1>10, <2>5, <3>1 DEF IsShownAs
  <2> DEFINE root == FindRootSpan(T)
  <2>7. root \in DOMAIN T /\ \A j \in DOMAIN T : T[j].SpanId # T[root].ParentSpanId
    BY <1>4, <2>6, RootIsFirst
  <2>8. PICK i \in trace : IsShownAs(batch[i], T[root]) /\ T[root].Name = batch[i].Name
    <3> HIDE DEF root
    <3> QED BY <1>10, <2>7
  <2>9. i = r
    <3> SUFFICES ASSUME i # r PROVE FALSE
      OBVIOUS
    <3> HIDE DEF root
    <3>1. PICK p \in trace : batch[p].SpanId = batch[i].ParentSpanId
      BY <1>11, <2>2
    <3>2. PICK q \in shown : IsShownAs(batch[p], spans[q])
      BY <1>11
    <3>3. PICK j \in DOMAIN T : T[j] = spans[q]
      BY <1>4
    <3>4. Texts(batch[p]).SpanId = Texts(batch[i]).ParentSpanId
      BY <1>12, <3>1, TextsOfBatch
    <3> QED BY <2>7, <2>8, <3>2, <3>3, <3>4 DEF IsShownAs
  <2>10. root # 0
    <3>1. DOMAIN T = 1 .. Len(T)
      BY <1>4
    <3> QED BY <2>7, <3>1
  <2>11. TraceOf(id, T).operation = T[root].Name
    BY <2>10 DEF TraceOf
  <2> QED BY <1>2, <2>8, <2>9, <2>11
<1> QED BY <1>5, <1>11, Zenon DEF spans, id, shown, trace, roots, NoText

\* Every trace that is answered is summarised, if the encodings are read back.
LEMMA SummarisedAsRead == Spec => [](EncodingIsRead => TracesAreSummarised)
<1>1. TypeInv /\ AnswerInv /\ EncodingIsRead => TracesAreSummarised
  BY TraceIsSummarised DEF TracesAreSummarised
<1> QED BY <1>1, PushInvariant, AnswerInvariant, PTL

-----------------------------------------------------------------------------
(* The refinement: of the documents of the records, those without an id,    *)
(* the pushes and the store make what DocDelivery promises of them.         *)

\* The records' documents are called by their positions in the batch.
Positions         == UNION {DOMAIN w[2] : w \in Workloads}
IsDocumentOf(r, i) == r.of = i /\ r.service = FALSE

\* How DocDelivery sees them.
StageOf(i) ==
  IF \E r \in accepted : IsDocumentOf(r, i) THEN "accepted"
  ELSE IF \E r \in DOMAIN settled : IsDocumentOf(r, i) /\ settled[r] = "stored" THEN "indexed"
  ELSE IF \E r \in DOMAIN settled : IsDocumentOf(r, i) THEN "failed"
  ELSE "new"
Stages        == [i \in Positions |-> StageOf(i)]
IndexedFor(i) == {n \in DOMAIN index : index[n].of = i}
Counts        == [i \in Positions |-> Cardinality(IndexedFor(i))]

Delivery == INSTANCE DocDelivery WITH Docs <- Positions, WithId <- {}, stage <- Stages, copies <- Counts

\* A record of services is none of these documents.
LEMMA StagesKept ==
  ASSUME NEW s, s.service = TRUE, UNCHANGED index,
         \/ UNCHANGED settled /\ accepted' = accepted \cup {s}
         \/ s \in accepted /\ \E fate : Settle(s, fate)
         \/ UNCHANGED <<accepted, settled>>
  PROVE  UNCHANGED Delivery!vars
<1>1. \A i : ~IsDocumentOf(s, i)
  BY DEF IsDocumentOf
<1>2. ASSUME NEW i PROVE StageOf(i)' = StageOf(i)
  <2>1. CASE UNCHANGED <<accepted, settled>>
    BY <2>1 DEF StageOf, IsDocumentOf
  <2>2. CASE UNCHANGED settled /\ accepted' = accepted \cup {s}
    <3>1. (\E r \in accepted' : IsDocumentOf(r, i)) <=> (\E r \in accepted : IsDocumentOf(r, i))
      BY <1>1, <2>2
    <3> QED BY <2>2, <3>1 DEF StageOf
  <2>3. ASSUME s \in accepted, NEW fate, Settle(s, fate) PROVE StageOf(i)' = StageOf(i)
    <3>1. (\E r \in accepted' : IsDocumentOf(r, i)) <=> (\E r \in accepted : IsDocumentOf(r, i))
      BY <1>1, <2>3 DEF Settle
    <3>2. \A r \in DOMAIN settled' : r # s => r \in DOMAIN settled /\ settled'[r] = settled[r]
      BY <2>3 DEF Settle
    <3>3. \A r \in DOMAIN settled : r # s => r \in DOMAIN settled' /\ settled'[r] = settled[r]
      BY <2>3 DEF Settle
    <3>4. (\E r \in DOMAIN settled' : IsDocumentOf(r, i)) <=> (\E r \in DOMAIN settled : IsDocumentOf(r, i))
      BY <1>1, <3>2, <3>3
    <3>5. (\E r \in DOMAIN settled' : IsDocumentOf(r, i) /\ settled'[r] = "stored")
            <=> (\E r \in DOMAIN settled : IsDocumentOf(r, i) /\ settled[r] = "stored")
      BY <1>1, <3>2, <3>3
    <3> HIDE DEF IsDocumentOf
    <3> QED BY <3>1, <3>4, <3>5 DEF StageOf
  <2> QED BY <2>1, <2>2, <2>3
<1>3. UNCHANGED Counts
  BY DEF Counts, IndexedFor
<1>4. UNCHANGED Stages
  BY <1>2 DEF Stages
<1> QED BY <1>3, <1>4 DEF Delivery!vars

\* The bulk indexer takes the document of a record.
LEMMA Offers ==
  ASSUME TypeInv, NEW i \in DOMAIN batch, ~ \E r \in Taken : IsDocumentOf(r, i),
         NEW d, IsDocumentOf(d, i), accepted' = accepted \cup {d}, UNCHANGED <<settled, index>>
  PROVE  Delivery!Next
<1>1. i \in Positions
  BY DEF TypeInv, TypeOK, Positions
<1>2. StageOf(i) = "new" /\ StageOf(i)' = "accepted"
  BY DEF StageOf, Taken
<1>3. ASSUME NEW j, j # i PROVE StageOf(j)' = StageOf(j)
  <2>1. (\E r \in accepted' : IsDocumentOf(r, j)) <=> (\E r \in accepted : IsDocumentOf(r, j))
    BY <1>3 DEF IsDocumentOf
  <2> HIDE DEF IsDocumentOf
  <2> QED BY <2>1 DEF StageOf
<1>4. Stages' = [Stages EXCEPT ![i] = "accepted"] /\ Stages[i] = "new"
  BY <1>1, <1>2, <1>3 DEF Stages
<1>5. UNCHANGED Counts
  BY DEF Counts, IndexedFor
<1>6. Delivery!Offer(i)
  BY <1>4, <1>5 DEF Delivery!Offer
<1> QED BY <1>1, <1>6 DEF Delivery!Next

\* The index has finitely many documents.
LEMMA IndexedFinitely ==
  ASSUME TypeInv, NEW i
  PROVE  IsFiniteSet(IndexedFor(i)) /\ Cardinality(IndexedFor(i)) \in Nat
<1>1. Len(index) \in Nat /\ DOMAIN index = 1 .. Len(index)
  BY DEF TypeInv
<1>2. IsFiniteSet(1 .. Len(index))
  BY <1>1, FS_Interval
<1>3. IndexedFor(i) \in SUBSET (1 .. Len(index))
  BY <1>1 DEF IndexedFor
<1> HIDE DEF IndexedFor
<1> QED BY <1>2, <1>3, FS_Subset, FS_CardinalityType

\* One more document in the index.
LEMMA CountsGrow ==
  ASSUME TypeInv, NEW r, index' = Append(index, r)
  PROVE  Counts' = [i \in Positions |-> IF i = r.of THEN Counts[i] + 1 ELSE Counts[i]]
<1>1. Len(index) \in Nat /\ DOMAIN index = 1 .. Len(index)
  BY DEF TypeInv
<1>2. /\ DOMAIN index' = DOMAIN index \cup {Len(index) + 1}
      /\ Len(index) + 1 \notin DOMAIN index
      /\ index'[Len(index) + 1] = r
      /\ \A n \in DOMAIN index : index'[n] = index[n]
  BY <1>1 DEF TypeInv
<1>3. ASSUME NEW i
      PROVE  Cardinality(IndexedFor(i))' = IF i = r.of THEN Cardinality(IndexedFor(i)) + 1 ELSE Cardinality(IndexedFor(i))
  <2>1. CASE i = r.of
    <3>1. IndexedFor(i)' = IndexedFor(i) \cup {Len(index) + 1} /\ Len(index) + 1 \notin IndexedFor(i)
      BY <1>2, <2>1 DEF IndexedFor
    <3> HIDE DEF IndexedFor
    <3> QED BY IndexedFinitely, <2>1, <3>1, FS_AddElement
  <2>2. CASE i # r.of
    <3>1. IndexedFor(i)' = IndexedFor(i)
      BY <1>2, <2>2 DEF IndexedFor
    <3> HIDE DEF IndexedFor
    <3> QED BY <2>2, <3>1
  <2> QED BY <2>1, <2>2
<1> HIDE DEF IndexedFor
<1> QED BY <1>3 DEF Counts

\* The fate of a document, where no other is taken for its record.
LEMMA StagesSettle ==
  ASSUME TypeInv, StoreInv, NEW r \in accepted, r.service = FALSE, NEW fate, Settle(r, fate)
  PROVE  /\ r.of \in Positions /\ Stages[r.of] = "accepted"
         /\ Stages' = [i \in Positions |-> IF i = r.of THEN IF fate = "stored" THEN "indexed" ELSE "failed"
                                           ELSE Stages[i]]
<1>1. r \in Taken /\ r.of \in Positions
  BY DEF TypeInv, TypeOK, Records, Positions, Taken
<1>2. IsDocumentOf(r, r.of)
  BY DEF IsDocumentOf
<1>3. \A s \in Taken : IsDocumentOf(s, r.of) => s = r
  BY <1>1 DEF StoreInv, DocumentOf, IsDocumentOf
<1>4. r \notin DOMAIN settled
  BY DEF TypeInv, TypeOK
<1>5. /\ accepted' = accepted \ {r} /\ DOMAIN settled' = DOMAIN settled \cup {r} /\ settled'[r] = fate
      /\ \A x \in DOMAIN settled : settled'[x] = settled[x]
  BY <1>4 DEF Settle
<1>6. StageOf(r.of) = "accepted"
  BY <1>2 DEF StageOf
<1>7. StageOf(r.of)' = IF fate = "stored" THEN "indexed" ELSE "failed"
  <2>1. ~ \E x \in accepted' : IsDocumentOf(x, r.of)
    BY <1>3, <1>5 DEF Taken
  <2>2. \A x \in DOMAIN settled' : IsDocumentOf(x, r.of) <=> x = r
    BY <1>2, <1>3, <1>5 DEF Taken
  <2> HIDE DEF IsDocumentOf
  <2> QED BY <1>5, <2>1, <2>2 DEF StageOf
<1>8. ASSUME NEW i, i # r.of PROVE StageOf(i)' = StageOf(i)
  <2>1. ~IsDocumentOf(r, i)
    BY <1>8 DEF IsDocumentOf
  <2> HIDE DEF IsDocumentOf
  <2>2. (\E x \in accepted' : IsDocumentOf(x, i)) <=> (\E x \in accepted : IsDocumentOf(x, i))
    BY <1>5, <2>1
  <2>3. (\E x \in DOMAIN settled' : IsDocumentOf(x, i)) <=> (\E x \in DOMAIN settled : IsDocumentOf(x, i))
    BY <1>5, <2>1
  <2>4. (\E x \in DOMAIN settled' : IsDocumentOf(x, i) /\ settled'[x] = "stored")
          <=> (\E x \in DOMAIN settled : IsDocumentOf(x, i) /\ settled[x] = "stored")
    BY <1>5, <2>1
  <2> QED BY <2>2, <2>3, <2>4 DEF StageOf
<1> QED BY <1>1, <1>6, <1>7, <1>8 DEF Stages

\* A document of a record is stored, or it is settled, or both.
LEMMA Delivers ==
  ASSUME TypeInv, StoreInv, NEW r \in accepted, r.service = FALSE,
         NEW stored \in SUBSET {r}, NEW done \in SUBSET {r},
         IF stored = {} THEN UNCHANGED index ELSE index' = Append(index, r),
         IF done = {} THEN UNCHANGED <<accepted, settled>>
                      ELSE \E fate : Settle(r, fate) /\ (fate = "stored" => stored # {})
  PROVE  Delivery!Next
<1> DEFINE i == r.of
           S == IF stored = {} THEN {} ELSE {i}
           T == IF done = {} THEN {} ELSE {i}
<1>1. i \in Positions /\ Stages[i] = "accepted"
  <2>1. r \in Taken /\ i \in Positions
    BY DEF TypeInv, TypeOK, Records, Positions, Taken
  <2>2. StageOf(i) = "accepted"
    BY DEF StageOf, IsDocumentOf
  <2> QED BY <2>1, <2>2 DEF Stages
<1>2. S \subseteq Delivery!Accepted /\ T \subseteq Delivery!Accepted
  BY <1>1 DEF Delivery!Accepted
<1>3. Counts \in [Positions -> Nat]
  <2> HIDE DEF IndexedFor
  <2> QED BY IndexedFinitely DEF Counts
<1>4. Counts' = [j \in Positions |-> IF j \in S THEN Counts[j] + 1 ELSE Counts[j]]
  <2>1. CASE stored = {}
    <3>1. UNCHANGED Counts
      BY <2>1 DEF Counts, IndexedFor
    <3> QED BY <1>3, <2>1, <3>1
  <2>2. CASE stored # {}
    <3>1. index' = Append(index, r)
      BY <2>2
    <3>2. Counts' = [j \in Positions |-> IF j = r.of THEN Counts[j] + 1 ELSE Counts[j]]
      BY <3>1, CountsGrow
    <3> QED BY <2>2, <3>2
  <2> QED BY <2>1, <2>2
<1>5. PICK end \in {"indexed", "failed"} :
        /\ end = "indexed" => stored # {}
        /\ Stages' = [j \in Positions |-> IF j \in T THEN end ELSE Stages[j]]
  <2>1. CASE done = {}
    <3>1. UNCHANGED Stages
      BY <2>1 DEF Stages, StageOf
    <3>2. Stages' = [j \in Positions |-> IF j \in T THEN "failed" ELSE Stages[j]]
      BY <2>1, <3>1 DEF Stages
    <3> QED BY <3>2
  <2>2. CASE done # {}
    <3>1. PICK fate : Settle(r, fate) /\ (fate = "stored" => stored # {})
      BY <2>2
    <3> DEFINE end == IF fate = "stored" THEN "indexed" ELSE "failed"
    <3>2. Stages' = [j \in Positions |-> IF j = r.of THEN end ELSE Stages[j]]
      BY <3>1, StagesSettle, ZenonT(40)
    <3>3. Stages' = [j \in Positions |-> IF j \in T THEN end ELSE Stages[j]]
      BY <2>2, <3>2
    <3>4. end \in {"indexed", "failed"} /\ (end = "indexed" => stored # {})
      BY <3>1
    <3> HIDE DEF end, T
    <3> QED BY <3>3, <3>4
  <2> QED BY <2>1, <2>2
<1>6. \E ends \in [T -> {"indexed", "failed"}] :
        /\ \A d \in T : ends[d] = "indexed" => Counts'[d] > 0
        /\ Stages' = [d \in Positions |-> IF d \in T THEN ends[d] ELSE Stages[d]]
  <2> DEFINE ends == [d \in T |-> end]
  <2>1. ends \in [T -> {"indexed", "failed"}]
    OBVIOUS
  <2>2. Stages' = [d \in Positions |-> IF d \in T THEN ends[d] ELSE Stages[d]]
    BY <1>5
  <2>3. ASSUME NEW d \in T, ends[d] = "indexed" PROVE Counts'[d] > 0
    <3>1. d = i /\ d \in S
      BY <1>5, <2>3
    <3>2. Counts'[d] = Counts[d] + 1
      BY <1>1, <1>4, <3>1
    <3> QED BY <1>1, <1>3, <3>1, <3>2
  <2> HIDE DEF ends, T
  <2> QED BY <2>1, <2>2, <2>3
<1> HIDE DEF S, T
<1>7. Delivery!Deliver(S, T)
  BY <1>2, <1>4, <1>6 DEF Delivery!Deliver
<1>8. S \in SUBSET Positions /\ T \in SUBSET Positions
  BY <1>1 DEF S, T
<1> QED BY <1>7, <1>8 DEF Delivery!Next

\* Every document of a record that a push hands over goes the way that DocDelivery
\* promises: it is offered once, and reported stored only if it is in the index.
THEOREM PushesDeliver == Spec => Delivery!Spec
<1>1. Init => Delivery!Init
  <2> SUFFICES ASSUME Init PROVE Delivery!Init
    OBVIOUS
  <2>1. accepted = {} /\ DOMAIN settled = {} /\ DOMAIN index = {}
    BY DEF Init
  <2>2. \A i : StageOf(i) = "new"
    BY <2>1 DEF StageOf
  <2>3. \A i : IndexedFor(i) = {}
    BY <2>1 DEF IndexedFor
  <2>4. Stages = [i \in Positions |-> "new"] /\ Counts = [i \in Positions |-> 0]
    BY <2>2, <2>3, FS_EmptySet DEF Stages, Counts
  <2> QED BY <2>4 DEF Delivery!Init
<1>2. TypeInv /\ PushInv /\ StoreInv /\ [Next]_vars => [Delivery!Next]_(Delivery!vars)
  <2> SUFFICES ASSUME TypeInv, PushInv, StoreInv, [Next]_vars PROVE [Delivery!Next]_(Delivery!vars)
    OBVIOUS
  <2>1. ASSUME UNCHANGED <<accepted, settled, index>> PROVE UNCHANGED Delivery!vars
    BY <2>1 DEF Delivery!vars, Stages, StageOf, Counts, IndexedFor
  <2>2. ASSUME NEW ok \in BOOLEAN, PushRecord(ok) PROVE Delivery!Next \/ UNCHANGED Delivery!vars
    <3> DEFINE d == Document(next, FALSE, Encode(batch[next]))
    <3>1. CASE accepted' = accepted \cup {d}
      <4>1. IsDocumentOf(d, next)
        BY DEF IsDocumentOf, Document
      <4>2. next \in DOMAIN batch /\ outcome = "none" /\ stage = "record" /\ ~(next < next)
        BY <2>2, BatchType DEF PushRecord, TypeInv, TypeOK, PushInv
      <4>3. ~ \E r \in Taken : IsDocumentOf(r, next)
        BY <4>2 DEF PushInv, IsDocumentOf
      <4>4. UNCHANGED <<settled, index>>
        BY <2>2 DEF PushRecord
      <4> HIDE DEF d
      <4> QED BY <3>1, <4>1, <4>2, <4>3, <4>4, Offers
    <3>2. CASE UNCHANGED accepted
      BY <2>1, <2>2, <3>2 DEF PushRecord
    <3> QED BY <2>2, <3>1, <3>2 DEF PushRecord
  <2>3. ASSUME NEW ok \in BOOLEAN, PushService(ok) PROVE UNCHANGED Delivery!vars
    <3> DEFINE d == Document(next, TRUE, EmptyJson)
    <3>1. d.service = TRUE
      BY DEF Document
    <3> HIDE DEF d
    <3>2. /\ UNCHANGED <<settled, index>>
          /\ accepted' = accepted \cup {d} \/ UNCHANGED accepted
      BY <2>3 DEF PushService, d
    <3> QED BY <2>1, <3>1, <3>2, StagesKept
  <2>4. ASSUME NEW r \in accepted PROVE r.service = TRUE \/ r.service = FALSE
    BY DEF Taken, TypeInv, TypeOK, Records
  <2>5. ASSUME NEW r \in accepted, NEW again \in BOOLEAN, StoreSpan(r, again) PROVE Delivery!Next
    <3>1. r.service = FALSE /\ index' = Append(index, r)
      BY <2>4, <2>5 DEF StoreSpan
    <3>2. CASE UNCHANGED <<accepted, settled>>
      <4> DEFINE stored == {r}
                 done   == {x \in {r} : FALSE}
      <4>1. stored \in SUBSET {r} /\ done \in SUBSET {r} /\ stored # {} /\ done = {}
        OBVIOUS
      <4> HIDE DEF stored, done
      <4> QED BY <3>1, <3>2, <4>1, Delivers
    <3>3. CASE Settle(r, "stored")
      <4>1. {r} # {}
        OBVIOUS
      <4> QED BY <3>1, <3>3, <4>1, Delivers
    <3> QED BY <2>5, <3>2, <3>3 DEF StoreSpan
  <2>6. ASSUME NEW r \in accepted, NEW again \in BOOLEAN, StoreService(r, again) PROVE UNCHANGED Delivery!vars
    <3>1. r.service = TRUE /\ UNCHANGED index
      BY <2>4, <2>6 DEF StoreService
    <3>2. UNCHANGED <<accepted, settled>> \/ \E fate : Settle(r, fate)
      BY <2>6 DEF StoreService
    <3> QED BY <3>1, <3>2, StagesKept
  <2>7. ASSUME NEW r \in accepted, Refuse(r) \/ Lose(r) PROVE Delivery!Next \/ UNCHANGED Delivery!vars
    <3>1. UNCHANGED index /\ \E fate : Settle(r, fate) /\ fate # "stored"
      BY <2>7 DEF Refuse, Lose
    <3>2. CASE r.service = TRUE
      BY <3>1, <3>2, StagesKept
    <3>3. CASE r.service = FALSE
      <4> DEFINE stored == {x \in {r} : FALSE}
                 done   == {r}
      <4>1. stored \in SUBSET {r} /\ done \in SUBSET {r} /\ stored = {} /\ done # {}
        OBVIOUS
      <4> HIDE DEF stored, done
      <4> QED BY <3>1, <3>3, <4>1, Delivers
    <3> QED BY <2>4, <3>2, <3>3
  <2>8. ASSUME Cancel \/ Query \/ UNCHANGED vars PROVE UNCHANGED Delivery!vars
    <3>1. UNCHANGED storeVars
      BY <2>8 DEF Cancel, Query, FindTraceIds, MultiGetTraces, GetTrace, GetService, GetOperations, Ask, vars
    <3> QED BY <2>1, <3>1 DEF storeVars
  <2> QED BY <2>2, <2>3, <2>5, <2>6, <2>7, <2>8 DEF Next, Push, Deliver
<1> QED BY <1>1, <1>2, PushInvariant, StoreInvariant, PTL DEF Spec, Delivery!Spec

-----------------------------------------------------------------------------
(* The order of keys.                                                       *)

\* Two keys are alike up to a position.
Alike(k, l, n) == n <= Len(k) /\ n <= Len(l) /\ \A i \in 1 .. n : k[i] = l[i]

\* That is, their first parts are the same.
LEMMA AlikeIsPrefix ==
  ASSUME NEW k \in Keys, NEW l \in Keys, NEW n \in Nat, n <= Len(k), n <= Len(l)
  PROVE  SubSeq(k, 1, n) = SubSeq(l, 1, n) <=> Alike(k, l, n)
<1> DEFINE a == SubSeq(k, 1, n)
           b == SubSeq(l, 1, n)
<1>1. a \in Keys /\ Len(a) = n /\ \A i \in 1 .. n : a[i] = k[i]
  BY SubSeqProperties, ElementOfSeq DEF Keys
<1>2. b \in Keys /\ Len(b) = n /\ \A i \in 1 .. n : b[i] = l[i]
  BY SubSeqProperties, ElementOfSeq DEF Keys
<1> HIDE DEF a, b
<1>3. (\A i \in 1 .. n : a[i] = b[i]) => a = b
  BY <1>1, <1>2, SeqEqual DEF Keys
<1> QED BY <1>1, <1>2, <1>3 DEF Alike, a, b

\* One key is less than another where they first differ.
LEMMA LessAtDifference ==
  ASSUME NEW k \in Keys, NEW l \in Keys
  PROVE  Less(k, l) <=> \E n \in Nat : /\ Alike(k, l, n) /\ n < Len(l)
                                       /\ n = Len(k) \/ Rank[k[n + 1]] < Rank[l[n + 1]]
<1>1. Len(k) \in Nat /\ Len(l) \in Nat
  BY DEF Keys
<1>2. ASSUME Less(k, l)
      PROVE  \E n \in Nat : /\ Alike(k, l, n) /\ n < Len(l)
                            /\ n = Len(k) \/ Rank[k[n + 1]] < Rank[l[n + 1]]
  <2>1. PICK n \in 0 .. Len(k) : /\ n < Len(l) /\ SubSeq(k, 1, n) = SubSeq(l, 1, n)
                                 /\ n = Len(k) \/ Rank[k[n + 1]] < Rank[l[n + 1]]
    BY <1>2 DEF Less
  <2>2. n \in Nat /\ n <= Len(k) /\ n <= Len(l)
    BY <1>1, <2>1
  <2> QED BY <2>1, <2>2, AlikeIsPrefix
<1>3. ASSUME NEW n \in Nat, Alike(k, l, n), n < Len(l), n = Len(k) \/ Rank[k[n + 1]] < Rank[l[n + 1]]
      PROVE  Less(k, l)
  <2>1. n \in 0 .. Len(k) /\ n <= Len(k) /\ n <= Len(l)
    BY <1>1, <1>3 DEF Alike
  <2> QED BY <1>3, <2>1, AlikeIsPrefix DEF Less
<1> QED BY <1>2, <1>3

\* The order is strict ...
LEMMA LessIsIrreflexive == ASSUME NEW k \in Keys PROVE ~Less(k, k)
<1> SUFFICES ASSUME NEW n \in Nat, n < Len(k), n = Len(k) \/ Rank[k[n + 1]] < Rank[k[n + 1]] PROVE FALSE
  BY LessAtDifference
<1>1. n + 1 \in 1 .. Len(k) /\ k[n + 1] \in DOMAIN Rank
  BY DEF Keys
<1>2. Rank[k[n + 1]] \in Nat
  BY <1>1, RankAssumption DEF RankAssumption
<1> QED BY <1>1, <1>2

\* ... transitive ...
LEMMA LessIsTransitive ==
  ASSUME NEW k \in Keys, NEW l \in Keys, NEW m \in Keys, Less(k, l), Less(l, m)
  PROVE  Less(k, m)
<1>1. PICK a \in Nat : Alike(k, l, a) /\ a < Len(l) /\ (a = Len(k) \/ Rank[k[a + 1]] < Rank[l[a + 1]])
  BY LessAtDifference
<1>2. PICK b \in Nat : Alike(l, m, b) /\ b < Len(m) /\ (b = Len(l) \/ Rank[l[b + 1]] < Rank[m[b + 1]])
  BY LessAtDifference
<1>3. Len(k) \in Nat /\ Len(l) \in Nat /\ Len(m) \in Nat
  BY DEF Keys
<1>4. \A x \in Keys : \A n \in 1 .. Len(x) : Rank[x[n]] \in Nat
  BY RankAssumption DEF RankAssumption, Keys
<1>5. CASE a < b
  <2>1. Alike(k, m, a) /\ a < Len(m) /\ l[a + 1] = m[a + 1]
    BY <1>1, <1>2, <1>3, <1>5 DEF Alike
  <2>2. a = Len(k) \/ Rank[k[a + 1]] < Rank[m[a + 1]]
    BY <1>1, <2>1
  <2> QED BY <2>1, <2>2, LessAtDifference
<1>6. CASE b < a
  <2>1. Alike(k, m, b) /\ b < Len(m) /\ k[b + 1] = l[b + 1] /\ b # Len(l)
    BY <1>1, <1>2, <1>3, <1>6 DEF Alike
  <2>2. Rank[k[b + 1]] < Rank[m[b + 1]]
    BY <1>2, <2>1
  <2> QED BY <2>1, <2>2, LessAtDifference
<1>7. CASE a = b
  <2>1. Alike(k, m, a) /\ a < Len(m) /\ a # Len(l)
    BY <1>1, <1>2, <1>3, <1>7 DEF Alike
  <2>2. Rank[l[a + 1]] < Rank[m[a + 1]]
    BY <1>2, <1>7, <2>1
  <2>3. a = Len(k) \/ Rank[k[a + 1]] < Rank[m[a + 1]]
    <3>1. CASE a = Len(k)
      BY <3>1
    <3>2. CASE a # Len(k)
      <4>1. Rank[k[a + 1]] < Rank[l[a + 1]] /\ a + 1 \in 1 .. Len(k) /\ a + 1 \in 1 .. Len(l) /\ a + 1 \in 1 .. Len(m)
        BY <1>1, <1>3, <2>1, <3>2 DEF Alike
      <4>2. Rank[k[a + 1]] \in Nat /\ Rank[l[a + 1]] \in Nat /\ Rank[m[a + 1]] \in Nat
        BY <1>4, <4>1
      <4> QED BY <2>2, <4>1, <4>2
    <3> QED BY <3>1, <3>2
  <2> QED BY <2>1, <2>3, LessAtDifference
<1> QED BY <1>5, <1>6, <1>7

\* ... and total.
LEMMA LessIsTotal ==
  ASSUME NEW k \in Keys, NEW l \in Keys, k # l
  PROVE  Less(k, l) \/ Less(l, k)
<1>1. Len(k) \in Nat /\ Len(l) \in Nat
  BY DEF Keys
<1> DEFINE Ends == {n \in Nat : n = Len(k) \/ n = Len(l) \/ k[n + 1] # l[n + 1]}
<1>2. PICK n \in Ends : \A m \in Ends : n <= m
  <2>1. Len(k) \in Ends /\ Ends \in SUBSET Nat
    BY <1>1
  <2> HIDE DEF Ends
  <2> QED BY <2>1, LeastOf
<1>3. n \in Nat /\ n <= Len(k) /\ n <= Len(l)
  BY <1>1, <1>2
<1>4. ASSUME NEW i \in 1 .. n PROVE k[i] = l[i]
  <2>1. i - 1 \in Nat /\ ~(n <= i - 1) /\ (i - 1) + 1 = i
    BY <1>3
  <2>2. i - 1 \notin Ends
    BY <1>2, <2>1
  <2> QED BY <2>1, <2>2
<1>5. Alike(k, l, n) /\ Alike(l, k, n)
  BY <1>3, <1>4 DEF Alike
<1>6. CASE n = Len(k) /\ n = Len(l)
  BY <1>4, <1>6, SeqEqual DEF Keys
<1>7. CASE n = Len(k) /\ n # Len(l)
  BY <1>1, <1>3, <1>5, <1>7, LessAtDifference
<1>8. CASE n # Len(k) /\ n = Len(l)
  BY <1>1, <1>3, <1>5, <1>8, LessAtDifference
<1>9. CASE n # Len(k) /\ n # Len(l)
  <2>1. k[n + 1] # l[n + 1] /\ n < Len(k) /\ n < Len(l)
    BY <1>1, <1>2, <1>3, <1>9
  <2>2. k[n + 1] \in DOMAIN Rank /\ l[n + 1] \in DOMAIN Rank
    BY <1>1, <1>3, <2>1 DEF Keys
  <2>3. Rank[k[n + 1]] \in Nat /\ Rank[l[n + 1]] \in Nat /\ Rank[k[n + 1]] # Rank[l[n + 1]]
    BY <2>1, <2>2, RankAssumption DEF RankAssumption
  <2>4. Rank[k[n + 1]] < Rank[l[n + 1]] \/ Rank[l[n + 1]] < Rank[k[n + 1]]
    BY <2>3
  <2> QED BY <1>3, <1>5, <2>1, <2>4, LessAtDifference
<1> QED BY <1>6, <1>7, <1>8, <1>9

\* The fields that a document may have.
FieldsOf(V) == Seq([key : Keys, value : V])

\* A list of fields has its positions, and at each a field.
LEMMA FieldsType ==
  ASSUME NEW V, NEW fields \in FieldsOf(V)
  PROVE  /\ Len(fields) \in Nat /\ DOMAIN fields = 1 .. Len(fields)
         /\ \A i \in DOMAIN fields : /\ i \in Nat /\ fields[i] \in [key : Keys, value : V]
                                     /\ fields[i].key \in Keys /\ fields[i].value \in V
<1>1. Len(fields) \in Nat /\ DOMAIN fields = 1 .. Len(fields)
  BY LenProperties DEF FieldsOf
<1>2. \A i \in 1 .. Len(fields) : fields[i] \in [key : Keys, value : V]
  BY ElementOfSeq DEF FieldsOf
<1> QED BY <1>1, <1>2

\* Before is a strict order of the positions, and a total one.
LEMMA BeforeIsOrder ==
  ASSUME NEW V, NEW fields \in FieldsOf(V)
  PROVE  /\ \A i \in DOMAIN fields : ~Before(fields, i, i)
         /\ \A i, j \in DOMAIN fields : i # j => Before(fields, i, j) \/ Before(fields, j, i)
         /\ \A i, j, m \in DOMAIN fields : Before(fields, i, j) /\ Before(fields, j, m) => Before(fields, i, m)
<1>1. \A i \in DOMAIN fields : i \in Nat /\ fields[i].key \in Keys
  BY FieldsType
<1>2. \A i \in DOMAIN fields : ~Before(fields, i, i)
  BY <1>1, LessIsIrreflexive DEF Before
<1>3. ASSUME NEW i \in DOMAIN fields, NEW j \in DOMAIN fields, i # j
      PROVE  Before(fields, i, j) \/ Before(fields, j, i)
  <2>1. CASE fields[i].key = fields[j].key
    <3>1. i < j \/ j < i
      BY <1>1, <1>3
    <3> QED BY <2>1, <3>1 DEF Before
  <2>2. CASE fields[i].key # fields[j].key
    BY <1>1, <2>2, LessIsTotal DEF Before
  <2> QED BY <2>1, <2>2
<1>4. ASSUME NEW i \in DOMAIN fields, NEW j \in DOMAIN fields, NEW m \in DOMAIN fields,
             Before(fields, i, j), Before(fields, j, m)
      PROVE  Before(fields, i, m)
  <2>1. /\ Less(fields[i].key, fields[j].key) \/ (fields[i].key = fields[j].key /\ i < j)
        /\ Less(fields[j].key, fields[m].key) \/ (fields[j].key = fields[m].key /\ j < m)
    BY <1>4 DEF Before
  <2>2. Less(fields[i].key, fields[m].key) \/ (fields[i].key = fields[m].key /\ i < m)
    <3>1. CASE Less(fields[i].key, fields[j].key) /\ Less(fields[j].key, fields[m].key)
      BY <1>1, <3>1, LessIsTransitive
    <3>2. CASE fields[i].key = fields[j].key /\ i < j /\ fields[j].key = fields[m].key /\ j < m
      BY <1>1, <3>2
    <3> QED BY <2>1, <3>1, <3>2
  <2> QED BY <2>2 DEF Before
<1> QED BY <1>2, <1>3, <1>4

\* Sort puts the fields into that order and keeps each of them.
LEMMA SortIsPermutation ==
  ASSUME NEW V, NEW fields \in FieldsOf(V)
  PROVE  \E from \in [DOMAIN fields -> DOMAIN fields] :
           /\ \A i \in DOMAIN fields : \E n \in DOMAIN fields : from[n] = i
           /\ \A m, n \in DOMAIN fields : m < n <=> Before(fields, from[m], from[n])
           /\ Sort(fields) = [n \in DOMAIN fields |-> fields[from[n]]]
<1> DEFINE D == DOMAIN fields
           N == Len(fields)
           Ahead(i) == {j \in D : Before(fields, j, i)}
           place == [i \in D |-> Cardinality(Ahead(i)) + 1]
           from == [n \in D |-> CHOOSE i \in D : place[i] = n]
<1>1. N \in Nat /\ D = 1 .. N /\ IsFiniteSet(D) /\ Cardinality(D) = N
  <2>1. N \in Nat /\ D = 1 .. N
    BY FieldsType
  <2> HIDE DEF D, N
  <2>2. IsFiniteSet(1 .. N) /\ Cardinality(1 .. N) = IF 1 > N THEN 0 ELSE N - 1 + 1
    BY <2>1, FS_Interval
  <2> QED BY <2>1, <2>2
<1>2. ASSUME NEW i \in D
      PROVE  /\ IsFiniteSet(Ahead(i)) /\ Cardinality(Ahead(i)) \in Nat
             /\ place[i] = Cardinality(Ahead(i)) + 1 /\ place[i] \in D
  <2>1. Ahead(i) \in SUBSET D /\ Ahead(i) # D
    BY BeforeIsOrder
  <2> HIDE DEF Ahead, D, N
  <2>2. IsFiniteSet(Ahead(i)) /\ Cardinality(Ahead(i)) <= Cardinality(D) /\ Cardinality(Ahead(i)) # Cardinality(D)
    BY <1>1, <2>1, FS_Subset
  <2>3. Cardinality(Ahead(i)) \in Nat
    BY <2>2, FS_CardinalityType
  <2>4. place[i] = Cardinality(Ahead(i)) + 1
    OBVIOUS
  <2> HIDE DEF place
  <2> QED BY <1>1, <2>2, <2>3, <2>4
<1>3. ASSUME NEW i \in D, NEW j \in D, Before(fields, i, j) PROVE place[i] < place[j]
  <2>1. Ahead(i) \in SUBSET Ahead(j) /\ Ahead(i) # Ahead(j)
    <3>1. \A x \in D : Before(fields, x, i) => Before(fields, x, j)
      BY <1>3, BeforeIsOrder
    <3>2. i \in Ahead(j) /\ i \notin Ahead(i)
      BY <1>3, BeforeIsOrder
    <3> QED BY <3>1, <3>2
  <2> HIDE DEF Ahead, D, N, place
  <2>2. Cardinality(Ahead(i)) <= Cardinality(Ahead(j)) /\ Cardinality(Ahead(i)) # Cardinality(Ahead(j))
    BY <1>2, <2>1, FS_Subset
  <2> QED BY <1>2, <2>2
<1>4. \A i, j \in D : i # j => Before(fields, i, j) \/ Before(fields, j, i)
  BY BeforeIsOrder
<1>5. \A i, j \in D : place[i] = place[j] => i = j
  <2> HIDE DEF D, place, Ahead, N
  <2>1. \A i \in D : place[i] \in Nat
    BY <1>1, <1>2
  <2> QED BY <1>3, <1>4, <2>1
<1>6. \A n \in D : \E i \in D : place[i] = n
  <2>1. place \in [D -> D]
    BY <1>2
  <2> HIDE DEF D, place, Ahead, N
  <2>2. place \in Injection(D, D)
    BY <1>5, <2>1 DEF Injection, IsInjective
  <2>3. place \in Surjection(D, D)
    BY <1>1, <2>2, FS_Injection
  <2> QED BY <2>3 DEF Surjection
<1>7. ASSUME NEW n \in D PROVE from[n] \in D /\ place[from[n]] = n
  <2> HIDE DEF D, place
  <2> QED BY <1>6
<1>8. from \in [D -> D]
  <2> HIDE DEF D, place
  <2>1. from = [n \in D |-> from[n]]
    OBVIOUS
  <2> HIDE DEF from
  <2> QED BY <1>7, <2>1
<1>9. \A i \in D : \E n \in D : from[n] = i
  <2> HIDE DEF D, place, from
  <2> QED BY <1>2, <1>5, <1>7
<1>10. \A m, n \in D : m < n <=> Before(fields, from[m], from[n])
  <2> SUFFICES ASSUME NEW m \in D, NEW n \in D PROVE m < n <=> Before(fields, from[m], from[n])
    OBVIOUS
  <2>1. m \in Nat /\ n \in Nat
    BY <1>1
  <2> HIDE DEF D, place, from, N
  <2>2. Before(fields, from[m], from[n]) => m < n
    BY <1>3, <1>7
  <2>3. Before(fields, from[n], from[m]) => n < m
    BY <1>3, <1>7
  <2>4. ASSUME m < n PROVE Before(fields, from[m], from[n])
    <3>1. from[m] # from[n] /\ ~(n < m) /\ from[m] \in D /\ from[n] \in D
      BY <1>7, <2>1, <2>4
    <3> QED BY <1>4, <2>3, <3>1
  <2> QED BY <2>2, <2>4
<1>11. Sort(fields) = [n \in DOMAIN fields |-> fields[from[n]]]
  <2>1. Sort(fields) = [n \in D |-> fields[CHOOSE i \in D : place[i] = n]]
    BY DEF Sort
  <2> HIDE DEF D, place
  <2>2. \A n \in D : from[n] = CHOOSE i \in D : place[i] = n
    BY Zenon
  <2>3. [n \in D |-> fields[CHOOSE i \in D : place[i] = n]] = [n \in D |-> fields[from[n]]]
    <3> DEFINE first(n) == CHOOSE i \in D : place[i] = n
    <3>1. \A n \in D : from[n] = first(n)
      BY <2>2, Zenon
    <3> HIDE DEF first, from
    <3>2. [n \in D |-> fields[first(n)]] = [n \in D |-> fields[from[n]]]
      BY <3>1
    <3> QED BY <3>2, Zenon DEF first
  <2> QED BY <2>1, <2>3 DEF D
<1> HIDE DEF from
<1> QED BY <1>8, <1>9, <1>10, <1>11

\* Keys are in order, and equal ones together.
LEMMA SortIsSorted ==
  ASSUME NEW V, NEW fields \in FieldsOf(V)
  PROVE  /\ Sort(fields) \in FieldsOf(V) /\ DOMAIN Sort(fields) = DOMAIN fields /\ Len(Sort(fields)) = Len(fields)
         /\ \A m, n \in DOMAIN fields : m < n =>
              \/ Less(Sort(fields)[m].key, Sort(fields)[n].key)
              \/ Sort(fields)[m].key = Sort(fields)[n].key
<1>1. PICK from \in [DOMAIN fields -> DOMAIN fields] :
           /\ \A i \in DOMAIN fields : \E n \in DOMAIN fields : from[n] = i
           /\ \A m, n \in DOMAIN fields : m < n <=> Before(fields, from[m], from[n])
           /\ Sort(fields) = [n \in DOMAIN fields |-> fields[from[n]]]
  BY SortIsPermutation
<1>2. Sort(fields) \in FieldsOf(V) /\ DOMAIN Sort(fields) = DOMAIN fields /\ Len(Sort(fields)) = Len(fields)
  <2>1. \A n \in DOMAIN fields : fields[from[n]] \in [key : Keys, value : V]
    BY FieldsType
  <2>2. Len(fields) \in Nat /\ DOMAIN fields = 1 .. Len(fields)
    BY FieldsType
  <2>3. Sort(fields) \in [1 .. Len(fields) -> [key : Keys, value : V]]
    BY <1>1, <2>1, <2>2
  <2> QED BY <2>2, <2>3 DEF FieldsOf
<1>3. ASSUME NEW m \in DOMAIN fields, NEW n \in DOMAIN fields, m < n
      PROVE  \/ Less(Sort(fields)[m].key, Sort(fields)[n].key)
             \/ Sort(fields)[m].key = Sort(fields)[n].key
  BY <1>1, <1>3 DEF Before
<1> QED BY <1>2, <1>3

\* What lies between two equal keys is equal.
LEMMA BetweenEqualKeys ==
  ASSUME NEW V, NEW fields \in FieldsOf(V), NEW a \in DOMAIN fields, NEW b \in DOMAIN fields, NEW c \in DOMAIN fields,
         a < b, b <= c, Sort(fields)[a].key = Sort(fields)[c].key
  PROVE  Sort(fields)[b].key = Sort(fields)[a].key
<1> DEFINE s == Sort(fields)
<1>1. s[a].key \in Keys /\ s[b].key \in Keys
  BY SortIsSorted, FieldsType
<1>2. Less(s[a].key, s[b].key) \/ s[a].key = s[b].key
  BY SortIsSorted
<1>3. b = c \/ Less(s[b].key, s[c].key) \/ s[b].key = s[c].key
  <2>1. b = c \/ b < c
    BY FieldsType
  <2> QED BY <2>1, SortIsSorted
<1> HIDE DEF s
<1>4. ~ (Less(s[a].key, s[b].key) /\ Less(s[b].key, s[a].key))
  BY <1>1, LessIsTransitive, LessIsIrreflexive
<1> QED BY <1>2, <1>3, <1>4 DEF s

-----------------------------------------------------------------------------
(* Dedup.                                                                   *)

\* The name that a value gives way to, and the fields that are left.
ValueOf(k)   == k \o Dot \o <<"value">>
Kept(fields) == {fields[n] : n \in {m \in DOMAIN fields : fields[m].value # Ignored}}

\* Of every key the last value is there, under it or under its other name, where a
\* field of that very name is given way to; and there is nothing else.
Keeps(kept, fields) ==
  LET keys == {fields[i].key : i \in DOMAIN fields} IN
  /\ \A k \in keys : \/ [key |-> k, value |-> LastValue(fields, k)] \in kept
                     \/ /\ IsObject(fields, k)
                        /\ \E h \in kept : /\ h.key = AsValue(k)
                                           /\ AsValue(k) \notin keys => h.value = LastValue(fields, k)
  /\ \A h \in kept : \E i \in DOMAIN fields :
       fields[i].value = h.value /\ h.key \in {fields[i].key, AsValue(fields[i].key)}

\* That name is a key, the old one with two tokens more, and sorts after it.
LEMMA ValueOfType ==
  ASSUME NEW k \in Keys
  PROVE  /\ ValueOf(k) \in Keys /\ Len(ValueOf(k)) = Len(k) + 2 /\ Len(k) \in Nat
         /\ \A i \in 1 .. Len(k) : ValueOf(k)[i] = k[i]
         /\ ValueOf(k)[Len(k) + 1] = "." /\ ValueOf(k)[Len(k) + 2] = "value"
         /\ ValueOf(k) = k \o <<".", "value">>
         /\ Less(k, ValueOf(k))
<1>1. "." \in DOMAIN Rank /\ "value" \in DOMAIN Rank
  BY RankAssumption DEF RankAssumption
<1>2. <<".">> \in Keys /\ <<"value">> \in Keys /\ <<".", "value">> \in Keys /\ <<".">> \o <<"value">> = <<".", "value">>
  <2> DEFINE p == "."
             v == "value"
  <2>1. p \in DOMAIN Rank /\ v \in DOMAIN Rank
    BY <1>1
  <2> HIDE DEF p, v
  <2>2. <<p>> \in Keys /\ <<v>> \in Keys /\ <<p, v>> \in Keys
    BY <2>1 DEF Keys
  <2>3. <<p>> \o <<v>> = <<p, v>>
    <3> DEFINE a == <<p>>
               b == <<v>>
               c == <<p, v>>
    <3>1. Len(a) = 1 /\ a[1] = p /\ Len(b) = 1 /\ b[1] = v /\ Len(c) = 2 /\ c[1] = p /\ c[2] = v
      OBVIOUS
    <3>2. a \in Keys /\ b \in Keys /\ c \in Keys
      BY <2>2
    <3> HIDE DEF a, b, c
    <3>3. a \o b \in Keys /\ Len(a \o b) = 2 /\ (a \o b)[1] = p /\ (a \o b)[2] = v
      <4>1. /\ a \o b \in Keys /\ Len(a \o b) = Len(a) + Len(b)
            /\ \A i \in 1 .. Len(a) + Len(b) : (a \o b)[i] = IF i <= Len(a) THEN a[i] ELSE b[i - Len(a)]
        BY <3>2, ConcatProperties DEF Keys
      <4>2. 1 \in 1 .. 1 + 1 /\ 2 \in 1 .. 1 + 1 /\ 1 <= 1 /\ ~(2 <= 1) /\ 2 - 1 = 1
        OBVIOUS
      <4> QED BY <3>1, <4>1, <4>2
    <3>4. \A i \in 1 .. 2 : (a \o b)[i] = c[i]
      <4>1. \A i \in 1 .. 2 : i = 1 \/ i = 2
        OBVIOUS
      <4> QED BY <3>1, <3>3, <4>1
    <3>5. a \o b = c
      BY <3>1, <3>2, <3>3, <3>4, SeqEqual DEF Keys
    <3> QED BY <3>5 DEF a, b, c
  <2> QED BY <2>2, <2>3 DEF p, v
<1>3. ValueOf(k) = k \o <<".", "value">>
  BY <1>2, ConcatAssociative DEF Keys, ValueOf, Dot
<1>4. Len(<<".", "value">>) = 2 /\ <<".", "value">>[1] = "." /\ <<".", "value">>[2] = "value" /\ Len(k) \in Nat
  BY DEF Keys
<1> DEFINE s == k \o <<".", "value">>
           v == <<".", "value">>
<1> HIDE DEF v
<1>5. /\ s \in Keys /\ Len(s) = Len(k) + 2
      /\ \A i \in 1 .. Len(k) + 2 : s[i] = IF i <= Len(k) THEN k[i] ELSE v[i - Len(k)]
  BY <1>2, <1>4, ConcatProperties DEF Keys, v
<1>6. /\ \A i \in 1 .. Len(k) : s[i] = k[i]
      /\ s[Len(k) + 1] = "." /\ s[Len(k) + 2] = "value"
  <2> HIDE DEF s
  <2>1. (Len(k) + 1) - Len(k) = 1 /\ (Len(k) + 2) - Len(k) = 2
    BY <1>4
  <2> QED BY <1>4, <1>5, <2>1 DEF v
<1> HIDE DEF s
<1>7. Less(k, s)
  BY <1>4, <1>5, <1>6, LessAtDifference DEF Alike
<1> QED BY <1>3, <1>4, <1>5, <1>6, <1>7 DEF s

\* Different keys give way to different names.
LEMMA ValueOfTellsApart ==
  ASSUME NEW k \in Keys, NEW l \in Keys, ValueOf(k) = ValueOf(l)
  PROVE  k = l
<1>1. Len(k) = Len(l)
  BY ValueOfType
<1>2. ASSUME NEW i \in 1 .. Len(k) PROVE k[i] = l[i]
  <2>1. ValueOf(k)[i] = k[i]
    BY ValueOfType
  <2>2. i \in 1 .. Len(l)
    BY <1>1
  <2>3. ValueOf(l)[i] = l[i]
    BY <2>2, ValueOfType
  <2> QED BY <2>1, <2>3
<1> QED BY <1>1, <1>2, SeqEqual DEF Keys

\* A key is the name of an object in another one.
LEMMA ObjectOfKey ==
  ASSUME NEW k \in Keys, NEW l \in Keys
  PROVE  IsObjectOf(k, l) <=> Alike(k, l, Len(k)) /\ Len(k) < Len(l) /\ l[Len(k) + 1] = "."
<1> DEFINE s == k \o Dot
<1>1. Len(k) \in Nat /\ Len(l) \in Nat /\ <<".">> \in Keys /\ Len(<<".">>) = 1
  <2>1. "." \in DOMAIN Rank
    BY RankAssumption DEF RankAssumption
  <2> QED BY <2>1 DEF Keys
<1>2. s \in Keys /\ Len(s) = Len(k) + 1 /\ s[Len(k) + 1] = "." /\ \A i \in 1 .. Len(k) : s[i] = k[i]
  BY <1>1, ConcatProperties DEF Keys, Dot
<1>3. IsObjectOf(k, l) <=> Len(s) <= Len(l) /\ SubSeq(s, 1, Len(s)) = SubSeq(l, 1, Len(s))
  BY DEF IsObjectOf, IsPrefix
<1> HIDE DEF s
<1>4. Len(s) <= Len(l) => (SubSeq(s, 1, Len(s)) = SubSeq(l, 1, Len(s)) <=> Alike(s, l, Len(s)))
  BY <1>1, <1>2, AlikeIsPrefix
<1>5. Alike(s, l, Len(s)) <=> Alike(k, l, Len(k)) /\ Len(k) < Len(l) /\ l[Len(k) + 1] = "."
  <2>1. \A i \in 1 .. Len(k) + 1 : i \in 1 .. Len(k) \/ i = Len(k) + 1
    BY <1>1
  <2>2. Len(k) + 1 \in 1 .. Len(k) + 1 /\ \A i \in 1 .. Len(k) : i \in 1 .. Len(k) + 1
    BY <1>1
  <2> QED BY <1>1, <1>2, <2>1, <2>2 DEF Alike
<1>6. Alike(s, l, Len(s)) => Len(s) <= Len(l)
  BY DEF Alike
<1> QED BY <1>3, <1>4, <1>5, <1>6

\* A key is no member of the object of its own name.
LEMMA NotOfItself == ASSUME NEW k \in Keys PROVE ~IsObjectOf(k, k)
<1>1. ~ (Len(k) < Len(k))
  BY DEF Keys
<1> QED BY <1>1, ObjectOfKey

\* Rename changes the keys of values that are objects in the next key.
IsRenamed(fields, i) == i < Len(fields) /\ IsObjectOf(fields[i].key, fields[i + 1].key)

\* No other keys, no values and no positions change.
LEMMA RenameType ==
  ASSUME NEW V, NEW fields \in FieldsOf(V)
  PROVE  /\ Rename(fields) \in FieldsOf(V) /\ DOMAIN Rename(fields) = DOMAIN fields
         /\ \A i \in DOMAIN fields :
              /\ Rename(fields)[i].value = fields[i].value
              /\ IsRenamed(fields, i) => Rename(fields)[i].key = ValueOf(fields[i].key)
              /\ ~IsRenamed(fields, i) => Rename(fields)[i] = fields[i]
<1> DEFINE r == Rename(fields)
<1>1. ASSUME NEW i \in DOMAIN fields
      PROVE  /\ IsRenamed(fields, i) => r[i] = [fields[i] EXCEPT !.key = ValueOf(fields[i].key)]
             /\ ~IsRenamed(fields, i) => r[i] = fields[i]
  BY DEF Rename, IsRenamed, ValueOf
<1>2. DOMAIN r = DOMAIN fields /\ r = [i \in DOMAIN fields |-> r[i]]
  BY DEF Rename
<1> HIDE DEF r
<1>3. ASSUME NEW i \in DOMAIN fields
      PROVE  /\ r[i] \in [key : Keys, value : V]
             /\ r[i].value = fields[i].value
             /\ IsRenamed(fields, i) => r[i].key = ValueOf(fields[i].key)
  <2>1. fields[i] \in [key : Keys, value : V] /\ ValueOf(fields[i].key) \in Keys
    BY FieldsType, ValueOfType
  <2> HIDE DEF IsRenamed, ValueOf
  <2> QED BY <1>1, <2>1
<1>4. r \in FieldsOf(V)
  <2>1. Len(fields) \in Nat /\ DOMAIN fields = 1 .. Len(fields)
    BY FieldsType
  <2>2. r \in [1 .. Len(fields) -> [key : Keys, value : V]]
    BY <1>2, <1>3, <2>1
  <2> QED BY <2>1, <2>2 DEF FieldsOf
<1> QED BY <1>1, <1>2, <1>3, <1>4 DEF r

\* MarkDuplicates leaves the last field of every key ...
LEMMA LastIsKept ==
  ASSUME NEW V, Ignored \notin V, NEW fields \in FieldsOf(V), NEW n \in DOMAIN fields,
         \A m \in DOMAIN fields : n < m => fields[m].key # fields[n].key
  PROVE  fields[n] \in Kept(MarkDuplicates(fields))
<1>1. Len(fields) \in Nat /\ DOMAIN fields = 1 .. Len(fields) /\ fields[n].value \in V
  BY FieldsType
<1>2. ~(n < Len(fields) /\ fields[n].key = fields[n + 1].key)
  BY <1>1
<1>3. MarkDuplicates(fields)[n] = fields[n] /\ n \in DOMAIN MarkDuplicates(fields)
  BY <1>2 DEF MarkDuplicates
<1>4. fields[n].value # Ignored
  BY <1>1
<1> QED BY <1>3, <1>4 DEF Kept

\* ... and no field that has the key of the next one.
LEMMA KeptIsLast ==
  ASSUME NEW V, NEW fields \in FieldsOf(V), NEW h \in Kept(MarkDuplicates(fields))
  PROVE  \E n \in DOMAIN fields : h = fields[n] /\ ~(n < Len(fields) /\ fields[n].key = fields[n + 1].key)
<1> DEFINE d == MarkDuplicates(fields)
<1>1. PICK n \in DOMAIN d : h = d[n] /\ d[n].value # Ignored
  BY DEF Kept
<1>2. n \in DOMAIN fields /\ fields[n] \in [key : Keys, value : V]
  BY FieldsType DEF MarkDuplicates
<1>3. n < Len(fields) /\ fields[n].key = fields[n + 1].key => d[n].value = Ignored
  BY <1>2 DEF MarkDuplicates
<1>4. ~(n < Len(fields) /\ fields[n].key = fields[n + 1].key) => d[n] = fields[n]
  BY <1>2 DEF MarkDuplicates
<1> QED BY <1>1, <1>2, <1>3, <1>4

\* The last value of a key stands at the last position of the key.
LEMMA LastValueAt ==
  ASSUME NEW V, NEW fields \in FieldsOf(V), NEW m \in DOMAIN fields,
         \A x \in DOMAIN fields : m < x => fields[x].key # fields[m].key
  PROVE  LastValue(fields, fields[m].key) = fields[m].value
<1> DEFINE same == {i \in DOMAIN fields : fields[i].key = fields[m].key}
<1>1. Len(fields) \in Nat /\ DOMAIN fields = 1 .. Len(fields)
  BY FieldsType
<1>2. same \in SUBSET (1 .. Len(fields)) /\ m \in same /\ m \in Nat
  BY <1>1
<1>3. \A i \in same : ~(m < i)
  OBVIOUS
<1>4. LastValue(fields, fields[m].key) = fields[Max(same)].value
  BY DEF LastValue
<1> HIDE DEF same
<1>5. Max(same) \in same /\ \A i \in same : i <= Max(same)
  BY <1>1, <1>2, GreatestOf
<1>6. Max(same) \in Nat /\ m <= Max(same) /\ ~(m < Max(same))
  BY <1>1, <1>2, <1>3, <1>5
<1>7. Max(same) = m
  BY <1>2, <1>6
<1> QED BY <1>4, <1>7

\* Of the values of a key, Sort puts the last one last.
LEMMA SortPutsLastLast ==
  ASSUME NEW V, NEW fields \in FieldsOf(V), NEW i \in DOMAIN fields
  PROVE  \E m \in DOMAIN fields :
           /\ Sort(fields)[m].key = fields[i].key
           /\ Sort(fields)[m].value = LastValue(fields, fields[i].key)
           /\ \A x \in DOMAIN fields : m < x => Sort(fields)[x].key # fields[i].key
<1> DEFINE k == fields[i].key
           same == {j \in DOMAIN fields : fields[j].key = k}
<1>1. Len(fields) \in Nat /\ DOMAIN fields = 1 .. Len(fields) /\ k \in Keys
  BY FieldsType
<1>2. same \in SUBSET (1 .. Len(fields)) /\ same # {}
  BY <1>1
<1>3. PICK last \in same : \A j \in same : j <= last
  <2> HIDE DEF same
  <2> QED BY <1>1, <1>2, GreatestOf
<1>4. last \in DOMAIN fields /\ fields[last].key = k /\ last \in Nat
  BY <1>1, <1>3
<1>5. \A x \in DOMAIN fields : last < x => fields[x].key # fields[last].key
  <2>1. \A x \in DOMAIN fields : x \in Nat
    BY <1>1
  <2> QED BY <1>3, <1>4, <2>1
<1>6. LastValue(fields, k) = fields[last].value
  BY <1>4, <1>5, LastValueAt
<1>7. PICK from \in [DOMAIN fields -> DOMAIN fields] :
           /\ \A j \in DOMAIN fields : \E n \in DOMAIN fields : from[n] = j
           /\ \A m, n \in DOMAIN fields : m < n <=> Before(fields, from[m], from[n])
           /\ Sort(fields) = [n \in DOMAIN fields |-> fields[from[n]]]
  BY SortIsPermutation
<1>8. PICK m \in DOMAIN fields : from[m] = last
  BY <1>4, <1>7
<1>9. ASSUME NEW x \in DOMAIN fields, m < x, Sort(fields)[x].key = k PROVE FALSE
  <2>1. from[x] \in same
    BY <1>7, <1>9
  <2>2. Before(fields, last, from[x])
    BY <1>7, <1>8, <1>9
  <2>3. ~Less(k, k) /\ fields[from[x]].key = k
    BY <1>1, <2>1, LessIsIrreflexive
  <2>4. last < from[x]
    BY <1>4, <2>2, <2>3 DEF Before
  <2>5. from[x] <= last /\ from[x] \in Nat
    BY <1>1, <1>3, <2>1
  <2> QED BY <1>4, <2>4, <2>5
<1> HIDE DEF same
<1>10. Sort(fields)[m] = fields[last]
  BY <1>7, <1>8
<1> QED BY <1>4, <1>6, <1>9, <1>10

\* Sort neither adds a field nor drops one.
LEMMA SortKeepsFields ==
  ASSUME NEW V, NEW fields \in FieldsOf(V)
  PROVE  /\ \A n \in DOMAIN fields : \E i \in DOMAIN fields : Sort(fields)[n] = fields[i]
         /\ \A i \in DOMAIN fields : \E n \in DOMAIN fields : Sort(fields)[n] = fields[i]
<1>1. PICK from \in [DOMAIN fields -> DOMAIN fields] :
           /\ \A i \in DOMAIN fields : \E n \in DOMAIN fields : from[n] = i
           /\ \A m, n \in DOMAIN fields : m < n <=> Before(fields, from[m], from[n])
           /\ Sort(fields) = [n \in DOMAIN fields |-> fields[from[n]]]
  BY SortIsPermutation
<1> QED BY <1>1

\* After sorting and marking, what is left of a key is its last value.
LEMMA LastValueIsKept ==
  ASSUME NEW V, Ignored \notin V, NEW fields \in FieldsOf(V), NEW i \in DOMAIN fields
  PROVE  [key |-> fields[i].key, value |-> LastValue(fields, fields[i].key)] \in Kept(MarkDuplicates(Sort(fields)))
<1> DEFINE s == Sort(fields)
<1>1. s \in FieldsOf(V) /\ DOMAIN s = DOMAIN fields
  BY SortIsSorted
<1>2. PICK m \in DOMAIN fields : /\ s[m].key = fields[i].key
                                 /\ s[m].value = LastValue(fields, fields[i].key)
                                 /\ \A x \in DOMAIN fields : m < x => s[x].key # fields[i].key
  BY SortPutsLastLast
<1> HIDE DEF s
<1>3. s[m] \in Kept(MarkDuplicates(s))
  BY <1>1, <1>2, LastIsKept
<1>4. s[m] \in [key : Keys, value : V]
  BY <1>1, FieldsType
<1>5. s[m] = [key |-> fields[i].key, value |-> LastValue(fields, fields[i].key)]
  BY <1>2, <1>4
<1> QED BY <1>3, <1>5 DEF s

\* Dedup keeps, under its key or as a member called value of the object of that name,
\* the value given last, and nothing else.
\* (objmodel.go:190 "The filtering only keeps the last value for a key.")
THEOREM DedupKeepsLastValues ==
  ASSUME NEW V, Ignored \notin V, NEW fields \in FieldsOf(V)
  PROVE  Keeps(Kept(Dedup(fields)), fields)
<1> DEFINE s == Sort(fields)
           r == Rename(s)
           t == Sort(r)
           held == Kept(Dedup(fields))
<1>1. s \in FieldsOf(V) /\ DOMAIN s = DOMAIN fields
  BY SortIsSorted
<1>2. /\ \A m, n \in DOMAIN fields : m < n => Less(s[m].key, s[n].key) \/ s[m].key = s[n].key
      /\ \A n \in DOMAIN fields : \E i \in DOMAIN fields : s[n] = fields[i]
  BY SortIsSorted, SortKeepsFields
<1>3. \A i \in DOMAIN fields :
        \E m \in DOMAIN fields : /\ s[m].key = fields[i].key
                                 /\ s[m].value = LastValue(fields, fields[i].key)
                                 /\ \A x \in DOMAIN fields : m < x => s[x].key # fields[i].key
  BY SortPutsLastLast
<1> HIDE DEF s
<1>4. /\ r \in FieldsOf(V) /\ DOMAIN r = DOMAIN fields
      /\ \A i \in DOMAIN fields : /\ r[i].value = s[i].value
                                  /\ IsRenamed(s, i) => r[i].key = ValueOf(s[i].key)
                                  /\ ~IsRenamed(s, i) => r[i] = s[i]
  BY <1>1, RenameType
<1> HIDE DEF r
<1>5. t \in FieldsOf(V) /\ DOMAIN t = DOMAIN fields /\ \A n \in DOMAIN fields : \E m \in DOMAIN fields : t[n] = r[m]
  BY <1>4, SortIsSorted, SortKeepsFields
<1>6. held = Kept(MarkDuplicates(t))
  BY DEF Dedup, s, r
<1>7. \A m \in DOMAIN fields : [key |-> r[m].key, value |-> LastValue(r, r[m].key)] \in held
  BY <1>4, <1>6, LastValueIsKept
<1> HIDE DEF t, held
<1>8. /\ Len(s) \in Nat /\ DOMAIN fields = 1 .. Len(s)
      /\ \A n \in DOMAIN fields : n \in Nat /\ s[n].key \in Keys
  BY <1>1, FieldsType
<1>9. ASSUME NEW i \in DOMAIN fields
      PROVE  LET k == fields[i].key IN
             \/ [key |-> k, value |-> LastValue(fields, k)] \in held
             \/ /\ IsObject(fields, k)
                /\ \E h \in held : /\ h.key = ValueOf(k)
                                   /\ (\A j \in DOMAIN fields : fields[j].key # ValueOf(k)) => h.value = LastValue(fields, k)
  <2> DEFINE k == fields[i].key
             v == LastValue(fields, k)
  <2>1. PICK m \in DOMAIN fields : s[m].key = k /\ s[m].value = v /\ \A x \in DOMAIN fields : m < x => s[x].key # k
    BY <1>3
  <2>2. k \in Keys
    BY FieldsType
  <2> HIDE DEF v
  <2>3. CASE ~IsRenamed(s, m)
    <3>1. r[m] = s[m] /\ r[m].key = k
      BY <1>4, <2>1, <2>3
    <3>2. ASSUME NEW x \in DOMAIN r, m < x, r[x].key = k PROVE FALSE
      <4>1. Less(k, s[x].key) /\ s[x].key \in Keys
        <5>1. x \in DOMAIN fields /\ s[x].key # k /\ s[m].key = k
          BY <1>4, <2>1, <3>2
        <5> QED BY <1>2, <1>8, <3>2, <5>1
      <4>2. r[x].key = ValueOf(s[x].key)
        BY <1>4, <2>1, <3>2
      <4>3. Less(s[x].key, k)
        BY <3>2, <4>1, <4>2, ValueOfType
      <4> QED BY <2>2, <4>1, <4>3, LessIsTransitive, LessIsIrreflexive
    <3>3. LastValue(r, r[m].key) = r[m].value
      BY <1>4, <3>1, <3>2, LastValueAt
    <3> QED BY <1>7, <2>1, <3>1, <3>3 DEF v
  <2>4. CASE IsRenamed(s, m)
    <3>1. r[m].key = ValueOf(k) /\ r[m].value = v
      BY <1>4, <2>1, <2>4
    <3>2. IsObject(fields, k)
      <4>1. m + 1 \in DOMAIN fields /\ IsObjectOf(k, s[m + 1].key)
        BY <1>8, <2>1, <2>4 DEF IsRenamed
      <4>2. PICK j \in DOMAIN fields : s[m + 1] = fields[j]
        BY <1>2, <4>1
      <4> QED BY <4>1, <4>2 DEF IsObject, IsObjectOf
    <3>3. ASSUME \A j \in DOMAIN fields : fields[j].key # ValueOf(k), NEW x \in DOMAIN r, m < x, r[x].key = ValueOf(k)
          PROVE  FALSE
      <4>1. IsRenamed(s, x)
        BY <1>2, <1>4, <3>3
      <4>2. ValueOf(s[x].key) = ValueOf(k) /\ s[x].key \in Keys
        BY <1>4, <1>8, <3>3, <4>1
      <4>3. s[x].key = k
        BY <2>2, <4>2, ValueOfTellsApart
      <4> QED BY <1>4, <2>1, <3>3, <4>3
    <3>4. (\A j \in DOMAIN fields : fields[j].key # ValueOf(k)) => LastValue(r, r[m].key) = r[m].value
      BY <1>4, <3>1, <3>3, LastValueAt
    <3> DEFINE h == [key |-> r[m].key, value |-> LastValue(r, r[m].key)]
    <3>5. h \in held /\ h.key = ValueOf(k) /\ ((\A j \in DOMAIN fields : fields[j].key # ValueOf(k)) => h.value = v)
      BY <1>7, <3>1, <3>4
    <3> HIDE DEF h
    <3> QED BY <3>2, <3>5 DEF v
  <2> QED BY <2>3, <2>4
<1>10. ASSUME NEW h \in held
       PROVE  \E i \in DOMAIN fields : fields[i].value = h.value /\ h.key \in {fields[i].key, ValueOf(fields[i].key)}
  <2>1. PICK n \in DOMAIN fields : h = t[n]
    BY <1>5, <1>6, KeptIsLast
  <2>2. PICK m \in DOMAIN fields : h = r[m]
    BY <1>5, <2>1
  <2>3. PICK i \in DOMAIN fields : s[m] = fields[i]
    BY <1>2
  <2> QED BY <1>4, <2>2, <2>3
<1>11. \A i \in DOMAIN fields : fields[i].key \o <<".", "value">> = ValueOf(fields[i].key)
  BY FieldsType, ValueOfType
<1> DEFINE keys == {fields[i].key : i \in DOMAIN fields}
<1>12. ASSUME NEW k \in keys
       PROVE  \/ [key |-> k, value |-> LastValue(fields, k)] \in held
              \/ /\ IsObject(fields, k)
                 /\ \E h \in held : /\ h.key = k \o <<".", "value">>
                                    /\ k \o <<".", "value">> \notin keys => h.value = LastValue(fields, k)
  <2>1. PICK i \in DOMAIN fields : k = fields[i].key
    OBVIOUS
  <2>2. k \o <<".", "value">> = ValueOf(k)
    BY <1>11, <2>1
  <2>3. ValueOf(k) \notin keys => \A j \in DOMAIN fields : fields[j].key # ValueOf(k)
    OBVIOUS
  <2> HIDE DEF keys
  <2> QED BY <1>9, <2>1, <2>2, <2>3
<1>13. ASSUME NEW h \in held
       PROVE  \E i \in DOMAIN fields :
                fields[i].value = h.value /\ h.key \in {fields[i].key, fields[i].key \o <<".", "value">>}
  BY <1>10, <1>11
<1> HIDE DEF keys
<1>14. Keeps(held, fields)
  BY <1>12, <1>13 DEF Keeps, keys, AsValue
<1> QED BY <1>14 DEF held

\* Dedup marks every field but one of each key, so that no name is written twice.
\* (objmodel.go:218 "This step ensures that we do not have duplicate fields names when
\* serializing.")
THEOREM DedupWritesKeysOnce ==
  ASSUME NEW V, NEW fields \in FieldsOf(V)
  PROVE  /\ DOMAIN Dedup(fields) = DOMAIN fields
         /\ \A i, j \in DOMAIN fields :
              i # j /\ Dedup(fields)[i].value # Ignored /\ Dedup(fields)[j].value # Ignored =>
                Dedup(fields)[i].key # Dedup(fields)[j].key
<1> DEFINE r == Rename(Sort(fields))
           t == Sort(r)
           d == MarkDuplicates(t)
<1>1. r \in FieldsOf(V) /\ DOMAIN r = DOMAIN fields
  BY SortIsSorted, RenameType
<1> HIDE DEF r
<1>2. t \in FieldsOf(V) /\ DOMAIN t = DOMAIN fields
  BY <1>1, SortIsSorted
<1>3. \A a, b, c \in DOMAIN fields : a < b /\ b <= c /\ t[a].key = t[c].key => t[b].key = t[a].key
  BY <1>1, BetweenEqualKeys
<1> HIDE DEF t
<1>4. DOMAIN fields = 1 .. Len(t) /\ Len(t) \in Nat
  BY <1>2, FieldsType
<1>5. DOMAIN d = DOMAIN fields
  BY <1>2 DEF MarkDuplicates
<1>6. \A i \in DOMAIN fields :
        /\ t[i] \in [key : Keys, value : V] /\ d[i].key = t[i].key
        /\ i < Len(t) /\ t[i].key = t[i + 1].key => d[i].value = Ignored
  <2>1. \A i \in DOMAIN fields : t[i] \in [key : Keys, value : V]
    BY <1>2, FieldsType
  <2> QED BY <1>2, <2>1 DEF MarkDuplicates
<1>7. ASSUME NEW i \in DOMAIN fields, NEW j \in DOMAIN fields, i < j, d[i].key = d[j].key PROVE d[i].value = Ignored
  <2>1. i + 1 \in DOMAIN fields /\ i < i + 1 /\ i + 1 <= j /\ i < Len(t)
    BY <1>4, <1>7
  <2>2. t[i + 1].key = t[i].key
    BY <1>3, <1>6, <1>7, <2>1
  <2> QED BY <1>6, <2>1, <2>2
<1>8. \A i, j \in DOMAIN fields : i # j => i < j \/ j < i
  BY <1>4
<1>9. d = Dedup(fields)
  BY DEF Dedup, t, r
<1> HIDE DEF d
<1> QED BY <1>5, <1>7, <1>8, <1>9

\* What lies between the name of an object and a member of it is a member too, if no
\* token sorts before the separator.
LEMMA BetweenNameAndMember ==
  ASSUME NEW k \in Keys, NEW l \in Keys, NEW m \in Keys, Less(k, l), Less(l, m) \/ l = m, IsObjectOf(k, m),
         \A i \in DOMAIN l : Rank[l[i]] >= Rank["."]
  PROVE  IsObjectOf(k, l)
<1>1. Len(k) \in Nat /\ Len(l) \in Nat /\ Len(m) \in Nat
  BY DEF Keys
<1>2. DOMAIN l = 1 .. Len(l)
  BY DEF Keys
<1>3. \A x \in Keys : \A n \in 1 .. Len(x) : x[n] \in DOMAIN Rank /\ Rank[x[n]] \in Nat
  BY RankAssumption DEF RankAssumption, Keys
<1>4. Alike(k, m, Len(k)) /\ Len(k) < Len(m) /\ m[Len(k) + 1] = "."
  BY ObjectOfKey
<1>5. PICK a \in Nat : Alike(k, l, a) /\ a < Len(l) /\ (a = Len(k) \/ Rank[k[a + 1]] < Rank[l[a + 1]])
  BY LessAtDifference
<1>6. SUFFICES ASSUME Less(l, m) PROVE IsObjectOf(k, l)
  OBVIOUS
<1>7. PICK b \in Nat : Alike(l, m, b) /\ b < Len(m) /\ (b = Len(l) \/ Rank[l[b + 1]] < Rank[m[b + 1]])
  BY <1>6, LessAtDifference
<1>8. a \in Nat /\ b \in Nat /\ a < Len(l) /\ a <= Len(k)
  BY <1>5 DEF Alike
<1>9. a <= Len(k) /\ a <= b
  <2>1. a <= Len(k)
    BY <1>8
  <2>2. ASSUME b < a PROVE FALSE
    <3>1. b + 1 \in 1 .. a /\ b + 1 \in 1 .. Len(k) /\ b + 1 \in 1 .. Len(l) /\ b # Len(l)
      BY ONLY <1>1, <1>8, <2>2
    <3>2. k[b + 1] = l[b + 1] /\ k[b + 1] = m[b + 1]
      BY <1>4, <1>5, <3>1 DEF Alike
    <3>3. Rank[l[b + 1]] \in Nat /\ Rank[l[b + 1]] < Rank[m[b + 1]]
      BY <1>3, <1>7, <3>1
    <3> QED BY <3>2, <3>3
  <2> QED BY <2>1, <2>2
<1>10. a = Len(k)
  <2> SUFFICES ASSUME a # Len(k) PROVE FALSE
    OBVIOUS
  <2>1. k[a + 1] = m[a + 1] /\ a + 1 \in 1 .. Len(k) /\ a + 1 \in 1 .. Len(l)
    BY <1>1, <1>4, <1>5, <1>9 DEF Alike
  <2>2. Rank[k[a + 1]] \in Nat /\ Rank[l[a + 1]] \in Nat /\ Rank[k[a + 1]] < Rank[l[a + 1]]
    BY <1>3, <1>5, <2>1
  <2>3. CASE a < b
    <3>1. l[a + 1] = m[a + 1]
      BY <1>7, <2>3 DEF Alike
    <3> QED BY <2>1, <2>2, <3>1
  <2>4. CASE a = b
    <3>1. b # Len(l)
      BY ONLY <1>1, <1>8, <2>4
    <3>2. Rank[l[a + 1]] < Rank[m[a + 1]]
      BY <1>7, <2>4, <3>1
    <3> QED BY <2>1, <2>2, <3>2
  <2> QED BY <1>9, <2>3, <2>4
<1>11. Len(k) < Len(l) /\ Alike(k, l, Len(k)) /\ Len(k) + 1 \in DOMAIN l
  BY <1>1, <1>8, <1>2, <1>5, <1>10
<1>12. l[Len(k) + 1] = "."
  <2>1. CASE a < b
    BY <1>4, <1>7, <1>10, <2>1 DEF Alike
  <2>2. CASE a = b
    <3>1. Rank[l[Len(k) + 1]] < Rank["."] /\ Rank[l[Len(k) + 1]] >= Rank["."]
      <4>1. b = Len(k) /\ b # Len(l)
        BY ONLY <1>1, <1>8, <1>10, <2>2
      <4>2. Rank[l[b + 1]] < Rank[m[b + 1]]
        BY <1>7, <4>1
      <4> QED BY <1>4, <1>11, <4>1, <4>2
    <3>2. Rank[l[Len(k) + 1]] \in Nat /\ Rank["."] \in Nat
      BY <1>1, <1>2, <1>3, <1>11, RankAssumption DEF RankAssumption
    <3> QED BY <3>1, <3>2
  <2> QED BY <1>9, <2>1, <2>2
<1> QED BY <1>11, <1>12, ObjectOfKey

\* Fields at two positions come from two.
LEMMA SortKeepsApart ==
  ASSUME NEW V, NEW fields \in FieldsOf(V)
  PROVE  \A m, n \in DOMAIN fields : m # n =>
           \E i, j \in DOMAIN fields : i # j /\ Sort(fields)[m] = fields[i] /\ Sort(fields)[n] = fields[j]
<1> SUFFICES ASSUME NEW m \in DOMAIN fields, NEW n \in DOMAIN fields, m # n
             PROVE  \E i, j \in DOMAIN fields : i # j /\ Sort(fields)[m] = fields[i] /\ Sort(fields)[n] = fields[j]
  OBVIOUS
<1>1. PICK from \in [DOMAIN fields -> DOMAIN fields] :
        /\ \A i \in DOMAIN fields : \E a \in DOMAIN fields : from[a] = i
        /\ \A a, b \in DOMAIN fields : a < b <=> Before(fields, from[a], from[b])
        /\ Sort(fields) = [a \in DOMAIN fields |-> fields[from[a]]]
  BY SortIsPermutation, SMTT(30)
<1>2. m < n \/ n < m
  <2>1. m \in Nat /\ n \in Nat
    BY FieldsType
  <2> QED BY <2>1
<1>3. from[m] # from[n]
  BY <1>1, <1>2, BeforeIsOrder
<1> QED BY <1>1, <1>3

\* No name of a value is the name of an object in one of the others, and none is there
\* twice, if the names are clean.
\* (objmodel.go:210 "This step removes potential conflicts when dedotting and
\* serializing fields.")
THEOREM DedupRemovesConflicts ==
  ASSUME NEW V, Ignored \notin V, NEW fields \in FieldsOf(V), IsClean(fields)
  PROVE  Storable(Dedup(fields))
<1> DEFINE s == Sort(fields)
           r == Rename(s)
           t == Sort(r)
           d == Dedup(fields)
<1>1. s \in FieldsOf(V) /\ DOMAIN s = DOMAIN fields
  BY SortIsSorted
<1>2. \A m, n \in DOMAIN fields : m < n => Less(s[m].key, s[n].key) \/ s[m].key = s[n].key
  BY SortIsSorted
<1>3. PICK from \in [DOMAIN fields -> DOMAIN fields] :
        /\ \A m, n \in DOMAIN fields : m < n <=> Before(fields, from[m], from[n])
        /\ s = [n \in DOMAIN fields |-> fields[from[n]]]
  BY SortIsPermutation
<1>4. /\ Len(s) \in Nat /\ DOMAIN fields = 1 .. Len(s)
      /\ \A n \in DOMAIN fields : n \in Nat /\ s[n].key \in Keys /\ fields[n].key \in Keys
  BY <1>1, FieldsType
<1> HIDE DEF s
<1>5. \A m, n \in DOMAIN fields : s[m].key = s[n].key => m = n
  <2> SUFFICES ASSUME NEW m \in DOMAIN fields, NEW n \in DOMAIN fields, m < n, s[m].key = s[n].key PROVE FALSE
    BY <1>4
  <2>1. from[m] = from[n]
    BY <1>3 DEF IsClean
  <2>2. Before(fields, from[m], from[m])
    BY <1>3, <2>1
  <2> QED BY <2>2, BeforeIsOrder
<1>6. \A m \in DOMAIN fields : \A i \in DOMAIN s[m].key : s[m].key[i] # "value" /\ Rank[s[m].key[i]] >= Rank["."]
  <2>1. ASSUME NEW n \in DOMAIN fields, NEW i \in DOMAIN fields[n].key
        PROVE  fields[n].key[i] # "value" /\ Rank[fields[n].key[i]] >= Rank["."]
    <3>1. fields[n].key[i] \in Range(fields[n].key)
      BY DEF Range
    <3> QED BY <3>1 DEF IsClean
  <2> QED BY <1>3, <2>1
<1>7. /\ r \in FieldsOf(V) /\ DOMAIN r = DOMAIN fields
      /\ \A i \in DOMAIN fields : /\ IsRenamed(s, i) => r[i].key = ValueOf(s[i].key)
                                  /\ ~IsRenamed(s, i) => r[i].key = s[i].key
                                  /\ r[i].key \in Keys
  BY <1>1, RenameType, FieldsType
<1> HIDE DEF r
<1>8. ASSUME NEW m \in DOMAIN fields, NEW n \in DOMAIN fields, IsObjectOf(s[m].key, s[n].key)
      PROVE  IsRenamed(s, m)
  <2>1. Less(s[m].key, s[n].key)
    BY <1>4, <1>8, ObjectOfKey, LessAtDifference
  <2>2. m < n
    <3>1. ~(n < m) /\ n # m
      BY <1>2, <1>4, <2>1, LessIsTransitive, LessIsIrreflexive
    <3> QED BY <1>4, <3>1
  <2>3. m + 1 \in DOMAIN fields /\ m < m + 1 /\ (m + 1 < n \/ m + 1 = n) /\ m < Len(s)
    BY <1>4, <2>2
  <2>4. Less(s[m].key, s[m + 1].key)
    BY <1>2, <1>5, <2>3
  <2>5. Less(s[m + 1].key, s[n].key) \/ s[m + 1].key = s[n].key
    BY <1>2, <2>3
  <2>6. IsObjectOf(s[m].key, s[m + 1].key)
    BY <1>4, <1>6, <1>8, <2>3, <2>4, <2>5, BetweenNameAndMember
  <2> QED BY <2>3, <2>6 DEF IsRenamed
<1>9. ASSUME NEW m \in DOMAIN fields, NEW n \in DOMAIN fields, m # n
      PROVE  r[m].key # r[n].key /\ ~IsObjectOf(r[m].key, r[n].key)
  <2> DEFINE k == s[m].key
             l == s[n].key
  <2>1. k \in Keys /\ l \in Keys /\ k # l
    BY <1>4, <1>5, <1>9
  <2>2. /\ \A i \in 1 .. Len(k) : k[i] # "value"
        /\ \A i \in 1 .. Len(l) : l[i] # "value"
    <3>1. DOMAIN k = 1 .. Len(k) /\ DOMAIN l = 1 .. Len(l)
      BY <2>1 DEF Keys
    <3> QED BY <1>6, <3>1
  <2>3. /\ Len(k) \in Nat /\ Len(l) \in Nat
        /\ Len(ValueOf(k)) = Len(k) + 2 /\ ValueOf(k)[Len(k) + 2] = "value" /\ ValueOf(k) \in Keys
        /\ Len(ValueOf(l)) = Len(l) + 2 /\ ValueOf(l)[Len(l) + 1] = "." /\ ValueOf(l)[Len(l) + 2] = "value"
        /\ ValueOf(l) \in Keys
        /\ \A i \in 1 .. Len(l) : ValueOf(l)[i] = l[i]
    BY <2>1, ValueOfType
  <2>4. IsObjectOf(k, l) => IsRenamed(s, m)
    BY <1>8
  <2> HIDE DEF k, l
  <2>5. CASE ~IsRenamed(s, m) /\ ~IsRenamed(s, n)
    BY <1>7, <2>1, <2>4, <2>5 DEF k, l
  <2>6. CASE IsRenamed(s, m) /\ ~IsRenamed(s, n)
    <3>1. r[m].key = ValueOf(k) /\ r[n].key = l
      BY <1>7, <2>6 DEF k, l
    <3>2. ValueOf(k) # l
      BY <2>2, <2>3
    <3>3. ~IsObjectOf(ValueOf(k), l)
      <4> SUFFICES ASSUME Alike(ValueOf(k), l, Len(k) + 2) PROVE FALSE
        BY <2>1, <2>3, ObjectOfKey
      <4>1. l[Len(k) + 2] = "value" /\ Len(k) + 2 \in 1 .. Len(l)
        BY <2>3 DEF Alike
      <4> QED BY <2>2, <4>1
    <3> QED BY <3>1, <3>2, <3>3
  <2>7. CASE ~IsRenamed(s, m) /\ IsRenamed(s, n)
    <3>1. r[m].key = k /\ r[n].key = ValueOf(l)
      BY <1>7, <2>7 DEF k, l
    <3>2. k # ValueOf(l)
      BY <2>2, <2>3
    <3>3. ASSUME IsObjectOf(k, ValueOf(l)) PROVE FALSE
      <4>1. Alike(k, ValueOf(l), Len(k)) /\ Len(k) < Len(l) + 2 /\ ValueOf(l)[Len(k) + 1] = "."
        BY <2>1, <2>3, <3>3, ObjectOfKey
      <4>2. Len(k) + 1 # Len(l) + 2
        BY <2>3, <4>1
      <4>3. CASE Len(k) = Len(l)
        <5>1. \A i \in 1 .. Len(k) : k[i] = l[i]
          BY <2>3, <4>1, <4>3 DEF Alike
        <5> QED BY <2>1, <4>3, <5>1, SeqEqual DEF Keys
      <4>4. CASE Len(k) < Len(l)
        <5>1. Alike(k, l, Len(k)) /\ l[Len(k) + 1] = "."
          BY <2>3, <4>1, <4>4 DEF Alike
        <5> QED BY <2>1, <2>4, <2>7, <4>4, <5>1, ObjectOfKey
      <4> QED BY <2>3, <4>1, <4>2, <4>3, <4>4
    <3> QED BY <3>1, <3>2, <3>3
  <2>8. CASE IsRenamed(s, m) /\ IsRenamed(s, n)
    <3>1. r[m].key = ValueOf(k) /\ r[n].key = ValueOf(l)
      BY <1>7, <2>8 DEF k, l
    <3>2. ValueOf(k) # ValueOf(l)
      BY <2>1, ValueOfTellsApart
    <3>3. ASSUME IsObjectOf(ValueOf(k), ValueOf(l)) PROVE FALSE
      <4>1. /\ Alike(ValueOf(k), ValueOf(l), Len(k) + 2) /\ Len(k) + 2 < Len(l) + 2
            /\ ValueOf(l)[Len(k) + 3] = "."
        BY <2>3, <3>3, ObjectOfKey
      <4>2. ValueOf(l)[Len(k) + 2] = "value"
        BY <2>3, <4>1 DEF Alike
      <4>3. Len(k) + 2 \in 1 .. Len(l) \/ Len(k) + 2 = Len(l) + 1
        BY <2>3, <4>1
      <4> QED BY <2>2, <2>3, <4>2, <4>3
    <3> QED BY <3>1, <3>2, <3>3
  <2> QED BY <2>5, <2>6, <2>7, <2>8
<1>10. /\ DOMAIN d = DOMAIN fields /\ \A n \in DOMAIN fields : d[n].key = t[n].key
  <2>1. d = MarkDuplicates(t)
    BY DEF Dedup, s, r
  <2>2. t \in FieldsOf(V) /\ DOMAIN t = DOMAIN fields
    BY <1>7, SortIsSorted
  <2> HIDE DEF t, d
  <2>3. \A n \in DOMAIN fields : t[n] \in [key : Keys, value : V]
    BY <2>2, FieldsType
  <2> QED BY <2>1, <2>2, <2>3 DEF MarkDuplicates
<1>11. ASSUME NEW m \in DOMAIN fields, NEW n \in DOMAIN fields, m # n
       PROVE  \E i, j \in DOMAIN fields : i # j /\ t[m] = r[i] /\ t[n] = r[j]
  <2>1. r \in FieldsOf(V) /\ DOMAIN r = DOMAIN fields
    BY <1>7
  <2> HIDE DEF r, t, d
  <2>2. \A a, b \in DOMAIN r : a # b => \E i, j \in DOMAIN r : i # j /\ Sort(r)[a] = r[i] /\ Sort(r)[b] = r[j]
    BY ONLY <2>1, SortKeepsApart
  <2>3. t = Sort(r)
    BY DEF t
  <2> QED BY <1>11, <2>1, <2>2, <2>3
<1> HIDE DEF t, d
<1>12. ASSUME NEW m \in DOMAIN d, NEW n \in DOMAIN d, m # n PROVE ~Conflict(d[m].key, d[n].key)
  <2>1. PICK i \in DOMAIN fields, j \in DOMAIN fields : i # j /\ t[m] = r[i] /\ t[n] = r[j]
    BY <1>10, <1>11, <1>12
  <2>2. d[m].key = r[i].key /\ d[n].key = r[j].key
    BY <1>10, <1>12, <2>1
  <2> QED BY <1>9, <2>1, <2>2 DEF Conflict, IsObjectOf
<1> QED BY <1>12 DEF Storable, d

-----------------------------------------------------------------------------
(* Names: how keys are put together from them and taken apart.              *)

\* Where the elements of two sequences are in their concatenation.
LEMMA ConcatAt ==
  ASSUME NEW S, NEW a \in Seq(S), NEW b \in Seq(S)
  PROVE  /\ a \o b \in Seq(S) /\ Len(a \o b) = Len(a) + Len(b) /\ Len(a) \in Nat /\ Len(b) \in Nat
         /\ \A i \in 1 .. Len(a) : (a \o b)[i] = a[i]
         /\ \A i \in 1 .. Len(b) : (a \o b)[Len(a) + i] = b[i]
<1> DEFINE c == a \o b
           m == Len(a)
           n == Len(b)
<1>1. m \in Nat /\ n \in Nat
  OBVIOUS
<1>2. c \in Seq(S) /\ Len(c) = m + n /\ \A i \in 1 .. m + n : c[i] = IF i <= m THEN a[i] ELSE b[i - m]
  BY ConcatProperties
<1> HIDE DEF c, m, n
<1>3. \A i \in 1 .. m : i \in 1 .. m + n /\ i <= m
  BY <1>1
<1>4. \A i \in 1 .. n : m + i \in 1 .. m + n /\ ~(m + i <= m) /\ (m + i) - m = i
  BY <1>1
<1>5. \A i \in 1 .. m : c[i] = a[i]
  BY <1>2, <1>3
<1>6. \A i \in 1 .. n : c[m + i] = b[i]
  BY <1>2, <1>4
<1> QED BY <1>1, <1>2, <1>5, <1>6 DEF c, m, n

\* Of keys.
LEMMA KeysConcat ==
  ASSUME NEW a \in Keys, NEW b \in Keys
  PROVE  /\ a \o b \in Keys /\ Len(a \o b) = Len(a) + Len(b) /\ Len(a) \in Nat /\ Len(b) \in Nat
         /\ \A i \in 1 .. Len(a) : (a \o b)[i] = a[i]
         /\ \A i \in 1 .. Len(b) : (a \o b)[Len(a) + i] = b[i]
         /\ a # << >> => a \o b # << >>
<1> DEFINE S == DOMAIN Rank
<1>1. a \in Seq(S) /\ b \in Seq(S)
  BY DEF Keys
<1> HIDE DEF S
<1>2. a \o b \in Seq(S) /\ Len(a \o b) = Len(a) + Len(b) /\ Len(a) \in Nat /\ Len(b) \in Nat
  BY ONLY <1>1, ConcatAt
<1>3. \A i \in 1 .. Len(a) : (a \o b)[i] = a[i]
  BY ONLY <1>1, ConcatAt
<1>4. \A i \in 1 .. Len(b) : (a \o b)[Len(a) + i] = b[i]
  BY ONLY <1>1, ConcatAt
<1>5. a # << >> => a \o b # << >>
  BY ONLY <1>1, ConcatEqualIffEmpty
<1> QED BY <1>2, <1>3, <1>4, <1>5 DEF S, Keys

AreAssociative(a, b, c, d) == (a \o b) \o c \o d = a \o (b \o c \o d)

\* So four keys are put together in any order.
LEMMA KeysConcatFour ==
  ASSUME NEW a \in Keys, NEW b \in Keys, NEW c \in Keys, NEW d \in Keys
  PROVE  AreAssociative(a, b, c, d)
<1> DEFINE S == DOMAIN Rank
<1>1. a \in Seq(S) /\ b \in Seq(S) /\ c \in Seq(S) /\ d \in Seq(S)
  BY DEF Keys
<1> HIDE DEF S
<1>2. (a \o b) \o c = a \o (b \o c) /\ b \o c \in Seq(S)
  BY ONLY <1>1, ConcatAssociative, ConcatProperties
<1> DEFINE x == b \o c
<1>3. x \in Seq(S)
  BY <1>2
<1> HIDE DEF x
<1>4. (a \o x) \o d = a \o (x \o d)
  BY ONLY <1>1, <1>3, ConcatAssociative, SMTT(30)
<1> QED BY <1>2, <1>4 DEF x, AreAssociative

\* A path and a name give a key, which starts with the path.
LEMMA FlattenKeyType ==
  ASSUME NEW path \in Keys, NEW key \in Keys
  PROVE  /\ FlattenKey(path, key) \in Keys
         /\ path = << >> => FlattenKey(path, key) = key
         /\ path # << >> => /\ Len(FlattenKey(path, key)) = Len(path) + 1 + Len(key)
                            /\ \A i \in 1 .. Len(path) : FlattenKey(path, key)[i] = path[i]
                            /\ FlattenKey(path, key)[Len(path) + 1] = "."
                            /\ \A i \in 1 .. Len(key) : FlattenKey(path, key)[Len(path) + 1 + i] = key[i]
<1>1. <<".">> \in Keys /\ Len(<<".">>) = 1 /\ <<".">>[1] = "."
  <2>1. "." \in DOMAIN Rank
    BY RankAssumption DEF RankAssumption
  <2> QED BY <2>1 DEF Keys
<1> DEFINE a == path \o <<".">>
           b == a \o key
<1>2. /\ a \in Keys /\ Len(a) = Len(path) + 1 /\ a[Len(path) + 1] = "."
      /\ \A i \in 1 .. Len(path) : a[i] = path[i]
  BY <1>1 DEF Keys
<1>3. Len(path) \in Nat /\ Len(key) \in Nat
  BY DEF Keys
<1> HIDE DEF a
<1>4. /\ b \in Keys /\ Len(b) = Len(a) + Len(key)
      /\ \A i \in 1 .. Len(a) : b[i] = a[i]
      /\ \A i \in 1 .. Len(key) : b[Len(a) + i] = key[i]
  BY ONLY <1>2, KeysConcat, key \in Keys
<1> HIDE DEF b
<1>5. FlattenKey(path, key) = IF path = << >> THEN key ELSE b
  BY DEF FlattenKey, Dot, a, b
<1> QED BY <1>2, <1>3, <1>4, <1>5, SMTT(30)

\* FullKey adds one name after the other.
LEMMA FullKeySteps ==
  ASSUME NEW path \in Keys, NEW names \in Seq(Keys)
  PROVE  \E h \in [0 .. Len(names) -> Keys] :
           /\ h[0] = path /\ h[Len(names)] = FullKey(path, names)
           /\ \A n \in 1 .. Len(names) : h[n] = FlattenKey(h[n - 1], names[n])
<1> DEFINE N == Len(names)
           g == [x \in (1 .. N) \X Keys |-> FlattenKey(x[2], names[x[1]])]
           E(k) == k = [S \in SUBSET (1 .. N) |->
                          IF S = {} THEN path ELSE FlattenKey(k[S \ {Max(S)}], names[Max(S)])]
           it == CHOOSE k : E(k)
<1>1. N \in Nat /\ DOMAIN names = 1 .. N /\ \A n \in 1 .. N : names[n] \in Keys
  OBVIOUS
<1> HIDE DEF N
<1>2. FullKey(path, names) = it[1 .. N]
  BY <1>1, Zenon DEF FullKey, FoldLeft, MapThenFoldSet
<1>3. g \in [(1 .. N) \X Keys -> Keys]
  BY <1>1, FlattenKeyType
<1>4. PICK k : IsFold(k, N, Keys, path, g)
  <2> HIDE DEF g
  <2> QED BY <1>1, <1>3, FoldExists
<1>5. E(k)
  <2> USE <1>4 DEF IsFold
  <2> SUFFICES ASSUME NEW S \in SUBSET (1 .. N)
               PROVE  k[S] = IF S = {} THEN path ELSE FlattenKey(k[S \ {Max(S)}], names[Max(S)])
    OBVIOUS
  <2>1. CASE S # {}
    <3>1. Max(S) \in 1 .. N
      BY <1>1, <2>1, GreatestOf
    <3> QED BY <1>4, <2>1, <3>1
  <2> QED BY <1>4, <2>1
<1>6. E(it)
  <2> HIDE DEF E
  <2> QED BY <1>5
<1> HIDE DEF it
<1>7. it[{}] = path
  BY <1>6
<1>8. \A n \in 1 .. N : it[1 .. n] = FlattenKey(it[1 .. n - 1], names[n])
  <2> SUFFICES ASSUME NEW n \in 1 .. N PROVE it[1 .. n] = FlattenKey(it[1 .. n - 1], names[n])
    OBVIOUS
  <2>1. 1 .. n # {} /\ Max(1 .. n) = n /\ (1 .. n) \ {Max(1 .. n)} = 1 .. n - 1
    <3>1. n \in Nat \ {0}
      BY <1>1
    <3> QED BY ONLY <3>1, FirstPositions
  <2>2. 1 .. n \in SUBSET (1 .. N)
    BY <1>1
  <2> QED BY <1>6, <2>1, <2>2
<1>9. /\ \A n \in 1 .. N : \A v \in Keys : g[<<n, v>>] = FlattenKey(v, names[n])
      /\ \A n \in 1 .. N : it[1 .. n] = g[<<n, it[1 .. n - 1]>>] \/ it[1 .. n - 1] \notin Keys
  BY <1>8
<1> HIDE DEF g
<1>10. PICK h : IsHistory(h, N, Keys, path, it[1 .. N], g)
  BY <1>1, <1>3, <1>7, <1>9, FoldSteps
<1>11. /\ h \in [0 .. N -> Keys] /\ h[0] = path /\ h[N] = it[1 .. N]
       /\ \A n \in 1 .. N : h[n] = FlattenKey(h[n - 1], names[n])
  <2>1. /\ h \in [0 .. N -> Keys] /\ h[0] = path /\ h[N] = it[1 .. N]
        /\ \A n \in 1 .. N : h[n] = g[<<n, h[n - 1]>>]
    BY <1>10 DEF IsHistory
  <2>2. \A n \in 1 .. N : h[n - 1] \in Keys
    BY <1>1, <2>1
  <2> QED BY <1>9, <2>1, <2>2
<1> QED BY <1>2, <1>11 DEF N

\* A full name starts with its path, and goes on with the separator if there are names.
LEMMA FullKeyStarts ==
  ASSUME NEW path \in Keys, path # << >>, NEW names \in Seq(Keys)
  PROVE  /\ FullKey(path, names) \in Keys /\ Len(path) <= Len(FullKey(path, names))
         /\ \A i \in 1 .. Len(path) : FullKey(path, names)[i] = path[i]
         /\ names = << >> => FullKey(path, names) = path
         /\ names # << >> => Len(path) < Len(FullKey(path, names)) /\ FullKey(path, names)[Len(path) + 1] = "."
<1> DEFINE N == Len(names)
           p == Len(path)
<1>1. PICK h \in [0 .. N -> Keys] :
        /\ h[0] = path /\ h[N] = FullKey(path, names)
        /\ \A n \in 1 .. N : h[n] = FlattenKey(h[n - 1], names[n])
  BY FullKeySteps
<1>2. N \in Nat /\ p \in Nat \ {0} /\ \A n \in 1 .. N : names[n] \in Keys
  BY DEF Keys
<1> HIDE DEF N, p
<1> DEFINE Good == {n \in 0 .. N : /\ p <= Len(h[n]) /\ \A i \in 1 .. p : h[n][i] = path[i]
                                   /\ n # 0 => p < Len(h[n]) /\ h[n][p + 1] = "."}
<1>3. 0 \in Good
  BY <1>1, <1>2 DEF p
<1>4. ASSUME NEW n \in 1 .. N, n - 1 \in Good PROVE n \in Good
  <2> DEFINE k == h[n - 1]
             l == names[n]
  <2>1. /\ n - 1 \in 0 .. N /\ n \in 0 .. N /\ k \in Keys /\ l \in Keys /\ h[n] = FlattenKey(k, l)
        /\ n - 1 = 0 => k = path
    <3>1. n - 1 \in 0 .. N /\ n \in 0 .. N
      BY <1>2
    <3> QED BY <1>1, <1>2, <3>1
  <2>2. /\ p <= Len(k) /\ \A i \in 1 .. p : k[i] = path[i]
        /\ n - 1 # 0 => p < Len(k) /\ k[p + 1] = "."
    BY <1>4
  <2> HIDE DEF k, l
  <2>3. Len(k) \in Nat /\ Len(l) \in Nat /\ k # << >>
    BY <1>2, <2>1, <2>2 DEF Keys
  <2>4. /\ Len(h[n]) = Len(k) + 1 + Len(l) /\ \A i \in 1 .. Len(k) : h[n][i] = k[i]
        /\ h[n][Len(k) + 1] = "."
    BY <2>1, <2>3, FlattenKeyType
  <2>5. p < Len(h[n]) /\ \A i \in 1 .. p : h[n][i] = path[i]
    BY <1>2, <2>2, <2>3, <2>4
  <2>6. h[n][p + 1] = "."
    <3>1. CASE n - 1 = 0
      BY <2>1, <2>4, <3>1 DEF p
    <3>2. CASE n - 1 # 0
      <4>1. p + 1 \in 1 .. Len(k)
        BY <1>2, <2>2, <2>3, <3>2
      <4> QED BY <2>2, <2>4, <3>2, <4>1
    <3> QED BY <3>1, <3>2
  <2>7. p <= Len(h[n])
    BY <1>2, <2>3, <2>4, <2>5
  <2> QED BY <2>1, <2>5, <2>6, <2>7
<1>5. N \in Good
  <2> HIDE DEF Good
  <2>1. \A n \in 0 .. N : n \in Good
    BY <1>2, <1>3, <1>4, UpTo
  <2> QED BY <1>2, <2>1
<1>6. names = << >> <=> N = 0
  BY DEF N
<1>7. h[N] \in Keys
  BY <1>1, <1>2
<1> QED BY <1>1, <1>5, <1>6, <1>7 DEF p

\* Below a path the full name is the one without it, unless the first name is empty.
LEMMA FullKeyBelow ==
  ASSUME NEW path \in Keys, path # << >>, NEW names \in Seq(Keys), names # << >>, names[1] # << >>
  PROVE  /\ FullKey(<< >>, names) \in Keys
         /\ FullKey(path, names) = path \o Dot \o FullKey(<< >>, names)
<1> DEFINE N == Len(names)
           P == path \o Dot
<1>1. PICK h \in [0 .. N -> Keys] :
        /\ h[0] = path /\ h[N] = FullKey(path, names)
        /\ \A n \in 1 .. N : h[n] = FlattenKey(h[n - 1], names[n])
  BY FullKeySteps
<1>2. << >> \in Keys
  BY DEF Keys
<1>3. PICK g \in [0 .. N -> Keys] :
        /\ g[0] = << >> /\ g[N] = FullKey(<< >>, names)
        /\ \A n \in 1 .. N : g[n] = FlattenKey(g[n - 1], names[n])
  BY <1>2, FullKeySteps
<1>4. N \in Nat \ {0} /\ \A n \in 1 .. N : names[n] \in Keys
  OBVIOUS
<1>5. P \in Keys /\ <<".">> \in Keys
  <2>1. "." \in DOMAIN Rank
    BY RankAssumption DEF RankAssumption
  <2> QED BY <2>1 DEF Keys, Dot
<1> HIDE DEF N
<1> DEFINE Good == {n \in 0 .. N : n # 0 => g[n] # << >> /\ h[n] = P \o g[n]}
<1>6. 0 \in Good
  BY <1>4
<1>7. ASSUME NEW n \in 1 .. N, n - 1 \in Good PROVE n \in Good
  <2>1. n - 1 \in 0 .. N /\ n \in 0 .. N
    BY <1>4
  <2>2. /\ h[n] = FlattenKey(h[n - 1], names[n]) /\ g[n] = FlattenKey(g[n - 1], names[n])
        /\ names[n] \in Keys /\ g[n - 1] \in Keys /\ h[n - 1] \in Keys
    BY <1>1, <1>3, <1>4, <2>1
  <2>3. CASE n - 1 = 0
    <3>1. n = 1 /\ g[n] = names[1] /\ h[n] = P \o names[1]
      <4>1. n = 1
        BY <1>4, <2>3
      <4> QED BY <1>1, <1>3, <2>2, <2>3, <4>1 DEF FlattenKey
    <3> QED BY <2>1, <3>1
  <2>4. CASE n - 1 # 0
    <3> DEFINE k == g[n - 1]
               l == names[n]
    <3>1. k # << >> /\ h[n - 1] = P \o k
      BY <1>7, <2>4
    <3> HIDE DEF P, k, l
    <3>2. k \in Keys /\ l \in Keys
      BY <2>2 DEF k, l
    <3>3. P \o k # << >>
      BY <1>5, <3>1, <3>2 DEF Keys
    <3>4. h[n] = (P \o k) \o Dot \o l /\ g[n] = k \o Dot \o l
      BY <2>2, <3>1, <3>3 DEF FlattenKey, k, l
    <3>5. (P \o k) \o Dot \o l = P \o (k \o Dot \o l) /\ k \o Dot \o l # << >>
      <4>1. P \in Keys /\ Dot \in Keys
        BY <1>5 DEF Dot
      <4>2. (P \o k) \o Dot \o l = P \o (k \o Dot \o l)
        <5>1. \A a, b, c, d \in Keys : AreAssociative(a, b, c, d)
          BY ONLY KeysConcatFour
        <5>2. AreAssociative(P, k, Dot, l)
          BY ONLY <3>2, <4>1, <5>1
        <5> QED BY <5>2 DEF AreAssociative
      <4>3. k \o Dot # << >> /\ k \o Dot \in Keys
        BY ONLY <3>1, <3>2, <4>1, KeysConcat
      <4>4. k \o Dot \o l # << >>
        BY ONLY <3>2, <4>3, KeysConcat
      <4> QED BY <4>2, <4>4
    <3> QED BY <2>1, <3>4, <3>5
  <2> QED BY <2>3, <2>4
<1>8. N \in Good
  <2> HIDE DEF Good
  <2>1. \A n \in 0 .. N : n \in Good
    BY <1>4, <1>6, <1>7, UpTo
  <2> QED BY <1>4, <2>1
<1>9. g[N] \in Keys
  BY <1>3, <1>4
<1> QED BY <1>1, <1>3, <1>4, <1>8, <1>9

\* Where the names of a key end, and how many objects it is in.
Cuts(key)  == InOrder({0, Len(key) + 1} \cup ObjectEnds(key))
Depth(key) == Cardinality(ObjectEnds(key))

\* The objects of a key, from the outermost.
Objs(key) == SubSeq(Names(key), 1, Depth(key))

\* The names of a key are what is between its cuts.
LEMMA CutsType ==
  ASSUME NEW key \in Keys
  PROVE  /\ Len(key) \in Nat /\ Depth(key) \in Nat /\ IsFiniteSet(ObjectEnds(key))
         /\ Cuts(key) \in [1 .. Depth(key) + 2 -> 0 .. Len(key) + 1]
         /\ Cuts(key)[1] = 0 /\ Cuts(key)[Depth(key) + 2] = Len(key) + 1
         /\ \A i \in 2 .. Depth(key) + 1 : Cuts(key)[i] \in 1 .. Len(key) /\ key[Cuts(key)[i]] = "."
         /\ \A m, n \in 1 .. Depth(key) + 2 : m < n <=> Cuts(key)[m] < Cuts(key)[n]
         /\ \A e \in ObjectEnds(key) : \E i \in 2 .. Depth(key) + 1 : Cuts(key)[i] = e
         /\ \A i \in 1 .. Depth(key) + 1 : Level(key, Cuts(key)[i]) = i - 1
<1> DEFINE N == Len(key)
           E == ObjectEnds(key)
           D == Cardinality(E)
           S == {0, N + 1} \cup E
           order == InOrder(S)
<1>1. N \in Nat /\ DOMAIN key = 1 .. N
  BY DEF Keys
<1>2. E \in SUBSET (1 .. N) /\ \A e \in E : key[e] = "."
  BY <1>1 DEF ObjectEnds
<1> HIDE DEF N, E
<1>3. IsFiniteSet(E) /\ D \in Nat
  <2>1. IsFiniteSet(1 .. N)
    BY <1>1, FS_Interval
  <2> QED BY <1>2, <2>1, FS_Subset, FS_CardinalityType
<1>4. /\ 0 \notin E /\ IsFiniteSet({0} \cup E) /\ Cardinality({0} \cup E) = D + 1
      /\ N + 1 \notin {0} \cup E /\ IsFiniteSet(S) /\ Cardinality(S) = D + 2 /\ S \in SUBSET (0 .. N + 1)
  <2>1. 0 \notin E /\ N + 1 \notin {0} \cup E /\ S \in SUBSET (0 .. N + 1)
    BY <1>1, <1>2
  <2> DEFINE S0 == E \cup {0}
             S1 == S0 \cup {N + 1}
  <2>2. IsFiniteSet(S0) /\ Cardinality(S0) = D + 1
    BY ONLY <1>3, <2>1, FS_AddElement
  <2>3. N + 1 \notin S0
    BY <2>1
  <2> HIDE DEF S0
  <2>4. IsFiniteSet(S1) /\ Cardinality(S1) = D + 1 + 1
    BY ONLY <2>2, <2>3, FS_AddElement
  <2>5. S0 = {0} \cup E /\ S1 = S
    BY DEF S0
  <2>6. D + 1 + 1 = D + 2
    BY <1>3
  <2> QED BY <2>1, <2>2, <2>4, <2>5, <2>6
<1>5. S \in SUBSET Nat
  BY <1>1, <1>4
<1>6. /\ order \in [1 .. D + 2 -> S]
      /\ \A n \in 1 .. D + 2 : Cardinality({j \in S : j < order[n]}) = n - 1
      /\ \A m, n \in 1 .. D + 2 : m < n <=> order[m] < order[n]
      /\ \A m, n \in 1 .. D + 2 : order[m] = order[n] => m = n
      /\ \A i \in S : \E n \in 1 .. D + 2 : order[n] = i
  <2> HIDE DEF S
  <2> QED BY ONLY <1>4, <1>5, InOrderType
<1>7. 0 \in S /\ N + 1 \in S /\ E \subseteq S
  OBVIOUS
<1> HIDE DEF order, D
<1>8. order[1] = 0
  <2>1. PICK n \in 1 .. D + 2 : order[n] = 0
    BY <1>6, <1>7
  <2>2. {j \in S : j < 0} = {}
    BY <1>5
  <2>3. Cardinality({j \in S : j < 0}) = 0
    BY <2>2, FS_EmptySet
  <2>4. n - 1 = 0
    BY <1>6, <2>1, <2>3
  <2>5. n = 1
    BY <1>3, <2>4
  <2> QED BY <2>1, <2>5
<1>9. order[D + 2] = N + 1
  <2>1. PICK n \in 1 .. D + 2 : order[n] = N + 1
    BY <1>6, <1>7
  <2>2. {j \in S : j < N + 1} = {0} \cup E
    <3>1. 0 < N + 1 /\ ~(N + 1 < N + 1) /\ \A e \in 1 .. N : e < N + 1
      BY <1>1
    <3>2. \A e \in E : e < N + 1
      BY <1>2, <3>1
    <3> QED BY <3>1, <3>2, Zenon
  <2> HIDE DEF S
  <2>3. n - 1 = D + 1
    BY <1>4, <1>6, <2>1, <2>2
  <2>4. n = D + 2
    BY <1>3, <2>3
  <2> QED BY <2>1, <2>4
<1>10. \A i \in 2 .. D + 1 : order[i] \in E
  <2> SUFFICES ASSUME NEW i \in 2 .. D + 1 PROVE order[i] \in E
    OBVIOUS
  <2>1. i \in 1 .. D + 2 /\ i # 1 /\ i # D + 2 /\ 1 \in 1 .. D + 2 /\ D + 2 \in 1 .. D + 2
    BY <1>3
  <2>2. order[i] \in S /\ order[i] # 0 /\ order[i] # N + 1
    BY <1>6, <1>8, <1>9, <2>1
  <2> QED BY <2>2
<1>11. \A e \in E : \E i \in 2 .. D + 1 : order[i] = e
  <2> SUFFICES ASSUME NEW e \in E PROVE \E i \in 2 .. D + 1 : order[i] = e
    OBVIOUS
  <2>1. PICK i \in 1 .. D + 2 : order[i] = e
    BY <1>6, <1>7
  <2>2. i # 1 /\ i # D + 2
    BY <1>4, <1>8, <1>9, <2>1
  <2>3. i \in 2 .. D + 1
    BY <1>3, <2>2
  <2> QED BY <2>1, <2>3
<1>12. ASSUME NEW i \in 1 .. D + 1 PROVE Level(key, order[i]) = i - 1
  <2> DEFINE c == order[i]
  <2>1. Level(key, c) = Cardinality({m \in E : m <= c})
    BY DEF Level, E
  <2>2. CASE i = 1
    <3>1. {m \in E : m <= c} = {}
      <4>1. \A m \in 1 .. N : ~(m <= 0)
        BY <1>1
      <4> QED BY <1>2, <1>8, <2>2, <4>1
    <3>2. Cardinality({m \in E : m <= c}) = 0
      BY <3>1, FS_EmptySet
    <3> QED BY <2>1, <2>2, <3>2
  <2>3. CASE i # 1
    <3>1. i \in 2 .. D + 1 /\ i \in 1 .. D + 2
      BY <1>3, <2>3
    <3>2. c \in E /\ Cardinality({j \in S : j < c}) = i - 1
      BY <1>6, <1>10, <3>1
    <3> HIDE DEF c
    <3> DEFINE B == {m \in E : m < c}
    <3>3. {j \in S : j < c} = B \cup {0} /\ {m \in E : m <= c} = B \cup {c} /\ 0 \notin B /\ c \notin B
      <4>1. c \in 1 .. N /\ 0 < c /\ ~(N + 1 < c) /\ c <= c /\ ~(c < c)
        BY <1>1, <1>2, <3>2
      <4>2. \A m \in 1 .. N : m <= c <=> m < c \/ m = c
        BY <1>1, <4>1
      <4>3. \A m \in E : m <= c <=> m < c \/ m = c
        BY <1>2, <4>2
      <4>4. {j \in S : j < c} = B \cup {0}
        BY <4>1, Zenon
      <4>5. {m \in E : m <= c} = B \cup {c}
        BY <3>2, <4>1, <4>3, Zenon
      <4>6. 0 \notin B /\ c \notin B
        BY <1>4, <4>1
      <4> QED BY <4>4, <4>5, <4>6
    <3>4. B \in SUBSET E
      OBVIOUS
    <3> HIDE DEF B, S
    <3>5. IsFiniteSet(B)
      BY <1>3, <3>4, FS_Subset
    <3>6. Cardinality(B \cup {0}) = Cardinality(B) + 1 /\ Cardinality(B \cup {c}) = Cardinality(B) + 1
      BY ONLY <3>3, <3>5, FS_AddElement
    <3> QED BY <2>1, <3>2, <3>3, <3>6 DEF c
  <2> QED BY <2>2, <2>3
<1>13. order \in [1 .. D + 2 -> 0 .. N + 1]
  BY <1>4, <1>6
<1>14. \A i \in 2 .. D + 1 : order[i] \in 1 .. N /\ key[order[i]] = "."
  BY <1>2, <1>10
<1> QED BY <1>1, <1>3, <1>6, <1>8, <1>9, <1>11, <1>12, <1>13, <1>14 DEF D, N, E, order, Cuts, Depth

\* So there is one name more than objects.
LEMMA NamesType ==
  ASSUME NEW key \in Keys
  PROVE  /\ Names(key) \in Seq(Keys) /\ Len(Names(key)) = Depth(key) + 1 /\ DOMAIN Names(key) = 1 .. Depth(key) + 1
         /\ \A i \in 1 .. Depth(key) + 1 :
              /\ Names(key)[i] = SubSeq(key, Cuts(key)[i] + 1, Cuts(key)[i + 1] - 1)
              /\ Names(key)[i] \in Keys /\ Len(Names(key)[i]) = Cuts(key)[i + 1] - Cuts(key)[i] - 1
              /\ \A j \in 1 .. Len(Names(key)[i]) : Names(key)[i][j] = key[Cuts(key)[i] + j]
<1> DEFINE D == Depth(key)
           c == Cuts(key)
           name == [i \in 1 .. D + 1 |-> SubSeq(key, c[i] + 1, c[i + 1] - 1)]
           N == Len(key)
<1>1. D \in Nat /\ N \in Nat /\ c \in [1 .. D + 2 -> 0 .. N + 1] /\ \A m, n \in 1 .. D + 2 : m < n <=> c[m] < c[n]
  BY CutsType
<1>2. \A i \in 1 .. N : key[i] \in DOMAIN Rank
  BY DEF Keys
<1>3. Len(c) = D + 2
  <2>1. c \in Seq(0 .. N + 1)
    <3> HIDE DEF c
    <3> QED BY <1>1
  <2> HIDE DEF c, D
  <2> QED BY <1>1, <2>1
<1>4. Names(key) = name
  <2>1. Len(c) - 1 = D + 1
    <3> HIDE DEF c, D
    <3> QED BY <1>1, <1>3
  <2>2. Names(key) = [i \in 1 .. Len(c) - 1 |-> SubSeq(key, c[i] + 1, c[i + 1] - 1)]
    BY DEF Names, Cuts
  <2> HIDE DEF c, D
  <2> QED BY <2>1, <2>2
<1> HIDE DEF c, D, N
<1>5. ASSUME NEW i \in 1 .. D + 1
      PROVE  /\ name[i] \in Keys /\ Len(name[i]) = c[i + 1] - c[i] - 1
             /\ \A j \in 1 .. Len(name[i]) : name[i][j] = key[c[i] + j]
  <2> DEFINE a == c[i] + 1
             b == c[i + 1] - 1
  <2>1. i \in 1 .. D + 2 /\ i + 1 \in 1 .. D + 2 /\ i < i + 1
    BY <1>1
  <2>2. a \in Int /\ b \in Int /\ 1 <= a /\ b <= N /\ a <= b + 1 /\ b - a + 1 = c[i + 1] - c[i] - 1
    <3>1. c[i] \in 0 .. N + 1 /\ c[i + 1] \in 0 .. N + 1 /\ c[i] < c[i + 1] /\ N \in Nat
      BY <1>1, <2>1
    <3>2. \A x, y \in 0 .. N + 1 : x < y => /\ x + 1 \in Int /\ y - 1 \in Int /\ 1 <= x + 1 /\ y - 1 <= N
                                           /\ x + 1 <= (y - 1) + 1 /\ (y - 1) - (x + 1) + 1 = y - x - 1
      BY ONLY <3>1
    <3> QED BY ONLY <3>1, <3>2 DEF a, b
  <2>3. \A j \in a .. b : key[j] \in DOMAIN Rank
    BY <1>1, <1>2, <2>2, SMTT(30)
  <2>4. name[i] = SubSeq(key, a, b)
    OBVIOUS
  <2>5. \A j \in Int : a + j - 1 = c[i] + j
    BY <1>1, <2>1
  <2> HIDE DEF a, b, name
  <2>6. /\ SubSeq(key, a, b) \in Seq(DOMAIN Rank)
        /\ Len(SubSeq(key, a, b)) = IF a <= b THEN b - a + 1 ELSE 0
        /\ \A j \in 1 .. b - a + 1 : SubSeq(key, a, b)[j] = key[a + j - 1]
    BY ONLY <2>2, <2>3, SubSeqProperties
  <2>7. Len(name[i]) = b - a + 1
    BY <2>2, <2>4, <2>6
  <2>8. \A j \in 1 .. b - a + 1 : j \in Int
    BY <2>2
  <2>9. \A j \in 1 .. Len(name[i]) : name[i][j] = key[c[i] + j]
    BY ONLY <2>4, <2>5, <2>6, <2>7, <2>8
  <2> QED BY <2>2, <2>4, <2>6, <2>7, <2>9 DEF Keys
<1>6. name \in [1 .. D + 1 -> Keys]
  BY <1>5
<1>7. name \in Seq(Keys) /\ Len(name) = D + 1 /\ DOMAIN name = 1 .. D + 1
  <2>1. DOMAIN name = 1 .. D + 1
    OBVIOUS
  <2> HIDE DEF name
  <2>2. name \in Seq(Keys)
    BY <1>1, <1>6
  <2> QED BY <1>1, <2>1, <2>2
<1>8. \A i \in 1 .. D + 1 : name[i] = SubSeq(key, c[i] + 1, c[i + 1] - 1)
  OBVIOUS
<1> HIDE DEF name
<1> QED BY <1>4, <1>5, <1>7, <1>8 DEF c, D

\* Put together again, the names are the key, unless it starts with the separator.
LEMMA NamesMakeKey ==
  ASSUME NEW key \in Keys, key # << >> => key[1] # "."
  PROVE  FullName(Names(key)) = key
<1> DEFINE D == Depth(key)
           c == Cuts(key)
           names == Names(key)
           N == Len(key)
<1>1. /\ D \in Nat /\ N \in Nat /\ c \in [1 .. D + 2 -> 0 .. N + 1] /\ c[1] = 0 /\ c[D + 2] = N + 1
      /\ \A m, n \in 1 .. D + 2 : m < n <=> c[m] < c[n]
      /\ \A i \in 2 .. D + 1 : c[i] \in 1 .. N /\ key[c[i]] = "."
  BY CutsType
<1>2. /\ names \in Seq(Keys) /\ Len(names) = D + 1
      /\ \A i \in 1 .. D + 1 : /\ names[i] \in Keys /\ Len(names[i]) = c[i + 1] - c[i] - 1
                               /\ \A j \in 1 .. Len(names[i]) : names[i][j] = key[c[i] + j]
  BY NamesType
<1>3. << >> \in Keys
  BY DEF Keys
<1> HIDE DEF names, c, D, N
<1>4. PICK h \in [0 .. D + 1 -> Keys] :
        /\ h[0] = << >> /\ h[D + 1] = FullKey(<< >>, names)
        /\ \A n \in 1 .. D + 1 : h[n] = FlattenKey(h[n - 1], names[n])
  <2>1. \E h \in [0 .. Len(names) -> Keys] :
           /\ h[0] = << >> /\ h[Len(names)] = FullKey(<< >>, names)
           /\ \A n \in 1 .. Len(names) : h[n] = FlattenKey(h[n - 1], names[n])
    BY ONLY <1>2, <1>3, FullKeySteps
  <2> QED BY <1>2, <2>1
<1>5. ASSUME NEW n \in 2 .. D + 2, key # << >> PROVE c[n] > 1
  <2>1. 1 \in 1 .. D + 2 /\ n \in 1 .. D + 2 /\ 1 < n
    BY <1>1
  <2>2. c[n] \in 0 .. N + 1 /\ c[n] > 0
    BY <1>1, <2>1
  <2>3. c[n] # 1
    <3>1. CASE n = D + 2
      <4>1. N # 0
        BY <1>1, <1>5 DEF N, Keys
      <4> QED BY <1>1, <3>1, <4>1
    <3>2. CASE n # D + 2
      <4>1. n \in 2 .. D + 1
        BY <1>1, <3>2
      <4> QED BY <1>1, <1>5, <4>1
    <3> QED BY <3>1, <3>2
  <2> QED BY <1>1, <2>2, <2>3
<1> DEFINE Good == {n \in 0 .. D + 1 : n # 0 => Len(h[n]) = c[n + 1] - 1 /\ \A i \in 1 .. c[n + 1] - 1 : h[n][i] = key[i]}
<1>6. 0 \in Good
  BY <1>1
<1>7. ASSUME NEW n \in 1 .. D + 1, n - 1 \in Good PROVE n \in Good
  <2> DEFINE k == h[n - 1]
             l == names[n]
             x == c[n]
             y == c[n + 1]
  <2>1. /\ n - 1 \in 0 .. D + 1 /\ n \in 0 .. D + 1 /\ n \in 1 .. D + 2 /\ n + 1 \in 1 .. D + 2 /\ n < n + 1
        /\ (n - 1) + 1 = n
    BY <1>1
  <2>2. /\ k \in Keys /\ l \in Keys /\ h[n] = FlattenKey(k, l)
        /\ x \in Nat /\ y \in Nat /\ x < y /\ Len(l) = y - x - 1 /\ \A j \in 1 .. Len(l) : l[j] = key[x + j]
    <3>1. k \in Keys /\ l \in Keys /\ h[n] = FlattenKey(k, l)
      BY <1>2, <1>4, <2>1
    <3>2. x \in Nat /\ y \in Nat /\ x < y
      BY <1>1, <2>1
    <3> QED BY <1>2, <3>1, <3>2
  <2>3. CASE n = 1
    <3>1. x = 0 /\ h[n] = l
      BY <1>1, <1>4, <2>2, <2>3 DEF FlattenKey
    <3>2. Len(l) = y - 1 /\ \A j \in 1 .. y - 1 : l[j] = key[j]
      BY <2>2, <3>1
    <3> QED BY <2>1, <3>1, <3>2
  <2>4. CASE n # 1
    <3>1. Len(k) = x - 1 /\ \A i \in 1 .. x - 1 : k[i] = key[i]
      BY <1>7, <2>1, <2>4
    <3>2. n \in 2 .. D + 1 /\ n \in 2 .. D + 2
      BY <1>1, <2>4
    <3>3. key[x] = "." /\ x \in 1 .. N /\ key # << >>
      <4>1. key[x] = "." /\ x \in 1 .. N
        BY <1>1, <3>2
      <4>2. key # << >>
        BY <4>1 DEF N
      <4> QED BY <4>1, <4>2
    <3>4. x > 1
      BY <1>5, <3>2, <3>3
    <3> HIDE DEF k, l, x, y
    <3>5. k # << >>
      BY <2>2, <3>1, <3>4
    <3>6. /\ Len(h[n]) = Len(k) + 1 + Len(l) /\ \A i \in 1 .. Len(k) : h[n][i] = k[i]
          /\ h[n][Len(k) + 1] = "." /\ \A i \in 1 .. Len(l) : h[n][Len(k) + 1 + i] = l[i]
      <4> DEFINE j == FlattenKey(k, l)
      <4>1. k \in Keys /\ l \in Keys /\ h[n] = j
        BY <2>2
      <4>2. /\ Len(j) = Len(k) + 1 + Len(l) /\ \A i \in 1 .. Len(k) : j[i] = k[i]
            /\ j[Len(k) + 1] = "." /\ \A i \in 1 .. Len(l) : j[Len(k) + 1 + i] = l[i]
        BY <3>5, <4>1, FlattenKeyType, ZenonT(40)
      <4> HIDE DEF j
      <4> QED BY <4>1, <4>2
    <3>7. Len(h[n]) = y - 1 /\ Len(k) + 1 = x
      BY <2>2, <3>1, <3>6
    <3>8. ASSUME NEW i \in 1 .. y - 1 PROVE h[n][i] = key[i]
      <4>1. CASE i < x
        BY <2>2, <3>1, <3>6, <4>1
      <4>2. CASE i = x
        BY <3>3, <3>6, <3>7, <4>2
      <4>3. CASE i > x
        <5>1. i - x \in 1 .. Len(l) /\ x + (i - x) = i /\ Len(k) + 1 + (i - x) = i
          BY <2>2, <3>7, <4>3
        <5>2. h[n][Len(k) + 1 + (i - x)] = l[i - x] /\ l[i - x] = key[x + (i - x)]
          BY <2>2, <3>6, <5>1
        <5> QED BY <5>1, <5>2
      <4> QED BY <2>2, <4>1, <4>2, <4>3
    <3> QED BY <2>1, <3>7, <3>8 DEF y
  <2> QED BY <2>3, <2>4
<1>8. D + 1 \in Good
  <2> HIDE DEF Good
  <2>1. D + 1 \in Nat /\ D + 1 \in 0 .. D + 1
    BY <1>1
  <2>2. \A n \in 0 .. D + 1 : n \in Good
    BY <1>6, <1>7, <2>1, UpTo
  <2> QED BY <2>1, <2>2
<1>9. h[D + 1] \in Keys /\ Len(h[D + 1]) = N /\ \A i \in 1 .. N : h[D + 1][i] = key[i]
  <2>1. D + 1 \in 0 .. D + 1 /\ (D + 1) + 1 = D + 2 /\ (N + 1) - 1 = N /\ D + 1 # 0
    BY <1>1
  <2> QED BY <1>1, <1>4, <1>8, <2>1
<1>10. h[D + 1] = key
  BY <1>9, SeqEqual DEF Keys, N
<1> QED BY <1>4, <1>10 DEF FullName, names

\* Two keys that are alike up to a separator are in the same objects up to there.
LEMMA NamesAlike ==
  ASSUME NEW k \in Keys, NEW l \in Keys, NEW p \in Nat, Alike(k, l, p), p = 0 \/ k[p] = "."
  PROVE  /\ Level(k, p) \in Nat /\ Level(l, p) = Level(k, p) /\ Level(k, p) <= Depth(k) /\ Level(k, p) <= Depth(l)
         /\ Cuts(k)[Level(k, p) + 1] = p
         /\ \A i \in 1 .. Level(k, p) : Names(k)[i] = Names(l)[i]
<1> DEFINE q == Level(k, p)
           c == Cuts(k)
           d == Cuts(l)
           S == {0, Len(k) + 1} \cup ObjectEnds(k)
           T == {0, Len(l) + 1} \cup ObjectEnds(l)
<1>1. /\ Len(k) \in Nat /\ Len(l) \in Nat /\ DOMAIN k = 1 .. Len(k) /\ DOMAIN l = 1 .. Len(l)
      /\ p <= Len(k) /\ p <= Len(l) /\ \A i \in 1 .. p : k[i] = l[i]
  BY DEF Keys, Alike
<1>2. \A m \in Nat : m <= p => (m \in ObjectEnds(k) <=> m \in ObjectEnds(l)) /\ (m \in S <=> m \in T)
  <2> SUFFICES ASSUME NEW m \in Nat, m <= p
               PROVE  (m \in ObjectEnds(k) <=> m \in ObjectEnds(l)) /\ (m \in S <=> m \in T)
    OBVIOUS
  <2>1. m \in ObjectEnds(k) <=> m \in ObjectEnds(l)
    BY <1>1 DEF ObjectEnds
  <2>2. m # Len(k) + 1 /\ m # Len(l) + 1
    BY <1>1
  <2> QED BY <2>1, <2>2
<1>3. S \in SUBSET Nat /\ T \in SUBSET Nat /\ ObjectEnds(k) \in SUBSET Nat /\ ObjectEnds(l) \in SUBSET Nat
  BY <1>1 DEF ObjectEnds
<1>4. Level(l, p) = q
  <2>1. {m \in ObjectEnds(k) : m <= p} = {m \in ObjectEnds(l) : m <= p}
    BY <1>2, <1>3
  <2> QED BY <2>1 DEF Level
<1>5. /\ c \in [1 .. Depth(k) + 2 -> 0 .. Len(k) + 1] /\ c[1] = 0
      /\ \A m, n \in 1 .. Depth(k) + 2 : m < n <=> c[m] < c[n]
      /\ \A e \in ObjectEnds(k) : \E i \in 2 .. Depth(k) + 1 : c[i] = e
      /\ \A i \in 1 .. Depth(k) + 1 : Level(k, c[i]) = i - 1
      /\ Depth(k) \in Nat
  BY CutsType
<1>6. PICK e \in 1 .. Depth(k) + 1 : c[e] = p
  <2>1. CASE p = 0
    <3>1. 1 \in 1 .. Depth(k) + 1
      BY <1>5
    <3> QED BY <1>5, <2>1, <3>1
  <2>2. CASE p # 0
    <3>1. p \in ObjectEnds(k)
      BY <1>1, <2>2 DEF ObjectEnds
    <3>2. PICK i \in 2 .. Depth(k) + 1 : c[i] = p
      BY <1>5, <3>1
    <3>3. i \in 1 .. Depth(k) + 1
      OBVIOUS
    <3> QED BY <3>2, <3>3
  <2> QED BY <2>1, <2>2
<1>7. q = e - 1 /\ q \in Nat /\ q <= Depth(k) /\ q + 1 = e
  <2>1. q = e - 1
    BY <1>5, <1>6
  <2> QED BY <1>5, <2>1
<1>8. /\ d \in [1 .. Depth(l) + 2 -> 0 .. Len(l) + 1] /\ d[1] = 0
      /\ \A m, n \in 1 .. Depth(l) + 2 : m < n <=> d[m] < d[n]
      /\ \A x \in ObjectEnds(l) : \E i \in 2 .. Depth(l) + 1 : d[i] = x
      /\ \A i \in 1 .. Depth(l) + 1 : Level(l, d[i]) = i - 1
      /\ Depth(l) \in Nat
  BY CutsType
<1>9. \A i \in 1 .. e : c[i] \in Nat /\ c[i] <= p /\ (i = 1 \/ c[i] \in ObjectEnds(k))
  <2> SUFFICES ASSUME NEW i \in 1 .. e PROVE c[i] \in Nat /\ c[i] <= p /\ (i = 1 \/ c[i] \in ObjectEnds(k))
    OBVIOUS
  <2>1. i \in 1 .. Depth(k) + 2 /\ e \in 1 .. Depth(k) + 2 /\ (i = e \/ i < e) /\ (i = 1 \/ i \in 2 .. Depth(k) + 1)
    BY <1>5
  <2>2. c[i] \in Nat /\ c[e] \in Nat /\ (i = e \/ c[i] < c[e])
    BY <1>5, <2>1, SMTT(30)
  <2>3. i = 1 \/ c[i] \in ObjectEnds(k)
    <3>1. \A j \in 2 .. Depth(k) + 1 : c[j] \in 1 .. Len(k) /\ k[c[j]] = "."
      BY CutsType
    <3> QED BY <1>1, <2>1, <3>1 DEF ObjectEnds
  <2> QED BY <1>6, <2>2, <2>3
<1>10. \A i \in 1 .. e : i <= Depth(l) + 1 /\ d[i] = c[i]
  <2> SUFFICES ASSUME NEW i \in 1 .. e PROVE i <= Depth(l) + 1 /\ d[i] = c[i]
    OBVIOUS
  <2>1. Level(l, c[i]) = i - 1
    <3>1. \A m \in ObjectEnds(k) \cup ObjectEnds(l) : m <= c[i] => m <= p
      BY <1>3, <1>9
    <3>2. {m \in ObjectEnds(k) : m <= c[i]} = {m \in ObjectEnds(l) : m <= c[i]}
      BY <1>2, <1>3, <3>1
    <3>3. Level(k, c[i]) = i - 1
      <4>1. i \in 1 .. Depth(k) + 1
        BY <1>5
      <4> QED BY <1>5, <4>1
    <3> QED BY <3>2, <3>3 DEF Level
  <2>2. CASE i = 1
    BY <1>5, <1>8, <2>2
  <2>3. CASE i # 1
    <3>1. c[i] \in ObjectEnds(l)
      BY <1>2, <1>9, <2>3
    <3>2. PICK j \in 2 .. Depth(l) + 1 : d[j] = c[i]
      BY <1>8, <3>1
    <3>3. j \in 1 .. Depth(l) + 1
      OBVIOUS
    <3>4. j - 1 = i - 1
      BY <1>8, <2>1, <3>2, <3>3
    <3>5. j = i /\ i <= Depth(l) + 1
      BY <3>4, <3>3, <1>8
    <3> QED BY <3>2, <3>5
  <2> QED BY <2>2, <2>3
<1>11. q <= Depth(l)
  <2>1. e \in 1 .. e
    OBVIOUS
  <2>2. e <= Depth(l) + 1
    BY <1>10, <2>1
  <2> QED BY <1>7, <1>8, <2>2
<1> HIDE DEF q, c, d
<1>12. ASSUME NEW i \in 1 .. q PROVE Names(k)[i] = Names(l)[i]
  <2>1. i \in 1 .. e /\ i + 1 \in 1 .. e /\ i \in 1 .. Depth(k) + 1 /\ i \in 1 .. Depth(l) + 1
    BY <1>5, <1>7, <1>8, <1>11
  <2>2. d[i] = c[i] /\ d[i + 1] = c[i + 1] /\ c[i] \in Nat /\ c[i + 1] \in Nat /\ c[i + 1] <= p
    BY <1>9, <1>10, <2>1
  <2>3. /\ Names(k)[i] \in Keys /\ Len(Names(k)[i]) = c[i + 1] - c[i] - 1
        /\ \A j \in 1 .. Len(Names(k)[i]) : Names(k)[i][j] = k[c[i] + j]
    BY <2>1, NamesType DEF c
  <2>4. /\ Names(l)[i] \in Keys /\ Len(Names(l)[i]) = d[i + 1] - d[i] - 1
        /\ \A j \in 1 .. Len(Names(l)[i]) : Names(l)[i][j] = l[d[i] + j]
    BY <2>1, NamesType DEF d
  <2>5. \A j \in 1 .. c[i + 1] - c[i] - 1 : c[i] + j \in 1 .. p
    BY <2>2
  <2>6. Len(Names(k)[i]) = Len(Names(l)[i])
    BY <2>2, <2>3, <2>4
  <2>7. ASSUME NEW j \in 1 .. Len(Names(k)[i]) PROVE Names(k)[i][j] = Names(l)[i][j]
    <3>1. c[i] + j \in 1 .. p
      BY <2>3, <2>5, <2>7
    <3>2. Names(k)[i][j] = k[c[i] + j] /\ Names(l)[i][j] = l[c[i] + j]
      BY <2>2, <2>3, <2>4, <2>6, <2>7
    <3> QED BY <1>1, <3>1, <3>2
  <2> QED BY <2>3, <2>4, <2>6, <2>7, SeqEqual DEF Keys
<1> QED BY <1>4, <1>6, <1>7, <1>11, <1>12 DEF q, c

\* Keys whose first names are the same are alike up to the end of these.
LEMMA NamesDetermine ==
  ASSUME NEW k \in Keys, NEW l \in Keys, NEW m \in Nat, m <= Depth(k), m <= Depth(l),
         \A i \in 1 .. m : Names(k)[i] = Names(l)[i]
  PROVE  Cuts(l)[m + 1] = Cuts(k)[m + 1] /\ Alike(k, l, Cuts(k)[m + 1])
<1> DEFINE c == Cuts(k)
           d == Cuts(l)
<1>1. /\ Depth(k) \in Nat /\ Len(k) \in Nat /\ c \in [1 .. Depth(k) + 2 -> 0 .. Len(k) + 1] /\ c[1] = 0
      /\ \A i \in 2 .. Depth(k) + 1 : c[i] \in 1 .. Len(k) /\ k[c[i]] = "."
      /\ \A i, j \in 1 .. Depth(k) + 2 : i < j <=> c[i] < c[j]
  BY CutsType
<1>2. /\ Depth(l) \in Nat /\ Len(l) \in Nat /\ d \in [1 .. Depth(l) + 2 -> 0 .. Len(l) + 1] /\ d[1] = 0
      /\ \A i \in 2 .. Depth(l) + 1 : d[i] \in 1 .. Len(l) /\ l[d[i]] = "."
  BY CutsType
<1>3. \A i \in 1 .. Depth(k) + 1 : /\ Len(Names(k)[i]) = c[i + 1] - c[i] - 1
                                   /\ \A j \in 1 .. Len(Names(k)[i]) : Names(k)[i][j] = k[c[i] + j]
  BY NamesType
<1>4. \A i \in 1 .. Depth(l) + 1 : /\ Len(Names(l)[i]) = d[i + 1] - d[i] - 1
                                   /\ \A j \in 1 .. Len(Names(l)[i]) : Names(l)[i][j] = l[d[i] + j]
  BY NamesType
<1> HIDE DEF c, d
<1> DEFINE Good == {n \in 0 .. m : d[n + 1] = c[n + 1] /\ Alike(k, l, c[n + 1])}
<1>5. 0 \in Good
  <2>1. Alike(k, l, 0)
    BY <1>1, <1>2 DEF Alike
  <2>2. 0 \in 0 .. m /\ 0 + 1 = 1
    OBVIOUS
  <2> QED BY <1>1, <1>2, <2>1, <2>2
<1>6. ASSUME NEW n \in 1 .. m, n - 1 \in Good PROVE n \in Good
  <2> DEFINE x == c[n]
             y == c[n + 1]
  <2>1. /\ n - 1 + 1 = n /\ n \in 1 .. Depth(k) + 1 /\ n \in 1 .. Depth(l) + 1 /\ n \in 1 .. Depth(k) + 2
        /\ n + 1 \in 1 .. Depth(k) + 2 /\ n + 1 \in 2 .. Depth(k) + 1 /\ n + 1 \in 2 .. Depth(l) + 1 /\ n < n + 1
        /\ n \in 0 .. m
    BY <1>1, <1>2
  <2>2. d[n] = x /\ Alike(k, l, x)
    BY <1>6, <2>1
  <2>3. x \in Nat /\ y \in Nat /\ x < y /\ y <= Len(k) /\ k[y] = "." /\ d[n + 1] \in Nat /\ d[n + 1] <= Len(l)
        /\ l[d[n + 1]] = "."
    <3>1. x \in Nat /\ y \in 1 .. Len(k) /\ x < y /\ k[y] = "."
      BY <1>1, <2>1
    <3>2. d[n + 1] \in 1 .. Len(l) /\ l[d[n + 1]] = "."
      BY <1>2, <2>1
    <3> QED BY <1>1, <1>2, <3>1, <3>2
  <2>4. /\ Len(Names(k)[n]) = y - x - 1 /\ \A j \in 1 .. Len(Names(k)[n]) : Names(k)[n][j] = k[x + j]
    BY <1>3, <2>1
  <2>5. /\ Len(Names(l)[n]) = d[n + 1] - x - 1 /\ \A j \in 1 .. Len(Names(l)[n]) : Names(l)[n][j] = l[x + j]
    BY <1>4, <2>1, <2>2
  <2>6. Names(k)[n] = Names(l)[n]
    OBVIOUS
  <2> HIDE DEF x
  <2>7. d[n + 1] = y
    <3> DEFINE z == d[n + 1]
    <3>1. x \in Nat /\ y \in Nat /\ z \in Nat /\ y - x - 1 = z - x - 1
      BY <2>3, <2>4, <2>5, <2>6
    <3> HIDE DEF y, z
    <3>2. y = z
      BY ONLY <3>1
    <3> QED BY <3>2 DEF z
  <2>8. ASSUME NEW i \in 1 .. y PROVE k[i] = l[i]
    <3> HIDE DEF y
    <3>1. CASE i <= x
      <4>1. i \in 1 .. x
        BY <2>3, <3>1
      <4> QED BY <2>2, <4>1 DEF Alike
    <3>2. CASE i = y
      BY <2>3, <2>7, <3>2
    <3>3. CASE x < i /\ i # y
      <4>1. i - x \in 1 .. y - x - 1 /\ x + (i - x) = i
        BY <2>3, <3>3
      <4>2. Names(k)[n][i - x] = k[x + (i - x)] /\ Names(l)[n][i - x] = l[x + (i - x)]
        BY <2>4, <2>5, <2>6, <4>1
      <4> QED BY <2>6, <4>1, <4>2
    <3> QED BY <2>3, <3>1, <3>2, <3>3
  <2>9. Alike(k, l, y)
    BY <2>3, <2>7, <2>8 DEF Alike
  <2> QED BY <2>1, <2>7, <2>9
<1>7. m \in Good
  <2> HIDE DEF Good
  <2>1. \A n \in 0 .. m : n \in Good
    BY <1>5, <1>6, UpTo
  <2> QED BY <2>1
<1> QED BY <1>7 DEF c, d

\* A set of positions and nothing has a greatest element.
LEMMA GreatestOrNone ==
  ASSUME NEW N \in Nat, NEW S \in SUBSET (1 .. N)
  PROVE  Max({0} \cup S) \in {0} \cup S /\ \A n \in S : n <= Max({0} \cup S)
<1> DEFINE T == {0} \cup S
<1>1. \E m \in T : \A n \in T : m >= n
  <2>1. CASE S = {}
    BY <2>1
  <2>2. CASE S # {}
    <3>1. Max(S) \in S /\ \A n \in S : n <= Max(S)
      BY <2>2, GreatestOf
    <3>2. \A x \in 1 .. N : x \in Nat /\ x >= 0
      OBVIOUS
    <3>3. Max(S) \in T /\ Max(S) \in Nat /\ \A n \in S : n \in Nat
      BY <3>1, <3>2
    <3>4. \A n \in T : Max(S) >= n
      BY <3>1, <3>2, <3>3
    <3> QED BY <3>3, <3>4
  <2> QED BY <2>1, <2>2
<1>2. Max(T) \in T /\ \A n \in T : Max(T) >= n
  <2> HIDE DEF T
  <2> QED BY <1>1 DEF Max
<1>3. T \in SUBSET Nat
  OBVIOUS
<1> QED BY <1>2, <1>3

\* The last separator of a key up to n, if there is one.
LEMMA ObjectEndType ==
  ASSUME NEW key \in Keys, NEW n \in Nat
  PROVE  /\ ObjectEnd(key, n) \in 0 .. Len(key) /\ ObjectEnd(key, n) <= n
         /\ ObjectEnd(key, n) = 0 \/ key[ObjectEnd(key, n)] = "."
         /\ \A e \in ObjectEnds(key) : e <= n => e <= ObjectEnd(key, n)
<1> DEFINE S == {m \in ObjectEnds(key) : m <= n}
           e == ObjectEnd(key, n)
<1>1. Len(key) \in Nat /\ DOMAIN key = 1 .. Len(key)
  BY DEF Keys
<1>2. S \in SUBSET (1 .. Len(key)) /\ \A m \in S : key[m] = "." /\ m <= n
  BY <1>1 DEF ObjectEnds
<1>3. e = Max({0} \cup S)
  BY DEF ObjectEnd
<1> HIDE DEF S, e
<1>4. e \in {0} \cup S /\ \A m \in S : m <= e
  BY <1>1, <1>2, <1>3, GreatestOrNone
<1>5. e \in 0 .. Len(key) /\ e <= n /\ (e = 0 \/ key[e] = ".")
  <2>1. CASE e = 0
    BY <1>1, <2>1
  <2>2. CASE e \in S
    BY <1>1, <1>2, <2>2
  <2> QED BY <1>4, <2>1, <2>2
<1>6. \A x \in ObjectEnds(key) : x <= n => x <= e
  BY <1>4 DEF S
<1> QED BY <1>5, <1>6 DEF e

\* What a key's objects have in front of its own name.
LEMMA ObjPrefixType ==
  ASSUME NEW k \in Keys
  PROVE  /\ ObjPrefix(k) \in Keys /\ Alike(k, ObjPrefix(k), Len(ObjPrefix(k)))
         /\ Len(ObjPrefix(k)) = 0 \/ k[Len(ObjPrefix(k))] = "."
         /\ \A e \in ObjectEnds(k) : e <= Len(ObjPrefix(k))
         /\ \A n \in Nat : n <= Len(ObjPrefix(k)) => Level(ObjPrefix(k), n) = Level(k, n)
         /\ Level(ObjPrefix(k), Len(ObjPrefix(k))) = Depth(k)
<1> DEFINE a == ObjPrefix(k)
           e == ObjectEnd(k, Len(k))
<1>1. Len(k) \in Nat /\ DOMAIN k = 1 .. Len(k) /\ \A i \in 1 .. Len(k) : k[i] \in DOMAIN Rank
  BY DEF Keys
<1>2. /\ e \in 0 .. Len(k) /\ (e = 0 \/ k[e] = ".")
      /\ \A m \in ObjectEnds(k) : m <= Len(k) => m <= e
  BY <1>1, ObjectEndType
<1>3. a = SubSeq(k, 1, e)
  BY DEF ObjPrefix
<1> HIDE DEF a, e
<1>4. a \in Keys /\ Len(a) = e /\ \A i \in 1 .. e : a[i] = k[i]
  <2>1. e \in Nat /\ e <= Len(k) /\ 1 \in Nat /\ 1 <= e + 1 /\ e - 1 + 1 = e
    BY <1>1, <1>2
  <2>2. SubSeq(k, 1, e) \in Seq(DOMAIN Rank) /\ Len(SubSeq(k, 1, e)) = e /\ \A i \in 1 .. e : SubSeq(k, 1, e)[i] = k[i]
    BY <1>1, <2>1, SubSeqProperties
  <2> QED BY <1>3, <2>2 DEF Keys
<1>5. DOMAIN a = 1 .. e
  BY <1>4 DEF Keys
<1>6. \A m \in ObjectEnds(k) : m <= e
  BY <1>1, <1>2 DEF ObjectEnds
<1>7. \A m \in ObjectEnds(k) : m \in ObjectEnds(a)
  <2> SUFFICES ASSUME NEW m \in ObjectEnds(k) PROVE m \in ObjectEnds(a)
    OBVIOUS
  <2>1. m \in 1 .. Len(k) /\ k[m] = "." /\ m <= e
    BY <1>1, <1>6 DEF ObjectEnds
  <2>2. m \in 1 .. e
    BY <1>1, <1>2, <2>1
  <2> QED BY <1>4, <1>5, <2>1, <2>2 DEF ObjectEnds
<1>8. \A m \in ObjectEnds(a) : m \in ObjectEnds(k)
  <2> SUFFICES ASSUME NEW m \in ObjectEnds(a) PROVE m \in ObjectEnds(k)
    OBVIOUS
  <2>1. m \in 1 .. e /\ a[m] = "."
    BY <1>5 DEF ObjectEnds
  <2>2. m \in 1 .. Len(k)
    BY <1>1, <1>2, <2>1
  <2> QED BY <1>1, <1>4, <2>1, <2>2 DEF ObjectEnds
<1>9. ObjectEnds(a) = ObjectEnds(k)
  BY <1>7, <1>8
<1>10. {m \in ObjectEnds(k) : m <= e} = ObjectEnds(k)
  BY <1>6
<1>11. \A n : Level(a, n) = Level(k, n)
  BY <1>9 DEF Level
<1>12. Level(a, e) = Depth(k)
  BY <1>10, <1>11 DEF Level, Depth
<1>13. Alike(k, a, e)
  BY <1>1, <1>2, <1>4 DEF Alike
<1> QED BY <1>2, <1>4, <1>6, <1>11, <1>12, <1>13 DEF a

\* The common prefix of two keys goes as far as they are alike.
LEMMA CommonObjPrefixType ==
  ASSUME NEW a \in Keys, NEW b \in Keys
  PROVE  /\ CommonObjPrefix(a, b) \in Nat /\ Alike(a, b, CommonObjPrefix(a, b))
         /\ \A n \in Nat : Alike(a, b, n) => n <= CommonObjPrefix(a, b)
<1> DEFINE All == {n \in 0 .. Len(a) : n <= Len(b) /\ SubSeq(a, 1, n) = SubSeq(b, 1, n)}
           S == {n \in 1 .. Len(a) : Alike(a, b, n)}
           max == Max({0} \cup S)
<1>1. Len(a) \in Nat /\ Len(b) \in Nat
  BY DEF Keys
<1>2. Alike(a, b, 0)
  BY <1>1 DEF Alike
<1>3. All = {0} \cup S
  <2>1. ASSUME NEW n \in Nat PROVE n \in All <=> Alike(a, b, n)
    <3>1. CASE n <= Len(a) /\ n <= Len(b)
      <4>1. SubSeq(a, 1, n) = SubSeq(b, 1, n) <=> Alike(a, b, n)
        BY <3>1, AlikeIsPrefix
      <4>2. n \in 0 .. Len(a)
        BY <1>1, <3>1
      <4> QED BY <3>1, <4>1, <4>2
    <3>2. CASE ~(n <= Len(a) /\ n <= Len(b))
      <4>1. ~(n \in 0 .. Len(a) /\ n <= Len(b))
        BY <1>1, <3>2
      <4> QED BY <3>2, <4>1 DEF Alike
    <3> QED BY <3>1, <3>2
  <2>2. ASSUME NEW n \in Nat PROVE n \in {0} \cup S <=> Alike(a, b, n)
    <3>1. CASE n = 0
      BY <1>2, <3>1
    <3>2. CASE n # 0
      <4>1. Alike(a, b, n) => n \in 1 .. Len(a)
        BY <1>1, <3>2 DEF Alike
      <4> QED BY <3>2, <4>1
    <3> QED BY <3>1, <3>2
  <2>3. All \in SUBSET Nat /\ {0} \cup S \in SUBSET Nat
    BY <1>1
  <2> HIDE DEF All, S
  <2> QED BY <2>1, <2>2, <2>3
<1>4. CommonObjPrefix(a, b) = max
  <2> HIDE DEF S
  <2> QED BY <1>3 DEF CommonObjPrefix
<1>5. max \in {0} \cup S /\ \A n \in S : n <= max
  <2>1. S \in SUBSET (1 .. Len(a))
    OBVIOUS
  <2> HIDE DEF S
  <2> QED BY <1>1, <2>1, GreatestOrNone
<1> HIDE DEF max
<1>6. max \in Nat /\ Alike(a, b, max)
  <2>1. CASE max = 0
    BY <1>2, <2>1
  <2>2. CASE max \in S
    BY <1>1, <2>2
  <2> QED BY <1>5, <2>1, <2>2
<1>7. ASSUME NEW n \in Nat, Alike(a, b, n) PROVE n <= max
  <2>1. CASE n = 0
    BY <1>6, <2>1
  <2>2. CASE n # 0
    <3>1. n \in S
      BY <1>1, <1>7, <2>2 DEF Alike
    <3> QED BY <1>5, <3>1
  <2> QED BY <2>1, <2>2
<1> QED BY <1>4, <1>6, <1>7

\* What is reported of a field after one with the key k, if they share q objects.
IsReport(r, k, f, q) ==
  /\ q \in Nat /\ q <= Depth(k) /\ q <= Depth(f.key)
  /\ r = Report(Depth(k) - q, SubSeq(Names(f.key), q + 1, Depth(f.key)), Names(f.key)[Depth(f.key) + 1], f.value)
  /\ \A i \in 1 .. q : Names(k)[i] = Names(f.key)[i]
  /\ \A e \in ObjectEnds(k) : Alike(k, f.key, e) => Level(f.key, e) <= q

\* It is reported after any key: closed are the objects that the field is not in, and
\* no others.
LEMMA ReportDedotType ==
  ASSUME NEW k \in Keys, NEW f, f.key \in Keys
  PROVE  \E q : IsReport(ReportDedot(ObjPrefix(k), f), k, f, q)
<1> DEFINE l == f.key
           a == ObjPrefix(k)
           common == CommonObjPrefix(l, a)
           p == IF common < Len(a) THEN ObjectEnd(l, common) ELSE common
           names == Names(l)
           q == Level(l, p)
<1>1. /\ a \in Keys /\ Alike(k, a, Len(a)) /\ (Len(a) = 0 \/ k[Len(a)] = ".")
      /\ \A e \in ObjectEnds(k) : e <= Len(a)
      /\ \A n \in Nat : n <= Len(a) => Level(a, n) = Level(k, n)
      /\ Level(a, Len(a)) = Depth(k)
  BY ObjPrefixType
<1>2. l \in Keys /\ Len(l) \in Nat /\ Len(a) \in Nat /\ Len(k) \in Nat /\ DOMAIN l = 1 .. Len(l) /\ DOMAIN k = 1 .. Len(k)
  BY <1>1 DEF Keys
<1>3. ReportDedot(a, f) = Report(Level(a, Len(a)) - Level(a, p), SubSeq(names, Level(l, p) + 1, Len(names) - 1),
                                 Last(names), f.value)
  BY DEF ReportDedot
<1> HIDE DEF l, a
<1>4. common \in Nat /\ Alike(l, a, common) /\ \A n \in Nat : Alike(l, a, n) => n <= common
  BY <1>1, <1>2, CommonObjPrefixType
<1> HIDE DEF common
<1>5. common <= Len(a) /\ common <= Len(l) /\ \A i \in 1 .. common : l[i] = a[i]
  BY <1>4 DEF Alike
<1>6. /\ p \in Nat /\ p <= common /\ (p = 0 \/ l[p] = ".")
      /\ \A e \in ObjectEnds(l) : e <= common => e <= p
  <2>1. CASE common < Len(a)
    <3>1. p = ObjectEnd(l, common)
      BY <2>1
    <3>2. /\ ObjectEnd(l, common) \in 0 .. Len(l) /\ ObjectEnd(l, common) <= common
          /\ ObjectEnd(l, common) = 0 \/ l[ObjectEnd(l, common)] = "."
          /\ \A e \in ObjectEnds(l) : e <= common => e <= ObjectEnd(l, common)
      BY <1>2, <1>4, ObjectEndType
    <3> QED BY <1>2, <3>1, <3>2
  <2>2. CASE ~(common < Len(a))
    <3>1. p = common /\ common = Len(a)
      BY <1>2, <1>4, <1>5, <2>2
    <3>2. p = 0 \/ l[p] = "."
      <4>1. p # 0 => p \in 1 .. common /\ p \in 1 .. Len(a)
        BY <1>2, <1>4, <3>1
      <4>2. p # 0 => l[p] = a[p] /\ k[p] = a[p]
        BY <1>1, <1>5, <4>1 DEF Alike
      <4> QED BY <1>1, <3>1, <4>2
    <3> QED BY <1>4, <3>1, <3>2
  <2> QED BY <2>1, <2>2
<1> HIDE DEF p
<1>7. Alike(k, l, p)
  <2>1. p <= Len(a) /\ p <= Len(l) /\ p <= Len(k)
    <3>1. Len(a) <= Len(k)
      BY <1>1 DEF Alike
    <3> QED BY <1>2, <1>4, <1>5, <1>6, <3>1
  <2>2. \A i \in 1 .. p : i \in 1 .. common /\ i \in 1 .. Len(a)
    BY <1>2, <1>4, <1>6, <2>1
  <2>3. \A i \in 1 .. p : k[i] = l[i]
    BY <1>1, <1>5, <2>2 DEF Alike
  <2> QED BY <2>1, <2>3 DEF Alike
<1>8. /\ Level(k, p) \in Nat /\ q = Level(k, p) /\ Level(k, p) <= Depth(k) /\ Level(k, p) <= Depth(l)
      /\ \A i \in 1 .. Level(k, p) : Names(k)[i] = names[i]
  <2>1. p = 0 \/ k[p] = "."
    <3>1. p # 0 => p \in 1 .. p
      BY <1>6
    <3> QED BY <1>6, <1>7, <3>1 DEF Alike
  <2> QED BY <1>2, <1>6, <1>7, <2>1, NamesAlike
<1>9. Len(names) = Depth(l) + 1 /\ Last(names) = names[Depth(l) + 1] /\ Len(names) - 1 = Depth(l)
  <2>1. Len(names) = Depth(l) + 1 /\ Depth(l) \in Nat
    BY <1>2, NamesType, CutsType
  <2> QED BY <2>1 DEF Last
<1>10. Level(a, Len(a)) - Level(a, p) = Depth(k) - q
  <2>1. p <= Len(a)
    BY <1>2, <1>4, <1>5, <1>6
  <2> QED BY <1>1, <1>6, <1>8, <2>1
<1>11. ASSUME NEW e \in ObjectEnds(k), Alike(k, l, e) PROVE Level(l, e) <= q
  <2>1. e \in 1 .. Len(k) /\ k[e] = "." /\ e <= Len(a) /\ e <= Len(l)
    BY <1>1, <1>2, <1>11 DEF ObjectEnds, Alike
  <2>2. e \in 1 .. e /\ e \in Nat /\ e \in 1 .. Len(l)
    BY <1>2, <2>1
  <2>3. e \in ObjectEnds(l)
    BY <1>2, <1>11, <2>1, <2>2 DEF ObjectEnds, Alike
  <2>4. Alike(l, a, e)
    <3>1. \A i \in 1 .. e : i \in 1 .. Len(a)
      BY <1>2, <2>1
    <3> QED BY <1>1, <1>11, <2>1, <3>1 DEF Alike
  <2>5. e <= p
    BY <1>4, <1>6, <2>2, <2>3, <2>4
  <2> DEFINE E == {m \in ObjectEnds(l) : m <= e}
             P == {m \in ObjectEnds(l) : m <= p}
  <2>6. E \in SUBSET P
    <3>1. \A m \in 1 .. Len(l) : m <= e => m <= p
      BY <1>6, <2>2, <2>5
    <3>2. ObjectEnds(l) \in SUBSET (1 .. Len(l))
      BY <1>2 DEF ObjectEnds
    <3> QED BY <3>1, <3>2
  <2>7. IsFiniteSet(P)
    <3>1. P \in SUBSET ObjectEnds(l) /\ IsFiniteSet(ObjectEnds(l))
      BY <1>2, CutsType
    <3> HIDE DEF P
    <3> QED BY <3>1, FS_Subset
  <2>8. Cardinality(E) <= Cardinality(P)
    <3> HIDE DEF E, P
    <3> QED BY <2>6, <2>7, FS_Subset
  <2> QED BY <2>8 DEF Level
<1>12. IsReport(ReportDedot(a, f), k, f, q)
  <2>1. /\ q \in Nat /\ q <= Depth(k) /\ q <= Depth(l)
        /\ \A i \in 1 .. q : Names(k)[i] = names[i]
    BY <1>8
  <2>2. ReportDedot(a, f) = Report(Depth(k) - q, SubSeq(names, q + 1, Depth(l)), names[Depth(l) + 1], f.value)
    BY <1>3, <1>9, <1>10
  <2> HIDE DEF q
  <2> QED BY <1>11, <2>1, <2>2 DEF IsReport, l
<1> QED BY <1>12 DEF a

-----------------------------------------------------------------------------
(* The JSON of a document.                                                  *)

\* A function on the first positions is a sequence.
LEMMA FirstToLast ==
  ASSUME NEW N \in Nat, NEW r, r = [n \in 1 .. N |-> r[n]]
  PROVE  Len(r) = N /\ DOMAIN r = 1 .. N /\ r \in Seq({r[n] : n \in 1 .. N})
<1> DEFINE R == {r[n] : n \in 1 .. N}
<1>1. \A n \in 1 .. N : r[n] \in R
  OBVIOUS
<1> HIDE DEF R
<1>2. r \in [1 .. N -> R]
  BY <1>1
<1>3. r \in Seq(R) /\ DOMAIN r = 1 .. N
  BY <1>2
<1>4. Len(r) = N
  BY <1>2, <1>3, LenProperties
<1> QED BY <1>3, <1>4 DEF R

\* The fields that are written are those whose values are not empty, in order.
LEMMA WrittenType ==
  ASSUME NEW V, NEW fields \in FieldsOf(V)
  PROVE  /\ Written(fields) \in FieldsOf(V)
         /\ \A n \in DOMAIN Written(fields) :
              \E i \in DOMAIN fields : Written(fields)[n] = fields[i] /\ ~IsEmpty(fields[i].value)
         /\ \A i \in DOMAIN fields : ~IsEmpty(fields[i].value) =>
              \E n \in DOMAIN Written(fields) : Written(fields)[n] = fields[i]
         /\ \A m, n \in DOMAIN Written(fields) : m < n =>
              \E i, j \in DOMAIN fields : i < j /\ Written(fields)[m] = fields[i] /\ Written(fields)[n] = fields[j]
<1> DEFINE X == [key : Keys, value : V]
           P == {i \in DOMAIN fields : ~IsEmpty(fields[i].value)}
           w == ElementsAt(fields, P)
           C == Cardinality(P)
<1>1. fields \in Seq(X) /\ P \in SUBSET DOMAIN fields
  BY DEF FieldsOf
<1> HIDE DEF X, P
<1>2. /\ C \in Nat /\ DOMAIN w = 1 .. C /\ w \in Seq(X)
      /\ \A n \in 1 .. C : InOrder(P)[n] \in P /\ w[n] = fields[InOrder(P)[n]]
      /\ \A i \in P : \E n \in 1 .. C : InOrder(P)[n] = i /\ w[n] = fields[i]
      /\ \A m, n \in 1 .. C : m < n <=> InOrder(P)[m] < InOrder(P)[n]
  BY ONLY <1>1, ElementsAtType
<1>3. Written(fields) = w
  BY DEF Written, P
<1> HIDE DEF w, C
<1>4. \A i : i \in P <=> i \in DOMAIN fields /\ ~IsEmpty(fields[i].value)
  BY DEF P
<1>5. \A n \in DOMAIN w : \E i \in DOMAIN fields : w[n] = fields[i] /\ ~IsEmpty(fields[i].value)
  BY <1>2, <1>4
<1>6. \A i \in DOMAIN fields : ~IsEmpty(fields[i].value) => \E n \in DOMAIN w : w[n] = fields[i]
  BY <1>2, <1>4
<1>7. \A m, n \in DOMAIN w : m < n => \E i, j \in DOMAIN fields : i < j /\ w[m] = fields[i] /\ w[n] = fields[j]
  BY <1>2, <1>4
<1> QED BY <1>2, <1>3, <1>5, <1>6, <1>7 DEF FieldsOf, X

\* What is around the values is determined step by step.
LEMMA AroundIs ==
  ASSUME NEW json, NEW N \in Nat, Len(json.reports) = N, NEW a, a = [n \in 0 .. N |-> a[n]], a[0] = << >>,
         \A n \in 1 .. N : a[n] = SubSeq(a[n - 1], 1, Len(a[n - 1]) - json.reports[n].closed) \o json.reports[n].opened
  PROVE  Around(json) = a
<1> DEFINE After(before, n) == SubSeq(before, 1, Len(before) - json.reports[n].closed) \o json.reports[n].opened
           Is(x) == x = [n \in 0 .. N |-> IF n = 0 THEN << >> ELSE After(x[n - 1], n)]
           x == CHOOSE y : Is(y)
<1>1. Around(json) = x
  BY DEF Around
<1>2. Is(a)
  <2>1. \A n \in 1 .. N : a[n] = After(a[n - 1], n)
    OBVIOUS
  <2> HIDE DEF After
  <2>2. \A n \in 0 .. N : a[n] = IF n = 0 THEN << >> ELSE After(a[n - 1], n)
    <3>1. \A n \in 0 .. N : n # 0 => n \in 1 .. N
      OBVIOUS
    <3> QED BY <2>1, <3>1
  <2>3. [n \in 0 .. N |-> a[n]] = [n \in 0 .. N |-> IF n = 0 THEN << >> ELSE After(a[n - 1], n)]
    BY <2>2
  <2> QED BY <2>3
<1>3. Is(x)
  <2> HIDE DEF Is
  <2> QED BY <1>2
<1> HIDE DEF x, After
<1> DEFINE Good == {n \in 0 .. N : x[n] = a[n]}
<1>4. x[0] = << >> /\ \A n \in 1 .. N : x[n] = After(x[n - 1], n)
  <2>1. 0 \in 0 .. N /\ \A n \in 1 .. N : n \in 0 .. N /\ n # 0
    BY SMTT(30)
  <2> QED BY <1>3, <2>1
<1>5. a[0] = << >> /\ \A n \in 1 .. N : a[n] = After(a[n - 1], n)
  BY DEF After
<1>6. \A n \in 0 .. N : n \in Good
  <2>1. 0 \in Good
    BY <1>4
  <2>2. \A n \in 1 .. N : n - 1 \in Good => n \in Good
    <3>1. \A n \in 1 .. N : n \in 0 .. N
      OBVIOUS
    <3> QED BY <1>4, <1>5, <3>1
  <2> HIDE DEF Good
  <2> QED BY <2>1, <2>2, UpTo
<1>7. x = [n \in 0 .. N |-> x[n]]
  BY <1>3
<1> QED BY <1>1, <1>6, <1>7

\* The key before the n-th field that is written, none before the first.
KeyAt(w, n) == IF n = 0 THEN << >> ELSE w[n].key

\* Every field is reported, after the one before, and the objects of the last are closed.
LEMMA IterJSONDedotReports ==
  ASSUME NEW V, NEW fields \in FieldsOf(V), NEW w, w = Written(fields), NEW json, json = IterJSONDedot(fields)
  PROVE  /\ Len(w) \in Nat /\ DOMAIN w = 1 .. Len(w)
         /\ Len(json.reports) = Len(w) /\ DOMAIN json.reports = 1 .. Len(w)
         /\ \A n \in 0 .. Len(w) : KeyAt(w, n) \in Keys
         /\ \A n \in 1 .. Len(w) : w[n] \in [key : Keys, value : V] /\ w[n].key = KeyAt(w, n)
         /\ \A n \in 1 .. Len(w) : \E q : IsReport(json.reports[n], KeyAt(w, n - 1), w[n], q)
         /\ json.closed = Depth(KeyAt(w, Len(w)))
<1> DEFINE Prefix(i) == IF i = 0 THEN << >> ELSE ObjPrefix(w[i].key)
           reports == [i \in DOMAIN w |-> ReportDedot(Prefix(i - 1), w[i])]
           N == Len(w)
<1>1. w \in FieldsOf(V)
  BY WrittenType
<1>2. /\ N \in Nat /\ DOMAIN w = 1 .. N
      /\ \A i \in DOMAIN w : w[i] \in [key : Keys, value : V] /\ w[i].key \in Keys
  BY <1>1, FieldsType
<1>3. json.reports = reports /\ json.closed = Level(Prefix(N), Len(Prefix(N)))
  BY DEF IterJSONDedot, Json
<1>4. \A n \in 0 .. N : KeyAt(w, n) \in Keys
  <2>1. << >> \in Keys
    BY DEF Keys
  <2>2. \A n \in 0 .. N : n # 0 => n \in 1 .. N
    BY <1>2
  <2> QED BY <1>2, <2>1, <2>2 DEF KeyAt
<1>5. \A n \in 0 .. N : Prefix(n) = ObjPrefix(KeyAt(w, n))
  <2>1. << >> \in Keys
    BY DEF Keys
  <2>2. ObjPrefix(<< >>) = << >>
    <3>1. ObjPrefix(<< >>) \in Keys /\ Alike(<< >>, ObjPrefix(<< >>), Len(ObjPrefix(<< >>)))
      BY <2>1, ObjPrefixType
    <3>2. Len(ObjPrefix(<< >>)) <= 0 /\ Len(ObjPrefix(<< >>)) \in Nat
      BY <3>1 DEF Alike, Keys
    <3> QED BY <3>1, <3>2 DEF Keys
  <2> QED BY <2>2 DEF KeyAt
<1>6. ASSUME NEW n \in 1 .. N PROVE \E q : IsReport(reports[n], KeyAt(w, n - 1), w[n], q)
  <2>1. n - 1 \in 0 .. N
    BY <1>2
  <2>2. reports[n] = ReportDedot(ObjPrefix(KeyAt(w, n - 1)), w[n])
    BY <1>2, <1>5, <2>1
  <2>3. KeyAt(w, n - 1) \in Keys /\ w[n].key \in Keys
    BY <1>2, <1>4, <2>1
  <2> HIDE DEF reports
  <2> QED BY <2>2, <2>3, ReportDedotType
<1>7. json.closed = Depth(KeyAt(w, N))
  <2>1. N \in 0 .. N
    BY <1>2
  <2>2. Prefix(N) = ObjPrefix(KeyAt(w, N)) /\ KeyAt(w, N) \in Keys
    BY <1>4, <1>5, <2>1
  <2> HIDE DEF Prefix
  <2> QED BY <1>3, <2>2, ObjPrefixType
<1>8. Len(reports) = N /\ DOMAIN reports = 1 .. N
  <2>1. reports = [n \in 1 .. N |-> reports[n]]
    BY <1>2
  <2> HIDE DEF reports
  <2> QED BY <1>2, <2>1, FirstToLast
<1>9. \A n \in 1 .. N : w[n].key = KeyAt(w, n)
  BY <1>2 DEF KeyAt
<1> HIDE DEF reports, Prefix
<1> QED BY <1>2, <1>3, <1>4, <1>6, <1>7, <1>8, <1>9

\* From the objects of one key to those of the next.
Follows(after, before, r) == after = SubSeq(before, 1, Len(before) - r.closed) \o r.opened

\* What is open after a field are the objects of its key.
LEMMA ObjsOfNext ==
  ASSUME NEW k \in Keys, NEW f, f.key \in Keys, NEW q, NEW r, IsReport(r, k, f, q)
  PROVE  /\ Len(Objs(k)) = Depth(k) /\ r.closed <= Depth(k) /\ Len(r.opened) = Depth(f.key) - q
         /\ Follows(Objs(f.key), Objs(k), r)
         /\ Append(Objs(f.key), r.name) = Names(f.key) /\ r.value = f.value
<1> DEFINE l == f.key
           a == Names(k)
           b == Names(l)
           c == Depth(k)
           d == Depth(l)
<1>1. /\ q \in Nat /\ q <= c /\ q <= d /\ \A i \in 1 .. q : a[i] = b[i]
      /\ r.closed = c - q /\ r.opened = SubSeq(b, q + 1, d) /\ r.name = b[d + 1] /\ r.value = f.value
  BY DEF IsReport, Report
<1>2. c \in Nat /\ d \in Nat /\ a \in Seq(Keys) /\ Len(a) = c + 1 /\ b \in Seq(Keys) /\ Len(b) = d + 1
  BY NamesType, CutsType
<1>3. Objs(k) = SubSeq(a, 1, c) /\ Objs(l) = SubSeq(b, 1, d)
  BY DEF Objs
<1> HIDE DEF l, a, b, c, d
<1> DEFINE A == SubSeq(a, 1, c)
           B == SubSeq(b, 1, d)
           O == SubSeq(b, q + 1, d)
<1>4. A \in Seq(Keys) /\ Len(A) = c /\ \A i \in 1 .. c : A[i] = a[i]
  BY ONLY <1>2, SubSeqProperties, ElementOfSeq
<1>5. B \in Seq(Keys) /\ Len(B) = d /\ \A i \in 1 .. d : B[i] = b[i]
  BY ONLY <1>2, SubSeqProperties, ElementOfSeq
<1>6. O \in Seq(Keys) /\ Len(O) = d - q /\ \A i \in 1 .. d - q : O[i] = b[q + i]
  BY ONLY <1>1, <1>2, SubSeqProperties, ElementOfSeq, SMTT(30)
<1> HIDE DEF A, B, O
<1>7. c - (c - q) = q /\ c - q <= c
  BY <1>1, <1>2
<1> DEFINE A1 == SubSeq(A, 1, q)
<1>8. A1 \in Seq(Keys) /\ Len(A1) = q /\ \A i \in 1 .. q : A1[i] = A[i]
  BY ONLY <1>1, <1>4, <1>2, SubSeqProperties, ElementOfSeq
<1> HIDE DEF A1
<1> DEFINE E == A1 \o O
<1>9. E \in Seq(Keys) /\ Len(E) = q + (d - q) /\ (\A i \in 1 .. q : E[i] = A1[i]) /\ \A i \in 1 .. d - q : E[q + i] = O[i]
  <2>1. E \in Seq(Keys) /\ Len(E) = Len(A1) + Len(O)
    BY ONLY <1>6, <1>8, ConcatAt
  <2>2. \A i \in 1 .. Len(A1) : E[i] = A1[i]
    BY ONLY <1>6, <1>8, ConcatAt
  <2>3. \A i \in 1 .. Len(O) : E[Len(A1) + i] = O[i]
    BY ONLY <1>6, <1>8, ConcatAt
  <2> HIDE DEF E
  <2> QED BY <1>6, <1>8, <2>1, <2>2, <2>3
<1> HIDE DEF E
<1>10. B = E
  <2>1. q + (d - q) = d
    BY <1>1, <1>2
  <2>2. ASSUME NEW i \in 1 .. d PROVE E[i] = B[i]
    <3>1. CASE i <= q
      <4>1. i \in 1 .. q /\ i \in 1 .. c
        BY <1>1, <1>2, <3>1
      <4>2. E[i] = A1[i] /\ A1[i] = A[i] /\ A[i] = a[i] /\ a[i] = b[i]
        BY <1>1, <1>4, <1>8, <1>9, <4>1
      <4> QED BY <1>5, <4>2
    <3>2. CASE ~(i <= q)
      <4>1. i - q \in 1 .. d - q /\ q + (i - q) = i
        BY <1>1, <1>2, <3>2
      <4>2. E[q + (i - q)] = O[i - q] /\ O[i - q] = b[q + (i - q)]
        BY <1>6, <1>9, <4>1
      <4> QED BY <1>5, <4>1, <4>2
    <3> QED BY <3>1, <3>2
  <2>3. E \in Seq(Keys) /\ Len(E) = d
    BY <1>9, <2>1
  <2> QED BY ONLY <1>5, <2>2, <2>3, SeqEqual
<1>11. Append(B, b[d + 1]) = b
  <2> DEFINE F == Append(B, b[d + 1])
  <2>1. d + 1 \in 1 .. Len(b) /\ b[d + 1] \in Keys
    BY <1>2
  <2>2. F \in Seq(Keys) /\ Len(F) = d + 1 /\ \A i \in 1 .. d + 1 : F[i] = b[i]
    BY <1>2, <1>5, <2>1
  <2> HIDE DEF F
  <2>3. F = b
    BY ONLY <1>2, <2>2, SeqEqual
  <2> QED BY <2>3 DEF F
<1>12. Objs(l) = SubSeq(Objs(k), 1, Len(Objs(k)) - r.closed) \o r.opened
  BY <1>1, <1>3, <1>4, <1>7, <1>10 DEF A, B, O, A1, E
<1> QED BY <1>1, <1>3, <1>4, <1>6, <1>7, <1>11, <1>12 DEF A, B, O, l, c, d, b, Follows

\* Without a key there are no objects.
LEMMA ObjsType ==
  ASSUME NEW k \in Keys
  PROVE  /\ Objs(k) \in Seq(Keys) /\ Len(Objs(k)) = Depth(k) /\ Depth(k) \in Nat
         /\ \A i \in 1 .. Depth(k) : Objs(k)[i] = Names(k)[i]
         /\ k = << >> => Objs(k) = << >>
<1>1. Names(k) \in Seq(Keys) /\ Len(Names(k)) = Depth(k) + 1 /\ Depth(k) \in Nat
  BY NamesType, CutsType
<1> DEFINE a == Names(k)
           c == Depth(k)
<1>2. SubSeq(a, 1, c) \in Seq(Keys) /\ Len(SubSeq(a, 1, c)) = c /\ \A i \in 1 .. c : SubSeq(a, 1, c)[i] = a[i]
  <2> HIDE DEF a, c
  <2> QED BY ONLY <1>1, SubSeqProperties, ElementOfSeq DEF a, c
<1>3. ASSUME k = << >> PROVE c = 0
  <2>1. ObjectEnds(k) = {}
    BY <1>3 DEF ObjectEnds
  <2> QED BY <2>1, FS_EmptySet DEF Depth
<1>4. k = << >> => SubSeq(a, 1, c) = << >>
  <2> HIDE DEF a
  <2> QED BY <1>1, <1>2, <1>3
<1> QED BY <1>1, <1>2, <1>4 DEF Objs

\* Around the values are the objects of their keys.
LEMMA AroundDedot ==
  ASSUME NEW V, NEW fields \in FieldsOf(V), NEW w, w = Written(fields), NEW json, json = IterJSONDedot(fields)
  PROVE  Around(json) = [n \in 0 .. Len(w) |-> Objs(KeyAt(w, n))]
<1> DEFINE N == Len(w)
           a == [n \in 0 .. N |-> Objs(KeyAt(w, n))]
<1>1. /\ N \in Nat /\ Len(json.reports) = N
      /\ \A n \in 0 .. N : KeyAt(w, n) \in Keys
      /\ \A n \in 1 .. N : w[n].key = KeyAt(w, n)
      /\ \A n \in 1 .. N : \E q : IsReport(json.reports[n], KeyAt(w, n - 1), w[n], q)
  BY IterJSONDedotReports
<1> HIDE DEF N
<1>2. a[0] = << >>
  <2>1. << >> \in Keys
    BY DEF Keys
  <2>2. a[0] = Objs(<< >>)
    BY <1>1 DEF KeyAt
  <2> QED BY <2>1, <2>2, ObjsType
<1>3. ASSUME NEW n \in 1 .. N
      PROVE  a[n] = SubSeq(a[n - 1], 1, Len(a[n - 1]) - json.reports[n].closed) \o json.reports[n].opened
  <2>1. n \in 0 .. N /\ n - 1 \in 0 .. N
    BY <1>1
  <2>2. PICK q : IsReport(json.reports[n], KeyAt(w, n - 1), w[n], q)
    BY <1>1
  <2>3. KeyAt(w, n - 1) \in Keys /\ w[n].key \in Keys /\ w[n].key = KeyAt(w, n)
    BY <1>1, <2>1
  <2> DEFINE k == KeyAt(w, n - 1)
             r == json.reports[n]
             f == w[n]
  <2>4. Follows(Objs(f.key), Objs(k), r)
    <3>1. k \in Keys /\ f.key \in Keys /\ IsReport(r, k, f, q)
      BY <2>2, <2>3
    <3> HIDE DEF k, r, f
    <3> QED BY ONLY <3>1, ObjsOfNext
  <2>5. a[n] = Objs(w[n].key) /\ a[n - 1] = Objs(k)
    BY <2>1, <2>3
  <2> HIDE DEF a
  <2> QED BY <2>4, <2>5 DEF Follows
<1>4. a = [n \in 0 .. N |-> a[n]]
  OBVIOUS
<1> HIDE DEF a
<1>5. Around(json) = a
  BY ONLY <1>1, <1>2, <1>3, <1>4, AroundIs
<1> QED BY <1>5 DEF a, N

\* The values are under the names of their keys, and all objects are closed.
LEMMA LeavesDedot ==
  ASSUME NEW V, NEW fields \in FieldsOf(V), NEW w, w = Written(fields), NEW json, json = IterJSONDedot(fields)
  PROVE  /\ Leaves(json) = [n \in 1 .. Len(w) |-> [path |-> Names(w[n].key), value |-> w[n].value]]
         /\ WellFormed(json)
<1> DEFINE N == Len(w)
           a == Around(json)
<1>1. /\ N \in Nat /\ Len(json.reports) = N /\ DOMAIN json.reports = 1 .. N
      /\ \A n \in 0 .. N : KeyAt(w, n) \in Keys
      /\ \A n \in 1 .. N : w[n].key = KeyAt(w, n)
      /\ \A n \in 1 .. N : \E q : IsReport(json.reports[n], KeyAt(w, n - 1), w[n], q)
      /\ json.closed = Depth(KeyAt(w, N))
  BY IterJSONDedotReports
<1>2. \A n \in 0 .. N : a[n] = Objs(KeyAt(w, n))
  BY AroundDedot
<1> HIDE DEF N, a
<1>3. ASSUME NEW n \in 1 .. N
      PROVE  /\ Append(a[n], json.reports[n].name) = Names(w[n].key) /\ json.reports[n].value = w[n].value
             /\ json.reports[n].closed <= Len(a[n - 1])
  <2>1. n \in 0 .. N /\ n - 1 \in 0 .. N
    BY <1>1
  <2>2. PICK q : IsReport(json.reports[n], KeyAt(w, n - 1), w[n], q)
    BY <1>1
  <2>3. KeyAt(w, n - 1) \in Keys /\ w[n].key \in Keys /\ w[n].key = KeyAt(w, n)
    BY <1>1, <2>1
  <2> DEFINE k == KeyAt(w, n - 1)
             r == json.reports[n]
  <2>4. /\ Len(Objs(k)) = Depth(k) /\ r.closed <= Depth(k)
        /\ Append(Objs(w[n].key), r.name) = Names(w[n].key) /\ r.value = w[n].value
    <3> HIDE DEF k, r
    <3> QED BY <2>2, <2>3, ObjsOfNext DEF k, r
  <2> QED BY <1>2, <2>1, <2>3, <2>4
<1>4. Leaves(json) = [n \in 1 .. N |-> [path |-> Names(w[n].key), value |-> w[n].value]]
  <2>1. Leaves(json) = [n \in 1 .. N |-> [path |-> Append(a[n], json.reports[n].name), value |-> json.reports[n].value]]
    BY <1>1 DEF Leaves, a
  <2>2. [n \in 1 .. N |-> [path |-> Append(a[n], json.reports[n].name), value |-> json.reports[n].value]] =
        [n \in 1 .. N |-> [path |-> Names(w[n].key), value |-> w[n].value]]
    BY <1>3
  <2> QED BY <2>1, <2>2
<1>5. WellFormed(json)
  <2>1. N \in 0 .. N /\ json.closed = Len(a[N])
    <3>1. N \in 0 .. N
      BY <1>1
    <3> QED BY <1>1, <1>2, <3>1, ObjsType
  <2> QED BY <1>1, <1>3, <2>1 DEF WellFormed, a
<1> QED BY <1>4, <1>5 DEF N

\* The full name of one name is that name.
LEMMA FullNameOfOne ==
  ASSUME NEW key \in Keys
  PROVE  FullName(<<key>>) = key
<1>1. << >> \in Keys /\ <<key>> \in Seq(Keys) /\ Len(<<key>>) = 1 /\ <<key>>[1] = key
  BY DEF Keys
<1>2. PICK h \in [0 .. Len(<<key>>) -> Keys] :
        /\ h[0] = << >> /\ h[Len(<<key>>)] = FullKey(<< >>, <<key>>)
        /\ \A n \in 1 .. Len(<<key>>) : h[n] = FlattenKey(h[n - 1], <<key>>[n])
  BY <1>1, FullKeySteps
<1>3. h[1] = FullKey(<< >>, <<key>>) /\ h[1] = FlattenKey(h[0], key)
  <2>1. 1 \in 1 .. Len(<<key>>) /\ 1 - 1 = 0
    BY <1>1
  <2> QED BY <1>1, <1>2, <2>1
<1> QED BY <1>2, <1>3 DEF FullName, FlattenKey

\* Elasticsearch finds the fields that were written, if no name starts with the separator.
LEMMA LeafFieldsDedot ==
  ASSUME NEW V, NEW fields \in FieldsOf(V), NEW w, w = Written(fields), NEW json, json = IterJSONDedot(fields),
         \A n \in DOMAIN w : w[n].key # << >> => w[n].key[1] # "."
  PROVE  LeafFields(json) = w
<1> DEFINE leaves == Leaves(json)
<1>1. /\ Len(w) \in Nat /\ DOMAIN w = 1 .. Len(w) /\ w \in FieldsOf(V)
      /\ \A n \in DOMAIN w : w[n] \in [key : Keys, value : V] /\ w[n].key \in Keys
  BY WrittenType, FieldsType
<1>2. leaves = [n \in 1 .. Len(w) |-> [path |-> Names(w[n].key), value |-> w[n].value]]
  BY LeavesDedot
<1>3. LeafFields(json) = [n \in DOMAIN leaves |-> [key |-> FullName(leaves[n].path), value |-> leaves[n].value]]
  BY DEF LeafFields
<1> HIDE DEF leaves
<1>4. DOMAIN leaves = DOMAIN w
  BY <1>1, <1>2
<1>5. ASSUME NEW n \in DOMAIN w PROVE [key |-> FullName(leaves[n].path), value |-> leaves[n].value] = w[n]
  <2>1. leaves[n].path = Names(w[n].key) /\ leaves[n].value = w[n].value
    BY <1>1, <1>2
  <2>2. FullName(Names(w[n].key)) = w[n].key
    BY <1>1, NamesMakeKey
  <2> QED BY <1>1, <2>1, <2>2
<1>6. LeafFields(json) = [n \in DOMAIN w |-> w[n]]
  BY <1>3, <1>4, <1>5
<1>7. w = [n \in DOMAIN w |-> w[n]]
  BY <1>1 DEF FieldsOf
<1> QED BY <1>6, <1>7

\* Written flat, the values are under their keys, and no objects are opened.
LEMMA LeavesFlat ==
  ASSUME NEW V, NEW fields \in FieldsOf(V), NEW w, w = Written(fields), NEW json, json = IterJSONFlat(fields)
  PROVE  /\ Around(json) = [n \in 0 .. Len(w) |-> << >>]
         /\ Leaves(json) = [n \in 1 .. Len(w) |-> [path |-> <<w[n].key>>, value |-> w[n].value]]
         /\ LeafFields(json) = w /\ IsWellNested(json)
<1> DEFINE N == Len(w)
           reports == [n \in DOMAIN w |-> Report(0, << >>, w[n].key, w[n].value)]
           a == [n \in 0 .. N |-> << >>]
<1>1. /\ N \in Nat /\ DOMAIN w = 1 .. N /\ w \in FieldsOf(V)
      /\ \A n \in DOMAIN w : w[n] \in [key : Keys, value : V] /\ w[n].key \in Keys
  BY WrittenType, FieldsType
<1>2. json.reports = reports /\ json.closed = 0
  BY DEF IterJSONFlat, Json
<1>3. Len(reports) = N /\ DOMAIN reports = 1 .. N
  <2>1. reports = [n \in 1 .. N |-> reports[n]]
    BY <1>1
  <2> HIDE DEF reports
  <2> QED BY <1>1, <2>1, FirstToLast
<1>4. \A n \in 1 .. N : /\ reports[n].closed = 0 /\ reports[n].opened = << >>
                        /\ reports[n].name = w[n].key /\ reports[n].value = w[n].value
  BY <1>1, SMTT(30) DEF Report
<1> HIDE DEF reports, N
<1>5. Around(json) = a
  <2>1. a[0] = << >> /\ a = [n \in 0 .. N |-> a[n]]
    BY <1>1
  <2>2. ASSUME NEW n \in 1 .. N
        PROVE  a[n] = SubSeq(a[n - 1], 1, Len(a[n - 1]) - json.reports[n].closed) \o json.reports[n].opened
    <3>1. a[n] = << >> /\ a[n - 1] = << >>
      <4>1. n \in 0 .. N /\ n - 1 \in 0 .. N
        BY <1>1
      <4> QED BY <4>1
    <3>2. SubSeq(<< >>, 1, Len(<< >>) - 0) \o << >> = << >>
      OBVIOUS
    <3> QED BY <1>2, <1>4, <3>1, <3>2
  <2>3. Len(json.reports) = N
    BY <1>2, <1>3
  <2> HIDE DEF a
  <2> QED BY ONLY <1>1, <2>1, <2>2, <2>3, AroundIs
<1>6. Leaves(json) = [n \in 1 .. N |-> [path |-> <<w[n].key>>, value |-> w[n].value]]
  <2>1. Leaves(json) = [n \in 1 .. N |-> [path |-> Append(a[n], reports[n].name), value |-> reports[n].value]]
    BY <1>2, <1>3, <1>5 DEF Leaves
  <2>2. ASSUME NEW n \in 1 .. N PROVE Append(a[n], reports[n].name) = <<w[n].key>> /\ reports[n].value = w[n].value
    <3>1. n \in 0 .. N
      BY <1>1
    <3>2. Append(<< >>, w[n].key) = <<w[n].key>>
      OBVIOUS
    <3> QED BY <1>4, <3>1, <3>2
  <2>3. [n \in 1 .. N |-> [path |-> Append(a[n], reports[n].name), value |-> reports[n].value]] =
        [n \in 1 .. N |-> [path |-> <<w[n].key>>, value |-> w[n].value]]
    BY <2>2
  <2> QED BY <2>1, <2>3
<1>7. LeafFields(json) = w
  <2> DEFINE leaves == Leaves(json)
  <2>1. LeafFields(json) = [n \in DOMAIN leaves |-> [key |-> FullName(leaves[n].path), value |-> leaves[n].value]]
    BY DEF LeafFields
  <2>2. DOMAIN leaves = DOMAIN w
    BY <1>1, <1>6
  <2>3. ASSUME NEW n \in DOMAIN w PROVE [key |-> FullName(leaves[n].path), value |-> leaves[n].value] = w[n]
    <3>1. leaves[n].path = <<w[n].key>> /\ leaves[n].value = w[n].value
      BY <1>1, <1>6
    <3>2. FullName(<<w[n].key>>) = w[n].key
      BY <1>1, FullNameOfOne
    <3> HIDE DEF leaves
    <3> QED BY <1>1, <3>1, <3>2
  <2> HIDE DEF leaves
  <2>4. LeafFields(json) = [n \in DOMAIN w |-> w[n]]
    BY <2>1, <2>2, <2>3
  <2>5. w = [n \in DOMAIN w |-> w[n]]
    BY <1>1 DEF FieldsOf
  <2> QED BY <2>4, <2>5
<1>8. WellFormed(json)
  <2>1. \A n \in 1 .. N : n - 1 \in 0 .. N
    BY <1>1
  <2>2. N \in 0 .. N /\ \A n \in 0 .. N : Len(a[n]) = 0
    BY <1>1
  <2> HIDE DEF a
  <2> QED BY <1>2, <1>3, <1>4, <1>5, <2>1, <2>2 DEF WellFormed
<1>9. \A n \in DOMAIN json.reports : OpenedAt(json, n) = {}
  <2> SUFFICES ASSUME NEW n \in DOMAIN json.reports PROVE OpenedAt(json, n) = {}
    OBVIOUS
  <2>1. a[n] = << >> /\ Len(reports[n].opened) = 0
    <3>1. n \in 0 .. N /\ n \in 1 .. N
      BY <1>1, <1>2, <1>3
    <3> QED BY <1>4, <3>1
  <2>2. OpenedAt(json, n) = {SubSeq(<< >>, 1, m) : m \in Len(<< >>) - 0 + 1 .. Len(<< >>)}
    <3> HIDE DEF a
    <3> QED BY <1>2, <1>5, <2>1 DEF OpenedAt
  <2>3. Len(<< >>) - 0 + 1 .. Len(<< >>) = {}
    OBVIOUS
  <2> QED BY <2>2, <2>3
<1> QED BY <1>5, <1>6, <1>7, <1>8, <1>9 DEF IsWellNested, N

\* A key between two others is alike with them as far as they are.
LEMMA AlikeBetween ==
  ASSUME NEW k \in Keys, NEW x \in Keys, NEW l \in Keys, NEW e \in Nat, Alike(k, l, e),
         Less(k, x) \/ k = x, Less(x, l) \/ x = l
  PROVE  Alike(k, x, e)
<1>1. Len(k) \in Nat /\ Len(l) \in Nat /\ Len(x) \in Nat /\ e <= Len(k) /\ e <= Len(l) /\ \A i \in 1 .. e : k[i] = l[i]
  BY DEF Keys, Alike
<1>2. \A y \in Keys : \A i \in 1 .. Len(y) : Rank[y[i]] \in Nat
  <2>1. \A y \in Keys : \A i \in 1 .. Len(y) : y[i] \in DOMAIN Rank
    BY DEF Keys
  <2> QED BY <2>1, RankAssumption DEF RankAssumption
<1>3. CASE k = x
  BY <1>1, <1>3 DEF Alike
<1>4. CASE x = l
  BY <1>4
<1>5. CASE Less(k, x) /\ Less(x, l)
  <2>1. PICK n \in Nat : Alike(k, x, n) /\ n < Len(x) /\ (n = Len(k) \/ Rank[k[n + 1]] < Rank[x[n + 1]])
    BY <1>5, LessAtDifference
  <2>2. PICK m \in Nat : Alike(x, l, m) /\ m < Len(l) /\ (m = Len(x) \/ Rank[x[m + 1]] < Rank[l[m + 1]])
    BY <1>5, LessAtDifference
  <2>3. CASE e <= n
    <3>1. \A i \in 1 .. e : i \in 1 .. n
      BY <2>3
    <3>2. e <= Len(x)
      BY <1>1, <2>1, <2>3
    <3> QED BY <1>1, <2>1, <3>1, <3>2 DEF Alike
  <2>4. CASE n < e
    <3>1. n + 1 \in 1 .. e /\ n # Len(k) /\ n + 1 \in 1 .. Len(x) /\ n + 1 \in 1 .. Len(l)
      BY <1>1, <2>1, <2>4
    <3>2. Rank[l[n + 1]] < Rank[x[n + 1]] /\ Rank[l[n + 1]] \in Nat /\ Rank[x[n + 1]] \in Nat
      BY <1>1, <1>2, <2>1, <3>1
    <3>3. CASE m < n
      <4>1. m + 1 \in 1 .. n /\ m + 1 \in 1 .. e /\ m # Len(x) /\ m + 1 \in 1 .. Len(x)
        BY <1>1, <2>1, <2>4, <3>3
      <4>2. x[m + 1] = l[m + 1] /\ Rank[x[m + 1]] \in Nat
        BY <1>1, <1>2, <2>1, <4>1 DEF Alike
      <4>3. Rank[x[m + 1]] < Rank[l[m + 1]]
        BY <2>2, <4>1
      <4> QED BY <4>2, <4>3
    <3>4. CASE m = n
      BY <1>1, <2>1, <2>2, <3>2, <3>4
    <3>5. CASE n < m
      <4>1. n + 1 \in 1 .. m
        BY <3>5
      <4>2. x[n + 1] = l[n + 1]
        BY <2>2, <4>1 DEF Alike
      <4> QED BY <3>2, <4>2
    <3> QED BY <3>3, <3>4, <3>5
  <2> QED BY <2>3, <2>4
<1> QED BY <1>3, <1>4, <1>5

\* A field opens those of its objects that the one before is not in.
OpensNewOnes(json, w, n) ==
  \E q : /\ IsReport(json.reports[n], KeyAt(w, n - 1), w[n], q)
         /\ \A path \in OpenedAt(json, n) : \E m \in q + 1 .. Depth(w[n].key) : path = SubSeq(Objs(w[n].key), 1, m)

\* The n-th field of a dedotted document does.
LEMMA OpenedDedot ==
  ASSUME NEW V, NEW fields \in FieldsOf(V), NEW w, w = Written(fields), NEW json, json = IterJSONDedot(fields),
         NEW n \in 1 .. Len(w)
  PROVE  OpensNewOnes(json, w, n)
<1>1. /\ Len(w) \in Nat
      /\ \A m \in 0 .. Len(w) : KeyAt(w, m) \in Keys
      /\ w[n].key = KeyAt(w, n)
      /\ \E q : IsReport(json.reports[n], KeyAt(w, n - 1), w[n], q)
  BY IterJSONDedotReports
<1>2. PICK q : IsReport(json.reports[n], KeyAt(w, n - 1), w[n], q)
  BY <1>1
<1> DEFINE k == KeyAt(w, n - 1)
           r == json.reports[n]
           f == w[n]
           path == Around(json)[n]
<1>3. n \in 0 .. Len(w) /\ n - 1 \in 0 .. Len(w)
  BY <1>1
<1>4. k \in Keys /\ f.key \in Keys /\ IsReport(r, k, f, q)
  BY <1>1, <1>2, <1>3
<1>5. path = Objs(f.key)
  BY <1>1, <1>3, AroundDedot
<1>6. Len(r.opened) = Depth(f.key) - q
  <2> HIDE DEF k, r, f
  <2> QED BY ONLY <1>4, ObjsOfNext
<1>7. Len(path) = Depth(f.key) /\ Depth(f.key) \in Nat /\ q \in Nat
  BY <1>4, <1>5, ObjsType DEF IsReport
<1>8. OpenedAt(json, n) = {SubSeq(path, 1, m) : m \in Len(path) - Len(r.opened) + 1 .. Len(path)}
  BY DEF OpenedAt
<1>9. Len(path) - Len(r.opened) + 1 = q + 1
  <2> HIDE DEF path, r, f
  <2> QED BY <1>6, <1>7
<1>10. \A y \in OpenedAt(json, n) : \E m \in q + 1 .. Depth(f.key) : y = SubSeq(Objs(f.key), 1, m)
  BY <1>5, <1>7, <1>8, <1>9
<1> QED BY <1>2, <1>10 DEF OpensNewOnes

\* So none is opened twice, if the fields are in order.
LEMMA OpenedOnce ==
  ASSUME NEW V, NEW fields \in FieldsOf(V), NEW json, json = IterJSONDedot(fields),
         \A i, j \in DOMAIN fields : i < j => Less(fields[i].key, fields[j].key) \/ fields[i].key = fields[j].key
  PROVE  IsWellNested(json)
<1> DEFINE w == Written(fields)
<1>1. /\ Len(w) \in Nat /\ DOMAIN w = 1 .. Len(w) /\ DOMAIN json.reports = 1 .. Len(w)
      /\ \A n \in 1 .. Len(w) : w[n].key = KeyAt(w, n) /\ KeyAt(w, n) \in Keys
  <2>1. /\ Len(w) \in Nat /\ DOMAIN w = 1 .. Len(w) /\ DOMAIN json.reports = 1 .. Len(w)
        /\ \A n \in 0 .. Len(w) : KeyAt(w, n) \in Keys
        /\ \A n \in 1 .. Len(w) : w[n].key = KeyAt(w, n)
    BY IterJSONDedotReports
  <2>2. \A n \in 1 .. Len(w) : n \in 0 .. Len(w)
    BY <2>1
  <2> QED BY <2>1, <2>2
<1>2. WellFormed(json)
  BY LeavesDedot
<1>3. \A m, n \in 1 .. Len(w) : m < n => Less(w[m].key, w[n].key) \/ w[m].key = w[n].key
  <2>1. \A m, n \in DOMAIN w : m < n => \E i, j \in DOMAIN fields : i < j /\ w[m] = fields[i] /\ w[n] = fields[j]
    BY WrittenType
  <2> QED BY <1>1, <2>1
<1>4. \A n \in 1 .. Len(w) : OpensNewOnes(json, w, n)
  BY OpenedDedot
<1> HIDE DEF w
<1>5. ASSUME NEW i \in 1 .. Len(w), NEW j \in 1 .. Len(w), i < j, NEW path \in OpenedAt(json, i), path \in OpenedAt(json, j)
      PROVE  FALSE
  <2> DEFINE k == w[i].key
             l == w[j].key
             x == w[j - 1].key
  <2>1. PICK p : /\ IsReport(json.reports[i], KeyAt(w, i - 1), w[i], p)
                 /\ \A y \in OpenedAt(json, i) : \E m \in p + 1 .. Depth(w[i].key) : y = SubSeq(Objs(w[i].key), 1, m)
    BY <1>4 DEF OpensNewOnes
  <2>2. PICK q : /\ IsReport(json.reports[j], KeyAt(w, j - 1), w[j], q)
                 /\ \A y \in OpenedAt(json, j) : \E m \in q + 1 .. Depth(w[j].key) : y = SubSeq(Objs(w[j].key), 1, m)
    BY <1>4 DEF OpensNewOnes
  <2>3. PICK a \in p + 1 .. Depth(k) : path = SubSeq(Objs(k), 1, a)
    BY <1>5, <2>1
  <2>4. PICK b \in q + 1 .. Depth(l) : path = SubSeq(Objs(l), 1, b)
    BY <1>5, <2>2
  <2>5. j - 1 \in 1 .. Len(w) /\ j - 1 # 0 /\ j - 1 < j /\ (i = j - 1 \/ i < j - 1)
    BY <1>1, <1>5
  <2>6. k \in Keys /\ l \in Keys /\ x \in Keys /\ KeyAt(w, j - 1) = x
    BY <1>1, <2>5
  <2>7. p \in Nat /\ q \in Nat /\ \A e \in ObjectEnds(x) : Alike(x, l, e) => Level(l, e) <= q
    BY <2>1, <2>2, <2>6 DEF IsReport
  <2>8. (Less(k, x) \/ k = x) /\ (Less(x, l) \/ x = l)
    BY <1>3, <2>5
  <2> HIDE DEF k, l, x
  <2>9. /\ Objs(k) \in Seq(Keys) /\ Len(Objs(k)) = Depth(k) /\ Depth(k) \in Nat
        /\ \A n \in 1 .. Depth(k) : Objs(k)[n] = Names(k)[n]
    BY <2>6, ObjsType
  <2>10. /\ Objs(l) \in Seq(Keys) /\ Len(Objs(l)) = Depth(l) /\ Depth(l) \in Nat
         /\ \A n \in 1 .. Depth(l) : Objs(l)[n] = Names(l)[n]
    BY <2>6, ObjsType
  <2>11. a \in Nat /\ a > 0 /\ a <= Depth(k) /\ b \in Nat /\ b > q /\ b <= Depth(l)
    BY <2>3, <2>4, <2>7, <2>9, <2>10
  <2> DEFINE s == Objs(k)
             t == Objs(l)
  <2>12. Len(SubSeq(s, 1, a)) = a /\ \A n \in 1 .. a : SubSeq(s, 1, a)[n] = s[n]
    <3>1. s \in Seq(Keys) /\ a \in Nat /\ a <= Len(s) /\ 1 <= a + 1
      BY <2>9, <2>11
    <3> HIDE DEF s
    <3> QED BY ONLY <3>1, SubSeqProperties, ElementOfSeq
  <2>13. Len(SubSeq(t, 1, b)) = b /\ \A n \in 1 .. b : SubSeq(t, 1, b)[n] = t[n]
    <3>1. t \in Seq(Keys) /\ b \in Nat /\ b <= Len(t) /\ 1 <= b + 1
      BY <2>10, <2>11, <2>7
    <3> HIDE DEF t
    <3> QED BY ONLY <3>1, SubSeqProperties, ElementOfSeq
  <2>14. a = b /\ \A n \in 1 .. a : s[n] = t[n]
    BY <2>3, <2>4, <2>12, <2>13
  <2>15. \A n \in 1 .. a : Names(k)[n] = Names(l)[n]
    <3>1. \A n \in 1 .. a : n \in 1 .. Depth(k) /\ n \in 1 .. Depth(l)
      BY <2>9, <2>10, <2>11, <2>14
    <3> QED BY <2>9, <2>10, <2>14, <3>1
  <2> DEFINE e == Cuts(k)[a + 1]
  <2>16. Cuts(l)[a + 1] = e /\ Alike(k, l, e)
    BY <2>6, <2>11, <2>14, <2>15, NamesDetermine
  <2>17. e \in 1 .. Len(k) /\ k[e] = "."
    <3>1. a + 1 \in 2 .. Depth(k) + 1
      BY <2>9, <2>11
    <3> QED BY <2>6, <3>1, CutsType
  <2>18. Level(l, e) = a
    <3>1. a + 1 \in 1 .. Depth(l) + 1 /\ (a + 1) - 1 = a
      BY <2>10, <2>11, <2>14
    <3>2. Level(l, Cuts(l)[a + 1]) = (a + 1) - 1
      BY <2>6, <3>1, CutsType
    <3> QED BY <2>16, <3>1, <3>2
  <2> HIDE DEF e
  <2>19. e \in Nat /\ e \in 1 .. e
    BY <2>17
  <2>20. Alike(k, x, e)
    BY <2>6, <2>8, <2>16, <2>19, AlikeBetween
  <2>21. Alike(x, l, e)
    BY <2>16, <2>20 DEF Alike
  <2>22. e \in ObjectEnds(x)
    <3>1. x[e] = "." /\ e <= Len(x)
      BY <2>17, <2>19, <2>20 DEF Alike
    <3>2. e \in 1 .. Len(x) /\ DOMAIN x = 1 .. Len(x)
      BY <2>6, <2>17, <3>1 DEF Keys
    <3> QED BY <3>1, <3>2 DEF ObjectEnds
  <2>23. a <= q
    BY <2>7, <2>18, <2>21, <2>22
  <2> QED BY <2>7, <2>11, <2>14, <2>23
<1>6. \A m, n \in DOMAIN json.reports : m # n => OpenedAt(json, m) \cap OpenedAt(json, n) = {}
  <2> SUFFICES ASSUME NEW m \in 1 .. Len(w), NEW n \in 1 .. Len(w), m # n, NEW path \in OpenedAt(json, m),
                      path \in OpenedAt(json, n)
               PROVE  FALSE
    BY <1>1
  <2>1. m < n \/ n < m
    BY <1>1
  <2> QED BY <1>5, <2>1
<1> QED BY <1>2, <1>6 DEF IsWellNested

\* An empty document is well nested, and has no fields.
LEMMA EmptyJsonType == IsWellNested(EmptyJson) /\ LeafFields(EmptyJson) = << >>
<1> DEFINE a == [n \in 0 .. 0 |-> << >>]
<1>1. EmptyJson.reports = << >> /\ EmptyJson.closed = 0
  BY DEF EmptyJson, Json
<1>2. Around(EmptyJson) = a
  <2>1. 0 \in Nat /\ Len(EmptyJson.reports) = 0 /\ a = [n \in 0 .. 0 |-> a[n]] /\ a[0] = << >>
    BY <1>1
  <2>2. \A n \in 1 .. 0 : a[n] = SubSeq(a[n - 1], 1, Len(a[n - 1]) - EmptyJson.reports[n].closed) \o EmptyJson.reports[n].opened
    OBVIOUS
  <2> HIDE DEF a
  <2> QED BY ONLY <2>1, <2>2, AroundIs, ZenonT(40)
<1>3. DOMAIN EmptyJson.reports = {} /\ Len(EmptyJson.reports) = 0
  BY <1>1
<1>4. IsWellNested(EmptyJson)
  <2>1. WellFormed(EmptyJson)
    <3>1. Len(a[0]) = 0
      OBVIOUS
    <3> HIDE DEF a
    <3> QED BY <1>1, <1>2, <1>3, <3>1 DEF WellFormed
  <2> QED BY <1>3, <2>1 DEF IsWellNested
<1>5. LeafFields(EmptyJson) = << >>
  <2>1. Leaves(EmptyJson) = << >>
    BY <1>3 DEF Leaves
  <2> QED BY <2>1 DEF LeafFields
<1> QED BY <1>4, <1>5

-----------------------------------------------------------------------------
(* The fields of a record.                                                  *)

\* The values of fields: an empty array is one.
FieldValues == Values \cup {Nil}

\* No value is a marker.
LEMMA FieldValuesType ==
  /\ Ignored \notin FieldValues /\ Null \notin FieldValues /\ Nil \notin Values /\ Nil \in FieldValues
  /\ Values \subseteq FieldValues
BY StoreAssumption DEF StoreAssumption, FieldValues, Ignored, Nil, Null

\* The fields of the attributes that have a value, below a path.
LeavesOf(attributes)    == ElementsAt(attributes, {i \in DOMAIN attributes : attributes[i].value # Null})
Below(path, attributes) ==
  [i \in DOMAIN LeavesOf(attributes) |->
     [key |-> FullKey(path, LeavesOf(attributes)[i].names), value |-> LeavesOf(attributes)[i].value]]

\* The attributes that have a value are leaves.
LEMMA LeavesOfType ==
  ASSUME NEW attributes \in Seq(LeafType)
  PROVE  /\ Len(LeavesOf(attributes)) \in Nat /\ DOMAIN LeavesOf(attributes) = 1 .. Len(LeavesOf(attributes))
         /\ \A i \in DOMAIN LeavesOf(attributes) :
              /\ LeavesOf(attributes)[i].names \in Seq(Keys) /\ LeavesOf(attributes)[i].value \in FieldValues
              /\ \E j \in DOMAIN attributes : LeavesOf(attributes)[i] = attributes[j]
         /\ \A j \in DOMAIN attributes : attributes[j].value # Null =>
              \E i \in DOMAIN LeavesOf(attributes) : LeavesOf(attributes)[i] = attributes[j]
<1> DEFINE P == {i \in DOMAIN attributes : attributes[i].value # Null}
           leaves == ElementsAt(attributes, P)
           C == Cardinality(P)
<1>1. P \in SUBSET DOMAIN attributes /\ \A i : i \in P <=> i \in DOMAIN attributes /\ attributes[i].value # Null
  OBVIOUS
<1>2. LeavesOf(attributes) = leaves
  BY DEF LeavesOf
<1> HIDE DEF P
<1>3. /\ C \in Nat /\ Len(leaves) = C /\ DOMAIN leaves = 1 .. C
      /\ \A n \in 1 .. C : InOrder(P)[n] \in P /\ leaves[n] = attributes[InOrder(P)[n]]
      /\ \A i \in P : \E n \in 1 .. C : InOrder(P)[n] = i /\ leaves[n] = attributes[i]
  BY ONLY <1>1, ElementsAtType, attributes \in Seq(LeafType)
<1> HIDE DEF leaves, C
<1>4. \A j \in DOMAIN attributes : attributes[j] \in LeafType
  OBVIOUS
<1>5. ASSUME NEW i \in 1 .. C
      PROVE  /\ leaves[i].names \in Seq(Keys) /\ leaves[i].value \in FieldValues
             /\ \E j \in DOMAIN attributes : leaves[i] = attributes[j]
  <2>1. PICK j \in DOMAIN attributes : leaves[i] = attributes[j] /\ attributes[j].value # Null
    BY <1>1, <1>3
  <2>2. attributes[j].names \in Seq(Keys) /\ attributes[j].value \in Values \cup {Nil, Null}
    BY <1>4 DEF LeafType
  <2> QED BY <2>1, <2>2 DEF FieldValues
<1>6. \A j \in DOMAIN attributes : attributes[j].value # Null => \E i \in 1 .. C : leaves[i] = attributes[j]
  BY <1>1, <1>3
<1>7. Len(leaves) \in Nat /\ DOMAIN leaves = 1 .. Len(leaves)
  BY <1>3
<1>8. \A i \in DOMAIN leaves : /\ leaves[i].names \in Seq(Keys) /\ leaves[i].value \in FieldValues
                               /\ \E j \in DOMAIN attributes : leaves[i] = attributes[j]
  BY <1>3, <1>5
<1>9. \A j \in DOMAIN attributes : attributes[j].value # Null => \E i \in DOMAIN leaves : leaves[i] = attributes[j]
  BY <1>3, <1>6
<1> QED BY <1>2, <1>7, <1>8, <1>9

\* Each of them gives a field, whose name starts with the path.
LEMMA BelowType ==
  ASSUME NEW path \in Keys, NEW attributes \in Seq(LeafType)
  PROVE  /\ Below(path, attributes) \in FieldsOf(FieldValues)
         /\ DOMAIN Below(path, attributes) = DOMAIN LeavesOf(attributes)
         /\ \A i \in DOMAIN Below(path, attributes) :
              /\ Below(path, attributes)[i].key = FullKey(path, LeavesOf(attributes)[i].names)
              /\ Below(path, attributes)[i].value = LeavesOf(attributes)[i].value
              /\ path # << >> => /\ Below(path, attributes)[i].key # << >>
                                 /\ Below(path, attributes)[i].key[1] = path[1]
<1> DEFINE leaves == LeavesOf(attributes)
           b == Below(path, attributes)
<1>1. /\ Len(leaves) \in Nat /\ DOMAIN leaves = 1 .. Len(leaves)
      /\ \A i \in DOMAIN leaves : leaves[i].names \in Seq(Keys) /\ leaves[i].value \in FieldValues
  BY LeavesOfType
<1>2. b = [i \in DOMAIN leaves |-> [key |-> FullKey(path, leaves[i].names), value |-> leaves[i].value]]
  BY DEF Below
<1> HIDE DEF leaves, b
<1>3. ASSUME NEW i \in DOMAIN leaves
      PROVE  /\ FullKey(path, leaves[i].names) \in Keys
             /\ path # << >> => FullKey(path, leaves[i].names) # << >> /\ FullKey(path, leaves[i].names)[1] = path[1]
  <2> DEFINE names == leaves[i].names
             k == FullKey(path, names)
  <2>1. names \in Seq(Keys)
    BY <1>1
  <2> HIDE DEF names
  <2>2. k \in Keys
    <3>1. PICK h \in [0 .. Len(names) -> Keys] : h[Len(names)] = k
      BY <2>1, FullKeySteps
    <3>2. Len(names) \in 0 .. Len(names)
      BY <2>1
    <3> QED BY <3>1, <3>2
  <2>3. ASSUME path # << >> PROVE k # << >> /\ k[1] = path[1]
    <3>1. Len(path) <= Len(k) /\ \A n \in 1 .. Len(path) : k[n] = path[n]
      BY <2>1, <2>3, FullKeyStarts
    <3>2. Len(path) \in Nat /\ Len(path) # 0
      BY <2>3 DEF Keys
    <3> HIDE DEF k
    <3>3. 1 \in 1 .. Len(path)
      BY <3>2
    <3>4. Len(k) # 0
      BY <2>2, <3>1, <3>2 DEF Keys
    <3> QED BY <3>1, <3>3, <3>4
  <2> QED BY <2>2, <2>3 DEF names
<1>4. \A i \in DOMAIN leaves : b[i] \in [key : Keys, value : FieldValues]
  BY <1>1, <1>2, <1>3
<1>5. b \in FieldsOf(FieldValues)
  <2>1. b \in [1 .. Len(leaves) -> [key : Keys, value : FieldValues]]
    BY <1>1, <1>2, <1>4
  <2> DEFINE X == [key : Keys, value : FieldValues]
             n == Len(leaves)
  <2>2. n \in Nat /\ b \in [1 .. n -> X]
    BY <1>1, <2>1
  <2> HIDE DEF X, n
  <2>3. b \in Seq(X)
    BY <2>2
  <2> QED BY <2>3 DEF FieldsOf, X
<1> QED BY <1>1, <1>2, <1>3, <1>5 DEF b, leaves

\* Fields that are put one after the other.
LEMMA FieldsConcat ==
  ASSUME NEW V, NEW a \in FieldsOf(V), NEW b \in FieldsOf(V)
  PROVE  /\ a \o b \in FieldsOf(V) /\ Len(a \o b) = Len(a) + Len(b) /\ Len(a) \in Nat /\ Len(b) \in Nat
         /\ \A i \in 1 .. Len(a) : (a \o b)[i] = a[i]
         /\ \A i \in 1 .. Len(b) : (a \o b)[Len(a) + i] = b[i]
<1> DEFINE X == [key : Keys, value : V]
<1>1. a \in Seq(X) /\ b \in Seq(X)
  BY DEF FieldsOf
<1> HIDE DEF X
<1>2. a \o b \in Seq(X) /\ Len(a \o b) = Len(a) + Len(b) /\ Len(a) \in Nat /\ Len(b) \in Nat
  BY ONLY <1>1, ConcatAt
<1>3. \A i \in 1 .. Len(a) : (a \o b)[i] = a[i]
  BY ONLY <1>1, ConcatAt
<1>4. \A i \in 1 .. Len(b) : (a \o b)[Len(a) + i] = b[i]
  BY ONLY <1>1, ConcatAt
<1> QED BY <1>2, <1>3, <1>4 DEF X, FieldsOf

\* A string that is empty, and what AddString does with one.

\* AddString adds a field, unless the string is empty.
LEMMA AddStringIs ==
  ASSUME NEW fields, NEW name, NEW s
  PROVE  AddString(fields, name, s) = IF s = NoText THEN fields ELSE Append(fields, [key |-> <<name>>, value |-> s])
BY Zenon DEF AddString, NoText

\* AddStrings adds one name after the other.
LEMMA AddStringsSteps ==
  ASSUME NEW names \in Seq(DOMAIN Rank), NEW record, \A i \in DOMAIN names : record[names[i]] \in Values \cup {NoText}
  PROVE  \E h \in [0 .. Len(names) -> FieldsOf(FieldValues)] :
           /\ h[0] = << >> /\ h[Len(names)] = AddStrings(names, record)
           /\ \A n \in 1 .. Len(names) : h[n] = AddString(h[n - 1], names[n], record[names[n]])
<1> DEFINE N == Len(names)
           V == FieldsOf(FieldValues)
           g == [x \in (1 .. N) \X V |-> AddString(x[2], names[x[1]], record[names[x[1]]])]
           E(k) == k = [S \in SUBSET (1 .. N) |->
                          IF S = {} THEN << >>
                          ELSE AddString(k[S \ {Max(S)}], names[Max(S)], record[names[Max(S)]])]
           it == CHOOSE k : E(k)
<1>1. N \in Nat /\ DOMAIN names = 1 .. N /\ \A n \in 1 .. N : names[n] \in DOMAIN Rank
  OBVIOUS
<1> HIDE DEF N
<1>2. AddStrings(names, record) = it[1 .. N]
  BY <1>1, Zenon DEF AddStrings, FoldLeft, MapThenFoldSet
<1>3. << >> \in V
  BY DEF FieldsOf
<1>4. g \in [(1 .. N) \X V -> V]
  <2> SUFFICES ASSUME NEW n \in 1 .. N, NEW fields \in V PROVE AddString(fields, names[n], record[names[n]]) \in V
    OBVIOUS
  <2> DEFINE f == [key |-> <<names[n]>>, value |-> record[names[n]]]
  <2>1. names[n] \in DOMAIN Rank /\ record[names[n]] \in Values \cup {NoText}
    BY <1>1
  <2>2. AddString(fields, names[n], record[names[n]]) = IF record[names[n]] = NoText THEN fields ELSE Append(fields, f)
    BY AddStringIs
  <2>3. record[names[n]] # NoText => f \in [key : Keys, value : FieldValues]
    BY <2>1, FieldValuesType DEF Keys
  <2> HIDE DEF f
  <2>4. record[names[n]] # NoText => Append(fields, f) \in V
    BY <2>3 DEF FieldsOf
  <2> QED BY <2>2, <2>4
<1> HIDE DEF V
<1>5. PICK k : IsFold(k, N, V, << >>, g)
  <2> HIDE DEF g
  <2> QED BY <1>1, <1>3, <1>4, FoldExists
<1>6. E(k)
  <2> USE <1>5 DEF IsFold
  <2> SUFFICES ASSUME NEW S \in SUBSET (1 .. N)
               PROVE  k[S] = IF S = {} THEN << >>
                             ELSE AddString(k[S \ {Max(S)}], names[Max(S)], record[names[Max(S)]])
    OBVIOUS
  <2>1. CASE S # {}
    <3>1. Max(S) \in 1 .. N
      BY <1>1, <2>1, GreatestOf
    <3> QED BY <1>5, <2>1, <3>1
  <2> QED BY <1>5, <2>1
<1>7. E(it)
  <2> HIDE DEF E
  <2> QED BY <1>6
<1> HIDE DEF it
<1>8. it[{}] = << >>
  BY <1>7
<1>9. \A n \in 1 .. N : it[1 .. n] = AddString(it[1 .. n - 1], names[n], record[names[n]])
  <2> SUFFICES ASSUME NEW n \in 1 .. N PROVE it[1 .. n] = AddString(it[1 .. n - 1], names[n], record[names[n]])
    OBVIOUS
  <2>1. 1 .. n # {} /\ Max(1 .. n) = n /\ (1 .. n) \ {Max(1 .. n)} = 1 .. n - 1
    <3>1. n \in Nat \ {0}
      BY <1>1
    <3> QED BY ONLY <3>1, FirstPositions
  <2>2. 1 .. n \in SUBSET (1 .. N)
    BY <1>1
  <2> QED BY <1>7, <2>1, <2>2
<1>10. /\ \A n \in 1 .. N : \A v \in V : g[<<n, v>>] = AddString(v, names[n], record[names[n]])
       /\ \A n \in 1 .. N : it[1 .. n] = g[<<n, it[1 .. n - 1]>>] \/ it[1 .. n - 1] \notin V
  BY <1>9
<1> HIDE DEF g
<1>11. PICK h : IsHistory(h, N, V, << >>, it[1 .. N], g)
  BY <1>1, <1>3, <1>4, <1>8, <1>10, FoldSteps
<1>12. /\ h \in [0 .. N -> V] /\ h[0] = << >> /\ h[N] = it[1 .. N]
       /\ \A n \in 1 .. N : h[n] = AddString(h[n - 1], names[n], record[names[n]])
  <2>1. /\ h \in [0 .. N -> V] /\ h[0] = << >> /\ h[N] = it[1 .. N]
        /\ \A n \in 1 .. N : h[n] = g[<<n, h[n - 1]>>]
    BY <1>11 DEF IsHistory
  <2>2. \A n \in 1 .. N : h[n - 1] \in V
    BY <1>1, <2>1
  <2> QED BY <1>10, <2>1, <2>2
<1> QED BY <1>2, <1>12 DEF N, V

\* Of the strings, those that are not empty get a field each.
LEMMA AddStringsType ==
  ASSUME NEW names \in Seq(DOMAIN Rank), NEW record, \A i \in DOMAIN names : record[names[i]] \in Values \cup {NoText}
  PROVE  /\ AddStrings(names, record) \in FieldsOf(FieldValues)
         /\ \A i \in DOMAIN AddStrings(names, record) : \E m \in DOMAIN names :
              /\ AddStrings(names, record)[i].key = <<names[m]>>
              /\ AddStrings(names, record)[i].value = record[names[m]]
              /\ record[names[m]] # NoText
         /\ \A m \in DOMAIN names : record[names[m]] # NoText =>
              \E i \in DOMAIN AddStrings(names, record) : AddStrings(names, record)[i].key = <<names[m]>>
<1> DEFINE N == Len(names)
           V == FieldsOf(FieldValues)
<1>1. PICK h \in [0 .. N -> V] :
        /\ h[0] = << >> /\ h[N] = AddStrings(names, record)
        /\ \A n \in 1 .. N : h[n] = AddString(h[n - 1], names[n], record[names[n]])
  BY AddStringsSteps
<1>2. N \in Nat /\ DOMAIN names = 1 .. N /\ \A n \in 1 .. N : record[names[n]] \in Values \cup {NoText} /\ names[n] \in DOMAIN Rank
  OBVIOUS
<1> HIDE DEF N, V
<1> DEFINE From(f, n) == \E m \in 1 .. n : /\ f.key = <<names[m]>> /\ f.value = record[names[m]]
                                           /\ record[names[m]] # NoText
           Good == {n \in 0 .. N : /\ \A i \in DOMAIN h[n] : From(h[n][i], n)
                                   /\ \A m \in 1 .. n : record[names[m]] # NoText =>
                                        \E i \in DOMAIN h[n] : h[n][i].key = <<names[m]>>}
<1>3. 0 \in Good
  BY <1>1, <1>2
<1>4. ASSUME NEW n \in 1 .. N, n - 1 \in Good PROVE n \in Good
  <2> DEFINE a == h[n - 1]
             b == h[n]
             f == [key |-> <<names[n]>>, value |-> record[names[n]]]
  <2>1. n \in 0 .. N /\ n - 1 \in 0 .. N /\ \A m \in 1 .. n : m = n \/ m \in 1 .. n - 1
    BY <1>2
  <2>2. a \in V /\ b = IF record[names[n]] = NoText THEN a ELSE Append(a, f)
    BY <1>1, <2>1, AddStringIs
  <2>3. /\ \A i \in DOMAIN a : From(a[i], n - 1)
        /\ \A m \in 1 .. n - 1 : record[names[m]] # NoText => \E i \in DOMAIN a : a[i].key = <<names[m]>>
    BY <1>4
  <2>4. f.key = <<names[n]>> /\ f.value = record[names[n]]
    OBVIOUS
  <2>5. \A x : From(x, n - 1) => From(x, n)
    <3>1. \A m \in 1 .. n - 1 : m \in 1 .. n
      BY <1>2
    <3> QED BY <3>1
  <2> HIDE DEF a, b, f
  <2>6. CASE record[names[n]] = NoText
    <3>1. \A i \in DOMAIN b : From(b[i], n)
      BY <2>2, <2>3, <2>5, <2>6
    <3>2. \A m \in 1 .. n : record[names[m]] # NoText => \E i \in DOMAIN b : b[i].key = <<names[m]>>
      BY <2>1, <2>2, <2>3, <2>6
    <3> QED BY <2>1, <3>1, <3>2 DEF b
  <2>7. CASE record[names[n]] # NoText
    <3>1. /\ Len(a) \in Nat /\ DOMAIN a = 1 .. Len(a) /\ DOMAIN b = 1 .. Len(a) + 1
          /\ b[Len(a) + 1] = f /\ \A i \in 1 .. Len(a) : b[i] = a[i]
      BY <2>2, <2>7 DEF V, FieldsOf
    <3>2. From(f, n)
      <4>1. n \in 1 .. n
        BY <1>2
      <4> QED BY <2>4, <2>7, <4>1
    <3>3. ASSUME NEW i \in DOMAIN b PROVE From(b[i], n)
      <4>1. i = Len(a) + 1 \/ i \in 1 .. Len(a)
        BY <3>1
      <4> HIDE DEF From
      <4> QED BY <2>3, <2>5, <3>1, <3>2, <4>1
    <3>4. ASSUME NEW m \in 1 .. n, record[names[m]] # NoText PROVE \E i \in DOMAIN b : b[i].key = <<names[m]>>
      <4>1. CASE m = n
        <5>1. Len(a) + 1 \in DOMAIN b
          BY <3>1
        <5> QED BY <2>4, <3>1, <4>1, <5>1
      <4>2. CASE m # n
        <5>1. PICK i \in DOMAIN a : a[i].key = <<names[m]>>
          BY <2>1, <2>3, <3>4, <4>2
        <5>2. i \in DOMAIN b /\ b[i] = a[i]
          BY <3>1
        <5> QED BY <5>1, <5>2
      <4> QED BY <4>1, <4>2
    <3> QED BY <2>1, <3>3, <3>4 DEF b
  <2> QED BY <2>6, <2>7
<1>5. N \in Good
  <2> HIDE DEF Good
  <2>1. \A n \in 0 .. N : n \in Good
    BY <1>2, <1>3, <1>4, UpTo
  <2> QED BY <1>2, <2>1
<1>6. h[N] \in V
  BY <1>1, <1>2
<1> DEFINE s == AddStrings(names, record)
<1>7. h[N] = s
  BY <1>1
<1> HIDE DEF s
<1>8. \A i \in DOMAIN s : \E m \in 1 .. N : s[i].key = <<names[m]>> /\ s[i].value = record[names[m]] /\ record[names[m]] # NoText
  BY <1>5, <1>7
<1>9. \A m \in 1 .. N : record[names[m]] # NoText => \E i \in DOMAIN s : s[i].key = <<names[m]>>
  BY <1>5, <1>7
<1> QED BY <1>2, <1>6, <1>7, <1>8, <1>9 DEF V, s

\* A field whose name starts with one of some tokens.
StartsIn(f, T) == f.key # << >> /\ f.key[1] \in T

\* The constants' tokens, and keys of one token.
LEMMA TokensType ==
  /\ Range(SpanStrings) = {"TraceId", "SpanId", "ParentSpanId", "Name", "Kind", "TraceStatus"}
  /\ \A t \in Range(SpanStrings) \cup Objects \cup {"service", "name", "time", ".", "value"} : t \in DOMAIN Rank /\ <<t>> \in Keys
  /\ SpanStrings \in Seq(DOMAIN Rank) /\ <<"TraceId", "SpanId">> \in Seq(DOMAIN Rank)
<1>1. Range(SpanStrings) = {"TraceId", "SpanId", "ParentSpanId", "Name", "Kind", "TraceStatus"}
  <2>1. DOMAIN SpanStrings = 1 .. 6
    BY DEF SpanStrings
  <2>2. 1 .. 6 = {1, 2, 3, 4, 5, 6}
    OBVIOUS
  <2>3. Range(SpanStrings) = {SpanStrings[i] : i \in {1, 2, 3, 4, 5, 6}}
    BY <2>1, <2>2 DEF Range
  <2>4. {SpanStrings[i] : i \in {1, 2, 3, 4, 5, 6}} =
        {SpanStrings[1], SpanStrings[2], SpanStrings[3], SpanStrings[4], SpanStrings[5], SpanStrings[6]}
    OBVIOUS
  <2> QED BY <2>3, <2>4 DEF SpanStrings
<1>2. \A t \in Range(SpanStrings) \cup Objects \cup {"service", "name", "time", ".", "value"} : t \in DOMAIN Rank
  BY StoreAssumption, RankAssumption DEF StoreAssumption, RankAssumption
<1>3. \A t \in DOMAIN Rank : <<t>> \in Keys
  BY DEF Keys
<1>4. SpanStrings \in Seq(DOMAIN Rank) /\ <<"TraceId", "SpanId">> \in Seq(DOMAIN Rank)
  <2> DEFINE D == DOMAIN Rank
  <2>1. /\ "TraceId" \in D /\ "SpanId" \in D /\ "ParentSpanId" \in D
        /\ "Name" \in D /\ "Kind" \in D /\ "TraceStatus" \in D
    BY <1>1, <1>2
  <2> HIDE DEF D
  <2>2. SpanStrings \in Seq(D) /\ <<"TraceId", "SpanId">> \in Seq(D)
    BY <2>1 DEF SpanStrings
  <2> QED BY <2>2 DEF D
<1> QED BY <1>1, <1>2, <1>3, <1>4

\* Attributes with names are leaves.
LEMMA NamedType ==
  ASSUME NEW attributes \in Named
  PROVE  attributes \in Seq(LeafType) /\ \A i \in DOMAIN attributes : attributes[i].names # << >>
<1> DEFINE A == {a \in LeafType : a.names # << >>}
<1>1. attributes \in Seq(A) /\ A \subseteq LeafType /\ \A a \in A : a.names # << >>
  BY DEF Named
<1> HIDE DEF A
<1>2. attributes \in Seq(LeafType)
  BY <1>1, SeqMonotonic
<1>3. \A i \in DOMAIN attributes : attributes[i] \in A
  BY <1>1
<1> QED BY <1>1, <1>2, <1>3

\* AddAttributes adds the fields below the path.
LEMMA AddAttributesIs ==
  ASSUME NEW fields, NEW path, NEW attributes
  PROVE  AddAttributes(fields, path, attributes) = fields \o Below(path, attributes)
BY DEF AddAttributes, Below, LeavesOf

\* b is put after the fields, and the names of its fields start with one of some tokens.
IsJoined(all, fields, b, T) ==
  /\ all \in FieldsOf(FieldValues) /\ b \in FieldsOf(FieldValues) /\ Len(all) = Len(fields) + Len(b)
  /\ Len(fields) \in Nat /\ Len(b) \in Nat
  /\ \A i \in 1 .. Len(fields) : all[i] = fields[i]
  /\ \A i \in 1 .. Len(b) : all[Len(fields) + i] = b[i] /\ StartsIn(b[i], T)

\* The fields of attributes under a name of one token start with it.
LEMMA AddAttributesJoins ==
  ASSUME NEW fields \in FieldsOf(FieldValues), NEW token \in DOMAIN Rank, NEW attributes \in Seq(LeafType)
  PROVE  IsJoined(AddAttributes(fields, <<token>>, attributes), fields, Below(<<token>>, attributes), {token})
<1> DEFINE all == AddAttributes(fields, <<token>>, attributes)
           b == Below(<<token>>, attributes)
<1>1. <<token>> \in Keys /\ <<token>> # << >> /\ <<token>>[1] = token
  BY DEF Keys
<1>2. all = fields \o b
  BY AddAttributesIs
<1> HIDE DEF all
<1> DEFINE p == <<token>>
<1>3. b \in FieldsOf(FieldValues) /\ \A i \in DOMAIN b : b[i].key # << >> /\ b[i].key[1] = p[1]
  <2> HIDE DEF p
  <2>1. p # << >> /\ p \in Keys /\ b = Below(p, attributes)
    BY <1>1 DEF p
  <2> DEFINE c == Below(p, attributes)
  <2>2. c \in FieldsOf(FieldValues) /\ \A i \in DOMAIN c : p # << >> => c[i].key # << >> /\ c[i].key[1] = p[1]
    BY <2>1, BelowType
  <2>3. b = c
    BY <2>1
  <2> HIDE DEF c
  <2>4. p # << >>
    BY <2>1
  <2>5. c \in FieldsOf(FieldValues) /\ \A i \in DOMAIN c : c[i].key # << >> /\ c[i].key[1] = p[1]
    BY ONLY <2>2, <2>4
  <2> QED BY ONLY <2>3, <2>5
<1> HIDE DEF b
<1>4. DOMAIN b = 1 .. Len(b)
  BY <1>3, FieldsType
<1> HIDE DEF p
<1>5. \A i \in 1 .. Len(b) : StartsIn(b[i], {token})
  BY <1>1, <1>3, <1>4 DEF StartsIn, p
<1>6. /\ fields \o b \in FieldsOf(FieldValues) /\ Len(fields \o b) = Len(fields) + Len(b) /\ Len(fields) \in Nat /\ Len(b) \in Nat
      /\ \A i \in 1 .. Len(fields) : (fields \o b)[i] = fields[i]
      /\ \A i \in 1 .. Len(b) : (fields \o b)[Len(fields) + i] = b[i]
  BY <1>3, FieldsConcat
<1>7. IsJoined(all, fields, b, {token})
  BY <1>2, <1>3, <1>5, <1>6 DEF IsJoined
<1> QED BY <1>7 DEF all, b

\* Fields are only added, and their names start with one of some tokens.
OnlyAdds(after, before, T) ==
  /\ Len(before) <= Len(after) /\ \A i \in 1 .. Len(before) : after[i] = before[i]
  /\ \A i \in DOMAIN after : i > Len(before) => StartsIn(after[i], T)

\* What an event adds.
LEMMA AddEventType ==
  ASSUME NEW fields \in FieldsOf(FieldValues), NEW event \in EventType
  PROVE  AddEvent(fields, event) \in FieldsOf(FieldValues) /\ OnlyAdds(AddEvent(fields, event), fields, {"Events"})
<1> DEFINE path == FlattenKey(<<"Events">>, event.name)
           t == [key |-> path \o <<".", "time">>, value |-> event.time]
           b == Below(path, event.attributes)
           with == Append(fields, t)
           all == with \o b
<1>1. AddEvent(fields, event) = all
  BY AddAttributesIs DEF AddEvent
<1>2. event.name \in Keys /\ event.time \in FieldValues /\ event.attributes \in Seq(LeafType)
  BY NamedType, FieldValuesType DEF EventType
<1>3. path \in Keys /\ path # << >> /\ path[1] = "Events" /\ Len(path) \in Nat \ {0}
  <2>1. <<"Events">> \in Keys /\ Len(<<"Events">>) = 1 /\ <<"Events">>[1] = "Events"
    BY TokensType DEF Objects
  <2> DEFINE e == <<"Events">>
  <2>2. e \in Keys /\ e # << >> /\ Len(e) = 1 /\ e[1] = "Events"
    BY <2>1
  <2> HIDE DEF e
  <2> DEFINE j == FlattenKey(e, event.name)
  <2>3. j \in Keys /\ Len(j) = Len(e) + 1 + Len(event.name) /\ \A i \in 1 .. Len(e) : j[i] = e[i]
    BY <1>2, <2>2, FlattenKeyType
  <2>4. Len(event.name) \in Nat
    BY <1>2 DEF Keys
  <2>5. path = j
    BY DEF e
  <2> HIDE DEF path, j
  <2>6. Len(path) \in Nat \ {0}
    BY <2>2, <2>3, <2>4, <2>5
  <2>7. path # << >>
    BY <2>6
  <2>8. 1 \in 1 .. Len(e)
    BY <2>2
  <2> QED BY <2>2, <2>3, <2>5, <2>6, <2>7, <2>8
<1> HIDE DEF path
<1>4. t \in [key : Keys, value : FieldValues] /\ StartsIn(t, {"Events"})
  <2> DEFINE u == <<".", "time">>
             k == path \o u
  <2>1. u \in Keys
    <3>1. "." \in DOMAIN Rank /\ "time" \in DOMAIN Rank
      BY TokensType
    <3> QED BY <3>1 DEF Keys
  <2> HIDE DEF u
  <2>2. k \in Keys /\ k # << >> /\ \A i \in 1 .. Len(path) : k[i] = path[i]
    BY <1>3, <2>1, KeysConcat
  <2>3. 1 \in 1 .. Len(path)
    BY <1>3
  <2>4. t.key = k /\ t = [key |-> k, value |-> event.time]
    BY DEF u
  <2> HIDE DEF k, t
  <2>5. k[1] = "Events"
    BY <1>3, <2>2, <2>3
  <2> QED BY <1>2, <2>2, <2>4, <2>5 DEF StartsIn
<1>5. /\ b \in FieldsOf(FieldValues) /\ \A i \in DOMAIN b : b[i].key # << >> /\ b[i].key[1] = path[1]
  BY <1>2, <1>3, BelowType
<1>6. DOMAIN b = 1 .. Len(b)
  BY <1>5, FieldsType
<1> HIDE DEF b, t
<1>7. \A i \in 1 .. Len(b) : StartsIn(b[i], {"Events"})
  BY <1>3, <1>5, <1>6 DEF StartsIn
<1>8. /\ with \in FieldsOf(FieldValues) /\ Len(with) = Len(fields) + 1 /\ Len(fields) \in Nat
      /\ with[Len(fields) + 1] = t /\ \A i \in 1 .. Len(fields) : with[i] = fields[i]
  <2> DEFINE X == [key : Keys, value : FieldValues]
  <2>1. fields \in Seq(X) /\ t \in X
    BY <1>4 DEF FieldsOf
  <2> HIDE DEF X
  <2>2. /\ with \in Seq(X) /\ Len(with) = Len(fields) + 1 /\ Len(fields) \in Nat
        /\ with[Len(fields) + 1] = t /\ \A i \in 1 .. Len(fields) : with[i] = fields[i]
    BY <2>1
  <2> QED BY <2>2 DEF X, FieldsOf
<1> HIDE DEF with
<1>9. /\ all \in FieldsOf(FieldValues) /\ Len(all) = Len(with) + Len(b) /\ Len(b) \in Nat
      /\ \A i \in 1 .. Len(with) : all[i] = with[i]
      /\ \A i \in 1 .. Len(b) : all[Len(with) + i] = b[i]
  <2>0. with \in FieldsOf(FieldValues) /\ b \in FieldsOf(FieldValues)
    BY <1>5, <1>8
  <2>1. all \in FieldsOf(FieldValues) /\ Len(all) = Len(with) + Len(b) /\ Len(b) \in Nat
    BY ONLY <2>0, FieldsConcat
  <2>2. \A i \in 1 .. Len(with) : all[i] = with[i]
    BY ONLY <2>0, FieldsConcat
  <2>3. \A i \in 1 .. Len(b) : all[Len(with) + i] = b[i]
    BY ONLY <2>0, FieldsConcat
  <2> HIDE DEF all
  <2> QED BY <2>1, <2>2, <2>3
<1> HIDE DEF all
<1>10. DOMAIN all = 1 .. Len(all)
  BY <1>9, FieldsType
<1>11. OnlyAdds(all, fields, {"Events"})
  <2>1. Len(fields) <= Len(all)
    BY <1>8, <1>9
  <2>2. \A i \in 1 .. Len(fields) : all[i] = fields[i]
    <3>1. \A i \in 1 .. Len(fields) : i \in 1 .. Len(with)
      BY <1>8
    <3> QED BY <1>8, <1>9, <3>1
  <2>3. ASSUME NEW i \in DOMAIN all, i > Len(fields) PROVE StartsIn(all[i], {"Events"})
    <3>1. CASE i = Len(fields) + 1
      <4>1. i \in 1 .. Len(with)
        BY <1>8, <3>1
      <4> QED BY <1>4, <1>8, <1>9, <3>1, <4>1
    <3>2. CASE i # Len(fields) + 1
      <4> DEFINE j == i - Len(with)
      <4>1. j \in 1 .. Len(b) /\ Len(with) + j = i
        BY <1>8, <1>9, <1>10, <2>3, <3>2
      <4> HIDE DEF j
      <4>2. all[i] = b[j]
        BY <1>9, <4>1
      <4> QED BY <1>7, <4>1, <4>2
    <3> QED BY <3>1, <3>2
  <2> QED BY <2>1, <2>2, <2>3 DEF OnlyAdds
<1> QED BY <1>1, <1>9, <1>11

\* One event after the other.
LEMMA AddEventsSteps ==
  ASSUME NEW base \in FieldsOf(FieldValues), NEW events \in Seq(EventType)
  PROVE  \E h \in [0 .. Len(events) -> FieldsOf(FieldValues)] :
           /\ h[0] = base /\ h[Len(events)] = FoldLeft(AddEvent, base, events)
           /\ \A n \in 1 .. Len(events) : h[n] = AddEvent(h[n - 1], events[n])
<1> DEFINE N == Len(events)
           V == FieldsOf(FieldValues)
           g == [x \in (1 .. N) \X V |-> AddEvent(x[2], events[x[1]])]
           E(k) == k = [S \in SUBSET (1 .. N) |->
                          IF S = {} THEN base ELSE AddEvent(k[S \ {Max(S)}], events[Max(S)])]
           it == CHOOSE k : E(k)
<1>1. N \in Nat /\ DOMAIN events = 1 .. N /\ \A n \in 1 .. N : events[n] \in EventType
  OBVIOUS
<1> HIDE DEF N
<1>2. FoldLeft(AddEvent, base, events) = it[1 .. N]
  BY <1>1, Zenon DEF FoldLeft, MapThenFoldSet
<1>3. g \in [(1 .. N) \X V -> V]
  BY <1>1, AddEventType
<1>4. base \in V
  OBVIOUS
<1> HIDE DEF V
<1>5. PICK k : IsFold(k, N, V, base, g)
  <2> HIDE DEF g
  <2> QED BY <1>1, <1>3, <1>4, FoldExists
<1>6. E(k)
  <2> USE <1>5 DEF IsFold
  <2> SUFFICES ASSUME NEW S \in SUBSET (1 .. N)
               PROVE  k[S] = IF S = {} THEN base ELSE AddEvent(k[S \ {Max(S)}], events[Max(S)])
    OBVIOUS
  <2>1. CASE S # {}
    <3>1. Max(S) \in 1 .. N
      BY <1>1, <2>1, GreatestOf
    <3> QED BY <1>5, <2>1, <3>1
  <2> QED BY <1>5, <2>1
<1>7. E(it)
  <2> HIDE DEF E
  <2> QED BY <1>6
<1> HIDE DEF it
<1>8. it[{}] = base
  BY <1>7
<1>9. \A n \in 1 .. N : it[1 .. n] = AddEvent(it[1 .. n - 1], events[n])
  <2> SUFFICES ASSUME NEW n \in 1 .. N PROVE it[1 .. n] = AddEvent(it[1 .. n - 1], events[n])
    OBVIOUS
  <2>1. 1 .. n # {} /\ Max(1 .. n) = n /\ (1 .. n) \ {Max(1 .. n)} = 1 .. n - 1
    <3>1. n \in Nat \ {0}
      BY <1>1
    <3> QED BY ONLY <3>1, FirstPositions
  <2>2. 1 .. n \in SUBSET (1 .. N)
    BY <1>1
  <2> QED BY <1>7, <2>1, <2>2
<1>10. /\ \A n \in 1 .. N : \A v \in V : g[<<n, v>>] = AddEvent(v, events[n])
       /\ \A n \in 1 .. N : it[1 .. n] = g[<<n, it[1 .. n - 1]>>] \/ it[1 .. n - 1] \notin V
  BY <1>9
<1> HIDE DEF g
<1>11. PICK h : IsHistory(h, N, V, base, it[1 .. N], g)
  BY <1>1, <1>3, <1>4, <1>8, <1>10, FoldSteps
<1>12. /\ h \in [0 .. N -> V] /\ h[0] = base /\ h[N] = it[1 .. N]
       /\ \A n \in 1 .. N : h[n] = AddEvent(h[n - 1], events[n])
  <2>1. /\ h \in [0 .. N -> V] /\ h[0] = base /\ h[N] = it[1 .. N]
        /\ \A n \in 1 .. N : h[n] = g[<<n, h[n - 1]>>]
    BY <1>11 DEF IsHistory
  <2>2. \A n \in 1 .. N : h[n - 1] \in V
    BY <1>1, <2>1
  <2> QED BY <1>10, <2>1, <2>2
<1> QED BY <1>2, <1>12 DEF N, V

\* What all of them add.
LEMMA AddEventsType ==
  ASSUME NEW base \in FieldsOf(FieldValues), NEW events \in Seq(EventType)
  PROVE  /\ FoldLeft(AddEvent, base, events) \in FieldsOf(FieldValues)
         /\ OnlyAdds(FoldLeft(AddEvent, base, events), base, {"Events"})
<1> DEFINE N == Len(events)
           V == FieldsOf(FieldValues)
           T == {"Events"}
<1>1. PICK h \in [0 .. N -> V] :
        /\ h[0] = base /\ h[N] = FoldLeft(AddEvent, base, events)
        /\ \A n \in 1 .. N : h[n] = AddEvent(h[n - 1], events[n])
  BY AddEventsSteps
<1>2. N \in Nat /\ \A n \in 1 .. N : events[n] \in EventType
  OBVIOUS
<1>3. Len(base) \in Nat /\ DOMAIN base = 1 .. Len(base)
  BY FieldsType
<1> HIDE DEF N, T
<1> DEFINE Good == {n \in 0 .. N : OnlyAdds(h[n], base, T)}
<1>4. 0 \in Good
  <2>1. OnlyAdds(base, base, T)
    <3>1. \A i \in DOMAIN base : ~(i > Len(base))
      BY <1>3
    <3> QED BY <1>3, <3>1 DEF OnlyAdds
  <2> QED BY <1>1, <1>2, <2>1
<1>5. ASSUME NEW n \in 1 .. N, n - 1 \in Good PROVE n \in Good
  <2> DEFINE a == h[n - 1]
             b == h[n]
  <2>1. n \in 0 .. N /\ n - 1 \in 0 .. N
    BY <1>2
  <2>2. a \in V /\ b = AddEvent(a, events[n]) /\ b \in V
    BY <1>1, <2>1
  <2>3. OnlyAdds(a, base, T) /\ OnlyAdds(b, a, T)
    BY <1>2, <1>5, <2>2, AddEventType DEF T
  <2> HIDE DEF a, b
  <2>4. Len(a) \in Nat /\ DOMAIN a = 1 .. Len(a) /\ Len(b) \in Nat /\ DOMAIN b = 1 .. Len(b)
    BY <2>2, FieldsType
  <2>5. Len(base) <= Len(a) /\ Len(a) <= Len(b) /\ Len(base) <= Len(b)
    BY <1>3, <2>3, <2>4 DEF OnlyAdds
  <2>6. \A i \in 1 .. Len(base) : b[i] = base[i]
    <3>1. \A i \in 1 .. Len(base) : i \in 1 .. Len(a)
      BY <1>3, <2>4, <2>5
    <3> QED BY <2>3, <3>1 DEF OnlyAdds
  <2>7. ASSUME NEW i \in DOMAIN b, i > Len(base) PROVE StartsIn(b[i], T)
    <3>1. CASE i > Len(a)
      BY <2>3, <3>1 DEF OnlyAdds
    <3>2. CASE ~(i > Len(a))
      <4>1. i \in 1 .. Len(a)
        BY <2>4, <3>2
      <4>2. b[i] = a[i] /\ StartsIn(a[i], T)
        BY <2>3, <2>4, <2>7, <4>1 DEF OnlyAdds
      <4> QED BY <4>2
    <3> QED BY <3>1, <3>2
  <2>8. OnlyAdds(b, base, T)
    BY <2>5, <2>6, <2>7 DEF OnlyAdds
  <2> QED BY <2>1, <2>8 DEF b
<1>6. N \in Good
  <2> HIDE DEF Good
  <2>1. \A n \in 0 .. N : n \in Good
    BY <1>2, <1>4, <1>5, UpTo
  <2> QED BY <1>2, <2>1
<1>7. h[N] \in V
  BY <1>1, <1>2
<1> QED BY <1>1, <1>6, <1>7 DEF T

\* The strings of a record, each a field unless it is empty.
LEMMA HeadType ==
  ASSUME NEW r, IsRecord(r), NEW t, t = Texts(r)
  PROVE  /\ \A i \in DOMAIN SpanStrings : t[SpanStrings[i]] \in Values \cup {NoText}
         /\ \A i \in DOMAIN <<"TraceId", "SpanId">> : t[<<"TraceId", "SpanId">>[i]] \in Values \cup {NoText}
         /\ \A f \in Range(SpanStrings) : t[f] \in Values \cup {NoText}
<1>1. \A f \in Range(SpanStrings) : t[f] \in Values \cup {NoText}
  <2> SUFFICES ASSUME NEW f \in Range(SpanStrings) PROVE t[f] \in Values \cup {NoText}
    OBVIOUS
  <2>1. r[f] \in Values \cup {NoText} /\ (f \in IdFields => r[f] = NoText \/ Hex(r[f]) \in Values)
    BY Zenon DEF IsRecord, NoText
  <2>2. t[f] = IF f \in IdFields /\ r[f] # NoText THEN Hex(r[f]) ELSE r[f]
    BY Zenon DEF Texts, NoText
  <2> QED BY <2>1, <2>2
<1>2. \A i \in DOMAIN SpanStrings : SpanStrings[i] \in Range(SpanStrings)
  BY DEF Range
<1> DEFINE ids == <<"TraceId", "SpanId">>
<1>3. \A i \in DOMAIN ids : i = 1 \/ i = 2
  OBVIOUS
<1>4. ids[1] = "TraceId" /\ ids[2] = "SpanId"
  OBVIOUS
<1>5. \A i \in DOMAIN ids : ids[i] \in {"TraceId", "SpanId"}
  BY <1>3, <1>4
<1> HIDE DEF ids
<1>6. \A i \in DOMAIN ids : ids[i] \in Range(SpanStrings)
  BY <1>5, TokensType
<1>7. \A i \in DOMAIN ids : t[ids[i]] \in Values \cup {NoText}
  BY <1>1, <1>6
<1> QED BY <1>1, <1>2, <1>7 DEF ids

\* The fields of a span: those of its strings, of its attributes, of its resource and of
\* its events.
LEMMA SpanFieldsType ==
  ASSUME NEW r, IsRecord(r), NEW F, F = SpanFields(r), NEW H, H = AddStrings(SpanStrings, Texts(r)),
         NEW A, A = Below(<<"Attributes">>, r.attributes), NEW R, R = Below(<<"Resource">>, r.resource)
  PROVE  /\ F \in FieldsOf(FieldValues) /\ H \in FieldsOf(FieldValues) /\ A \in FieldsOf(FieldValues) /\ R \in FieldsOf(FieldValues)
         /\ Len(H) + Len(A) + Len(R) <= Len(F)
         /\ \A i \in 1 .. Len(H) : F[i] = H[i]
         /\ \A i \in 1 .. Len(A) : F[Len(H) + i] = A[i] /\ StartsIn(A[i], {"Attributes"})
         /\ \A i \in 1 .. Len(R) : F[Len(H) + Len(A) + i] = R[i] /\ StartsIn(R[i], {"Resource"})
         /\ \A i \in DOMAIN F : i > Len(H) + Len(A) + Len(R) => StartsIn(F[i], {"Events"})
<1>1. H \in FieldsOf(FieldValues)
  <2>1. SpanStrings \in Seq(DOMAIN Rank) /\ \A i \in DOMAIN SpanStrings : Texts(r)[SpanStrings[i]] \in Values \cup {NoText}
    BY TokensType, HeadType
  <2> QED BY <2>1, AddStringsType
<1>2. "Attributes" \in DOMAIN Rank /\ "Resource" \in DOMAIN Rank
  BY TokensType DEF Objects
<1>3. r.attributes \in Seq(LeafType) /\ r.resource \in Seq(LeafType) /\ r.events \in Seq(EventType)
  BY NamedType DEF IsRecord
<1> DEFINE B == AddAttributes(H, <<"Attributes">>, r.attributes)
           C == AddAttributes(B, <<"Resource">>, r.resource)
           D == FoldLeft(AddEvent, C, r.events)
<1>4. F = D
  BY DEF SpanFields
<1>5. /\ B \in FieldsOf(FieldValues) /\ A \in FieldsOf(FieldValues) /\ Len(B) = Len(H) + Len(A)
      /\ Len(H) \in Nat /\ Len(A) \in Nat
      /\ \A i \in 1 .. Len(H) : B[i] = H[i]
      /\ \A i \in 1 .. Len(A) : B[Len(H) + i] = A[i] /\ StartsIn(A[i], {"Attributes"})
  <2>1. \A a \in Seq(LeafType) :
          IsJoined(AddAttributes(H, <<"Attributes">>, a), H, Below(<<"Attributes">>, a), {"Attributes"})
    BY <1>1, <1>2, AddAttributesJoins
  <2>2. IsJoined(B, H, A, {"Attributes"})
    BY <1>3, <2>1
  <2> HIDE DEF B
  <2> QED BY <2>2 DEF IsJoined
<1> HIDE DEF B
<1>6. /\ C \in FieldsOf(FieldValues) /\ R \in FieldsOf(FieldValues) /\ Len(C) = Len(B) + Len(R) /\ Len(R) \in Nat
      /\ \A i \in 1 .. Len(B) : C[i] = B[i]
      /\ \A i \in 1 .. Len(R) : C[Len(B) + i] = R[i] /\ StartsIn(R[i], {"Resource"})
  <2>1. \A a \in Seq(LeafType) :
          IsJoined(AddAttributes(B, <<"Resource">>, a), B, Below(<<"Resource">>, a), {"Resource"})
    BY <1>2, <1>5, AddAttributesJoins
  <2>2. IsJoined(C, B, R, {"Resource"})
    BY <1>3, <2>1
  <2> HIDE DEF C
  <2> QED BY <2>2 DEF IsJoined
<1> HIDE DEF C
<1>7. D \in FieldsOf(FieldValues) /\ OnlyAdds(D, C, {"Events"})
  BY <1>3, <1>6, AddEventsType
<1> HIDE DEF D
<1>8. Len(C) = Len(H) + Len(A) + Len(R)
  BY <1>5, <1>6
<1>9. Len(C) <= Len(D) /\ \A i \in 1 .. Len(C) : D[i] = C[i]
  BY <1>7 DEF OnlyAdds
<1>10. \A i \in 1 .. Len(H) : i \in 1 .. Len(C) /\ i \in 1 .. Len(B)
  BY <1>5, <1>6
<1>11. \A i \in 1 .. Len(A) : Len(H) + i \in 1 .. Len(C) /\ Len(H) + i \in 1 .. Len(B)
  BY <1>5, <1>6
<1>12. \A i \in 1 .. Len(R) : Len(H) + Len(A) + i \in 1 .. Len(C) /\ Len(H) + Len(A) + i = Len(B) + i
  BY <1>5, <1>6
<1>13. \A i \in DOMAIN D : i > Len(C) => StartsIn(D[i], {"Events"})
  BY <1>7 DEF OnlyAdds
<1>14. \A i \in 1 .. Len(H) : F[i] = H[i]
  BY <1>4, <1>5, <1>6, <1>9, <1>10
<1>15. \A i \in 1 .. Len(A) : F[Len(H) + i] = A[i] /\ StartsIn(A[i], {"Attributes"})
  BY <1>4, <1>5, <1>6, <1>9, <1>11
<1>16. \A i \in 1 .. Len(R) : F[Len(H) + Len(A) + i] = R[i] /\ StartsIn(R[i], {"Resource"})
  BY <1>4, <1>6, <1>9, <1>12
<1>17. Len(H) + Len(A) + Len(R) <= Len(F)
  BY <1>4, <1>8, <1>9
<1>18. \A i \in DOMAIN F : i > Len(H) + Len(A) + Len(R) => StartsIn(F[i], {"Events"})
  BY <1>4, <1>8, <1>13
<1> QED BY <1>1, <1>4, <1>5, <1>6, <1>7, <1>14, <1>15, <1>16, <1>17, <1>18

\* The names of the strings of a record do.
LEMMA HeadStarts ==
  ASSUME NEW r, IsRecord(r), NEW names, names \in {SpanStrings, <<"TraceId", "SpanId">>},
         NEW t, t = Texts(r), NEW H, H = AddStrings(names, t)
  PROVE  /\ H \in FieldsOf(FieldValues)
         /\ \A i \in DOMAIN H : /\ StartsIn(H[i], Range(SpanStrings) \cup Objects)
                                /\ \E s \in Range(SpanStrings) :
                                     H[i].key = <<s>> /\ H[i].value = t[s] /\ t[s] # NoText
         /\ names = SpanStrings => \A s \in Range(SpanStrings) :
              t[s] # NoText => \E i \in DOMAIN H : H[i].key = <<s>> /\ H[i].value = t[s]
<1>1. names \in Seq(DOMAIN Rank) /\ \A i \in DOMAIN names : t[names[i]] \in Values \cup {NoText}
  BY TokensType, HeadType
<1>2. \A i \in DOMAIN names : names[i] \in Range(SpanStrings)
  <2>1. CASE names = SpanStrings
    BY <2>1 DEF Range
  <2>2. CASE names # SpanStrings
    <3>1. names = <<"TraceId", "SpanId">>
      BY <2>2
    <3>2. \A i \in DOMAIN names : i = 1 \/ i = 2
      BY <3>1
    <3>3. names[1] = "TraceId" /\ names[2] = "SpanId"
      BY <3>1
    <3> QED BY <3>2, <3>3, TokensType
  <2> QED BY <2>1, <2>2
<1>3. /\ H \in FieldsOf(FieldValues)
      /\ \A i \in DOMAIN H : \E m \in DOMAIN names :
           H[i].key = <<names[m]>> /\ H[i].value = t[names[m]] /\ t[names[m]] # NoText
      /\ \A m \in DOMAIN names : t[names[m]] # NoText => \E i \in DOMAIN H : H[i].key = <<names[m]>>
  BY <1>1, AddStringsType
<1>4. \A i \in DOMAIN H : \E s \in Range(SpanStrings) : H[i].key = <<s>> /\ H[i].value = t[s] /\ t[s] # NoText
  BY <1>2, <1>3
<1>5. \A s : <<s>> # << >> /\ <<s>>[1] = s
  OBVIOUS
<1>6. \A i \in DOMAIN H : StartsIn(H[i], Range(SpanStrings) \cup Objects)
  BY <1>4, <1>5 DEF StartsIn
<1>7. ASSUME names = SpanStrings, NEW s \in Range(SpanStrings), t[s] # NoText
      PROVE  \E i \in DOMAIN H : H[i].key = <<s>> /\ H[i].value = t[s]
  <2>1. PICK m \in DOMAIN names : names[m] = s
    BY <1>7 DEF Range
  <2>2. PICK i \in DOMAIN H : H[i].key = <<s>>
    BY <1>3, <1>7, <2>1
  <2>3. PICK u \in Range(SpanStrings) : H[i].key = <<u>> /\ H[i].value = t[u]
    BY <1>4
  <2>4. u = s
    BY <1>5, <2>2, <2>3
  <2> QED BY <2>2, <2>3, <2>4
<1> QED BY <1>3, <1>4, <1>6, <1>7

\* The fields of a log record.
LEMMA LogFieldsType ==
  ASSUME NEW r, IsRecord(r), NEW F, F = LogFields(r)
  PROVE  F \in FieldsOf(FieldValues) /\ \A i \in DOMAIN F : StartsIn(F[i], Range(SpanStrings) \cup Objects)
<1> DEFINE T == Range(SpanStrings) \cup Objects
           H == AddStrings(<<"TraceId", "SpanId">>, Texts(r))
           B == AddAttributes(H, <<"Body">>, r.body)
           C == AddAttributes(B, <<"Attributes">>, r.attributes)
           D == AddAttributes(C, <<"Resource">>, r.resource)
<1>1. F = D
  BY DEF LogFields
<1>2. /\ "Attributes" \in DOMAIN Rank /\ "Resource" \in DOMAIN Rank /\ "Body" \in DOMAIN Rank
      /\ "Attributes" \in T /\ "Resource" \in T /\ "Body" \in T
  BY TokensType DEF Objects
<1>3. r.attributes \in Seq(LeafType) /\ r.resource \in Seq(LeafType) /\ r.body \in Seq(LeafType)
  BY NamedType DEF IsRecord
<1>4. H \in FieldsOf(FieldValues) /\ \A i \in DOMAIN H : StartsIn(H[i], T)
  BY HeadStarts
<1>5. ASSUME NEW fields \in FieldsOf(FieldValues), \A i \in DOMAIN fields : StartsIn(fields[i], T),
             NEW token \in {"Attributes", "Resource", "Body"}, NEW attributes \in Seq(LeafType),
             NEW all, all = AddAttributes(fields, <<token>>, attributes)
      PROVE  all \in FieldsOf(FieldValues) /\ \A i \in DOMAIN all : StartsIn(all[i], T)
  <2> DEFINE b == Below(<<token>>, attributes)
  <2>1. token \in DOMAIN Rank /\ token \in T
    BY <1>2
  <2>2. /\ all \in FieldsOf(FieldValues) /\ b \in FieldsOf(FieldValues) /\ Len(all) = Len(fields) + Len(b)
        /\ Len(fields) \in Nat /\ Len(b) \in Nat
        /\ \A i \in 1 .. Len(fields) : all[i] = fields[i]
        /\ \A i \in 1 .. Len(b) : all[Len(fields) + i] = b[i] /\ StartsIn(b[i], {token})
    <3>1. IsJoined(all, fields, b, {token})
      BY <1>5, <2>1, AddAttributesJoins
    <3> HIDE DEF b
    <3> QED BY <3>1 DEF IsJoined
  <2> HIDE DEF b, T
  <2>3. DOMAIN all = 1 .. Len(all) /\ DOMAIN fields = 1 .. Len(fields)
    BY <2>2, FieldsType
  <2>4. ASSUME NEW i \in DOMAIN all PROVE StartsIn(all[i], T)
    <3>1. CASE i <= Len(fields)
      <4>1. i \in 1 .. Len(fields)
        BY <2>2, <2>3, <3>1
      <4> QED BY <1>5, <2>2, <2>3, <4>1
    <3>2. CASE ~(i <= Len(fields))
      <4> DEFINE j == i - Len(fields)
      <4>1. j \in 1 .. Len(b) /\ Len(fields) + j = i
        BY <2>2, <2>3, <3>2
      <4> HIDE DEF j
      <4>2. StartsIn(all[i], {token})
        BY <2>2, <4>1
      <4> QED BY <2>1, <4>2 DEF StartsIn
    <3> QED BY <3>1, <3>2
  <2> QED BY <2>2, <2>4
<1> HIDE DEF T
<1>6. B \in FieldsOf(FieldValues) /\ \A i \in DOMAIN B : StartsIn(B[i], T)
  <2> HIDE DEF H
  <2> QED BY <1>3, <1>4, <1>5
<1>7. C \in FieldsOf(FieldValues) /\ \A i \in DOMAIN C : StartsIn(C[i], T)
  <2> HIDE DEF B
  <2> QED BY <1>3, <1>5, <1>6
<1>8. D \in FieldsOf(FieldValues) /\ \A i \in DOMAIN D : StartsIn(D[i], T)
  <2> HIDE DEF C
  <2> QED BY <1>3, <1>5, <1>7
<1> HIDE DEF D
<1> QED BY <1>1, <1>8 DEF T

\* A field of a span is one of its strings, of its attributes, of its resource or of its
\* events.
LEMMA SpanFieldsParts ==
  ASSUME NEW r, IsRecord(r), NEW F, F = SpanFields(r), NEW H, H = AddStrings(SpanStrings, Texts(r)),
         NEW A, A = Below(<<"Attributes">>, r.attributes), NEW R, R = Below(<<"Resource">>, r.resource),
         NEW i \in DOMAIN F
  PROVE  \/ \E j \in DOMAIN H : F[i] = H[j]
         \/ \E j \in 1 .. Len(A) : i = Len(H) + j /\ StartsIn(F[i], {"Attributes"})
         \/ \E j \in 1 .. Len(R) : i = Len(H) + Len(A) + j /\ StartsIn(F[i], {"Resource"})
         \/ StartsIn(F[i], {"Events"})
<1>1. /\ F \in FieldsOf(FieldValues) /\ H \in FieldsOf(FieldValues) /\ A \in FieldsOf(FieldValues) /\ R \in FieldsOf(FieldValues)
      /\ \A j \in 1 .. Len(H) : F[j] = H[j]
      /\ \A j \in 1 .. Len(A) : F[Len(H) + j] = A[j] /\ StartsIn(A[j], {"Attributes"})
      /\ \A j \in 1 .. Len(R) : F[Len(H) + Len(A) + j] = R[j] /\ StartsIn(R[j], {"Resource"})
      /\ i > Len(H) + Len(A) + Len(R) => StartsIn(F[i], {"Events"})
  BY SpanFieldsType, SMTT(30)
<1>2. /\ Len(H) \in Nat /\ Len(A) \in Nat /\ Len(R) \in Nat /\ Len(F) \in Nat
      /\ DOMAIN F = 1 .. Len(F) /\ DOMAIN H = 1 .. Len(H)
  BY <1>1, FieldsType
<1>3. CASE i <= Len(H)
  <2>1. i \in 1 .. Len(H)
    BY <1>2, <1>3
  <2> QED BY <1>1, <1>2, <2>1
<1>4. CASE ~(i <= Len(H)) /\ i <= Len(H) + Len(A)
  <2> DEFINE j == i - Len(H)
  <2>1. j \in 1 .. Len(A) /\ Len(H) + j = i
    BY <1>2, <1>4
  <2> HIDE DEF j
  <2> QED BY <1>1, <2>1
<1>5. CASE ~(i <= Len(H) + Len(A)) /\ i <= Len(H) + Len(A) + Len(R)
  <2> DEFINE j == i - (Len(H) + Len(A))
  <2>1. j \in 1 .. Len(R) /\ Len(H) + Len(A) + j = i
    BY <1>2, <1>5
  <2> HIDE DEF j
  <2> QED BY <1>1, <2>1
<1>6. CASE ~(i <= Len(H) + Len(A) + Len(R))
  BY <1>1, <1>2, <1>6
<1> QED BY <1>3, <1>4, <1>5, <1>6

\* The names of the fields of a span are those of strings or start with those of objects.
LEMMA SpanFieldsStart ==
  ASSUME NEW r, IsRecord(r), NEW F, F = SpanFields(r)
  PROVE  F \in FieldsOf(FieldValues) /\ \A i \in DOMAIN F : StartsIn(F[i], Range(SpanStrings) \cup Objects)
<1> DEFINE H == AddStrings(SpanStrings, Texts(r))
<1>1. F \in FieldsOf(FieldValues)
  BY SpanFieldsType
<1>2. \A i \in DOMAIN F : \/ \E j \in DOMAIN H : F[i] = H[j]
                          \/ \E t \in {"Attributes", "Resource", "Events"} : StartsIn(F[i], {t})
  BY SpanFieldsParts
<1>3. \A j \in DOMAIN H : StartsIn(H[j], Range(SpanStrings) \cup Objects)
  BY HeadStarts
<1>4. \A i \in DOMAIN F : \A t \in {"Attributes", "Resource", "Events"} :
        StartsIn(F[i], {t}) => StartsIn(F[i], Range(SpanStrings) \cup Objects)
  BY DEF StartsIn, Objects
<1> QED BY <1>1, <1>2, <1>3, <1>4

\* The fields of a record: their names are those of strings or start with those of objects.
LEMMA RecordFieldsType ==
  ASSUME NEW r, IsRecord(r), NEW F, F = Fields(r)
  PROVE  /\ F \in FieldsOf(FieldValues)
         /\ \A i \in DOMAIN F : F[i].key # << >> /\ F[i].key[1] \in Range(SpanStrings) \cup Objects /\ F[i].key[1] # "."
<1> DEFINE T == Range(SpanStrings) \cup Objects
<1>1. F \in FieldsOf(FieldValues) /\ \A i \in DOMAIN F : StartsIn(F[i], T)
  <2>1. CASE config.signal = "traces"
    <3>1. F = SpanFields(r)
      BY <2>1 DEF Fields
    <3> QED BY <3>1, SpanFieldsStart
  <2>2. CASE config.signal # "traces"
    <3>1. F = LogFields(r)
      BY <2>2 DEF Fields
    <3> QED BY <3>1, LogFieldsType
  <2> QED BY <2>1, <2>2
<1>2. "." \notin T
  BY TokensType DEF Objects
<1> HIDE DEF T
<1>3. \A i \in DOMAIN F : F[i].key # << >> /\ F[i].key[1] \in T /\ F[i].key[1] # "."
  BY <1>1, <1>2 DEF StartsIn
<1> QED BY <1>1, <1>3 DEF T

-----------------------------------------------------------------------------
(* What is encoded.                                                         *)

\* The fields d are the fields t, some of them ignored.
IsMarked(d, t, V) ==
  /\ d \in FieldsOf(V \cup {Ignored}) /\ DOMAIN d = DOMAIN t
  /\ \A i \in DOMAIN t : d[i].key = t[i].key

\* Marking leaves the names.
LEMMA MarkType ==
  ASSUME NEW V, NEW t \in FieldsOf(V)
  PROVE  IsMarked(MarkDuplicates(t), t, V)
<1> DEFINE d == MarkDuplicates(t)
           n == Len(t)
           X == [key : Keys, value : V \cup {Ignored}]
<1>1. n \in Nat /\ DOMAIN t = 1 .. n /\ \A i \in DOMAIN t : t[i] \in [key : Keys, value : V] /\ t[i].key \in Keys
  BY FieldsType
<1>2. DOMAIN d = 1 .. n /\ d = [i \in 1 .. n |-> d[i]]
  BY <1>1 DEF MarkDuplicates
<1>3. ASSUME NEW i \in 1 .. n PROVE d[i] \in X /\ d[i].key = t[i].key
  <2>1. d[i] = t[i] \/ d[i] = [t[i] EXCEPT !.value = Ignored]
    BY <1>1 DEF MarkDuplicates
  <2>2. t[i] \in [key : Keys, value : V]
    BY <1>1
  <2> QED BY <2>1, <2>2
<1> HIDE DEF n, X, d
<1>4. d \in [1 .. n -> X]
  BY <1>2, <1>3
<1>5. d \in Seq(X)
  BY <1>1, <1>4
<1> QED BY <1>1, <1>2, <1>3, <1>5 DEF X, d, FieldsOf, IsMarked

\* The last value of a key is the value of a field of that name.
LEMMA LastValueIs ==
  ASSUME NEW V, NEW fields \in FieldsOf(V), NEW j \in DOMAIN fields
  PROVE  \E m \in DOMAIN fields :
           /\ fields[m].key = fields[j].key /\ LastValue(fields, fields[j].key) = fields[m].value
           /\ fields[m] = [key |-> fields[j].key, value |-> LastValue(fields, fields[j].key)]
<1> DEFINE k == fields[j].key
           same == {i \in DOMAIN fields : fields[i].key = k}
           m == Max(same)
<1>1. /\ Len(fields) \in Nat /\ DOMAIN fields = 1 .. Len(fields)
      /\ \A i \in DOMAIN fields : fields[i] \in [key : Keys, value : V]
  BY FieldsType
<1>2. same \in SUBSET (1 .. Len(fields)) /\ same # {} /\ \A i \in same : i \in DOMAIN fields /\ fields[i].key = k
  BY <1>1
<1>3. LastValue(fields, k) = fields[m].value
  BY DEF LastValue
<1> HIDE DEF same, k
<1>4. m \in same
  BY <1>1, <1>2, GreatestOf
<1>5. m \in DOMAIN fields /\ fields[m].key = k
  BY <1>2, <1>4
<1> HIDE DEF m
<1>6. fields[m] = [key |-> k, value |-> fields[m].value]
  BY <1>1, <1>5
<1> QED BY <1>3, <1>5, <1>6 DEF k

\* The fields themselves, in any order, keep the fields.
LEMMA FieldsKeepThemselves ==
  ASSUME NEW V, NEW fields \in FieldsOf(V), NEW held, \A i \in DOMAIN fields : fields[i] \in held,
         \A h \in held : \E i \in DOMAIN fields : h = fields[i]
  PROVE  Keeps(held, fields)
<1>1. ASSUME NEW j \in DOMAIN fields PROVE [key |-> fields[j].key, value |-> LastValue(fields, fields[j].key)] \in held
  BY LastValueIs
<1> QED BY <1>1 DEF Keeps

\* What is prepared for writing: in order if it is sorted, and holding the fields.
LEMMA PreparedType ==
  ASSUME NEW fields \in FieldsOf(FieldValues), NEW p, p = Prepared(fields)
  PROVE  /\ p \in FieldsOf(FieldValues \cup {Ignored})
         /\ config.dedup \/ config.dedot => \A i, j \in DOMAIN p : i < j => Less(p[i].key, p[j].key) \/ p[i].key = p[j].key
         /\ Keeps(Kept(p), fields)
         /\ ~config.dedup /\ ~config.dedot => p = fields
<1>1. Ignored \notin FieldValues
  BY FieldValuesType
<1>2. CASE config.dedup
  <2> DEFINE s == Sort(fields)
             r == Rename(s)
             t == Sort(r)
  <2>1. p = MarkDuplicates(t) /\ p = Dedup(fields)
    BY <1>2 DEF Prepared, Dedup
  <2>2. s \in FieldsOf(FieldValues)
    BY SortIsSorted
  <2> HIDE DEF s
  <2>3. r \in FieldsOf(FieldValues)
    BY <2>2, RenameType
  <2> HIDE DEF r
  <2>4. t \in FieldsOf(FieldValues) /\ \A m, n \in DOMAIN t : m < n => Less(t[m].key, t[n].key) \/ t[m].key = t[n].key
    BY <2>3, SortIsSorted
  <2> HIDE DEF t
  <2>5. /\ p \in FieldsOf(FieldValues \cup {Ignored}) /\ DOMAIN p = DOMAIN t
        /\ \A i \in DOMAIN t : p[i].key = t[i].key
    <3>1. p = MarkDuplicates(t) /\ t \in FieldsOf(FieldValues)
      BY <2>1, <2>4
    <3>2. IsMarked(MarkDuplicates(t), t, FieldValues)
      BY <3>1, MarkType
    <3> QED BY <3>1, <3>2 DEF IsMarked
  <2>6. Keeps(Kept(p), fields)
    BY <1>1, <2>1, DedupKeepsLastValues
  <2> QED BY <1>2, <2>4, <2>5, <2>6
<1>3. ASSUME p \in FieldsOf(FieldValues), \A n \in DOMAIN p : \E i \in DOMAIN fields : p[n] = fields[i],
             \A i \in DOMAIN fields : \E n \in DOMAIN p : p[n] = fields[i]
      PROVE  p \in FieldsOf(FieldValues \cup {Ignored}) /\ Keeps(Kept(p), fields)
  <2> DEFINE X == [key : Keys, value : FieldValues]
             Y == [key : Keys, value : FieldValues \cup {Ignored}]
  <2>1. X \subseteq Y /\ p \in Seq(X)
    BY <1>3 DEF FieldsOf
  <2> HIDE DEF X, Y
  <2>2. p \in Seq(Y)
    BY ONLY <2>1, SeqMonotonic
  <2>3. \A n \in DOMAIN p : p[n].value \in FieldValues
    BY <1>3, FieldsType
  <2>4. \A n \in DOMAIN p : p[n].value # Ignored
    BY <1>1, <2>3
  <2>5. (\A i \in DOMAIN fields : fields[i] \in Kept(p)) /\ \A h \in Kept(p) : \E i \in DOMAIN fields : h = fields[i]
    BY <1>3, <2>4 DEF Kept
  <2> QED BY <2>2, <2>5, FieldsKeepThemselves DEF FieldsOf, Y
<1>4. CASE ~config.dedup /\ config.dedot
  <2>1. p = Sort(fields)
    BY <1>4 DEF Prepared
  <2>2. /\ p \in FieldsOf(FieldValues) /\ DOMAIN p = DOMAIN fields
        /\ \A m, n \in DOMAIN p : m < n => Less(p[m].key, p[n].key) \/ p[m].key = p[n].key
    BY <2>1, SortIsSorted
  <2>3. /\ \A n \in DOMAIN p : \E i \in DOMAIN fields : p[n] = fields[i]
        /\ \A i \in DOMAIN fields : \E n \in DOMAIN p : p[n] = fields[i]
    BY <2>1, <2>2, SortKeepsFields
  <2> QED BY <1>3, <1>4, <2>2, <2>3
<1>5. CASE ~config.dedup /\ ~config.dedot
  <2>1. p = fields
    BY <1>5 DEF Prepared
  <2> QED BY <1>3, <1>5, <2>1
<1> QED BY <1>2, <1>4, <1>5

\* What is kept, but for the empty arrays, holds the fields.
LEMMA KeptHolds ==
  ASSUME NEW V, NEW W, NEW fields \in FieldsOf(V), NEW kept \in SUBSET [key : Keys, value : W], Keeps(kept, fields),
         NEW held, held = {h \in kept : h.value # Nil}
  PROVE  Holds(held, fields)
<1> DEFINE keys == {fields[i].key : i \in DOMAIN fields}
<1>1. ASSUME NEW k \in keys, LastValue(fields, k) # Nil
      PROVE  \/ [key |-> k, value |-> LastValue(fields, k)] \in held
             \/ IsObject(fields, k) /\ (AsValue(k) \in keys \/ [key |-> AsValue(k), value |-> LastValue(fields, k)] \in held)
  <2>1. CASE [key |-> k, value |-> LastValue(fields, k)] \in kept
    BY <1>1, <2>1
  <2>2. CASE ~([key |-> k, value |-> LastValue(fields, k)] \in kept)
    <3>1. IsObject(fields, k)
      BY <2>2 DEF Keeps
    <3>2. PICK h \in kept : h.key = AsValue(k) /\ (AsValue(k) \notin keys => h.value = LastValue(fields, k))
      BY <2>2 DEF Keeps
    <3>3. h = [key |-> h.key, value |-> h.value]
      OBVIOUS
    <3> HIDE DEF keys
    <3> QED BY <1>1, <3>1, <3>2, <3>3
  <2> QED BY <2>1, <2>2
<1>2. \A h \in held : h \in kept
  OBVIOUS
<1>3. \A h \in kept : \E i \in DOMAIN fields : fields[i].value = h.value /\ h.key \in {fields[i].key, AsValue(fields[i].key)}
  BY DEF Keeps
<1> HIDE DEF keys
<1>4. \A h \in held : \E i \in DOMAIN fields : fields[i].value = h.value /\ h.key \in {fields[i].key, AsValue(fields[i].key)}
  BY <1>2, <1>3
<1>5. \A k \in keys : \/ LastValue(fields, k) = Nil
                     \/ [key |-> k, value |-> LastValue(fields, k)] \in held
                     \/ /\ IsObject(fields, k)
                        /\ AsValue(k) \in keys \/ [key |-> AsValue(k), value |-> LastValue(fields, k)] \in held
  BY <1>1
<1> QED BY <1>4, <1>5, Zenon DEF Holds, keys

\* What is written of it is what is neither marked nor empty.
LEMMA WrittenIsKept ==
  ASSUME NEW p \in FieldsOf(FieldValues \cup {Ignored}), NEW w, w = Written(p)
  PROVE  /\ w \in FieldsOf(FieldValues \cup {Ignored}) /\ Range(w) = {h \in Kept(p) : h.value # Nil}
         /\ Storable(p) => Storable(w)
<1>2. \A i \in DOMAIN p : IsEmpty(p[i].value) <=> p[i].value = Ignored \/ p[i].value = Nil
  BY DEF IsEmpty
<1>3. /\ w \in FieldsOf(FieldValues \cup {Ignored})
      /\ \A n \in DOMAIN w : \E i \in DOMAIN p : w[n] = p[i] /\ ~IsEmpty(p[i].value)
      /\ \A i \in DOMAIN p : ~IsEmpty(p[i].value) => \E n \in DOMAIN w : w[n] = p[i]
      /\ \A m, n \in DOMAIN w : m < n =>
           \E i, j \in DOMAIN p : i < j /\ w[m] = p[i] /\ w[n] = p[j]
  BY WrittenType
<1>4. Range(w) = {h \in Kept(p) : h.value # Nil}
  BY <1>2, <1>3 DEF Range, Kept
<1>5. ASSUME Storable(p) PROVE Storable(w)
  <2>1. Len(p) \in Nat /\ DOMAIN p = 1 .. Len(p) /\ Len(w) \in Nat /\ DOMAIN w = 1 .. Len(w)
    BY <1>3, FieldsType
  <2>2. \A m, n \in DOMAIN w : m # n => m < n \/ n < m
    BY <2>1
  <2>3. \A i, j \in DOMAIN p : i < j => i # j
    BY <2>1
  <2> HIDE DEF Conflict
  <2> QED BY <1>3, <1>5, <2>2, <2>3 DEF Storable
<1> QED BY <1>3, <1>4, <1>5

\* The encoding of a record: Elasticsearch finds the fields that are kept, and the
\* objects are nested.
LEMMA EncodeType ==
  ASSUME NEW r, IsRecord(r), config.mode # "jaeger", NEW F, F = Fields(r), NEW p, p = Prepared(F),
         NEW w, w = Written(p), NEW json, json = Encode(r)
  PROVE  /\ F \in FieldsOf(FieldValues) /\ p \in FieldsOf(FieldValues \cup {Ignored}) /\ w \in FieldsOf(FieldValues \cup {Ignored})
         /\ Holds(Range(w), F)
         /\ LeafFields(json) = w /\ IsWellNested(json)
         /\ config.dedot => json = IterJSONDedot(p)
         /\ ~config.dedot => json = IterJSONFlat(p)
<1>1. /\ F \in FieldsOf(FieldValues)
      /\ \A i \in DOMAIN F : F[i].key # << >> /\ F[i].key[1] # "."
  BY RecordFieldsType
<1>2. /\ p \in FieldsOf(FieldValues \cup {Ignored}) /\ Keeps(Kept(p), F)
      /\ config.dedot => \A i, j \in DOMAIN p : i < j => Less(p[i].key, p[j].key) \/ p[i].key = p[j].key
  <2>1. F \in FieldsOf(FieldValues) /\ p = Prepared(F)
    BY <1>1
  <2> QED BY ONLY <2>1, PreparedType, Zenon
<1>3. w \in FieldsOf(FieldValues \cup {Ignored}) /\ Range(w) = {h \in Kept(p) : h.value # Nil} /\ Holds(Range(w), F)
  <2> DEFINE W == FieldValues \cup {Ignored}
  <2>1. w \in FieldsOf(W) /\ Range(w) = {h \in Kept(p) : h.value # Nil} /\ p \in FieldsOf(W)
    BY <1>2, WrittenIsKept
  <2> HIDE DEF W
  <2>2. Kept(p) \in SUBSET [key : Keys, value : W]
    BY <2>1, FieldsType DEF Kept
  <2> DEFINE kept == Kept(p)
             held == Range(w)
  <2>3. /\ F \in FieldsOf(FieldValues) /\ kept \in SUBSET [key : Keys, value : W]
        /\ Keeps(kept, F) /\ held = {h \in kept : h.value # Nil}
    BY <1>1, <1>2, <2>1, <2>2
  <2> HIDE DEF kept, held
  <2>4. Holds(held, F)
    BY ONLY <2>3, KeptHolds
  <2> QED BY <2>1, <2>4 DEF W, held
<1>4. json = IF config.dedot THEN IterJSONDedot(p) ELSE IterJSONFlat(p)
  BY DEF Encode
<1>5. CASE config.dedot
  <2>1. json = IterJSONDedot(p)
    BY <1>4, <1>5
  <2>2. IsWellNested(json)
    BY <1>2, <1>5, <2>1, OpenedOnce
  <2>3. ASSUME NEW n \in DOMAIN w PROVE w[n].key # << >> => w[n].key[1] # "."
    <3>1. w[n] \in Kept(p)
      BY <1>3 DEF Range
    <3>2. PICK i \in DOMAIN F : w[n].key \in {F[i].key, F[i].key \o <<".", "value">>}
      BY <1>2, <3>1 DEF Keeps, AsValue
    <3>3. F[i].key \in Keys /\ F[i].key # << >> /\ F[i].key[1] # "."
      BY <1>1, FieldsType
    <3> DEFINE k == F[i].key
    <3>4. ValueOf(k) = k \o <<".", "value">> /\ Len(k) \in Nat /\ \A x \in 1 .. Len(k) : ValueOf(k)[x] = k[x]
      BY <3>3, ValueOfType
    <3>5. 1 \in 1 .. Len(k)
      BY <3>3 DEF Keys
    <3> QED BY <3>2, <3>3, <3>4, <3>5
  <2>4. LeafFields(json) = w
    BY <1>2, <2>1, <2>3, LeafFieldsDedot
  <2> QED BY <1>1, <1>2, <1>3, <1>4, <1>5, <2>2, <2>4
<1>6. CASE ~config.dedot
  <2>1. json = IterJSONFlat(p)
    BY <1>4, <1>6
  <2>2. LeafFields(json) = w /\ IsWellNested(json)
    BY <1>2, <2>1, LeavesFlat
  <2> QED BY <1>1, <1>2, <1>3, <1>4, <1>6, <2>2
<1> QED BY <1>5, <1>6

\* The encodings hold their records, ...
LEMMA EncodingHoldsRecords == ASSUME TypeInv PROVE EncodingHolds
<1> SUFFICES ASSUME config.mode = "ecs", NEW i \in DOMAIN batch
             PROVE  Holds(Range(LeafFields(Encode(batch[i]))), Fields(batch[i]))
  BY DEF EncodingHolds
<1>1. IsRecord(batch[i]) /\ config.mode # "jaeger"
  BY BatchIsRecords
<1> DEFINE w == Written(Prepared(Fields(batch[i])))
<1>2. Holds(Range(w), Fields(batch[i])) /\ LeafFields(Encode(batch[i])) = w
  BY <1>1, EncodeType
<1> QED BY <1>2

\* ... are well nested ...
LEMMA EncodingIsNested == ASSUME TypeInv PROVE EncodingNests
<1> SUFFICES ASSUME NEW i \in DOMAIN batch PROVE IsWellNested(Encode(batch[i]))
  BY EmptyJsonType DEF EncodingNests
<1>1. CASE config.mode = "jaeger"
  BY <1>1, EmptyJsonType DEF Encode, JaegerSpan
<1>2. CASE config.mode # "jaeger"
  BY <1>2, BatchIsRecords, EncodeType
<1> QED BY <1>1, <1>2

\* ... and, when dedup is on and the names are clean, can be stored.
LEMMA EncodingIsStorable == ASSUME TypeInv PROVE EncodingStores
<1> SUFFICES ASSUME config.dedup, NEW i \in DOMAIN batch, IsClean(Fields(batch[i]))
             PROVE  Storable(LeafFields(Encode(batch[i])))
  BY DEF EncodingStores
<1>1. CASE config.mode = "jaeger"
  <2>1. LeafFields(Encode(batch[i])) = << >>
    BY <1>1, EmptyJsonType DEF Encode, JaegerSpan
  <2> QED BY <2>1 DEF Storable
<1>2. CASE config.mode # "jaeger"
  <2> DEFINE F == Fields(batch[i])
             p == Prepared(F)
             w == Written(p)
  <2>1. F \in FieldsOf(FieldValues) /\ p \in FieldsOf(FieldValues \cup {Ignored}) /\ LeafFields(Encode(batch[i])) = w
    BY <1>2, BatchIsRecords, EncodeType
  <2>2. p = Dedup(F)
    BY DEF Prepared
  <2>3. Ignored \notin FieldValues
    BY FieldValuesType
  <2> HIDE DEF F
  <2>4. Storable(Dedup(F))
    BY <2>1, <2>3, DedupRemovesConflicts DEF F
  <2>5. Storable(p)
    BY <2>2, <2>4
  <2> HIDE DEF p
  <2>6. Storable(w)
    BY <2>1, <2>5, WrittenIsKept
  <2> QED BY <2>1, <2>6
<1> QED BY <1>1, <1>2

-----------------------------------------------------------------------------
(* What is read of it.                                                      *)

\* What is held starts as the field it comes from.
LEMMA HeldKeys ==
  ASSUME NEW V, NEW fields \in FieldsOf(V), \A i \in DOMAIN fields : fields[i].key # << >>,
         NEW held, Holds(held, fields), NEW h \in held
  PROVE  \E i \in DOMAIN fields : /\ h.value = fields[i].value
                                  /\ h.key = fields[i].key \/ h.key = ValueOf(fields[i].key)
                                  /\ h.key # << >> /\ h.key \in Keys /\ h.key[1] = fields[i].key[1]
<1>1. PICK i \in DOMAIN fields : h.value = fields[i].value /\ h.key \in {fields[i].key, fields[i].key \o <<".", "value">>}
  BY DEF Holds, AsValue
<1> DEFINE k == fields[i].key
<1>2. k \in Keys /\ k # << >>
  BY FieldsType
<1>3. ValueOf(k) = k \o <<".", "value">> /\ Len(k) \in Nat /\ \A x \in 1 .. Len(k) : ValueOf(k)[x] = k[x]
  BY <1>2, ValueOfType
<1>4. ValueOf(k) \in Keys /\ Len(ValueOf(k)) = Len(k) + 2
  BY <1>2, ValueOfType
<1>5. 1 \in 1 .. Len(k)
  BY <1>2 DEF Keys
<1>6. ValueOf(k) # << >> /\ ValueOf(k)[1] = k[1]
  <2> DEFINE v == ValueOf(k)
  <2>1. Len(v) = Len(k) + 2 /\ v[1] = k[1]
    BY <1>3, <1>4, <1>5
  <2> HIDE DEF v
  <2>2. v # << >>
    BY <1>3, <2>1
  <2> QED BY <2>1, <2>2 DEF v
<1>7. h.value = fields[i].value /\ (h.key = k \/ h.key = ValueOf(k))
  BY <1>1, <1>3
<1> HIDE DEF k
<1>8. h.key # << >> /\ h.key \in Keys /\ h.key[1] = k[1]
  BY <1>2, <1>4, <1>6, <1>7
<1> QED BY <1>7, <1>8 DEF k

\* The fields of a span whose names start with that of a string are that string.
LEMMA StringFields ==
  ASSUME NEW r, IsRecord(r), NEW t, t = Texts(r), NEW F, F = SpanFields(r), NEW s \in Range(SpanStrings)
  PROVE  /\ \A i \in DOMAIN F : F[i].key[1] = s => F[i].key = <<s>> /\ F[i].value = t[s] /\ t[s] # NoText
         /\ t[s] # NoText => \E i \in DOMAIN F : F[i].key = <<s>>
<1> DEFINE H == AddStrings(SpanStrings, Texts(r))
<1>1. F \in FieldsOf(FieldValues) /\ H \in FieldsOf(FieldValues) /\ \A i \in 1 .. Len(H) : F[i] = H[i]
  BY SpanFieldsType
<1>2. /\ \A i \in DOMAIN H : \E u \in Range(SpanStrings) : H[i].key = <<u>> /\ H[i].value = t[u] /\ t[u] # NoText
      /\ \A u \in Range(SpanStrings) : t[u] # NoText => \E i \in DOMAIN H : H[i].key = <<u>> /\ H[i].value = t[u]
  BY HeadStarts
<1>3. \A i \in DOMAIN F : \/ \E j \in DOMAIN H : F[i] = H[j]
                          \/ \E o \in {"Attributes", "Resource", "Events"} : StartsIn(F[i], {o})
  BY SpanFieldsParts
<1>4. s # "Attributes" /\ s # "Resource" /\ s # "Events"
  BY TokensType
<1>5. Len(H) <= Len(F) /\ Len(H) \in Nat /\ Len(F) \in Nat /\ DOMAIN F = 1 .. Len(F) /\ DOMAIN H = 1 .. Len(H)
  <2> DEFINE A == Below(<<"Attributes">>, r.attributes)
             R == Below(<<"Resource">>, r.resource)
  <2>1. A \in FieldsOf(FieldValues) /\ R \in FieldsOf(FieldValues) /\ Len(H) + Len(A) + Len(R) <= Len(F)
    BY SpanFieldsType
  <2> HIDE DEF A, R, H
  <2> QED BY <1>1, <2>1, FieldsType
<1> HIDE DEF H
<1>6. ASSUME NEW i \in DOMAIN F, F[i].key[1] = s
      PROVE  F[i].key = <<s>> /\ F[i].value = t[s] /\ t[s] # NoText
  <2>1. CASE \E j \in DOMAIN H : F[i] = H[j]
    <3>1. PICK u \in Range(SpanStrings) : F[i].key = <<u>> /\ F[i].value = t[u] /\ t[u] # NoText
      BY <1>2, <2>1
    <3>2. <<u>>[1] = u
      OBVIOUS
    <3>3. u = s
      BY <1>6, <3>1, <3>2
    <3> QED BY <3>1, <3>3
  <2>2. CASE \E o \in {"Attributes", "Resource", "Events"} : StartsIn(F[i], {o})
    BY <1>4, <1>6, <2>2 DEF StartsIn
  <2> QED BY <1>3, <2>1, <2>2
<1>7. ASSUME t[s] # NoText PROVE \E i \in DOMAIN F : F[i].key = <<s>>
  <2>1. PICK i \in DOMAIN H : H[i].key = <<s>>
    BY <1>2, <1>7
  <2>2. i \in DOMAIN F /\ F[i] = H[i]
    BY <1>1, <1>5
  <2> QED BY <2>1, <2>2
<1> QED BY <1>6, <1>7

\* A string is held under its name, if it is not empty, and nothing else is.
LEMMA StringsAreHeld ==
  ASSUME NEW r, IsRecord(r), NEW t, t = Texts(r), NEW F, F = SpanFields(r), NEW held, Holds(held, F), NEW s \in Range(SpanStrings)
  PROVE  /\ \A h \in held : h.key = <<s>> => h.value = t[s] /\ t[s] # NoText
         /\ t[s] # NoText => \E h \in held : h.key = <<s>>
<1>1. /\ \A i \in DOMAIN F : F[i].key[1] = s => F[i].key = <<s>> /\ F[i].value = t[s] /\ t[s] # NoText
      /\ t[s] # NoText => \E i \in DOMAIN F : F[i].key = <<s>>
  BY StringFields
<1>2. F \in FieldsOf(FieldValues) /\ \A i \in DOMAIN F : F[i].key # << >> /\ F[i].key \in Keys
  <2>1. F \in FieldsOf(FieldValues)
    BY SpanFieldsType
  <2>2. \A i \in DOMAIN F : F[i].key # << >>
    BY SpanFieldsStart DEF StartsIn
  <2> QED BY <2>1, <2>2, FieldsType
<1>3. Len(<<s>>) = 1 /\ <<s>>[1] = s /\ <<s>> \in Keys
  BY TokensType
<1>4. ASSUME NEW h \in held, h.key = <<s>> PROVE h.value = t[s] /\ t[s] # NoText
  <2>1. PICK i \in DOMAIN F : h.value = F[i].value /\ h.key[1] = F[i].key[1]
    BY <1>2, HeldKeys
  <2> QED BY <1>1, <1>3, <1>4, <2>1
<1>5. ASSUME t[s] # NoText PROVE \E h \in held : h.key = <<s>>
  <2> DEFINE key == <<s>>
             x == [key |-> key, value |-> LastValue(F, key)]
  <2>1. PICK i \in DOMAIN F : F[i].key = key
    BY <1>1, <1>5
  <2>2. LastValue(F, key) # Nil
    <3>1. PICK m \in DOMAIN F : F[m].key = key /\ LastValue(F, key) = F[m].value
      BY <1>2, <2>1, LastValueIs
    <3>2. F[m].value = t[s] /\ t[s] \in Values \cup {NoText} /\ t[s] # NoText
      BY <1>1, <1>3, <3>1, HeadType
    <3> QED BY <3>1, <3>2, FieldValuesType
  <2>5. x \in held \/ IsObject(F, key)
    BY <2>1, <2>2 DEF Holds
  <2>3. x.key = key
    OBVIOUS
  <2> HIDE DEF x
  <2>4. ASSUME IsObject(F, key) PROVE FALSE
    <3>1. PICK j \in DOMAIN F : IsObjectOf(key, F[j].key)
      BY <2>4 DEF IsObject, IsObjectOf
    <3> DEFINE l == F[j].key
    <3>2. l \in Keys /\ Alike(key, l, Len(key)) /\ Len(key) < Len(l)
      BY <1>2, <1>3, <3>1, ObjectOfKey
    <3>3. 1 \in 1 .. Len(key)
      BY <1>3
    <3>4. l[1] = s
      BY <1>3, <3>2, <3>3 DEF Alike
    <3>5. l = key
      BY <1>1, <3>4
    <3> QED BY <1>3, <3>2, <3>5
  <2> QED BY <2>3, <2>4, <2>5
<1> QED BY <1>4, <1>5

\* The value that Elasticsearch finds under a name.
LEMMA IndexedIs ==
  ASSUME NEW V, NEW w \in FieldsOf(V), NEW d, d.fields = w, NEW key
  PROVE  \/ Indexed(d, key) = NoText /\ \A h \in Range(w) : h.key # key
         \/ \E h \in Range(w) : h.key = key /\ Indexed(d, key) = h.value
<1> DEFINE I == {i \in 1 .. Len(w) : w[i].key = key}
           n == IF I # {} THEN Min(I) ELSE 0
<1>1. Len(w) \in Nat /\ DOMAIN w = 1 .. Len(w)
  BY FieldsType
<1>2. Indexed(d, key) = IF n = 0 THEN NoText ELSE w[n].value
  BY Zenon DEF Indexed, SelectInSeq, NoText
<1>3. \A i \in I : i \in 1 .. Len(w) /\ w[i].key = key
  OBVIOUS
<1>4. I \in SUBSET Nat
  BY <1>1
<1>5. I = {} => \A h \in Range(w) : h.key # key
  BY <1>1 DEF Range
<1>6. I # {} => Min(I) \in I
  <2> HIDE DEF I
  <2>1. I # {} => \E m \in I : \A x \in I : m <= x
    BY <1>4, LeastOf
  <2> QED BY <2>1 DEF Min
<1> HIDE DEF I
<1>7. CASE I = {}
  BY <1>2, <1>5, <1>7
<1>8. CASE I # {}
  <2>1. n = Min(I) /\ n \in 1 .. Len(w) /\ w[n].key = key
    BY <1>3, <1>6, <1>8
  <2> HIDE DEF n
  <2>2. n # 0 /\ w[n] \in Range(w)
    BY <1>1, <2>1 DEF Range
  <2>3. Indexed(d, key) = w[n].value
    BY <1>2, <2>2
  <2> QED BY <2>1, <2>2, <2>3
<1> QED BY <1>7, <1>8

\* The value is a member of the document itself, under the key.
IsMember(leaf, key) == Len(leaf.path) = 1 /\ leaf.path[1] = key

\* The members found are the values the document has under the key.
AreMembers(found, json, key) ==
  /\ \A mem \in found : \E n \in DOMAIN Leaves(json) : IsMember(Leaves(json)[n], key) /\ mem.value = Leaves(json)[n].value
  /\ \A n \in DOMAIN Leaves(json) : IsMember(Leaves(json)[n], key) => \E mem \in found : mem.value = Leaves(json)[n].value

\* The members of the document that are no objects.
LEMMA MembersAre ==
  ASSUME NEW json, NEW key, NEW found, found = {mem \in TopLevel(json) : mem.key = key /\ ~mem.isObject}
  PROVE  AreMembers(found, json, key)
<1> DEFINE leaves == Leaves(json)
           own == {l \in Range(leaves) : Len(l.path) = 1}
           ofLeaf(l) == [key |-> l.path[1], value |-> l.value, isObject |-> FALSE]
           ofPath(x) == [key |-> x[1], value |-> Nil, isObject |-> TRUE]
<1>1. TopLevel(json) = {ofLeaf(l) : l \in own} \cup {ofPath(x) : x \in Range(Around(json)) \ {<< >>}}
  BY DEF TopLevel
<1>2. \A l : ofLeaf(l).key = l.path[1] /\ ofLeaf(l).value = l.value /\ ~ofLeaf(l).isObject
  OBVIOUS
<1>3. \A x : ofPath(x).isObject
  OBVIOUS
<1>4. \A l : l \in own <=> \E n \in DOMAIN leaves : l = leaves[n] /\ Len(l.path) = 1
  BY DEF Range
<1> HIDE DEF leaves, own, ofLeaf, ofPath
<1>5. ASSUME NEW mem \in found
      PROVE  \E n \in DOMAIN leaves : IsMember(leaves[n], key) /\ mem.value = leaves[n].value
  <2>1. PICK l \in own : mem = ofLeaf(l)
    BY <1>1, <1>3
  <2>2. mem.key = key
    OBVIOUS
  <2>3. PICK n \in DOMAIN leaves : l = leaves[n] /\ Len(l.path) = 1
    BY <1>4
  <2> QED BY <1>2, <2>1, <2>2, <2>3 DEF IsMember
<1>6. ASSUME NEW n \in DOMAIN leaves, IsMember(leaves[n], key)
      PROVE  \E mem \in found : mem.value = leaves[n].value
  <2>1. leaves[n] \in own
    BY <1>4, <1>6 DEF IsMember
  <2>2. ofLeaf(leaves[n]) \in TopLevel(json)
    BY <1>1, <2>1
  <2>3. ofLeaf(leaves[n]).key = key /\ ofLeaf(leaves[n]).value = leaves[n].value /\ ~ofLeaf(leaves[n]).isObject
    BY <1>2, <1>6 DEF IsMember
  <2>4. ofLeaf(leaves[n]) \in found
    BY <2>2, <2>3
  <2> QED BY <2>3, <2>4
<1> QED BY <1>5, <1>6 DEF leaves, AreMembers

\* What is read of a field.
LEMMA FieldValueIs ==
  ASSUME NEW json, NEW key
  PROVE  \/ FieldValue(json, key) = NoText /\ \A n \in DOMAIN Leaves(json) : ~IsMember(Leaves(json)[n], key)
         \/ \E n \in DOMAIN Leaves(json) : IsMember(Leaves(json)[n], key) /\ FieldValue(json, key) = Leaves(json)[n].value
<1> DEFINE found == {mem \in TopLevel(json) : mem.key = key /\ ~mem.isObject}
           first == CHOOSE mem \in found : TRUE
<1>1. FieldValue(json, key) = IF found = {} THEN NoText ELSE first.value
  BY Zenon DEF FieldValue, NoText
<1>2. found # {} => first \in found
  <2> HIDE DEF found
  <2> QED BY Zenon
<1>3. AreMembers(found, json, key)
  <2>1. found = {mem \in TopLevel(json) : mem.key = key /\ ~mem.isObject}
    OBVIOUS
  <2> HIDE DEF found
  <2> QED BY ONLY <2>1, MembersAre
<1> HIDE DEF found, first
<1> QED BY <1>1, <1>2, <1>3 DEF AreMembers

\* A key of one token is the only name of its field.
LEMMA NameOfOne ==
  ASSUME NEW key \in Keys, key # << >> => key[1] # ".", NEW s \in DOMAIN Rank, s # "."
  PROVE  Len(Names(key)) = 1 /\ Names(key)[1] = <<s>> <=> key = <<s>>
<1> DEFINE names == Names(key)
<1>1. /\ names \in Seq(Keys) /\ Len(names) = Depth(key) + 1 /\ DOMAIN names = 1 .. Depth(key) + 1
      /\ \A i \in 1 .. Depth(key) + 1 : names[i] \in Keys
      /\ Depth(key) \in Nat
  BY NamesType, CutsType
<1>2. FullName(names) = key
  BY NamesMakeKey
<1>3. ASSUME Len(names) = 1
      PROVE  names = <<names[1]>> /\ names[1] \in Keys
  <2> HIDE DEF names
  <2>1. 1 \in DOMAIN names /\ Depth(key) + 1 = 1 /\ 1 \in 1 .. Depth(key) + 1
    <3> DEFINE n == Depth(key)
    <3>1. n \in Nat /\ n + 1 = 1 /\ DOMAIN names = 1 .. n + 1
      BY <1>1, <1>3
    <3> HIDE DEF n
    <3> QED BY <3>1 DEF n
  <2>2. names[1] \in Keys
    BY <1>1, <2>1
  <2> DEFINE one == <<names[1]>>
  <2>3. one \in Seq(Keys) /\ Len(one) = 1 /\ one[1] = names[1]
    BY <2>2
  <2> HIDE DEF one
  <2>4. Len(names) = Len(one) /\ \A x \in 1 .. Len(names) : names[x] = one[x]
    BY <1>3, <2>3
  <2>5. names = one
    BY <1>1, <2>3, <2>4, SeqEqual
  <2> QED BY <2>2, <2>5 DEF one
<1>4. Len(names) = 1 => key = names[1]
  <2>1. ASSUME Len(names) = 1 PROVE FullName(<<names[1]>>) = names[1]
    BY <1>3, <2>1, FullNameOfOne
  <2> HIDE DEF names
  <2> QED BY <1>2, <1>3, <2>1
<1>5. ASSUME key = <<s>> PROVE Len(names) = 1
  <2>1. ObjectEnds(key) = {}
    BY <1>5 DEF ObjectEnds
  <2>2. Depth(key) = 0
    BY <2>1, FS_EmptySet DEF Depth
  <2> QED BY <1>1, <2>2
<1> QED BY <1>4, <1>5

\* Flat or not, the values that are read under a key of one token are those written under it.
LEMMA LeavesUnder ==
  ASSUME NEW r, IsRecord(r), config.mode # "jaeger", NEW w, w = Written(Prepared(Fields(r))), NEW json, json = Encode(r),
         NEW s \in DOMAIN Rank, s # "."
  PROVE  /\ DOMAIN Leaves(json) = DOMAIN w
         /\ \A n \in DOMAIN w : /\ IsMember(Leaves(json)[n], <<s>>) <=> w[n].key = <<s>>
                                /\ Leaves(json)[n].value = w[n].value
<1> DEFINE F == Fields(r)
           p == Prepared(F)
           leaves == Leaves(json)
<1>1. /\ F \in FieldsOf(FieldValues) /\ p \in FieldsOf(FieldValues \cup {Ignored}) /\ w \in FieldsOf(FieldValues \cup {Ignored})
      /\ Holds(Range(w), F)
      /\ config.dedot => json = IterJSONDedot(p)
      /\ ~config.dedot => json = IterJSONFlat(p)
  BY EncodeType
<1>2. \A i \in DOMAIN F : F[i].key # << >> /\ F[i].key[1] # "."
  BY RecordFieldsType
<1>3. w = Written(p)
  OBVIOUS
<1> HIDE DEF F, p
<1>4. Len(w) \in Nat /\ DOMAIN w = 1 .. Len(w)
  BY <1>1, FieldsType
<1>5. ASSUME NEW n \in DOMAIN w PROVE w[n].key \in Keys /\ w[n].key # << >> /\ w[n].key[1] # "."
  <2>1. w[n] \in Range(w)
    BY DEF Range
  <2> QED BY <1>1, <1>2, <2>1, HeldKeys, FieldsType
<1>6. CASE config.dedot
  <2>1. leaves = [n \in 1 .. Len(w) |-> [path |-> Names(w[n].key), value |-> w[n].value]]
    BY <1>1, <1>3, <1>6, LeavesDedot
  <2> HIDE DEF leaves
  <2>2. ASSUME NEW n \in DOMAIN w PROVE (IsMember(leaves[n], <<s>>) <=> w[n].key = <<s>>) /\ leaves[n].value = w[n].value
    <3>1. leaves[n].path = Names(w[n].key) /\ leaves[n].value = w[n].value
      BY <1>4, <2>1
    <3>2. Len(Names(w[n].key)) = 1 /\ Names(w[n].key)[1] = <<s>> <=> w[n].key = <<s>>
      BY <1>5, NameOfOne
    <3> QED BY <3>1, <3>2 DEF IsMember
  <2> QED BY <1>4, <2>1, <2>2 DEF leaves
<1>7. CASE ~config.dedot
  <2>1. leaves = [n \in 1 .. Len(w) |-> [path |-> <<w[n].key>>, value |-> w[n].value]]
    BY <1>1, <1>3, <1>7, LeavesFlat
  <2> HIDE DEF leaves
  <2>2. ASSUME NEW n \in DOMAIN w PROVE (IsMember(leaves[n], <<s>>) <=> w[n].key = <<s>>) /\ leaves[n].value = w[n].value
    <3>1. leaves[n].path = <<w[n].key>> /\ leaves[n].value = w[n].value
      BY <1>4, <2>1
    <3> QED BY <3>1 DEF IsMember
  <2> QED BY <1>4, <2>1, <2>2 DEF leaves
<1> QED BY <1>6, <1>7

\* The strings of a span are read as their texts, and found in the index.
LEMMA StringsAreRead ==
  ASSUME NEW r, IsRecord(r), config.mode # "jaeger", config.signal = "traces", NEW s \in Range(SpanStrings), NEW i,
         NEW t, t = Texts(r)
  PROVE  FieldValue(Encode(r), <<s>>) = t[s] /\ Indexed(Document(i, FALSE, Encode(r)), <<s>>) = t[s]
<1> DEFINE json == Encode(r)
           F == Fields(r)
           w == Written(Prepared(F))
           d == Document(i, FALSE, json)
<1>1. w \in FieldsOf(FieldValues \cup {Ignored}) /\ Holds(Range(w), F) /\ LeafFields(json) = w
  BY EncodeType
<1>2. s \in DOMAIN Rank /\ s # "."
  BY TokensType
<1>3. F = SpanFields(r)
  BY DEF Fields
<1>4. /\ DOMAIN Leaves(json) = DOMAIN w
      /\ \A n \in DOMAIN w : /\ IsMember(Leaves(json)[n], <<s>>) <=> w[n].key = <<s>>
                             /\ Leaves(json)[n].value = w[n].value
  BY <1>2, LeavesUnder
<1>5. d.fields = w
  BY <1>1 DEF Document
<1> HIDE DEF F, w, json, d
<1>6. /\ \A h \in Range(w) : h.key = <<s>> => h.value = t[s] /\ t[s] # NoText
      /\ t[s] # NoText => \E h \in Range(w) : h.key = <<s>>
  BY <1>1, <1>3, StringsAreHeld
<1>7. Indexed(d, <<s>>) = t[s]
  <2>1. \/ Indexed(d, <<s>>) = NoText /\ \A h \in Range(w) : h.key # <<s>>
        \/ \E h \in Range(w) : h.key = <<s>> /\ Indexed(d, <<s>>) = h.value
    BY <1>1, <1>5, IndexedIs
  <2> QED BY <1>6, <2>1
<1>8. FieldValue(json, <<s>>) = t[s]
  <2>1. \/ FieldValue(json, <<s>>) = NoText /\ \A n \in DOMAIN Leaves(json) : ~IsMember(Leaves(json)[n], <<s>>)
        \/ \E n \in DOMAIN Leaves(json) : IsMember(Leaves(json)[n], <<s>>) /\ FieldValue(json, <<s>>) = Leaves(json)[n].value
    BY FieldValueIs
  <2>2. \A h : h \in Range(w) <=> \E n \in DOMAIN w : h = w[n]
    BY DEF Range
  <2> QED BY <1>4, <1>6, <2>1, <2>2
<1> QED BY <1>7, <1>8 DEF d, json

\* A sequence that has the elements of two, one after the other.
LEMMA ConcatIs ==
  ASSUME NEW S, NEW a \in Seq(S), NEW b \in Seq(S), NEW c \in Seq(S), Len(c) = Len(a) + Len(b),
         \A i \in 1 .. Len(a) : c[i] = a[i], \A i \in 1 .. Len(b) : c[Len(a) + i] = b[i]
  PROVE  a \o b = c
<1> DEFINE l == a \o b
<1>1. l \in Seq(S) /\ Len(l) = Len(a) + Len(b) /\ Len(a) \in Nat /\ Len(b) \in Nat
  BY ConcatAt
<1>2. \A i \in 1 .. Len(a) : l[i] = a[i]
  BY ConcatAt
<1>3. \A i \in 1 .. Len(b) : l[Len(a) + i] = b[i]
  BY ConcatAt
<1> HIDE DEF l
<1>4. ASSUME NEW i \in 1 .. Len(l) PROVE l[i] = c[i]
  <2>1. CASE i \in 1 .. Len(a)
    BY <1>2, <2>1
  <2>2. CASE i \notin 1 .. Len(a)
    <3> DEFINE j == i - Len(a)
    <3>1. j \in 1 .. Len(b) /\ Len(a) + j = i
      BY <1>1, <2>2
    <3> HIDE DEF j
    <3> QED BY <1>3, <3>1
  <2> QED BY <2>1, <2>2
<1>5. l = c
  BY <1>1, <1>4, SeqEqual
<1> QED BY <1>5 DEF l

\* A name with the separator after it.
LEMMA NameAndDot == ASSUME NEW t \in DOMAIN Rank PROVE <<t>> \o Dot = <<t, ".">>
<1> DEFINE a == <<t>>
           c == <<t, ".">>
           D == DOMAIN Rank
<1>1. "." \in D
  BY RankAssumption DEF RankAssumption
<1>2. a \in Seq(D) /\ Dot \in Seq(D) /\ c \in Seq(D) /\ Len(a) = 1 /\ Len(Dot) = 1 /\ Len(c) = 2
  <2>1. t \in D
    OBVIOUS
  <2> HIDE DEF D
  <2> QED BY <1>1, <2>1 DEF Dot
<1>3. c[1] = a[1] /\ c[2] = Dot[1]
  BY DEF Dot
<1> HIDE DEF a, c, D
<1>4. Len(c) = Len(a) + Len(Dot) /\ \A i \in 1 .. Len(a) : i = 1 /\ \A j \in 1 .. Len(Dot) : j = 1
  BY <1>2
<1>5. \A i \in 1 .. Len(a) : c[i] = a[i]
  BY <1>2, <1>3
<1>6. \A i \in 1 .. Len(Dot) : c[Len(a) + i] = Dot[i]
  BY <1>2, <1>3
<1>7. a \o Dot = c
  BY <1>2, <1>4, <1>5, <1>6, ConcatIs
<1> QED BY <1>7 DEF a, c

\* The full name of a service's name.
LEMMA ServiceKeys ==
  /\ ServiceField \in Keys /\ ServiceField # << >> /\ Len(ServiceField) = 5
  /\ ServiceField[1] = "Resource" /\ ServiceField[5] = "name"
  /\ <<ServiceNameKey>> \in Seq(Keys)
  /\ FullKey(<<"Resource">>, <<ServiceNameKey>>) = ServiceField
<1> DEFINE P == <<"Resource">>
           s == ServiceNameKey
           D == DOMAIN Rank
<1>1. "Resource" \in D /\ "." \in D /\ "service" \in D /\ "name" \in D
  BY TokensType DEF Objects
<1>2. P \in Keys /\ s \in Keys /\ Dot \in Keys /\ P # << >> /\ s # << >>
  <2> HIDE DEF D
  <2> QED BY <1>1 DEF Keys, ServiceNameKey, Dot, D
<1>3. ServiceField = <<"Resource", ".", "service", ".", "name">>
  <2> DEFINE a == <<"Resource", ".">>
             b == <<"service", ".", "name">>
             c == <<"Resource", ".", "service", ".", "name">>
  <2>1. a \in Seq(D) /\ b \in Seq(D) /\ c \in Seq(D) /\ Len(a) = 2 /\ Len(b) = 3 /\ Len(c) = 5
    <3> HIDE DEF D
    <3> QED BY <1>1
  <2>2. c[1] = a[1] /\ c[2] = a[2] /\ c[3] = b[1] /\ c[4] = b[2] /\ c[5] = b[3]
    OBVIOUS
  <2> HIDE DEF D, a, b, c
  <2>3. /\ \A i \in 1 .. Len(a) : i = 1 \/ i = 2
        /\ \A i \in 1 .. Len(b) : i = 1 \/ i = 2 \/ i = 3
    BY <2>1
  <2>4. Len(a) + 1 = 3 /\ Len(a) + 2 = 4 /\ Len(a) + 3 = 5
    BY <2>1
  <2>5. \A i \in 1 .. Len(a) : c[i] = a[i]
    BY <2>2, <2>3
  <2>6. \A i \in 1 .. Len(b) : c[Len(a) + i] = b[i]
    BY <2>2, <2>3, <2>4
  <2>7. Len(c) = Len(a) + Len(b)
    BY <2>1
  <2>8. a \o b = c
    BY ONLY <2>1, <2>5, <2>6, <2>7, ConcatIs
  <2> QED BY <2>8 DEF ServiceField, ServiceNameKey, a, b, c
<1>4. ServiceField \in Keys
  <2> HIDE DEF D
  <2>1. <<"Resource", ".", "service", ".", "name">> \in Seq(D)
    BY <1>1
  <2> QED BY <1>3, <2>1 DEF Keys, D
<1>5. /\ ServiceField # << >> /\ Len(ServiceField) = 5
      /\ ServiceField[1] = "Resource" /\ ServiceField[5] = "name"
  BY <1>3
<1>6. FullKey(P, <<s>>) = ServiceField
  <2> DEFINE names == <<s>>
  <2>1. names \in Seq(Keys) /\ names # << >> /\ names[1] = s
    BY <1>2
  <2> HIDE DEF P, s
  <2>2. FullName(<<s>>) = s
    BY <1>2, FullNameOfOne
  <2>3. FullKey(<< >>, names) = s
    BY <2>2 DEF FullName
  <2> HIDE DEF names
  <2>4. FullKey(P, names) = P \o Dot \o FullKey(<< >>, names)
    BY <1>2, <2>1, FullKeyBelow
  <2>5. FullKey(P, names) = P \o Dot \o s
    BY <2>3, <2>4
  <2>6. P \o Dot = <<"Resource", ".">>
    BY <1>1, NameAndDot DEF P
  <2>7. P \o Dot \o s = ServiceField
    BY <2>6 DEF s, ServiceField
  <2> QED BY <2>5, <2>7 DEF names
<1> QED BY <1>2, <1>4, <1>5, <1>6

\* The attributes of a resource that say what the service is.
OfService(span) ==
  {i \in DOMAIN span.resource : IsPrefix(ServiceField, FullKey(<<"Resource">>, span.resource[i].names))}

\* Of a span that says what its service is they have its name, and are the first of it.
LEMMA ServiceIsSaid ==
  ASSUME NEW r, IsRecord(r), SaysItsService(r)
  PROVE  /\ \A i, j \in OfService(r) : i = j
         /\ \A j \in OfService(r) : /\ j \in DOMAIN r.resource /\ r.resource[j].names = <<ServiceNameKey>>
                                    /\ r.resource[j].value \notin {Null, Nil} /\ r.resource[j].value # NoText
                                    /\ r.resource[j].value \in DOMAIN Words
                                    /\ ServiceName(r) = <<r.resource[j].value>>
         /\ OfService(r) = {} => ServiceName(r) = << >>
<1> DEFINE R == OfService(r)
           I == {i \in 1 .. Len(r.resource) : r.resource[i].names = <<ServiceNameKey>>}
           n == IF I # {} THEN Min(I) ELSE 0
<1>1. \A i, j \in R : i = j
  BY DEF SaysItsService, OfService
<1>2. \A i \in R : r.resource[i].names = <<ServiceNameKey>> /\ r.resource[i].value # NoText
  BY Zenon DEF SaysItsService, OfService, NoText
<1>3. \A i \in R : i \in DOMAIN r.resource
  BY DEF OfService
<1>4. r.resource \in Seq(LeafType) /\ \A a \in Range(r.resource) :
        a.names = <<ServiceNameKey>> => a.value \in DOMAIN Words
  BY NamedType DEF IsRecord
<1>5. Len(r.resource) \in Nat /\ DOMAIN r.resource = 1 .. Len(r.resource)
  BY <1>4
<1>6. \A i \in DOMAIN r.resource : r.resource[i] \in Range(r.resource)
  BY DEF Range
<1>7. I = R
  <2>1. \A i \in R : i \in I
    BY <1>2, <1>3, <1>5
  <2>2. ASSUME NEW i \in I PROVE i \in R
    <3>1. FullKey(<<"Resource">>, r.resource[i].names) = ServiceField
      BY ServiceKeys
    <3>2. IsPrefix(ServiceField, ServiceField)
      BY ServiceKeys DEF IsPrefix
    <3> QED BY <1>5, <3>1, <3>2 DEF OfService
  <2> QED BY <2>1, <2>2
<1>8. ServiceName(r) = IF n = 0 THEN << >> ELSE <<r.resource[n].value>>
  BY DEF ServiceName, SelectInSeq
<1>9. ASSUME NEW j \in R
      PROVE  /\ r.resource[j].value \in DOMAIN Words /\ ServiceName(r) = <<r.resource[j].value>>
  <2>1. I # {} /\ \A i \in I : i = j
    BY <1>1, <1>7
  <2> HIDE DEF I
  <2>2. Min(I) = j
    BY <1>3, <1>5, <1>7, <2>1 DEF Min
  <2>3. n = j /\ n # 0
    BY <1>3, <1>5, <2>1, <2>2
  <2> HIDE DEF n
  <2> QED BY <1>2, <1>3, <1>4, <1>6, <1>8, <2>3
<1>10. R = {} => ServiceName(r) = << >>
  BY <1>7, <1>8
<1>11. \A v \in DOMAIN Words : v \notin {Null, Nil}
  BY StoreAssumption DEF StoreAssumption
<1> QED BY <1>1, <1>2, <1>3, <1>9, <1>10, <1>11

\* A name that starts with that of the service is that of such an attribute.
LEMMA ServiceFields ==
  ASSUME NEW r, IsRecord(r), SaysItsService(r), NEW F, F = SpanFields(r)
  PROVE  /\ \A i \in DOMAIN F : IsPrefix(ServiceField, F[i].key) =>
              F[i].key = ServiceField /\ \E j \in OfService(r) : F[i].value = r.resource[j].value
         /\ \A j \in OfService(r) : \E i \in DOMAIN F : F[i].key = ServiceField
<1> DEFINE H == AddStrings(SpanStrings, Texts(r))
           A == Below(<<"Attributes">>, r.attributes)
           Q == Below(<<"Resource">>, r.resource)
           leaves == LeavesOf(r.resource)
<1>1. /\ F \in FieldsOf(FieldValues) /\ H \in FieldsOf(FieldValues) /\ A \in FieldsOf(FieldValues) /\ Q \in FieldsOf(FieldValues)
      /\ Len(H) + Len(A) + Len(Q) <= Len(F)
      /\ \A i \in 1 .. Len(Q) : F[Len(H) + Len(A) + i] = Q[i]
  BY SpanFieldsType
<1>2. /\ Len(H) \in Nat /\ Len(A) \in Nat /\ Len(Q) \in Nat /\ Len(F) \in Nat
      /\ DOMAIN F = 1 .. Len(F) /\ DOMAIN H = 1 .. Len(H) /\ DOMAIN Q = 1 .. Len(Q)
      /\ \A i \in DOMAIN F : F[i].key \in Keys
  BY <1>1, FieldsType
<1>3. <<"Resource">> \in Keys
  BY TokensType DEF Objects
<1>4. r.resource \in Seq(LeafType)
  BY NamedType DEF IsRecord
<1>5. /\ DOMAIN Q = DOMAIN leaves
      /\ \A i \in DOMAIN Q : /\ Q[i].key = FullKey(<<"Resource">>, leaves[i].names)
                             /\ Q[i].value = leaves[i].value
  BY <1>3, <1>4, BelowType
<1>6. /\ \A i \in DOMAIN leaves : \E j \in DOMAIN r.resource : leaves[i] = r.resource[j]
      /\ \A j \in DOMAIN r.resource : r.resource[j].value # Null => \E i \in DOMAIN leaves : leaves[i] = r.resource[j]
  BY <1>4, LeavesOfType
<1>7. \A i \in DOMAIN F : \/ \E j \in DOMAIN H : F[i] = H[j]
                          \/ \E j \in 1 .. Len(A) : StartsIn(F[i], {"Attributes"})
                          \/ \E j \in 1 .. Len(Q) : i = Len(H) + Len(A) + j
                          \/ StartsIn(F[i], {"Events"})
  BY SpanFieldsParts
<1>8. \A i \in DOMAIN H : \E s \in Range(SpanStrings) : H[i].key = <<s>>
  BY HeadStarts
<1> HIDE DEF H, A, Q, leaves
<1>9. ASSUME NEW i \in DOMAIN F, IsPrefix(ServiceField, F[i].key)
      PROVE  F[i].key = ServiceField /\ \E j \in OfService(r) : F[i].value = r.resource[j].value
  <2> DEFINE k == F[i].key
  <2>1. k \in Keys /\ Len(k) \in Nat /\ Len(k) >= 5 /\ k[1] = "Resource"
    <3>1. Len(ServiceField) <= Len(k) /\ SubSeq(ServiceField, 1, Len(ServiceField)) = SubSeq(k, 1, Len(ServiceField))
      BY <1>9 DEF IsPrefix
    <3>2. k \in Keys
      BY <1>2
    <3> HIDE DEF k
    <3>3. Len(k) \in Nat /\ 5 <= Len(k) /\ SubSeq(ServiceField, 1, 5) = SubSeq(k, 1, 5)
      BY <3>1, <3>2, ServiceKeys DEF Keys
    <3>4. SubSeq(k, 1, 5)[1] = k[1] /\ SubSeq(ServiceField, 1, 5)[1] = ServiceField[1]
      BY <3>2, <3>3, ServiceKeys DEF Keys
    <3> QED BY <3>2, <3>3, <3>4, ServiceKeys
  <2>2. ~\E j \in DOMAIN H : F[i] = H[j]
    <3> SUFFICES ASSUME NEW j \in DOMAIN H, F[i] = H[j] PROVE FALSE
      OBVIOUS
    <3>1. PICK s \in Range(SpanStrings) : H[j].key = <<s>>
      BY <1>8
    <3>2. k = <<s>> /\ Len(<<s>>) = 1
      BY <3>1
    <3> HIDE DEF k
    <3> QED BY <2>1, <3>2
  <2>3. ~StartsIn(F[i], {"Attributes"}) /\ ~StartsIn(F[i], {"Events"})
    BY <2>1 DEF StartsIn
  <2>4. PICK j \in 1 .. Len(Q) : i = Len(H) + Len(A) + j
    BY <1>7, <2>2, <2>3
  <2>5. F[i] = Q[j] /\ j \in DOMAIN Q
    BY <1>1, <1>2, <2>4
  <2>6. PICK m \in DOMAIN r.resource : leaves[j] = r.resource[m]
    BY <1>5, <1>6, <2>5
  <2>7. k = FullKey(<<"Resource">>, r.resource[m].names) /\ F[i].value = r.resource[m].value
    BY <1>5, <2>5, <2>6
  <2>8. m \in OfService(r)
    BY <1>9, <2>7 DEF OfService
  <2>9. r.resource[m].names = <<ServiceNameKey>>
    BY <2>8, ServiceIsSaid
  <2>10. k = ServiceField
    BY <2>7, <2>9, ServiceKeys
  <2> QED BY <2>7, <2>8, <2>10
<1>10. ASSUME NEW j \in OfService(r) PROVE \E i \in DOMAIN F : F[i].key = ServiceField
  <2>1. j \in DOMAIN r.resource /\ r.resource[j].names = <<ServiceNameKey>> /\ r.resource[j].value # Null
    BY ServiceIsSaid
  <2>2. PICK m \in DOMAIN leaves : leaves[m] = r.resource[j]
    BY <1>6, <2>1
  <2>3. Q[m].key = ServiceField
    BY <1>5, <2>1, <2>2, ServiceKeys
  <2>4. m \in 1 .. Len(Q)
    BY <1>2, <1>5, <2>2
  <2>5. Len(H) + Len(A) + m \in DOMAIN F /\ F[Len(H) + Len(A) + m] = Q[m]
    BY <1>1, <1>2, <2>4
  <2> QED BY <2>3, <2>5
<1> QED BY <1>9, <1>10

\* What is held under the service's name is the service.
LEMMA ServiceIsHeld ==
  ASSUME NEW r, IsRecord(r), SaysItsService(r), NEW F, F = SpanFields(r), NEW held, Holds(held, F)
  PROVE  /\ \A h \in held : h.key = ServiceField => \E j \in OfService(r) : h.value = r.resource[j].value
         /\ OfService(r) # {} => \E h \in held : h.key = ServiceField
<1> DEFINE k == ServiceField
<1>1. F \in FieldsOf(FieldValues) /\ \A i \in DOMAIN F : F[i].key # << >>
  BY SpanFieldsStart DEF StartsIn
<1>2. \A i \in DOMAIN F : F[i].key \in Keys
  BY <1>1, FieldsType
<1>3. /\ \A i \in DOMAIN F : IsPrefix(k, F[i].key) =>
           F[i].key = k /\ \E j \in OfService(r) : F[i].value = r.resource[j].value
      /\ \A j \in OfService(r) : \E i \in DOMAIN F : F[i].key = k
  BY ServiceFields
<1>4. k \in Keys /\ Len(k) = 5 /\ k[5] = "name" /\ k # << >>
  BY ServiceKeys
<1> HIDE DEF k
<1>5. ASSUME NEW h \in held, h.key = k PROVE \E j \in OfService(r) : h.value = r.resource[j].value
  <2>1. PICK i \in DOMAIN F : h.value = F[i].value /\ (h.key = F[i].key \/ h.key = ValueOf(F[i].key))
    BY <1>1, HeldKeys
  <2> DEFINE l == F[i].key
  <2>2. k # ValueOf(l)
    <3>1. l \in Keys
      BY <1>2
    <3> HIDE DEF l
    <3>2. Len(ValueOf(l)) = Len(l) + 2 /\ ValueOf(l)[Len(l) + 2] = "value" /\ Len(l) \in Nat
      BY <3>1, ValueOfType
    <3> DEFINE v == ValueOf(l)
    <3>3. Len(v) = Len(l) + 2 /\ v[Len(l) + 2] = "value" /\ Len(l) \in Nat
      BY <3>2
    <3> HIDE DEF v
    <3>4. ASSUME k = v PROVE FALSE
      <4>1. Len(l) + 2 = 5
        BY <1>4, <3>3, <3>4
      <4> QED BY <1>4, <3>3, <3>4, <4>1
    <3> QED BY <3>4 DEF v
  <2>3. F[i].key = k
    BY <1>5, <2>1, <2>2
  <2>4. IsPrefix(k, k)
    BY <1>4 DEF IsPrefix
  <2> QED BY <1>3, <2>1, <2>3, <2>4
<1>6. ASSUME OfService(r) # {} PROVE \E h \in held : h.key = k
  <2> DEFINE x == [key |-> k, value |-> LastValue(F, k)]
  <2>1. PICK i \in DOMAIN F : F[i].key = k
    BY <1>3, <1>6
  <2>5. LastValue(F, k) # Nil
    <3>1. PICK m \in DOMAIN F : F[m].key = k /\ LastValue(F, k) = F[m].value
      BY <1>1, <2>1, LastValueIs
    <3>2. IsPrefix(k, k)
      BY <1>4 DEF IsPrefix
    <3>3. PICK j \in OfService(r) : F[m].value = r.resource[j].value
      BY <1>3, <3>1, <3>2
    <3>4. r.resource[j].value # Nil
      BY ServiceIsSaid
    <3> QED BY <3>1, <3>3, <3>4
  <2>2. x \in held \/ IsObject(F, k)
    BY <2>1, <2>5 DEF Holds
  <2>3. x.key = k
    OBVIOUS
  <2> HIDE DEF x
  <2>4. ASSUME IsObject(F, k) PROVE FALSE
    <3>1. PICK j \in DOMAIN F : IsObjectOf(k, F[j].key)
      BY <2>4 DEF IsObject, IsObjectOf
    <3> DEFINE l == F[j].key
    <3>2. l \in Keys /\ Alike(k, l, Len(k)) /\ Len(k) < Len(l)
      BY <1>2, <1>4, <3>1, ObjectOfKey
    <3> HIDE DEF l
    <3>3. k \in Keys /\ l \in Keys /\ Alike(k, l, Len(k)) /\ Len(k) < Len(l)
      BY <1>4, <3>2
    <3>4. Len(k) \in Nat /\ Len(l) \in Nat /\ Len(k) <= Len(l) /\ Len(k) # Len(l)
      BY ONLY <3>3 DEF Keys
    <3>5. SubSeq(k, 1, Len(k)) = SubSeq(l, 1, Len(k))
      BY ONLY <3>3, <3>4, AlikeIsPrefix
    <3>6. IsPrefix(k, l)
      BY <3>4, <3>5 DEF IsPrefix
    <3>7. l = k
      BY <1>3, <3>6 DEF l
    <3> QED BY ONLY <3>4, <3>7
  <2> QED BY <2>2, <2>3, <2>4
<1> QED BY <1>5, <1>6 DEF k

\* A query by words finds the spans of the service.
LEMMA ServiceIsFound ==
  ASSUME NEW r, IsRecord(r), config.mode # "jaeger", config.signal = "traces", SaysItsService(r), NEW i,
         NEW service
  PROVE  IsOfService(Document(i, FALSE, Encode(r)), service) <=> IsSpanOf(r, service)
<1> DEFINE json == Encode(r)
           F == Fields(r)
           w == Written(Prepared(F))
           d == Document(i, FALSE, json)
           found == Indexed(d, ServiceField)
<1>1. w \in FieldsOf(FieldValues \cup {Ignored}) /\ Holds(Range(w), F) /\ LeafFields(json) = w
  BY EncodeType
<1>2. F = SpanFields(r)
  BY DEF Fields
<1>3. d.fields = w
  BY <1>1 DEF Document
<1> HIDE DEF F, w, d
<1>4. /\ \A h \in Range(w) : h.key = ServiceField => \E j \in OfService(r) : h.value = r.resource[j].value
      /\ OfService(r) # {} => \E h \in Range(w) : h.key = ServiceField
  BY <1>1, <1>2, ServiceIsHeld
<1>5. \/ found = NoText /\ \A h \in Range(w) : h.key # ServiceField
      \/ \E h \in Range(w) : h.key = ServiceField /\ found = h.value
  BY <1>1, <1>3, IndexedIs
<1>6. /\ IsOfService(d, service) <=> service = NoText \/ (found # NoText /\ service \in WordsOf(found))
      /\ IsSpanOf(r, service) <=>
           service = NoText \/ (ServiceName(r) # << >> /\ service \in Words[ServiceName(r)[1]])
  BY Zenon DEF IsOfService, IsSpanOf, HasTerm, NoText
<1> HIDE DEF found
<1>7. \A s : <<s>>[1] = s /\ <<s>> # << >>
  OBVIOUS
<1>8. CASE OfService(r) = {}
  <2>1. found = NoText
    BY <1>4, <1>5, <1>8
  <2>2. ServiceName(r) = << >>
    BY <1>8, ServiceIsSaid
  <2> QED BY <1>6, <2>1, <2>2 DEF d
<1>9. CASE OfService(r) # {}
  <2>1. PICK j \in OfService(r) : found = r.resource[j].value
    BY <1>4, <1>5, <1>9
  <2>2. /\ r.resource[j].value # NoText /\ r.resource[j].value \in DOMAIN Words
        /\ ServiceName(r) = <<r.resource[j].value>>
    BY ServiceIsSaid
  <2>3. found # NoText /\ found \in DOMAIN Words /\ ServiceName(r) = <<found>>
    BY <2>1, <2>2
  <2>4. WordsOf(found) = Words[found]
    BY <2>3 DEF WordsOf
  <2>5. ServiceName(r) # << >> /\ ServiceName(r)[1] = found
    BY <1>7, <2>3
  <2> QED BY <1>6, <2>3, <2>4, <2>5 DEF d
<1> QED BY <1>8, <1>9
-----------------------------------------------------------------------------
(* The attributes that are read of it.                                      *)

\* The key K is k below a name.
IsBelow(name, k, K) ==
  /\ k \in Keys /\ K \in Keys /\ K # << >> /\ Len(K) = Len(k) + 2 /\ Len(k) \in Nat
  /\ K[1] = name /\ K[2] = "." /\ \A i \in 1 .. Len(k) : K[2 + i] = k[i]

\* A name, a separator and a key.
LEMMA KeyBelow ==
  ASSUME NEW name \in DOMAIN Rank, NEW k \in Keys
  PROVE  IsBelow(name, k, <<name, ".">> \o k)
<1> DEFINE P == <<name, ".">>
           K == P \o k
<1>1. "." \in DOMAIN Rank
  BY RankAssumption DEF RankAssumption
<1>2. P \in Keys /\ Len(P) = 2 /\ P[1] = name /\ P[2] = "." /\ P # << >>
  BY <1>1 DEF Keys
<1> HIDE DEF P
<1>3. /\ K \in Keys /\ Len(K) = Len(P) + Len(k) /\ Len(P) \in Nat /\ Len(k) \in Nat
      /\ \A i \in 1 .. Len(P) : K[i] = P[i]
      /\ \A i \in 1 .. Len(k) : K[Len(P) + i] = k[i]
      /\ P # << >> => K # << >>
  BY <1>2, KeysConcat
<1> HIDE DEF K
<1>4. 1 \in 1 .. Len(P) /\ 2 \in 1 .. Len(P)
  BY <1>2
<1>5. K[1] = name /\ K[2] = "." /\ \A i \in 1 .. Len(k) : K[2 + i] = k[i]
  BY <1>2, <1>3, <1>4
<1>6. Len(K) = Len(k) + 2
  BY <1>2, <1>3
<1>7. IsBelow(name, k, K)
  BY <1>2, <1>3, <1>5, <1>6 DEF IsBelow
<1> QED BY <1>7 DEF K, P

\* Below the same name keys are the same and name objects of each other as they did.
LEMMA KeysBelow ==
  ASSUME NEW name, NEW k, NEW K, IsBelow(name, k, K), NEW l, NEW L, IsBelow(name, l, L)
  PROVE  /\ K = L <=> k = l
         /\ IsObjectOf(K, L) <=> IsObjectOf(k, l)
<1> USE DEF IsBelow
<1>1. \A i \in 1 .. Len(K) : i = 1 \/ i = 2 \/ (i - 2 \in 1 .. Len(k) /\ 2 + (i - 2) = i)
  OBVIOUS
<1>2. \A i \in 1 .. Len(k) : 2 + i \in 1 .. Len(K)
  OBVIOUS
<1>3. ASSUME Len(k) <= Len(l)
      PROVE  Alike(K, L, Len(K)) <=> Alike(k, l, Len(k))
  <2>1. Len(K) <= Len(L) /\ \A i \in 1 .. Len(k) : i \in 1 .. Len(l)
    BY <1>3
  <2>2. ASSUME Alike(K, L, Len(K)) PROVE Alike(k, l, Len(k))
    <3>1. \A i \in 1 .. Len(k) : K[2 + i] = L[2 + i]
      BY <1>2, <2>2 DEF Alike
    <3> QED BY <1>3, <2>1, <3>1 DEF Alike
  <2>3. ASSUME Alike(k, l, Len(k)) PROVE Alike(K, L, Len(K))
    <3>1. ASSUME NEW i \in 1 .. Len(K) PROVE K[i] = L[i]
      <4>1. CASE i = 1 \/ i = 2
        BY <4>1
      <4>2. CASE i # 1 /\ i # 2
        <5> DEFINE j == i - 2
        <5>1. j \in 1 .. Len(k) /\ 2 + j = i /\ j \in 1 .. Len(l)
          BY <1>1, <2>1, <4>2
        <5> HIDE DEF j
        <5>2. k[j] = l[j]
          BY <2>3, <5>1 DEF Alike
        <5> QED BY <5>1, <5>2
      <4> QED BY <4>1, <4>2
    <3> QED BY <2>1, <3>1 DEF Alike
  <2> QED BY <2>2, <2>3
<1>4. K = L => k = l
  <2> SUFFICES ASSUME K = L PROVE k = l
    OBVIOUS
  <2>1. Len(k) = Len(l)
    OBVIOUS
  <2>2. \A i \in 1 .. Len(k) : k[i] = l[i]
    BY <2>1
  <2> QED BY <2>1, <2>2, SeqEqual DEF Keys
<1>5. k = l => K = L
  <2> SUFFICES ASSUME k = l PROVE K = L
    OBVIOUS
  <2>1. Alike(k, l, Len(k))
    BY DEF Alike
  <2>2. Alike(K, L, Len(K)) /\ Len(K) = Len(L)
    BY <1>3, <2>1
  <2> QED BY <2>2, SeqEqual DEF Alike, Keys
<1>6. IsObjectOf(K, L) <=> Alike(K, L, Len(K)) /\ Len(K) < Len(L) /\ L[Len(K) + 1] = "."
  BY ObjectOfKey
<1>7. IsObjectOf(k, l) <=> Alike(k, l, Len(k)) /\ Len(k) < Len(l) /\ l[Len(k) + 1] = "."
  BY ObjectOfKey
<1>8. ASSUME Len(k) < Len(l) PROVE L[Len(K) + 1] = l[Len(k) + 1]
  <2>1. Len(k) + 1 \in 1 .. Len(l) /\ 2 + (Len(k) + 1) = Len(K) + 1
    BY <1>8
  <2> QED BY <2>1
<1>9. Len(K) < Len(L) <=> Len(k) < Len(l)
  OBVIOUS
<1>10. Len(k) < Len(l) => Len(k) <= Len(l)
  OBVIOUS
<1> HIDE DEF IsBelow
<1>11. IsObjectOf(K, L) <=> IsObjectOf(k, l)
  BY <1>3, <1>6, <1>7, <1>8, <1>9, <1>10
<1> QED BY <1>4, <1>5, <1>11

\* The value of an object is below the name if the object is.
LEMMA ValueBelow ==
  ASSUME NEW name, NEW k, NEW K, IsBelow(name, k, K)
  PROVE  IsBelow(name, ValueOf(k), ValueOf(K))
<1> DEFINE v == ValueOf(k)
           W == ValueOf(K)
<1>1. k \in Keys /\ K \in Keys /\ Len(K) = Len(k) + 2 /\ Len(k) \in Nat
  BY DEF IsBelow
<1>2. /\ v \in Keys /\ Len(v) = Len(k) + 2 /\ \A i \in 1 .. Len(k) : v[i] = k[i]
      /\ v[Len(k) + 1] = "." /\ v[Len(k) + 2] = "value"
  BY <1>1, ValueOfType
<1>3. /\ W \in Keys /\ Len(W) = Len(K) + 2 /\ \A i \in 1 .. Len(K) : W[i] = K[i]
      /\ W[Len(K) + 1] = "." /\ W[Len(K) + 2] = "value"
  BY <1>1, ValueOfType
<1> HIDE DEF v, W
<1>4. /\ 1 \in 1 .. Len(K) /\ 2 \in 1 .. Len(K) /\ Len(W) = Len(v) + 2 /\ Len(v) \in Nat
      /\ 2 + (Len(k) + 1) = Len(K) + 1 /\ 2 + (Len(k) + 2) = Len(K) + 2
  BY <1>1, <1>2, <1>3
<1>5. W[1] = name /\ W[2] = "."
  BY <1>3, <1>4 DEF IsBelow
<1>6. W # << >>
  BY <1>2, <1>3, <1>4
<1>7. ASSUME NEW i \in 1 .. Len(v) PROVE W[2 + i] = v[i]
  <2>1. CASE i \in 1 .. Len(k)
    <3>1. 2 + i \in 1 .. Len(K)
      BY <1>1, <2>1
    <3>2. K[2 + i] = k[i]
      BY <2>1 DEF IsBelow
    <3> QED BY <1>2, <1>3, <2>1, <3>1, <3>2
  <2>2. CASE i = Len(k) + 1
    BY <1>2, <1>3, <1>4, <2>2
  <2>3. CASE i = Len(k) + 2
    BY <1>2, <1>3, <1>4, <2>3
  <2>4. i \in 1 .. Len(k) \/ i = Len(k) + 1 \/ i = Len(k) + 2
    BY <1>1, <1>2
  <2> QED BY <2>1, <2>2, <2>3, <2>4
<1>8. IsBelow(name, v, W)
  BY <1>2, <1>3, <1>4, <1>5, <1>6, <1>7 DEF IsBelow
<1> QED BY <1>8 DEF v, W

\* The reader finds the name and takes it away.
LEMMA NameIsTrimmed ==
  ASSUME NEW name, NEW k, NEW K, IsBelow(name, k, K)
  PROVE  HasName(K, name) /\ TrimPrefix(K, name) = k
<1> DEFINE P == <<name, ".">>
           t == SubSeq(K, 3, Len(K))
<1>1. k \in Keys /\ K \in Keys /\ Len(K) = Len(k) + 2 /\ Len(k) \in Nat /\ K[1] = name /\ K[2] = "."
  BY DEF IsBelow
<1>2. HasName(K, name)
  <2>1. 1 \in 1 .. Len(K) - 1 /\ K[1 + 1] = "."
    BY <1>1
  <2> QED BY <1>1, <2>1 DEF HasName
<1>3. P \in Keys /\ Len(P) = 2 /\ P[1] = name /\ P[2] = "."
  <2>1. DOMAIN K = 1 .. Len(K) /\ \A i \in 1 .. Len(K) : K[i] \in DOMAIN Rank
    BY <1>1 DEF Keys
  <2>2. name \in DOMAIN Rank /\ "." \in DOMAIN Rank
    BY <1>1, <2>1
  <2> QED BY <2>2 DEF Keys
<1> HIDE DEF P
<1>4. IsPrefix(P, K)
  <2>1. Len(P) <= Len(K) /\ 2 <= Len(P) /\ 2 <= Len(K) /\ \A i \in 1 .. 2 : i = 1 \/ i = 2
    BY <1>1, <1>3
  <2>2. Alike(P, K, 2)
    BY <1>1, <1>3, <2>1 DEF Alike
  <2>3. SubSeq(P, 1, 2) = SubSeq(K, 1, 2)
    BY <1>1, <1>3, <2>1, <2>2, AlikeIsPrefix
  <2> QED BY <1>3, <2>1, <2>3 DEF IsPrefix
<1>5. t \in Keys /\ Len(t) = Len(k) /\ \A i \in 1 .. Len(k) : t[i] = K[2 + i]
  BY <1>1 DEF Keys
<1> HIDE DEF t
<1>6. \A i \in 1 .. Len(t) : t[i] = k[i]
  BY <1>5 DEF IsBelow
<1>7. t = k
  BY <1>1, <1>5, <1>6, SeqEqual DEF Keys
<1>8. TrimPrefix(K, name) = t
  BY <1>4 DEF TrimPrefix, P, t
<1> QED BY <1>2, <1>7, <1>8

\* The last value of a key is held, under the key or under that of the object's value,
\* unless it is empty or a field of that name is in its way.
HoldsKey(held, fields, k) ==
  \/ LastValue(fields, k) = Nil
  \/ [key |-> k, value |-> LastValue(fields, k)] \in held
  \/ /\ IsObject(fields, k)
     /\ \/ \E i \in DOMAIN fields : fields[i].key = ValueOf(k)
        \/ [key |-> ValueOf(k), value |-> LastValue(fields, k)] \in held

\* What is held is one of the fields.
IsOneOf(h, fields) ==
  \E i \in DOMAIN fields : fields[i].value = h.value /\ (h.key = fields[i].key \/ h.key = ValueOf(fields[i].key))

\* Fields are held if the key of each is, and nothing else.
LEMMA HoldsEach ==
  ASSUME NEW fields, \A i \in DOMAIN fields : fields[i].key \in Keys, NEW held
  PROVE  Holds(held, fields) <=> /\ \A i \in DOMAIN fields : HoldsKey(held, fields, fields[i].key)
                                 /\ \A h \in held : IsOneOf(h, fields)
<1> DEFINE keys == {fields[i].key : i \in DOMAIN fields}
           HeldAt(k) == \/ LastValue(fields, k) = Nil
                        \/ [key |-> k, value |-> LastValue(fields, k)] \in held
                        \/ /\ IsObject(fields, k)
                           /\ AsValue(k) \in keys \/ [key |-> AsValue(k), value |-> LastValue(fields, k)] \in held
           From(h) == \E i \in DOMAIN fields : /\ fields[i].value = h.value
                                             /\ h.key \in {fields[i].key, AsValue(fields[i].key)}
<1>1. Holds(held, fields) <=> (\A k \in keys : HeldAt(k)) /\ \A h \in held : From(h)
  BY Zenon DEF Holds
<1>2. \A i \in DOMAIN fields : fields[i].key \in keys /\ ValueOf(fields[i].key) = AsValue(fields[i].key)
  BY ValueOfType DEF AsValue
<1>3. \A k \in keys : \E i \in DOMAIN fields : k = fields[i].key
  OBVIOUS
<1>4. \A k : k \in keys <=> \E i \in DOMAIN fields : fields[i].key = k
  OBVIOUS
<1>5. ASSUME NEW i \in DOMAIN fields PROVE HeldAt(fields[i].key) <=> HoldsKey(held, fields, fields[i].key)
  <2> DEFINE k == fields[i].key
             v == ValueOf(k)
             last == LastValue(fields, k)
  <2>1. AsValue(k) = v /\ (v \in keys <=> \E x \in DOMAIN fields : fields[x].key = v)
    BY <1>2, <1>4
  <2>2. HeldAt(k) <=> \/ last = Nil
                      \/ [key |-> k, value |-> last] \in held
                      \/ IsObject(fields, k) /\ (v \in keys \/ [key |-> v, value |-> last] \in held)
    BY <2>1, Zenon
  <2>3. HoldsKey(held, fields, k) <=>
          \/ last = Nil
          \/ [key |-> k, value |-> last] \in held
          \/ /\ IsObject(fields, k)
             /\ (\E x \in DOMAIN fields : fields[x].key = v) \/ [key |-> v, value |-> last] \in held
    BY Zenon DEF HoldsKey
  <2> HIDE DEF k, v, last, keys, HeldAt
  <2> QED BY <2>1, <2>2, <2>3, Zenon DEF k
<1>6. \A h : From(h) <=> IsOneOf(h, fields)
  BY <1>2 DEF IsOneOf
<1> HIDE DEF keys, HeldAt, From
<1> QED BY <1>1, <1>2, <1>3, <1>5, <1>6

\* The texts of fields have their keys, and of each key the text of the last value.
LEMMA SaidIs ==
  ASSUME NEW V, NEW fields \in FieldsOf(V)
  PROVE  /\ DOMAIN Said(fields) = DOMAIN fields
         /\ \A i \in DOMAIN fields :
              /\ Said(fields)[i].key = fields[i].key
              /\ Said(fields)[i].value = IF fields[i].value = Nil THEN Nil ELSE Sprint(fields[i].value)
              /\ LET last == LastValue(fields, fields[i].key)
                 IN  LastValue(Said(fields), fields[i].key) = IF last = Nil THEN Nil ELSE Sprint(last)
<1> DEFINE said == Said(fields)
<1>1. said = [i \in DOMAIN fields |->
                [key |-> fields[i].key, value |-> IF fields[i].value = Nil THEN Nil ELSE Sprint(fields[i].value)]]
  BY DEF Said
<1> HIDE DEF said
<1>2. DOMAIN said = DOMAIN fields /\ \A i \in DOMAIN fields :
        /\ said[i].key = fields[i].key
        /\ said[i].value = IF fields[i].value = Nil THEN Nil ELSE Sprint(fields[i].value)
  BY <1>1
<1>3. ASSUME NEW j \in DOMAIN fields
      PROVE  LET last == LastValue(fields, fields[j].key)
             IN  LastValue(said, fields[j].key) = IF last = Nil THEN Nil ELSE Sprint(last)
  <2> DEFINE k == fields[j].key
             same == {i \in DOMAIN fields : fields[i].key = k}
             m == Max(same)
  <2>1. Len(fields) \in Nat /\ DOMAIN fields = 1 .. Len(fields)
    BY FieldsType
  <2>2. same \in SUBSET (1 .. Len(fields)) /\ j \in same
    BY <2>1
  <2>3. {i \in DOMAIN said : said[i].key = k} = same
    BY <1>2
  <2>4. LastValue(fields, k) = fields[m].value /\ LastValue(said, k) = said[m].value
    BY <2>3 DEF LastValue
  <2>5. \A i \in same : i \in DOMAIN fields
    OBVIOUS
  <2> HIDE DEF k, same
  <2>6. m \in same
    BY <2>1, <2>2, GreatestOf
  <2> HIDE DEF m
  <2> QED BY <1>2, <2>4, <2>5, <2>6 DEF k
<1> QED BY <1>2, <1>3 DEF said

\* From position off on the fields have those of a part, below a name, and nowhere else.
IsPart(part, name, off, fields) ==
  /\ off \in Nat /\ name # "."
  /\ \A j \in DOMAIN part : /\ off + j \in DOMAIN fields
                            /\ IsBelow(name, part[j].key, fields[off + j].key)
                            /\ fields[off + j].value = part[j].value
  /\ \A i \in DOMAIN fields : /\ fields[i].key # << >>
                              /\ fields[i].key[1] = name => \E j \in DOMAIN part : i = off + j
                              /\ \A n \in 2 .. Len(fields[i].key) : fields[i].key[n] # name

\* What is read of what is held: the keys that have the name, without it, and the texts.
AreTrimmed(read, name, held) ==
  /\ \A kv \in read : \E h \in held : /\ HasName(h.key, name) /\ kv.key = TrimPrefix(h.key, name)
                                      /\ kv.value = Sprint(h.value)
  /\ \A h \in held : HasName(h.key, name) => [key |-> TrimPrefix(h.key, name), value |-> Sprint(h.value)] \in read

\* The last value of a key of the part is that of the key below the name.
LEMMA LastValueBelow ==
  ASSUME NEW V, NEW part \in FieldsOf(V), NEW fields \in FieldsOf(V), NEW name, NEW off,
         IsPart(part, name, off, fields), NEW j \in DOMAIN part
  PROVE  LastValue(fields, fields[off + j].key) = LastValue(part, part[j].key)
<1> DEFINE k == part[j].key
           K == fields[off + j].key
           small == {i \in DOMAIN part : part[i].key = k}
           large == {i \in DOMAIN fields : fields[i].key = K}
           m == Max(small)
<1>1. /\ Len(part) \in Nat /\ DOMAIN part = 1 .. Len(part) /\ Len(fields) \in Nat
      /\ DOMAIN fields = 1 .. Len(fields)
  BY FieldsType
<1>2. off \in Nat /\ \A i \in DOMAIN part : /\ off + i \in DOMAIN fields /\ fields[off + i].value = part[i].value
                                            /\ IsBelow(name, part[i].key, fields[off + i].key)
  BY DEF IsPart
<1>3. K[1] = name
  BY <1>2 DEF IsBelow
<1>4. small \in SUBSET (1 .. Len(part)) /\ j \in small /\ large \in SUBSET (1 .. Len(fields)) /\ off + j \in large
  BY <1>1, <1>2
<1>5. \A i : i \in small <=> i \in DOMAIN part /\ part[i].key = k
  OBVIOUS
<1>6. \A i : i \in large <=> i \in DOMAIN fields /\ fields[i].key = K
  OBVIOUS
<1>7. LastValue(part, k) = part[m].value /\ LastValue(fields, K) = fields[Max(large)].value
  BY DEF LastValue
<1> DEFINE Same(i) == fields[off + i].key = K <=> part[i].key = k
<1>8. ASSUME NEW i \in DOMAIN part PROVE Same(i)
  <2>1. IsBelow(name, part[i].key, fields[off + i].key) /\ IsBelow(name, k, K)
    BY <1>2
  <2> HIDE DEF k, K
  <2>2. fields[off + i].key = K <=> part[i].key = k
    BY <2>1, KeysBelow
  <2> QED BY <2>2
<1> HIDE DEF small, large, m
<1>9. m \in small /\ \A n \in small : n <= m
  BY <1>1, <1>4, GreatestOf DEF m
<1>10. m \in DOMAIN part /\ part[m].key = k
  BY <1>5, <1>9
<1>11. off + m \in large
  <2>1. Same(m) /\ off + m \in DOMAIN fields
    BY <1>2, <1>8, <1>10
  <2> QED BY <1>6, <1>10, <2>1
<1>12. ASSUME NEW n \in large PROVE n <= off + m
  <2>1. n \in DOMAIN fields /\ fields[n].key = K
    BY <1>6
  <2>2. PICK i \in DOMAIN part : n = off + i
    BY <1>3, <2>1 DEF IsPart
  <2>3. i \in small
    BY <1>5, <1>8, <2>1, <2>2
  <2>4. i <= m /\ i \in Nat /\ m \in Nat
    BY <1>1, <1>9, <1>10, <2>3
  <2> QED BY <1>2, <2>2, <2>4
<1>13. Max(large) = off + m
  <2>1. large # {}
    BY <1>4
  <2> DEFINE x == Max(large)
  <2>2. x \in large /\ \A n \in large : n <= x
    BY <1>1, <1>4, <2>1, GreatestOf
  <2> HIDE DEF x
  <2>3. x <= off + m /\ off + m <= x
    BY <1>11, <1>12, <2>2
  <2>4. x \in Nat /\ off + m \in Nat
    <3>1. \A n \in large : n \in Nat
      BY <1>1, <1>6
    <3> QED BY ONLY <1>11, <2>2, <3>1
  <2>5. x = off + m
    BY ONLY <2>3, <2>4
  <2> QED BY <2>5 DEF x
<1> QED BY <1>2, <1>7, <1>10, <1>13

\* The keys that have the name, of what is held, are those of the part, below it.
LEMMA HeldBelow ==
  ASSUME NEW V, NEW part \in FieldsOf(V), NEW fields \in FieldsOf(V), NEW name, NEW off,
         IsPart(part, name, off, fields), NEW held, Holds(held, fields), NEW h \in held, HasName(h.key, name)
  PROVE  \E j \in DOMAIN part : /\ h.value = part[j].value
                                /\ TrimPrefix(h.key, name) \in {part[j].key, ValueOf(part[j].key)}
<1>1. \A i \in DOMAIN fields : fields[i].key # << >>
  BY DEF IsPart
<1>2. PICK i \in DOMAIN fields : /\ h.value = fields[i].value
                                 /\ h.key = fields[i].key \/ h.key = ValueOf(fields[i].key)
                                 /\ h.key # << >> /\ h.key \in Keys /\ h.key[1] = fields[i].key[1]
  BY <1>1, HeldKeys
<1> DEFINE l == fields[i].key
<1>3. l \in Keys /\ l # << >>
  BY <1>1, FieldsType
<1>4. \A n \in 2 .. Len(l) : l[n] # name
  BY DEF IsPart
<1>5. name # "."
  BY DEF IsPart
<1> HIDE DEF l
<1>6. l[1] = name
  <2>1. PICK n \in 1 .. Len(h.key) - 1 : h.key[n] = name
    BY DEF HasName
  <2>2. Len(l) \in Nat /\ Len(h.key) \in Nat
    BY <1>2, <1>3 DEF Keys
  <2>3. CASE h.key = l
    <3>1. n \in 1 .. Len(l)
      BY <2>2, <2>3
    <3>2. n = 1 \/ n \in 2 .. Len(l)
      BY <2>2, <3>1
    <3> QED BY <1>4, <2>1, <2>3, <3>2
  <2>4. CASE h.key = ValueOf(l)
    <3> DEFINE v == ValueOf(l)
    <3>1. Len(v) = Len(l) + 2 /\ v[Len(l) + 1] = "." /\ \A x \in 1 .. Len(l) : v[x] = l[x]
      BY <1>3, ValueOfType
    <3>2. h.key = v
      BY <2>4
    <3> HIDE DEF v
    <3>3. n \in 1 .. Len(l) + 1 /\ v[n] = name
      BY <2>1, <2>2, <3>1, <3>2
    <3>4. n # Len(l) + 1
      BY <1>5, <3>1, <3>3
    <3>5. n \in 1 .. Len(l)
      BY <2>2, <3>3, <3>4
    <3>6. l[n] = name
      BY <3>1, <3>3, <3>5
    <3>7. n = 1 \/ n \in 2 .. Len(l)
      BY <2>2, <3>5
    <3> QED BY <1>4, <3>6, <3>7
  <2> QED BY <1>2, <2>3, <2>4 DEF l
<1>7. PICK j \in DOMAIN part : i = off + j
  BY <1>6 DEF IsPart, l
<1> DEFINE k == part[j].key
<1>8. IsBelow(name, k, l) /\ h.value = part[j].value
  BY <1>2, <1>7 DEF IsPart, l
<1>9. h.key = l \/ h.key = ValueOf(l)
  BY <1>2 DEF l
<1> HIDE DEF k
<1>10. TrimPrefix(l, name) = k
  BY <1>8, NameIsTrimmed
<1>11. TrimPrefix(ValueOf(l), name) = ValueOf(k)
  <2> DEFINE v == ValueOf(k)
             W == ValueOf(l)
  <2>1. IsBelow(name, v, W)
    BY <1>8, ValueBelow
  <2> HIDE DEF v, W
  <2>2. TrimPrefix(W, name) = v
    BY <2>1, NameIsTrimmed
  <2> QED BY <2>2 DEF v, W
<1>12. TrimPrefix(h.key, name) \in {k, ValueOf(k)}
  BY <1>9, <1>10, <1>11
<1> QED BY <1>8, <1>12 DEF k

\* So what is read holds the texts of the part.
LEMMA PartIsRead ==
  ASSUME NEW V, NEW part \in FieldsOf(V), NEW fields \in FieldsOf(V), NEW name, NEW off,
         IsPart(part, name, off, fields), NEW held, Holds(held, fields), \A h \in held : h.value # Nil,
         NEW read, AreTrimmed(read, name, held)
  PROVE  Holds(read, Said(part))
<1> DEFINE said == Said(part)
<1>1. \A j \in DOMAIN part : part[j].key \in Keys
  BY FieldsType
<1>2. /\ DOMAIN said = DOMAIN part
      /\ \A i \in DOMAIN part :
           /\ said[i].key = part[i].key
           /\ said[i].value = IF part[i].value = Nil THEN Nil ELSE Sprint(part[i].value)
           /\ LET last == LastValue(part, part[i].key)
              IN  LastValue(said, part[i].key) = IF last = Nil THEN Nil ELSE Sprint(last)
  BY SaidIs
<1> HIDE DEF said
<1>3. ASSUME NEW kv \in read
      PROVE  IsOneOf(kv, said)
  <2>1. PICK h \in held : HasName(h.key, name) /\ kv.key = TrimPrefix(h.key, name) /\ kv.value = Sprint(h.value)
    BY DEF AreTrimmed
  <2>2. PICK j \in DOMAIN part : /\ h.value = part[j].value
                                 /\ TrimPrefix(h.key, name) \in {part[j].key, ValueOf(part[j].key)}
    BY <2>1, HeldBelow
  <2>3. said[j].key = part[j].key /\ said[j].value = Sprint(h.value) /\ j \in DOMAIN said
    BY <1>2, <2>2
  <2> QED BY <2>1, <2>2, <2>3 DEF IsOneOf
<1>4. ASSUME NEW j \in DOMAIN part
      PROVE  HoldsKey(read, said, said[j].key)
  <2> DEFINE k == part[j].key
             K == fields[off + j].key
             v == ValueOf(k)
             W == ValueOf(K)
             last == LastValue(part, k)
  <2>1. off + j \in DOMAIN fields /\ IsBelow(name, k, K)
    BY DEF IsPart
  <2>2. LastValue(fields, K) = last
    BY LastValueBelow
  <2>3. k \in Keys /\ K \in Keys
    BY <2>1 DEF IsBelow
  <2>4. HoldsKey(held, fields, K)
    <3>1. \A i \in DOMAIN fields : fields[i].key \in Keys
      BY FieldsType
    <3> QED BY <2>1, <3>1, HoldsEach
  <2>5. \/ last = Nil
        \/ [key |-> K, value |-> last] \in held
        \/ /\ IsObject(fields, K)
           /\ (\E i \in DOMAIN fields : fields[i].key = W) \/ [key |-> W, value |-> last] \in held
    BY <2>2, <2>4 DEF HoldsKey
  <2>6. \A x \in DOMAIN fields : fields[x].key \in Keys
    BY FieldsType
  <2>7. said[j].key = k /\ LastValue(said, k) = IF last = Nil THEN Nil ELSE Sprint(last)
    BY <1>2
  <2>8. \A x \in DOMAIN part : x \in DOMAIN said /\ said[x].key = part[x].key
    BY <1>2
  <2>9. IsBelow(name, v, W)
    BY <2>1, ValueBelow
  <2>10. \A i \in DOMAIN part : /\ off + i \in DOMAIN fields
                                /\ IsBelow(name, part[i].key, fields[off + i].key)
    BY DEF IsPart
  <2>11. \A i \in DOMAIN fields : fields[i].key[1] = name => \E x \in DOMAIN part : i = off + x
    BY DEF IsPart
  <2> HIDE DEF k, K, v, W, last
  <2>12. ASSUME NEW key, NEW trimmed, HasName(key, name), TrimPrefix(key, name) = trimmed,
                [key |-> key, value |-> last] \in held
         PROVE  [key |-> trimmed, value |-> LastValue(said, k)] \in read
    <3> DEFINE h == [key |-> key, value |-> last]
    <3>1. h \in held /\ h.key = key /\ h.value = last
      BY <2>12
    <3> HIDE DEF h
    <3>2. [key |-> trimmed, value |-> Sprint(last)] \in read /\ last # Nil
      BY <2>12, <3>1 DEF AreTrimmed
    <3> QED BY <2>7, <3>2
  <2>13. CASE last = Nil
    BY <2>7, <2>13 DEF HoldsKey
  <2>14. CASE [key |-> K, value |-> last] \in held
    <3>1. HasName(K, name) /\ TrimPrefix(K, name) = k
      BY <2>1, NameIsTrimmed
    <3> QED BY <2>7, <2>12, <2>14, <3>1 DEF HoldsKey
  <2>15. ASSUME IsObject(fields, K) PROVE IsObject(said, k)
    <3>1. PICK i \in DOMAIN fields : IsObjectOf(K, fields[i].key)
      BY <2>15 DEF IsObject, IsObjectOf
    <3> DEFINE M == fields[i].key
    <3>2. M \in Keys
      BY <2>6
    <3> HIDE DEF M
    <3>3. M[1] = name
      <4>1. Alike(K, M, Len(K))
        BY <2>3, <3>1, <3>2, ObjectOfKey DEF M
      <4>2. 1 \in 1 .. Len(K) /\ K[1] = name
        BY <2>1 DEF IsBelow
      <4> QED BY <4>1, <4>2 DEF Alike
    <3>4. PICK x \in DOMAIN part : i = off + x
      BY <2>11, <3>3 DEF M
    <3> DEFINE l == part[x].key
               L == fields[off + x].key
    <3>5. IsBelow(name, l, L) /\ IsObjectOf(K, L)
      BY <2>10, <3>1, <3>4
    <3>6. x \in DOMAIN said /\ said[x].key = l
      BY <2>8
    <3> HIDE DEF l, L
    <3>7. IsObjectOf(k, l)
      BY <2>1, <3>5, KeysBelow
    <3> QED BY <3>6, <3>7 DEF IsObject, IsObjectOf
  <2>16. CASE IsObject(fields, K) /\ \E i \in DOMAIN fields : fields[i].key = W
    <3>1. PICK i \in DOMAIN fields : fields[i].key = W
      BY <2>16
    <3>2. W[1] = name
      BY <2>9 DEF IsBelow
    <3>3. PICK x \in DOMAIN part : i = off + x
      BY <2>11, <3>1, <3>2
    <3> DEFINE l == part[x].key
               L == fields[off + x].key
    <3>4. IsBelow(name, l, L) /\ W = L
      BY <2>10, <3>1, <3>3
    <3>5. x \in DOMAIN said /\ said[x].key = l
      BY <2>8
    <3> HIDE DEF l, L
    <3>6. v = l
      BY <2>9, <3>4, KeysBelow
    <3> QED BY <2>7, <2>15, <2>16, <3>5, <3>6 DEF HoldsKey, v
  <2>17. CASE IsObject(fields, K) /\ [key |-> W, value |-> last] \in held
    <3>1. HasName(W, name) /\ TrimPrefix(W, name) = v
      BY <2>9, NameIsTrimmed
    <3>2. [key |-> v, value |-> LastValue(said, k)] \in read
      BY <2>12, <2>17, <3>1
    <3> QED BY <2>7, <2>15, <2>17, <3>2 DEF HoldsKey, v
  <2> QED BY <2>5, <2>13, <2>14, <2>16, <2>17
<1>5. \A i \in DOMAIN said : i \in DOMAIN part /\ said[i].key \in Keys
  BY <1>1, <1>2
<1>6. Holds(read, said)
  BY <1>3, <1>4, <1>5, HoldsEach
<1> QED BY <1>6 DEF said

\* The attributes that are read of a flat document.
LEMMA KeyValuesFlat ==
  ASSUME NEW V, NEW fields \in FieldsOf(V), NEW w, w = Written(fields), NEW json, json = IterJSONFlat(fields), NEW name
  PROVE  AreTrimmed(KeyValues(json, name), name, Range(w))
<1> DEFINE leaves == Leaves(json)
           own == {l \in Range(leaves) : Len(l.path) = 1}
           ofLeaf(l) == [key |-> l.path[1], value |-> l.value, isObject |-> FALSE]
           ofPath(x) == [key |-> x[1], value |-> Nil, isObject |-> TRUE]
           paths == Range(Around(json)) \ {<< >>}
           kv(m) == [key |-> TrimPrefix(m.key, name), value |-> Sprint(m.value)]
           named == {t \in TopLevel(json) : HasName(t.key, name)}
<1>1. TopLevel(json) = {ofLeaf(l) : l \in own} \cup {ofPath(x) : x \in paths}
  BY DEF TopLevel
<1>2. KeyValues(json, name) = {kv(m) : m \in named}
  BY DEF KeyValues
<1>3. /\ Around(json) = [n \in 0 .. Len(w) |-> << >>]
      /\ leaves = [n \in 1 .. Len(w) |-> [path |-> <<w[n].key>>, value |-> w[n].value]]
  BY LeavesFlat
<1>4. paths = {}
  BY <1>3 DEF Range
<1>5. DOMAIN w = 1 .. Len(w)
  BY WrittenType, FieldsType
<1> HIDE DEF leaves
<1>6. \A n \in DOMAIN w : leaves[n].path = <<w[n].key>> /\ leaves[n].value = w[n].value
  BY <1>3, <1>5
<1>7. DOMAIN leaves = DOMAIN w
  BY <1>3, <1>5
<1>8. \A x : Len(<<x>>) = 1 /\ <<x>>[1] = x
  OBVIOUS
<1>9. \A l : l \in own <=> \E n \in DOMAIN w : l = leaves[n]
  <2>1. \A n \in DOMAIN w : Len(leaves[n].path) = 1 /\ leaves[n] \in Range(leaves)
    BY <1>6, <1>7, <1>8 DEF Range
  <2>2. \A l \in Range(leaves) : \E n \in DOMAIN w : l = leaves[n]
    BY <1>7 DEF Range
  <2>3. \A l : l \in own <=> l \in Range(leaves) /\ Len(l.path) = 1
    OBVIOUS
  <2> HIDE DEF own
  <2> QED BY <2>1, <2>2, <2>3
<1>10. \A l : ofLeaf(l).key = l.path[1] /\ ofLeaf(l).value = l.value
  OBVIOUS
<1>11. \A m : m \in named <=> m \in TopLevel(json) /\ HasName(m.key, name)
  OBVIOUS
<1>12. \A m : kv(m).key = TrimPrefix(m.key, name) /\ kv(m).value = Sprint(m.value)
  OBVIOUS
<1> HIDE DEF own, ofLeaf, ofPath, paths, named
<1>13. ASSUME NEW x \in KeyValues(json, name)
       PROVE  \E h \in Range(w) : HasName(h.key, name) /\ x.key = TrimPrefix(h.key, name) /\ x.value = Sprint(h.value)
  <2>1. PICK m \in named : x = kv(m)
    BY <1>2
  <2> HIDE DEF kv
  <2>2. PICK l \in own : m = ofLeaf(l)
    BY <1>1, <1>4, <1>11, <2>1
  <2>3. PICK n \in DOMAIN w : l = leaves[n]
    BY <1>9
  <2>4. m.key = w[n].key /\ m.value = w[n].value
    BY <1>6, <1>8, <1>10, <2>2, <2>3
  <2>5. w[n] \in Range(w)
    BY DEF Range
  <2> QED BY <1>11, <1>12, <2>1, <2>4, <2>5
<1>14. ASSUME NEW h \in Range(w), HasName(h.key, name)
       PROVE  [key |-> TrimPrefix(h.key, name), value |-> Sprint(h.value)] \in KeyValues(json, name)
  <2>1. PICK n \in DOMAIN w : h = w[n]
    BY DEF Range
  <2> DEFINE m == ofLeaf(leaves[n])
  <2>2. m.key = h.key /\ m.value = h.value
    BY <1>6, <1>8, <1>10, <2>1
  <2>3. m \in TopLevel(json)
    BY <1>1, <1>9
  <2>4. m \in named
    BY <1>11, <1>14, <2>2, <2>3
  <2>5. kv(m) \in KeyValues(json, name)
    BY <1>2, <2>4
  <2> QED BY <2>2, <2>5
<1> HIDE DEF kv
<1> QED BY <1>13, <1>14 DEF AreTrimmed

\* The names in a key have no separator.
LEMMA NamesHaveNoDot ==
  ASSUME NEW key \in Keys, NEW i \in 1 .. Depth(key) + 1, NEW j \in 1 .. Len(Names(key)[i])
  PROVE  Names(key)[i][j] # "."
<1> DEFINE D == Depth(key)
           c == Cuts(key)
           N == Len(key)
           name == Names(key)[i]
           e == c[i] + j
<1>1. /\ N \in Nat /\ D \in Nat /\ c \in [1 .. D + 2 -> 0 .. N + 1]
      /\ \A m, n \in 1 .. D + 2 : m < n <=> c[m] < c[n]
      /\ \A x \in ObjectEnds(key) : \E m \in 2 .. D + 1 : c[m] = x
  BY CutsType
<1>2. name \in Keys /\ Len(name) = c[i + 1] - c[i] - 1 /\ name[j] = key[e]
  BY NamesType
<1>3. ObjectEnds(key) = {n \in 1 .. N : key[n] = "."}
  BY DEF ObjectEnds, Keys
<1> HIDE DEF D, c, N, name
<1>4. i \in 1 .. D + 2 /\ i + 1 \in 1 .. D + 2 /\ i \in Int /\ j \in 1 .. Len(name)
  BY <1>1 DEF D, name
<1>5. c[i] \in 0 .. N + 1 /\ c[i + 1] \in 0 .. N + 1
  BY <1>1, <1>4
<1>6. e \in 1 .. N /\ c[i] < e /\ e < c[i + 1]
  BY <1>1, <1>2, <1>4, <1>5
<1> HIDE DEF e
<1> SUFFICES ASSUME key[e] = "." PROVE FALSE
  BY <1>2 DEF name
<1>7. PICK m \in 2 .. D + 1 : c[m] = e
  BY <1>1, <1>3, <1>6
<1>8. m \in 1 .. D + 2 /\ m \in Int
  BY <1>1
<1>9. i < m /\ m < i + 1
  BY <1>1, <1>4, <1>6, <1>7, <1>8
<1> QED BY ONLY <1>4, <1>8, <1>9

\* So no attributes are read of a dedotted document.
LEMMA KeyValuesDedot ==
  ASSUME NEW V, NEW fields \in FieldsOf(V), NEW json, json = IterJSONDedot(fields), NEW name
  PROVE  KeyValues(json, name) = {}
<1> DEFINE w == Written(fields)
           leaves == Leaves(json)
           own == {l \in Range(leaves) : Len(l.path) = 1}
           ofLeaf(l) == [key |-> l.path[1], value |-> l.value, isObject |-> FALSE]
           ofPath(x) == [key |-> x[1], value |-> Nil, isObject |-> TRUE]
           paths == Range(Around(json)) \ {<< >>}
<1>1. TopLevel(json) = {ofLeaf(l) : l \in own} \cup {ofPath(x) : x \in paths}
  BY DEF TopLevel
<1>2. /\ Around(json) = [n \in 0 .. Len(w) |-> Objs(KeyAt(w, n))]
      /\ leaves = [n \in 1 .. Len(w) |-> [path |-> Names(w[n].key), value |-> w[n].value]]
  BY AroundDedot, LeavesDedot
<1>3. /\ \A n \in 0 .. Len(w) : KeyAt(w, n) \in Keys
      /\ \A n \in 1 .. Len(w) : w[n].key = KeyAt(w, n)
      /\ Len(w) \in Nat
  BY IterJSONDedotReports
<1>4. /\ \A l : ofLeaf(l).key = l.path[1]
      /\ \A x : ofPath(x).key = x[1]
  OBVIOUS
<1> HIDE DEF w
<1>5. \A l \in own : \E n \in 1 .. Len(w) : l.path = Names(w[n].key)
  <2>1. \A l \in Range(leaves) : \E n \in 1 .. Len(w) : l.path = Names(w[n].key)
    BY <1>2 DEF Range
  <2> HIDE DEF leaves
  <2> QED BY <2>1
<1>6. \A x \in paths : x # << >> /\ \E n \in 0 .. Len(w) : x = Objs(KeyAt(w, n))
  BY <1>2 DEF Range
<1> HIDE DEF own, paths, ofLeaf, ofPath
<1>7. ASSUME NEW key \in Keys PROVE ~HasName(Names(key)[1], name)
  <2> DEFINE first == Names(key)[1]
  <2>1. Depth(key) \in Nat
    BY CutsType
  <2>2. 1 \in 1 .. Depth(key) + 1
    BY <2>1
  <2>3. first \in Keys /\ \A j \in 1 .. Len(first) : first[j] # "."
    BY <2>2, NamesType, NamesHaveNoDot
  <2> HIDE DEF first
  <2>4. ASSUME NEW n \in 1 .. Len(first) - 1 PROVE first[n + 1] # "."
    <3>1. Len(first) \in Nat
      BY <2>3 DEF Keys
    <3>2. n + 1 \in 1 .. Len(first)
      BY <3>1
    <3> QED BY <2>3, <3>2
  <2>5. ~HasName(first, name)
    BY <2>4 DEF HasName
  <2> QED BY <2>5 DEF first
<1>8. ASSUME NEW mem \in TopLevel(json) PROVE ~HasName(mem.key, name)
  <2>1. CASE \E l \in own : mem = ofLeaf(l)
    <3>1. PICK n \in 1 .. Len(w) : mem.key = Names(w[n].key)[1]
      BY <1>4, <1>5, <2>1
    <3>2. w[n].key \in Keys
      <4>1. n \in 0 .. Len(w)
        BY <1>3
      <4> QED BY <1>3, <4>1
    <3> QED BY <1>7, <3>1, <3>2
  <2>2. CASE \E x \in paths : mem = ofPath(x)
    <3>1. PICK n \in 0 .. Len(w) : mem.key = Objs(KeyAt(w, n))[1] /\ Objs(KeyAt(w, n)) # << >>
      BY <1>4, <1>6, <2>2
    <3> DEFINE key == KeyAt(w, n)
    <3>2. key \in Keys
      BY <1>3
    <3> HIDE DEF key
    <3>3. /\ Objs(key) \in Seq(Keys) /\ Len(Objs(key)) = Depth(key) /\ Depth(key) \in Nat
          /\ \A i \in 1 .. Depth(key) : Objs(key)[i] = Names(key)[i]
      BY <3>2, ObjsType
    <3> DEFINE o == Objs(key)
    <3>4. o \in Seq(Keys) /\ o # << >> /\ Len(o) = Depth(key)
      BY <3>1, <3>3 DEF key
    <3> HIDE DEF o
    <3>5. 1 \in 1 .. Len(o)
      BY <3>4
    <3>6. mem.key = Names(key)[1]
      BY <3>1, <3>3, <3>4, <3>5 DEF key
    <3> QED BY <1>7, <3>2, <3>6
  <2> QED BY <1>1, <2>1, <2>2
<1> QED BY <1>8 DEF KeyValues

\* The fields of B are those from position off on, and the only ones with a name.
IsBlock(B, name, off, F) ==
  /\ off \in Nat /\ \A j \in 1 .. Len(B) : off + j \in DOMAIN F /\ F[off + j] = B[j]
  /\ \A i \in DOMAIN F : /\ F[i].key # << >>
                         /\ F[i].key[1] = name => \E j \in 1 .. Len(B) : i = off + j
                         /\ \A n \in 2 .. Len(F[i].key) : F[i].key[n] # name

\* Attributes that are written below a name are a part of the fields.
LEMMA BlockIsPart ==
  ASSUME NEW attributes \in Named, \A a \in Range(attributes) : a.names[1] # << >>,
         NEW name \in DOMAIN Rank, name # ".", NEW F \in FieldsOf(FieldValues), NEW off,
         NEW B, B = Below(<<name>>, attributes), IsBlock(B, name, off, F),
         NEW part, part = AddAttributes(<< >>, << >>, attributes)
  PROVE  part \in FieldsOf(FieldValues) /\ IsPart(part, name, off, F)
<1> DEFINE leaves == LeavesOf(attributes)
           b == Below(<< >>, attributes)
           P == <<name>>
<1>1. attributes \in Seq(LeafType) /\ \A i \in DOMAIN attributes : attributes[i].names # << >>
  BY NamedType
<1>2. \A i \in DOMAIN attributes : attributes[i] \in Range(attributes)
  BY DEF Range
<1>3. /\ \A i \in DOMAIN leaves : /\ leaves[i].names \in Seq(Keys)
                                  /\ \E j \in DOMAIN attributes : leaves[i] = attributes[j]
  BY <1>1, LeavesOfType
<1>4. << >> \in Keys /\ P \in Keys /\ P # << >>
  BY DEF Keys
<1>5. /\ b \in FieldsOf(FieldValues) /\ DOMAIN b = DOMAIN leaves
      /\ \A i \in DOMAIN b : b[i].key = FullKey(<< >>, leaves[i].names) /\ b[i].value = leaves[i].value
  BY <1>1, <1>4, BelowType
<1>6. /\ B \in FieldsOf(FieldValues) /\ DOMAIN B = DOMAIN leaves
      /\ \A i \in DOMAIN B : B[i].key = FullKey(P, leaves[i].names) /\ B[i].value = leaves[i].value
  <2> HIDE DEF P, leaves
  <2> DEFINE c == Below(P, attributes)
  <2>1. /\ c \in FieldsOf(FieldValues) /\ DOMAIN c = DOMAIN leaves
        /\ \A i \in DOMAIN c : c[i].key = FullKey(P, leaves[i].names) /\ c[i].value = leaves[i].value
    <3>1. P \in Keys /\ attributes \in Seq(LeafType)
      BY <1>1, <1>4
    <3> QED BY ONLY <3>1, BelowType DEF leaves
  <2>2. B = c
    BY DEF P
  <2> HIDE DEF c
  <2> QED BY <2>1, <2>2
<1>7. part = b
  <2> DEFINE X == [key : Keys, value : FieldValues]
             e == << >>
  <2>1. part = << >> \o b
    BY AddAttributesIs
  <2>2. b \in Seq(X)
    BY <1>5 DEF FieldsOf
  <2> HIDE DEF X, b
  <2>3. << >> \o b = b
    BY <2>2
  <2> QED BY <2>1, <2>3
<1>8. DOMAIN B = 1 .. Len(B)
  BY <1>6, FieldsType
<1> HIDE DEF leaves, b
<1>9. ASSUME NEW j \in DOMAIN b PROVE IsBelow(name, b[j].key, B[j].key)
  <2> DEFINE names == leaves[j].names
  <2>1. names \in Seq(Keys) /\ names # << >> /\ names[1] # << >>
    BY <1>1, <1>2, <1>3, <1>5
  <2>2. b[j].key = FullKey(<< >>, names) /\ B[j].key = FullKey(P, names)
    BY <1>5, <1>6
  <2> HIDE DEF names, P
  <2>3. FullKey(P, names) = P \o Dot \o FullKey(<< >>, names) /\ FullKey(<< >>, names) \in Keys
    BY <1>4, <2>1, FullKeyBelow
  <2>4. P \o Dot = <<name, ".">>
    BY NameAndDot DEF P
  <2> DEFINE k == FullKey(<< >>, names)
  <2>5. k \in Keys /\ B[j].key = <<name, ".">> \o k /\ b[j].key = k
    BY <2>2, <2>3, <2>4
  <2> HIDE DEF k
  <2>6. IsBelow(name, k, <<name, ".">> \o k)
    BY <2>5, KeyBelow
  <2> QED BY <2>5, <2>6
<1>10. ASSUME NEW j \in DOMAIN b
       PROVE  /\ off + j \in DOMAIN F /\ IsBelow(name, b[j].key, F[off + j].key)
              /\ F[off + j].value = b[j].value
  <2>1. j \in 1 .. Len(B) /\ F[off + j] = B[j] /\ off + j \in DOMAIN F
    BY <1>5, <1>6, <1>8 DEF IsBlock
  <2>2. B[j].value = b[j].value
    BY <1>5, <1>6
  <2> QED BY <1>9, <2>1, <2>2
<1>11. \A i \in DOMAIN F : /\ F[i].key # << >>
                           /\ F[i].key[1] = name => \E j \in DOMAIN b : i = off + j
                           /\ \A n \in 2 .. Len(F[i].key) : F[i].key[n] # name
  <2>1. DOMAIN b = 1 .. Len(B)
    BY <1>5, <1>6, <1>8
  <2> QED BY <2>1 DEF IsBlock
<1>12. IsPart(b, name, off, F)
  BY <1>10, <1>11 DEF IsPart, IsBlock
<1> QED BY <1>5, <1>7, <1>12

\* The attributes of a plain span are a part of its fields, and so are its resource's.
LEMMA AttributesArePart ==
  ASSUME NEW r, IsRecord(r), IsPlain(r), config.signal = "traces", NEW F, F = Fields(r)
  PROVE  \E m, n : /\ IsPart(AddAttributes(<< >>, << >>, r.attributes), "Attributes", m, F)
                   /\ IsPart(AddAttributes(<< >>, << >>, r.resource), "Resource", n, F)
                   /\ AddAttributes(<< >>, << >>, r.attributes) \in FieldsOf(FieldValues)
                   /\ AddAttributes(<< >>, << >>, r.resource) \in FieldsOf(FieldValues)
<1> DEFINE H == AddStrings(SpanStrings, Texts(r))
           A == Below(<<"Attributes">>, r.attributes)
           R == Below(<<"Resource">>, r.resource)
<1>1. F = SpanFields(r)
  BY DEF Fields
<1>2. /\ F \in FieldsOf(FieldValues) /\ H \in FieldsOf(FieldValues) /\ A \in FieldsOf(FieldValues) /\ R \in FieldsOf(FieldValues)
      /\ Len(H) + Len(A) + Len(R) <= Len(F)
      /\ \A i \in 1 .. Len(A) : F[Len(H) + i] = A[i]
      /\ \A i \in 1 .. Len(R) : F[Len(H) + Len(A) + i] = R[i]
  BY <1>1, SpanFieldsType
<1>3. /\ Len(H) \in Nat /\ Len(A) \in Nat /\ Len(R) \in Nat /\ Len(F) \in Nat
      /\ DOMAIN F = 1 .. Len(F)
  BY <1>2, FieldsType
<1>4. \A i \in DOMAIN F : \/ \E j \in DOMAIN H : F[i] = H[j]
                          \/ \E j \in 1 .. Len(A) : i = Len(H) + j /\ StartsIn(F[i], {"Attributes"})
                          \/ \E j \in 1 .. Len(R) : i = Len(H) + Len(A) + j /\ StartsIn(F[i], {"Resource"})
                          \/ StartsIn(F[i], {"Events"})
  BY <1>1, SpanFieldsParts
<1>5. \A j \in DOMAIN H : \E s \in Range(SpanStrings) : H[j].key = <<s>>
  BY HeadStarts
<1>6. \A s : <<s>>[1] = s
  OBVIOUS
<1>7. "Attributes" \notin Range(SpanStrings) /\ "Resource" \notin Range(SpanStrings)
  BY TokensType
<1>8. \A j \in DOMAIN H : H[j].key[1] # "Attributes" /\ H[j].key[1] # "Resource"
  BY <1>5, <1>6, <1>7
<1>9. \A i \in DOMAIN F : F[i].key # << >>
  BY RecordFieldsType
<1>10. \A i \in DOMAIN F : F[i] \in Range(F)
  BY DEF Range
<1>11. /\ \A i \in DOMAIN F : \A n \in 2 .. Len(F[i].key) : F[i].key[n] # "Attributes" /\ F[i].key[n] # "Resource"
       /\ \A a \in Range(r.attributes) : a.names[1] # << >>
       /\ \A a \in Range(r.resource) : a.names[1] # << >>
  BY <1>10 DEF IsPlain
<1>12. r.attributes \in Named /\ r.resource \in Named
  BY DEF IsRecord
<1>13. "Attributes" \in DOMAIN Rank /\ "Resource" \in DOMAIN Rank
  BY TokensType DEF Objects
<1> HIDE DEF H
<1> DEFINE m == Len(H)
           u == Len(H) + Len(A)
           a == AddAttributes(<< >>, << >>, r.attributes)
           s == AddAttributes(<< >>, << >>, r.resource)
<1>14. a \in FieldsOf(FieldValues) /\ IsPart(a, "Attributes", m, F)
  <2>1. A = Below(<<"Attributes">>, r.attributes)
    OBVIOUS
  <2> HIDE DEF A, R
  <2>2. m \in Nat /\ \A j \in 1 .. Len(A) : m + j \in DOMAIN F /\ F[m + j] = A[j]
    BY <1>2, <1>3
  <2>3. \A i \in DOMAIN F : F[i].key[1] = "Attributes" => \E j \in 1 .. Len(A) : i = m + j
    BY <1>4, <1>8 DEF StartsIn
  <2>4. IsBlock(A, "Attributes", m, F)
    BY <1>9, <1>11, <2>2, <2>3 DEF IsBlock
  <2>5. a = AddAttributes(<< >>, << >>, r.attributes)
    OBVIOUS
  <2>6. /\ r.attributes \in Named /\ "Attributes" \in DOMAIN Rank /\ "Attributes" # "." /\ F \in FieldsOf(FieldValues)
        /\ \A x \in Range(r.attributes) : x.names[1] # << >>
    BY <1>2, <1>11, <1>12, <1>13
  <2> HIDE DEF m, a
  <2> QED BY ONLY <2>1, <2>4, <2>5, <2>6, BlockIsPart
<1>15. s \in FieldsOf(FieldValues) /\ IsPart(s, "Resource", u, F)
  <2>1. R = Below(<<"Resource">>, r.resource)
    OBVIOUS
  <2> HIDE DEF A, R
  <2>2. u \in Nat /\ \A j \in 1 .. Len(R) : u + j \in DOMAIN F /\ F[u + j] = R[j]
    BY <1>2, <1>3
  <2>3. \A i \in DOMAIN F : F[i].key[1] = "Resource" => \E j \in 1 .. Len(R) : i = u + j
    BY <1>4, <1>8 DEF StartsIn
  <2>4. IsBlock(R, "Resource", u, F)
    BY <1>9, <1>11, <2>2, <2>3 DEF IsBlock
  <2>5. s = AddAttributes(<< >>, << >>, r.resource)
    OBVIOUS
  <2>6. /\ r.resource \in Named /\ "Resource" \in DOMAIN Rank /\ "Resource" # "." /\ F \in FieldsOf(FieldValues)
        /\ \A x \in Range(r.resource) : x.names[1] # << >>
    BY <1>2, <1>11, <1>12, <1>13
  <2> HIDE DEF u, s
  <2> QED BY ONLY <2>1, <2>4, <2>5, <2>6, BlockIsPart
<1> HIDE DEF m, u, a, s
<1> QED BY <1>14, <1>15 DEF a, s

\* What is read of a document: its strings, and what is read of its attributes.
LEMMA SpanOfIs ==
  ASSUME NEW json
  PROVE  /\ \A f \in Range(SpanStrings) : SpanOf(json)[f] = FieldValue(json, <<f>>)
         /\ SpanOf(json).attributes = KeyValues(json, "Attributes")
         /\ SpanOf(json).resource = KeyValues(json, "Resource")
<1> DEFINE D == {"TraceId", "SpanId", "ParentSpanId", "Name", "Kind", "TraceStatus"}
<1>1. Range(SpanStrings) = D
  BY TokensType
<1>2. \A f \in D : SpanOf(json)[f] = FieldValue(json, <<f>>)
  BY DEF SpanOf
<1>3. /\ SpanOf(json).attributes = KeyValues(json, "Attributes")
      /\ SpanOf(json).resource = KeyValues(json, "Resource")
  BY DEF SpanOf
<1> QED BY <1>1, <1>2, <1>3

\* The attributes of a plain span and its resource's are read of its flat document.
LEMMA AttributesAreRead ==
  ASSUME NEW r, IsRecord(r), IsPlain(r), config.mode # "jaeger", config.signal = "traces", ~config.dedot
  PROVE  /\ Holds(SpanOf(Encode(r)).attributes, Said(AddAttributes(<< >>, << >>, r.attributes)))
         /\ Holds(SpanOf(Encode(r)).resource, Said(AddAttributes(<< >>, << >>, r.resource)))
<1> DEFINE json == Encode(r)
           F == Fields(r)
           p == Prepared(F)
           w == Written(p)
           a == AddAttributes(<< >>, << >>, r.attributes)
           s == AddAttributes(<< >>, << >>, r.resource)
<1>1. /\ F \in FieldsOf(FieldValues) /\ p \in FieldsOf(FieldValues \cup {Ignored}) /\ Holds(Range(w), F)
      /\ json = IterJSONFlat(p)
  BY EncodeType
<1>2. PICK m, n : /\ IsPart(a, "Attributes", m, F) /\ IsPart(s, "Resource", n, F)
                  /\ a \in FieldsOf(FieldValues) /\ s \in FieldsOf(FieldValues)
  BY AttributesArePart
<1>3. w = Written(p) /\ \A h \in Range(w) : h.value # Nil
  <2>1. Range(w) = {h \in Kept(p) : h.value # Nil}
    BY <1>1, WrittenIsKept
  <2> HIDE DEF p
  <2> QED BY <2>1
<1> HIDE DEF json, F, p, w, a, s
<1>4. \A name : AreTrimmed(KeyValues(json, name), name, Range(w))
  BY ONLY <1>1, <1>3, KeyValuesFlat
<1>5. Holds(KeyValues(json, "Attributes"), Said(a))
  <2> DEFINE name == "Attributes"
             kvs == KeyValues(json, name)
  <2>1. AreTrimmed(kvs, name, Range(w)) /\ IsPart(a, name, m, F)
    BY <1>2, <1>4
  <2> HIDE DEF name, kvs
  <2>2. Holds(kvs, Said(a))
    BY ONLY <1>1, <1>2, <1>3, <2>1, PartIsRead
  <2> QED BY <2>2 DEF name, kvs
<1>6. Holds(KeyValues(json, "Resource"), Said(s))
  <2> DEFINE name == "Resource"
             kvs == KeyValues(json, name)
  <2>1. AreTrimmed(kvs, name, Range(w)) /\ IsPart(s, name, n, F)
    BY <1>2, <1>4
  <2> HIDE DEF name, kvs
  <2>2. Holds(kvs, Said(s))
    BY ONLY <1>1, <1>2, <1>3, <2>1, PartIsRead
  <2> QED BY <2>2 DEF name, kvs
<1> QED BY <1>5, <1>6, SpanOfIs DEF json, a, s

\* Every span is read as its texts.
LEMMA SpansAreReadAs ==
  ASSUME NEW r, IsRecord(r), config.mode = "ecs", config.signal = "traces", NEW i
  PROVE  IsReadAs(r, Document(i, FALSE, Encode(r)))
<1> DEFINE json == Encode(r)
           d == Document(i, FALSE, json)
           t == Texts(r)
<1>1. config.mode # "jaeger"
  OBVIOUS
<1>2. d.json = json
  BY DEF Document
<1>3. \A s \in Range(SpanStrings) : FieldValue(json, <<s>>) = t[s] /\ Indexed(d, <<s>>) = t[s]
  BY <1>1, StringsAreRead
<1>4. ~config.dedot /\ IsPlain(r) =>
        /\ Holds(SpanOf(json).attributes, Said(AddAttributes(<< >>, << >>, r.attributes)))
        /\ Holds(SpanOf(json).resource, Said(AddAttributes(<< >>, << >>, r.resource)))
  BY <1>1, AttributesAreRead
<1>5. ASSUME NEW service, SaysItsService(r)
      PROVE  IsOfService(d, service) <=> IsSpanOf(r, service)
  BY <1>1, <1>5, ServiceIsFound
<1>6. "Name" \in Range(SpanStrings) /\ "Kind" \in Range(SpanStrings)
  BY TokensType
<1>7. t["Name"] = r.Name /\ t["Kind"] = r.Kind
  <2>1. "Name" \notin IdFields /\ "Kind" \notin IdFields
    BY DEF IdFields
  <2>2. \A f \in Range(SpanStrings) : f \notin IdFields => t[f] = r[f]
    BY Zenon DEF Texts
  <2> QED BY <1>6, <2>1, <2>2
<1>11. config.dedot => SpanOf(json).attributes = {} /\ SpanOf(json).resource = {}
  <2> SUFFICES ASSUME config.dedot PROVE SpanOf(json).attributes = {} /\ SpanOf(json).resource = {}
    OBVIOUS
  <2> DEFINE p == Prepared(Fields(r))
  <2>1. p \in FieldsOf(FieldValues \cup {Ignored}) /\ json = IterJSONDedot(p)
    BY <1>1, EncodeType
  <2> HIDE DEF p, json
  <2> QED BY <2>1, KeyValuesDedot, SpanOfIs
<1> HIDE DEF json, d, t
<1>8. ReadBackAs(SpanOf(json), r)
  <2>1. \A f \in Range(SpanStrings) : SpanOf(json)[f] = Texts(r)[f]
    BY <1>3, SpanOfIs DEF t
  <2> QED BY <1>4, <1>11, <2>1 DEF ReadBackAs
<1>9. Indexed(d, <<"Name">>) = r.Name /\ Indexed(d, <<"Kind">>) = r.Kind
  BY <1>3, <1>6, <1>7
<1>10. IsReadAs(r, d)
  BY <1>2, <1>5, <1>8, <1>9 DEF IsReadAs
<1> QED BY <1>10 DEF d, json

\* So is every span of the batch.
LEMMA EncodingReads == ASSUME TypeInv PROVE EncodingIsRead
<1> SUFFICES ASSUME config.signal = "traces", config.mode = "ecs", NEW i \in DOMAIN batch
             PROVE  IsReadAs(batch[i], Document(i, FALSE, Encode(batch[i])))
  BY DEF EncodingIsRead
<1>1. IsRecord(batch[i])
  BY BatchIsRecords
<1> QED BY <1>1, SpansAreReadAs

-----------------------------------------------------------------------------
(* What the index holds and what is read of it, of every record.            *)

\* The index holds what was to be stored: of a record the last value of each of its
\* names, unless that is an empty array, whatever its attributes are called and however
\* the exporter writes them; and of a span in Jaeger's format, under the id of its
\* service and operation, these or others that run together to the same id.
THEOREM IndexHoldsRecords == Spec => []DocumentsHoldTheirRecords
<1>1. TypeInv => EncodingHolds
  BY EncodingHoldsRecords
<1> QED BY <1>1, PushInvariant, HeldAsEncoded, PTL

\* Every document that is taken is well nested JSON: objects are closed as they were
\* opened, and none is opened twice.
THEOREM DocumentsAreWellNested == Spec => []JsonIsWellNested
<1>1. TypeInv => EncodingNests
  BY EncodingIsNested
<1> QED BY <1>1, PushInvariant, NestedAsEncoded, PTL

\* With dedup a clean document is refused only because of the documents before it.
THEOREM OnlyOthersRefuse == Spec => []DedupPreventsRefusal
<1>1. TypeInv => EncodingStores
  BY EncodingIsStorable
<1> QED BY <1>1, PushInvariant, RefusedAsEncoded, PTL

\* The spans of an answer are read back as the texts of what they were, with the texts of
\* all their attributes if they are plain and written flat, and with none if dedotted; and
\* the operations of a service are those of the spans whose service has that word.
THEOREM AnswersAreRead == Spec => AnswersShowTheIndex
<1>1. TypeInv => EncodingIsRead
  BY EncodingReads
<1> QED BY <1>1, PushInvariant, AnsweredAsRead, PTL

\* A trace of an answer is what its spans say: their number, the services, the operation
\* and the health of its root.
THEOREM TracesSummarised == Spec => []TracesAreSummarised
<1>1. TypeInv => EncodingIsRead
  BY EncodingReads
<1> QED BY <1>1, PushInvariant, SummarisedAsRead, PTL
=============================================================================
