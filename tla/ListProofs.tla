----------------------------- MODULE ListProofs -----------------------------
(***************************************************************************)
(* Facts about the lists of module Lists, for lists of any length: a       *)
(* ranking names every position once, best first, and is the only one that *)
(* does; a sum depends on its terms alone and grows with them; and what is *)
(* picked out of a list, joined, cut or counted has the elements that it   *)
(* should.                                                                 *)
(***************************************************************************)
EXTENDS Lists, TLAPS, FiniteSetTheorems, SequenceTheorems

-----------------------------------------------------------------------------
(* Counting *)

LEMMA UpToFacts ==
  ASSUME NEW n \in Nat
  PROVE  IsFiniteSet(1 .. n) /\ Cardinality(1 .. n) = n
<1>1. /\ IsFiniteSet(1 .. n)
      /\ Cardinality(1 .. n) = IF 1 > n THEN 0 ELSE n - 1 + 1
  BY FS_Interval
<1> QED  BY <1>1

LEMMA SameSize ==
  ASSUME NEW S, NEW T, IsFiniteSet(S), NEW f \in [S -> T],
         \A x, y \in S : f[x] = f[y] => x = y,
         \A y \in T : \E x \in S : f[x] = y
  PROVE  IsFiniteSet(T) /\ Cardinality(T) = Cardinality(S)
<1>1. f \in Bijection(S, T)
  BY DEF Bijection, Injection, Surjection, IsInjective
<1>2. ExistsBijection(S, T)  BY <1>1 DEF ExistsBijection
<1> QED  BY <1>2, FS_Bijection

LEMMA NoLarger ==
  ASSUME NEW S, NEW T, IsFiniteSet(T), NEW f \in [S -> T],
         \A x, y \in S : f[x] = f[y] => x = y
  PROVE  /\ IsFiniteSet(S) /\ Cardinality(S) <= Cardinality(T)
         /\ Cardinality(S) = Cardinality(T) => \A y \in T : \E x \in S : f[x] = y
<1>1. f \in Injection(S, T)  BY DEF Injection, IsInjective
<1> QED  BY <1>1, FS_Injection DEF Surjection

(* What is enumerated is finite. *)
LEMMA FewAreFinite ==
  ASSUME NEW a, NEW b, NEW c, NEW d, NEW e
  PROVE  IsFiniteSet({a, b, c, d, e})
<1>1. IsFiniteSet({a})  BY FS_Singleton
<1>2. IsFiniteSet({a} \union {b})  BY <1>1, FS_AddElement
<1>3. IsFiniteSet(({a} \union {b}) \union {c})  BY <1>2, FS_AddElement
<1>4. IsFiniteSet((({a} \union {b}) \union {c}) \union {d})  BY <1>3, FS_AddElement
<1>5. IsFiniteSet(((({a} \union {b}) \union {c}) \union {d}) \union {e})
  BY <1>4, FS_AddElement
<1>6. {a, b, c, d, e} = ((({a} \union {b}) \union {c}) \union {d}) \union {e}
  OBVIOUS
<1> QED BY <1>5, <1>6

LEMMA UnionsAreFinite ==
  ASSUME NEW A, NEW B, NEW C, IsFiniteSet(A), IsFiniteSet(B), IsFiniteSet(C)
  PROVE  IsFiniteSet(A \union B \union C)
<1>1. IsFiniteSet(A \union B)  BY FS_Union
<1> QED BY <1>1, FS_Union

-----------------------------------------------------------------------------
(* Sequences whose elements' set does not matter. *)

IsSeq(s) == \E S : s \in Seq(S)

LEMMA SeqFacts ==
  ASSUME NEW s, IsSeq(s)
  PROVE  Len(s) \in Nat /\ DOMAIN s = 1 .. Len(s)
BY LenProperties DEF IsSeq

LEMMA FunctionIsSeq ==
  ASSUME NEW N \in Nat, NEW f, DOMAIN f = 1 .. N, f = [k \in DOMAIN f |-> f[k]]
  PROVE  IsSeq(f) /\ Len(f) = N
<1> DEFINE T == {f[k] : k \in 1 .. N}
<1>1. f \in [1 .. N -> T]  OBVIOUS
<1>2. f \in Seq(T) /\ Len(f) = N  BY <1>1
<1> QED  BY <1>2 DEF IsSeq

-----------------------------------------------------------------------------
(* Rankings *)

LEMMA BeforeIsOrder ==
  ASSUME NEW D \in SUBSET Int, NEW key \in [D -> Int]
  PROVE  /\ \A j \in D : ~ Before(key, j, j)
         /\ \A j, k, l \in D : Before(key, j, k) /\ Before(key, k, l) => Before(key, j, l)
         /\ \A j, k \in D : j # k => Before(key, j, k) \/ Before(key, k, j)
BY DEF Before

(* Those that go before a position. *)
Ahead(D, key, k) == {j \in D : Before(key, j, k)}

LEMMA AheadFacts ==
  ASSUME NEW D \in SUBSET Int, IsFiniteSet(D), NEW key \in [D -> Int], NEW k \in D
  PROVE  /\ IsFiniteSet(Ahead(D, key, k))
         /\ Cardinality(Ahead(D, key, k)) \in 0 .. Cardinality(D) - 1
<1>1. Ahead(D, key, k) \subseteq D \ {k}  BY BeforeIsOrder DEF Ahead
<1>2. /\ IsFiniteSet(D \ {k})
      /\ Cardinality(D \ {k}) = Cardinality(D) - 1
      /\ Cardinality(D) \in Nat
  BY FS_RemoveElement, FS_CardinalityType
<1>3. /\ IsFiniteSet(Ahead(D, key, k))
      /\ Cardinality(Ahead(D, key, k)) <= Cardinality(D \ {k})
      /\ Cardinality(Ahead(D, key, k)) \in Nat
  BY <1>1, <1>2, FS_Subset, FS_CardinalityType
<1> QED  BY <1>2, <1>3

LEMMA AheadGrows ==
  ASSUME NEW D \in SUBSET Int, IsFiniteSet(D), NEW key \in [D -> Int],
         NEW j \in D, NEW k \in D, Before(key, j, k)
  PROVE  Cardinality(Ahead(D, key, j)) < Cardinality(Ahead(D, key, k))
<1>1. Ahead(D, key, j) \subseteq Ahead(D, key, k) /\ Ahead(D, key, j) # Ahead(D, key, k)
  BY BeforeIsOrder DEF Ahead
<1> QED  BY <1>1, AheadFacts, FS_Subset, FS_CardinalityType

(* Every place but the past-the-end one is taken. *)
LEMMA EveryPlace ==
  ASSUME NEW D \in SUBSET Int, IsFiniteSet(D), NEW key \in [D -> Int],
         NEW n \in 1 .. Cardinality(D)
  PROVE  \E k \in D : Cardinality(Ahead(D, key, k)) = n - 1
<1> DEFINE place == [k \in D |-> Cardinality(Ahead(D, key, k))]
           N == Cardinality(D)
           T == 0 .. N - 1
           R == {place[k] : k \in D}
<1>1. N \in Nat  BY FS_CardinalityType
<1>2. place \in [D -> T]  BY AheadFacts
<1>3. \A j, k \in D : j # k => place[j] # place[k]
  <2> SUFFICES ASSUME NEW j \in D, NEW k \in D, Before(key, j, k) PROVE place[j] # place[k]
    BY BeforeIsOrder
  <2> QED  BY AheadGrows, AheadFacts
<1>4. IsFiniteSet(T) /\ Cardinality(T) = N
  <2>1. 0 \in Int /\ N - 1 \in Int  BY <1>1
  <2>2. IsFiniteSet(T) /\ Cardinality(T) = IF 0 > N - 1 THEN 0 ELSE N - 1 - 0 + 1
    BY <2>1, FS_Interval
  <2> QED  BY <1>1, <2>2
<1>5. R \subseteq T  BY <1>2
<1> HIDE DEF place, T, N
<1>6. place \in Bijection(D, R)
  <2>1. place \in [D -> R]  BY <1>2
  <2> QED  BY <1>3, <2>1 DEF Bijection, Injection, Surjection, IsInjective
<1> HIDE DEF R
<1>7. IsFiniteSet(R) /\ Cardinality(R) = N
  <2>1. ExistsBijection(D, R)  BY <1>6 DEF ExistsBijection
  <2> QED  BY <2>1, FS_Bijection DEF N
<1>8. R = T  BY <1>4, <1>5, <1>7, FS_Subset
<1>9. n - 1 \in R  BY <1>1, <1>8 DEF T, N
<1> QED  BY <1>9 DEF R, place

THEOREM RankingFacts ==
  ASSUME NEW D \in SUBSET Int, IsFiniteSet(D), NEW key \in [D -> Int]
  PROVE  /\ Cardinality(D) \in Nat
         /\ Ranking(D, key) \in [1 .. Cardinality(D) -> D]
         /\ \A k \in D : \E n \in 1 .. Cardinality(D) : Ranking(D, key)[n] = k
         /\ \A m, n \in 1 .. Cardinality(D) :
              m < n => Before(key, Ranking(D, key)[m], Ranking(D, key)[n])
<1> DEFINE at == Ranking(D, key)
           N == Cardinality(D)
<1>0. N \in Nat  BY FS_CardinalityType
<1>1. at = [n \in 1 .. N |-> CHOOSE k \in D : Cardinality(Ahead(D, key, k)) = n - 1]
  BY DEF Ranking, Ahead
<1> HIDE DEF N, at
<1>2. \A n \in 1 .. N : at[n] \in D /\ Cardinality(Ahead(D, key, at[n])) = n - 1
  <2> SUFFICES ASSUME NEW n \in 1 .. N
               PROVE  at[n] \in D /\ Cardinality(Ahead(D, key, at[n])) = n - 1
    OBVIOUS
  <2>1. \E k \in D : Cardinality(Ahead(D, key, k)) = n - 1  BY EveryPlace DEF N
  <2> QED  BY <1>1, <2>1
<1>3. \A j, k \in D : Cardinality(Ahead(D, key, j)) = Cardinality(Ahead(D, key, k)) => j = k
  BY BeforeIsOrder, AheadGrows, AheadFacts
<1>4. at \in [1 .. N -> D]  BY <1>1, <1>2
<1>5. ASSUME NEW k \in D PROVE \E n \in 1 .. N : at[n] = k
  <2> DEFINE n == Cardinality(Ahead(D, key, k)) + 1
  <2>1. n \in 1 .. N /\ n - 1 = Cardinality(Ahead(D, key, k))  BY <1>0, AheadFacts DEF N
  <2> HIDE DEF n
  <2> QED  BY <1>2, <1>3, <2>1
<1>6. ASSUME NEW m \in 1 .. N, NEW n \in 1 .. N, m < n PROVE Before(key, at[m], at[n])
  <2>1. at[m] # at[n]  BY <1>0, <1>2, <1>6
  <2>2. ~ Before(key, at[n], at[m])
    <3> SUFFICES ASSUME Before(key, at[n], at[m]) PROVE FALSE  OBVIOUS
    <3>1. Cardinality(Ahead(D, key, at[n])) < Cardinality(Ahead(D, key, at[m]))
      BY <1>2, AheadGrows
    <3>2. n - 1 < m - 1  BY <1>2, <3>1
    <3> QED  BY <1>0, <1>6, <3>2
  <2> QED  BY <1>2, <2>1, <2>2, BeforeIsOrder
<1> QED  BY <1>0, <1>4, <1>5, <1>6 DEF N, at
(* Whatever lists the positions best first is the ranking. *)
THEOREM RankingIsUnique ==
  ASSUME NEW D \in SUBSET Int, NEW key \in [D -> Int],
         NEW N \in Nat, NEW at \in [1 .. N -> D],
         \A k \in D : \E n \in 1 .. N : at[n] = k,
         \A m, n \in 1 .. N : m < n => Before(key, at[m], at[n])
  PROVE  IsFiniteSet(D) /\ Cardinality(D) = N /\ Ranking(D, key) = at
<1>1. \A m, n \in 1 .. N : at[m] = at[n] => m = n
  <2> SUFFICES ASSUME NEW m \in 1 .. N, NEW n \in 1 .. N, at[m] = at[n], m < n PROVE FALSE
    OBVIOUS
  <2> QED  BY BeforeIsOrder
<1>2. IsFiniteSet(1 .. N) /\ Cardinality(1 .. N) = N  BY UpToFacts
<1>3. IsFiniteSet(D) /\ Cardinality(D) = N  BY <1>1, <1>2, SameSize
<1> DEFINE r == Ranking(D, key)
<1>4. /\ r \in [1 .. N -> D]
      /\ \A k \in D : \E n \in 1 .. N : r[n] = k
      /\ \A m, n \in 1 .. N : m < n => Before(key, r[m], r[n])
  BY <1>3, RankingFacts
<1>5. \A n \in 1 .. N : r[n] = CHOOSE k \in D : Cardinality(Ahead(D, key, k)) = n - 1
  BY <1>3 DEF Ranking, Ahead
<1> HIDE DEF r
<1>6. ASSUME NEW n \in 1 .. N PROVE Cardinality(Ahead(D, key, at[n])) = n - 1
  <2> DEFINE g == [m \in 1 .. n - 1 |-> at[m]]
             A == Ahead(D, key, at[n])
  <2>1. n - 1 \in Nat /\ 1 .. n - 1 \subseteq 1 .. N /\ \A m \in 1 .. n - 1 : m < n  OBVIOUS
  <2>2. IsFiniteSet(1 .. n - 1) /\ Cardinality(1 .. n - 1) = n - 1  BY <2>1, UpToFacts
  <2>3. g \in [1 .. n - 1 -> A]  BY <2>1 DEF Ahead
  <2>4. \A x, y \in 1 .. n - 1 : g[x] = g[y] => x = y  BY <1>1, <2>1
  <2>5. ASSUME NEW k \in A PROVE \E m \in 1 .. n - 1 : g[m] = k
    <3>1. k \in D /\ Before(key, k, at[n])  BY DEF Ahead
    <3>2. PICK m \in 1 .. N : at[m] = k  BY <3>1
    <3>3. ~ n < m /\ m # n
      <4>0. at[n] \in D  OBVIOUS
      <4>2. /\ \A j \in D : ~ Before(key, j, j)
            /\ \A x, y, z \in D : Before(key, x, y) /\ Before(key, y, z) => Before(key, x, z)
        BY BeforeIsOrder
      <4>1. ~ Before(key, at[n], k) /\ at[n] # k  BY ONLY <3>1, <4>0, <4>2
      <4> QED  BY <3>2, <4>1
    <3>4. m \in 1 .. n - 1  BY <3>3
    <3> QED  BY <3>2, <3>4
  <2> HIDE DEF g, A
  <2>6. Cardinality(A) = Cardinality(1 .. n - 1)
    BY <2>2, <2>3, <2>4, <2>5, SameSize
  <2> QED  BY <2>2, <2>6 DEF A
<1>7. \A j, k \in D : Cardinality(Ahead(D, key, j)) = Cardinality(Ahead(D, key, k)) => j = k
  BY <1>3, BeforeIsOrder, AheadGrows, AheadFacts
<1>8. ASSUME NEW n \in 1 .. N PROVE r[n] = at[n]
  <2>1. at[n] \in D /\ Cardinality(Ahead(D, key, at[n])) = n - 1  BY <1>6
  <2>2. r[n] \in D /\ Cardinality(Ahead(D, key, r[n])) = n - 1  BY <1>5, <2>1
  <2> QED  BY <1>7, <2>1, <2>2
<1>9. r = at  BY <1>4, <1>8
<1> QED  BY <1>3, <1>9 DEF r

(* The same for positions in their own order. *)
LEMMA InOrderFacts ==
  ASSUME NEW D \in SUBSET Int, IsFiniteSet(D)
  PROVE  /\ Cardinality(D) \in Nat
         /\ InOrder(D) \in [1 .. Cardinality(D) -> D]
         /\ \A k \in D : \E n \in 1 .. Cardinality(D) : InOrder(D)[n] = k
         /\ \A m, n \in 1 .. Cardinality(D) : m < n => InOrder(D)[m] < InOrder(D)[n]
<1> DEFINE key == [k \in D |-> 0]
           at == Ranking(D, key)
<1>1. key \in [D -> Int] /\ InOrder(D) = at  BY DEF InOrder
<1>2. \A j, k \in D : Before(key, j, k) <=> j < k  BY DEF Before
<1> HIDE DEF key
<1>3. /\ Cardinality(D) \in Nat
      /\ at \in [1 .. Cardinality(D) -> D]
      /\ \A k \in D : \E n \in 1 .. Cardinality(D) : at[n] = k
      /\ \A m, n \in 1 .. Cardinality(D) : m < n => Before(key, at[m], at[n])
  BY <1>1, RankingFacts
<1> HIDE DEF at
<1> QED  BY <1>1, <1>2, <1>3

LEMMA InOrderIsUnique ==
  ASSUME NEW D \in SUBSET Int, NEW N \in Nat, NEW at \in [1 .. N -> D],
         \A k \in D : \E n \in 1 .. N : at[n] = k,
         \A m, n \in 1 .. N : m < n => at[m] < at[n]
  PROVE  IsFiniteSet(D) /\ Cardinality(D) = N /\ InOrder(D) = at
<1> DEFINE key == [k \in D |-> 0]
<1>1. key \in [D -> Int] /\ InOrder(D) = Ranking(D, key)  BY DEF InOrder
<1>2. \A j, k \in D : Before(key, j, k) <=> j < k  BY DEF Before
<1> HIDE DEF key
<1>3. \A m, n \in 1 .. N : m < n => Before(key, at[m], at[n])
  <2> SUFFICES ASSUME NEW m \in 1 .. N, NEW n \in 1 .. N, m < n
               PROVE  Before(key, at[m], at[n])
    OBVIOUS
  <2>1. at[m] \in D /\ at[n] \in D /\ at[m] < at[n]  OBVIOUS
  <2> QED  BY <1>2, <2>1
<1>4. IsFiniteSet(D) /\ Cardinality(D) = N /\ Ranking(D, key) = at
  BY <1>1, <1>3, RankingIsUnique
<1> QED  BY <1>1, <1>4

(* A ranking of some positions of a list lists what stands there.         *)
LEMMA RankedElements ==
  ASSUME NEW s, NEW D \in SUBSET Int, IsFiniteSet(D), NEW key \in [D -> Int]
  PROVE  /\ Cardinality(D) \in Nat
         /\ DOMAIN At(s, Ranking(D, key)) = 1 .. Cardinality(D)
         /\ \A n \in DOMAIN At(s, Ranking(D, key)) :
              \E k \in D : At(s, Ranking(D, key))[n] = s[k]
         /\ \A k \in D :
              \E n \in DOMAIN At(s, Ranking(D, key)) : At(s, Ranking(D, key))[n] = s[k]
<1> DEFINE r == Ranking(D, key)
           N == Cardinality(D)
           t == At(s, r)
<1>1. /\ N \in Nat /\ r \in [1 .. N -> D]
      /\ \A k \in D : \E n \in 1 .. N : r[n] = k
  BY RankingFacts
<1> HIDE DEF r, N
<1>2. DOMAIN t = 1 .. N /\ \A n \in 1 .. N : t[n] = s[r[n]]
  BY <1>1 DEF At
<1> HIDE DEF t
<1>3. ASSUME NEW n \in DOMAIN t PROVE \E k \in D : t[n] = s[k]
  <2>1. r[n] \in D /\ t[n] = s[r[n]]  BY <1>1, <1>2
  <2> QED  BY <2>1
<1>4. ASSUME NEW k \in D PROVE \E n \in DOMAIN t : t[n] = s[k]
  <2>1. PICK n \in 1 .. N : r[n] = k  BY <1>1
  <2>2. n \in DOMAIN t /\ t[n] = s[k]  BY <1>2, <2>1
  <2> QED  BY <2>2
<1> QED  BY <1>1, <1>2, <1>3, <1>4 DEF t, r, N

LEMMA RankedSeq ==
  ASSUME NEW s, NEW D \in SUBSET Int, IsFiniteSet(D), NEW key \in [D -> Int]
  PROVE  /\ IsSeq(At(s, Ranking(D, key)))
         /\ Len(At(s, Ranking(D, key))) = Cardinality(D) /\ Cardinality(D) \in Nat
<1> DEFINE r == Ranking(D, key)
           t == At(s, r)
<1>1. Cardinality(D) \in Nat /\ DOMAIN t = 1 .. Cardinality(D)  BY RankedElements
<1>2. t = [n \in DOMAIN t |-> t[n]]
  <2> HIDE DEF r
  <2> QED  BY DEF At
<1> HIDE DEF t
<1>3. IsSeq(t) /\ Len(t) = Cardinality(D)  BY <1>1, <1>2, FunctionIsSeq
<1> QED  BY <1>1, <1>3 DEF t

(* One position more, past the others. *)
LEMMA InOrderGrows ==
  ASSUME NEW D \in SUBSET Int, IsFiniteSet(D), NEW e \in Int, \A k \in D : k < e
  PROVE  /\ Cardinality(D) \in Nat /\ Cardinality(D \union {e}) = Cardinality(D) + 1
         /\ InOrder(D \union {e})
              = [m \in 1 .. Cardinality(D) + 1 |->
                   IF m = Cardinality(D) + 1 THEN e ELSE InOrder(D)[m]]
<1> DEFINE N == Cardinality(D)
           E == D \union {e}
           o == InOrder(D)
           at == [m \in 1 .. N + 1 |-> IF m = N + 1 THEN e ELSE o[m]]
<1>2. /\ N \in Nat /\ o \in [1 .. N -> D] /\ D \subseteq Int
      /\ \A k \in D : \E m \in 1 .. N : o[m] = k
      /\ \A l, m \in 1 .. N : l < m => o[l] < o[m]
  BY InOrderFacts
<1> HIDE DEF N, o
<1>3. ASSUME NEW m \in 1 .. N PROVE o[m] \in D /\ o[m] < e /\ m # N + 1
  <2>1. o[m] \in D  BY <1>2
  <2>2. m # N + 1  BY <1>2
  <2> QED  BY <2>1, <2>2
<1>4. at \in [1 .. N + 1 -> E] /\ N + 1 \in Nat  BY <1>2, <1>3
<1>5. \A k \in E : \E m \in 1 .. N + 1 : at[m] = k
  <2>1. at[N + 1] = e /\ N + 1 \in 1 .. N + 1  BY <1>2
  <2>2. \A m \in 1 .. N : at[m] = o[m] /\ m \in 1 .. N + 1  BY <1>2
  <2> QED  BY <1>2, <2>1, <2>2
<1>6. \A l, m \in 1 .. N + 1 : l < m => at[l] < at[m]
  <2> SUFFICES ASSUME NEW l \in 1 .. N + 1, NEW m \in 1 .. N + 1, l < m
               PROVE  at[l] < at[m]
    OBVIOUS
  <2>1. l \in 1 .. N /\ at[l] = o[l]  BY <1>2
  <2>2. CASE m = N + 1  BY <1>3, <2>1, <2>2
  <2>3. CASE m # N + 1
    <3>1. m \in 1 .. N /\ at[m] = o[m]  BY <1>2, <2>3
    <3> QED  BY <1>2, <2>1, <3>1
  <2> QED  BY <2>2, <2>3
<1>7. E \in SUBSET Int  BY <1>2
<1> HIDE DEF at, E
<1>8. Cardinality(E) = N + 1 /\ InOrder(E) = at
  BY <1>4, <1>5, <1>6, <1>7, InOrderIsUnique
<1> QED  BY <1>2, <1>8 DEF N, E, o, at

LEMMA InOrderAll ==
  ASSUME NEW N \in Nat
  PROVE  InOrder(1 .. N) = [n \in 1 .. N |-> n]
<1> DEFINE at == [n \in 1 .. N |-> n]
<1>1. at \in [1 .. N -> 1 .. N] /\ 1 .. N \in SUBSET Int  OBVIOUS
<1>2. \A k \in 1 .. N : \E n \in 1 .. N : at[n] = k
  <2> SUFFICES ASSUME NEW k \in 1 .. N PROVE at[k] = k  OBVIOUS
  <2> QED  OBVIOUS
<1>3. \A m, n \in 1 .. N : m < n => at[m] < at[n]  OBVIOUS
<1> HIDE DEF at
<1>4. InOrder(1 .. N) = at  BY <1>1, <1>2, <1>3, InOrderIsUnique
<1> QED  BY <1>4 DEF at

(* Picking everything. *)
LEMMA AllPicked ==
  ASSUME NEW s, IsSeq(s)
  PROVE  At(s, InOrder(DOMAIN s)) = s
<1>1. PICK S : s \in Seq(S)  BY DEF IsSeq
<1>2. s \in [1 .. Len(s) -> S] /\ DOMAIN s = 1 .. Len(s) /\ Len(s) \in Nat
  BY <1>1, LenProperties
<1>3. InOrder(DOMAIN s) = [n \in 1 .. Len(s) |-> n]  BY <1>2, InOrderAll
<1>4. At(s, InOrder(DOMAIN s)) = [n \in 1 .. Len(s) |-> s[n]]  BY <1>3 DEF At
<1> QED  BY <1>2, <1>4

(* Sorting what was picked out is ranking the positions picked.            *)
LEMMA SortPicked ==
  ASSUME NEW s, NEW D \in SUBSET Int, IsFiniteSet(D), NEW key \in [D -> Int],
         NEW own, own = [n \in 1 .. Cardinality(D) |-> key[InOrder(D)[n]]]
  PROVE  At(At(s, InOrder(D)), Ranking(1 .. Cardinality(D), own)) = At(s, Ranking(D, key))
<1> DEFINE N == Cardinality(D)
           o == InOrder(D)
           r == Ranking(1 .. N, own)
           c == [n \in 1 .. N |-> o[r[n]]]
<1>1. /\ N \in Nat /\ o \in [1 .. N -> D]
      /\ \A k \in D : \E m \in 1 .. N : o[m] = k
      /\ \A l, m \in 1 .. N : l < m => o[l] < o[m]
  BY InOrderFacts
<1> HIDE DEF N, o
<1>2. own \in [1 .. N -> Int] /\ \A n \in 1 .. N : own[n] = key[o[n]]
  <2>1. own = [n \in 1 .. N |-> key[o[n]]]  BY DEF N, o
  <2> QED  BY <1>1, <2>1
<1>3. /\ r \in [1 .. N -> 1 .. N]
      /\ \A k \in 1 .. N : \E m \in 1 .. N : r[m] = k
      /\ \A l, m \in 1 .. N : l < m => Before(own, r[l], r[m])
  <2>1. IsFiniteSet(1 .. N) /\ Cardinality(1 .. N) = N /\ 1 .. N \in SUBSET Int
    BY <1>1, UpToFacts
  <2>2. own \in [1 .. N -> Int]  BY <1>2
  <2> DEFINE W == 1 .. N
  <2>3. r = Ranking(W, own)  OBVIOUS
  <2> HIDE DEF r, W
  <2>4. /\ r \in [1 .. Cardinality(W) -> W]
        /\ \A k \in W : \E m \in 1 .. Cardinality(W) : r[m] = k
        /\ \A l, m \in 1 .. Cardinality(W) : l < m => Before(own, r[l], r[m])
    <3>1. IsFiniteSet(W) /\ W \in SUBSET Int /\ own \in [W -> Int]  BY <2>1, <2>2 DEF W
    <3> QED  BY ONLY <2>3, <3>1, RankingFacts
  <2>5. Cardinality(W) = N  BY <2>1 DEF W
  <2> QED  BY <2>4, <2>5 DEF W
<1> HIDE DEF r
<1>4. c \in [1 .. N -> D]  BY <1>1, <1>3
<1>5. \A k \in D : \E n \in 1 .. N : c[n] = k
  <2> SUFFICES ASSUME NEW k \in D PROVE \E n \in 1 .. N : c[n] = k  OBVIOUS
  <2>1. PICK m \in 1 .. N : o[m] = k  BY <1>1
  <2>2. PICK n \in 1 .. N : r[n] = m  BY <1>3
  <2> QED  BY <2>1, <2>2
<1>6. \A m, n \in 1 .. N : m < n => Before(key, c[m], c[n])
  <2> SUFFICES ASSUME NEW m \in 1 .. N, NEW n \in 1 .. N, m < n
               PROVE  Before(key, c[m], c[n])
    OBVIOUS
  <2>1. Before(own, r[m], r[n]) /\ r[m] \in 1 .. N /\ r[n] \in 1 .. N  BY <1>3
  <2>2. own[r[m]] = key[c[m]] /\ own[r[n]] = key[c[n]]  BY <1>2, <2>1
  <2>3. r[m] < r[n] => c[m] < c[n]  BY <1>1, <2>1
  <2> HIDE DEF c
  <2> QED  BY <2>1, <2>2, <2>3 DEF Before
<1> HIDE DEF c
<1>7. Ranking(D, key) = c  BY <1>1, <1>4, <1>5, <1>6, RankingIsUnique
<1>8. At(At(s, o), r) = At(s, c)
  BY <1>1, <1>3, <1>4 DEF At, c
<1> QED  BY <1>7, <1>8 DEF N, o, r

(* Picking from a sorted list is ranking what is picked.                   *)
LEMMA PickRanked ==
  ASSUME NEW s, NEW D \in SUBSET Int, IsFiniteSet(D), NEW key \in [D -> Int],
         NEW F \in SUBSET D, NEW own, own = [k \in F |-> key[k]],
         NEW E, E = {n \in 1 .. Cardinality(D) : Ranking(D, key)[n] \in F}
  PROVE  At(At(s, Ranking(D, key)), InOrder(E)) = At(s, Ranking(F, own))
<1> DEFINE N == Cardinality(D)
           r == Ranking(D, key)
           o == InOrder(E)
           M == Cardinality(E)
           c == [n \in 1 .. M |-> r[o[n]]]
<1>1. /\ N \in Nat /\ r \in [1 .. N -> D]
      /\ \A k \in D : \E m \in 1 .. N : r[m] = k
      /\ \A l, m \in 1 .. N : l < m => Before(key, r[l], r[m])
  BY RankingFacts
<1>2. E = {n \in 1 .. N : r[n] \in F}  OBVIOUS
<1> HIDE DEF N, r
<1>3. E \subseteq 1 .. N /\ E \in SUBSET Int /\ IsFiniteSet(E)
  <2>1. IsFiniteSet(1 .. N)  BY <1>1, UpToFacts
  <2>2. E \subseteq 1 .. N  BY <1>2
  <2>3. IsFiniteSet(E)  BY <2>1, <2>2, FS_Subset
  <2>4. 1 .. N \subseteq Int  OBVIOUS
  <2> QED  BY ONLY <2>2, <2>3, <2>4
<1>4. /\ M \in Nat /\ o \in [1 .. M -> E]
      /\ \A k \in E : \E m \in 1 .. M : o[m] = k
      /\ \A l, m \in 1 .. M : l < m => o[l] < o[m]
  BY <1>3, InOrderFacts
<1> HIDE DEF M, o
<1>5. c \in [1 .. M -> F]  BY <1>2, <1>4
<1>6. \A k \in F : \E n \in 1 .. M : c[n] = k
  <2> SUFFICES ASSUME NEW k \in F PROVE \E n \in 1 .. M : c[n] = k  OBVIOUS
  <2>1. PICK m \in 1 .. N : r[m] = k  BY <1>1
  <2>2. m \in E  BY <1>2, <2>1
  <2>3. PICK n \in 1 .. M : o[n] = m  BY <1>4, <2>2
  <2> QED  BY <2>1, <2>3
<1>7. \A m, n \in 1 .. M : m < n => Before(own, c[m], c[n])
  <2> SUFFICES ASSUME NEW m \in 1 .. M, NEW n \in 1 .. M, m < n
               PROVE  Before(own, c[m], c[n])
    OBVIOUS
  <2>1. o[m] < o[n] /\ o[m] \in 1 .. N /\ o[n] \in 1 .. N  BY <1>3, <1>4
  <2>2. Before(key, c[m], c[n])  BY <1>1, <2>1
  <2>3. c[m] \in F /\ c[n] \in F  BY <1>5
  <2>4. own[c[m]] = key[c[m]] /\ own[c[n]] = key[c[n]]  BY <2>3
  <2> HIDE DEF c
  <2> QED  BY <2>2, <2>4 DEF Before
<1>8. own \in [F -> Int] /\ F \in SUBSET Int  OBVIOUS
<1>9. At(At(s, r), o) = At(s, c)
  <2>1. DOMAIN o = 1 .. M /\ DOMAIN r = 1 .. N  BY <1>1, <1>4
  <2>2. \A n \in 1 .. M : At(s, r)[o[n]] = s[r[o[n]]]
    <3> SUFFICES ASSUME NEW n \in 1 .. M PROVE At(s, r)[o[n]] = s[r[o[n]]]  OBVIOUS
    <3>1. o[n] \in DOMAIN r  BY <1>3, <1>4, <2>1
    <3> QED  BY <3>1 DEF At
  <2>3. At(At(s, r), o) = [n \in 1 .. M |-> At(s, r)[o[n]]]  BY <2>1 DEF At
  <2>4. At(s, c) = [n \in 1 .. M |-> s[r[o[n]]]]  BY DEF At, c
  <2> QED  BY <2>2, <2>3, <2>4
<1> HIDE DEF c
<1>10. Ranking(F, own) = c
  <2>1. M \in Nat  BY <1>4
  <2> QED  BY ONLY <2>1, <1>5, <1>6, <1>7, <1>8, RankingIsUnique, SMTT(30)
<1> QED  BY <1>9, <1>10 DEF r, o

LEMMA NothingPicked ==
  ASSUME NEW s
  PROVE  At(s, InOrder({})) = <<>>
<1> DEFINE none == [k \in {} |-> 0]
           t == At(s, Ranking({}, none))
<1>1. {} \in SUBSET Int /\ IsFiniteSet({}) /\ Cardinality({}) = 0 /\ none \in [{} -> Int]
  BY FS_EmptySet
<1> HIDE DEF none
<1>2. IsSeq(t) /\ Len(t) = 0  BY <1>1, RankedSeq
<1> HIDE DEF t
<1>3. t = <<>>  BY <1>2, EmptySeq DEF IsSeq
<1> QED  BY <1>3 DEF t, none, InOrder

LEMMA AppendedElements ==
  ASSUME NEW s, IsSeq(s), NEW e
  PROVE  Append(s, e) = [m \in 1 .. Len(s) + 1 |-> IF m = Len(s) + 1 THEN e ELSE s[m]]
<1>1. PICK S : s \in Seq(S)  BY DEF IsSeq
<1> DEFINE T == S \union {e}
<1>2. s \in Seq(T) /\ e \in T  BY <1>1, SeqMonotonic
<1>3. /\ Append(s, e) \in Seq(T) /\ Len(Append(s, e)) = Len(s) + 1 /\ Len(s) \in Nat
      /\ \A m \in 1 .. Len(s) : Append(s, e)[m] = s[m]
      /\ Append(s, e)[Len(s) + 1] = e
  BY <1>2, AppendProperties
<1> DEFINE x == Append(s, e)
           N == Len(s) + 1
<1> HIDE DEF x
<1>4. x \in Seq(T) /\ Len(x) = N /\ N = Len(s) + 1  BY <1>3 DEF x
<1>5. x \in [1 .. N -> T]  BY <1>4, LenProperties
<1>6. \A m \in 1 .. N : x[m] = IF m = N THEN e ELSE s[m]
  <2> SUFFICES ASSUME NEW m \in 1 .. N PROVE x[m] = IF m = N THEN e ELSE s[m]  OBVIOUS
  <2>1. CASE m = N  BY <1>3, <2>1 DEF x
  <2>2. CASE m # N
    <3>1. m \in 1 .. Len(s)  BY <1>3, <2>2
    <3> QED  BY <1>3, <2>2, <3>1 DEF x
  <2> QED  BY <2>1, <2>2
<1> HIDE DEF N
<1>7. x = [m \in 1 .. N |-> IF m = N THEN e ELSE s[m]]  BY <1>5, <1>6
<1> QED  BY <1>7 DEF x, N

LEMMA SamePicked ==
  ASSUME NEW s, NEW t, NEW D \in SUBSET Int, IsFiniteSet(D), \A k \in D : t[k] = s[k]
  PROVE  At(t, InOrder(D)) = At(s, InOrder(D))
<1>1. InOrder(D) \in [1 .. Cardinality(D) -> D]  BY InOrderFacts
<1> QED  BY <1>1 DEF At

(* The loop that picks, one turn of it.  Longer keeps Append in one piece:  *)
(* the prover takes an equation with Append itself apart.                   *)
Longer(s, e) == Append(s, e)

LEMMA PickGrows ==
  ASSUME NEW s, NEW t, NEW D \in SUBSET Int, IsFiniteSet(D),
         NEW e \in Int, \A k \in D : k < e,
         \A k \in D : t[k] = s[k],
         NEW E, \A k : k \in E <=> k \in D \/ k = e
  PROVE  At(t, InOrder(E)) = Longer(At(s, InOrder(D)), t[e])
<1>0. E = D \union {e}  OBVIOUS
<1> DEFINE o == InOrder(D)
           N == Cardinality(D)
           x == At(s, o)
           p == InOrder(E)
<1>1. N \in Nat /\ p = [m \in 1 .. N + 1 |-> IF m = N + 1 THEN e ELSE o[m]]
  BY <1>0, InOrderGrows
<1>2. o \in [1 .. N -> D]  BY InOrderFacts
<1> HIDE DEF N, o, p
<1>4. DOMAIN x = 1 .. N /\ x = [m \in DOMAIN x |-> x[m]] /\ \A m \in 1 .. N : x[m] = s[o[m]]
  BY <1>2 DEF At
<1> HIDE DEF x
<1>5. IsSeq(x) /\ Len(x) = N  BY <1>1, <1>4, FunctionIsSeq
<1>6. Append(x, t[e]) = [m \in 1 .. N + 1 |-> IF m = N + 1 THEN t[e] ELSE x[m]]
  BY <1>5, AppendedElements
<1>7. At(t, p) = [m \in 1 .. N + 1 |-> t[IF m = N + 1 THEN e ELSE o[m]]]
  BY <1>1 DEF At
<1>8. \A m \in 1 .. N + 1 : m # N + 1 => t[o[m]] = x[m]
  <2> SUFFICES ASSUME NEW m \in 1 .. N + 1, m # N + 1 PROVE t[o[m]] = x[m]  OBVIOUS
  <2>1. m \in 1 .. N  BY <1>1
  <2>2. o[m] \in D  BY <1>2, <2>1
  <2> QED  BY <1>4, <2>1, <2>2
<1>9. At(t, p) = Append(x, t[e])  BY <1>6, <1>7, <1>8
<1> QED  BY <1>9 DEF o, p, x, Longer

-----------------------------------------------------------------------------
(* Sums *)

Units(f) == UNION {{k} \X (1 .. f[k]) : k \in DOMAIN f}

LEMMA UnitsFacts ==
  ASSUME NEW S, IsFiniteSet(S), NEW f \in [S -> Nat]
  PROVE  /\ \A x : x \in Units(f) <=> (\E k \in S : \E u \in 1 .. f[k] : x = <<k, u>>)
         /\ IsFiniteSet(Units(f)) /\ Total(f) = Cardinality(Units(f)) /\ Total(f) \in Nat
<1>1. \A x : x \in Units(f) <=> (\E k \in S : \E u \in 1 .. f[k] : x = <<k, u>>)
  BY DEF Units
<1>2. IsFiniteSet(Units(f))
  <2> DEFINE parts == {{k} \X (1 .. f[k]) : k \in S}
             part == [k \in S |-> {k} \X (1 .. f[k])]
  <2>1. part \in Surjection(S, parts)  BY DEF Surjection
  <2>2. IsFiniteSet(parts)  BY <2>1, FS_Surjection
  <2>3. ASSUME NEW P \in parts PROVE IsFiniteSet(P)
    <3>1. PICK k \in S : P = {k} \X (1 .. f[k])  OBVIOUS
    <3>2. IsFiniteSet({k}) /\ IsFiniteSet(1 .. f[k])  BY FS_Singleton, UpToFacts
    <3> QED  BY <3>1, <3>2, FS_Product
  <2>4. Units(f) = UNION parts  BY DEF Units
  <2> HIDE DEF parts
  <2> QED  BY <2>2, <2>3, <2>4, FS_UNION
<1>3. Total(f) = Cardinality(Units(f))  BY DEF Total, Units
<1> QED  BY <1>1, <1>2, <1>3, FS_CardinalityType

(* One term more. *)
LEMMA TotalGrows ==
  ASSUME NEW S, IsFiniteSet(S), NEW f \in [S -> Nat], NEW x, x \notin S,
         NEW T, \A k : k \in T <=> k \in S \/ k = x,
         NEW g \in [T -> Nat], \A k \in S : g[k] = f[k]
  PROVE  Total(g) = Total(f) + g[x]
<1> DEFINE A == Units(f)
           B == Units(g)
           m == g[x]
           W == 1 .. m
           N == {<<x, u>> : u \in W}
           at == [u \in W |-> <<x, u>>]
<1>1. IsFiniteSet(T)
  <2>1. T = S \union {x}  OBVIOUS
  <2> QED  BY <2>1, FS_AddElement
<1>2. /\ \A y : y \in A <=> (\E k \in S : \E u \in 1 .. f[k] : y = <<k, u>>)
      /\ IsFiniteSet(A) /\ Total(f) = Cardinality(A)
  BY UnitsFacts
<1>3. /\ \A y : y \in B <=> (\E k \in T : \E u \in 1 .. g[k] : y = <<k, u>>)
      /\ IsFiniteSet(B) /\ Total(g) = Cardinality(B)
  BY <1>1, UnitsFacts
<1> HIDE DEF A, B
<1>4. m \in Nat  OBVIOUS
<1>5. IsFiniteSet(W) /\ Cardinality(W) = m  BY <1>4, UpToFacts
<1>6. /\ at \in [W -> N] /\ \A u, v \in W : at[u] = at[v] => u = v
      /\ \A y \in N : \E u \in W : at[u] = y
  OBVIOUS
<1>7. IsFiniteSet(N) /\ Cardinality(N) = m
  <2> HIDE DEF at, N, W, m
  <2> QED  BY <1>5, <1>6, SameSize
<1>8. A \cap N = {}  BY <1>2
<1>9. B = A \union N
  <2>1. ASSUME NEW y \in B PROVE y \in A \union N
    <3>1. PICK k \in T : \E u \in 1 .. g[k] : y = <<k, u>>  BY <1>3
    <3>2. PICK u \in 1 .. g[k] : y = <<k, u>>  BY <3>1
    <3>3. CASE k \in S  BY <1>2, <3>2, <3>3
    <3>4. CASE k = x  BY <3>2, <3>4
    <3> QED  BY <3>3, <3>4
  <2>2. ASSUME NEW y \in A PROVE y \in B
    <3>1. PICK k \in S : \E u \in 1 .. f[k] : y = <<k, u>>  BY <1>2
    <3> QED  BY <1>3, <3>1
  <2>3. ASSUME NEW y \in N PROVE y \in B  BY <1>3
  <2> QED  BY <2>1, <2>2, <2>3
<1> HIDE DEF N
<1>10. Cardinality(B) = Cardinality(A) + Cardinality(N) - Cardinality(A \cap N)
  BY <1>2, <1>7, <1>9, FS_Union
<1>11. Cardinality(A) \in Nat  BY <1>2, FS_CardinalityType
<1>12. Cardinality(A \cap N) = 0  BY <1>8, FS_EmptySet
<1> QED  BY <1>2, <1>3, <1>4, <1>7, <1>10, <1>11, <1>12

LEMMA OneTerm ==
  ASSUME NEW S, IsFiniteSet(S), NEW f \in [S -> Nat], NEW x \in S,
         \A k \in S : k # x => f[k] = 0
  PROVE  Total(f) = f[x]
<1> DEFINE A == Units(f)
           m == f[x]
           W == 1 .. m
           at == [u \in W |-> <<x, u>>]
<1>1. /\ \A y : y \in A <=> (\E k \in S : \E u \in 1 .. f[k] : y = <<k, u>>)
      /\ Total(f) = Cardinality(A)
  BY UnitsFacts
<1> HIDE DEF A
<1>2. m \in Nat  OBVIOUS
<1>3. IsFiniteSet(W) /\ Cardinality(W) = m  BY <1>2, UpToFacts
<1>4. at \in [W -> A] /\ \A u, v \in W : at[u] = at[v] => u = v
  BY <1>1
<1>5. \A y \in A : \E u \in W : at[u] = y
  <2> SUFFICES ASSUME NEW y \in A PROVE \E u \in W : at[u] = y  OBVIOUS
  <2>1. PICK k \in S : \E u \in 1 .. f[k] : y = <<k, u>>  BY <1>1
  <2>2. PICK u \in 1 .. f[k] : y = <<k, u>>  BY <2>1
  <2>3. k = x  BY <2>2
  <2> QED  BY <2>2, <2>3
<1> HIDE DEF at, W
<1>6. Cardinality(A) = Cardinality(W)  BY ONLY <1>3, <1>4, <1>5, SameSize
<1> QED  BY <1>1, <1>3, <1>6 DEF m

(* Two sums are equal if their terms other than 0 correspond. *)
THEOREM SameTerms ==
  ASSUME NEW S, IsFiniteSet(S), NEW f \in [S -> Nat],
         NEW T, IsFiniteSet(T), NEW g \in [T -> Nat],
         NEW U \in SUBSET S, \A k \in S \ U : f[k] = 0,
         NEW h \in [U -> T], \A k \in U : g[h[k]] = f[k],
         \A j, k \in U : h[j] = h[k] => j = k,
         \A l \in T : g[l] # 0 => \E k \in U : h[k] = l
  PROVE  Total(f) = Total(g)
<1> DEFINE A == Units(f)
           B == Units(g)
           move == [x \in A |-> <<h[x[1]], x[2]>>]
<1>1. /\ \A x : x \in A <=> (\E k \in S : \E u \in 1 .. f[k] : x = <<k, u>>)
      /\ IsFiniteSet(A) /\ Total(f) = Cardinality(A)
  BY UnitsFacts
<1>2. /\ \A x : x \in B <=> (\E k \in T : \E u \in 1 .. g[k] : x = <<k, u>>)
      /\ Total(g) = Cardinality(B)
  BY UnitsFacts
<1> HIDE DEF A, B
<1>3. \A x \in A : x[1] \in U /\ x[2] \in 1 .. f[x[1]] /\ x = <<x[1], x[2]>>
  <2> SUFFICES ASSUME NEW x \in A
               PROVE  x[1] \in U /\ x[2] \in 1 .. f[x[1]] /\ x = <<x[1], x[2]>>
    OBVIOUS
  <2>1. PICK k \in S : \E u \in 1 .. f[k] : x = <<k, u>>  BY <1>1
  <2>1a. PICK u \in 1 .. f[k] : x = <<k, u>>  BY <2>1
  <2>2. f[k] # 0  BY <2>1a
  <2> QED  BY <2>1a, <2>2
<1>4. move \in [A -> B]
  <2> SUFFICES ASSUME NEW x \in A PROVE <<h[x[1]], x[2]>> \in B  OBVIOUS
  <2>1. h[x[1]] \in T /\ x[2] \in 1 .. g[h[x[1]]]  BY <1>3
  <2> QED  BY <1>2, <2>1
<1>5. \A x, y \in A : move[x] = move[y] => x = y
  <2> SUFFICES ASSUME NEW x \in A, NEW y \in A, move[x] = move[y] PROVE x = y
    OBVIOUS
  <2>1. h[x[1]] = h[y[1]] /\ x[2] = y[2]  OBVIOUS
  <2>2. x[1] = y[1]  BY <1>3, <2>1
  <2> QED  BY <1>3, <2>1, <2>2
<1>6. \A y \in B : \E x \in A : move[x] = y
  <2> SUFFICES ASSUME NEW y \in B PROVE \E x \in A : move[x] = y  OBVIOUS
  <2>1. PICK l \in T : \E u \in 1 .. g[l] : y = <<l, u>>  BY <1>2
  <2>1a. PICK u \in 1 .. g[l] : y = <<l, u>>  BY <2>1
  <2>2. PICK k \in U : h[k] = l  BY <2>1a
  <2>3. <<k, u>> \in A  BY <1>1, <2>1a, <2>2
  <2>4. move[<<k, u>>] = y  BY <2>1a, <2>2, <2>3
  <2> QED  BY <2>3, <2>4
<1> HIDE DEF move
<1> QED  BY <1>1, <1>2, <1>4, <1>5, <1>6, SameSize

(* The sum of the sizes of disjoint sets is the size of their union. *)
THEOREM TotalOfSizes ==
  ASSUME NEW S, IsFiniteSet(S), NEW f \in [S -> Nat], NEW A, DOMAIN A = S,
         \A k \in S : IsFiniteSet(A[k]) /\ Cardinality(A[k]) = f[k],
         \A j, k \in S : j # k => A[j] \cap A[k] = {},
         NEW W, \A x : x \in W <=> (\E k \in S : x \in A[k])
  PROVE  IsFiniteSet(W) /\ Cardinality(W) = Total(f)
<1> DEFINE number == [k \in S |-> CHOOSE b \in Bijection(1 .. f[k], A[k]) : TRUE]
           B == Units(f)
           pick == [x \in B |-> number[x[1]][x[2]]]
<1>1. /\ \A x : x \in B <=> (\E k \in S : \E u \in 1 .. f[k] : x = <<k, u>>)
      /\ IsFiniteSet(B) /\ Total(f) = Cardinality(B)
  BY UnitsFacts
<1>2. \A k \in S : number[k] \in Bijection(1 .. f[k], A[k])
  <2> SUFFICES ASSUME NEW k \in S PROVE number[k] \in Bijection(1 .. f[k], A[k])
    OBVIOUS
  <2>1. IsFiniteSet(1 .. f[k]) /\ Cardinality(1 .. f[k]) = f[k]  BY UpToFacts
  <2>2. ExistsBijection(1 .. f[k], A[k])  BY <2>1, FS_SameCardinalityBij
  <2>3. \E b : b \in Bijection(1 .. f[k], A[k])  BY <2>2 DEF ExistsBijection
  <2> QED  BY <2>3
<1> HIDE DEF number
<1>3. \A k \in S : /\ number[k] \in [1 .. f[k] -> A[k]]
                   /\ \A x, y \in 1 .. f[k] : number[k][x] = number[k][y] => x = y
                   /\ \A a \in A[k] : \E x \in 1 .. f[k] : number[k][x] = a
  <2> SUFFICES ASSUME NEW k \in S
               PROVE  /\ number[k] \in [1 .. f[k] -> A[k]]
                      /\ \A x, y \in 1 .. f[k] : number[k][x] = number[k][y] => x = y
                      /\ \A a \in A[k] : \E x \in 1 .. f[k] : number[k][x] = a
    OBVIOUS
  <2> DEFINE b == number[k]
  <2>1. b \in Bijection(1 .. f[k], A[k])  BY <1>2
  <2> HIDE DEF b
  <2>2. /\ b \in [1 .. f[k] -> A[k]]
        /\ \A x, y \in 1 .. f[k] : b[x] = b[y] => x = y
        /\ \A a \in A[k] : \E x \in 1 .. f[k] : b[x] = a
    BY <2>1 DEF Bijection, Injection, Surjection, IsInjective
  <2> QED  BY <2>2 DEF b
<1> HIDE DEF B
<1>4. pick \in [B -> W]
  <2> SUFFICES ASSUME NEW x \in B PROVE number[x[1]][x[2]] \in W  OBVIOUS
  <2>1. PICK k \in S : \E u \in 1 .. f[k] : x = <<k, u>>  BY <1>1
  <2>1a. PICK u \in 1 .. f[k] : x = <<k, u>>  BY <2>1
  <2>2. number[k][u] \in A[k]  BY <1>3
  <2> QED  BY <2>1a, <2>2
<1>5. \A x, y \in B : pick[x] = pick[y] => x = y
  <2> SUFFICES ASSUME NEW x \in B, NEW y \in B, pick[x] = pick[y] PROVE x = y
    OBVIOUS
  <2>1. PICK k \in S : \E u \in 1 .. f[k] : x = <<k, u>>  BY <1>1
  <2>1a. PICK u \in 1 .. f[k] : x = <<k, u>>  BY <2>1
  <2>2. PICK l \in S : \E v \in 1 .. f[l] : y = <<l, v>>  BY <1>1
  <2>2a. PICK v \in 1 .. f[l] : y = <<l, v>>  BY <2>2
  <2>3. number[k][u] = number[l][v]  BY <2>1a, <2>2a
  <2>4. number[k][u] \in A[k] /\ number[l][v] \in A[l]  BY <1>3
  <2>5. k = l  BY <2>3, <2>4
  <2>6. u = v  BY <1>3, <2>3, <2>5
  <2> QED  BY <2>1a, <2>2a, <2>5, <2>6
<1>6. \A a \in W : \E x \in B : pick[x] = a
  <2> SUFFICES ASSUME NEW a \in W PROVE \E x \in B : pick[x] = a  OBVIOUS
  <2>1. PICK k \in S : a \in A[k]  OBVIOUS
  <2>2. PICK u \in 1 .. f[k] : number[k][u] = a  BY <1>3, <2>1
  <2>3. <<k, u>> \in B  BY <1>1
  <2>4. pick[<<k, u>>] = a  BY <2>2, <2>3
  <2> QED  BY <2>3, <2>4
<1> HIDE DEF pick
<1>7. IsFiniteSet(W) /\ Cardinality(W) = Cardinality(B)
  BY ONLY <1>1, <1>4, <1>5, <1>6, SameSize
<1> QED  BY <1>1, <1>7

(* A sum with no larger terms is no larger. *)
LEMMA SmallerTerms ==
  ASSUME NEW S, IsFiniteSet(S), NEW f \in [S -> Nat], NEW g \in [S -> Nat],
         \A k \in S : g[k] <= f[k]
  PROVE  Total(g) <= Total(f)
<1> DEFINE A == Units(f)
           B == Units(g)
           same == [x \in B |-> x]
<1>1. /\ \A x : x \in A <=> (\E k \in S : \E u \in 1 .. f[k] : x = <<k, u>>)
      /\ IsFiniteSet(A) /\ Total(f) = Cardinality(A)
  BY UnitsFacts
<1>2. /\ \A x : x \in B <=> (\E k \in S : \E u \in 1 .. g[k] : x = <<k, u>>)
      /\ Total(g) = Cardinality(B)
  BY UnitsFacts
<1> HIDE DEF A, B
<1>3. B \subseteq A
  <2> SUFFICES ASSUME NEW x \in B PROVE x \in A  OBVIOUS
  <2>1. PICK k \in S : \E u \in 1 .. g[k] : x = <<k, u>>  BY <1>2
  <2>2. PICK u \in 1 .. g[k] : x = <<k, u>>  BY <2>1
  <2>3. u \in 1 .. f[k]  OBVIOUS
  <2> QED BY <1>1, <2>2, <2>3
<1>4. same \in [B -> A] /\ \A x, y \in B : same[x] = same[y] => x = y
  BY <1>3
<1> HIDE DEF same
<1>5. Cardinality(B) <= Cardinality(A)
  BY <1>1, <1>4, NoLarger
<1> QED BY <1>1, <1>2, <1>5

(* So is one in which a term pays for the growth of two others. *)
LEMMA OneTermPays ==
  ASSUME NEW S, IsFiniteSet(S), NEW f \in [S -> Nat], NEW g \in [S -> Nat],
         NEW a \in S, NEW b \in S, NEW c \in S, a # b, a # c, b # c,
         g[a] + g[b] + g[c] <= f[a],
         \A k \in S \ {a, b, c} : g[k] <= f[k]
  PROVE  Total(g) <= Total(f)
<1> DEFINE A == Units(f)
           B == Units(g)
           ga == g[a]
           gb == g[b]
           move == [x \in B |-> IF x[1] = b THEN <<a, ga + x[2]>>
                                ELSE IF x[1] = c THEN <<a, ga + gb + x[2]>> ELSE x]
<1>1. /\ \A x : x \in A <=> (\E k \in S : \E u \in 1 .. f[k] : x = <<k, u>>)
      /\ IsFiniteSet(A) /\ Total(f) = Cardinality(A)
  BY UnitsFacts
<1>2. /\ \A x : x \in B <=> (\E k \in S : \E u \in 1 .. g[k] : x = <<k, u>>)
      /\ Total(g) = Cardinality(B)
  BY UnitsFacts
<1> HIDE DEF A, B
<1>3. \A x \in B : x[1] \in S /\ x[2] \in 1 .. g[x[1]] /\ x = <<x[1], x[2]>>
  <2> SUFFICES ASSUME NEW x \in B
               PROVE  x[1] \in S /\ x[2] \in 1 .. g[x[1]] /\ x = <<x[1], x[2]>>
    OBVIOUS
  <2>1. PICK k \in S : \E u \in 1 .. g[k] : x = <<k, u>>  BY <1>2
  <2>2. PICK u \in 1 .. g[k] : x = <<k, u>>  BY <2>1
  <2> QED BY <2>2
<1>4. ga \in Nat /\ gb \in Nat /\ g[c] \in Nat /\ f[a] \in Nat /\ ga + gb + g[c] <= f[a]
  OBVIOUS
<1>5. \A k \in S : \A u \in 1 .. f[k] : <<k, u>> \in A
  BY <1>1
<1>6. move \in [B -> A]
  <2> SUFFICES ASSUME NEW x \in B PROVE move[x] \in A  OBVIOUS
  <2> DEFINE k == x[1]
             u == x[2]
  <2>1. k \in S /\ u \in 1 .. g[k] /\ x = <<k, u>>  BY <1>3
  <2> HIDE DEF k, u, ga, gb
  <2>2. CASE k = b
    <3>1. ga + u \in 1 .. f[a]  BY <2>1, <2>2, <1>4 DEF gb
    <3> QED BY <2>2, <3>1, <1>5 DEF k, u
  <2>3. CASE k = c
    <3>1. ga + gb + u \in 1 .. f[a]  BY <2>1, <2>3, <1>4
    <3> QED BY <2>3, <3>1, <1>5 DEF k, u
  <2>4. CASE k = a
    <3>1. u \in 1 .. f[a]  BY <2>1, <2>4, <1>4 DEF ga
    <3>2. x \in A  BY <2>1, <2>4, <3>1, <1>5
    <3> QED BY <2>4, <3>2 DEF k
  <2>5. CASE k \notin {a, b, c}
    <3>1. u \in 1 .. f[k]  BY <2>1, <2>5
    <3>2. x \in A  BY <2>1, <3>1, <1>5
    <3> QED BY <2>5, <3>2 DEF k
  <2> QED BY <2>2, <2>3, <2>4, <2>5
<1>7. \A x, y \in B : move[x] = move[y] => x = y
  <2> SUFFICES ASSUME NEW x \in B, NEW y \in B, move[x] = move[y] PROVE x = y
    OBVIOUS
  <2> DEFINE k == x[1]
             u == x[2]
             l == y[1]
             v == y[2]
             to(n, w) == IF n = b THEN <<a, ga + w>>
                         ELSE IF n = c THEN <<a, ga + gb + w>> ELSE <<n, w>>
  <2>1. k \in S /\ u \in 1 .. g[k] /\ x = <<k, u>>  BY <1>3
  <2>2. l \in S /\ v \in 1 .. g[l] /\ y = <<l, v>>  BY <1>3
  <2>3. to(k, u) = to(l, v)  BY <2>1, <2>2
  <2> HIDE DEF k, u, l, v, ga, gb, move
  <2>4. /\ (k = a => u <= ga) /\ (k = b => u <= gb)
        /\ (l = a => v <= ga) /\ (l = b => v <= gb)
    BY <2>1, <2>2 DEF ga, gb
  <2>5. u \in Nat \ {0} /\ v \in Nat \ {0}  BY <2>1, <2>2
  <2>6. k = l /\ u = v
    <3>1. CASE k = b
      BY <2>3, <2>4, <2>5, <1>4, <3>1
    <3>2. CASE k = c
      BY <2>3, <2>4, <2>5, <1>4, <3>2
    <3>3. CASE k \notin {b, c}
      BY <2>3, <2>4, <2>5, <1>4, <3>3
    <3> QED BY <3>1, <3>2, <3>3
  <2> QED BY <2>1, <2>2, <2>6
<1> HIDE DEF move
<1>8. Cardinality(B) <= Cardinality(A)
  BY <1>1, <1>6, <1>7, NoLarger
<1> QED BY <1>1, <1>2, <1>8

-----------------------------------------------------------------------------
(* Joining and cutting lists *)

(* Lists with the same elements are the same list. *)
LEMMA SameSeq ==
  ASSUME NEW s, IsSeq(s), NEW t, IsSeq(t), Len(s) = Len(t),
         \A n \in 1 .. Len(s) : s[n] = t[n]
  PROVE  s = t
<1>1. /\ DOMAIN s = 1 .. Len(s) /\ DOMAIN t = 1 .. Len(s)
      /\ s = [n \in DOMAIN s |-> s[n]] /\ t = [n \in DOMAIN t |-> t[n]]
  <2>1. PICK S : s \in Seq(S)  BY DEF IsSeq
  <2>2. PICK T : t \in Seq(T)  BY DEF IsSeq
  <2> QED  BY <2>1, <2>2, LenProperties, SeqFacts
<1> QED  BY <1>1

LEMMA JoinedElements ==
  ASSUME NEW s, IsSeq(s), NEW t, IsSeq(t)
  PROVE  /\ IsSeq(s \o t) /\ Len(s \o t) = Len(s) + Len(t)
         /\ \A k \in 1 .. Len(s) : (s \o t)[k] = s[k]
         /\ \A k \in 1 .. Len(t) : (s \o t)[Len(s) + k] = t[k]
<1>1. PICK S : s \in Seq(S)  BY DEF IsSeq
<1>2. PICK T : t \in Seq(T)  BY DEF IsSeq
<1> DEFINE W == S \union T
           M == Len(s)
           N == Len(t)
           u == s \o t
<1>3. s \in Seq(W) /\ t \in Seq(W) /\ M \in Nat /\ N \in Nat
  BY <1>1, <1>2, SeqMonotonic, LenProperties
<1>4. /\ u \in Seq(W) /\ Len(u) = M + N
      /\ \A k \in 1 .. M + N : u[k] = IF k <= M THEN s[k] ELSE t[k - M]
  BY <1>3, ConcatProperties
<1> HIDE DEF M, N, u
<1>5. \A k \in 1 .. M : u[k] = s[k]
  <2> SUFFICES ASSUME NEW k \in 1 .. M PROVE u[k] = s[k]  OBVIOUS
  <2>1. k \in 1 .. M + N /\ k <= M  BY <1>3
  <2> QED  BY <1>4, <2>1
<1>6. \A k \in 1 .. N : u[M + k] = t[k]
  <2> SUFFICES ASSUME NEW k \in 1 .. N PROVE u[M + k] = t[k]  OBVIOUS
  <2>1. M + k \in 1 .. M + N /\ ~ (M + k <= M) /\ (M + k) - M = k  BY <1>3
  <2>2. u[M + k] = t[(M + k) - M]  BY <1>4, <2>1
  <2> QED  BY <2>1, <2>2
<1>7. IsSeq(u)  BY <1>4 DEF IsSeq
<1> QED  BY <1>4, <1>5, <1>6, <1>7 DEF M, N, u

(* Two lists, one after the other, in one piece as Longer is. *)
Joined(s, t) == s \o t

LEMMA JoinedFacts ==
  ASSUME NEW s, IsSeq(s), NEW t, IsSeq(t)
  PROVE  /\ IsSeq(Joined(s, t)) /\ Len(Joined(s, t)) = Len(s) + Len(t)
         /\ \A k \in 1 .. Len(s) : Joined(s, t)[k] = s[k]
         /\ \A k \in 1 .. Len(t) : Joined(s, t)[Len(s) + k] = t[k]
BY JoinedElements DEF Joined

(* Cutting a list to its first elements. *)
LEMMA CutFacts ==
  ASSUME NEW s, IsSeq(s), NEW m \in 0 .. Len(s)
  PROVE  /\ IsSeq(SubSeq(s, 1, m)) /\ Len(SubSeq(s, 1, m)) = m
         /\ \A n \in 1 .. m : SubSeq(s, 1, m)[n] = s[n]
<1>1. PICK S : s \in Seq(S)  BY DEF IsSeq
<1>2. Len(s) \in Nat /\ m \in Nat  BY <1>1, LenProperties
<1>3. CASE m = 0
  <2>1. SubSeq(s, 1, m) = <<>>  BY <1>1, <1>3, SubSeqEmpty
  <2> QED  BY <1>3, <2>1, EmptySeq DEF IsSeq
<1>4. CASE m > 0
  <2>1. 1 \in 1 .. Len(s) + 1 /\ m \in 1 - 1 .. Len(s)  BY <1>2, <1>4
  <2>2. /\ SubSeq(s, 1, m) \in Seq(S)
        /\ Len(SubSeq(s, 1, m)) = IF 1 <= m THEN m - 1 + 1 ELSE 0
        /\ \A n \in 1 .. m - 1 + 1 : SubSeq(s, 1, m)[n] = s[1 + n - 1]
    BY <1>1, <1>2, <1>4, <2>1, SubSeqProperties
  <2>3. \A n \in 1 .. m : SubSeq(s, 1, m)[n] = s[n]
    <3> SUFFICES ASSUME NEW n \in 1 .. m PROVE SubSeq(s, 1, m)[n] = s[n]  OBVIOUS
    <3>1. n \in 1 .. m - 1 + 1 /\ 1 + n - 1 = n  BY <1>2
    <3> QED  BY <2>2, <3>1
  <2> QED  BY <1>2, <1>4, <2>2, <2>3 DEF IsSeq
<1> QED  BY <1>2, <1>3, <1>4

-----------------------------------------------------------------------------
(* Counting the elements of a list that are among some values. *)
Count(list, V) == Cardinality({k \in DOMAIN list : list[k] \in V})

LEMMA CountFinite ==
  ASSUME NEW s, IsSeq(s), NEW V
  PROVE  /\ IsFiniteSet({k \in DOMAIN s : s[k] \in V})
         /\ Count(s, V) \in Nat /\ Count(s, V) <= Len(s)
<1> DEFINE E == {k \in DOMAIN s : s[k] \in V}
<1>1. /\ DOMAIN s = 1 .. Len(s) /\ Len(s) \in Nat /\ IsFiniteSet(DOMAIN s)
      /\ Cardinality(DOMAIN s) = Len(s)
  BY SeqFacts, UpToFacts
<1>2. E \subseteq DOMAIN s  OBVIOUS
<1>3. Count(s, V) = Cardinality(E)  BY DEF Count
<1> HIDE DEF E
<1>4. IsFiniteSet(E) /\ Cardinality(E) <= Cardinality(DOMAIN s) /\ Cardinality(E) \in Nat
  BY <1>1, <1>2, FS_Subset, FS_CardinalityType
<1> QED  BY <1>1, <1>3, <1>4 DEF E

(* A ranking keeps the counts of what stands at its positions. *)
LEMMA CountRanked ==
  ASSUME NEW s, NEW D \in SUBSET Int, IsFiniteSet(D), NEW key \in [D -> Int], NEW V
  PROVE  Count(At(s, Ranking(D, key)), V) = Cardinality({k \in D : s[k] \in V})
<1> DEFINE N == Cardinality(D)
           W == 1 .. N
           r == Ranking(D, key)
           t == At(s, r)
           E == {n \in W : t[n] \in V}
           F == {k \in D : s[k] \in V}
           f == [n \in E |-> r[n]]
<1>1. /\ N \in Nat /\ r \in [W -> D] /\ \A k \in D : \E n \in W : r[n] = k
      /\ \A m, n \in W : m < n => Before(key, r[m], r[n])
  BY RankingFacts
<1>2. \A m, n \in W : r[m] = r[n] => m = n
  <2> SUFFICES ASSUME NEW m \in W, NEW n \in W, r[m] = r[n], m < n PROVE FALSE
    BY <1>1
  <2>1. Before(key, r[m], r[n]) /\ r[m] \in D  BY <1>1
  <2> QED  BY <2>1, BeforeIsOrder
<1>3. IsFiniteSet(W)  BY <1>1, UpToFacts
<1> HIDE DEF r, W
<1>4. DOMAIN t = W /\ \A n \in W : t[n] = s[r[n]]  BY <1>1 DEF At
<1> HIDE DEF t
<1>5. IsFiniteSet(E)
  <2>1. E \subseteq W  OBVIOUS
  <2> HIDE DEF E
  <2> QED  BY <1>3, <2>1, FS_Subset
<1>6. f \in [E -> F] /\ \A m, n \in E : f[m] = f[n] => m = n  BY <1>1, <1>2, <1>4
<1>7. \A k \in F : \E n \in E : f[n] = k  BY <1>1, <1>4
<1>8. Count(t, V) = Cardinality(E)  BY <1>4 DEF Count
<1> HIDE DEF E, F, f
<1>9. Cardinality(F) = Cardinality(E)  BY ONLY <1>5, <1>6, <1>7, SameSize
<1> QED  BY <1>8, <1>9 DEF t, r, F

(* Picking loses nothing of what it picks, and keeps nothing else. *)
LEMMA CountPicked ==
  ASSUME NEW s, IsSeq(s), NEW D \in SUBSET DOMAIN s, NEW key \in [D -> Int], NEW V
  PROVE  /\ IsSeq(At(s, Ranking(D, key)))
         /\ (\A k \in DOMAIN s : s[k] \in V => k \in D) =>
              Count(At(s, Ranking(D, key)), V) = Count(s, V)
         /\ (\A k \in D : s[k] \notin V) => Count(At(s, Ranking(D, key)), V) = 0
         /\ Count(At(s, Ranking(D, key)), V) <= Count(s, V)
<1>1. DOMAIN s \in SUBSET Int /\ IsFiniteSet(DOMAIN s)  BY SeqFacts, UpToFacts
<1>2. D \in SUBSET Int /\ IsFiniteSet(D)  BY <1>1, FS_Subset
<1>3. IsSeq(At(s, Ranking(D, key)))  BY <1>2, RankedSeq
<1>4. Count(At(s, Ranking(D, key)), V) = Cardinality({k \in D : s[k] \in V})
  BY <1>2, CountRanked
<1>5. ASSUME \A k \in DOMAIN s : s[k] \in V => k \in D
      PROVE  {k \in D : s[k] \in V} = {k \in DOMAIN s : s[k] \in V}
  BY <1>5
<1>6. ASSUME \A k \in D : s[k] \notin V
      PROVE  {k \in D : s[k] \in V} = {}
  BY <1>6
<1>7. Cardinality({}) = 0  BY FS_EmptySet
<1>8. Cardinality({k \in D : s[k] \in V}) <= Cardinality({k \in DOMAIN s : s[k] \in V})
  <2> DEFINE A == {k \in D : s[k] \in V}
             B == {k \in DOMAIN s : s[k] \in V}
  <2>1. IsFiniteSet(B) /\ A \subseteq B  BY CountFinite
  <2> HIDE DEF A, B
  <2>2. Cardinality(A) <= Cardinality(B)  BY <2>1, FS_Subset
  <2> QED  BY <2>2 DEF A, B
<1> QED  BY <1>3, <1>4, <1>5, <1>6, <1>7, <1>8 DEF Count

(* Counts of joined lists add up. *)
LEMMA CountJoined ==
  ASSUME NEW s, IsSeq(s), NEW t, IsSeq(t), NEW V
  PROVE  IsSeq(s \o t) /\ Count(s \o t, V) = Count(s, V) + Count(t, V)
<1> DEFINE M == Len(s)
           u == s \o t
           A == {k \in DOMAIN s : s[k] \in V}
           B == {k \in DOMAIN t : t[k] \in V}
           C == {k \in DOMAIN u : u[k] \in V}
           R == C \ A
           f == [k \in B |-> M + k]
<1>1. /\ IsSeq(u) /\ Len(u) = Len(s) + Len(t)
      /\ \A k \in 1 .. Len(s) : u[k] = s[k]
      /\ \A k \in 1 .. Len(t) : u[M + k] = t[k]
  BY JoinedElements
<1> HIDE DEF u
<1>2. /\ DOMAIN s = 1 .. M /\ M \in Nat /\ DOMAIN t = 1 .. Len(t) /\ Len(t) \in Nat
      /\ DOMAIN u = 1 .. M + Len(t)
  BY <1>1, SeqFacts
<1> HIDE DEF M
<1>3. \A k \in A : k \in C  BY <1>1, <1>2 DEF M
<1>4. \A k \in B : M + k \in C /\ M + k \notin A  BY <1>1, <1>2
<1>5. \A k \in R : k - M \in B /\ M + (k - M) = k
  <2> SUFFICES ASSUME NEW k \in R PROVE k - M \in B /\ M + (k - M) = k  OBVIOUS
  <2>1. k \in 1 .. M + Len(t) /\ u[k] \in V  BY <1>2
  <2>2. k \notin 1 .. M  BY <1>1, <1>2, <2>1 DEF M
  <2>3. k - M \in 1 .. Len(t) /\ M + (k - M) = k  BY <1>2, <2>1, <2>2
  <2>4. u[M + (k - M)] = t[k - M]  BY <1>1, <2>3
  <2>5. t[k - M] = u[k]  BY <2>3, <2>4
  <2> QED  BY <1>2, <2>1, <2>3, <2>5
<1>6. f \in [B -> R] /\ \A j, k \in B : f[j] = f[k] => j = k
  BY <1>2, <1>4
<1>7. \A k \in R : \E j \in B : f[j] = k
  <2> SUFFICES ASSUME NEW k \in R PROVE \E j \in B : f[j] = k  OBVIOUS
  <2>1. k - M \in B /\ f[k - M] = k  BY <1>5
  <2> QED  BY <2>1
<1>8. IsFiniteSet(A) /\ IsFiniteSet(B) /\ IsFiniteSet(C)
  BY <1>1, CountFinite
<1>9. Count(s, V) = Cardinality(A) /\ Count(t, V) = Cardinality(B) /\ Count(u, V) = Cardinality(C)
  BY DEF Count
<1>10. A \cap R = {} /\ C = A \union R /\ IsFiniteSet(R)
  <2>1. R \subseteq C  OBVIOUS
  <2>2. IsFiniteSet(R)  BY <1>8, <2>1, FS_Subset
  <2> QED  BY <1>3, <2>2
<1> HIDE DEF A, B, C, R, f
<1>11. Cardinality(R) = Cardinality(B)  BY ONLY <1>6, <1>7, <1>8, SameSize
<1>12. Cardinality(C) = Cardinality(A) + Cardinality(R) - Cardinality(A \cap R)
  BY <1>8, <1>10, FS_Union
<1>13. Cardinality(A) \in Nat /\ Cardinality(R) \in Nat /\ Cardinality(A \cap R) = 0
  BY <1>8, <1>10, FS_CardinalityType, FS_EmptySet
<1>14. Count(u, V) = Count(s, V) + Count(t, V)
  BY <1>9, <1>11, <1>12, <1>13
<1> QED  BY <1>1, <1>14 DEF u

LEMMA CountZero ==
  ASSUME NEW s, IsSeq(s), NEW V
  PROVE  Count(s, V) = 0 <=> \A k \in DOMAIN s : s[k] \notin V
<1> DEFINE E == {k \in DOMAIN s : s[k] \in V}
<1>1. IsFiniteSet(E) /\ Count(s, V) = Cardinality(E)  BY CountFinite DEF Count
<1>2. E = {} <=> \A k \in DOMAIN s : s[k] \notin V  OBVIOUS
<1> HIDE DEF E
<1> QED  BY <1>1, <1>2, FS_EmptySet
=============================================================================
