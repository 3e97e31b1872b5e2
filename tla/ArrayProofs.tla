---------------------------- MODULE ArrayProofs ----------------------------
(***************************************************************************)
(* Facts about arrays that several components rely on: induction over the  *)
(* positions, what a filter keeps, and that ranks order a finite set.      *)
(* Induction is over sets, not predicates: the least element of the set of *)
(* counterexamples is contradictory.                                       *)
(***************************************************************************)
EXTENDS ArrayFilter, Integers, FunctionTheorems, FiniteSetTheorems, WellFoundedInduction, TLAPS

(* Every non-empty set of numbers has a least element.                      *)
LEMMA LeastNumber ==
    ASSUME NEW T \in SUBSET Nat, T # {}
    PROVE  \E m \in T : \A k \in T : m <= k
<1> DEFINE R == OpToRel(<, Nat)
<1>1. IsWellFoundedOn(R, Nat)
  BY NatLessThanWellFounded
<1>2. \A k, m \in Nat : k < m => <<k, m>> \in R
  BY DEF OpToRel
<1> HIDE DEF R
<1>3. PICK m \in T : \A k \in T : ~ (<<k, m>> \in R)
  BY <1>1, WFMin, Zenon
<1>4. \A k \in T : ~ (k < m)
  BY <1>2, <1>3
<1> QED BY <1>4

(* A set of positions that holds the first and with each the next holds all.*)
LEMMA Induction ==
    ASSUME NEW N \in Nat, NEW P, 0 \in P, \A n \in 0 .. N - 1 : n \in P => n + 1 \in P
    PROVE  \A n \in 0 .. N : n \in P
<1> DEFINE Bad == {n \in 0 .. N : n \notin P}
<1> SUFFICES ASSUME Bad # {} PROVE FALSE
  OBVIOUS
<1>1. PICK m \in Bad : \A k \in Bad : m <= k
  <2>1. Bad \in SUBSET Nat
    OBVIOUS
  <2> HIDE DEF Bad
  <2> QED BY <2>1, LeastNumber
<1>2. m # 0 /\ m - 1 \in 0 .. N - 1 /\ m - 1 \notin Bad
  BY <1>1
<1> QED BY <1>1, <1>2

(* A function on the first positions is an array.                           *)
LEMMA ArrayOf ==
    ASSUME NEW T, NEW n \in Nat, NEW s \in [1 .. n -> T]
    PROVE  s \in Seq(T) /\ Len(s) = n
  OBVIOUS

(* What is in an array.                                                     *)
LEMMA Elements ==
    ASSUME NEW T, NEW s \in Seq(T)
    PROVE  /\ Len(s) \in Nat /\ DOMAIN s = 1 .. Len(s) /\ s \in [1 .. Len(s) -> T]
           /\ \A k \in 1 .. Len(s) : s[k] \in T
           /\ s # <<>> => Head(s) \in T
<1>1. Len(s) \in Nat /\ DOMAIN s = 1 .. Len(s) /\ s \in [1 .. Len(s) -> T]
  OBVIOUS
<1>2. s # <<>> => Head(s) \in T
  OBVIOUS
<1> QED BY <1>1, <1>2

(* One array after the other.                                               *)
LEMMA Joined ==
    ASSUME NEW T, NEW s \in Seq(T), NEW t \in Seq(T)
    PROVE  /\ s \o t \in Seq(T) /\ Len(s \o t) = Len(s) + Len(t)
           /\ \A i \in 1 .. Len(s) : (s \o t)[i] = s[i]
           /\ \A i \in 1 .. Len(t) : (s \o t)[Len(s) + i] = t[i]
  OBVIOUS

(* slice(): an array without its first d elements.                          *)
LEMMA WithoutFirst ==
    ASSUME NEW T, NEW s \in Seq(T), NEW d \in Nat, d <= Len(s)
    PROVE  /\ SubSeq(s, d + 1, Len(s)) \in Seq(T) /\ Len(SubSeq(s, d + 1, Len(s))) = Len(s) - d
           /\ \A i \in 1 .. Len(s) - d : SubSeq(s, d + 1, Len(s))[i] = s[d + i]
  OBVIOUS

(* shift(): what is left, place by place.                                   *)
LEMMA Shifted ==
    ASSUME NEW T, NEW s \in Seq(T), s # <<>>
    PROVE  /\ Head(s) \in T /\ Tail(s) \in Seq(T) /\ Len(s) \in Nat \ {0}
           /\ Len(Tail(s)) = Len(s) - 1
           /\ \A k \in 1 .. Len(s) - 1 : Tail(s)[k] = s[k + 1]
<1>1. Head(s) \in T /\ Tail(s) \in Seq(T) /\ Len(s) \in Nat \ {0}
  OBVIOUS
<1>2. Len(Tail(s)) = Len(s) - 1 /\ \A k \in 1 .. Len(s) - 1 : Tail(s)[k] = s[k + 1]
  OBVIOUS
<1> QED BY <1>1, <1>2

(* shift(): what is left ends as before, unless nothing is.                 *)
LEMMA TailEnds ==
    ASSUME NEW T, NEW s \in Seq(T), s # <<>>
    PROVE  /\ Tail(s) \in Seq(T) /\ Len(Tail(s)) = Len(s) - 1 /\ Head(s) = s[1]
           /\ Tail(s) = <<>> => s[Len(s)] = Head(s)
           /\ Tail(s) # <<>> => Tail(s)[Len(Tail(s))] = s[Len(s)]
<1>1. Len(s) \in Nat /\ Len(s) # 0
  OBVIOUS
<1>2. Tail(s) \in Seq(T) /\ Len(Tail(s)) = Len(s) - 1 /\ Head(s) = s[1]
  OBVIOUS
<1>3. \A i \in 1 .. Len(s) - 1 : Tail(s)[i] = s[i + 1]
  OBVIOUS
<1> DEFINE n == Len(s)  t == Tail(s)
<1>4. n \in Nat /\ n # 0 /\ t \in Seq(T) /\ Len(t) = n - 1 /\ \A i \in 1 .. n - 1 : t[i] = s[i + 1]
  BY <1>1, <1>2, <1>3
<1>5. t = <<>> => n = 1
  <2>1. Len(<<>>) = 0
    OBVIOUS
  <2> HIDE DEF n, t
  <2> QED BY <2>1, <1>4
<1>6. t # <<>> => Len(t) # 0
  <2> HIDE DEF t
  <2> QED BY <1>4
<1> HIDE DEF n, t
<1>7. t # <<>> => n - 1 \in 1 .. n - 1 /\ (n - 1) + 1 = n
  BY <1>4, <1>6
<1>8. t # <<>> => t[Len(t)] = s[n]
  <2>1. t # <<>> => t[n - 1] = s[n]
    BY <1>4, <1>7
  <2> QED BY <2>1, <1>4
<1> QED BY <1>2, <1>5, <1>8 DEF n, t

-----------------------------------------------------------------------------
(* Filter *)

KeptStep(seq, S, f, n) ==
    IF n = 0 THEN <<>>
    ELSE IF seq[n] \in S THEN Append(f[n - 1], seq[n]) ELSE f[n - 1]

(* The recursion of Filter defines a function.                              *)
LEMMA FilterIsDefined ==
    ASSUME NEW seq, NEW S, NEW N \in Nat
    PROVE  \E f : f = [n \in 0 .. N |-> KeptStep(seq, S, f, n)]
<1> DEFINE P == {n \in 0 .. N : \E f : f = [m \in 0 .. n |-> KeptStep(seq, S, f, m)]}
<1>1. 0 \in P
  <2> DEFINE f == [m \in 0 .. 0 |-> <<>>]
  <2>1. f = [m \in 0 .. 0 |-> KeptStep(seq, S, f, m)]
    BY DEF KeptStep
  <2> HIDE DEF f
  <2> QED BY <2>1
<1>2. ASSUME NEW n \in 0 .. N - 1, n \in P PROVE n + 1 \in P
  <2>1. PICK f : f = [m \in 0 .. n |-> KeptStep(seq, S, f, m)]
    BY <1>2
  <2> DEFINE g == [m \in 0 .. n + 1 |-> IF m <= n THEN f[m] ELSE KeptStep(seq, S, f, n + 1)]
  <2>2. ASSUME NEW m \in 0 .. n + 1 PROVE g[m] = KeptStep(seq, S, g, m)
    <3>1. CASE m = 0
      BY <3>1, <2>1 DEF KeptStep
    <3>2. CASE m # 0 /\ m <= n
      <4>1. f[m] = KeptStep(seq, S, f, m) /\ g[m] = f[m] /\ g[m - 1] = f[m - 1]
        BY <3>2, <2>1
      <4> QED BY <4>1 DEF KeptStep
    <3>3. CASE m = n + 1
      <4>1. g[m] = KeptStep(seq, S, f, n + 1) /\ g[m - 1] = f[m - 1]
        BY <3>3
      <4> QED BY <4>1, <3>3 DEF KeptStep
    <3> QED BY <3>1, <3>2, <3>3
  <2>3. g = [m \in 0 .. n + 1 |-> KeptStep(seq, S, g, m)]
    <3>1. DOMAIN g = 0 .. n + 1 /\ g = [m \in 0 .. n + 1 |-> g[m]]
      OBVIOUS
    <3> HIDE DEF g
    <3> QED BY <2>2, <3>1
  <2> HIDE DEF g
  <2>4. n + 1 \in 0 .. N
    OBVIOUS
  <2> QED BY <2>3, <2>4
<1>3. \A n \in 0 .. N : n \in P
  <2> HIDE DEF P
  <2> QED BY <1>1, <1>2, Induction
<1>4. N \in P
  BY <1>3
<1> QED BY <1>4

(* Filter keeps the elements that pass, each of them, in their order: there *)
(* is an increasing map from the positions of the result to those of the    *)
(* elements that pass.                                                      *)
IsFilter(out, seq, S, at) ==
    /\ at \in [1 .. Len(out) -> 1 .. Len(seq)]
    /\ \A k \in 1 .. Len(out) : out[k] = seq[at[k]] /\ out[k] \in S
    /\ \A j, k \in 1 .. Len(out) : j < k => at[j] < at[k]
    /\ \A i \in 1 .. Len(seq) : seq[i] \in S => \E k \in 1 .. Len(out) : at[k] = i

LEMMA FilterFacts ==
    ASSUME NEW T, NEW seq \in Seq(T), NEW S
    PROVE  /\ Filter(seq, S) \in Seq(T)
           /\ Len(Filter(seq, S)) <= Len(seq)
           /\ \E at : IsFilter(Filter(seq, S), seq, S, at)
<1> DEFINE N == Len(seq)
           f == CHOOSE f : f = [n \in 0 .. N |-> KeptStep(seq, S, f, n)]
           Upto(n, at) ==
              /\ at \in [1 .. Len(f[n]) -> 1 .. n]
              /\ \A k \in 1 .. Len(f[n]) : f[n][k] = seq[at[k]] /\ f[n][k] \in S
              /\ \A j, k \in 1 .. Len(f[n]) : j < k => at[j] < at[k]
              /\ \A i \in 1 .. n : seq[i] \in S => \E k \in 1 .. Len(f[n]) : at[k] = i
           Good(n) == f[n] \in Seq(T) /\ Len(f[n]) <= n /\ \E at : Upto(n, at)
           P == {n \in 0 .. N : Good(n)}
<1>0. N \in Nat /\ \A i \in 1 .. N : seq[i] \in T
  OBVIOUS
<1>1. f = [n \in 0 .. N |-> KeptStep(seq, S, f, n)]
  <2>1. \E g : g = [n \in 0 .. N |-> KeptStep(seq, S, g, n)]
    BY <1>0, FilterIsDefined
  <2> QED BY <2>1
<1>2. Filter(seq, S) = f[N]
  BY DEF Filter, KeptStep
<1> HIDE DEF f
<1>3. Good(0)
  <2>1. f[0] = <<>>
    BY <1>0, <1>1 DEF KeptStep
  <2>2. Upto(0, <<>>)
    BY <2>1
  <2>3. f[0] \in Seq(T) /\ Len(f[0]) <= 0
    BY <2>1
  <2> HIDE DEF Upto
  <2> QED BY <2>2, <2>3
<1>4. ASSUME NEW n \in 0 .. N - 1, Good(n) PROVE Good(n + 1)
  <2>1. n + 1 \in 1 .. N /\ n \in Nat /\ f[n] \in Seq(T) /\ Len(f[n]) <= n
    BY <1>4, <1>0
  <2>2. PICK at : Upto(n, at)
    BY <1>4
  <2>3. f[n + 1] = IF seq[n + 1] \in S THEN Append(f[n], seq[n + 1]) ELSE f[n]
    <3>1. f[n + 1] = KeptStep(seq, S, f, n + 1)
      BY <1>1, <2>1
    <3> QED BY <3>1, <2>1 DEF KeptStep
  <2>4. CASE seq[n + 1] \notin S
    <3>1. f[n + 1] = f[n]
      BY <2>3, <2>4
    <3>2. Upto(n + 1, at)
      <4>1. at \in [1 .. Len(f[n]) -> 1 .. n + 1]
        BY <2>1, <2>2
      <4> QED BY <2>1, <2>2, <2>4, <3>1, <4>1
    <3>3. f[n + 1] \in Seq(T) /\ Len(f[n + 1]) <= n + 1
      BY <2>1, <3>1
    <3> HIDE DEF Upto
    <3> QED BY <3>2, <3>3
  <2>5. CASE seq[n + 1] \in S
    <3> DEFINE L == Len(f[n])
               up == [k \in 1 .. L + 1 |-> IF k <= L THEN at[k] ELSE n + 1]
    <3>1. /\ f[n + 1] \in Seq(T) /\ Len(f[n + 1]) = L + 1 /\ L \in Nat /\ L <= n
          /\ \A k \in 1 .. L : f[n + 1][k] = f[n][k]
          /\ f[n + 1][L + 1] = seq[n + 1]
      BY <1>0, <2>1, <2>3, <2>5
    <3> HIDE DEF L
    <3>2. up \in [1 .. L + 1 -> 1 .. n + 1]
      BY <2>1, <2>2, <3>1 DEF L
    <3>3. \A k \in 1 .. L + 1 : f[n + 1][k] = seq[up[k]] /\ f[n + 1][k] \in S
      <4>1. \A k \in 1 .. L : f[n][k] = seq[at[k]] /\ f[n][k] \in S
        BY <2>2 DEF L
      <4>2. \A k \in 1 .. L + 1 : k \in 1 .. L \/ k = L + 1
        BY <3>1
      <4>3. \A k \in 1 .. L : up[k] = at[k]
        BY <3>1
      <4>4. up[L + 1] = n + 1
        BY <3>1
      <4> QED BY <4>1, <4>2, <4>3, <4>4, <2>5, <3>1
    <3>4. \A j, k \in 1 .. L + 1 : j < k => up[j] < up[k]
      <4>1. \A j, k \in 1 .. L : j < k => at[j] < at[k]
        BY <2>2 DEF L
      <4>2. \A j \in 1 .. L : at[j] \in 1 .. n
        BY <2>2 DEF L
      <4> QED BY <4>1, <4>2, <3>1, <2>1
    <3>5. ASSUME NEW i \in 1 .. n + 1, seq[i] \in S PROVE \E k \in 1 .. L + 1 : up[k] = i
      <4>1. CASE i = n + 1
        BY <4>1, <3>1
      <4>2. CASE i # n + 1
        <5>1. i \in 1 .. n
          BY <4>2, <2>1
        <5>2. PICK k \in 1 .. L : at[k] = i
          BY <5>1, <2>2, <3>5 DEF L
        <5>3. k \in 1 .. L + 1 /\ up[k] = i
          BY <5>2, <3>1
        <5> QED BY <5>3
      <4> QED BY <4>1, <4>2
    <3> HIDE DEF up
    <3>6. Upto(n + 1, up)
      BY <3>1, <3>2, <3>3, <3>4, <3>5
    <3>7. f[n + 1] \in Seq(T) /\ Len(f[n + 1]) <= n + 1
      BY <2>1, <3>1
    <3> HIDE DEF Upto
    <3> QED BY <3>6, <3>7
  <2> QED BY <2>4, <2>5
<1>5. Good(N)
  <2> HIDE DEF Good
  <2>1. 0 \in P /\ \A n \in 0 .. N - 1 : n \in P => n + 1 \in P
    BY <1>0, <1>3, <1>4
  <2>2. \A n \in 0 .. N : n \in P
    <3> HIDE DEF P
    <3> QED BY <1>0, <2>1, Induction
  <2> QED BY <2>2, <1>0
<1>6. PICK at : Upto(N, at)
  BY <1>5
<1>7. IsFilter(f[N], seq, S, at)
  BY <1>6 DEF IsFilter
<1> QED BY <1>2, <1>5, <1>7

(* What is kept are the elements of the array that are in S, each once if   *)
(* the array holds none twice.                                              *)
LEMMA FilterSet ==
    ASSUME NEW T, NEW seq \in Seq(T), NEW S
    PROVE  /\ {Filter(seq, S)[k] : k \in 1 .. Len(Filter(seq, S))}
                = {seq[i] : i \in 1 .. Len(seq)} \intersect S
           /\ IsInjective(seq) => IsInjective(Filter(seq, S))
<1> DEFINE out == Filter(seq, S)
<1>1. out \in Seq(T)
  BY FilterFacts
<1>2. PICK at : IsFilter(out, seq, S, at)
  BY FilterFacts
<1> HIDE DEF out
<1>3. {out[k] : k \in 1 .. Len(out)} = {seq[i] : i \in 1 .. Len(seq)} \intersect S
  <2>1. ASSUME NEW k \in 1 .. Len(out)
        PROVE  at[k] \in 1 .. Len(seq) /\ out[k] = seq[at[k]] /\ out[k] \in S
    BY <1>2 DEF IsFilter
  <2>2. ASSUME NEW i \in 1 .. Len(seq), seq[i] \in S
        PROVE  \E k \in 1 .. Len(out) : out[k] = seq[i]
    <3>1. PICK k \in 1 .. Len(out) : at[k] = i
      BY <1>2, <2>2 DEF IsFilter
    <3> QED BY <2>1, <3>1
  <2> QED BY <2>1, <2>2
<1>4. ASSUME IsInjective(seq), NEW j \in 1 .. Len(out), NEW k \in 1 .. Len(out), out[j] = out[k]
      PROVE  j = k
  <2>1. at[j] \in 1 .. Len(seq) /\ at[k] \in 1 .. Len(seq) /\ seq[at[j]] = seq[at[k]]
    BY <1>2, <1>4 DEF IsFilter
  <2>2. at[j] = at[k]
    BY <2>1, <1>4 DEF IsInjective
  <2>3. ~ (j < k) /\ ~ (k < j)
    BY <1>2, <2>1, <2>2 DEF IsFilter
  <2>4. Len(out) \in Nat
    BY <1>1
  <2> QED BY <2>3, <2>4
<1>5. DOMAIN out = 1 .. Len(out)
  BY <1>1
<1>6. IsInjective(seq) => IsInjective(out)
  BY <1>4, <1>5 DEF IsInjective
<1> QED BY <1>3, <1>6 DEF out

-----------------------------------------------------------------------------
(* Ranks *)

Rank(S, R, s) == Cardinality({t \in S : <<t, s>> \in R})

StrictOrder(S, R) ==
    /\ \A s \in S : <<s, s>> \notin R
    /\ \A s, t, u \in S : <<s, t>> \in R /\ <<t, u>> \in R => <<s, u>> \in R
    /\ \A s, t \in S : s = t \/ <<s, t>> \in R \/ <<t, s>> \in R

(* In a finite set with a strict total order the number of smaller elements *)
(* grows with the order, and every number below the size is taken.          *)
LEMMA RanksOrder ==
    ASSUME NEW S, IsFiniteSet(S), NEW R, StrictOrder(S, R)
    PROVE  /\ \A s \in S : Rank(S, R, s) \in 0 .. Cardinality(S) - 1
           /\ \A s, u \in S : <<s, u>> \in R => Rank(S, R, s) < Rank(S, R, u)
           /\ \A n \in 1 .. Cardinality(S) : \E s \in S : Rank(S, R, s) = n - 1
<1> DEFINE Less(s) == {t \in S : <<t, s>> \in R}
           places == 0 .. Cardinality(S) - 1
           rank == [s \in S |-> Rank(S, R, s)]
<1>1. Cardinality(S) \in Nat
  BY FS_CardinalityType
<1>2. ASSUME NEW s \in S PROVE IsFiniteSet(Less(s)) /\ Cardinality(Less(s)) \in places
  <2>1. Less(s) \in SUBSET S /\ Less(s) # S
    BY DEF StrictOrder
  <2> HIDE DEF Less
  <2>2. IsFiniteSet(Less(s)) /\ Cardinality(Less(s)) <= Cardinality(S)
        /\ Cardinality(Less(s)) # Cardinality(S)
    BY <2>1, FS_Subset
  <2>3. Cardinality(Less(s)) \in Nat
    BY <2>2, FS_CardinalityType
  <2> QED BY <1>1, <2>2, <2>3
<1>3. ASSUME NEW s \in S, NEW u \in S, <<s, u>> \in R
      PROVE  Cardinality(Less(s)) < Cardinality(Less(u))
  <2>1. Less(s) \in SUBSET Less(u) /\ Less(s) # Less(u)
    BY <1>3 DEF StrictOrder
  <2> HIDE DEF Less
  <2>2. /\ Cardinality(Less(s)) <= Cardinality(Less(u))
        /\ Cardinality(Less(s)) # Cardinality(Less(u))
    BY <2>1, <1>2, FS_Subset
  <2>3. Cardinality(Less(s)) \in Nat /\ Cardinality(Less(u)) \in Nat
    BY <1>1, <1>2
  <2> QED BY <2>2, <2>3
<1>4. \A s \in S : Rank(S, R, s) = Cardinality(Less(s))
  BY DEF Rank
<1>5. \A s \in S : Rank(S, R, s) \in places
  BY <1>2, <1>4
<1>6. \A s, u \in S : <<s, u>> \in R => Rank(S, R, s) < Rank(S, R, u)
  BY <1>3, <1>4
<1>7. rank \in Injection(S, places)
  <2>1. rank \in [S -> places]
    BY <1>5
  <2>2. ASSUME NEW s \in S, NEW u \in S, rank[s] = rank[u] PROVE s = u
    <3>1. Rank(S, R, s) = Rank(S, R, u) /\ Rank(S, R, s) \in Int
      BY <2>2, <1>5, <1>1
    <3>2. <<s, u>> \notin R /\ <<u, s>> \notin R
      BY <1>6, <3>1
    <3> QED BY <3>2 DEF StrictOrder
  <2> HIDE DEF rank, places
  <2> QED BY <2>1, <2>2 DEF Injection, IsInjective
<1>8. IsFiniteSet(places) /\ Cardinality(places) = Cardinality(S)
  BY <1>1, FS_Interval
<1>9. rank \in Surjection(S, places)
  <2> HIDE DEF rank, places
  <2> QED BY <1>7, <1>8, FS_Injection
<1>10. \A n \in 1 .. Cardinality(S) : \E s \in S : Rank(S, R, s) = n - 1
  <2> SUFFICES ASSUME NEW n \in 1 .. Cardinality(S) PROVE \E s \in S : Rank(S, R, s) = n - 1
    OBVIOUS
  <2>1. n - 1 \in places
    BY <1>1
  <2>2. \E s \in S : rank[s] = n - 1
    <3> HIDE DEF rank, places
    <3> QED BY <2>1, <1>9 DEF Surjection
  <2> QED BY <2>2
<1> QED BY <1>5, <1>6, <1>10
(* The elements in their order: an array that holds each of them once.      *)
ByRank(S, R) == [n \in 1 .. Cardinality(S) |-> CHOOSE s \in S : Rank(S, R, s) = n - 1]

LEMMA RankedOnce ==
    ASSUME NEW S, IsFiniteSet(S), NEW R, StrictOrder(S, R)
    PROVE  /\ ByRank(S, R) \in Seq(S) /\ Len(ByRank(S, R)) = Cardinality(S)
           /\ IsInjective(ByRank(S, R))
           /\ {ByRank(S, R)[n] : n \in 1 .. Cardinality(S)} = S
           /\ \A m, n \in 1 .. Cardinality(S) : <<ByRank(S, R)[m], ByRank(S, R)[n]>> \in R => m < n
<1> DEFINE out == ByRank(S, R)
           N == Cardinality(S)
<1>1. N \in Nat
  BY FS_CardinalityType
<1>2. ASSUME NEW n \in 1 .. N PROVE out[n] \in S /\ Rank(S, R, out[n]) = n - 1
  <2>1. \E s \in S : Rank(S, R, s) = n - 1
    BY RanksOrder
  <2> QED BY <2>1 DEF ByRank
<1>3. out \in Seq(S) /\ Len(out) = N /\ DOMAIN out = 1 .. N
  <2>1. DOMAIN out = 1 .. N /\ out = [n \in 1 .. N |-> out[n]]
    BY DEF ByRank
  <2> HIDE DEF out
  <2> QED BY <1>1, <1>2, <2>1
<1> HIDE DEF out
<1>4. ASSUME NEW m \in 1 .. N, NEW n \in 1 .. N, out[m] = out[n] PROVE m = n
  <2>1. m - 1 = n - 1
    BY <1>2, <1>4
  <2> QED BY <2>1, <1>1
<1>5. ASSUME NEW s \in S PROVE \E n \in 1 .. N : out[n] = s
  <2>1. Rank(S, R, s) \in 0 .. N - 1
    BY RanksOrder
  <2>2. Rank(S, R, s) + 1 \in 1 .. N
    BY <2>1, <1>1
  <2>3. out[Rank(S, R, s) + 1] \in S /\ Rank(S, R, out[Rank(S, R, s) + 1]) = Rank(S, R, s)
    <3> DEFINE n == Rank(S, R, s) + 1
    <3>1. out[n] \in S /\ Rank(S, R, out[n]) = n - 1
      BY <1>2, <2>2
    <3> QED BY <3>1, <2>1, <1>1
  <2>4. \A u, v \in S : <<u, v>> \in R => Rank(S, R, u) < Rank(S, R, v)
    BY RanksOrder
  <2>5. out[Rank(S, R, s) + 1] = s
    <3> DEFINE u == out[Rank(S, R, s) + 1]
    <3>1. u \in S /\ Rank(S, R, u) = Rank(S, R, s) /\ Rank(S, R, s) \in Int
      BY <2>1, <2>3
    <3> HIDE DEF u
    <3>2. <<u, s>> \notin R /\ <<s, u>> \notin R
      BY <2>4, <3>1
    <3> QED BY <3>1, <3>2 DEF StrictOrder, u
  <2> QED BY <2>2, <2>5
<1>6. {out[n] : n \in 1 .. N} = S
  BY <1>2, <1>5
<1>7. ASSUME NEW m \in 1 .. N, NEW n \in 1 .. N, <<out[m], out[n]>> \in R PROVE m < n
  <2>1. Rank(S, R, out[m]) < Rank(S, R, out[n])
    BY <1>2, <1>7, RanksOrder
  <2>2. m - 1 < n - 1
    BY <1>2, <2>1
  <2> QED BY <2>2, <1>1
<1>8. IsInjective(out)
  BY <1>3, <1>4 DEF IsInjective
<1> QED BY <1>3, <1>6, <1>7, <1>8 DEF out
=============================================================================
