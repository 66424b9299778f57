------------------------- MODULE PromptTurnsProofs -------------------------
(***************************************************************************)
(* Proofs about the life of a prompt, for every value of the constants.     *)
(***************************************************************************)
EXTENDS PromptTurns, TLAPS, FiniteSetTheorems, SequenceTheorems

-----------------------------------------------------------------------------
(* The entries kept of a sequence.                                         *)

LEMMA Ranks ==
    ASSUME NEW n \in Nat, NEW kept \in SUBSET (1..n)
    PROVE  /\ Cardinality(kept) \in Nat
           /\ \A k \in 1..Cardinality(kept) :
                 \E i \in kept : Cardinality({j \in kept : j <= i}) = k
           /\ \A i \in kept : Cardinality({j \in kept : j <= i}) \in 1..Cardinality(kept)
           /\ \A i, k \in kept : i < k =>
                 Cardinality({j \in kept : j <= i}) < Cardinality({j \in kept : j <= k})
  <1> DEFINE Below(i) == {j \in kept : j <= i}
             rank == [i \in kept |-> Cardinality(Below(i))]
  <1>1. IsFiniteSet(kept) /\ Cardinality(kept) \in Nat
    <2>1. IsFiniteSet(1..n)
      BY FS_Interval
    <2> QED BY <2>1, FS_Subset, FS_CardinalityType
  <1>2. ASSUME NEW i \in kept
        PROVE  IsFiniteSet(Below(i)) /\ Cardinality(Below(i)) \in 1..Cardinality(kept)
    <2>1. /\ IsFiniteSet(Below(i)) /\ Cardinality(Below(i)) <= Cardinality(kept)
          /\ Cardinality(Below(i)) \in Nat
      BY <1>1, FS_Subset, FS_CardinalityType
    <2>2. i \in Below(i)
      OBVIOUS
    <2>3. Cardinality(Below(i)) # 0
      BY <2>1, <2>2, FS_EmptySet
    <2> QED BY <1>1, <2>1, <2>3
  <1>3. ASSUME NEW i \in kept, NEW k \in kept, i < k
        PROVE  Cardinality(Below(i)) < Cardinality(Below(k))
    <2>0. \A j \in kept : j \in Int
      OBVIOUS
    <2>1. i \in Int /\ k \in Int /\ i < k
      BY <1>3, <2>0
    <2>2. \A j \in kept : j <= i => j <= k
      BY <2>0, <2>1
    <2>3. k <= k /\ ~(k <= i)
      BY <2>1
    <2>4. Below(i) \subseteq Below(k) /\ k \in Below(k) /\ k \notin Below(i)
      BY <2>2, <2>3
    <2>5. /\ Cardinality(Below(i)) <= Cardinality(Below(k))
          /\ Cardinality(Below(i)) # Cardinality(Below(k))
      BY <1>2, <2>4, FS_Subset
    <2> QED BY <1>2, <2>5
  <1>4. rank \in Injection(kept, 1..Cardinality(kept))
    <2>1. rank \in [kept -> 1..Cardinality(kept)]
      BY <1>2
    <2>2. \A i, k \in kept : rank[i] = rank[k] => i = k
      <3> SUFFICES ASSUME NEW i \in kept, NEW k \in kept, rank[i] = rank[k] PROVE i = k
        OBVIOUS
      <3>1. i \in Int /\ k \in Int /\ rank[i] \in Int /\ rank[k] \in Int
        BY <2>1
      <3>2. ~(i < k) /\ ~(k < i)
        BY <1>3, <3>1
      <3> QED BY <3>1, <3>2
    <2> HIDE DEF rank
    <2> QED BY <2>1, <2>2 DEF Injection, IsInjective
  <1>5. IsFiniteSet(1..Cardinality(kept)) /\ Cardinality(1..Cardinality(kept)) = Cardinality(kept)
    BY <1>1, FS_Interval
  <1>6. rank \in Surjection(kept, 1..Cardinality(kept))
    BY <1>4, <1>5, FS_Injection
  <1>7. \A k \in 1..Cardinality(kept) : \E i \in kept : rank[i] = k
    BY <1>6 DEF Surjection
  <1> QED BY <1>1, <1>2, <1>3, <1>7

LEMMA EntriesData ==
    ASSUME NEW S, NEW seq \in Seq(S), NEW kept \in SUBSET DOMAIN seq
    PROVE  /\ Entries(seq, kept) \in Seq(S)
           /\ Len(Entries(seq, kept)) = Cardinality(kept)
           /\ \A k \in DOMAIN Entries(seq, kept) : \E i \in kept : Entries(seq, kept)[k] = seq[i]
           /\ \A i \in kept : \E k \in DOMAIN Entries(seq, kept) : Entries(seq, kept)[k] = seq[i]
  <1> DEFINE Rank(i) == Cardinality({j \in kept : j <= i})
             n == Cardinality(kept)
             Nth(k) == CHOOSE i \in kept : Rank(i) = k
             e == Entries(seq, kept)
  <1>1. Len(seq) \in Nat /\ DOMAIN seq = 1..Len(seq) /\ \A i \in DOMAIN seq : seq[i] \in S
    OBVIOUS
  <1>2. /\ n \in Nat /\ \A k \in 1..n : \E i \in kept : Rank(i) = k
        /\ \A i \in kept : Rank(i) \in 1..n
        /\ \A i, k \in kept : i < k => Rank(i) < Rank(k)
    BY <1>1, Ranks
  <1> HIDE DEF Rank, n
  <1>3. \A k \in 1..n : Nth(k) \in kept /\ Rank(Nth(k)) = k
    BY <1>2
  <1>4. e = [k \in 1..n |-> seq[Nth(k)]]
    BY DEF Entries, Rank, n
  <1> HIDE DEF e, Nth
  <1>5. e \in [1..n -> S]
    BY <1>1, <1>3, <1>4
  <1>6. e \in Seq(S) /\ Len(e) = n /\ DOMAIN e = 1..n
    BY <1>2, <1>5
  <1>7. \A i \in kept : e[Rank(i)] = seq[i]
    <2> SUFFICES ASSUME NEW i \in kept PROVE e[Rank(i)] = seq[i]
      OBVIOUS
    <2> DEFINE k == Nth(Rank(i))
    <2>1. k \in kept /\ Rank(k) = Rank(i)
      BY <1>2, <1>3
    <2> HIDE DEF k
    <2>2. i \in Int /\ k \in Int /\ Rank(i) \in Int
      BY <1>1, <1>2, <2>1
    <2>3. ~(i < k) /\ ~(k < i)
      BY <1>2, <2>1, <2>2
    <2>4. k = i
      BY <2>2, <2>3
    <2> QED BY <1>2, <1>4, <2>4 DEF k
  <1>8. \A k \in DOMAIN e : e[k] = seq[Nth(k)] /\ Nth(k) \in kept
    BY <1>3, <1>4, <1>6
  <1> QED BY <1>2, <1>6, <1>7, <1>8 DEF e, n

(* The places kept, in increasing order; and any such list gives the entries. *)
Lists(g, m, kept) ==
    /\ g \in [1..m -> kept]
    /\ \A i, k \in 1..m : i < k => g[i] < g[k]
    /\ \A j \in kept : \E k \in 1..m : g[k] = j

LEMMA Listed ==
    ASSUME NEW n \in Nat, NEW kept \in SUBSET (1..n)
    PROVE  Cardinality(kept) \in Nat /\ \E g : Lists(g, Cardinality(kept), kept)
  <1> DEFINE Rank(z) == Cardinality({y \in kept : y <= z})
             m == Cardinality(kept)
             g == [u \in 1..m |-> CHOOSE v \in kept : Rank(v) = u]
  <1>1. /\ m \in Nat /\ \A k \in 1..m : \E i \in kept : Rank(i) = k
        /\ \A i \in kept : Rank(i) \in 1..m
        /\ \A i, k \in kept : i < k => Rank(i) < Rank(k)
    BY Ranks
  <1> HIDE DEF Rank, m
  <1>2. \A k \in 1..m : g[k] \in kept /\ Rank(g[k]) = k
    BY <1>1
  <1>3. g \in [1..m -> kept]
    BY <1>1
  <1> HIDE DEF g
  <1>4. /\ \A i \in kept : i \in 1..n /\ Rank(i) \in 1..m
        /\ \A k \in 1..m : g[k] \in 1..n
    <2>1. \A i \in kept : i \in 1..n /\ Rank(i) \in 1..m
      BY <1>1
    <2> QED BY <1>2, <2>1
  <1>5. ASSUME NEW i \in kept, NEW k \in kept, Rank(i) <= Rank(k)
        PROVE  i <= k
    <2>1. ~(k < i)
      BY <1>1, <1>4, <1>5
    <2> QED BY <1>4, <2>1
  <1>6. ASSUME NEW i \in 1..m, NEW k \in 1..m, i < k
        PROVE  g[i] < g[k]
    <2>1. g[i] \in kept /\ g[k] \in kept /\ Rank(g[i]) = i /\ Rank(g[k]) = k
      BY <1>2
    <2>2. g[i] <= g[k]
      <3>1. Rank(g[i]) <= Rank(g[k])
        <4>1. i <= k
          BY <1>1, <1>6
        <4> QED BY <2>1, <4>1
      <3> QED BY <1>5, <2>1, <3>1
    <2>3. g[i] # g[k]
      BY <1>1, <1>6, <2>1
    <2> QED BY <1>4, <2>1, <2>2, <2>3
  <1>7. ASSUME NEW j \in kept
        PROVE  \E k \in 1..m : g[k] = j
    <2>1. Rank(j) \in 1..m /\ g[Rank(j)] \in kept /\ Rank(g[Rank(j)]) = Rank(j)
      BY <1>1, <1>2
    <2>2. g[Rank(j)] <= j /\ j <= g[Rank(j)]
      BY <1>4, <1>5, <2>1
    <2>3. g[Rank(j)] = j
      BY <1>4, <2>1, <2>2
    <2> QED BY <2>1, <2>3
  <1>8. Lists(g, m, kept)
    BY <1>3, <1>6, <1>7 DEF Lists
  <1> QED BY <1>1, <1>8 DEF m

ListsEntries(g, m, seq, kept) ==
    Cardinality(kept) = m /\ Entries(seq, kept) = [k \in 1..m |-> seq[g[k]]]

LEMMA EntriesListed ==
    ASSUME NEW n \in Nat, NEW kept \in SUBSET (1..n), NEW m \in Nat, NEW g,
           Lists(g, m, kept), NEW seq
    PROVE  ListsEntries(g, m, seq, kept)
  <1> DEFINE Below(z) == {y \in kept : y <= z}
             Rank(z) == Cardinality(Below(z))
  <1>1. /\ g \in [1..m -> kept] /\ \A i, k \in 1..m : i < k => g[i] < g[k]
        /\ \A j \in kept : \E k \in 1..m : g[k] = j
    BY DEF Lists
  <1>2. \A k \in 1..m : g[k] \in kept /\ g[k] \in 1..n
    BY <1>1
  <1>3. ASSUME NEW i \in 1..m, NEW k \in 1..m
        PROVE  (g[i] <= g[k]) = (i <= k)
    <2>1. g[i] \in Int /\ g[k] \in Int /\ i \in Int /\ k \in Int
      BY <1>1, <1>2
    <2>2. i < k => g[i] < g[k]
      BY <1>1
    <2>3. k < i => g[k] < g[i]
      BY <1>1
    <2>4. i = k => g[i] = g[k]
      OBVIOUS
    <2> QED BY <2>1, <2>2, <2>3, <2>4
  <1>4. ASSUME NEW k \in 0..m, NEW B, B = {j \in kept : \E i \in 1..k : g[i] = j}
        PROVE  Cardinality(B) = k
    <2> DEFINE h == [i \in 1..k |-> g[i]]
    <2>1. 1..k \subseteq 1..m /\ k \in Nat
      OBVIOUS
    <2>2. h \in [1..k -> B]
      BY <1>1, <1>4, <2>1
    <2>3. \A i, j \in 1..k : h[i] = h[j] => i = j
      <3> SUFFICES ASSUME NEW i \in 1..k, NEW j \in 1..k, g[i] = g[j] PROVE i = j
        OBVIOUS
      <3>1. i \in 1..m /\ j \in 1..m /\ g[i] \in Int /\ g[j] \in Int
        BY <1>1, <1>2, <2>1
      <3>2. i <= j /\ j <= i
        BY <1>3, <3>1
      <3> QED BY <3>2
    <2>4. \A j \in B : \E i \in 1..k : h[i] = j
      BY <1>4
    <2> HIDE DEF h
    <2>5. h \in Bijection(1..k, B)
      BY <2>2, <2>3, <2>4 DEF Bijection, Injection, IsInjective, Surjection
    <2>6. ExistsBijection(1..k, B)
      BY <2>5 DEF ExistsBijection
    <2>7. IsFiniteSet(1..k) /\ Cardinality(1..k) = k
      BY <2>1, FS_Interval
    <2> QED BY <2>6, <2>7, FS_Bijection
  <1>5. Cardinality(kept) = m
    <2>1. kept = {j \in kept : \E i \in 1..m : g[i] = j}
      BY <1>1
    <2> QED BY <1>4, <2>1
  <1>6. ASSUME NEW k \in 1..m
        PROVE  Rank(g[k]) = k
    <2>1. Below(g[k]) = {j \in kept : \E i \in 1..k : g[i] = j}
      <3>1. ASSUME NEW j \in kept
            PROVE  j <= g[k] <=> \E x \in 1..k : g[x] = j
        <4>1. PICK i \in 1..m : g[i] = j
          BY <1>1
        <4>2. (g[i] <= g[k]) = (i <= k)
          BY <1>3
        <4>3. \A x \in 1..k : g[x] = j => x = i
          <5> SUFFICES ASSUME NEW x \in 1..k, g[x] = j PROVE x = i
            OBVIOUS
          <5>1. x \in 1..m /\ g[x] = g[i]
            BY <4>1
          <5>2. g[x] \in Int
            BY <1>1, <1>2, <5>1
          <5>3. x <= i /\ i <= x
            BY <1>3, <5>1, <5>2
          <5> QED BY <5>3
        <4>4. j <= g[k] => i \in 1..k
          <5>1. i \in Int /\ 1 <= i
            OBVIOUS
          <5> QED BY <4>1, <4>2, <5>1
        <4>5. (\E x \in 1..k : g[x] = j) => i <= k
          BY <4>3
        <4>6. j <= g[k] => \E x \in 1..k : g[x] = j
          BY <4>1, <4>4
        <4>7. i <= k => j <= g[k]
          BY <4>1, <4>2
        <4> QED BY <4>5, <4>6, <4>7
      <3> QED BY <3>1
    <2> HIDE DEF Below
    <2> QED BY <1>4, <2>1
  <1>7. ASSUME NEW k \in 1..m, NEW x \in kept, Rank(x) = k
        PROVE  x = g[k]
    <2>1. PICK i \in 1..m : g[i] = x
      BY <1>1
    <2> HIDE DEF Rank
    <2> QED BY <1>6, <1>7, <2>1
  <1> DEFINE Nth(z) == CHOOSE v \in kept : Rank(v) = z
  <1>8. \A k \in 1..m : Nth(k) = g[k]
    <2> SUFFICES ASSUME NEW k \in 1..m PROVE Nth(k) = g[k]
      OBVIOUS
    <2> HIDE DEF Rank
    <2>1. g[k] \in kept /\ Rank(g[k]) = k
      BY <1>1, <1>6
    <2>2. Nth(k) \in kept /\ Rank(Nth(k)) = k
      BY <2>1
    <2> QED BY <1>7, <2>2
  <1>9. Entries(seq, kept) = [k \in 1..m |-> seq[Nth(k)]]
    BY <1>5 DEF Entries
  <1> HIDE DEF Nth
  <1> QED BY <1>5, <1>8, <1>9 DEF ListsEntries

(* The entries kept of a longer sequence, and of the rest of a sequence. *)
LEMMA EntriesAppend ==
    ASSUME NEW S, NEW seq \in Seq(S), NEW e \in S, NEW kept \in SUBSET DOMAIN seq
    PROVE  /\ Entries(Append(seq, e), kept) = Entries(seq, kept)
           /\ Entries(Append(seq, e), kept \cup {Len(seq) + 1}) = Append(Entries(seq, kept), e)
  <1> DEFINE n == Len(seq)
             m == Cardinality(kept)
             more == Append(seq, e)
             wide == kept \cup {n + 1}
  <1>1. n \in Nat /\ DOMAIN seq = 1..n
    OBVIOUS
  <1>2. DOMAIN more = 1..(n + 1) /\ more[n + 1] = e /\ \A i \in 1..n : more[i] = seq[i]
    OBVIOUS
  <1> HIDE DEF n, more
  <1>0. kept \in SUBSET (1..n)
    BY <1>1
  <1>3. m \in Nat /\ \E h : Lists(h, m, kept)
    BY <1>0, <1>1, Listed
  <1> PICK g : Lists(g, m, kept)
    BY <1>3
  <1> HIDE DEF m
  <1>a. ListsEntries(g, m, seq, kept) /\ ListsEntries(g, m, more, kept)
    BY <1>0, <1>1, <1>3, EntriesListed
  <1>4. Entries(seq, kept) = [k \in 1..m |-> seq[g[k]]]
    BY <1>a DEF ListsEntries
  <1>5. Entries(more, kept) = [k \in 1..m |-> more[g[k]]]
    BY <1>a DEF ListsEntries
  <1>6. \A k \in 1..m : g[k] \in kept /\ g[k] \in 1..n
    BY <1>1 DEF Lists
  <1>7. Entries(more, kept) = Entries(seq, kept)
    BY <1>2, <1>4, <1>5, <1>6
  <1> DEFINE h == [k \in 1..(m + 1) |-> IF k <= m THEN g[k] ELSE n + 1]
  <1>8. Lists(h, m + 1, wide)
    <2>1. h \in [1..(m + 1) -> wide]
      BY <1>3, <1>6
    <2>2. \A i, k \in 1..(m + 1) : i < k => h[i] < h[k]
      <3> SUFFICES ASSUME NEW i \in 1..(m + 1), NEW k \in 1..(m + 1), i < k
                   PROVE  h[i] < h[k]
        OBVIOUS
      <3>1. i \in 1..m /\ h[i] = g[i] /\ g[i] \in 1..n
        BY <1>3, <1>6
      <3>2. CASE k = m + 1
        BY <1>1, <1>3, <3>1, <3>2
      <3>3. CASE k # m + 1
        <4>1. k \in 1..m
          BY <1>3, <3>3
        <4>2. h[k] = g[k] /\ g[i] < g[k]
          BY <3>1, <4>1 DEF Lists
        <4> QED BY <3>1, <4>2
      <3> QED BY <3>2, <3>3
    <2>3. \A j \in wide : \E k \in 1..(m + 1) : h[k] = j
      <3> SUFFICES ASSUME NEW j \in wide PROVE \E k \in 1..(m + 1) : h[k] = j
        OBVIOUS
      <3>1. CASE j \in kept
        <4>1. PICK k \in 1..m : g[k] = j
          BY <3>1 DEF Lists
        <4>2. k \in 1..(m + 1) /\ k <= m
          BY <1>3
        <4>3. h[k] = j
          BY <4>1, <4>2
        <4> QED BY <4>2, <4>3
      <3>2. CASE j = n + 1
        <4>1. m + 1 \in 1..(m + 1) /\ ~(m + 1 <= m)
          BY <1>3
        <4>2. h[m + 1] = n + 1
          BY <4>1
        <4> QED BY <3>2, <4>1, <4>2
      <3> QED BY <3>1, <3>2
    <2> HIDE DEF h, wide
    <2> QED BY <2>1, <2>2, <2>3 DEF Lists
  <1> HIDE DEF h
  <1>9. Entries(more, wide) = [k \in 1..(m + 1) |-> more[h[k]]]
    <2>1. wide \in SUBSET (1..(n + 1)) /\ n + 1 \in Nat /\ m + 1 \in Nat
      BY <1>1, <1>3
    <2> HIDE DEF wide
    <2>2. ListsEntries(h, m + 1, more, wide)
      BY <1>8, <2>1, EntriesListed
    <2> QED BY <2>2 DEF ListsEntries
  <1>10. Entries(more, wide) = Append(Entries(seq, kept), e)
    <2> DEFINE x == Entries(seq, kept)
               y == Entries(more, wide)
    <2>1. x \in Seq(S) /\ Len(x) = m
      BY <1>1, <1>3, EntriesData DEF m
    <2>2. /\ Append(x, e) \in Seq(S) /\ Len(Append(x, e)) = m + 1
          /\ \A k \in 1..(m + 1) : Append(x, e)[k] = IF k <= m THEN x[k] ELSE e
      <3> HIDE DEF x
      <3>1. /\ Append(x, e) \in Seq(S) /\ Len(Append(x, e)) = m + 1
            /\ \A k \in 1..m : Append(x, e)[k] = x[k]
            /\ Append(x, e)[m + 1] = e
        BY <2>1, AppendProperties
      <3> QED BY <1>3, <3>1
    <2>3. \A k \in 1..(m + 1) : more[h[k]] = IF k <= m THEN x[k] ELSE e
      <3> SUFFICES ASSUME NEW k \in 1..(m + 1)
                   PROVE  more[h[k]] = IF k <= m THEN x[k] ELSE e
        OBVIOUS
      <3>1. CASE k <= m
        <4>1. k \in 1..m
          BY <1>3, <3>1
        <4>2. h[k] = g[k] /\ g[k] \in 1..n
          BY <1>6, <3>1, <4>1 DEF h
        <4>3. x[k] = seq[g[k]]
          BY <1>4, <4>1
        <4> QED BY <1>2, <3>1, <4>2, <4>3
      <3>2. CASE ~(k <= m)
        BY <1>2, <3>2 DEF h
      <3> QED BY <3>1, <3>2
    <2>4. y \in Seq(S) /\ Len(y) = m + 1
      <3>1. more \in Seq(S)
        BY DEF more
      <3>2. wide \in SUBSET DOMAIN more /\ ListsEntries(h, m + 1, more, wide)
        <4>1. wide \in SUBSET (1..(n + 1)) /\ n + 1 \in Nat /\ m + 1 \in Nat
          BY <1>1, <1>3
        <4> HIDE DEF wide
        <4> QED BY <1>2, <1>8, <4>1, EntriesListed
      <3> HIDE DEF wide
      <3> QED BY <3>1, <3>2, EntriesData DEF ListsEntries
    <2> HIDE DEF x, y, wide
    <2>5. \A k \in 1..Len(y) : y[k] = Append(x, e)[k]
      BY <1>9, <2>2, <2>3, <2>4 DEF y
    <2>6. y = Append(x, e)
      BY <2>2, <2>4, <2>5, SeqEqual
    <2> QED BY <2>6 DEF x, y
  <1> QED BY <1>7, <1>10 DEF more, n

LEMMA EntriesTail ==
    ASSUME NEW S, NEW seq \in Seq(S), seq # <<>>, NEW kept \in SUBSET DOMAIN seq
    PROVE  LET rest == {i \in DOMAIN Tail(seq) : i + 1 \in kept}
               e == Entries(seq, kept)
           IN  /\ 1 \in kept => /\ e # <<>> /\ e[1] = seq[1]
                                /\ Entries(Tail(seq), rest) = Tail(e)
               /\ 1 \notin kept => Entries(Tail(seq), rest) = e
  <1> DEFINE n == Len(seq)
             m == Cardinality(kept)
             tail == Tail(seq)
             rest == {i \in DOMAIN tail : i + 1 \in kept}
             e == Entries(seq, kept)
  <1>1. n \in Nat /\ DOMAIN seq = 1..n /\ n >= 1
    OBVIOUS
  <1>2. /\ DOMAIN tail = 1..(n - 1) /\ \A i \in 1..(n - 1) : tail[i] = seq[i + 1]
    OBVIOUS
  <1> HIDE DEF n, tail
  <1>0. kept \in SUBSET (1..n)
    BY <1>1
  <1>3. m \in Nat /\ \E h : Lists(h, m, kept)
    BY <1>0, <1>1, Listed
  <1> PICK g : Lists(g, m, kept)
    BY <1>3
  <1>4. e = [k \in 1..m |-> seq[g[k]]]
    <2> HIDE DEF m
    <2>1. ListsEntries(g, m, seq, kept)
      BY <1>0, <1>1, <1>3, EntriesListed
    <2> QED BY <2>1 DEF ListsEntries, e
  <1>5. e \in Seq(S) /\ Len(e) = m
    BY <1>1, EntriesData
  <1> HIDE DEF m, e
  <1>6. \A k \in 1..m : g[k] \in kept /\ g[k] \in 1..n
    BY <1>1 DEF Lists
  <1>7. \A i, k \in 1..m : i < k => g[i] < g[k]
    BY DEF Lists
  <1>8. n - 1 \in Nat /\ rest \in SUBSET (1..(n - 1))
    BY <1>1, <1>2
  <1>9. CASE 1 \in kept
    <2> DEFINE h == [k \in 1..(m - 1) |-> g[k + 1] - 1]
    <2>1. PICK k1 \in 1..m : g[k1] = 1
      BY <1>9 DEF Lists
    <2>2. m >= 1 /\ m - 1 \in Nat /\ 1 \in 1..m
      BY <1>3, <2>1
    <2>3. g[1] = 1
      <3>1. ~(1 < k1)
        <4>1. 1 < k1 => g[1] < g[k1]
          BY <1>7, <2>2
        <4> QED BY <1>6, <2>1, <2>2, <4>1
      <3>2. k1 = 1
        BY <2>1, <3>1
      <3> QED BY <2>1, <3>2
    <2>4. \A k \in 1..(m - 1) : /\ k + 1 \in 1..m /\ g[k + 1] \in 2..n
                                /\ g[k + 1] \in kept /\ h[k] = g[k + 1] - 1
                                /\ h[k] \in 1..(n - 1) /\ h[k] \in rest
      <3> SUFFICES ASSUME NEW k \in 1..(m - 1)
                   PROVE  /\ k + 1 \in 1..m /\ g[k + 1] \in 2..n
                          /\ g[k + 1] \in kept /\ h[k] = g[k + 1] - 1
                          /\ h[k] \in 1..(n - 1) /\ h[k] \in rest
        OBVIOUS
      <3>1. k + 1 \in 1..m /\ 1 < k + 1
        BY <1>3, <2>2
      <3>2. g[1] < g[k + 1]
        BY <1>7, <2>2, <3>1
      <3>3. g[k + 1] \in 2..n /\ g[k + 1] \in kept
        BY <1>6, <2>3, <3>1, <3>2
      <3>4. h[k] = g[k + 1] - 1
        OBVIOUS
      <3>5. h[k] \in 1..(n - 1) /\ h[k] + 1 = g[k + 1]
        BY <1>1, <3>3, <3>4
      <3>6. h[k] \in rest
        <4> HIDE DEF h
        <4> QED BY <1>2, <3>3, <3>5
      <3> QED BY <3>1, <3>3, <3>4, <3>5, <3>6
    <2>5. Lists(h, m - 1, rest)
      <3>1. h \in [1..(m - 1) -> rest]
        BY <2>4
      <3>2. \A i, k \in 1..(m - 1) : i < k => h[i] < h[k]
        <4> SUFFICES ASSUME NEW i \in 1..(m - 1), NEW k \in 1..(m - 1), i < k
                     PROVE  h[i] < h[k]
          OBVIOUS
        <4>1. i + 1 \in 1..m /\ k + 1 \in 1..m /\ i + 1 < k + 1
          BY <2>2, <2>4
        <4>2. g[i + 1] < g[k + 1]
          BY <1>7, <4>1
        <4>3. g[i + 1] \in 2..n /\ g[k + 1] \in 2..n
          BY <2>4
        <4>4. h[i] = g[i + 1] - 1 /\ h[k] = g[k + 1] - 1
          OBVIOUS
        <4> QED BY <1>1, <4>2, <4>3, <4>4
      <3>3. \A j \in rest : \E k \in 1..(m - 1) : h[k] = j
        <4> SUFFICES ASSUME NEW j \in rest PROVE \E k \in 1..(m - 1) : h[k] = j
          OBVIOUS
        <4>1. j \in 1..(n - 1) /\ j + 1 \in kept
          BY <1>2
        <4>2. PICK k \in 1..m : g[k] = j + 1
          BY <4>1 DEF Lists
        <4>3. k # 1
          BY <1>1, <2>3, <4>1, <4>2
        <4>4. k - 1 \in 1..(m - 1) /\ (k - 1) + 1 = k
          BY <1>3, <2>2, <4>3
        <4>5. h[k - 1] = g[(k - 1) + 1] - 1
          BY <4>4
        <4>6. h[k - 1] = j
          BY <1>1, <4>1, <4>2, <4>4, <4>5
        <4> QED BY <4>4, <4>6
      <3> HIDE DEF h, rest
      <3> QED BY <3>1, <3>2, <3>3 DEF Lists
    <2> HIDE DEF h, rest
    <2>a. ListsEntries(h, m - 1, tail, rest)
      BY <1>8, <2>2, <2>5, EntriesListed
    <2>6. Entries(tail, rest) = [k \in 1..(m - 1) |-> tail[h[k]]]
      BY <2>a DEF ListsEntries
    <2>7. \A k \in 1..(m - 1) : tail[h[k]] = e[k + 1]
      <3> SUFFICES ASSUME NEW k \in 1..(m - 1) PROVE tail[h[k]] = e[k + 1]
        OBVIOUS
      <3>1. h[k] \in 1..(n - 1) /\ h[k] + 1 = g[k + 1] /\ k + 1 \in 1..m
        BY <1>1, <2>4, SMTT(20)
      <3> QED BY <1>2, <1>4, <3>1
    <2>8. e # <<>> /\ e[1] = seq[1]
      <3>1. e[1] = seq[1]
        BY <1>4, <2>2, <2>3
      <3>2. e # <<>>
        BY <1>5, <2>2
      <3> QED BY <3>1, <3>2
    <2> DEFINE y == Entries(tail, rest)
    <2>9. y \in Seq(S) /\ Len(y) = m - 1
      <3>1. tail \in Seq(S)
        BY DEF tail
      <3>2. rest \in SUBSET DOMAIN tail
        BY <1>2, <1>8
      <3> QED BY <2>a, <3>1, <3>2, EntriesData DEF ListsEntries
    <2>10. /\ Tail(e) \in Seq(S) /\ Len(Tail(e)) = m - 1
           /\ \A k \in 1..(m - 1) : Tail(e)[k] = e[k + 1]
      BY <1>5, <2>8, HeadTailProperties
    <2>11. \A k \in 1..Len(y) : y[k] = Tail(e)[k]
      BY <2>6, <2>7, <2>9, <2>10
    <2> HIDE DEF y
    <2>12. y = Tail(e)
      BY <2>9, <2>10, <2>11, SeqEqual
    <2> QED BY <1>9, <2>8, <2>12 DEF e, rest, tail, y
  <1>10. CASE 1 \notin kept
    <2> DEFINE h == [k \in 1..m |-> g[k] - 1]
    <2>1. \A k \in 1..m : /\ g[k] \in 2..n /\ g[k] \in kept /\ h[k] = g[k] - 1
                          /\ h[k] \in 1..(n - 1) /\ h[k] \in rest
      <3> SUFFICES ASSUME NEW k \in 1..m
                   PROVE  /\ g[k] \in 2..n /\ g[k] \in kept /\ h[k] = g[k] - 1
                          /\ h[k] \in 1..(n - 1) /\ h[k] \in rest
        OBVIOUS
      <3>1. g[k] \in kept /\ g[k] \in 1..n /\ g[k] # 1
        BY <1>6, <1>10
      <3>2. g[k] \in 2..n /\ h[k] = g[k] - 1
        BY <1>1, <3>1
      <3>3. h[k] \in 1..(n - 1) /\ h[k] + 1 = g[k]
        BY <1>1, <3>2
      <3>4. h[k] \in rest
        <4> HIDE DEF h
        <4> QED BY <1>2, <3>1, <3>3
      <3> QED BY <3>1, <3>2, <3>3, <3>4
    <2>2. Lists(h, m, rest)
      <3>1. h \in [1..m -> rest]
        BY <2>1
      <3>2. \A i, k \in 1..m : i < k => h[i] < h[k]
        <4> SUFFICES ASSUME NEW i \in 1..m, NEW k \in 1..m, i < k
                     PROVE  h[i] < h[k]
          OBVIOUS
        <4>1. g[i] < g[k] /\ g[i] \in 2..n /\ g[k] \in 2..n
          BY <1>7, <2>1
        <4>2. h[i] = g[i] - 1 /\ h[k] = g[k] - 1
          OBVIOUS
        <4> QED BY <1>1, <4>1, <4>2
      <3>3. \A j \in rest : \E k \in 1..m : h[k] = j
        <4> SUFFICES ASSUME NEW j \in rest PROVE \E k \in 1..m : h[k] = j
          OBVIOUS
        <4>1. j \in 1..(n - 1) /\ j + 1 \in kept
          BY <1>2
        <4>2. PICK k \in 1..m : g[k] = j + 1
          BY <4>1 DEF Lists
        <4>3. h[k] = j
          BY <1>1, <4>1, <4>2
        <4> QED BY <4>3
      <3> HIDE DEF h, rest
      <3> QED BY <3>1, <3>2, <3>3 DEF Lists
    <2> HIDE DEF h, rest
    <2>a. ListsEntries(h, m, tail, rest)
      BY <1>3, <1>8, <2>2, EntriesListed
    <2>3. Entries(tail, rest) = [k \in 1..m |-> tail[h[k]]]
      BY <2>a DEF ListsEntries
    <2>4. \A k \in 1..m : tail[h[k]] = seq[g[k]]
      <3> SUFFICES ASSUME NEW k \in 1..m PROVE tail[h[k]] = seq[g[k]]
        OBVIOUS
      <3>1. h[k] \in 1..(n - 1) /\ h[k] + 1 = g[k]
        BY <1>1, <2>1
      <3> QED BY <1>2, <3>1
    <2> QED BY <1>4, <1>10, <2>3, <2>4 DEF e, rest, tail
  <1> QED BY <1>9, <1>10

(* What a queue holds after its front, or its end, has been given a prompt. *)
LEMMA PutFront ==
    ASSUME NEW q \in Seq(PromptNo)
    PROVE  /\ <<>> \o q = q
           /\ \A p \in PromptNo : <<p>> \o q \in Seq(PromptNo)
           /\ \A p \in PromptNo : Append(q, p) \in Seq(PromptNo)
           /\ \A r \in Seq(PromptNo) : r \o q \in Seq(PromptNo)
  <1>1. \A p \in PromptNo : <<p>> \in Seq(PromptNo)
    OBVIOUS
  <1>2. \A r \in Seq(PromptNo) : r \o q \in Seq(PromptNo)
    BY ConcatProperties
  <1> QED BY <1>1, <1>2, ConcatEmptySeq

-----------------------------------------------------------------------------
(* The store: what each operator makes of a store state. *)

LEMMA Fields ==
    ASSUME NEW a \in AppType
    PROVE  /\ a.sel \in Sessions /\ a.queue \in Queues /\ a.gate \in Gates
           /\ a.live \in Marks /\ a.epoch \in Marks /\ a.conn \in Nat
           /\ a.pre \in Markers /\ a.run \in RunStates /\ a.interrupted \in Marks
           /\ a.withheld \in SUBSET Nat /\ a.done \in SUBSET Nat
           /\ a.switched \in SUBSET Nat /\ a.started \in Marks
           /\ a.probed \in SUBSET Sessions /\ a.hydrating \in SUBSET Sessions
           /\ a.refreshed \in Refreshes /\ a.stash \in Stashes /\ a.retained \in Stashes
           /\ a.steering \in Steerings /\ a.turns \in TurnTables /\ a.out \in Outputs
  BY DEF AppType

SameLatch(a, b) ==
    /\ b.live = a.live /\ b.epoch = a.epoch /\ b.conn = a.conn
    /\ b.done = a.done /\ b.switched = a.switched
SameSteers(a, b) == b.stash = a.stash /\ b.retained = a.retained /\ b.steering = a.steering
SameStop(a, b) == b.interrupted = a.interrupted /\ b.withheld = a.withheld
Apart(a, b) == b.sel = a.sel /\ SameLatch(a, b) /\ SameSteers(a, b) /\ SameStop(a, b)

WorkRun(a) == IF Frozen(a) THEN a.run ELSE "working"

LEMMA WorkData ==
    ASSUME NEW a \in AppType
    PROVE  /\ Work(a) \in AppType /\ Work(a) = [a EXCEPT !.run = WorkRun(a)]
           /\ WorkRun(a) \in RunStates
           /\ Apart(a, Work(a)) /\ Work(a).run = WorkRun(a)
           /\ Work(a).gate = a.gate /\ Work(a).pre = a.pre /\ Work(a).queue = a.queue
           /\ Work(a).turns = a.turns /\ Work(a).out = a.out
  <1>1. WorkRun(a) \in RunStates
    BY DEF AppType, WorkRun, RunStates
  <1>2. Work(a) = [a EXCEPT !.run = WorkRun(a)]
    BY DEF AppType, WorkRun, Work
  <1> QED BY <1>1, <1>2 DEF AppType, Apart, SameLatch, SameSteers, SameStop

LEMMA ReleaseGateData ==
    ASSUME NEW a \in AppType, NEW t \in Nat
    PROVE  LET b == ReleaseGate(a, t)
               s == TurnSession(a, t)
           IN  /\ b \in AppType /\ Apart(a, b)
               /\ b.pre = a.pre /\ b.run = a.run /\ b.queue = a.queue
               /\ b.turns = a.turns /\ b.out = a.out
               /\ b.gate = [a.gate EXCEPT ![s] = IF @.turn = t THEN NoGate ELSE @]
  <1> DEFINE s == TurnSession(a, t)
             g == [a.gate EXCEPT ![s] = IF @.turn = t THEN NoGate ELSE @]
  <1>1. NoGate \in GateType
    BY DEF NoGate, GateType, None
  <1>2. g \in Gates
    BY <1>1, Fields DEF Gates
  <1>3. ReleaseGate(a, t) = [a EXCEPT !.gate = g]
    BY DEF ReleaseGate
  <1> HIDE DEF g
  <1>4. LET b == [a EXCEPT !.gate = g]
        IN  /\ b \in AppType /\ Apart(a, b)
            /\ b.pre = a.pre /\ b.run = a.run /\ b.queue = a.queue
            /\ b.turns = a.turns /\ b.out = a.out /\ b.gate = g
    BY <1>2 DEF AppType, Apart, SameLatch, SameSteers, SameStop
  <1> QED BY <1>3, <1>4 DEF g

Gated(a, ss) == {s \in ss : a.gate[s].set}

RestagedRun(a, gated) ==
    IF /\ a.run = "working" /\ Live(a) = None
       /\ a.sel \in gated /\ a.pre[a.sel] # "none"
      THEN "idle" ELSE a.run

(* What a re-stage of the gates of the sessions gated leaves, at the gate g. *)
Restaged(a, b, gated, g) ==
    /\ b.turns = a.turns /\ b.out = a.out
    /\ b.run = RestagedRun(a, gated)
    /\ b.gate = [s \in Sessions |-> IF s \in gated THEN g ELSE a.gate[s]]
    /\ b.pre = [s \in Sessions |-> IF s \in gated THEN "none" ELSE a.pre[s]]
    /\ b.queue = [s \in Sessions |->
                     IF s \in gated /\ a.gate[s].turn # None
                       THEN <<a.gate[s].prompt>> \o a.queue[s] ELSE a.queue[s]]

LEMMA RestageGatesData ==
    ASSUME NEW a \in AppType, NEW ss \in SUBSET Sessions, NEW g \in GateType
    PROVE  LET b == RestageGates(a, ss, g)
           IN  b \in AppType /\ Apart(a, b) /\ Restaged(a, b, Gated(a, ss), g)
  <1> DEFINE gated == Gated(a, ss)
             Back(s) == IF s \in gated /\ a.gate[s].turn # None
                          THEN <<a.gate[s].prompt>> ELSE <<>>
             q == [s \in Sessions |-> Back(s) \o a.queue[s]]
             q2 == [s \in Sessions |->
                                IF s \in gated /\ a.gate[s].turn # None
                                  THEN <<a.gate[s].prompt>> \o a.queue[s] ELSE a.queue[s]]
             pr == [s \in Sessions |-> IF s \in gated THEN "none" ELSE a.pre[s]]
             ga == [s \in Sessions |-> IF s \in gated THEN g ELSE a.gate[s]]
             ru == RestagedRun(a, gated)
  <1>1. RestageGates(a, ss, g) = [a EXCEPT !.queue = q, !.pre = pr, !.gate = ga, !.run = ru]
    BY DEF RestageGates, RestagedRun, Gated
  <1>2. \A x \in Sessions : a.queue[x] \in Seq(PromptNo)
    BY Fields DEF Queues
  <1>3. \A x \in Sessions : a.gate[x].turn # None => a.gate[x].prompt \in PromptNo
    BY Fields DEF Gates, GateType, PromptNo
  <1>4. q = q2 /\ q \in Queues
    <2> HIDE DEF gated
    <2>1. ASSUME NEW x \in Sessions
          PROVE  Back(x) \o a.queue[x] = IF x \in gated /\ a.gate[x].turn # None
                      THEN <<a.gate[x].prompt>> \o a.queue[x] ELSE a.queue[x]
      <3>1. a.queue[x] \in Seq(PromptNo)
        BY <1>2
      <3>2. <<>> \o a.queue[x] = a.queue[x]
        BY <3>1, PutFront
      <3> QED BY <3>2
    <2>2. ASSUME NEW x \in Sessions
          PROVE  (IF x \in gated /\ a.gate[x].turn # None
                      THEN <<a.gate[x].prompt>> \o a.queue[x] ELSE a.queue[x])
                    \in Seq(PromptNo)
      <3>1. a.queue[x] \in Seq(PromptNo)
        BY <1>2
      <3>2. a.gate[x].turn # None => <<a.gate[x].prompt>> \o a.queue[x] \in Seq(PromptNo)
        BY <1>3, <3>1, PutFront
      <3> QED BY <3>1, <3>2
    <2>3. q = q2
      BY <2>1
    <2>4. q2 \in Queues
      BY <2>2 DEF Queues
    <2> QED BY <2>3, <2>4
  <1>5. pr \in Markers /\ ga \in Gates /\ ru \in RunStates
    BY Fields DEF Markers, Gates, RunStates, RestagedRun
  <1> HIDE DEF q, pr, ga, ru
  <1>6. LET b == [a EXCEPT !.queue = q, !.pre = pr, !.gate = ga, !.run = ru]
        IN  /\ b \in AppType /\ Apart(a, b)
            /\ b.turns = a.turns /\ b.out = a.out
            /\ b.queue = q /\ b.pre = pr /\ b.gate = ga /\ b.run = ru
    BY <1>4, <1>5 DEF AppType, Apart, SameLatch, SameSteers, SameStop
  <1> QED BY <1>1, <1>4, <1>6 DEF pr, ga, ru, Restaged

LEMMA StartData ==
    ASSUME NEW a \in AppType, NEW p \in PromptNo
    PROVE  LET b == Start(a, p)
               t == Len(a.turns) + 1
           IN  /\ b \in AppType /\ Apart(a, b)
               /\ b.turns = Append(a.turns, [sess |-> a.sel, prompt |-> p])
               /\ b.out = Append(a.out, Cmd("start", a.sel, t, p))
               /\ b.queue = a.queue /\ b.run = WorkRun(a)
               /\ b.gate = [a.gate EXCEPT ![a.sel] = InFlight(t, p)]
               /\ b.pre = [a.pre EXCEPT ![a.sel] = "fresh"]
  <1> DEFINE t == Len(a.turns) + 1
             tu == Append(a.turns, [sess |-> a.sel, prompt |-> p])
             ou == Append(a.out, Cmd("start", a.sel, t, p))
             ga == [a.gate EXCEPT ![a.sel] = InFlight(t, p)]
             pr == [a.pre EXCEPT ![a.sel] = "fresh"]
             ru == WorkRun(a)
  <1>1. Start(a, p) = [a EXCEPT !.run = ru, !.turns = tu, !.pre = pr, !.gate = ga, !.out = ou]
    <2>1. Work(a) = [a EXCEPT !.run = ru]
      BY WorkData
    <2>2. Start(a, p) = [Work(a) EXCEPT !.turns = tu, !.pre = pr, !.gate = ga, !.out = ou]
      BY WorkData DEF Start
    <2> HIDE DEF ru, tu, pr, ga, ou
    <2> QED BY <2>1, <2>2
  <1>2. p \in Nat /\ p # None
    BY DEF PromptNo
  <1>3. t \in Nat \ {0}
    BY Fields DEF TurnTables
  <1>4. tu \in TurnTables
    <2>1. [sess |-> a.sel, prompt |-> p] \in TurnType
      BY <1>2, Fields DEF TurnType
    <2> QED BY <2>1, Fields DEF TurnTables
  <1>5. Cmd("start", a.sel, t, p) \in CmdType
    BY <1>2, <1>3, Fields DEF Cmd, CmdType
  <1>6. ou \in Outputs
    BY <1>5, Fields DEF Outputs
  <1>7. InFlight(t, p) \in GateType
    BY <1>2, <1>3 DEF InFlight, GateType, None
  <1>8. ga \in Gates /\ pr \in Markers
    BY <1>7, Fields DEF Gates, Markers
  <1>9. ru \in RunStates
    BY WorkData
  <1> HIDE DEF ru, tu, pr, ga, ou
  <1>10. LET b == [a EXCEPT !.run = ru, !.turns = tu, !.pre = pr, !.gate = ga, !.out = ou]
         IN  /\ b \in AppType /\ Apart(a, b)
             /\ b.turns = tu /\ b.out = ou /\ b.queue = a.queue /\ b.run = ru
             /\ b.gate = ga /\ b.pre = pr
    BY <1>4, <1>6, <1>8, <1>9 DEF AppType, Apart, SameLatch, SameSteers, SameStop
  <1> QED BY <1>1, <1>10 DEF ru, tu, pr, ga, ou

(* A drain, or what a user's prompt does while the session is idle, leaves  *)
(* no new turn, or submits the prompt p of the session on screen.           *)
Submitted(a, b, p) ==
    LET t == Len(a.turns) + 1
    IN  /\ p \in PromptNo
        /\ b.turns = Append(a.turns, [sess |-> a.sel, prompt |-> p])
        /\ b.out = Append(a.out, Cmd("start", a.sel, t, p))
        /\ b.gate[a.sel] = InFlight(t, p) /\ b.pre[a.sel] = "fresh"

Elsewhere(a, b) ==
    \A x \in Sessions \ {a.sel} :
        b.gate[x] = a.gate[x] /\ b.pre[x] = a.pre[x] /\ b.queue[x] = a.queue[x]

Unsubmitted(a, b) == b.turns = a.turns /\ b.out = a.out

(* The head of the queue on screen is submitted. *)
HeadSent(a, b) ==
    /\ a.queue[a.sel] # <<>> /\ Apart(a, b) /\ Elsewhere(a, b)
    /\ b.queue[a.sel] = Tail(a.queue[a.sel])
    /\ Submitted(a, b, Head(a.queue[a.sel]))

LEMMA SubmitHeadData ==
    ASSUME NEW a \in AppType
    PROVE  LET b == SubmitHead(a)
           IN  /\ b \in AppType /\ Apart(a, b) /\ Elsewhere(a, b)
               /\ \/ b = a /\ a.queue[a.sel] = <<>>
                  \/ /\ \E p \in PromptNo : Submitted(a, b, p)
                     /\ HeadSent(a, b) /\ b.run = WorkRun(a)
  <1>1. CASE a.queue[a.sel] = <<>>
    BY <1>1 DEF SubmitHead, Apart, Elsewhere, SameLatch, SameSteers, SameStop
  <1>2. CASE a.queue[a.sel] # <<>>
    <2> DEFINE p == Head(a.queue[a.sel])
               qu == [a.queue EXCEPT ![a.sel] = Tail(@)]
               c == [a EXCEPT !.queue = qu]
    <2>1. a.sel \in Sessions /\ a.queue[a.sel] \in Seq(PromptNo)
      BY Fields DEF Queues
    <2>2. p \in PromptNo /\ Tail(a.queue[a.sel]) \in Seq(PromptNo)
      BY <1>2, <2>1
    <2>3. qu \in Queues
      BY <2>2, Fields DEF Queues
    <2>4. SubmitHead(a) = Start(c, p)
      BY <1>2 DEF SubmitHead
    <2> HIDE DEF qu
    <2>5. /\ c \in AppType /\ Apart(a, c) /\ c.turns = a.turns /\ c.out = a.out
          /\ c.gate = a.gate /\ c.pre = a.pre /\ c.run = a.run /\ c.queue = qu
      BY <2>3 DEF AppType, Apart, SameLatch, SameSteers, SameStop
    <2> HIDE DEF c, p
    <2> DEFINE b == Start(c, p)
    <2>6. LET t == Len(c.turns) + 1
           IN  /\ b \in AppType /\ Apart(c, b)
               /\ b.turns = Append(c.turns, [sess |-> c.sel, prompt |-> p])
               /\ b.out = Append(c.out, Cmd("start", c.sel, t, p))
               /\ b.queue = c.queue /\ b.run = WorkRun(c)
               /\ b.gate = [c.gate EXCEPT ![c.sel] = InFlight(t, p)]
               /\ b.pre = [c.pre EXCEPT ![c.sel] = "fresh"]
      BY <2>2, <2>5, StartData
    <2> HIDE DEF b
    <2>7. WorkRun(c) = WorkRun(a)
      BY <2>5 DEF WorkRun, Frozen, Live, Apart, SameLatch, SameStop
    <2>8. Apart(a, b)
      BY <2>5, <2>6 DEF Apart, SameLatch, SameSteers, SameStop
    <2>9. Submitted(a, b, p)
      BY <2>1, <2>2, <2>5, <2>6, Fields DEF Submitted, Apart, Gates, Markers
    <2>10. Elsewhere(a, b)
      BY <2>1, <2>5, <2>6, Fields DEF Elsewhere, Apart, Gates, Markers, qu, Queues
    <2>11. b.queue[a.sel] = Tail(a.queue[a.sel])
      BY <2>1, <2>5, <2>6, Fields DEF qu, Queues
    <2>12. HeadSent(a, b)
      BY <1>2, <2>8, <2>9, <2>10, <2>11 DEF HeadSent, p
    <2> QED BY <1>2, <2>2, <2>4, <2>6, <2>7, <2>8, <2>9, <2>10, <2>12 DEF b
  <1> QED BY <1>1, <1>2

(* An old gate gives its prompt back, and the head of the queue may be sent. *)
Refilled(a, b) ==
    \/ b = a
    \/ /\ ~DrainBlocked(a)
       /\ \E c \in AppType : /\ Apart(a, c) /\ Restaged(a, c, Gated(a, {a.sel}), NoGate)
                             /\ b = c \/ HeadSent(c, b)

(* A drain that changes something found no live reply and no fresh gate.    *)
Drained(a, b) ==
    /\ Apart(a, b) /\ Elsewhere(a, b) /\ Refilled(a, b)
    /\ DrainBlocked(a) => b = a
    /\ \/ /\ Unsubmitted(a, b) /\ b.run \in {a.run, "idle"}
          /\ a.gate[a.sel].set \/ b = a
       \/ /\ \E p \in PromptNo : Submitted(a, b, p)
          /\ ~DrainBlocked(a) /\ b.run = "working"

LEMMA DrainData ==
    ASSUME NEW a \in AppType
    PROVE  LET b == Drain(a) IN b \in AppType /\ Drained(a, b)
  <1>1. CASE DrainBlocked(a)
    BY <1>1
       DEF Drained, Drain, Refilled, Apart, Elsewhere, Unsubmitted, SameLatch, SameSteers,
           SameStop
  <1>2. CASE ~DrainBlocked(a)
    <2> DEFINE c == RestageGates(a, {a.sel}, NoGate)
               b == SubmitHead(c)
               gated == Gated(a, {a.sel})
    <2>1. Drain(a) = b
      BY <1>2 DEF Drain
    <2>2. a.sel \in Sessions /\ NoGate \in GateType
      BY Fields DEF NoGate, GateType, None
    <2>3. c \in AppType /\ Apart(a, c) /\ Restaged(a, c, gated, NoGate)
      <3>1. {a.sel} \in SUBSET Sessions
        BY <2>2
      <3> QED BY <2>2, <3>1, RestageGatesData
    <2>4. ~a.gate[a.sel].set => c = a
      <3> SUFFICES ASSUME ~a.gate[a.sel].set PROVE c = a
        OBVIOUS
      <3>1. gated = {}
        BY DEF Gated
      <3>2. RestagedRun(a, gated) = a.run
        BY <3>1 DEF RestagedRun
      <3> HIDE DEF c, gated
      <3>3. c.run = a.run /\ c.gate = a.gate /\ c.pre = a.pre /\ c.queue = a.queue
        BY <2>3, <3>1, <3>2, Fields DEF Gates, Markers, Queues, Restaged
      <3>4. c = RestageGates(a, {a.sel}, NoGate)
        BY DEF c
      <3>5. c = [a EXCEPT !.queue = c.queue, !.pre = c.pre, !.gate = c.gate, !.run = c.run]
        <4> DEFINE q == c.queue
                   pr == c.pre
                   ga == c.gate
                   ru == c.run
        <4>1. \E v1, v2, v3, v4 : c = [a EXCEPT !.queue = v1, !.pre = v2, !.gate = v3, !.run = v4]
          BY <3>4 DEF RestageGates
        <4> QED BY <4>1 DEF AppType
      <3>6. a = [a EXCEPT !.queue = a.queue, !.pre = a.pre, !.gate = a.gate, !.run = a.run]
        BY DEF AppType
      <3> QED BY <3>3, <3>5, <3>6
    <2>5. Elsewhere(a, c)
      BY <2>3 DEF Elsewhere, Gated, Restaged
    <2> HIDE DEF c
    <2>6. /\ b \in AppType /\ Apart(c, b) /\ Elsewhere(c, b)
          /\ \/ b = c
             \/ (\E p \in PromptNo : Submitted(c, b, p)) /\ HeadSent(c, b) /\ b.run = WorkRun(c)
      BY <2>3, SubmitHeadData
    <2> HIDE DEF b
    <2>7. Live(a) = None /\ ~Frozen(c)
      BY <1>2, <2>3 DEF DrainBlocked, Frozen, Live, Apart, SameLatch
    <2>8. Apart(a, b) /\ Elsewhere(a, b)
      <3>1. Apart(a, b)
        BY <2>3, <2>6 DEF Apart, SameLatch, SameSteers, SameStop
      <3>2. c.sel = a.sel
        BY <2>3 DEF Apart
      <3> QED BY <2>5, <2>6, <3>1, <3>2 DEF Elsewhere
    <2>11. Refilled(a, b)
      <3>1. Apart(a, c) /\ Restaged(a, c, Gated(a, {a.sel}), NoGate) /\ c \in AppType
        BY <2>3
      <3> QED BY <1>2, <2>6, <3>1 DEF Refilled
    <2>9. CASE b = c
      BY <1>2, <2>1, <2>3, <2>4, <2>6, <2>8, <2>9, <2>11
         DEF Drained, RestagedRun, Unsubmitted, Restaged
    <2>10. CASE (\E p \in PromptNo : Submitted(c, b, p)) /\ b.run = WorkRun(c)
      <3>1. b.run = "working"
        BY <2>7, <2>10 DEF WorkRun
      <3>2. \E p \in PromptNo : Submitted(a, b, p)
        BY <2>3, <2>10 DEF Submitted, Apart, Restaged
      <3> QED BY <1>2, <2>1, <2>6, <2>8, <2>11, <3>1, <3>2 DEF Drained
    <2> QED BY <2>6, <2>9, <2>10
  <1> QED BY <1>1, <1>2

-----------------------------------------------------------------------------
(* The store: what the user and the clock make of it.                      *)

(* A steer of the prompt p goes out. *)
Steered(a, b, p) ==
    /\ Live(a) # None /\ b.sel = a.sel /\ SameLatch(a, b) /\ SameStop(a, b)
    /\ b.retained = a.retained /\ b.steering = a.steering /\ a.steering # "off"
    /\ b.gate = a.gate /\ b.pre = a.pre /\ b.queue = a.queue /\ b.run = a.run
    /\ b.turns = a.turns
    /\ b.stash = Append(a.stash, [turn |-> Live(a), prompt |-> p])
    /\ b.out = Append(a.out, Cmd("steer", a.sel, Live(a), p))

(* The prompt is staged behind the session's queue. *)
Staged(a, b, p) ==
    /\ TurnInProgress(a) /\ Apart(a, b) /\ Unsubmitted(a, b)
    /\ b.gate = a.gate /\ b.pre = a.pre /\ b.run = a.run
    /\ b.queue = [a.queue EXCEPT ![a.sel] = Append(@, p)]

(* The prompt is submitted by a session that shows no turn. *)
Sends(a, b, p) ==
    /\ ~TurnInProgress(a) /\ Apart(a, b) /\ Elsewhere(a, b)
    /\ Submitted(a, b, p) /\ b.run = "working" /\ b.queue = a.queue

LEMMA SteerData ==
    ASSUME NEW a \in AppType, NEW p \in PromptNo, Live(a) # None, a.steering # "off"
    PROVE  LET b == Steer(a, p) IN b \in AppType /\ Steered(a, b, p)
  <1> DEFINE st == Append(a.stash, [turn |-> Live(a), prompt |-> p])
             ou == Append(a.out, Cmd("steer", a.sel, Live(a), p))
  <1>1. Live(a) \in Nat /\ p \in Nat /\ a.sel \in Sessions
    BY Fields DEF Live, Marks, PromptNo
  <1>2. [turn |-> Live(a), prompt |-> p] \in SteerType
    BY <1>1 DEF SteerType
  <1>3. Cmd("steer", a.sel, Live(a), p) \in CmdType
    BY <1>1 DEF Cmd, CmdType
  <1>4. st \in Stashes /\ ou \in Outputs
    BY <1>2, <1>3, Fields DEF Stashes, Outputs
  <1>5. Steer(a, p) = [a EXCEPT !.stash = st, !.out = ou]
    BY DEF Steer
  <1> HIDE DEF st, ou
  <1>6. LET b == [a EXCEPT !.stash = st, !.out = ou]
        IN  /\ b \in AppType /\ b.sel = a.sel /\ SameLatch(a, b) /\ SameStop(a, b)
            /\ b.retained = a.retained /\ b.steering = a.steering
            /\ b.gate = a.gate /\ b.pre = a.pre /\ b.queue = a.queue /\ b.run = a.run
            /\ b.turns = a.turns /\ b.stash = st /\ b.out = ou
    BY <1>4 DEF AppType, SameLatch, SameStop
  <1> QED BY <1>5, <1>6 DEF Steered, st, ou

LEMMA PromptData ==
    ASSUME NEW a \in AppType, NEW p \in PromptNo
    PROVE  LET b == Prompt(a, p)
           IN  /\ b \in AppType
               /\ Steered(a, b, p) \/ Staged(a, b, p) \/ Sends(a, b, p)
  <1>1. CASE TurnInProgress(a) /\ Steerable(a)
    <2>1. Prompt(a, p) = Steer(a, p)
      BY <1>1 DEF Prompt
    <2>2. Live(a) # None /\ a.steering # "off"
      BY <1>1 DEF Steerable
    <2> QED BY <2>1, <2>2, SteerData
  <1>2. CASE TurnInProgress(a) /\ ~Steerable(a)
    <2> DEFINE qu == [a.queue EXCEPT ![a.sel] = Append(@, p)]
    <2>1. Prompt(a, p) = [a EXCEPT !.queue = qu]
      BY <1>2 DEF Prompt
    <2>2. a.sel \in Sessions /\ a.queue[a.sel] \in Seq(PromptNo)
      BY Fields DEF Queues
    <2>3. Append(a.queue[a.sel], p) \in Seq(PromptNo)
      BY <2>2, PutFront
    <2>4. qu \in Queues
      BY <2>3, Fields DEF Queues
    <2> HIDE DEF qu
    <2>5. LET b == [a EXCEPT !.queue = qu]
          IN  /\ b \in AppType /\ Apart(a, b) /\ Unsubmitted(a, b)
              /\ b.gate = a.gate /\ b.pre = a.pre /\ b.run = a.run /\ b.queue = qu
      BY <2>4 DEF AppType, Apart, SameLatch, SameSteers, SameStop, Unsubmitted
    <2> QED BY <1>2, <2>1, <2>5 DEF Staged, qu
  <1>3. CASE ~TurnInProgress(a)
    <2> DEFINE b == Start(a, p)
    <2>1. Prompt(a, p) = b
      BY <1>3 DEF Prompt
    <2>2. /\ b \in AppType /\ Apart(a, b)
          /\ b.turns = Append(a.turns, [sess |-> a.sel, prompt |-> p])
          /\ b.out = Append(a.out, Cmd("start", a.sel, Len(a.turns) + 1, p))
          /\ b.queue = a.queue /\ b.run = WorkRun(a)
          /\ b.gate = [a.gate EXCEPT ![a.sel] = InFlight(Len(a.turns) + 1, p)]
          /\ b.pre = [a.pre EXCEPT ![a.sel] = "fresh"]
      BY StartData
    <2> HIDE DEF b
    <2>3. b.run = "working"
      BY <1>3, <2>2 DEF TurnInProgress, WorkRun, Frozen
    <2>4. Submitted(a, b, p) /\ Elsewhere(a, b)
      BY <2>2, Fields DEF Submitted, Elsewhere, Gates, Markers
    <2> QED BY <1>3, <2>1, <2>2, <2>3, <2>4 DEF Sends
  <1> QED BY <1>1, <1>2, <1>3

(* Nothing of a turn or a prompt changes. *)
Quiet(a, b) ==
    /\ Apart(a, b) /\ Unsubmitted(a, b)
    /\ b.gate = a.gate /\ b.pre = a.pre /\ b.run = a.run /\ b.queue = a.queue

(* A hydrate of the session on screen goes out. *)
Probed(a, b) ==
    /\ Apart(a, b) /\ b.turns = a.turns
    /\ b.gate = a.gate /\ b.pre = a.pre /\ b.run = a.run /\ b.queue = a.queue
    /\ b.out = Append(a.out, Cmd("hydrate", a.sel, None, None))

(* The phantom of the session on screen is cleared, before the drain. *)
Cleared(a, c) ==
    /\ Apart(a, c) /\ Unsubmitted(a, c)
    /\ c.gate = a.gate /\ c.queue = a.queue /\ c.run = "idle"
    /\ c.pre = [a.pre EXCEPT ![a.sel] = "none"]

Reset(a, b) == \E c \in AppType : Cleared(a, c) /\ Drained(c, b)

(* The live turn on screen is stopped. *)
Stopped(a, b) ==
    /\ Live(a) # None /\ b.sel = a.sel /\ SameLatch(a, b) /\ SameSteers(a, b)
    /\ b.gate = a.gate /\ b.pre = a.pre /\ b.queue = a.queue /\ b.turns = a.turns
    /\ b.run = IF a.run = "working" THEN "idle" ELSE a.run
    /\ b.out = Append(a.out, Cmd("interrupt", a.sel, Live(a), None))

LEMMA ProbeData ==
    ASSUME NEW a \in AppType
    PROVE  LET b == Probe(a) IN b \in AppType /\ Probed(a, b)
  <1> DEFINE pb == a.probed \cup {a.sel}
             hy == a.hydrating \cup {a.sel}
             ou == Append(a.out, Cmd("hydrate", a.sel, None, None))
  <1>1. Cmd("hydrate", a.sel, None, None) \in CmdType
    BY Fields DEF Cmd, CmdType, None
  <1>2. ou \in Outputs /\ pb \in SUBSET Sessions /\ hy \in SUBSET Sessions
    BY <1>1, Fields DEF Outputs
  <1>3. Probe(a) = [a EXCEPT !.probed = pb, !.hydrating = hy, !.out = ou]
    BY DEF Probe
  <1> HIDE DEF pb, hy, ou
  <1>4. LET b == [a EXCEPT !.probed = pb, !.hydrating = hy, !.out = ou]
        IN  /\ b \in AppType /\ Apart(a, b) /\ b.turns = a.turns
            /\ b.gate = a.gate /\ b.pre = a.pre /\ b.run = a.run /\ b.queue = a.queue
            /\ b.out = ou
    BY <1>2 DEF AppType, Apart, SameLatch, SameSteers, SameStop
  <1> QED BY <1>3, <1>4 DEF Probed, ou

LEMMA ResetData ==
    ASSUME NEW a \in AppType
    PROVE  LET b == ResetPhantom(a) IN b \in AppType /\ Reset(a, b)
  <1> DEFINE pb == a.probed \ {a.sel}
             pr == [a.pre EXCEPT ![a.sel] = "none"]
             c == [a EXCEPT !.probed = pb, !.pre = pr, !.run = "idle"]
  <1>1. pb \in SUBSET Sessions /\ pr \in Markers
    BY Fields DEF Markers
  <1>2. ResetPhantom(a) = Drain(c)
    BY DEF ResetPhantom
  <1> HIDE DEF pb, pr
  <1>3. /\ c \in AppType /\ Apart(a, c) /\ Unsubmitted(a, c)
        /\ c.gate = a.gate /\ c.queue = a.queue /\ c.run = "idle" /\ c.pre = pr
    BY <1>1 DEF AppType, Apart, SameLatch, SameSteers, SameStop, Unsubmitted, RunStates
  <1> HIDE DEF c
  <1>4. Cleared(a, c)
    BY <1>3 DEF Cleared, pr
  <1> QED BY <1>2, <1>3, <1>4, DrainData DEF Reset

LEMMA InterruptData ==
    ASSUME NEW a \in AppType
    PROVE  LET b == Interrupt(a)
           IN  /\ b \in AppType
               /\ Stopped(a, b) \/ b = a \/ (Phantom(a) /\ (Probed(a, b) \/ Reset(a, b)))
  <1>1. CASE Live(a) # None
    <2> DEFINE it == [a.interrupted EXCEPT ![a.sel] = Live(a)]
               ru == IF a.run = "working" THEN "idle" ELSE a.run
               ou == Append(a.out, Cmd("interrupt", a.sel, Live(a), None))
    <2>1. Live(a) \in Nat
      BY Fields DEF Live, Marks
    <2>2. Cmd("interrupt", a.sel, Live(a), None) \in CmdType
      BY <2>1, Fields DEF Cmd, CmdType, None
    <2>3. ou \in Outputs /\ it \in Marks /\ ru \in RunStates
      BY <2>1, <2>2, Fields DEF Outputs, Marks, RunStates
    <2>4. Interrupt(a) = [a EXCEPT !.interrupted = it, !.run = ru, !.out = ou]
      BY <1>1 DEF Interrupt
    <2> HIDE DEF it, ru, ou
    <2>5. LET b == [a EXCEPT !.interrupted = it, !.run = ru, !.out = ou]
          IN  /\ b \in AppType /\ b.sel = a.sel /\ SameLatch(a, b) /\ SameSteers(a, b)
              /\ b.gate = a.gate /\ b.pre = a.pre /\ b.queue = a.queue
              /\ b.turns = a.turns /\ b.run = ru /\ b.out = ou
      BY <2>3 DEF AppType, SameLatch, SameSteers
    <2> QED BY <1>1, <2>4, <2>5 DEF Stopped, ru, ou
  <1>2. CASE Live(a) = None
    BY <1>2, ProbeData, ResetData DEF Interrupt
  <1> QED BY <1>1, <1>2

(* The selection moves to s, before the drain. *)
Moved(a, c, s) ==
    /\ c.sel = s /\ SameLatch(a, c) /\ SameSteers(a, c) /\ SameStop(a, c)
    /\ Unsubmitted(a, c) /\ c.gate = a.gate /\ c.queue = a.queue
    /\ c.pre = [x \in Sessions |-> IF a.pre[x] = "aged" THEN "none" ELSE a.pre[x]]
    /\ c.run = IF ~Frozen(c) /\ (Live(c) # None \/ c.pre[s] = "fresh")
                 THEN "working" ELSE "idle"

LEMMA SwitchData ==
    ASSUME NEW a \in AppType, NEW s \in Sessions
    PROVE  LET b == Switch(a, s)
           IN  b \in AppType /\ \E c \in AppType : Moved(a, c, s) /\ Drained(c, b)
  <1> DEFINE pr == [x \in Sessions |-> IF a.pre[x] = "aged" THEN "none" ELSE a.pre[x]]
             b == [a EXCEPT !.sel = s, !.pre = pr]
             ru == IF ~Frozen(b) /\ (Live(b) # None \/ b.pre[s] = "fresh")
                     THEN "working" ELSE "idle"
             c == [b EXCEPT !.run = ru]
  <1>1. pr \in Markers /\ ru \in RunStates
    BY Fields DEF Markers, RunStates
  <1>2. Switch(a, s) = Drain(c)
    BY DEF Switch
  <1> HIDE DEF pr
  <1>3. /\ b \in AppType /\ b.sel = s /\ SameLatch(a, b) /\ SameSteers(a, b)
        /\ SameStop(a, b) /\ Unsubmitted(a, b) /\ b.gate = a.gate /\ b.queue = a.queue
        /\ b.pre = pr
    BY <1>1 DEF AppType, SameLatch, SameSteers, SameStop, Unsubmitted
  <1> HIDE DEF b, ru
  <1>4. /\ c \in AppType /\ c.sel = b.sel /\ SameLatch(b, c) /\ SameSteers(b, c)
        /\ SameStop(b, c) /\ Unsubmitted(b, c) /\ c.gate = b.gate /\ c.queue = b.queue
        /\ c.pre = b.pre /\ c.run = ru
    BY <1>1, <1>3 DEF AppType, SameLatch, SameSteers, SameStop, Unsubmitted
  <1> HIDE DEF c
  <1>5. Frozen(c) = Frozen(b) /\ Live(c) = Live(b)
    BY <1>4 DEF Frozen, Live, SameLatch, SameStop
  <1>6. Moved(a, c, s)
    BY <1>3, <1>4, <1>5 DEF Moved, SameLatch, SameSteers, SameStop, Unsubmitted, pr, ru
  <1> QED BY <1>2, <1>4, <1>6, DrainData

LEMMA WatchdogData ==
    ASSUME NEW a \in AppType, NEW due
    PROVE  LET b == Watchdog(a, due)
           IN  /\ b \in AppType
               /\ Quiet(a, b) \/ (Phantom(a) /\ (Probed(a, b) \/ Reset(a, b)))
  <1>1. CASE ~Phantom(a)
    <2> DEFINE pb == a.probed \ {a.sel}
    <2>1. pb \in SUBSET Sessions
      BY Fields
    <2>2. Watchdog(a, due) = [a EXCEPT !.probed = pb]
      BY <1>1 DEF Watchdog
    <2> HIDE DEF pb
    <2>3. LET b == [a EXCEPT !.probed = pb] IN b \in AppType /\ Quiet(a, b)
      BY <2>1 DEF AppType, Quiet, Apart, SameLatch, SameSteers, SameStop, Unsubmitted
    <2> QED BY <2>2, <2>3
  <1>2. Quiet(a, a)
    BY DEF Quiet, Apart, SameLatch, SameSteers, SameStop, Unsubmitted
  <1>3. CASE Phantom(a)
    BY <1>2, <1>3, ProbeData, ResetData DEF Watchdog
  <1> QED BY <1>1, <1>3

-----------------------------------------------------------------------------
(* The store: what it makes of the events of a turn.                       *)

(* Turn t becomes the live one of its session. *)
Bound(a, b, t) ==
    LET s == TurnSession(a, t)
    IN  /\ b.sel = a.sel /\ b.conn = a.conn /\ b.done = a.done
        /\ SameSteers(a, b) /\ SameStop(a, b) /\ Unsubmitted(a, b) /\ b.queue = a.queue
        /\ b.live = [a.live EXCEPT ![s] = t]
        /\ b.epoch = [a.epoch EXCEPT ![s] = a.conn]
        /\ b.switched = IF a.live[s] \in {None, t} THEN a.switched
                        ELSE a.switched \cup {a.live[s]}
        /\ b.run = IF s # a.sel \/ a.interrupted[s] = t THEN a.run ELSE "working"

(* The live turn a new one, t, replaces is finalized. *)
Replaced(a, b, s, t) ==
    /\ b.sel = a.sel /\ b.conn = a.conn /\ b.done = a.done
    /\ SameSteers(a, b) /\ SameStop(a, b) /\ Unsubmitted(a, b)
    /\ b.queue = a.queue /\ b.gate = a.gate /\ b.pre = a.pre /\ b.run = a.run
    /\ b.epoch = a.epoch
    /\ b.live = IF a.live[s] \in {None, t} THEN a.live
                ELSE [a.live EXCEPT ![s] = None]
    /\ b.switched = IF a.live[s] \in {None, t} THEN a.switched
                    ELSE a.switched \cup {a.live[s]}

LEMMA SwitchCommitData ==
    ASSUME NEW a \in AppType, NEW s \in Sessions, NEW t \in Nat
    PROVE  LET b == SwitchCommit(a, s, t) IN b \in AppType /\ Replaced(a, b, s, t)
  <1>1. CASE a.live[s] \in {None, t}
    BY <1>1 DEF SwitchCommit, Replaced, SameSteers, SameStop, Unsubmitted
  <1>2. CASE a.live[s] \notin {None, t}
    <2> DEFINE sw == a.switched \cup {a.live[s]}
               li == [a.live EXCEPT ![s] = None]
    <2>1. sw \in SUBSET Nat /\ li \in Marks
      BY Fields DEF Marks, None
    <2>2. SwitchCommit(a, s, t) = [a EXCEPT !.switched = sw, !.live = li]
      BY <1>2 DEF SwitchCommit
    <2> HIDE DEF sw, li
    <2>3. LET b == [a EXCEPT !.switched = sw, !.live = li]
          IN  /\ b \in AppType /\ b.sel = a.sel /\ b.conn = a.conn /\ b.done = a.done
               /\ SameSteers(a, b) /\ SameStop(a, b) /\ Unsubmitted(a, b)
               /\ b.queue = a.queue /\ b.gate = a.gate /\ b.pre = a.pre /\ b.run = a.run
               /\ b.epoch = a.epoch /\ b.live = li /\ b.switched = sw
      BY <2>1 DEF AppType, SameSteers, SameStop, Unsubmitted
    <2> QED BY <1>2, <2>2, <2>3 DEF sw, li, Replaced
  <1> QED BY <1>1, <1>2

LEMMA BindData ==
    ASSUME NEW a \in AppType, NEW t \in Nat \ {None}, TurnSession(a, t) \in Sessions
    PROVE  LET b == Bind(a, t)
           IN  b \in AppType /\ Bound(a, b, t) /\ b.gate = a.gate /\ b.pre = a.pre
  <1> DEFINE s == TurnSession(a, t)
             c == SwitchCommit(a, s, t)
             li == [c.live EXCEPT ![s] = t]
             ep == [c.epoch EXCEPT ![s] = a.conn]
             d == [c EXCEPT !.live = li, !.epoch = ep]
  <1>1. s \in Sessions /\ t \in Nat
    OBVIOUS
  <1>2. Bind(a, t) = IF s = a.sel THEN Work(d) ELSE d
    BY DEF Bind
  <1> HIDE DEF s
  <1>2a. c \in AppType /\ Replaced(a, c, s, t)
    BY <1>1, SwitchCommitData
  <1> HIDE DEF c
  <1>3.  /\ c \in AppType /\ c.sel = a.sel /\ c.conn = a.conn /\ c.done = a.done
         /\ SameSteers(a, c) /\ SameStop(a, c) /\ Unsubmitted(a, c)
         /\ c.queue = a.queue /\ c.gate = a.gate /\ c.pre = a.pre /\ c.run = a.run
         /\ c.epoch = a.epoch
         /\ c.live = IF a.live[s] \in {None, t} THEN a.live
                     ELSE [a.live EXCEPT ![s] = None]
         /\ c.switched = IF a.live[s] \in {None, t} THEN a.switched
                         ELSE a.switched \cup {a.live[s]}
    BY <1>2a DEF Replaced
  <1>4. li \in Marks /\ ep \in Marks /\ li = [a.live EXCEPT ![s] = t]
    BY <1>1, <1>3, Fields DEF Marks
  <1> HIDE DEF li, ep
  <1>5. /\ d \in AppType /\ d.sel = c.sel /\ d.conn = c.conn /\ d.done = c.done
        /\ SameSteers(c, d) /\ SameStop(c, d) /\ Unsubmitted(c, d)
        /\ d.queue = c.queue /\ d.gate = c.gate /\ d.pre = c.pre /\ d.run = c.run
        /\ d.live = li /\ d.epoch = ep /\ d.switched = c.switched
    BY <1>3, <1>4 DEF AppType, SameSteers, SameStop, Unsubmitted
  <1> HIDE DEF d
  <1> DEFINE b == IF s = a.sel THEN Work(d) ELSE d
             ru == IF s # a.sel \/ a.interrupted[s] = t THEN a.run ELSE "working"
  <1>6. /\ b \in AppType /\ b.sel = a.sel /\ b.conn = a.conn /\ b.done = a.done
        /\ SameSteers(a, b) /\ SameStop(a, b) /\ Unsubmitted(a, b)
        /\ b.queue = a.queue /\ b.gate = a.gate /\ b.pre = a.pre
        /\ b.live = li /\ b.epoch = ep /\ b.switched = c.switched
        /\ b.run = IF s = a.sel THEN WorkRun(d) ELSE d.run
    BY <1>3, <1>5, WorkData DEF SameSteers, SameStop, Unsubmitted, Apart, SameLatch
  <1>7. li[s] = t
    BY <1>1, <1>4, Fields DEF Marks
  <1>8. (IF s = a.sel THEN WorkRun(d) ELSE d.run) = ru
    BY <1>3, <1>5, <1>7 DEF WorkRun, Frozen, Live, SameStop
  <1> HIDE DEF b, ru
  <1>9. Bound(a, b, t)
    BY <1>3, <1>4, <1>6, <1>8 DEF Bound, s, ep, ru
  <1> QED BY <1>2, <1>6, <1>9 DEF b

(* turn/started of t: its gate and its marker go. *)
Opened(a, b, t) ==
    /\ t \notin a.done /\ Bound(a, b, t)
    /\ b.gate = [a.gate EXCEPT ![TurnSession(a, t)] = IF @.turn = t THEN NoGate ELSE @]
    /\ b.pre = [a.pre EXCEPT ![TurnSession(a, t)] = "none"]

LEMMA StartedData ==
    ASSUME NEW a \in AppType, NEW t \in Nat \ {None}, TurnSession(a, t) \in Sessions
    PROVE  LET b == Started(a, t)
           IN  b \in AppType /\ (b = a \/ Opened(a, b, t)) /\ (t \notin a.done => Opened(a, b, t))
  <1>1. CASE t \in a.done
    BY <1>1 DEF Started
  <1>2. CASE t \notin a.done
    <2> DEFINE s == TurnSession(a, t)
               r == ReleaseGate(a, t)
               st == [r.started EXCEPT ![s] = t]
               pr == [r.pre EXCEPT ![s] = "none"]
               c == [r EXCEPT !.started = st, !.pre = pr]
               b == Bind(c, t)
    <2>1. Started(a, t) = b
      BY <1>2 DEF Started
    <2>2. /\ r \in AppType /\ Apart(a, r)
          /\ r.pre = a.pre /\ r.run = a.run /\ r.queue = a.queue
          /\ r.turns = a.turns /\ r.out = a.out
          /\ r.gate = [a.gate EXCEPT ![s] = IF @.turn = t THEN NoGate ELSE @]
      BY ReleaseGateData
    <2> HIDE DEF r
    <2>3. st \in Marks /\ pr \in Markers /\ pr = [a.pre EXCEPT ![s] = "none"]
      BY <2>2, Fields DEF Marks, Markers
    <2> HIDE DEF st, pr
    <2>4. /\ c \in AppType /\ Apart(r, c) /\ c.run = r.run /\ c.queue = r.queue
          /\ c.turns = r.turns /\ c.out = r.out /\ c.gate = r.gate /\ c.pre = pr
      BY <2>2, <2>3 DEF AppType, Apart, SameLatch, SameSteers, SameStop
    <2> HIDE DEF c
    <2>5. TurnSession(c, t) = s
      BY <2>2, <2>4 DEF TurnSession
    <2>6. b \in AppType /\ Bound(c, b, t) /\ b.gate = c.gate /\ b.pre = c.pre
      BY <2>4, <2>5, BindData
    <2> HIDE DEF b
    <2>7. Bound(a, b, t)
      BY <2>2, <2>4, <2>5, <2>6
         DEF Bound, Apart, SameLatch, SameSteers, SameStop, Unsubmitted
    <2> QED BY <1>2, <2>1, <2>2, <2>3, <2>4, <2>6, <2>7 DEF Opened
  <1> QED BY <1>1, <1>2

(* A row of the stopped turn is held back. *)
Withheld(a, b) ==
    /\ b.sel = a.sel /\ SameLatch(a, b) /\ SameSteers(a, b) /\ Unsubmitted(a, b)
    /\ b.interrupted = a.interrupted
    /\ b.gate = a.gate /\ b.pre = a.pre /\ b.run = a.run /\ b.queue = a.queue

LEMMA DeltaData ==
    ASSUME NEW a \in AppType, NEW t \in Nat \ {None}, TurnSession(a, t) \in Sessions
    PROVE  LET b == Delta(a, t)
           IN  /\ b \in AppType
               /\ \/ b = a \/ Withheld(a, b)
                  \/ /\ Bound(a, b, t) /\ b.gate = a.gate /\ b.pre = a.pre
                     /\ t \notin a.done /\ a.live[TurnSession(a, t)] # t
  <1>1. CASE t \in a.done
    BY <1>1 DEF Delta
  <1>2. CASE t \notin a.done /\ a.interrupted[TurnSession(a, t)] = t
    <2> DEFINE wi == a.withheld \cup {t}
    <2>1. wi \in SUBSET Nat
      BY Fields
    <2>2. Delta(a, t) = [a EXCEPT !.withheld = wi]
      BY <1>2 DEF Delta
    <2> HIDE DEF wi
    <2>3. LET b == [a EXCEPT !.withheld = wi] IN b \in AppType /\ Withheld(a, b)
      BY <2>1 DEF AppType, Withheld, SameLatch, SameSteers, Unsubmitted
    <2> QED BY <2>2, <2>3
  <1>3. CASE t \notin a.done /\ a.interrupted[TurnSession(a, t)] # t
    BY <1>3, BindData DEF Delta
  <1> QED BY <1>1, <1>2, <1>3

LEMMA ToolData ==
    ASSUME NEW a \in AppType, NEW t
    PROVE  LET b == Tool(a, t)
           IN  /\ b \in AppType /\ Apart(a, b) /\ Unsubmitted(a, b)
               /\ b.gate = a.gate /\ b.pre = a.pre /\ b.queue = a.queue
               /\ b.run \in {a.run, WorkRun(a)}
               /\ TurnSession(a, t) # a.sel => b = a
  BY WorkData DEF Tool, Apart, SameLatch, SameSteers, SameStop, Unsubmitted

(* Some of the retained steers are gone. *)
RetainedFrom(a, b) ==
    \A k \in DOMAIN b.retained : \E i \in DOMAIN a.retained : b.retained[k] = a.retained[i]

LEMMA StashEntries ==
    ASSUME NEW steers \in Stashes, NEW kept \in SUBSET DOMAIN steers
    PROVE  LET e == Entries(steers, kept)
           IN  /\ e \in Stashes /\ PromptsOf(e) \in Seq(PromptNo)
               /\ \A k \in DOMAIN e : \E i \in DOMAIN steers : e[k] = steers[i]
  <1> DEFINE e == Entries(steers, kept)
             ps == PromptsOf(e)
  <1>1. e \in Seq(SteerType)
    BY EntriesData DEF Stashes
  <1>2. \A k \in DOMAIN e : \E i \in kept : e[k] = steers[i]
    BY EntriesData DEF Stashes
  <1> HIDE DEF e
  <1>3. Len(e) \in Nat /\ DOMAIN e = 1..Len(e) /\ \A k \in 1..Len(e) : e[k] \in SteerType
    BY <1>1
  <1>4. \A k \in 1..Len(e) : e[k].prompt \in PromptNo
    BY <1>3 DEF SteerType
  <1>5. ps = [k \in 1..Len(e) |-> e[k].prompt]
    BY <1>3 DEF PromptsOf
  <1>6. ps \in Seq(PromptNo)
    <2> HIDE DEF ps
    <2>1. ps \in [1..Len(e) -> PromptNo]
      BY <1>4, <1>5
    <2> QED BY <1>3, <2>1, SeqDef
  <1> QED BY <1>1, <1>2, <1>6 DEF e, Stashes

(* The retained steers of some turns end: they are forgotten or go back to  *)
(* the queues.                                                              *)
Returned(a, b) ==
    /\ b.sel = a.sel /\ SameLatch(a, b) /\ SameStop(a, b) /\ Unsubmitted(a, b)
    /\ b.stash = a.stash /\ b.steering = a.steering /\ RetainedFrom(a, b)
    /\ b.gate = a.gate /\ b.pre = a.pre /\ b.run = a.run

(* Those of the turns ts leave the list for the front of their queues, if   *)
(* the server does not settle them.                                         *)
Staying(a, ts) == {i \in DOMAIN a.retained : a.retained[i].turn \notin ts}
Leaving(a, ts, s) == {i \in DOMAIN a.retained : /\ a.retained[i].turn \in ts
                                                /\ TurnSession(a, a.retained[i].turn) = s}
Restocked(a, b, ts) ==
    /\ b.retained = Entries(a.retained, Staying(a, ts))
    /\ \A s \in Sessions :
          b.queue[s] = IF a.steering = "settles" THEN a.queue[s]
                       ELSE PromptsOf(Entries(a.retained, Leaving(a, ts, s))) \o a.queue[s]

LEMMA RestockedSame ==
    ASSUME NEW a, NEW b, NEW c, NEW ts, Restocked(a, b, ts)
    PROVE  /\ SameSteers(c, a) /\ c.queue = a.queue /\ c.turns = a.turns => Restocked(c, b, ts)
           /\ c.retained = b.retained /\ c.queue = b.queue => Restocked(a, c, ts)
  <1>1. ASSUME SameSteers(c, a), c.queue = a.queue, c.turns = a.turns
        PROVE  Restocked(c, b, ts)
    <2>1. Staying(c, ts) = Staying(a, ts) /\ \A s : Leaving(c, ts, s) = Leaving(a, ts, s)
      BY <1>1 DEF SameSteers, Staying, Leaving, TurnSession
    <2> QED BY <1>1, <2>1 DEF SameSteers, Restocked
  <1> QED BY <1>1 DEF Restocked

LEMMA RestageSteersData ==
    ASSUME NEW a \in AppType, NEW ts
    PROVE  LET b == RestageSteers(a, ts)
           IN  b \in AppType /\ Returned(a, b) /\ Restocked(a, b, ts)
  <1> DEFINE Mine(s) == Leaving(a, ts, s)
             Back(s) == PromptsOf(Entries(a.retained, Mine(s)))
             kept == Staying(a, ts)
             re == Entries(a.retained, kept)
             qu == [s \in Sessions |-> IF a.steering = "settles" THEN a.queue[s]
                                       ELSE Back(s) \o a.queue[s]]
  <1>1. RestageSteers(a, ts) = [a EXCEPT !.retained = re, !.queue = qu]
    BY DEF RestageSteers, Select, Staying, Leaving
  <1>2. a.retained \in Stashes /\ \A x \in Sessions : a.queue[x] \in Seq(PromptNo)
    BY Fields DEF Queues
  <1>3. \A x : Mine(x) \in SUBSET DOMAIN a.retained
    BY DEF Leaving
  <1>4. kept \in SUBSET DOMAIN a.retained
    BY DEF Staying
  <1> HIDE DEF Mine, kept
  <1>5. \A x : Back(x) \in Seq(PromptNo)
    BY <1>2, <1>3, StashEntries
  <1> HIDE DEF Back
  <1>6. \A x \in Sessions : Back(x) \o a.queue[x] \in Seq(PromptNo)
    BY <1>2, <1>5, PutFront
  <1>7. qu \in Queues
    BY <1>2, <1>6 DEF Queues
  <1>8. re \in Stashes /\ \A k \in DOMAIN re : \E i \in DOMAIN a.retained : re[k] = a.retained[i]
    BY <1>2, <1>4, StashEntries
  <1>10. \A s \in Sessions : qu[s] = IF a.steering = "settles" THEN a.queue[s]
                                     ELSE Back(s) \o a.queue[s]
    OBVIOUS
  <1> HIDE DEF qu, re
  <1>9. LET b == [a EXCEPT !.retained = re, !.queue = qu]
        IN  /\ b \in AppType /\ b.sel = a.sel /\ SameLatch(a, b) /\ SameStop(a, b)
            /\ Unsubmitted(a, b) /\ b.stash = a.stash /\ b.steering = a.steering
            /\ b.gate = a.gate /\ b.pre = a.pre /\ b.run = a.run /\ b.retained = re
            /\ b.queue = qu
    BY <1>7, <1>8 DEF AppType, SameLatch, SameStop, Unsubmitted
  <1>11. LET b == [a EXCEPT !.retained = re, !.queue = qu] IN Restocked(a, b, ts)
    BY <1>9, <1>10 DEF Restocked, re, kept, Back, Mine
  <1> QED BY <1>1, <1>8, <1>9, <1>11 DEF Returned, RetainedFrom

(* The gate, the marker and the stop of turn t go, its steers return. *)
Settled(a, b, t) ==
    LET s == TurnSession(a, t)
    IN  /\ b.sel = a.sel /\ SameLatch(a, b) /\ Unsubmitted(a, b) /\ b.run = a.run
        /\ Restocked(a, b, {t})
        /\ b.stash = a.stash /\ b.steering = a.steering /\ RetainedFrom(a, b)
        /\ b.gate = [a.gate EXCEPT ![s] = IF @.turn = t THEN NoGate ELSE @]
        /\ b.pre = [a.pre EXCEPT ![s] = "none"]
        /\ b.interrupted = [a.interrupted EXCEPT ![s] = IF @ = t THEN None ELSE @]

LEMMA SettleData ==
    ASSUME NEW a \in AppType, NEW t \in Nat, TurnSession(a, t) \in Sessions
    PROVE  LET b == Settle(a, t) IN b \in AppType /\ Settled(a, b, t)
  <1> DEFINE s == TurnSession(a, t)
             r == ReleaseGate(a, t)
             pr == [r.pre EXCEPT ![s] = "none"]
             wi == r.withheld \ {t}
             it == [r.interrupted EXCEPT ![s] = IF @ = t THEN None ELSE @]
             c == [r EXCEPT !.pre = pr, !.withheld = wi, !.interrupted = it]
             b == RestageSteers(c, {t})
  <1>1. Settle(a, t) = b
    BY DEF Settle
  <1>2. /\ r \in AppType /\ Apart(a, r)
        /\ r.pre = a.pre /\ r.run = a.run /\ r.queue = a.queue
        /\ r.turns = a.turns /\ r.out = a.out
        /\ r.gate = [a.gate EXCEPT ![s] = IF @.turn = t THEN NoGate ELSE @]
    BY ReleaseGateData
  <1> HIDE DEF r, s
  <1>3. /\ pr \in Markers /\ wi \in SUBSET Nat /\ it \in Marks
        /\ pr = [a.pre EXCEPT ![s] = "none"]
        /\ it = [a.interrupted EXCEPT ![s] = IF @ = t THEN None ELSE @]
    <2>1. pr \in Markers /\ wi \in SUBSET Nat
      BY <1>2, Fields DEF Markers
    <2>2. it \in Marks
      <3>1. r.interrupted \in [Sessions -> Nat]
        BY <1>2, Fields DEF Marks
      <3> QED BY <3>1 DEF Marks, None
    <2> QED BY <1>2, <2>1, <2>2 DEF Apart, SameStop
  <1> HIDE DEF pr, wi, it
  <1>4. /\ c \in AppType /\ c.sel = r.sel /\ SameLatch(r, c) /\ SameSteers(r, c)
        /\ c.run = r.run /\ c.turns = r.turns /\ c.out = r.out /\ c.gate = r.gate
        /\ c.pre = pr /\ c.interrupted = it /\ c.queue = r.queue
    <2>0. r \in AppType /\ pr \in Markers /\ wi \in SUBSET Nat /\ it \in Marks
      BY <1>2, <1>3
    <2>1. c \in AppType
      BY <2>0 DEF AppType
    <2>2. /\ c.sel = r.sel /\ c.run = r.run /\ c.turns = r.turns /\ c.out = r.out
          /\ c.gate = r.gate /\ c.pre = pr /\ c.interrupted = it /\ c.queue = r.queue
      BY <1>2 DEF AppType
    <2>3. SameLatch(r, c) /\ SameSteers(r, c)
      BY <1>2 DEF AppType, SameLatch, SameSteers
    <2> QED BY <2>1, <2>2, <2>3
  <1> HIDE DEF c
  <1>5. b \in AppType /\ Returned(c, b) /\ Restocked(c, b, {t})
    BY <1>4, RestageSteersData
  <1> HIDE DEF b
  <1>8. Restocked(a, b, {t})
    <2>1. SameSteers(a, c) /\ a.queue = c.queue /\ a.turns = c.turns
      BY <1>2, <1>4 DEF Apart, SameSteers
    <2> QED BY <1>5, <2>1, RestockedSame
  <1>6. RetainedFrom(a, b)
    BY <1>2, <1>4, <1>5 DEF Returned, RetainedFrom, Apart, SameSteers
  <1>7. Settled(a, b, t)
    BY <1>2, <1>3, <1>4, <1>5, <1>6, <1>8
       DEF Settled, Returned, Apart, SameLatch, SameSteers, SameStop, Unsubmitted, s
  <1> QED BY <1>1, <1>5, <1>7

(* A terminal of turn t, before the drain: the second of a turn settles its *)
(* bookkeeping alone, the first one also ends the turn.                     *)
Finished(a, c, t) ==
    LET s == TurnSession(a, t)
    IN  /\ c.sel = a.sel /\ c.epoch = a.epoch /\ c.conn = a.conn /\ Unsubmitted(a, c)
        /\ c.stash = a.stash /\ c.steering = a.steering /\ RetainedFrom(a, c)
        /\ Restocked(a, c, {t})
        /\ c.gate = [a.gate EXCEPT ![s] = IF @.turn = t THEN NoGate ELSE @]
        /\ c.pre = [a.pre EXCEPT ![s] = "none"]
        /\ c.interrupted = [a.interrupted EXCEPT ![s] = IF @ = t THEN None ELSE @]
        /\ \/ t \in a.done /\ SameLatch(a, c) /\ c.run = a.run
           \/ /\ t \notin a.done /\ c.done = a.done \cup {t} /\ c.switched = a.switched \ {t}
              /\ \/ /\ c.live = [a.live EXCEPT ![s] = IF @ = t THEN None ELSE @]
                    /\ s = a.sel /\ a.live[s] \in {None, t} => c.run # "working"
                 \/ t \in a.switched /\ c.live = a.live
              /\ c.run = a.run \/ (s = a.sel /\ c.run # "working")

Concluded(a, b, t) == \E c \in AppType : Finished(a, c, t) /\ (b = c \/ Drained(c, b))

LEMMA CommitData ==
    ASSUME NEW a \in AppType, NEW t \in Nat, TurnSession(a, t) \in Sessions,
           NEW outcome \in {"success", "error", "idle"}
    PROVE  LET b == Commit(a, t, outcome) IN b \in AppType /\ Concluded(a, b, t)
  <1> DEFINE s == TurnSession(a, t)
             b == Settle(a, t)
             dn == b.done \cup {t}
             c == [b EXCEPT !.done = dn]
             sw == c.switched \ {t}
             e == [c EXCEPT !.switched = sw]
             current == c.live[s] \in {None, t}
             li == [c.live EXCEPT ![s] = IF @ = t THEN None ELSE @]
             ru == IF ~current \/ s # a.sel THEN c.run
                   ELSE IF t \in a.withheld THEN "idle" ELSE outcome
             d == [c EXCEPT !.live = li, !.run = ru]
  <1>1. Commit(a, t, outcome) = IF t \in a.done THEN Drain(b)
                                ELSE IF t \in b.switched THEN e ELSE Drain(d)
    BY DEF Commit
  <1>2. b \in AppType /\ Settled(a, b, t)
    BY SettleData
  <1> HIDE DEF b, s
  <1>3. s \in Sessions /\ dn \in SUBSET Nat
    BY <1>2, Fields DEF s
  <1> HIDE DEF dn
  <1>4. /\ c \in AppType /\ c.sel = b.sel /\ c.epoch = b.epoch /\ c.conn = b.conn
        /\ Unsubmitted(b, c) /\ SameSteers(b, c) /\ SameStop(b, c) /\ c.gate = b.gate
        /\ c.pre = b.pre /\ c.run = b.run /\ c.live = b.live /\ c.done = dn
        /\ c.switched = b.switched /\ c.queue = b.queue
    BY <1>2, <1>3 DEF AppType, Unsubmitted, SameSteers, SameStop
  <1> HIDE DEF c, current
  <1>5. sw \in SUBSET Nat /\ li \in Marks /\ ru \in RunStates
    BY <1>3, <1>4, Fields DEF Marks, RunStates, None
  <1> HIDE DEF sw, li, ru
  <1>6. /\ e \in AppType /\ e.sel = c.sel /\ e.epoch = c.epoch /\ e.conn = c.conn
        /\ Unsubmitted(c, e) /\ SameSteers(c, e) /\ SameStop(c, e) /\ e.gate = c.gate
        /\ e.pre = c.pre /\ e.run = c.run /\ e.live = c.live /\ e.done = c.done
        /\ e.switched = sw /\ e.queue = c.queue
    BY <1>4, <1>5 DEF AppType, Unsubmitted, SameSteers, SameStop
  <1>7. /\ d \in AppType /\ d.sel = c.sel /\ d.epoch = c.epoch /\ d.conn = c.conn
        /\ Unsubmitted(c, d) /\ SameSteers(c, d) /\ SameStop(c, d) /\ d.gate = c.gate
        /\ d.pre = c.pre /\ d.run = ru /\ d.live = li /\ d.done = c.done
        /\ d.switched = c.switched /\ d.queue = c.queue
    BY <1>4, <1>5 DEF AppType, Unsubmitted, SameSteers, SameStop
  <1> HIDE DEF d, e
  <1>8. CASE t \in a.done
    <2>1. Finished(a, b, t)
      BY <1>2, <1>8 DEF Settled, Finished, SameLatch
    <2> QED BY <1>1, <1>2, <1>8, <2>1, DrainData DEF Concluded
  <1>9. RetainedFrom(a, e) /\ RetainedFrom(a, d)
    BY <1>2, <1>4, <1>6, <1>7 DEF Settled, RetainedFrom, SameSteers
  <1>13. Restocked(a, e, {t}) /\ Restocked(a, d, {t})
    <2>1. e.retained = b.retained /\ d.retained = b.retained
      BY <1>4, <1>6, <1>7 DEF SameSteers
    <2> QED BY <1>2, <1>4, <1>6, <1>7, <2>1, RestockedSame DEF Settled
  <1>10. b.done = a.done /\ b.live = a.live /\ b.switched = a.switched
    BY <1>2 DEF Settled, SameLatch
  <1>11. CASE t \notin a.done /\ t \in b.switched
    <2>1. Finished(a, e, t)
      BY <1>2, <1>4, <1>6, <1>9, <1>10, <1>11, <1>13
         DEF Settled, Finished, Unsubmitted, SameSteers, SameStop, SameLatch, dn, sw
    <2> QED BY <1>1, <1>6, <1>11, <2>1 DEF Concluded
  <1>12. CASE t \notin a.done /\ t \notin b.switched
    <2>1. ru # "working" \/ ru = a.run
      BY <1>2, <1>4 DEF ru, Settled
    <2>2. s = a.sel /\ a.live[s] \in {None, t} => ru # "working"
      BY <1>4, <1>10 DEF ru, current
    <2>3. ru = a.run \/ s = a.sel
      BY <1>2, <1>4 DEF ru, Settled
    <2>4. Finished(a, d, t)
      BY <1>2, <1>4, <1>7, <1>9, <1>10, <1>12, <1>13, <2>1, <2>2, <2>3
         DEF Settled, Finished, Unsubmitted, SameSteers, SameStop, SameLatch, dn, li, s
    <2> QED BY <1>1, <1>7, <1>12, <2>4, DrainData DEF Concluded
  <1> QED BY <1>8, <1>11, <1>12

LEMMA FailData ==
    ASSUME NEW a \in AppType, NEW t \in Nat, TurnSession(a, t) \in Sessions, NEW interrupt
    PROVE  LET b == Fail(a, t, interrupt) IN b \in AppType /\ Concluded(a, b, t)
  <1> DEFINE s == TurnSession(a, t)
             b == Settle(a, t)
             failed == b.live[s] \in {None, t}
             surfaced == failed \/ t \in b.switched
             dn == b.done \cup {t}
             sw == b.switched \ {t}
             li == [b.live EXCEPT ![s] = IF @ = t THEN None ELSE @]
             ru == IF ~surfaced \/ s # a.sel THEN b.run
                   ELSE IF interrupt /\ failed THEN "idle" ELSE "error"
             c == [b EXCEPT !.done = dn, !.switched = sw, !.live = li, !.run = ru]
  <1>1. Fail(a, t, interrupt) = IF t \in a.done THEN Drain(b) ELSE Drain(c)
    BY DEF Fail
  <1>2. b \in AppType /\ Settled(a, b, t)
    BY SettleData
  <1> HIDE DEF b, s, failed, surfaced
  <1>3. /\ s \in Sessions /\ dn \in SUBSET Nat /\ sw \in SUBSET Nat /\ li \in Marks
        /\ ru \in RunStates
    BY <1>2, Fields DEF s, Marks, RunStates, None
  <1> HIDE DEF dn, sw, li, ru
  <1>4. /\ c \in AppType /\ c.sel = b.sel /\ c.epoch = b.epoch /\ c.conn = b.conn
        /\ Unsubmitted(b, c) /\ SameSteers(b, c) /\ SameStop(b, c) /\ c.gate = b.gate
        /\ c.pre = b.pre /\ c.run = ru /\ c.live = li /\ c.done = dn /\ c.switched = sw
        /\ c.queue = b.queue
    BY <1>2, <1>3 DEF AppType, Unsubmitted, SameSteers, SameStop
  <1> HIDE DEF c
  <1>5. CASE t \in a.done
    <2>1. Finished(a, b, t)
      BY <1>2, <1>5 DEF Settled, Finished, SameLatch
    <2> QED BY <1>1, <1>2, <1>5, <2>1, DrainData DEF Concluded
  <1>6. CASE t \notin a.done
    <2>1. RetainedFrom(a, c)
      BY <1>2, <1>4 DEF Settled, RetainedFrom, SameSteers
    <2>2. b.done = a.done /\ b.live = a.live /\ b.switched = a.switched /\ b.run = a.run
      BY <1>2 DEF Settled, SameLatch
    <2>3. ru = a.run \/ (s = a.sel /\ ru # "working")
      BY <2>2 DEF ru
    <2>4. s = a.sel /\ a.live[s] \in {None, t} => ru # "working"
      BY <2>2 DEF ru, surfaced, failed
    <2>6. Restocked(a, c, {t})
      <3>1. c.retained = b.retained
        BY <1>4 DEF SameSteers
      <3> QED BY <1>2, <1>4, <3>1, RestockedSame DEF Settled
    <2>5. Finished(a, c, t)
      BY <1>2, <1>4, <1>6, <2>1, <2>2, <2>3, <2>4, <2>6
         DEF Settled, Finished, Unsubmitted, SameSteers, SameStop, SameLatch, dn, sw, li, s
    <2> QED BY <1>1, <1>4, <1>6, <2>5, DrainData DEF Concluded
  <1> QED BY <1>5, <1>6

(* The oldest steer of the stash is answered. *)
Popped(a, b) ==
    /\ b.sel = a.sel /\ SameLatch(a, b) /\ SameStop(a, b) /\ Unsubmitted(a, b)
    /\ b.stash = Tail(a.stash) /\ b.steering = a.steering
    /\ b.gate = a.gate

LEMMA SteeredIntoData ==
    ASSUME NEW a \in AppType, a.stash # <<>>
    PROVE  LET b == SteeredInto(a)
           IN  /\ b \in AppType /\ Popped(a, b) /\ b.pre = a.pre /\ b.run = a.run
               /\ b.retained = Append(a.retained, Head(a.stash))
  <1> DEFINE re == Append(a.retained, Head(a.stash))
             st == Tail(a.stash)
  <1>1. a.stash \in Seq(SteerType) /\ a.retained \in Seq(SteerType)
    BY Fields DEF Stashes
  <1>2. Head(a.stash) \in SteerType /\ st \in Seq(SteerType)
    BY <1>1
  <1>3. re \in Stashes /\ st \in Stashes
    BY <1>1, <1>2 DEF Stashes
  <1>4. SteeredInto(a) = [a EXCEPT !.retained = re, !.stash = st]
    BY DEF SteeredInto
  <1> HIDE DEF re, st
  <1>5. LET b == [a EXCEPT !.retained = re, !.stash = st]
        IN  /\ b \in AppType /\ b.sel = a.sel /\ SameLatch(a, b) /\ SameStop(a, b)
            /\ Unsubmitted(a, b) /\ b.stash = st /\ b.steering = a.steering
            /\ b.gate = a.gate /\ b.pre = a.pre /\ b.run = a.run /\ b.retained = re
    BY <1>3 DEF AppType, SameLatch, SameStop, Unsubmitted
  <1> QED BY <1>4, <1>5 DEF Popped, re, st

LEMMA SteerStartedTurnData ==
    ASSUME NEW a \in AppType, a.stash # <<>>
    PROVE  LET b == SteerStartedTurn(a)
               s == TurnSession(a, Head(a.stash).turn)
           IN  /\ b \in AppType /\ Popped(a, b) /\ b.retained = a.retained
               /\ b.pre = [a.pre EXCEPT ![s] = "fresh"]
               /\ b.run = IF s = a.sel THEN WorkRun(a) ELSE a.run
  <1> DEFINE s == TurnSession(a, Head(a.stash).turn)
             st == Tail(a.stash)
             pr == [a.pre EXCEPT ![s] = "fresh"]
             c == [a EXCEPT !.stash = st, !.pre = pr]
  <1>1. st \in Stashes /\ pr \in Markers
    <2>1. a.stash \in Seq(SteerType)
      BY Fields DEF Stashes
    <2>2. st \in Seq(SteerType)
      BY <2>1
    <2> QED BY <2>2, Fields DEF Stashes, Markers
  <1>2. SteerStartedTurn(a) = IF s = a.sel THEN Work(c) ELSE c
    BY DEF SteerStartedTurn
  <1> HIDE DEF st, pr
  <1>3. /\ c \in AppType /\ c.sel = a.sel /\ SameLatch(a, c) /\ SameStop(a, c)
        /\ Unsubmitted(a, c) /\ c.stash = st /\ c.steering = a.steering
        /\ c.gate = a.gate /\ c.pre = pr /\ c.run = a.run /\ c.retained = a.retained
    BY <1>1 DEF AppType, SameLatch, SameStop, Unsubmitted
  <1> HIDE DEF c, s
  <1>4. WorkRun(c) = WorkRun(a)
    BY <1>3 DEF WorkRun, Frozen, Live, SameLatch, SameStop
  <1> DEFINE b == IF s = a.sel THEN Work(c) ELSE c
  <1>5. /\ b \in AppType /\ b.sel = c.sel /\ SameLatch(c, b) /\ SameStop(c, b)
        /\ Unsubmitted(c, b) /\ b.stash = c.stash /\ b.steering = c.steering
        /\ b.gate = c.gate /\ b.pre = c.pre /\ b.retained = c.retained
        /\ b.run = IF s = a.sel THEN WorkRun(c) ELSE c.run
    BY <1>3, WorkData DEF Apart, SameLatch, SameStop, SameSteers, Unsubmitted
  <1> HIDE DEF b
  <1>6. Popped(a, b)
    BY <1>3, <1>5 DEF Popped, SameLatch, SameStop, Unsubmitted, st
  <1> QED BY <1>2, <1>3, <1>4, <1>5, <1>6 DEF b, s, pr

LEMMA SteerFailedData ==
    ASSUME NEW a \in AppType, a.stash # <<>>
    PROVE  LET b == SteerFailed(a)
           IN  /\ b \in AppType /\ Popped(a, b) /\ b.pre = a.pre /\ b.run = a.run
               /\ b.retained = a.retained
  <1> DEFINE s == TurnSession(a, Head(a.stash).turn)
             st == Tail(a.stash)
             qu == [a.queue EXCEPT ![s] = Append(@, Head(a.stash).prompt)]
  <1>1. Head(a.stash).prompt \in PromptNo /\ st \in Stashes
    <2>1. a.stash \in Seq(SteerType)
      BY Fields DEF Stashes
    <2>2. Head(a.stash) \in SteerType /\ st \in Seq(SteerType)
      BY <2>1
    <2> QED BY <2>2 DEF SteerType, Stashes
  <1>2. qu \in Queues
    <2>1. \A x \in Sessions : a.queue[x] \in Seq(PromptNo)
      BY Fields DEF Queues
    <2>2. \A x \in Sessions : Append(a.queue[x], Head(a.stash).prompt) \in Seq(PromptNo)
      BY <1>1, <2>1, PutFront
    <2> QED BY <2>2, Fields DEF Queues
  <1>3. SteerFailed(a) = [a EXCEPT !.stash = st, !.queue = qu]
    BY DEF SteerFailed
  <1> HIDE DEF st, qu
  <1>4. LET b == [a EXCEPT !.stash = st, !.queue = qu]
        IN  /\ b \in AppType /\ b.sel = a.sel /\ SameLatch(a, b) /\ SameStop(a, b)
            /\ Unsubmitted(a, b) /\ b.stash = st /\ b.steering = a.steering
            /\ b.gate = a.gate /\ b.pre = a.pre /\ b.run = a.run /\ b.retained = a.retained
    BY <1>1, <1>2 DEF AppType, SameLatch, SameStop, Unsubmitted
  <1> QED BY <1>3, <1>4 DEF Popped, st

LEMMA SteersDroppedData ==
    ASSUME NEW a \in AppType, NEW t, NEW ps
    PROVE  LET b == SteersDropped(a, t, ps) IN b \in AppType /\ Returned(a, b)
  <1> DEFINE mine == {i \in DOMAIN a.retained : /\ a.retained[i].turn = t
                                                /\ a.retained[i].prompt \in ps}
             kept == {i \in DOMAIN a.retained : ~(/\ a.retained[i].turn = t
                                                  /\ a.retained[i].prompt \in ps)}
             back == PromptsOf(Entries(a.retained, mine))
             re == Entries(a.retained, kept)
             qu == [a.queue EXCEPT ![TurnSession(a, t)] = back \o @]
  <1>1. SteersDropped(a, t, ps) = [a EXCEPT !.retained = re, !.queue = qu]
    BY DEF SteersDropped, Select
  <1>2. a.retained \in Stashes /\ \A x \in Sessions : a.queue[x] \in Seq(PromptNo)
    BY Fields DEF Queues
  <1>3. mine \in SUBSET DOMAIN a.retained /\ kept \in SUBSET DOMAIN a.retained
    OBVIOUS
  <1> HIDE DEF mine, kept
  <1>4. back \in Seq(PromptNo)
    BY <1>2, <1>3, StashEntries
  <1>5. re \in Stashes /\ \A k \in DOMAIN re : \E i \in DOMAIN a.retained : re[k] = a.retained[i]
    BY <1>2, <1>3, StashEntries
  <1> HIDE DEF back
  <1>6. \A x \in Sessions : back \o a.queue[x] \in Seq(PromptNo)
    BY <1>2, <1>4, PutFront
  <1>7. qu \in Queues
    BY <1>6, Fields DEF Queues
  <1> HIDE DEF qu, re
  <1>8. LET b == [a EXCEPT !.retained = re, !.queue = qu]
        IN  /\ b \in AppType /\ b.sel = a.sel /\ SameLatch(a, b) /\ SameStop(a, b)
            /\ Unsubmitted(a, b) /\ b.stash = a.stash /\ b.steering = a.steering
            /\ b.gate = a.gate /\ b.pre = a.pre /\ b.run = a.run /\ b.retained = re
    BY <1>5, <1>7 DEF AppType, SameLatch, SameStop, Unsubmitted
  <1> QED BY <1>1, <1>5, <1>8 DEF Returned, RetainedFrom

LEMMA EchoData ==
    ASSUME NEW a \in AppType, NEW p
    PROVE  LET b == Echo(a, p) IN b \in AppType /\ Returned(a, b) /\ b.queue = a.queue
  <1> DEFINE kept == {i \in DOMAIN a.retained : a.retained[i].prompt # p}
             re == Entries(a.retained, kept)
  <1>1. Echo(a, p) = [a EXCEPT !.retained = re]
    BY DEF Echo, Select
  <1>2. kept \in SUBSET DOMAIN a.retained
    OBVIOUS
  <1> HIDE DEF kept
  <1>3. re \in Stashes /\ \A k \in DOMAIN re : \E i \in DOMAIN a.retained : re[k] = a.retained[i]
    BY <1>2, Fields, StashEntries
  <1> HIDE DEF re
  <1>4. LET b == [a EXCEPT !.retained = re]
        IN  /\ b \in AppType /\ b.sel = a.sel /\ SameLatch(a, b) /\ SameStop(a, b)
            /\ Unsubmitted(a, b) /\ b.stash = a.stash /\ b.steering = a.steering
            /\ b.gate = a.gate /\ b.pre = a.pre /\ b.run = a.run /\ b.retained = re
            /\ b.queue = a.queue
    BY <1>3 DEF AppType, SameLatch, SameStop, Unsubmitted
  <1> QED BY <1>1, <1>3, <1>4 DEF Returned, RetainedFrom

-----------------------------------------------------------------------------
(* The store: what it makes of errors.                                     *)

LEMMA FailedData ==
    ASSUME NEW a \in AppType
    PROVE  LET b == Failed(a)
           IN  /\ b \in AppType /\ Apart(a, b) /\ Unsubmitted(a, b) /\ b.queue = a.queue
               /\ b.gate = a.gate /\ b.pre = a.pre /\ b.run = "error"
  BY DEF Failed, AppType, Apart, SameLatch, SameSteers, SameStop, Unsubmitted, RunStates

(* An error that re-stages the gates of the sessions ss behind a backoff. *)
BackedOff(a, b, ss) ==
    /\ Apart(a, b) /\ Unsubmitted(a, b) /\ b.run = "error"
    /\ b.gate = [s \in Sessions |-> IF s \in Gated(a, ss) THEN Backoff ELSE a.gate[s]]
    /\ b.pre = [s \in Sessions |-> IF s \in Gated(a, ss) THEN "none" ELSE a.pre[s]]

LEMMA BackoffData ==
    ASSUME NEW a \in AppType, NEW ss \in SUBSET Sessions
    PROVE  LET b == Failed(RestageGates(a, ss, Backoff))
           IN  b \in AppType /\ BackedOff(a, b, ss)
  <1> DEFINE c == RestageGates(a, ss, Backoff)
             b == Failed(c)
  <1>1. Backoff \in GateType
    BY DEF Backoff, GateType, None
  <1>2. c \in AppType /\ Apart(a, c) /\ Restaged(a, c, Gated(a, ss), Backoff)
    BY <1>1, RestageGatesData
  <1> HIDE DEF c
  <1>3. /\ b \in AppType /\ Apart(c, b) /\ Unsubmitted(c, b)
        /\ b.gate = c.gate /\ b.pre = c.pre /\ b.run = "error"
    BY <1>2, FailedData
  <1> HIDE DEF b
  <1>4. BackedOff(a, b, ss)
    BY <1>2, <1>3
       DEF BackedOff, Restaged, Apart, SameLatch, SameSteers, SameStop, Unsubmitted
  <1> QED BY <1>3, <1>4 DEF b, c

LEMMA StartCancelledData ==
    ASSUME NEW a \in AppType
    PROVE  LET b == StartCancelled(a) IN b \in AppType /\ BackedOff(a, b, Sessions)
  BY BackoffData DEF StartCancelled

LEMMA SendRefusedData ==
    ASSUME NEW a \in AppType
    PROVE  LET b == SendRefused(a) IN b \in AppType /\ BackedOff(a, b, {a.sel})
  <1>1. {a.sel} \in SUBSET Sessions
    BY Fields
  <1> QED BY <1>1, BackoffData DEF SendRefused

-----------------------------------------------------------------------------
(* The store: the reconcile after a relaunch, and answered hydrates.       *)

LatchedOpen(a) == {s \in Latched(a) : a.live[s] \notin a.done}
DeadTurns(a) == {a.live[s] : s \in LatchedOpen(a)}

(* The latched turns of an older connection are failed. *)
FailedLatched(a, b) ==
    /\ b.sel = a.sel /\ b.epoch = a.epoch /\ b.conn = a.conn /\ SameStop(a, b)
    /\ b.stash = a.stash /\ b.steering = a.steering /\ RetainedFrom(a, b)
    /\ Unsubmitted(a, b) /\ b.gate = a.gate
    /\ b.pre = [s \in Sessions |-> IF s \in Latched(a) THEN "none" ELSE a.pre[s]]
    /\ b.done = a.done \cup DeadTurns(a) /\ b.switched = a.switched \ DeadTurns(a)
    /\ b.live = [s \in Sessions |-> IF s \in LatchedOpen(a) THEN None ELSE a.live[s]]
    /\ b.run = IF a.sel \in LatchedOpen(a) THEN "error" ELSE a.run

LEMMA FailLatchedData ==
    ASSUME NEW a \in AppType
    PROVE  LET b == FailLatched(a) IN b \in AppType /\ FailedLatched(a, b)
  <1> DEFINE all == {a.live[s] : s \in Latched(a)}
             r == RestageSteers(a, all)
             ss == LatchedOpen(a)
             ts == DeadTurns(a)
             pr == [s \in Sessions |-> IF s \in Latched(a) THEN "none" ELSE r.pre[s]]
             dn == r.done \cup ts
             sw == r.switched \ ts
             li == [s \in Sessions |-> IF s \in ss THEN None ELSE r.live[s]]
             ru == IF r.sel \in ss THEN "error" ELSE r.run
             b == [r EXCEPT !.pre = pr, !.done = dn, !.switched = sw, !.live = li, !.run = ru]
  <1>1. r \in AppType /\ Returned(a, r)
    BY RestageSteersData
  <1>2. FailLatched(a) = b
    <2>1. r.sel = a.sel
      BY <1>1 DEF Returned
    <2> QED BY <2>1 DEF FailLatched, LatchedOpen, DeadTurns
  <1> HIDE DEF r
  <1>3. ts \in SUBSET Nat /\ ss \in SUBSET Sessions
    <2>1. \A x \in Sessions : a.live[x] \in Nat
      BY Fields DEF Marks
    <2> QED BY <2>1 DEF DeadTurns, LatchedOpen, Latched
  <1> HIDE DEF ts, ss
  <1>4. pr \in Markers /\ dn \in SUBSET Nat /\ sw \in SUBSET Nat /\ li \in Marks
        /\ ru \in RunStates
    <2>1. /\ r.pre \in Markers /\ r.live \in Marks /\ r.run \in RunStates
          /\ r.done \in SUBSET Nat /\ r.switched \in SUBSET Nat
      BY <1>1, Fields
    <2>2. pr \in Markers
      BY <2>1 DEF Markers
    <2>3. li \in Marks
      BY <2>1 DEF Marks, None
    <2>4. ru \in RunStates
      BY <2>1 DEF RunStates
    <2> QED BY <1>3, <2>1, <2>2, <2>3, <2>4
  <1>5. /\ pr = [s \in Sessions |-> IF s \in Latched(a) THEN "none" ELSE a.pre[s]]
        /\ dn = a.done \cup ts /\ sw = a.switched \ ts
        /\ li = [s \in Sessions |-> IF s \in ss THEN None ELSE a.live[s]]
        /\ ru = IF a.sel \in ss THEN "error" ELSE a.run
    BY <1>1 DEF Returned, SameLatch
  <1> HIDE DEF pr, dn, sw, li, ru
  <1>6. /\ b \in AppType /\ b.sel = r.sel /\ b.epoch = r.epoch /\ b.conn = r.conn
        /\ SameStop(r, b) /\ SameSteers(r, b) /\ Unsubmitted(r, b) /\ b.gate = r.gate
        /\ b.pre = pr /\ b.done = dn /\ b.switched = sw /\ b.live = li /\ b.run = ru
    BY <1>1, <1>4 DEF AppType, SameStop, SameSteers, Unsubmitted
  <1> HIDE DEF b
  <1>7. FailedLatched(a, b)
    BY <1>1, <1>5, <1>6
       DEF FailedLatched, Returned, SameLatch, SameStop, SameSteers, Unsubmitted,
           RetainedFrom, ts, ss
  <1> QED BY <1>2, <1>6, <1>7

(* The store reconciled, before its drains. *)
Reconciled(a, c) ==
    /\ c.sel = a.sel /\ c.epoch = a.epoch /\ c.conn = a.conn
    /\ \A s \in Sessions : c.interrupted[s] = None
    /\ c.stash = a.stash /\ c.steering = a.steering /\ RetainedFrom(a, c)
    /\ Unsubmitted(a, c)
    /\ \A s \in Sessions : c.gate[s] = IF a.gate[s].set THEN NoGate ELSE a.gate[s]
    /\ c.done = a.done \cup DeadTurns(a) /\ c.switched = a.switched \ DeadTurns(a)
    /\ c.live = [s \in Sessions |-> IF s \in LatchedOpen(a) THEN None ELSE a.live[s]]

(* A drain, or a drain and another of an idle store. *)
Drains(c, b) ==
    \E d, e \in AppType :
        /\ d = c \/ Drained(c, d)
        /\ \/ b = d /\ d.out # c.out
           \/ /\ d.out = c.out /\ Drained(e, b)
              /\ Apart(d, e) /\ Unsubmitted(d, e) /\ e.gate = d.gate /\ e.pre = d.pre
              /\ e.run = IF d.run = "working" /\ Live(d) = None THEN "idle" ELSE d.run

LEMMA RelaunchedData ==
    ASSUME NEW a \in AppType
    PROVE  LET b == Relaunched(a)
           IN  b \in AppType /\ \E c \in AppType : Reconciled(a, c) /\ Drains(c, b)
  <1> DEFINE it == [s \in Sessions |-> None]
             x == [a EXCEPT !.hydrating = {}, !.withheld = {}, !.interrupted = it]
             y == RestageGates(x, Sessions, NoGate)
             c == FailLatched(y)
             d == IF Latched(x) = {} THEN c ELSE Drain(c)
             ru == IF d.run = "working" /\ Live(d) = None THEN "idle" ELSE d.run
             e == [d EXCEPT !.run = ru]
  <1>1. Relaunched(a) = IF d.out # a.out THEN d ELSE Drain(e)
    BY DEF Relaunched
  <1>2. it \in Marks /\ \A s \in Sessions : it[s] = None
    BY DEF Marks, None
  <1> HIDE DEF it
  <1>3. /\ x \in AppType /\ x.sel = a.sel /\ SameLatch(a, x) /\ SameSteers(a, x)
        /\ Unsubmitted(a, x) /\ x.gate = a.gate /\ x.pre = a.pre /\ x.interrupted = it
    BY <1>2 DEF AppType, SameLatch, SameSteers, Unsubmitted
  <1> HIDE DEF x
  <1>4. y \in AppType /\ Apart(x, y) /\ Restaged(x, y, Gated(x, Sessions), NoGate)
    <2>1. NoGate \in GateType
      BY DEF NoGate, GateType, None
    <2> QED BY <1>3, <2>1, RestageGatesData
  <1> HIDE DEF y
  <1>5. c \in AppType /\ FailedLatched(y, c)
    BY <1>4, FailLatchedData
  <1> HIDE DEF c
  <1>6. d \in AppType /\ (d = c \/ Drained(c, d))
    BY <1>5, DrainData
  <1> HIDE DEF d
  <1>7. /\ e \in AppType /\ Apart(d, e) /\ Unsubmitted(d, e) /\ e.gate = d.gate
        /\ e.pre = d.pre /\ e.run = ru
    <2>1. ru \in RunStates
      BY <1>6, Fields DEF RunStates
    <2> HIDE DEF ru
    <2> QED BY <1>6, <2>1 DEF AppType, Apart, SameLatch, SameSteers, SameStop, Unsubmitted
  <1> HIDE DEF e
  <1>8. /\ Latched(y) = Latched(a) /\ LatchedOpen(y) = LatchedOpen(a)
        /\ DeadTurns(y) = DeadTurns(a)
    <2>1. /\ y.live = a.live /\ y.epoch = a.epoch /\ y.conn = a.conn /\ y.done = a.done
      BY <1>3, <1>4 DEF Apart, SameLatch
    <2>2. Latched(y) = Latched(a)
      BY <2>1 DEF Latched
    <2>3. LatchedOpen(y) = LatchedOpen(a)
      BY <2>1, <2>2 DEF LatchedOpen
    <2> QED BY <2>1, <2>2, <2>3 DEF DeadTurns
  <1>9. Reconciled(a, c)
    <2>1. \A s \in Sessions : y.gate[s] = IF a.gate[s].set THEN NoGate ELSE a.gate[s]
      BY <1>3, <1>4 DEF Restaged, Gated
    <2>2. \A s \in Sessions : c.interrupted[s] = None
      BY <1>2, <1>3, <1>4, <1>5 DEF Apart, SameStop, FailedLatched
    <2>3. Unsubmitted(a, c)
      BY <1>3, <1>4, <1>5 DEF Unsubmitted, Restaged, FailedLatched
    <2>4. RetainedFrom(a, c)
      BY <1>3, <1>4, <1>5 DEF RetainedFrom, SameSteers, Apart, FailedLatched
    <2> HIDE DEF it
    <2> QED BY <1>3, <1>4, <1>5, <1>8, <2>1, <2>2, <2>3, <2>4
            DEF Reconciled, FailedLatched, Apart, SameLatch, SameSteers
  <1>10. c.out = a.out
    BY <1>9 DEF Reconciled, Unsubmitted
  <1>11. CASE d.out # a.out
    <2>1. Drains(c, d)
      BY <1>6, <1>7, <1>10, <1>11 DEF Drains
    <2> QED BY <1>1, <1>5, <1>6, <1>9, <1>11, <2>1
  <1>12. CASE d.out = a.out
    <2>1. Drain(e) \in AppType /\ Drained(e, Drain(e))
      BY <1>7, DrainData
    <2>2. Drains(c, Drain(e))
      BY <1>6, <1>7, <1>10, <1>12, <2>1 DEF Drains, ru
    <2> QED BY <1>1, <1>5, <1>9, <1>12, <2>1, <2>2
  <1> QED BY <1>11, <1>12

(* A hydrate of session s may go out again. *)
Refreshed(a, b, s) ==
    /\ Apart(a, b) /\ b.turns = a.turns
    /\ b.gate = a.gate /\ b.pre = a.pre /\ b.run = a.run /\ b.queue = a.queue
    /\ b.out \in {a.out, Append(a.out, Cmd("hydrate", s, None, None))}

LEMMA RefreshData ==
    ASSUME NEW a \in AppType, NEW s \in Sessions, NEW t \in Nat
    PROVE  LET b == Refresh(a, s, t) IN b \in AppType /\ Refreshed(a, b, s)
  <1>1. CASE ~Hydrates \/ <<t, a.conn>> \in a.refreshed
    <2> DEFINE hy == a.hydrating \ {s}
    <2>1. hy \in SUBSET Sessions
      BY Fields
    <2>2. Refresh(a, s, t) = [a EXCEPT !.hydrating = hy]
      BY <1>1 DEF Refresh
    <2> HIDE DEF hy
    <2>3. LET b == [a EXCEPT !.hydrating = hy] IN b \in AppType /\ Refreshed(a, b, s)
      BY <2>1 DEF AppType, Refreshed, Apart, SameLatch, SameSteers, SameStop
    <2> QED BY <2>2, <2>3
  <1>2. CASE ~(~Hydrates \/ <<t, a.conn>> \in a.refreshed)
    <2> DEFINE rf == a.refreshed \cup {<<t, a.conn>>}
               hy == a.hydrating \cup {s}
               ou == Append(a.out, Cmd("hydrate", s, None, None))
    <2>1. Cmd("hydrate", s, None, None) \in CmdType
      BY DEF Cmd, CmdType, None
    <2>2. <<t, a.conn>> \in Nat \X Nat
      BY Fields
    <2>3. rf \in Refreshes /\ hy \in SUBSET Sessions /\ ou \in Outputs
      BY <2>1, <2>2, Fields DEF Refreshes, Outputs
    <2>4. Refresh(a, s, t) = [a EXCEPT !.refreshed = rf, !.hydrating = hy, !.out = ou]
      BY <1>2 DEF Refresh
    <2> HIDE DEF rf, hy, ou
    <2>5. LET b == [a EXCEPT !.refreshed = rf, !.hydrating = hy, !.out = ou]
          IN  /\ b \in AppType /\ Apart(a, b) /\ b.turns = a.turns
              /\ b.gate = a.gate /\ b.pre = a.pre /\ b.run = a.run /\ b.queue = a.queue
              /\ b.out = ou
      BY <2>3 DEF AppType, Apart, SameLatch, SameSteers, SameStop
    <2> QED BY <2>4, <2>5 DEF Refreshed, ou
  <1> QED BY <1>1, <1>2

(* The live turn of session s is taken for ended, before the drain. *)
Finalized(a, c, s) ==
    /\ c.sel = a.sel /\ c.epoch = a.epoch /\ c.conn = a.conn /\ c.switched = a.switched
    /\ SameSteers(a, c) /\ SameStop(a, c) /\ Unsubmitted(a, c) /\ c.queue = a.queue
    /\ c.pre = a.pre /\ c.run = a.run
    /\ c.gate = [a.gate EXCEPT ![TurnSession(a, a.live[s])] =
                    IF @.turn = a.live[s] THEN NoGate ELSE @]
    /\ c.live = [a.live EXCEPT ![s] = None] /\ c.done = a.done \cup {a.live[s]}

Stale(a, b, s, ended) ==
    \/ a.live[s] \notin ended /\ b = a
    \/ a.live[s] \in ended /\ \E c \in AppType : Finalized(a, c, s) /\ Drained(c, b)

LEMMA FinalizeStaleData ==
    ASSUME NEW a \in AppType, NEW s \in Sessions, NEW ended
    PROVE  LET b == FinalizeStale(a, s, ended)
           IN  b \in AppType /\ Stale(a, b, s, ended)
  <1>1. CASE a.live[s] \notin ended
    BY <1>1 DEF FinalizeStale, Stale
  <1>2. CASE a.live[s] \in ended
    <2> DEFINE r == ReleaseGate(a, a.live[s])
               li == [r.live EXCEPT ![s] = None]
               dn == r.done \cup {a.live[s]}
               c == [r EXCEPT !.live = li, !.done = dn]
    <2>1. FinalizeStale(a, s, ended) = Drain(c)
      BY <1>2 DEF FinalizeStale
    <2>2. a.live[s] \in Nat
      BY Fields DEF Marks
    <2>3. /\ r \in AppType /\ Apart(a, r)
          /\ r.pre = a.pre /\ r.run = a.run /\ r.queue = a.queue
          /\ r.turns = a.turns /\ r.out = a.out
          /\ r.gate = [a.gate EXCEPT ![TurnSession(a, a.live[s])] =
                          IF @.turn = a.live[s] THEN NoGate ELSE @]
      BY <2>2, ReleaseGateData
    <2> HIDE DEF r
    <2>4. /\ li \in Marks /\ dn \in SUBSET Nat
          /\ li = [a.live EXCEPT ![s] = None] /\ dn = a.done \cup {a.live[s]}
      BY <2>2, <2>3, Fields DEF Marks, None, Apart, SameLatch
    <2> HIDE DEF li, dn
    <2>5. /\ c \in AppType /\ c.sel = r.sel /\ c.epoch = r.epoch /\ c.conn = r.conn
          /\ c.switched = r.switched /\ SameSteers(r, c) /\ SameStop(r, c)
          /\ Unsubmitted(r, c) /\ c.queue = r.queue /\ c.pre = r.pre /\ c.run = r.run
          /\ c.gate = r.gate /\ c.live = li /\ c.done = dn
      BY <2>3, <2>4 DEF AppType, SameSteers, SameStop, Unsubmitted
    <2> HIDE DEF c
    <2>6. Finalized(a, c, s)
      BY <2>3, <2>4, <2>5
         DEF Finalized, Apart, SameLatch, SameSteers, SameStop, Unsubmitted
    <2> QED BY <1>2, <2>1, <2>5, <2>6, DrainData DEF Stale
  <1> QED BY <1>1, <1>2

(* The landed steers of session s are forgotten. *)
Landed(a, b) == Returned(a, b) /\ b.queue = a.queue

LEMMA HydratedData ==
    ASSUME NEW a \in AppType, NEW s \in Sessions, NEW ended, NEW active, NEW landed
    PROVE  LET b == Hydrated(a, s, ended, active, landed)
           IN  /\ b \in AppType
               /\ \E c, d \in AppType :
                     /\ Landed(a, c) /\ Stale(c, d, s, ended)
                     /\ b = d \/ (active = {} /\ s = a.sel /\ Phantom(d) /\ Reset(d, b))
  <1> DEFINE hy == a.hydrating \ {s}
             kept == {i \in DOMAIN a.retained :
                         ~(/\ TurnSession(a, a.retained[i].turn) = s
                           /\ a.retained[i].prompt \in landed)}
             re == Entries(a.retained, kept)
             c == [a EXCEPT !.hydrating = hy, !.retained = re]
             d == FinalizeStale(c, s, ended)
  <1>1. Hydrated(a, s, ended, active, landed) =
           IF active = {} /\ s = a.sel /\ Phantom(d) THEN ResetPhantom(d) ELSE d
    BY DEF Hydrated, Select
  <1>2. kept \in SUBSET DOMAIN a.retained /\ hy \in SUBSET Sessions
    BY Fields
  <1> HIDE DEF kept, hy
  <1>3. re \in Stashes /\ \A k \in DOMAIN re : \E i \in DOMAIN a.retained : re[k] = a.retained[i]
    BY <1>2, Fields, StashEntries
  <1> HIDE DEF re
  <1>4. /\ c \in AppType /\ c.sel = a.sel /\ SameLatch(a, c) /\ SameStop(a, c)
        /\ Unsubmitted(a, c) /\ c.stash = a.stash /\ c.steering = a.steering
        /\ c.gate = a.gate /\ c.pre = a.pre /\ c.run = a.run /\ c.queue = a.queue
        /\ c.retained = re
    BY <1>2, <1>3 DEF AppType, SameLatch, SameStop, Unsubmitted
  <1> HIDE DEF c
  <1>5. Landed(a, c)
    BY <1>3, <1>4 DEF Landed, Returned, RetainedFrom
  <1>6. d \in AppType /\ Stale(c, d, s, ended)
    BY <1>4, FinalizeStaleData
  <1> HIDE DEF d
  <1> QED BY <1>1, <1>4, <1>5, <1>6, ResetData

-----------------------------------------------------------------------------
(* The turns a store state names are turns of the table T, which its own    *)
(* table extends: T is what the store keeps when the transport refuses the  *)
(* command of a new turn.                                                   *)

Refs(a, T) ==
    /\ \A s \in Sessions : a.live[s] # None =>
          a.live[s] \in DOMAIN T /\ T[a.live[s]].sess = s
    /\ a.done \cup a.switched \subseteq DOMAIN T
    /\ \A i \in DOMAIN a.stash : a.stash[i].turn \in DOMAIN T
    /\ \A i \in DOMAIN a.retained : a.retained[i].turn \in DOMAIN T

Extends(T, U) == Len(T) <= Len(U) /\ \A i \in DOMAIN T : U[i] = T[i]

Fit(a, T) == a \in AppType /\ T \in TurnTables /\ Extends(T, a.turns) /\ Refs(a, T)

(* A hydrate or an interrupt goes out. *)
Asks(a, b) ==
    \E k \in {"hydrate", "interrupt"}, s \in Sessions, t \in Nat :
        b.out = Append(a.out, Cmd(k, s, t, None))

(* The prompt p is submitted by the session on screen. *)
Submits(a, b, p) ==
    LET t == Len(a.turns) + 1
    IN  /\ p \in PromptNo /\ Live(b) = None /\ b.run = "working"
        /\ b.turns = Append(a.turns, [sess |-> b.sel, prompt |-> p])
        /\ b.out = Append(a.out, Cmd("start", b.sel, t, p))
        /\ b.gate[b.sel] = InFlight(t, p) /\ b.pre[b.sel] = "fresh"

(* No steer goes out or is answered; what a handler issues is one command. *)
Silent(a, b) == b.stash = a.stash /\ b.steering = a.steering /\ Unsubmitted(a, b)

Plain(a, b) ==
    /\ b.stash = a.stash /\ b.steering = a.steering
    /\ \/ Unsubmitted(a, b)
       \/ b.turns = a.turns /\ Asks(a, b)
       \/ \E p : Submits(a, b, p)

LEMMA SilentThen ==
    ASSUME NEW a, NEW b, NEW c, Silent(a, c), Plain(c, b)
    PROVE  Plain(a, b)
  BY DEF Silent, Plain, Unsubmitted, Asks, Submits

LEMMA TableFacts ==
    ASSUME NEW T \in TurnTables
    PROVE  /\ Len(T) \in Nat /\ DOMAIN T = 1..Len(T)
           /\ \A t \in DOMAIN T : t \in Nat \ {None} /\ T[t].sess \in Sessions
                                  /\ T[t].prompt \in Nat
           /\ \A e \in TurnType : /\ Append(T, e) \in TurnTables
                                  /\ Len(Append(T, e)) = Len(T) + 1
                                  /\ Append(T, e)[Len(T) + 1] = e
                                  /\ \A t \in DOMAIN T : Append(T, e)[t] = T[t]
  <1>1. T \in Seq(TurnType)
    BY DEF TurnTables
  <1>2. Len(T) \in Nat /\ DOMAIN T = 1..Len(T) /\ \A t \in DOMAIN T : T[t] \in TurnType
    BY <1>1
  <1>3. \A t \in DOMAIN T : t \in Nat \ {None}
    BY <1>2 DEF None
  <1>4. \A t \in DOMAIN T : T[t].sess \in Sessions /\ T[t].prompt \in Nat
    BY <1>2 DEF TurnType
  <1>5. ASSUME NEW e \in TurnType
        PROVE  /\ Append(T, e) \in TurnTables
               /\ Len(Append(T, e)) = Len(T) + 1
               /\ Append(T, e)[Len(T) + 1] = e
               /\ \A t \in DOMAIN T : Append(T, e)[t] = T[t]
    BY <1>1, <1>2 DEF TurnTables
  <1> QED BY <1>2, <1>3, <1>4, <1>5

LEMMA SubmittedGrows ==
    ASSUME NEW a \in AppType, NEW b \in AppType, NEW p, Submitted(a, b, p)
    PROVE  /\ [sess |-> a.sel, prompt |-> p] \in TurnType
           /\ Len(b.turns) = Len(a.turns) + 1
           /\ \A t \in DOMAIN a.turns : b.turns[t] = a.turns[t]
           /\ b.turns[Len(a.turns) + 1] = [sess |-> a.sel, prompt |-> p]
           /\ Extends(a.turns, b.turns)
  <1>1. p \in Nat /\ p # None
    BY DEF Submitted, PromptNo
  <1>2. [sess |-> a.sel, prompt |-> p] \in TurnType
    BY <1>1, Fields DEF TurnType
  <1>3. /\ Len(b.turns) = Len(a.turns) + 1
        /\ \A t \in DOMAIN a.turns : b.turns[t] = a.turns[t]
        /\ b.turns[Len(a.turns) + 1] = [sess |-> a.sel, prompt |-> p]
    <2>1. b.turns = Append(a.turns, [sess |-> a.sel, prompt |-> p])
      BY DEF Submitted
    <2>2. a.turns \in TurnTables
      BY Fields
    <2> QED BY <1>2, <2>1, <2>2, TableFacts
  <1>4. Extends(a.turns, b.turns)
    <2>1. Len(a.turns) \in Nat
      BY Fields, TableFacts
    <2> QED BY <1>3, <2>1 DEF Extends
  <1> QED BY <1>2, <1>3, <1>4

LEMMA ExtendsTwice ==
    ASSUME NEW T \in TurnTables, NEW U \in TurnTables, NEW V \in TurnTables,
           Extends(T, U), Extends(U, V)
    PROVE  Extends(T, V) /\ DOMAIN T \subseteq DOMAIN U
  <1>1. /\ Len(T) \in Nat /\ DOMAIN T = 1..Len(T) /\ Len(U) \in Nat /\ DOMAIN U = 1..Len(U)
        /\ Len(V) \in Nat
    BY TableFacts
  <1>2. DOMAIN T \subseteq DOMAIN U
    BY <1>1 DEF Extends
  <1> QED BY <1>1, <1>2 DEF Extends

LEMMA FitFacts ==
    ASSUME NEW a, NEW T, Fit(a, T)
    PROVE  /\ a \in AppType /\ T \in TurnTables
           /\ DOMAIN T \subseteq DOMAIN a.turns
           /\ \A t \in DOMAIN T : /\ t \in Nat \ {None}
                                  /\ TurnSession(a, t) = T[t].sess
                                  /\ TurnSession(a, t) \in Sessions
  <1>1. a \in AppType /\ T \in TurnTables /\ a.turns \in TurnTables /\ Extends(T, a.turns)
    BY Fields DEF Fit
  <1>2. DOMAIN T \subseteq DOMAIN a.turns
    BY <1>1, ExtendsTwice DEF Extends
  <1>3. \A t \in DOMAIN T : t \in Nat \ {None} /\ T[t].sess \in Sessions
    BY <1>1, TableFacts
  <1> QED BY <1>1, <1>2, <1>3 DEF TurnSession, Extends

LEMMA ApartFit ==
    ASSUME NEW a, NEW T, Fit(a, T), NEW b \in AppType, SameLatch(a, b), SameSteers(a, b),
           b.turns = a.turns \/ \E p : Submitted(a, b, p)
    PROVE  Fit(b, T)
  <1>1. Refs(b, T)
    BY DEF Fit, Refs, SameLatch, SameSteers
  <1>2. Extends(T, b.turns)
    <2>1. CASE b.turns = a.turns
      BY <2>1 DEF Fit
    <2>2. CASE \E p : Submitted(a, b, p)
      <3>1. Extends(a.turns, b.turns)
        BY <2>2, SubmittedGrows DEF Fit
      <3> QED BY <3>1, Fields, ExtendsTwice DEF Fit
    <2> QED BY <2>1, <2>2
  <1> QED BY <1>1, <1>2 DEF Fit

LEMMA DrainedFit ==
    ASSUME NEW a, NEW T, Fit(a, T), NEW b \in AppType, Drained(a, b)
    PROVE  Fit(b, T) /\ Plain(a, b) /\ (Silent(a, b) \/ \E p : Submits(a, b, p))
  <1>1. a \in AppType /\ SameLatch(a, b) /\ SameSteers(a, b) /\ b.sel = a.sel
    BY DEF Fit, Drained, Apart
  <1>2. CASE Unsubmitted(a, b)
    BY <1>1, <1>2, ApartFit DEF Plain, Silent, Unsubmitted, SameSteers
  <1>3. CASE \E p : Submitted(a, b, p) /\ ~DrainBlocked(a) /\ b.run = "working"
    <2> PICK p : Submitted(a, b, p) /\ ~DrainBlocked(a) /\ b.run = "working"
      BY <1>3
    <2>1. Live(b) = None
      BY <1>1 DEF DrainBlocked, Live, SameLatch
    <2>2. Submits(a, b, p)
      BY <1>1, <2>1 DEF Submits, Submitted
    <2>3. Plain(a, b)
      BY <1>1, <2>2 DEF Plain, SameSteers
    <2> QED BY <1>1, <2>2, <2>3, ApartFit
  <1> QED BY <1>2, <1>3 DEF Drained

LEMMA ProbedFit ==
    ASSUME NEW a, NEW T, Fit(a, T), NEW b \in AppType, Probed(a, b)
    PROVE  Fit(b, T) /\ Plain(a, b)
  <1>1. Asks(a, b)
    BY FitFacts, Fields DEF Probed, Asks, None
  <1> QED BY <1>1, ApartFit DEF Probed, Apart, Plain, SameSteers

LEMMA ResetFit ==
    ASSUME NEW a, NEW T, Fit(a, T), NEW b \in AppType, Reset(a, b)
    PROVE  Fit(b, T) /\ Plain(a, b)
  <1> PICK c \in AppType : Cleared(a, c) /\ Drained(c, b)
    BY DEF Reset
  <1>1. Fit(c, T) /\ Silent(a, c)
    BY ApartFit DEF Cleared, Apart, Unsubmitted, Silent, SameSteers
  <1> QED BY <1>1, DrainedFit, SilentThen

LEMMA PromptFit ==
    ASSUME NEW a, NEW T, Fit(a, T), NEW p \in PromptNo
    PROVE  LET b == Prompt(a, p) IN Fit(b, T) /\ (Plain(a, b) \/ Steered(a, b, p))
  <1> DEFINE b == Prompt(a, p)
  <1>0. a \in AppType
    BY FitFacts
  <1>1. b \in AppType /\ (Steered(a, b, p) \/ Staged(a, b, p) \/ Sends(a, b, p))
    BY <1>0, PromptData
  <1> HIDE DEF b
  <1>2. CASE Steered(a, b, p)
    <2>1. Live(a) \in DOMAIN T
      BY <1>0, <1>2, Fields DEF Steered, Live, Fit, Refs
    <2>2. a.stash \in Seq(SteerType)
      BY <1>0, Fields DEF Stashes
    <2> DEFINE e == [turn |-> Live(a), prompt |-> p]
    <2>3. b.stash = Append(a.stash, e) /\ e.turn \in DOMAIN T
      BY <1>2, <2>1 DEF Steered
    <2> HIDE DEF e
    <2>4. \A i \in DOMAIN b.stash : b.stash[i].turn \in DOMAIN T
      <3>1. \A i \in DOMAIN b.stash : \/ i \in DOMAIN a.stash /\ b.stash[i] = a.stash[i]
                                      \/ b.stash[i] = e
        BY <2>2, <2>3
      <3> QED BY <2>3, <3>1 DEF Fit, Refs
    <2>5. Refs(b, T)
      BY <1>2, <2>4 DEF Fit, Refs, Steered, SameLatch
    <2> QED BY <1>1, <1>2, <2>5 DEF Fit, Steered, b
  <1>3. CASE Staged(a, b, p)
    BY <1>1, <1>3, ApartFit DEF Staged, Apart, Unsubmitted, Plain, SameSteers, b
  <1>4. CASE Sends(a, b, p)
    <2>1. Submits(a, b, p)
      BY <1>4 DEF Sends, Submits, Submitted, Apart, TurnInProgress, Live, SameLatch
    <2> QED BY <1>1, <1>4, <2>1, ApartFit DEF Sends, Apart, Plain, SameSteers, b
  <1> QED BY <1>1, <1>2, <1>3, <1>4

LEMMA InterruptFit ==
    ASSUME NEW a, NEW T, Fit(a, T)
    PROVE  LET b == Interrupt(a) IN Fit(b, T) /\ Plain(a, b)
  <1> DEFINE b == Interrupt(a)
  <1>0. a \in AppType
    BY FitFacts
  <1>1. /\ b \in AppType
        /\ Stopped(a, b) \/ b = a \/ (Phantom(a) /\ (Probed(a, b) \/ Reset(a, b)))
    BY <1>0, InterruptData
  <1> HIDE DEF b
  <1>2. CASE Stopped(a, b)
    <2>1. Live(a) \in Nat /\ a.sel \in Sessions
      BY <1>0, Fields DEF Live, Marks
    <2>2. Asks(a, b)
      BY <1>2, <2>1 DEF Stopped, Asks
    <2>3. Plain(a, b)
      BY <1>2, <2>2 DEF Plain, Stopped, SameSteers
    <2> QED BY <1>1, <1>2, <2>3, ApartFit DEF Stopped, b
  <1>3. CASE b = a
    BY <1>3 DEF Plain, Unsubmitted, b
  <1>4. CASE Probed(a, b) \/ Reset(a, b)
    BY <1>1, <1>4, ProbedFit, ResetFit DEF b
  <1> QED BY <1>1, <1>2, <1>3, <1>4

LEMMA SwitchFit ==
    ASSUME NEW a, NEW T, Fit(a, T), NEW s \in Sessions
    PROVE  LET b == Switch(a, s) IN Fit(b, T) /\ Plain(a, b)
  <1> DEFINE b == Switch(a, s)
  <1>1. a \in AppType
    BY FitFacts
  <1>2. b \in AppType /\ \E c \in AppType : Moved(a, c, s) /\ Drained(c, b)
    BY <1>1, SwitchData
  <1> HIDE DEF b
  <1> PICK c \in AppType : Moved(a, c, s) /\ Drained(c, b)
    BY <1>2
  <1>3. Fit(c, T) /\ Silent(a, c)
    BY ApartFit DEF Moved, Unsubmitted, Silent, SameSteers
  <1> QED BY <1>2, <1>3, DrainedFit, SilentThen DEF b

LEMMA TickFit ==
    ASSUME NEW a, NEW T, Fit(a, T), NEW due
    PROVE  LET b == TickOf(a, due) IN Fit(b, T) /\ Plain(a, b)
  <1> DEFINE c == Drain(a)
             b == Watchdog(c, due)
  <1>1. a \in AppType
    BY FitFacts
  <1>2. c \in AppType /\ Drained(a, c)
    BY <1>1, DrainData
  <1>3. TickOf(a, due) = b
    BY DEF TickOf
  <1> HIDE DEF c
  <1>4. /\ b \in AppType
        /\ Quiet(c, b) \/ (Phantom(c) /\ (Probed(c, b) \/ Reset(c, b)))
    BY <1>2, WatchdogData
  <1> HIDE DEF b
  <1>5. Fit(c, T) /\ Plain(a, c) /\ (Silent(a, c) \/ \E p : Submits(a, c, p))
    BY <1>2, DrainedFit
  <1>6. CASE Quiet(c, b)
    <2>1. Fit(b, T)
      BY <1>4, <1>5, <1>6, ApartFit DEF Quiet, Apart, Unsubmitted
    <2>2. Plain(a, b)
      <3>1. Live(b) = Live(c)
        BY <1>6 DEF Quiet, Apart, SameLatch, Live
      <3> QED BY <1>5, <1>6, <3>1 DEF Quiet, Apart, Unsubmitted, Plain, Asks, Submits, SameSteers
    <2> QED BY <1>3, <2>1, <2>2
  <1>7. CASE Phantom(c) /\ (Probed(c, b) \/ Reset(c, b))
    <2>1. Fit(b, T) /\ Plain(c, b)
      BY <1>4, <1>5, <1>7, ProbedFit, ResetFit
    <2>2. ~(\E p : Submits(a, c, p))
      BY <1>7 DEF Submits, Phantom
    <2> QED BY <1>3, <1>5, <2>1, <2>2, SilentThen
  <1> QED BY <1>4, <1>6, <1>7

LEMMA BoundFit ==
    ASSUME NEW a, NEW T, Fit(a, T), NEW t \in DOMAIN T, NEW b \in AppType, Bound(a, b, t)
    PROVE  Fit(b, T) /\ Plain(a, b)
  <1>1. /\ a \in AppType /\ TurnSession(a, t) = T[t].sess /\ TurnSession(a, t) \in Sessions
    BY FitFacts
  <1>2. \A x \in Sessions : b.live[x] = IF x = TurnSession(a, t) THEN t ELSE a.live[x]
    BY <1>1, Fields DEF Bound, Marks
  <1>3. b.done \cup b.switched \subseteq DOMAIN T
    BY <1>1 DEF Bound, Fit, Refs
  <1>4. Refs(b, T)
    BY <1>1, <1>2, <1>3 DEF Bound, Fit, Refs, SameSteers
  <1> QED BY <1>4 DEF Fit, Bound, Unsubmitted, Plain, SameSteers

LEMMA StartedFit ==
    ASSUME NEW a, NEW T, Fit(a, T), NEW t \in DOMAIN T
    PROVE  LET b == Started(a, t) IN Fit(b, T) /\ Plain(a, b)
  <1> DEFINE b == Started(a, t)
  <1>1. a \in AppType /\ t \in Nat \ {None} /\ TurnSession(a, t) \in Sessions
    BY FitFacts
  <1>2. b \in AppType /\ (b = a \/ Opened(a, b, t))
    BY <1>1, StartedData
  <1> HIDE DEF b
  <1> QED BY <1>2, BoundFit DEF Opened, Plain, Unsubmitted, b

LEMMA DeltaFit ==
    ASSUME NEW a, NEW T, Fit(a, T), NEW t \in DOMAIN T
    PROVE  LET b == Delta(a, t) IN Fit(b, T) /\ Plain(a, b)
  <1> DEFINE b == Delta(a, t)
  <1>1. a \in AppType /\ t \in Nat \ {None} /\ TurnSession(a, t) \in Sessions
    BY FitFacts
  <1>2. b \in AppType /\ (b = a \/ Withheld(a, b) \/ Bound(a, b, t))
    BY <1>1, DeltaData
  <1> HIDE DEF b
  <1>3. CASE Withheld(a, b)
    BY <1>2, <1>3, ApartFit DEF Withheld, Unsubmitted, Plain, SameSteers, b
  <1> QED BY <1>2, <1>3, BoundFit DEF Plain, Unsubmitted, b

LEMMA ToolFit ==
    ASSUME NEW a, NEW T, Fit(a, T), NEW t
    PROVE  LET b == Tool(a, t) IN Fit(b, T) /\ Plain(a, b)
  <1> DEFINE b == Tool(a, t)
  <1>1. b \in AppType /\ Apart(a, b) /\ Unsubmitted(a, b)
    BY FitFacts, ToolData
  <1> HIDE DEF b
  <1> QED BY <1>1, ApartFit DEF Apart, Unsubmitted, Plain, SameSteers, b

(* Fewer retained steers, and fewer latched turns, name fewer turns. *)
LEMMA FewerFit ==
    ASSUME NEW a, NEW T, Fit(a, T), NEW b \in AppType, Unsubmitted(a, b),
           b.stash = a.stash, RetainedFrom(a, b),
           \A x \in Sessions : b.live[x] \in {None, a.live[x]},
           b.switched \subseteq a.switched, b.done \subseteq DOMAIN T
    PROVE  Fit(b, T)
  <1>1. \A i \in DOMAIN b.retained : b.retained[i].turn \in DOMAIN T
    BY DEF Fit, Refs, RetainedFrom
  <1>2. Refs(b, T)
    BY <1>1 DEF Fit, Refs
  <1> QED BY <1>2 DEF Fit, Unsubmitted

LEMMA ConcludedFit ==
    ASSUME NEW a, NEW T, Fit(a, T), NEW t \in DOMAIN T, NEW b \in AppType, Concluded(a, b, t)
    PROVE  Fit(b, T) /\ Plain(a, b)
  <1> PICK c \in AppType : Finished(a, c, t) /\ (b = c \/ Drained(c, b))
    BY DEF Concluded
  <1>1. a \in AppType /\ TurnSession(a, t) \in Sessions
    BY FitFacts
  <1>2. \A x \in Sessions : c.live[x] \in {None, a.live[x]}
    BY <1>1, Fields DEF Finished, SameLatch, Marks
  <1>3. c.switched \subseteq a.switched /\ c.done \subseteq DOMAIN T
    BY DEF Finished, SameLatch, Fit, Refs
  <1>4. Fit(c, T) /\ Silent(a, c)
    BY <1>2, <1>3, FewerFit DEF Finished, Silent
  <1>5. CASE b = c
    BY <1>4, <1>5 DEF Plain, Silent
  <1> QED BY <1>4, <1>5, DrainedFit, SilentThen

LEMMA CommitFit ==
    ASSUME NEW a, NEW T, Fit(a, T), NEW t \in DOMAIN T,
           NEW outcome \in {"success", "error", "idle"}
    PROVE  LET b == Commit(a, t, outcome) IN Fit(b, T) /\ Plain(a, b)
  BY FitFacts, CommitData, ConcludedFit

LEMMA FailFit ==
    ASSUME NEW a, NEW T, Fit(a, T), NEW t \in DOMAIN T, NEW interrupt
    PROVE  LET b == Fail(a, t, interrupt) IN Fit(b, T) /\ Plain(a, b)
  BY FitFacts, FailData, ConcludedFit

LEMMA ReturnedFit ==
    ASSUME NEW a, NEW T, Fit(a, T), NEW b \in AppType, Returned(a, b)
    PROVE  Fit(b, T) /\ Plain(a, b) /\ Silent(a, b)
  <1>1. b.done \subseteq DOMAIN T
    BY DEF Returned, SameLatch, Fit, Refs
  <1> QED BY <1>1, FewerFit DEF Returned, SameLatch, Plain, Silent

(* An answered steer leaves the stash; it is retained or not. *)
LEMMA PoppedFit ==
    ASSUME NEW a, NEW T, Fit(a, T), NEW b \in AppType, Popped(a, b), a.stash # <<>>,
           b.retained \in {a.retained, Append(a.retained, Head(a.stash))}
    PROVE  Fit(b, T)
  <1>1. a.stash \in Seq(SteerType) /\ a.retained \in Seq(SteerType)
    BY FitFacts, Fields DEF Stashes
  <1>2. Head(a.stash) = a.stash[1] /\ 1 \in DOMAIN a.stash
    BY <1>1
  <1>3. \A i \in DOMAIN b.stash : i + 1 \in DOMAIN a.stash /\ b.stash[i] = a.stash[i + 1]
    BY <1>1 DEF Popped
  <1>4. \A i \in DOMAIN b.retained : \/ i \in DOMAIN a.retained /\ b.retained[i] = a.retained[i]
                                     \/ b.retained[i] = Head(a.stash)
    <2>1. CASE b.retained = a.retained
      BY <2>1
    <2> DEFINE e == Head(a.stash)
    <2>2. e \in SteerType
      BY <1>1
    <2> HIDE DEF e
    <2>3. ASSUME b.retained = Append(a.retained, e)
          PROVE  \A i \in DOMAIN b.retained : \/ i \in DOMAIN a.retained /\ b.retained[i] = a.retained[i]
                                              \/ b.retained[i] = e
      BY <1>1, <2>2, <2>3
    <2> QED BY <2>1, <2>3 DEF e
  <1>5. Refs(b, T)
    BY <1>2, <1>3, <1>4 DEF Fit, Refs, Popped, SameLatch
  <1> QED BY <1>5 DEF Fit, Popped, Unsubmitted

LEMMA BackedOffFit ==
    ASSUME NEW a, NEW T, Fit(a, T), NEW b \in AppType, NEW ss, BackedOff(a, b, ss)
    PROVE  Fit(b, T) /\ Plain(a, b)
  BY ApartFit DEF BackedOff, Apart, Unsubmitted, Plain, SameSteers

LEMMA FailedFit ==
    ASSUME NEW a, NEW T, Fit(a, T)
    PROVE  LET b == Failed(a) IN Fit(b, T) /\ Plain(a, b)
  <1> DEFINE b == Failed(a)
  <1>1. b \in AppType /\ Apart(a, b) /\ Unsubmitted(a, b)
    BY FitFacts, FailedData
  <1> HIDE DEF b
  <1> QED BY <1>1, ApartFit DEF Apart, Unsubmitted, Plain, SameSteers, b

LEMMA RelaunchedFit ==
    ASSUME NEW a, NEW T, Fit(a, T)
    PROVE  LET b == Relaunched(a) IN Fit(b, T) /\ Plain(a, b)
  <1> DEFINE b == Relaunched(a)
  <1>1. a \in AppType
    BY FitFacts
  <1>2. b \in AppType /\ \E c \in AppType : Reconciled(a, c) /\ Drains(c, b)
    BY <1>1, RelaunchedData
  <1> HIDE DEF b
  <1> PICK c \in AppType : Reconciled(a, c) /\ Drains(c, b)
    BY <1>2
  <1>3. DeadTurns(a) \subseteq DOMAIN T
    BY DEF DeadTurns, LatchedOpen, Latched, Fit, Refs
  <1>4. \A x \in Sessions : c.live[x] \in {None, a.live[x]}
    BY DEF Reconciled
  <1>5. c.switched \subseteq a.switched /\ c.done \subseteq DOMAIN T
    BY <1>3 DEF Reconciled, Fit, Refs
  <1>6. Fit(c, T) /\ Silent(a, c)
    BY <1>4, <1>5, FewerFit DEF Reconciled, Silent
  <1> PICK d \in AppType, e \in AppType :
        /\ d = c \/ Drained(c, d)
        /\ \/ b = d /\ d.out # c.out
           \/ d.out = c.out /\ Drained(e, b) /\ Apart(d, e) /\ Unsubmitted(d, e)
    BY DEF Drains
  <1>7. Fit(d, T) /\ Plain(a, d) /\ (Silent(a, d) \/ \E p : Submits(c, d, p))
    <2>1. CASE d = c
      BY <1>6, <2>1 DEF Plain, Silent
    <2>2. CASE Drained(c, d)
      BY <1>6, <2>2, DrainedFit, SilentThen DEF Silent, Unsubmitted
    <2> QED BY <2>1, <2>2
  <1>8. CASE b = d
    BY <1>7, <1>8 DEF b
  <1>9. CASE d.out = c.out /\ Drained(e, b) /\ Apart(d, e) /\ Unsubmitted(d, e)
    <2>1. ~(\E p : Submits(c, d, p))
      <3> SUFFICES ASSUME NEW p, Submits(c, d, p) PROVE FALSE
        OBVIOUS
      <3> DEFINE x == Cmd("start", d.sel, Len(c.turns) + 1, p)
      <3>1. d.out = Append(c.out, x)
        BY DEF Submits
      <3> HIDE DEF x
      <3>2. c.out \in Seq(CmdType)
        BY Fields DEF Outputs
      <3>3. Len(d.out) = Len(c.out) + 1 /\ Len(c.out) \in Nat
        BY <3>1, <3>2
      <3> QED BY <1>9, <3>3
    <2>2. Fit(e, T) /\ Silent(a, e)
      BY <1>7, <1>9, <2>1, ApartFit DEF Apart, Unsubmitted, Silent, SameSteers
    <2> QED BY <1>2, <1>9, <2>2, DrainedFit, SilentThen DEF b
  <1> QED BY <1>8, <1>9

LEMMA RefreshFit ==
    ASSUME NEW a, NEW T, Fit(a, T), NEW s \in Sessions, NEW t \in Nat
    PROVE  LET b == Refresh(a, s, t) IN Fit(b, T) /\ Plain(a, b)
  <1> DEFINE b == Refresh(a, s, t)
  <1>1. a \in AppType
    BY FitFacts
  <1>2. b \in AppType /\ Refreshed(a, b, s)
    BY <1>1, RefreshData
  <1> HIDE DEF b
  <1>3. Unsubmitted(a, b) \/ (b.turns = a.turns /\ Asks(a, b))
    BY <1>2 DEF Refreshed, Asks, Unsubmitted, None
  <1> QED BY <1>2, <1>3, ApartFit DEF Refreshed, Apart, Plain, SameSteers, b

LEMMA StaleFit ==
    ASSUME NEW a, NEW T, Fit(a, T), NEW s \in Sessions, NEW b \in AppType, NEW ended,
           Stale(a, b, s, ended), None \notin ended
    PROVE  Fit(b, T) /\ Plain(a, b) /\ (Silent(a, b) \/ ~Phantom(b))
  <1>1. CASE b = a
    BY <1>1 DEF Plain, Silent, Unsubmitted
  <1>2. CASE a.live[s] \in ended /\ \E c \in AppType : Finalized(a, c, s) /\ Drained(c, b)
    <2> PICK c \in AppType : Finalized(a, c, s) /\ Drained(c, b)
      BY <1>2
    <2>1. a.live[s] \in DOMAIN T
      BY <1>2 DEF Fit, Refs
    <2>2. a \in AppType
      BY FitFacts
    <2>3. \A x \in Sessions : c.live[x] \in {None, a.live[x]}
      BY <2>2, Fields DEF Finalized, Marks
    <2>4. c.switched \subseteq a.switched /\ c.done \subseteq DOMAIN T
      BY <2>1 DEF Finalized, Fit, Refs
    <2>5. c.stash = a.stash /\ RetainedFrom(a, c)
      BY DEF Finalized, SameSteers, RetainedFrom
    <2>6. Fit(c, T) /\ Silent(a, c)
      BY <2>3, <2>4, <2>5, FewerFit DEF Finalized, Silent, SameSteers
    <2>7. Fit(b, T) /\ Plain(c, b) /\ (Silent(c, b) \/ \E p : Submits(c, b, p))
      BY <2>6, DrainedFit
    <2> QED BY <2>6, <2>7, SilentThen DEF Silent, Unsubmitted, Submits, Phantom
  <1> QED BY <1>1, <1>2 DEF Stale

LEMMA HydratedFit ==
    ASSUME NEW a, NEW T, Fit(a, T), NEW s \in Sessions, NEW ended, None \notin ended,
           NEW active, NEW landed
    PROVE  LET b == Hydrated(a, s, ended, active, landed) IN Fit(b, T) /\ Plain(a, b)
  <1> DEFINE b == Hydrated(a, s, ended, active, landed)
  <1>1. /\ b \in AppType
        /\ \E c \in AppType, d \in AppType :
              Landed(a, c) /\ Stale(c, d, s, ended) /\ (b = d \/ (Phantom(d) /\ Reset(d, b)))
    BY FitFacts, HydratedData
  <1> HIDE DEF b
  <1> PICK c \in AppType, d \in AppType :
              Landed(a, c) /\ Stale(c, d, s, ended) /\ (b = d \/ (Phantom(d) /\ Reset(d, b)))
    BY <1>1
  <1>2. Fit(c, T) /\ Silent(a, c)
    BY ReturnedFit DEF Landed
  <1>3. Fit(d, T) /\ Plain(c, d) /\ (Silent(c, d) \/ ~Phantom(d))
    BY <1>2, StaleFit
  <1>4. CASE b = d
    BY <1>2, <1>3, <1>4, SilentThen DEF b
  <1>5. CASE Phantom(d) /\ Reset(d, b)
    BY <1>1, <1>2, <1>3, <1>5, ResetFit, SilentThen DEF b
  <1> QED BY <1>4, <1>5

-----------------------------------------------------------------------------
(* The steers under way: those of the cancellations to be read, and those   *)
(* the transport holds.                                                     *)

SteersOf(q) == Entries(q, {i \in DOMAIN q : q[i].kind = "steer"})
CmdsOf(q) == [i \in DOMAIN q |-> q[i].cmd]
UnderWay(ib, w) == SteersOf(CmdsOf(ib)) \o SteersOf(w)

LEMMA SteersType == \A q \in Seq(CmdType) : SteersOf(q) \in Seq(CmdType)
  <1> SUFFICES ASSUME NEW q \in Seq(CmdType) PROVE SteersOf(q) \in Seq(CmdType)
    OBVIOUS
  <1> DEFINE kept == {i \in DOMAIN q : q[i].kind = "steer"}
  <1>1. kept \in SUBSET DOMAIN q /\ SteersOf(q) = Entries(q, kept)
    BY DEF SteersOf
  <1> HIDE DEF kept
  <1> QED BY <1>1, EntriesData

LEMMA SteersAppend ==
    ASSUME NEW q \in Seq(CmdType), NEW c \in CmdType
    PROVE  /\ SteersOf(q) \in Seq(CmdType)
           /\ c.kind = "steer" => SteersOf(Append(q, c)) = Append(SteersOf(q), c)
           /\ c.kind # "steer" => SteersOf(Append(q, c)) = SteersOf(q)
  <1> DEFINE kept == {i \in DOMAIN q : q[i].kind = "steer"}
             more == {i \in DOMAIN Append(q, c) : Append(q, c)[i].kind = "steer"}
  <1>1. /\ DOMAIN q = 1..Len(q) /\ Len(q) \in Nat
        /\ DOMAIN Append(q, c) = 1..(Len(q) + 1)
        /\ Append(q, c)[Len(q) + 1] = c /\ \A i \in 1..Len(q) : Append(q, c)[i] = q[i]
    OBVIOUS
  <1>2. kept \in SUBSET DOMAIN q
    OBVIOUS
  <1>3. c.kind = "steer" => more = kept \cup {Len(q) + 1}
    BY <1>1
  <1>4. c.kind # "steer" => more = kept
    BY <1>1
  <1>5. SteersOf(q) = Entries(q, kept) /\ SteersOf(Append(q, c)) = Entries(Append(q, c), more)
    BY DEF SteersOf
  <1> HIDE DEF kept, more
  <1>6. SteersOf(q) \in Seq(CmdType)
    BY SteersType
  <1>7. /\ Entries(Append(q, c), kept) = Entries(q, kept)
        /\ Entries(Append(q, c), kept \cup {Len(q) + 1}) = Append(Entries(q, kept), c)
    BY <1>2, EntriesAppend
  <1> QED BY <1>3, <1>4, <1>5, <1>6, <1>7

LEMMA SteersTail ==
    ASSUME NEW q \in Seq(CmdType), q # <<>>
    PROVE  /\ Head(q).kind = "steer" => /\ SteersOf(q) # <<>> /\ Head(SteersOf(q)) = Head(q)
                                        /\ SteersOf(Tail(q)) = Tail(SteersOf(q))
           /\ Head(q).kind # "steer" => SteersOf(Tail(q)) = SteersOf(q)
  <1> DEFINE kept == {i \in DOMAIN q : q[i].kind = "steer"}
             rest == {i \in DOMAIN Tail(q) : Tail(q)[i].kind = "steer"}
  <1>1. /\ DOMAIN q = 1..Len(q) /\ Len(q) \in Nat /\ Len(q) >= 1 /\ Head(q) = q[1]
        /\ DOMAIN Tail(q) = 1..(Len(q) - 1)
        /\ \A i \in 1..(Len(q) - 1) : Tail(q)[i] = q[i + 1]
    OBVIOUS
  <1>2. kept \in SUBSET DOMAIN q
    OBVIOUS
  <1>3. rest = {i \in DOMAIN Tail(q) : i + 1 \in kept}
    BY <1>1
  <1>4. (1 \in kept) <=> (Head(q).kind = "steer")
    BY <1>1
  <1>5. SteersOf(q) = Entries(q, kept) /\ SteersOf(Tail(q)) = Entries(Tail(q), rest)
    BY DEF SteersOf
  <1>6. SteersOf(q) \in Seq(CmdType)
    BY SteersType
  <1> HIDE DEF kept, rest
  <1>7. CASE Head(q).kind = "steer"
    <2>1. SteersOf(q) # <<>> /\ SteersOf(q)[1] = q[1] /\ SteersOf(Tail(q)) = Tail(SteersOf(q))
      BY <1>2, <1>3, <1>4, <1>5, <1>7, EntriesTail
    <2> QED BY <1>1, <1>6, <1>7, <2>1
  <1>8. CASE Head(q).kind # "steer"
    BY <1>2, <1>3, <1>4, <1>5, <1>8, EntriesTail
  <1> QED BY <1>7, <1>8

LEMMA SteersNone == SteersOf(<<>>) = <<>> /\ CmdsOf(<<>>) = <<>>
  <1>1. {i \in DOMAIN <<>> : <<>>[i].kind = "steer"} = {}
    OBVIOUS
  <1>2. SteersOf(<<>>) = Entries(<<>>, {})
    BY <1>1 DEF SteersOf
  <1>3. Cardinality({}) = 0
    BY FS_EmptySet
  <1>4. Entries(<<>>, {}) = <<>>
    BY <1>3 DEF Entries
  <1>5. SteersOf(<<>>) = <<>>
    BY <1>2, <1>4
  <1>6. CmdsOf(<<>>) = <<>>
    BY DEF CmdsOf
  <1> QED BY <1>5, <1>6

LEMMA CmdsData ==
    ASSUME NEW q \in Seq(EventType)
    PROVE  /\ CmdsOf(q) \in Seq(CmdType)
           /\ q # <<>> => /\ CmdsOf(q) # <<>> /\ Head(CmdsOf(q)) = Head(q).cmd
                          /\ Tail(q) \in Seq(EventType)
                          /\ CmdsOf(Tail(q)) = Tail(CmdsOf(q))
           /\ \A e \in EventType : CmdsOf(Append(q, e)) = Append(CmdsOf(q), e.cmd)
  <1>0. Len(q) \in Nat /\ DOMAIN q = 1..Len(q) /\ \A i \in DOMAIN q : q[i] \in EventType
    OBVIOUS
  <1>1. Len(q) \in Nat /\ DOMAIN q = 1..Len(q) /\ \A i \in DOMAIN q : q[i].cmd \in CmdType
    BY <1>0 DEF EventType
  <1>2. /\ CmdsOf(q) \in Seq(CmdType) /\ Len(CmdsOf(q)) = Len(q)
        /\ \A i \in 1..Len(q) : CmdsOf(q)[i] = q[i].cmd
    BY <1>1 DEF CmdsOf
  <1>3. ASSUME q # <<>>
        PROVE  /\ CmdsOf(q) # <<>> /\ Head(CmdsOf(q)) = Head(q).cmd
               /\ Tail(q) \in Seq(EventType) /\ CmdsOf(Tail(q)) = Tail(CmdsOf(q))
    <2>1. /\ Len(q) >= 1 /\ Tail(q) \in Seq(EventType) /\ Len(Tail(q)) = Len(q) - 1
          /\ \A i \in 1..(Len(q) - 1) : Tail(q)[i] = q[i + 1]
      BY <1>1, <1>3
    <2>2. CmdsOf(q) # <<>>
      BY <1>2, <2>1
    <2>3. /\ Tail(CmdsOf(q)) \in Seq(CmdType) /\ Len(Tail(CmdsOf(q))) = Len(q) - 1
          /\ \A i \in 1..(Len(q) - 1) : Tail(CmdsOf(q))[i] = CmdsOf(q)[i + 1]
      BY <1>2, <2>2, HeadTailProperties
    <2>4. Head(CmdsOf(q)) = Head(q).cmd
      BY <1>2, <1>3, <2>1, <2>2
    <2>5. /\ CmdsOf(Tail(q)) \in Seq(CmdType) /\ Len(CmdsOf(Tail(q))) = Len(q) - 1
          /\ \A i \in 1..(Len(q) - 1) : CmdsOf(Tail(q))[i] = q[i + 1].cmd
      <3>1. \A i \in 1..(Len(q) - 1) : q[i + 1].cmd \in CmdType
        BY <1>1, <2>1
      <3>2. DOMAIN Tail(q) = 1..(Len(q) - 1) /\ Len(q) - 1 \in Nat
        BY <1>1, <2>1
      <3>3. CmdsOf(Tail(q)) = [i \in 1..(Len(q) - 1) |-> q[i + 1].cmd]
        BY <2>1, <3>2 DEF CmdsOf
      <3> QED BY <3>1, <3>2, <3>3
    <2>6. \A i \in 1..(Len(q) - 1) : CmdsOf(q)[i + 1] = q[i + 1].cmd
      BY <1>1, <1>2
    <2>7. CmdsOf(Tail(q)) = Tail(CmdsOf(q))
      BY <2>3, <2>5, <2>6, SeqEqual
    <2> QED BY <2>1, <2>2, <2>4, <2>7
  <1>4. ASSUME NEW e \in EventType
        PROVE  CmdsOf(Append(q, e)) = Append(CmdsOf(q), e.cmd)
    <2>1. e.cmd \in CmdType
      BY DEF EventType
    <2>2. /\ Append(CmdsOf(q), e.cmd) \in Seq(CmdType)
          /\ Len(Append(CmdsOf(q), e.cmd)) = Len(q) + 1
          /\ \A i \in 1..Len(q) : Append(CmdsOf(q), e.cmd)[i] = q[i].cmd
          /\ Append(CmdsOf(q), e.cmd)[Len(q) + 1] = e.cmd
      BY <1>2, <2>1, AppendProperties
    <2>3. /\ Append(q, e) \in Seq(EventType) /\ Len(Append(q, e)) = Len(q) + 1
          /\ \A i \in 1..Len(q) : Append(q, e)[i] = q[i]
      BY AppendProperties
    <2>4. DOMAIN Append(q, e) = 1..(Len(q) + 1)
      BY <2>3
    <2>5. Append(q, e)[Len(q) + 1] = e
      BY AppendProperties
    <2>6. \A i \in 1..(Len(q) + 1) : Append(q, e)[i].cmd = Append(CmdsOf(q), e.cmd)[i]
      BY <1>1, <2>2, <2>3, <2>5
    <2>7. \A i \in 1..(Len(q) + 1) : Append(q, e)[i].cmd \in CmdType
      <3>1. \A i \in 1..(Len(q) + 1) : Append(q, e)[i] \in EventType
        BY <2>3, <2>4
      <3> QED BY <3>1 DEF EventType
    <2>8. /\ CmdsOf(Append(q, e)) \in Seq(CmdType) /\ Len(CmdsOf(Append(q, e))) = Len(q) + 1
          /\ \A i \in 1..(Len(q) + 1) : CmdsOf(Append(q, e))[i] = Append(q, e)[i].cmd
      BY <1>1, <2>4, <2>7 DEF CmdsOf
    <2> QED BY <2>2, <2>6, <2>8, SeqEqual
  <1> QED BY <1>2, <1>3, <1>4

LEMMA UnderWayData ==
    ASSUME NEW ib \in Seq(EventType), NEW w \in Seq(CmdType)
    PROVE  /\ UnderWay(ib, w) \in Seq(CmdType)
           /\ \A c \in CmdType :
                 UnderWay(ib, Append(w, c)) =
                    IF c.kind = "steer" THEN Append(UnderWay(ib, w), c) ELSE UnderWay(ib, w)
           /\ \A e \in EventType :
                 e.cmd.kind # "steer" => UnderWay(Append(ib, e), w) = UnderWay(ib, w)
  <1>1. CmdsOf(ib) \in Seq(CmdType)
    BY CmdsData
  <1>2. SteersOf(CmdsOf(ib)) \in Seq(CmdType) /\ SteersOf(w) \in Seq(CmdType)
    BY <1>1, SteersType
  <1>3. UnderWay(ib, w) \in Seq(CmdType)
    BY <1>2, ConcatProperties DEF UnderWay
  <1>4. ASSUME NEW c \in CmdType
        PROVE  UnderWay(ib, Append(w, c)) =
                  IF c.kind = "steer" THEN Append(UnderWay(ib, w), c) ELSE UnderWay(ib, w)
    <2> DEFINE x == SteersOf(CmdsOf(ib))
               y == SteersOf(w)
    <2>1. UnderWay(ib, w) = x \o y /\ UnderWay(ib, Append(w, c)) = x \o SteersOf(Append(w, c))
      BY DEF UnderWay
    <2>2. SteersOf(Append(w, c)) = IF c.kind = "steer" THEN Append(y, c) ELSE y
      BY SteersAppend
    <2> HIDE DEF x, y
    <2>3. x \in Seq(CmdType) /\ y \in Seq(CmdType)
      BY <1>2 DEF x, y
    <2>4. x \o Append(y, c) = Append(x \o y, c)
      <3>1. Append(y, c) \in Seq(CmdType) /\ x \o y \in Seq(CmdType)
        BY <2>3, ConcatProperties
      <3>2. /\ Len(x \o Append(y, c)) = Len(x) + Len(y) + 1
            /\ Len(x) \in Nat /\ Len(y) \in Nat
            /\ x \o Append(y, c) \in Seq(CmdType)
        BY <2>3, <3>1, ConcatProperties, AppendProperties
      <3>3. Len(Append(x \o y, c)) = Len(x) + Len(y) + 1 /\ Append(x \o y, c) \in Seq(CmdType)
        BY <2>3, <3>1, ConcatProperties, AppendProperties
      <3>4. \A i \in 1..(Len(x) + Len(y) + 1) : (x \o Append(y, c))[i] = Append(x \o y, c)[i]
        BY <2>3, <3>2
      <3> QED BY <3>2, <3>3, <3>4, SeqEqual
    <2> QED BY <2>1, <2>2, <2>4
  <1>5. ASSUME NEW e \in EventType, e.cmd.kind # "steer"
        PROVE  UnderWay(Append(ib, e), w) = UnderWay(ib, w)
    <2>1. CmdsOf(Append(ib, e)) = Append(CmdsOf(ib), e.cmd) /\ e.cmd \in CmdType
      BY CmdsData DEF EventType
    <2>2. SteersOf(CmdsOf(Append(ib, e))) = SteersOf(CmdsOf(ib))
      BY <1>1, <1>5, <2>1, SteersAppend
    <2> QED BY <2>2 DEF UnderWay
  <1> QED BY <1>3, <1>4, <1>5

(* The oldest of them is answered, or cancelled, first. *)
LEMMA TailOfConcat ==
    ASSUME NEW S, NEW x \in Seq(S), NEW y \in Seq(S), x # <<>>
    PROVE  /\ x \o y # <<>> /\ Head(x \o y) = Head(x)
           /\ Tail(x) \o y = Tail(x \o y)
  <1>1. Len(x) \in Nat /\ Len(y) \in Nat /\ Len(x) >= 1
    OBVIOUS
  <1>2. x \o y \in Seq(S) /\ Len(x \o y) = Len(x) + Len(y)
    BY ConcatProperties
  <1>3. x \o y # <<>>
    BY <1>1, <1>2
  <1>4. Head(x \o y) = Head(x)
    BY <1>1, <1>2, <1>3
  <1>5. Tail(x) \in Seq(S) /\ Len(Tail(x)) = Len(x) - 1
    BY HeadTailProperties
  <1>6. Tail(x) \o y \in Seq(S) /\ Len(Tail(x) \o y) = Len(x) + Len(y) - 1
    BY <1>1, <1>5, ConcatProperties
  <1>7. /\ Tail(x \o y) \in Seq(S) /\ Len(Tail(x \o y)) = Len(x) + Len(y) - 1
        /\ \A i \in 1..(Len(x) + Len(y) - 1) : Tail(x \o y)[i] = (x \o y)[i + 1]
    BY <1>1, <1>2, <1>3, HeadTailProperties
  <1>8. \A i \in 1..(Len(x) + Len(y) - 1) : (Tail(x) \o y)[i] = (x \o y)[i + 1]
    BY <1>1, <1>5, <1>6
  <1> QED BY <1>3, <1>4, <1>6, <1>7, <1>8, SeqEqual

LEMMA UnderWayTail ==
    ASSUME NEW ib \in Seq(EventType), NEW w \in Seq(CmdType)
    PROVE  LET u == UnderWay(ib, w)
           IN  /\ w # <<>> /\ Head(w).kind # "steer" => UnderWay(ib, Tail(w)) = u
               /\ ib = <<>> /\ w # <<>> /\ Head(w).kind = "steer" =>
                     u # <<>> /\ Head(u) = Head(w) /\ UnderWay(ib, Tail(w)) = Tail(u)
               /\ ib # <<>> /\ Head(ib).cmd.kind # "steer" => UnderWay(Tail(ib), w) = u
               /\ ib # <<>> /\ Head(ib).cmd.kind = "steer" =>
                     u # <<>> /\ Head(u) = Head(ib).cmd /\ UnderWay(Tail(ib), w) = Tail(u)
  <1> DEFINE u == UnderWay(ib, w)
  <1>1. CmdsOf(ib) \in Seq(CmdType)
    BY CmdsData
  <1>2. /\ SteersOf(CmdsOf(ib)) \in Seq(CmdType) /\ SteersOf(w) \in Seq(CmdType)
        /\ \A q \in Seq(CmdType) : UnderWay(<<>>, q) = SteersOf(q)
    <2>2. \A q \in Seq(CmdType) : UnderWay(<<>>, q) = SteersOf(q)
      BY SteersType, SteersNone, ConcatEmptySeq DEF UnderWay
    <2> QED BY <1>1, <2>2, SteersType
  <1>3. ASSUME w # <<>>, Head(w).kind # "steer"
        PROVE  UnderWay(ib, Tail(w)) = u
    BY <1>3, SteersTail DEF UnderWay
  <1>4. ASSUME ib = <<>>, w # <<>>, Head(w).kind = "steer"
        PROVE  u # <<>> /\ Head(u) = Head(w) /\ UnderWay(ib, Tail(w)) = Tail(u)
    <2>1. u = SteersOf(w) /\ UnderWay(ib, Tail(w)) = SteersOf(Tail(w))
      BY <1>2, <1>4, HeadTailProperties
    <2> QED BY <1>4, <2>1, SteersTail
  <1>5. ASSUME ib # <<>>, Head(ib).cmd.kind # "steer"
        PROVE  UnderWay(Tail(ib), w) = u
    <2>1. /\ CmdsOf(ib) # <<>> /\ Head(CmdsOf(ib)) = Head(ib).cmd
          /\ CmdsOf(Tail(ib)) = Tail(CmdsOf(ib))
      BY <1>5, CmdsData
    <2>2. SteersOf(Tail(CmdsOf(ib))) = SteersOf(CmdsOf(ib))
      BY <1>1, <1>5, <2>1, SteersTail
    <2> QED BY <2>1, <2>2 DEF UnderWay
  <1>6. ASSUME ib # <<>>, Head(ib).cmd.kind = "steer"
        PROVE  u # <<>> /\ Head(u) = Head(ib).cmd /\ UnderWay(Tail(ib), w) = Tail(u)
    <2> DEFINE x == SteersOf(CmdsOf(ib))
               y == SteersOf(w)
    <2>1. /\ CmdsOf(ib) # <<>> /\ Head(CmdsOf(ib)) = Head(ib).cmd
          /\ CmdsOf(Tail(ib)) = Tail(CmdsOf(ib))
      BY <1>6, CmdsData
    <2>2. /\ x # <<>> /\ Head(x) = Head(CmdsOf(ib))
          /\ SteersOf(Tail(CmdsOf(ib))) = Tail(x)
      BY <1>1, <1>6, <2>1, SteersTail
    <2>3. u = x \o y /\ UnderWay(Tail(ib), w) = Tail(x) \o y
      BY <2>1, <2>2 DEF UnderWay
    <2>4. x \in Seq(CmdType) /\ y \in Seq(CmdType)
      BY <1>2
    <2> HIDE DEF x, y, u
    <2>5. x \o y # <<>> /\ Head(x \o y) = Head(x) /\ Tail(x) \o y = Tail(x \o y)
      BY <2>2, <2>4, TailOfConcat
    <2> QED BY <2>1, <2>2, <2>3, <2>5
  <1> QED BY <1>3, <1>4, <1>5, <1>6

-----------------------------------------------------------------------------
(* The inductive invariant of the types and of the stash, in parts: every   *)
(* value is of its type, every turn anyone names is in the store's table,   *)
(* and each steer under way has an entry of the stash. With BusyBoots, a    *)
(* steer typed while there is no child leaves an entry of its own.          *)

Requests == {"start", "steer", "interrupt", "hydrate"}

SoundCmd(c, T) == c.kind \in Requests /\ (c.kind = "start" => c.turn \in DOMAIN T)

SoundEvent(e) ==
    IF e.event = "cancelled" THEN e.cmd.kind \in Requests ELSE e.cmd.kind = e.event

Match(u, st) == Len(u) <= Len(st) /\ (~BusyBoots => PromptsOf(st) = PromptsOf(u))

Lines(ib, w, T, st) ==
    /\ w \in Seq(CmdType) /\ \A i \in DOMAIN w : SoundCmd(w[i], T)
    /\ ib \in Seq(EventType) /\ \A i \in DOMAIN ib : SoundEvent(ib[i])
    /\ Match(UnderWay(ib, w), st)

StoreSound == Fit(app, app.turns) /\ app.out = <<>> /\ app.steering = server.steering
LinesSound == Lines(inbox, wire, app.turns, app.stash)
ServerSound ==
    /\ accepted \cup running \cup over \subseteq DOMAIN app.turns
    /\ inputs \in Seq([turn : Nat, prompt : Nat])
BudgetSound ==
    /\ link \in {"up", "down", "booting"}
    /\ typed \in Seq(Sessions) /\ answered \subseteq Nat
    /\ server \in Servers /\ faults \in 0..server.faults
    /\ own \in 0..server.own /\ misled \subseteq Misleading

Sound == StoreSound /\ LinesSound /\ ServerSound /\ BudgetSound

LEMMA SoundIsTyped == Sound => TypeOK
  <1> SUFFICES ASSUME Sound PROVE TypeOK
    OBVIOUS
  <1>1. app \in AppType /\ app.turns \in TurnTables
    BY DEF Sound, StoreSound, Fit
  <1>2. \A t \in DOMAIN app.turns : t \in Nat
    BY <1>1, TableFacts
  <1>3. accepted \cup running \cup over \subseteq Nat
    BY <1>2 DEF Sound, ServerSound
  <1> QED BY <1>1, <1>3
          DEF Sound, StoreSound, LinesSound, Lines, ServerSound, BudgetSound, TypeOK

(* What a handler issues: nothing, or one command of the kinds allowed.     *)
Issues(a, kinds) ==
    \/ a.out = <<>>
    \/ \E c \in CmdType : /\ a.out = Append(<<>>, c) /\ c.kind \in kinds
                          /\ SoundCmd(c, a.turns)

LEMMA PlainIssues ==
    ASSUME NEW a \in AppType, NEW b \in AppType, a.out = <<>>, Plain(a, b)
    PROVE  Issues(b, Requests \ {"steer"})
  <1>1. CASE Unsubmitted(a, b)
    BY <1>1 DEF Unsubmitted, Issues
  <1>2. CASE Asks(a, b)
    <2> PICK k \in {"hydrate", "interrupt"}, s \in Sessions, t \in Nat :
                b.out = Append(a.out, Cmd(k, s, t, None))
      BY <1>2 DEF Asks
    <2> DEFINE c == Cmd(k, s, t, None)
    <2>1. c \in CmdType /\ c.kind = k
      BY DEF Cmd, CmdType, None
    <2> HIDE DEF c
    <2>2. SoundCmd(c, b.turns) /\ c.kind \in Requests \ {"steer"}
      BY <2>1 DEF SoundCmd, Requests
    <2> QED BY <2>1, <2>2 DEF Issues, c
  <1>3. CASE \E p : Submits(a, b, p)
    <2> PICK p : Submits(a, b, p)
      BY <1>3
    <2> DEFINE t == Len(a.turns) + 1
               c == Cmd("start", b.sel, t, p)
    <2>1. p \in Nat /\ b.sel \in Sessions /\ a.turns \in TurnTables /\ Len(a.turns) \in Nat
      BY Fields, TableFacts DEF Submits, PromptNo
    <2>2. [sess |-> b.sel, prompt |-> p] \in TurnType
      BY <2>1 DEF TurnType
    <2>3. Len(b.turns) = t /\ DOMAIN b.turns = 1..Len(b.turns)
      BY <2>1, <2>2, Fields, TableFacts DEF Submits
    <2>4. t \in DOMAIN b.turns
      BY <2>1, <2>3
    <2>5. t \in Nat
      BY <2>1
    <2> HIDE DEF t
    <2>6. c \in CmdType /\ c.kind = "start" /\ c.turn = t
      BY <2>1, <2>5 DEF Cmd, CmdType
    <2>7. b.out = Append(a.out, c)
      BY DEF Submits, t
    <2> HIDE DEF c
    <2>8. SoundCmd(c, b.turns) /\ c.kind \in Requests \ {"steer"}
      BY <2>4, <2>6 DEF SoundCmd, Requests
    <2> QED BY <2>6, <2>7, <2>8 DEF Issues
  <1> QED BY <1>1, <1>2, <1>3 DEF Plain

LEMMA RefsGrow ==
    ASSUME NEW a, NEW T \in TurnTables, NEW U \in TurnTables, Refs(a, T), Extends(T, U)
    PROVE  Refs(a, U)
  <1>1. DOMAIN T \subseteq DOMAIN U /\ \A t \in DOMAIN T : U[t] = T[t]
    BY ExtendsTwice DEF Extends
  <1>2. \A s \in Sessions : a.live[s] # None => a.live[s] \in DOMAIN U /\ U[a.live[s]].sess = s
    BY <1>1 DEF Refs
  <1> QED BY <1>1, <1>2 DEF Refs

(* Handing the commands over leaves everything else of a store state; one   *)
(* the transport refuses keeps the table the store had.                     *)
LEMMA HandedOver ==
    ASSUME NEW a \in AppType
    PROVE  LET b == [a EXCEPT !.out = <<>>]
           IN  /\ b \in AppType /\ b.out = <<>> /\ b.turns = a.turns /\ Apart(a, b)
               /\ b.gate = a.gate /\ b.pre = a.pre /\ b.run = a.run /\ b.queue = a.queue
  <1>1. <<>> \in Outputs
    BY DEF Outputs
  <1> QED BY <1>1 DEF AppType, Apart, SameLatch, SameSteers, SameStop

LEMMA Unsent ==
    ASSUME NEW a \in AppType, NEW T \in TurnTables
    PROVE  LET b == [a EXCEPT !.turns = T]
           IN  /\ b \in AppType /\ b.out = a.out /\ b.turns = T /\ Apart(a, b)
               /\ b.gate = a.gate /\ b.pre = a.pre /\ b.run = a.run
  BY DEF AppType, Apart, SameLatch, SameSteers, SameStop

LEMMA RunData ==
    ASSUME StoreSound, server' = server, NEW a, NEW T, Fit(a, T), Extends(app.turns, T),
           link = "down" => T = app.turns, a.steering = app.steering,
           NEW kinds \in SUBSET Requests, Issues(a, kinds),
           NEW w \in Seq(CmdType), Run(a, w)
    PROVE  /\ StoreSound' /\ Extends(app.turns, app'.turns) /\ app'.stash = a.stash
           /\ wire' \in Seq(CmdType)
           /\ \/ wire' = w
              \/ /\ link # "down"
                 /\ \E c \in CmdType : /\ a.out = Append(<<>>, c) /\ wire' = Append(w, c)
                                       /\ c.kind \in kinds /\ SoundCmd(c, app'.turns)
  <1> DEFINE b == [a EXCEPT !.out = <<>>]
  <1>1. a \in AppType /\ T \in TurnTables /\ a.turns \in TurnTables /\ app.turns \in TurnTables
    BY FitFacts, Fields DEF StoreSound, Fit
  <1>2. b \in AppType /\ b.out = <<>> /\ b.turns = a.turns /\ Apart(a, b)
    BY <1>1, HandedOver
  <1>3. /\ app' = IF link = "down" /\ a.out # <<>>
                    THEN [SendRefused(b) EXCEPT !.turns = app.turns] ELSE b
        /\ wire' = IF link = "down" THEN w ELSE w \o a.out
    BY DEF Run
  <1> HIDE DEF b
  <1>4. Fit(b, T)
    BY <1>2, ApartFit DEF Apart
  <1>5. CASE link = "down" /\ a.out # <<>>
    <2> DEFINE c == SendRefused(b)
               d == [c EXCEPT !.turns = app.turns]
    <2>1. c \in AppType /\ BackedOff(b, c, {b.sel})
      BY <1>2, SendRefusedData
    <2>2. Fit(c, T) /\ c.out = <<>> /\ SameSteers(b, c)
      BY <1>2, <1>4, <2>1, BackedOffFit DEF BackedOff, Apart, Unsubmitted
    <2> HIDE DEF c
    <2>3. d \in AppType /\ d.out = c.out /\ d.turns = app.turns /\ Apart(c, d)
      BY <1>1, <2>1, Unsent
    <2>4. app' = d /\ T = app.turns
      BY <1>3, <1>5 DEF c
    <2> HIDE DEF d
    <2>5. Refs(d, app.turns)
      BY <2>2, <2>3, <2>4 DEF Fit, Refs, Apart, SameLatch, SameSteers
    <2>6. Extends(app.turns, app.turns)
      BY <1>1, TableFacts DEF Extends
    <2>7. Fit(d, app.turns)
      BY <1>1, <2>3, <2>5, <2>6 DEF Fit
    <2>8. app' \in AppType /\ app'.turns = app.turns /\ app'.out = <<>>
      BY <2>2, <2>3, <2>4
    <2>9. app'.stash = a.stash /\ app'.steering = a.steering
      BY <1>2, <2>2, <2>3, <2>4 DEF Apart, SameSteers
    <2>10. StoreSound'
      BY <2>4, <2>7, <2>8, <2>9 DEF StoreSound
    <2> QED BY <1>3, <1>5, <2>6, <2>8, <2>9, <2>10
  <1>6. CASE ~(link = "down" /\ a.out # <<>>)
    <2>1. app' = b
      BY <1>3, <1>6
    <2>2. Extends(T, a.turns) /\ Refs(b, T)
      BY <1>2, <1>4 DEF Fit
    <2>3. Extends(app.turns, a.turns)
      BY <1>1, <2>2, ExtendsTwice
    <2>4. Extends(a.turns, a.turns)
      BY <1>1, TableFacts DEF Extends
    <2>5. Fit(b, b.turns)
      BY <1>1, <1>2, <2>2, <2>4, RefsGrow DEF Fit
    <2>6. b.stash = a.stash /\ b.steering = a.steering
      BY <1>2 DEF Apart, SameSteers
    <2>7. StoreSound'
      BY <1>2, <2>1, <2>5, <2>6 DEF StoreSound
    <2>8. CASE a.out = <<>>
      <3>1. wire' = w
        BY <1>3, <2>8, ConcatEmptySeq
      <3> QED BY <1>2, <2>1, <2>3, <2>6, <2>7, <3>1
    <2>9. CASE a.out # <<>>
      <3> PICK c \in CmdType : /\ a.out = Append(<<>>, c) /\ c.kind \in kinds
                               /\ SoundCmd(c, a.turns)
        BY <2>9 DEF Issues
      <3>1. a.out = <<c>>
        OBVIOUS
      <3>2. link # "down" /\ wire' = w \o <<c>>
        BY <1>3, <1>6, <2>9, <3>1
      <3>3. wire' = Append(w, c)
        BY <3>2, AppendIsConcat
      <3>4. wire' \in Seq(CmdType)
        BY <3>3, AppendProperties
      <3> QED BY <1>2, <2>1, <2>3, <2>6, <2>7, <3>2, <3>3, <3>4
    <2> QED BY <2>8, <2>9
  <1> QED BY <1>5, <1>6

-----------------------------------------------------------------------------
(* The requests under way, as the transport and the event loop move them.   *)

LEMMA PromptsData ==
    ASSUME NEW S, \A e \in S : e.prompt \in Nat, NEW q \in Seq(S)
    PROVE  /\ PromptsOf(q) \in Seq(Nat) /\ Len(PromptsOf(q)) = Len(q)
           /\ \A e \in S : PromptsOf(Append(q, e)) = Append(PromptsOf(q), e.prompt)
           /\ q # <<>> => PromptsOf(Tail(q)) = Tail(PromptsOf(q))
  <1>1. Len(q) \in Nat /\ DOMAIN q = 1..Len(q) /\ \A i \in 1..Len(q) : q[i] \in S
    OBVIOUS
  <1>2. /\ PromptsOf(q) \in Seq(Nat) /\ Len(PromptsOf(q)) = Len(q)
        /\ \A i \in 1..Len(q) : PromptsOf(q)[i] = q[i].prompt
    <2>1. \A i \in 1..Len(q) : q[i].prompt \in Nat
      BY <1>1
    <2>2. PromptsOf(q) = [i \in 1..Len(q) |-> q[i].prompt]
      BY <1>1 DEF PromptsOf
    <2> QED BY <1>1, <2>1, <2>2
  <1>3. ASSUME NEW e \in S
        PROVE  PromptsOf(Append(q, e)) = Append(PromptsOf(q), e.prompt)
    <2> DEFINE m == Append(q, e)
               x == Append(PromptsOf(q), e.prompt)
    <2>1. e.prompt \in Nat
      OBVIOUS
    <2>2. /\ x \in Seq(Nat) /\ Len(x) = Len(q) + 1 /\ x[Len(q) + 1] = e.prompt
          /\ \A i \in 1..Len(q) : x[i] = q[i].prompt
      BY <1>2, <2>1, AppendProperties
    <2>3. /\ m \in Seq(S) /\ Len(m) = Len(q) + 1 /\ m[Len(q) + 1] = e
          /\ \A i \in 1..Len(q) : m[i] = q[i]
      BY AppendProperties
    <2> HIDE DEF m, x
    <2>4. DOMAIN m = 1..(Len(q) + 1)
      BY <2>3
    <2>5. \A i \in 1..(Len(q) + 1) : m[i].prompt = x[i]
      BY <1>1, <2>2, <2>3
    <2>6. PromptsOf(m) = [i \in 1..(Len(q) + 1) |-> m[i].prompt]
      BY <2>4 DEF PromptsOf
    <2>7. \A i \in 1..(Len(q) + 1) : x[i] \in Nat
      BY <2>2
    <2>8. PromptsOf(m) \in Seq(Nat) /\ Len(PromptsOf(m)) = Len(q) + 1
      BY <1>1, <2>5, <2>6, <2>7
    <2>9. \A i \in 1..Len(x) : PromptsOf(m)[i] = x[i]
      BY <2>2, <2>5, <2>6
    <2>10. PromptsOf(m) = x
      BY <2>2, <2>8, <2>9, SeqEqual
    <2> QED BY <2>10 DEF m, x
  <1>4. ASSUME q # <<>>
        PROVE  PromptsOf(Tail(q)) = Tail(PromptsOf(q))
    <2> DEFINE m == Tail(q)
               x == Tail(PromptsOf(q))
    <2>1. Len(q) >= 1 /\ PromptsOf(q) # <<>>
      BY <1>1, <1>2, <1>4
    <2>2. /\ m \in Seq(S) /\ Len(m) = Len(q) - 1
          /\ \A i \in 1..(Len(q) - 1) : m[i] = q[i + 1]
      BY <1>4, HeadTailProperties
    <2>3. /\ x \in Seq(Nat) /\ Len(x) = Len(q) - 1
          /\ \A i \in 1..(Len(q) - 1) : x[i] = PromptsOf(q)[i + 1]
      BY <1>2, <2>1, HeadTailProperties
    <2> HIDE DEF m, x
    <2>4. DOMAIN m = 1..(Len(q) - 1) /\ Len(q) - 1 \in Nat
      BY <1>1, <2>1, <2>2
    <2>5. \A i \in 1..(Len(q) - 1) : m[i].prompt = x[i]
      <3>1. \A i \in 1..(Len(q) - 1) : i + 1 \in DOMAIN q
        BY <1>1
      <3>2. \A i \in DOMAIN q : PromptsOf(q)[i] = q[i].prompt
        BY DEF PromptsOf
      <3> QED BY <2>2, <2>3, <3>1, <3>2
    <2>6. PromptsOf(m) = [i \in 1..(Len(q) - 1) |-> m[i].prompt]
      BY <2>4 DEF PromptsOf
    <2>7. \A i \in 1..(Len(q) - 1) : x[i] \in Nat
      BY <2>3
    <2>8. PromptsOf(m) \in Seq(Nat) /\ Len(PromptsOf(m)) = Len(q) - 1
      <3> DEFINE k == Len(q) - 1
      <3>1. k \in Nat /\ PromptsOf(m) = [i \in 1..k |-> m[i].prompt]
            /\ \A i \in 1..k : m[i].prompt \in Nat
        BY <2>4, <2>5, <2>6, <2>7
      <3> HIDE DEF k
      <3>2. PromptsOf(m) \in Seq(Nat) /\ Len(PromptsOf(m)) = k
        BY <3>1
      <3> QED BY <3>2 DEF k
    <2>9. \A i \in 1..Len(x) : PromptsOf(m)[i] = x[i]
      BY <2>3, <2>5, <2>6
    <2>10. PromptsOf(m) = x
      BY <2>3, <2>8, <2>9, SeqEqual
    <2> QED BY <2>10 DEF m, x
  <1> QED BY <1>2, <1>3, <1>4

LEMMA MatchData ==
    ASSUME NEW u \in Seq(CmdType), NEW st \in Stashes, Match(u, st)
    PROVE  /\ \A c \in CmdType, e \in SteerType :
                 e.prompt = c.prompt => Match(Append(u, c), Append(st, e))
           /\ \A e \in SteerType : BusyBoots => Match(u, Append(st, e))
           /\ u # <<>> => st # <<>> /\ Match(Tail(u), Tail(st))
  <1>1. st \in Seq(SteerType) /\ Len(st) \in Nat /\ Len(u) \in Nat /\ Len(u) <= Len(st)
    BY DEF Stashes, Match
  <1>2. (\A c \in CmdType : c.prompt \in Nat) /\ (\A e \in SteerType : e.prompt \in Nat)
    BY DEF CmdType, SteerType, PromptNo
  <1>3. ASSUME NEW c \in CmdType, NEW e \in SteerType, e.prompt = c.prompt
        PROVE  Match(Append(u, c), Append(st, e))
    <2>1. Len(Append(u, c)) = Len(u) + 1 /\ Len(Append(st, e)) = Len(st) + 1
      BY <1>1, AppendProperties
    <2>2. PromptsOf(Append(u, c)) = Append(PromptsOf(u), c.prompt)
      BY <1>2, PromptsData
    <2>3. PromptsOf(Append(st, e)) = Append(PromptsOf(st), e.prompt)
      BY <1>1, <1>2, PromptsData
    <2> QED BY <1>1, <1>3, <2>1, <2>2, <2>3 DEF Match
  <1>4. ASSUME NEW e \in SteerType, BusyBoots
        PROVE  Match(u, Append(st, e))
    <2>1. Len(Append(st, e)) = Len(st) + 1
      BY <1>1, AppendProperties
    <2> QED BY <1>1, <1>4, <2>1 DEF Match
  <1>5. ASSUME u # <<>>
        PROVE  st # <<>> /\ Match(Tail(u), Tail(st))
    <2>1. Len(u) >= 1 /\ Len(Tail(u)) = Len(u) - 1
      BY <1>5, HeadTailProperties
    <2>2. st # <<>>
      BY <1>1, <2>1
    <2>3. Len(Tail(st)) = Len(st) - 1
      BY <1>1, <2>2, HeadTailProperties
    <2>4. PromptsOf(Tail(u)) = Tail(PromptsOf(u))
      BY <1>2, <1>5, PromptsData
    <2>5. PromptsOf(Tail(st)) = Tail(PromptsOf(st))
      BY <1>1, <1>2, <2>2, PromptsData
    <2>6. Len(Tail(u)) <= Len(Tail(st))
      BY <1>1, <2>1, <2>3
    <2>7. ~BusyBoots => PromptsOf(Tail(st)) = PromptsOf(Tail(u))
      BY <2>4, <2>5 DEF Match
    <2> QED BY <2>2, <2>6, <2>7 DEF Match
  <1> QED BY <1>3, <1>4, <1>5

LEMMA LinesGrow ==
    ASSUME NEW T \in TurnTables, NEW U \in TurnTables, Extends(T, U),
           NEW ib, NEW w, NEW st, Lines(ib, w, T, st)
    PROVE  Lines(ib, w, U, st)
  <1>1. DOMAIN T \subseteq DOMAIN U
    BY ExtendsTwice DEF Extends
  <1> QED BY <1>1 DEF Lines, SoundCmd

(* A request goes out. *)
LEMMA LinesSend ==
    ASSUME NEW T, NEW ib, NEW w, NEW st \in Stashes, Lines(ib, w, T, st),
           NEW c \in CmdType, SoundCmd(c, T)
    PROVE  LET v == Append(w, c)
           IN  /\ c.kind # "steer" => Lines(ib, v, T, st)
               /\ \A e \in SteerType :
                     c.kind = "steer" /\ e.prompt = c.prompt => Lines(ib, v, T, Append(st, e))
  <1> DEFINE v == Append(w, c)
             u == UnderWay(ib, w)
  <1>1. w \in Seq(CmdType) /\ ib \in Seq(EventType) /\ Match(u, st)
    BY DEF Lines
  <1>2. v \in Seq(CmdType) /\ \A i \in DOMAIN v : SoundCmd(v[i], T)
    <2>1. v \in Seq(CmdType) /\ \A i \in DOMAIN v : (i \in DOMAIN w /\ v[i] = w[i]) \/ v[i] = c
      BY <1>1
    <2> HIDE DEF v
    <2> QED BY <2>1 DEF Lines
  <1>3. /\ u \in Seq(CmdType)
        /\ UnderWay(ib, v) = IF c.kind = "steer" THEN Append(u, c) ELSE u
    BY <1>1, UnderWayData
  <1> HIDE DEF u, v
  <1>4. ASSUME c.kind # "steer"
        PROVE  Lines(ib, v, T, st)
    BY <1>1, <1>2, <1>3, <1>4 DEF Lines
  <1>5. ASSUME NEW e \in SteerType, c.kind = "steer", e.prompt = c.prompt
        PROVE  Lines(ib, v, T, Append(st, e))
    <2>1. Match(Append(u, c), Append(st, e))
      BY <1>1, <1>3, <1>5, MatchData
    <2> QED BY <1>2, <1>3, <1>5, <2>1 DEF Lines
  <1> QED BY <1>4, <1>5 DEF v

(* The oldest request is answered, or its cancellation read. *)
LEMMA LinesAnswer ==
    ASSUME NEW T, NEW w, NEW st \in Stashes, Lines(<<>>, w, T, st), w # <<>>
    PROVE  /\ Head(w) \in CmdType /\ SoundCmd(Head(w), T) /\ Tail(w) \in Seq(CmdType)
           /\ Head(w).kind # "steer" => Lines(<<>>, Tail(w), T, st)
           /\ Head(w).kind = "steer" => st # <<>> /\ Lines(<<>>, Tail(w), T, Tail(st))
  <1> DEFINE u == UnderWay(<<>>, w)
  <1>1. w \in Seq(CmdType) /\ <<>> \in Seq(EventType) /\ Match(u, st)
    BY DEF Lines
  <1>2. Head(w) = w[1] /\ 1 \in DOMAIN w /\ Head(w) \in CmdType
    BY <1>1
  <1>3. Tail(w) \in Seq(CmdType) /\ \A i \in DOMAIN Tail(w) : SoundCmd(Tail(w)[i], T)
    <2>1. /\ Tail(w) \in Seq(CmdType)
          /\ \A i \in DOMAIN Tail(w) : i + 1 \in DOMAIN w /\ Tail(w)[i] = w[i + 1]
      BY <1>1
    <2> QED BY <2>1 DEF Lines
  <1>4. /\ u \in Seq(CmdType)
        /\ Head(w).kind # "steer" => UnderWay(<<>>, Tail(w)) = u
        /\ Head(w).kind = "steer" => u # <<>> /\ UnderWay(<<>>, Tail(w)) = Tail(u)
    BY <1>1, UnderWayData, UnderWayTail
  <1> HIDE DEF u
  <1>5. u # <<>> => st # <<>> /\ Match(Tail(u), Tail(st))
    BY <1>1, <1>4, MatchData
  <1> QED BY <1>1, <1>2, <1>3, <1>4, <1>5 DEF Lines

LEMMA LinesRead ==
    ASSUME NEW T, NEW ib, NEW w, NEW st \in Stashes, Lines(ib, w, T, st), ib # <<>>
    PROVE  /\ Head(ib) \in EventType /\ SoundEvent(Head(ib))
           /\ Head(ib).cmd.kind # "steer" => Lines(Tail(ib), w, T, st)
           /\ Head(ib).cmd.kind = "steer" => st # <<>> /\ Lines(Tail(ib), w, T, Tail(st))
  <1> DEFINE u == UnderWay(ib, w)
  <1>1. w \in Seq(CmdType) /\ ib \in Seq(EventType) /\ Match(u, st)
    BY DEF Lines
  <1>2. Head(ib) = ib[1] /\ 1 \in DOMAIN ib /\ Head(ib) \in EventType
    BY <1>1
  <1>3. Tail(ib) \in Seq(EventType) /\ \A i \in DOMAIN Tail(ib) : SoundEvent(Tail(ib)[i])
    <2>1. /\ Tail(ib) \in Seq(EventType)
          /\ \A i \in DOMAIN Tail(ib) : i + 1 \in DOMAIN ib /\ Tail(ib)[i] = ib[i + 1]
      BY <1>1
    <2> QED BY <2>1 DEF Lines
  <1>4. /\ u \in Seq(CmdType)
        /\ Head(ib).cmd.kind # "steer" => UnderWay(Tail(ib), w) = u
        /\ Head(ib).cmd.kind = "steer" => u # <<>> /\ UnderWay(Tail(ib), w) = Tail(u)
    BY <1>1, UnderWayData, UnderWayTail
  <1> HIDE DEF u
  <1>5. u # <<>> => st # <<>> /\ Match(Tail(u), Tail(st))
    BY <1>1, <1>4, MatchData
  <1> QED BY <1>1, <1>2, <1>3, <1>4, <1>5 DEF Lines

(* The transport queues a signal; and, for a dead child, the cancellations. *)
LEMMA LinesSignal ==
    ASSUME NEW T, NEW w, NEW st, Lines(<<>>, w, T, st), NEW event \in {"epoch", "relaunched"}
    PROVE  Lines(Append(<<>>, Signal(event)), w, T, st)
  <1> DEFINE e == Signal(event)
             ib == Append(<<>>, e)
  <1>1. Home \in Sessions
    BY ConstantsAssumption
  <1>2. e.event = event /\ e.cmd = Cmd(event, Home, None, None)
    BY DEF Signal
  <1>3. Cmd(event, Home, None, None) \in CmdType /\ Cmd(event, Home, None, None).kind = event
    BY <1>1 DEF Cmd, CmdType, None
  <1>4. e \in EventType
    BY <1>3 DEF Signal, EventType
  <1>5. SoundEvent(e) /\ e.cmd.kind # "steer"
    BY <1>2, <1>3 DEF SoundEvent
  <1> HIDE DEF e
  <1>6. ib \in Seq(EventType) /\ \A i \in DOMAIN ib : SoundEvent(ib[i])
    BY <1>4, <1>5
  <1>7. w \in Seq(CmdType) /\ <<>> \in Seq(EventType)
    BY DEF Lines
  <1>8. UnderWay(ib, w) = UnderWay(<<>>, w)
    BY <1>4, <1>5, <1>7, UnderWayData
  <1> HIDE DEF ib
  <1> QED BY <1>6, <1>8 DEF Lines, ib, e

LEMMA LinesDie ==
    ASSUME NEW T, NEW w, NEW st, Lines(<<>>, w, T, st)
    PROVE  Lines(<<>> \o [i \in DOMAIN w |-> [event |-> "cancelled", cmd |-> w[i]]], <<>>, T, st)
  <1> DEFINE ev == [i \in DOMAIN w |-> [event |-> "cancelled", cmd |-> w[i]]]
  <1>1. w \in Seq(CmdType) /\ \A i \in DOMAIN w : SoundCmd(w[i], T)
    BY DEF Lines
  <1>2. DOMAIN w = 1..Len(w) /\ Len(w) \in Nat
    BY <1>1
  <1>3. \A i \in DOMAIN w : w[i] \in CmdType
    BY <1>1
  <1>4. \A i \in DOMAIN w : [event |-> "cancelled", cmd |-> w[i]] \in EventType
    BY <1>3 DEF EventType
  <1>5. ev \in Seq(EventType) /\ Len(ev) = Len(w)
    BY <1>2, <1>4
  <1>6. DOMAIN ev = DOMAIN w /\ \A i \in DOMAIN ev : ev[i].event = "cancelled" /\ ev[i].cmd = w[i]
    OBVIOUS
  <1> HIDE DEF ev
  <1>7. \A i \in DOMAIN ev : SoundEvent(ev[i])
    BY <1>1, <1>6 DEF SoundEvent, SoundCmd
  <1>8. CmdsOf(ev) = w
    <2>1. CmdsOf(ev) = [i \in DOMAIN w |-> w[i]]
      BY <1>6 DEF CmdsOf
    <2> QED BY <1>1, <2>1
  <1>9. UnderWay(ev, <<>>) = UnderWay(<<>>, w)
    <2>1. SteersOf(w) \in Seq(CmdType)
      BY <1>1, SteersType
    <2> QED BY <1>8, <2>1, SteersNone, ConcatEmptySeq DEF UnderWay
  <1>10. <<>> \o ev = ev
    BY <1>5, ConcatEmptySeq
  <1>11. Lines(ev, <<>>, T, st)
    BY <1>5, <1>7, <1>9 DEF Lines
  <1> QED BY <1>10, <1>11 DEF ev

-----------------------------------------------------------------------------
(* Each action keeps the invariant. *)

LEMMA RunSound ==
    ASSUME Sound, server' = server, NEW a, NEW T, Fit(a, T), Extends(app.turns, T),
           link = "down" => T = app.turns, a.steering = app.steering,
           Issues(a, Requests \ {"steer"}),
           NEW w, Lines(inbox', w, app.turns, a.stash), Run(a, w)
    PROVE  StoreSound' /\ LinesSound' /\ Extends(app.turns, app'.turns)
  <1>1. w \in Seq(CmdType) /\ Requests \ {"steer"} \in SUBSET Requests
    BY DEF Lines
  <1>2. /\ StoreSound' /\ Extends(app.turns, app'.turns) /\ app'.stash = a.stash
        /\ \/ wire' = w
           \/ \E c \in CmdType : /\ wire' = Append(w, c)
                                 /\ c.kind \in Requests \ {"steer"} /\ SoundCmd(c, app'.turns)
    BY <1>1, RunData DEF Sound
  <1>3. app.turns \in TurnTables /\ app'.turns \in TurnTables /\ a.stash \in Stashes
    BY <1>2, FitFacts, Fields DEF Sound, StoreSound, Fit
  <1>4. Lines(inbox', w, app'.turns, a.stash)
    BY <1>2, <1>3, LinesGrow
  <1>5. Lines(inbox', wire', app'.turns, a.stash)
    BY <1>2, <1>3, <1>4, LinesSend
  <1> QED BY <1>2, <1>5 DEF LinesSound

(* A handler that sends no steer and hears of none. *)
LEMMA PlainSound ==
    ASSUME Sound, server' = server, NEW a, Fit(a, app.turns), Plain(app, a),
           NEW w, Lines(inbox', w, app.turns, app.stash), Run(a, w)
    PROVE  StoreSound' /\ LinesSound' /\ Extends(app.turns, app'.turns)
  <1>1. app \in AppType /\ a \in AppType /\ app.out = <<>>
    BY DEF Sound, StoreSound, Fit
  <1>2. Issues(a, Requests \ {"steer"})
    BY <1>1, PlainIssues
  <1>3. a.stash = app.stash /\ a.steering = app.steering
    BY DEF Plain
  <1>4. Extends(app.turns, app.turns)
    BY DEF Sound, StoreSound, Fit
  <1> QED BY <1>2, <1>3, <1>4, RunSound

LEMMA ServerKept ==
    ASSUME Sound, StoreSound', Extends(app.turns, app'.turns), UNCHANGED serverVars
    PROVE  ServerSound'
  <1>1. app.turns \in TurnTables /\ app'.turns \in TurnTables
    BY Fields DEF Sound, StoreSound, Fit
  <1>2. DOMAIN app.turns \subseteq DOMAIN app'.turns
    BY <1>1, ExtendsTwice DEF Extends
  <1> QED BY <1>2 DEF Sound, ServerSound, serverVars

LEMMA ActsSound ==
    ASSUME Sound, NEW a, Fit(a, app.turns), Plain(app, a), Acts(a), typed' \in Seq(Sessions)
    PROVE  Sound'
  <1>1. Run(a, wire) /\ UNCHANGED <<serverVars, budgetVars, inbox, link, answered>>
    BY DEF Acts, Keeps
  <1>2. server' = server /\ inbox' = inbox
    BY <1>1 DEF budgetVars
  <1>3. Lines(inbox', wire, app.turns, app.stash)
    BY <1>2 DEF Sound, LinesSound
  <1>4. StoreSound' /\ LinesSound' /\ Extends(app.turns, app'.turns)
    BY <1>1, <1>2, <1>3, PlainSound
  <1>5. ServerSound'
    BY <1>1, <1>4, ServerKept
  <1>6. BudgetSound'
    BY <1>1 DEF Sound, BudgetSound, budgetVars
  <1> QED BY <1>4, <1>5, <1>6 DEF Sound

LEMMA TypePromptSound == ASSUME Sound, TypePrompt PROVE Sound'
  <1> DEFINE p == Len(typed) + 1
             a == Prompt(app, p)
  <1>1. Fit(app, app.turns) /\ app \in AppType /\ typed \in Seq(Sessions) /\ app.out = <<>>
    BY DEF Sound, StoreSound, Fit, BudgetSound
  <1>2. p \in PromptNo
    BY <1>1 DEF PromptNo, None
  <1>3. typed' \in Seq(Sessions)
    BY <1>1, Fields DEF TypePrompt
  <1>4. Fit(a, app.turns) /\ (Plain(app, a) \/ Steered(app, a, p))
    BY <1>1, <1>2, PromptFit
  <1>5. Acts(a)
    BY DEF TypePrompt
  <1> HIDE DEF a, p
  <1>6. CASE Plain(app, a)
    BY <1>3, <1>4, <1>5, <1>6, ActsSound
  <1>7. CASE Steered(app, a, p)
    <2> DEFINE c == Cmd("steer", app.sel, Live(app), p)
               e == [turn |-> Live(app), prompt |-> p]
    <2>1. Live(app) \in Nat /\ app.sel \in Sessions /\ p \in Nat
      BY <1>1, <1>2, Fields DEF Live, Marks, PromptNo
    <2>2. c \in CmdType /\ c.kind = "steer" /\ c.prompt = p
      BY <2>1 DEF Cmd, CmdType
    <2>3. e \in SteerType /\ e.prompt = p
      BY <1>2, <2>1 DEF SteerType
    <2>4. a.out = Append(<<>>, c) /\ a.stash = Append(app.stash, e) /\ a.steering = app.steering
          /\ a.turns = app.turns /\ app.steering # "off"
      BY <1>1, <1>7 DEF Steered
    <2> HIDE DEF c, e
    <2>5. SoundCmd(c, a.turns)
      BY <2>2 DEF SoundCmd, Requests
    <2>6. Issues(a, Requests)
      BY <2>2, <2>4, <2>5 DEF Issues, Requests
    <2>7. /\ Run(a, wire) /\ UNCHANGED <<serverVars, budgetVars, inbox, link, answered>>
          /\ \/ BusyBoots \/ link = "up" \/ (link = "down" /\ a.steering = "off")
             \/ \A i \in DOMAIN a.out : a.out[i].kind \notin {"start", "steer"}
      BY <1>5 DEF Acts, Keeps
    <2>8. server' = server /\ inbox' = inbox
      BY <2>7 DEF budgetVars
    <2>9. Extends(app.turns, app.turns) /\ StoreSound /\ wire \in Seq(CmdType)
      BY <1>1 DEF Fit, Sound, LinesSound, Lines
    <2>10. /\ StoreSound' /\ Extends(app.turns, app'.turns) /\ app'.stash = a.stash
           /\ \/ wire' = wire
              \/ /\ link # "down"
                 /\ \E d \in CmdType : /\ a.out = Append(<<>>, d) /\ wire' = Append(wire, d)
                                       /\ SoundCmd(d, app'.turns)
      BY <1>4, <2>4, <2>6, <2>7, <2>8, <2>9, RunData
    <2>11. app.turns \in TurnTables /\ app'.turns \in TurnTables /\ app.stash \in Stashes
      BY <1>1, <2>10, Fields DEF StoreSound, Fit
    <2>12. Lines(inbox', wire, app'.turns, app.stash)
      BY <2>8, <2>10, <2>11, LinesGrow DEF Sound, LinesSound
    <2>13. ASSUME wire' = Append(wire, c), SoundCmd(c, app'.turns)
           PROVE  LinesSound'
      <3>1. Lines(inbox', wire', app'.turns, Append(app.stash, e))
        BY <2>2, <2>3, <2>11, <2>12, <2>13, LinesSend
      <3> QED BY <2>4, <2>10, <3>1 DEF LinesSound
    <2>14. ASSUME wire' = wire
           PROVE  LinesSound'
      <3>1. BusyBoots
        <4>1. link = "down"
          <5> SUFFICES ASSUME link # "down" PROVE FALSE
            OBVIOUS
          <5>1. wire' = wire \o a.out
            BY <2>7 DEF Run
          <5>2. a.out = <<c>>
            BY <2>4
          <5>3. Len(wire \o <<c>>) = Len(wire) + 1 /\ Len(wire) \in Nat
            BY <2>2, <2>9, ConcatProperties
          <5> QED BY <2>14, <5>1, <5>2, <5>3
        <4>2. 1 \in DOMAIN a.out /\ a.out[1] = c
          BY <2>4
        <4> QED BY <2>2, <2>4, <2>7, <4>1, <4>2
      <3>2. Match(UnderWay(inbox', wire), app.stash)
        BY <2>12 DEF Lines
      <3>3. UnderWay(inbox', wire) \in Seq(CmdType)
        BY <2>12, UnderWayData DEF Lines
      <3>4. Match(UnderWay(inbox', wire), Append(app.stash, e))
        BY <2>3, <2>11, <3>1, <3>2, <3>3, MatchData
      <3>5. Lines(inbox', wire', app'.turns, Append(app.stash, e))
        BY <2>12, <2>14, <3>4 DEF Lines
      <3> QED BY <2>4, <2>10, <3>5 DEF LinesSound
    <2>15. LinesSound'
      <3>1. \A d : a.out = Append(<<>>, d) => d = c
        BY <2>4
      <3> QED BY <2>10, <2>13, <2>14, <3>1
    <2>16. ServerSound'
      BY <2>7, <2>10, ServerKept
    <2>17. BudgetSound'
      BY <1>3, <2>7 DEF Sound, BudgetSound, budgetVars
    <2> QED BY <2>10, <2>15, <2>16, <2>17 DEF Sound
  <1> QED BY <1>4, <1>6, <1>7

LEMMA UserSound == ASSUME Sound, User PROVE Sound'
  <1>1. Fit(app, app.turns) /\ typed \in Seq(Sessions)
    BY DEF Sound, StoreSound, BudgetSound
  <1>2. CASE TypePrompt
    BY <1>2, TypePromptSound
  <1>3. CASE UserInterrupts \/ SendPendingNow
    <2>1. Acts(Interrupt(app)) /\ typed' = typed
      BY <1>3 DEF UserInterrupts, SendPendingNow
    <2>2. Fit(Interrupt(app), app.turns) /\ Plain(app, Interrupt(app))
      BY <1>1, InterruptFit
    <2> QED BY <1>1, <2>1, <2>2, ActsSound
  <1>4. ASSUME NEW s \in Sessions, UserSwitches(s) PROVE Sound'
    <2>1. Acts(Switch(app, s)) /\ typed' = typed
      BY <1>4 DEF UserSwitches
    <2>2. Fit(Switch(app, s), app.turns) /\ Plain(app, Switch(app, s))
      BY <1>1, SwitchFit
    <2> QED BY <1>1, <2>1, <2>2, ActsSound
  <1> QED BY <1>2, <1>3, <1>4 DEF User

LEMMA MarkerAgedData ==
    ASSUME NEW a \in AppType, NEW s \in Sessions
    PROVE  LET b == [a EXCEPT !.pre[s] = "aged"]
           IN  /\ b \in AppType /\ Apart(a, b) /\ Unsubmitted(a, b)
               /\ b.gate = a.gate /\ b.run = a.run /\ b.queue = a.queue
               /\ b.pre = [a.pre EXCEPT ![s] = "aged"]
  <1> DEFINE pr == [a.pre EXCEPT ![s] = "aged"]
  <1>1. pr \in Markers
    BY Fields DEF Markers
  <1> HIDE DEF pr
  <1>2. LET b == [a EXCEPT !.pre = pr]
        IN  /\ b \in AppType /\ Apart(a, b) /\ Unsubmitted(a, b)
            /\ b.gate = a.gate /\ b.run = a.run /\ b.queue = a.queue /\ b.pre = pr
    BY <1>1 DEF AppType, Apart, SameLatch, SameSteers, SameStop, Unsubmitted
  <1> QED BY <1>2 DEF pr

LEMMA GateAgedData ==
    ASSUME NEW a \in AppType, NEW s \in Sessions, a.gate[s].set
    PROVE  LET b == [a EXCEPT !.gate[s].old = TRUE]
           IN  /\ b \in AppType /\ Apart(a, b) /\ Unsubmitted(a, b)
               /\ b.pre = a.pre /\ b.run = a.run /\ b.queue = a.queue
               /\ b.gate = [a.gate EXCEPT ![s] = [@ EXCEPT !.old = TRUE]]
  <1> DEFINE g == [a.gate[s] EXCEPT !.old = TRUE]
             ga == [a.gate EXCEPT ![s] = g]
  <1>1. a.gate[s] \in GateType /\ a.gate \in Gates
    BY Fields DEF Gates
  <1>2. g \in GateType
    BY <1>1 DEF GateType
  <1> HIDE DEF g
  <1>3. ga \in Gates
    BY <1>1, <1>2 DEF Gates
  <1> HIDE DEF ga
  <1>4. LET b == [a EXCEPT !.gate = ga]
        IN  /\ b \in AppType /\ Apart(a, b) /\ Unsubmitted(a, b)
            /\ b.pre = a.pre /\ b.run = a.run /\ b.queue = a.queue /\ b.gate = ga
    BY <1>3 DEF AppType, Apart, SameLatch, SameSteers, SameStop, Unsubmitted
  <1> QED BY <1>4 DEF g, ga

LEMMA ClockSound == ASSUME Sound, Clock PROVE Sound'
  <1>1. Fit(app, app.turns) /\ app \in AppType /\ typed \in Seq(Sessions) /\ app.out = <<>>
    BY DEF Sound, StoreSound, Fit, BudgetSound
  <1>2. ASSUME NEW due \in BOOLEAN, Tick(due) PROVE Sound'
    <2>1. Acts(TickOf(app, due)) /\ typed' = typed
      BY <1>2 DEF Tick
    <2>2. Fit(TickOf(app, due), app.turns) /\ Plain(app, TickOf(app, due))
      BY <1>1, TickFit
    <2> QED BY <1>1, <2>1, <2>2, ActsSound
  <1>3. ASSUME app' \in AppType, Apart(app, app'), Unsubmitted(app, app'),
               UNCHANGED <<wire, inbox, link, serverVars, typed, answered, budgetVars>>
        PROVE  Sound'
    <2>1. Fit(app', app.turns) /\ app'.turns = app.turns /\ app'.out = <<>>
      BY <1>1, <1>3, ApartFit DEF Apart, Unsubmitted
    <2>2. app'.stash = app.stash /\ app'.steering = app.steering
      BY <1>3 DEF Apart, SameSteers
    <2>3. StoreSound'
      BY <1>3, <2>1, <2>2 DEF Sound, StoreSound, budgetVars
    <2>4. LinesSound'
      BY <1>3, <2>1, <2>2 DEF Sound, LinesSound
    <2>5. ServerSound'
      BY <1>3, <2>1 DEF Sound, ServerSound, serverVars
    <2>6. BudgetSound'
      BY <1>3 DEF Sound, BudgetSound, budgetVars
    <2> QED BY <2>3, <2>4, <2>5, <2>6 DEF Sound
  <1>4. ASSUME NEW s \in Sessions, MarkerAges(s) PROVE Sound'
    BY <1>1, <1>3, <1>4, MarkerAgedData DEF MarkerAges
  <1>5. ASSUME NEW s \in Sessions, GateAges(s) PROVE Sound'
    BY <1>1, <1>3, <1>5, GateAgedData DEF GateAges
  <1> QED BY <1>2, <1>4, <1>5 DEF Clock

(* The bounds: a fault, a turn of the server's own, an answered prompt.     *)
LEMMA FaultKept ==
    ASSUME Sound, NEW kind, Fault(kind)
    PROVE  faults' \in 0..server.faults /\ misled' \subseteq Misleading
  <1>1. server \in ServerType /\ faults \in 0..server.faults /\ misled \subseteq Misleading
    BY ConstantsAssumption DEF Sound, BudgetSound
  <1>2. server.faults \in Nat
    BY <1>1 DEF ServerType
  <1> QED BY <1>1, <1>2 DEF Fault

LEMMA BudgetKept ==
    ASSUME Sound, typed' = typed, server' = server, own' = own,
           \/ UNCHANGED <<faults, misled>>
           \/ \E kind : Fault(kind),
           link' \in {"up", "down", "booting"},
           answered' = answered \/ \E p \in Nat : answered' = answered \cup {p}
    PROVE  BudgetSound'
  <1>1. answered' \subseteq Nat
    BY DEF Sound, BudgetSound
  <1>2. faults' \in 0..server.faults /\ misled' \subseteq Misleading
    BY FaultKept DEF Sound, BudgetSound
  <1> QED BY <1>1, <1>2 DEF Sound, BudgetSound

(* The server answers the oldest request. *)
LEMMA TakesFacts ==
    ASSUME Sound, NEW kind, Takes(kind)
    PROVE  /\ link = "up" /\ inbox = <<>> /\ Head(wire).kind = kind /\ Head(wire) \in CmdType
           /\ Tail(wire) \in Seq(CmdType) /\ SoundCmd(Head(wire), app.turns)
           /\ kind # "steer" => Lines(<<>>, Tail(wire), app.turns, app.stash)
           /\ kind = "steer" => /\ app.stash # <<>>
                                /\ Lines(<<>>, Tail(wire), app.turns, Tail(app.stash))
  <1>1. link = "up" /\ inbox = <<>> /\ wire # <<>> /\ Head(wire).kind = kind
    BY DEF Takes
  <1>2. app.stash \in Stashes /\ Lines(<<>>, wire, app.turns, app.stash)
    BY <1>1, Fields DEF Sound, StoreSound, Fit, LinesSound
  <1> QED BY <1>1, <1>2, LinesAnswer

LEMMA AnswerSound ==
    ASSUME Sound, AcceptStart \/ DropStart \/ TakeInterrupt
    PROVE  Sound'
  <1>1. /\ app' = app /\ inbox' = inbox /\ wire' = Tail(wire)
        /\ UNCHANGED <<link, running, over, inputs, typed, answered, server, own>>
        /\ Takes("start") \/ Takes("interrupt")
        /\ UNCHANGED <<faults, misled>> \/ \E kind : Fault(kind)
    BY DEF AcceptStart, DropStart, TakeInterrupt, serverVars, budgetVars
  <1>2. Lines(<<>>, Tail(wire), app.turns, app.stash) /\ inbox = <<>>
    BY <1>1, TakesFacts
  <1>3. StoreSound' /\ LinesSound'
    BY <1>1, <1>2 DEF Sound, StoreSound, LinesSound
  <1>4. ServerSound'
    <2>1. CASE AcceptStart
      <3>1. Head(wire).turn \in DOMAIN app.turns
        BY <2>1, TakesFacts DEF AcceptStart, SoundCmd
      <3> QED BY <1>1, <2>1, <3>1 DEF AcceptStart, Sound, ServerSound
    <2>2. CASE DropStart \/ TakeInterrupt
      BY <1>1, <2>2 DEF DropStart, TakeInterrupt, serverVars, Sound, ServerSound
    <2> QED BY <2>1, <2>2
  <1>5. BudgetSound'
    BY <1>1, BudgetKept DEF Sound, BudgetSound
  <1> QED BY <1>3, <1>4, <1>5 DEF Sound

LEMMA RefuseStartSound == ASSUME Sound, RefuseStart PROVE Sound'
  <1>1. /\ Takes("start") /\ Fault("refusal") /\ Run(Failed(app), Tail(wire))
        /\ UNCHANGED <<inbox, link, serverVars, typed, answered, server, own>>
    BY DEF RefuseStart
  <1>2. Fit(Failed(app), app.turns) /\ Plain(app, Failed(app))
    BY FailedFit DEF Sound, StoreSound
  <1>3. Lines(inbox', Tail(wire), app.turns, app.stash) /\ server' = server
    BY <1>1, TakesFacts
  <1>4. StoreSound' /\ LinesSound' /\ Extends(app.turns, app'.turns)
    BY <1>1, <1>2, <1>3, PlainSound
  <1>5. ServerSound'
    BY <1>1, <1>4, ServerKept
  <1>6. BudgetSound'
    BY <1>1, BudgetKept DEF Sound, BudgetSound
  <1> QED BY <1>4, <1>5, <1>6 DEF Sound

LEMMA AnswerHydrateSound ==
    ASSUME Sound, NEW stale, AnswerHydrate(stale)
    PROVE  Sound'
  <1> DEFINE s == Head(wire).sess
             Mine(ts) == {t \in ts : t # None /\ TurnSession(app, t) = s}
             active == Mine(running \cup {stale})
             told == active \cap app.done
             t1 == CHOOSE t \in told : TRUE
             ended == Mine(over \ {stale})
             a == IF told # {} THEN Refresh(app, s, t1)
                  ELSE Hydrated(app, s, ended, active, answered)
  <1>1. /\ Takes("hydrate") /\ Run(a, Tail(wire))
        /\ UNCHANGED <<inbox, link, serverVars, typed, answered, budgetVars>>
    BY DEF AnswerHydrate
  <1>2. s \in Sessions /\ Lines(<<>>, Tail(wire), app.turns, app.stash) /\ inbox = <<>>
    BY <1>1, TakesFacts DEF CmdType
  <1>3. None \notin ended
    OBVIOUS
  <1>4. told \subseteq app.done
    OBVIOUS
  <1> HIDE DEF ended, active, told
  <1>5. Fit(app, app.turns) /\ app.done \in SUBSET Nat
    BY Fields DEF Sound, StoreSound, Fit
  <1>6. told # {} => t1 \in Nat
    BY <1>4, <1>5
  <1> HIDE DEF t1, s
  <1>7. Fit(a, app.turns) /\ Plain(app, a)
    <2>1. CASE told # {}
      <3>1. Fit(Refresh(app, s, t1), app.turns) /\ Plain(app, Refresh(app, s, t1))
        BY <1>2, <1>5, <1>6, <2>1, RefreshFit
      <3> QED BY <2>1, <3>1
    <2>2. CASE told = {}
      <3> DEFINE b == Hydrated(app, s, ended, active, answered)
      <3>1. Fit(b, app.turns) /\ Plain(app, b)
        BY <1>2, <1>3, <1>5, HydratedFit
      <3> QED BY <2>2, <3>1
    <2> QED BY <2>1, <2>2
  <1> HIDE DEF a
  <1>8. server' = server /\ Lines(inbox', Tail(wire), app.turns, app.stash)
    BY <1>1, <1>2 DEF budgetVars
  <1>9. StoreSound' /\ LinesSound' /\ Extends(app.turns, app'.turns)
    BY <1>1, <1>7, <1>8, PlainSound
  <1>10. ServerSound'
    BY <1>1, <1>9, ServerKept
  <1>11. BudgetSound'
    BY <1>1 DEF Sound, BudgetSound, budgetVars
  <1> QED BY <1>9, <1>10, <1>11 DEF Sound

(* The server reports on a turn. *)
LEMMA KeepsSound ==
    ASSUME Sound, NEW a, Fit(a, app.turns), Plain(app, a), Keeps(a),
           inbox' = inbox, server' = server
    PROVE  /\ StoreSound' /\ LinesSound' /\ Extends(app.turns, app'.turns)
           /\ DOMAIN app.turns \subseteq DOMAIN app'.turns
  <1>1. Run(a, wire)
    BY DEF Keeps
  <1>2. Lines(inbox', wire, app.turns, app.stash)
    BY DEF Sound, LinesSound
  <1>3. StoreSound' /\ LinesSound' /\ Extends(app.turns, app'.turns)
    BY <1>1, <1>2, PlainSound
  <1>4. app.turns \in TurnTables /\ app'.turns \in TurnTables
    BY <1>3, Fields DEF Sound, StoreSound, Fit
  <1> QED BY <1>3, <1>4, ExtendsTwice DEF Extends

LEMMA TurnFacts ==
    ASSUME Sound, NEW t \in accepted \cup running \cup over
    PROVE  /\ Fit(app, app.turns) /\ t \in DOMAIN app.turns
           /\ app.turns[t].prompt \in Nat
  <1>1. Fit(app, app.turns) /\ app.turns \in TurnTables /\ t \in DOMAIN app.turns
    BY DEF Sound, StoreSound, Fit, ServerSound
  <1> QED BY <1>1, TableFacts

LEMMA StartTurnSound == ASSUME Sound, NEW t, StartTurn(t) PROVE Sound'
  <1>1. /\ t \in accepted /\ Keeps(Started(app, t))
        /\ accepted' = accepted \ {t} /\ running' = running \cup {t}
        /\ answered' = answered \cup {app.turns[t].prompt}
        /\ UNCHANGED <<inbox, link, over, inputs, typed, budgetVars>>
    BY DEF StartTurn
  <1>2. Fit(app, app.turns) /\ t \in DOMAIN app.turns /\ app.turns[t].prompt \in Nat
    BY <1>1, TurnFacts
  <1>3. Fit(Started(app, t), app.turns) /\ Plain(app, Started(app, t))
    BY <1>2, StartedFit
  <1>4. inbox' = inbox /\ server' = server
    BY <1>1 DEF budgetVars
  <1>5. StoreSound' /\ LinesSound' /\ DOMAIN app.turns \subseteq DOMAIN app'.turns
    BY <1>1, <1>3, <1>4, KeepsSound
  <1>6. ServerSound'
    BY <1>1, <1>2, <1>5 DEF Sound, ServerSound
  <1>7. BudgetSound'
    BY <1>1, <1>2, BudgetKept DEF budgetVars, Sound, BudgetSound
  <1> QED BY <1>5, <1>6, <1>7 DEF Sound

LEMMA RejectTurnSound == ASSUME Sound, NEW t, RejectTurn(t) PROVE Sound'
  <1>1. /\ t \in accepted /\ Keeps(Fail(app, t, FALSE)) /\ Fault("rejection")
        /\ accepted' = accepted \ {t}
        /\ answered' = answered \cup {app.turns[t].prompt}
        /\ UNCHANGED <<inbox, link, running, over, inputs, typed, server, own>>
    BY DEF RejectTurn
  <1>2. Fit(app, app.turns) /\ t \in DOMAIN app.turns /\ app.turns[t].prompt \in Nat
    BY <1>1, TurnFacts
  <1>3. Fit(Fail(app, t, FALSE), app.turns) /\ Plain(app, Fail(app, t, FALSE))
    BY <1>2, FailFit
  <1>4. StoreSound' /\ LinesSound' /\ DOMAIN app.turns \subseteq DOMAIN app'.turns
    BY <1>1, <1>3, KeepsSound
  <1>5. ServerSound'
    BY <1>1, <1>4 DEF Sound, ServerSound
  <1>6. BudgetSound'
    BY <1>1, <1>2, BudgetKept DEF Sound, BudgetSound
  <1> QED BY <1>4, <1>5, <1>6 DEF Sound

LEMMA StreamSound == ASSUME Sound, NEW t \in running \cup over, Stream(t) PROVE Sound'
  <1> PICK a \in {Delta(app, t), Tool(app, t)} : Keeps(a)
    BY DEF Stream
  <1>1. UNCHANGED <<inbox, link, serverVars, typed, answered, budgetVars>>
    BY DEF Stream
  <1>2. Fit(app, app.turns) /\ t \in DOMAIN app.turns
    BY TurnFacts
  <1>3. Fit(a, app.turns) /\ Plain(app, a)
    BY <1>2, DeltaFit, ToolFit
  <1>4. inbox' = inbox /\ server' = server
    BY <1>1 DEF budgetVars
  <1>5. StoreSound' /\ LinesSound' /\ Extends(app.turns, app'.turns)
    BY <1>3, <1>4, KeepsSound
  <1>6. ServerSound'
    BY <1>1, <1>5, ServerKept
  <1>7. BudgetSound'
    BY <1>1 DEF Sound, BudgetSound, budgetVars
  <1> QED BY <1>5, <1>6, <1>7 DEF Sound

LEMMA EndsSound ==
    ASSUME Sound, NEW t, Ends(t),
           \/ \E o \in {"success", "error", "idle"} : Keeps(Commit(app, t, o))
           \/ \E interrupt : Keeps(Fail(app, t, interrupt))
    PROVE  Sound'
  <1>1. /\ t \in running /\ running' = running \ {t} /\ over' = over \cup {t}
        /\ inputs' = Select(inputs, LAMBDA r : r.turn # t)
        /\ UNCHANGED <<inbox, link, accepted, typed, answered, budgetVars>>
    BY DEF Ends
  <1>2. Fit(app, app.turns) /\ t \in DOMAIN app.turns
    BY <1>1, TurnFacts
  <1>3. \E a : Fit(a, app.turns) /\ Plain(app, a) /\ Keeps(a)
    BY <1>2, CommitFit, FailFit
  <1>4. inbox' = inbox /\ server' = server
    BY <1>1 DEF budgetVars
  <1>5. StoreSound' /\ LinesSound' /\ DOMAIN app.turns \subseteq DOMAIN app'.turns
    BY <1>3, <1>4, KeepsSound
  <1>6. inputs' \in Seq([turn : Nat, prompt : Nat])
    <2> DEFINE kept == {i \in DOMAIN inputs : inputs[i].turn # t}
    <2>1. inputs' = Entries(inputs, kept) /\ kept \in SUBSET DOMAIN inputs
      BY <1>1 DEF Select
    <2> HIDE DEF kept
    <2> QED BY <2>1, EntriesData DEF Sound, ServerSound
  <1>7. ServerSound'
    BY <1>1, <1>5, <1>6 DEF Sound, ServerSound
  <1>8. BudgetSound'
    BY <1>1 DEF Sound, BudgetSound, budgetVars
  <1> QED BY <1>5, <1>7, <1>8 DEF Sound

LEMMA DropSteersSound == ASSUME Sound, NEW t, DropSteers(t) PROVE Sound'
  <1> PICK ps : Keeps(SteersDropped(app, t, ps))
    BY DEF DropSteers
  <1> DEFINE a == SteersDropped(app, t, ps)
  <1>1. /\ inputs' = Select(inputs, LAMBDA r : r.turn # t)
        /\ UNCHANGED <<inbox, link, accepted, running, over, typed, answered, budgetVars>>
    BY DEF DropSteers
  <1>2. Fit(app, app.turns) /\ app \in AppType
    BY DEF Sound, StoreSound, Fit
  <1>3. a \in AppType /\ Returned(app, a)
    BY <1>2, SteersDroppedData
  <1> HIDE DEF a
  <1>4. Fit(a, app.turns) /\ Plain(app, a)
    BY <1>2, <1>3, ReturnedFit
  <1>5. inbox' = inbox /\ server' = server
    BY <1>1 DEF budgetVars
  <1>6. StoreSound' /\ LinesSound' /\ DOMAIN app.turns \subseteq DOMAIN app'.turns
    BY <1>4, <1>5, KeepsSound DEF a
  <1>7. inputs' \in Seq([turn : Nat, prompt : Nat])
    <2> DEFINE kept == {i \in DOMAIN inputs : inputs[i].turn # t}
    <2>1. inputs' = Entries(inputs, kept) /\ kept \in SUBSET DOMAIN inputs
      BY <1>1 DEF Select
    <2> HIDE DEF kept
    <2> QED BY <2>1, EntriesData DEF Sound, ServerSound
  <1>8. ServerSound'
    BY <1>1, <1>6, <1>7 DEF Sound, ServerSound
  <1>9. BudgetSound'
    BY <1>1 DEF Sound, BudgetSound, budgetVars
  <1> QED BY <1>6, <1>8, <1>9 DEF Sound

LEMMA ConsumeSteerSound == ASSUME Sound, ConsumeSteer PROVE Sound'
  <1> DEFINE p == Head(inputs).prompt
             a == Echo(app, p)
  <1>1. /\ inputs # <<>> /\ answered' = answered \cup {p} /\ inputs' = Tail(inputs)
        /\ Keeps(a) \/ Keeps(app)
        /\ UNCHANGED <<inbox, link, accepted, running, over, typed, budgetVars>>
    BY DEF ConsumeSteer
  <1>2. Fit(app, app.turns) /\ app \in AppType
        /\ inputs \in Seq([turn : Nat, prompt : Nat])
    BY DEF Sound, StoreSound, Fit, ServerSound
  <1>3. a \in AppType /\ Returned(app, a)
    BY <1>2, EchoData
  <1>4. Head(inputs) \in [turn : Nat, prompt : Nat]
        /\ Tail(inputs) \in Seq([turn : Nat, prompt : Nat])
    BY <1>1, <1>2, HeadTailProperties
  <1>5. p \in Nat
    BY <1>4
  <1> HIDE DEF a, p
  <1>6. Fit(a, app.turns) /\ Plain(app, a) /\ Plain(app, app)
    BY <1>2, <1>3, ReturnedFit DEF Plain, Unsubmitted
  <1>7. inbox' = inbox /\ server' = server
    BY <1>1 DEF budgetVars
  <1>8. StoreSound' /\ LinesSound' /\ DOMAIN app.turns \subseteq DOMAIN app'.turns
    BY <1>1, <1>2, <1>6, <1>7, KeepsSound
  <1>9. ServerSound'
    BY <1>1, <1>4, <1>8 DEF Sound, ServerSound
  <1>10. BudgetSound'
    BY <1>1, <1>5, BudgetKept DEF Sound, BudgetSound, budgetVars
  <1> QED BY <1>8, <1>9, <1>10 DEF Sound

LEMMA OtherFailsSound == ASSUME Sound, NEW kind, OtherRequestFails(kind) PROVE Sound'
  <1>1. /\ Keeps(SendRefused(app)) \/ Keeps(Failed(app))
        /\ \E k : Fault(k)
        /\ UNCHANGED <<inbox, link, serverVars, typed, answered, server, own>>
    BY DEF OtherRequestFails
  <1>2. Fit(app, app.turns) /\ app \in AppType
    BY DEF Sound, StoreSound, Fit
  <1>3. Fit(SendRefused(app), app.turns) /\ Plain(app, SendRefused(app))
    BY <1>2, SendRefusedData, BackedOffFit
  <1>4. Fit(Failed(app), app.turns) /\ Plain(app, Failed(app))
    BY <1>2, FailedFit
  <1>5. inbox' = inbox /\ server' = server
    BY <1>1
  <1>6. StoreSound' /\ LinesSound' /\ Extends(app.turns, app'.turns)
    BY <1>1, <1>3, <1>4, <1>5, KeepsSound
  <1>7. ServerSound'
    BY <1>1, <1>6, ServerKept
  <1>8. BudgetSound'
    BY <1>1, BudgetKept DEF Sound, BudgetSound
  <1> QED BY <1>6, <1>7, <1>8 DEF Sound

(* The answer to a steer pops its entry of the stash. *)
LEMMA PoppedSound ==
    ASSUME Sound, server' = server, NEW b, link = "down" => b.turns = app.turns,
           NEW a \in AppType,
           Fit(b, b.turns), Extends(app.turns, b.turns), b.out = <<>>,
           b.stash = app.stash, b.steering = app.steering, app.stash # <<>>, Popped(b, a),
           a.retained \in {b.retained, Append(b.retained, Head(b.stash))},
           NEW w, Lines(inbox', w, app.turns, Tail(app.stash)), Run(a, w)
    PROVE  StoreSound' /\ LinesSound' /\ Extends(app.turns, app'.turns)
  <1>1. Fit(a, b.turns)
    BY PoppedFit
  <1>2. a.stash = Tail(app.stash) /\ a.steering = app.steering /\ a.out = <<>>
    BY DEF Popped, Unsubmitted
  <1>3. Issues(a, Requests \ {"steer"})
    BY <1>2 DEF Issues
  <1> QED BY <1>1, <1>2, <1>3, RunSound

LEMMA AcceptSteerSound == ASSUME Sound, AcceptSteer PROVE Sound'
  <1> DEFINE a == SteeredInto(app)
             e == [turn |-> Head(wire).turn, prompt |-> Head(wire).prompt]
  <1>1. /\ Takes("steer") /\ inputs' = Append(inputs, e) /\ Run(a, Tail(wire))
        /\ UNCHANGED <<inbox, link, accepted, running, over, typed, answered, budgetVars>>
    BY DEF AcceptSteer
  <1>2. Fit(app, app.turns) /\ app \in AppType /\ app.out = <<>>
        /\ Extends(app.turns, app.turns)
    BY DEF Sound, StoreSound, Fit
  <1>3. /\ link = "up" /\ inbox = <<>> /\ app.stash # <<>> /\ Head(wire) \in CmdType
        /\ Lines(inbox', Tail(wire), app.turns, Tail(app.stash))
    BY <1>1, TakesFacts
  <1>4. a \in AppType /\ Popped(app, a) /\ a.retained = Append(app.retained, Head(app.stash))
    BY <1>2, <1>3, SteeredIntoData
  <1>5. e \in [turn : Nat, prompt : Nat]
    BY <1>3 DEF CmdType
  <1> HIDE DEF a, e
  <1>6. server' = server
    BY <1>1 DEF budgetVars
  <1>7. StoreSound' /\ LinesSound' /\ Extends(app.turns, app'.turns)
    BY <1>1, <1>2, <1>3, <1>4, <1>6, PoppedSound
  <1>8. ServerSound'
    <2>1. app.turns \in TurnTables /\ app'.turns \in TurnTables
      BY <1>2, <1>7, Fields DEF StoreSound, Fit
    <2>2. DOMAIN app.turns \subseteq DOMAIN app'.turns
      BY <1>7, <2>1, ExtendsTwice DEF Extends
    <2>3. inputs' \in Seq([turn : Nat, prompt : Nat])
      BY <1>1, <1>5, AppendProperties DEF Sound, ServerSound
    <2> QED BY <1>1, <2>2, <2>3 DEF Sound, ServerSound
  <1>9. BudgetSound'
    BY <1>1 DEF Sound, BudgetSound, budgetVars
  <1> QED BY <1>7, <1>8, <1>9 DEF Sound

LEMMA RefuseSteerSound == ASSUME Sound, RefuseSteer PROVE Sound'
  <1> DEFINE a == SteerFailed(app)
  <1>1. /\ Takes("steer") /\ Fault("no steer") /\ Run(a, Tail(wire))
        /\ UNCHANGED <<inbox, link, serverVars, typed, answered, server, own>>
    BY DEF RefuseSteer
  <1>2. Fit(app, app.turns) /\ app \in AppType /\ app.out = <<>>
        /\ Extends(app.turns, app.turns)
    BY DEF Sound, StoreSound, Fit
  <1>3. /\ link = "up" /\ inbox = <<>> /\ app.stash # <<>>
        /\ Lines(inbox', Tail(wire), app.turns, Tail(app.stash))
    BY <1>1, TakesFacts
  <1>4. a \in AppType /\ Popped(app, a) /\ a.retained = app.retained
    BY <1>2, <1>3, SteerFailedData
  <1> HIDE DEF a
  <1>5. StoreSound' /\ LinesSound' /\ Extends(app.turns, app'.turns)
    BY <1>1, <1>2, <1>3, <1>4, PoppedSound
  <1>6. ServerSound'
    BY <1>1, <1>5, ServerKept
  <1>7. BudgetSound'
    BY <1>1, BudgetKept DEF Sound, BudgetSound
  <1> QED BY <1>5, <1>6, <1>7 DEF Sound

(* The server gives a turn of its own a place in the table. *)
LEMMA ExtendedFit ==
    ASSUME NEW a, Fit(a, a.turns), NEW e \in TurnType
    PROVE  LET b == [a EXCEPT !.turns = Append(@, e)]
           IN  /\ b \in AppType /\ Fit(b, b.turns) /\ Extends(a.turns, b.turns)
               /\ b.turns = Append(a.turns, e) /\ Len(a.turns) + 1 \in DOMAIN b.turns
               /\ DOMAIN a.turns \subseteq DOMAIN b.turns
               /\ Apart(a, b) /\ b.out = a.out
               /\ b.gate = a.gate /\ b.pre = a.pre /\ b.run = a.run
  <1> DEFINE U == Append(a.turns, e)
             b == [a EXCEPT !.turns = U]
  <1>1. a \in AppType /\ a.turns \in TurnTables
    BY Fields DEF Fit
  <1>2. /\ U \in TurnTables /\ Len(U) = Len(a.turns) + 1
        /\ \A t \in DOMAIN a.turns : U[t] = a.turns[t]
        /\ Len(a.turns) \in Nat /\ DOMAIN U = 1..Len(U)
    BY <1>1, TableFacts
  <1> HIDE DEF U
  <1>3. Extends(a.turns, U) /\ Extends(U, U) /\ Len(a.turns) + 1 \in DOMAIN U
    BY <1>2 DEF Extends
  <1>4. DOMAIN a.turns \subseteq DOMAIN U
    BY <1>1, <1>2, <1>3, ExtendsTwice
  <1>5. /\ b \in AppType /\ b.out = a.out /\ b.turns = U /\ Apart(a, b)
        /\ b.gate = a.gate /\ b.pre = a.pre /\ b.run = a.run
    BY <1>1, <1>2, Unsent
  <1> HIDE DEF b
  <1>6. Refs(b, a.turns)
    BY <1>5 DEF Fit, Refs, Apart, SameLatch, SameSteers
  <1>7. Fit(b, b.turns)
    BY <1>1, <1>2, <1>3, <1>5, <1>6, RefsGrow DEF Fit
  <1> QED BY <1>3, <1>4, <1>5, <1>7 DEF b, U

LEMMA StartForSteerSound == ASSUME Sound, StartForSteer PROVE Sound'
  <1> DEFINE t == Len(app.turns) + 1
             e == [sess |-> Head(wire).sess, prompt |-> Head(wire).prompt]
             b == [app EXCEPT !.turns = Append(@, e)]
             a == SteerStartedTurn(b)
  <1>1. /\ Takes("steer") /\ accepted' = accepted \cup {t} /\ Run(a, Tail(wire))
        /\ misled' = misled \cup {"minted"}
        /\ UNCHANGED <<inbox, link, running, over, inputs, typed, answered, server, faults, own>>
    BY DEF StartForSteer
  <1>2. Fit(app, app.turns) /\ app.out = <<>>
    BY DEF Sound, StoreSound
  <1>3. /\ link = "up" /\ inbox = <<>> /\ app.stash # <<>> /\ Head(wire) \in CmdType
        /\ Lines(inbox', Tail(wire), app.turns, Tail(app.stash))
    BY <1>1, TakesFacts
  <1>4. e \in TurnType
    BY <1>3 DEF CmdType, TurnType
  <1> HIDE DEF e
  <1>5. /\ b \in AppType /\ Fit(b, b.turns) /\ Extends(app.turns, b.turns)
        /\ t \in DOMAIN b.turns /\ Apart(app, b) /\ b.out = <<>>
    BY <1>2, <1>4, ExtendedFit
  <1> HIDE DEF b, t
  <1>6. b.stash = app.stash /\ b.steering = app.steering
    BY <1>5 DEF Apart, SameSteers
  <1>7. a \in AppType /\ Popped(b, a) /\ a.retained = b.retained
    BY <1>3, <1>5, <1>6, SteerStartedTurnData
  <1> HIDE DEF a
  <1>8. StoreSound' /\ LinesSound' /\ Extends(app.turns, app'.turns)
    BY <1>1, <1>3, <1>5, <1>6, <1>7, PoppedSound
  <1>9. Extends(b.turns, app'.turns)
    <2>1. app' = [a EXCEPT !.out = <<>>]
      BY <1>1, <1>3 DEF Run
    <2>2. app'.turns = b.turns
      BY <1>7, <2>1, HandedOver DEF Popped, Unsubmitted
    <2> QED BY <1>5, <2>2 DEF Fit
  <1>10. ServerSound'
    <2>1. app.turns \in TurnTables /\ app'.turns \in TurnTables /\ b.turns \in TurnTables
      BY <1>2, <1>5, <1>8, Fields DEF StoreSound, Fit
    <2>2. DOMAIN app.turns \subseteq DOMAIN app'.turns
      BY <1>8, <2>1, ExtendsTwice DEF Extends
    <2>3. t \in DOMAIN app'.turns
      BY <1>5, <1>9, <2>1, ExtendsTwice DEF Extends
    <2> QED BY <1>1, <2>2, <2>3 DEF Sound, ServerSound
  <1>11. BudgetSound'
    BY <1>1 DEF Sound, BudgetSound, Misleading
  <1> QED BY <1>8, <1>10, <1>11 DEF Sound

LEMMA StartOwnTurnSound ==
    ASSUME Sound, NEW s \in Sessions, StartOwnTurn(s)
    PROVE  Sound'
  <1> DEFINE t == Len(app.turns) + 1
             e == [sess |-> s, prompt |-> None]
             b == [app EXCEPT !.turns = Append(@, e)]
  <1>1. /\ Listens /\ own < server.own /\ own' = own + 1 /\ running' = running \cup {t}
        /\ Keeps(Started(b, t)) \/ Keeps(b)
        /\ misled' = misled \cup {"own"}
        /\ UNCHANGED <<inbox, link, accepted, over, inputs, typed, answered, server, faults>>
    BY DEF StartOwnTurn
  <1>2. Fit(app, app.turns) /\ app.out = <<>>
    BY DEF Sound, StoreSound
  <1>3. e \in TurnType
    BY DEF TurnType, None
  <1> HIDE DEF e
  <1>4. /\ b \in AppType /\ Fit(b, b.turns) /\ Extends(app.turns, b.turns)
        /\ t \in DOMAIN b.turns /\ Apart(app, b) /\ b.out = <<>>
    BY <1>2, <1>3, ExtendedFit
  <1> HIDE DEF b, t
  <1>5. Fit(Started(b, t), b.turns) /\ Plain(b, Started(b, t))
    BY <1>4, StartedFit
  <1> PICK a : (a = Started(b, t) \/ a = b) /\ Keeps(a)
    BY <1>1
  <1>6. Fit(a, b.turns) /\ Plain(b, a)
    BY <1>4, <1>5 DEF Plain, Unsubmitted
  <1>7. Issues(a, Requests \ {"steer"})
    BY <1>4, <1>6, PlainIssues DEF Fit
  <1>8. a.stash = app.stash /\ a.steering = app.steering
    BY <1>4, <1>6 DEF Plain, Apart, SameSteers
  <1>9. link # "down" /\ Run(a, wire) /\ Lines(inbox', wire, app.turns, a.stash)
    BY <1>1, <1>8 DEF Listens, Keeps, Sound, LinesSound
  <1>10. StoreSound' /\ LinesSound' /\ Extends(app.turns, app'.turns)
    BY <1>1, <1>4, <1>6, <1>7, <1>8, <1>9, RunSound
  <1>11. Extends(b.turns, app'.turns)
    <2>1. app' = [a EXCEPT !.out = <<>>]
      BY <1>9 DEF Run
    <2>2. app'.turns = a.turns
      BY <1>6, <2>1, HandedOver DEF Fit
    <2> QED BY <1>6, <2>2 DEF Fit
  <1>12. ServerSound'
    <2>1. app.turns \in TurnTables /\ app'.turns \in TurnTables /\ b.turns \in TurnTables
      BY <1>2, <1>4, <1>10, Fields DEF StoreSound, Fit
    <2>2. DOMAIN app.turns \subseteq DOMAIN app'.turns
      BY <1>10, <2>1, ExtendsTwice DEF Extends
    <2>3. t \in DOMAIN app'.turns
      BY <1>4, <1>11, <2>1, ExtendsTwice DEF Extends
    <2> QED BY <1>1, <2>2, <2>3 DEF Sound, ServerSound
  <1>13. BudgetSound'
    <2>1. server \in ServerType /\ own \in 0..server.own
      BY ConstantsAssumption DEF Sound, BudgetSound
    <2>2. own' \in 0..server.own
      BY <1>1, <2>1 DEF ServerType
    <2> QED BY <1>1, <2>2 DEF Sound, BudgetSound, Misleading
  <1> QED BY <1>10, <1>12, <1>13 DEF Sound

(* The child dies and comes back. *)
LEMMA LinkSound ==
    ASSUME Sound, LinkDies \/ LinkBoots \/ LinkOpens
    PROVE  Sound'
  <1>1. app' = app /\ inbox = <<>> /\ UNCHANGED <<typed, answered, server, own>>
    BY DEF LinkDies, LinkBoots, LinkOpens, Listens, budgetVars
  <1>2. Lines(<<>>, wire, app.turns, app.stash)
    BY <1>1 DEF Sound, LinesSound
  <1>3. StoreSound'
    BY <1>1 DEF Sound, StoreSound
  <1>4. CASE LinkDies
    <2>1. /\ link' = "down" /\ wire' = <<>> /\ Fault("death")
          /\ inbox' = inbox \o [i \in DOMAIN wire |-> [event |-> "cancelled", cmd |-> wire[i]]]
          /\ accepted' = {} /\ running' = {} /\ inputs' = <<>> /\ over' = over \cup running
      BY <1>4 DEF LinkDies
    <2>2. LinesSound'
      BY <1>1, <1>2, <2>1, LinesDie DEF LinesSound
    <2>3. ServerSound'
      BY <1>1, <2>1 DEF Sound, ServerSound
    <2>4. BudgetSound'
      BY <1>1, <2>1, BudgetKept DEF Sound
    <2> QED BY <1>3, <2>2, <2>3, <2>4 DEF Sound
  <1>5. CASE LinkBoots \/ LinkOpens
    <2>1. /\ \E event \in {"epoch", "relaunched"} : inbox' = Append(<<>>, Signal(event))
          /\ wire' = wire /\ link' \in {"booting", "up"}
          /\ UNCHANGED <<serverVars, budgetVars>>
      BY <1>1, <1>5 DEF LinkBoots, LinkOpens
    <2>2. LinesSound'
      BY <1>1, <1>2, <2>1, LinesSignal DEF LinesSound
    <2>3. ServerSound'
      BY <1>1, <2>1 DEF Sound, ServerSound, serverVars
    <2>4. BudgetSound'
      BY <1>1, <2>1 DEF Sound, BudgetSound, budgetVars
    <2> QED BY <1>3, <2>2, <2>3, <2>4 DEF Sound
  <1> QED BY <1>4, <1>5

LEMMA HydratingData ==
    ASSUME NEW a \in AppType, NEW s
    PROVE  LET b == [a EXCEPT !.hydrating = @ \ {s}]
           IN  /\ b \in AppType /\ Apart(a, b) /\ Unsubmitted(a, b) /\ b.queue = a.queue
               /\ b.gate = a.gate /\ b.pre = a.pre /\ b.run = a.run
  <1> DEFINE h == a.hydrating \ {s}
  <1>1. h \in SUBSET Sessions
    BY Fields
  <1> HIDE DEF h
  <1>2. LET b == [a EXCEPT !.hydrating = h]
        IN  /\ b \in AppType /\ Apart(a, b) /\ Unsubmitted(a, b) /\ b.queue = a.queue
            /\ b.gate = a.gate /\ b.pre = a.pre /\ b.run = a.run
    BY <1>1 DEF AppType, Apart, SameLatch, SameSteers, SameStop, Unsubmitted
  <1> QED BY <1>2 DEF h

(* The connection epoch moves on. *)
LEMMA EpochData ==
    ASSUME NEW a \in AppType
    PROVE  LET b == [a EXCEPT !.conn = @ + 1]
           IN  /\ b \in AppType /\ b.sel = a.sel /\ b.live = a.live /\ b.epoch = a.epoch
               /\ b.conn = a.conn + 1 /\ b.done = a.done /\ b.switched = a.switched
               /\ SameSteers(a, b) /\ SameStop(a, b) /\ Unsubmitted(a, b)
               /\ b.gate = a.gate /\ b.pre = a.pre /\ b.run = a.run /\ b.queue = a.queue
  <1> DEFINE n == a.conn + 1
  <1>1. n \in Nat
    BY Fields
  <1> HIDE DEF n
  <1>2. LET b == [a EXCEPT !.conn = n]
        IN  /\ b \in AppType /\ b.sel = a.sel /\ b.live = a.live /\ b.epoch = a.epoch
            /\ b.conn = n /\ b.done = a.done /\ b.switched = a.switched
            /\ SameSteers(a, b) /\ SameStop(a, b) /\ Unsubmitted(a, b)
            /\ b.gate = a.gate /\ b.pre = a.pre /\ b.run = a.run /\ b.queue = a.queue
    BY <1>1 DEF AppType, SameSteers, SameStop, Unsubmitted
  <1> QED BY <1>2 DEF n

(* A cancelled request, other than a steer. *)
LEMMA CancelledFit ==
    ASSUME NEW a, NEW T, Fit(a, T), NEW c \in CmdType, c.kind \in Requests \ {"steer"}
    PROVE  LET b == Cancelled(a, c) IN Fit(b, T) /\ Plain(a, b)
  <1>1. a \in AppType
    BY DEF Fit
  <1>2. CASE c.kind = "start"
    <2>1. Cancelled(a, c) = StartCancelled(a)
      BY <1>2 DEF Cancelled
    <2>2. StartCancelled(a) \in AppType /\ BackedOff(a, StartCancelled(a), Sessions)
      BY <1>1, StartCancelledData
    <2>3. Fit(StartCancelled(a), T) /\ Plain(a, StartCancelled(a))
      BY <2>2, BackedOffFit
    <2> QED BY <2>1, <2>3
  <1>3. CASE c.kind = "hydrate"
    <2> DEFINE h == [a EXCEPT !.hydrating = @ \ {c.sess}]
    <2>1. Cancelled(a, c) = Failed(h)
      BY <1>3 DEF Cancelled
    <2>2. h \in AppType /\ Apart(a, h) /\ Unsubmitted(a, h)
      BY <1>1, HydratingData
    <2> HIDE DEF h
    <2>3. Fit(h, T) /\ Silent(a, h)
      BY <2>2, ApartFit DEF Apart, Unsubmitted, Silent, SameSteers
    <2>4. Fit(Failed(h), T) /\ Plain(h, Failed(h))
      BY <2>3, FailedFit
    <2>5. Plain(a, Failed(h))
      BY <2>3, <2>4, SilentThen
    <2> QED BY <2>1, <2>4, <2>5
  <1>4. CASE c.kind = "interrupt"
    <2>1. Cancelled(a, c) = Failed(a)
      BY <1>4 DEF Cancelled
    <2> QED BY <2>1, FailedFit
  <1> QED BY <1>2, <1>3, <1>4 DEF Requests

LEMMA ReadInboxSound == ASSUME Sound, ReadInbox PROVE Sound'
  <1> DEFINE e == Head(inbox)
             a == CASE e.event = "cancelled" -> Cancelled(app, e.cmd)
                    [] e.event = "epoch" -> [app EXCEPT !.conn = @ + 1]
                    [] e.event = "relaunched" -> Relaunched(app)
  <1>1. /\ inbox # <<>> /\ inbox' = Tail(inbox) /\ Run(a, wire)
        /\ UNCHANGED <<link, serverVars, typed, answered, budgetVars>>
    BY DEF ReadInbox, Keeps
  <1>2. Fit(app, app.turns) /\ app \in AppType /\ app.out = <<>> /\ app.stash \in Stashes
        /\ Lines(inbox, wire, app.turns, app.stash) /\ Extends(app.turns, app.turns)
    BY Fields DEF Sound, StoreSound, Fit, LinesSound
  <1>3. /\ e \in EventType /\ SoundEvent(e)
        /\ e.cmd.kind # "steer" => Lines(inbox', wire, app.turns, app.stash)
        /\ e.cmd.kind = "steer" => /\ app.stash # <<>>
                                   /\ Lines(inbox', wire, app.turns, Tail(app.stash))
    BY <1>1, <1>2, LinesRead
  <1>4. e.event \in {"cancelled", "epoch", "relaunched"} /\ e.cmd \in CmdType
    BY <1>3 DEF EventType
  <1> HIDE DEF e
  <1>5. server' = server
    BY <1>1 DEF budgetVars
  <1>6. StoreSound' /\ LinesSound' /\ Extends(app.turns, app'.turns)
    <2>1. CASE e.event = "cancelled" /\ e.cmd.kind = "steer"
      <3> DEFINE b == SteerFailed(app)
      <3>1. a = b
        BY <2>1 DEF Cancelled
      <3>2. b \in AppType /\ Popped(app, b) /\ b.retained = app.retained
        BY <1>2, <1>3, <2>1, SteerFailedData
      <3>3. Run(b, wire)
        BY <1>1, <3>1
      <3> HIDE DEF a, b
      <3>4. Lines(inbox', wire, app.turns, Tail(app.stash)) /\ app.stash # <<>>
        BY <1>3, <2>1
      <3> QED BY <1>2, <1>5, <3>2, <3>3, <3>4, PoppedSound
    <2>2. CASE e.event = "cancelled" /\ e.cmd.kind # "steer"
      <3> DEFINE b == Cancelled(app, e.cmd)
      <3>1. a = b /\ e.cmd.kind \in Requests \ {"steer"}
        BY <1>3, <2>2 DEF SoundEvent
      <3>2. Fit(b, app.turns) /\ Plain(app, b)
        BY <1>2, <1>4, <3>1, CancelledFit
      <3>3. Run(b, wire)
        BY <1>1, <3>1
      <3> HIDE DEF a, b
      <3> QED BY <1>3, <1>5, <2>2, <3>2, <3>3, PlainSound
    <2>3. CASE e.event = "epoch"
      <3> DEFINE b == [app EXCEPT !.conn = @ + 1]
      <3>1. a = b /\ e.cmd.kind # "steer"
        BY <1>3, <2>3 DEF SoundEvent
      <3>2. /\ b \in AppType /\ b.live = app.live /\ b.done = app.done
            /\ b.switched = app.switched /\ SameSteers(app, b) /\ Unsubmitted(app, b)
        BY <1>2, EpochData
      <3>3. Run(b, wire)
        BY <1>1, <3>1
      <3> HIDE DEF a, b
      <3>4. Fit(b, app.turns) /\ Plain(app, b)
        BY <1>2, <3>2 DEF Fit, Refs, SameSteers, Plain, Unsubmitted
      <3> QED BY <1>3, <1>5, <3>1, <3>3, <3>4, PlainSound
    <2>4. CASE e.event = "relaunched"
      <3> DEFINE b == Relaunched(app)
      <3>1. a = b /\ e.cmd.kind # "steer"
        BY <1>3, <2>4 DEF SoundEvent
      <3>2. Fit(b, app.turns) /\ Plain(app, b)
        BY <1>2, RelaunchedFit
      <3>3. Run(b, wire)
        BY <1>1, <3>1
      <3> HIDE DEF a, b
      <3> QED BY <1>3, <1>5, <3>1, <3>2, <3>3, PlainSound
    <2> QED BY <1>4, <2>1, <2>2, <2>3, <2>4
  <1>7. ServerSound'
    BY <1>1, <1>6, ServerKept
  <1>8. BudgetSound'
    BY <1>1 DEF Sound, BudgetSound, budgetVars
  <1> QED BY <1>6, <1>7, <1>8 DEF Sound

LEMMA ServerStepsSound == ASSUME Sound, ServerSteps PROVE Sound'
  <1>1. CASE AcceptStart \/ DropStart \/ TakeInterrupt
    BY <1>1, AnswerSound
  <1>2. CASE RefuseStart
    BY <1>2, RefuseStartSound
  <1>3. CASE AcceptSteer \/ StartForSteer \/ RefuseSteer
    BY <1>3, AcceptSteerSound, StartForSteerSound, RefuseSteerSound
  <1>4. CASE \E stale \in (over \cap app.done) \cup {None} : AnswerHydrate(stale)
    BY <1>4, AnswerHydrateSound
  <1>5. CASE \E t \in accepted : StartTurn(t) \/ RejectTurn(t)
    BY <1>5, StartTurnSound, RejectTurnSound
  <1>6. CASE \E s \in Sessions : StartOwnTurn(s)
    BY <1>6, StartOwnTurnSound
  <1>7. CASE ConsumeSteer
    BY <1>7, ConsumeSteerSound
  <1>8. CASE \E t \in running \cup over : Stream(t)
    BY <1>8, StreamSound
  <1>9. CASE \E t \in running : DropSteers(t) \/ Abort(t)
    BY <1>9, DropSteersSound, EndsSound DEF Abort
  <1>10. CASE \E t \in running, o \in {"success", "error", "idle"} : Complete(t, o)
    BY <1>10, EndsSound DEF Complete
  <1>11. CASE \E kind \in {"error", "cap"} : OtherRequestFails(kind)
    BY <1>11, OtherFailsSound
  <1> QED BY <1>1, <1>2, <1>3, <1>4, <1>5, <1>6, <1>7, <1>8, <1>9, <1>10, <1>11
          DEF ServerSteps

LEMMA InitApp ==
    ASSUME Init
    PROVE  /\ app \in AppType /\ app.turns = <<>> /\ app.out = <<>> /\ app.stash = <<>>
           /\ app.retained = <<>> /\ app.steering = server.steering
           /\ app.done = {} /\ app.switched = {} /\ app.conn = 0
           /\ \A s \in Sessions : /\ app.live[s] = None /\ app.epoch[s] = 0
                                  /\ app.gate[s] = NoGate /\ app.pre[s] = "none"
                                  /\ app.interrupted[s] = None
           /\ app.run = "idle"
  <1>1. server \in ServerType /\ Home \in Sessions
    BY ConstantsAssumption DEF Init
  <1>2. server.steering \in Steerings
    BY <1>1 DEF ServerType, Steerings
  <1>3. <<>> \in Seq(PromptNo) /\ <<>> \in Stashes /\ <<>> \in TurnTables /\ <<>> \in Outputs
    BY DEF Stashes, TurnTables, Outputs
  <1>4. NoGate \in GateType
    BY DEF NoGate, GateType, None
  <1>5. /\ [s \in Sessions |-> <<>>] \in Queues /\ [s \in Sessions |-> NoGate] \in Gates
        /\ [s \in Sessions |-> None] \in Marks /\ [s \in Sessions |-> 0] \in Marks
        /\ [s \in Sessions |-> "none"] \in Markers /\ {} \in Refreshes
    BY <1>3, <1>4 DEF Queues, Gates, Marks, Markers, Refreshes, None
  <1> DEFINE q == [s \in Sessions |-> <<>>]
             g == [s \in Sessions |-> NoGate]
             l == [s \in Sessions |-> None]
             e == [s \in Sessions |-> 0]
             m == [s \in Sessions |-> "none"]
  <1>6. app = [sel |-> Home, queue |-> q, gate |-> g, live |-> l, epoch |-> e, conn |-> 0,
               pre |-> m, run |-> "idle", interrupted |-> l, withheld |-> {}, done |-> {},
               switched |-> {}, started |-> l, probed |-> {}, hydrating |-> {},
               refreshed |-> {}, stash |-> <<>>, retained |-> <<>>,
               steering |-> server.steering, turns |-> <<>>, out |-> <<>>]
    BY DEF Init
  <1>7. \A s \in Sessions : l[s] = None /\ e[s] = 0 /\ g[s] = NoGate /\ m[s] = "none"
    OBVIOUS
  <1> HIDE DEF q, g, l, e, m
  <1>8. app \in AppType
    BY <1>1, <1>2, <1>3, <1>5, <1>6 DEF AppType, RunStates, q, g, l, e, m
  <1> QED BY <1>6, <1>7, <1>8

LEMMA InitSound == Init => Sound
  <1> SUFFICES ASSUME Init PROVE Sound
    OBVIOUS
  <1>1. StoreSound
    <2>1. <<>> \in TurnTables
      BY InitApp, Fields
    <2>2. Extends(<<>>, <<>>)
      BY <2>1, TableFacts DEF Extends
    <2>3. \A i \in DOMAIN <<>> : FALSE
      OBVIOUS
    <2>4. Refs(app, <<>>)
      BY <2>3, InitApp DEF Refs
    <2> QED BY <2>1, <2>2, <2>4, InitApp DEF StoreSound, Fit
  <1>2. LinesSound
    <2>1. wire = <<>> /\ inbox = <<>> /\ app.stash = <<>>
      BY InitApp DEF Init
    <2>2. UnderWay(<<>>, <<>>) = <<>>
      BY SteersNone, ConcatEmptySeq DEF UnderWay
    <2>3. Match(<<>>, <<>>)
      BY DEF Match
    <2>4. \A i \in DOMAIN <<>> : FALSE
      OBVIOUS
    <2>5. <<>> \in Seq(CmdType) /\ <<>> \in Seq(EventType)
      OBVIOUS
    <2> QED BY <2>1, <2>2, <2>3, <2>4, <2>5 DEF LinesSound, Lines
  <1>3. ServerSound
    BY DEF Init, ServerSound
  <1>4. BudgetSound
    <2>1. server \in ServerType
      BY ConstantsAssumption DEF Init
    <2>2. 0 \in 0..server.faults /\ 0 \in 0..server.own
      BY <2>1 DEF ServerType
    <2> QED BY <2>2 DEF Init, BudgetSound
  <1> QED BY <1>1, <1>2, <1>3, <1>4 DEF Sound

LEMMA NextSound == Sound /\ [Next]_vars => Sound'
  <1> SUFFICES ASSUME Sound, [Next]_vars PROVE Sound'
    OBVIOUS
  <1>1. CASE User \/ Clock
    BY <1>1, UserSound, ClockSound
  <1>2. CASE ServerSteps
    BY <1>2, ServerStepsSound
  <1>3. CASE LinkDies \/ LinkBoots \/ LinkOpens \/ ReadInbox
    BY <1>3, LinkSound, ReadInboxSound
  <1>4. CASE UNCHANGED vars
    BY <1>4 DEF vars, Sound, StoreSound, LinesSound, ServerSound, BudgetSound
  <1> QED BY <1>1, <1>2, <1>3, <1>4 DEF Next

LEMMA AlwaysSound == Spec => []Sound
  BY InitSound, NextSound, PTL DEF Spec

(* Every value is of its type, whatever the servers, the sessions and the   *)
(* bounds: a handler never reads the entry of an empty stash, nor the       *)
(* session of a turn the store has no record of.                            *)
THEOREM TypeCorrect == Spec => []TypeOK
  BY AlwaysSound, SoundIsTyped, PTL

(* The stash answers to the steers under way, in their order, as long as no *)
(* steer is typed while there is no child to send it to: the answer to a    *)
(* steer pops the entry of that steer.                                      *)
THEOREM StashAnswersInOrder == ASSUME ~BusyBoots PROVE Spec => []StashMatches
  <1>1. SteersUnderWay = UnderWay(inbox, wire)
    BY DEF SteersUnderWay, UnderWay, SteersOf, CmdsOf, Select
  <1>2. Sound => StashMatches
    BY <1>1 DEF Sound, LinesSound, Lines, Match, StashMatches
  <1> QED BY <1>2, AlwaysSound, PTL

-----------------------------------------------------------------------------
(* The turns the server ran, and what the store holds of them.             *)

StartPlaces(w) == {i \in DOMAIN w : w[i].kind = "start"}
Starts(w) == {w[i].turn : i \in StartPlaces(w)}
Distinct(w) == \A i, j \in StartPlaces(w) : w[i].turn = w[j].turn => i = j

LEMMA StartsAppend ==
    ASSUME NEW w \in Seq(CmdType), NEW c \in CmdType
    PROVE  LET v == Append(w, c)
           IN  /\ c.kind # "start" => Starts(v) = Starts(w) /\ (Distinct(w) => Distinct(v))
               /\ c.kind = "start" =>
                     /\ Starts(v) = Starts(w) \cup {c.turn}
                     /\ Distinct(w) /\ c.turn \notin Starts(w) => Distinct(v)
  <1> DEFINE v == Append(w, c)
             n == Len(w) + 1
  <1>1. /\ DOMAIN v = DOMAIN w \cup {n} /\ n \notin DOMAIN w /\ v[n] = c
        /\ \A i \in DOMAIN w : v[i] = w[i]
    BY AppendProperties
  <1> HIDE DEF v, n
  <1>2. ASSUME c.kind # "start"
        PROVE  Starts(v) = Starts(w) /\ (Distinct(w) => Distinct(v))
    <2>1. StartPlaces(v) = StartPlaces(w)
      BY <1>1, <1>2 DEF StartPlaces
    <2>2. \A i \in StartPlaces(w) : v[i] = w[i]
      BY <1>1 DEF StartPlaces
    <2> QED BY <2>1, <2>2 DEF Starts, Distinct
  <1>3. ASSUME c.kind = "start"
        PROVE  /\ Starts(v) = Starts(w) \cup {c.turn}
               /\ Distinct(w) /\ c.turn \notin Starts(w) => Distinct(v)
    <2>1. StartPlaces(v) = StartPlaces(w) \cup {n}
      BY <1>1, <1>3 DEF StartPlaces
    <2>2. \A i \in StartPlaces(w) : v[i] = w[i] /\ w[i].turn \in Starts(w)
      BY <1>1 DEF StartPlaces, Starts
    <2>3. Starts(v) = Starts(w) \cup {c.turn}
      BY <1>1, <2>1, <2>2 DEF Starts
    <2>4. Distinct(w) /\ c.turn \notin Starts(w) => Distinct(v)
      BY <1>1, <2>1, <2>2 DEF Distinct
    <2> QED BY <2>3, <2>4
  <1> QED BY <1>2, <1>3 DEF v

LEMMA StartsTail ==
    ASSUME NEW w \in Seq(CmdType), w # <<>>
    PROVE  /\ Starts(Tail(w)) \subseteq Starts(w)
           /\ Distinct(w) => Distinct(Tail(w))
           /\ Distinct(w) /\ Head(w).kind = "start" =>
                 Head(w).turn \in Starts(w) \ Starts(Tail(w))
  <1> DEFINE v == Tail(w)
  <1>1. /\ Head(w) = w[1] /\ 1 \in DOMAIN w /\ DOMAIN v \subseteq Nat \ {0}
        /\ \A i \in DOMAIN v : i + 1 \in DOMAIN w /\ v[i] = w[i + 1]
    BY HeadTailProperties
  <1> HIDE DEF v
  <1>2. \A i \in StartPlaces(v) : i + 1 \in StartPlaces(w) /\ v[i] = w[i + 1] /\ i \in Nat /\ i # 0
    BY <1>1 DEF StartPlaces
  <1>3. Starts(v) \subseteq Starts(w)
    BY <1>2 DEF Starts
  <1>4. ASSUME Distinct(w) PROVE Distinct(v)
    <2> SUFFICES ASSUME NEW i \in StartPlaces(v), NEW j \in StartPlaces(v), v[i].turn = v[j].turn
                 PROVE  i = j
      BY DEF Distinct
    <2>1. i + 1 = j + 1
      BY <1>2, <1>4 DEF Distinct
    <2> QED BY <1>2, <2>1
  <1>5. ASSUME Distinct(w), Head(w).kind = "start"
        PROVE  Head(w).turn \in Starts(w) \ Starts(v)
    <2>1. 1 \in StartPlaces(w) /\ Head(w).turn = w[1].turn
      BY <1>1, <1>5 DEF StartPlaces
    <2>2. Head(w).turn \in Starts(w)
      BY <2>1 DEF Starts
    <2>3. ASSUME NEW i \in StartPlaces(v), v[i].turn = Head(w).turn PROVE FALSE
      <3>1. i + 1 = 1
        BY <1>2, <1>5, <2>1, <2>3 DEF Distinct
      <3> QED BY <1>2, <3>1
    <2> QED BY <2>2, <2>3 DEF Starts
  <1> QED BY <1>3, <1>4, <1>5 DEF v

(* The turns st are to be started, the server accepted acc, runs run and ran *)
(* ov. The store calls none of the first three finished; what it shows      *)
(* belongs to the others, and to the connection it was started on.          *)
Ran(st, acc, run, ov, a) ==
    /\ None \notin st \cup acc \cup run \cup ov
    /\ st \cap (acc \cup run \cup ov) = {}
    /\ acc \cap (run \cup ov) = {} /\ run \cap ov = {}
    /\ a.done \cap (st \cup acc \cup run) = {}
    /\ a.switched \subseteq run \cup ov
    /\ \A s \in Sessions : /\ a.live[s] \in run \cup ov \cup {None}
                           /\ a.epoch[s] <= a.conn
                           /\ a.live[s] \in run => a.epoch[s] = a.conn

LEMMA RanSame ==
    ASSUME NEW st, NEW acc, NEW run, NEW ov, NEW a, NEW b, NEW st2 \in SUBSET st,
           Ran(st, acc, run, ov, a), SameLatch(a, b)
    PROVE  Ran(st2, acc, run, ov, b)
  <1>1. b.done \cap (st2 \cup acc \cup run) = {}
    BY DEF Ran, SameLatch
  <1>2. /\ None \notin st2 \cup acc \cup run \cup ov
        /\ st2 \cap (acc \cup run \cup ov) = {}
    BY DEF Ran
  <1> QED BY <1>1, <1>2 DEF Ran, SameLatch

LEMMA RanBound ==
    ASSUME NEW st, NEW acc, NEW run, NEW ov, NEW a \in AppType, NEW b, NEW t \in run,
           TurnSession(a, t) \in Sessions, Ran(st, acc, run, ov, a), Bound(a, b, t)
    PROVE  Ran(st, acc, run, ov, b)
  <1> DEFINE s == TurnSession(a, t)
  <1>1. /\ \A x \in Sessions : b.live[x] = IF x = s THEN t ELSE a.live[x]
        /\ \A x \in Sessions : b.epoch[x] = IF x = s THEN a.conn ELSE a.epoch[x]
        /\ a.conn \in Nat
    BY Fields DEF Bound, Marks
  <1>2. b.done = a.done /\ b.conn = a.conn
    BY DEF Bound
  <1>3. b.switched \subseteq run \cup ov
    <2>1. a.live[s] \notin {None, t} => a.live[s] \in run \cup ov
      BY DEF Ran
    <2> QED BY <2>1 DEF Bound, Ran
  <1> HIDE DEF s
  <1>4. \A x \in Sessions : /\ b.live[x] \in run \cup ov \cup {None}
                            /\ b.epoch[x] <= b.conn
                            /\ b.live[x] \in run => b.epoch[x] = b.conn
    BY <1>1, <1>2 DEF Ran
  <1> QED BY <1>2, <1>3, <1>4 DEF Ran

(* A terminal of turn t has been handled. *)
Ended(a, b, t) ==
    /\ b.epoch = a.epoch /\ b.conn = a.conn
    /\ \/ t \in a.done /\ SameLatch(a, b)
       \/ /\ t \notin a.done /\ b.done = a.done \cup {t} /\ b.switched = a.switched \ {t}
          /\ \/ b.live = [a.live EXCEPT ![TurnSession(a, t)] = IF @ = t THEN None ELSE @]
             \/ t \in a.switched /\ b.live = a.live

LEMMA ConcludedEnds ==
    ASSUME NEW a, NEW b, NEW t, Concluded(a, b, t)
    PROVE  Ended(a, b, t)
  <1> PICK c \in AppType : Finished(a, c, t) /\ (b = c \/ Drained(c, b))
    BY DEF Concluded
  <1>1. SameLatch(c, b)
    BY DEF Drained, Apart, SameLatch
  <1> QED BY <1>1 DEF Finished, SameLatch, Ended

LEMMA RanEnded ==
    ASSUME NEW st, NEW acc, NEW run, NEW ov, NEW a \in AppType, NEW b,
           NEW t, t \notin st \cup acc \cup run,
           Ran(st, acc, run, ov, a), Ended(a, b, t)
    PROVE  Ran(st, acc, run, ov, b)
  <1>1. CASE SameLatch(a, b)
    BY <1>1, RanSame
  <1>2. CASE ~SameLatch(a, b)
    <2>1. b.done = a.done \cup {t} /\ b.switched \subseteq a.switched
          /\ b.epoch = a.epoch /\ b.conn = a.conn
      BY <1>2 DEF Ended
    <2>2. \A x \in Sessions : b.live[x] \in {None, a.live[x]}
      BY <1>2, Fields DEF Ended, Marks
    <2>3. b.done \cap (st \cup acc \cup run) = {}
      BY <2>1 DEF Ran
    <2>4. \A x \in Sessions : /\ b.live[x] \in run \cup ov \cup {None}
                              /\ b.live[x] \in run => b.epoch[x] = b.conn
      BY <2>1, <2>2 DEF Ran
    <2> QED BY <2>1, <2>3, <2>4 DEF Ran
  <1> QED BY <1>1, <1>2

LEMMA RanFinalized ==
    ASSUME NEW st, NEW acc, NEW run, NEW ov, NEW a \in AppType, NEW b, NEW s \in Sessions,
           a.live[s] \in ov, Ran(st, acc, run, ov, a), Finalized(a, b, s)
    PROVE  Ran(st, acc, run, ov, b)
  <1>1. b.done = a.done \cup {a.live[s]} /\ b.switched = a.switched
        /\ b.epoch = a.epoch /\ b.conn = a.conn
    BY DEF Finalized
  <1>2. \A x \in Sessions : b.live[x] \in {None, a.live[x]}
    BY Fields DEF Finalized, Marks
  <1>3. b.done \cap (st \cup acc \cup run) = {}
    BY <1>1 DEF Ran
  <1>4. \A x \in Sessions : /\ b.live[x] \in run \cup ov \cup {None}
                            /\ b.live[x] \in run => b.epoch[x] = b.conn
    BY <1>1, <1>2 DEF Ran
  <1> QED BY <1>1, <1>3, <1>4 DEF Ran

LEMMA RanReconciled ==
    ASSUME NEW st, NEW acc, NEW run, NEW ov, NEW a \in AppType, NEW b,
           Ran(st, acc, run, ov, a), Reconciled(a, b)
    PROVE  Ran(st, acc, run, ov, b)
  <1>1. DeadTurns(a) \cap (st \cup acc \cup run) = {}
    <2> SUFFICES ASSUME NEW x \in LatchedOpen(a)
                 PROVE  a.live[x] \notin st \cup acc \cup run
      BY DEF DeadTurns
    <2>1. x \in Sessions /\ a.live[x] # None /\ a.epoch[x] < a.conn
      BY DEF LatchedOpen, Latched
    <2>2. a.epoch[x] \in Nat /\ a.conn \in Nat
      BY <2>1, Fields DEF Marks
    <2>3. a.live[x] \notin run
      BY <2>1, <2>2 DEF Ran
    <2> QED BY <2>1, <2>3 DEF Ran
  <1>2. b.done = a.done \cup DeadTurns(a) /\ b.switched \subseteq a.switched
        /\ b.epoch = a.epoch /\ b.conn = a.conn
    BY DEF Reconciled
  <1>3. \A x \in Sessions : b.live[x] \in {None, a.live[x]}
    BY DEF Reconciled
  <1>4. b.done \cap (st \cup acc \cup run) = {}
    BY <1>1, <1>2 DEF Ran
  <1>5. \A x \in Sessions : /\ b.live[x] \in run \cup ov \cup {None}
                            /\ b.live[x] \in run => b.epoch[x] = b.conn
    BY <1>2, <1>3 DEF Ran
  <1> QED BY <1>2, <1>4, <1>5 DEF Ran

TurnsRan == Distinct(wire) /\ Ran(Starts(wire), accepted, running, over, app)

(* What the event loop hands over, or the transport refuses, is no latch.   *)
LEMMA RunLatch ==
    ASSUME app.turns \in TurnTables, NEW a \in AppType, NEW w, Run(a, w)
    PROVE  /\ app'.sel = a.sel /\ SameLatch(a, app') /\ SameStop(a, app')
           /\ app'.run \in {a.run, "error"}
           /\ link # "down" \/ a.out = <<>> =>
                 /\ app'.run = a.run /\ app'.gate = a.gate /\ app'.pre = a.pre
                 /\ app'.turns = a.turns
           /\ app'.turns \in {app.turns, a.turns}
           /\ link # "down" => wire' = w \o a.out
           /\ link = "down" => wire' = w
  <1> DEFINE b == [a EXCEPT !.out = <<>>]
             c == SendRefused(b)
             d == [c EXCEPT !.turns = app.turns]
  <1>1. /\ b \in AppType /\ b.turns = a.turns /\ Apart(a, b)
        /\ b.gate = a.gate /\ b.pre = a.pre /\ b.run = a.run
    BY HandedOver
  <1>2. /\ app' = IF link = "down" /\ a.out # <<>> THEN d ELSE b
        /\ wire' = IF link = "down" THEN w ELSE w \o a.out
    BY DEF Run
  <1> HIDE DEF b
  <1>3. c \in AppType /\ Apart(b, c) /\ c.run = "error"
    BY <1>1, SendRefusedData DEF BackedOff
  <1> HIDE DEF c
  <1>4. Apart(c, d) /\ d.run = c.run /\ d.turns = app.turns
    BY <1>3, Unsent
  <1> HIDE DEF d
  <1>5. CASE link = "down" /\ a.out # <<>>
    <2>1. app' = d
      BY <1>2, <1>5
    <2> QED BY <1>1, <1>2, <1>3, <1>4, <1>5, <2>1 DEF Apart, SameLatch, SameStop
  <1>6. CASE ~(link = "down" /\ a.out # <<>>)
    <2>1. app' = b
      BY <1>2, <1>6
    <2> QED BY <1>1, <1>2, <1>6, <2>1 DEF Apart, SameLatch, SameStop
  <1> QED BY <1>5, <1>6

(* A handler issues one command, a turn/start only for a new turn. *)
Tame(a) ==
    /\ Extends(app.turns, a.turns)
    /\ a.out = <<>> \/ Plain(app, a) \/ \E p : Steered(app, a, p)

(* A turn/start that goes out names a new turn, of its session. *)
New(a, c) == c.turn = Len(app.turns) + 1 /\ TurnSession(a, c.turn) = c.sess

LEMMA FreshStart ==
    ASSUME Sound, NEW a \in AppType, Tame(a),
           NEW w \in Seq(CmdType), Run(a, w)
    PROVE  \/ wire' = w
           \/ /\ a.out # <<>>
              /\ \E c \in CmdType : /\ wire' = Append(w, c)
                                    /\ c.kind = "start" => New(a, c)
  <1>1. app.out = <<>> /\ app.turns \in TurnTables /\ a.out \in Seq(CmdType)
    BY Fields DEF Sound, StoreSound, Fit, Outputs
  <1>2. CASE link = "down" \/ a.out = <<>>
    <2>1. wire' = w \/ wire' = w \o <<>>
      BY <1>1, <1>2, RunLatch
    <2> QED BY <2>1, ConcatEmptySeq
  <1>3. CASE link # "down" /\ a.out # <<>>
    <2>1. wire' = w \o a.out
      BY <1>1, <1>3, RunLatch
    <2>2. \E c : a.out = <<c>> /\ (c.kind = "start" => New(a, c))
      <3>1. ASSUME NEW k \in {"hydrate", "interrupt", "steer"}, NEW s, NEW t, NEW p,
                   a.out = Append(app.out, Cmd(k, s, t, p))
            PROVE  \E c : a.out = <<c>> /\ (c.kind = "start" => New(a, c))
        <4>1. Cmd(k, s, t, p).kind # "start" /\ a.out = <<Cmd(k, s, t, p)>>
          BY <1>1, <3>1 DEF Cmd
        <4> QED BY <4>1
      <3>2. CASE Asks(app, a)
        BY <3>1, <3>2 DEF Asks
      <3>3. CASE \E p : Steered(app, a, p)
        BY <3>1, <3>3 DEF Steered
      <3>4. CASE \E p : Submits(app, a, p)
        <4> PICK p : Submits(app, a, p)
          BY <3>4
        <4>1. a.out = <<Cmd("start", a.sel, Len(app.turns) + 1, p)>>
          BY <1>1 DEF Submits
        <4>2. [sess |-> a.sel, prompt |-> p] \in TurnType
          BY Fields DEF Submits, TurnType, PromptNo
        <4>3. a.turns[Len(app.turns) + 1].sess = a.sel
          BY <1>1, <4>2, TableFacts DEF Submits
        <4> QED BY <4>1, <4>3 DEF Cmd, New, TurnSession
      <3> QED BY <1>1, <1>3, <3>2, <3>3, <3>4 DEF Tame, Plain, Unsubmitted
    <2> PICK c : a.out = <<c>> /\ (c.kind = "start" => New(a, c))
      BY <2>2
    <2>3. c \in CmdType
      <3>1. a.out[1] = c /\ 1 \in DOMAIN a.out
        BY <2>2
      <3> QED BY <1>1, <3>1
    <2>4. wire' = Append(w, c)
      BY <2>1, <2>3, AppendIsConcat
    <2> QED BY <1>3, <2>3, <2>4
  <1> QED BY <1>2, <1>3

LEMMA RunRan ==
    ASSUME Sound, NEW a \in AppType, Tame(a),
           NEW w \in Seq(CmdType), Run(a, w), Distinct(w),
           \/ a.out = <<>>
           \/ Starts(w) \cup accepted' \cup running' \cup over' \cup a.done
                 \subseteq DOMAIN app.turns,
           Ran(Starts(w), accepted', running', over', a)
    PROVE  TurnsRan'
  <1>1. app.turns \in TurnTables /\ Len(app.turns) \in Nat /\ DOMAIN app.turns = 1..Len(app.turns)
    BY Fields, TableFacts DEF Sound, StoreSound, Fit
  <1>2. SameLatch(a, app')
    BY <1>1, RunLatch
  <1>3. CASE wire' = w
    BY <1>2, <1>3, RanSame DEF TurnsRan
  <1>4. ASSUME NEW c \in CmdType, a.out # <<>>, wire' = Append(w, c),
               c.kind = "start" => New(a, c)
        PROVE  TurnsRan'
    <2>1. CASE c.kind # "start"
      <3>1. Starts(wire') = Starts(w) /\ Distinct(wire')
        BY <1>4, <2>1, StartsAppend
      <3> QED BY <1>2, <3>1, RanSame DEF TurnsRan
    <2>2. CASE c.kind = "start"
      <3> DEFINE t == Len(app.turns) + 1
      <3>1. c.turn = t /\ t # None /\ t \notin DOMAIN app.turns
        BY <1>1, <1>4, <2>2 DEF None, New
      <3> HIDE DEF t
      <3>2. Starts(wire') = Starts(w) \cup {t} /\ Distinct(wire')
        BY <1>4, <2>2, <3>1, StartsAppend
      <3>3. Ran(Starts(w) \cup {t}, accepted', running', over', a)
        BY <1>4, <3>1 DEF Ran
      <3>4. Ran(Starts(wire'), accepted', running', over', app')
        BY <1>2, <3>2, <3>3, RanSame
      <3> QED BY <3>2, <3>4 DEF TurnsRan
    <2> QED BY <2>1, <2>2
  <1> QED BY <1>3, <1>4, FreshStart

(* The turns anyone names are in the table. *)
LEMMA TurnsKnown ==
    ASSUME Sound
    PROVE  /\ Starts(wire) \cup accepted \cup running \cup over \cup app.done
                \subseteq DOMAIN app.turns
           /\ app.switched \subseteq DOMAIN app.turns
           /\ wire \in Seq(CmdType) /\ app \in AppType /\ Fit(app, app.turns)
           /\ app.turns \in TurnTables /\ Extends(app.turns, app.turns)
           /\ app.out = <<>>
           /\ \A t \in DOMAIN app.turns : t # None /\ t \in Nat
           /\ \A t \in DOMAIN app.turns : TurnSession(app, t) \in Sessions
  <1>1. Fit(app, app.turns) /\ app \in AppType /\ app.turns \in TurnTables /\ app.out = <<>>
        /\ Extends(app.turns, app.turns)
    BY DEF Sound, StoreSound, Fit
  <1>2. wire \in Seq(CmdType) /\ \A i \in DOMAIN wire : SoundCmd(wire[i], app.turns)
    BY DEF Sound, LinesSound, Lines
  <1>3. Starts(wire) \subseteq DOMAIN app.turns
    BY <1>2 DEF Starts, StartPlaces, SoundCmd
  <1>4. app.done \cup app.switched \subseteq DOMAIN app.turns
    BY <1>1 DEF Fit, Refs
  <1> QED BY <1>1, <1>2, <1>3, <1>4, FitFacts DEF Sound, ServerSound

-----------------------------------------------------------------------------
(* The phases of the child: what is queued, under way and run in each.      *)

EventOf(l) == IF l = "down" THEN "cancelled" ELSE IF l = "booting" THEN "epoch" ELSE "relaunched"

Phase ==
    /\ \A i \in DOMAIN inbox : inbox[i].event = EventOf(link)
    /\ link # "down" => Len(inbox) <= 1
    /\ link = "down" => wire = <<>>
    /\ link # "up" => accepted = {}
    /\ link = "down" \/ (link = "booting" /\ inbox # <<>>) => running = {}

(* What keeps it: nothing new is queued, a child that is down is sent        *)
(* nothing, and a turn is accepted by a child that is up.                    *)
LEMMA PhaseKept ==
    ASSUME Phase, link' = link, inbox' = inbox,
           link = "down" => wire' = wire,
           link = "up" \/ accepted' \subseteq accepted,
           (link # "down" /\ inbox = <<>>) \/ running' \subseteq running
    PROVE  Phase'
  BY DEF Phase

LEMMA ActsPhase ==
    ASSUME Phase, NEW a, Acts(a)
    PROVE  Phase'
  BY PhaseKept DEF Acts, Keeps, Run, serverVars

LEMMA ServerPhase ==
    ASSUME Phase, ServerSteps
    PROVE  Phase'
  <1>1. CASE \/ AcceptStart \/ DropStart \/ RefuseStart \/ AcceptSteer \/ StartForSteer
             \/ RefuseSteer \/ TakeInterrupt
             \/ \E stale \in (over \cap app.done) \cup {None} : AnswerHydrate(stale)
    <2>1. link = "up" /\ link' = link /\ inbox' = inbox /\ running' = running
      BY <1>1 DEF AcceptStart, DropStart, RefuseStart, AcceptSteer, StartForSteer,
                  RefuseSteer, TakeInterrupt, AnswerHydrate, Takes, serverVars
    <2> QED BY <2>1, PhaseKept
  <1>2. ASSUME NEW t, StartTurn(t) \/ RejectTurn(t)
        PROVE  Phase'
    <2>1. link = "up" /\ inbox = <<>> /\ link' = link /\ inbox' = inbox
      BY <1>2 DEF StartTurn, RejectTurn
    <2> QED BY <2>1, PhaseKept
  <1>3. ASSUME NEW s, StartOwnTurn(s)
        PROVE  Phase'
    <2>1. /\ link # "down" /\ inbox = <<>> /\ link' = link /\ inbox' = inbox
          /\ accepted' = accepted
      BY <1>3 DEF StartOwnTurn, Listens
    <2> QED BY <2>1, PhaseKept
  <1>4. CASE \/ ConsumeSteer
             \/ \E t \in running \cup over : Stream(t)
             \/ \E t \in running : DropSteers(t) \/ Abort(t)
             \/ \E t \in running, o \in {"success", "error", "idle"} : Complete(t, o)
             \/ \E kind \in {"error", "cap"} : OtherRequestFails(kind)
    <2>1. /\ link # "down" /\ link' = link /\ inbox' = inbox /\ accepted' = accepted
          /\ running' \subseteq running
      BY <1>4 DEF ConsumeSteer, Stream, DropSteers, Abort, Complete, OtherRequestFails,
                  Ends, Listens, serverVars
    <2> QED BY <2>1, PhaseKept
  <1> QED BY <1>1, <1>2, <1>3, <1>4 DEF ServerSteps

LEMMA LinkPhase ==
    ASSUME Sound, Phase, LinkDies \/ LinkBoots \/ LinkOpens
    PROVE  Phase'
  <1>1. CASE LinkDies
    <2> DEFINE q == [i \in DOMAIN wire |-> [event |-> "cancelled", cmd |-> wire[i]]]
    <2>1. /\ inbox = <<>> /\ link' = "down" /\ inbox' = inbox \o q
          /\ wire' = <<>> /\ accepted' = {} /\ running' = {}
      BY <1>1 DEF LinkDies, Listens
    <2>2. DOMAIN q = DOMAIN wire /\ \A i \in DOMAIN q : q[i].event = "cancelled"
      OBVIOUS
    <2>3. inbox' = q
      <3>1. wire \in Seq(CmdType)
        BY DEF Sound, LinesSound, Lines
      <3>2. q \in Seq([event : {"cancelled"}, cmd : CmdType])
        <4>1. \A i \in DOMAIN wire : wire[i] \in CmdType
          BY <3>1
        <4>2. DOMAIN wire = 1..Len(wire) /\ Len(wire) \in Nat
          BY <3>1
        <4>3. q \in [1..Len(wire) -> [event : {"cancelled"}, cmd : CmdType]]
          BY <4>1, <4>2
        <4> HIDE DEF q
        <4> DEFINE E == [event : {"cancelled"}, cmd : CmdType]
        <4>4. q \in [1..Len(wire) -> E]
          BY <4>3
        <4> HIDE DEF E
        <4>5. q \in Seq(E)
          BY <4>2, <4>4, SeqDef
        <4> QED BY <4>5 DEF E
      <3> HIDE DEF q
      <3> QED BY <2>1, <3>2, ConcatEmptySeq
    <2> HIDE DEF q
    <2> QED BY <2>1, <2>2, <2>3 DEF Phase, EventOf
  <1>2. CASE LinkBoots \/ LinkOpens
    <2>1. PICK event \in {"epoch", "relaunched"} :
              /\ inbox = <<>> /\ inbox' = Append(<<>>, Signal(event))
              /\ link' = IF event = "epoch" THEN "booting" ELSE "up"
              /\ link = IF event = "epoch" THEN "down" ELSE "booting"
              /\ accepted' = accepted /\ running' = running
      BY <1>2 DEF LinkBoots, LinkOpens, serverVars
    <2>2. inbox' = <<Signal(event)>> /\ Signal(event).event = event
      BY <2>1 DEF Signal
    <2>3. \A i \in DOMAIN inbox' : inbox'[i].event = event
      BY <2>2
    <2>4. Len(inbox') = 1
      BY <2>2
    <2> QED BY <2>1, <2>3, <2>4 DEF Phase, EventOf
  <1> QED BY <1>1, <1>2

LEMMA ReadPhase ==
    ASSUME Sound, Phase, ReadInbox
    PROVE  Phase'
  <1>1. /\ inbox # <<>> /\ inbox' = Tail(inbox) /\ link' = link
        /\ accepted' = accepted /\ running' = running
        /\ link = "down" => wire' = wire
    BY DEF ReadInbox, Keeps, Run, serverVars
  <1>2. inbox \in Seq(EventType)
    BY DEF Sound, LinesSound, Lines
  <1>3. /\ Len(inbox') = Len(inbox) - 1 /\ Len(inbox) \in Nat
        /\ \A i \in DOMAIN inbox' : i + 1 \in DOMAIN inbox /\ inbox'[i] = inbox[i + 1]
    BY <1>1, <1>2, HeadTailProperties
  <1> QED BY <1>1, <1>3 DEF Phase

LEMMA NextPhase == ASSUME Sound, Phase, [Next]_vars PROVE Phase'
  <1>1. CASE User \/ \E due \in BOOLEAN : Tick(due)
    BY <1>1, ActsPhase DEF User, TypePrompt, UserInterrupts, SendPendingNow, UserSwitches, Tick
  <1>2. CASE \E s \in Sessions : MarkerAges(s) \/ GateAges(s)
    BY <1>2, PhaseKept DEF MarkerAges, GateAges, serverVars
  <1>3. CASE ServerSteps
    BY <1>3, ServerPhase
  <1>4. CASE LinkDies \/ LinkBoots \/ LinkOpens \/ ReadInbox
    BY <1>4, LinkPhase, ReadPhase
  <1>5. CASE UNCHANGED vars
    BY <1>5, PhaseKept DEF vars, serverVars
  <1> QED BY <1>1, <1>2, <1>3, <1>4, <1>5 DEF Next, Clock

-----------------------------------------------------------------------------
(* Every step keeps track of the turns that ran.                           *)

(* What the user and the clock do latches nothing. *)
LEMMA SameLatchThen ==
    ASSUME NEW a, NEW b, NEW c, SameLatch(a, b), SameLatch(b, c)
    PROVE  SameLatch(a, c)
  BY DEF SameLatch

LEMMA DrainedLatch == ASSUME NEW a, NEW b, Drained(a, b) PROVE SameLatch(a, b)
  BY DEF Drained, Apart

LEMMA ResetLatch == ASSUME NEW a, NEW b, Reset(a, b) PROVE SameLatch(a, b)
  BY DrainedLatch, SameLatchThen DEF Reset, Cleared, Apart

LEMMA PromptLatch ==
    ASSUME NEW a \in AppType, NEW p \in PromptNo
    PROVE  SameLatch(a, Prompt(a, p))
  <1> DEFINE b == Prompt(a, p)
  <1>1. Steered(a, b, p) \/ Staged(a, b, p) \/ Sends(a, b, p)
    BY PromptData
  <1> HIDE DEF b
  <1>2. SameLatch(a, b)
    BY <1>1 DEF Steered, Staged, Sends, Apart
  <1> QED BY <1>2 DEF b

LEMMA InterruptLatch ==
    ASSUME NEW a \in AppType
    PROVE  SameLatch(a, Interrupt(a))
  <1> DEFINE b == Interrupt(a)
  <1>1. Stopped(a, b) \/ b = a \/ (Phantom(a) /\ (Probed(a, b) \/ Reset(a, b)))
    BY InterruptData
  <1> HIDE DEF b
  <1>2. SameLatch(a, b)
    BY <1>1, ResetLatch DEF Stopped, Probed, Apart, SameLatch
  <1> QED BY <1>2 DEF b

LEMMA SwitchLatch ==
    ASSUME NEW a \in AppType, NEW s \in Sessions
    PROVE  SameLatch(a, Switch(a, s))
  <1> PICK c \in AppType : Moved(a, c, s) /\ Drained(c, Switch(a, s))
    BY SwitchData
  <1>1. SameLatch(a, c)
    BY DEF Moved
  <1> QED BY <1>1, DrainedLatch, SameLatchThen

LEMMA WatchdogLatch ==
    ASSUME NEW a \in AppType, NEW due
    PROVE  SameLatch(a, Watchdog(a, due))
  <1> DEFINE b == Watchdog(a, due)
  <1>1. Quiet(a, b) \/ (Phantom(a) /\ (Probed(a, b) \/ Reset(a, b)))
    BY WatchdogData
  <1> HIDE DEF b
  <1>2. SameLatch(a, b)
    BY <1>1, ResetLatch DEF Quiet, Probed, Apart
  <1> QED BY <1>2 DEF b

LEMMA TickLatch ==
    ASSUME NEW a \in AppType, NEW due
    PROVE  SameLatch(a, TickOf(a, due))
  <1>1. Drain(a) \in AppType /\ SameLatch(a, Drain(a))
    BY DrainData, DrainedLatch
  <1>2. SameLatch(Drain(a), Watchdog(Drain(a), due))
    BY <1>1, WatchdogLatch
  <1> QED BY <1>1, <1>2, SameLatchThen DEF TickOf

(* At most one turn of a session runs; the latches hold: no turn that runs  *)
(* was switched away, a live turn has no terminal, and one that does not    *)
(* run waits for the reconcile of the child that replaces its own.          *)
Solo(run, T) == \A t, u \in run : T[t].sess = T[u].sess => t = u

Waits(s, a, l, q) ==
    \/ l = "down"
    \/ l = "booting" /\ (q # <<>> \/ a.epoch[s] < a.conn)
    \/ l = "up" /\ q # <<>> /\ a.epoch[s] < a.conn

Latches(run, a, l, q) ==
    /\ a.switched \cap run = {}
    /\ \A s \in Sessions : /\ a.live[s] \notin a.done
                           /\ a.live[s] \in run \cup {None} \/ Waits(s, a, l, q)

SoloRun == Solo(running, app.turns)
LatchesHold == Latches(running, app, link, inbox)

(* What every step keeps. *)
Kept == /\ TurnsRan' /\ Extends(app.turns, app'.turns)
        /\ LatchesHold /\ SoloRun' => LatchesHold'

LEMMA LatchesSame ==
    ASSUME NEW run, NEW a, NEW b, NEW l, NEW q, Latches(run, a, l, q), SameLatch(a, b)
    PROVE  Latches(run, b, l, q)
  BY DEF Latches, Waits, SameLatch

LEMMA LatchesBound ==
    ASSUME NEW run, NEW a \in AppType, NEW b, NEW l, NEW q, NEW t,
           TurnSession(a, t) \in Sessions, t \notin a.done \cup a.switched,
           \A x \in Sessions : a.live[x] # None => TurnSession(a, a.live[x]) = x,
           \A u \in run : TurnSession(a, u) = TurnSession(a, t) => u = t,
           Latches(run, a, l, q), Bound(a, b, t)
    PROVE  Latches(run \cup {t}, b, l, q)
  <1> DEFINE s == TurnSession(a, t)
  <1>1. /\ \A x \in Sessions : b.live[x] = IF x = s THEN t ELSE a.live[x]
        /\ \A x \in Sessions : b.epoch[x] = IF x = s THEN a.conn ELSE a.epoch[x]
        /\ b.done = a.done /\ b.conn = a.conn
    BY Fields DEF Bound, Marks
  <1>2. b.switched = IF a.live[s] \in {None, t} THEN a.switched
                     ELSE a.switched \cup {a.live[s]}
    BY DEF Bound
  <1>3. s \in Sessions /\ t \notin a.done /\ t \notin a.switched
    OBVIOUS
  <1>4. a.live[s] \notin {None, t} => a.live[s] \notin run
    OBVIOUS
  <1> HIDE DEF s
  <1>5. b.switched \cap (run \cup {t}) = {}
    BY <1>2, <1>3, <1>4 DEF Latches
  <1>6. \A x \in Sessions : /\ b.live[x] \notin b.done
                            /\ b.live[x] \in run \cup {t} \cup {None} \/ Waits(x, b, l, q)
    BY <1>1, <1>3 DEF Latches, Waits
  <1> QED BY <1>5, <1>6 DEF Latches

LEMMA LatchesEnded ==
    ASSUME NEW run, NEW a \in AppType, NEW b, NEW l, NEW q, NEW t, t # None, None \notin a.done,
           t \notin a.done \cup a.switched,
           \A x \in Sessions : a.live[x] # None => TurnSession(a, a.live[x]) = x,
           Latches(run, a, l, q), Ended(a, b, t)
    PROVE  Latches(run \ {t}, b, l, q)
  <1>1. /\ b.done = a.done \cup {t} /\ b.switched = a.switched \ {t}
        /\ b.epoch = a.epoch /\ b.conn = a.conn
        /\ b.live = [a.live EXCEPT ![TurnSession(a, t)] = IF @ = t THEN None ELSE @]
    BY DEF Ended
  <1>2. \A x \in Sessions : b.live[x] \in {None, a.live[x]} /\ b.live[x] # t
    <2> TAKE x \in Sessions
    <2>1. CASE x = TurnSession(a, t)
      BY <1>1, <2>1, Fields DEF Marks
    <2>2. CASE x # TurnSession(a, t)
      BY <1>1, <2>2, Fields DEF Marks
    <2> QED BY <2>1, <2>2
  <1>3. \A x \in Sessions : b.live[x] \notin b.done
    BY <1>1, <1>2 DEF Latches
  <1> QED BY <1>1, <1>2, <1>3 DEF Latches, Waits

LEMMA LatchesFinalized ==
    ASSUME NEW run, NEW a \in AppType, NEW b, NEW l, NEW q, NEW s \in Sessions,
           a.live[s] # None, None \notin a.done,
           \A x \in Sessions : a.live[x] # None => TurnSession(a, a.live[x]) = x,
           Latches(run, a, l, q), Finalized(a, b, s)
    PROVE  Latches(run, b, l, q)
  <1>1. /\ b.done = a.done \cup {a.live[s]} /\ b.switched = a.switched
        /\ b.epoch = a.epoch /\ b.conn = a.conn
    BY DEF Finalized
  <1>2. \A x \in Sessions : b.live[x] = IF x = s THEN None ELSE a.live[x]
    BY Fields DEF Finalized, Marks
  <1>3. \A x \in Sessions : b.live[x] \notin b.done
    BY <1>1, <1>2 DEF Latches
  <1> QED BY <1>1, <1>2, <1>3 DEF Latches, Waits

(* The reconcile that follows the scope of a replacement leaves the turns   *)
(* that run.                                                                *)
LEMMA LatchesReconciled ==
    ASSUME NEW st, NEW acc, NEW run, NEW ov, NEW a \in AppType, NEW b, NEW q,
           Ran(st, acc, run, ov, a), None \notin a.done,
           \A x \in Sessions : a.live[x] # None => TurnSession(a, a.live[x]) = x,
           Latches(run, a, "up", q), Reconciled(a, b)
    PROVE  Latches(run, b, "up", <<>>)
  <1>1. /\ b.done = a.done \cup DeadTurns(a) /\ b.switched \subseteq a.switched
        /\ b.epoch = a.epoch /\ b.conn = a.conn
    BY DEF Reconciled
  <1>2. \A x \in Sessions : b.live[x] = IF x \in LatchedOpen(a) THEN None ELSE a.live[x]
    BY DEF Reconciled
  <1>3. \A x \in LatchedOpen(a) : x \in Sessions /\ a.live[x] # None
    BY DEF LatchedOpen, Latched
  <1>4. \A x \in Sessions : b.live[x] \notin b.done
    <2> SUFFICES ASSUME NEW x \in Sessions, b.live[x] \in DeadTurns(a) PROVE FALSE
      BY <1>1, <1>2 DEF Latches
    <2> PICK y \in LatchedOpen(a) : b.live[x] = a.live[y]
      BY DEF DeadTurns
    <2>1. y \in Sessions /\ b.live[x] # None
      BY <1>3
    <2>2. x \notin LatchedOpen(a) /\ a.live[x] = a.live[y]
      BY <1>2, <2>1
    <2> QED BY <2>1, <2>2
  <1>5. \A x \in Sessions : b.live[x] \in run \cup {None}
    <2> SUFFICES ASSUME NEW x \in Sessions, x \notin LatchedOpen(a), a.live[x] # None
                 PROVE  a.live[x] \in run
      BY <1>2
    <2>1. ~(a.epoch[x] < a.conn)
      BY DEF Latches, LatchedOpen, Latched
    <2> QED BY <2>1 DEF Latches, Waits
  <1> QED BY <1>1, <1>4, <1>5 DEF Latches

(* A handler of events is run on the requests under way, or on what is left *)
(* when the oldest is answered.                                             *)
LEMMA StepRan ==
    ASSUME Sound, TurnsRan, NEW a \in AppType, Tame(a),
           NEW w, w = wire \/ (wire # <<>> /\ w = Tail(wire)), Run(a, w),
           \/ a.out = <<>>
           \/ accepted' \cup running' \cup over' \cup a.done \subseteq DOMAIN app.turns,
           Ran(Starts(w), accepted', running', over', a),
           LatchesHold /\ SoloRun' => Latches(running', a, link', inbox')
    PROVE  Kept
  <1>1. wire \in Seq(CmdType) /\ Starts(wire) \subseteq DOMAIN app.turns
    BY TurnsKnown
  <1>2. w \in Seq(CmdType) /\ Starts(w) \subseteq Starts(wire) /\ Distinct(w)
    <2>1. CASE w = wire
      BY <1>1, <2>1 DEF TurnsRan
    <2>2. CASE wire # <<>> /\ w = Tail(wire)
      BY <1>1, <2>2, StartsTail, HeadTailProperties DEF TurnsRan
    <2> QED BY <2>1, <2>2
  <1>3. SameLatch(a, app')
    BY TurnsKnown, RunLatch
  <1>4. Extends(app.turns, app'.turns)
    BY TurnsKnown, RunLatch DEF Tame
  <1> QED BY <1>1, <1>2, <1>3, <1>4, RunRan, LatchesSame DEF Kept, LatchesHold

LEMMA SameRan ==
    ASSUME Sound, TurnsRan, NEW a \in AppType, Tame(a),
           SameLatch(app, a),
           NEW w, w = wire \/ (wire # <<>> /\ w = Tail(wire)), Run(a, w),
           UNCHANGED <<accepted, running, over, link, inbox>>
    PROVE  Kept
  <1>1. Starts(w) \subseteq Starts(wire)
    BY TurnsKnown, StartsTail
  <1>2. Ran(Starts(w), accepted', running', over', a)
    BY <1>1, RanSame DEF TurnsRan
  <1>3. accepted' \cup running' \cup over' \cup a.done \subseteq DOMAIN app.turns
    BY TurnsKnown DEF SameLatch
  <1>4. LatchesHold => Latches(running', a, link', inbox')
    BY LatchesSame DEF LatchesHold
  <1> QED BY <1>2, <1>3, <1>4, StepRan

LEMMA ActsRan ==
    ASSUME Sound, TurnsRan, NEW a, Fit(a, app.turns),
           Tame(a), SameLatch(app, a), Acts(a)
    PROVE  Kept
  <1>1. Run(a, wire) /\ UNCHANGED <<accepted, running, over, link, inbox>> /\ a \in AppType
    BY DEF Acts, Keeps, serverVars, Fit
  <1> QED BY <1>1, SameRan

LEMMA UserKept == ASSUME Sound, TurnsRan, User PROVE Kept
  <1>1. Fit(app, app.turns) /\ app \in AppType
    BY TurnsKnown
  <1>2. CASE TypePrompt
    <2> DEFINE p == Len(typed) + 1
    <2>1. p \in PromptNo
      BY DEF Sound, BudgetSound, PromptNo, None
    <2>2. Acts(Prompt(app, p))
      BY <1>2 DEF TypePrompt
    <2> HIDE DEF p
    <2>3. Fit(Prompt(app, p), app.turns)
          /\ (Plain(app, Prompt(app, p)) \/ Steered(app, Prompt(app, p), p))
      BY <1>1, <2>1, PromptFit
    <2> QED BY <1>1, <2>1, <2>2, <2>3, PromptLatch, ActsRan DEF Tame, Fit
  <1>3. CASE UserInterrupts \/ SendPendingNow
    <2>1. Acts(Interrupt(app))
      BY <1>3 DEF UserInterrupts, SendPendingNow
    <2>2. Fit(Interrupt(app), app.turns) /\ Plain(app, Interrupt(app))
      BY <1>1, InterruptFit
    <2> QED BY <1>1, <2>1, <2>2, InterruptLatch, ActsRan DEF Tame, Fit
  <1>4. ASSUME NEW s \in Sessions, UserSwitches(s) PROVE Kept
    <2>1. Acts(Switch(app, s))
      BY <1>4 DEF UserSwitches
    <2>2. Fit(Switch(app, s), app.turns) /\ Plain(app, Switch(app, s))
      BY <1>1, SwitchFit
    <2> QED BY <1>1, <2>1, <2>2, SwitchLatch, ActsRan DEF Tame, Fit
  <1> QED BY <1>2, <1>3, <1>4 DEF User

LEMMA ClockKept == ASSUME Sound, TurnsRan, Clock PROVE Kept
  <1>1. Fit(app, app.turns) /\ app \in AppType
    BY TurnsKnown
  <1>2. ASSUME NEW due \in BOOLEAN, Tick(due) PROVE Kept
    <2>1. Acts(TickOf(app, due))
      BY <1>2 DEF Tick
    <2>2. Fit(TickOf(app, due), app.turns) /\ Plain(app, TickOf(app, due))
      BY <1>1, TickFit
    <2> QED BY <1>1, <2>1, <2>2, TickLatch, ActsRan DEF Tame, Fit
  <1>3. ASSUME NEW s \in Sessions, MarkerAges(s) \/ GateAges(s) PROVE Kept
    <2>1. Apart(app, app') /\ UNCHANGED <<wire, accepted, running, over, link, inbox>>
      BY <1>1, <1>3, MarkerAgedData, GateAgedData DEF MarkerAges, GateAges, serverVars
    <2>2. TurnsRan'
      BY <2>1, RanSame DEF Apart, TurnsRan
    <2>3. app'.turns = app.turns
      <3>1. CASE MarkerAges(s)
        BY <1>1, <3>1, MarkerAgedData DEF MarkerAges, Unsubmitted
      <3>2. CASE GateAges(s)
        BY <1>1, <3>2, GateAgedData DEF GateAges, Unsubmitted
      <3> QED BY <1>3, <3>1, <3>2
    <2> QED BY <2>1, <2>2, <2>3, TurnsKnown, LatchesSame DEF Apart, Kept, LatchesHold
  <1> QED BY <1>2, <1>3 DEF Clock

LEMMA LatchFacts ==
    ASSUME Sound
    PROVE  /\ None \notin app.done
           /\ \A x \in Sessions : app.live[x] # None => TurnSession(app, app.live[x]) = x
  <1>1. Refs(app, app.turns) /\ app.turns \in TurnTables
    BY Fields DEF Sound, StoreSound, Fit
  <1> QED BY <1>1, TurnsKnown DEF Refs, TurnSession

(* The oldest request leaves the transport, the store unmoved. *)
LEMMA AnswerKept == ASSUME Sound, TurnsRan, AcceptStart \/ DropStart \/ TakeInterrupt PROVE Kept
  <1>1. /\ app' = app /\ inbox' = inbox /\ link' = link /\ wire # <<>> /\ wire' = Tail(wire)
        /\ UNCHANGED <<running, over>>
    BY DEF AcceptStart, DropStart, TakeInterrupt, Takes, serverVars
  <1>2. /\ Starts(wire') \subseteq Starts(wire) /\ Distinct(wire')
        /\ Head(wire).kind = "start" => Head(wire).turn \in Starts(wire) \ Starts(wire')
    BY <1>1, TurnsKnown, StartsTail DEF TurnsRan
  <1>3. Ran(Starts(wire'), accepted', running, over, app)
    <2>1. CASE AcceptStart
      <3>1. Head(wire).kind = "start" /\ accepted' = accepted \cup {Head(wire).turn}
        BY <2>1 DEF AcceptStart, Takes
      <3> QED BY <1>2, <3>1 DEF TurnsRan, Ran
    <2>2. CASE DropStart \/ TakeInterrupt
      <3>1. accepted' = accepted
        BY <2>2 DEF DropStart, TakeInterrupt, serverVars
      <3>2. SameLatch(app, app)
        BY DEF SameLatch
      <3> QED BY <1>2, <3>1, <3>2, RanSame DEF TurnsRan
    <2> QED BY <2>1, <2>2
  <1>4. LatchesHold => LatchesHold'
    BY <1>1 DEF LatchesHold
  <1> QED BY <1>1, <1>2, <1>3, <1>4, TurnsKnown DEF Kept, TurnsRan

LEMMA RefuseStartKept == ASSUME Sound, TurnsRan, RefuseStart PROVE Kept
  <1> DEFINE a == Failed(app)
  <1>1. /\ wire # <<>> /\ Run(a, Tail(wire))
        /\ UNCHANGED <<accepted, running, over, link, inbox>>
    BY DEF RefuseStart, Takes, serverVars
  <1>2. app \in AppType /\ app.out = <<>>
    BY TurnsKnown
  <1>3. a \in AppType /\ SameLatch(app, a) /\ Tame(a)
    BY <1>2, TurnsKnown, FailedData DEF Apart, Tame, Unsubmitted
  <1> HIDE DEF a
  <1> QED BY <1>1, <1>3, SameRan

LEMMA SteerAnswerKept == ASSUME Sound, TurnsRan, AcceptSteer \/ RefuseSteer PROVE Kept
  <1> DEFINE a == IF AcceptSteer THEN SteeredInto(app) ELSE SteerFailed(app)
  <1>1. /\ Takes("steer") /\ wire # <<>> /\ Run(a, Tail(wire))
        /\ UNCHANGED <<accepted, running, over, link, inbox>>
    BY DEF AcceptSteer, RefuseSteer, Takes, serverVars
  <1>2. app \in AppType /\ app.out = <<>> /\ app.stash # <<>>
        /\ app.stash \in Stashes /\ Fit(app, app.turns)
    BY <1>1, TurnsKnown, TakesFacts, Fields
  <1>3. SteeredInto(app) \in AppType /\ Popped(app, SteeredInto(app))
    BY <1>2, SteeredIntoData
  <1>4. SteerFailed(app) \in AppType /\ Popped(app, SteerFailed(app))
    BY <1>2, SteerFailedData
  <1>5. a \in AppType /\ Popped(app, a)
    BY <1>3, <1>4
  <1> HIDE DEF a
  <1>6. SameLatch(app, a) /\ Tame(a)
    BY <1>2, <1>5, TurnsKnown DEF Popped, Unsubmitted, Tame
  <1> QED BY <1>1, <1>5, <1>6, SameRan

(* What the server reports of a steer, and the failure of another request.  *)
LEMMA ReportKept ==
    ASSUME Sound, TurnsRan,
           \/ ConsumeSteer \/ \E t : DropSteers(t) \/ \E kind : OtherRequestFails(kind)
    PROVE  Kept
  <1>1. UNCHANGED <<accepted, running, over, link, inbox>>
    BY DEF ConsumeSteer, DropSteers, OtherRequestFails, serverVars
  <1>2. app \in AppType /\ app.out = <<>>
    BY TurnsKnown
  <1>3. \E a : a \in AppType /\ SameLatch(app, a) /\ Tame(a) /\ Keeps(a)
    <2>1. CASE ConsumeSteer
      <3> DEFINE b == Echo(app, Head(inputs).prompt)
      <3>1. Keeps(b) \/ Keeps(app)
        BY <2>1 DEF ConsumeSteer
      <3>2. b \in AppType /\ Returned(app, b)
        BY <1>2, EchoData
      <3> HIDE DEF b
      <3> QED BY <1>2, <3>1, <3>2, TurnsKnown DEF Returned, Unsubmitted, Tame, SameLatch
    <2>2. ASSUME NEW t, DropSteers(t)
          PROVE  \E a : a \in AppType /\ SameLatch(app, a) /\ Tame(a) /\ Keeps(a)
      <3> DEFINE b == SteersDropped(app, t, {inputs[i].prompt : i \in PendingInputs(t)})
      <3>1. Keeps(b)
        BY <2>2 DEF DropSteers
      <3>2. b \in AppType /\ Returned(app, b)
        BY <1>2, SteersDroppedData
      <3> HIDE DEF b
      <3> QED BY <1>2, <3>1, <3>2, TurnsKnown DEF Returned, Unsubmitted, Tame
    <2>3. ASSUME NEW kind, OtherRequestFails(kind)
          PROVE  \E a : a \in AppType /\ SameLatch(app, a) /\ Tame(a) /\ Keeps(a)
      <3> DEFINE b == SendRefused(app)
                 c == Failed(app)
      <3>1. Keeps(b) \/ Keeps(c)
        BY <2>3 DEF OtherRequestFails
      <3>2. b \in AppType /\ BackedOff(app, b, {app.sel})
        BY <1>2, SendRefusedData
      <3>3. c \in AppType /\ Apart(app, c) /\ Unsubmitted(app, c)
        BY <1>2, FailedData
      <3> HIDE DEF b, c
      <3> QED BY <1>2, <3>1, <3>2, <3>3, TurnsKnown DEF BackedOff, Apart, Unsubmitted, Tame
    <2> QED BY <2>1, <2>2, <2>3
  <1> PICK a : a \in AppType /\ SameLatch(app, a) /\ Tame(a) /\ Keeps(a)
    BY <1>3
  <1>4. Run(a, wire)
    BY DEF Keeps
  <1> QED BY <1>1, <1>4, SameRan

(* A turn that runs, or starts to, is bound. *)
LEMMA BoundKept ==
    ASSUME Sound, TurnsRan, NEW t, NEW a \in AppType, Bound(app, a, t), Keeps(a),
           t \in accepted \cup running, t \notin app.done, t \notin app.switched \/ t \in running,
           link # "down", UNCHANGED <<link, inbox, over>>, accepted' \subseteq accepted,
           running' = running \cup {t}, Ran(Starts(wire), accepted', running', over, app)
    PROVE  Kept
  <1>1. /\ app \in AppType /\ app.out = <<>> /\ t \in DOMAIN app.turns
        /\ TurnSession(app, t) \in Sessions
    BY TurnsKnown
  <1>2. Tame(a) /\ a.turns = app.turns /\ a.done = app.done
    BY <1>1, TurnsKnown DEF Bound, Unsubmitted, Tame
  <1>3. Ran(Starts(wire), accepted', running', over', a)
    BY <1>1, RanBound
  <1>4. Run(a, wire)
    BY DEF Keeps
  <1>5. app'.turns = app.turns
    BY <1>2, <1>4, TurnsKnown, RunLatch
  <1>6. LatchesHold /\ SoloRun' => Latches(running', a, link', inbox')
    <2> SUFFICES ASSUME LatchesHold, SoloRun'
                 PROVE  Latches(running \cup {t}, a, link, inbox)
      OBVIOUS
    <2>1. t \notin app.done \cup app.switched
      BY DEF LatchesHold, Latches
    <2>2. \A u \in running : TurnSession(app, u) = TurnSession(app, t) => u = t
      BY <1>5 DEF SoloRun, Solo, TurnSession
    <2>3. Latches(running, app, link, inbox)
      BY DEF LatchesHold
    <2> QED BY <1>1, <2>1, <2>2, <2>3, LatchFacts, LatchesBound
  <1>7. accepted' \cup running' \cup over' \cup a.done \subseteq DOMAIN app.turns
    BY <1>1, <1>2, TurnsKnown
  <1> QED BY <1>2, <1>3, <1>4, <1>6, <1>7, StepRan

LEMMA StartTurnKept == ASSUME Sound, TurnsRan, NEW t, StartTurn(t) PROVE Kept
  <1> DEFINE a == Started(app, t)
  <1>1. /\ link = "up" /\ t \in accepted /\ accepted' = accepted \ {t}
        /\ running' = running \cup {t} /\ Keeps(a) /\ UNCHANGED <<link, inbox, over>>
    BY DEF StartTurn
  <1>2. /\ app \in AppType /\ t \in Nat \ {None} /\ TurnSession(app, t) \in Sessions
        /\ t \notin app.done
    BY <1>1, TurnsKnown DEF TurnsRan, Ran
  <1>3. a \in AppType /\ Bound(app, a, t)
    BY <1>2, StartedData DEF Opened
  <1> HIDE DEF a
  <1>4. t \notin app.switched
    BY <1>1 DEF TurnsRan, Ran
  <1>5. Ran(Starts(wire), accepted', running', over, app)
    <2>1. \A s \in Sessions : app.live[s] # t
      BY <1>1, <1>2 DEF TurnsRan, Ran
    <2> QED BY <1>1, <2>1 DEF TurnsRan, Ran
  <1> QED BY <1>1, <1>2, <1>3, <1>4, <1>5, BoundKept

LEMMA StreamKept == ASSUME Sound, TurnsRan, NEW t, Stream(t) PROVE Kept
  <1> PICK a \in {Delta(app, t), Tool(app, t)} : Keeps(a)
    BY DEF Stream
  <1>1. /\ UNCHANGED <<accepted, running, over, link, inbox>> /\ link # "down"
        /\ t \in running \cup (over \cap app.done)
    BY DEF Stream, Listens, serverVars
  <1>2. /\ app \in AppType /\ t \in Nat \ {None} /\ TurnSession(app, t) \in Sessions
        /\ Fit(app, app.turns) /\ t \in DOMAIN app.turns
    BY <1>1, TurnsKnown
  <1>3. Fit(a, app.turns) /\ Tame(a)
    BY <1>2, DeltaFit, ToolFit DEF Tame, Fit
  <1>4. SameLatch(app, a) \/ (Bound(app, a, t) /\ t \notin app.done)
    <2>1. CASE a = Delta(app, t)
      <3>1. a = app \/ Withheld(app, a) \/ (Bound(app, a, t) /\ t \notin app.done)
        BY <1>2, <2>1, DeltaData
      <3> QED BY <3>1 DEF Withheld, SameLatch
    <2>2. CASE a = Tool(app, t)
      <3>1. Apart(app, a)
        BY <1>2, <2>2, ToolData
      <3> QED BY <3>1 DEF Apart
    <2> QED BY <2>1, <2>2
  <1>5. a \in AppType
    BY <1>3 DEF Fit
  <1>6. CASE SameLatch(app, a)
    <2>1. Run(a, wire)
      BY DEF Keeps
    <2> QED BY <1>1, <1>3, <1>5, <1>6, <2>1, SameRan
  <1>7. CASE Bound(app, a, t) /\ t \notin app.done
    <2>1. t \in running /\ running' = running \cup {t}
      BY <1>1, <1>7
    <2>2. Ran(Starts(wire), accepted', running', over, app)
      BY <1>1 DEF TurnsRan
    <2> QED BY <1>1, <1>5, <1>7, <2>1, <2>2, BoundKept
  <1> QED BY <1>4, <1>6, <1>7

(* A terminal of a turn that runs, or has been accepted. *)
LEMMA EndedKept ==
    ASSUME Sound, TurnsRan, NEW t, NEW a \in AppType, Concluded(app, a, t), Tame(a), Keeps(a),
           UNCHANGED <<link, inbox>>,
           \/ /\ t \in running /\ running' = running \ {t} /\ over' = over \cup {t}
              /\ accepted' = accepted
           \/ /\ t \in accepted /\ accepted' = accepted \ {t}
              /\ running' = running /\ over' = over
    PROVE  Kept
  <1>1. /\ app \in AppType /\ app.out = <<>> /\ t \in DOMAIN app.turns
        /\ TurnSession(app, t) \in Sessions /\ t # None
    BY TurnsKnown
  <1>2. Ended(app, a, t)
    BY ConcludedEnds
  <1>3. /\ t \notin app.done /\ t \notin Starts(wire) /\ t \notin accepted' \cup running'
        /\ t \in running \/ t \notin app.switched
        /\ running' = running \ {t}
    BY DEF TurnsRan, Ran
  <1>4. Ran(Starts(wire), accepted', running', over', app)
    BY DEF TurnsRan, Ran
  <1>5. Ran(Starts(wire), accepted', running', over', a)
    BY <1>1, <1>2, <1>3, <1>4, RanEnded
  <1>6. LatchesHold => Latches(running', a, link', inbox')
    <2> SUFFICES ASSUME LatchesHold PROVE Latches(running \ {t}, a, link, inbox)
      BY <1>3
    <2>1. t \notin app.done \cup app.switched
      BY <1>3 DEF LatchesHold, Latches
    <2>2. Latches(running, app, link, inbox)
      BY DEF LatchesHold
    <2> QED BY <1>1, <1>2, <2>1, <2>2, LatchFacts, LatchesEnded
  <1>7. accepted' \cup running' \cup over' \cup a.done \subseteq DOMAIN app.turns
    <2>1. a.done = app.done \cup {t}
      BY <1>2, <1>3 DEF Ended
    <2> QED BY <1>1, <2>1, TurnsKnown
  <1>8. Run(a, wire)
    BY DEF Keeps
  <1> QED BY <1>5, <1>6, <1>7, <1>8, StepRan

LEMMA EndsKept ==
    ASSUME Sound, TurnsRan, NEW t,
           \/ RejectTurn(t) \/ Abort(t)
           \/ \E o \in {"success", "error", "idle"} : Complete(t, o)
    PROVE  Kept
  <1>1. /\ UNCHANGED <<link, inbox>>
        /\ \/ /\ t \in running /\ running' = running \ {t} /\ over' = over \cup {t}
              /\ accepted' = accepted
           \/ /\ t \in accepted /\ accepted' = accepted \ {t}
              /\ running' = running /\ over' = over
    BY DEF RejectTurn, Abort, Complete, Ends
  <1>2. /\ app \in AppType /\ t \in Nat /\ TurnSession(app, t) \in Sessions
        /\ Fit(app, app.turns) /\ t \in DOMAIN app.turns
    BY <1>1, TurnsKnown
  <1>3. \E a : Fit(a, app.turns) /\ Plain(app, a) /\ Concluded(app, a, t) /\ Keeps(a)
    <2>1. ASSUME NEW o \in {"success", "error", "idle"}, Keeps(Commit(app, t, o))
          PROVE  \E a : Fit(a, app.turns) /\ Plain(app, a) /\ Concluded(app, a, t) /\ Keeps(a)
      BY <1>2, <2>1, CommitFit, CommitData
    <2>2. ASSUME NEW interrupt, Keeps(Fail(app, t, interrupt))
          PROVE  \E a : Fit(a, app.turns) /\ Plain(app, a) /\ Concluded(app, a, t) /\ Keeps(a)
      BY <1>2, <2>2, FailFit, FailData
    <2> QED BY <2>1, <2>2 DEF RejectTurn, Abort, Complete
  <1> PICK a : Fit(a, app.turns) /\ Plain(app, a) /\ Concluded(app, a, t) /\ Keeps(a)
    BY <1>3
  <1>4. a \in AppType /\ Tame(a)
    BY DEF Fit, Tame
  <1> QED BY <1>1, <1>4, EndedKept

(* An answered hydrate. *)
LEMMA AnswerHydrateKept == ASSUME Sound, TurnsRan, NEW stale, AnswerHydrate(stale) PROVE Kept
  <1> DEFINE s == Head(wire).sess
             Mine(ts) == {t \in ts : t # None /\ TurnSession(app, t) = s}
             active == Mine(running \cup {stale})
             told == active \cap app.done
             t1 == CHOOSE t \in told : TRUE
             ended == Mine(over \ {stale})
             a == IF told # {} THEN Refresh(app, s, t1)
                  ELSE Hydrated(app, s, ended, active, answered)
  <1>1. /\ Takes("hydrate") /\ Run(a, Tail(wire)) /\ wire # <<>>
        /\ UNCHANGED <<accepted, running, over, link, inbox>>
    BY DEF AnswerHydrate, Takes, serverVars
  <1>2. s \in Sessions
    BY <1>1, TakesFacts DEF CmdType
  <1>3. told \subseteq app.done /\ ended \subseteq over /\ None \notin ended
    OBVIOUS
  <1> HIDE DEF ended, active, told
  <1>4. Fit(app, app.turns) /\ app \in AppType /\ app.done \in SUBSET Nat
    BY TurnsKnown, Fields
  <1>5. told # {} => t1 \in Nat
    BY <1>3, <1>4
  <1> HIDE DEF t1, s
  <1>6. CASE told # {}
    <2> DEFINE b == Refresh(app, s, t1)
    <2>1. b \in AppType /\ Refreshed(app, b, s) /\ Plain(app, b) /\ Fit(b, app.turns)
      BY <1>2, <1>4, <1>5, <1>6, RefreshData, RefreshFit
    <2>2. Run(b, Tail(wire))
      BY <1>1, <1>6
    <2> HIDE DEF b
    <2> QED BY <1>1, <2>1, <2>2, SameRan DEF Refreshed, Apart, Tame, Fit
  <1>7. CASE told = {}
    <2> DEFINE b == Hydrated(app, s, ended, active, answered)
    <2>1. Fit(b, app.turns) /\ Plain(app, b) /\ b \in AppType
      BY <1>2, <1>3, <1>4, HydratedFit DEF Fit
    <2>2. \E c, d \in AppType : /\ Landed(app, c) /\ Stale(c, d, s, ended)
                                /\ (b = d \/ Reset(d, b))
      BY <1>2, <1>4, HydratedData
    <2>3. Run(b, Tail(wire))
      BY <1>1, <1>7
    <2> HIDE DEF a, b
    <2> PICK c \in AppType, d \in AppType :
          Landed(app, c) /\ Stale(c, d, s, ended) /\ (b = d \/ Reset(d, b))
      BY <2>2
    <2>4. SameLatch(app, c) /\ c.turns = app.turns /\ SameLatch(d, b)
      BY ResetLatch DEF Landed, Returned, Unsubmitted, SameLatch
    <2>5. CASE d = c
      <3>1. SameLatch(app, b)
        BY <2>4, <2>5, SameLatchThen
      <3> QED BY <1>1, <2>1, <2>3, <3>1, SameRan DEF Tame, Fit
    <2>6. CASE d # c
      <3> PICK e \in AppType : c.live[s] \in ended /\ Finalized(c, e, s) /\ Drained(e, d)
        BY <2>6 DEF Stale
      <3>1. SameLatch(e, b)
        BY <2>4, DrainedLatch, SameLatchThen
      <3>2. Starts(Tail(wire)) \subseteq Starts(wire)
        BY <1>1, TurnsKnown, StartsTail
      <3>3. c.live[s] \in over /\ c.live[s] # None
        BY <1>3
      <3>4. Ran(Starts(Tail(wire)), accepted, running, over, c)
        BY <2>4, <3>2, RanSame DEF TurnsRan
      <3>5. Ran(Starts(Tail(wire)), accepted, running, over, e)
        BY <1>2, <3>3, <3>4, RanFinalized
      <3>6. Ran(Starts(Tail(wire)), accepted, running, over, b)
        BY <3>1, <3>5, RanSame
      <3>7. LatchesHold => Latches(running, b, link, inbox)
        <4> SUFFICES ASSUME LatchesHold PROVE Latches(running, b, link, inbox)
          OBVIOUS
        <4>1. Latches(running, c, link, inbox)
          BY <2>4, LatchesSame DEF LatchesHold
        <4>2. /\ None \notin c.done
              /\ \A x \in Sessions : c.live[x] # None => TurnSession(c, c.live[x]) = x
          BY <2>4, LatchFacts DEF SameLatch, TurnSession
        <4>3. Latches(running, e, link, inbox)
          BY <1>2, <3>3, <4>1, <4>2, LatchesFinalized
        <4> QED BY <3>1, <4>3, LatchesSame
      <3>8. accepted' \cup running' \cup over' \cup b.done \subseteq DOMAIN app.turns
        <4>1. b.done \subseteq DOMAIN app.turns
          BY <2>1 DEF Fit, Refs
        <4> QED BY <1>1, <4>1, TurnsKnown
      <3>9. Ran(Starts(Tail(wire)), accepted', running', over', b)
            /\ (LatchesHold => Latches(running', b, link', inbox'))
        BY <1>1, <3>6, <3>7
      <3> QED BY <1>1, <2>1, <2>3, <3>8, <3>9, StepRan DEF Tame, Fit
    <2> QED BY <2>5, <2>6
  <1> QED BY <1>6, <1>7

(* The server makes a turn of its own. *)
LEMMA FreshTurn ==
    ASSUME Sound
    PROVE  LET t == Len(app.turns) + 1
           IN  /\ t # None /\ t \in Nat
               /\ t \notin Starts(wire) \cup accepted \cup running \cup over
               /\ t \notin app.done \cup app.switched
               /\ \A s \in Sessions : app.live[s] # t
  <1> DEFINE t == Len(app.turns) + 1
  <1>1. /\ t \in Nat \ {None} /\ t \notin DOMAIN app.turns
    BY TurnsKnown, TableFacts DEF None
  <1> HIDE DEF t
  <1>2. \A s \in Sessions : app.live[s] # t
    BY <1>1 DEF Sound, StoreSound, Fit, Refs
  <1> QED BY <1>1, <1>2, TurnsKnown DEF t

LEMMA StartForSteerKept == ASSUME Sound, TurnsRan, StartForSteer PROVE Kept
  <1> DEFINE t == Len(app.turns) + 1
             e == [sess |-> Head(wire).sess, prompt |-> Head(wire).prompt]
             b == [app EXCEPT !.turns = Append(@, e)]
             a == SteerStartedTurn(b)
  <1>1. /\ Takes("steer") /\ wire # <<>> /\ accepted' = accepted \cup {t} /\ Run(a, Tail(wire))
        /\ UNCHANGED <<inbox, link, running, over>>
    BY DEF StartForSteer, Takes
  <1>2. /\ Fit(app, app.turns) /\ app.out = <<>> /\ app.stash # <<>> /\ Head(wire) \in CmdType
        /\ wire \in Seq(CmdType)
    BY <1>1, TakesFacts, TurnsKnown
  <1>3. e \in TurnType
    BY <1>2 DEF CmdType, TurnType
  <1> HIDE DEF e
  <1>4. b \in AppType /\ Apart(app, b) /\ b.out = <<>> /\ Extends(app.turns, b.turns)
    BY <1>2, <1>3, ExtendedFit
  <1> HIDE DEF b
  <1>5. b.stash # <<>>
    BY <1>2, <1>4 DEF Apart, SameSteers
  <1>6. a \in AppType /\ Popped(b, a)
    BY <1>4, <1>5, SteerStartedTurnData
  <1> HIDE DEF a
  <1>7. SameLatch(app, a) /\ a.out = <<>> /\ a.turns = b.turns
    BY <1>4, <1>6 DEF Apart, Popped, SameLatch, Unsubmitted
  <1>8. t # None /\ t \notin Starts(wire) \cup accepted \cup running \cup over
        /\ t \notin app.done
    BY FreshTurn
  <1> HIDE DEF t
  <1>9. Starts(Tail(wire)) \subseteq Starts(wire)
    BY <1>1, <1>2, StartsTail
  <1>10. Ran(Starts(Tail(wire)), accepted', running', over', app)
    BY <1>1, <1>8, <1>9 DEF TurnsRan, Ran
  <1>11. Ran(Starts(Tail(wire)), accepted', running', over', a)
    BY <1>7, <1>10, RanSame
  <1>12. LatchesHold => Latches(running', a, link', inbox')
    BY <1>1, <1>7, LatchesSame DEF LatchesHold
  <1> QED BY <1>1, <1>4, <1>6, <1>7, <1>11, <1>12, StepRan DEF Tame

LEMMA StartOwnTurnKept ==
    ASSUME Sound, TurnsRan, NEW s \in Sessions, StartOwnTurn(s)
    PROVE  Kept
  <1> DEFINE t == Len(app.turns) + 1
             e == [sess |-> s, prompt |-> None]
             b == [app EXCEPT !.turns = Append(@, e)]
  <1>1. /\ link # "down" /\ running' = running \cup {t}
        /\ Keeps(Started(b, t)) \/ Keeps(b)
        /\ UNCHANGED <<inbox, link, accepted, over>>
    BY DEF StartOwnTurn, Listens
  <1>2. /\ Fit(app, app.turns) /\ app.out = <<>> /\ app \in AppType
        /\ wire \in Seq(CmdType)
    BY TurnsKnown
  <1>3. e \in TurnType
    BY DEF TurnType, None
  <1>4. /\ b \in AppType /\ Fit(b, b.turns) /\ Apart(app, b) /\ b.out = <<>>
        /\ t \in DOMAIN b.turns /\ Extends(app.turns, b.turns)
    BY <1>2, <1>3, ExtendedFit
  <1>5. t \in Nat \ {None} /\ TurnSession(b, t) \in Sessions
    BY <1>4, FitFacts, FreshTurn
  <1>6. /\ t \notin Starts(wire) \cup accepted \cup running \cup over
        /\ t \notin app.done \cup app.switched /\ \A x \in Sessions : app.live[x] # t
    BY FreshTurn
  <1> HIDE DEF e, b, t
  <1>7. SameLatch(app, b)
    BY <1>4 DEF Apart
  <1>8. Ran(Starts(wire), accepted', running', over', app)
    BY <1>1, <1>5, <1>6 DEF TurnsRan, Ran
  <1>9. Ran(Starts(wire), accepted', running', over', b)
    BY <1>7, <1>8, RanSame
  <1>10. CASE Keeps(b)
    <2>1. LatchesHold => Latches(running', app, link', inbox')
      BY <1>1, <1>6 DEF LatchesHold, Latches, Waits
    <2>2. LatchesHold => Latches(running', b, link', inbox')
      BY <1>7, <2>1, LatchesSame
    <2>3. Run(b, wire)
      BY <1>10 DEF Keeps
    <2> QED BY <1>4, <1>9, <2>2, <2>3, StepRan DEF Tame
  <1>11. CASE Keeps(Started(b, t))
    <2> DEFINE a == Started(b, t)
    <2>1. a \in AppType /\ Bound(b, a, t)
      BY <1>4, <1>5, <1>6, <1>7, StartedData DEF Opened, SameLatch
    <2>2. Run(a, wire)
      BY <1>11 DEF Keeps
    <2> HIDE DEF a
    <2>3. a.out = <<>> /\ a.turns = b.turns
      BY <1>4, <2>1 DEF Bound, Unsubmitted
    <2>4. Ran(Starts(wire), accepted', running', over', a)
      BY <1>1, <1>4, <1>5, <1>9, <2>1, RanBound
    <2>5. app'.turns = b.turns
      BY <1>1, <2>1, <2>2, <2>3, TurnsKnown, RunLatch
    <2>6. LatchesHold /\ SoloRun' => Latches(running', a, link', inbox')
      <3> SUFFICES ASSUME LatchesHold, SoloRun'
                   PROVE  Latches(running \cup {t}, a, link, inbox)
        BY <1>1
      <3>1. \A u \in running : TurnSession(b, u) = TurnSession(b, t) => u = t
        BY <1>1, <2>5 DEF SoloRun, Solo, TurnSession
      <3>2. t \notin b.done \cup b.switched
        BY <1>6, <1>7 DEF SameLatch
      <3>3. Latches(running, b, link, inbox)
        BY <1>7, LatchesSame DEF LatchesHold
      <3>4. \A x \in Sessions : b.live[x] # None => TurnSession(b, b.live[x]) = x
        BY <1>4 DEF Fit, Refs, TurnSession
      <3> QED BY <1>4, <1>5, <2>1, <3>1, <3>2, <3>3, <3>4, LatchesBound
    <2> QED BY <1>4, <2>1, <2>2, <2>3, <2>4, <2>6, StepRan DEF Tame
  <1> QED BY <1>1, <1>10, <1>11

LEMMA ServerKeeps == ASSUME Sound, TurnsRan, ServerSteps PROVE Kept
  <1>1. CASE AcceptStart \/ DropStart \/ TakeInterrupt
    BY <1>1, AnswerKept
  <1>2. CASE RefuseStart \/ AcceptSteer \/ StartForSteer \/ RefuseSteer
    BY <1>2, RefuseStartKept, SteerAnswerKept, StartForSteerKept
  <1>3. CASE \E stale \in (over \cap app.done) \cup {None} : AnswerHydrate(stale)
    BY <1>3, AnswerHydrateKept
  <1>4. CASE \E t \in accepted : StartTurn(t) \/ RejectTurn(t)
    BY <1>4, StartTurnKept, EndsKept
  <1>5. CASE \E s \in Sessions : StartOwnTurn(s)
    BY <1>5, StartOwnTurnKept
  <1>6. CASE ConsumeSteer \/ \E kind \in {"error", "cap"} : OtherRequestFails(kind)
    BY <1>6, ReportKept
  <1>7. CASE \E t \in running \cup over : Stream(t)
    BY <1>7, StreamKept
  <1>8. CASE \E t \in running : DropSteers(t) \/ Abort(t)
    BY <1>8, ReportKept, EndsKept
  <1>9. CASE \E t \in running, o \in {"success", "error", "idle"} : Complete(t, o)
    BY <1>9, EndsKept
  <1> QED BY <1>1, <1>2, <1>3, <1>4, <1>5, <1>6, <1>7, <1>8, <1>9 DEF ServerSteps

LEMMA LinkKept ==
    ASSUME Sound, Phase, TurnsRan, LinkDies \/ LinkBoots \/ LinkOpens
    PROVE  Kept
  <1>1. app' = app /\ inbox = <<>>
    BY DEF LinkDies, LinkBoots, LinkOpens, Listens
  <1>2. CASE LinkDies
    <2>1. /\ link' = "down" /\ wire' = <<>> /\ accepted' = {} /\ running' = {}
          /\ over' = over \cup running
      BY <1>2 DEF LinkDies
    <2>2. Distinct(wire') /\ Starts(wire') = {}
      BY <2>1 DEF Distinct, Starts, StartPlaces
    <2>3. Ran({}, {}, {}, over \cup running, app)
      BY DEF TurnsRan, Ran
    <2>4. LatchesHold => LatchesHold'
      BY <1>1, <2>1 DEF LatchesHold, Latches, Waits
    <2> QED BY <1>1, <2>1, <2>2, <2>3, <2>4, TurnsKnown DEF Kept, TurnsRan
  <1>3. CASE LinkBoots \/ LinkOpens
    <2>1. /\ \E event : inbox' = Append(<<>>, Signal(event))
          /\ (link = "down" /\ link' = "booting") \/ (link = "booting" /\ link' = "up")
          /\ UNCHANGED <<wire, accepted, running, over>>
      BY <1>1, <1>3 DEF LinkBoots, LinkOpens, serverVars
    <2>2. inbox' # <<>>
      BY <2>1
    <2>3. LatchesHold => LatchesHold'
      BY <1>1, <2>1, <2>2 DEF LatchesHold, Latches, Waits
    <2> QED BY <1>1, <2>1, <2>3, TurnsKnown DEF Kept, TurnsRan
  <1> QED BY <1>2, <1>3

LEMMA ReadKept == ASSUME Sound, Phase, TurnsRan, ReadInbox PROVE Kept
  <1> DEFINE e == Head(inbox)
             a == CASE e.event = "cancelled" -> Cancelled(app, e.cmd)
                    [] e.event = "epoch" -> [app EXCEPT !.conn = @ + 1]
                    [] e.event = "relaunched" -> Relaunched(app)
  <1>1. /\ inbox # <<>> /\ inbox' = Tail(inbox) /\ Run(a, wire)
        /\ UNCHANGED <<link, accepted, running, over>>
    BY DEF ReadInbox, Keeps, serverVars
  <1>2. /\ Fit(app, app.turns) /\ app \in AppType /\ app.out = <<>>
        /\ app.stash \in Stashes /\ inbox \in Seq(EventType) /\ wire \in Seq(CmdType)
        /\ Lines(inbox, wire, app.turns, app.stash)
    BY TurnsKnown, Fields DEF Sound, StoreSound, Fit, LinesSound, Lines
  <1>3. /\ e = inbox[1] /\ 1 \in DOMAIN inbox /\ e \in EventType /\ SoundEvent(e)
        /\ Len(inbox) = 1 => inbox' = <<>>
    <2>1. e = inbox[1] /\ 1 \in DOMAIN inbox /\ e \in EventType
      BY <1>1, <1>2, HeadTailProperties
    <2>2. Len(inbox) = 1 => inbox' = <<>>
      BY <1>1, <1>2
    <2> QED BY <1>1, <1>2, <2>1, <2>2, LinesRead
  <1>4. e.event = EventOf(link) /\ link \in {"up", "down", "booting"}
    BY <1>3 DEF Phase, Sound, BudgetSound
  <1>5. link # "down" => inbox' = <<>>
    <2>1. Len(inbox) \in Nat /\ Len(inbox) # 0
      BY <1>1, <1>2
    <2>2. \A n \in Nat : n # 0 /\ n <= 1 => n = 1
      OBVIOUS
    <2>3. Len(inbox) <= 1 => Len(inbox) = 1
      BY <2>1, <2>2
    <2> QED BY <1>3, <2>3 DEF Phase
  <1> HIDE DEF e
  <1>6. CASE link = "down"
    <2> DEFINE b == Cancelled(app, e.cmd)
    <2>1. Run(b, wire) /\ e.cmd \in CmdType /\ e.cmd.kind \in Requests
          /\ (e.cmd.kind = "steer" => app.stash # <<>>)
      <3>1. e.event = "cancelled"
        BY <1>4, <1>6 DEF EventOf
      <3>2. Run(b, wire)
        BY <1>1, <3>1
      <3> HIDE DEF e, b
      <3>3. e = Head(inbox)
        BY DEF e
      <3>4. /\ e \in EventType /\ SoundEvent(e)
            /\ e.cmd.kind = "steer" => app.stash # <<>>
        BY <1>1, <1>2, <3>3, LinesRead
      <3>5. e.cmd \in CmdType
        BY <3>4 DEF EventType
      <3> QED BY <3>1, <3>2, <3>4, <3>5 DEF SoundEvent
    <2>2. b \in AppType /\ SameLatch(app, b) /\ Tame(b)
      <3>1. CASE e.cmd.kind = "start"
        <4> DEFINE c == StartCancelled(app)
        <4>1. b = c /\ c \in AppType /\ BackedOff(app, c, Sessions)
          BY <1>2, <3>1, StartCancelledData DEF Cancelled
        <4> HIDE DEF b, c
        <4> QED BY <1>2, <4>1, TurnsKnown DEF BackedOff, Apart, Unsubmitted, Tame
      <3>2. CASE e.cmd.kind = "steer"
        <4> DEFINE c == SteerFailed(app)
        <4>1. b = c /\ c \in AppType /\ Popped(app, c)
          BY <1>2, <2>1, <3>2, SteerFailedData DEF Cancelled
        <4> HIDE DEF b, c
        <4> QED BY <1>2, <4>1, TurnsKnown DEF Popped, Unsubmitted, Tame
      <3>3. CASE e.cmd.kind = "hydrate"
        <4> DEFINE h == [app EXCEPT !.hydrating = @ \ {e.cmd.sess}]
                   c == Failed(h)
        <4>1. b = c
          BY <3>3 DEF Cancelled
        <4>2. h \in AppType /\ Apart(app, h) /\ Unsubmitted(app, h)
          BY <1>2, HydratingData
        <4> HIDE DEF h
        <4>3. c \in AppType /\ Apart(h, c) /\ Unsubmitted(h, c)
          BY <4>2, FailedData
        <4> HIDE DEF b, c
        <4> QED BY <1>2, <4>1, <4>2, <4>3, TurnsKnown DEF Apart, SameLatch, Unsubmitted, Tame
      <3>4. CASE e.cmd.kind = "interrupt"
        <4> DEFINE c == Failed(app)
        <4>1. b = c /\ c \in AppType /\ Apart(app, c) /\ Unsubmitted(app, c)
          BY <1>2, <3>4, FailedData DEF Cancelled
        <4> HIDE DEF b, c
        <4> QED BY <1>2, <4>1, TurnsKnown DEF Apart, Unsubmitted, Tame
      <3> QED BY <2>1, <3>1, <3>2, <3>3, <3>4 DEF Requests
    <2> HIDE DEF b
    <2>3. Ran(Starts(wire), accepted', running', over', b)
      BY <1>1, <2>2, RanSame DEF TurnsRan
    <2>4. LatchesHold => Latches(running', b, link', inbox')
      <3>1. LatchesHold => Latches(running, app, link', inbox')
        BY <1>1, <1>6 DEF LatchesHold, Latches, Waits
      <3> QED BY <1>1, <2>2, <3>1, LatchesSame
    <2>5. accepted' \cup running' \cup over' \cup b.done \subseteq DOMAIN app.turns
      BY <1>1, <2>2, TurnsKnown DEF SameLatch
    <2> QED BY <2>1, <2>2, <2>3, <2>4, <2>5, StepRan
  <1>7. CASE link = "booting"
    <2> DEFINE b == [app EXCEPT !.conn = @ + 1]
    <2>1. e.event = "epoch"
      BY <1>4, <1>7 DEF EventOf
    <2>2. Run(b, wire)
      BY <1>1, <2>1
    <2>3. /\ b \in AppType /\ b.live = app.live /\ b.done = app.done /\ b.out = <<>>
          /\ b.switched = app.switched /\ b.epoch = app.epoch /\ b.conn = app.conn + 1
          /\ b.turns = app.turns
      BY <1>2, EpochData DEF Unsubmitted
    <2> HIDE DEF b
    <2>4. running = {}
      BY <1>1, <1>7 DEF Phase
    <2>5. \A x \in Sessions : app.epoch[x] \in Nat /\ app.conn \in Nat
      BY <1>2, Fields DEF Marks
    <2>6. \A x \in Sessions : b.epoch[x] <= app.conn /\ b.epoch[x] < b.conn
                              /\ b.epoch[x] <= b.conn
      BY <2>3, <2>5 DEF TurnsRan, Ran
    <2>7. Ran(Starts(wire), accepted', running', over', b)
      BY <1>1, <2>3, <2>4, <2>6 DEF TurnsRan, Ran
    <2>8. LatchesHold => Latches(running', b, link', inbox')
      BY <1>1, <1>7, <2>3, <2>4, <2>6 DEF LatchesHold, Latches, Waits
    <2> QED BY <2>2, <2>3, <2>7, <2>8, TurnsKnown, StepRan DEF Tame, Unsubmitted
  <1>8. CASE link = "up"
    <2> DEFINE b == Relaunched(app)
    <2>1. e.event = "relaunched"
      BY <1>4, <1>8 DEF EventOf
    <2>2. Run(b, wire)
      BY <1>1, <2>1
    <2>3. Fit(b, app.turns) /\ Plain(app, b) /\ b \in AppType
      BY <1>2, RelaunchedFit DEF Fit
    <2>4. \E c \in AppType : Reconciled(app, c) /\ Drains(c, b)
      BY <1>2, RelaunchedData
    <2> HIDE DEF b
    <2> PICK c \in AppType : Reconciled(app, c) /\ Drains(c, b)
      BY <2>4
    <2>5. SameLatch(c, b)
      <3> PICK d \in AppType, f \in AppType :
            /\ d = c \/ Drained(c, d)
            /\ b = d \/ (Drained(f, b) /\ Apart(d, f))
        BY DEF Drains
      <3>1. SameLatch(c, d)
        BY DrainedLatch DEF SameLatch
      <3>2. b = d \/ (SameLatch(d, f) /\ SameLatch(f, b))
        BY DrainedLatch DEF Apart
      <3> QED BY <3>1, <3>2, SameLatchThen
    <2>6. Ran(Starts(wire), accepted', running', over', b)
      <3>1. Ran(Starts(wire), accepted, running, over, c)
        BY <1>2, RanReconciled DEF TurnsRan
      <3> QED BY <1>1, <2>5, <3>1, RanSame
    <2>7. LatchesHold => Latches(running', b, link', inbox')
      <3> SUFFICES ASSUME LatchesHold PROVE Latches(running, b, "up", <<>>)
        BY <1>1, <1>5, <1>8
      <3>1. Latches(running, app, "up", inbox)
        BY <1>8 DEF LatchesHold
      <3>2. Latches(running, c, "up", <<>>)
        BY <1>2, <3>1, LatchFacts, LatchesReconciled DEF TurnsRan
      <3> QED BY <2>5, <3>2, LatchesSame
    <2>8. accepted' \cup running' \cup over' \cup b.done \subseteq DOMAIN app.turns
      <3>1. b.done \subseteq DOMAIN app.turns
        BY <2>3 DEF Fit, Refs
      <3> QED BY <1>1, <3>1, TurnsKnown
    <2> QED BY <2>2, <2>3, <2>6, <2>7, <2>8, StepRan DEF Tame, Fit
  <1> QED BY <1>4, <1>6, <1>7, <1>8

LEMMA NextKept == ASSUME Sound, Phase, TurnsRan, [Next]_vars PROVE Kept
  <1>1. CASE User \/ Clock
    BY <1>1, UserKept, ClockKept
  <1>2. CASE ServerSteps
    BY <1>2, ServerKeeps
  <1>3. CASE LinkDies \/ LinkBoots \/ LinkOpens \/ ReadInbox
    BY <1>3, LinkKept, ReadKept
  <1>4. CASE UNCHANGED vars
    BY <1>4, TurnsKnown DEF vars, Kept, TurnsRan, LatchesHold
  <1> QED BY <1>1, <1>2, <1>3, <1>4 DEF Next

(* Everything the proofs keep for any constants. *)
Firm == Sound /\ Phase /\ TurnsRan

LEMMA InitFirm == Init => Firm
  <1> SUFFICES ASSUME Init PROVE Firm
    OBVIOUS
  <1>1. /\ wire = <<>> /\ inbox = <<>> /\ link = "up"
        /\ accepted = {} /\ running = {} /\ over = {}
    BY DEF Init
  <1>2. Phase
    BY <1>1 DEF Phase
  <1>3. Distinct(wire) /\ Starts(wire) = {}
    BY <1>1 DEF Distinct, Starts, StartPlaces
  <1>4. Ran({}, {}, {}, {}, app)
    BY InitApp DEF Ran
  <1> QED BY <1>1, <1>2, <1>3, <1>4, InitSound DEF Firm, TurnsRan

LEMMA AlwaysFirm == Spec => []Firm
  <1>1. Firm /\ [Next]_vars => Firm'
    BY NextSound, NextPhase, NextKept DEF Firm, Kept
  <1> QED BY <1>1, InitFirm, PTL DEF Spec

(* The store calls no turn finished that its server still runs, whatever    *)
(* the server does and however often the child dies: a turn is called       *)
(* finished by its terminal, by a hydrate of a turn that was over, or by    *)
(* the reconcile, which spares the turns of the connection it is read on.   *)
THEOREM FinishedTurnsAreOver == Spec => []DoneIsOver
  <1>1. Firm => DoneIsOver
    BY DEF Firm, TurnsRan, Ran, DoneIsOver
  <1> QED BY <1>1, AlwaysFirm, PTL

-----------------------------------------------------------------------------
(* A server that runs one turn of a session at a time.                     *)

(* Who starts a turn. *)
LEMMA NextRunning ==
    ASSUME Firm, [Next]_vars
    PROVE  \/ running' \subseteq running
           \/ \E t : StartTurn(t) \/ \E s \in Sessions : StartOwnTurn(s)
  <1>1. CASE User \/ Clock
    BY <1>1 DEF User, TypePrompt, UserInterrupts, SendPendingNow, UserSwitches, Acts,
                Clock, Tick, MarkerAges, GateAges, serverVars
  <1>2. CASE ServerSteps
    BY <1>2 DEF ServerSteps, AcceptStart, DropStart, RefuseStart, AcceptSteer, StartForSteer,
                RefuseSteer, TakeInterrupt, AnswerHydrate, RejectTurn, ConsumeSteer, Stream,
                DropSteers, Abort, Complete, Ends, OtherRequestFails, serverVars
  <1>3. CASE LinkDies \/ LinkBoots \/ LinkOpens \/ ReadInbox
    BY <1>3 DEF LinkDies, LinkBoots, LinkOpens, ReadInbox, serverVars
  <1>4. CASE UNCHANGED vars
    BY <1>4 DEF vars
  <1> QED BY <1>1, <1>2, <1>3, <1>4 DEF Next

(* The table after a turn of the server's own. *)
LEMMA OwnTurnTable ==
    ASSUME Firm, NEW s \in Sessions, StartOwnTurn(s)
    PROVE  LET t == Len(app.turns) + 1
           IN  running' = running \cup {t} /\ app'.turns[t].sess = s
  <1> DEFINE t == Len(app.turns) + 1
             e == [sess |-> s, prompt |-> None]
             b == [app EXCEPT !.turns = Append(@, e)]
  <1>1. link # "down" /\ running' = running \cup {t} /\ (Keeps(Started(b, t)) \/ Keeps(b))
    BY DEF StartOwnTurn, Listens
  <1>2. Fit(app, app.turns) /\ app.out = <<>> /\ app.turns \in TurnTables
    BY TurnsKnown DEF Firm
  <1>3. e \in TurnType /\ e.sess = s
    BY DEF TurnType, None
  <1>4. /\ b \in AppType /\ Fit(b, b.turns) /\ b.out = <<>> /\ t \in DOMAIN b.turns
        /\ b.turns = Append(app.turns, e)
    BY <1>2, <1>3, ExtendedFit
  <1>5. b.turns[t] = e
    <2>1. app.turns \in Seq(TurnType)
      BY <1>2 DEF TurnTables
    <2> HIDE DEF e, b
    <2> QED BY <1>3, <1>4, <2>1, AppendProperties
  <1>6. t \in Nat \ {None} /\ TurnSession(b, t) \in Sessions
    BY <1>4, FitFacts
  <1> HIDE DEF b, e, t
  <1>7. Started(b, t) \in AppType /\ Started(b, t).turns = b.turns
    <2>1. Started(b, t) \in AppType /\ (Started(b, t) = b \/ Opened(b, Started(b, t), t))
      BY <1>4, <1>6, StartedData
    <2> QED BY <2>1 DEF Opened, Bound, Unsubmitted
  <1> PICK a \in AppType : a.turns = b.turns /\ Run(a, wire)
    BY <1>1, <1>4, <1>7 DEF Keeps
  <1>8. app'.turns = b.turns
    BY <1>1, <1>2, RunLatch
  <1> QED BY <1>1, <1>3, <1>5, <1>8 DEF t

LEMMA SoloKept ==
    ASSUME Firm, [Next]_vars, SoloRun, NEW n, running' \subseteq running \cup {n},
           \A u \in running : app'.turns[u].sess # app'.turns[n].sess
    PROVE  SoloRun'
  <1>1. Extends(app.turns, app'.turns) /\ running \subseteq DOMAIN app.turns
    BY NextKept, TurnsKnown DEF Firm, Kept
  <1>2. \A u \in running : app'.turns[u] = app.turns[u]
    BY <1>1 DEF Extends
  <1> QED BY <1>2 DEF SoloRun, Solo

LEMMA SoloAlways ==
    ASSUME \A v \in Servers : ~v.twins
    PROVE  Firm /\ SoloRun /\ [Next]_vars => SoloRun'
  <1> SUFFICES ASSUME Firm, SoloRun, [Next]_vars PROVE SoloRun'
    OBVIOUS
  <1>1. ~server.twins
    BY DEF Firm, Sound, BudgetSound
  <1>2. Extends(app.turns, app'.turns)
    BY NextKept DEF Firm, Kept
  <1>3. running \cup accepted \subseteq DOMAIN app.turns
    BY TurnsKnown DEF Firm
  <1>4. CASE running' \subseteq running
    <2>1. \A u \in running : app'.turns[u] = app.turns[u]
      BY <1>2, <1>3 DEF Extends
    <2> QED BY <1>4, <2>1 DEF SoloRun, Solo
  <1>5. ASSUME NEW t, StartTurn(t) PROVE SoloRun'
    <2>1. /\ t \in accepted /\ running' = running \cup {t}
          /\ \A u \in running : TurnSession(app, u) # TurnSession(app, t)
      BY <1>1, <1>5 DEF StartTurn, SessionIdle
    <2>2. \A u \in running : app'.turns[u].sess # app'.turns[t].sess
      BY <1>2, <1>3, <2>1 DEF Extends, TurnSession
    <2> QED BY <2>1, <2>2, SoloKept
  <1>6. ASSUME NEW s \in Sessions, StartOwnTurn(s) PROVE SoloRun'
    <2> DEFINE t == Len(app.turns) + 1
    <2>1. \A u \in running : TurnSession(app, u) # s
      BY <1>1, <1>6 DEF StartOwnTurn, SessionIdle
    <2>2. running' = running \cup {t} /\ app'.turns[t].sess = s
      BY <1>6, OwnTurnTable
    <2> HIDE DEF t
    <2>3. \A u \in running : app'.turns[u].sess # app'.turns[t].sess
      BY <1>2, <1>3, <2>1, <2>2 DEF Extends, TurnSession
    <2> QED BY <2>2, <2>3, SoloKept
  <1> QED BY <1>4, <1>5, <1>6, NextRunning

LEMMA LatchesAlways ==
    ASSUME \A v \in Servers : ~v.twins
    PROVE  Spec => [](Firm /\ SoloRun /\ LatchesHold)
  <1> DEFINE Inv == Firm /\ SoloRun /\ LatchesHold
  <1>1. Init => Inv
    <2> SUFFICES ASSUME Init PROVE SoloRun /\ LatchesHold
      BY InitFirm
    <2>1. running = {} /\ None \notin app.done /\ app.switched = {}
          /\ \A s \in Sessions : app.live[s] = None
      BY InitApp DEF Init
    <2> QED BY <2>1 DEF SoloRun, Solo, LatchesHold, Latches
  <1>2. Inv /\ [Next]_vars => Inv'
    <2>1. Firm /\ [Next]_vars => Firm'
      BY NextSound, NextPhase, NextKept DEF Firm, Kept
    <2>2. Firm /\ [Next]_vars => Kept
      BY NextKept DEF Firm
    <2> QED BY <2>1, <2>2, SoloAlways DEF Kept
  <1> QED BY <1>1, <1>2, PTL DEF Spec

(* A turn whose terminal the store has seen never stays or becomes the live *)
(* one, as long as the server runs one turn of a session at a time.         *)
THEOREM FinishedTurnsAreNotLive ==
    ASSUME \A v \in Servers : ~v.twins
    PROVE  Spec => []LiveIsOpen
  <1>1. LatchesHold => LiveIsOpen
    BY DEF LatchesHold, Latches, LiveIsOpen
  <1> QED BY <1>1, LatchesAlways, PTL

(* Once the events are read, a live reply belongs to a turn that runs, as   *)
(* long as the server runs one turn of a session at a time: what a dead     *)
(* child leaves is stamped with an older epoch, which the reconcile that    *)
(* follows the scope of its replacement clears.                             *)
THEOREM LiveTurnsRun ==
    ASSUME \A v \in Servers : ~v.twins
    PROVE  Spec => []LatchIsLive
  <1>1. LatchesHold => LatchIsLive
    BY DEF LatchesHold, Latches, Waits, LatchIsLive
  <1> QED BY <1>1, LatchesAlways, PTL

-----------------------------------------------------------------------------
(* The spinner of a turn the user stopped.                                 *)

Calm(a, b) ==
    Frozen(a) /\ Frozen(b) /\ b.sel = a.sel /\ Live(b) = Live(a) /\ b.run = "working"
        => a.run = "working"

LEMMA CalmRun ==
    ASSUME NEW a, NEW b, b.run = a.run \/ b.run # "working"
    PROVE  Calm(a, b)
  BY DEF Calm

LEMMA CalmThen ==
    ASSUME NEW a, NEW b, NEW c, Calm(a, b), c.sel = b.sel, SameLatch(b, c), SameStop(b, c),
           c.run = b.run \/ c.run # "working"
    PROVE  Calm(a, c)
  BY DEF Calm, Frozen, Live, SameLatch, SameStop

(* A drain that submits finds no live turn. *)
LEMMA CalmDrained ==
    ASSUME NEW a, NEW c, NEW b, Calm(a, c), Drained(c, b)
    PROVE  Calm(a, b)
  <1>1. CASE Live(c) # None
    BY <1>1 DEF Drained, DrainBlocked
  <1>2. CASE Live(c) = None
    BY <1>2 DEF Drained, Apart, SameLatch, Calm, Frozen, Live
  <1> QED BY <1>1, <1>2

LEMMA CalmReset ==
    ASSUME NEW a, NEW c, NEW b, Calm(a, c), Reset(c, b)
    PROVE  Calm(a, b)
  <1> PICK d \in AppType : Cleared(c, d) /\ Drained(d, b)
    BY DEF Reset
  <1>1. d.sel = c.sel /\ SameLatch(c, d) /\ SameStop(c, d) /\ d.run # "working"
    BY DEF Cleared, Apart
  <1>2. Calm(a, d)
    BY <1>1, CalmThen
  <1> QED BY <1>2, CalmDrained

LEMMA CalmSelf == ASSUME NEW a PROVE Calm(a, a)
  BY CalmRun

LEMMA CalmPrompt ==
    ASSUME NEW a \in AppType, NEW p \in PromptNo
    PROVE  Calm(a, Prompt(a, p))
  <1> DEFINE b == Prompt(a, p)
  <1>1. Steered(a, b, p) \/ Staged(a, b, p) \/ Sends(a, b, p)
    BY PromptData
  <1> HIDE DEF b
  <1>2. CASE Steered(a, b, p) \/ Staged(a, b, p)
    <2>1. b.run = a.run
      BY <1>2 DEF Steered, Staged
    <2> QED BY <2>1, CalmRun DEF b
  <1>3. CASE Sends(a, b, p)
    <2>1. ~Frozen(a)
      BY <1>3 DEF Sends, TurnInProgress, Frozen
    <2> QED BY <2>1 DEF Calm, b
  <1> QED BY <1>1, <1>2, <1>3

LEMMA CalmInterrupt ==
    ASSUME NEW a \in AppType
    PROVE  Calm(a, Interrupt(a))
  <1> DEFINE b == Interrupt(a)
  <1>1. Stopped(a, b) \/ b = a \/ (Phantom(a) /\ (Probed(a, b) \/ Reset(a, b)))
    BY InterruptData
  <1> HIDE DEF b
  <1>2. CASE Reset(a, b)
    BY <1>2, CalmSelf, CalmReset DEF b
  <1>3. CASE Stopped(a, b) \/ b = a \/ Probed(a, b)
    <2>1. b.run = a.run \/ b.run # "working"
      BY <1>3 DEF Stopped, Probed
    <2> QED BY <2>1, CalmRun DEF b
  <1> QED BY <1>1, <1>2, <1>3

LEMMA CalmSwitch ==
    ASSUME NEW a \in AppType, NEW s \in Sessions, s # a.sel
    PROVE  Calm(a, Switch(a, s))
  <1> PICK c \in AppType : Moved(a, c, s) /\ Drained(c, Switch(a, s))
    BY SwitchData
  <1>1. Switch(a, s).sel # a.sel
    BY DEF Moved, Drained, Apart
  <1> QED BY <1>1 DEF Calm

LEMMA CalmTick ==
    ASSUME NEW a \in AppType, NEW due
    PROVE  Calm(a, TickOf(a, due))
  <1> DEFINE c == Drain(a)
             b == Watchdog(c, due)
  <1>1. c \in AppType /\ Drained(a, c)
    BY DrainData
  <1>2. Calm(a, c)
    BY <1>1, CalmSelf, CalmDrained
  <1> HIDE DEF c
  <1>3. Quiet(c, b) \/ (Phantom(c) /\ (Probed(c, b) \/ Reset(c, b)))
    BY <1>1, WatchdogData
  <1> HIDE DEF b
  <1>4. CASE Reset(c, b)
    BY <1>2, <1>4, CalmReset DEF TickOf, b, c
  <1>5. CASE Quiet(c, b) \/ Probed(c, b)
    <2>1. b.sel = c.sel /\ SameLatch(c, b) /\ SameStop(c, b) /\ b.run = c.run
      BY <1>5 DEF Quiet, Probed, Apart
    <2> QED BY <1>2, <2>1, CalmThen DEF TickOf, b, c
  <1> QED BY <1>3, <1>4, <1>5

(* A turn that becomes live is shown at work unless it is the stopped one.  *)
LEMMA CalmBound ==
    ASSUME NEW a \in AppType, NEW b, NEW t, TurnSession(a, t) \in Sessions, Bound(a, b, t)
    PROVE  Calm(a, b)
  <1> DEFINE s == TurnSession(a, t)
  <1>1. /\ b.sel = a.sel /\ b.interrupted = a.interrupted
        /\ b.live = [a.live EXCEPT ![s] = t]
        /\ b.run = IF s # a.sel \/ a.interrupted[s] = t THEN a.run ELSE "working"
    BY DEF Bound, SameStop
  <1>2. a.live \in Marks
    BY Fields
  <1> HIDE DEF s
  <1>3. s = a.sel => Live(b) = t
    BY <1>1, <1>2, Fields DEF Live, Marks
  <1> QED BY <1>1, <1>3 DEF Calm, Frozen

LEMMA CalmConcluded ==
    ASSUME NEW a, NEW b, NEW t, Concluded(a, b, t)
    PROVE  Calm(a, b)
  <1> PICK c \in AppType : Finished(a, c, t) /\ (b = c \/ Drained(c, b))
    BY DEF Concluded
  <1>1. Calm(a, c)
    BY CalmRun DEF Finished
  <1> QED BY <1>1, CalmDrained

LEMMA CalmTool ==
    ASSUME NEW a \in AppType, NEW t
    PROVE  Calm(a, Tool(a, t))
  <1> DEFINE b == Tool(a, t)
  <1>1. b.run \in {a.run, WorkRun(a)}
    BY ToolData
  <1> HIDE DEF b
  <1>2. Frozen(a) => b.run = a.run
    BY <1>1 DEF WorkRun
  <1> QED BY <1>2 DEF Calm, b

LEMMA CalmHydrated ==
    ASSUME NEW a \in AppType, NEW s \in Sessions, NEW ended, NEW active, NEW landed
    PROVE  Calm(a, Hydrated(a, s, ended, active, landed))
  <1> DEFINE b == Hydrated(a, s, ended, active, landed)
  <1>1. \E c, d \in AppType : /\ Landed(a, c) /\ Stale(c, d, s, ended)
                              /\ (b = d \/ Reset(d, b))
    BY HydratedData
  <1> HIDE DEF b
  <1> PICK c \in AppType, d \in AppType :
        Landed(a, c) /\ Stale(c, d, s, ended) /\ (b = d \/ Reset(d, b))
    BY <1>1
  <1>2. c.run = a.run
    BY DEF Landed, Returned
  <1>3. Calm(a, d)
    <2>1. CASE d = c
      BY <1>2, <2>1, CalmRun
    <2>2. CASE d # c
      <3> PICK e \in AppType : Finalized(c, e, s) /\ Drained(e, d)
        BY <2>2 DEF Stale
      <3>1. e.run = a.run
        BY <1>2 DEF Finalized
      <3> QED BY <3>1, CalmRun, CalmDrained
    <2> QED BY <2>1, <2>2
  <1> QED BY <1>3, CalmReset DEF b

(* The reconcile forgets every stop. *)
LEMMA CalmRelaunched ==
    ASSUME NEW a \in AppType
    PROVE  Calm(a, Relaunched(a))
  <1> DEFINE b == Relaunched(a)
  <1>1. b \in AppType /\ \E c \in AppType : Reconciled(a, c) /\ Drains(c, b)
    BY RelaunchedData
  <1> HIDE DEF b
  <1> PICK c \in AppType : Reconciled(a, c) /\ Drains(c, b)
    BY <1>1
  <1>2. b.interrupted = c.interrupted
    BY DEF Drains, Drained, Apart, SameStop
  <1>3. b.interrupted[b.sel] = None
    BY <1>1, <1>2, Fields DEF Reconciled
  <1>4. ~Frozen(b)
    BY <1>3 DEF Frozen
  <1> QED BY <1>4 DEF Calm, b

LEMMA CalmStep ==
    ASSUME Firm, NEW a \in AppType, NEW w, Run(a, w), Calm(app, a)
    PROVE  Calm(app, app')
  <1>1. /\ app'.sel = a.sel /\ SameLatch(a, app') /\ SameStop(a, app')
        /\ app'.run \in {a.run, "error"}
    BY TurnsKnown, RunLatch DEF Firm
  <1> QED BY <1>1, CalmThen

LEMMA CalmUser ==
    ASSUME Firm, User \/ Clock
    PROVE  Calm(app, app')
  <1>1. app \in AppType /\ Len(typed) + 1 \in PromptNo
    BY TurnsKnown DEF Firm, Sound, BudgetSound, PromptNo, None
  <1>2. CASE TypePrompt
    <2>1. Run(Prompt(app, Len(typed) + 1), wire)
      BY <1>2 DEF TypePrompt, Acts, Keeps
    <2> QED BY <1>1, <2>1, PromptData, CalmPrompt, CalmStep
  <1>3. CASE UserInterrupts \/ SendPendingNow
    <2>1. Run(Interrupt(app), wire)
      BY <1>3 DEF UserInterrupts, SendPendingNow, Acts, Keeps
    <2> QED BY <1>1, <2>1, InterruptData, CalmInterrupt, CalmStep
  <1>4. ASSUME NEW s \in Sessions, UserSwitches(s) PROVE Calm(app, app')
    <2>1. Run(Switch(app, s), wire) /\ s # app.sel
      BY <1>4 DEF UserSwitches, Acts, Keeps
    <2> QED BY <1>1, <2>1, SwitchData, CalmSwitch, CalmStep
  <1>5. ASSUME NEW due \in BOOLEAN, Tick(due) PROVE Calm(app, app')
    <2>1. Run(TickOf(app, due), wire)
      BY <1>5 DEF Tick, Acts, Keeps
    <2>2. TickOf(app, due) \in AppType
      BY <1>1, DrainData, WatchdogData DEF TickOf
    <2> QED BY <1>1, <2>1, <2>2, CalmTick, CalmStep
  <1>6. ASSUME NEW s \in Sessions, MarkerAges(s) \/ GateAges(s) PROVE Calm(app, app')
    <2>1. CASE MarkerAges(s)
      BY <1>1, <2>1, MarkerAgedData, CalmRun DEF MarkerAges
    <2>2. CASE GateAges(s)
      <3>1. app' = [app EXCEPT !.gate[s].old = TRUE] /\ app.gate[s].set
        BY <2>2 DEF GateAges
      <3>2. app'.run = app.run
        BY <1>1, <3>1, GateAgedData
      <3> QED BY <3>2, CalmRun
    <2> QED BY <1>6, <2>1, <2>2
  <1> QED BY <1>2, <1>3, <1>4, <1>5, <1>6 DEF User, Clock

(* A step whose handler leaves the run state, or an error, shows no work.   *)
LEMMA CalmReport ==
    ASSUME Firm, \/ RefuseStart \/ AcceptSteer \/ RefuseSteer
                 \/ ConsumeSteer \/ \E t : DropSteers(t) \/ \E kind : OtherRequestFails(kind)
    PROVE  Calm(app, app')
  <1>1. app \in AppType
    BY TurnsKnown DEF Firm
  <1>2. \E a, w : a \in AppType /\ Run(a, w) /\ (a.run = app.run \/ a.run = "error")
    <2>1. CASE RefuseStart
      BY <1>1, <2>1, FailedData DEF RefuseStart
    <2>2. CASE AcceptSteer \/ RefuseSteer
      <3>1. app.stash # <<>>
        BY <2>2, TakesFacts DEF AcceptSteer, RefuseSteer, Firm
      <3> QED BY <1>1, <2>2, <3>1, SteeredIntoData, SteerFailedData DEF AcceptSteer, RefuseSteer
    <2>3. CASE ConsumeSteer
      <3> DEFINE b == Echo(app, Head(inputs).prompt)
      <3>1. Run(b, wire) \/ Run(app, wire)
        BY <2>3 DEF ConsumeSteer, Keeps
      <3>2. b \in AppType /\ b.run = app.run
        BY <1>1, EchoData DEF Returned
      <3> HIDE DEF b
      <3> QED BY <1>1, <3>1, <3>2
    <2>4. ASSUME NEW t, DropSteers(t)
          PROVE  \E a, w : a \in AppType /\ Run(a, w) /\ (a.run = app.run \/ a.run = "error")
      <3> DEFINE b == SteersDropped(app, t, {inputs[i].prompt : i \in PendingInputs(t)})
      <3>1. Run(b, wire)
        BY <2>4 DEF DropSteers, Keeps
      <3>2. b \in AppType /\ b.run = app.run
        BY <1>1, SteersDroppedData DEF Returned
      <3> HIDE DEF b
      <3> QED BY <3>1, <3>2
    <2>5. ASSUME NEW kind, OtherRequestFails(kind)
          PROVE  \E a, w : a \in AppType /\ Run(a, w) /\ (a.run = app.run \/ a.run = "error")
      <3> DEFINE b == SendRefused(app)
                 c == Failed(app)
      <3>1. Run(b, wire) \/ Run(c, wire)
        BY <2>5 DEF OtherRequestFails, Keeps
      <3>2. b \in AppType /\ b.run = "error" /\ c \in AppType /\ c.run = "error"
        BY <1>1, SendRefusedData, FailedData DEF BackedOff
      <3> HIDE DEF b, c
      <3> QED BY <3>1, <3>2
    <2> QED BY <2>1, <2>2, <2>3, <2>4, <2>5
  <1> PICK a, w : a \in AppType /\ Run(a, w) /\ (a.run = app.run \/ a.run = "error")
    BY <1>2
  <1>3. Calm(app, a)
    BY CalmRun
  <1> QED BY <1>3, CalmStep

(* A turn starts, streams or ends. *)
LEMMA CalmTurn ==
    ASSUME Firm, NEW t,
           \/ StartTurn(t) \/ Stream(t) \/ RejectTurn(t) \/ Abort(t)
           \/ \E o \in {"success", "error", "idle"} : Complete(t, o)
    PROVE  Calm(app, app')
  <1>1. t \in accepted \cup running \cup over
    BY DEF StartTurn, Stream, RejectTurn, Abort, Complete, Ends
  <1>2. app \in AppType /\ t \in Nat \ {None} /\ TurnSession(app, t) \in Sessions
    BY <1>1, TurnsKnown DEF Firm
  <1>3. \E a : a \in AppType /\ Keeps(a) /\ Calm(app, a)
    <2>1. CASE StartTurn(t)
      <3> DEFINE b == Started(app, t)
      <3>1. Keeps(b)
        BY <2>1 DEF StartTurn
      <3>2. b \in AppType /\ (b = app \/ Bound(app, b, t))
        BY <1>2, StartedData DEF Opened
      <3> HIDE DEF b
      <3> QED BY <1>2, <3>1, <3>2, CalmSelf, CalmBound
    <2>2. CASE Stream(t)
      <3> PICK a \in {Delta(app, t), Tool(app, t)} : Keeps(a)
        BY <2>2 DEF Stream
      <3>1. CASE a = Delta(app, t)
        <4>1. a \in AppType /\ (a = app \/ Withheld(app, a) \/ Bound(app, a, t))
          BY <1>2, <3>1, DeltaData
        <4>2. Withheld(app, a) => Calm(app, a)
          BY CalmRun DEF Withheld
        <4> QED BY <1>2, <4>1, <4>2, CalmSelf, CalmBound
      <3>2. CASE a = Tool(app, t)
        BY <1>2, <3>2, ToolData, CalmTool
      <3> QED BY <3>1, <3>2
    <2>3. ASSUME NEW o \in {"success", "error", "idle"}, Keeps(Commit(app, t, o))
          PROVE  \E a : a \in AppType /\ Keeps(a) /\ Calm(app, a)
      BY <1>2, <2>3, CommitData, CalmConcluded
    <2>4. ASSUME NEW interrupt, Keeps(Fail(app, t, interrupt))
          PROVE  \E a : a \in AppType /\ Keeps(a) /\ Calm(app, a)
      BY <1>2, <2>4, FailData, CalmConcluded
    <2> QED BY <2>1, <2>2, <2>3, <2>4 DEF RejectTurn, Abort, Complete
  <1> QED BY <1>3, CalmStep DEF Keeps

(* The server starts a turn for a steer, or one of its own.                 *)
LEMMA CalmNewTurn ==
    ASSUME Firm, StartForSteer \/ \E s \in Sessions : StartOwnTurn(s)
    PROVE  Calm(app, app')
  <1>1. Fit(app, app.turns) /\ app \in AppType
    BY TurnsKnown DEF Firm
  <1>2. CASE StartForSteer
    <2> DEFINE e == [sess |-> Head(wire).sess, prompt |-> Head(wire).prompt]
               b == [app EXCEPT !.turns = Append(@, e)]
               a == SteerStartedTurn(b)
    <2>1. Takes("steer") /\ Run(a, Tail(wire))
      BY <1>2 DEF StartForSteer
    <2>2. app.stash # <<>> /\ Head(wire) \in CmdType
      BY <2>1, TakesFacts DEF Firm
    <2>3. e \in TurnType
      BY <2>2 DEF CmdType, TurnType
    <2> HIDE DEF e
    <2>4. b \in AppType /\ Apart(app, b) /\ b.run = app.run
      BY <1>1, <2>3, ExtendedFit
    <2> HIDE DEF b
    <2>5. b.stash # <<>>
      BY <2>2, <2>4 DEF Apart, SameSteers
    <2>6. a \in AppType /\ a.run \in {b.run, WorkRun(b)}
      BY <2>4, <2>5, SteerStartedTurnData
    <2> HIDE DEF a
    <2>7. Frozen(app) => a.run = app.run
      BY <2>4, <2>6 DEF WorkRun, Frozen, Live, Apart, SameLatch, SameStop
    <2>8. Calm(app, a)
      BY <2>7 DEF Calm
    <2> QED BY <2>1, <2>6, <2>8, CalmStep
  <1>3. ASSUME NEW s \in Sessions, StartOwnTurn(s) PROVE Calm(app, app')
    <2> DEFINE t == Len(app.turns) + 1
               e == [sess |-> s, prompt |-> None]
               b == [app EXCEPT !.turns = Append(@, e)]
               a == Started(b, t)
    <2>1. Run(a, wire) \/ Run(b, wire)
      BY <1>3 DEF StartOwnTurn, Keeps
    <2>2. e \in TurnType
      BY DEF TurnType, None
    <2> HIDE DEF e
    <2>3. /\ b \in AppType /\ Fit(b, b.turns) /\ Apart(app, b) /\ b.run = app.run
          /\ t \in DOMAIN b.turns
      BY <1>1, <2>2, ExtendedFit
    <2>4. t \in Nat \ {None} /\ TurnSession(b, t) \in Sessions
      BY <2>3, FitFacts, FreshTurn DEF Firm
    <2> HIDE DEF b, t
    <2>5. Calm(app, b)
      BY <2>3, CalmRun
    <2>6. a \in AppType /\ (a = b \/ Bound(b, a, t))
      BY <2>3, <2>4, StartedData DEF Opened
    <2> HIDE DEF a
    <2>7. Calm(b, a)
      BY <2>3, <2>4, <2>6, CalmSelf, CalmBound
    <2>8. Calm(app, a)
      <3>1. /\ b.sel = app.sel /\ Live(b) = Live(app) /\ (Frozen(b) <=> Frozen(app))
            /\ b.run = app.run
        BY <2>3 DEF Apart, SameLatch, SameStop, Live, Frozen
      <3> QED BY <2>7, <3>1 DEF Calm
    <2> QED BY <2>1, <2>3, <2>5, <2>6, <2>8, CalmStep
  <1> QED BY <1>2, <1>3

LEMMA CalmAnswer ==
    ASSUME Firm, NEW stale, AnswerHydrate(stale)
    PROVE  Calm(app, app')
  <1> DEFINE s == Head(wire).sess
             Mine(ts) == {t \in ts : t # None /\ TurnSession(app, t) = s}
             active == Mine(running \cup {stale})
             told == active \cap app.done
             t1 == CHOOSE t \in told : TRUE
             ended == Mine(over \ {stale})
             a == IF told # {} THEN Refresh(app, s, t1)
                  ELSE Hydrated(app, s, ended, active, answered)
  <1>1. Takes("hydrate") /\ Run(a, Tail(wire))
    BY DEF AnswerHydrate
  <1>2. s \in Sessions
    BY <1>1, TakesFacts DEF CmdType, Firm
  <1>3. told \subseteq app.done
    OBVIOUS
  <1> HIDE DEF ended, active, told
  <1>4. app \in AppType /\ app.done \in SUBSET Nat
    BY TurnsKnown, Fields DEF Firm
  <1>5. told # {} => t1 \in Nat
    BY <1>3, <1>4
  <1> HIDE DEF t1, s
  <1>6. CASE told # {}
    <2> DEFINE b == Refresh(app, s, t1)
    <2>1. b \in AppType /\ Refreshed(app, b, s)
      BY <1>2, <1>4, <1>5, <1>6, RefreshData
    <2>2. Run(b, Tail(wire))
      BY <1>1, <1>6
    <2> HIDE DEF b
    <2>3. Calm(app, b)
      BY <2>1, CalmRun DEF Refreshed
    <2> QED BY <2>1, <2>2, <2>3, CalmStep
  <1>7. CASE told = {}
    <2> DEFINE b == Hydrated(app, s, ended, active, answered)
    <2>1. b \in AppType /\ Calm(app, b)
      BY <1>2, <1>4, HydratedData, CalmHydrated
    <2>2. Run(b, Tail(wire))
      BY <1>1, <1>7
    <2> HIDE DEF a, b
    <2> QED BY <2>1, <2>2, CalmStep
  <1> QED BY <1>6, <1>7

LEMMA CalmRead ==
    ASSUME Firm, ReadInbox
    PROVE  Calm(app, app')
  <1> DEFINE e == Head(inbox)
             a == CASE e.event = "cancelled" -> Cancelled(app, e.cmd)
                    [] e.event = "epoch" -> [app EXCEPT !.conn = @ + 1]
                    [] e.event = "relaunched" -> Relaunched(app)
  <1>1. inbox # <<>> /\ Run(a, wire)
    BY DEF ReadInbox, Keeps
  <1>2. /\ app \in AppType /\ inbox \in Seq(EventType)
        /\ Lines(inbox, wire, app.turns, app.stash) /\ app.stash \in Stashes
    BY TurnsKnown, Fields DEF Firm, Sound, StoreSound, Fit, LinesSound, Lines
  <1>3. e \in EventType /\ SoundEvent(e)
        /\ (e.event = "cancelled" /\ e.cmd.kind = "steer" => app.stash # <<>>)
    BY <1>1, <1>2, LinesRead
  <1> HIDE DEF e
  <1>4. CASE e.event = "cancelled"
    <2> DEFINE b == Cancelled(app, e.cmd)
    <2>1. Run(b, wire) /\ e.cmd.kind \in Requests
      BY <1>1, <1>3, <1>4 DEF SoundEvent
    <2>2. b \in AppType /\ (b.run = app.run \/ b.run = "error")
      <3>1. CASE e.cmd.kind = "start"
        BY <1>2, <3>1, StartCancelledData DEF Cancelled, BackedOff
      <3>2. CASE e.cmd.kind = "steer"
        BY <1>2, <1>3, <1>4, <3>2, SteerFailedData DEF Cancelled
      <3>3. CASE e.cmd.kind = "hydrate"
        <4> DEFINE h == [app EXCEPT !.hydrating = @ \ {e.cmd.sess}]
        <4>1. b = Failed(h)
          BY <3>3 DEF Cancelled
        <4>2. h \in AppType
          BY <1>2, HydratingData
        <4> HIDE DEF h, b
        <4> QED BY <4>1, <4>2, FailedData
      <3>4. CASE e.cmd.kind = "interrupt"
        BY <1>2, <3>4, FailedData DEF Cancelled
      <3> QED BY <2>1, <3>1, <3>2, <3>3, <3>4 DEF Requests
    <2> HIDE DEF b
    <2>3. Calm(app, b)
      BY <2>2, CalmRun
    <2> QED BY <2>1, <2>2, <2>3, CalmStep
  <1>5. CASE e.event = "epoch"
    <2> DEFINE b == [app EXCEPT !.conn = @ + 1]
    <2>1. Run(b, wire)
      BY <1>1, <1>5
    <2>2. b \in AppType /\ b.run = app.run
      BY <1>2, EpochData
    <2> HIDE DEF b
    <2>3. Calm(app, b)
      BY <2>2, CalmRun
    <2> QED BY <2>1, <2>2, <2>3, CalmStep
  <1>6. CASE e.event = "relaunched"
    <2>1. Run(Relaunched(app), wire)
      BY <1>1, <1>6
    <2> QED BY <1>2, <2>1, RelaunchedData, CalmRelaunched, CalmStep
  <1> QED BY <1>3, <1>4, <1>5, <1>6 DEF EventType

LEMMA NextCalm ==
    ASSUME Firm, [Next]_vars
    PROVE  Calm(app, app')
  <1>1. CASE User \/ Clock
    BY <1>1, CalmUser
  <1>2. CASE ServerSteps
    <2>1. CASE AcceptStart \/ DropStart \/ TakeInterrupt
      BY <2>1, CalmSelf DEF AcceptStart, DropStart, TakeInterrupt
    <2>2. CASE RefuseStart \/ AcceptSteer \/ RefuseSteer \/ ConsumeSteer
      BY <2>2, CalmReport
    <2>3. CASE StartForSteer \/ \E s \in Sessions : StartOwnTurn(s)
      BY <2>3, CalmNewTurn
    <2>4. CASE \E stale \in (over \cap app.done) \cup {None} : AnswerHydrate(stale)
      BY <2>4, CalmAnswer
    <2>5. CASE \/ \E t \in accepted : StartTurn(t) \/ RejectTurn(t)
               \/ \E t \in running \cup over : Stream(t)
               \/ \E t \in running, o \in {"success", "error", "idle"} : Complete(t, o)
      BY <2>5, CalmTurn
    <2>6. CASE \E t \in running : DropSteers(t) \/ Abort(t)
      BY <2>6, CalmReport, CalmTurn
    <2>7. CASE \E kind \in {"error", "cap"} : OtherRequestFails(kind)
      BY <2>7, CalmReport
    <2> QED BY <1>2, <2>1, <2>2, <2>3, <2>4, <2>5, <2>6, <2>7 DEF ServerSteps
  <1>3. CASE LinkDies \/ LinkBoots \/ LinkOpens
    BY <1>3, CalmSelf DEF LinkDies, LinkBoots, LinkOpens
  <1>4. CASE ReadInbox
    BY <1>4, CalmRead
  <1>5. CASE UNCHANGED vars
    BY <1>5, CalmSelf DEF vars
  <1> QED BY <1>1, <1>2, <1>3, <1>4, <1>5 DEF Next

(* After a stop, the spinner of the stopped turn does not come back: what   *)
(* shows work asks whether the live turn is the stopped one, a drain that   *)
(* submits finds no live turn, and the reconcile forgets the stop.          *)
THEOREM StoppedTurnsStayIdle == Spec => StoppedStaysIdle
  <1> DEFINE Still == Frozen(app) /\ Frozen(app)' /\ app'.sel = app.sel /\ Live(app)' = Live(app)
                        /\ app'.run = "working" => app.run = "working"
  <1>1. Firm /\ [Next]_vars => [Still]_vars
    BY NextCalm DEF Calm, Still, Frozen, Live
  <1> QED BY <1>1, AlwaysFirm, PTL DEF Spec, StoppedStaysIdle, Still

-----------------------------------------------------------------------------
(* One turn of a session at a time, until the store is misled: a turn under *)
(* way is the one its session's gate waits for, and the session shows it;   *)
(* a turn that runs is the live one.                                        *)

Awaits(a, t) ==
    LET s == TurnSession(a, t)
    IN  /\ a.gate[s].set /\ a.gate[s].turn = t /\ ~a.gate[s].old
        /\ a.pre[s] = "fresh" /\ a.live[s] = None
        /\ s = a.sel => a.run = "working"

Shows(a, t) == a.live[TurnSession(a, t)] = t

(* From a to b, what waits and what is shown stays so, the turn x apart, and *)
(* a new turn is waited for.                                                *)
Minds(a, b, x) ==
    /\ Extends(a.turns, b.turns)
    /\ \A t \in DOMAIN a.turns \ {x} :
          (Awaits(a, t) => Awaits(b, t)) /\ (Shows(a, t) => Shows(b, t))
    /\ \A t \in DOMAIN b.turns : t \in DOMAIN a.turns \/ Awaits(b, t)

LEMMA MindsThen ==
    ASSUME NEW a \in AppType, NEW c \in AppType, NEW b \in AppType, NEW x,
           x = None \/ x \in DOMAIN a.turns, NEW y \in {None, x}, NEW z \in {None, x},
           Minds(a, c, y), Minds(c, b, z)
    PROVE  Minds(a, b, x)
  <1>1. /\ a.turns \in TurnTables /\ c.turns \in TurnTables /\ b.turns \in TurnTables
        /\ Extends(a.turns, c.turns) /\ Extends(c.turns, b.turns)
    BY Fields DEF Minds
  <1>2. Extends(a.turns, b.turns) /\ DOMAIN a.turns \subseteq DOMAIN c.turns
    BY <1>1, ExtendsTwice
  <1>3. \A t \in DOMAIN c.turns : t # None
    BY <1>1, TableFacts
  <1>4. \A t \in DOMAIN a.turns \ {x} :
          (Awaits(a, t) => Awaits(b, t)) /\ (Shows(a, t) => Shows(b, t))
    BY <1>2, <1>3 DEF Minds
  <1>5. \A t \in DOMAIN b.turns : t \in DOMAIN a.turns \/ Awaits(b, t)
    BY <1>3 DEF Minds
  <1> QED BY <1>2, <1>4, <1>5 DEF Minds

(* What leaves the gate, the marker, the latch and the sight of each session *)
(* that waits for a turn or shows one. *)
LEMMA MindsEach ==
    ASSUME NEW a \in AppType, NEW b \in AppType, NEW x, b.turns = a.turns,
           \A t \in DOMAIN a.turns \ {x} : LET s == TurnSession(a, t) IN
              /\ Awaits(a, t) => /\ b.gate[s] = a.gate[s] /\ b.pre[s] = a.pre[s]
                                 /\ b.live[s] = a.live[s]
                                 /\ s = b.sel => b.run = "working"
              /\ Shows(a, t) => b.live[s] = a.live[s]
    PROVE  Minds(a, b, x)
  <1>1. Extends(a.turns, b.turns)
    BY Fields, TableFacts DEF Extends
  <1>2. \A t : TurnSession(b, t) = TurnSession(a, t)
    BY DEF TurnSession
  <1>3. ASSUME NEW t \in DOMAIN a.turns \ {x}
        PROVE  (Awaits(a, t) => Awaits(b, t)) /\ (Shows(a, t) => Shows(b, t))
    BY <1>2 DEF Awaits, Shows
  <1> QED BY <1>1, <1>3 DEF Minds

LEMMA MindsSame ==
    ASSUME NEW a \in AppType, NEW b \in AppType, NEW x, b.turns = a.turns,
           b.sel = a.sel, b.live = a.live, b.gate = a.gate, b.pre = a.pre,
           b.run \in {a.run, "working"}
    PROVE  Minds(a, b, x)
  BY MindsEach DEF Awaits

(* Only a session that waits for nothing and shows nothing drains. *)
LEMMA MindsDrained ==
    ASSUME NEW a \in AppType, NEW b \in AppType, Drained(a, b)
    PROVE  Minds(a, b, None)
  <1>1. CASE DrainBlocked(a)
    BY <1>1, MindsSame DEF Drained
  <1>2. CASE ~DrainBlocked(a)
    <2>1. ASSUME NEW t \in DOMAIN a.turns, Awaits(a, t) \/ Shows(a, t)
          PROVE  TurnSession(a, t) # a.sel
      <3>1. t # None
        BY Fields, TableFacts
      <3> QED BY <1>2, <2>1, <3>1 DEF DrainBlocked, Awaits, Shows, Live
    <2>2. /\ b.sel = a.sel /\ b.live = a.live
          /\ \A s \in Sessions \ {a.sel} : b.gate[s] = a.gate[s] /\ b.pre[s] = a.pre[s]
      BY DEF Drained, Apart, SameLatch, Elsewhere
    <2>3. \A t \in DOMAIN a.turns : TurnSession(a, t) \in Sessions
      BY Fields, TableFacts DEF TurnSession
    <2>4. CASE Unsubmitted(a, b)
      BY <2>1, <2>2, <2>3, <2>4, MindsEach DEF Unsubmitted
    <2>5. CASE b.run = "working" /\ \E p \in PromptNo : Submitted(a, b, p)
      <3> PICK p \in PromptNo : Submitted(a, b, p)
        BY <2>5
      <3> DEFINE n == Len(a.turns) + 1
      <3>1. /\ Extends(a.turns, b.turns) /\ Len(b.turns) = n
            /\ \A t \in DOMAIN a.turns : b.turns[t] = a.turns[t]
            /\ b.turns[n] = [sess |-> a.sel, prompt |-> p]
        BY SubmittedGrows
      <3>2. \A t \in DOMAIN a.turns : TurnSession(b, t) = TurnSession(a, t)
        BY <3>1 DEF TurnSession
      <3>3. ASSUME NEW t \in DOMAIN a.turns
            PROVE  (Awaits(a, t) => Awaits(b, t)) /\ (Shows(a, t) => Shows(b, t))
        BY <2>1, <2>2, <2>3, <3>2 DEF Awaits, Shows
      <3>4. Awaits(b, n)
        <4>1. b.gate[a.sel] = InFlight(n, p) /\ b.pre[a.sel] = "fresh" /\ TurnSession(b, n) = a.sel
          BY <3>1 DEF Submitted, TurnSession
        <4>2. b.live[a.sel] = None
          BY <1>2, <2>2 DEF DrainBlocked, Live
        <4> QED BY <2>5, <4>1, <4>2 DEF Awaits, InFlight
      <3>5. \A t \in DOMAIN b.turns : t \in DOMAIN a.turns \/ t = n
        <4>1. /\ Len(a.turns) \in Nat /\ DOMAIN a.turns = 1..Len(a.turns)
              /\ DOMAIN b.turns = 1..Len(b.turns)
          BY Fields, TableFacts
        <4> QED BY <3>1, <4>1
      <3> QED BY <3>1, <3>3, <3>4, <3>5 DEF Minds
    <2> QED BY <1>2, <2>4, <2>5 DEF Drained
  <1> QED BY <1>1, <1>2

(* A phantom is no sight of a turn under way. *)
LEMMA PhantomWaitsNot ==
    ASSUME NEW a \in AppType, NEW t \in DOMAIN a.turns, Phantom(a), Awaits(a, t) \/ Shows(a, t)
    PROVE  TurnSession(a, t) \in Sessions \ {a.sel}
  <1>1. t # None /\ TurnSession(a, t) \in Sessions
    BY Fields, TableFacts DEF TurnSession
  <1> QED BY <1>1 DEF Phantom, Awaits, Shows, Live

LEMMA MindsReset ==
    ASSUME NEW a \in AppType, NEW b \in AppType, Phantom(a), Reset(a, b)
    PROVE  Minds(a, b, None)
  <1> PICK c \in AppType : Cleared(a, c) /\ Drained(c, b)
    BY DEF Reset
  <1>1. /\ c.turns = a.turns /\ c.gate = a.gate /\ c.live = a.live /\ c.sel = a.sel
        /\ \A s \in Sessions \ {a.sel} : c.pre[s] = a.pre[s]
    BY Fields DEF Cleared, Apart, SameLatch, Unsubmitted, Markers
  <1>2. Minds(a, c, None)
    BY <1>1, PhantomWaitsNot, MindsEach
  <1>3. Minds(c, b, None)
    BY MindsDrained
  <1> QED BY <1>2, <1>3, MindsThen

LEMMA MindsPrompt ==
    ASSUME NEW a \in AppType, NEW p \in PromptNo
    PROVE  Minds(a, Prompt(a, p), None)
  <1> DEFINE b == Prompt(a, p)
  <1>1. b \in AppType /\ (Steered(a, b, p) \/ Staged(a, b, p) \/ Sends(a, b, p))
    BY PromptData
  <1> HIDE DEF b
  <1>2. CASE Steered(a, b, p) \/ Staged(a, b, p)
    <2>1. /\ b.turns = a.turns /\ b.sel = a.sel /\ b.live = a.live /\ b.gate = a.gate
          /\ b.pre = a.pre /\ b.run = a.run
      BY <1>2 DEF Steered, Staged, Apart, SameLatch, Unsubmitted
    <2> QED BY <1>1, <2>1, MindsSame DEF b
  <1>3. CASE Sends(a, b, p)
    <2> DEFINE n == Len(a.turns) + 1
    <2>1. /\ Submitted(a, b, p) /\ ~TurnInProgress(a) /\ b.run = "working"
          /\ b.sel = a.sel /\ b.live = a.live
          /\ \A s \in Sessions \ {a.sel} : b.gate[s] = a.gate[s] /\ b.pre[s] = a.pre[s]
      BY <1>3 DEF Sends, Apart, SameLatch, Elsewhere
    <2>2. /\ Extends(a.turns, b.turns) /\ Len(b.turns) = n
          /\ \A t \in DOMAIN a.turns : b.turns[t] = a.turns[t]
          /\ b.turns[n] = [sess |-> a.sel, prompt |-> p]
      BY <1>1, <2>1, SubmittedGrows
    <2>3. \A t \in DOMAIN a.turns : TurnSession(b, t) = TurnSession(a, t)
      BY <2>2 DEF TurnSession
    <2>4. ASSUME NEW t \in DOMAIN a.turns
          PROVE  (Awaits(a, t) => Awaits(b, t)) /\ (Shows(a, t) => Shows(b, t))
      <3>1. t # None /\ TurnSession(a, t) \in Sessions
        BY Fields, TableFacts DEF TurnSession
      <3>2. Awaits(a, t) => TurnSession(a, t) # a.sel
        BY <2>1 DEF Awaits, TurnInProgress
      <3> QED BY <2>1, <2>3, <3>1, <3>2 DEF Awaits, Shows
    <2>5. Awaits(b, n)
      <3>1. b.gate[a.sel] = InFlight(n, p) /\ b.pre[a.sel] = "fresh" /\ TurnSession(b, n) = a.sel
        BY <2>1, <2>2 DEF Submitted, TurnSession
      <3>2. b.live[a.sel] = None
        BY <2>1 DEF TurnInProgress, Live
      <3> QED BY <2>1, <3>1, <3>2 DEF Awaits, InFlight
    <2>6. \A t \in DOMAIN b.turns : t \in DOMAIN a.turns \/ t = n
      <3>1. /\ Len(a.turns) \in Nat /\ DOMAIN a.turns = 1..Len(a.turns)
            /\ DOMAIN b.turns = 1..Len(b.turns)
        BY <1>1, Fields, TableFacts
      <3> QED BY <2>2, <3>1
    <2> QED BY <2>2, <2>4, <2>5, <2>6 DEF Minds, b
  <1> QED BY <1>1, <1>2, <1>3

LEMMA MindsInterrupt ==
    ASSUME NEW a \in AppType
    PROVE  Minds(a, Interrupt(a), None)
  <1> DEFINE b == Interrupt(a)
  <1>1. b \in AppType /\ (Stopped(a, b) \/ b = a \/ (Phantom(a) /\ (Probed(a, b) \/ Reset(a, b))))
    BY InterruptData
  <1> HIDE DEF b
  <1>2. CASE Stopped(a, b)
    <2>1. /\ b.turns = a.turns /\ b.sel = a.sel /\ b.live = a.live /\ b.gate = a.gate
          /\ b.pre = a.pre /\ Live(a) # None
      BY <1>2 DEF Stopped, SameLatch
    <2>2. \A t \in DOMAIN a.turns : Awaits(a, t) => TurnSession(a, t) # a.sel
      BY <2>1 DEF Awaits, Live
    <2> QED BY <1>1, <2>1, <2>2, MindsEach DEF b
  <1>3. CASE b = a \/ Probed(a, b)
    <2>1. /\ b.turns = a.turns /\ b.sel = a.sel /\ b.live = a.live /\ b.gate = a.gate
          /\ b.pre = a.pre /\ b.run = a.run
      BY <1>3 DEF Probed, Apart, SameLatch
    <2> QED BY <1>1, <2>1, MindsSame DEF b
  <1>4. CASE Phantom(a) /\ Reset(a, b)
    BY <1>1, <1>4, MindsReset DEF b
  <1> QED BY <1>1, <1>2, <1>3, <1>4

LEMMA MindsSwitch ==
    ASSUME NEW a \in AppType, NEW s \in Sessions
    PROVE  Minds(a, Switch(a, s), None)
  <1> PICK c \in AppType : Moved(a, c, s) /\ Drained(c, Switch(a, s))
    BY SwitchData
  <1>1. /\ c.turns = a.turns /\ c.gate = a.gate /\ c.live = a.live /\ c.sel = s
        /\ c.pre = [x \in Sessions |-> IF a.pre[x] = "aged" THEN "none" ELSE a.pre[x]]
        /\ c.run = IF ~Frozen(c) /\ (Live(c) # None \/ c.pre[s] = "fresh")
                     THEN "working" ELSE "idle"
    BY DEF Moved, SameLatch, Unsubmitted
  <1>2. Minds(a, c, None)
    <2>1. \A t \in DOMAIN a.turns : TurnSession(a, t) \in Sessions
      BY Fields, TableFacts DEF TurnSession
    <2>2. ASSUME NEW t \in DOMAIN a.turns, Awaits(a, t)
          PROVE  LET x == TurnSession(a, t) IN c.pre[x] = a.pre[x]
                                               /\ (x = c.sel => c.run = "working")
      BY <1>1, <2>1, <2>2 DEF Awaits, Frozen, Live
    <2> QED BY <1>1, <2>2, MindsEach
  <1>3. Minds(c, Switch(a, s), None) /\ Switch(a, s) \in AppType
    BY SwitchData, MindsDrained
  <1> QED BY <1>2, <1>3, MindsThen

LEMMA MindsTick ==
    ASSUME NEW a \in AppType, NEW due
    PROVE  Minds(a, TickOf(a, due), None)
  <1> DEFINE c == Drain(a)
             b == Watchdog(c, due)
  <1>1. c \in AppType /\ Minds(a, c, None)
    BY DrainData, MindsDrained
  <1> HIDE DEF c
  <1>2. b \in AppType /\ (Quiet(c, b) \/ (Phantom(c) /\ (Probed(c, b) \/ Reset(c, b))))
    BY <1>1, WatchdogData
  <1> HIDE DEF b
  <1>3. Minds(c, b, None)
    <2>1. CASE Quiet(c, b) \/ Probed(c, b)
      <3>1. /\ b.turns = c.turns /\ b.sel = c.sel /\ b.live = c.live /\ b.gate = c.gate
            /\ b.pre = c.pre /\ b.run = c.run
        BY <2>1 DEF Quiet, Probed, Apart, SameLatch, Unsubmitted
      <3> QED BY <1>1, <1>2, <3>1, MindsSame
    <2> QED BY <1>1, <1>2, <2>1, MindsReset
  <1>4. Minds(a, b, None)
    BY <1>1, <1>2, <1>3, MindsThen
  <1> QED BY <1>4 DEF TickOf, b, c

(* A turn that was waited for starts, and is shown. *)
LEMMA MindsOpened ==
    ASSUME NEW a \in AppType, NEW b \in AppType, NEW t \in DOMAIN a.turns,
           Awaits(a, t), Opened(a, b, t)
    PROVE  Minds(a, b, t) /\ Shows(b, t)
  <1> DEFINE s == TurnSession(a, t)
  <1>1. s \in Sessions
    BY Fields, TableFacts DEF TurnSession
  <1>2. /\ b.turns = a.turns /\ b.sel = a.sel
        /\ b.live = [a.live EXCEPT ![s] = t] /\ b.pre = [a.pre EXCEPT ![s] = "none"]
        /\ b.gate = [a.gate EXCEPT ![s] = IF @.turn = t THEN NoGate ELSE @]
        /\ b.run = IF s # a.sel \/ a.interrupted[s] = t THEN a.run ELSE "working"
    BY DEF Opened, Bound, Unsubmitted
  <1>3. a.live \in Marks /\ a.pre \in Markers /\ a.gate \in Gates
    BY Fields
  <1>4. a.gate[s].turn = t /\ a.live[s] = None
    BY DEF Awaits
  <1> HIDE DEF s
  <1>5. ASSUME NEW u \in DOMAIN a.turns \ {t}, Awaits(a, u) \/ Shows(a, u)
        PROVE  TurnSession(a, u) # s
    <2>1. u # None
      BY Fields, TableFacts
    <2> QED BY <1>4, <1>5, <2>1 DEF Awaits, Shows
  <1>6. \A x \in Sessions : x # s => b.live[x] = a.live[x] /\ b.pre[x] = a.pre[x]
                                     /\ b.gate[x] = a.gate[x]
    BY <1>2, <1>3 DEF Marks, Markers, Gates
  <1>7. \A u \in DOMAIN a.turns : TurnSession(a, u) \in Sessions
    BY Fields, TableFacts DEF TurnSession
  <1>8. \A u \in DOMAIN a.turns \ {t} : LET x == TurnSession(a, u) IN
            /\ Awaits(a, u) => /\ b.gate[x] = a.gate[x] /\ b.pre[x] = a.pre[x]
                               /\ b.live[x] = a.live[x]
                               /\ x = b.sel => b.run = "working"
            /\ Shows(a, u) => b.live[x] = a.live[x]
    BY <1>2, <1>5, <1>6, <1>7 DEF Awaits
  <1>9. Minds(a, b, t)
    BY <1>2, <1>8, MindsEach
  <1>10. Shows(b, t)
    <2>1. TurnSession(b, t) = s /\ b.live[s] = t
      BY <1>1, <1>2, <1>3 DEF TurnSession, s, Marks
    <2> QED BY <2>1 DEF Shows
  <1> QED BY <1>9, <1>10

(* A turn that was waited for, or shown, ends. *)
LEMMA MindsConcluded ==
    ASSUME NEW a \in AppType, NEW b \in AppType, NEW t \in DOMAIN a.turns,
           Awaits(a, t) \/ Shows(a, t), Concluded(a, b, t)
    PROVE  Minds(a, b, t)
  <1> PICK c \in AppType : Finished(a, c, t) /\ (b = c \/ Drained(c, b))
    BY DEF Concluded
  <1> DEFINE s == TurnSession(a, t)
  <1>1. \A u \in DOMAIN a.turns : u # None /\ TurnSession(a, u) \in Sessions
    BY Fields, TableFacts DEF TurnSession
  <1>2. /\ c.turns = a.turns /\ c.sel = a.sel /\ c.pre = [a.pre EXCEPT ![s] = "none"]
        /\ c.gate = [a.gate EXCEPT ![s] = IF @.turn = t THEN NoGate ELSE @]
        /\ c.live = a.live \/ c.live = [a.live EXCEPT ![s] = IF @ = t THEN None ELSE @]
        /\ c.run = a.run \/ s = a.sel
    BY DEF Finished, Unsubmitted, SameLatch
  <1>3. a.live \in Marks /\ a.pre \in Markers /\ a.gate \in Gates
    BY Fields
  <1>4. ASSUME NEW u \in DOMAIN a.turns \ {t}, Awaits(a, u) \/ Shows(a, u)
        PROVE  TurnSession(a, u) # s
    BY <1>1, <1>4 DEF Awaits, Shows
  <1> HIDE DEF s
  <1>5. \A x \in Sessions : x # s => c.live[x] = a.live[x] /\ c.pre[x] = a.pre[x]
                                     /\ c.gate[x] = a.gate[x]
    BY <1>2, <1>3 DEF Marks, Markers, Gates
  <1>6. \A u \in DOMAIN a.turns \ {t} : LET x == TurnSession(a, u) IN
            /\ Awaits(a, u) => /\ c.gate[x] = a.gate[x] /\ c.pre[x] = a.pre[x]
                               /\ c.live[x] = a.live[x]
                               /\ x = c.sel => c.run = "working"
            /\ Shows(a, u) => c.live[x] = a.live[x]
    BY <1>1, <1>2, <1>4, <1>5 DEF Awaits
  <1>7. Minds(a, c, t)
    BY <1>2, <1>6, MindsEach
  <1>8. Drained(c, b) => Minds(c, b, None)
    BY MindsDrained
  <1> QED BY <1>7, <1>8, MindsThen

LEMMA MindsTool ==
    ASSUME NEW a \in AppType, NEW t
    PROVE  Minds(a, Tool(a, t), None)
  <1> DEFINE b == Tool(a, t)
  <1>1. /\ b \in AppType /\ b.turns = a.turns /\ b.sel = a.sel /\ b.live = a.live
        /\ b.gate = a.gate /\ b.pre = a.pre /\ b.run \in {a.run, WorkRun(a)}
    BY ToolData DEF Apart, SameLatch, Unsubmitted
  <1> HIDE DEF b
  <1>2. b.run \in {a.run, "working"}
    BY <1>1 DEF WorkRun
  <1>3. Minds(a, b, None)
    BY <1>1, <1>2, MindsSame
  <1> QED BY <1>3 DEF b

(* A turn that is shown streams. *)
LEMMA MindsDelta ==
    ASSUME NEW a \in AppType, NEW t \in DOMAIN a.turns, Shows(a, t)
    PROVE  Minds(a, Delta(a, t), None)
  <1> DEFINE b == Delta(a, t)
  <1>1. t \in Nat \ {None} /\ TurnSession(a, t) \in Sessions
    BY Fields, TableFacts DEF TurnSession
  <1>2. b \in AppType /\ (b = a \/ Withheld(a, b))
    BY <1>1, DeltaData DEF Shows
  <1> HIDE DEF b
  <1>3. /\ b.turns = a.turns /\ b.sel = a.sel /\ b.live = a.live
        /\ b.gate = a.gate /\ b.pre = a.pre /\ b.run = a.run
    BY <1>2 DEF Withheld, SameLatch, Unsubmitted
  <1>4. Minds(a, b, None)
    BY <1>2, <1>3, MindsSame
  <1> QED BY <1>4 DEF b

(* A snapshot ends at most one turn, that it calls terminal. *)
LEMMA MindsHydrated ==
    ASSUME NEW a \in AppType, NEW s \in Sessions, NEW ended, None \notin ended,
           NEW active, NEW landed,
           \A x \in Sessions : a.live[x] # None =>
               a.live[x] \in DOMAIN a.turns /\ TurnSession(a, a.live[x]) = x
    PROVE  \E x \in ended \cup {None} : Minds(a, Hydrated(a, s, ended, active, landed), x)
  <1> DEFINE b == Hydrated(a, s, ended, active, landed)
  <1>1. b \in AppType /\ \E c, d \in AppType : /\ Landed(a, c) /\ Stale(c, d, s, ended)
                                               /\ b = d \/ (Phantom(d) /\ Reset(d, b))
    BY HydratedData
  <1> HIDE DEF b
  <1> PICK c \in AppType, d \in AppType :
        /\ Landed(a, c) /\ Stale(c, d, s, ended)
        /\ b = d \/ (Phantom(d) /\ Reset(d, b))
    BY <1>1
  <1>2. /\ c.turns = a.turns /\ c.sel = a.sel /\ c.live = a.live
        /\ c.gate = a.gate /\ c.pre = a.pre /\ c.run = a.run
    BY DEF Landed, Returned, SameLatch, Unsubmitted
  <1>3. \A x : Minds(a, c, x)
    BY <1>2, MindsSame
  <1>4. \E x \in ended \cup {None} : (x = None \/ x \in DOMAIN a.turns) /\ Minds(a, d, x)
    <2>1. CASE d = c
      BY <1>3, <2>1
    <2>2. CASE d # c
      <3> PICK e \in AppType : Finalized(c, e, s) /\ Drained(e, d)
        BY <2>2 DEF Stale
      <3> DEFINE t == a.live[s]
      <3>1. t \in ended /\ t # None /\ t \in DOMAIN a.turns /\ TurnSession(c, c.live[s]) = s
        BY <1>2, <2>2 DEF Stale, TurnSession
      <3>2. /\ e.turns = c.turns /\ e.sel = c.sel /\ e.pre = c.pre /\ e.run = c.run
            /\ e.gate = [c.gate EXCEPT ![s] = IF @.turn = t THEN NoGate ELSE @]
            /\ e.live = [c.live EXCEPT ![s] = None]
        BY <1>2, <3>1 DEF Finalized, Unsubmitted
      <3>3. c.live \in Marks /\ c.gate \in Gates
        BY Fields
      <3>4. c.live[s] = t
        BY <1>2
      <3> HIDE DEF t
      <3>5. \A u \in DOMAIN c.turns : u # None /\ TurnSession(c, u) \in Sessions
        BY Fields, TableFacts DEF TurnSession
      <3>6. ASSUME NEW u \in DOMAIN c.turns \ {t}, Awaits(c, u) \/ Shows(c, u)
            PROVE  TurnSession(c, u) # s
        BY <3>1, <3>4, <3>6 DEF Awaits, Shows
      <3>7. \A x \in Sessions : x # s => e.live[x] = c.live[x] /\ e.gate[x] = c.gate[x]
        BY <3>2, <3>3 DEF Marks, Gates
      <3>8. \A u \in DOMAIN c.turns \ {t} : LET x == TurnSession(c, u) IN
                /\ Awaits(c, u) => /\ e.gate[x] = c.gate[x] /\ e.pre[x] = c.pre[x]
                                   /\ e.live[x] = c.live[x]
                                   /\ x = e.sel => e.run = "working"
                /\ Shows(c, u) => e.live[x] = c.live[x]
        BY <3>2, <3>5, <3>6, <3>7 DEF Awaits
      <3>9. Minds(c, e, t)
        BY <3>2, <3>8, MindsEach
      <3>10. Minds(a, e, t)
        BY <1>3, <3>1, <3>9, MindsThen
      <3>11. Minds(e, d, None)
        BY MindsDrained
      <3>12. Minds(a, d, t)
        BY <3>1, <3>10, <3>11, MindsThen
      <3> QED BY <3>1, <3>12
    <2> QED BY <2>1, <2>2
  <1> PICK x \in ended \cup {None} : (x = None \/ x \in DOMAIN a.turns) /\ Minds(a, d, x)
    BY <1>4
  <1>5. Phantom(d) /\ Reset(d, b) => Minds(d, b, None)
    BY <1>1, MindsReset
  <1>6. Minds(a, b, x)
    BY <1>1, <1>5, MindsThen
  <1> QED BY <1>6 DEF b

(* What the reconcile submits is waited for. *)
LEMMA MindsRelaunched ==
    ASSUME NEW a \in AppType, NEW t \in DOMAIN Relaunched(a).turns
    PROVE  t \in DOMAIN a.turns \/ Awaits(Relaunched(a), t)
  <1> DEFINE b == Relaunched(a)
  <1>1. b \in AppType /\ \E c \in AppType : Reconciled(a, c) /\ Drains(c, b)
    BY RelaunchedData
  <1>0. t \in DOMAIN b.turns
    OBVIOUS
  <1> HIDE DEF b
  <1> PICK c \in AppType : Reconciled(a, c) /\ Drains(c, b)
    BY <1>1
  <1>2. c.turns = a.turns
    BY DEF Reconciled, Unsubmitted
  <1> PICK d \in AppType, e \in AppType :
        /\ d = c \/ Drained(c, d)
        /\ \/ b = d /\ d.out # c.out
           \/ d.out = c.out /\ Drained(e, b) /\ Unsubmitted(d, e)
    BY DEF Drains
  <1>3. CASE b = d /\ d.out # c.out
    <2>1. Minds(c, b, None)
      BY <1>1, <1>3, MindsDrained
    <2> QED BY <1>0, <1>2, <2>1 DEF Minds, b
  <1>4. CASE d.out = c.out /\ Drained(e, b) /\ Unsubmitted(d, e)
    <2>1. Minds(e, b, None)
      BY <1>1, <1>4, MindsDrained
    <2>2. d.turns = c.turns
      <3>1. CASE \E p \in PromptNo : Submitted(c, d, p)
        <4> PICK p \in PromptNo : Submitted(c, d, p)
          BY <3>1
        <4>1. c.out \in Seq(CmdType) /\ d.out \in Seq(CmdType)
          BY Fields DEF Outputs
        <4>2. \E z : d.out = Append(c.out, z)
          BY DEF Submitted
        <4> QED BY <1>4, <4>1, <4>2
      <3> QED BY <1>4, <3>1 DEF Drained, Unsubmitted
    <2> QED BY <1>0, <1>2, <1>4, <2>1, <2>2 DEF Minds, Unsubmitted, b
  <1> QED BY <1>3, <1>4

(* Every start under way names its session. *)
Named(w, a) == \A i \in StartPlaces(w) : w[i].sess = TurnSession(a, w[i].turn)

(* Until the store is misled, it waits for the turns under way, shows those  *)
(* that run, and none is left once their child is gone.                     *)
Single ==
    misled = {} =>
        /\ \A t \in Starts(wire) \cup accepted : Awaits(app, t)
        /\ \A t \in running : Shows(app, t)
        /\ Starts(wire) \cup accepted \cup running # {} => link = "up" /\ inbox = <<>>
        /\ Named(wire, app)

LEMMA NamedGrows ==
    ASSUME NEW a \in AppType, NEW b \in AppType, Extends(a.turns, b.turns), NEW w,
           Starts(w) \subseteq DOMAIN a.turns, Named(w, a)
    PROVE  Named(w, b)
  <1>1. \A t \in DOMAIN a.turns : b.turns[t] = a.turns[t]
    BY DEF Extends
  <1> QED BY <1>1 DEF Named, Starts, TurnSession

LEMMA NamedTail ==
    ASSUME NEW w \in Seq(CmdType), w # <<>>, NEW a, Named(w, a)
    PROVE  Named(Tail(w), a)
  <1>1. \A i \in DOMAIN Tail(w) : i + 1 \in DOMAIN w /\ Tail(w)[i] = w[i + 1]
    OBVIOUS
  <1> QED BY <1>1 DEF Named, StartPlaces

(* Nothing is under way, and nothing runs. *)
LEMMA IdleSingle ==
    ASSUME Starts(wire') = {}, accepted' = {}, running' = {}
    PROVE  Single'
  <1>1. StartPlaces(wire') = {}
    BY DEF Starts
  <1> QED BY <1>1 DEF Single, Named

(* A step of the store with its child up: what it leaves waits and shows.   *)
LEMMA StepSingle ==
    ASSUME Sound, Sound', link = "up", link' = link, inbox' = <<>>,
           NEW a \in AppType, Tame(a), NEW w \in Seq(CmdType), Run(a, w),
           \A t \in Starts(w) \cup accepted' : Awaits(a, t),
           \A t \in running' : Shows(a, t),
           \A t \in DOMAIN a.turns : t \in DOMAIN app.turns \/ Awaits(a, t),
           Named(w, a)
    PROVE  Single'
  <1>1. app.turns \in TurnTables /\ Len(app.turns) \in Nat /\ DOMAIN app.turns = 1..Len(app.turns)
    BY TurnsKnown, TableFacts
  <1>2. /\ app'.gate = a.gate /\ app'.pre = a.pre /\ app'.live = a.live /\ app'.sel = a.sel
        /\ app'.run = a.run /\ app'.turns = a.turns
    BY <1>1, RunLatch DEF SameLatch
  <1>3. ASSUME NEW t
        PROVE  /\ Awaits(app', t) <=> Awaits(a, t)
               /\ Shows(app', t) <=> Shows(a, t)
               /\ TurnSession(app', t) = TurnSession(a, t)
    BY <1>2 DEF Awaits, Shows, TurnSession
  <1>4. (\A t \in Starts(wire') : Awaits(a, t)) /\ Named(wire', a)
    <2>1. CASE wire' = w
      BY <2>1
    <2>2. ASSUME NEW c \in CmdType, wire' = Append(w, c), c.kind = "start" => New(a, c)
          PROVE  (\A t \in Starts(wire') : Awaits(a, t)) /\ Named(wire', a)
      <3> DEFINE n == Len(w) + 1
      <3>1. /\ DOMAIN wire' = DOMAIN w \cup {n} /\ wire'[n] = c
            /\ \A i \in DOMAIN w : wire'[i] = w[i]
        BY <2>2
      <3> HIDE DEF n
      <3>2. \A i \in StartPlaces(wire') : \/ i \in StartPlaces(w) /\ wire'[i] = w[i]
                                          \/ i = n /\ c.kind = "start"
        BY <3>1 DEF StartPlaces
      <3>3. c.kind = "start" => c.turn \in DOMAIN a.turns /\ c.turn \notin DOMAIN app.turns
        <4>1. SoundCmd(wire'[n], app'.turns)
          BY <3>1 DEF Sound, LinesSound, Lines
        <4> QED BY <1>1, <1>2, <2>2, <3>1, <4>1 DEF SoundCmd, New
      <3>4. c.kind = "start" => Awaits(a, c.turn) /\ TurnSession(a, c.turn) = c.sess
        BY <2>2, <3>3 DEF New
      <3>5. Named(wire', a)
        BY <3>1, <3>2, <3>4 DEF Named
      <3>6. \A t \in Starts(wire') : Awaits(a, t)
        BY <3>1, <3>2, <3>4 DEF Starts
      <3> QED BY <3>5, <3>6
    <2> QED BY <2>1, <2>2, FreshStart
  <1>5. Named(wire', app')
    BY <1>3, <1>4 DEF Named
  <1>6. \A t \in Starts(wire') \cup accepted' : Awaits(app', t)
    BY <1>3, <1>4
  <1>7. \A t \in running' : Shows(app', t)
    BY <1>3
  <1> QED BY <1>5, <1>6, <1>7 DEF Single

(* A step that minds every turn but x, which it takes off the way or ends.  *)
LEMMA MindfulStep ==
    ASSUME Sound, Sound', Single, misled = {}, link = "up", link' = link, inbox' = <<>>,
           NEW a \in AppType, Tame(a), NEW x, Minds(app, a, x),
           NEW w, w = wire \/ (wire # <<>> /\ w = Tail(wire)), Run(a, w),
           accepted' \subseteq accepted, x \notin Starts(w) \cup accepted',
           \A t \in running' : t \in running \ {x} \/ Shows(a, t)
    PROVE  Single'
  <1>1. /\ Starts(wire) \cup accepted \cup running \subseteq DOMAIN app.turns
        /\ wire \in Seq(CmdType) /\ app \in AppType
    BY TurnsKnown
  <1>2. w \in Seq(CmdType) /\ Starts(w) \subseteq Starts(wire)
    <2>1. wire # <<>> => Tail(wire) \in Seq(CmdType)
      BY <1>1
    <2> QED BY <1>1, <2>1, StartsTail
  <1>3. \A t \in Starts(w) \cup accepted' : Awaits(a, t)
    BY <1>1, <1>2 DEF Single, Minds
  <1>4. \A t \in running' : Shows(a, t)
    BY <1>1 DEF Single, Minds
  <1>5. Named(w, a)
    <2>1. Named(w, app)
      BY <1>1, NamedTail DEF Single
    <2> QED BY <1>1, <1>2, <2>1, NamedGrows DEF Minds
  <1>6. \A t \in DOMAIN a.turns : t \in DOMAIN app.turns \/ Awaits(a, t)
    BY DEF Minds
  <1> QED BY <1>2, <1>3, <1>4, <1>5, <1>6, StepSingle

(* A step that leaves the store, or ages a clock of a session that waits for *)
(* no turn under way.                                                       *)
LEMMA StillSingle ==
    ASSUME Sound, Single, misled = {}, app'.turns = app.turns,
           UNCHANGED <<link, inbox>>,
           wire' = wire \/ (wire # <<>> /\ wire' = Tail(wire)),
           accepted' \subseteq accepted \cup Starts(wire), running' \subseteq running,
           \A t \in Starts(wire) \cup accepted : Awaits(app', t),
           app'.live = app.live
    PROVE  Single'
  <1>1. wire \in Seq(CmdType)
    BY TurnsKnown
  <1>2. Starts(wire') \subseteq Starts(wire)
    BY <1>1, StartsTail
  <1>3. \A t : TurnSession(app', t) = TurnSession(app, t)
    BY DEF TurnSession
  <1>4. \A t \in running' : Shows(app', t)
    BY <1>3 DEF Single, Shows
  <1>5. Named(wire', app')
    <2>1. Named(wire', app)
      BY <1>1, NamedTail DEF Single
    <2> QED BY <1>3, <2>1 DEF Named
  <1>6. \A t \in Starts(wire') \cup accepted' : Awaits(app', t)
    BY <1>2
  <1>7. Starts(wire') \cup accepted' \cup running' # {} => link' = "up" /\ inbox' = <<>>
    BY <1>2 DEF Single
  <1> QED BY <1>4, <1>5, <1>6, <1>7 DEF Single

(* What is no start leaves the starts under way. *)
LEMMA NoStarts ==
    ASSUME NEW w \in Seq(CmdType), NEW o \in Seq(CmdType), Starts(w) = {},
           \A i \in DOMAIN o : o[i].kind # "start"
    PROVE  Starts(w \o o) = {}
  <1>1. \A i \in DOMAIN w : w[i].kind # "start"
    BY DEF Starts, StartPlaces
  <1>2. \A i \in DOMAIN (w \o o) : \/ \E j \in DOMAIN w : (w \o o)[i] = w[j]
                                   \/ \E j \in DOMAIN o : (w \o o)[i] = o[j]
    OBVIOUS
  <1>3. StartPlaces(w \o o) = {}
    BY <1>1, <1>2 DEF StartPlaces
  <1> QED BY <1>3 DEF Starts

(* The user or the clock acts on the store. A prompt goes out only to a child *)
(* that is up, or is refused.                                                *)
LEMMA ActsSingle ==
    ASSUME ~BusyBoots, Firm, Firm', Single, misled = {},
           NEW a, Fit(a, app.turns), Tame(a), Minds(app, a, None), Acts(a)
    PROVE  Single'
  <1>1. /\ Run(a, wire) /\ UNCHANGED <<accepted, running, link, inbox>> /\ inbox = <<>>
        /\ a \in AppType
    BY DEF Acts, Keeps, serverVars, Fit
  <1>2. CASE link = "up"
    <2>1. None \notin Starts(wire) \cup accepted
      BY DEF Firm, TurnsRan, Ran
    <2>2. None \notin running
      BY DEF Firm, TurnsRan, Ran
    <2> QED BY <1>1, <1>2, <2>1, <2>2, MindfulStep DEF Firm
  <1>3. CASE link = "down"
    <2>1. wire' = wire
      BY <1>1, <1>3, TurnsKnown, RunLatch DEF Firm
    <2>2. Starts(wire) = {} /\ accepted = {} /\ running = {}
      BY <1>3 DEF Single
    <2> QED BY <1>1, <2>1, <2>2, IdleSingle
  <1>4. CASE link = "booting"
    <2>1. wire' = wire \o a.out
      BY <1>1, <1>4, TurnsKnown, RunLatch DEF Firm
    <2>2. Starts(wire) = {} /\ accepted = {} /\ running = {}
      BY <1>4 DEF Single
    <2>3. \A i \in DOMAIN a.out : a.out[i].kind # "start"
      BY <1>4 DEF Acts
    <2>4. wire \in Seq(CmdType) /\ a.out \in Seq(CmdType)
      BY <1>1, TurnsKnown, Fields DEF Firm, Outputs
    <2>5. Starts(wire') = {}
      BY <2>1, <2>2, <2>3, <2>4, NoStarts
    <2> QED BY <1>1, <2>2, <2>5, IdleSingle
  <1> QED BY <1>2, <1>3, <1>4 DEF Firm, Sound, BudgetSound

LEMMA UserSingle ==
    ASSUME ~BusyBoots, Firm, Firm', Single, misled = {}, User \/ \E due \in BOOLEAN : Tick(due)
    PROVE  Single'
  <1>1. Fit(app, app.turns) /\ app \in AppType
    BY TurnsKnown DEF Firm
  <1>2. CASE TypePrompt
    <2> DEFINE p == Len(typed) + 1
    <2>1. p \in PromptNo
      BY DEF Firm, Sound, BudgetSound, PromptNo, None
    <2>2. Acts(Prompt(app, p))
      BY <1>2 DEF TypePrompt
    <2> HIDE DEF p
    <2>3. Fit(Prompt(app, p), app.turns)
          /\ (Plain(app, Prompt(app, p)) \/ Steered(app, Prompt(app, p), p))
      BY <1>1, <2>1, PromptFit
    <2> QED BY <1>1, <2>1, <2>2, <2>3, MindsPrompt, ActsSingle DEF Tame, Fit
  <1>3. CASE UserInterrupts \/ SendPendingNow
    <2>1. Acts(Interrupt(app))
      BY <1>3 DEF UserInterrupts, SendPendingNow
    <2>2. Fit(Interrupt(app), app.turns) /\ Plain(app, Interrupt(app))
      BY <1>1, InterruptFit
    <2> QED BY <1>1, <2>1, <2>2, MindsInterrupt, ActsSingle DEF Tame, Fit
  <1>4. ASSUME NEW s \in Sessions, UserSwitches(s) PROVE Single'
    <2>1. Acts(Switch(app, s))
      BY <1>4 DEF UserSwitches
    <2>2. Fit(Switch(app, s), app.turns) /\ Plain(app, Switch(app, s))
      BY <1>1, SwitchFit
    <2> QED BY <1>1, <2>1, <2>2, MindsSwitch, ActsSingle DEF Tame, Fit
  <1>5. ASSUME NEW due \in BOOLEAN, Tick(due) PROVE Single'
    <2>1. Acts(TickOf(app, due))
      BY <1>5 DEF Tick
    <2>2. Fit(TickOf(app, due), app.turns) /\ Plain(app, TickOf(app, due))
      BY <1>1, TickFit
    <2> QED BY <1>1, <2>1, <2>2, MindsTick, ActsSingle DEF Tame, Fit
  <1> QED BY <1>2, <1>3, <1>4, <1>5 DEF User

(* A marker ages once no turn of its session is under way, a gate once its   *)
(* session has no fresh marker: neither session waits for a turn under way.  *)
LEMMA AgesSingle ==
    ASSUME ~SlowStarts, Firm, Single, misled = {}, NEW s \in Sessions,
           MarkerAges(s) \/ GateAges(s)
    PROVE  Single'
  <1>1. /\ app \in AppType /\ app.gate \in Gates /\ app.pre \in Markers
        /\ Starts(wire) \cup accepted \subseteq DOMAIN app.turns /\ DOMAIN app.turns = Turns
        /\ \A t \in Starts(wire) \cup accepted : TurnSession(app, t) \in Sessions
    BY TurnsKnown, Fields, TableFacts DEF Firm, Turns
  <1>2. UNCHANGED <<wire, accepted, running, link, inbox>>
    BY DEF MarkerAges, GateAges, serverVars
  <1>3. /\ app'.turns = app.turns /\ app'.live = app.live /\ app'.sel = app.sel
        /\ app'.run = app.run
        /\ \A x \in Sessions : x # s => app'.gate[x] = app.gate[x] /\ app'.pre[x] = app.pre[x]
    <2>1. CASE MarkerAges(s)
      <3> DEFINE b == [app EXCEPT !.pre[s] = "aged"]
      <3>1. /\ Apart(app, b) /\ Unsubmitted(app, b) /\ b.gate = app.gate /\ b.run = app.run
            /\ b.pre = [app.pre EXCEPT ![s] = "aged"]
        BY <1>1, MarkerAgedData
      <3>2. app' = b
        BY <2>1 DEF MarkerAges
      <3> HIDE DEF b
      <3> QED BY <1>1, <3>1, <3>2 DEF Apart, SameLatch, Unsubmitted, Markers
    <2>2. CASE GateAges(s)
      <3> DEFINE b == [app EXCEPT !.gate[s].old = TRUE]
      <3>0. app.gate[s].set /\ app' = b
        BY <2>2 DEF GateAges
      <3>1. /\ Apart(app, b) /\ Unsubmitted(app, b) /\ b.pre = app.pre /\ b.run = app.run
            /\ b.gate = [app.gate EXCEPT ![s] = [@ EXCEPT !.old = TRUE]]
        BY <1>1, <3>0, GateAgedData
      <3> HIDE DEF b
      <3> QED BY <1>1, <3>0, <3>1 DEF Apart, SameLatch, Unsubmitted, Gates
    <2> QED BY <2>1, <2>2
  <1>4. ASSUME NEW t \in Starts(wire) \cup accepted
        PROVE  TurnSession(app, t) # s
    <2>1. InTransit(t)
      BY DEF InTransit, Starts, StartPlaces
    <2>2. MarkerAges(s) => TurnSession(app, t) # s
      BY <1>1, <2>1 DEF MarkerAges
    <2>3. GateAges(s) => TurnSession(app, t) # s
      <3>1. Awaits(app, t)
        BY DEF Single
      <3> QED BY <3>1 DEF GateAges, Awaits
    <2> QED BY <2>2, <2>3
  <1>5. \A t \in Starts(wire) \cup accepted : Awaits(app', t)
    <2> SUFFICES ASSUME NEW t \in Starts(wire) \cup accepted PROVE Awaits(app', t)
      OBVIOUS
    <2>1. Awaits(app, t)
      BY DEF Single
    <2>2. TurnSession(app', t) = TurnSession(app, t)
      BY <1>3 DEF TurnSession
    <2> QED BY <1>1, <1>3, <1>4, <2>1, <2>2 DEF Awaits
  <1> QED BY <1>2, <1>3, <1>5, StillSingle DEF Firm

(* The oldest request leaves the transport, the store unmoved, or a steer is *)
(* answered.                                                                *)
LEMMA AnswerSingle ==
    ASSUME Firm, Firm', Single, misled = {},
           \/ AcceptStart \/ DropStart \/ TakeInterrupt
           \/ AcceptSteer \/ RefuseSteer
    PROVE  Single'
  <1>1. CASE AcceptStart \/ DropStart \/ TakeInterrupt
    <2>1. /\ app' = app /\ UNCHANGED <<link, inbox, running>> /\ wire # <<>> /\ wire' = Tail(wire)
          /\ accepted' = accepted \/ (/\ Head(wire).kind = "start"
                                      /\ accepted' = accepted \cup {Head(wire).turn})
      BY <1>1 DEF AcceptStart, DropStart, TakeInterrupt, Takes, serverVars
    <2>2. Head(wire).kind = "start" => Head(wire).turn \in Starts(wire)
      BY <2>1, TurnsKnown, StartsTail DEF Firm, TurnsRan
    <2>3. \A t \in Starts(wire) \cup accepted : Awaits(app', t)
      BY <2>1 DEF Single
    <2> QED BY <2>1, <2>2, <2>3, StillSingle DEF Firm
  <1>2. CASE AcceptSteer \/ RefuseSteer
    <2> DEFINE a == IF AcceptSteer THEN SteeredInto(app) ELSE SteerFailed(app)
    <2>1. /\ Takes("steer") /\ wire # <<>> /\ Run(a, Tail(wire)) /\ link = "up" /\ inbox = <<>>
          /\ UNCHANGED <<accepted, running, link, inbox>>
      BY <1>2 DEF AcceptSteer, RefuseSteer, Takes, serverVars
    <2>2. app \in AppType /\ app.out = <<>> /\ app.stash # <<>>
      BY <2>1, TurnsKnown, TakesFacts DEF Firm
    <2>3. /\ SteeredInto(app) \in AppType /\ Popped(app, SteeredInto(app))
          /\ SteeredInto(app).pre = app.pre /\ SteeredInto(app).run = app.run
      BY <2>2, SteeredIntoData
    <2>4. /\ SteerFailed(app) \in AppType /\ Popped(app, SteerFailed(app))
          /\ SteerFailed(app).pre = app.pre /\ SteerFailed(app).run = app.run
      BY <2>2, SteerFailedData
    <2>5. a \in AppType /\ Popped(app, a) /\ a.pre = app.pre /\ a.run = app.run
      BY <2>3, <2>4
    <2> HIDE DEF a
    <2>6. Tame(a)
      BY <2>2, <2>5, TurnsKnown DEF Popped, Unsubmitted, Tame, Firm
    <2>7. Minds(app, a, None)
      BY <2>2, <2>5, MindsSame DEF Popped, SameLatch, Unsubmitted
    <2>8. None \notin Starts(wire) \cup accepted \cup running /\ Starts(Tail(wire)) \subseteq Starts(wire)
      BY <2>1, TurnsKnown, StartsTail DEF Firm, TurnsRan, Ran
    <2>9. /\ None \notin Starts(Tail(wire)) \cup accepted' /\ accepted' \subseteq accepted
          /\ \A t \in running' : t \in running \ {None}
      BY <2>1, <2>8
    <2>10. inbox' = <<>> /\ link' = link
      BY <2>1
    <2> QED BY <2>1, <2>5, <2>6, <2>7, <2>9, <2>10, MindfulStep DEF Firm
  <1> QED BY <1>1, <1>2

(* A running turn consumes a steer or returns it. *)
LEMMA ReportSingle ==
    ASSUME Firm, Firm', Single, misled = {}, ConsumeSteer \/ \E t \in running : DropSteers(t)
    PROVE  Single'
  <1>1. UNCHANGED <<accepted, running, link, inbox>> /\ inbox = <<>> /\ running # {}
    BY DEF ConsumeSteer, DropSteers, Listens, serverVars
  <1>2. app \in AppType /\ app.out = <<>> /\ link = "up"
    BY <1>1, TurnsKnown DEF Firm, Single
  <1>3. \E a : a \in AppType /\ Keeps(a) /\ (a = app \/ Returned(app, a))
    <2>1. CASE ConsumeSteer
      <3>1. Keeps(Echo(app, Head(inputs).prompt)) \/ Keeps(app)
        BY <2>1 DEF ConsumeSteer
      <3> QED BY <1>2, <3>1, EchoData
    <2>2. ASSUME NEW t, DropSteers(t)
          PROVE  \E a : a \in AppType /\ Keeps(a) /\ (a = app \/ Returned(app, a))
      <3>1. Keeps(SteersDropped(app, t, {inputs[i].prompt : i \in PendingInputs(t)}))
        BY <2>2 DEF DropSteers
      <3> QED BY <1>2, <3>1, SteersDroppedData
    <2> QED BY <2>1, <2>2
  <1> PICK a : a \in AppType /\ Keeps(a) /\ (a = app \/ Returned(app, a))
    BY <1>3
  <1>4. /\ a.turns = app.turns /\ a.out = app.out /\ a.sel = app.sel /\ a.live = app.live
        /\ a.gate = app.gate /\ a.pre = app.pre /\ a.run = app.run
    BY DEF Returned, SameLatch, Unsubmitted
  <1>5. Tame(a)
    BY <1>2, <1>4, TurnsKnown DEF Tame, Firm
  <1>6. Minds(app, a, None)
    BY <1>2, <1>4, MindsSame
  <1>7. None \notin Starts(wire) \cup accepted \cup running
    BY DEF Firm, TurnsRan, Ran
  <1>8. Run(a, wire)
    BY DEF Keeps
  <1> QED BY <1>1, <1>2, <1>5, <1>6, <1>7, <1>8, MindfulStep DEF Firm

(* A turn under way starts, and is shown from then on. *)
LEMMA StartTurnSingle ==
    ASSUME Firm, Firm', Single, misled = {}, NEW t, StartTurn(t)
    PROVE  Single'
  <1> DEFINE a == Started(app, t)
  <1>1. /\ link = "up" /\ inbox = <<>> /\ t \in accepted /\ accepted' = accepted \ {t}
        /\ running' = running \cup {t} /\ Keeps(a) /\ UNCHANGED <<link, inbox>>
    BY DEF StartTurn
  <1>2. /\ app \in AppType /\ t \in Nat \ {None} /\ TurnSession(app, t) \in Sessions
        /\ t \notin app.done /\ t \in DOMAIN app.turns /\ app.out = <<>>
    BY <1>1, TurnsKnown DEF Firm, TurnsRan, Ran
  <1>3. a \in AppType /\ Opened(app, a, t)
    BY <1>2, StartedData
  <1>0. Run(a, wire)
    BY <1>1 DEF Keeps
  <1> HIDE DEF a
  <1>4. Awaits(app, t)
    BY <1>1 DEF Single
  <1>5. Minds(app, a, t) /\ Shows(a, t)
    BY <1>2, <1>3, <1>4, MindsOpened
  <1>6. Tame(a)
    BY <1>2, <1>3, TurnsKnown DEF Tame, Firm, Opened, Bound, Unsubmitted
  <1>7. t \notin Starts(wire) \cup accepted'
    BY <1>1 DEF Firm, TurnsRan, Ran
  <1>8. \A u \in running' : u \in running \ {t} \/ Shows(a, u)
    BY <1>1, <1>5
  <1>9. inbox' = <<>> /\ accepted' \subseteq accepted
    BY <1>1
  <1> QED BY <1>0, <1>1, <1>3, <1>5, <1>6, <1>7, <1>8, <1>9, MindfulStep DEF Firm

(* A turn that runs, or was accepted, ends. *)
LEMMA EndsSingle ==
    ASSUME Firm, Firm', Single, misled = {}, NEW t,
           \/ RejectTurn(t) \/ Abort(t)
           \/ \E o \in {"success", "error", "idle"} : Complete(t, o)
    PROVE  Single'
  <1>1. /\ UNCHANGED <<link, inbox>> /\ inbox = <<>>
        /\ \/ t \in running /\ running' = running \ {t} /\ accepted' = accepted
           \/ t \in accepted /\ accepted' = accepted \ {t} /\ running' = running
    BY DEF RejectTurn, Abort, Complete, Ends, Listens
  <1>2. /\ app \in AppType /\ t \in Nat /\ TurnSession(app, t) \in Sessions
        /\ Fit(app, app.turns) /\ t \in DOMAIN app.turns
    BY <1>1, TurnsKnown DEF Firm
  <1>3. \E a : Fit(a, app.turns) /\ Plain(app, a) /\ Concluded(app, a, t) /\ Keeps(a)
    <2>1. ASSUME NEW o \in {"success", "error", "idle"}, Keeps(Commit(app, t, o))
          PROVE  \E a : Fit(a, app.turns) /\ Plain(app, a) /\ Concluded(app, a, t) /\ Keeps(a)
      BY <1>2, <2>1, CommitFit, CommitData
    <2>2. ASSUME NEW interrupt, Keeps(Fail(app, t, interrupt))
          PROVE  \E a : Fit(a, app.turns) /\ Plain(app, a) /\ Concluded(app, a, t) /\ Keeps(a)
      BY <1>2, <2>2, FailFit, FailData
    <2> QED BY <2>1, <2>2 DEF RejectTurn, Abort, Complete
  <1> PICK a : Fit(a, app.turns) /\ Plain(app, a) /\ Concluded(app, a, t) /\ Keeps(a)
    BY <1>3
  <1>4. a \in AppType /\ Tame(a) /\ Run(a, wire)
    BY DEF Fit, Tame, Keeps
  <1>5. (Awaits(app, t) \/ Shows(app, t)) /\ link = "up"
    BY <1>1 DEF Single
  <1>6. Minds(app, a, t)
    BY <1>2, <1>4, <1>5, MindsConcluded
  <1>7. t \notin Starts(wire) \cup accepted' /\ accepted' \subseteq accepted
        /\ \A u \in running' : u \in running \ {t}
    BY <1>1 DEF Firm, TurnsRan, Ran
  <1>8. inbox' = <<>>
    BY <1>1
  <1> QED BY <1>1, <1>4, <1>5, <1>6, <1>7, <1>8, MindfulStep DEF Firm

(* A turn that is shown streams; of one that is over nothing shows. *)
LEMMA StreamSingle ==
    ASSUME Firm, Firm', Single, misled = {}, NEW t, Stream(t)
    PROVE  Single'
  <1> PICK a \in {Delta(app, t), Tool(app, t)} : a # app /\ Keeps(a)
    BY DEF Stream
  <1>1. /\ UNCHANGED <<accepted, running, link, inbox>> /\ inbox = <<>>
        /\ t \in running \cup (over \cap app.done)
    BY DEF Stream, Listens, serverVars
  <1>2. /\ app \in AppType /\ Fit(app, app.turns) /\ t \in DOMAIN app.turns
    BY <1>1, TurnsKnown DEF Firm
  <1>3. t \in running
    BY <1>1 DEF Delta, Tool
  <1>4. link = "up" /\ Shows(app, t)
    BY <1>3 DEF Single
  <1>5. Fit(a, app.turns) /\ Tame(a) /\ a \in AppType
    BY <1>2, DeltaFit, ToolFit DEF Tame, Fit
  <1>6. Minds(app, a, None)
    BY <1>2, <1>4, MindsDelta, MindsTool
  <1>7. None \notin Starts(wire) \cup accepted \cup running
    BY DEF Firm, TurnsRan, Ran
  <1>8. Run(a, wire)
    BY DEF Keeps
  <1> QED BY <1>1, <1>4, <1>5, <1>6, <1>7, <1>8, MindfulStep DEF Firm

(* A snapshot ends a turn that is over, if any. *)
LEMMA HydrateSingle ==
    ASSUME Firm, Firm', Single, misled = {}, NEW stale, AnswerHydrate(stale)
    PROVE  Single'
  <1> DEFINE s == Head(wire).sess
             Mine(ts) == {t \in ts : t # None /\ TurnSession(app, t) = s}
             active == Mine(running \cup {stale})
             told == active \cap app.done
             t1 == CHOOSE t \in told : TRUE
             ended == Mine(over \ {stale})
             a == IF told # {} THEN Refresh(app, s, t1)
                  ELSE Hydrated(app, s, ended, active, answered)
  <1>1. /\ Takes("hydrate") /\ Run(a, Tail(wire)) /\ wire # <<>> /\ link = "up" /\ inbox = <<>>
        /\ UNCHANGED <<accepted, running, link, inbox>>
    BY DEF AnswerHydrate, Takes, serverVars
  <1>2. s \in Sessions
    BY <1>1, TakesFacts DEF CmdType, Firm
  <1>3. told \subseteq app.done /\ ended \subseteq over /\ None \notin ended
    OBVIOUS
  <1> HIDE DEF ended, active, told
  <1>4. /\ Fit(app, app.turns) /\ app \in AppType /\ app.done \in SUBSET Nat
        /\ Starts(Tail(wire)) \subseteq Starts(wire)
    BY <1>1, TurnsKnown, Fields, StartsTail DEF Firm
  <1>5. told # {} => t1 \in Nat
    BY <1>3, <1>4
  <1> HIDE DEF t1, s
  <1>6. \A x \in over \cup {None} : x \notin Starts(Tail(wire)) \cup accepted \cup running
    BY <1>4 DEF Firm, TurnsRan, Ran
  <1>7. \E x \in over \cup {None} : a \in AppType /\ Tame(a) /\ Minds(app, a, x)
    <2>1. CASE told # {}
      <3> DEFINE b == Refresh(app, s, t1)
      <3>1. b \in AppType /\ Refreshed(app, b, s) /\ Plain(app, b) /\ Fit(b, app.turns)
        BY <1>2, <1>4, <1>5, <2>1, RefreshData, RefreshFit
      <3>2. a = b
        BY <2>1
      <3> HIDE DEF a, b
      <3>3. Minds(app, b, None)
        BY <1>4, <3>1, MindsSame DEF Refreshed, Apart, SameLatch
      <3> QED BY <3>1, <3>2, <3>3 DEF Tame, Fit
    <2>2. CASE told = {}
      <3> DEFINE b == Hydrated(app, s, ended, active, answered)
      <3>1. Fit(b, app.turns) /\ Plain(app, b) /\ b \in AppType
        BY <1>2, <1>3, <1>4, HydratedFit DEF Fit
      <3>2. \A x \in Sessions : app.live[x] # None =>
                app.live[x] \in DOMAIN app.turns /\ TurnSession(app, app.live[x]) = x
        BY <1>4 DEF Fit, Refs, TurnSession
      <3>3. \E x \in ended \cup {None} : Minds(app, b, x)
        BY <1>2, <1>3, <1>4, <3>2, MindsHydrated
      <3>4. a = b
        BY <2>2
      <3> HIDE DEF a, b
      <3> QED BY <1>3, <3>1, <3>3, <3>4 DEF Tame, Fit
    <2> QED BY <2>1, <2>2
  <1> HIDE DEF a
  <1> PICK x \in over \cup {None} : a \in AppType /\ Tame(a) /\ Minds(app, a, x)
    BY <1>7
  <1>8. x \notin Starts(Tail(wire)) \cup accepted' /\ accepted' \subseteq accepted
        /\ \A t \in running' : t \in running \ {x}
    BY <1>1, <1>6
  <1>9. inbox' = <<>>
    BY <1>1
  <1> QED BY <1>1, <1>7, <1>8, <1>9, MindfulStep DEF Firm

(* The child dies with every turn it had; its replacement has none yet.     *)
LEMMA LinkSingle ==
    ASSUME Firm, Single, misled = {}, LinkDies \/ LinkBoots \/ LinkOpens
    PROVE  Single'
  <1>1. CASE LinkDies
    <2>1. wire' = <<>> /\ accepted' = {} /\ running' = {}
      BY <1>1 DEF LinkDies
    <2>2. Starts(wire') = {}
      BY <2>1 DEF Starts, StartPlaces
    <2> QED BY <2>1, <2>2, IdleSingle
  <1>2. CASE LinkBoots \/ LinkOpens
    <2>1. link # "up" /\ UNCHANGED <<wire, accepted, running>>
      BY <1>2 DEF LinkBoots, LinkOpens, serverVars
    <2>2. Starts(wire) = {} /\ accepted = {} /\ running = {}
      BY <2>1 DEF Single
    <2> QED BY <2>1, <2>2, IdleSingle
  <1> QED BY <1>1, <1>2

(* While an event is queued nothing is under way; the reconcile, the last    *)
(* one, may submit.                                                         *)
LEMMA ReadSingle ==
    ASSUME Firm, Firm', Single, misled = {}, ReadInbox
    PROVE  Single'
  <1> DEFINE e == Head(inbox)
             a == CASE e.event = "cancelled" -> Cancelled(app, e.cmd)
                    [] e.event = "epoch" -> [app EXCEPT !.conn = @ + 1]
                    [] e.event = "relaunched" -> Relaunched(app)
  <1>1. /\ inbox # <<>> /\ inbox' = Tail(inbox) /\ Run(a, wire)
        /\ UNCHANGED <<link, accepted, running>>
    BY DEF ReadInbox, Keeps, serverVars
  <1>2. Starts(wire) = {} /\ accepted = {} /\ running = {}
    BY <1>1 DEF Single
  <1>3. /\ Fit(app, app.turns) /\ app \in AppType /\ app.out = <<>>
        /\ inbox \in Seq(EventType) /\ wire \in Seq(CmdType)
    BY TurnsKnown DEF Firm, Sound, LinesSound, Lines
  <1>4. e = inbox[1] /\ 1 \in DOMAIN inbox
    BY <1>1, <1>3, HeadTailProperties
  <1>5. e.event = EventOf(link) /\ link \in {"up", "down", "booting"}
    BY <1>4 DEF Firm, Phase, Sound, BudgetSound
  <1> HIDE DEF e
  <1>6. CASE link = "down"
    <2>1. wire' = wire
      BY <1>1, <1>6 DEF Run
    <2> QED BY <1>1, <1>2, <2>1, IdleSingle
  <1>7. CASE link = "booting"
    <2> DEFINE b == [app EXCEPT !.conn = @ + 1]
    <2>1. e.event = "epoch"
      BY <1>5, <1>7 DEF EventOf
    <2>2. Run(b, wire)
      BY <1>1, <2>1
    <2>3. b \in AppType /\ b.out = <<>>
      BY <1>3, EpochData DEF Unsubmitted
    <2> HIDE DEF b
    <2>4. wire' = wire \o <<>>
      BY <1>7, <2>2, <2>3 DEF Run
    <2>5. Starts(wire') = {}
      BY <1>2, <1>3, <2>4, ConcatEmptySeq
    <2> QED BY <1>1, <1>2, <2>5, IdleSingle
  <1>8. CASE link = "up"
    <2> DEFINE b == Relaunched(app)
    <2>1. e.event = "relaunched"
      BY <1>5, <1>8 DEF EventOf
    <2>2. Run(b, wire)
      BY <1>1, <2>1
    <2>3. Fit(b, app.turns) /\ Plain(app, b) /\ b \in AppType
      BY <1>3, RelaunchedFit DEF Fit
    <2>4. \A t \in DOMAIN b.turns : t \in DOMAIN app.turns \/ Awaits(b, t)
      BY <1>3, MindsRelaunched
    <2> HIDE DEF b
    <2>5. inbox' = <<>>
      <3>1. Len(inbox) \in Nat /\ Len(inbox) # 0 /\ Len(inbox) <= 1
        BY <1>1, <1>3, <1>8 DEF Firm, Phase
      <3>2. \A n \in Nat : n # 0 /\ n <= 1 => n = 1
        OBVIOUS
      <3>3. Len(inbox) = 1
        BY <3>1, <3>2
      <3> QED BY <1>1, <1>3, <3>3
    <2>6. Named(wire, b)
      <3>1. StartPlaces(wire) = {}
        BY <1>2 DEF Starts
      <3> QED BY <3>1 DEF Named
    <2>7. Starts(wire) \cup accepted' = {} /\ running' = {} /\ link' = link
      BY <1>1, <1>2
    <2>8. Tame(b)
      BY <2>3 DEF Tame, Fit
    <2> QED BY <1>3, <1>8, <2>2, <2>3, <2>4, <2>5, <2>6, <2>7, <2>8, StepSingle DEF Firm
  <1> QED BY <1>5, <1>6, <1>7, <1>8

(* What has misled the store is not forgotten, and some steps mislead it. *)
LEMMA MisledGrows ==
    ASSUME [Next]_vars, misled' = {}
    PROVE  /\ misled = {}
           /\ ~RefuseStart /\ ~StartForSteer
           /\ \A s \in Sessions : ~StartOwnTurn(s)
           /\ \A kind \in {"error", "cap"} : ~OtherRequestFails(kind)
  <1>1. ~RefuseStart /\ ~StartForSteer
    BY DEF RefuseStart, Fault, Misleading, StartForSteer
  <1>2. \A s \in Sessions : ~StartOwnTurn(s)
    BY DEF StartOwnTurn
  <1>3. \A kind \in {"error", "cap"} : ~OtherRequestFails(kind)
    BY DEF OtherRequestFails, Fault, Misleading
  <1>4. misled = {}
    <2>1. \A kind : Fault(kind) => misled \subseteq misled'
      BY DEF Fault
    <2>2. CASE User \/ Clock
      BY <2>2 DEF User, Clock, TypePrompt, UserInterrupts, SendPendingNow, UserSwitches, Tick,
             Acts, MarkerAges, GateAges, budgetVars
    <2>3. CASE ServerSteps
      <3>1. CASE AcceptStart \/ DropStart \/ AcceptSteer \/ RefuseSteer \/ TakeInterrupt
                 \/ ConsumeSteer
        BY <2>1, <3>1 DEF AcceptStart, DropStart, AcceptSteer, RefuseSteer, TakeInterrupt,
               ConsumeSteer, budgetVars
      <3>2. CASE \/ \E stale \in (over \cap app.done) \cup {None} : AnswerHydrate(stale)
                 \/ \E t \in accepted : StartTurn(t) \/ RejectTurn(t)
                 \/ \E t \in running \cup over : Stream(t)
        BY <2>1, <3>2 DEF AnswerHydrate, StartTurn, RejectTurn, Stream, budgetVars
      <3>3. CASE \/ \E t \in running : DropSteers(t) \/ Abort(t)
                 \/ \E t \in running, o \in {"success", "error", "idle"} : Complete(t, o)
        BY <3>3 DEF DropSteers, Abort, Complete, Ends, budgetVars
      <3> QED BY <1>1, <1>2, <1>3, <2>3, <3>1, <3>2, <3>3 DEF ServerSteps
    <2>4. CASE LinkDies \/ LinkBoots \/ LinkOpens \/ ReadInbox
      BY <2>1, <2>4 DEF LinkDies, LinkBoots, LinkOpens, ReadInbox, budgetVars
    <2>5. CASE UNCHANGED vars
      BY <2>5 DEF vars
    <2> QED BY <2>2, <2>3, <2>4, <2>5 DEF Next
  <1> QED BY <1>1, <1>2, <1>3, <1>4

LEMMA NextSingle ==
    ASSUME ~BusyBoots, ~SlowStarts, Firm, Firm', Single, [Next]_vars
    PROVE  Single'
  <1> SUFFICES ASSUME misled' = {} PROVE Single'
    BY DEF Single
  <1>0. /\ misled = {} /\ ~RefuseStart /\ ~StartForSteer
        /\ \A s \in Sessions : ~StartOwnTurn(s)
        /\ \A kind \in {"error", "cap"} : ~OtherRequestFails(kind)
    BY MisledGrows
  <1>1. CASE User \/ Clock
    BY <1>0, <1>1, UserSingle, AgesSingle DEF Clock
  <1>2. CASE ServerSteps
    <2>1. CASE AcceptStart \/ DropStart \/ TakeInterrupt \/ AcceptSteer \/ RefuseSteer
      BY <1>0, <2>1, AnswerSingle
    <2>2. CASE ConsumeSteer \/ \E t \in running : DropSteers(t)
      BY <1>0, <2>2, ReportSingle
    <2>3. CASE \E stale \in (over \cap app.done) \cup {None} : AnswerHydrate(stale)
      BY <1>0, <2>3, HydrateSingle
    <2>4. CASE \/ \E t \in accepted : RejectTurn(t)
               \/ \E t \in running : Abort(t)
               \/ \E t \in running, o \in {"success", "error", "idle"} : Complete(t, o)
      BY <1>0, <2>4, EndsSingle
    <2>5. CASE \/ \E t \in accepted : StartTurn(t)
               \/ \E t \in running \cup over : Stream(t)
      BY <1>0, <2>5, StartTurnSingle, StreamSingle
    <2> QED BY <1>0, <1>2, <2>1, <2>2, <2>3, <2>4, <2>5 DEF ServerSteps
  <1>3. CASE LinkDies \/ LinkBoots \/ LinkOpens
    BY <1>0, <1>3, LinkSingle
  <1>4. CASE ReadInbox
    BY <1>0, <1>4, ReadSingle
  <1>5. CASE UNCHANGED vars
    <2>1. UNCHANGED <<app, wire, inbox, link, accepted, running, misled>>
      BY <1>5 DEF vars
    <2> QED BY <2>1 DEF Single
  <1> QED BY <1>1, <1>2, <1>3, <1>4, <1>5 DEF Next

LEMMA InitSingle == Init => Single
  <1> SUFFICES ASSUME Init PROVE Single
    OBVIOUS
  <1>1. wire = <<>> /\ accepted = {} /\ running = {}
    BY DEF Init
  <1>2. StartPlaces(wire) = {}
    BY <1>1 DEF StartPlaces
  <1>3. Starts(wire) = {}
    BY <1>2 DEF Starts
  <1> QED BY <1>1, <1>2, <1>3 DEF Single, Named

(* A turn/start never goes out beside another turn of its session, whatever  *)
(* turns the server runs at once and however often its child dies, until the *)
(* store is misled: a turn under way is the one the gate of its session      *)
(* waits for, and a session that shows a live turn waits for none. A slow    *)
(* start, whose marker ages, and a prompt that goes out while no child is    *)
(* there, which the reconcile stages again, do break it.                     *)
THEOREM OneTurnAtATime ==
    ASSUME ~BusyBoots, ~SlowStarts
    PROVE  Spec => NoConcurrentSubmit
  <1> DEFINE Alone == \A i \in DOMAIN wire' :
                         wire'[i].kind = "start" /\ Sent(i) /\ misled' = {} =>
                             \A t \in Turns : TurnSession(app, t) = wire'[i].sess =>
                                 ~InTransit(t)' /\ t \notin running'
  <1>1. Firm /\ Firm' /\ Single /\ [Next]_vars => Single'
    BY NextSingle
  <1>2. Firm /\ Firm' /\ Single' /\ [Next]_vars => [Alone]_vars
    <2> SUFFICES ASSUME Firm, Firm', Single', [Next]_vars,
                        NEW i \in DOMAIN wire', wire'[i].kind = "start", Sent(i), misled' = {},
                        NEW t \in Turns, TurnSession(app, t) = wire'[i].sess
                 PROVE  ~InTransit(t)' /\ t \notin running'
      BY DEF Alone
    <2> DEFINE n == wire'[i].turn
    <2>1. /\ app.turns \in TurnTables /\ Len(app.turns) \in Nat
          /\ DOMAIN app.turns = 1..Len(app.turns)
      BY TurnsKnown, TableFacts DEF Firm
    <2>2. t \in DOMAIN app.turns /\ t # n /\ t # None
      BY <2>1 DEF Sent, Turns, None
    <2>3. TurnSession(app', t) = TurnSession(app, t)
      <3>1. Extends(app.turns, app'.turns)
        BY NextKept DEF Firm, Kept
      <3> QED BY <2>2, <3>1 DEF Extends, TurnSession
    <2>4. Awaits(app', n) /\ TurnSession(app', n) = wire'[i].sess
      <3>1. i \in StartPlaces(wire') /\ n \in Starts(wire')
        BY DEF StartPlaces, Starts
      <3> QED BY <3>1 DEF Single, Named
    <2> HIDE DEF n
    <2>5. ~Awaits(app', t) /\ ~Shows(app', t)
      BY <2>2, <2>3, <2>4 DEF Awaits, Shows
    <2>6. InTransit(t)' => t \in Starts(wire') \cup accepted'
      BY DEF InTransit, Starts, StartPlaces
    <2> QED BY <2>5, <2>6 DEF Single
  <1> QED BY <1>1, <1>2, InitSingle, AlwaysFirm, PTL DEF Spec, NoConcurrentSubmit, Alone
=============================================================================
