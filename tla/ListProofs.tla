------------------------------ MODULE ListProofs ------------------------------
(***************************************************************************)
(* What the functions on lists do: putting a set in an order, picking from *)
(* a list, cutting it and adding it up.  Recursive functions have the      *)
(* values their equations say, as there is no least place where they have  *)
(* not.                                                                    *)
(***************************************************************************)
EXTENDS Lists, FiniteSetTheorems, SequenceTheorems, TLAPS

-----------------------------------------------------------------------------
(* Orders                                                                  *)

(* Of two members one comes before the other.                              *)
Linear(S, upto) ==
  /\ upto \in [S -> SUBSET S]
  /\ \A x \in S : x \in upto[x]
  /\ \A x, y \in S : \/ x = y
                     \/ upto[x] \subseteq upto[y] /\ y \notin upto[x]
                     \/ upto[y] \subseteq upto[x] /\ x \notin upto[y]

(* Then every place is taken, and nobody stands before one that it is after. *)
LEMMA ListedMembers ==
  ASSUME NEW S, IsFiniteSet(S), NEW upto, Linear(S, upto)
  PROVE  /\ Listed(upto) \in Seq(S)
         /\ \A x \in S : \E k \in DOMAIN Listed(upto) : Listed(upto)[k] = x
         /\ \A k, l \in DOMAIN Listed(upto) : k < l => Listed(upto)[l] \notin upto[Listed(upto)[k]]
<1> DEFINE n == Cardinality(S)
           place == [x \in S |-> Cardinality(upto[x])]
<1>0. /\ upto \in [S -> SUBSET S] /\ \A x \in S : x \in upto[x]
      /\ \A x, y \in S : \/ x = y
                         \/ upto[x] \subseteq upto[y] /\ y \notin upto[x]
                         \/ upto[y] \subseteq upto[x] /\ x \notin upto[y]
  BY DEF Linear
<1>1. n \in Nat
  BY FS_CardinalityType
<1>2. \A x \in S : IsFiniteSet(upto[x]) /\ Cardinality(upto[x]) \in Nat /\ Cardinality(upto[x]) <= n
  BY <1>0, FS_Subset, FS_CardinalityType
<1>3. \A x \in S : Cardinality(upto[x]) \in 1..n
  <2> SUFFICES ASSUME NEW x \in S PROVE Cardinality(upto[x]) # 0
    BY <1>1, <1>2
  <2>1. upto[x] # {}
    BY <1>0
  <2> QED BY <1>2, <2>1, FS_EmptySet
<1>4. ASSUME NEW x \in S, NEW y \in S, upto[x] \subseteq upto[y], y \notin upto[x]
      PROVE  Cardinality(upto[x]) # Cardinality(upto[y])
  <2>1. upto[x] # upto[y] /\ upto[x] \in SUBSET upto[y] /\ IsFiniteSet(upto[y])
    BY <1>0, <1>2, <1>4
  <2> QED BY <2>1, FS_Subset
<1>5. place \in Injection(S, 1..n)
  <2>1. place \in [S -> 1..n]
    BY <1>3
  <2>2. ASSUME NEW x \in S, NEW y \in S, place[x] = place[y] PROVE x = y
    BY <1>0, <1>4, <2>2
  <2> HIDE DEF place
  <2> QED BY <2>1, <2>2 DEF Injection, IsInjective
<1>6. \A k \in 1..n : \E x \in S : Cardinality(upto[x]) = k
  <2>1. IsFiniteSet(1..n) /\ Cardinality(1..n) = n
    <3> HIDE DEF n
    <3>1. 1 \in Int /\ n \in Int
      BY <1>1
    <3>2. IsFiniteSet(1..n) /\ Cardinality(1..n) = IF 1 > n THEN 0 ELSE n - 1 + 1
      BY <3>1, FS_Interval
    <3> QED BY <1>1, <3>2
  <2>2. place \in Surjection(S, 1..n)
    BY <1>5, <2>1, FS_Injection
  <2> QED BY <2>2 DEF Surjection
<1>7. DOMAIN upto = S /\ Listed(upto) = [k \in 1..n |-> CHOOSE x \in S : Cardinality(upto[x]) = k]
  BY <1>0 DEF Listed
<1> HIDE DEF n
<1>8. \A k \in 1..n : Listed(upto)[k] \in S /\ Cardinality(upto[Listed(upto)[k]]) = k
  BY <1>6, <1>7
<1>9. Listed(upto) \in Seq(S)
  BY <1>1, <1>7, <1>8
<1>10. ASSUME NEW x \in S PROVE \E k \in DOMAIN Listed(upto) : Listed(upto)[k] = x
  <2>1. PICK k \in 1..n : k = Cardinality(upto[x])
    BY <1>3 DEF n
  <2>2. Listed(upto)[k] \in S /\ Cardinality(upto[Listed(upto)[k]]) = Cardinality(upto[x])
    BY <1>8, <2>1
  <2>3. Listed(upto)[k] = x
    BY <1>0, <1>4, <2>2
  <2> QED BY <1>7, <2>3
<1>11. ASSUME NEW k \in 1..n, NEW l \in 1..n, k < l PROVE Listed(upto)[l] \notin upto[Listed(upto)[k]]
  <2>1. PICK x \in S, y \in S : /\ x = Listed(upto)[k] /\ Cardinality(upto[x]) = k
                                /\ y = Listed(upto)[l] /\ Cardinality(upto[y]) = l
    BY <1>8
  <2>2. x # y
    BY <1>11, <2>1
  <2>3. ~(upto[y] \subseteq upto[x])
    <3> SUFFICES ASSUME upto[y] \in SUBSET upto[x] PROVE FALSE
      OBVIOUS
    <3>1. Cardinality(upto[y]) <= Cardinality(upto[x])
      BY <1>2, FS_Subset
    <3> QED BY <1>11, <2>1, <3>1
  <2> QED BY <1>0, <2>1, <2>2, <2>3
<1> QED BY <1>7, <1>9, <1>10, <1>11

(* What comes later has a greater number, or is greater.                   *)
Rising(seq, key) ==
  \A k, l \in DOMAIN seq :
    k < l => key[seq[k]] < key[seq[l]] \/ (key[seq[k]] = key[seq[l]] /\ seq[k] < seq[l])

LEMMA AscendingMembers ==
  ASSUME NEW S \in SUBSET Int, IsFiniteSet(S), NEW key, \A c \in S : key[c] \in Int
  PROVE  /\ Ascending(S, key) \in Seq(S)
         /\ \A x \in S : \E k \in DOMAIN Ascending(S, key) : Ascending(S, key)[k] = x
         /\ Rising(Ascending(S, key), key)
<1>1. PICK upto : upto = [c \in S |-> {d \in S : key[d] < key[c] \/ (key[d] = key[c] /\ d <= c)}]
  OBVIOUS
<1>2. \A x \in S : x \in Int /\ key[x] \in Int
  OBVIOUS
<1>3. \A x, d \in S : d \in upto[x] <=> key[d] < key[x] \/ (key[d] = key[x] /\ d <= x)
  BY <1>1
<1>4. upto \in [S -> SUBSET S]
  BY <1>1
<1>5. \A x \in S : x \in upto[x]
  BY <1>2, <1>3
<1>6. \A x \in S : upto[x] \subseteq S
  BY <1>1
<1>7. ASSUME NEW x \in S, NEW y \in S, x # y, key[x] < key[y] \/ (key[x] = key[y] /\ x <= y)
      PROVE  upto[x] \subseteq upto[y] /\ y \notin upto[x]
  <2>1. \A d \in S : key[d] < key[x] \/ (key[d] = key[x] /\ d <= x)
                     => key[d] < key[y] \/ (key[d] = key[y] /\ d <= y)
    BY <1>2, <1>7
  <2>2. ~(key[y] < key[x] \/ (key[y] = key[x] /\ y <= x))
    BY <1>2, <1>7
  <2> QED BY <1>3, <1>6, <2>1, <2>2
<1>8. \A x, y \in S : \/ x = y
                      \/ upto[x] \subseteq upto[y] /\ y \notin upto[x]
                      \/ upto[y] \subseteq upto[x] /\ x \notin upto[y]
  <2> SUFFICES ASSUME NEW x \in S, NEW y \in S, x # y
               PROVE  \/ upto[x] \subseteq upto[y] /\ y \notin upto[x]
                      \/ upto[y] \subseteq upto[x] /\ x \notin upto[y]
    OBVIOUS
  <2>1. \/ key[x] < key[y] \/ (key[x] = key[y] /\ x <= y)
        \/ key[y] < key[x] \/ (key[y] = key[x] /\ y <= x)
    BY <1>2
  <2>2. CASE key[x] < key[y] \/ (key[x] = key[y] /\ x <= y)
    BY <1>7, <2>2
  <2>3. CASE key[y] < key[x] \/ (key[y] = key[x] /\ y <= x)
    BY <1>7, <2>3
  <2> QED BY <2>1, <2>2, <2>3
<1>9. Ascending(S, key) = Listed(upto)
  BY <1>1 DEF Ascending
<1>10. PICK listed : /\ listed = Listed(upto) /\ listed \in Seq(S)
                     /\ \A x \in S : \E k \in DOMAIN listed : listed[k] = x
                     /\ \A k, l \in DOMAIN listed : k < l => listed[l] \notin upto[listed[k]]
  <2>1. Linear(S, upto)
    BY <1>4, <1>5, <1>8 DEF Linear
  <2> QED BY <2>1, ListedMembers
<1>11. ASSUME NEW k \in DOMAIN listed, NEW l \in DOMAIN listed, k < l
       PROVE  key[listed[k]] < key[listed[l]] \/ (key[listed[k]] = key[listed[l]] /\ listed[k] < listed[l])
  <2>1. PICK x \in S, y \in S : x = listed[k] /\ y = listed[l] /\ y \notin upto[x]
    BY <1>10, <1>11
  <2>2. ~(key[y] < key[x] \/ (key[y] = key[x] /\ y <= x))
    BY <1>3, <2>1
  <2> QED BY <1>2, <2>1, <2>2
<1>12. Rising(listed, key)
  BY <1>11 DEF Rising
<1>13. Ascending(S, key) = listed
  BY <1>9, <1>10
<1> QED BY <1>10, <1>12, <1>13

(* Sequences of members of a set, cut, picked from and filtered.           *)
LEMMA PickedMembers ==
  ASSUME NEW S, NEW seq \in Seq(S), NEW order \in Seq(DOMAIN seq)
  PROVE  Picked(seq, order) \in Seq(S)
<1>1. PICK n \in Nat : n = Len(order)
  OBVIOUS
<1>2. \A k \in 1..n : seq[order[k]] \in S
  BY <1>1
<1>3. Picked(seq, order) = [k \in 1..n |-> seq[order[k]]]
  BY <1>1 DEF Picked
<1> QED BY <1>2, <1>3

LEMMA PlacesOrdered ==
  ASSUME NEW n \in Nat, NEW P, P \subseteq 1..n, NEW key, \A i \in P : key[i] \in Int
  PROVE  /\ Ascending(P, key) \in Seq(1..n)
         /\ Ascending(P, key) \in Seq(P)
         /\ \A i \in P : \E k \in DOMAIN Ascending(P, key) : Ascending(P, key)[k] = i
         /\ Rising(Ascending(P, key), key)
<1>1. 1 \in Int /\ n \in Int /\ P \in SUBSET (1..n)
  OBVIOUS
<1>2. IsFiniteSet(1..n)
  BY <1>1, FS_Interval
<1>3. P \in SUBSET Int /\ IsFiniteSet(P)
  <2>1. IsFiniteSet(P)
    BY <1>1, <1>2, FS_Subset
  <2> QED BY <2>1
<1>4. /\ Ascending(P, key) \in Seq(P)
      /\ \A i \in P : \E k \in DOMAIN Ascending(P, key) : Ascending(P, key)[k] = i
      /\ Rising(Ascending(P, key), key)
  BY <1>3, AscendingMembers
<1>5. Ascending(P, key) \in Seq(1..n)
  BY <1>4, <1>1, SeqMonotonic
<1> QED BY <1>4, <1>5

LEMMA OnlyMembers ==
  ASSUME NEW S, NEW seq \in Seq(S), NEW P \in SUBSET (DOMAIN seq)
  PROVE  /\ Only(seq, P) \in Seq(S)
         /\ ToSet(Only(seq, P)) = {seq[i] : i \in P}
<1>0. PICK key, order : key = [i \in P |-> i] /\ order = Ascending(P, key)
  OBVIOUS
<1>1. /\ order \in Seq(DOMAIN seq) /\ order \in Seq(P)
      /\ \A i \in P : \E k \in DOMAIN order : order[k] = i
  <2>1. P \subseteq Int
    OBVIOUS
  <2>2. \A i \in P : key[i] \in Int
    BY <1>0, <2>1
  <2>3. PICK n \in Nat : n = Len(seq) /\ DOMAIN seq = 1..n
    OBVIOUS
  <2>4. P \subseteq 1..n
    BY <2>3
  <2>5. /\ order \in Seq(1..n) /\ order \in Seq(P)
        /\ \A i \in P : \E k \in DOMAIN order : order[k] = i
    <3>1. order = Ascending(P, key)
      BY <1>0
    <3>2. /\ Ascending(P, key) \in Seq(1..n) /\ Ascending(P, key) \in Seq(P)
          /\ \A i \in P : \E k \in DOMAIN Ascending(P, key) : Ascending(P, key)[k] = i
      BY <2>2, <2>4, PlacesOrdered
    <3> QED BY <3>1, <3>2
  <2> QED BY <2>3, <2>5
<1>2. Only(seq, P) = Picked(seq, order)
  BY <1>0 DEF Only
<1>3. Only(seq, P) \in Seq(S)
  BY <1>1, <1>2, PickedMembers
<1>4. DOMAIN Picked(seq, order) = DOMAIN order /\ \A k \in DOMAIN order : Picked(seq, order)[k] = seq[order[k]]
  BY DEF Picked
<1>5. \A k \in DOMAIN order : order[k] \in P
  BY <1>1
<1> QED BY <1>1, <1>2, <1>3, <1>4, <1>5 DEF ToSet

LEMMA UptoMembers ==
  ASSUME NEW S, NEW seq \in Seq(S), NEW n \in Nat
  PROVE  Upto(seq, n) \in Seq(S) /\ ToSet(Upto(seq, n)) \subseteq ToSet(seq)
<1>1. PICK m \in Nat : m = Len(seq)
  OBVIOUS
<1>2. Min({n, m}) \in {n, m} /\ Min({n, m}) <= m
  BY <1>1 DEF Min
<1>3. PICK k \in 0..m : k = Min({n, m})
  BY <1>1, <1>2
<1>4. Upto(seq, n) = SubSeq(seq, 1, k)
  BY <1>1, <1>3 DEF Upto
<1>5. /\ SubSeq(seq, 1, k) \in Seq(S) /\ DOMAIN SubSeq(seq, 1, k) = 1..k
      /\ \A i \in 1..k : SubSeq(seq, 1, k)[i] = seq[i]
  <2>1. 1 \in Int /\ k \in Int /\ \A i \in 1..k : seq[i] \in S
    BY <1>1
  <2>2. /\ SubSeq(seq, 1, k) \in Seq(S) /\ Len(SubSeq(seq, 1, k)) = IF 1 <= k THEN k - 1 + 1 ELSE 0
        /\ \A i \in 1..k - 1 + 1 : SubSeq(seq, 1, k)[i] = seq[1 + i - 1]
    BY <2>1, SubSeqProperties
  <2>3. Len(SubSeq(seq, 1, k)) = k /\ \A i \in 1..k : i \in 1..k - 1 + 1 /\ 1 + i - 1 = i
    BY <2>2
  <2>4. DOMAIN SubSeq(seq, 1, k) = 1..Len(SubSeq(seq, 1, k))
    BY <2>2, LenProperties
  <2> QED BY <2>2, <2>3, <2>4
<1>6. \A i \in 1..k : i \in DOMAIN seq
  BY <1>1
<1> QED BY <1>4, <1>5, <1>6 DEF ToSet

(* What is said of the members of two sequences.                           *)
LEMMA SequenceMembers ==
  ASSUME NEW S, NEW seq, seq \in Seq(S)
  PROVE  seq \in Seq(ToSet(seq)) /\ ToSet(seq) \subseteq S
<1>1. PICK n \in Nat : n = Len(seq) /\ DOMAIN seq = 1..n /\ seq \in [1..n -> S]
  BY LenProperties
<1>2. seq \in [1..n -> ToSet(seq)]
  BY <1>1 DEF ToSet
<1>3. seq \in Seq(ToSet(seq))
  BY <1>1, <1>2
<1> QED BY <1>1, <1>3 DEF ToSet

LEMMA JoinedMembers ==
  ASSUME NEW S, NEW a \in Seq(S), NEW b \in Seq(S)
  PROVE  a \o b \in Seq(S) /\ ToSet(a \o b) = ToSet(a) \cup ToSet(b)
<1>1. PICK m \in Nat, n \in Nat : /\ m = Len(a) /\ DOMAIN a = 1..m
                                  /\ n = Len(b) /\ DOMAIN b = 1..n
  BY LenProperties
<1>2. /\ a \o b \in Seq(S) /\ Len(a \o b) = m + n
      /\ \A i \in 1..m + n : (a \o b)[i] = IF i <= m THEN a[i] ELSE b[i - m]
  BY <1>1, ConcatProperties
<1>3. DOMAIN (a \o b) = 1..m + n
  BY <1>2, LenProperties
<1>4. ASSUME NEW x \in ToSet(a \o b) PROVE x \in ToSet(a) \cup ToSet(b)
  <2>1. PICK i \in 1..m + n : x = (a \o b)[i]
    BY <1>3 DEF ToSet
  <2>2. CASE i <= m
    BY <1>1, <1>2, <2>1, <2>2 DEF ToSet
  <2>3. CASE ~(i <= m)
    <3>1. i - m \in 1..n /\ x = b[i - m]
      BY <1>2, <2>1, <2>3
    <3> QED BY <1>1, <3>1 DEF ToSet
  <2> QED BY <2>2, <2>3
<1>5. ASSUME NEW x \in ToSet(a) PROVE x \in ToSet(a \o b)
  <2>1. PICK i \in 1..m : x = a[i]
    BY <1>1 DEF ToSet
  <2>2. i \in 1..m + n /\ (a \o b)[i] = x
    BY <1>2, <2>1
  <2> QED BY <1>3, <2>2 DEF ToSet
<1>6. ASSUME NEW x \in ToSet(b) PROVE x \in ToSet(a \o b)
  <2>1. PICK i \in 1..n : x = b[i]
    BY <1>1 DEF ToSet
  <2>2. m + i \in 1..m + n /\ ~(m + i <= m) /\ m + i - m = i
    BY <2>1
  <2>3. (a \o b)[m + i] = x
    BY <1>2, <2>1, <2>2
  <2> QED BY <1>3, <2>2, <2>3 DEF ToSet
<1> QED BY <1>2, <1>4, <1>5, <1>6

(* A bounded set of numbers has a greatest.                                *)
LEMMA Greatest ==
  ASSUME NEW m \in Nat, NEW S, S \subseteq 1..m, S # {}
  PROVE  Max(S) \in S /\ \A k \in S : Max(S) >= k
<1>1. PICK R : R = {pair \in Nat \X Nat : pair[1] < pair[2]}
  OBVIOUS
<1>2. PICK Rest : Rest = {m - n : n \in S}
  OBVIOUS
<1>3. Rest \subseteq Nat /\ Rest # {}
  <2>0. \A n \in 1..m : m - n \in Nat
    OBVIOUS
  <2>1. \A n \in S : m - n \in Nat /\ m - n \in Rest
    BY <1>2, <2>0
  <2>2. \A x \in Rest : \E n \in S : x = m - n
    BY <1>2
  <2> QED BY <2>1, <2>2
<1>4. IsWellFoundedOn(R, Nat)
  <2>1. OpToRel(<, Nat) = R
    BY <1>1 DEF OpToRel
  <2> QED BY <2>1, NatLessThanWellFounded
<1>5. PICK x \in Rest : \A y \in Rest : ~(<<y, x>> \in R)
  BY <1>3, <1>4, WFMin
<1>6. PICK n \in S : x = m - n
  BY <1>2, <1>5
<1>7. ASSUME NEW k \in S PROVE n >= k
  <2>1. m - k \in Rest /\ m - k \in Nat /\ m - n \in Nat
    BY <1>2
  <2>2. ~(m - k < m - n)
    BY <1>1, <1>5, <1>6, <2>1
  <2> QED BY <2>2
<1>8. \E a \in S : \A k \in S : a >= k
  BY <1>7
<1> QED BY <1>8 DEF Max

-----------------------------------------------------------------------------
(* Recursive functions                                                     *)

(* Numbers have a least.                                                   *)
LEMMA Least ==
  ASSUME NEW S, S \subseteq Nat, S # {}
  PROVE  \E n \in S : \A m \in S : n <= m
<1>1. PICK R : R = {pair \in Nat \X Nat : pair[1] < pair[2]}
  OBVIOUS
<1>2. OpToRel(<, Nat) = R
  BY <1>1 DEF OpToRel
<1>3. IsWellFoundedOn(R, Nat)
  BY <1>2, NatLessThanWellFounded
<1>4. PICK n \in S : \A m \in S : ~(<<m, n>> \in R)
  BY <1>3, WFMin
<1>5. \A m \in S : ~(m < n)
  BY <1>1, <1>4
<1> QED BY <1>4, <1>5

(* What goes from one value to the next has a value at every place.        *)
Runs(f, first, step, n) == f[0] = first /\ \A k \in 1..n : f[k] = step[k][f[k - 1]]

LEMMA Recursion ==
  ASSUME NEW V, NEW first \in V, NEW N \in Nat, NEW step \in [1..N -> [V -> V]]
  PROVE  \E f \in [0..N -> V] : Runs(f, first, step, N)
<1> DEFINE Missing == {n \in 0..N : ~\E f \in [0..n -> V] : Runs(f, first, step, n)}
<1>1. CASE Missing = {}
  BY <1>1
<1>2. CASE Missing # {}
  <2>1. PICK n \in Missing : \A m \in Missing : n <= m
    <3>1. Missing \subseteq Nat
      OBVIOUS
    <3> HIDE DEF Missing
    <3> QED BY <1>2, <3>1, Least
  <2>2. n \in 0..N
    OBVIOUS
  <2>3. n # 0
    <3>1. [k \in 0..0 |-> first] \in [0..0 -> V] /\ Runs([k \in 0..0 |-> first], first, step, 0)
      BY DEF Runs
    <3> QED BY <3>1
  <2>4. n - 1 \in 0..N /\ n - 1 \notin Missing
    BY <2>1, <2>2, <2>3
  <2>5. PICK f \in [0..n - 1 -> V] : Runs(f, first, step, n - 1)
    BY <2>4
  <2> DEFINE g == [k \in 0..n |-> IF k = n THEN step[n][f[n - 1]] ELSE f[k]]
  <2>6. n \in 1..N /\ n - 1 \in 0..n - 1
    BY <2>2, <2>3
  <2>7. g \in [0..n -> V]
    <3>1. step[n] \in [V -> V] /\ f[n - 1] \in V
      BY <2>6
    <3>2. \A k \in 0..n : k # n => k \in 0..n - 1
      BY <2>6
    <3> QED BY <3>1, <3>2
  <2>8. Runs(g, first, step, n)
    <3>1. g[0] = first
      BY <2>2, <2>3, <2>5 DEF Runs
    <3>2. ASSUME NEW k \in 1..n PROVE g[k] = step[k][g[k - 1]]
      <4>1. k \in 0..n /\ k - 1 \in 0..n /\ k - 1 # n
        BY <2>6
      <4>2. g[k - 1] = f[k - 1]
        BY <4>1
      <4>3. CASE k = n
        BY <4>1, <4>2, <4>3
      <4>4. CASE k # n
        <5>1. k \in 1..n - 1
          BY <2>6, <4>4
        <5>2. f[k] = step[k][f[k - 1]]
          BY <2>5, <5>1 DEF Runs
        <5> QED BY <4>1, <4>2, <4>4, <5>2
      <4> QED BY <4>3, <4>4
    <3> HIDE DEF g
    <3> QED BY <3>1, <3>2 DEF Runs
  <2>9. n \notin Missing
    <3> HIDE DEF g
    <3> QED BY <2>7, <2>8
  <2> QED BY <2>9
<1> QED BY <1>1, <1>2

(* What holds of nothing, and of a number if of the one before.            *)
LEMMA Counting ==
  ASSUME NEW N \in Nat, NEW S, 0 \in S, \A n \in 1..N : n - 1 \in S => n \in S
  PROVE  \A n \in 0..N : n \in S
<1> DEFINE Missing == {n \in 0..N : n \notin S}
<1>1. CASE Missing = {}
  BY <1>1
<1>2. CASE Missing # {}
  <2>1. PICK n \in Missing : \A m \in Missing : n <= m
    <3>1. Missing \subseteq Nat
      OBVIOUS
    <3> HIDE DEF Missing
    <3> QED BY <1>2, <3>1, Least
  <2>2. n \in 1..N /\ n - 1 \in 0..N /\ n - 1 \notin Missing
    BY <2>1
  <2> QED BY <2>1, <2>2
<1> QED BY <1>1, <1>2

(* The values that functions pass through.                                 *)
LEMMA FoldedRuns ==
  ASSUME NEW V, NEW first \in V, NEW steps \in Seq([V -> V])
  PROVE  \E f \in [0..Len(steps) -> V] :
           Runs(f, first, steps, Len(steps)) /\ Folded(first, steps) = f[Len(steps)]
<1> DEFINE N == Len(steps)
           Values(g) == g = [n \in 0..N |-> IF n = 0 THEN first ELSE steps[n][g[n - 1]]]
<1>1. N \in Nat /\ steps \in [1..N -> [V -> V]]
  BY LenProperties
<1> HIDE DEF N
<1>2. PICK f \in [0..N -> V] : Runs(f, first, steps, N)
  BY <1>1, Recursion
<1>3. f[0] = first /\ \A n \in 1..N : f[n] = steps[n][f[n - 1]]
  BY <1>2 DEF Runs
<1>4. Values(f)
  <2>1. \A n \in 0..N : f[n] = IF n = 0 THEN first ELSE steps[n][f[n - 1]]
    BY <1>1, <1>3
  <2> QED BY <1>2, <2>1
<1>5. PICK g : g = (CHOOSE h : Values(h))
  OBVIOUS
<1>6. Values(g)
  BY <1>4, <1>5
<1>7. Folded(first, steps) = g[N]
  BY <1>5 DEF Folded, N
<1>8. g[0] = first /\ \A n \in 1..N : g[n] = steps[n][g[n - 1]]
  BY <1>1, <1>6
<1> HIDE DEF Values
<1>9. PICK Same : Same = {n \in 0..N : g[n] = f[n]}
  OBVIOUS
<1>10. \A n \in 0..N : n \in Same
  <2>1. 0 \in Same
    BY <1>1, <1>3, <1>8, <1>9
  <2>2. \A n \in 1..N : n \in 0..N
    BY <1>1
  <2>3. \A n \in 1..N : n - 1 \in Same => n \in Same
    BY <1>3, <1>8, <1>9, <2>2
  <2> QED BY <1>1, <2>1, <2>3, Counting
<1>11. N \in 0..N
  BY <1>1
<1> QED BY <1>2, <1>7, <1>9, <1>10, <1>11 DEF N

LEMMA FoldedTyped ==
  ASSUME NEW V, NEW first \in V, NEW steps \in Seq([V -> V])
  PROVE  Folded(first, steps) \in V
<1>1. PICK f \in [0..Len(steps) -> V] : Folded(first, steps) = f[Len(steps)]
  BY FoldedRuns
<1>2. Len(steps) \in 0..Len(steps)
  BY LenProperties
<1> QED BY <1>1, <1>2

(* Without functions the value is the first.                               *)
LEMMA FoldedNothing ==
  ASSUME NEW V, NEW first \in V, NEW steps \in Seq([V -> V]), Len(steps) = 0
  PROVE  Folded(first, steps) = first
<1>1. PICK f \in [0..Len(steps) -> V] :
        Runs(f, first, steps, Len(steps)) /\ Folded(first, steps) = f[Len(steps)]
  BY FoldedRuns
<1> QED BY <1>1 DEF Runs

(* What holds of the first value, and of the next if of one, holds of the  *)
(* last.                                                                   *)
LEMMA FoldedKeeps ==
  ASSUME NEW V, NEW first \in V, NEW steps \in Seq([V -> V]), NEW holds,
         first \in holds[0],
         \A n \in 1..Len(steps) : \A v \in V : v \in holds[n - 1] => steps[n][v] \in holds[n]
  PROVE  Folded(first, steps) \in holds[Len(steps)] /\ Folded(first, steps) \in V
<1> DEFINE N == Len(steps)
<1>1. N \in Nat
  BY LenProperties
<1> HIDE DEF N
<1>2. PICK f \in [0..N -> V] : Runs(f, first, steps, N) /\ Folded(first, steps) = f[N]
  BY FoldedRuns DEF N
<1>3. PICK Good : Good = {n \in 0..N : f[n] \in holds[n]}
  OBVIOUS
<1>4. \A n \in 0..N : n \in Good
  <2>1. 0 \in Good
    BY <1>1, <1>2, <1>3 DEF Runs
  <2>2. ASSUME NEW n \in 1..N, n - 1 \in Good PROVE n \in Good
    <3>1. n \in 0..N /\ n - 1 \in 0..N
      BY <1>1
    <3>2. f[n - 1] \in V /\ f[n] = steps[n][f[n - 1]]
      BY <1>2, <3>1 DEF Runs
    <3>3. f[n] \in holds[n]
      BY <1>3, <2>2, <3>2 DEF N
    <3> QED BY <1>3, <3>1, <3>3
  <2> QED BY <1>1, <2>1, <2>2, Counting
<1>5. N \in 0..N
  BY <1>1
<1> QED BY <1>2, <1>3, <1>4, <1>5 DEF N

(* The last function makes the value of what those before it made.         *)
LEMMA FoldedLast ==
  ASSUME NEW V, NEW first \in V, NEW steps \in Seq([V -> V]), NEW more \in Seq([V -> V]),
         Len(more) = Len(steps) + 1, \A n \in 1..Len(steps) : more[n] = steps[n]
  PROVE  Folded(first, more) = more[Len(more)][Folded(first, steps)] /\ Folded(first, steps) \in V
<1>1. PICK N \in Nat : N = Len(steps) /\ Len(more) = N + 1
  BY LenProperties
<1>2. PICK f \in [0..N -> V] : Runs(f, first, steps, N) /\ Folded(first, steps) = f[N]
  BY <1>1, FoldedRuns
<1>3. PICK g \in [0..N + 1 -> V] : Runs(g, first, more, N + 1) /\ Folded(first, more) = g[N + 1]
  <2>1. \E g \in [0..Len(more) -> V] : Runs(g, first, more, Len(more)) /\ Folded(first, more) = g[Len(more)]
    BY FoldedRuns
  <2> QED BY <1>1, <2>1
<1>4. PICK Same : Same = {n \in 0..N : g[n] = f[n]}
  OBVIOUS
<1>5. \A n \in 0..N : n \in Same
  <2>1. 0 \in Same
    BY <1>2, <1>3, <1>4 DEF Runs
  <2>2. ASSUME NEW n \in 1..N, n - 1 \in Same PROVE n \in Same
    <3>1. n \in 0..N /\ n \in 1..N + 1
      OBVIOUS
    <3>2. f[n] = steps[n][f[n - 1]] /\ g[n] = more[n][g[n - 1]] /\ more[n] = steps[n]
      BY <1>1, <1>2, <1>3, <3>1 DEF Runs
    <3> QED BY <1>4, <2>2, <3>1, <3>2
  <2> QED BY <2>1, <2>2, Counting
<1>6. g[N] = f[N] /\ f[N] \in V
  <2>1. N \in 0..N
    OBVIOUS
  <2> QED BY <1>2, <1>4, <1>5, <2>1
<1>7. g[N + 1] = more[N + 1][g[N]]
  <2>1. N + 1 \in 1..N + 1 /\ (N + 1) - 1 = N
    OBVIOUS
  <2>2. g[N + 1] = more[N + 1][g[(N + 1) - 1]]
    BY <1>3, <2>1 DEF Runs
  <2> QED BY <2>1, <2>2
<1> QED BY <1>1, <1>2, <1>3, <1>6, <1>7

-----------------------------------------------------------------------------
(* Sums                                                                    *)

(* A sum is that of the numbers before, and the last one.                  *)
LEMMA TotalSteps ==
  ASSUME NEW numbers \in Seq(Int)
  PROVE  \E sum \in [0..Len(numbers) -> Int] :
           /\ sum[0] = 0
           /\ \A n \in 1..Len(numbers) : sum[n] = sum[n - 1] + numbers[n]
           /\ Total(numbers) = sum[Len(numbers)]
<1> DEFINE N == Len(numbers)
           step == [n \in 1..N |-> [v \in Int |-> v + numbers[n]]]
           Sums(sum) == sum = [n \in 0..N |-> IF n = 0 THEN 0 ELSE sum[n - 1] + numbers[n]]
<1>1. N \in Nat /\ \A n \in 1..N : numbers[n] \in Int
  OBVIOUS
<1>2. step \in [1..N -> [Int -> Int]]
  BY <1>1
<1> HIDE DEF N
<1>3. PICK f \in [0..N -> Int] : Runs(f, 0, step, N)
  <2>1. 0 \in Int
    OBVIOUS
  <2> HIDE DEF step
  <2> QED BY <1>1, <1>2, <2>1, Recursion
<1>4. \A n \in 1..N : f[n] = f[n - 1] + numbers[n]
  <2> SUFFICES ASSUME NEW n \in 1..N PROVE f[n] = f[n - 1] + numbers[n]
    OBVIOUS
  <2>1. f[n] = step[n][f[n - 1]]
    BY <1>3 DEF Runs
  <2>2. f[n - 1] \in Int
    BY <1>1, <1>3
  <2> QED BY <2>1, <2>2
<1>5. f[0] = 0
  BY <1>3 DEF Runs
<1>6. Sums(f)
  <2>1. \A n \in 0..N : f[n] = IF n = 0 THEN 0 ELSE f[n - 1] + numbers[n]
    BY <1>1, <1>4, <1>5
  <2> QED BY <1>3, <2>1
<1>7. PICK sum : sum = (CHOOSE g : Sums(g))
  OBVIOUS
<1>8. Sums(sum)
  BY <1>6, <1>7
<1>9. Total(numbers) = sum[N]
  BY <1>7 DEF Total, N
<1>10. sum[0] = 0 /\ \A n \in 1..N : sum[n] = sum[n - 1] + numbers[n]
  BY <1>1, <1>8
<1>11. \A n \in 0..N : sum[n] = f[n]
  <2> DEFINE Differ == {n \in 0..N : sum[n] # f[n]}
  <2>1. CASE Differ = {}
    BY <2>1
  <2>2. CASE Differ # {}
    <3>1. PICK n \in Differ : \A m \in Differ : n <= m
      <4>1. Differ \subseteq Nat
        BY <1>1
      <4> HIDE DEF Differ
      <4> QED BY <2>2, <4>1, Least
    <3>2. n \in 0..N /\ n # 0
      BY <1>5, <1>10
    <3>3. n \in 1..N /\ n - 1 \in 0..N /\ n - 1 \notin Differ
      BY <1>1, <3>1, <3>2
    <3> QED BY <1>4, <1>10, <3>1, <3>3
  <2> QED BY <2>1, <2>2
<1>12. \A n \in 1..N : n \in 0..N /\ n - 1 \in 0..N
  BY <1>1
<1>13. N \in 0..N
  BY <1>1
<1> HIDE DEF Sums, step
<1>14. Total(numbers) = f[N]
  BY <1>9, <1>11, <1>13
<1> QED BY <1>3, <1>4, <1>5, <1>14 DEF N

(* The sum of the weights of the members of a list counts the units of     *)
(* weight there are, in whatever order the members come.                   *)
Units(S, weight) == UNION {{x} \X (1..weight[x]) : x \in S}

LEMMA UnitsAdded ==
  ASSUME NEW S, NEW x, x \notin S, NEW weight, weight[x] \in Nat, IsFiniteSet(Units(S, weight))
  PROVE  /\ IsFiniteSet(Units(S \cup {x}, weight))
         /\ Cardinality(Units(S \cup {x}, weight)) = Cardinality(Units(S, weight)) + weight[x]
<1> DEFINE own == {x} \X (1..weight[x])
<1>1. Units(S \cup {x}, weight) = Units(S, weight) \cup own
  BY DEF Units
<1>2. Units(S, weight) \cap own = {}
  BY DEF Units
<1>3. IsFiniteSet(own) /\ Cardinality(own) = weight[x]
  <2>1. IsFiniteSet({x}) /\ Cardinality({x}) = 1
    BY FS_Singleton
  <2>2. 1 \in Int /\ weight[x] \in Int
    OBVIOUS
  <2>3. IsFiniteSet(1..weight[x]) /\ Cardinality(1..weight[x]) = IF 1 > weight[x] THEN 0 ELSE weight[x] - 1 + 1
    BY <2>2, FS_Interval
  <2>4. Cardinality(1..weight[x]) = weight[x]
    BY <2>3
  <2>5. IsFiniteSet(own) /\ Cardinality(own) = Cardinality({x}) * Cardinality(1..weight[x])
    BY <2>1, <2>3, FS_Product
  <2> QED BY <2>1, <2>4, <2>5
<1> HIDE DEF own
<1>4. /\ IsFiniteSet(Units(S, weight) \cup own)
      /\ Cardinality(Units(S, weight) \cup own)
           = Cardinality(Units(S, weight)) + Cardinality(own) - Cardinality(Units(S, weight) \cap own)
  BY <1>3, FS_Union
<1>5. Cardinality(Units(S, weight) \cap own) = 0
  BY <1>2, FS_EmptySet
<1>6. Cardinality(Units(S, weight)) \in Nat
  BY FS_CardinalityType
<1>7. Cardinality(Units(S, weight) \cup own) = Cardinality(Units(S, weight)) + weight[x]
  BY <1>3, <1>4, <1>5, <1>6
<1> QED BY <1>1, <1>4, <1>7

Distinct(seq) == \A i, j \in DOMAIN seq : i # j => seq[i] # seq[j]
FirstOf(seq, n) == {seq[i] : i \in 1..n}

LEMMA TotalOfMembers ==
  ASSUME NEW S, NEW seq \in Seq(S), Distinct(seq), NEW weight, \A x \in S : weight[x] \in Nat
  PROVE  /\ IsFiniteSet(Units(ToSet(seq), weight))
         /\ Total([i \in DOMAIN seq |-> weight[seq[i]]]) = Cardinality(Units(ToSet(seq), weight))
<1> DEFINE N == Len(seq)
           weights == [i \in DOMAIN seq |-> weight[seq[i]]]
<1>1. N \in Nat /\ DOMAIN seq = 1..N /\ \A n \in 1..N : seq[n] \in S /\ weight[seq[n]] \in Nat
  OBVIOUS
<1>2. weights \in Seq(Int) /\ Len(weights) = N
  BY <1>1
<1>3. \A n \in 1..N : weights[n] = weight[seq[n]]
  BY <1>1
<1> HIDE DEF weights, N
<1>4. PICK sum : /\ sum \in [0..N -> Int] /\ sum[0] = 0
                 /\ \A n \in 1..N : sum[n] = sum[n - 1] + weights[n]
                 /\ Total(weights) = sum[N]
  BY <1>2, TotalSteps
<1> DEFINE Adds(n) == /\ IsFiniteSet(Units(FirstOf(seq, n), weight))
                      /\ sum[n] = Cardinality(Units(FirstOf(seq, n), weight))
           Wrong == {n \in 0..N : ~Adds(n)}
<1>5. CASE Wrong = {}
  <2>1. N \in 0..N
    BY <1>1
  <2>2. Adds(N)
    BY <1>5, <2>1
  <2>3. FirstOf(seq, N) = ToSet(seq)
    BY <1>1 DEF FirstOf, ToSet
  <2> QED BY <1>4, <2>2, <2>3 DEF weights
<1>6. CASE Wrong # {}
  <2>1. PICK n \in Wrong : \A m \in Wrong : n <= m
    <3>1. Wrong \subseteq Nat
      BY <1>1
    <3> HIDE DEF Wrong
    <3> QED BY <1>6, <3>1, Least
  <2>2. n \in 0..N /\ n \in Int
    BY <1>1
  <2>3. n # 0
    <3>1. Units(FirstOf(seq, 0), weight) = {}
      BY DEF Units, FirstOf
    <3>2. Adds(0)
      BY <1>4, <3>1, FS_EmptySet
    <3> QED BY <3>2
  <2>4. n \in 1..N /\ n - 1 \in 0..N /\ n - 1 \notin Wrong
    BY <1>1, <2>1, <2>2, <2>3
  <2>5. Adds(n - 1)
    BY <2>4
  <2> HIDE DEF Wrong
  <2>6. FirstOf(seq, n) = FirstOf(seq, n - 1) \cup {seq[n]}
    <3>1. \A i \in 1..n : i # n => i \in 1..n - 1
      BY <2>4
    <3>2. n \in 1..n /\ \A i \in 1..n - 1 : i \in 1..n
      BY <2>4
    <3> QED BY <3>1, <3>2 DEF FirstOf
  <2>7. seq[n] \notin FirstOf(seq, n - 1)
    <3>1. \A i \in 1..n - 1 : i \in 1..N /\ i # n
      BY <1>1, <2>4
    <3> QED BY <1>1, <2>4, <3>1 DEF Distinct, FirstOf
  <2>8. weight[seq[n]] \in Nat
    BY <1>1, <2>4
  <2>9. PICK before, x : before = FirstOf(seq, n - 1) /\ x = seq[n]
    OBVIOUS
  <2>10. /\ IsFiniteSet(Units(before \cup {x}, weight))
         /\ Cardinality(Units(before \cup {x}, weight)) = Cardinality(Units(before, weight)) + weight[x]
    BY <2>5, <2>7, <2>8, <2>9, UnitsAdded, ZenonT(60)
  <2>11. sum[n] = sum[n - 1] + weight[x]
    BY <1>3, <1>4, <2>4, <2>9
  <2>12. Adds(n)
    BY <2>5, <2>6, <2>9, <2>10, <2>11
  <2> QED BY <2>1, <2>12 DEF Wrong
<1> QED BY <1>5, <1>6

(* Every member stands at one place.                                      *)
LEMMA AscendingDistinct ==
  ASSUME NEW S \in SUBSET Int, IsFiniteSet(S), NEW key, \A c \in S : key[c] \in Int
  PROVE  Distinct(Ascending(S, key)) /\ ToSet(Ascending(S, key)) = S
<1>1. PICK seq : seq = Ascending(S, key) /\ seq \in Seq(S) /\ Rising(seq, key)
                 /\ \A x \in S : \E k \in DOMAIN seq : seq[k] = x
  <2>1. /\ Ascending(S, key) \in Seq(S) /\ Rising(Ascending(S, key), key)
        /\ \A x \in S : \E k \in DOMAIN Ascending(S, key) : Ascending(S, key)[k] = x
    BY AscendingMembers, ZenonT(60)
  <2> QED BY <2>1
<1>2. PICK n \in Nat : DOMAIN seq = 1..n /\ \A k \in 1..n : seq[k] \in S
  BY <1>1
<1>3. ASSUME NEW i \in 1..n, NEW j \in 1..n, i < j PROVE seq[i] # seq[j]
  <2>1. key[seq[i]] < key[seq[j]] \/ (key[seq[i]] = key[seq[j]] /\ seq[i] < seq[j])
    BY <1>1, <1>2, <1>3 DEF Rising
  <2>2. seq[i] \in Int /\ key[seq[i]] \in Int
    BY <1>2
  <2> QED BY <2>1, <2>2
<1>4. Distinct(seq)
  <2> SUFFICES ASSUME NEW i \in 1..n, NEW j \in 1..n, i # j PROVE seq[i] # seq[j]
    BY <1>2 DEF Distinct
  <2>1. i < j \/ j < i
    OBVIOUS
  <2> QED BY <1>3, <2>1
<1>5. ToSet(seq) = S
  BY <1>1, <1>2 DEF ToSet
<1> QED BY <1>1, <1>4, <1>5

LEMMA TotalIsInteger ==
  ASSUME NEW numbers \in Seq(Int)
  PROVE  Total(numbers) \in Int
<1>1. PICK n \in Nat : n = Len(numbers)
  OBVIOUS
<1>2. PICK sum \in [0..Len(numbers) -> Int] : Total(numbers) = sum[Len(numbers)]
  BY TotalSteps
<1> QED BY <1>1, <1>2

(* One number more.                                                        *)
LEMMA TotalAppended ==
  ASSUME NEW a \in Seq(Int), NEW b \in Seq(Int), Len(b) = Len(a) + 1, \A i \in 1..Len(a) : b[i] = a[i]
  PROVE  Total(a) \in Int /\ Total(b) = Total(a) + b[Len(a) + 1]
<1>1. PICK n \in Nat : n = Len(a) /\ Len(b) = n + 1
  OBVIOUS
<1>2. PICK before \in [0..Len(a) -> Int] :
        /\ before[0] = 0 /\ \A i \in 1..Len(a) : before[i] = before[i - 1] + a[i]
        /\ Total(a) = before[Len(a)]
  BY TotalSteps
<1>3. PICK after \in [0..Len(b) -> Int] :
        /\ after[0] = 0 /\ \A i \in 1..Len(b) : after[i] = after[i - 1] + b[i]
        /\ Total(b) = after[Len(b)]
  BY TotalSteps
<1> DEFINE Differ == {i \in 0..n : before[i] # after[i]}
<1>4. Differ = {}
  <2> SUFFICES ASSUME Differ # {} PROVE FALSE
    OBVIOUS
  <2>1. PICK i \in Differ : \A m \in Differ : i <= m
    <3>1. Differ \subseteq Nat
      BY <1>1
    <3> HIDE DEF Differ
    <3> QED BY <3>1, Least
  <2>2. i \in 0..n /\ before[i] # after[i] /\ i # 0
    BY <1>2, <1>3
  <2>3. i \in 1..n /\ i - 1 \in 0..n /\ ~(i <= i - 1)
    BY <1>1, <2>2
  <2>4. before[i - 1] = after[i - 1]
    BY <2>1, <2>3
  <2>5. before[i] = before[i - 1] + a[i] /\ after[i] = after[i - 1] + b[i] /\ a[i] = b[i]
    <3>1. i \in 1..Len(a) /\ i \in 1..Len(b)
      BY <1>1, <2>3
    <3> QED BY <1>2, <1>3, <3>1
  <2> QED BY <2>2, <2>4, <2>5
<1>5. before[n] = after[n] /\ before[n] \in Int
  <2>1. n \in 0..n
    BY <1>1
  <2> QED BY <1>1, <1>2, <1>4, <2>1
<1>6. after[n + 1] = after[n] + b[n + 1]
  <2>1. PICK m \in 1..Len(b) : m = n + 1 /\ m - 1 = n
    BY <1>1
  <2>2. after[m] = after[m - 1] + b[m]
    BY <1>3
  <2> QED BY <2>1, <2>2
<1> QED BY <1>1, <1>2, <1>3, <1>5, <1>6

-----------------------------------------------------------------------------
(* What is left of a list                                                  *)

LEMMA OnlyLength ==
  ASSUME NEW S, NEW seq \in Seq(S), NEW P \in SUBSET (DOMAIN seq)
  PROVE  /\ Len(Only(seq, P)) = Cardinality(P)
         /\ Len(Only(seq, P)) \in Nat
<1>1. PICK order : order = Ascending(P, [i \in P |-> i])
  OBVIOUS
<1>2. DOMAIN order = 1..Cardinality(P)
  BY <1>1 DEF Ascending, Listed
<1>3. DOMAIN Only(seq, P) = 1..Cardinality(P)
  BY <1>1, <1>2 DEF Only, Picked
<1>4. PICK n \in Nat : DOMAIN seq = 1..n
  OBVIOUS
<1>5. IsFiniteSet(P)
  <2>1. 1 \in Int /\ n \in Int
    OBVIOUS
  <2>2. IsFiniteSet(1..n)
    BY <2>1, FS_Interval
  <2>3. P \in SUBSET (1..n)
    BY <1>4
  <2> QED BY <2>2, <2>3, FS_Subset
<1>6. Cardinality(P) \in Nat
  BY <1>5, FS_CardinalityType
<1>7. Only(seq, P) \in Seq(S)
  BY OnlyMembers
<1>8. Len(Only(seq, P)) \in Nat /\ DOMAIN Only(seq, P) = 1..Len(Only(seq, P))
  BY <1>7, LenProperties
<1> QED BY <1>3, <1>6, <1>8

(* Nothing was taken from a list that is as long as before.                *)
LEMMA OnlyAll ==
  ASSUME NEW S, NEW seq \in Seq(S)
  PROVE  Only(seq, DOMAIN seq) = seq
<1>1. PICK n \in Nat : n = Len(seq) /\ DOMAIN seq = 1..n
  OBVIOUS
<1>2. PICK key, order : key = [i \in 1..n |-> i] /\ order = Ascending(1..n, key)
  OBVIOUS
<1>3. \A i \in 1..n : key[i] = i
  BY <1>2
<1>4. /\ order \in Seq(1..n)
      /\ \A i \in 1..n : \E k \in DOMAIN order : order[k] = i
      /\ Rising(order, key)
  <2>1. PICK P : P = 1..n
    OBVIOUS
  <2>2. P \subseteq 1..n /\ \A i \in P : key[i] \in Int
    BY <1>3, <2>1
  <2>3. /\ Ascending(P, key) \in Seq(1..n)
        /\ Ascending(P, key) \in Seq(P)
        /\ \A i \in P : \E k \in DOMAIN Ascending(P, key) : Ascending(P, key)[k] = i
        /\ Rising(Ascending(P, key), key)
    BY <2>2, PlacesOrdered
  <2> QED BY <1>2, <2>1, <2>3
<1>5. DOMAIN order = 1..n
  <2>1. DOMAIN order = 1..Cardinality(1..n)
    BY <1>2 DEF Ascending, Listed
  <2>2. 1 \in Int /\ n \in Int
    OBVIOUS
  <2>3. Cardinality(1..n) = IF 1 > n THEN 0 ELSE n - 1 + 1
    BY <2>2, FS_Interval
  <2> QED BY <2>1, <2>3
<1>6. \A k \in 1..n : order[k] \in 1..n
  BY <1>4, <1>5
<1>7. \A k, l \in 1..n : k < l => order[k] < order[l]
  <2> SUFFICES ASSUME NEW k \in 1..n, NEW l \in 1..n, k < l PROVE order[k] < order[l]
    OBVIOUS
  <2>1. key[order[k]] < key[order[l]] \/ (key[order[k]] = key[order[l]] /\ order[k] < order[l])
    BY <1>4, <1>5 DEF Rising
  <2> QED BY <1>3, <1>6, <2>1
<1>8. \A i \in 1..n : \E k \in 1..n : order[k] = i
  BY <1>4, <1>5
<1> DEFINE Moved == {k \in 1..n : order[k] # k}
<1>9. Moved = {}
  <2> SUFFICES ASSUME Moved # {} PROVE FALSE
    OBVIOUS
  <2>1. PICK k \in Moved : \A m \in Moved : k <= m
    <3>1. Moved \subseteq Nat
      BY <1>1
    <3> HIDE DEF Moved
    <3> QED BY <3>1, Least
  <2>2. k \in 1..n /\ order[k] # k
    OBVIOUS
  <2>3. \A m \in 1..n : m < k => order[m] = m
    BY <2>1, <2>2
  <2>4. ~(order[k] < k)
    <3> SUFFICES ASSUME order[k] < k PROVE FALSE
      OBVIOUS
    <3>1. order[k] \in 1..n /\ order[order[k]] = order[k]
      BY <1>6, <2>2, <2>3
    <3>2. order[order[k]] < order[k]
      BY <1>7, <2>2, <3>1
    <3> QED BY <3>1, <3>2
  <2>5. PICK l \in 1..n : order[l] = k
    BY <1>8, <2>2
  <2>6. ~(l < k) /\ l # k
    BY <2>2, <2>3, <2>5
  <2>7. order[k] < order[l]
    BY <1>7, <2>2, <2>6
  <2> QED BY <1>6, <2>2, <2>4, <2>5, <2>7
<1>10. \A k \in 1..n : order[k] = k
  BY <1>9
<1>11. Only(seq, 1..n) = [k \in 1..n |-> seq[order[k]]]
  BY <1>2, <1>5 DEF Only, Picked
<1> QED BY <1>1, <1>10, <1>11

LEMMA OnlyWhole ==
  ASSUME NEW S, NEW seq \in Seq(S), NEW P \in SUBSET (DOMAIN seq), Len(Only(seq, P)) = Len(seq)
  PROVE  P = DOMAIN seq /\ Only(seq, P) = seq
<1>1. PICK n \in Nat : n = Len(seq) /\ DOMAIN seq = 1..n
  OBVIOUS
<1>2. IsFiniteSet(1..n) /\ Cardinality(1..n) = n
  <2>1. 1 \in Int /\ n \in Int
    OBVIOUS
  <2>2. IsFiniteSet(1..n) /\ Cardinality(1..n) = IF 1 > n THEN 0 ELSE n - 1 + 1
    BY <2>1, FS_Interval
  <2> QED BY <2>2
<1>3. Cardinality(P) = n
  BY <1>1, OnlyLength
<1>4. P \in SUBSET (1..n)
  BY <1>1
<1>5. P = 1..n
  BY <1>2, <1>3, <1>4, FS_Subset
<1> QED BY <1>1, <1>5, OnlyAll

(* Taking from a list what was left of it makes it no longer.              *)
LEMMA OnlyShorter ==
  ASSUME NEW S, NEW seq \in Seq(S), NEW P \in SUBSET (DOMAIN seq)
  PROVE  Len(Only(seq, P)) <= Len(seq)
<1>1. PICK n \in Nat : n = Len(seq) /\ DOMAIN seq = 1..n
  OBVIOUS
<1>2. IsFiniteSet(1..n) /\ Cardinality(1..n) = n
  <2>1. 1 \in Int /\ n \in Int
    OBVIOUS
  <2>2. IsFiniteSet(1..n) /\ Cardinality(1..n) = IF 1 > n THEN 0 ELSE n - 1 + 1
    BY <2>1, FS_Interval
  <2> QED BY <2>2
<1>3. P \in SUBSET (1..n)
  BY <1>1
<1>4. Cardinality(P) <= n
  BY <1>2, <1>3, FS_Subset
<1> QED BY <1>1, <1>4, OnlyLength

(* Of those with the same key the first is there.                          *)
LEMMA FirstsKeys ==
  ASSUME NEW S, NEW seq \in Seq(S), NEW key
  PROVE  /\ Firsts(seq, key) \in Seq(S)
         /\ ToSet(Firsts(seq, key)) \subseteq ToSet(seq)
         /\ \A i \in DOMAIN seq : \E j \in DOMAIN seq : key[j] = key[i] /\ seq[j] \in ToSet(Firsts(seq, key))
<1> DEFINE P == {i \in DOMAIN seq : \A j \in 1..(i - 1) : key[j] # key[i]}
<1>1. Only(seq, P) \in Seq(S) /\ ToSet(Only(seq, P)) = {seq[i] : i \in P}
  <2>1. P \in SUBSET (DOMAIN seq)
    OBVIOUS
  <2> HIDE DEF P
  <2> QED BY <2>1, OnlyMembers
<1>2. {seq[i] : i \in P} \subseteq ToSet(seq)
  BY DEF ToSet
<1>3. ASSUME NEW i \in DOMAIN seq PROVE \E j \in P : key[j] = key[i]
  <2>1. PICK Same : Same = {j \in DOMAIN seq : key[j] = key[i]}
    OBVIOUS
  <2>2. PICK n \in Nat : DOMAIN seq = 1..n
    OBVIOUS
  <2>3. Same \subseteq Nat /\ Same # {}
    BY <2>1, <2>2
  <2>4. PICK j \in Same : \A m \in Same : j <= m
    BY <2>3, Least
  <2>5. ASSUME NEW m \in 1..(j - 1) PROVE key[m] # key[j]
    <3>1. m \in DOMAIN seq /\ ~(j <= m)
      BY <2>1, <2>2
    <3> QED BY <2>1, <2>4, <3>1
  <2> QED BY <2>1, <2>5
<1>4. Firsts(seq, key) = Only(seq, P)
  BY DEF Firsts
<1> HIDE DEF P
<1>5. \A j \in P : j \in DOMAIN seq
  BY DEF P
<1> QED BY <1>1, <1>2, <1>3, <1>4, <1>5
=============================================================================
