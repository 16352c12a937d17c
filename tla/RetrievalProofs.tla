---------------------------- MODULE RetrievalProofs ----------------------------
(***************************************************************************)
(* Proofs about searches, for all documents, questions, rewritings and     *)
(* rankings, any number of searches and every size of the cache.  First    *)
(* what is proved of the functions of a ranking: its members, which is all *)
(* that matters to who may see them, and the order it puts them in.        *)
(***************************************************************************)
EXTENDS RetrievalProperties, ListProofs

-----------------------------------------------------------------------------
(* Lists                                                                   *)

LEMMA WithoutMembers ==
  ASSUME NEW S, NEW seq \in Seq(S), NEW x
  PROVE  /\ Without(seq, x) \in Seq(S)
         /\ ToSet(Without(seq, x)) = ToSet(seq) \ {x}
<1> DEFINE P == {i \in DOMAIN seq : seq[i] # x}
<1>1. Only(seq, P) \in Seq(S) /\ ToSet(Only(seq, P)) = {seq[i] : i \in P}
  BY OnlyMembers
<1>2. {seq[i] : i \in P} = ToSet(seq) \ {x}
  BY DEF ToSet
<1> QED BY <1>1, <1>2 DEF Without

LEMMA KeepFirstMembers ==
  ASSUME NEW S, NEW seq \in Seq(S), NEW clashes
  PROVE  KeepFirst(seq, clashes) \in Seq(S)
BY OnlyMembers DEF KeepFirst

-----------------------------------------------------------------------------
(* Scores                                                                  *)

Fractions == [n : Nat, d : Nat \ {0}]

(* Fractions are compared like what they stand for.                        *)
LEMMA Multiplied ==
  ASSUME NEW x \in Nat, NEW y \in Nat, NEW k \in Nat, k # 0
  PROVE  x <= y <=> x * k <= y * k
<1>1. ASSUME x <= y PROVE x * k <= y * k
  BY <1>1
<1>2. ASSUME x > y PROVE x * k > y * k
  BY <1>2
<1>3. x * k \in Nat /\ y * k \in Nat
  OBVIOUS
<1> QED BY <1>1, <1>2, <1>3

LEMMA LessChain ==
  ASSUME NEW a \in Fractions, NEW b \in Fractions, NEW c \in Fractions,
         ~Less(b, a), ~Less(c, b)
  PROVE  /\ ~Less(c, a)
         /\ Less(a, b) \/ Less(b, c) => Less(a, c)
<1>1. PICK an \in Nat, ad \in Nat, bn \in Nat, bd \in Nat, cn \in Nat, cd \in Nat :
        /\ an = a.n /\ ad = a.d /\ bn = b.n /\ bd = b.d /\ cn = c.n /\ cd = c.d
        /\ ad # 0 /\ bd # 0 /\ cd # 0
  BY DEF Fractions
<1>2. an * bd \in Nat /\ bn * ad \in Nat /\ bn * cd \in Nat /\ cn * bd \in Nat /\ an * cd \in Nat /\ cn * ad \in Nat
  OBVIOUS
<1>3. an * bd <= bn * ad /\ bn * cd <= cn * bd
  BY <1>1, <1>2 DEF Less
<1>4. (an * bd) * cd <= (bn * ad) * cd /\ (bn * cd) * ad <= (cn * bd) * ad
  BY <1>1, <1>2, <1>3, Multiplied
<1>5. /\ (an * bd) * cd = (an * cd) * bd
      /\ (bn * ad) * cd = (bn * cd) * ad
      /\ (cn * bd) * ad = (cn * ad) * bd
  OBVIOUS
<1>6. (an * cd) * bd <= (cn * ad) * bd
  <2>1. (an * cd) * bd \in Nat /\ (bn * cd) * ad \in Nat /\ (cn * ad) * bd \in Nat
    BY <1>2
  <2> QED BY <1>4, <1>5, <2>1
<1>7. an * cd <= cn * ad
  BY <1>1, <1>2, <1>6, Multiplied
<1>8. ASSUME Less(a, b) \/ Less(b, c) PROVE an * cd < cn * ad
  <2>1. ~(bn * ad <= an * bd) \/ ~(cn * bd <= bn * cd)
    BY <1>1, <1>2, <1>8 DEF Less
  <2>2. ~((bn * ad) * cd <= (an * bd) * cd) \/ ~((cn * bd) * ad <= (bn * cd) * ad)
    BY <1>1, <1>2, <2>1, Multiplied
  <2>3. (an * bd) * cd \in Nat /\ (bn * ad) * cd \in Nat /\ (bn * cd) * ad \in Nat /\ (cn * bd) * ad \in Nat
    BY <1>2
  <2>4. ~((cn * ad) * bd <= (an * cd) * bd)
    BY <1>4, <1>5, <2>2, <2>3
  <2>5. ~(cn * ad <= an * cd)
    BY <1>1, <1>2, <2>4, Multiplied
  <2> QED BY <1>2, <2>5
<1> QED BY <1>1, <1>2, <1>7, <1>8 DEF Less

LEMMA ShareIsFraction ==
  ASSUME NEW S, NEW ranking \in Seq(S), NEW weight \in Nat, NEW c
  PROVE  Share(ranking, weight, c) \in Fractions
<1>1. CASE c \in ToSet(ranking)
  <2>1. PICK i : i = CHOOSE k \in DOMAIN ranking : ranking[k] = c
    OBVIOUS
  <2>2. i \in DOMAIN ranking
    BY <1>1, <2>1 DEF ToSet
  <2>3. RrfK \in Nat /\ RrfK + i \in Nat \ {0}
    BY <2>2, RankingAssumption
  <2>4. Share(ranking, weight, c) = [n |-> weight, d |-> RrfK + i]
    BY <1>1, <2>1 DEF Share
  <2> QED BY <2>3, <2>4 DEF Fractions
<1>2. CASE c \notin ToSet(ranking)
  <2>1. Share(ranking, weight, c) = [n |-> 0, d |-> 1]
    BY <1>2 DEF Share
  <2> QED BY <2>1 DEF Fractions
<1> QED BY <1>1, <1>2

LEMMA ScoreIsFraction ==
  ASSUME NEW S, NEW byVector \in Seq(S), NEW byWords \in Seq(S), NEW c
  PROVE  Score(byVector, byWords, c) \in Fractions
<1>1. VectorWeight \in Nat /\ WordWeight \in Nat
  BY RankingAssumption
<1>2. PICK a \in Fractions, b \in Fractions : Score(byVector, byWords, c) = Plus(a, b)
  BY <1>1, ShareIsFraction DEF Score
<1>3. PICK an \in Nat, ad \in Nat \ {0}, bn \in Nat, bd \in Nat \ {0} :
        an = a.n /\ ad = a.d /\ bn = b.n /\ bd = b.d
  BY DEF Fractions
<1>4. an * bd + bn * ad \in Nat /\ ad * bd \in Nat \ {0}
  OBVIOUS
<1> QED BY <1>2, <1>3, <1>4 DEF Plus, Fractions

(* Those of the first ranking come first, in its order.                    *)
All(byVector, byWords) ==
  byVector \o Only(byWords, {i \in DOMAIN byWords : byWords[i] \notin ToSet(byVector)})
LEMMA AllMembers ==
  ASSUME NEW S, NEW byVector \in Seq(S), NEW byWords \in Seq(S)
  PROVE  /\ All(byVector, byWords) \in Seq(S)
         /\ \A i \in DOMAIN All(byVector, byWords) :
              IF i <= Len(byVector) THEN All(byVector, byWords)[i] = byVector[i]
              ELSE All(byVector, byWords)[i] \notin ToSet(byVector)
<1>1. PICK P, rest : /\ P = {i \in DOMAIN byWords : byWords[i] \notin ToSet(byVector)}
                     /\ rest = Only(byWords, P)
  OBVIOUS
<1>2. rest \in Seq(S) /\ ToSet(rest) = {byWords[i] : i \in P}
  BY <1>1, OnlyMembers
<1>3. PICK m \in Nat, n \in Nat : m = Len(byVector) /\ n = Len(rest) /\ DOMAIN rest = 1..n
  BY <1>2, LenProperties
<1>4. PICK all : all = byVector \o rest /\ all = All(byVector, byWords)
  BY <1>1 DEF All
<1>5. /\ all \in Seq(S) /\ Len(all) = m + n
      /\ \A i \in 1..m + n : all[i] = IF i <= m THEN byVector[i] ELSE rest[i - m]
  <2>1. /\ byVector \o rest \in Seq(S) /\ Len(byVector \o rest) = m + n
        /\ \A i \in 1..m + n : (byVector \o rest)[i] = IF i <= m THEN byVector[i] ELSE rest[i - m]
    BY <1>2, <1>3, ConcatProperties
  <2> QED BY <1>4, <2>1
<1>6. DOMAIN all = 1..m + n
  BY <1>5, LenProperties
<1>7. ASSUME NEW i \in 1..m + n, ~(i <= m) PROVE all[i] \notin ToSet(byVector)
  <2>1. i - m \in 1..n /\ all[i] = rest[i - m]
    BY <1>5, <1>7
  <2>2. all[i] \in ToSet(rest)
    BY <1>3, <2>1 DEF ToSet
  <2> QED BY <1>1, <1>2, <2>2
<1> QED BY <1>3, <1>4, <1>5, <1>6, <1>7

(* What is fused was found by one of both, and who stands before another   *)
(* has a better score, or the same and stood before.                       *)
LEMMA FusedMembers ==
  ASSUME NEW S, NEW byVector \in Seq(S), NEW byWords \in Seq(S)
  PROVE  /\ Fused(byVector, byWords) \in Seq(S)
         /\ \A k, l \in DOMAIN Fused(byVector, byWords) : k < l =>
              \E i, j \in DOMAIN All(byVector, byWords) :
                /\ Fused(byVector, byWords)[k] = All(byVector, byWords)[i]
                /\ Fused(byVector, byWords)[l] = All(byVector, byWords)[j]
                /\ \/ Less(Score(byVector, byWords, All(byVector, byWords)[j]),
                           Score(byVector, byWords, All(byVector, byWords)[i]))
                   \/ i < j
<1>1. PICK all : all = All(byVector, byWords)
  OBVIOUS
<1>2. all \in Seq(S)
  BY <1>1, AllMembers
<1>3. PICK n \in Nat : n = Len(all) /\ DOMAIN all = 1..n
  BY <1>2, LenProperties
<1>4. PICK score : score = [i \in 1..n |-> Score(byVector, byWords, all[i])]
  OBVIOUS
<1>5. PICK upto : upto = [i \in 1..n |->
        {j \in 1..n : Less(score[i], score[j]) \/ (~Less(score[j], score[i]) /\ j <= i)}]
  OBVIOUS
<1>6. Fused(byVector, byWords) = Picked(all, Listed(upto))
  BY <1>1, <1>3, <1>4, <1>5 DEF Fused, All
<1>7. \A i \in 1..n : score[i] \in Fractions
  BY <1>4, ScoreIsFraction
<1>8. \A i, j \in 1..n : j \in upto[i] <=> Less(score[i], score[j]) \/ (~Less(score[j], score[i]) /\ j <= i)
  BY <1>5
<1>9. \A a, b \in Fractions : ~(Less(a, b) /\ Less(b, a))
  <2> SUFFICES ASSUME NEW a \in Fractions, NEW b \in Fractions, Less(a, b), Less(b, a) PROVE FALSE
    OBVIOUS
  <2>1. PICK x \in Nat, y \in Nat : x = a.n * b.d /\ y = b.n * a.d
    BY DEF Fractions
  <2> QED BY <2>1 DEF Less
<1>10. Linear(1..n, upto)
  <2>1. upto \in [1..n -> SUBSET (1..n)]
    BY <1>5
  <2>2. \A i \in 1..n : i \in upto[i]
    <3>1. \A i \in 1..n : ~Less(score[i], score[i])
      BY <1>7, <1>9
    <3> QED BY <1>8, <3>1
  <2>3. ASSUME NEW i \in 1..n, NEW j \in 1..n, i # j,
               Less(score[j], score[i]) \/ (~Less(score[i], score[j]) /\ i <= j)
        PROVE  upto[i] \subseteq upto[j] /\ j \notin upto[i]
    <3>1. ~Less(score[i], score[j])
      BY <1>7, <1>9, <2>3
    <3>2. j \notin upto[i]
      BY <1>8, <2>3, <3>1
    <3>3. ASSUME NEW k \in 1..n, k \in upto[i] PROVE k \in upto[j]
      <4>1. Less(score[i], score[k]) \/ (~Less(score[k], score[i]) /\ k <= i)
        BY <1>8, <3>3
      <4>2. ~Less(score[k], score[i])
        BY <1>7, <1>9, <4>1
      <4>3. CASE Less(score[i], score[k])
        BY <1>7, <1>8, <3>1, <4>2, <4>3, LessChain
      <4>4. CASE Less(score[j], score[i])
        BY <1>7, <1>8, <3>1, <4>2, <4>4, LessChain
      <4>5. CASE k <= i /\ i <= j
        <5>1. ~Less(score[k], score[j])
          BY <1>7, <3>1, <4>2, LessChain
        <5>2. k <= j
          BY <4>5
        <5> QED BY <1>8, <5>1, <5>2
      <4> QED BY <2>3, <4>1, <4>3, <4>4, <4>5
    <3> QED BY <2>1, <3>2, <3>3
  <2>4. ASSUME NEW i \in 1..n, NEW j \in 1..n
        PROVE  \/ i = j
               \/ upto[i] \subseteq upto[j] /\ j \notin upto[i]
               \/ upto[j] \subseteq upto[i] /\ i \notin upto[j]
    <3>1. i <= j \/ j <= i
      OBVIOUS
    <3> QED BY <2>3, <3>1
  <2> QED BY <2>1, <2>2, <2>4 DEF Linear
<1>11. PICK listed : /\ listed = Listed(upto) /\ listed \in Seq(1..n)
                     /\ \A k, l \in DOMAIN listed : k < l => listed[l] \notin upto[listed[k]]
  <2>1. IsFiniteSet(1..n)
    <3>1. 1 \in Int /\ n \in Int
      OBVIOUS
    <3> QED BY <3>1, FS_Interval
  <2> QED BY <1>10, <2>1, ListedMembers
<1>12. Picked(all, listed) \in Seq(S)
  BY <1>2, <1>3, <1>11, PickedMembers
<1>13. DOMAIN Picked(all, listed) = DOMAIN listed /\ \A k \in DOMAIN listed : Picked(all, listed)[k] = all[listed[k]]
  BY DEF Picked
<1>14. ASSUME NEW k \in DOMAIN listed, NEW l \in DOMAIN listed, k < l
       PROVE  \E i, j \in 1..n :
                /\ Picked(all, listed)[k] = all[i] /\ Picked(all, listed)[l] = all[j]
                /\ Less(Score(byVector, byWords, all[j]), Score(byVector, byWords, all[i])) \/ i < j
  <2>0. \A o \in DOMAIN listed : listed[o] \in 1..n
    BY <1>11
  <2>1. PICK i \in 1..n, j \in 1..n : i = listed[k] /\ j = listed[l] /\ j \notin upto[i]
    <3>1. listed[l] \notin upto[listed[k]]
      BY <1>11, <1>14
    <3> QED BY <2>0, <3>1
  <2>2. Less(score[j], score[i]) \/ i < j
    BY <1>8, <2>1
  <2>3. score[i] = Score(byVector, byWords, all[i]) /\ score[j] = Score(byVector, byWords, all[j])
    BY <1>4
  <2> QED BY <1>13, <2>1, <2>2, <2>3
<1>15. PICK fused : fused = Picked(all, listed) /\ fused = Fused(byVector, byWords)
  BY <1>6, <1>11
<1>16. fused \in Seq(S) /\ DOMAIN fused = DOMAIN listed
  BY <1>12, <1>13, <1>15
<1>17. \A k, l \in DOMAIN fused : k < l =>
         \E i, j \in DOMAIN all :
           /\ fused[k] = all[i] /\ fused[l] = all[j]
           /\ Less(Score(byVector, byWords, all[j]), Score(byVector, byWords, all[i])) \/ i < j
  BY <1>3, <1>14, <1>15, <1>16
<1> QED BY <1>1, <1>15, <1>16, <1>17

-----------------------------------------------------------------------------
(* Rankings, hits and quotations have members of what they are made from   *)

LEMMA NearestMembers ==
  ASSUME NEW S \in SUBSET Chunks, NEW distance, \A c \in S : distance[c] \in Int
  PROVE  Nearest(S, distance) \in Seq(S)
<1>1. S \in SUBSET Int /\ IsFiniteSet(S) /\ VectorCandidates \in Nat
  <2>1. Chunks \subseteq Nat /\ IsFiniteSet(Chunks) /\ VectorCandidates \in Nat
    BY RankingAssumption
  <2>2. IsFiniteSet(S)
    BY <2>1, FS_Subset
  <2> QED BY <2>1, <2>2
<1>2. Ascending(S, distance) \in Seq(S)
  BY <1>1, AscendingMembers
<1> QED BY <1>1, <1>2, UptoMembers DEF Nearest

LEMMA MostWordsMembers ==
  ASSUME NEW S \in SUBSET Chunks, NEW words, \A c \in S : words[c] \in Nat
  PROVE  MostWords(S, words) \in Seq(S)
<1>1. PICK T, key : T = {c \in S : words[c] > 0} /\ key = [c \in S |-> -words[c]]
  OBVIOUS
<1>2. MostWords(S, words) = Upto(Ascending(T, key), WordCandidates)
  BY <1>1 DEF MostWords
<1>3. T \in SUBSET Int /\ IsFiniteSet(T) /\ WordCandidates \in Nat
  <2>1. Chunks \subseteq Nat /\ IsFiniteSet(Chunks) /\ WordCandidates \in Nat
    BY RankingAssumption
  <2>2. T \in SUBSET Chunks
    BY <1>1
  <2>3. IsFiniteSet(T)
    BY <2>1, <2>2, FS_Subset
  <2> QED BY <2>1, <2>2, <2>3
<1>4. \A c \in T : key[c] \in Int
  BY <1>1
<1>5. Ascending(T, key) \in Seq(T)
  BY <1>3, <1>4, AscendingMembers
<1>6. Upto(Ascending(T, key), WordCandidates) \in Seq(T)
  BY <1>3, <1>5, UptoMembers
<1>7. T \subseteq S
  BY <1>1
<1> QED BY <1>2, <1>6, <1>7, SeqMonotonic

LEMMA PreferPrimaryMembers ==
  ASSUME NEW S, NEW q, NEW seq \in Seq(S)
  PROVE  PreferPrimary(q, seq) \in Seq(S)
<1>1. PICK key : key = [i \in DOMAIN seq |-> IF Info[seq[i]].low THEN 1 ELSE 0]
  OBVIOUS
<1>2. PICK n \in Nat : n = Len(seq) /\ DOMAIN seq = 1..n
  BY LenProperties
<1>3. \A i \in 1..n : key[i] \in Int
  BY <1>1, <1>2
<1>4. Ascending(1..n, key) \in Seq(DOMAIN seq)
  BY <1>2, <1>3, PlacesOrdered
<1>5. Picked(seq, Ascending(1..n, key)) \in Seq(S)
  BY <1>4, PickedMembers
<1>6. PreferPrimary(q, seq) = IF q \in TemplateQueries THEN seq ELSE Picked(seq, Ascending(1..n, key))
  BY <1>1, <1>2 DEF PreferPrimary
<1> QED BY <1>5, <1>6

(* A hit was found by one of both rankings.                                *)
LEMMA HitsMembers ==
  ASSUME NEW S, NEW q, NEW byVector \in Seq(S), NEW byWords \in Seq(S), NEW distance, NEW alike
  PROVE  HitsOf(q, byVector, byWords, distance, alike) \in Seq(S)
<1>1. PICK a \in Seq(S) : a = Deduplicated(Fused(byVector, byWords), alike)
  BY FusedMembers, KeepFirstMembers DEF Deduplicated
<1>2. PICK b \in Seq(S) : b = NearEnough(a, distance)
  <2>1. NearEnough(a, distance) \in Seq(S)
    <3>1. PICK P : P = {i \in DOMAIN a : a[i] \notin DOMAIN distance \/ distance[a[i]] <= MaxDistance}
      OBVIOUS
    <3>2. P \in SUBSET (DOMAIN a) /\ NearEnough(a, distance) = Only(a, P)
      BY <3>1 DEF NearEnough
    <3> QED BY <3>2, OnlyMembers
  <2> QED BY <2>1
<1>3. PICK c \in Seq(S) : c = PreferPrimary(q, b)
  BY PreferPrimaryMembers
<1>4. SelectTop(q, c) \in Seq(S)
  <2>1. PICK clashes : clashes = {pair \in Chunks \X Chunks : SameSection(pair[1], pair[2])}
    OBVIOUS
  <2>2. KeepFirst(c, clashes) \in Seq(S) /\ TopK \in Nat
    BY KeepFirstMembers, RankingAssumption
  <2>3. SelectTop(q, c) = Upto(IF q \in SectionQueries THEN KeepFirst(c, clashes) ELSE c, TopK)
    BY <2>1 DEF SelectTop
  <2> QED BY <2>2, <2>3, UptoMembers
<1> QED BY <1>1, <1>2, <1>3, <1>4 DEF HitsOf

LEMMA InOrderMembers ==
  ASSUME NEW S \in SUBSET Chunks
  PROVE  InOrder(S) \in Seq(S)
<1>1. PICK key : key = [c \in S |-> Info[c].index]
  OBVIOUS
<1>2. \A c \in S : key[c] \in Int
  BY <1>1, RankingAssumption
<1>3. S \in SUBSET Int /\ IsFiniteSet(S)
  <2>1. Chunks \subseteq Nat /\ IsFiniteSet(Chunks)
    BY RankingAssumption
  <2>2. IsFiniteSet(S)
    BY <2>1, FS_Subset
  <2> QED BY <2>1, <2>2
<1>4. InOrder(S) = Ascending(S, key)
  BY <1>1 DEF InOrder
<1>5. Ascending(S, key) \in Seq(S)
  BY <1>2, <1>3, AscendingMembers
<1> QED BY <1>4, <1>5

LEMMA PackMembers ==
  ASSUME NEW S \in SUBSET Chunks, NEW seed \in Chunks, NEW max
  PROVE  Pack(S, seed, max) \in Seq(S)
<1>1. PICK near : near = [c \in S |->
        IF Info[c].index <= Info[seed].index THEN 2 * (Info[seed].index - Info[c].index)
        ELSE 2 * (Info[c].index - Info[seed].index) + 1]
  OBVIOUS
<1>2. PICK ranked : ranked = Ascending(S, near)
  OBVIOUS
<1>3. PICK P : /\ P \subseteq DOMAIN ranked
               /\ Pack(S, seed, max) = IF SumOf(InOrder(S), 2) <= max THEN InOrder(S)
                                       ELSE InOrder({ranked[n] : n \in P})
  BY <1>1, <1>2 DEF Pack
<1>4. ranked \in Seq(S)
  <2>1. \A c \in S : Info[c].index \in Int /\ Info[seed].index \in Int
    BY RankingAssumption
  <2>2. \A c \in S : near[c] \in Int
    BY <1>1, <2>1
  <2>3. S \in SUBSET Int /\ IsFiniteSet(S)
    <3>1. Chunks \subseteq Nat /\ IsFiniteSet(Chunks)
      BY RankingAssumption
    <3>2. IsFiniteSet(S)
      BY <3>1, FS_Subset
    <3> QED BY <3>1, <3>2
  <2> QED BY <1>2, <2>2, <2>3, AscendingMembers
<1>5. PICK T : T = {ranked[n] : n \in P}
  OBVIOUS
<1>6. T \subseteq S
  BY <1>3, <1>4, <1>5
<1>7. InOrder(S) \in Seq(S) /\ InOrder(T) \in Seq(T)
  BY <1>6, InOrderMembers
<1>8. InOrder(T) \in Seq(S)
  BY <1>6, <1>7, SeqMonotonic
<1> QED BY <1>3, <1>5, <1>7, <1>8

LEMMA JoinWithinMembers ==
  ASSUME NEW S, NEW texts \in Seq(S), NEW max
  PROVE  JoinWithin(texts, max) \in Seq(S)
<1>1. PICK m \in Nat : m = Len(texts)
  BY LenProperties
<1>2. PICK fits : /\ fits \subseteq 1..m
                  /\ JoinWithin(texts, max) = Upto(texts, Max(fits \cup {1}))
  BY <1>1 DEF JoinWithin
<1>3. fits \cup {1} \subseteq 1..m + 1 /\ fits \cup {1} # {}
  BY <1>2
<1>4. Max(fits \cup {1}) \in fits \cup {1}
  <2>1. m + 1 \in Nat
    OBVIOUS
  <2> QED BY <1>3, <2>1, Greatest
<1>5. Max(fits \cup {1}) \in Nat
  BY <1>3, <1>4
<1> QED BY <1>2, <1>5, UptoMembers

-----------------------------------------------------------------------------
(* Rankings, hits and quotations keep the order of what they are made from *)

(* Nobody stands before one that it is worse than.                         *)
Orderly(seq, worse) == \A i, j \in DOMAIN seq : i < j => <<seq[i], seq[j]>> \notin worse

(* Whoever ranks c ranks d before it.                                      *)
Precedes(seq, d, c) ==
  \A i \in DOMAIN seq : seq[i] = c => d \in ToSet(seq) /\ \A j \in DOMAIN seq : seq[j] = d => j < i

LEMMA PickedOrder ==
  ASSUME NEW seq, NEW order, NEW worse, Orderly(seq, worse),
         \A k \in DOMAIN order : order[k] \in DOMAIN seq,
         \A k, l \in DOMAIN order : k < l => order[k] < order[l]
  PROVE  Orderly(Picked(seq, order), worse)
<1>1. DOMAIN Picked(seq, order) = DOMAIN order /\ \A k \in DOMAIN order : Picked(seq, order)[k] = seq[order[k]]
  BY DEF Picked
<1> QED BY <1>1 DEF Orderly

LEMMA OnlyOrder ==
  ASSUME NEW S, NEW seq \in Seq(S), NEW P \in SUBSET (DOMAIN seq), NEW worse, Orderly(seq, worse)
  PROVE  Orderly(Only(seq, P), worse)
<1>1. PICK key, order : key = [i \in P |-> i] /\ order = Ascending(P, key)
  OBVIOUS
<1>2. PICK n \in Nat : n = Len(seq) /\ DOMAIN seq = 1..n
  BY LenProperties
<1>3. P \subseteq 1..n /\ \A i \in P : key[i] \in Int
  BY <1>1, <1>2
<1>4. order \in Seq(P) /\ Rising(order, key)
  BY <1>1, <1>3, PlacesOrdered
<1>5. \A k \in DOMAIN order : order[k] \in P /\ order[k] \in 1..n /\ key[order[k]] = order[k]
  BY <1>1, <1>3, <1>4
<1>6. \A k, l \in DOMAIN order : k < l => order[k] < order[l]
  BY <1>4, <1>5 DEF Rising
<1>7. Only(seq, P) = Picked(seq, order)
  BY <1>1 DEF Only
<1> QED BY <1>2, <1>5, <1>6, <1>7, PickedOrder

LEMMA UptoOrder ==
  ASSUME NEW S, NEW seq \in Seq(S), NEW n \in Nat
  PROVE  /\ DOMAIN Upto(seq, n) \subseteq DOMAIN seq
         /\ \A i \in DOMAIN Upto(seq, n) : Upto(seq, n)[i] = seq[i]
         /\ \A i \in DOMAIN Upto(seq, n), j \in DOMAIN seq : j < i => j \in DOMAIN Upto(seq, n)
<1>1. PICK m \in Nat : m = Len(seq) /\ DOMAIN seq = 1..m
  BY LenProperties
<1>2. Min({n, m}) \in {n, m} /\ Min({n, m}) <= m
  BY <1>1 DEF Min
<1>3. PICK k \in 0..m : k = Min({n, m})
  BY <1>1, <1>2
<1>4. Upto(seq, n) = SubSeq(seq, 1, k)
  BY <1>1, <1>3 DEF Upto
<1>5. DOMAIN SubSeq(seq, 1, k) = 1..k /\ \A i \in 1..k : SubSeq(seq, 1, k)[i] = seq[i]
  <2>1. 1 \in Int /\ k \in Int /\ \A i \in 1..k : seq[i] \in S
    BY <1>1
  <2>2. /\ SubSeq(seq, 1, k) \in Seq(S) /\ Len(SubSeq(seq, 1, k)) = IF 1 <= k THEN k - 1 + 1 ELSE 0
        /\ \A i \in 1..k - 1 + 1 : SubSeq(seq, 1, k)[i] = seq[1 + i - 1]
    BY <2>1, SubSeqProperties
  <2>3. Len(SubSeq(seq, 1, k)) = k /\ \A i \in 1..k : i \in 1..k - 1 + 1 /\ 1 + i - 1 = i
    BY <2>2
  <2>4. DOMAIN SubSeq(seq, 1, k) = 1..Len(SubSeq(seq, 1, k))
    BY <2>2, LenProperties
  <2> QED BY <2>2, <2>3, <2>4
<1> QED BY <1>1, <1>4, <1>5

LEMMA UptoIsOrderly ==
  ASSUME NEW S, NEW seq \in Seq(S), NEW n \in Nat, NEW worse, Orderly(seq, worse)
  PROVE  Orderly(Upto(seq, n), worse)
BY UptoOrder DEF Orderly

LEMMA TailIsOrderly ==
  ASSUME NEW S, NEW seq \in Seq(S), seq # <<>>, NEW worse, Orderly(seq, worse)
  PROVE  Orderly(Tail(seq), worse)
<1>1. PICK n \in Nat : n = Len(seq) /\ DOMAIN seq = 1..n
  BY LenProperties
<1>2. /\ Tail(seq) \in Seq(S) /\ Len(Tail(seq)) = n - 1
      /\ \A i \in 1..Len(Tail(seq)) : Tail(seq)[i] = seq[i + 1]
  BY <1>1, HeadTailProperties
<1>3. DOMAIN Tail(seq) = 1..n - 1
  BY <1>2, LenProperties
<1>4. \A i \in 1..n - 1 : i + 1 \in 1..n /\ Tail(seq)[i] = seq[i + 1]
  BY <1>2
<1> QED BY <1>1, <1>3, <1>4 DEF Orderly

(* A ranking gives no less to whom it ranks before.                        *)
LEMMA ShareOrder ==
  ASSUME NEW S, NEW ranking \in Seq(S), NEW weight \in Nat, NEW c, NEW d, Precedes(ranking, d, c)
  PROVE  ~Less(Share(ranking, weight, d), Share(ranking, weight, c))
<1>1. Share(ranking, weight, d) \in Fractions
  BY ShareIsFraction
<1>2. CASE c \notin ToSet(ranking)
  <2>1. Share(ranking, weight, c) = [n |-> 0, d |-> 1]
    BY <1>2 DEF Share
  <2>2. PICK x \in Nat, y \in Nat : x = Share(ranking, weight, d).n /\ y = Share(ranking, weight, d).d
    BY <1>1 DEF Fractions
  <2>3. ~(x * 1 < 0 * y)
    OBVIOUS
  <2> QED BY <2>1, <2>2, <2>3 DEF Less
<1>3. CASE c \in ToSet(ranking)
  <2>1. PICK i : i = CHOOSE k \in DOMAIN ranking : ranking[k] = c
    OBVIOUS
  <2>2. PICK j : j = CHOOSE k \in DOMAIN ranking : ranking[k] = d
    OBVIOUS
  <2>3. i \in DOMAIN ranking /\ ranking[i] = c
    BY <1>3, <2>1 DEF ToSet
  <2>4. d \in ToSet(ranking)
    BY <2>3 DEF Precedes
  <2>5. j \in DOMAIN ranking /\ ranking[j] = d
    BY <2>2, <2>4 DEF ToSet
  <2>6. j < i /\ i \in Nat /\ j \in Nat
    BY <2>3, <2>5 DEF Precedes
  <2>7. PICK x \in Nat, y \in Nat : x = RrfK + i /\ y = RrfK + j /\ y <= x
    BY <2>6, RankingAssumption
  <2>8. /\ Share(ranking, weight, c) = [n |-> weight, d |-> x]
        /\ Share(ranking, weight, d) = [n |-> weight, d |-> y]
    BY <1>3, <2>1, <2>2, <2>4, <2>7 DEF Share
  <2>9. ~(weight * x < weight * y)
    <3>1. y * weight <= x * weight
      BY <2>7
    <3>2. x * weight = weight * x /\ y * weight = weight * y /\ x * weight \in Nat /\ y * weight \in Nat
      OBVIOUS
    <3> QED BY <3>1, <3>2
  <2> QED BY <2>8, <2>9 DEF Less
<1> QED BY <1>2, <1>3

LEMMA PlusOrder ==
  ASSUME NEW a \in Fractions, NEW b \in Fractions, NEW c \in Fractions, NEW e \in Fractions,
         ~Less(a, b), ~Less(c, e)
  PROVE  ~Less(Plus(a, c), Plus(b, e))
<1>1. PICK an \in Nat, ad \in Nat, bn \in Nat, bd \in Nat, cn \in Nat, cd \in Nat, en \in Nat, ed \in Nat :
        /\ an = a.n /\ ad = a.d /\ bn = b.n /\ bd = b.d
        /\ cn = c.n /\ cd = c.d /\ en = e.n /\ ed = e.d
  BY DEF Fractions
<1>2. PICK p \in Nat, q \in Nat, r \in Nat, s \in Nat :
        p = bn * ad /\ q = an * bd /\ r = en * cd /\ s = cn * ed
  OBVIOUS
<1>3. p <= q /\ r <= s
  BY <1>1, <1>2 DEF Less
<1>4. PICK x \in Nat, y \in Nat : x = cd * ed /\ y = ad * bd
  OBVIOUS
<1>5. p * x + r * y <= q * x + s * y
  <2>1. p * x <= q * x
    BY <1>3
  <2>2. r * y <= s * y
    BY <1>3
  <2>3. p * x \in Nat /\ q * x \in Nat /\ r * y \in Nat /\ s * y \in Nat
    OBVIOUS
  <2> QED BY <2>1, <2>2, <2>3
<1>6. (an * cd + cn * ad) * (bd * ed) = q * x + s * y
  BY <1>2, <1>4
<1>7. (bn * ed + en * bd) * (ad * cd) = p * x + r * y
  BY <1>2, <1>4
<1>8. ~((an * cd + cn * ad) * (bd * ed) < (bn * ed + en * bd) * (ad * cd))
  <2>1. q * x + s * y \in Nat /\ p * x + r * y \in Nat
    OBVIOUS
  <2> QED BY <1>5, <1>6, <1>7, <2>1
<1>9. /\ Plus(a, c) = [n |-> an * cd + cn * ad, d |-> ad * cd]
      /\ Plus(b, e) = [n |-> bn * ed + en * bd, d |-> bd * ed]
  BY <1>1 DEF Plus
<1> QED BY <1>8, <1>9 DEF Less

(* If both rankings have one before another, and it was found by vector,   *)
(* so has the fusion.                                                      *)
LEMMA FusedIsOrderly ==
  ASSUME NEW S, NEW byVector \in Seq(S), NEW byWords \in Seq(S), NEW worse,
         \A pair \in worse : /\ pair[2] \in ToSet(byVector)
                             /\ Precedes(byVector, pair[2], pair[1]) /\ Precedes(byWords, pair[2], pair[1])
  PROVE  Orderly(Fused(byVector, byWords), worse)
<1>1. PICK fused, all : fused = Fused(byVector, byWords) /\ all = All(byVector, byWords)
  OBVIOUS
<1> SUFFICES ASSUME NEW k \in DOMAIN fused, NEW l \in DOMAIN fused, k < l, <<fused[k], fused[l]>> \in worse
             PROVE  FALSE
  BY <1>1 DEF Orderly
<1>2. PICK i, j : /\ i \in DOMAIN all /\ j \in DOMAIN all /\ fused[k] = all[i] /\ fused[l] = all[j]
                  /\ Less(Score(byVector, byWords, all[j]), Score(byVector, byWords, all[i])) \/ i < j
  <2>1. \A o, p \in DOMAIN Fused(byVector, byWords) : o < p =>
          \E i, j \in DOMAIN All(byVector, byWords) :
            /\ Fused(byVector, byWords)[o] = All(byVector, byWords)[i]
            /\ Fused(byVector, byWords)[p] = All(byVector, byWords)[j]
            /\ \/ Less(Score(byVector, byWords, All(byVector, byWords)[j]),
                       Score(byVector, byWords, All(byVector, byWords)[i]))
               \/ i < j
    BY FusedMembers
  <2>2. \A o, p \in DOMAIN fused : o < p =>
          \E i, j \in DOMAIN all :
            /\ fused[o] = all[i] /\ fused[p] = all[j]
            /\ Less(Score(byVector, byWords, all[j]), Score(byVector, byWords, all[i])) \/ i < j
    BY <1>1, <2>1
  <2> QED BY <2>2
<1>3. PICK c, d : c = all[i] /\ d = all[j]
  OBVIOUS
<1>4. d \in ToSet(byVector) /\ Precedes(byVector, d, c) /\ Precedes(byWords, d, c)
  BY <1>2, <1>3
<1>5. ~Less(Score(byVector, byWords, d), Score(byVector, byWords, c))
  <2>1. VectorWeight \in Nat /\ WordWeight \in Nat
    BY RankingAssumption
  <2>2. /\ ~Less(Share(byVector, VectorWeight, d), Share(byVector, VectorWeight, c))
        /\ ~Less(Share(byWords, WordWeight, d), Share(byWords, WordWeight, c))
    BY <1>4, <2>1, ShareOrder
  <2>3. /\ Share(byVector, VectorWeight, d) \in Fractions /\ Share(byVector, VectorWeight, c) \in Fractions
        /\ Share(byWords, WordWeight, d) \in Fractions /\ Share(byWords, WordWeight, c) \in Fractions
    BY <2>1, ShareIsFraction
  <2> QED BY <2>2, <2>3, PlusOrder DEF Score
<1>6. i < j
  BY <1>2, <1>3, <1>5
<1>7. /\ all \in Seq(S)
      /\ \A o \in DOMAIN all : IF o <= Len(byVector) THEN all[o] = byVector[o] ELSE all[o] \notin ToSet(byVector)
  BY <1>1, AllMembers
<1>8. PICK m \in Nat : m = Len(byVector) /\ DOMAIN byVector = 1..m
  BY LenProperties
<1>9. i \in Nat \ {0} /\ j \in Nat \ {0} /\ j <= m
  BY <1>2, <1>3, <1>4, <1>7, <1>8
<1>10. i \in 1..m /\ j \in 1..m
  BY <1>6, <1>8, <1>9
<1>11. byVector[i] = c /\ byVector[j] = d
  BY <1>2, <1>3, <1>7, <1>8, <1>10
<1>12. j < i
  BY <1>4, <1>8, <1>10, <1>11 DEF Precedes
<1> QED BY <1>6, <1>10, <1>12

LEMMA PreferPrimaryIsOrderly ==
  ASSUME NEW S, NEW q, NEW seq \in Seq(S), NEW worse, Orderly(seq, worse),
         \A pair \in worse : Info[pair[1]].low = Info[pair[2]].low
  PROVE  Orderly(PreferPrimary(q, seq), worse)
<1>1. PICK key : key = [i \in DOMAIN seq |-> IF Info[seq[i]].low THEN 1 ELSE 0]
  OBVIOUS
<1>2. PICK n \in Nat : n = Len(seq) /\ DOMAIN seq = 1..n
  BY LenProperties
<1>3. \A i \in 1..n : key[i] \in Int
  BY <1>1, <1>2
<1>4. PICK order : order = Ascending(1..n, key) /\ order \in Seq(1..n) /\ Rising(order, key)
  BY <1>3, PlacesOrdered
<1>5. PreferPrimary(q, seq) = IF q \in TemplateQueries THEN seq ELSE Picked(seq, order)
  BY <1>1, <1>2, <1>4 DEF PreferPrimary
<1>6. DOMAIN Picked(seq, order) = DOMAIN order /\ \A k \in DOMAIN order : Picked(seq, order)[k] = seq[order[k]]
  BY DEF Picked
<1>7. ASSUME NEW k \in DOMAIN order, NEW l \in DOMAIN order, k < l, <<seq[order[k]], seq[order[l]]>> \in worse
      PROVE  FALSE
  <2>1. PICK i \in 1..n, j \in 1..n : i = order[k] /\ j = order[l]
    BY <1>4
  <2>2. key[i] = key[j]
    <3>1. Info[seq[i]].low = Info[seq[j]].low
      <4>1. PICK pair \in worse : pair = <<seq[i], seq[j]>>
        BY <1>7, <2>1
      <4>2. pair[1] = seq[i] /\ pair[2] = seq[j]
        BY <4>1
      <4>3. Info[pair[1]].low = Info[pair[2]].low
        BY <4>1
      <4> QED BY <4>2, <4>3
    <3> QED BY <1>1, <1>2, <3>1
  <2>3. key[i] < key[j] \/ (key[i] = key[j] /\ i < j)
    BY <1>4, <1>7, <2>1 DEF Rising
  <2>4. i < j
    BY <1>3, <2>2, <2>3
  <2> QED BY <1>2, <1>7, <2>1, <2>4 DEF Orderly
<1>8. Orderly(Picked(seq, order), worse)
  BY <1>6, <1>7 DEF Orderly
<1> QED BY <1>5, <1>8

(* Filtering, preferring and cutting take nobody past another of its kind. *)
LEMMA HitsAreOrderly ==
  ASSUME NEW S, NEW q, NEW byVector \in Seq(S), NEW byWords \in Seq(S), NEW distance, NEW alike, NEW worse,
         \A pair \in worse : /\ pair[2] \in ToSet(byVector) /\ Info[pair[1]].low = Info[pair[2]].low
                             /\ Precedes(byVector, pair[2], pair[1]) /\ Precedes(byWords, pair[2], pair[1])
  PROVE  Orderly(HitsOf(q, byVector, byWords, distance, alike), worse)
<1>1. ASSUME NEW seq \in Seq(S), Orderly(seq, worse), NEW clashes
      PROVE  KeepFirst(seq, clashes) \in Seq(S) /\ Orderly(KeepFirst(seq, clashes), worse)
  BY <1>1, OnlyMembers, OnlyOrder DEF KeepFirst
<1>2. PICK a \in Seq(S) : a = Deduplicated(Fused(byVector, byWords), alike) /\ Orderly(a, worse)
  <2>1. Fused(byVector, byWords) \in Seq(S) /\ Orderly(Fused(byVector, byWords), worse)
    BY FusedMembers, FusedIsOrderly
  <2> QED BY <1>1, <2>1 DEF Deduplicated
<1>3. PICK b \in Seq(S) : b = NearEnough(a, distance) /\ Orderly(b, worse)
  <2>1. PICK P : P = {i \in DOMAIN a : a[i] \notin DOMAIN distance \/ distance[a[i]] <= MaxDistance}
    OBVIOUS
  <2>2. P \in SUBSET (DOMAIN a) /\ NearEnough(a, distance) = Only(a, P)
    BY <2>1 DEF NearEnough
  <2> QED BY <1>2, <2>2, OnlyMembers, OnlyOrder
<1>4. PICK c \in Seq(S) : c = PreferPrimary(q, b) /\ Orderly(c, worse)
  BY <1>3, PreferPrimaryMembers, PreferPrimaryIsOrderly
<1>5. Orderly(SelectTop(q, c), worse)
  <2>1. PICK clashes : clashes = {pair \in Chunks \X Chunks : SameSection(pair[1], pair[2])}
    OBVIOUS
  <2>2. PICK e \in Seq(S) : e = (IF q \in SectionQueries THEN KeepFirst(c, clashes) ELSE c) /\ Orderly(e, worse)
    BY <1>1, <1>4
  <2>3. SelectTop(q, c) = Upto(e, TopK) /\ TopK \in Nat
    BY <2>1, <2>2, RankingAssumption DEF SelectTop
  <2> QED BY <2>2, <2>3, UptoIsOrderly
<1> QED BY <1>2, <1>3, <1>4, <1>5 DEF HitsOf

-----------------------------------------------------------------------------
(* What is packed from a section                                           *)

LEMMA ChunkTyped ==
  ASSUME NEW c \in Chunks
  PROVE  Info[c].size \in Nat /\ Info[c].size > 0 /\ Info[c].index \in Int
BY RankingAssumption

(* What texts take of a limit, each with what separates it from the next.  *)
Takes(each) == [c \in Chunks |-> Info[c].size + each]

LEMMA SumIsInteger ==
  ASSUME NEW texts \in Seq(Chunks), NEW each \in Nat
  PROVE  SumOf(texts, each) \in Int
<1>1. PICK numbers : numbers = [i \in DOMAIN texts |-> Info[texts[i]].size + each]
  OBVIOUS
<1>2. numbers \in Seq(Int)
  <2>1. PICK n \in Nat : DOMAIN texts = 1..n /\ \A i \in 1..n : texts[i] \in Chunks
    OBVIOUS
  <2>2. \A i \in 1..n : Info[texts[i]].size + each \in Int
    BY <2>1, ChunkTyped
  <2> QED BY <1>1, <2>1, <2>2
<1>3. Total(numbers) \in Int
  <2>1. PICK n \in Nat : n = Len(numbers)
    BY <1>2
  <2>2. PICK sum \in [0..Len(numbers) -> Int] : Total(numbers) = sum[Len(numbers)]
    BY <1>2, TotalSteps
  <2> QED BY <2>1, <2>2
<1> QED BY <1>1, <1>3 DEF SumOf

LEMMA SumCounts ==
  ASSUME NEW texts \in Seq(Chunks), Distinct(texts), NEW each \in Nat
  PROVE  /\ IsFiniteSet(Units(ToSet(texts), Takes(each)))
         /\ SumOf(texts, each) = Cardinality(Units(ToSet(texts), Takes(each)))
<1>1. PICK weight : weight = Takes(each)
  OBVIOUS
<1>2. \A c \in Chunks : weight[c] \in Nat /\ weight[c] = Info[c].size + each
  <2>1. \A c \in Chunks : Info[c].size \in Nat
    BY ChunkTyped
  <2> QED BY <1>1, <2>1 DEF Takes
<1>3. /\ IsFiniteSet(Units(ToSet(texts), weight))
      /\ Total([i \in DOMAIN texts |-> weight[texts[i]]]) = Cardinality(Units(ToSet(texts), weight))
  BY <1>2, TotalOfMembers
<1>4. \A i \in DOMAIN texts : texts[i] \in Chunks
  OBVIOUS
<1>5. [i \in DOMAIN texts |-> weight[texts[i]]] = [i \in DOMAIN texts |-> Info[texts[i]].size + each]
  BY <1>2, <1>4
<1> QED BY <1>1, <1>3, <1>5 DEF SumOf

LEMMA InOrderCounts ==
  ASSUME NEW S \in SUBSET Chunks, NEW each \in Nat
  PROVE  /\ ToSet(InOrder(S)) = S
         /\ IsFiniteSet(Units(S, Takes(each)))
         /\ SumOf(InOrder(S), each) = Cardinality(Units(S, Takes(each)))
<1>1. PICK key : key = [c \in S |-> Info[c].index]
  OBVIOUS
<1>2. \A c \in S : key[c] \in Int
  BY <1>1, ChunkTyped
<1>3. S \in SUBSET Int /\ IsFiniteSet(S)
  <2>1. Chunks \subseteq Nat /\ IsFiniteSet(Chunks)
    BY RankingAssumption
  <2>2. IsFiniteSet(S)
    BY <2>1, FS_Subset
  <2> QED BY <2>1, <2>2
<1>4. InOrder(S) = Ascending(S, key)
  BY <1>1 DEF InOrder
<1>5. Distinct(Ascending(S, key)) /\ ToSet(Ascending(S, key)) = S
  BY <1>2, <1>3, AscendingDistinct
<1>6. InOrder(S) \in Seq(Chunks)
  BY InOrderMembers, SeqMonotonic
<1>7. /\ IsFiniteSet(Units(ToSet(InOrder(S)), Takes(each)))
      /\ SumOf(InOrder(S), each) = Cardinality(Units(ToSet(InOrder(S)), Takes(each)))
  BY <1>4, <1>5, <1>6, SumCounts
<1> QED BY <1>4, <1>5, <1>7
(* What is used after one more text: as before if that does not fit.      *)
Grown(v, size, max) ==
  IF v > 0 /\ (v >= max \/ v + size + (IF v = 0 THEN 0 ELSE 2) > max) THEN v
  ELSE v + size + (IF v = 0 THEN 0 ELSE 2)
(* How far a text is from the hit; before it is nearer than after it.      *)
Nearness(S, seed) ==
  [c \in S |->
    IF Info[c].index <= Info[seed].index THEN 2 * (Info[seed].index - Info[c].index)
    ELSE 2 * (Info[c].index - Info[seed].index) + 1]
Ranked(S, seed) == Ascending(S, Nearness(S, seed))

(* The recursive function of Pack has the values its equation says.        *)
LEMMA PackSteps ==
  ASSUME NEW S \in SUBSET Chunks, NEW seed \in Chunks, NEW max \in Int,
         Ranked(S, seed) \in Seq(S), SumOf(InOrder(S), 2) > max
  PROVE  \E used \in [0..Len(Ranked(S, seed)) -> Int] :
           /\ used[0] = 0
           /\ \A n \in 1..Len(Ranked(S, seed)) :
                used[n] = Grown(used[n - 1], Info[Ranked(S, seed)[n]].size, max)
           /\ Pack(S, seed, max)
                = InOrder({Ranked(S, seed)[n] : n \in {m \in DOMAIN Ranked(S, seed) : used[m] > used[m - 1]}})
<1> DEFINE ranked == Ranked(S, seed)
           N == Len(ranked)
           step == [n \in 1..N |-> [v \in Int |-> Grown(v, Info[ranked[n]].size, max)]]
           Packs(used) ==
             used = [n \in 0..N |->
               IF n = 0 THEN 0
               ELSE LET more == used[n - 1] + Info[ranked[n]].size + (IF used[n - 1] = 0 THEN 0 ELSE 2)
                    IN  IF used[n - 1] > 0 /\ (used[n - 1] >= max \/ more > max) THEN used[n - 1] ELSE more]
<1>1. N \in Nat /\ DOMAIN ranked = 1..N /\ \A n \in 1..N : ranked[n] \in Chunks
  OBVIOUS
<1> HIDE DEF N, ranked
<1>2. \A n \in 1..N : Info[ranked[n]].size \in Nat
  BY <1>1, ChunkTyped
<1>3. step \in [1..N -> [Int -> Int]]
  <2>1. \A n \in 1..N, v \in Int : Grown(v, Info[ranked[n]].size, max) \in Int
    <3>1. \A v \in Int, size \in Nat : Grown(v, size, max) \in Int
      BY DEF Grown
    <3> QED BY <1>2, <3>1
  <2> QED BY <2>1
<1>4. PICK f \in [0..N -> Int] : Runs(f, 0, step, N)
  <2>1. 0 \in Int
    OBVIOUS
  <2> HIDE DEF step
  <2> QED BY <1>1, <1>3, <2>1, Recursion
<1>5. \A n \in 1..N : f[n] = Grown(f[n - 1], Info[ranked[n]].size, max)
  <2> SUFFICES ASSUME NEW n \in 1..N PROVE f[n] = Grown(f[n - 1], Info[ranked[n]].size, max)
    OBVIOUS
  <2>1. f[n] = step[n][f[n - 1]]
    BY <1>4 DEF Runs
  <2>2. f[n - 1] \in Int
    BY <1>1, <1>4
  <2> QED BY <2>1, <2>2
<1>6. f[0] = 0
  BY <1>4 DEF Runs
<1> HIDE DEF step
<1>7. Packs(f)
  <2>1. \A n \in 0..N : n # 0 => n \in 1..N
    BY <1>1
  <2>2. \A n \in 0..N : f[n] =
          IF n = 0 THEN 0
          ELSE LET more == f[n - 1] + Info[ranked[n]].size + (IF f[n - 1] = 0 THEN 0 ELSE 2)
               IN  IF f[n - 1] > 0 /\ (f[n - 1] >= max \/ more > max) THEN f[n - 1] ELSE more
    BY <1>5, <1>6, <2>1 DEF Grown
  <2> QED BY <1>4, <2>2
<1>8. PICK used : used = (CHOOSE g : Packs(g))
  OBVIOUS
<1>9. Packs(used)
  BY <1>7, <1>8
<1>10. Pack(S, seed, max) = InOrder({ranked[n] : n \in {m \in DOMAIN ranked : used[m] > used[m - 1]}})
  <2>1. ~(SumOf(InOrder(S), 2) <= max)
    <3>1. SumOf(InOrder(S), 2) \in Int
      BY InOrderMembers, SeqMonotonic, SumIsInteger
    <3> QED BY <3>1
  <2> QED BY <1>8, <2>1 DEF Pack, N, ranked, Ranked, Nearness
<1>11. used[0] = 0 /\ \A n \in 1..N : used[n] = Grown(used[n - 1], Info[ranked[n]].size, max)
  BY <1>1, <1>9 DEF Grown
<1>12. \A n \in 0..N : used[n] = f[n]
  <2> DEFINE Differ == {n \in 0..N : used[n] # f[n]}
  <2>1. CASE Differ = {}
    BY <2>1
  <2>2. CASE Differ # {}
    <3>1. PICK n \in Differ : \A m \in Differ : n <= m
      <4>1. Differ \subseteq Nat
        BY <1>1
      <4> HIDE DEF Differ
      <4> QED BY <2>2, <4>1, Least
    <3>2. n \in 0..N /\ n # 0
      BY <1>6, <1>11
    <3>3. n \in 1..N /\ n - 1 \in 0..N /\ n - 1 \notin Differ
      BY <1>1, <3>1, <3>2
    <3> QED BY <1>5, <1>11, <3>1, <3>3
  <2> QED BY <2>1, <2>2
<1>13. used \in [0..N -> Int]
  <2>1. DOMAIN used = 0..N /\ used = [n \in 0..N |-> used[n]]
    BY <1>9
  <2>2. \A n \in 0..N : used[n] \in Int
    BY <1>4, <1>12
  <2> HIDE DEF Packs
  <2> QED BY <2>1, <2>2
<1> QED BY <1>10, <1>11, <1>13 DEF N, ranked

(* The place of the hit comes first.                                       *)
LEMMA RankedMembers ==
  ASSUME NEW S \in SUBSET Chunks, NEW seed \in Chunks
  PROVE  /\ Ranked(S, seed) \in Seq(S) /\ Distinct(Ranked(S, seed)) /\ ToSet(Ranked(S, seed)) = S
         /\ seed \in S => Info[Ranked(S, seed)[1]].index = Info[seed].index
<1>1. PICK near : near = Nearness(S, seed)
  OBVIOUS
<1>2. \A c \in S : /\ near[c] \in Int /\ near[c] >= 0
                   /\ near[c] = 0 <=> Info[c].index = Info[seed].index
  <2> SUFFICES ASSUME NEW c \in S
               PROVE  near[c] \in Int /\ near[c] >= 0 /\ (near[c] = 0 <=> Info[c].index = Info[seed].index)
    OBVIOUS
  <2>1. PICK i \in Int, j \in Int : i = Info[c].index /\ j = Info[seed].index
    BY ChunkTyped
  <2>2. near[c] = IF i <= j THEN 2 * (j - i) ELSE 2 * (i - j) + 1
    BY <1>1, <2>1 DEF Nearness
  <2> QED BY <2>1, <2>2
<1>3. S \in SUBSET Int /\ IsFiniteSet(S)
  <2>1. Chunks \subseteq Nat /\ IsFiniteSet(Chunks)
    BY RankingAssumption
  <2>2. IsFiniteSet(S)
    BY <2>1, FS_Subset
  <2> QED BY <2>1, <2>2
<1>4. PICK ranked : ranked = Ascending(S, near) /\ ranked = Ranked(S, seed)
  BY <1>1 DEF Ranked
<1>5. ranked \in Seq(S) /\ Rising(ranked, near)
  BY <1>2, <1>3, <1>4, AscendingMembers
<1>6. Distinct(ranked) /\ ToSet(ranked) = S
  BY <1>2, <1>3, <1>4, AscendingDistinct
<1>7. ASSUME seed \in S PROVE Info[ranked[1]].index = Info[seed].index
  <2>1. PICK n \in Nat : DOMAIN ranked = 1..n /\ \A k \in 1..n : ranked[k] \in S
    BY <1>5
  <2>2. PICK k \in 1..n : ranked[k] = seed
    BY <1>6, <1>7, <2>1 DEF ToSet
  <2>3. near[seed] = 0
    BY <1>2, <1>7
  <2>4. 1 \in 1..n /\ ranked[1] \in S
    BY <2>1, <2>2
  <2>5. near[ranked[1]] <= 0
    <3>1. CASE k = 1
      BY <2>2, <2>3, <3>1
    <3>2. CASE 1 < k
      <4>1. near[ranked[1]] < near[ranked[k]] \/ near[ranked[1]] = near[ranked[k]]
        BY <1>5, <2>1, <2>4, <3>2 DEF Rising
      <4> QED BY <1>2, <2>2, <2>3, <2>4, <4>1
    <3> QED BY <2>2, <3>1, <3>2
  <2> QED BY <1>2, <2>4, <2>5
<1> QED BY <1>4, <1>5, <1>6, <1>7

(* The texts taken so far.  What is used counts the units they take, but   *)
(* for the separator that the last one does not need.                      *)
Took(ranked, used, n) == {ranked[m] : m \in {k \in 1..n : used[k] > used[k - 1]}}

LEMMA PackUses ==
  ASSUME NEW S \in SUBSET Chunks, NEW ranked \in Seq(S), Distinct(ranked), NEW max \in Int,
         NEW used \in [0..Len(ranked) -> Int], used[0] = 0,
         \A n \in 1..Len(ranked) : used[n] = Grown(used[n - 1], Info[ranked[n]].size, max)
  PROVE  \A n \in 1..Len(ranked) :
           /\ used[n] > 0
           /\ used[n] <= max \/ used[n] = Info[ranked[1]].size
           /\ ranked[1] \in Took(ranked, used, n)
           /\ IsFiniteSet(Units(Took(ranked, used, n), Takes(2)))
           /\ Cardinality(Units(Took(ranked, used, n), Takes(2))) = used[n] + 2
<1> DEFINE N == Len(ranked)
           Counts(n) == /\ used[n] > 0
                        /\ used[n] <= max \/ used[n] = Info[ranked[1]].size
                        /\ ranked[1] \in Took(ranked, used, n)
                        /\ IsFiniteSet(Units(Took(ranked, used, n), Takes(2)))
                        /\ Cardinality(Units(Took(ranked, used, n), Takes(2))) = used[n] + 2
           Wrong == {n \in 1..N : ~Counts(n)}
<1>1. N \in Nat /\ DOMAIN ranked = 1..N /\ \A n \in 1..N : ranked[n] \in Chunks
  OBVIOUS
<1> HIDE DEF N
<1>2. \A n \in 0..N : used[n] \in Int
  BY DEF N
<1>3. \A n \in 1..N : used[n] = Grown(used[n - 1], Info[ranked[n]].size, max)
  BY DEF N
<1>5. ASSUME NEW n \in 1..N
      PROVE  Takes(2)[ranked[n]] \in Nat /\ Takes(2)[ranked[n]] = Info[ranked[n]].size + 2
             /\ Info[ranked[n]].size \in Nat /\ Info[ranked[n]].size > 0
  <2>1. ranked[n] \in Chunks /\ Info[ranked[n]].size \in Nat /\ Info[ranked[n]].size > 0
    BY <1>1, ChunkTyped
  <2> QED BY <2>1 DEF Takes
<1>6. ASSUME NEW n \in 1..N, used[n] > used[n - 1]
      PROVE  /\ Took(ranked, used, n) = Took(ranked, used, n - 1) \cup {ranked[n]}
             /\ ranked[n] \notin Took(ranked, used, n - 1)
  <2>1. \A k \in 1..n : k # n => k \in 1..n - 1
    BY <1>1
  <2>2. n \in 1..n /\ \A k \in 1..n - 1 : k \in 1..n /\ k \in 1..N /\ k # n
    BY <1>1
  <2>3. Took(ranked, used, n) = Took(ranked, used, n - 1) \cup {ranked[n]}
    BY <1>6, <2>1, <2>2 DEF Took
  <2>4. \A k \in 1..n - 1 : ranked[k] # ranked[n]
    BY <1>1, <2>2 DEF Distinct
  <2> QED BY <2>3, <2>4 DEF Took
<1>7. ASSUME NEW n \in 1..N, used[n] = used[n - 1]
      PROVE  Took(ranked, used, n) = Took(ranked, used, n - 1)
  <2>1. \A k \in 1..n : k # n => k \in 1..n - 1
    BY <1>1
  <2>2. \A k \in 1..n - 1 : k \in 1..n
    BY <1>1
  <2>3. ~(used[n] > used[n - 1])
    <3>1. used[n - 1] \in Int
      BY <1>1, <1>2
    <3> QED BY <1>7, <3>1
  <2> QED BY <2>1, <2>2, <2>3 DEF Took
<1>8. CASE Wrong = {}
  <2>1. \A n \in 1..N : Counts(n)
    BY <1>8
  <2> QED BY <2>1 DEF N
<1>9. CASE Wrong # {}
  <2>1. PICK n \in Wrong : \A m \in Wrong : n <= m
    <3>1. Wrong \subseteq Nat
      BY <1>1
    <3> HIDE DEF Wrong
    <3> QED BY <1>9, <3>1, Least
  <2>2. n \in 1..N /\ ~Counts(n)
    BY <2>1
  <2>3. PICK size \in Nat : size = Info[ranked[n]].size /\ size > 0 /\ Takes(2)[ranked[n]] = size + 2
    BY <1>5, <2>2
  <2>4. PICK x : x = ranked[n]
    OBVIOUS
  <2>5. CASE n = 1
    <3>1. used[1] = size /\ used[0] = 0
      BY <1>3, <2>2, <2>3, <2>5 DEF Grown
    <3>2. Took(ranked, used, 0) = {}
      BY DEF Took
    <3>3. Took(ranked, used, 1) = {} \cup {x}
      BY <1>6, <2>2, <2>3, <2>4, <2>5, <3>1, <3>2
    <3>4. IsFiniteSet(Units({}, Takes(2))) /\ Cardinality(Units({}, Takes(2))) = 0
      <4>1. Units({}, Takes(2)) = {}
        BY DEF Units
      <4> QED BY <4>1, FS_EmptySet
    <3>5. /\ IsFiniteSet(Units({} \cup {x}, Takes(2)))
          /\ Cardinality(Units({} \cup {x}, Takes(2))) = 0 + Takes(2)[x]
      <4>1. Takes(2)[x] \in Nat
        BY <1>5, <2>2, <2>4
      <4>2. PICK none : none = {}
        OBVIOUS
      <4>3. /\ IsFiniteSet(Units(none \cup {x}, Takes(2)))
            /\ Cardinality(Units(none \cup {x}, Takes(2))) = Cardinality(Units(none, Takes(2))) + Takes(2)[x]
        BY <3>4, <4>1, <4>2, UnitsAdded
      <4> QED BY <3>4, <4>2, <4>3
    <3>6. Cardinality(Units({} \cup {x}, Takes(2))) = used[1] + 2
      BY <2>3, <2>4, <3>1, <3>5
    <3>7. Counts(1)
      BY <2>3, <2>4, <2>5, <3>1, <3>3, <3>5, <3>6
    <3> QED BY <2>2, <2>5, <3>7
  <2>6. CASE n # 1
    <3>1. n - 1 \in 1..N /\ n - 1 \notin Wrong
      <4>1. n - 1 \in 1..N /\ ~(n <= n - 1)
        BY <1>1, <2>2, <2>6
      <4> HIDE DEF Wrong
      <4> QED BY <2>1, <4>1
    <3>2. Counts(n - 1)
      BY <3>1
    <3> HIDE DEF Wrong
    <3>3. PICK v \in Int : v = used[n - 1] /\ v > 0
      BY <1>1, <1>2, <2>2, <3>1, <3>2
    <3>4. used[n] = v \/ (used[n] = v + size + 2 /\ used[n] <= max)
      <4>1. used[n] = Grown(v, size, max)
        BY <1>3, <2>2, <2>3, <3>3
      <4>2. v # 0
        BY <3>3
      <4>3. Grown(v, size, max) = IF v > 0 /\ (v >= max \/ v + size + 2 > max) THEN v ELSE v + size + 2
        BY <4>2 DEF Grown
      <4>4. v + size + 2 \in Int
        OBVIOUS
      <4> QED BY <3>3, <4>1, <4>3, <4>4
    <3>5. CASE used[n] = v
      BY <1>7, <2>2, <3>2, <3>3, <3>5
    <3>6. CASE used[n] = v + size + 2 /\ used[n] <= max
      <4>1. used[n] > used[n - 1]
        BY <2>3, <3>3, <3>6
      <4>2. PICK before : before = Took(ranked, used, n - 1)
        OBVIOUS
      <4>3. Took(ranked, used, n) = before \cup {x} /\ x \notin before
        BY <1>6, <2>2, <2>4, <4>1, <4>2
      <4>4. /\ IsFiniteSet(Units(before \cup {x}, Takes(2)))
            /\ Cardinality(Units(before \cup {x}, Takes(2))) = Cardinality(Units(before, Takes(2))) + Takes(2)[x]
        <5>1. Takes(2)[x] \in Nat
          BY <1>5, <2>2, <2>4
        <5> QED BY <3>2, <4>2, <4>3, <5>1, UnitsAdded
      <4>5. Cardinality(Units(before \cup {x}, Takes(2))) = used[n] + 2
        <5>1. Cardinality(Units(before, Takes(2))) = v + 2
          BY <3>2, <3>3, <4>2
        <5>2. Takes(2)[x] = size + 2
          BY <2>3, <2>4
        <5>3. Cardinality(Units(before \cup {x}, Takes(2))) = v + 2 + (size + 2)
          BY <4>4, <5>1, <5>2
        <5> QED BY <3>6, <5>3
      <4>6. used[n] > 0 /\ ranked[1] \in Took(ranked, used, n)
        <5>1. used[n] > 0
          BY <2>3, <3>3, <3>6
        <5>2. ranked[1] \in before
          BY <3>2, <4>2
        <5> QED BY <4>3, <5>1, <5>2
      <4>7. Counts(n)
        BY <3>6, <4>3, <4>4, <4>5, <4>6
      <4> QED BY <2>2, <4>7
    <3> QED BY <3>4, <3>5, <3>6
  <2> QED BY <2>5, <2>6
<1> QED BY <1>8, <1>9

(* What is packed keeps the limit, or is one text; and the place of the    *)
(* hit is in it.                                                           *)
LEMMA PackKeeps ==
  ASSUME NEW S \in SUBSET Chunks, NEW seed \in Chunks, NEW max \in Nat
  PROVE  /\ Separated(Pack(S, seed, max), 2) \in Int
         /\ \/ Separated(Pack(S, seed, max), 2) <= max
            \/ \E c \in Chunks : Separated(Pack(S, seed, max), 2) = Info[c].size
         /\ seed \in S => \E c \in ToSet(Pack(S, seed, max)) : Info[c].index = Info[seed].index
<1>1. \A T \in SUBSET Chunks : /\ SumOf(InOrder(T), 2) \in Int /\ ToSet(InOrder(T)) = T
                               /\ SumOf(InOrder(T), 2) = Cardinality(Units(T, Takes(2)))
  <2> SUFFICES ASSUME NEW T \in SUBSET Chunks
               PROVE  /\ SumOf(InOrder(T), 2) \in Int /\ ToSet(InOrder(T)) = T
                      /\ SumOf(InOrder(T), 2) = Cardinality(Units(T, Takes(2)))
    OBVIOUS
  <2>1. InOrder(T) \in Seq(Chunks) /\ 2 \in Nat
    BY InOrderMembers, SeqMonotonic
  <2> QED BY <2>1, SumIsInteger, InOrderCounts
<1>2. CASE SumOf(InOrder(S), 2) <= max
  <2>1. Pack(S, seed, max) = InOrder(S)
    BY <1>2 DEF Pack
  <2>2. PICK sum \in Int : sum = SumOf(InOrder(S), 2) /\ sum <= max
    BY <1>1, <1>2
  <2>3. Separated(InOrder(S), 2) = sum - 2
    BY <2>2 DEF Separated
  <2>4. ToSet(InOrder(S)) = S
    BY <1>1
  <2> QED BY <2>1, <2>2, <2>3, <2>4
<1>3. CASE ~(SumOf(InOrder(S), 2) <= max)
  <2>0. max \in Int
    OBVIOUS
  <2>1. PICK ranked : /\ ranked = Ranked(S, seed) /\ ranked \in Seq(S) /\ Distinct(ranked) /\ ToSet(ranked) = S
                      /\ seed \in S => Info[ranked[1]].index = Info[seed].index
    BY RankedMembers
  <2>2. SumOf(InOrder(S), 2) > max
    BY <1>1, <1>3
  <2>3. PICK used \in [0..Len(ranked) -> Int] :
          /\ used[0] = 0
          /\ \A n \in 1..Len(ranked) : used[n] = Grown(used[n - 1], Info[ranked[n]].size, max)
          /\ Pack(S, seed, max) = InOrder({ranked[n] : n \in {m \in DOMAIN ranked : used[m] > used[m - 1]}})
    <3>1. Ranked(S, seed) \in Seq(S)
      BY <2>1
    <3>2. \E used \in [0..Len(Ranked(S, seed)) -> Int] :
           /\ used[0] = 0
           /\ \A n \in 1..Len(Ranked(S, seed)) :
                used[n] = Grown(used[n - 1], Info[Ranked(S, seed)[n]].size, max)
           /\ Pack(S, seed, max)
                = InOrder({Ranked(S, seed)[n] : n \in {m \in DOMAIN Ranked(S, seed) : used[m] > used[m - 1]}})
      BY <2>0, <2>2, <3>1, PackSteps
    <3> QED BY <2>1, <3>2
  <2>4. PICK N \in Nat : N = Len(ranked) /\ DOMAIN ranked = 1..N /\ \A n \in 1..N : ranked[n] \in S
    BY <2>1
  <2>5. PICK T : T = Took(ranked, used, N)
    OBVIOUS
  <2>6. T \in SUBSET S /\ Pack(S, seed, max) = InOrder(T)
    BY <2>3, <2>4, <2>5 DEF Took
  <2>7. CASE N = 0
    <3>1. T = {} /\ S = {}
      <4>1. \A n : n \notin 1..N
        BY <2>7
      <4> QED BY <2>1, <2>4, <2>5, <4>1 DEF Took, ToSet
    <3>2. PICK sum \in Int : sum = SumOf(InOrder(T), 2)
      BY <1>1, <3>1
    <3>3. sum = 0
      <4>1. Units(T, Takes(2)) = {}
        BY <3>1 DEF Units
      <4> QED BY <1>1, <3>1, <3>2, <4>1, FS_EmptySet
    <3> QED BY <2>2, <3>1, <3>2, <3>3
  <2>8. CASE N # 0
    <3>1. N \in 1..N
      BY <2>8
    <3>2. /\ used[N] <= max \/ used[N] = Info[ranked[1]].size
          /\ ranked[1] \in T
          /\ Cardinality(Units(T, Takes(2))) = used[N] + 2
      <4>1. ranked \in Seq(S) /\ Distinct(ranked)
        BY <2>1
      <4>2. \A n \in 1..Len(ranked) :
               /\ used[n] > 0
               /\ used[n] <= max \/ used[n] = Info[ranked[1]].size
               /\ ranked[1] \in Took(ranked, used, n)
               /\ IsFiniteSet(Units(Took(ranked, used, n), Takes(2)))
               /\ Cardinality(Units(Took(ranked, used, n), Takes(2))) = used[n] + 2
        BY <2>0, <2>3, <4>1, PackUses
      <4> QED BY <2>4, <2>5, <3>1, <4>2
    <3>3. PICK v \in Int : v = used[N]
      BY <2>4, <3>1
    <3>4. T \in SUBSET Chunks
      BY <2>6
    <3>5. SumOf(InOrder(T), 2) = v + 2 /\ ToSet(InOrder(T)) = T
      BY <1>1, <3>2, <3>3, <3>4
    <3>6. Separated(InOrder(T), 2) = v
      BY <3>5 DEF Separated
    <3>7. ranked[1] \in Chunks
      BY <2>6, <3>2
    <3> QED BY <2>1, <2>6, <3>2, <3>3, <3>5, <3>6, <3>7
  <2> QED BY <2>7, <2>8
<1> QED BY <1>2, <1>3

-----------------------------------------------------------------------------
(* The inductive invariant                                                 *)

VisibleTo(t) == {c \in Chunks : Visible(c, viewers[t])}
Entries == [key : Queries, list : Searches]

(* Types, some of them sharper than TypeOK.                                *)
IndexTyped ==
  /\ world \in Worlds
  /\ docs \subseteq Docs /\ gone \subseteq Docs \ docs
  /\ index # NotBuilt => index \subseteq Chunks
ThreadsTyped ==
  /\ stage \in [Searches -> Stages]
  /\ query \in [Searches -> Queries]
  /\ viewers \in [Searches -> Views \cup {{}}]
ListsTyped ==
  /\ cache \in Seq(Entries)
  /\ lists \in [Searches -> Seq(Queries)]
  /\ list \in [Searches -> Searches]
  /\ at \in [Searches -> Nat \ {0}]
  /\ searched \in [Searches -> SUBSET Queries]
HitsTyped ==
  /\ hits \in [Searches -> Seq(Chunks)]
  /\ DOMAIN found = Searches /\ DOMAIN passages = Searches
  /\ \A t \in Searches :
       /\ DOMAIN found[t] \subseteq Chunks /\ found[t] \in [DOMAIN found[t] -> Int]
       /\ passages[t] \in Seq(ToSet(passages[t]))
Typed == IndexTyped /\ ThreadsTyped /\ ListsTyped /\ HitsTyped

OneEntryPerKey == \A i, j \in DOMAIN cache : cache[i].key = cache[j].key => i = j
PlacesInLists == \A t \in Searches : at[t] <= Len(lists[list[t]]) + 1

(* Until a search begins to use a list nobody else has its own, and it has *)
(* found nothing.                                                          *)
Preparing(t) == stage[t] \in {"idle", "look", "touch", "take", "ask", "put", "refresh", "store"}
ListsArePrivate ==
  \A t \in Searches : Preparing(t) =>
    /\ \A i \in DOMAIN cache : cache[i].list # t
    /\ \A u \in Searches : list[u] = t <=> u = t
NothingFoundYet ==
  \A t \in Searches :
    /\ Preparing(t) \/ stage[t] = "own" => at[t] = 1
    /\ Preparing(t) => /\ searched[t] = {} /\ hits[t] = <<>> /\ passages[t] = <<>>
                       /\ DOMAIN found[t] = {}
    /\ stage[t] = "idle" => lists[t] = <<>>

(* Whoever shares a list asks the same in other words.                     *)
EntriesNameTheirKey == \A i \in DOMAIN cache : Key(cache[i].list) = cache[i].key
ListsHaveOneKey == \A t \in Searches : Key(list[t]) = Key(t)
Meant(key) == {q \in Queries : q = key \/ Normal[q] = key \/ \E reply \in Rewritings[key] : q \in ToSet(reply)}
ListsAreMeant == \A t \in Searches : lists[t] \in Seq(Meant(Key(t)))
SearchedIsMeant == \A t \in Searches : searched[t] \subseteq Meant(Key(t))

(* The own question was searched, or is still to come in the list.         *)
OwnIsListed ==
  \A t \in Searches :
    /\ stage[t] = "search" =>
         \/ query[t] \in searched[t]
         \/ \E i \in DOMAIN lists[list[t]] : i >= at[t] /\ lists[list[t]][i] = query[t]
    /\ Searched(t) => query[t] \in searched[t]

FoundIsVisible ==
  \A t \in Searches :
    /\ DOMAIN found[t] \subseteq VisibleTo(t)
    /\ hits[t] \in Seq(VisibleTo(t))
    /\ \A p \in ToSet(passages[t]) : ToSet(p.texts) \subseteq VisibleTo(t)

(* Who fused has built the word index.  The index may be built again only  *)
(* if it was empty: then the words ranked nobody, and the order is that of *)
(* the distances for whatever is indexed later.                            *)
Worse(t, indexed) ==
  {pair \in Chunks \X Chunks :
     /\ pair[2] \in DOMAIN found[t] /\ (indexed # {} => pair[2] \in indexed)
     /\ world.words[query[t]][pair[2]] > world.words[query[t]][pair[1]]
     /\ pair[1] \in DOMAIN found[t] => found[t][pair[2]] < found[t][pair[1]]
     /\ Info[pair[1]].low = Info[pair[2]].low}
HitsRanked ==
  \A t \in Searches : hits[t] # <<>> =>
    index # NotBuilt /\ stage[t] \in {"quote", "done"} /\ Orderly(hits[t], Worse(t, index))

CacheInv == /\ OneEntryPerKey /\ PlacesInLists /\ ListsArePrivate /\ NothingFoundYet
MeaningInv == /\ EntriesNameTheirKey /\ ListsHaveOneKey /\ ListsAreMeant /\ SearchedIsMeant /\ OwnIsListed
RetrievalInv == Typed /\ CacheInv /\ MeaningInv /\ FoundIsVisible /\ HitsRanked

LEMMA InvImpliesTypeOK ==
  ASSUME RetrievalInv
  PROVE  TypeOK
<1>1. \A t \in Searches : at[t] \in 1..(Len(lists[list[t]]) + 1)
  <2> SUFFICES ASSUME NEW t \in Searches PROVE at[t] \in 1..(Len(lists[list[t]]) + 1)
    OBVIOUS
  <2>1. lists[list[t]] \in Seq(Queries) /\ at[t] \in Nat \ {0} /\ at[t] <= Len(lists[list[t]]) + 1
    BY DEF RetrievalInv, Typed, ListsTyped, CacheInv, PlacesInLists
  <2>2. Len(lists[list[t]]) \in Nat
    BY <2>1, LenProperties
  <2> QED BY <2>1, <2>2
<1>2. docs \subseteq Docs /\ gone \subseteq Docs \ docs /\ (index # NotBuilt => index \subseteq Chunks)
  BY DEF RetrievalInv, Typed, IndexTyped
<1>3. /\ cache \in Seq([key : Queries, list : Searches]) /\ stage \in [Searches -> Stages]
      /\ \A i, j \in DOMAIN cache : cache[i].key = cache[j].key => i = j
  BY DEF RetrievalInv, Typed, ThreadsTyped, ListsTyped, Entries, CacheInv, OneEntryPerKey
<1>4. \A t \in Searches : /\ lists[t] \in Seq(Queries) /\ list[t] \in Searches
                          /\ searched[t] \subseteq Queries /\ DOMAIN found[t] \subseteq Chunks
                          /\ hits[t] \in Seq(Chunks)
  BY DEF RetrievalInv, Typed, ListsTyped, HitsTyped
<1> QED BY <1>1, <1>2, <1>3, <1>4 DEF TypeOK

LEMMA InvImpliesSearchesItsQuestion ==
  ASSUME RetrievalInv
  PROVE  SearchesItsQuestion
BY DEF RetrievalInv, MeaningInv, SearchedIsMeant, OwnIsListed, SearchesItsQuestion, Meant

LEMMA InvImpliesVisibleOnly ==
  ASSUME RetrievalInv
  PROVE  VisibleOnly
<1> SUFFICES ASSUME NEW t \in Searches
             PROVE  /\ \A c \in ToSet(hits[t]) : Visible(c, viewers[t])
                    /\ \A p \in ToSet(passages[t]) : \A c \in ToSet(p.texts) : Visible(c, viewers[t])
  BY DEF VisibleOnly
<1>1. hits[t] \in Seq(VisibleTo(t)) /\ \A p \in ToSet(passages[t]) : ToSet(p.texts) \subseteq VisibleTo(t)
  BY DEF RetrievalInv, FoundIsVisible
<1>2. ToSet(hits[t]) \subseteq VisibleTo(t)
  BY <1>1, SequenceMembers
<1> QED BY <1>1, <1>2 DEF VisibleTo

LEMMA InvImpliesFusionRespectsBoth ==
  ASSUME RetrievalInv
  PROVE  FusionRespectsBoth
<1> SUFFICES ASSUME NEW t \in Searches, NEW i \in DOMAIN hits[t], NEW j \in DOMAIN hits[t], i < j,
                    Outranks(t, hits[t][j], hits[t][i])
             PROVE  FALSE
  BY DEF FusionRespectsBoth
<1>1. hits[t] \in Seq(Chunks)
  BY DEF RetrievalInv, Typed, HitsTyped
<1>2. hits[t] # <<>> /\ hits[t][i] \in Chunks /\ hits[t][j] \in Chunks
  BY <1>1
<1>3. <<hits[t][i], hits[t][j]>> \in Worse(t, index)
  BY <1>2 DEF Outranks, Worse
<1>4. Orderly(hits[t], Worse(t, index))
  BY <1>2 DEF RetrievalInv, HitsRanked
<1> QED BY <1>3, <1>4 DEF Orderly

LEMMA InitRetrieval ==
  ASSUME Init
  PROVE  RetrievalInv
<1>1. \A S : <<>> \in Seq(S) /\ Len(<<>>) = 0 /\ DOMAIN <<>> = {} /\ ToSet(<<>>) = {}
  BY DEF ToSet
<1>2. (CHOOSE q \in Queries : TRUE) \in Queries
  BY RetrievalAssumption
<1>3. IndexTyped
  BY RetrievalAssumption DEF Init, IndexTyped
<1>4. ThreadsTyped
  BY <1>2 DEF Init, ThreadsTyped, Stages
<1>5. ListsTyped
  BY <1>1 DEF Init, ListsTyped
<1>6. HitsTyped
  BY <1>1 DEF Init, HitsTyped
<1>7. CacheInv
  BY <1>1 DEF Init, CacheInv, OneEntryPerKey, PlacesInLists, ListsArePrivate, NothingFoundYet
<1>8. MeaningInv
  BY <1>1 DEF Init, MeaningInv, EntriesNameTheirKey, ListsHaveOneKey, ListsAreMeant, SearchedIsMeant, OwnIsListed,
              Key, Searched
<1>9. FoundIsVisible
  BY <1>1 DEF Init, FoundIsVisible
<1>10. HitsRanked
  BY DEF Init, HitsRanked
<1> QED BY <1>3, <1>4, <1>5, <1>6, <1>7, <1>8, <1>9, <1>10 DEF RetrievalInv, Typed

-----------------------------------------------------------------------------
(* The cache and the rewritings                                            *)

(* A cache that has lost or moved entries.                                 *)
FromCache(new) ==
  /\ new \in Seq(Entries)
  /\ \A j \in DOMAIN new : \E k \in DOMAIN cache : new[j] = cache[k]
  /\ \A i, j \in DOMAIN new : new[i].key = new[j].key => i = j

LEMMA PlaceOfKey ==
  ASSUME NEW key, Cached(key)
  PROVE  PlaceOf(key) \in DOMAIN cache /\ cache[PlaceOf(key)].key = key
BY DEF Cached, PlaceOf

LEMMA MovedFromCache ==
  ASSUME cache \in Seq(Entries), OneEntryPerKey, NEW i \in DOMAIN cache
  PROVE  FromCache(ToNewest(i))
<1>1. PICK m \in Nat : m = Len(cache) /\ DOMAIN cache = 1..m
  BY LenProperties
<1>2. PICK a, b : a = SubSeq(cache, 1, i - 1) /\ b = SubSeq(cache, i + 1, m)
  OBVIOUS
<1>3. i \in 1..m /\ \A k \in 1..m : cache[k] \in Entries
  BY <1>1, ElementOfSeq
<1>4. /\ a \in Seq(Entries) /\ Len(a) = i - 1 /\ \A k \in 1..i - 1 : a[k] = cache[k]
  <2>1. 1 \in Int /\ i - 1 \in Int /\ \A k \in 1..i - 1 : cache[k] \in Entries
    BY <1>3
  <2>2. /\ a \in Seq(Entries) /\ Len(a) = IF 1 <= i - 1 THEN i - 1 - 1 + 1 ELSE 0
        /\ \A k \in 1..i - 1 - 1 + 1 : a[k] = cache[1 + k - 1]
    BY <1>2, <2>1, SubSeqProperties
  <2>3. \A k \in 1..i - 1 : k \in 1..i - 1 - 1 + 1 /\ 1 + k - 1 = k
    BY <1>3
  <2> QED BY <1>3, <2>2, <2>3
<1>5. /\ b \in Seq(Entries) /\ Len(b) = m - i /\ \A k \in 1..m - i : b[k] = cache[i + k]
  <2>1. i + 1 \in Int /\ m \in Int /\ \A k \in i + 1..m : cache[k] \in Entries
    BY <1>3
  <2>2. /\ b \in Seq(Entries) /\ Len(b) = IF i + 1 <= m THEN m - (i + 1) + 1 ELSE 0
        /\ \A k \in 1..m - (i + 1) + 1 : b[k] = cache[i + 1 + k - 1]
    BY <1>2, <2>1, SubSeqProperties
  <2>3. \A k \in 1..m - i : k \in 1..m - (i + 1) + 1 /\ i + 1 + k - 1 = i + k
    BY <1>3
  <2> QED BY <1>3, <2>2, <2>3
<1>6. PICK ab : ab = a \o b
  OBVIOUS
<1>7. /\ ab \in Seq(Entries) /\ Len(ab) = m - 1
      /\ \A k \in 1..m - 1 : ab[k] = IF k < i THEN cache[k] ELSE cache[k + 1]
  <2>1. /\ ab \in Seq(Entries) /\ Len(ab) = Len(a) + Len(b)
        /\ \A k \in 1..Len(a) + Len(b) : ab[k] = IF k <= Len(a) THEN a[k] ELSE b[k - Len(a)]
    BY <1>4, <1>5, <1>6, ConcatProperties
  <2>2. Len(ab) = m - 1
    BY <1>3, <1>4, <1>5, <2>1
  <2>3. ASSUME NEW k \in 1..m - 1 PROVE ab[k] = IF k < i THEN cache[k] ELSE cache[k + 1]
    <3>1. ab[k] = IF k <= i - 1 THEN a[k] ELSE b[k - (i - 1)]
      <4>1. Len(a) = i - 1 /\ Len(b) = m - i /\ Len(a) + Len(b) = m - 1
        BY <1>3, <1>4, <1>5
      <4>2. k \in 1..Len(a) + Len(b)
        BY <4>1
      <4> QED BY <2>1, <4>1, <4>2
    <3>2. CASE k < i
      BY <1>3, <1>4, <3>1, <3>2
    <3>3. CASE ~(k < i)
      <4>1. k - (i - 1) \in 1..m - i /\ i + (k - (i - 1)) = k + 1 /\ ~(k <= i - 1)
        BY <1>3, <3>3
      <4>2. b[k - (i - 1)] = cache[k + 1]
        BY <1>5, <4>1
      <4> QED BY <3>1, <3>3, <4>1, <4>2
    <3> QED BY <3>2, <3>3
  <2> QED BY <2>1, <2>2, <2>3
<1>8. PICK new : new = Append(ab, cache[i])
  OBVIOUS
<1>9. /\ new \in Seq(Entries) /\ Len(new) = m
      /\ \A k \in 1..m : new[k] = IF k = m THEN cache[i] ELSE IF k < i THEN cache[k] ELSE cache[k + 1]
  <2>1. /\ new \in Seq(Entries) /\ Len(new) = Len(ab) + 1
        /\ \A k \in 1..Len(ab) : new[k] = ab[k]
        /\ new[Len(ab) + 1] = cache[i]
    BY <1>3, <1>7, <1>8, AppendProperties
  <2>2. \A k \in 1..m : k = m \/ k \in 1..m - 1
    OBVIOUS
  <2>3. Len(ab) = m - 1 /\ m - 1 + 1 = m
    BY <1>7
  <2> QED BY <1>7, <2>1, <2>2, <2>3
<1>10. DOMAIN new = 1..m
  BY <1>9, LenProperties
<1>11. PICK place : place = [k \in 1..m |-> IF k = m THEN i ELSE IF k < i THEN k ELSE k + 1]
  OBVIOUS
<1>12. \A k \in 1..m : place[k] \in 1..m /\ new[k] = cache[place[k]]
  BY <1>3, <1>9, <1>11
<1>13. \A j, k \in 1..m : place[j] = place[k] => j = k
  BY <1>3, <1>11
<1>14. \A j, k \in 1..m : new[j].key = new[k].key => j = k
  BY <1>1, <1>12, <1>13 DEF OneEntryPerKey
<1>15. ToNewest(i) = new
  BY <1>1, <1>2, <1>6, <1>8 DEF ToNewest, RemoveAt
<1>16. FromCache(new)
  <2>1. \A j \in 1..m : place[j] \in DOMAIN cache /\ new[j] = cache[place[j]]
    BY <1>1, <1>12
  <2> QED BY <1>9, <1>10, <1>14, <2>1 DEF FromCache
<1> QED BY <1>15, <1>16

LEMMA EvictedFromCache ==
  ASSUME cache \in Seq(Entries), OneEntryPerKey, Len(cache) >= CacheSize
  PROVE  FromCache(Tail(cache))
<1>1. PICK m \in Nat : m = Len(cache) /\ DOMAIN cache = 1..m
  BY LenProperties
<1>2. cache # <<>> /\ m # 0
  <2>1. m # 0
    BY <1>1, RetrievalAssumption
  <2> QED BY <1>1, <2>1, EmptySeq
<1>3. PICK new : new = Tail(cache)
  OBVIOUS
<1>4. /\ new \in Seq(Entries) /\ Len(new) = m - 1
      /\ \A k \in 1..Len(new) : new[k] = cache[k + 1]
  BY <1>1, <1>2, <1>3, HeadTailProperties
<1>5. DOMAIN new = 1..m - 1
  BY <1>4, LenProperties
<1>6. \A k \in 1..m - 1 : k + 1 \in 1..m /\ new[k] = cache[k + 1]
  BY <1>4
<1>7. \A j, k \in 1..m - 1 : new[j].key = new[k].key => j = k
  <2> SUFFICES ASSUME NEW j \in 1..m - 1, NEW k \in 1..m - 1, new[j].key = new[k].key PROVE j = k
    OBVIOUS
  <2>1. j + 1 = k + 1
    BY <1>1, <1>6 DEF OneEntryPerKey
  <2> QED BY <2>1
<1> QED BY <1>1, <1>3, <1>4, <1>5, <1>6, <1>7 DEF FromCache

(* What is made of a reply is the question in other words, or in it.       *)
LEMMA RewrittenMembers ==
  ASSUME NEW q \in Queries, NEW reply \in Rewritings[Normal[q]]
  PROVE  Rewritten(q, reply) \in Seq(Meant(Normal[q]))
<1>1. PICK key \in Queries : key = Normal[q]
  BY RetrievalAssumption
<1>2. reply \in Seq(Queries)
  BY <1>1, RetrievalAssumption
<1>3. reply \in Seq(ToSet(reply)) /\ ToSet(reply) \subseteq Meant(key)
  BY <1>1, <1>2, SequenceMembers DEF Meant
<1>4. reply \in Seq(Meant(key))
  BY <1>3, SeqMonotonic
<1>5. q \in Meant(key) /\ key \in Meant(key)
  BY <1>1 DEF Meant
<1>6. PICK valid \in Seq(Meant(key)) : valid = Without(reply, key)
  BY <1>4, WithoutMembers
<1>7. PICK others \in Seq(Meant(key)) : others = IF valid = <<>> THEN <<key>> ELSE valid
  <2>1. <<key>> \in Seq(Meant(key))
    BY <1>5
  <2> QED BY <2>1
<1>8. Without(others, q) \in Seq(Meant(key)) /\ <<q>> \in Seq(Meant(key))
  BY <1>5, WithoutMembers
<1>9. <<q>> \o Without(others, q) \in Seq(Meant(key))
  BY <1>8, ConcatProperties
<1>10. Upto(<<q>> \o Without(others, q), 4) \in Seq(Meant(key))
  <2>1. 4 \in Nat
    OBVIOUS
  <2> QED BY <1>9, <2>1, UptoMembers
<1> QED BY <1>1, <1>6, <1>7, <1>10 DEF Rewritten

-----------------------------------------------------------------------------
(* Types are kept                                                          *)

LEMMA StoreTyped ==
  /\ Store \in SUBSET Chunks
  /\ IndexTyped => Words \in SUBSET Chunks
BY DEF Store, Words, IndexTyped

LEMMA IndexTypedStep ==
  ASSUME RetrievalInv, Next
  PROVE  IndexTyped'
<1>1. /\ world \in Worlds /\ docs \subseteq Docs /\ gone \subseteq Docs \ docs
      /\ index # NotBuilt => index \subseteq Chunks
  BY DEF RetrievalInv, Typed, IndexTyped
<1>2. CASE UNCHANGED <<world, docs, gone, index>>
  BY <1>1, <1>2 DEF IndexTyped
<1>3. ASSUME NEW d \in Docs, DocumentComes(d) PROVE IndexTyped'
  BY <1>1, <1>3 DEF DocumentComes, IndexTyped
<1>4. ASSUME NEW d \in Docs, DocumentGoes(d) PROVE IndexTyped'
  BY <1>1, <1>4 DEF DocumentGoes, IndexTyped
<1>5. ASSUME NEW t \in Searches, Fuse(t) PROVE IndexTyped'
  <2>1. Words \in SUBSET Chunks
    BY StoreTyped DEF RetrievalInv, Typed
  <2>2. UNCHANGED <<world, docs, gone>> /\ index' = Words
    BY <1>5 DEF Fuse
  <2> QED BY <1>1, <2>1, <2>2 DEF IndexTyped
<1>6. ASSUME NEW t \in Searches, NEW q \in Queries, NEW view \in Views, Ask(t, q, view)
      PROVE  UNCHANGED <<world, docs, gone, index>>
  BY <1>6 DEF Ask
<1>7. ASSUME NEW t \in Searches,
             \/ Look(t) \/ Touch(t) \/ Take(t) \/ Reply(t) \/ ReplyFails(t) \/ Put(t) \/ Refresh(t)
             \/ StoreList(t) \/ Own(t) \/ Search(t) \/ SearchEnds(t) \/ Quote(t) \/ QuoteEnds(t) \/ Stop(t) \/ Fail(t)
      PROVE  UNCHANGED <<world, docs, gone, index>>
  BY <1>7 DEF Look, Touch, Take, Reply, ReplyFails, Put, Refresh, StoreList, Own, Search, SearchEnds, Quote,
              QuoteEnds, Stop, Fail
<1> QED BY <1>2, <1>3, <1>4, <1>5, <1>6, <1>7 DEF Next, Step

LEMMA ThreadsTypedStep ==
  ASSUME RetrievalInv, Next
  PROVE  ThreadsTyped'
<1>1. /\ stage \in [Searches -> Stages] /\ query \in [Searches -> Queries]
      /\ viewers \in [Searches -> Views \cup {{}}]
  BY DEF RetrievalInv, Typed, ThreadsTyped
<1>2. CASE UNCHANGED <<stage, query, viewers>>
  BY <1>1, <1>2 DEF ThreadsTyped
<1>3. ASSUME NEW t \in Searches, NEW s \in Stages, Goto(t, s), UNCHANGED <<query, viewers>>
      PROVE  ThreadsTyped'
  BY <1>1, <1>3 DEF ThreadsTyped, Goto
<1>4. ASSUME NEW d \in Docs, DocumentComes(d) \/ DocumentGoes(d) PROVE UNCHANGED <<stage, query, viewers>>
  BY <1>4 DEF DocumentComes, DocumentGoes
<1>5. ASSUME NEW t \in Searches, NEW q \in Queries, NEW view \in Views, Ask(t, q, view)
      PROVE  ThreadsTyped'
  <2>1. /\ query' = [query EXCEPT ![t] = q] /\ viewers' = [viewers EXCEPT ![t] = view]
        /\ \E s \in {"look", "own"} : stage' = [stage EXCEPT ![t] = s]
    BY <1>5 DEF Ask, Goto
  <2>2. query' \in [Searches -> Queries] /\ viewers' \in [Searches -> Views \cup {{}}]
    BY <1>1, <2>1
  <2>3. stage' \in [Searches -> Stages]
    BY <1>1, <2>1 DEF Stages
  <2> QED BY <2>2, <2>3 DEF ThreadsTyped
<1>6. ASSUME NEW t \in Searches, Look(t) \/ Touch(t) \/ Take(t) \/ Put(t) \/ Refresh(t)
      PROVE  \E s \in Stages : Goto(t, s) /\ UNCHANGED <<query, viewers>>
  <2>1. {"touch", "ask", "take", "failed", "own", "refresh", "store"} \subseteq Stages
    BY DEF Stages
  <2> QED BY <1>6, <2>1 DEF Look, Touch, Take, Put, Refresh
<1>7. ASSUME NEW t \in Searches,
             \/ Reply(t) \/ ReplyFails(t) \/ StoreList(t) \/ Own(t) \/ SearchEnds(t) \/ Fuse(t) \/ QuoteEnds(t)
             \/ Stop(t) \/ Fail(t)
      PROVE  \E s \in Stages : Goto(t, s) /\ UNCHANGED <<query, viewers>>
  <2>1. {"put", "own", "search", "fuse", "quote", "done", "stopped", "failed"} \subseteq Stages
    BY DEF Stages
  <2> QED BY <1>7, <2>1 DEF Reply, ReplyFails, StoreList, Own, SearchEnds, Fuse, QuoteEnds, Stop, Fail
<1>8. ASSUME NEW t \in Searches, Search(t) \/ Quote(t) PROVE UNCHANGED <<stage, query, viewers>>
  BY <1>8 DEF Search, Quote
<1> QED BY <1>2, <1>3, <1>4, <1>5, <1>6, <1>7, <1>8 DEF Next, Step

(* What a search does to the shared lists, however it gets there.          *)
LEMMA ListsTypedStep ==
  ASSUME RetrievalInv, Next
  PROVE  ListsTyped'
<1>1. /\ cache \in Seq(Entries) /\ lists \in [Searches -> Seq(Queries)] /\ list \in [Searches -> Searches]
      /\ at \in [Searches -> Nat \ {0}] /\ searched \in [Searches -> SUBSET Queries]
      /\ query \in [Searches -> Queries] /\ OneEntryPerKey
  BY DEF RetrievalInv, Typed, ThreadsTyped, ListsTyped, CacheInv
<1>2. ASSUME NEW t \in Searches PROVE Key(t) \in Queries /\ [key |-> Key(t), list |-> t] \in Entries
  BY <1>1, RetrievalAssumption DEF Key, Entries
<1>3. CASE UNCHANGED <<cache, lists, list, at, searched>>
  BY <1>1, <1>3 DEF ListsTyped
<1>4. ASSUME cache' \in Seq(Entries), UNCHANGED <<lists, list, at, searched>> PROVE ListsTyped'
  BY <1>1, <1>4 DEF ListsTyped
<1>5. ASSUME NEW t \in Searches, NEW s \in Seq(Queries), Has(t, s), UNCHANGED <<cache, at, searched>>
      PROVE  ListsTyped'
  BY <1>1, <1>5 DEF ListsTyped, Has
<1>6. \A t \in Searches : Cached(Key(t)) => ToNewest(PlaceOf(Key(t))) \in Seq(Entries)
  <2> SUFFICES ASSUME NEW t \in Searches, Cached(Key(t)) PROVE ToNewest(PlaceOf(Key(t))) \in Seq(Entries)
    OBVIOUS
  <2>1. PlaceOf(Key(t)) \in DOMAIN cache
    BY PlaceOfKey
  <2> QED BY <1>1, <2>1, MovedFromCache DEF FromCache
<1>7. \A t \in Searches : <<query[t]>> \in Seq(Queries)
  BY <1>1
<1>8. ASSUME NEW d \in Docs, DocumentComes(d) \/ DocumentGoes(d)
      PROVE  UNCHANGED <<cache, lists, list, at, searched>>
  BY <1>8 DEF DocumentComes, DocumentGoes, cacheVars, hitVars
<1>9. ASSUME NEW t \in Searches, NEW q \in Queries, NEW view \in Views, Ask(t, q, view)
      PROVE  ListsTyped'
  <2>1. <<q>> \in Seq(Queries)
    OBVIOUS
  <2>2. UNCHANGED <<cache, at, searched>> /\ (Has(t, <<q>>) \/ UNCHANGED <<lists, list>>)
    BY <1>9 DEF Ask, hitVars
  <2> QED BY <1>3, <1>5, <2>1, <2>2
<1>10. ASSUME NEW t \in Searches, Touch(t) PROVE ListsTyped'
  <2>1. /\ UNCHANGED <<lists, list, at, searched>>
        /\ (Cached(Key(t)) /\ cache' = ToNewest(PlaceOf(Key(t)))) \/ UNCHANGED cache
    BY <1>10 DEF Touch, hitVars
  <2> QED BY <1>1, <1>4, <1>6, <2>1
<1>11. ASSUME NEW t \in Searches, Take(t) PROVE ListsTyped'
  <2>1. /\ UNCHANGED <<cache, lists, at, searched>>
        /\ \/ Cached(Key(t)) /\ list' = [list EXCEPT ![t] = cache[PlaceOf(Key(t))].list]
           \/ UNCHANGED list
    BY <1>11 DEF Take, hitVars
  <2>2. Cached(Key(t)) => cache[PlaceOf(Key(t))].list \in Searches
    <3> SUFFICES ASSUME Cached(Key(t)) PROVE cache[PlaceOf(Key(t))].list \in Searches
      OBVIOUS
    <3>1. PICK i \in DOMAIN cache : i = PlaceOf(Key(t))
      BY PlaceOfKey
    <3>2. cache[i] \in Entries
      BY <1>1, ElementOfSeq
    <3> QED BY <3>1, <3>2 DEF Entries
  <2>3. list' \in [Searches -> Searches]
    BY <1>1, <2>1, <2>2
  <2> QED BY <1>1, <2>1, <2>3 DEF ListsTyped
<1>12. ASSUME NEW t \in Searches, Reply(t) PROVE ListsTyped'
  <2>1. PICK reply \in Rewritings[Key(t)] : Has(t, Rewritten(query[t], reply))
    BY <1>12 DEF Reply
  <2>2. Rewritten(query[t], reply) \in Seq(Meant(Key(t))) /\ Meant(Key(t)) \subseteq Queries
    BY <1>1, <2>1, RewrittenMembers DEF Key, Meant
  <2>3. Rewritten(query[t], reply) \in Seq(Queries)
    BY <2>2, SeqMonotonic
  <2>4. UNCHANGED <<cache, at, searched>>
    BY <1>12 DEF Reply, hitVars
  <2> QED BY <1>5, <2>1, <2>3, <2>4
<1>13. ASSUME NEW t \in Searches, ReplyFails(t) PROVE ListsTyped'
  <2>1. Has(t, <<query[t]>>) /\ UNCHANGED <<cache, at, searched>>
    BY <1>13 DEF ReplyFails, hitVars
  <2> QED BY <1>5, <1>7, <2>1
<1>14. ASSUME NEW t \in Searches, Put(t) PROVE ListsTyped'
  <2>1. /\ UNCHANGED <<lists, list, at, searched>>
        /\ UNCHANGED cache \/ (Len(cache) >= CacheSize /\ cache' = Tail(cache))
    BY <1>14 DEF Put, hitVars
  <2>2. Len(cache) >= CacheSize => Tail(cache) \in Seq(Entries)
    BY <1>1, EvictedFromCache DEF FromCache
  <2> QED BY <1>1, <1>4, <2>1, <2>2
<1>15. ASSUME NEW t \in Searches, Refresh(t) PROVE ListsTyped'
  <2>1. /\ UNCHANGED <<at, searched>>
        /\ \/ Cached(Key(t)) /\ cache' = ToNewest(PlaceOf(Key(t))) /\ UNCHANGED <<lists, list>>
           \/ Has(t, <<query[t]>>) /\ UNCHANGED cache
    BY <1>15 DEF Refresh, hitVars
  <2> QED BY <1>4, <1>5, <1>6, <1>7, <2>1
<1>16. ASSUME NEW t \in Searches, StoreList(t) PROVE ListsTyped'
  <2>1. /\ UNCHANGED <<lists, list, at, searched>>
        /\ \/ Cached(Key(t)) /\ cache' = [cache EXCEPT ![PlaceOf(Key(t))].list = t]
           \/ cache' = Append(cache, [key |-> Key(t), list |-> t])
    BY <1>16 DEF StoreList, hitVars
  <2>2. CASE Cached(Key(t)) /\ cache' = [cache EXCEPT ![PlaceOf(Key(t))].list = t]
    <3>1. PICK i \in DOMAIN cache : i = PlaceOf(Key(t))
      BY <2>2, PlaceOfKey
    <3>2. cache[i] \in Entries
      BY <1>1, ElementOfSeq
    <3>3. PICK e \in Entries : e = [cache[i] EXCEPT !.list = t]
      BY <3>2 DEF Entries
    <3>4. cache' = [cache EXCEPT ![i] = e]
      BY <2>2, <3>1, <3>3
    <3>5. cache' \in Seq(Entries)
      BY <1>1, <3>4, ExceptSeq
    <3> QED BY <1>4, <2>1, <3>5
  <2>3. CASE cache' = Append(cache, [key |-> Key(t), list |-> t])
    <3>1. cache' \in Seq(Entries)
      BY <1>1, <1>2, <2>3, AppendProperties
    <3> QED BY <1>4, <2>1, <3>1
  <2> QED BY <2>1, <2>2, <2>3
<1>17. ASSUME NEW t \in Searches, Own(t) PROVE ListsTyped'
  <2>1. /\ UNCHANGED <<cache, list, at, searched>>
        /\ UNCHANGED lists \/ lists' = [lists EXCEPT ![list[t]] = <<query[t]>> \o @]
    BY <1>17 DEF Own, hitVars
  <2>2. <<query[t]>> \o lists[list[t]] \in Seq(Queries)
    BY <1>1, <1>7, ConcatProperties
  <2>3. lists' \in [Searches -> Seq(Queries)]
    BY <1>1, <2>1, <2>2
  <2> QED BY <1>1, <2>1, <2>3 DEF ListsTyped
<1>18. ASSUME NEW t \in Searches, Search(t) PROVE ListsTyped'
  <2>1. /\ UNCHANGED <<cache, lists, list>>
        /\ at' = [at EXCEPT ![t] = @ + 1]
        /\ searched' = [searched EXCEPT ![t] = @ \cup {lists[list[t]][at[t]]}]
        /\ at[t] <= Len(lists[list[t]])
    BY <1>18 DEF Search, cacheVars
  <2>2. lists[list[t]] \in Seq(Queries) /\ at[t] \in Nat \ {0} /\ at[t] + 1 \in Nat \ {0}
    BY <1>1
  <2>3. lists[list[t]][at[t]] \in Queries
    <3>1. Len(lists[list[t]]) \in Nat
      BY <2>2, LenProperties
    <3>2. at[t] \in 1..Len(lists[list[t]])
      BY <2>1, <2>2, <3>1
    <3> QED BY <2>2, <3>2, ElementOfSeq
  <2>4. at' \in [Searches -> Nat \ {0}] /\ searched' \in [Searches -> SUBSET Queries]
    BY <1>1, <2>1, <2>2, <2>3
  <2> QED BY <1>1, <2>1, <2>4 DEF ListsTyped
<1>19. ASSUME NEW t \in Searches,
              Look(t) \/ SearchEnds(t) \/ Fuse(t) \/ Quote(t) \/ QuoteEnds(t) \/ Stop(t) \/ Fail(t)
       PROVE  UNCHANGED <<cache, lists, list, at, searched>>
  BY <1>19 DEF Look, SearchEnds, Fuse, Quote, QuoteEnds, Stop, Fail, cacheVars, hitVars
<1>20. ASSUME NEW t \in Searches, Step(t) PROVE ListsTyped'
  BY <1>3, <1>10, <1>11, <1>12, <1>13, <1>14, <1>15, <1>16, <1>17, <1>18, <1>19, <1>20 DEF Step
<1> QED BY <1>3, <1>8, <1>9, <1>19, <1>20 DEF Next

(* Both rankings have chunks that the search may see.                      *)
LEMMA VectorHitsMembers ==
  ASSUME Typed, NEW t \in Searches, NEW q \in Queries
  PROVE  ToSet(VectorHits(t, q)) \subseteq VisibleTo(t)
<1>1. PICK S \in SUBSET Chunks : S = {c \in Store : Visible(c, viewers[t])}
  BY StoreTyped
<1>2. \A c \in S : world.near[q][c] \in Int
  BY RetrievalAssumption DEF Typed, IndexTyped
<1>3. Nearest(S, world.near[q]) \in Seq(S)
  BY <1>2, NearestMembers
<1>4. ToSet(VectorHits(t, q)) \subseteq S
  BY <1>1, <1>3, SequenceMembers DEF VectorHits
<1> QED BY <1>1, <1>4 DEF VisibleTo

LEMMA ByVectorMembers ==
  ASSUME Typed, NEW t \in Searches
  PROVE  ByVector(t) \in Seq(DOMAIN found[t])
<1>1. PICK S : S = DOMAIN found[t]
  OBVIOUS
<1>2. S \subseteq Chunks /\ \A c \in S : found[t][c] \in Int
  BY <1>1 DEF Typed, HitsTyped
<1>3. S \in SUBSET Int /\ IsFiniteSet(S)
  <2>1. Chunks \subseteq Nat /\ IsFiniteSet(Chunks)
    BY RankingAssumption
  <2>2. IsFiniteSet(S)
    BY <1>2, <2>1, FS_Subset
  <2> QED BY <1>2, <2>1, <2>2
<1>4. Ascending(S, found[t]) \in Seq(S)
  BY <1>2, <1>3, AscendingMembers
<1> QED BY <1>1, <1>4 DEF ByVector

LEMMA WordHitsMembers ==
  ASSUME Typed, NEW t \in Searches
  PROVE  WordHits(t, world.words[query[t]]) \in Seq(VisibleTo(t))
<1>1. PICK S \in SUBSET Chunks : S = {c \in Words : Visible(c, viewers[t])}
  BY StoreTyped DEF Typed
<1>2. \A c \in S : world.words[query[t]][c] \in Nat
  BY RetrievalAssumption DEF Typed, IndexTyped, ThreadsTyped
<1>3. MostWords(S, world.words[query[t]]) \in Seq(S)
  BY <1>2, MostWordsMembers
<1>4. S \subseteq VisibleTo(t)
  BY <1>1 DEF VisibleTo
<1>5. WordHits(t, world.words[query[t]]) \in Seq(S)
  BY <1>1, <1>3 DEF WordHits
<1> QED BY <1>4, <1>5, SeqMonotonic

LEMMA SearchedQuery ==
  ASSUME Typed, NEW t \in Searches, Search(t)
  PROVE  /\ at[t] \in DOMAIN lists[list[t]]
         /\ lists[list[t]][at[t]] \in Queries
<1>1. /\ lists[list[t]] \in Seq(Queries) /\ at[t] \in Nat \ {0} /\ at[t] <= Len(lists[list[t]])
  BY DEF Search, Typed, ListsTyped
<1>2. Len(lists[list[t]]) \in Nat
  BY <1>1, LenProperties
<1>3. at[t] \in 1..Len(lists[list[t]])
  BY <1>1, <1>2
<1> QED BY <1>1, <1>3, ElementOfSeq, LenProperties

LEMMA HitsTypedStep ==
  ASSUME RetrievalInv, Next
  PROVE  HitsTyped'
<1>1. /\ hits \in [Searches -> Seq(Chunks)] /\ DOMAIN found = Searches /\ DOMAIN passages = Searches
      /\ \A t \in Searches : /\ DOMAIN found[t] \subseteq Chunks /\ found[t] \in [DOMAIN found[t] -> Int]
                             /\ passages[t] \in Seq(ToSet(passages[t]))
  BY DEF RetrievalInv, Typed, HitsTyped
<1>2. CASE UNCHANGED <<found, hits, passages>>
  BY <1>1, <1>2 DEF HitsTyped
<1>3. ASSUME NEW t \in Searches, Search(t) PROVE HitsTyped'
  <2>1. PICK q, new : /\ q = lists[list[t]][at[t]] /\ new = ToSet(VectorHits(t, q)) \ DOMAIN found[t]
                      /\ found' = [found EXCEPT ![t] =
                           [c \in DOMAIN @ \cup new |-> IF c \in new THEN world.near[q][c] ELSE @[c]]]
                      /\ UNCHANGED <<hits, passages>>
    BY <1>3 DEF Search
  <2>2. q \in Queries
    BY <1>3, <2>1, SearchedQuery DEF RetrievalInv
  <2>3. \A c \in Chunks : world.near[q][c] \in Int
    BY <2>2, RetrievalAssumption DEF RetrievalInv, Typed, IndexTyped
  <2>4. new \subseteq Chunks
    <3>1. ToSet(VectorHits(t, q)) \subseteq VisibleTo(t)
      BY <2>2, VectorHitsMembers DEF RetrievalInv
    <3> QED BY <2>1, <3>1 DEF VisibleTo
  <2>5. PICK f : f = [c \in DOMAIN found[t] \cup new |-> IF c \in new THEN world.near[q][c] ELSE found[t][c]]
    OBVIOUS
  <2>6. DOMAIN f \subseteq Chunks /\ f \in [DOMAIN f -> Int]
    BY <1>1, <2>3, <2>4, <2>5
  <2>7. found' = [found EXCEPT ![t] = f]
    BY <2>1, <2>5
  <2> QED BY <1>1, <2>1, <2>6, <2>7 DEF HitsTyped
<1>4. ASSUME NEW t \in Searches, Fuse(t) PROVE HitsTyped'
  <2>1. /\ UNCHANGED <<found, passages>>
        /\ hits' = [hits EXCEPT ![t] =
             HitsOf(query[t], ByVector(t), WordHits(t, world.words[query[t]]), found[t], world.alike)]
    BY <1>4 DEF Fuse
  <2>2. ByVector(t) \in Seq(Chunks)
    BY <1>1, ByVectorMembers, SeqMonotonic DEF RetrievalInv
  <2>3. WordHits(t, world.words[query[t]]) \in Seq(Chunks)
    <3>1. VisibleTo(t) \subseteq Chunks
      BY DEF VisibleTo
    <3> QED BY <3>1, WordHitsMembers, SeqMonotonic DEF RetrievalInv
  <2>4. hits' \in [Searches -> Seq(Chunks)]
    <3>1. HitsOf(query[t], ByVector(t), WordHits(t, world.words[query[t]]), found[t], world.alike) \in Seq(Chunks)
      BY <2>2, <2>3, HitsMembers
    <3> QED BY <1>1, <2>1, <3>1
  <2> QED BY <1>1, <2>1, <2>4 DEF HitsTyped
<1>5. ASSUME NEW t \in Searches, Quote(t) PROVE HitsTyped'
  <2>1. PICK c, ps : /\ c = Head(hits[t]) /\ hits[t] # <<>> /\ ps = PassagesOf(t, c)
                     /\ passages' = [passages EXCEPT ![t] = @ \o ps]
                     /\ hits' = [hits EXCEPT ![t] = Tail(@)]
                     /\ UNCHANGED found
    BY <1>5 DEF Quote
  <2>2. Tail(hits[t]) \in Seq(Chunks)
    BY <1>1, <2>1, HeadTailProperties
  <2>3. hits' \in [Searches -> Seq(Chunks)]
    BY <1>1, <2>1, <2>2
  <2>4. ps = <<>> \/ \E p : ps = <<p>>
    BY <2>1 DEF PassagesOf, SectionPassage
  <2>5. PICK S : passages[t] \in Seq(S) /\ ps \in Seq(S)
    <3>1. CASE ps = <<>>
      BY <1>1, <3>1
    <3>2. CASE \E p : ps = <<p>>
      <4>1. PICK p : ps = <<p>>
        BY <3>2
      <4>2. passages[t] \in Seq(ToSet(passages[t]) \cup {p})
        BY <1>1, SeqMonotonic
      <4> QED BY <4>1, <4>2
    <3> QED BY <2>4, <3>1, <3>2
  <2>6. passages[t] \o ps \in Seq(ToSet(passages[t] \o ps))
    BY <2>5, JoinedMembers, SequenceMembers
  <2> QED BY <1>1, <2>1, <2>3, <2>6 DEF HitsTyped
<1>6. ASSUME NEW d \in Docs, DocumentComes(d) \/ DocumentGoes(d) PROVE UNCHANGED <<found, hits, passages>>
  BY <1>6 DEF DocumentComes, DocumentGoes, hitVars
<1>7. ASSUME NEW t \in Searches, NEW q \in Queries, NEW view \in Views, Ask(t, q, view)
      PROVE  UNCHANGED <<found, hits, passages>>
  BY <1>7 DEF Ask, hitVars
<1>8. ASSUME NEW t \in Searches,
             \/ Look(t) \/ Touch(t) \/ Take(t) \/ Reply(t) \/ ReplyFails(t) \/ Put(t) \/ Refresh(t)
             \/ StoreList(t) \/ Own(t) \/ SearchEnds(t) \/ QuoteEnds(t) \/ Stop(t) \/ Fail(t)
      PROVE  UNCHANGED <<found, hits, passages>>
  BY <1>8 DEF Look, Touch, Take, Reply, ReplyFails, Put, Refresh, StoreList, Own, SearchEnds,
              QuoteEnds, Stop, Fail, hitVars
<1> QED BY <1>2, <1>3, <1>4, <1>5, <1>6, <1>7, <1>8 DEF Next, Step

LEMMA TypedStep ==
  ASSUME RetrievalInv, Next
  PROVE  Typed'
BY IndexTypedStep, ThreadsTypedStep, ListsTypedStep, HitsTypedStep DEF Typed

-----------------------------------------------------------------------------
(* The cache and the lists it names                                        *)

(* All that a step may do to the cache.                                    *)
LEMMA CacheSteps ==
  ASSUME RetrievalInv, Next
  PROVE  \/ UNCHANGED cache
         \/ /\ FromCache(cache') /\ UNCHANGED <<query, lists, list>>
         \/ \E t \in Searches : /\ StoreList(t) /\ UNCHANGED <<query, lists, list>>
<1>1. cache \in Seq(Entries) /\ OneEntryPerKey
  BY DEF RetrievalInv, Typed, ListsTyped, CacheInv
<1>2. ASSUME NEW t \in Searches, Touch(t) \/ Refresh(t)
      PROVE  UNCHANGED cache \/ (FromCache(cache') /\ UNCHANGED <<query, lists, list>>)
  <2>1. \/ UNCHANGED cache
        \/ Cached(Key(t)) /\ cache' = ToNewest(PlaceOf(Key(t))) /\ UNCHANGED <<query, lists, list>>
    BY <1>2 DEF Touch, Refresh
  <2>2. Cached(Key(t)) => FromCache(ToNewest(PlaceOf(Key(t))))
    BY <1>1, PlaceOfKey, MovedFromCache
  <2> QED BY <2>1, <2>2
<1>3. ASSUME NEW t \in Searches, Put(t)
      PROVE  UNCHANGED cache \/ (FromCache(cache') /\ UNCHANGED <<query, lists, list>>)
  <2>1. UNCHANGED cache \/ (Len(cache) >= CacheSize /\ cache' = Tail(cache) /\ UNCHANGED <<query, lists, list>>)
    BY <1>3 DEF Put
  <2> QED BY <1>1, <2>1, EvictedFromCache
<1>4. ASSUME NEW t \in Searches, StoreList(t) PROVE UNCHANGED <<query, lists, list>>
  BY <1>4 DEF StoreList
<1>5. ASSUME NEW d \in Docs, DocumentComes(d) \/ DocumentGoes(d) PROVE UNCHANGED cache
  BY <1>5 DEF DocumentComes, DocumentGoes, cacheVars
<1>6. ASSUME NEW t \in Searches, NEW q \in Queries, NEW view \in Views, Ask(t, q, view) PROVE UNCHANGED cache
  BY <1>6 DEF Ask
<1>7. ASSUME NEW t \in Searches,
             \/ Look(t) \/ Take(t) \/ Reply(t) \/ ReplyFails(t) \/ Own(t) \/ Search(t) \/ SearchEnds(t)
             \/ Fuse(t) \/ Quote(t) \/ QuoteEnds(t) \/ Stop(t) \/ Fail(t)
      PROVE  UNCHANGED cache
  BY <1>7 DEF Look, Take, Reply, ReplyFails, Own, Search, SearchEnds, Fuse, Quote, QuoteEnds, Stop, Fail, cacheVars
<1> QED BY <1>2, <1>3, <1>4, <1>5, <1>6, <1>7 DEF Next, Step

(* What StoreList leaves: the entry of its key names it.                   *)
LEMMA StoredEntry ==
  ASSUME RetrievalInv, NEW t \in Searches, StoreList(t)
  PROVE  /\ DOMAIN cache \subseteq DOMAIN cache'
         /\ \A i \in DOMAIN cache' : \/ cache'[i] = [key |-> Key(t), list |-> t]
                                     \/ i \in DOMAIN cache /\ cache'[i] = cache[i] /\ cache[i].key # Key(t)
         /\ \A i, j \in DOMAIN cache' : cache'[i].key = cache'[j].key => i = j
<1>1. cache \in Seq(Entries) /\ \A i, j \in DOMAIN cache : cache[i].key = cache[j].key => i = j
  BY DEF RetrievalInv, Typed, ListsTyped, CacheInv, OneEntryPerKey
<1>2. PICK n \in Nat : n = Len(cache) /\ DOMAIN cache = 1..n /\ \A i \in 1..n : cache[i] \in Entries
  BY <1>1, LenProperties, ElementOfSeq
<1>3. PICK e \in Entries : e = [key |-> Key(t), list |-> t]
  BY RetrievalAssumption DEF Entries, Key, RetrievalInv, Typed, ThreadsTyped
<1>4. CASE Cached(Key(t))
  <2>1. PICK p \in 1..n : p = PlaceOf(Key(t)) /\ cache[p].key = Key(t)
    BY <1>2, <1>4, PlaceOfKey
  <2>2. cache' = [cache EXCEPT ![p].list = t]
    BY <1>4, <2>1 DEF StoreList
  <2>3. [cache[p] EXCEPT !.list = t] = e
    BY <1>2, <1>3, <2>1 DEF Entries
  <2>4. cache' = [cache EXCEPT ![p] = e]
    BY <2>2, <2>3
  <2>5. DOMAIN cache' = 1..n /\ \A i \in 1..n : cache'[i] = IF i = p THEN e ELSE cache[i]
    BY <1>2, <2>4
  <2>6. \A i \in 1..n : i # p => cache[i].key # Key(t)
    BY <1>1, <1>2, <2>1
  <2>7. e.key = Key(t)
    BY <1>3
  <2> QED BY <1>1, <1>2, <1>3, <2>5, <2>6, <2>7
<1>5. CASE ~Cached(Key(t))
  <2>1. cache' = Append(cache, e)
    BY <1>3, <1>5 DEF StoreList
  <2>2. cache' \in Seq(Entries) /\ Len(cache') = n + 1 /\ cache'[n + 1] = e /\ \A i \in 1..n : cache'[i] = cache[i]
    BY <1>1, <1>2, <2>1, AppendProperties
  <2>3. DOMAIN cache' = 1..n + 1
    BY <2>2, LenProperties
  <2>4. \A i \in 1..n : cache[i].key # Key(t)
    BY <1>2, <1>5 DEF Cached
  <2>5. \A i \in 1..n + 1 : i \in 1..n \/ i = n + 1
    OBVIOUS
  <2>6. e.key = Key(t)
    BY <1>3
  <2>7. 1..n \subseteq 1..n + 1
    OBVIOUS
  <2> QED BY <1>1, <1>2, <1>3, <2>2, <2>3, <2>4, <2>5, <2>6, <2>7
<1> QED BY <1>4, <1>5

LEMMA OneEntryPerKeyStep ==
  ASSUME RetrievalInv, Next
  PROVE  OneEntryPerKey'
<1>1. CASE UNCHANGED cache
  BY <1>1 DEF RetrievalInv, CacheInv, OneEntryPerKey
<1>2. CASE FromCache(cache')
  BY <1>2 DEF FromCache, OneEntryPerKey
<1>3. ASSUME NEW t \in Searches, StoreList(t) PROVE OneEntryPerKey'
  BY <1>3, StoredEntry DEF OneEntryPerKey
<1> QED BY <1>1, <1>2, <1>3, CacheSteps

(* The stages before the search, and where they lead.                      *)
LEMMA PreparingSteps ==
  ASSUME RetrievalInv, Next
  PROVE  \A u \in Searches : Preparing(u)' => Preparing(u)
<1>1. stage \in [Searches -> Stages]
  BY DEF RetrievalInv, Typed, ThreadsTyped
<1>2. ASSUME NEW t \in Searches, NEW s \in Stages, Goto(t, s),
             \/ Preparing(t)
             \/ s \in Stages \ {"idle", "look", "touch", "take", "ask", "put", "refresh", "store"}
      PROVE  \A u \in Searches : Preparing(u)' => Preparing(u)
  BY <1>1, <1>2 DEF Goto, Preparing
<1>3. CASE UNCHANGED stage
  BY <1>3 DEF Preparing
<1>4. ASSUME NEW d \in Docs, DocumentComes(d) \/ DocumentGoes(d) PROVE UNCHANGED stage
  BY <1>4 DEF DocumentComes, DocumentGoes
<1>5. ASSUME NEW t \in Searches, NEW q \in Queries, NEW view \in Views, Ask(t, q, view)
      PROVE  \A u \in Searches : Preparing(u)' => Preparing(u)
  <2>1. Preparing(t) /\ (Goto(t, "look") \/ Goto(t, "own"))
    BY <1>5 DEF Ask, Preparing
  <2>2. "look" \in Stages /\ "own" \in Stages
    BY DEF Stages
  <2> QED BY <1>2, <2>1, <2>2
<1>6. ASSUME NEW t \in Searches,
             \/ Look(t) \/ Touch(t) \/ Take(t) \/ Reply(t) \/ ReplyFails(t) \/ Put(t) \/ Refresh(t) \/ StoreList(t)
      PROVE  Preparing(t) /\ \E s \in Stages : Goto(t, s)
  <2>1. {"touch", "ask", "take", "failed", "own", "refresh", "store", "put"} \subseteq Stages
    BY DEF Stages
  <2> QED BY <1>6, <2>1 DEF Look, Touch, Take, Reply, ReplyFails, Put, Refresh, StoreList, Preparing
<1>7. ASSUME NEW t \in Searches, Own(t) \/ SearchEnds(t) \/ Fuse(t) \/ QuoteEnds(t) \/ Stop(t) \/ Fail(t)
      PROVE  \E s \in Stages \ {"idle", "look", "touch", "take", "ask", "put", "refresh", "store"} : Goto(t, s)
  <2>1. {"search", "fuse", "quote", "done", "stopped", "failed"}
          \subseteq Stages \ {"idle", "look", "touch", "take", "ask", "put", "refresh", "store"}
    BY DEF Stages
  <2> QED BY <1>7, <2>1 DEF Own, SearchEnds, Fuse, QuoteEnds, Stop, Fail
<1>8. ASSUME NEW t \in Searches, Search(t) \/ Quote(t) PROVE UNCHANGED stage
  BY <1>8 DEF Search, Quote
<1>9. ASSUME NEW t \in Searches, Step(t) PROVE \A u \in Searches : Preparing(u)' => Preparing(u)
  BY <1>2, <1>3, <1>6, <1>7, <1>8, <1>9 DEF Step
<1>10. ASSUME NEW t \in Searches, Stop(t) \/ Fail(t) PROVE \A u \in Searches : Preparing(u)' => Preparing(u)
  BY <1>2, <1>7, <1>10
<1> QED BY <1>3, <1>4, <1>5, <1>9, <1>10 DEF Next

(* Only who asks changes its question, and sees for whom.                  *)
LEMMA QuestionSteps ==
  ASSUME RetrievalInv, Next
  PROVE  \A u \in Searches : stage[u] # "idle" => query'[u] = query[u] /\ viewers'[u] = viewers[u]
<1>1. DOMAIN query = Searches /\ DOMAIN viewers = Searches
  BY DEF RetrievalInv, Typed, ThreadsTyped
<1>2. ASSUME NEW t \in Searches, NEW q \in Queries, NEW view \in Views, Ask(t, q, view)
      PROVE  \A u \in Searches : stage[u] # "idle" => query'[u] = query[u] /\ viewers'[u] = viewers[u]
  BY <1>1, <1>2 DEF Ask
<1>3. ASSUME NEW d \in Docs, DocumentComes(d) \/ DocumentGoes(d) PROVE UNCHANGED <<query, viewers>>
  BY <1>3 DEF DocumentComes, DocumentGoes
<1>4. ASSUME NEW t \in Searches, Step(t) \/ Stop(t) \/ Fail(t) PROVE UNCHANGED <<query, viewers>>
  BY <1>4 DEF Step, Look, Touch, Take, Reply, ReplyFails, Put, Refresh, StoreList, Own, Search, SearchEnds,
              Fuse, Quote, QuoteEnds, Stop, Fail
<1> QED BY <1>2, <1>3, <1>4 DEF Next

(* A search that is preparing makes its list.                              *)
Makes(t) ==
  /\ Preparing(t)
  /\ \E s \in Seq(Meant(Normal[query'[t]])) : Has(t, s)
  /\ UNCHANGED <<cache, at, searched, found, hits, passages>>
  /\ stage'[t] \notin {"idle", "search", "fuse", "quote", "done"}
  /\ \A u \in Searches : u # t => query'[u] = query[u] /\ stage'[u] = stage[u]

LEMMA MakesMeant ==
  ASSUME RetrievalInv, NEW q \in Queries
  PROVE  <<q>> \in Seq(Meant(Normal[q]))
<1>1. q \in Meant(Normal[q])
  BY DEF Meant
<1> QED BY <1>1

LEMMA ListSteps ==
  ASSUME RetrievalInv, Next
  PROVE  \/ UNCHANGED <<lists, list>>
         \/ \E t \in Searches : Makes(t) \/ Take(t) \/ Own(t)
<1>1. stage \in [Searches -> Stages] /\ query \in [Searches -> Queries]
  BY DEF RetrievalInv, Typed, ThreadsTyped
<1>2. ASSUME NEW t \in Searches, NEW q \in Queries, NEW view \in Views, Ask(t, q, view)
      PROVE  UNCHANGED <<lists, list>> \/ Makes(t)
  <2>1. CASE UNCHANGED <<lists, list>>
    BY <2>1
  <2>2. CASE ~UNCHANGED <<lists, list>>
    <3>1. /\ stage[t] = "idle" /\ Has(t, <<q>>) /\ Goto(t, "own") /\ query' = [query EXCEPT ![t] = q]
          /\ UNCHANGED <<cache, at, searched, found, hits, passages>>
      BY <1>2, <2>2 DEF Ask, hitVars
    <3>2. query'[t] = q /\ \A u \in Searches : u # t => query'[u] = query[u] /\ stage'[u] = stage[u]
      BY <1>1, <3>1 DEF Goto
    <3>3. <<q>> \in Seq(Meant(Normal[query'[t]]))
      BY <3>2, MakesMeant
    <3>4. Preparing(t) /\ stage'[t] \notin {"idle", "search", "fuse", "quote", "done"}
      BY <1>1, <3>1 DEF Preparing, Goto
    <3> QED BY <3>1, <3>2, <3>3, <3>4 DEF Makes
  <2> QED BY <2>1, <2>2
<1>3. ASSUME NEW t \in Searches, Reply(t) PROVE Makes(t)
  <2>1. /\ stage[t] = "ask" /\ Goto(t, "put") /\ UNCHANGED <<query, cache, at, searched, found, hits, passages>>
        /\ \E reply \in Rewritings[Key(t)] : Has(t, Rewritten(query[t], reply))
    BY <1>3 DEF Reply, hitVars
  <2>2. PICK reply \in Rewritings[Normal[query[t]]] : Has(t, Rewritten(query[t], reply))
    BY <2>1 DEF Key
  <2>3. Rewritten(query[t], reply) \in Seq(Meant(Normal[query[t]]))
    BY <1>1, RewrittenMembers
  <2>4. /\ Preparing(t) /\ stage'[t] \notin {"idle", "search", "fuse", "quote", "done"}
        /\ \A u \in Searches : u # t => query'[u] = query[u] /\ stage'[u] = stage[u]
    BY <1>1, <2>1 DEF Goto, Preparing
  <2> QED BY <2>1, <2>2, <2>3, <2>4 DEF Makes
<1>4. ASSUME NEW t \in Searches, ReplyFails(t) \/ Refresh(t), ~UNCHANGED <<lists, list>> PROVE Makes(t)
  <2>1. /\ stage[t] \in {"ask", "refresh"} /\ Goto(t, "own")
        /\ UNCHANGED <<query, cache, at, searched, found, hits, passages>>
        /\ Has(t, <<query[t]>>)
    BY <1>4 DEF ReplyFails, Refresh, hitVars
  <2>2. <<query[t]>> \in Seq(Meant(Normal[query[t]]))
    BY <1>1, MakesMeant
  <2>3. /\ Preparing(t) /\ stage'[t] \notin {"idle", "search", "fuse", "quote", "done"}
        /\ \A u \in Searches : u # t => query'[u] = query[u] /\ stage'[u] = stage[u]
    BY <1>1, <2>1 DEF Goto, Preparing
  <2> QED BY <2>1, <2>2, <2>3 DEF Makes
<1>5. ASSUME NEW d \in Docs, DocumentComes(d) \/ DocumentGoes(d) PROVE UNCHANGED <<lists, list>>
  BY <1>5 DEF DocumentComes, DocumentGoes, cacheVars
<1>6. ASSUME NEW t \in Searches,
             \/ Look(t) \/ Touch(t) \/ Put(t) \/ StoreList(t) \/ Search(t) \/ SearchEnds(t)
             \/ Fuse(t) \/ Quote(t) \/ QuoteEnds(t) \/ Stop(t) \/ Fail(t)
      PROVE  UNCHANGED <<lists, list>>
  BY <1>6 DEF Look, Touch, Put, StoreList, Search, SearchEnds, Fuse, Quote, QuoteEnds, Stop, Fail, cacheVars
<1> QED BY <1>2, <1>3, <1>4, <1>5, <1>6 DEF Next, Step

LEMMA PlacesInListsStep ==
  ASSUME RetrievalInv, Next
  PROVE  PlacesInLists'
<1>1. /\ lists \in [Searches -> Seq(Queries)] /\ list \in [Searches -> Searches]
      /\ at \in [Searches -> Nat \ {0}] /\ query \in [Searches -> Queries]
      /\ \A u \in Searches : at[u] <= Len(lists[list[u]]) + 1
  BY DEF RetrievalInv, Typed, ThreadsTyped, ListsTyped, CacheInv, PlacesInLists
<1>2. \A u \in Searches : Len(lists[u]) \in Nat
  BY <1>1, LenProperties
<1>3. /\ \A u \in Searches : Preparing(u) => at[u] = 1
      /\ \A t, u \in Searches : Preparing(t) => (list[u] = t <=> u = t)
  BY DEF RetrievalInv, CacheInv, ListsArePrivate, NothingFoundYet
<1>4. ASSUME NEW t \in Searches, Makes(t) PROVE PlacesInLists'
  <2>1. PICK s \in Seq(Meant(Normal[query'[t]])) : Has(t, s)
    BY <1>4 DEF Makes
  <2>2. Len(s) \in Nat
    BY LenProperties
  <2>3. /\ at' = at /\ lists' = [lists EXCEPT ![t] = s] /\ list' = [list EXCEPT ![t] = t] /\ Preparing(t)
    BY <1>4, <2>1 DEF Makes, Has
  <2>4. at'[t] <= Len(lists'[list'[t]]) + 1
    BY <1>1, <1>3, <2>2, <2>3
  <2>5. \A u \in Searches : u # t => at'[u] <= Len(lists'[list'[u]]) + 1
    BY <1>1, <1>3, <2>3
  <2> QED BY <2>4, <2>5 DEF PlacesInLists
<1>5. ASSUME NEW t \in Searches, Take(t) PROVE PlacesInLists'
  <2>1. /\ at' = at /\ lists' = lists /\ at[t] = 1 /\ \A u \in Searches : u # t => list'[u] = list[u]
    BY <1>1, <1>3, <1>5 DEF Take, hitVars, Preparing
  <2>2. list'[t] \in Searches
    <3>1. list' \in [Searches -> Searches]
      BY TypedStep DEF Typed, ListsTyped
    <3> QED BY <3>1
  <2> SUFFICES ASSUME NEW u \in Searches PROVE at'[u] <= Len(lists'[list'[u]]) + 1
    BY DEF PlacesInLists
  <2>3. CASE u = t
    <3>1. PICK n \in Nat : n = Len(lists[list'[t]])
      BY <1>2, <2>2
    <3> QED BY <2>1, <2>3, <3>1
  <2>4. CASE u # t
    BY <1>1, <2>1, <2>4
  <2> QED BY <2>3, <2>4
<1>6. ASSUME NEW t \in Searches, Own(t) PROVE PlacesInLists'
  <2>1. at' = at /\ list' = list /\ (lists' = lists \/ lists' = [lists EXCEPT ![list[t]] = <<query[t]>> \o @])
    BY <1>6 DEF Own, hitVars
  <2>2. Len(<<query[t]>> \o lists[list[t]]) = 1 + Len(lists[list[t]])
    BY <1>1, ConcatProperties
  <2>3. ASSUME NEW v \in Searches
        PROVE  Len(lists'[v]) = Len(lists[v]) \/ Len(lists'[v]) = 1 + Len(lists[v])
    <3>1. CASE lists' = lists
      BY <3>1
    <3>2. CASE lists' = [lists EXCEPT ![list[t]] = <<query[t]>> \o @] /\ v = list[t]
      <4>1. lists'[v] = <<query[t]>> \o lists[v]
        BY <1>1, <3>2
      <4> QED BY <2>2, <3>2, <4>1
    <3>3. CASE lists' = [lists EXCEPT ![list[t]] = <<query[t]>> \o @] /\ v # list[t]
      <4>1. lists'[v] = lists[v]
        BY <1>1, <3>3
      <4> QED BY <4>1
    <3> QED BY <2>1, <3>1, <3>2, <3>3
  <2> SUFFICES ASSUME NEW u \in Searches PROVE at'[u] <= Len(lists'[list'[u]]) + 1
    BY DEF PlacesInLists
  <2>4. PICK n \in Nat, a \in Nat : n = Len(lists[list[u]]) /\ a = at[u] /\ a <= n + 1
    BY <1>1, <1>2
  <2>5. PICK m : m = Len(lists'[list[u]]) /\ (m = n \/ m = 1 + n)
    BY <1>1, <2>3, <2>4
  <2>6. a <= m + 1
    BY <2>4, <2>5
  <2> QED BY <2>1, <2>4, <2>5, <2>6
<1>7. ASSUME NEW t \in Searches, Search(t) PROVE PlacesInLists'
  <2>1. /\ lists' = lists /\ list' = list /\ at' = [at EXCEPT ![t] = @ + 1] /\ at[t] <= Len(lists[list[t]])
    BY <1>7 DEF Search, cacheVars
  <2> SUFFICES ASSUME NEW u \in Searches PROVE at'[u] <= Len(lists'[list'[u]]) + 1
    BY DEF PlacesInLists
  <2>2. CASE u = t
    <3>1. PICK n \in Nat, a \in Nat : n = Len(lists[list[t]]) /\ a = at[t] /\ a <= n
      BY <1>1, <1>2, <2>1
    <3>2. at'[t] = a + 1
      BY <1>1, <2>1, <3>1
    <3> QED BY <2>1, <2>2, <3>1, <3>2
  <2>3. CASE u # t
    BY <1>1, <2>1, <2>3
  <2> QED BY <2>2, <2>3
<1>8. CASE UNCHANGED <<lists, list, at>>
  BY <1>1, <1>8 DEF PlacesInLists
<1>9. UNCHANGED at \/ \E t \in Searches : Search(t)
  <2>1. ASSUME NEW d \in Docs, DocumentComes(d) \/ DocumentGoes(d) PROVE UNCHANGED at
    BY <2>1 DEF DocumentComes, DocumentGoes, hitVars
  <2>2. ASSUME NEW t \in Searches, NEW q \in Queries, NEW view \in Views, Ask(t, q, view) PROVE UNCHANGED at
    BY <2>2 DEF Ask, hitVars
  <2>3. ASSUME NEW t \in Searches,
               \/ Look(t) \/ Touch(t) \/ Take(t) \/ Reply(t) \/ ReplyFails(t) \/ Put(t) \/ Refresh(t)
               \/ StoreList(t) \/ Own(t) \/ SearchEnds(t) \/ Fuse(t) \/ Quote(t) \/ QuoteEnds(t) \/ Stop(t) \/ Fail(t)
        PROVE  UNCHANGED at
    BY <2>3 DEF Look, Touch, Take, Reply, ReplyFails, Put, Refresh, StoreList, Own, SearchEnds, Fuse, Quote,
                QuoteEnds, Stop, Fail, hitVars
  <2> QED BY <2>1, <2>2, <2>3 DEF Next, Step
<1> QED BY <1>4, <1>5, <1>6, <1>7, <1>8, <1>9, ListSteps

LEMMA ListsArePrivateStep ==
  ASSUME RetrievalInv, Next
  PROVE  ListsArePrivate'
<1>1. stage \in [Searches -> Stages] /\ list \in [Searches -> Searches] /\ cache \in Seq(Entries)
  BY DEF RetrievalInv, Typed, ThreadsTyped, ListsTyped
<1>2. \A t \in Searches : Preparing(t) =>
        /\ \A i \in DOMAIN cache : cache[i].list # t
        /\ \A u \in Searches : list[u] = t <=> u = t
  BY DEF RetrievalInv, CacheInv, ListsArePrivate
<1>3. ASSUME NEW t \in Searches, Preparing(t)'
      PROVE  \A i \in DOMAIN cache' : cache'[i].list # t
  <2>1. Preparing(t)
    BY <1>3, PreparingSteps
  <2>2. CASE UNCHANGED cache
    BY <1>2, <2>1, <2>2
  <2>3. CASE FromCache(cache')
    BY <1>2, <2>1, <2>3 DEF FromCache
  <2>4. ASSUME NEW s \in Searches, StoreList(s) PROVE \A i \in DOMAIN cache' : cache'[i].list # t
    <3>1. s # t
      BY <1>1, <1>3, <2>4 DEF StoreList, Goto, Preparing
    <3>2. [key |-> Key(s), list |-> s].list # t
      BY <3>1
    <3> QED BY <1>2, <2>1, <2>4, <3>2, StoredEntry
  <2> QED BY <2>2, <2>3, <2>4, CacheSteps
<1>4. ASSUME NEW t \in Searches, Preparing(t)'
      PROVE  \A u \in Searches : list'[u] = t <=> u = t
  <2>1. Preparing(t)
    BY <1>4, PreparingSteps
  <2>2. CASE UNCHANGED list
    BY <1>2, <2>1, <2>2
  <2>3. ASSUME NEW s \in Searches, Makes(s) PROVE \A u \in Searches : list'[u] = t <=> u = t
    <3>1. list' = [list EXCEPT ![s] = s]
      BY <2>3 DEF Makes, Has
    <3> QED BY <1>1, <1>2, <2>1, <3>1
  <2>4. ASSUME NEW s \in Searches, Take(s) PROVE \A u \in Searches : list'[u] = t <=> u = t
    <3>1. s # t
      BY <1>1, <1>4, <2>4 DEF Take, Goto, Preparing
    <3>2. CASE UNCHANGED list
      BY <1>2, <2>1, <3>2
    <3>3. CASE ~UNCHANGED list
      <4>1. Cached(Key(s)) /\ list' = [list EXCEPT ![s] = cache[PlaceOf(Key(s))].list]
        BY <2>4, <3>3 DEF Take
      <4>2. cache[PlaceOf(Key(s))].list # t
        BY <1>2, <2>1, <4>1, PlaceOfKey
      <4> QED BY <1>1, <1>2, <2>1, <3>1, <4>1, <4>2
    <3> QED BY <3>2, <3>3
  <2>5. ASSUME NEW s \in Searches, Own(s) PROVE UNCHANGED list
    BY <2>5 DEF Own
  <2> QED BY <2>2, <2>3, <2>4, <2>5, ListSteps
<1> QED BY <1>3, <1>4 DEF ListsArePrivate

LEMMA NothingFoundYetStep ==
  ASSUME RetrievalInv, Next
  PROVE  NothingFoundYet'
<1>1. stage \in [Searches -> Stages] /\ lists \in [Searches -> Seq(Queries)]
  BY DEF RetrievalInv, Typed, ThreadsTyped, ListsTyped
<1>2. \A t \in Searches :
        /\ Preparing(t) \/ stage[t] = "own" => at[t] = 1
        /\ Preparing(t) => searched[t] = {} /\ hits[t] = <<>> /\ passages[t] = <<>> /\ DOMAIN found[t] = {}
        /\ stage[t] = "idle" => lists[t] = <<>>
  BY DEF RetrievalInv, CacheInv, NothingFoundYet
<1>3. \A t \in Searches : /\ Preparing(t)' => Preparing(t)
                          /\ stage'[t] = "own" => Preparing(t) \/ stage[t] = "own"
                          /\ stage'[t] = "idle" => stage[t] = "idle"
  <2>1. \A t \in Searches : Preparing(t)' => Preparing(t)
    BY PreparingSteps
  <2>2. ASSUME NEW t \in Searches, NEW s \in Stages \ {"idle"}, Goto(t, s), Preparing(t) \/ s # "own"
        PROVE  \A u \in Searches : /\ stage'[u] = "own" => Preparing(u) \/ stage[u] = "own"
                                   /\ stage'[u] = "idle" => stage[u] = "idle"
    BY <1>1, <2>2 DEF Goto
  <2>3. CASE UNCHANGED stage
    BY <2>1, <2>3
  <2>4. ASSUME NEW t \in Searches, NEW q \in Queries, NEW view \in Views, Ask(t, q, view)
        PROVE  \E s \in Stages \ {"idle"} : Goto(t, s) /\ Preparing(t)
    <3>1. "look" \in Stages \ {"idle"} /\ "own" \in Stages \ {"idle"}
      BY DEF Stages
    <3> QED BY <2>4, <3>1 DEF Ask, Preparing
  <2>5. ASSUME NEW t \in Searches,
               \/ Look(t) \/ Touch(t) \/ Take(t) \/ Reply(t) \/ ReplyFails(t) \/ Put(t) \/ Refresh(t) \/ StoreList(t)
        PROVE  \E s \in Stages \ {"idle"} : Goto(t, s) /\ Preparing(t)
    <3>1. {"touch", "ask", "take", "failed", "own", "refresh", "store", "put"} \subseteq Stages \ {"idle"}
      BY DEF Stages
    <3> QED BY <2>5, <3>1 DEF Look, Touch, Take, Reply, ReplyFails, Put, Refresh, StoreList, Preparing
  <2>6. ASSUME NEW t \in Searches, Own(t) \/ SearchEnds(t) \/ Fuse(t) \/ QuoteEnds(t) \/ Stop(t) \/ Fail(t)
        PROVE  \E s \in Stages \ {"idle"} : Goto(t, s) /\ s # "own"
    <3>1. {"search", "fuse", "quote", "done", "stopped", "failed"} \subseteq Stages \ {"idle", "own"}
      BY DEF Stages
    <3> QED BY <2>6, <3>1 DEF Own, SearchEnds, Fuse, QuoteEnds, Stop, Fail
  <2>7. ASSUME NEW t \in Searches, Search(t) \/ Quote(t) PROVE UNCHANGED stage
    BY <2>7 DEF Search, Quote
  <2>8. ASSUME NEW d \in Docs, DocumentComes(d) \/ DocumentGoes(d) PROVE UNCHANGED stage
    BY <2>8 DEF DocumentComes, DocumentGoes
  <2>9. \/ UNCHANGED stage
        \/ \E t \in Searches, s \in Stages \ {"idle"} : Goto(t, s) /\ (Preparing(t) \/ s # "own")
    BY <2>4, <2>5, <2>6, <2>7, <2>8 DEF Next, Step
  <2> QED BY <2>1, <2>2, <2>3, <2>9
<1>4. CASE UNCHANGED hitVars
  <2>1. ASSUME NEW t \in Searches, stage'[t] = "idle" PROVE lists'[t] = <<>>
    <3>1. stage[t] = "idle" /\ lists[t] = <<>> /\ Preparing(t)
      BY <1>2, <1>3, <2>1 DEF Preparing
    <3>2. CASE UNCHANGED lists
      BY <3>1, <3>2
    <3>3. ASSUME NEW u \in Searches, Makes(u) PROVE lists'[t] = <<>>
      <4>1. u # t
        BY <2>1, <3>3 DEF Makes
      <4> QED BY <1>1, <3>1, <3>3, <4>1 DEF Makes, Has
    <3>4. ASSUME NEW u \in Searches, Own(u) PROVE lists'[t] = <<>>
      <4>1. list[u] # t
        <5>1. u # t
          BY <3>1, <3>4 DEF Own
        <5> QED BY <3>1, <5>1 DEF RetrievalInv, CacheInv, ListsArePrivate
      <4> QED BY <1>1, <3>1, <3>4, <4>1 DEF Own
    <3>5. ASSUME NEW u \in Searches, Take(u) PROVE UNCHANGED lists
      BY <3>5 DEF Take
    <3> QED BY <3>2, <3>3, <3>4, <3>5, ListSteps
  <2>2. at' = at /\ searched' = searched /\ hits' = hits /\ passages' = passages /\ found' = found
    BY <1>4 DEF hitVars
  <2> QED BY <1>2, <1>3, <2>1, <2>2 DEF NothingFoundYet
<1>5. ASSUME NEW t \in Searches, Search(t) \/ Fuse(t) \/ Quote(t) PROVE NothingFoundYet'
  <2>1. /\ UNCHANGED lists /\ ~Preparing(t) /\ stage[t] # "own"
    BY <1>5 DEF Search, Fuse, Quote, cacheVars, Preparing
  <2>2. \A u \in Searches : u # t => /\ at'[u] = at[u] /\ searched'[u] = searched[u] /\ hits'[u] = hits[u]
                                     /\ passages'[u] = passages[u] /\ found'[u] = found[u]
    <3>1. /\ at \in [Searches -> Nat \ {0}] /\ searched \in [Searches -> SUBSET Queries]
          /\ DOMAIN hits = Searches /\ DOMAIN passages = Searches /\ DOMAIN found = Searches
      BY DEF RetrievalInv, Typed, ListsTyped, HitsTyped
    <3>2. CASE Search(t)
      BY <3>1, <3>2 DEF Search
    <3>3. CASE Fuse(t)
      BY <3>1, <3>3 DEF Fuse
    <3>4. CASE Quote(t)
      BY <3>1, <3>4 DEF Quote
    <3> QED BY <1>5, <3>2, <3>3, <3>4
  <2> QED BY <1>2, <1>3, <2>1, <2>2 DEF NothingFoundYet
<1>6. UNCHANGED hitVars \/ \E t \in Searches : Search(t) \/ Fuse(t) \/ Quote(t)
  <2>1. ASSUME NEW d \in Docs, DocumentComes(d) \/ DocumentGoes(d) PROVE UNCHANGED hitVars
    BY <2>1 DEF DocumentComes, DocumentGoes
  <2>2. ASSUME NEW t \in Searches, NEW q \in Queries, NEW view \in Views, Ask(t, q, view) PROVE UNCHANGED hitVars
    BY <2>2 DEF Ask
  <2>3. ASSUME NEW t \in Searches,
               \/ Look(t) \/ Touch(t) \/ Take(t) \/ Reply(t) \/ ReplyFails(t) \/ Put(t) \/ Refresh(t)
               \/ StoreList(t) \/ Own(t) \/ SearchEnds(t) \/ QuoteEnds(t) \/ Stop(t) \/ Fail(t)
        PROVE  UNCHANGED hitVars
    BY <2>3 DEF Look, Touch, Take, Reply, ReplyFails, Put, Refresh, StoreList, Own, SearchEnds, QuoteEnds, Stop, Fail
  <2> QED BY <2>1, <2>2, <2>3 DEF Next, Step
<1> QED BY <1>4, <1>5, <1>6

LEMMA CacheInvStep ==
  ASSUME RetrievalInv, Next
  PROVE  CacheInv'
BY OneEntryPerKeyStep, PlacesInListsStep, ListsArePrivateStep, NothingFoundYetStep DEF CacheInv

-----------------------------------------------------------------------------
(* Whoever shares a list asks the same                                     *)

(* A list that others use belongs to a search that has asked.              *)
LEMMA SharedHaveAsked ==
  ASSUME RetrievalInv
  PROVE  /\ \A t \in Searches : list[t] # t => stage[t] # "idle" /\ stage[list[t]] # "idle"
         /\ \A i \in DOMAIN cache : cache[i].list \in Searches /\ stage[cache[i].list] # "idle"
<1>1. cache \in Seq(Entries) /\ list \in [Searches -> Searches]
  BY DEF RetrievalInv, Typed, ListsTyped
<1>2. \A t \in Searches : stage[t] = "idle" => /\ \A i \in DOMAIN cache : cache[i].list # t
                                               /\ \A u \in Searches : list[u] = t <=> u = t
  BY DEF RetrievalInv, CacheInv, ListsArePrivate, Preparing
<1>3. \A i \in DOMAIN cache : cache[i].list \in Searches
  <2>1. \A i \in DOMAIN cache : cache[i] \in Entries
    BY <1>1, ElementOfSeq, LenProperties
  <2> QED BY <2>1 DEF Entries
<1> QED BY <1>1, <1>2, <1>3

LEMMA EntriesNameTheirKeyStep ==
  ASSUME RetrievalInv, Next
  PROVE  EntriesNameTheirKey'
<1>1. \A i \in DOMAIN cache : Normal[query[cache[i].list]] = cache[i].key
  BY DEF RetrievalInv, MeaningInv, EntriesNameTheirKey, Key
<1>2. \A i \in DOMAIN cache : Normal[query'[cache[i].list]] = cache[i].key
  BY <1>1, SharedHaveAsked, QuestionSteps
<1>3. CASE UNCHANGED cache
  BY <1>2, <1>3 DEF EntriesNameTheirKey, Key
<1>4. CASE FromCache(cache')
  BY <1>2, <1>4 DEF EntriesNameTheirKey, Key, FromCache
<1>5. ASSUME NEW t \in Searches, StoreList(t) PROVE EntriesNameTheirKey'
  <2>1. query' = query
    BY <1>5 DEF StoreList
  <2>2. \A i \in DOMAIN cache' : \/ cache'[i] = [key |-> Key(t), list |-> t]
                                 \/ i \in DOMAIN cache /\ cache'[i] = cache[i]
    BY <1>5, StoredEntry
  <2>3. \A i \in DOMAIN cache' : Normal[query[cache'[i].list]] = cache'[i].key
    BY <1>1, <2>2 DEF Key
  <2> QED BY <2>1, <2>3 DEF EntriesNameTheirKey, Key
<1> QED BY <1>3, <1>4, <1>5, CacheSteps

LEMMA ListsHaveOneKeyStep ==
  ASSUME RetrievalInv, Next
  PROVE  ListsHaveOneKey'
<1>1. list \in [Searches -> Searches] /\ \A t \in Searches : Normal[query[list[t]]] = Normal[query[t]]
  BY DEF RetrievalInv, Typed, ListsTyped, MeaningInv, ListsHaveOneKey, Key
<1>2. \A t \in Searches : Normal[query'[list[t]]] = Normal[query'[t]]
  BY <1>1, SharedHaveAsked, QuestionSteps
<1>3. CASE UNCHANGED list
  BY <1>2, <1>3 DEF ListsHaveOneKey, Key
<1>4. ASSUME NEW t \in Searches, Makes(t) PROVE ListsHaveOneKey'
  <2>1. list' = [list EXCEPT ![t] = t]
    BY <1>4 DEF Makes, Has
  <2>2. \A u \in Searches : list'[u] = u \/ list'[u] = list[u]
    BY <1>1, <2>1
  <2> QED BY <1>2, <2>2 DEF ListsHaveOneKey, Key
<1>5. ASSUME NEW t \in Searches, Take(t), ~UNCHANGED list PROVE ListsHaveOneKey'
  <2>1. query' = query /\ Cached(Key(t)) /\ list' = [list EXCEPT ![t] = cache[PlaceOf(Key(t))].list]
    BY <1>5 DEF Take
  <2>2. PICK i \in DOMAIN cache : i = PlaceOf(Key(t)) /\ cache[i].key = Key(t)
    BY <2>1, PlaceOfKey
  <2>3. Normal[query[cache[i].list]] = Normal[query[t]]
    BY <2>2 DEF RetrievalInv, MeaningInv, EntriesNameTheirKey, Key
  <2>4. \A u \in Searches : list'[u] = IF u = t THEN cache[i].list ELSE list[u]
    BY <1>1, <2>1, <2>2
  <2> QED BY <1>1, <2>1, <2>3, <2>4 DEF ListsHaveOneKey, Key
<1>6. ASSUME NEW t \in Searches, Own(t) PROVE UNCHANGED list
  BY <1>6 DEF Own
<1> QED BY <1>3, <1>4, <1>5, <1>6, ListSteps

LEMMA ListsAreMeantStep ==
  ASSUME RetrievalInv, Next
  PROVE  ListsAreMeant'
<1>1. /\ lists \in [Searches -> Seq(Queries)] /\ list \in [Searches -> Searches] /\ query \in [Searches -> Queries]
      /\ \A t \in Searches : lists[t] \in Seq(Meant(Normal[query[t]]))
  BY DEF RetrievalInv, Typed, ThreadsTyped, ListsTyped, MeaningInv, ListsAreMeant, Key
<1>2. \A t \in Searches : lists[t] \in Seq(Meant(Normal[query'[t]]))
  <2> SUFFICES ASSUME NEW t \in Searches PROVE lists[t] \in Seq(Meant(Normal[query'[t]]))
    OBVIOUS
  <2>1. CASE stage[t] = "idle"
    <3>1. lists[t] = <<>>
      BY <2>1 DEF RetrievalInv, CacheInv, NothingFoundYet
    <3> QED BY <3>1
  <2>2. CASE stage[t] # "idle"
    BY <1>1, <2>2, QuestionSteps
  <2> QED BY <2>1, <2>2
<1>3. SUFFICES \A t \in Searches : lists'[t] \in Seq(Meant(Normal[query'[t]]))
  BY DEF ListsAreMeant, Key, Meant
<1>4. CASE UNCHANGED lists
  BY <1>2, <1>4
<1>5. ASSUME NEW t \in Searches, Makes(t) PROVE \A u \in Searches : lists'[u] \in Seq(Meant(Normal[query'[u]]))
  <2>1. PICK s \in Seq(Meant(Normal[query'[t]])) : lists' = [lists EXCEPT ![t] = s]
    BY <1>5 DEF Makes, Has
  <2> QED BY <1>1, <1>2, <2>1
<1>6. ASSUME NEW t \in Searches, Own(t) PROVE \A u \in Searches : lists'[u] \in Seq(Meant(Normal[query'[u]]))
  <2>1. query' = query /\ (lists' = lists \/ lists' = [lists EXCEPT ![list[t]] = <<query[t]>> \o @])
    BY <1>6 DEF Own
  <2>2. PICK key : key = Normal[query[t]] /\ key = Normal[query[list[t]]]
    BY DEF RetrievalInv, MeaningInv, ListsHaveOneKey, Key
  <2>3. <<query[t]>> \in Seq(Meant(key))
    BY <1>1, <2>2, MakesMeant
  <2>4. lists[list[t]] \in Seq(Meant(key))
    BY <1>1, <2>2
  <2>5. <<query[t]>> \o lists[list[t]] \in Seq(Meant(key))
    BY <2>3, <2>4, ConcatProperties
  <2>6. CASE lists' = lists
    BY <1>2, <2>6
  <2>7. CASE lists' = [lists EXCEPT ![list[t]] = <<query[t]>> \o @]
    <3>1. \A u \in Searches : lists'[u] = IF u = list[t] THEN <<query[t]>> \o lists[list[t]] ELSE lists[u]
      BY <1>1, <2>7
    <3> QED BY <1>1, <2>1, <2>2, <2>5, <3>1
  <2> QED BY <2>1, <2>6, <2>7
<1>7. ASSUME NEW t \in Searches, Take(t) PROVE UNCHANGED lists
  BY <1>7 DEF Take
<1> QED BY <1>4, <1>5, <1>6, <1>7, ListSteps

(* What was searched is known only to the search.                          *)
LEMMA SearchedSteps ==
  ASSUME RetrievalInv, Next
  PROVE  UNCHANGED <<at, searched>> \/ \E t \in Searches : Search(t)
<1>1. ASSUME NEW d \in Docs, DocumentComes(d) \/ DocumentGoes(d) PROVE UNCHANGED <<at, searched>>
  BY <1>1 DEF DocumentComes, DocumentGoes, hitVars
<1>2. ASSUME NEW t \in Searches, NEW q \in Queries, NEW view \in Views, Ask(t, q, view)
      PROVE  UNCHANGED <<at, searched>>
  BY <1>2 DEF Ask, hitVars
<1>3. ASSUME NEW t \in Searches,
             \/ Look(t) \/ Touch(t) \/ Take(t) \/ Reply(t) \/ ReplyFails(t) \/ Put(t) \/ Refresh(t)
             \/ StoreList(t) \/ Own(t) \/ SearchEnds(t) \/ Fuse(t) \/ Quote(t) \/ QuoteEnds(t) \/ Stop(t) \/ Fail(t)
      PROVE  UNCHANGED <<at, searched>>
  BY <1>3 DEF Look, Touch, Take, Reply, ReplyFails, Put, Refresh, StoreList, Own, SearchEnds, Fuse, Quote,
              QuoteEnds, Stop, Fail, hitVars
<1> QED BY <1>1, <1>2, <1>3 DEF Next, Step

LEMMA SearchedIsMeantStep ==
  ASSUME RetrievalInv, Next
  PROVE  SearchedIsMeant'
<1>1. SUFFICES \A t \in Searches : searched'[t] \subseteq Meant(Normal[query'[t]])
  BY DEF SearchedIsMeant, Key, Meant
<1>2. /\ searched \in [Searches -> SUBSET Queries] /\ list \in [Searches -> Searches]
      /\ \A t \in Searches : searched[t] \subseteq Meant(Normal[query[t]])
  BY DEF RetrievalInv, Typed, ListsTyped, MeaningInv, SearchedIsMeant, Key
<1>3. \A t \in Searches : searched[t] \subseteq Meant(Normal[query'[t]])
  <2> SUFFICES ASSUME NEW t \in Searches PROVE searched[t] \subseteq Meant(Normal[query'[t]])
    OBVIOUS
  <2>1. CASE stage[t] = "idle"
    BY <2>1 DEF RetrievalInv, CacheInv, NothingFoundYet, Preparing
  <2>2. CASE stage[t] # "idle"
    BY <1>2, <2>2, QuestionSteps
  <2> QED BY <2>1, <2>2
<1>4. CASE UNCHANGED searched
  BY <1>3, <1>4
<1>5. ASSUME NEW t \in Searches, Search(t)
      PROVE  \A u \in Searches : searched'[u] \subseteq Meant(Normal[query'[u]])
  <2>1. PICK q : q = lists[list[t]][at[t]] /\ searched' = [searched EXCEPT ![t] = @ \cup {q}]
    BY <1>5 DEF Search
  <2>2. at[t] \in DOMAIN lists[list[t]]
    BY <1>5, SearchedQuery DEF RetrievalInv
  <2>3. lists[list[t]] \in Seq(Meant(Normal[query[t]]))
    BY <1>2 DEF RetrievalInv, MeaningInv, ListsHaveOneKey, ListsAreMeant, Key
  <2>4. q \in Meant(Normal[query[t]])
    BY <2>1, <2>2, <2>3, ElementOfSeq, LenProperties
  <2>5. query' = query
    BY <1>5 DEF Search
  <2> QED BY <1>2, <1>3, <2>1, <2>4, <2>5
<1> QED BY <1>4, <1>5, SearchedSteps

(* A list that is being searched only grows at its beginning.              *)
LEMMA ListsGrow ==
  ASSUME RetrievalInv, Next, NEW t \in Searches, stage[t] = "search"
  PROVE  /\ list'[t] = list[t]
         /\ \/ lists'[list[t]] = lists[list[t]]
            \/ \E u \in Searches : lists'[list[t]] = <<query[u]>> \o lists[list[t]]
<1>1. /\ lists \in [Searches -> Seq(Queries)] /\ list \in [Searches -> Searches]
  BY DEF RetrievalInv, Typed, ListsTyped
<1>2. ~Preparing(t) /\ \A u \in Searches : Preparing(u) => list[t] # u
  BY DEF Preparing, RetrievalInv, CacheInv, ListsArePrivate
<1>3. CASE UNCHANGED <<lists, list>>
  BY <1>3
<1>4. ASSUME NEW u \in Searches, Makes(u) PROVE list'[t] = list[t] /\ lists'[list[t]] = lists[list[t]]
  BY <1>1, <1>2, <1>4 DEF Makes, Has
<1>5. ASSUME NEW u \in Searches, Take(u) PROVE list'[t] = list[t] /\ lists'[list[t]] = lists[list[t]]
  BY <1>1, <1>5 DEF Take
<1>6. ASSUME NEW u \in Searches, Own(u)
      PROVE  /\ list'[t] = list[t]
             /\ lists'[list[t]] = lists[list[t]] \/ lists'[list[t]] = <<query[u]>> \o lists[list[t]]
  BY <1>1, <1>6 DEF Own
<1> QED BY <1>3, <1>4, <1>5, <1>6, ListSteps

LEMMA StageSteps ==
  ASSUME RetrievalInv, Next, NEW t \in Searches
  PROVE  \/ stage'[t] = stage[t]
         \/ stage'[t] \notin {"search", "fuse", "quote", "done"}
         \/ Own(t) \/ SearchEnds(t) \/ Fuse(t) \/ QuoteEnds(t)
<1>1. stage \in [Searches -> Stages]
  BY DEF RetrievalInv, Typed, ThreadsTyped
<1>2. ASSUME NEW u \in Searches, u # t,
             Own(u) \/ SearchEnds(u) \/ Fuse(u) \/ QuoteEnds(u)
      PROVE  stage'[t] = stage[t]
  BY <1>1, <1>2 DEF Own, SearchEnds, Fuse, QuoteEnds, Goto
<1>3. ASSUME NEW u \in Searches,
             Look(u) \/ Touch(u) \/ Take(u) \/ Reply(u) \/ ReplyFails(u) \/ Put(u) \/ Refresh(u) \/ StoreList(u)
             \/ Stop(u) \/ Fail(u)
      PROVE  stage'[t] = stage[t] \/ stage'[t] \notin {"search", "fuse", "quote", "done"}
  BY <1>1, <1>3 DEF Look, Touch, Take, Reply, ReplyFails, Put, Refresh, StoreList, Stop, Fail, Goto
<1>4. ASSUME NEW u \in Searches, NEW q \in Queries, NEW view \in Views, Ask(u, q, view)
      PROVE  stage'[t] = stage[t] \/ stage'[t] \notin {"search", "fuse", "quote", "done"}
  BY <1>1, <1>4 DEF Ask, Goto
<1>5. ASSUME NEW u \in Searches, Search(u) \/ Quote(u) PROVE UNCHANGED stage
  BY <1>5 DEF Search, Quote
<1>6. ASSUME NEW d \in Docs, DocumentComes(d) \/ DocumentGoes(d) PROVE UNCHANGED stage
  BY <1>6 DEF DocumentComes, DocumentGoes
<1> QED BY <1>2, <1>3, <1>4, <1>5, <1>6 DEF Next, Step

LEMMA OwnIsListedStep ==
  ASSUME RetrievalInv, Next
  PROVE  OwnIsListed'
<1>1. /\ lists \in [Searches -> Seq(Queries)] /\ list \in [Searches -> Searches]
      /\ at \in [Searches -> Nat \ {0}] /\ searched \in [Searches -> SUBSET Queries]
      /\ query \in [Searches -> Queries]
  BY DEF RetrievalInv, Typed, ThreadsTyped, ListsTyped
<1>2. \A t \in Searches :
        /\ stage[t] = "search" =>
             \/ query[t] \in searched[t]
             \/ \E i \in DOMAIN lists[list[t]] : i >= at[t] /\ lists[list[t]][i] = query[t]
        /\ stage[t] \in {"fuse", "quote", "done"} => query[t] \in searched[t]
  BY DEF RetrievalInv, MeaningInv, OwnIsListed, Searched
<1>3. \A t \in Searches : stage[t] # "idle" => query'[t] = query[t]
  BY QuestionSteps
<1>4. \A t \in Searches : searched[t] \subseteq searched'[t]
  <2>1. ASSUME NEW u \in Searches, Search(u) PROVE \A t \in Searches : searched[t] \subseteq searched'[t]
    BY <1>1, <2>1 DEF Search
  <2> QED BY <2>1, SearchedSteps
<1>5. ASSUME NEW t \in Searches, Own(t)
      PROVE  \E i \in DOMAIN lists'[list'[t]] : i >= at'[t] /\ lists'[list'[t]][i] = query'[t]
  <2>1. /\ stage[t] = "own" /\ UNCHANGED <<list, at, query>>
        /\ lists' = IF query[t] \in ToSet(lists[list[t]]) THEN lists
                    ELSE [lists EXCEPT ![list[t]] = <<query[t]>> \o @]
    BY <1>5 DEF Own, hitVars
  <2>2. at[t] = 1
    BY <2>1 DEF RetrievalInv, CacheInv, NothingFoundYet
  <2>3. PICK i \in DOMAIN lists'[list[t]] : lists'[list[t]][i] = query[t]
    <3>1. CASE query[t] \in ToSet(lists[list[t]])
      BY <2>1, <3>1 DEF ToSet
    <3>2. CASE query[t] \notin ToSet(lists[list[t]])
      <4>1. lists'[list[t]] = <<query[t]>> \o lists[list[t]]
        BY <1>1, <2>1, <3>2
      <4>2. <<query[t]>> \in Seq(Queries) /\ lists[list[t]] \in Seq(Queries)
        BY <1>1
      <4>3. query[t] \in ToSet(lists'[list[t]])
        <5>1. query[t] \in ToSet(<<query[t]>>)
          BY DEF ToSet
        <5>2. ToSet(<<query[t]>> \o lists[list[t]]) = ToSet(<<query[t]>>) \cup ToSet(lists[list[t]])
          BY <4>2, JoinedMembers
        <5> QED BY <4>1, <5>1, <5>2
      <4> QED BY <4>3 DEF ToSet
    <3> QED BY <3>1, <3>2
  <2>4. i >= 1
    <3>1. lists'[list[t]] \in Seq(Queries)
      BY <1>1, TypedStep DEF Typed, ListsTyped
    <3>2. DOMAIN lists'[list[t]] = 1..Len(lists'[list[t]]) /\ Len(lists'[list[t]]) \in Nat
      BY <3>1, LenProperties
    <3> QED BY <2>3, <3>2
  <2> QED BY <2>1, <2>2, <2>3, <2>4
<1>6. ASSUME NEW t \in Searches, stage[t] = "search"
      PROVE  \/ query'[t] \in searched'[t]
             \/ \E i \in DOMAIN lists'[list'[t]] : i >= at'[t] /\ lists'[list'[t]][i] = query'[t]
  <2>1. query'[t] = query[t]
    BY <1>3, <1>6
  <2>2. CASE query[t] \in searched[t]
    BY <1>4, <2>1, <2>2
  <2>3. CASE query[t] \notin searched[t]
    <3>1. PICK i \in DOMAIN lists[list[t]] : i >= at[t] /\ lists[list[t]][i] = query[t]
      BY <1>2, <1>6, <2>3
    <3>2. PICK n \in Nat : n = Len(lists[list[t]]) /\ DOMAIN lists[list[t]] = 1..n
      BY <1>1, LenProperties
    <3>3. CASE Search(t)
      <4>1. /\ UNCHANGED <<lists, list>> /\ at'[t] = at[t] + 1
            /\ searched'[t] = searched[t] \cup {lists[list[t]][at[t]]}
        BY <1>1, <3>3 DEF Search, cacheVars
      <4>2. CASE i = at[t]
        BY <2>1, <3>1, <4>1, <4>2
      <4>3. CASE i # at[t]
        <5>1. i >= at'[t]
          BY <1>1, <3>1, <3>2, <4>1, <4>3
        <5> QED BY <2>1, <3>1, <4>1, <5>1
      <4> QED BY <4>2, <4>3
    <3>4. CASE ~Search(t)
      <4>1. at'[t] = at[t]
        <5>1. ASSUME NEW u \in Searches, Search(u), u # t PROVE at'[t] = at[t]
          BY <1>1, <5>1 DEF Search
        <5> QED BY <3>4, <5>1, SearchedSteps
      <4>2. CASE lists'[list[t]] = lists[list[t]]
        BY <1>6, <2>1, <3>1, <4>1, <4>2, ListsGrow
      <4>3. ASSUME NEW u \in Searches, lists'[list[t]] = <<query[u]>> \o lists[list[t]]
            PROVE  \E k \in DOMAIN lists'[list'[t]] : k >= at'[t] /\ lists'[list'[t]][k] = query'[t]
        <5>1. <<query[u]>> \in Seq(Queries) /\ lists[list[t]] \in Seq(Queries) /\ Len(<<query[u]>>) = 1
          BY <1>1
        <5>2. PICK new : new = lists'[list[t]]
          OBVIOUS
        <5>3. /\ new \in Seq(Queries) /\ Len(new) = 1 + n
              /\ \A k \in 1..1 + n : new[k] = IF k <= 1 THEN <<query[u]>>[k] ELSE lists[list[t]][k - 1]
          BY <3>2, <4>3, <5>1, <5>2, ConcatProperties
        <5>4. DOMAIN new = 1..1 + n
          BY <5>3, LenProperties
        <5>5. PICK k : k = i + 1
          OBVIOUS
        <5>6. k \in 1..1 + n /\ k >= at[t] /\ new[k] = query[t]
          <6>1. k \in 1..1 + n /\ ~(k <= 1) /\ k - 1 = i /\ k >= at[t]
            BY <1>1, <3>1, <3>2, <5>5
          <6> QED BY <3>1, <5>3, <6>1
        <5>7. list'[t] = list[t]
          BY <1>6, ListsGrow
        <5> QED BY <2>1, <4>1, <5>2, <5>4, <5>6, <5>7
      <4> QED BY <1>6, <4>2, <4>3, ListsGrow
    <3> QED BY <3>3, <3>4
  <2> QED BY <2>2, <2>3
<1>7. ASSUME NEW t \in Searches, stage'[t] = "search"
      PROVE  \/ query'[t] \in searched'[t]
             \/ \E i \in DOMAIN lists'[list'[t]] : i >= at'[t] /\ lists'[list'[t]][i] = query'[t]
  <2>1. CASE stage[t] = "search"
    BY <1>6, <2>1
  <2>2. CASE stage[t] # "search"
    <3>1. SearchEnds(t) \/ Fuse(t) \/ QuoteEnds(t) => stage'[t] # "search"
      <4>1. stage \in [Searches -> Stages]
        BY DEF RetrievalInv, Typed, ThreadsTyped
      <4> QED BY <4>1 DEF SearchEnds, Fuse, QuoteEnds, Goto
    <3>2. Own(t)
      BY <1>7, <2>2, <3>1, StageSteps
    <3> QED BY <1>5, <3>2
  <2> QED BY <2>1, <2>2
<1>8. ASSUME NEW t \in Searches, stage'[t] \in {"fuse", "quote", "done"}
      PROVE  query'[t] \in searched'[t]
  <2>1. CASE stage[t] \in {"fuse", "quote", "done"}
    BY <1>2, <1>3, <1>4, <2>1
  <2>2. CASE stage[t] \notin {"fuse", "quote", "done"}
    <3>1. ~(Own(t) \/ Fuse(t) \/ QuoteEnds(t))
      <4>1. stage \in [Searches -> Stages]
        BY DEF RetrievalInv, Typed, ThreadsTyped
      <4> QED BY <1>8, <2>2, <4>1 DEF Own, Fuse, QuoteEnds, Goto
    <3>2. SearchEnds(t)
      BY <1>8, <2>2, <3>1, StageSteps
    <3>3. stage[t] = "search" /\ at[t] > Len(lists[list[t]])
      BY <3>2 DEF SearchEnds
    <3>4. PICK n \in Nat : n = Len(lists[list[t]]) /\ DOMAIN lists[list[t]] = 1..n
      BY <1>1, LenProperties
    <3>5. ~\E i \in DOMAIN lists[list[t]] : i >= at[t]
      BY <1>1, <3>3, <3>4
    <3>6. query[t] \in searched[t]
      BY <1>2, <3>3, <3>5
    <3> QED BY <1>3, <1>4, <3>3, <3>6
  <2> QED BY <2>1, <2>2
<1> QED BY <1>7, <1>8 DEF OwnIsListed, Searched

LEMMA MeaningInvStep ==
  ASSUME RetrievalInv, Next
  PROVE  MeaningInv'
BY EntriesNameTheirKeyStep, ListsHaveOneKeyStep, ListsAreMeantStep, SearchedIsMeantStep, OwnIsListedStep
   DEF MeaningInv

-----------------------------------------------------------------------------
(* Only what may be seen is found and quoted                               *)

LEMMA WindowMembers ==
  ASSUME NEW t \in Searches, NEW c \in VisibleTo(t)
  PROVE  ToSet(WindowPassage(t, c).texts) \subseteq VisibleTo(t)
<1>1. PICK S \in SUBSET Chunks : S = Neighbours(Store, c, viewers[t])
  BY StoreTyped DEF Neighbours
<1>2. S \subseteq VisibleTo(t)
  BY <1>1 DEF Neighbours, VisibleTo
<1>3. PICK texts : texts = JoinWithin(InOrder(Neighbours(Store, c, viewers[t])), Left(t))
  OBVIOUS
<1>4. texts \in Seq(S)
  BY <1>1, <1>3, InOrderMembers, JoinWithinMembers
<1>5. ToSet(texts) \subseteq VisibleTo(t)
  BY <1>2, <1>4, SequenceMembers
<1>6. ToSet(<<c>>) \subseteq VisibleTo(t)
  BY DEF ToSet
<1>7. WindowPassage(t, c).texts = IF texts = <<>> THEN <<c>> ELSE texts
  BY <1>3 DEF WindowPassage, Passage
<1> QED BY <1>5, <1>6, <1>7

LEMMA SectionMembers ==
  ASSUME NEW t \in Searches, NEW c \in VisibleTo(t)
  PROVE  SectionPassage(t, c) = <<>> \/ \E p : SectionPassage(t, c) = <<p>> /\ ToSet(p.texts) \subseteq VisibleTo(t)
<1>1. PICK S \in SUBSET Chunks : S = SectionChunks(Store, c)
  BY StoreTyped DEF SectionChunks
<1>2. S \subseteq VisibleTo(t)
  BY <1>1 DEF SectionChunks, SameSection, VisibleTo, Visible
<1>3. PICK texts : texts = Pack(SectionChunks(Store, c), c, Min({SectionMax, Left(t)}))
  OBVIOUS
<1>4. c \in Chunks
  BY DEF VisibleTo
<1>5. texts \in Seq(S)
  BY <1>1, <1>3, <1>4, PackMembers
<1>6. ToSet(texts) \subseteq VisibleTo(t)
  BY <1>2, <1>5, SequenceMembers
<1>7. PICK p : p = Passage(c, "section", texts, Separated(texts, 2))
  OBVIOUS
<1>8. p.texts = texts
  BY <1>7 DEF Passage
<1>9. SectionPassage(t, c) = IF texts = <<>> THEN <<>> ELSE <<p>>
  BY <1>3, <1>7 DEF SectionPassage
<1> QED BY <1>6, <1>8, <1>9

LEMMA PassagesMembers ==
  ASSUME NEW t \in Searches, NEW c \in VisibleTo(t)
  PROVE  \/ PassagesOf(t, c) = <<>>
         \/ \E p : PassagesOf(t, c) = <<p>> /\ ToSet(p.texts) \subseteq VisibleTo(t)
<1>1. PICK p : p = Passage(c, "alone", <<c>>, Info[c].size)
  OBVIOUS
<1>2. ToSet(p.texts) \subseteq VisibleTo(t)
  BY <1>1 DEF Passage, ToSet
<1>3. PICK w : w = WindowPassage(t, c) /\ ToSet(w.texts) \subseteq VisibleTo(t)
  BY WindowMembers
<1>4. \/ PassagesOf(t, c) = <<p>> \/ PassagesOf(t, c) = <<w>> \/ PassagesOf(t, c) = <<>>
      \/ PassagesOf(t, c) = SectionPassage(t, c)
  BY <1>1, <1>3 DEF PassagesOf
<1> QED BY <1>2, <1>3, <1>4, SectionMembers

(* Only these three change what a search has found and quoted.             *)
LEMMA FindingSteps ==
  ASSUME Next
  PROVE  \/ UNCHANGED <<found, hits, passages, index>>
         \/ \E t \in Searches : Search(t) \/ Fuse(t) \/ Quote(t)
<1>1. ASSUME NEW d \in Docs, DocumentComes(d) \/ DocumentGoes(d) PROVE UNCHANGED <<found, hits, passages, index>>
  BY <1>1 DEF DocumentComes, DocumentGoes, hitVars
<1>2. ASSUME NEW t \in Searches, NEW q \in Queries, NEW view \in Views, Ask(t, q, view)
      PROVE  UNCHANGED <<found, hits, passages, index>>
  BY <1>2 DEF Ask, hitVars
<1>3. ASSUME NEW t \in Searches,
             \/ Look(t) \/ Touch(t) \/ Take(t) \/ Reply(t) \/ ReplyFails(t) \/ Put(t) \/ Refresh(t)
             \/ StoreList(t) \/ Own(t) \/ SearchEnds(t) \/ QuoteEnds(t) \/ Stop(t) \/ Fail(t)
      PROVE  UNCHANGED <<found, hits, passages, index>>
  BY <1>3 DEF Look, Touch, Take, Reply, ReplyFails, Put, Refresh, StoreList, Own, SearchEnds, QuoteEnds, Stop,
              Fail, hitVars
<1> QED BY <1>1, <1>2, <1>3 DEF Next, Step

LEMMA FoundIsVisibleStep ==
  ASSUME RetrievalInv, Next
  PROVE  FoundIsVisible'
<1>1. /\ hits \in [Searches -> Seq(Chunks)] /\ DOMAIN found = Searches /\ DOMAIN passages = Searches
      /\ \A t \in Searches : passages[t] \in Seq(ToSet(passages[t]))
  BY DEF RetrievalInv, Typed, HitsTyped
<1>2. \A t \in Searches : /\ DOMAIN found[t] \subseteq VisibleTo(t) /\ hits[t] \in Seq(VisibleTo(t))
                          /\ \A p \in ToSet(passages[t]) : ToSet(p.texts) \subseteq VisibleTo(t)
  BY DEF RetrievalInv, FoundIsVisible
<1>3. \A t \in Searches : stage[t] # "idle" => VisibleTo(t)' = VisibleTo(t)
  BY QuestionSteps DEF VisibleTo, Visible, OwnerOf
<1>4. ASSUME NEW t \in Searches, found'[t] = found[t], hits'[t] = hits[t], passages'[t] = passages[t]
      PROVE  /\ DOMAIN found'[t] \subseteq VisibleTo(t)' /\ hits'[t] \in Seq(VisibleTo(t)')
             /\ \A p \in ToSet(passages'[t]) : ToSet(p.texts) \subseteq VisibleTo(t)'
  <2>1. CASE stage[t] = "idle"
    <3>1. DOMAIN found[t] = {} /\ hits[t] = <<>> /\ passages[t] = <<>>
      BY <2>1 DEF RetrievalInv, CacheInv, NothingFoundYet, Preparing
    <3>2. ToSet(<<>>) = {}
      BY DEF ToSet
    <3> QED BY <1>4, <3>1, <3>2
  <2>2. CASE stage[t] # "idle"
    BY <1>2, <1>3, <1>4, <2>2
  <2> QED BY <2>1, <2>2
<1>5. ASSUME NEW t \in Searches, stage[t] # "idle",
             \A u \in Searches : u # t => found'[u] = found[u] /\ hits'[u] = hits[u] /\ passages'[u] = passages[u],
             DOMAIN found'[t] \subseteq VisibleTo(t), hits'[t] \in Seq(VisibleTo(t)),
             \A p \in ToSet(passages'[t]) : ToSet(p.texts) \subseteq VisibleTo(t)
      PROVE  FoundIsVisible'
  <2>1. VisibleTo(t)' = VisibleTo(t)
    BY <1>3, <1>5
  <2>2. \A u \in Searches : /\ DOMAIN found'[u] \subseteq VisibleTo(u)' /\ hits'[u] \in Seq(VisibleTo(u)')
                            /\ \A p \in ToSet(passages'[u]) : ToSet(p.texts) \subseteq VisibleTo(u)'
    BY <1>4, <1>5, <2>1
  <2> QED BY <2>2 DEF FoundIsVisible
<1>6. ASSUME NEW t \in Searches, Search(t) PROVE FoundIsVisible'
  <2>1. PICK q, new : /\ q = lists[list[t]][at[t]] /\ new = ToSet(VectorHits(t, q)) \ DOMAIN found[t]
                      /\ found' = [found EXCEPT ![t] =
                           [c \in DOMAIN @ \cup new |-> IF c \in new THEN world.near[q][c] ELSE @[c]]]
                      /\ UNCHANGED <<hits, passages>> /\ stage[t] = "search"
    BY <1>6 DEF Search
  <2>2. q \in Queries
    BY <1>6, <2>1, SearchedQuery DEF RetrievalInv
  <2>3. new \subseteq VisibleTo(t)
    BY <2>1, <2>2, VectorHitsMembers DEF RetrievalInv
  <2>4. DOMAIN found'[t] = DOMAIN found[t] \cup new /\ \A u \in Searches : u # t => found'[u] = found[u]
    BY <1>1, <2>1
  <2>5. DOMAIN found'[t] \subseteq VisibleTo(t)
    BY <1>2, <2>3, <2>4
  <2> QED BY <1>2, <1>5, <2>1, <2>4, <2>5
<1>7. ASSUME NEW t \in Searches, Fuse(t) PROVE FoundIsVisible'
  <2>1. /\ UNCHANGED <<found, passages>> /\ stage[t] = "fuse"
        /\ hits' = [hits EXCEPT ![t] =
             HitsOf(query[t], ByVector(t), WordHits(t, world.words[query[t]]), found[t], world.alike)]
    BY <1>7 DEF Fuse
  <2>2. ByVector(t) \in Seq(VisibleTo(t))
    BY <1>2, ByVectorMembers, SeqMonotonic DEF RetrievalInv
  <2>3. WordHits(t, world.words[query[t]]) \in Seq(VisibleTo(t))
    BY WordHitsMembers DEF RetrievalInv
  <2>4. HitsOf(query[t], ByVector(t), WordHits(t, world.words[query[t]]), found[t], world.alike) \in Seq(VisibleTo(t))
    BY <2>2, <2>3, HitsMembers
  <2>5. hits'[t] \in Seq(VisibleTo(t)) /\ \A u \in Searches : u # t => hits'[u] = hits[u]
    BY <1>1, <2>1, <2>4
  <2> QED BY <1>2, <1>5, <2>1, <2>5
<1>8. ASSUME NEW t \in Searches, Quote(t) PROVE FoundIsVisible'
  <2>1. PICK c, ps : /\ c = Head(hits[t]) /\ hits[t] # <<>> /\ ps = PassagesOf(t, c) /\ stage[t] = "quote"
                     /\ passages' = [passages EXCEPT ![t] = @ \o ps]
                     /\ hits' = [hits EXCEPT ![t] = Tail(@)]
                     /\ UNCHANGED found
    BY <1>8 DEF Quote
  <2>2. c \in VisibleTo(t) /\ Tail(hits[t]) \in Seq(VisibleTo(t))
    BY <1>2, <2>1, HeadTailProperties
  <2>3. \A p \in ToSet(passages[t] \o ps) : ToSet(p.texts) \subseteq VisibleTo(t)
    <3>1. CASE ps = <<>>
      <4>1. passages[t] \o ps = passages[t]
        BY <1>1, <3>1, ConcatEmptySeq
      <4> QED BY <1>2, <4>1
    <3>2. ASSUME NEW p, ps = <<p>>, ToSet(p.texts) \subseteq VisibleTo(t)
          PROVE  \A r \in ToSet(passages[t] \o ps) : ToSet(r.texts) \subseteq VisibleTo(t)
      <4>1. PICK S : S = ToSet(passages[t]) \cup {p}
        OBVIOUS
      <4>2. passages[t] \in Seq(S) /\ ps \in Seq(S)
        BY <1>1, <3>2, <4>1, SeqMonotonic
      <4>3. ToSet(passages[t] \o ps) = ToSet(passages[t]) \cup ToSet(ps)
        BY <4>2, JoinedMembers
      <4>4. ToSet(ps) = {p}
        BY <3>2 DEF ToSet
      <4> QED BY <1>2, <3>2, <4>3, <4>4
    <3> QED BY <2>1, <2>2, <3>1, <3>2, PassagesMembers
  <2>4. /\ hits'[t] \in Seq(VisibleTo(t)) /\ passages'[t] = passages[t] \o ps
        /\ \A u \in Searches : u # t => hits'[u] = hits[u] /\ passages'[u] = passages[u]
    BY <1>1, <2>1, <2>2
  <2> QED BY <1>2, <1>5, <2>1, <2>3, <2>4
<1>9. CASE UNCHANGED <<found, hits, passages>>
  BY <1>4, <1>9 DEF FoundIsVisible
<1>10. UNCHANGED <<found, hits, passages>> \/ \E t \in Searches : Search(t) \/ Fuse(t) \/ Quote(t)
  BY FindingSteps
<1> QED BY <1>6, <1>7, <1>8, <1>9, <1>10

-----------------------------------------------------------------------------
(* Hits are in the order of both rankings                                  *)

(* Both rankings have a chunk before one that they find worse.             *)
LEMMA VectorOrder ==
  ASSUME RetrievalInv, NEW t \in Searches, NEW I, NEW pair \in Worse(t, I)
  PROVE  /\ pair[2] \in ToSet(ByVector(t))
         /\ Precedes(ByVector(t), pair[2], pair[1])
<1>1. PICK S : S = DOMAIN found[t]
  OBVIOUS
<1>2. S \subseteq Chunks /\ \A c \in S : found[t][c] \in Int
  BY <1>1 DEF RetrievalInv, Typed, HitsTyped
<1>3. S \in SUBSET Int /\ IsFiniteSet(S)
  <2>1. Chunks \subseteq Nat /\ IsFiniteSet(Chunks)
    BY RankingAssumption
  <2>2. IsFiniteSet(S)
    BY <1>2, <2>1, FS_Subset
  <2> QED BY <1>2, <2>1, <2>2
<1>4. PICK ranking : /\ ranking = ByVector(t) /\ ranking \in Seq(S) /\ Rising(ranking, found[t])
                     /\ \A x \in S : \E k \in DOMAIN ranking : ranking[k] = x
  <2>1. /\ Ascending(S, found[t]) \in Seq(S) /\ Rising(Ascending(S, found[t]), found[t])
        /\ \A x \in S : \E k \in DOMAIN Ascending(S, found[t]) : Ascending(S, found[t])[k] = x
    BY <1>2, <1>3, AscendingMembers
  <2>2. ByVector(t) = Ascending(S, found[t])
    BY <1>1 DEF ByVector
  <2> QED BY <2>1, <2>2
<1>5. PICK c, d : c = pair[1] /\ d = pair[2]
  OBVIOUS
<1>6. d \in S /\ (c \in S => found[t][d] < found[t][c])
  BY <1>1, <1>5 DEF Worse
<1>7. d \in ToSet(ranking)
  BY <1>4, <1>6 DEF ToSet
<1>8. ASSUME NEW i \in DOMAIN ranking, NEW j \in DOMAIN ranking, ranking[i] = c, ranking[j] = d
      PROVE  j < i
  <2>1. c \in S /\ found[t][d] < found[t][c] /\ found[t][d] \in Int /\ found[t][c] \in Int
    BY <1>2, <1>4, <1>6, <1>8
  <2>2. ~(i < j)
    <3> SUFFICES ASSUME i < j PROVE FALSE
      OBVIOUS
    <3>1. found[t][c] < found[t][d] \/ found[t][c] = found[t][d]
      BY <1>4, <1>8 DEF Rising
    <3> QED BY <2>1, <3>1
  <2>3. i # j
    BY <1>8, <2>1
  <2>4. i \in Nat /\ j \in Nat
    BY <1>4
  <2> QED BY <2>2, <2>3, <2>4
<1> QED BY <1>4, <1>5, <1>7, <1>8 DEF Precedes

LEMMA WordOrder ==
  ASSUME RetrievalInv, NEW t \in Searches, NEW pair \in Worse(t, Words)
  PROVE  Precedes(WordHits(t, world.words[query[t]]), pair[2], pair[1])
<1>1. PICK words, S : words = world.words[query[t]] /\ S = {c \in Words : Visible(c, viewers[t])}
  OBVIOUS
<1>2. Words \subseteq Chunks
  BY StoreTyped DEF RetrievalInv, Typed
<1>3. S \subseteq Chunks /\ \A c \in S : words[c] \in Nat
  BY <1>1, <1>2, RetrievalAssumption DEF RetrievalInv, Typed, IndexTyped, ThreadsTyped
<1>4. PICK T, key : T = {c \in S : words[c] > 0} /\ key = [c \in S |-> -words[c]]
  OBVIOUS
<1>5. T \in SUBSET Int /\ IsFiniteSet(T) /\ \A c \in T : key[c] \in Int
  <2>1. Chunks \subseteq Nat /\ IsFiniteSet(Chunks)
    BY RankingAssumption
  <2>2. T \in SUBSET Chunks
    BY <1>3, <1>4
  <2>3. IsFiniteSet(T)
    BY <2>1, <2>2, FS_Subset
  <2>4. \A c \in T : c \in S /\ words[c] \in Nat /\ key[c] = -words[c]
    BY <1>3, <1>4
  <2>5. \A c \in T : key[c] \in Int
    BY <2>4
  <2>6. T \in SUBSET Int
    BY <2>1, <2>2
  <2> QED BY <2>3, <2>5, <2>6
<1>6. PICK all : /\ all = Ascending(T, key) /\ all \in Seq(T) /\ Rising(all, key)
                 /\ \A x \in T : \E k \in DOMAIN all : all[k] = x
  <2>1. /\ Ascending(T, key) \in Seq(T) /\ Rising(Ascending(T, key), key)
        /\ \A x \in T : \E k \in DOMAIN Ascending(T, key) : Ascending(T, key)[k] = x
    BY <1>5, AscendingMembers
  <2> QED BY <2>1
<1>7. PICK ranking : /\ ranking = WordHits(t, words) /\ ranking = Upto(all, WordCandidates)
  BY <1>1, <1>4, <1>6 DEF WordHits, MostWords
<1>8. /\ DOMAIN ranking \subseteq DOMAIN all
      /\ \A i \in DOMAIN ranking : ranking[i] = all[i]
      /\ \A i \in DOMAIN ranking, j \in DOMAIN all : j < i => j \in DOMAIN ranking
  BY <1>6, <1>7, UptoOrder, RankingAssumption
<1>9. PICK c, d : c = pair[1] /\ d = pair[2]
  OBVIOUS
<1>10. /\ c \in Chunks /\ d \in DOMAIN found[t] /\ (Words # {} => d \in Words)
       /\ words[d] > words[c]
  BY <1>1, <1>9 DEF Worse
<1> SUFFICES ASSUME NEW i \in DOMAIN ranking, ranking[i] = c
             PROVE  d \in ToSet(ranking) /\ \A j \in DOMAIN ranking : ranking[j] = d => j < i
  BY <1>1, <1>7, <1>9 DEF Precedes
<1>11. i \in DOMAIN all /\ all[i] = c /\ c \in T
  BY <1>6, <1>8
<1>12. d \in T /\ key[d] < key[c]
  <2>1. c \in S /\ c \in Words /\ words[c] > 0 /\ words[c] \in Nat
    BY <1>1, <1>3, <1>4, <1>11
  <2>2. d \in S
    <3>1. Visible(d, viewers[t])
      BY <1>10 DEF RetrievalInv, FoundIsVisible, VisibleTo
    <3> QED BY <1>1, <1>10, <2>1, <3>1
  <2>3. words[d] \in Nat
    BY <1>3, <2>2
  <2> QED BY <1>4, <1>10, <2>1, <2>2, <2>3
<1>13. ASSUME NEW j \in DOMAIN all, all[j] = d PROVE j < i
  <2>1. i \in Nat /\ j \in Nat
    BY <1>6, <1>11
  <2>2. key[c] \in Int /\ key[d] \in Int
    BY <1>5, <1>11, <1>12
  <2>3. ~(i < j)
    <3> SUFFICES ASSUME i < j PROVE FALSE
      OBVIOUS
    <3>1. key[c] < key[d] \/ key[c] = key[d]
      BY <1>6, <1>11, <1>13 DEF Rising
    <3> QED BY <1>12, <2>2, <3>1
  <2>4. i # j
    BY <1>11, <1>12, <1>13, <2>2
  <2> QED BY <2>1, <2>3, <2>4
<1>14. PICK j \in DOMAIN all : all[j] = d
  BY <1>6, <1>12
<1>15. j \in DOMAIN ranking /\ ranking[j] = d
  BY <1>8, <1>13, <1>14
<1> QED BY <1>8, <1>13, <1>15 DEF ToSet

(* Who is quoting or done stays so.                                        *)
LEMMA FusedStay ==
  ASSUME RetrievalInv, Next, NEW t \in Searches, stage[t] \in {"quote", "done"}
  PROVE  stage'[t] \in {"quote", "done"}
<1>1. stage \in [Searches -> Stages]
  BY DEF RetrievalInv, Typed, ThreadsTyped
<1>2. ASSUME NEW u \in Searches,
             Look(u) \/ Touch(u) \/ Take(u) \/ Reply(u) \/ ReplyFails(u) \/ Put(u) \/ Refresh(u) \/ StoreList(u)
             \/ Own(u) \/ SearchEnds(u) \/ Fuse(u) \/ Stop(u) \/ Fail(u)
      PROVE  stage'[t] = stage[t]
  <2>1. u # t /\ \E s \in Stages : Goto(u, s)
    <3>1. {"touch", "ask", "take", "failed", "own", "refresh", "store", "put", "search", "fuse", "quote", "stopped"}
            \subseteq Stages
      BY DEF Stages
    <3> QED BY <1>2, <3>1 DEF Look, Touch, Take, Reply, ReplyFails, Put, Refresh, StoreList, Own, SearchEnds,
                              Fuse, Stop, Fail
  <2> QED BY <1>1, <2>1 DEF Goto
<1>3. ASSUME NEW u \in Searches, NEW q \in Queries, NEW view \in Views, Ask(u, q, view) PROVE stage'[t] = stage[t]
  BY <1>1, <1>3 DEF Ask, Goto
<1>4. ASSUME NEW u \in Searches, QuoteEnds(u) PROVE stage'[t] \in {"quote", "done"}
  BY <1>1, <1>4 DEF QuoteEnds, Goto
<1>5. ASSUME NEW u \in Searches, Search(u) \/ Quote(u) PROVE UNCHANGED stage
  BY <1>5 DEF Search, Quote
<1>6. ASSUME NEW d \in Docs, DocumentComes(d) \/ DocumentGoes(d) PROVE UNCHANGED stage
  BY <1>6 DEF DocumentComes, DocumentGoes
<1> QED BY <1>2, <1>3, <1>4, <1>5, <1>6 DEF Next, Step

LEMMA HitsRankedStep ==
  ASSUME RetrievalInv, Next
  PROVE  HitsRanked'
<1>1. /\ hits \in [Searches -> Seq(Chunks)] /\ DOMAIN found = Searches
      /\ stage \in [Searches -> Stages]
  BY DEF RetrievalInv, Typed, HitsTyped, ThreadsTyped
<1>2. \A t \in Searches : hits[t] # <<>> =>
        index # NotBuilt /\ stage[t] \in {"quote", "done"} /\ Orderly(hits[t], Worse(t, index))
  BY DEF RetrievalInv, HitsRanked
<1>3. world' = world
  BY DEF Next, Step, DocumentComes, DocumentGoes, Ask, Look, Touch, Take, Reply, ReplyFails, Put, Refresh, StoreList,
         Own, Search, SearchEnds, Fuse, Quote, QuoteEnds, Stop, Fail
<1>4. ASSUME NEW t \in Searches, hits[t] # <<>>, found'[t] = found[t], index' = index \/ index \in {NotBuilt, {}}
      PROVE  /\ stage'[t] \in {"quote", "done"}
             /\ Worse(t, index)' \subseteq Worse(t, index)
  <2>1. stage[t] \in {"quote", "done"} /\ index # NotBuilt
    BY <1>2, <1>4
  <2>2. query'[t] = query[t]
    BY <2>1, QuestionSteps
  <2>3. stage'[t] \in {"quote", "done"}
    BY <2>1, FusedStay
  <2>4. \A pair \in Worse(t, index)' : pair \in Worse(t, index)
    BY <1>3, <1>4, <2>1, <2>2 DEF Worse
  <2> QED BY <2>3, <2>4
<1>5. ASSUME NEW t \in Searches, hits'[t] = hits[t], hits[t] # <<>>, found'[t] = found[t],
             index' = index \/ index \in {NotBuilt, {}}, index' # NotBuilt
      PROVE  /\ index' # NotBuilt /\ stage'[t] \in {"quote", "done"}
             /\ Orderly(hits[t], Worse(t, index)')
  BY <1>2, <1>4, <1>5 DEF Orderly
<1>6. CASE UNCHANGED <<found, hits, index>>
  <2>1. ASSUME NEW t \in Searches, hits'[t] # <<>>
        PROVE  index' # NotBuilt /\ stage'[t] \in {"quote", "done"} /\ Orderly(hits'[t], Worse(t, index)')
    BY <1>2, <1>5, <1>6, <2>1
  <2> QED BY <2>1 DEF HitsRanked
<1>7. ASSUME NEW u \in Searches, Search(u) PROVE HitsRanked'
  <2>1. /\ UNCHANGED <<hits, index>> /\ stage[u] = "search"
        /\ \A t \in Searches : t # u => found'[t] = found[t]
    BY <1>1, <1>7 DEF Search
  <2>2. ASSUME NEW t \in Searches, hits'[t] # <<>>
        PROVE  index' # NotBuilt /\ stage'[t] \in {"quote", "done"} /\ Orderly(hits'[t], Worse(t, index)')
    <3>1. t # u
      BY <1>2, <2>1, <2>2
    <3> QED BY <1>2, <1>5, <2>1, <2>2, <3>1
  <2> QED BY <2>2 DEF HitsRanked
<1>8. ASSUME NEW u \in Searches, Quote(u) PROVE HitsRanked'
  <2>1. /\ UNCHANGED <<found, index, stage, query>> /\ stage[u] = "quote" /\ hits[u] # <<>>
        /\ hits'[u] = Tail(hits[u]) /\ \A t \in Searches : t # u => hits'[t] = hits[t]
    BY <1>1, <1>8 DEF Quote
  <2>2. ASSUME NEW t \in Searches, hits'[t] # <<>>
        PROVE  index' # NotBuilt /\ stage'[t] \in {"quote", "done"} /\ Orderly(hits'[t], Worse(t, index)')
    <3>1. CASE t # u
      BY <1>2, <1>5, <2>1, <2>2, <3>1
    <3>2. CASE t = u
      <4>1. Orderly(hits'[t], Worse(t, index))
        BY <1>1, <1>2, <2>1, <3>2, TailIsOrderly
      <4>2. Worse(t, index)' \subseteq Worse(t, index) /\ stage'[t] \in {"quote", "done"} /\ index # NotBuilt
        BY <1>2, <1>4, <2>1, <3>2
      <4> QED BY <2>1, <4>1, <4>2 DEF Orderly
    <3> QED BY <3>1, <3>2
  <2> QED BY <2>2 DEF HitsRanked
<1>9. ASSUME NEW u \in Searches, Fuse(u) PROVE HitsRanked'
  <2>1. /\ UNCHANGED <<found, query>> /\ index' = Words /\ stage' = [stage EXCEPT ![u] = "quote"]
        /\ hits' = [hits EXCEPT ![u] =
             HitsOf(query[u], ByVector(u), WordHits(u, world.words[query[u]]), found[u], world.alike)]
    BY <1>9 DEF Fuse, Goto
  <2>2. index' # NotBuilt /\ (index' = index \/ index \in {NotBuilt, {}})
    <3>1. Words \in SUBSET Chunks
      BY StoreTyped DEF RetrievalInv, Typed
    <3>2. NotBuilt # Words
      BY <3>1, RetrievalAssumption
    <3> QED BY <2>1, <3>2 DEF Words
  <2>3. Orderly(hits'[u], Worse(u, Words))
    <3>1. PICK v, w : v = ByVector(u) /\ w = WordHits(u, world.words[query[u]])
      OBVIOUS
    <3>2. v \in Seq(Chunks)
      <4>1. DOMAIN found[u] \subseteq Chunks
        BY DEF RetrievalInv, Typed, HitsTyped
      <4> QED BY <3>1, <4>1, ByVectorMembers, SeqMonotonic DEF RetrievalInv
    <3>3. w \in Seq(Chunks)
      <4>1. VisibleTo(u) \subseteq Chunks
        BY DEF VisibleTo
      <4> QED BY <3>1, <4>1, WordHitsMembers, SeqMonotonic DEF RetrievalInv
    <3>4. PICK worse : worse = Worse(u, Words)
      OBVIOUS
    <3>5. \A pair \in worse : /\ pair[2] \in ToSet(v) /\ Info[pair[1]].low = Info[pair[2]].low
                              /\ Precedes(v, pair[2], pair[1]) /\ Precedes(w, pair[2], pair[1])
      <4> SUFFICES ASSUME NEW pair \in worse
                   PROVE  /\ pair[2] \in ToSet(v) /\ Info[pair[1]].low = Info[pair[2]].low
                          /\ Precedes(v, pair[2], pair[1]) /\ Precedes(w, pair[2], pair[1])
        OBVIOUS
      <4>1. Info[pair[1]].low = Info[pair[2]].low
        BY <3>4 DEF Worse
      <4>2. pair[2] \in ToSet(v) /\ Precedes(v, pair[2], pair[1])
        BY <3>1, <3>4, VectorOrder
      <4>3. Precedes(w, pair[2], pair[1])
        BY <3>1, <3>4, WordOrder
      <4> QED BY <4>1, <4>2, <4>3
    <3>6. Orderly(HitsOf(query[u], v, w, found[u], world.alike), worse)
      BY <3>2, <3>3, <3>5, HitsAreOrderly
    <3>7. hits'[u] = HitsOf(query[u], v, w, found[u], world.alike)
      BY <1>1, <2>1, <3>1
    <3> QED BY <3>4, <3>6, <3>7
  <2>4. Worse(u, index)' = Worse(u, Words)
    BY <1>3, <2>1 DEF Worse
  <2>5. ASSUME NEW t \in Searches, hits'[t] # <<>>
        PROVE  index' # NotBuilt /\ stage'[t] \in {"quote", "done"} /\ Orderly(hits'[t], Worse(t, index)')
    <3>1. CASE t = u
      BY <1>1, <2>1, <2>2, <2>3, <2>4, <3>1
    <3>2. CASE t # u
      <4>1. hits'[t] = hits[t] /\ found'[t] = found[t]
        BY <1>1, <2>1, <3>2
      <4> QED BY <1>2, <1>5, <2>2, <2>5, <4>1
    <3> QED BY <3>1, <3>2
  <2> QED BY <2>5 DEF HitsRanked
<1>10. UNCHANGED <<found, hits, index>> \/ \E t \in Searches : Search(t) \/ Fuse(t) \/ Quote(t)
  BY FindingSteps
<1> QED BY <1>6, <1>7, <1>8, <1>9, <1>10

-----------------------------------------------------------------------------
LEMMA StepRetrieval ==
  ASSUME RetrievalInv, [Next]_vars
  PROVE  RetrievalInv'
<1>1. CASE Next
  BY <1>1, TypedStep, CacheInvStep, MeaningInvStep, FoundIsVisibleStep, HitsRankedStep DEF RetrievalInv
<1>2. CASE UNCHANGED vars
  <2> USE <1>2 DEF vars, cacheVars, hitVars
  <2>1. Typed'
    BY DEF RetrievalInv, Typed, IndexTyped, ThreadsTyped, ListsTyped, HitsTyped
  <2>2. CacheInv'
    BY DEF RetrievalInv, CacheInv, OneEntryPerKey, PlacesInLists, ListsArePrivate, NothingFoundYet, Preparing
  <2>3. MeaningInv'
    <3>1. EntriesNameTheirKey' /\ ListsHaveOneKey'
      BY DEF RetrievalInv, MeaningInv, EntriesNameTheirKey, ListsHaveOneKey, Key
    <3>2. ListsAreMeant' /\ SearchedIsMeant'
      BY DEF RetrievalInv, MeaningInv, ListsAreMeant, SearchedIsMeant, Key, Meant
    <3>3. OwnIsListed'
      BY DEF RetrievalInv, MeaningInv, OwnIsListed, Searched
    <3> QED BY <3>1, <3>2, <3>3 DEF MeaningInv
  <2>4. FoundIsVisible'
    BY DEF RetrievalInv, FoundIsVisible, VisibleTo, Visible, OwnerOf
  <2>5. HitsRanked'
    BY DEF RetrievalInv, HitsRanked, Orderly, Worse
  <2> QED BY <2>1, <2>2, <2>3, <2>4, <2>5 DEF RetrievalInv
<1> QED BY <1>1, <1>2

(* Everything has its type, no key has two entries in the cache, and no    *)
(* search is beyond the end of the list it works through, though others    *)
(* extend that list and replace the entry that names it.                   *)
THEOREM RetrievalTypeCorrect == Spec => []TypeOK
<1>1. Init => RetrievalInv
  BY InitRetrieval
<1>2. RetrievalInv /\ [Next]_vars => RetrievalInv'
  BY StepRetrieval
<1>3. RetrievalInv => TypeOK
  BY InvImpliesTypeOK
<1> QED BY <1>1, <1>2, <1>3, PTL DEF Spec

(* A search that has ended has searched its own question, and otherwise    *)
(* only its key, questions with that key and rewritings of it, whatever    *)
(* other searches put into the list it found in the cache                  *)
(* (retriever.py:110, query_rewriter.py:107-138).  Of Normal nothing is    *)
(* assumed but that a query has a key.                                     *)
THEOREM QuestionsAreSearched == Spec => []SearchesItsQuestion
<1>1. Init => RetrievalInv
  BY InitRetrieval
<1>2. RetrievalInv /\ [Next]_vars => RetrievalInv'
  BY StepRetrieval
<1>3. RetrievalInv => SearchesItsQuestion
  BY InvImpliesSearchesItsQuestion
<1> QED BY <1>1, <1>2, <1>3, PTL DEF Spec

(* No hit and no text around a hit is of a document that the search may    *)
(* not see: not from the word index, which has the chunks of everybody,    *)
(* and not from a document of the same name (vector_store.py,              *)
(* retriever.py).                                                          *)
THEOREM HitsAreVisible == Spec => []VisibleOnly
<1>1. Init => RetrievalInv
  BY InitRetrieval
<1>2. RetrievalInv /\ [Next]_vars => RetrievalInv'
  BY StepRetrieval
<1>3. RetrievalInv => VisibleOnly
  BY InvImpliesVisibleOnly
<1> QED BY <1>1, <1>2, <1>3, PTL DEF Spec

(* No hit stands after one that both rankings find worse, through the      *)
(* fusion, the removal of equal texts, the filters and the cut, though the *)
(* words of a hit may count for nothing or more than its distance          *)
(* (fusion.py, retriever.py).                                              *)
THEOREM FusionKeepsOrder == Spec => []FusionRespectsBoth
<1>1. Init => RetrievalInv
  BY InitRetrieval
<1>2. RetrievalInv /\ [Next]_vars => RetrievalInv'
  BY StepRetrieval
<1>3. RetrievalInv => FusionRespectsBoth
  BY InvImpliesFusionRespectsBoth
<1> QED BY <1>1, <1>2, <1>3, PTL DEF Spec

-----------------------------------------------------------------------------
(* What is quoted keeps the budget and contains its hits                   *)

(* A document that a search knows of is there or was.                      *)
Known == {c \in Chunks : Info[c].doc \in docs \cup gone}
IndexIsKnown == index # NotBuilt => index \subseteq Known
HitsAreKnown == \A t \in Searches : DOMAIN found[t] \subseteq Known /\ hits[t] \in Seq(Known)

(* A section that contains no place of its hit lost it with its document.  *)
Quotes(p) == \E c \in ToSet(p.texts) : SamePlace(c, p.seed)
SeedsAreQuoted ==
  \A t \in Searches : \A p \in ToSet(passages[t]) :
    p.kind = "section" => Info[p.seed].doc \in gone \/ Quotes(p)
PassagesSized == \A t \in Searches : \A p \in ToSet(passages[t]) : p.size \in Int
WithinBudget(used) == used <= TotalMax \/ \E longest \in Chunks : used < TotalMax + Info[longest].size
BudgetKept == \A t \in Searches : WithinBudget(Used(t))

QuoteInv == IndexIsKnown /\ HitsAreKnown /\ SeedsAreQuoted /\ PassagesSized /\ BudgetKept

LEMMA InvImpliesQuotedWithinBudget == RetrievalInv /\ QuoteInv => QuotedWithinBudget
<1> SUFFICES ASSUME RetrievalInv, QuoteInv, NEW t \in Searches
             PROVE  /\ \A p \in ToSet(passages[t]) : p.kind = "section" /\ p.seed \in Store => Quotes(p)
                    /\ WithinBudget(Used(t))
  BY DEF QuotedWithinBudget, Quotes, WithinBudget
<1>1. ASSUME NEW p \in ToSet(passages[t]), p.kind = "section", p.seed \in Store PROVE Quotes(p)
  <2>1. Info[p.seed].doc \notin gone
    BY <1>1 DEF Store, RetrievalInv, Typed, IndexTyped
  <2> QED BY <1>1, <2>1 DEF QuoteInv, SeedsAreQuoted
<1>2. WithinBudget(Used(t))
  BY DEF QuoteInv, BudgetKept
<1> QED BY <1>1, <1>2

(* What the passages of a search take, and what one more adds.             *)
Costs(p) == IF p.kind = "alone" THEN 0 ELSE p.size
UsedBy(ps) == Total([i \in DOMAIN ps |-> Costs(ps[i])])

LEMMA UsedIsSum ==
  ASSUME NEW t
  PROVE  Used(t) = UsedBy(passages[t])
BY DEF Used, UsedBy, Costs

LEMMA UsedMore ==
  ASSUME NEW S, \A p \in S : p.size \in Int, NEW ps \in Seq(S), NEW new \in S
  PROVE  UsedBy(ps) \in Int /\ UsedBy(ps \o <<new>>) = UsedBy(ps) + Costs(new)
<1>1. PICK n \in Nat : n = Len(ps) /\ DOMAIN ps = 1..n /\ \A i \in 1..n : ps[i] \in S
  OBVIOUS
<1>2. PICK more : more = ps \o <<new>>
  OBVIOUS
<1>3. more \in Seq(S) /\ Len(more) = n + 1 /\ DOMAIN more = 1..n + 1
      /\ (\A i \in 1..n : more[i] = ps[i]) /\ more[n + 1] = new
  BY <1>1, <1>2
<1>4. \A p \in S : Costs(p) \in Int
  BY DEF Costs
<1>5. PICK a, b : a = [i \in DOMAIN ps |-> Costs(ps[i])] /\ b = [i \in DOMAIN more |-> Costs(more[i])]
  OBVIOUS
<1>6. a \in Seq(Int) /\ Len(a) = n
  BY <1>1, <1>4, <1>5
<1>7. b \in Seq(Int) /\ Len(b) = n + 1
  <2>1. \A i \in 1..n + 1 : more[i] \in S
    BY <1>3
  <2> QED BY <1>3, <1>4, <1>5, <2>1
<1>8. \A i \in 1..n : b[i] = a[i]
  <2>1. \A i \in 1..n : i \in 1..n + 1
    OBVIOUS
  <2> QED BY <1>1, <1>3, <1>5, <2>1
<1>9. b[n + 1] = Costs(new)
  <2>1. n + 1 \in 1..n + 1
    OBVIOUS
  <2> QED BY <1>3, <1>5, <2>1
<1>10. Total(a) \in Int /\ Total(b) = Total(a) + b[n + 1]
  <2>1. Total(a) \in Int /\ Total(b) = Total(a) + b[Len(a) + 1]
    BY <1>6, <1>7, <1>8, TotalAppended
  <2> QED BY <1>6, <2>1
<1> QED BY <1>2, <1>5, <1>9, <1>10 DEF UsedBy

LEMMA SmallerOf ==
  ASSUME NEW a \in Int, NEW b \in Int
  PROVE  Min({a, b}) \in {a, b} /\ Min({a, b}) <= a /\ Min({a, b}) <= b
BY DEF Min

(* One more passage is within what is left, or it is one text; and it      *)
(* contains the place of its hit, if the hit is still there.               *)
LEMMA WindowFits ==
  ASSUME Typed, NEW t \in Searches, NEW c \in Chunks, Left(t) \in Int
  PROVE  LET p == WindowPassage(t, c)
         IN  p.kind # "section" /\ p.size \in Int /\ (p.kind = "alone" \/ p.size <= Left(t))
<1>1. PICK S \in SUBSET Chunks : S = Neighbours(Store, c, viewers[t])
  BY StoreTyped DEF Neighbours
<1>2. PICK texts : texts = JoinWithin(InOrder(Neighbours(Store, c, viewers[t])), Left(t))
  OBVIOUS
<1>3. texts \in Seq(Chunks)
  BY <1>1, <1>2, InOrderMembers, JoinWithinMembers, SeqMonotonic
<1>4. Separated(texts, 1) \in Int
  <2>1. SumOf(texts, 1) \in Int
    BY <1>3, SumIsInteger
  <2> QED BY <2>1 DEF Separated
<1>5. PICK size \in Int : size = Min({Separated(texts, 1), Left(t)}) /\ size <= Left(t)
  BY <1>4, SmallerOf
<1>6. WindowPassage(t, c) = IF texts = <<>> THEN Passage(c, "alone", <<c>>, Info[c].size)
                            ELSE Passage(c, "window", texts, size)
  BY <1>2, <1>5 DEF WindowPassage
<1>7. Info[c].size \in Int
  BY ChunkTyped
<1> QED BY <1>5, <1>6, <1>7 DEF Passage

LEMMA SectionFits ==
  ASSUME Typed, NEW t \in Searches, NEW c \in Chunks, Left(t) \in Int, Left(t) > 0, Info[c].section # NoSection,
         SectionPassage(t, c) # <<>>
  PROVE  \E p : /\ SectionPassage(t, c) = <<p>> /\ p.size \in Int /\ p.seed = c
                /\ p.size <= Left(t) \/ \E d \in Chunks : p.size = Info[d].size
                /\ c \in Store => Quotes(p)
<1>1. PICK S \in SUBSET Chunks : S = SectionChunks(Store, c)
  BY StoreTyped DEF SectionChunks
<1>2. PICK max \in Nat : max = Min({SectionMax, Left(t)}) /\ max <= Left(t)
  <2>1. PICK section \in Nat, left \in Nat : section = SectionMax /\ left = Left(t)
    <3>1. SectionMax \in Nat /\ Left(t) \in Nat
      BY RankingAssumption
    <3> QED BY <3>1
  <2>2. Min({section, left}) \in {section, left} /\ Min({section, left}) <= left
    <3>1. section \in Int /\ left \in Int
      OBVIOUS
    <3> QED BY <3>1, SmallerOf
  <2> QED BY <2>1, <2>2
<1>3. PICK texts : texts = Pack(SectionChunks(Store, c), c, Min({SectionMax, Left(t)})) /\ texts = Pack(S, c, max)
  BY <1>1, <1>2
<1>4. PICK size \in Int : /\ size = Separated(texts, 2)
                          /\ size <= max \/ \E d \in Chunks : size = Info[d].size
  BY <1>3, PackKeeps
<1>5. PICK p : p = Passage(c, "section", texts, size)
  OBVIOUS
<1>6. SectionPassage(t, c) = <<p>>
  BY <1>3, <1>4, <1>5 DEF SectionPassage
<1>7. p.size = size /\ p.seed = c /\ p.texts = texts
  BY <1>5 DEF Passage
<1>8. ASSUME c \in Store PROVE Quotes(p)
  <2>1. c \in S
    BY <1>1, <1>8 DEF SectionChunks, SameSection
  <2>2. PICK d \in ToSet(texts) : Info[d].index = Info[c].index
    BY <1>3, <2>1, PackKeeps
  <2>3. d \in S
    <3>1. texts \in Seq(S)
      BY <1>3, PackMembers
    <3> QED BY <2>2, <3>1, SequenceMembers
  <2>4. SamePlace(d, c)
    BY <1>1, <2>2, <2>3 DEF SectionChunks, SamePlace, SameSection
  <2> QED BY <1>7, <2>2, <2>4 DEF Quotes
<1>9. size <= Left(t) \/ \E d \in Chunks : size = Info[d].size
  BY <1>2, <1>4
<1> QED BY <1>6, <1>7, <1>8, <1>9

LEMMA PassagesFit ==
  ASSUME Typed, NEW t \in Searches, NEW c \in Chunks, Left(t) \in Int, Left(t) > 0
  PROVE  \/ PassagesOf(t, c) = <<>>
         \/ \E p : /\ PassagesOf(t, c) = <<p>> /\ p.size \in Int
                   /\ p.kind = "alone" \/ p.size <= Left(t) \/ \E d \in Chunks : p.size = Info[d].size
                   /\ p.kind = "section" => p.seed = c /\ (c \in Store => Quotes(p))
<1>1. PICK p : p = Passage(c, "alone", <<c>>, Info[c].size)
  OBVIOUS
<1>2. p.size \in Int /\ p.kind = "alone"
  BY <1>1, ChunkTyped DEF Passage
<1>3. PICK w : /\ w = WindowPassage(t, c)
               /\ w.kind # "section" /\ w.size \in Int /\ (w.kind = "alone" \/ w.size <= Left(t))
  BY WindowFits
<1>4. CASE PassagesOf(t, c) = <<p>>
  BY <1>1, <1>2, <1>4
<1>5. CASE PassagesOf(t, c) = <<w>>
  BY <1>3, <1>5
<1>6. CASE /\ PassagesOf(t, c) = SectionPassage(t, c) /\ SectionPassage(t, c) # <<>>
           /\ Info[c].section # NoSection
  BY <1>6, SectionFits
<1>7. \/ PassagesOf(t, c) = <<p>> \/ PassagesOf(t, c) = <<w>> \/ PassagesOf(t, c) = <<>>
      \/ (PassagesOf(t, c) = SectionPassage(t, c) /\ SectionPassage(t, c) # <<>> /\ Info[c].section # NoSection)
  BY <1>1, <1>3 DEF PassagesOf
<1> QED BY <1>4, <1>5, <1>6, <1>7

LEMMA UsedIsInteger ==
  ASSUME NEW S, \A p \in S : p.size \in Int, NEW ps \in Seq(S)
  PROVE  UsedBy(ps) \in Int
<1>1. PICK numbers : numbers = [i \in DOMAIN ps |-> Costs(ps[i])]
  OBVIOUS
<1>2. numbers \in Seq(Int)
  <2>1. PICK n \in Nat : DOMAIN ps = 1..n /\ \A i \in 1..n : ps[i] \in S
    OBVIOUS
  <2>2. \A i \in 1..n : Costs(ps[i]) \in Int
    BY <2>1 DEF Costs
  <2> QED BY <1>1, <2>1, <2>2
<1>3. Total(numbers) \in Int
  BY <1>2, TotalIsInteger
<1> QED BY <1>1, <1>3 DEF UsedBy

(* A document that has gone does not come back, and none is forgotten.     *)
LEMMA DocumentSteps ==
  ASSUME Next
  PROVE  gone \subseteq gone' /\ docs \cup gone \subseteq docs' \cup gone'
<1>1. ASSUME NEW d \in Docs, DocumentComes(d) PROVE gone \subseteq gone' /\ docs \cup gone \subseteq docs' \cup gone'
  BY <1>1 DEF DocumentComes
<1>2. ASSUME NEW d \in Docs, DocumentGoes(d) PROVE gone \subseteq gone' /\ docs \cup gone \subseteq docs' \cup gone'
  BY <1>2 DEF DocumentGoes
<1>3. ASSUME NEW t \in Searches, NEW q \in Queries, NEW view \in Views, Ask(t, q, view) PROVE UNCHANGED <<docs, gone>>
  BY <1>3 DEF Ask
<1>4. ASSUME NEW t \in Searches,
             \/ Look(t) \/ Touch(t) \/ Take(t) \/ Reply(t) \/ ReplyFails(t) \/ Put(t) \/ Refresh(t)
             \/ StoreList(t) \/ Own(t) \/ Search(t) \/ SearchEnds(t) \/ Fuse(t) \/ Quote(t) \/ QuoteEnds(t)
             \/ Stop(t) \/ Fail(t)
      PROVE  UNCHANGED <<docs, gone>>
  BY <1>4 DEF Look, Touch, Take, Reply, ReplyFails, Put, Refresh, StoreList, Own, Search, SearchEnds, Fuse, Quote,
              QuoteEnds, Stop, Fail
<1> QED BY <1>1, <1>2, <1>3, <1>4 DEF Next, Step

LEMMA KnownStep ==
  ASSUME Next
  PROVE  Known \subseteq Known'
BY DocumentSteps DEF Known

LEMMA VectorHitsKnown ==
  ASSUME Typed, NEW t \in Searches, NEW q \in Queries
  PROVE  ToSet(VectorHits(t, q)) \subseteq Known
<1>1. PICK S \in SUBSET Chunks : S = {c \in Store : Visible(c, viewers[t])}
  BY StoreTyped
<1>2. \A c \in S : world.near[q][c] \in Int
  BY RetrievalAssumption DEF Typed, IndexTyped
<1>3. Nearest(S, world.near[q]) \in Seq(S)
  BY <1>2, NearestMembers
<1>4. ToSet(VectorHits(t, q)) \subseteq S
  BY <1>1, <1>3, SequenceMembers DEF VectorHits
<1>5. Store \subseteq Known
  BY DEF Store, Known
<1> QED BY <1>1, <1>4, <1>5

LEMMA WordHitsKnown ==
  ASSUME Typed, IndexIsKnown, NEW t \in Searches
  PROVE  Words \subseteq Known /\ WordHits(t, world.words[query[t]]) \in Seq(Known)
<1>1. PICK S \in SUBSET Chunks : S = {c \in Words : Visible(c, viewers[t])}
  BY StoreTyped DEF Typed
<1>2. \A c \in S : world.words[query[t]][c] \in Nat
  BY RetrievalAssumption DEF Typed, IndexTyped, ThreadsTyped
<1>3. MostWords(S, world.words[query[t]]) \in Seq(S)
  BY <1>2, MostWordsMembers
<1>4. Words \subseteq Known
  BY DEF IndexIsKnown, Words, Store, Known
<1>5. WordHits(t, world.words[query[t]]) \in Seq(S)
  BY <1>1, <1>3 DEF WordHits
<1> QED BY <1>1, <1>4, <1>5, SeqMonotonic

LEMMA HitsAreKnownStep ==
  ASSUME RetrievalInv, QuoteInv, Next
  PROVE  IndexIsKnown' /\ HitsAreKnown'
<1>1. Typed /\ hits \in [Searches -> Seq(Chunks)] /\ DOMAIN found = Searches
  BY DEF RetrievalInv, Typed, HitsTyped
<1>2. /\ index # NotBuilt => index \subseteq Known
      /\ \A t \in Searches : DOMAIN found[t] \subseteq Known /\ hits[t] \in Seq(Known)
  BY DEF QuoteInv, IndexIsKnown, HitsAreKnown
<1>3. Known \subseteq Known'
  BY KnownStep
<1>4. ASSUME NEW t \in Searches, UNCHANGED index \/ index' \subseteq Known,
             \A u \in Searches : u # t => found'[u] = found[u] /\ hits'[u] = hits[u],
             DOMAIN found'[t] \subseteq Known, hits'[t] \in Seq(Known)
      PROVE  IndexIsKnown' /\ HitsAreKnown'
  <2>1. index' # NotBuilt => index' \subseteq Known'
    BY <1>2, <1>3, <1>4
  <2>2. \A u \in Searches : DOMAIN found'[u] \subseteq Known' /\ hits'[u] \in Seq(Known')
    <3>1. \A u \in Searches : DOMAIN found'[u] \subseteq Known /\ hits'[u] \in Seq(Known)
      BY <1>2, <1>4
    <3> QED BY <1>3, <3>1, SeqMonotonic
  <2> QED BY <2>1, <2>2 DEF IndexIsKnown, HitsAreKnown
<1>5. ASSUME NEW t \in Searches, Search(t) PROVE IndexIsKnown' /\ HitsAreKnown'
  <2>1. PICK q, new : /\ q = lists[list[t]][at[t]] /\ new = ToSet(VectorHits(t, q)) \ DOMAIN found[t]
                      /\ found' = [found EXCEPT ![t] =
                           [c \in DOMAIN @ \cup new |-> IF c \in new THEN world.near[q][c] ELSE @[c]]]
                      /\ UNCHANGED <<hits, index>>
    BY <1>5 DEF Search
  <2>2. q \in Queries
    BY <1>1, <1>5, <2>1, SearchedQuery
  <2>3. new \subseteq Known
    BY <1>1, <2>1, <2>2, VectorHitsKnown
  <2>4. DOMAIN found'[t] = DOMAIN found[t] \cup new /\ \A u \in Searches : u # t => found'[u] = found[u]
    BY <1>1, <2>1
  <2>5. DOMAIN found'[t] \subseteq Known
    BY <1>2, <2>3, <2>4
  <2> QED BY <1>2, <1>4, <2>1, <2>4, <2>5
<1>6. ASSUME NEW t \in Searches, Fuse(t) PROVE IndexIsKnown' /\ HitsAreKnown'
  <2>1. /\ UNCHANGED found /\ index' = Words
        /\ hits' = [hits EXCEPT ![t] =
             HitsOf(query[t], ByVector(t), WordHits(t, world.words[query[t]]), found[t], world.alike)]
    BY <1>6 DEF Fuse
  <2>2. ByVector(t) \in Seq(Known)
    BY <1>1, <1>2, ByVectorMembers, SeqMonotonic
  <2>3. Words \subseteq Known /\ WordHits(t, world.words[query[t]]) \in Seq(Known)
    BY <1>1, WordHitsKnown DEF QuoteInv
  <2>4. HitsOf(query[t], ByVector(t), WordHits(t, world.words[query[t]]), found[t], world.alike) \in Seq(Known)
    BY <2>2, <2>3, HitsMembers
  <2>5. hits'[t] \in Seq(Known) /\ \A u \in Searches : u # t => hits'[u] = hits[u]
    BY <1>1, <2>1, <2>4
  <2> QED BY <1>2, <1>4, <2>1, <2>3, <2>5
<1>7. ASSUME NEW t \in Searches, Quote(t) PROVE IndexIsKnown' /\ HitsAreKnown'
  <2>1. hits[t] # <<>> /\ hits' = [hits EXCEPT ![t] = Tail(@)] /\ UNCHANGED <<found, index>>
    BY <1>7 DEF Quote
  <2>2. Tail(hits[t]) \in Seq(Known)
    BY <1>2, <2>1, HeadTailProperties
  <2>3. hits'[t] \in Seq(Known) /\ \A u \in Searches : u # t => hits'[u] = hits[u]
    BY <1>1, <2>1, <2>2
  <2> QED BY <1>2, <1>4, <2>1, <2>3
<1>8. CASE UNCHANGED <<found, hits, passages, index>>
  <2>1. index' # NotBuilt => index' \subseteq Known'
    BY <1>2, <1>3, <1>8
  <2>2. \A u \in Searches : DOMAIN found'[u] \subseteq Known' /\ hits'[u] \in Seq(Known')
    BY <1>2, <1>3, <1>8, SeqMonotonic
  <2> QED BY <2>1, <2>2 DEF IndexIsKnown, HitsAreKnown
<1> QED BY <1>5, <1>6, <1>7, <1>8, FindingSteps

(* What a step quotes: nothing, or one more passage that fits.             *)
LEMMA QuotedStep ==
  ASSUME RetrievalInv, QuoteInv, Next, NEW t \in Searches
  PROVE  \/ passages'[t] = passages[t]
         \/ \E p : /\ passages'[t] = passages[t] \o <<p>> /\ p.size \in Int /\ Left(t) \in Int /\ Left(t) > 0
                   /\ p.kind = "alone" \/ p.size <= Left(t) \/ \E d \in Chunks : p.size = Info[d].size
                   /\ p.kind = "section" => Info[p.seed].doc \in gone \/ Quotes(p)
<1>1. Typed /\ hits \in [Searches -> Seq(Chunks)] /\ DOMAIN passages = Searches
      /\ passages[t] \in Seq(ToSet(passages[t]))
  BY DEF RetrievalInv, Typed, HitsTyped
<1>2. ASSUME NEW u \in Searches, Search(u) \/ Fuse(u) PROVE passages'[t] = passages[t]
  BY <1>2 DEF Search, Fuse
<1>3. ASSUME NEW u \in Searches, Quote(u), u # t PROVE passages'[t] = passages[t]
  BY <1>1, <1>3 DEF Quote
<1>4. ASSUME Quote(t), passages'[t] # passages[t]
      PROVE  \E p : /\ passages'[t] = passages[t] \o <<p>> /\ p.size \in Int /\ Left(t) \in Int /\ Left(t) > 0
                    /\ p.kind = "alone" \/ p.size <= Left(t) \/ \E d \in Chunks : p.size = Info[d].size
                    /\ p.kind = "section" => Info[p.seed].doc \in gone \/ Quotes(p)
  <2>1. PICK c : /\ c = Head(hits[t]) /\ hits[t] # <<>> /\ Left(t) > 0
                 /\ passages'[t] = passages[t] \o PassagesOf(t, c)
    BY <1>1, <1>4 DEF Quote
  <2>2. c \in Known
    BY <2>1, HeadTailProperties DEF QuoteInv, HitsAreKnown
  <2>3. c \in Chunks /\ (c \in Store \/ Info[c].doc \in gone)
    BY <2>2 DEF Known, Store
  <2>4. Left(t) \in Int
    <3>1. \A p \in ToSet(passages[t]) : p.size \in Int
      BY DEF QuoteInv, PassagesSized
    <3>2. UsedBy(passages[t]) \in Int
      BY <1>1, <3>1, UsedIsInteger
    <3> QED BY <3>2, UsedIsSum, RankingAssumption DEF Left
  <2>5. PassagesOf(t, c) # <<>>
    BY <1>1, <1>4, <2>1, ConcatEmptySeq
  <2>6. PICK p : /\ PassagesOf(t, c) = <<p>> /\ p.size \in Int
                 /\ p.kind = "alone" \/ p.size <= Left(t) \/ \E d \in Chunks : p.size = Info[d].size
                 /\ p.kind = "section" => p.seed = c /\ (c \in Store => Quotes(p))
    BY <1>1, <2>1, <2>3, <2>4, <2>5, PassagesFit
  <2> QED BY <2>1, <2>3, <2>4, <2>6
<1>5. CASE UNCHANGED <<found, hits, passages, index>>
  BY <1>5
<1> QED BY <1>2, <1>3, <1>4, <1>5, FindingSteps

LEMMA QuotationsStep ==
  ASSUME RetrievalInv, QuoteInv, Next
  PROVE  SeedsAreQuoted' /\ PassagesSized' /\ BudgetKept'
<1> SUFFICES ASSUME NEW t \in Searches
             PROVE  /\ \A p \in ToSet(passages'[t]) : /\ p.kind = "section" => Info[p.seed].doc \in gone' \/ Quotes(p)
                                                      /\ p.size \in Int
                    /\ WithinBudget(UsedBy(passages'[t]))
  <2>1. \A t \in Searches : Used(t)' = UsedBy(passages'[t])
    BY DEF Used, UsedBy, Costs
  <2>2. \A p : Quotes(p)' <=> Quotes(p)
    BY DEF Quotes, SamePlace, SameSection, OwnerOf, SourceOf
  <2>3. \A used : WithinBudget(used)' <=> WithinBudget(used)
    BY DEF WithinBudget
  <2> QED BY <2>1, <2>2, <2>3 DEF SeedsAreQuoted, PassagesSized, BudgetKept, WithinBudget
<1>1. passages[t] \in Seq(ToSet(passages[t]))
  BY DEF RetrievalInv, Typed, HitsTyped
<1>2. \A p \in ToSet(passages[t]) : /\ p.kind = "section" => Info[p.seed].doc \in gone' \/ Quotes(p)
                                    /\ p.size \in Int
  BY DocumentSteps DEF QuoteInv, SeedsAreQuoted, PassagesSized
<1>3. WithinBudget(UsedBy(passages[t]))
  BY UsedIsSum DEF QuoteInv, BudgetKept
<1>4. CASE passages'[t] = passages[t]
  BY <1>2, <1>3, <1>4
<1>5. ASSUME NEW p, passages'[t] = passages[t] \o <<p>>, p.size \in Int, Left(t) \in Int, Left(t) > 0,
             p.kind = "alone" \/ p.size <= Left(t) \/ \E d \in Chunks : p.size = Info[d].size,
             p.kind = "section" => Info[p.seed].doc \in gone \/ Quotes(p)
      PROVE  /\ \A r \in ToSet(passages'[t]) : /\ r.kind = "section" => Info[r.seed].doc \in gone' \/ Quotes(r)
                                               /\ r.size \in Int
             /\ WithinBudget(UsedBy(passages'[t]))
  <2>1. PICK S : S = ToSet(passages[t]) \cup {p}
    OBVIOUS
  <2>2. passages[t] \in Seq(S) /\ <<p>> \in Seq(S) /\ p \in S /\ \A r \in S : r.size \in Int
    BY <1>1, <1>2, <1>5, <2>1, SeqMonotonic
  <2>3. ToSet(passages'[t]) = S
    <3>1. ToSet(passages[t] \o <<p>>) = ToSet(passages[t]) \cup ToSet(<<p>>)
      BY <2>2, JoinedMembers
    <3>2. ToSet(<<p>>) = {p}
      BY DEF ToSet
    <3> QED BY <1>5, <2>1, <3>1, <3>2
  <2>4. \A r \in S : r.kind = "section" => Info[r.seed].doc \in gone' \/ Quotes(r)
    BY <1>2, <1>5, <2>1, DocumentSteps
  <2>5. PICK used \in Int, cost \in Int, total \in Nat :
          /\ used = UsedBy(passages[t]) /\ cost = Costs(p) /\ total = TotalMax
          /\ UsedBy(passages'[t]) = used + cost /\ Left(t) = total - used
    <3>1. UsedBy(passages[t]) \in Int /\ UsedBy(passages[t] \o <<p>>) = UsedBy(passages[t]) + Costs(p)
      BY <2>2, UsedMore
    <3>2. Costs(p) \in Int
      BY <1>5 DEF Costs
    <3>3. TotalMax \in Nat
      BY RankingAssumption
    <3> QED BY <1>5, <3>1, <3>2, <3>3, UsedIsSum DEF Left
  <2>6. CASE p.kind = "alone" \/ p.size <= Left(t)
    <3>1. used + cost <= total
      BY <1>5, <2>5, <2>6 DEF Costs
    <3> QED BY <2>2, <2>3, <2>4, <2>5, <3>1 DEF WithinBudget
  <2>7. ASSUME NEW d \in Chunks, p.size = Info[d].size, p.kind # "alone"
        PROVE  used + cost < total + Info[d].size
    BY <1>5, <2>5, <2>7 DEF Costs
  <2> QED BY <1>5, <2>2, <2>3, <2>4, <2>5, <2>6, <2>7 DEF WithinBudget
<1> QED BY <1>4, <1>5, QuotedStep

LEMMA InitQuote == Init => QuoteInv
<1> SUFFICES ASSUME Init PROVE QuoteInv
  OBVIOUS
<1>1. index = NotBuilt /\ \A t \in Searches : found[t] = <<>> /\ hits[t] = <<>> /\ passages[t] = <<>>
  BY DEF Init
<1>2. ToSet(<<>>) = {} /\ DOMAIN <<>> = {}
  BY DEF ToSet
<1>3. IndexIsKnown /\ HitsAreKnown /\ SeedsAreQuoted /\ PassagesSized
  <2>1. \A t \in Searches : DOMAIN found[t] \subseteq Known /\ hits[t] \in Seq(Known) /\ ToSet(passages[t]) = {}
    <3>1. <<>> \in Seq(Known)
      OBVIOUS
    <3> QED BY <1>1, <1>2, <3>1
  <2> QED BY <1>1, <2>1 DEF IndexIsKnown, HitsAreKnown, SeedsAreQuoted, PassagesSized
<1>4. ASSUME NEW t \in Searches PROVE WithinBudget(Used(t))
  <2>1. UsedBy(<<>>) = 0
    <3>1. PICK numbers : numbers = [i \in DOMAIN <<>> |-> Costs(<<>>[i])]
      OBVIOUS
    <3>2. numbers \in Seq(Int) /\ Len(numbers) = 0
      BY <3>1
    <3>3. Total(numbers) = 0
      BY <3>2, TotalSteps
    <3> QED BY <3>1, <3>3 DEF UsedBy
  <2>2. TotalMax \in Nat
    BY RankingAssumption
  <2> QED BY <1>1, <2>1, <2>2, UsedIsSum DEF WithinBudget
<1> QED BY <1>3, <1>4 DEF QuoteInv, BudgetKept

LEMMA StepQuote ==
  ASSUME RetrievalInv, QuoteInv, [Next]_vars
  PROVE  QuoteInv'
<1>1. CASE Next
  BY <1>1, HitsAreKnownStep, QuotationsStep DEF QuoteInv
<1>2. CASE UNCHANGED vars
  <2> USE <1>2 DEF vars, cacheVars, hitVars
  <2>1. IndexIsKnown' /\ HitsAreKnown'
    BY DEF QuoteInv, IndexIsKnown, HitsAreKnown, Known
  <2>2. SeedsAreQuoted' /\ PassagesSized'
    BY DEF QuoteInv, SeedsAreQuoted, PassagesSized, Quotes
  <2>3. BudgetKept'
    BY DEF QuoteInv, BudgetKept, WithinBudget, Used
  <2> QED BY <2>1, <2>2, <2>3 DEF QuoteInv
<1> QED BY <1>1, <1>2

(* A section that is quoted contains the place of its hit, however it had  *)
(* to be shortened, while the document is there; and all that is quoted    *)
(* for a question keeps the limit but for less than one chunk              *)
(* (retriever.py:357, _pack_section_context).                              *)
THEOREM QuotationsKeepTheBudget == Spec => []QuotedWithinBudget
<1>1. Init => RetrievalInv /\ QuoteInv
  BY InitRetrieval, InitQuote
<1>2. RetrievalInv /\ QuoteInv /\ [Next]_vars => RetrievalInv' /\ QuoteInv'
  BY StepRetrieval, StepQuote
<1>3. RetrievalInv /\ QuoteInv => QuotedWithinBudget
  BY InvImpliesQuotedWithinBudget
<1> QED BY <1>1, <1>2, <1>3, PTL DEF Spec
=============================================================================
