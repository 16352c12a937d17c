---------------------------- MODULE SplitterProofs ----------------------------
(***************************************************************************)
(* What is split into chunks is all there, for any text, sizes and         *)
(* overlap.  Chunks cover a text if each has the letters of a stretch of   *)
(* it that begins no later than the one before has ended, and the last     *)
(* ends where the text ends.  Every step keeps this: cutting at a          *)
(* separator gives parts whose stretches follow one another; the overlap   *)
(* is made of the last of them, so that the next chunk only begins         *)
(* earlier; a part that is split finer is covered by its pieces; and       *)
(* joining a short chunk to the one before joins their stretches.          *)
(*                                                                         *)
(* The separators are in no chunk's account: letters are what is followed. *)
(***************************************************************************)
EXTENDS Splitter, ListProofs

-----------------------------------------------------------------------------
(* Sizes                                                                   *)

Paras(text) == {i \in DOMAIN text : text[i] = "para"}

LEMMA SizeCounts ==
  ASSUME NEW text \in Text
  PROVE  /\ IsFiniteSet(Paras(text)) /\ Cardinality(Paras(text)) \in Nat
         /\ Size(text) = Len(text) + Cardinality(Paras(text)) /\ Size(text) \in Nat
         /\ Size(text) >= Len(text)
         /\ "para" \notin ToSet(text) => Size(text) = Len(text)
<1>1. PICK n \in Nat : n = Len(text) /\ DOMAIN text = 1..n
  BY LenProperties DEF Text
<1>2. IsFiniteSet(1..n)
  <2>1. 1 \in Int /\ n \in Int
    OBVIOUS
  <2> QED BY <2>1, FS_Interval
<1>3. IsFiniteSet(Paras(text)) /\ Cardinality(Paras(text)) \in Nat
  <2>1. Paras(text) \in SUBSET (1..n)
    BY <1>1 DEF Paras
  <2> QED BY <1>2, <2>1, FS_Subset, FS_CardinalityType
<1>4. Size(text) = n + Cardinality(Paras(text))
  BY <1>1 DEF Size, Paras
<1>5. "para" \notin ToSet(text) => Cardinality(Paras(text)) = 0
  <2>1. "para" \notin ToSet(text) => Paras(text) = {}
    BY DEF Paras, ToSet
  <2> QED BY <2>1, FS_EmptySet
<1> QED BY <1>1, <1>3, <1>4, <1>5

LEMMA SizeJoined ==
  ASSUME NEW a \in Text, NEW b \in Text
  PROVE  a \o b \in Text /\ Size(a \o b) = Size(a) + Size(b)
<1>1. PICK m \in Nat, n \in Nat : m = Len(a) /\ DOMAIN a = 1..m /\ n = Len(b) /\ DOMAIN b = 1..n
  BY LenProperties DEF Text
<1>2. /\ a \o b \in Text /\ Len(a \o b) = m + n
      /\ \A i \in 1..m + n : (a \o b)[i] = IF i <= m THEN a[i] ELSE b[i - m]
  BY <1>1, ConcatProperties DEF Text
<1>3. DOMAIN (a \o b) = 1..m + n
  BY <1>2, LenProperties DEF Text
<1>4. PICK late : late = {m + i : i \in Paras(b)}
  OBVIOUS
<1>5. Paras(a) \subseteq 1..m /\ Paras(b) \subseteq 1..n
  BY <1>1 DEF Paras
<1>6. Paras(a \o b) = Paras(a) \cup late
  <2>1. ASSUME NEW i \in Paras(a \o b) PROVE i \in Paras(a) \cup late
    <3>1. i \in 1..m + n /\ (a \o b)[i] = "para"
      BY <1>3 DEF Paras
    <3>2. CASE i <= m
      BY <1>1, <1>2, <3>1, <3>2 DEF Paras
    <3>3. CASE ~(i <= m)
      <4>1. i - m \in 1..n /\ b[i - m] = "para" /\ m + (i - m) = i
        BY <1>2, <3>1, <3>3
      <4>2. i - m \in Paras(b)
        BY <1>1, <4>1 DEF Paras
      <4> QED BY <1>4, <4>1, <4>2
    <3> QED BY <3>2, <3>3
  <2>2. ASSUME NEW i \in Paras(a) PROVE i \in Paras(a \o b)
    <3>1. i \in 1..m /\ i \in 1..m + n /\ a[i] = "para"
      BY <1>1, <1>5 DEF Paras
    <3> QED BY <1>2, <1>3, <3>1 DEF Paras
  <2>3. ASSUME NEW k \in late PROVE k \in Paras(a \o b)
    <3>1. PICK i \in Paras(b) : k = m + i
      BY <1>4
    <3>2. i \in 1..n /\ b[i] = "para"
      BY <1>1 DEF Paras
    <3>3. m + i \in 1..m + n /\ ~(m + i <= m) /\ (m + i) - m = i
      BY <3>2
    <3>4. (a \o b)[m + i] = "para"
      BY <1>2, <3>2, <3>3
    <3> QED BY <1>3, <3>1, <3>3, <3>4 DEF Paras
  <2> QED BY <2>1, <2>2, <2>3
<1>7. Paras(a) \cap late = {}
  <2> SUFFICES ASSUME NEW k \in Paras(a), k \in late PROVE FALSE
    OBVIOUS
  <2>1. PICK i \in 1..n : k = m + i
    BY <1>4, <1>5
  <2> QED BY <1>5, <2>1
<1>8. IsFiniteSet(late) /\ Cardinality(late) = Cardinality(Paras(b))
  <2> DEFINE f == [i \in Paras(b) |-> m + i]
  <2>1. \A i \in Paras(b) : i \in 1..n
    BY <1>5
  <2>2. f \in [Paras(b) -> late]
    BY <1>4
  <2>3. \A i, j \in Paras(b) : f[i] = f[j] => i = j
    BY <2>1
  <2>4. \A k \in late : \E i \in Paras(b) : f[i] = k
    BY <1>4
  <2> HIDE DEF f
  <2>5. f \in Bijection(Paras(b), late)
    BY <2>2, <2>3, <2>4 DEF Bijection, Injection, Surjection, IsInjective
  <2>6. ExistsBijection(Paras(b), late)
    BY <2>5 DEF ExistsBijection
  <2>7. IsFiniteSet(Paras(b))
    BY SizeCounts
  <2> QED BY <2>6, <2>7, FS_Bijection
<1>9. Cardinality(Paras(a \o b)) = Cardinality(Paras(a)) + Cardinality(Paras(b))
  <2>1. IsFiniteSet(Paras(a)) /\ Cardinality(Paras(a)) \in Nat /\ Cardinality(Paras(b)) \in Nat
    BY SizeCounts
  <2>2. Cardinality(Paras(a) \cup late) = Cardinality(Paras(a)) + Cardinality(late) - Cardinality(Paras(a) \cap late)
    BY <1>8, <2>1, FS_Union
  <2>3. Cardinality(Paras(a) \cap late) = 0
    BY <1>7, FS_EmptySet
  <2> QED BY <1>6, <1>8, <2>1, <2>2, <2>3
<1>10. /\ Size(a \o b) = (m + n) + Cardinality(Paras(a \o b))
       /\ Size(a) = m + Cardinality(Paras(a)) /\ Size(b) = n + Cardinality(Paras(b))
       /\ Cardinality(Paras(a)) \in Nat /\ Cardinality(Paras(b)) \in Nat
  BY <1>1, <1>2, SizeCounts
<1> QED BY <1>2, <1>9, <1>10

(* A separator by itself.                                                  *)
LEMMA SizeOfToken ==
  ASSUME NEW token \in Tokens
  PROVE  /\ <<token>> \in Text /\ Size(<<token>>) = Width(token)
         /\ Width(token) \in 1..2 /\ ToSet(<<token>>) = {token}
<1>1. <<token>> \in Text /\ Len(<<token>>) = 1 /\ DOMAIN <<token>> = 1..1 /\ <<token>>[1] = token
  BY DEF Text
<1>2. ToSet(<<token>>) = {token}
  BY <1>1 DEF ToSet
<1>3. Paras(<<token>>) = IF token = "para" THEN {1} ELSE {}
  BY <1>1 DEF Paras
<1>4. Cardinality(Paras(<<token>>)) = IF token = "para" THEN 1 ELSE 0
  BY <1>3, FS_EmptySet, FS_Singleton
<1>5. Size(<<token>>) = 1 + Cardinality(Paras(<<token>>))
  BY <1>1, SizeCounts
<1> QED BY <1>1, <1>2, <1>4, <1>5 DEF Width

(* A stretch of a text.                                                    *)
LEMMA Stretched ==
  ASSUME NEW S, NEW text \in Seq(S), NEW a \in Nat, NEW b \in Nat, 1 <= a, b <= Len(text)
  PROVE  /\ SubSeq(text, a, b) \in Seq(S)
         /\ Len(SubSeq(text, a, b)) = (IF a <= b THEN b - a + 1 ELSE 0)
         /\ DOMAIN SubSeq(text, a, b) = 1..b - a + 1
         /\ \A i \in 1..b - a + 1 : SubSeq(text, a, b)[i] = text[a + i - 1]
<1>1. \A i \in a..b : text[i] \in S
  <2>1. PICK n \in Nat : n = Len(text) /\ text \in [1..n -> S]
    BY LenProperties
  <2> QED BY <2>1
<1>2. /\ SubSeq(text, a, b) \in Seq(S)
      /\ Len(SubSeq(text, a, b)) = (IF a <= b THEN b - a + 1 ELSE 0)
      /\ \A i \in 1..b - a + 1 : SubSeq(text, a, b)[i] = text[a + i - 1]
  <2>1. a \in Int /\ b \in Int
    OBVIOUS
  <2> QED BY <1>1, <2>1, SubSeqProperties
<1>3. DOMAIN SubSeq(text, a, b) = 1..Len(SubSeq(text, a, b))
  BY <1>2, LenProperties
<1> QED BY <1>2, <1>3

LEMMA SizeOfStretch ==
  ASSUME NEW text \in Text, NEW a \in Nat, NEW b \in Nat, 1 <= a, b <= Len(text)
  PROVE  SubSeq(text, a, b) \in Text /\ Size(SubSeq(text, a, b)) <= Size(text)
<1>1. PICK n \in Nat : n = Len(text) /\ DOMAIN text = 1..n
  BY LenProperties DEF Text
<1>2. PICK cut : cut = SubSeq(text, a, b)
  OBVIOUS
<1>3. /\ cut \in Text /\ Len(cut) = (IF a <= b THEN b - a + 1 ELSE 0) /\ DOMAIN cut = 1..b - a + 1
      /\ \A i \in 1..b - a + 1 : cut[i] = text[a + i - 1]
  BY <1>2, Stretched DEF Text
<1>4. Cardinality(Paras(cut)) <= Cardinality(Paras(text))
  <2> DEFINE f == [i \in Paras(cut) |-> a + i - 1]
  <2>1. \A i \in Paras(cut) : i \in 1..b - a + 1 /\ cut[i] = "para"
    BY <1>3 DEF Paras
  <2>2. \A i \in Paras(cut) : a + i - 1 \in 1..n /\ text[a + i - 1] = "para"
    BY <1>1, <1>3, <2>1
  <2>3. f \in [Paras(cut) -> Paras(text)]
    BY <1>1, <2>2 DEF Paras
  <2>4. \A i, j \in Paras(cut) : f[i] = f[j] => i = j
    BY <2>1
  <2> HIDE DEF f
  <2>5. f \in Injection(Paras(cut), Paras(text))
    BY <2>3, <2>4 DEF Injection, IsInjective
  <2>6. IsFiniteSet(Paras(text))
    BY SizeCounts
  <2> QED BY <2>5, <2>6, FS_Injection
<1>5. /\ Size(cut) = Len(cut) + Cardinality(Paras(cut)) /\ Cardinality(Paras(cut)) \in Nat
      /\ Size(text) = n + Cardinality(Paras(text)) /\ Cardinality(Paras(text)) \in Nat
  BY <1>1, <1>3, SizeCounts
<1> QED BY <1>1, <1>2, <1>3, <1>4, <1>5
-----------------------------------------------------------------------------
(* Chunks that cover a text                                                *)

(* The letters from one place of a text to another.                        *)
Between(text, i, j) == {text[k] : k \in {k \in DOMAIN text : i <= k /\ k <= j}} \cap Letters

LEMMA BetweenAll ==
  ASSUME NEW text \in Text
  PROVE  Between(text, 0, Len(text)) = LettersIn(text)
<1>1. PICK n \in Nat : n = Len(text) /\ DOMAIN text = 1..n
  BY LenProperties DEF Text
<1>2. {k \in DOMAIN text : 0 <= k /\ k <= Len(text)} = DOMAIN text
  BY <1>1
<1> QED BY <1>2 DEF Between, LettersIn, ToSet

LEMMA BetweenSplit ==
  ASSUME NEW text \in Text, NEW i \in Int, NEW j \in Int, NEW k \in Int, i <= j + 1, j <= k
  PROVE  Between(text, i, k) = Between(text, i, j) \cup Between(text, j + 1, k)
<1>1. PICK n \in Nat : DOMAIN text = 1..n
  BY LenProperties DEF Text
<1>2. {p \in DOMAIN text : i <= p /\ p <= k}
        = {p \in DOMAIN text : i <= p /\ p <= j} \cup {p \in DOMAIN text : j + 1 <= p /\ p <= k}
  BY <1>1
<1> QED BY <1>2 DEF Between

(* Nothing is in front of a text.                                          *)
LEMMA BetweenFront ==
  ASSUME NEW text \in Text, NEW i \in Int, NEW j \in Int, i <= 1
  PROVE  Between(text, i, j) = Between(text, 1, j)
<1>1. PICK n \in Nat : DOMAIN text = 1..n
  BY LenProperties DEF Text
<1>2. {p \in DOMAIN text : i <= p /\ p <= j} = {p \in DOMAIN text : 1 <= p /\ p <= j}
  BY <1>1
<1> QED BY <1>2 DEF Between

LEMMA BetweenEmpty ==
  ASSUME NEW text \in Text, NEW i \in Int, NEW j \in Int, j < i
  PROVE  Between(text, i, j) = {}
<1>1. PICK n \in Nat : DOMAIN text = 1..n
  BY LenProperties DEF Text
<1>2. {p \in DOMAIN text : i <= p /\ p <= j} = {}
  BY <1>1
<1> QED BY <1>2 DEF Between

(* The places of a stretch are places of the text.                         *)
LEMMA BetweenStretch ==
  ASSUME NEW text \in Text, NEW a \in Nat, NEW b \in Nat, 1 <= a, a <= b + 1, b <= Len(text),
         NEW i \in Int, NEW j \in Int, 1 <= i, j <= b - a + 1
  PROVE  Between(SubSeq(text, a, b), i, j) = Between(text, i + a - 1, j + a - 1)
<1>1. PICK n \in Nat : n = Len(text) /\ DOMAIN text = 1..n
  BY LenProperties DEF Text
<1>2. PICK cut : cut = SubSeq(text, a, b)
  OBVIOUS
<1>3. DOMAIN cut = 1..b - a + 1 /\ \A k \in 1..b - a + 1 : cut[k] = text[a + k - 1]
  BY <1>2, Stretched DEF Text
<1>4. ASSUME NEW k \in DOMAIN cut, i <= k, k <= j
      PROVE  \E p \in DOMAIN text : i + a - 1 <= p /\ p <= j + a - 1 /\ text[p] = cut[k]
  <2>1. k \in 1..b - a + 1 /\ a + k - 1 \in 1..n /\ i + a - 1 <= a + k - 1 /\ a + k - 1 <= j + a - 1
    BY <1>1, <1>3, <1>4
  <2> QED BY <1>1, <1>3, <2>1
<1>5. ASSUME NEW p \in DOMAIN text, i + a - 1 <= p, p <= j + a - 1
      PROVE  \E k \in DOMAIN cut : i <= k /\ k <= j /\ cut[k] = text[p]
  <2>1. p - a + 1 \in 1..b - a + 1 /\ i <= p - a + 1 /\ p - a + 1 <= j /\ a + (p - a + 1) - 1 = p
    BY <1>1, <1>5
  <2> QED BY <1>3, <2>1
<1>6. {cut[k] : k \in {k \in DOMAIN cut : i <= k /\ k <= j}}
        = {text[p] : p \in {p \in DOMAIN text : i + a - 1 <= p /\ p <= j + a - 1}}
  BY <1>4, <1>5
<1> QED BY <1>2, <1>6 DEF Between

LEMMA LettersOfStretch ==
  ASSUME NEW text \in Text, NEW a \in Nat, NEW b \in Nat, 1 <= a, a <= b + 1, b <= Len(text)
  PROVE  LettersIn(SubSeq(text, a, b)) = Between(text, a, b)
<1>1. PICK cut : cut = SubSeq(text, a, b)
  OBVIOUS
<1>2. cut \in Text /\ Len(cut) = b - a + 1
  BY <1>1, Stretched DEF Text
<1>3. LettersIn(cut) = Between(cut, 0, b - a + 1)
  BY <1>2, BetweenAll
<1>4. Between(cut, 0, b - a + 1) = Between(cut, 1, b - a + 1)
  BY <1>2, BetweenFront
<1>5. Between(cut, 1, b - a + 1) = Between(text, 1 + a - 1, (b - a + 1) + a - 1)
  <2>1. 1 \in Int /\ b - a + 1 \in Int /\ 1 <= 1 /\ b - a + 1 <= b - a + 1
    OBVIOUS
  <2> QED BY <1>1, <2>1, BetweenStretch
<1>6. 1 + a - 1 = a /\ (b - a + 1) + a - 1 = b
  OBVIOUS
<1> QED BY <1>1, <1>3, <1>4, <1>5, <1>6

(* Up to e, chunks have what stands on a page, one after the other: each   *)
(* begins where the one before has ended, or earlier.                      *)
Reaches(chunks, text, to) ==
  /\ to \in [0..Len(chunks) -> 0..Len(text)]
  /\ Between(text, 0, to[0]) = {}
  /\ \A n \in 1..Len(chunks) :
       /\ to[n - 1] <= to[n]
       /\ \E s \in 0..to[n - 1] + 1 : LettersIn(chunks[n]) = Between(text, s, to[n])
Covers(chunks, text, e) == \E to : Reaches(chunks, text, to) /\ to[Len(chunks)] = e

LEMMA CoversNothing ==
  ASSUME NEW text \in Text
  PROVE  Covers(<<>>, text, 0)
<1>1. PICK to : to = [n \in 0..0 |-> 0]
  OBVIOUS
<1>2. Len(text) \in Nat /\ Len(<<>>) = 0
  BY LenProperties DEF Text
<1>3. Between(text, 0, 0) = {}
  BY BetweenFront, BetweenEmpty
<1>4. Reaches(<<>>, text, to)
  BY <1>1, <1>2, <1>3 DEF Reaches
<1> QED BY <1>1, <1>2, <1>4 DEF Covers

(* Where there is no letter there is nothing to cover.                     *)
LEMMA CoversMore ==
  ASSUME NEW text \in Text, NEW chunks \in Seq(Text), NEW e, Covers(chunks, text, e),
         NEW f \in Nat, e <= f, f <= Len(text), Between(text, e + 1, f) = {}
  PROVE  Covers(chunks, text, f)
<1>1. PICK to : Reaches(chunks, text, to) /\ to[Len(chunks)] = e
  BY DEF Covers
<1>2. PICK N \in Nat, n \in Nat : N = Len(chunks) /\ n = Len(text)
  BY LenProperties DEF Text
<1>3. /\ to \in [0..N -> 0..n] /\ to[N] = e /\ Between(text, 0, to[0]) = {}
      /\ \A k \in 1..N : to[k - 1] <= to[k] /\ \E s \in 0..to[k - 1] + 1 : LettersIn(chunks[k]) = Between(text, s, to[k])
  BY <1>1, <1>2 DEF Reaches
<1>4. e \in 0..n /\ f \in 0..n
  BY <1>2, <1>3
<1>5. PICK up : up = [k \in 0..N |-> IF k = N THEN f ELSE to[k]]
  OBVIOUS
<1>6. up \in [0..N -> 0..n] /\ up[N] = f /\ \A k \in 0..N : k # N => up[k] = to[k]
  BY <1>3, <1>4, <1>5
<1>7. \A s \in 0..e + 1 : Between(text, s, f) = Between(text, s, e)
  <2>1. \A s \in 0..e + 1 : s \in Int /\ e \in Int /\ f \in Int /\ s <= e + 1 /\ e <= f
    BY <1>4
  <2>2. \A s \in 0..e + 1 : Between(text, s, f) = Between(text, s, e) \cup Between(text, e + 1, f)
    BY <2>1, BetweenSplit
  <2> QED BY <2>2
<1>8. Between(text, 0, up[0]) = {}
  <2>1. CASE N = 0
    BY <1>3, <1>4, <1>6, <1>7, <2>1
  <2>2. CASE N # 0
    BY <1>3, <1>6, <2>2
  <2> QED BY <2>1, <2>2
<1>9. ASSUME NEW k \in 1..N
      PROVE  up[k - 1] <= up[k] /\ \E s \in 0..up[k - 1] + 1 : LettersIn(chunks[k]) = Between(text, s, up[k])
  <2>1. k - 1 \in 0..N /\ k - 1 # N /\ up[k - 1] = to[k - 1] /\ k \in 0..N /\ to[k - 1] \in Nat /\ to[k] \in Nat
    BY <1>3, <1>6
  <2>2. PICK s \in 0..to[k - 1] + 1 : LettersIn(chunks[k]) = Between(text, s, to[k])
    BY <1>3
  <2>3. CASE k = N
    <3>1. s \in 0..e + 1
      BY <1>3, <2>1, <2>2, <2>3
    <3>2. LettersIn(chunks[k]) = Between(text, s, f) /\ up[k] = f
      BY <1>3, <1>6, <1>7, <2>2, <2>3, <3>1
    <3>3. up[k - 1] <= up[k]
      <4>1. to[k - 1] <= e /\ e \in Nat /\ to[k - 1] \in Nat
        BY <1>3, <1>4, <2>1, <2>3
      <4> QED BY <2>1, <3>2, <4>1
    <3> QED BY <2>1, <3>2, <3>3
  <2>4. CASE k # N
    BY <1>3, <1>6, <2>1, <2>2, <2>4
  <2> QED BY <2>3, <2>4
<1>10. Reaches(chunks, text, up)
  BY <1>2, <1>6, <1>8, <1>9 DEF Reaches
<1> QED BY <1>2, <1>6, <1>10 DEF Covers

LEMMA CoversAppended ==
  ASSUME NEW text \in Text, NEW chunks \in Seq(Text), NEW e, Covers(chunks, text, e),
         NEW chunk \in Text, NEW s \in Nat, NEW f \in Nat, s <= e + 1, e <= f, f <= Len(text),
         LettersIn(chunk) = Between(text, s, f)
  PROVE  Covers(Append(chunks, chunk), text, f)
<1>1. PICK to : Reaches(chunks, text, to) /\ to[Len(chunks)] = e
  BY DEF Covers
<1>2. PICK N \in Nat, n \in Nat : N = Len(chunks) /\ n = Len(text)
  BY LenProperties DEF Text
<1>3. /\ to \in [0..N -> 0..n] /\ to[N] = e /\ Between(text, 0, to[0]) = {}
      /\ \A k \in 1..N : to[k - 1] <= to[k] /\ \E q \in 0..to[k - 1] + 1 : LettersIn(chunks[k]) = Between(text, q, to[k])
  BY <1>1, <1>2 DEF Reaches
<1>4. e \in 0..n /\ f \in 0..n
  BY <1>2, <1>3
<1>5. PICK more : more = Append(chunks, chunk)
  OBVIOUS
<1>6. Len(more) = N + 1 /\ more[N + 1] = chunk /\ \A k \in 1..N : more[k] = chunks[k]
  BY <1>2, <1>5, AppendProperties
<1>7. PICK up : up = [k \in 0..N + 1 |-> IF k = N + 1 THEN f ELSE to[k]]
  OBVIOUS
<1>8. up \in [0..N + 1 -> 0..n] /\ up[N + 1] = f /\ \A k \in 0..N : up[k] = to[k]
  BY <1>3, <1>4, <1>7
<1>9. ASSUME NEW k \in 1..N + 1
      PROVE  up[k - 1] <= up[k] /\ \E q \in 0..up[k - 1] + 1 : LettersIn(more[k]) = Between(text, q, up[k])
  <2>1. CASE k = N + 1
    <3>1. k - 1 = N /\ up[k - 1] = e /\ up[k] = f /\ more[k] = chunk /\ s \in 0..e + 1
      BY <1>3, <1>4, <1>6, <1>8, <2>1
    <3> QED BY <3>1
  <2>2. CASE k # N + 1
    <3>1. k \in 1..N /\ k - 1 \in 0..N /\ k \in 0..N
      BY <2>2
    <3> QED BY <1>3, <1>6, <1>8, <3>1
  <2> QED BY <2>1, <2>2
<1>10. 0 \in 0..N /\ up[0] = to[0]
  BY <1>8
<1>11. Reaches(more, text, up)
  BY <1>2, <1>3, <1>6, <1>8, <1>9, <1>10 DEF Reaches
<1> QED BY <1>5, <1>6, <1>8, <1>11 DEF Covers

(* A chunk may take up the next.                                           *)
LEMMA CoversMerged ==
  ASSUME NEW text \in Text, NEW chunks \in Seq(Text), chunks # <<>>, NEW e, Covers(chunks, text, e),
         NEW both \in Text, NEW s \in Nat, NEW f \in Nat, s <= e + 1, e <= f, f <= Len(text),
         LettersIn(both) = LettersIn(chunks[Len(chunks)]) \cup Between(text, s, f)
  PROVE  Covers(Append(Front(chunks), both), text, f)
<1>1. PICK to : Reaches(chunks, text, to) /\ to[Len(chunks)] = e
  BY DEF Covers
<1>2. PICK N \in Nat, n \in Nat : N = Len(chunks) /\ n = Len(text) /\ N # 0
  BY LenProperties, EmptySeq DEF Text
<1>3. /\ to \in [0..N -> 0..n] /\ to[N] = e /\ Between(text, 0, to[0]) = {}
      /\ \A k \in 1..N : to[k - 1] <= to[k] /\ \E q \in 0..to[k - 1] + 1 : LettersIn(chunks[k]) = Between(text, q, to[k])
  BY <1>1, <1>2 DEF Reaches
<1>4. e \in 0..n /\ f \in 0..n /\ N \in 1..N /\ N - 1 \in 0..N
  BY <1>2, <1>3
<1>5. /\ Front(chunks) \in Seq(Text) /\ Len(Front(chunks)) = N - 1
      /\ \A k \in 1..N - 1 : Front(chunks)[k] = chunks[k]
  <2>1. Front(chunks) = SubSeq(chunks, 1, N - 1)
    BY <1>2 DEF Front
  <2>2. 1 \in Nat /\ N - 1 \in Nat /\ 1 <= 1 /\ N - 1 <= Len(chunks) /\ (N - 1) - 1 + 1 = N - 1
    BY <1>2
  <2>3. /\ SubSeq(chunks, 1, N - 1) \in Seq(Text)
        /\ Len(SubSeq(chunks, 1, N - 1)) = IF 1 <= N - 1 THEN (N - 1) - 1 + 1 ELSE 0
        /\ \A k \in 1..(N - 1) - 1 + 1 : SubSeq(chunks, 1, N - 1)[k] = chunks[1 + k - 1]
    BY <2>2, Stretched
  <2>4. \A k \in 1..N - 1 : 1 + k - 1 = k
    OBVIOUS
  <2> QED BY <1>2, <2>1, <2>2, <2>3, <2>4
<1>6. Covers(Front(chunks), text, to[N - 1])
  <2>1. PICK up : up = [k \in 0..N - 1 |-> to[k]]
    OBVIOUS
  <2>2. up \in [0..N - 1 -> 0..n] /\ \A k \in 0..N - 1 : up[k] = to[k]
    BY <1>2, <1>3, <2>1
  <2>3. \A k \in 1..N - 1 : k \in 1..N /\ k \in 0..N - 1 /\ k - 1 \in 0..N - 1
    BY <1>2
  <2>4. 0 \in 0..N - 1 /\ N - 1 \in 0..N - 1
    BY <1>2
  <2>5. Reaches(Front(chunks), text, up)
    BY <1>2, <1>3, <1>5, <2>2, <2>3, <2>4 DEF Reaches
  <2> QED BY <1>5, <2>2, <2>4, <2>5 DEF Covers
<1>7. PICK q \in 0..to[N - 1] + 1 : LettersIn(chunks[N]) = Between(text, q, e)
  BY <1>3, <1>4
<1>8. to[N - 1] \in Nat /\ to[N - 1] <= e /\ e \in Nat
  <2>1. to[N - 1] \in 0..n /\ to[N - 1] <= to[N]
    BY <1>3, <1>4
  <2> QED BY <1>3, <1>4, <2>1
<1>9. PICK r \in Nat : r <= to[N - 1] + 1 /\ LettersIn(both) = Between(text, r, f)
  <2>1. q \in Int /\ e \in Int /\ f \in Int /\ s \in Int /\ q <= e + 1 /\ s - 1 \in Int /\ q \in Nat /\ q <= to[N - 1] + 1
    BY <1>7, <1>8
  <2>2. CASE s <= q
    <3>1. Between(text, s, f) = Between(text, s, e) \cup Between(text, e + 1, f)
      BY <2>1, BetweenSplit
    <3>2. Between(text, s, e) = Between(text, s, q - 1) \cup Between(text, (q - 1) + 1, e)
      <4>1. q - 1 \in Int /\ s <= (q - 1) + 1 /\ q - 1 <= e
        BY <2>1, <2>2
      <4> QED BY <2>1, <4>1, BetweenSplit
    <3>3. (q - 1) + 1 = q
      BY <2>1
    <3>4. Between(text, q, e) \subseteq Between(text, s, f)
      BY <3>1, <3>2, <3>3
    <3>5. LettersIn(both) = Between(text, s, f) /\ s <= to[N - 1] + 1
      BY <1>2, <1>7, <1>8, <2>1, <2>2, <3>4
    <3> QED BY <3>5
  <2>3. CASE q <= s
    <3>1. Between(text, q, f) = Between(text, q, s - 1) \cup Between(text, (s - 1) + 1, f)
      <4>1. q <= (s - 1) + 1 /\ s - 1 <= f
        BY <1>8, <2>1, <2>3
      <4> QED BY <2>1, <4>1, BetweenSplit
    <3>2. (s - 1) + 1 = s
      BY <2>1
    <3>3. Between(text, q, e) = Between(text, q, s - 1) \cup Between(text, (s - 1) + 1, e)
      <4>1. q <= (s - 1) + 1 /\ s - 1 <= e
        BY <1>8, <2>1, <2>3
      <4> QED BY <2>1, <4>1, BetweenSplit
    <3>4. Between(text, q, f) = Between(text, q, e) \cup Between(text, e + 1, f)
      BY <1>8, <2>1, BetweenSplit
    <3>5. Between(text, q, e) \cup Between(text, s, f) = Between(text, q, f)
      BY <3>1, <3>2, <3>3, <3>4
    <3> QED BY <1>2, <1>7, <2>1, <3>5
  <2>4. s <= q \/ q <= s
    BY <2>1
  <2> QED BY <2>2, <2>3, <2>4
<1>10. to[N - 1] <= f /\ f <= Len(text)
  BY <1>8
<1> QED BY <1>5, <1>6, <1>9, <1>10, CoversAppended

(* One more of the second list.                                            *)
LEMMA JoinedLonger ==
  ASSUME NEW S, NEW a \in Seq(S), NEW b \in Seq(S), NEW n \in 1..Len(b)
  PROVE  /\ a \o SubSeq(b, 1, n - 1) \in Seq(S)
         /\ a \o SubSeq(b, 1, n) = Append(a \o SubSeq(b, 1, n - 1), b[n])
<1>1. PICK l \in Nat, m \in Nat : l = Len(a) /\ DOMAIN a = 1..l /\ m = Len(b) /\ b \in [1..m -> S]
  BY LenProperties
<1>2. n \in 1..m /\ n - 1 \in Nat /\ b[n] \in S
  BY <1>1
<1>3. PICK short \in Seq(S), long \in Seq(S) :
        /\ short = SubSeq(b, 1, n - 1) /\ Len(short) = n - 1 /\ \A i \in 1..n - 1 : short[i] = b[i]
        /\ long = SubSeq(b, 1, n) /\ Len(long) = n /\ \A i \in 1..n : long[i] = b[i]
  <2>1. /\ SubSeq(b, 1, n - 1) \in Seq(S) /\ Len(SubSeq(b, 1, n - 1)) = (IF 1 <= n - 1 THEN (n - 1) - 1 + 1 ELSE 0)
        /\ \A i \in 1..(n - 1) - 1 + 1 : SubSeq(b, 1, n - 1)[i] = b[1 + i - 1]
    <3>1. 1 \in Nat /\ n - 1 \in Nat /\ 1 <= 1 /\ n - 1 <= Len(b)
      BY <1>1, <1>2
    <3> QED BY <3>1, Stretched
  <2>2. /\ SubSeq(b, 1, n) \in Seq(S) /\ Len(SubSeq(b, 1, n)) = (IF 1 <= n THEN n - 1 + 1 ELSE 0)
        /\ \A i \in 1..n - 1 + 1 : SubSeq(b, 1, n)[i] = b[1 + i - 1]
    <3>1. 1 \in Nat /\ n \in Nat /\ 1 <= 1 /\ n <= Len(b)
      BY <1>1, <1>2
    <3> QED BY <3>1, Stretched
  <2>3. /\ (n - 1) - 1 + 1 = n - 1 /\ n - 1 + 1 = n /\ 1 <= n
        /\ \A i \in 1..n : 1 + i - 1 = i
    BY <1>2
  <2>4. Len(SubSeq(b, 1, n - 1)) = n - 1 /\ Len(SubSeq(b, 1, n)) = n
    BY <1>2, <2>1, <2>2, <2>3
  <2>5. \A i \in 1..n - 1 : i \in 1..n
    BY <1>2
  <2>6. \A i \in 1..n - 1 : SubSeq(b, 1, n - 1)[i] = b[i]
    BY <2>1, <2>3, <2>5
  <2>7. \A i \in 1..n : SubSeq(b, 1, n)[i] = b[i]
    BY <2>2, <2>3
  <2> QED BY <2>1, <2>2, <2>4, <2>6, <2>7
<1>4. PICK one \in Seq(S), two \in Seq(S) : one = a \o short /\ two = a \o long
  BY ConcatProperties
<1>5. /\ Len(one) = l + (n - 1) /\ \A i \in 1..l + (n - 1) : one[i] = IF i <= l THEN a[i] ELSE short[i - l]
      /\ Len(two) = l + n /\ \A i \in 1..l + n : two[i] = IF i <= l THEN a[i] ELSE long[i - l]
  BY <1>1, <1>3, <1>4, ConcatProperties
<1>6. /\ Append(one, b[n]) \in Seq(S) /\ Len(Append(one, b[n])) = l + n
      /\ \A i \in 1..l + (n - 1) : Append(one, b[n])[i] = one[i]
      /\ Append(one, b[n])[l + n] = b[n]
  <2>1. l + (n - 1) + 1 = l + n
    BY <1>1, <1>2
  <2> QED BY <1>2, <1>5, <2>1, AppendProperties
<1>7. \A i \in 1..l + n : two[i] = Append(one, b[n])[i]
  <2> SUFFICES ASSUME NEW i \in 1..l + n PROVE two[i] = Append(one, b[n])[i]
    OBVIOUS
  <2>1. CASE i = l + n
    <3>1. ~(i <= l) /\ i - l = n /\ n \in 1..n
      BY <1>1, <1>2, <2>1
    <3> QED BY <1>3, <1>5, <1>6, <2>1, <3>1
  <2>2. CASE i # l + n /\ i <= l
    <3>1. i \in 1..l + (n - 1)
      BY <1>1, <1>2, <2>2
    <3> QED BY <1>5, <1>6, <2>2, <3>1
  <2>3. CASE i # l + n /\ ~(i <= l)
    <3>0. n \in Nat /\ l \in Nat /\ i \in Nat /\ i <= l + n /\ i # l + n /\ i > l
      BY <1>2, <2>3
    <3>1. i \in 1..l + (n - 1) /\ i - l \in 1..n - 1 /\ i - l \in 1..n
      BY <3>0
    <3>2. two[i] = b[i - l] /\ one[i] = b[i - l]
      BY <1>3, <1>5, <2>3, <3>1
    <3> QED BY <1>6, <3>1, <3>2
  <2> QED BY <2>1, <2>2, <2>3
<1>8. two = Append(one, b[n])
  BY <1>5, <1>6, <1>7, SeqEqual
<1> QED BY <1>3, <1>4, <1>8

(* The chunks of a stretch follow those before it; the first may have      *)
(* something in front that was there before.                               *)
Led(more, pieces, front) ==
  /\ Len(more) = Len(pieces)
  /\ \A n \in 2..Len(pieces) : more[n] = pieces[n]
  /\ pieces # <<>> => LettersIn(more[1]) = front \cup LettersIn(pieces[1])

LEMMA StretchPlaces ==
  ASSUME NEW text \in Text, NEW a \in Nat, NEW b \in Nat, 1 <= a, a <= b + 1, b <= Len(text)
  PROVE  \A i, j \in Int : 1 <= i /\ j <= b - a + 1
           => Between(SubSeq(text, a, b), i, j) = Between(text, i + a - 1, j + a - 1)
<1> SUFFICES ASSUME NEW i \in Int, NEW j \in Int, 1 <= i, j <= b - a + 1
             PROVE  Between(SubSeq(text, a, b), i, j) = Between(text, i + a - 1, j + a - 1)
  OBVIOUS
<1> QED BY BetweenStretch, ZenonT(60)

LEMMA CoversJoined ==
  ASSUME NEW text \in Text, NEW a \in Nat, NEW b \in Nat, 1 <= a, a <= b + 1, b <= Len(text),
         NEW e \in Nat, NEW q \in Nat, e <= a - 1 /\ q <= e + 1,
         NEW chunks \in Seq(Text), NEW pieces \in Seq(Text), NEW more \in Seq(Text)
  PROVE  /\ Covers(chunks, text, e) /\ Between(text, e + 1, a - 1) = {}
         /\ Covers(pieces, SubSeq(text, a, b), b - a + 1)
         /\ Led(more, pieces, Between(text, q, a - 1))
         => Covers(chunks \o more, text, b)
<1>0. SUFFICES ASSUME Covers(chunks, text, e), Between(text, e + 1, a - 1) = {},
                      Covers(pieces, SubSeq(text, a, b), b - a + 1),
                      Led(more, pieces, Between(text, q, a - 1))
               PROVE  Covers(chunks \o more, text, b)
  OBVIOUS
<1>1. PICK cut : cut = SubSeq(text, a, b)
  OBVIOUS
<1>2. PICK N \in Nat : N = Len(pieces) /\ DOMAIN more = 1..N /\ more \in [1..N -> Text]
  BY <1>0, LenProperties DEF Led
<1>3. cut \in Text /\ Len(cut) = b - a + 1
  BY <1>1, Stretched, SMTT(30) DEF Text
<1>4. PICK to : Reaches(pieces, cut, to) /\ to[N] = b - a + 1
  BY <1>0, <1>1, <1>2 DEF Covers
<1>5. /\ to \in [0..N -> 0..b - a + 1] /\ Between(cut, 0, to[0]) = {}
      /\ \A n \in 1..N : to[n - 1] <= to[n] /\ \E s \in 0..to[n - 1] + 1 : LettersIn(pieces[n]) = Between(cut, s, to[n])
  BY <1>2, <1>3, <1>4 DEF Reaches
<1>6. \A i, j \in Int : 1 <= i /\ j <= b - a + 1 => Between(cut, i, j) = Between(text, i + a - 1, j + a - 1)
  <2>1. \A i, j \in Int : 1 <= i /\ j <= b - a + 1
          => Between(SubSeq(text, a, b), i, j) = Between(text, i + a - 1, j + a - 1)
    BY StretchPlaces
  <2> QED BY <1>1, <2>1
<1>7. 0 \in 0..N /\ N \in 0..N /\ to[0] \in Nat /\ to[0] <= b - a + 1
  BY <1>5
<1>8. \A j \in Nat : Between(cut, 0, j) = Between(cut, 1, j)
  BY <1>3, BetweenFront
<1>9. Covers(chunks, text, to[0] + a - 1)
  <2>1. Between(cut, 1, to[0]) = Between(text, 1 + a - 1, to[0] + a - 1)
    BY <1>6, <1>7, SMTT(30)
  <2>2. 1 + a - 1 = (a - 1) + 1
    OBVIOUS
  <2>3. Between(text, (a - 1) + 1, to[0] + a - 1) = {}
    BY <1>5, <1>7, <1>8, <2>1, <2>2
  <2>4. Between(text, e + 1, to[0] + a - 1) = Between(text, e + 1, a - 1) \cup Between(text, (a - 1) + 1, to[0] + a - 1)
    <3>1. PICK i, j, k \in Int : i = e + 1 /\ j = a - 1 /\ k = to[0] + a - 1 /\ i <= j + 1 /\ j <= k
      BY <1>7
    <3>2. Between(text, i, k) = Between(text, i, j) \cup Between(text, j + 1, k)
      BY <3>1, BetweenSplit
    <3> QED BY <3>1, <3>2
  <2>5. to[0] + a - 1 \in Nat /\ e <= to[0] + a - 1 /\ to[0] + a - 1 <= Len(text)
    <3>1. Len(text) \in Nat
      BY LenProperties DEF Text
    <3> QED BY <1>7, <3>1
  <2> QED BY <1>0, <2>3, <2>4, <2>5, CoversMore
<1>10. PICK Done : Done = {n \in 0..N : Covers(chunks \o SubSeq(more, 1, n), text, to[n] + a - 1)}
  OBVIOUS
<1>11. 0 \in Done
  <2>1. SubSeq(more, 1, 0) = <<>>
    BY SubSeqEmpty
  <2>2. chunks \o <<>> = chunks
    BY ConcatEmptySeq
  <2> QED BY <1>7, <1>9, <1>10, <2>1, <2>2
<1>12. ASSUME NEW n \in 1..N, n - 1 \in Done PROVE n \in Done
  <2>1. n \in 0..N /\ n - 1 \in 0..N /\ more[n] \in Text /\ n \in 1..Len(more)
    BY <1>2
  <2>2. PICK x \in Nat, y \in Nat : x = to[n - 1] /\ y = to[n] /\ y <= b - a + 1 /\ x <= y
    BY <1>5, <2>1
  <2>3. PICK s \in 0..x + 1 : LettersIn(pieces[n]) = Between(cut, s, y)
    BY <1>5, <2>2
  <2>4. PICK r \in Nat : r >= 1 /\ r <= x + 1 /\ LettersIn(pieces[n]) = Between(cut, r, y)
    <3>1. CASE s = 0
      <4>1. LettersIn(pieces[n]) = Between(cut, 1, y) /\ 1 <= x + 1
        BY <1>8, <2>3, <3>1
      <4> QED BY <4>1
    <3>2. CASE s # 0
      <4>1. s \in Nat /\ s >= 1 /\ s <= x + 1
        BY <3>2
      <4> QED BY <2>3, <4>1
    <3> QED BY <3>1, <3>2
  <2>5. PICK p \in Nat : p <= x + a /\ LettersIn(more[n]) = Between(text, p, y + a - 1)
    <3>1. CASE n # 1
      <4>1. n \in 2..N
        BY <3>1
      <4>2. LettersIn(more[n]) = Between(text, r + a - 1, y + a - 1)
        <5>1. r \in Int /\ y \in Int /\ 1 <= r /\ y <= b - a + 1
          BY <2>2, <2>4
        <5>2. LettersIn(pieces[n]) = Between(cut, r, y)
          BY <2>4
        <5>3. more[n] = pieces[n]
          BY <1>0, <1>2, <4>1 DEF Led
        <5> QED BY <1>6, <5>1, <5>2, <5>3
      <4>3. r + a - 1 \in Nat /\ r + a - 1 <= x + a
        BY <2>4
      <4> QED BY <4>2, <4>3
    <3>2. CASE n = 1
      <4>1. x = to[0] /\ pieces # <<>>
        <5>1. N # 0
          BY <3>2
        <5> QED BY <1>2, <2>2, <3>2, <5>1, EmptySeq
      <4>2. Between(cut, 1, y) = Between(cut, r, y)
        <5>1. Between(cut, 1, y) = Between(cut, 1, r - 1) \cup Between(cut, (r - 1) + 1, y)
          <6>1. 1 \in Int /\ r - 1 \in Int /\ y \in Int /\ 1 <= (r - 1) + 1 /\ r - 1 <= y
            BY <2>2, <2>4, SMTT(30)
          <6> QED BY <1>3, <6>1, BetweenSplit
        <5>2. Between(cut, 1, x) = Between(cut, 1, r - 1) \cup Between(cut, (r - 1) + 1, x)
          <6>1. 1 \in Int /\ r - 1 \in Int /\ x \in Int /\ 1 <= (r - 1) + 1 /\ r - 1 <= x
            BY <2>2, <2>4
          <6> QED BY <1>3, <6>1, BetweenSplit
        <5>3. Between(cut, 1, x) = {}
          BY <1>5, <1>8, <4>1
        <5>4. (r - 1) + 1 = r
          BY <2>4
        <5> QED BY <5>1, <5>2, <5>3, <5>4
      <4>3. LettersIn(more[1]) = Between(text, q, a - 1) \cup Between(text, 1 + a - 1, y + a - 1)
        <5>1. Between(cut, 1, y) = Between(text, 1 + a - 1, y + a - 1)
          <6>1. 1 \in Int /\ y \in Int /\ 1 <= 1 /\ y <= b - a + 1
            BY <2>2
          <6> QED BY <1>6, <6>1
        <5>2. LettersIn(pieces[1]) = Between(cut, 1, y)
          BY <2>4, <3>2, <4>2
        <5>3. LettersIn(more[1]) = Between(text, q, a - 1) \cup LettersIn(pieces[1])
          BY <1>0, <4>1 DEF Led
        <5> QED BY <5>1, <5>2, <5>3
      <4>4. Between(text, q, y + a - 1) = Between(text, q, a - 1) \cup Between(text, (a - 1) + 1, y + a - 1)
        <5>1. q \in Int /\ a - 1 \in Int /\ y + a - 1 \in Int /\ q <= (a - 1) + 1 /\ a - 1 <= y + a - 1
          BY <2>2, SMTT(30)
        <5> QED BY <5>1, BetweenSplit
      <4>5. 1 + a - 1 = (a - 1) + 1 /\ q <= x + a
        BY <2>2, SMTT(30)
      <4> QED BY <3>2, <4>3, <4>4, <4>5
    <3> QED BY <3>1, <3>2
  <2>6. Covers(chunks \o SubSeq(more, 1, n - 1), text, x + a - 1)
    BY <1>10, <1>12, <2>2
  <2>7. /\ chunks \o SubSeq(more, 1, n - 1) \in Seq(Text)
        /\ chunks \o SubSeq(more, 1, n) = Append(chunks \o SubSeq(more, 1, n - 1), more[n])
    BY <2>1, JoinedLonger
  <2>8. y + a - 1 \in Nat /\ p <= (x + a - 1) + 1 /\ x + a - 1 <= y + a - 1 /\ y + a - 1 <= Len(text)
    <3>1. y + a - 1 \in Nat /\ y + a - 1 <= b
      BY <2>2, SMTT(30)
    <3>2. p <= (x + a - 1) + 1
      BY <2>5
    <3>3. x + a - 1 <= y + a - 1
      BY <2>2, SMTT(30)
    <3>4. Len(text) \in Nat
      BY LenProperties DEF Text
    <3> QED BY <3>1, <3>2, <3>3, <3>4
  <2>9. Covers(Append(chunks \o SubSeq(more, 1, n - 1), more[n]), text, y + a - 1)
    BY <2>1, <2>5, <2>6, <2>7, <2>8, CoversAppended
  <2> QED BY <1>10, <2>1, <2>2, <2>7, <2>9
<1>13. N \in Done
  BY <1>7, <1>11, <1>12, Counting
<1>14. SubSeq(more, 1, N) = more /\ to[N] + a - 1 = b
  BY <1>2, <1>4, SubSeqFull
<1> QED BY <1>10, <1>13, <1>14

(* Chunks that reach the end have every letter, and each is a stretch.     *)
LEMMA CoversAll ==
  ASSUME NEW text \in Text, NEW chunks \in Seq(Text), Covers(chunks, text, Len(text))
  PROVE  /\ LettersIn(text) = UNION {LettersIn(chunk) : chunk \in ToSet(chunks)}
         /\ \A chunk \in ToSet(chunks) : \E i, j \in 0..Len(text) : LettersIn(chunk) = Between(text, i, j)
<1>1. PICK to : Reaches(chunks, text, to) /\ to[Len(chunks)] = Len(text)
  BY DEF Covers
<1>2. PICK N \in Nat, m \in Nat : /\ N = Len(chunks) /\ DOMAIN chunks = 1..N
                                  /\ m = Len(text) /\ DOMAIN text = 1..m
  BY LenProperties DEF Text
<1>3. /\ to \in [0..N -> 0..m] /\ to[N] = m /\ Between(text, 0, to[0]) = {}
      /\ \A n \in 1..N : to[n - 1] <= to[n] /\ \E s \in 0..to[n - 1] + 1 : LettersIn(chunks[n]) = Between(text, s, to[n])
  BY <1>1, <1>2 DEF Reaches
<1>4. ASSUME NEW n \in 1..N PROVE \E i, j \in 0..m : LettersIn(chunks[n]) = Between(text, i, j)
  <2>1. n - 1 \in 0..N /\ n \in 0..N /\ to[n] \in 0..m /\ to[n - 1] \in 0..m
    BY <1>3
  <2>2. PICK s \in 0..to[n - 1] + 1 : LettersIn(chunks[n]) = Between(text, s, to[n])
    BY <1>3
  <2>3. CASE s <= m
    BY <2>1, <2>2, <2>3
  <2>4. CASE ~(s <= m)
    <3>1. s \in Int /\ to[n] \in Int /\ to[n] < s
      BY <2>1, <2>4
    <3>2. Between(text, s, to[n]) = {}
      BY <3>1, BetweenEmpty
    <3>3. Between(text, 0, 0) = {}
      BY BetweenFront, BetweenEmpty
    <3> QED BY <2>2, <3>2, <3>3
  <2> QED BY <2>3, <2>4
<1>5. ASSUME NEW n \in 1..N PROVE LettersIn(chunks[n]) \subseteq LettersIn(text)
  BY <1>4 DEF Between, LettersIn, ToSet
<1>6. ASSUME NEW x \in LettersIn(text) PROVE \E n \in 1..N : x \in LettersIn(chunks[n])
  <2>1. PICK k \in 1..m : x = text[k] /\ x \in Letters
    BY <1>2 DEF LettersIn, ToSet
  <2>2. PICK Later : Later = {n \in 0..N : k <= to[n]}
    OBVIOUS
  <2>3. PICK n \in Later : \A l \in Later : n <= l
    <3>1. N \in 0..N /\ Later \subseteq Nat
      BY <2>2
    <3>2. N \in Later
      BY <1>3, <2>2, <3>1
    <3> QED BY <3>1, <3>2, Least
  <2>4. n # 0
    <3> SUFFICES ASSUME n = 0 PROVE FALSE
      OBVIOUS
    <3>1. 0 <= k /\ k <= to[0] /\ k \in DOMAIN text
      BY <1>2, <2>2, <2>3
    <3>2. x \in Between(text, 0, to[0])
      BY <2>1, <3>1 DEF Between
    <3> QED BY <1>3, <3>2
  <2>5. n \in 1..N /\ n - 1 \in 0..N /\ n \in 0..N /\ n - 1 \notin Later
    BY <2>2, <2>3, <2>4
  <2>6. PICK s \in 0..to[n - 1] + 1 : LettersIn(chunks[n]) = Between(text, s, to[n])
    BY <1>3, <2>5
  <2>7. s <= k /\ k <= to[n]
    <3>1. to[n - 1] \in 0..m /\ ~(k <= to[n - 1])
      BY <1>3, <2>2, <2>5
    <3> QED BY <2>2, <2>3, <2>6, <3>1
  <2>8. x \in Between(text, s, to[n])
    BY <1>2, <2>1, <2>7 DEF Between
  <2> QED BY <2>5, <2>6, <2>8
<1>7. \A chunk : chunk \in ToSet(chunks) <=> \E n \in 1..N : chunk = chunks[n]
  BY <1>2 DEF ToSet
<1> QED BY <1>2, <1>4, <1>5, <1>6, <1>7

-----------------------------------------------------------------------------
(* Parts of a text                                                         *)

(* Where a text is cut.                                                    *)
Cuts(text, sep, cuts) ==
  /\ cuts \in Seq(0..Len(text) + 1) /\ Len(cuts) >= 2
  /\ cuts[1] = 0 /\ cuts[Len(cuts)] = Len(text) + 1
  /\ \A k, l \in 1..Len(cuts) : k < l => cuts[k] < cuts[l]
  /\ \A i \in DOMAIN text : text[i] = sep <=> \E k \in 1..Len(cuts) : cuts[k] = i

LEMMA CutsRise ==
  ASSUME NEW text \in Text, NEW sep
  PROVE  Cuts(text, sep, CutsOf(text, sep))
<1>1. PICK m \in Nat : m = Len(text) /\ DOMAIN text = 1..m
  BY LenProperties DEF Text
<1>2. PICK at, key : at = {i \in DOMAIN text : text[i] = sep} /\ key = [i \in at |-> i]
  OBVIOUS
<1>3. at \subseteq 1..m /\ \A i \in at : key[i] = i /\ key[i] \in Int
  BY <1>1, <1>2
<1>4. PICK asc : asc = Ascending(at, key)
  OBVIOUS
<1>5. asc \in Seq(at) /\ (\A i \in at : \E k \in DOMAIN asc : asc[k] = i) /\ Rising(asc, key)
  <2>1. at \subseteq 1..m /\ \A i \in at : key[i] \in Int
    BY <1>3
  <2>2. /\ Ascending(at, key) \in Seq(1..m)
        /\ Ascending(at, key) \in Seq(at)
        /\ \A i \in at : \E k \in DOMAIN Ascending(at, key) : Ascending(at, key)[k] = i
        /\ Rising(Ascending(at, key), key)
    BY <2>1, PlacesOrdered
  <2> QED BY <1>4, <2>2
<1>7. PICK n \in Nat : n = Len(asc) /\ DOMAIN asc = 1..n
  BY <1>5, LenProperties
<1>8. \A k \in 1..n : asc[k] \in at /\ asc[k] \in 1..m
  <2>1. \A k \in 1..n : asc[k] \in at
    BY <1>5, <1>7, ElementOfSeq
  <2> QED BY <1>3, <2>1
<1>9. \A k, l \in 1..n : k < l => asc[k] < asc[l]
  <2> SUFFICES ASSUME NEW k \in 1..n, NEW l \in 1..n, k < l PROVE asc[k] < asc[l]
    OBVIOUS
  <2>1. key[asc[k]] < key[asc[l]] \/ asc[k] < asc[l]
    BY <1>5, <1>7 DEF Rising
  <2>2. key[asc[k]] = asc[k] /\ key[asc[l]] = asc[l]
    BY <1>3, <1>8
  <2> QED BY <2>1, <2>2
<1>10. PICK P : P = 0..m + 1
  OBVIOUS
<1>11. PICK cuts : cuts = CutsOf(text, sep)
  OBVIOUS
<1>12. cuts = <<0>> \o asc \o <<m + 1>>
  BY <1>1, <1>2, <1>4, <1>11 DEF CutsOf
<1>13. /\ <<0>> \in Seq(P) /\ Len(<<0>>) = 1 /\ <<0>>[1] = 0
       /\ <<m + 1>> \in Seq(P) /\ Len(<<m + 1>>) = 1 /\ <<m + 1>>[1] = m + 1
  BY <1>10
<1>14. asc \in Seq(P)
  <2>1. at \subseteq P
    BY <1>3, <1>10
  <2> QED BY <1>5, <2>1, SeqMonotonic
<1>15. PICK start \in Seq(P) : start = <<0>> \o asc
  BY <1>13, <1>14, ConcatProperties
<1>16. Len(start) = 1 + n /\ start[1] = 0 /\ \A i \in 1..n : start[i + 1] = asc[i]
  <2>1. Len(start) = 1 + n /\ \A i \in 1..1 + n : start[i] = IF i <= 1 THEN <<0>>[i] ELSE asc[i - 1]
    BY <1>7, <1>13, <1>14, <1>15, ConcatProperties
  <2>2. \A i \in 1..n : i + 1 \in 1..1 + n /\ ~(i + 1 <= 1) /\ (i + 1) - 1 = i
    OBVIOUS
  <2> QED BY <1>13, <2>1, <2>2
<1>17. /\ cuts \in Seq(P) /\ Len(cuts) = n + 2
       /\ \A i \in 1..n + 1 : cuts[i] = start[i]
       /\ cuts[n + 2] = m + 1
  <2>1. /\ cuts \in Seq(P) /\ Len(cuts) = (1 + n) + 1
        /\ \A i \in 1..(1 + n) + 1 : cuts[i] = IF i <= 1 + n THEN start[i] ELSE <<m + 1>>[i - (1 + n)]
    BY <1>12, <1>13, <1>15, <1>16, ConcatProperties
  <2>2. n + 2 \in 1..(1 + n) + 1 /\ ~(n + 2 <= 1 + n) /\ (n + 2) - (1 + n) = 1 /\ (1 + n) + 1 = n + 2
    OBVIOUS
  <2>3. \A i \in 1..n + 1 : i \in 1..(1 + n) + 1 /\ i <= 1 + n
    OBVIOUS
  <2> QED BY <1>13, <2>1, <2>2, <2>3
<1>18. cuts[1] = 0 /\ \A i \in 1..n : cuts[i + 1] = asc[i]
  <2>1. 1 \in 1..n + 1 /\ \A i \in 1..n : i + 1 \in 1..n + 1
    OBVIOUS
  <2> QED BY <1>16, <1>17, <2>1
<1>19. \A k \in 2..n + 1 : k - 1 \in 1..n /\ cuts[k] = asc[k - 1] /\ cuts[k] \in 1..m
  <2> SUFFICES ASSUME NEW k \in 2..n + 1
               PROVE  k - 1 \in 1..n /\ cuts[k] = asc[k - 1] /\ cuts[k] \in 1..m
    OBVIOUS
  <2>1. k - 1 \in 1..n /\ (k - 1) + 1 = k
    OBVIOUS
  <2> QED BY <1>8, <1>18, <2>1
<1>20. ASSUME NEW k \in 1..n + 2, NEW l \in 1..n + 2, k < l PROVE cuts[k] < cuts[l]
  <2>1. CASE k = 1
    <3>1. l \in 2..n + 1 \/ l = n + 2
      BY <1>20, <2>1
    <3> QED BY <1>17, <1>18, <1>19, <2>1, <3>1
  <2>2. CASE k # 1
    <3>1. k \in 2..n + 1
      BY <1>20, <2>2
    <3>2. CASE l = n + 2
      BY <1>17, <1>19, <3>1, <3>2
    <3>3. CASE l # n + 2
      <4>1. l \in 2..n + 1 /\ k - 1 < l - 1
        BY <1>20, <3>1, <3>3
      <4> QED BY <1>9, <1>19, <3>1, <4>1
    <3> QED BY <3>2, <3>3
  <2> QED BY <2>1, <2>2
<1>21. ASSUME NEW i \in 1..m PROVE text[i] = sep <=> \E k \in 1..n + 2 : cuts[k] = i
  <2>1. ASSUME text[i] = sep PROVE \E k \in 1..n + 2 : cuts[k] = i
    <3>1. i \in at
      BY <1>1, <1>2, <2>1
    <3>2. PICK k \in 1..n : asc[k] = i
      BY <1>5, <1>7, <3>1
    <3>3. k + 1 \in 1..n + 2
      OBVIOUS
    <3> QED BY <1>18, <3>2, <3>3
  <2>2. ASSUME NEW k \in 1..n + 2, cuts[k] = i PROVE text[i] = sep
    <3>1. k # 1 /\ k # n + 2
      BY <1>17, <1>18, <2>2
    <3>2. k \in 2..n + 1
      BY <3>1
    <3>3. i \in at
      BY <1>8, <1>19, <2>2, <3>2
    <3> QED BY <1>2, <3>3
  <2> QED BY <2>1, <2>2
<1>22. Len(cuts) >= 2
  BY <1>17
<1> QED BY <1>1, <1>10, <1>11, <1>17, <1>18, <1>20, <1>21, <1>22 DEF Cuts

(* The parts are what stands between the cuts, without the separator.      *)
LEMMA PartsBetween ==
  ASSUME NEW text \in Text, NEW sep, NEW cuts, Cuts(text, sep, cuts), cuts = CutsOf(text, sep)
  PROVE  /\ PartsOf(text, sep) \in Seq(Text)
         /\ Len(PartsOf(text, sep)) = Len(cuts) - 1
         /\ \A n \in 1..Len(cuts) - 1 :
              /\ PartsOf(text, sep)[n] = SubSeq(text, cuts[n] + 1, cuts[n + 1] - 1)
              /\ sep \notin ToSet(PartsOf(text, sep)[n])
              /\ ToSet(PartsOf(text, sep)[n]) \subseteq ToSet(text)
<1>1. PICK m \in Nat : m = Len(text) /\ DOMAIN text = 1..m
  BY LenProperties DEF Text
<1>2. PICK K \in Nat : K >= 1 /\ Len(cuts) = K + 1 /\ cuts \in [1..K + 1 -> 0..m + 1]
  <2>1. Len(cuts) \in Nat /\ Len(cuts) >= 2 /\ cuts \in [1..Len(cuts) -> 0..m + 1]
    BY <1>1, LenProperties DEF Cuts
  <2>2. Len(cuts) - 1 \in Nat /\ Len(cuts) - 1 >= 1 /\ Len(cuts) = (Len(cuts) - 1) + 1
    BY <2>1
  <2> QED BY <2>1, <2>2
<1>3. PICK parts : parts = PartsOf(text, sep)
  OBVIOUS
<1>4. parts = [n \in 1..K |-> SubSeq(text, cuts[n] + 1, cuts[n + 1] - 1)]
  <2>1. parts = [n \in 1..Len(cuts) - 1 |-> SubSeq(text, cuts[n] + 1, cuts[n + 1] - 1)]
    BY <1>3 DEF PartsOf
  <2>2. Len(cuts) - 1 = K
    BY <1>2
  <2> QED BY <2>1, <2>2
<1>5. ASSUME NEW n \in 1..K
      PROVE  parts[n] \in Text /\ sep \notin ToSet(parts[n]) /\ ToSet(parts[n]) \subseteq ToSet(text)
  <2>1. n \in 1..K + 1 /\ n + 1 \in 1..K + 1
    BY <1>2
  <2>2. PICK a \in Nat, b \in Int : a = cuts[n] + 1 /\ b = cuts[n + 1] - 1
    BY <1>2, <2>1
  <2>3. b \in Nat /\ 1 <= a /\ b <= m
    <3>1. cuts[n] < cuts[n + 1] /\ cuts[n] \in 0..m + 1 /\ cuts[n + 1] \in 0..m + 1
      BY <1>2, <2>1 DEF Cuts
    <3> QED BY <2>2, <3>1
  <2>4. /\ parts[n] \in Text /\ DOMAIN parts[n] = 1..b - a + 1
        /\ \A i \in 1..b - a + 1 : parts[n][i] = text[a + i - 1]
    <3>1. parts[n] = SubSeq(text, a, b)
      BY <1>4, <2>2
    <3>2. /\ SubSeq(text, a, b) \in Text /\ DOMAIN SubSeq(text, a, b) = 1..b - a + 1
          /\ \A i \in 1..b - a + 1 : SubSeq(text, a, b)[i] = text[a + i - 1]
      BY <1>1, <2>3, Stretched DEF Text
    <3> QED BY <3>1, <3>2
  <2>5. ASSUME NEW i \in 1..b - a + 1
        PROVE  a + i - 1 \in 1..m /\ text[a + i - 1] # sep
    <3>0. a + i - 1 \in 1..m /\ cuts[n] < a + i - 1 /\ a + i - 1 < cuts[n + 1]
      <4>1. cuts[n] \in Int /\ cuts[n + 1] \in Int
        BY <1>2, <2>1
      <4>2. i >= 1 /\ i <= b - a + 1 /\ i \in Int
        OBVIOUS
      <4> QED BY <2>2, <2>3, <4>1, <4>2
    <3>1. PICK j \in 1..m : j = a + i - 1 /\ cuts[n] < j /\ j < cuts[n + 1]
      BY <3>0
    <3>2. ASSUME NEW k \in 1..K + 1, cuts[k] = j PROVE FALSE
      <4>1. k < n \/ k = n \/ k = n + 1 \/ n + 1 < k
        OBVIOUS
      <4>2. cuts[k] \in Int /\ cuts[n] \in Int /\ cuts[n + 1] \in Int
        BY <1>2, <2>1
      <4>3. /\ k < n => cuts[k] < cuts[n]
            /\ n + 1 < k => cuts[n + 1] < cuts[k]
        BY <1>2, <2>1 DEF Cuts
      <4> QED BY <3>1, <3>2, <4>1, <4>2, <4>3
    <3>3. text[j] # sep
      BY <1>1, <1>2, <3>1, <3>2 DEF Cuts
    <3> QED BY <3>1, <3>3
  <2> QED BY <1>1, <2>4, <2>5 DEF ToSet
<1>6. parts \in Seq(Text) /\ Len(parts) = K
  BY <1>4, <1>5
<1>7. Len(cuts) - 1 = K
  BY <1>2
<1> QED BY <1>3, <1>4, <1>5, <1>6, <1>7

-----------------------------------------------------------------------------
(* Parts that are joined again                                             *)

(* The functions of Join.                                                  *)
JoinSteps(parts, sep) ==
  [i \in 1..(Len(parts) - 1) |-> [text \in Text |-> text \o <<sep>> \o parts[i + 1]]]

LEMMA JoinStepsTyped ==
  ASSUME NEW parts \in Seq(Text), parts # <<>>, NEW sep \in Separators
  PROVE  /\ Join(parts, sep) = Folded(parts[1], JoinSteps(parts, sep)) /\ parts[1] \in Text
         /\ JoinSteps(parts, sep) \in Seq([Text -> Text])
         /\ Len(JoinSteps(parts, sep)) = Len(parts) - 1
<1>1. PICK n \in Nat : n = Len(parts) /\ n # 0 /\ \A i \in 1..n : parts[i] \in Text
  BY LenProperties, EmptySeq
<1>2. Head(parts) = parts[1] /\ parts[1] \in Text
  BY <1>1
<1>3. \A i \in 1..n - 1 : [text \in Text |-> text \o <<sep>> \o parts[i + 1]] \in [Text -> Text]
  <2> SUFFICES ASSUME NEW i \in 1..n - 1, NEW text \in Text PROVE text \o <<sep>> \o parts[i + 1] \in Text
    OBVIOUS
  <2>1. i + 1 \in 1..n
    BY <1>1
  <2>2. <<sep>> \in Text
    BY SizeOfToken DEF Tokens
  <2>3. parts[i + 1] \in Text
    BY <1>1, <2>1
  <2>4. text \o <<sep>> \in Text
    BY <2>2, SizeJoined
  <2> QED BY <2>3, <2>4, SizeJoined
<1>4. PICK steps : steps = JoinSteps(parts, sep)
  OBVIOUS
<1>5. steps = [i \in 1..n - 1 |-> [text \in Text |-> text \o <<sep>> \o parts[i + 1]]]
  BY <1>1, <1>4 DEF JoinSteps
<1>6. PICK V : V = [Text -> Text]
  OBVIOUS
<1>7. \A i \in 1..n - 1 : steps[i] \in V
  BY <1>3, <1>5, <1>6
<1>8. DOMAIN steps = 1..n - 1 /\ steps = [i \in 1..n - 1 |-> steps[i]]
  BY <1>5
<1>9. n - 1 \in Nat
  BY <1>1
<1>10. steps \in Seq(V) /\ Len(steps) = n - 1
  BY <1>7, <1>8, <1>9
<1>11. Join(parts, sep) = Folded(Head(parts), steps)
  BY <1>4 DEF Join, JoinSteps
<1> QED BY <1>1, <1>2, <1>4, <1>6, <1>10, <1>11

LEMMA JoinOne ==
  ASSUME NEW parts \in Seq(Text), NEW sep \in Separators
  PROVE  Len(parts) = 1 => Join(parts, sep) = parts[1]
<1> SUFFICES ASSUME Len(parts) = 1 PROVE Join(parts, sep) = parts[1]
  OBVIOUS
<1>1. parts # <<>>
  BY EmptySeq
<1>2. /\ Join(parts, sep) = Folded(parts[1], JoinSteps(parts, sep)) /\ parts[1] \in Text
      /\ JoinSteps(parts, sep) \in Seq([Text -> Text])
      /\ Len(JoinSteps(parts, sep)) = Len(parts) - 1
  BY <1>1, JoinStepsTyped
<1>3. Len(JoinSteps(parts, sep)) = 0
  BY <1>2
<1> QED BY <1>2, <1>3, FoldedNothing

LEMMA JoinTyped ==
  ASSUME NEW parts \in Seq(Text), NEW sep \in Separators
  PROVE  Join(parts, sep) \in Text
<1>1. CASE parts = <<>>
  BY <1>1 DEF Join, Text
<1>2. CASE parts # <<>>
  <2>1. /\ Join(parts, sep) = Folded(parts[1], JoinSteps(parts, sep)) /\ parts[1] \in Text
        /\ JoinSteps(parts, sep) \in Seq([Text -> Text])
    BY <1>2, JoinStepsTyped
  <2>2. PICK f \in [0..Len(JoinSteps(parts, sep)) -> Text] :
          Folded(parts[1], JoinSteps(parts, sep)) = f[Len(JoinSteps(parts, sep))]
    BY <2>1, FoldedRuns
  <2>3. Len(JoinSteps(parts, sep)) \in 0..Len(JoinSteps(parts, sep))
    BY <2>1, LenProperties
  <2> QED BY <2>1, <2>2, <2>3
<1> QED BY <1>1, <1>2

LEMMA JoinAppended ==
  ASSUME NEW parts \in Seq(Text), parts # <<>>, NEW part \in Text, NEW sep \in Separators
  PROVE  Join(Append(parts, part), sep) = Join(parts, sep) \o <<sep>> \o part
<1>1. PICK n \in Nat : n = Len(parts) /\ n # 0
  BY LenProperties, EmptySeq
<1>2. PICK more \in Seq(Text) : more = Append(parts, part)
  BY AppendProperties
<1>3. /\ Len(more) = n + 1 /\ more # <<>> /\ more[n + 1] = part
      /\ \A i \in 1..n : more[i] = parts[i]
  BY <1>1, <1>2, AppendProperties
<1>4. PICK a, b : a = JoinSteps(parts, sep) /\ b = JoinSteps(more, sep)
  OBVIOUS
<1>5. a \in Seq([Text -> Text]) /\ Len(a) = n - 1 /\ Join(parts, sep) = Folded(parts[1], a) /\ parts[1] \in Text
  BY <1>1, <1>4, JoinStepsTyped
<1>6. b \in Seq([Text -> Text]) /\ Len(b) = n /\ Join(more, sep) = Folded(more[1], b)
  <2>1. b \in Seq([Text -> Text]) /\ Len(b) = Len(more) - 1 /\ Join(more, sep) = Folded(more[1], b)
    BY <1>3, <1>4, JoinStepsTyped
  <2> QED BY <1>3, <2>1
<1>7. more[1] = parts[1]
  BY <1>1, <1>3
<1>8. \A i \in 1..n - 1 : b[i] = a[i]
  <2> SUFFICES ASSUME NEW i \in 1..n - 1 PROVE b[i] = a[i]
    OBVIOUS
  <2>1. i + 1 \in 1..n /\ i \in 1..Len(more) - 1 /\ i \in 1..Len(parts) - 1
    BY <1>1, <1>3
  <2>2. more[i + 1] = parts[i + 1]
    BY <1>3, <2>1
  <2> QED BY <1>4, <2>1, <2>2 DEF JoinSteps
<1>9. b[n] = [text \in Text |-> text \o <<sep>> \o part]
  <2>1. n \in 1..Len(more) - 1
    BY <1>1, <1>3
  <2> QED BY <1>3, <1>4, <2>1 DEF JoinSteps
<1>10. Folded(parts[1], b) = b[n][Folded(parts[1], a)] /\ Folded(parts[1], a) \in Text
  <2>1. Len(b) = Len(a) + 1 /\ \A i \in 1..Len(a) : b[i] = a[i]
    BY <1>1, <1>5, <1>6, <1>8
  <2>2. Folded(parts[1], b) = b[Len(b)][Folded(parts[1], a)] /\ Folded(parts[1], a) \in Text
    BY <1>5, <1>6, <2>1, FoldedLast
  <2> QED BY <1>6, <2>2
<1> QED BY <1>2, <1>5, <1>6, <1>7, <1>9, <1>10

LEMMA Apart ==
  ASSUME NEW r \in Int, NEW t \in Int, NEW u \in Int, NEW l \in Int, 0 <= r, r < t, t < u, u <= l + 1
  PROVE  /\ r + 1 \in Nat /\ t \in Nat /\ u - 1 \in Nat
         /\ 1 <= r + 1 /\ r + 1 <= t /\ t <= u - 1 /\ u - 1 <= l
  OBVIOUS

(* Parts of a text that follow each other are joined to what was there.    *)
LEMMA JoinIsStretch ==
  ASSUME NEW text \in Text, NEW sep \in Separators, NEW cuts, Cuts(text, sep, cuts), cuts = CutsOf(text, sep),
         NEW n \in 1..Len(cuts) - 1, NEW m \in 1..n
  PROVE  Join(SubSeq(PartsOf(text, sep), m, n), sep) = SubSeq(text, cuts[m] + 1, cuts[n + 1] - 1)
<1>1. PICK l \in Nat : l = Len(text) /\ DOMAIN text = 1..l
  BY LenProperties DEF Text
<1>2. PICK K \in Nat : K >= 1 /\ Len(cuts) = K + 1 /\ cuts \in [1..K + 1 -> 0..l + 1]
  <2>1. Len(cuts) \in Nat /\ Len(cuts) >= 2 /\ cuts \in [1..Len(cuts) -> 0..l + 1]
    BY <1>1, LenProperties DEF Cuts
  <2>2. Len(cuts) - 1 \in Nat /\ Len(cuts) - 1 >= 1 /\ Len(cuts) = (Len(cuts) - 1) + 1
    BY <2>1
  <2> QED BY <2>1, <2>2
<1>3. n \in 1..K /\ m \in 1..K /\ m <= n
  BY <1>2
<1>4. PICK parts \in Seq(Text) : parts = PartsOf(text, sep) /\ Len(parts) = K
        /\ \A i \in 1..K : parts[i] = SubSeq(text, cuts[i] + 1, cuts[i + 1] - 1)
  <2>1. Len(cuts) - 1 = K
    BY <1>2
  <2>2. /\ PartsOf(text, sep) \in Seq(Text)
        /\ Len(PartsOf(text, sep)) = Len(cuts) - 1
        /\ \A i \in 1..Len(cuts) - 1 : PartsOf(text, sep)[i] = SubSeq(text, cuts[i] + 1, cuts[i + 1] - 1)
    BY PartsBetween
  <2> QED BY <2>1, <2>2
<1>5. PICK Done : Done = {d \in 0..n - m : Join(SubSeq(parts, m, m + d), sep) = SubSeq(text, cuts[m] + 1, cuts[m + d + 1] - 1)}
  OBVIOUS
<1>6. 0 \in Done
  <2>1. SubSeq(parts, m, m) \in Seq(Text) /\ Len(SubSeq(parts, m, m)) = 1 /\ SubSeq(parts, m, m)[1] = parts[m]
    <3>1. m \in Nat /\ 1 <= m /\ m <= Len(parts) /\ m - m + 1 = 1 /\ 1 \in 1..1 /\ m + 1 - 1 = m
      BY <1>3, <1>4
    <3>2. /\ SubSeq(parts, m, m) \in Seq(Text) /\ Len(SubSeq(parts, m, m)) = (IF m <= m THEN m - m + 1 ELSE 0)
          /\ \A i \in 1..m - m + 1 : SubSeq(parts, m, m)[i] = parts[m + i - 1]
      BY <3>1, Stretched
    <3> QED BY <3>1, <3>2
  <2>2. Join(SubSeq(parts, m, m), sep) = parts[m]
    BY <2>1, JoinOne
  <2>3. 0 \in 0..n - m /\ m + 0 = m /\ m + 0 + 1 = m + 1
    BY <1>3
  <2> QED BY <1>3, <1>4, <1>5, <2>2, <2>3
<1>7. ASSUME NEW d \in 1..n - m, d - 1 \in Done PROVE d \in Done
  <2>1. PICK k \in 1..K : k = m + d /\ k - 1 \in 1..K /\ m + (d - 1) = k - 1 /\ m + (d - 1) + 1 = k
    BY <1>3
  <2>2. PICK old : old = SubSeq(parts, m, k - 1)
    OBVIOUS
  <2>3. old \in Seq(Text) /\ old # <<>> /\ SubSeq(parts, m, k) = Append(old, parts[k]) /\ parts[k] \in Text
    <3>1. m \in 1..Len(parts) /\ k \in m..Len(parts)
      BY <1>3, <1>4, <2>1
    <3>2. SubSeq(parts, m, k) = old \o <<parts[k]>>
      BY <2>2, <3>1, SubSeqRecursiveSecond
    <3>3. parts[k] \in Text
      BY <1>4, <2>1, ElementOfSeq
    <3>4. old \in Seq(Text) /\ Len(old) = k - 1 - m + 1
      <4>1. m \in Nat /\ k - 1 \in Nat /\ 1 <= m /\ k - 1 <= Len(parts) /\ m <= k - 1
        BY <1>3, <1>4, <2>1
      <4> QED BY <2>2, <4>1, Stretched
    <3>5. old # <<>>
      <4>1. k - 1 - m + 1 # 0
        BY <1>3, <2>1
      <4> QED BY <3>4, <4>1, EmptySeq
    <3> QED BY <3>2, <3>3, <3>4, <3>5, AppendIsConcat
  <2>4. Join(old, sep) = SubSeq(text, cuts[m] + 1, cuts[k] - 1)
    BY <1>5, <1>7, <2>1, <2>2
  <2>5. Join(SubSeq(parts, m, k), sep) = Join(old, sep) \o <<sep>> \o parts[k]
    BY <2>3, JoinAppended
  <2>6. PICK x \in Nat, y \in Nat, z \in Nat : x = cuts[m] + 1 /\ y = cuts[k] /\ z = cuts[k + 1] - 1
                              /\ 1 <= x /\ x <= y /\ y <= z /\ y \in 1..l /\ z <= l /\ text[y] = sep
    <3>1. m \in 1..K + 1 /\ k \in 1..K + 1 /\ k + 1 \in 1..K + 1 /\ m < k /\ k < k + 1
      BY <1>3, <2>1
    <3>2. cuts[m] \in 0..l + 1 /\ cuts[k] \in 0..l + 1 /\ cuts[k + 1] \in 0..l + 1
      BY <1>2, <3>1
    <3>3. cuts[m] < cuts[k] /\ cuts[k] < cuts[k + 1]
      BY <1>2, <3>1 DEF Cuts
    <3>4. cuts[k] \in 1..l
      BY <3>2, <3>3, SMTT(30)
    <3>5. text[cuts[k]] = sep
      BY <1>1, <1>2, <3>1, <3>4 DEF Cuts
    <3>6. /\ cuts[m] + 1 \in Nat /\ cuts[k] \in Nat /\ cuts[k + 1] - 1 \in Nat
          /\ 1 <= cuts[m] + 1 /\ cuts[m] + 1 <= cuts[k] /\ cuts[k] <= cuts[k + 1] - 1 /\ cuts[k + 1] - 1 <= l
      <4>1. /\ cuts[m] \in Int /\ cuts[k] \in Int /\ cuts[k + 1] \in Int /\ l \in Int
            /\ 0 <= cuts[m] /\ cuts[m] < cuts[k] /\ cuts[k] < cuts[k + 1] /\ cuts[k + 1] <= l + 1
        BY <1>1, <3>2, <3>3
      <4> QED BY <4>1, Apart
    <3> QED BY <3>4, <3>5, <3>6
  <2>7. SubSeq(text, x, y) = SubSeq(text, x, y - 1) \o <<sep>>
    <3>1. x \in 1..Len(text) /\ y \in x..Len(text)
      BY <1>1, <2>6
    <3> QED BY <2>6, <3>1, SubSeqRecursiveSecond DEF Text
  <2>8. SubSeq(text, x, z) = SubSeq(text, x, y) \o SubSeq(text, y + 1, z)
    <3>1. x \in 1..Len(text) + 1 /\ y \in x - 1..Len(text) /\ z \in y..Len(text)
      BY <1>1, <2>6
    <3> QED BY <3>1, ConcatAdjacentSubSeq DEF Text
  <2>9. parts[k] = SubSeq(text, y + 1, z)
    BY <1>4, <2>6
  <2>10. Join(SubSeq(parts, m, k), sep) = SubSeq(text, x, z)
    BY <2>4, <2>5, <2>6, <2>7, <2>8, <2>9
  <2>11. d \in 0..n - m
    OBVIOUS
  <2> QED BY <1>5, <2>1, <2>6, <2>10, <2>11
<1>8. n - m \in Nat /\ n - m \in 0..n - m /\ m + (n - m) = n
  BY <1>3
<1>9. n - m \in Done
  BY <1>6, <1>7, <1>8, Counting
<1> QED BY <1>4, <1>5, <1>8, <1>9

-----------------------------------------------------------------------------
(* Chunks of a text                                                        *)

Bounded(chunks) == \A chunk \in ToSet(chunks) : Size(chunk) <= ChunkSize + ChunkOverlap

(* What is asked of the chunks of a text.                                  *)
Good(chunks, text) ==
  /\ chunks \in Seq(Text)
  /\ Covers(chunks, text, Len(text))
  /\ Bounded(chunks)

LEMMA Numbers == ChunkSize \in Nat /\ ChunkSize >= 1 /\ ChunkOverlap \in Nat
  BY SplitterAssumption DEF SplitterAssumption

LEMMA SeparatorToken ==
  ASSUME NEW sep \in Separators
  PROVE  /\ <<sep>> \in Text /\ Size(<<sep>>) = Width(sep) /\ Width(sep) \in 1..2
         /\ LettersIn(<<sep>>) = {} /\ sep \notin Letters
<1>1. sep \in Tokens /\ sep \notin Letters
  BY SplitterAssumption DEF SplitterAssumption, Tokens
<1>2. ToSet(<<sep>>) = {sep}
  BY <1>1, SizeOfToken
<1> QED BY <1>1, <1>2, SizeOfToken DEF LettersIn

LEMMA LettersJoined ==
  ASSUME NEW a \in Text, NEW b \in Text
  PROVE  LettersIn(a \o b) = LettersIn(a) \cup LettersIn(b)
<1>1. ToSet(a \o b) = ToSet(a) \cup ToSet(b)
  BY JoinedMembers DEF Text
<1> QED BY <1>1 DEF LettersIn

LEMMA BoundedAppended ==
  ASSUME NEW chunks \in Seq(Text), NEW chunk \in Text
  PROVE  /\ Append(chunks, chunk) \in Seq(Text)
         /\ Bounded(chunks) /\ Size(chunk) <= ChunkSize + ChunkOverlap => Bounded(Append(chunks, chunk))
<1>1. PICK n \in Nat : n = Len(chunks) /\ DOMAIN chunks = 1..n
  BY LenProperties
<1>2. PICK more \in Seq(Text) : more = Append(chunks, chunk)
  BY AppendProperties
<1>3. DOMAIN more = 1..n + 1 /\ more[n + 1] = chunk /\ \A i \in 1..n : more[i] = chunks[i]
  <2>1. Len(more) = n + 1 /\ more[n + 1] = chunk /\ \A i \in 1..n : more[i] = chunks[i]
    BY <1>1, <1>2, AppendProperties
  <2> QED BY <1>2, <2>1, LenProperties
<1>4. ASSUME NEW i \in 1..n + 1 PROVE more[i] \in ToSet(chunks) \cup {chunk}
  <2>1. i \in 1..n \/ i = n + 1
    BY <1>1
  <2> QED BY <1>1, <1>3, <2>1 DEF ToSet
<1>5. ToSet(more) \subseteq ToSet(chunks) \cup {chunk}
  BY <1>3, <1>4 DEF ToSet
<1> QED BY <1>2, <1>5 DEF Bounded

LEMMA BoundedJoined ==
  ASSUME NEW a \in Seq(Text), NEW b \in Seq(Text)
  PROVE  /\ a \o b \in Seq(Text)
         /\ Bounded(a) /\ Bounded(b) => Bounded(a \o b)
<1>1. a \o b \in Seq(Text) /\ ToSet(a \o b) = ToSet(a) \cup ToSet(b)
  BY JoinedMembers
<1> QED BY <1>1 DEF Bounded

(* Nothing is enough where there is no letter.                             *)
LEMMA GoodNothing ==
  ASSUME NEW text \in Text
  PROVE  LettersIn(text) = {} => Good(<<>>, text)
<1>1. SUFFICES ASSUME LettersIn(text) = {} PROVE Good(<<>>, text)
  OBVIOUS
<1>2. Len(text) \in Nat /\ <<>> \in Seq(Text)
  BY LenProperties, EmptySeq DEF Text
<1>3. Between(text, 0 + 1, Len(text)) = {}
  <2>1. Between(text, 0, Len(text)) = {}
    BY <1>1, BetweenAll
  <2>2. Between(text, 0, Len(text)) = Between(text, 1, Len(text))
    BY <1>2, BetweenFront
  <2> QED BY <2>1, <2>2
<1>4. Covers(<<>>, text, Len(text))
  <2>1. PICK e \in Nat, f \in Nat : e = 0 /\ f = Len(text) /\ e <= f /\ f <= Len(text)
    BY <1>2
  <2>2. Covers(<<>>, text, e) /\ Between(text, e + 1, f) = {}
    BY <1>3, <2>1, CoversNothing
  <2>3. Covers(<<>>, text, f)
    BY <1>2, <2>1, <2>2, CoversMore
  <2> QED BY <2>1, <2>3
<1>5. Bounded(<<>>)
  <2>1. ToSet(<<>>) = {}
    BY DEF ToSet
  <2> QED BY <2>1 DEF Bounded
<1> QED BY <1>2, <1>4, <1>5 DEF Good

LEMMA WholeIsGood ==
  ASSUME NEW text \in Text
  PROVE  Whole(text) \in Seq(Text) /\ (Size(text) <= ChunkSize => Good(Whole(text), text))
<1>1. Len(text) \in Nat /\ <<>> \in Seq(Text) /\ Size(text) \in Nat
  BY LenProperties, EmptySeq, SizeCounts DEF Text
<1>2. CASE Blank(text)
  <2>1. LettersIn(text) = {}
    BY <1>2, SplitterAssumption DEF SplitterAssumption, Blank, White, Separators, LettersIn
  <2> QED BY <1>1, <1>2, <2>1, GoodNothing DEF Whole
<1>3. CASE ~Blank(text)
  <2>1. Whole(text) = Append(<<>>, text)
    BY <1>3 DEF Whole
  <2>2. Append(<<>>, text) \in Seq(Text)
    BY <1>1, AppendProperties
  <2>3. Covers(Append(<<>>, text), text, Len(text))
    <3>1. Covers(<<>>, text, 0)
      BY CoversNothing
    <3>2. LettersIn(text) = Between(text, 0, Len(text))
      BY BetweenAll
    <3>3. 0 \in Nat /\ Len(text) \in Nat /\ 0 <= 0 + 1 /\ 0 <= Len(text) /\ Len(text) <= Len(text)
      BY <1>1
    <3> QED BY <1>1, <3>1, <3>2, <3>3, CoversAppended
  <2>4. ASSUME Size(text) <= ChunkSize PROVE Bounded(Append(<<>>, text))
    <3>1. Size(text) <= ChunkSize + ChunkOverlap
      BY <1>1, <2>4, Numbers
    <3>2. Bounded(<<>>)
      <4>1. ToSet(<<>>) = {}
        BY DEF ToSet
      <4> QED BY <4>1 DEF Bounded
    <3> QED BY <1>1, <3>1, <3>2, BoundedAppended
  <2> QED BY <2>1, <2>2, <2>3, <2>4 DEF Good
<1> QED BY <1>2, <1>3

(* Strip takes away nothing but separators.                                *)
LEMMA StripIs ==
  ASSUME NEW text \in Text
  PROVE  \/ Strip(text) = <<>> /\ LettersIn(text) = {}
         \/ \E a \in 1..Len(text) : \E b \in a..Len(text) :
              Strip(text) = SubSeq(text, a, b) /\ LettersIn(text) = Between(text, a, b)
<1>1. PICK n \in Nat : n = Len(text) /\ DOMAIN text = 1..n
  BY LenProperties DEF Text
<1>2. PICK solid : solid = {i \in DOMAIN text : text[i] \notin White}
  OBVIOUS
<1>3. ASSUME NEW i \in 1..n, text[i] \in Letters PROVE i \in solid
  BY <1>1, <1>2, <1>3, SplitterAssumption DEF SplitterAssumption, White, Separators
<1>4. CASE solid = {}
  <2>1. Strip(text) = <<>>
    BY <1>2, <1>4 DEF Strip
  <2> QED BY <1>1, <1>3, <1>4, <2>1 DEF LettersIn, ToSet
<1>5. CASE solid # {}
  <2>1. Strip(text) = SubSeq(text, Min(solid), Max(solid))
    BY <1>2, <1>5 DEF Strip
  <2>2. solid \subseteq 1..n
    BY <1>1, <1>2
  <2>3. PICK a \in solid : a = Min(solid) /\ \A i \in solid : a <= i
    <3>1. solid \subseteq Nat
      BY <2>2
    <3>2. \E i \in solid : \A j \in solid : i <= j
      BY <1>5, <3>1, Least
    <3> QED BY <3>2 DEF Min
  <2>4. PICK b \in solid : b = Max(solid) /\ \A i \in solid : b >= i
    <3> QED BY <1>1, <1>5, <2>2, Greatest
  <2>5. a \in 1..n /\ b \in a..n
    BY <2>2, <2>3, <2>4
  <2>6. LettersIn(text) = Between(text, a, b)
    <3>1. ASSUME NEW i \in 1..n, text[i] \in Letters PROVE a <= i /\ i <= b
      BY <1>3, <2>2, <2>3, <2>4, <3>1
    <3> QED BY <1>1, <3>1 DEF LettersIn, ToSet, Between
  <2> QED BY <1>1, <2>1, <2>3, <2>4, <2>5, <2>6
<1> QED BY <1>4, <1>5

LEMMA StripKeeps ==
  ASSUME NEW text \in Text
  PROVE  Strip(text) \in Text /\ LettersIn(Strip(text)) = LettersIn(text) /\ Size(Strip(text)) <= Size(text)
<1>1. PICK n \in Nat : n = Len(text)
  BY LenProperties DEF Text
<1>2. CASE Strip(text) = <<>> /\ LettersIn(text) = {}
  <2>1. <<>> \in Text /\ ToSet(<<>>) = {} /\ Len(<<>>) = 0
    BY DEF Text, ToSet
  <2>2. Size(<<>>) = 0 /\ Size(text) \in Nat
    BY <2>1, SizeCounts
  <2> QED BY <1>2, <2>1, <2>2 DEF LettersIn
<1>3. ASSUME NEW a \in 1..n, NEW b \in a..n, Strip(text) = SubSeq(text, a, b) /\ LettersIn(text) = Between(text, a, b)
      PROVE  Strip(text) \in Text /\ LettersIn(Strip(text)) = LettersIn(text) /\ Size(Strip(text)) <= Size(text)
  <2>1. a \in Nat /\ b \in Nat /\ 1 <= a /\ a <= b + 1 /\ b <= Len(text)
    BY <1>1
  <2>2. LettersIn(SubSeq(text, a, b)) = Between(text, a, b)
    BY <2>1, LettersOfStretch
  <2>3. SubSeq(text, a, b) \in Text /\ Size(SubSeq(text, a, b)) <= Size(text)
    BY <2>1, SizeOfStretch
  <2> QED BY <1>3, <2>2, <2>3
<1> QED BY <1>1, <1>2, <1>3, StripIs

(* The parts that overlap are the last, and not too long.                  *)
LEMMA OverlapIs ==
  ASSUME NEW parts \in Seq(Text), NEW sep \in Separators
  PROVE  \E k \in 1..Len(parts) + 1 :
           /\ OverlapParts(parts, sep) = SubSeq(parts, k, Len(parts))
           /\ k <= Len(parts) => Size(Join(SubSeq(parts, k, Len(parts)), sep)) + Width(sep) <= ChunkOverlap
<1>1. PICK n \in Nat : n = Len(parts)
  BY LenProperties
<1>2. PICK fits : fits = {j \in 1..n : Size(Join(SubSeq(parts, n - j + 1, n), sep)) + Width(sep) <= ChunkOverlap}
  OBVIOUS
<1>3. OverlapParts(parts, sep) = IF fits = {} THEN <<>> ELSE SubSeq(parts, n - Max(fits) + 1, n)
  BY <1>1, <1>2 DEF OverlapParts
<1>4. CASE fits = {}
  <2>1. n + 1 \in 1..n + 1 /\ ~(n + 1 <= n) /\ n \in Int /\ n + 1 \in Int /\ n < n + 1
    BY <1>1
  <2>2. SubSeq(parts, n + 1, n) = <<>>
    BY <2>1, SubSeqEmpty
  <2> QED BY <1>1, <1>3, <1>4, <2>1, <2>2
<1>5. CASE fits # {}
  <2>1. fits \subseteq 1..n
    BY <1>2
  <2>2. PICK j \in fits : j = Max(fits)
    BY <1>1, <1>5, <2>1, Greatest
  <2>3. PICK k \in 1..n + 1 : k = n - j + 1
    <3>1. j \in 1..n
      BY <2>1
    <3>2. n - j + 1 \in 1..n + 1
      BY <1>1, <3>1
    <3> QED BY <3>2
  <2>4. OverlapParts(parts, sep) = SubSeq(parts, k, n)
    BY <1>3, <1>5, <2>2, <2>3
  <2>5. Size(Join(SubSeq(parts, k, n), sep)) + Width(sep) <= ChunkOverlap
    BY <1>2, <2>3
  <2> QED BY <1>1, <2>4, <2>5
<1> QED BY <1>4, <1>5

LEMMA Multiples ==
  ASSUME NEW step \in Nat
  PROVE  /\ 0 * step = 0
         /\ \A n \in Nat : n * step \in Nat /\ (n + 1) * step = n * step + step
  OBVIOUS

LEMMA MinOfTwo ==
  ASSUME NEW x \in Nat, NEW y \in Nat
  PROVE  Min({x, y}) = IF x <= y THEN x ELSE y
<1>1. PICK z \in Nat : z = IF x <= y THEN x ELSE y
  OBVIOUS
<1>2. z \in {x, y} /\ \A w \in {x, y} : z <= w
  BY <1>1
<1>3. \A v \in {x, y} : (\A w \in {x, y} : v <= w) => v = z
  BY <1>1
<1> QED BY <1>1, <1>2, <1>3 DEF Min

(* The distance from one piece to the next, and how many there are.        *)
Pieces(text, at, count) ==
  /\ at \in [0..Len(text) -> Nat] /\ at[0] = 0
  /\ \A n \in 1..Len(text) : at[n - 1] < at[n] /\ at[n] <= at[n - 1] + ChunkSize
  /\ count \in 0..Len(text) /\ at[count] >= Len(text)
  /\ \A n \in 0..count - 1 : at[n] < Len(text)
  /\ ForceSplit(text) = [i \in 1..count |->
       SubSeq(text, at[i - 1] + 1, Min({at[i - 1] + ChunkSize, Len(text)}))]

LEMMA ForceCounts ==
  ASSUME NEW text \in Text
  PROVE  \E at, count : Pieces(text, at, count)
<1>1. PICK L \in Nat : L = Len(text)
  BY LenProperties DEF Text
<1>2. PICK step \in Nat : /\ step = IF ChunkOverlap < ChunkSize THEN ChunkSize - ChunkOverlap ELSE ChunkSize
                          /\ 1 <= step /\ step <= ChunkSize
  <2>1. CASE ChunkOverlap < ChunkSize
    <3>1. ChunkSize - ChunkOverlap \in Nat /\ 1 <= ChunkSize - ChunkOverlap /\ ChunkSize - ChunkOverlap <= ChunkSize
      BY <2>1, Numbers
    <3> QED BY <2>1, <3>1
  <2>2. CASE ~(ChunkOverlap < ChunkSize)
    BY <2>2, Numbers
  <2> QED BY <2>1, <2>2
<1>3. PICK at : at = [n \in 0..L |-> n * step]
  OBVIOUS
<1>4. /\ at \in [0..L -> Nat] /\ at[0] = 0
      /\ \A n \in 1..L : at[n] = at[n - 1] + step
  <2>1. ASSUME NEW n \in 0..L PROVE at[n] = n * step /\ at[n] \in Nat
    BY <1>3, Multiples
  <2>2. at \in [0..L -> Nat]
    BY <1>3, <2>1
  <2>3. at[0] = 0
    BY <2>1, Multiples
  <2>4. ASSUME NEW n \in 1..L PROVE at[n] = at[n - 1] + step
    <3>1. PICK k \in Nat : k = n - 1 /\ n = k + 1 /\ k \in 0..L /\ n \in 0..L
      OBVIOUS
    <3>2. (k + 1) * step = k * step + step
      BY Multiples
    <3> QED BY <2>1, <3>1, <3>2
  <2> QED BY <2>2, <2>3, <2>4
<1>5. PICK Far : Far = {n \in 0..L : at[n] >= L}
  OBVIOUS
<1>6. L \in Far
  <2>1. PICK Done : Done = {n \in 0..L : at[n] >= n}
    OBVIOUS
  <2>2. 0 \in Done
    BY <1>4, <2>1
  <2>3. ASSUME NEW n \in 1..L, n - 1 \in Done PROVE n \in Done
    <3>1. n \in 0..L /\ n - 1 \in 0..L /\ at[n - 1] >= n - 1 /\ at[n - 1] \in Nat /\ at[n] = at[n - 1] + step
      BY <1>4, <2>1, <2>3
    <3>2. at[n] >= n
      BY <1>2, <3>1
    <3> QED BY <2>1, <3>1, <3>2
  <2>4. L \in 0..L
    OBVIOUS
  <2>5. L \in Done
    BY <2>2, <2>3, <2>4, Counting
  <2> QED BY <1>5, <2>1, <2>4, <2>5
<1>7. PICK count \in Far : count = Min(Far) /\ \A n \in Far : count <= n
  <2>1. Far \subseteq Nat /\ Far # {}
    BY <1>5, <1>6
  <2>2. \E n \in Far : \A m \in Far : n <= m
    BY <2>1, Least
  <2> QED BY <2>2 DEF Min
<1>8. count = Min({n \in 0..L : n * step >= L})
  <2>1. \A n \in 0..L : at[n] = n * step
    BY <1>3
  <2>2. Far = {n \in 0..L : n * step >= L}
    BY <1>5, <2>1
  <2> QED BY <1>7, <2>2
<1>9. count \in 0..L /\ at[count] >= L
  BY <1>5
<1>10. ASSUME NEW n \in 0..count - 1 PROVE at[n] < L
  <2>1. n \in 0..L /\ ~(count <= n)
    BY <1>9
  <2>2. n \notin Far
    BY <1>7, <2>1
  <2>3. at[n] \in Nat /\ ~(at[n] >= L)
    BY <1>4, <1>5, <2>1, <2>2
  <2> QED BY <2>3
<1>11. ForceSplit(text) = [i \in 1..count |-> SubSeq(text, (i - 1) * step + 1, Min({(i - 1) * step + ChunkSize, L}))]
  BY <1>1, <1>2, <1>8 DEF ForceSplit
<1>12. \A i \in 1..count : at[i - 1] = (i - 1) * step
  <2>1. \A i \in 1..count : i - 1 \in 0..L
    BY <1>9
  <2> QED BY <1>3, <2>1
<1>13. ForceSplit(text) = [i \in 1..count |-> SubSeq(text, at[i - 1] + 1, Min({at[i - 1] + ChunkSize, L}))]
  BY <1>11, <1>12
<1>14. \A n \in 1..L : at[n - 1] < at[n] /\ at[n] <= at[n - 1] + ChunkSize
  <2> SUFFICES ASSUME NEW n \in 1..L PROVE at[n - 1] < at[n] /\ at[n] <= at[n - 1] + ChunkSize
    OBVIOUS
  <2>1. at[n - 1] \in Nat /\ at[n] = at[n - 1] + step
    BY <1>4
  <2> QED BY <1>2, <2>1, Numbers
<1>15. Pieces(text, at, count)
  BY <1>1, <1>4, <1>9, <1>10, <1>13, <1>14 DEF Pieces
<1> QED BY <1>15

LEMMA ForceIsGood ==
  ASSUME NEW text \in Text
  PROVE  ForceSplit(text) \in Seq(Text) /\ ("para" \notin ToSet(text) => Good(ForceSplit(text), text))
<1>1. PICK L \in Nat : L = Len(text) /\ DOMAIN text = 1..L
  BY LenProperties DEF Text
<1>2. PICK at, count : Pieces(text, at, count)
  BY ForceCounts
<1>3. /\ at \in [0..L -> Nat] /\ at[0] = 0
      /\ \A n \in 1..L : at[n - 1] < at[n] /\ at[n] <= at[n - 1] + ChunkSize
      /\ count \in 0..L /\ at[count] >= L
      /\ \A n \in 0..count - 1 : at[n] < L
  BY <1>1, <1>2 DEF Pieces
<1>4. PICK to : to = [i \in 0..count |-> IF i = 0 THEN 0 ELSE Min({at[i - 1] + ChunkSize, L})]
  OBVIOUS
<1>5. PICK pieces : pieces = ForceSplit(text)
  OBVIOUS
<1>6. pieces = [i \in 1..count |-> SubSeq(text, at[i - 1] + 1, to[i])]
  <2>1. pieces = [i \in 1..count |-> SubSeq(text, at[i - 1] + 1, Min({at[i - 1] + ChunkSize, L}))]
    BY <1>1, <1>2, <1>5 DEF Pieces
  <2>2. \A i \in 1..count : to[i] = Min({at[i - 1] + ChunkSize, L})
    BY <1>4
  <2> QED BY <2>1, <2>2
<1>7. ASSUME NEW i \in 1..count
      PROVE  /\ at[i - 1] \in Nat /\ at[i - 1] < L /\ to[i] \in 0..L
             /\ to[i] = IF at[i - 1] + ChunkSize <= L THEN at[i - 1] + ChunkSize ELSE L
  <2>1. i - 1 \in 0..L /\ i - 1 \in 0..count - 1 /\ i \in 0..count /\ i # 0
    BY <1>3
  <2>2. at[i - 1] \in Nat /\ at[i - 1] < L
    BY <1>3, <2>1
  <2>3. to[i] = Min({at[i - 1] + ChunkSize, L})
    BY <1>4, <2>1
  <2>4. at[i - 1] + ChunkSize \in Nat
    BY <2>2, Numbers
  <2>5. to[i] = IF at[i - 1] + ChunkSize <= L THEN at[i - 1] + ChunkSize ELSE L
    BY <2>3, <2>4, MinOfTwo
  <2> QED BY <2>2, <2>4, <2>5
<1>8. ASSUME NEW i \in 1..count
      PROVE  /\ pieces[i] \in Text /\ LettersIn(pieces[i]) = Between(text, at[i - 1] + 1, to[i])
             /\ Len(pieces[i]) <= ChunkSize /\ ToSet(pieces[i]) \subseteq ToSet(text)
  <2>1. PICK a \in Nat, b \in Nat : /\ a = at[i - 1] + 1 /\ b = to[i] /\ 1 <= a /\ a <= b + 1 /\ b <= L
                                    /\ b - a + 1 <= ChunkSize
    <3>1. at[i - 1] + 1 \in Nat /\ to[i] \in Nat /\ 1 <= at[i - 1] + 1 /\ to[i] <= L
      BY <1>7
    <3>2. at[i - 1] + 1 <= to[i] + 1 /\ to[i] - (at[i - 1] + 1) + 1 <= ChunkSize
      BY <1>7, Numbers
    <3> QED BY <3>1, <3>2
  <2>2. pieces[i] = SubSeq(text, a, b)
    BY <1>6, <2>1
  <2>3. LettersIn(SubSeq(text, a, b)) = Between(text, a, b)
    BY <1>1, <2>1, LettersOfStretch
  <2>4. /\ SubSeq(text, a, b) \in Text /\ Len(SubSeq(text, a, b)) = (IF a <= b THEN b - a + 1 ELSE 0)
        /\ DOMAIN SubSeq(text, a, b) = 1..b - a + 1
        /\ \A j \in 1..b - a + 1 : SubSeq(text, a, b)[j] = text[a + j - 1]
    <3>1. 1 <= a /\ b <= Len(text) /\ text \in Seq(Tokens)
      BY <1>1, <2>1 DEF Text
    <3>2. /\ SubSeq(text, a, b) \in Seq(Tokens)
          /\ Len(SubSeq(text, a, b)) = (IF a <= b THEN b - a + 1 ELSE 0)
          /\ DOMAIN SubSeq(text, a, b) = 1..b - a + 1
          /\ \A j \in 1..b - a + 1 : SubSeq(text, a, b)[j] = text[a + j - 1]
      BY <3>1, Stretched
    <3> QED BY <3>2 DEF Text
  <2>5. Len(pieces[i]) <= ChunkSize
    BY <2>1, <2>2, <2>4, Numbers
  <2>6. \A j \in 1..b - a + 1 : a + j - 1 \in 1..L
    BY <2>1
  <2>7. ToSet(SubSeq(text, a, b)) \subseteq ToSet(text)
    BY <1>1, <2>4, <2>6 DEF ToSet
  <2> QED BY <2>1, <2>2, <2>3, <2>4, <2>5, <2>7
<1>9. pieces \in Seq(Text) /\ Len(pieces) = count /\ DOMAIN pieces = 1..count
  <2>1. pieces = [i \in 1..count |-> pieces[i]]
    BY <1>6
  <2>2. count \in Nat
    BY <1>3
  <2> QED BY <1>8, <2>1, <2>2
<1>10. Covers(pieces, text, L)
  <2>1. to \in [0..count -> 0..L] /\ to[0] = 0
    <3>1. to[0] = 0 /\ 0 \in 0..L
      BY <1>3, <1>4
    <3>2. \A i \in 0..count : i = 0 \/ i \in 1..count
      BY <1>3
    <3>3. \A i \in 0..count : to[i] \in 0..L
      BY <1>7, <3>1, <3>2
    <3> QED BY <1>4, <3>1, <3>3
  <2>2. Between(text, 0, to[0]) = {}
    BY <2>1, BetweenFront, BetweenEmpty
  <2>3. ASSUME NEW n \in 1..count
        PROVE  to[n - 1] <= to[n] /\ \E s \in 0..to[n - 1] + 1 : LettersIn(pieces[n]) = Between(text, s, to[n])
    <3>1. CASE n = 1
      <4>1. n - 1 = 0 /\ to[n - 1] = 0 /\ at[n - 1] + 1 \in 0..to[n - 1] + 1
        BY <1>3, <2>1, <3>1, SMTT(30)
      <4>2. to[n - 1] <= to[n]
        BY <1>7, <4>1
      <4> QED BY <1>8, <4>1, <4>2
    <3>2. CASE n # 1
      <4>1. PICK k \in 1..count : k = n - 1 /\ n \in 1..L /\ k \in 1..L
        BY <1>3, <3>2
      <4>2. /\ at[k - 1] \in Nat /\ at[k] \in Nat /\ at[k - 1] < at[k] /\ at[k] <= at[k - 1] + ChunkSize /\ at[k] < L
        <5>1. k - 1 \in 0..L /\ k \in 0..L /\ k \in 0..count - 1
          BY <1>3, <4>1
        <5> QED BY <1>3, <4>1, <5>1
      <4>3. /\ to[k] = IF at[k - 1] + ChunkSize <= L THEN at[k - 1] + ChunkSize ELSE L
            /\ to[n] = IF at[k] + ChunkSize <= L THEN at[k] + ChunkSize ELSE L
        BY <1>7, <4>1
      <4>4. to[k] <= to[n] /\ at[k] + 1 \in 0..to[k] + 1
        BY <4>2, <4>3, Numbers
      <4> QED BY <1>8, <4>1, <4>4
    <3> QED BY <3>1, <3>2
  <2>4. to[count] = L
    <3>1. CASE count = 0
      BY <1>3, <2>1, <3>1
    <3>2. CASE count # 0
      <4>1. count \in 1..count /\ count \in 1..L
        BY <1>3, <3>2
      <4>2. at[count - 1] \in Nat /\ at[count] \in Nat /\ at[count] <= at[count - 1] + ChunkSize /\ at[count] >= L
        <5>1. count \in 0..L
          BY <1>3
        <5> QED BY <1>3, <1>7, <4>1, <5>1
      <4>3. to[count] = IF at[count - 1] + ChunkSize <= L THEN at[count - 1] + ChunkSize ELSE L
        BY <1>7, <4>1
      <4> QED BY <4>2, <4>3, Numbers
    <3> QED BY <3>1, <3>2
  <2> QED BY <1>1, <1>9, <2>1, <2>2, <2>3, <2>4 DEF Covers, Reaches
<1>11. ASSUME "para" \notin ToSet(text) PROVE Bounded(pieces)
  <2> SUFFICES ASSUME NEW i \in 1..count PROVE Size(pieces[i]) <= ChunkSize + ChunkOverlap
    BY <1>9 DEF Bounded, ToSet
  <2>1. Size(pieces[i]) = Len(pieces[i]) /\ Len(pieces[i]) <= ChunkSize /\ Len(pieces[i]) \in Nat
    BY <1>8, <1>11, SizeCounts, LenProperties DEF Text
  <2> QED BY <2>1, Numbers
<1> QED BY <1>1, <1>5, <1>9, <1>10, <1>11 DEF Good

-----------------------------------------------------------------------------
(* Taking the parts of a text one after the other                          *)

(* A text with K parts, and what is known of them.                         *)
Parted(text, sep, cuts, parts, K) ==
  /\ K \in Nat \ {0}
  /\ parts \in Seq(Text) /\ Len(parts) = K
  /\ cuts \in [1..K + 1 -> 0..Len(text) + 1]
  /\ cuts[1] = 0 /\ cuts[K + 1] = Len(text) + 1
  /\ \A m, n \in 1..K + 1 : m < n => cuts[m] < cuts[n]
  /\ \A n \in 1..K + 1 : Between(text, cuts[n], cuts[n]) = {}
  /\ \A n \in 1..K :
       /\ parts[n] = SubSeq(text, cuts[n] + 1, cuts[n + 1] - 1)
       /\ sep \notin ToSet(parts[n]) /\ ToSet(parts[n]) \subseteq ToSet(text)
       /\ \A m \in 1..n : Join(SubSeq(parts, m, n), sep) = SubSeq(text, cuts[m] + 1, cuts[n + 1] - 1)

LEMMA IsParted ==
  ASSUME NEW text \in Text, NEW sep \in Separators
  PROVE  \E K : Parted(text, sep, CutsOf(text, sep), PartsOf(text, sep), K)
<1>1. PICK l \in Nat : l = Len(text) /\ DOMAIN text = 1..l
  BY LenProperties DEF Text
<1>2. PICK cuts, parts : cuts = CutsOf(text, sep) /\ parts = PartsOf(text, sep)
  OBVIOUS
<1>3. Cuts(text, sep, cuts)
  BY <1>2, CutsRise
<1>4. PICK K \in Nat : K >= 1 /\ Len(cuts) = K + 1 /\ Len(cuts) - 1 = K /\ cuts \in [1..K + 1 -> 0..l + 1]
  <2>1. Len(cuts) \in Nat /\ Len(cuts) >= 2 /\ cuts \in [1..Len(cuts) -> 0..l + 1]
    BY <1>1, <1>3, LenProperties DEF Cuts
  <2>2. Len(cuts) - 1 \in Nat /\ Len(cuts) - 1 >= 1 /\ Len(cuts) = (Len(cuts) - 1) + 1
    BY <2>1
  <2> QED BY <2>1, <2>2
<1>5. /\ parts \in Seq(Text) /\ Len(parts) = K
      /\ \A n \in 1..K : /\ parts[n] = SubSeq(text, cuts[n] + 1, cuts[n + 1] - 1)
                         /\ sep \notin ToSet(parts[n]) /\ ToSet(parts[n]) \subseteq ToSet(text)
  <2>1. /\ PartsOf(text, sep) \in Seq(Text)
        /\ Len(PartsOf(text, sep)) = Len(cuts) - 1
        /\ \A n \in 1..Len(cuts) - 1 :
              /\ PartsOf(text, sep)[n] = SubSeq(text, cuts[n] + 1, cuts[n + 1] - 1)
              /\ sep \notin ToSet(PartsOf(text, sep)[n])
              /\ ToSet(PartsOf(text, sep)[n]) \subseteq ToSet(text)
    BY <1>2, <1>3, PartsBetween
  <2> QED BY <1>2, <1>4, <2>1
<1>6. ASSUME NEW n \in 1..K, NEW m \in 1..n
      PROVE  Join(SubSeq(parts, m, n), sep) = SubSeq(text, cuts[m] + 1, cuts[n + 1] - 1)
  <2>1. n \in 1..Len(cuts) - 1
    BY <1>4
  <2>2. Join(SubSeq(PartsOf(text, sep), m, n), sep) = SubSeq(text, cuts[m] + 1, cuts[n + 1] - 1)
    BY <1>2, <1>3, <2>1, JoinIsStretch
  <2> QED BY <1>2, <2>2
<1>7. ASSUME NEW n \in 1..K + 1 PROVE Between(text, cuts[n], cuts[n]) = {}
  <2>1. PICK c \in 0..l + 1 : c = cuts[n]
    BY <1>4
  <2>2. c \in 1..l => text[c] = sep
    BY <1>1, <1>3, <1>4, <2>1 DEF Cuts
  <2>3. sep \notin Letters
    BY SeparatorToken
  <2>4. \A k \in DOMAIN text : c <= k /\ k <= c => k = c /\ c \in 1..l
    BY <1>1
  <2>5. \A k \in DOMAIN text : c <= k /\ k <= c => text[k] \notin Letters
    BY <2>2, <2>3, <2>4
  <2>6. Between(text, c, c) = {}
    BY <2>5 DEF Between
  <2> QED BY <2>1, <2>6
<1>8. \A m, n \in 1..K + 1 : m < n => cuts[m] < cuts[n]
  BY <1>3, <1>4 DEF Cuts
<1>9. cuts[1] = 0 /\ cuts[K + 1] = Len(text) + 1 /\ cuts \in [1..K + 1 -> 0..Len(text) + 1]
  BY <1>1, <1>3, <1>4 DEF Cuts
<1>10. K \in Nat \ {0}
  BY <1>4
<1>11. Parted(text, sep, cuts, parts, K)
  BY <1>5, <1>6, <1>7, <1>8, <1>9, <1>10 DEF Parted
<1> QED BY <1>2, <1>11

(* Numbers of cuts and of the places they are at.                          *)
LEMMA CutPlaces ==
  ASSUME NEW text \in Text, NEW sep, NEW cuts, NEW parts, NEW K, Parted(text, sep, cuts, parts, K),
         NEW n \in 1..K, NEW m \in 1..n
  PROVE  /\ K \in Nat /\ n \in Nat /\ m \in Nat /\ Len(text) \in Nat
         /\ cuts[m] \in Nat /\ cuts[n] \in Nat /\ cuts[n + 1] \in Nat /\ cuts[n + 1] - 1 \in Nat
         /\ cuts[m] <= cuts[n] /\ cuts[n] < cuts[n + 1] /\ cuts[n + 1] - 1 <= Len(text)
<1>1. K \in Nat /\ n \in Nat /\ m \in Nat /\ Len(text) \in Nat /\ m <= n
  BY LenProperties DEF Parted, Text
<1>2. m \in 1..K + 1 /\ n \in 1..K + 1 /\ n + 1 \in 1..K + 1 /\ n < n + 1 /\ (m = n \/ m < n)
  BY <1>1
<1>3. cuts[m] \in 0..Len(text) + 1 /\ cuts[n] \in 0..Len(text) + 1 /\ cuts[n + 1] \in 0..Len(text) + 1
  BY <1>2 DEF Parted
<1>4. cuts[n] < cuts[n + 1] /\ (m = n \/ cuts[m] < cuts[n])
  BY <1>2 DEF Parted
<1>5. cuts[m] \in Nat /\ cuts[n] \in Nat /\ cuts[n + 1] \in Nat /\ cuts[n + 1] <= Len(text) + 1
  BY <1>1, <1>3
<1>6. cuts[m] <= cuts[n]
  BY <1>4, <1>5
<1>7. cuts[n + 1] - 1 \in Nat /\ cuts[n + 1] - 1 <= Len(text)
  BY <1>1, <1>4, <1>5, Apart
<1> QED BY <1>1, <1>4, <1>5, <1>6, <1>7

(* Joined parts have the letters of their stretch, with or without the     *)
(* separators around it.                                                   *)
LEMMA JoinLetters ==
  ASSUME NEW text \in Text, NEW sep \in Separators, NEW cuts, NEW parts, NEW K,
         Parted(text, sep, cuts, parts, K), NEW n \in 1..K, NEW m \in 1..n
  PROVE  /\ Join(SubSeq(parts, m, n), sep) \in Text
         /\ LettersIn(Join(SubSeq(parts, m, n), sep)) = Between(text, cuts[m], cuts[n + 1] - 1)
         /\ LettersIn(Join(SubSeq(parts, m, n), sep)) = Between(text, cuts[m], cuts[n + 1])
<1>1. /\ cuts[m] \in Nat /\ cuts[n] \in Nat /\ cuts[n + 1] \in Nat /\ cuts[n + 1] - 1 \in Nat
      /\ cuts[m] <= cuts[n] /\ cuts[n] < cuts[n + 1] /\ cuts[n + 1] - 1 <= Len(text)
  BY CutPlaces
<1>2. PICK x \in Nat, y \in Nat : x = cuts[m] /\ y = cuts[n + 1] - 1 /\ x <= y /\ y <= Len(text) /\ y + 1 = cuts[n + 1]
  BY <1>1
<1>3. Join(SubSeq(parts, m, n), sep) = SubSeq(text, x + 1, y)
  BY <1>2 DEF Parted
<1>4. /\ SubSeq(text, x + 1, y) \in Text /\ LettersIn(SubSeq(text, x + 1, y)) = Between(text, x + 1, y)
  <2>1. PICK a \in Nat : a = x + 1 /\ 1 <= a /\ a <= y + 1
    BY <1>2
  <2>2. SubSeq(text, a, y) \in Text
    BY <1>2, <2>1, Stretched DEF Text
  <2>3. LettersIn(SubSeq(text, a, y)) = Between(text, a, y)
    BY <1>2, <2>1, LettersOfStretch
  <2> QED BY <2>1, <2>2, <2>3
<1>5. Between(text, x, x) = {} /\ Between(text, y + 1, y + 1) = {}
  <2>1. m \in 1..K + 1 /\ n + 1 \in 1..K + 1
    <3>1. K \in Nat /\ n \in 1..K /\ m \in 1..n
      BY DEF Parted
    <3> QED BY <3>1
  <2> QED BY <1>2, <2>1 DEF Parted
<1>6. Between(text, x, y) = Between(text, x, x) \cup Between(text, x + 1, y)
  <2>1. x \in Int /\ y \in Int /\ x <= x + 1 /\ x <= y
    BY <1>2
  <2> QED BY <2>1, BetweenSplit
<1>7. Between(text, x, y + 1) = Between(text, x, y) \cup Between(text, y + 1, y + 1)
  <2>1. PICK z \in Int : z = y + 1
    BY <1>2
  <2>2. x \in Int /\ y \in Int /\ x <= y + 1 /\ y <= z
    BY <1>2, <2>1
  <2>3. Between(text, x, z) = Between(text, x, y) \cup Between(text, y + 1, z)
    BY <2>2, BetweenSplit, SMTT(30)
  <2> QED BY <2>1, <2>3
<1> QED BY <1>2, <1>3, <1>4, <1>5, <1>6, <1>7

LEMMA NextPart ==
  ASSUME NEW text, NEW sep, NEW cuts, NEW parts, NEW K, Parted(text, sep, cuts, parts, K),
         NEW n \in 1..K, NEW m \in 1..n
  PROVE  /\ parts[n] \in Text /\ SubSeq(parts, m, n - 1) \in Seq(Text)
         /\ Append(SubSeq(parts, m, n - 1), parts[n]) = SubSeq(parts, m, n)
<1>1. K \in Nat /\ parts \in Seq(Text) /\ Len(parts) = K /\ n \in Nat /\ m \in Nat /\ 1 <= m /\ m <= n /\ n <= K
  BY DEF Parted
<1>2. parts[n] \in Text
  BY <1>1, ElementOfSeq
<1>3. SubSeq(parts, m, n - 1) \in Seq(Text)
  <2>1. n - 1 \in Nat /\ n - 1 <= Len(parts)
    BY <1>1
  <2> QED BY <1>1, <2>1, Stretched
<1>4. SubSeq(parts, m, n) = SubSeq(parts, m, n - 1) \o <<parts[n]>>
  <2>1. m \in 1..Len(parts) /\ n \in m..Len(parts)
    BY <1>1
  <2> QED BY <1>1, <2>1, SubSeqRecursiveSecond
<1> QED BY <1>2, <1>3, <1>4, AppendIsConcat

(* The overlap of the parts from m to n are those from some place to n.    *)
LEMMA OverlapOf ==
  ASSUME NEW text, NEW sep \in Separators, NEW cuts, NEW parts, NEW K, Parted(text, sep, cuts, parts, K),
         NEW n \in 0..K, NEW m \in 1..n + 1
  PROVE  \E k \in m..n + 1 :
           /\ OverlapParts(SubSeq(parts, m, n), sep) = SubSeq(parts, k, n)
           /\ k <= n => Size(Join(SubSeq(parts, k, n), sep)) + Width(sep) <= ChunkOverlap
<1>1. K \in Nat /\ parts \in Seq(Text) /\ Len(parts) = K /\ n \in Nat /\ m \in Nat /\ 1 <= m /\ m <= n + 1 /\ n <= K
  BY DEF Parted
<1>2. PICK some : some = SubSeq(parts, m, n)
  OBVIOUS
<1>3. PICK l \in Nat : l = Len(some) /\ l = n - m + 1 /\ some \in Seq(Text)
  <2>1. /\ SubSeq(parts, m, n) \in Seq(Text)
        /\ Len(SubSeq(parts, m, n)) = (IF m <= n THEN n - m + 1 ELSE 0)
    BY <1>1, Stretched
  <2>2. (IF m <= n THEN n - m + 1 ELSE 0) = n - m + 1 /\ n - m + 1 \in Nat
    BY <1>1
  <2> QED BY <1>2, <2>1, <2>2
<1>4. PICK j \in 1..l + 1 :
        /\ OverlapParts(some, sep) = SubSeq(some, j, l)
        /\ j <= l => Size(Join(SubSeq(some, j, l), sep)) + Width(sep) <= ChunkOverlap
  BY <1>3, OverlapIs
<1>5. PICK k \in m..n + 1 : k = m + j - 1 /\ (j <= l <=> k <= n)
  <2>1. m + j - 1 \in m..n + 1 /\ (j <= l <=> m + j - 1 <= n)
    BY <1>1, <1>3
  <2> QED BY <2>1
<1>6. SubSeq(some, j, l) = SubSeq(parts, k, n)
  <2>1. CASE j <= l
    <3>1. m \in 1..Len(parts) /\ n \in 1..Len(parts) /\ j \in 1..n - m + 1 /\ l \in 1..n - m + 1 /\ m + l - 1 = n
      BY <1>1, <1>3, <2>1
    <3>2. SubSeq(SubSeq(parts, m, n), j, l) = SubSeq(parts, m + j - 1, m + l - 1)
      BY <1>1, <3>1, SubSeqOfSubSeq
    <3> QED BY <1>2, <1>5, <3>1, <3>2
  <2>2. CASE ~(j <= l)
    <3>1. j \in Int /\ l \in Int /\ l < j /\ k \in Int /\ n \in Int /\ n < k
      BY <1>1, <1>5, <2>2
    <3> QED BY <3>1, SubSeqEmpty
  <2> QED BY <2>1, <2>2
<1> QED BY <1>2, <1>4, <1>5, <1>6

(* Where the first n parts end.                                            *)
PartEnd(cuts, n) == IF n = 0 THEN 0 ELSE cuts[n + 1] - 1

(* The parts from m to n are being collected, and those before them are in *)
(* the chunks.                                                             *)
Taken(text, sep, cuts, parts, n, st) ==
  /\ Bounded(st.chunks)
  /\ st.parts # <<>> => Size(Join(st.parts, sep)) <= ChunkSize + ChunkOverlap
  /\ \E m \in 1..n + 1 : \E e \in Nat :
       /\ st.parts = SubSeq(parts, m, n)
       /\ Covers(st.chunks, text, e)
       /\ cuts[m] <= e + 1 /\ e <= PartEnd(cuts, n)

LEMMA EmptyParts ==
  ASSUME NEW parts \in Seq(Text), NEW n \in 0..Len(parts), NEW m \in 1..n + 1
  PROVE  /\ SubSeq(parts, m, n) \in Seq(Text)
         /\ SubSeq(parts, m, n) = <<>> <=> m = n + 1
<1>1. n \in Nat /\ m \in Nat /\ 1 <= m /\ m <= n + 1 /\ n <= Len(parts)
  BY LenProperties
<1>2. /\ SubSeq(parts, m, n) \in Seq(Text)
      /\ Len(SubSeq(parts, m, n)) = (IF m <= n THEN n - m + 1 ELSE 0)
  BY <1>1, Stretched
<1>3. m = n + 1 => SubSeq(parts, m, n) = <<>>
  BY <1>1, SubSeqEmpty
<1>4. m # n + 1 => Len(SubSeq(parts, m, n)) # 0
  BY <1>1, <1>2
<1> QED BY <1>2, <1>3, <1>4, EmptySeq

(* The chunks with what is collected as one more.                          *)
Flushed(sep, st) == st.chunks \o (IF st.parts = <<>> THEN <<>> ELSE <<Join(st.parts, sep)>>)

LEMMA FlushedTyped ==
  ASSUME NEW sep \in Separators, NEW st \in Collecting
  PROVE  /\ Flushed(sep, st) \in Seq(Text)
         /\ Flushed(sep, st) = IF st.parts = <<>> THEN st.chunks ELSE Append(st.chunks, Join(st.parts, sep))
<1>1. st.chunks \in Seq(Text) /\ st.parts \in Seq(Text)
  BY DEF Collecting
<1>2. CASE st.parts = <<>>
  BY <1>1, <1>2, ConcatEmptySeq DEF Flushed
<1>3. CASE st.parts # <<>>
  <2>1. Join(st.parts, sep) \in Text
    BY <1>1, JoinTyped
  <2> QED BY <1>1, <1>3, <2>1, AppendIsConcat, AppendProperties DEF Flushed
<1> QED BY <1>2, <1>3

LEMMA FlushedCovers ==
  ASSUME NEW text \in Text, NEW sep \in Separators, NEW cuts, NEW parts, NEW K,
         Parted(text, sep, cuts, parts, K), NEW n \in 0..K, NEW st \in Collecting,
         Taken(text, sep, cuts, parts, n, st)
  PROVE  /\ Covers(Flushed(sep, st), text, PartEnd(cuts, n)) /\ Bounded(Flushed(sep, st))
         /\ PartEnd(cuts, n) \in Nat
<1>1. K \in Nat /\ parts \in Seq(Text) /\ Len(parts) = K /\ n \in Nat /\ n <= K /\ cuts[1] = 0
  BY DEF Parted
<1>2. st.chunks \in Seq(Text) /\ st.parts \in Seq(Text)
  BY DEF Collecting
<1>3. PICK m \in 1..n + 1, e \in Nat :
        /\ st.parts = SubSeq(parts, m, n) /\ Covers(st.chunks, text, e)
        /\ cuts[m] <= e + 1 /\ e <= PartEnd(cuts, n)
  BY DEF Taken
<1>4. st.parts = <<>> <=> m = n + 1
  BY <1>1, <1>3, EmptyParts
<1>5. CASE st.parts = <<>>
  <2>1. CASE n = 0
    BY <1>2, <1>3, <1>5, <2>1, FlushedTyped DEF PartEnd, Taken
  <2>2. CASE n # 0
    <3>1. n \in 1..K /\ n \in 1..n
      BY <1>1, <2>2
    <3>2. cuts[n + 1] - 1 \in Nat /\ cuts[n + 1] \in Nat
      BY <3>1, CutPlaces
    <3>3. PartEnd(cuts, n) = cuts[n + 1] - 1
      BY <2>2 DEF PartEnd
    <3>4. e = cuts[n + 1] - 1
      BY <1>3, <1>4, <1>5, <3>2, <3>3
    <3> QED BY <1>3, <1>5, <3>2, <3>3, <3>4, FlushedTyped DEF Taken
  <2> QED BY <2>1, <2>2
<1>6. CASE st.parts # <<>>
  <2>1. n \in 1..K /\ m \in 1..n /\ n # 0
    BY <1>1, <1>4, <1>6
  <2>2. PICK chunk \in Text : chunk = Join(st.parts, sep) /\ LettersIn(chunk) = Between(text, cuts[m], cuts[n + 1] - 1)
    BY <1>3, <2>1, JoinLetters
  <2>3. PICK s \in Nat, f \in Nat : s = cuts[m] /\ f = cuts[n + 1] - 1 /\ f <= Len(text)
    BY <2>1, CutPlaces
  <2>4. f = PartEnd(cuts, n) /\ e <= f /\ s <= e + 1
    BY <1>3, <2>1, <2>3 DEF PartEnd
  <2>5. Covers(Append(st.chunks, chunk), text, f)
    BY <1>2, <1>3, <2>2, <2>3, <2>4, CoversAppended
  <2>6. Bounded(Append(st.chunks, chunk))
    BY <1>2, <1>6, <2>2, BoundedAppended DEF Taken
  <2> QED BY <1>6, <2>2, <2>4, <2>5, <2>6, FlushedTyped
<1> QED BY <1>5, <1>6

(* A part that is not too long.                                            *)
LEMMA ShortPartTaken ==
  ASSUME NEW text \in Text, NEW sep \in Separators, NEW cuts, NEW parts, NEW K,
         Parted(text, sep, cuts, parts, K), NEW n \in 1..K, NEW st \in Collecting,
         Taken(text, sep, cuts, parts, n - 1, st), Size(parts[n]) <= ChunkSize
  PROVE  Taken(text, sep, cuts, parts, n, ShortPart(sep, parts[n], st))
<1>1. K \in Nat /\ parts \in Seq(Text) /\ Len(parts) = K /\ n \in Nat /\ n - 1 \in 0..K /\ (n - 1) + 1 = n
  BY DEF Parted
<1>2. st.chunks \in Seq(Text) /\ st.parts \in Seq(Text)
  BY DEF Collecting
<1>3. PICK m \in 1..n, e \in Nat :
        /\ st.parts = SubSeq(parts, m, n - 1) /\ Covers(st.chunks, text, e)
        /\ cuts[m] <= e + 1 /\ e <= PartEnd(cuts, n - 1)
  BY <1>1 DEF Taken
<1>4. st.parts = <<>> <=> m = n
  BY <1>1, <1>3, EmptyParts, ZenonT(60)
<1>5. PICK part \in Text : part = parts[n] /\ Size(part) <= ChunkSize /\ Size(part) \in Nat
  BY <1>1, ElementOfSeq, SizeCounts
<1>6. /\ PartEnd(cuts, n) = cuts[n + 1] - 1 /\ PartEnd(cuts, n - 1) <= PartEnd(cuts, n)
      /\ PartEnd(cuts, n) \in Nat /\ PartEnd(cuts, n - 1) \in Nat
      /\ n # 1 => PartEnd(cuts, n - 1) = cuts[n] - 1
  <2>1. PartEnd(cuts, n) = cuts[n + 1] - 1 /\ PartEnd(cuts, n) \in Nat
    <3>1. n \in 1..n /\ n # 0
      BY <1>1
    <3> QED BY <3>1, CutPlaces DEF PartEnd
  <2>2. CASE n = 1
    BY <2>1, <2>2 DEF PartEnd
  <2>3. CASE n # 1
    <3>1. n - 1 \in 1..K /\ n - 1 \in 1..n - 1 /\ n - 1 # 0 /\ n \in 1..n
      BY <1>1, <2>3
    <3>2. PartEnd(cuts, n - 1) = cuts[n] - 1
      BY <1>1, <3>1 DEF PartEnd
    <3>3. cuts[(n - 1) + 1] - 1 \in Nat
      BY <3>1, CutPlaces
    <3>4. cuts[n] < cuts[n + 1] /\ cuts[n] \in Nat /\ cuts[n + 1] \in Nat
      BY <3>1, CutPlaces
    <3> QED BY <1>1, <2>1, <3>2, <3>3, <3>4
  <2> QED BY <2>2, <2>3
<1>7. CASE st.parts # <<>> /\ Size(Join(Append(st.parts, part), sep)) > ChunkSize
  <2>1. PICK overlap : overlap = OverlapParts(st.parts, sep)
    OBVIOUS
  <2>2. ShortPart(sep, parts[n], st) = [chunks |-> Flushed(sep, st), parts |-> Append(overlap, part)]
    BY <1>5, <1>7, <2>1, FlushedTyped DEF ShortPart
  <2>3. PICK k \in m..n :
          /\ overlap = SubSeq(parts, k, n - 1)
          /\ k <= n - 1 => Size(Join(SubSeq(parts, k, n - 1), sep)) + Width(sep) <= ChunkOverlap
    <3>1. m \in 1..(n - 1) + 1
      BY <1>1
    <3>2. \E k \in m..(n - 1) + 1 :
           /\ OverlapParts(SubSeq(parts, m, n - 1), sep) = SubSeq(parts, k, n - 1)
           /\ k <= n - 1 => Size(Join(SubSeq(parts, k, n - 1), sep)) + Width(sep) <= ChunkOverlap
      BY <1>1, <3>1, OverlapOf
    <3> QED BY <1>1, <1>3, <2>1, <3>2
  <2>4. k \in 1..n /\ k \in Nat /\ k <= n
    BY <1>1
  <2>5. Append(overlap, part) = SubSeq(parts, k, n) /\ overlap \in Seq(Text)
    BY <1>5, <2>3, <2>4, NextPart
  <2>6. Size(Join(Append(overlap, part), sep)) <= ChunkSize + ChunkOverlap
    <3>1. CASE k = n
      <4>1. overlap = <<>>
        BY <1>1, <2>3, <2>4, <3>1, EmptyParts
      <4>2. Append(overlap, part) = <<part>> /\ <<part>> \in Seq(Text) /\ Len(<<part>>) = 1 /\ <<part>>[1] = part
        BY <4>1
      <4>3. Join(<<part>>, sep) = part
        BY <4>2, JoinOne
      <4> QED BY <1>5, <4>2, <4>3, Numbers
    <3>2. CASE k # n
      <4>1. k <= n - 1
        BY <1>1, <2>4, <3>2
      <4>2. overlap # <<>>
        <5>1. k \in 1..(n - 1) + 1
          BY <1>1, <2>4
        <5> QED BY <1>1, <2>3, <3>2, <5>1, EmptyParts
      <4>3. Join(Append(overlap, part), sep) = Join(overlap, sep) \o <<sep>> \o part
        BY <2>5, <4>2, JoinAppended
      <4>4. PICK j \in Text : j = Join(overlap, sep) /\ Size(j) + Width(sep) <= ChunkOverlap /\ Size(j) \in Nat
        BY <2>3, <2>5, <4>1, JoinTyped, SizeCounts
      <4>5. j \o <<sep>> \in Text /\ Size(j \o <<sep>>) = Size(j) + Width(sep)
        BY SeparatorToken, SizeJoined
      <4>6. Size(j \o <<sep>> \o part) = (Size(j) + Width(sep)) + Size(part)
        BY <4>5, SizeJoined
      <4> QED BY <1>5, <4>3, <4>4, <4>6, SeparatorToken, Numbers
    <3> QED BY <3>1, <3>2
  <2>7. /\ Covers(Flushed(sep, st), text, PartEnd(cuts, n - 1)) /\ Bounded(Flushed(sep, st))
    BY <1>1, FlushedCovers
  <2>8. cuts[k] <= PartEnd(cuts, n - 1) + 1
    <3>1. n # 1
      <4>1. m # n
        BY <1>4, <1>7
      <4> QED BY <1>1, <4>1
    <3>2. cuts[k] <= cuts[n] /\ cuts[k] \in Nat /\ cuts[n] \in Nat
      BY <2>4, CutPlaces
    <3> QED BY <1>6, <3>1, <3>2
  <2>9. k \in 1..n + 1
    BY <2>4
  <2> QED BY <1>6, <2>2, <2>5, <2>6, <2>7, <2>8, <2>9, SMTT(30) DEF Taken
<1>8. CASE ~(st.parts # <<>> /\ Size(Join(Append(st.parts, part), sep)) > ChunkSize)
  <2>1. PICK more : more = Append(st.parts, part)
    OBVIOUS
  <2>2. ShortPart(sep, parts[n], st) = [st EXCEPT !.parts = more]
    BY <1>5, <1>8, <2>1 DEF ShortPart
  <2>3. ShortPart(sep, parts[n], st) = [chunks |-> st.chunks, parts |-> more]
    BY <2>2 DEF Collecting
  <2>4. m \in 1..n /\ m \in 1..n + 1
    BY <1>1
  <2>5. more = SubSeq(parts, m, n)
    BY <1>3, <1>5, <2>1, <2>4, NextPart
  <2>6. Size(Join(more, sep)) <= ChunkSize + ChunkOverlap
    <3>1. CASE st.parts = <<>>
      <4>1. more = <<part>> /\ <<part>> \in Seq(Text) /\ Len(<<part>>) = 1 /\ <<part>>[1] = part
        BY <2>1, <3>1
      <4>2. Join(<<part>>, sep) = part
        BY <4>1, JoinOne
      <4> QED BY <1>5, <4>1, <4>2, Numbers
    <3>2. CASE st.parts # <<>>
      <4>1. more \in Seq(Text)
        BY <1>2, <2>1, AppendProperties
      <4>2. Join(more, sep) \in Text
        BY <4>1, JoinTyped
      <4>3. Size(Join(more, sep)) \in Nat
        BY <4>2, SizeCounts
      <4>4. ~(Size(Join(more, sep)) > ChunkSize)
        BY <1>8, <2>1, <3>2
      <4> QED BY <4>3, <4>4, Numbers
    <3> QED BY <3>1, <3>2
  <2>7. e <= PartEnd(cuts, n)
    BY <1>3, <1>6
  <2>8. Bounded(st.chunks)
    BY DEF Taken
  <2>9. PICK new : new = ShortPart(sep, parts[n], st) /\ new.chunks = st.chunks /\ new.parts = more
    BY <2>3
  <2>10. new.parts = SubSeq(parts, m, n) /\ Covers(new.chunks, text, e) /\ cuts[m] <= e + 1 /\ e <= PartEnd(cuts, n)
    BY <1>3, <2>5, <2>7, <2>9
  <2>11. Taken(text, sep, cuts, parts, n, new)
    BY <2>4, <2>6, <2>8, <2>9, <2>10 DEF Taken
  <2> QED BY <2>9, <2>11
<1> QED BY <1>7, <1>8

(* What a part that is too long adds: its pieces, the first of them with   *)
(* an overlap in front if that fits.                                       *)
Added(sep, pieces, st) ==
  LET overlap == OverlapParts(st.parts, sep)
      context == Join(overlap, sep) \o <<sep>> \o Head(pieces)
  IN  IF overlap # <<>> /\ pieces # <<>> /\ Size(context) <= ChunkSize
      THEN <<context>> \o Tail(pieces) ELSE pieces

LEMMA LongPartIs ==
  ASSUME NEW sep, NEW pieces, NEW st
  PROVE  LongPart(sep, pieces, st) = [chunks |-> Flushed(sep, st) \o Added(sep, pieces, st), parts |-> <<>>]
  BY DEF LongPart, Added, Flushed

LEMMA OverlapTyped ==
  ASSUME NEW parts \in Seq(Text), NEW sep \in Separators
  PROVE  OverlapParts(parts, sep) \in Seq(Text)
<1>1. Len(parts) \in Nat
  BY LenProperties
<1>2. PICK k \in 1..Len(parts) + 1 : OverlapParts(parts, sep) = SubSeq(parts, k, Len(parts))
  BY OverlapIs
<1>3. k \in Nat /\ 1 <= k /\ Len(parts) <= Len(parts)
  BY <1>1
<1> QED BY <1>1, <1>2, <1>3, Stretched

(* The first piece with something in front of it.                          *)
LEMMA FirstReplaced ==
  ASSUME NEW pieces \in Seq(Text), pieces # <<>>, NEW front \in Text
  PROVE  LET first == front \o Head(pieces)
             more == <<first>> \o Tail(pieces) IN
         /\ more \in Seq(Text) /\ first \in Text
         /\ Led(more, pieces, LettersIn(front))
         /\ \A chunk \in ToSet(more) : chunk = first \/ chunk \in ToSet(pieces)
<1>1. PICK n \in Nat : n = Len(pieces) /\ n # 0 /\ DOMAIN pieces = 1..n
  BY LenProperties, EmptySeq
<1>2. PICK rest \in Seq(Text) : rest = Tail(pieces) /\ Len(rest) = n - 1 /\ \A i \in 1..n - 1 : rest[i] = pieces[i + 1]
  <2>1. /\ Tail(pieces) \in Seq(Text) /\ Len(Tail(pieces)) = n - 1
        /\ \A i \in 1..Len(Tail(pieces)) : Tail(pieces)[i] = pieces[i + 1]
    BY <1>1, HeadTailProperties
  <2> QED BY <2>1
<1>3. Head(pieces) = pieces[1] /\ pieces[1] \in Text
  <2>1. pieces[1] \in Text
    BY <1>1, ElementOfSeq
  <2> QED BY <2>1
<1>4. PICK first \in Text : first = front \o Head(pieces) /\ LettersIn(first) = LettersIn(front) \cup LettersIn(pieces[1])
  BY <1>3, SizeJoined, LettersJoined
<1>5. <<first>> \in Seq(Text) /\ Len(<<first>>) = 1 /\ <<first>>[1] = first
  OBVIOUS
<1>6. PICK more \in Seq(Text) : more = <<first>> \o rest
  BY <1>5, ConcatProperties
<1>7. Len(more) = n /\ more[1] = first /\ \A i \in 2..n : more[i] = pieces[i]
  <2>1. Len(more) = 1 + (n - 1) /\ \A i \in 1..1 + (n - 1) : more[i] = IF i <= 1 THEN <<first>>[i] ELSE rest[i - 1]
    BY <1>2, <1>5, <1>6, ConcatProperties
  <2>2. 1 + (n - 1) = n /\ 1 \in 1..n
    BY <1>1
  <2>3. \A i \in 2..n : i \in 1..n /\ ~(i <= 1) /\ i - 1 \in 1..n - 1 /\ (i - 1) + 1 = i
    BY <1>1
  <2>4. \A i \in 1..n : more[i] = IF i <= 1 THEN <<first>>[i] ELSE rest[i - 1]
    BY <2>1, <2>2
  <2>5. \A i \in 2..n : more[i] = rest[i - 1] /\ rest[i - 1] = pieces[i]
    BY <1>2, <2>3, <2>4
  <2>6. more[1] = first
    BY <1>5, <2>2, <2>4
  <2> QED BY <2>1, <2>2, <2>5, <2>6
<1>8. ASSUME NEW chunk \in ToSet(more) PROVE chunk = first \/ chunk \in ToSet(pieces)
  <2>1. DOMAIN more = 1..n
    BY <1>6, <1>7, LenProperties
  <2>2. PICK i \in 1..n : chunk = more[i]
    BY <2>1 DEF ToSet
  <2>3. i = 1 \/ i \in 2..n
    OBVIOUS
  <2> QED BY <1>1, <1>7, <2>2, <2>3 DEF ToSet
<1>9. Led(more, pieces, LettersIn(front))
  BY <1>1, <1>4, <1>7 DEF Led
<1> QED BY <1>2, <1>4, <1>6, <1>8, <1>9

LEMMA AddedTyped ==
  ASSUME NEW sep \in Separators, NEW pieces \in Seq(Text), NEW st \in Collecting
  PROVE  /\ Added(sep, pieces, st) \in Seq(Text)
         /\ LongPart(sep, pieces, st) \in Collecting
<1>1. st.chunks \in Seq(Text) /\ st.parts \in Seq(Text)
  BY DEF Collecting
<1>2. PICK overlap \in Seq(Text) : overlap = OverlapParts(st.parts, sep)
  BY <1>1, OverlapTyped
<1>3. PICK front \in Text : front = Join(overlap, sep) \o <<sep>>
  BY JoinTyped, SeparatorToken, SizeJoined
<1>4. Added(sep, pieces, st) \in Seq(Text)
  <2>1. CASE overlap # <<>> /\ pieces # <<>> /\ Size(front \o Head(pieces)) <= ChunkSize
    <3>1. Added(sep, pieces, st) = <<front \o Head(pieces)>> \o Tail(pieces)
      BY <1>2, <1>3, <2>1 DEF Added
    <3> QED BY <2>1, <3>1, FirstReplaced
  <2>2. CASE ~(overlap # <<>> /\ pieces # <<>> /\ Size(front \o Head(pieces)) <= ChunkSize)
    BY <1>2, <1>3, <2>2 DEF Added
  <2> QED BY <2>1, <2>2
<1>5. Flushed(sep, st) \o Added(sep, pieces, st) \in Seq(Text)
  BY <1>4, FlushedTyped, ConcatProperties
<1>6. <<>> \in Seq(Text)
  BY EmptySeq
<1> QED BY <1>4, <1>5, <1>6, LongPartIs DEF Collecting

LEMMA ShortPartTyped ==
  ASSUME NEW sep \in Separators, NEW part \in Text, NEW st \in Collecting
  PROVE  ShortPart(sep, part, st) \in Collecting
<1>1. st.chunks \in Seq(Text) /\ st.parts \in Seq(Text) /\ st = [chunks |-> st.chunks, parts |-> st.parts]
  BY DEF Collecting
<1>2. Join(st.parts, sep) \in Text /\ OverlapParts(st.parts, sep) \in Seq(Text)
  BY <1>1, JoinTyped, OverlapTyped
<1>3. /\ Append(st.chunks, Join(st.parts, sep)) \in Seq(Text)
      /\ Append(OverlapParts(st.parts, sep), part) \in Seq(Text)
      /\ Append(st.parts, part) \in Seq(Text)
  BY <1>1, <1>2, AppendProperties
<1>4. [st EXCEPT !.parts = Append(st.parts, part)] = [chunks |-> st.chunks, parts |-> Append(st.parts, part)]
  <2>1. PICK more : more = Append(st.parts, part)
    OBVIOUS
  <2>2. [st EXCEPT !.parts = more] = [chunks |-> st.chunks, parts |-> more]
    BY DEF Collecting
  <2> QED BY <2>1, <2>2
<1> QED BY <1>1, <1>3, <1>4 DEF ShortPart, Collecting

LEMMA LongPartTaken ==
  ASSUME NEW text \in Text, NEW sep \in Separators, NEW cuts, NEW parts, NEW K,
         Parted(text, sep, cuts, parts, K), NEW n \in 1..K, NEW st \in Collecting,
         Taken(text, sep, cuts, parts, n - 1, st), NEW pieces, Good(pieces, parts[n])
  PROVE  Taken(text, sep, cuts, parts, n, LongPart(sep, pieces, st))
<1>1. K \in Nat /\ parts \in Seq(Text) /\ Len(parts) = K /\ n \in Nat /\ n - 1 \in 0..K /\ (n - 1) + 1 = n /\ cuts[1] = 0
  BY DEF Parted
<1>2. st.chunks \in Seq(Text) /\ st.parts \in Seq(Text)
  BY DEF Collecting
<1>3. PICK m \in 1..n : st.parts = SubSeq(parts, m, n - 1)
  BY <1>1 DEF Taken
<1>4. PICK closed \in Seq(Text), e \in Nat :
        /\ closed = Flushed(sep, st) /\ e = PartEnd(cuts, n - 1)
        /\ Covers(closed, text, e) /\ Bounded(closed)
  <2>1. Covers(Flushed(sep, st), text, PartEnd(cuts, n - 1)) /\ Bounded(Flushed(sep, st)) /\ PartEnd(cuts, n - 1) \in Nat
    BY <1>1, FlushedCovers
  <2>2. Flushed(sep, st) \in Seq(Text)
    BY FlushedTyped
  <2> QED BY <2>1, <2>2
<1>5. PICK a \in Nat, b \in Nat : /\ a = cuts[n] + 1 /\ b = cuts[n + 1] - 1
                                  /\ 1 <= a /\ a <= b + 1 /\ b <= Len(text) /\ a - 1 = cuts[n] /\ a - 1 \in Nat
  <2>1. /\ cuts[n] \in Nat /\ cuts[n + 1] \in Nat /\ cuts[n + 1] - 1 \in Nat
        /\ cuts[n] < cuts[n + 1] /\ cuts[n + 1] - 1 <= Len(text)
    <3>1. n \in 1..n
      BY <1>1
    <3> QED BY <3>1, CutPlaces
  <2> QED BY <2>1
<1>6. PICK cut : cut = parts[n] /\ cut = SubSeq(text, a, b) /\ cut \in Text /\ Len(cut) = b - a + 1
  <2>1. parts[n] = SubSeq(text, a, b)
    BY <1>5 DEF Parted
  <2>2. SubSeq(text, a, b) \in Text /\ Len(SubSeq(text, a, b)) = (IF a <= b THEN b - a + 1 ELSE 0)
    BY <1>5, Stretched DEF Text
  <2>3. (IF a <= b THEN b - a + 1 ELSE 0) = b - a + 1
    <3>1. a \in Nat /\ b \in Nat /\ a <= b + 1
      BY <1>5
    <3> QED BY <3>1
  <2> QED BY <2>1, <2>2, <2>3
<1>7. pieces \in Seq(Text) /\ Covers(pieces, SubSeq(text, a, b), b - a + 1) /\ Bounded(pieces)
  BY <1>6 DEF Good
<1>8. e <= a - 1 /\ (e + 1 = a - 1 \/ e = a - 1)
  <2>1. CASE n = 1
    BY <1>1, <1>4, <1>5, <2>1 DEF PartEnd
  <2>2. CASE n # 1
    <3>1. n - 1 # 0
      BY <1>1, <2>2
    <3>2. e = cuts[n] - 1
      BY <1>1, <1>4, <3>1 DEF PartEnd
    <3>3. e + 1 = a - 1
      BY <1>5, <3>2
    <3> QED BY <1>5, <3>3
  <2> QED BY <2>1, <2>2
<1>9. Between(text, e + 1, a - 1) = {}
  <2>1. CASE e + 1 = a - 1
    <3>1. n \in 1..K + 1
      BY <1>1
    <3>2. Between(text, cuts[n], cuts[n]) = {}
      BY <3>1 DEF Parted
    <3> QED BY <1>5, <2>1, <3>2
  <2>2. CASE e = a - 1
    <3>1. PICK i \in Int, j \in Int : i = e + 1 /\ j = a - 1 /\ j < i
      BY <1>5, <2>2
    <3>2. Between(text, i, j) = {}
      BY <3>1, BetweenEmpty
    <3> QED BY <3>1, <3>2
  <2> QED BY <1>8, <2>1, <2>2
<1>10. PICK more : more = Added(sep, pieces, st)
  OBVIOUS
<1>11. more \in Seq(Text)
  BY <1>7, <1>10, AddedTyped
<1>12. Bounded(more) /\ \E q \in Nat : q <= e + 1 /\ Led(more, pieces, Between(text, q, a - 1))
  <2>1. PICK overlap \in Seq(Text) : overlap = OverlapParts(st.parts, sep)
    BY <1>2, OverlapTyped
  <2>2. PICK front \in Text : front = Join(overlap, sep) \o <<sep>> /\ LettersIn(front) = LettersIn(Join(overlap, sep))
    <3>1. Join(overlap, sep) \in Text /\ <<sep>> \in Text /\ LettersIn(<<sep>>) = {}
      BY JoinTyped, SeparatorToken
    <3>2. Join(overlap, sep) \o <<sep>> \in Text
      BY <3>1, SizeJoined
    <3>3. LettersIn(Join(overlap, sep) \o <<sep>>) = LettersIn(Join(overlap, sep)) \cup LettersIn(<<sep>>)
      BY <3>1, LettersJoined
    <3> QED BY <3>1, <3>2, <3>3
  <2>3. CASE overlap # <<>> /\ pieces # <<>> /\ Size(front \o Head(pieces)) <= ChunkSize
    <3>1. more = <<front \o Head(pieces)>> \o Tail(pieces)
      BY <1>10, <2>1, <2>2, <2>3 DEF Added
    <3>2. /\ Led(more, pieces, LettersIn(front)) /\ front \o Head(pieces) \in Text
          /\ \A chunk \in ToSet(more) : chunk = front \o Head(pieces) \/ chunk \in ToSet(pieces)
      BY <1>7, <2>3, <3>1, FirstReplaced
    <3>3. Bounded(more)
      <4>1. Size(front \o Head(pieces)) <= ChunkSize + ChunkOverlap
        <5>1. Size(front \o Head(pieces)) \in Nat
          BY <3>2, SizeCounts
        <5> QED BY <2>3, <5>1, Numbers
      <4> QED BY <1>7, <3>2, <4>1 DEF Bounded
    <3>4. PICK k \in m..n : overlap = SubSeq(parts, k, n - 1)
      <4>1. m \in 1..(n - 1) + 1
        BY <1>1
      <4>2. \E k \in m..(n - 1) + 1 :
               /\ OverlapParts(SubSeq(parts, m, n - 1), sep) = SubSeq(parts, k, n - 1)
               /\ k <= n - 1 => Size(Join(SubSeq(parts, k, n - 1), sep)) + Width(sep) <= ChunkOverlap
        BY <1>1, <4>1, OverlapOf
      <4> QED BY <1>1, <1>3, <2>1, <4>2
    <3>5. k # n
      <4>1. n \in 1..(n - 1) + 1
        BY <1>1
      <4>2. SubSeq(parts, n, n - 1) = <<>>
        BY <1>1, <4>1, EmptyParts
      <4> QED BY <2>3, <3>4, <4>2
    <3>6. n - 1 \in 1..K /\ k \in 1..n - 1 /\ n - 1 # 0 /\ k \in 1..n
      BY <1>1, <3>4, <3>5
    <3>7. LettersIn(Join(overlap, sep)) = Between(text, cuts[k], cuts[n])
      <4>1. LettersIn(Join(SubSeq(parts, k, n - 1), sep)) = Between(text, cuts[k], cuts[(n - 1) + 1])
        BY <3>6, JoinLetters
      <4> QED BY <1>1, <3>4, <4>1
    <3>8. cuts[k] \in Nat /\ cuts[k] <= e + 1
      <4>1. cuts[k] \in Nat /\ cuts[k] <= cuts[n] /\ cuts[n] \in Nat
        BY <3>6, CutPlaces
      <4>2. e = cuts[n] - 1
        BY <1>1, <1>4, <3>6 DEF PartEnd
      <4> QED BY <4>1, <4>2
    <3>9. Led(more, pieces, Between(text, cuts[k], a - 1))
      BY <1>5, <2>2, <3>2, <3>7
    <3> QED BY <3>3, <3>8, <3>9
  <2>4. CASE ~(overlap # <<>> /\ pieces # <<>> /\ Size(front \o Head(pieces)) <= ChunkSize)
    <3>1. more = pieces
      BY <1>10, <2>1, <2>2, <2>4 DEF Added
    <3>2. Led(more, pieces, {})
      BY <3>1 DEF Led
    <3>3. e + 1 \in Nat /\ e + 1 <= e + 1
      BY <1>4
    <3> QED BY <1>7, <1>9, <3>1, <3>2, <3>3
  <2> QED BY <2>3, <2>4
<1>13. PICK q \in Nat : q <= e + 1 /\ Led(more, pieces, Between(text, q, a - 1))
  BY <1>12
<1>14. Covers(closed \o more, text, b)
  <2>1. e <= a - 1 /\ q <= e + 1
    BY <1>8, <1>13
  <2> QED BY <1>4, <1>5, <1>7, <1>9, <1>11, <1>13, <2>1, CoversJoined
<1>15. Bounded(closed \o more)
  BY <1>4, <1>11, <1>12, BoundedJoined
<1>16. PICK new : new = LongPart(sep, pieces, st) /\ new.chunks = closed \o more /\ new.parts = <<>>
  <2>1. LongPart(sep, pieces, st) = [chunks |-> closed \o more, parts |-> <<>>]
    BY <1>4, <1>10, LongPartIs
  <2> QED BY <2>1, SMTT(30)
<1>17. n + 1 \in 1..n + 1 /\ new.parts = SubSeq(parts, n + 1, n)
  <2>1. n + 1 \in 1..n + 1 /\ n \in 0..K
    BY <1>1
  <2>2. SubSeq(parts, n + 1, n) = <<>>
    BY <1>1, <2>1, EmptyParts
  <2> QED BY <1>16, <2>1, <2>2
<1>18. cuts[n + 1] <= b + 1 /\ b <= PartEnd(cuts, n)
  <2>1. cuts[n + 1] = b + 1 /\ PartEnd(cuts, n) = b
    <3>1. n # 0
      BY <1>1
    <3>2. cuts[n + 1] \in Nat
      <4>1. n \in 1..n
        BY <1>1
      <4> QED BY <4>1, CutPlaces
    <3> QED BY <1>5, <3>1, <3>2 DEF PartEnd
  <2>2. b \in Nat
    BY <1>5
  <2> QED BY <2>1, <2>2
<1>19. Taken(text, sep, cuts, parts, n, new)
  BY <1>5, <1>14, <1>15, <1>16, <1>17, <1>18 DEF Taken
<1> QED BY <1>16, <1>19

-----------------------------------------------------------------------------
(* Splitting at one separator after the other                              *)

(* finer makes good chunks of a text in which these separators are not.    *)
Fine(finer, seps) ==
  /\ finer \in [Text -> Seq(Text)]
  /\ \A text \in Text : ToSet(text) \cap seps = {} => Good(finer[text], text)

(* The functions of TakeParts.                                             *)
TakeSteps(parts, sep, finer) ==
  [n \in DOMAIN parts |-> [st \in Collecting |->
     IF TooLong(parts[n], n = Len(parts), sep)
     THEN LongPart(sep, finer[parts[n]], st)
     ELSE ShortPart(sep, parts[n], st)]]
Nobody == [chunks |-> <<>>, parts |-> <<>>]

LEMMA TakeStepsTyped ==
  ASSUME NEW parts \in Seq(Text), NEW sep \in Separators, NEW finer \in [Text -> Seq(Text)]
  PROVE  /\ TakeParts(parts, sep, finer) = Folded(Nobody, TakeSteps(parts, sep, finer)) /\ Nobody \in Collecting
         /\ TakeSteps(parts, sep, finer) \in Seq([Collecting -> Collecting])
         /\ Len(TakeSteps(parts, sep, finer)) = Len(parts)
<1>1. PICK n \in Nat : n = Len(parts) /\ DOMAIN parts = 1..n /\ \A i \in 1..n : parts[i] \in Text
  BY LenProperties
<1>2. Nobody \in Collecting
  <2>1. <<>> \in Seq(Text)
    BY EmptySeq
  <2> QED BY <2>1 DEF Nobody, Collecting
<1>3. PICK steps : steps = TakeSteps(parts, sep, finer)
  OBVIOUS
<1>4. ASSUME NEW i \in 1..n PROVE steps[i] \in [Collecting -> Collecting]
  <2>1. steps[i] = [st \in Collecting |->
           IF TooLong(parts[i], i = Len(parts), sep)
           THEN LongPart(sep, finer[parts[i]], st)
           ELSE ShortPart(sep, parts[i], st)]
    BY <1>1, <1>3 DEF TakeSteps
  <2>2. ASSUME NEW st \in Collecting
        PROVE  LongPart(sep, finer[parts[i]], st) \in Collecting /\ ShortPart(sep, parts[i], st) \in Collecting
    <3>1. parts[i] \in Text /\ finer[parts[i]] \in Seq(Text)
      BY <1>1
    <3> QED BY <3>1, AddedTyped, ShortPartTyped
  <2> QED BY <2>1, <2>2
<1>5. PICK V : V = [Collecting -> Collecting]
  OBVIOUS
<1>6. steps = [i \in 1..n |-> steps[i]] /\ \A i \in 1..n : steps[i] \in V
  BY <1>1, <1>3, <1>4, <1>5 DEF TakeSteps
<1>7. steps \in Seq(V) /\ Len(steps) = n
  BY <1>6, SMTT(30)
<1>8. TakeParts(parts, sep, finer) = Folded(Nobody, steps)
  BY <1>3 DEF TakeParts, TakeSteps, Nobody
<1> QED BY <1>1, <1>2, <1>3, <1>5, <1>7, <1>8

(* When all parts are taken the last of them are still being collected.    *)
LEMMA AllTaken ==
  ASSUME NEW text \in Text, NEW sep \in Separators, NEW seps, NEW finer, Fine(finer, seps \cup {sep}),
         NEW cuts, NEW parts, NEW K, Parted(text, sep, cuts, parts, K)
  PROVE  /\ TakeParts(parts, sep, finer) \in Collecting
         /\ ToSet(text) \cap seps = {} => Taken(text, sep, cuts, parts, K, TakeParts(parts, sep, finer))
<1>1. K \in Nat /\ parts \in Seq(Text) /\ Len(parts) = K /\ cuts[1] = 0 /\ finer \in [Text -> Seq(Text)]
  BY DEF Parted, Fine
<1>2. PICK steps \in Seq([Collecting -> Collecting]) :
        /\ steps = TakeSteps(parts, sep, finer) /\ Len(steps) = K
        /\ TakeParts(parts, sep, finer) = Folded(Nobody, steps) /\ Nobody \in Collecting
  BY <1>1, TakeStepsTyped
<1>3. Folded(Nobody, steps) \in Collecting
  BY <1>2, FoldedTyped
<1>4. ASSUME ToSet(text) \cap seps = {} PROVE Taken(text, sep, cuts, parts, K, Folded(Nobody, steps))
  <2>1. PICK holds : holds = [n \in 0..K |-> {st \in Collecting : Taken(text, sep, cuts, parts, n, st)}]
    OBVIOUS
  <2>2. \A n \in 0..K : \A st \in Collecting : st \in holds[n] <=> Taken(text, sep, cuts, parts, n, st)
    BY <2>1
  <2>3. Taken(text, sep, cuts, parts, 0, Nobody)
    <3>1. Nobody.chunks = <<>> /\ Nobody.parts = <<>>
      BY DEF Nobody
    <3>2. Bounded(<<>>)
      <4>1. ToSet(<<>>) = {}
        BY DEF ToSet
      <4> QED BY <4>1 DEF Bounded
    <3>3. SubSeq(parts, 1, 0) = <<>>
      BY SubSeqEmpty
    <3>4. Covers(<<>>, text, 0)
      BY CoversNothing
    <3>5. 1 \in 1..0 + 1 /\ 0 \in Nat /\ cuts[1] <= 0 + 1 /\ 0 <= PartEnd(cuts, 0)
      BY <1>1 DEF PartEnd
    <3> QED BY <3>1, <3>2, <3>3, <3>4, <3>5 DEF Taken
  <2>4. ASSUME NEW n \in 1..K, NEW st \in Collecting, st \in holds[n - 1] PROVE steps[n][st] \in holds[n]
    <3>1. n - 1 \in 0..K /\ n \in 0..K
      BY <1>1
    <3>2. Taken(text, sep, cuts, parts, n - 1, st)
      BY <2>2, <2>4, <3>1
    <3>3. PICK part \in Text : part = parts[n] /\ sep \notin ToSet(part) /\ ToSet(part) \subseteq ToSet(text)
      BY <1>1, ElementOfSeq DEF Parted
    <3>4. steps[n][st] = IF TooLong(part, n = K, sep)
                         THEN LongPart(sep, finer[part], st) ELSE ShortPart(sep, part, st)
      <4>1. n \in DOMAIN parts
        BY <1>1, LenProperties
      <4> QED BY <1>1, <1>2, <3>3, <4>1 DEF TakeSteps
    <3>5. CASE TooLong(part, n = K, sep)
      <4>1. ToSet(part) \cap (seps \cup {sep}) = {}
        BY <1>4, <3>3
      <4>2. finer[part] \in Seq(Text) /\ Good(finer[part], part)
        BY <4>1 DEF Fine
      <4>3. Taken(text, sep, cuts, parts, n, LongPart(sep, finer[part], st))
        BY <3>2, <3>3, <4>2, LongPartTaken
      <4>4. LongPart(sep, finer[part], st) \in Collecting
        BY <4>2, AddedTyped
      <4> QED BY <2>2, <3>1, <3>4, <3>5, <4>3, <4>4
    <3>6. CASE ~TooLong(part, n = K, sep)
      <4>1. Size(part) <= ChunkSize
        <5>1. Size(part) \in Nat /\ Width(sep) \in Nat
          BY SizeCounts, SeparatorToken
        <5> QED BY <3>6, <5>1, Numbers DEF TooLong
      <4>2. Taken(text, sep, cuts, parts, n, ShortPart(sep, part, st))
        BY <3>2, <3>3, <4>1, ShortPartTaken
      <4>3. ShortPart(sep, part, st) \in Collecting
        BY ShortPartTyped
      <4> QED BY <2>2, <3>1, <3>4, <3>6, <4>2, <4>3
    <3> QED BY <3>5, <3>6
  <2>5. 0 \in 0..K /\ K \in 0..K
    BY <1>1
  <2>6. Nobody \in holds[0]
    BY <1>2, <2>2, <2>3, <2>5
  <2>7. Folded(Nobody, steps) \in holds[Len(steps)]
    BY <1>2, <2>4, <2>6, FoldedKeeps
  <2> QED BY <1>2, <1>3, <2>2, <2>5, <2>7
<1> QED BY <1>2, <1>3, <1>4

LEMMA RestIsGood ==
  ASSUME NEW text \in Text, NEW sep \in Separators, NEW cuts, NEW parts, NEW K,
         Parted(text, sep, cuts, parts, K), NEW end \in Collecting, Taken(text, sep, cuts, parts, K, end)
  PROVE  Good(WithRest(end.chunks, Strip(Join(end.parts, sep))), text)
<1>1. K \in Nat /\ K # 0 /\ parts \in Seq(Text) /\ Len(parts) = K /\ cuts[K + 1] = Len(text) + 1 /\ Len(text) \in Nat
  BY LenProperties DEF Parted, Text
<1>2. end.chunks \in Seq(Text) /\ end.parts \in Seq(Text) /\ Bounded(end.chunks)
  BY DEF Collecting, Taken
<1>3. PICK m \in 1..K + 1, e \in Nat :
        /\ end.parts = SubSeq(parts, m, K) /\ Covers(end.chunks, text, e)
        /\ cuts[m] <= e + 1 /\ e <= PartEnd(cuts, K)
  BY DEF Taken
<1>4. PartEnd(cuts, K) = Len(text)
  BY <1>1 DEF PartEnd
<1>5. PICK rest \in Text : /\ rest = Strip(Join(end.parts, sep)) /\ LettersIn(rest) = LettersIn(Join(end.parts, sep))
                           /\ Size(rest) <= Size(Join(end.parts, sep))
  BY <1>2, JoinTyped, StripKeeps
<1>6. CASE end.parts = <<>>
  <2>1. rest = <<>>
    <3>1. Join(end.parts, sep) = <<>>
      BY <1>6 DEF Join
    <3>2. {i \in DOMAIN <<>> : <<>>[i] \notin White} = {}
      OBVIOUS
    <3>3. Strip(<<>>) = <<>>
      BY <3>2 DEF Strip
    <3> QED BY <1>5, <3>1, <3>3
  <2>2. Covers(Flushed(sep, end), text, Len(text))
    <3>1. K \in 0..K
      BY <1>1
    <3> QED BY <1>4, <3>1, FlushedCovers
  <2>3. Flushed(sep, end) = end.chunks
    BY <1>6, FlushedTyped
  <2> QED BY <1>2, <1>5, <2>1, <2>2, <2>3 DEF Good, WithRest
<1>7. CASE end.parts # <<>>
  <2>1. m \in 1..K /\ K \in 1..K
    <3>1. K \in 0..Len(parts)
      BY <1>1
    <3>2. m # K + 1
      BY <1>1, <1>3, <1>7, <3>1, EmptyParts
    <3> QED BY <1>1, <3>2
  <2>2. LettersIn(rest) = Between(text, cuts[m], Len(text))
    <3>1. LettersIn(Join(SubSeq(parts, m, K), sep)) = Between(text, cuts[m], cuts[K + 1] - 1)
      BY <2>1, JoinLetters
    <3>2. cuts[K + 1] - 1 = Len(text)
      BY <1>1
    <3> QED BY <1>3, <1>5, <3>1, <3>2
  <2>3. PICK s \in Nat : s = cuts[m] /\ s <= e + 1 /\ e <= Len(text)
    BY <1>3, <1>4, <2>1, CutPlaces
  <2>4. CASE rest = <<>>
    <3>1. Between(text, s, Len(text)) = {}
      <4>1. LettersIn(<<>>) = {}
        <5>1. ToSet(<<>>) = {}
          BY DEF ToSet
        <5> QED BY <5>1 DEF LettersIn
      <4> QED BY <2>2, <2>3, <2>4, <4>1
    <3>2. Between(text, s, Len(text)) = Between(text, s, e) \cup Between(text, e + 1, Len(text))
      <4>1. s \in Int /\ e \in Int /\ Len(text) \in Int /\ s <= e + 1 /\ e <= Len(text)
        BY <1>1, <2>3
      <4> QED BY <4>1, BetweenSplit
    <3>3. PICK f \in Nat : f = Len(text) /\ e <= f /\ f <= Len(text) /\ Between(text, e + 1, f) = {}
      BY <1>1, <2>3, <3>1, <3>2
    <3>4. Covers(end.chunks, text, f)
      BY <1>2, <1>3, <3>3, CoversMore
    <3> QED BY <1>2, <1>5, <2>4, <3>3, <3>4 DEF Good, WithRest
  <2>5. CASE rest # <<>>
    <3>1. PICK f \in Nat : f = Len(text) /\ e <= f /\ f <= Len(text) /\ LettersIn(rest) = Between(text, s, f)
      BY <1>1, <2>2, <2>3
    <3>2. Covers(Append(end.chunks, rest), text, f)
      BY <1>2, <1>3, <2>3, <3>1, CoversAppended
    <3>3. Size(rest) <= ChunkSize + ChunkOverlap
      <4>1. Size(Join(end.parts, sep)) <= ChunkSize + ChunkOverlap
        BY <1>7 DEF Taken
      <4>2. Size(rest) \in Nat /\ Size(Join(end.parts, sep)) \in Nat
        BY <1>2, JoinTyped, SizeCounts
      <4> QED BY <1>5, <4>1, <4>2, Numbers
    <3>4. Append(end.chunks, rest) \in Seq(Text) /\ Bounded(Append(end.chunks, rest))
      BY <1>2, <3>3, BoundedAppended
    <3>5. WithRest(end.chunks, rest) = Append(end.chunks, rest)
      BY <2>5 DEF WithRest
    <3> QED BY <1>5, <3>1, <3>2, <3>4, <3>5 DEF Good
  <2> QED BY <2>4, <2>5
<1> QED BY <1>6, <1>7

(* What splits at one separator more.                                      *)
LEMMA SplitAtFine ==
  ASSUME NEW sep \in Separators, NEW seps, NEW finer, Fine(finer, seps \cup {sep})
  PROVE  Fine(SplitAt(sep, finer), seps)
<1>1. finer \in [Text -> Seq(Text)]
  BY DEF Fine
<1>2. PICK split : split = SplitAt(sep, finer)
  OBVIOUS
<1>3. DOMAIN split = Text /\ \A text \in Text :
        LET end == TakeParts(PartsOf(text, sep), sep, finer) IN
        split[text] = IF Size(text) <= ChunkSize THEN Whole(text)
                      ELSE IF sep \in ToSet(text) THEN WithRest(end.chunks, Strip(Join(end.parts, sep)))
                      ELSE finer[text]
  BY <1>2 DEF SplitAt
<1>4. ASSUME NEW text \in Text
      PROVE  split[text] \in Seq(Text) /\ (ToSet(text) \cap seps = {} => Good(split[text], text))
  <2>1. CASE Size(text) <= ChunkSize
    BY <1>3, <2>1, WholeIsGood
  <2>2. CASE ~(Size(text) <= ChunkSize) /\ sep \in ToSet(text)
    <3>1. PICK cuts, parts, K : Parted(text, sep, cuts, parts, K) /\ parts = PartsOf(text, sep)
      BY IsParted
    <3>2. PICK end \in Collecting :
            /\ end = TakeParts(parts, sep, finer)
            /\ ToSet(text) \cap seps = {} => Taken(text, sep, cuts, parts, K, end)
      BY <3>1, AllTaken
    <3>3. split[text] = WithRest(end.chunks, Strip(Join(end.parts, sep)))
      BY <1>3, <2>2, <3>1, <3>2
    <3>4. split[text] \in Seq(Text)
      <4>1. end.chunks \in Seq(Text) /\ end.parts \in Seq(Text)
        BY DEF Collecting
      <4>2. Strip(Join(end.parts, sep)) \in Text
        BY <4>1, JoinTyped, StripKeeps
      <4> QED BY <3>3, <4>1, <4>2, AppendProperties DEF WithRest
    <3> QED BY <3>1, <3>2, <3>3, <3>4, RestIsGood
  <2>3. CASE ~(Size(text) <= ChunkSize) /\ sep \notin ToSet(text)
    <3>1. split[text] = finer[text]
      BY <1>3, <2>3
    <3>2. ToSet(text) \cap seps = {} => ToSet(text) \cap (seps \cup {sep}) = {}
      BY <2>3
    <3> QED BY <1>1, <3>1, <3>2 DEF Fine
  <2> QED BY <2>1, <2>2, <2>3
<1>5. split \in [Text -> Seq(Text)]
  <2>1. split = [text \in Text |-> split[text]]
    BY <1>2 DEF SplitAt
  <2> QED BY <1>4, <2>1
<1> QED BY <1>2, <1>4, <1>5 DEF Fine

LEMMA BySizeFine == Fine(SplitBySize, {"blank", "stop", "para"})
<1>1. PICK split : split = SplitBySize
  OBVIOUS
<1>2. split = [text \in Text |-> IF Size(text) <= ChunkSize THEN Whole(text) ELSE ForceSplit(text)]
  BY <1>1 DEF SplitBySize
<1>3. ASSUME NEW text \in Text
      PROVE  /\ split[text] \in Seq(Text)
             /\ ToSet(text) \cap {"blank", "stop", "para"} = {} => Good(split[text], text)
  <2>1. CASE Size(text) <= ChunkSize
    BY <1>2, <2>1, WholeIsGood
  <2>2. CASE ~(Size(text) <= ChunkSize)
    BY <1>2, <2>2, ForceIsGood
  <2> QED BY <2>1, <2>2
<1>4. split \in [Text -> Seq(Text)]
  BY <1>2, <1>3
<1> QED BY <1>1, <1>3, <1>4 DEF Fine

LEMMA RecursiveSplitFine == Fine(RecursiveSplit, {})
<1>1. "para" \in Separators /\ "stop" \in Separators /\ "blank" \in Separators
  BY DEF Separators
<1>2. {"blank", "stop", "para"} = {"para", "stop"} \cup {"blank"} /\ {"para", "stop"} = {"para"} \cup {"stop"}
      /\ {"para"} = {} \cup {"para"}
  OBVIOUS
<1>3. Fine(SplitAt("blank", SplitBySize), {"para", "stop"})
  BY <1>1, <1>2, BySizeFine, SplitAtFine
<1>4. Fine(SplitAt("stop", SplitAt("blank", SplitBySize)), {"para"})
  BY <1>1, <1>2, <1>3, SplitAtFine
<1>5. Fine(SplitAt("para", SplitAt("stop", SplitAt("blank", SplitBySize))), {})
  BY <1>1, <1>2, <1>4, SplitAtFine
<1> QED BY <1>5 DEF RecursiveSplit

-----------------------------------------------------------------------------
(* Short chunks, and pages                                                 *)

Filled == Seq(Text) \ {<<>>}

(* What a chunk does to those before it.                                   *)
Merge(chunk) ==
  [merged \in Filled |->
     IF Size(chunk) < ChunkSize \div 4 /\ Size(Last(merged)) + Size(chunk) + 2 <= ChunkSize
     THEN Append(Front(merged), Last(merged) \o <<"para">> \o chunk)
     ELSE Append(merged, chunk)]
MergeSteps(chunks) == [i \in 1..(Len(chunks) - 1) |-> Merge(chunks[i + 1])]

LEMMA MergeIs ==
  ASSUME NEW chunks
  PROVE  MergeSmall(chunks) = IF Len(chunks) <= 1 THEN chunks ELSE Folded(<<Head(chunks)>>, MergeSteps(chunks))
  BY DEF MergeSmall, MergeSteps, Merge, Filled

LEMMA LastOf ==
  ASSUME NEW merged \in Filled
  PROVE  /\ merged \in Seq(Text) /\ Last(merged) \in Text /\ Last(merged) = merged[Len(merged)]
         /\ Front(merged) \in Seq(Text) /\ ToSet(Front(merged)) \subseteq ToSet(merged)
         /\ Last(merged) \in ToSet(merged)
<1>1. PICK n \in Nat : n = Len(merged) /\ n # 0 /\ merged \in Seq(Text) /\ DOMAIN merged = 1..n
  BY LenProperties, EmptySeq DEF Filled
<1>2. n \in 1..n /\ Last(merged) = merged[n] /\ merged[n] \in Text
  BY <1>1, ElementOfSeq DEF Last
<1>3. Front(merged) = SubSeq(merged, 1, n - 1)
  BY <1>1 DEF Front
<1>4. /\ SubSeq(merged, 1, n - 1) \in Seq(Text) /\ DOMAIN SubSeq(merged, 1, n - 1) = 1..(n - 1) - 1 + 1
      /\ \A i \in 1..(n - 1) - 1 + 1 : SubSeq(merged, 1, n - 1)[i] = merged[1 + i - 1]
  <2>1. 1 \in Nat /\ n - 1 \in Nat /\ 1 <= 1 /\ n - 1 <= Len(merged)
    BY <1>1
  <2> QED BY <1>1, <2>1, Stretched
<1>5. \A i \in 1..(n - 1) - 1 + 1 : 1 + i - 1 \in 1..n
  BY <1>1
<1>6. ToSet(SubSeq(merged, 1, n - 1)) \subseteq ToSet(merged)
  BY <1>1, <1>4, <1>5 DEF ToSet
<1>7. merged[n] \in ToSet(merged)
  BY <1>1, <1>2 DEF ToSet
<1> QED BY <1>1, <1>2, <1>3, <1>4, <1>6, <1>7

LEMMA MergeTyped ==
  ASSUME NEW chunk \in Text
  PROVE  Merge(chunk) \in [Filled -> Filled]
<1> SUFFICES ASSUME NEW merged \in Filled
             PROVE  /\ Append(Front(merged), Last(merged) \o <<"para">> \o chunk) \in Filled
                    /\ Append(merged, chunk) \in Filled
  BY DEF Merge
<1>1. merged \in Seq(Text) /\ Last(merged) \in Text /\ Front(merged) \in Seq(Text)
  BY LastOf
<1>2. Last(merged) \o <<"para">> \o chunk \in Text
  <2>1. <<"para">> \in Text
    BY SeparatorToken DEF Separators
  <2>2. Last(merged) \o <<"para">> \in Text
    BY <1>1, <2>1, SizeJoined
  <2> QED BY <2>2, SizeJoined
<1> QED BY <1>1, <1>2, AppendProperties, SMTT(30) DEF Filled

LEMMA MergeStepsTyped ==
  ASSUME NEW chunks \in Seq(Text), Len(chunks) > 1
  PROVE  /\ MergeSteps(chunks) \in Seq([Filled -> Filled])
         /\ Len(MergeSteps(chunks)) = Len(chunks) - 1
         /\ <<Head(chunks)>> \in Filled /\ Head(chunks) = chunks[1] /\ chunks[1] \in Text
<1>1. PICK n \in Nat : n = Len(chunks) - 1 /\ Len(chunks) = n + 1 /\ \A i \in 1..n + 1 : chunks[i] \in Text
  <2>1. Len(chunks) \in Nat /\ \A i \in 1..Len(chunks) : chunks[i] \in Text
    BY LenProperties
  <2>2. Len(chunks) - 1 \in Nat /\ Len(chunks) = (Len(chunks) - 1) + 1
    BY <2>1
  <2> QED BY <2>1, <2>2
<1>2. PICK V : V = [Filled -> Filled]
  OBVIOUS
<1>3. PICK steps : steps = MergeSteps(chunks)
  OBVIOUS
<1>4. \A i \in 1..n : steps[i] \in V
  <2> SUFFICES ASSUME NEW i \in 1..n PROVE steps[i] \in V
    OBVIOUS
  <2>1. i + 1 \in 1..n + 1
    OBVIOUS
  <2> QED BY <1>1, <1>2, <1>3, <2>1, MergeTyped DEF MergeSteps
<1>5. steps = [i \in 1..n |-> steps[i]]
  BY <1>1, <1>3 DEF MergeSteps
<1>6. steps \in Seq(V) /\ Len(steps) = n
  BY <1>4, <1>5
<1>7. Head(chunks) = chunks[1] /\ chunks[1] \in Text
  <2>1. chunks[1] \in Text
    BY <1>1
  <2> QED BY <2>1
<1>8. <<Head(chunks)>> \in Filled
  <2>1. PICK first \in Text : first = Head(chunks)
    BY <1>7
  <2>2. <<first>> \in Seq(Text) /\ <<first>> # <<>>
    OBVIOUS
  <2> QED BY <2>1, <2>2 DEF Filled
<1> QED BY <1>1, <1>2, <1>3, <1>6, <1>7, <1>8

LEMMA MergeIsGood ==
  ASSUME NEW text \in Text, NEW chunks, Good(chunks, text)
  PROVE  Good(MergeSmall(chunks), text)
<1>1. PICK N \in Nat : N = Len(chunks) /\ DOMAIN chunks = 1..N /\ chunks \in Seq(Text) /\ Bounded(chunks)
  BY LenProperties DEF Good
<1>2. CASE N <= 1
  BY <1>1, <1>2, MergeIs DEF Good
<1>3. CASE ~(N <= 1)
  <2>1. PICK M \in Nat : M = N - 1 /\ N = M + 1
    BY <1>3
  <2>2. PICK l \in Nat : l = Len(text)
    BY LenProperties DEF Text
  <2>3. PICK to : Reaches(chunks, text, to) /\ to[N] = l
    BY <1>1, <2>2 DEF Good, Covers
  <2>4. /\ to \in [0..N -> 0..l] /\ to[N] = l /\ Between(text, 0, to[0]) = {}
        /\ \A n \in 1..N : to[n - 1] <= to[n] /\ \E s \in 0..to[n - 1] + 1 : LettersIn(chunks[n]) = Between(text, s, to[n])
    BY <1>1, <2>2, <2>3 DEF Reaches
  <2>5. PICK steps \in Seq([Filled -> Filled]) :
          /\ steps = MergeSteps(chunks) /\ Len(steps) = M
          /\ <<Head(chunks)>> \in Filled /\ Head(chunks) = chunks[1] /\ chunks[1] \in Text
          /\ MergeSmall(chunks) = Folded(<<Head(chunks)>>, steps)
    <3>1. Len(chunks) > 1
      BY <1>1, <1>3
    <3>2. /\ MergeSteps(chunks) \in Seq([Filled -> Filled])
          /\ Len(MergeSteps(chunks)) = Len(chunks) - 1
          /\ <<Head(chunks)>> \in Filled /\ Head(chunks) = chunks[1] /\ chunks[1] \in Text
      BY <1>1, <3>1, MergeStepsTyped
    <3> QED BY <1>1, <1>3, <2>1, <3>2, MergeIs
  <2>6. ASSUME NEW n \in 1..N
        PROVE  /\ to[n - 1] \in Nat /\ to[n] \in Nat /\ to[n - 1] <= to[n] /\ to[n] <= l
               /\ chunks[n] \in Text /\ Size(chunks[n]) <= ChunkSize + ChunkOverlap /\ Size(chunks[n]) \in Nat
               /\ \E s \in Nat : s <= to[n - 1] + 1 /\ LettersIn(chunks[n]) = Between(text, s, to[n])
    <3>1. n - 1 \in 0..N /\ n \in 0..N
      OBVIOUS
    <3>2. to[n - 1] \in 0..l /\ to[n] \in 0..l
      BY <2>4, <3>1
    <3>3. PICK s \in 0..to[n - 1] + 1 : LettersIn(chunks[n]) = Between(text, s, to[n])
      BY <2>4
    <3>4. s \in Nat /\ s <= to[n - 1] + 1
      BY <3>2
    <3>5. chunks[n] \in Text /\ chunks[n] \in ToSet(chunks)
      BY <1>1, ElementOfSeq DEF ToSet
    <3>6. Size(chunks[n]) <= ChunkSize + ChunkOverlap /\ Size(chunks[n]) \in Nat
      BY <1>1, <3>5, SizeCounts DEF Bounded
    <3>7. to[n - 1] <= to[n]
      BY <2>4
    <3> QED BY <3>2, <3>3, <3>4, <3>5, <3>6, <3>7
  <2>7. PICK holds : holds = [i \in 0..M |-> {merged \in Filled : Covers(merged, text, to[i + 1]) /\ Bounded(merged)}]
    OBVIOUS
  <2>8. \A i \in 0..M : \A merged \in Filled : merged \in holds[i] <=> Covers(merged, text, to[i + 1]) /\ Bounded(merged)
    BY <2>7
  <2>9. <<Head(chunks)>> \in holds[0]
    <3>1. PICK first \in Text : first = chunks[1]
      BY <2>5
    <3>2. 1 \in 1..N /\ 1 - 1 = 0 /\ 0 + 1 = 1 /\ 0 \in 0..M
      BY <1>3
    <3>3. PICK f \in Nat, g \in Nat : f = to[0] /\ g = to[1] /\ f <= g /\ g <= l
      BY <2>6, <3>2
    <3>4. PICK s \in Nat : s <= f + 1 /\ LettersIn(first) = Between(text, s, g)
      BY <2>6, <3>1, <3>2, <3>3
    <3>5. Covers(<<>>, text, f)
      <4>1. Between(text, 0 + 1, f) = {}
        <5>1. Between(text, 0, f) = Between(text, 1, f)
          BY BetweenFront
        <5> QED BY <2>4, <3>3, <5>1
      <4>2. PICK z \in Nat : z = 0 /\ z <= f /\ f <= Len(text) /\ Between(text, z + 1, f) = {} /\ Covers(<<>>, text, z)
        <5>1. 0 \in Nat /\ 0 <= f /\ f <= Len(text)
          BY <2>2, <3>3
        <5> QED BY <4>1, <5>1, CoversNothing
      <4>3. <<>> \in Seq(Text)
        BY EmptySeq
      <4> QED BY <4>2, <4>3, CoversMore
    <3>6. <<>> \in Seq(Text) /\ Append(<<>>, first) = <<first>>
      BY EmptySeq
    <3>7. Covers(<<first>>, text, g)
      BY <2>2, <3>3, <3>4, <3>5, <3>6, CoversAppended
    <3>8. Bounded(<<first>>)
      <4>1. Bounded(<<>>)
        <5>1. ToSet(<<>>) = {}
          BY DEF ToSet
        <5> QED BY <5>1 DEF Bounded
      <4>2. Size(first) <= ChunkSize + ChunkOverlap
        BY <2>6, <3>1, <3>2
      <4> QED BY <3>6, <4>1, <4>2, BoundedAppended
    <3> QED BY <2>5, <2>8, <3>1, <3>2, <3>3, <3>7, <3>8
  <2>10. ASSUME NEW n \in 1..M, NEW merged \in Filled, merged \in holds[n - 1] PROVE steps[n][merged] \in holds[n]
    <3>1. n - 1 \in 0..M /\ n \in 0..M /\ (n - 1) + 1 = n /\ n + 1 \in 1..N /\ (n + 1) - 1 = n /\ n \in 1..N
      BY <2>1
    <3>2. PICK e \in Nat, f \in Nat : e = to[n] /\ f = to[n + 1] /\ e <= f /\ f <= Len(text)
      BY <2>2, <2>6, <3>1
    <3>3. Covers(merged, text, e) /\ Bounded(merged)
      BY <2>8, <2>10, <3>1, <3>2
    <3>4. PICK chunk \in Text, s \in Nat :
            /\ chunk = chunks[n + 1] /\ s <= e + 1 /\ LettersIn(chunk) = Between(text, s, f)
            /\ Size(chunk) \in Nat /\ Size(chunk) <= ChunkSize + ChunkOverlap
      BY <2>6, <3>1, <3>2
    <3>5. steps[n] = Merge(chunk)
      BY <1>1, <2>1, <2>5, <3>4 DEF MergeSteps
    <3>6. PICK last \in Text : /\ last = Last(merged) /\ last = merged[Len(merged)] /\ merged \in Seq(Text)
                               /\ Front(merged) \in Seq(Text) /\ ToSet(Front(merged)) \subseteq ToSet(merged)
                               /\ merged # <<>> /\ Size(last) \in Nat
      BY LastOf, SizeCounts DEF Filled
    <3>7. steps[n][merged] \in Filled
      BY <3>5, MergeTyped
    <3>8. CASE Size(chunk) < ChunkSize \div 4 /\ Size(last) + Size(chunk) + 2 <= ChunkSize
      <4>1. PICK both \in Text : /\ both = last \o <<"para">> \o chunk
                                 /\ LettersIn(both) = LettersIn(last) \cup LettersIn(chunk)
                                 /\ Size(both) = Size(last) + 2 + Size(chunk)
        <5>1. "para" \in Separators
          BY DEF Separators
        <5>2. <<"para">> \in Text /\ Size(<<"para">>) = 2 /\ LettersIn(<<"para">>) = {}
          BY <5>1, SeparatorToken DEF Width
        <5>3. PICK some \in Text : some = last \o <<"para">> /\ Size(some) = Size(last) + 2 /\ LettersIn(some) = LettersIn(last)
          <6>1. last \o <<"para">> \in Text /\ Size(last \o <<"para">>) = Size(last) + Size(<<"para">>)
            BY <5>2, SizeJoined
          <6>2. LettersIn(last \o <<"para">>) = LettersIn(last) \cup LettersIn(<<"para">>)
            BY <5>2, LettersJoined
          <6> QED BY <5>2, <6>1, <6>2
        <5>4. some \o chunk \in Text /\ Size(some \o chunk) = Size(some) + Size(chunk)
          BY SizeJoined
        <5>5. LettersIn(some \o chunk) = LettersIn(some) \cup LettersIn(chunk)
          BY LettersJoined
        <5> QED BY <5>3, <5>4, <5>5
      <4>2. steps[n][merged] = Append(Front(merged), both)
        BY <3>5, <3>6, <3>8, <4>1 DEF Merge
      <4>3. Covers(Append(Front(merged), both), text, f)
        <5>1. LettersIn(both) = LettersIn(merged[Len(merged)]) \cup Between(text, s, f)
          BY <3>4, <3>6, <4>1
        <5> QED BY <3>2, <3>3, <3>4, <3>6, <5>1, CoversMerged
      <4>4. Bounded(Append(Front(merged), both))
        <5>1. Size(both) <= ChunkSize + ChunkOverlap
          BY <3>4, <3>6, <3>8, <4>1, Numbers
        <5>2. Bounded(Front(merged))
          BY <3>3, <3>6 DEF Bounded
        <5> QED BY <3>6, <5>1, <5>2, BoundedAppended
      <4> QED BY <2>8, <3>1, <3>2, <3>7, <4>2, <4>3, <4>4
    <3>9. CASE ~(Size(chunk) < ChunkSize \div 4 /\ Size(last) + Size(chunk) + 2 <= ChunkSize)
      <4>1. steps[n][merged] = Append(merged, chunk)
        BY <3>5, <3>6, <3>9 DEF Merge
      <4>2. Covers(Append(merged, chunk), text, f)
        BY <3>2, <3>3, <3>4, <3>6, CoversAppended
      <4>3. Bounded(Append(merged, chunk))
        BY <3>3, <3>4, <3>6, BoundedAppended
      <4> QED BY <2>8, <3>1, <3>2, <3>7, <4>1, <4>2, <4>3
    <3> QED BY <3>8, <3>9
  <2>11. PICK result \in Filled : result = MergeSmall(chunks) /\ result \in holds[M]
    <3>1. /\ Folded(<<Head(chunks)>>, steps) \in holds[Len(steps)]
          /\ Folded(<<Head(chunks)>>, steps) \in Filled
      BY <2>5, <2>9, <2>10, FoldedKeeps
    <3> QED BY <2>5, <3>1
  <2>12. M \in 0..M /\ to[M + 1] = Len(text)
    BY <2>1, <2>2, <2>4
  <2>13. Covers(result, text, Len(text)) /\ Bounded(result)
    BY <2>8, <2>11, <2>12
  <2> QED BY <2>11, <2>13 DEF Good, Filled
<1> QED BY <1>2, <1>3

(* The chunks of a text.                                                   *)
LEMMA SplitTextIsGood ==
  ASSUME NEW text \in Text
  PROVE  Good(SplitText(text), text)
<1>1. CASE Blank(text)
  <2>1. LettersIn(text) = {}
    BY <1>1, SplitterAssumption DEF SplitterAssumption, Blank, White, Separators, LettersIn
  <2> QED BY <1>1, <2>1, GoodNothing DEF SplitText
<1>2. CASE ~Blank(text)
  <2>1. Good(RecursiveSplit[text], text)
    <3>1. ToSet(text) \cap {} = {}
      OBVIOUS
    <3> QED BY <3>1, RecursiveSplitFine DEF Fine
  <2> QED BY <1>2, <2>1, MergeIsGood DEF SplitText
<1> QED BY <1>1, <1>2

(* The texts that chunks have of a page.                                   *)
Located == [page : Nat, text : Text]
OnPage(pieces, p) == {pieces[i].text : i \in {k \in DOMAIN pieces : pieces[k].page = p}}
PiecesOf(p, texts) == [i \in DOMAIN texts |-> PieceAt(p, texts[i])]

LEMMA PiecesAdded ==
  ASSUME NEW texts \in Seq(Text), NEW p \in Nat, NEW before \in Seq(Located)
  PROVE  /\ before \o PiecesOf(p, texts) \in Seq(Located)
         /\ \A q : OnPage(before \o PiecesOf(p, texts), q) =
                     OnPage(before, q) \cup (IF q = p THEN ToSet(texts) ELSE {})
<1>1. PICK N \in Nat : N = Len(texts) /\ DOMAIN texts = 1..N /\ \A i \in 1..N : texts[i] \in Text
  BY LenProperties
<1>2. PICK M \in Nat : M = Len(before) /\ DOMAIN before = 1..M
  BY LenProperties
<1>3. PICK more : more = PiecesOf(p, texts)
  OBVIOUS
<1>4. /\ more \in Seq(Located) /\ Len(more) = N /\ DOMAIN more = 1..N
      /\ \A i \in 1..N : more[i].page = p /\ more[i].text = texts[i]
  <2>1. more = [i \in 1..N |-> PieceAt(p, texts[i])]
    BY <1>1, <1>3 DEF PiecesOf
  <2>2. \A i \in 1..N : PieceAt(p, texts[i]) \in Located
    BY <1>1 DEF PieceAt, Located
  <2>3. \A i \in 1..N : more[i].page = p /\ more[i].text = texts[i]
    BY <2>1 DEF PieceAt
  <2>4. more \in [1..N -> Located]
    BY <2>1, <2>2
  <2> HIDE DEF Located
  <2> QED BY <1>1, <2>3, <2>4, IsASeq, LenProperties
<1>5. PICK all : all = before \o more
  OBVIOUS
<1>6. /\ all \in Seq(Located) /\ DOMAIN all = 1..M + N
      /\ \A i \in 1..M : all[i] = before[i]
      /\ \A i \in 1..N : all[M + i] = more[i]
  <2> HIDE DEF Located
  <2>1. before \in Seq(Located) /\ more \in Seq(Located)
    BY <1>4
  <2>2. all \in Seq(Located) /\ Len(all) = M + N
    BY <1>2, <1>4, <1>5, <2>1, ConcatProperties
  <2>3. DOMAIN all = 1..M + N
    BY <2>2, LenProperties
  <2>4. \A i \in 1..M + N : all[i] = IF i <= M THEN before[i] ELSE more[i - M]
    BY <1>2, <1>4, <1>5, <2>1, ConcatProperties
  <2>5. \A i \in 1..M : i \in 1..M + N /\ i <= M
    BY <1>1, <1>2
  <2>6. \A i \in 1..N : M + i \in 1..M + N /\ ~(M + i <= M) /\ (M + i) - M = i
    BY <1>1, <1>2
  <2> QED BY <2>2, <2>3, <2>4, <2>5, <2>6
<1>7. ASSUME NEW q
      PROVE  OnPage(all, q) = OnPage(before, q) \cup (IF q = p THEN ToSet(texts) ELSE {})
  <2>1. ASSUME NEW x \in OnPage(all, q)
        PROVE  x \in OnPage(before, q) \cup (IF q = p THEN ToSet(texts) ELSE {})
    <3>1. PICK k \in 1..M + N : all[k].page = q /\ x = all[k].text
      BY <1>6 DEF OnPage
    <3>2. CASE k <= M
      BY <1>2, <1>6, <3>1, <3>2, SMTT(30) DEF OnPage
    <3>3. CASE k > M
      <4>1. PICK i \in 1..N : k = M + i
        <5>1. k - M \in 1..N /\ k = M + (k - M)
          BY <1>1, <1>2, <3>1, <3>3
        <5> QED BY <5>1
      <4>2. q = p /\ x = texts[i]
        BY <1>4, <1>6, <3>1, <4>1
      <4> QED BY <1>1, <4>1, <4>2 DEF ToSet
    <3> QED BY <1>1, <1>2, <3>2, <3>3
  <2>2. ASSUME NEW x \in OnPage(before, q) PROVE x \in OnPage(all, q)
    <3>1. PICK k \in 1..M : before[k].page = q /\ x = before[k].text
      BY <1>2, <2>2 DEF OnPage
    <3>2. k \in 1..M + N
      BY <1>1, <1>2, <3>1
    <3> QED BY <1>6, <3>1, <3>2 DEF OnPage
  <2>3. ASSUME q = p, NEW x \in ToSet(texts) PROVE x \in OnPage(all, q)
    <3>1. PICK i \in 1..N : x = texts[i]
      BY <1>1, <2>3 DEF ToSet
    <3>2. M + i \in 1..M + N
      BY <1>1, <1>2, <3>1
    <3>3. PICK k \in DOMAIN all : k = M + i /\ all[k] = more[i]
      BY <1>6, <3>2
    <3>4. all[k].page = q /\ x = all[k].text
      BY <1>4, <2>3, <3>1, <3>3
    <3> QED BY <3>4 DEF OnPage
  <2> QED BY <2>1, <2>2, <2>3
<1> QED BY <1>3, <1>5, <1>6, <1>7

(* What a page adds to the chunks of a document.                           *)
PageStep(pages, p) ==
  [before \in Seq(Located) |-> before \o PiecesOf(p, SplitText(Strip(pages[p])))]

LEMMA PageSplit ==
  ASSUME NEW page \in Text
  PROVE  Strip(page) \in Text /\ SplitText(Strip(page)) \in Seq(Text)
  BY StripKeeps, SplitTextIsGood DEF Good

LEMMA PagesChunked ==
  ASSUME NEW document \in Seq(Text)
  PROVE  /\ \A p \in DOMAIN document : OnPage(ChunkPages(document), p) = ToSet(SplitText(Strip(document[p])))
         /\ document = <<>> => ChunkPages(document) = <<>>
<1>1. PICK N \in Nat : N = Len(document) /\ DOMAIN document = 1..N /\ \A p \in 1..N : document[p] \in Text
  BY LenProperties
<1>2. PICK steps : steps = [p \in 1..N |-> PageStep(document, p)]
  OBVIOUS
<1>3. ChunkPages(document) = Folded(<<>>, steps)
  BY <1>1, <1>2 DEF ChunkPages, PageStep, Located, PiecesOf
<1> DEFINE V == Seq(Located)
<1>4. <<>> \in V
  BY EmptySeq
<1>5. ASSUME NEW p \in 1..N PROVE /\ SplitText(Strip(document[p])) \in Seq(Text)
                                  /\ PageStep(document, p) \in [V -> V]
  <2>1. SplitText(Strip(document[p])) \in Seq(Text) /\ p \in Nat
    BY <1>1, PageSplit
  <2>2. \A before \in V : before \o PiecesOf(p, SplitText(Strip(document[p]))) \in V
    BY <2>1, PiecesAdded
  <2> QED BY <2>1, <2>2 DEF PageStep
<1> HIDE DEF V
<1>6. steps \in Seq([V -> V]) /\ Len(steps) = N
  <2>1. steps \in [1..N -> [V -> V]]
    BY <1>2, <1>5
  <2> QED BY <1>1, <2>1, IsASeq, LenProperties
<1>7. PICK holds : holds = [n \in 0..N |-> {v \in V : \A q \in 1..N :
                             OnPage(v, q) = IF q <= n THEN ToSet(SplitText(Strip(document[q]))) ELSE {}}]
  OBVIOUS
<1>8. <<>> \in holds[0]
  <2>1. \A q \in 1..N : OnPage(<<>>, q) = {} /\ ~(q <= 0)
    BY <1>1 DEF OnPage
  <2>2. 0 \in 0..N
    BY <1>1
  <2> QED BY <1>4, <1>7, <2>1, <2>2
<1>9. ASSUME NEW n \in 1..Len(steps), NEW v \in V, v \in holds[n - 1]
      PROVE  steps[n][v] \in holds[n]
  <2>1. n \in 1..N /\ n - 1 \in 0..N /\ n \in 0..N /\ n \in Nat
    BY <1>1, <1>6
  <2>2. \A q \in 1..N : OnPage(v, q) = IF q <= n - 1 THEN ToSet(SplitText(Strip(document[q]))) ELSE {}
    BY <1>7, <1>9, <2>1
  <2>3. PICK texts \in Seq(Text) : texts = SplitText(Strip(document[n]))
    BY <1>5, <2>1
  <2>4. steps[n][v] = v \o PiecesOf(n, texts)
    BY <1>2, <2>1, <2>3 DEF PageStep, V
  <2>5. /\ steps[n][v] \in V
        /\ \A q : OnPage(steps[n][v], q) = OnPage(v, q) \cup (IF q = n THEN ToSet(texts) ELSE {})
    <3>1. v \in Seq(Located) /\ n \in Nat
      BY <2>1 DEF V
    <3>2. /\ v \o PiecesOf(n, texts) \in Seq(Located)
          /\ \A q : OnPage(v \o PiecesOf(n, texts), q) =
                      OnPage(v, q) \cup (IF q = n THEN ToSet(texts) ELSE {})
      BY <3>1, PiecesAdded
    <3> QED BY <2>4, <3>2 DEF V
  <2>6. \A q \in 1..N : OnPage(steps[n][v], q) = IF q <= n THEN ToSet(SplitText(Strip(document[q]))) ELSE {}
    <3>1. \A q \in 1..N : /\ q <= n - 1 => q <= n /\ q # n
                          /\ ~(q <= n - 1) /\ q # n => ~(q <= n)
      BY <1>1, <2>1
    <3>2. n <= n /\ ~(n <= n - 1)
      BY <2>1
    <3>3. SUFFICES ASSUME NEW q \in 1..N
                   PROVE  OnPage(steps[n][v], q) = IF q <= n THEN ToSet(SplitText(Strip(document[q]))) ELSE {}
      OBVIOUS
    <3>4. CASE q = n
      BY <2>2, <2>3, <2>5, <3>2, <3>4
    <3>5. CASE q # n /\ q <= n - 1
      BY <2>2, <2>5, <3>1, <3>5
    <3>6. CASE q # n /\ ~(q <= n - 1)
      BY <2>2, <2>5, <3>1, <3>6
    <3> QED BY <3>4, <3>5, <3>6
  <2> QED BY <1>7, <2>1, <2>5, <2>6
<1>10. Folded(<<>>, steps) \in holds[Len(steps)]
  BY <1>4, <1>6, <1>8, <1>9, FoldedKeeps
<1>11. \A p \in DOMAIN document : OnPage(ChunkPages(document), p) = ToSet(SplitText(Strip(document[p])))
  <2>1. N \in 0..N /\ \A q \in 1..N : q <= N
    BY <1>1
  <2> QED BY <1>1, <1>3, <1>6, <1>7, <1>10, <2>1
<1>12. ASSUME document = <<>> PROVE ChunkPages(document) = <<>>
  <2>1. Len(steps) = 0
    BY <1>1, <1>6, <1>12
  <2> QED BY <1>3, <1>4, <1>6, <2>1, FoldedNothing
<1> QED BY <1>11, <1>12

(* Splitting loses nothing of a page, for any text: the chunks have all of *)
(* its letters, each those of one stretch of the page, and none is longer  *)
(* than the limit and the overlap.                                         *)
THEOREM SplittingLosesNothing ==
  ASSUME NEW page \in Text
  PROVE  LET texts == ToSet(SplitText(Strip(page))) IN
         /\ LettersIn(page) = UNION {LettersIn(text) : text \in texts}
         /\ \A text \in texts :
              /\ \E i \in DOMAIN page : \E j \in i - 1..Len(page) : LettersIn(SubSeq(page, i, j)) = LettersIn(text)
              /\ Size(text) <= ChunkSize + ChunkOverlap
<1>1. PICK bare \in Text : bare = Strip(page) /\ LettersIn(bare) = LettersIn(page)
  BY StripKeeps
<1>2. PICK pieces : pieces = SplitText(bare) /\ Good(pieces, bare)
  BY SplitTextIsGood
<1>3. PICK texts : texts = ToSet(pieces)
  OBVIOUS
<1>4. /\ LettersIn(bare) = UNION {LettersIn(text) : text \in texts}
      /\ \A text \in texts : \E i, j \in 0..Len(bare) : LettersIn(text) = Between(bare, i, j)
  BY <1>2, <1>3, CoversAll DEF Good
<1>5. \A text \in texts : Size(text) <= ChunkSize + ChunkOverlap
  BY <1>2, <1>3 DEF Good, Bounded
<1>6. ASSUME NEW text \in texts
      PROVE  \E i \in DOMAIN page : \E j \in i - 1..Len(page) : LettersIn(SubSeq(page, i, j)) = LettersIn(text)
  <2>1. PICK N \in Nat : N = Len(page) /\ DOMAIN page = 1..N
    BY LenProperties DEF Text
  <2>2. CASE bare = <<>>
    <3>1. Blank(bare)
      BY <2>2 DEF Blank, ToSet
    <3>2. texts = {}
      BY <1>2, <1>3, <3>1 DEF SplitText, ToSet
    <3> QED BY <1>6, <3>2
  <2>3. CASE bare # <<>>
    <3>1. PICK a \in 1..N : \E b \in a..N : bare = SubSeq(page, a, b)
      BY <1>1, <2>1, <2>3, StripIs
    <3>2. PICK b \in a..N : bare = SubSeq(page, a, b)
      BY <3>1
    <3>3. /\ a \in Nat /\ b \in Nat /\ 1 <= a /\ a <= b + 1 /\ a <= b /\ b <= N
          /\ 1 \in 1..N /\ 0 \in 1 - 1..N
      BY <2>1, <3>1, <3>2
    <3>4. Len(bare) = b - a + 1
      BY <2>1, <3>2, <3>3, SubSeqProperties DEF Text
    <3>5. PICK i \in 0..Len(bare), j \in 0..Len(bare) : LettersIn(text) = Between(bare, i, j)
      BY <1>4, <1>6
    <3>6. PICK k \in Nat : k >= 1 /\ LettersIn(text) = Between(bare, k, j)
      <4>1. CASE i = 0
        <5>1. i \in Int /\ j \in Int /\ i <= 1
          BY <3>3, <3>4, <3>5, <4>1
        <5>2. Between(bare, i, j) = Between(bare, 1, j)
          BY <5>1, BetweenFront
        <5> QED BY <3>5, <5>2
      <4>2. CASE i # 0
        <5>1. i \in Nat /\ i >= 1
          BY <3>3, <3>4, <3>5, <4>2
        <5> QED BY <3>5, <5>1
      <4> QED BY <4>1, <4>2
    <3>7. CASE j < k
      <4>1. LettersIn(text) = {}
        <5>1. k \in Int /\ j \in Int
          BY <3>3, <3>4, <3>5, <3>6
        <5> QED BY <3>6, <3>7, <5>1, BetweenEmpty
      <4>2. SubSeq(page, 1, 0) = <<>>
        BY <2>1 DEF Text
      <4>3. LettersIn(SubSeq(page, 1, 0)) = {}
        BY <4>2 DEF LettersIn, ToSet
      <4> QED BY <2>1, <3>3, <4>1, <4>3
    <3>8. CASE ~(j < k)
      <4>1. PICK s \in 1..N, e \in 1..N : s = k + a - 1 /\ e = j + a - 1 /\ s <= e + 1
        <5>1. /\ k + a - 1 \in 1..N /\ j + a - 1 \in 1..N
              /\ k + a - 1 <= (j + a - 1) + 1
          BY <2>1, <3>3, <3>4, <3>5, <3>6, <3>8
        <5> QED BY <5>1
      <4>2. k \in Int /\ j \in Int /\ 1 <= k /\ j <= b - a + 1
        BY <3>3, <3>4, <3>5, <3>6
      <4>3. Between(bare, k, j) = Between(page, s, e)
        <5>1. Between(SubSeq(page, a, b), k, j) = Between(page, k + a - 1, j + a - 1)
          <6>1. b <= Len(page)
            BY <2>1, <3>3
          <6>2. \A x, y \in Int : 1 <= x /\ y <= b - a + 1
                  => Between(SubSeq(page, a, b), x, y) = Between(page, x + a - 1, y + a - 1)
            BY <3>3, <6>1, StretchPlaces
          <6> QED BY <4>2, <6>2
        <5> QED BY <3>2, <4>1, <5>1
      <4>4. s \in Nat /\ e \in Nat /\ 1 <= s /\ e <= N /\ e \in s - 1..N
        <5>1. s \in Nat /\ e \in Nat /\ e <= N /\ 1 <= s
          BY <2>1, <4>1
        <5> QED BY <2>1, <4>1, <5>1
      <4>5. LettersIn(SubSeq(page, s, e)) = Between(page, s, e)
        BY <2>1, <4>1, <4>4, LettersOfStretch
      <4> QED BY <2>1, <3>6, <4>1, <4>3, <4>4, <4>5
    <3> QED BY <3>7, <3>8, <3>4, <3>5, <3>6
  <2> QED BY <2>2, <2>3
<1> QED BY <1>1, <1>2, <1>3, <1>4, <1>5, <1>6
=============================================================================
