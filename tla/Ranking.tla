------------------------------- MODULE Ranking -------------------------------
(***************************************************************************)
(* How a search ranks the chunks of the knowledge base and what it quotes  *)
(* around them (retrieval/search/fusion.py, retriever.py, vector_store.py, *)
(* bm25_index.py, reranker.py).                                            *)
(*                                                                         *)
(* Chunks are numbers, in the order of the collection; ties of distance    *)
(* and of words are in that order.  Texts are their sizes.  Scores are     *)
(* fractions, compared exactly.  The cross encoder is left out.            *)
(***************************************************************************)
EXTENDS Lists

CONSTANTS
  Chunks,
  Info,             (* doc, index, section, size of a chunk, and whether   *)
                    (* it is of a template or has little to say            *)
  Owner,            (* the owner of a document                             *)
  Source,           (* and its name                                        *)
  NoSection,
  SectionQueries,   (* questions about a procedure                         *)
  TemplateQueries,  (* and about forms                                     *)
  TopK,             (* hits of a search                                    *)
  VectorCandidates, (* and of each ranking                                 *)
  WordCandidates,
  RrfK, VectorWeight, WordWeight,
  MaxDistance,
  Window, SectionMax, TotalMax

ASSUME RankingAssumption ==
  /\ Chunks \subseteq Nat /\ IsFiniteSet(Chunks)
  /\ \A c \in Chunks : Info[c].index \in Nat \cup {-1} /\ Info[c].size \in Nat \ {0}
  /\ {TopK, VectorCandidates, WordCandidates, SectionMax, TotalMax} \subseteq Nat \ {0}
  /\ {RrfK, VectorWeight, WordWeight, MaxDistance, Window} \subseteq Nat

OwnerOf(c) == Owner[Info[c].doc]
SourceOf(c) == Source[Info[c].doc]
Visible(c, viewers) == OwnerOf(c) \in viewers
SumOf(texts, each) == Total([i \in DOMAIN texts |-> Info[texts[i]].size + each])

Without(seq, x) == Only(seq, {i \in DOMAIN seq : seq[i] # x})

(* Of those that clash the first stays.                                    *)
KeepFirst(seq, clashes) ==
  LET keeps[i \in DOMAIN seq] == \A j \in 1..(i - 1) : keeps[j] => <<seq[j], seq[i]>> \notin clashes
  IN  Only(seq, {i \in DOMAIN seq : keeps[i]})

-----------------------------------------------------------------------------
(* Two rankings and their fusion                                           *)

Nearest(S, distance) == Upto(Ascending(S, distance), VectorCandidates)
MostWords(S, words) ==
  Upto(Ascending({c \in S : words[c] > 0}, [c \in S |-> -words[c]]), WordCandidates)

(* What a ranking gives a chunk.                                           *)
Share(ranking, weight, c) ==
  IF c \in ToSet(ranking) THEN [n |-> weight, d |-> RrfK + CHOOSE i \in DOMAIN ranking : ranking[i] = c]
  ELSE [n |-> 0, d |-> 1]
Plus(a, b) == [n |-> a.n * b.d + b.n * a.d, d |-> a.d * b.d]
Less(a, b) == a.n * b.d < b.n * a.d

(* Faulty: the second ranking replaces what the first gave.                *)
LastScore(byVector, byWords, c) ==
  IF c \in ToSet(byWords) THEN Share(byWords, WordWeight, c) ELSE Share(byVector, VectorWeight, c)

Score(byVector, byWords, c) == Plus(Share(byVector, VectorWeight, c), Share(byWords, WordWeight, c))

Fused(byVector, byWords) ==
  LET all == byVector \o Only(byWords, {i \in DOMAIN byWords : byWords[i] \notin ToSet(byVector)})
      score == [i \in DOMAIN all |-> Score(byVector, byWords, all[i])]
  IN  Picked(all, Listed([i \in DOMAIN all |->
        {j \in DOMAIN all : Less(score[i], score[j]) \/ (~Less(score[j], score[i]) /\ j <= i)}]))

-----------------------------------------------------------------------------
(* From the fusion to the hits                                             *)

(* Of texts that are alike the first stays.                                *)
Deduplicated(seq, alike) ==
  KeepFirst(seq, {pair \in Chunks \X Chunks : {pair[1], pair[2]} \in alike})

(* A chunk found by its words alone has no distance.                       *)
NearEnough(seq, distance) ==
  Only(seq, {i \in DOMAIN seq : seq[i] \notin DOMAIN distance \/ distance[seq[i]] <= MaxDistance})

PreferPrimary(q, seq) ==
  IF q \in TemplateQueries THEN seq
  ELSE Picked(seq, Ascending(DOMAIN seq, [i \in DOMAIN seq |-> IF Info[seq[i]].low THEN 1 ELSE 0]))

SameSection(c, d) ==
  /\ Info[c].section # NoSection
  /\ Info[c].section = Info[d].section /\ OwnerOf(c) = OwnerOf(d) /\ SourceOf(c) = SourceOf(d)
SelectTop(q, seq) ==
  LET clashes == {pair \in Chunks \X Chunks : SameSection(pair[1], pair[2])}
  IN  Upto(IF q \in SectionQueries THEN KeepFirst(seq, clashes) ELSE seq, TopK)

HitsOf(q, byVector, byWords, distance, alike) ==
  SelectTop(q, PreferPrimary(q, NearEnough(Deduplicated(Fused(byVector, byWords), alike), distance)))

-----------------------------------------------------------------------------
(* What is quoted                                                          *)

(* A hit with what was found around it: the texts, and their size.         *)
Passage(seed, kind, texts, size) == [seed |-> seed, kind |-> kind, texts |-> texts, size |-> size]
Separated(texts, width) == SumOf(texts, width) - width
InOrder(S) == Ascending(S, [c \in S |-> Info[c].index])

(* Faulty: from the beginning of the section on.                           *)
PackFromStart(section, seed, max) ==
  LET ordered == InOrder(section)
      fits == {n \in 0..Len(ordered) : SumOf(SubSeq(ordered, 1, n), 2) <= max}
  IN  SubSeq(ordered, 1, Max(fits))

(* A section that is too long keeps what is nearest to the hit, its first  *)
(* text whatever its size.                                                 *)
Pack(section, seed, max) ==
  LET near == [c \in section |->
        IF Info[c].index <= Info[seed].index THEN 2 * (Info[seed].index - Info[c].index)
        ELSE 2 * (Info[c].index - Info[seed].index) + 1]
      ranked == Ascending(section, near)
      used[n \in 0..Len(ranked)] ==
        IF n = 0 THEN 0
        ELSE LET more == used[n - 1] + Info[ranked[n]].size + (IF used[n - 1] = 0 THEN 0 ELSE 2)
             IN  IF used[n - 1] > 0 /\ (used[n - 1] >= max \/ more > max) THEN used[n - 1] ELSE more
  IN  IF SumOf(InOrder(section), 2) <= max THEN InOrder(section)
      ELSE InOrder({ranked[n] : n \in {m \in DOMAIN ranked : used[m] > used[m - 1]}})

(* Neighbours in order, while they fit; the first is cut if it does not.   *)
JoinWithin(texts, max) ==
  LET fits == {n \in 1..Len(texts) : Separated(SubSeq(texts, 1, n), 1) <= max}
  IN  Upto(texts, Max(fits \cup {1}))

SectionChunks(store, c) == {d \in store : SameSection(c, d)}

(* Faulty: whoever they belong to.                                         *)
NeighboursOfAll(store, c, viewers) ==
  {d \in store : /\ SourceOf(d) = SourceOf(c)
                 /\ Info[d].index \in Max({0, Info[c].index - Window})..(Info[c].index + Window)}

Neighbours(store, c, viewers) ==
  {d \in store : /\ SourceOf(d) = SourceOf(c)
                 /\ Info[d].index \in Max({0, Info[c].index - Window})..(Info[c].index + Window)
                 /\ Visible(d, viewers)}
=============================================================================
