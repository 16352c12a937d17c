------------------------- MODULE RetrievalProperties -------------------------
(* What a search of the knowledge base may return.                         *)
EXTENDS Retrieval

Searched(t) == stage[t] \in {"fuse", "quote", "done"}

(* The question itself is always searched (retriever.py:110), also if its  *)
(* rewritings come from the cache, and that list was made for a question   *)
(* in other words and is being extended by other searches.  What else is   *)
(* searched is the key of the question, another question with that key, or *)
(* a rewriting of the key, never what a question with another key left in  *)
(* the cache.  (The key of the key is another one, query_rewriter.py:41,   *)
(* 46 and 47: who asks the key in its words has other rewritings.)         *)
SearchesItsQuestion ==
  \A t \in Searches :
    /\ Searched(t) => query[t] \in searched[t]
    /\ \A q \in searched[t] :
         \/ q = Key(t) \/ Normal[q] = Key(t)
         \/ \E reply \in Rewritings[Key(t)] : q \in ToSet(reply)

(* A hit is not ranked after one that both rankings find worse: that is    *)
(* farther away, or not found by vector, and has fewer of the words.       *)
Outranks(t, d, c) ==
  /\ d \in DOMAIN found[t] \cap index
  /\ world.words[query[t]][d] > world.words[query[t]][c]
  /\ c \in DOMAIN found[t] => found[t][d] < found[t][c]
  /\ Info[c].low = Info[d].low
FusionRespectsBoth ==
  \A t \in Searches : \A i, j \in DOMAIN hits[t] : i < j => ~Outranks(t, hits[t][j], hits[t][i])

(* A section that is quoted in the place of a hit contains the hit, also   *)
(* if it had to be shortened because others used up what all hits share:   *)
(* the hit, or else what stands at its place in another document of the    *)
(* same name and owner, which shares the section.  And what is quoted      *)
(* together is at most longer than that limit by less than a chunk.        *)
SamePlace(c, d) == SameSection(c, d) /\ Info[c].index = Info[d].index
QuotedWithinBudget ==
  \A t \in Searches :
    /\ \A p \in ToSet(passages[t]) :
         p.kind = "section" /\ p.seed \in Store => \E c \in ToSet(p.texts) : SamePlace(c, p.seed)
    /\ Used(t) <= TotalMax \/ \E longest \in Chunks : Used(t) < TotalMax + Info[longest].size

(* Nothing is quoted of a document that the search may not see: neither    *)
(* from the word index, which has the chunks of everybody, nor around a    *)
(* hit, where documents of two owners have the same name.                  *)
VisibleOnly ==
  \A t \in Searches :
    /\ \A c \in ToSet(hits[t]) : Visible(c, viewers[t])
    /\ \A p \in ToSet(passages[t]) : \A c \in ToSet(p.texts) : Visible(c, viewers[t])
=============================================================================
