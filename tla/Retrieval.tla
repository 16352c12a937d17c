------------------------------ MODULE Retrieval ------------------------------
(***************************************************************************)
(* Searches of the knowledge base that run at the same time                *)
(* (retrieval/search/retriever.py, query_rewriter.py, vector_store.py,     *)
(* infra/search/hybrid_retriever.py): the question is rewritten, with a    *)
(* cache of rewritings that all searches share without a lock; every       *)
(* rewriting is searched by vector, the question by words; the hits are    *)
(* fused and quoted with what is around them.  Documents come and go       *)
(* meanwhile.                                                              *)
(*                                                                         *)
(* A cached rewriting is the list its search made, not a copy: who finds   *)
(* it in the cache puts the own question into that list.                   *)
(***************************************************************************)
EXTENDS Ranking

CONSTANTS
  Docs,
  Searches,         (* threads, one search each                            *)
  Queries,
  Normal,           (* a query with the standard terms put in: the key of  *)
                    (* its rewritings.  A term is part of what is put in   *)
                    (* for it, so that the key of a key is another one     *)
  Rewritings,       (* what the model may reply for a key                  *)
  CacheSize,
  Views,            (* sets of owners a search may see                     *)
  NotBuilt,
  Worlds            (* near and words: distance and word score of chunks   *)
                    (* for every query; which texts are alike; what the    *)
                    (* searches may ask, if anything, and who may ask it;  *)
                    (* whether queries are rewritten; the documents there  *)
                    (* are, and those that may come and go                 *)

ASSUME RetrievalAssumption ==
  /\ Queries # {}
  /\ \A q \in Queries : Normal[q] \in Queries
  /\ \A q \in Queries : \A reply \in Rewritings[q] : reply \in Seq(Queries)
  /\ CacheSize \in Nat \ {0}
  /\ \A S \in SUBSET Chunks : NotBuilt # S
  /\ \A w \in Worlds : w.rewrite \in BOOLEAN /\ w.library \cup w.moving \subseteq Docs
  /\ \A w \in Worlds : w.views \subseteq Views /\ w.asked \in [Searches -> SUBSET Queries]
  /\ \A w \in Worlds, q \in Queries, c \in Chunks : w.near[q][c] \in Int /\ w.words[q][c] \in Nat

VARIABLES
  world,
  docs,             (* documents that are in the collection                *)
  gone,             (* and those that were                                 *)
  index,            (* the chunks the word index has                       *)
  cache,            (* keys with the search whose list they name, oldest   *)
                    (* first                                               *)
  lists,            (* the list of queries each search made                *)
  stage, query, viewers,
  list,             (* the search whose list is used                       *)
  at,               (* the place in it                                     *)
  searched,         (* queries searched by vector                          *)
  found,            (* chunks these found, and how near                    *)
  hits,             (* hits that are not quoted yet                        *)
  passages

cacheVars == <<cache, lists, list>>
hitVars == <<at, searched, found, hits, passages>>
vars == <<world, docs, gone, index, cacheVars, stage, query, viewers, hitVars>>

Stages == {"idle", "look", "touch", "take", "ask", "put", "refresh", "store", "own", "search", "fuse",
           "quote", "done", "failed", "stopped"}
Store == {c \in Chunks : Info[c].doc \in docs}

TypeOK ==
  /\ docs \subseteq Docs /\ gone \subseteq Docs \ docs
  /\ index # NotBuilt => index \subseteq Chunks
  /\ cache \in Seq([key : Queries, list : Searches])
  /\ \A i, j \in DOMAIN cache : cache[i].key = cache[j].key => i = j
  /\ stage \in [Searches -> Stages]
  /\ \A t \in Searches :
       /\ lists[t] \in Seq(Queries) /\ list[t] \in Searches
       /\ at[t] \in 1..(Len(lists[list[t]]) + 1)
       /\ searched[t] \subseteq Queries
       /\ DOMAIN found[t] \subseteq Chunks
       /\ hits[t] \in Seq(Chunks)

Init ==
  /\ world \in Worlds
  /\ docs = world.library /\ gone = {}
  /\ index = NotBuilt
  /\ cache = <<>>
  /\ lists = [t \in Searches |-> <<>>]
  /\ stage = [t \in Searches |-> "idle"]
  /\ query = [t \in Searches |-> CHOOSE q \in Queries : TRUE]
  /\ viewers = [t \in Searches |-> {}]
  /\ list = [t \in Searches |-> t]
  /\ at = [t \in Searches |-> 1]
  /\ searched = [t \in Searches |-> {}]
  /\ found = [t \in Searches |-> <<>>]
  /\ hits = [t \in Searches |-> <<>>]
  /\ passages = [t \in Searches |-> <<>>]

-----------------------------------------------------------------------------
(* Documents                                                               *)

DocumentComes(d) ==
  /\ d \in world.moving \ (docs \cup gone)
  /\ docs' = docs \cup {d}
  /\ UNCHANGED <<world, gone, index, cacheVars, stage, query, viewers, hitVars>>

DocumentGoes(d) ==
  /\ d \in docs \cap world.moving
  /\ docs' = docs \ {d} /\ gone' = gone \cup {d}
  /\ UNCHANGED <<world, index, cacheVars, stage, query, viewers, hitVars>>

-----------------------------------------------------------------------------
(* Rewriting the question                                                  *)

Goto(t, s) == stage' = [stage EXCEPT ![t] = s]
Key(t) == Normal[query[t]]
Cached(key) == \E i \in DOMAIN cache : cache[i].key = key
PlaceOf(key) == CHOOSE i \in DOMAIN cache : cache[i].key = key
ToNewest(i) == Append(RemoveAt(cache, i), cache[i])
Has(t, s) == lists' = [lists EXCEPT ![t] = s] /\ list' = [list EXCEPT ![t] = t]

(* The caller gives the owners that may be seen; none is a mistake.        *)
Ask(t, q, view) ==
  /\ stage[t] = "idle" /\ q \in world.asked[t] /\ view \in world.views
  /\ query' = [query EXCEPT ![t] = q]
  /\ viewers' = [viewers EXCEPT ![t] = view]
  /\ IF world.rewrite THEN Goto(t, "look") /\ UNCHANGED <<lists, list>>
     ELSE Goto(t, "own") /\ Has(t, <<q>>)
  /\ UNCHANGED <<world, docs, gone, index, cache, hitVars>>

Look(t) ==
  /\ stage[t] = "look"
  /\ Goto(t, IF Cached(Key(t)) THEN "touch" ELSE "ask")
  /\ UNCHANGED <<world, docs, gone, index, cacheVars, query, viewers, hitVars>>

(* An entry that was evicted meanwhile is an error that nobody catches.    *)
Touch(t) ==
  /\ stage[t] = "touch"
  /\ IF Cached(Key(t)) THEN cache' = ToNewest(PlaceOf(Key(t))) /\ Goto(t, "take")
     ELSE UNCHANGED cache /\ Goto(t, "failed")
  /\ UNCHANGED <<world, docs, gone, index, lists, list, query, viewers, hitVars>>

Take(t) ==
  /\ stage[t] = "take"
  /\ IF Cached(Key(t)) THEN list' = [list EXCEPT ![t] = cache[PlaceOf(Key(t))].list] /\ Goto(t, "own")
     ELSE UNCHANGED list /\ Goto(t, "failed")
  /\ UNCHANGED <<world, docs, gone, index, cache, lists, query, viewers, hitVars>>

(* The question and up to three rewritings, its key if there are none.     *)
Rewritten(q, reply) ==
  LET key == Normal[q]
      valid == Without(reply, key)
  IN  Upto(<<q>> \o Without(IF valid = <<>> THEN <<key>> ELSE valid, q), 4)

Reply(t) ==
  /\ stage[t] = "ask"
  /\ \E reply \in Rewritings[Key(t)] : Has(t, Rewritten(query[t], reply))
  /\ Goto(t, "put")
  /\ UNCHANGED <<world, docs, gone, index, cache, query, viewers, hitVars>>

(* Any other error of the model: the question alone, and nothing cached.   *)
ReplyFails(t) ==
  /\ stage[t] = "ask"
  /\ Has(t, <<query[t]>>)
  /\ Goto(t, "own")
  /\ UNCHANGED <<world, docs, gone, index, cache, query, viewers, hitVars>>

(* A full cache loses its oldest entry, an entry that is there is touched. *)
Put(t) ==
  /\ stage[t] = "put"
  /\ IF Cached(Key(t)) THEN UNCHANGED cache /\ Goto(t, "refresh")
     ELSE cache' = (IF Len(cache) >= CacheSize THEN Tail(cache) ELSE cache) /\ Goto(t, "store")
  /\ UNCHANGED <<world, docs, gone, index, lists, list, query, viewers, hitVars>>

(* This error is caught like one of the model.                             *)
Refresh(t) ==
  /\ stage[t] = "refresh"
  /\ IF Cached(Key(t))
     THEN cache' = ToNewest(PlaceOf(Key(t))) /\ Goto(t, "store") /\ UNCHANGED <<lists, list>>
     ELSE Has(t, <<query[t]>>) /\ Goto(t, "own") /\ UNCHANGED cache
  /\ UNCHANGED <<world, docs, gone, index, query, viewers, hitVars>>

(* Faulty: as if no other search could have stored it meanwhile.           *)
StoreAgain(t) ==
  /\ stage[t] = "store"
  /\ cache' = Append(cache, [key |-> Key(t), list |-> t])
  /\ Goto(t, "own")
  /\ UNCHANGED <<world, docs, gone, index, lists, list, query, viewers, hitVars>>

StoreList(t) ==
  /\ stage[t] = "store"
  /\ cache' = IF Cached(Key(t)) THEN [cache EXCEPT ![PlaceOf(Key(t))].list = t]
              ELSE Append(cache, [key |-> Key(t), list |-> t])
  /\ Goto(t, "own")
  /\ UNCHANGED <<world, docs, gone, index, lists, list, query, viewers, hitVars>>

(* Faulty: the first of the rewritings is taken for the question.          *)
OwnIsFirst(t) ==
  /\ stage[t] = "own"
  /\ Goto(t, "search")
  /\ UNCHANGED <<world, docs, gone, index, cacheVars, query, viewers, hitVars>>

Own(t) ==
  /\ stage[t] = "own"
  /\ lists' = IF query[t] \in ToSet(lists[list[t]]) THEN lists
              ELSE [lists EXCEPT ![list[t]] = <<query[t]>> \o @]
  /\ Goto(t, "search")
  /\ UNCHANGED <<world, docs, gone, index, cache, list, query, viewers, hitVars>>

-----------------------------------------------------------------------------
(* Searching                                                               *)

VectorHits(t, q) == Nearest({c \in Store : Visible(c, viewers[t])}, world.near[q])

(* The list may grow at its beginning meanwhile.                           *)
Search(t) ==
  /\ stage[t] = "search"
  /\ at[t] <= Len(lists[list[t]])
  /\ LET q == lists[list[t]][at[t]]
         new == ToSet(VectorHits(t, q)) \ DOMAIN found[t]
     IN  /\ searched' = [searched EXCEPT ![t] = @ \cup {q}]
         /\ found' = [found EXCEPT ![t] =
              [c \in DOMAIN @ \cup new |-> IF c \in new THEN world.near[q][c] ELSE @[c]]]
  /\ at' = [at EXCEPT ![t] = @ + 1]
  /\ UNCHANGED <<world, docs, gone, index, cacheVars, stage, query, viewers, hits, passages>>

SearchEnds(t) ==
  /\ stage[t] = "search"
  /\ at[t] > Len(lists[list[t]])
  /\ Goto(t, "fuse")
  /\ UNCHANGED <<world, docs, gone, index, cacheVars, query, viewers, hitVars>>

(* The word index is built by the first search that finds a document, and  *)
(* not told of changes.                                                    *)
Words == IF index \in {NotBuilt, {}} THEN Store ELSE index
WordHits(t, words) == MostWords({c \in Words : Visible(c, viewers[t])}, words)
ByVector(t) == Ascending(DOMAIN found[t], found[t])

Fuse(t) ==
  /\ stage[t] = "fuse"
  /\ index' = Words
  /\ hits' = [hits EXCEPT ![t] =
       HitsOf(query[t], ByVector(t), WordHits(t, world.words[query[t]]), found[t], world.alike)]
  /\ Goto(t, "quote")
  /\ UNCHANGED <<world, docs, gone, cacheVars, query, viewers, at, searched, found, passages>>

-----------------------------------------------------------------------------
(* Quoting                                                                 *)

Used(t) ==
  LET takes(p) == IF p.kind = "alone" THEN 0 ELSE p.size
  IN  Total([i \in DOMAIN passages[t] |-> takes(passages[t][i])])
Left(t) == TotalMax - Used(t)

Quoted(t, c) ==
  \E p \in ToSet(passages[t]) : p.kind = "section" /\ SameSection(p.seed, c)

(* A section in the whole, or the neighbours, or the hit by itself if it   *)
(* has no place in its document or nothing is left of that.                *)
SectionPassage(t, c) ==
  LET texts == Pack(SectionChunks(Store, c), c, Min({SectionMax, Left(t)}))
  IN  IF texts = <<>> THEN <<>> ELSE <<Passage(c, "section", texts, Separated(texts, 2))>>
WindowPassage(t, c) ==
  LET texts == JoinWithin(InOrder(Neighbours(Store, c, viewers[t])), Left(t))
  IN  IF texts = <<>> THEN Passage(c, "alone", <<c>>, Info[c].size)
      ELSE Passage(c, "window", texts, Min({Separated(texts, 1), Left(t)}))

PassagesOf(t, c) ==
  IF Info[c].index < 0 THEN <<Passage(c, "alone", <<c>>, Info[c].size)>>
  ELSE IF query[t] \notin SectionQueries \/ Info[c].section = NoSection THEN <<WindowPassage(t, c)>>
  ELSE IF Quoted(t, c) THEN <<>>
  ELSE IF SectionPassage(t, c) = <<>> THEN <<WindowPassage(t, c)>> ELSE SectionPassage(t, c)

Quote(t) ==
  /\ stage[t] = "quote"
  /\ hits[t] # <<>> /\ Left(t) > 0
  /\ passages' = [passages EXCEPT ![t] = @ \o PassagesOf(t, Head(hits[t]))]
  /\ hits' = [hits EXCEPT ![t] = Tail(@)]
  /\ UNCHANGED <<world, docs, gone, index, cacheVars, stage, query, viewers, at, searched, found>>

QuoteEnds(t) ==
  /\ stage[t] = "quote"
  /\ hits[t] = <<>> \/ Left(t) <= 0
  /\ Goto(t, "done")
  /\ UNCHANGED <<world, docs, gone, index, cacheVars, query, viewers, hitVars>>

(* Whatever stops the run; and an error of the embedding or of the store.  *)
Stop(t) ==
  /\ stage[t] \in {"ask", "own", "search"}
  /\ Goto(t, "stopped")
  /\ UNCHANGED <<world, docs, gone, index, cacheVars, query, viewers, hitVars>>

Fail(t) ==
  /\ stage[t] \in {"search", "fuse"}
  /\ Goto(t, "failed")
  /\ UNCHANGED <<world, docs, gone, index, cacheVars, query, viewers, hitVars>>

-----------------------------------------------------------------------------
Step(t) ==
  \/ Look(t) \/ Touch(t) \/ Take(t) \/ Reply(t) \/ ReplyFails(t) \/ Put(t) \/ Refresh(t) \/ StoreList(t)
  \/ Own(t) \/ Search(t) \/ SearchEnds(t) \/ Fuse(t) \/ Quote(t) \/ QuoteEnds(t)

Next ==
  \/ \E d \in Docs : DocumentComes(d) \/ DocumentGoes(d)
  \/ \E t \in Searches :
       \/ \E q \in Queries, view \in Views : Ask(t, q, view)
       \/ Step(t)
       \/ Stop(t) \/ Fail(t)

Spec == Init /\ [][Next]_vars
=============================================================================
