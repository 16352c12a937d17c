------------------------- MODULE KnowledgeProperties -------------------------
(* What makes the knowledge base correct.                                  *)
EXTENDS KnowledgeBase

Ready(d) == catalogue[d] = "ready"

(* A document that is listed as ready can be found in every store: no      *)
(* failure, disconnection or restart half-way through another upload makes *)
(* it lose a part.  Evidence and artifact go by version and stay unless a  *)
(* deletion names it; chunks go by name and stay unless a deletion of that *)
(* name was asked for.                                                     *)
ReadyIsComplete ==
  \A d \in Requests : Ready(d) =>
    /\ (\A h \in Requests : Deletes(h) => Document(h) # d) => d \in evidence /\ d \in artifacts
    /\ (\A h \in Requests : Deletes(h) => command[h].source # command[d].source)
         => ChunksOf(d) \in vectors

(* A deletion that found the document ready and that the runtime confirms  *)
(* leaves nothing of it, for ever.                                         *)
ConfirmedIsGone ==
  \A h \in Requests :
    Deletes(h) /\ seen[h] = "ready" /\ answer[h] = "deleted" =>
      /\ ChunksOf(Document(h)) \notin vectors
      /\ Document(h) \notin evidence
      /\ Document(h) \notin artifacts

(* retrieval/search/retriever.py:76: the BM25 index is lazily loaded and    *)
(* rebuilt whenever the vector store changes.  An index that is used as it *)
(* is (it is not dirty, and has chunks) has the chunks that are in Chroma, *)
(* but for those of an ingestion that has not ended.                       *)
IndexIsFresh ==
  ~dirty /\ ~building /\ index # {} =>
    \A c \in Chunk : (c \in index) # (c \in vectors) => \E h \in Requests : At(h, "added") /\ ChunksOf(h) = c

(* The upload of a client that stays is settled, if the control plane does *)
(* not restart: its row does not say "processing" for ever.                *)
UploadsSettle ==
  \A d \in Requests :
    catalogue[d] = "processing"
      ~> catalogue[d] # "processing" \/ d \in left \/ handler[d] = "lost"
=============================================================================
