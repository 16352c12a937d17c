------------------------- MODULE EvidenceProperties -------------------------
(* What makes the answers of the runtime trustworthy.                      *)
EXTENDS EvidenceQA

Answered == answer.end \in {"answered", "partially_answered"}

(* docs/guides/evidence-qa.md:11: only what was verified is shown.  Every  *)
(* claim of an answer was judged supported and cites what the answer       *)
(* lists; what it lists was collected by this run, and if it is of a       *)
(* document, that was attached and has the quoted text on that page.       *)
AnswerIsVerified ==
  Answered =>
    /\ answer.claims # {} /\ answer.claims \subseteq supported
    /\ \A c \in answer.claims : draft.cites[c] # {} /\ draft.context[c] \subseteq Messages
    /\ answer.sources = UNION {draft.cites[c] : c \in answer.claims}
    /\ answer.sources \subseteq evidence
    /\ \A c \in answer.sources : ~IsPublic(c) => c[1] \in attached /\ Inside(QuoteOf(c), PageOf(c))

(* No later check refuses what was verified: if a judge found a claim      *)
(* supported, the run that is done has an answer, whatever the model drew  *)
(* of it and whichever other claims were removed.                          *)
SupportedIsAnswered == stage = "done" /\ supported # {} => Answered

(* A chart shows what the model drew: every node, and an edge for each pair *)
(* that it joined.  A chart of the first version loses more without a word *)
(* (structured.py:438-471): the edges to nodes of whose claims none tells  *)
(* of a transition, and the nodes that have no edge then.  What is said of *)
(* such a chart is only that it loses nothing else.                        *)
Moving(ch) ==
  {a \in Arrows(ch) : \E c \in ToSet(NodeOf(ch, a[2]).claims) \cap ClaimIds : ClaimText[c].moves}
TrueTo(shown, ch) ==
  /\ Ids(shown) \subseteq Ids(ch) /\ Arrows(shown) \subseteq Arrows(ch)
  /\ IF Legacy(ch)
     THEN Moving(ch) \subseteq Arrows(shown) /\ \A a \in Moving(ch) : a[1] \in Ids(shown) /\ a[2] \in Ids(shown)
     ELSE Ids(ch) \subseteq Ids(shown) /\ Arrows(ch) \subseteq Arrows(shown)

(* An answer that is marked as complete has all claims of the draft, shows *)
(* the kind of presentation that was drawn, and a chart that is true to    *)
(* what was drawn, in that sense.                                          *)
CompleteAnswerIsWhole ==
  answer.end = "answered" =>
    /\ answer.claims = draft.claims
    /\ answer.shown.kind = drawn.kind
    /\ drawn.kind = "flowchart" => TrueTo(answer.shown.chart, drawn.chart)

(* A chart can be followed: from one node without incoming edges every     *)
(* other is reached, no path returns, it rests on claims of the answer and *)
(* the condition of an edge is what one of its claims says.  The exits of  *)
(* a node that has incoming edges all have a condition, and no two the     *)
(* same; of those of the first node only that no two have both the same    *)
(* target and the same condition: domain/qa.py:298-302 asks a start node   *)
(* for no more than an exit, so that these may have no condition at all.   *)
Sound(ch, claims) ==
  LET edges == ch.edges
      arrows == {<<e.from, e.to>> : e \in ToSet(edges)}
      roots == {id \in Ids(ch) : \A a \in arrows : a[2] # id}
      told(e) == \E c \in ToSet(e.claims) : SaysFolded(c, e.cond)
  IN  /\ \A a \in arrows : a[1] \in Ids(ch) /\ a[2] \in Ids(ch) /\ a[1] \notin Reach(arrows, a[2])
      /\ \E r \in roots : roots = {r} /\ Reach(arrows, r) = Ids(ch)
      /\ ClaimsOf(ch) \subseteq claims
      /\ \A i \in DOMAIN edges : edges[i].cond # NoCondition => told(edges[i])
      /\ \A i, j \in DOMAIN edges : i # j /\ edges[i].from = edges[j].from =>
           /\ <<edges[i].to, FoldOf[edges[i].cond]>> # <<edges[j].to, FoldOf[edges[j].cond]>>
           /\ edges[i].from \notin roots =>
                /\ edges[i].cond # NoCondition /\ edges[j].cond # NoCondition
                /\ FoldOf[edges[i].cond] # FoldOf[edges[j].cond]

(* What is shown of an answer rests on what was verified of it, also when  *)
(* parts were removed: a chart is sound, a table has every claim in a row. *)
ShownIsSound ==
  CASE answer.shown.kind = "text" -> TRUE
    [] answer.shown.kind = "table" -> UNION ToSet(answer.shown.rows) = answer.claims
    [] answer.shown.kind = "flowchart" -> Sound(answer.shown.chart, answer.claims)

-----------------------------------------------------------------------------
(* Chunks                                                                  *)

ChunksOn(v, p) == {chunks[v][i].text : i \in {k \in DOMAIN chunks[v] : chunks[v][k].page = p}}
(* Nothing of an indexed page is lost: each of its characters is in one of *)
(* its chunks, what a chunk has of the page follows one another there, and *)
(* a chunk exceeds the limit by no more than the overlap.                  *)
NothingIsLost ==
  \A v \in indexed : \A p \in DOMAIN pages[v] :
    LET page == pages[v][p] IN
    /\ LettersIn(page) = UNION {LettersIn(text) : text \in ChunksOn(v, p)}
    /\ \A text \in ChunksOn(v, p) :
         /\ LET letters == LettersIn(text) IN
            \E i \in DOMAIN page : \E j \in i - 1..Len(page) : LettersIn(SubSeq(page, i, j)) = letters
         /\ Size(text) <= ChunkSize + ChunkOverlap

-----------------------------------------------------------------------------
(* A claim of the code that it does not keep                               *)

(* infra/evidence/chunker.py:15: every chunk can be located on its page.   *)
(* What a search found of a document that was not deleted is therefore     *)
(* still there when it is read again.                                      *)
HitIsCitable ==
  stage \notin {"agent", "stopped"} =>
    \A c \in evidence \ unread : ~IsPublic(c) /\ c[1] \in artifacts => c \in sources
=============================================================================
