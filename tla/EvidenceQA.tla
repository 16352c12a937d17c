----------------------------- MODULE EvidenceQA -----------------------------
(***************************************************************************)
(* From a question to a verified answer: the agent collects evidence with  *)
(* its tools (infra/agents/langchain_copilot.py); when it has ended, its   *)
(* sources are read again, the model drafts claims and a presentation, the *)
(* claims are screened and judged, and what is left is assembled           *)
(* (app/use_cases/evidence_qa.py, infra/qa/structured.py, domain/qa.py).   *)
(* Documents are chunked before and may be deleted at any time.            *)
(*                                                                         *)
(* A run answers one question.  What the models reply is any member of a   *)
(* set.  A stop of the run may come at any step; RunControl says when.     *)
(***************************************************************************)
EXTENDS Splitter, Flowchart, FiniteSetsExt

CONSTANTS
  Versions,         (* versions of the owner's documents                   *)
  Laws,             (* public sources: articles of law and web pages       *)
  Messages,         (* what the user said in the conversation              *)
  Forged,           (* an identifier the server never gave                 *)
  NoQuestion,
  Questions,
  Scenario,         (* what a question may meet: documents to upload, sets *)
                    (* of claims and presentations the model may make,     *)
                    (* whether the models cite all they have and no more,  *)
                    (* and a bound on tool calls                           *)
  MaxHits, MaxCites (* bounds on the hits of a search and on what a model  *)
                    (* cites for a claim                                   *)

Presentations == {"text", "table", "flowchart"}
IsPresentation(p) ==
  /\ p.kind \in Presentations
  /\ p.kind = "table" => p = [kind |-> "table", rows |-> p.rows] /\ IsList(p.rows)
  /\ p.kind = "flowchart" => p = [kind |-> "flowchart", chart |-> p.chart] /\ IsChart(p.chart)

ASSUME EvidenceAssumption ==
  /\ Forged \notin Laws \cup Messages
  /\ NoQuestion \notin Questions
  /\ \A q \in Questions : /\ \A v \in Versions : Scenario[q].library[v] \subseteq Seq(Text)
                          /\ Scenario[q].claims \subseteq (SUBSET ClaimIds) \ {{}}
                          /\ Scenario[q].careful \in BOOLEAN
                          /\ Scenario[q].calls \in Nat
                          /\ \A p \in Scenario[q].offers : IsPresentation(p)
  /\ MaxHits \in Nat
  /\ MaxCites \in Nat

VARIABLES
  pages,            (* the text of every version                           *)
  chunks,           (* its evidence chunks                                 *)
  indexed,          (* versions whose chunks are in the evidence index     *)
  artifacts,        (* versions with a parse artifact                      *)
  question,
  attached,         (* the versions the question was asked about           *)
  stage,
  calls,            (* tool calls so far                                   *)
  asks,             (* request_clarification was called                    *)
  evidence,         (* citations collected by the tools                    *)
  unread,           (* those that are not read again yet                   *)
  sources,          (* those that were, and are as they were               *)
  drawn,            (* what the model drew of the presentation in draft    *)
  draft,
  supported,        (* claims the judge found supported                    *)
  answer

docVars == <<pages, chunks, indexed, artifacts>>
toolVars == <<attached, calls, asks, evidence>>
vars == <<docVars, question, toolVars, stage, unread, sources, drawn, draft, supported, answer>>

Plain == [kind |-> "text"]
TableOf(rows) == [kind |-> "table", rows |-> rows]
FlowOf(ch) == [kind |-> "flowchart", chart |-> ch]
Unanswered(end) == [end |-> end, claims |-> {}, sources |-> {}, shown |-> Plain]

(* A citation is a public source or a chunk of a version.                  *)
ChunksIn(v) == {<<v, i>> : i \in DOMAIN chunks[v]}
DocCitations == UNION {ChunksIn(v) : v \in Versions}
IsPublic(c) == c \in Laws
PageOf(c) == pages[c[1]][chunks[c[1]][c[2]].page]
QuoteOf(c) == chunks[c[1]][c[2]].text

Stages ==
  {"agent", "read", "generate", "repair", "screen", "verify", "done", "failed", "stopped"}
Ends ==
  {"none", "answered", "partially_answered", "refused", "clarification", "no_evidence",
   "social", "blocked"}

TypeOK ==
  /\ indexed \in SUBSET Versions
  /\ artifacts \in SUBSET Versions
  /\ question \in Questions
  /\ attached \in SUBSET Versions
  /\ stage \in Stages
  /\ calls \in 0..Scenario[question].calls
  /\ asks \in BOOLEAN
  /\ evidence \in SUBSET (Laws \cup DocCitations)
  /\ unread \in SUBSET evidence
  /\ sources \in SUBSET evidence
  /\ draft.claims \in SUBSET ClaimIds
  /\ draft.partial \in BOOLEAN
  /\ supported \in SUBSET draft.claims
  /\ answer.end \in Ends

NoDraft ==
  [claims |-> {}, cites |-> [c \in ClaimIds |-> {}], context |-> [c \in ClaimIds |-> {}],
   partial |-> FALSE, shown |-> Plain]

Init ==
  /\ pages = [v \in Versions |-> <<>>]
  /\ chunks = [v \in Versions |-> <<>>]
  /\ indexed = {} /\ artifacts = {}
  /\ question \in Questions
  /\ attached = {}
  /\ stage = "agent"
  /\ calls = 0 /\ asks = FALSE
  /\ evidence = {} /\ unread = {} /\ sources = {}
  /\ drawn = Plain /\ draft = NoDraft /\ supported = {} /\ answer = Unanswered("none")

-----------------------------------------------------------------------------
(* Documents                                                               *)

(* A version is read once.  Chunks that are blank are refused; what was    *)
(* saved of the version before stays.                                      *)
Accepted(pieces) == pieces # <<>> /\ \A i \in DOMAIN pieces : ~Blank(pieces[i].text)

Ingest(v) ==
  /\ pages[v] = <<>>
  /\ calls = 0 /\ attached = {}
  /\ \E document \in Scenario[question].library[v] : \E pieces \in {ChunkPages(document)} :
       /\ pages' = [pages EXCEPT ![v] = document]
       /\ IF Accepted(pieces)
          THEN chunks' = [chunks EXCEPT ![v] = pieces] /\ indexed' = indexed \cup {v}
          ELSE UNCHANGED <<chunks, indexed>>
  /\ artifacts' = artifacts \cup {v}
  /\ UNCHANGED <<question, toolVars, stage, unread, sources, drawn, draft, supported, answer>>

(* A deletion takes the chunks first, then the artifact.                   *)
Unindex(v) ==
  /\ v \in indexed
  /\ indexed' = indexed \ {v}
  /\ UNCHANGED <<pages, chunks, artifacts, question, toolVars, stage, unread, sources, drawn, draft,
                 supported, answer>>

Unsave(v) ==
  /\ v \in artifacts \ indexed
  /\ artifacts' = artifacts \ {v}
  /\ UNCHANGED <<pages, chunks, indexed, question, toolVars, stage, unread, sources, drawn, draft,
                 supported, answer>>

-----------------------------------------------------------------------------
(* The agent's tools                                                       *)

Working == stage = "agent"
Call == calls < Scenario[question].calls /\ calls' = calls + 1
UpTo(n, S) == UNION {kSubset(k, S) : k \in 0..n}
Hits(S) == UpTo(MaxHits, S)

(* The question is asked about versions that can be found then.            *)
Attach ==
  /\ Working /\ calls = 0 /\ attached = {}
  /\ attached' \in (SUBSET indexed) \ {{}}
  /\ UNCHANGED <<docVars, question, calls, asks, evidence, stage, unread, sources, drawn, draft,
                 supported, answer>>

(* Found evidence of documents counts only if it is of the run's snapshot. *)
InSnapshot(c) == IsPublic(c) \/ c[1] \in attached

Collect(found) ==
  /\ Working
  /\ Call
  /\ evidence' = evidence \cup {c \in found : InSnapshot(c)}
  /\ UNCHANGED <<docVars, question, attached, asks, stage, unread, sources, drawn, draft,
                 supported, answer>>

SearchPublic == \E hits \in Hits(Laws) : Collect(hits)

(* A search of the documents looks at the rows of the attached versions.   *)
Searchable == UNION {ChunksIn(v) : v \in attached \cap indexed}
SearchDocuments == \E hits \in Hits(Searchable) : Collect(hits)

(* With fields the server knows; the last such call counts.                *)
RequestClarification ==
  /\ Working
  /\ Call
  /\ asks' \in BOOLEAN
  /\ UNCHANGED <<docVars, question, attached, evidence, stage, unread, sources, drawn, draft,
                 supported, answer>>

-----------------------------------------------------------------------------
(* The end of a run                                                        *)

Goto(s) == stage' = s
Finish(a) == Goto("done") /\ answer' = a

(* What a run without evidence says.                                       *)
FinalizeWithout ==
  /\ Working
  /\ evidence = {}
  /\ \E end \in IF asks THEN {"clarification"}
                ELSE IF calls > 0 THEN {"no_evidence"} ELSE {"social", "blocked"} :
       Finish(Unanswered(end))
  /\ UNCHANGED <<docVars, question, toolVars, unread, sources, drawn, draft, supported>>

(* Faulty: everything the question was asked about is read.                *)
FinalizeAll ==
  /\ Working
  /\ evidence # {}
  /\ unread' = UNION {ChunksIn(v) : v \in attached}
  /\ Goto("read")
  /\ UNCHANGED <<docVars, question, toolVars, sources, drawn, draft, supported, answer>>

Finalize ==
  /\ Working
  /\ evidence # {}
  /\ unread' = evidence
  /\ Goto("read")
  /\ UNCHANGED <<docVars, question, toolVars, sources, drawn, draft, supported, answer>>

(* Faulty: the text is not compared.                                       *)
ArtifactExists(c) == IsPublic(c) \/ c[1] \in artifacts

(* Public sources are not read again.                                      *)
StillThere(c) == IsPublic(c) \/ (c[1] \in artifacts /\ Inside(QuoteOf(c), PageOf(c)))

ReadSource(c) ==
  /\ stage = "read"
  /\ c \in unread
  /\ unread' = unread \ {c}
  /\ sources' = IF StillThere(c) THEN sources \cup {c} ELSE sources
  /\ UNCHANGED <<docVars, question, toolVars, stage, drawn, draft, supported, answer>>

SourcesRead ==
  /\ stage = "read"
  /\ unread = {}
  /\ IF sources = {} THEN Finish(Unanswered("refused")) ELSE Goto("generate") /\ UNCHANGED answer
  /\ UNCHANGED <<docVars, question, toolVars, unread, sources, drawn, draft, supported>>

(* A reply that is no valid JSON, breaks a rule or reports a timeout, and  *)
(* a refusal of the model itself.                                          *)
Refuse ==
  /\ stage \in {"generate", "verify"}
  /\ Finish(Unanswered("refused"))
  /\ UNCHANGED <<docVars, question, toolVars, unread, sources, drawn, draft, supported>>

(* Any other exception ends the run as failed, even that of the repair.    *)
Fail ==
  /\ stage \in {"generate", "repair", "verify"}
  /\ Goto("failed")
  /\ UNCHANGED <<docVars, question, toolVars, unread, sources, drawn, draft, supported, answer>>

(* A cancellation, a deadline or a used-up budget.                         *)
Stop ==
  /\ stage \in {"agent", "read", "generate", "repair", "verify"}
  /\ Goto("stopped")
  /\ UNCHANGED <<docVars, question, toolVars, unread, sources, drawn, draft, supported, answer>>

-----------------------------------------------------------------------------
(* Drafting                                                                *)

ValidTable(rows, claims) ==
  /\ Len(rows) \in 1..20
  /\ \A i \in DOMAIN rows : rows[i] # {} /\ rows[i] \subseteq claims
  /\ UNION ToSet(rows) = claims

ValidPresentation(p, claims) ==
  CASE p.kind = "text" -> TRUE
    [] p.kind = "table" -> ValidTable(p.rows, claims)
    [] p.kind = "flowchart" -> ValidChart(p.chart, claims)

(* The presentation as it is shown, and whether it makes the draft partial. *)
AsShown(p, shaped) ==
  IF p.kind = "flowchart" THEN [shown |-> FlowOf(Upgraded(shaped.chart)), partial |-> shaped.partial]
  ELSE [shown |-> p, partial |-> FALSE]

(* The claims a model may make, with what it cites for each.               *)
Given(S, given) == [c \in ClaimIds |-> IF c \in S THEN given[c] ELSE {}]
Drafts ==
  LET s == Scenario[question]
      cites(S) == [S -> IF s.careful THEN {sources} ELSE UpTo(MaxCites, evidence \cup {Forged})]
      context(S) == [S -> IF s.careful THEN {{}} ELSE UpTo(1, Messages \cup {Forged})]
  IN  UNION {{[claims |-> S, cites |-> Given(S, f), context |-> Given(S, g), partial |-> partial,
               shown |-> Plain] : f \in cites(S), g \in context(S), partial \in {FALSE, ~s.careful}} :
             S \in s.claims}

(* A draft whose presentation is not valid is tried without it; only the   *)
(* presentation is then asked for again.                                   *)
Generate ==
  /\ stage = "generate"
  /\ \E d \in Drafts, p \in Scenario[question].offers : \E made \in {AsShown(p, Prepared(p.chart))} :
       IF ValidPresentation(made.shown, d.claims)
       THEN /\ draft' = [d EXCEPT !.partial = @ \/ made.partial, !.shown = made.shown]
            /\ drawn' = p
            /\ Goto("screen")
       ELSE /\ draft' = [d EXCEPT !.partial = @ \/ made.partial]
            /\ drawn' = Plain
            /\ Goto("repair")
  /\ UNCHANGED <<docVars, question, toolVars, unread, sources, supported, answer>>

(* A second failure, or an error of the call, leaves plain text.           *)
Repair ==
  /\ stage = "repair"
  /\ \E p \in Scenario[question].offers : \E made \in {AsShown(p, PreparedRepair(p.chart))} :
       IF ValidPresentation(made.shown, draft.claims)
       THEN /\ draft' = [draft EXCEPT !.partial = @ \/ made.partial, !.shown = made.shown]
            /\ drawn' = p
       ELSE UNCHANGED <<draft, drawn>>
  /\ Goto("screen")
  /\ UNCHANGED <<docVars, question, toolVars, unread, sources, supported, answer>>

-----------------------------------------------------------------------------
(* Screening, judging, assembling                                          *)

Screened ==
  {c \in draft.claims : /\ draft.cites[c] # {} /\ draft.cites[c] \subseteq sources
                        /\ draft.context[c] \subseteq Messages}

CitedBy(claims) == UNION {draft.cites[c] : c \in claims}

Screen ==
  /\ stage = "screen"
  /\ IF Screened = {} THEN Finish(Unanswered("refused")) ELSE Goto("verify") /\ UNCHANGED answer
  /\ UNCHANGED <<docVars, question, toolVars, unread, sources, drawn, draft, supported>>

(* A judgement of every screened claim: whether it is supported, by what.  *)
Judgement(ok, used) == [supported |-> ok, used |-> used]
Judgements ==
  IF Scenario[question].careful
  THEN {[c \in Screened |-> Judgement(c \in S, draft.cites[c])] : S \in SUBSET Screened}
  ELSE [Screened -> [supported : BOOLEAN, used : UpTo(MaxCites, CitedBy(Screened) \cup {Forged})]]

(* Judges say what supports a claim, cite what they were given, and do not *)
(* widen the claim.                                                        *)
ValidJudgement(r) == r.supported => r.used # {}
WithinScope(c, r) ==
  /\ r.used \subseteq CitedBy(Screened)
  /\ r.supported => r.used \subseteq draft.cites[c]
ContractValid(j) == \A c \in Screened : ValidJudgement(j[c]) /\ WithinScope(c, j[c])
Supported(j) == {c \in Screened : j[c].supported}

(* Claims were removed from the draft.                                     *)
Repaired(claims) == claims # draft.claims

(* The presentation without the elements that rest on a removed claim, or  *)
(* plain text if what is left is not valid.                                *)
Kept(p, claims) ==
  LET rest == CASE p.kind = "text" -> p
                [] p.kind = "table" -> TableOf(Only(p.rows, {i \in DOMAIN p.rows : p.rows[i] \subseteq claims}))
                [] p.kind = "flowchart" -> FlowOf(LeftOf(p.chart, claims))
  IN  IF ValidPresentation(rest, claims) THEN rest ELSE Plain

(* Faulty: the presentation is kept as it was drafted.                     *)
AssembledAsDrafted(claims) ==
  [end |-> IF draft.partial \/ Repaired(claims) THEN "partially_answered" ELSE "answered",
   claims |-> claims, sources |-> CitedBy(claims), shown |-> draft.shown]

Assembled(claims) ==
  [end |-> IF draft.partial \/ Repaired(claims) THEN "partially_answered" ELSE "answered",
   claims |-> claims, sources |-> CitedBy(claims), shown |-> Kept(draft.shown, claims)]

Covered(claims, known) == \A c \in claims : draft.cites[c] # {} /\ draft.cites[c] \subseteq known

(* The model of an answer raises otherwise.                                *)
ValidAnswer(a) ==
  /\ a.claims # {}
  /\ Covered(a.claims, a.sources)
  /\ Repaired(a.claims) => a.end = "partially_answered"
  /\ ValidPresentation(a.shown, a.claims)

Verify(j) ==
  /\ stage = "verify"
  /\ IF ContractValid(j)
     THEN /\ supported' = Supported(j)
          /\ \E a \in {Assembled(supported')} : Finish(IF ValidAnswer(a) THEN a ELSE Unanswered("refused"))
     ELSE Finish(Unanswered("refused")) /\ UNCHANGED supported
  /\ UNCHANGED <<docVars, question, toolVars, unread, sources, drawn, draft>>

-----------------------------------------------------------------------------
Ended == stage \in {"done", "failed", "stopped"}

Next ==
  \/ \E v \in Versions :
       \/ Ingest(v)
       \/ Unindex(v)
       \/ Unsave(v)
  \/ Attach \/ SearchPublic \/ SearchDocuments \/ RequestClarification
  \/ FinalizeWithout \/ Finalize \/ SourcesRead \/ Refuse \/ Fail \/ Stop
  \/ \E c \in unread : ReadSource(c)
  \/ Generate \/ Repair \/ Screen
  \/ stage = "verify" /\ \E j \in Judgements : Verify(j)
  \/ Ended /\ UNCHANGED vars

Spec == Init /\ [][Next]_vars
=============================================================================
