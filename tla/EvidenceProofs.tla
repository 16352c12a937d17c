---------------------------- MODULE EvidenceProofs ----------------------------
(***************************************************************************)
(* What an answer says was verified, for any documents, claims, charts and *)
(* replies of the models, and whatever is deleted meanwhile.  Two facts    *)
(* carry this.  Documents are read before the first tool call, so that     *)
(* nobody changes the text that a citation points at; and a run walks      *)
(* through its stages once, so that what a stage has read, drafted or      *)
(* judged is still what the next one works on.                             *)
(*                                                                         *)
(* The steps that shape and trim a chart are followed for completeness     *)
(* only: what they drop makes a list shorter, which marks the answer       *)
(* partial.  What is shown is what the last check lets through, so that it *)
(* is the conditions of that check that make a chart one that can be       *)
(* followed.  How texts are split matters for the chunks alone, and is     *)
(* taken from SplitterProofs.                                              *)
(***************************************************************************)
EXTENDS EvidenceProperties, SplitterProofs

Shapes ==
  /\ question \in Questions
  /\ indexed \subseteq Versions /\ artifacts \subseteq Versions /\ attached \subseteq Versions
  /\ stage \in Stages
  /\ calls \in 0..Scenario[question].calls
  /\ asks \in BOOLEAN
  /\ answer.end \in Ends

(* Nothing was collected before the first call, and nothing is read,       *)
(* drafted, judged or answered before its stage.                           *)
Before ==
  /\ calls = 0 => evidence = {}
  /\ stage = "agent" => unread = {} /\ sources = {}
  /\ stage \in {"agent", "read", "generate", "repair", "screen", "verify"} => supported = {}
  /\ stage # "done" => answer = Unanswered("none")

(* What was collected is of this run, and what was read again was there.   *)
Collected ==
  /\ evidence \subseteq Laws \cup DocCitations
  /\ \A c \in evidence : InSnapshot(c)
  /\ unread \subseteq evidence /\ sources \subseteq evidence
  /\ \A c \in sources : ~IsPublic(c) => Inside(QuoteOf(c), PageOf(c))

(* A judge supports only claims that were screened.                        *)
Drafted ==
  /\ draft = [claims |-> draft.claims, cites |-> draft.cites, context |-> draft.context,
              partial |-> draft.partial, shown |-> draft.shown]
  /\ draft.claims \subseteq ClaimIds
  /\ draft.partial \in BOOLEAN
  /\ supported \subseteq Screened

(* An answer has the supported claims, and there is one if there are any.  *)
Settled ==
  stage = "done" =>
    /\ Answered => /\ supported # {} /\ answer.claims = supported
                   /\ answer.sources = CitedBy(supported)
    /\ supported # {} => Answered

Inv == Shapes /\ Before /\ Collected /\ Drafted /\ Settled

-----------------------------------------------------------------------------
LEMMA UpToInside ==
  ASSUME NEW n, NEW S, NEW X \in UpTo(n, S)
  PROVE  X \subseteq S
  BY DEF UpTo, kSubset

LEMMA UnansweredIsNone ==
  ASSUME NEW end \in {"none", "refused", "clarification", "no_evidence", "social", "blocked"}
  PROVE  /\ Unanswered(end).end = end /\ end \in Ends
         /\ end \notin {"answered", "partially_answered"}
  BY DEF Unanswered, Ends

(* Documents that nobody reads or deletes leave a citation what it was.    *)
LEMMA CitationsKept ==
  ASSUME UNCHANGED <<pages, chunks>>
  PROVE  /\ DocCitations' = DocCitations
         /\ \A c : QuoteOf(c)' = QuoteOf(c) /\ PageOf(c)' = PageOf(c)
  BY DEF DocCitations, ChunksIn, QuoteOf, PageOf

(* The steps that only move a run, or nothing of it.                       *)
LEMMA CollectedKept ==
  ASSUME Collected, UNCHANGED <<pages, chunks, attached, evidence, sources>>, unread' \subseteq evidence
  PROVE  Collected'
  BY CitationsKept DEF Collected, InSnapshot, IsPublic

LEMMA DraftedKept ==
  ASSUME Drafted, UNCHANGED <<draft, sources, supported>>
  PROVE  Drafted'
  BY DEF Drafted, Screened

(* Before there is an answer, everything but the documents may change.     *)
LEMMA SettledOpen ==
  ASSUME stage' # "done"
  PROVE  Settled'
  BY DEF Settled

(* A run that is done without an answer, and had no claim judged.          *)
LEMMA SettledWithout ==
  ASSUME supported' = {}, NEW end \in {"none", "refused", "clarification", "no_evidence", "social", "blocked"},
         answer' = Unanswered(end)
  PROVE  Settled'
  BY UnansweredIsNone DEF Settled, Answered
-----------------------------------------------------------------------------
LEMMA InvInit == Init => Inv
<1>1. ASSUME Init PROVE Shapes
  <2>1. calls = 0 /\ question \in Questions /\ Scenario[question].calls \in Nat
    BY <1>1, EvidenceAssumption DEF Init
  <2>2. calls \in 0..Scenario[question].calls
    BY <2>1
  <2> QED BY <1>1, <2>1, <2>2 DEF Init, Shapes, Stages, Ends, Unanswered
<1>2. ASSUME Init PROVE Before /\ Collected /\ Drafted /\ Settled
  BY <1>2 DEF Init, Before, Collected, Drafted, Settled, NoDraft
<1> QED BY <1>1, <1>2 DEF Inv

(* Whoever reads a document finds that nothing was collected yet.          *)
LEMMA InvIngest ==
  ASSUME Inv, NEW v \in Versions, Ingest(v)
  PROVE  Inv'
<1>1. /\ calls = 0
      /\ indexed' \subseteq indexed \cup {v} /\ artifacts' = artifacts \cup {v}
      /\ UNCHANGED <<question, toolVars, stage, unread, sources, drawn, draft, supported, answer>>
  BY DEF Ingest
<1>2. evidence = {} /\ sources = {} /\ unread = {}
  BY <1>1 DEF Inv, Before, Collected
<1>3. Shapes' /\ Before'
  BY <1>1 DEF Inv, Shapes, Before, toolVars
<1>4. Collected'
  BY <1>1, <1>2 DEF Collected, toolVars
<1>5. Drafted' /\ Settled'
  BY <1>1 DEF Inv, Drafted, Settled, Screened, Answered, CitedBy
<1> QED BY <1>3, <1>4, <1>5 DEF Inv

LEMMA InvDelete ==
  ASSUME Inv, NEW v \in Versions, Unindex(v) \/ Unsave(v)
  PROVE  Inv'
<1>1. /\ indexed' \subseteq indexed /\ artifacts' \subseteq artifacts
      /\ UNCHANGED <<pages, chunks, question, toolVars, stage, unread, sources, drawn, draft, supported, answer>>
  BY DEF Unindex, Unsave
<1>2. Shapes' /\ Before'
  BY <1>1 DEF Inv, Shapes, Before, toolVars
<1>3. Collected'
  BY <1>1, CollectedKept DEF Inv, Collected, toolVars
<1>4. Drafted' /\ Settled'
  BY <1>1, DraftedKept DEF Inv, Settled, Answered, CitedBy
<1> QED BY <1>2, <1>3, <1>4 DEF Inv

(* The steps of the agent's own stage.                                     *)
LEMMA InvAttach ==
  ASSUME Inv, Attach
  PROVE  Inv'
<1>1. /\ stage = "agent" /\ calls = 0 /\ attached' \subseteq indexed
      /\ UNCHANGED <<docVars, question, calls, asks, evidence, stage, unread, sources, drawn, draft,
                     supported, answer>>
  BY DEF Attach, Working
<1>2. evidence = {} /\ sources = {} /\ unread = {}
  BY <1>1 DEF Inv, Before
<1>3. Shapes' /\ Before'
  BY <1>1 DEF Inv, Shapes, Before, docVars
<1>4. Collected'
  BY <1>1, <1>2 DEF Collected
<1>5. Drafted' /\ Settled'
  BY <1>1, DraftedKept DEF Inv, Settled
<1> QED BY <1>3, <1>4, <1>5 DEF Inv

LEMMA CallCounts ==
  ASSUME Inv, Call
  PROVE  calls' \in 0..Scenario[question].calls /\ calls' # 0
  BY EvidenceAssumption DEF Inv, Shapes, Call

(* Of what a tool found, the run keeps what is of its snapshot.            *)
LEMMA InvCollect ==
  ASSUME Inv, NEW found, found \subseteq Laws \cup DocCitations, Collect(found)
  PROVE  Inv'
<1>1. /\ stage = "agent" /\ Call
      /\ evidence' = evidence \cup {c \in found : InSnapshot(c)}
      /\ UNCHANGED <<docVars, question, attached, asks, stage, unread, sources, drawn, draft,
                     supported, answer>>
  BY DEF Collect, Working
<1>2. unread = {} /\ sources = {}
  BY <1>1 DEF Inv, Before
<1>3. Shapes' /\ Before'
  BY <1>1, CallCounts DEF Inv, Shapes, Before, docVars
<1>4. DocCitations' = DocCitations
  BY <1>1, CitationsKept DEF docVars
<1>5. Collected'
  BY <1>1, <1>2, <1>4 DEF Inv, Collected, InSnapshot, IsPublic
<1>6. Drafted' /\ Settled'
  BY <1>1, DraftedKept DEF Inv, Settled
<1> QED BY <1>3, <1>5, <1>6 DEF Inv

LEMMA InvSearch ==
  ASSUME Inv, SearchPublic \/ SearchDocuments
  PROVE  Inv'
<1>1. CASE SearchPublic
  <2>1. PICK hits \in Hits(Laws) : Collect(hits)
    BY <1>1 DEF SearchPublic
  <2>2. hits \subseteq Laws
    BY UpToInside DEF Hits
  <2> QED BY <2>1, <2>2, InvCollect
<1>2. CASE SearchDocuments
  <2>1. PICK hits \in Hits(Searchable) : Collect(hits)
    BY <1>2 DEF SearchDocuments
  <2>2. hits \subseteq Searchable
    BY UpToInside DEF Hits
  <2>3. hits \subseteq DocCitations
    BY <2>2 DEF Searchable, DocCitations, Inv, Shapes
  <2> QED BY <2>1, <2>3, InvCollect
<1> QED BY <1>1, <1>2

LEMMA InvClarify ==
  ASSUME Inv, RequestClarification
  PROVE  Inv'
<1>1. /\ stage = "agent" /\ Call /\ asks' \in BOOLEAN
      /\ UNCHANGED <<docVars, question, attached, evidence, stage, unread, sources, drawn, draft,
                     supported, answer>>
  BY DEF RequestClarification, Working
<1>2. Shapes' /\ Before'
  BY <1>1, CallCounts DEF Inv, Shapes, Before, docVars
<1>3. Collected'
  BY <1>1, CollectedKept DEF Inv, Collected, docVars
<1>4. Drafted' /\ Settled'
  BY <1>1, DraftedKept DEF Inv, Settled
<1> QED BY <1>2, <1>3, <1>4 DEF Inv
-----------------------------------------------------------------------------
(* A step that leaves documents, evidence and drafts alone and does not    *)
(* answer: it goes on, ends without an answer, or does neither.            *)
LEMMA InvMoves ==
  ASSUME Inv, stage # "done", supported = {},
         UNCHANGED <<docVars, question, toolVars, draft, supported, sources>>,
         unread' \subseteq evidence,
         \/ stage' \in Stages \ {"agent", "done"} /\ answer' = answer
         \/ stage' = "done" /\ \E end \in Ends \ {"answered", "partially_answered"} : answer' = Unanswered(end)
  PROVE  Inv'
<1>1. answer'.end \in Ends /\ ~Answered'
  BY DEF Inv, Shapes, Before, Answered, Unanswered, Ends
<1>2. Shapes'
  BY <1>1 DEF Inv, Shapes, docVars, toolVars, Stages
<1>3. Before'
  BY DEF Inv, Before, toolVars
<1>4. Collected'
  BY CollectedKept DEF Inv, docVars, toolVars
<1>5. Drafted'
  BY DraftedKept DEF Inv
<1>6. Settled'
  BY <1>1 DEF Settled
<1> QED BY <1>2, <1>3, <1>4, <1>5, <1>6 DEF Inv

LEMMA InvFinalize ==
  ASSUME Inv, FinalizeWithout \/ Finalize
  PROVE  Inv'
<1>1. stage = "agent" /\ supported = {} /\ unread = {}
  BY DEF Inv, Before, FinalizeWithout, Finalize, Working
<1>2. CASE FinalizeWithout
  <2>1. PICK end \in Ends \ {"answered", "partially_answered"} : Finish(Unanswered(end))
    BY <1>2 DEF FinalizeWithout, Ends
  <2>2. stage' = "done" /\ answer' = Unanswered(end)
    BY <2>1 DEF Finish, Goto
  <2>3. unread' \subseteq evidence /\ UNCHANGED <<docVars, question, toolVars, draft, supported, sources>>
    BY <1>1, <1>2 DEF FinalizeWithout
  <2> QED BY <1>1, <2>2, <2>3, InvMoves
<1>3. CASE Finalize
  <2>1. stage' \in Stages \ {"agent", "done"} /\ answer' = answer /\ unread' \subseteq evidence
    BY <1>3 DEF Finalize, Goto, Stages
  <2> QED BY <1>1, <1>3, <2>1, InvMoves DEF Finalize
<1> QED BY <1>2, <1>3

(* A source counts if it is still there now.  Nobody can change it later.  *)
LEMMA InvReadSource ==
  ASSUME Inv, NEW c \in unread, ReadSource(c)
  PROVE  Inv'
<1>1. /\ stage = "read" /\ unread' = unread \ {c}
      /\ sources' = IF StillThere(c) THEN sources \cup {c} ELSE sources
      /\ UNCHANGED <<docVars, question, toolVars, stage, drawn, draft, supported, answer>>
  BY DEF ReadSource
<1>2. supported = {}
  BY <1>1 DEF Inv, Before
<1>3. Shapes' /\ Before'
  BY <1>1 DEF Inv, Shapes, Before, docVars, toolVars
<1>4. DocCitations' = DocCitations /\ \A d : QuoteOf(d)' = QuoteOf(d) /\ PageOf(d)' = PageOf(d)
  BY <1>1, CitationsKept DEF docVars
<1>5. \A d \in sources' : ~IsPublic(d) => Inside(QuoteOf(d), PageOf(d))
  BY <1>1 DEF Inv, Collected, StillThere, IsPublic
<1>6. \A d \in sources' : ~IsPublic(d)' => Inside(QuoteOf(d)', PageOf(d)')
  BY <1>4, <1>5 DEF IsPublic
<1>7. Collected'
  <2>1. (\A d \in evidence : InSnapshot(d))' /\ (evidence \subseteq Laws \cup DocCitations)'
    BY <1>1, <1>4 DEF Inv, Collected, InSnapshot, IsPublic, toolVars
  <2>2. (unread \subseteq evidence)' /\ (sources \subseteq evidence)'
    BY <1>1 DEF Inv, Collected, toolVars
  <2>3. (\A d \in sources : ~IsPublic(d) => Inside(QuoteOf(d), PageOf(d)))'
    BY <1>6
  <2> QED BY <2>1, <2>2, <2>3 DEF Collected
<1>8. Drafted' /\ Settled'
  BY <1>1, <1>2 DEF Inv, Drafted, Settled
<1> QED BY <1>3, <1>7, <1>8 DEF Inv

LEMMA InvSourcesRead ==
  ASSUME Inv, SourcesRead
  PROVE  Inv'
<1>1. /\ stage = "read" /\ supported = {} /\ unread' \subseteq evidence
      /\ UNCHANGED <<docVars, question, toolVars, draft, supported, sources>>
  BY DEF SourcesRead, Inv, Before, Collected
<1>2. \/ stage' \in Stages \ {"agent", "done"} /\ answer' = answer
      \/ stage' = "done" /\ answer' = Unanswered("refused")
  BY DEF SourcesRead, Finish, Goto, Stages
<1>3. "refused" \in Ends \ {"answered", "partially_answered"}
  BY DEF Ends
<1> QED BY <1>1, <1>2, <1>3, InvMoves

LEMMA InvRefuseFailStop ==
  ASSUME Inv, Refuse \/ Fail \/ Stop
  PROVE  Inv'
<1>1. /\ stage \in {"agent", "read", "generate", "repair", "verify"} /\ supported = {}
      /\ unread' \subseteq evidence
      /\ UNCHANGED <<docVars, question, toolVars, draft, supported, sources>>
  BY DEF Refuse, Fail, Stop, Inv, Before, Collected
<1>2. \/ stage' \in Stages \ {"agent", "done"} /\ answer' = answer
      \/ stage' = "done" /\ answer' = Unanswered("refused")
  BY DEF Refuse, Fail, Stop, Finish, Goto, Stages
<1>3. "refused" \in Ends \ {"answered", "partially_answered"}
  BY DEF Ends
<1> QED BY <1>1, <1>2, <1>3, InvMoves

-----------------------------------------------------------------------------
(* What the model drafts has claims of the scenario.                       *)
LEMMA DraftsTyped ==
  ASSUME question \in Questions, NEW d \in Drafts
  PROVE  /\ d.claims \subseteq ClaimIds /\ d.partial \in BOOLEAN
         /\ d = [claims |-> d.claims, cites |-> d.cites, context |-> d.context,
                 partial |-> d.partial, shown |-> d.shown]
         /\ d.shown = Plain
<1> DEFINE careful == Scenario[question].careful
<1> DEFINE made(S, f, g, partial) ==
      [claims |-> S, cites |-> Given(S, f), context |-> Given(S, g), partial |-> partial, shown |-> Plain]
<1>0. PICK S \in Scenario[question].claims :
        \E f, g : \E partial \in {FALSE, ~careful} : d = made(S, f, g, partial)
  BY DEF Drafts
<1>1. PICK f, g : \E partial \in {FALSE, ~careful} : d = made(S, f, g, partial)
  BY <1>0
<1>3. PICK partial \in {FALSE, ~careful} : d = made(S, f, g, partial)
  BY <1>1
<1>2. S \subseteq ClaimIds
  BY EvidenceAssumption
<1> QED BY <1>2, <1>3

(* Drafting does not touch what was read and judges nothing.               *)
LEMMA InvDrafts ==
  ASSUME Inv, stage \in {"generate", "repair"}, stage' \in {"repair", "screen"},
         draft' = [claims |-> draft'.claims, cites |-> draft'.cites, context |-> draft'.context,
                   partial |-> draft'.partial, shown |-> draft'.shown],
         draft'.claims \subseteq ClaimIds, draft'.partial \in BOOLEAN,
         UNCHANGED <<docVars, question, toolVars, unread, sources, supported, answer>>
  PROVE  Inv'
<1>1. supported = {}
  BY DEF Inv, Before
<1>2. Shapes' /\ Before'
  BY <1>1 DEF Inv, Shapes, Before, Stages, docVars, toolVars
<1>3. Collected'
  BY CollectedKept DEF Inv, Collected, docVars, toolVars
<1>4. Drafted' /\ Settled'
  BY <1>1 DEF Drafted, Settled
<1> QED BY <1>2, <1>3, <1>4 DEF Inv

LEMMA InvGenerate ==
  ASSUME Inv, Generate
  PROVE  Inv'
<1>1. PICK d, p, made :
        /\ d \in Drafts
        /\ IF ValidPresentation(made.shown, d.claims)
           THEN /\ draft' = [d EXCEPT !.partial = @ \/ made.partial, !.shown = made.shown]
                /\ drawn' = p
                /\ Goto("screen")
           ELSE /\ draft' = [d EXCEPT !.partial = @ \/ made.partial]
                /\ drawn' = Plain
                /\ Goto("repair")
  BY DEF Generate
<1>2. d.claims \subseteq ClaimIds
      /\ d = [claims |-> d.claims, cites |-> d.cites, context |-> d.context,
              partial |-> d.partial, shown |-> d.shown]
  BY <1>1, DraftsTyped DEF Inv, Shapes
<1>3. /\ draft' = [claims |-> draft'.claims, cites |-> draft'.cites, context |-> draft'.context,
                partial |-> draft'.partial, shown |-> draft'.shown]
      /\ draft'.claims = d.claims /\ draft'.partial \in BOOLEAN /\ stage' \in {"repair", "screen"}
  BY <1>1, <1>2 DEF Goto
<1> QED BY <1>2, <1>3, InvDrafts DEF Generate

LEMMA InvRepair ==
  ASSUME Inv, Repair
  PROVE  Inv'
<1>1. PICK p, made :
        IF ValidPresentation(made.shown, draft.claims)
        THEN draft' = [draft EXCEPT !.partial = @ \/ made.partial, !.shown = made.shown]
        ELSE draft' = draft
  BY DEF Repair
<1>2. /\ draft' = [claims |-> draft'.claims, cites |-> draft'.cites, context |-> draft'.context,
                partial |-> draft'.partial, shown |-> draft'.shown]
      /\ draft'.claims = draft.claims /\ draft'.partial \in BOOLEAN
  BY <1>1 DEF Inv, Drafted
<1>3. stage = "repair" /\ stage' = "screen" /\ draft.claims \subseteq ClaimIds
  BY DEF Repair, Goto, Inv, Drafted
<1> QED BY <1>2, <1>3, InvDrafts DEF Repair

LEMMA InvScreen ==
  ASSUME Inv, Screen
  PROVE  Inv'
<1>1. /\ stage = "screen" /\ supported = {} /\ unread' \subseteq evidence
      /\ UNCHANGED <<docVars, question, toolVars, draft, supported, sources>>
  BY DEF Screen, Inv, Before, Collected
<1>2. \/ stage' \in Stages \ {"agent", "done"} /\ answer' = answer
      \/ stage' = "done" /\ answer' = Unanswered("refused")
  BY DEF Screen, Finish, Goto, Stages
<1>3. "refused" \in Ends \ {"answered", "partially_answered"}
  BY DEF Ends
<1> QED BY <1>1, <1>2, <1>3, InvMoves

(* What is left of a presentation is valid for what is left of the claims. *)
LEMMA KeptIsValid ==
  ASSUME NEW p, NEW claims
  PROVE  ValidPresentation(Kept(p, claims), claims)
<1>1. ValidPresentation(Plain, claims)
  BY DEF ValidPresentation, Plain
<1> QED BY <1>1 DEF Kept

(* No later check refuses an answer that has a claim.                      *)
LEMMA AssembledIsValid ==
  ASSUME NEW claims \in SUBSET Screened, claims # {}
  PROVE  ValidAnswer(Assembled(claims))
<1> DEFINE a == Assembled(claims)
<1>1. /\ a.claims = claims /\ a.sources = CitedBy(claims) /\ a.shown = Kept(draft.shown, claims)
      /\ Repaired(claims) => a.end = "partially_answered"
  BY DEF Assembled
<1>2. ValidPresentation(a.shown, a.claims)
  BY <1>1, KeptIsValid
<1>3. Covered(claims, CitedBy(claims))
  BY DEF Covered, Screened, CitedBy
<1> QED BY <1>1, <1>2, <1>3 DEF ValidAnswer

LEMMA InvVerify ==
  ASSUME Inv, NEW j, Verify(j)
  PROVE  Inv'
<1>1. /\ stage = "verify" /\ supported = {} /\ stage' = "done"
      /\ UNCHANGED <<docVars, question, toolVars, unread, sources, drawn, draft>>
  BY DEF Verify, Finish, Goto, Inv, Before
<1>2. /\ Collected' /\ Screened' = Screened /\ CitedBy(supported)' = CitedBy(supported')
  BY <1>1, CollectedKept DEF Inv, Collected, docVars, toolVars, Screened, CitedBy
<1>3. CASE ContractValid(j)
  <2>1. PICK claims \in SUBSET Screened : claims = Supported(j)
    BY DEF Supported
  <2>2. /\ supported' = claims
        /\ answer' = IF ValidAnswer(Assembled(claims)) THEN Assembled(claims) ELSE Unanswered("refused")
    BY <1>3, <2>1 DEF Verify, Finish
  <2>3. CASE claims = {}
    <3>1. answer' = Unanswered("refused")
      BY <2>2, <2>3 DEF ValidAnswer, Assembled
    <3>2. answer'.end \in Ends /\ ~Answered'
      BY <3>1 DEF Answered, Unanswered, Ends
    <3>3. Settled'
      BY <2>2, <2>3, <3>2 DEF Settled
    <3>4. Shapes' /\ Before'
      BY <1>1, <3>2 DEF Inv, Shapes, Before, Stages, docVars, toolVars
    <3>5. Drafted'
      BY <1>1, <1>2, <2>2 DEF Inv, Drafted
    <3> QED BY <1>2, <3>3, <3>4, <3>5 DEF Inv
  <2>4. CASE claims # {}
    <3>1. answer' = Assembled(claims)
      BY <2>2, <2>4, AssembledIsValid
    <3>2. /\ answer'.end \in Ends /\ Answered'
          /\ answer'.claims = claims /\ answer'.sources = CitedBy(claims)
      BY <3>1 DEF Assembled, Answered, Ends
    <3>3. Settled'
      BY <1>2, <2>2, <2>4, <3>2 DEF Settled
    <3>4. Shapes' /\ Before'
      BY <1>1, <3>2 DEF Inv, Shapes, Before, Stages, docVars, toolVars
    <3>5. Drafted'
      BY <1>1, <1>2, <2>2 DEF Inv, Drafted
    <3> QED BY <1>2, <3>3, <3>4, <3>5 DEF Inv
  <2> QED BY <2>3, <2>4
<1>4. CASE ~ContractValid(j)
  <2>1. answer' = Unanswered("refused") /\ supported' = {}
    BY <1>1, <1>4 DEF Verify, Finish
  <2>2. answer'.end \in Ends /\ ~Answered'
    BY <2>1 DEF Answered, Unanswered, Ends
  <2>3. Settled' /\ Drafted'
    BY <1>1, <2>1, <2>2 DEF Inv, Drafted, Settled
  <2>4. Shapes' /\ Before'
    BY <1>1, <2>1, <2>2 DEF Inv, Shapes, Before, Stages, docVars, toolVars
  <2> QED BY <1>2, <2>3, <2>4 DEF Inv
<1> QED BY <1>3, <1>4

LEMMA InvNext == Inv /\ [Next]_vars => Inv'
<1> SUFFICES ASSUME Inv, [Next]_vars PROVE Inv'
  OBVIOUS
<1>1. ASSUME NEW v \in Versions, Ingest(v) \/ Unindex(v) \/ Unsave(v) PROVE Inv'
  BY <1>1, InvIngest, InvDelete
<1>2. CASE Attach \/ SearchPublic \/ SearchDocuments \/ RequestClarification
  BY <1>2, InvAttach, InvSearch, InvClarify
<1>3. CASE FinalizeWithout \/ Finalize \/ SourcesRead \/ Refuse \/ Fail \/ Stop
  BY <1>3, InvFinalize, InvSourcesRead, InvRefuseFailStop
<1>4. ASSUME NEW c \in unread, ReadSource(c) PROVE Inv'
  BY <1>4, InvReadSource
<1>5. CASE Generate \/ Repair \/ Screen
  BY <1>5, InvGenerate, InvRepair, InvScreen
<1>6. ASSUME NEW j \in Judgements, Verify(j) PROVE Inv'
  BY <1>6, InvVerify
<1>7. CASE UNCHANGED vars
  <2>1. UNCHANGED <<pages, chunks, indexed, artifacts, question, attached, calls, asks, evidence, stage,
                    unread, sources, drawn, draft, supported, answer>>
    BY <1>7 DEF vars, docVars, toolVars
  <2>2. Shapes' /\ Before'
    BY <2>1 DEF Inv, Shapes, Before
  <2>3. Collected' /\ Drafted' /\ Settled'
    BY <2>1, CollectedKept, DraftedKept DEF Inv, Collected, Settled, Answered, CitedBy
  <2> QED BY <2>2, <2>3 DEF Inv
<1> QED BY <1>1, <1>2, <1>3, <1>4, <1>5, <1>6, <1>7 DEF Next

(* Type correctness of evidence QA.                                        *)
THEOREM EvidenceTypeCorrect == Spec => []TypeOK
<1>1. Init => Inv
  BY InvInit
<1>2. Inv /\ [Next]_vars => Inv'
  BY InvNext
<1>3. Inv => TypeOK
  BY DEF Inv, Shapes, Collected, Drafted, Screened, TypeOK
<1> QED BY <1>1, <1>2, <1>3, PTL DEF Spec

(* Only what was verified is shown: every claim of an answer was judged    *)
(* supported, and what it rests on was collected by this run and, if it is *)
(* of a document, stands in what the question was asked about.             *)
THEOREM AnswersAreVerified == Spec => []AnswerIsVerified
<1>1. Init => Inv
  BY InvInit
<1>2. Inv /\ [Next]_vars => Inv'
  BY InvNext
<1>3. ASSUME Inv, Answered PROVE AnswerIsVerified
  <2>1. stage = "done"
    BY <1>3 DEF Inv, Before, Answered, Unanswered
  <2>2. /\ supported # {} /\ answer.claims = supported /\ answer.sources = CitedBy(supported)
        /\ supported \subseteq Screened
    BY <1>3, <2>1 DEF Inv, Settled, Drafted
  <2>3. CitedBy(supported) \subseteq sources
    BY <2>2 DEF CitedBy, Screened
  <2>4. \A c \in answer.claims : draft.cites[c] # {} /\ draft.context[c] \subseteq Messages
    BY <2>2 DEF Screened
  <2>5. answer.sources = UNION {draft.cites[c] : c \in answer.claims}
    BY <2>2 DEF CitedBy
  <2>6. \A c \in sources : c \in evidence /\ InSnapshot(c) /\ (~IsPublic(c) => Inside(QuoteOf(c), PageOf(c)))
    BY <1>3 DEF Inv, Collected
  <2>7. \A c \in answer.sources :
          c \in evidence /\ (~IsPublic(c) => c[1] \in attached /\ Inside(QuoteOf(c), PageOf(c)))
    BY <2>2, <2>3, <2>6 DEF InSnapshot
  <2> QED BY <2>2, <2>4, <2>5, <2>7 DEF AnswerIsVerified
<1>4. Inv => AnswerIsVerified
  BY <1>3 DEF AnswerIsVerified
<1> QED BY <1>1, <1>2, <1>4, PTL DEF Spec

(* A claim that a judge found supported is never lost to a later check:    *)
(* whatever is left of a presentation is valid for it.                     *)
THEOREM SupportedClaimsAreAnswered == Spec => []SupportedIsAnswered
<1>1. Init => Inv
  BY InvInit
<1>2. Inv /\ [Next]_vars => Inv'
  BY InvNext
<1>3. Inv => SupportedIsAnswered
  BY DEF Inv, Settled, SupportedIsAnswered
<1> QED BY <1>1, <1>2, <1>3, PTL DEF Spec

-----------------------------------------------------------------------------
(* Charts that may be drawn                                                *)

(* Two edges that leave a node are counted twice.                          *)
LEMMA IndexesFinite ==
  ASSUME NEW ch, WellFormed(ch), NEW id
  PROVE  /\ IsFiniteSet(Leaving(ch, id)) /\ IsFiniteSet(Entering(ch, id))
         /\ Cardinality(Leaving(ch, id)) \in Nat /\ Cardinality(Entering(ch, id)) \in Nat
<1>1. DOMAIN ch.edges = 1..Len(ch.edges) /\ Len(ch.edges) \in Int
  BY DEF WellFormed, IsList
<1>2. IsFiniteSet(DOMAIN ch.edges)
  BY <1>1, FS_Interval
<1>3. IsFiniteSet(Leaving(ch, id)) /\ IsFiniteSet(Entering(ch, id))
  BY <1>2, FS_Subset DEF Leaving, Entering
<1> QED BY <1>3, FS_CardinalityType

LEMMA TwoCount ==
  ASSUME NEW S, IsFiniteSet(S), NEW i \in S, NEW j \in S, i # j
  PROVE  Cardinality(S) >= 2
<1>1. IsFiniteSet({i}) /\ Cardinality({i}) = 1 /\ j \notin {i}
  BY FS_Singleton
<1>2. IsFiniteSet({i} \cup {j}) /\ Cardinality({i} \cup {j}) = 2
  <2>1. /\ IsFiniteSet({i} \cup {j})
        /\ Cardinality({i} \cup {j}) = IF j \in {i} THEN Cardinality({i}) ELSE Cardinality({i}) + 1
    BY <1>1, FS_AddElement
  <2> QED BY <1>1, <2>1
<1>3. {i} \cup {j} \subseteq S
  OBVIOUS
<1>4. Cardinality({i} \cup {j}) <= Cardinality(S) /\ Cardinality(S) \in Nat
  BY <1>3, FS_Subset, FS_CardinalityType
<1> QED BY <1>2, <1>4

(* All edges of a chart that may be drawn are arrows of it.                *)
LEMMA AllAreArrows ==
  ASSUME NEW ch, WellFormed(ch)
  PROVE  /\ Arrows(ch) = {<<e.from, e.to>> : e \in ToSet(ch.edges)}
         /\ \A a \in Arrows(ch) : a[1] \in Ids(ch) /\ a[2] \in Ids(ch)
<1>1. \A e \in ToSet(ch.edges) : Known(ch, e)
  BY DEF WellFormed
<1> QED BY <1>1 DEF Arrows, Known

(* A node of the kind "start" has no incoming edges.                       *)
LEMMA StartIsRoot ==
  ASSUME NEW ch, WellFormed(ch), NEW n \in ToSet(ch.nodes), n.kind = "start", KindFits(ch, n)
  PROVE  n.id \in Ids(ch) /\ \A a \in Arrows(ch) : a[2] # n.id
<1>1. Cardinality(Entering(ch, n.id)) = 0
  BY DEF KindFits
<1>2. Entering(ch, n.id) = {}
  BY <1>1, IndexesFinite, FS_EmptySet
<1>3. \A e \in ToSet(ch.edges) : e.to # n.id
  BY <1>2 DEF Entering, ToSet
<1>4. n.id \in Ids(ch)
  BY DEF Ids, ToSet
<1> QED BY <1>3, <1>4 DEF Arrows

(* What is reached from a node and is not that node has an incoming arrow. *)
LEMMA ReachedIsEntered ==
  ASSUME NEW arrows, NEW id, NEW x \in Reach(arrows, id), x # id
  PROVE  \E a \in arrows : a[2] = x
<1> DEFINE ahead == {id} \cup {a[2] : a \in arrows}
<1>1. SUFFICES ASSUME \A a \in arrows : a[2] # x PROVE FALSE
  OBVIOUS
<1>2. Closed(ahead \ {x}, arrows) /\ id \in ahead \ {x}
  BY <1>1 DEF Closed
<1>3. x \in ahead \ {x}
  BY <1>2 DEF Reach
<1> QED BY <1>3

(* Of two edges that leave a node other than the root, both have a         *)
(* condition, and not the same.                                            *)
LEMMA ExitsApart ==
  ASSUME NEW ch, NEW claims, ValidChart(ch, claims),
         NEW i \in DOMAIN ch.edges, NEW j \in DOMAIN ch.edges, i # j,
         ch.edges[i].from = ch.edges[j].from,
         \E a \in Arrows(ch) : a[2] = ch.edges[i].from
  PROVE  /\ ch.edges[i].cond # NoCondition /\ ch.edges[j].cond # NoCondition
         /\ FoldOf[ch.edges[i].cond] # FoldOf[ch.edges[j].cond]
<1>1. WellFormed(ch) /\ \A n \in ToSet(ch.nodes) : KindFits(ch, n)
  BY DEF ValidChart, Drawable
<1>2. PICK from : from = ch.edges[i].from /\ from = ch.edges[j].from
  OBVIOUS
<1>3. i \in Leaving(ch, from) /\ j \in Leaving(ch, from)
  BY <1>2 DEF Leaving
<1>4. Cardinality(Leaving(ch, from)) >= 2 /\ Cardinality(Leaving(ch, from)) \in Nat
  BY <1>1, <1>3, TwoCount, IndexesFinite
<1>5. from \in Ids(ch)
  BY <1>1, <1>2 DEF WellFormed, Known, ToSet
<1>6. PICK n \in ToSet(ch.nodes) : n.id = from
  BY <1>5 DEF Ids, ToSet
<1>7. n.kind \in Kinds /\ n.kind # "start"
  BY <1>1, <1>2, <1>6, StartIsRoot DEF WellFormed
<1>8. ExitsDiffer(ch, from)
  <2>1. KindFits(ch, n)
    BY <1>1
  <2>2. /\ n.kind = "action" => Cardinality(Leaving(ch, n.id)) <= 1
        /\ n.kind = "merge" => Cardinality(Leaving(ch, n.id)) <= 1
        /\ n.kind = "terminal" => Cardinality(Leaving(ch, n.id)) = 0
    BY <2>1, Zenon DEF KindFits
  <2>3. n.kind # "action" /\ n.kind # "merge" /\ n.kind # "terminal"
    BY <1>4, <1>6, <2>2
  <2> QED BY <1>6, <1>7, <2>1, <2>3 DEF KindFits, Kinds
<1> QED BY <1>3, <1>8 DEF ExitsDiffer

(* The checks of a chart make it one that can be followed.                 *)
LEMMA ValidIsSound ==
  ASSUME NEW ch, NEW claims, ValidChart(ch, claims)
  PROVE  Sound(ch, claims)
<1> DEFINE arrows == {<<e.from, e.to>> : e \in ToSet(ch.edges)}
<1> DEFINE roots == {id \in Ids(ch) : \A a \in arrows : a[2] # id}
<1>1. WellFormed(ch) /\ Acyclic(ch) /\ \A n \in ToSet(ch.nodes) : KindFits(ch, n)
  BY DEF ValidChart, Drawable
<1>2. Arrows(ch) = arrows /\ \A a \in arrows : a[1] \in Ids(ch) /\ a[2] \in Ids(ch)
  BY <1>1, AllAreArrows
<1>3. \A a \in arrows : a[1] \notin Reach(arrows, a[2])
  BY <1>1, <1>2 DEF Acyclic
<1>4. NodesOfKind(ch, "start") # {}
  BY FS_EmptySet DEF ValidChart, Drawable
<1>5. PICK n \in ToSet(ch.nodes) : n.kind = "start" /\ n \in NodesOfKind(ch, "start")
  BY <1>4 DEF NodesOfKind
<1>6. n.id \in roots
  BY <1>1, <1>2, <1>5, StartIsRoot
<1>7. Ids(ch) = Reach(arrows, n.id)
  BY <1>2, <1>5 DEF ValidChart, Drawable
<1>8. roots = {n.id}
  <2>1. ASSUME NEW id \in roots, id # n.id PROVE FALSE
    BY <1>7, <2>1, ReachedIsEntered
  <2> QED BY <1>6, <2>1
<1>9. \E r \in roots : roots = {r} /\ Reach(arrows, r) = Ids(ch)
  BY <1>6, <1>7, <1>8
<1>10. ClaimsOf(ch) \subseteq claims
  BY DEF ValidChart, RestsOn
<1>11. \A i \in DOMAIN ch.edges : ch.edges[i].cond # NoCondition =>
         \E c \in ToSet(ch.edges[i].claims) : SaysFolded(c, ch.edges[i].cond)
  BY DEF ValidChart, RestsOn, ToSet
<1>12. ASSUME NEW i \in DOMAIN ch.edges, NEW j \in DOMAIN ch.edges, i # j, ch.edges[i].from = ch.edges[j].from
       PROVE  /\ <<ch.edges[i].to, FoldOf[ch.edges[i].cond]>> # <<ch.edges[j].to, FoldOf[ch.edges[j].cond]>>
              /\ ch.edges[i].from \notin roots =>
                   /\ ch.edges[i].cond # NoCondition /\ ch.edges[j].cond # NoCondition
                   /\ FoldOf[ch.edges[i].cond] # FoldOf[ch.edges[j].cond]
  <2>1. FoldedKey(ch.edges[i]) # FoldedKey(ch.edges[j])
    BY <1>1, <1>12 DEF WellFormed
  <2>2. <<ch.edges[i].to, FoldOf[ch.edges[i].cond]>> # <<ch.edges[j].to, FoldOf[ch.edges[j].cond]>>
    BY <1>12, <2>1 DEF FoldedKey
  <2>3. ASSUME ch.edges[i].from \notin roots
        PROVE  /\ ch.edges[i].cond # NoCondition /\ ch.edges[j].cond # NoCondition
               /\ FoldOf[ch.edges[i].cond] # FoldOf[ch.edges[j].cond]
    <3>1. ch.edges[i].from \in Ids(ch)
      BY <1>1 DEF WellFormed, Known, ToSet
    <3>2. \E a \in Arrows(ch) : a[2] = ch.edges[i].from
      BY <1>2, <2>3, <3>1
    <3> QED BY <1>12, <3>2, ExitsApart
  <2> QED BY <2>2, <2>3
<1> HIDE DEF arrows, roots
<1>13. Sound(ch, claims) <=>
         /\ \A a \in arrows : a[1] \in Ids(ch) /\ a[2] \in Ids(ch) /\ a[1] \notin Reach(arrows, a[2])
         /\ \E r \in roots : roots = {r} /\ Reach(arrows, r) = Ids(ch)
         /\ ClaimsOf(ch) \subseteq claims
         /\ \A i \in DOMAIN ch.edges : ch.edges[i].cond # NoCondition =>
              \E c \in ToSet(ch.edges[i].claims) : SaysFolded(c, ch.edges[i].cond)
         /\ \A i, j \in DOMAIN ch.edges : i # j /\ ch.edges[i].from = ch.edges[j].from =>
              /\ <<ch.edges[i].to, FoldOf[ch.edges[i].cond]>> # <<ch.edges[j].to, FoldOf[ch.edges[j].cond]>>
              /\ ch.edges[i].from \notin roots =>
                   /\ ch.edges[i].cond # NoCondition /\ ch.edges[j].cond # NoCondition
                   /\ FoldOf[ch.edges[i].cond] # FoldOf[ch.edges[j].cond]
  BY DEF Sound, arrows, roots
<1> QED BY <1>2, <1>3, <1>9, <1>10, <1>11, <1>12, <1>13

-----------------------------------------------------------------------------
(* What is shown of an answer                                              *)

(* What is drafted is of a known kind, and what is shown of an answer is   *)
(* valid for its claims; plain text always is.                             *)
ShownValid ==
  /\ draft.shown.kind \in Presentations
  /\ answer.shown.kind \in Presentations
  /\ ValidPresentation(answer.shown, answer.claims)

LEMMA UnansweredIsPlain ==
  ASSUME NEW end
  PROVE  LET a == Unanswered(end) IN a.shown.kind \in Presentations /\ ValidPresentation(a.shown, a.claims)
<1>1. Unanswered(end).shown = Plain /\ Plain.kind = "text" /\ "text" \in Presentations
  BY DEF Unanswered, Plain, Presentations
<1>2. ValidPresentation(Plain, Unanswered(end).claims)
  BY <1>1, Zenon DEF ValidPresentation
<1> QED BY <1>1, <1>2

LEMMA AsShownKind ==
  ASSUME NEW p, p.kind \in Presentations, NEW shaped
  PROVE  AsShown(p, shaped).shown.kind \in Presentations
  BY DEF AsShown, FlowOf, Presentations

(* Of what is drafted, what is left keeps its kind or is plain text.       *)
LEMMA KeptKind ==
  ASSUME NEW p, p.kind \in Presentations, NEW claims
  PROVE  Kept(p, claims).kind \in Presentations
<1> DEFINE rest == CASE p.kind = "text" -> p
                     [] p.kind = "table" -> TableOf(Only(p.rows, {i \in DOMAIN p.rows : p.rows[i] \subseteq claims}))
                     [] p.kind = "flowchart" -> FlowOf(LeftOf(p.chart, claims))
<1>1. p.kind = "text" => rest = p
  BY Zenon
<1>2. p.kind = "table" => rest = TableOf(Only(p.rows, {i \in DOMAIN p.rows : p.rows[i] \subseteq claims}))
  BY Zenon
<1>3. p.kind = "flowchart" => rest = FlowOf(LeftOf(p.chart, claims))
  BY Zenon
<1>4. rest.kind \in Presentations
  <2> HIDE DEF rest
  <2> QED BY <1>1, <1>2, <1>3 DEF TableOf, FlowOf, Presentations
<1>5. Kept(p, claims) = rest \/ Kept(p, claims) = Plain
  BY Zenon DEF Kept
<1> HIDE DEF rest
<1> QED BY <1>4, <1>5 DEF Plain, Presentations

LEMMA ShownInit == Init => ShownValid
<1> SUFFICES ASSUME Init PROVE ShownValid
  OBVIOUS
<1>1. draft.shown = Plain /\ answer = Unanswered("none")
  BY DEF Init, NoDraft
<1> QED BY <1>1, UnansweredIsPlain DEF ShownValid, Plain, Presentations

LEMMA ShownGenerate ==
  ASSUME Inv, ShownValid, Generate
  PROVE  draft'.shown.kind \in Presentations
<1>1. PICK d, p, made :
        /\ d \in Drafts /\ p \in Scenario[question].offers /\ made = AsShown(p, Prepared(p.chart))
        /\ IF ValidPresentation(made.shown, d.claims)
           THEN draft' = [d EXCEPT !.partial = @ \/ made.partial, !.shown = made.shown]
           ELSE draft' = [d EXCEPT !.partial = @ \/ made.partial]
  BY DEF Generate
<1>2. made.shown.kind \in Presentations
  <2>1. p.kind \in Presentations
    BY <1>1, EvidenceAssumption DEF Inv, Shapes, IsPresentation
  <2> QED BY <1>1, <2>1, AsShownKind
<1>3. /\ d.shown = Plain
      /\ d = [claims |-> d.claims, cites |-> d.cites, context |-> d.context,
              partial |-> d.partial, shown |-> d.shown]
  BY <1>1, DraftsTyped DEF Inv, Shapes
<1>4. draft'.shown = made.shown \/ draft'.shown = Plain
  BY <1>1, <1>3
<1> QED BY <1>2, <1>4 DEF Plain, Presentations

LEMMA ShownRepair ==
  ASSUME Inv, ShownValid, Repair
  PROVE  draft'.shown.kind \in Presentations
<1>1. PICK p, made :
        /\ p \in Scenario[question].offers /\ made = AsShown(p, PreparedRepair(p.chart))
        /\ IF ValidPresentation(made.shown, draft.claims)
           THEN draft' = [draft EXCEPT !.partial = @ \/ made.partial, !.shown = made.shown]
           ELSE draft' = draft
  BY DEF Repair
<1>2. made.shown.kind \in Presentations
  <2>1. p.kind \in Presentations
    BY <1>1, EvidenceAssumption DEF Inv, Shapes, IsPresentation
  <2> QED BY <1>1, <2>1, AsShownKind
<1>3. draft = [claims |-> draft.claims, cites |-> draft.cites, context |-> draft.context,
               partial |-> draft.partial, shown |-> draft.shown]
  BY DEF Inv, Drafted
<1>4. draft'.shown = made.shown \/ draft'.shown = draft.shown
  BY <1>1, <1>3
<1> QED BY <1>2, <1>4 DEF ShownValid

LEMMA ShownVerify ==
  ASSUME ShownValid, NEW j, Verify(j)
  PROVE  /\ draft' = draft
         /\ answer'.shown.kind \in Presentations
         /\ ValidPresentation(answer'.shown, answer'.claims)
<1>1. draft' = draft
  BY DEF Verify
<1>2. PICK claims : answer' = Assembled(claims) \/ answer' = Unanswered("refused")
  BY DEF Verify, Finish
<1>3. ASSUME answer' = Assembled(claims)
      PROVE  answer'.shown.kind \in Presentations /\ ValidPresentation(answer'.shown, answer'.claims)
  <2>1. answer'.shown = Kept(draft.shown, claims) /\ answer'.claims = claims
    BY <1>3 DEF Assembled
  <2>2. Kept(draft.shown, claims).kind \in Presentations
    BY KeptKind DEF ShownValid
  <2> QED BY <2>1, <2>2, KeptIsValid
<1> QED BY <1>1, <1>2, <1>3, UnansweredIsPlain

LEMMA ShownNext == Inv /\ ShownValid /\ [Next]_vars => ShownValid'
<1> SUFFICES ASSUME Inv, ShownValid, [Next]_vars PROVE ShownValid'
  OBVIOUS
<1>1. ASSUME draft' = draft, \/ answer' = answer \/ \E end : answer' = Unanswered(end)
      PROVE  ShownValid'
  BY <1>1, UnansweredIsPlain DEF ShownValid, ValidPresentation
<1>2. ASSUME NEW v \in Versions, Ingest(v) \/ Unindex(v) \/ Unsave(v) PROVE ShownValid'
  BY <1>1, <1>2 DEF Ingest, Unindex, Unsave
<1>3. CASE Attach \/ SearchPublic \/ SearchDocuments \/ RequestClarification
  BY <1>1, <1>3 DEF Attach, SearchPublic, SearchDocuments, Collect, RequestClarification
<1>4. CASE FinalizeWithout \/ Finalize \/ SourcesRead \/ Refuse \/ Fail \/ Stop \/ Screen
  BY <1>1, <1>4 DEF FinalizeWithout, Finalize, SourcesRead, Refuse, Fail, Stop, Screen, Finish
<1>5. ASSUME NEW c \in unread, ReadSource(c) PROVE ShownValid'
  BY <1>1, <1>5 DEF ReadSource
<1>6. CASE Generate \/ Repair
  <2>1. answer' = answer
    BY <1>6 DEF Generate, Repair
  <2> QED BY <1>6, <2>1, ShownGenerate, ShownRepair DEF ShownValid, ValidPresentation
<1>7. ASSUME NEW j \in Judgements, Verify(j) PROVE ShownValid'
  BY <1>7, ShownVerify DEF ShownValid, ValidPresentation
<1>8. CASE UNCHANGED vars
  BY <1>1, <1>8 DEF vars
<1> QED BY <1>2, <1>3, <1>4, <1>5, <1>6, <1>7, <1>8 DEF Next

(* Whatever the model drew and whichever claims were removed, a chart that *)
(* is shown can be followed from one root and rests on the answer's claims; *)
(* the exits of a node other than the root all have a condition, each one  *)
(* of its own, and those of the root differ in target or condition (they   *)
(* may lack a condition, as the code asks none of a start node); a table   *)
(* has each claim of the answer in a row.                                  *)
THEOREM ShownPresentationsAreSound == Spec => []ShownIsSound
<1>1. Init => Inv /\ ShownValid
  BY InvInit, ShownInit
<1>2. Inv /\ ShownValid /\ [Next]_vars => (Inv /\ ShownValid)'
  BY InvNext, ShownNext
<1>3. ASSUME ShownValid PROVE ShownIsSound
  <2>1. answer.shown.kind = "table" => UNION ToSet(answer.shown.rows) = answer.claims
    <3>1. answer.shown.kind = "table" => ValidTable(answer.shown.rows, answer.claims)
      BY <1>3, Zenon DEF ShownValid, ValidPresentation
    <3> QED BY <3>1 DEF ValidTable
  <2>2. answer.shown.kind = "flowchart" => Sound(answer.shown.chart, answer.claims)
    <3>1. answer.shown.kind = "flowchart" => ValidChart(answer.shown.chart, answer.claims)
      BY <1>3, Zenon DEF ShownValid, ValidPresentation
    <3> QED BY <3>1, ValidIsSound
  <2>3. answer.shown.kind \in {"text", "table", "flowchart"}
    BY <1>3 DEF ShownValid, Presentations
  <2> QED BY <2>1, <2>2, <2>3, Zenon DEF ShownIsSound
<1>4. ShownValid => ShownIsSound
  BY <1>3
<1> QED BY <1>1, <1>2, <1>4, PTL DEF Spec

-----------------------------------------------------------------------------
(* A chart that is not cut                                                 *)

(* What every step on a chart leaves as it is: its nodes are called alike, *)
(* and the same of them are joined.                                        *)
Pairs(ch) == {<<e.from, e.to>> : e \in ToSet(ch.edges)}
Alike(a, b) == Ids(a) = Ids(b) /\ Pairs(a) = Pairs(b)

LEMMA AlikeArrows ==
  ASSUME NEW a, NEW b, Alike(a, b)
  PROVE  Arrows(a) = Arrows(b)
<1>1. \A ch : Arrows(ch) = {p \in Pairs(ch) : p[1] \in Ids(ch) /\ p[2] \in Ids(ch)}
  BY DEF Arrows, Pairs, Known
<1> QED BY <1>1 DEF Alike

(* A chart whose nodes or edges are replaced is a chart with these.        *)
Formed(ch) == ch = Chart(ch.version, ch.nodes, ch.edges)

LEMMA Replaced ==
  ASSUME NEW ch, Formed(ch), NEW x
  PROVE  /\ [ch EXCEPT !.nodes = x] = Chart(ch.version, x, ch.edges)
         /\ [ch EXCEPT !.edges = x] = Chart(ch.version, ch.nodes, x)
         /\ [ch EXCEPT !.version = x] = Chart(x, ch.nodes, ch.edges)
  BY DEF Formed, Chart

LEMMA ChartParts ==
  ASSUME NEW v, NEW nodes, NEW edges
  PROVE  /\ Chart(v, nodes, edges).version = v /\ Chart(v, nodes, edges).nodes = nodes
         /\ Chart(v, nodes, edges).edges = edges /\ Formed(Chart(v, nodes, edges))
  BY DEF Formed, Chart

LEMMA ListMap ==
  ASSUME NEW seq, IsList(seq), NEW map, map = [i \in DOMAIN seq |-> map[i]]
  PROVE  IsList(map) /\ Len(map) = Len(seq) /\ DOMAIN map = DOMAIN seq
<1>1. PICK n \in Nat : n = Len(seq) /\ DOMAIN seq = 1..n
  BY DEF IsList
<1>2. \A i \in 1..n : map[i] \in ToSet(map)
  BY <1>1 DEF ToSet
<1>3. map = [i \in 1..n |-> map[i]]
  BY <1>1
<1>4. map \in Seq(ToSet(map))
  BY <1>2, <1>3
<1> QED BY <1>1, <1>3, <1>4 DEF IsList

(* Kinds change nothing else.                                              *)
LEMMA KindsAlike ==
  ASSUME NEW ch, IsChart(ch)
  PROVE  /\ IsChart(WithKinds(ch)) /\ Alike(WithKinds(ch), ch)
         /\ WithKinds(ch).edges = ch.edges /\ Len(WithKinds(ch).nodes) = Len(ch.nodes)
<1>1. PICK nodes : nodes = [i \in DOMAIN ch.nodes |-> [ch.nodes[i] EXCEPT !.kind = KindAt(ch, ch.nodes[i].id)]]
  OBVIOUS
<1>2. WithKinds(ch) = Chart(ch.version, nodes, ch.edges)
  BY <1>1, Replaced DEF WithKinds, IsChart, Formed
<1>3. nodes = [i \in DOMAIN ch.nodes |-> nodes[i]]
  BY <1>1
<1>4. IsList(nodes) /\ Len(nodes) = Len(ch.nodes) /\ DOMAIN nodes = DOMAIN ch.nodes
  BY <1>3, ListMap DEF IsChart
<1>5. \A i \in DOMAIN ch.nodes :
        nodes[i] = Node(ch.nodes[i].id, KindAt(ch, ch.nodes[i].id), ch.nodes[i].claims)
  <2> SUFFICES ASSUME NEW i \in DOMAIN ch.nodes
               PROVE  nodes[i] = Node(ch.nodes[i].id, KindAt(ch, ch.nodes[i].id), ch.nodes[i].claims)
    OBVIOUS
  <2>1. PICK n, kind : n = ch.nodes[i] /\ kind = KindAt(ch, ch.nodes[i].id)
    OBVIOUS
  <2>2. n = Node(n.id, n.kind, n.claims)
    BY <2>1 DEF IsChart, ToSet
  <2>3. nodes[i] = [n EXCEPT !.kind = kind]
    BY <1>1, <2>1
  <2>4. nodes[i] = Node(n.id, kind, n.claims)
    BY <2>2, <2>3 DEF Node
  <2> QED BY <2>1, <2>4
<1>6. \A i \in DOMAIN ch.nodes : nodes[i].id = ch.nodes[i].id /\ nodes[i] = Node(nodes[i].id, nodes[i].kind, nodes[i].claims)
  <2>1. \A n, id, kind, claims :
          n = Node(id, kind, claims) => n.id = id /\ n = Node(n.id, n.kind, n.claims)
    BY DEF Node
  <2> QED BY <1>5, <2>1
<1>7. WithKinds(ch).nodes = nodes /\ WithKinds(ch).edges = ch.edges /\ Formed(WithKinds(ch))
  BY <1>2, ChartParts
<1>8. \A n \in ToSet(nodes) : n = Node(n.id, n.kind, n.claims)
  BY <1>4, <1>6 DEF ToSet
<1>9. IsChart(WithKinds(ch))
  BY <1>4, <1>7, <1>8 DEF IsChart, Formed
<1>10. {nodes[i].id : i \in DOMAIN nodes} = {ch.nodes[i].id : i \in DOMAIN ch.nodes}
  BY <1>4, <1>6
<1>11. Alike(WithKinds(ch), ch)
  BY <1>7, <1>10 DEF Alike, Ids, Pairs
<1> QED BY <1>4, <1>7, <1>9, <1>11

(* Nor do conditions.                                                      *)
LEMMA ConditionsAlike ==
  ASSUME NEW ch, IsChart(ch)
  PROVE  /\ IsChart(WithConditions(ch)) /\ Alike(WithConditions(ch), ch)
         /\ WithConditions(ch).nodes = ch.nodes /\ Len(WithConditions(ch).edges) = Len(ch.edges)
<1>1. PICK edges : edges = [i \in DOMAIN ch.edges |-> [ch.edges[i] EXCEPT !.cond = ConditionOf(ch, ch.edges[i])]]
  OBVIOUS
<1>2. WithConditions(ch) = Chart(ch.version, ch.nodes, edges)
  BY <1>1, Replaced DEF WithConditions, IsChart, Formed
<1>3. edges = [i \in DOMAIN ch.edges |-> edges[i]]
  BY <1>1
<1>4. IsList(edges) /\ Len(edges) = Len(ch.edges) /\ DOMAIN edges = DOMAIN ch.edges
  BY <1>3, ListMap DEF IsChart
<1>5. \A i \in DOMAIN ch.edges :
        edges[i] = Edge(ch.edges[i].from, ch.edges[i].to, ConditionOf(ch, ch.edges[i]), ch.edges[i].claims)
  <2> SUFFICES ASSUME NEW i \in DOMAIN ch.edges
               PROVE  edges[i] = Edge(ch.edges[i].from, ch.edges[i].to, ConditionOf(ch, ch.edges[i]), ch.edges[i].claims)
    OBVIOUS
  <2>1. PICK e, cond : e = ch.edges[i] /\ cond = ConditionOf(ch, ch.edges[i])
    OBVIOUS
  <2>2. e = Edge(e.from, e.to, e.cond, e.claims)
    BY <2>1 DEF IsChart, ToSet
  <2>3. edges[i] = [e EXCEPT !.cond = cond]
    BY <1>1, <2>1
  <2>4. edges[i] = Edge(e.from, e.to, cond, e.claims)
    BY <2>2, <2>3 DEF Edge
  <2> QED BY <2>1, <2>4
<1>6. \A i \in DOMAIN ch.edges :
        /\ edges[i].from = ch.edges[i].from /\ edges[i].to = ch.edges[i].to
        /\ edges[i] = Edge(edges[i].from, edges[i].to, edges[i].cond, edges[i].claims)
  <2>1. \A e, from, to, cond, claims :
          e = Edge(from, to, cond, claims) => e.from = from /\ e.to = to /\ e = Edge(e.from, e.to, e.cond, e.claims)
    BY DEF Edge
  <2> QED BY <1>5, <2>1
<1>7. WithConditions(ch).edges = edges /\ WithConditions(ch).nodes = ch.nodes /\ Formed(WithConditions(ch))
  BY <1>2, ChartParts
<1>8. \A e \in ToSet(edges) : e = Edge(e.from, e.to, e.cond, e.claims)
  BY <1>4, <1>6 DEF ToSet
<1>9. IsChart(WithConditions(ch))
  BY <1>4, <1>7, <1>8 DEF IsChart, Formed
<1>10. {<<e.from, e.to>> : e \in ToSet(edges)} = {<<e.from, e.to>> : e \in ToSet(ch.edges)}
  BY <1>4, <1>6 DEF ToSet
<1>11. Alike(WithConditions(ch), ch)
  BY <1>7, <1>10 DEF Alike, Ids, Pairs
<1> QED BY <1>4, <1>7, <1>9, <1>11

(* Of repeated edges one stays.                                            *)
LEMMA DedupedAlike ==
  ASSUME NEW ch, IsChart(ch)
  PROVE  /\ IsChart(DedupeEdges(ch)) /\ Alike(DedupeEdges(ch), ch)
         /\ DedupeEdges(ch).nodes = ch.nodes
<1>1. PICK key, edges : key = [i \in DOMAIN ch.edges |-> KeyOf(ch.edges[i])] /\ edges = Firsts(ch.edges, key)
  OBVIOUS
<1>2. DedupeEdges(ch) = Chart(ch.version, ch.nodes, edges)
  BY <1>1, Replaced DEF DedupeEdges, IsChart, Formed
<1>3. /\ edges \in Seq(ToSet(ch.edges)) /\ ToSet(edges) \subseteq ToSet(ch.edges)
      /\ \A i \in DOMAIN ch.edges : \E j \in DOMAIN ch.edges : key[j] = key[i] /\ ch.edges[j] \in ToSet(edges)
  <2>1. ch.edges \in Seq(ToSet(ch.edges))
    BY DEF IsChart, IsList
  <2>2. /\ Firsts(ch.edges, key) \in Seq(ToSet(ch.edges))
        /\ ToSet(Firsts(ch.edges, key)) \subseteq ToSet(ch.edges)
        /\ \A i \in DOMAIN ch.edges : \E j \in DOMAIN ch.edges :
             key[j] = key[i] /\ ch.edges[j] \in ToSet(Firsts(ch.edges, key))
    BY <2>1, FirstsKeys
  <2> QED BY <1>1, <2>2
<1>4. IsList(edges)
  BY <1>3, SequenceMembers DEF IsList
<1>5. DedupeEdges(ch).nodes = ch.nodes /\ DedupeEdges(ch).edges = edges /\ Formed(DedupeEdges(ch))
  BY <1>2, ChartParts
<1>6. IsChart(DedupeEdges(ch))
  BY <1>3, <1>4, <1>5 DEF IsChart, Formed
<1>7. ASSUME NEW e \in ToSet(ch.edges) PROVE \E f \in ToSet(edges) : f.from = e.from /\ f.to = e.to
  <2>1. PICK i \in DOMAIN ch.edges : e = ch.edges[i]
    BY DEF ToSet
  <2>2. PICK j \in DOMAIN ch.edges : key[j] = key[i] /\ ch.edges[j] \in ToSet(edges)
    BY <1>3
  <2>3. KeyOf(ch.edges[j]) = KeyOf(e)
    BY <1>1, <2>1, <2>2
  <2> QED BY <2>2, <2>3 DEF KeyOf
<1>8. {<<e.from, e.to>> : e \in ToSet(edges)} = {<<e.from, e.to>> : e \in ToSet(ch.edges)}
  BY <1>3, <1>7
<1>9. Alike(DedupeEdges(ch), ch)
  BY <1>5, <1>8 DEF Alike, Ids, Pairs
<1> QED BY <1>5, <1>6, <1>9

(* What is left of a list is all of it if it is as long.                   *)
LEMMA OnlyOfList ==
  ASSUME NEW seq, IsList(seq), NEW P \in SUBSET (DOMAIN seq)
  PROVE  /\ IsList(Only(seq, P)) /\ ToSet(Only(seq, P)) \subseteq ToSet(seq)
         /\ Len(Only(seq, P)) \in Nat /\ Len(seq) \in Nat /\ Len(Only(seq, P)) <= Len(seq)
         /\ Len(Only(seq, P)) = Len(seq) => Only(seq, P) = seq
<1>1. seq \in Seq(ToSet(seq))
  BY DEF IsList
<1>2. /\ Only(seq, P) \in Seq(ToSet(seq))
      /\ ToSet(Only(seq, P)) = {seq[i] : i \in P}
  BY <1>1, OnlyMembers
<1>3. IsList(Only(seq, P)) /\ ToSet(Only(seq, P)) \subseteq ToSet(seq)
  BY <1>2, SequenceMembers DEF IsList
<1>4. Len(Only(seq, P)) \in Nat /\ Len(seq) \in Nat
  BY <1>1, <1>2, LenProperties
<1>5. Len(Only(seq, P)) <= Len(seq)
  BY <1>1, OnlyShorter
<1>6. Len(Only(seq, P)) = Len(seq) => Only(seq, P) = seq
  BY <1>1, OnlyWhole
<1> QED BY <1>3, <1>4, <1>5, <1>6

LEMMA ExitsShorter ==
  ASSUME NEW ch, IsChart(ch)
  PROVE  /\ IsChart(DedupeExits(ch)) /\ DedupeExits(ch).nodes = ch.nodes
         /\ Len(DedupeExits(ch).edges) \in Nat /\ Len(ch.edges) \in Nat
         /\ Len(DedupeExits(ch).edges) <= Len(ch.edges)
         /\ Len(DedupeExits(ch).edges) = Len(ch.edges) => DedupeExits(ch) = ch
<1>1. PICK P \in SUBSET (DOMAIN ch.edges) : DedupeExits(ch) = [ch EXCEPT !.edges = Only(ch.edges, P)]
  <2> DEFINE P == {i \in DOMAIN ch.edges :
        ~(ch.edges[i].cond # NoCondition /\ IsDecision(ch, ch.edges[i].from)
          /\ \E x \in {ch.edges[j] : j \in 1..(i - 1)} : x.from = ch.edges[i].from /\ x.cond = ch.edges[i].cond)}
  <2>1. DedupeExits(ch) = [ch EXCEPT !.edges = Only(ch.edges, P)]
    BY DEF DedupeExits
  <2> QED BY <2>1
<1>2. PICK edges : edges = Only(ch.edges, P)
  OBVIOUS
<1>3. DedupeExits(ch) = Chart(ch.version, ch.nodes, edges)
  BY <1>1, <1>2, Replaced DEF IsChart, Formed
<1>4. /\ IsList(edges) /\ ToSet(edges) \subseteq ToSet(ch.edges)
      /\ Len(edges) \in Nat /\ Len(ch.edges) \in Nat /\ Len(edges) <= Len(ch.edges)
      /\ Len(edges) = Len(ch.edges) => edges = ch.edges
  BY <1>2, OnlyOfList DEF IsChart
<1>5. DedupeExits(ch).nodes = ch.nodes /\ DedupeExits(ch).edges = edges /\ Formed(DedupeExits(ch))
  BY <1>3, ChartParts
<1>6. IsChart(DedupeExits(ch))
  BY <1>4, <1>5 DEF IsChart, Formed
<1>7. edges = ch.edges => DedupeExits(ch) = ch
  BY <1>3 DEF IsChart
<1> QED BY <1>4, <1>5, <1>6, <1>7

(* A chart without the parts that are not reached.                         *)
LEMMA RestrictedShorter ==
  ASSUME NEW ch, IsChart(ch), NEW ids
  PROVE  LET r == Restricted(ch, ids) IN
         /\ IsChart(r)
         /\ Len(r.nodes) \in Nat /\ Len(ch.nodes) \in Nat /\ Len(r.nodes) <= Len(ch.nodes)
         /\ Len(r.edges) \in Nat /\ Len(ch.edges) \in Nat /\ Len(r.edges) <= Len(ch.edges)
         /\ Len(r.nodes) = Len(ch.nodes) /\ Len(r.edges) = Len(ch.edges) => r = ch
<1>1. PICK P \in SUBSET (DOMAIN ch.nodes), Q \in SUBSET (DOMAIN ch.edges) :
        /\ P = {i \in DOMAIN ch.nodes : ch.nodes[i].id \in ids}
        /\ Q = {i \in DOMAIN ch.edges : ch.edges[i].from \in ids /\ ch.edges[i].to \in ids}
  OBVIOUS
<1>2. PICK nodes, edges : nodes = Only(ch.nodes, P) /\ edges = Only(ch.edges, Q)
  OBVIOUS
<1>3. Restricted(ch, ids) = [[ch EXCEPT !.nodes = nodes] EXCEPT !.edges = edges]
  <2>1. ch.edges = [ch EXCEPT !.nodes = nodes].edges
    BY Replaced, ChartParts DEF IsChart, Formed
  <2> QED BY <1>1, <1>2, <2>1 DEF Restricted
<1>4. Restricted(ch, ids) = Chart(ch.version, nodes, edges)
  <2>1. [ch EXCEPT !.nodes = nodes] = Chart(ch.version, nodes, ch.edges)
    BY Replaced DEF IsChart, Formed
  <2>2. PICK c : c = Chart(ch.version, nodes, ch.edges)
    OBVIOUS
  <2>3. Formed(c) /\ c.version = ch.version /\ c.nodes = nodes
    BY <2>2, ChartParts
  <2>4. [c EXCEPT !.edges = edges] = Chart(c.version, c.nodes, edges)
    BY <2>3, Replaced
  <2> QED BY <1>3, <2>1, <2>2, <2>3, <2>4
<1>5. /\ IsList(nodes) /\ ToSet(nodes) \subseteq ToSet(ch.nodes)
      /\ Len(nodes) \in Nat /\ Len(ch.nodes) \in Nat /\ Len(nodes) <= Len(ch.nodes)
      /\ Len(nodes) = Len(ch.nodes) => nodes = ch.nodes
  BY <1>2, OnlyOfList DEF IsChart
<1>6. /\ IsList(edges) /\ ToSet(edges) \subseteq ToSet(ch.edges)
      /\ Len(edges) \in Nat /\ Len(ch.edges) \in Nat /\ Len(edges) <= Len(ch.edges)
      /\ Len(edges) = Len(ch.edges) => edges = ch.edges
  BY <1>2, OnlyOfList DEF IsChart
<1>7. PICK r : r = Restricted(ch, ids)
  OBVIOUS
<1>8. r.nodes = nodes /\ r.edges = edges /\ Formed(r)
  BY <1>4, <1>7, ChartParts
<1>9. IsChart(r)
  BY <1>5, <1>6, <1>8 DEF IsChart, Formed
<1>10. nodes = ch.nodes /\ edges = ch.edges => r = ch
  BY <1>4, <1>7 DEF IsChart
<1>11. Len(r.nodes) = Len(ch.nodes) /\ Len(r.edges) = Len(ch.edges) => r = ch
  BY <1>5, <1>6, <1>8, <1>10
<1> QED BY <1>5, <1>6, <1>7, <1>8, <1>9, <1>11

(* Pruning restricts a chart, or leaves it.                                *)
LEMMA PrunedShorter ==
  ASSUME NEW ch, IsChart(ch)
  PROVE  LET r == Pruned(ch) IN
         /\ IsChart(r)
         /\ Len(r.nodes) \in Nat /\ Len(ch.nodes) \in Nat /\ Len(r.nodes) <= Len(ch.nodes)
         /\ Len(r.edges) \in Nat /\ Len(ch.edges) \in Nat /\ Len(r.edges) <= Len(ch.edges)
         /\ Len(r.nodes) = Len(ch.nodes) /\ Len(r.edges) = Len(ch.edges) => r = ch
<1>1. PICK ids : Pruned(ch) = ch \/ Pruned(ch) = Restricted(ch, ids)
  <2>1. PICK root : root = PrimaryRoot(ch)
    OBVIOUS
  <2>2. Pruned(ch) = IF root = {} THEN ch ELSE Restricted(ch, UNION {Reach(Arrows(ch), id) : id \in root})
    BY <2>1 DEF Pruned
  <2> QED BY <2>2
<1>2. CASE Pruned(ch) = ch
  <2>1. Len(ch.nodes) \in Nat /\ Len(ch.edges) \in Nat
    BY DEF IsChart, IsList
  <2> QED BY <1>2, <2>1
<1>3. CASE Pruned(ch) = Restricted(ch, ids)
  BY <1>3, RestrictedShorter
<1> QED BY <1>1, <1>2, <1>3

(* Every step on a chart makes a chart, of the same version if its shape   *)
(* is all that changes.                                                    *)
Reforms(c, ch) == Formed(c) /\ c.version = ch.version

LEMMA ReplacedForms ==
  ASSUME NEW ch, Formed(ch), NEW x
  PROVE  /\ Reforms([ch EXCEPT !.nodes = x], ch) /\ Reforms([ch EXCEPT !.edges = x], ch)
         /\ Formed([ch EXCEPT !.version = x])
<1>1. /\ [ch EXCEPT !.nodes = x] = Chart(ch.version, x, ch.edges)
      /\ [ch EXCEPT !.edges = x] = Chart(ch.version, ch.nodes, x)
      /\ [ch EXCEPT !.version = x] = Chart(x, ch.nodes, ch.edges)
  BY Replaced
<1> QED BY <1>1, ChartParts DEF Reforms

LEMMA EveryStepForms ==
  ASSUME NEW ch, Formed(ch)
  PROVE  /\ Reforms(WithKinds(ch), ch) /\ Reforms(WithConditions(ch), ch)
         /\ Reforms(DedupeEdges(ch), ch) /\ Reforms(DedupeExits(ch), ch) /\ Reforms(Pruned(ch), ch)
         /\ Formed(WithEdgeClaims(ch)) /\ Formed(Upgraded(ch))
<1>1. ASSUME NEW c, Formed(c), NEW x
      PROVE  /\ Reforms([c EXCEPT !.nodes = x], c) /\ Reforms([c EXCEPT !.edges = x], c)
             /\ Formed([c EXCEPT !.version = x])
  BY <1>1, ReplacedForms
<1>2. ASSUME NEW c, Formed(c), NEW x, NEW y PROVE Reforms([c EXCEPT !.nodes = x, !.edges = y], c)
  <2>1. Reforms([c EXCEPT !.nodes = x], c)
    BY <1>1, <1>2
  <2>2. [c EXCEPT !.nodes = x, !.edges = y] = [[c EXCEPT !.nodes = x] EXCEPT !.edges = y]
    OBVIOUS
  <2> QED BY <1>1, <2>1, <2>2 DEF Reforms
<1>3. ASSUME NEW c, Formed(c), NEW x, NEW y PROVE Formed([c EXCEPT !.edges = x, !.nodes = y])
  <2>1. Formed([c EXCEPT !.edges = x])
    BY <1>1, <1>3 DEF Reforms
  <2>2. [c EXCEPT !.edges = x, !.nodes = y] = [[c EXCEPT !.edges = x] EXCEPT !.nodes = y]
    OBVIOUS
  <2> QED BY <1>1, <2>1, <2>2 DEF Reforms
<1>4. ASSUME NEW c, Formed(c), NEW x, NEW y PROVE Formed([c EXCEPT !.version = x, !.nodes = y])
  <2>1. Formed([c EXCEPT !.version = x])
    BY <1>1, <1>4
  <2>2. [c EXCEPT !.version = x, !.nodes = y] = [[c EXCEPT !.version = x] EXCEPT !.nodes = y]
    OBVIOUS
  <2> QED BY <1>1, <2>1, <2>2 DEF Reforms
<1>5. Reforms(WithKinds(ch), ch)
  BY <1>1 DEF WithKinds
<1>6. Reforms(WithConditions(ch), ch)
  BY <1>1 DEF WithConditions
<1>7. Reforms(DedupeEdges(ch), ch)
  BY <1>1 DEF DedupeEdges
<1>8. Reforms(DedupeExits(ch), ch)
  BY <1>1 DEF DedupeExits
<1>9. \A ids : Reforms(Restricted(ch, ids), ch)
  BY <1>2 DEF Restricted
<1>10. Reforms(Pruned(ch), ch)
  BY <1>9 DEF Pruned, Reforms
<1>11. Formed(WithEdgeClaims(ch))
  BY <1>1, <1>3 DEF WithEdgeClaims
<1>12. Formed(Upgraded(ch))
  BY <1>4 DEF Upgraded
<1> QED BY <1>5, <1>6, <1>7, <1>8, <1>10, <1>11, <1>12

LEMMA ShapedForms ==
  ASSUME NEW ch, Formed(ch)
  PROVE  Reforms(Shaped(ch).chart, ch)
<1>1. Reforms(DedupeEdges(ch), ch)
  BY EveryStepForms
<1>2. Reforms(WithKinds(DedupeEdges(ch)), ch)
  BY <1>1, EveryStepForms DEF Reforms
<1>3. Reforms(Labelled(ch), ch)
  BY <1>2, EveryStepForms DEF Labelled, Reforms
<1>4. PICK labelled : labelled = Labelled(ch)
  OBVIOUS
<1>5. Reforms(DedupeExits(labelled), ch)
  BY <1>3, <1>4, EveryStepForms DEF Reforms
<1>6. Reforms(WithKinds(DedupeExits(labelled)), ch)
  BY <1>5, EveryStepForms DEF Reforms
<1>7. Reforms(Pruned(WithKinds(DedupeExits(labelled))), ch)
  BY <1>6, EveryStepForms DEF Reforms
<1>8. Reforms(Trimmed(labelled), ch)
  BY <1>7, EveryStepForms DEF Trimmed, Reforms
<1>9. Shaped(ch).chart = ch \/ Shaped(ch).chart = Trimmed(labelled)
  BY <1>4 DEF Shaped
<1> QED BY <1>8, <1>9 DEF Reforms

(* If nothing is told to be missing, then every node is there and an edge  *)
(* for all that were joined: what is shorter was told.                     *)
LEMMA ShapedWhole ==
  ASSUME NEW ch, IsChart(ch), ch.version = "2.0", ~Shaped(ch).partial
  PROVE  Alike(Shaped(ch).chart, ch)
<1>1. PICK deduped : deduped = DedupeEdges(ch)
  OBVIOUS
<1>2. IsChart(deduped) /\ Alike(deduped, ch) /\ deduped.nodes = ch.nodes
  BY <1>1, DedupedAlike
<1>3. PICK kinds : kinds = WithKinds(deduped)
  OBVIOUS
<1>4. IsChart(kinds) /\ Alike(kinds, deduped) /\ Len(kinds.nodes) = Len(ch.nodes)
  BY <1>2, <1>3, KindsAlike
<1>5. PICK labelled : labelled = Labelled(ch)
  OBVIOUS
<1>6. IsChart(labelled) /\ Alike(labelled, kinds) /\ Len(labelled.nodes) = Len(ch.nodes)
  BY <1>1, <1>3, <1>4, <1>5, ConditionsAlike DEF Labelled
<1>7. PICK exits : exits = DedupeExits(labelled)
  OBVIOUS
<1>8. /\ IsChart(exits) /\ exits.nodes = labelled.nodes
      /\ Len(exits.edges) \in Nat /\ Len(labelled.edges) \in Nat /\ Len(exits.edges) <= Len(labelled.edges)
      /\ Len(exits.edges) = Len(labelled.edges) => exits = labelled
  BY <1>6, <1>7, ExitsShorter
<1>9. PICK again : again = WithKinds(exits)
  OBVIOUS
<1>10. /\ IsChart(again) /\ Alike(again, exits)
       /\ again.edges = exits.edges /\ Len(again.nodes) = Len(exits.nodes)
  BY <1>8, <1>9, KindsAlike
<1>11. PICK pruned : pruned = Pruned(again)
  OBVIOUS
<1>12. /\ IsChart(pruned)
       /\ Len(pruned.nodes) \in Nat /\ Len(again.nodes) \in Nat /\ Len(pruned.nodes) <= Len(again.nodes)
       /\ Len(pruned.edges) \in Nat /\ Len(again.edges) \in Nat /\ Len(pruned.edges) <= Len(again.edges)
       /\ Len(pruned.nodes) = Len(again.nodes) /\ Len(pruned.edges) = Len(again.edges) => pruned = again
  BY <1>10, <1>11, PrunedShorter
<1>13. PICK trimmed : trimmed = WithKinds(pruned)
  OBVIOUS
<1>14. Alike(trimmed, pruned) /\ trimmed.edges = pruned.edges /\ Len(trimmed.nodes) = Len(pruned.nodes)
  BY <1>12, <1>13, KindsAlike
<1>15. trimmed = Trimmed(labelled)
  BY <1>7, <1>9, <1>11, <1>13 DEF Trimmed
<1>16. Shaped(ch).chart = trimmed /\ Len(trimmed.edges) = Len(labelled.edges) /\ Len(trimmed.nodes) = Len(ch.nodes)
  BY <1>5, <1>15 DEF Shaped
<1>17. Len(pruned.edges) = Len(labelled.edges) /\ Len(pruned.nodes) = Len(labelled.nodes)
  BY <1>6, <1>14, <1>16
<1>18. Len(again.edges) = Len(labelled.edges) /\ Len(again.nodes) = Len(labelled.nodes)
  BY <1>8, <1>10, <1>12, <1>17
<1>19. exits = labelled /\ pruned = again
  BY <1>8, <1>10, <1>12, <1>17, <1>18
<1> QED BY <1>2, <1>4, <1>6, <1>10, <1>14, <1>16, <1>19 DEF Alike

-----------------------------------------------------------------------------
(* An answer that is complete                                              *)

(* What is shown has the kind of what was drawn, and a chart is true to it. *)
Represents(shown, p) ==
  /\ shown.kind = p.kind /\ shown.kind \in Presentations
  /\ shown.kind = "table" => shown = TableOf(shown.rows) /\ IsList(shown.rows)
  /\ shown.kind = "flowchart" => shown = FlowOf(shown.chart) /\ Formed(shown.chart)
  /\ p.kind = "flowchart" => TrueTo(shown.chart, p.chart)

(* Until an answer is given, a draft that is not partial shows what was    *)
(* drawn, and rests on its own claims.                                     *)
DraftWhole ==
  /\ stage = "repair" => draft.shown = Plain /\ drawn = Plain
  /\ stage \in {"screen", "verify"} /\ ~draft.partial =>
       Represents(draft.shown, drawn) /\ ValidPresentation(draft.shown, draft.claims)
  /\ CompleteAnswerIsWhole

LEMMA PlainIsWhole ==
  ASSUME NEW claims
  PROVE  Represents(Plain, Plain) /\ ValidPresentation(Plain, claims)
<1>1. Plain.kind = "text"
  BY DEF Plain
<1>2. Represents(Plain, Plain)
  BY <1>1 DEF Represents, Presentations
<1> QED BY <1>1, <1>2, Zenon DEF ValidPresentation

(* What has the nodes and the arrows of a chart, or of what is true to it, *)
(* is true to it.                                                          *)
LEMMA AlikeIsTrue ==
  ASSUME NEW a, NEW ch, Alike(a, ch)
  PROVE  TrueTo(a, ch)
<1>1. Ids(a) = Ids(ch) /\ Arrows(a) = Arrows(ch)
  BY AlikeArrows DEF Alike
<1>2. \A arrow \in Moving(ch) : arrow \in Arrows(ch) /\ arrow[1] \in Ids(ch) /\ arrow[2] \in Ids(ch)
  BY DEF Moving, Arrows, Known
<1> QED BY <1>1, <1>2 DEF TrueTo

LEMMA AlikeStaysTrue ==
  ASSUME NEW a, NEW b, NEW ch, Alike(a, b), TrueTo(b, ch)
  PROVE  TrueTo(a, ch)
<1>1. Ids(a) = Ids(b) /\ Arrows(a) = Arrows(b)
  BY AlikeArrows DEF Alike
<1> QED BY <1>1 DEF TrueTo

(* Kinds that are inferred change no name of a node and no edge.           *)
LEMMA UpgradedAlike ==
  ASSUME NEW ch, IsChart(ch) \/ ch.version = "2.0"
  PROVE  Alike(Upgraded(ch), ch)
<1>1. CASE ch.version = "2.0"
  BY <1>1 DEF Upgraded, Alike
<1>2. CASE IsChart(ch) /\ ch.version # "2.0"
  <2>1. PICK nodes : nodes = [i \in DOMAIN ch.nodes |->
          IF ch.nodes[i].kind = "unset" THEN [ch.nodes[i] EXCEPT !.kind = KindAt(ch, ch.nodes[i].id)] ELSE ch.nodes[i]]
    OBVIOUS
  <2>2. PICK c : c = [ch EXCEPT !.version = "2.0"]
    OBVIOUS
  <2>3. c = Chart("2.0", ch.nodes, ch.edges)
    BY <1>2, <2>2, Replaced DEF IsChart, Formed
  <2>4. Formed(c) /\ c.nodes = ch.nodes /\ c.edges = ch.edges
    BY <2>3, ChartParts
  <2>5. Upgraded(ch) = [c EXCEPT !.nodes = nodes]
    BY <1>2, <2>1, <2>2, <2>4 DEF Upgraded
  <2>6. Upgraded(ch).nodes = nodes /\ Upgraded(ch).edges = ch.edges
    BY <2>4, <2>5, Replaced, ChartParts
  <2>7. \A i \in DOMAIN ch.nodes : nodes[i].id = ch.nodes[i].id
    <3> SUFFICES ASSUME NEW i \in DOMAIN ch.nodes PROVE nodes[i].id = ch.nodes[i].id
      OBVIOUS
    <3>1. PICK n, kind : n = ch.nodes[i] /\ kind = KindAt(ch, ch.nodes[i].id)
      OBVIOUS
    <3>2. n = Node(n.id, n.kind, n.claims)
      BY <1>2, <3>1 DEF IsChart, ToSet
    <3>3. [n EXCEPT !.kind = kind].id = n.id
      BY <3>2 DEF Node
    <3> QED BY <2>1, <3>1, <3>3
  <2>8. Ids(Upgraded(ch)) = Ids(ch)
    BY <2>1, <2>6, <2>7 DEF Ids
  <2> QED BY <2>6, <2>8 DEF Alike, Pairs
<1> QED BY <1>1, <1>2

(* Of a chart of the first version nothing is dropped but the edges that   *)
(* do not move and the nodes without edges.                                *)
LEMMA LegacyIsTrue ==
  ASSUME NEW ch, IsChart(ch), Legacy(ch), NEW cut, cut = WithEdgeClaims(ch)
  PROVE  IsChart(cut) /\ cut.version = ch.version /\ TrueTo(cut, ch)
<1>1. PICK P : P = {i \in DOMAIN ch.edges : Moves(ch, ch.edges[i])}
  OBVIOUS
<1>2. PICK kept : kept = Only(ch.edges, P)
  OBVIOUS
<1>3. PICK used : used = {e.from : e \in ToSet(kept)} \cup {e.to : e \in ToSet(kept)}
  OBVIOUS
<1>4. PICK edges : edges = [i \in DOMAIN kept |-> [kept[i] EXCEPT !.claims = NodeOf(ch, kept[i].to).claims]]
  OBVIOUS
<1>5. PICK Q, nodes : Q = {i \in DOMAIN ch.nodes : ch.nodes[i].id \in used} /\ nodes = Only(ch.nodes, Q)
  OBVIOUS
<1>6. cut = Chart(ch.version, nodes, edges)
  <2>1. PICK c : c = [ch EXCEPT !.edges = edges]
    OBVIOUS
  <2>2. c = Chart(ch.version, ch.nodes, edges)
    BY <2>1, Replaced DEF IsChart, Formed
  <2>3. Formed(c) /\ c.version = ch.version /\ c.nodes = ch.nodes /\ c.edges = edges
    BY <2>2, ChartParts
  <2>4. cut = [c EXCEPT !.nodes = nodes]
    BY <1>1, <1>2, <1>3, <1>4, <1>5, <2>1, <2>3 DEF WithEdgeClaims
  <2> QED BY <2>3, <2>4, Replaced
<1>7. cut.version = ch.version /\ cut.nodes = nodes /\ cut.edges = edges
  BY <1>6, ChartParts
<1>8. IsList(kept) /\ ToSet(kept) = {ch.edges[i] : i \in P}
  <2>1. ch.edges \in Seq(ToSet(ch.edges)) /\ P \subseteq DOMAIN ch.edges
    BY <1>1 DEF IsChart, IsList
  <2>2. ToSet(kept) = {ch.edges[i] : i \in P}
    BY <1>2, <2>1, OnlyMembers
  <2>3. IsList(kept)
    BY <1>1, <1>2, OnlyOfList DEF IsChart
  <2> QED BY <2>2, <2>3
<1>9. IsList(nodes) /\ ToSet(nodes) = {ch.nodes[i] : i \in Q}
  <2>1. ch.nodes \in Seq(ToSet(ch.nodes)) /\ Q \subseteq DOMAIN ch.nodes
    BY <1>5 DEF IsChart, IsList
  <2>2. ToSet(nodes) = {ch.nodes[i] : i \in Q}
    BY <1>5, <2>1, OnlyMembers
  <2>3. IsList(nodes)
    BY <1>5, OnlyOfList DEF IsChart
  <2> QED BY <2>2, <2>3
<1>10. IsList(edges) /\ DOMAIN edges = DOMAIN kept
  <2>1. edges = [i \in DOMAIN kept |-> edges[i]]
    BY <1>4
  <2> QED BY <1>8, <2>1, ListMap
<1>11. \A i \in DOMAIN kept :
         /\ edges[i].from = kept[i].from /\ edges[i].to = kept[i].to
         /\ edges[i] = Edge(edges[i].from, edges[i].to, edges[i].cond, edges[i].claims)
  <2> SUFFICES ASSUME NEW i \in DOMAIN kept
               PROVE  /\ edges[i].from = kept[i].from /\ edges[i].to = kept[i].to
                      /\ edges[i] = Edge(edges[i].from, edges[i].to, edges[i].cond, edges[i].claims)
    OBVIOUS
  <2>1. PICK e, claims : e = kept[i] /\ claims = NodeOf(ch, kept[i].to).claims
    OBVIOUS
  <2>2. e \in ToSet(ch.edges)
    BY <1>1, <1>8, <2>1 DEF ToSet
  <2>3. e = Edge(e.from, e.to, e.cond, e.claims)
    BY <2>2 DEF IsChart
  <2>4. edges[i] = [e EXCEPT !.claims = claims]
    BY <1>4, <2>1
  <2>5. edges[i] = Edge(e.from, e.to, e.cond, claims)
    BY <2>3, <2>4 DEF Edge
  <2> QED BY <2>1, <2>5 DEF Edge
<1>12. IsChart(cut)
  <2>1. \A e \in ToSet(edges) : e = Edge(e.from, e.to, e.cond, e.claims)
    BY <1>10, <1>11 DEF ToSet
  <2>2. \A n \in ToSet(nodes) : n = Node(n.id, n.kind, n.claims)
    BY <1>5, <1>9 DEF IsChart, ToSet
  <2>3. Formed(cut)
    BY <1>6, ChartParts
  <2> QED BY <1>7, <1>9, <1>10, <2>1, <2>2, <2>3 DEF IsChart, Formed
<1>13. Ids(cut) = Ids(ch) \cap used
  <2>1. Ids(cut) = {n.id : n \in ToSet(nodes)}
    BY <1>7 DEF Ids, ToSet
  <2>2. {n.id : n \in ToSet(nodes)} = {ch.nodes[i].id : i \in Q}
    BY <1>9
  <2> QED BY <1>5, <2>1, <2>2 DEF Ids
<1>14. Pairs(cut) = {<<e.from, e.to>> : e \in ToSet(kept)}
  BY <1>7, <1>10, <1>11 DEF Pairs, ToSet
<1>15. ToSet(kept) = {e \in ToSet(ch.edges) : Moves(ch, e)}
  BY <1>1, <1>8 DEF ToSet
<1>16. /\ \A x : Arrows(x) = {p \in Pairs(x) : p[1] \in Ids(x) /\ p[2] \in Ids(x)}
       /\ Pairs(ch) = {<<e.from, e.to>> : e \in ToSet(ch.edges)}
  BY DEF Arrows, Pairs, Known
<1>17. Ids(cut) \subseteq Ids(ch) /\ Arrows(cut) \subseteq Arrows(ch)
  BY <1>13, <1>14, <1>15, <1>16
<1>18. ASSUME NEW a \in Moving(ch) PROVE a \in Arrows(cut) /\ a[1] \in Ids(cut) /\ a[2] \in Ids(cut)
  <2>1. PICK e \in ToSet(ch.edges) : a = <<e.from, e.to>> /\ Known(ch, e)
    BY DEF Moving, Arrows
  <2>2. \E c \in ToSet(NodeOf(ch, e.to).claims) \cap ClaimIds : ClaimText[c].moves
    BY <2>1 DEF Moving
  <2>3. e \in ToSet(kept)
    BY <1>15, <2>1, <2>2 DEF Moves, Known
  <2>4. e.from \in Ids(cut) /\ e.to \in Ids(cut)
    BY <1>3, <1>13, <2>1, <2>3 DEF Known
  <2> QED BY <1>14, <1>16, <2>1, <2>3, <2>4
<1> QED BY <1>7, <1>12, <1>17, <1>18 DEF TrueTo

(* A chart is prepared true to what was drawn, unless what it loses is     *)
(* told.                                                                   *)
LEMMA PreparedWhole ==
  ASSUME NEW ch, IsChart(ch), NEW shaped,
         shaped = Prepared(ch) \/ shaped = PreparedRepair(ch), ~shaped.partial
  PROVE  Formed(shaped.chart) /\ TrueTo(Upgraded(shaped.chart), ch)
<1>1. Formed(ch)
  BY DEF IsChart, Formed
<1>2. PICK cut : /\ shaped.chart = Shaped(cut).chart /\ ~Shaped(cut).partial
                 /\ IsChart(cut) /\ TrueTo(cut, ch)
                 /\ cut.version = "2.0" => Alike(cut, ch)
  <2>1. TrueTo(ch, ch) /\ Alike(ch, ch)
    BY AlikeIsTrue DEF Alike
  <2>2. CASE shaped = Prepared(ch)
    <3>1. PICK cut : cut = WithEdgeClaims(ch) /\ shaped = Shaped(cut)
      BY <2>2 DEF Prepared
    <3>2. CASE Legacy(ch)
      <4>1. IsChart(cut) /\ TrueTo(cut, ch) /\ cut.version # "2.0"
        BY <3>1, <3>2, LegacyIsTrue DEF Legacy
      <4> QED BY <3>1, <4>1
    <3>3. CASE ~Legacy(ch)
      <4>1. PICK v : cut = [ch EXCEPT !.version = v]
        BY <3>1, <3>3 DEF WithEdgeClaims
      <4>2. cut = Chart(v, ch.nodes, ch.edges)
        BY <1>1, <4>1, Replaced
      <4>3. cut.nodes = ch.nodes /\ cut.edges = ch.edges /\ Formed(cut)
        BY <4>2, ChartParts
      <4>4. IsChart(cut)
        BY <4>3 DEF IsChart, Formed
      <4>5. Alike(cut, ch)
        BY <4>3 DEF Alike, Ids, Pairs
      <4> QED BY <3>1, <4>4, <4>5, AlikeIsTrue
    <3> QED BY <3>2, <3>3
  <2>3. CASE shaped = PreparedRepair(ch)
    <3>1. PICK cut : cut = IF ch.version = "2.0" THEN WithoutCycles(ch) ELSE ch
      OBVIOUS
    <3>2. PICK made : made = Shaped(cut)
      OBVIOUS
    <3>3. shaped = [made EXCEPT !.partial = made.partial \/ cut # ch]
      BY <2>3, <3>1, <3>2 DEF PreparedRepair
    <3>4. PICK chart, partial : made = [chart |-> chart, partial |-> partial]
      BY <3>2 DEF Shaped
    <3>5. shaped = [chart |-> chart, partial |-> made.partial \/ cut # ch]
      BY <3>3, <3>4
    <3>6. shaped.chart = made.chart /\ ~made.partial /\ cut = ch
      BY <3>4, <3>5
    <3> QED BY <2>1, <3>2, <3>6
  <2> QED BY <2>2, <2>3
<1>3. Reforms(Shaped(cut).chart, cut)
  BY <1>2, ShapedForms DEF IsChart, Formed
<1>4. CASE cut.version = "2.0"
  <2>1. Alike(shaped.chart, cut) /\ shaped.chart.version = "2.0"
    BY <1>2, <1>3, <1>4, ShapedWhole DEF Reforms
  <2>2. Alike(Upgraded(shaped.chart), shaped.chart)
    BY <2>1, UpgradedAlike
  <2>3. Alike(Upgraded(shaped.chart), ch)
    BY <1>2, <1>4, <2>1, <2>2 DEF Alike
  <2> QED BY <1>2, <1>3, <2>3, AlikeIsTrue DEF Reforms
<1>5. CASE cut.version # "2.0"
  <2>1. shaped.chart = cut
    BY <1>2, <1>5 DEF Shaped
  <2> QED BY <1>2, <1>3, <2>1, UpgradedAlike, AlikeStaysTrue DEF Reforms
<1> QED BY <1>4, <1>5

LEMMA ShownWhole ==
  ASSUME NEW p, IsPresentation(p), NEW shaped,
         shaped = Prepared(p.chart) \/ shaped = PreparedRepair(p.chart), ~AsShown(p, shaped).partial
  PROVE  Represents(AsShown(p, shaped).shown, p)
<1>1. CASE p.kind = "flowchart"
  <2>1. PICK ch : ch = p.chart /\ IsChart(ch)
    BY <1>1 DEF IsPresentation
  <2>2. ~shaped.partial /\ AsShown(p, shaped).shown = FlowOf(Upgraded(shaped.chart))
    BY <1>1 DEF AsShown
  <2>3. Formed(shaped.chart) /\ TrueTo(Upgraded(shaped.chart), ch)
    BY <2>1, <2>2, PreparedWhole
  <2>4. PICK chart : chart = Upgraded(shaped.chart) /\ Formed(chart)
    BY <2>3, EveryStepForms
  <2>7. PICK shown : shown = AsShown(p, shaped).shown /\ shown = FlowOf(chart)
    BY <2>2, <2>4
  <2>8. shown.kind = "flowchart" /\ shown.chart = chart
    BY <2>7 DEF FlowOf
  <2> QED BY <1>1, <2>1, <2>3, <2>4, <2>7, <2>8 DEF Represents, Presentations
<1>2. CASE p.kind # "flowchart"
  <2>1. AsShown(p, shaped).shown = p
    BY <1>2 DEF AsShown
  <2> QED BY <1>2, <2>1 DEF Represents, IsPresentation, TableOf
<1> QED BY <1>1, <1>2

(* A presentation that is valid for the claims loses nothing if these are  *)
(* all that is left.                                                       *)
LEMMA ListAll ==
  ASSUME NEW seq, IsList(seq)
  PROVE  Only(seq, DOMAIN seq) = seq
<1>1. seq \in Seq(ToSet(seq))
  BY DEF IsList
<1> QED BY <1>1, OnlyAll

LEMMA ChartStays ==
  ASSUME NEW ch, Formed(ch), NEW claims, ValidChart(ch, claims)
  PROVE  LeftOf(ch, claims) = ch
<1>1. /\ IsList(ch.nodes) /\ IsList(ch.edges)
      /\ \A e \in ToSet(ch.edges) : Known(ch, e)
  BY DEF ValidChart, Drawable, WellFormed
<1>2. /\ \A n \in ToSet(ch.nodes) : ToSet(n.claims) \subseteq claims
      /\ \A e \in ToSet(ch.edges) : ToSet(e.claims) \subseteq claims
  <2>1. ClaimsOf(ch) \subseteq claims
    BY DEF ValidChart, RestsOn
  <2>2. ASSUME NEW n \in ToSet(ch.nodes) PROVE ToSet(n.claims) \subseteq claims
    BY <2>1 DEF ClaimsOf
  <2>3. ASSUME NEW e \in ToSet(ch.edges), NEW c \in ToSet(e.claims) PROVE c \in claims
    <3>1. c \in UNION {ToSet(f.claims) : f \in ToSet(ch.edges)}
      OBVIOUS
    <3>2. c \in ClaimsOf(ch)
      BY <3>1, Zenon DEF ClaimsOf
    <3> QED BY <2>1, <3>2
  <2> QED BY <2>2, <2>3
<1>3. PICK ids : ids = {n.id : n \in {x \in ToSet(ch.nodes) : ToSet(x.claims) \subseteq claims}}
  OBVIOUS
<1>4. /\ \A i \in DOMAIN ch.nodes : ch.nodes[i].id \in ids
      /\ \A i \in DOMAIN ch.edges : ch.edges[i].from \in ids /\ ch.edges[i].to \in ids
  <2>1. \A i \in DOMAIN ch.nodes : ch.nodes[i].id \in ids
    BY <1>2, <1>3 DEF ToSet
  <2>2. \A i \in DOMAIN ch.edges : Known(ch, ch.edges[i])
    BY <1>1 DEF ToSet
  <2> QED BY <2>1, <2>2 DEF Known, Ids
<1>5. {i \in DOMAIN ch.edges : ToSet(ch.edges[i].claims) \subseteq claims} = DOMAIN ch.edges
  BY <1>2 DEF ToSet
<1>6. PICK resting : /\ resting = Only(ch.edges, {i \in DOMAIN ch.edges : ToSet(ch.edges[i].claims) \subseteq claims})
                     /\ resting = ch.edges
  BY <1>1, <1>5, ListAll
<1>7. [ch EXCEPT !.edges = resting] = ch
  <2>1. [ch EXCEPT !.edges = resting] = Chart(ch.version, ch.nodes, resting)
    BY Replaced
  <2> QED BY <1>6, <2>1 DEF Formed
<1>8. LeftOf(ch, claims) = Restricted(ch, ids)
  <2>1. LeftOf(ch, claims) = Restricted([ch EXCEPT !.edges = resting], ids)
    BY <1>3, <1>6 DEF LeftOf
  <2> QED BY <1>7, <2>1
<1>9. /\ {i \in DOMAIN ch.nodes : ch.nodes[i].id \in ids} = DOMAIN ch.nodes
      /\ {i \in DOMAIN ch.edges : ch.edges[i].from \in ids /\ ch.edges[i].to \in ids} = DOMAIN ch.edges
  BY <1>4
<1>10. PICK nodes, edges :
         /\ nodes = Only(ch.nodes, {i \in DOMAIN ch.nodes : ch.nodes[i].id \in ids}) /\ nodes = ch.nodes
         /\ edges = Only(ch.edges, {i \in DOMAIN ch.edges : ch.edges[i].from \in ids /\ ch.edges[i].to \in ids})
         /\ edges = ch.edges
  BY <1>1, <1>9, ListAll
<1>11. Restricted(ch, ids) = [[ch EXCEPT !.nodes = nodes] EXCEPT !.edges = edges]
  <2>1. ch.edges = [ch EXCEPT !.nodes = nodes].edges
    <3>1. [ch EXCEPT !.nodes = nodes] = Chart(ch.version, nodes, ch.edges)
      BY Replaced
    <3> QED BY <3>1, ChartParts
  <2> QED BY <1>10, <2>1 DEF Restricted
<1>12. [ch EXCEPT !.nodes = nodes] = ch
  <2>1. [ch EXCEPT !.nodes = nodes] = Chart(ch.version, nodes, ch.edges)
    BY Replaced
  <2> QED BY <1>10, <2>1 DEF Formed
<1>13. [ch EXCEPT !.edges = edges] = ch
  <2>1. [ch EXCEPT !.edges = edges] = Chart(ch.version, ch.nodes, edges)
    BY Replaced
  <2> QED BY <1>10, <2>1 DEF Formed
<1> QED BY <1>8, <1>11, <1>12, <1>13

LEMMA TableStays ==
  ASSUME NEW rows, IsList(rows), NEW claims, ValidTable(rows, claims)
  PROVE  Only(rows, {i \in DOMAIN rows : rows[i] \subseteq claims}) = rows
<1>1. {i \in DOMAIN rows : rows[i] \subseteq claims} = DOMAIN rows
  BY DEF ValidTable
<1> QED BY <1>1, ListAll

LEMMA WholeStays ==
  ASSUME NEW shown, NEW p, Represents(shown, p), NEW claims, ValidPresentation(shown, claims)
  PROVE  Kept(shown, claims) = shown
<1>0. shown.kind \in Presentations
  BY DEF Represents
<1> DEFINE rest == CASE shown.kind = "text" -> shown
                     [] shown.kind = "table" -> TableOf(Only(shown.rows, {i \in DOMAIN shown.rows : shown.rows[i] \subseteq claims}))
                     [] shown.kind = "flowchart" -> FlowOf(LeftOf(shown.chart, claims))
<1>1. CASE shown.kind = "text"
  <2>1. rest = shown
    BY <1>1, Zenon
  <2> QED BY <2>1, Zenon DEF Kept
<1>2. CASE shown.kind = "table"
  <2>1. shown = TableOf(shown.rows) /\ IsList(shown.rows)
    BY <1>2 DEF Represents
  <2>2. ValidTable(shown.rows, claims)
    BY <1>2, Zenon DEF ValidPresentation
  <2>3. Only(shown.rows, {i \in DOMAIN shown.rows : shown.rows[i] \subseteq claims}) = shown.rows
    BY <2>1, <2>2, TableStays
  <2>4. rest = TableOf(Only(shown.rows, {i \in DOMAIN shown.rows : shown.rows[i] \subseteq claims}))
    BY <1>2, Zenon
  <2>5. rest = shown
    BY <2>1, <2>3, <2>4, Zenon
  <2> QED BY <2>5, Zenon DEF Kept
<1>3. CASE shown.kind = "flowchart"
  <2>1. shown = FlowOf(shown.chart) /\ Formed(shown.chart)
    BY <1>3 DEF Represents
  <2>2. ValidChart(shown.chart, claims)
    BY <1>3, Zenon DEF ValidPresentation
  <2>3. LeftOf(shown.chart, claims) = shown.chart
    BY <2>1, <2>2, ChartStays
  <2>4. rest = FlowOf(LeftOf(shown.chart, claims))
    BY <1>3, Zenon
  <2>5. rest = shown
    BY <2>1, <2>3, <2>4, Zenon
  <2> QED BY <2>5, Zenon DEF Kept
<1> QED BY <1>0, <1>1, <1>2, <1>3 DEF Presentations

LEMMA WholeInit == Init => DraftWhole
<1> SUFFICES ASSUME Init PROVE DraftWhole
  OBVIOUS
<1>1. stage = "agent" /\ answer = Unanswered("none")
  BY DEF Init
<1> QED BY <1>1 DEF DraftWhole, CompleteAnswerIsWhole, Unanswered

(* A step that does not answer, and leaves what was drafted.               *)
LEMMA WholeMoves ==
  ASSUME DraftWhole, draft' = draft, drawn' = drawn,
         stage' \in {"repair", "screen", "verify"} => stage' = stage \/ (stage = "screen" /\ stage' = "verify"),
         answer' = answer \/ \E end \in {"none", "refused", "clarification", "no_evidence", "social", "blocked"} :
                                 answer' = Unanswered(end)
  PROVE  DraftWhole'
<1>1. CompleteAnswerIsWhole'
  <2>1. CASE answer' = answer
    BY <2>1 DEF DraftWhole, CompleteAnswerIsWhole
  <2>2. CASE answer' # answer
    <3>1. answer'.end # "answered"
      BY <2>2 DEF Unanswered
    <3> QED BY <3>1 DEF CompleteAnswerIsWhole
  <2> QED BY <2>1, <2>2
<1>2. stage' = "repair" => draft'.shown = Plain /\ drawn' = Plain
  BY DEF DraftWhole
<1>3. stage' \in {"screen", "verify"} /\ ~draft'.partial =>
        Represents(draft'.shown, drawn') /\ ValidPresentation(draft'.shown, draft'.claims)
  BY DEF DraftWhole
<1> QED BY <1>1, <1>2, <1>3 DEF DraftWhole, Represents, ValidPresentation

LEMMA WholeGenerate ==
  ASSUME Inv, DraftWhole, Generate
  PROVE  DraftWhole'
<1>1. PICK d, p, made :
        /\ d \in Drafts /\ p \in Scenario[question].offers /\ made = AsShown(p, Prepared(p.chart))
        /\ IF ValidPresentation(made.shown, d.claims)
           THEN /\ draft' = [d EXCEPT !.partial = @ \/ made.partial, !.shown = made.shown]
                /\ drawn' = p
                /\ Goto("screen")
           ELSE /\ draft' = [d EXCEPT !.partial = @ \/ made.partial]
                /\ drawn' = Plain
                /\ Goto("repair")
  BY DEF Generate
<1>2. stage = "generate" /\ answer' = answer /\ answer = Unanswered("none")
  BY DEF Generate, Inv, Before
<1>3. answer'.end # "answered"
  BY <1>2 DEF Unanswered
<1>4. /\ d.shown = Plain
      /\ d = [claims |-> d.claims, cites |-> d.cites, context |-> d.context,
              partial |-> d.partial, shown |-> d.shown]
  BY <1>1, DraftsTyped DEF Inv, Shapes
<1>5. CASE ValidPresentation(made.shown, d.claims)
  <2>1. draft' = [d EXCEPT !.partial = d.partial \/ made.partial, !.shown = made.shown]
    BY <1>1, <1>5
  <2>2. /\ draft'.shown = made.shown /\ draft'.claims = d.claims
        /\ draft'.partial = (d.partial \/ made.partial)
    BY <1>4, <2>1
  <2>3. drawn' = p /\ stage' = "screen"
    BY <1>1, <1>5 DEF Goto
  <2>4. IsPresentation(p)
    BY <1>1, EvidenceAssumption DEF Inv, Shapes
  <2>5. PICK shaped : shaped = Prepared(p.chart) /\ made = AsShown(p, shaped)
    BY <1>1
  <2>6. ~made.partial => Represents(made.shown, p)
    BY <2>4, <2>5, ShownWhole
  <2>7. ~draft'.partial => Represents(draft'.shown, drawn') /\ ValidPresentation(draft'.shown, draft'.claims)
    BY <1>5, <2>2, <2>3, <2>6
  <2> QED BY <1>3, <2>3, <2>7 DEF DraftWhole, CompleteAnswerIsWhole
<1>6. CASE ~ValidPresentation(made.shown, d.claims)
  <2>1. draft'.shown = Plain /\ drawn' = Plain /\ stage' = "repair"
    BY <1>1, <1>4, <1>6 DEF Goto
  <2> QED BY <1>3, <2>1 DEF DraftWhole, CompleteAnswerIsWhole
<1> QED BY <1>5, <1>6

LEMMA WholeRepair ==
  ASSUME Inv, DraftWhole, Repair
  PROVE  DraftWhole'
<1>1. PICK p, made :
        /\ p \in Scenario[question].offers /\ made = AsShown(p, PreparedRepair(p.chart))
        /\ IF ValidPresentation(made.shown, draft.claims)
           THEN /\ draft' = [draft EXCEPT !.partial = @ \/ made.partial, !.shown = made.shown]
                /\ drawn' = p
           ELSE draft' = draft /\ drawn' = drawn
  BY DEF Repair
<1>2. stage = "repair" /\ stage' = "screen" /\ answer' = answer /\ answer = Unanswered("none")
  BY DEF Repair, Goto, Inv, Before
<1>3. answer'.end # "answered"
  BY <1>2 DEF Unanswered
<1>4. draft.shown = Plain /\ drawn = Plain
  BY <1>2 DEF DraftWhole
<1>5. CASE ValidPresentation(made.shown, draft.claims)
  <2>1. draft = [claims |-> draft.claims, cites |-> draft.cites, context |-> draft.context,
                 partial |-> draft.partial, shown |-> draft.shown]
    BY DEF Inv, Drafted
  <2>2. draft' = [draft EXCEPT !.partial = draft.partial \/ made.partial, !.shown = made.shown]
    BY <1>1, <1>5
  <2>3. /\ draft'.shown = made.shown /\ draft'.claims = draft.claims
        /\ draft'.partial = (draft.partial \/ made.partial) /\ drawn' = p
    BY <1>1, <1>5, <2>1, <2>2
  <2>4. IsPresentation(p)
    BY <1>1, EvidenceAssumption DEF Inv, Shapes
  <2>5. PICK shaped : shaped = PreparedRepair(p.chart) /\ made = AsShown(p, shaped)
    BY <1>1
  <2>6. ~made.partial => Represents(made.shown, p)
    BY <2>4, <2>5, ShownWhole
  <2>7. ~draft'.partial => Represents(draft'.shown, drawn') /\ ValidPresentation(draft'.shown, draft'.claims)
    BY <1>5, <2>3, <2>6
  <2> QED BY <1>2, <1>3, <2>7 DEF DraftWhole, CompleteAnswerIsWhole
<1>6. CASE ~ValidPresentation(made.shown, draft.claims)
  <2>1. draft'.shown = Plain /\ drawn' = Plain
    BY <1>1, <1>4, <1>6
  <2>2. Represents(draft'.shown, drawn') /\ ValidPresentation(draft'.shown, draft'.claims)
    BY <2>1, PlainIsWhole
  <2> QED BY <1>2, <1>3, <2>2 DEF DraftWhole, CompleteAnswerIsWhole
<1> QED BY <1>5, <1>6

LEMMA WholeVerify ==
  ASSUME Inv, DraftWhole, NEW j, Verify(j)
  PROVE  DraftWhole'
<1>1. stage = "verify" /\ stage' = "done" /\ draft' = draft /\ drawn' = drawn
  BY DEF Verify, Finish, Goto
<1>2. PICK claims : answer' = Assembled(claims) \/ answer' = Unanswered("refused")
  BY DEF Verify, Finish
<1>3. CASE answer'.end # "answered"
  BY <1>1, <1>3 DEF DraftWhole, CompleteAnswerIsWhole
<1>4. CASE answer'.end = "answered"
  <2>1. answer' = Assembled(claims)
    BY <1>2, <1>4 DEF Unanswered
  <2>2. ~draft.partial /\ claims = draft.claims /\ answer'.claims = claims
        /\ answer'.shown = Kept(draft.shown, claims)
    BY <1>4, <2>1 DEF Assembled, Repaired
  <2>3. Represents(draft.shown, drawn) /\ ValidPresentation(draft.shown, draft.claims)
    BY <1>1, <2>2 DEF DraftWhole
  <2>4. answer'.shown = draft.shown
    BY <2>2, <2>3, WholeStays
  <2>5. CompleteAnswerIsWhole'
    BY <1>1, <2>2, <2>3, <2>4 DEF CompleteAnswerIsWhole, Represents
  <2> QED BY <1>1, <2>5 DEF DraftWhole
<1> QED BY <1>3, <1>4

LEMMA WholeNext == Inv /\ DraftWhole /\ [Next]_vars => DraftWhole'
<1> SUFFICES ASSUME Inv, DraftWhole, [Next]_vars PROVE DraftWhole'
  OBVIOUS
<1>1. ASSUME NEW v \in Versions, Ingest(v) \/ Unindex(v) \/ Unsave(v) PROVE DraftWhole'
  BY <1>1, WholeMoves DEF Ingest, Unindex, Unsave
<1>2. CASE Attach \/ SearchPublic \/ SearchDocuments \/ RequestClarification
  BY <1>2, WholeMoves DEF Attach, SearchPublic, SearchDocuments, Collect, RequestClarification
<1>3. CASE FinalizeWithout
  <2>1. /\ draft' = draft /\ drawn' = drawn /\ stage' = "done"
        /\ \E end \in {"none", "refused", "clarification", "no_evidence", "social", "blocked"} :
             answer' = Unanswered(end)
    BY <1>3 DEF FinalizeWithout, Finish, Goto
  <2> QED BY <2>1, WholeMoves
<1>4. CASE Finalize \/ SourcesRead \/ Refuse \/ Fail \/ Stop
  <2>1. /\ draft' = draft /\ drawn' = drawn /\ stage' \notin {"repair", "screen", "verify"}
        /\ answer' = answer \/ answer' = Unanswered("refused")
    BY <1>4 DEF Finalize, SourcesRead, Refuse, Fail, Stop, Finish, Goto
  <2> QED BY <2>1, WholeMoves
<1>5. ASSUME NEW c \in unread, ReadSource(c) PROVE DraftWhole'
  BY <1>5, WholeMoves DEF ReadSource
<1>6. CASE Screen
  <2>1. /\ draft' = draft /\ drawn' = drawn /\ stage = "screen" /\ stage' \in {"done", "verify"}
        /\ answer' = answer \/ answer' = Unanswered("refused")
    BY <1>6 DEF Screen, Finish, Goto
  <2> QED BY <2>1, WholeMoves
<1>7. ASSUME NEW j \in Judgements, Verify(j) PROVE DraftWhole'
  BY <1>7, WholeVerify
<1>8. CASE UNCHANGED vars
  BY <1>8, WholeMoves DEF vars
<1> QED BY <1>1, <1>2, <1>3, <1>4, <1>5, <1>6, <1>7, <1>8, WholeGenerate, WholeRepair DEF Next

(* An answer that is marked as complete has the claims of the draft, and   *)
(* its chart the nodes and joined pairs that the model drew: whatever is   *)
(* dropped on the way, some list is shorter then, and the answer is marked *)
(* as partial.  But not for what is dropped of a chart of the first        *)
(* version, edges that do not move and nodes without edges: that such a    *)
(* chart has all the others is what is proved of it.                       *)
THEOREM CompleteAnswersAreWhole == Spec => []CompleteAnswerIsWhole
<1>1. Init => Inv /\ DraftWhole
  BY InvInit, WholeInit
<1>2. Inv /\ DraftWhole /\ [Next]_vars => (Inv /\ DraftWhole)'
  BY InvNext, WholeNext
<1>3. DraftWhole => CompleteAnswerIsWhole
  BY DEF DraftWhole
<1> QED BY <1>1, <1>2, <1>3, PTL DEF Spec

-----------------------------------------------------------------------------
(* Chunks                                                                  *)

(* What is indexed of a version is what its document was split into, and a *)
(* version that is read again is not indexed: a document with chunks has   *)
(* pages.                                                                  *)
ChunksMade ==
  /\ DOMAIN pages = Versions /\ DOMAIN chunks = Versions
  /\ indexed \subseteq Versions
  /\ \A v \in indexed : pages[v] \in Seq(Text) \ {<<>>} /\ chunks[v] = ChunkPages(pages[v])

LEMMA ChunksMadeInit == Init => ChunksMade
  BY DEF Init, ChunksMade

LEMMA ChunksMadeIngest ==
  ASSUME ChunksMade, Inv, NEW v \in Versions, Ingest(v)
  PROVE  ChunksMade'
<1>1. PICK document \in Scenario[question].library[v] : \E pieces \in {ChunkPages(document)} :
        /\ pages' = [pages EXCEPT ![v] = document]
        /\ IF Accepted(pieces)
           THEN chunks' = [chunks EXCEPT ![v] = pieces] /\ indexed' = indexed \cup {v}
           ELSE UNCHANGED <<chunks, indexed>>
  BY DEF Ingest
<1>2. pages[v] = <<>> /\ v \notin indexed
  BY DEF Ingest, ChunksMade
<1>3. document \in Seq(Text)
  BY EvidenceAssumption DEF Inv, Shapes
<1>4. /\ DOMAIN pages' = Versions /\ DOMAIN chunks' = Versions
      /\ indexed' \subseteq Versions
      /\ pages'[v] = document /\ \A w \in Versions \ {v} : pages'[w] = pages[w] /\ chunks'[w] = chunks[w]
  BY <1>1 DEF ChunksMade
<1>5. \A w \in indexed' \ {v} : w \in indexed
  BY <1>1
<1>6. ASSUME v \in indexed'
      PROVE  pages'[v] \in Seq(Text) \ {<<>>} /\ chunks'[v] = ChunkPages(pages'[v])
  <2>1. Accepted(ChunkPages(document)) /\ chunks'[v] = ChunkPages(document)
    BY <1>1, <1>2, <1>6 DEF ChunksMade
  <2>2. document # <<>>
    BY <1>3, <2>1, PagesChunked DEF Accepted
  <2> QED BY <1>3, <1>4, <2>1, <2>2
<1> QED BY <1>2, <1>4, <1>5, <1>6 DEF ChunksMade

LEMMA ChunksMadeNext == ChunksMade /\ Inv /\ [Next]_vars => ChunksMade'
<1> SUFFICES ASSUME ChunksMade, Inv, [Next]_vars PROVE ChunksMade'
  OBVIOUS
<1>1. ASSUME NEW v \in Versions, Ingest(v) PROVE ChunksMade'
  BY <1>1, ChunksMadeIngest
<1>2. ASSUME NEW v \in Versions, Unindex(v) \/ Unsave(v) PROVE ChunksMade'
  <2>1. UNCHANGED <<pages, chunks>> /\ indexed' \subseteq indexed
    BY <1>2 DEF Unindex, Unsave
  <2> QED BY <2>1 DEF ChunksMade
<1>3. ASSUME UNCHANGED docVars PROVE ChunksMade'
  BY <1>3 DEF docVars, ChunksMade
<1>4. Attach \/ SearchPublic \/ SearchDocuments \/ RequestClarification => UNCHANGED docVars
  BY DEF Attach, SearchPublic, SearchDocuments, Collect, RequestClarification
<1>5. FinalizeWithout \/ Finalize \/ SourcesRead \/ Refuse \/ Fail \/ Stop => UNCHANGED docVars
  BY DEF FinalizeWithout, Finalize, SourcesRead, Refuse, Fail, Stop
<1>6. (\E c \in unread : ReadSource(c)) \/ Generate \/ Repair \/ Screen => UNCHANGED docVars
  BY DEF ReadSource, Generate, Repair, Screen
<1>7. (\E j \in Judgements : Verify(j)) \/ UNCHANGED vars => UNCHANGED docVars
  BY DEF Verify, vars
<1> QED BY <1>1, <1>2, <1>3, <1>4, <1>5, <1>6, <1>7 DEF Next

(* The chunks in the index have every letter of the pages they were made   *)
(* of, whichever documents were read, refused or deleted and in any order; *)
(* for any texts, sizes and overlap.                                       *)
THEOREM IndexedPagesAreWhole == Spec => []NothingIsLost
<1>1. ASSUME ChunksMade PROVE NothingIsLost
  <2>1. SUFFICES ASSUME NEW v \in indexed, NEW p \in DOMAIN pages[v]
                 PROVE  /\ LettersIn(pages[v][p]) = UNION {LettersIn(text) : text \in ChunksOn(v, p)}
                        /\ \A text \in ChunksOn(v, p) :
                             /\ \E i \in DOMAIN pages[v][p] : \E j \in i - 1..Len(pages[v][p]) :
                                  LettersIn(SubSeq(pages[v][p], i, j)) = LettersIn(text)
                             /\ Size(text) <= ChunkSize + ChunkOverlap
    BY DEF NothingIsLost
  <2>2. pages[v] \in Seq(Text) /\ chunks[v] = ChunkPages(pages[v])
    BY <1>1 DEF ChunksMade
  <2>3. PICK page \in Text : page = pages[v][p]
    BY <2>2, LenProperties
  <2>4. ChunksOn(v, p) = ToSet(SplitText(Strip(page)))
    BY <2>2, <2>3, PagesChunked DEF ChunksOn, OnPage
  <2> QED BY <2>3, <2>4, SplittingLosesNothing
<1>2. Init => Inv /\ ChunksMade
  BY InvInit, ChunksMadeInit
<1>3. Inv /\ ChunksMade /\ [Next]_vars => (Inv /\ ChunksMade)'
  BY InvNext, ChunksMadeNext
<1> QED BY <1>1, <1>2, <1>3, PTL DEF Spec
=============================================================================
