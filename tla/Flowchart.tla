------------------------------ MODULE Flowchart ------------------------------
(***************************************************************************)
(* Flowcharts of answers: what the server makes of a chart the model drew  *)
(* (infra/qa/structured.py), when it may be shown (domain/qa.py) and what  *)
(* is left of it when claims are removed (app/use_cases/evidence_qa.py).   *)
(*                                                                         *)
(* Titles are left out.  Node identifiers are distinct.  Conditions are    *)
(* labels that differ after the normalisation of structured.py; domain/    *)
(* qa.py also folds the width of characters, so that FoldOf may identify   *)
(* two of them.                                                            *)
(***************************************************************************)
EXTENDS Lists

CONSTANTS
  ClaimIds,
  Conditions,
  NoCondition,      (* the condition of a plain edge                       *)
  FoldOf,           (* a condition as domain/qa.py compares it             *)
  ClaimText         (* what a claim says, as far as charts look at it      *)

Kinds == {"start", "action", "decision", "merge", "terminal"}

FlowchartAssumption ==
  /\ NoCondition \notin Conditions
  /\ FoldOf \in [Conditions \cup {NoCondition} -> Conditions \cup {NoCondition}]
  /\ \A c \in Conditions : FoldOf[c] # NoCondition
  /\ FoldOf[NoCondition] = NoCondition
  /\ ClaimText \in [ClaimIds -> [words : SUBSET Conditions,         (* phrases in it     *)
                                 lead : Conditions \cup {NoCondition},  (* its first phrase  *)
                                 moves : BOOLEAN]]                  (* "then", "first"... *)
  /\ \A c \in ClaimIds : ClaimText[c].lead \in ClaimText[c].words \cup {NoCondition}

ASSUME FlowchartAssumption

Node(id, kind, claims) == [id |-> id, kind |-> kind, claims |-> claims]
Edge(from, to, cond, claims) == [from |-> from, to |-> to, cond |-> cond, claims |-> claims]
Chart(version, nodes, edges) == [version |-> version, nodes |-> nodes, edges |-> edges]
IsChart(ch) ==
  /\ ch = Chart(ch.version, ch.nodes, ch.edges)
  /\ IsList(ch.nodes) /\ \A n \in ToSet(ch.nodes) : n = Node(n.id, n.kind, n.claims)
  /\ IsList(ch.edges) /\ \A e \in ToSet(ch.edges) : e = Edge(e.from, e.to, e.cond, e.claims)

Ids(ch) == {ch.nodes[i].id : i \in DOMAIN ch.nodes}
NodeOf(ch, id) == CHOOSE n \in ToSet(ch.nodes) : n.id = id
Leaving(ch, id) == {i \in DOMAIN ch.edges : ch.edges[i].from = id}
Entering(ch, id) == {i \in DOMAIN ch.edges : ch.edges[i].to = id}
KeyOf(e) == <<e.from, e.to, e.cond>>

(* The arrows between known nodes, and what can be reached along arrows:   *)
(* what no set that is closed under them leaves out.                       *)
Known(ch, e) == e.from \in Ids(ch) /\ e.to \in Ids(ch)
Arrows(ch) == {<<e.from, e.to>> : e \in {x \in ToSet(ch.edges) : Known(ch, x)}}
Closed(S, arrows) == \A a \in arrows : a[1] \in S => a[2] \in S
Reach(arrows, id) ==
  LET ahead == {id} \cup {a[2] : a \in arrows}
  IN  {x \in ahead : \A S \in SUBSET ahead : id \in S /\ Closed(S, arrows) => x \in S}

Says(c, cond) == c \in ClaimIds /\ cond \in ClaimText[c].words
SaysFolded(c, cond) ==
  c \in ClaimIds /\ \E word \in ClaimText[c].words : FoldOf[word] = FoldOf[cond]

-----------------------------------------------------------------------------
(* Normalisation of what the model drew                                    *)

(* A chart of the first version has no kinds.  Its edges take the claims   *)
(* of their target and are dropped if none of these tells of a transition; *)
(* nodes without edges are dropped with them.                              *)
Legacy(ch) ==
  \/ ch.version = "1.0"
  \/ ch.version = "none" /\ \E n \in ToSet(ch.nodes) : n.kind = "unset"

(* Faulty: the claims the model gave the edge are asked.                   *)
MovesItself(ch, e) == e.to \in Ids(ch) /\ \E c \in ToSet(e.claims) \cap ClaimIds : ClaimText[c].moves
Moves(ch, e) == e.to \in Ids(ch) /\ \E c \in ToSet(NodeOf(ch, e.to).claims) \cap ClaimIds : ClaimText[c].moves

WithEdgeClaims(ch) ==
  LET inherited(e) == NodeOf(ch, e.to).claims
      kept == Only(ch.edges, {i \in DOMAIN ch.edges : Moves(ch, ch.edges[i])})
      used == {e.from : e \in ToSet(kept)} \cup {e.to : e \in ToSet(kept)}
  IN  IF Legacy(ch)
      THEN [ch EXCEPT !.edges = [i \in DOMAIN kept |-> [kept[i] EXCEPT !.claims = inherited(kept[i])]],
                      !.nodes = Only(@, {i \in DOMAIN @ : @[i].id \in used})]
      ELSE [ch EXCEPT !.version = IF @ = "none" THEN "2.0" ELSE @]

DedupeEdges(ch) == [ch EXCEPT !.edges = Firsts(@, [i \in DOMAIN @ |-> KeyOf(@[i])])]

KindAt(ch, id) ==
  LET incoming == Cardinality(Entering(ch, id))
      outgoing == Cardinality(Leaving(ch, id))
  IN  IF incoming = 0 THEN "start"
      ELSE IF outgoing = 0 THEN "terminal"
      ELSE IF outgoing >= 2 THEN "decision"
      ELSE IF incoming >= 2 THEN "merge" ELSE "action"

WithKinds(ch) ==
  [ch EXCEPT !.nodes = [i \in DOMAIN @ |-> [@[i] EXCEPT !.kind = KindAt(ch, ch.nodes[i].id)]]]

IsDecision(ch, id) == \E n \in ToSet(ch.nodes) : n.id = id /\ n.kind = "decision"

(* The first phrase of the first claim that has one.                       *)
DerivedCondition(claims) ==
  LET led == SelectSeq(claims, LAMBDA c : c \in ClaimIds /\ ClaimText[c].lead # NoCondition)
  IN  IF led = <<>> THEN NoCondition ELSE ClaimText[Head(led)].lead

ConditionOf(ch, e) ==
  IF e.cond # NoCondition /\ \E c \in ToSet(e.claims) : Says(c, e.cond) THEN e.cond
  ELSE IF ~IsDecision(ch, e.from) THEN NoCondition
  ELSE IF DerivedCondition(e.claims) # NoCondition THEN DerivedCondition(e.claims)
  ELSE e.cond

WithConditions(ch) ==
  [ch EXCEPT !.edges = [i \in DOMAIN @ |-> [@[i] EXCEPT !.cond = ConditionOf(ch, ch.edges[i])]]]

DedupeExits(ch) ==
  LET exit(e) == e.cond # NoCondition /\ IsDecision(ch, e.from)
      before(i) == {ch.edges[j] : j \in 1..(i - 1)}
      again(i, e) == \E x \in before(i) : x.from = e.from /\ x.cond = e.cond
  IN  [ch EXCEPT !.edges = Only(@, {i \in DOMAIN @ : ~(exit(@[i]) /\ again(i, @[i]))})]

(* Of several roots keep the one that reaches most, explicit starts first. *)
Position(ch, id) == SelectInSeq(ch.nodes, LAMBDA n : n.id = id)
PrimaryRoot(ch) ==
  LET arrows == Arrows(ch)
      roots == {id \in Ids(ch) : \A a \in arrows : a[2] # id}
      starts == {id \in roots : NodeOf(ch, id).kind = "start"}
      candidates == IF starts = {} THEN roots ELSE starts
      size(id) == Cardinality(Reach(arrows, id))
      most == Max({size(id) : id \in candidates})
      first == SelectInSeq(ch.nodes, LAMBDA n : n.id \in candidates /\ size(n.id) = most)
  IN  IF Cardinality(roots) <= 1 THEN {} ELSE {ch.nodes[first].id}

Restricted(ch, ids) ==
  [ch EXCEPT !.nodes = Only(@, {i \in DOMAIN @ : @[i].id \in ids}),
             !.edges = Only(@, {i \in DOMAIN @ : @[i].from \in ids /\ @[i].to \in ids})]

Pruned(ch) ==
  LET rooted(root) ==
        IF root = {} THEN ch
        ELSE Restricted(ch, UNION {Reach(Arrows(ch), id) : id \in root})
  IN  rooted(PrimaryRoot(ch))

(* Edges that close a cycle with those before them are dropped.            *)
WithoutCycles(ch) ==
  LET closes(kept, e) == Known(ch, e) /\ e.from \in Reach(Arrows([ch EXCEPT !.edges = kept]), e.to)
  IN  [ch EXCEPT !.edges = FoldLeft(LAMBDA kept, e : IF closes(kept, e) THEN kept ELSE Append(kept, e),
                                    <<>>, @)]

(* Conditions first, then exits that cannot be told apart and parts that   *)
(* no path leads to are dropped.                                           *)
Labelled(ch) == WithConditions(WithKinds(DedupeEdges(ch)))
Trimmed(labelled) == WithKinds(Pruned(WithKinds(DedupeExits(labelled))))

(* Faulty: a pruned chart is not told.                                     *)
ShapedQuietly(ch) ==
  LET outcome(labelled, trimmed) ==
        [chart |-> trimmed,
         partial |-> Len(trimmed.nodes) = Len(ch.nodes) /\ Len(trimmed.edges) # Len(labelled.edges)]
      from(labelled) == outcome(labelled, Trimmed(labelled))
  IN  IF ch.version = "2.0" THEN from(Labelled(ch)) ELSE [chart |-> ch, partial |-> FALSE]

(* Whatever is dropped but for repeated edges makes the answer partial.    *)
Shaped(ch) ==
  LET outcome(labelled, trimmed) ==
        [chart |-> trimmed,
         partial |-> Len(trimmed.edges) # Len(labelled.edges) \/ Len(trimmed.nodes) # Len(ch.nodes)]
      from(labelled) == outcome(labelled, Trimmed(labelled))
  IN  IF ch.version = "2.0" THEN from(Labelled(ch)) ELSE [chart |-> ch, partial |-> FALSE]

(* A chart with the claims, and one that was asked for to repair it.       *)
Prepared(ch) == Shaped(WithEdgeClaims(ch))
PreparedRepair(ch) ==
  LET from(cut) == [Shaped(cut) EXCEPT !.partial = @ \/ cut # ch]
  IN  from(IF ch.version = "2.0" THEN WithoutCycles(ch) ELSE ch)

-----------------------------------------------------------------------------
(* What may be shown                                                       *)

(* Kinds are inferred for a chart of the first version.                    *)
Upgraded(ch) ==
  IF ch.version = "2.0" THEN ch
  ELSE [ch EXCEPT !.version = "2.0",
                  !.nodes = [i \in DOMAIN @ |->
                     IF @[i].kind = "unset" THEN [@[i] EXCEPT !.kind = KindAt(ch, ch.nodes[i].id)] ELSE @[i]]]

FoldedKey(e) == <<e.from, e.to, FoldOf[e.cond]>>

WellFormed(ch) ==
  /\ IsList(ch.nodes) /\ IsList(ch.edges)
  /\ Len(ch.nodes) \in 2..24 /\ Len(ch.edges) \in 1..48
  /\ \A n \in ToSet(ch.nodes) : n.kind \in Kinds /\ n.claims # <<>>
  /\ \A e \in ToSet(ch.edges) : e.claims # <<>> /\ e.from # e.to /\ Known(ch, e)
  /\ \A i, j \in DOMAIN ch.edges : FoldedKey(ch.edges[i]) = FoldedKey(ch.edges[j]) => i = j

Acyclic(ch) == \A a \in Arrows(ch) : a[1] \notin Reach(Arrows(ch), a[2])

ExitsDiffer(ch, id) ==
  \A i, j \in Leaving(ch, id) :
    /\ ch.edges[i].cond # NoCondition
    /\ FoldOf[ch.edges[i].cond] = FoldOf[ch.edges[j].cond] => i = j

(* Faulty: the exits of a decision are not compared.                       *)
DegreesOnlyFit(ch, n) ==
  LET incoming == Cardinality(Entering(ch, n.id))
      outgoing == Cardinality(Leaving(ch, n.id))
  IN  CASE n.kind = "start" -> incoming = 0 /\ outgoing >= 1
        [] n.kind = "decision" -> outgoing >= 2
        [] n.kind = "action" -> outgoing <= 1
        [] n.kind = "merge" -> incoming >= 2 /\ outgoing <= 1
        [] n.kind = "terminal" -> outgoing = 0

KindFits(ch, n) ==
  LET incoming == Cardinality(Entering(ch, n.id))
      outgoing == Cardinality(Leaving(ch, n.id))
  IN  CASE n.kind = "start" -> incoming = 0 /\ outgoing >= 1
        [] n.kind = "decision" -> outgoing >= 2 /\ ExitsDiffer(ch, n.id)
        [] n.kind = "action" -> outgoing <= 1
        [] n.kind = "merge" -> incoming >= 2 /\ outgoing <= 1
        [] n.kind = "terminal" -> outgoing = 0

NodesOfKind(ch, kind) == {n \in ToSet(ch.nodes) : n.kind = kind}

Drawable(ch) ==
  /\ WellFormed(ch)
  /\ Acyclic(ch)
  /\ Cardinality(NodesOfKind(ch, "start")) = 1
  /\ NodesOfKind(ch, "terminal") # {}
  /\ \A n \in ToSet(ch.nodes) : KindFits(ch, n)
  /\ \A n \in NodesOfKind(ch, "start") : Ids(ch) = Reach(Arrows(ch), n.id)

ClaimsOf(ch) ==
  (UNION {ToSet(n.claims) : n \in ToSet(ch.nodes)}) \cup (UNION {ToSet(e.claims) : e \in ToSet(ch.edges)})

(* It rests on the claims of the answer and takes its conditions from them. *)
RestsOn(ch, claims) ==
  /\ ClaimsOf(ch) \subseteq claims
  /\ \A e \in ToSet(ch.edges) :
       e.cond # NoCondition => \E c \in ToSet(e.claims) : SaysFolded(c, e.cond)

ValidChart(ch, claims) == Drawable(ch) /\ RestsOn(ch, claims)

(* What is left when only these claims are.                                *)
LeftOf(ch, claims) ==
  LET ids == {n.id : n \in {x \in ToSet(ch.nodes) : ToSet(x.claims) \subseteq claims}}
      resting == Only(ch.edges, {i \in DOMAIN ch.edges : ToSet(ch.edges[i].claims) \subseteq claims})
  IN  Restricted([ch EXCEPT !.edges = resting], ids)
=============================================================================
