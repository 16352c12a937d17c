---------------------------- MODULE MCKnowledge ----------------------------
(* Instances of the knowledge base for TLC.                                *)
EXTENDS KnowledgeProperties, TLC

Symmetry == Permutations(Requests)
=============================================================================
