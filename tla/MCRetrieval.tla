----------------------------- MODULE MCRetrieval -----------------------------
(* Instances of the search for TLC.                                        *)
EXTENDS RetrievalProperties

CONSTANTS t1, t2, t3

Chunk(doc, i, section, size, low) == [doc |-> doc, index |-> i, section |-> section, size |-> size, low |-> low]

(* Two documents of one name, a public one and one of alice; and one more  *)
(* of hers, which has no numbers.                                          *)
Library ==
  <<Chunk("law", 0, "s1", 4, FALSE), Chunk("law", 1, "s1", 5, FALSE), Chunk("law", 2, "s1", 3, FALSE),
    Chunk("law", 3, "s2", 4, TRUE), Chunk("mine", 1, "none", 3, FALSE), Chunk("note", -1, "none", 3, FALSE),
    Chunk("law", 4, "s2", 3, FALSE)>>

Distances(far) == {<<a, b, c, d, 1, 2, far>> : a \in 1..2, b \in {1, 2, far}, c \in 1..2, d \in {1, far}}
WordCounts == {<<a, b, c, d, 1, 0, 0>> : a \in 0..2, b \in 0..2, c \in 0..1, d \in 0..3}
ForAll(value) == [q \in Queries |-> value]

Alone ==
  {[near |-> ForAll(n), words |-> ForAll(w), alike |-> a, views |-> Views, rewrite |-> FALSE, library |-> Docs,
    moving |-> {}, asked |-> [t \in Searches |-> IF t = t1 THEN {"plain", "steps", "forms"} ELSE {}]] :
     n \in Distances(5), w \in WordCounts, a \in {{}, {{1, 2}}}}

Race(a, b, c, library, moving) ==
  [near |-> [q \in Queries |-> IF q = "plain" THEN <<1, 2, 5, 5, 2, 1, 5>> ELSE <<2, 1, 1, 5, 1, 2, 5>>],
   words |-> ForAll(<<1, 2, 0, 1, 1, 1, 0>>), alike |-> {}, views |-> {{"public"}}, rewrite |-> TRUE,
   library |-> library, moving |-> moving, asked |-> [t \in Searches |-> IF t = t1 THEN a ELSE IF t = t2 THEN b ELSE c]]
AllWorlds ==
  Alone \cup {Race({"plain", "steps"}, {"slang"}, {}, {"law"}, {"law", "mine"}),
            Race({"plain"}, {"slang"}, {"formal"}, {}, {})}

(* The key of two questions, and the key that this has when it is asked.   *)
Standard == [q \in Queries |-> CASE q \in {"plain", "slang"} -> "formal" [] q = "formal" -> "twice" [] OTHER -> q]
Replies ==
  [q \in Queries |-> CASE q = "formal" -> {<<"r1">>, <<"formal">>} [] q = "steps" -> {<<"r2">>} [] OTHER -> {<<>>}]
Owners == [d \in Docs |-> IF d = "law" THEN "public" ELSE "alice"]
Names == [d \in Docs |-> IF d = "note" THEN "note" ELSE "law"]

(* TLC evaluates these once, what a .cfg substitutes at every use.         *)
MCInfo == Library
MCWorlds == AllWorlds
MCNormal == Standard
MCRewritings == Replies
MCOwner == Owners
MCSource == Names
=============================================================================
