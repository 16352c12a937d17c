----------------------------- MODULE MCEvidence -----------------------------
(* Instances of evidence QA for TLC.                                       *)
EXTENDS EvidenceProperties, TLC

CONSTANTS c1, c2, c3, c4, v1, v2, ghost, NoLabel

(* "yes" and "wide" are one phrase in half-width and full-width letters.   *)
Folding == [cond \in {"yes", "wide", "no", NoLabel} |-> IF cond = "wide" THEN "yes" ELSE cond]
Wording ==
  c1 :> [words |-> {"yes"}, lead |-> "yes", moves |-> TRUE] @@
  c2 :> [words |-> {"no", "yes"}, lead |-> "no", moves |-> FALSE] @@
  c3 :> [words |-> {}, lead |-> NoLabel, moves |-> FALSE] @@
  c4 :> [words |-> {"wide"}, lead |-> "wide", moves |-> TRUE]

(* Pages: up to three words, each of its own letters.                      *)
Alphabet == <<"a", "b", "c", "d", "e", "f", "g", "h", "i", "j", "k", "l", "m", "n", "o", "p", "q", "r">>
Word(from, n) == SubSeq(Alphabet, from, from + n - 1)
TwoWords(m, s, n) == Word(1, m) \o s \o Word(m + 1, n)
Seps == {<<"para">>, <<"stop">>, <<"blank">>, <<"para", "stop">>}
Pages2 == {TwoWords(m, s, n) : m \in {1, 3, 8}, s \in Seps, n \in {1, 2, 7, 9}}
Pages3 == {TwoWords(m, s, n) \o t \o Word(m + n + 1, 1) :
             m \in {1, 6}, s \in Seps, n \in {2, 8, 9}, t \in {<<"para">>, <<"stop">>}}
Documents == {<<p>> : p \in Pages2 \cup Pages3} \cup {<<Word(1, 3), Word(4, 9)>>}

(* Charts: two edges between three nodes and a fork between four with all  *)
(* labels, three to five edges between four nodes, and one that leads to a *)
(* node there is not.                                                      *)
N(i) == <<"n1", "n2", "n3", "n4">>[i]
MCNodes(version, n) ==
  [i \in 1..n |-> Node(N(i), IF version = "1.0" THEN "unset" ELSE "action", <<<<c1>>, <<c2>>, <<c4>>, <<c3>>>>[i])]
Labels == {NoLabel, "yes", "wide", "no"}
Edges3 == {Edge(N(i), N(j), cond, <<c>>) : i \in 1..2, j \in 1..3, cond \in Labels, c \in {c1, c2, c3}}
Charts3 ==
  {Chart("2.0", MCNodes("2.0", 3), <<e, f>>) : e \in Edges3, f \in Edges3} \cup
  {Chart(v[1], MCNodes(v[2], 3), <<e, f>>) : v \in {<<"1.0", "1.0">>, <<"none", "1.0">>, <<"none", "2.0">>},
     e \in {x \in Edges3 : x.cond = "yes"}, f \in {x \in Edges3 : x.cond = "no"}}
Label(i, j) == IF j = i + 1 THEN Edge(N(i), N(j), "yes", <<c1>>) ELSE Edge(N(i), N(j), "no", <<c2>>)
Pairs4 == {<<i, j>> \in (1..4) \X (1..4) : i # j}
Charts4 ==
  {Chart("2.0", MCNodes("2.0", 4), [i \in DOMAIN s |-> Label(s[i][1], s[i][2])]) :
     s \in {SetToSortSeq(P, LAMBDA a, b : a[1] * 4 + a[2] < b[1] * 4 + b[2]) : P \in UNION {kSubset(k, Pairs4) : k \in 3..5}}}
Exits == {<<cond, c>> : cond \in Labels, c \in {c1, c2, c3, c4}}
Forks4 ==
  {Chart("2.0", MCNodes("2.0", 4),
         <<Label(1, 2), Edge("n2", "n3", x[1], <<x[2]>>), Edge("n2", "n4", y[1], <<y[2]>>)>>) : x \in Exits, y \in Exits}
Ghostly == Chart("2.0", MCNodes("2.0", 3), <<Label(1, 2), Edge("n2", ghost, "yes", <<c1>>), Label(2, 3)>>)

Uploads(S) == [v \in Versions |-> IF v = v1 THEN S ELSE {<<<<"a">>>>}]
Scenarios ==
  "split" :> [library |-> [v \in Versions |-> IF v = v1 THEN Documents ELSE {}], claims |-> {{c1}}, offers |-> {Plain},
              careful |-> TRUE, calls |-> 1] @@
  "cite" :> [library |-> Uploads({<<TwoWords(3, <<"para">>, 4)>>}), claims |-> {{c1}, {c1, c2}},
             offers |-> {Plain, TableOf(<<{c1}, {c1, c2}>>)},
             careful |-> FALSE, calls |-> 2] @@
  "chart" :> [library |-> [v \in Versions |-> {}], claims |-> {{c1, c2, c3, c4}},
              offers |-> {FlowOf(ch) : ch \in Charts3 \cup Charts4 \cup Forks4 \cup {Ghostly}},
              careful |-> TRUE, calls |-> 1]

(* TLC evaluates these once, what a .cfg substitutes at every use.         *)
MCFold == Folding
MCClaimText == Wording
MCScenario == Scenarios
=============================================================================
