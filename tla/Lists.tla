-------------------------------- MODULE Lists --------------------------------
(***************************************************************************)
(* Lists that are put in order, picked from and added up.  Written with    *)
(* first-order operators and functions, as proofs about them need it.      *)
(***************************************************************************)
EXTENDS Integers, FiniteSets, SequencesExt

IsList(seq) == seq \in Seq(ToSet(seq))
Upto(seq, n) == SubSeq(seq, 1, Min({n, Len(seq)}))

(* The sum of a list of numbers.                                           *)
Total(numbers) ==
  LET sum[n \in 0..Len(numbers)] == IF n = 0 THEN 0 ELSE sum[n - 1] + numbers[n]
  IN  sum[Len(numbers)]

(* What functions make of a first value, one after the other.              *)
Folded(first, steps) ==
  LET value[n \in 0..Len(steps)] == IF n = 0 THEN first ELSE steps[n][value[n - 1]]
  IN  value[Len(steps)]

(* The members of a set one after the other, given for each of them those  *)
(* that come no later; by a number they have, smaller ones first if equal. *)
Listed(upto) ==
  [k \in 1..Cardinality(DOMAIN upto) |-> CHOOSE x \in DOMAIN upto : Cardinality(upto[x]) = k]
Ascending(S, key) ==
  Listed([c \in S |-> {d \in S : key[d] < key[c] \/ (key[d] = key[c] /\ d <= c)}])

(* Those at some places of a sequence, in the order of these.              *)
Picked(seq, order) == [k \in DOMAIN order |-> seq[order[k]]]
Only(seq, places) == Picked(seq, Ascending(places, [i \in places |-> i]))

(* Of those that have the same key the first.                              *)
Firsts(seq, key) ==
  Only(seq, {i \in DOMAIN seq : \A j \in 1..(i - 1) : key[j] # key[i]})
=============================================================================
