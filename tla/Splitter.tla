------------------------------ MODULE Splitter ------------------------------
(***************************************************************************)
(* How the text of a page becomes evidence chunks                          *)
(* (processing/splitter.py, infra/evidence/chunker.py): it is cut at the   *)
(* coarsest separator it has, a piece that is still too long at the next   *)
(* one, a piece without any by size; neighbours overlap, and a short chunk *)
(* is joined to the one before it.                                         *)
(*                                                                         *)
(* A text is a sequence of tokens: characters, and three of the twelve     *)
(* separators.  Tables and code blocks are left out.                       *)
(***************************************************************************)
EXTENDS Lists

CONSTANTS
  Letters,          (* the characters that are not separators              *)
  ChunkSize,
  ChunkOverlap

(* An empty line, a full stop and a blank, in the order they are tried.    *)
Separators == {"para", "stop", "blank"}
White == {"para", "blank"}
Tokens == Letters \cup Separators
Text == Seq(Tokens)

SplitterAssumption ==
  /\ Letters \cap Separators = {}
  /\ ChunkSize \in Nat \ {0}
  /\ ChunkOverlap \in Nat

ASSUME SplitterAssumption

(* What is not a separator.                                                *)
LettersIn(text) == ToSet(text) \cap Letters

Width(token) == IF token = "para" THEN 2 ELSE 1
Size(text) == Len(text) + Cardinality({i \in DOMAIN text : text[i] = "para"})

Blank(text) == ToSet(text) \subseteq White
Strip(text) ==
  LET solid == {i \in DOMAIN text : text[i] \notin White} IN
  IF solid = {} THEN <<>> ELSE SubSeq(text, Min(solid), Max(solid))

(* What stands between two separators, also if that is nothing.            *)
CutsOf(text, sep) ==
  LET at == {i \in DOMAIN text : text[i] = sep} IN
  <<0>> \o Ascending(at, [i \in at |-> i]) \o <<Len(text) + 1>>
PartsOf(text, sep) ==
  LET between(cuts) ==
        [n \in 1..(Len(cuts) - 1) |-> SubSeq(text, cuts[n] + 1, cuts[n + 1] - 1)]
  IN  between(CutsOf(text, sep))
Join(parts, sep) ==
  IF parts = <<>> THEN <<>>
  ELSE Folded(Head(parts),
              [i \in 1..(Len(parts) - 1) |-> [text \in Text |-> text \o <<sep>> \o parts[i + 1]]])

(* The last parts, as long as each with its separator fits the overlap.    *)
OverlapParts(parts, sep) ==
  LET last(n) == SubSeq(parts, Len(parts) - n + 1, Len(parts))
      fits == {n \in 1..Len(parts) : Size(Join(last(n), sep)) + Width(sep) <= ChunkOverlap}
  IN  IF fits = {} THEN <<>> ELSE last(Max(fits))

ForceSplit(text) ==
  LET step == IF ChunkOverlap < ChunkSize THEN ChunkSize - ChunkOverlap ELSE ChunkSize
      count == Min({n \in 0..Len(text) : n * step >= Len(text)})
  IN  [i \in 1..count |->
         SubSeq(text, (i - 1) * step + 1, Min({(i - 1) * step + ChunkSize, Len(text)}))]

(* What a part does to the chunks so far and the parts that are being      *)
(* collected; pieces are those of a part that is too long by itself.       *)
LongPart(sep, pieces, st) ==
  LET overlap == OverlapParts(st.parts, sep)
      context == Join(overlap, sep) \o <<sep>> \o Head(pieces)
      joined == IF overlap # <<>> /\ pieces # <<>> /\ Size(context) <= ChunkSize
                THEN <<context>> \o Tail(pieces) ELSE pieces
  IN  [chunks |-> st.chunks \o (IF st.parts = <<>> THEN <<>> ELSE <<Join(st.parts, sep)>>) \o joined,
       parts |-> <<>>]

(* Faulty: the part that does not fit any more takes its place.            *)
PartReplaces(sep, part, st) ==
  IF st.parts # <<>> /\ Size(Join(Append(st.parts, part), sep)) > ChunkSize
  THEN [chunks |-> Append(st.chunks, Join(OverlapParts(st.parts, sep), sep)), parts |-> <<part>>]
  ELSE [st EXCEPT !.parts = Append(@, part)]

ShortPart(sep, part, st) ==
  IF st.parts # <<>> /\ Size(Join(Append(st.parts, part), sep)) > ChunkSize
  THEN [chunks |-> Append(st.chunks, Join(st.parts, sep)),
        parts |-> Append(OverlapParts(st.parts, sep), part)]
  ELSE [st EXCEPT !.parts = Append(@, part)]

(* The separator after the last part does not count.                       *)
TooLong(part, last, sep) == Size(part) + (IF last THEN 0 ELSE Width(sep)) > ChunkSize

WithRest(chunks, text) == IF text = <<>> THEN chunks ELSE Append(chunks, text)

Whole(text) == IF Blank(text) THEN <<>> ELSE <<text>>
Collecting == [chunks : Seq(Text), parts : Seq(Text)]

(* One part after the other; finer splits those that are too long.         *)
TakeParts(parts, sep, finer) ==
  Folded([chunks |-> <<>>, parts |-> <<>>],
         [n \in DOMAIN parts |-> [st \in Collecting |->
            IF TooLong(parts[n], n = Len(parts), sep)
            THEN LongPart(sep, finer[parts[n]], st)
            ELSE ShortPart(sep, parts[n], st)]])

SplitAt(sep, finer) ==
  LET rest(end) == WithRest(end.chunks, Strip(Join(end.parts, sep))) IN
  [text \in Text |->
     IF Size(text) <= ChunkSize THEN Whole(text)
     ELSE IF sep \in ToSet(text) THEN rest(TakeParts(PartsOf(text, sep), sep, finer))
     ELSE finer[text]]
SplitBySize == [text \in Text |-> IF Size(text) <= ChunkSize THEN Whole(text) ELSE ForceSplit(text)]

RecursiveSplit == SplitAt("para", SplitAt("stop", SplitAt("blank", SplitBySize)))

(* A short chunk is joined to the one before it, with an empty line.       *)
MergeSmall(chunks) ==
  LET small(merged, chunk) ==
        Size(chunk) < ChunkSize \div 4 /\ Size(Last(merged)) + Size(chunk) + 2 <= ChunkSize
      merge(chunk) ==
        [merged \in Seq(Text) \ {<<>>} |->
           IF small(merged, chunk) THEN Append(Front(merged), Last(merged) \o <<"para">> \o chunk)
           ELSE Append(merged, chunk)]
  IN  IF Len(chunks) <= 1 THEN chunks
      ELSE Folded(<<Head(chunks)>>, [i \in 1..(Len(chunks) - 1) |-> merge(chunks[i + 1])])

SplitText(text) == IF Blank(text) THEN <<>> ELSE MergeSmall(RecursiveSplit[text])

(* The chunks of a document: every page by itself.                         *)
PieceAt(p, text) == [page |-> p, text |-> text]
ChunkPages(pages) ==
  LET pieces(p, texts) == [i \in DOMAIN texts |-> PieceAt(p, texts[i])]
  IN  Folded(<<>>, [p \in DOMAIN pages |-> [chunks \in Seq([page : Nat, text : Text]) |->
                      chunks \o pieces(p, SplitText(Strip(pages[p])))]])

(* text can be found on the page.                                          *)
Inside(text, page) ==
  \E i \in 1..(Len(page) - Len(text) + 1) : SubSeq(page, i, i + Len(text) - 1) = text
=============================================================================
