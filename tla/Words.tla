--------------------------------- MODULE Words --------------------------------
(***************************************************************************)
(* The words of a line and the text they make, as a user understands them: *)
(* a word is a longest stretch without a separator.                        *)
(***************************************************************************)
EXTENDS Integers, Sequences, FiniteSets
LOCAL INSTANCE SequencesExt

Separators == {" ", "\t"}

(* The positions where a word begins, and where the one from i ends. *)
Beginnings(line) ==
  {i \in 1 .. Len(line) : /\ line[i] \notin Separators
                          /\ i = 1 \/ line[i - 1] \in Separators}

WordFrom(line, i) ==
  LET end == CHOOSE j \in i .. Len(line) :
               /\ \A k \in i .. j : line[k] \notin Separators
               /\ j = Len(line) \/ line[j + 1] \in Separators
  IN  SubSeq(line, i, end)

Words(line) ==
  LET starts == SetToSortSeq(Beginnings(line), <)
  IN  [k \in 1 .. Len(starts) |-> WordFrom(line, starts[k])]

(* The words with one space between each two. *)
Joined(words) ==
  FoldLeft(LAMBDA text, w : IF text = << >> THEN w ELSE text \o <<" ">> \o w,
           << >>, words)
===============================================================================
