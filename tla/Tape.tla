--------------------------------- MODULE Tape ---------------------------------
(***************************************************************************)
(* What a terminal screen promises: one tape of Size cells and a position  *)
(* on it.  Lines are every Width cells.  There is always a cell at the     *)
(* position: a step that would leave the tape drops its first line.        *)
(***************************************************************************)
EXTENDS Integers

CONSTANTS Width, Size, Printable, Blank

VARIABLES tape, position

Cells == 0 .. Size - 1

Init == tape = [i \in Cells |-> Blank] /\ position = 0

(* Show the tape t with the position at p <= Size. *)
Show(t, p) ==
  IF p < Size THEN tape' = t /\ position' = p
  ELSE /\ tape' = [i \in Cells |-> IF i + Width < Size THEN t[i + Width] ELSE Blank]
       /\ position' = p - Width

LineOf(p) == p - (p % Width)

Put(c) == Show([tape EXCEPT ![position] = c], position + 1)
NewLine == Show(tape, LineOf(position) + Width)
Return == Show(tape, LineOf(position))
Erase == Show([tape EXCEPT ![position - 1] = Blank], position - 1)
Clear == Show([i \in Cells |-> Blank], 0)

(* What printing a character does; other control characters do nothing. *)
Output(c) == CASE c = "\n" -> NewLine
               [] c = "\r" -> Return
               [] c = "bs" /\ position > 0 -> Erase
               [] c \in Printable -> Put(c)
               [] OTHER -> UNCHANGED <<tape, position>>

Next == (\E c \in Printable \cup {"\n", "\r", "bs"} : Output(c)) \/ Clear

Spec == Init /\ [][Next]_<<tape, position>>
===============================================================================
