------------------------------ MODULE LineEditor ------------------------------
(***************************************************************************)
(* The line editor of kernel/shell/line_editor.c, as operators on its      *)
(* record.  The buffer is the sequence of the characters before the        *)
(* terminator, so that its length is the field of that name.               *)
(***************************************************************************)
EXTENDS Integers, Sequences

CONSTANTS SHELL_LINE_MAX,
          OverflowMod,     \* 2^32: modulus of overflow_count
          Controls         \* control characters without a meaning

ASSUME LineEditorAssumption ==
  SHELL_LINE_MAX \in Nat \ {0} /\ OverflowMod \in Nat \ {0}

shell_line_editor_init == [buffer |-> << >>, ready |-> FALSE, overflow_count |-> 0]

clear_line_buffer(editor) == [editor EXCEPT !.buffer = << >>, !.ready = FALSE]

is_printable_ascii(character) ==
  character \notin {"bs", "\n", "\r", "\t"} \cup Controls

(* The editor after the call, and the event it returns. *)
shell_line_editor_feed(editor, character) ==
  LET becomes(e, event) == [editor |-> e, event |-> event]
      length == Len(editor.buffer)
  IN  IF editor.ready THEN becomes(editor, "NONE")
      ELSE IF character = "bs"
      THEN IF length = 0 THEN becomes(editor, "NONE")
           ELSE becomes([editor EXCEPT !.buffer = SubSeq(@, 1, length - 1)], "ERASE")
      ELSE IF character \in {"\n", "\r"}
      THEN becomes([editor EXCEPT !.ready = TRUE], "READY")
      ELSE IF ~ is_printable_ascii(character) THEN becomes(editor, "NONE")
      ELSE IF length >= SHELL_LINE_MAX
      THEN becomes([editor EXCEPT !.overflow_count = (@ + 1) % OverflowMod], "FULL")
      ELSE becomes([editor EXCEPT !.buffer = Append(@, character)], "ECHO")

CanTake(editor, capacity) ==
  /\ editor.ready /\ Len(editor.buffer) <= SHELL_LINE_MAX
  /\ capacity > Len(editor.buffer)

(* The editor after the call, whether it succeeds, and the line if it does. *)
shell_line_editor_take(editor, capacity) ==
  IF CanTake(editor, capacity)
  THEN [editor |-> clear_line_buffer(editor), ok |-> TRUE, line |-> editor.buffer]
  ELSE [editor |-> editor, ok |-> FALSE, line |-> << >>]
===============================================================================
