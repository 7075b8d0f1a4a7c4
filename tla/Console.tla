------------------------------- MODULE Console --------------------------------
(***************************************************************************)
(* The console of kernel/console/console.c: VGA text memory with a row and *)
(* a column, every character copied to the serial port.  Only foreground   *)
(* code writes to it, so console_putc is one step.  A cell holds the       *)
(* character; the attribute byte never varies.  "bs" is a backspace.       *)
(***************************************************************************)
EXTENDS Integers, Sequences
LOCAL INSTANCE SequencesExt

CONSTANTS VGA_WIDTH, VGA_HEIGHT,
          Printable,       \* the printable characters used, with the blank
          Ignored          \* other control characters

VGA_BUFFER_CELLS == VGA_WIDTH * VGA_HEIGHT

(* The console as a record; serial is what went to COM1 since the latest   *)
(* call began.                                                             *)
VARIABLE console

vga_blank == " "

BlankScreen == [i \in 0 .. VGA_BUFFER_CELLS - 1 |-> vga_blank]

(* console_clear leaves the serial port alone. *)
console_clear(con) ==
  [con EXCEPT !.vga_buffer = BlankScreen, !.vga_row = 0, !.vga_column = 0]

(* The state after console_init: memory that firmware used is cleared. *)
Init == console = [vga_buffer |-> BlankScreen, vga_row |-> 0, vga_column |-> 0,
                   serial |-> << >>]

vga_put_cell(con, row, column, entry) ==
  LET index == row * VGA_WIDTH + column
  IN  IF index >= VGA_BUFFER_CELLS THEN con
      ELSE [con EXCEPT !.vga_buffer[index] = entry]

(* Each row gets the next one's cells; the last one is blanked. *)
vga_scroll(con) ==
  [con EXCEPT
     !.vga_buffer = [i \in DOMAIN @ |->
        IF i \div VGA_WIDTH < VGA_HEIGHT - 1 THEN @[i + VGA_WIDTH] ELSE vga_blank],
     !.vga_row = VGA_HEIGHT - 1]

vga_advance_line(con) ==
  LET next == [con EXCEPT !.vga_column = 0, !.vga_row = @ + 1]
  IN  IF next.vga_row = VGA_HEIGHT THEN vga_scroll(next) ELSE next

(* Mutant of vga_backspace: it stops at the first column. *)
vga_backspace_in_line(con) ==
  IF con.vga_column > 0
  THEN LET back == [con EXCEPT !.vga_column = @ - 1]
       IN  vga_put_cell(back, back.vga_row, back.vga_column, vga_blank)
  ELSE con

(* Returns con itself at the top left corner, where it does nothing. *)
vga_backspace(con) ==
  LET back == IF con.vga_column > 0 THEN [con EXCEPT !.vga_column = @ - 1]
              ELSE [con EXCEPT !.vga_row = @ - 1, !.vga_column = VGA_WIDTH - 1]
  IN  IF con.vga_column = 0 /\ con.vga_row = 0 THEN con
      ELSE vga_put_cell(back, back.vga_row, back.vga_column, vga_blank)

(* Mutant of vga_put_printable: the line is advanced with the next character. *)
vga_put_printable_late(con, value) ==
  LET there == IF con.vga_column = VGA_WIDTH THEN vga_advance_line(con) ELSE con
  IN  [vga_put_cell(there, there.vga_row, there.vga_column, value)
         EXCEPT !.vga_column = @ + 1]

vga_put_printable(con, value) ==
  LET put == [vga_put_cell(con, con.vga_row, con.vga_column, value)
                EXCEPT !.vga_column = @ + 1]
  IN  IF put.vga_column = VGA_WIDTH THEN vga_advance_line(put) ELSE put

(* serial_write sends a carriage return before each line feed. *)
serial_write(con, text) ==
  [con EXCEPT !.serial =
     FoldLeft(LAMBDA sent, c : sent \o (IF c = "\n" THEN <<"\r", c>> ELSE <<c>>),
              @, text)]

console_putc(con, value) ==
  CASE value = "\n" -> serial_write(vga_advance_line(con), <<value>>)
    [] value = "\r" -> serial_write([con EXCEPT !.vga_column = 0], <<value>>)
    [] value = "bs" -> IF vga_backspace(con) = con THEN con
                       ELSE serial_write(vga_backspace(con), <<"bs", " ", "bs">>)
    [] value \in Ignored -> con
    [] OTHER -> serial_write(vga_put_printable(con, value), <<value>>)

Fresh == [console EXCEPT !.serial = << >>]

-----------------------------------------------------------------------------
Screen == INSTANCE Tape WITH
  Width <- VGA_WIDTH, Size <- VGA_BUFFER_CELLS, Blank <- vga_blank,
  tape <- console.vga_buffer,
  position <- console.vga_row * VGA_WIDTH + console.vga_column

(* Rows and columns implement one tape of cells: a character written in    *)
(* the last column, a line feed on the last row and a backspace in the     *)
(* first column all move one position along it, at any scroll position.    *)
ImplementsTape == Screen!Spec
===============================================================================
