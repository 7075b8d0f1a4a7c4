------------------------------- MODULE Terminal -------------------------------
(***************************************************************************)
(* The shell and the console it prints to: what the user sees while a line *)
(* is edited.  A message, a prompt and the name of a command take one cell *)
(* each.                                                                   *)
(***************************************************************************)
EXTENDS Shell

CONSTANTS VGA_WIDTH, VGA_HEIGHT

VARIABLES console,
          pending       \* what the latest call has yet to print

Messages == {"greeting", "help", "usage", "status", "about", "(empty)", "ok",
             "invalid argument", "invalid name", "file not found", "file exists",
             "ramfs full", "file too large", "ramfs state", "text too long",
             "unknown command", "too many arguments", "argument too long",
             "line unavailable"}

Con == INSTANCE Console WITH
  Printable <- Printables \cup Messages \cup {Digit[i] : i \in DOMAIN Digit}
                 \cup {prompt, " "},
  Ignored <- Controls

(* A full line and the cursor behind it fit on the screen. *)
ASSUME TerminalAssumption ==
  /\ VGA_WIDTH \in Nat /\ VGA_HEIGHT \in Nat
  /\ VGA_WIDTH * VGA_HEIGHT > 1 + SHELL_LINE_MAX

terminalVars == <<vars, console, pending>>

TerminalInit == Init /\ Con!Init /\ pending = << >>

(* The messages of the boot before shell_runtime_init, their text left     *)
(* blank; each ends with a line feed.                                      *)
boot_message ==
  /\ at = "test" /\ test = 1
  /\ \E value \in {" ", "\n", "\r"} \cup Controls :
       console' = Con!console_putc(Con!Fresh, value)
  /\ UNCHANGED <<vars, pending>>

(* A call of the runtime begins ... *)
runtime_call ==
  /\ pending = << >>
  /\ at = "test" => console.vga_column = 0
  /\ boot \/ user
  /\ pending' = output'
  /\ console' = Con!Fresh

(* ... and prints one symbol after the other. *)
runtime_prints ==
  /\ pending # << >>
  /\ pending' = Tail(pending)
  /\ console' = IF Head(pending) = "clear screen" THEN Con!console_clear(console)
                ELSE Con!console_putc(console, Head(pending))
  /\ UNCHANGED vars

TerminalNext == \/ boot_message \/ runtime_call \/ runtime_prints
                \/ pending = << >> /\ hlt /\ UNCHANGED <<console, pending>>

TerminalSpec == TerminalInit /\ [][TerminalNext]_terminalVars

-----------------------------------------------------------------------------
(* Rows and columns implement one tape of cells, whatever is printed: a    *)
(* character in the last column, a line feed on the last row, a backspace  *)
(* in the first column and a carriage return each move along it as they    *)
(* would on an endless roll that shows its end, and what is printed is     *)
(* the symbol the shell had to print next.                                 *)
ImplementsTape ==
  /\ Con!ImplementsTape
  /\ [][runtime_prints => IF Head(pending) = "clear screen" THEN Con!Screen!Clear
                          ELSE Con!Screen!Output(Head(pending))]_terminalVars

Cursor == console.vga_row * VGA_WIDTH + console.vga_column

(* The characters before the cursor are the prompt and the line as the     *)
(* editor holds it, and nothing is shown behind the cursor: through        *)
(* wrapping, scrolling, erasing back across rows, a full line, ignored     *)
(* keys, cleared screens and the output of the commands before.            *)
LineOnScreen ==
  runtime_started /\ pending = << >> =>
    LET line == runtime_editor.buffer
        start == Cursor - Len(line)
    IN  /\ start > 0 /\ console.vga_buffer[start - 1] = prompt
        /\ \A i \in 1 .. Len(line) : console.vga_buffer[start + i - 1] = line[i]
        /\ \A i \in Cursor .. (VGA_WIDTH * VGA_HEIGHT) - 1 :
             console.vga_buffer[i] = " "
===============================================================================
