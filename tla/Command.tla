-------------------------------- MODULE Command -------------------------------
(***************************************************************************)
(* The command parser of kernel/shell/command.c.  A line is the sequence   *)
(* of its characters before the terminator; the name of each command is    *)
(* one symbol of the alphabet, so that a word is that command exactly when *)
(* it consists of the symbol alone.                                        *)
(***************************************************************************)
EXTENDS Integers, Sequences

CONSTANTS SHELL_COMMAND_MAX_ARGS, SHELL_COMMAND_ARG_MAX

ASSUME CommandAssumption ==
  SHELL_COMMAND_MAX_ARGS \in Nat \ {0} /\ SHELL_COMMAND_ARG_MAX \in Nat \ {0}

CommandNames == {"help", "clear", "echo", "ls", "cat", "touch", "write",
                 "append", "rm", "status", "about"}

is_separator(character) == character \in {" ", "\t"}

command_kind(name) ==
  IF Len(name) = 1 /\ name[1] \in CommandNames THEN name[1] ELSE "UNKNOWN"

command_clear == [kind |-> "UNKNOWN", name |-> << >>, arguments |-> << >>]

(* The characters from cursor on; the terminator ends the line. *)
AtEnd(line, cursor) == cursor = Len(line) + 1
First(positions) == CHOOSE i \in positions : \A j \in positions : i <= j

skip_separators(line, cursor) ==
  First({i \in cursor .. Len(line) + 1 : AtEnd(line, i) \/ ~ is_separator(line[i])})

(* Mutant of TooLong: the longest argument leaves no room for its terminator. *)
TooLong_late(length) == length > SHELL_COMMAND_ARG_MAX + 1

TooLong(length) == length > SHELL_COMMAND_ARG_MAX

copy_token(line, cursor) ==
  LET end == First({i \in cursor .. Len(line) + 1 :
                      AtEnd(line, i) \/ is_separator(line[i])})
  IN  IF TooLong(end - cursor)
      THEN [result |-> "ARGUMENT_TOO_LONG", cursor |-> cursor, token |-> << >>]
      ELSE [result |-> "OK", cursor |-> end,
            token |-> SubSeq(line, cursor, end - 1)]

(* One iteration of the loop over the arguments; "more" is no result yet. *)
next_argument(line, state) ==
  LET cursor == skip_separators(line, state.cursor)
      copied == copy_token(line, cursor)
  IN  IF AtEnd(line, cursor) THEN [state EXCEPT !.result = "OK"]
      ELSE IF Len(state.arguments) >= SHELL_COMMAND_MAX_ARGS
      THEN [state EXCEPT !.result = "TOO_MANY_ARGUMENTS"]
      ELSE IF copied.result # "OK" THEN [state EXCEPT !.result = copied.result]
      ELSE [state EXCEPT !.cursor = copied.cursor,
                         !.arguments = Append(@, copied.token)]

(* The command is command_clear unless the result is OK. *)
shell_command_parse(line) ==
  LET start == skip_separators(line, 1)
      name == copy_token(line, start)
      loop[n \in 0 .. SHELL_COMMAND_MAX_ARGS + 1] ==
        IF n = 0 THEN [result |-> "more", cursor |-> name.cursor, arguments |-> << >>]
        ELSE IF loop[n - 1].result = "more" THEN next_argument(line, loop[n - 1])
        ELSE loop[n - 1]
      parsed == loop[SHELL_COMMAND_MAX_ARGS + 1]
  IN  IF AtEnd(line, start) THEN [result |-> "EMPTY", command |-> command_clear]
      ELSE IF name.result # "OK"
      THEN [result |-> name.result, command |-> command_clear]
      ELSE IF parsed.result # "OK"
      THEN [result |-> parsed.result, command |-> command_clear]
      ELSE [result |-> "OK",
            command |-> [kind |-> command_kind(name.token), name |-> name.token,
                         arguments |-> parsed.arguments]]

shell_command_has_valid_arity(command) ==
  LET count == Len(command.arguments)
  IN  CASE command.kind \in {"help", "clear", "ls", "status", "about"} -> count = 0
        [] command.kind \in {"cat", "touch", "rm"} -> count = 1
        [] command.kind \in {"write", "append"} ->
             count \in 2 .. SHELL_COMMAND_MAX_ARGS
        [] command.kind = "echo" -> count <= SHELL_COMMAND_MAX_ARGS
        [] OTHER -> FALSE
===============================================================================
