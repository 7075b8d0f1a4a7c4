--------------------------------- MODULE Shell --------------------------------
(***************************************************************************)
(* The shell runtime of kernel/shell/runtime.c with the line editor, the   *)
(* parser and the RAM file system it drives.  kernel_main calls it with    *)
(* one character after the other, in the foreground only.  A message or a  *)
(* prompt is one symbol of what a call prints; the screen is not part of   *)
(* this module.                                                            *)
(***************************************************************************)
EXTENDS Command, LineEditor, FiniteSets
LOCAL INSTANCE SequencesExt

CONSTANTS RAMFS_MAX_FILES, RAMFS_NAME_MAX, RAMFS_FILE_MAX_BYTES,
          SHELL_TEXT_CAPACITY, NULL,
          UserLines       \* bound: the lines users type, and their beginnings

ASSUME ShellAssumption ==
  /\ SHELL_TEXT_CAPACITY > SHELL_LINE_MAX
  /\ RAMFS_NAME_MAX = SHELL_COMMAND_ARG_MAX
  /\ \A line \in UserLines : Len(line) <= SHELL_LINE_MAX

VARIABLES slots, live_file_count, request, result, out,   \* the file system
          runtime_editor, runtime_initialized, runtime_started,
          at, test,   \* where kernel_main stands; the next call of the self-test
          output      \* what the latest call printed

F == INSTANCE Ramfs WITH CallerNames <- {}, CallerData <- {}
W == INSTANCE Words

ramfsVars == <<slots, live_file_count, request, result, out>>
vars == <<ramfsVars, runtime_editor, runtime_initialized, runtime_started, at, test,
          output>>

Init == /\ F!Init
        /\ runtime_editor = shell_line_editor_init
        /\ runtime_initialized = FALSE /\ runtime_started = FALSE
        /\ at = "test" /\ test = 1 /\ output = << >>

(* The file system is not called; the locals of the latest call are gone. *)
NoFileCall == /\ request' = [op |-> "init"] /\ result' = "OK" /\ out' = << >>
              /\ UNCHANGED <<slots, live_file_count>>

(* A char as a byte of a file, and back. *)
Alphabet == <<" ", "a", "b", "c", "d", "x", "y">>
Byte(c) == CHOOSE i \in DOMAIN Alphabet : Alphabet[i] = c
Bytes(text) == [i \in 1 .. Len(text) |-> Byte(text[i])]
Text(bytes) == [i \in 1 .. Len(bytes) |-> Alphabet[bytes[i]]]

-----------------------------------------------------------------------------
(* ramfs_self_test: its calls, and what must hold after each. *)
TestName == <<"a">>

test_call(n) ==
  CASE n = 1 -> F!ramfs_init
    [] n \in {2, 3} -> F!ramfs_create(TestName)
    [] n = 4 -> F!ramfs_create(<<"/">>)
    [] n = 5 -> F!ramfs_write(TestName, Bytes(<<"a", "b", "c">>))
    [] n = 6 -> F!ramfs_append(TestName, Bytes(<<"d">>))
    [] n = 7 -> F!ramfs_read(TestName, FALSE, 3, FALSE)
    [] n = 8 -> F!ramfs_append(TestName, [i \in 1 .. RAMFS_FILE_MAX_BYTES - 3 |-> 1])
    [] n = 9 -> F!ramfs_read(TestName, FALSE, 4, FALSE)
    [] n = 10 -> F!ramfs_remove(TestName)

TestCalls == 10

TestResults == <<"OK", "OK", "ALREADY_EXISTS", "INVALID_NAME", "OK", "OK",
                 "TOO_LARGE", "TOO_LARGE", "OK", "OK">>

Passed(n) ==
  /\ n > 0 => result = TestResults[n]
  /\ n \in {1, 9, 10} => F!ramfs_validate
  /\ n \in {1, 10} => F!ramfs_count = 0
  /\ n = 6 => /\ F!ramfs_count = 1
              /\ \E s \in F!ramfs_get_info(0) :
                   slots[s].name = TestName /\ slots[s].length = 4
  /\ n \in {7, 8} => out = << >>
  /\ n = 9 => out = Bytes(<<"a", "b", "c", "d">>)

(* The editor after a sequence of characters, and the events it returned. *)
Fed(editor, characters) ==
  LET step[n \in 0 .. Len(characters)] ==
        IF n = 0 THEN [editor |-> editor, events |-> << >>]
        ELSE LET fed == shell_line_editor_feed(step[n - 1].editor, characters[n])
             IN  [editor |-> fed.editor, events |-> Append(step[n - 1].events, fed.event)]
  IN  step[Len(characters)]

line_editor_self_test ==
  LET first == Fed(shell_line_editor_init, <<"a", "b", "bs", "\n", "x">>)
      taken == shell_line_editor_take(first.editor, SHELL_LINE_MAX + 1)
      full == Fed(taken.editor, [i \in 1 .. SHELL_LINE_MAX |-> "x"])
      over == Fed(full.editor, <<"y">>)
      ready == Fed(over.editor, <<"\r">>)
      last == shell_line_editor_take(ready.editor, SHELL_LINE_MAX + 1)
  IN  /\ first.events = <<"ECHO", "ECHO", "ERASE", "READY", "NONE">>
      /\ ~ shell_line_editor_take(first.editor, 1).ok
      /\ taken.ok /\ taken.line = <<"a">>
      /\ \A i \in DOMAIN full.events : full.events[i] = "ECHO"
      /\ over.events = <<"FULL">> /\ over.editor.overflow_count = 1
      /\ ready.events = <<"READY">> /\ last.ok
      /\ last.editor.buffer = << >> /\ ~ last.editor.ready

parser_self_test ==
  LET parsed == shell_command_parse(<<" ", " ", "write", "\t", "n", " ", " ", "h",
                                      " ", "w", " ">>)
      other == shell_command_parse(<<"n">>)
  IN  /\ parsed.result = "OK" /\ parsed.command.kind = "write"
      /\ parsed.command.name = <<"write">>
      /\ parsed.command.arguments = <<<<"n">>, <<"h">>, <<"w">>>>
      /\ shell_command_has_valid_arity(parsed.command)
      /\ other.result = "OK" /\ other.command.kind = "UNKNOWN"
      /\ ~ shell_command_has_valid_arity(other.command)
      /\ shell_command_parse(<<" ", "\t", " ">>).result = "EMPTY"

runtime_self_test ==
  /\ at = "test" /\ test <= TestCalls
  /\ IF Passed(test - 1) THEN test_call(test) /\ test' = test + 1 /\ UNCHANGED at
     ELSE at' = "failed" /\ UNCHANGED <<ramfsVars, test>>
  /\ UNCHANGED <<runtime_editor, runtime_initialized, runtime_started, output>>

(* The end of shell_runtime_init, with the two tests that touch no state. *)
shell_runtime_init ==
  /\ at = "test" /\ test = TestCalls + 1
  /\ IF Passed(TestCalls) /\ line_editor_self_test /\ parser_self_test
     THEN /\ F!ramfs_init
          /\ runtime_editor' = shell_line_editor_init
          /\ runtime_initialized' = TRUE
          /\ at' = "start"
     ELSE /\ at' = "failed"
          /\ UNCHANGED <<ramfsVars, runtime_editor, runtime_initialized>>
  /\ UNCHANGED <<runtime_started, test, output>>

prompt == "tiny> "

shell_runtime_start ==
  /\ at = "start"
  /\ at' = "loop"
  /\ IF runtime_initialized /\ ~ runtime_started
     THEN runtime_started' = TRUE /\ output' = <<"greeting", "\n", prompt>>
     ELSE UNCHANGED <<runtime_started, output>>
  /\ NoFileCall
  /\ UNCHANGED <<runtime_editor, runtime_initialized, test>>

-----------------------------------------------------------------------------
(* Mutant of LeadingSpace: every appended text gets a space in front. *)
LeadingSpace_always(sizes) == TRUE

(* file_size found the file, and it is not empty. *)
LeadingSpace(sizes) == \E size \in sizes : size # 0

(* The size the listing gives for the name, in a set; empty if not found. *)
file_size(name) ==
  {slots[s].length : s \in {t \in UNION {F!ramfs_get_info(i) : i \in 0 .. F!ramfs_count - 1} :
                              slots[t].name = name}}

(* Mutant of join_arguments: the space comes after each argument. *)
join_arguments_trailing(command, first_argument, leading_space) ==
  FoldLeft(LAMBDA text, word : text \o word \o <<" ">>,
           IF leading_space THEN <<" ">> ELSE << >>,
           SubSeq(command.arguments, first_argument + 1, Len(command.arguments)))

join_arguments(command, first_argument, leading_space) ==
  LET arguments == SubSeq(command.arguments, first_argument + 1,
                          Len(command.arguments))
      join[n \in 0 .. Len(arguments)] ==
        IF n = 0 THEN (IF leading_space THEN <<" ">> ELSE << >>)
        ELSE join[n - 1] \o (IF n > 1 THEN <<" ">> ELSE << >>) \o arguments[n]
  IN  join[Len(arguments)]

(* buffer_append_char keeps room for the terminator. *)
FitsBuffer(text) == Len(text) + 1 <= SHELL_TEXT_CAPACITY

(* console_write_u32_dec *)
Digit == <<"0", "1", "2", "3", "4", "5", "6", "7", "8", "9">>
console_write_u32_dec[value \in Nat] ==
  IF value < 10 THEN <<Digit[value + 1]>>
  ELSE Append(console_write_u32_dec[value \div 10], Digit[(value % 10) + 1])

ramfs_message(r) == CASE r = "OK" -> "ok"
                      [] r = "INVALID_ARGUMENT" -> "invalid argument"
                      [] r = "INVALID_NAME" -> "invalid name"
                      [] r = "NOT_FOUND" -> "file not found"
                      [] r = "ALREADY_EXISTS" -> "file exists"
                      [] r = "NO_SPACE" -> "ramfs full"
                      [] r = "TOO_LARGE" -> "file too large"

(* What an entered line prints: the echoed line feed, text, a prompt. *)
prints(text) == output' = <<"\n">> \o text \o <<prompt>>
says(text) == prints(text) /\ NoFileCall
message(m) == says(<<m, "\n">>)

(* Texts and reports whose content no command depends on. *)
shell_command_help == "help"
shell_command_usage(kind) == "usage"
print_status == message("status")

(* A call of the file system and its result. *)
file_command(call) == call /\ prints(<<ramfs_message(result'), "\n">>)

execute_ls ==
  LET listed == [i \in 1 .. F!ramfs_count |-> F!ramfs_get_info(i - 1)]
      entry(s) == slots[s].name \o <<" ">> \o console_write_u32_dec[slots[s].length]
                    \o <<"\n">>
  IN  IF F!ramfs_count = 0 THEN message("(empty)")
      ELSE IF \E i \in DOMAIN listed : listed[i] = {} THEN message("ramfs state")
      ELSE says(FoldLeft(LAMBDA text, info : text \o entry(CHOOSE s \in info : TRUE),
                         << >>, listed))

execute_cat(name) ==
  /\ F!ramfs_read(name, FALSE, RAMFS_FILE_MAX_BYTES, FALSE)
  /\ IF result' = "OK" THEN prints(Text(out') \o <<"\n">>)
     ELSE prints(<<ramfs_message(result'), "\n">>)

(* A command whose text has to fit before it does anything else. *)
with_text(text, body) ==
  IF FitsBuffer(text) THEN body ELSE message("text too long")

execute_command(command) ==
  LET name == command.arguments[1]
      echoed == join_arguments(command, 0, FALSE)
      written == join_arguments(command, 1, FALSE)
      appended == join_arguments(command, 1, LeadingSpace(file_size(name)))
  IN  CASE command.kind = "help" -> message(shell_command_help)
        [] command.kind = "status" -> print_status
        [] command.kind = "about" -> message("about")
        [] command.kind = "clear" -> says(<<"clear screen">>)
        [] command.kind = "echo" -> with_text(echoed, says(echoed \o <<"\n">>))
        [] command.kind = "ls" -> execute_ls
        [] command.kind = "cat" -> execute_cat(name)
        [] command.kind = "touch" -> file_command(F!ramfs_create(name))
        [] command.kind = "write" ->
             with_text(written, file_command(F!ramfs_write(name, Bytes(written))))
        [] command.kind = "append" ->
             with_text(appended, file_command(F!ramfs_append(name, Bytes(appended))))
        [] command.kind = "rm" -> file_command(F!ramfs_remove(name))

(* What follows a READY event, for a line that was taken. *)
run_line(line) ==
  LET parsed == shell_command_parse(line)
  IN  CASE parsed.result = "EMPTY" -> says(<< >>)
        [] parsed.result = "TOO_MANY_ARGUMENTS" -> message("too many arguments")
        [] parsed.result = "ARGUMENT_TOO_LONG" -> message("argument too long")
        [] OTHER -> IF parsed.command.kind = "UNKNOWN" THEN message("unknown command")
                    ELSE IF ~ shell_command_has_valid_arity(parsed.command)
                    THEN message(shell_command_usage(parsed.command.kind))
                    ELSE execute_command(parsed.command)

shell_runtime_handle_char(character) ==
  LET fed == shell_line_editor_feed(runtime_editor, character)
      taken == shell_line_editor_take(fed.editor, SHELL_LINE_MAX + 1)
  IN  /\ at = "loop" /\ runtime_initialized /\ runtime_started
      /\ IF fed.event = "READY"
         THEN IF taken.ok THEN runtime_editor' = taken.editor /\ run_line(taken.line)
              ELSE /\ runtime_editor' = shell_line_editor_init
                   /\ message("line unavailable")
         ELSE /\ runtime_editor' = fed.editor
              /\ output' = CASE fed.event = "ECHO" -> <<character>>
                             [] fed.event = "ERASE" -> <<"bs">>
                             [] OTHER -> << >>
              /\ NoFileCall
      /\ UNCHANGED <<runtime_initialized, runtime_started, at, test>>

-----------------------------------------------------------------------------
(* The user: any key, as long as the line stays a beginning of UserLines,  *)
(* and one more character in a full line.                                  *)
Beginnings == UNION {Prefixes(line) : line \in UserLines}
Printables == UNION {{line[i] : i \in 1 .. Len(line)} : line \in UserLines}
Keys == Printables \cup Controls \cup {"bs", "\n", "\r"}

Typable(character) ==
  LET fed == shell_line_editor_feed(runtime_editor, character)
  IN  fed.event = "ECHO" => fed.editor.buffer \in Beginnings

user == \E key \in Keys : Typable(key) /\ shell_runtime_handle_char(key)

boot == runtime_self_test \/ shell_runtime_init \/ shell_runtime_start

(* The CPU waits for a key, or for good after boot_fail. *)
hlt == at \in {"loop", "failed"} /\ UNCHANGED vars

Next == boot \/ user \/ hlt

Spec == Init /\ [][Next]_vars

-----------------------------------------------------------------------------
Contents(slot) == Text(F!FileBytes(slot))

Session == INSTANCE ShellSession WITH
  Characters <- Printables, Others <- Controls,
  LineMax <- SHELL_LINE_MAX, MaxArguments <- SHELL_COMMAND_MAX_ARGS,
  WordMax <- SHELL_COMMAND_ARG_MAX,
  MaxFiles <- RAMFS_MAX_FILES, MaxBytes <- RAMFS_FILE_MAX_BYTES,
  IsName <- F!name_is_valid,
  open <- runtime_started, typed <- runtime_editor.buffer, shown <- output,
  files <- IF ~ runtime_initialized THEN << >>
           ELSE [n \in {slots[s].name : s \in F!SlotIds \ F!Empty} |->
                   Contents(slots[F!find_slot(n)])]

(* Every key and every entered line does what the words typed say: the     *)
(* files change as the command and its words demand or not at all, the     *)
(* answer fits, and exactly one prompt follows.  No internal error (text   *)
(* too long, line unavailable, ramfs state) is ever printed.  What a step  *)
(* does is what the key pressed demands.                                   *)
ImplementsSession ==
  /\ Session!Spec
  /\ [][\A key \in Keys : shell_runtime_handle_char(key) => Session!Press(key)]_vars

(* The text of a file is words with single spaces, without one at either   *)
(* end, whatever sequence of write, append, touch and rm made it and       *)
(* however the words were separated when they were typed.                  *)
TextNormal ==
  runtime_initialized =>
    \A s \in F!SlotIds \ F!Empty :
      LET text == Contents(slots[s])
      IN  \A i \in 1 .. Len(text) :
            text[i] = " " => /\ i \notin {1, Len(text)}
                             /\ text[i - 1] # " "

(* The words that fit into a shell_command, the name and the arguments. *)
MaxWords == SHELL_COMMAND_MAX_ARGS + 1
HasLongWord(words) ==
  \E k \in 1 .. Len(words) : k <= MaxWords /\ Len(words[k]) > SHELL_COMMAND_ARG_MAX

(* If the line in the editor were entered now, shell_command_parse would   *)
(* find exactly its words, however they are separated, or report the first *)
(* limit they exceed and hand out no command.                              *)
ParseExact ==
  LET words == W!Words(runtime_editor.buffer)
      parsed == shell_command_parse(runtime_editor.buffer)
      refused(reason) == parsed = [result |-> reason, command |-> command_clear]
  IN  IF words = << >> THEN refused("EMPTY")
      ELSE IF HasLongWord(words) THEN refused("ARGUMENT_TOO_LONG")
      ELSE IF Len(words) > MaxWords THEN refused("TOO_MANY_ARGUMENTS")
      ELSE /\ parsed.result = "OK"
           /\ <<parsed.command.name>> \o parsed.command.arguments = words
===============================================================================
