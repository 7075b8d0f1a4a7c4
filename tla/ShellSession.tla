---------------------------- MODULE ShellSession ------------------------------
(***************************************************************************)
(* What the shell promises its user: a line being typed, and a map from    *)
(* names to texts that changes only as the words of an entered line say.   *)
(* Every entered line is answered, and the answer ends with one prompt.    *)
(***************************************************************************)
EXTENDS Words
LOCAL INSTANCE SequencesExt

CONSTANTS Characters,     \* what can be typed into a line
          Others,         \* keys without a meaning to the shell
          LineMax, MaxArguments, WordMax, MaxFiles, MaxBytes,
          IsName(_)       \* whether a word is a valid file name

VARIABLES open,           \* the greeting has been printed
          typed, files,
          shown           \* what the latest key made the shell print

sessionVars == <<open, typed, files, shown>>

Prompt == "tiny> "
Names == DOMAIN files
With(n, text) == [m \in Names \cup {n} |-> IF m = n THEN text ELSE files[m]]
Without(n) == [m \in Names \ {n} |-> files[m]]

Init == open = FALSE /\ typed = << >> /\ files = << >> /\ shown = << >>

Greet == /\ ~ open /\ open' = TRUE
         /\ shown' = <<"greeting", "\n", Prompt>>
         /\ UNCHANGED <<typed, files>>

-----------------------------------------------------------------------------
Edit(line, echo) ==
  /\ open /\ typed' = line /\ shown' = echo
  /\ UNCHANGED <<open, files>>

Type(c) == Edit(Append(typed, c), <<c>>)
Erase == Edit(Front(typed), <<"bs">>)
Ignore == Edit(typed, << >>)

-----------------------------------------------------------------------------
Says(answer) == shown' = <<"\n">> \o answer \o <<Prompt>>
Answer(answer) == Says(answer) /\ UNCHANGED files
Error(e) == Answer(<<e, "\n">>)
Change(new) == Says(<<"ok", "\n">>) /\ files' = new

OnFile(n, effect) == IF ~ IsName(n) THEN Error("invalid name")
                     ELSE IF n \notin Names THEN Error("file not found")
                     ELSE effect

Put(n, text) == OnFile(n, IF Len(text) > MaxBytes THEN Error("file too large")
                          ELSE Change(With(n, text)))

Touch(n) == IF ~ IsName(n) THEN Error("invalid name")
            ELSE IF n \in Names THEN Error("file exists")
            ELSE IF Cardinality(Names) = MaxFiles THEN Error("ramfs full")
            ELSE Change(With(n, << >>))

(* Appended words are separated from the text before them like the others. *)
Extended(n, words) ==
  Joined((IF files[n] = << >> THEN << >> ELSE <<files[n]>>) \o words)

Digits == <<"0", "1", "2", "3", "4", "5", "6", "7", "8", "9">>
Entry(n) == n \o <<" ", Digits[Len(files[n]) + 1], "\n">>

(* The files are listed in some order, each once. *)
List == IF Names = {} THEN Answer(<<"(empty)", "\n">>)
        ELSE \E order \in SetToSeqs(Names) :
               Answer(FoldLeft(LAMBDA text, n : text \o Entry(n), << >>, order))

Arity(w) == CASE w[1] \in {<<"cat">>, <<"touch">>, <<"rm">>} -> Len(w) = 2
              [] w[1] \in {<<"write">>, <<"append">>} -> Len(w) > 2
              [] w[1] = <<"echo">> -> TRUE
              [] OTHER -> Len(w) = 1

Plain == {<<"help">>, <<"clear">>, <<"ls">>, <<"status">>, <<"about">>}
Commands == Plain \cup {<<"echo">>, <<"cat">>, <<"touch">>, <<"write">>,
                        <<"append">>, <<"rm">>}

Run(w) ==
  LET text == SubSeq(w, 3, Len(w))
  IN  CASE w[1] = <<"ls">> -> List
        [] w[1] = <<"clear">> -> Answer(<<"clear screen">>)
        [] w[1] \in Plain \ {<<"ls">>, <<"clear">>} -> Answer(w[1] \o <<"\n">>)
        [] w[1] = <<"echo">> -> Answer(Joined(Tail(w)) \o <<"\n">>)
        [] w[1] = <<"cat">> -> OnFile(w[2], Answer(files[w[2]] \o <<"\n">>))
        [] w[1] = <<"touch">> -> Touch(w[2])
        [] w[1] = <<"write">> -> Put(w[2], Joined(text))
        [] w[1] = <<"append">> -> OnFile(w[2], Put(w[2], Extended(w[2], text)))
        [] w[1] = <<"rm">> -> OnFile(w[2], Change(Without(w[2])))

Enter ==
  LET w == Words(typed)
  IN  /\ open /\ typed' = << >> /\ UNCHANGED open
      /\ IF w = << >> THEN Answer(<< >>)
         ELSE IF \E i \in 1 .. Len(w) : i <= MaxArguments + 1 /\ Len(w[i]) > WordMax
         THEN Error("argument too long")
         ELSE IF Len(w) > MaxArguments + 1 THEN Error("too many arguments")
         ELSE IF w[1] \notin Commands THEN Error("unknown command")
         ELSE IF ~ Arity(w) THEN Error("usage")
         ELSE Run(w)

(* What a key does: a key without effect prints nothing. *)
Press(key) == CASE key \in {"\n", "\r"} -> Enter
                [] key = "bs" -> IF typed = << >> THEN Ignore ELSE Erase
                [] key \in Characters -> IF Len(typed) = LineMax THEN Ignore ELSE Type(key)
                [] key \in Others -> Ignore

Next == Greet \/ \E key \in Characters \cup Others \cup {"bs", "\n", "\r"} : Press(key)

Spec == Init /\ [][Next]_sessionVars
===============================================================================
