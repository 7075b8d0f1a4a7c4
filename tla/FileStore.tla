------------------------------ MODULE FileStore ------------------------------
(***************************************************************************)
(* What the file system promises its callers: a map from valid names to    *)
(* byte sequences with at most MaxFiles entries of at most MaxBytes bytes. *)
(* Every request either has its full effect and is answered "OK", or       *)
(* changes nothing and is answered with the error its arguments deserve.   *)
(***************************************************************************)
EXTENDS Naturals, Sequences, FiniteSets

CONSTANTS ValidNames, BadNames, Contents, MaxFiles, MaxBytes, NULL

VARIABLES files,     \* name -> contents
          asked,     \* the latest request
          answer,    \* its result
          buffer     \* what it delivered, if it was a successful read

storeVars == <<files, asked, answer, buffer>>

Names == DOMAIN files
Without(n) == [m \in Names \ {n} |-> files[m]]
With(n, c) == [m \in Names \cup {n} |-> IF m = n THEN c ELSE files[m]]

Init == files = << >> /\ asked = [op |-> "init"] /\ answer = "OK" /\ buffer = << >>

Done(new) == files' = new /\ answer' = "OK" /\ buffer' = << >>
Error(e) == answer' = e /\ buffer' = << >> /\ UNCHANGED files

Format == asked' = [op |-> "init"] /\ Done(<< >>)

(* The errors any request with a name can meet before its own. *)
Named(n, nullArgument, effect) ==
  \/ (n = NULL \/ nullArgument) /\ Error("INVALID_ARGUMENT")
  \/ n \in BadNames /\ ~ nullArgument /\ Error("INVALID_NAME")
  \/ n \in ValidNames /\ ~ nullArgument /\ effect

Existing(n, nullArgument, effect) ==
  Named(n, nullArgument, IF n \in Names THEN effect ELSE Error("NOT_FOUND"))

Store(n, c) == IF Len(c) <= MaxBytes THEN Done(With(n, c)) ELSE Error("TOO_LARGE")

Create(n) ==
  /\ asked' = [op |-> "create", name |-> n]
  /\ Named(n, FALSE, IF n \in Names THEN Error("ALREADY_EXISTS")
                     ELSE IF Cardinality(Names) = MaxFiles THEN Error("NO_SPACE")
                     ELSE Done(With(n, << >>)))

Write(n, data) ==
  /\ asked' = [op |-> "write", name |-> n, data |-> data]
  /\ Existing(n, data = NULL, Store(n, data))

Extend(n, data) ==
  /\ asked' = [op |-> "append", name |-> n, data |-> data]
  /\ Existing(n, data = NULL, Store(n, files[n] \o data))

(* A reader without a buffer can only learn that a file is empty. *)
Read(n, noBuffer, capacity, noLength) ==
  /\ asked' = [op |-> "read", name |-> n, noBuffer |-> noBuffer,
               capacity |-> capacity, noLength |-> noLength]
  /\ Existing(n, noLength,
       IF noBuffer /\ <<files[n], capacity>> # <<<< >>, 0>>
       THEN Error("INVALID_ARGUMENT")
       ELSE IF Len(files[n]) > capacity THEN Error("TOO_LARGE")
       ELSE /\ buffer' = files[n] /\ answer' = "OK"
            /\ UNCHANGED files)

Remove(n) == /\ asked' = [op |-> "remove", name |-> n]
             /\ Existing(n, FALSE, Done(Without(n)))

Next == \/ Format
        \/ \E n \in ValidNames \cup BadNames \cup {NULL} :
             \/ Create(n) \/ Remove(n)
             \/ \E data \in Contents \cup {NULL} : Write(n, data) \/ Extend(n, data)
             \/ \E capacity \in 0 .. MaxBytes, noBuffer, noLength \in BOOLEAN :
                  Read(n, noBuffer, capacity, noLength)

Spec == Init /\ [][Next]_storeVars
==============================================================================
