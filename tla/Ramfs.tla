-------------------------------- MODULE Ramfs --------------------------------
(***************************************************************************)
(* The RAM file system of kernel/fs/ramfs.c: a fixed table of slots, each  *)
(* with a name, a fixed data array and a length.  A C string is the        *)
(* sequence of the characters before its terminator.  Only the foreground  *)
(* shell calls it, so each call is one action.                             *)
(***************************************************************************)
EXTENDS Naturals, Sequences, FiniteSets

CONSTANTS RAMFS_MAX_FILES, RAMFS_NAME_MAX, RAMFS_FILE_MAX_BYTES,
          CallerNames,   \* the strings that callers pass as names
          CallerData,    \* the byte sequences that callers pass as data
          NULL           \* the null pointer

ASSUME RamfsAssumption ==
  /\ {RAMFS_MAX_FILES, RAMFS_NAME_MAX, RAMFS_FILE_MAX_BYTES} \subseteq Nat
  /\ \A n \in CallerNames : n \in Seq(STRING)
  /\ \A d \in CallerData : d \in Seq(Nat)

SlotIds == 0 .. RAMFS_MAX_FILES - 1
Positions == 0 .. RAMFS_FILE_MAX_BYTES - 1

VARIABLES slots, live_file_count,
          request,    \* history: the latest call and its arguments
          result,     \* what it returned
          out         \* the bytes it delivered, if it was a read

vars == <<slots, live_file_count, request, result, out>>

Blank == [alive |-> FALSE, name |-> << >>, length |-> 0,
          data |-> [i \in Positions |-> 0]]

Init == /\ slots = [s \in SlotIds |-> Blank]
        /\ live_file_count = 0
        /\ request = [op |-> "init"] /\ result = "OK" /\ out = << >>

-----------------------------------------------------------------------------
Allowed == {"a", "b", "Z", "0", ".", "_", "-"}   \* one or two of each class

name_is_valid(n) ==
  /\ Len(n) \in 1 .. RAMFS_NAME_MAX
  /\ \A i \in 1 .. Len(n) : n[i] \in Allowed
  /\ n \notin {<<".">>, <<".", ".">>}

Lowest(ids) == CHOOSE s \in ids : \A t \in ids : s <= t

Holders(n) == {s \in SlotIds : slots[s].alive /\ slots[s].name = n}
Empty == {s \in SlotIds : ~ slots[s].alive}
find_slot(n) == Lowest(Holders(n))
find_empty_slot == Lowest(Empty)

(* Mutant of clear_slot: the contents stay behind. *)
clear_slot_shallow(slot) == [slot EXCEPT !.alive = FALSE, !.length = 0]

clear_slot(slot) == Blank

(* Mutant of Room: off by one. *)
Room_short(slot) == RAMFS_FILE_MAX_BYTES - slot.length - 1

Room(slot) == RAMFS_FILE_MAX_BYTES - slot.length

Overwritten(d) == [i \in Positions |-> IF i < Len(d) THEN d[i + 1] ELSE 0]

(* Every early return leaves the table as it is. *)
returns(r) == result' = r /\ out' = << >> /\ UNCHANGED <<slots, live_file_count>>
succeeds == result' = "OK" /\ out' = << >>

(* The tests every operation on an existing file begins with. *)
OnFile(n, body) ==
  IF n = NULL THEN returns("INVALID_ARGUMENT")
  ELSE IF ~ name_is_valid(n) THEN returns("INVALID_NAME")
  ELSE IF Holders(n) = {} THEN returns("NOT_FOUND")
  ELSE body

-----------------------------------------------------------------------------
ramfs_init == /\ slots' = [s \in SlotIds |-> clear_slot(slots[s])]
              /\ live_file_count' = 0
              /\ request' = [op |-> "init"]
              /\ succeeds

ramfs_create(n) ==
  /\ request' = [op |-> "create", name |-> n]
  /\ IF n = NULL THEN returns("INVALID_ARGUMENT")
     ELSE IF ~ name_is_valid(n) THEN returns("INVALID_NAME")
     ELSE IF Holders(n) # {} THEN returns("ALREADY_EXISTS")
     ELSE IF Empty = {} THEN returns("NO_SPACE")
     ELSE /\ slots' = [slots EXCEPT ![find_empty_slot] =
                         [clear_slot(@) EXCEPT !.alive = TRUE, !.name = n]]
          /\ live_file_count' = live_file_count + 1
          /\ succeeds

(* Data is NULL for a null pointer with a nonzero length.  The whole array *)
(* is overwritten: bytes past the new length become zero.                  *)
ramfs_write(n, d) ==
  LET s == find_slot(n)
  IN  /\ request' = [op |-> "write", name |-> n, data |-> d]
      /\ IF d = NULL THEN returns("INVALID_ARGUMENT")
         ELSE OnFile(n,
           IF Len(d) > RAMFS_FILE_MAX_BYTES THEN returns("TOO_LARGE")
           ELSE /\ slots' = [slots EXCEPT ![s].data = Overwritten(d),
                                          ![s].length = Len(d)]
                /\ succeeds
                /\ UNCHANGED live_file_count)

ramfs_append(n, d) ==
  LET s == find_slot(n)
      old == slots[s].length
  IN  /\ request' = [op |-> "append", name |-> n, data |-> d]
      /\ IF d = NULL THEN returns("INVALID_ARGUMENT")
         ELSE OnFile(n,
           IF Len(d) > Room(slots[s]) THEN returns("TOO_LARGE")
           ELSE /\ slots' = [slots EXCEPT
                     ![s].data = [i \in Positions |->
                                    IF i \in old .. old + Len(d) - 1
                                    THEN d[i - old + 1] ELSE @[i]],
                     ![s].length = old + Len(d)]
                /\ succeeds
                /\ UNCHANGED live_file_count)

FileBytes(slot) == [i \in 1 .. slot.length |-> slot.data[i - 1]]

(* With a null buffer only an empty file can be read, into capacity 0. *)
ramfs_read(n, noBuffer, capacity, noLength) ==
  LET slot == slots[find_slot(n)]
  IN  /\ request' = [op |-> "read", name |-> n, noBuffer |-> noBuffer,
                     capacity |-> capacity, noLength |-> noLength]
      /\ IF noLength THEN returns("INVALID_ARGUMENT")
         ELSE OnFile(n,
           IF noBuffer /\ (slot.length # 0 \/ capacity # 0)
           THEN returns("INVALID_ARGUMENT")
           ELSE IF capacity < slot.length THEN returns("TOO_LARGE")
           ELSE /\ out' = FileBytes(slot)
                /\ result' = "OK"
                /\ UNCHANGED <<slots, live_file_count>>)

ramfs_remove(n) ==
  /\ request' = [op |-> "remove", name |-> n]
  /\ OnFile(n, /\ slots' = [slots EXCEPT ![find_slot(n)] = clear_slot(@)]
               /\ live_file_count' = live_file_count - 1
               /\ succeeds)

ramfs_count == live_file_count

(* Mutant of ramfs_get_info: free slots are counted as well. *)
ramfs_get_info_raw(index) ==
  {s \in SlotIds : slots[s].alive /\ s = index}

(* ramfs_get_info(index): the slots listed at position index, one or none. *)
ramfs_get_info(index) ==
  {s \in SlotIds : /\ slots[s].alive
                   /\ Cardinality({t \in SlotIds : t < s /\ slots[t].alive}) = index}

ramfs_validate ==
  /\ live_file_count <= RAMFS_MAX_FILES
  /\ \A s \in SlotIds :
       IF slots[s].alive
       THEN /\ name_is_valid(slots[s].name)
            /\ slots[s].length <= RAMFS_FILE_MAX_BYTES
            /\ \A t \in SlotIds : t > s /\ slots[t].alive =>
                 slots[t].name # slots[s].name
       ELSE slots[s] = Blank
  /\ live_file_count = Cardinality({s \in SlotIds : slots[s].alive})

Next ==
  \/ ramfs_init
  \/ \E n \in CallerNames \cup {NULL} :
       \/ ramfs_create(n)
       \/ ramfs_remove(n)
       \/ \E d \in CallerData \cup {NULL} : ramfs_write(n, d) \/ ramfs_append(n, d)
       \/ \E capacity \in 0 .. RAMFS_FILE_MAX_BYTES, noBuffer \in BOOLEAN :
            ramfs_read(n, noBuffer, capacity, FALSE)
       \/ ramfs_read(n, FALSE, 0, TRUE)

Spec == Init /\ [][Next]_vars

-----------------------------------------------------------------------------
(* ramfs_validate holds after every call: no two files share a name, the   *)
(* counter is the number of files, a free slot keeps nothing of the file   *)
(* that used it.                                                           *)
AlwaysValid == ramfs_validate

(* A listing that asks for index 0, 1, ... up to ramfs_count sees every    *)
(* file exactly once, and the first index past the count is refused.       *)
ListingComplete ==
  /\ \A i \in 0 .. ramfs_count - 1 : Cardinality(ramfs_get_info(i)) = 1
  /\ UNION {ramfs_get_info(i) : i \in 0 .. ramfs_count - 1}
       = {s \in SlotIds : slots[s].alive}
  /\ ramfs_get_info(ramfs_count) = {}

(* The files by name, read from the slots as ramfs_read finds them. *)
files == [n \in {slots[s].name : s \in SlotIds \ Empty} |-> FileBytes(slots[find_slot(n)])]

Store == INSTANCE FileStore WITH
  ValidNames <- {n \in CallerNames : name_is_valid(n)},
  BadNames <- {n \in CallerNames : ~ name_is_valid(n)},
  Contents <- CallerData,
  MaxFiles <- RAMFS_MAX_FILES, MaxBytes <- RAMFS_FILE_MAX_BYTES,
  asked <- request, answer <- result, buffer <- out

(* The slot table implements a map from names to contents: every call has  *)
(* the effect and the result that the map and the arguments determine.     *)
ImplementsFileStore == Store!Spec
==============================================================================
