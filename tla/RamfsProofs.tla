----------------------------- MODULE RamfsProofs ------------------------------
(***************************************************************************)
(* Proofs about the file system of module Ramfs, for every number of       *)
(* slots, every limit on names and files, and all names and data that      *)
(* callers pass: ramfs_validate always holds, a listing is complete, and   *)
(* the slots implement the map from names to contents of module FileStore. *)
(***************************************************************************)
EXTENDS Ramfs, FiniteSetTheorems, SequenceTheorems, WellFoundedInduction, TLAPS

Slot == [alive : BOOLEAN, name : Seq(STRING), length : 0 .. RAMFS_FILE_MAX_BYTES,
         data : [Positions -> Nat]]

Live == {s \in SlotIds : slots[s].alive}

(* What the calls keep: types, and what ramfs_validate says. *)
IInv ==
  /\ slots \in [SlotIds -> Slot]
  /\ live_file_count = Cardinality(Live)
  /\ \A s \in SlotIds :
       IF slots[s].alive THEN name_is_valid(slots[s].name) ELSE slots[s] = Blank
  /\ \A s, t \in Live : slots[s].name = slots[t].name => s = t

-----------------------------------------------------------------------------
LEMMA Sizes ==
  /\ RAMFS_MAX_FILES \in Nat /\ RAMFS_FILE_MAX_BYTES \in Nat
  /\ \A n \in CallerNames : n \in Seq(STRING)
  /\ \A d \in CallerData : d \in Seq(Nat)
  BY RamfsAssumption, Zenon

LEMMA SlotIdsFinite ==
  /\ IsFiniteSet(SlotIds) /\ Cardinality(SlotIds) = RAMFS_MAX_FILES
  /\ SlotIds \subseteq Nat
  <1>1. 0 \in Int /\ RAMFS_MAX_FILES - 1 \in Int /\ RAMFS_MAX_FILES \in Nat
    BY Sizes
  <1> QED  BY <1>1, FS_Interval DEF SlotIds

LEMMA LiveFinite ==
  /\ IsFiniteSet(Live) /\ Cardinality(Live) \in Nat
  /\ Cardinality(Live) <= RAMFS_MAX_FILES
  /\ Cardinality(Live) = RAMFS_MAX_FILES <=> Empty = {}
  <1>1. Live \in SUBSET SlotIds
    BY Zenon DEF Live
  <1>2. /\ IsFiniteSet(Live) /\ Cardinality(Live) <= Cardinality(SlotIds)
        /\ Cardinality(SlotIds) = Cardinality(Live) => SlotIds = Live
    BY <1>1, SlotIdsFinite, FS_Subset, Zenon
  <1>3. SlotIds = Live <=> Empty = {}
    BY Zenon DEF Live, Empty
  <1> QED  BY <1>2, <1>3, SlotIdsFinite, FS_CardinalityType, Zenon

LEMMA BlankSlot == Blank \in Slot /\ Blank.alive = FALSE /\ Blank.name = << >> /\ Blank.length = 0
  <1>1. 0 \in 0 .. RAMFS_FILE_MAX_BYTES /\ << >> \in Seq(STRING)
    BY Sizes
  <1>2. [i \in Positions |-> 0] \in [Positions -> Nat]
    BY Zenon
  <1> QED  BY <1>1, <1>2, Zenon DEF Blank, Slot

(* The slot the scans find: the lowest of a set that is not empty. *)
LEMMA LowestIn ==
  ASSUME NEW T \in SUBSET SlotIds, T # {}
  PROVE  Lowest(T) \in T
  <1>1. T \in SUBSET Nat
    BY SlotIdsFinite, Zenon
  <1>2. PICK x \in T : \A y \in T : ~ (<<y, x>> \in OpToRel(<, Nat))
    BY <1>1, NatLessThanWellFounded, WFMin, Zenon
  <1>3. \A y \in T : ~ (y < x)
    BY <1>1, <1>2, Zenon DEF OpToRel
  <1>4. \E p \in T : \A q \in T : p <= q
    BY <1>1, <1>3
  <1> QED  BY <1>4, Zenon DEF Lowest

(* A name has one slot. *)
LEMMA FoundSlot ==
  ASSUME NEW n, IInv
  PROVE  /\ Holders(n) # {} => /\ find_slot(n) \in Live
                               /\ slots[find_slot(n)].name = n
         /\ \A s \in Live : slots[s].name = n => Holders(n) # {} /\ find_slot(n) = s
  <1>1. Holders(n) \in SUBSET SlotIds
    BY Zenon DEF Holders
  <1>2. Holders(n) # {} => find_slot(n) \in Holders(n)
    BY <1>1, LowestIn, Zenon DEF find_slot
  <1> QED  BY <1>2, Zenon DEF Holders, Live, IInv

LEMMA FoundEmpty ==
  ASSUME Empty # {}
  PROVE  find_empty_slot \in SlotIds /\ ~ slots[find_empty_slot].alive
  <1>1. Empty \in SUBSET SlotIds
    BY Zenon DEF Empty
  <1>2. find_empty_slot \in Empty
    BY <1>1, LowestIn, Zenon DEF find_empty_slot
  <1> QED  BY <1>2, Zenon DEF Empty

-----------------------------------------------------------------------------
(* The three ways a call changes the table: a file gets new contents, a    *)
(* free slot becomes a file, a file's slot becomes blank.                  *)
LEMMA ReplaceStep ==
  ASSUME IInv, NEW s \in Live, NEW t \in Slot, t.alive, t.name = slots[s].name,
         slots' = [slots EXCEPT ![s] = t], live_file_count' = live_file_count
  PROVE  /\ IInv' /\ Live' = Live /\ slots'[s] = t
         /\ \A u \in SlotIds : u # s => slots'[u] = slots[u]
  <1>1. s \in SlotIds /\ slots \in [SlotIds -> Slot]
    BY Zenon DEF Live, IInv
  <1>2. slots'[s] = t /\ \A u \in SlotIds : u # s => slots'[u] = slots[u]
    BY <1>1, Zenon
  <1>3. slots' \in [SlotIds -> Slot]
    BY <1>1, Zenon
  <1>4. Live' = Live
    BY <1>2, Zenon DEF Live
  <1>5. \A u \in SlotIds : slots'[u].alive = slots[u].alive /\ slots'[u].name = slots[u].name
    BY <1>2, Zenon DEF Live, IInv
  <1>6. \A u \in SlotIds :
          IF slots'[u].alive THEN name_is_valid(slots'[u].name) ELSE slots'[u] = Blank
    BY <1>2, <1>5, Zenon DEF IInv, Live
  <1>7. \A u, w \in Live : slots'[u].name = slots'[w].name => u = w
    BY <1>5 DEF IInv, Live
  <1> QED  BY <1>2, <1>3, <1>4, <1>6, <1>7, Zenon DEF IInv

LEMMA AddStep ==
  ASSUME IInv, NEW s \in SlotIds, ~ slots[s].alive, NEW t \in Slot, t.alive,
         name_is_valid(t.name), Holders(t.name) = {},
         slots' = [slots EXCEPT ![s] = t], live_file_count' = live_file_count + 1
  PROVE  /\ IInv' /\ Live' = Live \cup {s} /\ s \notin Live /\ slots'[s] = t
         /\ \A u \in SlotIds : u # s => slots'[u] = slots[u]
  <1>1. slots \in [SlotIds -> Slot]
    BY Zenon DEF IInv
  <1>2. slots'[s] = t /\ \A u \in SlotIds : u # s => slots'[u] = slots[u]
    BY <1>1, Zenon
  <1>3. slots' \in [SlotIds -> Slot]
    BY <1>1, Zenon
  <1>4. Live' = Live \cup {s} /\ s \notin Live
    BY <1>2, Zenon DEF Live
  <1>5. live_file_count' = Cardinality(Live')
    BY <1>4, LiveFinite, FS_AddElement, Zenon DEF IInv
  <1>6. \A u \in SlotIds :
          IF slots'[u].alive THEN name_is_valid(slots'[u].name) ELSE slots'[u] = Blank
    BY <1>2, Zenon DEF IInv
  <1>7. \A u \in Live : slots[u].name # t.name
    BY Zenon DEF Holders, Live
  <1>8. \A u, w \in Live' : slots'[u].name = slots'[w].name => u = w
    BY <1>2, <1>4, <1>7 DEF IInv, Live
  <1> QED  BY <1>2, <1>3, <1>4, <1>5, <1>6, <1>8, Zenon DEF IInv

LEMMA DropStep ==
  ASSUME IInv, NEW s \in Live, slots' = [slots EXCEPT ![s] = Blank],
         live_file_count' = live_file_count - 1
  PROVE  /\ IInv' /\ Live' = Live \ {s} /\ slots'[s] = Blank
         /\ \A u \in SlotIds : u # s => slots'[u] = slots[u]
  <1>1. s \in SlotIds /\ slots \in [SlotIds -> Slot]
    BY Zenon DEF Live, IInv
  <1>2. slots'[s] = Blank /\ \A u \in SlotIds : u # s => slots'[u] = slots[u]
    BY <1>1, Zenon
  <1>3. slots' \in [SlotIds -> Slot]
    BY <1>1, BlankSlot, Zenon
  <1>4. Live' = Live \ {s}
    BY <1>2, BlankSlot, Zenon DEF Live
  <1>5. live_file_count' = Cardinality(Live')
    BY <1>4, LiveFinite, FS_RemoveElement, Zenon DEF IInv
  <1>6. \A u \in SlotIds :
          IF slots'[u].alive THEN name_is_valid(slots'[u].name) ELSE slots'[u] = Blank
    BY <1>2, BlankSlot, Zenon DEF IInv
  <1>7. \A u, w \in Live' : slots'[u].name = slots'[w].name => u = w
    BY <1>2, <1>4, ZenonT(40) DEF IInv, Live
  <1> QED  BY <1>2, <1>3, <1>4, <1>5, <1>6, <1>7, Zenon DEF IInv

LEMMA ClearStep ==
  ASSUME slots' = [s \in SlotIds |-> Blank], live_file_count' = 0
  PROVE  IInv' /\ Live' = {}
  <1>1. Live' = {} /\ Cardinality({}) = 0
    BY BlankSlot, FS_EmptySet, Zenon DEF Live
  <1>2. slots' \in [SlotIds -> Slot]
    BY BlankSlot, Zenon
  <1>3. \A s \in SlotIds :
          IF slots'[s].alive THEN name_is_valid(slots'[s].name) ELSE slots'[s] = Blank
    BY BlankSlot, Zenon
  <1> QED  BY <1>1, <1>2, <1>3, Zenon DEF IInv

LEMMA SameTable ==
  ASSUME IInv, UNCHANGED <<slots, live_file_count>>
  PROVE  IInv'
  BY Zenon DEF IInv, Live

-----------------------------------------------------------------------------
(* The slot a successful write or append leaves: well formed, of the same  *)
(* name, and with the bytes that module FileStore expects.                 *)
Written(slot, d) == [slot EXCEPT !.data = Overwritten(d), !.length = Len(d)]

Appended(slot, d) ==
  [slot EXCEPT !.data = [i \in Positions |->
                           IF i \in slot.length .. slot.length + Len(d) - 1
                           THEN d[i - slot.length + 1] ELSE slot.data[i]],
               !.length = slot.length + Len(d)]

LEMMA BytesSeq ==
  ASSUME NEW slot \in Slot
  PROVE  /\ FileBytes(slot) \in Seq(Nat) /\ Len(FileBytes(slot)) = slot.length
         /\ slot.length \in Nat
         /\ \A i \in 1 .. slot.length : FileBytes(slot)[i] = slot.data[i - 1]
  <1>1. slot.length \in Nat /\ slot.length <= RAMFS_FILE_MAX_BYTES
    BY Sizes DEF Slot
  <1>2. \A i \in 1 .. slot.length : i - 1 \in Positions
    BY <1>1, Sizes DEF Positions
  <1>3. slot.data \in [Positions -> Nat]
    BY Zenon DEF Slot
  <1>4. \A i \in 1 .. slot.length : slot.data[i - 1] \in Nat
    BY <1>2, <1>3, Zenon
  <1>5. FileBytes(slot) \in [1 .. slot.length -> Nat]
    BY <1>4, Zenon DEF FileBytes
  <1>6. FileBytes(slot) \in Seq(Nat) /\ Len(FileBytes(slot)) = slot.length
    BY <1>1, <1>5
  <1> QED  BY <1>1, <1>6, Zenon DEF FileBytes

LEMMA WrittenSlot ==
  ASSUME NEW slot \in Slot, NEW d \in Seq(Nat), Len(d) <= RAMFS_FILE_MAX_BYTES
  PROVE  /\ Written(slot, d) \in Slot
         /\ Written(slot, d).alive = slot.alive /\ Written(slot, d).name = slot.name
         /\ FileBytes(Written(slot, d)) = d
  <1> DEFINE t == Written(slot, d)
  <1>1. Len(d) \in Nat /\ Len(d) \in 0 .. RAMFS_FILE_MAX_BYTES
        /\ \A i \in 1 .. Len(d) : d[i] \in Nat
    BY Sizes
  <1>2. Overwritten(d) \in [Positions -> Nat]
    <2>1. \A i \in Positions : i < Len(d) => i + 1 \in 1 .. Len(d)
      BY <1>1, Sizes DEF Positions
    <2> QED  BY <1>1, <2>1, Zenon DEF Overwritten
  <1>3. t.data = Overwritten(d) /\ t.length = Len(d) /\ t.alive = slot.alive /\ t.name = slot.name
    BY Zenon DEF Written, Slot
  <1>4. t \in Slot
    BY <1>1, <1>2, Zenon DEF Written, Slot
  <1> HIDE DEF t
  <1>5. ASSUME NEW i \in 1 .. Len(d) PROVE FileBytes(t)[i] = d[i]
    <2>1. i - 1 \in Positions /\ i - 1 < Len(d) /\ (i - 1) + 1 = i
      BY <1>1, Sizes DEF Positions
    <2>2. Overwritten(d)[i - 1] = d[i]
      BY <2>1, Zenon DEF Overwritten
    <2>3. FileBytes(t)[i] = t.data[i - 1]
      BY <1>3, <1>4, BytesSeq, Zenon
    <2> QED  BY <1>3, <2>2, <2>3, Zenon
  <1>6. FileBytes(t) \in Seq(Nat) /\ Len(FileBytes(t)) = Len(d)
    BY <1>3, <1>4, BytesSeq, Zenon
  <1>7. FileBytes(t) = d
    BY <1>5, <1>6, SeqEqual, Zenon
  <1> QED  BY <1>3, <1>4, <1>7, Zenon DEF t

LEMMA AppendedSlot ==
  ASSUME NEW slot \in Slot, NEW d \in Seq(Nat), Len(d) <= Room(slot)
  PROVE  /\ Appended(slot, d) \in Slot
         /\ Appended(slot, d).alive = slot.alive /\ Appended(slot, d).name = slot.name
         /\ FileBytes(Appended(slot, d)) = FileBytes(slot) \o d
  <1> DEFINE t == Appended(slot, d)
             old == slot.length
             new == [i \in Positions |-> IF i \in old .. old + Len(d) - 1
                                         THEN d[i - old + 1] ELSE slot.data[i]]
  <1>1. /\ old \in Nat /\ Len(d) \in Nat /\ old + Len(d) \in 0 .. RAMFS_FILE_MAX_BYTES
        /\ \A i \in 1 .. Len(d) : d[i] \in Nat
    BY Sizes, SMTT(30) DEF Room, Slot
  <1>2. slot.data \in [Positions -> Nat]
    BY Zenon DEF Slot
  <1>3. new \in [Positions -> Nat]
    <2>1. \A a, b \in Nat : \A i \in a .. a + b - 1 : i - a + 1 \in 1 .. b
      OBVIOUS
    <2>2. \A i \in old .. old + Len(d) - 1 : d[i - old + 1] \in Nat
      BY <1>1, <2>1, Zenon
    <2> QED  BY <1>2, <2>2, Zenon
  <1>4. t = [slot EXCEPT !.data = new, !.length = old + Len(d)]
    BY Zenon DEF Appended
  <1> HIDE DEF new, t
  <1>5. t.data = new /\ t.length = old + Len(d) /\ t.alive = slot.alive /\ t.name = slot.name
    BY <1>4, Zenon DEF Slot
  <1>6. t \in Slot
    BY <1>1, <1>3, <1>4, Zenon DEF Slot
  <1>7. /\ FileBytes(slot) \in Seq(Nat) /\ Len(FileBytes(slot)) = old
        /\ \A i \in 1 .. old : FileBytes(slot)[i] = slot.data[i - 1]
    BY BytesSeq, Zenon
  <1>8. /\ FileBytes(t) \in Seq(Nat) /\ Len(FileBytes(t)) = old + Len(d)
        /\ \A i \in 1 .. old + Len(d) : FileBytes(t)[i] = new[i - 1]
    BY <1>5, <1>6, BytesSeq, Zenon
  <1>9. /\ FileBytes(slot) \o d \in Seq(Nat) /\ Len(FileBytes(slot) \o d) = old + Len(d)
        /\ \A i \in 1 .. old + Len(d) : (FileBytes(slot) \o d)[i] =
             IF i <= old THEN FileBytes(slot)[i] ELSE d[i - old]
    <2> DEFINE b == FileBytes(slot)
    <2>1. b \in Seq(Nat) /\ Len(b) = old
      BY <1>7, Zenon
    <2> HIDE DEF b
    <2>2. /\ b \o d \in Seq(Nat) /\ Len(b \o d) = Len(b) + Len(d)
          /\ \A i \in 1 .. Len(b) + Len(d) : (b \o d)[i] =
               IF i <= Len(b) THEN b[i] ELSE d[i - Len(b)]
      BY <2>1, ConcatProperties, Zenon
    <2>3. /\ b \o d \in Seq(Nat) /\ Len(b \o d) = old + Len(d)
          /\ \A i \in 1 .. old + Len(d) : (b \o d)[i] =
               IF i <= old THEN b[i] ELSE d[i - old]
      BY <2>1, <2>2, Zenon
    <2> QED  BY <2>3, Zenon DEF b
  <1>10. ASSUME NEW i \in 1 .. old + Len(d)
         PROVE  FileBytes(t)[i] = (FileBytes(slot) \o d)[i]
    <2>1. i - 1 \in Positions /\ i \in Nat
      BY <1>1, Sizes DEF Positions
    <2>2. CASE i <= old
      <3>1. ~ (i - 1 \in old .. old + Len(d) - 1) /\ i \in 1 .. old
        BY <1>1, <2>2
      <3>2. new[i - 1] = slot.data[i - 1]
        BY <2>1, <3>1, Zenon DEF new
      <3> QED  BY <1>7, <1>8, <1>9, <2>2, <3>1, <3>2, Zenon
    <2>3. CASE ~ (i <= old)
      <3>1. i - 1 \in old .. old + Len(d) - 1 /\ (i - 1) - old + 1 = i - old
        BY <1>1, <2>1, <2>3
      <3>2. new[i - 1] = d[i - old]
        BY <2>1, <3>1, Zenon DEF new
      <3> QED  BY <1>8, <1>9, <2>3, <3>2, Zenon
    <2> QED  BY <2>2, <2>3, Zenon
  <1>11. FileBytes(t) = FileBytes(slot) \o d
    BY <1>8, <1>9, <1>10, SeqEqual, Zenon
  <1> QED  BY <1>5, <1>6, <1>11, Zenon DEF t

(* The slot of a new file. *)
Created(n) == [Blank EXCEPT !.alive = TRUE, !.name = n]

LEMMA CreatedSlot ==
  ASSUME NEW n \in Seq(STRING)
  PROVE  /\ Created(n) \in Slot /\ Created(n).alive /\ Created(n).name = n
         /\ FileBytes(Created(n)) = << >>
  <1>1. Created(n) \in Slot /\ Created(n).alive /\ Created(n).name = n /\ Created(n).length = 0
    BY BlankSlot, Zenon DEF Created, Slot
  <1>2. FileBytes(Created(n)) \in Seq(Nat) /\ Len(FileBytes(Created(n))) = 0
    BY <1>1, BytesSeq, Zenon
  <1> QED  BY <1>1, <1>2

-----------------------------------------------------------------------------
(* What each call does to the table, when it does something. *)
Callers == CallerNames \cup {NULL}
Payloads == CallerData \cup {NULL}

CreateDone(n) ==
  /\ n \in CallerNames /\ name_is_valid(n) /\ Holders(n) = {} /\ Empty # {}
  /\ slots' = [slots EXCEPT ![find_empty_slot] = Created(n)]
  /\ live_file_count' = live_file_count + 1

WriteDone(n, d) ==
  /\ d \in CallerData /\ Holders(n) # {} /\ Len(d) <= RAMFS_FILE_MAX_BYTES
  /\ slots' = [slots EXCEPT ![find_slot(n)] = Written(slots[find_slot(n)], d)]
  /\ live_file_count' = live_file_count

AppendDone(n, d) ==
  /\ d \in CallerData /\ Holders(n) # {} /\ Len(d) <= Room(slots[find_slot(n)])
  /\ slots' = [slots EXCEPT ![find_slot(n)] = Appended(slots[find_slot(n)], d)]
  /\ live_file_count' = live_file_count

RemoveDone(n) ==
  /\ Holders(n) # {}
  /\ slots' = [slots EXCEPT ![find_slot(n)] = Blank]
  /\ live_file_count' = live_file_count - 1

LEMMA CreateCases ==
  ASSUME NEW n \in Callers, ramfs_create(n)
  PROVE  UNCHANGED <<slots, live_file_count>> \/ (CreateDone(n) /\ succeeds)
  <1> DEFINE refused == n = NULL \/ ~ name_is_valid(n) \/ Holders(n) # {} \/ Empty = {}
  <1>1. CASE refused
    BY <1>1, Zenon DEF ramfs_create, returns
  <1>2. CASE ~ refused
    BY <1>2, Zenon DEF ramfs_create, CreateDone, Callers, clear_slot, Created
  <1> QED  BY <1>1, <1>2, Zenon

LEMMA WriteCases ==
  ASSUME IInv, NEW n \in Callers, NEW d \in Payloads, ramfs_write(n, d)
  PROVE  UNCHANGED <<slots, live_file_count>> \/ (WriteDone(n, d) /\ succeeds)
  <1> DEFINE refused == \/ d = NULL \/ n = NULL \/ ~ name_is_valid(n) \/ Holders(n) = {}
                        \/ Len(d) > RAMFS_FILE_MAX_BYTES
             s == find_slot(n)
  <1>1. CASE refused
    BY <1>1, Zenon DEF ramfs_write, OnFile, returns
  <1>2. CASE ~ refused
    <2>1. d \in CallerData /\ Holders(n) # {} /\ Len(d) <= RAMFS_FILE_MAX_BYTES
      <3>1. d \in Seq(Nat) /\ d \in CallerData
        BY <1>2, Sizes, Zenon DEF Payloads
      <3> QED  BY <1>2, <3>1, Sizes
    <2>2. /\ slots' = [slots EXCEPT ![s].data = Overwritten(d), ![s].length = Len(d)]
          /\ succeeds /\ live_file_count' = live_file_count
      BY <1>2, Zenon DEF ramfs_write, OnFile
    <2>3. s \in SlotIds /\ slots \in [SlotIds -> Slot]
      BY <2>1, FoundSlot, Zenon DEF Live, IInv
    <2> HIDE DEF s
    <2>4. slots' = [slots EXCEPT ![s] = Written(slots[s], d)]
      BY <2>2, <2>3, Zenon DEF Written, Slot
    <2> QED  BY <2>1, <2>2, <2>4, Zenon DEF WriteDone, s
  <1> QED  BY <1>1, <1>2, Zenon

LEMMA AppendCases ==
  ASSUME IInv, NEW n \in Callers, NEW d \in Payloads, ramfs_append(n, d)
  PROVE  UNCHANGED <<slots, live_file_count>> \/ (AppendDone(n, d) /\ succeeds)
  <1> DEFINE s == find_slot(n)
             refused == \/ d = NULL \/ n = NULL \/ ~ name_is_valid(n) \/ Holders(n) = {}
                        \/ Len(d) > Room(slots[s])
             old == slots[s].length
  <1>1. CASE refused
    BY <1>1, Zenon DEF ramfs_append, OnFile, returns
  <1>2. CASE ~ refused
    <2>1. s \in SlotIds /\ slots \in [SlotIds -> Slot]
      BY <1>2, FoundSlot, Zenon DEF Live, IInv
    <2>2. d \in CallerData /\ Holders(n) # {} /\ Len(d) <= Room(slots[s])
      <3>1. d \in Seq(Nat) /\ d \in CallerData
        BY <1>2, Sizes, Zenon DEF Payloads
      <3>2. Room(slots[s]) \in Int
        BY <2>1, Sizes DEF Room, Slot
      <3> QED  BY <1>2, <3>1, <3>2
    <2>3. /\ slots' = [slots EXCEPT
                  ![s].data = [i \in Positions |->
                                 IF i \in old .. old + Len(d) - 1
                                 THEN d[i - old + 1] ELSE @[i]],
                  ![s].length = old + Len(d)]
          /\ succeeds /\ live_file_count' = live_file_count
      BY <1>2, Zenon DEF ramfs_append, OnFile
    <2> HIDE DEF s
    <2>4. slots' = [slots EXCEPT ![s] = Appended(slots[s], d)]
      BY <2>1, <2>3, Zenon DEF Appended, Slot
    <2> QED  BY <2>2, <2>3, <2>4, Zenon DEF AppendDone, s
  <1> QED  BY <1>1, <1>2, Zenon

LEMMA RemoveCases ==
  ASSUME NEW n \in Callers, ramfs_remove(n)
  PROVE  UNCHANGED <<slots, live_file_count>> \/ (RemoveDone(n) /\ succeeds)
  <1> DEFINE refused == n = NULL \/ ~ name_is_valid(n) \/ Holders(n) = {}
  <1>1. CASE refused
    BY <1>1, Zenon DEF ramfs_remove, OnFile, returns
  <1>2. CASE ~ refused
    BY <1>2, Zenon DEF ramfs_remove, OnFile, RemoveDone, clear_slot
  <1> QED  BY <1>1, <1>2, Zenon

LEMMA ReadCases ==
  ASSUME NEW n, NEW noBuffer, NEW capacity, NEW noLength,
         ramfs_read(n, noBuffer, capacity, noLength)
  PROVE  UNCHANGED <<slots, live_file_count>>
  BY Zenon DEF ramfs_read, OnFile, returns

-----------------------------------------------------------------------------
LEMMA InitStep == Init => IInv
  <1> SUFFICES ASSUME Init PROVE IInv
    BY Zenon
  <1>1. Live = {} /\ Cardinality({}) = 0
    BY BlankSlot, FS_EmptySet, Zenon DEF Init, Live
  <1>2. slots \in [SlotIds -> Slot]
    BY BlankSlot, Zenon DEF Init
  <1>3. \A s \in SlotIds :
          IF slots[s].alive THEN name_is_valid(slots[s].name) ELSE slots[s] = Blank
    BY BlankSlot, Zenon DEF Init
  <1> QED  BY <1>1, <1>2, <1>3, Zenon DEF IInv, Init

LEMMA CreateStep ==
  ASSUME IInv, NEW n, CreateDone(n)
  PROVE  LET s == find_empty_slot
         IN  /\ IInv' /\ s \in SlotIds /\ s \notin Live /\ Live' = Live \cup {s}
             /\ slots'[s] = Created(n)
             /\ \A u \in SlotIds : u # s => slots'[u] = slots[u]
  <1> DEFINE s == find_empty_slot
  <1>1. n \in Seq(STRING)
    BY Sizes, Zenon DEF CreateDone
  <1>2. s \in SlotIds /\ ~ slots[s].alive
    BY FoundEmpty, Zenon DEF CreateDone
  <1>3. Created(n) \in Slot /\ Created(n).alive /\ Created(n).name = n
    BY <1>1, CreatedSlot, Zenon
  <1>4. /\ slots' = [slots EXCEPT ![s] = Created(n)] /\ live_file_count' = live_file_count + 1
        /\ name_is_valid(n) /\ Holders(n) = {}
    BY Zenon DEF CreateDone
  <1> HIDE DEF s
  <1>5. /\ IInv' /\ Live' = Live \cup {s} /\ s \notin Live /\ slots'[s] = Created(n)
        /\ \A u \in SlotIds : u # s => slots'[u] = slots[u]
    BY <1>2, <1>3, <1>4, AddStep, Zenon
  <1> QED  BY <1>2, <1>5, Zenon DEF s

LEMMA WriteStep ==
  ASSUME IInv, NEW n, NEW d, WriteDone(n, d)
  PROVE  LET s == find_slot(n)
         IN  /\ IInv' /\ s \in Live /\ Live' = Live /\ slots[s].name = n
             /\ slots'[s] = Written(slots[s], d)
             /\ \A u \in SlotIds : u # s => slots'[u] = slots[u]
  <1> DEFINE s == find_slot(n)
             t == Written(slots[s], d)
  <1>1. d \in Seq(Nat) /\ Len(d) <= RAMFS_FILE_MAX_BYTES
    BY Sizes, Zenon DEF WriteDone
  <1>2. s \in Live /\ slots[s].name = n
    BY FoundSlot, Zenon DEF WriteDone
  <1>3. slots[s] \in Slot /\ slots[s].alive
    BY <1>2, Zenon DEF IInv, Live
  <1>4. slots' = [slots EXCEPT ![s] = t] /\ live_file_count' = live_file_count
    BY Zenon DEF WriteDone
  <1> HIDE DEF s
  <1>5. t \in Slot /\ t.alive /\ t.name = slots[s].name
    BY <1>1, <1>3, WrittenSlot, Zenon
  <1> HIDE DEF t
  <1>6. /\ IInv' /\ Live' = Live /\ slots'[s] = t
        /\ \A u \in SlotIds : u # s => slots'[u] = slots[u]
    BY <1>2, <1>4, <1>5, ReplaceStep, Zenon
  <1> QED  BY <1>2, <1>6, Zenon DEF s, t

LEMMA AppendStep ==
  ASSUME IInv, NEW n, NEW d, AppendDone(n, d)
  PROVE  LET s == find_slot(n)
         IN  /\ IInv' /\ s \in Live /\ Live' = Live /\ slots[s].name = n
             /\ slots'[s] = Appended(slots[s], d)
             /\ \A u \in SlotIds : u # s => slots'[u] = slots[u]
  <1> DEFINE s == find_slot(n)
             t == Appended(slots[s], d)
  <1>1. d \in Seq(Nat) /\ Len(d) <= Room(slots[s])
    BY Sizes, Zenon DEF AppendDone
  <1>2. s \in Live /\ slots[s].name = n
    BY FoundSlot, Zenon DEF AppendDone
  <1>3. slots[s] \in Slot /\ slots[s].alive
    BY <1>2, Zenon DEF IInv, Live
  <1>4. slots' = [slots EXCEPT ![s] = t] /\ live_file_count' = live_file_count
    BY Zenon DEF AppendDone
  <1> HIDE DEF s
  <1>5. t \in Slot /\ t.alive /\ t.name = slots[s].name
    BY <1>1, <1>3, AppendedSlot, Zenon
  <1> HIDE DEF t
  <1>6. /\ IInv' /\ Live' = Live /\ slots'[s] = t
        /\ \A u \in SlotIds : u # s => slots'[u] = slots[u]
    BY <1>2, <1>4, <1>5, ReplaceStep, Zenon
  <1> QED  BY <1>2, <1>6, Zenon DEF s, t

LEMMA RemoveStep ==
  ASSUME IInv, NEW n, RemoveDone(n)
  PROVE  LET s == find_slot(n)
         IN  /\ IInv' /\ s \in Live /\ Live' = Live \ {s} /\ slots[s].name = n
             /\ \A u \in SlotIds : u # s => slots'[u] = slots[u]
  <1> DEFINE s == find_slot(n)
  <1>1. s \in Live /\ slots[s].name = n
    BY FoundSlot, Zenon DEF RemoveDone
  <1>2. slots' = [slots EXCEPT ![s] = Blank] /\ live_file_count' = live_file_count - 1
    BY Zenon DEF RemoveDone
  <1> HIDE DEF s
  <1>3. /\ IInv' /\ Live' = Live \ {s}
        /\ \A u \in SlotIds : u # s => slots'[u] = slots[u]
    BY <1>1, <1>2, DropStep, Zenon
  <1> QED  BY <1>1, <1>3, Zenon DEF s

LEMMA NextStep == IInv /\ [Next]_vars => IInv'
  <1> SUFFICES ASSUME IInv, [Next]_vars PROVE IInv'
    BY Zenon
  <1>1. ASSUME UNCHANGED <<slots, live_file_count>> PROVE IInv'
    BY <1>1, SameTable, Zenon
  <1>2. CASE UNCHANGED vars
    BY <1>1, <1>2, Zenon DEF vars
  <1>3. CASE ramfs_init
    BY <1>3, ClearStep, Zenon DEF ramfs_init, clear_slot
  <1>4. ASSUME NEW n \in Callers, ramfs_create(n) PROVE IInv'
    BY <1>1, <1>4, CreateCases, CreateStep, Zenon
  <1>5. ASSUME NEW n \in Callers, ramfs_remove(n) PROVE IInv'
    BY <1>1, <1>5, RemoveCases, RemoveStep, Zenon
  <1>6. ASSUME NEW n \in Callers, NEW d \in Payloads, ramfs_write(n, d) PROVE IInv'
    BY <1>1, <1>6, WriteCases, WriteStep, Zenon
  <1>7. ASSUME NEW n \in Callers, NEW d \in Payloads, ramfs_append(n, d) PROVE IInv'
    BY <1>1, <1>7, AppendCases, AppendStep, Zenon
  <1>8. ASSUME NEW n, NEW noBuffer, NEW capacity, NEW noLength,
               ramfs_read(n, noBuffer, capacity, noLength)
        PROVE  IInv'
    BY <1>1, <1>8, ReadCases, Zenon
  <1> QED  BY <1>2, <1>3, <1>4, <1>5, <1>6, <1>7, <1>8, Zenon DEF Next, Callers, Payloads

(* ramfs_validate holds after every call, for every table size and every   *)
(* sequence of calls: names are unique and valid, no file is too long, the *)
(* counter is exact and a free slot keeps nothing of an earlier file.      *)
THEOREM ValidationHolds == Spec => []AlwaysValid
  <1>1. ASSUME IInv PROVE AlwaysValid
    <2>1. live_file_count <= RAMFS_MAX_FILES /\ live_file_count = Cardinality(Live)
      BY <1>1, LiveFinite, Zenon DEF IInv
    <2>2. ASSUME NEW s \in SlotIds, slots[s].alive
          PROVE  /\ name_is_valid(slots[s].name) /\ slots[s].length <= RAMFS_FILE_MAX_BYTES
                 /\ \A t \in SlotIds : t > s /\ slots[t].alive => slots[t].name # slots[s].name
      <3>1. slots[s] \in Slot /\ name_is_valid(slots[s].name)
        BY <1>1, <2>2, Zenon DEF IInv
      <3>2. slots[s].length <= RAMFS_FILE_MAX_BYTES
        BY <3>1, Sizes DEF Slot
      <3>3. \A t \in SlotIds : t > s /\ slots[t].alive => slots[t].name # slots[s].name
        BY <1>1, <2>2, SlotIdsFinite DEF IInv, Live
      <3> QED  BY <3>1, <3>2, <3>3, Zenon
    <2>3. ASSUME NEW s \in SlotIds, ~ slots[s].alive PROVE slots[s] = Blank
      BY <1>1, <2>3, Zenon DEF IInv
    <2> QED  BY <2>1, <2>2, <2>3, Zenon DEF AlwaysValid, ramfs_validate, Live
  <1> QED  BY <1>1, InitStep, NextStep, PTL DEF Spec

-----------------------------------------------------------------------------
(* The position of a file in the listing: the files in lower slots. *)
Below(s) == {t \in SlotIds : t < s /\ slots[t].alive}
Rank == [s \in Live |-> Cardinality(Below(s))]

LEMMA RankBelow ==
  ASSUME NEW s \in Live
  PROVE  /\ IsFiniteSet(Below(s)) /\ Rank[s] \in 0 .. Cardinality(Live) - 1
         /\ \A u \in Live : s < u => Rank[s] < Rank[u]
  <1>1. s \in Nat /\ SlotIds \subseteq Nat
    BY SlotIdsFinite, Zenon DEF Live
  <1>2. \A u \in Live : Below(u) \in SUBSET Live /\ u \notin Below(u)
    BY <1>1 DEF Below, Live
  <1>3. \A u \in Live : /\ IsFiniteSet(Below(u)) /\ Cardinality(Below(u)) \in Nat
                        /\ Cardinality(Below(u)) < Cardinality(Live)
    <2> SUFFICES ASSUME NEW u \in Live
                 PROVE  /\ IsFiniteSet(Below(u)) /\ Cardinality(Below(u)) \in Nat
                        /\ Cardinality(Below(u)) < Cardinality(Live)
      BY Zenon
    <2>1. Below(u) \in SUBSET Live /\ Live # Below(u)
      BY <1>2, Zenon
    <2>2. /\ IsFiniteSet(Below(u)) /\ Cardinality(Below(u)) <= Cardinality(Live)
          /\ Cardinality(Live) # Cardinality(Below(u))
      BY <2>1, LiveFinite, FS_Subset, Zenon
    <2>3. Cardinality(Below(u)) \in Nat /\ Cardinality(Live) \in Nat
      BY <2>2, LiveFinite, FS_CardinalityType, Zenon
    <2> QED  BY <2>2, <2>3
  <1>4. ASSUME NEW u \in Live, s < u PROVE Cardinality(Below(s)) < Cardinality(Below(u))
    <2>1. Below(s) \in SUBSET Below(u) /\ s \in Below(u) /\ s \notin Below(s)
      <3>1. u \in Nat /\ \A t \in SlotIds : t \in Nat /\ (t < s => t < u)
        BY <1>1, <1>4 DEF Live
      <3>2. ~ (s < s) /\ s \in SlotIds /\ slots[s].alive
        BY <1>1 DEF Live
      <3> QED  BY <1>4, <3>1, <3>2, Zenon DEF Below
    <2>2. /\ Cardinality(Below(s)) <= Cardinality(Below(u))
          /\ Cardinality(Below(u)) # Cardinality(Below(s))
      BY <1>3, <2>1, FS_Subset, Zenon
    <2> QED  BY <1>3, <2>2
  <1>5. \A u \in Live : Rank[u] = Cardinality(Below(u))
    BY Zenon DEF Rank
  <1>6. Rank[s] \in 0 .. Cardinality(Live) - 1
    BY <1>3, <1>5, LiveFinite
  <1>7. \A u \in Live : s < u => Rank[s] < Rank[u]
    BY <1>4, <1>5, Zenon
  <1> QED  BY <1>3, <1>6, <1>7, Zenon

(* Every position below the count belongs to exactly one file. *)
LEMMA RankExact ==
  /\ Rank \in [Live -> 0 .. Cardinality(Live) - 1]
  /\ \A s, u \in Live : Rank[s] = Rank[u] => s = u
  /\ \A i \in 0 .. Cardinality(Live) - 1 : \E s \in Live : Rank[s] = i
  <1> DEFINE N == 0 .. Cardinality(Live) - 1
  <1>1. Rank \in [Live -> N]
    BY RankBelow, Zenon DEF Rank
  <1>2. \A s, u \in Live : Rank[s] = Rank[u] => s = u
    <2> SUFFICES ASSUME NEW s \in Live, NEW u \in Live, Rank[s] = Rank[u] PROVE s = u
      BY Zenon
    <2>1. s \in Nat /\ u \in Nat /\ Rank[s] \in Nat
      BY RankBelow, SlotIdsFinite, LiveFinite DEF Live
    <2>2. ~ (s < u) /\ ~ (u < s)
      BY <2>1, RankBelow
    <2> QED  BY <2>1, <2>2
  <1>3. IsFiniteSet(N) /\ Cardinality(N) = Cardinality(Live)
    <2>1. 0 \in Int /\ Cardinality(Live) - 1 \in Int /\ Cardinality(Live) \in Nat
      BY LiveFinite
    <2> QED  BY <2>1, FS_Interval
  <1>4. Rank \in Injection(Live, N)
    BY <1>1, <1>2, Zenon DEF Injection, IsInjective
  <1>5. Rank \in Surjection(Live, N)
    BY <1>3, <1>4, FS_Injection, Zenon
  <1>6. \A i \in N : \E s \in Live : Rank[s] = i
    BY <1>5, Zenon DEF Surjection
  <1> QED  BY <1>1, <1>2, <1>6, Zenon

(* A listing that asks for index 0, 1, ... meets every file exactly once   *)
(* and is refused at the count, whatever was created and removed before.   *)
THEOREM ListingIsComplete == Spec => []ListingComplete
  <1>1. ASSUME IInv PROVE ListingComplete
    <2> DEFINE N == 0 .. Cardinality(Live) - 1
    <2>1. ramfs_count = Cardinality(Live) /\ Cardinality(Live) \in Nat
      BY <1>1, LiveFinite, Zenon DEF IInv, ramfs_count
    <2>2. \A i : ramfs_get_info(i) = {s \in Live : Rank[s] = i}
      BY Zenon DEF ramfs_get_info, Rank, Below, Live
    <2>3. ASSUME NEW i \in N PROVE Cardinality(ramfs_get_info(i)) = 1
      <3>1. PICK s \in Live : Rank[s] = i
        BY RankExact, Zenon
      <3>2. ramfs_get_info(i) = {s}
        BY <2>2, <3>1, RankExact
      <3> QED  BY <3>2, FS_Singleton, Zenon
    <2>4. UNION {ramfs_get_info(i) : i \in N} = Live
      BY <2>2, RankExact
    <2>5. ramfs_get_info(Cardinality(Live)) = {}
      <3>1. \A s \in Live : Rank[s] # Cardinality(Live)
        BY <2>1, RankBelow
      <3> QED  BY <2>2, <3>1, Zenon
    <2>6. 0 .. ramfs_count - 1 = N
      BY <2>1, Zenon
    <2> HIDE DEF N
    <2> QED  BY <2>1, <2>3, <2>4, <2>5, <2>6, Zenon DEF ListingComplete, Live
  <1> QED  BY <1>1, InitStep, NextStep, PTL DEF Spec

-----------------------------------------------------------------------------
(* The slots implement module FileStore.  The map it speaks of: *)
NamesOf == {slots[s].name : s \in Live}

FilesInSlots ==
  IInv => /\ files = [n \in NamesOf |-> files[n]]
          /\ \A s \in Live : files[slots[s].name] = FileBytes(slots[s])
          /\ \A n : n \in NamesOf <=> Holders(n) # {}

LEMMA FilesView == FilesInSlots
  <1> SUFFICES ASSUME IInv
               PROVE  /\ files = [n \in NamesOf |-> files[n]]
                      /\ \A s \in Live : files[slots[s].name] = FileBytes(slots[s])
                      /\ \A n : n \in NamesOf <=> Holders(n) # {}
    BY Zenon DEF FilesInSlots
  <1>1. SlotIds \ Empty = Live
    BY Zenon DEF Empty, Live
  <1>2. files = [n \in NamesOf |-> FileBytes(slots[find_slot(n)])]
    BY <1>1, Zenon DEF files, NamesOf
  <1>3. ASSUME NEW s \in Live PROVE files[slots[s].name] = FileBytes(slots[s])
    <2>1. slots[s].name \in NamesOf
      BY Zenon DEF NamesOf
    <2>2. find_slot(slots[s].name) = s
      BY FoundSlot, Zenon
    <2> QED  BY <1>2, <2>1, <2>2, Zenon
  <1>4. \A n : n \in NamesOf <=> Holders(n) # {}
    BY Zenon DEF NamesOf, Holders, Live
  <1> HIDE DEF files
  <1> QED  BY <1>2, <1>3, <1>4, Zenon

LEMMA FilesViewNext == FilesInSlots'
  BY FilesView, PTL

(* There are as many names as files. *)
LEMMA NameCount ==
  ASSUME IInv
  PROVE  Cardinality(NamesOf) = Cardinality(Live)
  <1> DEFINE f == [s \in Live |-> slots[s].name]
  <1>1. f \in Surjection(Live, NamesOf)
    BY Zenon DEF Surjection, NamesOf
  <1>2. f \in Injection(Live, NamesOf)
    BY Zenon DEF Injection, IsInjective, NamesOf, IInv
  <1> QED  BY <1>1, <1>2, LiveFinite, FS_Surjection, Zenon

LEMMA StoreCount == \A T : Store!Cardinality(T) = Cardinality(T)
  BY Zenon DEF Store!Cardinality, Cardinality

LEMMA StoreNames == IInv => Store!Names = NamesOf
  BY FilesView, Zenon DEF FilesInSlots, Store!Names

(* The effect on the map of a slot that gets a name and contents, *)
LEMMA MapWith ==
  ASSUME IInv, IInv', NEW n, NEW c, NEW s \in SlotIds,
         Live' = Live \cup {s}, slots'[s].name = n, FileBytes(slots'[s]) = c,
         s \in Live => slots[s].name = n,
         \A u \in SlotIds : u # s => slots'[u] = slots[u]
  PROVE  files' = Store!With(n, c)
  <1>1. Live \subseteq SlotIds
    BY Zenon DEF Live
  <1>2. /\ files = [m \in NamesOf |-> files[m]]
        /\ \A u \in Live : files[slots[u].name] = FileBytes(slots[u])
    BY FilesView, Zenon DEF FilesInSlots
  <1>3. /\ files' = [m \in NamesOf' |-> files'[m]]
        /\ \A u \in Live' : files'[slots'[u].name] = FileBytes(slots'[u])
    BY FilesViewNext, Zenon DEF FilesInSlots, FileBytes
  <1>4. NamesOf' = NamesOf \cup {n}
    BY <1>1, Zenon DEF NamesOf
  <1>5. ASSUME NEW m \in NamesOf' PROVE files'[m] = IF m = n THEN c ELSE files[m]
    <2>1. PICK u \in Live' : slots'[u].name = m
      BY Zenon DEF NamesOf
    <2>2. files'[m] = FileBytes(slots'[u])
      BY <1>3, <2>1, Zenon
    <2>3. CASE u = s
      BY <2>1, <2>2, <2>3, Zenon
    <2>4. CASE u # s
      <3>1. u \in Live /\ slots'[u] = slots[u] /\ u \in Live' /\ s \in Live'
        BY <1>1, <2>4, Zenon
      <3>2. m # n
        BY <2>1, <2>4, <3>1, Zenon DEF IInv
      <3>3. files[m] = FileBytes(slots[u])
        BY <1>2, <2>1, <3>1, Zenon
      <3> QED  BY <2>2, <3>1, <3>2, <3>3, Zenon
    <2> QED  BY <2>3, <2>4, Zenon
  <1>6. Store!With(n, c) = [m \in NamesOf \cup {n} |-> IF m = n THEN c ELSE files[m]]
    BY StoreNames, Zenon DEF Store!With
  <1> HIDE DEF NamesOf, Live, IInv
  <1> QED  BY <1>3, <1>4, <1>5, <1>6, ZenonT(40)

(* and of one that loses them. *)
LEMMA MapWithout ==
  ASSUME IInv, IInv', NEW n, NEW s \in Live, slots[s].name = n, Live' = Live \ {s},
         \A u \in SlotIds : u # s => slots'[u] = slots[u]
  PROVE  files' = Store!Without(n)
  <1>1. Live \subseteq SlotIds
    BY Zenon DEF Live
  <1>2. \A u \in Live : files[slots[u].name] = FileBytes(slots[u])
    BY FilesView, Zenon DEF FilesInSlots
  <1>3. /\ files' = [m \in NamesOf' |-> files'[m]]
        /\ \A u \in Live' : files'[slots'[u].name] = FileBytes(slots'[u])
    BY FilesViewNext, Zenon DEF FilesInSlots, FileBytes
  <1>4. \A u \in Live' : u \in Live /\ slots'[u] = slots[u] /\ slots[u].name # n
    BY <1>1, Zenon DEF IInv
  <1>5. NamesOf' = NamesOf \ {n}
    BY <1>1, <1>4, Zenon DEF NamesOf
  <1>6. ASSUME NEW m \in NamesOf' PROVE files'[m] = files[m]
    <2>1. PICK u \in Live' : slots'[u].name = m
      BY Zenon DEF NamesOf
    <2> QED  BY <1>2, <1>3, <1>4, <2>1
  <1>7. Store!Without(n) = [m \in NamesOf \ {n} |-> files[m]]
    BY StoreNames, Zenon DEF Store!Without
  <1> QED  BY <1>3, <1>5, <1>6, <1>7, Zenon

LEMMA MapSame ==
  ASSUME UNCHANGED slots
  PROVE  files' = files
  BY DEF files, Empty, find_slot, Holders, Lowest, FileBytes

LEMMA StoreInit == Init => Store!Init
  <1> SUFFICES ASSUME Init PROVE Store!Init
    BY Zenon
  <1>1. SlotIds \ Empty = {}
    BY BlankSlot, Zenon DEF Init, Empty
  <1>2. files = << >>
    BY <1>1 DEF files
  <1> QED  BY <1>2, Zenon DEF Init, Store!Init

LEMMA StoreFormat ==
  ASSUME IInv, IInv', ramfs_init
  PROVE  Store!Format
  <1>1. Live' = {}
    BY ClearStep, Zenon DEF ramfs_init, clear_slot
  <1>2. NamesOf' = {}
    BY <1>1, Zenon DEF NamesOf
  <1>3. files' = [m \in NamesOf' |-> files'[m]]
    BY FilesViewNext, Zenon DEF FilesInSlots
  <1>4. files' = << >>
    BY <1>2, <1>3
  <1> QED  BY <1>4, Zenon DEF Store!Format, Store!Done, ramfs_init, succeeds

(* A call that returns early is answered with the same error. *)
LEMMA Fails ==
  ASSUME NEW e, returns(e)
  PROVE  Store!Error(e)
  BY MapSame, Zenon DEF returns, Store!Error

LEMMA Names ==
  ASSUME NEW n \in Callers
  PROVE  \/ n = NULL
         \/ n \in {m \in CallerNames : ~ name_is_valid(m)} /\ ~ name_is_valid(n)
         \/ n \in {m \in CallerNames : name_is_valid(m)} /\ name_is_valid(n)
  BY Zenon DEF Callers

LEMMA StoreCreate ==
  ASSUME IInv, IInv', NEW n \in Callers, ramfs_create(n)
  PROVE  Store!Create(n)
  <1>1. request' = [op |-> "create", name |-> n]
    BY Zenon DEF ramfs_create
  <1>2. CASE n = NULL
    <2>1. Store!Error("INVALID_ARGUMENT")
      BY <1>2, Fails, Zenon DEF ramfs_create
    <2> QED  BY <1>1, <1>2, <2>1, Zenon DEF Store!Create, Store!Named
  <1>3. CASE n # NULL /\ ~ name_is_valid(n)
    <2>1. Store!Error("INVALID_NAME")
      BY <1>3, Fails, Zenon DEF ramfs_create
    <2> QED  BY <1>1, <1>3, <2>1, Names, Zenon DEF Store!Create, Store!Named
  <1>4. CASE n # NULL /\ name_is_valid(n)
    <2>1. Store!Names = NamesOf /\ (n \in NamesOf <=> Holders(n) # {})
      BY StoreNames, FilesView, Zenon DEF FilesInSlots
    <2>2. Store!Cardinality(Store!Names) = RAMFS_MAX_FILES <=> Empty = {}
      BY <2>1, NameCount, StoreCount, LiveFinite, Zenon
    <2>3. SUFFICES IF n \in Store!Names THEN Store!Error("ALREADY_EXISTS")
                   ELSE IF Store!Cardinality(Store!Names) = RAMFS_MAX_FILES
                        THEN Store!Error("NO_SPACE")
                   ELSE Store!Done(Store!With(n, << >>))
      BY <1>1, <1>4, Names, Zenon DEF Store!Create, Store!Named
    <2>4. CASE Holders(n) # {}
      <3>1. Store!Error("ALREADY_EXISTS")
        BY <1>4, <2>4, Fails, Zenon DEF ramfs_create
      <3> QED  BY <2>1, <2>4, <3>1, Zenon
    <2>5. CASE Holders(n) = {} /\ Empty = {}
      <3>1. Store!Error("NO_SPACE")
        BY <1>4, <2>5, Fails, Zenon DEF ramfs_create
      <3> QED  BY <2>1, <2>2, <2>5, <3>1, Zenon
    <2>6. CASE Holders(n) = {} /\ Empty # {}
      <3>1. CreateDone(n) /\ succeeds
        BY <1>4, <2>6, Zenon DEF ramfs_create, CreateDone, Callers, clear_slot, Created
      <3> DEFINE s == find_empty_slot
      <3>2. /\ s \in SlotIds /\ s \notin Live /\ Live' = Live \cup {s}
            /\ slots'[s] = Created(n)
            /\ \A u \in SlotIds : u # s => slots'[u] = slots[u]
        BY <3>1, CreateStep, Zenon
      <3>3. Created(n).name = n /\ FileBytes(Created(n)) = << >>
        BY <1>4, CreatedSlot, Sizes, Zenon DEF Callers
      <3> HIDE DEF s
      <3>4. files' = Store!With(n, << >>)
        BY <3>2, <3>3, MapWith, Zenon
      <3> QED  BY <2>1, <2>2, <2>6, <3>1, <3>4, Zenon DEF Store!Done, succeeds
    <2> QED  BY <2>4, <2>5, <2>6, Zenon
  <1> QED  BY <1>2, <1>3, <1>4, Zenon

(* The tests that all calls on existing files share. *)
LEMMA Existing ==
  ASSUME IInv, NEW n \in Callers
  PROVE  n \in Store!Names <=> Holders(n) # {}
  BY StoreNames, FilesView, Zenon DEF FilesInSlots

LEMMA FileOfSlot ==
  ASSUME IInv, NEW n, Holders(n) # {}
  PROVE  /\ find_slot(n) \in Live /\ slots[find_slot(n)] \in Slot
         /\ slots[find_slot(n)].name = n
         /\ files[n] = FileBytes(slots[find_slot(n)])
  <1>1. find_slot(n) \in Live /\ slots[find_slot(n)].name = n
    BY FoundSlot, Zenon
  <1> QED  BY <1>1, FilesView, Zenon DEF FilesInSlots, IInv, Live

LEMMA StoreRemove ==
  ASSUME IInv, IInv', NEW n \in Callers, ramfs_remove(n)
  PROVE  Store!Remove(n)
  <1>1. request' = [op |-> "remove", name |-> n]
    BY Zenon DEF ramfs_remove
  <1>2. CASE n = NULL
    <2>1. Store!Error("INVALID_ARGUMENT")
      BY <1>2, Fails, Zenon DEF ramfs_remove, OnFile
    <2> QED  BY <1>1, <1>2, <2>1, Zenon DEF Store!Remove, Store!Existing, Store!Named
  <1>3. CASE n # NULL /\ ~ name_is_valid(n)
    <2>1. Store!Error("INVALID_NAME")
      BY <1>3, Fails, Zenon DEF ramfs_remove, OnFile
    <2> QED  BY <1>1, <1>3, <2>1, Names, Zenon DEF Store!Remove, Store!Existing, Store!Named
  <1>4. CASE n # NULL /\ name_is_valid(n)
    <2>1. SUFFICES IF n \in Store!Names THEN Store!Done(Store!Without(n))
                   ELSE Store!Error("NOT_FOUND")
      BY <1>1, <1>4, Names, Zenon DEF Store!Remove, Store!Existing, Store!Named
    <2>2. CASE Holders(n) = {}
      <3>1. Store!Error("NOT_FOUND")
        BY <1>4, <2>2, Fails, Zenon DEF ramfs_remove, OnFile
      <3> QED  BY <2>2, <3>1, Existing, Zenon
    <2>3. CASE Holders(n) # {}
      <3>1. RemoveDone(n) /\ succeeds
        BY <1>4, <2>3, Zenon DEF ramfs_remove, OnFile, RemoveDone, clear_slot
      <3>2. files' = Store!Without(n)
        BY <3>1, RemoveStep, MapWithout, Zenon
      <3> QED  BY <2>3, <3>1, <3>2, Existing, Zenon DEF Store!Done, succeeds
    <2> QED  BY <2>2, <2>3, Zenon
  <1> QED  BY <1>2, <1>3, <1>4, Zenon

LEMMA StoreWrite ==
  ASSUME IInv, IInv', NEW n \in Callers, NEW d \in Payloads, ramfs_write(n, d)
  PROVE  Store!Write(n, d)
  <1>1. request' = [op |-> "write", name |-> n, data |-> d]
    BY Zenon DEF ramfs_write
  <1>2. CASE d = NULL \/ n = NULL
    <2>1. Store!Error("INVALID_ARGUMENT")
      BY <1>2, Fails, Zenon DEF ramfs_write, OnFile
    <2> QED  BY <1>1, <1>2, <2>1, Zenon DEF Store!Write, Store!Existing, Store!Named
  <1>3. CASE d # NULL /\ n # NULL /\ ~ name_is_valid(n)
    <2>1. Store!Error("INVALID_NAME")
      BY <1>3, Fails, Zenon DEF ramfs_write, OnFile
    <2> QED  BY <1>1, <1>3, <2>1, Names, Zenon DEF Store!Write, Store!Existing, Store!Named
  <1>4. CASE d # NULL /\ n # NULL /\ name_is_valid(n)
    <2>1. SUFFICES IF n \in Store!Names THEN Store!Store(n, d) ELSE Store!Error("NOT_FOUND")
      BY <1>1, <1>4, Names, Zenon DEF Store!Write, Store!Existing, Store!Named
    <2>2. CASE Holders(n) = {}
      <3>1. Store!Error("NOT_FOUND")
        BY <1>4, <2>2, Fails, Zenon DEF ramfs_write, OnFile
      <3> QED  BY <2>2, <3>1, Existing, Zenon
    <2>3. d \in Seq(Nat) /\ Len(d) \in Nat /\ RAMFS_FILE_MAX_BYTES \in Nat
      BY <1>4, Sizes DEF Payloads
    <2>4. CASE Holders(n) # {} /\ Len(d) > RAMFS_FILE_MAX_BYTES
      <3>1. Store!Error("TOO_LARGE")
        BY <1>4, <2>4, Fails, Zenon DEF ramfs_write, OnFile
      <3> QED  BY <2>3, <2>4, <3>1, Existing DEF Store!Store
    <2>5. CASE Holders(n) # {} /\ Len(d) <= RAMFS_FILE_MAX_BYTES
      <3> DEFINE s == find_slot(n)
      <3>1. result' = "OK" /\ out' = << >> /\ slots' = [slots EXCEPT ![s].data = Overwritten(d),
                                                                     ![s].length = Len(d)]
        BY <1>4, <2>3, <2>5 DEF ramfs_write, OnFile, succeeds
      <3>2. s \in Live /\ slots[s] \in Slot /\ slots[s].name = n /\ slots \in [SlotIds -> Slot]
        BY <2>5, FileOfSlot, Zenon DEF IInv
      <3> HIDE DEF s
      <3>3. s \in SlotIds
        BY <3>2, Zenon DEF Live
      <3>4. slots' = [slots EXCEPT ![s] = Written(slots[s], d)]
        BY <3>1, <3>2, <3>3, Zenon DEF Written, Slot
      <3>5. live_file_count' = live_file_count
        BY <1>4, <2>3, <2>5 DEF ramfs_write, OnFile
      <3>6. WriteDone(n, d)
        BY <1>4, <2>5, <3>4, <3>5, Zenon DEF WriteDone, Payloads, s
      <3>7. /\ Live' = Live /\ slots'[s] = Written(slots[s], d)
            /\ \A u \in SlotIds : u # s => slots'[u] = slots[u]
        BY <3>6, WriteStep DEF s
      <3>8. slots'[s].name = n /\ FileBytes(slots'[s]) = d
        BY <2>3, <2>5, <3>2, <3>7, WrittenSlot
      <3>9. Live' = Live \cup {s}
        BY <3>2, <3>7, Zenon
      <3>10. files' = Store!With(n, d)
        BY <3>2, <3>3, <3>7, <3>8, <3>9, MapWith, ZenonT(40)
      <3> QED  BY <2>5, <3>1, <3>10, Existing, Zenon DEF Store!Store, Store!Done
    <2> QED  BY <2>2, <2>3, <2>4, <2>5
  <1> QED  BY <1>2, <1>3, <1>4, Zenon

LEMMA StoreAppend ==
  ASSUME IInv, IInv', NEW n \in Callers, NEW d \in Payloads, ramfs_append(n, d)
  PROVE  Store!Extend(n, d)
  <1>1. request' = [op |-> "append", name |-> n, data |-> d]
    BY Zenon DEF ramfs_append
  <1>2. CASE d = NULL \/ n = NULL
    <2>1. Store!Error("INVALID_ARGUMENT")
      BY <1>2, Fails, Zenon DEF ramfs_append, OnFile
    <2> QED  BY <1>1, <1>2, <2>1, Zenon DEF Store!Extend, Store!Existing, Store!Named
  <1>3. CASE d # NULL /\ n # NULL /\ ~ name_is_valid(n)
    <2>1. Store!Error("INVALID_NAME")
      BY <1>3, Fails, Zenon DEF ramfs_append, OnFile
    <2> QED  BY <1>1, <1>3, <2>1, Names, Zenon DEF Store!Extend, Store!Existing, Store!Named
  <1>4. CASE d # NULL /\ n # NULL /\ name_is_valid(n)
    <2>1. SUFFICES IF n \in Store!Names THEN Store!Store(n, files[n] \o d)
                   ELSE Store!Error("NOT_FOUND")
      BY <1>1, <1>4, Names, Zenon DEF Store!Extend, Store!Existing, Store!Named
    <2>2. CASE Holders(n) = {}
      <3>1. Store!Error("NOT_FOUND")
        BY <1>4, <2>2, Fails, Zenon DEF ramfs_append, OnFile
      <3> QED  BY <2>2, <3>1, Existing, Zenon
    <2>3. CASE Holders(n) # {}
      <3> DEFINE s == find_slot(n)
                 old == slots[s].length
                 c == files[n] \o d
      <3>1. d \in Seq(Nat) /\ Len(d) \in Nat /\ RAMFS_FILE_MAX_BYTES \in Nat /\ d \in CallerData
        BY <1>4, Sizes DEF Payloads
      <3>2. /\ s \in Live /\ slots[s] \in Slot /\ slots[s].name = n
            /\ files[n] = FileBytes(slots[s]) /\ slots \in [SlotIds -> Slot]
        BY <2>3, FileOfSlot, Zenon DEF IInv
      <3>3. old \in Nat /\ Len(files[n]) = old /\ files[n] \in Seq(Nat)
        BY <3>2, BytesSeq, Zenon
      <3>4. Len(c) = old + Len(d)
        BY <3>1, <3>3, ConcatProperties
      <3>5. Room(slots[s]) = RAMFS_FILE_MAX_BYTES - old
        BY Zenon DEF Room
      <3>6. Len(c) <= RAMFS_FILE_MAX_BYTES <=> ~ (Len(d) > Room(slots[s]))
        BY <3>1, <3>3, <3>4, <3>5
      <3>7. CASE Len(d) > Room(slots[s])
        <4>1. Store!Error("TOO_LARGE")
          BY <1>4, <2>3, <3>7, Fails, Zenon DEF ramfs_append, OnFile
        <4> QED  BY <2>3, <3>6, <3>7, <4>1, Existing, Zenon DEF Store!Store
      <3>8. CASE ~ (Len(d) > Room(slots[s]))
        <4>1. /\ result' = "OK" /\ out' = << >> /\ live_file_count' = live_file_count
              /\ slots' = [slots EXCEPT
                     ![s].data = [i \in Positions |->
                                    IF i \in old .. old + Len(d) - 1
                                    THEN d[i - old + 1] ELSE @[i]],
                     ![s].length = old + Len(d)]
          BY <1>4, <2>3, <3>8, Zenon DEF ramfs_append, OnFile, succeeds
        <4>2. s \in SlotIds
          BY <3>2, Zenon DEF Live
        <4>3. Len(d) <= Room(slots[s])
          BY <3>1, <3>3, <3>5, <3>8
        <4> HIDE DEF s
        <4>4. slots' = [slots EXCEPT ![s] = Appended(slots[s], d)]
          BY <3>2, <4>1, <4>2, Zenon DEF Appended, Slot
        <4>5. AppendDone(n, d)
          BY <2>3, <3>1, <4>1, <4>3, <4>4, Zenon DEF AppendDone, s
        <4>6. /\ Live' = Live /\ slots'[s] = Appended(slots[s], d)
              /\ \A u \in SlotIds : u # s => slots'[u] = slots[u]
          BY <4>5, AppendStep DEF s
        <4>7. slots'[s].name = n /\ FileBytes(slots'[s]) = c
          BY <3>1, <3>2, <4>3, <4>6, AppendedSlot, SMTT(30)
        <4>8. Live' = Live \cup {s}
          BY <3>2, <4>6, Zenon
        <4>9. files' = Store!With(n, c)
          BY <3>2, <4>2, <4>6, <4>7, <4>8, MapWith, Zenon
        <4> QED  BY <2>3, <3>6, <3>8, <4>1, <4>9, Existing, Zenon DEF Store!Store, Store!Done
      <3> QED  BY <3>7, <3>8, Zenon
    <2> QED  BY <2>2, <2>3, Zenon
  <1> QED  BY <1>2, <1>3, <1>4, Zenon

LEMMA StoreRead ==
  ASSUME IInv, IInv', NEW n \in Callers, NEW noBuffer \in BOOLEAN, NEW noLength \in BOOLEAN,
         NEW capacity \in 0 .. RAMFS_FILE_MAX_BYTES,
         ramfs_read(n, noBuffer, capacity, noLength)
  PROVE  Store!Read(n, noBuffer, capacity, noLength)
  <1>1. request' = [op |-> "read", name |-> n, noBuffer |-> noBuffer,
                    capacity |-> capacity, noLength |-> noLength]
    BY Zenon DEF ramfs_read
  <1>2. CASE noLength \/ n = NULL
    <2>1. Store!Error("INVALID_ARGUMENT")
      BY <1>2, Fails, Zenon DEF ramfs_read, OnFile
    <2> QED  BY <1>1, <1>2, <2>1, Zenon DEF Store!Read, Store!Existing, Store!Named
  <1>3. CASE ~ noLength /\ n # NULL /\ ~ name_is_valid(n)
    <2>1. Store!Error("INVALID_NAME")
      BY <1>3, Fails, Zenon DEF ramfs_read, OnFile
    <2> QED  BY <1>1, <1>3, <2>1, Names, Zenon DEF Store!Read, Store!Existing, Store!Named
  <1>4. CASE ~ noLength /\ n # NULL /\ name_is_valid(n)
    <2> DEFINE effect ==
                 IF noBuffer /\ <<files[n], capacity>> # <<<< >>, 0>>
                 THEN Store!Error("INVALID_ARGUMENT")
                 ELSE IF Len(files[n]) > capacity THEN Store!Error("TOO_LARGE")
                 ELSE /\ out' = files[n] /\ result' = "OK"
                      /\ UNCHANGED files
    <2>1. SUFFICES IF n \in Store!Names THEN effect ELSE Store!Error("NOT_FOUND")
      BY <1>1, <1>4, Names, Zenon DEF Store!Read, Store!Existing, Store!Named
    <2>2. CASE Holders(n) = {}
      <3>1. Store!Error("NOT_FOUND")
        BY <1>4, <2>2, Fails, Zenon DEF ramfs_read, OnFile
      <3> QED  BY <2>2, <3>1, Existing, Zenon
    <2>3. CASE Holders(n) # {}
      <3> DEFINE slot == slots[find_slot(n)]
      <3>1. slot \in Slot /\ files[n] = FileBytes(slot)
        BY <2>3, FileOfSlot, Zenon
      <3>2. /\ slot.length \in Nat /\ Len(files[n]) = slot.length /\ files[n] \in Seq(Nat)
        BY <3>1, BytesSeq, Zenon
      <3>3. capacity \in Nat
        BY Sizes
      <3>4. slot.length # 0 \/ capacity # 0 <=> <<files[n], capacity>> # <<<< >>, 0>>
        <4>1. slot.length = 0 <=> files[n] = << >>
          BY <3>2
        <4> QED  BY <4>1, Zenon
      <3>5. CASE noBuffer /\ (slot.length # 0 \/ capacity # 0)
        <4>1. Store!Error("INVALID_ARGUMENT")
          BY <1>4, <2>3, <3>5, Fails, Zenon DEF ramfs_read, OnFile
        <4> QED  BY <2>3, <3>4, <3>5, <4>1, Existing, Zenon
      <3>6. CASE ~ (noBuffer /\ (slot.length # 0 \/ capacity # 0)) /\ capacity < slot.length
        <4>1. Store!Error("TOO_LARGE")
          BY <1>4, <2>3, <3>6, Fails, Zenon DEF ramfs_read, OnFile
        <4>2. Len(files[n]) > capacity
          BY <3>2, <3>3, <3>6, Zenon
        <4> QED  BY <2>3, <3>4, <3>6, <4>1, <4>2, Existing, Zenon
      <3>7. CASE ~ (noBuffer /\ (slot.length # 0 \/ capacity # 0)) /\ ~ (capacity < slot.length)
        <4>1. out' = FileBytes(slot) /\ result' = "OK" /\ UNCHANGED slots
          BY <1>4, <2>3, <3>7, Zenon DEF ramfs_read, OnFile
        <4>2. files' = files
          BY <4>1, MapSame, Zenon
        <4>3. ~ (Len(files[n]) > capacity)
          BY <3>2, <3>3, <3>7, Zenon
        <4> QED  BY <2>3, <3>1, <3>4, <3>7, <4>1, <4>2, <4>3, Existing, ZenonT(40)
      <3> QED  BY <3>5, <3>6, <3>7, Zenon
    <2> QED  BY <2>2, <2>3, Zenon
  <1> QED  BY <1>2, <1>3, <1>4, Zenon

(* Every call is a step of module FileStore. *)
LEMMA StoreStep == IInv /\ IInv' /\ [Next]_vars => [Store!Next]_(Store!storeVars)
  <1> SUFFICES ASSUME IInv, IInv', [Next]_vars PROVE [Store!Next]_(Store!storeVars)
    BY Zenon
  <1> DEFINE StoreCallers == {n \in CallerNames : name_is_valid(n)}
                               \cup {n \in CallerNames : ~ name_is_valid(n)} \cup {NULL}
  <1>1. Callers = StoreCallers
    BY Zenon DEF Callers
  <1>2. CASE UNCHANGED vars
    BY <1>2, MapSame, Zenon DEF vars, Store!storeVars
  <1>3. CASE ramfs_init
    BY <1>3, StoreFormat, Zenon DEF Store!Next
  <1>4. ASSUME NEW n \in Callers, ramfs_create(n) PROVE Store!Next
    BY <1>1, <1>4, StoreCreate, Zenon DEF Store!Next
  <1>5. ASSUME NEW n \in Callers, ramfs_remove(n) PROVE Store!Next
    BY <1>1, <1>5, StoreRemove, Zenon DEF Store!Next
  <1>6. ASSUME NEW n \in Callers, NEW d \in Payloads, ramfs_write(n, d) PROVE Store!Next
    BY <1>1, <1>6, StoreWrite, Zenon DEF Store!Next, Payloads
  <1>7. ASSUME NEW n \in Callers, NEW d \in Payloads, ramfs_append(n, d) PROVE Store!Next
    BY <1>1, <1>7, StoreAppend, Zenon DEF Store!Next, Payloads
  <1>8. ASSUME NEW n \in Callers, NEW noBuffer \in BOOLEAN, NEW noLength \in BOOLEAN,
               NEW capacity \in 0 .. RAMFS_FILE_MAX_BYTES,
               ramfs_read(n, noBuffer, capacity, noLength)
        PROVE  Store!Next
    BY <1>1, <1>8, StoreRead, Zenon DEF Store!Next
  <1>9. 0 \in 0 .. RAMFS_FILE_MAX_BYTES
    BY Sizes
  <1> QED
    BY <1>2, <1>3, <1>4, <1>5, <1>6, <1>7, <1>8, <1>9, Zenon DEF Next, Callers, Payloads

(* The slot table of ramfs.c is a map from names to contents, for every    *)
(* number of slots and every limit: each call has exactly the effect and   *)
(* the result that the map and its arguments determine.                    *)
THEOREM SlotsImplementStore == Spec => ImplementsFileStore
  BY InitStep, NextStep, StoreInit, StoreStep, PTL DEF Spec, ImplementsFileStore, Store!Spec
===============================================================================
