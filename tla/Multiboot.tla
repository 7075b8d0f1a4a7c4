------------------------------ MODULE Multiboot -------------------------------
(***************************************************************************)
(* The parser of the boot loader's memory map (kernel/boot/multiboot.c).   *)
(* A boot record b holds what the loader left in registers and memory:     *)
(* the magic number, the address of the information structure, its flags,  *)
(* the address and length of the map and the map's records in memory       *)
(* order; memory past the last record looks like the records over again.   *)
(* Sizes are down-scaled; UINT32_MAX and UINT64_MAX keep the two widths.   *)
(***************************************************************************)
EXTENDS Integers, Sequences, FiniteSets

CONSTANTS UINT32_MAX, UINT64_MAX,
          WordSize,       \* sizeof(uint32_t)
          MULTIBOOT_MMAP_MIN_PAYLOAD_SIZE,
          InfoSize        \* sizeof(struct multiboot_info)

ASSUME MultibootAssumption ==
  /\ {UINT32_MAX, UINT64_MAX} \subseteq Nat
  /\ {WordSize, InfoSize} \subseteq Nat \ {0}
  /\ MULTIBOOT_MMAP_MIN_PAYLOAD_SIZE \in Nat
  /\ UINT32_MAX <= UINT64_MAX

RequiredFlags == {"memory", "memory_map"}

validate_multiboot_info(b) ==
  /\ b.magic = "bootloader"
  /\ b.address # 0 /\ b.address <= UINT32_MAX - InfoSize
  /\ RequiredFlags \subseteq b.flags
  /\ b.mmap_addr # 0 /\ b.mmap_length # 0
  /\ b.mmap_addr <= UINT32_MAX - b.mmap_length

Entry(b, n) == b.records[(n % Len(b.records)) + 1]

(***************************************************************************)
(* walk_memory_map: the locals of the loop, the result once it has one,    *)
(* and as history the end of the highest byte read from the map.           *)
(***************************************************************************)
mmap_end(b) == (b.mmap_addr + b.mmap_length) % (UINT32_MAX + 1)

WalkStart(b) == [cursor |-> b.mmap_addr, count |-> 0,
                 result |-> "none", read |-> b.mmap_addr]

Returns(w, result) == [w EXCEPT !.result = result]
Reads(w, size) == [w EXCEPT !.read = w.cursor + size]

(* Mutant of Fits: a record may start before the end and reach past it. *)
Fits_start(record_size, remaining) == remaining > 0

Fits(record_size, remaining) == record_size <= remaining

(* The part of an iteration before the visitor: its region, if it has one. *)
walk_check(b, w) ==
  LET remaining == mmap_end(b) - w.cursor
      entry == Entry(b, w.count)
      record_size == entry.size + WordSize
      header == Reads(w, WordSize)
      whole == Reads(w, WordSize + MULTIBOOT_MMAP_MIN_PAYLOAD_SIZE)
  IN  IF w.cursor >= mmap_end(b)
      THEN Returns(w, IF w.count = 0 THEN "false" ELSE "true")
      ELSE IF remaining < WordSize THEN Returns(w, "false")
      ELSE IF \/ entry.size < MULTIBOOT_MMAP_MIN_PAYLOAD_SIZE
              \/ entry.size > UINT32_MAX - WordSize
              \/ ~ Fits(record_size, remaining)
      THEN Returns(header, "false")
      ELSE IF \/ entry.length = 0
              \/ entry.base > UINT64_MAX - entry.length
              \/ w.count = UINT32_MAX
      THEN Returns(whole, "false")
      ELSE Returns(whole, "none")

(* The end of an iteration whose record was accepted. *)
walk_advance(b, w) ==
  [w EXCEPT !.count = @ + 1,
            !.cursor = (@ + Entry(b, w.count).size + WordSize) % (UINT32_MAX + 1)]

(* Whether walk_check(b, w) has come to a record to visit. *)
AtRecord(b, w) == w.cursor < mmap_end(b) /\ walk_check(b, w).result = "none"

-----------------------------------------------------------------------------
(* Reference: the first n records tile the map exactly, in unbounded       *)
(* arithmetic, and each is sound.                                          *)
EndOf(b, n) ==
  LET sum[k \in 0 .. n] ==
        IF k = 0 THEN 0 ELSE sum[k - 1] + (Entry(b, k - 1).size + WordSize)
  IN  sum[n]

Sound(entry) == /\ entry.size >= MULTIBOOT_MMAP_MIN_PAYLOAD_SIZE
                /\ entry.length > 0
                /\ entry.base + entry.length <= UINT64_MAX

WellFormed(b) ==
  /\ b.magic = "bootloader" /\ RequiredFlags \subseteq b.flags
  /\ b.address \in 1 .. UINT32_MAX - InfoSize
  /\ b.mmap_addr > 0 /\ b.mmap_addr + b.mmap_length <= UINT32_MAX
  /\ \E n \in 1 .. b.mmap_length :
       EndOf(b, n) = b.mmap_length /\ \A i \in 0 .. n - 1 : Sound(Entry(b, i))

Records(b) == CHOOSE n \in 1 .. b.mmap_length : EndOf(b, n) = b.mmap_length
===============================================================================
