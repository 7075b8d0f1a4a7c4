--------------------------------- MODULE Boot ---------------------------------
(***************************************************************************)
(* kernel_main from the boot loader's registers to the PMM self-test: the  *)
(* memory map is walked four times, the last time to fill the page         *)
(* allocator, then the kernel's own ranges are reserved and the allocator  *)
(* is tried out; then pages are allocated and freed by its callers.        *)
(* Composed from Multiboot and Pmm; interrupts are off.                    *)
(***************************************************************************)
EXTENDS Multiboot, Pmm

CONSTANTS LOW_MEMORY_LIMIT, KernelStart, KernelEnd,
          VMM_IDENTITY_LIMIT,
          BootRecords     \* what the loader may leave behind

ASSUME BootAssumption ==
  /\ AddressMax = UINT64_MAX
  /\ LOW_MEMORY_LIMIT \in Nat \ {0} /\ LOW_MEMORY_LIMIT <= AddressMax
  /\ VMM_IDENTITY_LIMIT \in Nat /\ VMM_IDENTITY_LIMIT <= AddressMax
  /\ KernelStart \in Nat /\ KernelEnd \in Nat /\ KernelStart < KernelEnd
  /\ \A b \in BootRecords :
       /\ {b.address, b.mmap_addr, b.mmap_length} \subseteq 0 .. UINT32_MAX
       /\ b.records # << >>
       /\ b.records \in Seq([size : 0 .. UINT32_MAX, type : Nat,
                             base : 0 .. UINT64_MAX, length : 0 .. UINT64_MAX])

VARIABLES loaded,             \* the boot record
          at,                 \* where kernel_main stands
          walk,               \* the walk in progress
          owned_ranges, free_before, allocated_page, \* locals of kernel_main
          stage               \* the stage boot_fail reported

allocatorVars == <<pmmVars, ret, history>>
locals == <<owned_ranges, free_before, allocated_page>>
bootVars == <<allocatorVars, loaded, at, walk, locals, stage>>

NoWalk == [cursor |-> 0, count |-> 0, result |-> "none", read |-> 0]

BootInit == /\ Init
            /\ loaded \in BootRecords
            /\ at = "parse" /\ walk = NoWalk
            /\ owned_ranges = << >> /\ free_before = 0 /\ allocated_page = 0
            /\ stage = "none"

Goto(place) == at' = place /\ stage' = stage /\ UNCHANGED loaded
boot_fail(s) == at' = "failed" /\ stage' = s /\ UNCHANGED loaded

-----------------------------------------------------------------------------
(* The four walks: multiboot_parse, multiboot_get_owned_ranges, and the    *)
(* two of multiboot_for_each_memory_region.                                *)
Walks == {"parse", "owned", "validate", "visit"}

After(pass) == CASE pass = "parse" -> "owned"
                 [] pass = "owned" -> "kernel_range"
                 [] pass = "validate" -> "visit"
                 [] pass = "visit" -> "reserve_low"

StageOf(pass) == IF pass \in {"parse", "owned"} THEN "multiboot" ELSE "pmm-map"

walk_begin ==
  /\ at \in Walks /\ walk = NoWalk
  /\ IF at # "visit" /\ ~ validate_multiboot_info(loaded)
     THEN boot_fail(StageOf(at)) /\ UNCHANGED walk
     ELSE walk' = WalkStart(loaded) /\ Goto(at)
  /\ UNCHANGED <<allocatorVars, locals>>

(* add_memory_region *)
add_memory_region(entry) ==
  IF entry.type = 1 THEN pmm_add_usable_region(entry.base, entry.length)
  ELSE pmm_reserve_region(entry.base, entry.length)

Visits(pass) == pass = "visit"

(* One iteration of the loop that accepts a record. *)
walk_record ==
  /\ at \in Walks /\ walk # NoWalk /\ walk.result = "none"
  /\ AtRecord(loaded, walk)
  /\ IF Visits(at) THEN add_memory_region(Entry(loaded, walk.count))
     ELSE UNCHANGED allocatorVars
  /\ LET checked == walk_check(loaded, walk)
     IN  walk' = IF Visits(at) /\ ~ ret' THEN Returns(checked, "false")
                 ELSE walk_advance(loaded, checked)
  /\ Goto(at) /\ UNCHANGED locals

(* The iteration that leaves it. *)
walk_leave ==
  /\ at \in Walks /\ walk # NoWalk /\ walk.result = "none"
  /\ ~ AtRecord(loaded, walk)
  /\ walk' = walk_check(loaded, walk)
  /\ Goto(at) /\ UNCHANGED <<allocatorVars, locals>>

walk_return ==
  /\ at \in Walks /\ walk.result # "none"
  /\ IF walk.result = "true" THEN Goto(After(at)) ELSE boot_fail(StageOf(at))
  /\ owned_ranges' = IF at = "owned" /\ walk.result = "true"
                     THEN <<[base |-> loaded.address, length |-> InfoSize],
                            [base |-> loaded.mmap_addr, length |-> loaded.mmap_length]>>
                     ELSE owned_ranges
  /\ walk' = NoWalk
  /\ UNCHANGED <<allocatorVars, free_before, allocated_page>>

(* The link-time range of the kernel, and pmm_reset. *)
boot_kernel_range ==
  /\ at = "kernel_range"
  /\ IF KernelEnd <= KernelStart \/ KernelEnd > VMM_IDENTITY_LIMIT
     THEN boot_fail("kernel-range") /\ UNCHANGED allocatorVars
     ELSE Goto("validate") /\ pmm_reset
  /\ UNCHANGED <<walk, locals>>

-----------------------------------------------------------------------------
Kernel == [base |-> KernelStart, length |-> KernelEnd - KernelStart]
LowMemory == [base |-> 0, length |-> LOW_MEMORY_LIMIT]

(* Mutant of Reservation: the map itself is not reserved. *)
Reservation_no_map(place) ==
  CASE place = "reserve_low" -> LowMemory
    [] place = "reserve_kernel" -> Kernel
    [] OTHER -> owned_ranges[1]

Reservation(place) ==
  CASE place = "reserve_low" -> LowMemory
    [] place = "reserve_kernel" -> Kernel
    [] place = "reserve_info" -> owned_ranges[1]
    [] place = "reserve_mmap" -> owned_ranges[2]

NextReservation(place) ==
  CASE place = "reserve_low" -> "reserve_kernel"
    [] place = "reserve_kernel" -> "reserve_info"
    [] place = "reserve_info" -> "reserve_mmap"
    [] place = "reserve_mmap" -> "counts"

boot_reserve ==
  /\ at \in {"reserve_low", "reserve_kernel", "reserve_info", "reserve_mmap"}
  /\ pmm_reserve_region(Reservation(at).base, Reservation(at).length)
  /\ IF ret' THEN Goto(NextReservation(at)) ELSE boot_fail("pmm-reserve")
  /\ UNCHANGED <<walk, locals>>

(* Mutant of SomePageFree: a map without usable memory is let through. *)
SomePageFree_any == total_pages >= free_pages

SomePageFree == total_pages # 0 /\ free_pages # 0

boot_counts ==
  /\ at = "counts"
  /\ IF SomePageFree THEN Goto("alloc") ELSE boot_fail("pmm-reserve")
  /\ free_before' = free_pages
  /\ UNCHANGED <<allocatorVars, walk, owned_ranges, allocated_page>>

(* ranges_overlap and allocation_is_reserved *)
ranges_overlap(a, b) ==
  a.base < b.base + b.length /\ b.base < a.base + a.length

allocation_is_reserved(page) ==
  LET range == [base |-> page, length |-> PMM_PAGE_SIZE]
  IN  \/ ranges_overlap(range, LowMemory) \/ ranges_overlap(range, Kernel)
      \/ ranges_overlap(range, owned_ranges[1])
      \/ ranges_overlap(range, owned_ranges[2])

(* The PMM self-test, one call at a time: each must have this result. *)
Expect(result, next) ==
  IF ret' = result THEN Goto(next) ELSE boot_fail("pmm-self-test")

test_alloc ==
  /\ at = "alloc"
  /\ pmm_alloc_page
  /\ allocated_page' = IF ret' THEN PMM_PAGE_SIZE * (CHOOSE p \in owned' : p \notin owned)
                       ELSE 0
  /\ IF \/ allocated_page' = 0
        \/ allocated_page' % PMM_PAGE_SIZE # 0
        \/ free_pages' # free_before - 1
        \/ allocation_is_reserved(allocated_page')
     THEN boot_fail("pmm-self-test") ELSE Goto("add")
  /\ UNCHANGED <<walk, owned_ranges, free_before>>

test_add == /\ at = "add"
            /\ pmm_add_usable_region(0, PMM_PAGE_SIZE)
            /\ Expect(FALSE, "reserve")
            /\ UNCHANGED <<walk, locals>>

test_reserve == /\ at = "reserve"
                /\ pmm_reserve_region(allocated_page, PMM_PAGE_SIZE)
                /\ Expect(FALSE, "free")
                /\ UNCHANGED <<walk, locals>>

test_free == /\ at = "free"
             /\ pmm_free_page(allocated_page)
             /\ IF free_pages' # free_before THEN boot_fail("pmm-self-test")
                ELSE Expect(TRUE, "free_again")
             /\ UNCHANGED <<walk, locals>>

test_free_again == /\ at = "free_again"
                   /\ pmm_free_page(allocated_page)
                   /\ Expect(FALSE, "ok")
                   /\ UNCHANGED <<walk, locals>>

(* After PMM_OK: the callers of the allocator. *)
later_alloc == /\ at = "ok"
               /\ pmm_alloc_page
               /\ UNCHANGED <<loaded, at, walk, locals, stage>>

later_free == /\ at = "ok"
              /\ \E address \in 0 .. PMM_PHYSICAL_LIMIT : pmm_free_page(address)
              /\ UNCHANGED <<loaded, at, walk, locals, stage>>

(* The hlt loop of boot_fail. *)
failed == at = "failed" /\ UNCHANGED bootVars

BootNext == \/ walk_begin \/ walk_record \/ walk_leave \/ walk_return
            \/ boot_kernel_range \/ boot_reserve \/ boot_counts
            \/ test_alloc \/ test_add \/ test_reserve \/ test_free
            \/ test_free_again
            \/ later_alloc \/ later_free \/ failed

BootSpec == BootInit /\ [][BootNext]_bootVars /\ WF_bootVars(BootNext)

-----------------------------------------------------------------------------
(* The walk accepts a map exactly when sound records tile it from its      *)
(* first to its last byte, in 32-bit arithmetic that must not wrap, and it *)
(* never reads a byte outside the map it was given.                        *)
WalkExact ==
  /\ walk.read <= loaded.mmap_addr + loaded.mmap_length
  /\ at \in Walks /\ walk.result = "true" =>
       WellFormed(loaded) /\ walk.count = Records(loaded)
  /\ stage = "multiboot" => ~ WellFormed(loaded)

Bytes(range) == range.base .. range.base + range.length - 1
Kept == {LowMemory, Kernel} \cup
        {owned_ranges[i] : i \in 1 .. Len(owned_ranges)} \cup
        {Entry(loaded, i) : i \in {j \in 0 .. Records(loaded) - 1 :
                                     Entry(loaded, j).type # 1}}
UsableEntries == {Entry(loaded, i) : i \in {j \in 0 .. Records(loaded) - 1 :
                                              Entry(loaded, j).type = 1}}

(* When the allocator is ready it manages exactly the pages that lie in a  *)
(* region the map calls usable and that contain no byte of low memory, of  *)
(* the kernel, of the loader's structures or of a region of another type,  *)
(* whatever the order and the overlaps of the map's records.               *)
BootOwnership ==
  at \in {"counts", "alloc", "add", "reserve", "free", "free_again", "ok"} =>
    managed_pages =
      {p \in Pages : /\ p # 0
                     /\ \E e \in UsableEntries : BytesOf(p) \subseteq Bytes(e)
                     /\ \A r \in Kept : BytesOf(p) \cap Bytes(r) = {}}

(* The boot reaches PMM_OK, or it stops for one of two reasons: the map is *)
(* malformed, and then the allocator has not seen any of its records, or   *)
(* no free page is left.  The second walk, the reservations and the        *)
(* self-test never fail on a map the first walk accepted.                  *)
BootOutcome ==
  <>(\/ at = "ok"
     \/ /\ at = "failed"
        /\ \/ stage = "multiboot" /\ described = {} /\ claimed = {0}
           \/ stage = "pmm-reserve" /\ managed_pages = {})
===============================================================================
