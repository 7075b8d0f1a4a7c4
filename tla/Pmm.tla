--------------------------------- MODULE Pmm ---------------------------------
(***************************************************************************)
(* The physical page allocator of kernel/mm/pmm.c.  The two bitmaps are    *)
(* sets of page numbers; addresses and lengths are the 64-bit values the   *)
(* boot memory map contains, down-scaled: PageSize bytes to a page,        *)
(* PMM_PAGE_COUNT pages, and AddressMax for UINT64_MAX.  The calls are     *)
(* made by kernel_main and by the foreground, never by an interrupt.       *)
(***************************************************************************)
EXTENDS Integers, FiniteSets

CONSTANTS PMM_PAGE_COUNT, PMM_PAGE_SIZE, AddressMax

ASSUME PmmAssumption ==
  /\ PMM_PAGE_COUNT \in Nat \ {0} /\ PMM_PAGE_SIZE \in Nat \ {0}
  /\ AddressMax \in Nat /\ AddressMax >= PMM_PAGE_COUNT * PMM_PAGE_SIZE

Pages == 0 .. PMM_PAGE_COUNT - 1
PMM_PHYSICAL_LIMIT == PMM_PAGE_COUNT * PMM_PAGE_SIZE
Addresses == 0 .. AddressMax

VARIABLES managed_pages, allocated_pages, total_pages, free_pages,
          ownership_frozen,
          ret                    \* the result of the latest call

(***************************************************************************)
(* History: the pages wholly inside a region added as usable, the pages    *)
(* touched by a reserved region, and the pages handed out and not freed.   *)
(***************************************************************************)
VARIABLES described, claimed, owned

pmmVars == <<managed_pages, allocated_pages, total_pages, free_pages,
             ownership_frozen>>
history == <<described, claimed, owned>>
vars == <<pmmVars, ret, history>>

(* kernel_main calls pmm_reset first; page 0 is reserved for ever. *)
Init == /\ managed_pages = {} /\ allocated_pages = {0}
        /\ total_pages = 0 /\ free_pages = 0
        /\ ownership_frozen = FALSE
        /\ ret = TRUE
        /\ described = {} /\ claimed = {0} /\ owned = {}

-----------------------------------------------------------------------------
page_is_reserved(managed, allocated, page) ==
  page \notin managed /\ page \in allocated

(* The pages on which mark_page_reserved (resp. usable) has an effect. *)
Reservable(pages) ==
  {p \in pages : ~ (p \in managed_pages /\ p \in allocated_pages)}

(* Mutant of Usable: a page described twice is counted twice. *)
Usable_again(pages) ==
  {p \in pages : /\ p # 0
                 /\ ~ page_is_reserved(managed_pages, allocated_pages, p)}

Usable(pages) ==
  {p \in pages : /\ p # 0 /\ p \notin managed_pages
                 /\ ~ page_is_reserved(managed_pages, allocated_pages, p)}

mark_pages_reserved(pages) ==
  LET new == Reservable(pages)
      lost == new \cap managed_pages
  IN  /\ managed_pages' = managed_pages \ new
      /\ allocated_pages' = allocated_pages \cup new
      /\ total_pages' = total_pages - Cardinality(lost)
      /\ free_pages' = free_pages - Cardinality(lost)

mark_pages_usable(pages) ==
  LET new == Usable(pages)
  IN  /\ managed_pages' = managed_pages \cup new
      /\ allocated_pages' = allocated_pages \ new
      /\ total_pages' = total_pages + Cardinality(new)
      /\ free_pages' = free_pages + Cardinality(new)

(* Fails when base + length does not fit; else the part below the limit. *)
clip_to_physical(base, length) ==
  LET empty == [ok |-> TRUE, base |-> 0, end |-> 0]
  IN  IF length = 0 THEN empty
      ELSE IF base > AddressMax - length THEN [empty EXCEPT !.ok = FALSE]
      ELSE IF base >= PMM_PHYSICAL_LIMIT THEN empty
      ELSE [ok |-> TRUE, base |-> base,
            end |-> IF base + length > PMM_PHYSICAL_LIMIT
                    THEN PMM_PHYSICAL_LIMIT ELSE base + length]

(* Mutant of inward_page_span: the base is rounded down. *)
inward_page_span_down(base, end) ==
  LET first == base \div PMM_PAGE_SIZE
      last_excl == end \div PMM_PAGE_SIZE
  IN  (IF first = 0 THEN 1 ELSE first) .. last_excl - 1

(* The pages from the first to the one before the last; page 0 never is. *)
inward_page_span(base, end) ==
  LET first == (base + PMM_PAGE_SIZE - 1) \div PMM_PAGE_SIZE
      last_excl == end \div PMM_PAGE_SIZE
  IN  (IF first = 0 THEN 1 ELSE first) .. last_excl - 1

outward_page_span(base, end) ==
  LET last_excl == (end + PMM_PAGE_SIZE - 1) \div PMM_PAGE_SIZE
  IN  IF base >= end THEN {} ELSE base \div PMM_PAGE_SIZE .. last_excl - 1

-----------------------------------------------------------------------------
(* Byte-level meaning of the regions, for the history variables. *)
BytesOf(page) == page * PMM_PAGE_SIZE .. (page + 1) * PMM_PAGE_SIZE - 1
BytesIn(base, length) == base .. base + length - 1

pmm_reset ==
  /\ managed_pages' = {} /\ allocated_pages' = {0}
  /\ total_pages' = 0 /\ free_pages' = 0
  /\ ownership_frozen' = FALSE
  /\ ret' = TRUE
  /\ described' = {} /\ claimed' = {0} /\ owned' = {}

MayChangeOwnership == ~ ownership_frozen

refuse == ret' = FALSE /\ UNCHANGED <<pmmVars, history>>

pmm_add_usable_region(base, length) ==
  LET clip == clip_to_physical(base, length)
  IN  IF ~ MayChangeOwnership \/ ~ clip.ok THEN refuse
      ELSE /\ mark_pages_usable(inward_page_span(clip.base, clip.end))
           /\ ret' = TRUE
           /\ described' = described \cup
                {p \in Pages : BytesOf(p) \subseteq BytesIn(base, length)}
           /\ UNCHANGED <<ownership_frozen, claimed, owned>>

pmm_reserve_region(base, length) ==
  LET clip == clip_to_physical(base, length)
  IN  IF ~ MayChangeOwnership \/ ~ clip.ok THEN refuse
      ELSE /\ mark_pages_reserved(outward_page_span(clip.base, clip.end))
           /\ ret' = TRUE
           /\ claimed' = claimed \cup
                {p \in Pages : BytesOf(p) \cap BytesIn(base, length) # {}}
           /\ UNCHANGED <<ownership_frozen, described, owned>>

(* The lowest free page; the first call freezes ownership, even in vain. *)
pmm_alloc_page ==
  LET free == managed_pages \ allocated_pages
      page == CHOOSE p \in free : \A q \in free : p <= q
  IN  /\ ownership_frozen' = TRUE
      /\ IF free_pages = 0 \/ free = {}
         THEN /\ ret' = FALSE
              /\ UNCHANGED <<managed_pages, allocated_pages, total_pages,
                             free_pages, history>>
         ELSE /\ allocated_pages' = allocated_pages \cup {page}
              /\ free_pages' = free_pages - 1
              /\ ret' = TRUE
              /\ owned' = owned \cup {page}
              /\ UNCHANGED <<managed_pages, total_pages, described, claimed>>

pmm_free_page(physical_address) ==
  LET page == physical_address \div PMM_PAGE_SIZE
  IN  IF \/ physical_address = 0
         \/ physical_address % PMM_PAGE_SIZE # 0
         \/ physical_address > (PMM_PAGE_COUNT - 1) * PMM_PAGE_SIZE
         \/ page \notin managed_pages \/ page \notin allocated_pages
      THEN refuse
      ELSE /\ allocated_pages' = allocated_pages \ {page}
           /\ free_pages' = free_pages + 1
           /\ ret' = TRUE
           /\ owned' = owned \ {page}
           /\ UNCHANGED <<managed_pages, total_pages, ownership_frozen,
                          described, claimed>>

Next ==
  \/ pmm_reset
  \/ \E base, length \in Addresses :
       \/ pmm_add_usable_region(base, length)
       \/ pmm_reserve_region(base, length)
  \/ pmm_alloc_page
  \/ \E physical_address \in Addresses : pmm_free_page(physical_address)

Spec == Init /\ [][Next]_vars

-----------------------------------------------------------------------------
(* After any sequence of add and reserve calls, in any order and with any  *)
(* overlaps, alignment or clipping, the managed pages are exactly those    *)
(* wholly inside an added region and not touched by a reserved one: the    *)
(* map's order never matters and reservation always wins.                  *)
OwnershipExact == managed_pages = described \ claimed

(* The counters reported to callers agree with the bitmaps, and a page is  *)
(* marked allocated exactly when a caller owns it.                         *)
CountsMatchBitmaps ==
  /\ total_pages = Cardinality(managed_pages)
  /\ free_pages = Cardinality(managed_pages \ allocated_pages)
  /\ owned = managed_pages \cap allocated_pages
==============================================================================
