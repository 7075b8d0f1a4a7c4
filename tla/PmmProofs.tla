------------------------------ MODULE PmmProofs -------------------------------
(***************************************************************************)
(* Proofs about the page allocator of module Pmm and about the boot of     *)
(* module Boot, which fills it from the boot loader's memory map, for      *)
(* every number and size of pages, every width of addresses and every map: *)
(* which pages are managed, that the counters agree with the bitmaps, what *)
(* the walk over the map accepts, and why a boot may stop.  The end of the *)
(* k-th record is a recursive function; what it computes is shown from its *)
(* equation, with a least counterexample.                                  *)
(***************************************************************************)
EXTENDS Boot, FiniteSetTheorems, WellFoundedInduction, TLAPS

(* The two roundings of page numbers. *)
Floor(a, n) == a \div n
Ceiling(a, n) == (a + n - 1) \div n

LEMMA Quotient ==
  ASSUME NEW n \in Nat \ {0}, NEW a \in Nat
  PROVE  /\ a \div n \in Nat /\ n * (a \div n) <= a /\ a < n * (a \div n) + n
  OBVIOUS

(* Multiplying by the page size keeps the order. *)
LEMMA Times ==
  ASSUME NEW n \in Nat \ {0}, NEW p \in Int, NEW q \in Int
  PROVE  p < q <=> n * p < n * q
  <1>1. p < q => n * (q - p) >= n
    OBVIOUS
  <1>2. p >= q => n * (p - q) >= 0
    OBVIOUS
  <1>3. n * (q - p) = n * q - n * p /\ n * (p - q) = n * p - n * q
    OBVIOUS
  <1> QED  BY <1>1, <1>2, <1>3

(* A page ends at or below a exactly when it is below a rounded down, *)
LEMMA BelowFloor ==
  ASSUME NEW n \in Nat \ {0}, NEW a \in Nat, NEW p \in Nat
  PROVE  /\ Floor(a, n) \in Nat
         /\ p < Floor(a, n) <=> (p + 1) * n <= a
  <1> DEFINE q == a \div n
  <1>1. q \in Nat /\ n * q <= a /\ a < n * q + n
    BY Quotient, Zenon
  <1> HIDE DEF q
  <1>3. p < q => p + 1 = q \/ p + 1 < q
    BY <1>1
  <1>4. p + 1 < q <=> n * (p + 1) < n * q
    BY <1>1, Times
  <1>5. p + 1 < q + 1 <=> n * (p + 1) < n * (q + 1)
    BY <1>1, Times
  <1>6. (p + 1) * n = n * (p + 1) /\ n * (q + 1) = n * q + n
    BY <1>1
  <1>7. p < q => (p + 1) * n <= a
    BY <1>1, <1>3, <1>4, <1>6
  <1>8. (p + 1) * n <= a => p < q
    BY <1>1, <1>5, <1>6
  <1> QED  BY <1>1, <1>7, <1>8, Zenon DEF q, Floor

(* and starts at or above a exactly when it is not below a rounded up. *)
LEMMA BelowCeiling ==
  ASSUME NEW n \in Nat \ {0}, NEW a \in Nat, NEW p \in Nat
  PROVE  /\ Ceiling(a, n) \in Nat
         /\ p < Ceiling(a, n) <=> p * n < a
  <1> DEFINE c == (a + n - 1) \div n
  <1>1. c \in Nat /\ n * c <= a + n - 1 /\ a + n - 1 < n * c + n
    BY Quotient
  <1> HIDE DEF c
  <1>2. n * (c - 1) = n * c - n /\ p * n = n * p
    BY <1>1
  <1>4. p < c <=> n * p < n * c
    BY <1>1, Times
  <1>5. p < c => p * n < a
    <2>1. p < c => p = c - 1 \/ p < c - 1
      BY <1>1
    <2>2. p < c - 1 <=> n * p < n * (c - 1)
      BY <1>1, Times
    <2> QED  BY <1>1, <1>2, <2>1, <2>2
  <1>6. p * n < a => p < c
    BY <1>1, <1>2, <1>4
  <1> QED  BY <1>1, <1>5, <1>6, Zenon DEF c, Ceiling

-----------------------------------------------------------------------------
S == PMM_PAGE_SIZE

(* The pages of the history variables. *)
Inside(base, length) == {p \in Pages : BytesOf(p) \subseteq BytesIn(base, length)}
Touched(base, length) == {p \in Pages : BytesOf(p) \cap BytesIn(base, length) # {}}

LEMMA Sizes == S \in Nat \ {0} /\ PMM_PAGE_COUNT \in Nat \ {0} /\ AddressMax \in Nat
  BY PmmAssumption, Zenon DEF S

(* The bytes of a page, and the limit of the pages. *)
LEMMA PageBounds ==
  ASSUME NEW p \in Nat
  PROVE  /\ p * S \in Nat /\ (p + 1) * S \in Nat /\ (p + 1) * S = p * S + S
         /\ BytesOf(p) = p * S .. (p + 1) * S - 1
         /\ p \in Pages <=> (p + 1) * S <= PMM_PHYSICAL_LIMIT
  <1>1. p * S \in Nat /\ (p + 1) * S = p * S + S
    BY Sizes
  <1>2. p < PMM_PAGE_COUNT <=> S * p < S * PMM_PAGE_COUNT
    BY Sizes, Times
  <1>3. PMM_PAGE_COUNT < p + 1 <=> S * PMM_PAGE_COUNT < S * (p + 1)
    BY Sizes, Times
  <1>4. /\ PMM_PHYSICAL_LIMIT = S * PMM_PAGE_COUNT /\ S * PMM_PAGE_COUNT \in Nat
        /\ (p + 1) * S = S * (p + 1)
    BY Sizes DEF PMM_PHYSICAL_LIMIT, S
  <1>5. p \in Pages <=> (p + 1) * S <= PMM_PHYSICAL_LIMIT
    BY <1>1, <1>3, <1>4, Sizes DEF Pages
  <1> QED  BY <1>1, <1>5, Sizes DEF BytesOf, S

(* Containment and overlap of a page and a region, by their ends. *)
LEMMA InsideEnds ==
  ASSUME NEW p \in Nat, NEW base \in Nat, NEW length \in Nat
  PROVE  BytesOf(p) \subseteq BytesIn(base, length)
           <=> base <= p * S /\ (p + 1) * S <= base + length
  <1> DEFINE lo == p * S
             hi == (p + 1) * S
  <1>1. lo \in Nat /\ hi \in Nat /\ lo < hi /\ BytesOf(p) = lo .. hi - 1
    BY PageBounds, Sizes
  <1> HIDE DEF lo, hi
  <1>2. BytesOf(p) \subseteq BytesIn(base, length) => base <= lo /\ hi <= base + length
    <2>1. lo \in BytesOf(p) /\ hi - 1 \in BytesOf(p)
      BY <1>1
    <2> QED  BY <1>1, <2>1 DEF BytesIn
  <1>3. base <= lo /\ hi <= base + length => BytesOf(p) \subseteq BytesIn(base, length)
    BY <1>1 DEF BytesIn
  <1> QED  BY <1>2, <1>3, Zenon DEF lo, hi

LEMMA TouchedEnds ==
  ASSUME NEW p \in Nat, NEW base \in Nat, NEW length \in Nat
  PROVE  BytesOf(p) \cap BytesIn(base, length) # {}
           <=> length > 0 /\ p * S < base + length /\ base < (p + 1) * S
  <1> DEFINE lo == p * S
             hi == (p + 1) * S
  <1>1. lo \in Nat /\ hi \in Nat /\ lo < hi /\ BytesOf(p) = lo .. hi - 1
    BY PageBounds, Sizes
  <1> HIDE DEF lo, hi
  <1>2. BytesOf(p) \cap BytesIn(base, length) # {}
          => length > 0 /\ lo < base + length /\ base < hi
    BY <1>1 DEF BytesIn
  <1>3. ASSUME length > 0, lo < base + length, base < hi
        PROVE  BytesOf(p) \cap BytesIn(base, length) # {}
    <2> DEFINE x == IF base <= lo THEN lo ELSE base
    <2>1. x \in BytesOf(p) /\ x \in BytesIn(base, length)
      BY <1>1, <1>3 DEF BytesIn
    <2> QED  BY <2>1, Zenon
  <1> QED  BY <1>2, <1>3, Zenon DEF lo, hi

(* clip_to_physical *)
LEMMA Clipped ==
  ASSUME NEW base \in Nat, NEW length \in Nat, clip_to_physical(base, length).ok
  PROVE  LET clip == clip_to_physical(base, length)
         IN  /\ clip.base \in Nat /\ clip.end \in Nat
             /\ clip.end <= PMM_PHYSICAL_LIMIT
             /\ \/ /\ clip.base = 0 /\ clip.end = 0
                   /\ length = 0 \/ base >= PMM_PHYSICAL_LIMIT
                \/ /\ clip.base = base /\ base < clip.end /\ length > 0
                   /\ \/ clip.end = base + length
                      \/ /\ base + length > PMM_PHYSICAL_LIMIT
                         /\ clip.end = PMM_PHYSICAL_LIMIT
  <1>1. PMM_PHYSICAL_LIMIT \in Nat
    BY PmmAssumption DEF PMM_PHYSICAL_LIMIT
  <1> QED  BY <1>1 DEF clip_to_physical

(* The pages pmm_add_usable_region marks are the ones wholly inside the    *)
(* region, page 0 excepted.                                                *)
LEMMA InwardSpan ==
  ASSUME NEW base \in Nat, NEW length \in Nat, clip_to_physical(base, length).ok
  PROVE  LET clip == clip_to_physical(base, length)
         IN  inward_page_span(clip.base, clip.end) = Inside(base, length) \ {0}
  <1> DEFINE clip == clip_to_physical(base, length)
             b == clip.base
             e == clip.end
             L == PMM_PHYSICAL_LIMIT
  <1>1. /\ b \in Nat /\ e \in Nat /\ e <= L /\ L \in Nat
        /\ \/ b = 0 /\ e = 0 /\ (length = 0 \/ base >= L)
           \/ /\ b = base /\ base < e /\ length > 0
              /\ e = base + length \/ (base + length > L /\ e = L)
    BY Clipped, Sizes DEF PMM_PHYSICAL_LIMIT, S
  <1> HIDE DEF clip, b, e, L
  <1>2. \A p \in Nat : p \in inward_page_span(b, e)
                         <=> p # 0 /\ b <= p * S /\ (p + 1) * S <= e
    <2> SUFFICES ASSUME NEW p \in Nat
                 PROVE  p \in inward_page_span(b, e)
                          <=> p # 0 /\ b <= p * S /\ (p + 1) * S <= e
      BY Zenon
    <2> DEFINE first == Ceiling(b, S)
               last == Floor(e, S)
    <2>1. first \in Nat /\ (p < first <=> p * S < b)
      BY <1>1, Sizes, BelowCeiling, Zenon
    <2>2. last \in Nat /\ (p < last <=> (p + 1) * S <= e)
      BY <1>1, Sizes, BelowFloor, Zenon
    <2>3. inward_page_span(b, e) = (IF first = 0 THEN 1 ELSE first) .. last - 1
      BY Zenon DEF inward_page_span, Ceiling, Floor, S
    <2>4. p * S \in Nat
      BY PageBounds, Zenon
    <2> HIDE DEF first, last
    <2> QED  BY <1>1, <2>1, <2>2, <2>3, <2>4
  <1>3. \A p \in inward_page_span(b, e) : p \in Nat
    <2> DEFINE first == Ceiling(b, S)
               last == Floor(e, S)
    <2>1. first \in Nat /\ last \in Nat
      BY <1>1, Sizes, BelowCeiling, BelowFloor, Zenon
    <2>2. inward_page_span(b, e) = (IF first = 0 THEN 1 ELSE first) .. last - 1
      BY Zenon DEF inward_page_span, Ceiling, Floor, S
    <2> HIDE DEF first, last
    <2> QED  BY <2>1, <2>2
  <1>4. ASSUME NEW p \in Nat
        PROVE  b <= p * S /\ (p + 1) * S <= e
                 <=> p \in Pages /\ base <= p * S /\ (p + 1) * S <= base + length
    <2> DEFINE lo == p * S
               hi == (p + 1) * S
    <2>1. lo \in Nat /\ hi \in Nat /\ lo < hi /\ (p \in Pages <=> hi <= L)
      BY PageBounds, Sizes DEF L
    <2> HIDE DEF lo, hi
    <2>2. b <= lo /\ hi <= e <=> p \in Pages /\ base <= lo /\ hi <= base + length
      BY <1>1, <2>1
    <2> QED  BY <2>2, Zenon DEF lo, hi
  <1>5. \A p \in Inside(base, length) : p \in Nat
    BY DEF Inside, Pages
  <1>6. \A p \in Nat : p \in Inside(base, length)
                         <=> p \in Pages /\ base <= p * S /\ (p + 1) * S <= base + length
    BY InsideEnds, Zenon DEF Inside
  <1>7. inward_page_span(b, e) = Inside(base, length) \ {0}
    BY <1>2, <1>3, <1>4, <1>5, <1>6, Zenon
  <1> QED  BY <1>7, Zenon DEF b, e, clip

(* The pages pmm_reserve_region marks are the ones the region touches. *)
LEMMA OutwardSpan ==
  ASSUME NEW base \in Nat, NEW length \in Nat, clip_to_physical(base, length).ok
  PROVE  LET clip == clip_to_physical(base, length)
         IN  outward_page_span(clip.base, clip.end) = Touched(base, length)
  <1> DEFINE clip == clip_to_physical(base, length)
             b == clip.base
             e == clip.end
             L == PMM_PHYSICAL_LIMIT
  <1>1. /\ b \in Nat /\ e \in Nat /\ e <= L /\ L \in Nat
        /\ \/ b = 0 /\ e = 0 /\ (length = 0 \/ base >= L)
           \/ /\ b = base /\ base < e /\ length > 0
              /\ e = base + length \/ (base + length > L /\ e = L)
    BY Clipped, Sizes DEF PMM_PHYSICAL_LIMIT, S
  <1> HIDE DEF clip, b, e, L
  <1> DEFINE first == Floor(b, S)
             last == Ceiling(e, S)
  <1>2. first \in Nat /\ last \in Nat
    BY <1>1, Sizes, BelowCeiling, BelowFloor, Zenon
  <1>3. outward_page_span(b, e) = IF b >= e THEN {} ELSE first .. last - 1
    BY Zenon DEF outward_page_span, Ceiling, Floor, S
  <1>4. \A p \in Nat : /\ p < first <=> (p + 1) * S <= b
                       /\ p < last <=> p * S < e
    BY <1>1, Sizes, BelowFloor, BelowCeiling, Zenon
  <1> HIDE DEF first, last
  <1>5. ASSUME NEW p \in Nat
        PROVE  p \in outward_page_span(b, e) <=> b < e /\ b < (p + 1) * S /\ p * S < e
    <2>1. p * S \in Nat /\ (p + 1) * S \in Nat
      BY PageBounds, Zenon
    <2>2. (p < first <=> (p + 1) * S <= b) /\ (p < last <=> p * S < e)
      BY <1>4, Zenon
    <2> QED  BY <1>1, <1>2, <1>3, <2>1, <2>2
  <1>6. \A p \in outward_page_span(b, e) : p \in Nat
    BY <1>2, <1>3
  <1>7. ASSUME NEW p \in Nat
        PROVE  b < e /\ b < (p + 1) * S /\ p * S < e
                 <=> p \in Pages /\ length > 0 /\ p * S < base + length /\ base < (p + 1) * S
    <2> DEFINE lo == p * S
               hi == (p + 1) * S
    <2>1. lo \in Nat /\ hi \in Nat /\ lo < hi /\ (p \in Pages <=> hi <= L)
      BY PageBounds, Sizes DEF L
    <2>2. p \in Pages <=> lo < L
      <3>1. p < PMM_PAGE_COUNT <=> S * p < S * PMM_PAGE_COUNT
        BY Sizes, Times
      <3>2. S * p = p * S /\ S * PMM_PAGE_COUNT = PMM_PAGE_COUNT * S
        BY Sizes
      <3>3. L = PMM_PAGE_COUNT * S
        BY Zenon DEF L, PMM_PHYSICAL_LIMIT, S
      <3>4. p \in Pages <=> p < PMM_PAGE_COUNT
        BY Sizes DEF Pages
      <3> QED  BY <3>1, <3>2, <3>3, <3>4, Zenon
    <2> HIDE DEF lo, hi
    <2>3. b < e /\ b < hi /\ lo < e
            <=> p \in Pages /\ length > 0 /\ lo < base + length /\ base < hi
      BY <1>1, <2>1, <2>2
    <2> QED  BY <2>3, Zenon DEF lo, hi
  <1>8. \A p \in Touched(base, length) : p \in Nat
    BY DEF Touched, Pages
  <1>9. \A p \in Nat : p \in Touched(base, length)
          <=> p \in Pages /\ length > 0 /\ p * S < base + length /\ base < (p + 1) * S
    BY TouchedEnds, Zenon DEF Touched
  <1>10. outward_page_span(b, e) = Touched(base, length)
    BY <1>5, <1>6, <1>7, <1>8, <1>9, Zenon
  <1> QED  BY <1>10, Zenon DEF b, e, clip

-----------------------------------------------------------------------------
(***************************************************************************)
(* The inductive invariant.  OwnershipExact alone is not inductive: what   *)
(* mark_page_usable skips depends on the second bitmap, so that bitmap is  *)
(* described too (reserved or handed out), and nothing is handed out until *)
(* ownership is frozen, which is why a reservation never meets an          *)
(* allocated page.                                                         *)
(***************************************************************************)
Sets == /\ managed_pages \in SUBSET Pages /\ allocated_pages \in SUBSET Pages
        /\ claimed \in SUBSET Pages /\ 0 \in claimed
        /\ owned \subseteq managed_pages
        /\ managed_pages = described \ claimed
        /\ allocated_pages = claimed \cup owned
        /\ ~ ownership_frozen => owned = {}

Counts == /\ total_pages = Cardinality(managed_pages)
          /\ free_pages = Cardinality(managed_pages \ allocated_pages)

IInv == Sets /\ Counts

LEMMA PagesFinite ==
  ASSUME NEW T \in SUBSET Pages
  PROVE  IsFiniteSet(T) /\ Cardinality(T) \in Nat
  <1>1. IsFiniteSet(Pages)
    BY FS_Interval, Sizes DEF Pages
  <1> QED  BY <1>1, FS_Subset, FS_CardinalityType, Zenon

(* The page pmm_alloc_page finds exists: the scan goes upward from page 1. *)
LEMMA LeastPage ==
  ASSUME NEW T \in SUBSET Nat, T # {}
  PROVE  \E p \in T : \A q \in T : p <= q
  <1>1. PICK x \in T : \A y \in T : ~ (<<y, x>> \in OpToRel(<, Nat))
    BY NatLessThanWellFounded, WFMin, Zenon
  <1>2. \A y \in T : ~ (y < x)
    BY <1>1, Zenon DEF OpToRel
  <1> QED  BY <1>2

LEMMA InitStep == Init => IInv
  BY FS_EmptySet, Sizes DEF Init, IInv, Sets, Counts, Pages

LEMMA ResetStep == pmm_reset => IInv'
  BY FS_EmptySet, Sizes DEF pmm_reset, IInv, Sets, Counts, Pages

LEMMA UnchangedStep == IInv /\ UNCHANGED <<pmmVars, history>> => IInv'
  BY DEF IInv, Sets, Counts, pmmVars, history

(* Adding a region: the pages inside it join, the reserved ones excepted. *)
LEMMA AddStep ==
  ASSUME IInv, NEW base \in Nat, NEW length \in Nat,
         pmm_add_usable_region(base, length)
  PROVE  IInv'
  <1> DEFINE clip == clip_to_physical(base, length)
             pages == inward_page_span(clip.base, clip.end)
             new == Usable(pages)
  <1>1. CASE ~ MayChangeOwnership \/ ~ clip.ok
    BY <1>1, UnchangedStep, Zenon DEF pmm_add_usable_region, refuse
  <1>2. CASE ~ ownership_frozen /\ clip.ok
    <2>1. /\ mark_pages_usable(pages)
          /\ described' = described \cup Inside(base, length)
          /\ UNCHANGED <<ownership_frozen, claimed, owned>>
      BY <1>2, Zenon DEF pmm_add_usable_region, MayChangeOwnership, Inside
    <2>2. pages = Inside(base, length) \ {0}
      BY <1>2, InwardSpan, Zenon
    <2>3. Inside(base, length) \subseteq Pages
      BY Zenon DEF Inside
    <2>4. /\ managed_pages' = managed_pages \cup new
          /\ allocated_pages' = allocated_pages \ new
          /\ total_pages' = total_pages + Cardinality(new)
          /\ free_pages' = free_pages + Cardinality(new)
      BY <2>1, Zenon DEF mark_pages_usable
    <2>5. new = ((Inside(base, length) \ {0}) \ managed_pages) \ allocated_pages
      BY <2>2, Zenon DEF Usable, page_is_reserved
    <2> HIDE DEF new
    <2>6. Sets'
      BY <1>2, <2>1, <2>3, <2>4, <2>5, Zenon DEF IInv, Sets
    <2>7. /\ managed_pages \ allocated_pages = managed_pages
          /\ managed_pages' \ allocated_pages' = managed_pages \cup new
          /\ managed_pages \cap new = {}
      BY <1>2, <2>4, <2>5, Zenon DEF IInv, Sets
    <2>8. Cardinality(managed_pages \cup new)
            = Cardinality(managed_pages) + Cardinality(new)
      <3>1. new \in SUBSET Pages /\ managed_pages \in SUBSET Pages
        BY <2>3, <2>5, Zenon DEF IInv, Sets
      <3>2. /\ IsFiniteSet(new) /\ IsFiniteSet(managed_pages)
            /\ Cardinality(new) \in Nat /\ Cardinality(managed_pages) \in Nat
        BY <3>1, PagesFinite, Zenon
      <3>3. Cardinality(managed_pages \cup new)
              = Cardinality(managed_pages) + Cardinality(new)
                  - Cardinality(managed_pages \cap new)
        BY <3>2, FS_Union, Zenon
      <3>4. Cardinality(managed_pages \cap new) = 0
        BY <2>7, FS_EmptySet, Zenon
      <3> QED  BY <3>2, <3>3, <3>4
    <2>9. Counts'
      BY <2>4, <2>7, <2>8, Zenon DEF IInv, Counts
    <2> QED  BY <2>6, <2>9, Zenon DEF IInv
  <1> QED  BY <1>1, <1>2, Zenon DEF MayChangeOwnership

(* Reserving a region: every page it touches leaves, free pages only. *)
LEMMA ReserveStep ==
  ASSUME IInv, NEW base \in Nat, NEW length \in Nat,
         pmm_reserve_region(base, length)
  PROVE  IInv'
  <1> DEFINE clip == clip_to_physical(base, length)
             pages == outward_page_span(clip.base, clip.end)
             touched == Touched(base, length)
  <1>1. CASE ~ MayChangeOwnership \/ ~ clip.ok
    BY <1>1, UnchangedStep, Zenon DEF pmm_reserve_region, refuse
  <1>2. CASE ~ ownership_frozen /\ clip.ok
    <2>1. /\ mark_pages_reserved(pages)
          /\ claimed' = claimed \cup touched
          /\ UNCHANGED <<ownership_frozen, described, owned>>
      BY <1>2, Zenon DEF pmm_reserve_region, MayChangeOwnership, Touched
    <2>2. pages = touched
      BY <1>2, OutwardSpan, Zenon
    <2>3. touched \subseteq Pages
      BY Zenon DEF Touched
    <2>4. Reservable(pages) = touched
      BY <1>2, <2>2, Zenon DEF Reservable, IInv, Sets
    <2>5. /\ managed_pages' = managed_pages \ touched
          /\ allocated_pages' = allocated_pages \cup touched
          /\ total_pages' = total_pages - Cardinality(touched \cap managed_pages)
          /\ free_pages' = free_pages - Cardinality(touched \cap managed_pages)
      BY <2>1, <2>4, Zenon DEF mark_pages_reserved
    <2> HIDE DEF touched
    <2>6. Sets'
      BY <1>2, <2>1, <2>3, <2>5, Zenon DEF IInv, Sets
    <2>7. /\ managed_pages \ allocated_pages = managed_pages
          /\ managed_pages' \ allocated_pages' = managed_pages \ touched
          /\ touched \cap managed_pages = managed_pages \cap touched
      BY <1>2, <2>5, Zenon DEF IInv, Sets
    <2>8. Cardinality(managed_pages \ touched)
            = Cardinality(managed_pages) - Cardinality(managed_pages \cap touched)
      <3>1. IsFiniteSet(managed_pages)
        BY PagesFinite, Zenon DEF IInv, Sets
      <3> QED  BY <3>1, FS_Difference, Zenon
    <2>9. Counts'
      BY <2>5, <2>7, <2>8, Zenon DEF IInv, Counts
    <2> QED  BY <2>6, <2>9, Zenon DEF IInv
  <1> QED  BY <1>1, <1>2, Zenon DEF MayChangeOwnership

LEMMA AllocStep ==
  ASSUME IInv, pmm_alloc_page
  PROVE  IInv'
  <1> DEFINE free == managed_pages \ allocated_pages
             page == CHOOSE p \in free : \A q \in free : p <= q
  <1>1. CASE free_pages = 0 \/ free = {}
    BY <1>1, Zenon DEF pmm_alloc_page, IInv, Sets, Counts, history
  <1>2. CASE ~ (free_pages = 0 \/ free = {})
    <2>1. /\ allocated_pages' = allocated_pages \cup {page}
          /\ free_pages' = free_pages - 1
          /\ owned' = owned \cup {page}
          /\ ownership_frozen' = TRUE
          /\ UNCHANGED <<managed_pages, total_pages, described, claimed>>
      BY <1>2, Zenon DEF pmm_alloc_page
    <2>2. page \in free
      <3>1. free \in SUBSET Nat
        BY Sizes DEF IInv, Sets, Pages
      <3>2. \E p \in free : \A q \in free : p <= q
        BY <1>2, <3>1, LeastPage, Zenon
      <3> QED  BY <3>2, Zenon
    <2> HIDE DEF page
    <2>3. Sets'
      BY <2>1, <2>2, Zenon DEF IInv, Sets
    <2>4. managed_pages' \ allocated_pages' = free \ {page}
      BY <2>1, Zenon
    <2>5. Cardinality(free \ {page}) = Cardinality(free) - 1
      <3>1. IsFiniteSet(free)
        BY PagesFinite, Zenon DEF IInv, Sets
      <3> QED  BY <2>2, <3>1, FS_RemoveElement, Zenon
    <2>6. Counts'
      BY <2>1, <2>4, <2>5, Zenon DEF IInv, Counts
    <2> QED  BY <2>3, <2>6, Zenon DEF IInv
  <1> QED  BY <1>1, <1>2, Zenon

LEMMA FreeStep ==
  ASSUME IInv, NEW physical_address \in Nat, pmm_free_page(physical_address)
  PROVE  IInv'
  <1> DEFINE page == physical_address \div PMM_PAGE_SIZE
             refused == \/ physical_address = 0
                        \/ physical_address % PMM_PAGE_SIZE # 0
                        \/ physical_address > (PMM_PAGE_COUNT - 1) * PMM_PAGE_SIZE
                        \/ page \notin managed_pages \/ page \notin allocated_pages
  <1>1. CASE refused
    BY <1>1, UnchangedStep, Zenon DEF pmm_free_page, refuse
  <1>2. CASE ~ refused
    <2>1. /\ allocated_pages' = allocated_pages \ {page}
          /\ free_pages' = free_pages + 1
          /\ owned' = owned \ {page}
          /\ UNCHANGED <<managed_pages, total_pages, ownership_frozen,
                         described, claimed>>
      BY <1>2, Zenon DEF pmm_free_page
    <2>2. page \in managed_pages /\ page \in allocated_pages
      BY <1>2, Zenon
    <2> HIDE DEF page, refused
    <2>3. Sets'
      BY <2>1, <2>2, Zenon DEF IInv, Sets
    <2> DEFINE free == managed_pages \ allocated_pages
    <2>4. managed_pages' \ allocated_pages' = free \cup {page} /\ page \notin free
      BY <2>1, <2>2, Zenon
    <2>5. Cardinality(free \cup {page}) = Cardinality(free) + 1
      <3>1. IsFiniteSet(free)
        BY PagesFinite, Zenon DEF IInv, Sets
      <3> QED  BY <2>4, <3>1, FS_AddElement, Zenon
    <2>6. Counts'
      BY <2>1, <2>4, <2>5, Zenon DEF IInv, Counts
    <2> QED  BY <2>3, <2>6, Zenon DEF IInv
  <1> QED  BY <1>1, <1>2, Zenon

LEMMA NextStep == IInv /\ [Next]_vars => IInv'
  <1> SUFFICES ASSUME IInv, [Next]_vars PROVE IInv'
    BY Zenon
  <1>1. Addresses \subseteq Nat
    BY Sizes DEF Addresses
  <1>2. CASE pmm_reset
    BY <1>2, ResetStep, Zenon
  <1>3. CASE \E base, length \in Addresses : pmm_add_usable_region(base, length)
    BY <1>1, <1>3, AddStep, Zenon
  <1>4. CASE \E base, length \in Addresses : pmm_reserve_region(base, length)
    BY <1>1, <1>4, ReserveStep, Zenon
  <1>5. CASE pmm_alloc_page
    BY <1>5, AllocStep, Zenon
  <1>6. CASE \E physical_address \in Addresses : pmm_free_page(physical_address)
    BY <1>1, <1>6, FreeStep, Zenon
  <1>7. CASE UNCHANGED vars
    BY <1>7, UnchangedStep, Zenon DEF vars
  <1> QED  BY <1>2, <1>3, <1>4, <1>5, <1>6, <1>7, Zenon DEF Next

(* After any sequence of pmm_reset, pmm_add_usable_region,                 *)
(* pmm_reserve_region, pmm_alloc_page and pmm_free_page, the managed       *)
(* bitmap is exactly what the regions describe: a page wholly inside an    *)
(* added one and not touched by a reserved one.                            *)
THEOREM OwnershipIsExact == Spec => []OwnershipExact
  <1>1. IInv => OwnershipExact
    BY Zenon DEF IInv, Sets, OwnershipExact
  <1> QED  BY InitStep, NextStep, <1>1, PTL DEF Spec

(* The counters pmm_get_stats reports are the sizes of the bitmaps, and a  *)
(* managed page is marked allocated exactly when a caller owns it.         *)
THEOREM CountsAgree == Spec => []CountsMatchBitmaps
  <1>1. IInv => CountsMatchBitmaps
    BY Zenon DEF IInv, Sets, Counts, CountsMatchBitmaps
  <1> QED  BY InitStep, NextStep, <1>1, PTL DEF Spec

-----------------------------------------------------------------------------
(***************************************************************************)
(* The memory map.  EndOf is a recursive function; that it adds up the     *)
(* records is shown from its equation with a least counterexample, which   *)
(* needs only that a set of numbers has a least element.                   *)
(***************************************************************************)
LEMMA RecordType ==
  ASSUME NEW b \in BootRecords, NEW k \in Nat
  PROVE  /\ Entry(b, k).size \in 0 .. UINT32_MAX /\ Entry(b, k).type \in Nat
         /\ Entry(b, k).base \in 0 .. UINT64_MAX /\ Entry(b, k).length \in 0 .. UINT64_MAX
         /\ UINT32_MAX \in Nat /\ UINT64_MAX \in Nat /\ WordSize \in Nat \ {0}
         /\ b.mmap_addr \in 0 .. UINT32_MAX /\ b.mmap_length \in 0 .. UINT32_MAX
         /\ b.address \in 0 .. UINT32_MAX
  <1> DEFINE Region == [size : 0 .. UINT32_MAX, type : Nat,
                        base : 0 .. UINT64_MAX, length : 0 .. UINT64_MAX]
             n == Len(b.records)
  <1>1. b.records \in Seq(Region) /\ b.records # << >>
    BY BootAssumption, Zenon
  <1> HIDE DEF Region
  <1>2. n \in Nat \ {0} /\ \A i \in 1 .. n : b.records[i] \in Region
    BY <1>1
  <1>3. (k % n) + 1 \in 1 .. n
    <2> HIDE DEF n
    <2>1. k % n \in 0 .. n - 1
      BY <1>2
    <2> QED  BY <1>2, <2>1
  <1>4. Entry(b, k) \in Region
    BY <1>2, <1>3, Zenon DEF Entry
  <1> QED  BY <1>4, BootAssumption, MultibootAssumption, Zenon DEF Region

SizeOf(b, k) == Entry(b, k).size + WordSize

Adds(b, f, n) == /\ f \in [0 .. n -> Nat] /\ f[0] = 0
                 /\ \A k \in 0 .. n - 1 : f[k + 1] = f[k] + SizeOf(b, k)

LEMMA SizeType ==
  ASSUME NEW b \in BootRecords, NEW k \in Nat
  PROVE  SizeOf(b, k) \in Nat \ {0}
  BY RecordType DEF SizeOf

LEMMA SumExists ==
  ASSUME NEW b \in BootRecords, NEW n \in Nat
  PROVE  \E f : Adds(b, f, n)
  <1> DEFINE T == {m \in Nat : ~ \E f : Adds(b, f, m)}
  <1> SUFFICES ASSUME T # {} PROVE FALSE
    BY Zenon
  <1>1. PICK m \in T : \A q \in T : m <= q
    BY LeastPage, Zenon
  <1>2. m \in Nat /\ ~ \E f : Adds(b, f, m)
    BY Zenon
  <1>3. CASE m = 0
    <2> DEFINE f == [k \in 0 .. 0 |-> 0]
    <2>1. Adds(b, f, 0)
      BY DEF Adds
    <2> QED  BY <1>2, <1>3, <2>1, Zenon
  <1>4. CASE m # 0
    <2>1. m - 1 \in Nat /\ m - 1 \notin T
      BY <1>1, <1>2, <1>4
    <2>2. PICK f : Adds(b, f, m - 1)
      BY <2>1, Zenon
    <2> DEFINE s == SizeOf(b, m - 1)
    <2>3. s \in Nat
      BY <2>1, SizeType, Zenon
    <2> HIDE DEF s
    <2> DEFINE g == [k \in 0 .. m |-> IF k = m THEN f[m - 1] + s ELSE f[k]]
    <2>4. g \in [0 .. m -> Nat] /\ g[0] = 0
      BY <1>2, <1>4, <2>2, <2>3 DEF Adds
    <2>5. ASSUME NEW k \in 0 .. m - 1 PROVE g[k + 1] = g[k] + SizeOf(b, k)
      <3>1. CASE k = m - 1
        BY <1>2, <2>1, <3>1 DEF s
      <3>2. CASE k # m - 1
        <4>1. k \in 0 .. (m - 1) - 1 /\ k + 1 \in 0 .. m /\ k + 1 # m /\ k # m
          BY <1>2, <3>2
        <4>2. f[k + 1] = f[k] + SizeOf(b, k)
          BY <2>2, <4>1, Zenon DEF Adds
        <4> QED  BY <4>1, <4>2
      <3> QED  BY <3>1, <3>2, Zenon
    <2>6. Adds(b, g, m)
      BY <2>4, <2>5, Zenon DEF Adds
    <2> QED  BY <1>2, <2>6, Zenon
  <1> QED  BY <1>3, <1>4, Zenon

(* Two solutions of the equation agree where both are defined. *)
LEMMA SumUnique ==
  ASSUME NEW b \in BootRecords, NEW m \in Nat, NEW f, Adds(b, f, m), NEW n \in 0 .. m,
         NEW g, g[0] = 0, \A k \in 0 .. n - 1 : g[k + 1] = g[k] + SizeOf(b, k)
  PROVE  \A k \in 0 .. n : g[k] = f[k]
  <1> DEFINE T == {k \in 0 .. n : g[k] # f[k]}
  <1> SUFFICES ASSUME T # {} PROVE FALSE
    BY Zenon
  <1>0. T \in SUBSET Nat
    OBVIOUS
  <1>1. PICK k \in T : \A q \in T : k <= q
    <2> HIDE DEF T
    <2> QED  BY <1>0, LeastPage, Zenon
  <1>2. k \in 0 .. n /\ g[k] # f[k]
    BY Zenon
  <1>3. k # 0
    BY <1>2, Zenon DEF Adds
  <1> DEFINE j == k - 1
  <1>4. j \in 0 .. n - 1 /\ j \in 0 .. n /\ j \in 0 .. m - 1 /\ j \notin T /\ k = j + 1
    BY <1>1, <1>2, <1>3
  <1>5. g[j] = f[j]
    BY <1>4, Zenon
  <1> HIDE DEF j
  <1>6. g[j + 1] = g[j] + SizeOf(b, j) /\ f[j + 1] = f[j] + SizeOf(b, j)
    BY <1>4, Zenon DEF Adds
  <1> QED  BY <1>2, <1>4, <1>5, <1>6, Zenon

(* The sum EndOf computes, by its equation. *)
LEMMA EndOfIsSum ==
  ASSUME NEW b \in BootRecords, NEW n \in Nat, NEW f, Adds(b, f, n)
  PROVE  EndOf(b, n) = f[n]
  <1> DEFINE Solves(g) ==
        g = [k \in 0 .. n |->
               IF k = 0 THEN 0 ELSE g[k - 1] + (Entry(b, k - 1).size + WordSize)]
  <1>1. Solves(f)
    <2> DEFINE h == [k \in 0 .. n |->
               IF k = 0 THEN 0 ELSE f[k - 1] + (Entry(b, k - 1).size + WordSize)]
    <2>1. ASSUME NEW k \in 0 .. n PROVE f[k] = h[k]
      <3>1. CASE k = 0
        BY <3>1, Zenon DEF Adds
      <3>2. CASE k # 0
        <4> DEFINE j == k - 1
        <4>1. j \in 0 .. n - 1 /\ k = j + 1 /\ j \in Nat /\ j \in 0 .. n
          BY <3>2
        <4>2. f[j + 1] = f[j] + SizeOf(b, j) /\ f[j] \in Nat
          BY <4>1, Zenon DEF Adds
        <4>3. Entry(b, j).size \in Nat /\ WordSize \in Nat
          BY <4>1, RecordType
        <4>4. h[k] = f[j] + (Entry(b, j).size + WordSize)
          BY <3>2, Zenon
        <4> HIDE DEF j, h
        <4> QED  BY <4>1, <4>2, <4>3, <4>4, Zenon DEF SizeOf
      <3> QED  BY <3>1, <3>2, Zenon
    <2>2. f \in [0 .. n -> Nat]
      BY Zenon DEF Adds
    <2> QED  BY <2>1, <2>2, Zenon
  <1>2. ASSUME NEW g, Solves(g) PROVE g[n] = f[n]
    <2>1. g[0] = 0
      BY <1>2
    <2>2. ASSUME NEW k \in 0 .. n - 1 PROVE g[k + 1] = g[k] + SizeOf(b, k)
      <3>1. k + 1 \in 0 .. n /\ k + 1 # 0 /\ (k + 1) - 1 = k /\ k \in Nat
        OBVIOUS
      <3>2. g[k + 1] = g[(k + 1) - 1] + (Entry(b, (k + 1) - 1).size + WordSize)
        BY <1>2, <3>1, Zenon
      <3> QED  BY <3>1, <3>2, Zenon DEF SizeOf
    <2> QED  BY <2>1, <2>2, SumUnique
  <1> QED  BY <1>1, <1>2, Zenon DEF EndOf

LEMMA EndOfStep ==
  ASSUME NEW b \in BootRecords, NEW n \in Nat
  PROVE  /\ EndOf(b, 0) = 0 /\ EndOf(b, n) \in Nat
         /\ EndOf(b, n + 1) = EndOf(b, n) + SizeOf(b, n)
  <1>1. PICK f : Adds(b, f, n + 1)
    BY SumExists
  <1>2. PICK g : Adds(b, g, n)
    BY SumExists, Zenon
  <1>3. PICK h : Adds(b, h, 0)
    BY SumExists, Zenon
  <1>4. EndOf(b, n + 1) = f[n + 1] /\ EndOf(b, n) = g[n] /\ EndOf(b, 0) = h[0]
    BY <1>1, <1>2, <1>3, EndOfIsSum
  <1>5. g[n] = f[n]
    <2>1. n + 1 \in Nat /\ n \in 0 .. n + 1
      OBVIOUS
    <2>2. g[0] = 0 /\ \A k \in 0 .. n - 1 : g[k + 1] = g[k] + SizeOf(b, k)
      BY <1>2, Zenon DEF Adds
    <2>3. \A k \in 0 .. n : g[k] = f[k]
      BY <1>1, <2>1, <2>2, SumUnique
    <2> QED  BY <2>3
  <1>6. f[n + 1] = f[n] + SizeOf(b, n)
    BY <1>1 DEF Adds
  <1>7. g[n] \in Nat /\ h[0] = 0
    BY <1>2, <1>3 DEF Adds
  <1> QED  BY <1>4, <1>5, <1>6, <1>7, Zenon

(* Records are not empty: the ends grow, at least by one a record. *)
LEMMA EndOfGrows ==
  ASSUME NEW b \in BootRecords, NEW m \in Nat, NEW n \in Nat, m < n
  PROVE  EndOf(b, m + 1) <= EndOf(b, n) /\ EndOf(b, m) < EndOf(b, n) /\ n <= EndOf(b, n)
  <1> DEFINE T == {k \in Nat : ~ (/\ m < k => EndOf(b, m + 1) <= EndOf(b, k)
                                  /\ k <= EndOf(b, k))}
  <1>1. T = {}
    <2> SUFFICES ASSUME T # {} PROVE FALSE
      BY Zenon
    <2>1. PICK k \in T : \A q \in T : k <= q
      <3>1. T \in SUBSET Nat
        BY Zenon
      <3> HIDE DEF T
      <3> QED  BY <3>1, LeastPage, Zenon
    <2>2. k \in Nat /\ ~ (/\ m < k => EndOf(b, m + 1) <= EndOf(b, k)
                          /\ k <= EndOf(b, k))
      BY Zenon
    <2>3. k # 0
      BY <2>2, EndOfStep
    <2> DEFINE j == k - 1
    <2>4. j \in Nat /\ k = j + 1 /\ j \notin T
      BY <2>1, <2>2, <2>3
    <2>5. (m < j => EndOf(b, m + 1) <= EndOf(b, j)) /\ j <= EndOf(b, j)
      BY <2>4, Zenon
    <2>6. EndOf(b, j + 1) = EndOf(b, j) + SizeOf(b, j) /\ EndOf(b, j) \in Nat
          /\ SizeOf(b, j) \in Nat \ {0} /\ EndOf(b, m + 1) \in Nat
      BY <2>4, EndOfStep, SizeType
    <2> HIDE DEF j
    <2>7. m < k => m = j \/ m < j
      BY <2>4
    <2>8. m = j => EndOf(b, m + 1) = EndOf(b, k)
      BY <2>4, Zenon
    <2> QED  BY <2>2, <2>4, <2>5, <2>6, <2>7, <2>8
  <1>2. EndOf(b, m + 1) <= EndOf(b, n) /\ n <= EndOf(b, n)
    BY <1>1, Zenon
  <1>3. EndOf(b, m + 1) = EndOf(b, m) + SizeOf(b, m) /\ EndOf(b, m) \in Nat
        /\ SizeOf(b, m) \in Nat \ {0} /\ EndOf(b, n) \in Nat
    BY EndOfStep, SizeType, Zenon
  <1> QED  BY <1>2, <1>3

(* A map whose records step over its end, or with a record that is not     *)
(* sound before its end, is not well formed.                               *)
LEMMA NotTiled ==
  ASSUME NEW b \in BootRecords, NEW c \in Nat, EndOf(b, c) < b.mmap_length,
         EndOf(b, c + 1) > b.mmap_length \/ ~ Sound(Entry(b, c))
  PROVE  ~ WellFormed(b)
  <1> SUFFICES ASSUME WellFormed(b) PROVE FALSE
    BY Zenon
  <1>1. b.mmap_length \in Nat
    BY RecordType
  <1>2. PICK n \in 1 .. b.mmap_length :
          EndOf(b, n) = b.mmap_length /\ \A i \in 0 .. n - 1 : Sound(Entry(b, i))
    BY Zenon DEF WellFormed
  <1>3. n \in Nat /\ EndOf(b, c) \in Nat /\ EndOf(b, n) \in Nat /\ EndOf(b, c + 1) \in Nat
    BY <1>1, EndOfStep
  <1>4. n < c => EndOf(b, n) < EndOf(b, c)
    BY <1>3, EndOfGrows, Zenon
  <1>5. c < n
    BY <1>1, <1>2, <1>3, <1>4
  <1>6. EndOf(b, c + 1) <= EndOf(b, n)
    BY <1>3, <1>5, EndOfGrows, Zenon
  <1>7. c \in 0 .. n - 1
    BY <1>3, <1>5
  <1> QED  BY <1>1, <1>2, <1>3, <1>6, <1>7

(* The number of records of a map that is tiled. *)
LEMMA RecordsAre ==
  ASSUME NEW b \in BootRecords, NEW c \in Nat \ {0}, EndOf(b, c) = b.mmap_length
  PROVE  c \in 1 .. b.mmap_length /\ Records(b) = c
  <1>1. 0 < c /\ 0 \in Nat /\ c \in Nat
    OBVIOUS
  <1>2. c <= EndOf(b, c)
    BY <1>1, EndOfGrows, Zenon
  <1>3. b.mmap_length \in Nat
    BY RecordType
  <1>4. c \in 1 .. b.mmap_length
    BY <1>2, <1>3
  <1>5. ASSUME NEW n \in 1 .. b.mmap_length, EndOf(b, n) = b.mmap_length PROVE n = c
    <2>1. n \in Nat
      BY <1>3
    <2>2. n < c => EndOf(b, n) < EndOf(b, c)
      BY <2>1, EndOfGrows, Zenon
    <2>3. c < n => EndOf(b, c) < EndOf(b, n)
      BY <2>1, EndOfGrows, Zenon
    <2> QED  BY <1>3, <1>5, <2>1, <2>2, <2>3
  <1> QED  BY <1>4, <1>5, Zenon DEF Records

(* What holds of the walk in progress. *)
Walk == [cursor : Nat, count : Nat, result : {"none", "true", "false"}, read : Nat]

Walked(b, w) ==
  /\ w \in Walk /\ validate_multiboot_info(b)
  /\ w.read <= b.mmap_addr + b.mmap_length
  /\ \A i \in 0 .. w.count - 1 : Sound(Entry(b, i))
  /\ w.result = "none" => /\ w.cursor = b.mmap_addr + EndOf(b, w.count)
                          /\ EndOf(b, w.count) <= b.mmap_length
  /\ w.result = "true" => w.count # 0 /\ EndOf(b, w.count) = b.mmap_length

LEMMA MapEnd ==
  ASSUME NEW b \in BootRecords, validate_multiboot_info(b)
  PROVE  /\ b.mmap_addr \in Nat \ {0} /\ b.mmap_length \in Nat \ {0}
         /\ b.mmap_addr + b.mmap_length <= UINT32_MAX /\ UINT32_MAX \in Nat
         /\ mmap_end(b) = b.mmap_addr + b.mmap_length
  <1>1. b.mmap_addr \in 0 .. UINT32_MAX /\ b.mmap_length \in 0 .. UINT32_MAX
        /\ UINT32_MAX \in Nat
    BY RecordType, Zenon
  <1>2. b.mmap_addr # 0 /\ b.mmap_length # 0 /\ b.mmap_addr <= UINT32_MAX - b.mmap_length
    BY Zenon DEF validate_multiboot_info
  <1> DEFINE e == b.mmap_addr + b.mmap_length
  <1>3. e \in Nat /\ e < UINT32_MAX + 1
    BY <1>1, <1>2
  <1> HIDE DEF e
  <1>4. e % (UINT32_MAX + 1) = e
    BY <1>1, <1>3
  <1> QED  BY <1>1, <1>2, <1>3, <1>4 DEF mmap_end, e

LEMMA WalkStarts ==
  ASSUME NEW b \in BootRecords, validate_multiboot_info(b)
  PROVE  Walked(b, WalkStart(b)) /\ WalkStart(b) # NoWalk /\ WalkStart(b).count = 0
         /\ WalkStart(b).result = "none"
  <1>1. WalkStart(b).cursor # NoWalk.cursor
    BY MapEnd, Zenon DEF WalkStart, NoWalk
  <1>2. EndOf(b, 0) = 0
    BY EndOfStep, Zenon
  <1>3. WalkStart(b) \in Walk
    BY MapEnd, Zenon DEF WalkStart, Walk
  <1> QED  BY <1>1, <1>2, <1>3, MapEnd DEF Walked, WalkStart

(* The quantities of an iteration. *)
LEMMA Iteration ==
  ASSUME NEW b \in BootRecords, NEW w, Walked(b, w), w.result = "none"
  PROVE  /\ w.count \in Nat /\ EndOf(b, w.count) \in Nat
         /\ EndOf(b, w.count + 1) = EndOf(b, w.count) + SizeOf(b, w.count)
         /\ mmap_end(b) - w.cursor = b.mmap_length - EndOf(b, w.count)
         /\ (w.cursor >= mmap_end(b) <=> EndOf(b, w.count) = b.mmap_length)
         /\ (w.cursor < mmap_end(b) <=> EndOf(b, w.count) < b.mmap_length)
         /\ w.count <= EndOf(b, w.count)
  <1>1. w.count \in Nat
    BY Zenon DEF Walked, Walk
  <1>2. EndOf(b, w.count) \in Nat
        /\ EndOf(b, w.count + 1) = EndOf(b, w.count) + SizeOf(b, w.count)
    BY <1>1, EndOfStep, Zenon
  <1>3. w.count <= EndOf(b, w.count)
    <2>1. CASE w.count = 0
      BY <1>2, <2>1
    <2>2. CASE 0 < w.count
      BY <1>1, <2>2, EndOfGrows, Zenon
    <2> QED  BY <1>1, <2>1, <2>2
  <1>4. w.cursor = b.mmap_addr + EndOf(b, w.count) /\ EndOf(b, w.count) <= b.mmap_length
        /\ validate_multiboot_info(b)
    BY Zenon DEF Walked
  <1>5. b.mmap_addr \in Nat /\ b.mmap_length \in Nat
        /\ mmap_end(b) = b.mmap_addr + b.mmap_length
    BY <1>4, MapEnd, Zenon
  <1> QED  BY <1>1, <1>2, <1>3, <1>4, <1>5

(* A record that the loop accepts is sound and ends in the map. *)
LEMMA RecordAccepted ==
  ASSUME NEW b \in BootRecords, NEW w, Walked(b, w), w.result = "none", AtRecord(b, w)
  PROVE  /\ Walked(b, walk_advance(b, walk_check(b, w)))
         /\ walk_advance(b, walk_check(b, w)).count = w.count + 1
         /\ walk_advance(b, walk_check(b, w)).result = "none"
         /\ walk_advance(b, walk_check(b, w)).cursor # 0
         /\ Walked(b, Returns(walk_check(b, w), "false"))
         /\ Returns(walk_check(b, w), "false").result = "false"
         /\ Sound(Entry(b, w.count))
  <1> DEFINE c == walk_check(b, w)
             entry == Entry(b, w.count)
             n == EndOf(b, w.count)
             M == MULTIBOOT_MMAP_MIN_PAYLOAD_SIZE
             r == w.cursor + (WordSize + M)
  <1>1. /\ w.count \in Nat /\ n \in Nat /\ EndOf(b, w.count + 1) = n + SizeOf(b, w.count)
        /\ mmap_end(b) - w.cursor = b.mmap_length - n
        /\ ~ (w.cursor >= mmap_end(b))
    BY Iteration DEF AtRecord
  <1>2. /\ c = Returns(Reads(w, WordSize + M), "none")
        /\ ~ (mmap_end(b) - w.cursor < WordSize)
        /\ ~ (entry.size < M)
        /\ ~ (entry.size > UINT32_MAX - WordSize)
        /\ Fits(entry.size + WordSize, mmap_end(b) - w.cursor)
        /\ entry.length # 0
        /\ ~ (entry.base > UINT64_MAX - entry.length)
        /\ w.count # UINT32_MAX
    <2>1. c.result = "none"
      BY Zenon DEF AtRecord
    <2>2. w \in Walk
      BY Zenon DEF Walked
    <2> QED  BY <1>1, <2>1, <2>2, Zenon DEF walk_check, Returns, Reads, Walk
  <1>3. /\ entry.size \in Nat /\ entry.length \in Nat /\ entry.base \in Nat
        /\ WordSize \in Nat \ {0} /\ UINT32_MAX \in Nat /\ UINT64_MAX \in Nat /\ M \in Nat
        /\ b.mmap_addr \in Nat /\ b.mmap_length \in Nat
        /\ b.mmap_addr + b.mmap_length <= UINT32_MAX
    BY <1>1, RecordType, MapEnd, MultibootAssumption DEF Walked
  <1>4. Sound(entry)
    BY <1>2, <1>3 DEF Sound
  <1>5. n + SizeOf(b, w.count) <= b.mmap_length /\ SizeOf(b, w.count) = entry.size + WordSize
    BY <1>1, <1>2, <1>3 DEF Fits, SizeOf
  <1>6. w \in Walk /\ w.cursor = b.mmap_addr + n
    BY Zenon DEF Walked
  <1>7. r \in Nat /\ r <= b.mmap_addr + b.mmap_length
    BY <1>1, <1>2, <1>3, <1>5, <1>6
  <1>8. c = [w EXCEPT !.read = r] /\ c \in Walk /\ c.count = w.count /\ c.cursor = w.cursor
        /\ c.read = r /\ c.result = "none"
    <2> HIDE DEF r
    <2>1. c = [w EXCEPT !.read = r]
      BY <1>2, <1>6, Zenon DEF Returns, Reads, Walk, r
    <2> HIDE DEF c
    <2> QED  BY <1>6, <1>7, <2>1, Zenon DEF Walk
  <1> HIDE DEF c, r
  <1> DEFINE x == w.cursor + entry.size + WordSize
  <1>9. x % (UINT32_MAX + 1) = x /\ x = b.mmap_addr + EndOf(b, w.count + 1) /\ x \in Nat
    <2>1. x = b.mmap_addr + (n + SizeOf(b, w.count)) /\ x \in Nat
      BY <1>1, <1>3, <1>5, <1>6
    <2>2. x < UINT32_MAX + 1
      BY <1>1, <1>3, <1>5, <2>1
    <2> HIDE DEF x
    <2> QED  BY <1>1, <1>3, <2>1, <2>2
  <1> DEFINE a == walk_advance(b, c)
  <1>10. a = [c EXCEPT !.count = w.count + 1, !.cursor = x]
    BY <1>8, <1>9, Zenon DEF walk_advance
  <1>11. a \in Walk /\ a.count = w.count + 1 /\ a.cursor = x /\ a.read = r /\ a.result = "none"
    <2> HIDE DEF a, x, entry, n, M
    <2>1. c \in Walk /\ c.read = r /\ c.result = "none" /\ x \in Nat /\ w.count + 1 \in Nat
      BY <1>1, <1>8, <1>9
    <2>2. a \in Walk
      BY <1>10, <2>1, Zenon DEF Walk
    <2>3. a.count = w.count + 1 /\ a.cursor = x /\ a.read = c.read /\ a.result = c.result
      BY <1>10, <2>1, Zenon DEF Walk
    <2> QED  BY <2>1, <2>2, <2>3, Zenon
  <1> HIDE DEF a, x
  <1>12. x # 0
    BY <1>3, <1>1, <1>9, MapEnd, EndOfStep, SizeType, SMTT(30) DEF Walked
  <1>13. Walked(b, a)
    <2>1. \A i \in 0 .. a.count - 1 : Sound(Entry(b, i))
      <3>1. \A i \in 0 .. w.count - 1 : Sound(Entry(b, i))
        BY Zenon DEF Walked
      <3> QED  BY <1>1, <1>4, <1>11, <3>1
    <2>2. validate_multiboot_info(b)
      BY Zenon DEF Walked
    <2> QED  BY <1>1, <1>5, <1>7, <1>9, <1>11, <2>1, <2>2, Zenon DEF Walked
  <1> DEFINE f == Returns(c, "false")
  <1>14. f \in Walk /\ f.count = w.count /\ f.read = r /\ f.result = "false"
    BY <1>8, Zenon DEF Walk, Returns
  <1> HIDE DEF f
  <1>15. Walked(b, f)
    BY <1>7, <1>14, Zenon DEF Walked
  <1> QED  BY <1>4, <1>11, <1>12, <1>13, <1>14, <1>15, Zenon DEF a, c, f

(* The iteration that leaves the loop: at the end of the map, or at a      *)
(* record that shows the map not to be well formed.                        *)
LEMMA WalkLeaves ==
  ASSUME NEW b \in BootRecords, NEW w, Walked(b, w), w.result = "none", ~ AtRecord(b, w)
  PROVE  /\ Walked(b, walk_check(b, w)) /\ walk_check(b, w).result # "none"
         /\ walk_check(b, w).count = w.count
         /\ walk_check(b, w).result = "false" => ~ WellFormed(b)
  <1> DEFINE c == walk_check(b, w)
             entry == Entry(b, w.count)
             n == EndOf(b, w.count)
             M == MULTIBOOT_MMAP_MIN_PAYLOAD_SIZE
             remaining == mmap_end(b) - w.cursor
             header == Reads(w, WordSize)
             whole == Reads(w, WordSize + M)
  <1>1. /\ w.count \in Nat /\ n \in Nat /\ EndOf(b, w.count + 1) = n + SizeOf(b, w.count)
        /\ remaining = b.mmap_length - n
        /\ (w.cursor >= mmap_end(b) <=> n = b.mmap_length)
        /\ (w.cursor < mmap_end(b) <=> n < b.mmap_length)
        /\ w.count <= n
    BY Iteration, Zenon
  <1>2. /\ entry.size \in Nat /\ entry.length \in Nat /\ entry.base \in Nat
        /\ WordSize \in Nat \ {0} /\ UINT32_MAX \in Nat /\ UINT64_MAX \in Nat /\ M \in Nat
        /\ b.mmap_addr \in Nat \ {0} /\ b.mmap_length \in Nat \ {0}
        /\ b.mmap_addr + b.mmap_length <= UINT32_MAX
    BY <1>1, RecordType, MapEnd, MultibootAssumption DEF Walked
  <1>3. w \in Walk /\ w.cursor = b.mmap_addr + n /\ n <= b.mmap_length
        /\ w.read <= b.mmap_addr + b.mmap_length
        /\ validate_multiboot_info(b) /\ \A i \in 0 .. w.count - 1 : Sound(Entry(b, i))
    BY Zenon DEF Walked
  <1>4. SizeOf(b, w.count) = entry.size + WordSize
    BY Zenon DEF SizeOf
  <1>5. ASSUME NEW s \in Nat, s <= remaining
        PROVE  /\ Reads(w, s) \in Walk /\ Reads(w, s).count = w.count
               /\ Reads(w, s).read <= b.mmap_addr + b.mmap_length
    <2>1. w.cursor + s \in Nat /\ w.cursor + s <= b.mmap_addr + b.mmap_length
      BY <1>1, <1>2, <1>3, <1>5
    <2> HIDE DEF remaining, n
    <2> QED  BY <1>3, <2>1, Zenon DEF Reads, Walk
  <1>6. ASSUME NEW v \in Walk, v.count = w.count, v.read <= b.mmap_addr + b.mmap_length,
               c = Returns(v, "false"), ~ WellFormed(b)
        PROVE  Walked(b, c) /\ c.result # "none" /\ c.count = w.count
    <2>1. c \in Walk /\ c.count = w.count /\ c.read = v.read /\ c.result = "false"
      BY <1>6, Zenon DEF Returns, Walk
    <2> HIDE DEF c
    <2> QED  BY <1>3, <1>6, <2>1, Zenon DEF Walked
  <1>7. CASE w.cursor >= mmap_end(b)
    <2>1. n = b.mmap_length /\ w.count # 0
      <3>1. n = b.mmap_length
        BY <1>1, <1>7, Zenon
      <3>2. EndOf(b, 0) = 0
        BY EndOfStep, Zenon
      <3> QED  BY <1>2, <3>1, <3>2, Zenon
    <2>2. c = Returns(w, "true")
      BY <1>7, <2>1, Zenon DEF walk_check
    <2>3. c \in Walk /\ c.count = w.count /\ c.read = w.read /\ c.result = "true"
      BY <1>3, <2>2, Zenon DEF Returns, Walk
    <2> HIDE DEF c
    <2>4. Walked(b, c)
      BY <1>3, <2>1, <2>3, Zenon DEF Walked
    <2> QED  BY <2>3, <2>4, Zenon DEF c
  <1>8. CASE w.cursor < mmap_end(b)
    <2>0. n < b.mmap_length /\ ~ (w.cursor >= mmap_end(b)) /\ c.result # "none"
      BY <1>1, <1>2, <1>8 DEF AtRecord
    <2>1. CASE remaining < WordSize
      <3>1. c = Returns(w, "false")
        BY <2>0, <2>1, Zenon DEF walk_check
      <3>2. EndOf(b, w.count + 1) > b.mmap_length
        BY <1>1, <1>2, <1>4, <2>1
      <3>3. ~ WellFormed(b)
        BY <1>1, <2>0, <3>2, NotTiled, Zenon
      <3> QED  BY <1>3, <1>6, <3>1, <3>3, Zenon
    <2> DEFINE ill == \/ entry.size < M \/ entry.size > UINT32_MAX - WordSize
                      \/ ~ Fits(entry.size + WordSize, remaining)
    <2>2. CASE ~ (remaining < WordSize) /\ ill
      <3>1. c = Returns(header, "false")
        BY <2>0, <2>2, Zenon DEF walk_check
      <3>2. ~ Sound(entry) \/ EndOf(b, w.count + 1) > b.mmap_length
        BY <1>1, <1>2, <1>4, <2>2 DEF Sound, Fits
      <3>3. ~ WellFormed(b)
        BY <1>1, <2>0, <3>2, NotTiled, Zenon
      <3>4. WordSize \in Nat /\ WordSize <= remaining
        BY <1>1, <1>2, <2>2
      <3> HIDE DEF remaining, c, header
      <3>5. /\ header \in Walk /\ header.count = w.count
            /\ header.read <= b.mmap_addr + b.mmap_length
        BY <1>5, <3>4, Zenon DEF header
      <3>6. Walked(b, c) /\ c.result # "none" /\ c.count = w.count
        BY <1>6, <3>1, <3>3, <3>5, Zenon
      <3> QED  BY <3>3, <3>6, Zenon DEF c
    <2>3. CASE ~ (remaining < WordSize) /\ ~ ill
      <3>0. WordSize + M \in Nat /\ WordSize + M <= remaining
        BY <1>1, <1>2, <2>3 DEF Fits
      <3> DEFINE bad == \/ entry.length = 0 \/ entry.base > UINT64_MAX - entry.length
                        \/ w.count = UINT32_MAX
      <3>1. c = IF bad THEN Returns(whole, "false") ELSE Returns(whole, "none")
        BY <2>0, <2>3, Zenon DEF walk_check
      <3>2. whole \in Walk
        BY <1>5, <3>0, Zenon
      <3>3. bad /\ c = Returns(whole, "false")
        <4>1. Returns(whole, "none").result = "none"
          BY <3>2, Zenon DEF Returns, Walk
        <4> QED  BY <2>0, <3>1, <4>1, Zenon
      <3>4. ~ Sound(entry)
        BY <1>1, <1>2, <2>0, <3>3 DEF Sound
      <3>5. ~ WellFormed(b)
        BY <1>1, <2>0, <3>4, NotTiled, Zenon
      <3> HIDE DEF remaining, c, whole
      <3>6. /\ whole \in Walk /\ whole.count = w.count
            /\ whole.read <= b.mmap_addr + b.mmap_length
        BY <1>5, <3>0, Zenon DEF whole
      <3>7. Walked(b, c) /\ c.result # "none" /\ c.count = w.count
        BY <1>6, <3>3, <3>5, <3>6, Zenon
      <3> QED  BY <3>5, <3>7, Zenon DEF c
    <2> QED  BY <2>1, <2>2, <2>3, Zenon
  <1> QED  BY <1>1, <1>2, <1>3, <1>7, <1>8

(* What a walk that returned true has established, and one that the        *)
(* validation of the information structure kept from starting.             *)
LEMMA WalkReturnsTrue ==
  ASSUME NEW b \in BootRecords, NEW w, Walked(b, w), w.result = "true"
  PROVE  WellFormed(b) /\ w.count = Records(b)
  <1>1. w.count \in Nat \ {0} /\ EndOf(b, w.count) = b.mmap_length
        /\ \A i \in 0 .. w.count - 1 : Sound(Entry(b, i))
    BY Zenon DEF Walked, Walk
  <1>2. w.count \in 1 .. b.mmap_length /\ Records(b) = w.count
    BY <1>1, RecordsAre, Zenon
  <1>3. validate_multiboot_info(b)
    BY Zenon DEF Walked
  <1>4. b.mmap_addr > 0 /\ b.mmap_addr + b.mmap_length <= UINT32_MAX
    BY <1>3, MapEnd
  <1>5. b.address \in 1 .. UINT32_MAX - InfoSize
    BY <1>3, RecordType, MultibootAssumption DEF validate_multiboot_info
  <1> QED
    BY <1>1, <1>2, <1>3, <1>4, <1>5, Zenon DEF WellFormed, validate_multiboot_info

LEMMA NotValidated ==
  ASSUME NEW b \in BootRecords, ~ validate_multiboot_info(b)
  PROVE  ~ WellFormed(b)
  <1>1. b.mmap_addr \in Nat /\ b.mmap_length \in Nat /\ b.address \in Nat
        /\ UINT32_MAX \in Nat /\ InfoSize \in Nat
    BY RecordType, MultibootAssumption
  <1> SUFFICES ASSUME WellFormed(b) PROVE FALSE
    BY Zenon
  <1>2. b.mmap_length # 0
    BY <1>1 DEF WellFormed
  <1> QED  BY <1>1, <1>2 DEF WellFormed, validate_multiboot_info

-----------------------------------------------------------------------------
(***************************************************************************)
(* The inductive invariant of the boot.  The map is judged once and for    *)
(* all by the first walk; the later walks repeat it on the same bytes and  *)
(* so come to the same end, which is why the pages described and claimed   *)
(* can be given by the number of records visited, and after the last walk  *)
(* by Records.  What the self-test relies on is kept with it.              *)
(***************************************************************************)
Reserving == {"reserve_low", "reserve_kernel", "reserve_info", "reserve_mmap"}
Testing == {"add", "reserve", "free", "free_again"}
Early == {"parse", "owned", "kernel_range", "validate"}
Ready == {"counts", "alloc", "ok"} \cup Testing
BootPlaces == Walks \cup Early \cup Reserving \cup Ready \cup {"failed"}

OwnedRanges(b) == <<[base |-> b.address, length |-> InfoSize],
                    [base |-> b.mmap_addr, length |-> b.mmap_length]>>

(* The pages the first n records add and reserve, and those of a set of    *)
(* ranges.                                                                 *)
AddedBy(b, n) == {p \in Pages : \E i \in 0 .. n - 1 :
                 /\ Entry(b, i).type = 1
                 /\ p \in Inside(Entry(b, i).base, Entry(b, i).length)}
ReservedBy(b, n) == {0} \cup {p \in Pages : \E i \in 0 .. n - 1 :
                 /\ Entry(b, i).type # 1
                 /\ p \in Touched(Entry(b, i).base, Entry(b, i).length)}
TouchedBy(ranges) == {p \in Pages : \E r \in ranges : p \in Touched(r.base, r.length)}

Done(b, place) ==
  CASE place = "reserve_low" -> {}
    [] place = "reserve_kernel" -> {LowMemory}
    [] place = "reserve_info" -> {LowMemory, Kernel}
    [] place = "reserve_mmap" -> {LowMemory, Kernel, OwnedRanges(b)[1]}
    [] OTHER -> {LowMemory, Kernel, OwnedRanges(b)[1], OwnedRanges(b)[2]}

MapOK ==
  /\ loaded \in BootRecords /\ at \in BootPlaces
  /\ at \in Walks /\ walk # NoWalk => Walked(loaded, walk)
  /\ at \notin Walks => walk = NoWalk
  /\ at \in Walks /\ walk.result = "false" => ~ WellFormed(loaded)
  /\ at \notin {"parse", "failed"} => WellFormed(loaded)
  /\ stage = "multiboot" => ~ WellFormed(loaded)

PlaceOK ==
  /\ at \notin {"parse", "owned", "failed"} => owned_ranges = OwnedRanges(loaded)
  /\ at \notin {"parse", "owned", "kernel_range", "failed"} => KernelEnd <= VMM_IDENTITY_LIMIT
  /\ at \notin Testing \cup {"ok", "failed"} => ~ ownership_frozen
  /\ at \in Testing \cup {"ok"} => ownership_frozen

PagesOK ==
  /\ at \in Early \/ (at = "visit" /\ walk = NoWalk) => described = {} /\ claimed = {0}
  /\ at = "visit" /\ walk # NoWalk =>
       described = AddedBy(loaded, walk.count) /\ claimed = ReservedBy(loaded, walk.count)
  /\ at \in Reserving \cup Ready =>
       /\ described = AddedBy(loaded, Records(loaded))
       /\ claimed = ReservedBy(loaded, Records(loaded)) \cup TouchedBy(Done(loaded, at))

TestOK ==
  /\ at = "alloc" => free_before = free_pages /\ free_pages # 0
  /\ at \in {"add", "reserve", "free"} =>
       /\ free_before \in Nat /\ free_pages = free_before - 1
       /\ \E p \in owned : p # 0 /\ allocated_page = PMM_PAGE_SIZE * p
  /\ at = "free_again" =>
       \E p \in managed_pages \ allocated_pages : allocated_page = PMM_PAGE_SIZE * p

(* The reasons for which boot_fail is called. *)
Justified ==
  at = "failed" =>
    \/ stage = "multiboot" /\ ~ WellFormed(loaded) /\ described = {} /\ claimed = {0}
    \/ stage = "kernel-range" /\ KernelEnd > VMM_IDENTITY_LIMIT
    \/ stage = "pmm-reserve" /\ managed_pages = {}

BInv == IInv /\ MapOK /\ PlaceOK /\ PagesOK /\ TestOK /\ Justified

LEMMA NoPages ==
  ASSUME NEW b
  PROVE  AddedBy(b, 0) = {} /\ ReservedBy(b, 0) = {0}
  <1>1. 0 .. 0 - 1 = {}
    OBVIOUS
  <1> QED  BY <1>1, Zenon DEF AddedBy, ReservedBy

LEMMA BootStart == BootInit => BInv
  <1> SUFFICES ASSUME BootInit PROVE BInv
    BY Zenon
  <1>1. IInv
    BY InitStep, Zenon DEF BootInit
  <1>2. MapOK
    BY Zenon DEF BootInit, MapOK, BootPlaces, Walks, NoWalk
  <1>3. PlaceOK /\ PagesOK /\ TestOK /\ Justified
    BY Zenon DEF BootInit, Init, PlaceOK, PagesOK, TestOK, Justified, Testing, Early, Reserving, Ready
  <1> QED  BY <1>1, <1>2, <1>3, Zenon DEF BInv

LEMMA BeginStep ==
  ASSUME BInv, walk_begin
  PROVE  BInv'
  <1> USE DEF BInv
  <1>1. IInv'
    BY UnchangedStep, Zenon DEF walk_begin, allocatorVars
  <1>2. /\ at \in Walks /\ walk = NoWalk /\ loaded' = loaded /\ loaded \in BootRecords
        /\ UNCHANGED <<ownership_frozen, described, claimed, free_pages>>
        /\ UNCHANGED <<owned_ranges, free_before, allocated_page>>
    BY Zenon DEF walk_begin, boot_fail, Goto, allocatorVars, pmmVars, history, locals, MapOK
  <1>3. CASE at # "visit" /\ ~ validate_multiboot_info(loaded)
    <2>1. ~ WellFormed(loaded)
      BY <1>2, <1>3, NotValidated, Zenon
    <2>2. at = "parse" /\ at' = "failed" /\ stage' = "multiboot" /\ walk' = NoWalk
      BY <1>2, <1>3, <2>1, Zenon DEF walk_begin, boot_fail, MapOK, StageOf, Walks
    <2>3. described = {} /\ claimed = {0}
      BY <2>2, Zenon DEF PagesOK, Early
    <2>4. MapOK'
      BY <1>2, <2>1, <2>2, Zenon DEF MapOK, BootPlaces, Walks
    <2> QED
      BY <1>1, <1>2, <2>1, <2>2, <2>3, <2>4, Zenon
      DEF PlaceOK, PagesOK, TestOK, Justified, Testing, Early, Reserving, Ready
  <1>4. CASE ~ (at # "visit" /\ ~ validate_multiboot_info(loaded))
    <2>1. validate_multiboot_info(loaded)
      BY <1>2, <1>4, NotValidated, Zenon DEF MapOK
    <2>2. at' = at /\ stage' = stage /\ walk' = WalkStart(loaded)
      BY <1>4, Zenon DEF walk_begin, Goto
    <2>3. Walked(loaded, walk') /\ walk' # NoWalk /\ walk'.count = 0 /\ walk'.result = "none"
      BY <1>2, <2>1, <2>2, WalkStarts, Zenon
    <2>4. MapOK'
      BY <1>2, <2>2, <2>3, Zenon DEF MapOK
    <2>5. PagesOK'
      <3>1. AddedBy(loaded, 0) = {} /\ ReservedBy(loaded, 0) = {0}
        BY NoPages, Zenon
      <3>2. at = "visit" => described = {} /\ claimed = {0}
        BY <1>2, Zenon DEF PagesOK
      <3>3. at \in Early => described = {} /\ claimed = {0}
        BY Zenon DEF PagesOK
      <3>4. at \notin Reserving \cup Ready
        BY <1>2, Zenon DEF Walks, Reserving, Ready, Testing
      <3> QED  BY <1>2, <2>2, <2>3, <3>1, <3>2, <3>3, <3>4, Zenon DEF PagesOK
    <2> QED
      BY <1>1, <1>2, <2>2, <2>4, <2>5, Zenon
      DEF PlaceOK, TestOK, Justified, Walks
  <1> QED  BY <1>3, <1>4, Zenon

(* Before ownership is frozen a region that fits the addresses is taken. *)
LEMMA FittingClip ==
  ASSUME NEW base \in Nat, NEW length \in Nat, base + length <= AddressMax
  PROVE  clip_to_physical(base, length).ok = TRUE
  BY Sizes DEF clip_to_physical

LEMMA AddAccepted ==
  ASSUME ~ ownership_frozen, NEW base \in Nat, NEW length \in Nat,
         base + length <= AddressMax, pmm_add_usable_region(base, length)
  PROVE  /\ ret' = TRUE /\ described' = described \cup Inside(base, length)
         /\ UNCHANGED <<ownership_frozen, claimed, owned>>
  BY FittingClip, Zenon DEF pmm_add_usable_region, MayChangeOwnership, Inside

LEMMA ReserveAccepted ==
  ASSUME ~ ownership_frozen, NEW base \in Nat, NEW length \in Nat,
         base + length <= AddressMax, pmm_reserve_region(base, length)
  PROVE  /\ ret' = TRUE /\ claimed' = claimed \cup Touched(base, length)
         /\ UNCHANGED <<ownership_frozen, described, owned>>
  BY FittingClip, Zenon DEF pmm_reserve_region, MayChangeOwnership, Touched

(* One more record, by its type. *)
LEMMA OneMoreAdded ==
  ASSUME NEW b, NEW n \in Nat, Entry(b, n).type = 1
  PROVE  /\ AddedBy(b, n + 1)
              = AddedBy(b, n) \cup Inside(Entry(b, n).base, Entry(b, n).length)
         /\ ReservedBy(b, n + 1) = ReservedBy(b, n)
  <1>1. 0 .. (n + 1) - 1 = (0 .. n - 1) \cup {n}
    OBVIOUS
  <1>2. Inside(Entry(b, n).base, Entry(b, n).length) \subseteq Pages
    BY Zenon DEF Inside
  <1> QED  BY <1>1, <1>2, Zenon DEF AddedBy, ReservedBy

LEMMA OneMoreReserved ==
  ASSUME NEW b, NEW n \in Nat, Entry(b, n).type # 1
  PROVE  /\ ReservedBy(b, n + 1)
              = ReservedBy(b, n) \cup Touched(Entry(b, n).base, Entry(b, n).length)
         /\ AddedBy(b, n + 1) = AddedBy(b, n)
  <1>1. 0 .. (n + 1) - 1 = (0 .. n - 1) \cup {n}
    OBVIOUS
  <1>2. Touched(Entry(b, n).base, Entry(b, n).length) \subseteq Pages
    BY Zenon DEF Touched
  <1> QED  BY <1>1, <1>2, Zenon DEF AddedBy, ReservedBy

LEMMA RecordStep ==
  ASSUME BInv, walk_record
  PROVE  BInv'
  <1> USE DEF BInv
  <1> DEFINE n == walk.count
             e == Entry(loaded, n)
  <1>1. /\ at \in Walks /\ walk # NoWalk /\ walk.result = "none" /\ AtRecord(loaded, walk)
        /\ at' = at /\ stage' = stage /\ loaded' = loaded /\ loaded \in BootRecords
        /\ UNCHANGED <<owned_ranges, free_before, allocated_page>>
        /\ Walked(loaded, walk)
    BY Zenon DEF walk_record, Goto, locals, MapOK
  <1>2. n \in Nat
    BY <1>1, Zenon DEF Walked, Walk
  <1>3. /\ Walked(loaded, walk_advance(loaded, walk_check(loaded, walk)))
        /\ walk_advance(loaded, walk_check(loaded, walk)).count = n + 1
        /\ walk_advance(loaded, walk_check(loaded, walk)).result = "none"
        /\ walk_advance(loaded, walk_check(loaded, walk)).cursor # 0
        /\ Sound(e)
    BY <1>1, RecordAccepted, Zenon
  <1>4. e.base \in Nat /\ e.length \in Nat /\ e.base + e.length <= AddressMax
    BY <1>1, <1>2, <1>3, RecordType, BootAssumption DEF Sound
  <1>5. ~ ownership_frozen
    BY <1>1, Zenon DEF PlaceOK, Testing, Walks
  <1> HIDE DEF e, n
  <1>6. /\ IInv' /\ ownership_frozen' = ownership_frozen
        /\ walk' = walk_advance(loaded, walk_check(loaded, walk))
        /\ at # "visit" => UNCHANGED <<described, claimed>>
        /\ at = "visit" /\ e.type = 1 =>
             described' = described \cup Inside(e.base, e.length) /\ claimed' = claimed
        /\ at = "visit" /\ e.type # 1 =>
             claimed' = claimed \cup Touched(e.base, e.length) /\ described' = described
    <2>1. CASE at # "visit"
      <3>1. UNCHANGED allocatorVars /\ walk' = walk_advance(loaded, walk_check(loaded, walk))
        BY <2>1, Zenon DEF walk_record, Visits
      <3> QED  BY <2>1, <3>1, UnchangedStep, Zenon DEF allocatorVars, pmmVars, history
    <2>2. CASE at = "visit" /\ e.type = 1
      <3>1. pmm_add_usable_region(e.base, e.length)
        BY <2>2, Zenon DEF walk_record, Visits, add_memory_region, e, n
      <3>2. /\ ret' = TRUE /\ described' = described \cup Inside(e.base, e.length)
            /\ UNCHANGED <<ownership_frozen, claimed, owned>>
        BY <1>4, <1>5, <3>1, AddAccepted, Zenon
      <3>3. IInv'
        BY <1>4, <3>1, AddStep, Zenon
      <3> QED  BY <2>2, <3>2, <3>3, Zenon DEF walk_record
    <2>3. CASE at = "visit" /\ e.type # 1
      <3>1. pmm_reserve_region(e.base, e.length)
        BY <2>3, Zenon DEF walk_record, Visits, add_memory_region, e, n
      <3>2. /\ ret' = TRUE /\ claimed' = claimed \cup Touched(e.base, e.length)
            /\ UNCHANGED <<ownership_frozen, described, owned>>
        BY <1>4, <1>5, <3>1, ReserveAccepted, Zenon
      <3>3. IInv'
        BY <1>4, <3>1, ReserveStep, Zenon
      <3> QED  BY <2>3, <3>2, <3>3, Zenon DEF walk_record
    <2> QED  BY <2>1, <2>2, <2>3, Zenon
  <1>7. walk' # NoWalk /\ walk'.result = "none" /\ walk'.count = n + 1
        /\ Walked(loaded, walk')
    BY <1>3, <1>6 DEF NoWalk
  <1>8. MapOK'
    BY <1>1, <1>7, Zenon DEF MapOK
  <1>9. PagesOK'
    <2>1. at = "visit" => described = AddedBy(loaded, n) /\ claimed = ReservedBy(loaded, n)
      BY <1>1, Zenon DEF PagesOK, n
    <2>2. at = "visit" => described' = AddedBy(loaded, n + 1) /\ claimed' = ReservedBy(loaded, n + 1)
      <3>1. CASE e.type = 1
        BY <1>2, <1>6, <2>1, <3>1, OneMoreAdded, Zenon DEF e
      <3>2. CASE e.type # 1
        BY <1>2, <1>6, <2>1, <3>2, OneMoreReserved, Zenon DEF e
      <3> QED  BY <3>1, <3>2, Zenon
    <2>3. at \in Early => at # "visit" /\ described = {} /\ claimed = {0}
      BY Zenon DEF PagesOK, Early
    <2>4. at \notin Reserving \cup Ready
      BY <1>1, Zenon DEF Walks, Reserving, Ready, Testing
    <2> QED  BY <1>1, <1>6, <1>7, <2>2, <2>3, <2>4, Zenon DEF PagesOK
  <1> QED
    BY <1>1, <1>5, <1>6, <1>8, <1>9, Zenon DEF PlaceOK, TestOK, Justified, Walks, Testing

LEMMA LeaveStep ==
  ASSUME BInv, walk_leave
  PROVE  BInv'
  <1> USE DEF BInv
  <1>1. /\ at \in Walks /\ walk # NoWalk /\ walk.result = "none" /\ ~ AtRecord(loaded, walk)
        /\ at' = at /\ stage' = stage /\ loaded' = loaded /\ loaded \in BootRecords
        /\ walk' = walk_check(loaded, walk)
        /\ UNCHANGED <<owned_ranges, free_before, allocated_page>>
        /\ UNCHANGED <<ownership_frozen, described, claimed>>
        /\ Walked(loaded, walk)
    BY Zenon DEF walk_leave, Goto, locals, MapOK, allocatorVars, pmmVars, history
  <1>2. IInv'
    BY UnchangedStep, Zenon DEF walk_leave, allocatorVars
  <1>3. /\ Walked(loaded, walk') /\ walk'.result # "none" /\ walk'.count = walk.count
        /\ walk'.result = "false" => ~ WellFormed(loaded)
    BY <1>1, WalkLeaves, Zenon
  <1>4. walk' # NoWalk
    BY <1>3 DEF NoWalk
  <1>5. MapOK'
    BY <1>1, <1>3, Zenon DEF MapOK
  <1>6. PagesOK'
    <2>1. at \notin Reserving \cup Ready
      BY <1>1, Zenon DEF Walks, Reserving, Ready, Testing
    <2> QED  BY <1>1, <1>3, <1>4, <2>1, Zenon DEF PagesOK
  <1> QED  BY <1>1, <1>2, <1>5, <1>6, Zenon DEF PlaceOK, TestOK, Justified, Walks

LEMMA ReturnStep ==
  ASSUME BInv, walk_return
  PROVE  BInv'
  <1> USE DEF BInv
  <1>1. /\ at \in Walks /\ walk.result # "none" /\ walk # NoWalk /\ walk' = NoWalk
        /\ loaded' = loaded /\ loaded \in BootRecords
        /\ UNCHANGED <<free_before, allocated_page>>
        /\ UNCHANGED <<managed_pages, free_pages, ownership_frozen, described, claimed>>
        /\ Walked(loaded, walk)
    BY DEF walk_return, Goto, boot_fail, MapOK, NoWalk, allocatorVars, pmmVars, history
  <1>2. IInv'
    BY UnchangedStep, Zenon DEF walk_return, allocatorVars
  <1>3. CASE walk.result = "true"
    <2>1. WellFormed(loaded) /\ walk.count = Records(loaded)
      BY <1>1, <1>3, WalkReturnsTrue, Zenon
    <2>2. at' = After(at) /\ stage' = stage
      BY <1>3, Zenon DEF walk_return, Goto
    <2>3. /\ at = "parse" => at' = "owned"
          /\ at = "owned" => at' = "kernel_range"
          /\ at = "validate" => at' = "visit"
          /\ at = "visit" => at' = "reserve_low"
          /\ at = "parse" \/ at = "owned" \/ at = "validate" \/ at = "visit"
      BY <1>1, <2>2, Zenon DEF After, Walks
    <2>4. owned_ranges' = IF at = "owned" THEN OwnedRanges(loaded) ELSE owned_ranges
      BY <1>3, Zenon DEF walk_return, OwnedRanges
    <2>5. MapOK'
      BY <1>1, <2>1, <2>2, <2>3, Zenon DEF MapOK, BootPlaces, Walks, Early, Reserving, NoWalk
    <2>6. PlaceOK'
      BY <1>1, <2>3, <2>4, Zenon DEF PlaceOK, Testing
    <2>7. PagesOK'
      <3>1. CASE at = "visit"
        <4>1. described = AddedBy(loaded, Records(loaded))
              /\ claimed = ReservedBy(loaded, Records(loaded))
          BY <1>1, <2>1, <3>1, Zenon DEF PagesOK
        <4>2. at' = "reserve_low" /\ Done(loaded, "reserve_low") = {}
          BY <2>3, <3>1, Zenon DEF Done
        <4>3. TouchedBy({}) = {}
          BY Zenon DEF TouchedBy
        <4> QED
          BY <1>1, <4>1, <4>2, <4>3, Zenon DEF PagesOK, Early
      <3>2. CASE at # "visit"
        <4>1. described = {} /\ claimed = {0}
          BY <2>3, <3>2, Zenon DEF PagesOK, Early
        <4> QED
          BY <1>1, <2>3, <3>2, <4>1, Zenon DEF PagesOK, Early, Reserving, Ready, Testing
      <3> QED  BY <3>1, <3>2, Zenon
    <2> QED  BY <1>2, <2>3, <2>5, <2>6, <2>7, Zenon DEF TestOK, Justified
  <1>4. CASE walk.result # "true"
    <2>1. walk.result = "false"
      BY <1>1, <1>4, Zenon DEF Walked, Walk
    <2>2. ~ WellFormed(loaded) /\ at = "parse"
      BY <1>1, <2>1, Zenon DEF MapOK, Walks
    <2>3. at' = "failed" /\ stage' = "multiboot"
      BY <1>4, <2>2, Zenon DEF walk_return, boot_fail, StageOf
    <2>4. described = {} /\ claimed = {0}
      BY <2>2, Zenon DEF PagesOK, Early
    <2>5. MapOK'
      BY <1>1, <2>2, <2>3, Zenon DEF MapOK, BootPlaces, Walks
    <2> QED
      BY <1>1, <1>2, <2>2, <2>3, <2>4, <2>5, Zenon
      DEF PlaceOK, PagesOK, TestOK, Justified, Testing, Early, Reserving, Ready
  <1> QED  BY <1>3, <1>4, Zenon

LEMMA KernelRangeStep ==
  ASSUME BInv, boot_kernel_range
  PROVE  BInv'
  <1> USE DEF BInv
  <1>1. /\ at = "kernel_range" /\ loaded' = loaded /\ walk' = NoWalk /\ walk = NoWalk
        /\ UNCHANGED <<owned_ranges, free_before, allocated_page>>
        /\ loaded \in BootRecords /\ WellFormed(loaded) /\ stage # "multiboot"
        /\ owned_ranges = OwnedRanges(loaded)
    BY Zenon DEF boot_kernel_range, Goto, boot_fail, locals, MapOK, PlaceOK, Walks
  <1>2. CASE KernelEnd <= KernelStart \/ KernelEnd > VMM_IDENTITY_LIMIT
    <2>1. at' = "failed" /\ stage' = "kernel-range" /\ UNCHANGED allocatorVars
      BY <1>2, Zenon DEF boot_kernel_range, boot_fail
    <2>2. KernelEnd > VMM_IDENTITY_LIMIT
      BY <1>2, BootAssumption
    <2>3. IInv'
      BY <2>1, UnchangedStep, Zenon DEF allocatorVars
    <2>4. MapOK'
      BY <1>1, <2>1, Zenon DEF MapOK, BootPlaces, Walks
    <2> QED
      BY <1>1, <2>1, <2>2, <2>3, <2>4, Zenon
      DEF PlaceOK, PagesOK, TestOK, Justified, Testing, Early, Reserving, Ready
  <1>3. CASE ~ (KernelEnd <= KernelStart \/ KernelEnd > VMM_IDENTITY_LIMIT)
    <2>1. at' = "validate" /\ stage' = stage /\ pmm_reset
      BY <1>3, Zenon DEF boot_kernel_range, Goto
    <2>2. KernelEnd <= VMM_IDENTITY_LIMIT
      BY <1>3, BootAssumption
    <2>3. IInv'
      BY <2>1, ResetStep, Zenon
    <2>4. MapOK'
      BY <1>1, <2>1, Zenon DEF MapOK, BootPlaces, Walks, Early, NoWalk
    <2>5. PagesOK' /\ PlaceOK'
      BY <1>1, <2>1, <2>2, Zenon
      DEF PagesOK, PlaceOK, pmm_reset, Testing, Early, Reserving, Ready
    <2> QED  BY <1>1, <2>1, <2>3, <2>4, <2>5, Zenon DEF TestOK, Justified
  <1> QED  BY <1>2, <1>3, Zenon

(* The ranges kernel_main reserves fit the addresses and are not empty. *)
LEMMA RangesFit ==
  ASSUME BInv, at \in Reserving \cup Ready
  PROVE  /\ owned_ranges = OwnedRanges(loaded)
         /\ \A r \in {LowMemory, Kernel, owned_ranges[1], owned_ranges[2]} :
              /\ r.base \in Nat /\ r.length \in Nat \ {0}
              /\ r.base + r.length <= AddressMax
  <1>1. at \notin {"parse", "owned", "kernel_range", "failed"}
    BY Zenon DEF Reserving, Ready, Testing
  <1>2. /\ owned_ranges = OwnedRanges(loaded) /\ KernelEnd <= VMM_IDENTITY_LIMIT
        /\ WellFormed(loaded) /\ loaded \in BootRecords
    BY <1>1, Zenon DEF BInv, PlaceOK, MapOK
  <1>3. validate_multiboot_info(loaded)
    BY <1>2, NotValidated, Zenon
  <1>4. /\ loaded.address \in Nat /\ loaded.address + InfoSize <= UINT32_MAX
        /\ InfoSize \in Nat \ {0}
        /\ UINT32_MAX \in Nat /\ UINT32_MAX <= AddressMax /\ AddressMax \in Nat
    BY <1>2, <1>3, RecordType, MultibootAssumption, BootAssumption
    DEF validate_multiboot_info
  <1>5. /\ loaded.mmap_addr \in Nat /\ loaded.mmap_length \in Nat \ {0}
        /\ loaded.mmap_addr + loaded.mmap_length <= UINT32_MAX
    BY <1>2, <1>3, MapEnd, Zenon
  <1>6. /\ owned_ranges[1] = [base |-> loaded.address, length |-> InfoSize]
        /\ owned_ranges[2] = [base |-> loaded.mmap_addr, length |-> loaded.mmap_length]
    BY <1>2, Zenon DEF OwnedRanges
  <1>7. /\ LowMemory.base \in Nat /\ LowMemory.length \in Nat \ {0}
        /\ LowMemory.base + LowMemory.length <= AddressMax
    BY BootAssumption DEF LowMemory
  <1>8. /\ Kernel.base \in Nat /\ Kernel.length \in Nat \ {0}
        /\ Kernel.base + Kernel.length <= AddressMax
    BY <1>2, <1>4, BootAssumption, SMTT(30) DEF Kernel
  <1>9. \A i \in {1, 2} : /\ owned_ranges[i].base \in Nat /\ owned_ranges[i].length \in Nat \ {0}
                          /\ owned_ranges[i].base + owned_ranges[i].length <= AddressMax
    BY <1>4, <1>5, <1>6
  <1> HIDE DEF LowMemory, Kernel
  <1> QED  BY <1>2, <1>7, <1>8, <1>9, Zenon

LEMMA ReservationStep ==
  ASSUME BInv, boot_reserve
  PROVE  BInv'
  <1> USE DEF BInv
  <1> DEFINE r == Reservation(at)
             ranges == {LowMemory, Kernel, owned_ranges[1], owned_ranges[2]}
  <1>1. /\ at \in Reserving /\ pmm_reserve_region(r.base, r.length)
        /\ loaded' = loaded /\ walk' = walk
        /\ UNCHANGED <<owned_ranges, free_before, allocated_page>>
    BY Zenon DEF boot_reserve, Reserving, Goto, boot_fail, locals
  <1>2. /\ at \notin Walks /\ walk = NoWalk /\ loaded \in BootRecords /\ WellFormed(loaded)
        /\ stage # "multiboot" /\ ~ ownership_frozen
    BY <1>1, Zenon DEF MapOK, PlaceOK, Reserving, Walks, Testing
  <1>3. /\ owned_ranges = OwnedRanges(loaded)
        /\ \A x \in ranges : /\ x.base \in Nat /\ x.length \in Nat \ {0}
                             /\ x.base + x.length <= AddressMax
    BY <1>1, RangesFit, Zenon
  <1>4. /\ r \in ranges
        /\ Done(loaded, NextReservation(at)) = Done(loaded, at) \cup {r}
        /\ NextReservation(at) \in Reserving \cup {"counts"}
    BY <1>1, <1>3, Zenon DEF Reservation, NextReservation, Done, Reserving
  <1> HIDE DEF r, ranges
  <1>5. /\ ret' = TRUE /\ claimed' = claimed \cup Touched(r.base, r.length)
        /\ UNCHANGED <<ownership_frozen, described, owned>>
    BY <1>1, <1>2, <1>3, <1>4, ReserveAccepted, Zenon
  <1>6. IInv'
    BY <1>1, <1>3, <1>4, ReserveStep, Zenon
  <1>7. at' = NextReservation(at) /\ stage' = stage
    BY <1>5, Zenon DEF boot_reserve, Goto
  <1>8. MapOK'
    BY <1>1, <1>2, <1>4, <1>7, Zenon DEF MapOK, BootPlaces, Reserving, Ready, Walks
  <1>9. PlaceOK'
    <2>1. KernelEnd <= VMM_IDENTITY_LIMIT
      BY <1>1, Zenon DEF PlaceOK, Reserving
    <2> QED
      BY <1>1, <1>2, <1>3, <1>4, <1>5, <1>7, <2>1, Zenon DEF PlaceOK, Reserving, Testing
  <1>10. PagesOK'
    <2>1. /\ described = AddedBy(loaded, Records(loaded))
          /\ claimed = ReservedBy(loaded, Records(loaded)) \cup TouchedBy(Done(loaded, at))
      BY <1>1, Zenon DEF PagesOK
    <2>2. TouchedBy(Done(loaded, at) \cup {r})
            = TouchedBy(Done(loaded, at)) \cup Touched(r.base, r.length)
      <3>1. Touched(r.base, r.length) \subseteq Pages
        BY Zenon DEF Touched
      <3> QED  BY <3>1, Zenon DEF TouchedBy
    <2>3. claimed' = ReservedBy(loaded, Records(loaded)) \cup TouchedBy(Done(loaded, at'))
      BY <1>4, <1>5, <1>7, <2>1, <2>2, Zenon
    <2>4. at' \notin Early /\ at' # "visit"
      BY <1>4, <1>7, Zenon DEF Reserving, Early
    <2> QED  BY <1>1, <1>5, <2>1, <2>3, <2>4, Zenon DEF PagesOK
  <1> QED
    BY <1>4, <1>6, <1>7, <1>8, <1>9, <1>10, Zenon DEF TestOK, Justified, Reserving

LEMMA CountsStep ==
  ASSUME BInv, boot_counts
  PROVE  BInv'
  <1> USE DEF BInv
  <1>1. /\ at = "counts" /\ loaded' = loaded /\ walk' = walk /\ free_before' = free_pages
        /\ UNCHANGED <<owned_ranges, allocated_page>>
        /\ UNCHANGED <<managed_pages, free_pages, ownership_frozen, described, claimed>>
        /\ walk = NoWalk /\ loaded \in BootRecords /\ WellFormed(loaded)
        /\ stage # "multiboot" /\ ~ ownership_frozen
    BY Zenon DEF boot_counts, Goto, boot_fail, MapOK, PlaceOK, Walks, Testing, allocatorVars,
           pmmVars, history
  <1>2. IInv'
    BY UnchangedStep, Zenon DEF boot_counts, allocatorVars
  <1>3. Done(loaded, "counts") = Done(loaded, "alloc")
    BY Zenon DEF Done
  <1>4. CASE SomePageFree
    <2>1. at' = "alloc" /\ stage' = stage /\ free_pages # 0
      BY <1>4, Zenon DEF boot_counts, Goto, SomePageFree
    <2>2. MapOK' /\ PlaceOK'
      BY <1>1, <2>1, Zenon DEF MapOK, PlaceOK, BootPlaces, Ready, Walks, Testing
    <2>3. PagesOK'
      BY <1>1, <1>3, <2>1, Zenon DEF PagesOK, Early, Reserving, Ready
    <2> QED  BY <1>1, <1>2, <2>1, <2>2, <2>3, Zenon DEF TestOK, Justified
  <1>5. CASE ~ SomePageFree
    <2>1. at' = "failed" /\ stage' = "pmm-reserve"
      BY <1>5, Zenon DEF boot_counts, boot_fail
    <2>2. managed_pages = {}
      <3>1. managed_pages \ allocated_pages = managed_pages
        BY <1>1, Zenon DEF IInv, Sets
      <3>2. Cardinality(managed_pages) = 0
        BY <1>5, <3>1, Zenon DEF IInv, Counts, SomePageFree
      <3>3. IsFiniteSet(managed_pages)
        BY PagesFinite, Zenon DEF IInv, Sets
      <3> QED  BY <3>2, <3>3, FS_EmptySet, Zenon
    <2>3. MapOK'
      BY <1>1, <2>1, Zenon DEF MapOK, BootPlaces, Walks
    <2> QED
      BY <1>1, <1>2, <2>1, <2>2, <2>3, Zenon
      DEF PlaceOK, PagesOK, TestOK, Justified, Testing, Early, Reserving, Ready
  <1> QED  BY <1>4, <1>5, Zenon

-----------------------------------------------------------------------------
(* The address of a page, as pmm_free_page takes it apart. *)
LEMMA PageAddress ==
  ASSUME NEW p \in Nat
  PROVE  /\ S * p \in Nat /\ S * p = p * S /\ (p # 0 => S * p # 0)
         /\ (S * p) \div S = p /\ (S * p) % S = 0
         /\ p \in Pages => ~ (S * p > (PMM_PAGE_COUNT - 1) * S)
  <1> DEFINE a == S * p
  <1>1. a \in Nat /\ a = p * S /\ (p # 0 => a # 0)
    BY Sizes
  <1>2. (S * p) \div S = p
    <2> DEFINE q == a \div S
    <2>1. q \in Nat /\ S * q <= a /\ a < S * q + S
      BY <1>1, Sizes, Quotient, Zenon
    <2> HIDE DEF q
    <2>2. p < q <=> S * p < S * q
      BY <2>1, Sizes, Times
    <2>3. q + 1 < p <=> S * (q + 1) < S * p
      BY <2>1, Sizes, Times
    <2>4. S * (q + 1) = S * q + S
      BY <2>1, Sizes
    <2>5. q + 1 = p => S * (q + 1) = S * p
      BY Zenon
    <2> DEFINE u == S * q
               v == S * (q + 1)
    <2>6. u \in Nat /\ u <= a /\ a < u + S /\ v = u + S /\ S \in Nat
          /\ (p < q <=> a < u) /\ (q + 1 < p <=> v < a) /\ (q + 1 = p => v = a)
      BY <2>1, <2>2, <2>3, <2>4, <2>5, Sizes, SMTT(30)
    <2> HIDE DEF a, u, v
    <2>7. q = p
      BY <1>1, <2>1, <2>6
    <2> QED  BY <2>7, Zenon DEF q, a
  <1>3. (S * p) % S = 0
    <2>1. a = S * (a \div S) + (a % S)
      BY <1>1, Sizes
    <2>2. a % S \in Nat
      BY <1>1, Sizes
    <2> QED  BY <1>1, <1>2, <2>1, <2>2
  <1>4. p \in Pages => ~ (a > (PMM_PAGE_COUNT - 1) * S)
    <2>1. PMM_PAGE_COUNT - 1 < p <=> S * (PMM_PAGE_COUNT - 1) < S * p
      BY Sizes, Times
    <2>2. S * (PMM_PAGE_COUNT - 1) = (PMM_PAGE_COUNT - 1) * S
      BY Sizes
    <2> QED  BY <2>1, <2>2, Sizes DEF Pages
  <1> QED  BY <1>1, <1>2, <1>3, <1>4, Zenon

(* The page test_alloc is given is one of the managed pages, which no     *)
(* reserved range touches.                                                 *)
LEMMA NotReserved ==
  ASSUME BInv, at = "alloc", NEW p \in managed_pages
  PROVE  ~ allocation_is_reserved(S * p)
  <1> USE DEF BInv
  <1> DEFINE ranges == {LowMemory, Kernel, owned_ranges[1], owned_ranges[2]}
  <1>1. /\ owned_ranges = OwnedRanges(loaded)
        /\ \A r \in ranges : /\ r.base \in Nat /\ r.length \in Nat \ {0}
                             /\ r.base + r.length <= AddressMax
    BY RangesFit, Zenon DEF Ready
  <1>2. Done(loaded, at) = ranges
    BY <1>1, Zenon DEF Done
  <1> HIDE DEF ranges
  <1>3. p \in Pages /\ p \notin claimed /\ p \in Nat
    BY Sizes DEF IInv, Sets, Pages
  <1>4. TouchedBy(ranges) \subseteq claimed
    BY <1>2, Zenon DEF PagesOK, Ready
  <1>5. ASSUME NEW r \in ranges
        PROVE  ~ ranges_overlap([base |-> S * p, length |-> PMM_PAGE_SIZE], r)
    <2>1. r.base \in Nat /\ r.length \in Nat /\ r.length > 0
      BY <1>1
    <2>2. p \notin Touched(r.base, r.length)
      BY <1>3, <1>4, Zenon DEF TouchedBy
    <2>3. ~ (r.length > 0 /\ p * S < r.base + r.length /\ r.base < (p + 1) * S)
      BY <1>3, <2>1, <2>2, TouchedEnds, Zenon DEF Touched
    <2>4. p * S = S * p /\ (p + 1) * S = S * p + S
      BY <1>3, Sizes
    <2> QED  BY <2>1, <2>3, <2>4, Zenon DEF ranges_overlap, S
  <1> QED  BY <1>5, Zenon DEF allocation_is_reserved, ranges

LEMMA TestAllocStep ==
  ASSUME BInv, test_alloc
  PROVE  BInv'
  <1> USE DEF BInv
  <1>1. /\ at = "alloc" /\ pmm_alloc_page /\ loaded' = loaded /\ walk' = walk
        /\ UNCHANGED <<owned_ranges, free_before>>
        /\ walk = NoWalk /\ loaded \in BootRecords /\ WellFormed(loaded)
        /\ stage # "multiboot" /\ ~ ownership_frozen
        /\ free_before = free_pages /\ free_pages # 0
    BY Zenon DEF test_alloc, Goto, boot_fail, MapOK, PlaceOK, TestOK, Walks, Testing
  <1> DEFINE free == managed_pages \ allocated_pages
             page == CHOOSE p \in free : \A q \in free : p <= q
  <1>2. free # {}
    BY <1>1, FS_EmptySet, Zenon DEF IInv, Counts
  <1>3. page \in free
    <2>1. free \in SUBSET Nat
      BY Sizes DEF IInv, Sets, Pages
    <2>2. \E p \in free : \A q \in free : p <= q
      BY <1>2, <2>1, LeastPage, Zenon
    <2> QED  BY <2>2, Zenon
  <1>4. /\ ret' = TRUE /\ ownership_frozen' = TRUE /\ owned' = owned \cup {page}
        /\ free_pages' = free_pages - 1
        /\ UNCHANGED <<managed_pages, described, claimed>>
    BY <1>1, <1>2, Zenon DEF pmm_alloc_page
  <1> HIDE DEF page
  <1>5. page \in Nat /\ page # 0 /\ page \in managed_pages /\ page \notin owned
    BY <1>3, Sizes DEF IInv, Sets, Pages
  <1>6. (CHOOSE p \in owned' : p \notin owned) = page
    BY <1>4, <1>5, Zenon
  <1>7. allocated_page' = S * page
    BY <1>4, <1>6, Zenon DEF test_alloc, S
  <1>8. ~ allocation_is_reserved(S * page)
    BY <1>1, <1>5, NotReserved, Zenon
  <1>9. at' = "add" /\ stage' = stage
    <2>1. S * page # 0 /\ (S * page) % PMM_PAGE_SIZE = 0
      BY <1>5, PageAddress, Zenon DEF S
    <2>2. allocation_is_reserved(allocated_page') = allocation_is_reserved(S * page)
      BY <1>7, Zenon
    <2> QED  BY <1>1, <1>4, <1>7, <1>8, <2>1, <2>2, Zenon DEF test_alloc, Goto
  <1>10. IInv'
    BY <1>1, AllocStep, Zenon
  <1>11. MapOK' /\ PlaceOK'
    BY <1>1, <1>4, <1>9, Zenon DEF MapOK, PlaceOK, BootPlaces, Ready, Walks, Testing
  <1>12. PagesOK'
    <2>1. Done(loaded, "alloc") = Done(loaded, "add")
      BY Zenon DEF Done
    <2> QED  BY <1>1, <1>4, <1>9, <2>1, Zenon DEF PagesOK, Early, Reserving, Ready, Testing
  <1>13. TestOK'
    <2>1. page \in owned' /\ page # 0 /\ allocated_page' = PMM_PAGE_SIZE * page
      BY <1>4, <1>5, <1>7, Zenon DEF S
    <2>2. free_before \in Nat
      BY <1>1, PagesFinite, Zenon DEF IInv, Sets, Counts
    <2> QED  BY <1>1, <1>4, <1>9, <2>1, <2>2, Zenon DEF TestOK
  <1> QED  BY <1>9, <1>10, <1>11, <1>12, <1>13, Zenon DEF Justified

(* Once ownership is frozen, no region is added or reserved. *)
LEMMA FrozenStep ==
  ASSUME BInv, test_add \/ test_reserve
  PROVE  BInv'
  <1> USE DEF BInv
  <1>1. /\ at \in {"add", "reserve"} /\ loaded' = loaded /\ walk' = walk
        /\ UNCHANGED <<owned_ranges, free_before, allocated_page>>
        /\ walk = NoWalk /\ loaded \in BootRecords /\ WellFormed(loaded)
        /\ stage # "multiboot" /\ ownership_frozen
    BY Zenon DEF test_add, test_reserve, Expect, Goto, boot_fail, locals, MapOK, PlaceOK, Walks,
           Testing
  <1>2. ret' = FALSE /\ UNCHANGED <<pmmVars, history>>
    BY <1>1, Zenon DEF test_add, test_reserve, pmm_add_usable_region, pmm_reserve_region,
                MayChangeOwnership, refuse
  <1>3. IInv'
    BY <1>2, UnchangedStep, Zenon
  <1>4. /\ stage' = stage
        /\ at = "add" => at' = "reserve"
        /\ at = "reserve" => at' = "free"
    BY <1>1, <1>2, Zenon DEF test_add, test_reserve, Expect, Goto
  <1>5. MapOK' /\ PlaceOK'
    BY <1>1, <1>2, <1>4, Zenon
    DEF MapOK, PlaceOK, BootPlaces, Ready, Walks, Testing, pmmVars
  <1>6. PagesOK'
    <2>1. Done(loaded, at') = Done(loaded, at)
      BY <1>1, <1>4, Zenon DEF Done
    <2> QED
      BY <1>1, <1>2, <1>4, <2>1, Zenon DEF PagesOK, Early, Reserving, Ready, Testing, history
  <1>7. TestOK'
    BY <1>1, <1>2, <1>4, Zenon DEF TestOK, pmmVars, history
  <1> QED  BY <1>1, <1>3, <1>4, <1>5, <1>6, <1>7, Zenon DEF Justified

LEMMA TestFreeStep ==
  ASSUME BInv, test_free
  PROVE  BInv'
  <1> USE DEF BInv
  <1>1. /\ at = "free" /\ pmm_free_page(allocated_page) /\ loaded' = loaded /\ walk' = walk
        /\ UNCHANGED <<owned_ranges, free_before, allocated_page>>
        /\ walk = NoWalk /\ loaded \in BootRecords /\ WellFormed(loaded)
        /\ stage # "multiboot" /\ ownership_frozen /\ free_pages = free_before - 1
    BY Zenon DEF test_free, Expect, Goto, boot_fail, locals, MapOK, PlaceOK, TestOK, Walks, Testing
  <1>2. PICK p \in owned : p # 0 /\ allocated_page = S * p
    BY <1>1, Zenon DEF TestOK, S
  <1>3. p \in managed_pages /\ p \in allocated_pages /\ p \in Pages /\ p \in Nat
    BY Sizes DEF IInv, Sets, Pages
  <1>4. /\ S * p \in Nat /\ S * p # 0 /\ (S * p) \div PMM_PAGE_SIZE = p
        /\ (S * p) % PMM_PAGE_SIZE = 0
        /\ ~ (S * p > (PMM_PAGE_COUNT - 1) * PMM_PAGE_SIZE)
    BY <1>2, <1>3, PageAddress, Zenon DEF S
  <1> DEFINE a == S * p
  <1>5. /\ allocated_pages' = allocated_pages \ {p} /\ free_pages' = free_pages + 1
        /\ ret' = TRUE
        /\ UNCHANGED <<managed_pages, ownership_frozen, described, claimed>>
    <2>1. pmm_free_page(a)
      BY <1>1, <1>2, Zenon
    <2> HIDE DEF a
    <2>2. a # 0 /\ a \div PMM_PAGE_SIZE = p /\ a % PMM_PAGE_SIZE = 0
          /\ ~ (a > (PMM_PAGE_COUNT - 1) * PMM_PAGE_SIZE)
      BY <1>4, Zenon DEF a
    <2> QED  BY <1>3, <2>1, <2>2, Zenon DEF pmm_free_page
  <1>6. IInv'
    BY <1>1, <1>2, <1>4, FreeStep, Zenon
  <1>7. free_pages' = free_before
    <2>1. free_pages \in Nat
      BY PagesFinite, Zenon DEF IInv, Sets, Counts
    <2>2. free_before \in Nat
      BY <1>1, Zenon DEF TestOK
    <2> QED  BY <1>1, <1>5, <2>1, <2>2
  <1>8. at' = "free_again" /\ stage' = stage
    BY <1>5, <1>7, Zenon DEF test_free, Expect, Goto
  <1>9. MapOK' /\ PlaceOK'
    BY <1>1, <1>5, <1>8, Zenon DEF MapOK, PlaceOK, BootPlaces, Ready, Walks, Testing
  <1>10. PagesOK'
    <2>1. Done(loaded, "free") = Done(loaded, "free_again")
      BY Zenon DEF Done
    <2> QED  BY <1>1, <1>5, <1>8, <2>1, Zenon DEF PagesOK, Early, Reserving, Ready, Testing
  <1>11. TestOK'
    <2>1. p \in managed_pages' \ allocated_pages' /\ allocated_page' = PMM_PAGE_SIZE * p
      BY <1>1, <1>2, <1>3, <1>5, Zenon DEF S
    <2> QED  BY <1>8, <2>1, Zenon DEF TestOK
  <1> QED  BY <1>6, <1>8, <1>9, <1>10, <1>11, Zenon DEF Justified

LEMMA TestFreeAgainStep ==
  ASSUME BInv, test_free_again
  PROVE  BInv'
  <1> USE DEF BInv
  <1>1. /\ at = "free_again" /\ pmm_free_page(allocated_page) /\ loaded' = loaded
        /\ walk' = walk /\ UNCHANGED <<owned_ranges, free_before, allocated_page>>
        /\ walk = NoWalk /\ loaded \in BootRecords /\ WellFormed(loaded)
        /\ stage # "multiboot" /\ ownership_frozen
    BY Zenon DEF test_free_again, Expect, Goto, boot_fail, locals, MapOK, PlaceOK, Walks, Testing
  <1>2. PICK p \in managed_pages \ allocated_pages : allocated_page = S * p
    BY <1>1, Zenon DEF TestOK, S
  <1>3. p \in Nat
    BY Sizes DEF IInv, Sets, Pages
  <1>4. allocated_page \div PMM_PAGE_SIZE = p
    BY <1>2, <1>3, PageAddress, Zenon DEF S
  <1>5. ret' = FALSE /\ UNCHANGED <<pmmVars, history>>
    BY <1>1, <1>2, <1>4, Zenon DEF pmm_free_page, refuse
  <1>6. IInv'
    BY <1>5, UnchangedStep, Zenon
  <1>7. at' = "ok" /\ stage' = stage
    BY <1>5, Zenon DEF test_free_again, Expect, Goto
  <1>8. MapOK' /\ PlaceOK'
    BY <1>1, <1>5, <1>7, Zenon DEF MapOK, PlaceOK, BootPlaces, Ready, Walks, Testing, pmmVars
  <1>9. PagesOK'
    <2>1. Done(loaded, "ok") = Done(loaded, "free_again")
      BY Zenon DEF Done
    <2> QED
      BY <1>1, <1>5, <1>7, <2>1, Zenon DEF PagesOK, Early, Reserving, Ready, Testing, history
  <1> QED  BY <1>6, <1>7, <1>8, <1>9, Zenon DEF TestOK, Justified

LEMMA CallerStep ==
  ASSUME BInv, later_alloc \/ later_free
  PROVE  BInv'
  <1> USE DEF BInv
  <1>1. at = "ok" /\ UNCHANGED <<loaded, at, walk, owned_ranges, stage>>
    BY Zenon DEF later_alloc, later_free, locals
  <1>2. IInv'
    <2>1. CASE later_alloc
      BY <2>1, AllocStep, Zenon DEF later_alloc
    <2>2. CASE later_free
      <3>1. PMM_PHYSICAL_LIMIT \in Nat
        BY PmmAssumption DEF PMM_PHYSICAL_LIMIT
      <3>2. PICK address \in Nat : pmm_free_page(address)
        BY <2>2, <3>1 DEF later_free
      <3> QED  BY <3>2, FreeStep, Zenon
    <2> QED  BY <2>1, <2>2, Zenon
  <1>3. UNCHANGED <<described, claimed>> /\ (ownership_frozen => ownership_frozen')
    BY Zenon DEF later_alloc, later_free, pmm_alloc_page, pmm_free_page, refuse, pmmVars, history
  <1>4. MapOK' /\ PlaceOK' /\ PagesOK'
    BY <1>1, <1>3, Zenon DEF MapOK, PlaceOK, PagesOK, Early, Walks, Testing
  <1> QED  BY <1>1, <1>2, <1>4, Zenon DEF TestOK, Justified

LEMMA BootStep == BInv /\ [BootNext]_bootVars => BInv'
  <1> SUFFICES ASSUME BInv, [BootNext]_bootVars PROVE BInv'
    BY Zenon
  <1>1. CASE UNCHANGED bootVars
    <2>1. UNCHANGED <<pmmVars, history>>
      BY <1>1, Zenon DEF bootVars, allocatorVars
    <2>2. UNCHANGED <<loaded, at, walk, owned_ranges, free_before, allocated_page, stage>>
      BY <1>1, Zenon DEF bootVars, locals
    <2>3. IInv'
      BY <2>1, UnchangedStep, Zenon DEF BInv
    <2>4. MapOK' /\ PlaceOK'
      BY <2>1, <2>2, Zenon DEF BInv, MapOK, PlaceOK, pmmVars
    <2>5. PagesOK' /\ TestOK'
      BY <2>1, <2>2, Zenon DEF BInv, PagesOK, TestOK, pmmVars, history
    <2>6. Justified'
      BY <2>1, <2>2, Zenon DEF BInv, Justified, pmmVars, history
    <2> QED  BY <2>3, <2>4, <2>5, <2>6, Zenon DEF BInv
  <1> QED
    BY <1>1, BeginStep, RecordStep, LeaveStep, ReturnStep, KernelRangeStep, ReservationStep,
       CountsStep, TestAllocStep, FrozenStep, TestFreeStep, TestFreeAgainStep, CallerStep, ZenonT(40)
    DEF BootNext, failed

LEMMA BootInvariant == BootSpec => []BInv
  BY BootStart, BootStep, PTL DEF BootSpec

(* The parser of the memory map, for every map, every width of its numbers *)
(* and every minimal record: a walk returns true exactly when sound        *)
(* records tile the map, no sum of 32-bit numbers wraps on the way, and no *)
(* byte behind the map is read; a boot refused as `multiboot' had a map    *)
(* that is not well formed.                                                *)
THEOREM WalkIsExact == BootSpec => []WalkExact
  <1>1. BInv => WalkExact
    <2> SUFFICES ASSUME BInv PROVE WalkExact
      BY Zenon
    <2>1. loaded \in BootRecords
      BY Zenon DEF BInv, MapOK
    <2>2. walk # NoWalk => Walked(loaded, walk)
      BY Zenon DEF BInv, MapOK
    <2>3. walk.read <= loaded.mmap_addr + loaded.mmap_length
      <3>1. CASE walk = NoWalk
        BY <2>1, <3>1, RecordType DEF NoWalk
      <3>2. CASE walk # NoWalk
        BY <2>2, <3>2, Zenon DEF Walked
      <3> QED  BY <3>1, <3>2, Zenon
    <2>4. walk.result = "true" => WellFormed(loaded) /\ walk.count = Records(loaded)
      BY <2>1, <2>2, WalkReturnsTrue, SMTT(30) DEF NoWalk
    <2> QED  BY <2>3, <2>4, Zenon DEF BInv, MapOK, WalkExact
  <1> QED  BY <1>1, BootInvariant, PTL

(* kernel_main hands the callers of the allocator exactly the pages inside *)
(* a usable region of the map and clear of low memory, the kernel, the     *)
(* loader's structures and the other regions, for every map the parser     *)
(* accepts, in whatever order and overlap its records come.                *)
THEOREM BootOwnershipExact == BootSpec => []BootOwnership
  <1>1. BInv => BootOwnership
    <2> SUFFICES ASSUME BInv, at \in Ready PROVE
          managed_pages =
            {p \in Pages : /\ p # 0
                           /\ \E e \in UsableEntries : BytesOf(p) \subseteq Bytes(e)
                           /\ \A r \in Kept : BytesOf(p) \cap Bytes(r) = {}}
      BY Zenon DEF BootOwnership, Ready, Testing
    <2> DEFINE n == Records(loaded)
               ranges == {LowMemory, Kernel, owned_ranges[1], owned_ranges[2]}
               kept == {Entry(loaded, i) : i \in {j \in 0 .. n - 1 : Entry(loaded, j).type # 1}}
    <2>1. /\ managed_pages = described \ claimed
          /\ described = AddedBy(loaded, n)
          /\ claimed = ReservedBy(loaded, n) \cup TouchedBy(Done(loaded, at))
      BY Zenon DEF BInv, IInv, Sets, PagesOK
    <2>2. owned_ranges = OwnedRanges(loaded)
      BY RangesFit, Zenon
    <2>3. Done(loaded, at) = ranges
      BY <2>2, Zenon DEF Done, Ready, Testing
    <2>4. Kept = ranges \cup kept
      <3>1. Len(owned_ranges) = 2
        BY <2>2, Zenon DEF OwnedRanges
      <3>2. 1 .. Len(owned_ranges) = {1, 2}
        BY <3>1
      <3>3. {owned_ranges[i] : i \in 1 .. Len(owned_ranges)} = {owned_ranges[1], owned_ranges[2]}
        BY <3>2, Zenon
      <3> QED  BY <3>3, Zenon DEF Kept
    <2>5. \A r : Bytes(r) = BytesIn(r.base, r.length)
      BY Zenon DEF Bytes, BytesIn
    <2>6. ASSUME NEW p \in Pages
          PROVE  p \in AddedBy(loaded, n)
                   <=> \E e \in UsableEntries : BytesOf(p) \subseteq Bytes(e)
      BY <2>5, Zenon DEF AddedBy, UsableEntries, Inside
    <2>7. ASSUME NEW p \in Pages
          PROVE  p \in ReservedBy(loaded, n)
                   <=> p = 0 \/ \E r \in kept : BytesOf(p) \cap Bytes(r) # {}
      BY <2>5, Zenon DEF ReservedBy, Touched
    <2>8. ASSUME NEW p \in Pages
          PROVE  p \in TouchedBy(ranges)
                   <=> \E r \in ranges : BytesOf(p) \cap Bytes(r) # {}
      BY <2>5, Zenon DEF TouchedBy, Touched
    <2>9. AddedBy(loaded, n) \subseteq Pages
      BY Zenon DEF AddedBy
    <2> HIDE DEF n, ranges, kept
    <2> QED  BY <2>1, <2>3, <2>4, <2>6, <2>7, <2>8, <2>9, ZenonT(40)
  <1> QED  BY <1>1, BootInvariant, PTL

(* What the allocator promises its callers holds of the boot as well:      *)
(* kernel_main calls it in an order for which the bitmaps are exact and    *)
(* the counters agree with them.                                           *)
THEOREM BootAllocatorExact == BootSpec => [](OwnershipExact /\ CountsMatchBitmaps)
  <1>1. BInv => OwnershipExact /\ CountsMatchBitmaps
    BY Zenon DEF BInv, IInv, Sets, Counts, OwnershipExact, CountsMatchBitmaps
  <1> QED  BY <1>1, BootInvariant, PTL

(* A boot that stops has a reason: the map is malformed, and then the      *)
(* allocator has seen no record; the kernel was linked beyond the identity *)
(* map; or no free page is left.  The later walks, the reservations and    *)
(* every check of the self-test succeed on a map the first walk accepted.  *)
THEOREM BootStopsForAReason == BootSpec => []Justified
  <1>1. BInv => Justified
    BY Zenon DEF BInv
  <1> QED  BY <1>1, BootInvariant, PTL
===============================================================================
