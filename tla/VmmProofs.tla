------------------------------ MODULE VmmProofs -------------------------------
(***************************************************************************)
(* Proofs about the virtual memory manager of module Vmm, for every size   *)
(* of the directory, of the tables, of their pool and of the pages, every  *)
(* window and every sequence of requests: the pool is used exactly, the    *)
(* kernel's own walk and the CPU's agree, no stale translation survives a  *)
(* call, and the tables implement the map of module AddressSpace.          *)
(***************************************************************************)
EXTENDS Vmm, FiniteSetTheorems, WellFoundedInduction, TLAPS

PTE == PAGE_TABLE_ENTRIES
PS == VMM_PAGE_SIZE
NONE == TABLE_INDEX_NONE
HardwareFlags == {"PRESENT", "WRITABLE", "USER"}

(* The directory entry and the table entry of a page, and back. *)
DirOf(page) == page \div PTE
EntryOf(page) == page % PTE
PageAt(d, e) == d * PTE + e

TypeOK ==
  /\ page_directory \in [Directory -> [table : Tables \cup {NONE}, flags : SUBSET HardwareFlags]]
  /\ page_tables \in [Tables -> [Entries -> [frame : Nat, flags : SUBSET HardwareFlags]]]
  /\ directory_table_indices \in [Directory -> Tables \cup {NONE}]
  /\ table_in_use \in [Tables -> BOOLEAN]
  /\ enabled \in BOOLEAN
  /\ at \in {"idle", "invalidate", "release"}
  /\ address \in Nat

(* The directory word and the index kept beside it tell the same. *)
WordMatchesIndex(d) ==
  IF directory_table_indices[d] = NONE THEN page_directory[d] = NoTable
  ELSE /\ page_directory[d].table = directory_table_indices[d]
       /\ {"PRESENT", "WRITABLE"} \subseteq page_directory[d].flags

(* The identity entries keep their tables, and these their words. *)
IdentityKept(d) ==
  /\ directory_table_indices[d] = d
  /\ page_directory[d].flags = {"PRESENT", "WRITABLE"}
  /\ \A e \in Entries :
       page_tables[d][e] =
         IF PageAt(d, e) # 0
         THEN [frame |-> PageAt(d, e), flags |-> {"PRESENT", "WRITABLE"}] ELSE NoPage

(* The present words of a dynamic table are pages of the window, and the   *)
(* directory word opens the region to users if one of them does.           *)
WordsOfWindow(d) ==
  directory_table_indices[d] # NONE =>
    /\ directory_table_indices[d] \notin IdentityTables
    /\ \A e \in Entries :
         LET word == page_tables[directory_table_indices[d]][e]
         IN  Present(word) =>
               /\ dynamic_address_is_valid(PageAt(d, e) * PS)
               /\ "USER" \in word.flags => "USER" \in page_directory[d].flags

(* Only the entry vmm_unmap_page is working on may have an empty table. *)
Releasing(d) == at # "idle" /\ directory_index(address) = d

InUse(d) == directory_table_indices[d] # NONE /\ ~ Releasing(d) =>
              ~ table_is_empty(directory_table_indices[d])

Owned(t) == \E d \in Directory : directory_table_indices[d] = t

PoolOK ==
  /\ \A d \in Directory : WordMatchesIndex(d)
  /\ \A d \in IdentityTables : IdentityKept(d)
  /\ \A d \in Directory \ IdentityTables : WordsOfWindow(d) /\ InUse(d)
  /\ \A d1, d2 \in Directory :
       directory_table_indices[d1] = directory_table_indices[d2]
         => d1 = d2 \/ directory_table_indices[d1] = NONE
  /\ \A t \in Tables : table_in_use[t] <=> Owned(t)

(* A page being unmapped has an entry with a table, and is gone from it. *)
UnmapOK ==
  at # "idle" =>
    LET t == directory_table_indices[directory_index(address)]
    IN  /\ enabled /\ dynamic_address_is_valid(address)
        /\ t # NONE /\ ~ Present(page_tables[t][entry_index(address)])

(* The CPU caches only what the tables say, but for the page in question. *)
TlbOK ==
  /\ ~ enabled => tlb = {}
  /\ \A c \in tlb :
       /\ c.page \in VirtualPages
       /\ c \in Walk(c.page) \/ (at = "invalidate" /\ c.page = PageOf(address))

IInv == TypeOK /\ (enabled => PoolOK) /\ UnmapOK /\ TlbOK
           /\ (~ enabled => at = "idle" /\ page_directory = [d \in Directory |-> NoTable])

-----------------------------------------------------------------------------
(* The sizes, and the sets they span. *)
LEMMA Sizes ==
  /\ PTE \in Nat \ {0} /\ PS \in Nat \ {0}
  /\ PAGE_DIRECTORY_ENTRIES \in Nat \ {0} /\ PAGE_TABLE_COUNT \in Nat \ {0}
  /\ IDENTITY_TABLE_COUNT \in Nat \ {0}
  /\ IDENTITY_TABLE_COUNT < PAGE_TABLE_COUNT
  /\ IDENTITY_TABLE_COUNT <= PAGE_DIRECTORY_ENTRIES
  /\ VMM_DYNAMIC_START \in Nat /\ VMM_DYNAMIC_END \in Nat
  BY VmmAssumption, Zenon DEF PTE, PS

LEMMA Spans ==
  /\ IdentityTables \subseteq Directory /\ IdentityTables \subseteq Tables
  /\ NONE \notin Tables /\ NONE \notin IdentityTables
  /\ \A d \in Directory : d \in Nat /\ d < PAGE_DIRECTORY_ENTRIES
  /\ \A e \in Entries : e \in Nat /\ e < PTE
  BY Sizes DEF IdentityTables, Directory, Tables, Entries, NONE, TABLE_INDEX_NONE, PTE

(* Quotient and remainder, and that they are unique. *)
LEMMA Divide ==
  ASSUME NEW n \in Nat \ {0}, NEW a \in Nat
  PROVE  /\ a \div n \in Nat /\ a % n \in 0 .. n - 1
         /\ a = n * (a \div n) + (a % n)
  OBVIOUS

LEMMA Monotone ==
  ASSUME NEW n \in Nat \ {0}, NEW p \in Nat, NEW q \in Nat
  PROVE  p < q <=> n * p < n * q
  <1>1. p < q => n * (q - p) >= n
    OBVIOUS
  <1>2. p >= q => n * (p - q) >= 0
    OBVIOUS
  <1>3. n * (q - p) = n * q - n * p /\ n * (p - q) = n * p - n * q
    OBVIOUS
  <1> QED  BY <1>1, <1>2, <1>3

LEMMA DivideUnique ==
  ASSUME NEW n \in Nat \ {0}, NEW a \in Nat, NEW q \in Nat, NEW r \in 0 .. n - 1,
         a = n * q + r
  PROVE  a \div n = q /\ a % n = r
  <1> DEFINE p == a \div n
             s == a % n
  <1>1. p \in Nat /\ s \in 0 .. n - 1 /\ a = n * p + s
    BY Divide, Zenon
  <1> HIDE DEF p, s
  <1>2. p < q + 1 <=> n * p < n * (q + 1)
    BY <1>1, Monotone
  <1>3. q < p + 1 <=> n * q < n * (p + 1)
    BY <1>1, Monotone
  <1>4. n * (q + 1) = n * q + n /\ n * (p + 1) = n * p + n
    BY <1>1
  <1>5. p = q
    BY <1>1, <1>2, <1>3, <1>4
  <1>6. s = r
    BY <1>1, <1>5
  <1> QED  BY <1>5, <1>6, Zenon DEF p, s

(* Dividing in two steps is dividing by the product. *)
LEMMA DivideTwice ==
  ASSUME NEW n \in Nat \ {0}, NEW m \in Nat \ {0}, NEW a \in Nat
  PROVE  a \div (n * m) = (a \div n) \div m
  <1> DEFINE p == a \div n
             r == a % n
             q == p \div m
             s == p % m
  <1>1. p \in Nat /\ r \in 0 .. n - 1 /\ a = n * p + r
    BY Divide, Zenon
  <1>2. q \in Nat /\ s \in 0 .. m - 1 /\ p = m * q + s
    BY <1>1, Divide, Zenon
  <1> HIDE DEF p, r, q, s
  <1>3. n * m \in Nat \ {0} /\ n * s \in Nat
    BY <1>2
  <1>4. s < m <=> s + 1 < m + 1
    BY <1>2
  <1>5. s + 1 < m + 1 <=> n * (s + 1) < n * (m + 1)
    BY <1>2, Monotone
  <1>6. n * (s + 1) = n * s + n /\ n * (m + 1) = n * m + n
    BY <1>2
  <1>7. n * s + r \in 0 .. n * m - 1
    <2>1. s = m - 1 \/ s + 1 < m
      BY <1>2
    <2>2. s + 1 < m <=> n * (s + 1) < n * m
      BY <1>2, Monotone
    <2>3. s = m - 1 => n * (s + 1) = n * m
      BY <1>2
    <2> QED  BY <1>1, <1>2, <1>3, <1>6, <2>1, <2>2, <2>3
  <1>8. a = (n * m) * q + (n * s + r)
    <2>1. n * (m * q + s) = (n * m) * q + n * s
      BY <1>2
    <2> QED  BY <1>1, <1>2, <2>1
  <1>9. a \div (n * m) = q
    BY <1>2, <1>3, <1>7, <1>8, DivideUnique, Zenon
  <1> QED  BY <1>9, Zenon DEF p, q

(* A page number and its entries determine each other. *)
LEMMA PageEntries ==
  ASSUME NEW page \in VirtualPages
  PROVE  /\ page \in Nat
         /\ DirOf(page) \in Directory /\ EntryOf(page) \in Entries
         /\ PageAt(DirOf(page), EntryOf(page)) = page
  <1> DEFINE d == page \div PTE
             e == page % PTE
  <1>1. page \in Nat /\ page < PAGE_DIRECTORY_ENTRIES * PTE
    BY Sizes DEF VirtualPages, PTE
  <1>2. d \in Nat /\ e \in 0 .. PTE - 1 /\ page = PTE * d + e
    BY <1>1, Sizes, Divide, Zenon
  <1> HIDE DEF d, e
  <1>3. d < PAGE_DIRECTORY_ENTRIES <=> PTE * d < PTE * PAGE_DIRECTORY_ENTRIES
    BY <1>2, Sizes, Monotone, Zenon
  <1>4. PTE * PAGE_DIRECTORY_ENTRIES = PAGE_DIRECTORY_ENTRIES * PTE /\ PTE * d = d * PTE
    BY <1>2, Sizes
  <1>5. d < PAGE_DIRECTORY_ENTRIES
    <2> DEFINE x == PTE * d
               y == PAGE_DIRECTORY_ENTRIES * PTE
    <2>1. x \in Nat /\ y \in Nat /\ page = x + e /\ page < y /\ (d < PAGE_DIRECTORY_ENTRIES <=> x < y)
      BY <1>1, <1>2, <1>3, <1>4, Sizes
    <2> HIDE DEF x, y
    <2> QED  BY <2>1, <1>2
  <1>6. DirOf(page) = d /\ EntryOf(page) = e
    BY Zenon DEF d, e, DirOf, EntryOf
  <1> QED  BY <1>1, <1>2, <1>4, <1>5, <1>6, Sizes DEF PageAt, Directory, Entries, PTE

LEMMA EntriesPage ==
  ASSUME NEW d \in Directory, NEW e \in Entries
  PROVE  /\ PageAt(d, e) \in VirtualPages
         /\ DirOf(PageAt(d, e)) = d /\ EntryOf(PageAt(d, e)) = e
  <1> DEFINE N == PAGE_DIRECTORY_ENTRIES
             x == PTE * d
             y == N * PTE
  <1>1. d \in Nat /\ d < N /\ e \in 0 .. PTE - 1
    BY Spans, Sizes
  <1>2. x \in Nat /\ y \in Nat /\ PageAt(d, e) = x + e
    BY <1>1, Sizes DEF PageAt
  <1>3. d + 1 < N + 1 <=> PTE * (d + 1) < PTE * (N + 1)
    BY <1>1, Sizes, Monotone
  <1>4. PTE * (d + 1) = x + PTE /\ PTE * (N + 1) = y + PTE
    BY <1>1, Sizes
  <1>5. d < N - 1 => x + PTE <= y
    <2>1. d + 1 < N <=> PTE * (d + 1) < PTE * N
      BY <1>1, Sizes, Monotone
    <2>2. PTE * N = y
      BY Sizes
    <2> QED  BY <1>1, <1>2, <1>4, <2>1, <2>2, Sizes
  <1>6. d = N - 1 => x + PTE = y
    BY <1>1, Sizes
  <1>7. x + e \in 0 .. y - 1
    <2> HIDE DEF x, y
    <2> QED  BY <1>1, <1>2, <1>5, <1>6, Sizes
  <1>8. (x + e) \div PTE = d /\ (x + e) % PTE = e
    <2> DEFINE a == x + e
    <2>1. a \in Nat /\ a = PTE * d + e
      BY <1>1, <1>2
    <2> HIDE DEF a
    <2>2. a \div PTE = d /\ a % PTE = e
      BY <1>1, <2>1, Sizes, DivideUnique
    <2> QED  BY <2>2, Zenon DEF a
  <1> QED  BY <1>2, <1>7, <1>8, Zenon DEF VirtualPages, DirOf, EntryOf, PTE

(* The parts of an address. *)
LEMMA AddressParts ==
  ASSUME NEW page \in VirtualPages, NEW offset \in 0 .. PS - 1
  PROVE  /\ PageOf(page * PS + offset) = page /\ Offset(page * PS + offset) = offset
         /\ directory_index(page * PS + offset) = DirOf(page)
         /\ entry_index(page * PS + offset) = EntryOf(page)
  <1> DEFINE a == page * PS + offset
  <1>1. page \in Nat
    BY PageEntries, Zenon
  <1>2. a \in Nat /\ a = PS * page + offset
    BY <1>1, Sizes
  <1> HIDE DEF a
  <1>3. a \div PS = page /\ a % PS = offset
    BY <1>1, <1>2, Sizes, DivideUnique
  <1>4. a \div (PS * PTE) = page \div PTE
    BY <1>2, <1>3, Sizes, DivideTwice
  <1>5. /\ PageOf(a) = page /\ Offset(a) = offset
        /\ directory_index(a) = DirOf(page) /\ entry_index(a) = EntryOf(page)
    BY <1>3, <1>4, Zenon DEF PageOf, Offset, directory_index, entry_index, DirOf, EntryOf, PS, PTE
  <1> QED  BY <1>5, Zenon DEF a

LEMMA PageParts ==
  ASSUME NEW page \in VirtualPages
  PROVE  /\ PageOf(page * PS) = page /\ Offset(page * PS) = 0
         /\ directory_index(page * PS) = DirOf(page)
         /\ entry_index(page * PS) = EntryOf(page)
  <1>1. page * PS = page * PS + 0 /\ 0 \in 0 .. PS - 1
    BY Sizes, PageEntries
  <1> QED  BY <1>1, AddressParts, Zenon

(* A valid address of the window is the address of a page, and none of the *)
(* identity map.                                                           *)
LEMMA WindowAddress ==
  ASSUME NEW v \in Nat, dynamic_address_is_valid(v)
  PROVE  /\ PageOf(v) \in VirtualPages /\ PageOf(v) * PS = v
         /\ directory_index(v) = DirOf(PageOf(v)) /\ entry_index(v) = EntryOf(PageOf(v))
         /\ directory_index(v) \in Directory \ IdentityTables
         /\ entry_index(v) \in Entries
         /\ PageAt(directory_index(v), entry_index(v)) = PageOf(v)
  <1> DEFINE p == v \div PS
             N == PAGE_DIRECTORY_ENTRIES * PTE
             I == IDENTITY_TABLE_COUNT * PTE
  <1>1. p \in Nat /\ v = PS * p + (v % PS)
    BY Sizes, Divide, Zenon
  <1>2. v % PS = 0 /\ PageOf(v) = p
    BY Zenon DEF dynamic_address_is_valid, Offset, PageOf, PS
  <1>3. N \in Nat /\ I \in Nat
    BY Sizes
  <1>4. v < PS * N /\ PS * I <= v
    <2>1. VMM_DYNAMIC_END <= N * PS /\ VMM_DYNAMIC_START >= I * PS
      BY VmmAssumption, Zenon DEF PTE, PS
    <2>2. N * PS = PS * N /\ I * PS = PS * I /\ PS * N \in Nat /\ PS * I \in Nat
      BY <1>3, Sizes
    <2>3. VMM_DYNAMIC_START <= v /\ v < VMM_DYNAMIC_END
      BY Zenon DEF dynamic_address_is_valid
    <2> HIDE DEF N, I
    <2> QED  BY <2>1, <2>2, <2>3, Sizes
  <1> HIDE DEF p, N, I
  <1>5. v = PS * p
    BY <1>1, <1>2, Sizes
  <1>6. p < N /\ ~ p < I
    <2>1. (p < N <=> PS * p < PS * N) /\ (p < I <=> PS * p < PS * I)
      BY <1>1, <1>3, Sizes, Monotone, Zenon
    <2>2. PS * I \in Nat
      BY <1>3, Sizes
    <2> QED  BY <1>4, <1>5, <2>1, <2>2
  <1>7. p \in VirtualPages
    BY <1>1, <1>3, <1>6 DEF VirtualPages, N, PTE
  <1>8. p * PS = v
    BY <1>1, <1>5, Sizes
  <1>9. directory_index(v) = DirOf(p) /\ entry_index(v) = EntryOf(p)
    BY <1>7, <1>8, PageParts, Zenon
  <1>10. DirOf(p) \notin IdentityTables
    <2> DEFINE d == p \div PTE
               e == p % PTE
    <2>1. d \in Nat /\ e \in 0 .. PTE - 1 /\ p = PTE * d + e
      BY <1>1, Sizes, Divide, Zenon
    <2>2. DirOf(p) = d
      BY Zenon DEF DirOf
    <2> HIDE DEF d, e
    <2>3. d + 1 < IDENTITY_TABLE_COUNT + 1 <=> PTE * (d + 1) < PTE * (IDENTITY_TABLE_COUNT + 1)
      BY <2>1, Sizes, Monotone
    <2>4. PTE * (d + 1) = PTE * d + PTE /\ PTE * (IDENTITY_TABLE_COUNT + 1) = I + PTE
      BY <2>1, Sizes DEF I
    <2>5. d + 1 < IDENTITY_TABLE_COUNT <=> PTE * (d + 1) < PTE * IDENTITY_TABLE_COUNT
      BY <2>1, Sizes, Monotone
    <2>6. PTE * IDENTITY_TABLE_COUNT = I
      BY Sizes DEF I
    <2>7. d + 1 = IDENTITY_TABLE_COUNT => PTE * d + PTE = I
      BY <2>1, <2>4, <2>6, Zenon
    <2>8. ~ d < IDENTITY_TABLE_COUNT
      <3> DEFINE x == PTE * d
      <3>1. x \in Nat
        BY <2>1, Sizes
      <3>2. d + 1 < IDENTITY_TABLE_COUNT => x + PTE < I
        BY <2>4, <2>5, <2>6, Zenon
      <3>3. d + 1 = IDENTITY_TABLE_COUNT => x + PTE = I
        BY <2>7, Zenon
      <3>4. p = x + e
        BY <2>1, Zenon
      <3> HIDE DEF x
      <3> QED  BY <1>3, <1>6, <2>1, <3>1, <3>2, <3>3, <3>4, Sizes
    <2> QED  BY <2>1, <2>2, <2>8, Sizes DEF IdentityTables
  <1> QED  BY <1>2, <1>7, <1>8, <1>9, <1>10, PageEntries, Zenon

(* The addresses that callers pass are numbers. *)
LEMMA Requests ==
  /\ \A r \in MapRequests : r[1] \in Nat /\ r[2] \in Nat
  /\ \A r \in UnmapRequests : r[1] \in Nat
  BY VmmAssumption, Zenon

-----------------------------------------------------------------------------
(* What the CPU finds for a page, said with the indices the kernel keeps:  *)
(* the frame, and the flags of the word alone, since the directory word    *)
(* restricts nothing that the word allows.                                 *)
WordOf(page) == page_tables[directory_table_indices[DirOf(page)]][EntryOf(page)]

Reaches(page) == enabled /\ directory_table_indices[DirOf(page)] # NONE /\ Present(WordOf(page))

View(page) == [page |-> page, frame |-> WordOf(page).frame,
               rights |-> WordOf(page).flags \cap VMM_ALLOWED_FLAGS]

WalkIsView ==
  TypeOK /\ (enabled => PoolOK) =>
    \A page \in VirtualPages : Walk(page) = IF Reaches(page) THEN {View(page)} ELSE {}

LEMMA Walking == WalkIsView
  <1> SUFFICES ASSUME TypeOK, enabled => PoolOK, NEW page \in VirtualPages
               PROVE  Walk(page) = IF Reaches(page) THEN {View(page)} ELSE {}
    BY Zenon DEF WalkIsView
  <1> DEFINE d == DirOf(page)
             e == EntryOf(page)
             t == directory_table_indices[d]
             dir == page_directory[d]
             word == page_tables[t][e]
  <1>1. d \in Directory /\ e \in Entries /\ PageAt(d, e) = page
    BY PageEntries, Zenon
  <1>2. directory_index(page * PS) = d /\ entry_index(page * PS) = e
    BY PageParts, Zenon
  <1>3. Walk(page) = IF ~ enabled \/ ~ Present(dir) THEN {}
                     ELSE IF ~ Present(page_tables[dir.table][e]) THEN {}
                     ELSE {[page |-> page, frame |-> page_tables[dir.table][e].frame,
                            rights |-> page_tables[dir.table][e].flags
                                         \cap dir.flags \cap VMM_ALLOWED_FLAGS]}
    BY <1>2, Zenon DEF Walk, PS
  <1>4. CASE ~ enabled
    BY <1>3, <1>4, Zenon DEF Reaches
  <1>5. CASE enabled /\ t = NONE
    <2>1. dir = NoTable
      BY <1>1, <1>5, Zenon DEF PoolOK, WordMatchesIndex
    <2> QED  BY <1>3, <1>5, <2>1 DEF NoTable, Present, Reaches
  <1>6. CASE enabled /\ t # NONE
    <2>1. dir.table = t /\ Present(dir) /\ "WRITABLE" \in dir.flags
      BY <1>1, <1>6, Zenon DEF PoolOK, WordMatchesIndex, Present
    <2>2. Present(word) => ("USER" \in word.flags => "USER" \in dir.flags)
      <3>1. CASE d \in IdentityTables
        <4>1. IdentityKept(d)
          BY <1>6, <3>1, Zenon DEF PoolOK
        <4>2. \/ word = [frame |-> PageAt(d, e), flags |-> {"PRESENT", "WRITABLE"}]
              \/ word = NoPage
          BY <1>1, <4>1, Zenon DEF IdentityKept
        <4> QED  BY <4>2 DEF NoPage
      <3>2. CASE d \notin IdentityTables
        BY <1>1, <1>6, <3>2, Zenon DEF PoolOK, WordsOfWindow
      <3> QED  BY <3>1, <3>2, Zenon
    <2>3. Present(word) => word.flags \cap dir.flags \cap VMM_ALLOWED_FLAGS
                             = word.flags \cap VMM_ALLOWED_FLAGS
      BY <2>1, <2>2, Zenon DEF VMM_ALLOWED_FLAGS
    <2>4. (Reaches(page) <=> Present(word)) /\ WordOf(page) = word
      BY <1>6, Zenon DEF Reaches, WordOf
    <2>5. ~ (~ enabled \/ ~ Present(dir)) /\ page_tables[dir.table][e] = word
      BY <1>6, <2>1, Zenon
    <2> HIDE DEF d, e, dir, word
    <2>6. CASE Present(word)
      <3>1. Walk(page) = {[page |-> page, frame |-> word.frame,
                           rights |-> word.flags \cap dir.flags \cap VMM_ALLOWED_FLAGS]}
        BY <1>3, <2>5, <2>6, Zenon
      <3> QED  BY <2>3, <2>4, <2>6, <3>1, Zenon DEF View
    <2>7. CASE ~ Present(word)
      BY <1>3, <2>4, <2>5, <2>7, Zenon
    <2> QED  BY <2>6, <2>7, Zenon
  <1> QED  BY <1>4, <1>5, <1>6, Zenon

LEMMA WalkingNext == WalkIsView'
  BY Walking, PTL

(* The least element of a set of numbers: the table the scan finds. *)
LEMMA LeastNumber ==
  ASSUME NEW T \in SUBSET Nat, T # {}
  PROVE  \E p \in T : \A q \in T : p <= q
  <1>1. PICK x \in T : \A y \in T : ~ (<<y, x>> \in OpToRel(<, Nat))
    BY NatLessThanWellFounded, WFMin, Zenon
  <1>2. \A y \in T : ~ (y < x)
    BY <1>1, Zenon DEF OpToRel
  <1> QED  BY <1>2

LEMMA AllocatedTable ==
  IF FreeTables = {} THEN allocate_dynamic_table = NONE
  ELSE allocate_dynamic_table \in FreeTables
  <1>1. FreeTables \in SUBSET Nat
    BY Sizes DEF FreeTables, Tables
  <1>2. FreeTables # {} => \E t \in FreeTables : \A u \in FreeTables : t <= u
    BY <1>1, LeastNumber, Zenon
  <1> QED  BY <1>2, Zenon DEF allocate_dynamic_table, NONE

-----------------------------------------------------------------------------
(* The invariant holds initially, and every step keeps it. *)
LEMMA ZeroWords ==
  /\ NoTable \in [table : Tables \cup {NONE}, flags : SUBSET HardwareFlags]
  /\ NoPage \in [frame : Nat, flags : SUBSET HardwareFlags]
  /\ ~ Present(NoTable) /\ ~ Present(NoPage)
  BY Zenon DEF NoTable, NoPage, Present, NONE

LEMMA InitStep == Init => IInv
  <1> SUFFICES ASSUME Init PROVE IInv
    BY Zenon
  <1>1. 0 \in Tables
    BY Sizes DEF Tables
  <1>2. TypeOK
    BY <1>1, ZeroWords, Zenon DEF Init, TypeOK
  <1> QED  BY <1>2, Zenon DEF Init, IInv, UnmapOK, TlbOK

(* A step that changes no table, not the state of a call and only shrinks  *)
(* or leaves the cache.                                                    *)
LEMMA QuietStep ==
  ASSUME IInv, UNCHANGED <<tables, enabled, at, address>>, tlb' \subseteq tlb
  PROVE  IInv'
  <1>1. TypeOK' /\ (enabled => PoolOK)' /\ UnmapOK'
    BY DEF IInv, tables, TypeOK, PoolOK, WordMatchesIndex, IdentityKept, WordsOfWindow,
           InUse, Releasing, Owned, UnmapOK, table_is_empty
  <1>2. \A page : Walk(page)' = Walk(page)
    BY Zenon DEF tables, Walk
  <1>3. TlbOK'
    BY <1>2, Zenon DEF IInv, TlbOK
  <1> QED  BY <1>1, <1>3, Zenon DEF IInv, tables

LEMMA EnableStep ==
  ASSUME IInv, vmm_init
  PROVE  IInv'
  <1>1. CASE enabled
    <2>1. UNCHANGED <<tables, enabled, at, address>> /\ tlb' \subseteq tlb
      BY <1>1, Zenon DEF vmm_init
    <2> QED  BY <2>1, QuietStep, Zenon
  <1>2. CASE ~ enabled
    <2>1. /\ page_directory' = [d \in Directory |->
               IF d \in IdentityTables
               THEN [table |-> d, flags |-> {"PRESENT", "WRITABLE"}] ELSE NoTable]
          /\ directory_table_indices' = [d \in Directory |->
               IF d \in IdentityTables THEN d ELSE NONE]
          /\ table_in_use' = [t \in Tables |-> t \in IdentityTables]
          /\ enabled' = TRUE /\ tlb' = {} /\ at = "idle" /\ UNCHANGED <<at, address>>
      BY <1>2, Zenon DEF vmm_init, NONE
    <2>2. page_tables' = [t \in Tables |-> [e \in Entries |->
               IF t \in IdentityTables /\ PageAt(t, e) # 0
               THEN [frame |-> PageAt(t, e), flags |-> {"PRESENT", "WRITABLE"}]
               ELSE NoPage]]
      BY <1>2, Zenon DEF vmm_init, PageAt, PTE
    <2>3. \A t \in Tables, e \in Entries : PageAt(t, e) \in Nat
      BY Sizes DEF PageAt, Tables, Entries, PTE
    <2>4. page_tables' \in [Tables -> [Entries -> [frame : Nat, flags : SUBSET HardwareFlags]]]
      BY <2>2, <2>3, ZeroWords, Zenon DEF HardwareFlags
    <2>5. page_directory' \in [Directory -> [table : Tables \cup {NONE}, flags : SUBSET HardwareFlags]]
      BY <2>1, ZeroWords, Spans, Zenon DEF HardwareFlags
    <2>6. TypeOK'
      BY <2>1, <2>4, <2>5, Spans DEF IInv, TypeOK
    <2>7. (\A d \in Directory : WordMatchesIndex(d))'
      <3> SUFFICES ASSUME NEW d \in Directory PROVE WordMatchesIndex(d)'
        BY Zenon
      <3> QED  BY <2>1, Spans, Zenon DEF WordMatchesIndex
    <2>8. (\A d \in IdentityTables : IdentityKept(d))'
      <3> SUFFICES ASSUME NEW d \in IdentityTables PROVE IdentityKept(d)'
        BY Zenon
      <3>1. d \in Directory /\ d \in Tables
        BY Spans, Zenon
      <3>2. directory_table_indices'[d] = d /\ page_directory'[d].flags = {"PRESENT", "WRITABLE"}
        BY <2>1, <3>1, Zenon
      <3>3. \A e \in Entries : page_tables'[d][e] =
              IF PageAt(d, e) # 0
              THEN [frame |-> PageAt(d, e), flags |-> {"PRESENT", "WRITABLE"}] ELSE NoPage
        BY <2>2, <3>1, Zenon
      <3> QED  BY <3>2, <3>3, Zenon DEF IdentityKept
    <2>9. (\A d \in Directory \ IdentityTables : WordsOfWindow(d) /\ InUse(d))'
      BY <2>1, Zenon DEF WordsOfWindow, InUse
    <2>10. \A d \in Directory : directory_table_indices'[d] # NONE =>
             d \in IdentityTables /\ directory_table_indices'[d] = d
      BY <2>1, Zenon
    <2>11. \A t \in Tables : table_in_use'[t] <=> Owned(t)'
      BY <2>1, <2>10, Spans, Zenon DEF Owned
    <2>12. PoolOK'
      BY <2>7, <2>8, <2>9, <2>10, <2>11, Zenon DEF PoolOK
    <2> QED  BY <2>1, <2>6, <2>12, Zenon DEF IInv, UnmapOK, TlbOK
  <1> QED  BY <1>1, <1>2, Zenon

LEMMA FillStep ==
  ASSUME IInv, tlb_fill
  PROVE  IInv'
  <1>1. UNCHANGED <<tables, enabled, at, address>>
    BY Zenon DEF tlb_fill
  <1>2. PICK page \in VirtualPages : \E c \in Walk(page) : tlb' = tlb \cup {c}
    BY Zenon DEF tlb_fill
  <1>3. PICK c \in Walk(page) : tlb' = tlb \cup {c}
    BY <1>2, Zenon
  <1>4. c.page = page /\ enabled
    BY <1>3 DEF Walk
  <1>5. \A q : Walk(q)' = Walk(q)
    BY <1>1, Zenon DEF tables, Walk
  <1>6. TypeOK' /\ (enabled => PoolOK)' /\ UnmapOK'
    BY <1>1 DEF IInv, tables, TypeOK, PoolOK, WordMatchesIndex, IdentityKept, WordsOfWindow,
           InUse, Releasing, Owned, UnmapOK, table_is_empty
  <1>7. TlbOK'
    BY <1>1, <1>2, <1>3, <1>4, <1>5, Zenon DEF IInv, TlbOK
  <1> QED  BY <1>1, <1>4, <1>6, <1>7, Zenon DEF IInv, tables

-----------------------------------------------------------------------------
(* A map call that succeeds, with the table it uses: the one its directory *)
(* entry has, or a free one.                                               *)
NewWord(p, flags) == [frame |-> PageOf(p), flags |-> make_page_flags(flags)]

MapGranted(v, p, flags, t) ==
  LET d == directory_index(v)
      e == entry_index(v)
      fresh == directory_table_indices[d] = NONE
  IN  /\ enabled /\ at = "idle" /\ dynamic_address_is_valid(v)
      /\ Offset(p) = 0 /\ flags \subseteq VMM_ALLOWED_FLAGS
      /\ IF fresh THEN t \in FreeTables
         ELSE t = directory_table_indices[d] /\ ~ Present(page_tables[t][e])
      /\ table_in_use' = [table_in_use EXCEPT ![t] = TRUE]
      /\ directory_table_indices' = [directory_table_indices EXCEPT ![d] = t]
      /\ page_directory' = [page_directory EXCEPT
           ![d] = [table |-> t,
                   flags |-> (IF fresh THEN {} ELSE page_directory[d].flags)
                               \cup {"PRESENT", "WRITABLE"} \cup (NewWord(p, flags).flags \cap {"USER"})]]
      /\ page_tables' = [page_tables EXCEPT
           ![t] = [(IF fresh THEN clear_table ELSE page_tables[t]) EXCEPT ![e] = NewWord(p, flags)]]
      /\ tlb' = paging_invalidate(v)
      /\ ret' = Granted(0)
      /\ UNCHANGED <<enabled, at, address>>

LEMMA MapCases ==
  ASSUME IInv, NEW v \in Nat, NEW p, NEW flags, vmm_map_page(v, p, flags)
  PROVE  refuse \/ \E t \in Tables : MapGranted(v, p, flags, t)
  <1> DEFINE d == directory_index(v)
             e == entry_index(v)
             known == directory_table_indices[d]
             t == IF known # NONE THEN known ELSE allocate_dynamic_table
             fresh == known = NONE
             table == IF fresh THEN clear_table ELSE page_tables[t]
             refused == \/ ~ enabled \/ ~ dynamic_address_is_valid(v)
                        \/ Offset(p) # 0 \/ ~ flags \subseteq VMM_ALLOWED_FLAGS
                        \/ t = NONE \/ Present(table[e])
  <1>1. CASE refused
    BY <1>1, Zenon DEF vmm_map_page, NONE
  <1>2. CASE ~ refused
    <2>1. /\ table_in_use' = [table_in_use EXCEPT ![t] = TRUE]
          /\ directory_table_indices' = [directory_table_indices EXCEPT ![d] = t]
          /\ page_directory' = [page_directory EXCEPT
                ![d] = DirectoryWord(IF fresh THEN NoTable ELSE @, t, NewWord(p, flags).flags)]
          /\ page_tables' = [page_tables EXCEPT ![t] = [table EXCEPT ![e] = NewWord(p, flags)]]
          /\ tlb' = paging_invalidate(v)
          /\ ret' = Granted(0)
          /\ UNCHANGED <<enabled, at, address>>
      BY <1>2, Zenon DEF vmm_map_page, NONE, NewWord
    <2>2. at = "idle"
      BY Zenon DEF vmm_map_page
    <2>3. /\ enabled /\ dynamic_address_is_valid(v)
          /\ Offset(p) = 0 /\ flags \subseteq VMM_ALLOWED_FLAGS
          /\ t # NONE /\ ~ Present(table[e])
      BY <1>2, Zenon
    <2>4. d \in Directory
      BY <2>3, WindowAddress, Zenon
    <2>5. t \in Tables /\ (IF fresh THEN t \in FreeTables
                           ELSE t = directory_table_indices[d] /\ ~ Present(page_tables[t][e]))
      <3>1. CASE fresh
        BY <2>3, <3>1, AllocatedTable, Zenon DEF FreeTables
      <3>2. CASE ~ fresh
        BY <2>3, <2>4, <3>2, Zenon DEF IInv, TypeOK
      <3> QED  BY <3>1, <3>2, Zenon
    <2>6. page_directory' = [page_directory EXCEPT
           ![d] = [table |-> t,
                   flags |-> (IF fresh THEN {} ELSE page_directory[d].flags)
                               \cup {"PRESENT", "WRITABLE"} \cup (NewWord(p, flags).flags \cap {"USER"})]]
      <3>1. (IF fresh THEN NoTable ELSE page_directory[d]).flags
              = IF fresh THEN {} ELSE page_directory[d].flags
        BY Zenon DEF NoTable
      <3>2. page_directory' = [page_directory EXCEPT
              ![d] = DirectoryWord(IF fresh THEN NoTable ELSE page_directory[d], t, NewWord(p, flags).flags)]
        BY <2>1, Zenon
      <3> HIDE DEF fresh, t, d
      <3> QED  BY <3>1, <3>2, Zenon DEF DirectoryWord
    <2>7. MapGranted(v, p, flags, t)
      <3> HIDE DEF t
      <3> QED  BY <2>1, <2>2, <2>3, <2>5, <2>6, Zenon DEF MapGranted
    <2> QED  BY <2>5, <2>7, Zenon
  <1> QED  BY <1>1, <1>2, Zenon

(* The tables after such a call, entry by entry. *)
LEMMA MapEffect ==
  ASSUME IInv, NEW v \in Nat, NEW p \in Nat, NEW flags, NEW t \in Tables,
         MapGranted(v, p, flags, t)
  PROVE  LET d == directory_index(v)
             e == entry_index(v)
             fresh == directory_table_indices[d] = NONE
         IN  /\ d \in Directory \ IdentityTables /\ e \in Entries
             /\ t \notin IdentityTables
             /\ fresh => ~ Owned(t)
             /\ \A x \in Directory : x # d => directory_table_indices[x] # t
             /\ directory_table_indices'[d] = t
             /\ \A x \in Directory : x # d =>
                  /\ directory_table_indices'[x] = directory_table_indices[x]
                  /\ page_directory'[x] = page_directory[x]
             /\ page_directory'[d].table = t
             /\ {"PRESENT", "WRITABLE"} \subseteq page_directory'[d].flags
             /\ ~ fresh => page_directory[d].flags \subseteq page_directory'[d].flags
             /\ "USER" \in flags => "USER" \in page_directory'[d].flags
             /\ \A u \in Tables : u # t => page_tables'[u] = page_tables[u]
             /\ page_tables'[t][e] = NewWord(p, flags)
             /\ \A x \in Entries : x # e =>
                  page_tables'[t][x] = IF fresh THEN NoPage ELSE page_tables[t][x]
             /\ TypeOK'
             /\ NewWord(p, flags).flags = {"PRESENT"} \cup flags
  <1> DEFINE d == directory_index(v)
             e == entry_index(v)
             fresh == directory_table_indices[d] = NONE
             old == IF fresh THEN clear_table ELSE page_tables[t]
             new == NewWord(p, flags)
             dirFlags == (IF fresh THEN {} ELSE page_directory[d].flags)
                           \cup {"PRESENT", "WRITABLE"} \cup (new.flags \cap {"USER"})
  <1>1. TypeOK /\ PoolOK /\ enabled /\ at = "idle" /\ dynamic_address_is_valid(v)
    BY Zenon DEF MapGranted, IInv
  <1>2. d \in Directory /\ d \notin IdentityTables /\ e \in Entries
    BY <1>1, WindowAddress, Zenon
  <1>3. new.flags = {"PRESENT"} \cup flags /\ new \in [frame : Nat, flags : SUBSET HardwareFlags]
    <2>1. flags \subseteq {"WRITABLE", "USER"}
      BY Zenon DEF MapGranted, VMM_ALLOWED_FLAGS
    <2>2. PageOf(p) \in Nat
      BY Sizes, Divide, Zenon DEF PageOf, PS
    <2> QED  BY <2>1, <2>2, Zenon DEF NewWord, make_page_flags, VMM_ALLOWED_FLAGS, HardwareFlags
  <1>4. fresh => t \in FreeTables /\ ~ Owned(t) /\ t \notin IdentityTables
    BY <1>1, Zenon DEF MapGranted, FreeTables, PoolOK
  <1>5. ~ fresh => t = directory_table_indices[d] /\ t \notin IdentityTables
    BY <1>1, <1>2, Zenon DEF MapGranted, PoolOK, WordsOfWindow
  <1>6. \A x \in Directory : x # d => directory_table_indices[x] # t
    <2>1. CASE fresh
      BY <1>4, <2>1, Zenon DEF Owned
    <2>2. CASE ~ fresh
      BY <1>1, <1>2, <1>5, <2>2, Zenon DEF PoolOK
    <2> QED  BY <2>1, <2>2, Zenon
  <1>7. /\ table_in_use' = [table_in_use EXCEPT ![t] = TRUE]
        /\ directory_table_indices' = [directory_table_indices EXCEPT ![d] = t]
        /\ page_directory' = [page_directory EXCEPT ![d] = [table |-> t, flags |-> dirFlags]]
        /\ page_tables' = [page_tables EXCEPT ![t] = [old EXCEPT ![e] = new]]
        /\ UNCHANGED <<enabled, at, address>>
    BY Zenon DEF MapGranted
  <1>8. old \in [Entries -> [frame : Nat, flags : SUBSET HardwareFlags]]
    BY <1>1, ZeroWords, Zenon DEF TypeOK, clear_table
  <1>9. dirFlags \in SUBSET HardwareFlags
    <2>1. ~ fresh => page_directory[d].flags \in SUBSET HardwareFlags
      BY <1>1, <1>2, Zenon DEF TypeOK
    <2> QED  BY <2>1, Zenon DEF HardwareFlags
  <1>10. \A x \in Entries : x # e => old[x] = IF fresh THEN NoPage ELSE page_tables[t][x]
    BY Zenon DEF clear_table
  <1>11. "USER" \in flags => "USER" \in dirFlags
    BY <1>3, Zenon
  <1>12. ~ fresh => page_directory[d].flags \subseteq dirFlags
    BY Zenon
  <1>13. {"PRESENT", "WRITABLE"} \subseteq dirFlags
    BY Zenon
  <1> HIDE DEF d, e, fresh, old, new, dirFlags
  <1>14. page_tables'[t] = [old EXCEPT ![e] = new]
    BY <1>1, <1>7, Zenon DEF TypeOK
  <1>15. /\ page_tables'[t][e] = new
         /\ \A x \in Entries : x # e => page_tables'[t][x] = old[x]
         /\ \A u \in Tables : u # t => page_tables'[u] = page_tables[u]
    BY <1>1, <1>2, <1>7, <1>8, <1>14, Zenon DEF TypeOK
  <1>16. /\ directory_table_indices'[d] = t
         /\ \A x \in Directory : x # d =>
              /\ directory_table_indices'[x] = directory_table_indices[x]
              /\ page_directory'[x] = page_directory[x]
         /\ page_directory'[d] = [table |-> t, flags |-> dirFlags]
    BY <1>1, <1>2, <1>7, Zenon DEF TypeOK
  <1>17. TypeOK'
    <2>1. page_directory' \in [Directory -> [table : Tables \cup {NONE}, flags : SUBSET HardwareFlags]]
      BY <1>1, <1>7, <1>9, Zenon DEF TypeOK
    <2>2. page_tables' \in [Tables -> [Entries -> [frame : Nat, flags : SUBSET HardwareFlags]]]
      <3>1. [old EXCEPT ![e] = new] \in [Entries -> [frame : Nat, flags : SUBSET HardwareFlags]]
        BY <1>3, <1>8, Zenon DEF new
      <3> QED  BY <1>1, <1>7, <3>1, Zenon DEF TypeOK
    <2> QED  BY <1>1, <1>7, <2>1, <2>2, Zenon DEF TypeOK
  <1>18. page_directory'[d].table = t /\ page_directory'[d].flags = dirFlags
    BY <1>16
  <1> QED  BY <1>2, <1>3, <1>4, <1>5, <1>6, <1>10, <1>11, <1>12, <1>13, <1>15, <1>16,
              <1>17, <1>18, ZenonT(40) DEF d, e, fresh, new

(* Such a call adds its page to what the CPU sees and changes no other. *)
LEMMA MapView ==
  ASSUME IInv, NEW v \in Nat, NEW p \in Nat, NEW flags, NEW t \in Tables,
         MapGranted(v, p, flags, t)
  PROVE  /\ PageOf(v) \in VirtualPages
         /\ ~ Reaches(PageOf(v))
         /\ Reaches(PageOf(v))'
         /\ WordOf(PageOf(v))' = NewWord(p, flags)
         /\ \A q \in VirtualPages : q # PageOf(v) =>
              /\ Reaches(q)' <=> Reaches(q)
              /\ Reaches(q) => WordOf(q)' = WordOf(q)
  <1> DEFINE d == directory_index(v)
             e == entry_index(v)
             fresh == directory_table_indices[d] = NONE
  <1>1. /\ enabled /\ enabled' /\ dynamic_address_is_valid(v)
        /\ ~ fresh => t = directory_table_indices[d] /\ ~ Present(page_tables[t][e])
    BY Zenon DEF MapGranted
  <1>2. /\ PageOf(v) \in VirtualPages /\ DirOf(PageOf(v)) = d /\ EntryOf(PageOf(v)) = e
        /\ PageAt(d, e) = PageOf(v)
    BY <1>1, WindowAddress, Zenon
  <1>3. /\ d \in Directory /\ e \in Entries
        /\ \A x \in Directory : x # d => directory_table_indices[x] # t
        /\ directory_table_indices'[d] = t
        /\ \A x \in Directory : x # d => directory_table_indices'[x] = directory_table_indices[x]
        /\ \A u \in Tables : u # t => page_tables'[u] = page_tables[u]
        /\ page_tables'[t][e] = NewWord(p, flags)
        /\ \A x \in Entries : x # e =>
             page_tables'[t][x] = IF fresh THEN NoPage ELSE page_tables[t][x]
    BY MapEffect
  <1>4. t # NONE /\ Present(NewWord(p, flags))
    BY Spans, Zenon DEF NewWord, make_page_flags, Present
  <1>5. TypeOK
    BY Zenon DEF IInv
  <1> HIDE DEF d, e
  <1>6. ~ Reaches(PageOf(v))
    BY <1>1, <1>2, Zenon DEF Reaches, WordOf
  <1>7. Reaches(PageOf(v))' /\ WordOf(PageOf(v))' = NewWord(p, flags)
    BY <1>1, <1>2, <1>3, <1>4, Zenon DEF Reaches, WordOf
  <1>8. ASSUME NEW q \in VirtualPages, q # PageOf(v)
        PROVE  (Reaches(q)' <=> Reaches(q)) /\ (Reaches(q) => WordOf(q)' = WordOf(q))
    <2> DEFINE x == DirOf(q)
               y == EntryOf(q)
    <2>1. x \in Directory /\ y \in Entries /\ PageAt(x, y) = q
      BY PageEntries, Zenon
    <2>2. CASE x # d
      <3>1. /\ directory_table_indices'[x] = directory_table_indices[x]
            /\ directory_table_indices[x] # t
        BY <1>3, <2>1, <2>2, Zenon
      <3>2. CASE directory_table_indices[x] = NONE
        BY <3>1, <3>2, Zenon DEF Reaches
      <3>3. CASE directory_table_indices[x] # NONE
        <4>1. directory_table_indices[x] \in Tables
          BY <1>5, <2>1, <3>3, Zenon DEF TypeOK
        <4>2. WordOf(q)' = WordOf(q)
          BY <1>3, <3>1, <4>1, ZenonT(40) DEF WordOf
        <4> QED  BY <1>1, <3>1, <4>2, Zenon DEF Reaches
      <3> QED  BY <3>2, <3>3, Zenon
    <2>3. CASE x = d
      <3>1. y # e
        BY <1>2, <1>8, <2>1, <2>3, Zenon
      <3>2. WordOf(q)' = IF fresh THEN NoPage ELSE page_tables[t][y]
        BY <1>3, <2>1, <2>3, <3>1, Zenon DEF WordOf
      <3>3. CASE fresh
        BY <1>3, <2>3, <3>2, <3>3, ZeroWords, Zenon DEF Reaches
      <3>4. CASE ~ fresh
        <4>1. WordOf(q)' = WordOf(q)
          BY <1>1, <2>3, <3>2, <3>4, Zenon DEF WordOf
        <4> QED  BY <1>1, <1>3, <1>4, <2>3, <3>4, <4>1, Zenon DEF Reaches
      <3> QED  BY <3>3, <3>4, Zenon
    <2> QED  BY <2>2, <2>3, Zenon
  <1> QED  BY <1>2, <1>6, <1>7, <1>8, Zenon

(* What every step keeps that leaves the cached pages' words alone. *)
LEMMA CachedStep ==
  ASSUME IInv, TypeOK', PoolOK', enabled, enabled', at' # "invalidate",
         tlb' \subseteq tlb,
         \A c \in tlb' :
           /\ c \in Walk(c.page)
           /\ Reaches(c.page)' <=> Reaches(c.page)
           /\ Reaches(c.page) => WordOf(c.page)' = WordOf(c.page)
  PROVE  TlbOK'
  <1> SUFFICES ASSUME NEW c \in tlb'
               PROVE  c.page \in VirtualPages /\ (c \in Walk(c.page))'
    BY Zenon DEF TlbOK
  <1>1. c.page \in VirtualPages
    BY Zenon DEF IInv, TlbOK
  <1>2. Walk(c.page) = IF Reaches(c.page) THEN {View(c.page)} ELSE {}
    BY <1>1, Walking, Zenon DEF WalkIsView, IInv
  <1>3. Walk(c.page)' = IF Reaches(c.page)' THEN {View(c.page)'} ELSE {}
    BY <1>1, WalkingNext, Zenon DEF WalkIsView
  <1>4. Reaches(c.page) /\ Reaches(c.page)' /\ View(c.page)' = View(c.page)
    BY <1>2, Zenon DEF View
  <1> QED  BY <1>1, <1>2, <1>3, <1>4, Zenon

LEMMA MapStep ==
  ASSUME IInv, NEW v \in Nat, NEW p \in Nat, NEW flags, NEW t \in Tables,
         MapGranted(v, p, flags, t)
  PROVE  IInv'
  <1> DEFINE d == directory_index(v)
             e == entry_index(v)
             fresh == directory_table_indices[d] = NONE
  <1>1. /\ enabled /\ enabled' /\ at = "idle" /\ at' = "idle" /\ dynamic_address_is_valid(v)
        /\ flags \subseteq VMM_ALLOWED_FLAGS
        /\ ~ fresh => t = directory_table_indices[d]
        /\ table_in_use' = [table_in_use EXCEPT ![t] = TRUE]
        /\ tlb' = paging_invalidate(v)
    BY Zenon DEF MapGranted
  <1>2. /\ PageOf(v) \in VirtualPages /\ PageAt(d, e) = PageOf(v) /\ PageOf(v) * PS = v
    BY <1>1, WindowAddress, Zenon
  <1>3. /\ d \in Directory \ IdentityTables /\ e \in Entries
        /\ t \notin IdentityTables
        /\ fresh => ~ Owned(t)
        /\ \A x \in Directory : x # d => directory_table_indices[x] # t
        /\ directory_table_indices'[d] = t
        /\ \A x \in Directory : x # d =>
             /\ directory_table_indices'[x] = directory_table_indices[x]
             /\ page_directory'[x] = page_directory[x]
        /\ page_directory'[d].table = t
        /\ {"PRESENT", "WRITABLE"} \subseteq page_directory'[d].flags
        /\ ~ fresh => page_directory[d].flags \subseteq page_directory'[d].flags
        /\ "USER" \in flags => "USER" \in page_directory'[d].flags
        /\ \A u \in Tables : u # t => page_tables'[u] = page_tables[u]
        /\ page_tables'[t][e] = NewWord(p, flags)
        /\ \A x \in Entries : x # e =>
             page_tables'[t][x] = IF fresh THEN NoPage ELSE page_tables[t][x]
        /\ TypeOK'
        /\ NewWord(p, flags).flags = {"PRESENT"} \cup flags
    BY MapEffect
  <1>4. TypeOK /\ PoolOK
    BY <1>1, Zenon DEF IInv
  <1>5. t # NONE
    BY Spans, Zenon
  <1> HIDE DEF d, e, fresh
  <1>6. ASSUME NEW x \in Directory PROVE WordMatchesIndex(x)'
    <2>1. CASE x = d
      BY <1>3, <1>5, <2>1, Zenon DEF WordMatchesIndex
    <2>2. CASE x # d
      BY <1>3, <1>4, <2>2 DEF WordMatchesIndex, PoolOK
    <2> QED  BY <2>1, <2>2, Zenon
  <1>7. ASSUME NEW x \in IdentityTables PROVE IdentityKept(x)'
    <2>1. x \in Directory /\ x \in Tables /\ x # d /\ x # t
      BY <1>3, Spans, Zenon
    <2>2. IdentityKept(x)
      BY <1>4, Zenon DEF PoolOK
    <2>3. /\ page_tables'[x] = page_tables[x] /\ page_directory'[x] = page_directory[x]
          /\ directory_table_indices'[x] = directory_table_indices[x]
      BY <1>3, <2>1, Zenon
    <2> QED  BY <2>2, <2>3, Zenon DEF IdentityKept
  <1>8. ASSUME NEW x \in Directory \ IdentityTables, x # d
        PROVE  WordsOfWindow(x)' /\ InUse(x)'
    <2>1. WordsOfWindow(x) /\ InUse(x)
      BY <1>4, Zenon DEF PoolOK
    <2>2. /\ directory_table_indices'[x] = directory_table_indices[x]
          /\ directory_table_indices[x] # t
          /\ page_directory'[x] = page_directory[x]
      BY <1>3, <1>8, Zenon
    <2>3. CASE directory_table_indices[x] = NONE
      BY <2>2, <2>3, Zenon DEF WordsOfWindow, InUse
    <2>4. CASE directory_table_indices[x] # NONE
      <3>1. directory_table_indices[x] \in Tables
        BY <1>4, <2>4, Zenon DEF TypeOK
      <3>2. page_tables'[directory_table_indices[x]] = page_tables[directory_table_indices[x]]
        BY <1>3, <2>2, <3>1, Zenon
      <3>3. WordsOfWindow(x)'
        BY <2>1, <2>2, <3>2, Zenon DEF WordsOfWindow
      <3>4. InUse(x)'
        BY <1>1, <2>1, <2>2, <3>2, Zenon DEF InUse, Releasing, table_is_empty
      <3> QED  BY <3>3, <3>4, Zenon
    <2> QED  BY <2>3, <2>4, Zenon
  <1>9. WordsOfWindow(d)' /\ InUse(d)'
    <2>1. ASSUME NEW y \in Entries, Present(page_tables'[t][y])
          PROVE  /\ dynamic_address_is_valid(PageAt(d, y) * PS)
                 /\ "USER" \in page_tables'[t][y].flags => "USER" \in page_directory'[d].flags
      <3>1. CASE y = e
        <4>1. "USER" \in page_tables'[t][y].flags => "USER" \in flags
          BY <1>3, <3>1, Zenon
        <4> QED  BY <1>1, <1>2, <1>3, <3>1, <4>1, ZenonT(40)
      <3>2. CASE y # e
        <4>1. ~ fresh /\ page_tables'[t][y] = page_tables[t][y]
          BY <1>3, <2>1, <3>2, ZeroWords, Zenon
        <4>2. WordsOfWindow(d) /\ directory_table_indices[d] = t
          BY <1>1, <1>3, <1>4, <4>1, Zenon DEF PoolOK
        <4> QED  BY <1>3, <1>5, <2>1, <4>1, <4>2, Zenon DEF WordsOfWindow
      <3> QED  BY <3>1, <3>2, Zenon
    <2>2. Present(page_tables'[t][e])
      BY <1>3, Zenon DEF Present
    <2>3. WordsOfWindow(d)'
      BY <1>3, <2>1, Zenon DEF WordsOfWindow
    <2>4. InUse(d)'
      BY <1>3, <2>2, Zenon DEF InUse, table_is_empty
    <2> QED  BY <2>3, <2>4, Zenon
  <1>10. \A x, y \in Directory : directory_table_indices'[x] = directory_table_indices'[y]
           => x = y \/ directory_table_indices'[x] = NONE
    BY <1>3, <1>4 DEF PoolOK
  <1>11. ASSUME NEW u \in Tables PROVE (table_in_use[u] <=> Owned(u))'
    <2>1. CASE u = t
      BY <1>1, <1>3, <1>4, <2>1, Zenon DEF Owned, TypeOK
    <2>2. CASE u # t
      <3>1. table_in_use'[u] <=> Owned(u)
        BY <1>1, <1>4, <2>2, Zenon DEF TypeOK, PoolOK
      <3>2. directory_table_indices[d] # u
        BY <1>1, <1>5, <2>2, Spans, Zenon DEF fresh
      <3>3. Owned(u)' <=> Owned(u)
        BY <1>3, <2>2, <3>2, Zenon DEF Owned
      <3> QED  BY <3>1, <3>3, Zenon
    <2> QED  BY <2>1, <2>2, Zenon
  <1>12. PoolOK'
    BY <1>6, <1>7, <1>8, <1>9, <1>10, <1>11, Zenon DEF PoolOK
  <1>13. TlbOK'
    <2>1. ASSUME NEW c \in tlb'
          PROVE  /\ c \in Walk(c.page)
                 /\ Reaches(c.page)' <=> Reaches(c.page)
                 /\ Reaches(c.page) => WordOf(c.page)' = WordOf(c.page)
      <3>1. c \in tlb /\ c.page # PageOf(v)
        BY <1>1, Zenon DEF paging_invalidate
      <3>2. c.page \in VirtualPages /\ c \in Walk(c.page)
        BY <1>1, <3>1, Zenon DEF IInv, TlbOK
      <3> QED  BY <3>1, <3>2, MapView, Zenon
    <2>2. tlb' \subseteq tlb
      BY <1>1, Zenon DEF paging_invalidate
    <2> QED  BY <1>1, <1>3, <1>12, <2>1, <2>2, CachedStep, Zenon
  <1> QED  BY <1>1, <1>3, <1>12, <1>13, Zenon DEF IInv, UnmapOK

-----------------------------------------------------------------------------
(* vmm_unmap_page has cleared the word of a page that was mapped. *)
UnmapGranted(v) ==
  LET t == directory_table_indices[directory_index(v)]
      e == entry_index(v)
  IN  /\ enabled /\ at = "idle" /\ dynamic_address_is_valid(v)
      /\ t # NONE /\ Present(page_tables[t][e])
      /\ page_tables' = [page_tables EXCEPT ![t][e] = NoPage]
      /\ at' = "invalidate" /\ address' = v
      /\ ret' = Granted(page_tables[t][e].frame * VMM_PAGE_SIZE)
      /\ UNCHANGED <<page_directory, directory_table_indices, table_in_use, enabled, tlb>>

LEMMA UnmapCases ==
  ASSUME NEW v \in Nat, NEW noResult, vmm_unmap_page(v, noResult)
  PROVE  refuse \/ (UnmapGranted(v) /\ ~ noResult)
  <1> DEFINE t == directory_table_indices[directory_index(v)]
             refused == \/ ~ enabled \/ noResult \/ ~ dynamic_address_is_valid(v)
                        \/ t = NONE \/ ~ Present(page_tables[t][entry_index(v)])
  <1>1. CASE refused
    BY <1>1, Zenon DEF vmm_unmap_page, NONE
  <1>2. CASE ~ refused
    BY <1>2, Zenon DEF vmm_unmap_page, UnmapGranted, NONE
  <1> QED  BY <1>1, <1>2, Zenon

(* Its page disappears from what the CPU finds, and no other changes. *)
LEMMA UnmapView ==
  ASSUME IInv, NEW v \in Nat, UnmapGranted(v)
  PROVE  /\ PageOf(v) \in VirtualPages
         /\ Reaches(PageOf(v)) /\ ~ Reaches(PageOf(v))'
         /\ WordOf(PageOf(v)) = page_tables[directory_table_indices[directory_index(v)]][entry_index(v)]
         /\ \A q \in VirtualPages : q # PageOf(v) =>
              /\ Reaches(q)' <=> Reaches(q)
              /\ Reaches(q) => WordOf(q)' = WordOf(q)
  <1> DEFINE d == directory_index(v)
             e == entry_index(v)
             t == directory_table_indices[d]
  <1>1. /\ enabled /\ dynamic_address_is_valid(v)
        /\ t # NONE /\ Present(page_tables[t][e])
        /\ page_tables' = [page_tables EXCEPT ![t][e] = NoPage]
        /\ UNCHANGED <<directory_table_indices, enabled>>
    BY Zenon DEF UnmapGranted
  <1>2. /\ PageOf(v) \in VirtualPages /\ DirOf(PageOf(v)) = d /\ EntryOf(PageOf(v)) = e
        /\ PageAt(d, e) = PageOf(v) /\ d \in Directory /\ e \in Entries
    BY <1>1, WindowAddress, Zenon
  <1>3. TypeOK /\ PoolOK /\ t \in Tables
    BY <1>1, <1>2, Zenon DEF IInv, TypeOK
  <1>4. /\ page_tables'[t][e] = NoPage
        /\ \A y \in Entries : y # e => page_tables'[t][y] = page_tables[t][y]
        /\ \A u \in Tables : u # t => page_tables'[u] = page_tables[u]
    BY <1>1, <1>2, <1>3, Zenon DEF TypeOK
  <1> HIDE DEF d, e
  <1>5. Reaches(PageOf(v)) /\ WordOf(PageOf(v)) = page_tables[t][e]
    BY <1>1, <1>2, Zenon DEF Reaches, WordOf
  <1>6. ~ Reaches(PageOf(v))'
    BY <1>1, <1>2, <1>4, ZeroWords, Zenon DEF Reaches, WordOf
  <1>7. ASSUME NEW q \in VirtualPages, q # PageOf(v)
        PROVE  (Reaches(q)' <=> Reaches(q)) /\ (Reaches(q) => WordOf(q)' = WordOf(q))
    <2> DEFINE x == DirOf(q)
               y == EntryOf(q)
    <2>1. x \in Directory /\ y \in Entries /\ PageAt(x, y) = q
      BY PageEntries, Zenon
    <2>2. CASE directory_table_indices[x] = NONE
      BY <1>1, <2>2, Zenon DEF Reaches
    <2>3. CASE directory_table_indices[x] # NONE
      <3>1. directory_table_indices[x] \in Tables
        BY <1>3, <2>1, <2>3, Zenon DEF TypeOK
      <3>2. directory_table_indices[x] = t => x = d
        BY <1>2, <1>3, <2>1, <2>3, Zenon DEF PoolOK
      <3>3. x = d => y # e
        BY <1>2, <1>7, <2>1, Zenon
      <3>4. WordOf(q)' = WordOf(q)
        BY <1>1, <1>4, <2>1, <3>1, <3>2, <3>3, Zenon DEF WordOf
      <3> QED  BY <1>1, <3>4, Zenon DEF Reaches
    <2> QED  BY <2>2, <2>3, Zenon
  <1> QED  BY <1>2, <1>5, <1>6, <1>7, Zenon DEF d, e

LEMMA UnmapStep ==
  ASSUME IInv, NEW v \in Nat, UnmapGranted(v)
  PROVE  IInv'
  <1> DEFINE d == directory_index(v)
             e == entry_index(v)
             t == directory_table_indices[d]
  <1>1. /\ enabled /\ enabled' /\ at = "idle" /\ dynamic_address_is_valid(v)
        /\ t # NONE /\ Present(page_tables[t][e])
        /\ page_tables' = [page_tables EXCEPT ![t][e] = NoPage]
        /\ at' = "invalidate" /\ address' = v
        /\ UNCHANGED <<page_directory, directory_table_indices, table_in_use, enabled, tlb>>
    BY Zenon DEF UnmapGranted
  <1>2. d \in Directory \ IdentityTables /\ e \in Entries
    BY <1>1, WindowAddress, Zenon
  <1>3. TypeOK /\ PoolOK /\ t \in Tables
    BY <1>1, <1>2, Zenon DEF IInv, TypeOK
  <1>4. t \notin IdentityTables
    BY <1>1, <1>2, <1>3, Zenon DEF PoolOK, WordsOfWindow
  <1>5. /\ page_tables'[t][e] = NoPage
        /\ \A y \in Entries : y # e => page_tables'[t][y] = page_tables[t][y]
        /\ \A u \in Tables : u # t => page_tables'[u] = page_tables[u]
    BY <1>1, <1>2, <1>3, Zenon DEF TypeOK
  <1>6. TypeOK'
    <2>1. page_tables' \in [Tables -> [Entries -> [frame : Nat, flags : SUBSET HardwareFlags]]]
      BY <1>1, <1>3, ZeroWords, Zenon DEF TypeOK
    <2> QED  BY <1>1, <1>3, <2>1, Zenon DEF TypeOK
  <1>7. \A x \in Directory : Releasing(x)' <=> x = d
    BY <1>1, Zenon DEF Releasing
  <1> HIDE DEF d, e
  <1>8. ASSUME NEW x \in IdentityTables PROVE IdentityKept(x)'
    <2>1. x \in Tables /\ x # t
      BY <1>4, Spans, Zenon
    <2>2. IdentityKept(x) /\ page_tables'[x] = page_tables[x]
      BY <1>3, <1>5, <2>1, Zenon DEF PoolOK
    <2> QED  BY <1>1, <2>2, Zenon DEF IdentityKept
  <1>9. ASSUME NEW x \in Directory \ IdentityTables
        PROVE  WordsOfWindow(x)' /\ InUse(x)'
    <2>1. WordsOfWindow(x) /\ InUse(x) /\ ~ Releasing(x)
      BY <1>1, <1>3, Zenon DEF PoolOK, Releasing
    <2>2. CASE directory_table_indices[x] = NONE
      BY <1>1, <2>2, Zenon DEF WordsOfWindow, InUse
    <2>3. CASE directory_table_indices[x] # NONE /\ x # d
      <3>1. directory_table_indices[x] \in Tables /\ directory_table_indices[x] # t
        BY <1>2, <1>3, <2>3, Zenon DEF TypeOK, PoolOK
      <3>2. page_tables'[directory_table_indices[x]] = page_tables[directory_table_indices[x]]
        BY <1>5, <3>1, Zenon
      <3>3. WordsOfWindow(x)'
        BY <1>1, <2>1, <3>2, Zenon DEF WordsOfWindow
      <3>4. InUse(x)'
        BY <1>1, <2>1, <2>3, <3>2, Zenon DEF InUse, table_is_empty
      <3> QED  BY <3>3, <3>4, Zenon
    <2>4. CASE x = d
      <3>1. InUse(x)'
        BY <1>7, <2>4, Zenon DEF InUse
      <3>2. \A y \in Entries : Present(page_tables'[t][y]) => page_tables'[t][y] = page_tables[t][y]
        BY <1>5, ZeroWords, Zenon
      <3>3. WordsOfWindow(x)'
        BY <1>1, <2>1, <2>4, <3>2, Zenon DEF WordsOfWindow
      <3> QED  BY <3>1, <3>3, Zenon
    <2> QED  BY <2>2, <2>3, <2>4, Zenon
  <1>10. PoolOK'
    <2>1. \A x \in Directory : WordMatchesIndex(x)'
      BY <1>1, <1>3, Zenon DEF PoolOK, WordMatchesIndex
    <2>2. \A u \in Tables : (table_in_use[u] <=> Owned(u))'
      BY <1>1, <1>3, Zenon DEF PoolOK, Owned
    <2> QED  BY <1>1, <1>3, <1>8, <1>9, <2>1, <2>2, Zenon DEF PoolOK
  <1>11. UnmapOK'
    <2>1. t' = t /\ directory_index(address)' = d /\ entry_index(address)' = e
      BY <1>1, Zenon DEF d, e
    <2> QED  BY <1>1, <1>5, <2>1, ZeroWords, ZenonT(40) DEF UnmapOK
  <1>12. TlbOK'
    <2> SUFFICES ASSUME NEW c \in tlb, c.page # PageOf(v)
                 PROVE  c.page \in VirtualPages /\ (c \in Walk(c.page))'
      BY <1>1, Zenon DEF IInv, TlbOK
    <2>1. c.page \in VirtualPages /\ c \in Walk(c.page)
      BY <1>1, Zenon DEF IInv, TlbOK
    <2>2. /\ Reaches(c.page)' <=> Reaches(c.page)
          /\ Reaches(c.page) => WordOf(c.page)' = WordOf(c.page)
      BY <2>1, UnmapView, Zenon
    <2>3. Walk(c.page) = IF Reaches(c.page) THEN {View(c.page)} ELSE {}
      BY <2>1, Walking, Zenon DEF WalkIsView, IInv
    <2>4. Walk(c.page)' = IF Reaches(c.page)' THEN {View(c.page)'} ELSE {}
      BY <1>6, <1>10, <2>1, WalkingNext, Zenon DEF WalkIsView
    <2>5. Reaches(c.page) /\ Reaches(c.page)' /\ View(c.page)' = View(c.page)
      BY <2>1, <2>2, <2>3, Zenon DEF View
    <2> QED  BY <2>1, <2>3, <2>4, <2>5, Zenon
  <1> QED  BY <1>1, <1>6, <1>10, <1>11, <1>12, Zenon DEF IInv

(* Its invlpg drops what the CPU may have kept of the page. *)
LEMMA InvalidateStep ==
  ASSUME IInv, unmap_invalidate
  PROVE  IInv'
  <1>1. /\ at = "invalidate" /\ at' = "release" /\ tlb' = paging_invalidate(address)
        /\ UNCHANGED <<tables, enabled, address>>
    BY Zenon DEF unmap_invalidate
  <1>2. TypeOK'
    BY <1>1, Zenon DEF IInv, TypeOK, tables
  <1>3. (enabled => PoolOK)' /\ UnmapOK'
    BY <1>1 DEF IInv, tables, PoolOK, WordMatchesIndex, IdentityKept, WordsOfWindow,
           InUse, Releasing, Owned, UnmapOK, table_is_empty
  <1>4. \A page : Walk(page)' = Walk(page)
    BY <1>1, Zenon DEF tables, Walk
  <1>5. TlbOK'
    BY <1>1, <1>4, Zenon DEF IInv, TlbOK, paging_invalidate
  <1> QED  BY <1>1, <1>2, <1>3, <1>5, Zenon DEF IInv, UnmapOK

(* Its tail takes a table away only if the CPU finds no page through it. *)
LEMMA ReleaseEffect ==
  ASSUME IInv, unmap_release
  PROVE  LET d == directory_index(address)
             t == directory_table_indices[d]
         IN  /\ enabled /\ enabled' /\ at' = "idle" /\ d \in Directory \ IdentityTables
             /\ t \in Tables \ IdentityTables
             /\ page_tables' = page_tables /\ tlb' = tlb
             /\ IF table_is_empty(t)
                THEN /\ page_directory' = [page_directory EXCEPT ![d] = NoTable]
                     /\ directory_table_indices' = [directory_table_indices EXCEPT ![d] = NONE]
                     /\ table_in_use' = [table_in_use EXCEPT ![t] = FALSE]
                ELSE UNCHANGED <<page_directory, directory_table_indices, table_in_use>>
             /\ \A q \in VirtualPages :
                  /\ Reaches(q)' <=> Reaches(q)
                  /\ Reaches(q) => WordOf(q)' = WordOf(q)
  <1> DEFINE d == directory_index(address)
             t == directory_table_indices[d]
  <1>1. /\ at = "release" /\ at' = "idle" /\ UNCHANGED <<enabled, tlb>>
        /\ IF t \notin IdentityTables /\ table_is_empty(t)
           THEN /\ page_directory' = [page_directory EXCEPT ![d] = NoTable]
                /\ directory_table_indices' = [directory_table_indices EXCEPT ![d] = NONE]
                /\ table_in_use' = [table_in_use EXCEPT ![t] = FALSE]
                /\ UNCHANGED page_tables
           ELSE UNCHANGED tables
    BY Zenon DEF unmap_release, UnlinkTable, ReturnTable, NONE
  <1>2. /\ enabled /\ dynamic_address_is_valid(address) /\ address \in Nat
        /\ t # NONE /\ TypeOK /\ PoolOK
    BY <1>1, Zenon DEF IInv, UnmapOK, TypeOK
  <1>3. d \in Directory \ IdentityTables
    BY <1>2, WindowAddress, Zenon
  <1>4. t \in Tables \ IdentityTables
    BY <1>2, <1>3, Zenon DEF TypeOK, PoolOK, WordsOfWindow
  <1>5. page_tables' = page_tables
    BY <1>1, Zenon DEF tables
  <1>6. ASSUME NEW q \in VirtualPages
        PROVE  (Reaches(q)' <=> Reaches(q)) /\ (Reaches(q) => WordOf(q)' = WordOf(q))
    <2>1. DirOf(q) \in Directory /\ EntryOf(q) \in Entries
      BY PageEntries, Zenon
    <2>2. CASE ~ table_is_empty(t)
      BY <1>1, <2>2, Zenon DEF tables, Reaches, WordOf
    <2>3. CASE table_is_empty(t) /\ DirOf(q) = d
      <3>1. ~ Reaches(q)
        BY <2>1, <2>3, Zenon DEF Reaches, WordOf, table_is_empty
      <3>2. directory_table_indices'[d] = NONE
        BY <1>1, <1>2, <1>3, <1>4, <2>3, Zenon DEF TypeOK
      <3> QED  BY <2>3, <3>1, <3>2, Zenon DEF Reaches
    <2>4. CASE table_is_empty(t) /\ DirOf(q) # d
      <3>1. directory_table_indices'[DirOf(q)] = directory_table_indices[DirOf(q)]
        BY <1>1, <1>2, <1>4, <2>1, <2>4, Zenon DEF TypeOK
      <3> QED  BY <1>1, <1>5, <3>1, Zenon DEF Reaches, WordOf
    <2> QED  BY <2>2, <2>3, <2>4, Zenon
  <1> QED  BY <1>1, <1>2, <1>3, <1>4, <1>5, <1>6, Zenon DEF tables

LEMMA ReleaseStep ==
  ASSUME IInv, unmap_release
  PROVE  IInv'
  <1> DEFINE d == directory_index(address)
             t == directory_table_indices[d]
  <1>1. /\ enabled /\ enabled' /\ at' = "idle" /\ d \in Directory \ IdentityTables
        /\ t \in Tables \ IdentityTables
        /\ page_tables' = page_tables /\ tlb' = tlb
        /\ IF table_is_empty(t)
           THEN /\ page_directory' = [page_directory EXCEPT ![d] = NoTable]
                /\ directory_table_indices' = [directory_table_indices EXCEPT ![d] = NONE]
                /\ table_in_use' = [table_in_use EXCEPT ![t] = FALSE]
           ELSE UNCHANGED <<page_directory, directory_table_indices, table_in_use>>
    BY ReleaseEffect, Zenon
  <1>2. at = "release" /\ address' = 0 /\ UNCHANGED enabled
    BY Zenon DEF unmap_release
  <1>3. TypeOK /\ PoolOK
    BY <1>1, Zenon DEF IInv
  <1>4. t # NONE
    BY <1>1, Spans, Zenon
  <1>5. TypeOK'
    <2>1. CASE table_is_empty(t)
      <3>1. page_directory' \in [Directory -> [table : Tables \cup {NONE}, flags : SUBSET HardwareFlags]]
        BY <1>1, <1>3, <2>1, ZeroWords, Zenon DEF TypeOK
      <3> QED  BY <1>1, <1>2, <1>3, <2>1, <3>1, Zenon DEF TypeOK
    <2>2. CASE ~ table_is_empty(t)
      BY <1>1, <1>2, <1>3, <2>2, Zenon DEF TypeOK
    <2> QED  BY <2>1, <2>2, Zenon
  <1>6. PoolOK'
    <2>1. CASE ~ table_is_empty(t)
      <3>1. ASSUME NEW x \in Directory \ IdentityTables PROVE WordsOfWindow(x)' /\ InUse(x)'
        <4>1. WordsOfWindow(x) /\ InUse(x)
          BY <1>3, Zenon DEF PoolOK
        <4>2. WordsOfWindow(x)'
          BY <1>1, <2>1, <4>1, Zenon DEF WordsOfWindow
        <4>3. Releasing(x) => x = d
          BY Zenon DEF Releasing
        <4>4. InUse(x)'
          BY <1>1, <2>1, <4>1, <4>3, Zenon DEF InUse, table_is_empty
        <4> QED  BY <4>2, <4>4, Zenon
      <3>2. \A x \in Directory : WordMatchesIndex(x)'
        BY <1>1, <1>3, <2>1, Zenon DEF PoolOK, WordMatchesIndex
      <3>3. \A x \in IdentityTables : IdentityKept(x)'
        BY <1>1, <1>3, <2>1, ZenonT(40) DEF PoolOK, IdentityKept
      <3>4. \A u \in Tables : (table_in_use[u] <=> Owned(u))'
        BY <1>1, <1>3, <2>1, ZenonT(40) DEF PoolOK, Owned
      <3> QED  BY <1>1, <1>3, <2>1, <3>1, <3>2, <3>3, <3>4, Zenon DEF PoolOK
    <2>2. CASE table_is_empty(t)
      <3> HIDE DEF d
      <3>1. /\ directory_table_indices'[d] = NONE /\ page_directory'[d] = NoTable
            /\ \A x \in Directory : x # d =>
                 /\ directory_table_indices'[x] = directory_table_indices[x]
                 /\ page_directory'[x] = page_directory[x]
            /\ table_in_use'[t] = FALSE
            /\ \A u \in Tables : u # t => table_in_use'[u] = table_in_use[u]
        BY <1>1, <1>3, <2>2, Zenon DEF TypeOK
      <3>2. ASSUME NEW x \in Directory PROVE WordMatchesIndex(x)'
        BY <1>3, <3>1 DEF PoolOK, WordMatchesIndex
      <3>3. ASSUME NEW x \in IdentityTables PROVE IdentityKept(x)'
        <4>1. x \in Directory /\ x # d /\ IdentityKept(x)
          BY <1>1, <1>3, Spans, Zenon DEF PoolOK
        <4>2. /\ directory_table_indices'[x] = directory_table_indices[x]
              /\ page_directory'[x] = page_directory[x]
          BY <3>1, <4>1, Zenon
        <4> QED  BY <1>1, <4>1, <4>2, Zenon DEF IdentityKept
      <3>4. ASSUME NEW x \in Directory \ IdentityTables PROVE WordsOfWindow(x)' /\ InUse(x)'
        <4>1. WordsOfWindow(x) /\ InUse(x)
          BY <1>3, Zenon DEF PoolOK
        <4>2. CASE x = d
          BY <3>1, <4>2, Zenon DEF WordsOfWindow, InUse
        <4>3. CASE x # d
          <5>1. ~ Releasing(x)
            BY <4>3, Zenon DEF Releasing, d
          <5>2. /\ directory_table_indices'[x] = directory_table_indices[x]
                /\ page_directory'[x] = page_directory[x]
            BY <3>1, <4>3, Zenon
          <5> QED  BY <1>1, <4>1, <5>1, <5>2, Zenon DEF WordsOfWindow, InUse, table_is_empty
        <4> QED  BY <4>2, <4>3, Zenon
      <3>5. \A x, y \in Directory : directory_table_indices'[x] = directory_table_indices'[y]
              => x = y \/ directory_table_indices'[x] = NONE
        BY <1>3, <3>1 DEF PoolOK
      <3>6. ASSUME NEW u \in Tables PROVE (table_in_use[u] <=> Owned(u))'
        <4>1. table_in_use[u] <=> Owned(u)
          BY <1>3, Zenon DEF PoolOK
        <4>2. u # NONE
          BY Spans, Zenon
        <4>3. CASE u = t
          <5>1. \A x \in Directory : x # d => directory_table_indices[x] # t
            BY <1>1, <1>3, <1>4, Zenon DEF PoolOK
          <5>2. ~ Owned(u)'
            BY <3>1, <4>2, <4>3, <5>1, Zenon DEF Owned
          <5> QED  BY <3>1, <4>3, <5>2, Zenon
        <4>4. CASE u # t
          <5>1. Owned(u)' <=> Owned(u)
            BY <3>1, <4>2, <4>4, Zenon DEF Owned
          <5> QED  BY <3>1, <4>1, <4>4, <5>1, Zenon
        <4> QED  BY <4>3, <4>4, Zenon
      <3> QED  BY <3>2, <3>3, <3>4, <3>5, <3>6, Zenon DEF PoolOK
    <2> QED  BY <2>1, <2>2, Zenon
  <1>7. TlbOK'
    <2>1. \A c \in tlb' : c.page \in VirtualPages /\ c \in Walk(c.page)
      BY <1>1, <1>2, Zenon DEF IInv, TlbOK
    <2>2. \A q \in VirtualPages :
            /\ Reaches(q)' <=> Reaches(q)
            /\ Reaches(q) => WordOf(q)' = WordOf(q)
      BY ReleaseEffect, Zenon
    <2> QED  BY <1>1, <1>5, <1>6, <2>1, <2>2, CachedStep, Zenon
  <1> QED  BY <1>1, <1>5, <1>6, <1>7, Zenon DEF IInv, UnmapOK

LEMMA NextStep == IInv /\ [Next]_vars => IInv'
  <1> SUFFICES ASSUME IInv, [Next]_vars PROVE IInv'
    BY Zenon
  <1>1. CASE UNCHANGED vars
    BY <1>1, QuietStep, Zenon DEF vars
  <1>2. CASE vmm_init
    BY <1>2, EnableStep, Zenon
  <1>3. ASSUME refuse PROVE IInv'
    BY <1>3, QuietStep, Zenon DEF refuse
  <1>4. ASSUME NEW r \in MapRequests, vmm_map_page(r[1], r[2], r[3]) PROVE IInv'
    <2>1. r[1] \in Nat /\ r[2] \in Nat
      BY Requests, Zenon
    <2> QED  BY <1>3, <1>4, <2>1, MapCases, MapStep, Zenon
  <1>5. ASSUME NEW r \in UnmapRequests, vmm_unmap_page(r[1], r[2]) PROVE IInv'
    <2>1. r[1] \in Nat
      BY Requests, Zenon
    <2> QED  BY <1>3, <1>5, <2>1, UnmapCases, UnmapStep, Zenon
  <1>6. CASE unmap_invalidate
    BY <1>6, InvalidateStep, Zenon
  <1>7. CASE unmap_release
    BY <1>7, ReleaseStep, Zenon
  <1>8. CASE tlb_fill
    BY <1>8, FillStep, Zenon
  <1>9. CASE tlb_evict
    BY <1>9, QuietStep, Zenon DEF tlb_evict
  <1> QED  BY <1>1, <1>2, <1>4, <1>5, <1>6, <1>7, <1>8, <1>9, Zenon DEF Next

-----------------------------------------------------------------------------
(* vmm_translate, which follows directory_table_indices, answers for every *)
(* byte of the address space what the CPU finds by following the directory *)
(* words, also between the stores of vmm_unmap_page.                       *)
THEOREM TranslationsAgree == Spec => []TranslateMatchesHardware
  <1>1. ASSUME IInv PROVE TranslateMatchesHardware
    <2> SUFFICES ASSUME NEW page \in VirtualPages, NEW offset \in 0 .. VMM_PAGE_SIZE - 1
                 PROVE  vmm_translate(page * VMM_PAGE_SIZE + offset)
                          = {c.frame * VMM_PAGE_SIZE + offset : c \in Walk(page)}
      BY Zenon DEF TranslateMatchesHardware
    <2> DEFINE v == page * PS + offset
               d == DirOf(page)
               t == directory_table_indices[d]
    <2>1. /\ directory_index(v) = d /\ entry_index(v) = EntryOf(page)
          /\ Offset(v) = offset /\ d \in Directory
      BY AddressParts, PageEntries, Zenon DEF PS
    <2>2. Walk(page) = IF Reaches(page) THEN {View(page)} ELSE {}
      BY <1>1, Walking, Zenon DEF WalkIsView, IInv
    <2>3. enabled => (Present(page_directory[d]) <=> t # NONE)
      BY <1>1, <2>1, ZeroWords, Zenon DEF IInv, PoolOK, WordMatchesIndex, Present
    <2> HIDE DEF v
    <2>4. vmm_translate(v) = IF Reaches(page) THEN {WordOf(page).frame * PS + offset} ELSE {}
      BY <2>1, <2>3, Zenon DEF vmm_translate, Reaches, WordOf, NONE, PS
    <2>5. {c.frame * PS + offset : c \in Walk(page)}
            = IF Reaches(page) THEN {WordOf(page).frame * PS + offset} ELSE {}
      <3> DEFINE W == View(page)
                 x == WordOf(page).frame
                 Addr(c) == c.frame * PS + offset
      <3>1. Addr(W) = x * PS + offset
        BY Zenon DEF View
      <3>2. Reaches(page) => Walk(page) = {W}
        BY <2>2, Zenon
      <3>3. ~ Reaches(page) => Walk(page) = {}
        BY <2>2, Zenon
      <3> HIDE DEF W, Addr
      <3>4. Reaches(page) => {Addr(c) : c \in Walk(page)} = {Addr(W)}
        BY <3>2, Zenon
      <3>5. ~ Reaches(page) => {Addr(c) : c \in Walk(page)} = {}
        BY <3>3, Zenon
      <3>6. {Addr(c) : c \in Walk(page)} = IF Reaches(page) THEN {x * PS + offset} ELSE {}
        BY <3>1, <3>4, <3>5, Zenon
      <3> QED  BY <3>6, Zenon DEF Addr
    <2> QED  BY <2>4, <2>5, Zenon DEF PS, v
  <1> QED  BY <1>1, InitStep, NextStep, PTL DEF Spec

(* Every page table is in use exactly when one directory entry refers to   *)
(* it, and dynamic tables are given back when their last page goes.        *)
THEOREM PoolIsExact == Spec => []TablePoolExact
  <1>1. ASSUME IInv PROVE TablePoolExact
    <2> SUFFICES ASSUME enabled, at = "idle", NEW t \in Tables
                 PROVE  /\ Cardinality({d \in Directory : directory_table_indices[d] = t})
                             = IF table_in_use[t] THEN 1 ELSE 0
                        /\ t \notin IdentityTables /\ table_in_use[t] => ~ table_is_empty(t)
      BY Zenon DEF TablePoolExact
    <2> DEFINE users == {d \in Directory : directory_table_indices[d] = t}
    <2>1. PoolOK /\ t # NONE
      BY <1>1, Spans, Zenon DEF IInv
    <2>2. CASE table_in_use[t]
      <3>1. PICK d \in Directory : directory_table_indices[d] = t
        BY <2>1, <2>2, Zenon DEF PoolOK, Owned
      <3>2. users = {d}
        BY <2>1, <3>1, Zenon DEF PoolOK
      <3>3. Cardinality(users) = 1
        BY <3>2, FS_Singleton, Zenon
      <3>4. t \notin IdentityTables => d \notin IdentityTables
        BY <2>1, <3>1, Zenon DEF PoolOK, IdentityKept
      <3>5. t \notin IdentityTables => ~ table_is_empty(t)
        BY <2>1, <3>1, <3>4, Zenon DEF PoolOK, InUse, Releasing
      <3> QED  BY <2>2, <3>3, <3>5, Zenon
    <2>3. CASE ~ table_in_use[t]
      <3>1. users = {}
        BY <2>1, <2>3, Zenon DEF PoolOK, Owned
      <3>2. Cardinality(users) = 0
        BY <3>1, FS_EmptySet, Zenon
      <3> QED  BY <2>3, <3>2, Zenon
    <2> QED  BY <2>2, <2>3, Zenon
  <1> QED  BY <1>1, InitStep, NextStep, PTL DEF Spec

(* Once vmm_unmap_page has executed its invlpg, and whenever no unmapping  *)
(* is under way, the CPU's cache holds only translations of the tables.    *)
THEOREM CacheIsCurrent == Spec => []NoStaleTranslation
  <1>1. IInv => NoStaleTranslation
    BY Zenon DEF IInv, TlbOK, NoStaleTranslation
  <1> QED  BY <1>1, InitStep, NextStep, PTL DEF Spec

-----------------------------------------------------------------------------
(* The tables implement module AddressSpace.  The map it speaks of, in     *)
(* terms of the words the kernel keeps:                                    *)
Seen == {page \in VirtualPages : Reaches(page)}
Attributes(page) == [frame |-> WordOf(page).frame,
                     rights |-> WordOf(page).flags \cap VMM_ALLOWED_FLAGS]

MapIsSeen ==
  TypeOK /\ (enabled => PoolOK) => mapping = [page \in Seen |-> Attributes(page)]

LEMMA Mapping == MapIsSeen
  <1> SUFFICES ASSUME TypeOK, enabled => PoolOK
               PROVE  mapping = [page \in Seen |-> Attributes(page)]
    BY Zenon DEF MapIsSeen
  <1> DEFINE M(page) == {[frame |-> c.frame, rights |-> c.rights] : c \in Walk(page)}
  <1>1. \A page \in VirtualPages : Walk(page) = IF Reaches(page) THEN {View(page)} ELSE {}
    BY Walking, Zenon DEF WalkIsView
  <1>2. {q \in VirtualPages : Walk(q) # {}} = Seen
    BY <1>1, Zenon DEF Seen
  <1>3. ASSUME NEW page \in Seen PROVE (CHOOSE m \in M(page) : TRUE) = Attributes(page)
    <2>1. Walk(page) = {View(page)}
      BY <1>1, Zenon DEF Seen
    <2>2. View(page).frame = WordOf(page).frame
          /\ View(page).rights = WordOf(page).flags \cap VMM_ALLOWED_FLAGS
      BY Zenon DEF View
    <2>3. M(page) = {Attributes(page)}
      BY <2>1, <2>2, Zenon DEF Attributes
    <2> QED  BY <2>3, Zenon
  <1>4. mapping = [page \in Seen |-> CHOOSE m \in M(page) : TRUE]
    BY <1>2, Zenon DEF mapping
  <1> QED  BY <1>3, <1>4, Zenon

LEMMA MappingNext == MapIsSeen'
  BY Mapping, PTL

(* The regions in use are the dynamic directory entries that have a table, *)
(* and there is room for one more exactly when a table is free.            *)
Linked == {d \in Directory \ IdentityTables : directory_table_indices[d] # NONE}

WindowPages == {page \in VirtualPages : dynamic_address_is_valid(page * VMM_PAGE_SIZE)}

LEMMA RegionsLinked ==
  ASSUME IInv, enabled, at = "idle"
  PROVE  {page \div PAGE_TABLE_ENTRIES : page \in Seen \cap WindowPages} = Linked
  <1>1. ASSUME NEW page \in Seen \cap WindowPages PROVE DirOf(page) \in Linked
    <2>1. /\ page \in VirtualPages /\ page \in Nat /\ dynamic_address_is_valid(page * PS)
          /\ directory_table_indices[DirOf(page)] # NONE
      BY PageEntries, Zenon DEF Seen, WindowPages, Reaches, PS
    <2>2. page * PS \in Nat
      BY <2>1, Sizes
    <2>3. directory_index(page * PS) = DirOf(page)
      BY <2>1, PageParts, Zenon
    <2>4. DirOf(page) \in Directory \ IdentityTables
      BY <2>1, <2>2, <2>3, WindowAddress, Zenon
    <2> QED  BY <2>1, <2>4, Zenon DEF Linked
  <1>2. ASSUME NEW d \in Linked PROVE \E page \in Seen \cap WindowPages : d = DirOf(page)
    <2>1. /\ d \in Directory \ IdentityTables /\ directory_table_indices[d] # NONE
          /\ WordsOfWindow(d) /\ InUse(d) /\ ~ Releasing(d)
      BY Zenon DEF Linked, IInv, PoolOK, Releasing
    <2>2. PICK e \in Entries : Present(page_tables[directory_table_indices[d]][e])
      BY <2>1, Zenon DEF InUse, table_is_empty
    <2>3. dynamic_address_is_valid(PageAt(d, e) * PS)
      BY <2>1, <2>2, Zenon DEF WordsOfWindow
    <2>4. PageAt(d, e) \in VirtualPages /\ DirOf(PageAt(d, e)) = d /\ EntryOf(PageAt(d, e)) = e
      BY <2>1, EntriesPage, Zenon
    <2>5. Reaches(PageAt(d, e))
      BY <2>1, <2>2, <2>4, Zenon DEF Reaches, WordOf
    <2> QED  BY <2>3, <2>4, <2>5, Zenon DEF Seen, WindowPages, PS
  <1> QED  BY <1>1, <1>2, Zenon DEF DirOf, PTE

LEMMA RoomForRegion ==
  ASSUME IInv, enabled
  PROVE  Cardinality(Linked) < PAGE_TABLE_COUNT - IDENTITY_TABLE_COUNT <=> FreeTables # {}
  <1> DEFINE Dynamic == Tables \ IdentityTables
             Used == Dynamic \ FreeTables
             f == [d \in Linked |-> directory_table_indices[d]]
  <1>1. TypeOK /\ PoolOK
    BY Zenon DEF IInv
  <1>2. IsFiniteSet(Tables) /\ Cardinality(Tables) = PAGE_TABLE_COUNT
    <2>1. 0 \in Int /\ PAGE_TABLE_COUNT - 1 \in Int /\ PAGE_TABLE_COUNT \in Nat \ {0}
      BY Sizes
    <2> QED  BY <2>1, FS_Interval DEF Tables
  <1>3. IsFiniteSet(IdentityTables) /\ Cardinality(IdentityTables) = IDENTITY_TABLE_COUNT
    <2>1. 0 \in Int /\ IDENTITY_TABLE_COUNT - 1 \in Int /\ IDENTITY_TABLE_COUNT \in Nat \ {0}
      BY Sizes
    <2> QED  BY <2>1, FS_Interval DEF IdentityTables
  <1>4. IsFiniteSet(Dynamic) /\ Cardinality(Dynamic) = PAGE_TABLE_COUNT - IDENTITY_TABLE_COUNT
    <2>1. Tables \cap IdentityTables = IdentityTables
      BY Spans, Zenon
    <2> QED  BY <1>2, <1>3, <2>1, FS_Difference
  <1>5. FreeTables \subseteq Dynamic
    BY Zenon DEF FreeTables
  <1>6. IsFiniteSet(Used) /\ Cardinality(Used) <= Cardinality(Dynamic)
        /\ (Cardinality(Used) = Cardinality(Dynamic) <=> FreeTables = {})
    <2>1. /\ IsFiniteSet(Used) /\ Cardinality(Used) <= Cardinality(Dynamic)
          /\ Cardinality(Dynamic) = Cardinality(Used) => Dynamic = Used
      BY <1>4, FS_Subset, Zenon
    <2>2. Dynamic = Used <=> FreeTables = {}
      BY <1>5, Zenon
    <2> QED  BY <2>1, <2>2, Zenon
  <1>7. Cardinality(Linked) = Cardinality(Used)
    <2>1. \A d \in Linked : directory_table_indices[d] \in Used
      BY <1>1, Zenon DEF Linked, TypeOK, PoolOK, WordsOfWindow, FreeTables, Owned
    <2>2. f \in Injection(Linked, Used)
      BY <1>1, <2>1, Zenon DEF Injection, IsInjective, Linked, PoolOK
    <2>3. \A t \in Used : \E d \in Linked : directory_table_indices[d] = t
      <3> SUFFICES ASSUME NEW t \in Used PROVE \E d \in Linked : directory_table_indices[d] = t
        BY Zenon
      <3>1. PICK d \in Directory : directory_table_indices[d] = t
        BY <1>1, Zenon DEF FreeTables, PoolOK, Owned
      <3>2. d \notin IdentityTables /\ t # NONE
        BY <1>1, <3>1, Spans, Zenon DEF PoolOK, IdentityKept
      <3> QED  BY <3>1, <3>2, Zenon DEF Linked
    <2>4. f \in Surjection(Linked, Used)
      BY <2>1, <2>3, Zenon DEF Surjection
    <2> QED  BY <1>6, <2>2, <2>4, FS_Injection, Zenon
  <1>8. Cardinality(Used) \in Nat /\ Cardinality(Dynamic) \in Nat
    BY <1>4, <1>6, FS_CardinalityType, Zenon
  <1> QED  BY <1>4, <1>6, <1>7, <1>8

(* The two descriptions of the window agree. *)
LEMMA InTheWindow ==
  ASSUME NEW v \in Nat
  PROVE  Space!InWindow(v) <=> dynamic_address_is_valid(v)
  <1>0. Space!InWindow(v) <=> v % PS = 0 /\ v \div PS \in WindowPages
    BY Zenon DEF Space!InWindow, WindowPages, PS
  <1>1. ASSUME v % PS = 0, v \div PS \in WindowPages PROVE dynamic_address_is_valid(v)
    <2> DEFINE p == v \div PS
    <2>1. p \in Nat /\ v = PS * p + (v % PS)
      BY Sizes, Divide, Zenon
    <2>2. dynamic_address_is_valid(p * PS)
      BY <1>1, Zenon DEF WindowPages, PS
    <2> HIDE DEF p
    <2>3. p * PS = PS * p /\ PS * p \in Nat
      BY <2>1, Sizes
    <2>4. v = p * PS
      BY <1>1, <2>1, <2>3
    <2> QED  BY <2>2, <2>4, Zenon
  <1>2. ASSUME dynamic_address_is_valid(v) PROVE v % PS = 0 /\ v \div PS \in WindowPages
    BY <1>2, WindowAddress, Zenon DEF dynamic_address_is_valid, Offset, PageOf, WindowPages, PS
  <1> QED  BY <1>0, <1>1, <1>2, Zenon

(* The initial state, and the steps that the map does not show. *)
LEMMA SpaceInit == Init => Space!Init
  <1> SUFFICES ASSUME Init PROVE Space!Init
    BY Zenon
  <1>1. \A q : Walk(q) = {}
    BY Zenon DEF Init, Walk
  <1>2. mapping = << >>
    BY <1>1 DEF mapping
  <1> QED  BY <1>2, Zenon DEF Init, Space!Init, Granted, Space!Yes

LEMMA SameMapping ==
  ASSUME IInv, IInv',
         \A q \in VirtualPages : /\ Reaches(q)' <=> Reaches(q)
                                 /\ Reaches(q) => WordOf(q)' = WordOf(q)
  PROVE  mapping' = mapping
  <1>1. mapping = [page \in Seen |-> Attributes(page)]
    BY Mapping, Zenon DEF MapIsSeen, IInv
  <1>2. mapping' = [page \in Seen' |-> Attributes(page)']
    BY MappingNext, Zenon DEF MapIsSeen, IInv
  <1>3. Seen' = Seen /\ \A q \in Seen : Attributes(q)' = Attributes(q)
    BY Zenon DEF Seen, Attributes
  <1> QED  BY <1>1, <1>2, <1>3, Zenon

LEMMA QuietMapping ==
  ASSUME UNCHANGED <<tables, enabled>>
  PROVE  mapping' = mapping
  BY DEF tables, mapping, Walk

(* Switching on shows the identity map without page 0. *)
LEMMA SwitchedOn ==
  ASSUME IInv, IInv', vmm_init
  PROVE  Space!SwitchOn
  <1> DEFINE Fixed == 1 .. IDENTITY_TABLE_COUNT * PAGE_TABLE_ENTRIES - 1
  <1>1. CASE enabled
    <2>1. UNCHANGED <<tables, enabled>>
      BY <1>1, Zenon DEF vmm_init
    <2> QED  BY <1>1, <2>1, QuietMapping, Zenon DEF vmm_init, Space!SwitchOn, Granted, Space!Yes
  <1>2. CASE ~ enabled
    <2>1. /\ directory_table_indices' = [d \in Directory |->
               IF d \in IdentityTables THEN d ELSE NONE]
          /\ enabled' = TRUE /\ request' = [op |-> "init"] /\ ret' = Granted(0)
      BY <1>2, Zenon DEF vmm_init, NONE
    <2>2. \A d \in IdentityTables : IdentityKept(d)'
      BY <2>1, Zenon DEF IInv, PoolOK
    <2>3. ASSUME NEW q \in VirtualPages
          PROVE  /\ Reaches(q)' <=> q \in Fixed
                 /\ q \in Fixed => Attributes(q)' = [frame |-> q, rights |-> {"WRITABLE"}]
      <3> DEFINE d == DirOf(q)
                 e == EntryOf(q)
      <3>1. d \in Directory /\ e \in Entries /\ PageAt(d, e) = q /\ q \in Nat
        BY PageEntries, Zenon
      <3>2. d \in IdentityTables <=> q < IDENTITY_TABLE_COUNT * PTE
        <4> DEFINE I == IDENTITY_TABLE_COUNT
                   x == PTE * d
                   y == I * PTE
        <4>1. d \in Nat /\ e \in Nat /\ e < PTE /\ I \in Nat
          BY <3>1, Spans, Sizes, Zenon
        <4>2. x \in Nat /\ y \in Nat /\ q = x + e
          BY <3>1, <4>1, Sizes DEF PageAt
        <4>3. d < I <=> x < y
          <5>1. PTE * I = y
            BY <4>1, Sizes
          <5> QED  BY <4>1, <5>1, Sizes, Monotone, Zenon
        <4>4. d + 1 < I + 1 <=> x + PTE < y + PTE
          BY <4>1, <4>2, <4>3, Sizes
        <4>5. d < I => x + PTE <= y
          <5>1. d + 1 < I <=> PTE * (d + 1) < PTE * I
            BY <4>1, Sizes, Monotone
          <5>2. PTE * (d + 1) = x + PTE /\ PTE * I = y
            BY <4>1, Sizes
          <5>3. d + 1 = I => x + PTE = y
            BY <4>1, <5>2, Zenon
          <5> HIDE DEF x, y
          <5> QED  BY <4>1, <4>2, <5>1, <5>2, <5>3, Sizes
        <4>6. d \in IdentityTables <=> d < I
          BY <4>1 DEF IdentityTables
        <4> HIDE DEF x, y
        <4>7. d < I <=> q < y
          BY <4>1, <4>2, <4>3, <4>5, Sizes
        <4> QED  BY <4>6, <4>7, Zenon DEF y
      <3>3. q \in Fixed <=> q # 0 /\ d \in IdentityTables
        <4> DEFINE y == IDENTITY_TABLE_COUNT * PTE
        <4>1. y \in Nat
          BY Sizes
        <4>2. q \in Fixed <=> q \in 1 .. y - 1
          BY Zenon DEF PTE
        <4> HIDE DEF y, Fixed
        <4> QED  BY <3>1, <3>2, <4>1, <4>2 DEF y
      <3> HIDE DEF d, e, Fixed
      <3>4. CASE d \notin IdentityTables
        <4>1. directory_table_indices'[d] = NONE
          BY <2>1, <3>1, <3>4, Zenon
        <4> QED  BY <3>3, <3>4, <4>1, Zenon DEF Reaches, d
      <3>5. CASE d \in IdentityTables
        <4>1. directory_table_indices'[d] = d /\ d # NONE
          BY <2>1, <3>1, <3>5, Spans, Zenon
        <4>2. page_tables'[d][e] =
                IF q # 0 THEN [frame |-> q, flags |-> {"PRESENT", "WRITABLE"}] ELSE NoPage
          <5>1. IdentityKept(d)'
            BY <2>2, <3>5, Zenon
          <5> QED  BY <3>1, <5>1, Zenon DEF IdentityKept
        <4>3. WordOf(q)' = page_tables'[d][e]
          BY <4>1, Zenon DEF WordOf, d, e
        <4>4. Reaches(q)' <=> Present(page_tables'[d][e])
          BY <2>1, <4>1, <4>3, Zenon DEF Reaches, d
        <4>5. CASE q = 0
          BY <3>3, <4>2, <4>4, <4>5, ZeroWords, Zenon
        <4>6. CASE q # 0
          <5>1. WordOf(q)' = [frame |-> q, flags |-> {"PRESENT", "WRITABLE"}]
            BY <4>2, <4>3, <4>6, Zenon
          <5>2. Reaches(q)'
            BY <4>3, <4>4, <5>1 DEF Present
          <5>3. Attributes(q)' = [frame |-> q, rights |-> {"WRITABLE"}]
            BY <5>1 DEF Attributes, VMM_ALLOWED_FLAGS
          <5> QED  BY <3>3, <3>5, <4>6, <5>2, <5>3, Zenon
        <4> QED  BY <4>5, <4>6, Zenon
      <3> QED  BY <3>4, <3>5, Zenon
    <2>4. Fixed \subseteq VirtualPages
      <3> DEFINE x == IDENTITY_TABLE_COUNT * PAGE_TABLE_ENTRIES
                 y == PAGE_DIRECTORY_ENTRIES * PAGE_TABLE_ENTRIES
      <3>1. PTE * (PAGE_DIRECTORY_ENTRIES - IDENTITY_TABLE_COUNT) >= 0
        BY Sizes
      <3>2. PTE * (PAGE_DIRECTORY_ENTRIES - IDENTITY_TABLE_COUNT) = y - x /\ x \in Nat /\ y \in Nat
        BY Sizes DEF PTE
      <3>3. VirtualPages = 0 .. y - 1
        BY Zenon DEF VirtualPages
      <3> HIDE DEF x, y
      <3>4. x <= y
        BY <3>1, <3>2
      <3>5. 1 .. x - 1 \subseteq 0 .. y - 1
        BY <3>2, <3>4
      <3> QED  BY <3>3, <3>5, Zenon DEF x
    <2> HIDE DEF Fixed
    <2>5. mapping' = [page \in Seen' |-> Attributes(page)']
      BY MappingNext, Zenon DEF MapIsSeen, IInv
    <2>6. Seen' = Fixed
      BY <2>3, <2>4, Zenon DEF Seen
    <2>7. mapping' = [page \in Fixed |-> [frame |-> page, rights |-> {"WRITABLE"}]]
      BY <2>3, <2>4, <2>5, <2>6, Zenon
    <2> QED  BY <1>2, <2>1, <2>7, Zenon DEF Space!SwitchOn, Granted, Space!Yes, Fixed
  <1> QED  BY <1>1, <1>2, Zenon

(* When module AddressSpace grants a map call, and when the code does. *)
Grantable(v, p, flags) ==
  /\ enabled /\ Space!InWindow(v) /\ p % VMM_PAGE_SIZE = 0 /\ flags \subseteq VMM_ALLOWED_FLAGS
  /\ v \div VMM_PAGE_SIZE \notin Space!Mapped
  /\ \/ Space!Region(v \div VMM_PAGE_SIZE) \in Space!UsedRegions
     \/ Cardinality(Space!UsedRegions) < PAGE_TABLE_COUNT - IDENTITY_TABLE_COUNT

MapRefused(v, p, flags) ==
  LET d == directory_index(v)
      e == entry_index(v)
      known == directory_table_indices[d]
      t == IF known # TABLE_INDEX_NONE THEN known ELSE allocate_dynamic_table
      table == IF known = TABLE_INDEX_NONE THEN clear_table ELSE page_tables[t]
  IN  \/ ~ enabled \/ ~ dynamic_address_is_valid(v)
      \/ Offset(p) # 0 \/ ~ flags \subseteq VMM_ALLOWED_FLAGS
      \/ t = TABLE_INDEX_NONE \/ Present(table[e])

LEMMA GrantsAgree ==
  ASSUME IInv, at = "idle", NEW v \in Nat, NEW p \in Nat, NEW flags
  PROVE  Grantable(v, p, flags) <=> ~ MapRefused(v, p, flags)
  <1> DEFINE page == PageOf(v)
             d == directory_index(v)
             e == entry_index(v)
             known == directory_table_indices[d]
             t == IF known # NONE THEN known ELSE allocate_dynamic_table
             table == IF known = NONE THEN clear_table ELSE page_tables[t]
             base == /\ enabled /\ dynamic_address_is_valid(v)
                     /\ Offset(p) = 0 /\ flags \subseteq VMM_ALLOWED_FLAGS
  <1>1. mapping = [q \in Seen |-> Attributes(q)]
    BY Mapping, Zenon DEF MapIsSeen, IInv
  <1>2. Space!Mapped = Seen
    BY <1>1, Zenon DEF Space!Mapped
  <1>3. Space!UsedRegions = {q \div PAGE_TABLE_ENTRIES : q \in Seen \cap WindowPages}
    BY <1>2, Zenon DEF Space!UsedRegions, Space!Region, WindowPages
  <1>4. Space!Region(page) = DirOf(page)
    BY Zenon DEF Space!Region, DirOf, PTE
  <1>5. Grantable(v, p, flags) <=>
          /\ base /\ page \notin Seen
          /\ \/ DirOf(page) \in Space!UsedRegions
             \/ Cardinality(Space!UsedRegions) < PAGE_TABLE_COUNT - IDENTITY_TABLE_COUNT
    BY <1>2, <1>4, InTheWindow, Zenon DEF Grantable, PageOf, Offset
  <1>6. MapRefused(v, p, flags) <=> ~ base \/ t = NONE \/ Present(table[e])
    BY Zenon DEF MapRefused, NONE
  <1>7. CASE ~ base
    BY <1>5, <1>6, <1>7, Zenon
  <1>8. CASE base
    <2>1. Space!UsedRegions = Linked
      BY <1>3, <1>8, RegionsLinked, Zenon
    <2>2. Cardinality(Linked) < PAGE_TABLE_COUNT - IDENTITY_TABLE_COUNT <=> FreeTables # {}
      BY <1>8, RoomForRegion, Zenon
    <2>3. /\ page \in VirtualPages /\ DirOf(page) = d /\ EntryOf(page) = e
          /\ d \in Directory \ IdentityTables /\ e \in Entries
      BY <1>8, WindowAddress, Zenon
    <2>4. page \in Seen <=> known # NONE /\ Present(page_tables[known][e])
      BY <1>8, <2>3, Zenon DEF Seen, Reaches, WordOf
    <2>5. DirOf(page) \in Linked <=> known # NONE
      BY <2>3, Zenon DEF Linked
    <2>6. CASE known # NONE
      BY <1>5, <1>6, <1>8, <2>1, <2>4, <2>5, <2>6, Zenon
    <2>7. CASE known = NONE
      <3>1. ~ Present(table[e])
        BY <2>3, <2>7, ZeroWords, Zenon DEF clear_table
      <3>2. t = NONE <=> FreeTables = {}
        BY <2>7, AllocatedTable, Spans, Zenon DEF FreeTables
      <3> QED  BY <1>5, <1>6, <1>8, <2>1, <2>2, <2>4, <2>5, <2>7, <3>1, <3>2, ZenonT(40)
    <2> QED  BY <2>6, <2>7, Zenon
  <1> QED  BY <1>7, <1>8, Zenon

(* Both modules count with the same Cardinality. *)
LEMMA SameCount == \A T : Space!Cardinality(T) = Cardinality(T)
  BY Zenon DEF Space!Cardinality, Cardinality

LEMMA SpaceMap ==
  ASSUME IInv, IInv', NEW v \in Nat, NEW p \in Nat, NEW flags, vmm_map_page(v, p, flags)
  PROVE  Space!Map(v, p, flags)
  <1> DEFINE page == v \div VMM_PAGE_SIZE
             new == [frame |-> p \div VMM_PAGE_SIZE, rights |-> flags]
             G == Grantable(v, p, flags)
  <1>1. at = "idle" /\ request' = [op |-> "map", v |-> v, p |-> p, flags |-> flags]
    BY Zenon DEF vmm_map_page
  <1>2. G <=> ~ MapRefused(v, p, flags)
    BY <1>1, GrantsAgree, Zenon
  <1>3. Space!Map(v, p, flags) <=>
          /\ request' = [op |-> "map", v |-> v, p |-> p, flags |-> flags]
          /\ ret' = IF G THEN Space!Yes(0) ELSE Space!No
          /\ mapping' = IF G THEN [q \in Space!Mapped \cup {page} |->
                                    IF q = page THEN new ELSE mapping[q]]
                             ELSE mapping
          /\ UNCHANGED enabled
    BY SameCount, Zenon DEF Space!Map, Grantable
  <1> HIDE DEF G
  <1>4. CASE ~ G
    <2>1. refuse
      BY <1>2, <1>4, Zenon DEF vmm_map_page, MapRefused
    <2>2. ret' = Space!No /\ UNCHANGED <<tables, enabled>>
      BY <2>1, Zenon DEF refuse, Refused, Space!No
    <2>3. mapping' = mapping
      BY <2>2, QuietMapping, Zenon
    <2> QED  BY <1>1, <1>3, <1>4, <2>2, <2>3, Zenon
  <1>5. CASE G
    <2>1. ret' = Granted(0)
      BY <1>2, <1>5, Zenon DEF vmm_map_page, MapRefused
    <2>2. ~ refuse
      BY <2>1, Zenon DEF refuse, Refused, Granted
    <2>3. PICK t \in Tables : MapGranted(v, p, flags, t)
      BY <2>2, MapCases, Zenon
    <2>4. /\ PageOf(v) \in VirtualPages
          /\ ~ Reaches(PageOf(v))
          /\ Reaches(PageOf(v))'
          /\ WordOf(PageOf(v))' = NewWord(p, flags)
          /\ \A q \in VirtualPages : q # PageOf(v) =>
               /\ Reaches(q)' <=> Reaches(q)
               /\ Reaches(q) => WordOf(q)' = WordOf(q)
      BY <2>3, MapView, Zenon
    <2>5. flags \subseteq VMM_ALLOWED_FLAGS /\ enabled' = enabled
      BY <2>3, Zenon DEF MapGranted
    <2>6. PageOf(v) = page
      BY Zenon DEF PageOf
    <2>7. mapping = [q \in Seen |-> Attributes(q)]
      BY Mapping, Zenon DEF MapIsSeen, IInv
    <2>8. mapping' = [q \in Seen' |-> Attributes(q)']
      BY MappingNext, Zenon DEF MapIsSeen, IInv
    <2> HIDE DEF page
    <2>9. Seen' = Seen \cup {page}
      BY <2>4, <2>6, Zenon DEF Seen
    <2>10. Attributes(page)' = new
      <3>1. WordOf(page)' = [frame |-> p \div VMM_PAGE_SIZE, flags |-> {"PRESENT"} \cup flags]
        BY <2>4, <2>5, <2>6, Zenon DEF NewWord, make_page_flags, PageOf
      <3>2. ({"PRESENT"} \cup flags) \cap VMM_ALLOWED_FLAGS = flags
        BY <2>5, Zenon DEF VMM_ALLOWED_FLAGS
      <3> QED  BY <3>1, <3>2 DEF Attributes
    <2>11. \A q \in Seen : q # page /\ Attributes(q)' = Attributes(q)
      BY <2>4, <2>6, Zenon DEF Seen, Attributes
    <2> HIDE DEF new
    <2>12. mapping' = [q \in Seen \cup {page} |-> IF q = page THEN new ELSE mapping[q]]
      BY <2>7, <2>8, <2>9, <2>10, <2>11, Zenon
    <2>13. Space!Mapped = Seen
      BY <2>7, Zenon DEF Space!Mapped
    <2> QED  BY <1>1, <1>3, <1>5, <2>1, <2>5, <2>12, <2>13, Zenon DEF Granted, Space!Yes
  <1> QED  BY <1>4, <1>5, Zenon

LEMMA SpaceUnmap ==
  ASSUME IInv, IInv', NEW v \in Nat, NEW noResult, vmm_unmap_page(v, noResult)
  PROVE  Space!Unmap(v, noResult)
  <1> DEFINE page == v \div VMM_PAGE_SIZE
             d == directory_index(v)
             e == entry_index(v)
             t == directory_table_indices[d]
             G == enabled /\ ~ noResult /\ Space!InWindow(v) /\ page \in Space!Mapped
             refused == \/ ~ enabled \/ noResult \/ ~ dynamic_address_is_valid(v)
                        \/ t = NONE \/ ~ Present(page_tables[t][e])
  <1>1. request' = [op |-> "unmap", v |-> v, noResult |-> noResult]
    BY Zenon DEF vmm_unmap_page
  <1>2. mapping = [q \in Seen |-> Attributes(q)]
    BY Mapping, Zenon DEF MapIsSeen, IInv
  <1>3. Space!Mapped = Seen
    BY <1>2, Zenon DEF Space!Mapped
  <1>4. G <=> ~ refused
    <2>1. CASE enabled /\ dynamic_address_is_valid(v)
      <3>1. /\ PageOf(v) \in VirtualPages /\ DirOf(PageOf(v)) = d /\ EntryOf(PageOf(v)) = e
        BY <2>1, WindowAddress, Zenon
      <3>2. page \in Seen <=> t # NONE /\ Present(page_tables[t][e])
        BY <2>1, <3>1, Zenon DEF Seen, Reaches, WordOf, PageOf
      <3> QED  BY <1>3, <2>1, <3>2, InTheWindow, Zenon
    <2>2. CASE ~ (enabled /\ dynamic_address_is_valid(v))
      BY <2>2, InTheWindow, Zenon
    <2> QED  BY <2>1, <2>2, Zenon
  <1>5. Space!Unmap(v, noResult) <=>
          /\ request' = [op |-> "unmap", v |-> v, noResult |-> noResult]
          /\ ret' = IF G THEN Space!Yes(mapping[page].frame * VMM_PAGE_SIZE) ELSE Space!No
          /\ mapping' = IF G THEN [q \in Space!Mapped \ {page} |-> mapping[q]] ELSE mapping
          /\ UNCHANGED enabled
    BY Zenon DEF Space!Unmap
  <1>6. CASE refused
    <2>1. refuse
      BY <1>6, Zenon DEF vmm_unmap_page, NONE
    <2>2. ret' = Space!No /\ UNCHANGED <<tables, enabled>>
      BY <2>1, Zenon DEF refuse, Refused, Space!No
    <2>3. mapping' = mapping
      BY <2>2, QuietMapping, Zenon
    <2> QED  BY <1>1, <1>4, <1>5, <1>6, <2>2, <2>3, Zenon
  <1>7. CASE ~ refused
    <2>1. UnmapGranted(v)
      BY <1>7, Zenon DEF vmm_unmap_page, UnmapGranted, NONE
    <2>2. /\ PageOf(v) \in VirtualPages
          /\ Reaches(PageOf(v)) /\ ~ Reaches(PageOf(v))'
          /\ WordOf(PageOf(v)) = page_tables[t][e]
          /\ \A q \in VirtualPages : q # PageOf(v) =>
               /\ Reaches(q)' <=> Reaches(q)
               /\ Reaches(q) => WordOf(q)' = WordOf(q)
      BY <2>1, UnmapView, Zenon
    <2>3. PageOf(v) = page
      BY Zenon DEF PageOf
    <2>4. mapping' = [q \in Seen' |-> Attributes(q)']
      BY MappingNext, Zenon DEF MapIsSeen, IInv
    <2>5. ret' = Granted(page_tables[t][e].frame * VMM_PAGE_SIZE) /\ enabled' = enabled
      BY <2>1, Zenon DEF UnmapGranted
    <2> HIDE DEF page, d, e, G, refused
    <2>6. Seen' = Seen \ {page} /\ page \in Seen
      BY <2>2, <2>3, Zenon DEF Seen
    <2>7. \A q \in Seen \ {page} : Attributes(q)' = Attributes(q)
      BY <2>2, <2>3, Zenon DEF Seen, Attributes
    <2>8. mapping' = [q \in Seen \ {page} |-> mapping[q]]
      BY <1>2, <2>4, <2>6, <2>7, Zenon
    <2>9. mapping[page].frame = page_tables[t][e].frame
      BY <1>2, <2>2, <2>3, <2>6, Zenon DEF Attributes
    <2>10. ret' = Space!Yes(mapping[page].frame * VMM_PAGE_SIZE)
      BY <2>5, <2>9, Zenon DEF Granted, Space!Yes
    <2> QED  BY <1>1, <1>3, <1>4, <1>5, <1>7, <2>5, <2>8, <2>10, Zenon
  <1> QED  BY <1>6, <1>7, Zenon

(* Every step is a step of module AddressSpace, or changes nothing of it. *)
LEMMA SpaceStep == IInv /\ IInv' /\ [Next]_vars => [Space!Next]_(Space!spaceVars)
  <1> SUFFICES ASSUME IInv, IInv', [Next]_vars PROVE [Space!Next]_(Space!spaceVars)
    BY Zenon
  <1>1. ASSUME mapping' = mapping, UNCHANGED <<enabled, request, ret>>
        PROVE  UNCHANGED Space!spaceVars
    BY <1>1, Zenon DEF Space!spaceVars
  <1>2. CASE UNCHANGED vars
    BY <1>1, <1>2, QuietMapping, Zenon DEF vars
  <1>3. CASE vmm_init
    BY <1>3, SwitchedOn, Zenon DEF Space!Next
  <1>4. ASSUME NEW r \in MapRequests, vmm_map_page(r[1], r[2], r[3]) PROVE Space!Next
    BY <1>4, Requests, SpaceMap, Zenon DEF Space!Next
  <1>5. ASSUME NEW r \in UnmapRequests, vmm_unmap_page(r[1], r[2]) PROVE Space!Next
    BY <1>5, Requests, SpaceUnmap, Zenon DEF Space!Next
  <1>6. CASE unmap_invalidate
    BY <1>1, <1>6, QuietMapping, Zenon DEF unmap_invalidate
  <1>7. CASE unmap_release
    <2>1. mapping' = mapping
      BY <1>7, ReleaseEffect, SameMapping, Zenon
    <2> QED  BY <1>1, <1>7, <2>1, Zenon DEF unmap_release
  <1>8. CASE tlb_fill
    BY <1>1, <1>8, QuietMapping, Zenon DEF tlb_fill
  <1>9. CASE tlb_evict
    BY <1>1, <1>9, QuietMapping, Zenon DEF tlb_evict
  <1> QED  BY <1>2, <1>3, <1>4, <1>5, <1>6, <1>7, <1>8, <1>9, Zenon DEF Next

(* The page tables implement the map of module AddressSpace, for every     *)
(* geometry and every sequence of calls: each call has exactly the effect  *)
(* and the result that its arguments and the map determine, a map call     *)
(* fails for want of a table only when all of them are needed, and the     *)
(* identity map never changes.                                             *)
THEOREM TablesImplementSpace == Spec => ImplementsAddressSpace
  BY InitStep, NextStep, SpaceInit, SpaceStep, PTL DEF Spec, ImplementsAddressSpace, Space!Spec
===============================================================================
