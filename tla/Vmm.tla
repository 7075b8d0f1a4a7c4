--------------------------------- MODULE Vmm ---------------------------------
(***************************************************************************)
(* The virtual memory manager of kernel/mm/vmm.c with the paging hardware  *)
(* it drives (kernel/arch/x86/paging.c).  Page tables come from a static   *)
(* pool: the first ones hold the identity map, the others are handed to    *)
(* directory entries of the dynamic window and taken back when empty.  The *)
(* CPU walks the tables by itself and caches what it finds, at any time    *)
(* and between any two stores of vmm_unmap_page.                           *)
(***************************************************************************)
EXTENDS Naturals, FiniteSets

CONSTANTS PAGE_DIRECTORY_ENTRIES, PAGE_TABLE_ENTRIES, PAGE_TABLE_COUNT,
          IDENTITY_TABLE_COUNT, VMM_PAGE_SIZE,
          VMM_DYNAMIC_START, VMM_DYNAMIC_END,
          MapRequests,     \* <<virtual, physical, flags>> that callers pass,
                           \* flags as a set
          UnmapRequests,   \* <<virtual, whether the result pointer is null>>
          TlbSize          \* bound: translations cached at a time

ASSUME VmmAssumption ==
  /\ {PAGE_DIRECTORY_ENTRIES, PAGE_TABLE_ENTRIES, PAGE_TABLE_COUNT,
      IDENTITY_TABLE_COUNT, VMM_PAGE_SIZE} \subseteq Nat \ {0}
  /\ IDENTITY_TABLE_COUNT < PAGE_TABLE_COUNT
  /\ IDENTITY_TABLE_COUNT <= PAGE_DIRECTORY_ENTRIES
  /\ {VMM_DYNAMIC_START, VMM_DYNAMIC_END} \subseteq Nat
  /\ VMM_DYNAMIC_START >= IDENTITY_TABLE_COUNT * PAGE_TABLE_ENTRIES * VMM_PAGE_SIZE
  /\ VMM_DYNAMIC_END <=
       PAGE_DIRECTORY_ENTRIES * PAGE_TABLE_ENTRIES * VMM_PAGE_SIZE
  /\ \A r \in MapRequests : r[1] \in Nat /\ r[2] \in Nat
  /\ \A r \in UnmapRequests : r[1] \in Nat

Directory == 0 .. PAGE_DIRECTORY_ENTRIES - 1
Entries == 0 .. PAGE_TABLE_ENTRIES - 1
Tables == 0 .. PAGE_TABLE_COUNT - 1
IdentityTables == 0 .. IDENTITY_TABLE_COUNT - 1
TABLE_INDEX_NONE == PAGE_TABLE_COUNT
VMM_ALLOWED_FLAGS == {"WRITABLE", "USER"}

directory_index(v) == v \div (VMM_PAGE_SIZE * PAGE_TABLE_ENTRIES)
entry_index(v) == (v \div VMM_PAGE_SIZE) % PAGE_TABLE_ENTRIES
Offset(a) == a % VMM_PAGE_SIZE
PageOf(a) == a \div VMM_PAGE_SIZE
VirtualPages == 0 .. PAGE_DIRECTORY_ENTRIES * PAGE_TABLE_ENTRIES - 1

(* The zero words of the directory and of the tables: not present. *)
NoTable == [table |-> TABLE_INDEX_NONE, flags |-> {}]
NoPage == [frame |-> 0, flags |-> {}]
Present(word) == "PRESENT" \in word.flags

VARIABLES page_directory, page_tables, directory_table_indices, table_in_use,
          enabled,
          at, address,      \* where the latest vmm_unmap_page stands, for what
          tlb,              \* translations the CPU has cached
          request, ret      \* history: the latest call and its result

(* A result: the Boolean, and the address vmm_unmap_page stores (0: none). *)
Granted(physical) == [ok |-> TRUE, physical |-> physical]
Refused == [ok |-> FALSE, physical |-> 0]

tables == <<page_directory, page_tables, directory_table_indices, table_in_use>>
vars == <<tables, enabled, at, address, tlb, request, ret>>

Init ==
  /\ page_directory = [d \in Directory |-> NoTable]
  /\ page_tables = [t \in Tables |-> [e \in Entries |-> NoPage]]
  /\ directory_table_indices = [d \in Directory |-> 0]
  /\ table_in_use = [t \in Tables |-> FALSE]
  /\ enabled = FALSE
  /\ at = "idle" /\ address = 0 /\ tlb = {}
  /\ request = [op |-> "none"] /\ ret = Granted(0)

-----------------------------------------------------------------------------
dynamic_address_is_valid(v) ==
  /\ VMM_DYNAMIC_START <= v /\ v < VMM_DYNAMIC_END
  /\ Offset(v) = 0

(* Only the two known flags are carried over. *)
make_page_flags(flags) == {"PRESENT"} \cup (flags \cap VMM_ALLOWED_FLAGS)

clear_table == [e \in Entries |-> NoPage]

FreeTables == {t \in Tables \ IdentityTables : ~ table_in_use[t]}

(* The lowest free table of the pool, or none. *)
allocate_dynamic_table ==
  IF FreeTables = {} THEN TABLE_INDEX_NONE
  ELSE CHOOSE t \in FreeTables : \A u \in FreeTables : t <= u

table_is_empty(t) == \A e \in Entries : ~ Present(page_tables[t][e])

(* invlpg *)
paging_invalidate(v) == {c \in tlb : c.page # PageOf(v)}

refuse == ret' = Refused /\ UNCHANGED <<tables, enabled, at, address, tlb>>

-----------------------------------------------------------------------------
(* Builds the identity map, page 0 left out, loads CR3 and sets CR0.PG. *)
vmm_init ==
  /\ at = "idle"
  /\ IF enabled THEN UNCHANGED <<tables, enabled, tlb>>
     ELSE /\ page_directory' = [d \in Directory |->
               IF d \in IdentityTables
               THEN [table |-> d, flags |-> {"PRESENT", "WRITABLE"}] ELSE NoTable]
          /\ directory_table_indices' = [d \in Directory |->
               IF d \in IdentityTables THEN d ELSE TABLE_INDEX_NONE]
          /\ table_in_use' = [t \in Tables |-> t \in IdentityTables]
          /\ page_tables' = [t \in Tables |-> [e \in Entries |->
               LET frame == t * PAGE_TABLE_ENTRIES + e
               IN  IF t \in IdentityTables /\ frame # 0
                   THEN [frame |-> frame, flags |-> {"PRESENT", "WRITABLE"}]
                   ELSE NoPage]]
          /\ enabled' = TRUE
          /\ tlb' = {}
  /\ request' = [op |-> "init"] /\ ret' = Granted(0)
  /\ UNCHANGED <<at, address>>

(* Mutant of DirectoryWord: a user page does not open the directory entry. *)
DirectoryWord_kernel(old, t, flags) ==
  [table |-> t, flags |-> old.flags \cup {"PRESENT", "WRITABLE"}]

(* The directory word after a page with these hardware flags was added. *)
DirectoryWord(old, t, flags) ==
  [table |-> t, flags |-> old.flags \cup {"PRESENT", "WRITABLE"} \cup (flags \cap {"USER"})]

vmm_map_page(v, p, flags) ==
  LET d == directory_index(v)
      e == entry_index(v)
      known == directory_table_indices[d]
      t == IF known # TABLE_INDEX_NONE THEN known ELSE allocate_dynamic_table
      fresh == known = TABLE_INDEX_NONE
      table == IF fresh THEN clear_table ELSE page_tables[t]
      word == [frame |-> PageOf(p), flags |-> make_page_flags(flags)]
  IN  /\ at = "idle"
      /\ request' = [op |-> "map", v |-> v, p |-> p, flags |-> flags]
      /\ IF \/ ~ enabled \/ ~ dynamic_address_is_valid(v)
            \/ Offset(p) # 0 \/ ~ flags \subseteq VMM_ALLOWED_FLAGS
            \/ t = TABLE_INDEX_NONE \/ Present(table[e])
         THEN refuse
         ELSE /\ table_in_use' = [table_in_use EXCEPT ![t] = TRUE]
              /\ directory_table_indices' = [directory_table_indices EXCEPT ![d] = t]
              /\ page_directory' = [page_directory EXCEPT
                                      ![d] = DirectoryWord(IF fresh THEN NoTable ELSE @, t, word.flags)]
              /\ page_tables' = [page_tables EXCEPT ![t] = [table EXCEPT ![e] = word]]
              /\ tlb' = paging_invalidate(v)
              /\ ret' = Granted(0)
              /\ UNCHANGED <<enabled, at, address>>

(* vmm_unmap_page up to the store that clears the entry. *)
vmm_unmap_page(v, noResult) ==
  LET t == directory_table_indices[directory_index(v)]
      e == entry_index(v)
  IN  /\ at = "idle"
      /\ request' = [op |-> "unmap", v |-> v, noResult |-> noResult]
      /\ IF \/ ~ enabled \/ noResult \/ ~ dynamic_address_is_valid(v)
            \/ t = TABLE_INDEX_NONE \/ ~ Present(page_tables[t][e])
         THEN refuse
         ELSE /\ page_tables' = [page_tables EXCEPT ![t][e] = NoPage]
              /\ at' = "invalidate" /\ address' = v
              /\ ret' = Granted(page_tables[t][e].frame * VMM_PAGE_SIZE)
              /\ UNCHANGED <<page_directory, directory_table_indices,
                             table_in_use, enabled, tlb>>

(* Mutant of unmap_invalidate: invlpg is forgotten. *)
unmap_invalidate_forgotten ==
  /\ at = "invalidate" /\ at' = "release"
  /\ UNCHANGED <<tables, enabled, address, tlb, request, ret>>

(* Its invlpg. *)
unmap_invalidate ==
  /\ at = "invalidate" /\ at' = "release"
  /\ tlb' = paging_invalidate(address)
  /\ UNCHANGED <<tables, enabled, address, request, ret>>

(* Mutant of UnlinkTable: the directory word stays. *)
UnlinkTable_kept(d) == page_directory

UnlinkTable(d) == [page_directory EXCEPT ![d] = NoTable]

(* Mutant of ReturnTable: the table is never given back. *)
ReturnTable_leak(t) == table_in_use

ReturnTable(t) == [table_in_use EXCEPT ![t] = FALSE]

(* Its tail: an empty dynamic table goes back to the pool. *)
unmap_release ==
  LET d == directory_index(address)
      t == directory_table_indices[d]
  IN  /\ at = "release" /\ at' = "idle" /\ address' = 0
      /\ IF t \notin IdentityTables /\ table_is_empty(t)
         THEN /\ page_directory' = UnlinkTable(d)
              /\ directory_table_indices' =
                   [directory_table_indices EXCEPT ![d] = TABLE_INDEX_NONE]
              /\ table_in_use' = ReturnTable(t)
              /\ UNCHANGED page_tables
         ELSE UNCHANGED tables
      /\ UNCHANGED <<enabled, tlb, request, ret>>

(* The address vmm_translate finds, as a set: none or one. *)
vmm_translate(v) ==
  LET d == directory_index(v)
      t == directory_table_indices[d]
  IN  IF \/ ~ enabled \/ ~ Present(page_directory[d])
         \/ t = TABLE_INDEX_NONE \/ ~ Present(page_tables[t][entry_index(v)])
      THEN {}
      ELSE {page_tables[t][entry_index(v)].frame * VMM_PAGE_SIZE + Offset(v)}

-----------------------------------------------------------------------------
(* The CPU's own walk (external): it knows the directory only, and a page  *)
(* is a user page if the directory word and the table word both say so.    *)
Walk(page) ==
  LET v == page * VMM_PAGE_SIZE
      dir == page_directory[directory_index(v)]
  IN  IF ~ enabled \/ ~ Present(dir) THEN {}
      ELSE LET word == page_tables[dir.table][entry_index(v)]
           IN  IF ~ Present(word) THEN {}
               ELSE {[page |-> page, frame |-> word.frame,
                      rights |-> word.flags \cap dir.flags \cap VMM_ALLOWED_FLAGS]}

(* It caches a complete translation, or drops one, whenever it likes.       *)
(* Directory words cached on their own are not modelled.                   *)
tlb_fill == /\ Cardinality(tlb) < TlbSize
            /\ \E page \in VirtualPages : \E c \in Walk(page) :
                 c \notin tlb /\ tlb' = tlb \cup {c}
            /\ UNCHANGED <<tables, enabled, at, address, request, ret>>

tlb_evict == /\ \E c \in tlb : tlb' = tlb \ {c}
             /\ UNCHANGED <<tables, enabled, at, address, request, ret>>

Next ==
  \/ vmm_init
  \/ \E r \in MapRequests : vmm_map_page(r[1], r[2], r[3])
  \/ \E r \in UnmapRequests : vmm_unmap_page(r[1], r[2])
  \/ unmap_invalidate \/ unmap_release
  \/ tlb_fill \/ tlb_evict

Spec == Init /\ [][Next]_vars

-----------------------------------------------------------------------------
(* vmm_translate, which follows directory_table_indices, answers what the  *)
(* CPU finds by following page_directory, for every byte of the address    *)
(* space, also while an unmapping is half done.                            *)
TranslateMatchesHardware ==
  \A page \in VirtualPages, offset \in 0 .. VMM_PAGE_SIZE - 1 :
    vmm_translate(page * VMM_PAGE_SIZE + offset)
      = {c.frame * VMM_PAGE_SIZE + offset : c \in Walk(page)}

(* No table is shared or lost: between calls a table is in use exactly     *)
(* when one directory entry, and only one, refers to it, and every dynamic *)
(* table in use holds a page.                                              *)
TablePoolExact ==
  enabled /\ at = "idle" =>
    \A t \in Tables :
      LET users == {d \in Directory : directory_table_indices[d] = t}
      IN  /\ Cardinality(users) = IF table_in_use[t] THEN 1 ELSE 0
          /\ t \notin IdentityTables /\ table_in_use[t] => ~ table_is_empty(t)

(* After vmm_unmap_page and vmm_map_page return, and already when a table  *)
(* goes back to the pool, the CPU uses no translation that the tables do   *)
(* not contain.                                                            *)
NoStaleTranslation == at # "invalidate" => \A c \in tlb : c \in Walk(c.page)

(* The map from pages to frames and rights that the CPU sees. *)
mapping == [page \in {q \in VirtualPages : Walk(q) # {}} |->
              CHOOSE m \in {[frame |-> c.frame, rights |-> c.rights] : c \in Walk(page)} : TRUE]

Space == INSTANCE AddressSpace WITH
  Pages <- VirtualPages,
  Fixed <- 1 .. IDENTITY_TABLE_COUNT * PAGE_TABLE_ENTRIES - 1,
  Window <- {page \in VirtualPages : dynamic_address_is_valid(page * VMM_PAGE_SIZE)},
  PageBytes <- VMM_PAGE_SIZE, RegionPages <- PAGE_TABLE_ENTRIES,
  MaxRegions <- PAGE_TABLE_COUNT - IDENTITY_TABLE_COUNT,
  Rights <- VMM_ALLOWED_FLAGS,
  on <- enabled, asked <- request, answer <- ret

(* What the CPU sees through the tables is the map from pages to frames    *)
(* and rights that the calls describe: every call has exactly the effect   *)
(* and the result its arguments and the map determine, a map call fails    *)
(* for want of a table only when all of them are needed, and the identity  *)
(* map never changes.                                                      *)
ImplementsAddressSpace == Space!Spec
==============================================================================
