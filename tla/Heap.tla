--------------------------------- MODULE Heap ---------------------------------
(***************************************************************************)
(* The kernel heap of kernel/mm/heap.c: a first-fit allocator with         *)
(* splitting and coalescing whose block headers live inside the arena it   *)
(* hands out.  Addresses are byte offsets from the start of the arena and  *)
(* NULL is -1.  `arena' says which aligned offsets hold a header; every    *)
(* other byte is plain data.  A write by a caller to its own payload       *)
(* destroys any header it touches, so an overlap would corrupt the heap.   *)
(* The heap is used by the foreground only (never from an interrupt).      *)
(***************************************************************************)
EXTENDS Integers, FiniteSets

CONSTANTS KHEAP_ARENA_SIZE, KHEAP_ALIGNMENT,
          HeaderSize,        \* sizeof(struct heap_block)
          SIZE_MAX,
          Sizes              \* byte counts that callers ask for

ASSUME HeapAssumption ==
  /\ {KHEAP_ARENA_SIZE, KHEAP_ALIGNMENT, HeaderSize, SIZE_MAX} \subseteq Nat \ {0}
  /\ KHEAP_ARENA_SIZE % KHEAP_ALIGNMENT = 0
  /\ HeaderSize % KHEAP_ALIGNMENT = 0
  /\ HeaderSize + KHEAP_ALIGNMENT <= KHEAP_ARENA_SIZE
  /\ SIZE_MAX >= KHEAP_ARENA_SIZE
  /\ Sizes \subseteq 0 .. SIZE_MAX

NULL == -1
Offsets == {o \in 0 .. KHEAP_ARENA_SIZE - 1 : o % KHEAP_ALIGNMENT = 0}
TotalCapacity == KHEAP_ARENA_SIZE - HeaderSize

Data == [state |-> "data", payload_size |-> 0, previous |-> NULL, next |-> NULL]
Block(s, size, prev, nxt) ==
  [state |-> s, payload_size |-> size, previous |-> prev, next |-> nxt]

VARIABLES arena,       \* the header at each aligned offset, or Data
          live,        \* history: payload address -> bytes asked for
          ret          \* whether the latest call succeeded

vars == <<arena, live, ret>>

block_payload(b) == b + HeaderSize
Payload(a, b) == block_payload(b) .. block_payload(b) + a[b].payload_size - 1
Header(b) == b .. b + HeaderSize - 1

(* Plain bytes written over a range of addresses. *)
Overwrite(a, bytes) ==
  [o \in Offsets |-> IF Header(o) \cap bytes # {} THEN Data ELSE a[o]]

(* A header stored at b, over whatever was there. *)
WriteHeader(a, b, header) == [Overwrite(a, Header(b)) EXCEPT ![b] = header]

FreshArena == [o \in Offsets |->
                 IF o = 0 THEN Block("free", TotalCapacity, NULL, NULL) ELSE Data]

(* kheap_init has run (heap_self_test calls it at boot). *)
Init == arena = FreshArena /\ live = << >> /\ ret = TRUE

-----------------------------------------------------------------------------
align_request(size) ==
  LET sum == (size + KHEAP_ALIGNMENT - 1) % (SIZE_MAX + 1)
  IN  sum - (sum % KHEAP_ALIGNMENT)
RequestValid(size) == size # 0 /\ size <= SIZE_MAX - (KHEAP_ALIGNMENT - 1)

(* What inspect_heap demands of the blocks from b on, down the list. *)
inspect_from(a) ==
  LET ok[b \in Offsets] ==
        LET h == a[b]
            block_end == block_payload(b) + h.payload_size
        IN  /\ b <= KHEAP_ARENA_SIZE - HeaderSize
            /\ h.state \in {"free", "allocated"}
            /\ h.payload_size >= KHEAP_ALIGNMENT
            /\ h.payload_size % KHEAP_ALIGNMENT = 0
            /\ block_end <= KHEAP_ARENA_SIZE
            /\ IF h.next = NULL THEN block_end = KHEAP_ARENA_SIZE
               ELSE /\ block_end < KHEAP_ARENA_SIZE /\ h.next = block_end
                    /\ a[h.next].previous = b
                    /\ ~ (h.state = "free" /\ a[h.next].state = "free")
                    /\ ok[h.next]
  IN  ok

inspect_heap(a) == a[0].previous = NULL /\ inspect_from(a)[0]

(* The blocks of the list that starts at offset 0. *)
Blocks(a) ==
  LET from[b \in Offsets] ==
        {b} \cup (IF a[b].next = NULL THEN {} ELSE from[a[b].next])
  IN  from[0]

(* Mutant of Larger: the last free block counts, not the largest. *)
Larger_last(size, later) == IF later = 0 THEN size ELSE later

Larger(size, later) == IF size > later THEN size ELSE later

(* kheap_get_stats: what the same walk measures, from block b on. *)
kheap_get_stats(a) ==
  LET from[b \in Offsets] ==
        LET rest == IF a[b].next # NULL THEN from[a[b].next]
                    ELSE [free_bytes |-> 0, largest_free_block |-> 0,
                          allocated_blocks |-> 0]
            size == a[b].payload_size
        IN  IF a[b].state = "free"
            THEN [rest EXCEPT !.free_bytes = @ + size,
                              !.largest_free_block = Larger(size, @)]
            ELSE [rest EXCEPT !.allocated_blocks = @ + 1]
  IN  from[0]

(* merge_with_next(left), the right header being invalidated. *)
merge_with_next(a, left) ==
  LET right == a[left].next
      after == a[right].next
      grown == [a EXCEPT ![left].payload_size =
                           @ + HeaderSize + a[right].payload_size,
                         ![left].next = after]
      linked == IF after = NULL THEN grown
                ELSE [grown EXCEPT ![after].previous = left]
  IN  [linked EXCEPT ![right] = Data]

(* Mutant of CanSplit: no room demanded for the new block's payload. *)
CanSplit_no_payload(remaining) == remaining >= HeaderSize

CanSplit(remaining) == remaining >= HeaderSize + KHEAP_ALIGNMENT

(* Splitting block b so that its payload becomes size bytes. *)
split_block(a, b, size) ==
  LET remaining == a[b].payload_size - size
      split == block_payload(b) + size
      with == WriteHeader(a, split, Block("free", remaining - HeaderSize, b, a[b].next))
      linked == IF a[b].next = NULL THEN with
                ELSE [with EXCEPT ![a[b].next].previous = split]
  IN  IF CanSplit(remaining)
      THEN [linked EXCEPT ![b].payload_size = size, ![b].next = split]
      ELSE a

(* kmalloc(size) on arena a: the new arena and the pointer returned. *)
allocate(a, size) ==
  LET aligned == align_request(size)
      fits == {b \in Blocks(a) : a[b].state = "free" /\ a[b].payload_size >= aligned}
      b == CHOOSE x \in fits : \A y \in fits : x <= y
  IN  IF ~ RequestValid(size) \/ ~ inspect_heap(a) THEN [arena |-> a, ptr |-> NULL]
      ELSE IF fits = {} THEN [arena |-> a, ptr |-> NULL]
      ELSE [arena |-> [split_block(a, b, aligned) EXCEPT ![b].state = "allocated"],
            ptr |-> block_payload(b)]

Remember(ptr, bytes) ==
  live' = IF ptr = NULL THEN live
          ELSE [p \in DOMAIN live \cup {ptr} |-> IF p = ptr THEN bytes ELSE live[p]]

-----------------------------------------------------------------------------
kheap_init == arena' = FreshArena /\ live' = << >> /\ ret' = TRUE

kmalloc(size) ==
  LET r == allocate(arena, size)
  IN  /\ arena' = r.arena
      /\ ret' = (r.ptr # NULL)
      /\ Remember(r.ptr, size)

(* Mutant of ProductOverflows: the product may wrap. *)
ProductOverflows_never(count, size) == FALSE

ProductOverflows(count, size) == size > SIZE_MAX \div count

(* Multiplies with an overflow check, then clears the bytes asked for. *)
kcalloc(count, size) ==
  LET total == (count * size) % (SIZE_MAX + 1)
      refused == count = 0 \/ size = 0 \/ ProductOverflows(count, size)
      r == IF refused THEN [arena |-> arena, ptr |-> NULL] ELSE allocate(arena, total)
  IN  /\ arena' = IF r.ptr = NULL THEN arena
                  ELSE Overwrite(r.arena, r.ptr .. r.ptr + total - 1)
      /\ ret' = (r.ptr # NULL)
      /\ Remember(r.ptr, count * size)

(* Mutant of merge_right: an allocated neighbour is merged too. *)
merge_right_any(a, left) ==
  IF a[left].next # NULL THEN merge_with_next(a, left) ELSE a

(* The second coalescing step of kfree. *)
merge_right(a, left) ==
  IF a[left].next # NULL /\ a[a[left].next].state = "free"
  THEN merge_with_next(a, left) ELSE a

kfree(address) ==
  LET b == address - HeaderSize
      freed == [arena EXCEPT ![b].state = "free"]
      prev == arena[b].previous
      left == IF prev # NULL /\ freed[prev].state = "free" THEN prev ELSE b
      merged == IF left = b THEN freed ELSE merge_with_next(freed, prev)
  IN  IF \/ address = NULL
         \/ address < HeaderSize
         \/ address >= KHEAP_ARENA_SIZE
         \/ address % KHEAP_ALIGNMENT # 0
         \/ ~ inspect_heap(arena)
      THEN ret' = FALSE /\ UNCHANGED <<arena, live>>
      ELSE IF b \notin Blocks(arena) \/ arena[b].state # "allocated"
      THEN ret' = FALSE /\ UNCHANGED <<arena, live>>
      ELSE /\ arena' = merge_right(merged, left)
           /\ live' = [p \in DOMAIN live \ {address} |-> live[p]]
           /\ ret' = TRUE

(* A caller fills the bytes it asked for (external). *)
caller_writes(p) ==
  /\ p \in DOMAIN live
  /\ arena' = Overwrite(arena, p .. p + live[p] - 1)
  /\ ret' = TRUE
  /\ UNCHANGED live

Pointers == NULL .. KHEAP_ARENA_SIZE

Next == \/ kheap_init
        \/ \E size \in Sizes : kmalloc(size)
        \/ \E count, size \in Sizes : kcalloc(count, size)
        \/ \E address \in Pointers : kfree(address)
        \/ \E p \in Pointers : caller_writes(p)

Spec == Init /\ [][Next]_vars

-----------------------------------------------------------------------------
(* kheap_validate never fails: whatever is allocated, freed and written by *)
(* callers, the list still tiles the arena with sound headers and no two   *)
(* neighbouring free blocks.                                               *)
HeapValid == inspect_heap(arena)

(* The allocated blocks are exactly the pointers callers hold, so a double *)
(* free, a foreign pointer or a pointer into a block is always refused.    *)
BlocksMatchCallers ==
  {block_payload(b) : b \in {x \in Blocks(arena) : arena[x].state = "allocated"}}
    = DOMAIN live

(* Every caller gets at least the bytes it asked for, even when count*size *)
(* would overflow, aligned and inside the arena, disjoint from every other *)
(* caller's bytes and from every header.                                   *)
AllocationsDisjoint ==
  LET bytes(p) == p .. p + live[p] - 1
  IN  \A p \in DOMAIN live :
        /\ live[p] >= 1 /\ p % KHEAP_ALIGNMENT = 0
        /\ bytes(p) \subseteq 0 .. KHEAP_ARENA_SIZE - 1
        /\ \A q \in DOMAIN live \ {p} : bytes(p) \cap bytes(q) = {}
        /\ \A b \in Blocks(arena) : bytes(p) \cap Header(b) = {}

(* kheap_get_stats can be relied on: the blocks it counts are the ones     *)
(* callers hold, its free bytes are what they and the headers leave, and   *)
(* a request succeeds exactly when, rounded up, it is not larger than the  *)
(* largest free block.  With nothing allocated that is the full capacity,  *)
(* in whatever order the blocks were freed.                                *)
StatsExact ==
  LET stats == kheap_get_stats(arena)
      held == UNION {Payload(arena, p - HeaderSize) : p \in DOMAIN live}
  IN  /\ stats.allocated_blocks = Cardinality(DOMAIN live)
      /\ stats.free_bytes = KHEAP_ARENA_SIZE - Cardinality(held)
                               - (HeaderSize * Cardinality(Blocks(arena)))
      /\ \A size \in Sizes :
           (allocate(arena, size).ptr # NULL) <=>
             RequestValid(size) /\ align_request(size) <= stats.largest_free_block
      /\ DOMAIN live = {} => stats.largest_free_block = TotalCapacity
===============================================================================
