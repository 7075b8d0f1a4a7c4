------------------------------ MODULE HeapProofs ------------------------------
(***************************************************************************)
(* Proofs about the kernel heap of module Heap, for every arena, header    *)
(* and alignment: the list of blocks always tiles the arena, and what      *)
(* callers were given never overlaps a header or another caller's bytes.   *)
(* The walks down the list are recursive functions; what they compute is   *)
(* shown from their equations, with a greatest counterexample.             *)
(***************************************************************************)
EXTENDS Heap, FiniteSetTheorems, WellFoundedInduction, TLAPS

Aligned(x) == x % KHEAP_ALIGNMENT = 0

(* The headers in the arena, and where a block ends. *)
Heads(a) == {o \in Offsets : a[o].state # "data"}
End(a, b) == block_payload(b) + a[b].payload_size

HeaderType == [state : {"data", "free", "allocated"}, payload_size : Nat,
               previous : Offsets \cup {NULL}, next : Offsets \cup {NULL}]

SoundBlock(a, b) ==
  /\ a[b].payload_size >= KHEAP_ALIGNMENT /\ Aligned(a[b].payload_size)
  /\ End(a, b) <= KHEAP_ARENA_SIZE
  /\ a[b].next = NULL => End(a, b) = KHEAP_ARENA_SIZE
  /\ a[b].next # NULL => /\ a[b].next = End(a, b) /\ a[b].next \in Heads(a)
                         /\ a[a[b].next].previous = b

(***************************************************************************)
(* The inductive invariant.  The list is described from all its headers at *)
(* once rather than from its first block on: every header that the arena   *)
(* holds is linked in both directions to the blocks beside it, and no      *)
(* stale header is left behind.                                            *)
(***************************************************************************)
Tiled(a) ==
  /\ a \in [Offsets -> HeaderType]
  /\ \A o \in Offsets \ Heads(a) : a[o] = Data
  /\ 0 \in Heads(a) /\ a[0].previous = NULL
  /\ \A b \in Heads(a) : SoundBlock(a, b)
  /\ \A b \in Heads(a) \ {0} : a[b].previous \in Heads(a) /\ a[a[b].previous].next = b

NoFreePair(a) ==
  \A b \in Heads(a) :
    a[b].next # NULL => ~ (a[b].state = "free" /\ a[a[b].next].state = "free")

Held(a) == {b \in Heads(a) : a[b].state = "allocated"}

(* The pointers that callers hold are those of the allocated blocks. *)
LiveMatches(a, l) ==
  /\ DOMAIN l = {block_payload(b) : b \in Held(a)}
  /\ \A b \in Held(a) : l[block_payload(b)] \in 1 .. a[b].payload_size

IInv == Tiled(arena) /\ NoFreePair(arena) /\ LiveMatches(arena, live)

-----------------------------------------------------------------------------
LEMMA Constants ==
  /\ KHEAP_ALIGNMENT \in Nat \ {0} /\ HeaderSize \in Nat \ {0}
  /\ KHEAP_ARENA_SIZE \in Nat \ {0} /\ SIZE_MAX \in Nat \ {0}
  /\ Aligned(KHEAP_ARENA_SIZE) /\ Aligned(HeaderSize)
  /\ HeaderSize + KHEAP_ALIGNMENT <= KHEAP_ARENA_SIZE /\ KHEAP_ARENA_SIZE <= SIZE_MAX
  BY HeapAssumption, Zenon DEF Aligned

LEMMA Quotient ==
  ASSUME NEW n \in Nat \ {0}, NEW a \in Nat
  PROVE  /\ a \div n \in Nat /\ a % n \in 0 .. n - 1
         /\ a = n * (a \div n) + (a % n)
  OBVIOUS

LEMMA NoRemainder ==
  ASSUME NEW n \in Nat \ {0}, NEW q \in Nat
  PROVE  n * q \in Nat /\ (n * q) % n = 0
  <1> DEFINE a == n * q
             p == a \div n
             s == a % n
  <1>0. a \in Nat
    OBVIOUS
  <1>1. p \in Nat /\ s \in 0 .. n - 1 /\ n * q = n * p + s
    BY <1>0, Quotient, Zenon
  <1> HIDE DEF p, s, a
  <1>2. n * (q - p) = s
    BY <1>1
  <1>3. q - p >= 1 => n * (q - p) >= n
    BY <1>1
  <1>4. q - p <= -1 => n * (q - p) <= -n
    BY <1>1
  <1>5. q - p = 0
    BY <1>1, <1>2, <1>3, <1>4
  <1>6. s = 0
    BY <1>2, <1>5
  <1> QED  BY <1>0, <1>6, Zenon DEF s, a

(* Sums and differences of aligned numbers are aligned, and two different  *)
(* ones are at least the alignment apart.                                  *)
LEMMA AlignedNumbers ==
  ASSUME NEW x \in Nat, NEW y \in Nat, Aligned(x), Aligned(y)
  PROVE  /\ Aligned(x + y) /\ (y <= x => Aligned(x - y))
         /\ (y < x => y + KHEAP_ALIGNMENT <= x)
  <1> DEFINE n == KHEAP_ALIGNMENT
             p == x \div n
             q == y \div n
  <1>1. n \in Nat \ {0} /\ p \in Nat /\ q \in Nat
    BY Constants, Quotient, Zenon
  <1>2. x = n * p /\ y = n * q
    BY <1>1, Quotient, Constants DEF Aligned
  <1> HIDE DEF p, q, n
  <1>3. x + y = n * (p + q) /\ x - y = n * (p - q)
    BY <1>1, <1>2
  <1>4. Aligned(x + y)
    <2>1. p + q \in Nat
      BY <1>1
    <2>2. (n * (p + q)) % n = 0
      BY <1>1, <2>1, NoRemainder, Zenon
    <2> QED  BY <1>3, <2>2, Zenon DEF Aligned, n
  <1>5. p - q >= 1 => n * (p - q) >= n
    BY <1>1
  <1>6. p - q <= -1 => n * (p - q) <= -n
    BY <1>1
  <1>7. y <= x => p - q \in Nat
    BY <1>1, <1>3, <1>6
  <1>8. y <= x => Aligned(x - y)
    <2> SUFFICES ASSUME y <= x PROVE Aligned(x - y)
      BY Zenon
    <2>1. p - q \in Nat
      BY <1>7, Zenon
    <2>2. (n * (p - q)) % n = 0
      BY <1>1, <2>1, NoRemainder, Zenon
    <2> QED  BY <1>3, <2>2, Zenon DEF Aligned, n
  <1>9. y < x => y + n <= x
    <2>1. p = q => n * (p - q) = 0
      BY <1>1
    <2> QED  BY <1>1, <1>3, <1>5, <1>6, <2>1
  <1> QED  BY <1>4, <1>8, <1>9, Zenon DEF n

LEMMA LeastNumber ==
  ASSUME NEW T \in SUBSET Nat, T # {}
  PROVE  \E p \in T : \A q \in T : p <= q
  <1>1. PICK x \in T : \A y \in T : ~ (<<y, x>> \in OpToRel(<, Nat))
    BY NatLessThanWellFounded, WFMin, Zenon
  <1>2. \A y \in T : ~ (y < x)
    BY <1>1, Zenon DEF OpToRel
  <1> QED  BY <1>2

LEMMA GreatestOffset ==
  ASSUME NEW T \in SUBSET Offsets, T # {}
  PROVE  \E p \in T : \A q \in T : q <= p
  <1> DEFINE U == {KHEAP_ARENA_SIZE - t : t \in T}
  <1>a. ASSUME NEW t \in T PROVE KHEAP_ARENA_SIZE - t \in Nat
    <2>1. t \in 0 .. KHEAP_ARENA_SIZE - 1
      BY Zenon DEF Offsets
    <2> QED  BY <2>1, Constants
  <1>1. U \in SUBSET Nat /\ U # {}
    BY <1>a, Zenon
  <1>2. PICK u \in U : \A w \in U : u <= w
    <2> HIDE DEF U
    <2> QED  BY <1>1, LeastNumber, Zenon
  <1>3. PICK p \in T : u = KHEAP_ARENA_SIZE - p
    BY Zenon
  <1>4. ASSUME NEW q \in T PROVE q <= p
    <2>1. u <= KHEAP_ARENA_SIZE - q
      BY <1>2, Zenon
    <2> QED  BY <1>3, <2>1, Constants DEF Offsets
  <1> QED  BY <1>4, Zenon

-----------------------------------------------------------------------------
(* A header's fields, and the room that its block takes. *)
LEMMA BlockFacts ==
  ASSUME NEW a, Tiled(a), NEW b \in Heads(a)
  PROVE  /\ b \in Offsets /\ b \in Nat /\ Aligned(b)
         /\ a[b] \in HeaderType /\ a[b].state \in {"free", "allocated"}
         /\ a[b].payload_size \in Nat /\ a[b].payload_size >= KHEAP_ALIGNMENT
         /\ Aligned(a[b].payload_size)
         /\ End(a, b) = b + HeaderSize + a[b].payload_size
         /\ End(a, b) \in Nat /\ b < End(a, b) /\ End(a, b) <= KHEAP_ARENA_SIZE
         /\ a[b].next = NULL => End(a, b) = KHEAP_ARENA_SIZE
         /\ a[b].next # NULL => /\ a[b].next = End(a, b) /\ a[b].next \in Heads(a)
                                /\ a[a[b].next].previous = b
  <1>1. b \in Offsets /\ a[b].state # "data"
    BY Zenon DEF Heads
  <1>2. b \in Nat /\ Aligned(b)
    BY <1>1, Constants DEF Offsets, Aligned
  <1>3. a[b] \in HeaderType
    BY <1>1, Zenon DEF Tiled
  <1>4. a[b].state \in {"free", "allocated"} /\ a[b].payload_size \in Nat
    BY <1>1, <1>3, Zenon DEF HeaderType
  <1>5. SoundBlock(a, b)
    BY Zenon DEF Tiled
  <1>6. End(a, b) = b + HeaderSize + a[b].payload_size
    BY Zenon DEF End, block_payload
  <1>7. End(a, b) \in Nat /\ b < End(a, b)
    BY <1>2, <1>4, <1>6, Constants
  <1> QED  BY <1>1, <1>2, <1>3, <1>4, <1>5, <1>6, <1>7, Zenon DEF SoundBlock

(* The blocks do not overlap: one that starts later starts after the end. *)
LEMMA Ordered ==
  ASSUME NEW a, Tiled(a), NEW x \in Heads(a), NEW y \in Heads(a), x < y
  PROVE  End(a, x) <= y
  <1> DEFINE T == {z \in Heads(a) : \E w \in Heads(a) : w < z /\ ~ (End(a, w) <= z)}
  <1> SUFFICES ASSUME T # {} PROVE FALSE
    BY Zenon
  <1>1. T \in SUBSET Nat
    BY BlockFacts, Zenon
  <1>2. PICK z \in T : \A q \in T : z <= q
    <2> HIDE DEF T
    <2> QED  BY <1>1, LeastNumber, Zenon
  <1>3. PICK w \in Heads(a) : w < z /\ ~ (End(a, w) <= z)
    BY <1>2, Zenon
  <1>4. z \in Heads(a) /\ z # 0 /\ w \in Nat /\ z \in Nat /\ End(a, w) \in Nat
    <2>1. z \in Heads(a)
      BY <1>2, Zenon
    <2>2. w \in Nat /\ z \in Nat /\ End(a, w) \in Nat
      BY <2>1, BlockFacts, Zenon
    <2>3. z # 0
      BY <1>3, <2>2
    <2> QED  BY <2>1, <2>2, <2>3, Zenon
  <1> DEFINE p == a[z].previous
  <1>5. p \in Heads(a) /\ a[p].next = z
    BY <1>4, Zenon DEF Tiled
  <1>6. a[p].next # NULL
    BY <1>4, <1>5 DEF NULL
  <1>7. End(a, p) = z /\ p < z /\ p \in Nat
    BY <1>5, <1>6, BlockFacts
  <1>8. p # w
    BY <1>3, <1>4, <1>7
  <1>9. ~ (p < w)
    <2> SUFFICES ASSUME p < w PROVE FALSE
      BY Zenon
    <2>1. ~ (End(a, p) <= w)
      BY <1>3, <1>4, <1>7
    <2>2. w \in T
      BY <2>1, <1>3, <1>5, Zenon
    <2> QED  BY <2>2, <1>2, <1>3, <1>4
  <1>10. ~ (w < p)
    <2> SUFFICES ASSUME w < p PROVE FALSE
      BY Zenon
    <2>1. p \notin T
      <3> HIDE DEF T, p
      <3> QED  BY <1>2, <1>4, <1>7
    <2>2. End(a, w) <= p
      BY <2>1, <1>3, <1>5, Zenon
    <2> QED  BY <2>2, <1>3, <1>4, <1>7
  <1> QED  BY <1>4, <1>7, <1>8, <1>9, <1>10

(* The blocks from b on. *)
Suffix(a, b) == {x \in Heads(a) : b <= x}

LEMMA SuffixStep ==
  ASSUME NEW a, Tiled(a), NEW b \in Heads(a)
  PROVE  /\ a[b].next = NULL => Suffix(a, b) = {b}
         /\ a[b].next # NULL => /\ Suffix(a, b) = {b} \cup Suffix(a, a[b].next)
                                /\ b \notin Suffix(a, a[b].next)
  <1>1. ASSUME NEW x \in Heads(a) PROVE x \in Nat /\ x < KHEAP_ARENA_SIZE
    BY BlockFacts, Constants DEF Offsets
  <1>2. b \in Suffix(a, b)
    BY <1>1 DEF Suffix
  <1>3. ASSUME a[b].next = NULL PROVE Suffix(a, b) = {b}
    <2>1. ASSUME NEW x \in Suffix(a, b), x # b PROVE FALSE
      <3>1. x \in Heads(a) /\ b < x
        BY <1>1, <2>1 DEF Suffix
      <3>2. End(a, b) <= x
        BY <3>1, Ordered, Zenon
      <3> QED  BY <1>1, <1>3, <3>1, <3>2, BlockFacts, Constants
    <2> QED  BY <1>2, <2>1, Zenon
  <1>4. ASSUME a[b].next # NULL
        PROVE  Suffix(a, b) = {b} \cup Suffix(a, a[b].next) /\ b \notin Suffix(a, a[b].next)
    <2> DEFINE n == a[b].next
    <2>1. n = End(a, b) /\ b < n /\ n \in Nat /\ b \in Nat
      BY <1>4, BlockFacts, Zenon
    <2>2. ASSUME NEW x \in Heads(a), b <= x, x # b PROVE n <= x
      <3>1. b < x
        BY <1>1, <2>2
      <3> QED  BY <3>1, <2>1, Ordered, Zenon
    <2> HIDE DEF n
    <2>3. ASSUME NEW x \in Heads(a), n <= x PROVE b <= x /\ x # b
      BY <1>1, <2>1, <2>3
    <2>4. Suffix(a, b) = {b} \cup Suffix(a, n)
      BY <1>2, <2>2, <2>3, Zenon DEF Suffix
    <2>5. b \notin Suffix(a, n)
      BY <2>1 DEF Suffix
    <2> QED  BY <2>4, <2>5, Zenon DEF n
  <1> QED  BY <1>3, <1>4, Zenon

LEMMA SuffixAll ==
  ASSUME NEW a, Tiled(a)
  PROVE  Suffix(a, 0) = Heads(a)
  BY BlockFacts DEF Suffix

-----------------------------------------------------------------------------
(* The equation that the walk of Blocks solves, and its only solution on   *)
(* the headers: the blocks from there on.                                  *)
WalkStep(a, f, b) == {b} \cup (IF a[b].next = NULL THEN {} ELSE f[a[b].next])

LEMMA WalkExists ==
  ASSUME NEW a, Tiled(a)
  PROVE  \E f : f = [b \in Offsets |-> WalkStep(a, f, b)]
  <1> DEFINE f == [b \in Offsets |-> IF b \in Heads(a) THEN Suffix(a, b) ELSE {b}]
  <1>1. ASSUME NEW b \in Offsets PROVE f[b] = WalkStep(a, f, b)
    <2>1. CASE b \in Heads(a) /\ a[b].next = NULL
      BY <2>1, SuffixStep DEF WalkStep
    <2>2. CASE b \in Heads(a) /\ a[b].next # NULL
      <3>1. a[b].next \in Heads(a) /\ a[b].next \in Offsets
        BY <2>2, BlockFacts, Zenon
      <3>2. f[a[b].next] = Suffix(a, a[b].next)
        BY <3>1, Zenon
      <3> QED  BY <2>2, <3>2, SuffixStep, Zenon DEF WalkStep
    <2>3. CASE b \notin Heads(a)
      <3>1. a[b].next = NULL
        BY <2>3 DEF Tiled, Data
      <3> QED  BY <2>3, <3>1, Zenon DEF WalkStep
    <2> QED  BY <2>1, <2>2, <2>3, Zenon
  <1>2. f = [b \in Offsets |-> WalkStep(a, f, b)]
    <2> DEFINE g == [b \in Offsets |-> WalkStep(a, f, b)]
    <2>1. \A b \in Offsets : f[b] = g[b]
      <3> HIDE DEF f
      <3> QED  BY <1>1, Zenon
    <2> QED  BY <2>1, Zenon
  <1> QED  BY <1>2, Zenon

LEMMA WalkUnique ==
  ASSUME NEW a, Tiled(a), NEW f, f = [b \in Offsets |-> WalkStep(a, f, b)]
  PROVE  \A b \in Heads(a) : f[b] = Suffix(a, b)
  <1> DEFINE T == {b \in Heads(a) : f[b] # Suffix(a, b)}
  <1> SUFFICES ASSUME T # {} PROVE FALSE
    BY Zenon
  <1>1. T \in SUBSET Offsets
    BY Zenon DEF Heads
  <1>2. PICK b \in T : \A q \in T : q <= b
    <2> HIDE DEF T
    <2> QED  BY <1>1, GreatestOffset, Zenon
  <1>3. b \in Heads(a) /\ b \in Offsets /\ f[b] # Suffix(a, b)
    BY <1>1, <1>2, Zenon
  <1>4. f[b] = WalkStep(a, f, b)
    BY <1>3, Zenon
  <1>5. CASE a[b].next = NULL
    BY <1>3, <1>4, <1>5, SuffixStep, SMTT(30) DEF WalkStep
  <1>6. CASE a[b].next # NULL
    <2>1. a[b].next \in Heads(a) /\ b < a[b].next /\ b \in Nat /\ a[b].next \in Nat
      BY <1>3, <1>6, BlockFacts
    <2>2. a[b].next \notin T
      <3> HIDE DEF T
      <3> QED  BY <1>2, <2>1
    <2>3. f[a[b].next] = Suffix(a, a[b].next)
      BY <2>1, <2>2, Zenon
    <2> QED  BY <1>3, <1>4, <1>6, <2>3, SuffixStep DEF WalkStep
  <1> QED  BY <1>5, <1>6, Zenon

(* Blocks, the walk from the first block, visits every header. *)
LEMMA BlocksAre ==
  ASSUME NEW a, Tiled(a)
  PROVE  Blocks(a) = Heads(a)
  <1> DEFINE f == CHOOSE g : g = [b \in Offsets |-> WalkStep(a, g, b)]
  <1>1. f = [b \in Offsets |-> WalkStep(a, f, b)]
    BY WalkExists, Zenon
  <1>2. f[0] = Heads(a)
    <2> HIDE DEF f
    <2> QED  BY <1>1, WalkUnique, SuffixAll DEF Tiled
  <1> QED  BY <1>2, Zenon DEF Blocks, WalkStep

-----------------------------------------------------------------------------
(* The equation that inspect_heap's walk solves; it holds from every header *)
(* of a tiled arena without neighbouring free blocks.                       *)
InspectStep(a, f, b) ==
  /\ b <= KHEAP_ARENA_SIZE - HeaderSize
  /\ a[b].state \in {"free", "allocated"}
  /\ a[b].payload_size >= KHEAP_ALIGNMENT
  /\ a[b].payload_size % KHEAP_ALIGNMENT = 0
  /\ End(a, b) <= KHEAP_ARENA_SIZE
  /\ IF a[b].next = NULL THEN End(a, b) = KHEAP_ARENA_SIZE
     ELSE /\ End(a, b) < KHEAP_ARENA_SIZE /\ a[b].next = End(a, b)
          /\ a[a[b].next].previous = b
          /\ ~ (a[b].state = "free" /\ a[a[b].next].state = "free")
          /\ f[a[b].next]

LEMMA InspectHead ==
  ASSUME NEW a, Tiled(a), NoFreePair(a), NEW f, NEW b \in Heads(a),
         a[b].next # NULL => f[a[b].next] = TRUE
  PROVE  InspectStep(a, f, b) = TRUE
  <1>1. b <= KHEAP_ARENA_SIZE - HeaderSize
    BY BlockFacts, Constants
  <1>2. a[b].payload_size % KHEAP_ALIGNMENT = 0
    BY BlockFacts, Zenon DEF Aligned
  <1>3. a[b].next # NULL => End(a, b) < KHEAP_ARENA_SIZE
    BY BlockFacts, Constants DEF Offsets
  <1>4. a[b].next # NULL => ~ (a[b].state = "free" /\ a[a[b].next].state = "free")
    BY Zenon DEF NoFreePair
  <1>5. InspectStep(a, f, b)
    BY <1>1, <1>2, <1>3, <1>4, BlockFacts, Zenon DEF InspectStep
  <1> QED  BY <1>5, Zenon DEF InspectStep

LEMMA InspectExists ==
  ASSUME NEW a, Tiled(a), NoFreePair(a)
  PROVE  \E f : f = [b \in Offsets |-> InspectStep(a, f, b)]
  <1> DEFINE f == [b \in Offsets |-> IF b \in Heads(a) THEN TRUE ELSE FALSE]
  <1>1. ASSUME NEW b \in Offsets PROVE f[b] = InspectStep(a, f, b)
    <2>1. CASE b \in Heads(a)
      <3>1. a[b].next # NULL => f[a[b].next] = TRUE
        BY <2>1, BlockFacts, Zenon
      <3>2. InspectStep(a, f, b) = TRUE
        <4> HIDE DEF f
        <4> QED  BY <2>1, <3>1, InspectHead, Zenon
      <3> QED  BY <2>1, <3>2, Zenon
    <2>2. CASE b \notin Heads(a)
      <3>1. a[b].state = "data"
        BY <2>2, Zenon DEF Heads
      <3>2. InspectStep(a, f, b) = FALSE
        <4> HIDE DEF f
        <4> QED  BY <3>1, Zenon DEF InspectStep
      <3> QED  BY <2>2, <3>2, Zenon
    <2> QED  BY <2>1, <2>2, Zenon
  <1>2. f = [b \in Offsets |-> InspectStep(a, f, b)]
    <2> DEFINE g == [b \in Offsets |-> InspectStep(a, f, b)]
    <2>1. \A b \in Offsets : f[b] = g[b]
      <3> HIDE DEF f
      <3> QED  BY <1>1, Zenon
    <2> QED  BY <2>1, Zenon
  <1> QED  BY <1>2, Zenon

LEMMA InspectUnique ==
  ASSUME NEW a, Tiled(a), NoFreePair(a), NEW f,
         f = [b \in Offsets |-> InspectStep(a, f, b)]
  PROVE  \A b \in Heads(a) : f[b] = TRUE
  <1> DEFINE T == {b \in Heads(a) : f[b] # TRUE}
  <1> SUFFICES ASSUME T # {} PROVE FALSE
    BY Zenon
  <1>1. T \in SUBSET Offsets
    BY Zenon DEF Heads
  <1>2. PICK b \in T : \A q \in T : q <= b
    <2> HIDE DEF T
    <2> QED  BY <1>1, GreatestOffset, Zenon
  <1>3. b \in Heads(a) /\ b \in Offsets /\ f[b] # TRUE
    BY <1>1, <1>2, Zenon
  <1>4. f[b] = InspectStep(a, f, b)
    BY <1>3, Zenon
  <1>5. a[b].next # NULL => f[a[b].next] = TRUE
    <2> SUFFICES ASSUME a[b].next # NULL PROVE f[a[b].next] = TRUE
      BY Zenon
    <2>1. a[b].next \in Heads(a) /\ b < a[b].next /\ b \in Nat /\ a[b].next \in Nat
      BY <1>3, BlockFacts
    <2>2. a[b].next \notin T
      <3> HIDE DEF T
      <3> QED  BY <1>2, <2>1
    <2> QED  BY <2>1, <2>2, Zenon
  <1> QED  BY <1>3, <1>4, <1>5, InspectHead, Zenon

(* kheap_validate accepts every arena that the invariant describes. *)
LEMMA Inspected ==
  ASSUME NEW a, Tiled(a), NoFreePair(a)
  PROVE  inspect_heap(a)
  <1> DEFINE f == CHOOSE g : g = [b \in Offsets |-> InspectStep(a, g, b)]
  <1>1. f = [b \in Offsets |-> InspectStep(a, f, b)]
    BY InspectExists, Zenon
  <1>2. f[0] = TRUE
    <2> HIDE DEF f
    <2> QED  BY <1>1, InspectUnique, Zenon DEF Tiled
  <1>3. inspect_from(a)[0] = f[0]
    BY Zenon DEF inspect_from, InspectStep, End
  <1> QED  BY <1>2, <1>3, Zenon DEF inspect_heap, Tiled

-----------------------------------------------------------------------------
(* What merge_with_next stores. *)
LEMMA MergeFields ==
  ASSUME NEW a, Tiled(a), NEW left \in Heads(a), a[left].next # NULL
  PROVE  LET m == merge_with_next(a, left)
             right == a[left].next
             after == a[right].next
         IN  /\ m \in [Offsets -> HeaderType]
             /\ m[right] = Data
             /\ m[left] = Block(a[left].state,
                                a[left].payload_size + HeaderSize + a[right].payload_size,
                                a[left].previous, after)
             /\ after # NULL => m[after] = Block(a[after].state, a[after].payload_size,
                                                 left, a[after].next)
             /\ \A o \in Offsets \ {left, right, after} : m[o] = a[o]
             /\ right \in Heads(a) /\ left # right /\ right # 0
             /\ after # NULL => after \in Heads(a) /\ after # left /\ after # right
  <1> DEFINE m == merge_with_next(a, left)
             right == a[left].next
             after == a[right].next
  <1>1. right \in Heads(a) /\ left < right /\ left \in Nat /\ right \in Nat
    BY BlockFacts, Zenon
  <1>2. after # NULL => after \in Heads(a) /\ right < after /\ after \in Nat
    <2> HIDE DEF right
    <2> QED  BY <1>1, BlockFacts, ZenonT(40)
  <1>a. left # right /\ (after # NULL => left # after /\ right # after)
    <2> HIDE DEF right, after
    <2> QED  BY <1>1, <1>2
  <1>3. a \in [Offsets -> HeaderType] /\ left \in Offsets /\ right \in Offsets
    BY <1>1, Zenon DEF Tiled, Heads
  <1>4. after # NULL => after \in Offsets
    BY <1>2, Zenon DEF Heads
  <1>5. a[left] \in HeaderType /\ a[right] \in HeaderType
    BY <1>3, Zenon
  <1> DEFINE size == a[left].payload_size + HeaderSize + a[right].payload_size
  <1>6. size \in Nat
    BY <1>5, Constants DEF HeaderType
  <1>7. a[left].previous \in Offsets \cup {NULL} /\ after \in Offsets \cup {NULL}
        /\ a[left].state \in {"data", "free", "allocated"}
    BY <1>5, Zenon DEF HeaderType
  <1> DEFINE grown == [a EXCEPT ![left].payload_size = size, ![left].next = after]
             linked == IF after = NULL THEN grown
                       ELSE [grown EXCEPT ![after].previous = left]
  <1>8. m = [linked EXCEPT ![right] = Data]
    BY Zenon DEF merge_with_next
  <1>9. /\ grown \in [Offsets -> HeaderType]
        /\ grown[left] = Block(a[left].state, size, a[left].previous, after)
        /\ \A o \in Offsets \ {left} : grown[o] = a[o]
    <2> HIDE DEF right, size, after
    <2> QED  BY <1>3, <1>5, <1>6, <1>7, Zenon DEF HeaderType, Block
  <1> HIDE DEF grown, m
  <1>10. ASSUME after # NULL
         PROVE  /\ linked \in [Offsets -> HeaderType]
                /\ linked[after] = Block(a[after].state, a[after].payload_size,
                                         left, a[after].next)
                /\ \A o \in Offsets \ {after} : linked[o] = grown[o]
    <2>1. a[after] \in HeaderType /\ grown[after] = a[after]
      BY <1>a, <1>3, <1>4, <1>9, <1>10, Zenon
    <2> HIDE DEF right, after
    <2> QED  BY <1>3, <1>4, <1>9, <1>10, <2>1, Zenon DEF HeaderType, Block
  <1>11. after = NULL => linked = grown
    BY Zenon
  <1> HIDE DEF linked
  <1>12. Data \in HeaderType
    BY Zenon DEF Data, HeaderType
  <1>13. linked \in [Offsets -> HeaderType]
    BY <1>9, <1>10, <1>11, Zenon
  <1>14. /\ m \in [Offsets -> HeaderType] /\ m[right] = Data
         /\ \A o \in Offsets \ {right} : m[o] = linked[o]
    BY <1>3, <1>8, <1>12, <1>13, Zenon
  <1>15. linked[left] = grown[left]
    <2> HIDE DEF right, after
    <2> QED  BY <1>a, <1>3, <1>10, <1>11, Zenon
  <1>16. m[left] = Block(a[left].state, size, a[left].previous, after)
    <2> HIDE DEF right, after, size
    <2> QED  BY <1>a, <1>3, <1>9, <1>14, <1>15, Zenon
  <1>17. after # NULL => m[after] = Block(a[after].state, a[after].payload_size,
                                          left, a[after].next)
    <2> HIDE DEF right, after
    <2> QED  BY <1>a, <1>4, <1>10, <1>14, Zenon
  <1>18. ASSUME NEW o \in Offsets \ {left, right, after} PROVE m[o] = a[o]
    BY <1>9, <1>10, <1>11, <1>14, Zenon
  <1>19. right # 0
    <2> HIDE DEF right
    <2> QED  BY <1>1
  <1> QED  BY <1>1, <1>2, <1>a, <1>14, <1>16, <1>17, <1>18, <1>19, Zenon DEF m

(* Merging two neighbours keeps the arena tiled: the right header is gone  *)
(* and every other block is what it was.                                   *)
LEMMA MergeTiled ==
  ASSUME NEW a, Tiled(a), NEW left \in Heads(a), a[left].next # NULL
  PROVE  LET m == merge_with_next(a, left)
             right == a[left].next
         IN  /\ Tiled(m) /\ Heads(m) = Heads(a) \ {right}
             /\ \A x \in Heads(m) : m[x].state = a[x].state
             /\ \A x \in Heads(m) \ {left} : /\ m[x].payload_size = a[x].payload_size
                                             /\ m[x].next = a[x].next
             /\ m[left].next = a[right].next
             /\ m[left].payload_size = a[left].payload_size + HeaderSize
                                         + a[right].payload_size
  <1> DEFINE m == merge_with_next(a, left)
             right == a[left].next
             after == a[right].next
             size == a[left].payload_size + HeaderSize + a[right].payload_size
  <1>1. /\ m \in [Offsets -> HeaderType]
        /\ m[right] = Data
        /\ m[left] = Block(a[left].state, size, a[left].previous, after)
        /\ after # NULL => m[after] = Block(a[after].state, a[after].payload_size,
                                            left, a[after].next)
        /\ \A o \in Offsets \ {left, right, after} : m[o] = a[o]
        /\ right \in Heads(a) /\ left # right /\ right # 0
        /\ after # NULL => after \in Heads(a) /\ after # left /\ after # right
    BY MergeFields, ZenonT(40)
  <1>2. a[right].previous = left /\ right = End(a, left) /\ left < right
    BY BlockFacts, ZenonT(40)
  <1> HIDE DEF m, right
  <1>3. after # NULL => a[after].previous = right /\ after = End(a, right) /\ right < after
    BY <1>1, BlockFacts
  <1>4. after = NULL => End(a, right) = KHEAP_ARENA_SIZE
    BY <1>1, BlockFacts, Zenon
  <1> HIDE DEF after
  <1>5. /\ m[left].state = a[left].state /\ m[left].payload_size = size
        /\ m[left].previous = a[left].previous /\ m[left].next = after
    BY <1>1 DEF Block
  <1>6. after # NULL => /\ m[after].state = a[after].state
                        /\ m[after].payload_size = a[after].payload_size
                        /\ m[after].previous = left /\ m[after].next = a[after].next
    BY <1>1 DEF Block
  <1>7. ASSUME NEW x \in Heads(a), x # left, x # right
        PROVE  /\ m[x].state = a[x].state /\ m[x].payload_size = a[x].payload_size
               /\ m[x].next = a[x].next
               /\ x # after => m[x].previous = a[x].previous
    <2>1. x \in Offsets /\ x # NULL
      BY Constants DEF Heads, Offsets, NULL
    <2>2. CASE x = after
      BY <1>6, <2>1, <2>2, Zenon
    <2>3. CASE x # after
      BY <1>1, <1>7, <2>1, <2>3, Zenon
    <2> QED  BY <2>2, <2>3, Zenon
  <1>8. Heads(m) = Heads(a) \ {right}
    <2>1. ASSUME NEW o \in Offsets, o \notin Heads(a) PROVE m[o] = a[o]
      <3>1. after = NULL \/ o # after
        BY <1>1, <2>1, Zenon
      <3>2. o # NULL
        BY Constants DEF Offsets, NULL
      <3> QED  BY <1>1, <2>1, <3>1, <3>2, Zenon
    <2>2. ASSUME NEW o \in Offsets PROVE o \in Heads(m) <=> o \in Heads(a) /\ o # right
      <3>1. CASE o \notin Heads(a)
        BY <2>1, <3>1, Zenon DEF Heads
      <3>2. CASE o = right
        BY <1>1, <3>2 DEF Heads, Data
      <3>3. CASE o \in Heads(a) /\ o # right
        BY <1>5, <1>7, <3>3, Zenon DEF Heads
      <3> QED  BY <3>1, <3>2, <3>3, Zenon
    <2> QED  BY <2>2, Zenon DEF Heads
  <1>9. \A o \in Offsets \ Heads(m) : m[o] = Data
    <2> SUFFICES ASSUME NEW o \in Offsets, o \notin Heads(m) PROVE m[o] = Data
      BY Zenon
    <2>1. CASE o = right
      BY <1>1, <2>1, Zenon
    <2>2. CASE o # right
      <3>1. o \notin Heads(a) /\ a[o] = Data /\ o # NULL
        BY <1>8, <2>2, Constants DEF Tiled, Offsets, NULL
      <3>2. o # left /\ o # after
        BY <1>1, <3>1, Zenon
      <3> QED  BY <1>1, <2>2, <3>1, <3>2, Zenon
    <2> QED  BY <2>1, <2>2, Zenon
  <1>10. ASSUME NEW x \in Heads(a)
         PROVE  x \in Nat /\ x # NULL
    BY BlockFacts DEF NULL
  <1>11. 0 \in Heads(m) /\ m[0].previous = NULL
    <2>1. 0 \in Heads(m)
      BY <1>1, <1>8, Zenon DEF Tiled
    <2>2. 0 # after
      BY <1>1, <1>2, <1>3, <1>10, SMTT(30) DEF NULL
    <2> QED  BY <1>5, <1>7, <1>8, <2>1, <2>2, Zenon DEF Tiled
  <1>12. size \in Nat /\ size >= KHEAP_ALIGNMENT /\ Aligned(size)
         /\ End(m, left) = End(a, right) /\ End(a, right) <= KHEAP_ARENA_SIZE
    <2>1. /\ a[left].payload_size \in Nat /\ a[right].payload_size \in Nat
          /\ a[left].payload_size >= KHEAP_ALIGNMENT
          /\ Aligned(a[left].payload_size) /\ Aligned(a[right].payload_size)
          /\ right = left + HeaderSize + a[left].payload_size /\ left \in Nat
          /\ End(a, right) = right + HeaderSize + a[right].payload_size
          /\ End(a, right) <= KHEAP_ARENA_SIZE
      BY <1>1, <1>2, BlockFacts, ZenonT(40)
    <2>2. Aligned(a[left].payload_size + HeaderSize)
      BY <2>1, AlignedNumbers, Constants, Zenon
    <2>3. Aligned(size)
      <3> DEFINE u == a[left].payload_size + HeaderSize
                 w == a[right].payload_size
      <3>1. u \in Nat /\ w \in Nat /\ Aligned(u) /\ Aligned(w)
        BY <2>1, <2>2, Constants
      <3>2. Aligned(u + w)
        <4> HIDE DEF u, w
        <4> QED  BY <3>1, AlignedNumbers, Zenon
      <3> QED  BY <3>2, Zenon
    <2>4. End(m, left) = left + HeaderSize + size
      BY <1>5, Zenon DEF End, block_payload
    <2> QED  BY <2>1, <2>3, <2>4, Constants
  <1>13. SoundBlock(m, left)
    <2>1. after # NULL => after \in Heads(m) /\ m[after].previous = left
      BY <1>1, <1>6, <1>8, Zenon
    <2> QED  BY <1>3, <1>4, <1>5, <1>12, <2>1, Zenon DEF SoundBlock
  <1>14. ASSUME NEW x \in Heads(m), x # left PROVE SoundBlock(m, x)
    <2>1. x \in Heads(a) /\ x # right /\ SoundBlock(a, x)
      BY <1>8, Zenon DEF Tiled
    <2>2. m[x].payload_size = a[x].payload_size /\ m[x].next = a[x].next
      BY <1>7, <1>14, <2>1, Zenon
    <2>3. End(m, x) = End(a, x)
      BY <2>2, Zenon DEF End
    <2>4. ASSUME a[x].next # NULL
          PROVE  a[x].next \in Heads(m) /\ m[a[x].next].previous = x
      <3> DEFINE n == a[x].next
      <3>1. n \in Heads(a) /\ a[n].previous = x
        BY <2>1, <2>4, BlockFacts, Zenon
      <3> HIDE DEF n
      <3>2. n # right /\ n # after
        BY <1>2, <1>3, <1>10, <1>14, <2>1, <3>1, Zenon
      <3>3. m[n].previous = x
        BY <1>5, <1>7, <3>1, <3>2, Zenon
      <3>4. n \in Heads(m)
        BY <1>8, <3>1, <3>2, Zenon
      <3> QED  BY <3>3, <3>4, Zenon DEF n
    <2> QED  BY <2>1, <2>2, <2>3, <2>4, Zenon DEF SoundBlock
  <1>15. ASSUME NEW x \in Heads(m) \ {0}
         PROVE  m[x].previous \in Heads(m) /\ m[m[x].previous].next = x
    <2>1. x \in Heads(a) /\ x # right /\ x # NULL
      BY <1>8, <1>10, Zenon
    <2>2. CASE x = after
      BY <1>1, <1>5, <1>6, <1>8, <2>1, <2>2, Zenon
    <2>3. CASE x # after
      <3> DEFINE p == a[x].previous
      <3>1. p \in Heads(a) /\ a[p].next = x /\ m[x].previous = p
        BY <1>5, <1>7, <2>1, <2>3, Zenon DEF Tiled
      <3> HIDE DEF p
      <3>2. p # right /\ p # left
        BY <2>1, <2>3, <3>1, Zenon DEF right, after
      <3> QED  BY <1>7, <1>8, <3>1, <3>2, Zenon
    <2> QED  BY <2>2, <2>3, Zenon
  <1>16. Tiled(m)
    BY <1>1, <1>9, <1>11, <1>13, <1>14, <1>15, Zenon DEF Tiled
  <1>17. \A x \in Heads(m) : m[x].state = a[x].state
    BY <1>5, <1>7, <1>8, Zenon
  <1>18. \A x \in Heads(m) \ {left} : /\ m[x].payload_size = a[x].payload_size
                                      /\ m[x].next = a[x].next
    BY <1>7, <1>8, Zenon
  <1> QED  BY <1>5, <1>8, <1>16, <1>17, <1>18, ZenonT(40) DEF m, right, after

-----------------------------------------------------------------------------
(* Bytes written inside a block's payload touch no header. *)
LEMMA Untouched ==
  ASSUME NEW a, Tiled(a), NEW b \in Heads(a), NEW bytes \in SUBSET Nat,
         \A z \in bytes : block_payload(b) <= z /\ z < End(a, b)
  PROVE  Overwrite(a, bytes) = a
  <1>1. ASSUME NEW o \in Offsets, Header(o) \cap bytes # {} PROVE a[o] = Data
    <2> SUFFICES ASSUME o \in Heads(a) PROVE FALSE
      BY Zenon DEF Tiled
    <2>1. PICK z \in Header(o) \cap bytes : TRUE
      BY <1>1, Zenon
    <2>2. /\ o \in Nat /\ b \in Nat /\ End(a, o) \in Nat /\ End(a, b) \in Nat /\ z \in Nat
          /\ o + HeaderSize <= End(a, o)
      <3>1. o \in Nat /\ b \in Nat /\ End(a, o) \in Nat /\ End(a, b) \in Nat
        BY BlockFacts, Zenon
      <3>2. a[o].payload_size \in Nat /\ End(a, o) = o + HeaderSize + a[o].payload_size
        BY BlockFacts, Zenon
      <3>3. z \in Nat
        BY <2>1, Zenon
      <3> QED  BY <3>1, <3>2, <3>3, Constants
    <2>3. o <= z /\ z < o + HeaderSize
      BY <2>1, <2>2, Constants DEF Header
    <2>4. b + HeaderSize <= z /\ z < End(a, b)
      BY <2>1, Zenon DEF block_payload
    <2>5. o # b
      BY <2>2, <2>3, <2>4, Constants
    <2>6. o < b => End(a, o) <= b
      BY Ordered, Zenon
    <2>7. b < o => End(a, b) <= o
      BY Ordered, Zenon
    <2> QED  BY <2>2, <2>3, <2>4, <2>5, <2>6, <2>7, Constants
  <1>2. a \in [Offsets -> HeaderType]
    BY Zenon DEF Tiled
  <1> QED  BY <1>1, <1>2, Zenon DEF Overwrite

(* Only its state changes when a block is marked. *)
LEMMA Marked ==
  ASSUME NEW a, Tiled(a), NEW b \in Heads(a), NEW s \in {"free", "allocated"}
  PROVE  LET m == [a EXCEPT ![b].state = s]
         IN  /\ Tiled(m) /\ Heads(m) = Heads(a) /\ m[b].state = s
             /\ \A x \in Heads(a) \ {b} : m[x] = a[x]
             /\ \A x \in Heads(a) : /\ m[x].payload_size = a[x].payload_size
                                    /\ m[x].previous = a[x].previous
                                    /\ m[x].next = a[x].next
  <1> DEFINE m == [a EXCEPT ![b].state = s]
  <1>1. a \in [Offsets -> HeaderType] /\ b \in Offsets /\ a[b] \in HeaderType
    BY BlockFacts, Zenon DEF Tiled
  <1>2. /\ m \in [Offsets -> HeaderType] /\ m[b] = [a[b] EXCEPT !.state = s]
        /\ \A o \in Offsets \ {b} : m[o] = a[o]
    BY <1>1, Zenon DEF HeaderType
  <1> HIDE DEF m
  <1>3. /\ m[b].state = s /\ m[b].payload_size = a[b].payload_size
        /\ m[b].previous = a[b].previous /\ m[b].next = a[b].next
    BY <1>1, <1>2, Zenon DEF HeaderType
  <1>4. Heads(m) = Heads(a)
    BY <1>1, <1>2, <1>3, Zenon DEF Heads
  <1>5. \A x \in Heads(a) : /\ m[x].payload_size = a[x].payload_size
                            /\ m[x].previous = a[x].previous
                            /\ m[x].next = a[x].next
    BY <1>2, <1>3, Zenon DEF Heads
  <1>6. \A x \in Heads(a) : End(m, x) = End(a, x)
    BY <1>5, Zenon DEF End
  <1>7. \A x \in Heads(a) : SoundBlock(m, x)
    <2> SUFFICES ASSUME NEW x \in Heads(a) PROVE SoundBlock(m, x)
      BY Zenon
    <2>1. SoundBlock(a, x)
      BY Zenon DEF Tiled
    <2> QED  BY <1>4, <1>5, <1>6, <2>1, Zenon DEF SoundBlock
  <1>8. \A o \in Offsets \ Heads(m) : m[o] = Data
    BY <1>2, <1>4, Zenon DEF Tiled
  <1>9. Tiled(m)
    BY <1>2, <1>4, <1>5, <1>7, <1>8 DEF Tiled
  <1>10. \A x \in Heads(a) \ {b} : m[x] = a[x]
    BY <1>2, Zenon DEF Heads
  <1> QED  BY <1>3, <1>4, <1>5, <1>9, <1>10, Zenon DEF m

(* What split_block stores when the block is large enough to be split: the *)
(* new header goes into bytes that belonged to the block's own payload.    *)
LEMMA SplitFields ==
  ASSUME NEW a, Tiled(a), NEW b \in Heads(a), NEW size \in Nat, Aligned(size),
         size <= a[b].payload_size, CanSplit(a[b].payload_size - size)
  PROVE  LET m == split_block(a, b, size)
             split == block_payload(b) + size
             n == a[b].next
             rest == a[b].payload_size - size - HeaderSize
         IN  /\ m \in [Offsets -> HeaderType]
             /\ split \in Offsets \ Heads(a)
             /\ rest \in Nat /\ rest >= KHEAP_ALIGNMENT /\ Aligned(rest)
             /\ m[split] = Block("free", rest, b, n)
             /\ m[b] = Block(a[b].state, size, a[b].previous, split)
             /\ n # NULL => m[n] = Block(a[n].state, a[n].payload_size, split, a[n].next)
             /\ \A o \in Offsets \ {b, split, n} : m[o] = a[o]
             /\ n # NULL => n \in Heads(a) /\ n # b
  <1> DEFINE split == block_payload(b) + size
             n == a[b].next
             ps == a[b].payload_size
             rest == ps - size - HeaderSize
             m == split_block(a, b, size)
  <1>1. /\ b \in Nat /\ b \in Offsets /\ Aligned(b) /\ ps \in Nat /\ Aligned(ps)
        /\ End(a, b) = b + HeaderSize + ps /\ End(a, b) <= KHEAP_ARENA_SIZE
        /\ a[b] \in HeaderType /\ a \in [Offsets -> HeaderType]
    BY BlockFacts, Zenon DEF Tiled
  <1>2. n # NULL => n \in Heads(a) /\ n # b /\ n = End(a, b) /\ n \in Offsets
    BY BlockFacts
  <1> HIDE DEF ps, n
  <1>3. split = b + HeaderSize + size /\ ps - size >= HeaderSize + KHEAP_ALIGNMENT
    BY Zenon DEF CanSplit, block_payload, ps
  <1> HIDE DEF split
  <1>4. rest \in Nat /\ rest >= KHEAP_ALIGNMENT /\ split \in Nat /\ b < split
        /\ split + HeaderSize < End(a, b)
    BY <1>1, <1>3, Constants
  <1>5. Aligned(rest)
    <2>0. size <= ps /\ Aligned(ps - size)
      <3>1. size <= ps
        BY Zenon DEF ps
      <3> QED  BY <1>1, <3>1, AlignedNumbers, Zenon
    <2>1. ps - size \in Nat /\ Aligned(ps - size) /\ HeaderSize <= ps - size
      BY <1>1, <1>3, <2>0, Constants
    <2> DEFINE d == ps - size
    <2> HIDE DEF d
    <2>2. d \in Nat /\ Aligned(d) /\ HeaderSize <= d
      BY <2>1, Zenon DEF d
    <2>3. Aligned(d - HeaderSize)
      BY <2>2, AlignedNumbers, Constants, Zenon
    <2> QED  BY <2>3, Zenon DEF d
  <1>6. Aligned(split)
    <2> DEFINE d == b + HeaderSize
    <2>1. d \in Nat /\ Aligned(d)
      BY <1>1, AlignedNumbers, Constants
    <2> HIDE DEF d
    <2>2. Aligned(d + size)
      BY <2>1, AlignedNumbers, Zenon
    <2> QED  BY <1>3, <2>2, Zenon DEF d
  <1>7. split \in Offsets
    BY <1>1, <1>4, <1>6, Constants DEF Offsets, Aligned
  <1>8. split \notin Heads(a)
    <2> SUFFICES ASSUME split \in Heads(a) PROVE FALSE
      BY Zenon
    <2>1. End(a, b) <= split
      BY <1>4, Ordered, Zenon
    <2> QED  BY <1>1, <1>4, <2>1, Constants
  <1>9. Overwrite(a, Header(split)) = a
    <2>1. Header(split) \in SUBSET Nat
      BY <1>4, Constants DEF Header
    <2>2. \A z \in Header(split) : block_payload(b) <= z /\ z < End(a, b)
      BY <1>1, <1>3, <1>4, Constants DEF Header, block_payload
    <2> QED  BY <2>1, <2>2, Untouched, Zenon
  <1> DEFINE with == [a EXCEPT ![split] = Block("free", rest, b, n)]
             linked == IF n = NULL THEN with ELSE [with EXCEPT ![n].previous = split]
  <1>10. m = [linked EXCEPT ![b].payload_size = size, ![b].next = split]
    BY <1>9, Zenon DEF split_block, WriteHeader, split, n, ps
  <1>11. n \in Offsets \cup {NULL}
    BY <1>1, Zenon DEF HeaderType, n
  <1>12. Block("free", rest, b, n) \in HeaderType
    <2> HIDE DEF rest
    <2> QED  BY <1>1, <1>4, <1>11, Zenon DEF Block, HeaderType
  <1>13. /\ with \in [Offsets -> HeaderType] /\ with[split] = Block("free", rest, b, n)
         /\ \A o \in Offsets \ {split} : with[o] = a[o]
    <2> HIDE DEF rest
    <2> QED  BY <1>1, <1>7, <1>12, Zenon
  <1> HIDE DEF with, m, rest
  <1>14. ASSUME n # NULL
         PROVE  /\ linked \in [Offsets -> HeaderType]
                /\ linked[n] = Block(a[n].state, a[n].payload_size, split, a[n].next)
                /\ \A o \in Offsets \ {n} : linked[o] = with[o]
    <2>1. a[n] \in HeaderType /\ with[n] = a[n]
      BY <1>1, <1>2, <1>8, <1>13, <1>14, Zenon
    <2> QED  BY <1>2, <1>7, <1>13, <1>14, <2>1, Zenon DEF HeaderType, Block
  <1>15. n = NULL => linked = with
    BY Zenon
  <1> HIDE DEF linked
  <1>16. b # split /\ b # n
    BY <1>1, <1>2, <1>4 DEF NULL
  <1>17. linked \in [Offsets -> HeaderType] /\ linked[b] = a[b]
    BY <1>1, <1>13, <1>14, <1>15, <1>16, Zenon
  <1>18. /\ m \in [Offsets -> HeaderType]
         /\ m[b] = Block(a[b].state, size, a[b].previous, split)
         /\ \A o \in Offsets \ {b} : m[o] = linked[o]
    BY <1>1, <1>7, <1>10, <1>17, Zenon DEF HeaderType, Block
  <1>19. n # split
    BY <1>2, <1>4, <1>8 DEF NULL
  <1>20. m[split] = Block("free", rest, b, n)
    BY <1>7, <1>13, <1>14, <1>15, <1>16, <1>18, <1>19, Zenon
  <1>21. n # NULL => m[n] = Block(a[n].state, a[n].payload_size, split, a[n].next)
    BY <1>2, <1>14, <1>18, Zenon
  <1>22. \A o \in Offsets \ {b, split, n} : m[o] = a[o]
    BY <1>13, <1>14, <1>15, <1>18, Zenon
  <1> QED  BY <1>2, <1>4, <1>5, <1>7, <1>8, <1>18, <1>20, <1>21, <1>22, Zenon
              DEF m, split, n, rest, ps

(* Splitting keeps the arena tiled: one free block is new, and the others  *)
(* are what they were.                                                     *)
LEMMA SplitTiled ==
  ASSUME NEW a, Tiled(a), NEW b \in Heads(a), NEW size \in Nat, Aligned(size),
         size >= KHEAP_ALIGNMENT,
         size <= a[b].payload_size, CanSplit(a[b].payload_size - size)
  PROVE  LET m == split_block(a, b, size)
             split == block_payload(b) + size
         IN  /\ Tiled(m) /\ Heads(m) = Heads(a) \cup {split} /\ split \notin Heads(a)
             /\ m[split].state = "free" /\ m[split].next = a[b].next
             /\ m[b].payload_size = size /\ m[b].next = split
             /\ \A x \in Heads(a) : m[x].state = a[x].state
             /\ \A x \in Heads(a) \ {b} : /\ m[x].payload_size = a[x].payload_size
                                          /\ m[x].next = a[x].next
  <1> DEFINE m == split_block(a, b, size)
             split == block_payload(b) + size
             n == a[b].next
             rest == a[b].payload_size - size - HeaderSize
  <1>1. /\ m \in [Offsets -> HeaderType]
        /\ split \in Offsets \ Heads(a)
        /\ rest \in Nat /\ rest >= KHEAP_ALIGNMENT /\ Aligned(rest)
        /\ m[split] = Block("free", rest, b, n)
        /\ m[b] = Block(a[b].state, size, a[b].previous, split)
        /\ n # NULL => m[n] = Block(a[n].state, a[n].payload_size, split, a[n].next)
        /\ \A o \in Offsets \ {b, split, n} : m[o] = a[o]
        /\ n # NULL => n \in Heads(a) /\ n # b
    BY SplitFields, ZenonT(40)
  <1>2. n # NULL => a[n].previous = b /\ n = End(a, b)
    BY BlockFacts, Zenon
  <1>3. n = NULL => End(a, b) = KHEAP_ARENA_SIZE
    BY BlockFacts, Zenon
  <1>4. /\ b \in Nat /\ a[b].payload_size \in Nat
        /\ End(a, b) = b + HeaderSize + a[b].payload_size
        /\ End(a, b) <= KHEAP_ARENA_SIZE
    BY BlockFacts, Zenon
  <1>5. split = b + HeaderSize + size /\ End(a, b) = split + HeaderSize + rest
    BY <1>4, Constants DEF block_payload
  <1> HIDE DEF m, n, split, rest
  <1>6. /\ m[b].state = a[b].state /\ m[b].payload_size = size
        /\ m[b].previous = a[b].previous /\ m[b].next = split
    BY <1>1 DEF Block
  <1>7. /\ m[split].state = "free" /\ m[split].payload_size = rest
        /\ m[split].previous = b /\ m[split].next = n
    BY <1>1 DEF Block
  <1>8. n # NULL => /\ m[n].state = a[n].state /\ m[n].payload_size = a[n].payload_size
                    /\ m[n].previous = split /\ m[n].next = a[n].next
    BY <1>1 DEF Block
  <1>9. ASSUME NEW x \in Offsets PROVE x \in Nat /\ x # NULL
    BY Constants DEF Offsets, NULL
  <1>10. ASSUME NEW x \in Heads(a), x # b
         PROVE  /\ m[x].state = a[x].state /\ m[x].payload_size = a[x].payload_size
                /\ m[x].next = a[x].next
                /\ x # n => m[x].previous = a[x].previous
    <2>1. x \in Offsets /\ x # NULL /\ x # split
      BY <1>1, <1>9, Zenon DEF Heads
    <2>2. CASE x = n
      BY <1>8, <2>1, <2>2, Zenon
    <2>3. CASE x # n
      BY <1>1, <1>10, <2>1, <2>3, Zenon
    <2> QED  BY <2>2, <2>3, Zenon
  <1>11. ASSUME NEW o \in Offsets, o \notin Heads(a), o # split PROVE m[o] = a[o]
    <2>1. o # b /\ o # n
      BY <1>1, <1>9, <1>11, Zenon
    <2> QED  BY <1>1, <1>11, <2>1, Zenon
  <1>12. Heads(m) = Heads(a) \cup {split}
    <2>1. ASSUME NEW o \in Offsets PROVE o \in Heads(m) <=> o \in Heads(a) \/ o = split
      <3>1. CASE o = split
        BY <1>7, <3>1, Zenon DEF Heads
      <3>2. CASE o \in Heads(a)
        BY <1>6, <1>10, <3>2, Zenon DEF Heads
      <3>3. CASE o \notin Heads(a) /\ o # split
        BY <1>11, <3>3, Zenon DEF Heads
      <3> QED  BY <3>1, <3>2, <3>3, Zenon
    <2> QED  BY <1>1, <2>1, Zenon DEF Heads
  <1>13. \A o \in Offsets \ Heads(m) : m[o] = Data
    BY <1>11, <1>12, Zenon DEF Tiled
  <1>14. 0 \in Heads(m) /\ m[0].previous = NULL
    <2>1. 0 \in Heads(a) /\ a[0].previous = NULL
      BY Zenon DEF Tiled
    <2>2. n # 0
      BY <1>2, <1>4, <1>9, <2>1, Constants DEF NULL
    <2> QED  BY <1>6, <1>10, <1>12, <2>1, <2>2, Zenon
  <1>15. SoundBlock(m, b)
    <2>1. End(m, b) = split
      BY <1>5, <1>6, Zenon DEF End, block_payload
    <2>2. split # NULL /\ split <= KHEAP_ARENA_SIZE
      BY <1>1, <1>9, Constants DEF Offsets
    <2> QED  BY <1>6, <1>7, <1>12, <2>1, <2>2, Zenon DEF SoundBlock
  <1>16. SoundBlock(m, split)
    <2>1. End(m, split) = End(a, b)
      BY <1>5, <1>7, Zenon DEF End, block_payload
    <2>2. n # NULL => n = End(a, b) /\ n \in Heads(m) /\ m[n].previous = split
      BY <1>1, <1>2, <1>8, <1>12, Zenon
    <2> QED  BY <1>1, <1>3, <1>4, <1>7, <2>1, <2>2, Zenon DEF SoundBlock
  <1>17. ASSUME NEW x \in Heads(a), x # b PROVE SoundBlock(m, x)
    <2>1. SoundBlock(a, x)
      BY Zenon DEF Tiled
    <2>2. m[x].payload_size = a[x].payload_size /\ m[x].next = a[x].next
      BY <1>10, <1>17, Zenon
    <2>3. End(m, x) = End(a, x)
      BY <2>2, Zenon DEF End
    <2>4. ASSUME a[x].next # NULL
          PROVE  a[x].next \in Heads(m) /\ m[a[x].next].previous = x
      <3> DEFINE k == a[x].next
      <3>1. k \in Heads(a) /\ a[k].previous = x
        BY <2>4, BlockFacts, Zenon
      <3> HIDE DEF k
      <3>2. k # n
        BY <1>2, <1>17, <2>4, <3>1, Zenon DEF k
      <3>3. m[k].previous = x
        BY <1>6, <1>10, <3>1, <3>2, Zenon
      <3>4. k \in Heads(m)
        BY <1>12, <3>1, Zenon
      <3> QED  BY <3>3, <3>4, Zenon DEF k
    <2> QED  BY <2>1, <2>2, <2>3, <2>4, Zenon DEF SoundBlock
  <1>18. ASSUME NEW x \in Heads(m) \ {0}
         PROVE  m[x].previous \in Heads(m) /\ m[m[x].previous].next = x
    <2>1. CASE x = split
      BY <1>6, <1>7, <1>12, <2>1, Zenon
    <2>2. CASE x = n
      <3>1. n # NULL
        BY <1>9, <2>2, Zenon DEF Heads
      <3> QED  BY <1>7, <1>8, <1>12, <2>2, <3>1, Zenon
    <2>3. CASE x # split /\ x # n
      <3> DEFINE p == a[x].previous
      <3>1. p \in Heads(a) /\ a[p].next = x /\ m[x].previous = p
        BY <1>6, <1>10, <1>12, <2>3, Zenon DEF Tiled
      <3> HIDE DEF p
      <3>2. p # b
        BY <2>3, <3>1, Zenon DEF n
      <3> QED  BY <1>10, <1>12, <3>1, <3>2, Zenon
    <2> QED  BY <2>1, <2>2, <2>3, Zenon
  <1>19. Tiled(m)
    BY <1>1, <1>12, <1>13, <1>14, <1>15, <1>16, <1>17, <1>18, ZenonT(40) DEF Tiled
  <1>20. \A x \in Heads(a) : m[x].state = a[x].state
    BY <1>6, <1>10, Zenon
  <1>21. \A x \in Heads(a) \ {b} : /\ m[x].payload_size = a[x].payload_size
                                   /\ m[x].next = a[x].next
    BY <1>10, Zenon
  <1> QED  BY <1>1, <1>6, <1>7, <1>12, <1>19, <1>20, <1>21, Zenon DEF m, split, n

-----------------------------------------------------------------------------
(* A valid request is rounded up to the alignment and does not wrap. *)
LEMMA Rounded ==
  ASSUME NEW size \in Nat, RequestValid(size)
  PROVE  /\ align_request(size) \in Nat /\ Aligned(align_request(size))
         /\ size <= align_request(size) /\ KHEAP_ALIGNMENT <= align_request(size)
         /\ 1 <= size
  <1> DEFINE n == KHEAP_ALIGNMENT
             sum == size + n - 1
             q == sum \div n
             r == sum % n
  <1>0. n \in Nat \ {0} /\ SIZE_MAX \in Nat /\ 1 <= size /\ size <= SIZE_MAX - (n - 1)
    BY Constants DEF RequestValid
  <1> HIDE DEF n
  <1>1. sum \in Nat /\ sum <= SIZE_MAX /\ sum \in 0 .. SIZE_MAX
    BY <1>0
  <1> HIDE DEF sum
  <1>2. sum % (SIZE_MAX + 1) = sum
    BY <1>0, <1>1
  <1>3. q \in Nat /\ r \in 0 .. n - 1 /\ sum = n * q + r
    BY <1>0, <1>1, Quotient, Zenon
  <1> DEFINE u == n * q
  <1>4. u \in Nat /\ u % n = 0
    BY <1>0, <1>3, NoRemainder, Zenon
  <1>5. align_request(size) = sum - r
    BY <1>2, Zenon DEF align_request, sum, n
  <1> HIDE DEF q, r, u
  <1>6. sum = u + r
    BY <1>3, Zenon DEF u
  <1>7. align_request(size) = u /\ size <= u
    BY <1>0, <1>1, <1>3, <1>4, <1>5, <1>6 DEF sum
  <1>8. Aligned(u) /\ Aligned(0)
    BY <1>0, <1>4 DEF Aligned, n
  <1>9. 0 < u
    BY <1>0, <1>4, <1>7
  <1>10. n <= u
    BY <1>0, <1>4, <1>8, <1>9, AlignedNumbers DEF n
  <1> QED  BY <1>0, <1>4, <1>7, <1>8, <1>10, Zenon DEF n

(* Arena c is arena a after block b was granted to a caller. *)
Granted(a, c, b, size) ==
  /\ b \in Heads(a) /\ a[b].state = "free"
  /\ Tiled(c) /\ NoFreePair(c)
  /\ Held(c) = Held(a) \cup {b}
  /\ \A x \in Held(a) : c[x].payload_size = a[x].payload_size
  /\ size \in 1 .. c[b].payload_size

LEMMA PlacedWhole ==
  ASSUME NEW a, Tiled(a), NoFreePair(a), NEW b \in Heads(a), a[b].state = "free",
         NEW size \in Nat, 1 <= size, size <= a[b].payload_size
  PROVE  Granted(a, [a EXCEPT ![b].state = "allocated"], b, size)
  <1> DEFINE c == [a EXCEPT ![b].state = "allocated"]
  <1>1. /\ Tiled(c) /\ Heads(c) = Heads(a) /\ c[b].state = "allocated"
        /\ \A x \in Heads(a) \ {b} : c[x] = a[x]
        /\ \A x \in Heads(a) : /\ c[x].payload_size = a[x].payload_size
                               /\ c[x].previous = a[x].previous
                               /\ c[x].next = a[x].next
    BY Marked, Zenon
  <1> HIDE DEF c
  <1>2. NoFreePair(c)
    <2> SUFFICES ASSUME NEW x \in Heads(c), c[x].next # NULL,
                        c[x].state = "free", c[c[x].next].state = "free"
                 PROVE  FALSE
      BY Zenon DEF NoFreePair
    <2>1. x \in Heads(a) /\ x # b /\ c[x].next = a[x].next /\ a[x].next \in Heads(a)
      BY <1>1, BlockFacts, ZenonT(40)
    <2>2. a[x].state = "free" /\ a[a[x].next].state = "free"
      BY <1>1, <2>1, Zenon
    <2> QED  BY <2>1, <2>2, Zenon DEF NoFreePair
  <1>3. Held(c) = Held(a) \cup {b}
    BY <1>1, Zenon DEF Held
  <1>4. \A x \in Held(a) : c[x].payload_size = a[x].payload_size
    BY <1>1, Zenon DEF Held
  <1>5. size \in 1 .. c[b].payload_size
    BY <1>1, BlockFacts
  <1> QED  BY <1>1, <1>2, <1>3, <1>4, <1>5, Zenon DEF Granted, c

LEMMA PlacedSplit ==
  ASSUME NEW a, Tiled(a), NoFreePair(a), NEW b \in Heads(a), a[b].state = "free",
         NEW size \in Nat, 1 <= size, NEW aligned \in Nat, size <= aligned,
         Aligned(aligned), KHEAP_ALIGNMENT <= aligned, aligned <= a[b].payload_size,
         CanSplit(a[b].payload_size - aligned)
  PROVE  Granted(a, [split_block(a, b, aligned) EXCEPT ![b].state = "allocated"], b, size)
  <1> DEFINE s == split_block(a, b, aligned)
             split == block_payload(b) + aligned
             c == [s EXCEPT ![b].state = "allocated"]
  <1>1. /\ Tiled(s) /\ Heads(s) = Heads(a) \cup {split} /\ split \notin Heads(a)
        /\ s[split].state = "free" /\ s[split].next = a[b].next
        /\ s[b].payload_size = aligned /\ s[b].next = split
        /\ \A x \in Heads(a) : s[x].state = a[x].state
        /\ \A x \in Heads(a) \ {b} : /\ s[x].payload_size = a[x].payload_size
                                     /\ s[x].next = a[x].next
    <2>1. aligned >= KHEAP_ALIGNMENT
      BY Constants, Zenon
    <2> QED  BY <2>1, SplitTiled
  <1> HIDE DEF s, split
  <1>2. /\ Tiled(c) /\ Heads(c) = Heads(s) /\ c[b].state = "allocated"
        /\ \A x \in Heads(s) \ {b} : c[x] = s[x]
        /\ \A x \in Heads(s) : /\ c[x].payload_size = s[x].payload_size
                               /\ c[x].previous = s[x].previous
                               /\ c[x].next = s[x].next
    BY <1>1, Marked, Zenon
  <1> HIDE DEF c
  <1>3. ASSUME NEW x \in Heads(a) PROVE c[x].state = IF x = b THEN "allocated" ELSE a[x].state
    BY <1>1, <1>2, Zenon
  <1>4. NoFreePair(c)
    <2> SUFFICES ASSUME NEW x \in Heads(c), c[x].next # NULL,
                        c[x].state = "free", c[c[x].next].state = "free"
                 PROVE  FALSE
      BY Zenon DEF NoFreePair
    <2>1. x # b /\ x \in Heads(s)
      BY <1>2, Zenon
    <2>2. CASE x = split
      <3>1. c[x].next = a[b].next /\ a[b].next # NULL
        BY <1>1, <1>2, <2>1, <2>2, Zenon
      <3>2. a[b].next \in Heads(a)
        BY <3>1, BlockFacts, Zenon
      <3>3. a[a[b].next].state = "free"
        BY <1>3, <3>1, <3>2, Zenon
      <3> QED  BY <3>1, <3>3, Zenon DEF NoFreePair
    <2>3. CASE x # split
      <3>1. x \in Heads(a) /\ c[x].next = a[x].next /\ a[x].next # NULL
        BY <1>1, <1>2, <2>1, <2>3, Zenon
      <3>2. a[x].next \in Heads(a)
        BY <3>1, BlockFacts, Zenon
      <3>3. a[x].state = "free" /\ a[a[x].next].state = "free"
        BY <1>3, <2>1, <3>1, <3>2, Zenon
      <3> QED  BY <3>1, <3>3, Zenon DEF NoFreePair
    <2> QED  BY <2>2, <2>3, Zenon
  <1>5. c[split].state = "free"
    BY <1>1, <1>2, Zenon
  <1>6. Held(c) = Held(a) \cup {b}
    BY <1>1, <1>2, <1>3, <1>5, Zenon DEF Held
  <1>7. \A x \in Held(a) : c[x].payload_size = a[x].payload_size
    BY <1>1, <1>2, Zenon DEF Held
  <1>8. size \in 1 .. c[b].payload_size
    BY <1>1, <1>2
  <1> QED  BY <1>2, <1>4, <1>6, <1>7, <1>8, Zenon DEF Granted, c, s

(* Every request is refused with the arena untouched, or granted. *)
LEMMA Allocated ==
  ASSUME NEW a, Tiled(a), NoFreePair(a), NEW size \in Nat
  PROVE  LET r == allocate(a, size)
         IN  \/ r.ptr = NULL /\ r.arena = a
             \/ /\ r.ptr # NULL
                /\ \E b \in Heads(a) : /\ r.ptr = block_payload(b)
                                       /\ Granted(a, r.arena, b, size)
  <1> DEFINE r == allocate(a, size)
             aligned == align_request(size)
             fits == {b \in Blocks(a) : a[b].state = "free" /\ a[b].payload_size >= aligned}
             b == CHOOSE x \in fits : \A y \in fits : x <= y
             c == [split_block(a, b, aligned) EXCEPT ![b].state = "allocated"]
  <1>1. CASE ~ RequestValid(size) \/ ~ inspect_heap(a) \/ fits = {}
    <2>1. r = [arena |-> a, ptr |-> NULL]
      BY <1>1, Zenon DEF allocate
    <2> QED  BY <2>1
  <1>2. CASE RequestValid(size) /\ inspect_heap(a) /\ fits # {}
    <2>1. r = [arena |-> c, ptr |-> block_payload(b)]
      BY <1>2, Zenon DEF allocate
    <2>2. fits \in SUBSET Nat
      BY BlocksAre, BlockFacts
    <2>3. b \in fits
      <3>1. \E x \in fits : \A y \in fits : x <= y
        <4> HIDE DEF fits
        <4> QED  BY <1>2, <2>2, LeastNumber, Zenon
      <3> QED  BY <3>1, Zenon
    <2>4. b \in Heads(a) /\ a[b].state = "free" /\ a[b].payload_size >= aligned
      BY <2>3, BlocksAre, Zenon
    <2> HIDE DEF b, fits, r
    <2>5. /\ aligned \in Nat /\ Aligned(aligned) /\ 1 <= size
          /\ size <= aligned /\ KHEAP_ALIGNMENT <= aligned
      BY <1>2, Rounded, Zenon
    <2> HIDE DEF aligned
    <2>6. a[b].payload_size \in Nat /\ b \in Nat
      BY <2>4, BlockFacts, Zenon
    <2>7. aligned <= a[b].payload_size /\ size <= a[b].payload_size
      BY <2>4, <2>5, <2>6
    <2>8. Granted(a, c, b, size)
      <3>1. CASE CanSplit(a[b].payload_size - aligned)
        BY <2>4, <2>5, <2>7, <3>1, PlacedSplit, Zenon
      <3>2. CASE ~ CanSplit(a[b].payload_size - aligned)
        <4>1. split_block(a, b, aligned) = a
          BY <3>2, Zenon DEF split_block
        <4>2. Granted(a, [a EXCEPT ![b].state = "allocated"], b, size)
          BY <2>4, <2>5, <2>7, PlacedWhole, Zenon
        <4> QED  BY <4>1, <4>2, Zenon
      <3> QED  BY <3>1, <3>2, Zenon
    <2>9. block_payload(b) # NULL
      BY <2>6, Constants DEF block_payload, NULL
    <2> QED  BY <2>1, <2>4, <2>8, <2>9 DEF r
  <1> QED  BY <1>1, <1>2, Zenon

-----------------------------------------------------------------------------
(* Arena c is arena a after block b was released, and half way there: only *)
(* the free block l may still have a free neighbour, on its right.         *)
Released(a, c, b) ==
  /\ Tiled(c) /\ NoFreePair(c)
  /\ Held(c) = Held(a) \ {b}
  /\ \A x \in Held(c) : c[x].payload_size = a[x].payload_size

HalfReleased(a, c, b, l) ==
  /\ Tiled(c) /\ l \in Heads(c) /\ c[l].state = "free"
  /\ Held(c) = Held(a) \ {b}
  /\ \A x \in Held(c) : c[x].payload_size = a[x].payload_size
  /\ \A x \in Heads(c) \ {l} :
       c[x].next # NULL => ~ (c[x].state = "free" /\ c[c[x].next].state = "free")

LEMMA FreedAlone ==
  ASSUME NEW a, Tiled(a), NoFreePair(a), NEW b \in Heads(a),
         a[b].state = "allocated",
         a[b].previous = NULL \/ a[a[b].previous].state # "free"
  PROVE  HalfReleased(a, [a EXCEPT ![b].state = "free"], b, b)
  <1> DEFINE c == [a EXCEPT ![b].state = "free"]
  <1>0. b \in Heads(a) /\ b \in Held(a)
    BY Zenon DEF Held
  <1>1. /\ Tiled(c) /\ Heads(c) = Heads(a) /\ c[b].state = "free"
        /\ \A x \in Heads(a) \ {b} : c[x] = a[x]
        /\ \A x \in Heads(a) : /\ c[x].payload_size = a[x].payload_size
                               /\ c[x].previous = a[x].previous
                               /\ c[x].next = a[x].next
    BY Marked, Zenon
  <1> HIDE DEF c
  <1>2. Held(c) = Held(a) \ {b}
    BY <1>0, <1>1, Zenon DEF Held
  <1>3. \A x \in Held(c) : c[x].payload_size = a[x].payload_size
    BY <1>1, Zenon DEF Held
  <1>4. ASSUME NEW x \in Heads(c) \ {b}, c[x].next # NULL,
               c[x].state = "free", c[c[x].next].state = "free"
        PROVE  FALSE
    <2>1. /\ x \in Heads(a) /\ a[x].next # NULL /\ a[x].next = c[x].next
          /\ a[x].state = "free"
      BY <1>1, <1>4, Zenon
    <2>2. a[x].next \in Heads(a) /\ a[a[x].next].previous = x /\ x # NULL
      BY <2>1, BlockFacts DEF NULL
    <2>3. a[x].next # b
      BY <2>1, <2>2, Zenon
    <2>4. a[a[x].next].state = "free"
      BY <1>1, <1>4, <2>1, <2>2, <2>3, ZenonT(40)
    <2> QED  BY <2>1, <2>4, Zenon DEF NoFreePair
  <1> QED  BY <1>0, <1>1, <1>2, <1>3, <1>4, Zenon DEF HalfReleased, c

LEMMA FreedLeft ==
  ASSUME NEW a, Tiled(a), NoFreePair(a), NEW b \in Heads(a),
         a[b].state = "allocated",
         a[b].previous # NULL, a[a[b].previous].state = "free"
  PROVE  LET l == a[b].previous
         IN  HalfReleased(a, merge_with_next([a EXCEPT ![b].state = "free"], l), b, l)
  <1> DEFINE f == [a EXCEPT ![b].state = "free"]
             l == a[b].previous
             c == merge_with_next(f, l)
  <1>0. b \in Heads(a) /\ b \in Held(a)
    BY Zenon DEF Held
  <1>1. /\ Tiled(f) /\ Heads(f) = Heads(a) /\ f[b].state = "free"
        /\ \A x \in Heads(a) \ {b} : f[x] = a[x]
        /\ \A x \in Heads(a) : /\ f[x].payload_size = a[x].payload_size
                               /\ f[x].previous = a[x].previous
                               /\ f[x].next = a[x].next
    BY Marked, Zenon
  <1> HIDE DEF f
  <1>2. b # 0
    BY Zenon DEF Tiled
  <1>3. l \in Heads(a) /\ a[l].next = b /\ a[l].state = "free" /\ l # b /\ b # NULL
    <2>1. l \in Heads(a) /\ a[l].next = b /\ a[l].state = "free"
      BY <1>0, <1>2, Zenon DEF Tiled
    <2>2. b # NULL
      BY <1>0, BlockFacts DEF NULL
    <2> HIDE DEF l
    <2>3. l # b
      BY <1>0, <2>1, Zenon DEF Held
    <2> QED  BY <2>1, <2>2, <2>3, Zenon
  <1> HIDE DEF l
  <1>4. f[l].next = b /\ f[l].next # NULL
    BY <1>1, <1>3, Zenon
  <1>5. /\ Tiled(c) /\ Heads(c) = Heads(f) \ {b}
        /\ \A x \in Heads(c) : c[x].state = f[x].state
        /\ \A x \in Heads(c) \ {l} : /\ c[x].payload_size = f[x].payload_size
                                     /\ c[x].next = f[x].next
    BY <1>1, <1>3, <1>4, MergeTiled
  <1> HIDE DEF c
  <1>6. l \in Heads(c) /\ c[l].state = "free"
    BY <1>1, <1>3, <1>5, Zenon
  <1>7. Held(c) = Held(a) \ {b}
    BY <1>1, <1>5, ZenonT(40) DEF Held
  <1>8. \A x \in Held(c) : c[x].payload_size = a[x].payload_size
    BY <1>1, <1>5, <1>6, Zenon DEF Held
  <1>9. ASSUME NEW x \in Heads(c) \ {l}, c[x].next # NULL,
               c[x].state = "free", c[c[x].next].state = "free"
        PROVE  FALSE
    <2>1. /\ x \in Heads(a) /\ x # b /\ a[x].next # NULL /\ a[x].next = c[x].next
          /\ a[x].state = "free"
      BY <1>1, <1>5, <1>9, Zenon
    <2>2. a[x].next \in Heads(a) /\ a[a[x].next].previous = x
      BY <2>1, BlockFacts, Zenon
    <2>3. a[x].next # b
      BY <1>9, <2>2, Zenon DEF l
    <2>4. a[a[x].next].state = "free"
      BY <1>1, <1>5, <1>9, <2>1, <2>2, <2>3
    <2> QED  BY <2>1, <2>4, Zenon DEF NoFreePair
  <1> QED  BY <1>5, <1>6, <1>7, <1>8, <1>9, Zenon DEF HalfReleased, c, f, l

LEMMA MergedRight ==
  ASSUME NEW a, NEW c, NEW b, NEW l, HalfReleased(a, c, b, l)
  PROVE  Released(a, merge_right(c, l), b)
  <1> DEFINE m == merge_with_next(c, l)
             right == c[l].next
  <1>0. /\ Tiled(c) /\ l \in Heads(c) /\ c[l].state = "free"
        /\ Held(c) = Held(a) \ {b}
        /\ \A x \in Held(c) : c[x].payload_size = a[x].payload_size
        /\ \A x \in Heads(c) \ {l} :
             c[x].next # NULL => ~ (c[x].state = "free" /\ c[c[x].next].state = "free")
    BY Zenon DEF HalfReleased
  <1>1. CASE ~ (right # NULL /\ c[right].state = "free")
    <2>1. merge_right(c, l) = c
      BY <1>1, Zenon DEF merge_right
    <2>2. NoFreePair(c)
      BY <1>0, <1>1, Zenon DEF NoFreePair
    <2> QED  BY <1>0, <2>1, <2>2, Zenon DEF Released
  <1>2. CASE right # NULL /\ c[right].state = "free"
    <2>1. merge_right(c, l) = m
      BY <1>2, Zenon DEF merge_right
    <2>2. /\ Tiled(m) /\ Heads(m) = Heads(c) \ {right}
          /\ \A x \in Heads(m) : m[x].state = c[x].state
          /\ \A x \in Heads(m) \ {l} : /\ m[x].payload_size = c[x].payload_size
                                       /\ m[x].next = c[x].next
          /\ m[l].next = c[right].next
      BY <1>0, <1>2, MergeTiled
    <2>3. right \in Heads(c) /\ l # right
      BY <1>0, <1>2, BlockFacts
    <2> HIDE DEF m, right
    <2>4. Held(m) = Held(c)
      BY <1>2, <2>2, Zenon DEF Held
    <2>5. \A x \in Held(m) : m[x].payload_size = a[x].payload_size
      BY <1>0, <2>2, <2>4, Zenon DEF Held
    <2>6. NoFreePair(m)
      <3> SUFFICES ASSUME NEW x \in Heads(m), m[x].next # NULL,
                          m[x].state = "free", m[m[x].next].state = "free"
                   PROVE  FALSE
        BY Zenon DEF NoFreePair
      <3>1. m[x].next \in Heads(m)
        BY <2>2, BlockFacts, Zenon
      <3>2. CASE x = l
        BY <1>0, <1>2, <2>2, <2>3, <3>1, <3>2, ZenonT(40)
      <3>3. CASE x # l
        BY <1>0, <2>2, <3>1, <3>3, Zenon
      <3> QED  BY <3>2, <3>3, Zenon
    <2> QED  BY <1>0, <2>1, <2>2, <2>4, <2>5, <2>6, Zenon DEF Released
  <1> QED  BY <1>1, <1>2, Zenon

-----------------------------------------------------------------------------
LEMMA Fresh ==
  Tiled(FreshArena) /\ NoFreePair(FreshArena) /\ LiveMatches(FreshArena, << >>)
  <1> DEFINE a == FreshArena
             first == Block("free", TotalCapacity, NULL, NULL)
  <1>1. 0 \in Offsets
    BY Constants DEF Offsets
  <1>2. TotalCapacity \in Nat /\ TotalCapacity >= KHEAP_ALIGNMENT /\ Aligned(TotalCapacity)
    <2>1. HeaderSize <= KHEAP_ARENA_SIZE
      BY Constants
    <2> QED  BY <2>1, Constants, AlignedNumbers DEF TotalCapacity
  <1>3. first \in HeaderType /\ Data \in HeaderType
    BY <1>2, Zenon DEF Block, Data, HeaderType
  <1>4. /\ a \in [Offsets -> HeaderType] /\ a[0] = first
        /\ \A o \in Offsets \ {0} : a[o] = Data
    <2> HIDE DEF first
    <2> QED  BY <1>1, <1>3, Zenon DEF FreshArena, first
  <1> HIDE DEF a
  <1>5. /\ a[0].state = "free" /\ a[0].payload_size = TotalCapacity
        /\ a[0].previous = NULL /\ a[0].next = NULL
    BY <1>4 DEF Block
  <1>6. Heads(a) = {0}
    BY <1>1, <1>4, <1>5 DEF Heads, Data
  <1>7. End(a, 0) = KHEAP_ARENA_SIZE
    BY <1>5, Constants DEF End, block_payload, TotalCapacity
  <1>8. SoundBlock(a, 0)
    BY <1>2, <1>5, <1>7, Constants DEF SoundBlock
  <1>9. Tiled(a)
    BY <1>4, <1>5, <1>6, <1>8, Zenon DEF Tiled
  <1>10. NoFreePair(a)
    BY <1>5, <1>6, Zenon DEF NoFreePair
  <1>11. Held(a) = {}
    BY <1>5, <1>6, Zenon DEF Held
  <1>12. LiveMatches(a, << >>)
    BY <1>11 DEF LiveMatches
  <1> QED  BY <1>9, <1>10, <1>12, Zenon DEF a

LEMMA Remembered ==
  ASSUME NEW a, NEW c, NEW b, NEW size \in Nat, NEW l,
         Tiled(a), LiveMatches(a, l), Granted(a, c, b, size)
  PROVE  LiveMatches(c, [p \in DOMAIN l \cup {block_payload(b)} |->
                           IF p = block_payload(b) THEN size ELSE l[p]])
  <1> DEFINE k == [p \in DOMAIN l \cup {block_payload(b)} |->
                     IF p = block_payload(b) THEN size ELSE l[p]]
  <1>1. ASSUME NEW x \in Held(a) PROVE x # b /\ block_payload(x) # block_payload(b)
    <2>1. x \in Heads(a) /\ b \in Heads(a) /\ x # b
      BY Zenon DEF Granted, Held
    <2>2. x \in Nat /\ b \in Nat
      BY <2>1, BlockFacts, Zenon
    <2> QED  BY <2>1, <2>2, Constants DEF block_payload
  <1>2. DOMAIN k = {block_payload(x) : x \in Held(c)}
    BY Zenon DEF Granted, LiveMatches
  <1>3. ASSUME NEW x \in Held(c) PROVE k[block_payload(x)] \in 1 .. c[x].payload_size
    <2>1. CASE x = b
      BY <2>1, Zenon DEF Granted
    <2>2. CASE x # b
      <3>1. x \in Held(a) /\ c[x].payload_size = a[x].payload_size
        BY <2>2, Zenon DEF Granted
      <3>2. block_payload(x) \in DOMAIN l
        BY <3>1, Zenon DEF LiveMatches
      <3>3. k[block_payload(x)] = l[block_payload(x)]
        BY <1>1, <3>1, <3>2, Zenon
      <3> QED  BY <3>1, <3>3, Zenon DEF LiveMatches
    <2> QED  BY <2>1, <2>2, Zenon
  <1> QED  BY <1>2, <1>3, Zenon DEF LiveMatches

LEMMA Forgotten ==
  ASSUME NEW a, NEW c, NEW b \in Held(a), NEW l,
         Tiled(a), LiveMatches(a, l), Released(a, c, b)
  PROVE  LiveMatches(c, [p \in DOMAIN l \ {block_payload(b)} |-> l[p]])
  <1> DEFINE k == [p \in DOMAIN l \ {block_payload(b)} |-> l[p]]
  <1>1. ASSUME NEW x \in Held(a), x # b PROVE block_payload(x) # block_payload(b)
    <2>2. x \in Nat /\ b \in Nat
      BY BlockFacts, Zenon DEF Held
    <2> QED  BY <1>1, <2>2, Constants DEF block_payload
  <1>2. Held(c) = Held(a) \ {b}
    BY Zenon DEF Released
  <1>3. DOMAIN k = {block_payload(x) : x \in Held(c)}
    <2>1. DOMAIN l = {block_payload(x) : x \in Held(a)}
      BY Zenon DEF LiveMatches
    <2> QED  BY <1>1, <1>2, <2>1, Zenon
  <1>4. ASSUME NEW x \in Held(c) PROVE k[block_payload(x)] \in 1 .. c[x].payload_size
    <2>1. x \in Held(a) /\ x # b /\ c[x].payload_size = a[x].payload_size
      BY <1>2, Zenon DEF Released
    <2>2. k[block_payload(x)] = l[block_payload(x)]
      BY <1>3, Zenon
    <2> QED  BY <2>1, <2>2, Zenon DEF LiveMatches
  <1> QED  BY <1>3, <1>4, Zenon DEF LiveMatches

(* The check in kcalloc is exact: a product that passes it does not wrap. *)
LEMMA NoWrap ==
  ASSUME NEW count \in Nat, NEW size \in Nat, count # 0, ~ ProductOverflows(count, size)
  PROVE  count * size \in Nat /\ (count * size) % (SIZE_MAX + 1) = count * size
  <1> DEFINE q == SIZE_MAX \div count
             r == SIZE_MAX % count
             t == count * size
  <1>0. SIZE_MAX \in Nat /\ count \in Nat \ {0}
    BY Constants, Zenon
  <1>1. SIZE_MAX \in Nat /\ q \in Nat /\ r \in Nat /\ SIZE_MAX = count * q + r
    <2>1. q \in Nat /\ r \in 0 .. count - 1 /\ SIZE_MAX = count * q + r
      BY <1>0, Quotient, Zenon
    <2> HIDE DEF q, r
    <2> QED  BY <1>0, <2>1
  <1>2. size <= q
    <2> HIDE DEF q
    <2>1. ~ (size > q)
      BY Zenon DEF ProductOverflows, q
    <2> QED  BY <1>1, <2>1
  <1> HIDE DEF q, r
  <1>3. count * (q - size) >= 0
    BY <1>1, <1>2
  <1>4. count * size \in Nat /\ count * size + count * (q - size) = count * q
    BY <1>1
  <1>5. t \in Nat /\ t <= SIZE_MAX
    BY <1>1, <1>3, <1>4
  <1> HIDE DEF t
  <1>6. t % (SIZE_MAX + 1) = t
    BY <1>1, <1>5
  <1> QED  BY <1>5, <1>6, Zenon DEF t

-----------------------------------------------------------------------------
LEMMA StepMalloc ==
  ASSUME IInv, NEW size \in Nat, kmalloc(size)
  PROVE  IInv'
  <1> DEFINE r == allocate(arena, size)
  <1>0. Tiled(arena) /\ NoFreePair(arena) /\ LiveMatches(arena, live)
    BY Zenon DEF IInv
  <1>1. arena' = r.arena /\ Remember(r.ptr, size)
    BY Zenon DEF kmalloc
  <1>2. \/ r.ptr = NULL /\ r.arena = arena
        \/ /\ r.ptr # NULL
           /\ \E b \in Heads(arena) : /\ r.ptr = block_payload(b)
                                      /\ Granted(arena, r.arena, b, size)
    BY <1>0, Allocated, Zenon
  <1> HIDE DEF r
  <1>3. CASE r.ptr = NULL /\ r.arena = arena
    BY <1>0, <1>1, <1>3, Zenon DEF Remember, IInv
  <1>4. ASSUME r.ptr # NULL, NEW b \in Heads(arena), r.ptr = block_payload(b),
               Granted(arena, r.arena, b, size)
        PROVE  IInv'
    <2>1. live' = [p \in DOMAIN live \cup {block_payload(b)} |->
                     IF p = block_payload(b) THEN size ELSE live[p]]
      BY <1>1, <1>4, Zenon DEF Remember
    <2>2. Tiled(arena') /\ NoFreePair(arena')
      BY <1>1, <1>4, Zenon DEF Granted
    <2>3. Granted(arena, arena', b, size)
      BY <1>1, <1>4, Zenon
    <2>4. LiveMatches(arena', live')
      BY <1>0, <2>1, <2>3, Remembered
    <2> QED  BY <2>2, <2>4, Zenon DEF IInv
  <1> QED  BY <1>2, <1>3, <1>4, Zenon

LEMMA StepCalloc ==
  ASSUME IInv, NEW count \in Nat, NEW size \in Nat, kcalloc(count, size)
  PROVE  IInv'
  <1> DEFINE total == (count * size) % (SIZE_MAX + 1)
             refused == count = 0 \/ size = 0 \/ ProductOverflows(count, size)
             r == IF refused THEN [arena |-> arena, ptr |-> NULL]
                  ELSE allocate(arena, total)
  <1>0. Tiled(arena) /\ NoFreePair(arena) /\ LiveMatches(arena, live)
    BY Zenon DEF IInv
  <1>1. /\ arena' = IF r.ptr = NULL THEN arena
                    ELSE Overwrite(r.arena, r.ptr .. r.ptr + total - 1)
        /\ Remember(r.ptr, count * size)
    BY Zenon DEF kcalloc
  <1>2. CASE r.ptr = NULL
    BY <1>0, <1>1, <1>2, Zenon DEF Remember, IInv
  <1>3. CASE r.ptr # NULL
    <2>1. ~ refused
      BY <1>3, Zenon
    <2>2. total = count * size /\ total \in Nat
      BY <2>1, NoWrap, Zenon
    <2>3. r = allocate(arena, total)
      BY <2>1, Zenon
    <2> HIDE DEF total, r, refused
    <2>4. PICK b \in Heads(arena) : /\ r.ptr = block_payload(b)
                                    /\ Granted(arena, r.arena, b, total)
      BY <1>0, <1>3, <2>2, <2>3, Allocated, Zenon
    <2>5. b \in Nat /\ b \in Held(r.arena) /\ b \in Heads(r.arena) /\ Tiled(r.arena)
          /\ NoFreePair(r.arena)
      BY <1>0, <2>4, BlockFacts, Zenon DEF Granted, Held
    <2>6. /\ End(r.arena, b) = b + HeaderSize + r.arena[b].payload_size
          /\ r.arena[b].payload_size \in Nat
      BY <2>5, BlockFacts, Zenon
    <2>7. total <= r.arena[b].payload_size
      BY <2>2, <2>4, <2>6 DEF Granted
    <2> DEFINE bytes == r.ptr .. r.ptr + total - 1
    <2>8. r.ptr = b + HeaderSize /\ r.ptr \in Nat
      BY <2>4, <2>5, Constants DEF block_payload
    <2>9. bytes \in SUBSET Nat
          /\ \A z \in bytes : block_payload(b) <= z /\ z < End(r.arena, b)
      BY <2>2, <2>4, <2>5, <2>6, <2>7, <2>8, Constants
    <2>10. Overwrite(r.arena, bytes) = r.arena
      <3> HIDE DEF bytes
      <3> QED  BY <2>5, <2>9, Untouched, Zenon
    <2>11. arena' = r.arena
      BY <1>1, <1>3, <2>10, Zenon
    <2>12. live' = [p \in DOMAIN live \cup {block_payload(b)} |->
                      IF p = block_payload(b) THEN total ELSE live[p]]
      BY <1>1, <1>3, <2>2, <2>4, Zenon DEF Remember
    <2>13. Granted(arena, arena', b, total)
      BY <2>4, <2>11, Zenon
    <2>14. LiveMatches(arena', live')
      BY <1>0, <2>2, <2>12, <2>13, Remembered
    <2> QED  BY <2>5, <2>11, <2>14, Zenon DEF IInv
  <1> QED  BY <1>2, <1>3, Zenon

LEMMA StepFree ==
  ASSUME IInv, NEW address \in Pointers, kfree(address)
  PROVE  IInv'
  <1> DEFINE b == address - HeaderSize
             freed == [arena EXCEPT ![b].state = "free"]
             prev == arena[b].previous
             left == IF prev # NULL /\ freed[prev].state = "free" THEN prev ELSE b
             merged == IF left = b THEN freed ELSE merge_with_next(freed, prev)
  <1>0. Tiled(arena) /\ NoFreePair(arena) /\ LiveMatches(arena, live)
    BY Zenon DEF IInv
  <1>1. CASE UNCHANGED <<arena, live>>
    BY <1>1, Zenon DEF IInv
  <1>2. CASE /\ b \in Blocks(arena) /\ arena[b].state = "allocated"
             /\ arena' = merge_right(merged, left)
             /\ live' = [p \in DOMAIN live \ {address} |-> live[p]]
    <2>0. arena' = merge_right(merged, left)
      BY <1>2, Zenon
    <2>1. b \in Heads(arena) /\ arena[b].state = "allocated" /\ b \in Held(arena)
      BY <1>0, <1>2, BlocksAre, Zenon DEF Held
    <2>2. address = block_payload(b)
      BY Constants DEF block_payload, Pointers, NULL
    <2> HIDE DEF b
    <2>3. prev # NULL => prev \in Heads(arena) /\ prev # b
      <3> SUFFICES ASSUME prev # NULL PROVE prev \in Heads(arena) /\ prev # b
        BY Zenon
      <3>1. b # 0
        BY <1>0, Zenon DEF Tiled
      <3>2. prev \in Heads(arena) /\ arena[prev].next = b
        BY <1>0, <2>1, <3>1, Zenon DEF Tiled
      <3>3. b \in Nat /\ b # NULL
        BY <1>0, <2>1, BlockFacts DEF NULL
      <3> HIDE DEF prev
      <3>4. prev < b /\ prev \in Nat
        BY <1>0, <3>2, <3>3, BlockFacts, Zenon
      <3> QED  BY <3>2, <3>3, <3>4
    <2>4. prev # NULL => freed[prev].state = arena[prev].state
      <3>1. arena \in [Offsets -> HeaderType]
        BY <1>0, Zenon DEF Tiled
      <3> HIDE DEF prev
      <3> QED  BY <2>3, <3>1, Zenon DEF Heads
    <2>5. HalfReleased(arena, merged, b, left)
      <3>1. CASE prev # NULL /\ freed[prev].state = "free"
        <4>1. left = prev /\ merged = merge_with_next(freed, prev)
          BY <2>3, <3>1, Zenon
        <4>2. arena[prev].state = "free"
          BY <2>4, <3>1, Zenon
        <4>3. HalfReleased(arena, merge_with_next(freed, prev), b, prev)
          BY <1>0, <2>1, <3>1, <4>2, FreedLeft, Zenon
        <4> QED  BY <4>1, <4>3, Zenon
      <3>2. CASE ~ (prev # NULL /\ freed[prev].state = "free")
        <4>1. left = b /\ merged = freed
          BY <3>2, Zenon
        <4>2. prev = NULL \/ arena[prev].state # "free"
          BY <2>4, <3>2, Zenon
        <4>3. HalfReleased(arena, freed, b, b)
          BY <1>0, <2>1, <4>2, FreedAlone, Zenon
        <4> QED  BY <4>1, <4>3, Zenon
      <3> QED  BY <3>1, <3>2, Zenon
    <2> HIDE DEF merged, left
    <2>6. Released(arena, arena', b)
      BY <2>0, <2>5, MergedRight, Zenon
    <2>7. live' = [p \in DOMAIN live \ {block_payload(b)} |-> live[p]]
      BY <1>2, <2>2, Zenon
    <2>8. LiveMatches(arena', live')
      BY <1>0, <2>1, <2>6, <2>7, Forgotten
    <2> QED  BY <2>6, <2>8, Zenon DEF IInv, Released
  <1> QED  BY <1>1, <1>2, Zenon DEF kfree

LEMMA StepWrites ==
  ASSUME IInv, NEW p \in Pointers, caller_writes(p)
  PROVE  IInv'
  <1>0. Tiled(arena) /\ LiveMatches(arena, live)
    BY Zenon DEF IInv
  <1>1. /\ p \in DOMAIN live /\ live' = live
        /\ arena' = Overwrite(arena, p .. p + live[p] - 1)
    BY Zenon DEF caller_writes
  <1>2. PICK b \in Held(arena) : p = block_payload(b)
    BY <1>0, <1>1, Zenon DEF LiveMatches
  <1>3. b \in Heads(arena)
    BY Zenon DEF Held
  <1>4. /\ b \in Nat /\ arena[b].payload_size \in Nat
        /\ End(arena, b) = b + HeaderSize + arena[b].payload_size
    BY <1>0, <1>3, BlockFacts, Zenon
  <1>5. live[p] \in 1 .. arena[b].payload_size
    BY <1>0, <1>2, Zenon DEF LiveMatches
  <1> DEFINE bytes == p .. p + live[p] - 1
  <1>6. p = b + HeaderSize
    BY <1>2, Zenon DEF block_payload
  <1>7. bytes \in SUBSET Nat /\ \A z \in bytes : block_payload(b) <= z /\ z < End(arena, b)
    BY <1>2, <1>4, <1>5, <1>6, Constants
  <1>8. Overwrite(arena, bytes) = arena
    <2> HIDE DEF bytes
    <2> QED  BY <1>0, <1>3, <1>7, Untouched, Zenon
  <1> QED  BY <1>1, <1>8, Zenon DEF IInv

LEMMA Invariance ==
  Spec => []IInv
  <1>1. Init => IInv
    BY Fresh, Zenon DEF Init, IInv
  <1>2. IInv /\ [Next]_vars => IInv'
    <2> SUFFICES ASSUME IInv, [Next]_vars PROVE IInv'
      BY Zenon
    <2>0. Sizes \subseteq Nat
      BY HeapAssumption, Constants
    <2>1. CASE kheap_init
      BY <2>1, Fresh, Zenon DEF kheap_init, IInv
    <2>2. ASSUME NEW size \in Sizes, kmalloc(size) PROVE IInv'
      BY <2>0, <2>2, StepMalloc, Zenon
    <2>3. ASSUME NEW count \in Sizes, NEW size \in Sizes, kcalloc(count, size) PROVE IInv'
      BY <2>0, <2>3, StepCalloc, Zenon
    <2>4. ASSUME NEW address \in Pointers, kfree(address) PROVE IInv'
      BY <2>4, StepFree, Zenon
    <2>5. ASSUME NEW p \in Pointers, caller_writes(p) PROVE IInv'
      BY <2>5, StepWrites, Zenon
    <2>6. CASE UNCHANGED vars
      BY <2>6, Zenon DEF vars, IInv
    <2> QED  BY <2>1, <2>2, <2>3, <2>4, <2>5, <2>6, Zenon DEF Next
  <1> QED  BY <1>1, <1>2, PTL DEF Spec

(* kheap_validate never fails, for every arena size, header size and       *)
(* alignment: the list tiles the arena with sound headers and no two free  *)
(* neighbours, whatever was allocated, freed and written.                  *)
THEOREM HeapStaysValid ==
  Spec => []HeapValid
  <1>1. IInv => HeapValid
    BY Inspected, Zenon DEF IInv, HeapValid
  <1> QED  BY <1>1, Invariance, PTL

(* The allocated blocks are exactly what callers hold, so that a double    *)
(* free or a foreign pointer is always refused by kfree.                   *)
THEOREM CallersMatchBlocks ==
  Spec => []BlocksMatchCallers
  <1>1. IInv => BlocksMatchCallers
    BY BlocksAre, Zenon DEF IInv, LiveMatches, Held, BlocksMatchCallers
  <1> QED  BY <1>1, Invariance, PTL

(* What a caller was given lies in its own block: aligned, inside the      *)
(* arena, as long as asked for even when count * size would overflow, and  *)
(* apart from every header and from every other caller's bytes.            *)
THEOREM CallersDisjoint ==
  Spec => []AllocationsDisjoint
  <1>1. ASSUME IInv PROVE AllocationsDisjoint
    <2> DEFINE bytes(p) == p .. p + live[p] - 1
    <2>0. Tiled(arena) /\ LiveMatches(arena, live)
      BY <1>1, Zenon DEF IInv
    <2>1. ASSUME NEW p \in DOMAIN live
          PROVE  \E b \in Held(arena) :
                   /\ p = b + HeaderSize /\ b \in Heads(arena) /\ b \in Nat /\ Aligned(b)
                   /\ live[p] \in Nat /\ 1 <= live[p]
                   /\ p + live[p] <= End(arena, b)
      <3>1. PICK b \in Held(arena) : p = block_payload(b)
        BY <2>0, Zenon DEF LiveMatches
      <3>2. b \in Heads(arena)
        BY Zenon DEF Held
      <3>3. /\ b \in Nat /\ Aligned(b) /\ arena[b].payload_size \in Nat
            /\ End(arena, b) = b + HeaderSize + arena[b].payload_size
        BY <2>0, <3>2, BlockFacts, Zenon
      <3>4. live[p] \in 1 .. arena[b].payload_size
        BY <2>0, <3>1, Zenon DEF LiveMatches
      <3> QED  BY <3>1, <3>2, <3>3, <3>4, Constants DEF block_payload
    <2>2. ASSUME NEW p \in DOMAIN live
          PROVE  /\ live[p] >= 1 /\ p % KHEAP_ALIGNMENT = 0
                 /\ bytes(p) \subseteq 0 .. KHEAP_ARENA_SIZE - 1
      <3>1. PICK b \in Held(arena) :
              /\ p = b + HeaderSize /\ b \in Heads(arena) /\ b \in Nat /\ Aligned(b)
              /\ live[p] \in Nat /\ 1 <= live[p] /\ p + live[p] <= End(arena, b)
        BY <2>1, Zenon
      <3>2. Aligned(p)
        BY <3>1, AlignedNumbers, Constants, Zenon
      <3>3. End(arena, b) <= KHEAP_ARENA_SIZE /\ End(arena, b) \in Nat
        BY <2>0, <3>1, BlockFacts, Zenon
      <3> QED  BY <3>1, <3>2, <3>3, Constants DEF Aligned
    <2>3. ASSUME NEW p \in DOMAIN live, NEW q \in DOMAIN live \ {p}
          PROVE  bytes(p) \cap bytes(q) = {}
      <3>1. PICK b \in Held(arena) :
              /\ p = b + HeaderSize /\ b \in Heads(arena) /\ b \in Nat
              /\ live[p] \in Nat /\ p + live[p] <= End(arena, b)
        BY <2>1, Zenon
      <3>2. PICK c \in Held(arena) :
              /\ q = c + HeaderSize /\ c \in Heads(arena) /\ c \in Nat
              /\ live[q] \in Nat /\ q + live[q] <= End(arena, c)
        BY <2>1, Zenon
      <3>3. b # c
        BY <3>1, <3>2, Zenon
      <3>4. End(arena, b) \in Nat /\ End(arena, c) \in Nat
        BY <2>0, <3>1, <3>2, BlockFacts, Zenon
      <3>5. b < c => End(arena, b) <= c
        BY <2>0, <3>1, <3>2, Ordered, Zenon
      <3>6. c < b => End(arena, c) <= b
        BY <2>0, <3>1, <3>2, Ordered, Zenon
      <3> QED  BY <3>1, <3>2, <3>3, <3>4, <3>5, <3>6, Constants
    <2>4. ASSUME NEW p \in DOMAIN live, NEW c \in Blocks(arena)
          PROVE  bytes(p) \cap Header(c) = {}
      <3>1. PICK b \in Held(arena) :
              /\ p = b + HeaderSize /\ b \in Heads(arena) /\ b \in Nat
              /\ live[p] \in Nat /\ p + live[p] <= End(arena, b)
        BY <2>1, Zenon
      <3>2. c \in Heads(arena)
        BY <2>0, BlocksAre, Zenon
      <3>3. /\ End(arena, b) \in Nat /\ End(arena, c) \in Nat /\ c \in Nat
            /\ arena[c].payload_size \in Nat
            /\ End(arena, c) = c + HeaderSize + arena[c].payload_size
        BY <2>0, <3>1, <3>2, BlockFacts, Zenon
      <3>4. b < c => End(arena, b) <= c
        BY <2>0, <3>1, <3>2, Ordered, Zenon
      <3>5. c < b => End(arena, c) <= b
        BY <2>0, <3>1, <3>2, Ordered, Zenon
      <3> QED  BY <3>1, <3>3, <3>4, <3>5, Constants DEF Header
    <2> QED  BY <2>2, <2>3, <2>4, Zenon DEF AllocationsDisjoint
  <1> QED  BY <1>1, Invariance, PTL

-----------------------------------------------------------------------------
(* What kheap_get_stats measures of a set of blocks. *)
FreeIn(a, S) == {x \in S : a[x].state = "free"}
HeldIn(a, S) == {x \in S : a[x].state = "allocated"}
Bytes(a, S) == UNION {Payload(a, x) : x \in S}
FreeSizes(a, S) == {0} \cup {a[x].payload_size : x \in FreeIn(a, S)}
Largest(a, S) == CHOOSE m \in FreeSizes(a, S) : \A k \in FreeSizes(a, S) : k <= m

Measure(a, S) == [free_bytes |-> Cardinality(Bytes(a, FreeIn(a, S))),
                  largest_free_block |-> Largest(a, S),
                  allocated_blocks |-> Cardinality(HeldIn(a, S))]

LEMMA FiniteHeads ==
  ASSUME NEW a, Tiled(a), NEW S \in SUBSET Heads(a)
  PROVE  /\ IsFiniteSet(S) /\ Cardinality(S) \in Nat
         /\ IsFiniteSet(Bytes(a, S)) /\ Cardinality(Bytes(a, S)) \in Nat
  <1> DEFINE N == 0 .. KHEAP_ARENA_SIZE
  <1>1. IsFiniteSet(N)
    BY FS_Interval, Constants
  <1>2. S \in SUBSET N
    BY BlockFacts, Constants DEF Offsets
  <1>3. Bytes(a, S) \in SUBSET N
    <2>1. ASSUME NEW x \in S PROVE Payload(a, x) \subseteq N
      <3>1. /\ x \in Nat /\ a[x].payload_size \in Nat
            /\ x + HeaderSize + a[x].payload_size <= KHEAP_ARENA_SIZE
        BY BlockFacts, Zenon
      <3> QED  BY <3>1, Constants DEF Payload, block_payload
    <2> QED  BY <2>1, Zenon DEF Bytes
  <1> HIDE DEF N
  <1> QED  BY <1>1, <1>2, <1>3, FS_Subset, FS_CardinalityType, Zenon

LEMMA BytesAdd ==
  ASSUME NEW a, Tiled(a), NEW b \in Heads(a), NEW S \in SUBSET Heads(a), b \notin S
  PROVE  Cardinality(Bytes(a, {b} \cup S)) = a[b].payload_size + Cardinality(Bytes(a, S))
  <1> DEFINE P == Payload(a, b)
             B == Bytes(a, S)
  <1>1. /\ b \in Nat /\ a[b].payload_size \in Nat /\ a[b].payload_size >= KHEAP_ALIGNMENT
        /\ End(a, b) = b + HeaderSize + a[b].payload_size
    BY BlockFacts, Zenon
  <1>2. IsFiniteSet(P) /\ Cardinality(P) = a[b].payload_size
    <2> DEFINE lo == block_payload(b)
               hi == block_payload(b) + a[b].payload_size - 1
    <2>1. lo \in Int /\ hi \in Int /\ ~ (lo > hi) /\ hi - lo + 1 = a[b].payload_size
      BY <1>1, Constants DEF block_payload
    <2>2. P = lo .. hi
      BY Zenon DEF Payload
    <2> HIDE DEF lo, hi, P
    <2> QED  BY <2>1, <2>2, FS_Interval, Zenon
  <1>3. IsFiniteSet(B) /\ Cardinality(B) \in Nat
    BY FiniteHeads, Zenon
  <1>4. P \cap B = {}
    <2> SUFFICES ASSUME NEW x \in S, NEW z \in P, z \in Payload(a, x) PROVE FALSE
      BY Zenon DEF Bytes
    <2>1. /\ x \in Nat /\ a[x].payload_size \in Nat /\ x # b
          /\ End(a, x) = x + HeaderSize + a[x].payload_size
      BY BlockFacts, Zenon
    <2>2. x < b => End(a, x) <= b
      BY Ordered, Zenon
    <2>3. b < x => End(a, b) <= x
      BY Ordered, Zenon
    <2> QED  BY <1>1, <2>1, <2>2, <2>3, Constants DEF Payload, block_payload
  <1>5. Bytes(a, {b} \cup S) = P \cup B
    BY Zenon DEF Bytes
  <1> HIDE DEF P, B
  <1>6. Cardinality(P \cup B) = Cardinality(P) + Cardinality(B) - Cardinality(P \cap B)
    BY <1>2, <1>3, FS_Union, Zenon
  <1>7. Cardinality(P \cap B) = 0
    BY <1>4, FS_EmptySet, Zenon
  <1>8. Cardinality(P \cup B) = a[b].payload_size + Cardinality(B)
    BY <1>1, <1>2, <1>3, <1>6, <1>7
  <1> QED  BY <1>5, <1>8, Zenon DEF B

LEMMA GreatestNumber ==
  ASSUME NEW n \in Nat, NEW T \in SUBSET (0 .. n), T # {}
  PROVE  \E p \in T : \A q \in T : q <= p
  <1> DEFINE U == {n - t : t \in T}
  <1>0. ASSUME NEW t \in T PROVE t \in Nat /\ n - t \in Nat
    <2>1. t \in 0 .. n
      BY Zenon
    <2> QED  BY <2>1
  <1>1. U \in SUBSET Nat /\ U # {}
    BY <1>0, Zenon
  <1>2. PICK u \in U : \A w \in U : u <= w
    <2> HIDE DEF U
    <2> QED  BY <1>1, LeastNumber, Zenon
  <1>3. PICK p \in T : u = n - p
    BY Zenon
  <1>4. ASSUME NEW q \in T PROVE q <= p
    <2>1. u <= n - q
      BY <1>2, Zenon
    <2> QED  BY <1>0, <1>3, <2>1
  <1> QED  BY <1>4, Zenon

LEMMA LargestIs ==
  ASSUME NEW a, Tiled(a), NEW S \in SUBSET Heads(a)
  PROVE  /\ FreeSizes(a, S) \in SUBSET Nat
         /\ Largest(a, S) \in FreeSizes(a, S)
         /\ \A k \in FreeSizes(a, S) : k <= Largest(a, S)
  <1> DEFINE T == FreeSizes(a, S)
  <1>1. T \in SUBSET (0 .. KHEAP_ARENA_SIZE) /\ T # {}
    <2>1. ASSUME NEW x \in S PROVE a[x].payload_size \in 0 .. KHEAP_ARENA_SIZE
      <3>1. /\ x \in Nat /\ a[x].payload_size \in Nat
            /\ x + HeaderSize + a[x].payload_size <= KHEAP_ARENA_SIZE
        BY BlockFacts, Zenon
      <3> QED  BY <3>1, Constants
    <2>2. 0 \in 0 .. KHEAP_ARENA_SIZE
      BY Constants
    <2> QED  BY <2>1, <2>2, Zenon DEF FreeSizes, FreeIn
  <1> HIDE DEF T
  <1>2. \E p \in T : \A q \in T : q <= p
    BY <1>1, GreatestNumber, Constants, Zenon
  <1>3. T \in SUBSET Nat
    BY <1>1
  <1> QED  BY <1>2, <1>3, Zenon DEF Largest, T

(* The greatest of a set of sizes is determined by its bounds. *)
LEMMA LargestUnique ==
  ASSUME NEW a, Tiled(a), NEW S \in SUBSET Heads(a), NEW m \in FreeSizes(a, S),
         \A k \in FreeSizes(a, S) : k <= m
  PROVE  Largest(a, S) = m
  <1>1. /\ Largest(a, S) \in FreeSizes(a, S) /\ m <= Largest(a, S)
        /\ FreeSizes(a, S) \in SUBSET Nat
    BY LargestIs, Zenon
  <1>2. Largest(a, S) <= m /\ Largest(a, S) \in Nat /\ m \in Nat
    BY <1>1, Zenon
  <1> QED  BY <1>1, <1>2

LEMMA MeasureNone ==
  ASSUME NEW a, Tiled(a)
  PROVE  Measure(a, {}) = [free_bytes |-> 0, largest_free_block |-> 0, allocated_blocks |-> 0]
  <1>1. FreeIn(a, {}) = {} /\ HeldIn(a, {}) = {}
    BY Zenon DEF FreeIn, HeldIn
  <1>2. Bytes(a, {}) = {}
    BY Zenon DEF Bytes
  <1>3. FreeSizes(a, {}) = {0}
    BY <1>1, Zenon DEF FreeSizes
  <1>4. Largest(a, {}) = 0
    BY <1>3, LargestUnique
  <1> QED  BY <1>1, <1>2, <1>4, FS_EmptySet, Zenon DEF Measure

StatType == [free_bytes : Nat, largest_free_block : Nat, allocated_blocks : Nat]

LEMMA MeasureType ==
  ASSUME NEW a, Tiled(a), NEW S \in SUBSET Heads(a)
  PROVE  Measure(a, S) \in StatType
  <1>1. FreeIn(a, S) \in SUBSET Heads(a) /\ HeldIn(a, S) \in SUBSET Heads(a)
    BY Zenon DEF FreeIn, HeldIn
  <1>2. Largest(a, S) \in Nat
    BY LargestIs, Zenon
  <1> QED  BY <1>1, <1>2, FiniteHeads, Zenon DEF Measure, StatType

LEMMA Counted ==
  ASSUME NEW r \in StatType, NEW size \in Nat
  PROVE  [r EXCEPT !.free_bytes = @ + size, !.largest_free_block = Larger(size, @)]
           = [free_bytes |-> r.free_bytes + size,
              largest_free_block |-> Larger(size, r.largest_free_block),
              allocated_blocks |-> r.allocated_blocks]
  <1> DEFINE u == r.free_bytes + size
             m == Larger(size, r.largest_free_block)
             q == [r EXCEPT !.free_bytes = u, !.largest_free_block = m]
  <1>1. u \in Nat /\ m \in Nat
    BY DEF StatType, Larger
  <1> HIDE DEF u, m
  <1>2. q \in StatType
    BY <1>1, Zenon DEF StatType
  <1>3. q.free_bytes = u /\ q.largest_free_block = m /\ q.allocated_blocks = r.allocated_blocks
    BY <1>1, Zenon DEF StatType
  <1> HIDE DEF q
  <1>4. q = [free_bytes |-> u, largest_free_block |-> m,
             allocated_blocks |-> r.allocated_blocks]
    BY <1>2, <1>3, Zenon DEF StatType
  <1> QED  BY <1>4, Zenon DEF q, u, m

LEMMA MeasureFree ==
  ASSUME NEW a, Tiled(a), NEW b \in Heads(a), NEW S \in SUBSET Heads(a), b \notin S,
         a[b].state = "free"
  PROVE  LET r == Measure(a, S)
             size == a[b].payload_size
         IN  Measure(a, {b} \cup S)
               = [free_bytes |-> r.free_bytes + size,
                  largest_free_block |-> Larger(size, r.largest_free_block),
                  allocated_blocks |-> r.allocated_blocks]
  <1> DEFINE R == {b} \cup S
             size == a[b].payload_size
  <1>1. FreeIn(a, R) = {b} \cup FreeIn(a, S) /\ HeldIn(a, R) = HeldIn(a, S)
    BY Zenon DEF FreeIn, HeldIn
  <1>2. FreeIn(a, S) \in SUBSET Heads(a) /\ b \notin FreeIn(a, S)
    BY Zenon DEF FreeIn
  <1>3. Cardinality(Bytes(a, FreeIn(a, R))) = size + Cardinality(Bytes(a, FreeIn(a, S)))
    <2> DEFINE E == FreeIn(a, S)
    <2>1. E \in SUBSET Heads(a) /\ b \notin E /\ FreeIn(a, R) = {b} \cup E
      BY <1>1, <1>2, Zenon
    <2> HIDE DEF E
    <2>2. Cardinality(Bytes(a, {b} \cup E)) = size + Cardinality(Bytes(a, E))
      BY <2>1, BytesAdd, Zenon
    <2> QED  BY <2>1, <2>2, Zenon DEF E
  <1>4. size \in Nat /\ Cardinality(Bytes(a, FreeIn(a, S))) \in Nat
    BY <1>2, BlockFacts, FiniteHeads, Zenon
  <1>5. /\ FreeSizes(a, S) \in SUBSET Nat /\ Largest(a, S) \in FreeSizes(a, S)
        /\ \A k \in FreeSizes(a, S) : k <= Largest(a, S)
    BY LargestIs, Zenon
  <1>6. FreeSizes(a, R) = FreeSizes(a, S) \cup {size}
    BY <1>1, Zenon DEF FreeSizes
  <1> DEFINE m == Larger(size, Largest(a, S))
  <1> HIDE DEF size
  <1>7. m \in FreeSizes(a, R) /\ \A k \in FreeSizes(a, R) : k <= m
    BY <1>4, <1>5, <1>6 DEF Larger
  <1>8. Largest(a, R) = m
    <2> HIDE DEF m
    <2> QED  BY <1>7, LargestUnique, Zenon
  <1>9. Cardinality(Bytes(a, FreeIn(a, R))) = Cardinality(Bytes(a, FreeIn(a, S))) + size
    BY <1>3, <1>4
  <1> HIDE DEF R
  <1> DEFINE r == Measure(a, S)
  <1>10. Measure(a, R) = [free_bytes |-> r.free_bytes + size,
                          largest_free_block |-> Larger(size, r.largest_free_block),
                          allocated_blocks |-> r.allocated_blocks]
    BY <1>1, <1>8, <1>9, Zenon DEF Measure
  <1> QED  BY <1>10, Zenon DEF R, size

LEMMA MeasureHeld ==
  ASSUME NEW a, Tiled(a), NEW b \in Heads(a), NEW S \in SUBSET Heads(a), b \notin S,
         a[b].state # "free"
  PROVE  Measure(a, {b} \cup S) = [Measure(a, S) EXCEPT !.allocated_blocks = @ + 1]
  <1> DEFINE R == {b} \cup S
  <1>0. a[b].state = "allocated"
    BY BlockFacts, Zenon
  <1>1. FreeIn(a, R) = FreeIn(a, S) /\ HeldIn(a, R) = HeldIn(a, S) \cup {b}
    BY <1>0, Zenon DEF FreeIn, HeldIn
  <1>2. HeldIn(a, S) \in SUBSET Heads(a) /\ b \notin HeldIn(a, S)
    BY Zenon DEF HeldIn
  <1>3. IsFiniteSet(HeldIn(a, S))
    BY <1>2, FiniteHeads, Zenon
  <1>4. Cardinality(HeldIn(a, R)) = Cardinality(HeldIn(a, S)) + 1
    BY <1>1, <1>2, <1>3, FS_AddElement, Zenon
  <1>5. Largest(a, R) = Largest(a, S)
    BY <1>1, Zenon DEF Largest, FreeSizes
  <1> HIDE DEF R
  <1> QED  BY <1>1, <1>4, <1>5 DEF Measure, R

(* The equation that the walk of kheap_get_stats solves. *)
StatStep(a, f, b) ==
  LET rest == IF a[b].next # NULL THEN f[a[b].next]
              ELSE [free_bytes |-> 0, largest_free_block |-> 0, allocated_blocks |-> 0]
  IN  IF a[b].state = "free"
      THEN [rest EXCEPT !.free_bytes = @ + a[b].payload_size,
                        !.largest_free_block = Larger(a[b].payload_size, @)]
      ELSE [rest EXCEPT !.allocated_blocks = @ + 1]

LEMMA StatHead ==
  ASSUME NEW a, Tiled(a), NEW f, NEW b \in Heads(a),
         a[b].next # NULL => f[a[b].next] = Measure(a, Suffix(a, a[b].next))
  PROVE  StatStep(a, f, b) = Measure(a, Suffix(a, b))
  <1> DEFINE S == IF a[b].next # NULL THEN Suffix(a, a[b].next) ELSE {}
             rest == IF a[b].next # NULL THEN f[a[b].next]
                     ELSE [free_bytes |-> 0, largest_free_block |-> 0, allocated_blocks |-> 0]
  <1>1. Suffix(a, b) = {b} \cup S /\ b \notin S /\ S \in SUBSET Heads(a)
    BY SuffixStep, Zenon DEF Suffix
  <1>2. rest = Measure(a, S)
    BY MeasureNone, Zenon
  <1>3. StatStep(a, f, b) = IF a[b].state = "free"
                            THEN [rest EXCEPT !.free_bytes = @ + a[b].payload_size,
                                              !.largest_free_block = Larger(a[b].payload_size, @)]
                            ELSE [rest EXCEPT !.allocated_blocks = @ + 1]
    BY Zenon DEF StatStep
  <1> HIDE DEF S, rest
  <1>4. CASE a[b].state = "free"
    <2> DEFINE size == a[b].payload_size
               sum == [free_bytes |-> rest.free_bytes + size,
                       largest_free_block |-> Larger(size, rest.largest_free_block),
                       allocated_blocks |-> rest.allocated_blocks]
    <2>1. rest \in StatType /\ size \in Nat
      BY <1>1, <1>2, MeasureType, BlockFacts, Zenon
    <2>2. [rest EXCEPT !.free_bytes = @ + size, !.largest_free_block = Larger(size, @)] = sum
      <3> HIDE DEF size
      <3> QED  BY <2>1, Counted, Zenon
    <2>3. Measure(a, {b} \cup S) = sum
      BY <1>1, <1>2, <1>4, MeasureFree, Zenon
    <2> QED  BY <1>1, <1>3, <1>4, <2>2, <2>3, Zenon
  <1>5. CASE a[b].state # "free"
    BY <1>1, <1>2, <1>3, <1>5, MeasureHeld
  <1> QED  BY <1>4, <1>5, Zenon

LEMMA StatExists ==
  ASSUME NEW a, Tiled(a)
  PROVE  \E f : f = [b \in Offsets |-> StatStep(a, f, b)]
  <1> DEFINE one == [free_bytes |-> 0, largest_free_block |-> 0, allocated_blocks |-> 1]
             f == [b \in Offsets |-> IF b \in Heads(a) THEN Measure(a, Suffix(a, b)) ELSE one]
  <1>1. ASSUME NEW b \in Offsets PROVE f[b] = StatStep(a, f, b)
    <2>1. CASE b \in Heads(a)
      <3>1. a[b].next # NULL => f[a[b].next] = Measure(a, Suffix(a, a[b].next))
        BY <2>1, BlockFacts, Zenon
      <3>2. StatStep(a, f, b) = Measure(a, Suffix(a, b))
        <4> HIDE DEF f
        <4> QED  BY <2>1, <3>1, StatHead, Zenon
      <3> QED  BY <2>1, <3>2, Zenon
    <2>2. CASE b \notin Heads(a)
      <3>1. a[b].next = NULL /\ a[b].state = "data"
        BY <2>2 DEF Tiled, Data
      <3>2. StatStep(a, f, b) = one
        <4> HIDE DEF f
        <4> QED  BY <3>1 DEF StatStep
      <3> QED  BY <2>2, <3>2, Zenon
    <2> QED  BY <2>1, <2>2, Zenon
  <1>2. f = [b \in Offsets |-> StatStep(a, f, b)]
    <2> DEFINE g == [b \in Offsets |-> StatStep(a, f, b)]
    <2>1. \A b \in Offsets : f[b] = g[b]
      <3> HIDE DEF f
      <3> QED  BY <1>1, Zenon
    <2> QED  BY <2>1, Zenon
  <1> QED  BY <1>2, Zenon

LEMMA StatUnique ==
  ASSUME NEW a, Tiled(a), NEW f, f = [b \in Offsets |-> StatStep(a, f, b)]
  PROVE  \A b \in Heads(a) : f[b] = Measure(a, Suffix(a, b))
  <1> DEFINE T == {b \in Heads(a) : f[b] # Measure(a, Suffix(a, b))}
  <1> SUFFICES ASSUME T # {} PROVE FALSE
    BY Zenon
  <1>1. T \in SUBSET Offsets
    BY Zenon DEF Heads
  <1>2. PICK b \in T : \A q \in T : q <= b
    <2> HIDE DEF T
    <2> QED  BY <1>1, GreatestOffset, Zenon
  <1>3. b \in Heads(a) /\ b \in Offsets /\ f[b] # Measure(a, Suffix(a, b))
    BY <1>1, <1>2, Zenon
  <1>4. f[b] = StatStep(a, f, b)
    BY <1>3, Zenon
  <1>5. a[b].next # NULL => f[a[b].next] = Measure(a, Suffix(a, a[b].next))
    <2> SUFFICES ASSUME a[b].next # NULL
                 PROVE  f[a[b].next] = Measure(a, Suffix(a, a[b].next))
      BY Zenon
    <2>1. a[b].next \in Heads(a) /\ b < a[b].next /\ b \in Nat /\ a[b].next \in Nat
      BY <1>3, BlockFacts
    <2>2. a[b].next \notin T
      <3> HIDE DEF T
      <3> QED  BY <1>2, <2>1
    <2> QED  BY <2>1, <2>2, Zenon
  <1> QED  BY <1>3, <1>4, <1>5, StatHead, Zenon

LEMMA StatsAre ==
  ASSUME NEW a, Tiled(a)
  PROVE  kheap_get_stats(a) = Measure(a, Heads(a))
  <1> DEFINE f == CHOOSE g : g = [b \in Offsets |-> StatStep(a, g, b)]
  <1>1. f = [b \in Offsets |-> StatStep(a, f, b)]
    BY StatExists, Zenon
  <1>2. f[0] = Measure(a, Heads(a))
    <2> HIDE DEF f
    <2> QED  BY <1>1, StatUnique, SuffixAll DEF Tiled
  <1>3. kheap_get_stats(a) = f[0]
    BY Zenon DEF kheap_get_stats, StatStep
  <1> QED  BY <1>2, <1>3, Zenon

-----------------------------------------------------------------------------
(* The bytes that a set of blocks takes, headers included. *)
Room(a, S) == HeaderSize * Cardinality(S)
                + (Cardinality(Bytes(a, FreeIn(a, S))) + Cardinality(Bytes(a, HeldIn(a, S))))

LEMMA RoomAdd ==
  ASSUME NEW a, Tiled(a), NEW b \in Heads(a), NEW S \in SUBSET Heads(a), b \notin S
  PROVE  /\ Room(a, {b} \cup S) = HeaderSize + a[b].payload_size + Room(a, S)
         /\ Room(a, S) \in Nat
  <1> DEFINE R == {b} \cup S
             c == Cardinality(S)
             free(T) == Cardinality(Bytes(a, FreeIn(a, T)))
             held(T) == Cardinality(Bytes(a, HeldIn(a, T)))
             size == a[b].payload_size
  <1>1. FreeIn(a, S) \in SUBSET Heads(a) /\ HeldIn(a, S) \in SUBSET Heads(a)
        /\ b \notin FreeIn(a, S) /\ b \notin HeldIn(a, S)
    BY Zenon DEF FreeIn, HeldIn
  <1>2. IsFiniteSet(S) /\ c \in Nat /\ free(S) \in Nat /\ held(S) \in Nat
    BY <1>1, FiniteHeads, Zenon
  <1>3. R = S \cup {b}
    BY Zenon
  <1>4. Cardinality(R) = c + 1
    <2> HIDE DEF R
    <2> QED  BY <1>2, <1>3, FS_AddElement, Zenon
  <1>5. size \in Nat /\ a[b].state \in {"free", "allocated"}
    BY BlockFacts, Zenon
  <1>6. free(R) + held(R) = size + (free(S) + held(S))
    <2>1. CASE a[b].state = "free"
      <3>1. FreeIn(a, R) = {b} \cup FreeIn(a, S) /\ HeldIn(a, R) = HeldIn(a, S)
        BY <2>1, Zenon DEF FreeIn, HeldIn
      <3>2. free(R) = size + free(S)
        <4> DEFINE E == FreeIn(a, S)
        <4>1. E \in SUBSET Heads(a) /\ b \notin E /\ FreeIn(a, R) = {b} \cup E
          BY <1>1, <3>1, Zenon
        <4> HIDE DEF E
        <4>2. Cardinality(Bytes(a, {b} \cup E)) = size + Cardinality(Bytes(a, E))
          BY <4>1, BytesAdd, Zenon
        <4> QED  BY <4>1, <4>2, Zenon DEF E
      <3>3. held(R) = held(S)
        BY <3>1, Zenon
      <3> HIDE DEF free, held, size, R
      <3> QED  BY <1>2, <1>5, <3>2, <3>3
    <2>2. CASE a[b].state = "allocated"
      <3>1. HeldIn(a, R) = {b} \cup HeldIn(a, S) /\ FreeIn(a, R) = FreeIn(a, S)
        BY <2>2, Zenon DEF FreeIn, HeldIn
      <3>2. held(R) = size + held(S)
        <4> DEFINE E == HeldIn(a, S)
        <4>1. E \in SUBSET Heads(a) /\ b \notin E /\ HeldIn(a, R) = {b} \cup E
          BY <1>1, <3>1, Zenon
        <4> HIDE DEF E
        <4>2. Cardinality(Bytes(a, {b} \cup E)) = size + Cardinality(Bytes(a, E))
          BY <4>1, BytesAdd, Zenon
        <4> QED  BY <4>1, <4>2, Zenon DEF E
      <3>3. free(R) = free(S)
        BY <3>1, Zenon
      <3> HIDE DEF free, held, size, R
      <3> QED  BY <1>2, <1>5, <3>2, <3>3
    <2> QED  BY <1>5, <2>1, <2>2, Zenon
  <1>7. HeaderSize * (c + 1) = HeaderSize * c + HeaderSize /\ HeaderSize * c \in Nat
    BY <1>2, Constants
  <1> DEFINE h == HeaderSize * c
             k == free(S) + held(S)
  <1>8. Room(a, R) = HeaderSize * (c + 1) + (size + k)
    BY <1>4, <1>6, Zenon DEF Room
  <1>9. Room(a, S) = h + k
    BY Zenon DEF Room
  <1>10. h \in Nat /\ k \in Nat
    BY <1>2, <1>7
  <1> HIDE DEF R, h, k, size, c
  <1>11. Room(a, R) = (h + HeaderSize) + (size + k)
    BY <1>7, <1>8, Zenon DEF h
  <1>12. Room(a, R) = HeaderSize + size + Room(a, S) /\ Room(a, S) \in Nat
    BY <1>5, <1>9, <1>10, <1>11, Constants
  <1> QED  BY <1>12, Zenon DEF R, size

LEMMA RoomNone ==
  ASSUME NEW a
  PROVE  Room(a, {}) = 0
  <1>1. FreeIn(a, {}) = {} /\ HeldIn(a, {}) = {} /\ Bytes(a, {}) = {}
    BY Zenon DEF FreeIn, HeldIn, Bytes
  <1> QED  BY <1>1, FS_EmptySet, Constants DEF Room

(* The blocks from b on take all the bytes from b to the end of the arena. *)
LEMMA RoomExact ==
  ASSUME NEW a, Tiled(a)
  PROVE  \A b \in Heads(a) : Room(a, Suffix(a, b)) = KHEAP_ARENA_SIZE - b
  <1> DEFINE T == {b \in Heads(a) : Room(a, Suffix(a, b)) # KHEAP_ARENA_SIZE - b}
  <1> SUFFICES ASSUME T # {} PROVE FALSE
    BY Zenon
  <1>1. T \in SUBSET Offsets
    BY Zenon DEF Heads
  <1>2. PICK b \in T : \A q \in T : q <= b
    <2> HIDE DEF T
    <2> QED  BY <1>1, GreatestOffset, Zenon
  <1>3. b \in Heads(a) /\ Room(a, Suffix(a, b)) # KHEAP_ARENA_SIZE - b
    BY <1>2, Zenon
  <1>4. /\ b \in Nat /\ a[b].payload_size \in Nat
        /\ End(a, b) = b + HeaderSize + a[b].payload_size
    BY <1>3, BlockFacts, Zenon
  <1>5. CASE a[b].next = NULL
    <2>1. Suffix(a, b) = {b} \cup {} /\ End(a, b) = KHEAP_ARENA_SIZE
      BY <1>3, <1>5, SuffixStep, BlockFacts
    <2>2. Room(a, {b} \cup {}) = HeaderSize + a[b].payload_size + Room(a, {})
      BY <1>3, RoomAdd, Zenon
    <2>3. Room(a, Suffix(a, b)) = HeaderSize + a[b].payload_size
      BY <1>4, <2>1, <2>2, RoomNone, Constants
    <2> QED  BY <1>3, <1>4, <2>1, <2>3, Constants
  <1>6. CASE a[b].next # NULL
    <2> DEFINE n == a[b].next
    <2>1. n \in Heads(a) /\ b < n /\ n \in Nat /\ n = End(a, b)
      BY <1>3, <1>6, BlockFacts, ZenonT(40)
    <2>2. Suffix(a, b) = {b} \cup Suffix(a, n) /\ b \notin Suffix(a, n)
      BY <1>3, <1>6, SuffixStep, Zenon
    <2> HIDE DEF n
    <2>3. n \notin T
      <3> HIDE DEF T
      <3> QED  BY <1>2, <1>4, <2>1
    <2>4. Room(a, Suffix(a, n)) = KHEAP_ARENA_SIZE - n
      BY <2>1, <2>3, Zenon
    <2>5. Suffix(a, n) \in SUBSET Heads(a)
      BY Zenon DEF Suffix
    <2>6. Room(a, Suffix(a, b)) = HeaderSize + a[b].payload_size + Room(a, Suffix(a, n))
      BY <1>3, <2>2, <2>5, RoomAdd
    <2> QED  BY <1>3, <1>4, <2>1, <2>4, <2>6, Constants, SMTT(30)
  <1> QED  BY <1>5, <1>6, Zenon

LEMMA CountExact ==
  ASSUME NEW a, Tiled(a), NEW l, LiveMatches(a, l)
  PROVE  Cardinality(DOMAIN l) = Cardinality(Held(a))
  <1> DEFINE f == [b \in Held(a) |-> block_payload(b)]
  <1>1. DOMAIN l = {block_payload(b) : b \in Held(a)}
    BY Zenon DEF LiveMatches
  <1>2. ASSUME NEW x \in Held(a), NEW y \in Held(a), f[x] = f[y] PROVE x = y
    <2>1. x \in Nat /\ y \in Nat
      BY BlockFacts, Zenon DEF Held
    <2> QED  BY <1>2, <2>1, Constants DEF block_payload
  <1>3. f \in [Held(a) -> DOMAIN l] /\ \A p \in DOMAIN l : \E x \in Held(a) : f[x] = p
    BY <1>1, Zenon
  <1> HIDE DEF f
  <1>4. f \in Bijection(Held(a), DOMAIN l)
    BY <1>2, <1>3, Zenon DEF Bijection, Injection, IsInjective, Surjection
  <1>5. ExistsBijection(Held(a), DOMAIN l)
    BY <1>4, Zenon DEF ExistsBijection
  <1>6. IsFiniteSet(Held(a))
    BY FiniteHeads, Zenon DEF Held
  <1> QED  BY <1>5, <1>6, FS_Bijection, Zenon

(* A request succeeds exactly when some free block is large enough. *)
LEMMA FitsLargest ==
  ASSUME NEW a, Tiled(a), NoFreePair(a), NEW size \in Nat
  PROVE  (allocate(a, size).ptr # NULL) <=>
            RequestValid(size) /\ align_request(size) <= Largest(a, Heads(a))
  <1> DEFINE aligned == align_request(size)
             fits == {b \in Blocks(a) : a[b].state = "free" /\ a[b].payload_size >= aligned}
             big == Largest(a, Heads(a))
             b == CHOOSE x \in fits : \A y \in fits : x <= y
  <1>0. inspect_heap(a) /\ Blocks(a) = Heads(a)
    BY Inspected, BlocksAre, Zenon
  <1>1. /\ FreeSizes(a, Heads(a)) \in SUBSET Nat /\ big \in FreeSizes(a, Heads(a))
        /\ \A k \in FreeSizes(a, Heads(a)) : k <= big
    BY LargestIs, Zenon
  <1>2. CASE ~ RequestValid(size)
    <2>1. allocate(a, size) = [arena |-> a, ptr |-> NULL]
      BY <1>2, Zenon DEF allocate
    <2> QED  BY <1>2, <2>1
  <1>3. CASE RequestValid(size)
    <2>1. aligned \in Nat /\ KHEAP_ALIGNMENT <= aligned
      BY <1>3, Rounded, Zenon
    <2>2. fits # {} <=> aligned <= big
      <3>1. ASSUME NEW x \in fits PROVE aligned <= big
        <4>1. x \in Heads(a) /\ a[x].state = "free" /\ a[x].payload_size >= aligned
          BY <1>0, Zenon
        <4>2. a[x].payload_size \in FreeSizes(a, Heads(a))
          BY <4>1, Zenon DEF FreeSizes, FreeIn
        <4> HIDE DEF aligned, big
        <4> QED  BY <1>1, <2>1, <4>1, <4>2
      <3>2. ASSUME aligned <= big PROVE fits # {}
        <4>1. big # 0
          <5> HIDE DEF aligned, big
          <5> QED  BY <1>1, <2>1, <3>2, Constants
        <4>2. PICK x \in FreeIn(a, Heads(a)) : big = a[x].payload_size
          BY <1>1, <4>1, Zenon DEF FreeSizes
        <4>3. x \in Heads(a) /\ a[x].state = "free"
          BY Zenon DEF FreeIn
        <4>4. a[x].payload_size >= aligned
          <5> HIDE DEF aligned, big
          <5> QED  BY <1>1, <2>1, <3>2, <4>2, Zenon
        <4> QED  BY <1>0, <4>3, <4>4, Zenon
      <3> QED  BY <3>1, <3>2, Zenon
    <2>3. fits = {} => allocate(a, size).ptr = NULL
      <3> SUFFICES ASSUME fits = {} PROVE allocate(a, size).ptr = NULL
        BY Zenon
      <3>1. allocate(a, size) = [arena |-> a, ptr |-> NULL]
        BY Zenon DEF allocate
      <3> QED  BY <3>1
    <2>4. fits # {} => allocate(a, size).ptr # NULL
      <3> SUFFICES ASSUME fits # {} PROVE allocate(a, size).ptr # NULL
        BY Zenon
      <3>1. allocate(a, size)
              = [arena |-> [split_block(a, b, aligned) EXCEPT ![b].state = "allocated"],
                 ptr |-> block_payload(b)]
        BY <1>0, <1>3, Zenon DEF allocate
      <3>2. fits \in SUBSET Nat
        BY <1>0, BlockFacts, ZenonT(40)
      <3>3. b \in fits
        <4>1. \E x \in fits : \A y \in fits : x <= y
          <5> HIDE DEF fits
          <5> QED  BY <3>2, LeastNumber, Zenon
        <4> QED  BY <4>1, Zenon
      <3> HIDE DEF b, fits
      <3>4. b \in Nat
        BY <3>2, <3>3, Zenon
      <3> QED  BY <3>1, <3>4, Constants DEF block_payload, NULL
    <2> HIDE DEF fits, big
    <2> QED  BY <1>3, <2>2, <2>3, <2>4, Zenon DEF big
  <1> QED  BY <1>2, <1>3, Zenon

(* With nothing held there is one free block, the whole arena. *)
LEMMA AllFree ==
  ASSUME NEW a, Tiled(a), NoFreePair(a), Held(a) = {}
  PROVE  Largest(a, Heads(a)) = TotalCapacity
  <1>1. 0 \in Heads(a)
    BY Zenon DEF Tiled
  <1>2. ASSUME NEW x \in Heads(a) PROVE a[x].state = "free"
    BY BlockFacts DEF Held
  <1>3. a[0].next = NULL
    <2> SUFFICES ASSUME a[0].next # NULL PROVE FALSE
      BY Zenon
    <2>1. a[0].next \in Heads(a)
      BY <1>1, BlockFacts, Zenon
    <2> QED  BY <1>1, <1>2, <2>1, Zenon DEF NoFreePair
  <1>4. Heads(a) = {0}
    BY <1>1, <1>3, SuffixStep, SuffixAll, Zenon
  <1>5. a[0].payload_size = TotalCapacity /\ TotalCapacity \in Nat
    <2>1. a[0].payload_size \in Nat /\ KHEAP_ARENA_SIZE = 0 + HeaderSize + a[0].payload_size
      BY <1>1, <1>3, BlockFacts
    <2> QED  BY <2>1, Constants, SMTT(30) DEF TotalCapacity
  <1>6. FreeIn(a, Heads(a)) = {0}
    BY <1>1, <1>2, <1>4, Zenon DEF FreeIn
  <1>7. FreeSizes(a, Heads(a)) = {0, TotalCapacity}
    BY <1>5, <1>6, Zenon DEF FreeSizes
  <1> HIDE DEF TotalCapacity
  <1>8. TotalCapacity \in FreeSizes(a, Heads(a))
        /\ \A k \in FreeSizes(a, Heads(a)) : k <= TotalCapacity
    BY <1>5, <1>7
  <1> QED  BY <1>8, LargestUnique, Zenon

(* kheap_get_stats reports what callers and headers leave: its counts are  *)
(* exact for every history of calls, a request succeeds exactly when it is *)
(* not larger than the largest free block, and once everything is freed    *)
(* that block is the whole arena again.                                    *)
THEOREM StatsAreExact ==
  Spec => []StatsExact
  <1>1. ASSUME IInv PROVE StatsExact
    <2> DEFINE stats == kheap_get_stats(arena)
               held == UNION {Payload(arena, p - HeaderSize) : p \in DOMAIN live}
               H == Heads(arena)
    <2>0. Tiled(arena) /\ NoFreePair(arena) /\ LiveMatches(arena, live)
      BY <1>1, Zenon DEF IInv
    <2>1. stats = Measure(arena, H) /\ Blocks(arena) = H
      BY <2>0, StatsAre, BlocksAre, Zenon
    <2>2. /\ stats.free_bytes = Cardinality(Bytes(arena, FreeIn(arena, H)))
          /\ stats.largest_free_block = Largest(arena, H)
          /\ stats.allocated_blocks = Cardinality(HeldIn(arena, H))
      BY <2>1 DEF Measure
    <2>3. HeldIn(arena, H) = Held(arena)
      BY Zenon DEF HeldIn, Held
    <2>4. stats.allocated_blocks = Cardinality(DOMAIN live)
      BY <2>0, <2>2, <2>3, CountExact, Zenon
    <2>5. held = Bytes(arena, HeldIn(arena, H))
      <3>1. ASSUME NEW b \in Held(arena) PROVE block_payload(b) - HeaderSize = b
        <4>1. b \in Nat
          BY <2>0, BlockFacts, Zenon DEF Held
        <4> QED  BY <4>1, Constants DEF block_payload
      <3>2. DOMAIN live = {block_payload(b) : b \in Held(arena)}
        BY <2>0, Zenon DEF LiveMatches
      <3>3. {Payload(arena, p - HeaderSize) : p \in DOMAIN live}
              = {Payload(arena, b) : b \in Held(arena)}
        BY <3>1, <3>2, ZenonT(40)
      <3> QED  BY <2>3, <3>3, Zenon DEF Bytes
    <2>6. stats.free_bytes = KHEAP_ARENA_SIZE - Cardinality(held)
                               - (HeaderSize * Cardinality(Blocks(arena)))
      <3> DEFINE f == Cardinality(Bytes(arena, FreeIn(arena, H)))
                 h == Cardinality(Bytes(arena, HeldIn(arena, H)))
                 c == HeaderSize * Cardinality(H)
      <3>1. 0 \in H
        BY <2>0, Zenon DEF Tiled
      <3>2. Room(arena, H) = KHEAP_ARENA_SIZE - 0
        BY <2>0, <3>1, RoomExact, SuffixAll, Zenon
      <3>3. Room(arena, H) = c + (f + h)
        BY Zenon DEF Room
      <3>4. f \in Nat /\ h \in Nat /\ Cardinality(H) \in Nat
        BY <2>0, FiniteHeads, Zenon DEF FreeIn, HeldIn
      <3>5. c \in Nat
        BY <3>4, Constants
      <3> HIDE DEF f, h, c
      <3>6. f = KHEAP_ARENA_SIZE - h - c
        BY <3>2, <3>3, <3>4, <3>5, Constants
      <3> QED  BY <2>1, <2>2, <2>5, <3>6, Zenon DEF f, h, c
    <2>7. \A size \in Sizes :
            (allocate(arena, size).ptr # NULL) <=>
              RequestValid(size) /\ align_request(size) <= stats.largest_free_block
      <3>1. Sizes \subseteq Nat
        BY HeapAssumption, Constants
      <3> QED  BY <2>0, <2>2, <3>1, FitsLargest, Zenon
    <2>8. DOMAIN live = {} => stats.largest_free_block = TotalCapacity
      <3> SUFFICES ASSUME DOMAIN live = {} PROVE stats.largest_free_block = TotalCapacity
        BY Zenon
      <3>1. Held(arena) = {}
        BY <2>0, Zenon DEF LiveMatches
      <3> QED  BY <2>0, <2>2, <3>1, AllFree, Zenon
    <2> QED  BY <2>4, <2>6, <2>7, <2>8, Zenon DEF StatsExact
  <1> QED  BY <1>1, Invariance, PTL
===============================================================================
