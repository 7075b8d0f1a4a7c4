-------------------------------- MODULE MCBoot --------------------------------
(***************************************************************************)
(* Maps of up to three records, each good or bad in one way, of every      *)
(* length up to one that ends in or behind the third; the loader's         *)
(* structures in low memory, in usable memory, and at the 4 GiB border.    *)
(***************************************************************************)
EXTENDS Boot

CONSTANTS MaxMapLength

Region(size, base, length, type) ==
  [size |-> size, base |-> base, length |-> length, type |-> type]

Good == {Region(3, 0, 24, 1),     \* all of managed memory
         Region(4, 9, 20, 1),     \* unaligned, clipped at the limit
         Region(3, 14, 3, 2),     \* touches two pages
         Region(5, 58, 5, 1)}     \* ends at the last address

Bad == {Region(3, 8, 0, 1),       \* empty
        Region(3, 60, 6, 1),      \* its end does not fit
        Region(2, 8, 8, 1),       \* shorter than an entry
        Region(31, 8, 8, 1)}      \* its record size does not fit

MCRecords == {<<a>> : a \in Good \cup Bad}
             \cup {<<a, b>> : a \in Good, b \in Good \cup Bad}
             \cup {<<a, b, c>> : a, b, c \in Good}

Places == {<<20, 13>>, <<1, 2>>, <<29, 18>>}
BadPlaces == {<<30, 18>>, <<0, 18>>, <<20, 0>>, <<20, 28>>}

Loaded(magic, flags, place, length, records) ==
  [magic |-> magic, flags |-> flags, address |-> place[1],
   mmap_addr |-> place[2], mmap_length |-> length, records |-> records]

MCBootRecords ==
  {Loaded("bootloader", RequiredFlags, p, l, r) :
     p \in Places, l \in 0 .. MaxMapLength, r \in MCRecords}
  \cup {Loaded(m, f, p, l, <<Region(3, 0, 24, 1)>>) :
          m \in {"bootloader", "other"}, f \in SUBSET RequiredFlags,
          p \in BadPlaces \cup {<<20, 13>>}, l \in {3, 4, 5}}
===============================================================================
