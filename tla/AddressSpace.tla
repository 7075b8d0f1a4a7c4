----------------------------- MODULE AddressSpace -----------------------------
(***************************************************************************)
(* What the virtual memory manager promises: a map from virtual pages to   *)
(* frames and rights.  A fixed part appears when paging is switched on and *)
(* never changes; pages of a window can be mapped and unmapped, as long as *)
(* they lie in at most MaxRegions regions of RegionPages pages.            *)
(***************************************************************************)
EXTENDS Naturals, FiniteSets

CONSTANTS Pages, Fixed, Window, PageBytes, RegionPages, MaxRegions, Rights,
          MapRequests, UnmapRequests

VARIABLES on,        \* paging is switched on
          mapping,   \* page -> frame and rights
          asked,     \* the latest request
          answer     \* whether it was granted, and the address it returned

spaceVars == <<on, mapping, asked, answer>>

Yes(physical) == [ok |-> TRUE, physical |-> physical]
No == [ok |-> FALSE, physical |-> 0]

Mapped == DOMAIN mapping
Region(page) == page \div RegionPages
UsedRegions == {Region(page) : page \in Mapped \cap Window}

Init == on = FALSE /\ mapping = << >> /\ asked = [op |-> "none"] /\ answer = Yes(0)

SwitchOn ==
  /\ asked' = [op |-> "init"] /\ answer' = Yes(0) /\ on' = TRUE
  /\ mapping' = IF on THEN mapping
                ELSE [page \in Fixed |-> [frame |-> page, rights |-> {"WRITABLE"}]]

InWindow(v) == v % PageBytes = 0 /\ v \div PageBytes \in Window

Map(v, p, flags) ==
  LET page == v \div PageBytes
      granted == /\ on /\ InWindow(v) /\ p % PageBytes = 0 /\ flags \subseteq Rights
                 /\ page \notin Mapped
                 /\ \/ Region(page) \in UsedRegions
                    \/ Cardinality(UsedRegions) < MaxRegions
      new == [frame |-> p \div PageBytes, rights |-> flags]
  IN  /\ asked' = [op |-> "map", v |-> v, p |-> p, flags |-> flags]
      /\ answer' = IF granted THEN Yes(0) ELSE No
      /\ mapping' = IF granted
                    THEN [q \in Mapped \cup {page} |->
                            IF q = page THEN new ELSE mapping[q]]
                    ELSE mapping
      /\ UNCHANGED on

Unmap(v, noResult) ==
  LET page == v \div PageBytes
      granted == on /\ ~ noResult /\ InWindow(v) /\ page \in Mapped
  IN  /\ asked' = [op |-> "unmap", v |-> v, noResult |-> noResult]
      /\ answer' = IF granted THEN Yes(mapping[page].frame * PageBytes) ELSE No
      /\ mapping' = IF granted THEN [q \in Mapped \ {page} |-> mapping[q]] ELSE mapping
      /\ UNCHANGED on

Next == \/ SwitchOn
        \/ \E r \in MapRequests : Map(r[1], r[2], r[3])
        \/ \E r \in UnmapRequests : Unmap(r[1], r[2])

Spec == Init /\ [][Next]_spaceVars
===============================================================================
