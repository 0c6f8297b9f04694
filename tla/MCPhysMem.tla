------------------------------ MODULE MCPhysMem ------------------------------
(* Small memory maps: up to three regions with ends on and off the page    *)
(* boundary, some too short for a request, some reserved, some adjacent.   *)
EXTENDS PhysMem

Region == [base : 1 .. 11, length : {1, 3, 4, 5, 8}, usable : BOOLEAN]
FewRegions == [base : {1, 4, 6, 10, 12}, length : {2, 5, 6, 8}, usable : BOOLEAN]

Ascending(map) == \A i \in 1 .. Len(map) - 1 : map[i].base + map[i].length <= map[i + 1].base

SmallMaps == {map \in [1 .. 2 -> Region] \cup [1 .. 3 -> FewRegions] : Ascending(map)}
=============================================================================
