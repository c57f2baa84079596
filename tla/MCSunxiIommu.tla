---------------------------- MODULE MCSunxiIommu ----------------------------
(* Constants of the TLC runs of SunxiIommu. *)
EXTENDS SunxiIommu, TLC

\* V1 on the H618 (V12) and on the V15 SoCs, whose protocol differs; V2 and V3
\* take their version from the device tree.
AllDrivers == {[driver |-> "v1", version |-> 12], [driver |-> "v1", version |-> 15],
               [driver |-> "v2", version |-> 14], [driver |-> "v3", version |-> 13]}

\* Long buffers in blocks of four pages with V1; both sets of caches with V2;
\* buffers at the same iova with other physical pages with V3.
LenOf == [v1 |-> 4, v2 |-> 2, v3 |-> 2]
BasesOf == [v1 |-> {0}, v2 |-> {0}, v3 |-> {0, 10}]

\* Clients and tables are interchangeable.
Sym == Permutations(Clients) \cup Permutations(Tables)
=============================================================================
