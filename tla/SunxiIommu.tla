----------------------------- MODULE SunxiIommu -----------------------------
(***************************************************************************)
(* The sunxi IOMMU (sunxi-iommu-v1.c, -v2.c, -v3.c, -pgtable.c): a         *)
(* two-level page table the CPU edits under dt_lock, and a TLB and a page  *)
(* table walk (PTW) cache the hardware fills behind the CPU's back.  The   *)
(* three drivers run the same protocol; V2's hardware has two sets, each   *)
(* with caches and masters of its own, over the one page table.            *)
(*                                                                         *)
(* Addresses are counted in pages (SPAGE_SIZE = 1) and a page directory    *)
(* entry covers NPte pages (SPD_SIZE = NPte).  A client is a user of the   *)
(* DMA API with one buffer at a time: the core gives it an iova range,     *)
(* maps it block by block, syncs, and later unmaps it block by block and   *)
(* syncs again.  Masters (VE, DE, ...) only touch live buffers.            *)
(*                                                                         *)
(* One action is what happens between two points at which the hardware can *)
(* see the difference: the CPU side is serialised by dt_lock.              *)
(***************************************************************************)
EXTENDS Integers, FiniteSets, Functions

CONSTANTS
    Clients,     \* users of the DMA API
    NPde,        \* NUM_ENTRIES_PDE
    NPte,        \* NUM_ENTRIES_PTE
    PgSizes,     \* pgsize_bitmap, in pages
    Bases,       \* bound: first physical pages a buffer can have, per driver
    MaxLen,      \* bound: pages in a buffer, per driver
    Tables,      \* second-level tables the iopte cache can provide
    Hardware     \* drivers and SoCs considered: [driver, version], 12 for V12

NPages == NPde * NPte
Pages  == 0 .. NPages - 1
Pdes   == 0 .. NPde - 1
Ptes   == 0 .. NPte - 1

NoTable == "notable"
NoFrame == -1
Junk    == -2     \* what a walk of a freed table reads
None    == "none"
HwSets  == {0, 1} \* IOMMU_HW_SET_COUNT; V1 and V3 have set 0 only

ASSUME SizesAssumption ==
    /\ NPde \in Nat \ {0} /\ NPte \in Nat \ {0}
    /\ PgSizes \subseteq Nat \ {0} /\ 1 \in PgSizes
    \* Blocks up to a directory entry divide it, larger ones are multiples.
    /\ \A n \in PgSizes : NPte % n = 0 \/ n % NPte = 0
ASSUME HardwareAssumption ==
    Hardware \subseteq [driver : {"v1", "v2", "v3"}, version : 10 .. 15]
ASSUME FramesAssumption ==
    /\ Bases \in [{"v1", "v2", "v3"} -> SUBSET Nat]
    /\ MaxLen \in [{"v1", "v2", "v3"} -> Nat]
ASSUME NamesAssumption == NoTable \notin Tables /\ None \notin Clients

VARIABLES
    hw,       \* the driver built and plat_data->version of its SoC
    dir,      \* page directory: Pdes -> table
    tab,      \* contents of the second-level tables
    free,     \* tables the iopte cache holds
    tlb,      \* TLB of each set: page -> frame
    ptw,      \* PTW cache of each set: directory index -> table
    dt_lock,  \* sunxi_domain->dt_lock
    pc,       \* where each client is
    buf,      \* its buffer [lo, hi, base]: iova pages lo .. hi-1
    pos,      \* iova_start of its loop
    chunk,    \* iova_start of the chunk it has just deleted
    bend,     \* iova_end of the block it is unmapping
    gather    \* its iommu_iotlb_gather

table  == <<dir, tab, free>>
caches == <<tlb, ptw>>
client == <<pc, buf, pos, chunk, bend, gather>>
vars   == <<hw, table, caches, dt_lock, client>>

version == hw.version
Sets    == IF hw.driver = "v2" THEN HwSets ELSE {0}

NoBuf       == [lo |-> 0, hi |-> 0, base |-> 0]
EmptyGather == [start |-> NPages, end |-> 0]
Owned(c)    == buf[c].lo .. buf[c].hi - 1
FrameOf(c, p) == buf[c].base + (p - buf[c].lo)

PcStates == {"idle", "map", "syncmap", "syncmap2", "live", "unmap",
             "clear", "ptwinv", "sync", "sync2"}

-----------------------------------------------------------------------------
(* The page table: sunxi-iommu-pgtable.c.                                  *)

IOPDE_INDEX(p) == (p \div NPte) % NPde
IOPTE_INDEX(p) == p % NPte

\* sunxi_pgtable_iova_to_phys
IovaToPhys(p) ==
    IF dir[IOPDE_INDEX(p)] = NoTable THEN NoFrame
    ELSE tab[dir[IOPDE_INDEX(p)]][IOPTE_INDEX(p)]

\* The directory entries sunxi_pgtable_prepare_l1_tables has visited after k
\* turns from page p: p, p + SPD_SIZE, p + 2 * SPD_SIZE, ...
L1Visited(p, k) == {IOPDE_INDEX(p + j * NPte) : j \in 0 .. k - 1}

\* Its turns for a block of n pages: up to and including iova_end.
L1Turns(n) == n \div NPte + 1

\* The entries among the first k that need a table.
Missing(p, k) == {d \in L1Visited(p, k) : dir[d] = NoTable}

\* sunxi_alloc_iopte for the entries of D: a zeroed table each.
AllocTables(D, f) ==
    /\ dir' = [d \in Pdes |-> IF d \in D THEN f[d] ELSE dir[d]]
    /\ free' = free \ Range(f)

Zeroed == [i \in Ptes |-> NoFrame]

\* The contents after prepare_l2_tables has written the frames of the pages in
\* DOMAIN frames; the new tables (those of T) start zeroed.
Filled(T, frames) ==
    [t \in Tables |-> [i \in Ptes |->
        LET here == {p \in DOMAIN frames : dir'[IOPDE_INDEX(p)] = t
                                           /\ IOPTE_INDEX(p) = i}
        IN  IF here # {} THEN frames[CHOOSE p \in here : TRUE]
            ELSE IF t \in T THEN NoFrame ELSE tab[t][i]]]

\* Faulty variant: the chunk is not cut off at iova_end.
TailUnclamped(p, end) == NPte - IOPTE_INDEX(p)

\* Pages sunxi_pgtable_delete_l2_tables handles in one call.
Tail(p, end) == IF p + (NPte - IOPTE_INDEX(p)) > end THEN end - p
                ELSE NPte - IOPTE_INDEX(p)

-----------------------------------------------------------------------------
(* Cache maintenance.                                                      *)

\* A TLB without the pages of P, a PTW cache without their directory entries.
TlbWithout(t, P) == [p \in Pages |-> IF p \in P THEN NoFrame ELSE t[p]]
PtwWithout(w, P) ==
    [d \in Pdes |-> IF \E p \in P : IOPDE_INDEX(p) = d THEN NoTable ELSE w[d]]

\* sunxi_tlb_invalid for the pages of P.  V2 starts the invalidation in both
\* sets (WRITE_EQUAL_REG) and waits for both.
DropTlbV1(P) == [tlb EXCEPT ![0] = TlbWithout(@, P)]

\* Faulty variant: a plain register write reaches set 0 only.
DropTlbV2First(P) == [tlb EXCEPT ![0] = TlbWithout(@, P)]

DropTlbV2(P) == [s \in HwSets |-> TlbWithout(tlb[s], P)]
DropTlbV3(P) == [tlb EXCEPT ![0] = TlbWithout(@, P)]
DropTlb(P) == CASE hw.driver = "v1" -> DropTlbV1(P)
                [] hw.driver = "v2" -> DropTlbV2(P)
                [] hw.driver = "v3" -> DropTlbV3(P)

\* sunxi_ptw_cache_invalid for the directory entries of the pages P.
DropPtwV1(P) == [ptw EXCEPT ![0] = PtwWithout(@, P)]
DropPtwV2(P) == [s \in HwSets |-> PtwWithout(ptw[s], P)]
DropPtwV3(P) == [ptw EXCEPT ![0] = PtwWithout(@, P)]
DropPtw(P) == CASE hw.driver = "v1" -> DropPtwV1(P)
                [] hw.driver = "v2" -> DropPtwV2(P)
                [] hw.driver = "v3" -> DropPtwV3(P)

\* The pages sunxi_zap_tlb drops from the TLB for iova a and size n.
ZapPages(a, n) ==
    IF version <= 11
    THEN {a, a + 1, a + n, a + n + 1}
    ELSE (a .. a + 1) \cup (a + n - 1 .. a + n + 7)

\* The addresses it passes to sunxi_ptw_cache_invalid.
ZapWalks(a, n) ==
    CASE version <= 11 -> {a, a + NPte, a + n, a + n + NPte}
      [] version \in 12 .. 13 ->
           {a, a + n, a + NPte, a + n + NPte, a + n + 2 * NPte}
      [] OTHER -> (a .. a + NPte - 1) \cup (a + n - NPte .. a + n - 1)

-----------------------------------------------------------------------------
(* The clients: iommu core, map.                                           *)

Init ==
    /\ hw \in Hardware
    /\ dir = [d \in Pdes |-> NoTable]
    /\ tab = [t \in Tables |-> Zeroed]
    /\ free = Tables
    /\ tlb = [s \in HwSets |-> [p \in Pages |-> NoFrame]]
    /\ ptw = [s \in HwSets |-> [d \in Pdes |-> NoTable]]
    /\ dt_lock = None
    /\ pc = [c \in Clients |-> "idle"]
    /\ buf = [c \in Clients |-> NoBuf]
    /\ pos = [c \in Clients |-> 0]
    /\ chunk = [c \in Clients |-> 0]
    /\ bend = [c \in Clients |-> 0]
    /\ gather = [c \in Clients |-> EmptyGather]

\* The iova allocator hands out a range no other client owns.
AllocIova(c) ==
    /\ pc[c] = "idle"
    /\ \E lo \in Pages, n \in 1 .. MaxLen[hw.driver], base \in Bases[hw.driver] :
         /\ lo + n <= NPages
         /\ \A o \in Clients \ {c} : Owned(o) \cap (lo .. lo + n - 1) = {}
         /\ buf' = [buf EXCEPT ![c] = [lo |-> lo, hi |-> lo + n, base |-> base]]
         /\ pos' = [pos EXCEPT ![c] = lo]
    /\ pc' = [pc EXCEPT ![c] = "map"]
    /\ UNCHANGED <<hw, table, caches, dt_lock, chunk, bend, gather>>

\* The core maps a block at a time: a page size that pos and the physical
\* address are aligned to and that still fits.  sunxi_iommu_map.
Map(c) ==
    /\ pc[c] = "map"
    /\ dt_lock = None
    /\ \E n \in PgSizes :
         /\ pos[c] % n = 0 /\ pos[c] + n <= buf[c].hi
         /\ LET D == Missing(pos[c], L1Turns(n)) IN
            \E f \in [D -> free] :
              /\ IsInjective(f)
              /\ AllocTables(D, f)
              /\ tab' = Filled(Range(f), [p \in pos[c] .. pos[c] + n - 1 |-> FrameOf(c, p)])
         /\ pos' = [pos EXCEPT ![c] = @ + n]
         /\ pc' = [pc EXCEPT ![c] = IF pos[c] + n = buf[c].hi THEN "syncmap" ELSE "map"]
    /\ UNCHANGED <<hw, caches, dt_lock, buf, chunk, bend, gather>>

\* kmem_cache_zalloc fails for one of the tables: those allocated before it
\* stay, and the core unmaps the blocks it has mapped so far (hi is cut to them;
\* the rest of the range was never mapped).
MapFails(c) ==
    /\ pc[c] = "map"
    /\ dt_lock = None
    /\ \E n \in PgSizes :
         /\ pos[c] % n = 0 /\ pos[c] + n <= buf[c].hi
         /\ \E k \in 0 .. L1Turns(n) - 1 :
              /\ dir[IOPDE_INDEX(pos[c] + k * NPte)] = NoTable
              /\ LET D == Missing(pos[c], k) IN
                 \E f \in [D -> free] :
                   /\ IsInjective(f)
                   /\ AllocTables(D, f)
                   /\ tab' = Filled(Range(f), <<>>)
    /\ buf' = [buf EXCEPT ![c].hi = pos[c]]
    /\ pos' = [pos EXCEPT ![c] = buf[c].lo]
    /\ pc' = [pc EXCEPT ![c] = IF pos[c] = buf[c].lo THEN "sync" ELSE "unmap"]
    /\ UNCHANGED <<hw, caches, dt_lock, chunk, bend, gather>>

\* sunxi_iommu_iotlb_sync_map: zap the TLB, then the PTW cache.
SyncMap(c) ==
    /\ pc[c] = "syncmap"
    /\ dt_lock = None
    /\ dt_lock' = c
    /\ tlb' = DropTlb(ZapPages(buf[c].lo, buf[c].hi - buf[c].lo))
    /\ pc' = [pc EXCEPT ![c] = "syncmap2"]
    /\ UNCHANGED <<hw, table, ptw, buf, pos, chunk, bend, gather>>

SyncMapPtw(c) ==
    /\ pc[c] = "syncmap2"
    /\ dt_lock' = None
    /\ ptw' = DropPtw(ZapWalks(buf[c].lo, buf[c].hi - buf[c].lo))
    /\ pc' = [pc EXCEPT ![c] = "live"]
    /\ pos' = [pos EXCEPT ![c] = buf[c].lo]
    /\ UNCHANGED <<hw, table, tlb, buf, chunk, bend, gather>>

-----------------------------------------------------------------------------
(* The clients: unmap.                                                     *)

\* The block the core unmaps at p: the largest page size that fits.
UnmapSize(p, hi) ==
    CHOOSE n \in PgSizes :
      /\ p % n = 0 /\ p + n <= hi
      /\ \A k \in PgSizes : (p % k = 0 /\ p + k <= hi) => k <= n

\* Faulty variant: the TLB is left to sunxi_iommu_iotlb_sync.
UnmapKeepsTlb(c) ==
    /\ pc[c] \in {"live", "unmap"}
    /\ dt_lock = None
    /\ dt_lock' = c
    /\ LET end == pos[c] + UnmapSize(pos[c], buf[c].hi) IN
         /\ gather' = [gather EXCEPT ![c] =
                [start |-> IF @.start > pos[c] THEN pos[c] ELSE @.start,
                 end   |-> IF @.end < end THEN end ELSE @.end]]
         /\ bend' = [bend EXCEPT ![c] = end]
         /\ ptw' = IF version >= 14 THEN DropPtw(pos[c] .. end - 1) ELSE ptw
    /\ pc' = [pc EXCEPT ![c] = "clear"]
    /\ UNCHANGED <<hw, table, tlb, buf, pos, chunk>>

\* sunxi_iommu_unmap up to its loop: the gather, and the invalidations that
\* come before the table is changed.
Unmap(c) ==
    /\ pc[c] \in {"live", "unmap"}
    /\ dt_lock = None
    /\ dt_lock' = c
    /\ LET end == pos[c] + UnmapSize(pos[c], buf[c].hi) IN
         /\ gather' = [gather EXCEPT ![c] =
                [start |-> IF @.start > pos[c] THEN pos[c] ELSE @.start,
                 end   |-> IF @.end < end THEN end ELSE @.end]]
         /\ bend' = [bend EXCEPT ![c] = end]
         /\ tlb' = IF version >= 12 THEN DropTlb(pos[c] .. end - 1) ELSE tlb
         /\ ptw' = IF version >= 14 THEN DropPtw(pos[c] .. end - 1) ELSE ptw
    /\ pc' = [pc EXCEPT ![c] = "clear"]
    /\ UNCHANGED <<hw, table, buf, pos, chunk>>

\* Where the loop of sunxi_iommu_unmap goes with iova_start at p.
UnmapLoop(c, p) ==
    /\ dt_lock' = IF p < bend[c] THEN c ELSE None
    /\ pc' = [pc EXCEPT ![c] = CASE p < bend[c] -> "clear"
                                 [] p >= bend[c] /\ p < buf[c].hi -> "unmap"
                                 [] OTHER -> "sync"]

\* Faulty variant: the table is freed but its directory entry stays.
DeleteL2KeepsDent(c) ==
    LET d == IOPDE_INDEX(pos[c])
        t == dir[d]
        n == Tail(pos[c], bend[c])
        gone == {IOPTE_INDEX(p) : p \in pos[c] .. pos[c] + n - 1}
    IN  IF t = NoTable THEN UNCHANGED table
        ELSE /\ tab' = [tab EXCEPT ![t] =
                           [i \in Ptes |-> IF i \in gone THEN NoFrame ELSE @[i]]]
             /\ free' = IF n = NPte THEN free \cup {t} ELSE free
             /\ UNCHANGED dir

\* sunxi_pgtable_delete_l2_tables for the chunk at pos: zero its entries, and
\* if the chunk is a whole directory entry drop the entry and free the table.
DeleteL2(c) ==
    LET d == IOPDE_INDEX(pos[c])
        t == dir[d]
        n == Tail(pos[c], bend[c])
        gone == {IOPTE_INDEX(p) : p \in pos[c] .. pos[c] + n - 1}
    IN  IF t = NoTable THEN UNCHANGED table
        ELSE IF n = NPte
        THEN /\ dir' = [dir EXCEPT ![d] = NoTable]
             /\ tab' = [tab EXCEPT ![t] = [i \in Ptes |-> Junk]]
             /\ free' = free \cup {t}
        ELSE /\ tab' = [tab EXCEPT ![t] =
                           [i \in Ptes |-> IF i \in gone THEN NoFrame ELSE @[i]]]
             /\ UNCHANGED <<dir, free>>

\* Faulty variant: the loop steps by SPD_SIZE whatever the chunk was.
AfterChunkWhole(c) == pos[c] + NPte

\* Where the loop goes next: an absent directory entry makes delete_l2 return
\* -EINVAL, which the u32 tail size turns into a step past the end.
AfterChunk(c) == IF dir[IOPDE_INDEX(pos[c])] = NoTable THEN bend[c]
                 ELSE pos[c] + Tail(pos[c], bend[c])

Clear(c) ==
    /\ pc[c] = "clear"
    /\ DeleteL2(c)
    /\ chunk' = [chunk EXCEPT ![c] = pos[c]]
    /\ pos' = [pos EXCEPT ![c] = AfterChunk(c)]
    /\ IF version < 14
       THEN /\ pc' = [pc EXCEPT ![c] = "ptwinv"]
            /\ UNCHANGED dt_lock
       ELSE UnmapLoop(c, AfterChunk(c))
    /\ UNCHANGED <<hw, caches, buf, bend, gather>>

\* Faulty variant: the directory entry stays in the PTW cache.
PtwInvalidSkipped(c) ==
    /\ pc[c] = "ptwinv"
    /\ UnmapLoop(c, pos[c])
    /\ UNCHANGED <<hw, table, caches, buf, pos, chunk, bend, gather>>

\* Before V14: drop the chunk's directory entry from the PTW cache, after the
\* table it leads to has been freed.
PtwInvalid(c) ==
    /\ pc[c] = "ptwinv"
    /\ ptw' = DropPtw({chunk[c]})
    /\ UnmapLoop(c, pos[c])
    /\ UNCHANGED <<hw, table, tlb, buf, pos, chunk, bend, gather>>

\* The core gives the iova range back.
Done(c) ==
    /\ pc' = [pc EXCEPT ![c] = "idle"]
    /\ buf' = [buf EXCEPT ![c] = NoBuf]
    /\ pos' = [pos EXCEPT ![c] = 0]
    /\ chunk' = [chunk EXCEPT ![c] = 0]
    /\ bend' = [bend EXCEPT ![c] = 0]
    /\ gather' = [gather EXCEPT ![c] = EmptyGather]

\* sunxi_iommu_iotlb_sync.  From V14 on it returns at once.  The core's empty
\* gather (nothing was unmapped) names no page of the aperture.
Sync(c) ==
    /\ pc[c] = "sync"
    /\ IF version >= 14
       THEN Done(c) /\ UNCHANGED <<tlb, dt_lock>>
       ELSE /\ dt_lock = None
            /\ dt_lock' = c
            /\ LET g == gather[c] IN
               tlb' = DropTlb(IF g.start < g.end
                              THEN ZapPages(g.start, g.end - g.start) ELSE {})
            /\ pc' = [pc EXCEPT ![c] = "sync2"]
            /\ UNCHANGED <<buf, pos, chunk, bend, gather>>
    /\ UNCHANGED <<hw, table, ptw>>

\* The rest of sunxi_zap_tlb.
SyncPtw(c) ==
    /\ pc[c] = "sync2"
    /\ dt_lock' = None
    /\ LET g == gather[c] IN
       ptw' = DropPtw(IF g.start < g.end
                      THEN ZapWalks(g.start, g.end - g.start) ELSE {})
    /\ Done(c)
    /\ UNCHANGED <<hw, table, tlb>>

-----------------------------------------------------------------------------
(* The hardware: masters and the fault interrupt.                          *)

\* The table a walk for page p in set s reads: the cached entry wins.
WalkTable(s, p) == LET d == IOPDE_INDEX(p)
                   IN  IF ptw[s][d] # NoTable THEN ptw[s][d] ELSE dir[d]
WalkEntry(s, p) == IF WalkTable(s, p) = NoTable THEN NoFrame
                   ELSE tab[WalkTable(s, p)][IOPTE_INDEX(p)]

\* A TLB miss on p that finds a translation.
Fill(s, p) ==
    /\ tlb[s][p] = NoFrame
    /\ WalkEntry(s, p) # NoFrame
    /\ tlb' = [tlb EXCEPT ![s][p] = WalkEntry(s, p)]
    /\ ptw' = [ptw EXCEPT ![s][IOPDE_INDEX(p)] = WalkTable(s, p)]
    /\ UNCHANGED <<hw, table, dt_lock, client>>

Live(p) == \E c \in Clients : pc[c] = "live" /\ p \in Owned(c)

\* A master of set s touches a page of a live buffer.
Access(s, p) == s \in Sets /\ Live(p) /\ Fill(s, p)

\* The fault interrupt drops the neighbourhood of the page that faulted from
\* the caches of the set it comes from.
FaultDrops(s, p) ==
    /\ tlb[s][p] = NoFrame
    /\ WalkEntry(s, p) = NoFrame
    /\ tlb' = [tlb EXCEPT ![s] =
                 TlbWithout(@, IF version <= 11 THEN {p, p + 2} ELSE p .. p + 3)]
    /\ ptw' = [ptw EXCEPT ![s] =
                 PtwWithout(@, IF version <= 13 THEN {p, p + 2 * NPte}
                               ELSE p .. p + 2 * NPte - 1)]
    /\ UNCHANGED <<hw, table, dt_lock, client>>

\* An errant access of a master finds no translation: sunxi_iommu_irq.  V2
\* requests one interrupt per set.
FaultV1(p) == hw.driver = "v1" /\ FaultDrops(0, p)
FaultV2(p) == hw.driver = "v2" /\ \E s \in HwSets : FaultDrops(s, p)
FaultV3(p) == hw.driver = "v3" /\ FaultDrops(0, p)

\* A client inside map, unmap, iotlb_sync_map or iotlb_sync of its driver.
\* V2 and V3 are built from the same code as V1.
ClientStep(c) ==
    \/ Map(c) \/ MapFails(c) \/ SyncMap(c) \/ SyncMapPtw(c)
    \/ Unmap(c) \/ Clear(c) \/ PtwInvalid(c) \/ Sync(c) \/ SyncPtw(c)
ClientV1(c) == hw.driver = "v1" /\ ClientStep(c)
ClientV2(c) == hw.driver = "v2" /\ ClientStep(c)
ClientV3(c) == hw.driver = "v3" /\ ClientStep(c)

Next ==
    \/ \E c \in Clients :
         AllocIova(c) \/ ClientV1(c) \/ ClientV2(c) \/ ClientV3(c)
    \/ \E p \in Pages :
         \/ FaultV1(p) \/ FaultV2(p) \/ FaultV3(p)
         \/ \E s \in HwSets : Access(s, p)

Spec == Init /\ [][Next]_vars

-----------------------------------------------------------------------------
(* Properties.                                                             *)

FrameSet == {b + i : b \in Bases[hw.driver], i \in 0 .. MaxLen[hw.driver] - 1}

\* Every variable keeps its type; a PTE in use never holds the contents of a
\* freed table.
TypeOK ==
    /\ hw \in Hardware
    /\ dir \in [Pdes -> Tables \cup {NoTable}]
    /\ tab \in [Tables -> [Ptes -> FrameSet \cup {NoFrame, Junk}]]
    /\ free \subseteq Tables
    /\ tlb \in [HwSets -> [Pages -> FrameSet \cup {NoFrame, Junk}]]
    /\ ptw \in [HwSets -> [Pdes -> Tables \cup {NoTable}]]
    /\ dt_lock \in Clients \cup {None}
    /\ pc \in [Clients -> PcStates]
    /\ buf \in [Clients -> [lo : 0 .. NPages, hi : 0 .. NPages, base : Bases[hw.driver] \cup {0}]]
    /\ pos \in [Clients -> 0 .. NPages]
    /\ chunk \in [Clients -> 0 .. NPages]
    /\ bend \in [Clients -> 0 .. NPages]
    /\ gather \in [Clients -> [start : 0 .. NPages, end : 0 .. NPages]]

\* The iopte cache and the page directory share the tables out: a table is
\* either free or hangs under exactly one directory entry, whatever the order
\* of maps, failed maps and unmaps of several clients (sunxi_alloc_iopte,
\* delete_l2_tables).
TablesShared ==
    /\ \A t \in Tables : t \in free <=> \A d \in Pdes : dir[d] # t
    /\ \A d, e \in Pdes : dir[d] = dir[e] /\ dir[d] # NoTable => d = e

\* The pages of c's buffer that its loops have mapped and not unmapped.
Mapped(c) ==
    CASE pc[c] = "map" -> buf[c].lo .. pos[c] - 1
      [] pc[c] \in {"syncmap", "syncmap2", "live"} -> Owned(c)
      [] pc[c] \in {"unmap", "clear", "ptwinv"} -> pos[c] .. buf[c].hi - 1
      [] OTHER -> {}

\* The page table says exactly what the clients asked for: iova_to_phys gives
\* each mapped page its physical page, and a page nobody has mapped has no
\* entry, so that the WARN_ON in prepare_l2_tables never fires and no old
\* translation comes back with a new directory.
TableExact ==
    \A p \in Pages :
      /\ \A c \in Clients : p \in Mapped(c) => IovaToPhys(p) = FrameOf(c, p)
      /\ (\A c \in Clients : p \notin Mapped(c)) => IovaToPhys(p) = NoFrame

\* DMA goes where the DMA API says: for a page of a live buffer the TLB of
\* every set holds nothing or the buffer's physical page, and its PTW cache
\* nothing or the directory's table (the invalidations of unmap and sync).
DmaGoesHome ==
    \A c \in Clients : pc[c] = "live" =>
      \A p \in Owned(c), s \in HwSets :
        /\ tlb[s][p] \in {NoFrame, FrameOf(c, p)}
        /\ ptw[s][IOPDE_INDEX(p)] \in {NoTable, dir[IOPDE_INDEX(p)]}

\* Once sunxi_iommu_iotlb_sync has returned and the iova range is given back,
\* no cache of any set holds a translation for it.
UnmapInvalidates ==
    \A p \in Pages : (\A c \in Clients : p \notin Owned(c))
                     => \A s \in HwSets : tlb[s][p] = NoFrame

\* No PTW cache leads to a freed table, except while the client that freed it
\* still holds dt_lock on its way to sunxi_ptw_cache_invalid.
FreedTableUncached ==
    \A d \in Pdes, s \in HwSets :
      \/ ptw[s][d] \in {NoTable, dir[d]}
      \/ \E c \in Clients : pc[c] = "ptwinv" /\ IOPDE_INDEX(chunk[c]) = d
=============================================================================
