------------------------------ MODULE IommuPte ------------------------------
(***************************************************************************)
(* How sunxi-iommu-pgtable.[ch] stores a physical address in a page table  *)
(* word and reads it back: the wrap of high DRAM below PHYS_OFFSET, the    *)
(* 32-bit truncation, the two high bits of the V2 format, and the          *)
(* additions prepare_l2_tables makes on a finished entry.                  *)
(*                                                                         *)
(* The widths are constants (32, 34, 12 and 8 in the code), so that TLC    *)
(* can visit every address of a narrower machine.                          *)
(***************************************************************************)
EXTENDS Integers, FiniteSets

CONSTANTS
    WordBits,    \* bits of a table word: u32
    PtShift,     \* IOMMU_PT_SHIFT
    HighShift,   \* SUNXI_PTE_PAGE_ADDR_HIGH_SHIFT, DENT_ADDR_HIGH_SHIFT
    Formats,     \* table formats [high, tab]: the number of physical address
                 \* bits kept apart, 0 (V1) or 2 (V2), and log2 of PT_SIZE
    NPte,        \* NUM_ENTRIES_PTE
    PgSizes      \* pgsize_bitmap, in pages

ASSUME WidthAssumption ==
    /\ {WordBits, PtShift, HighShift} \subseteq Nat
    /\ 4 <= HighShift /\ PtShift + 2 < WordBits
    /\ \A f \in Formats :
         /\ f.high \in Nat /\ HighShift + f.high <= PtShift
         /\ f.tab \in 2 .. PtShift
         /\ f.high = 0 \/ f.tab >= HighShift + f.high
    /\ NPte \in Nat \ {0}
    /\ \A n \in PgSizes :       \* none goes past the range of a word
         /\ n \in Nat \ {0} /\ (NPte % n = 0 \/ n % NPte = 0)
         /\ 2^WordBits % (n * 2^PtShift) = 0

VARIABLES
    format, \* the format the driver was built for
    in,    \* the block being mapped and the address of its table:
           \* [paddr, n, first, prot, table]
    pte,   \* the words prepare_l2_tables wrote for its pages
    dent   \* the directory word of the table

pteVars == <<format, in, pte, dent>>

HighBits    == format.high
TabShift    == format.tab
VaBits      == WordBits + HighBits         \* IOMMU_VA_BITS
PhysOffset  == 2^(WordBits - 2)            \* SUNXI_PHYS_OFFSET
Word        == 2^WordBits
SPAGE_SIZE  == 2^PtShift

-----------------------------------------------------------------------------
\* The physical addresses the format can hold: DRAM starts at PhysOffset, and
\* its last part is reached through the iommu addresses below PhysOffset.
CpuPages == {a \in PhysOffset .. PhysOffset + 2^VaBits - 1 : a % SPAGE_SIZE = 0}

iommu_phy_to_cpu_phy(a) == IF a < PhysOffset THEN a + 2^VaBits ELSE a

cpu_phy_to_iommu_phy(a) == IF a > 2^VaBits THEN a - 2^VaBits ELSE a

ReadBit  == 4
WriteBit == 8
ValidBit == 2
Flags(prot) == (IF "r" \in prot THEN ReadBit ELSE 0)
               + (IF "w" \in prot THEN WriteBit ELSE 0)

\* The two address bits above the word, at HighShift.
High(a) == ((a \div Word) % 2^HighBits) * 2^HighShift

\* The masked page, its high bits and the flags occupy different bits, so that
\* the code's "|" is a sum; the u32 result drops what is above the word.
sunxi_mk_pte(page, prot) ==
    ((page - (page % SPAGE_SIZE)) % Word) + High(page) + Flags(prot) + ValidBit

IOPTE_TO_PFN(ent) ==
    (ent - (ent % SPAGE_SIZE))
    + ((ent \div 2^HighShift) % 2^HighBits) * Word

\* iova_start of the chunk page i of the block falls into, relative to the
\* block, when the block starts at entry first of a table.
ChunkStart(first, i) ==
    IF i < NPte - first THEN 0
    ELSE (NPte - first) + ((i - (NPte - first)) \div NPte) * NPte

\* Faulty variant: the first entry is counted up across tables and through the
\* flags.
L2EntryCounted(paddr, first, i, prot) ==
    (sunxi_mk_pte(cpu_phy_to_iommu_phy(paddr), prot) + i) % Word

\* prepare_l2_tables: one entry is built per chunk, the others count up.
L2Entry(paddr, first, i, prot) ==
    LET cs == ChunkStart(first, i)
        start == cpu_phy_to_iommu_phy(paddr) + cs * SPAGE_SIZE
    IN  (sunxi_mk_pte(start, prot) + SPAGE_SIZE * (i - cs)) % Word

\* iova_to_phys of an entry, without the offset in the page.
EntryToCpu(ent) == iommu_phy_to_cpu_phy(IOPTE_TO_PFN(ent))

\* sunxi_alloc_iopte: the directory word for a table at address a.
Dent(a) == ((cpu_phy_to_iommu_phy(a) % Word) + High(a) + 1) % Word

\* iopte_offset: the table address a directory word leads to.
DentToTable(w) ==
    iommu_phy_to_cpu_phy((w - (w % 2^TabShift))
                         + ((w \div 2^HighShift) % 2^HighBits) * Word)

-----------------------------------------------------------------------------
NoBlock == [paddr |-> 0, n |-> 0, first |-> 0, prot |-> {}, table |-> 0]

PteInit == format \in Formats /\ in = NoBlock /\ pte = <<>> /\ dent = 0

\* The core maps a block of n pages: its physical address and its iova are
\* multiples of the block size.  The table lies anywhere in DRAM.
MapBlock ==
    /\ in = NoBlock
    /\ \E n \in PgSizes, first \in 0 .. NPte - 1, prot \in SUBSET {"r", "w"},
          a \in CpuPages, k \in 0 .. 2^(PtShift - TabShift) - 1 :
         /\ a % (n * SPAGE_SIZE) = 0 /\ first % n = 0
         /\ a + n * SPAGE_SIZE <= PhysOffset + 2^VaBits
         /\ in' = [paddr |-> a, n |-> n, first |-> first, prot |-> prot,
                   table |-> a + k * 2^TabShift]
         /\ pte' = [i \in 0 .. n - 1 |-> L2Entry(a, first, i, prot)]
         /\ dent' = Dent(in'.table)
    /\ UNCHANGED format

UnmapBlock ==
    /\ in # NoBlock
    /\ in' = NoBlock /\ pte' = <<>> /\ dent' = 0
    /\ UNCHANGED format

PteNext == MapBlock \/ UnmapBlock

PteSpec == PteInit /\ [][PteNext]_pteVars

-----------------------------------------------------------------------------
\* Every word survives its encoding: each page of a block reads back as the
\* physical page it was mapped to, with the control bits of prot, also when DRAM
\* wraps past 2^VaBits and when the entry was counted up from the chunk's first
\* one; and the directory word leads back to the table it was made for
\* (prepare_l2_tables, iova_to_phys, sunxi_alloc_iopte, iopte_offset).
WordsRoundTrip ==
    /\ \A i \in 0 .. in.n - 1 :
         /\ EntryToCpu(pte[i]) = in.paddr + i * SPAGE_SIZE
         /\ pte[i] % 2^HighShift = Flags(in.prot) + ValidBit
    /\ in # NoBlock => dent % 4 = 1 /\ DentToTable(dent) = in.table
=============================================================================
