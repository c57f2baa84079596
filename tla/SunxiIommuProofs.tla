-------------------------- MODULE SunxiIommuProofs --------------------------
(***************************************************************************)
(* Proofs about SunxiIommu: the two-level page table is exactly what the   *)
(* clients asked for, and no cache keeps a translation past its unmap, for *)
(* any number of clients, tables and entries.                              *)
(***************************************************************************)
EXTENDS SunxiIommu, WellFoundedInduction, TLAPS

(***************************************************************************)
(* Division                                                                *)
(***************************************************************************)
LEMMA DivMod ==
    ASSUME NEW n \in Nat \ {0}, NEW p \in Nat
    PROVE  /\ p \div n \in Nat /\ p % n \in 0 .. n - 1
           /\ p = n * (p \div n) + (p % n)
<1>1. p % n \in 0 .. n - 1
  OBVIOUS
<1>2. p \div n \in Int
  OBVIOUS
<1>3. p = n * (p \div n) + (p % n)
  OBVIOUS
<1>4. p \div n >= 0
  BY <1>1, <1>2, <1>3
<1> QED
  BY <1>1, <1>2, <1>3, <1>4

LEMMA Divides ==
    ASSUME NEW n \in Nat \ {0}, NEW p \in Nat, p % n = 0
    PROVE  p \div n \in Nat /\ p = n * (p \div n)
<1>1. p \div n \in Nat /\ p = n * (p \div n) + (p % n)
  BY DivMod, Zenon
<1>2. n * (p \div n) \in Int
  BY <1>1
<1> QED
  BY <1>1, <1>2

LEMMA TimesMono ==
    ASSUME NEW n \in Nat \ {0}, NEW a \in Nat, NEW b \in Nat, a < b
    PROVE  n * a + n <= n * b
OBVIOUS

LEMMA DivModUnique ==
    ASSUME NEW n \in Nat \ {0}, NEW q \in Nat, NEW r \in 0 .. n - 1, NEW p \in Nat, p = n * q + r
    PROVE  p \div n = q /\ p % n = r
<1>1. p = n * (p \div n) + (p % n) /\ p \div n \in Nat /\ p % n \in 0 .. n - 1
  BY DivMod
<1>2. p \div n = q
  <2>1. CASE p \div n < q
    BY <1>1, <2>1, TimesMono
  <2>2. CASE q < p \div n
    BY <1>1, <2>2, TimesMono
  <2> QED
    BY <1>1, <2>1, <2>2
<1> QED
  BY <1>1, <1>2

(***************************************************************************)
(* Pages, directory indexes and table indexes                              *)
(***************************************************************************)
LEMMA Sizes == /\ NPde \in Nat \ {0} /\ NPte \in Nat \ {0}
               /\ NPages \in Nat /\ NPages = NPte * NPde
BY SizesAssumption DEF NPages

\* The index wraps around at the end of the directory.
LEMMA IndexInPdes ==
    ASSUME NEW p \in Nat
    PROVE  IOPDE_INDEX(p) \in Pdes /\ IOPTE_INDEX(p) \in Ptes
<1>1. p \div NPte \in Nat /\ p % NPte \in 0 .. NPte - 1
  BY Sizes, DivMod
<1>2. (p \div NPte) % NPde \in 0 .. NPde - 1
  BY <1>1, Sizes, DivMod
<1> QED
  BY <1>1, <1>2 DEF IOPDE_INDEX, IOPTE_INDEX, Pdes, Ptes

\* A page of the aperture is given by its two indexes.
LEMMA PageSplit ==
    ASSUME NEW p \in Pages
    PROVE  /\ p \in Nat /\ IOPDE_INDEX(p) \in Pdes /\ IOPTE_INDEX(p) \in Ptes
           /\ IOPDE_INDEX(p) = p \div NPte
           /\ p = NPte * IOPDE_INDEX(p) + IOPTE_INDEX(p)
<1>1. p \in Nat /\ p < NPte * NPde
  BY Sizes DEF Pages
<1>2. /\ p \div NPte \in Nat /\ p % NPte \in 0 .. NPte - 1
      /\ p = NPte * (p \div NPte) + (p % NPte)
  BY <1>1, Sizes, DivMod
<1>3. p \div NPte < NPde
  <2>1. CASE NPde = p \div NPte
    BY <1>1, <1>2, <2>1, Sizes
  <2>2. CASE NPde < p \div NPte
    BY <1>1, <1>2, <2>2, Sizes, TimesMono
  <2> QED
    BY <1>2, <2>1, <2>2, Sizes
<1>4. (p \div NPte) % NPde = p \div NPte
  <2>1. p \div NPte \in 0 .. NPde - 1 /\ p \div NPte = NPde * 0 + (p \div NPte)
    BY <1>2, <1>3, Sizes
  <2> HIDE DEF IOPDE_INDEX
  <2> QED
    BY <1>2, <2>1, Sizes, DivModUnique
<1> QED
  BY <1>1, <1>2, <1>4, IndexInPdes DEF IOPDE_INDEX, IOPTE_INDEX

LEMMA PageUnique ==
    ASSUME NEW p \in Pages, NEW q \in Pages,
           IOPDE_INDEX(p) = IOPDE_INDEX(q), IOPTE_INDEX(p) = IOPTE_INDEX(q)
    PROVE  p = q
<1>1. p = NPte * IOPDE_INDEX(p) + IOPTE_INDEX(p)
  BY PageSplit
<1>2. q = NPte * IOPDE_INDEX(q) + IOPTE_INDEX(q)
  BY PageSplit
<1> QED
  BY <1>1, <1>2

\* The pages up to the end of a directory entry share it.
LEMMA SameEntry ==
    ASSUME NEW p \in Nat, NEW x \in Nat, IOPTE_INDEX(p) + x < NPte
    PROVE  IOPDE_INDEX(p + x) = IOPDE_INDEX(p) /\ IOPTE_INDEX(p + x) = IOPTE_INDEX(p) + x
<1> DEFINE q == p \div NPte
           r == p % NPte
<1>1. q \in Nat /\ r \in 0 .. NPte - 1 /\ p = NPte * q + r
  BY Sizes, DivMod
<1>2. r + x < NPte
  BY DEF IOPTE_INDEX
<1> HIDE DEF q, r
<1>3. r + x \in 0 .. NPte - 1 /\ p + x = NPte * q + (r + x) /\ p + x \in Nat
  BY <1>1, <1>2, Sizes
<1>4. (p + x) \div NPte = q /\ (p + x) % NPte = r + x
  <2> DEFINE s == p + x
             i == r + x
  <2>1. i \in 0 .. NPte - 1 /\ s = NPte * q + i /\ s \in Nat /\ q \in Nat
    BY <1>1, <1>3
  <2> HIDE DEF s, i
  <2>2. s \div NPte = q /\ s % NPte = i
    BY <2>1, Sizes, DivModUnique
  <2> QED
    BY <2>2 DEF s, i
<1> QED
  BY <1>4 DEF IOPDE_INDEX, IOPTE_INDEX, q, r

\* From its first page on, an entry is NPte pages long.
LEMMA WholeEntry ==
    ASSUME NEW p \in Pages, IOPTE_INDEX(p) = 0, NEW q \in Pages,
           IOPDE_INDEX(q) = IOPDE_INDEX(p)
    PROVE  q \in p .. p + NPte - 1
<1>1. p = NPte * IOPDE_INDEX(p) /\ IOPDE_INDEX(p) \in Nat /\ p \in Nat
  BY PageSplit, Sizes DEF Pdes
<1>2. q = NPte * IOPDE_INDEX(p) + IOPTE_INDEX(q) /\ IOPTE_INDEX(q) \in 0 .. NPte - 1
  BY PageSplit DEF Ptes
<1> QED
  BY <1>1, <1>2, Sizes

\* Every directory entry has a page.
LEMMA EntryHasPage ==
    ASSUME NEW d \in Pdes
    PROVE  \E p \in Pages : IOPDE_INDEX(p) = d
<1> DEFINE p == NPte * d
<1>1. d \in Nat /\ d < NPde /\ NPte \in Nat \ {0} /\ NPde \in Nat
  BY Sizes DEF Pdes
<1>2. p \in Nat /\ p = NPte * d + 0
  BY <1>1
<1>3. p + NPte <= NPte * NPde
  BY <1>1, TimesMono
<1> HIDE DEF p
<1>4. p \in Pages
  BY <1>1, <1>2, <1>3, Sizes DEF Pages
<1>5. 0 \in 0 .. NPte - 1
  BY <1>1
<1>6. p \div NPte = d
  BY <1>1, <1>2, <1>5, DivModUnique
<1> QED
  BY <1>4, <1>6, PageSplit

\* A block aligned to its size n, with n below the reach of an entry, ends
\* within the entry it starts in.
LEMMA SmallBlock ==
    ASSUME NEW n \in Nat \ {0}, NPte % n = 0, NEW p \in Nat, p % n = 0
    PROVE  (p % NPte) + n <= NPte
<1> DEFINE b == NPte \div n
           a == p \div n
           q == p \div NPte
           r == p % NPte
<1>0. NPte \in Nat
  BY Sizes
<1>1. b \in Nat /\ NPte = n * b
  BY <1>0, Divides, Zenon
<1>2. a \in Nat /\ p = n * a
  BY Divides, Zenon
<1>3. q \in Nat /\ r \in 0 .. NPte - 1 /\ p = NPte * q + r
  BY Sizes, DivMod
<1> HIDE DEF a, b, q, r
<1>4. b * q \in Nat /\ n * (b * q) = NPte * q
  BY <1>1, <1>3, Sizes
<1>5. r = n * a - n * (b * q)
  <2>1. r \in Int /\ NPte * q \in Int /\ n * a = NPte * q + r
    BY <1>2, <1>3, Sizes
  <2> QED
    BY <2>1, <1>4
<1> DEFINE k == a - b * q
<1>6. r = n * k /\ k \in Int
  BY <1>2, <1>4, <1>5
<1> HIDE DEF k
<1>7. k >= 0 /\ k < b
  BY <1>1, <1>3, <1>6, Sizes
<1>8. n * k + n <= n * b
  BY <1>1, <1>6, <1>7, TimesMono
<1> QED
  BY <1>1, <1>6, <1>8 DEF r

\* A block of whole entries starts at the beginning of one.
LEMMA LargeBlock ==
    ASSUME NEW n \in Nat \ {0}, n % NPte = 0, NEW p \in Nat, p % n = 0
    PROVE  p % NPte = 0
<1> DEFINE k == n \div NPte
           a == p \div n
<1>1. k \in Nat /\ n = NPte * k
  BY Sizes, Divides, Zenon
<1>2. a \in Nat /\ p = n * a
  BY Divides, Zenon
<1> HIDE DEF a, k
<1>3. k * a \in Nat /\ p = NPte * (k * a) + 0 /\ 0 \in 0 .. NPte - 1
  BY <1>1, <1>2, Sizes
<1> DEFINE q == k * a
<1> HIDE DEF q
<1>4. q \in Nat /\ p = NPte * q + 0 /\ 0 \in 0 .. NPte - 1
  BY <1>3 DEF q
<1> QED
  BY <1>4, Sizes, DivModUnique

\* prepare_l1_tables visits the entry of every page of the block.
LEMMA BlockVisited ==
    ASSUME NEW n \in PgSizes, NEW p \in Nat, p % n = 0, NEW q \in p .. p + n - 1
    PROVE  IOPDE_INDEX(q) \in L1Visited(p, L1Turns(n))
<1>1. n \in Nat \ {0} /\ (NPte % n = 0 \/ n % NPte = 0)
  BY SizesAssumption
<1> DEFINE x == q - p
<1>2. x \in Nat /\ x < n /\ q = p + x
  BY <1>1
<1> HIDE DEF x
<1>3. n \div NPte \in Nat
  BY <1>1, Sizes, DivMod
<1>4. CASE NPte % n = 0
  <2>1. IOPTE_INDEX(p) + x < NPte
    <3>1. IOPTE_INDEX(p) + n <= NPte
      BY <1>1, <1>4, SmallBlock, Zenon DEF IOPTE_INDEX
    <3>2. IOPTE_INDEX(p) \in Int /\ NPte \in Int
      BY IndexInPdes, Sizes DEF Ptes
    <3> QED
      BY <1>1, <1>2, <3>1, <3>2
  <2>2. IOPDE_INDEX(q) = IOPDE_INDEX(p)
    BY <1>2, <2>1, SameEntry
  <2>3. p + 0 * NPte = p /\ 0 \in 0 .. L1Turns(n) - 1
    BY <1>3, Sizes DEF L1Turns
  <2> QED
    BY <2>2, <2>3 DEF L1Visited
<1>5. CASE n % NPte = 0
  <2> DEFINE k == n \div NPte
             j == x \div NPte
             r == x % NPte
             P == p \div NPte
  <2>1. k \in Nat /\ n = NPte * k
    BY <1>1, <1>5, Sizes, Divides, Zenon
  <2>2. j \in Nat /\ r \in 0 .. NPte - 1 /\ x = NPte * j + r
    BY <1>2, Sizes, DivMod
  <2>3. P \in Nat /\ p = NPte * P
    BY <1>1, <1>5, LargeBlock, Sizes, Divides, Zenon
  <2> HIDE DEF k, j, r, P
  <2>4. j < k
    <3>1. CASE k < j
      BY <1>2, <2>1, <2>2, <3>1, Sizes, TimesMono
    <3>2. CASE k = j
      BY <1>2, <2>1, <2>2, <3>2, Sizes
    <3> QED
      BY <2>1, <2>2, <3>1, <3>2
  <2>5. /\ p + j * NPte = NPte * (P + j) + 0 /\ q = NPte * (P + j) + r
        /\ P + j \in Nat /\ p + j * NPte \in Nat /\ q \in Nat /\ 0 \in 0 .. NPte - 1
    BY <1>2, <2>2, <2>3, Sizes
  <2>6. (p + j * NPte) \div NPte = P + j
    BY <2>5, Sizes, DivModUnique
  <2>7. q \div NPte = P + j
    BY <2>2, <2>5, Sizes, DivModUnique
  <2>8. IOPDE_INDEX(q) = IOPDE_INDEX(p + j * NPte)
    BY <2>6, <2>7 DEF IOPDE_INDEX
  <2>9. j \in 0 .. L1Turns(n) - 1
    BY <2>1, <2>2, <2>4 DEF L1Turns, k
  <2> QED
    BY <2>8, <2>9 DEF L1Visited
<1> QED
  BY <1>1, <1>4, <1>5

LEMMA VisitedInPdes ==
    ASSUME NEW p \in Nat, NEW k
    PROVE  L1Visited(p, k) \subseteq Pdes
<1> SUFFICES ASSUME NEW j \in 0 .. k - 1 PROVE IOPDE_INDEX(p + j * NPte) \in Pdes
  BY DEF L1Visited
<1>1. p + j * NPte \in Nat
  BY Sizes
<1> QED
  BY <1>1, IndexInPdes

(***************************************************************************)
(* The page table: the inductive invariant                                 *)
(***************************************************************************)
ClientTypes ==
    /\ pc \in [Clients -> PcStates]
    /\ buf \in [Clients -> [lo : Nat, hi : Nat, base : Nat]]
    /\ pos \in [Clients -> Nat] /\ chunk \in [Clients -> Nat] /\ bend \in [Clients -> Nat]

TableTypes ==
    /\ dir \in [Pdes -> Tables \cup {NoTable}]
    /\ tab \in [Tables -> [Ptes -> Int]]
    /\ free \subseteq Tables

\* Where the loops of the core and of sunxi_iommu_unmap are in the buffer.
Loop(c) ==
    /\ buf[c].lo <= buf[c].hi /\ buf[c].hi <= NPages
    /\ pc[c] = "idle" => buf[c].lo = buf[c].hi
    /\ pc[c] \in {"syncmap", "syncmap2"} => buf[c].lo < buf[c].hi
    /\ pc[c] = "live" => pos[c] = buf[c].lo /\ pos[c] < buf[c].hi
    /\ pc[c] \in {"map", "unmap"} => buf[c].lo <= pos[c] /\ pos[c] < buf[c].hi
    /\ pc[c] \in {"clear", "ptwinv"} =>
          buf[c].lo <= pos[c] /\ pos[c] <= bend[c] /\ bend[c] <= buf[c].hi
    /\ pc[c] = "clear" => pos[c] < bend[c]
    /\ pc[c] = "ptwinv" => buf[c].lo <= chunk[c] /\ chunk[c] < pos[c]
Loops == \A c \in Clients : Loop(c)

\* The iova allocator keeps the clients apart.
Apart == \A c, o \in Clients : c # o => Owned(c) \cap Owned(o) = {}

TabInv ==
    /\ hw \in Hardware /\ ClientTypes /\ TableTypes
    /\ Loops /\ Apart /\ TablesShared /\ TableExact

\* A step of the client c is none of the others.
OthersSame(c) ==
    \A o \in Clients \ {c} : /\ pc'[o] = pc[o] /\ buf'[o] = buf[o] /\ pos'[o] = pos[o]
                             /\ chunk'[o] = chunk[o] /\ bend'[o] = bend[o]

LEMMA HardwareTypes ==
    ASSUME hw \in Hardware
    PROVE  /\ hw.driver \in {"v1", "v2", "v3"} /\ hw.version \in 10 .. 15
           /\ Bases[hw.driver] \subseteq Nat /\ MaxLen[hw.driver] \in Nat
<1>1. hw \in [driver : {"v1", "v2", "v3"}, version : 10 .. 15]
  BY HardwareAssumption
<1>2. hw.driver \in {"v1", "v2", "v3"} /\ hw.version \in 10 .. 15
  BY <1>1
<1> QED
  BY <1>2, FramesAssumption

\* Mapped by cases.
LEMMA MappedCases ==
    ASSUME NEW c \in Clients
    PROVE  /\ pc[c] = "map" => Mapped(c) = buf[c].lo .. pos[c] - 1
           /\ pc[c] \in {"syncmap", "syncmap2", "live"} => Mapped(c) = Owned(c)
           /\ pc[c] \in {"unmap", "clear", "ptwinv"} => Mapped(c) = pos[c] .. buf[c].hi - 1
           /\ pc[c] \in {"idle", "sync", "sync2"} => Mapped(c) = {}
<1>1. CASE pc[c] = "map"
  BY <1>1 DEF Mapped
<1>2. CASE pc[c] \in {"syncmap", "syncmap2", "live"}
  BY <1>2 DEF Mapped
<1>3. CASE pc[c] \in {"unmap", "clear", "ptwinv"}
  BY <1>3 DEF Mapped
<1>4. CASE pc[c] \in {"idle", "sync", "sync2"}
  BY <1>4 DEF Mapped
<1> QED
  BY <1>1, <1>2, <1>3, <1>4

LEMMA MappedCasesNext ==
    ASSUME NEW c \in Clients
    PROVE  /\ pc'[c] = "map" => Mapped(c)' = buf'[c].lo .. pos'[c] - 1
           /\ pc'[c] \in {"syncmap", "syncmap2", "live"} => Mapped(c)' = Owned(c)'
           /\ pc'[c] \in {"unmap", "clear", "ptwinv"} => Mapped(c)' = pos'[c] .. buf'[c].hi - 1
           /\ pc'[c] \in {"idle", "sync", "sync2"} => Mapped(c)' = {}
<1>1. CASE pc'[c] = "map"
  BY <1>1 DEF Mapped
<1>2. CASE pc'[c] \in {"syncmap", "syncmap2", "live"}
  BY <1>2 DEF Mapped
<1>3. CASE pc'[c] \in {"unmap", "clear", "ptwinv"}
  BY <1>3 DEF Mapped
<1>4. CASE pc'[c] \in {"idle", "sync", "sync2"}
  BY <1>4 DEF Mapped
<1> QED
  BY <1>1, <1>2, <1>3, <1>4

\* What a client owns is in the aperture, and what it has mapped is its own.
LEMMA OwnedInPages ==
    ASSUME ClientTypes, NEW c \in Clients, Loop(c)
    PROVE  Owned(c) \subseteq Pages /\ Mapped(c) \subseteq Owned(c)
<1>1. /\ buf[c].lo \in Nat /\ buf[c].hi \in Nat /\ pos[c] \in Nat /\ pc[c] \in PcStates
      /\ buf[c].lo <= buf[c].hi /\ buf[c].hi <= NPages
  BY DEF ClientTypes, Loop
<1>2. Owned(c) \subseteq Pages
  BY <1>1, Sizes DEF Owned, Pages
<1>3. CASE pc[c] = "map"
  <2>1. Mapped(c) = buf[c].lo .. pos[c] - 1 /\ pos[c] < buf[c].hi
    BY <1>3, MappedCases DEF Loop
  <2> QED
    BY <1>1, <1>2, <2>1 DEF Owned
<1>4. CASE pc[c] \in {"syncmap", "syncmap2", "live"}
  BY <1>2, <1>4, MappedCases
<1>5. CASE pc[c] \in {"unmap", "clear", "ptwinv"}
  <2>1. Mapped(c) = pos[c] .. buf[c].hi - 1 /\ buf[c].lo <= pos[c]
    BY <1>5, MappedCases DEF Loop
  <2> QED
    BY <1>1, <1>2, <2>1 DEF Owned
<1>6. CASE pc[c] \in {"idle", "sync", "sync2"}
  BY <1>2, <1>6, MappedCases
<1> QED
  BY <1>1, <1>3, <1>4, <1>5, <1>6 DEF PcStates

\* The other clients see nothing of a step of c.
LEMMA OthersKeep ==
    ASSUME NEW c \in Clients, OthersSame(c), NEW o \in Clients \ {c}
    PROVE  /\ Loop(o)' <=> Loop(o)
           /\ Owned(o)' = Owned(o) /\ Mapped(o)' = Mapped(o)
           /\ \A p : FrameOf(o, p)' = FrameOf(o, p)
<1>1. /\ pc'[o] = pc[o] /\ buf'[o] = buf[o] /\ pos'[o] = pos[o]
      /\ chunk'[o] = chunk[o] /\ bend'[o] = bend[o]
  BY DEF OthersSame
<1>2. Loop(o)' <=> Loop(o)
  BY <1>1 DEF Loop
<1>3. Owned(o)' = Owned(o) /\ \A p : FrameOf(o, p)' = FrameOf(o, p)
  BY <1>1 DEF Owned, FrameOf
<1>4. Mapped(o)' = Mapped(o)
  BY <1>1, <1>3 DEF Mapped
<1> QED
  BY <1>2, <1>3, <1>4

\* A step of c that changes the entries of the pages of B, all of them its own,
\* as it changes what c has mapped, keeps the invariant.
LEMMA TabStep ==
    ASSUME TabInv, NEW c \in Clients, OthersSame(c), UNCHANGED hw,
           ClientTypes', TableTypes', TablesShared', Loop(c)',
           \A o \in Clients \ {c} : Owned(c)' \cap Owned(o) = {},
           NEW B, B \subseteq Owned(c),
           \A p \in Pages \ B : /\ IovaToPhys(p)' = IovaToPhys(p)
                                /\ p \in Mapped(c)' <=> p \in Mapped(c)
                                /\ p \in Mapped(c)' => FrameOf(c, p)' = FrameOf(c, p),
           \A p \in B : \/ p \in Mapped(c)' /\ IovaToPhys(p)' = FrameOf(c, p)'
                        \/ p \notin Mapped(c)' /\ IovaToPhys(p)' = NoFrame
    PROVE  TabInv'
<1>1. Loops'
  <2> SUFFICES ASSUME NEW o \in Clients PROVE Loop(o)'
    BY DEF Loops
  <2>1. CASE o # c
    BY <2>1, OthersKeep DEF TabInv, Loops
  <2> QED
    BY <2>1
<1>2. Apart'
  <2>1. \A o \in Clients \ {c} : Owned(o)' = Owned(o)
    BY OthersKeep
  <2>2. \A o, r \in Clients : o # r => Owned(o) \cap Owned(r) = {}
    BY DEF TabInv, Apart
  <2> SUFFICES ASSUME NEW o \in Clients, NEW r \in Clients, o # r
               PROVE  Owned(o)' \cap Owned(r)' = {}
    BY DEF Apart
  <2>3. CASE o = c
    BY <2>1, <2>3
  <2>4. CASE r = c
    BY <2>1, <2>4
  <2>5. CASE o # c /\ r # c
    BY <2>1, <2>2, <2>5
  <2> QED
    BY <2>3, <2>4, <2>5
<1>3. TableExact'
  <2> SUFFICES ASSUME NEW p \in Pages
               PROVE  /\ \A o \in Clients : p \in Mapped(o)' => IovaToPhys(p)' = FrameOf(o, p)'
                      /\ (\A o \in Clients : p \notin Mapped(o)') => IovaToPhys(p)' = NoFrame
    BY DEF TableExact
  <2>1. /\ \A o \in Clients : p \in Mapped(o) => IovaToPhys(p) = FrameOf(o, p)
        /\ (\A o \in Clients : p \notin Mapped(o)) => IovaToPhys(p) = NoFrame
    BY DEF TabInv, TableExact
  <2>2. \A o \in Clients \ {c} : Mapped(o)' = Mapped(o) /\ FrameOf(o, p)' = FrameOf(o, p)
    BY OthersKeep
  <2>3. CASE p \in B
    <3>1. \A o \in Clients \ {c} : p \notin Mapped(o)
      <4> SUFFICES ASSUME NEW o \in Clients \ {c} PROVE p \notin Mapped(o)
        OBVIOUS
      <4>1. Mapped(o) \subseteq Owned(o)
        BY OwnedInPages DEF TabInv, Loops
      <4>2. Owned(c) \cap Owned(o) = {}
        BY DEF TabInv, Apart
      <4> QED
        BY <2>3, <4>1, <4>2
    <3> QED
      BY <2>2, <2>3, <3>1
  <2>4. CASE p \notin B
    BY <2>1, <2>2, <2>4
  <2> QED
    BY <2>3, <2>4
<1> QED
  BY <1>1, <1>2, <1>3 DEF TabInv

\* The entries are read from the directory and the tables only.
LEMMA TableFrame ==
    ASSUME UNCHANGED table
    PROVE  /\ TableTypes' <=> TableTypes
           /\ TablesShared' <=> TablesShared
           /\ \A p : IovaToPhys(p)' = IovaToPhys(p)
BY DEF table, TableTypes, TablesShared, IovaToPhys

\* A step of c that leaves the table, and what c has mapped, alone.
LEMMA QuietStep ==
    ASSUME TabInv, NEW c \in Clients, OthersSame(c), UNCHANGED <<hw, table>>,
           ClientTypes', Loop(c)',
           \A o \in Clients \ {c} : Owned(c)' \cap Owned(o) = {},
           Mapped(c)' = Mapped(c),
           \A p \in Mapped(c) : FrameOf(c, p)' = FrameOf(c, p)
    PROVE  TabInv'
<1>1. TableTypes' /\ TablesShared' /\ \A p : IovaToPhys(p)' = IovaToPhys(p)
  BY TableFrame DEF TabInv
<1>2. PICK B : B = {}
  OBVIOUS
<1>3. B \subseteq Owned(c)
  BY <1>2
<1>4. \A p \in Pages \ B : /\ IovaToPhys(p)' = IovaToPhys(p)
                           /\ p \in Mapped(c)' <=> p \in Mapped(c)
                           /\ p \in Mapped(c)' => FrameOf(c, p)' = FrameOf(c, p)
  BY <1>1
<1>5. \A p \in B : \/ p \in Mapped(c)' /\ IovaToPhys(p)' = FrameOf(c, p)'
                   \/ p \notin Mapped(c)' /\ IovaToPhys(p)' = NoFrame
  BY <1>2
<1>6. UNCHANGED hw
  OBVIOUS
<1> QED
  BY <1>1, <1>3, <1>4, <1>5, <1>6, TabStep

(***************************************************************************)
(* The page table: prepare_l1_tables, prepare_l2_tables, delete_l2_tables  *)
(***************************************************************************)
\* Tables are hung under the entries of D, which had none, and the frames
\* written into them: those pages are translated, and no other entry changes.
LEMMA FillKeeps ==
    ASSUME TableTypes, TablesShared, NEW D, D \subseteq {d \in Pdes : dir[d] = NoTable},
           NEW f \in [D -> free], IsInjective(f), AllocTables(D, f),
           NEW frames, DOMAIN frames \subseteq Pages, \A q \in DOMAIN frames : frames[q] \in Int,
           \A q \in DOMAIN frames : IOPDE_INDEX(q) \in D \/ dir[IOPDE_INDEX(q)] # NoTable,
           tab' = Filled(Range(f), frames)
    PROVE  /\ TableTypes' /\ TablesShared'
           /\ \A d \in Pdes : dir[d] # NoTable => dir'[d] = dir[d]
           /\ \A p \in Pages : /\ p \in DOMAIN frames => IovaToPhys(p)' = frames[p]
                               /\ p \notin DOMAIN frames => IovaToPhys(p)' = IovaToPhys(p)
<1>1. /\ \A d \in D : f[d] \in free /\ dir'[d] = f[d]
      /\ \A d \in Pdes \ D : dir'[d] = dir[d]
      /\ dir' \in [Pdes -> Tables \cup {NoTable}]
  BY DEF AllocTables, TableTypes
<1>2. Range(f) = {f[d] : d \in D} /\ \A d, e \in D : f[d] = f[e] => d = e
  BY DEF Range, IsInjective
<1>3. free' = free \ Range(f) /\ Range(f) \subseteq free
  BY <1>1, <1>2 DEF AllocTables
<1>4. NoTable \notin free /\ NoTable \notin Tables
  BY NamesAssumption DEF TableTypes
<1>5. TablesShared'
  <2>1. ASSUME NEW t \in Tables, t \in free', NEW d \in Pdes PROVE dir'[d] # t
    BY <1>1, <1>2, <1>3, <2>1 DEF TablesShared
  <2>2. ASSUME NEW t \in Tables, t \notin free' PROVE \E d \in Pdes : dir'[d] = t
    <3>1. CASE t \in Range(f)
      BY <1>1, <1>2, <3>1
    <3>2. CASE t \notin free
      <4>1. PICK d \in Pdes : dir[d] = t
        BY <3>2 DEF TablesShared
      <4>2. d \notin D
        BY <4>1, <1>4
      <4> QED
        BY <4>1, <4>2, <1>1
    <3> QED
      BY <2>2, <3>1, <3>2, <1>3
  <2>3. ASSUME NEW d \in Pdes, NEW e \in Pdes, dir'[d] = dir'[e], dir'[d] # NoTable PROVE d = e
    <3>1. \A g \in Pdes \ D : dir[g] # NoTable => dir[g] \notin free
      BY <1>1 DEF TablesShared, TableTypes
    <3>2. CASE d \in D /\ e \in D
      BY <2>3, <3>2, <1>1, <1>2
    <3>3. CASE d \notin D /\ e \notin D
      BY <2>3, <3>3, <1>1 DEF TablesShared
    <3>4. CASE d \in D /\ e \notin D
      BY <2>3, <3>1, <3>4, <1>1
    <3>5. CASE d \notin D /\ e \in D
      BY <2>3, <3>1, <3>5, <1>1
    <3> QED
      BY <3>2, <3>3, <3>4, <3>5
  <2>4. \A t \in Tables : t \in free' <=> \A d \in Pdes : dir'[d] # t
    BY <2>1, <2>2
  <2>5. \A d, e \in Pdes : dir'[d] = dir'[e] /\ dir'[d] # NoTable => d = e
    BY <2>3
  <2> QED
    BY <2>4, <2>5 DEF TablesShared
<1> DEFINE Here(t, i) == {p \in DOMAIN frames : dir'[IOPDE_INDEX(p)] = t /\ IOPTE_INDEX(p) = i}
<1>6. /\ tab' = [t \in Tables |-> [i \in Ptes |->
                    IF Here(t, i) # {} THEN frames[CHOOSE p \in Here(t, i) : TRUE]
                    ELSE IF t \in Range(f) THEN NoFrame ELSE tab[t][i]]]
      /\ \A t, i : Here(t, i) \subseteq DOMAIN frames
      /\ \A t, i : \A q \in Here(t, i) : dir'[IOPDE_INDEX(q)] = t /\ IOPTE_INDEX(q) = i
  BY Zenon DEF Filled
<1>7. TableTypes'
  <2>1. \A t \in Tables, i \in Ptes : tab[t][i] \in Int /\ NoFrame \in Int
    BY DEF TableTypes, NoFrame
  <2>2. \A t, i : Here(t, i) # {} => frames[CHOOSE p \in Here(t, i) : TRUE] \in Int
    BY <1>6
  <2> HIDE DEF Here
  <2>3. tab' \in [Tables -> [Ptes -> Int]]
    BY <1>6, <2>1, <2>2
  <2> QED
    BY <1>1, <1>3, <2>3 DEF TableTypes
<1> SUFFICES ASSUME NEW p \in Pages
             PROVE  /\ p \in DOMAIN frames => IovaToPhys(p)' = frames[p]
                    /\ p \notin DOMAIN frames => IovaToPhys(p)' = IovaToPhys(p)
  <2>1. \A d \in Pdes : dir[d] # NoTable => dir'[d] = dir[d]
    BY <1>1
  <2> QED
    BY <1>5, <1>7, <2>1
<1> DEFINE d == IOPDE_INDEX(p)
           i == IOPTE_INDEX(p)
           t == dir'[d]
<1>8. d \in Pdes /\ i \in Ptes /\ t \in Tables \cup {NoTable}
  BY PageSplit, <1>1
<1>9. IovaToPhys(p)' = IF t = NoTable THEN NoFrame ELSE tab'[t][i]
  BY DEF IovaToPhys
<1>10. IovaToPhys(p) = IF dir[d] = NoTable THEN NoFrame ELSE tab[dir[d]][i]
  BY DEF IovaToPhys
<1>11. ASSUME t # NoTable, NEW q \in Here(t, i) PROVE q = p
  <2>1. q \in Pages /\ dir'[IOPDE_INDEX(q)] = dir'[IOPDE_INDEX(p)] /\ IOPTE_INDEX(q) = IOPTE_INDEX(p)
    BY <1>6
  <2>2. IOPDE_INDEX(q) \in Pdes
    BY <2>1, PageSplit
  <2>3. IOPDE_INDEX(q) = IOPDE_INDEX(p)
    BY <1>5, <1>8, <1>11, <2>1, <2>2 DEF TablesShared
  <2> QED
    BY <2>1, <2>3, PageUnique
<1>12. p \in DOMAIN frames => p \in Here(t, i)
  OBVIOUS
<1> HIDE DEF Here
<1>13. t # NoTable => tab'[t][i] = IF Here(t, i) # {} THEN frames[CHOOSE q \in Here(t, i) : TRUE]
                                   ELSE IF t \in Range(f) THEN NoFrame ELSE tab[t][i]
  BY <1>6, <1>8
<1>14. CASE p \in DOMAIN frames
  <2>1. t # NoTable
    BY <1>1, <1>4, <1>8, <1>14
  <2>2. (CHOOSE q \in Here(t, i) : TRUE) = p /\ Here(t, i) # {}
    BY <1>11, <1>12, <1>14, <2>1
  <2> QED
    BY <1>9, <1>13, <1>14, <2>1, <2>2
<1>15. CASE p \notin DOMAIN frames
  <2>1. CASE t = NoTable
    <3>1. d \notin D
      BY <1>1, <1>4, <2>1
    <3> QED
      BY <1>1, <1>8, <1>9, <1>10, <1>15, <2>1, <3>1
  <2>2. CASE t # NoTable
    <3>1. Here(t, i) = {}
      BY <1>6, <1>11, <1>15, <2>2
    <3>2. CASE d \in D
      BY <1>1, <1>2, <1>9, <1>10, <1>13, <1>15, <2>2, <3>1, <3>2
    <3>3. CASE d \notin D
      <4>1. t = dir[d] /\ t \in Tables
        BY <1>1, <1>8, <2>2, <3>3
      <4>2. t \notin Range(f)
        BY <1>3, <1>8, <4>1 DEF TablesShared
      <4> QED
        BY <1>9, <1>10, <1>13, <1>15, <2>2, <3>1, <4>1, <4>2
    <3> QED
      BY <3>2, <3>3
  <2> QED
    BY <2>1, <2>2
<1> QED
  BY <1>14, <1>15

\* The chunk that delete_l2_tables handles lies in one directory entry, within
\* the block, and is a whole entry only if it starts one.
LEMMA TailFits ==
    ASSUME NEW p \in Pages, NEW e \in Nat, p < e, e <= NPages
    PROVE  /\ Tail(p, e) \in Nat \ {0} /\ p + Tail(p, e) <= e
           /\ \A q \in p .. p + Tail(p, e) - 1 :
                /\ q \in Pages /\ IOPDE_INDEX(q) = IOPDE_INDEX(p)
                /\ IOPTE_INDEX(q) = IOPTE_INDEX(p) + (q - p)
           /\ Tail(p, e) = NPte => IOPTE_INDEX(p) = 0
<1> DEFINE i == IOPTE_INDEX(p)
           k == Tail(p, e)
<1>1. i \in 0 .. NPte - 1 /\ p \in Nat /\ NPte \in Nat
  BY PageSplit, Sizes DEF Ptes
<1>2. k = IF p + (NPte - i) > e THEN e - p ELSE NPte - i
  BY DEF Tail
<1> HIDE DEF i, k
<1>3. k \in Nat \ {0} /\ p + k <= e /\ i + k <= NPte
  BY <1>1, <1>2
<1>4. ASSUME NEW q \in p .. p + k - 1
      PROVE  /\ q \in Pages /\ IOPDE_INDEX(q) = IOPDE_INDEX(p)
             /\ IOPTE_INDEX(q) = IOPTE_INDEX(p) + (q - p)
  <2> DEFINE x == q - p
  <2>1. x \in Nat /\ q = p + x /\ i + x < NPte /\ q \in Nat /\ q < e
    BY <1>1, <1>3
  <2> HIDE DEF x
  <2>2. IOPDE_INDEX(p + x) = IOPDE_INDEX(p) /\ IOPTE_INDEX(p + x) = IOPTE_INDEX(p) + x
    BY <1>1, <2>1, SameEntry DEF i
  <2>3. q \in Pages
    BY <2>1, Sizes DEF Pages
  <2> QED
    BY <2>1, <2>2, <2>3 DEF x
<1>5. k = NPte => i = 0
  BY <1>1, <1>3
<1> QED
  BY <1>3, <1>4, <1>5 DEF i, k

LEMMA DeleteKeeps ==
    ASSUME TableTypes, TablesShared, NEW c \in Clients, pos[c] \in Pages, bend[c] \in Nat,
           pos[c] < bend[c], bend[c] <= NPages, dir[IOPDE_INDEX(pos[c])] # NoTable, DeleteL2(c)
    PROVE  LET chunkPages == pos[c] .. pos[c] + Tail(pos[c], bend[c]) - 1 IN
           /\ TableTypes' /\ TablesShared'
           /\ \A p \in Pages : /\ p \in chunkPages => IovaToPhys(p)' = NoFrame
                               /\ p \notin chunkPages => IovaToPhys(p)' = IovaToPhys(p)
           /\ \A d \in Pdes : \/ dir'[d] = dir[d]
                              \/ /\ d = IOPDE_INDEX(pos[c]) /\ dir'[d] = NoTable
                                 /\ \A p \in Pages : IOPDE_INDEX(p) = d => p \in chunkPages
<1> DEFINE P == pos[c]
           k == Tail(pos[c], bend[c])
           C == P .. P + k - 1
           d == IOPDE_INDEX(P)
           t == dir[d]
           gone == {IOPTE_INDEX(p) : p \in C}
<1>1. /\ k \in Nat \ {0}
      /\ \A q \in C : /\ q \in Pages /\ IOPDE_INDEX(q) = d
      /\ k = NPte => IOPTE_INDEX(P) = 0
  BY TailFits
<1>2. d \in Pdes /\ t \in Tables /\ t # NoTable
  BY PageSplit DEF TableTypes
<1>3. NoTable \notin Tables
  BY NamesAssumption
<1>4. CASE k = NPte
  <2>1. /\ dir' = [dir EXCEPT ![d] = NoTable]
        /\ tab' = [tab EXCEPT ![t] = [i \in Ptes |-> Junk]]
        /\ free' = free \cup {t}
    BY <1>2, <1>4 DEF DeleteL2
  <2> HIDE DEF t
  <2>2. dir'[d] = NoTable /\ \A e \in Pdes \ {d} : dir'[e] = dir[e] /\ dir[e] # t
    BY <1>2, <2>1 DEF TableTypes, TablesShared, t
  <2>3. \A u \in Tables \ {t} : tab'[u] = tab[u]
    BY <2>1 DEF TableTypes
  <2>4. TableTypes'
    <3>1. dir' \in [Pdes -> Tables \cup {NoTable}] /\ free' \subseteq Tables
      BY <1>2, <2>1 DEF TableTypes
    <3>2. [i \in Ptes |-> Junk] \in [Ptes -> Int]
      BY DEF Junk
    <3>3. tab' \in [Tables -> [Ptes -> Int]]
      BY <1>2, <2>1, <3>2 DEF TableTypes
    <3> QED
      BY <3>1, <3>3 DEF TableTypes
  <2>5. TablesShared'
    <3>1. \A u \in Tables : u \in free' <=> \A e \in Pdes : dir'[e] # u
      <4>1. \A u \in Tables : u \in free <=> \A e \in Pdes : dir[e] # u
        BY DEF TablesShared
      <4>2. dir[d] = t
        BY DEF t
      <4> QED
        BY <1>2, <1>3, <2>1, <2>2, <4>1, <4>2
    <3>2. \A e, g \in Pdes : dir'[e] = dir'[g] /\ dir'[e] # NoTable => e = g
      BY <2>2 DEF TablesShared
    <3> QED
      BY <3>1, <3>2 DEF TablesShared
  <2>6. \A p \in Pages : IOPDE_INDEX(p) = d => p \in C
    <3> HIDE DEF k
    <3>1. C = P .. P + NPte - 1
      BY <1>4
    <3> QED
      BY <1>1, <1>4, <3>1, WholeEntry
  <2>7. ASSUME NEW p \in Pages
        PROVE  /\ p \in C => IovaToPhys(p)' = NoFrame
               /\ p \notin C => IovaToPhys(p)' = IovaToPhys(p)
    <3>1. IOPDE_INDEX(p) \in Pdes
      BY PageSplit
    <3>2. CASE IOPDE_INDEX(p) = d
      BY <2>2, <2>6, <3>2 DEF IovaToPhys
    <3>3. CASE IOPDE_INDEX(p) # d
      <4>1. dir'[IOPDE_INDEX(p)] = dir[IOPDE_INDEX(p)] /\ dir[IOPDE_INDEX(p)] # t
        BY <2>2, <3>1, <3>3
      <4>2. dir[IOPDE_INDEX(p)] # NoTable => tab'[dir[IOPDE_INDEX(p)]] = tab[dir[IOPDE_INDEX(p)]]
        BY <2>3, <3>1, <4>1 DEF TableTypes
      <4>3. IovaToPhys(p)' = IovaToPhys(p)
        BY <4>1, <4>2 DEF IovaToPhys
      <4> QED
        BY <1>1, <3>3, <4>3
    <3> QED
      BY <3>2, <3>3
  <2>8. \A e \in Pdes : \/ dir'[e] = dir[e]
                        \/ /\ e = d /\ dir'[e] = NoTable
                           /\ \A p \in Pages : IOPDE_INDEX(p) = e => p \in C
    BY <2>2, <2>6
  <2> QED
    BY <2>4, <2>5, <2>7, <2>8
<1>5. CASE k # NPte
  <2>1. /\ dir' = dir /\ free' = free
        /\ tab' = [tab EXCEPT ![t] = [i \in Ptes |-> IF i \in gone THEN NoFrame ELSE tab[t][i]]]
    BY <1>2, <1>5 DEF DeleteL2
  <2> HIDE DEF t, gone, C, k, d
  <2>2. /\ tab'[t] = [i \in Ptes |-> IF i \in gone THEN NoFrame ELSE tab[t][i]]
        /\ \A u \in Tables \ {t} : tab'[u] = tab[u]
    BY <1>2, <2>1 DEF TableTypes
  <2>3. TableTypes'
    <3>1. [i \in Ptes |-> IF i \in gone THEN NoFrame ELSE tab[t][i]] \in [Ptes -> Int]
      BY <1>2 DEF TableTypes, NoFrame
    <3>2. tab' \in [Tables -> [Ptes -> Int]]
      BY <1>2, <2>1, <3>1 DEF TableTypes
    <3> QED
      BY <2>1, <3>2 DEF TableTypes
  <2>4. TablesShared'
    BY <2>1 DEF TablesShared
  <2>5. ASSUME NEW p \in Pages
        PROVE  /\ p \in C => IovaToPhys(p)' = NoFrame
               /\ p \notin C => IovaToPhys(p)' = IovaToPhys(p)
    <3>1. IOPDE_INDEX(p) \in Pdes /\ IOPTE_INDEX(p) \in Ptes
      BY PageSplit
    <3>2. CASE IOPDE_INDEX(p) = d
      <4>1. IovaToPhys(p)' = tab'[t][IOPTE_INDEX(p)] /\ IovaToPhys(p) = tab[t][IOPTE_INDEX(p)]
        BY <1>2, <2>1, <3>2 DEF IovaToPhys, t
      <4>2. IOPTE_INDEX(p) \in gone <=> p \in C
        <5>1. p \in C => IOPTE_INDEX(p) \in gone
          BY DEF gone
        <5>2. ASSUME IOPTE_INDEX(p) \in gone PROVE p \in C
          <6>1. PICK q \in C : IOPTE_INDEX(q) = IOPTE_INDEX(p)
            BY <5>2 DEF gone
          <6>2. q \in Pages /\ IOPDE_INDEX(q) = IOPDE_INDEX(p)
            BY <1>1, <3>2
          <6> QED
            BY <6>1, <6>2, PageUnique
        <5> QED
          BY <5>1, <5>2
      <4> QED
        BY <2>2, <3>1, <4>1, <4>2
    <3>3. CASE IOPDE_INDEX(p) # d
      <4>1. dir[IOPDE_INDEX(p)] # t
        BY <1>2, <3>1, <3>3 DEF TablesShared, t
      <4>2. dir[IOPDE_INDEX(p)] # NoTable => tab'[dir[IOPDE_INDEX(p)]] = tab[dir[IOPDE_INDEX(p)]]
        BY <2>2, <3>1, <4>1 DEF TableTypes
      <4>3. IovaToPhys(p)' = IovaToPhys(p)
        BY <2>1, <4>2 DEF IovaToPhys
      <4> QED
        BY <1>1, <3>3, <4>3
    <3> QED
      BY <3>2, <3>3
  <2> QED
    BY <2>1, <2>3, <2>4, <2>5 DEF C, k, d
<1> QED
  BY <1>4, <1>5

\* The core finds a block for every page that is left.
LEMMA UnmapSizeFits ==
    ASSUME NEW p \in Nat, NEW hi \in Nat, p < hi
    PROVE  UnmapSize(p, hi) \in PgSizes /\ UnmapSize(p, hi) \in Nat \ {0}
           /\ p + UnmapSize(p, hi) <= hi
<1> DEFINE fits == {n \in PgSizes : p % n = 0 /\ p + n <= hi}
           T == {hi - n : n \in fits}
<1>1. PgSizes \subseteq Nat \ {0} /\ 1 \in PgSizes
  BY SizesAssumption
<1>2. p % 1 = 0
  OBVIOUS
<1>3. 1 \in fits /\ fits \subseteq Nat /\ \A n \in fits : hi - n \in Nat
  <2>1. p + 1 <= hi
    OBVIOUS
  <2>2. 1 \in fits
    BY <1>1, <1>2, <2>1
  <2>3. \A n \in fits : n \in Nat /\ p + n <= hi
    BY <1>1
  <2> HIDE DEF fits
  <2> QED
    BY <2>2, <2>3
<1>4. T \subseteq Nat /\ hi - 1 \in T /\ T # {}
  BY <1>3
<1>5. PICK m \in T : \A e \in T : ~(<<e, m>> \in OpToRel(<, Nat))
  <2> HIDE DEF T
  <2> QED
    BY <1>4, WFMin, NatLessThanWellFounded
<1>6. PICK n \in fits : m = hi - n
  BY <1>5
<1>7. \A k \in fits : k <= n
  <2> SUFFICES ASSUME NEW k \in fits PROVE k <= n
    OBVIOUS
  <2> HIDE DEF fits
  <2>1. hi - k \in T /\ hi - k \in Nat /\ m \in Nat /\ k \in Nat /\ n \in Nat
    BY <1>3, <1>4, <1>5
  <2> HIDE DEF T
  <2>2. ~(hi - k < m)
    BY <1>5, <2>1 DEF OpToRel
  <2> QED
    BY <1>6, <2>1, <2>2
<1>8. /\ n \in PgSizes /\ p % n = 0 /\ p + n <= hi
      /\ \A k \in PgSizes : (p % k = 0 /\ p + k <= hi) => k <= n
  BY <1>6, <1>7
<1>9. UnmapSize(p, hi) \in PgSizes /\ p + UnmapSize(p, hi) <= hi
  BY <1>8 DEF UnmapSize
<1> QED
  BY <1>1, <1>9

(***************************************************************************)
(* The page table: every step keeps the invariant                          *)
(***************************************************************************)
LEMMA TabInit == Init => TabInv
<1> SUFFICES ASSUME Init PROVE TabInv
  OBVIOUS
<1>1. ClientTypes /\ \A c \in Clients : pc[c] = "idle" /\ buf[c] = NoBuf
  BY DEF Init, ClientTypes, PcStates, NoBuf
<1>2. /\ dir \in [Pdes -> Tables \cup {NoTable}] /\ \A d \in Pdes : dir[d] = NoTable
      /\ free = Tables
  BY DEF Init
<1>3. TableTypes
  <2>1. Zeroed \in [Ptes -> Int]
    BY DEF Zeroed, NoFrame
  <2> QED
    BY <1>2, <2>1 DEF Init, TableTypes
<1>4. Loops
  BY <1>1, Sizes DEF Loops, Loop, NoBuf
<1>5. Apart
  BY <1>1 DEF Apart, Owned, NoBuf
<1>6. TablesShared
  BY <1>2, NamesAssumption DEF TablesShared
<1>7. TableExact
  <2>1. \A c \in Clients : Mapped(c) = {}
    BY <1>1, MappedCases
  <2>2. \A p \in Pages : IovaToPhys(p) = NoFrame
    BY <1>2, PageSplit DEF IovaToPhys
  <2> QED
    BY <2>1, <2>2 DEF TableExact
<1> QED
  BY <1>1, <1>3, <1>4, <1>5, <1>6, <1>7 DEF Init, TabInv

\* Steps of the hardware: nothing of this.
LEMMA TabFrame ==
    ASSUME TabInv, UNCHANGED <<hw, table, pc, buf, pos, chunk, bend>>
    PROVE  TabInv'
<1>1. TableTypes' /\ TablesShared' /\ \A p : IovaToPhys(p)' = IovaToPhys(p)
  BY TableFrame DEF TabInv
<1>2. ClientTypes' /\ Loops' /\ Apart'
  BY DEF TabInv, ClientTypes, Loops, Loop, Apart, Owned
<1>3. \A c \in Clients : Mapped(c)' = Mapped(c) /\ \A p : FrameOf(c, p)' = FrameOf(c, p)
  BY DEF Mapped, FrameOf, Owned
<1>4. TableExact'
  BY <1>1, <1>3 DEF TabInv, TableExact
<1> QED
  BY <1>1, <1>2, <1>4 DEF TabInv

\* The types and the range of c's own fields.
LEMMA OwnTypes ==
    ASSUME TabInv, NEW c \in Clients
    PROVE  /\ ClientTypes /\ Loop(c) /\ pc[c] \in PcStates
           /\ buf[c].lo \in Nat /\ buf[c].hi \in Nat /\ buf[c].base \in Nat
           /\ pos[c] \in Nat /\ chunk[c] \in Nat /\ bend[c] \in Nat
           /\ buf[c].lo <= buf[c].hi /\ buf[c].hi <= NPages
           /\ Owned(c) \subseteq Pages /\ Mapped(c) \subseteq Owned(c)
           /\ \A o \in Clients \ {c} : Owned(c) \cap Owned(o) = {}
<1>1. ClientTypes /\ Loop(c) /\ \A o \in Clients \ {c} : Owned(c) \cap Owned(o) = {}
  BY DEF TabInv, Loops, Apart
<1> QED
  BY <1>1, OwnedInPages DEF ClientTypes, Loop

LEMMA AllocIovaKeeps ==
    ASSUME TabInv, NEW c \in Clients, AllocIova(c)
    PROVE  TabInv'
<1>1. PICK lo \in Pages, n \in 1 .. MaxLen[hw.driver], base \in Bases[hw.driver] :
         /\ lo + n <= NPages
         /\ \A o \in Clients \ {c} : Owned(o) \cap (lo .. lo + n - 1) = {}
         /\ buf' = [buf EXCEPT ![c] = [lo |-> lo, hi |-> lo + n, base |-> base]]
         /\ pos' = [pos EXCEPT ![c] = lo]
  BY DEF AllocIova
<1>2. /\ pc[c] = "idle" /\ pc' = [pc EXCEPT ![c] = "map"]
      /\ UNCHANGED <<hw, table, chunk, bend>>
  BY DEF AllocIova
<1>3. lo \in Nat /\ n \in Nat \ {0} /\ base \in Nat /\ lo + n \in Nat
  <2>1. MaxLen[hw.driver] \in Nat /\ Bases[hw.driver] \subseteq Nat
    BY HardwareTypes DEF TabInv
  <2>2. lo \in Nat
    BY PageSplit
  <2> QED
    BY <2>1, <2>2
<1>4. ClientTypes
  BY OwnTypes
<1>5. ClientTypes' /\ OthersSame(c)
  BY <1>1, <1>2, <1>3, <1>4 DEF ClientTypes, OthersSame, PcStates
<1>6. /\ pc'[c] = "map" /\ pos'[c] = lo
      /\ buf'[c].lo = lo /\ buf'[c].hi = lo + n
  BY <1>1, <1>2, <1>4 DEF ClientTypes
<1>7. Loop(c)'
  BY <1>1, <1>3, <1>6 DEF Loop
<1>8. Mapped(c) = {} /\ Mapped(c)' = {}
  BY <1>2, <1>3, <1>6, MappedCases, MappedCasesNext
<1>9. \A o \in Clients \ {c} : Owned(c)' \cap Owned(o) = {}
  <2>1. Owned(c)' = lo .. lo + n - 1
    BY <1>3, <1>6 DEF Owned
  <2>2. \A o \in Clients \ {c} : Owned(o) \cap (lo .. lo + n - 1) = {}
    BY <1>1
  <2> QED
    BY <2>1, <2>2
<1> QED
  BY <1>2, <1>5, <1>7, <1>8, <1>9, QuietStep

LEMMA MapKeeps ==
    ASSUME TabInv, NEW c \in Clients, Map(c)
    PROVE  TabInv' /\ \A d \in Pdes : dir[d] # NoTable => dir'[d] = dir[d]
<1>1. PICK n \in PgSizes :
         /\ pos[c] % n = 0 /\ pos[c] + n <= buf[c].hi
         /\ \E f \in [Missing(pos[c], L1Turns(n)) -> free] :
              /\ IsInjective(f)
              /\ AllocTables(Missing(pos[c], L1Turns(n)), f)
              /\ tab' = Filled(Range(f), [p \in pos[c] .. pos[c] + n - 1 |-> FrameOf(c, p)])
         /\ pos' = [pos EXCEPT ![c] = @ + n]
         /\ pc' = [pc EXCEPT ![c] = IF pos[c] + n = buf[c].hi THEN "syncmap" ELSE "map"]
  BY DEF Map
<1>2. pc[c] = "map" /\ UNCHANGED <<hw, buf, chunk, bend>>
  BY DEF Map
<1> DEFINE D == Missing(pos[c], L1Turns(n))
           B == pos[c] .. pos[c] + n - 1
           frames == [p \in B |-> FrameOf(c, p)]
<1>3. PICK f \in [D -> free] : /\ IsInjective(f) /\ AllocTables(D, f)
                               /\ tab' = Filled(Range(f), frames)
  BY <1>1
<1>4. n \in Nat \ {0}
  BY SizesAssumption
<1>5. /\ ClientTypes /\ Loop(c) /\ Owned(c) \subseteq Pages
      /\ buf[c].lo \in Nat /\ buf[c].hi \in Nat /\ buf[c].base \in Nat /\ pos[c] \in Nat
      /\ buf[c].lo <= pos[c] /\ pos[c] < buf[c].hi /\ buf[c].hi <= NPages
      /\ \A o \in Clients \ {c} : Owned(c) \cap Owned(o) = {}
  BY <1>2, OwnTypes DEF Loop
<1>6. B \subseteq Owned(c) /\ B \subseteq Pages /\ pos[c] + n <= buf[c].hi
  <2>1. pos[c] + n <= buf[c].hi
    BY <1>1
  <2>2. B \subseteq Owned(c)
    BY <1>4, <1>5, <2>1 DEF Owned
  <2> QED
    BY <1>5, <2>1, <2>2
<1>7. DOMAIN frames = B /\ \A q \in B : frames[q] = FrameOf(c, q) /\ frames[q] \in Int
  BY <1>4, <1>5 DEF FrameOf
<1>8. D \subseteq {d \in Pdes : dir[d] = NoTable}
  BY <1>5, VisitedInPdes DEF Missing
<1>9. \A q \in B : IOPDE_INDEX(q) \in D \/ dir[IOPDE_INDEX(q)] # NoTable
  BY <1>1, <1>5, BlockVisited DEF Missing
<1>10. TableTypes /\ TablesShared
  BY DEF TabInv
<1> HIDE DEF D, B, frames
<1>11. /\ TableTypes' /\ TablesShared'
       /\ \A d \in Pdes : dir[d] # NoTable => dir'[d] = dir[d]
       /\ \A p \in Pages : /\ p \in B => IovaToPhys(p)' = frames[p]
                           /\ p \notin B => IovaToPhys(p)' = IovaToPhys(p)
  <2>1. /\ DOMAIN frames \subseteq Pages /\ \A q \in DOMAIN frames : frames[q] \in Int
        /\ \A q \in DOMAIN frames : IOPDE_INDEX(q) \in D \/ dir[IOPDE_INDEX(q)] # NoTable
    BY <1>6, <1>7, <1>9
  <2>2. /\ TableTypes' /\ TablesShared'
        /\ \A d \in Pdes : dir[d] # NoTable => dir'[d] = dir[d]
        /\ \A p \in Pages : /\ p \in DOMAIN frames => IovaToPhys(p)' = frames[p]
                            /\ p \notin DOMAIN frames => IovaToPhys(p)' = IovaToPhys(p)
    BY <1>3, <1>8, <1>10, <2>1, FillKeeps
  <2> QED
    BY <1>7, <2>2
<1>12. /\ pc'[c] = IF pos[c] + n = buf[c].hi THEN "syncmap" ELSE "map"
       /\ pos'[c] = pos[c] + n /\ buf'[c] = buf[c]
       /\ ClientTypes' /\ OthersSame(c)
  <2>1. /\ pc' = [pc EXCEPT ![c] = IF pos[c] + n = buf[c].hi THEN "syncmap" ELSE "map"]
        /\ pos' = [pos EXCEPT ![c] = pos[c] + n] /\ UNCHANGED <<buf, chunk, bend>>
    BY <1>1, <1>2
  <2>2. pos[c] + n \in Nat
    BY <1>4, <1>5
  <2>3. ClientTypes'
    BY <1>5, <2>1, <2>2 DEF ClientTypes, PcStates
  <2> QED
    BY <1>5, <2>1, <2>3 DEF ClientTypes, OthersSame
<1>13. Loop(c)'
  <2>1. CASE pos[c] + n = buf[c].hi
    BY <1>4, <1>5, <1>12, <2>1 DEF Loop
  <2>2. CASE pos[c] + n # buf[c].hi
    BY <1>4, <1>5, <1>6, <1>12, <2>2 DEF Loop
  <2> QED
    BY <2>1, <2>2
<1>14. Owned(c)' = Owned(c) /\ \A p : FrameOf(c, p)' = FrameOf(c, p)
  BY <1>12 DEF Owned, FrameOf
<1>15. Mapped(c) = buf[c].lo .. pos[c] - 1 /\ Mapped(c)' = buf[c].lo .. pos[c] + n - 1
  <2>1. Mapped(c) = buf[c].lo .. pos[c] - 1
    BY <1>2, MappedCases
  <2>2. CASE pos[c] + n = buf[c].hi
    <3>1. Mapped(c)' = Owned(c)
      BY <1>12, <1>14, <2>2, MappedCasesNext
    <3>2. Owned(c) = buf[c].lo .. pos[c] + n - 1
      BY <1>4, <1>5, <2>2 DEF Owned
    <3> QED
      BY <2>1, <3>1, <3>2
  <2>3. CASE pos[c] + n # buf[c].hi
    <3>1. pc'[c] = "map" /\ pos'[c] = pos[c] + n /\ buf'[c].lo = buf[c].lo
      BY <1>12, <2>3
    <3>2. Mapped(c)' = buf'[c].lo .. pos'[c] - 1
      BY <3>1, MappedCasesNext
    <3> QED
      BY <1>4, <1>5, <2>1, <3>1, <3>2
  <2> QED
    BY <2>2, <2>3
<1>16. \A p \in Pages \ B : /\ IovaToPhys(p)' = IovaToPhys(p)
                            /\ p \in Mapped(c)' <=> p \in Mapped(c)
                            /\ p \in Mapped(c)' => FrameOf(c, p)' = FrameOf(c, p)
  <2>1. \A p \in Pages \ B : p \in Mapped(c)' <=> p \in Mapped(c)
    BY <1>4, <1>5, <1>15, PageSplit DEF B
  <2> QED
    BY <1>11, <1>14, <2>1
<1>17. \A p \in B : p \in Mapped(c)' /\ IovaToPhys(p)' = FrameOf(c, p)'
  <2>1. \A p \in B : p \in Mapped(c)'
    BY <1>4, <1>5, <1>15 DEF B
  <2> QED
    BY <1>6, <1>7, <1>11, <1>14, <2>1
<1>18. UNCHANGED hw /\ \A o \in Clients \ {c} : Owned(c)' \cap Owned(o) = {}
  BY <1>2, <1>5, <1>14
<1>19. TabInv'
  BY <1>6, <1>11, <1>12, <1>13, <1>16, <1>17, <1>18, TabStep
<1> QED
  BY <1>11, <1>19

LEMMA MapFailsKeeps ==
    ASSUME TabInv, NEW c \in Clients, MapFails(c)
    PROVE  TabInv' /\ \A d \in Pdes : dir[d] # NoTable => dir'[d] = dir[d]
<1>1. PICK k :
         \E f \in [Missing(pos[c], k) -> free] :
              /\ IsInjective(f)
              /\ AllocTables(Missing(pos[c], k), f)
              /\ tab' = Filled(Range(f), <<>>)
  BY DEF MapFails
<1>2. /\ pc[c] = "map" /\ UNCHANGED <<hw, chunk, bend>>
      /\ buf' = [buf EXCEPT ![c].hi = pos[c]]
      /\ pos' = [pos EXCEPT ![c] = buf[c].lo]
      /\ pc' = [pc EXCEPT ![c] = IF pos[c] = buf[c].lo THEN "sync" ELSE "unmap"]
  BY DEF MapFails
<1> DEFINE D == Missing(pos[c], k)
<1>3. PICK f \in [D -> free] : /\ IsInjective(f) /\ AllocTables(D, f)
                               /\ tab' = Filled(Range(f), <<>>)
  BY <1>1
<1>4. /\ ClientTypes /\ Loop(c) /\ Owned(c) \subseteq Pages
      /\ buf[c].lo \in Nat /\ buf[c].hi \in Nat /\ buf[c].base \in Nat /\ pos[c] \in Nat
      /\ buf[c].lo <= pos[c] /\ pos[c] < buf[c].hi /\ buf[c].hi <= NPages
      /\ \A o \in Clients \ {c} : Owned(c) \cap Owned(o) = {}
  BY <1>2, OwnTypes DEF Loop
<1>5. D \subseteq {d \in Pdes : dir[d] = NoTable}
  BY <1>4, VisitedInPdes DEF Missing
<1>6. TableTypes /\ TablesShared
  BY DEF TabInv
<1> DEFINE frames == <<>>
<1>7. frames = <<>> /\ DOMAIN frames = {}
  OBVIOUS
<1> HIDE DEF D, frames
<1>8. /\ TableTypes' /\ TablesShared'
      /\ \A d \in Pdes : dir[d] # NoTable => dir'[d] = dir[d]
      /\ \A p \in Pages : IovaToPhys(p)' = IovaToPhys(p)
  <2>1. tab' = Filled(Range(f), frames)
    BY <1>3, <1>7
  <2>2. /\ DOMAIN frames \subseteq Pages /\ \A q \in DOMAIN frames : frames[q] \in Int
        /\ \A q \in DOMAIN frames : IOPDE_INDEX(q) \in D \/ dir[IOPDE_INDEX(q)] # NoTable
    BY <1>7
  <2>3. /\ TableTypes' /\ TablesShared'
        /\ \A d \in Pdes : dir[d] # NoTable => dir'[d] = dir[d]
        /\ \A p \in Pages : /\ p \in DOMAIN frames => IovaToPhys(p)' = frames[p]
                            /\ p \notin DOMAIN frames => IovaToPhys(p)' = IovaToPhys(p)
    <3>1. f \in [D -> free] /\ IsInjective(f) /\ AllocTables(D, f)
      BY <1>3
    <3> QED
      BY <1>5, <1>6, <2>1, <2>2, <3>1, FillKeeps
  <2> QED
    BY <1>7, <2>3
<1>9. /\ pc'[c] = IF pos[c] = buf[c].lo THEN "sync" ELSE "unmap"
      /\ pos'[c] = buf[c].lo
      /\ buf'[c] = [lo |-> buf[c].lo, hi |-> pos[c], base |-> buf[c].base]
      /\ ClientTypes' /\ OthersSame(c)
  BY <1>2, <1>4 DEF ClientTypes, OthersSame, PcStates
<1>10. buf'[c].lo = buf[c].lo /\ buf'[c].hi = pos[c] /\ buf'[c].base = buf[c].base
  BY <1>9
<1>11. Loop(c)'
  BY <1>4, <1>9, <1>10, Sizes DEF Loop
<1>12. Mapped(c)' = Mapped(c) /\ \A p : FrameOf(c, p)' = FrameOf(c, p)
  <2>1. Mapped(c) = buf[c].lo .. pos[c] - 1
    BY <1>2, MappedCases
  <2>2. CASE pos[c] = buf[c].lo
    <3>1. Mapped(c)' = {}
      BY <1>9, <2>2, MappedCasesNext
    <3> QED
      BY <1>4, <1>10, <2>1, <2>2, <3>1 DEF FrameOf
  <2>3. CASE pos[c] # buf[c].lo
    BY <1>9, <1>10, <2>1, <2>3, MappedCasesNext DEF FrameOf
  <2> QED
    BY <2>2, <2>3
<1>13. \A o \in Clients \ {c} : Owned(c)' \cap Owned(o) = {}
  <2>1. Owned(c)' \subseteq Owned(c)
    BY <1>4, <1>10 DEF Owned
  <2> QED
    BY <1>4, <2>1
<1>14. PICK B : B = {}
  OBVIOUS
<1>15. /\ B \subseteq Owned(c)
       /\ \A p \in Pages \ B : /\ IovaToPhys(p)' = IovaToPhys(p)
                               /\ p \in Mapped(c)' <=> p \in Mapped(c)
                               /\ p \in Mapped(c)' => FrameOf(c, p)' = FrameOf(c, p)
       /\ \A p \in B : \/ p \in Mapped(c)' /\ IovaToPhys(p)' = FrameOf(c, p)'
                       \/ p \notin Mapped(c)' /\ IovaToPhys(p)' = NoFrame
  BY <1>8, <1>12, <1>14
<1>16. UNCHANGED hw
  BY <1>2
<1>17. TabInv'
  BY <1>8, <1>9, <1>11, <1>13, <1>15, <1>16, TabStep
<1> QED
  BY <1>8, <1>17

\* Steps of c that change its program counter, and pos within the buffer.
LEMMA MoveKeeps ==
    ASSUME TabInv, NEW c \in Clients, ClientTypes', OthersSame(c), UNCHANGED <<hw, table>>,
           buf'[c] = buf[c], Loop(c)', Mapped(c)' = Mapped(c)
    PROVE  TabInv'
<1>1. Owned(c)' = Owned(c) /\ \A p : FrameOf(c, p)' = FrameOf(c, p)
  BY DEF Owned, FrameOf
<1>2. \A o \in Clients \ {c} : Owned(c)' \cap Owned(o) = {}
  BY <1>1, OwnTypes
<1> QED
  BY <1>1, <1>2, QuietStep

LEMMA SyncMapKeeps ==
    ASSUME TabInv, NEW c \in Clients, SyncMap(c) \/ SyncMapPtw(c)
    PROVE  TabInv'
<1>1. ClientTypes /\ Loop(c) /\ buf[c].lo \in Nat
  BY OwnTypes
<1>2. /\ pc[c] \in {"syncmap", "syncmap2"} /\ pc' = [pc EXCEPT ![c] = pc'[c]]
      /\ pc'[c] \in {"syncmap2", "live"} /\ pos' = [pos EXCEPT ![c] = pos'[c]]
      /\ pos'[c] \in {pos[c], buf[c].lo}
      /\ pc'[c] = "live" => pos'[c] = buf[c].lo
      /\ UNCHANGED <<hw, table, buf, chunk, bend>>
  BY <1>1 DEF SyncMap, SyncMapPtw, ClientTypes
<1>3. ClientTypes' /\ OthersSame(c)
  BY <1>1, <1>2 DEF ClientTypes, OthersSame, PcStates
<1>4. Loop(c)'
  BY <1>1, <1>2 DEF Loop
<1>5. Mapped(c)' = Mapped(c)
  BY <1>2, MappedCases, MappedCasesNext DEF Owned
<1> QED
  BY <1>2, <1>3, <1>4, <1>5, MoveKeeps

LEMMA UnmapKeeps ==
    ASSUME TabInv, NEW c \in Clients, Unmap(c)
    PROVE  /\ TabInv'
           /\ pos[c] < bend'[c] /\ bend'[c] <= buf[c].hi /\ bend'[c] \in Nat
           /\ bend'[c] = pos[c] + UnmapSize(pos[c], buf[c].hi)
<1>1. /\ pc[c] \in {"live", "unmap"} /\ pc' = [pc EXCEPT ![c] = "clear"]
      /\ bend' = [bend EXCEPT ![c] = pos[c] + UnmapSize(pos[c], buf[c].hi)]
      /\ UNCHANGED <<hw, table, buf, pos, chunk>>
  BY DEF Unmap
<1>2. /\ ClientTypes /\ Loop(c) /\ buf[c].lo \in Nat /\ buf[c].hi \in Nat /\ pos[c] \in Nat
  BY OwnTypes
<1>3. buf[c].lo <= pos[c] /\ pos[c] < buf[c].hi
  BY <1>1, <1>2 DEF Loop
<1>4. /\ UnmapSize(pos[c], buf[c].hi) \in Nat \ {0}
      /\ pos[c] + UnmapSize(pos[c], buf[c].hi) <= buf[c].hi
  BY <1>2, <1>3, UnmapSizeFits
<1>5. bend'[c] = pos[c] + UnmapSize(pos[c], buf[c].hi) /\ pc'[c] = "clear"
  BY <1>1, <1>2 DEF ClientTypes
<1>6. pos[c] < bend'[c] /\ bend'[c] <= buf[c].hi /\ bend'[c] \in Nat
  BY <1>2, <1>4, <1>5
<1>7. ClientTypes' /\ OthersSame(c)
  BY <1>1, <1>2, <1>4 DEF ClientTypes, OthersSame, PcStates
<1>8. Loop(c)'
  BY <1>1, <1>2, <1>3, <1>5, <1>6 DEF Loop
<1>9. Mapped(c)' = Mapped(c)
  <2>1. Mapped(c)' = pos[c] .. buf[c].hi - 1
    BY <1>1, <1>5, MappedCasesNext
  <2>2. CASE pc[c] = "unmap"
    BY <2>1, <2>2, MappedCases
  <2>3. CASE pc[c] = "live"
    <3>1. Mapped(c) = Owned(c) /\ pos[c] = buf[c].lo
      BY <1>2, <2>3, MappedCases DEF Loop
    <3> QED
      BY <2>1, <3>1 DEF Owned
  <2> QED
    BY <1>1, <2>2, <2>3
<1>10. buf'[c] = buf[c]
  BY <1>1
<1>11. TabInv'
  BY <1>1, <1>7, <1>8, <1>9, <1>10, MoveKeeps
<1> QED
  BY <1>5, <1>6, <1>11

\* Where the loop of sunxi_iommu_unmap goes.
LEMMA UnmapLoopGoes ==
    ASSUME ClientTypes, NEW c \in Clients, NEW p \in Nat, UnmapLoop(c, p)
    PROVE  /\ pc' = [pc EXCEPT ![c] = pc'[c]] /\ pc'[c] \in {"clear", "unmap", "sync"}
           /\ pc'[c] = "clear" <=> p < bend[c]
           /\ pc'[c] = "unmap" <=> p >= bend[c] /\ p < buf[c].hi
           /\ dt_lock' = IF p < bend[c] THEN c ELSE None
<1>1. bend[c] \in Nat /\ buf[c].hi \in Nat
  BY DEF ClientTypes
<1>2. CASE p < bend[c]
  BY <1>1, <1>2 DEF UnmapLoop, ClientTypes
<1>3. CASE p >= bend[c] /\ p < buf[c].hi
  BY <1>1, <1>3 DEF UnmapLoop, ClientTypes
<1>4. CASE p >= bend[c] /\ p >= buf[c].hi
  BY <1>1, <1>4 DEF UnmapLoop, ClientTypes
<1> QED
  BY <1>1, <1>2, <1>3, <1>4

\* The pages still mapped once pos has moved on.
LEMMA MappedLeft ==
    ASSUME NEW c \in Clients, pc'[c] \in {"clear", "ptwinv", "unmap", "sync"},
           pos'[c] \in Nat, buf[c].hi \in Nat, buf'[c] = buf[c],
           pc'[c] = "sync" => pos'[c] >= buf[c].hi
    PROVE  Mapped(c)' = pos'[c] .. buf[c].hi - 1
<1>1. CASE pc'[c] = "sync"
  <2>1. Mapped(c)' = {}
    BY <1>1, MappedCasesNext
  <2> QED
    BY <1>1, <2>1
<1>2. CASE pc'[c] \in {"clear", "ptwinv", "unmap"}
  BY <1>2, MappedCasesNext
<1> QED
  BY <1>1, <1>2

\* The chunk at pos is there, so that the loop goes on behind it.
LEMMA ClearChunk ==
    ASSUME TabInv, NEW c \in Clients, pc[c] = "clear"
    PROVE  LET k == Tail(pos[c], bend[c]) IN
           /\ pos[c] \in Pages /\ pos[c] < bend[c] /\ bend[c] <= NPages
           /\ dir[IOPDE_INDEX(pos[c])] # NoTable
           /\ AfterChunk(c) = pos[c] + k /\ k \in Nat \ {0} /\ AfterChunk(c) <= bend[c]
           /\ pos[c] .. pos[c] + k - 1 \subseteq Owned(c)
<1>1. /\ ClientTypes /\ Loop(c) /\ buf[c].lo \in Nat /\ buf[c].hi \in Nat /\ pos[c] \in Nat
      /\ bend[c] \in Nat /\ buf[c].base \in Nat /\ buf[c].hi <= NPages
      /\ Owned(c) \subseteq Pages
  BY OwnTypes
<1>2. buf[c].lo <= pos[c] /\ pos[c] < bend[c] /\ bend[c] <= buf[c].hi
  BY <1>1 DEF Loop
<1>3. pos[c] \in Owned(c) /\ pos[c] \in Mapped(c)
  <2>1. Mapped(c) = pos[c] .. buf[c].hi - 1
    BY MappedCases
  <2> QED
    BY <1>1, <1>2, <2>1 DEF Owned
<1>4. pos[c] \in Pages /\ bend[c] <= NPages
  BY <1>1, <1>2, <1>3, Sizes
<1>5. dir[IOPDE_INDEX(pos[c])] # NoTable
  <2>1. IovaToPhys(pos[c]) = FrameOf(c, pos[c])
    BY <1>3, <1>4 DEF TabInv, TableExact
  <2>2. FrameOf(c, pos[c]) # NoFrame
    BY <1>1, <1>2 DEF FrameOf, NoFrame
  <2> QED
    BY <2>1, <2>2 DEF IovaToPhys
<1>6. /\ Tail(pos[c], bend[c]) \in Nat \ {0}
      /\ pos[c] + Tail(pos[c], bend[c]) <= bend[c]
  BY <1>1, <1>2, <1>4, TailFits
<1>7. AfterChunk(c) = pos[c] + Tail(pos[c], bend[c])
  BY <1>5 DEF AfterChunk
<1>8. pos[c] .. pos[c] + Tail(pos[c], bend[c]) - 1 \subseteq Owned(c)
  BY <1>1, <1>2, <1>6 DEF Owned
<1> QED
  BY <1>2, <1>4, <1>5, <1>6, <1>7, <1>8

LEMMA ClearKeeps ==
    ASSUME TabInv, NEW c \in Clients, Clear(c)
    PROVE  TabInv'
<1> DEFINE k == Tail(pos[c], bend[c])
           B == pos[c] .. pos[c] + k - 1
<1>1. /\ pc[c] = "clear" /\ DeleteL2(c)
      /\ chunk' = [chunk EXCEPT ![c] = pos[c]]
      /\ pos' = [pos EXCEPT ![c] = AfterChunk(c)]
      /\ UNCHANGED <<hw, buf, bend>>
  BY DEF Clear
<1>2. /\ pos[c] \in Pages /\ pos[c] < bend[c] /\ bend[c] <= NPages
      /\ dir[IOPDE_INDEX(pos[c])] # NoTable
      /\ AfterChunk(c) = pos[c] + k /\ k \in Nat \ {0} /\ AfterChunk(c) <= bend[c]
      /\ B \subseteq Owned(c)
  BY <1>1, ClearChunk
<1>3. /\ ClientTypes /\ Loop(c) /\ buf[c].lo \in Nat /\ buf[c].hi \in Nat /\ pos[c] \in Nat
      /\ bend[c] \in Nat /\ \A o \in Clients \ {c} : Owned(c) \cap Owned(o) = {}
      /\ Owned(c) \subseteq Pages
  BY OwnTypes
<1>4. TableTypes /\ TablesShared
  BY DEF TabInv
<1>5. /\ TableTypes' /\ TablesShared'
      /\ \A p \in Pages : /\ p \in B => IovaToPhys(p)' = NoFrame
                          /\ p \notin B => IovaToPhys(p)' = IovaToPhys(p)
  BY <1>1, <1>2, <1>3, <1>4, DeleteKeeps
<1> HIDE DEF B, k
<1>6. buf[c].lo <= pos[c] /\ bend[c] <= buf[c].hi
  BY <1>1, <1>3 DEF Loop
<1>7. AfterChunk(c) \in Nat
  BY <1>2, <1>3
<1>8. /\ pc' = [pc EXCEPT ![c] = pc'[c]] /\ pc'[c] \in {"clear", "ptwinv", "unmap", "sync"}
      /\ pc'[c] = "clear" => AfterChunk(c) < bend[c]
      /\ pc'[c] = "unmap" => AfterChunk(c) < buf[c].hi
      /\ pc'[c] = "sync" => AfterChunk(c) >= buf[c].hi
  <2>1. CASE version < 14
    BY <1>3, <2>1 DEF Clear, ClientTypes
  <2>2. CASE ~(version < 14)
    <3>1. UnmapLoop(c, AfterChunk(c))
      BY <2>2 DEF Clear
    <3> QED
      BY <1>2, <1>3, <1>7, <3>1, UnmapLoopGoes
  <2> QED
    BY <2>1, <2>2
<1>9. pos'[c] = AfterChunk(c) /\ chunk'[c] = pos[c] /\ buf'[c] = buf[c] /\ bend'[c] = bend[c]
  BY <1>1, <1>3 DEF ClientTypes
<1>10. ClientTypes' /\ OthersSame(c)
  BY <1>1, <1>3, <1>7, <1>8 DEF ClientTypes, OthersSame, PcStates
<1>11. Loop(c)'
  BY <1>2, <1>3, <1>6, <1>7, <1>8, <1>9 DEF Loop
<1>12. Mapped(c) = pos[c] .. buf[c].hi - 1
  BY <1>1, MappedCases
<1>13. Mapped(c)' = pos[c] + k .. buf[c].hi - 1
  BY <1>2, <1>3, <1>7, <1>8, <1>9, MappedLeft
<1>14. Owned(c)' = Owned(c) /\ \A p : FrameOf(c, p)' = FrameOf(c, p)
  BY <1>9 DEF Owned, FrameOf
<1>15. \A p \in Pages \ B : /\ IovaToPhys(p)' = IovaToPhys(p)
                            /\ p \in Mapped(c)' <=> p \in Mapped(c)
                            /\ p \in Mapped(c)' => FrameOf(c, p)' = FrameOf(c, p)
  <2>1. \A p \in Pages \ B : p \in Mapped(c)' <=> p \in Mapped(c)
    BY <1>2, <1>3, <1>12, <1>13, PageSplit DEF B
  <2> QED
    BY <1>5, <1>14, <2>1
<1>16. \A p \in B : p \notin Mapped(c)' /\ IovaToPhys(p)' = NoFrame
  <2>1. \A p \in B : p \notin Mapped(c)'
    BY <1>2, <1>3, <1>13 DEF B
  <2> QED
    BY <1>2, <1>3, <1>5, <2>1
<1>17. UNCHANGED hw /\ \A o \in Clients \ {c} : Owned(c)' \cap Owned(o) = {}
  BY <1>1, <1>3, <1>14
<1> QED
  BY <1>2, <1>5, <1>10, <1>11, <1>15, <1>16, <1>17, TabStep

LEMMA PtwInvalidKeeps ==
    ASSUME TabInv, NEW c \in Clients, PtwInvalid(c)
    PROVE  TabInv'
<1>1. /\ pc[c] = "ptwinv" /\ UnmapLoop(c, pos[c]) /\ UNCHANGED <<hw, table, buf, pos, chunk, bend>>
  BY DEF PtwInvalid
<1>2. /\ ClientTypes /\ Loop(c) /\ buf[c].lo \in Nat /\ buf[c].hi \in Nat /\ pos[c] \in Nat
      /\ bend[c] \in Nat
  BY OwnTypes
<1>3. /\ pc' = [pc EXCEPT ![c] = pc'[c]] /\ pc'[c] \in {"clear", "unmap", "sync"}
      /\ pc'[c] = "clear" <=> pos[c] < bend[c]
      /\ pc'[c] = "unmap" <=> pos[c] >= bend[c] /\ pos[c] < buf[c].hi
  BY <1>1, <1>2, UnmapLoopGoes
<1>4. ClientTypes' /\ OthersSame(c)
  BY <1>1, <1>2, <1>3 DEF ClientTypes, OthersSame, PcStates
<1>5. Loop(c)'
  BY <1>1, <1>2, <1>3 DEF Loop
<1>6. pos'[c] = pos[c] /\ buf'[c] = buf[c] /\ (pc'[c] = "sync" => pos[c] >= buf[c].hi)
  BY <1>1, <1>2, <1>3
<1>7. Mapped(c)' = Mapped(c)
  <2>1. Mapped(c)' = pos'[c] .. buf[c].hi - 1
    BY <1>2, <1>3, <1>6, MappedLeft
  <2>2. Mapped(c) = pos[c] .. buf[c].hi - 1
    BY <1>1, MappedCases
  <2> QED
    BY <1>6, <2>1, <2>2
<1> QED
  BY <1>1, <1>4, <1>5, <1>6, <1>7, MoveKeeps

LEMMA SyncKeeps ==
    ASSUME TabInv, NEW c \in Clients, Sync(c) \/ SyncPtw(c)
    PROVE  TabInv'
<1>1. ClientTypes
  BY OwnTypes
<1>2. /\ pc[c] \in {"sync", "sync2"} /\ UNCHANGED <<hw, table>>
  BY DEF Sync, SyncPtw
<1>3. Mapped(c) = {}
  BY <1>2, MappedCases
<1>4. CASE Done(c)
  <2>1. ClientTypes' /\ OthersSame(c) /\ pc'[c] = "idle" /\ buf'[c] = NoBuf
    BY <1>1, <1>4 DEF Done, ClientTypes, OthersSame, PcStates, NoBuf
  <2>2. Loop(c)' /\ \A o \in Clients \ {c} : Owned(c)' \cap Owned(o) = {}
    BY <2>1, Sizes DEF Loop, Owned, NoBuf
  <2>3. Mapped(c)' = {}
    BY <2>1, MappedCasesNext
  <2> QED
    BY <1>2, <1>3, <2>1, <2>2, <2>3, QuietStep
<1>5. CASE ~Done(c)
  <2>1. pc' = [pc EXCEPT ![c] = "sync2"] /\ UNCHANGED <<buf, pos, chunk, bend>>
    BY <1>5 DEF Sync, SyncPtw
  <2>2. ClientTypes' /\ OthersSame(c) /\ pc'[c] = "sync2" /\ buf'[c] = buf[c]
    BY <1>1, <2>1 DEF ClientTypes, OthersSame, PcStates
  <2>3. Loop(c)'
    BY <2>1, <2>2, OwnTypes DEF Loop
  <2>4. Mapped(c)' = {}
    BY <2>2, MappedCasesNext
  <2> QED
    BY <1>2, <1>3, <2>2, <2>3, <2>4, MoveKeeps
<1> QED
  BY <1>4, <1>5

LEMMA TabInvStep == TabInv /\ [Next]_vars => TabInv'
<1> SUFFICES ASSUME TabInv, [Next]_vars PROVE TabInv'
  OBVIOUS
<1>1. ASSUME NEW c \in Clients, AllocIova(c) \/ ClientStep(c) PROVE TabInv'
  BY <1>1, AllocIovaKeeps, MapKeeps, MapFailsKeeps, SyncMapKeeps, UnmapKeeps, ClearKeeps,
     PtwInvalidKeeps, SyncKeeps DEF ClientStep
<1>2. ASSUME NEW p \in Pages,
             FaultV1(p) \/ FaultV2(p) \/ FaultV3(p) \/ \E s \in HwSets : Access(s, p)
      PROVE  TabInv'
  BY <1>2, TabFrame DEF FaultV1, FaultV2, FaultV3, FaultDrops, Access, Fill, client
<1>3. CASE UNCHANGED vars
  BY <1>3, TabFrame DEF vars, client
<1> QED
  BY <1>1, <1>2, <1>3 DEF Next, ClientV1, ClientV2, ClientV3

\* For any number of clients, tables and entries, and any page sizes that divide
\* a directory entry or are multiples of it: a second-level table is either in
\* the iopte cache or under exactly one directory entry (sunxi_alloc_iopte,
\* delete_l2_tables), through failed maps too.
THEOREM TablesAreShared == Spec => []TablesShared
<1>1. TabInv => TablesShared
  BY DEF TabInv
<1> QED
  BY TabInit, TabInvStep, <1>1, PTL DEF Spec

\* The page table says exactly what the clients asked for, page by page, at
\* every step of map and unmap: neither a mapped page without its frame nor an
\* entry nobody mapped (sunxi_iommu_map, sunxi_iommu_unmap and the pgtable code).
THEOREM TableIsExact == Spec => []TableExact
<1>1. TabInv => TableExact
  BY DEF TabInv
<1> QED
  BY TabInit, TabInvStep, <1>1, PTL DEF Spec

(***************************************************************************)
(* The caches: the inductive invariant                                     *)
(***************************************************************************)
\* The SoCs whose sunxi_iommu_unmap drops the block from the TLB before it
\* changes the table; up to V11 the driver relies on the zap of iotlb_sync.
NewSoCs == \A h \in Hardware : h.version >= 12

CacheTypes ==
    /\ tlb \in [HwSets -> [Pages -> Int]]
    /\ ptw \in [HwSets -> [Pdes -> Tables \cup {NoTable}]]
    /\ dt_lock \in Clients \cup {None}

\* dt_lock is held exactly inside unmap and inside a zap.
Locked == {"syncmap2", "clear", "ptwinv", "sync2"}
LockHolder == \A c \in Clients : pc[c] \in Locked <=> dt_lock = c

\* A set the SoC does not have caches nothing.
UnusedEmpty ==
    \A s \in HwSets \ Sets : /\ \A p \in Pages : tlb[s][p] = NoFrame
                             /\ \A d \in Pdes : ptw[s][d] = NoTable

\* The pages of c a TLB may still hold: those of the blocks not yet dropped.
Cacheable(c) ==
    CASE pc[c] = "live" -> Owned(c)
      [] pc[c] = "unmap" -> pos[c] .. buf[c].hi - 1
      [] pc[c] \in {"clear", "ptwinv"} -> bend[c] .. buf[c].hi - 1
      [] OTHER -> {}

TlbOK ==
    \A s \in HwSets, p \in Pages : tlb[s][p] # NoFrame =>
        \E c \in Clients : p \in Cacheable(c) /\ tlb[s][p] = FrameOf(c, p)

\* All pages of the directory entry d are in P.
Covers(P, d) == \A p \in Pages : IOPDE_INDEX(p) = d => p \in P

\* A stale PTW entry stands for pages of the client about to drop it only.
PtwOK ==
    \A s \in HwSets, d \in Pdes :
      \/ ptw[s][d] \in {NoTable, dir[d]}
      \/ \E c \in Clients : pc[c] = "ptwinv" /\ IOPDE_INDEX(chunk[c]) = d /\ Covers(Owned(c), d)

\* From V14 on the PTW entries of the tables that the block frees went first.
AheadOf(c) ==
    version >= 14 =>
        /\ pc[c] # "ptwinv"
        /\ pc[c] = "clear" =>
             \A s \in HwSets, d \in Pdes : Covers(pos[c] .. bend[c] - 1, d) => ptw[s][d] = NoTable
Ahead == \A c \in Clients : AheadOf(c)

CacheInv ==
    /\ TabInv /\ CacheTypes /\ LockHolder /\ UnusedEmpty /\ TlbOK /\ PtwOK /\ Ahead

\* An invalidation only takes away.
TlbBelow == \A s \in HwSets, p \in Pages : tlb'[s][p] \in {NoFrame, tlb[s][p]}
PtwBelow == \A s \in HwSets, d \in Pdes : ptw'[s][d] \in {NoTable, ptw[s][d]}

LEMMA CacheableCases ==
    ASSUME NEW c \in Clients
    PROVE  /\ pc[c] = "live" => Cacheable(c) = Owned(c)
           /\ pc[c] = "unmap" => Cacheable(c) = pos[c] .. buf[c].hi - 1
           /\ pc[c] \in {"clear", "ptwinv"} => Cacheable(c) = bend[c] .. buf[c].hi - 1
           /\ pc[c] \in PcStates \ {"live", "unmap", "clear", "ptwinv"} => Cacheable(c) = {}
<1>1. CASE pc[c] = "live"
  BY <1>1 DEF Cacheable
<1>2. CASE pc[c] = "unmap"
  BY <1>2 DEF Cacheable
<1>3. CASE pc[c] \in {"clear", "ptwinv"}
  BY <1>3 DEF Cacheable
<1>4. CASE pc[c] \in PcStates \ {"live", "unmap", "clear", "ptwinv"}
  BY <1>4 DEF Cacheable
<1> QED
  BY <1>1, <1>2, <1>3, <1>4

LEMMA CacheableCasesNext ==
    ASSUME NEW c \in Clients
    PROVE  /\ pc'[c] = "live" => Cacheable(c)' = Owned(c)'
           /\ pc'[c] = "unmap" => Cacheable(c)' = pos'[c] .. buf'[c].hi - 1
           /\ pc'[c] \in {"clear", "ptwinv"} => Cacheable(c)' = bend'[c] .. buf'[c].hi - 1
           /\ pc'[c] \in PcStates \ {"live", "unmap", "clear", "ptwinv"} => Cacheable(c)' = {}
<1>1. CASE pc'[c] = "live"
  BY <1>1 DEF Cacheable
<1>2. CASE pc'[c] = "unmap"
  BY <1>2 DEF Cacheable
<1>3. CASE pc'[c] \in {"clear", "ptwinv"}
  BY <1>3 DEF Cacheable
<1>4. CASE pc'[c] \in PcStates \ {"live", "unmap", "clear", "ptwinv"}
  BY <1>4 DEF Cacheable
<1> QED
  BY <1>1, <1>2, <1>3, <1>4

LEMMA CacheableOwned ==
    ASSUME TabInv, NEW c \in Clients
    PROVE  Cacheable(c) \subseteq Owned(c)
<1>1. /\ Loop(c) /\ pc[c] \in PcStates /\ buf[c].lo \in Nat /\ buf[c].hi \in Nat
      /\ pos[c] \in Nat /\ bend[c] \in Nat
  BY OwnTypes
<1>2. CASE pc[c] = "live"
  BY <1>2, CacheableCases
<1>3. CASE pc[c] = "unmap"
  <2>1. Cacheable(c) = pos[c] .. buf[c].hi - 1 /\ buf[c].lo <= pos[c]
    BY <1>1, <1>3, CacheableCases DEF Loop
  <2> QED
    BY <1>1, <2>1 DEF Owned
<1>4. CASE pc[c] \in {"clear", "ptwinv"}
  <2>1. Cacheable(c) = bend[c] .. buf[c].hi - 1 /\ buf[c].lo <= pos[c] /\ pos[c] <= bend[c]
    BY <1>1, <1>4, CacheableCases DEF Loop
  <2> QED
    BY <1>1, <2>1 DEF Owned
<1>5. CASE pc[c] \in PcStates \ {"live", "unmap", "clear", "ptwinv"}
  BY <1>5, CacheableCases
<1> QED
  BY <1>1, <1>2, <1>3, <1>4, <1>5

\* A page has one owner.
LEMMA OneOwner ==
    ASSUME TabInv, NEW c \in Clients, NEW o \in Clients, NEW p, p \in Owned(c), p \in Owned(o)
    PROVE  c = o
BY DEF TabInv, Apart

\* For a page of a live buffer a walk reads the directory's table, ...
LEMMA LiveWalk ==
    ASSUME CacheInv, NEW c \in Clients, pc[c] = "live", NEW p \in Owned(c), NEW s \in HwSets
    PROVE  ptw[s][IOPDE_INDEX(p)] \in {NoTable, dir[IOPDE_INDEX(p)]}
<1>1. p \in Pages
  BY OwnTypes DEF CacheInv
<1>2. IOPDE_INDEX(p) \in Pdes
  BY <1>1, PageSplit
<1>3. ASSUME NEW o \in Clients, pc[o] = "ptwinv", Covers(Owned(o), IOPDE_INDEX(p))
      PROVE  FALSE
  <2>1. p \in Owned(o)
    BY <1>1, <1>3 DEF Covers
  <2> QED
    BY <1>3, <2>1, OneOwner DEF CacheInv
<1> QED
  BY <1>2, <1>3 DEF CacheInv, PtwOK

\* ... and finds the buffer's frame.
LEMMA LiveEntry ==
    ASSUME CacheInv, NEW c \in Clients, pc[c] = "live", NEW p \in Owned(c), NEW s \in HwSets
    PROVE  /\ WalkTable(s, p) = dir[IOPDE_INDEX(p)]
           /\ WalkEntry(s, p) = FrameOf(c, p)
<1>1. ptw[s][IOPDE_INDEX(p)] \in {NoTable, dir[IOPDE_INDEX(p)]}
  BY LiveWalk
<1>2. WalkTable(s, p) = dir[IOPDE_INDEX(p)]
  BY <1>1 DEF WalkTable
<1>3. WalkEntry(s, p) = IovaToPhys(p)
  BY <1>2 DEF WalkEntry, IovaToPhys
<1>4. p \in Pages /\ p \in Mapped(c)
  BY OwnTypes, MappedCases DEF CacheInv
<1> QED
  BY <1>2, <1>3, <1>4 DEF CacheInv, TabInv, TableExact

(***************************************************************************)
(* The caches: what the steps keep                                         *)
(***************************************************************************)
\* A client that takes, keeps or gives back dt_lock, or has nothing to do with it.
LEMMA LockStep ==
    ASSUME CacheInv, NEW c \in Clients, OthersSame(c),
           \/ /\ dt_lock \in {c, None} /\ dt_lock' \in {c, None}
              /\ pc'[c] \in Locked <=> dt_lock' = c
           \/ dt_lock' = dt_lock /\ pc[c] \notin Locked /\ pc'[c] \notin Locked
    PROVE  LockHolder' /\ dt_lock' \in Clients \cup {None}
<1>1. None \notin Clients
  BY NamesAssumption
<1>2. \A o \in Clients : pc[o] \in Locked <=> dt_lock = o
  BY DEF CacheInv, LockHolder
<1>3. \A o \in Clients \ {c} : pc'[o] = pc[o]
  BY DEF OthersSame
<1>4. \A o \in Clients : pc'[o] \in Locked <=> dt_lock' = o
  BY <1>1, <1>2, <1>3
<1>5. dt_lock' \in Clients \cup {None}
  BY DEF CacheInv, CacheTypes
<1> QED
  BY <1>4, <1>5 DEF LockHolder

\* The other clients' share of the caches.
LEMMA OthersCache ==
    ASSUME NEW c \in Clients, OthersSame(c), NEW o \in Clients \ {c}
    PROVE  Cacheable(o)' = Cacheable(o)
BY DEF OthersSame, Cacheable, Owned

LEMMA TlbStep ==
    ASSUME CacheInv, NEW c \in Clients, OthersSame(c), TlbBelow,
           \A s \in HwSets, p \in Pages :
              p \in Cacheable(c) /\ tlb'[s][p] # NoFrame
                => p \in Cacheable(c)' /\ FrameOf(c, p)' = FrameOf(c, p)
    PROVE  TlbOK'
<1> SUFFICES ASSUME NEW s \in HwSets, NEW p \in Pages, tlb'[s][p] # NoFrame
             PROVE  \E o \in Clients : p \in Cacheable(o)' /\ tlb'[s][p] = FrameOf(o, p)'
  BY DEF TlbOK
<1>1. tlb'[s][p] = tlb[s][p]
  BY DEF TlbBelow
<1>2. PICK o \in Clients : p \in Cacheable(o) /\ tlb[s][p] = FrameOf(o, p)
  BY <1>1 DEF CacheInv, TlbOK
<1>3. CASE o = c
  BY <1>1, <1>2, <1>3
<1>4. CASE o # c
  <2>1. Cacheable(o)' = Cacheable(o) /\ FrameOf(o, p)' = FrameOf(o, p)
    BY <1>4, OthersCache, OthersKeep
  <2> QED
    BY <1>1, <1>2, <2>1
<1> QED
  BY <1>3, <1>4

LEMMA EmptyStep ==
    ASSUME CacheInv, UNCHANGED hw, TlbBelow, PtwBelow
    PROVE  UnusedEmpty'
<1>1. Sets' = Sets
  BY DEF Sets
<1> QED
  BY <1>1 DEF CacheInv, UnusedEmpty, TlbBelow, PtwBelow

\* Invalidations, and nothing done to the directory.
LEMMA PtwStep ==
    ASSUME CacheInv, NEW c \in Clients, OthersSame(c), UNCHANGED dir, PtwBelow,
           pc[c] = "ptwinv" => \A s \in HwSets : ptw'[s][IOPDE_INDEX(chunk[c])] = NoTable
    PROVE  PtwOK'
<1> SUFFICES ASSUME NEW s \in HwSets, NEW d \in Pdes, ptw'[s][d] # NoTable, ptw'[s][d] # dir'[d]
             PROVE  \E o \in Clients : /\ pc'[o] = "ptwinv" /\ IOPDE_INDEX(chunk'[o]) = d
                                       /\ Covers(Owned(o), d)'
  BY DEF PtwOK
<1>1. ptw'[s][d] = ptw[s][d] /\ ptw[s][d] # NoTable /\ ptw[s][d] # dir[d]
  BY DEF PtwBelow
<1>2. PICK o \in Clients : pc[o] = "ptwinv" /\ IOPDE_INDEX(chunk[o]) = d /\ Covers(Owned(o), d)
  BY <1>1 DEF CacheInv, PtwOK
<1>3. o # c
  BY <1>2
<1>4. pc'[o] = pc[o] /\ chunk'[o] = chunk[o] /\ Owned(o)' = Owned(o)
  BY <1>3, OthersKeep DEF OthersSame
<1> QED
  BY <1>2, <1>4 DEF Covers

\* New tables: nobody is in the middle of freeing one.
LEMMA PtwMapStep ==
    ASSUME CacheInv, dt_lock = None, UNCHANGED ptw,
           \A d \in Pdes : dir[d] # NoTable => dir'[d] = dir[d]
    PROVE  PtwOK'
<1>1. \A c \in Clients : pc[c] # "ptwinv"
  BY NamesAssumption DEF CacheInv, LockHolder, Locked
<1>2. \A s \in HwSets, d \in Pdes : ptw[s][d] \in {NoTable, dir[d]}
  BY <1>1 DEF CacheInv, PtwOK
<1>3. \A s \in HwSets, d \in Pdes : ptw'[s][d] \in {NoTable, dir'[d]}
  BY <1>2
<1> QED
  BY <1>3 DEF PtwOK

LEMMA AheadStep ==
    ASSUME CacheInv, NEW c \in Clients, OthersSame(c), UNCHANGED hw, PtwBelow, AheadOf(c)'
    PROVE  Ahead'
<1> SUFFICES ASSUME NEW o \in Clients PROVE AheadOf(o)'
  BY DEF Ahead
<1>1. CASE o # c
  <2>1. AheadOf(o)
    BY DEF CacheInv, Ahead
  <2>2. pc'[o] = pc[o] /\ pos'[o] = pos[o] /\ bend'[o] = bend[o] /\ version' = version
    BY <1>1 DEF OthersSame, version
  <2>3. \A d : Covers(pos[o] .. bend[o] - 1, d)' <=> Covers(pos[o] .. bend[o] - 1, d)
    BY <2>2 DEF Covers
  <2> QED
    BY <2>1, <2>2, <2>3 DEF AheadOf, PtwBelow
<1> QED
  BY <1>1

\* A step of c in which no cache gains anything.
LEMMA CacheStep ==
    ASSUME CacheInv, NEW c \in Clients, OthersSame(c), UNCHANGED hw, TabInv', CacheTypes',
           LockHolder', TlbBelow, PtwBelow, PtwOK', AheadOf(c)',
           \A s \in HwSets, p \in Pages :
              p \in Cacheable(c) /\ tlb'[s][p] # NoFrame
                => p \in Cacheable(c)' /\ FrameOf(c, p)' = FrameOf(c, p)
    PROVE  CacheInv'
<1>1. TlbOK'
  BY TlbStep
<1>2. UnusedEmpty' /\ Ahead'
  BY EmptyStep, AheadStep
<1> QED
  BY <1>1, <1>2 DEF CacheInv

(***************************************************************************)
(* The caches: invalidation                                                *)
(***************************************************************************)
LEMMA WithoutTlb ==
    ASSUME NEW t \in [Pages -> Int], NEW P
    PROVE  /\ TlbWithout(t, P) \in [Pages -> Int]
           /\ \A p \in Pages : /\ TlbWithout(t, P)[p] \in {NoFrame, t[p]}
                               /\ p \in P => TlbWithout(t, P)[p] = NoFrame
BY DEF TlbWithout, NoFrame

LEMMA WithoutPtw ==
    ASSUME NEW w \in [Pdes -> Tables \cup {NoTable}], NEW P
    PROVE  /\ PtwWithout(w, P) \in [Pdes -> Tables \cup {NoTable}]
           /\ \A d \in Pdes : /\ PtwWithout(w, P)[d] \in {NoTable, w[d]}
                              /\ (\E p \in P : IOPDE_INDEX(p) = d) => PtwWithout(w, P)[d] = NoTable
BY DEF PtwWithout

\* sunxi_tlb_invalid reaches every set that caches anything.
LEMMA DropTlbDrops ==
    ASSUME CacheInv, NEW P, tlb' = DropTlb(P)
    PROVE  /\ tlb' \in [HwSets -> [Pages -> Int]] /\ TlbBelow
           /\ \A s \in HwSets, p \in Pages : p \in P => tlb'[s][p] = NoFrame
<1>1. tlb \in [HwSets -> [Pages -> Int]] /\ 0 \in HwSets
  BY DEF CacheInv, CacheTypes, HwSets
<1>2. hw.driver \in {"v1", "v2", "v3"}
  BY HardwareTypes DEF CacheInv, TabInv
<1>3. CASE hw.driver = "v2"
  <2>1. tlb' = [s \in HwSets |-> TlbWithout(tlb[s], P)]
    BY <1>3 DEF DropTlb, DropTlbV2
  <2> QED
    BY <1>1, <2>1, WithoutTlb DEF TlbBelow
<1>4. CASE hw.driver # "v2"
  <2>1. tlb' = [tlb EXCEPT ![0] = TlbWithout(@, P)]
    BY <1>2, <1>4 DEF DropTlb, DropTlbV1, DropTlbV3
  <2>2. /\ tlb' \in [HwSets -> [Pages -> Int]] /\ tlb'[0] = TlbWithout(tlb[0], P)
        /\ \A s \in HwSets \ {0} : tlb'[s] = tlb[s]
    BY <1>1, <2>1, WithoutTlb
  <2>3. \A s \in HwSets \ {0} : \A p \in Pages : tlb[s][p] = NoFrame
    BY <1>4 DEF CacheInv, UnusedEmpty, Sets
  <2> QED
    BY <1>1, <2>2, <2>3, WithoutTlb DEF TlbBelow
<1> QED
  BY <1>3, <1>4

LEMMA DropPtwDrops ==
    ASSUME CacheInv, NEW P, ptw' = DropPtw(P)
    PROVE  /\ ptw' \in [HwSets -> [Pdes -> Tables \cup {NoTable}]] /\ PtwBelow
           /\ \A s \in HwSets, d \in Pdes :
                 (\E p \in P : IOPDE_INDEX(p) = d) => ptw'[s][d] = NoTable
<1>1. ptw \in [HwSets -> [Pdes -> Tables \cup {NoTable}]] /\ 0 \in HwSets
  BY DEF CacheInv, CacheTypes, HwSets
<1>2. hw.driver \in {"v1", "v2", "v3"}
  BY HardwareTypes DEF CacheInv, TabInv
<1>3. CASE hw.driver = "v2"
  <2>1. ptw' = [s \in HwSets |-> PtwWithout(ptw[s], P)]
    BY <1>3 DEF DropPtw, DropPtwV2
  <2> QED
    BY <1>1, <2>1, WithoutPtw DEF PtwBelow
<1>4. CASE hw.driver # "v2"
  <2>1. ptw' = [ptw EXCEPT ![0] = PtwWithout(@, P)]
    BY <1>2, <1>4 DEF DropPtw, DropPtwV1, DropPtwV3
  <2>2. /\ ptw' \in [HwSets -> [Pdes -> Tables \cup {NoTable}]] /\ ptw'[0] = PtwWithout(ptw[0], P)
        /\ \A s \in HwSets \ {0} : ptw'[s] = ptw[s]
    BY <1>1, <2>1, WithoutPtw
  <2>3. \A s \in HwSets \ {0} : \A d \in Pdes : ptw[s][d] = NoTable
    BY <1>4 DEF CacheInv, UnusedEmpty, Sets
  <2> QED
    BY <1>1, <2>2, <2>3, WithoutPtw DEF PtwBelow
<1> QED
  BY <1>3, <1>4

LEMMA CachesSame ==
    /\ UNCHANGED tlb => TlbBelow
    /\ UNCHANGED ptw => PtwBelow
BY DEF TlbBelow, PtwBelow

(***************************************************************************)
(* The caches: every step keeps the invariant                              *)
(***************************************************************************)
LEMMA CacheInit == Init => CacheInv
<1> SUFFICES ASSUME Init PROVE CacheInv
  OBVIOUS
<1>1. /\ \A s \in HwSets, p \in Pages : tlb[s][p] = NoFrame
      /\ \A s \in HwSets, d \in Pdes : ptw[s][d] = NoTable
      /\ \A c \in Clients : pc[c] = "idle"
  BY DEF Init
<1>2. CacheTypes
  BY DEF Init, CacheTypes, NoFrame
<1>3. LockHolder
  BY <1>1, NamesAssumption DEF Init, LockHolder, Locked
<1>4. UnusedEmpty /\ TlbOK /\ PtwOK
  BY <1>1 DEF UnusedEmpty, TlbOK, PtwOK
<1>5. Ahead
  BY <1>1 DEF Ahead, AheadOf
<1> QED
  BY <1>2, <1>3, <1>4, <1>5, TabInit DEF CacheInv

LEMMA OthersSameStep ==
    ASSUME ClientTypes, NEW c \in Clients, AllocIova(c) \/ ClientStep(c)
    PROVE  OthersSame(c) /\ UNCHANGED hw
<1>1. CASE AllocIova(c)
  BY <1>1 DEF AllocIova, OthersSame, ClientTypes
<1>2. CASE Map(c)
  BY <1>2 DEF Map, OthersSame, ClientTypes
<1>3. CASE MapFails(c)
  BY <1>3 DEF MapFails, OthersSame, ClientTypes
<1>4. CASE SyncMap(c)
  BY <1>4 DEF SyncMap, OthersSame, ClientTypes
<1>5. CASE SyncMapPtw(c)
  BY <1>5 DEF SyncMapPtw, OthersSame, ClientTypes
<1>6. CASE Unmap(c)
  BY <1>6 DEF Unmap, OthersSame, ClientTypes
<1>7. CASE Clear(c)
  <2>1. /\ UNCHANGED <<hw, buf, bend>> /\ chunk' = [chunk EXCEPT ![c] = pos[c]]
        /\ pos' = [pos EXCEPT ![c] = AfterChunk(c)]
    BY <1>7 DEF Clear
  <2>2. \A o \in Clients \ {c} : pc'[o] = pc[o]
    <3>1. CASE version < 14
      BY <1>7, <3>1 DEF Clear, ClientTypes
    <3>2. CASE ~(version < 14)
      BY <1>7, <3>2 DEF Clear, UnmapLoop, ClientTypes
    <3> QED
      BY <3>1, <3>2
  <2> QED
    BY <2>1, <2>2 DEF OthersSame, ClientTypes
<1>8. CASE PtwInvalid(c)
  BY <1>8 DEF PtwInvalid, UnmapLoop, OthersSame, ClientTypes
<1>9. CASE Sync(c)
  BY <1>9 DEF Sync, Done, OthersSame, ClientTypes
<1>10. CASE SyncPtw(c)
  BY <1>10 DEF SyncPtw, Done, OthersSame, ClientTypes
<1> QED
  BY <1>1, <1>2, <1>3, <1>4, <1>5, <1>6, <1>7, <1>8, <1>9, <1>10 DEF ClientStep

\* Steps of a client none of whose pages is cached, before and after which it
\* frees no table.
LEMMA UncachedStep ==
    ASSUME CacheInv, NEW c \in Clients, OthersSame(c), UNCHANGED hw, TabInv', CacheTypes',
           LockHolder', TlbBelow, PtwBelow, PtwOK',
           pc[c] \in PcStates \ {"live", "unmap", "clear", "ptwinv"},
           pc'[c] \in PcStates \ {"clear", "ptwinv"}
    PROVE  CacheInv'
<1>1. Cacheable(c) = {}
  BY CacheableCases
<1>2. AheadOf(c)'
  BY DEF AheadOf
<1> QED
  BY <1>1, <1>2, CacheStep

LEMMA AllocCache ==
    ASSUME CacheInv, NEW c \in Clients, AllocIova(c)
    PROVE  CacheInv'
<1>1. ClientTypes /\ TabInv' /\ OthersSame(c) /\ UNCHANGED hw
  BY AllocIovaKeeps, OwnTypes, OthersSameStep DEF CacheInv
<1>2. pc[c] = "idle" /\ pc'[c] = "map" /\ UNCHANGED <<dir, tlb, ptw, dt_lock>>
  BY <1>1 DEF AllocIova, ClientTypes, caches, table
<1>3. TlbBelow /\ PtwBelow /\ CacheTypes'
  BY <1>2, CachesSame DEF CacheInv, CacheTypes
<1>4. LockHolder'
  BY <1>1, <1>2, LockStep DEF Locked
<1>5. PtwOK'
  BY <1>1, <1>2, <1>3, PtwStep
<1> QED
  BY <1>1, <1>2, <1>3, <1>4, <1>5, UncachedStep DEF PcStates

LEMMA MapCache ==
    ASSUME CacheInv, NEW c \in Clients, Map(c) \/ MapFails(c)
    PROVE  CacheInv'
<1>1. ClientTypes
  BY OwnTypes DEF CacheInv
<1>2. /\ TabInv' /\ OthersSame(c) /\ UNCHANGED hw
      /\ \A d \in Pdes : dir[d] # NoTable => dir'[d] = dir[d]
  BY <1>1, MapKeeps, MapFailsKeeps, OthersSameStep DEF CacheInv, ClientStep
<1>3. /\ pc[c] = "map" /\ pc'[c] \in {"syncmap", "map", "sync", "unmap"}
      /\ dt_lock = None /\ UNCHANGED <<tlb, ptw, dt_lock>>
  BY <1>1 DEF Map, MapFails, ClientTypes, caches
<1>4. TlbBelow /\ PtwBelow /\ CacheTypes'
  BY <1>3, CachesSame DEF CacheInv, CacheTypes
<1>5. LockHolder'
  BY <1>2, <1>3, LockStep DEF Locked
<1>6. PtwOK'
  BY <1>2, <1>3, PtwMapStep
<1> QED
  BY <1>2, <1>3, <1>4, <1>5, <1>6, UncachedStep DEF PcStates

\* iotlb_sync_map and iotlb_sync.
LEMMA ZapCache ==
    ASSUME CacheInv, NEW c \in Clients, SyncMap(c) \/ SyncMapPtw(c) \/ Sync(c) \/ SyncPtw(c)
    PROVE  CacheInv'
<1>1. ClientTypes
  BY OwnTypes DEF CacheInv
<1>2. TabInv' /\ OthersSame(c) /\ UNCHANGED hw
  BY <1>1, SyncMapKeeps, SyncKeeps, OthersSameStep DEF CacheInv, ClientStep
<1>3. UNCHANGED dir
  BY DEF SyncMap, SyncMapPtw, Sync, SyncPtw, table
<1>4. UNCHANGED tlb \/ \E P : tlb' = DropTlb(P)
  BY DEF SyncMap, SyncMapPtw, Sync, SyncPtw
<1>5. UNCHANGED ptw \/ \E P : ptw' = DropPtw(P)
  BY DEF SyncMap, SyncMapPtw, Sync, SyncPtw
<1>6. TlbBelow /\ tlb' \in [HwSets -> [Pages -> Int]]
  BY <1>4, CachesSame, DropTlbDrops DEF CacheInv, CacheTypes
<1>7. PtwBelow /\ ptw' \in [HwSets -> [Pdes -> Tables \cup {NoTable}]]
  BY <1>5, CachesSame, DropPtwDrops DEF CacheInv, CacheTypes
<1>8. /\ pc[c] \in {"syncmap", "syncmap2", "sync", "sync2"}
      /\ pc'[c] \in {"syncmap2", "live", "idle", "sync2"}
      /\ \/ /\ dt_lock \in {c, None} /\ dt_lock' \in {c, None}
            /\ pc'[c] \in Locked <=> dt_lock' = c
         \/ dt_lock' = dt_lock /\ pc[c] \notin Locked /\ pc'[c] \notin Locked
  <2>1. None \notin Clients
    BY NamesAssumption
  <2>2. pc[c] \in {"syncmap2", "sync2"} => dt_lock = c
    BY DEF CacheInv, LockHolder, Locked
  <2>3. CASE SyncMap(c)
    BY <1>1, <2>1, <2>3 DEF SyncMap, ClientTypes, Locked
  <2>4. CASE SyncMapPtw(c)
    BY <1>1, <2>1, <2>2, <2>4 DEF SyncMapPtw, ClientTypes, Locked
  <2>5. CASE Sync(c)
    <3>1. CASE version >= 14
      BY <1>1, <2>5, <3>1 DEF Sync, Done, ClientTypes, Locked
    <3>2. CASE ~(version >= 14)
      BY <1>1, <2>1, <2>5, <3>2 DEF Sync, ClientTypes, Locked
    <3> QED
      BY <3>1, <3>2
  <2>6. CASE SyncPtw(c)
    BY <1>1, <2>1, <2>2, <2>6 DEF SyncPtw, Done, ClientTypes, Locked
  <2> QED
    BY <2>3, <2>4, <2>5, <2>6
<1>9. LockHolder' /\ dt_lock' \in Clients \cup {None}
  BY <1>2, <1>8, LockStep
<1>10. CacheTypes'
  BY <1>6, <1>7, <1>9 DEF CacheTypes
<1>11. PtwOK'
  BY <1>2, <1>3, <1>7, <1>8, PtwStep
<1> QED
  BY <1>2, <1>6, <1>7, <1>8, <1>9, <1>10, <1>11, UncachedStep DEF PcStates

LEMMA UnmapCache ==
    ASSUME NewSoCs, CacheInv, NEW c \in Clients, Unmap(c)
    PROVE  CacheInv'
<1>1. /\ ClientTypes /\ Loop(c) /\ pos[c] \in Nat /\ buf[c].lo \in Nat /\ buf[c].hi \in Nat
  BY OwnTypes DEF CacheInv
<1>2. TabInv' /\ OthersSame(c) /\ UNCHANGED hw
  BY <1>1, UnmapKeeps, OthersSameStep DEF CacheInv, ClientStep
<1>3. /\ pos[c] < bend'[c] /\ bend'[c] \in Nat
      /\ bend'[c] = pos[c] + UnmapSize(pos[c], buf[c].hi)
  BY UnmapKeeps DEF CacheInv
<1>4. /\ pc[c] \in {"live", "unmap"} /\ pc'[c] = "clear" /\ dt_lock = None /\ dt_lock' = c
      /\ UNCHANGED <<dir, buf, pos>>
  BY <1>1 DEF Unmap, ClientTypes, table
<1>5. version >= 12
  BY DEF NewSoCs, version, CacheInv, TabInv
<1>6. tlb' = DropTlb(pos[c] .. bend'[c] - 1)
  BY <1>3, <1>5 DEF Unmap
<1>7. ptw' = IF version >= 14 THEN DropPtw(pos[c] .. bend'[c] - 1) ELSE ptw
  BY <1>3 DEF Unmap
<1>8. /\ TlbBelow /\ tlb' \in [HwSets -> [Pages -> Int]]
      /\ \A s \in HwSets, p \in Pages : p \in pos[c] .. bend'[c] - 1 => tlb'[s][p] = NoFrame
  BY <1>6, DropTlbDrops
<1>9. PtwBelow /\ ptw' \in [HwSets -> [Pdes -> Tables \cup {NoTable}]]
  <2>1. CASE version >= 14
    BY <1>7, <2>1, DropPtwDrops
  <2>2. CASE ~(version >= 14)
    BY <1>7, <2>2, CachesSame DEF CacheInv, CacheTypes
  <2> QED
    BY <2>1, <2>2
<1>10. LockHolder' /\ dt_lock' \in Clients \cup {None}
  BY <1>2, <1>4, LockStep DEF Locked
<1>11. CacheTypes'
  BY <1>8, <1>9, <1>10 DEF CacheTypes
<1>12. PtwOK'
  BY <1>2, <1>4, <1>9, PtwStep
<1>13. AheadOf(c)'
  <2> SUFFICES ASSUME version >= 14, NEW s \in HwSets, NEW d \in Pdes,
                      Covers(pos[c] .. bend[c] - 1, d)'
               PROVE  ptw'[s][d] = NoTable
    BY <1>2, <1>4 DEF AheadOf, version
  <2>1. PICK p \in Pages : IOPDE_INDEX(p) = d
    BY EntryHasPage
  <2>2. p \in pos[c] .. bend'[c] - 1
    BY <1>4, <2>1 DEF Covers
  <2>3. ptw' = DropPtw(pos[c] .. bend'[c] - 1)
    BY <1>7
  <2>4. \A e \in Pdes : (\E q \in pos[c] .. bend'[c] - 1 : IOPDE_INDEX(q) = e) => ptw'[s][e] = NoTable
    BY <2>3, DropPtwDrops
  <2> QED
    BY <2>1, <2>2, <2>4
<1>14. Cacheable(c) = pos[c] .. buf[c].hi - 1
  <2>1. CASE pc[c] = "live"
    <3>1. pos[c] = buf[c].lo
      BY <1>1, <2>1 DEF Loop
    <3> QED
      BY <2>1, <3>1, CacheableCases DEF Owned
  <2> QED
    BY <1>4, <2>1, CacheableCases
<1>15. Cacheable(c)' = bend'[c] .. buf[c].hi - 1
  BY <1>4, CacheableCasesNext
<1>16. ASSUME NEW s \in HwSets, NEW p \in Pages, p \in Cacheable(c), tlb'[s][p] # NoFrame
       PROVE  p \in Cacheable(c)' /\ FrameOf(c, p)' = FrameOf(c, p)
  <2>1. p \notin pos[c] .. bend'[c] - 1
    BY <1>8, <1>16
  <2>2. p \in Cacheable(c)'
    BY <1>1, <1>3, <1>14, <1>15, <1>16, <2>1
  <2> QED
    BY <1>4, <2>2 DEF FrameOf
<1> QED
  BY <1>2, <1>8, <1>9, <1>10, <1>11, <1>12, <1>13, <1>16, CacheStep

\* What c's unmap loop leaves in the caches stays its own when pos moves on.
LEMMA LoopCacheable ==
    ASSUME NEW c \in Clients, pc[c] \in {"clear", "ptwinv"}, UNCHANGED <<buf, bend>>,
           pos'[c] \in Nat, bend[c] \in Nat, buf[c].hi \in Nat, pos'[c] <= bend[c],
           pc'[c] \in {"clear", "ptwinv", "unmap", "sync"},
           pc'[c] = "sync" => pos'[c] >= buf[c].hi
    PROVE  \A p \in Cacheable(c) : p \in Cacheable(c)' /\ FrameOf(c, p)' = FrameOf(c, p)
<1>1. Cacheable(c) = bend[c] .. buf[c].hi - 1
  BY CacheableCases
<1>2. \A p : FrameOf(c, p)' = FrameOf(c, p)
  BY DEF FrameOf
<1>3. CASE pc'[c] \in {"clear", "ptwinv"}
  BY <1>1, <1>2, <1>3, CacheableCasesNext
<1>4. CASE pc'[c] = "unmap"
  <2>1. Cacheable(c)' = pos'[c] .. buf[c].hi - 1
    BY <1>4, CacheableCasesNext
  <2> QED
    BY <1>1, <1>2, <2>1
<1>5. CASE pc'[c] = "sync"
  BY <1>1, <1>5
<1> QED
  BY <1>3, <1>4, <1>5

LEMMA ClearCache ==
    ASSUME CacheInv, NEW c \in Clients, Clear(c)
    PROVE  CacheInv'
<1> DEFINE k == Tail(pos[c], bend[c])
           B == pos[c] .. pos[c] + k - 1
<1>1. /\ ClientTypes /\ Loop(c) /\ pos[c] \in Nat /\ bend[c] \in Nat /\ buf[c].hi \in Nat
  BY OwnTypes DEF CacheInv
<1>2. TabInv' /\ OthersSame(c) /\ UNCHANGED hw
  BY <1>1, ClearKeeps, OthersSameStep DEF CacheInv, ClientStep
<1>3. /\ pc[c] = "clear" /\ DeleteL2(c) /\ UNCHANGED <<tlb, ptw, buf, bend>>
      /\ pos'[c] = AfterChunk(c) /\ chunk'[c] = pos[c]
  BY <1>1 DEF Clear, caches, ClientTypes
<1>4. /\ pos[c] \in Pages /\ pos[c] < bend[c] /\ bend[c] <= NPages
      /\ dir[IOPDE_INDEX(pos[c])] # NoTable
      /\ AfterChunk(c) = pos[c] + k /\ k \in Nat \ {0} /\ AfterChunk(c) <= bend[c]
      /\ B \subseteq Owned(c)
  BY <1>3, ClearChunk DEF CacheInv
<1>5. TableTypes /\ TablesShared
  BY DEF CacheInv, TabInv
<1>6. \A d \in Pdes : \/ dir'[d] = dir[d]
                      \/ /\ d = IOPDE_INDEX(pos[c])
                         /\ Covers(B, d)
  BY <1>1, <1>3, <1>4, <1>5, DeleteKeeps DEF Covers
<1> HIDE DEF B, k
<1>7. AfterChunk(c) \in Nat /\ pos[c] <= AfterChunk(c)
  BY <1>1, <1>4
<1>8. dt_lock = c /\ \A o \in Clients : pc[o] # "ptwinv"
  BY <1>3 DEF CacheInv, LockHolder, Locked
<1>9. \/ version < 14 /\ pc'[c] = "ptwinv" /\ dt_lock' = dt_lock
      \/ /\ ~(version < 14) /\ pc'[c] \in {"clear", "unmap", "sync"}
         /\ pc'[c] = "clear" <=> AfterChunk(c) < bend[c]
         /\ pc'[c] = "unmap" <=> AfterChunk(c) >= bend[c] /\ AfterChunk(c) < buf[c].hi
         /\ dt_lock' = IF AfterChunk(c) < bend[c] THEN c ELSE None
  <2>1. CASE version < 14
    BY <1>1, <2>1 DEF Clear, ClientTypes
  <2>2. CASE ~(version < 14)
    <3>1. UnmapLoop(c, AfterChunk(c))
      BY <2>2 DEF Clear
    <3> QED
      BY <1>1, <1>7, <2>2, <3>1, UnmapLoopGoes
  <2> QED
    BY <2>1, <2>2
<1>10. LockHolder' /\ dt_lock' \in Clients \cup {None}
  <2>1. dt_lock' \in {c, None} /\ (pc'[c] \in Locked <=> dt_lock' = c)
    BY <1>8, <1>9, NamesAssumption DEF Locked
  <2> QED
    BY <1>2, <1>8, <2>1, LockStep
<1>11. TlbBelow /\ PtwBelow /\ CacheTypes'
  BY <1>3, <1>10, CachesSame DEF CacheInv, CacheTypes
<1>12. AheadOf(c)
  BY DEF CacheInv, Ahead
<1>13. PtwOK'
  <2> SUFFICES ASSUME NEW s \in HwSets, NEW d \in Pdes, ptw[s][d] # NoTable, ptw[s][d] # dir'[d]
               PROVE  \E o \in Clients : /\ pc'[o] = "ptwinv" /\ IOPDE_INDEX(chunk'[o]) = d
                                         /\ Covers(Owned(o), d)'
    BY <1>3 DEF PtwOK
  <2>1. ptw[s][d] = dir[d]
    BY <1>8 DEF CacheInv, PtwOK
  <2>2. d = IOPDE_INDEX(pos[c]) /\ Covers(B, d)
    BY <1>6, <2>1
  <2>3. CASE version < 14
    <3>1. Owned(c)' = Owned(c)
      BY <1>3 DEF Owned
    <3>2. Covers(Owned(c), d)'
      BY <1>4, <2>2, <3>1 DEF Covers
    <3> QED
      BY <1>3, <1>9, <2>2, <2>3, <3>2
  <2>4. CASE ~(version < 14)
    <3>1. version >= 14
      BY <2>4, HardwareTypes DEF CacheInv, TabInv, version
    <3>2. B \subseteq pos[c] .. bend[c] - 1
      BY <1>1, <1>4 DEF B
    <3>3. Covers(pos[c] .. bend[c] - 1, d)
      BY <2>2, <3>2 DEF Covers
    <3> QED
      BY <1>3, <1>12, <3>1, <3>3 DEF AheadOf
  <2> QED
    BY <2>3, <2>4
<1>14. AheadOf(c)'
  <2>1. CASE version < 14
    <3>1. ~(version' >= 14)
      BY <1>2, <2>1, HardwareTypes DEF CacheInv, TabInv, version
    <3> QED
      BY <3>1 DEF AheadOf
  <2>2. CASE ~(version < 14)
    <3>1. version >= 14
      BY <2>2, HardwareTypes DEF CacheInv, TabInv, version
    <3>2. ASSUME NEW s \in HwSets, NEW d \in Pdes, Covers(pos[c] .. bend[c] - 1, d)'
          PROVE  ptw'[s][d] = NoTable
      <4>1. \A p \in Pages : IOPDE_INDEX(p) = d => p \in AfterChunk(c) .. bend[c] - 1
        BY <1>3, <3>2 DEF Covers
      <4>2. AfterChunk(c) .. bend[c] - 1 \subseteq pos[c] .. bend[c] - 1
        BY <1>1, <1>7
      <4>3. Covers(pos[c] .. bend[c] - 1, d)
        BY <4>1, <4>2 DEF Covers
      <4> QED
        BY <1>3, <1>12, <3>1, <4>3 DEF AheadOf
    <3>3. pc'[c] # "ptwinv"
      BY <1>9, <2>2
    <3> QED
      BY <3>2, <3>3 DEF AheadOf
  <2> QED
    BY <2>1, <2>2
<1>15. \A p \in Cacheable(c) : p \in Cacheable(c)' /\ FrameOf(c, p)' = FrameOf(c, p)
  <2>1. pos'[c] \in Nat /\ pos'[c] <= bend[c]
    BY <1>3, <1>4, <1>7
  <2>2. pc'[c] \in {"clear", "ptwinv", "unmap", "sync"}
    BY <1>9
  <2>3. pc'[c] = "sync" => pos'[c] >= buf[c].hi
    BY <1>1, <1>3, <1>7, <1>9
  <2> QED
    BY <1>1, <1>3, <2>1, <2>2, <2>3, LoopCacheable
<1> QED
  BY <1>2, <1>10, <1>11, <1>13, <1>14, <1>15, CacheStep

LEMMA PtwInvalidCache ==
    ASSUME CacheInv, NEW c \in Clients, PtwInvalid(c)
    PROVE  CacheInv'
<1>1. /\ ClientTypes /\ Loop(c) /\ pos[c] \in Nat /\ bend[c] \in Nat /\ buf[c].hi \in Nat
  BY OwnTypes DEF CacheInv
<1>2. TabInv' /\ OthersSame(c) /\ UNCHANGED hw
  BY <1>1, PtwInvalidKeeps, OthersSameStep DEF CacheInv, ClientStep
<1>3. /\ pc[c] = "ptwinv" /\ ptw' = DropPtw({chunk[c]}) /\ UnmapLoop(c, pos[c])
      /\ UNCHANGED <<dir, tlb, buf, pos, bend>>
  BY DEF PtwInvalid, table
<1>4. /\ pc'[c] \in {"clear", "unmap", "sync"}
      /\ pc'[c] = "clear" <=> pos[c] < bend[c]
      /\ pc'[c] = "unmap" <=> pos[c] >= bend[c] /\ pos[c] < buf[c].hi
      /\ dt_lock' = IF pos[c] < bend[c] THEN c ELSE None
  BY <1>1, <1>3, UnmapLoopGoes
<1>5. dt_lock = c
  BY <1>3 DEF CacheInv, LockHolder, Locked
<1>6. LockHolder' /\ dt_lock' \in Clients \cup {None}
  <2>1. dt_lock' \in {c, None} /\ (pc'[c] \in Locked <=> dt_lock' = c)
    BY <1>4, NamesAssumption DEF Locked
  <2> QED
    BY <1>2, <1>5, <2>1, LockStep
<1>7. /\ ptw' \in [HwSets -> [Pdes -> Tables \cup {NoTable}]] /\ PtwBelow
      /\ \A s \in HwSets, d \in Pdes : d = IOPDE_INDEX(chunk[c]) => ptw'[s][d] = NoTable
  BY <1>3, DropPtwDrops
<1>8. TlbBelow /\ CacheTypes'
  BY <1>3, <1>6, <1>7, CachesSame DEF CacheInv, CacheTypes
<1>9. \A s \in HwSets : ptw'[s][IOPDE_INDEX(chunk[c])] = NoTable
  <2>1. IOPDE_INDEX(chunk[c]) \in Pdes
    BY OwnTypes, IndexInPdes DEF CacheInv
  <2> QED
    BY <1>7, <2>1
<1>10. PtwOK'
  BY <1>2, <1>3, <1>7, <1>9, PtwStep
<1>11. AheadOf(c)'
  <2>1. ~(version >= 14)
    BY <1>3 DEF CacheInv, Ahead, AheadOf
  <2>2. ~(version' >= 14)
    BY <1>2, <2>1 DEF version
  <2> QED
    BY <2>2 DEF AheadOf
<1>12. \A p \in Cacheable(c) : p \in Cacheable(c)' /\ FrameOf(c, p)' = FrameOf(c, p)
  <2>1. pos'[c] \in Nat /\ pos'[c] <= bend[c]
    BY <1>1, <1>3 DEF Loop
  <2>2. pc'[c] = "sync" => pos'[c] >= buf[c].hi
    BY <1>1, <1>3, <1>4
  <2> QED
    BY <1>1, <1>3, <1>4, <2>1, <2>2, LoopCacheable
<1> QED
  BY <1>2, <1>6, <1>7, <1>8, <1>10, <1>11, <1>12, CacheStep

\* Steps of the hardware keep what is about the clients.
LEMMA HwFrame ==
    ASSUME CacheInv, UNCHANGED <<hw, table, dt_lock, client>>
    PROVE  /\ TabInv' /\ LockHolder' /\ Sets' = Sets
           /\ \A c \in Clients : /\ Cacheable(c)' = Cacheable(c) /\ Owned(c)' = Owned(c)
                                 /\ \A p : FrameOf(c, p)' = FrameOf(c, p)
           /\ UNCHANGED <<dir, pc, pos, chunk, bend>> /\ version' = version
<1>1. UNCHANGED <<hw, table, dir, pc, buf, pos, chunk, bend, dt_lock>>
  BY DEF client, table
<1> QED
  BY <1>1, TabFrame DEF CacheInv, LockHolder, Sets, Cacheable, Owned, FrameOf, version

\* The fault interrupt takes away from the caches and does nothing else.
LEMMA FaultCache ==
    ASSUME CacheInv, NEW s \in HwSets, NEW p \in Pages, FaultDrops(s, p)
    PROVE  CacheInv'
<1> DEFINE P == IF version <= 11 THEN {p, p + 2} ELSE p .. p + 3
           W == IF version <= 13 THEN {p, p + 2 * NPte} ELSE p .. p + 2 * NPte - 1
<1>1. /\ tlb' = [tlb EXCEPT ![s] = TlbWithout(@, P)] /\ ptw' = [ptw EXCEPT ![s] = PtwWithout(@, W)]
      /\ UNCHANGED <<hw, table, dt_lock, client>>
  BY DEF FaultDrops
<1> HIDE DEF P, W
<1>2. /\ tlb \in [HwSets -> [Pages -> Int]] /\ ptw \in [HwSets -> [Pdes -> Tables \cup {NoTable}]]
      /\ dt_lock \in Clients \cup {None}
  BY DEF CacheInv, CacheTypes
<1>3. TlbBelow /\ tlb' \in [HwSets -> [Pages -> Int]]
  BY <1>1, <1>2, WithoutTlb DEF TlbBelow
<1>4. PtwBelow /\ ptw' \in [HwSets -> [Pdes -> Tables \cup {NoTable}]]
  BY <1>1, <1>2, WithoutPtw DEF PtwBelow
<1>5. CacheTypes'
  BY <1>1, <1>2, <1>3, <1>4 DEF CacheTypes
<1>6. /\ TabInv' /\ LockHolder' /\ Sets' = Sets
      /\ \A c \in Clients : /\ Cacheable(c)' = Cacheable(c) /\ Owned(c)' = Owned(c)
                            /\ \A q : FrameOf(c, q)' = FrameOf(c, q)
      /\ UNCHANGED <<dir, pc, pos, chunk, bend>> /\ version' = version
  BY <1>1, HwFrame
<1>7. UnusedEmpty'
  BY <1>1, <1>3, <1>4, EmptyStep
<1>8. TlbOK'
  <2> SUFFICES ASSUME NEW r \in HwSets, NEW q \in Pages, tlb'[r][q] # NoFrame
               PROVE  \E c \in Clients : q \in Cacheable(c)' /\ tlb'[r][q] = FrameOf(c, q)'
    BY DEF TlbOK
  <2>1. tlb'[r][q] = tlb[r][q]
    BY <1>3 DEF TlbBelow
  <2>2. PICK c \in Clients : q \in Cacheable(c) /\ tlb[r][q] = FrameOf(c, q)
    BY <2>1 DEF CacheInv, TlbOK
  <2> QED
    BY <1>6, <2>1, <2>2
<1>9. PtwOK'
  BY <1>4, <1>6 DEF CacheInv, PtwOK, PtwBelow, Covers
<1>10. Ahead'
  BY <1>4, <1>6 DEF CacheInv, Ahead, AheadOf, PtwBelow, Covers
<1> QED
  BY <1>5, <1>6, <1>7, <1>8, <1>9, <1>10 DEF CacheInv

\* A master fills the caches from the table, for live pages only.
LEMMA AccessCache ==
    ASSUME CacheInv, NEW s \in HwSets, NEW p \in Pages, Access(s, p)
    PROVE  CacheInv'
<1> DEFINE d == IOPDE_INDEX(p)
<1>1. PICK c \in Clients : pc[c] = "live" /\ p \in Owned(c)
  BY DEF Access, Live
<1>2. WalkTable(s, p) = dir[d] /\ WalkEntry(s, p) = FrameOf(c, p)
  BY <1>1, LiveEntry
<1>3. /\ s \in Sets /\ UNCHANGED <<hw, table, dt_lock, client>>
      /\ tlb' = [tlb EXCEPT ![s][p] = FrameOf(c, p)] /\ ptw' = [ptw EXCEPT ![s][d] = dir[d]]
  BY <1>2 DEF Access, Fill
<1>4. d \in Pdes /\ p \in Int
  BY PageSplit
<1>5. FrameOf(c, p) \in Int /\ dir[d] \in Tables \cup {NoTable}
  BY <1>4, OwnTypes DEF FrameOf, CacheInv, TabInv, TableTypes
<1>6. /\ tlb \in [HwSets -> [Pages -> Int]] /\ ptw \in [HwSets -> [Pdes -> Tables \cup {NoTable}]]
      /\ dt_lock \in Clients \cup {None}
  BY DEF CacheInv, CacheTypes
<1>7. /\ TabInv' /\ LockHolder' /\ Sets' = Sets
      /\ \A o \in Clients : /\ Cacheable(o)' = Cacheable(o) /\ Owned(o)' = Owned(o)
                            /\ \A q : FrameOf(o, q)' = FrameOf(o, q)
      /\ UNCHANGED <<dir, pc, pos, chunk, bend>> /\ version' = version
  BY <1>3, HwFrame
<1> HIDE DEF d
<1>8. CacheTypes'
  BY <1>3, <1>4, <1>5, <1>6 DEF CacheTypes
<1>9. /\ \A r \in HwSets, q \in Pages : <<r, q>> # <<s, p>> => tlb'[r][q] = tlb[r][q]
      /\ \A r \in HwSets, e \in Pdes : <<r, e>> # <<s, d>> => ptw'[r][e] = ptw[r][e]
      /\ tlb'[s][p] = FrameOf(c, p) /\ ptw'[s][d] = dir[d]
  BY <1>3, <1>4, <1>6
<1>10. UnusedEmpty'
  BY <1>3, <1>7, <1>9 DEF CacheInv, UnusedEmpty
<1>11. TlbOK'
  <2> SUFFICES ASSUME NEW r \in HwSets, NEW q \in Pages, tlb'[r][q] # NoFrame
               PROVE  \E o \in Clients : q \in Cacheable(o)' /\ tlb'[r][q] = FrameOf(o, q)'
    BY DEF TlbOK
  <2>1. CASE r = s /\ q = p
    BY <1>1, <1>7, <1>9, <2>1, CacheableCases
  <2>2. CASE ~(r = s /\ q = p)
    <3>1. tlb'[r][q] = tlb[r][q]
      BY <1>9, <2>2
    <3>2. PICK o \in Clients : q \in Cacheable(o) /\ tlb[r][q] = FrameOf(o, q)
      BY <3>1 DEF CacheInv, TlbOK
    <3> QED
      BY <1>7, <3>1, <3>2
  <2> QED
    BY <2>1, <2>2
<1>12. PtwOK'
  <2> SUFFICES ASSUME NEW r \in HwSets, NEW e \in Pdes, ptw'[r][e] # NoTable, ptw'[r][e] # dir'[e]
               PROVE  \E o \in Clients : /\ pc'[o] = "ptwinv" /\ IOPDE_INDEX(chunk'[o]) = e
                                         /\ Covers(Owned(o), e)'
    BY DEF PtwOK
  <2>1. ptw'[r][e] = ptw[r][e] /\ dir'[e] = dir[e]
    BY <1>7, <1>9
  <2>2. PICK o \in Clients : pc[o] = "ptwinv" /\ IOPDE_INDEX(chunk[o]) = e /\ Covers(Owned(o), e)
    BY <2>1 DEF CacheInv, PtwOK
  <2>3. Covers(Owned(o), e)'
    BY <1>7, <2>2 DEF Covers
  <2> QED
    BY <1>7, <2>2, <2>3
<1>13. Ahead'
  <2> SUFFICES ASSUME NEW o \in Clients PROVE AheadOf(o)'
    BY DEF Ahead
  <2>1. AheadOf(o)
    BY DEF CacheInv, Ahead
  <2>2. ASSUME version >= 14, pc[o] = "clear", NEW r \in HwSets, NEW e \in Pdes,
               Covers(pos[o] .. bend[o] - 1, e)
        PROVE  ptw'[r][e] = NoTable
    <3>1. ptw[r][e] = NoTable
      BY <2>1, <2>2 DEF AheadOf
    <3>2. e # d
      <4>1. SUFFICES ASSUME e = d PROVE FALSE
        OBVIOUS
      <4>2. p \in pos[o] .. bend[o] - 1
        BY <2>2, <4>1 DEF Covers, d
      <4>3. pos[o] .. bend[o] - 1 \subseteq Owned(o)
        <5>1. /\ Loop(o) /\ buf[o].lo \in Nat /\ buf[o].hi \in Nat /\ pos[o] \in Nat
              /\ bend[o] \in Nat
          BY OwnTypes DEF CacheInv
        <5>2. buf[o].lo <= pos[o] /\ bend[o] <= buf[o].hi
          BY <2>2, <5>1 DEF Loop
        <5> QED
          BY <5>1, <5>2 DEF Owned
      <4> QED
        BY <1>1, <2>2, <4>2, <4>3, OneOwner DEF CacheInv
    <3> QED
      BY <1>9, <3>1, <3>2
  <2>3. \A e : Covers(pos[o] .. bend[o] - 1, e)' <=> Covers(pos[o] .. bend[o] - 1, e)
    BY <1>7 DEF Covers
  <2> QED
    BY <1>7, <2>1, <2>2, <2>3 DEF AheadOf
<1> QED
  BY <1>7, <1>8, <1>10, <1>11, <1>12, <1>13 DEF CacheInv

LEMMA CacheSame == CacheInv /\ UNCHANGED vars => CacheInv'
<1> SUFFICES ASSUME CacheInv, UNCHANGED vars PROVE CacheInv'
  OBVIOUS
<1>1. UNCHANGED <<hw, table, dt_lock, client, tlb, ptw>>
  BY DEF vars, caches
<1>2. /\ TabInv' /\ LockHolder' /\ Sets' = Sets
      /\ \A c \in Clients : /\ Cacheable(c)' = Cacheable(c) /\ Owned(c)' = Owned(c)
                            /\ \A p : FrameOf(c, p)' = FrameOf(c, p)
      /\ UNCHANGED <<dir, pc, pos, chunk, bend>> /\ version' = version
  BY <1>1, HwFrame
<1>3. CacheTypes' /\ UnusedEmpty'
  BY <1>1, <1>2 DEF CacheInv, CacheTypes, UnusedEmpty
<1>4. TlbOK' /\ PtwOK' /\ Ahead'
  BY <1>1, <1>2 DEF CacheInv, TlbOK, PtwOK, Ahead, AheadOf, Covers
<1> QED
  BY <1>2, <1>3, <1>4 DEF CacheInv

LEMMA CacheInvStep ==
    ASSUME NewSoCs
    PROVE  CacheInv /\ [Next]_vars => CacheInv'
<1> SUFFICES ASSUME CacheInv, [Next]_vars PROVE CacheInv'
  OBVIOUS
<1>1. ASSUME NEW c \in Clients, AllocIova(c) \/ ClientStep(c) PROVE CacheInv'
  BY <1>1, AllocCache, MapCache, ZapCache, UnmapCache, ClearCache, PtwInvalidCache DEF ClientStep
<1>2. ASSUME NEW p \in Pages, FaultV1(p) \/ FaultV2(p) \/ FaultV3(p) PROVE CacheInv'
  BY <1>2, FaultCache DEF FaultV1, FaultV2, FaultV3, HwSets
<1>3. ASSUME NEW p \in Pages, NEW s \in HwSets, Access(s, p) PROVE CacheInv'
  BY <1>3, AccessCache
<1>4. CASE UNCHANGED vars
  BY <1>4, CacheSame
<1> QED
  BY <1>1, <1>2, <1>3, <1>4 DEF Next, ClientV1, ClientV2, ClientV3

\* On every SoC from V12 on, with any number of clients: for a page of a live
\* buffer the TLB and the PTW cache of each set hold nothing or what the page
\* table says, whatever the other clients map, unmap and sync at the same time
\* and whatever the masters and the fault interrupt do to the caches.
THEOREM DmaAlwaysGoesHome ==
    ASSUME NewSoCs
    PROVE  Spec => []DmaGoesHome
<1>1. CacheInv => DmaGoesHome
  <2> SUFFICES ASSUME CacheInv, NEW c \in Clients, pc[c] = "live", NEW p \in Owned(c), NEW s \in HwSets
               PROVE  /\ tlb[s][p] \in {NoFrame, FrameOf(c, p)}
                      /\ ptw[s][IOPDE_INDEX(p)] \in {NoTable, dir[IOPDE_INDEX(p)]}
    BY DEF DmaGoesHome
  <2>1. p \in Pages
    BY OwnTypes DEF CacheInv
  <2>2. ASSUME NEW o \in Clients, p \in Cacheable(o) PROVE o = c
    BY <2>2, CacheableOwned, OneOwner DEF CacheInv
  <2>3. tlb[s][p] \in {NoFrame, FrameOf(c, p)}
    BY <2>1, <2>2 DEF CacheInv, TlbOK
  <2> QED
    BY <2>3, LiveWalk
<1>2. Init /\ [][Next]_vars => []CacheInv
  BY CacheInit, CacheInvStep, PTL
<1> QED
  BY <1>1, <1>2, PTL DEF Spec

\* On every SoC from V12 on: a page no client owns is in no TLB, so that the
\* next buffer the iova allocator puts there starts clean (the invalidations of
\* sunxi_iommu_unmap come before the iova range is given back).
THEOREM UnmapsInvalidate ==
    ASSUME NewSoCs
    PROVE  Spec => []UnmapInvalidates
<1>1. CacheInv => UnmapInvalidates
  <2> SUFFICES ASSUME CacheInv, NEW p \in Pages, \A c \in Clients : p \notin Owned(c), NEW s \in HwSets
               PROVE  tlb[s][p] = NoFrame
    BY DEF UnmapInvalidates
  <2>1. \A c \in Clients : p \notin Cacheable(c)
    BY CacheableOwned DEF CacheInv
  <2> QED
    BY <2>1 DEF CacheInv, TlbOK
<1>2. Init /\ [][Next]_vars => []CacheInv
  BY CacheInit, CacheInvStep, PTL
<1> QED
  BY <1>1, <1>2, PTL DEF Spec

\* On every SoC from V12 on: no PTW cache leads to a freed table, except that of
\* the chunk whose client still holds dt_lock on its way to
\* sunxi_ptw_cache_invalid.
THEOREM FreedTablesUncached ==
    ASSUME NewSoCs
    PROVE  Spec => []FreedTableUncached
<1>1. CacheInv => FreedTableUncached
  BY DEF CacheInv, PtwOK, FreedTableUncached
<1>2. Init /\ [][Next]_vars => []CacheInv
  BY CacheInit, CacheInvStep, PTL
<1> QED
  BY <1>1, <1>2, PTL DEF Spec
=============================================================================
