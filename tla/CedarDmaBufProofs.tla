------------------------- MODULE CedarDmaBufProofs --------------------------
(***************************************************************************)
(* Proofs about CedarDmaBuf, for every set of processes, threads, files,   *)
(* descriptors and dma-bufs.  HoldsExact is inductive on its own, given    *)
(* what appending to and removing from the list do to the number of        *)
(* entries.  ViewExact needs to know that a disciplined process leaves     *)
(* nothing on the list when it closes its file, so that its next file may  *)
(* have the same address.                                                  *)
(***************************************************************************)
EXTENDS CedarDmaBuf, FiniteSetTheorems, SequenceTheorems, TLAPS

Entry == [fd : Fds, p_id : Processes, filp : Filps, buf : Bufs]

DmaTypes ==
    /\ list \in Seq(Entry)
    /\ attached \in BOOLEAN
    /\ filp \in [Processes -> Filps \cup {None}]
    /\ fds \in [Processes -> [Fds -> Bufs \cup {None}]]
    /\ ref \in [Bufs -> Int] /\ att \in [Bufs -> Int] /\ maps \in [Bufs -> Int]
    /\ pc \in [Threads -> PcStates]
    /\ arg \in [Threads -> [fd : Fds \cup {None}, buf : Bufs \cup {None}]]
    /\ view \in [Processes -> [Fds -> Bufs \cup {None}]]
    /\ dead \subseteq Processes

\* buf_info is filled in as map_dma_buf_addr goes on.
ArgFilled ==
    \A t \in Threads :
      /\ pc[t] = "idle" => arg[t] = NoArg
      /\ pc[t] # "idle" => arg[t].fd \in Fds
      /\ pc[t] \in {"attach", "map", "add"} => arg[t].buf \in Bufs

\* A call in progress keeps the file of its process open.
BusyOpen == \A t \in Threads : pc[t] # "idle" => filp[Process[t]] # None /\ attached

HoldsInv == DmaTypes /\ ArgFilled /\ BusyOpen /\ HoldsExact

\* The first call attaches the device.
ListAttached == list # <<>> => attached

\* What is closed has no view, and the dead have closed everything.
ClosedBlind ==
    /\ \A p \in Processes, f \in Fds : filp[p] = None => view[p][f] = None
    /\ \A p \in dead : filp[p] = None

\* All entries of a living disciplined process are of its present file.
OwnFileOnly ==
    \A p \in Disciplined \ dead, i \in 1 .. Len(list) :
      list[i].p_id = p => list[i].filp = filp[p]

\* A disciplined process maps a descriptor once at a time.
MapsOnce ==
    \A t \in Threads : Process[t] \in Disciplined /\ pc[t] # "idle" =>
      /\ view[Process[t]][arg[t].fd] = None
      /\ \A u \in Threads : Process[u] = Process[t] /\ arg[u].fd = arg[t].fd => u = t

\* Entry e is the one Unmap of descriptor f by process p looks for, and
\* ViewExact, position by position.
Hit(e, p, f) == e.fd = f /\ e.p_id = p /\ e.filp = filp[p]
ViewAt(p, f) ==
    /\ view[p][f] = None => \A i \in 1 .. Len(list) : ~Hit(list[i], p, f)
    /\ view[p][f] # None =>
         \E i \in 1 .. Len(list) :
           /\ Hit(list[i], p, f) /\ list[i].buf = view[p][f]
           /\ \A j \in 1 .. Len(list) : Hit(list[j], p, f) => j = i
ViewsAt == \A p \in Disciplined, f \in Fds : filp[p] # None => ViewAt(p, f)

ViewInv == DmaTypes /\ ArgFilled /\ BusyOpen /\ ListAttached /\ ClosedBlind
           /\ OwnFileOnly /\ MapsOnce /\ ViewsAt


\* RemoveAt closes the gap.
LEMMA RemoveAtShape ==
    ASSUME NEW S, NEW s \in Seq(S), NEW k \in 1 .. Len(s)
    PROVE  /\ RemoveAt(s, k) \in Seq(S)
           /\ Len(RemoveAt(s, k)) = Len(s) - 1
           /\ \A i \in 1 .. Len(s) - 1 :
                RemoveAt(s, k)[i] = IF i < k THEN s[i] ELSE s[i + 1]
  <1>1. /\ SubSeq(s, 1, k - 1) \in Seq(S) /\ Len(SubSeq(s, 1, k - 1)) = k - 1
        /\ \A i \in 1 .. k - 1 : SubSeq(s, 1, k - 1)[i] = s[i]
    OBVIOUS
  <1>2. /\ SubSeq(s, k + 1, Len(s)) \in Seq(S) /\ Len(SubSeq(s, k + 1, Len(s))) = Len(s) - k
        /\ \A i \in 1 .. Len(s) - k : SubSeq(s, k + 1, Len(s))[i] = s[k + i]
    OBVIOUS
  <1> DEFINE a == SubSeq(s, 1, k - 1)
             b == SubSeq(s, k + 1, Len(s))
  <1>3. RemoveAt(s, k) = a \o b
    BY DEF RemoveAt
  <1>a. /\ a \in Seq(S) /\ Len(a) = k - 1
        /\ \A i \in 1 .. k - 1 : a[i] = s[i]
    BY <1>1
  <1>b. /\ b \in Seq(S) /\ Len(b) = Len(s) - k
        /\ \A i \in 1 .. Len(s) - k : b[i] = s[k + i]
    BY <1>2
  <1> HIDE DEF a, b
  <1>4. /\ a \o b \in Seq(S) /\ Len(a \o b) = Len(s) - 1
        /\ \A i \in 1 .. Len(s) - 1 : (a \o b)[i] = IF i <= k - 1 THEN a[i] ELSE b[i - (k - 1)]
    <2>1. /\ a \o b \in Seq(S) /\ Len(a \o b) = Len(a) + Len(b)
          /\ \A i \in 1 .. Len(a) + Len(b) : (a \o b)[i] = IF i <= Len(a) THEN a[i] ELSE b[i - Len(a)]
      BY <1>a, <1>b, ConcatProperties
    <2>2. Len(a) = k - 1 /\ Len(a) + Len(b) = Len(s) - 1
      BY <1>a, <1>b
    <2>3. QED
      BY <2>1, <2>2
  <1>5. ASSUME NEW i \in 1 .. Len(s) - 1 PROVE (a \o b)[i] = IF i < k THEN s[i] ELSE s[i + 1]
    <2>1. CASE i < k
      BY <1>a, <1>4, <2>1
    <2>2. CASE i >= k
      <3>1. i - (k - 1) \in 1 .. Len(s) - k /\ k + (i - (k - 1)) = i + 1 /\ ~(i <= k - 1) /\ ~(i < k)
        BY <2>2
      <3>2. b[i - (k - 1)] = s[k + (i - (k - 1))]
        BY <1>b, <3>1
      <3>3. QED
        BY <1>4, <3>1, <3>2
    <2>3. i < k \/ i >= k
      OBVIOUS
    <2>4. QED
      BY <2>1, <2>2, <2>3
  <1>6. QED
    BY <1>3, <1>4, <1>5

\* The positions of s whose entries are in T.
Places(s, T) == {i \in 1 .. Len(s) : s[i] \in T}

LEMMA PlacesFinite ==
    ASSUME NEW S, NEW s \in Seq(S), NEW T
    PROVE  IsFiniteSet(Places(s, T)) /\ Cardinality(Places(s, T)) \in Nat
  <1>1. IsFiniteSet(1 .. Len(s))
    BY FS_Interval
  <1>2. QED
    BY <1>1, FS_Subset, FS_CardinalityType DEF Places

\* Appending an entry adds its position, removing one takes one away.
LEMMA AppendCounts ==
    ASSUME NEW S, NEW s \in Seq(S), NEW e \in S, NEW T
    PROVE  Cardinality(Places(Append(s, e), T)) =
             Cardinality(Places(s, T)) + (IF e \in T THEN 1 ELSE 0)
  <1>1. CASE e \in T
    <2>1. Places(Append(s, e), T) = Places(s, T) \cup {Len(s) + 1}
      BY <1>1 DEF Places
    <2>2. Len(s) + 1 \notin Places(s, T)
      BY DEF Places
    <2>3. QED
      BY <1>1, <2>1, <2>2, PlacesFinite, FS_AddElement
  <1>2. CASE e \notin T
    <2>1. Places(Append(s, e), T) = Places(s, T)
      BY <1>2 DEF Places
    <2>2. QED
      BY <1>2, <2>1, PlacesFinite
  <1>3. QED
    BY <1>1, <1>2

LEMMA RemoveCounts ==
    ASSUME NEW S, NEW s \in Seq(S), NEW k \in 1 .. Len(s), NEW T
    PROVE  Cardinality(Places(RemoveAt(s, k), T)) =
             Cardinality(Places(s, T)) - (IF s[k] \in T THEN 1 ELSE 0)
  <1> DEFINE old == Places(s, T) \ {k}
             new == Places(RemoveAt(s, k), T)
             f == [i \in old |-> IF i < k THEN i ELSE i - 1]
  <1>r. /\ Len(RemoveAt(s, k)) = Len(s) - 1 /\ Len(s) \in Nat
        /\ \A i \in 1 .. Len(s) - 1 : RemoveAt(s, k)[i] = IF i < k THEN s[i] ELSE s[i + 1]
    BY RemoveAtShape
  <1>1. f \in [old -> new]
    <2>1. ASSUME NEW i \in old PROVE f[i] \in new
      BY <1>r DEF Places
    <2>2. QED
      BY <2>1
  <1>2. \A i, j \in old : f[i] = f[j] => i = j
    BY DEF Places
  <1>3. \A j \in new : \E i \in old : f[i] = j
    <2>1. ASSUME NEW j \in new PROVE \E i \in old : f[i] = j
      <3>1. CASE j < k
        <4>1. j \in old
          BY <3>1, <1>r DEF Places
        <4>2. QED
          BY <3>1, <4>1
      <3>2. CASE j >= k
        <4>1. j + 1 \in old
          BY <3>2, <1>r DEF Places
        <4>2. f[j + 1] = j
          BY <3>2, <4>1 DEF Places
        <4>3. QED
          BY <4>1, <4>2
      <3>3. j \in Nat
        BY <1>r DEF Places
      <3>4. QED
        BY <3>1, <3>2, <3>3
    <2>2. QED
      BY <2>1
  <1>4. ExistsBijection(old, new)
    BY <1>1, <1>2, <1>3 DEF ExistsBijection, Bijection, Injection, Surjection, IsInjective
  <1>5. IsFiniteSet(old)
    BY PlacesFinite, FS_Subset
  <1>6. Cardinality(new) = Cardinality(old)
    BY <1>4, <1>5, FS_Bijection
  <1>7. CASE s[k] \in T
    BY <1>6, <1>7, PlacesFinite, FS_RemoveElement DEF Places
  <1>8. CASE s[k] \notin T
    <2>1. old = Places(s, T)
      BY <1>8 DEF Places
    <2>2. Cardinality(Places(s, T)) \in Nat
      BY PlacesFinite
    <2>3. Cardinality(new) = Cardinality(Places(s, T))
      BY <1>6, <2>1
    <2>4. QED
      BY <1>8, <2>2, <2>3
  <1>9. QED
    BY <1>7, <1>8
----------------------------------------------------------------------------
(* Types and counts: HoldsExact.                                           *)

\* Nothing but thread t moves in map_dma_buf_addr.
OnlyMoves(t) ==
    \A u \in Threads \ {t} : pc'[u] = pc[u] /\ arg'[u] = arg[u]

\* Thread t counts for b at the points of S.
In(t, b, S) == arg[t].buf = b /\ pc[t] \in S

LEMMA InCallFinite ==
    ASSUME NEW b, NEW S
    PROVE  IsFiniteSet({t \in Threads : In(t, b, S)}) /\ InCall(b, S) \in Nat
  <1>1. IsFiniteSet({t \in Threads : In(t, b, S)})
    BY ProcessAssumption, FS_Subset
  <1>2. QED
    BY <1>1, FS_CardinalityType DEF InCall, In

LEMMA InCallStep ==
    ASSUME NEW t \in Threads, OnlyMoves(t), NEW b, NEW S
    PROVE  InCall(b, S)' = InCall(b, S) + (IF In(t, b, S)' THEN 1 ELSE 0)
                                        - (IF In(t, b, S) THEN 1 ELSE 0)
  <1> DEFINE K == {u \in Threads : In(u, b, S)}
             L == {u \in Threads : In(u, b, S)'}
  <1>1. InCall(b, S) = Cardinality(K) /\ InCall(b, S)' = Cardinality(L)
    BY DEF InCall, In
  <1>2. IsFiniteSet(K) /\ Cardinality(K) \in Nat
    BY <1>1, InCallFinite
  <1>3. \A u \in Threads \ {t} : In(u, b, S)' <=> In(u, b, S)
    BY DEF OnlyMoves, In
  <1>4. CASE In(t, b, S)' /\ ~In(t, b, S)
    <2>1. L = K \cup {t} /\ t \notin K
      BY <1>3, <1>4
    <2>2. Cardinality(L) = Cardinality(K) + 1
      BY <1>2, <2>1, FS_AddElement
    <2>3. QED
      BY <1>1, <1>2, <1>4, <2>2
  <1>5. CASE ~In(t, b, S)' /\ In(t, b, S)
    <2>1. L = K \ {t} /\ t \in K
      BY <1>3, <1>5
    <2>2. Cardinality(L) = Cardinality(K) - 1
      BY <1>2, <2>1, FS_RemoveElement
    <2>3. QED
      BY <1>1, <1>2, <1>5, <2>2
  <1>6. CASE In(t, b, S)' <=> In(t, b, S)
    <2>1. L = K
      BY <1>3, <1>6
    <2>2. QED
      BY <1>1, <1>2, <1>6, <2>1
  <1>7. QED
    BY <1>4, <1>5, <1>6

\* The entries that hold buffer b.
Holding(b) == {e \in Entry : e.buf = b}

LEMMA EntriesArePlaces ==
    ASSUME list \in Seq(Entry), NEW b
    PROVE  Entries(b) = Cardinality(Places(list, Holding(b))) /\ Entries(b) \in Nat
  <1>1. {i \in 1 .. Len(list) : list[i].buf = b} = Places(list, Holding(b))
    BY DEF Places, Holding
  <1>2. QED
    BY <1>1, PlacesFinite DEF Entries

\* Unmap takes the first entry that matches.
LEMMA FirstPlace ==
    ASSUME NEW I \in SUBSET Nat, I # {}
    PROVE  \E j \in I : \A k \in I : j <= k
  <1>1. PICK j \in I : \A k \in I : ~(<<k, j>> \in OpToRel(<, Nat))
    BY WFMin, NatLessThanWellFounded
  <1>2. ASSUME NEW k \in I PROVE j <= k
    <2>1. <<k, j>> \in Nat \X Nat /\ ~(<<k, j>> \in {x \in Nat \X Nat : x[1] < x[2]})
      BY <1>1 DEF OpToRel
    <2>2. ~(k < j)
      BY <2>1
    <2>3. QED
      BY <2>2
  <1>3. QED
    BY <1>2

MatchPlaces(t, f) == {i \in 1 .. Len(list) : Matches(list[i], t, f)}
UnmapPlace(t, f) == CHOOSE j \in MatchPlaces(t, f) : \A k \in MatchPlaces(t, f) : j <= k

LEMMA UnmapPlaceMatches ==
    ASSUME list \in Seq(Entry), NEW t \in Threads, NEW f \in Fds, MatchPlaces(t, f) # {}
    PROVE  UnmapPlace(t, f) \in 1 .. Len(list) /\ Matches(list[UnmapPlace(t, f)], t, f)
  <1>1. MatchPlaces(t, f) \in SUBSET Nat
    BY DEF MatchPlaces
  <1>2. UnmapPlace(t, f) \in MatchPlaces(t, f)
    BY <1>1, FirstPlace DEF UnmapPlace
  <1>3. QED
    BY <1>2 DEF MatchPlaces

LEMMA HoldsInit == Init => HoldsInv
  <1>1. SUFFICES ASSUME Init PROVE HoldsInv
    OBVIOUS
  <1>2. list \in Seq(Entry)
    BY <1>1 DEF Init
  <1>7. DmaTypes /\ ArgFilled /\ BusyOpen
    <2>1. /\ ref \in [Bufs -> Int] /\ att \in [Bufs -> Int] /\ maps \in [Bufs -> Int]
          /\ pc \in [Threads -> PcStates]
      BY <1>1 DEF Init, PcStates
    <2>7. attached \in BOOLEAN /\ dead \subseteq Processes
      BY <1>1 DEF Init
    <2>2. filp \in [Processes -> Filps \cup {None}]
      BY <1>1 DEF Init
    <2>3. /\ fds \in [Processes -> [Fds -> Bufs \cup {None}]]
          /\ view \in [Processes -> [Fds -> Bufs \cup {None}]]
      BY <1>1 DEF Init
    <2>4. arg \in [Threads -> [fd : Fds \cup {None}, buf : Bufs \cup {None}]]
      BY <1>1 DEF Init, NoArg
    <2>5. ArgFilled /\ BusyOpen
      BY <1>1 DEF Init, ArgFilled, BusyOpen
    <2>6. QED
      BY <1>2, <2>1, <2>2, <2>3, <2>4, <2>5, <2>7 DEF DmaTypes
  <1>3. ASSUME NEW b \in Bufs PROVE Entries(b) = 0
    <2>1. {i \in 1 .. Len(list) : list[i].buf = b} = {}
      BY <1>1 DEF Init
    <2>2. QED
      BY <2>1, FS_EmptySet DEF Entries
  <1>4. ASSUME NEW b \in Bufs, NEW S \in SUBSET {"attach", "map", "add"} PROVE InCall(b, S) = 0
    <2>1. {t \in Threads : arg[t].buf = b /\ pc[t] \in S} = {}
      BY <1>1 DEF Init
    <2>2. QED
      BY <2>1, FS_EmptySet DEF InCall
  <1>5. HoldsExact
    BY <1>1, <1>3, <1>4 DEF Init, HoldsExact
  <1>6. QED
    BY <1>5, <1>7 DEF HoldsInv

\* Every step keeps the types and the shape of the arguments.
LEMMA DmaTypesNext ==
    ASSUME DmaTypes, ArgFilled, BusyOpen, [Next]_vars PROVE DmaTypes' /\ ArgFilled' /\ BusyOpen'
  <1> USE ProcessAssumption, NamesAssumption DEF counts
  <1>1. ASSUME NEW p \in Processes, OpenDev(p) PROVE DmaTypes' /\ ArgFilled' /\ BusyOpen'
    BY <1>1 DEF OpenDev, Fail, Busy, DmaTypes, ArgFilled, BusyOpen, NoArg, PcStates, Entry
  <1>2. ASSUME NEW p \in Processes, Release(p) PROVE DmaTypes' /\ ArgFilled' /\ BusyOpen'
    BY <1>2 DEF Release, Fail, Busy, DmaTypes, ArgFilled, BusyOpen, NoArg, PcStates, Entry
  <1>3. ASSUME NEW p \in Processes, Exit(p) PROVE DmaTypes' /\ ArgFilled' /\ BusyOpen'
    BY <1>3 DEF Exit, Fail, Busy, DmaTypes, ArgFilled, BusyOpen, NoArg, PcStates, Entry
  <1>4. ASSUME NEW p \in Processes, NEW f \in Fds, CloseFd(p, f) PROVE DmaTypes' /\ ArgFilled' /\ BusyOpen'
    BY <1>4 DEF CloseFd, Fail, Busy, DmaTypes, ArgFilled, BusyOpen, NoArg, PcStates, Entry
  <1>5. ASSUME NEW p \in Processes, NEW f \in Fds, NEW b \in Bufs, Import(p, f, b) PROVE DmaTypes' /\ ArgFilled' /\ BusyOpen'
    BY <1>5 DEF Import, Fail, Busy, DmaTypes, ArgFilled, BusyOpen, NoArg, PcStates, Entry
  <1>6. ASSUME NEW t \in Threads, NEW f \in Fds, MapCall(t, f) PROVE DmaTypes' /\ ArgFilled' /\ BusyOpen'
    BY <1>6 DEF MapCall, Fail, Busy, DmaTypes, ArgFilled, BusyOpen, NoArg, PcStates, Entry
  <1>7. ASSUME NEW t \in Threads, NEW f \in Fds, Unmap(t, f) PROVE DmaTypes' /\ ArgFilled' /\ BusyOpen'
    <2> DEFINE i == UnmapPlace(t, f)
    <2>1. \/ UNCHANGED <<list, ref, att, maps>>
          \/ /\ MatchPlaces(t, f) # {}
             /\ list' = RemoveAt(list, i)
             /\ maps' = [maps EXCEPT ![list[i].buf] = @ - 1]
             /\ att' = [att EXCEPT ![list[i].buf] = @ - 1]
             /\ ref' = [ref EXCEPT ![list[i].buf] = @ - 1]
      BY <1>7 DEF Unmap, UnmapPlace, MatchPlaces
    <2>2. MatchPlaces(t, f) # {} => i \in 1 .. Len(list)
      BY UnmapPlaceMatches DEF DmaTypes
    <2>3. MatchPlaces(t, f) # {} => RemoveAt(list, i) \in Seq(Entry)
      BY <2>2, RemoveAtShape DEF DmaTypes
    <2> HIDE DEF i
    <2>4. list' \in Seq(Entry)
      BY <2>1, <2>3 DEF DmaTypes
    <2>5. ref' \in [Bufs -> Int] /\ att' \in [Bufs -> Int] /\ maps' \in [Bufs -> Int]
      <3>1. CASE UNCHANGED <<list, ref, att, maps>>
        BY <3>1 DEF DmaTypes
      <3>2. CASE MatchPlaces(t, f) # {}
        <4>1. list[i] \in Entry
          BY <2>2, <3>2 DEF DmaTypes
        <4>2. list[i].buf \in Bufs
          BY <4>1 DEF Entry
        <4>3. PICK b \in Bufs : b = list[i].buf
          BY <4>2
        <4>4. \/ UNCHANGED <<ref, att, maps>>
              \/ /\ ref' = [ref EXCEPT ![b] = @ - 1]
                 /\ att' = [att EXCEPT ![b] = @ - 1]
                 /\ maps' = [maps EXCEPT ![b] = @ - 1]
          BY <2>1, <4>3
        <4>5. QED
          BY <4>4 DEF DmaTypes
      <3>3. QED
        BY <2>1, <3>1, <3>2
    <2>6. view' \in [Processes -> [Fds -> Bufs \cup {None}]]
      BY <1>7 DEF Unmap, DmaTypes
    <2>7. UNCHANGED <<attached, filp, fds, pc, arg, dead>>
      BY <1>7 DEF Unmap
    <2>8. QED
      BY <2>4, <2>5, <2>6, <2>7 DEF DmaTypes, ArgFilled, BusyOpen
  <1>8. ASSUME NEW t \in Threads, Get(t) PROVE DmaTypes' /\ ArgFilled' /\ BusyOpen'
    <2>1. CASE Fail(t) /\ UNCHANGED ref
      BY <1>8, <2>1 DEF Get, Fail, DmaTypes, ArgFilled, BusyOpen, NoArg, PcStates
    <2>2. CASE ~(Fail(t) /\ UNCHANGED ref)
      <3> DEFINE b == fds[Process[t]][arg[t].fd]
      <3>1. b \in Bufs /\ arg[t].fd \in Fds
        BY <1>8, <2>2 DEF Get, DmaTypes, ArgFilled
      <3>2. /\ ref' = [ref EXCEPT ![b] = @ + 1]
            /\ arg' = [arg EXCEPT ![t].buf = b]
            /\ pc' = [pc EXCEPT ![t] = "attach"] /\ pc[t] = "get"
            /\ UNCHANGED <<list, attached, filp, fds, att, maps, view, dead>>
        BY <1>8, <2>2 DEF Get
      <3> HIDE DEF b
      <3>3. arg' = [arg EXCEPT ![t] = [fd |-> arg[t].fd, buf |-> b]]
        <4>1. arg[t] \in [fd : Fds \cup {None}, buf : Bufs \cup {None}]
          BY DEF DmaTypes
        <4>2. [arg[t] EXCEPT !.buf = b] = [fd |-> arg[t].fd, buf |-> b]
          BY <4>1
        <4>3. arg' = [arg EXCEPT ![t] = [arg[t] EXCEPT !.buf = b]]
          BY <3>2
        <4>4. QED
          BY <4>2, <4>3
      <3>4. ref' \in [Bufs -> Int] /\ pc' \in [Threads -> PcStates]
        BY <3>1, <3>2 DEF DmaTypes, PcStates
      <3>5. arg' \in [Threads -> [fd : Fds \cup {None}, buf : Bufs \cup {None}]]
        BY <3>1, <3>3 DEF DmaTypes
      <3>6. ArgFilled' /\ BusyOpen'
        BY <3>1, <3>2, <3>3 DEF DmaTypes, ArgFilled, BusyOpen, NoArg
      <3>7. QED
        BY <3>2, <3>4, <3>5, <3>6 DEF DmaTypes
    <2>3. QED
      BY <2>1, <2>2
  <1>9. ASSUME NEW t \in Threads, Attach(t) PROVE DmaTypes' /\ ArgFilled' /\ BusyOpen'
    BY <1>9 DEF Attach, Fail, Busy, DmaTypes, ArgFilled, BusyOpen, NoArg, PcStates, Entry
  <1>10. ASSUME NEW t \in Threads, AttachFails(t) PROVE DmaTypes' /\ ArgFilled' /\ BusyOpen'
    BY <1>10 DEF AttachFails, Fail, Busy, DmaTypes, ArgFilled, BusyOpen, NoArg, PcStates,
       Entry
  <1>11. ASSUME NEW t \in Threads, MapAttachment(t) PROVE DmaTypes' /\ ArgFilled' /\ BusyOpen'
    BY <1>11 DEF MapAttachment, Fail, Busy, DmaTypes, ArgFilled, BusyOpen, NoArg,
       PcStates, Entry
  <1>12. ASSUME NEW t \in Threads, MapAttachmentFails(t) PROVE DmaTypes' /\ ArgFilled' /\ BusyOpen'
    BY <1>12 DEF MapAttachmentFails, Fail, Busy, DmaTypes, ArgFilled, BusyOpen, NoArg,
       PcStates, Entry
  <1>13. ASSUME NEW t \in Threads, Add(t) PROVE DmaTypes' /\ ArgFilled' /\ BusyOpen'
    <2>1. arg[t].fd \in Fds /\ arg[t].buf \in Bufs /\ Process[t] \in Processes
      BY <1>13 DEF Add, ArgFilled
    <2>2. list' \in Seq(Entry)
      BY <1>13, <2>1 DEF Add, DmaTypes, BusyOpen, Entry
    <2>3. QED
      BY <1>13, <2>1, <2>2 DEF Add, Fail, DmaTypes, ArgFilled, BusyOpen, NoArg, PcStates
  <1>14. CASE UNCHANGED vars
    BY <1>14 DEF vars, DmaTypes, ArgFilled, BusyOpen
  <1>15. QED
    BY <1>1, <1>2, <1>3, <1>4, <1>5, <1>6, <1>7, <1>8, <1>9, <1>10, <1>11, <1>12, <1>13, <1>14
       DEF Next

\* The points at which a call holds a reference, an attachment and a mapping.
Refd == {"attach", "map", "add"}
Attd == {"map", "add"}
Mapd == {"add"}

\* What a step of thread t in map_dma_buf_addr does to the three numbers.
LEMMA InCallSteps ==
    ASSUME NEW t \in Threads, OnlyMoves(t), NEW b
    PROVE  /\ InCall(b, Refd)' = InCall(b, Refd) + (IF In(t, b, Refd)' THEN 1 ELSE 0)
                                                 - (IF In(t, b, Refd) THEN 1 ELSE 0)
           /\ InCall(b, Attd)' = InCall(b, Attd) + (IF In(t, b, Attd)' THEN 1 ELSE 0)
                                                 - (IF In(t, b, Attd) THEN 1 ELSE 0)
           /\ InCall(b, Mapd)' = InCall(b, Mapd) + (IF In(t, b, Mapd)' THEN 1 ELSE 0)
                                                 - (IF In(t, b, Mapd) THEN 1 ELSE 0)
           /\ InCall(b, Refd) \in Nat /\ InCall(b, Attd) \in Nat /\ InCall(b, Mapd) \in Nat
  BY InCallStep, InCallFinite

\* HoldsExact, with the points named.
HoldsAt(b) ==
    /\ ref[b] = Entries(b) + InCall(b, Refd)
    /\ att[b] = Entries(b) + InCall(b, Attd)
    /\ maps[b] = Entries(b) + InCall(b, Mapd)

LEMMA HoldsExactAt == HoldsExact <=> \A b \in Bufs : HoldsAt(b)
  BY DEF HoldsExact, HoldsAt, Refd, Attd, Mapd

LEMMA HoldsNext == HoldsInv /\ [Next]_vars => HoldsInv'
  <1> SUFFICES ASSUME HoldsInv, [Next]_vars PROVE HoldsInv'
    OBVIOUS
  <1>t. DmaTypes' /\ ArgFilled' /\ BusyOpen'
    BY DmaTypesNext DEF HoldsInv
  <1>h. \A b \in Bufs : HoldsAt(b)
    BY HoldsExactAt DEF HoldsInv
  <1>s. SUFFICES \A b \in Bufs : HoldsAt(b)'
    <2>1. HoldsExact' <=> \A b \in Bufs : HoldsAt(b)'
      BY DEF HoldsExact, HoldsAt, Refd, Attd, Mapd
    <2>2. QED
      BY <1>t, <1>s, <2>1 DEF HoldsInv
  <1>n. ASSUME NEW b \in Bufs, UNCHANGED list PROVE Entries(b)' = Entries(b) /\ Entries(b) \in Nat
    BY <1>n, EntriesArePlaces DEF Entries, HoldsInv, DmaTypes
  <1> USE ProcessAssumption, NamesAssumption DEF counts
  <1>1. ASSUME UNCHANGED <<list, ref, att, maps, pc, arg>> PROVE \A b \in Bufs : HoldsAt(b)'
    <2>1. ASSUME NEW b \in Bufs
          PROVE  /\ Entries(b)' = Entries(b) /\ InCall(b, Refd)' = InCall(b, Refd)
                 /\ InCall(b, Attd)' = InCall(b, Attd) /\ InCall(b, Mapd)' = InCall(b, Mapd)
      BY <1>1 DEF Entries, InCall
    <2>2. QED
      BY <1>h, <1>1, <2>1 DEF HoldsAt
  <1>2. ASSUME NEW t \in Threads, NEW f \in Fds, MapCall(t, f) PROVE \A b \in Bufs : HoldsAt(b)'
    <2>1. OnlyMoves(t) /\ UNCHANGED list
      BY <1>2 DEF MapCall, OnlyMoves, HoldsInv, DmaTypes
    <2>2. ASSUME NEW b \in Bufs PROVE HoldsAt(b)'
      <3>1. /\ (In(t, b, Refd) <=> FALSE) /\ (In(t, b, Refd)' <=> FALSE)
            /\ (In(t, b, Attd) <=> FALSE) /\ (In(t, b, Attd)' <=> FALSE)
            /\ (In(t, b, Mapd) <=> FALSE) /\ (In(t, b, Mapd)' <=> FALSE)
        BY <1>2, <1>t DEF MapCall, In, Refd, Attd, Mapd, NoArg, HoldsInv, DmaTypes, ArgFilled
      <3>2. /\ ref'[b] = ref[b]
            /\ att'[b] = att[b]
            /\ maps'[b] = maps[b]
        BY <1>2 DEF MapCall, HoldsInv, DmaTypes, ArgFilled
      <3>3. /\ InCall(b, Refd)' = InCall(b, Refd) /\ InCall(b, Refd) \in Nat
            /\ InCall(b, Attd)' = InCall(b, Attd) /\ InCall(b, Attd) \in Nat
            /\ InCall(b, Mapd)' = InCall(b, Mapd) /\ InCall(b, Mapd) \in Nat
        BY <2>1, <3>1, InCallSteps
      <3>4. Entries(b)' = Entries(b) /\ Entries(b) \in Nat
        BY <1>n, <2>1
      <3>5. CASE arg[t].buf = b
        BY <1>h, <3>2, <3>3, <3>4, <3>5 DEF HoldsAt
      <3>6. CASE arg[t].buf # b
        BY <1>h, <3>2, <3>3, <3>4, <3>6 DEF HoldsAt
      <3>7. QED
        BY <3>5, <3>6
    <2>3. QED
      BY <2>2
  <1>3. ASSUME NEW t \in Threads, Get(t) PROVE \A b \in Bufs : HoldsAt(b)'
    <2>1. OnlyMoves(t) /\ UNCHANGED <<list, att, maps>> /\ pc[t] = "get"
      BY <1>3 DEF Get, Fail, OnlyMoves, HoldsInv, DmaTypes
    <2>2. ASSUME NEW b \in Bufs PROVE HoldsAt(b)'
      <3>1. CASE Fail(t) /\ UNCHANGED ref
        <4>1. ~In(t, b, Refd) /\ ~In(t, b, Attd) /\ ~In(t, b, Mapd)
          BY <2>1 DEF In, Refd, Attd, Mapd
        <4>2. ~In(t, b, Refd)' /\ ~In(t, b, Attd)' /\ ~In(t, b, Mapd)'
          BY <3>1 DEF Fail, In, Refd, Attd, Mapd, HoldsInv, DmaTypes
        <4>3. QED
          BY <1>h, <1>n, <2>1, <3>1, <4>1, <4>2, InCallSteps DEF HoldsAt
      <3>2. CASE ~(Fail(t) /\ UNCHANGED ref)
        <4> DEFINE d == fds[Process[t]][arg[t].fd]
        <4>1. d \in Bufs
          BY <1>3, <3>2 DEF Get, HoldsInv, DmaTypes, ArgFilled
        <4>2. /\ ref' = [ref EXCEPT ![d] = @ + 1] /\ arg' = [arg EXCEPT ![t].buf = d]
              /\ pc' = [pc EXCEPT ![t] = "attach"]
          BY <1>3, <3>2 DEF Get
        <4> HIDE DEF d
        <4>3. arg'[t].buf = d /\ pc'[t] = "attach"
          BY <4>2 DEF HoldsInv, DmaTypes
        <4>4. ~In(t, b, Refd) /\ ~In(t, b, Attd) /\ ~In(t, b, Mapd)
          BY <2>1 DEF In, Refd, Attd, Mapd
        <4>5. (In(t, b, Refd)' <=> d = b) /\ ~In(t, b, Attd)' /\ ~In(t, b, Mapd)'
          BY <4>3 DEF In, Refd, Attd, Mapd
        <4>6. ref'[b] = ref[b] + (IF d = b THEN 1 ELSE 0) /\ ref[b] \in Int
          BY <4>1, <4>2 DEF HoldsInv, DmaTypes
        <4>7. /\ InCall(b, Refd)' = InCall(b, Refd) + (IF d = b THEN 1 ELSE 0)
              /\ InCall(b, Attd)' = InCall(b, Attd) /\ InCall(b, Mapd)' = InCall(b, Mapd)
              /\ InCall(b, Refd) \in Nat
          BY <2>1, <4>4, <4>5, InCallSteps
        <4>8. Entries(b)' = Entries(b) /\ Entries(b) \in Nat
          BY <1>n, <2>1
        <4>9. QED
          BY <1>h, <2>1, <4>6, <4>7, <4>8 DEF HoldsAt
      <3>3. QED
        BY <3>1, <3>2
    <2>3. QED
      BY <2>2
  <1>4. ASSUME NEW t \in Threads, Attach(t) PROVE \A b \in Bufs : HoldsAt(b)'
    <2>1. OnlyMoves(t) /\ UNCHANGED list
      BY <1>4 DEF Attach, OnlyMoves, HoldsInv, DmaTypes
    <2>2. ASSUME NEW b \in Bufs PROVE HoldsAt(b)'
      <3>1. /\ (In(t, b, Refd) <=> arg[t].buf = b) /\ (In(t, b, Refd)' <=> arg[t].buf = b)
            /\ (In(t, b, Attd) <=> FALSE) /\ (In(t, b, Attd)' <=> arg[t].buf = b)
            /\ (In(t, b, Mapd) <=> FALSE) /\ (In(t, b, Mapd)' <=> FALSE)
        BY <1>4, <1>t DEF Attach, In, Refd, Attd, Mapd, NoArg, HoldsInv, DmaTypes, ArgFilled
      <3>2. /\ ref'[b] = ref[b]
            /\ att'[b] = att[b] + (IF arg[t].buf = b THEN 1 ELSE 0)
            /\ maps'[b] = maps[b]
        BY <1>4 DEF Attach, HoldsInv, DmaTypes, ArgFilled
      <3>3. /\ InCall(b, Refd)' = InCall(b, Refd) /\ InCall(b, Refd) \in Nat
            /\ InCall(b, Attd)' = InCall(b, Attd) + (IF arg[t].buf = b THEN 1 ELSE 0) /\ InCall(b, Attd) \in Nat
            /\ InCall(b, Mapd)' = InCall(b, Mapd) /\ InCall(b, Mapd) \in Nat
        BY <2>1, <3>1, InCallSteps
      <3>4. Entries(b)' = Entries(b) /\ Entries(b) \in Nat
        BY <1>n, <2>1
      <3>5. CASE arg[t].buf = b
        BY <1>h, <3>2, <3>3, <3>4, <3>5 DEF HoldsAt
      <3>6. CASE arg[t].buf # b
        BY <1>h, <3>2, <3>3, <3>4, <3>6 DEF HoldsAt
      <3>7. QED
        BY <3>5, <3>6
    <2>3. QED
      BY <2>2
  <1>5. ASSUME NEW t \in Threads, AttachFails(t) PROVE \A b \in Bufs : HoldsAt(b)'
    <2>1. OnlyMoves(t) /\ UNCHANGED list
      BY <1>5 DEF AttachFails, Fail, OnlyMoves, HoldsInv, DmaTypes
    <2>2. ASSUME NEW b \in Bufs PROVE HoldsAt(b)'
      <3>1. /\ (In(t, b, Refd) <=> arg[t].buf = b) /\ (In(t, b, Refd)' <=> FALSE)
            /\ (In(t, b, Attd) <=> FALSE) /\ (In(t, b, Attd)' <=> FALSE)
            /\ (In(t, b, Mapd) <=> FALSE) /\ (In(t, b, Mapd)' <=> FALSE)
        BY <1>5, <1>t DEF AttachFails, Fail, In, Refd, Attd, Mapd, NoArg, HoldsInv, DmaTypes, ArgFilled
      <3>2. /\ ref'[b] = ref[b] - (IF arg[t].buf = b THEN 1 ELSE 0)
            /\ att'[b] = att[b]
            /\ maps'[b] = maps[b]
        BY <1>5 DEF AttachFails, Fail, HoldsInv, DmaTypes, ArgFilled
      <3>3. /\ InCall(b, Refd)' = InCall(b, Refd) - (IF arg[t].buf = b THEN 1 ELSE 0) /\ InCall(b, Refd) \in Nat
            /\ InCall(b, Attd)' = InCall(b, Attd) /\ InCall(b, Attd) \in Nat
            /\ InCall(b, Mapd)' = InCall(b, Mapd) /\ InCall(b, Mapd) \in Nat
        BY <2>1, <3>1, InCallSteps
      <3>4. Entries(b)' = Entries(b) /\ Entries(b) \in Nat
        BY <1>n, <2>1
      <3>5. CASE arg[t].buf = b
        BY <1>h, <3>2, <3>3, <3>4, <3>5 DEF HoldsAt
      <3>6. CASE arg[t].buf # b
        BY <1>h, <3>2, <3>3, <3>4, <3>6 DEF HoldsAt
      <3>7. QED
        BY <3>5, <3>6
    <2>3. QED
      BY <2>2
  <1>6. ASSUME NEW t \in Threads, MapAttachment(t) PROVE \A b \in Bufs : HoldsAt(b)'
    <2>1. OnlyMoves(t) /\ UNCHANGED list
      BY <1>6 DEF MapAttachment, OnlyMoves, HoldsInv, DmaTypes
    <2>2. ASSUME NEW b \in Bufs PROVE HoldsAt(b)'
      <3>1. /\ (In(t, b, Refd) <=> arg[t].buf = b) /\ (In(t, b, Refd)' <=> arg[t].buf = b)
            /\ (In(t, b, Attd) <=> arg[t].buf = b) /\ (In(t, b, Attd)' <=> arg[t].buf = b)
            /\ (In(t, b, Mapd) <=> FALSE) /\ (In(t, b, Mapd)' <=> arg[t].buf = b)
        BY <1>6, <1>t DEF MapAttachment, In, Refd, Attd, Mapd, NoArg, HoldsInv, DmaTypes, ArgFilled
      <3>2. /\ ref'[b] = ref[b]
            /\ att'[b] = att[b]
            /\ maps'[b] = maps[b] + (IF arg[t].buf = b THEN 1 ELSE 0)
        BY <1>6 DEF MapAttachment, HoldsInv, DmaTypes, ArgFilled
      <3>3. /\ InCall(b, Refd)' = InCall(b, Refd) /\ InCall(b, Refd) \in Nat
            /\ InCall(b, Attd)' = InCall(b, Attd) /\ InCall(b, Attd) \in Nat
            /\ InCall(b, Mapd)' = InCall(b, Mapd) + (IF arg[t].buf = b THEN 1 ELSE 0) /\ InCall(b, Mapd) \in Nat
        BY <2>1, <3>1, InCallSteps
      <3>4. Entries(b)' = Entries(b) /\ Entries(b) \in Nat
        BY <1>n, <2>1
      <3>5. CASE arg[t].buf = b
        BY <1>h, <3>2, <3>3, <3>4, <3>5 DEF HoldsAt
      <3>6. CASE arg[t].buf # b
        BY <1>h, <3>2, <3>3, <3>4, <3>6 DEF HoldsAt
      <3>7. QED
        BY <3>5, <3>6
    <2>3. QED
      BY <2>2
  <1>7. ASSUME NEW t \in Threads, MapAttachmentFails(t) PROVE \A b \in Bufs : HoldsAt(b)'
    <2>1. OnlyMoves(t) /\ UNCHANGED list
      BY <1>7 DEF MapAttachmentFails, Fail, OnlyMoves, HoldsInv, DmaTypes
    <2>2. ASSUME NEW b \in Bufs PROVE HoldsAt(b)'
      <3>1. /\ (In(t, b, Refd) <=> arg[t].buf = b) /\ (In(t, b, Refd)' <=> FALSE)
            /\ (In(t, b, Attd) <=> arg[t].buf = b) /\ (In(t, b, Attd)' <=> FALSE)
            /\ (In(t, b, Mapd) <=> FALSE) /\ (In(t, b, Mapd)' <=> FALSE)
        BY <1>7, <1>t DEF MapAttachmentFails, Fail, In, Refd, Attd, Mapd, NoArg, HoldsInv, DmaTypes, ArgFilled
      <3>2. /\ ref'[b] = ref[b] - (IF arg[t].buf = b THEN 1 ELSE 0)
            /\ att'[b] = att[b] - (IF arg[t].buf = b THEN 1 ELSE 0)
            /\ maps'[b] = maps[b]
        BY <1>7 DEF MapAttachmentFails, Fail, HoldsInv, DmaTypes, ArgFilled
      <3>3. /\ InCall(b, Refd)' = InCall(b, Refd) - (IF arg[t].buf = b THEN 1 ELSE 0) /\ InCall(b, Refd) \in Nat
            /\ InCall(b, Attd)' = InCall(b, Attd) - (IF arg[t].buf = b THEN 1 ELSE 0) /\ InCall(b, Attd) \in Nat
            /\ InCall(b, Mapd)' = InCall(b, Mapd) /\ InCall(b, Mapd) \in Nat
        BY <2>1, <3>1, InCallSteps
      <3>4. Entries(b)' = Entries(b) /\ Entries(b) \in Nat
        BY <1>n, <2>1
      <3>5. CASE arg[t].buf = b
        BY <1>h, <3>2, <3>3, <3>4, <3>5 DEF HoldsAt
      <3>6. CASE arg[t].buf # b
        BY <1>h, <3>2, <3>3, <3>4, <3>6 DEF HoldsAt
      <3>7. QED
        BY <3>5, <3>6
    <2>3. QED
      BY <2>2
  <1>8. ASSUME NEW t \in Threads, Add(t) PROVE \A b \in Bufs : HoldsAt(b)'
    <2> DEFINE e == [fd |-> arg[t].fd, p_id |-> Process[t], filp |-> filp[Process[t]],
                     buf |-> arg[t].buf]
    <2>1. OnlyMoves(t) /\ UNCHANGED <<ref, att, maps>> /\ list' = Append(list, e)
      BY <1>8 DEF Add, Fail, OnlyMoves, HoldsInv, DmaTypes
    <2>2. e \in Entry /\ e.buf = arg[t].buf
      BY <1>8 DEF Add, Entry, HoldsInv, DmaTypes, ArgFilled, BusyOpen
    <2> HIDE DEF e
    <2>3. ASSUME NEW b \in Bufs PROVE HoldsAt(b)'
      <3>1. /\ (In(t, b, Refd) <=> arg[t].buf = b) /\ ~In(t, b, Refd)'
            /\ (In(t, b, Attd) <=> arg[t].buf = b) /\ ~In(t, b, Attd)'
            /\ (In(t, b, Mapd) <=> arg[t].buf = b) /\ ~In(t, b, Mapd)'
        BY <1>8, <1>t DEF Add, Fail, In, Refd, Attd, Mapd, HoldsInv, DmaTypes
      <3>2. Entries(b)' = Entries(b) + (IF arg[t].buf = b THEN 1 ELSE 0) /\ Entries(b) \in Nat
        <4>1. list \in Seq(Entry) /\ list' \in Seq(Entry)
          BY <1>t DEF HoldsInv, DmaTypes
        <4>2. Entries(b) = Cardinality(Places(list, Holding(b))) /\ Entries(b) \in Nat
          BY <4>1, EntriesArePlaces
        <4>3. Entries(b)' = Cardinality(Places(list', Holding(b)))
          <5>1. {i \in 1 .. Len(list') : list'[i].buf = b} = Places(list', Holding(b))
            BY <4>1 DEF Places, Holding
          <5>2. QED
            BY <5>1 DEF Entries
        <4>4. e \in Holding(b) <=> arg[t].buf = b
          BY <2>2 DEF Holding
        <4>5. QED
          BY <2>1, <2>2, <4>1, <4>2, <4>3, <4>4, AppendCounts
      <3>3. /\ InCall(b, Refd)' = InCall(b, Refd) - (IF arg[t].buf = b THEN 1 ELSE 0)
            /\ InCall(b, Attd)' = InCall(b, Attd) - (IF arg[t].buf = b THEN 1 ELSE 0)
            /\ InCall(b, Mapd)' = InCall(b, Mapd) - (IF arg[t].buf = b THEN 1 ELSE 0)
            /\ InCall(b, Refd) \in Nat /\ InCall(b, Attd) \in Nat /\ InCall(b, Mapd) \in Nat
        BY <2>1, <3>1, InCallSteps
      <3>0. ref'[b] = ref[b] /\ att'[b] = att[b] /\ maps'[b] = maps[b]
        BY <2>1
      <3>4. CASE arg[t].buf = b
        BY <1>h, <3>0, <3>2, <3>3, <3>4 DEF HoldsAt
      <3>5. CASE arg[t].buf # b
        BY <1>h, <3>0, <3>2, <3>3, <3>5 DEF HoldsAt
      <3>6. QED
        BY <3>4, <3>5
    <2>4. QED
      BY <2>3
  <1>9. ASSUME NEW t \in Threads, NEW f \in Fds, Unmap(t, f) PROVE \A b \in Bufs : HoldsAt(b)'
    <2> DEFINE i == UnmapPlace(t, f)
    <2>1. \/ UNCHANGED <<list, ref, att, maps>>
          \/ /\ MatchPlaces(t, f) # {}
             /\ list' = RemoveAt(list, i)
             /\ maps' = [maps EXCEPT ![list[i].buf] = @ - 1]
             /\ att' = [att EXCEPT ![list[i].buf] = @ - 1]
             /\ ref' = [ref EXCEPT ![list[i].buf] = @ - 1]
      BY <1>9 DEF Unmap, UnmapPlace, MatchPlaces
    <2>2. UNCHANGED <<pc, arg>>
      BY <1>9 DEF Unmap
    <2>3. CASE UNCHANGED <<list, ref, att, maps>>
      BY <1>1, <2>2, <2>3
    <2>4. CASE ~UNCHANGED <<list, ref, att, maps>>
      <3>1. i \in 1 .. Len(list)
        BY <2>1, <2>4, UnmapPlaceMatches DEF HoldsInv, DmaTypes
      <3> HIDE DEF i
      <3>2. list[i] \in Entry
        BY <3>1 DEF HoldsInv, DmaTypes
      <3>3. PICK d \in Bufs : d = list[i].buf
        BY <3>2 DEF Entry
      <3>4. ASSUME NEW b \in Bufs PROVE HoldsAt(b)'
        <4>1. list \in Seq(Entry) /\ list' \in Seq(Entry)
          BY <1>t DEF HoldsInv, DmaTypes
        <4>2. Entries(b) = Cardinality(Places(list, Holding(b))) /\ Entries(b) \in Nat
          BY <4>1, EntriesArePlaces
        <4>3. Entries(b)' = Cardinality(Places(list', Holding(b)))
          <5>1. {j \in 1 .. Len(list') : list'[j].buf = b} = Places(list', Holding(b))
            BY <4>1 DEF Places, Holding
          <5>2. QED
            BY <5>1 DEF Entries
        <4>4. list[i] \in Holding(b) <=> d = b
          BY <3>2, <3>3 DEF Holding
        <4>5. Entries(b)' = Entries(b) - (IF d = b THEN 1 ELSE 0)
          BY <2>1, <2>4, <3>1, <4>1, <4>2, <4>3, <4>4, RemoveCounts
        <4>6. /\ ref' = [ref EXCEPT ![d] = @ - 1] /\ att' = [att EXCEPT ![d] = @ - 1]
              /\ maps' = [maps EXCEPT ![d] = @ - 1]
          BY <2>1, <2>4, <3>3
        <4>7. /\ ref'[b] = ref[b] - (IF d = b THEN 1 ELSE 0)
              /\ att'[b] = att[b] - (IF d = b THEN 1 ELSE 0)
              /\ maps'[b] = maps[b] - (IF d = b THEN 1 ELSE 0)
          BY <4>6 DEF HoldsInv, DmaTypes
        <4>8. /\ InCall(b, Refd)' = InCall(b, Refd) /\ InCall(b, Refd) \in Nat
              /\ InCall(b, Attd)' = InCall(b, Attd) /\ InCall(b, Attd) \in Nat
              /\ InCall(b, Mapd)' = InCall(b, Mapd) /\ InCall(b, Mapd) \in Nat
          BY <2>2, InCallFinite DEF InCall
        <4>9. QED
          BY <1>h, <4>2, <4>5, <4>7, <4>8 DEF HoldsAt
      <3>5. QED
        BY <3>4
    <2>5. QED
      BY <2>3, <2>4
  <1>10. ASSUME NEW p \in Processes, OpenDev(p) \/ Release(p) \/ Exit(p)
         PROVE  UNCHANGED <<list, ref, att, maps, pc, arg>>
    BY <1>10 DEF OpenDev, Release, Exit
  <1>11. ASSUME NEW p \in Processes, NEW f \in Fds, CloseFd(p, f)
         PROVE  UNCHANGED <<list, ref, att, maps, pc, arg>>
    BY <1>11 DEF CloseFd
  <1>12. ASSUME NEW p \in Processes, NEW f \in Fds, NEW b \in Bufs, Import(p, f, b)
         PROVE  UNCHANGED <<list, ref, att, maps, pc, arg>>
    BY <1>12 DEF Import
  <1>13. CASE UNCHANGED vars
    BY <1>1, <1>13 DEF vars
  <1>14. QED
    BY <1>1, <1>2, <1>3, <1>4, <1>5, <1>6, <1>7, <1>8, <1>9, <1>10, <1>11, <1>12, <1>13 DEF Next

LEMMA HoldsInvariant == Spec => []HoldsInv
  BY HoldsInit, HoldsNext, PTL DEF Spec

\* Every reference, attachment and mapping of a dma-buf belongs to an entry of
\* cedar_devp->list or to a call of map_dma_buf_addr in progress: no error path
\* and no order of map, unmap, close and exit leaks one or drops one twice.
THEOREM HoldsAreExact == Spec => []HoldsExact
  <1>1. HoldsInv => HoldsExact
    BY DEF HoldsInv
  <1>2. QED
    BY HoldsInvariant, <1>1, PTL

----------------------------------------------------------------------------
(* The view of a disciplined process: ViewExact.                           *)

\* Every entry but the removed one has a place in the shorter list.
LEMMA RemoveAtMoves ==
    ASSUME NEW S, NEW s \in Seq(S), NEW k \in 1 .. Len(s)
    PROVE  /\ \A j \in 1 .. Len(RemoveAt(s, k)) : \E m \in 1 .. Len(s) :
                /\ m # k /\ m = (IF j < k THEN j ELSE j + 1) /\ RemoveAt(s, k)[j] = s[m]
           /\ \A m \in 1 .. Len(s) : m # k => \E j \in 1 .. Len(RemoveAt(s, k)) :
                /\ j = (IF m < k THEN m ELSE m - 1) /\ RemoveAt(s, k)[j] = s[m]
  <1> DEFINE r == RemoveAt(s, k)
  <1>1. /\ Len(r) = Len(s) - 1 /\ Len(s) \in Nat
        /\ \A i \in 1 .. Len(s) - 1 : r[i] = IF i < k THEN s[i] ELSE s[i + 1]
    BY RemoveAtShape
  <1> HIDE DEF r
  <1>2. ASSUME NEW j \in 1 .. Len(r)
        PROVE  \E m \in 1 .. Len(s) : m # k /\ m = (IF j < k THEN j ELSE j + 1) /\ r[j] = s[m]
    <2>1. CASE j < k
      BY <1>1, <2>1
    <2>2. CASE ~(j < k)
      <3>1. j + 1 \in 1 .. Len(s) /\ j + 1 # k
        BY <1>1, <2>2
      <3>2. r[j] = s[j + 1]
        BY <1>1, <2>2
      <3>3. QED
        BY <2>2, <3>1, <3>2
    <2>3. QED
      BY <2>1, <2>2
  <1>3. ASSUME NEW m \in 1 .. Len(s), m # k
        PROVE  \E j \in 1 .. Len(r) : j = (IF m < k THEN m ELSE m - 1) /\ r[j] = s[m]
    <2>1. CASE m < k
      BY <1>1, <2>1
    <2>2. CASE ~(m < k)
      <3>1. m - 1 \in 1 .. Len(r) /\ ~(m - 1 < k) /\ (m - 1) + 1 = m
        BY <1>1, <1>3, <2>2
      <3>2. r[m - 1] = s[(m - 1) + 1]
        BY <1>1, <3>1
      <3>3. QED
        BY <2>2, <3>1, <3>2
    <2>3. QED
      BY <2>1, <2>2
  <1>4. QED
    BY <1>2, <1>3 DEF r

LEMMA ViewInit == Init => ViewInv
  <1> SUFFICES ASSUME Init PROVE ViewInv
    OBVIOUS
  <1>1. DmaTypes /\ ArgFilled /\ BusyOpen
    BY HoldsInit DEF HoldsInv
  <1>2. list = <<>> /\ Len(list) = 0 /\ \A p \in Processes, f \in Fds : view[p][f] = None
    BY DEF Init
  <1>3. ListAttached /\ OwnFileOnly
    BY <1>2 DEF ListAttached, OwnFileOnly
  <1>4. ClosedBlind /\ MapsOnce
    BY <1>2 DEF Init, ClosedBlind, MapsOnce
  <1>5. ViewsAt
    BY <1>2, BoundAssumption DEF ViewsAt, ViewAt
  <1>6. QED
    BY <1>1, <1>3, <1>4, <1>5 DEF ViewInv

\* What depends on the list, the files and the views only.
LEMMA ViewFrame ==
    ASSUME ClosedBlind, OwnFileOnly, ViewsAt, UNCHANGED <<list, filp, view, dead>>
    PROVE  ClosedBlind' /\ OwnFileOnly' /\ ViewsAt'
  BY DEF ClosedBlind, OwnFileOnly, ViewsAt, ViewAt, Hit

\* A step of thread t inside its call keeps its descriptor or drops it.
LEMMA MapsOnceStep ==
    ASSUME DmaTypes, ArgFilled, MapsOnce, UNCHANGED view, NEW t \in Threads, OnlyMoves(t),
           pc[t] # "idle",
           \/ arg'[t].fd = arg[t].fd
           \/ pc'[t] = "idle" /\ arg'[t].fd = None
    PROVE  MapsOnce'
  <1>1. ASSUME NEW u \in Threads, Process[u] \in Disciplined, pc'[u] # "idle"
        PROVE  /\ view'[Process[u]][arg'[u].fd] = None
               /\ pc[u] # "idle" /\ arg'[u].fd = arg[u].fd
    BY <1>1 DEF OnlyMoves, MapsOnce
  <1>2. ASSUME NEW u \in Threads, Process[u] \in Disciplined, pc'[u] # "idle",
               NEW w \in Threads, Process[w] = Process[u], arg'[w].fd = arg'[u].fd
        PROVE  w = u
    <2>1. pc[u] # "idle" /\ arg'[u].fd = arg[u].fd /\ arg[u].fd \in Fds
      BY <1>1, <1>2 DEF ArgFilled
    <2>2. arg'[w].fd = arg[w].fd
      BY <1>2, <2>1, NamesAssumption DEF OnlyMoves
    <2>3. QED
      BY <1>2, <2>1, <2>2 DEF MapsOnce
  <1>3. QED
    BY <1>1, <1>2 DEF MapsOnce

LEMMA ViewNext == ViewInv /\ [Next]_vars => ViewInv'
  <1> SUFFICES ASSUME ViewInv, [Next]_vars PROVE ViewInv'
    OBVIOUS
  <1>i. /\ DmaTypes /\ ArgFilled /\ BusyOpen /\ ListAttached /\ ClosedBlind
        /\ OwnFileOnly /\ MapsOnce /\ ViewsAt
    BY DEF ViewInv
  <1>t. DmaTypes' /\ ArgFilled' /\ BusyOpen'
    BY <1>i, DmaTypesNext
  <1> DEFINE Goal == ListAttached' /\ ClosedBlind' /\ OwnFileOnly' /\ MapsOnce' /\ ViewsAt'
  <1>s. SUFFICES Goal
    BY <1>t DEF ViewInv
  <1> USE ProcessAssumption, NamesAssumption, BoundAssumption
  <1>1. ASSUME NEW p \in Processes, OpenDev(p) PROVE Goal
    <2>1. PICK a \in Filps : filp' = [filp EXCEPT ![p] = a]
      BY <1>1 DEF OpenDev
    <2>2. /\ filp[p] = None /\ p \notin dead
          /\ UNCHANGED <<list, attached, pc, arg, view, dead>>
      BY <1>1 DEF OpenDev
    <2>3. filp'[p] = a /\ a # None /\ \A q \in Processes \ {p} : filp'[q] = filp[q]
      BY <1>i, <2>1 DEF DmaTypes
    <2>4. \A f \in Fds : view[p][f] = None
      BY <1>i, <2>2 DEF ClosedBlind
    <2>5. p \in Disciplined => \A i \in 1 .. Len(list) : list[i].p_id # p
      <3>1. \A i \in 1 .. Len(list) : list[i] \in Entry
        BY <1>i DEF DmaTypes
      <3>2. \A i \in 1 .. Len(list) : list[i].filp # None
        BY <3>1 DEF Entry
      <3>3. QED
        BY <1>i, <2>2, <3>2 DEF OwnFileOnly
    <2>6. ListAttached' /\ MapsOnce'
      BY <1>i, <2>2 DEF ListAttached, MapsOnce
    <2>7. ClosedBlind'
      BY <1>i, <2>2, <2>3 DEF ClosedBlind, DmaTypes
    <2>8. OwnFileOnly'
      BY <1>i, <2>2, <2>3, <2>5 DEF OwnFileOnly
    <2>9. ViewsAt'
      <3>1. ASSUME NEW q \in Disciplined, NEW f \in Fds, filp'[q] # None PROVE ViewAt(q, f)'
        <4>1. CASE q = p
          BY <2>2, <2>4, <2>5, <4>1 DEF ViewAt, Hit
        <4>2. CASE q # p
          <5>1. filp'[q] = filp[q] /\ q \in Processes
            BY <2>3, <4>2
          <5>2. ViewAt(q, f)
            BY <1>i, <3>1, <5>1 DEF ViewsAt
          <5>3. QED
            BY <2>2, <5>1, <5>2 DEF ViewAt, Hit
        <4>3. QED
          BY <4>1, <4>2
      <3>2. QED
        BY <3>1 DEF ViewsAt
    <2>10. QED
      BY <2>6, <2>7, <2>8, <2>9
  <1>2. ASSUME NEW p \in Processes, Release(p) \/ Exit(p) PROVE Goal
    <2>1. /\ filp' = [filp EXCEPT ![p] = None]
          /\ view' = [view EXCEPT ![p] = [f \in Fds |-> None]]
          /\ UNCHANGED <<list, attached, pc, arg>>
          /\ p \in Disciplined /\ p \notin dead' => \A f \in Fds : view[p][f] = None
          /\ dead' = dead \/ dead' = dead \cup {p}
          /\ p \in Disciplined /\ p \notin dead' => filp[p] # None
      BY <1>2 DEF Release, Exit
    <2>2. /\ filp'[p] = None /\ \A f \in Fds : view'[p][f] = None
          /\ \A q \in Processes \ {p} : filp'[q] = filp[q] /\ view'[q] = view[q]
      BY <1>i, <2>1 DEF DmaTypes
    <2>3. p \in Disciplined \ dead' => \A i \in 1 .. Len(list) : list[i].p_id # p
      <3>1. SUFFICES ASSUME p \in Disciplined \ dead', NEW i \in 1 .. Len(list), list[i].p_id = p
                     PROVE  FALSE
        OBVIOUS
      <3>2. list[i] \in Entry
        BY <1>i DEF DmaTypes
      <3>3. list[i].fd \in Fds
        BY <3>2 DEF Entry
      <3>4. list[i].filp = filp[p]
        BY <1>i, <2>1, <3>1 DEF OwnFileOnly
      <3>5. ViewAt(p, list[i].fd) /\ view[p][list[i].fd] = None
        BY <1>i, <2>1, <3>1, <3>3 DEF ViewsAt
      <3>6. QED
        BY <3>1, <3>4, <3>5 DEF ViewAt, Hit
    <2>4. ListAttached'
      BY <1>i, <2>1 DEF ListAttached
    <2>5. MapsOnce'
      <3>1. ASSUME NEW t \in Threads, Process[t] \in Disciplined, pc[t] # "idle"
            PROVE  view'[Process[t]][arg[t].fd] = None
        BY <1>i, <2>2, <3>1 DEF MapsOnce, ArgFilled
      <3>2. QED
        BY <1>i, <2>1, <3>1 DEF MapsOnce
    <2>6. ClosedBlind'
      BY <1>i, <2>1, <2>2 DEF ClosedBlind, DmaTypes
    <2>7. OwnFileOnly'
      <3>1. ASSUME NEW q \in Disciplined \ dead', NEW i \in 1 .. Len(list), list[i].p_id = q
            PROVE  list[i].filp = filp'[q]
        BY <1>i, <2>1, <2>2, <2>3, <3>1 DEF OwnFileOnly
      <3>2. QED
        BY <2>1, <3>1 DEF OwnFileOnly
    <2>8. ViewsAt'
      <3>1. ASSUME NEW q \in Disciplined, NEW f \in Fds, filp'[q] # None PROVE ViewAt(q, f)'
        <4>1. q # p /\ q \in Processes /\ filp'[q] = filp[q] /\ view'[q] = view[q]
          BY <2>2, <3>1
        <4>2. ViewAt(q, f)
          BY <1>i, <3>1, <4>1 DEF ViewsAt
        <4>3. QED
          BY <2>1, <4>1, <4>2 DEF ViewAt, Hit
      <3>2. QED
        BY <3>1 DEF ViewsAt
    <2>9. QED
      BY <2>4, <2>5, <2>6, <2>7, <2>8
  <1>3. ASSUME NEW p \in Processes, NEW f \in Fds,
               CloseFd(p, f) \/ \E b \in Bufs : Import(p, f, b)
        PROVE  Goal
    <2>1. UNCHANGED <<list, attached, filp, pc, arg, view, dead>>
      BY <1>3 DEF CloseFd, Import
    <2>2. ListAttached' /\ MapsOnce'
      BY <1>i, <2>1 DEF ListAttached, MapsOnce
    <2>3. QED
      BY <1>i, <2>1, <2>2, ViewFrame
  <1>4. ASSUME NEW t \in Threads, NEW f \in Fds, MapCall(t, f) PROVE Goal
    <2>1. /\ UNCHANGED <<list, filp, view, dead>> /\ attached' = TRUE
          /\ pc' = [pc EXCEPT ![t] = "get"]
          /\ arg' = [arg EXCEPT ![t] = [fd |-> f, buf |-> None]]
          /\ Process[t] \in Disciplined =>
               view[Process[t]][f] = None /\ ~Mapping(Process[t], f)
      BY <1>4 DEF MapCall
    <2>2. /\ arg'[t].fd = f /\ \A u \in Threads \ {t} : arg'[u] = arg[u] /\ pc'[u] = pc[u]
      BY <1>i, <2>1 DEF DmaTypes
    <2>3. Process[t] \in Disciplined =>
            \A u \in Threads : Process[u] = Process[t] => arg[u].fd # f
      BY <2>1 DEF Mapping
    <2>4. MapsOnce'
      <3>1. ASSUME NEW u \in Threads, Process[u] \in Disciplined, pc'[u] # "idle"
            PROVE  view'[Process[u]][arg'[u].fd] = None
        BY <1>i, <2>1, <2>2, <3>1 DEF MapsOnce
      <3>2. ASSUME NEW u \in Threads, Process[u] \in Disciplined, pc'[u] # "idle",
                   NEW w \in Threads, Process[w] = Process[u], arg'[w].fd = arg'[u].fd
            PROVE  w = u
        BY <1>i, <2>2, <2>3, <3>2 DEF MapsOnce
      <3>3. QED
        BY <3>1, <3>2 DEF MapsOnce
    <2>5. ListAttached'
      BY <2>1 DEF ListAttached
    <2>6. QED
      BY <1>i, <2>1, <2>4, <2>5, ViewFrame
  <1>5. ASSUME NEW t \in Threads, Get(t) \/ Attach(t) \/ AttachFails(t) \/ MapAttachment(t)
                                    \/ MapAttachmentFails(t)
        PROVE  Goal
    <2>1. UNCHANGED <<list, attached, filp, view, dead>> /\ pc[t] # "idle"
      BY <1>5 DEF Get, Attach, AttachFails, MapAttachment, MapAttachmentFails
    <2>2. /\ OnlyMoves(t)
          /\ \/ arg'[t].fd = arg[t].fd
             \/ pc'[t] = "idle" /\ arg'[t].fd = None
      BY <1>i, <1>5 DEF Get, Attach, AttachFails, MapAttachment, MapAttachmentFails, Fail,
         OnlyMoves, NoArg, DmaTypes
    <2>3. MapsOnce'
      BY <1>i, <2>1, <2>2, MapsOnceStep
    <2>4. ListAttached'
      BY <1>i, <2>1 DEF ListAttached
    <2>5. QED
      BY <1>i, <2>1, <2>3, <2>4, ViewFrame
  <1>6. ASSUME NEW t \in Threads, Add(t) PROVE Goal
    <2> DEFINE p == Process[t]
               g == arg[t].fd
               e == [fd |-> g, p_id |-> p, filp |-> filp[p], buf |-> arg[t].buf]
               n == Len(list) + 1
    <2>1. /\ list' = Append(list, e) /\ pc[t] = "add"
          /\ view' = [view EXCEPT ![p][g] = arg[t].buf]
          /\ pc' = [pc EXCEPT ![t] = "idle"] /\ arg' = [arg EXCEPT ![t] = NoArg]
          /\ UNCHANGED <<attached, filp, dead>>
      BY <1>6 DEF Add, Fail
    <2>2. /\ e.fd = g /\ e.p_id = p /\ e.filp = filp[p] /\ e.buf = arg[t].buf
          /\ p \in Processes /\ g \in Fds /\ arg[t].buf \in Bufs
          /\ filp[p] # None /\ attached
      BY <1>i, <2>1 DEF ArgFilled, BusyOpen
    <2>3. /\ view'[p][g] = arg[t].buf
          /\ \A q \in Processes, f \in Fds : q # p \/ f # g => view'[q][f] = view[q][f]
      BY <1>i, <2>1, <2>2 DEF DmaTypes
    <2> HIDE DEF e
    <2>4. /\ Len(list') = n /\ list'[n] = e /\ Len(list) \in Nat
          /\ \A i \in 1 .. Len(list) : list'[i] = list[i]
      BY <1>i, <2>1 DEF DmaTypes
    <2>5. ListAttached'
      BY <2>1, <2>2 DEF ListAttached
    <2>6. MapsOnce'
      <3>1. ASSUME NEW u \in Threads, Process[u] \in Disciplined, pc'[u] # "idle"
            PROVE  u # t /\ pc[u] # "idle" /\ arg'[u] = arg[u] /\ arg[u].fd \in Fds
        BY <1>i, <2>1, <3>1 DEF DmaTypes, ArgFilled
      <3>2. ASSUME NEW u \in Threads, Process[u] \in Disciplined, pc'[u] # "idle"
            PROVE  view'[Process[u]][arg'[u].fd] = None
        <4>1. Process[u] # p \/ arg[u].fd # g
          BY <1>i, <3>1, <3>2 DEF MapsOnce
        <4>2. view'[Process[u]][arg[u].fd] = view[Process[u]][arg[u].fd]
          BY <2>3, <3>1, <3>2, <4>1
        <4>3. QED
          BY <1>i, <3>1, <3>2, <4>2 DEF MapsOnce
      <3>3. ASSUME NEW u \in Threads, Process[u] \in Disciplined, pc'[u] # "idle",
                   NEW w \in Threads, Process[w] = Process[u], arg'[w].fd = arg'[u].fd
            PROVE  w = u
        <4>1. w # t
          BY <1>i, <2>1, <3>1, <3>3 DEF NoArg, DmaTypes
        <4>2. arg'[w] = arg[w]
          BY <1>i, <2>1, <4>1 DEF DmaTypes
        <4>3. QED
          BY <1>i, <3>1, <3>3, <4>2 DEF MapsOnce
      <3>4. QED
        BY <3>2, <3>3 DEF MapsOnce
    <2>7. ClosedBlind'
      BY <1>i, <2>1, <2>2, <2>3 DEF ClosedBlind
    <2>8. OwnFileOnly'
      <3>1. ASSUME NEW q \in Disciplined \ dead, NEW i \in 1 .. n, list'[i].p_id = q
            PROVE  list'[i].filp = filp[q]
        <4>1. CASE i = n
          BY <2>2, <2>4, <3>1, <4>1
        <4>2. CASE i # n
          <5>1. i \in 1 .. Len(list)
            BY <2>4, <4>2
          <5>2. QED
            BY <1>i, <2>4, <3>1, <5>1 DEF OwnFileOnly
        <4>3. QED
          BY <4>1, <4>2
      <3>2. QED
        BY <2>1, <2>4, <3>1 DEF OwnFileOnly
    <2>9. ViewsAt'
      <3>1. ASSUME NEW q \in Disciplined, NEW f \in Fds, filp'[q] # None PROVE ViewAt(q, f)'
        <4>1. ViewAt(q, f) /\ q \in Processes
          BY <1>i, <2>1, <3>1 DEF ViewsAt
        <4>2. CASE q = p /\ f = g
          <5>1. view[q][f] = None
            BY <1>i, <2>1, <4>2 DEF MapsOnce
          <5>2. \A i \in 1 .. Len(list) : ~Hit(list[i], q, f)
            BY <4>1, <5>1 DEF ViewAt
          <5>3. \A i \in 1 .. n : Hit(list'[i], q, f) <=> i = n
            BY <2>2, <2>4, <4>2, <5>2 DEF Hit
          <5>4. view'[q][f] # None /\ list'[n].buf = view'[q][f] /\ n \in 1 .. n
            BY <2>2, <2>3, <2>4, <4>2
          <5>5. QED
            BY <2>1, <2>4, <5>3, <5>4 DEF ViewAt, Hit
        <4>3. CASE ~(q = p /\ f = g)
          <5>1. view'[q][f] = view[q][f] /\ ~Hit(e, q, f)
            BY <2>2, <2>3, <4>1, <4>3 DEF Hit
          <5>2. \A i \in 1 .. n : Hit(list'[i], q, f) => i \in 1 .. Len(list) /\ list'[i] = list[i]
            BY <2>4, <5>1
          <5>3. CASE view[q][f] = None
            BY <2>1, <2>4, <4>1, <5>1, <5>2, <5>3 DEF ViewAt, Hit
          <5>4. CASE view[q][f] # None
            <6>1. PICK i \in 1 .. Len(list) :
                     /\ Hit(list[i], q, f) /\ list[i].buf = view[q][f]
                     /\ \A j \in 1 .. Len(list) : Hit(list[j], q, f) => j = i
              BY <4>1, <5>4 DEF ViewAt
            <6>2. i \in 1 .. n /\ list'[i] = list[i]
              BY <2>4
            <6>3. \A j \in 1 .. n : Hit(list'[j], q, f) => j = i
              BY <5>2, <6>1
            <6>4. QED
              BY <2>1, <2>4, <5>1, <5>4, <6>1, <6>2, <6>3 DEF ViewAt, Hit
          <5>5. QED
            BY <5>3, <5>4
        <4>4. QED
          BY <4>2, <4>3
      <3>2. QED
        BY <3>1 DEF ViewsAt
    <2>10. QED
      BY <2>5, <2>6, <2>7, <2>8, <2>9
  <1>7. ASSUME NEW t \in Threads, NEW f \in Fds, Unmap(t, f) PROVE Goal
    <2> DEFINE p == Process[t]
               k == UnmapPlace(t, f)
    <2>1. /\ filp[p] # None /\ UNCHANGED <<attached, filp, pc, arg, dead>>
          /\ p \in Disciplined => view[p][f] # None
          /\ view' = [view EXCEPT ![p][f] = None]
          /\ \/ UNCHANGED list /\ (~attached \/ MatchPlaces(t, f) = {})
             \/ MatchPlaces(t, f) # {} /\ attached /\ list' = RemoveAt(list, k)
      BY <1>7 DEF Unmap, UnmapPlace, MatchPlaces
    <2>2. /\ view'[p][f] = None
          /\ \A q \in Processes, g \in Fds : q # p \/ g # f => view'[q][g] = view[q][g]
      BY <1>i, <2>1 DEF DmaTypes
    <2>3. MatchPlaces(t, f) # {} => k \in 1 .. Len(list) /\ Hit(list[k], p, f)
      BY <1>i, UnmapPlaceMatches DEF DmaTypes, Matches, Hit
    <2>4. MatchPlaces(t, f) = {} => \A i \in 1 .. Len(list) : ~Hit(list[i], p, f)
      BY DEF MatchPlaces, Matches, Hit
    <2> HIDE DEF k
    <2>5. list' # list =>
            /\ \A j \in 1 .. Len(list') : \E m \in 1 .. Len(list) :
                 m # k /\ m = (IF j < k THEN j ELSE j + 1) /\ list'[j] = list[m]
            /\ \A m \in 1 .. Len(list) : m # k => \E j \in 1 .. Len(list') :
                 j = (IF m < k THEN m ELSE m - 1) /\ list'[j] = list[m]
      <3>1. SUFFICES ASSUME list' # list
                     PROVE  /\ \A j \in 1 .. Len(list') : \E m \in 1 .. Len(list) :
                                 m # k /\ m = (IF j < k THEN j ELSE j + 1) /\ list'[j] = list[m]
                            /\ \A m \in 1 .. Len(list) : m # k => \E j \in 1 .. Len(list') :
                                 j = (IF m < k THEN m ELSE m - 1) /\ list'[j] = list[m]
        OBVIOUS
      <3>2. list' = RemoveAt(list, k) /\ k \in 1 .. Len(list)
        BY <2>1, <2>3, <3>1
      <3>3. list \in Seq(Entry)
        BY <1>i DEF DmaTypes
      <3>4. /\ \A j \in 1 .. Len(RemoveAt(list, k)) : \E m \in 1 .. Len(list) :
                 /\ m # k /\ m = (IF j < k THEN j ELSE j + 1) /\ RemoveAt(list, k)[j] = list[m]
            /\ \A m \in 1 .. Len(list) : m # k => \E j \in 1 .. Len(RemoveAt(list, k)) :
                 /\ j = (IF m < k THEN m ELSE m - 1) /\ RemoveAt(list, k)[j] = list[m]
        BY <3>2, <3>3, RemoveAtMoves, Zenon
      <3>5. QED
        BY <3>2, <3>4, Zenon
    <2>6. \A j \in 1 .. Len(list') : \E m \in 1 .. Len(list) : list'[j] = list[m]
      BY <2>5
    <2>7. ListAttached'
      BY <1>i, <2>1 DEF ListAttached
    <2>8. MapsOnce'
      <3>1. ASSUME NEW u \in Threads, Process[u] \in Disciplined, pc[u] # "idle"
            PROVE  view'[Process[u]][arg[u].fd] = None
        BY <1>i, <2>2, <3>1 DEF MapsOnce, ArgFilled
      <3>2. QED
        BY <1>i, <2>1, <3>1 DEF MapsOnce
    <2>9. ClosedBlind'
      BY <1>i, <2>1, <2>2 DEF ClosedBlind
    <2>10. OwnFileOnly'
      <3>1. ASSUME NEW q \in Disciplined \ dead, NEW i \in 1 .. Len(list'), list'[i].p_id = q
            PROVE  list'[i].filp = filp[q]
        BY <1>i, <2>6, <3>1 DEF OwnFileOnly
      <3>2. QED
        BY <2>1, <3>1 DEF OwnFileOnly
    <2>11. ViewsAt'
      <3>1. ASSUME NEW q \in Disciplined, NEW g \in Fds, filp'[q] # None PROVE ViewAt(q, g)'
        <4>1. ViewAt(q, g) /\ q \in Processes
          BY <1>i, <2>1, <3>1 DEF ViewsAt
        <4>2. CASE q = p /\ g = f
          <5>1. PICK i \in 1 .. Len(list) : /\ Hit(list[i], q, g)
                                            /\ \A j \in 1 .. Len(list) : Hit(list[j], q, g) => j = i
            BY <2>1, <4>1, <4>2 DEF ViewAt
          <5>2. attached
            <6>1. list # <<>>
              BY <5>1
            <6>2. QED
              BY <1>i, <6>1 DEF ListAttached
          <5>3. MatchPlaces(t, f) # {} /\ k = i
            BY <2>3, <2>4, <4>2, <5>1
          <5>4. list' = RemoveAt(list, k)
            BY <2>1, <5>2, <5>3
          <5>5. \A j \in 1 .. Len(list') : \E m \in 1 .. Len(list) : m # k /\ list'[j] = list[m]
            BY <1>i, <2>3, <5>3, <5>4, RemoveAtMoves DEF DmaTypes
          <5>6. \A j \in 1 .. Len(list') : ~Hit(list'[j], q, g)
            BY <5>1, <5>3, <5>5
          <5>7. QED
            BY <2>1, <2>2, <4>2, <5>6 DEF ViewAt, Hit
        <4>3. CASE ~(q = p /\ g = f)
          <5>1. view'[q][g] = view[q][g]
            BY <2>2, <4>1, <4>3
          <5>2. CASE list' = list
            BY <2>1, <4>1, <5>1, <5>2 DEF ViewAt, Hit
          <5>3. CASE list' # list
            <6>1. k \in 1 .. Len(list) /\ ~Hit(list[k], q, g)
              BY <2>1, <2>3, <4>3, <5>3 DEF Hit
            <6>2. CASE view[q][g] = None
              <7>1. \A i \in 1 .. Len(list') : ~Hit(list'[i], q, g)
                BY <2>6, <4>1, <6>2 DEF ViewAt
              <7>2. QED
                BY <2>1, <5>1, <6>2, <7>1 DEF ViewAt, Hit
            <6>3. CASE view[q][g] # None
              <7>1. PICK i \in 1 .. Len(list) :
                       /\ Hit(list[i], q, g) /\ list[i].buf = view[q][g]
                       /\ \A j \in 1 .. Len(list) : Hit(list[j], q, g) => j = i
                BY <4>1, <6>3 DEF ViewAt
              <7>2. PICK h \in 1 .. Len(list') :
                       h = (IF i < k THEN i ELSE i - 1) /\ list'[h] = list[i]
                BY <2>5, <5>3, <6>1, <7>1
              <7>3. ASSUME NEW j \in 1 .. Len(list'), Hit(list'[j], q, g) PROVE j = h
                <8>1. PICK m \in 1 .. Len(list) :
                         m # k /\ m = (IF j < k THEN j ELSE j + 1) /\ list'[j] = list[m]
                  BY <2>5, <5>3
                <8>2. m = i
                  BY <7>1, <7>3, <8>1
                <8>3. QED
                  BY <6>1, <7>2, <8>1, <8>2
              <7>4. QED
                BY <2>1, <5>1, <6>3, <7>1, <7>2, <7>3 DEF ViewAt, Hit
            <6>4. QED
              BY <6>2, <6>3
          <5>4. QED
            BY <5>2, <5>3
        <4>4. QED
          BY <4>2, <4>3
      <3>2. QED
        BY <3>1 DEF ViewsAt
    <2>12. QED
      BY <2>7, <2>8, <2>9, <2>10, <2>11
  <1>8. CASE UNCHANGED vars
    <2>1. UNCHANGED <<list, attached, filp, pc, arg, view, dead>>
      BY <1>8 DEF vars
    <2>2. ListAttached' /\ MapsOnce'
      BY <1>i, <2>1 DEF ListAttached, MapsOnce
    <2>3. QED
      BY <1>i, <2>1, <2>2, ViewFrame
  <1>9. QED
    BY <1>1, <1>2, <1>3, <1>4, <1>5, <1>6, <1>7, <1>8 DEF Next

\* For a process that unmaps before it closes and maps a descriptor once at a
\* time, the entry unmap_dma_buf_addr would find for a descriptor is the one
\* buffer the process has mapped there and not yet unmapped, or there is none:
\* whatever the other processes do, whatever they leave on the list, and
\* whichever struct file addresses and descriptor numbers are used again.
THEOREM ViewsAreExact == Spec => []ViewExact
  <1>1. ViewInv => ViewExact
    <2>1. SUFFICES ASSUME ViewInv, NEW p \in Disciplined, NEW f \in Fds, filp[p] # None
                   PROVE  LET I == {i \in 1 .. Len(list) : list[i].fd = f /\ list[i].p_id = p
                                                           /\ list[i].filp = filp[p]}
                          IN  IF view[p][f] = None THEN I = {}
                              ELSE \E i \in I : I = {i} /\ list[i].buf = view[p][f]
      BY DEF ViewExact
    <2>2. ViewAt(p, f)
      BY <2>1 DEF ViewInv, ViewsAt
    <2>3. CASE view[p][f] = None
      BY <2>2, <2>3 DEF ViewAt, Hit
    <2>4. CASE view[p][f] # None
      <3>1. PICK i \in 1 .. Len(list) :
               /\ Hit(list[i], p, f) /\ list[i].buf = view[p][f]
               /\ \A j \in 1 .. Len(list) : Hit(list[j], p, f) => j = i
        BY <2>2, <2>4 DEF ViewAt
      <3>2. {j \in 1 .. Len(list) : list[j].fd = f /\ list[j].p_id = p
                                    /\ list[j].filp = filp[p]} = {i}
        BY <3>1 DEF Hit
      <3>3. QED
        BY <2>4, <3>1, <3>2
    <2>5. QED
      BY <2>3, <2>4
  <1>2. Spec => []ViewInv
    BY ViewInit, ViewNext, PTL DEF Spec
  <1>3. QED
    BY <1>1, <1>2, PTL

----------------------------------------------------------------------------
(* The list never outgrows its bound, with what the calls in progress will *)
(* add to it: TypeOK.                                                      *)

BusyThreads == {u \in Threads : pc[u] # "idle"}
Capacity == Len(list) + Cardinality(BusyThreads) <= MaxList
CapInv == HoldsInv /\ Capacity

LEMMA BusyFinite == IsFiniteSet(BusyThreads) /\ Cardinality(BusyThreads) \in Nat
  <1>1. IsFiniteSet(BusyThreads)
    BY ProcessAssumption, FS_Subset DEF BusyThreads
  <1>2. QED
    BY <1>1, FS_CardinalityType

LEMMA CapacityNext == HoldsInv /\ Capacity /\ [Next]_vars => Capacity'
  <1> SUFFICES ASSUME HoldsInv, Capacity, [Next]_vars PROVE Capacity'
    OBVIOUS
  <1>1. Len(list) \in Nat /\ MaxList \in Nat /\ Cardinality(BusyThreads) \in Nat
    BY BusyFinite, BoundAssumption DEF HoldsInv, DmaTypes
  <1>2. pc \in [Threads -> PcStates] /\ list \in Seq(Entry)
    BY DEF HoldsInv, DmaTypes
  <1>3. ASSUME UNCHANGED <<list, pc>> PROVE Capacity'
    BY <1>3 DEF Capacity, BusyThreads
  <1>4. ASSUME NEW t \in Threads, NEW f \in Fds, MapCall(t, f) PROVE Capacity'
    <2>1. /\ t \notin BusyThreads /\ BusyThreads' = BusyThreads \cup {t} /\ list' = list
          /\ Len(list) + Cardinality(BusyThreads) < MaxList
      BY <1>2, <1>4 DEF MapCall, BusyThreads
    <2>2. Cardinality(BusyThreads \cup {t}) = Cardinality(BusyThreads) + 1
      BY <2>1, BusyFinite, FS_AddElement
    <2>3. Cardinality(BusyThreads') = Cardinality(BusyThreads) + 1
      BY <2>1, <2>2
    <2>4. QED
      BY <1>1, <2>1, <2>3 DEF Capacity
  <1>5. ASSUME NEW t \in Threads, NEW f \in Fds, Unmap(t, f) PROVE Capacity'
    <2>1. pc' = pc /\ BusyThreads' = BusyThreads
      BY <1>5 DEF Unmap, BusyThreads
    <2>2. \/ list' = list
          \/ MatchPlaces(t, f) # {} /\ list' = RemoveAt(list, UnmapPlace(t, f))
      BY <1>5 DEF Unmap, UnmapPlace, MatchPlaces
    <2>3. MatchPlaces(t, f) # {} => Len(RemoveAt(list, UnmapPlace(t, f))) = Len(list) - 1
      BY <1>2, UnmapPlaceMatches, RemoveAtShape
    <2>4. Len(list') = Len(list) \/ Len(list') = Len(list) - 1
      BY <2>2, <2>3
    <2>5. QED
      BY <1>1, <2>1, <2>4 DEF Capacity
  <1>6. ASSUME NEW t \in Threads, Get(t) \/ Attach(t) \/ AttachFails(t) \/ MapAttachment(t)
                                    \/ MapAttachmentFails(t)
        PROVE  Capacity'
    <2>1. list' = list /\ BusyThreads' \subseteq BusyThreads
      BY <1>2, <1>6 DEF Get, Attach, AttachFails, MapAttachment, MapAttachmentFails, Fail,
         BusyThreads
    <2>2. Cardinality(BusyThreads') <= Cardinality(BusyThreads) /\ Cardinality(BusyThreads') \in Nat
      BY <2>1, BusyFinite, FS_Subset, FS_CardinalityType
    <2>3. QED
      BY <1>1, <2>1, <2>2 DEF Capacity
  <1>7. ASSUME NEW t \in Threads, Add(t) PROVE Capacity'
    <2>1. t \in BusyThreads /\ BusyThreads' = BusyThreads \ {t}
      BY <1>2, <1>7 DEF Add, Fail, BusyThreads
    <2>2. Cardinality(BusyThreads \ {t}) = Cardinality(BusyThreads) - 1
      BY <2>1, BusyFinite, FS_RemoveElement
    <2>3. Cardinality(BusyThreads') = Cardinality(BusyThreads) - 1
      BY <2>1, <2>2
    <2>4. list' \in Seq(Entry) /\ Len(list') = Len(list) + 1
      <3>1. list' \in Seq(Entry)
        BY DmaTypesNext DEF HoldsInv, DmaTypes
      <3>2. QED
        BY <1>2, <1>7, <3>1 DEF Add
    <2>5. QED
      BY <1>1, <2>3, <2>4 DEF Capacity
  <1>8. ASSUME NEW p \in Processes, OpenDev(p) \/ Release(p) \/ Exit(p) PROVE Capacity'
    BY <1>3, <1>8 DEF OpenDev, Release, Exit
  <1>9. ASSUME NEW p \in Processes, NEW f \in Fds,
               CloseFd(p, f) \/ \E b \in Bufs : Import(p, f, b)
        PROVE  Capacity'
    BY <1>3, <1>9 DEF CloseFd, Import
  <1>10. CASE UNCHANGED vars
    BY <1>3, <1>10 DEF vars
  <1>11. QED
    BY <1>4, <1>5, <1>6, <1>7, <1>8, <1>9, <1>10 DEF Next

\* Every variable of the dma-buf part keeps its type: the counts of references,
\* attachments and mappings never go below zero, and neither they nor the list
\* pass the bound, because every call in progress holds a place for its entry.
THEOREM DmaTypeCorrect == Spec => []TypeOK
  <1>1. CapInv => TypeOK
    <2> SUFFICES ASSUME CapInv PROVE TypeOK
      OBVIOUS
    <2>1. /\ DmaTypes /\ HoldsExact /\ Capacity
          /\ Len(list) \in Nat /\ MaxList \in Nat /\ Cardinality(BusyThreads) \in Nat
      BY BusyFinite, BoundAssumption DEF CapInv, HoldsInv, DmaTypes
    <2>2. ASSUME NEW b \in Bufs PROVE Entries(b) \in Nat /\ Entries(b) <= Len(list)
      <3>1. list \in Seq(Entry)
        BY <2>1 DEF DmaTypes
      <3>2. Len(list) \in Int /\ 1 \in Int /\ (IF 1 > Len(list) THEN 0 ELSE Len(list) - 1 + 1) = Len(list)
        BY <2>1
      <3>3. IsFiniteSet(1 .. Len(list)) /\ Cardinality(1 .. Len(list)) = Len(list)
        BY <3>2, FS_Interval
      <3>4. Entries(b) = Cardinality(Places(list, Holding(b))) /\ Entries(b) \in Nat
        BY <3>1, EntriesArePlaces
      <3>5. Places(list, Holding(b)) \in SUBSET (1 .. Len(list))
        BY DEF Places
      <3>6. Cardinality(Places(list, Holding(b))) <= Cardinality(1 .. Len(list))
        BY <3>3, <3>5, FS_Subset
      <3>7. QED
        BY <3>3, <3>4, <3>6
    <2>3. ASSUME NEW b \in Bufs, NEW S \in SUBSET Refd
          PROVE  InCall(b, S) \in Nat /\ InCall(b, S) <= Cardinality(BusyThreads)
      <3>1. {t \in Threads : arg[t].buf = b /\ pc[t] \in S} \subseteq BusyThreads
        BY DEF BusyThreads, Refd
      <3>2. QED
        BY <3>1, BusyFinite, InCallFinite, FS_Subset DEF InCall
    <2>4. ASSUME NEW b \in Bufs
          PROVE  ref[b] \in 0 .. MaxList /\ att[b] \in 0 .. MaxList /\ maps[b] \in 0 .. MaxList
      <3>1. HoldsAt(b)
        BY <2>1, HoldsExactAt
      <3>2. /\ InCall(b, Refd) \in Nat /\ InCall(b, Refd) <= Cardinality(BusyThreads)
            /\ InCall(b, Attd) \in Nat /\ InCall(b, Attd) <= Cardinality(BusyThreads)
            /\ InCall(b, Mapd) \in Nat /\ InCall(b, Mapd) <= Cardinality(BusyThreads)
        <4>1. Attd \subseteq Refd /\ Mapd \subseteq Refd
          BY DEF Refd, Attd, Mapd
        <4>2. QED
          BY <2>3, <4>1
      <3>3. Entries(b) \in Nat /\ Entries(b) <= Len(list)
        BY <2>2
      <3>4. QED
        BY <2>1, <3>1, <3>2, <3>3 DEF HoldsAt, Capacity
    <2>5. /\ ref \in [Bufs -> 0 .. MaxList] /\ att \in [Bufs -> 0 .. MaxList]
          /\ maps \in [Bufs -> 0 .. MaxList] /\ Len(list) <= MaxList
      BY <2>1, <2>4 DEF DmaTypes, Capacity
    <2>6. QED
      BY <2>1, <2>5 DEF TypeOK, DmaTypes, Entry
  <1>2. Init => CapInv
    <2> SUFFICES ASSUME Init PROVE CapInv
      OBVIOUS
    <2>1. BusyThreads = {} /\ Len(list) = 0
      BY DEF Init, BusyThreads
    <2>2. Cardinality(BusyThreads) = 0
      BY <2>1, FS_EmptySet
    <2>3. QED
      BY <2>1, <2>2, HoldsInit, BoundAssumption DEF CapInv, Capacity
  <1>3. CapInv /\ [Next]_vars => CapInv'
    BY HoldsNext, CapacityNext DEF CapInv
  <1>4. QED
    BY <1>1, <1>2, <1>3, PTL DEF Spec

=============================================================================
