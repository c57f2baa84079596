----------------------------- MODULE CedarDmaBuf -----------------------------
(***************************************************************************)
(* The dma-bufs of the Cedar VE driver (cedar_ve.c): MAP_DMA_BUF and       *)
(* GET_IOMMU_ADDR map a buffer for the engine and put it on one global     *)
(* list, UNMAP_DMA_BUF and FREE_IOMMU_ADDR find it there again by file     *)
(* descriptor, process and file.  The address of a struct file is used     *)
(* again after a close, and so is a descriptor number.                     *)
(***************************************************************************)
EXTENDS Integers, Sequences, FiniteSets, SequencesExt

CONSTANTS
    Threads,       \* threads that call the driver
    Process,       \* the process of each thread: Threads -> Processes
    Processes,
    Filps,         \* addresses of struct file
    Fds,           \* descriptor numbers for dma-bufs in a process
    Bufs,          \* dma-bufs
    Disciplined,   \* processes that unmap before they close, and map a
                   \* descriptor once
    MaxList        \* bound: entries on the list

None == "none"

ASSUME ProcessAssumption == Process \in [Threads -> Processes] /\ IsFiniteSet(Threads)
ASSUME BoundAssumption == MaxList \in Nat /\ Disciplined \subseteq Processes
ASSUME NamesAssumption == None \notin Filps \cup Bufs \cup Fds

VARIABLES
    list,      \* cedar_devp->list: entries [fd, p_id, filp, buf]
    attached,  \* bMemDevAttachFlag
    filp,      \* the process's open VE file
    fds,       \* process -> fd -> dma-buf
    ref,       \* references the driver holds on each dma-buf
    att,       \* its attachments
    maps,      \* its mappings
    pc,        \* where each thread is in map_dma_buf_addr
    arg,       \* its buf_info: [fd, buf]
    view,      \* what the process thinks is mapped: fd -> dma-buf
    dead       \* processes that have exited

counts == <<ref, att, maps>>
vars == <<list, attached, filp, fds, ref, att, maps, pc, arg, view, dead>>

NoArg == [fd |-> None, buf |-> None]
PcStates == {"idle", "get", "attach", "map", "add"}

Init ==
    /\ list = <<>>
    /\ attached = FALSE
    /\ filp = [p \in Processes |-> None]
    /\ fds = [p \in Processes |-> [f \in Fds |-> None]]
    /\ ref = [b \in Bufs |-> 0]
    /\ att = [b \in Bufs |-> 0]
    /\ maps = [b \in Bufs |-> 0]
    /\ pc = [t \in Threads |-> "idle"]
    /\ arg = [t \in Threads |-> NoArg]
    /\ view = [p \in Processes |-> [f \in Fds |-> None]]
    /\ dead = {}

Busy(p) == \E t \in Threads : Process[t] = p /\ pc[t] # "idle"
Mapping(p, f) == \E t \in Threads : Process[t] = p /\ arg[t].fd = f

-----------------------------------------------------------------------------
(* The processes.                                                          *)

\* A free struct file is handed out; another process may have used it before.
OpenDev(p) ==
    /\ p \notin dead /\ filp[p] = None
    /\ \E a \in Filps :
         /\ \A q \in Processes : filp[q] # a
         /\ filp' = [filp EXCEPT ![p] = a]
    /\ UNCHANGED <<list, attached, fds, counts, pc, arg, view, dead>>

\* cedardev_release: unmap_dma_buf_addr(1, 0, filp) is commented out.
Release(p) ==
    /\ filp[p] # None /\ ~Busy(p)
    /\ p \in Disciplined => \A f \in Fds : view[p][f] = None
    /\ filp' = [filp EXCEPT ![p] = None]
    /\ view' = [view EXCEPT ![p] = [f \in Fds |-> None]]
    /\ UNCHANGED <<list, attached, fds, counts, pc, arg, dead>>

\* The process gets a dma-buf from an allocator or another process.
Import(p, f, b) ==
    /\ p \notin dead /\ fds[p][f] = None
    /\ fds' = [fds EXCEPT ![p][f] = b]
    /\ UNCHANGED <<list, attached, filp, counts, pc, arg, view, dead>>

CloseFd(p, f) ==
    /\ fds[p][f] # None
    /\ p \in Disciplined => view[p][f] = None /\ ~Mapping(p, f)
    /\ fds' = [fds EXCEPT ![p][f] = None]
    /\ UNCHANGED <<list, attached, filp, counts, pc, arg, view, dead>>

\* The process dies outside an ioctl: all its files are closed.
Exit(p) ==
    /\ p \notin dead /\ ~Busy(p)
    /\ dead' = dead \cup {p}
    /\ filp' = [filp EXCEPT ![p] = None]
    /\ fds' = [fds EXCEPT ![p] = [f \in Fds |-> None]]
    /\ view' = [view EXCEPT ![p] = [f \in Fds |-> None]]
    /\ UNCHANGED <<list, attached, counts, pc, arg>>

-----------------------------------------------------------------------------
(* map_dma_buf_addr.                                                       *)

\* MAP_DMA_BUF or GET_IOMMU_ADDR is called.
MapCall(t, f) ==
    LET p == Process[t] IN
    /\ pc[t] = "idle" /\ filp[p] # None
    /\ Len(list) + Cardinality({u \in Threads : pc[u] # "idle"}) < MaxList
    /\ p \in Disciplined => fds[p][f] # None /\ view[p][f] = None /\ ~Mapping(p, f)
    /\ attached' = TRUE
    /\ pc' = [pc EXCEPT ![t] = "get"]
    /\ arg' = [arg EXCEPT ![t] = [fd |-> f, buf |-> None]]
    /\ UNCHANGED <<list, filp, fds, counts, view, dead>>

\* The call returns an error and buf_info is freed.
Fail(t) ==
    /\ pc' = [pc EXCEPT ![t] = "idle"]
    /\ arg' = [arg EXCEPT ![t] = NoArg]

\* kmalloc and dma_buf_get; either may fail.
Get(t) ==
    LET b == fds[Process[t]][arg[t].fd] IN
    /\ pc[t] = "get"
    /\ \/ Fail(t) /\ UNCHANGED ref
       \/ /\ b # None
          /\ ref' = [ref EXCEPT ![b] = @ + 1]
          /\ arg' = [arg EXCEPT ![t].buf = b]
          /\ pc' = [pc EXCEPT ![t] = "attach"]
    /\ UNCHANGED <<list, attached, filp, fds, att, maps, view, dead>>

Attach(t) ==
    /\ pc[t] = "attach"
    /\ att' = [att EXCEPT ![arg[t].buf] = @ + 1]
    /\ pc' = [pc EXCEPT ![t] = "map"]
    /\ UNCHANGED <<list, attached, filp, fds, ref, maps, arg, view, dead>>

\* BUF_PUT
AttachFails(t) ==
    /\ pc[t] = "attach"
    /\ ref' = [ref EXCEPT ![arg[t].buf] = @ - 1]
    /\ Fail(t)
    /\ UNCHANGED <<list, attached, filp, fds, att, maps, view, dead>>

MapAttachment(t) ==
    /\ pc[t] = "map"
    /\ maps' = [maps EXCEPT ![arg[t].buf] = @ + 1]
    /\ pc' = [pc EXCEPT ![t] = "add"]
    /\ UNCHANGED <<list, attached, filp, fds, ref, att, arg, view, dead>>

\* Faulty variant: the error path forgets dma_buf_put.
MapAttachmentFailsKeepsRef(t) ==
    /\ pc[t] = "map"
    /\ att' = [att EXCEPT ![arg[t].buf] = @ - 1]
    /\ Fail(t)
    /\ UNCHANGED <<list, attached, filp, fds, ref, maps, view, dead>>

\* BUF_DETATCH, then BUF_PUT
MapAttachmentFails(t) ==
    /\ pc[t] = "map"
    /\ att' = [att EXCEPT ![arg[t].buf] = @ - 1]
    /\ ref' = [ref EXCEPT ![arg[t].buf] = @ - 1]
    /\ Fail(t)
    /\ UNCHANGED <<list, attached, filp, fds, maps, view, dead>>

\* The entry goes on the list under lock_mem and the ioctl returns.  When
\* copy_to_user fails the entry stays; UNMAP_DMA_BUF finds it by descriptor.
Add(t) ==
    LET p == Process[t] IN
    /\ pc[t] = "add"
    /\ list' = Append(list, [fd |-> arg[t].fd, p_id |-> p, filp |-> filp[p],
                             buf |-> arg[t].buf])
    /\ view' = [view EXCEPT ![p][arg[t].fd] = arg[t].buf]
    /\ Fail(t)
    /\ UNCHANGED <<attached, filp, fds, counts, dead>>

-----------------------------------------------------------------------------
(* unmap_dma_buf_addr(0, fd, filp): all of it under lock_mem.              *)

\* Faulty variant: entries are told apart by descriptor number alone.
MatchesFd(e, t, f) == e.fd = f

Matches(e, t, f) ==
    e.fd = f /\ e.p_id = Process[t] /\ e.filp = filp[Process[t]]

Unmap(t, f) ==
    LET p == Process[t]
        I == {i \in 1 .. Len(list) : Matches(list[i], t, f)}
        i == CHOOSE j \in I : \A k \in I : j <= k
    IN
    /\ pc[t] = "idle" /\ filp[p] # None
    /\ p \in Disciplined => view[p][f] # None
    /\ view' = [view EXCEPT ![p][f] = None]
    /\ IF ~attached \/ I = {}
       THEN UNCHANGED <<list, counts>>
       ELSE /\ list' = RemoveAt(list, i)
            /\ maps' = [maps EXCEPT ![list[i].buf] = @ - 1]
            /\ att' = [att EXCEPT ![list[i].buf] = @ - 1]
            /\ ref' = [ref EXCEPT ![list[i].buf] = @ - 1]
    /\ UNCHANGED <<attached, filp, fds, pc, arg, dead>>

Next ==
    \/ \E p \in Processes : OpenDev(p) \/ Release(p) \/ Exit(p)
    \/ \E p \in Processes, f \in Fds : CloseFd(p, f)
    \/ \E p \in Processes, f \in Fds, b \in Bufs : Import(p, f, b)
    \/ \E t \in Threads, f \in Fds : MapCall(t, f) \/ Unmap(t, f)
    \/ \E t \in Threads :
         \/ Get(t) \/ Attach(t) \/ AttachFails(t)
         \/ MapAttachment(t) \/ MapAttachmentFails(t) \/ Add(t)

Spec == Init /\ [][Next]_vars

-----------------------------------------------------------------------------
(* Properties.                                                             *)

\* Every variable keeps its type; in particular the counts of dma-buf
\* references, attachments and mappings never go below zero.
TypeOK ==
    /\ list \in Seq([fd : Fds, p_id : Processes, filp : Filps, buf : Bufs])
    /\ Len(list) <= MaxList
    /\ attached \in BOOLEAN
    /\ filp \in [Processes -> Filps \cup {None}]
    /\ fds \in [Processes -> [Fds -> Bufs \cup {None}]]
    /\ ref \in [Bufs -> 0 .. MaxList]
    /\ att \in [Bufs -> 0 .. MaxList]
    /\ maps \in [Bufs -> 0 .. MaxList]
    /\ pc \in [Threads -> PcStates]
    /\ arg \in [Threads -> [fd : Fds \cup {None}, buf : Bufs \cup {None}]]
    /\ view \in [Processes -> [Fds -> Bufs \cup {None}]]
    /\ dead \subseteq Processes

Entries(b) == Cardinality({i \in 1 .. Len(list) : list[i].buf = b})
InCall(b, S) == Cardinality({t \in Threads : arg[t].buf = b /\ pc[t] \in S})

\* Every reference, attachment and mapping the driver holds on a dma-buf
\* belongs to a list entry or to a call in progress, through every error path
\* of map_dma_buf_addr and whoever unmaps: nothing leaks and nothing is
\* released twice.
HoldsExact ==
    \A b \in Bufs :
      /\ ref[b] = Entries(b) + InCall(b, {"attach", "map", "add"})
      /\ att[b] = Entries(b) + InCall(b, {"map", "add"})
      /\ maps[b] = Entries(b) + InCall(b, {"add"})

\* For processes that unmap before they close, the list agrees with what they
\* think: what they have mapped and not unmapped is on the list once and with
\* the right buffer, and what they have unmapped is gone, whatever careless
\* processes map, unmap, close and leave behind, and however descriptor numbers
\* and file addresses are used again.
ViewExact ==
    \A p \in Disciplined, f \in Fds : filp[p] # None =>
      LET I == {i \in 1 .. Len(list) : list[i].fd = f /\ list[i].p_id = p
                                       /\ list[i].filp = filp[p]}
      IN  IF view[p][f] = None THEN I = {}
          ELSE \E i \in I : I = {i} /\ list[i].buf = view[p][f]
=============================================================================
