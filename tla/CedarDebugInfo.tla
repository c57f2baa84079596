---------------------------- MODULE CedarDebugInfo -----------------------------
(***************************************************************************)
(* The debug information slots of the Cedar VE driver (cedar_ve.c):        *)
(* IOCTL_PROC_INFO_COPY stores a text per process and thread,              *)
(* IOCTL_PROC_INFO_STOP gives the slot back, the sysfs file ve_info shows  *)
(* all texts.  The slots are under lock_debug_info, but the index of the   *)
(* current slot lives in the device and is reset before the lock is taken. *)
(***************************************************************************)
EXTENDS Integers, FiniteSets, FiniteSetsExt

CONSTANTS
    Callers,     \* threads that may be in one of the ioctls
    Keys,        \* (pid, tid) pairs; NoKey is (0, 0), the mark of an empty slot
    NInfos,      \* MAX_VE_DEBUG_INFO_NUM
    Lengths,     \* announced lengths
    Addrs,       \* addresses vmalloc may return
    PageSize     \* what the sysfs file may show

ASSUME DebugAssumption ==
    /\ NInfos \in Nat \ {0} /\ Lengths \subseteq Nat \ {0} /\ PageSize \in Nat
    /\ "NULL" \notin Addrs /\ "nobody" \notin Callers

VARIABLES
    debug_info,  \* slots: [key, length, data]
    cur_index,   \* debug_info_cur_index, 0 for -1
    lock_debug_info,
    copy,        \* where each caller is in PROC_INFO_COPY
    heap,        \* size of the block at each address, 0 if none
    spoiled,     \* history: slots whose last COPY failed or was not the owner's
    faulted,     \* history: a COPY failed while it read the text
    contested,   \* history: two COPY calls have overlapped
    astray       \* history: a COPY has used debug_info[-1] or another's slot

debugVars == <<debug_info, cur_index, lock_debug_info, copy, heap, spoiled, faulted, contested, astray>>

Infos == 1..NInfos
NoKey == 0
NULL == "NULL"
Nobody == "nobody"
NoInfo == [key |-> NoKey, length |-> 0, data |-> NULL]
Outside == [at |-> "idle"]

DebugInit ==
    /\ debug_info = [i \in Infos |-> NoInfo]
    /\ cur_index = 0
    /\ lock_debug_info = Nobody
    /\ copy = [t \in Callers |-> Outside]
    /\ heap = [a \in Addrs |-> 0]
    /\ spoiled = {} /\ faulted = FALSE /\ contested = FALSE /\ astray = FALSE

(* A second vfree of an address does nothing, or frees what has been        *)
(* allocated there since.                                                   *)
Vfree(h, a) == IF a = NULL THEN h ELSE [h EXCEPT ![a] = 0]

Copying(t, step) == lock_debug_info = t /\ copy[t].at = step

(***************************************************************************)
(* IOCTL_PROC_INFO_COPY                                                    *)
(***************************************************************************)
CopyReset(t, k, len) ==
    /\ copy[t] = Outside
    /\ cur_index' = 0
    /\ contested' = (contested \/ \E u \in Callers : copy[u] # Outside)
    /\ \/ copy' = [copy EXCEPT ![t] = [at |-> "lock", key |-> k, length |-> len]]
       \/ UNCHANGED copy                     \* copy_from_user of the head failed
    /\ UNCHANGED <<debug_info, lock_debug_info, heap, spoiled, faulted, astray>>

SlotFor(k) ==
    LET same == {i \in Infos : debug_info[i].key = k}
        free == {i \in Infos : debug_info[i].key = NoKey}
    IN  IF same # {} THEN Min(same) ELSE IF free # {} THEN Min(free) ELSE 0

CopyMatch(t) ==
    /\ copy[t] # Outside /\ copy[t].at = "lock" /\ lock_debug_info = Nobody
    /\ lock_debug_info' = t
    /\ LET i == SlotFor(copy[t].key)
       IN  /\ cur_index' = IF i = 0 THEN cur_index ELSE i
           /\ debug_info' = IF i = 0 THEN debug_info
                            ELSE [debug_info EXCEPT ![i].key = copy[t].key, ![i].length = copy[t].length]
           /\ spoiled' = IF i = 0 THEN spoiled ELSE spoiled \cup {i}
    /\ copy' = [copy EXCEPT ![t].at = "check"]
    /\ UNCHANGED <<heap, faulted, contested, astray>>

(* Faulty variant: the check of the index is missing. *)
CopyUnchecked(t) ==
    /\ Copying(t, "check")
    /\ copy' = [copy EXCEPT ![t].at = "use"]
    /\ UNCHANGED <<debug_info, cur_index, lock_debug_info, heap, spoiled, faulted, contested, astray>>

CopyCheck(t) ==
    /\ Copying(t, "check")
    /\ IF cur_index = 0
       THEN lock_debug_info' = Nobody /\ copy' = [copy EXCEPT ![t] = Outside]
       ELSE copy' = [copy EXCEPT ![t].at = "use"] /\ UNCHANGED lock_debug_info
    /\ UNCHANGED <<debug_info, cur_index, heap, spoiled, faulted, contested, astray>>

CopyEnd(t) == lock_debug_info' = Nobody /\ copy' = [copy EXCEPT ![t] = Outside]

CopyOutcome(i, h, own) ==
    \/ \* vmalloc fails
       /\ heap' = h
       /\ debug_info' = [debug_info EXCEPT ![i].data = NULL]
       /\ spoiled' = spoiled \cup {i} /\ UNCHANGED faulted
    \/ \E a \in {b \in Addrs : h[b] = 0} :
       /\ debug_info' = [debug_info EXCEPT ![i].data = a]
       /\ \/ /\ heap' = [h EXCEPT ![a] = debug_info[i].length]
             /\ spoiled' = (IF own THEN spoiled \ {i} ELSE spoiled \cup {i})
             /\ UNCHANGED faulted
          \/ \* copy_from_user fails: the block is freed, the pointer stays
             /\ heap' = h
             /\ spoiled' = spoiled \cup {i} /\ faulted' = TRUE

(* Old text freed, new one allocated and read from the user.  The slot is   *)
(* the caller's own, or, if the table was full for it and another caller    *)
(* has stored an index after its reset, the other's.                        *)
CopyText(t) ==
    /\ Copying(t, "use") /\ cur_index # 0
    /\ LET i == cur_index
           h == Vfree(heap, debug_info[i].data)
           own == debug_info[i].key = copy[t].key
       IN  /\ astray' = (astray \/ ~own)
           /\ CopyOutcome(i, h, own)
    /\ CopyEnd(t)
    /\ UNCHANGED <<cur_index, contested>>

(* The index was reset between the check and its use: the driver works on   *)
(* the bytes in front of the table, and comes back or dies with the lock.   *)
CopyOutOfTable(t) ==
    /\ Copying(t, "use") /\ cur_index = 0
    /\ astray' = TRUE
    /\ \/ CopyEnd(t)
       \/ copy' = [copy EXCEPT ![t].at = "dead"] /\ UNCHANGED lock_debug_info
    /\ UNCHANGED <<debug_info, cur_index, heap, spoiled, faulted, contested>>

(***************************************************************************)
(* IOCTL_PROC_INFO_STOP and cedardev_exit                                  *)
(***************************************************************************)
(* Faulty variant: the slot is given back with its text. *)
ProcInfoStopKeepsText(t, k) ==
    /\ copy[t] = Outside /\ lock_debug_info = Nobody
    /\ LET same == {i \in Infos : debug_info[i].key = k}
       IN  /\ same # {}
           /\ debug_info' = [debug_info EXCEPT ![Min(same)] = NoInfo]
    /\ UNCHANGED <<cur_index, lock_debug_info, copy, heap, spoiled, faulted, contested, astray>>

(* Faulty variant: the text is freed and its pointer kept. *)
ProcInfoStopKeepsPointer(t, k) ==
    /\ copy[t] = Outside /\ lock_debug_info = Nobody
    /\ LET same == {i \in Infos : debug_info[i].key = k}
       IN  /\ same # {}
           /\ heap' = Vfree(heap, debug_info[Min(same)].data)
           /\ debug_info' = [debug_info EXCEPT ![Min(same)].key = NoKey, ![Min(same)].length = 0]
    /\ UNCHANGED <<cur_index, lock_debug_info, copy, spoiled, faulted, contested, astray>>

ProcInfoStop(t, k) ==
    /\ copy[t] = Outside /\ lock_debug_info = Nobody
    /\ LET same == {i \in Infos : debug_info[i].key = k}
       IN  /\ same # {}
           /\ heap' = Vfree(heap, debug_info[Min(same)].data)
           /\ debug_info' = [debug_info EXCEPT ![Min(same)] = NoInfo]
           /\ spoiled' = spoiled \ {Min(same)}
    /\ UNCHANGED <<cur_index, lock_debug_info, copy, faulted, contested, astray>>

(* Unloading and loading again: cedardev_exit frees the texts, the new      *)
(* device starts from zero.  No file is open.                               *)
DebugExit ==
    /\ \A t \in Callers : copy[t] = Outside
    /\ heap' = [a \in Addrs |-> IF \E i \in Infos : debug_info[i].data = a THEN 0 ELSE heap[a]]
    /\ debug_info' = [i \in Infos |-> NoInfo]
    /\ cur_index' = 0
    /\ spoiled' = {} /\ faulted' = FALSE /\ contested' = FALSE /\ astray' = FALSE
    /\ UNCHANGED <<lock_debug_info, copy>>

DebugNext ==
    \/ \E t \in Callers, k \in Keys \cup {NoKey} :
          \/ \E len \in Lengths : CopyReset(t, k, len)
          \/ ProcInfoStop(t, k)
    \/ \E t \in Callers : CopyMatch(t) \/ CopyCheck(t) \/ CopyText(t) \/ CopyOutOfTable(t)
    \/ DebugExit

DebugSpec == DebugInit /\ [][DebugNext]_debugVars

--------------------------------------------------------------------------------
(* ve_info_show: the slots copied to the page, up to the first that would   *)
(* make the sum of the lengths exceed it.                                   *)
ShownUpTo(i) == {j \in Infos : j <= i /\ debug_info[j].key # NoKey}
LengthOf(i) == debug_info[i].length
ve_info_show == {i \in Infos : debug_info[i].key # NoKey /\ MapThenSumSet(LengthOf, ShownUpTo(i)) <= PageSize}

(* What ve_info copies is a live text of the announced length that belongs  *)
(* to this slot alone, unless the last COPY to the slot has failed (the     *)
(* length is stored first) or went astray, or a COPY somewhere has failed while reading its *)
(* text, which leaves a pointer to a freed block.                           *)
ShowReadsOwnText ==
    lock_debug_info = Nobody /\ ~faulted =>
        \A i \in ve_info_show \ spoiled :
            /\ debug_info[i].data # NULL
            /\ heap[debug_info[i].data] = debug_info[i].length
            /\ \A j \in Infos \ {i} : debug_info[j].data # debug_info[i].data

(* Every block is still reachable from a slot, so the exit path frees all.  *)
NoTextLeaks ==
    \A a \in Addrs : heap[a] # 0 => \E i \in Infos : debug_info[i].data = a

(* As long as no two COPY calls overlap, none works in front of the table   *)
(* or on another's slot; and a process has one slot, overlap or not.        *)
IndexExplained ==
    /\ astray => contested
    /\ \A i, j \in Infos : debug_info[i].key = debug_info[j].key /\ debug_info[i].key # NoKey => i = j
================================================================================
