----------------------------- MODULE CedarLocks -----------------------------
(***************************************************************************)
(* The mutexes that cedar_ve.c lends to user space: IOCTL_GET_LOCK and     *)
(* IOCTL_RELEASE_LOCK for the hardware locks, IOCTL_SET_PROC_INFO, which   *)
(* returns with lock_proc held, IOCTL_COPY_PROC_INFO, which unlocks it,    *)
(* IOCTL_STOP_PROC_INFO, and the clean-up in cedardev_release from the     *)
(* per-file lock_flags.                                                    *)
(*                                                                         *)
(* Several threads may share one open file.  lock_flags is loaded and      *)
(* stored under lock_flag_io; the two checks of it are not under any lock. *)
(***************************************************************************)
EXTENDS Naturals, FiniteSets

CONSTANTS
    Threads, Files,
    FileOf,      \* the open file each thread uses
    Locks,       \* hardware locks: vdec, venc, jdec, 00_reg, 04_reg
    Rank,        \* the order in which clients take them
    Channels,    \* valid debug channels, 0 .. VE_DEBUGFS_MAX_CHANNEL - 1
    ChannelOf,   \* the channel each thread reports on
    NoOne        \* owner of a free mutex

Proc == "proc"
Mutexes == Locks \cup {Proc}

ASSUME LocksAssumption ==
    /\ FileOf \in [Threads -> Files] /\ ChannelOf \in [Threads -> Channels]
    /\ Rank \in [Locks -> Nat] /\ Proc \notin Locks /\ NoOne \notin Threads
ASSUME FiniteAssumption == IsFiniteSet(Threads) /\ IsFiniteSet(Locks)

VARIABLES
    pc,        \* where each thread is
    want,      \* lock types of its call in progress
    tmp,       \* lock_flags as it loaded them
    holds,     \* history: what its calls have got and not given back
    file,      \* "open", "dying" (its process was killed) or "closed"
    mutex,     \* owner of each mutex
    io,        \* owner of each file's lock_flag_io
    flags,     \* each file's lock_flags
    channel,   \* ve_debug_proc_info.cur_channel_id
    buf        \* channels whose proc_buf is set

vars == <<pc, want, tmp, holds, file, mutex, io, flags, channel, buf>>
flagVars == <<tmp, io, flags>>
procVars == <<channel, buf>>

Members(f) == {t \in Threads : FileOf[t] = f}
Owned(f) == {m \in Mutexes : mutex[m] \in Members(f)}
AtRest(f) == \A t \in Members(f) : pc[t] = "user"

Goto(t, l) == pc' = [pc EXCEPT ![t] = l]
Call(t, l, w) ==
    /\ pc[t] = "user" /\ file[FileOf[t]] = "open"
    /\ Goto(t, l)
    /\ want' = [want EXCEPT ![t] = w]
Return(t, h) ==
    /\ Goto(t, "user")
    /\ want' = [want EXCEPT ![t] = {}]
    /\ holds' = [holds EXCEPT ![t] = h]

Init ==
    /\ pc = [t \in Threads |-> "user"]
    /\ want = [t \in Threads |-> {}]
    /\ tmp = [t \in Threads |-> {}]
    /\ holds = [t \in Threads |-> {}]
    /\ file = [f \in Files |-> "closed"]
    /\ mutex = [m \in Mutexes |-> NoOne]
    /\ io = [f \in Files |-> NoOne]
    /\ flags = [f \in Files |-> {}]
    /\ channel \in Channels
    /\ buf = {}

----------------------------------------------------------------------------
(* mutex_lock, mutex_unlock and the updates of lock_flags.                 *)

Lock(t, m) == mutex[m] = NoOne /\ mutex' = [mutex EXCEPT ![m] = t]
Unlock(m) == mutex' = [mutex EXCEPT ![m] = NoOne]

Updating == [get_io |-> "get_or", rel_io |-> "rel_and", set_io |-> "set_or", copy_io |-> "copy_and"]
Updated == [get_or |-> "get_ret", rel_and |-> "rel_unlock", set_or |-> "set_fin", copy_and |-> "copy_fin"]

\* Faulty variant: reads lock_flags without lock_flag_io.
FlagsLoadUnlocked(t) ==
    /\ pc[t] \in DOMAIN Updating
    /\ tmp' = [tmp EXCEPT ![t] = flags[FileOf[t]]]
    /\ Goto(t, Updating[pc[t]])
    /\ UNCHANGED <<want, holds, file, mutex, io, flags, procVars>>

FlagsLoad(t) ==
    /\ pc[t] \in DOMAIN Updating
    /\ io[FileOf[t]] = NoOne
    /\ io' = [io EXCEPT ![FileOf[t]] = t]
    /\ tmp' = [tmp EXCEPT ![t] = flags[FileOf[t]]]
    /\ Goto(t, Updating[pc[t]])
    /\ UNCHANGED <<want, holds, file, mutex, flags, procVars>>

FlagsStore(t) ==
    /\ pc[t] \in DOMAIN Updated
    /\ flags' = [flags EXCEPT ![FileOf[t]] =
                    IF pc[t] \in {"get_or", "set_or"} THEN tmp[t] \cup want[t]
                    ELSE tmp[t] \ want[t]]
    /\ io' = [io EXCEPT ![FileOf[t]] = NoOne]
    /\ tmp' = [tmp EXCEPT ![t] = {}]
    /\ Goto(t, Updated[pc[t]])
    /\ UNCHANGED <<want, holds, file, mutex, procVars>>

----------------------------------------------------------------------------
(* IOCTL_GET_LOCK and IOCTL_RELEASE_LOCK.                                  *)

\* Clients take hardware locks in order, and none while they hold lock_proc.
GetCall(t, l) ==
    /\ \A h \in holds[t] : h \in Locks /\ Rank[h] < Rank[l]
    /\ Call(t, "get_mutex", {l})
    /\ UNCHANGED <<holds, file, mutex, flagVars, procVars>>

\* After mutex_lock the driver reports lock_flags that already have the type.
GetMutex(t) ==
    /\ pc[t] = "get_mutex"
    /\ \E l \in want[t] : Lock(t, l)
    /\ Goto(t, "get_io")
    /\ UNCHANGED <<want, holds, file, flagVars, procVars>>

GetReturn(t) ==
    /\ pc[t] = "get_ret"
    /\ Return(t, holds[t] \cup want[t])
    /\ UNCHANGED <<tmp, file, mutex, io, flags, procVars>>

\* A type that is not in lock_flags is refused with -1 and has no effect.
RelCall(t, l) ==
    /\ l \in holds[t]
    /\ l \in flags[FileOf[t]]
    /\ Call(t, "rel_io", {l})
    /\ UNCHANGED <<holds, file, mutex, flagVars, procVars>>

RelUnlock(t) ==
    /\ pc[t] = "rel_unlock"
    /\ \E l \in want[t] : Unlock(l)
    /\ Return(t, holds[t] \ want[t])
    /\ UNCHANGED <<tmp, file, io, flags, procVars>>

----------------------------------------------------------------------------
(* IOCTL_SET_PROC_INFO, IOCTL_COPY_PROC_INFO and IOCTL_STOP_PROC_INFO.     *)

SetCall(t) ==
    /\ Proc \notin holds[t]
    /\ Call(t, "set_mutex", {Proc})
    /\ UNCHANGED <<holds, file, mutex, flagVars, procVars>>

SetMutex(t) ==
    /\ pc[t] = "set_mutex"
    /\ Lock(t, Proc)
    /\ Goto(t, "set_copy")
    /\ UNCHANGED <<want, holds, file, flagVars, procVars>>

\* Faulty variant: tries again for ever.
SetFailsRetries(t) ==
    /\ pc[t] = "set_copy"
    /\ Unlock(Proc)
    /\ Goto(t, "set_mutex")
    /\ UNCHANGED <<want, holds, file, flagVars, procVars>>

\* copy_from_user fails, or the channel is out of range.
SetFails(t) ==
    /\ pc[t] = "set_copy"
    /\ Unlock(Proc)
    /\ Return(t, holds[t])
    /\ UNCHANGED <<tmp, file, io, flags, procVars>>

SetCopied(t) ==
    /\ pc[t] = "set_copy"
    /\ Goto(t, "set_io")
    /\ UNCHANGED <<want, holds, file, mutex, flagVars, procVars>>

\* Faulty variant: does not record the channel.
SetFinishKeepsChannel(t) ==
    /\ pc[t] = "set_fin"
    /\ buf' = buf \cup {ChannelOf[t]}
    /\ Return(t, holds[t] \cup {Proc})
    /\ UNCHANGED <<tmp, file, mutex, io, flags, channel>>

SetFinish(t) ==
    /\ pc[t] = "set_fin"
    /\ channel' = ChannelOf[t]
    /\ buf' = buf \cup {ChannelOf[t]}
    /\ Return(t, holds[t] \cup {Proc})
    /\ UNCHANGED <<tmp, file, mutex, io, flags>>

CopyCall(t) ==
    /\ Proc \in holds[t]
    /\ Call(t, "copy_io", {Proc})
    /\ UNCHANGED <<holds, file, mutex, flagVars, procVars>>

\* Writes into proc_buf[cur_channel_id]; unlocks when the copy fails, too.
CopyFinish(t) ==
    /\ pc[t] = "copy_fin"
    /\ Unlock(Proc)
    /\ Return(t, holds[t] \ {Proc})
    /\ UNCHANGED <<tmp, file, io, flags, procVars>>

\* A thread stops its own channel, when it is not about to copy into it.
StopProcInfo(t) ==
    /\ pc[t] = "user" /\ file[FileOf[t]] = "open"
    /\ Proc \notin holds[t]
    /\ buf' = buf \ {ChannelOf[t]}
    /\ UNCHANGED <<pc, want, holds, file, mutex, flagVars, channel>>

----------------------------------------------------------------------------
(* The life of a file.                                                     *)

Open(f) ==
    /\ file[f] = "closed"
    /\ file' = [file EXCEPT ![f] = "open"]
    /\ flags' = [flags EXCEPT ![f] = {}]
    /\ UNCHANGED <<pc, want, tmp, holds, mutex, io, procVars>>

\* The last close, or the death of the process at any point of its calls.
Kill(f) ==
    /\ file[f] = "open"
    /\ file' = [file EXCEPT ![f] = "dying"]
    /\ UNCHANGED <<pc, want, holds, mutex, flagVars, procVars>>

\* Faulty variant: forgets lock_proc.
ReleaseForgetsProc(f) ==
    /\ file[f] = "dying" /\ AtRest(f)
    /\ file' = [file EXCEPT ![f] = "closed"]
    /\ mutex' = [m \in Mutexes |-> IF m \in flags[f] \ {Proc} THEN NoOne ELSE mutex[m]]
    /\ flags' = [flags EXCEPT ![f] = {}]
    /\ holds' = [t \in Threads |-> IF t \in Members(f) THEN {} ELSE holds[t]]
    /\ UNCHANGED <<pc, want, tmp, io, procVars>>

\* Faulty variant: unlocks the mutexes of every file.
ReleaseUnlocksAll(f) ==
    /\ file[f] = "dying" /\ AtRest(f)
    /\ file' = [file EXCEPT ![f] = "closed"]
    /\ mutex' = [m \in Mutexes |-> NoOne]
    /\ flags' = [flags EXCEPT ![f] = {}]
    /\ holds' = [t \in Threads |-> IF t \in Members(f) THEN {} ELSE holds[t]]
    /\ UNCHANGED <<pc, want, tmp, io, procVars>>

\* cedardev_release runs when no ioctl on the file is in progress, and unlocks
\* whatever lock_flags name.
Release(f) ==
    /\ file[f] = "dying" /\ AtRest(f)
    /\ file' = [file EXCEPT ![f] = "closed"]
    /\ mutex' = [m \in Mutexes |-> IF m \in flags[f] THEN NoOne ELSE mutex[m]]
    /\ flags' = [flags EXCEPT ![f] = {}]
    /\ holds' = [t \in Threads |-> IF t \in Members(f) THEN {} ELSE holds[t]]
    /\ UNCHANGED <<pc, want, tmp, io, procVars>>

Inside(t) ==
    \/ FlagsLoad(t) \/ FlagsStore(t) \/ GetReturn(t) \/ RelUnlock(t)
    \/ SetFails(t) \/ SetCopied(t) \/ SetFinish(t) \/ CopyFinish(t)
Acquire(t) == GetMutex(t) \/ SetMutex(t)

Next ==
    \/ \E t \in Threads :
        \/ \E l \in Locks : GetCall(t, l) \/ RelCall(t, l)
        \/ SetCall(t) \/ CopyCall(t) \/ StopProcInfo(t)
        \/ Acquire(t) \/ Inside(t)
    \/ \E f \in Files : Open(f) \/ Kill(f) \/ Release(f)

Spec == Init /\ [][Next]_vars

\* Kernel code runs, a mutex is handed to a waiter that waits long enough, the
\* exit of a killed process closes its file, and a client that holds a lock
\* while it lives gives it back.
FairSpec ==
    /\ Spec
    /\ \A t \in Threads :
        /\ SF_vars(Inside(t)) /\ SF_vars(Acquire(t))
        /\ SF_vars(CopyCall(t)) /\ \A l \in Locks : SF_vars(RelCall(t, l))
    /\ \A f \in Files : WF_vars(Release(f))

----------------------------------------------------------------------------
(* Properties.                                                             *)

\* The values of the variables.
TypeOK ==
    /\ pc \in [Threads -> {"user", "get_mutex", "get_ret", "rel_unlock", "set_mutex", "set_copy",
                           "set_fin", "copy_fin"} \cup DOMAIN Updating \cup DOMAIN Updated]
    /\ want \in [Threads -> SUBSET Mutexes]
    /\ tmp \in [Threads -> SUBSET Mutexes]
    /\ holds \in [Threads -> SUBSET Mutexes]
    /\ file \in [Files -> {"open", "dying", "closed"}]
    /\ mutex \in [Mutexes -> Threads \cup {NoOne}]
    /\ io \in [Files -> Threads \cup {NoOne}]
    /\ flags \in [Files -> SUBSET Mutexes]
    /\ channel \in Channels
    /\ buf \subseteq Channels

\* Whenever no call on a file is in progress, lock_flags are exactly the
\* mutexes its threads own: what release would unlock is what is locked, also
\* when sibling threads update the flags at the same time.  And a thread that
\* has just locked a mutex finds its flag clear ("when get lock, this should be
\* 0!!!"), because RELEASE_LOCK clears the flag before it unlocks.
FlagsMatchMutexes ==
    /\ \A f \in Files : AtRest(f) => flags[f] = Owned(f)
    /\ \A t \in Threads : pc[t] = "get_io" => want[t] \cap flags[FileOf[t]] = {}

\* A thread that got a lock owns it until it gives it back: neither the
\* release, the error path nor the death of another client unlocks it.
HolderOwns == \A t \in Threads : \A m \in holds[t] \ want[t] : mutex[m] = t

\* A closed file owns no mutex, wherever its process died.
ClosedOwnsNothing == \A f \in Files : file[f] = "closed" => Owned(f) = {}

\* Between SET_PROC_INFO and COPY_PROC_INFO the record copied goes to the
\* buffer of the thread's own channel, and that buffer is there.
CopyGoesToOwnChannel ==
    \A t \in Threads : Proc \in holds[t] => channel = ChannelOf[t] /\ channel \in buf

\* Every call returns: clients that take the locks in order do not deadlock on
\* the driver's mutexes, and the locks of dead clients come back.
CallsReturn == \A t \in Threads : pc[t] \in {"get_mutex", "set_mutex"} ~> pc[t] = "user"

\* "release lost-lock...": the file of a killed process is closed, and with it
\* its locks are released.
KilledFileCloses == \A f \in Files : file[f] = "dying" ~> file[f] = "closed"
============================================================================
