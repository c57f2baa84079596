# Verification of the LonganPi 3H kernel SDK

This directory holds TLA+ models of the code this repository adds to a Linux
6.18 kernel for the LonganPi 3H (Allwinner H618, sun50iw9): the Cedar video
engine driver, the sunxi IOMMU drivers, the fan script and the
first-boot script.  TLC checks each model on small
instances; TLAPS proves the safety properties those runs check, and that the
power handling implements its abstract service, for every value of the constants.

Paths below are relative to `src/`; `cedar_ve.c` is
`bsp/drivers/ve/cedar-ve/cedar_ve.c`, `v1.c` is
`bsp/drivers/iommu/sunxi-iommu-v1.c` (`v2.c` and `v3.c` likewise), `pgtable.c` and `pgtable.h` are
`bsp/drivers/iommu/sunxi-iommu-pgtable.[ch]`.

## 1. Inventory of the system

| Part | Source | State | Operations | Interacts with | Correct when |
|---|---|---|---|---|---|
| Cedar VE: power and references | `cedar_ve.c` | `sem`, `ref_count`, `clk_status`, clock counts, reset line, runtime PM usage | `open`, `release`, `ENGINE_REQ/REL`, `SET_REFCOUNT`, `ENABLE/DISABLE/RESET_VE`, suspend, resume | clock, reset and PM frameworks; the interrupt flags | the engine is on exactly while a session holds it; counts are never lost; every call returns |
| Cedar VE: interrupts | same | `de/en/jpeg_irq_flag`, `_value`, wait queue `wait_ve` | `VideoEngineInterupt`, `WAIT_VE_DE/EN`, `WAIT_JPEG_DEC` | open and release also write the flags | no waiter sleeps through its interrupt; the result of a wait is about the frame waited for |
| Cedar VE: locks lent to user space | same | five hardware mutexes, `lock_proc`, per file `lock_flags` | `GET_LOCK`, `RELEASE_LOCK`, `SET/COPY/STOP_PROC_INFO`, the clean-up in `release`, debugfs open | every process that uses the VE | `lock_flags` say what is locked; a dead process leaves no lock behind |
| Cedar VE: DMA buffers | same, `ve_mem_list.h` | list of `dma_buf_info`, `bMemDevAttachFlag` | `MAP/UNMAP_DMA_BUF`, `GET/FREE_IOMMU_ADDR` | dma-buf framework, IOMMU | nothing is leaked or released twice; unmap finds the caller's buffer |
| Cedar VE: debug info | same | `debug_info[16]`, `debug_info_cur_index` | `PROC_INFO_COPY/STOP`, sysfs `ve_info` | vmalloc | a slot is used by one client, freed once |
| Cedar VE: load table (DVFS) | same | `load_infos[16]`, `last_min_freq`, `user_setting_ve_freq` | `UPDATE_CASE_LOAD_PARAM`, `SET_VE_FREQ`, the clean-up in `release` | clock rate | the clock is at least what the live decoders need |
| Cedar VE: init and exit | same | `cedar_devp`, char device, interrupt, mappings, debugfs, `bInitEndFlag` | `cedardev_init` and what it calls, `cedardev_exit`, probe, remove | open, close and the interrupt handler, from the moment they are registered | nothing is used before it is there or after it is gone; nothing is kept |
| Cedar VE: task engine | same | `run_task_list`, `del_task_list`, two timers | `cedardev_insert_task`, `_del_task`, `_check_delay`, timer callbacks | clock switch | (never compiled) |
| IOMMU page table | `pgtable.[ch]` | two-level table | prepare, delete, lookup, clear, dump | the drivers below | the table is exactly the live mappings; addresses survive their encoding |
| IOMMU: map, unmap, sync | `bsp/drivers/iommu/sunxi-iommu-v*.c` | TLB and PTW caches of one or two hardware sets | map, unmap, sync, fault interrupt | DMA API, masters | DMA never goes through a stale translation |
| IOMMU: probe and power | same | `global_iommu_dev`, `global_sunxi_iommu_domain`, `iommu_hw_init_flag`, bypass bits, registers | probe, remove, `domain_alloc`, `domain_free`, `device_group`, `of_xlate`, `release_device`, `hw_init`, suspend, resume | IOMMU core, clock, interrupt | a master that is not bypassed is translated; what probe acquired is given back |
| IOVA trace, reserved regions | `v*.c`, `sunxi-iommu-common.c` | linked lists | `sunxi_iommu_alloc_iova`, `_free_iova`, `sunxi_iommu_check_cmd` | debug output | lists stay well formed |
| Fan controller | `docs/peripheral/custom/fan_control_userspace.py`, `fan_control_kernel_sketch.c` | duty, curve | poll loop, kick, sweep; the sketch's `set_target` and cooling-device ops | PWM, sensor | the duty follows the temperature and is never in the stall range |
| First boot | `overlay/opt/firstboot.sh`, `firstboot.service` | disk signature, partition, file system, the script itself | one command after the other, started again on every boot until it has been put away | parted, boot configuration | the board boots after a power loss at any point |
| Image build | `mk*.sh`, `custom/*.sh` | files under `build/` | one script per stage | each other through files | stages see the output of earlier ones |

Hard behaviour: ioctls of several processes interleave with each other, with the
interrupt handler and with suspend; some ioctls bypass the locks others rely on;
processes die in the middle of a session; clocks and allocations fail half way;
the IOMMU caches translations that the CPU changes under it; tables have 16
slots.  The hazards, each at its line, are listed in `PROJECT.json`.

## 2. Plan

| Order | Module | About | State |
|---|---|---|---|
| 1 | `CedarEngine`, `VeService`, `CedarEngineProofs` | power and references; the service they implement; proofs | done |
| 2 | `CedarIrq`, `CedarIrqProofs` | completion interrupts | done |
| 3 | `CedarLocks`, `CedarLocksProofs` | mutexes lent to user space | done |
| 4 | `CedarDmaBuf`, `CedarDmaBufProofs` | dma-buf list | done |
| 5 | `SunxiIommu`, `SunxiIommuProofs` | page table, TLB and walk caches of v1, v2 and v3 | done |
| 6 | `IommuPte`, `IommuPteProofs` | encoding of addresses in table words | done |
| 7 | `CedarLoad`, `CedarDebugInfo` | the two 16-slot tables | done |
| 8 | `IommuPower`, `CedarInit` | bring-up, failure, removal; suspend and resume of the IOMMU | done |
| 9 | `FanControl`, `FirstBoot` | the fan script; the first-boot script under power loss | done |
| 10 | `CedarTablesProofs`, `PlatformProofs` | proofs about the modules of 7 to 9 | done |
| 11 | `DmaService` | abstract specification of the DMA API's view (a set of live mappings), implemented by `SunxiIommu` | later |

The modules are written to be proved about as well as checked: no recursion,
parameters with named assumptions, one action per step, invariants as
conjunctions of named parts.

## 3. The modules and the code

In every module a *Faulty variant* is a definition no specification uses: it is
the code with a plausible bug, and shows that the property it belongs to notices
that bug.

### CedarEngine

State: `sem`, `ref_count`, `clk_status` are the driver's variables of these
names; `clk` the enable counts of `bus_clk`, `mbus_clk`, `ve_clk`; `rst` the
reset line; `rpm` the runtime PM usage count; `irq_flag` the three flags; `pc`,
`ret` and `tmp` are where each thread is, its return value and the value it has
loaded from `ref_count`.  `granted` and `lost` are history: sessions that hold
the engine, and sessions whose process died.

| Actions | Code |
|---|---|
| `OpenCall`, `Open`, `CloseCall`, `Release`, `Interrupted` | `cedardev_open`, `cedardev_release`, `down_interruptible` |
| `ReqCall` ... `ReqUp`, `RelCall` ... `RelUp` | `IOCTL_ENGINE_REQ`, `IOCTL_ENGINE_REL`, with `ref_count++` and `--` split into load and store |
| `EnableStatus`, `EnableClk`, `EnableClkFails`, `DisableStatus`, `DisableClks` | `enable_cedar_hw_clk`, `disable_cedar_hw_clk` |
| `SetRefcount`, `EnableVe`, `DisableVe`, `ResetVe` | ioctls that bypass the semaphore |
| `Suspend`, `Resume` | `sunxi_cedar_suspend`, `sunxi_cedar_resume`; the freezer keeps user threads outside |

`VeService` is the promise: a set of users, orphans, one `powered` bit, one
`asleep` bit.  `ImplementsService` maps a session to a user from the step that
completes its power-up to the one that completes its power-down.

### CedarIrq

One client is one open file.  `hw` and `ien` are the engine's status and
interrupt-enable bits, `irq_flag` and `irq_value` the driver's words, `isr` the
handler on another CPU: it masks the source (`IsrMask`), stores value and flag in
either order (plain stores, no barrier: `IsrStore`) and wakes (`IsrWake`).
`WaitZero` to `WaitReturn` are the statements of the WAIT ioctls, which take no
lock.  `Open` and `Release` write the flags when `ref_count` is 0.  Sessions are
single steps here.  `fresh`, `leftover`, `timedout` and `raced` are history.

### CedarLocks

Several threads may share a file.  `mutex` holds the five hardware mutexes and
`lock_proc`, `flags` the per-file `lock_flags`, `io` the mutex that guards their
update (`FlagsLoad`, `FlagsStore`); the two tests of `lock_flags` are not
guarded.  `SetMutex` to `SetFinish` are `SET_PROC_INFO`, which returns to user
space with `lock_proc` held, `CopyFinish` is `COPY_PROC_INFO`, which unlocks it.
`Kill` may come at any point; `Release` runs when no call on the file is in
progress, as the kernel does it.  Clients take locks in a fixed order and one
type per call.

### CedarDmaBuf

`list` is the global list, `ref`, `att` and `maps` what the driver holds on each
dma-buf.  `MapCall`, `Get`, `Attach`, `MapAttachment`, `Add` are the steps of
`map_dma_buf_addr`, and `AttachFails`, `MapAttachmentFails` its error labels;
`Unmap` is `unmap_dma_buf_addr`, all of it under `lock_mem`.  `filp` (file
addresses) and `fds` (descriptor numbers) are used again after a close.  `view`
is history: what a process believes to be mapped.  A process of `Disciplined`
unmaps before it closes and maps a descriptor once.

### SunxiIommu

Addresses are page numbers; a directory entry covers `NPte` pages.  `dir`, `tab`
and `free` are the page directory, the second-level tables and the slab cache
they come from; `tlb` and `ptw` are the hardware's caches, one pair per hardware
set, which any access of a master to a live buffer may fill (`Access`).  The CPU
side is serialised by `dt_lock`, and one action is what happens between two
points at which the hardware can see a difference.  `AllocIova`, `Done` and the
choice of block sizes stand for the DMA API and the IOMMU core; `Map`,
`MapFails`, `SyncMap`, `Unmap`, `Clear`, `PtwInvalid`, `Sync` for
`sunxi_iommu_map`, `_iotlb_sync_map`, `_unmap` and `_iotlb_sync`; the `Fault`
actions for the invalidations of `sunxi_iommu_irq`.

`hw` is chosen once: the driver and `plat_data->version`.  In driver v1, V12 and
V13 clear the table before they drop the walk cache, V14 and V15 invalidate
first and do nothing in `iotlb_sync`.  Driver v2 has two sets
(`IOMMU_HW_SET_COUNT`) and invalidates one after the other; driver v3 has one
set and the order of v2.  What the drivers do alike is written once; what they
do differently is in `ClientV2`, `ClientV3`, `DropTlbV1` ... `DropPtwV3` and
`FaultV1` ... `FaultV3`.

### IommuPte

`sunxi_mk_pte`, `IOPTE_TO_PFN`, the directory word, the two address conversions
around `SUNXI_PHYS_OFFSET` and the additions of `prepare_l2_tables`, modulo the
word size, in the V1 and the V2 format.  Integers keep their width, but a
smaller one.

### IommuPower

`probe` is how far the driver is bound, `dev` whether `global_iommu_dev` points
to a live or a freed structure, `held` the resources acquired minus those given
back, `resv` whether `rsv_list` has been initialised; `domain`, `group`, `flag`
and `bypass` are the globals and fields of these meanings, `hw` the registers.
`Stages` are the points at which the probe of each driver version can fail, in
order, and `Leftover` is what its labels leave behind.  A version mismatch is
the one failure that reports success (`Hollow`).  `OfXlate`, `DeviceGroup`,
`DomainAlloc`, `ProbeFinalize`, `ReleaseDevice` and `DomainFree` are the
callbacks of the IOMMU core, for one master each; `HwInit` may time out at
either of its two waits.  `Suspend` may or may not cost the registers their
contents.  `oops` and `excuse` are history: memory or registers were used that
are not there, and one of the reasons the code gives for it has happened.

### CedarInit

`phase` is the next step of `cedardev_init`, `kept` what has been acquired and
not given back, `devp` the pointer `cedar_devp`.  Each step may fail and jump to
`free_devp`, which frees the structure and nothing else.  `CedardevOpen`,
`CedardevClose` and `Interrupt` may come as soon as the node and the handler
exist.  `crash` is history: where memory was used that was not there; `failed`,
`early` and `stranded` are the three reasons.

### CedarLoad

`load_infos` is the table (16 slots in the code, `NSlots` here), `channel` the
`process_channel_id` of each file, drawn from a counter that wraps.
`UpdateCaseLoad` is what `UPDATE_CASE_LOAD_PARAM` does under `lock`;
`AdjustLook`, `AdjustFix`, `AdjustSum` and `AdjustSet` are the recomputation
that follows without it, slot by slot: the default frame rate is tested and
stored in two steps, the sum is 32 bits wide, the row of the DVFS table is
chosen and the clock set.  `SetFreqRate` and `SetFreqStore` are `SET_VE_FREQ`.
Pixel rates are in units of a Mpixel/s (`End1` ... `EndMax`, `Wrap`), the numbers
of the code's table divided by that unit.  `asked`, `patched`, `alone`, `fresh`
and `crowded` are history.

### CedarDebugInfo

`debug_info` are the slots, `heap` the blocks vmalloc has given out, whose
addresses are used again.  `CopyReset` resets the global index before the lock,
`CopyMatch`, `CopyCheck`, `CopyText` and `CopyOutcome` are the statements under
it; `CopyOutOfTable` is what they do with an index of -1.  `ProcInfoStop` frees
one client's slot, `ve_info_show` reads the slots it chooses, `DebugExit` frees
all of them.

### FanControl

`fan_control_userspace.py`: `step` is what the script does next, `pwm` the
channel's duty, `current` the script's belief.  `Raise` is a sensor that cannot
be read or a write that fails, neither of which the script catches; `Interrupt`
is Ctrl-C.  The fan (`Drive`) is external: it starts at 45 % and keeps spinning
at 30 %, as measured in the script's comments.  The numbers at the top of the
script are there to be retuned, so the hysteresis is a choice of two values.

### FirstBoot

`firstboot.sh` command by command: `sig` is the disk signature from which the
PARTUUID of the root partition is made, `saved` the script's copy, `partition`
and `rootfs` the sizes.  A tool may fail and is passed over (the script has no
`set -e`).  `PowerLoss` may come anywhere, `Boot` starts the script again until
`PutAway` (`ExecStartPost`) has moved it, and needs the signature the boot
configuration names.  `cut` and `trouble` are history.

## 4. Runs

| Run | Shows | Bounds, and why they are enough |
|---|---|---|
| `engine_balanced` | `HolderClocked`, `IdleUnclocked`, `ImplementsService` | three sessions: one that comes, one that goes and one that holds; up to three orphans |
| `engine_clkfail` | `RefCountExact`, `OffMeansOff` with clocks failing anywhere | two sessions: the one that fails and the next one |
| `engine_misuse` | `RpmFollowsStatus` and `ReqReturns` for clients that release too often, overwrite `ref_count`, or drive `ve_clk` and the reset by hand | counts within -2 .. 2: below zero, zero, the 0/1 edge, above |
| `irq_safe` | `NoMissedWake`, `OneIsExplained`, `ZeroIsExplained`, `OneAnswerPerStart` | two clients, two sources, so that the handler passes one on its way to the other; one client that dies |
| `irq_live` | `CompletionWakes` | three clients on one source, so that one opens and one closes while the third waits |
| `locks_shared` | `FlagsMatchMutexes`, `HolderOwns`, `ClosedOwnsNothing`, `CopyGoesToOwnChannel` | two threads on one file and one on another, two hardware locks and `lock_proc` |
| `locks_live` | `CallsReturn`, `KilledFileCloses` | one thread per file |
| `locks_killed` | refutes `KilledFileCloses` for two threads on one file | smallest instance with the deadlock |
| `dmabuf` | `HoldsExact`, `ViewExact` | a careful process with two threads and a careless one, two descriptor numbers, file addresses and buffers, three list entries |
| `iommu` | `TablesShared`, `TableExact`, `DmaGoesHome`, `UnmapInvalidates`, `FreedTableUncached` on V12 (the H618) and V15 of driver v1, and on v2 and v3 | two clients, three directory entries of two pages, blocks of 1, 2 and 4 pages: smaller than, equal to and larger than a directory entry; three tables, so that allocation fails; driver v2, with twice the caches, on shorter buffers |
| `tables` | load table: `RateExplained`, `EntryExplained`, `SlotsExplained`; debug slots: `ShowReadsOwnText`, `NoTextLeaks`, `IndexExplained`; bring-up: `CrashExplained`, `InitExact` | a behaviour is about one of the three. Two threads, two files, two slots and ids that wrap after two, so that the table is full and an id is used again; three ioctls on the load table; two callers and three block addresses for the debug slots; three calls of `cedardev_init` and two open files |
| `platform` | IOMMU power: `MasterTranslated`, `BypassFollows`, `OopsExplained`, `HeldExact`; table words: `WordsRoundTrip`; fan: `LoopCools`; first boot: `BootsAgain` | a behaviour is about one of the four. Three probes (a failed one, a bound one and the one after a removal), two masters, all three drivers; every page address of a 13-bit machine, where the wrap past the top of the address space and below `SUNXI_PHYS_OFFSET` happen; temperatures on both sides of each trip and of each trip less the hysteresis; four boots, so that the script is cut short, cut short again, finishes, and the board boots without it |

Bounds are named constants (`MaxRef`, `MaxOrphans`, `MaxList`, `MaxLen`,
`MaxCalls`, `MaxProbes`, `MaxLives`, `MaxFiles`, `MaxBoots`) and
stand in guards of calls, never inside a call.  Deadlock is not checked in
`locks_shared` and `locks_killed` (the second shows the one there is) nor for the
dma-buf list, where all processes may exit, nor in `tables` and `platform`, where
the bounded calls run out.  Symmetry is used among threads, files, addresses and
masters, and only in runs without liveness.

### What the runs found

* `locks_killed`: `GET_LOCK` waits in the uninterruptible `mutex_lock` with the
  file open.  When a process is killed while one of its threads holds a lock and
  another waits for it, the release that would unlock ("release lost-lock...",
  `cedar_ve.c:2186`) waits for the waiter, and the lock is lost for everybody.

The properties named `...Explained` say that nothing goes wrong except for
reasons that are spelled out, each of which is reachable in the run:

* `RateExplained`: after an update that no other call disturbed, the VE clock runs
  at what the whole table asks for, unless the sum of the pixels is beyond the
  last row (it may then have wrapped around) or the fast rows ask for a user
  setting that `SET_VE_FREQ` has not made yet.
* `EntryExplained`: an entry is what its owner announced, but for a frame rate of
  60 that an unlocked reader of the previous entry stored over it.
* `SlotsExplained`: a slot of a closed file stays when the file had more than
  one (`remove_case_load_param_by_process_id` stops at the first).
* `IndexExplained`: `debug_info[-1]` or another client's slot is used only when
  two `PROC_INFO_COPY` overlapped.
* `OopsExplained`: the IOMMU driver uses what is not there after a probe that
  reported success on a version mismatch, when a master arrives before
  `rsv_list` is initialised, or when unregistering releases masters after the
  registers were unmapped.
* `CrashExplained`: the Cedar driver does after an initialisation that failed
  late, on an interrupt before the registers were mapped, after an unbind under
  an open file, or when it is bound again and frees the old pointer.

More results are worth knowing although no run is kept for them.
`BootsAgain` cannot do without its exception: when `parted` has made a new
signature and power is lost before the next `dd`, the board no longer finds its
root (`firstboot.sh:19`).
`HoldsExact` accounts for the buffers of dead files: "if the process abort, this
will free iommu_buffer" (`cedar_ve.c:2179`), but the call is inside the comment,
and the buffers stay mapped and listed for ever.  In the fan script the hysteresis
only matters for a fall past two rows of the curve at once: `last_duty_pct >
duty_pct` excludes the row the duty came from, so that a positive `HYSTERESIS_C`
would not keep the fan from switching back and forth at a trip.
`OneIsExplained` allows a `WAIT` to report a completion that no interrupt
announced, when the flag was left over: by a late interrupt after a timeout, or
by a `release` between another file's `open` and its `ENGINE_REQ`, which sets all
flags.  The disjunct `leftover` in it cannot be dropped.  With V10 in place of
V12 TLC refutes `UnmapInvalidates`: V10 and V11
drop two pages at each end of a range and keep the translations in the middle.
The H618 is not affected.  And in `engine_clkfail` the property `HolderClocked`
would not hold: after a failed enable `clk_status` stays 1, so the next request
is granted on clocks that are off, until a release switches the status back.

### Fairness

* `CedarEngine`: weak fairness for a thread inside the semaphore (it is runnable
  kernel code and no step of it blocks), strong fairness for a request waiting in
  `down_interruptible` (the semaphore's wait list is FIFO).  Nothing is assumed of
  clients.
* `CedarIrq`: the hardware finishes a frame, the handler runs, a `WAIT` that can
  go on does.  No timeout is assumed, so `CompletionWakes` does not rest on one.
* `CedarLocks`: strong fairness for mutexes (a waiter that waits long enough gets
  the hand-off) and for the code between; weak fairness for the release of a dead
  file; and clients that live give back what they took, without which no lock
  service is live.

## 5. Proofs

Every safety property of the passing runs, the refinement of `VeService` and the
action property of `CedarIrq` are theorems: they hold for every value of the
constants that satisfies the named assumptions, not only for the instances of
section 4.  TLC evaluates the assumptions in the runs.  Four kinds of theorem
have a hypothesis on the clients or the hardware, given below: `Balanced`,
`Plain` and `SwitchOnly` (`CedarEngine`), `OwnChannels` (`CedarLocks`), `NewSoCs`
(`SunxiIommu`), `KnownFormats` (`CedarLoad`).  The run that checks the property
satisfies the hypothesis.

Each proof has the same shape: an invariant `...Inv` that is inductive, a lemma
that `Init` establishes it, a lemma with one step per action that every step
keeps it, and a theorem that joins the two.  The bounds of the model (`MaxRef`,
`MaxList`, `MaxCalls` and so on) are arbitrary numbers in them.

### CedarEngineProofs

For every set of threads and every mix of calls.  Assumptions: the actors are
distinct, `Threads` is finite, `RefArgs` are integers.

1. `TypeCorrect` and `RpmBalanced` hold with no further condition, also for
   clients that misuse the driver.  `RpmFollowsStatus` alone is not inductive:
   two actors in the clock switch could take the reference twice.  `PowerInv`
   adds that whoever is between `down` and `up` owns the semaphore (`SemOwner`),
   that PM runs only while every thread is outside (`PmAlone`), hence that at
   most one actor is in the clock switch (`OneSwitchLemma`), and that
   `clk_status` is cleared before a clock is touched (`OffFirst`).
2. `OffIsOff` assumes `SwitchOnly`: no client switches `ve_clk` on or pulses the reset
   line by hand.  Failing clocks are included.  `OffInv` adds to `PowerInv` what is on
   at each point of a switch-on that may stop at any clock (`ClksFollow`).
3. `RefCountIsExact` assumes `Balanced`: nobody releases what it did not request
   and nobody overwrites the count.  `RefInv` adds to `PowerInv` that a loaded
   value is still current when the new one is stored, and where a granted thread
   can be.  Failing clocks are included.
4. `HolderIsClocked`, `IdleIsUnclocked` assume `Plain`: balanced clients that may
   die, no failing clock, no hand on `ve_clk` or the reset line.  `PlainInv` adds
   to `RefInv` what is on at each point of the clock switch (`PhaseClks`) and how
   `clk_status` follows `ref_count` (`StatusFollowsRefs`).
5. `DriverImplementsService`: under `PlainInv` every step maps to a step of
   `VeService` or to a stutter; the visible ones are the end of a power-up, the
   decrement that leaves others, the end of a power-down, an abort, suspend and
   resume.

### CedarIrqProofs

For every finite set of clients and every order of interrupt sources, with and
without timeouts; there is at least one source.  `NeverMissesWake`,
`CompletionsExplained`, `TimeoutsExplained` and `AnswersOnce` share `IrqInv`.
The property about what `WAIT` returns is about its last step only; the
invariant follows the evidence back to the start of the frame.  Whatever can
make the client believe in a completion - the flag, a handler on the way to it,
the value - comes from its own interrupt or was there at the start
(`SignalsExplained`); a set flag comes with a set value, except in the window
between the handler's two stores (`ValueFollows`).  That a source has one client
at a time is `FrameOwner` (the engine mutex); that `open` and `release` do not
write the flags meanwhile follows from `ref_count` being the number of sessions
and orphans, which is part of `TypeOK` and needs the clients to be finitely many
(`SessionsCount`).  `AnswersOnce` is a property of steps: `EnabledUnanswered`
says that a source the handler can still find raised has not been answered.

### CedarLocksProofs

For every finite set of threads, any sharing of files among them, and every
finite set of locks.  `LocksInv` says at each point of the ioctls which mutexes a
thread owns (`OwnerHolds`) and which of them `lock_flags` names, the call in
progress included (`FlagsExact`).  That needs `IoHeld`: `lock_flag_io` is held
between load and store, so that the loaded flags are still current.
`ClosedFilesOwnNothing` then follows because `Release` unlocks what `lock_flags`
names while no call is in progress (`ClosedQuiet`).  `CopyReachesOwnChannel`
assumes `OwnChannels`: the channel number comes from user space, and of two threads
that choose the same one either may stop it under the other.

### CedarDmaBufProofs

For every finite set of threads and every set of processes, disciplined or not,
files, descriptors and dma-bufs; `None` is none of these.  `HoldsExact` is inductive given the types
and that a thread in a call has its file open (`HoldsInv`); its proof rests on
lemmas about what appending to a list and `RemoveAt` do to the number of entries
with a given dma-buf.  `ViewExact` is not inductive.  `ViewInv` adds that a
living disciplined process has entries of its present file only
(`OwnFileOnly`: its next file may get the same address), that no two of its
threads map one descriptor (`MapsOnce`), and that closed and dead processes
have no view (`ClosedBlind`).  `DmaTypeCorrect` follows from `HoldsExact`: no
count of references goes below zero or beyond the list's bound.

### SunxiIommuProofs

For every number of clients, tables, directory entries and pages per entry, and
every set of block sizes that divide a directory entry's range or are multiples
of it.

1. `TablesAreShared` and `TableIsExact` hold on all drivers and versions.
   `TabInv` says where the loops of map and unmap are in the buffer (`Loops`) and
   that buffers do not overlap (`Apart`); the arithmetic is that of block
   boundaries and directory boundaries, by `DivMod` and `Divides`.
2. `DmaAlwaysGoesHome`, `UnmapsInvalidate` and `FreedTablesUncached` assume
   `NewSoCs`, the versions from V12 on (the H618 is V12): up to V11 the TLB keeps
   translations in the middle of a range, see section 4.  `CacheInv` says whose
   page each TLB entry is and that its block is not yet dropped (`TlbOK`), that a
   stale walk-cache entry covers pages of the client about to drop it only
   (`PtwOK`), and that from V14 on, which invalidates before it clears the table
   and does nothing afterwards, the walk cache is empty when the table goes
   (`Ahead`).  `LockHolder` keeps two clients from being in those windows at once;
   a fault handler takes entries away without the lock, which `TlbBelow` and
   `PtwBelow` show to be harmless.

### IommuPteProofs

`WordsAlwaysRoundTrip` is about all widths: words, pages and the high bits of
any number of bits, both ways to place them, with the constraints of
`WidthAssumption` (the fields fit into the word, a block does not go past the
range of a word).  All state is one mapped block, so the invariant is the property and the type of
`format`; the work is arithmetic.  Powers of two are not in the solver's reach:
`PowNext` and `PowAdd` are derived from the library's theorem on the number of
subsets of a set and a least counterexample.  From them: fields that do not
overlap are read back (`FieldsRead`), a chunk stays within a word's range
(`WithinWord`), DRAM above the range wraps and comes back (`WrapReads`), and a
block falls into chunks of a directory entry (`Chunks`).

### CedarTablesProofs

`CedarInit`, for any number of calls of `cedardev_init` and of open files:
`CrashesAreExplained` and `InitIsExact`.  `UpDownInv` says what is held at each
phase (`KeptByPhase`), where `devp` points (`DevpByPhase`), and how a file
outlives the driver (`FilesExplained`).

`CedarDebugInfo`, for any number of slots, callers and block addresses
(`"NULL"` is no address and `"nobody"` no caller): `ShowsOwnText`,
`TextsNeverLeak`, `IndexIsExplained`.  `DebugInv` says who has the lock, that
without overlap the one caller inside finds the index as it left it
(`IndexOwned`), and that texts are live, unshared (`TextsLive`) and of their
slot's length (`TextsFit`).

`CedarLoad`, for any number of slots, threads, files and parameters:
`EntriesAreExplained` and `SlotsAreExplained` by `LoadInv`.  `RateIsExplained`
assumes `KnownFormats` (clients announce members of the codec enumeration, and a
cleared entry has none of them) and ordered boundaries of the DVFS rows.  The
recomputation runs without the lock, slot by slot; `RateInv` says what a pass
that nothing has disturbed has counted up to its slot: the formats, the
decoders and encoders, and the sum of the pixels as long as it does not wrap
(`PassFor`).  The code uses the sum for at most two decoders only, so that
sums over sets of one and two slots are all the proof needs.

### PlatformProofs

* `FirstBoot`: `BoardBootsAgain`, for any number of boots.  `BootInv` traces the
  signature: the script starts only on a disk it could boot from, so what it saves
  is the signature to restore.
* `IommuPower`: `HoldingIsExact` and `OopsesAreExplained` by `OopsInv` (which
  devices are there, and that the core has no master of a device that is gone);
  `BypassIsFollowed` and `MastersAreTranslated` by `BypassInv` (before the first
  domain everybody is bypassed, and afterwards the hardware walks its table).  For
  any masters, any number of probes and each driver.
* `FanControl`: `LoopAlwaysCools`, for every curve whose duties rise, every floor
  the fan keeps spinning at, every hysteresis and all integer temperatures.
  `FanInv` follows the duty from the curve through the write, with
  `duty_for_temp` characterised by the greatest element of the rows reached.

### What stays with TLC

Liveness: `ReqReturns`, `CompletionWakes`, `CallsReturn` and `KilledFileCloses`.
The prover does not handle fairness.  They are checked on the instances of
section 4 only, as is the finding of `locks_killed`.

## 6. What is not modelled

* `cedar_ve.c`: the task engine (`USE_CEDAR_ENGINE` is undefined in the file, so
  the code is never compiled); the power-domain ioctls (another SoC);
  `GET_VE_DEFAULT_FREQ`, a lookup in a constant table; mmap, which changes no
  driver state; the cache flush, which is assembly.
* A mask of several types in one `RELEASE_LOCK` (it clears all the flags and
  unlocks none of the mutexes) and a channel of 16 or more in `STOP_PROC_INFO`
  (it indexes past `proc_buf`): clients are taken to pass what the driver's own
  library passes.
* IOMMU: the prefetcher of SoCs that enable it (V10, V11 and V14: the H618 has it
  off); invalidations that time out during unmap, which the driver only logs;
  the debug driver; the iova trace (`CONFIG_AW_IOMMU_IOVA_TRACE`), whose list
  elements are linked by pointers nothing has initialised, so that a model would
  consist of undefined values.
* The kernel sketch of the fan driver: "Not built or tested", and without a
  caller of its control function.
* Build scripts, patches and headers: see the notes in `PROJECT.json`.  Most of
  the repository's lines are register and binding constants under
  `bsp/include`, which have no behaviour.
