------------------------------- MODULE CedarInit -------------------------------
(***************************************************************************)
(* Bringing the Cedar VE driver up and down (cedar_ve.c): cedardev_init    *)
(* with its one error label, cedardev_exit, and what processes and the     *)
(* interrupt meet meanwhile.  probe ignores the result of cedardev_init,   *)
(* so a device whose initialisation failed stays bound.                    *)
(***************************************************************************)
EXTENDS Integers

CONSTANTS
    MaxLives,    \* bound: calls of cedardev_init
    MaxFiles     \* bound: files open at a time

ASSUME InitAssumption == MaxLives \in Nat /\ MaxFiles \in Nat

VARIABLES
    phase,       \* next step of cedardev_init; "none", "done", "failed", or "crashed" in exit
    devp,        \* cedar_devp: "NULL", "live" or "freed"
    kept,        \* acquisitions minus releases of each resource
    bInitEndFlag,
    files,       \* files that are open
    lives,       \* calls of cedardev_init, up to MaxLives
    crash,       \* history: where memory was used that is not there
    failed,      \* history: an initialisation failed after the char device was there
    early,       \* history: an interrupt came before the registers were mapped
    stranded     \* history: the driver was unbound under an open file

initVars == <<phase, devp, kept, bInitEndFlag, files, lives, crash, failed, early, stranded>>

CharDevice == {"region", "cdev", "class", "node"}
Mappings == {"sys_cfg", "ccmu"}
Needed == CharDevice \cup {"irq", "regs_ve", "attrs", "debugfs", "proc_data", "rpm"}
Kinds == Needed \cup Mappings

CedarInitInit ==
    /\ phase = "none" /\ devp = "NULL" /\ bInitEndFlag = FALSE
    /\ kept = [r \in Kinds |-> 0]
    /\ files = 0 /\ lives = 0
    /\ crash = {} /\ failed = FALSE /\ early = FALSE /\ stranded = FALSE

Acquire(rs) == kept' = [r \in Kinds |-> IF r \in rs THEN kept[r] + 1 ELSE kept[r]]
Crash(where, bad) == crash' = IF bad THEN crash \cup {where} ELSE crash

(* The label free_devp: nothing but the structure is given back. *)
FreeDevp(late) ==
    /\ phase' = "failed" /\ devp' = "freed"
    /\ failed' = (failed \/ late)

(* One step that may fail; what it acquires stays acquired. *)
InitStep(from, to, rs, fails) ==
    /\ phase = from
    /\ \/ phase' = to /\ Acquire(rs) /\ UNCHANGED <<devp, failed>>
       \/ fails /\ FreeDevp(TRUE) /\ UNCHANGED kept
    /\ UNCHANGED <<bInitEndFlag, files, lives, crash, early, stranded>>

(* An old structure is freed first: the pointer survives exit and failure.  *)
InitCall ==
    /\ phase = "none" /\ lives < MaxLives
    /\ lives' = lives + 1
    /\ Crash("init", devp = "freed")
    /\ \/ phase' = "char" /\ devp' = "live"
       \/ phase' = "failed" /\ devp' = "NULL"          \* kmalloc failed
    /\ bInitEndFlag' = FALSE
    /\ UNCHANGED <<kept, files, failed, early, stranded>>

(* create_char_device gives everything back when one of its steps fails. *)
CreateCharDevice ==
    /\ phase = "char"
    /\ \/ kept["region"] = 0 /\ phase' = "data" /\ Acquire(CharDevice) /\ UNCHANGED <<devp, failed>>
       \/ FreeDevp(FALSE) /\ UNCHANGED kept
    /\ UNCHANGED <<bInitEndFlag, files, lives, crash, early, stranded>>

InitData == InitStep("data", "irq", {}, FALSE)
RequestIrq == InitStep("irq", "regs", {"irq"}, TRUE)
MapRegs == \E opt \in SUBSET Mappings : InitStep("regs", "clocks", {"regs_ve"} \cup opt, TRUE)
GetClocks == InitStep("clocks", "attrs", {}, TRUE)
CreateAttrs == InitStep("attrs", "debugfs", {"attrs"}, TRUE)
DebugRegister == InitStep("debugfs", "proc", {"debugfs"}, TRUE)
AllocProcData == InitStep("proc", "end", {"proc_data"}, TRUE)

InitEnd ==
    /\ phase = "end" /\ phase' = "done"
    /\ Acquire({"rpm"})
    /\ bInitEndFlag' = TRUE
    /\ UNCHANGED <<devp, files, lives, crash, failed, early, stranded>>

(* Faulty variant: the debugfs directory stays. *)
CedardevExitKeepsDebugfs ==
    /\ phase = "done" /\ phase' = "none" /\ devp' = "freed"
    /\ kept' = [r \in Kinds |-> IF r \in Needed \ {"debugfs"} THEN kept[r] - 1 ELSE kept[r]]
    /\ bInitEndFlag' = FALSE
    /\ stranded' = (stranded \/ files > 0)
    /\ Crash("exit", FALSE)
    /\ UNCHANGED <<files, lives, failed, early>>

(* cedardev_exit: the two optional mappings stay; cedar_devp keeps its      *)
(* value and is written to once more.  On a device whose initialisation     *)
(* failed it works on the freed structure.                                  *)
CedardevExit ==
    /\ phase \in {"done", "failed"}
    /\ IF phase = "done"
       THEN /\ phase' = "none"
            /\ kept' = [r \in Kinds |-> IF r \in Needed THEN kept[r] - 1 ELSE kept[r]]
       ELSE phase' = "crashed" /\ UNCHANGED kept
    /\ devp' = "freed" /\ bInitEndFlag' = FALSE
    /\ stranded' = (stranded \/ files > 0)
    /\ Crash("exit", phase = "failed")
    /\ UNCHANGED <<files, lives, failed, early>>

(* Faulty variant: bInitEndFlag is not asked. *)
CedardevOpenAtOnce ==
    /\ kept["node"] > 0 /\ files < MaxFiles
    /\ Crash("open", devp # "live" \/ phase = "data")
    /\ files' = files + 1
    /\ UNCHANGED <<phase, devp, kept, bInitEndFlag, lives, failed, early, stranded>>

(* cedardev_open through the device node, as soon as there is one.  What a  *)
(* freed structure says of bInitEndFlag is open.                            *)
CedardevOpen ==
    /\ kept["node"] > 0 /\ files < MaxFiles
    /\ Crash("open", devp # "live" \/ (bInitEndFlag /\ phase = "data"))
    /\ files' \in (IF devp # "live" THEN {files, files + 1} ELSE IF bInitEndFlag THEN {files + 1} ELSE {files})
    /\ UNCHANGED <<phase, devp, kept, bInitEndFlag, lives, failed, early, stranded>>

CedardevClose ==
    /\ files > 0 /\ files' = files - 1
    /\ Crash("close", devp # "live")
    /\ UNCHANGED <<phase, devp, kept, bInitEndFlag, lives, failed, early, stranded>>

(* VideoEngineInterupt reads the registers through cedar_devp. *)
Interrupt ==
    /\ kept["irq"] > 0
    /\ Crash("irq", devp # "live" \/ kept["regs_ve"] = 0)
    /\ early' = (early \/ phase = "regs")
    /\ UNCHANGED <<phase, devp, kept, bInitEndFlag, files, lives, failed, stranded>>

CedarInitNext ==
    \/ InitCall \/ CreateCharDevice \/ InitData \/ RequestIrq \/ MapRegs \/ GetClocks
    \/ CreateAttrs \/ DebugRegister \/ AllocProcData \/ InitEnd
    \/ CedardevExit \/ CedardevOpen \/ CedardevClose \/ Interrupt

CedarInitSpec == CedarInitInit /\ [][CedarInitNext]_initVars

--------------------------------------------------------------------------------
(* Where the driver uses memory that is not there, the reason is one of     *)
(* four: a process or an interrupt reaches the device that a failed         *)
(* initialisation left registered, an interrupt came between request_irq    *)
(* and of_iomap, the driver was unbound under an open file, or cedardev_init *)
(* runs again and frees the old pointer.  An open that comes while the      *)
(* device is being set up is not among them: bInitEndFlag refuses it.       *)
CrashExplained ==
    /\ "open" \in crash => failed
    /\ "irq" \in crash => failed \/ early
    /\ "close" \in crash => stranded \/ failed
    /\ "init" \in crash => lives > 1
    /\ "exit" \in crash => phase = "crashed"

(* A completed initialisation holds every resource exactly once, however    *)
(* often the driver has been bound before, and an unbound driver holds none; *)
(* only the mappings of sys_cfg and ccmu add up.                            *)
InitExact ==
    /\ phase = "done" => \A r \in Needed : kept[r] = 1
    /\ phase = "none" => \A r \in Needed : kept[r] = 0
    /\ \A r \in Mappings : kept[r] <= lives
================================================================================
