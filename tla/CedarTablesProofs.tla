-------------------------- MODULE CedarTablesProofs --------------------------
(***************************************************************************)
(* Proofs about three parts of the Cedar driver that share no state:       *)
(* bringing the driver up and down (CedarInit), the debug information      *)
(* slots (CedarDebugInfo) and the load table (CedarLoad).                  *)
(***************************************************************************)
EXTENDS CedarLoad, CedarDebugInfo, CedarInit, FiniteSetTheorems, WellFoundedInduction, TLAPS

----------------------------------------------------------------------------
(* CedarInit.                                                              *)

Phases == {"none", "char", "data", "irq", "regs", "clocks", "attrs", "debugfs", "proc",
           "end", "done", "failed", "crashed"}

InitTypes ==
    /\ phase \in Phases /\ devp \in {"NULL", "live", "freed"}
    /\ kept \in [Kinds -> Int] /\ bInitEndFlag \in BOOLEAN
    /\ files \in Nat /\ lives \in Nat
    /\ failed \in BOOLEAN /\ early \in BOOLEAN /\ stranded \in BOOLEAN

\* What cedardev_init has acquired when it comes to a step.
HeldAt == [none |-> {}, char |-> {}, data |-> CharDevice, irq |-> CharDevice,
           regs |-> CharDevice \cup {"irq"},
           clocks |-> CharDevice \cup {"irq", "regs_ve"},
           attrs |-> CharDevice \cup {"irq", "regs_ve"},
           debugfs |-> CharDevice \cup {"irq", "regs_ve", "attrs"},
           proc |-> CharDevice \cup {"irq", "regs_ve", "attrs", "debugfs"},
           end |-> CharDevice \cup {"irq", "regs_ve", "attrs", "debugfs", "proc_data"},
           done |-> Needed]
Running == DOMAIN HeldAt

\* Resources are held once each, up to the present step; a device whose
\* initialisation failed before the char device was there holds nothing.
KeptByPhase ==
    /\ phase \in Running => \A r \in Needed : kept[r] = IF r \in HeldAt[phase] THEN 1 ELSE 0
    /\ phase \notin Running /\ ~failed => \A r \in Needed : kept[r] = 0

\* One mapping more per life, taken at one step.
MappingsByLife ==
    \A r \in Mappings :
      kept[r] <= IF phase \in {"char", "data", "irq", "regs"} THEN lives - 1 ELSE lives

\* The structure is there from the first step of cedardev_init to its failure
\* or to cedardev_exit.
DevpByPhase ==
    /\ devp = "live" <=> phase \in Running \ {"none"}
    /\ phase # "none" \/ devp = "freed" => lives > 0
    /\ bInitEndFlag <=> phase = "done"

\* A file outlives the driver only if it was stranded or opened on the remains
\* of a failed initialisation.
FilesExplained == files > 0 /\ phase # "done" => stranded \/ failed

UpDownInv == InitTypes /\ KeptByPhase /\ MappingsByLife /\ DevpByPhase /\ FilesExplained
             /\ CrashExplained

\* The record, field by field.
LEMMA HeldValues ==
    /\ Running = Phases \ {"failed", "crashed"}
    /\ HeldAt["none"] = {} /\ HeldAt["char"] = {}
    /\ HeldAt["data"] = CharDevice /\ HeldAt["irq"] = CharDevice
    /\ HeldAt["regs"] = CharDevice \cup {"irq"}
    /\ HeldAt["clocks"] = CharDevice \cup {"irq", "regs_ve"}
    /\ HeldAt["attrs"] = CharDevice \cup {"irq", "regs_ve"}
    /\ HeldAt["debugfs"] = CharDevice \cup {"irq", "regs_ve", "attrs"}
    /\ HeldAt["proc"] = CharDevice \cup {"irq", "regs_ve", "attrs", "debugfs"}
    /\ HeldAt["end"] = CharDevice \cup {"irq", "regs_ve", "attrs", "debugfs", "proc_data"}
    /\ HeldAt["done"] = Needed
  BY DEF HeldAt, Running, Phases

LEMMA UpDownInit == CedarInitInit => UpDownInv
  <1> SUFFICES ASSUME CedarInitInit PROVE UpDownInv
    OBVIOUS
  <1>1. InitTypes
    <2>1. bInitEndFlag \in BOOLEAN /\ failed \in BOOLEAN /\ early \in BOOLEAN /\ stranded \in BOOLEAN
      BY DEF CedarInitInit
    <2>2. phase \in Phases /\ devp \in {"NULL", "live", "freed"} /\ files \in Nat /\ lives \in Nat
      BY DEF CedarInitInit, Phases
    <2>3. kept \in [Kinds -> Int]
      BY DEF CedarInitInit
    <2>4. QED
      BY <2>1, <2>2, <2>3 DEF InitTypes
  <1>2. KeptByPhase
    BY HeldValues DEF CedarInitInit, KeptByPhase, Kinds, Phases
  <1>3. MappingsByLife
    BY DEF CedarInitInit, MappingsByLife, Kinds
  <1>4. DevpByPhase /\ FilesExplained /\ CrashExplained
    BY HeldValues DEF CedarInitInit, DevpByPhase, FilesExplained, CrashExplained, Phases
  <1>5. QED
    BY <1>1, <1>2, <1>3, <1>4 DEF UpDownInv

\* A step of cedardev_init that acquires rs, or fails with the char device
\* there, on the way from one phase to the next.
LEMMA UpDownStep ==
    ASSUME UpDownInv, NEW from \in Running \ {"none", "char", "done"},
           NEW to \in Running \ {"none", "char", "done"},
           NEW rs \in SUBSET Kinds, NEW fails, InitStep(from, to, rs, fails),
           HeldAt[to] = HeldAt[from] \cup (rs \cap Needed), HeldAt[from] \cap rs = {},
           \/ rs \cap Mappings = {} /\ (from \in {"data", "irq", "regs"} <=> to \in {"data", "irq", "regs"})
           \/ from = "regs" /\ to = "clocks"
    PROVE  UpDownInv'
  <1> USE HeldValues
  <1>0. /\ InitTypes /\ KeptByPhase /\ MappingsByLife /\ DevpByPhase /\ FilesExplained /\ CrashExplained
        /\ phase = from /\ UNCHANGED <<bInitEndFlag, files, lives, crash, early, stranded>>
    BY DEF UpDownInv, InitStep
  <1>1. CASE phase' = to /\ Acquire(rs) /\ UNCHANGED <<devp, failed>>
    <2>1. \A r \in Kinds : kept'[r] = IF r \in rs THEN kept[r] + 1 ELSE kept[r]
      BY <1>1 DEF Acquire
    <2>2. InitTypes'
      BY <1>0, <1>1 DEF InitTypes, Acquire, Running
    <2>3. KeptByPhase'
      <3>1. ASSUME NEW r \in Needed PROVE kept'[r] = IF r \in HeldAt[to] THEN 1 ELSE 0
        <4>1. kept[r] = IF r \in HeldAt[from] THEN 1 ELSE 0
          BY <1>0 DEF KeptByPhase
        <4>2. r \in Kinds
          BY DEF Kinds
        <4>3. CASE r \in rs
          BY <2>1, <4>1, <4>2, <4>3
        <4>4. CASE r \notin rs
          BY <2>1, <4>1, <4>2, <4>4
        <4>5. QED
          BY <4>3, <4>4
      <3>2. QED
        BY <1>1, <3>1 DEF KeptByPhase
    <2>4. MappingsByLife'
      <3>1. ASSUME NEW r \in Mappings
            PROVE  kept'[r] <= IF to \in {"char", "data", "irq", "regs"} THEN lives - 1 ELSE lives
        <4>1. r \in Kinds /\ kept[r] \in Int /\ lives \in Nat
          BY <1>0 DEF Kinds, InitTypes
        <4>2. kept[r] <= IF from \in {"char", "data", "irq", "regs"} THEN lives - 1 ELSE lives
          BY <1>0 DEF MappingsByLife
        <4>3. QED
          BY <2>1, <4>1, <4>2
      <3>2. QED
        BY <1>0, <1>1, <3>1 DEF MappingsByLife
    <2>5. DevpByPhase' /\ FilesExplained' /\ CrashExplained'
      BY <1>0, <1>1 DEF DevpByPhase, FilesExplained, CrashExplained, Phases
    <2>6. QED
      BY <2>2, <2>3, <2>4, <2>5 DEF UpDownInv
  <1>2. CASE FreeDevp(TRUE) /\ UNCHANGED kept
    <2>1. phase' = "failed" /\ devp' = "freed" /\ failed' /\ kept' = kept /\ phase' \notin Running
      BY <1>2 DEF FreeDevp
    <2>2. lives > 0
      BY <1>0 DEF DevpByPhase, MappingsByLife, InitTypes
    <2>3. InitTypes' /\ KeptByPhase'
      BY <1>0, <2>1 DEF InitTypes, KeptByPhase, Phases
    <2>4. MappingsByLife'
      BY <1>0, <2>1 DEF MappingsByLife, InitTypes, Kinds
    <2>5. DevpByPhase' /\ FilesExplained' /\ CrashExplained'
      BY <1>0, <2>1, <2>2 DEF DevpByPhase, FilesExplained, CrashExplained, Phases
    <2>6. QED
      BY <2>3, <2>4, <2>5 DEF UpDownInv
  <1>3. QED
    BY <1>1, <1>2 DEF InitStep

LEMMA UpDownNext == UpDownInv /\ [CedarInitNext]_initVars => UpDownInv'
  <1> SUFFICES ASSUME UpDownInv, [CedarInitNext]_initVars PROVE UpDownInv'
    OBVIOUS
  <1>0. InitTypes /\ KeptByPhase /\ MappingsByLife /\ DevpByPhase /\ FilesExplained /\ CrashExplained
    BY DEF UpDownInv
  <1>1. CASE InitCall
    <2>1. /\ phase = "none" /\ lives' = lives + 1 /\ kept' = kept /\ bInitEndFlag' = FALSE
          /\ \/ phase' = "char" /\ devp' = "live"
             \/ phase' = "failed" /\ devp' = "NULL"
          /\ crash' = IF devp = "freed" THEN crash \cup {"init"} ELSE crash
          /\ UNCHANGED <<files, failed, early, stranded>>
      BY <1>1 DEF InitCall, Crash
    <2>2. InitTypes'
      <3>1. phase' \in Phases /\ devp' \in {"NULL", "live", "freed"} /\ bInitEndFlag' \in BOOLEAN
        BY <2>1 DEF Phases
      <3>2. QED
        BY <1>0, <2>1, <3>1 DEF InitTypes
    <2>3. KeptByPhase'
      BY <1>0, <2>1, HeldValues DEF KeptByPhase, Phases
    <2>4. MappingsByLife'
      BY <1>0, <2>1 DEF MappingsByLife, InitTypes, Kinds
    <2>5. DevpByPhase'
      BY <1>0, <2>1, HeldValues DEF DevpByPhase, InitTypes, Phases
    <2>6. FilesExplained' /\ CrashExplained'
      BY <1>0, <2>1 DEF FilesExplained, CrashExplained, DevpByPhase, InitTypes
    <2>7. QED
      BY <2>2, <2>3, <2>4, <2>5, <2>6 DEF UpDownInv
  <1>2. CASE CreateCharDevice
    <2>1. phase = "char" /\ UNCHANGED <<bInitEndFlag, files, lives, crash, early, stranded>>
      BY <1>2 DEF CreateCharDevice
    <2>2. CASE phase' = "data" /\ Acquire(CharDevice) /\ UNCHANGED <<devp, failed>>
      <3>1. kept' = [r \in Kinds |-> IF r \in CharDevice THEN kept[r] + 1 ELSE kept[r]]
        BY <2>2 DEF Acquire
      <3>2. InitTypes'
        BY <1>0, <2>1, <2>2, <3>1 DEF InitTypes, Phases
      <3>3. KeptByPhase'
        <4>1. ASSUME NEW r \in Needed PROVE kept[r] = 0 /\ r \in Kinds
          BY <1>0, <2>1, HeldValues DEF KeptByPhase, Phases, Kinds
        <4>2. QED
          BY <2>2, <3>1, <4>1, HeldValues DEF KeptByPhase, Phases
      <3>4. MappingsByLife'
        BY <1>0, <2>1, <2>2, <3>1 DEF MappingsByLife, Mappings, CharDevice, Kinds
      <3>5. DevpByPhase' /\ FilesExplained' /\ CrashExplained'
        BY <1>0, <2>1, <2>2, HeldValues DEF DevpByPhase, FilesExplained, CrashExplained, Phases
      <3>6. QED
        BY <3>2, <3>3, <3>4, <3>5 DEF UpDownInv
    <2>3. CASE FreeDevp(FALSE) /\ UNCHANGED kept
      <3>1. /\ phase' = "failed" /\ devp' = "freed" /\ failed' = failed /\ kept' = kept
        BY <1>0, <2>3 DEF FreeDevp, InitTypes
      <3>2. /\ \A r \in Needed : kept[r] = 0
            /\ \A r \in Mappings : kept[r] <= lives - 1 /\ kept[r] \in Int
        BY <1>0, <2>1, HeldValues DEF KeptByPhase, MappingsByLife, InitTypes, Phases, Kinds
      <3>3. lives > 0 /\ InitTypes'
        BY <1>0, <2>1, <3>1 DEF InitTypes, DevpByPhase, Phases
      <3>4. KeptByPhase' /\ MappingsByLife'
        BY <1>0, <2>1, <3>1, <3>2, HeldValues DEF KeptByPhase, MappingsByLife, InitTypes, Phases
      <3>5. DevpByPhase' /\ FilesExplained' /\ CrashExplained'
        BY <1>0, <2>1, <3>1, <3>3, HeldValues DEF DevpByPhase, FilesExplained, CrashExplained, Phases
      <3>6. QED
        BY <3>3, <3>4, <3>5 DEF UpDownInv
    <2>4. QED
      BY <1>2, <2>2, <2>3 DEF CreateCharDevice
  <1>3. CASE InitData
    <2>1. InitStep("data", "irq", {}, FALSE)
      BY <1>3 DEF InitData
    <2>2. /\ {} \in SUBSET Kinds /\ {} \cap Mappings = {}
          /\ HeldAt["irq"] = HeldAt["data"] \cup ({} \cap Needed)
          /\ HeldAt["data"] \cap {} = {}
          /\ "data" \in Running \ {"none", "char", "done"} /\ "irq" \in Running \ {"none", "char", "done"}
          /\ "data" \in {"data", "irq", "regs"} <=> "irq" \in {"data", "irq", "regs"}
      BY HeldValues DEF Kinds, Needed, Mappings, CharDevice, Phases
    <2>3. QED
      BY <2>1, <2>2, UpDownStep
  <1>4. CASE RequestIrq
    <2>1. InitStep("irq", "regs", {"irq"}, TRUE)
      BY <1>4 DEF RequestIrq
    <2>2. /\ {"irq"} \in SUBSET Kinds /\ {"irq"} \cap Mappings = {}
          /\ HeldAt["regs"] = HeldAt["irq"] \cup ({"irq"} \cap Needed)
          /\ HeldAt["irq"] \cap {"irq"} = {}
          /\ "irq" \in Running \ {"none", "char", "done"} /\ "regs" \in Running \ {"none", "char", "done"}
          /\ "irq" \in {"data", "irq", "regs"} <=> "regs" \in {"data", "irq", "regs"}
      BY HeldValues DEF Kinds, Needed, Mappings, CharDevice, Phases
    <2>3. QED
      BY <2>1, <2>2, UpDownStep
  <1>5. CASE MapRegs
    <2>1. PICK opt \in SUBSET Mappings : InitStep("regs", "clocks", {"regs_ve"} \cup opt, TRUE)
      BY <1>5 DEF MapRegs
    <2>2. /\ {"regs_ve"} \cup opt \in SUBSET Kinds
          /\ HeldAt["clocks"] = HeldAt["regs"] \cup (({"regs_ve"} \cup opt) \cap Needed)
          /\ HeldAt["regs"] \cap ({"regs_ve"} \cup opt) = {}
          /\ "regs" \in Running \ {"none", "char", "done"} /\ "clocks" \in Running \ {"none", "char", "done"}
      BY HeldValues DEF Kinds, Needed, Mappings, CharDevice, Phases
    <2>3. QED
      BY <2>1, <2>2, UpDownStep
  <1>6. CASE GetClocks
    <2>1. InitStep("clocks", "attrs", {}, TRUE)
      BY <1>6 DEF GetClocks
    <2>2. /\ {} \in SUBSET Kinds /\ {} \cap Mappings = {}
          /\ HeldAt["attrs"] = HeldAt["clocks"] \cup ({} \cap Needed)
          /\ HeldAt["clocks"] \cap {} = {}
          /\ "clocks" \in Running \ {"none", "char", "done"} /\ "attrs" \in Running \ {"none", "char", "done"}
          /\ "clocks" \in {"data", "irq", "regs"} <=> "attrs" \in {"data", "irq", "regs"}
      BY HeldValues DEF Kinds, Needed, Mappings, CharDevice, Phases
    <2>3. QED
      BY <2>1, <2>2, UpDownStep
  <1>7. CASE CreateAttrs
    <2>1. InitStep("attrs", "debugfs", {"attrs"}, TRUE)
      BY <1>7 DEF CreateAttrs
    <2>2. /\ {"attrs"} \in SUBSET Kinds /\ {"attrs"} \cap Mappings = {}
          /\ HeldAt["debugfs"] = HeldAt["attrs"] \cup ({"attrs"} \cap Needed)
          /\ HeldAt["attrs"] \cap {"attrs"} = {}
          /\ "attrs" \in Running \ {"none", "char", "done"} /\ "debugfs" \in Running \ {"none", "char", "done"}
          /\ "attrs" \in {"data", "irq", "regs"} <=> "debugfs" \in {"data", "irq", "regs"}
      BY HeldValues DEF Kinds, Needed, Mappings, CharDevice, Phases
    <2>3. QED
      BY <2>1, <2>2, UpDownStep
  <1>8. CASE DebugRegister
    <2>1. InitStep("debugfs", "proc", {"debugfs"}, TRUE)
      BY <1>8 DEF DebugRegister
    <2>2. /\ {"debugfs"} \in SUBSET Kinds /\ {"debugfs"} \cap Mappings = {}
          /\ HeldAt["proc"] = HeldAt["debugfs"] \cup ({"debugfs"} \cap Needed)
          /\ HeldAt["debugfs"] \cap {"debugfs"} = {}
          /\ "debugfs" \in Running \ {"none", "char", "done"} /\ "proc" \in Running \ {"none", "char", "done"}
          /\ "debugfs" \in {"data", "irq", "regs"} <=> "proc" \in {"data", "irq", "regs"}
      BY HeldValues DEF Kinds, Needed, Mappings, CharDevice, Phases
    <2>3. QED
      BY <2>1, <2>2, UpDownStep
  <1>9. CASE AllocProcData
    <2>1. InitStep("proc", "end", {"proc_data"}, TRUE)
      BY <1>9 DEF AllocProcData
    <2>2. /\ {"proc_data"} \in SUBSET Kinds /\ {"proc_data"} \cap Mappings = {}
          /\ HeldAt["end"] = HeldAt["proc"] \cup ({"proc_data"} \cap Needed)
          /\ HeldAt["proc"] \cap {"proc_data"} = {}
          /\ "proc" \in Running \ {"none", "char", "done"} /\ "end" \in Running \ {"none", "char", "done"}
          /\ "proc" \in {"data", "irq", "regs"} <=> "end" \in {"data", "irq", "regs"}
      BY HeldValues DEF Kinds, Needed, Mappings, CharDevice, Phases
    <2>3. QED
      BY <2>1, <2>2, UpDownStep
  <1>10. CASE InitEnd
    <2>1. /\ phase = "end" /\ phase' = "done" /\ bInitEndFlag' = TRUE
          /\ kept' = [r \in Kinds |-> IF r \in {"rpm"} THEN kept[r] + 1 ELSE kept[r]]
          /\ UNCHANGED <<devp, files, lives, crash, failed, early, stranded>>
      BY <1>10 DEF InitEnd, Acquire
    <2>2. InitTypes'
      BY <1>0, <2>1 DEF InitTypes, Phases
    <2>3. KeptByPhase'
      <3>1. \A r \in Needed : r \in HeldAt["end"] <=> r # "rpm"
        BY HeldValues DEF Needed, CharDevice
      <3>2. \A r \in Needed : kept[r] = IF r # "rpm" THEN 1 ELSE 0
        BY <1>0, <2>1, <3>1, HeldValues DEF KeptByPhase, Phases
      <3>3. \A r \in Needed : kept'[r] = 1
        BY <2>1, <3>2 DEF Kinds
      <3>4. QED
        BY <2>1, <3>3, HeldValues DEF KeptByPhase, Phases
    <2>4. MappingsByLife'
      BY <1>0, <2>1 DEF MappingsByLife, Mappings, Kinds
    <2>5. DevpByPhase' /\ FilesExplained' /\ CrashExplained'
      BY <1>0, <2>1, HeldValues DEF DevpByPhase, FilesExplained, CrashExplained, Phases
    <2>6. QED
      BY <2>2, <2>3, <2>4, <2>5 DEF UpDownInv
  <1>11. CASE CedardevExit
    <2>1. /\ devp' = "freed" /\ bInitEndFlag' = FALSE /\ stranded' = (stranded \/ files > 0)
          /\ UNCHANGED <<files, lives, failed, early>>
      BY <1>11 DEF CedardevExit
    <2>0. lives > 0
      BY <1>0, <1>11 DEF CedardevExit, DevpByPhase
    <2>2. CASE phase = "done"
      <3>1. /\ phase' = "none" /\ crash' = crash
            /\ kept' = [r \in Kinds |-> IF r \in Needed THEN kept[r] - 1 ELSE kept[r]]
        BY <1>11, <2>2 DEF CedardevExit, Crash
      <3>2. InitTypes'
        <4>1. phase' \in Phases /\ devp' \in {"NULL", "live", "freed"} /\ bInitEndFlag' \in BOOLEAN
          BY <2>1, <3>1 DEF Phases
        <4>2. stranded' \in BOOLEAN
          BY <2>1
        <4>3. kept' \in [Kinds -> Int]
          BY <1>0, <3>1 DEF InitTypes
        <4>4. QED
          BY <1>0, <2>1, <4>1, <4>2, <4>3 DEF InitTypes
      <3>3. KeptByPhase'
        <4>1. \A r \in Needed : kept[r] = 1 /\ r \in Kinds
          BY <1>0, <2>2, HeldValues DEF KeptByPhase, Phases, Kinds
        <4>2. \A r \in Needed : kept'[r] = 0
          BY <3>1, <4>1
        <4>3. QED
          BY <3>1, <4>2, HeldValues DEF KeptByPhase, Phases
      <3>4. MappingsByLife'
        BY <1>0, <2>1, <2>2, <3>1 DEF MappingsByLife, Mappings, Needed, CharDevice, Kinds
      <3>5. DevpByPhase' /\ FilesExplained' /\ CrashExplained'
        BY <1>0, <2>0, <2>1, <2>2, <3>1, HeldValues DEF DevpByPhase, FilesExplained, CrashExplained, Phases
      <3>6. QED
        BY <3>2, <3>3, <3>4, <3>5 DEF UpDownInv
    <2>3. CASE phase = "failed"
      <3>1. phase' = "crashed" /\ crash' = crash \cup {"exit"} /\ kept' = kept
        BY <1>11, <2>3 DEF CedardevExit, Crash
      <3>2. InitTypes' /\ KeptByPhase' /\ MappingsByLife'
        BY <1>0, <2>1, <2>3, <3>1, HeldValues DEF InitTypes, KeptByPhase, MappingsByLife, Phases
      <3>3. DevpByPhase' /\ FilesExplained' /\ CrashExplained'
        BY <1>0, <2>0, <2>1, <2>3, <3>1, HeldValues DEF DevpByPhase, FilesExplained, CrashExplained, Phases
      <3>4. QED
        BY <3>2, <3>3 DEF UpDownInv
    <2>4. QED
      BY <1>11, <2>2, <2>3 DEF CedardevExit
  <1>12. CASE CedardevOpen
    <2>1. /\ kept["node"] > 0 /\ files' \in {files, files + 1}
          /\ crash' = IF devp # "live" \/ (bInitEndFlag /\ phase = "data")
                      THEN crash \cup {"open"} ELSE crash
          /\ devp = "live" /\ ~bInitEndFlag => files' = files
          /\ UNCHANGED <<phase, devp, kept, bInitEndFlag, lives, failed, early, stranded>>
      BY <1>12 DEF CedardevOpen, Crash
    <2>2. phase # "done" => failed \/ devp = "live"
      <3>1. "node" \in Needed
        BY DEF Needed, CharDevice
      <3>2. phase \in {"none", "failed", "crashed"} => failed
        BY <1>0, <2>1, <3>1, HeldValues DEF KeptByPhase, Phases
      <3>3. QED
        BY <1>0, <3>2, HeldValues DEF DevpByPhase, InitTypes, Phases
    <2>3. InitTypes' /\ KeptByPhase' /\ MappingsByLife' /\ DevpByPhase'
      BY <1>0, <2>1 DEF InitTypes, KeptByPhase, MappingsByLife, DevpByPhase
    <2>4. FilesExplained' /\ CrashExplained'
      BY <1>0, <2>1, <2>2, HeldValues DEF FilesExplained, CrashExplained, DevpByPhase, Phases
    <2>5. QED
      BY <2>3, <2>4 DEF UpDownInv
  <1>13. CASE CedardevClose
    <2>1. /\ files > 0 /\ files' = files - 1
          /\ crash' = IF devp # "live" THEN crash \cup {"close"} ELSE crash
          /\ UNCHANGED <<phase, devp, kept, bInitEndFlag, lives, failed, early, stranded>>
      BY <1>13 DEF CedardevClose, Crash
    <2>2. InitTypes' /\ KeptByPhase' /\ MappingsByLife' /\ DevpByPhase'
      BY <1>0, <2>1 DEF InitTypes, KeptByPhase, MappingsByLife, DevpByPhase
    <2>3. FilesExplained' /\ CrashExplained'
      BY <1>0, <2>1, HeldValues DEF FilesExplained, CrashExplained, DevpByPhase, InitTypes, Phases
    <2>4. QED
      BY <2>2, <2>3 DEF UpDownInv
  <1>14. CASE Interrupt
    <2>1. /\ kept["irq"] > 0 /\ early' = (early \/ phase = "regs")
          /\ crash' = IF devp # "live" \/ kept["regs_ve"] = 0 THEN crash \cup {"irq"} ELSE crash
          /\ UNCHANGED <<phase, devp, kept, bInitEndFlag, files, lives, failed, stranded>>
      BY <1>14 DEF Interrupt, Crash
    <2>2. failed \/ phase = "regs" \/ (devp = "live" /\ kept["regs_ve"] # 0)
      <3>1. "irq" \in Needed /\ "regs_ve" \in Needed
        BY DEF Needed
      <3>2. phase \in {"none", "failed", "crashed"} => failed
        BY <1>0, <2>1, <3>1, HeldValues DEF KeptByPhase, Phases
      <3>3. ~("irq" \in CharDevice)
        BY DEF CharDevice
      <3>4. phase \notin {"char", "data", "irq"}
        BY <1>0, <2>1, <3>1, <3>3, HeldValues DEF KeptByPhase, Phases
      <3>5. phase \in Running \ {"none", "char", "data", "irq", "regs"} => kept["regs_ve"] = 1
        BY <1>0, <3>1, HeldValues DEF KeptByPhase, Phases
      <3>6. QED
        BY <1>0, <3>2, <3>4, <3>5, HeldValues DEF DevpByPhase, InitTypes, Phases
    <2>3. InitTypes' /\ KeptByPhase' /\ MappingsByLife' /\ DevpByPhase' /\ FilesExplained'
      BY <1>0, <2>1 DEF InitTypes, KeptByPhase, MappingsByLife, DevpByPhase, FilesExplained
    <2>4. CrashExplained'
      BY <1>0, <2>1, <2>2 DEF CrashExplained
    <2>5. QED
      BY <2>3, <2>4 DEF UpDownInv
  <1>15. CASE UNCHANGED initVars
    BY <1>0, <1>15 DEF initVars, UpDownInv, InitTypes, KeptByPhase, MappingsByLife, DevpByPhase,
       FilesExplained, CrashExplained
  <1>16. QED
    BY <1>1, <1>2, <1>3, <1>4, <1>5, <1>6, <1>7, <1>8, <1>9, <1>10, <1>11, <1>12, <1>13, <1>14, <1>15
       DEF CedarInitNext

LEMMA UpDownInvariant == CedarInitSpec => []UpDownInv
  BY UpDownInit, UpDownNext, PTL DEF CedarInitSpec

\* Wherever the driver uses memory that is not there, one of the four reasons
\* applies, in every order of binding, unbinding, opens, closes and interrupts;
\* an open while the device is being set up is not one of them.
THEOREM CrashesAreExplained == CedarInitSpec => []CrashExplained
  <1>1. UpDownInv => CrashExplained
    BY DEF UpDownInv
  <1>2. QED
    BY <1>1, UpDownInvariant, PTL

\* Every completed initialisation holds each resource once and an unbound
\* driver none, however often it is bound; the optional mappings add up to at
\* most one per initialisation.
THEOREM InitIsExact == CedarInitSpec => []InitExact
  <1>1. UpDownInv => InitExact
    <2> SUFFICES ASSUME UpDownInv PROVE InitExact
      OBVIOUS
    <2>1. KeptByPhase /\ MappingsByLife /\ InitTypes
      BY DEF UpDownInv
    <2>2. phase = "done" => \A r \in Needed : kept[r] = 1
      BY <2>1, HeldValues DEF KeptByPhase, Phases
    <2>3. phase = "none" => \A r \in Needed : kept[r] = 0
      BY <2>1, HeldValues DEF KeptByPhase, Phases
    <2>4. \A r \in Mappings : kept[r] <= lives
      BY <2>1 DEF MappingsByLife, InitTypes, Kinds
    <2>5. QED
      BY <2>2, <2>3, <2>4 DEF InitExact
  <1>2. QED
    BY <1>1, UpDownInvariant, PTL

----------------------------------------------------------------------------
(* CedarDebugInfo.                                                         *)

InfoType == [key : Keys \cup {NoKey}, length : Lengths \cup {0}, data : Addrs \cup {NULL}]
CopyType == [at : {"lock", "check", "use", "dead"}, key : Keys \cup {NoKey}, length : Lengths]

DebugTypes ==
    /\ debug_info \in [Infos -> InfoType]
    /\ cur_index \in Infos \cup {0}
    /\ lock_debug_info \in Callers \cup {Nobody}
    /\ copy \in [Callers -> CopyType \cup {Outside}]
    /\ heap \in [Addrs -> Nat]
    /\ spoiled \subseteq Infos
    /\ faulted \in BOOLEAN /\ contested \in BOOLEAN /\ astray \in BOOLEAN

\* A caller past the match, and only it, has the lock.
LockHeld == \A t \in Callers : copy[t].at \in {"check", "use", "dead"} <=> lock_debug_info = t

\* A slot in use has a length, and so has the one a caller is about to fill.
LengthsSet ==
    /\ \A i \in Infos : debug_info[i].key # NoKey => debug_info[i].length \in Lengths
    /\ \A t \in Callers : copy[t].at \in {"check", "use"} /\ cur_index # 0
                          => debug_info[cur_index].length \in Lengths

OneSlotPerKey ==
    \A i, j \in Infos : debug_info[i].key = debug_info[j].key /\ debug_info[i].key # NoKey => i = j

\* Without overlap, the one caller inside finds the index as it left it.
IndexOwned ==
    ~contested =>
      /\ ~astray
      /\ \A t, u \in Callers : copy[t] # Outside /\ copy[u] # Outside => t = u
      /\ \A t \in Callers :
           /\ copy[t].at = "lock" => cur_index = 0
           /\ copy[t].at = "use" => cur_index # 0
           /\ copy[t].at \in {"check", "use"} /\ cur_index # 0
              => debug_info[cur_index].key = copy[t].key

\* Unless copy_from_user has failed once, texts are live and not shared.
TextsLive ==
    ~faulted => \A i \in Infos : debug_info[i].data # NULL =>
      /\ heap[debug_info[i].data] # 0
      /\ \A j \in Infos \ {i} : debug_info[j].data # debug_info[i].data

\* A slot that is not spoiled has a text of its length.
TextsFit ==
    ~faulted => \A i \in Infos \ spoiled : debug_info[i].key # NoKey =>
      debug_info[i].data # NULL /\ heap[debug_info[i].data] = debug_info[i].length

DebugInv == DebugTypes /\ LockHeld /\ LengthsSet /\ OneSlotPerKey /\ IndexOwned
            /\ NoTextLeaks /\ TextsLive /\ TextsFit

\* The least element the driver's searches come upon first.
LEMMA MinIn ==
    ASSUME NEW S \in SUBSET Nat, S # {}
    PROVE  Min(S) \in S
  <1>1. PICK j \in S : \A k \in S : ~(<<k, j>> \in OpToRel(<, Nat))
    BY WFMin, NatLessThanWellFounded
  <1>2. ASSUME NEW k \in S PROVE j <= k
    <2>1. <<k, j>> \in Nat \X Nat /\ ~(<<k, j>> \in {x \in Nat \X Nat : x[1] < x[2]})
      BY <1>1 DEF OpToRel
    <2>2. ~(k < j)
      BY <2>1
    <2>3. QED
      BY <2>2
  <1>3. QED
    BY <1>2 DEF Min

LEMMA SlotForFinds ==
    ASSUME NEW k, debug_info \in [Infos -> InfoType]
    PROVE  /\ SlotFor(k) \in Infos \cup {0} /\ 0 \notin Infos
           /\ SlotFor(k) = 0 => \A i \in Infos : debug_info[i].key # NoKey
           /\ SlotFor(k) # 0 =>
                \/ debug_info[SlotFor(k)].key = k
                \/ \A i \in Infos : debug_info[i].key # k
  <1> DEFINE same == {i \in Infos : debug_info[i].key = k}
             free == {i \in Infos : debug_info[i].key = NoKey}
  <1>1. Infos \in SUBSET Nat /\ 0 \notin Infos
    BY DebugAssumption DEF Infos
  <1>2. same \in SUBSET Nat /\ free \in SUBSET Nat
    BY <1>1
  <1>3. (same # {} => Min(same) \in same) /\ (free # {} => Min(free) \in free)
    BY <1>2, MinIn
  <1>4. SlotFor(k) = IF same # {} THEN Min(same) ELSE IF free # {} THEN Min(free) ELSE 0
    BY DEF SlotFor
  <1>5. CASE same # {}
    BY <1>1, <1>3, <1>4, <1>5
  <1>6. CASE same = {} /\ free # {}
    BY <1>1, <1>3, <1>4, <1>6
  <1>7. CASE same = {} /\ free = {}
    BY <1>1, <1>4, <1>7
  <1>8. QED
    BY <1>5, <1>6, <1>7

OthersStay(t) == \A u \in Callers \ {t} : copy'[u] = copy[u]

\* What the assignments to copy do.
LEMMA CopyMoves ==
    ASSUME copy \in [Callers -> CopyType \cup {Outside}], NEW t \in Callers, copy[t].at # "idle",
           NEW l \in {"check", "use", "dead"}, copy' = [copy EXCEPT ![t].at = l]
    PROVE  /\ copy' \in [Callers -> CopyType \cup {Outside}] /\ OthersStay(t)
           /\ copy'[t].at = l /\ copy'[t].key = copy[t].key
  <1>1. copy[t] \in CopyType
    BY DEF Outside
  <1> DEFINE c == [copy[t] EXCEPT !.at = l]
  <1>2. c \in CopyType /\ c.at = l /\ c.key = copy[t].key
    BY <1>1 DEF CopyType
  <1>3. copy' = [copy EXCEPT ![t] = c]
    OBVIOUS
  <1> HIDE DEF c
  <1>4. QED
    BY <1>2, <1>3 DEF OthersStay

LEMMA CopyLeaves ==
    ASSUME copy \in [Callers -> CopyType \cup {Outside}], NEW t \in Callers,
           copy' = [copy EXCEPT ![t] = Outside]
    PROVE  /\ copy' \in [Callers -> CopyType \cup {Outside}] /\ OthersStay(t)
           /\ copy'[t] = Outside /\ copy'[t].at = "idle"
  BY DEF OthersStay, Outside

\* A caller is outside exactly when its record says so.
LEMMA OutsideAt ==
    ASSUME NEW c \in CopyType \cup {Outside}
    PROVE  c = Outside <=> c.at = "idle"
  BY DEF Outside, CopyType

LEMMA DebugStart == DebugInit => DebugInv
  <1> SUFFICES ASSUME DebugInit PROVE DebugInv
    OBVIOUS
  <1>1. /\ \A t \in Callers : copy[t] = Outside /\ copy[t].at = "idle"
        /\ \A i \in Infos : debug_info[i].key = NoKey /\ debug_info[i].data = NULL
        /\ \A a \in Addrs : heap[a] = 0
        /\ lock_debug_info = Nobody /\ cur_index = 0 /\ spoiled = {} /\ ~faulted /\ ~contested /\ ~astray
    BY DEF DebugInit, Outside, NoInfo
  <1>2. DebugTypes
    <2>1. debug_info \in [Infos -> InfoType]
      BY DEF DebugInit, NoInfo, InfoType
    <2>2. copy \in [Callers -> CopyType \cup {Outside}]
      BY DEF DebugInit
    <2>3. heap \in [Addrs -> Nat]
      BY DEF DebugInit
    <2>4. faulted \in BOOLEAN /\ contested \in BOOLEAN /\ astray \in BOOLEAN
      BY DEF DebugInit
    <2>5. QED
      BY <1>1, <2>1, <2>2, <2>3, <2>4 DEF DebugTypes
  <1>3. LockHeld /\ LengthsSet /\ OneSlotPerKey /\ IndexOwned
    BY <1>1, DebugAssumption DEF LockHeld, LengthsSet, OneSlotPerKey, IndexOwned, Nobody
  <1>4. NoTextLeaks /\ TextsLive /\ TextsFit
    BY <1>1 DEF NoTextLeaks, TextsLive, TextsFit
  <1>5. QED
    BY <1>2, <1>3, <1>4 DEF DebugInv

\* Steps that leave the slots and the texts alone.
LEMMA SlotsFrame ==
    ASSUME OneSlotPerKey, NoTextLeaks, TextsLive, TextsFit,
           UNCHANGED <<debug_info, heap, spoiled, faulted>>
    PROVE  OneSlotPerKey' /\ NoTextLeaks' /\ TextsLive' /\ TextsFit'
  BY DEF OneSlotPerKey, NoTextLeaks, TextsLive, TextsFit

LEMMA DebugStep == DebugInv /\ [DebugNext]_debugVars => DebugInv'
  <1> SUFFICES ASSUME DebugInv, [DebugNext]_debugVars PROVE DebugInv'
    OBVIOUS
  <1>0. /\ DebugTypes /\ LockHeld /\ LengthsSet /\ OneSlotPerKey /\ IndexOwned
        /\ NoTextLeaks /\ TextsLive /\ TextsFit
    BY DEF DebugInv
  <1>c. /\ copy \in [Callers -> CopyType \cup {Outside}]
        /\ debug_info \in [Infos -> InfoType]
        /\ \A t \in Callers : copy[t] = Outside <=> copy[t].at = "idle"
    BY <1>0, OutsideAt DEF DebugTypes
  <1>d. Nobody \notin Callers /\ NULL \notin Addrs /\ 0 \notin Infos /\ 0 \notin Lengths
    BY DebugAssumption DEF Nobody, NULL, Infos
  <1>1. ASSUME NEW t \in Callers, NEW k \in Keys \cup {NoKey}, NEW len \in Lengths,
               CopyReset(t, k, len)
        PROVE  DebugInv'
    <2>1. /\ copy[t] = Outside /\ copy[t].at = "idle" /\ cur_index' = 0
          /\ contested' = (contested \/ \E u \in Callers : copy[u] # Outside)
          /\ UNCHANGED <<debug_info, lock_debug_info, heap, spoiled, faulted, astray>>
      BY <1>1 DEF CopyReset, Outside
    <2>2. CASE copy' = [copy EXCEPT ![t] = [at |-> "lock", key |-> k, length |-> len]]
      <3>1. /\ copy'[t] = [at |-> "lock", key |-> k, length |-> len] /\ copy'[t].at = "lock"
            /\ OthersStay(t) /\ copy'[t] \in CopyType
        BY <1>c, <2>2 DEF OthersStay, CopyType
      <3>2. copy' \in [Callers -> CopyType \cup {Outside}]
        BY <1>c, <2>2 DEF CopyType
      <3>3. DebugTypes'
        BY <1>0, <2>1, <3>2 DEF DebugTypes
      <3>4. LockHeld' /\ LengthsSet'
        BY <1>0, <2>1, <3>1 DEF LockHeld, LengthsSet, OthersStay
      <3>5. IndexOwned'
        <4>1. SUFFICES ASSUME ~contested' PROVE IndexOwned'
          BY DEF IndexOwned
        <4>2. ~contested /\ \A u \in Callers : copy[u] = Outside /\ copy[u].at = "idle"
          BY <1>c, <2>1, <4>1
        <4>3. \A u \in Callers \ {t} : copy'[u] = Outside /\ copy'[u].at = "idle"
          BY <3>1, <4>2 DEF OthersStay
        <4>4. ~astray'
          BY <1>0, <2>1, <4>2 DEF IndexOwned
        <4>5. \A u, w \in Callers : copy'[u] # Outside /\ copy'[w] # Outside => u = w
          BY <4>3
        <4>6. QED
          BY <2>1, <3>1, <4>3, <4>4, <4>5 DEF IndexOwned
      <3>6. QED
        BY <1>0, <2>1, <3>3, <3>4, <3>5, SlotsFrame DEF DebugInv
    <2>3. CASE copy' = copy
      <3>1. DebugTypes'
        BY <1>0, <2>1, <2>3 DEF DebugTypes
      <3>2. LockHeld' /\ LengthsSet'
        BY <1>0, <2>1, <2>3 DEF LockHeld, LengthsSet
      <3>3. IndexOwned'
        <4>1. SUFFICES ASSUME ~contested' PROVE IndexOwned'
          BY DEF IndexOwned
        <4>2. ~contested /\ \A u \in Callers : copy[u] = Outside /\ copy[u].at = "idle"
          BY <1>c, <2>1, <4>1
        <4>3. QED
          BY <1>0, <2>1, <2>3, <4>2 DEF IndexOwned
      <3>4. QED
        BY <1>0, <2>1, <3>1, <3>2, <3>3, SlotsFrame DEF DebugInv
    <2>4. QED
      BY <1>1, <2>2, <2>3 DEF CopyReset
  <1>2. ASSUME NEW t \in Callers, CopyMatch(t) PROVE DebugInv'
    <2> DEFINE k == copy[t].key
               len == copy[t].length
    <2>1. PICK i : i = SlotFor(k)
      OBVIOUS
    <2>2. /\ copy[t].at = "lock" /\ lock_debug_info = Nobody /\ lock_debug_info' = t
          /\ cur_index' = (IF i = 0 THEN cur_index ELSE i)
          /\ debug_info' = IF i = 0 THEN debug_info
                           ELSE [debug_info EXCEPT ![i].key = k, ![i].length = len]
          /\ spoiled' = (IF i = 0 THEN spoiled ELSE spoiled \cup {i})
          /\ copy' = [copy EXCEPT ![t].at = "check"]
          /\ UNCHANGED <<heap, faulted, contested, astray>>
      BY <1>2, <2>1 DEF CopyMatch
    <2>3. /\ i \in Infos \cup {0}
          /\ i = 0 => \A j \in Infos : debug_info[j].key # NoKey
          /\ i # 0 => debug_info[i].key = k \/ \A j \in Infos : debug_info[j].key # k
      BY <1>c, <2>1, SlotForFinds
    <2>4. /\ copy' \in [Callers -> CopyType \cup {Outside}] /\ OthersStay(t)
          /\ copy'[t].at = "check" /\ copy'[t].key = k
      BY <1>c, <2>2, CopyMoves
    <2>5. k \in Keys \cup {NoKey} /\ len \in Lengths
      BY <1>c, <2>2 DEF CopyType, Outside
    <2> HIDE DEF k, len
    <2>6. \A u \in Callers : copy[u].at \notin {"check", "use", "dead"}
      BY <1>0, <1>d, <2>2 DEF LockHeld
    <2>7. LockHeld'
      BY <2>2, <2>4, <2>6 DEF LockHeld, OthersStay
    <2>8. i # 0 => /\ debug_info'[i] = [key |-> k, length |-> len, data |-> debug_info[i].data]
                   /\ \A j \in Infos \ {i} : debug_info'[j] = debug_info[j]
      <3>1. SUFFICES ASSUME i # 0
                     PROVE  /\ debug_info'[i] = [key |-> k, length |-> len, data |-> debug_info[i].data]
                            /\ \A j \in Infos \ {i} : debug_info'[j] = debug_info[j]
        OBVIOUS
      <3>2. i \in Infos /\ debug_info[i] \in InfoType
        BY <1>c, <2>3, <3>1
      <3>3. [[debug_info[i] EXCEPT !.key = k] EXCEPT !.length = len]
              = [key |-> k, length |-> len, data |-> debug_info[i].data]
        <4>1. [debug_info[i] EXCEPT !.key = k]
                = [key |-> k, length |-> debug_info[i].length, data |-> debug_info[i].data]
          BY <3>2 DEF InfoType
        <4>2. [[key |-> k, length |-> debug_info[i].length, data |-> debug_info[i].data] EXCEPT !.length = len]
                = [key |-> k, length |-> len, data |-> debug_info[i].data]
          OBVIOUS
        <4>3. QED
          BY <4>1, <4>2
      <3>4. debug_info' = [[debug_info EXCEPT ![i].key = k] EXCEPT ![i].length = len]
        BY <2>2, <3>1
      <3>5. debug_info'[i] = [[debug_info[i] EXCEPT !.key = k] EXCEPT !.length = len]
        BY <1>c, <3>2, <3>4
      <3>6. \A j \in Infos \ {i} : debug_info'[j] = debug_info[j]
        BY <1>c, <3>2, <3>4
      <3>7. QED
        BY <3>3, <3>5, <3>6
    <2>9. CASE i = 0
      <3>1. DebugTypes'
        BY <1>0, <2>2, <2>4, <2>9 DEF DebugTypes
      <3>2. LengthsSet'
        BY <1>0, <2>2, <2>3, <2>9 DEF LengthsSet, DebugTypes
      <3>3. IndexOwned'
        <4>1. SUFFICES ASSUME ~contested' PROVE IndexOwned'
          BY DEF IndexOwned
        <4>2. cur_index = 0 /\ ~astray /\ \A u \in Callers \ {t} : copy[u] = Outside
          BY <1>0, <1>c, <2>2, <4>1 DEF IndexOwned
        <4>3. \A u \in Callers \ {t} : copy'[u] = Outside /\ copy'[u].at = "idle"
          BY <1>c, <2>4, <4>2 DEF OthersStay
        <4>4. QED
          BY <2>2, <2>4, <2>9, <4>2, <4>3 DEF IndexOwned
      <3>4. QED
        BY <1>0, <2>2, <2>7, <2>9, <3>1, <3>2, <3>3, SlotsFrame DEF DebugInv
    <2>10. CASE i # 0
      <3>0. i \in Infos /\ cur_index' = i /\ spoiled' = spoiled \cup {i}
        BY <2>2, <2>3, <2>10
      <3>1. /\ debug_info'[i].key = k /\ debug_info'[i].length = len
            /\ debug_info'[i].data = debug_info[i].data
            /\ \A j \in Infos \ {i} : debug_info'[j] = debug_info[j]
        BY <2>8, <2>10
      <3>2. DebugTypes'
        <4>1. debug_info' \in [Infos -> InfoType]
          <5>1. debug_info'[i] \in InfoType
            BY <1>c, <2>5, <2>8, <2>10, <3>0 DEF InfoType
          <5>2. \A j \in Infos : debug_info'[j] \in InfoType
            BY <1>c, <3>1, <5>1
          <5>3. debug_info' = [[debug_info EXCEPT ![i].key = k] EXCEPT ![i].length = len]
            BY <2>2, <2>10
          <5>4. debug_info' = [j \in Infos |-> debug_info'[j]]
            BY <1>c, <3>0, <5>3
          <5>5. QED
            BY <5>2, <5>4
        <4>2. QED
          BY <1>0, <2>2, <2>4, <3>0, <4>1 DEF DebugTypes
      <3>3. LengthsSet'
        BY <1>0, <2>5, <3>0, <3>1 DEF LengthsSet
      <3>4. OneSlotPerKey'
        BY <1>0, <2>3, <2>10, <3>0, <3>1 DEF OneSlotPerKey
      <3>5. IndexOwned'
        <4>1. SUFFICES ASSUME ~contested' PROVE IndexOwned'
          BY DEF IndexOwned
        <4>2. ~astray /\ \A u \in Callers \ {t} : copy[u] = Outside
          BY <1>0, <1>c, <2>2, <4>1 DEF IndexOwned
        <4>3. \A u \in Callers \ {t} : copy'[u] = Outside /\ copy'[u].at = "idle"
          BY <1>c, <2>4, <4>2 DEF OthersStay
        <4>4. QED
          BY <2>2, <2>4, <2>10, <3>0, <3>1, <4>2, <4>3 DEF IndexOwned
      <3>6. \A j \in Infos : debug_info'[j].data = debug_info[j].data
        BY <3>1
      <3>7. NoTextLeaks' /\ TextsLive'
        <4>1. NoTextLeaks'
          BY <1>0, <2>2, <3>6 DEF NoTextLeaks
        <4>2. TextsLive'
          <5>1. SUFFICES ASSUME ~faulted', NEW j \in Infos, debug_info'[j].data # NULL
                         PROVE  /\ heap'[debug_info'[j].data] # 0
                                /\ \A n \in Infos \ {j} : debug_info'[n].data # debug_info'[j].data
            BY DEF TextsLive
          <5>2. ~faulted /\ heap' = heap /\ debug_info[j].data # NULL
            BY <2>2, <3>6, <5>1
          <5>3. /\ heap[debug_info[j].data] # 0
                /\ \A n \in Infos \ {j} : debug_info[n].data # debug_info[j].data
            BY <1>0, <5>2 DEF TextsLive
          <5>4. QED
            BY <3>6, <5>2, <5>3
        <4>3. QED
          BY <4>1, <4>2
      <3>8. TextsFit'
        BY <1>0, <2>2, <3>0, <3>1 DEF TextsFit
      <3>9. QED
        BY <2>7, <3>2, <3>3, <3>4, <3>5, <3>7, <3>8 DEF DebugInv
    <2>11. QED
      BY <2>9, <2>10
  <1>3. ASSUME NEW t \in Callers, CopyCheck(t) PROVE DebugInv'
    <2>1. /\ lock_debug_info = t /\ copy[t].at = "check"
          /\ UNCHANGED <<debug_info, cur_index, heap, spoiled, faulted, contested, astray>>
      BY <1>3 DEF CopyCheck, Copying
    <2>2. CASE cur_index = 0
      <3>1. lock_debug_info' = Nobody /\ copy' = [copy EXCEPT ![t] = Outside]
        BY <1>3, <2>2 DEF CopyCheck
      <3>2. /\ copy' \in [Callers -> CopyType \cup {Outside}] /\ OthersStay(t)
            /\ copy'[t] = Outside /\ copy'[t].at = "idle"
        BY <1>c, <3>1, CopyLeaves
      <3>3. DebugTypes'
        BY <1>0, <2>1, <3>1, <3>2 DEF DebugTypes
      <3>4. LockHeld' /\ LengthsSet'
        BY <1>0, <1>d, <2>1, <2>2, <3>1, <3>2 DEF LockHeld, LengthsSet, OthersStay
      <3>5. IndexOwned'
        BY <1>0, <2>1, <2>2, <3>2 DEF IndexOwned, OthersStay
      <3>6. QED
        BY <1>0, <2>1, <3>3, <3>4, <3>5, SlotsFrame DEF DebugInv
    <2>3. CASE cur_index # 0
      <3>1. lock_debug_info' = lock_debug_info /\ copy' = [copy EXCEPT ![t].at = "use"]
        BY <1>3, <2>3 DEF CopyCheck
      <3>2. /\ copy' \in [Callers -> CopyType \cup {Outside}] /\ OthersStay(t)
            /\ copy'[t].at = "use" /\ copy'[t].key = copy[t].key
        BY <1>c, <2>1, <3>1, CopyMoves
      <3>3. DebugTypes'
        BY <1>0, <2>1, <3>1, <3>2 DEF DebugTypes
      <3>4. LockHeld' /\ LengthsSet'
        BY <1>0, <2>1, <2>3, <3>1, <3>2 DEF LockHeld, LengthsSet, OthersStay
      <3>5. IndexOwned'
        <4>1. SUFFICES ASSUME ~contested' PROVE IndexOwned'
          BY DEF IndexOwned
        <4>2. /\ ~astray /\ debug_info[cur_index].key = copy[t].key
              /\ \A u \in Callers \ {t} : copy[u] = Outside
          BY <1>0, <1>c, <2>1, <2>3, <4>1 DEF IndexOwned
        <4>3. \A u \in Callers \ {t} : copy'[u] = Outside /\ copy'[u].at = "idle"
          BY <1>c, <3>2, <4>2 DEF OthersStay
        <4>4. QED
          BY <2>1, <2>3, <3>2, <4>2, <4>3 DEF IndexOwned
      <3>6. QED
        BY <1>0, <2>1, <3>3, <3>4, <3>5, SlotsFrame DEF DebugInv
    <2>4. QED
      BY <2>2, <2>3
  <1>4. ASSUME NEW t \in Callers, CopyText(t) PROVE DebugInv'
    <2> DEFINE own == debug_info[cur_index].key = copy[t].key
    <2>1. PICK i \in Infos : i = cur_index
      BY <1>0, <1>4 DEF CopyText, DebugTypes
    <2>2. PICK h : h = Vfree(heap, debug_info[i].data)
      OBVIOUS
    <2>3. /\ lock_debug_info = t /\ copy[t].at = "use"
          /\ astray' = (astray \/ ~own) /\ CopyOutcome(i, h, own)
          /\ lock_debug_info' = Nobody /\ copy' = [copy EXCEPT ![t] = Outside]
          /\ UNCHANGED <<cur_index, contested>>
      BY <1>4, <2>1, <2>2 DEF CopyText, Copying, CopyEnd
    <2> HIDE DEF own
    <2>4. /\ h \in [Addrs -> Nat]
          /\ \A a \in Addrs : h[a] = IF a = debug_info[i].data THEN 0 ELSE heap[a]
      <3>1. debug_info[i].data \in Addrs \cup {NULL} /\ heap \in [Addrs -> Nat]
        BY <1>0, <1>c DEF InfoType, DebugTypes
      <3>2. QED
        BY <1>d, <2>2, <3>1 DEF Vfree
    <2>5. debug_info[i].length \in Lengths /\ debug_info[i].length \in Nat /\ debug_info[i].length # 0
      BY <1>0, <1>d, <2>1, <2>3, DebugAssumption DEF LengthsSet
    <2>6. \E d \in Addrs \cup {NULL} :
            /\ debug_info' = [debug_info EXCEPT ![i].data = d]
            /\ \/ d = NULL /\ heap' = h /\ spoiled' = spoiled \cup {i} /\ faulted' = faulted
               \/ /\ d \in Addrs /\ h[d] = 0 /\ heap' = [h EXCEPT ![d] = debug_info[i].length]
                  /\ spoiled' = (IF own THEN spoiled \ {i} ELSE spoiled \cup {i})
                  /\ faulted' = faulted
               \/ heap' = h /\ spoiled' = spoiled \cup {i} /\ faulted' = TRUE
      BY <2>3 DEF CopyOutcome
    <2>7. PICK d \in Addrs \cup {NULL} :
            /\ debug_info' = [debug_info EXCEPT ![i].data = d]
            /\ \/ d = NULL /\ heap' = h /\ spoiled' = spoiled \cup {i} /\ faulted' = faulted
               \/ /\ d \in Addrs /\ h[d] = 0 /\ heap' = [h EXCEPT ![d] = debug_info[i].length]
                  /\ spoiled' = (IF own THEN spoiled \ {i} ELSE spoiled \cup {i})
                  /\ faulted' = faulted
               \/ heap' = h /\ spoiled' = spoiled \cup {i} /\ faulted' = TRUE
      BY <2>6
    <2>8. /\ debug_info' \in [Infos -> InfoType]
          /\ debug_info'[i].key = debug_info[i].key /\ debug_info'[i].length = debug_info[i].length
          /\ debug_info'[i].data = d
          /\ \A j \in Infos \ {i} : debug_info'[j] = debug_info[j]
      <3> DEFINE n == [debug_info[i] EXCEPT !.data = d]
      <3>1. n \in InfoType /\ n.key = debug_info[i].key /\ n.length = debug_info[i].length /\ n.data = d
        BY <1>c DEF InfoType
      <3>2. debug_info' = [debug_info EXCEPT ![i] = n]
        BY <2>7
      <3> HIDE DEF n
      <3>3. QED
        BY <1>c, <3>1, <3>2
    <2>9. /\ copy' \in [Callers -> CopyType \cup {Outside}] /\ OthersStay(t)
          /\ copy'[t] = Outside /\ copy'[t].at = "idle"
      BY <1>c, <2>3, CopyLeaves
    <2>10. \A u \in Callers : copy'[u].at \notin {"check", "use", "dead"}
      BY <1>0, <2>3, <2>9 DEF LockHeld, OthersStay
    <2>11. heap' \in [Addrs -> Nat] /\ spoiled' \subseteq Infos
      BY <1>0, <2>4, <2>5, <2>7 DEF DebugTypes
    <2>12. DebugTypes'
      <3>1. faulted' \in BOOLEAN /\ astray' \in BOOLEAN
        <4>1. faulted' = faulted \/ faulted' = TRUE
          BY <2>7
        <4>2. QED
          BY <1>0, <2>3, <4>1 DEF DebugTypes
      <3>2. QED
        BY <1>0, <2>3, <2>8, <2>9, <2>11, <3>1 DEF DebugTypes
    <2>13. LockHeld' /\ LengthsSet'
      <3>1. LockHeld'
        BY <1>d, <2>3, <2>10 DEF LockHeld
      <3>2. \A j \in Infos : debug_info'[j].key # NoKey => debug_info'[j].length \in Lengths
        BY <1>0, <2>8 DEF LengthsSet
      <3>3. QED
        BY <2>10, <3>1, <3>2 DEF LengthsSet
    <2>14. OneSlotPerKey'
      <3>1. \A j \in Infos : debug_info'[j].key = debug_info[j].key
        BY <2>8
      <3>2. QED
        BY <1>0, <3>1 DEF OneSlotPerKey
    <2>15. IndexOwned'
      <3>1. SUFFICES ASSUME ~contested' PROVE IndexOwned'
        BY DEF IndexOwned
      <3>2. /\ ~astray /\ own /\ \A u \in Callers \ {t} : copy[u] = Outside
        BY <1>0, <1>c, <2>3, <3>1 DEF IndexOwned, own
      <3>3. \A u \in Callers : copy'[u] = Outside /\ copy'[u].at = "idle"
        BY <1>c, <2>9, <3>2 DEF OthersStay
      <3>4. QED
        BY <2>3, <3>2, <3>3 DEF IndexOwned
    <2>16. NoTextLeaks'
      <3>1. SUFFICES ASSUME NEW a \in Addrs, heap'[a] # 0
                     PROVE  \E j \in Infos : debug_info'[j].data = a
        BY DEF NoTextLeaks
      <3>2. CASE a = d
        BY <2>8, <3>2
      <3>3. CASE a # d
        <4>1. h[a] # 0
          BY <2>4, <2>7, <3>1, <3>3
        <4>2. heap[a] # 0 /\ a # debug_info[i].data
          BY <2>4, <4>1
        <4>3. PICK j \in Infos : debug_info[j].data = a
          BY <1>0, <4>2 DEF NoTextLeaks
        <4>4. debug_info'[j].data = a
          BY <2>8, <4>2, <4>3
        <4>5. QED
          BY <4>4
      <3>4. QED
        BY <3>2, <3>3
    <2>17. ASSUME ~faulted' PROVE ~faulted /\ heap' = IF d = NULL THEN h ELSE [h EXCEPT ![d] = debug_info[i].length]
      BY <1>d, <2>7, <2>17
    <2>20. ASSUME ~faulted' PROVE d = NULL \/ (d \in Addrs /\ h[d] = 0)
      BY <2>7, <2>20
    <2>18. ASSUME ~faulted', NEW j \in Infos \ {i}, debug_info[j].data # NULL
           PROVE  /\ heap[debug_info[j].data] # 0
                  /\ debug_info[j].data # d
                  /\ heap'[debug_info[j].data] = heap[debug_info[j].data]
      <3>1. /\ heap[debug_info[j].data] # 0 /\ debug_info[j].data # debug_info[i].data
            /\ debug_info[j].data \in Addrs
        BY <1>0, <1>c, <2>17, <2>18 DEF TextsLive, InfoType
      <3>2. h[debug_info[j].data] = heap[debug_info[j].data]
        BY <2>4, <3>1
      <3>3. debug_info[j].data # d
        BY <2>18, <2>20, <3>1, <3>2
      <3>4. QED
        BY <2>4, <2>17, <2>18, <2>20, <3>1, <3>2, <3>3
    <2>21. ASSUME ~faulted', d # NULL PROVE heap'[d] = debug_info[i].length
      BY <2>4, <2>17, <2>20, <2>21
    <2>22. TextsLive'
      <3>1. SUFFICES ASSUME ~faulted', NEW m \in Infos, debug_info'[m].data # NULL
                     PROVE  /\ heap'[debug_info'[m].data] # 0
                            /\ \A j \in Infos \ {m} : debug_info'[j].data # debug_info'[m].data
        BY DEF TextsLive
      <3>2. CASE m = i
        <4>1. debug_info'[m].data = d /\ heap'[d] # 0
          BY <2>5, <2>8, <2>21, <3>1, <3>2
        <4>2. \A j \in Infos \ {i} : debug_info'[j].data # d
          BY <2>8, <2>18, <3>1, <3>2
        <4>3. QED
          BY <3>2, <4>1, <4>2
      <3>3. CASE m # i
        <4>1. /\ debug_info'[m].data = debug_info[m].data
              /\ heap'[debug_info[m].data] # 0 /\ debug_info[m].data # d
          BY <2>8, <2>18, <3>1, <3>3
        <4>2. \A j \in Infos \ {m} : debug_info[j].data # debug_info[m].data
          BY <1>0, <2>17, <3>1, <4>1 DEF TextsLive
        <4>3. QED
          BY <2>8, <3>3, <4>1, <4>2
      <3>4. QED
        BY <3>2, <3>3
    <2>23. TextsFit'
      <3>1. SUFFICES ASSUME ~faulted', NEW m \in Infos \ spoiled', debug_info'[m].key # NoKey
                     PROVE  /\ debug_info'[m].data # NULL
                            /\ heap'[debug_info'[m].data] = debug_info'[m].length
        BY DEF TextsFit
      <3>2. CASE m = i
        <4>1. d # NULL
          BY <1>d, <2>7, <3>1, <3>2
        <4>2. QED
          BY <2>8, <2>21, <3>1, <3>2, <4>1
      <3>3. CASE m # i
        <4>1. m \notin spoiled
          BY <2>7, <3>1, <3>3
        <4>2. debug_info[m].data # NULL /\ heap[debug_info[m].data] = debug_info[m].length
          BY <1>0, <2>8, <2>17, <3>1, <3>3, <4>1 DEF TextsFit
        <4>3. QED
          BY <2>8, <2>18, <3>1, <3>3, <4>2
      <3>4. QED
        BY <3>2, <3>3
    <2>24. QED
      BY <2>12, <2>13, <2>14, <2>15, <2>16, <2>22, <2>23 DEF DebugInv
  <1>5. ASSUME NEW t \in Callers, CopyOutOfTable(t) PROVE DebugInv'
    <2>1. /\ lock_debug_info = t /\ copy[t].at = "use" /\ cur_index = 0 /\ astray' = TRUE
          /\ UNCHANGED <<debug_info, cur_index, heap, spoiled, faulted, contested>>
      BY <1>5 DEF CopyOutOfTable, Copying
    <2>2. contested
      BY <1>0, <2>1 DEF IndexOwned
    <2>3. /\ copy' \in [Callers -> CopyType \cup {Outside}] /\ OthersStay(t)
          /\ \/ copy'[t].at = "idle" /\ lock_debug_info' = Nobody
             \/ copy'[t].at = "dead" /\ lock_debug_info' = lock_debug_info
      BY <1>5, <1>c, <2>1, CopyMoves, CopyLeaves DEF CopyOutOfTable, CopyEnd
    <2>4. DebugTypes'
      BY <1>0, <2>1, <2>3 DEF DebugTypes
    <2>5. LockHeld' /\ LengthsSet'
      BY <1>0, <1>d, <2>1, <2>3 DEF LockHeld, LengthsSet, OthersStay
    <2>6. IndexOwned'
      BY <2>1, <2>2 DEF IndexOwned
    <2>7. QED
      BY <1>0, <2>1, <2>4, <2>5, <2>6, SlotsFrame DEF DebugInv
  <1>6. ASSUME NEW t \in Callers, NEW k \in Keys \cup {NoKey}, ProcInfoStop(t, k) PROVE DebugInv'
    <2> DEFINE same == {i \in Infos : debug_info[i].key = k}
    <2>1. PICK m : m = Min(same)
      OBVIOUS
    <2>2. /\ lock_debug_info = Nobody /\ same # {}
          /\ heap' = Vfree(heap, debug_info[m].data)
          /\ debug_info' = [debug_info EXCEPT ![m] = NoInfo]
          /\ spoiled' = spoiled \ {m}
          /\ UNCHANGED <<cur_index, lock_debug_info, copy, faulted, contested, astray>>
      BY <1>6, <2>1 DEF ProcInfoStop
    <2>3. m \in Infos
      <3>1. same \in SUBSET Nat
        BY DEF Infos
      <3>2. QED
        BY <2>1, <2>2, <3>1, MinIn
    <2>4. /\ heap' \in [Addrs -> Nat]
          /\ \A a \in Addrs : heap'[a] = IF a = debug_info[m].data THEN 0 ELSE heap[a]
      <3>1. debug_info[m].data \in Addrs \cup {NULL} /\ heap \in [Addrs -> Nat]
        BY <1>0, <1>c, <2>3 DEF InfoType, DebugTypes
      <3>2. QED
        BY <1>d, <2>2, <3>1 DEF Vfree
    <2>5. /\ debug_info' \in [Infos -> InfoType]
          /\ debug_info'[m].key = NoKey /\ debug_info'[m].data = NULL
          /\ \A j \in Infos \ {m} : debug_info'[j] = debug_info[j]
      BY <1>c, <2>2, <2>3 DEF NoInfo, InfoType
    <2>6. \A u \in Callers : copy[u].at \notin {"check", "use", "dead"}
      BY <1>0, <1>d, <2>2 DEF LockHeld
    <2>7. DebugTypes'
      BY <1>0, <2>2, <2>4, <2>5 DEF DebugTypes
    <2>8. LockHeld' /\ LengthsSet' /\ OneSlotPerKey'
      BY <1>0, <2>2, <2>5, <2>6 DEF LockHeld, LengthsSet, OneSlotPerKey
    <2>9. IndexOwned'
      BY <1>0, <2>2, <2>6 DEF IndexOwned
    <2>10. NoTextLeaks'
      BY <1>0, <2>4, <2>5 DEF NoTextLeaks
    <2>11. ASSUME ~faulted, NEW j \in Infos \ {m}, debug_info[j].data # NULL
           PROVE  heap'[debug_info[j].data] = heap[debug_info[j].data]
      BY <1>0, <1>c, <2>3, <2>4, <2>11 DEF TextsLive, InfoType
    <2>12. TextsLive'
      BY <1>0, <2>2, <2>5, <2>11 DEF TextsLive
    <2>13. TextsFit'
      BY <1>0, <2>2, <2>5, <2>11 DEF TextsFit
    <2>14. QED
      BY <2>7, <2>8, <2>9, <2>10, <2>12, <2>13 DEF DebugInv
  <1>7. CASE DebugExit
    <2>1. /\ \A t \in Callers : copy[t].at = "idle" /\ copy[t] = Outside
          /\ heap' = [a \in Addrs |-> IF \E i \in Infos : debug_info[i].data = a THEN 0 ELSE heap[a]]
          /\ debug_info' = [i \in Infos |-> NoInfo]
          /\ cur_index' = 0 /\ spoiled' = {} /\ ~faulted' /\ ~contested' /\ ~astray'
          /\ UNCHANGED <<lock_debug_info, copy>>
      BY <1>7, <1>c DEF DebugExit
    <2>2. faulted' \in BOOLEAN /\ contested' \in BOOLEAN /\ astray' \in BOOLEAN
      BY <1>7 DEF DebugExit
    <2>3. \A a \in Addrs : heap'[a] = 0
      BY <1>0, <2>1 DEF NoTextLeaks
    <2>4. \A i \in Infos : debug_info'[i].key = NoKey /\ debug_info'[i].data = NULL
      BY <2>1 DEF NoInfo
    <2>5. DebugTypes'
      <3>1. debug_info' \in [Infos -> InfoType]
        BY <2>1 DEF NoInfo, InfoType
      <3>2. heap' \in [Addrs -> Nat]
        BY <2>1, <2>3
      <3>3. QED
        BY <1>0, <2>1, <2>2, <3>1, <3>2 DEF DebugTypes
    <2>6. LockHeld' /\ LengthsSet' /\ OneSlotPerKey' /\ IndexOwned'
      BY <1>0, <2>1, <2>4 DEF LockHeld, LengthsSet, OneSlotPerKey, IndexOwned
    <2>7. NoTextLeaks' /\ TextsLive' /\ TextsFit'
      BY <2>3, <2>4 DEF NoTextLeaks, TextsLive, TextsFit
    <2>8. QED
      BY <2>5, <2>6, <2>7 DEF DebugInv
  <1>8. CASE UNCHANGED debugVars
    <2>1. UNCHANGED <<debug_info, cur_index, lock_debug_info, copy, heap, spoiled, faulted, contested, astray>>
      BY <1>8 DEF debugVars
    <2>2. DebugTypes' /\ LockHeld' /\ LengthsSet' /\ IndexOwned'
      BY <1>0, <2>1 DEF DebugTypes, LockHeld, LengthsSet, IndexOwned
    <2>3. QED
      BY <1>0, <2>1, <2>2, SlotsFrame DEF DebugInv
  <1>9. QED
    BY <1>1, <1>2, <1>3, <1>4, <1>5, <1>6, <1>7, <1>8 DEF DebugNext

LEMMA DebugInvariant == DebugSpec => []DebugInv
  BY DebugStart, DebugStep, PTL DEF DebugSpec

\* What ve_info shows of an unspoiled slot is a live text of the announced
\* length that no other slot shares, for any number of callers and slots and
\* every way in which their COPY and STOP calls interleave or fail, up to the
\* first copy_from_user that fails on a text.
THEOREM ShowsOwnText == DebugSpec => []ShowReadsOwnText
  <1>1. DebugInv => ShowReadsOwnText
    <2> SUFFICES ASSUME DebugInv, ~faulted, NEW i \in ve_info_show \ spoiled
                 PROVE  /\ debug_info[i].data # NULL
                        /\ heap[debug_info[i].data] = debug_info[i].length
                        /\ \A j \in Infos \ {i} : debug_info[j].data # debug_info[i].data
      BY DEF ShowReadsOwnText
    <2>1. i \in Infos \ spoiled /\ debug_info[i].key # NoKey
      BY DEF ve_info_show
    <2>2. TextsLive /\ TextsFit
      BY DEF DebugInv
    <2>3. QED
      BY <2>1, <2>2 DEF TextsLive, TextsFit
  <1>2. QED
    BY <1>1, DebugInvariant, PTL

\* No block is ever lost: each one is the text of a slot, so cedardev_exit
\* frees them all.
THEOREM TextsNeverLeak == DebugSpec => []NoTextLeaks
  <1>1. DebugInv => NoTextLeaks
    BY DEF DebugInv
  <1>2. QED
    BY <1>1, DebugInvariant, PTL

\* A process has one slot whatever happens, and a COPY that works in front of
\* the table or on another's slot has overlapped with another COPY.
THEOREM IndexIsExplained == DebugSpec => []IndexExplained
  <1>1. DebugInv => IndexExplained
    BY DEF DebugInv, IndexOwned, OneSlotPerKey, IndexExplained
  <1>2. QED
    BY <1>1, DebugInvariant, PTL

----------------------------------------------------------------------------
(* CedarLoad.                                                              *)

ParamType == [format : {"zero"} \cup {p.format : p \in Params}, size : Nat, frame_rate : Nat]
LoadEntry == [is_used : BOOLEAN, id : Nat, thread : Channels \cup {0}, param : ParamType]

LoadTypes ==
    /\ load_infos \in [Slots -> LoadEntry]
    /\ asked \in [Slots -> ParamType]
    /\ channel \in [Files -> Nat \cup {NoFile, Closed}]
    /\ process_channel_id_cnt \in Nat

LoadInv == LoadTypes /\ EntryExplained /\ SlotsExplained

\* Slot by slot.
EntryAt(i) ==
    load_infos[i].is_used =>
      /\ load_infos[i].param.format = asked[i].format /\ load_infos[i].param.size = asked[i].size
      /\ \/ load_infos[i].param.frame_rate = asked[i].frame_rate
         \/ load_infos[i].param.frame_rate = 60 /\ (asked[i].frame_rate = 0 \/ i \in patched)

OnePerThread ==
    \A i, j \in Slots :
      load_infos[i].is_used /\ load_infos[j].is_used /\ load_infos[i].id = load_infos[j].id
      /\ load_infos[i].thread = load_infos[j].thread => i = j

OwnerAt(i) ==
    load_infos[i].is_used =>
      (\E f \in Files : channel[f] = load_infos[i].id) \/ load_infos[i].id \in crowded

LEMMA LoadParts ==
    /\ EntryExplained <=> \A i \in Slots : EntryAt(i)
    /\ SlotsExplained <=> OnePerThread /\ \A i \in Slots : OwnerAt(i)
  <1>1. EntryExplained <=> \A i \in Slots : EntryAt(i)
    BY DEF EntryExplained, EntryAt, Used
  <1>2. SlotsExplained <=> OnePerThread /\ \A i \in Slots : OwnerAt(i)
    <2>1. \A i : i \in Used <=> i \in Slots /\ load_infos[i].is_used
      BY DEF Used
    <2>2. QED
      BY <2>1 DEF SlotsExplained, OnePerThread, OwnerAt
  <1>3. QED
    BY <1>1, <1>2

LEMMA EmptyTypes == Zero \in ParamType /\ Empty \in LoadEntry /\ ~Empty.is_used
  <1>1. Zero \in ParamType
    BY DEF Zero, ParamType
  <1>2. Empty \in LoadEntry
    BY <1>1 DEF Empty, LoadEntry
  <1>3. ~Empty.is_used
    BY DEF Empty
  <1>4. QED
    BY <1>1, <1>2, <1>3

LEMMA LoadStart == LoadInit => LoadInv
  <1> SUFFICES ASSUME LoadInit PROVE LoadInv
    OBVIOUS
  <1>1. /\ load_infos \in [Slots -> LoadEntry] /\ \A i \in Slots : ~load_infos[i].is_used
    BY EmptyTypes DEF LoadInit
  <1>2. asked \in [Slots -> ParamType]
    BY EmptyTypes DEF LoadInit
  <1>3. channel \in [Files -> Nat \cup {NoFile, Closed}] /\ process_channel_id_cnt \in Nat
    BY DEF LoadInit
  <1>4. EntryExplained /\ SlotsExplained
    BY <1>1 DEF EntryExplained, SlotsExplained, Used
  <1>5. QED
    BY <1>1, <1>2, <1>3, <1>4 DEF LoadInv, LoadTypes

LEMMA SlotsFinite == IsFiniteSet(Slots)
  <1>1. 1 \in Int /\ NSlots \in Int
    BY LoadAssumption
  <1>2. IsFiniteSet(1 .. NSlots)
    BY <1>1, FS_Interval
  <1>3. QED
    BY <1>2 DEF Slots

\* The slots of a process, and the slot an update works on.
LEMMA SlotsOfShape ==
    ASSUME NEW id
    PROVE  /\ SlotsOf(id) \in SUBSET Slots /\ Slots \in SUBSET Nat /\ 0 \notin Slots
           /\ IsFiniteSet(SlotsOf(id))
           /\ SlotsOf(id) # {} => Min(SlotsOf(id)) \in SlotsOf(id)
  <1>1. /\ SlotsOf(id) \in SUBSET Slots /\ Slots \in SUBSET Nat /\ 0 \notin Slots
    BY LoadAssumption DEF SlotsOf, Slots
  <1>2. IsFiniteSet(Slots)
    BY SlotsFinite
  <1>3. IsFiniteSet(SlotsOf(id))
    BY <1>1, <1>2, FS_Subset
  <1>4. SlotsOf(id) # {} => Min(SlotsOf(id)) \in SlotsOf(id)
    BY <1>1, MinIn
  <1>5. QED
    BY <1>1, <1>3, <1>4

LEMMA MatchFinds ==
    ASSUME NEW id, NEW c
    PROVE  /\ Match(id, c) \in Slots \cup {0} /\ 0 \notin Slots
           /\ Match(id, c) # 0 =>
                \A i \in Slots : load_infos[i].is_used /\ load_infos[i].id = id
                                 /\ load_infos[i].thread = c
                  => /\ load_infos[Match(id, c)].is_used
                     /\ load_infos[Match(id, c)].id = id
                     /\ load_infos[Match(id, c)].thread = c
  <1> DEFINE same == {i \in SlotsOf(id) : load_infos[i].thread = c}
             free == {i \in Slots : ~load_infos[i].is_used}
  <1>1. Slots \in SUBSET Nat /\ 0 \notin Slots /\ SlotsOf(id) \in SUBSET Slots
    BY SlotsOfShape
  <1>2. same \in SUBSET Nat /\ free \in SUBSET Nat
    BY <1>1
  <1>3. (same # {} => Min(same) \in same) /\ (free # {} => Min(free) \in free)
    BY <1>2, MinIn
  <1>4. Match(id, c) = IF same # {} THEN Min(same) ELSE IF free # {} THEN Min(free) ELSE 0
    BY DEF Match
  <1>5. same = {i \in Slots : load_infos[i].is_used /\ load_infos[i].id = id /\ load_infos[i].thread = c}
    BY DEF SlotsOf
  <1>6. CASE same # {}
    BY <1>1, <1>3, <1>4, <1>5, <1>6
  <1>7. CASE same = {} /\ free # {}
    BY <1>1, <1>3, <1>4, <1>5, <1>7
  <1>8. CASE same = {} /\ free = {}
    BY <1>1, <1>4, <1>8
  <1>9. QED
    BY <1>6, <1>7, <1>8

LEMMA LoadStep == LoadInv /\ [LoadNext]_loadVars => LoadInv'
  <1> SUFFICES ASSUME LoadInv, [LoadNext]_loadVars PROVE LoadInv'
    OBVIOUS
  <1>0. LoadTypes /\ (\A i \in Slots : EntryAt(i)) /\ OnePerThread /\ \A i \in Slots : OwnerAt(i)
    BY LoadParts DEF LoadInv
  <1>s. SUFFICES LoadTypes' /\ (\A i \in Slots : EntryAt(i)') /\ OnePerThread' /\ \A i \in Slots : OwnerAt(i)'
    <2>1. EntryExplained'
      BY <1>s DEF EntryExplained, EntryAt, Used
    <2>2. SlotsExplained'
      BY <1>s DEF SlotsExplained, OnePerThread, OwnerAt, Used
    <2>3. QED
      BY <1>s, <2>1, <2>2 DEF LoadInv
  <1> DEFINE Goal == LoadTypes' /\ (\A i \in Slots : EntryAt(i)') /\ OnePerThread' /\ \A i \in Slots : OwnerAt(i)'
  <1>t. /\ load_infos \in [Slots -> LoadEntry] /\ asked \in [Slots -> ParamType]
        /\ channel \in [Files -> Nat \cup {NoFile, Closed}]
        /\ \A i \in Slots : load_infos[i].id \in Nat
    BY <1>0 DEF LoadTypes, LoadEntry
  <1>1. ASSUME UNCHANGED <<load_infos, asked, patched, channel, process_channel_id_cnt, crowded>>
        PROVE  Goal
    <2>1. LoadTypes' /\ OnePerThread'
      BY <1>0, <1>1 DEF LoadTypes, OnePerThread
    <2>2. ASSUME NEW i \in Slots PROVE EntryAt(i)' /\ OwnerAt(i)'
      BY <1>0, <1>1 DEF EntryAt, OwnerAt
    <2>3. QED
      BY <2>1, <2>2
  <1>2. ASSUME NEW f \in Files, LoadOpen(f) PROVE Goal
    <2>1. /\ channel[f] = NoFile /\ UNCHANGED <<load_infos, asked, patched, crowded>>
      BY <1>2 DEF LoadOpen
    <2>2. \E id \in Nat : process_channel_id_cnt' = id /\ channel' = [channel EXCEPT ![f] = id]
      <3>1. PICK id : id = IF process_channel_id_cnt + 1 > IdMax THEN 0 ELSE process_channel_id_cnt + 1
        OBVIOUS
      <3>2. id \in Nat
        BY <1>0, <3>1 DEF LoadTypes
      <3>3. process_channel_id_cnt' = id /\ channel' = [channel EXCEPT ![f] = id]
        BY <1>2, <3>1 DEF LoadOpen
      <3>4. QED
        BY <3>2, <3>3
    <2>3. LoadTypes'
      BY <1>0, <2>1, <2>2 DEF LoadTypes
    <2>4. OnePerThread'
      BY <1>0, <2>1 DEF OnePerThread
    <2>5. \A g \in Files \ {f} : channel'[g] = channel[g]
      BY <1>t, <2>2
    <2>6. ASSUME NEW i \in Slots PROVE EntryAt(i)' /\ OwnerAt(i)'
      <3>1. EntryAt(i)'
        BY <1>0, <2>1 DEF EntryAt
      <3>2. NoFile \notin Nat
        BY DEF NoFile
      <3>3. \A g \in Files : channel[g] = load_infos[i].id => g # f
        BY <1>t, <2>1, <3>2
      <3>4. OwnerAt(i)'
        BY <1>0, <2>1, <2>5, <3>3 DEF OwnerAt
      <3>5. QED
        BY <3>1, <3>4
    <2>7. QED
      BY <2>3, <2>4, <2>6
  <1>3. ASSUME NEW f \in Files, LoadRelease(f) PROVE Goal
    <2> DEFINE id == channel[f]
    <2>1. /\ RemoveCaseLoad(id) /\ channel' = [channel EXCEPT ![f] = Closed]
          /\ crowded' = (IF Cardinality(SlotsOf(id)) > 1 THEN crowded \cup {id} ELSE crowded)
          /\ UNCHANGED process_channel_id_cnt
      BY <1>3 DEF LoadRelease
    <2>2. \A g \in Files \ {f} : channel'[g] = channel[g]
      BY <1>t, <2>1
    <2>3. channel' \in [Files -> Nat \cup {NoFile, Closed}]
      BY <1>t, <2>1
    <2>4. CASE SlotsOf(id) = {}
      <3>1. UNCHANGED <<load_infos, asked, patched>>
        BY <2>1, <2>4 DEF RemoveCaseLoad
      <3>2. LoadTypes' /\ OnePerThread'
        BY <1>0, <2>1, <2>3, <3>1 DEF LoadTypes, OnePerThread
      <3>3. ASSUME NEW i \in Slots PROVE EntryAt(i)' /\ OwnerAt(i)'
        <4>1. EntryAt(i)'
          BY <1>0, <3>1 DEF EntryAt
        <4>2. load_infos[i].is_used => load_infos[i].id # id
          BY <2>4 DEF SlotsOf
        <4>3. OwnerAt(i)'
          BY <1>0, <2>1, <2>2, <3>1, <4>2 DEF OwnerAt
        <4>4. QED
          BY <4>1, <4>3
      <3>4. QED
        BY <3>2, <3>3
    <2>5. CASE SlotsOf(id) # {}
      <3>1. PICK m : m = Min(SlotsOf(id))
        OBVIOUS
      <3>2. m \in SlotsOf(id) /\ m \in Slots
        BY <2>5, <3>1, SlotsOfShape
      <3>3. /\ load_infos' = [load_infos EXCEPT ![m] = Empty]
            /\ asked' = [asked EXCEPT ![m] = Zero] /\ patched' = patched \ {m}
        BY <2>1, <2>5, <3>1 DEF RemoveCaseLoad
      <3>4. Empty \in LoadEntry /\ Zero \in ParamType /\ ~Empty.is_used
        BY EmptyTypes
      <3>5. LoadTypes'
        BY <1>0, <2>1, <2>3, <3>3, <3>4 DEF LoadTypes
      <3>6. /\ ~load_infos'[m].is_used
            /\ \A i \in Slots \ {m} : load_infos'[i] = load_infos[i] /\ asked'[i] = asked[i]
        BY <1>t, <3>2, <3>3, <3>4
      <3>7. OnePerThread'
        BY <1>0, <3>6 DEF OnePerThread
      <3>8. ASSUME NEW i \in Slots \ {m}, load_infos[i].is_used, load_infos[i].id = id
            PROVE  id \in crowded'
        <4>1. i \in SlotsOf(id)
          BY <3>8 DEF SlotsOf
        <4>2. IsFiniteSet(SlotsOf(id)) /\ Cardinality(SlotsOf(id)) \in Nat
          BY SlotsOfShape, FS_CardinalityType
        <4>3. Cardinality(SlotsOf(id)) # 0
          BY <4>1, <4>2, FS_EmptySet
        <4>4. Cardinality(SlotsOf(id)) # 1
          <5>1. SUFFICES ASSUME Cardinality(SlotsOf(id)) = 1 PROVE FALSE
            OBVIOUS
          <5>2. \E x : SlotsOf(id) = {x}
            BY <4>2, <5>1, FS_Singleton
          <5>3. QED
            BY <3>2, <3>8, <4>1, <5>2
        <4>5. QED
          BY <2>1, <4>2, <4>3, <4>4
      <3>9. ASSUME NEW i \in Slots PROVE EntryAt(i)' /\ OwnerAt(i)'
        <4>1. CASE i = m
          BY <3>6, <4>1 DEF EntryAt, OwnerAt
        <4>2. CASE i # m
          <5>1. load_infos'[i] = load_infos[i] /\ asked'[i] = asked[i] /\ (i \in patched => i \in patched')
            BY <3>3, <3>6, <4>2
          <5>2. EntryAt(i)'
            BY <1>0, <5>1 DEF EntryAt
          <5>3. load_infos[i].id \in crowded => load_infos[i].id \in crowded'
            BY <2>1
          <5>4. OwnerAt(i)'
            BY <1>0, <2>2, <3>8, <4>2, <5>1, <5>3 DEF OwnerAt
          <5>5. QED
            BY <5>2, <5>4
        <4>3. QED
          BY <4>1, <4>2
      <3>10. QED
        BY <3>5, <3>7, <3>9
    <2>6. QED
      BY <2>4, <2>5
  <1>4. ASSUME NEW t \in Threads, NEW f \in Files, NEW c \in Channels, NEW p \in Params,
               NEW remove \in BOOLEAN, UpdateCaseLoad(t, f, c, p, remove)
        PROVE  Goal
    <2> DEFINE id == channel[f]
               new == IF remove THEN Empty
                      ELSE [is_used |-> TRUE, id |-> id, thread |-> c, param |-> p]
               ask == IF remove THEN Zero ELSE p
    <2>1. PICK m : m = Match(id, c)
      OBVIOUS
    <2>2. /\ IsOpen(f)
          /\ load_infos' = (IF m = 0 THEN load_infos ELSE [load_infos EXCEPT ![m] = new])
          /\ asked' = (IF m = 0 THEN asked ELSE [asked EXCEPT ![m] = ask])
          /\ patched' = patched \ {m}
          /\ UNCHANGED <<process_channel_id_cnt, channel, crowded>>
      BY <1>4, <2>1 DEF UpdateCaseLoad, Call
    <2>3. /\ m \in Slots \cup {0} /\ 0 \notin Slots
          /\ m # 0 => \A i \in Slots : load_infos[i].is_used /\ load_infos[i].id = id
                                       /\ load_infos[i].thread = c
                        => load_infos[m].is_used /\ load_infos[m].id = id /\ load_infos[m].thread = c
      BY <2>1, MatchFinds
    <2>4. CASE m = 0
      <3>1. patched' = patched \ {0}
        BY <2>2, <2>4
      <3>2. LoadTypes' /\ OnePerThread'
        BY <1>0, <2>2, <2>4 DEF LoadTypes, OnePerThread
      <3>3. ASSUME NEW i \in Slots PROVE EntryAt(i)' /\ OwnerAt(i)'
        <4>1. i \in patched => i \in patched'
          BY <2>3, <3>1
        <4>2. QED
          BY <1>0, <2>2, <2>4, <4>1 DEF EntryAt, OwnerAt
      <3>4. QED
        BY <3>2, <3>3
    <2>5. CASE m # 0
      <3>1. m \in Slots
        BY <2>3, <2>5
      <3>2. id \in Nat
        BY <1>t, <2>2 DEF IsOpen
      <3>3. new \in LoadEntry /\ ask \in ParamType
        <4>1. p \in ParamType
          BY LoadAssumption DEF ParamType
        <4>2. [is_used |-> TRUE, id |-> id, thread |-> c, param |-> p] \in LoadEntry
          BY <3>2, <4>1 DEF LoadEntry
        <4>3. QED
          BY <4>1, <4>2, EmptyTypes
      <3>4. /\ new.is_used => new.id = id /\ new.thread = c /\ new.param = ask
        BY DEF Empty
      <3> HIDE DEF new, ask
      <3>5. LoadTypes'
        BY <1>0, <2>2, <2>5, <3>1, <3>3 DEF LoadTypes
      <3>6. /\ load_infos'[m] = new /\ asked'[m] = ask
            /\ \A i \in Slots \ {m} : load_infos'[i] = load_infos[i] /\ asked'[i] = asked[i]
        BY <1>t, <2>2, <2>5, <3>1
      <3>7. OnePerThread'
        <4>1. \A i \in Slots \ {m} : ~(load_infos[i].is_used /\ load_infos[i].id = id
                                       /\ load_infos[i].thread = c)
          BY <1>0, <2>3, <2>5, <3>1 DEF OnePerThread
        <4>2. SUFFICES ASSUME NEW i \in Slots, NEW j \in Slots,
                              load_infos'[i].is_used, load_infos'[j].is_used,
                              load_infos'[i].id = load_infos'[j].id,
                              load_infos'[i].thread = load_infos'[j].thread
                       PROVE  i = j
          BY DEF OnePerThread
        <4>3. CASE i = m /\ j # m
          BY <3>4, <3>6, <4>1, <4>2, <4>3
        <4>4. CASE i # m /\ j = m
          BY <3>4, <3>6, <4>1, <4>2, <4>4
        <4>5. CASE i # m /\ j # m
          BY <1>0, <3>6, <4>2, <4>5 DEF OnePerThread
        <4>6. QED
          BY <4>3, <4>4, <4>5
      <3>8. ASSUME NEW i \in Slots PROVE EntryAt(i)' /\ OwnerAt(i)'
        <4>1. CASE i = m
          <5>1. EntryAt(i)'
            BY <3>4, <3>6, <4>1 DEF EntryAt
          <5>2. OwnerAt(i)'
            BY <2>2, <3>4, <3>6, <4>1 DEF OwnerAt
          <5>3. QED
            BY <5>1, <5>2
        <4>2. CASE i # m
          <5>1. load_infos'[i] = load_infos[i] /\ asked'[i] = asked[i] /\ (i \in patched => i \in patched')
            BY <2>2, <3>6, <4>2
          <5>2. QED
            BY <1>0, <2>2, <5>1 DEF EntryAt, OwnerAt
        <4>3. QED
          BY <4>1, <4>2
      <3>9. QED
        BY <3>5, <3>7, <3>8
    <2>6. QED
      BY <2>4, <2>5
  <1>5. ASSUME NEW t \in Threads, AdjustFix(t) PROVE Goal
    <2>1. PICK m \in Slots : m = adj[t].slot
      BY <1>5 DEF AdjustFix, AtSlot
    <2>2. /\ load_infos' = [load_infos EXCEPT ![m].param.frame_rate = 60]
          /\ patched' = (IF load_infos[m].param.frame_rate > 0 THEN patched \cup {m} ELSE patched)
          /\ UNCHANGED <<process_channel_id_cnt, channel, crowded, asked>>
      BY <1>5, <2>1 DEF AdjustFix, UnchangedByAdjust
    <2> DEFINE par == [load_infos[m].param EXCEPT !.frame_rate = 60]
               new == [load_infos[m] EXCEPT !.param = par]
    <2>3. load_infos' = [load_infos EXCEPT ![m] = new]
      BY <2>2
    <2>4. load_infos[m] \in LoadEntry /\ load_infos[m].param \in ParamType
      BY <1>t DEF LoadEntry
    <2>5. /\ par \in ParamType /\ par.frame_rate = 60 /\ par.format = load_infos[m].param.format
          /\ par.size = load_infos[m].param.size
      BY <2>4 DEF ParamType
    <2> HIDE DEF par
    <2>6. /\ new \in LoadEntry /\ new.param = par /\ (new.is_used <=> load_infos[m].is_used)
          /\ new.id = load_infos[m].id /\ new.thread = load_infos[m].thread
      BY <2>4, <2>5 DEF LoadEntry
    <2> HIDE DEF new
    <2>7. load_infos'[m] = new /\ \A i \in Slots \ {m} : load_infos'[i] = load_infos[i]
      BY <1>t, <2>3
    <2>8. LoadTypes'
      BY <1>0, <2>2, <2>3, <2>6 DEF LoadTypes
    <2>9. \A i \in Slots : /\ (load_infos'[i].is_used <=> load_infos[i].is_used)
                           /\ load_infos'[i].id = load_infos[i].id
                           /\ load_infos'[i].thread = load_infos[i].thread
      BY <2>6, <2>7
    <2>10. OnePerThread'
      BY <1>0, <2>9 DEF OnePerThread
    <2>11. ASSUME NEW i \in Slots PROVE EntryAt(i)' /\ OwnerAt(i)'
      <3>0. EntryAt(i) /\ asked' = asked
        BY <1>0, <2>2
      <3>1. OwnerAt(i)'
        BY <1>0, <2>2, <2>9 DEF OwnerAt
      <3>2. CASE i = m
        <4>1. load_infos[m].param.frame_rate \in Nat
          BY <2>4 DEF ParamType
        <4>5. load_infos'[i].param = par /\ (load_infos'[i].is_used <=> load_infos[i].is_used)
          BY <2>6, <2>7, <3>2
        <4>6. load_infos[m].param.frame_rate > 0 => m \in patched'
          BY <2>2
        <4>2. CASE load_infos[m].param.frame_rate > 0
          BY <2>5, <3>0, <3>1, <3>2, <4>2, <4>5, <4>6 DEF EntryAt
        <4>3. CASE load_infos[m].param.frame_rate = 0
          BY <2>5, <3>0, <3>1, <3>2, <4>3, <4>5 DEF EntryAt
        <4>4. EntryAt(i)'
          BY <3>1, <4>1, <4>2, <4>3
        <4>7. QED
          BY <3>1, <4>4
      <3>3. CASE i # m
        <4>1. load_infos'[i] = load_infos[i] /\ (i \in patched => i \in patched')
          BY <2>2, <2>7, <3>3
        <4>2. QED
          BY <3>0, <3>1, <4>1 DEF EntryAt
      <3>4. QED
        BY <3>2, <3>3
    <2>12. QED
      BY <2>8, <2>10, <2>11
  <1>6. ASSUME NEW t \in Threads, NEW f \in Files, NEW mhz \in Freqs, NEW ok \in BOOLEAN,
               SetFreqRate(t, f, mhz, ok)
        PROVE  Goal
    BY <1>1, <1>6 DEF SetFreqRate
  <1>7. ASSUME NEW t \in Threads,
               \/ AdjustLook(t) \/ AdjustSum(t) \/ SetFreqGet(t) \/ SetFreqStore(t)
               \/ \E ok \in BOOLEAN : AdjustSet(t, ok)
        PROVE  Goal
    BY <1>1, <1>7 DEF AdjustLook, AdjustSum, SetFreqGet, SetFreqStore, AdjustSet, UnchangedByAdjust
  <1>8. CASE UNCHANGED loadVars
    BY <1>1, <1>8 DEF loadVars
  <1>9. QED
    BY <1>2, <1>3, <1>4, <1>5, <1>6, <1>7, <1>8 DEF LoadNext

LEMMA LoadInvariant == LoadSpec => []LoadInv
  BY LoadStart, LoadStep, PTL DEF LoadSpec

\* A used slot of the load table holds what its owner announced last, up to the
\* frame rate that the unlocked pass of adjust_ve_freq_by_case_load replaces,
\* for any number of processes, threads and slots.
THEOREM EntriesAreExplained == LoadSpec => []EntryExplained
  <1>1. LoadInv => EntryExplained
    BY DEF LoadInv
  <1>2. QED
    BY <1>1, LoadInvariant, PTL

\* No thread of a process ever has two slots, and a slot whose process has
\* closed its file was one of several: remove_case_load_param_by_process_id_sun55iw3
\* frees only the first.
THEOREM SlotsAreExplained == LoadSpec => []SlotsExplained
  <1>1. LoadInv => SlotsExplained
    BY DEF LoadInv
  <1>2. QED
    BY <1>1, LoadInvariant, PTL

----------------------------------------------------------------------------
(* CedarLoad: the rate.  First what MapThenSumSet makes of one slot and of  *)
(* two, then what an undisturbed pass of adjust_ve_freq_by_case_load knows. *)

\* The recursion by which MapThenSumSet adds the pixels of the slots of S.
SumsBy(it, S) ==
    it = [s \in SUBSET S |-> IF s = {} THEN 0
                             ELSE Pixels(CHOOSE x \in s : TRUE) + it[s \ {CHOOSE x \in s : TRUE}]]

LEMMA TotalIsSum == TotalPixels = (CHOOSE it : SumsBy(it, Used))[Used]
  BY DEF TotalPixels, MapThenSumSet, MapThenFoldSet, SumsBy

LEMMA TotalOfOne ==
    ASSUME NEW i, Used = {i}, Pixels(i) \in Nat
    PROVE  TotalPixels = Pixels(i)
  <1> DEFINE g == [s \in SUBSET {i} |-> IF s = {} THEN 0 ELSE Pixels(i)]
             it == CHOOSE f : SumsBy(f, {i})
  <1>1. \A s \in SUBSET {i} : s = {} \/ s = {i}
    OBVIOUS
  <1>2. (CHOOSE x \in {i} : TRUE) = i
    OBVIOUS
  <1>3. g[{}] = 0
    OBVIOUS
  <1>4. SumsBy(g, {i})
    <2> DEFINE h == [s \in SUBSET {i} |-> IF s = {} THEN 0
                        ELSE Pixels(CHOOSE x \in s : TRUE) + g[s \ {CHOOSE x \in s : TRUE}]]
    <2>1. ASSUME NEW s \in SUBSET {i} PROVE g[s] = h[s]
      <3>1. CASE s = {}
        BY <3>1
      <3>2. CASE s = {i}
        <4>1. s \ {CHOOSE x \in s : TRUE} = {} /\ (CHOOSE x \in s : TRUE) = i
          BY <1>2, <3>2
        <4> QED
          BY <1>3, <3>2, <4>1
      <3> QED
        BY <1>1, <3>1, <3>2
    <2> QED
      BY <2>1 DEF SumsBy
  <1> HIDE DEF g
  <1>5. SumsBy(it, {i})
    BY <1>4
  <1>6. TotalPixels = it[{i}]
    BY TotalIsSum
  <1> HIDE DEF it
  <1>7. it[{}] = 0
    BY <1>5 DEF SumsBy
  <1>8. it[{i}] = Pixels(i) + it[{}]
    <2>1. {i} \ {i} = {}
      OBVIOUS
    <2> QED
      BY <1>2, <1>5, <2>1 DEF SumsBy
  <1> QED
    BY <1>6, <1>7, <1>8

LEMMA TotalOfTwo ==
    ASSUME NEW i, NEW j, i # j, Used = {i, j}, Pixels(i) \in Nat, Pixels(j) \in Nat
    PROVE  TotalPixels = Pixels(i) + Pixels(j)
  <1> DEFINE S == {i, j}
             g == [s \in SUBSET S |-> (IF i \in s THEN Pixels(i) ELSE 0) + (IF j \in s THEN Pixels(j) ELSE 0)]
             it == CHOOSE f : SumsBy(f, S)
             C(s) == CHOOSE x \in s : TRUE
  <1>1. \A s \in SUBSET S : s # {} => C(s) \in s /\ C(s) \in S /\ s \ {C(s)} \in SUBSET S
    OBVIOUS
  <1>2. \A s \in SUBSET S : g[s] = (IF i \in s THEN Pixels(i) ELSE 0) + (IF j \in s THEN Pixels(j) ELSE 0)
    OBVIOUS
  <1>3. DOMAIN g = SUBSET S /\ g = [s \in SUBSET S |-> g[s]]
    OBVIOUS
  <1> HIDE DEF g, C
  <1>4. \A s \in SUBSET S : g[s] = IF s = {} THEN 0 ELSE Pixels(C(s)) + g[s \ {C(s)}]
    <2> SUFFICES ASSUME NEW s \in SUBSET S PROVE g[s] = IF s = {} THEN 0 ELSE Pixels(C(s)) + g[s \ {C(s)}]
      OBVIOUS
    <2>1. CASE s = {}
      BY <1>2, <2>1
    <2>2. CASE s # {} /\ C(s) = i
      <3>1. i \in s /\ i \notin s \ {i} /\ (j \in s \ {i} <=> j \in s) /\ s \ {i} \in SUBSET S
        BY <1>1, <2>2
      <3>2. g[s \ {i}] = IF j \in s THEN Pixels(j) ELSE 0
        BY <1>2, <3>1
      <3>3. g[s] = Pixels(i) + (IF j \in s THEN Pixels(j) ELSE 0)
        BY <1>2, <3>1
      <3> QED
        BY <2>2, <3>2, <3>3
    <2>3. CASE s # {} /\ C(s) = j
      <3>1. j \in s /\ j \notin s \ {j} /\ (i \in s \ {j} <=> i \in s) /\ s \ {j} \in SUBSET S
        BY <1>1, <2>3
      <3>2. g[s \ {j}] = IF i \in s THEN Pixels(i) ELSE 0
        BY <1>2, <3>1
      <3>3. g[s] = (IF i \in s THEN Pixels(i) ELSE 0) + Pixels(j)
        BY <1>2, <3>1
      <3> QED
        BY <2>3, <3>2, <3>3
    <2> QED
      BY <1>1, <2>1, <2>2, <2>3
  <1>5. SumsBy(g, S)
    BY <1>3, <1>4 DEF SumsBy, C
  <1>6. SumsBy(it, S)
    BY <1>5
  <1>7. TotalPixels = it[S]
    BY TotalIsSum
  <1> HIDE DEF it
  <1>8. \A s \in SUBSET S : it[s] = IF s = {} THEN 0 ELSE Pixels(C(s)) + it[s \ {C(s)}]
    <2>1. it = [s \in SUBSET S |-> IF s = {} THEN 0 ELSE Pixels(C(s)) + it[s \ {C(s)}]]
      BY <1>6 DEF SumsBy, C
    <2> QED
      BY <2>1
  <1>9. it[{}] = 0
    BY <1>8
  <1>10. it[{i}] = Pixels(i) /\ it[{j}] = Pixels(j)
    <2>1. C({i}) = i /\ C({j}) = j
      BY DEF C
    <2>2. {i} \ {i} = {} /\ {j} \ {j} = {} /\ {i} \in SUBSET S /\ {j} \in SUBSET S
      OBVIOUS
    <2>3. it[{i}] = Pixels(C({i})) + it[{i} \ {C({i})}]
      BY <1>8, <2>2
    <2>4. it[{j}] = Pixels(C({j})) + it[{j} \ {C({j})}]
      BY <1>8, <2>2
    <2>5. it[{i}] = Pixels(i) + 0 /\ it[{j}] = Pixels(j) + 0
      BY <1>9, <2>1, <2>2, <2>3, <2>4
    <2> QED
      BY <2>5
  <1>11. it[S] = Pixels(C(S)) + it[S \ {C(S)}]
    BY <1>8
  <1>12. CASE C(S) = i
    <2>1. S \ {i} = {j}
      OBVIOUS
    <2>2. it[S] = Pixels(i) + Pixels(j)
      BY <1>10, <1>11, <1>12, <2>1
    <2> QED
      BY <1>7, <2>2
  <1>13. CASE C(S) = j
    <2>1. S \ {j} = {i}
      OBVIOUS
    <2>2. it[S] = Pixels(j) + Pixels(i)
      BY <1>10, <1>11, <1>13, <2>1
    <2> QED
      BY <1>7, <2>2
  <1> QED
    BY <1>1, <1>12, <1>13

LEMMA TotalSame == UNCHANGED load_infos => TotalPixels' = TotalPixels
  <1> SUFFICES ASSUME UNCHANGED load_infos PROVE TotalPixels' = TotalPixels
    OBVIOUS
  <1>1. QED
    BY DEF TotalPixels, MapThenSumSet, MapThenFoldSet, Pixels, Used

\* Clients announce members of the codec enumeration, which starts above 0; a
\* zeroed entry's format is none of them.
KnownFormats == \A p \in Params : p.format # "zero"

FormatSet == {"zero"} \cup {p.format : p \in Params}
PassType == [at : {"look", "fix", "sum"}, file : Files, slot : Nat, total : Nat,
             formats : SUBSET FormatSet, dec : Nat, enc : Nat]
AdjStates == {Idle} \cup PassType \cup [at : {"get", "store"}, file : Files, ret : Int]

\* The used slots a pass of adjust_ve_freq_by_case_load has left behind at slot k.
Below(k) == {i \in Slots : i < k /\ load_infos[i].is_used}
FormatsBelow(k) == {load_infos[i].param.format : i \in Below(k)}

\* n adds up the pixels of the slots of U, if these are at most two and do not
\* wrap around.
Summed(n, U) ==
    /\ U = {} => n = 0
    /\ \A i \in U : U = {i} /\ Pixels(i) < Wrap => n = Pixels(i)
    /\ \A i, j \in U : i # j /\ U = {i, j} /\ Pixels(i) + Pixels(j) < Wrap
                         => n = Pixels(i) + Pixels(j)

\* A pass that nothing has disturbed has counted what it has left behind.
PassFor(a) ==
    /\ a.slot \in 1 .. NSlots + 1
    /\ a.at \in {"fix", "sum"} => a.slot \in Slots /\ load_infos[a.slot].is_used
    /\ a.at = "fix" => load_infos[a.slot].param.frame_rate = 0
    /\ a.at = "sum" => load_infos[a.slot].param.frame_rate > 0
    /\ a.formats = FormatsBelow(a.slot)
    /\ a.dec + a.enc = Cardinality(Below(a.slot))
    /\ a.enc = 0 <=> a.formats \subseteq Decoders
    /\ Summed(a.total, Below(a.slot))

AloneOK ==
    \A t \in alone :
      /\ t \in Threads /\ \A u \in Threads \ {t} : adj[u] = Idle
      /\ \A a \in PassType : adj[t] = a => PassFor(a)

RateInv ==
    /\ LoadInv
    /\ adj \in [Threads -> AdjStates] /\ ve_rate \in Int
    /\ \A i \in Used : load_infos[i].param.format # "zero"
    /\ AloneOK
    /\ fresh => \A u \in Threads : adj[u] = Idle
    /\ RateExplained

LEMMA LoadFacts ==
    /\ NSlots \in Nat \ {0} /\ BootRate \in Nat /\ Slots \subseteq Nat /\ IsFiniteSet(Slots)
    /\ {End1, End2, End3, EndMax, Wrap} \subseteq Nat
    /\ End1 < End2 /\ End2 < End3 /\ End3 < EndMax /\ EndMax < Wrap
  <1>1. IsFiniteSet(Slots)
    BY SlotsFinite
  <1>2. QED
    BY <1>1, LoadAssumption DEF Slots

LEMMA EntryTypes ==
    ASSUME LoadTypes, NEW i \in Slots
    PROVE  /\ load_infos[i].param.format \in FormatSet /\ load_infos[i].param.size \in Nat
           /\ load_infos[i].param.frame_rate \in Nat /\ load_infos[i].is_used \in BOOLEAN
           /\ Pixels(i) \in Nat
  <1>1. load_infos[i] \in LoadEntry /\ load_infos[i].param \in ParamType
    BY DEF LoadTypes, LoadEntry
  <1>2. /\ load_infos[i].param.format \in FormatSet /\ load_infos[i].param.size \in Nat
        /\ load_infos[i].param.frame_rate \in Nat
    BY <1>1 DEF ParamType, FormatSet
  <1>3. load_infos[i].is_used \in BOOLEAN
    BY <1>1 DEF LoadEntry
  <1>4. Pixels(i) = load_infos[i].param.size
                    * (IF load_infos[i].param.frame_rate = 0 THEN 60 ELSE load_infos[i].param.frame_rate)
    BY DEF Pixels
  <1>5. QED
    <2> DEFINE s == load_infos[i].param.size
               r == IF load_infos[i].param.frame_rate = 0 THEN 60 ELSE load_infos[i].param.frame_rate
    <2>1. s \in Nat /\ r \in Nat
      BY <1>2
    <2>2. Pixels(i) = s * r
      BY <1>4
    <2> HIDE DEF s, r
    <2>3. s * r \in Nat
      BY <2>1
    <2>4. QED
      BY <1>2, <1>3, <2>2, <2>3

LEMMA BelowFinite ==
    ASSUME NEW k
    PROVE  /\ Below(k) \in SUBSET Slots /\ IsFiniteSet(Below(k)) /\ Cardinality(Below(k)) \in Nat
           /\ IsFiniteSet(Used) /\ Cardinality(Used) \in Nat
           /\ IsFiniteSet(FormatsUsed) /\ Cardinality(FormatsUsed) \in Nat
  <1>1. Below(k) \in SUBSET Slots /\ Used \in SUBSET Slots
    BY DEF Below, Used
  <1>2. IsFiniteSet(Below(k)) /\ IsFiniteSet(Used)
    BY <1>1, LoadFacts, FS_Subset
  <1>3. IsFiniteSet(FormatsUsed)
    <2>1. FormatsUsed = {load_infos[i].param.format : i \in Used}
      BY DEF FormatsUsed
    <2> DEFINE f == [i \in Used |-> load_infos[i].param.format]
    <2>2. f \in Surjection(Used, FormatsUsed)
      BY <2>1 DEF Surjection
    <2>3. QED
      BY <1>2, <2>2, FS_Surjection
  <1>4. QED
    BY <1>1, <1>2, <1>3, FS_CardinalityType

\* The whole table.
LEMMA BelowAll == Below(NSlots + 1) = Used /\ FormatsBelow(NSlots + 1) = FormatsUsed /\ Below(1) = {}
  <1>1. Below(NSlots + 1) = Used /\ Below(1) = {}
    BY LoadFacts DEF Below, Used, Slots
  <1>2. QED
    BY <1>1 DEF FormatsBelow, FormatsUsed

\* One slot on.
LEMMA BelowNext ==
    ASSUME LoadTypes, NEW k \in Slots
    PROVE  /\ k + 1 \in 1 .. NSlots + 1 /\ k \notin Below(k)
           /\ ~load_infos[k].is_used => Below(k + 1) = Below(k) /\ FormatsBelow(k + 1) = FormatsBelow(k)
           /\ load_infos[k].is_used =>
                /\ Below(k + 1) = Below(k) \cup {k}
                /\ FormatsBelow(k + 1) = FormatsBelow(k) \cup {load_infos[k].param.format}
  <1>1. k \in Nat /\ k \in 1 .. NSlots /\ NSlots \in Nat /\ Slots \subseteq Nat
    BY LoadFacts DEF Slots
  <1>2. k + 1 \in 1 .. NSlots + 1
    BY <1>1
  <1>3. k \notin Below(k)
    BY <1>1 DEF Below
  <1>4. \A i \in Slots : i < k + 1 <=> i < k \/ i = k
    BY <1>1
  <1>5. ~load_infos[k].is_used => Below(k + 1) = Below(k)
    BY <1>4 DEF Below
  <1>6. load_infos[k].is_used => Below(k + 1) = Below(k) \cup {k}
    BY <1>4 DEF Below
  <1>7. QED
    BY <1>2, <1>3, <1>5, <1>6 DEF FormatsBelow

\* A pass over an unchanged table.
LEMMA PassSame == ASSUME UNCHANGED load_infos, NEW a, PassFor(a) PROVE PassFor(a)'
  BY DEF PassFor, FormatsBelow, Below, Summed, Pixels

StartsPass(a) ==
    a.at = "look" /\ a.slot = 1 /\ a.total = 0 /\ a.formats = {} /\ a.dec = 0 /\ a.enc = 0

LEMMA PassStart == \A a \in PassType : StartsPass(a) => PassFor(a)
  <1>1. Below(1) = {} /\ FormatsBelow(1) = {}
    BY BelowAll DEF FormatsBelow
  <1>2. Cardinality({}) = 0
    BY FS_EmptySet
  <1>3. Summed(0, {})
    BY DEF Summed
  <1>4. 1 \in 1 .. NSlots + 1
    BY LoadFacts
  <1>5. QED
    BY <1>1, <1>2, <1>3, <1>4 DEF PassFor, StartsPass

LEMMA PassLook ==
    ASSUME LoadTypes, NEW a \in PassType, PassFor(a), a.at = "look", a.slot \in Slots,
           NEW b \in PassType, b.total = a.total, b.formats = a.formats, b.dec = a.dec, b.enc = a.enc,
           IF ~load_infos[a.slot].is_used THEN b.at = "look" /\ b.slot = a.slot + 1
           ELSE /\ b.slot = a.slot
                /\ b.at = IF load_infos[a.slot].param.frame_rate <= 0 THEN "fix" ELSE "sum"
    PROVE  PassFor(b)
  <1>1. CASE ~load_infos[a.slot].is_used
    <2>1. /\ b.at = "look" /\ b.slot = a.slot + 1 /\ b.slot \in 1 .. NSlots + 1
          /\ Below(b.slot) = Below(a.slot) /\ FormatsBelow(b.slot) = FormatsBelow(a.slot)
      BY <1>1, BelowNext
    <2>2. QED
      BY <2>1 DEF PassFor
  <1>2. CASE load_infos[a.slot].is_used
    <2>1. load_infos[a.slot].param.frame_rate \in Nat
      BY EntryTypes
    <2>2. /\ b.slot = a.slot /\ b.at \in {"fix", "sum"}
          /\ b.at = "fix" => load_infos[a.slot].param.frame_rate = 0
          /\ b.at = "sum" => load_infos[a.slot].param.frame_rate > 0
      BY <1>2, <2>1
    <2>3. QED
      BY <1>2, <2>2 DEF PassFor
  <1>3. QED
    BY <1>1, <1>2, EntryTypes

\* The default frame rate changes no sum.
LEMMA PassFix ==
    ASSUME LoadTypes, NEW a \in PassType, PassFor(a), a.at = "fix",
           load_infos' = [load_infos EXCEPT ![a.slot].param.frame_rate = 60],
           NEW b \in PassType, b.at = "sum", b.slot = a.slot, b.total = a.total,
           b.formats = a.formats, b.dec = a.dec, b.enc = a.enc
    PROVE  PassFor(b)'
  <1> DEFINE m == a.slot
             par == [load_infos[m].param EXCEPT !.frame_rate = 60]
             new == [load_infos[m] EXCEPT !.param = par]
  <1>1. m \in Slots /\ load_infos[m].is_used /\ load_infos[m].param.frame_rate = 0
    BY DEF PassFor
  <1>2. load_infos \in [Slots -> LoadEntry] /\ load_infos[m] \in LoadEntry /\ load_infos[m].param \in ParamType
    BY <1>1 DEF LoadTypes, LoadEntry
  <1>3. load_infos' = [load_infos EXCEPT ![m] = new]
    OBVIOUS
  <1>4. par.frame_rate = 60 /\ par.format = load_infos[m].param.format /\ par.size = load_infos[m].param.size
    BY <1>2 DEF ParamType
  <1> HIDE DEF par
  <1>5. new.param = par /\ new.is_used = load_infos[m].is_used
    BY <1>2 DEF LoadEntry
  <1> HIDE DEF new
  <1>6. load_infos'[m] = new /\ \A i \in Slots \ {m} : load_infos'[i] = load_infos[i]
    BY <1>1, <1>2, <1>3
  <1>7. \A i \in Slots : /\ load_infos'[i].is_used = load_infos[i].is_used
                         /\ load_infos'[i].param.format = load_infos[i].param.format
    BY <1>4, <1>5, <1>6
  <1>8. \A i \in Slots : Pixels(i)' = Pixels(i)
    <2>1. Pixels(m)' = Pixels(m)
      <3>1. Pixels(m) = load_infos[m].param.size * 60
        BY <1>1 DEF Pixels
      <3>2. Pixels(m)' = load_infos'[m].param.size * (IF load_infos'[m].param.frame_rate = 0 THEN 60 ELSE load_infos'[m].param.frame_rate)
        BY DEF Pixels
      <3>3. load_infos'[m].param.frame_rate = 60 /\ load_infos'[m].param.size = load_infos[m].param.size
        BY <1>4, <1>5, <1>6
      <3>4. QED
        BY <3>1, <3>2, <3>3
    <2>2. \A i \in Slots \ {m} : Pixels(i)' = Pixels(i)
      BY <1>6 DEF Pixels
    <2>3. QED
      BY <2>1, <2>2
  <1>9. \A k : Below(k)' = Below(k) /\ FormatsBelow(k)' = FormatsBelow(k)
    BY <1>7 DEF Below, FormatsBelow
  <1>10. \A n, k : Summed(n, Below(k)) => Summed(n, Below(k))'
    <2>1. \A k : Below(k) \subseteq Slots
      BY DEF Below
    <2>2. QED
      BY <1>8, <1>9, <2>1 DEF Summed
  <1>11. load_infos'[b.slot].is_used /\ load_infos'[b.slot].param.frame_rate > 0 /\ b.slot \in Slots
    BY <1>1, <1>4, <1>5, <1>6
  <1>12. QED
    BY <1>9, <1>10, <1>11 DEF PassFor

LEMMA SumMore ==
    ASSUME LoadTypes, NEW U \in SUBSET Slots, NEW k \in Slots, k \notin U, NEW n \in Nat, Summed(n, U)
    PROVE  Summed((n + Pixels(k)) % Wrap, U \cup {k})
  <1> DEFINE r == (n + Pixels(k)) % Wrap
  <1>1. Wrap \in Nat /\ Wrap > 0 /\ \A i \in Slots : Pixels(i) \in Nat
    BY LoadFacts, EntryTypes
  <1>2. n + Pixels(k) < Wrap => r = n + Pixels(k)
    BY <1>1
  <1> HIDE DEF r
  <1>3. ASSUME NEW i \in U \cup {k}, U \cup {k} = {i}, Pixels(i) < Wrap PROVE r = Pixels(i)
    <2>1. i = k /\ U = {}
      BY <1>3
    <2>2. n = 0
      BY <2>1 DEF Summed
    <2>3. QED
      BY <1>1, <1>2, <1>3, <2>1, <2>2
  <1>4. ASSUME NEW i \in U \cup {k}, NEW j \in U \cup {k}, i # j, U \cup {k} = {i, j},
               Pixels(i) + Pixels(j) < Wrap
        PROVE  r = Pixels(i) + Pixels(j)
    <2>1. ASSUME NEW x \in U, U = {x}, Pixels(x) + Pixels(k) < Wrap PROVE r = Pixels(x) + Pixels(k)
      <3>1. Pixels(x) \in Nat /\ Pixels(k) \in Nat
        BY <1>1
      <3>2. Pixels(x) < Wrap
        BY <1>1, <2>1, <3>1
      <3>3. n = Pixels(x)
        BY <2>1, <3>2 DEF Summed
      <3>4. QED
        BY <1>2, <2>1, <3>3
    <2>2. CASE i = k
      <3>1. j \in U /\ U = {j}
        BY <1>4, <2>2
      <3>2. Pixels(j) + Pixels(k) = Pixels(i) + Pixels(j) /\ Pixels(j) + Pixels(k) < Wrap
        BY <1>1, <1>4, <2>2
      <3>3. QED
        BY <2>1, <3>1, <3>2
    <2>3. CASE j = k
      <3>1. i \in U /\ U = {i}
        BY <1>4, <2>3
      <3>2. QED
        BY <1>4, <2>1, <2>3, <3>1
    <2>4. QED
      BY <1>4, <2>2, <2>3
  <1>5. QED
    BY <1>3, <1>4 DEF Summed, r

LEMMA PassSum ==
    ASSUME LoadTypes, NEW a \in PassType, PassFor(a), a.at = "sum",
           NEW b \in PassType, b.at = "look", b.slot = a.slot + 1,
           b.total = (a.total + load_infos[a.slot].param.size * load_infos[a.slot].param.frame_rate) % Wrap,
           b.formats = a.formats \cup {load_infos[a.slot].param.format},
           b.dec = a.dec + (IF load_infos[a.slot].param.format \in Decoders THEN 1 ELSE 0),
           b.enc = a.enc + 1 - (IF load_infos[a.slot].param.format \in Decoders THEN 1 ELSE 0)
    PROVE  PassFor(b)
  <1> DEFINE k == a.slot
  <1>1. /\ k \in Slots /\ load_infos[k].is_used /\ load_infos[k].param.frame_rate > 0
        /\ a.formats = FormatsBelow(k) /\ a.dec + a.enc = Cardinality(Below(k))
        /\ (a.enc = 0 <=> a.formats \subseteq Decoders) /\ Summed(a.total, Below(k))
    BY DEF PassFor
  <1>2. a.dec \in Nat /\ a.enc \in Nat /\ a.total \in Nat
    BY DEF PassType
  <1>3. /\ k + 1 \in 1 .. NSlots + 1 /\ k \notin Below(k) /\ Below(k + 1) = Below(k) \cup {k}
        /\ FormatsBelow(k + 1) = FormatsBelow(k) \cup {load_infos[k].param.format}
    BY <1>1, BelowNext
  <1>4. Pixels(k) = load_infos[k].param.size * load_infos[k].param.frame_rate
    <2>1. load_infos[k].param.frame_rate # 0
      BY <1>1, EntryTypes
    <2>2. QED
      BY <2>1 DEF Pixels
  <1>5. Summed(b.total, Below(k + 1))
    <2>1. Below(k) \in SUBSET Slots
      BY BelowFinite
    <2>2. QED
      BY <1>1, <1>2, <1>3, <1>4, <2>1, SumMore
  <1>6. Cardinality(Below(k + 1)) = Cardinality(Below(k)) + 1
    <2>1. IsFiniteSet(Below(k))
      BY BelowFinite
    <2>2. QED
      BY <1>3, <2>1, FS_AddElement
  <1>7. b.dec + b.enc = Cardinality(Below(k + 1))
    BY <1>1, <1>2, <1>6
  <1>8. b.enc = 0 <=> b.formats \subseteq Decoders
    <2>1. CASE load_infos[k].param.format \in Decoders
      BY <1>1, <1>2, <2>1
    <2>2. CASE load_infos[k].param.format \notin Decoders
      BY <1>1, <1>2, <2>2
    <2>3. QED
      BY <2>1, <2>2
  <1>9. QED
    BY <1>1, <1>3, <1>5, <1>7, <1>8 DEF PassFor

\* decoder_perform has a row for every format and every sum up to EndMax.
LEMMA RowsTyped ==
    \A r \in decoder_perform : r.from \in Nat /\ r.to \in Nat /\ r.freq \in {100, 150, 200, 350, 900}
  BY LoadFacts DEF decoder_perform, Row, MaxFreq

LEMMA RowsCover ==
    ASSUME NEW fm \in {"H264", "H265", "VP9", "OTHER"}, NEW n \in Nat, n <= EndMax
    PROVE  \E r \in decoder_perform : r.format = fm /\ r.from <= n /\ n <= r.to
  <1> DEFINE Hit(r) == r.format = fm /\ r.from <= n /\ n <= r.to
  <1>1. /\ End1 \in Nat /\ End2 \in Nat /\ End3 \in Nat /\ EndMax \in Nat
    BY LoadFacts
  <1>2. \A f, lo, hi, q : Row(f, lo, hi, q).format = f /\ Row(f, lo, hi, q).from = lo /\ Row(f, lo, hi, q).to = hi
    BY DEF Row
  <1>3. n <= End1 \/ (End1 + 1 <= n /\ n <= End2) \/ (End2 + 1 <= n /\ n <= End3) \/ (End3 + 1 <= n /\ n <= EndMax)
    BY <1>1
  <1>4. CASE fm = "OTHER"
    <2>1. Row("OTHER", 0, EndMax, MaxFreq) \in decoder_perform
      BY DEF decoder_perform
    <2>2. Hit(Row("OTHER", 0, EndMax, MaxFreq))
      BY <1>2, <1>4
    <2>3. QED
      BY <2>1, <2>2
  <1>5. CASE fm = "H264"
    <2>1. /\ Row("H264", 0, End1, 100) \in decoder_perform
          /\ Row("H264", End1 + 1, End2, 200) \in decoder_perform
          /\ Row("H264", End2 + 1, End3, 350) \in decoder_perform
          /\ Row("H264", End3 + 1, EndMax, MaxFreq) \in decoder_perform
      BY DEF decoder_perform
    <2>2. \/ Hit(Row("H264", 0, End1, 100)) \/ Hit(Row("H264", End1 + 1, End2, 200))
          \/ Hit(Row("H264", End2 + 1, End3, 350)) \/ Hit(Row("H264", End3 + 1, EndMax, MaxFreq))
      BY <1>2, <1>3, <1>5
    <2>3. QED
      BY <2>1, <2>2
  <1>6. CASE fm = "H265"
    <2>1. /\ Row("H265", 0, End1, 100) \in decoder_perform
          /\ Row("H265", End1 + 1, End2, 150) \in decoder_perform
          /\ Row("H265", End2 + 1, End3, 350) \in decoder_perform
          /\ Row("H265", End3 + 1, EndMax, MaxFreq) \in decoder_perform
      BY DEF decoder_perform
    <2>2. \/ Hit(Row("H265", 0, End1, 100)) \/ Hit(Row("H265", End1 + 1, End2, 150))
          \/ Hit(Row("H265", End2 + 1, End3, 350)) \/ Hit(Row("H265", End3 + 1, EndMax, MaxFreq))
      BY <1>2, <1>3, <1>6
    <2>3. QED
      BY <2>1, <2>2
  <1>7. CASE fm = "VP9"
    <2>1. /\ Row("VP9", 0, End1, 150) \in decoder_perform
          /\ Row("VP9", End1 + 1, End2, 200) \in decoder_perform
          /\ Row("VP9", End2 + 1, End3, 350) \in decoder_perform
          /\ Row("VP9", End3 + 1, EndMax, MaxFreq) \in decoder_perform
      BY DEF decoder_perform
    <2>2. \/ Hit(Row("VP9", 0, End1, 150)) \/ Hit(Row("VP9", End1 + 1, End2, 200))
          \/ Hit(Row("VP9", End2 + 1, End3, 350)) \/ Hit(Row("VP9", End3 + 1, EndMax, MaxFreq))
      BY <1>2, <1>3, <1>7
    <2>3. QED
      BY <2>1, <2>2
  <1>8. QED
    BY <1>4, <1>5, <1>6, <1>7

\* What a complete pass has added up.
LEMMA SumIsTotal ==
    ASSUME LoadTypes, NEW n \in Nat, Summed(n, Used), Used # {}, Cardinality(Used) <= 2
    PROVE  TotalPixels \in Nat /\ (TotalPixels <= EndMax => n = TotalPixels)
  <1>1. /\ Used \in SUBSET Slots /\ IsFiniteSet(Used) /\ Cardinality(Used) \in Nat
        /\ \A i \in Slots : Pixels(i) \in Nat
    <2>1. Used \in SUBSET Slots
      BY DEF Used
    <2>2. QED
      BY <2>1, BelowFinite, EntryTypes
  <1>2. EndMax \in Nat /\ Wrap \in Nat /\ EndMax < Wrap
    BY LoadFacts
  <1>3. PICK i \in Used : TRUE
    OBVIOUS
  <1>4. i \in Used /\ i \in Slots /\ Pixels(i) \in Nat
    BY <1>1, <1>3
  <1>5. CASE Used = {i}
    <2>1. TotalPixels = Pixels(i)
      BY <1>4, <1>5, TotalOfOne
    <2>2. Pixels(i) < Wrap => n = Pixels(i)
      BY <1>4, <1>5 DEF Summed
    <2>3. QED
      BY <1>2, <1>4, <2>1, <2>2
  <1>6. CASE Used # {i}
    <2>1. PICK j \in Used : j # i
      BY <1>4, <1>6
    <2>2. j \in Slots /\ Pixels(j) \in Nat
      BY <1>1, <2>1
    <2>3. Used = {i, j}
      <3>1. SUFFICES ASSUME NEW k \in Used, k # i, k # j PROVE FALSE
        BY <1>4, <2>1
      <3> DEFINE U == Used
      <3>2. U \ {i} \subseteq U /\ IsFiniteSet(U) /\ IsFiniteSet(U \ {i}) /\ IsFiniteSet((U \ {i}) \ {j})
        BY <1>1, FS_Subset
      <3>3. /\ Cardinality(U \ {i}) = Cardinality(U) - 1
            /\ Cardinality((U \ {i}) \ {j}) = Cardinality(U \ {i}) - 1
            /\ Cardinality(((U \ {i}) \ {j}) \ {k}) = Cardinality((U \ {i}) \ {j}) - 1
        BY <1>4, <2>1, <3>1, <3>2, FS_RemoveElement
      <3>4. IsFiniteSet(((U \ {i}) \ {j}) \ {k}) /\ Cardinality(((U \ {i}) \ {j}) \ {k}) \in Nat
        BY <3>2, FS_Subset, FS_CardinalityType
      <3>5. Cardinality(U) \in Nat /\ Cardinality(U) <= 2
        BY <1>1
      <3> HIDE DEF U
      <3>6. QED
        BY <3>3, <3>4, <3>5
    <2>4. TotalPixels = Pixels(i) + Pixels(j)
      BY <1>4, <2>1, <2>2, <2>3, TotalOfTwo
    <2>5. Pixels(i) + Pixels(j) < Wrap => n = Pixels(i) + Pixels(j)
      BY <1>4, <2>1, <2>3 DEF Summed
    <2>6. QED
      BY <1>2, <1>4, <2>2, <2>4, <2>5
  <1>7. QED
    BY <1>5, <1>6

\* What AdjustSet does to the clock after the pass a, when clk_set_rate works.
RateSetFrom(a) ==
    IF a.formats = {} THEN ve_rate' = ve_rate
    ELSE IF a.enc > 0 \/ a.dec > 2 \/ Cardinality(a.formats) > 1
    THEN SetupVeFreq(user_setting_ve_freq, TRUE)
    ELSE IF Matching(a) = {} THEN ve_rate' = ve_rate
    ELSE LET freq == (CHOOSE r \in Matching(a) : TRUE).freq
         IN  SetupVeFreq(IF freq = MaxFreq THEN user_setting_ve_freq ELSE freq, TRUE)

LEMMA RateChosen ==
    ASSUME LoadTypes, \A i \in Used : load_infos[i].param.format # "zero",
           NEW a \in PassType, PassFor(a), a.slot = NSlots + 1, RateSetFrom(a),
           UNCHANGED <<load_infos, user_setting_ve_freq>>
    PROVE  RateExplained'
  <1>1. /\ a.formats = FormatsUsed /\ a.dec + a.enc = Cardinality(Used)
        /\ (a.enc = 0 <=> FormatsUsed \subseteq Decoders) /\ Summed(a.total, Used)
    BY BelowAll DEF PassFor
  <1>2. a.dec \in Nat /\ a.enc \in Nat /\ a.total \in Nat
    BY DEF PassType
  <1>3. Used' = Used /\ FormatsUsed' = FormatsUsed /\ TotalPixels' = TotalPixels
    BY TotalSame DEF Used, FormatsUsed
  <1>4. SetupVeFreq(user_setting_ve_freq, TRUE) => UserRate'
    BY DEF SetupVeFreq, UserRate
  <1>5. /\ Cardinality(Used) \in Nat /\ IsFiniteSet(FormatsUsed) /\ Cardinality(FormatsUsed) \in Nat
    BY BelowFinite
  <1> DEFINE One == FormatsUsed \subseteq Decoders /\ Cardinality(FormatsUsed) = 1 /\ Cardinality(Used) <= 2
             Hit(r) == /\ FormatsUsed = {r.format} /\ r.from <= TotalPixels /\ TotalPixels <= r.to
                       /\ IF r.freq = MaxFreq THEN UserRate' ELSE ve_rate' = r.freq
  <1>6. SUFFICES ASSUME Used # {}
                 PROVE  IF One THEN TotalPixels > EndMax \/ \E r \in decoder_perform : Hit(r) ELSE UserRate'
    BY <1>3 DEF RateExplained
  <1>7. FormatsUsed # {}
    BY <1>6 DEF FormatsUsed
  <1>8. CASE ~One
    <2>1. Cardinality(FormatsUsed) # 0
      BY <1>5, <1>7, FS_EmptySet
    <2>2. a.enc > 0 \/ a.dec > 2 \/ Cardinality(FormatsUsed) > 1
      BY <1>1, <1>2, <1>5, <1>8, <2>1
    <2>3. SetupVeFreq(user_setting_ve_freq, TRUE)
      BY <1>1, <1>7, <2>2 DEF RateSetFrom
    <2>4. QED
      BY <1>4, <1>8, <2>3
  <1>9. CASE One /\ TotalPixels <= EndMax
    <2>1. a.enc = 0 /\ a.dec <= 2 /\ Cardinality(FormatsUsed) = 1
      BY <1>1, <1>2, <1>5, <1>9
    <2>2. PICK fm : FormatsUsed = {fm}
      BY <1>5, <2>1, FS_Singleton
    <2>3. fm \in {"H264", "H265", "VP9", "OTHER"}
      <3>1. fm \in Decoders
        BY <1>9, <2>2
      <3>2. fm # "zero"
        BY <2>2 DEF FormatsUsed
      <3>3. QED
        BY <3>1, <3>2 DEF Decoders
    <2>4. TotalPixels \in Nat /\ a.total = TotalPixels
      BY <1>1, <1>2, <1>6, <1>9, SumIsTotal
    <2>5. PICK q \in decoder_perform : q.format = fm /\ q.from <= TotalPixels /\ TotalPixels <= q.to
      BY <1>9, <2>3, <2>4, RowsCover
    <2> DEFINE r == CHOOSE x \in Matching(a) : TRUE
    <2>6. q \in Matching(a)
      BY <1>1, <2>2, <2>4, <2>5, RowsTyped DEF Matching
    <2>7. r \in Matching(a)
      BY <2>6
    <2>8. RateSetFrom(a) <=> SetupVeFreq(IF r.freq = MaxFreq THEN user_setting_ve_freq ELSE r.freq, TRUE)
      <3>1. Matching(a) # {} /\ a.formats # {} /\ ~(a.enc > 0 \/ a.dec > 2 \/ Cardinality(a.formats) > 1)
        BY <1>1, <1>2, <1>7, <2>1, <2>6
      <3>2. QED
        BY <3>1 DEF RateSetFrom
    <2> HIDE DEF r
    <2>9. /\ r \in decoder_perform /\ FormatsUsed = {r.format} /\ r.from <= TotalPixels /\ TotalPixels <= r.to
      BY <1>1, <2>2, <2>4, <2>7, RowsTyped DEF Matching
    <2>10. CASE r.freq = MaxFreq
      BY <1>4, <2>8, <2>9, <2>10, <1>9
    <2>11. CASE r.freq # MaxFreq
      <3>1. r.freq \in InWater
        BY <2>9, RowsTyped DEF InWater
      <3>2. ve_rate' = r.freq
        BY <2>8, <2>11, <3>1 DEF SetupVeFreq
      <3>3. QED
        BY <1>9, <2>9, <2>11, <3>2
    <2>12. QED
      BY <2>10, <2>11
  <1>10. CASE One /\ ~(TotalPixels <= EndMax)
    <2>1. TotalPixels \in Nat /\ EndMax \in Nat
      BY <1>1, <1>2, <1>6, <1>10, SumIsTotal, LoadFacts
    <2>2. QED
      BY <1>10, <2>1
  <1>11. QED
    BY <1>8, <1>9, <1>10

LEMMA PassOf ==
    ASSUME NEW a \in AdjStates, a # Idle
    PROVE  /\ a.at \in {"look", "fix", "sum"} => a \in PassType
           /\ a.at \in {"get", "store"} => a \in [at : {"get", "store"}, file : Files, ret : Int]
  BY DEF AdjStates, PassType, Idle

LEMMA IdleNoPass == Idle \notin PassType /\ Idle \in AdjStates
                    /\ \A f \in Files, r \in Int, p \in {"get", "store"} :
                          /\ [at |-> p, file |-> f, ret |-> r] \in AdjStates
                          /\ [at |-> p, file |-> f, ret |-> r] \notin PassType
                          /\ [at |-> p, file |-> f, ret |-> r] # Idle
  <1>1. Idle.at = "idle" /\ \A a \in PassType : a.at # "idle" /\ a.at # "get" /\ a.at # "store"
    BY DEF PassType, Idle
  <1>2. ASSUME NEW f \in Files, NEW r \in Int, NEW p \in {"get", "store"}
        PROVE  LET g == [at |-> p, file |-> f, ret |-> r]
               IN  g \in AdjStates /\ g \notin PassType /\ g # Idle
    <2> DEFINE g == [at |-> p, file |-> f, ret |-> r]
    <2>1. g.at = p
      OBVIOUS
    <2>2. g \in AdjStates
      BY DEF AdjStates
    <2> HIDE DEF g
    <2>3. g \notin PassType /\ g # Idle
      BY <1>1, <2>1
    <2>4. QED
      BY <2>2, <2>3 DEF g
  <1>3. Idle \notin PassType /\ Idle \in AdjStates
    BY <1>1 DEF AdjStates
  <1>4. QED
    BY <1>2, <1>3

\* A thread that goes on with its own pass.
LEMMA PassGoesOn ==
    ASSUME AloneOK, adj \in [Threads -> AdjStates], NEW t \in Threads, adj[t] # Idle,
           NEW b \in PassType, adj' = [adj EXCEPT ![t] = b], alone' = alone,
           t \in alone => PassFor(b)'
    PROVE  AloneOK' /\ adj' \in [Threads -> AdjStates]
  <1>1. adj' \in [Threads -> AdjStates]
    BY DEF AdjStates
  <1>2. \A u \in alone : u = t
    BY DEF AloneOK
  <1>3. adj'[t] = b /\ \A u \in Threads \ {t} : adj'[u] = adj[u]
    OBVIOUS
  <1>4. \A u \in alone' : u \in Threads /\ \A v \in Threads \ {u} : adj'[v] = Idle
    BY <1>2, <1>3 DEF AloneOK
  <1>5. \A u \in alone' : \A a \in PassType : adj'[u] = a => PassFor(a)'
    BY <1>2, <1>3
  <1>6. QED
    BY <1>1, <1>4, <1>5 DEF AloneOK

\* A thread that enters, or leaves, a call that changes what the rate should be.
LEMMA CallDisturbs ==
    ASSUME adj \in [Threads -> AdjStates], NEW t \in Threads, NEW b \in AdjStates,
           adj' = [adj EXCEPT ![t] = b], Disturb(t), b \in PassType => PassFor(b)'
    PROVE  AloneOK' /\ adj' \in [Threads -> AdjStates] /\ ~fresh'
  <1>1. adj' \in [Threads -> AdjStates] /\ adj'[t] = b /\ \A u \in Threads \ {t} : adj'[u] = adj[u]
    OBVIOUS
  <1>2. \A u \in alone' : u = t /\ \A v \in Threads \ {t} : adj[v] = Idle
    BY DEF Disturb
  <1>3. \A u \in alone' : u \in Threads /\ \A v \in Threads \ {u} : adj'[v] = Idle
    BY <1>1, <1>2
  <1>4. \A u \in alone' : \A a \in PassType : adj'[u] = a => PassFor(a)'
    BY <1>1, <1>2
  <1>5. QED
    BY <1>1, <1>3, <1>4 DEF AloneOK, Disturb

LEMMA RateStart == LoadInit => RateInv
  <1> SUFFICES ASSUME LoadInit PROVE RateInv
    OBVIOUS
  <1>1. LoadInv
    BY LoadStart
  <1>2. adj \in [Threads -> AdjStates] /\ ve_rate \in Int
    BY LoadFacts, IdleNoPass DEF LoadInit
  <1>3. \A i \in Used : load_infos[i].param.format # "zero"
    BY EmptyTypes DEF LoadInit, Used
  <1>4. AloneOK /\ ~fresh
    BY DEF LoadInit, AloneOK
  <1>5. QED
    BY <1>1, <1>2, <1>3, <1>4 DEF RateInv, RateExplained

LEMMA RateStaysTyped ==
    ASSUME ve_rate \in Int, NEW mhz, NEW ok, SetupVeFreq(mhz, ok)
    PROVE  ve_rate' \in Int
  <1>1. InWater \subseteq Int
    BY DEF InWater
  <1>2. QED
    BY <1>1 DEF SetupVeFreq

LEMMA RateStep == ASSUME KnownFormats PROVE RateInv /\ [LoadNext]_loadVars => RateInv'
  <1> SUFFICES ASSUME RateInv, [LoadNext]_loadVars PROVE RateInv'
    OBVIOUS
  <1> DEFINE NoZero == \A i \in Used : load_infos[i].param.format # "zero"
             FreshIdle == fresh => \A u \in Threads : adj[u] = Idle
  <1>1. LoadInv /\ LoadInv' /\ LoadTypes
    BY LoadStep DEF RateInv, LoadInv
  <1>2. adj \in [Threads -> AdjStates] /\ ve_rate \in Int /\ NoZero /\ AloneOK /\ FreshIdle /\ RateExplained
    BY DEF RateInv
  <1>3. adj' \in [Threads -> AdjStates] /\ ve_rate' \in Int /\ NoZero' /\ AloneOK' /\ FreshIdle' /\ RateExplained'
        => RateInv'
    BY <1>1 DEF RateInv
  <1>4. UNCHANGED load_infos => NoZero'
    BY <1>2 DEF Used
  <1>5. ~fresh' => FreshIdle' /\ RateExplained'
    BY DEF RateExplained
  <1>6. ASSUME UNCHANGED <<load_infos, adj, alone, fresh, ve_rate, user_setting_ve_freq>>
        PROVE  AloneOK' /\ FreshIdle' /\ RateExplained' /\ adj' \in [Threads -> AdjStates] /\ ve_rate' \in Int
    <2>1. AloneOK'
      <3>1. \A a \in PassType : PassFor(a) => PassFor(a)'
        BY <1>6, PassSame
      <3>2. QED
        BY <1>2, <1>6, <3>1 DEF AloneOK
    <2>2. RateExplained'
      <3>1. Used' = Used /\ FormatsUsed' = FormatsUsed /\ TotalPixels' = TotalPixels /\ (UserRate' <=> UserRate)
        BY <1>6, TotalSame DEF Used, FormatsUsed, UserRate
      <3>2. QED
        BY <1>2, <1>6, <3>1 DEF RateExplained
    <2>3. QED
      BY <1>2, <1>6, <2>1, <2>2
  <1> HIDE DEF NoZero, FreshIdle
  <1>7. ASSUME NEW t \in Threads, adj[t] # Idle PROVE ~fresh
    BY <1>2, <1>7 DEF FreshIdle
  <1>8. CASE UNCHANGED loadVars
    <2>1. UNCHANGED <<load_infos, adj, alone, fresh, ve_rate, user_setting_ve_freq>>
      BY <1>8 DEF loadVars
    <2>2. QED
      BY <1>3, <1>4, <1>6, <2>1
  <1>9. ASSUME NEW f \in Files, LoadOpen(f) PROVE RateInv'
    <2>1. UNCHANGED <<load_infos, adj, alone, fresh, ve_rate, user_setting_ve_freq>>
      BY <1>9 DEF LoadOpen
    <2>2. QED
      BY <1>3, <1>4, <1>6, <2>1
  <1>10. ASSUME NEW f \in Files, LoadRelease(f) PROVE RateInv'
    <2>1. alone' = {} /\ ~fresh' /\ adj' = adj /\ ve_rate' = ve_rate /\ RemoveCaseLoad(channel[f])
      BY <1>10 DEF LoadRelease
    <2>2. NoZero'
      <3>1. CASE SlotsOf(channel[f]) = {}
        BY <1>4, <2>1, <3>1 DEF RemoveCaseLoad
      <3>2. CASE SlotsOf(channel[f]) # {}
        <4> DEFINE i == Min(SlotsOf(channel[f]))
        <4>1. load_infos' = [load_infos EXCEPT ![i] = Empty]
          BY <2>1, <3>2 DEF RemoveCaseLoad
        <4>2. i \in Slots
          BY <3>2, SlotsOfShape
        <4> HIDE DEF i
        <4>3. load_infos \in [Slots -> LoadEntry]
          BY <1>1 DEF LoadTypes
        <4>4. load_infos'[i] = Empty /\ \A j \in Slots \ {i} : load_infos'[j] = load_infos[j]
          BY <4>1, <4>2, <4>3
        <4>5. QED
          BY <1>2, <4>4, EmptyTypes DEF NoZero, Used
      <3>3. QED
        BY <3>1, <3>2
    <2>3. AloneOK'
      BY <2>1 DEF AloneOK
    <2>4. QED
      BY <1>2, <1>3, <1>5, <2>1, <2>2, <2>3
  <1>11. ASSUME NEW t \in Threads, NEW f \in Files, NEW c \in Channels, NEW p \in Params, NEW remove \in BOOLEAN,
                UpdateCaseLoad(t, f, c, p, remove)
         PROVE  RateInv'
    <2> DEFINE b == [at |-> "look", file |-> f, slot |-> 1,
                     total |-> 0, formats |-> {}, dec |-> 0, enc |-> 0]
               i == Match(channel[f], c)
               new == IF remove THEN Empty ELSE [is_used |-> TRUE, id |-> channel[f], thread |-> c, param |-> p]
    <2>1. adj' = [adj EXCEPT ![t] = b] /\ Disturb(t) /\ ve_rate' = ve_rate
      BY <1>11 DEF UpdateCaseLoad, StartAdjust
    <2>2. load_infos' = IF i = 0 THEN load_infos ELSE [load_infos EXCEPT ![i] = new]
      BY <1>11 DEF UpdateCaseLoad
    <2>3. b \in PassType
      BY DEF PassType
    <2>4. PassFor(b)'
      <3>1. (\A a \in PassType : StartsPass(a) => PassFor(a))'
        BY PassStart, PTL
      <3>2. StartsPass(b)
        BY DEF StartsPass
      <3>3. QED
        BY <2>3, <3>1, <3>2
    <2>5. NoZero'
      <3>1. CASE i = 0
        BY <1>4, <2>2, <3>1
      <3>2. CASE i # 0
        <4>1. i \in Slots
          BY <3>2, MatchFinds
        <4>2. load_infos \in [Slots -> LoadEntry]
          BY <1>1 DEF LoadTypes
        <4>3. new.is_used => new.param.format # "zero"
          BY EmptyTypes DEF KnownFormats
        <4> HIDE DEF i, new
        <4>4. load_infos'[i] = new /\ \A j \in Slots \ {i} : load_infos'[j] = load_infos[j]
          BY <2>2, <3>2, <4>1, <4>2
        <4>5. QED
          BY <1>2, <4>3, <4>4 DEF NoZero, Used
      <3>3. QED
        BY <3>1, <3>2
    <2> HIDE DEF b
    <2>6. AloneOK' /\ adj' \in [Threads -> AdjStates] /\ ~fresh'
      <3>1. b \in AdjStates
        BY <2>3 DEF AdjStates
      <3>2. QED
        BY <1>2, <2>1, <2>4, <3>1, CallDisturbs
    <2>7. QED
      BY <1>2, <1>3, <1>5, <2>1, <2>5, <2>6
  <1>12. ASSUME NEW t \in Threads, NEW f \in Files, NEW mhz \in Freqs, NEW ok \in BOOLEAN, SetFreqRate(t, f, mhz, ok)
         PROVE  RateInv'
    <2> DEFINE b == [at |-> "get", file |-> f, ret |-> 0]
    <2>1. adj' = [adj EXCEPT ![t] = b] /\ Disturb(t) /\ SetupVeFreq(mhz, ok) /\ UNCHANGED load_infos
      BY <1>12 DEF SetFreqRate
    <2>2. b \in AdjStates /\ b \notin PassType
      <3>1. 0 \in Int /\ "get" \in {"get", "store"}
        OBVIOUS
      <3>2. QED
        BY <3>1, IdleNoPass, Zenon
    <2> HIDE DEF b
    <2>3. AloneOK' /\ adj' \in [Threads -> AdjStates] /\ ~fresh'
      BY <1>2, <2>1, <2>2, CallDisturbs
    <2>4. ve_rate' \in Int
      BY <1>2, <2>1, RateStaysTyped
    <2>5. QED
      BY <1>3, <1>4, <1>5, <2>1, <2>3, <2>4
  <1>13. ASSUME NEW t \in Threads, AdjustLook(t) PROVE RateInv'
    <2> DEFINE info == load_infos[adj[t].slot]
    <2>1. PICK a \in PassType : adj[t] = a /\ a # Idle /\ a.at = "look" /\ a.slot \in Slots
      BY <1>2, <1>13, PassOf DEF AdjustLook, AtSlot
    <2> DEFINE b0 == IF ~info.is_used THEN [a EXCEPT !.slot = a.slot + 1]
                    ELSE [a EXCEPT !.at = IF info.param.frame_rate <= 0 THEN "fix" ELSE "sum"]
    <2>2. adj' = [adj EXCEPT ![t] = b0] /\ UNCHANGED <<load_infos, ve_rate, alone, fresh>>
      BY <1>13, <2>1 DEF AdjustLook, AtSlot, Goto
    <2>3. PICK b \in PassType :
             /\ b = b0 /\ b.total = a.total /\ b.formats = a.formats /\ b.dec = a.dec /\ b.enc = a.enc
             /\ IF ~load_infos[a.slot].is_used THEN b.at = "look" /\ b.slot = a.slot + 1
                ELSE /\ b.slot = a.slot
                     /\ b.at = IF load_infos[a.slot].param.frame_rate <= 0 THEN "fix" ELSE "sum"
      <3>1. CASE ~info.is_used
        <4>1. b0 = [a EXCEPT !.slot = a.slot + 1] /\ a.slot + 1 \in Nat
          BY <2>1, <3>1 DEF PassType
        <4>2. /\ b0 \in PassType /\ b0.total = a.total /\ b0.formats = a.formats /\ b0.dec = a.dec
              /\ b0.enc = a.enc /\ b0.at = "look" /\ b0.slot = a.slot + 1
          BY <2>1, <4>1 DEF PassType
        <4> HIDE DEF b0
        <4>3. QED
          BY <2>1, <3>1, <4>2
      <3>2. CASE info.is_used
        <4> DEFINE w == IF info.param.frame_rate <= 0 THEN "fix" ELSE "sum"
        <4>1. b0 = [a EXCEPT !.at = w] /\ w \in {"fix", "sum"}
          BY <3>2
        <4> HIDE DEF w
        <4>2. /\ b0 \in PassType /\ b0.total = a.total /\ b0.formats = a.formats /\ b0.dec = a.dec
              /\ b0.enc = a.enc /\ b0.at = w /\ b0.slot = a.slot
          BY <2>1, <4>1 DEF PassType
        <4> HIDE DEF b0
        <4>3. QED
          BY <2>1, <3>2, <4>2 DEF w
      <3>3. QED
        BY <3>1, <3>2
    <2> HIDE DEF b0
    <2>4. t \in alone => PassFor(b)'
      <3>1. t \in alone => PassFor(a)
        BY <1>2, <2>1 DEF AloneOK
      <3>2. t \in alone => PassFor(b)
        BY <1>1, <2>1, <2>3, <3>1, PassLook
      <3>3. QED
        BY <2>2, <3>2, PassSame
    <2>5. AloneOK' /\ adj' \in [Threads -> AdjStates]
      BY <1>2, <2>1, <2>2, <2>3, <2>4, PassGoesOn
    <2>6. ~fresh'
      BY <1>7, <2>1, <2>2
    <2>7. QED
      BY <1>2, <1>3, <1>4, <1>5, <2>2, <2>5, <2>6
  <1>14. ASSUME NEW t \in Threads, AdjustFix(t) PROVE RateInv'
    <2>1. PICK a \in PassType : adj[t] = a /\ a # Idle /\ a.at = "fix" /\ a.slot \in Slots
      BY <1>2, <1>14, PassOf DEF AdjustFix, AtSlot
    <2>2. /\ adj' = [adj EXCEPT ![t] = [a EXCEPT !.at = "sum"]]
          /\ load_infos' = [load_infos EXCEPT ![a.slot].param.frame_rate = 60]
          /\ UNCHANGED <<ve_rate, alone, fresh>>
      BY <1>14, <2>1 DEF AdjustFix, AtSlot, Goto
    <2>3. PICK b \in PassType : /\ b = [a EXCEPT !.at = "sum"] /\ b.at = "sum" /\ b.slot = a.slot
                                /\ b.total = a.total /\ b.formats = a.formats /\ b.dec = a.dec /\ b.enc = a.enc
      <3> DEFINE b0 == [a EXCEPT !.at = "sum"]
      <3>1. /\ b0 \in PassType /\ b0.at = "sum" /\ b0.slot = a.slot
            /\ b0.total = a.total /\ b0.formats = a.formats /\ b0.dec = a.dec /\ b0.enc = a.enc
        BY <2>1 DEF PassType
      <3> HIDE DEF b0
      <3>2. QED
        BY <3>1 DEF b0
    <2>4. t \in alone => PassFor(b)'
      <3>1. t \in alone => PassFor(a)
        BY <1>2, <2>1 DEF AloneOK
      <3>2. QED
        BY <1>1, <2>1, <2>2, <2>3, <3>1, PassFix
    <2>5. AloneOK' /\ adj' \in [Threads -> AdjStates]
      <3>1. adj' = [adj EXCEPT ![t] = b] /\ alone' = alone
        BY <2>2, <2>3
      <3>2. QED
        BY <1>2, <2>1, <2>4, <3>1, PassGoesOn
    <2>6. ~fresh'
      BY <1>7, <2>1, <2>2
    <2>7. NoZero'
      <3> DEFINE k == a.slot
      <3>1. load_infos \in [Slots -> LoadEntry] /\ load_infos[k] \in LoadEntry /\ load_infos[k].param \in ParamType
        BY <1>1, <2>1 DEF LoadTypes, LoadEntry
      <3> DEFINE par == [load_infos[k].param EXCEPT !.frame_rate = 60]
                 new == [load_infos[k] EXCEPT !.param = par]
      <3>2. load_infos' = [load_infos EXCEPT ![k] = new]
        BY <2>2
      <3>3. par.format = load_infos[k].param.format
        BY <3>1 DEF ParamType
      <3> HIDE DEF par
      <3>4. new.param = par /\ new.is_used = load_infos[k].is_used
        BY <3>1 DEF LoadEntry
      <3> HIDE DEF new
      <3>5. load_infos'[k] = new /\ \A j \in Slots \ {k} : load_infos'[j] = load_infos[j]
        BY <2>1, <3>1, <3>2
      <3>6. \A j \in Slots : /\ load_infos'[j].is_used = load_infos[j].is_used
                             /\ load_infos'[j].param.format = load_infos[j].param.format
        BY <3>3, <3>4, <3>5
      <3>7. QED
        BY <1>2, <3>6 DEF NoZero, Used
    <2>8. QED
      BY <1>2, <1>3, <1>5, <2>2, <2>5, <2>6, <2>7
  <1>15. ASSUME NEW t \in Threads, AdjustSum(t) PROVE RateInv'
    <2>1. PICK a \in PassType : adj[t] = a /\ a # Idle /\ a.at = "sum" /\ a.slot \in Slots
      BY <1>2, <1>15, PassOf DEF AdjustSum, AtSlot
    <2> DEFINE p == load_infos[a.slot].param
               d == IF p.format \in Decoders THEN 1 ELSE 0
               n == (a.total + p.size * p.frame_rate) % Wrap
               b0 == [a EXCEPT !.at = "look", !.slot = a.slot + 1, !.total = n,
                               !.formats = a.formats \cup {p.format},
                               !.dec = a.dec + d, !.enc = a.enc + 1 - d]
    <2>2. UNCHANGED <<load_infos, ve_rate, alone, fresh>>
      BY <1>15 DEF AdjustSum
    <2>3. adj' = [adj EXCEPT ![t] = b0]
      BY <1>15, <2>1, Zenon DEF AdjustSum
    <2>4. p.format \in FormatSet /\ p.size \in Nat /\ p.frame_rate \in Nat
      BY <1>1, <2>1, EntryTypes
    <2>5. /\ n \in Nat /\ a.dec + d \in Nat /\ a.enc + 1 - d \in Nat
          /\ a.slot + 1 \in Nat /\ a.formats \cup {p.format} \in SUBSET FormatSet
      <3>1. a.total \in Nat /\ a.dec \in Nat /\ a.enc \in Nat /\ a.slot \in Nat /\ a.formats \in SUBSET FormatSet
        BY <2>1 DEF PassType
      <3>2. Wrap \in Nat /\ Wrap > 0
        BY LoadFacts
      <3> DEFINE px == p.size * p.frame_rate
      <3>3. px \in Nat
        BY <2>4
      <3>4. d \in {0, 1}
        OBVIOUS
      <3> HIDE DEF px, d
      <3>5. (a.total + px) % Wrap \in Nat
        BY <3>1, <3>2, <3>3
      <3>6. a.dec + d \in Nat /\ a.enc + 1 - d \in Nat
        BY <3>1, <3>4
      <3>7. QED
        BY <2>4, <3>1, <3>5, <3>6 DEF px
    <2> HIDE DEF n, d, p
    <2>6. PICK b \in PassType :
             /\ b = b0 /\ b.at = "look" /\ b.slot = a.slot + 1 /\ b.total = n
             /\ b.formats = a.formats \cup {p.format} /\ b.dec = a.dec + d /\ b.enc = a.enc + 1 - d
      <3>1. /\ b0 \in PassType /\ b0.at = "look" /\ b0.slot = a.slot + 1 /\ b0.total = n
            /\ b0.formats = a.formats \cup {p.format} /\ b0.dec = a.dec + d /\ b0.enc = a.enc + 1 - d
        BY <2>1, <2>5 DEF PassType
      <3> HIDE DEF b0
      <3>2. QED
        BY <3>1
    <2> HIDE DEF b0
    <2>7. t \in alone => PassFor(b)'
      <3>1. t \in alone => PassFor(a)
        BY <1>2, <2>1 DEF AloneOK
      <3>2. t \in alone => PassFor(b)
        BY <1>1, <2>1, <2>6, <3>1, PassSum DEF n, d, p
      <3>3. QED
        BY <2>2, <3>2, PassSame
    <2>8. AloneOK' /\ adj' \in [Threads -> AdjStates]
      BY <1>2, <2>1, <2>2, <2>3, <2>6, <2>7, PassGoesOn
    <2>9. ~fresh'
      BY <1>7, <2>1, <2>2
    <2>10. QED
      BY <1>2, <1>3, <1>4, <1>5, <2>2, <2>8, <2>9
  <1>16. ASSUME NEW t \in Threads, NEW ok \in BOOLEAN, AdjustSet(t, ok) PROVE RateInv'
    <2> DEFINE a == adj[t]
    <2>1. /\ a # Idle /\ a.at = "look" /\ a.slot = NSlots + 1 /\ adj' = [adj EXCEPT ![t] = Idle]
          /\ alone' = {} /\ fresh' = (ok /\ t \in alone)
          /\ UNCHANGED <<load_infos, user_setting_ve_freq>>
      BY <1>16 DEF AdjustSet, UnchangedByAdjust
    <2>2. a \in PassType
      BY <1>2, <2>1, PassOf
    <2>3. ve_rate' = ve_rate \/ \E mhz : SetupVeFreq(mhz, ok)
      BY <1>16 DEF AdjustSet
    <2>4. ve_rate' \in Int
      BY <1>2, <2>3, RateStaysTyped
    <2>5. adj' \in [Threads -> AdjStates] /\ AloneOK'
      BY <1>2, <2>1, IdleNoPass DEF AloneOK
    <2>6. CASE ~fresh'
      BY <1>3, <1>4, <1>5, <2>1, <2>4, <2>5, <2>6
    <2>7. CASE fresh'
      <3>1. ok = TRUE /\ t \in alone
        BY <2>1, <2>7
      <3>2. PassFor(a)
        BY <1>2, <2>2, <3>1 DEF AloneOK
      <3>3. RateSetFrom(a)
        BY <1>16, <3>1 DEF AdjustSet, RateSetFrom
      <3>4. FreshIdle'
        BY <1>2, <2>1, <3>1 DEF AloneOK, FreshIdle
      <3> HIDE DEF a
      <3>5. RateExplained'
        BY <1>1, <1>2, <2>1, <2>2, <3>2, <3>3, RateChosen DEF NoZero
      <3>6. QED
        BY <1>3, <1>4, <2>1, <2>4, <2>5, <3>4, <3>5
    <2>8. QED
      BY <2>6, <2>7
  <1>17. ASSUME NEW t \in Threads, SetFreqGet(t) PROVE RateInv'
    <2> DEFINE a == adj[t]
               b == [a EXCEPT !.at = "store", !.ret = ve_rate]
    <2>1. /\ a # Idle /\ a.at = "get" /\ adj' = [adj EXCEPT ![t] = b]
          /\ UNCHANGED <<load_infos, ve_rate, alone, fresh>>
      BY <1>17 DEF SetFreqGet
    <2>2. a \in [at : {"get", "store"}, file : Files, ret : Int]
      BY <1>2, <2>1, PassOf
    <2> HIDE DEF a
    <2>3. b \in [at : {"get", "store"}, file : Files, ret : Int] /\ b.at = "store"
      BY <1>2, <2>2
    <2> HIDE DEF b
    <2>4. b \in AdjStates /\ b \notin PassType
      BY <2>3 DEF AdjStates, PassType
    <2> USE DEF a
    <2>5. adj' \in [Threads -> AdjStates] /\ adj'[t] = b /\ \A u \in Threads \ {t} : adj'[u] = adj[u]
      BY <1>2, <2>1, <2>4
    <2>6. AloneOK'
      <3>1. \A u \in alone' : u = t
        BY <1>2, <2>1 DEF AloneOK
      <3>2. \A u \in alone' : u \in Threads /\ \A v \in Threads \ {u} : adj'[v] = Idle
        BY <1>2, <2>1, <2>5, <3>1 DEF AloneOK
      <3>3. \A u \in alone' : \A x \in PassType : adj'[u] = x => PassFor(x)'
        BY <2>4, <2>5, <3>1
      <3>4. QED
        BY <3>2, <3>3 DEF AloneOK
    <2>7. ~fresh'
      BY <1>7, <2>1
    <2>8. QED
      BY <1>2, <1>3, <1>4, <1>5, <2>1, <2>5, <2>6, <2>7
  <1>18. ASSUME NEW t \in Threads, SetFreqStore(t) PROVE RateInv'
    <2>1. adj' = [adj EXCEPT ![t] = Idle] /\ Disturb(t) /\ UNCHANGED <<load_infos, ve_rate>>
      BY <1>18 DEF SetFreqStore
    <2>2. AloneOK' /\ adj' \in [Threads -> AdjStates] /\ ~fresh'
      BY <1>2, <2>1, IdleNoPass, CallDisturbs
    <2>3. QED
      BY <1>2, <1>3, <1>4, <1>5, <2>1, <2>2
  <1>19. QED
    BY <1>3, <1>8, <1>9, <1>10, <1>11, <1>12, <1>13, <1>14, <1>15, <1>16, <1>17, <1>18 DEF LoadNext

(***************************************************************************)
(* The rate after an update of the case load that no other call disturbed: *)
(* adjust_ve_freq_by_case_load has counted the whole table slot by slot,   *)
(* and set the clock to the user's setting for encoders, mixed codecs and  *)
(* crowds, and to the decoder_perform row of the sum otherwise, whatever   *)
(* the number of slots, threads and files.  Announced formats are taken to *)
(* be members of the codec enumeration.                                    *)
(***************************************************************************)
THEOREM RateIsExplained == ASSUME KnownFormats PROVE LoadSpec => []RateExplained
  <1>1. LoadSpec => []RateInv
    <2>1. RateInv /\ [LoadNext]_loadVars => RateInv'
      BY RateStep
    <2>2. QED
      BY <2>1, RateStart, PTL DEF LoadSpec
  <1>2. RateInv => RateExplained
    BY DEF RateInv
  <1>3. QED
    BY <1>1, <1>2, PTL
=============================================================================
