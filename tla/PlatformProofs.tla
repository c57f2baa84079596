--------------------------- MODULE PlatformProofs ---------------------------
(***************************************************************************)
(* Proofs about the machines around the IOMMU and the board: the life of   *)
(* the IOMMU drivers, the fan controller and the first boot.               *)
(***************************************************************************)
EXTENDS IommuPower, FanControl, FirstBoot, WellFoundedInduction, TLAPS

(***************************************************************************)
(* FirstBoot                                                               *)
(***************************************************************************)
\* The root partition has the PARTUUID the kernel looks for, except where the
\* property allows.
SigKept == sig = "image" \/ at = "restore" \/ cut \/ "dd" \in trouble

\* The script starts only on a disk it could boot from, ...
SigAtStart == at \in {"save", "part"} => sig = "image"

\* ... so that what it keeps for the restoring dd is that signature.
SavedIsImage == at \in {"part", "restore"} => saved = "image" \/ "dd" \in trouble

\* What each command leaves when no tool has failed.
Grown ==
    trouble = {} =>
        /\ at \in {"restore", "fs"} => partition = "disk"
        /\ at \in {"locale", "mv"} \/ ~script => rootfs = "disk"
        /\ rootfs = "disk" => partition = "disk"

BootInv == SigKept /\ SigAtStart /\ SavedIsImage /\ Grown

LEMMA BootInvInit == FirstBootInit => BootInv
BY DEF FirstBootInit, BootInv, SigKept, SigAtStart, SavedIsImage, Grown

LEMMA BootInvStep == BootInv /\ [FirstBootNext]_bootVars => BootInv'
<1> SUFFICES ASSUME BootInv, [FirstBootNext]_bootVars PROVE BootInv'
  OBVIOUS
<1> USE DEF BootInv, SigKept, SigAtStart, SavedIsImage, Grown
<1>1. CASE Boot
  BY <1>1 DEF Boot
<1>2. CASE PowerLoss
  BY <1>2 DEF PowerLoss
<1>3. CASE SaveSig
  BY <1>3 DEF SaveSig, Then, Fails
<1>4. CASE Parted
  BY <1>4 DEF Parted, Then, Fails
<1>5. CASE RestoreSig
  BY <1>5 DEF RestoreSig, Then, Fails
<1>6. CASE Resize2fs
  BY <1>6 DEF Resize2fs, Then, Fails
<1>7. CASE Locales
  BY <1>7 DEF Locales, Then
<1>8. CASE PutAway
  BY <1>8 DEF PutAway, Then
<1>9. CASE UNCHANGED bootVars
  BY <1>9 DEF bootVars
<1> QED
  BY <1>1, <1>2, <1>3, <1>4, <1>5, <1>6, <1>7, <1>8, <1>9 DEF FirstBootNext

\* However often power is lost and firstboot.sh starts again, and whichever of
\* its tools fail, the signature that names the root partition is the one of
\* the image unless power was lost between parted and the restoring dd or a dd
\* failed; and put away without a failed tool, it has grown the file system.
THEOREM BoardBootsAgain == FirstBootSpec => []BootsAgain
<1>1. BootInv => BootsAgain
  BY DEF BootInv, SigKept, Grown, BootsAgain
<1> QED
  BY BootInvInit, BootInvStep, <1>1, PTL DEF FirstBootSpec

(***************************************************************************)
(* IommuPower: what is held, and what may be used                          *)
(***************************************************************************)
HeldTypes ==
    /\ held \in [Resources -> Int] /\ clocked \in Int
    /\ suspended \in BOOLEAN /\ oops \in BOOLEAN /\ excuse \in BOOLEAN

\* Only a bound device is suspended, and only a hollow probe needs an excuse.
SuspendedBound == suspended => probe \in {"bound", "hollow"}
HollowExcused == probe = "hollow" => excuse

\* A registered device is there, and its list from the end of probe on.
LiveDevice == probe \in {"registered", "bound"} => dev = "live"
ListReady  == probe = "bound" => resv

\* Without an excuse the core has no master of a device that is gone.
MastersServed ==
    ~excuse /\ probe \notin {"registered", "bound"} => \A m \in Masters : master[m] = "out"

OopsInv ==
    /\ HeldTypes /\ SuspendedBound /\ HollowExcused /\ LiveDevice /\ ListReady
    /\ HeldExact /\ MastersServed /\ OopsExplained

oopsVars == <<probe, dev, held, resv, master, suspended, clocked, oops, excuse>>

\* Every other step leaves what the invariant reads.
LEMMA OopsFrame == OopsInv /\ UNCHANGED oopsVars => OopsInv'
BY DEF OopsInv, oopsVars, HeldTypes, SuspendedBound, HollowExcused, LiveDevice, ListReady,
       HeldExact, MastersServed, OopsExplained

\* HeldExact by cases.
HeldUp   == held["regs"] = 1 /\ held["irq"] = 1 /\ held["iommu"] = 1 /\ held["cache"] >= 1
HeldDown == held["regs"] = 0 /\ held["irq"] = 0 /\ held["iommu"] = 0 /\ held["cache"] >= 0

LEMMA HeldCases ==
    ASSUME HeldTypes
    PROVE  HeldExact <=> (~excuse =>
               /\ probe \in {"registered", "bound"} => HeldUp
               /\ probe \notin {"registered", "bound"} => HeldDown
               /\ suspended => held["clk"] = clocked - 1
               /\ ~suspended => held["clk"] = clocked)
<1>1. clocked \in Int
  BY DEF HeldTypes
<1>2. CASE probe \in {"registered", "bound"} /\ suspended
  BY <1>1, <1>2 DEF HeldExact, HeldUp
<1>3. CASE probe \in {"registered", "bound"} /\ ~suspended
  BY <1>1, <1>3 DEF HeldExact, HeldUp
<1>4. CASE probe \notin {"registered", "bound"} /\ suspended
  BY <1>1, <1>4 DEF HeldExact, HeldDown
<1>5. CASE probe \notin {"registered", "bound"} /\ ~suspended
  BY <1>1, <1>5 DEF HeldExact, HeldDown
<1> QED
  BY <1>2, <1>3, <1>4, <1>5

LEMMA HeldCasesNext ==
    ASSUME HeldTypes'
    PROVE  HeldExact' <=> (~excuse' =>
               /\ probe' \in {"registered", "bound"} => HeldUp'
               /\ probe' \notin {"registered", "bound"} => HeldDown'
               /\ suspended' => held'["clk"] = clocked' - 1
               /\ ~suspended' => held'["clk"] = clocked')
<1>1. clocked' \in Int
  BY DEF HeldTypes
<1>2. CASE probe' \in {"registered", "bound"} /\ suspended'
  BY <1>1, <1>2 DEF HeldExact, HeldUp
<1>3. CASE probe' \in {"registered", "bound"} /\ ~suspended'
  BY <1>1, <1>3 DEF HeldExact, HeldUp
<1>4. CASE probe' \notin {"registered", "bound"} /\ suspended'
  BY <1>1, <1>4 DEF HeldExact, HeldDown
<1>5. CASE probe' \notin {"registered", "bound"} /\ ~suspended'
  BY <1>1, <1>5 DEF HeldExact, HeldDown
<1> QED
  BY <1>2, <1>3, <1>4, <1>5

LEMMA OopsInvInit == PowerInit => OopsInv
<1> SUFFICES ASSUME PowerInit PROVE OopsInv
  OBVIOUS
<1>1. held \in [Resources -> Int] /\ \A r \in Resources : held[r] = 0
  BY DEF PowerInit
<1>2. suspended = FALSE /\ oops = FALSE /\ excuse = FALSE /\ clocked = 0 /\ probe = "none"
  BY DEF PowerInit
<1>3. HeldTypes
  <2>1. clocked \in Int
    BY <1>2
  <2>2. suspended \in BOOLEAN /\ oops \in BOOLEAN /\ excuse \in BOOLEAN
    BY <1>2, Zenon
  <2> QED
    BY <1>1, <2>1, <2>2 DEF HeldTypes
<1>4. HeldDown /\ held["clk"] = 0
  BY <1>1 DEF Resources, HeldDown
<1>5. HeldExact
  BY <1>2, <1>3, <1>4, HeldCases
<1>6. SuspendedBound /\ HollowExcused /\ LiveDevice /\ ListReady /\ MastersServed /\ OopsExplained
  BY DEF PowerInit, SuspendedBound, HollowExcused, LiveDevice, ListReady, MastersServed,
         OopsExplained
<1> QED
  BY <1>3, <1>5, <1>6 DEF OopsInv

\* A call of probe that fails leaves the clock it enabled, and no more of what
\* the labels give back than was there before.
LEMMA ProbeFailsKeeps ==
    ASSUME OopsInv, NEW s, ProbeFails(s)
    PROVE  OopsInv'
<1> USE DEF ProbeFails, ProbeCall
<1>1. /\ Leftover(s) \in [Resources -> 0..1]
      /\ \A r \in {"regs", "irq", "iommu"} : Leftover(s)[r] = 0
      /\ Leftover(s)["clk"] = IF Past(s, "clk") THEN 1 ELSE 0
  BY DEF Leftover, Resources
<1>2. HeldTypes'
  BY <1>1 DEF OopsInv, HeldTypes
<1>3. HeldExact'
  <2>1. ASSUME ~excuse'
        PROVE  HeldDown' /\ held'["clk"] = clocked'
    <3>1. probe = "none" /\ ~excuse /\ ~suspended
      BY <2>1
    <3>2. HeldDown /\ held["clk"] = clocked
      BY <3>1, HeldCases DEF OopsInv
    <3>3. \A r \in Resources : held[r] \in Int /\ held'[r] = held[r] + Leftover(s)[r]
      BY DEF OopsInv, HeldTypes
    <3>4. HeldDown'
      BY <3>2, <3>3, <1>1 DEF Resources, HeldDown
    <3>5. held'["clk"] = clocked'
      BY <3>2, <3>3, <1>1 DEF Resources, OopsInv, HeldTypes
    <3> QED
      BY <3>4, <3>5
  <2>2. ~excuse' => probe' = "none" /\ ~suspended'
    OBVIOUS
  <2> QED
    BY <2>1, <2>2, <1>2, HeldCasesNext
<1>4. SuspendedBound' /\ HollowExcused' /\ LiveDevice' /\ ListReady' /\ MastersServed'
      /\ OopsExplained'
  BY DEF OopsInv, SuspendedBound, HollowExcused, LiveDevice, ListReady, MastersServed,
         OopsExplained
<1> QED
  BY <1>2, <1>3, <1>4 DEF OopsInv

LEMMA ProbeRegistersKeeps ==
    ASSUME OopsInv, ProbeRegisters
    PROVE  OopsInv'
<1> USE DEF ProbeRegisters, ProbeCall
<1>1. HeldTypes'
  BY DEF OopsInv, HeldTypes
<1>2. HeldExact'
  BY <1>1, HeldCases, HeldCasesNext DEF OopsInv, HeldTypes, Resources, HeldUp, HeldDown
<1>3. SuspendedBound' /\ HollowExcused' /\ LiveDevice' /\ ListReady' /\ MastersServed'
      /\ OopsExplained'
  BY DEF OopsInv, SuspendedBound, HollowExcused, LiveDevice, ListReady, MastersServed,
         OopsExplained
<1> QED
  BY <1>1, <1>2, <1>3 DEF OopsInv

LEMMA RemoveKeeps ==
    ASSUME OopsInv, Remove
    PROVE  OopsInv'
<1> USE DEF Remove
<1>1. HeldTypes'
  BY DEF OopsInv, HeldTypes
<1>2. HeldExact'
  BY <1>1, HeldCases, HeldCasesNext
     DEF OopsInv, HeldTypes, Resources, HeldUp, HeldDown, HollowExcused
<1>3. OopsExplained'
  <2> SUFFICES ASSUME ~excuse' PROVE ~oops'
    BY DEF OopsExplained
  <2>1. ~excuse /\ Present = {}
    OBVIOUS
  <2>2. probe = "bound" /\ resv
    BY <2>1 DEF OopsInv, HollowExcused, ListReady
  <2>3. held["cache"] >= 1 /\ held["cache"] \in Int
    BY <2>1, <2>2, HeldCases DEF OopsInv, HeldUp, HeldTypes, Resources
  <2>4. ~(held["cache"] < 1)
    BY <2>3
  <2>5. ~oops
    BY <2>1 DEF OopsInv, OopsExplained
  <2> QED
    BY <2>1, <2>2, <2>4, <2>5
<1>4. SuspendedBound' /\ HollowExcused' /\ LiveDevice' /\ ListReady' /\ MastersServed'
  BY DEF OopsInv, SuspendedBound, HollowExcused, LiveDevice, ListReady, MastersServed
<1> QED
  BY <1>1, <1>2, <1>3, <1>4 DEF OopsInv

\* Suspend and resume move the clock and ask for the device.
LEMMA SleepKeeps ==
    ASSUME OopsInv, Suspend \/ \E outcome \in Outcomes : Resume(outcome)
    PROVE  OopsInv'
<1>1. /\ suspended' = ~suspended /\ oops' = (oops \/ dev # "live")
      /\ held' = [held EXCEPT !["clk"] = IF suspended THEN @ + 1 ELSE @ - 1]
      /\ probe \in {"bound", "hollow"}
      /\ UNCHANGED <<probe, dev, resv, master, clocked, excuse>>
  BY DEF Suspend, Resume, OopsInv, SuspendedBound, HeldTypes
<1>2. HeldTypes'
  BY <1>1 DEF OopsInv, HeldTypes, Resources
<1>3. HeldExact'
  <2>1. /\ \A r \in Resources : r # "clk" => held'[r] = held[r]
        /\ held'["clk"] = IF suspended THEN held["clk"] + 1 ELSE held["clk"] - 1
        /\ held["clk"] \in Int /\ clocked \in Int
    BY <1>1 DEF OopsInv, HeldTypes, Resources
  <2>2. (HeldUp' <=> HeldUp) /\ (HeldDown' <=> HeldDown)
    BY <2>1 DEF Resources, HeldUp, HeldDown
  <2>3. ~excuse /\ suspended => held["clk"] = clocked - 1
    BY HeldCases DEF OopsInv
  <2>4. ~excuse /\ ~suspended => held["clk"] = clocked
    BY HeldCases DEF OopsInv
  <2>5. ~excuse /\ suspended' => held'["clk"] = clocked' - 1
    BY <1>1, <2>1, <2>4
  <2>6. ~excuse /\ ~suspended' => held'["clk"] = clocked'
    <3>1. ~suspended' => suspended
      BY <1>1, Zenon
    <3> QED
      BY <3>1, <1>1, <2>1, <2>3
  <2>7. ~excuse => /\ probe \in {"registered", "bound"} => HeldUp
                   /\ probe \notin {"registered", "bound"} => HeldDown
    BY HeldCases DEF OopsInv
  <2> QED
    BY <1>1, <1>2, <2>2, <2>5, <2>6, <2>7, HeldCasesNext
<1>4. OopsExplained'
  BY <1>1 DEF OopsInv, OopsExplained, HollowExcused, LiveDevice
<1>5. SuspendedBound' /\ HollowExcused' /\ LiveDevice' /\ ListReady' /\ MastersServed'
  BY <1>1 DEF OopsInv, SuspendedBound, HollowExcused, LiveDevice, ListReady, MastersServed
<1> QED
  BY <1>2, <1>3, <1>4, <1>5 DEF OopsInv

\* A master the core has, or is about to take, belongs to a live device whose
\* registers are mapped.
LEMMA ServedByLive ==
    ASSUME OopsInv, ~excuse, Running \/ \E m \in Masters : master[m] # "out"
    PROVE  probe \in {"registered", "bound"} /\ dev = "live" /\ held["regs"] = 1
<1>1. probe \in {"registered", "bound"}
  BY DEF OopsInv, HeldExact, MastersServed, Running
<1> QED
  BY <1>1 DEF OopsInv, HeldExact, LiveDevice

\* The steps of the core with a master, and of the master's driver.
LEMMA MasterKeeps ==
    ASSUME OopsInv, NEW m \in Masters,
           \/ OfXlate(m) \/ DeviceGroup(m) \/ DomainAllocFails(m) \/ ReleaseDevice(m)
           \/ \E outcome \in Outcomes : DomainAlloc(m, outcome)
           \/ \E on \in BOOLEAN : ProbeFinalize(m, on) \/ MasterSwitch(m, on)
    PROVE  OopsInv'
<1>1. /\ UNCHANGED <<probe, dev, held, resv, suspended, clocked>>
      /\ \A n \in Masters : n # m => master'[n] = master[n]
      /\ Running \/ master[m] # "out"
      /\ excuse => excuse'
      /\ oops' \in BOOLEAN /\ excuse' \in BOOLEAN
      /\ oops' => \/ oops \/ dev # "live" \/ held["regs"] < 1
                  \/ ~resv /\ (probe = "registered" => excuse')
  <2>1. CASE OfXlate(m)
    BY <2>1 DEF OfXlate, OopsInv, HeldTypes
  <2>2. CASE DeviceGroup(m)
    BY <2>2 DEF DeviceGroup, OopsInv, HeldTypes
  <2>3. CASE DomainAllocFails(m)
    BY <2>3 DEF DomainAllocFails, OopsInv, HeldTypes
  <2>4. CASE ReleaseDevice(m)
    BY <2>4 DEF ReleaseDevice, EnableDevice, OopsInv, HeldTypes
  <2>5. CASE \E outcome \in Outcomes : DomainAlloc(m, outcome)
    BY <2>5 DEF DomainAlloc, OopsInv, HeldTypes
  <2>6. CASE \E on \in BOOLEAN : ProbeFinalize(m, on)
    <3>1. PICK on \in BOOLEAN : ProbeFinalize(m, on)
      BY <2>6
    <3>2. Running /\ UNCHANGED <<probe, dev, held, resv, suspended, clocked>>
      BY <3>1 DEF ProbeFinalize
    <3>3. CASE resv
      <4>1. EnableDevice(m, on) /\ master' = [master EXCEPT ![m] = "in"] /\ UNCHANGED excuse
        BY <3>1, <3>3 DEF ProbeFinalize
      <4>2. oops' = (oops \/ dev # "live" \/ held["regs"] < 1)
        BY <4>1 DEF EnableDevice
      <4> QED
        BY <3>2, <4>1, <4>2 DEF OopsInv, HeldTypes
    <3>4. CASE ~resv
      <4>1. /\ oops' = TRUE /\ excuse' = (excuse \/ probe = "registered")
            /\ master' = [master EXCEPT ![m] = "dead"]
        BY <3>1, <3>4 DEF ProbeFinalize
      <4>2. /\ oops' \in BOOLEAN /\ excuse' \in BOOLEAN /\ (excuse => excuse')
            /\ probe = "registered" => excuse'
        BY <4>1, Zenon DEF OopsInv, HeldTypes
      <4>3. \A n \in Masters : n # m => master'[n] = master[n]
        BY <4>1
      <4> QED
        BY <3>2, <3>4, <4>2, <4>3
    <3> QED
      BY <3>3, <3>4
  <2>7. CASE \E on \in BOOLEAN : MasterSwitch(m, on)
    BY <2>7 DEF MasterSwitch, EnableDevice, OopsInv, HeldTypes
  <2> QED
    BY <2>1, <2>2, <2>3, <2>4, <2>5, <2>6, <2>7
<1>2. OopsExplained'
  <2> SUFFICES ASSUME ~excuse' PROVE ~oops'
    BY DEF OopsExplained
  <2>1. ~excuse
    BY <1>1
  <2>2. probe \in {"registered", "bound"} /\ dev = "live" /\ held["regs"] = 1
    BY <1>1, <2>1, ServedByLive
  <2>3. ~oops /\ (probe = "bound" => resv)
    BY <2>1 DEF OopsInv, OopsExplained, ListReady
  <2> QED
    BY <1>1, <2>1, <2>2, <2>3
<1>3. MastersServed'
  BY <1>1, ServedByLive DEF OopsInv, MastersServed
<1>4. HeldTypes' /\ SuspendedBound' /\ HollowExcused' /\ LiveDevice' /\ ListReady'
  BY <1>1 DEF OopsInv, HeldTypes, SuspendedBound, HollowExcused, LiveDevice, ListReady
<1>5. HeldExact'
  BY <1>1 DEF OopsInv, HeldExact
<1> QED
  BY <1>2, <1>3, <1>4, <1>5 DEF OopsInv

LEMMA OopsInvStep == OopsInv /\ [PowerNext]_powerVars => OopsInv'
<1> SUFFICES ASSUME OopsInv, [PowerNext]_powerVars PROVE OopsInv'
  OBVIOUS
<1>1. ASSUME NEW s \in Range(Stages), ProbeFails(s) PROVE OopsInv'
  BY <1>1, ProbeFailsKeeps
<1>2. CASE ProbeRegisters
  BY <1>2, ProbeRegistersKeeps
<1>3. CASE ProbeFinishes
  BY <1>3 DEF ProbeFinishes, OopsInv, HeldTypes, SuspendedBound, HollowExcused, LiveDevice,
              ListReady, HeldExact, MastersServed, OopsExplained
<1>4. CASE Remove
  BY <1>4, RemoveKeeps
<1>5. CASE DomainFree
  <2>1. ~excuse => dev = "live" /\ held["regs"] = 1
    BY <1>5, ServedByLive DEF DomainFree
  <2> QED
    BY <1>5, <2>1 DEF DomainFree, OopsInv, HeldTypes, SuspendedBound, HollowExcused, LiveDevice,
                      ListReady, HeldExact, MastersServed, OopsExplained
<1>6. CASE Suspend \/ \E outcome \in Outcomes : Resume(outcome)
  BY <1>6, SleepKeeps
<1>7. ASSUME NEW m \in Masters,
             \/ OfXlate(m) \/ DeviceGroup(m) \/ DomainAllocFails(m) \/ ReleaseDevice(m)
             \/ \E outcome \in Outcomes : DomainAlloc(m, outcome)
             \/ \E on \in BOOLEAN : ProbeFinalize(m, on) \/ MasterSwitch(m, on)
      PROVE OopsInv'
  BY <1>7, MasterKeeps
<1>8. CASE UNCHANGED powerVars
  BY <1>8, OopsFrame DEF powerVars, oopsVars
<1> QED
  BY <1>1, <1>2, <1>3, <1>4, <1>5, <1>6, <1>7, <1>8 DEF PowerNext

\* For any number of masters and probes, failed, repeated or hollow: registers,
\* interrupt and registration are held exactly by a live device, and the clock
\* once per probe that enabled it (sunxi_iommu_probe, its labels, and remove).
THEOREM HoldingIsExact == PowerSpec => []HeldExact
<1>1. OopsInv => HeldExact
  BY DEF OopsInv
<1> QED
  BY OopsInvInit, OopsInvStep, <1>1, PTL DEF PowerSpec

\* Nothing released or not yet there is used, except after a probe that
\* returned 0 on its error path, for a master between the registration and the
\* initialisation of rsv_list, or after a remove under its masters.
THEOREM OopsesAreExplained == PowerSpec => []OopsExplained
<1>1. OopsInv => OopsExplained
  BY DEF OopsInv
<1> QED
  BY OopsInvInit, OopsInvStep, <1>1, PTL DEF PowerSpec

(***************************************************************************)
(* IommuPower: the bypass bits and the translation                         *)
(***************************************************************************)
BypassTypes ==
    /\ bypass \subseteq Masters /\ unset \subseteq Masters
    /\ hw \in [ttb : {"NULL", "live", "freed"}, enabled : BOOLEAN, bypass : SUBSET Masters]
    /\ domain \in {"NULL", "live", "freed"}
    /\ master \in [Masters -> {"out", "owned", "grouped", "attached", "in", "dead"}]

\* A master reaches its driver only through a domain, ...
DomainFirst == \A m \in Masters : master[m] \in {"attached", "in"} => domain # "NULL"

\* ... before which everybody is bypassed and the hardware was never started.
NobodyBefore == domain = "NULL" => bypass = Masters /\ ~flag

\* The bits agree also while a device without a domain is suspended: resume
\* does not write them then.
BitsAgree ==
    ~suspended \/ domain = "NULL" =>
        \A m \in Masters \ unset : m \in hw.bypass <=> m \in bypass

\* Nobody is translated whose bit was not written since probe.
UnsetBypassed == ~suspended => unset \subseteq bypass

\* The page table of the domain is the one the hardware walks.
Started ==
    ~suspended /\ domain = "live" /\ ~hwfail => hw.enabled /\ hw.ttb = "live"

BypassInv ==
    /\ BypassTypes /\ DomainFirst /\ NobodyBefore /\ BitsAgree /\ UnsetBypassed /\ Started

LEMMA BypassInvInit == PowerInit => BypassInv
BY DEF PowerInit, BypassInv, BypassTypes, DomainFirst, NobodyBefore, BitsAgree, UnsetBypassed,
       Started

\* Steps that leave the domain, the bits and the hardware alone.
LEMMA BypassFrame ==
    ASSUME BypassInv, BypassTypes', UNCHANGED <<domain, flag, hw, hwfail, suspended>>,
           \A m \in Masters : master'[m] \in {"attached", "in"} => master[m] \in {"attached", "in"},
           \/ UNCHANGED <<bypass, unset>>
           \/ bypass' = Masters /\ unset' = Masters
           \/ bypass' = bypass \cup Present /\ unset' = unset \cup Present
    PROVE  BypassInv'
<1>1. DomainFirst'
  BY DEF BypassInv, DomainFirst
<1>2. NobodyBefore'
  BY DEF BypassInv, NobodyBefore, Present
<1>3. BitsAgree'
  BY DEF BypassInv, BitsAgree, Present
<1>4. UnsetBypassed'
  BY DEF BypassInv, UnsetBypassed, Present
<1>5. Started'
  BY DEF BypassInv, Started
<1> QED
  BY <1>1, <1>2, <1>3, <1>4, <1>5 DEF BypassInv

\* sunxi_enable_device_iommu, for a master with a domain: awake it writes the
\* bit, asleep it leaves it to resume.
LEMMA EnableKeeps ==
    ASSUME BypassInv, NEW m \in Masters, NEW on \in BOOLEAN, EnableDevice(m, on),
           master[m] \in {"attached", "in"}, UNCHANGED <<domain, flag, hwfail, suspended>>,
           \E to \in {"in", "out"} : master' = [master EXCEPT ![m] = to] \/ UNCHANGED master
    PROVE  BypassInv'
<1> DEFINE b == IF on THEN bypass \ {m} ELSE bypass \cup {m}
           written == IF driver = "v2" THEN {m} ELSE Masters
<1>1. /\ bypass' = b
      /\ hw' = IF suspended THEN hw
               ELSE [hw EXCEPT !.bypass = (@ \ written) \cup (b \cap written)]
      /\ unset' = IF suspended THEN unset ELSE unset \ written
  BY DEF EnableDevice
<1>2. /\ b \subseteq Masters /\ m \in written /\ written \subseteq Masters
      /\ \A n \in Masters : n # m => (n \in b <=> n \in bypass)
  BY DEF BypassInv, BypassTypes
<1> HIDE DEF b, written
<1>3. domain # "NULL"
  BY DEF BypassInv, DomainFirst
<1>4. /\ suspended => UNCHANGED <<hw, unset>>
      /\ ~suspended => /\ hw'.bypass = (hw.bypass \ written) \cup (b \cap written)
                       /\ unset' = unset \ written
      /\ hw'.ttb = hw.ttb /\ hw'.enabled = hw.enabled
      /\ hw' \in [ttb : {"NULL", "live", "freed"}, enabled : BOOLEAN, bypass : SUBSET Masters]
  BY <1>1, <1>2 DEF BypassInv, BypassTypes
<1>5. BypassTypes'
  BY <1>1, <1>2, <1>4 DEF BypassInv, BypassTypes
<1>6. DomainFirst' /\ NobodyBefore'
  BY <1>3 DEF DomainFirst, NobodyBefore
<1>7. BitsAgree'
  BY <1>1, <1>2, <1>3, <1>4 DEF BypassInv, BypassTypes, BitsAgree
<1>8. UnsetBypassed'
  BY <1>1, <1>2, <1>4 DEF BypassInv, BypassTypes, UnsetBypassed
<1>9. Started'
  BY <1>4 DEF BypassInv, Started
<1> QED
  BY <1>5, <1>6, <1>7, <1>8, <1>9 DEF BypassInv

\* sunxi_iommu_hw_init on the domain d writes base and bits, and enables the
\* hardware unless it reports a failure.
LEMMA HwInitKeeps ==
    ASSUME BypassInv, NEW d \in {"live", "freed"}, NEW outcome \in Outcomes, HwInit(d, outcome),
           domain' = d, UNCHANGED bypass, BypassTypes', ~suspended'
    PROVE  BypassInv'
<1>1. /\ hw'.ttb = d /\ hw'.bypass = bypass /\ unset' = {}
      /\ ~hwfail' => hw'.enabled
  BY DEF HwInit, Outcomes
<1>2. DomainFirst' /\ NobodyBefore'
  BY DEF DomainFirst, NobodyBefore
<1>3. BitsAgree' /\ UnsetBypassed'
  BY <1>1 DEF BitsAgree, UnsetBypassed
<1>4. Started'
  BY <1>1 DEF Started
<1> QED
  BY <1>2, <1>3, <1>4 DEF BypassInv

\* What hw_init leaves in the registers.
LEMMA HwInitTypes ==
    ASSUME BypassInv, NEW d \in {"live", "freed"}, NEW outcome \in Outcomes, HwInit(d, outcome)
    PROVE  /\ hw' \in [ttb : {"NULL", "live", "freed"}, enabled : BOOLEAN, bypass : SUBSET Masters]
           /\ unset' = {}
<1>1. CASE outcome = "ok"
  BY <1>1 DEF HwInit, BypassInv, BypassTypes
<1>2. CASE outcome = "flush"
  BY <1>2 DEF HwInit, BypassInv, BypassTypes
<1>3. CASE outcome = "refused"
  BY <1>3 DEF HwInit, BypassInv, BypassTypes
<1> QED
  BY <1>1, <1>2, <1>3 DEF Outcomes

LEMMA SuspendKeepsBits ==
    ASSUME BypassInv, Suspend
    PROVE  BypassInv'
<1>1. BypassTypes'
  <2>1. UNCHANGED <<bypass, master, domain>>
    BY DEF Suspend
  <2>2. CASE UNCHANGED <<hw, unset>>
    BY <2>1, <2>2 DEF BypassInv, BypassTypes
  <2>3. ASSUME NEW b \in {{}, Masters}, unset' = Masters,
               hw' = [ttb |-> "NULL", enabled |-> FALSE, bypass |-> b]
        PROVE  BypassTypes'
    BY <2>1, <2>3 DEF BypassInv, BypassTypes
  <2> QED
    BY <2>2, <2>3 DEF Suspend
<1>2. DomainFirst' /\ NobodyBefore' /\ UnsetBypassed' /\ Started'
  BY DEF Suspend, BypassInv, DomainFirst, NobodyBefore, UnsetBypassed, Started
<1>3. BitsAgree'
  BY DEF Suspend, BypassInv, BitsAgree
<1> QED
  BY <1>1, <1>2, <1>3 DEF BypassInv

LEMMA ResumeKeepsBits ==
    ASSUME BypassInv, NEW outcome \in Outcomes, Resume(outcome)
    PROVE  BypassInv'
<1>1. CASE domain = "NULL"
  <2>1. UNCHANGED <<hw, flag, hwfail, unset, domain, bypass, master>> /\ ~suspended'
    BY <1>1 DEF Resume
  <2>2. bypass = Masters
    BY <1>1 DEF BypassInv, NobodyBefore
  <2> QED
    BY <1>1, <2>1, <2>2 DEF BypassInv, BypassTypes, DomainFirst, NobodyBefore, BitsAgree,
                            UnsetBypassed, Started
<1>2. CASE domain # "NULL"
  <2>1. HwInit(domain, outcome) /\ UNCHANGED <<domain, bypass, master>> /\ ~suspended'
    BY <1>2 DEF Resume
  <2>2. domain \in {"live", "freed"}
    BY <1>2 DEF BypassInv, BypassTypes
  <2>3. BypassTypes'
    BY <2>1, <2>2, HwInitTypes DEF BypassInv, BypassTypes
  <2> QED
    BY <2>1, <2>2, <2>3, HwInitKeeps
<1> QED
  BY <1>1, <1>2

LEMMA DomainAllocKeepsBits ==
    ASSUME BypassInv, NEW m \in Masters, NEW outcome \in Outcomes, DomainAlloc(m, outcome)
    PROVE  BypassInv'
<1>1. /\ ~suspended /\ ~suspended' /\ UNCHANGED bypass
      /\ master' \in [Masters -> {"out", "owned", "grouped", "attached", "in", "dead"}]
  BY DEF DomainAlloc, Running, BypassInv, BypassTypes
<1>2. CASE domain # "NULL"
  <2>1. UNCHANGED <<domain, hw, flag, hwfail, unset, bypass, suspended>>
    BY <1>2 DEF DomainAlloc
  <2> QED
    BY <1>1, <1>2, <2>1 DEF BypassInv, BypassTypes, DomainFirst, NobodyBefore, BitsAgree,
                            UnsetBypassed, Started
<1>3. CASE domain = "NULL"
  <2>1. ~flag
    BY <1>3 DEF BypassInv, NobodyBefore
  <2>2. domain' = "live" /\ HwInit("live", outcome)
    BY <1>3, <2>1 DEF DomainAlloc
  <2>3. BypassTypes'
    BY <1>1, <2>2, HwInitTypes DEF BypassInv, BypassTypes
  <2> QED
    BY <1>1, <2>2, <2>3, HwInitKeeps
<1> QED
  BY <1>2, <1>3

LEMMA BypassInvStep == BypassInv /\ [PowerNext]_powerVars => BypassInv'
<1> SUFFICES ASSUME BypassInv, [PowerNext]_powerVars PROVE BypassInv'
  OBVIOUS
<1>1. ASSUME NEW s \in Range(Stages), ProbeFails(s) PROVE BypassInv'
  <2>1. UNCHANGED <<domain, flag, hw, hwfail, suspended, master>>
    BY <1>1 DEF ProbeFails, ProbeCall, UnchangedHw
  <2>2. CASE Past(s, "clk")
    <3>1. bypass' = Masters /\ unset' = Masters
      BY <1>1, <2>2 DEF ProbeFails
    <3>2. BypassTypes'
      BY <2>1, <3>1 DEF BypassInv, BypassTypes
    <3> QED
      BY <2>1, <3>1, <3>2, BypassFrame
  <2>3. CASE ~Past(s, "clk")
    <3>1. UNCHANGED <<dev, clocked, bypass, unset>>
      BY <1>1, <2>3 DEF ProbeFails
    <3>2. BypassTypes'
      BY <2>1, <3>1 DEF BypassInv, BypassTypes
    <3> QED
      BY <2>1, <3>1, <3>2, BypassFrame
  <2> QED
    BY <2>2, <2>3
<1>2. CASE ProbeRegisters
  <2>1. /\ UNCHANGED <<domain, flag, hw, hwfail, suspended, master>>
        /\ bypass' = Masters /\ unset' = Masters
    BY <1>2 DEF ProbeRegisters, ProbeCall, UnchangedHw
  <2>2. BypassTypes'
    BY <2>1 DEF BypassInv, BypassTypes
  <2> QED
    BY <2>1, <2>2, BypassFrame
<1>3. CASE ProbeFinishes
  <2>1. UNCHANGED <<domain, flag, hw, hwfail, suspended, master, bypass, unset>>
    BY <1>3 DEF ProbeFinishes, UnchangedHw
  <2>2. BypassTypes'
    BY <2>1 DEF BypassInv, BypassTypes
  <2> QED
    BY <2>1, <2>2, BypassFrame
<1>4. CASE Remove
  <2>1. /\ UNCHANGED <<domain, flag, hw, hwfail, suspended>>
        /\ master' = [m \in Masters |-> "out"]
        /\ bypass' = bypass \cup Present /\ unset' = unset \cup Present
    BY <1>4 DEF Remove, UnchangedHw
  <2>2. BypassTypes'
    BY <2>1 DEF BypassInv, BypassTypes, Present
  <2> QED
    BY <2>1, <2>2, BypassFrame
<1>5. CASE DomainFree
  BY <1>5 DEF DomainFree, Running, BypassInv, BypassTypes, DomainFirst, NobodyBefore, BitsAgree,
              UnsetBypassed, Started
<1>6. CASE Suspend
  BY <1>6, SuspendKeepsBits
<1>7. CASE \E outcome \in Outcomes : Resume(outcome)
  BY <1>7, ResumeKeepsBits
<1>8. ASSUME NEW m \in Masters PROVE
        /\ OfXlate(m) \/ DeviceGroup(m) \/ DomainAllocFails(m) => BypassInv'
        /\ ReleaseDevice(m) => BypassInv'
        /\ (\E outcome \in Outcomes : DomainAlloc(m, outcome)) => BypassInv'
        /\ (\E on \in BOOLEAN : ProbeFinalize(m, on)) => BypassInv'
        /\ (\E on \in BOOLEAN : MasterSwitch(m, on)) => BypassInv'
  <2>1. ASSUME OfXlate(m) \/ DeviceGroup(m) \/ DomainAllocFails(m) PROVE BypassInv'
    <3>1. /\ UNCHANGED <<domain, flag, hw, hwfail, suspended, bypass, unset>>
          /\ \E to \in {"owned", "grouped", "out"} : master' = [master EXCEPT ![m] = to]
      BY <2>1 DEF OfXlate, DeviceGroup, DomainAllocFails, UnchangedHw
    <3>2. BypassTypes'
      BY <3>1 DEF BypassInv, BypassTypes
    <3> QED
      BY <3>1, <3>2, BypassFrame DEF BypassInv, BypassTypes
  <2>2. ASSUME ReleaseDevice(m) PROVE BypassInv'
    BY <2>2, EnableKeeps DEF ReleaseDevice
  <2>3. ASSUME NEW outcome \in Outcomes, DomainAlloc(m, outcome) PROVE BypassInv'
    BY <2>3, DomainAllocKeepsBits
  <2>4. ASSUME NEW on \in BOOLEAN, ProbeFinalize(m, on) PROVE BypassInv'
    <3>1. CASE resv
      BY <2>4, <3>1, EnableKeeps DEF ProbeFinalize
    <3>2. CASE ~resv
      <4>1. /\ UNCHANGED <<domain, flag, hw, hwfail, suspended, bypass, unset>>
            /\ master' = [master EXCEPT ![m] = "dead"]
        BY <2>4, <3>2 DEF ProbeFinalize
      <4>2. BypassTypes'
        BY <4>1 DEF BypassInv, BypassTypes
      <4> QED
        BY <4>1, <4>2, BypassFrame DEF BypassInv, BypassTypes
    <3> QED
      BY <3>1, <3>2
  <2>5. ASSUME NEW on \in BOOLEAN, MasterSwitch(m, on) PROVE BypassInv'
    BY <2>5, EnableKeeps DEF MasterSwitch
  <2> QED
    BY <2>1, <2>2, <2>3, <2>4, <2>5
<1>9. CASE UNCHANGED powerVars
  <2>1. UNCHANGED <<domain, flag, hw, hwfail, suspended, bypass, unset, master>>
    BY <1>9 DEF powerVars
  <2>2. BypassTypes'
    BY <2>1 DEF BypassInv, BypassTypes
  <2> QED
    BY <2>1, <2>2, BypassFrame
<1> QED
  BY <1>1, <1>2, <1>3, <1>4, <1>5, <1>6, <1>7, <1>8, <1>9 DEF PowerNext

\* For any number of masters and either way the drivers write the bits, those
\* of the hardware are the driver's for every master written since probe,
\* through suspend, lost registers and switches made while the clock is off.
THEOREM BypassIsFollowed == PowerSpec => []BypassFollows
<1>1. BypassInv => BypassFollows
  BY DEF BypassInv, BitsAgree, BypassFollows
<1> QED
  BY BypassInvInit, BypassInvStep, <1>1, PTL DEF PowerSpec

\* A master that is not bypassed has its addresses translated by the live page
\* table, unless the start of the hardware failed or the domain was freed
\* (sunxi_iommu_hw_init, sunxi_enable_device_iommu).
THEOREM MastersAreTranslated == PowerSpec => []MasterTranslated
<1>1. BypassInv => MasterTranslated
  <2> SUFFICES ASSUME BypassInv, ~suspended, NEW m \in Masters, m \notin bypass,
                      ~hwfail, domain # "freed"
               PROVE  hw.enabled /\ hw.ttb = "live" /\ m \notin hw.bypass
    BY DEF MasterTranslated
  <2>1. domain = "live"
    BY DEF BypassInv, BypassTypes, NobodyBefore
  <2>2. m \notin unset
    BY DEF BypassInv, UnsetBypassed
  <2> QED
    BY <2>1, <2>2 DEF BypassInv, BitsAgree, Started
<1> QED
  BY BypassInvInit, BypassInvStep, <1>1, PTL DEF PowerSpec

(***************************************************************************)
(* FanControl                                                              *)
(***************************************************************************)
\* A bounded set of integers has a greatest element, and Max finds it.
LEMMA MaxIsGreatest ==
    ASSUME NEW n \in Int, NEW S \in SUBSET Int, S # {}, \A x \in S : x <= n
    PROVE  Max(S) \in S /\ \A y \in S : y <= Max(S)
<1> DEFINE T == {n - x : x \in S}
<1>1. T \subseteq Nat /\ T # {}
  <2>1. \A x \in S : n - x \in Nat
    OBVIOUS
  <2>2. PICK x \in S : TRUE
    OBVIOUS
  <2> QED
    BY <2>1, <2>2
<1>2. PICK d \in T : \A e \in T : ~(<<e, d>> \in OpToRel(<, Nat))
  <2> HIDE DEF T
  <2> QED
    BY <1>1, WFMin, NatLessThanWellFounded
<1>3. PICK x \in S : d = n - x
  BY <1>2
<1>4. \A y \in S : x >= y
  <2> SUFFICES ASSUME NEW y \in S PROVE x >= y
    OBVIOUS
  <2>1. n - y \in T /\ n - y \in Nat /\ d \in Nat
    BY <1>1, <1>2
  <2>2. ~(n - y < d)
    BY <1>2, <2>1 DEF OpToRel
  <2> QED
    BY <1>3, <2>2
<1>5. \E z \in S : \A y \in S : z >= y
  BY <1>4
<1>6. Max(S) \in S /\ \A y \in S : Max(S) >= y
  BY <1>5 DEF Max
<1> QED
  BY <1>6

LEMMA CurveRows ==
    /\ DOMAIN Curve = 1..Len(Curve) /\ Len(Curve) \in Nat
    /\ \A i \in DOMAIN Curve : Curve[i].duty \in 0..100 /\ Curve[i].trip \in Int
<1> DEFINE Row == [trip : Int, duty : 0..100]
<1>1. Curve \in Seq(Row)
  BY FanAssumption, Zenon
<1>2. \A r \in Row : r.duty \in 0..100 /\ r.trip \in Int
  OBVIOUS
<1> HIDE DEF Row
<1>3. DOMAIN Curve = 1..Len(Curve) /\ Len(Curve) \in Nat /\ \A i \in DOMAIN Curve : Curve[i] \in Row
  BY <1>1
<1> QED
  BY <1>2, <1>3

\* The demand under given settings; Demand is that of the settings in force.
Asked(f, t) == {f} \cup {Curve[i].duty : i \in {j \in DOMAIN Curve : t >= Curve[j].trip}}
DemandAt(f, t) == Max(Asked(f, t))

LEMMA DemandIsGreatest ==
    ASSUME NEW f \in 0..100, NEW t \in Int
    PROVE  /\ DemandAt(f, t) \in Asked(f, t) /\ DemandAt(f, t) \in 0..100
           /\ \A d \in Asked(f, t) : d <= DemandAt(f, t)
<1>1. \A i \in DOMAIN Curve : Curve[i].duty \in 0..100
  BY CurveRows
<1>2. Asked(f, t) \in SUBSET Int /\ Asked(f, t) # {} /\ Asked(f, t) \subseteq 0..100
  BY <1>1 DEF Asked
<1>3. \A x \in Asked(f, t) : x <= 100
  BY <1>2
<1>4. /\ Max(Asked(f, t)) \in Asked(f, t)
      /\ \A y \in Asked(f, t) : y <= Max(Asked(f, t))
  BY <1>2, <1>3, MaxIsGreatest
<1> QED
  BY <1>2, <1>4 DEF DemandAt

\* Because the duties of the curve rise, the last row reached is the highest.
LEMMA ReachedIsGreatest ==
    ASSUME NEW f \in 0..100, NEW t \in Int
    PROVE  /\ Reached(t) \in 0..100
           /\ Reached(t) = 0 \/ Reached(t) \in Asked(f, t)
           /\ \A d \in Asked(f, t) : d = f \/ d <= Reached(t)
<1> DEFINE rows == {i \in DOMAIN Curve : t >= Curve[i].trip}
<1>1. /\ DOMAIN Curve = 1..Len(Curve) /\ Len(Curve) \in Nat
      /\ \A i \in DOMAIN Curve : Curve[i].duty \in 0..100
  BY CurveRows
<1>2. CASE rows = {}
  BY <1>2 DEF Reached, Asked
<1>3. CASE rows # {}
  <2>1. rows \in SUBSET Int /\ \A i \in rows : i <= Len(Curve)
    BY <1>1
  <2>2. Max(rows) \in rows /\ \A i \in rows : i <= Max(rows)
    <3>1. Len(Curve) \in Int
      BY <1>1
    <3> HIDE DEF rows
    <3> QED
      BY <1>3, <2>1, <3>1, MaxIsGreatest
  <2>3. Reached(t) = Curve[Max(rows)].duty
    BY <1>3 DEF Reached
  <2>4. \A i \in rows : Curve[i].duty <= Curve[Max(rows)].duty
    BY <2>2, FanAssumption
  <2>5. \A d \in Asked(f, t) : d = f \/ \E i \in rows : d = Curve[i].duty
    BY DEF Asked
  <2>6. Curve[Max(rows)].duty \in Asked(f, t) /\ Max(rows) \in DOMAIN Curve
    BY <2>2 DEF Asked
  <2> HIDE DEF rows
  <2> QED
    BY <1>1, <2>3, <2>4, <2>5, <2>6
<1> QED
  BY <1>2, <1>3

\* duty_for_temp gives what the curve asks for at the temperature, or within the
\* hysteresis above it, and never less than the floor.
LEMMA DutyIsAsked ==
    ASSUME tuning.floor \in 0..100, tuning.hysteresis \in Nat, NEW t \in Int, NEW last \in Int
    PROVE  LET d == duty_for_temp(t, last) IN
           /\ d \in 0..100 /\ d >= tuning.floor
           /\ DemandAt(tuning.floor, t) <= d
           /\ d <= DemandAt(tuning.floor, t + tuning.hysteresis)
<1> DEFINE f == tuning.floor
           h == tuning.hysteresis
           kept == {Curve[i].duty : i \in {j \in DOMAIN Curve :
                      last > Curve[j].duty /\ t >= Curve[j].trip - h}}
           stepped == IF Reached(t) < last THEN {Reached(t)} \cup kept ELSE {Reached(t)}
           all == stepped \cup {f}
           d == duty_for_temp(t, last)
<1>1. d = Max(all)
  BY DEF duty_for_temp
<1>2. f \in 0..100 /\ h \in Nat /\ t + h \in Int
  OBVIOUS
<1>3. \A i \in DOMAIN Curve : Curve[i].duty \in 0..100 /\ Curve[i].trip \in Int
  BY CurveRows
<1>4. kept \subseteq Asked(f, t + h)
  <2> SUFFICES ASSUME NEW i \in DOMAIN Curve, t >= Curve[i].trip - h
               PROVE  Curve[i].duty \in Asked(f, t + h)
    OBVIOUS
  <2>1. t + h >= Curve[i].trip
    BY <1>2, <1>3
  <2> QED
    BY <2>1 DEF Asked
<1>5. Asked(f, t) \subseteq Asked(f, t + h)
  <2>1. \A i \in DOMAIN Curve : t >= Curve[i].trip => t + h >= Curve[i].trip
    BY <1>2, <1>3
  <2> QED
    BY <2>1 DEF Asked
<1>6. kept \subseteq 0..100
  BY <1>3
<1> HIDE DEF kept
<1>7. Reached(t) \in all /\ f \in all /\ all \subseteq kept \cup {Reached(t), f}
  OBVIOUS
<1> HIDE DEF all, stepped, d, f, h
<1>8. Reached(t) \in 0..100 /\ (Reached(t) = 0 \/ Reached(t) \in Asked(f, t))
  BY <1>2, ReachedIsGreatest
<1>9. all \in SUBSET Int /\ all \subseteq 0..100 /\ all # {} /\ \A x \in all : x <= 100
  BY <1>2, <1>6, <1>7, <1>8
<1>10. d \in all /\ \A x \in all : x <= d
  BY <1>1, <1>9, MaxIsGreatest
<1>11. d \in 0..100 /\ d >= f /\ d >= Reached(t)
  BY <1>7, <1>9, <1>10, <1>2, <1>8
<1>12. DemandAt(f, t) <= d
  <2>1. DemandAt(f, t) \in Asked(f, t) /\ DemandAt(f, t) \in 0..100
    BY <1>2, DemandIsGreatest
  <2>2. DemandAt(f, t) = f \/ DemandAt(f, t) <= Reached(t)
    BY <1>2, <2>1, ReachedIsGreatest
  <2> QED
    BY <2>1, <2>2, <1>11, <1>8
<1>13. d <= DemandAt(f, t + h)
  <2>1. /\ \A x \in Asked(f, t + h) : x <= DemandAt(f, t + h)
        /\ DemandAt(f, t + h) \in 0..100
    BY <1>2, DemandIsGreatest
  <2>2. \A x \in all : x = 0 \/ x = f \/ x \in Asked(f, t + h)
    BY <1>4, <1>5, <1>7, <1>8
  <2>3. f \in Asked(f, t + h)
    BY DEF Asked
  <2> QED
    BY <2>1, <2>2, <2>3, <1>10, <1>11
<1> QED
  BY <1>11, <1>12, <1>13 DEF d, f, h

FanTypes ==
    /\ tuning \in [floor : Floors, hysteresis : Hystereses]
    /\ current \in Int /\ target \in Int /\ pwm \in Int /\ seen \in Int
    /\ spins \in BOOLEAN /\ died \in BOOLEAN

\* A loop that died has left the fan as it was, and a new process forgets it.
DiedSpinning == died => step = "off" /\ spins

\* From the kick on the fan spins, and no temperature was read before the loop.
Kicked == step \in {"floor", "poll", "apply"} => spins
NoneRead == step \in {"kick", "floor"} => seen = NoTemp

\* In the loop the channel has the duty last set, not below the floor.
DutyKept == step \in {"poll", "apply"} => pwm = current /\ pwm >= tuning.floor

\* The duty answers the temperature read, or the one about to be written does.
Answers(f, h, t, d) == DemandAt(f, t) <= d /\ d <= DemandAt(f, t + h)
PollAnswers  ==
    step = "poll" /\ seen # NoTemp => Answers(tuning.floor, tuning.hysteresis, seen, pwm)
ApplyAnswers ==
    step = "apply" =>
        target >= tuning.floor /\ Answers(tuning.floor, tuning.hysteresis, seen, target)

FanInv ==
    /\ FanTypes /\ DiedSpinning /\ Kicked /\ NoneRead /\ DutyKept
    /\ PollAnswers /\ ApplyAnswers

\* The settings are those the assumption allows.
LEMMA TuningTypes ==
    ASSUME FanTypes
    PROVE  /\ tuning.floor \in 0..100 /\ tuning.floor >= FanKeep
           /\ tuning.hysteresis \in Nat
           /\ FanKeep \in Int /\ FanStart \in Int /\ FanStart <= 100
<1>1. tuning.floor \in Floors /\ tuning.hysteresis \in Hystereses
  BY DEF FanTypes
<1>2. FanKeep \in Nat /\ FanStart \in FanKeep..100 /\ Floors \subseteq FanKeep..100
      /\ Hystereses \subseteq Nat
  BY FanAssumption, Zenon
<1>3. FanKeep \in Int /\ FanStart \in Int /\ FanStart <= 100
  BY <1>2
<1>4. tuning.floor \in FanKeep..100 /\ tuning.hysteresis \in Nat
  BY <1>1, <1>2, Zenon
<1> QED
  BY <1>2, <1>3, <1>4

LEMMA FanInvInit == FanInit => FanInv
<1> SUFFICES ASSUME FanInit PROVE FanInv
  OBVIOUS
<1>1. spins \in BOOLEAN /\ died \in BOOLEAN
  BY Zenon DEF FanInit
<1>2. FanTypes
  BY <1>1 DEF FanInit, FanTypes, NoDuty, NoTemp
<1> QED
  BY <1>2 DEF FanInit, FanInv, DiedSpinning, Kicked, NoneRead, DutyKept, PollAnswers, ApplyAnswers

\* What set_duty_pct does to the fan.
LEMMA DriveTypes ==
    ASSUME FanTypes, NEW pct \in Int, Drive(pct)
    PROVE  /\ pwm' = pct /\ spins' \in BOOLEAN
           /\ pct >= FanStart => spins'
           /\ spins /\ pct >= FanKeep => spins'
<1>1. spins' = (pct >= FanStart \/ (spins /\ pct >= FanKeep)) /\ pwm' = pct
  BY DEF Drive
<1>2. (pct >= FanStart) \in BOOLEAN /\ (pct >= FanKeep) \in BOOLEAN
  BY TuningTypes
<1> QED
  BY <1>1, <1>2 DEF FanTypes

LEMMA FanInvStep == FanInv /\ [FanNext]_fanVars => FanInv'
<1> SUFFICES ASSUME FanInv, [FanNext]_fanVars PROVE FanInv'
  OBVIOUS
<1>0. /\ FanTypes /\ tuning.floor \in 0..100 /\ tuning.floor >= FanKeep
      /\ tuning.hysteresis \in Nat
      /\ FanKeep \in Int /\ FanStart \in Int /\ FanStart <= 100
  BY TuningTypes DEF FanInv
<1> USE DEF FanInv, DiedSpinning, Kicked, NoneRead, DutyKept, PollAnswers, ApplyAnswers
<1>1. CASE Export
  <2>1. pwm' = 0 /\ spins' \in BOOLEAN
    BY <1>0, <1>1, DriveTypes DEF Export
  <2>2. FanTypes'
    <3>1. died' \in BOOLEAN
      BY <1>1, Zenon DEF Export
    <3>2. target' \in Int /\ current' \in Int /\ seen' \in Int /\ UNCHANGED tuning
      BY <1>1 DEF Export, NoDuty, NoTemp
    <3> QED
      BY <1>0, <2>1, <3>1, <3>2 DEF FanTypes
  <2> QED
    BY <1>1, <2>2 DEF Export
<1>2. CASE ExportFails
  <2>1. pwm' \in Int /\ spins' \in BOOLEAN
    BY <1>0, <1>2, DriveTypes DEF ExportFails, FanTypes
  <2>2. FanTypes'
    <3>1. died' \in BOOLEAN
      BY <1>2, Zenon DEF ExportFails
    <3>2. current' \in Int /\ seen' \in Int /\ UNCHANGED <<tuning, target>>
      BY <1>2 DEF ExportFails, NoDuty, NoTemp
    <3> QED
      BY <1>0, <2>1, <3>1, <3>2 DEF FanTypes
  <2> QED
    BY <1>2, <2>2 DEF ExportFails
<1>3. CASE KickStart
  <2>1. pwm' = 100 /\ current' = 100 /\ spins' \in BOOLEAN /\ spins'
    BY <1>0, <1>3, DriveTypes DEF KickStart, set_duty_pct
  <2>2. FanTypes'
    BY <1>0, <1>3, <2>1 DEF KickStart, FanTypes
  <2> QED
    BY <1>3, <2>1, <2>2 DEF KickStart
<1>4. CASE ToFloor
  <2>1. pwm' = tuning.floor /\ current' = tuning.floor /\ spins' \in BOOLEAN /\ spins'
    BY <1>0, <1>4, DriveTypes DEF ToFloor, set_duty_pct
  <2>2. FanTypes'
    BY <1>0, <1>4, <2>1 DEF ToFloor, FanTypes
  <2> QED
    BY <1>0, <1>4, <2>1, <2>2 DEF ToFloor
<1>5. CASE Poll
  <2>1. PICK t \in Temps : /\ target' = duty_for_temp(t, current)
                           /\ step' = IF target' # current THEN "apply" ELSE "poll"
                           /\ seen' = t
    BY <1>5 DEF Poll
  <2>2. t \in Int
    BY FanAssumption
  <2>3. /\ target' \in 0..100 /\ target' >= tuning.floor
        /\ Answers(tuning.floor, tuning.hysteresis, t, target')
    BY <1>0, <2>1, <2>2, DutyIsAsked DEF FanTypes, Answers
  <2>4. /\ step = "poll" /\ UNCHANGED <<tuning, current, pwm, spins, died>>
    BY <1>5 DEF Poll
  <2>5. FanTypes'
    BY <1>0, <2>1, <2>2, <2>3, <2>4 DEF FanTypes
  <2> QED
    BY <2>1, <2>3, <2>4, <2>5
<1>6. CASE Apply
  <2>1. pwm' = target /\ current' = target /\ spins' \in BOOLEAN /\ spins'
    BY <1>0, <1>6, DriveTypes DEF Apply, set_duty_pct, FanTypes
  <2>2. FanTypes'
    BY <1>0, <1>6, <2>1 DEF Apply, FanTypes
  <2> QED
    BY <1>6, <2>1, <2>2 DEF Apply
<1>7. CASE Raise
  <2>1. /\ step' = "off" /\ died' = (step \in {"poll", "apply"})
        /\ UNCHANGED <<tuning, current, target, pwm, spins, seen>>
    BY <1>7 DEF Raise
  <2>2. FanTypes'
    BY <1>0, <2>1 DEF FanTypes
  <2> QED
    BY <2>1, <2>2
<1>8. CASE Interrupt
  <2>1. pwm' \in Int /\ current' \in Int /\ spins' \in BOOLEAN
    BY <1>0, <1>8, DriveTypes DEF Interrupt, set_duty_pct, FanTypes
  <2>2. FanTypes'
    BY <1>0, <1>8, <2>1 DEF Interrupt, FanTypes
  <2> QED
    BY <1>8, <2>2 DEF Interrupt, InTry
<1>9. CASE Sweep
  <2>1. /\ pwm' \in Int /\ current' \in Int /\ target' \in Int /\ spins' \in BOOLEAN
        /\ step = "sweep" /\ step' \in {"sweep", "off"} /\ UNCHANGED <<tuning, seen, died>>
    BY <1>0, <1>9, DriveTypes DEF Sweep, set_duty_pct, FanTypes
  <2>2. FanTypes'
    BY <1>0, <2>1 DEF FanTypes
  <2> QED
    BY <2>1, <2>2
<1>10. CASE UNCHANGED fanVars
  <2>1. FanTypes'
    BY <1>0, <1>10 DEF FanTypes, fanVars
  <2> QED
    BY <1>10, <2>1 DEF fanVars
<1> QED
  BY <1>1, <1>2, <1>3, <1>4, <1>5, <1>6, <1>7, <1>8, <1>9, <1>10 DEF FanNext

\* For every rising curve, floor from which the fan keeps spinning, hysteresis
\* and series of temperatures: while the loop of main sleeps the fan spins with
\* the duty the curve asks for, or one it asks for within the hysteresis, and an
\* error in the loop leaves it spinning.
THEOREM LoopAlwaysCools == FanSpec => []LoopCools
<1>1. FanInv => LoopCools
  BY DEF FanInv, DiedSpinning, Kicked, DutyKept, PollAnswers, Answers, DemandAt, Asked, Demand,
         LoopCools
<1> QED
  BY FanInvInit, FanInvStep, <1>1, PTL DEF FanSpec
=============================================================================
