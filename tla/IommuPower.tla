------------------------------ MODULE IommuPower -------------------------------
(***************************************************************************)
(* Life of the sunxi IOMMU drivers v1, v2 and v3 around map and unmap:     *)
(* probe with its error labels, remove, the one global domain, the start   *)
(* of the hardware with its timeouts, the bypass bits of the masters,      *)
(* suspend and resume.  The IOMMU core and the masters' drivers are        *)
(* external: they call the operations in the order the core does.          *)
(***************************************************************************)
EXTENDS Integers, Sequences, Functions

CONSTANTS
    Drivers,     \* subset of {"v1", "v2", "v3"}
    Masters,     \* DMA masters
    MaxProbes    \* bound: calls of probe

ASSUME PowerAssumption == Drivers \subseteq {"v1", "v2", "v3"} /\ MaxProbes \in Nat

VARIABLES
    driver,      \* which of the three drivers
    probe,       \* "none", "registered", "bound", or "hollow": probe returned 0 on its error path
    dev,         \* global_iommu_dev: "NULL", "live" or "freed"
    held,        \* acquisitions minus releases of each resource
    resv,        \* rsv_list is initialised
    domain,      \* the global domain: "NULL", "live" or "freed"
    group,       \* global_group: "NULL", "live" or "error"
    flag,        \* iommu_hw_init_flag
    bypass,      \* iommu->bypass, as the set of bypassed masters
    hw,          \* registers: table base set, enabled, bypass bits
    master,      \* how far the core is with each master
    suspended,
    probes,      \* calls of probe, up to MaxProbes
    clocked,     \* history: probes that have enabled the clock
    unset,       \* history: masters whose bypass bit was not written since probe
    hwfail,      \* history: the last hw_init timed out or was refused
    oops,        \* history: something released or not yet there was used
    excuse       \* history: hollow probe, master in the registration window, remove under masters

powerVars == <<driver, probe, dev, held, resv, domain, group, flag, bypass, hw, master,
               suspended, probes, clocked, unset, hwfail, oops, excuse>>

Resources == {"cache", "regs", "irq", "clk", "sysfs", "iommu"}

(* The steps of probe that can fail, in order. *)
Stages ==
    CASE driver = "v1" -> <<"cache", "devm", "regs", "irq", "clk", "version", "sysfs", "register">>
      [] driver = "v2" -> <<"cache", "devm", "regs", "irq", "irq2", "clknames", "clk", "plat", "version", "sysfs", "register">>
      [] driver = "v3" -> <<"cache", "devm", "regs", "irq", "clk", "plat", "version", "sysfs", "register">>

Past(s, t) == \E i, j \in DOMAIN Stages : Stages[i] = s /\ Stages[j] = t /\ j < i

(* Labels reached with ret still 0. *)
Hollow(s) == s \in {"version", "clknames"}

PowerInit ==
    /\ driver \in Drivers
    /\ probe = "none" /\ dev = "NULL" /\ resv = FALSE
    /\ held = [r \in Resources |-> 0]
    /\ domain = "NULL" /\ group = "NULL" /\ flag = FALSE
    /\ bypass = Masters
    /\ \E b \in {{}, Masters} : hw = [ttb |-> "NULL", enabled |-> FALSE, bypass |-> b]
    /\ master = [m \in Masters |-> "out"]
    /\ suspended = FALSE
    /\ probes = 0 /\ clocked = 0 /\ unset = Masters
    /\ hwfail = FALSE /\ oops = FALSE /\ excuse = FALSE

UnchangedHw == UNCHANGED <<domain, group, flag, hw, hwfail>>

(***************************************************************************)
(* sunxi_iommu_probe and sunxi_iommu_remove                                *)
(***************************************************************************)
ProbeCall ==
    /\ probe = "none" /\ probes < MaxProbes /\ ~suspended
    /\ probes' = probes + 1
    /\ UNCHANGED <<driver, suspended, master>>

(* Faulty variant: the label err_irq is skipped when the interrupt is busy. *)
LeftoverKeepsRegs(s) ==
    [r \in Resources |->
        CASE r = "cache" -> IF s = "devm" THEN 1 ELSE 0
          [] r = "regs" -> IF s = "irq" THEN 1 ELSE 0
          [] r = "clk" -> IF Past(s, "clk") THEN 1 ELSE 0
          [] r = "sysfs" -> IF s \in {"sysfs", "register"} THEN 1 ELSE 0
          [] OTHER -> 0]

(* What an error path leaves behind: the labels give back irq, registers    *)
(* and cache, never the clock or the sysfs files, and the first return      *)
(* skips the labels.                                                        *)
Leftover(s) ==
    [r \in Resources |->
        CASE r = "cache" -> IF s = "devm" THEN 1 ELSE 0
          [] r = "clk" -> IF Past(s, "clk") THEN 1 ELSE 0
          [] r = "sysfs" -> IF s \in {"sysfs", "register"} THEN 1 ELSE 0
          [] OTHER -> 0]

ProbeFails(s) ==
    /\ ProbeCall
    /\ s \in Range(Stages)
    /\ held' = [r \in Resources |-> held[r] + Leftover(s)[r]]
    /\ probe' = IF Hollow(s) THEN "hollow" ELSE "none"
    /\ IF Past(s, "clk")
       THEN /\ dev' = IF Hollow(s) THEN "live" ELSE "freed"
            /\ clocked' = clocked + 1 /\ bypass' = Masters /\ unset' = Masters
       ELSE UNCHANGED <<dev, clocked, bypass, unset>>
    /\ excuse' = (excuse \/ Hollow(s))
    /\ resv' = FALSE
    /\ UnchangedHw /\ UNCHANGED oops

(* All the way to iommu_device_register: the core may now bring masters.    *)
ProbeRegisters ==
    /\ ProbeCall
    /\ held' = [r \in Resources |-> held[r] + 1]
    /\ probe' = "registered" /\ dev' = "live" /\ resv' = FALSE
    /\ clocked' = clocked + 1 /\ bypass' = Masters /\ unset' = Masters
    /\ UnchangedHw /\ UNCHANGED <<oops, excuse>>

(* Faulty variant: rsv_list is never initialised. *)
ProbeFinishesForgetsList ==
    /\ probe = "registered"
    /\ probe' = "bound" /\ UNCHANGED resv
    /\ UnchangedHw
    /\ UNCHANGED <<driver, dev, held, bypass, master, suspended, probes, clocked, unset, oops, excuse>>

ProbeFinishes ==
    /\ probe = "registered"
    /\ probe' = "bound" /\ resv' = TRUE
    /\ UnchangedHw
    /\ UNCHANGED <<driver, dev, held, bypass, master, suspended, probes, clocked, unset, oops, excuse>>

Present == {m \in Masters : master[m] # "out"}

(* The cache is destroyed, the list walked, the registers unmapped; then    *)
(* unregistering makes the core release the masters that are left.          *)
Remove ==
    /\ probe \in {"bound", "hollow"} /\ ~suspended
    /\ held' = [r \in Resources |-> IF r = "clk" THEN held[r] ELSE held[r] - 1]
    /\ oops' = (oops \/ held["cache"] < 1 \/ ~resv \/ Present # {})
    /\ excuse' = (excuse \/ Present # {})
    /\ master' = [m \in Masters |-> "out"]
    /\ bypass' = bypass \cup Present /\ unset' = unset \cup Present
    /\ probe' = "none" /\ dev' = "NULL" /\ resv' = FALSE
    /\ UnchangedHw
    /\ UNCHANGED <<driver, suspended, probes, clocked>>

(***************************************************************************)
(* sunxi_iommu_hw_init, on the global domain; d is the domain it is given. *)
(***************************************************************************)
(* Faulty variant: the bypass bits are not written again. *)
HwInitForgetsBypass(d, outcome) ==
    /\ hw' = [ttb |-> d, bypass |-> hw.bypass,
              enabled |-> CASE outcome = "ok" -> TRUE
                            [] outcome = "flush" -> hw.enabled
                            [] outcome = "refused" -> FALSE]
    /\ flag' = (flag \/ outcome = "ok")
    /\ hwfail' = (outcome # "ok")
    /\ unset' = {}

HwInit(d, outcome) ==
    /\ hw' = [ttb |-> d, bypass |-> bypass,
              enabled |-> CASE outcome = "ok" -> TRUE
                            [] outcome = "flush" -> hw.enabled      \* timed out before the enable
                            [] outcome = "refused" -> FALSE]        \* read back as 0
    /\ flag' = (flag \/ outcome = "ok")
    /\ hwfail' = (outcome # "ok")
    /\ unset' = {}

Outcomes == {"ok", "flush", "refused"}

(* sunxi_enable_device_iommu: v1 and v3 write all bits, v2 the master's.    *)
(* Without a clock the write is lost.                                       *)
EnableDevice(m, on) ==
    LET b == IF on THEN bypass \ {m} ELSE bypass \cup {m}
        written == IF driver = "v2" THEN {m} ELSE Masters
    IN  /\ bypass' = b
        /\ hw' = IF suspended THEN hw
                 ELSE [hw EXCEPT !.bypass = (@ \ written) \cup (b \cap written)]
        /\ unset' = IF suspended THEN unset ELSE unset \ written
        /\ oops' = (oops \/ dev # "live" \/ held["regs"] < 1)

(***************************************************************************)
(* What the core does with one master.                                     *)
(***************************************************************************)
Running == held["iommu"] > 0 /\ ~suspended

OfXlate(m) ==
    /\ Running /\ dev = "live" /\ master[m] = "out"
    /\ master' = [master EXCEPT ![m] = "owned"]
    /\ UnchangedHw
    /\ UNCHANGED <<driver, probe, dev, held, resv, bypass, suspended, probes, clocked, unset, oops, excuse>>

(* A failed iommu_group_alloc stays in global_group for good. *)
DeviceGroup(m) ==
    /\ Running /\ master[m] = "owned"
    /\ \/ group = "NULL" /\ group' \in {"NULL", "live", "error"}
       \/ group # "NULL" /\ group' = group
    /\ master' = [master EXCEPT ![m] = IF group' = "live" THEN "grouped" ELSE "out"]
    /\ UNCHANGED <<driver, probe, dev, held, resv, domain, flag, bypass, hw, suspended,
                   probes, clocked, unset, hwfail, oops, excuse>>

(* One domain for everybody; the start of the hardware is tried when it has *)
(* just been made, and its failure only logged.                             *)
DomainAlloc(m, outcome) ==
    /\ Running /\ master[m] = "grouped"
    /\ IF domain # "NULL" THEN UNCHANGED <<domain, hw, flag, hwfail, unset>>
       ELSE /\ domain' = "live"
            /\ IF flag THEN UNCHANGED <<hw, flag, hwfail, unset>>
               ELSE HwInit("live", outcome)
    /\ master' = [master EXCEPT ![m] = "attached"]
    /\ UNCHANGED <<driver, probe, dev, held, resv, group, bypass, suspended, probes, clocked, oops, excuse>>

DomainAllocFails(m) ==
    /\ Running /\ master[m] = "grouped" /\ domain = "NULL"
    /\ master' = [master EXCEPT ![m] = "out"]
    /\ UnchangedHw
    /\ UNCHANGED <<driver, probe, dev, held, resv, bypass, suspended, probes, clocked, unset, oops, excuse>>

(* get_resv_regions, which walks rsv_list, then probe_finalize. *)
ProbeFinalize(m, on) ==
    /\ Running /\ master[m] = "attached"
    /\ IF resv
       THEN EnableDevice(m, on) /\ master' = [master EXCEPT ![m] = "in"] /\ UNCHANGED excuse
       ELSE /\ oops' = TRUE /\ excuse' = (excuse \/ probe = "registered")
            /\ master' = [master EXCEPT ![m] = "dead"]
            /\ UNCHANGED <<bypass, hw, unset>>
    /\ UNCHANGED <<driver, probe, dev, held, resv, domain, group, flag, suspended, probes, clocked, hwfail>>

ReleaseDevice(m) ==
    /\ Running /\ master[m] \in {"attached", "in"}
    /\ EnableDevice(m, FALSE)
    /\ master' = [master EXCEPT ![m] = "out"]
    /\ UNCHANGED <<driver, probe, dev, held, resv, domain, group, flag, suspended, probes, clocked, hwfail, excuse>>

(* A master's driver turns its translation on or off, also while it sleeps. *)
MasterSwitch(m, on) ==
    /\ master[m] = "in"
    /\ EnableDevice(m, on)
    /\ UNCHANGED <<driver, probe, dev, held, resv, domain, group, flag, master, suspended, probes, clocked, hwfail, excuse>>

(* The core drops the domain: the global pointer and the hardware's stay.   *)
DomainFree ==
    /\ Running /\ domain = "live"
    /\ domain' = "freed"
    /\ hw' = [hw EXCEPT !.ttb = IF @ = "live" THEN "freed" ELSE @]
    /\ oops' = (oops \/ dev # "live" \/ held["regs"] < 1)
    /\ UNCHANGED <<driver, probe, dev, held, resv, group, flag, bypass, master, suspended, probes, clocked, unset, hwfail, excuse>>

(***************************************************************************)
(* Suspend and resume; the registers may lose their contents in between.   *)
(***************************************************************************)
Suspend ==
    /\ probe \in {"bound", "hollow"} /\ ~suspended
    /\ suspended' = TRUE
    /\ held' = [held EXCEPT !["clk"] = @ - 1]
    /\ oops' = (oops \/ dev # "live")
    /\ \/ UNCHANGED <<hw, unset>>
       \/ \E b \in {{}, Masters} : hw' = [ttb |-> "NULL", enabled |-> FALSE, bypass |-> b] /\ unset' = Masters
    /\ UNCHANGED <<driver, probe, dev, resv, domain, group, flag, bypass, master, probes, clocked, hwfail, excuse>>

(* Faulty variant: the hardware is started again only if it never was. *)
ResumeTrustsFlag(outcome) ==
    /\ suspended /\ suspended' = FALSE
    /\ held' = [held EXCEPT !["clk"] = @ + 1]
    /\ oops' = (oops \/ dev # "live")
    /\ IF domain # "NULL" /\ ~flag THEN HwInit(domain, outcome) ELSE UNCHANGED <<hw, flag, hwfail, unset>>
    /\ UNCHANGED <<driver, probe, dev, resv, domain, group, bypass, master, probes, clocked, excuse>>

Resume(outcome) ==
    /\ suspended /\ suspended' = FALSE
    /\ held' = [held EXCEPT !["clk"] = @ + 1]
    /\ oops' = (oops \/ dev # "live")
    /\ IF domain # "NULL" THEN HwInit(domain, outcome) ELSE UNCHANGED <<hw, flag, hwfail, unset>>
    /\ UNCHANGED <<driver, probe, dev, resv, domain, group, bypass, master, probes, clocked, excuse>>

PowerNext ==
    \/ \E s \in Range(Stages) : ProbeFails(s)
    \/ ProbeRegisters \/ ProbeFinishes \/ Remove \/ DomainFree \/ Suspend
    \/ \E outcome \in Outcomes : Resume(outcome)
    \/ \E m \in Masters :
          \/ OfXlate(m) \/ DeviceGroup(m) \/ DomainAllocFails(m) \/ ReleaseDevice(m)
          \/ \E outcome \in Outcomes : DomainAlloc(m, outcome)
          \/ \E on \in BOOLEAN : ProbeFinalize(m, on) \/ MasterSwitch(m, on)

PowerSpec == PowerInit /\ [][PowerNext]_powerVars

--------------------------------------------------------------------------------
(* A master the driver does not bypass has its addresses translated by the  *)
(* live page table: through suspend with or without loss of the registers,  *)
(* another probe, and late masters.  Excused are a failed start of the      *)
(* hardware, never repeated before the next resume, and a freed domain.     *)
MasterTranslated ==
    ~suspended /\ ~oops =>
        \A m \in Masters : m \notin bypass =>
            \/ hw.enabled /\ hw.ttb = "live" /\ m \notin hw.bypass
            \/ hwfail \/ domain = "freed"

(* The bypass bits of the hardware are the driver's, whatever was written   *)
(* while the clock was off, for each master written since probe: all after  *)
(* the first write with v1 and v3, one by one with v2.                      *)
BypassFollows ==
    ~suspended => \A m \in Masters \ unset : m \in hw.bypass <=> m \in bypass

(* Nothing released or not yet there is used, unless probe had reported     *)
(* success on its error path, a master arrived between the registration and *)
(* the initialisation of rsv_list, or remove took the device from under its *)
(* masters.                                                                 *)
OopsExplained == oops => excuse

(* Whatever the order of failed and successful probes, removes, suspends:   *)
(* registers, interrupt and registration are held exactly by a live device, *)
(* the clock is given back by nobody and stays on once per probe that       *)
(* enabled it.                                                              *)
HeldExact ==
    ~excuse =>
        /\ \A r \in {"regs", "irq", "iommu"} : held[r] = IF probe \in {"registered", "bound"} THEN 1 ELSE 0
        /\ held["clk"] = clocked - (IF suspended THEN 1 ELSE 0)
        /\ held["cache"] >= (IF probe \in {"registered", "bound"} THEN 1 ELSE 0)
================================================================================
