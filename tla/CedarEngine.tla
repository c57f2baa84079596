---------------------------- MODULE CedarEngine ----------------------------
(***************************************************************************)
(* Power and reference counting of the video engine (VE) in cedar_ve.c:    *)
(* cedardev_open, cedardev_release, IOCTL_ENGINE_REQ and IOCTL_ENGINE_REL  *)
(* under the semaphore cedar_devp->sem, the clock switch                   *)
(* enable_cedar_hw_clk / disable_cedar_hw_clk guarded by clk_status, the   *)
(* ioctls that bypass both, and system suspend and resume.                 *)
(*                                                                         *)
(* A thread is one REQ ... REL session of a user-space codec instance with *)
(* the device open; PM is the kernel's suspend/resume thread, which runs   *)
(* only while the freezer keeps every user thread out of the driver.       *)
(***************************************************************************)
EXTENDS Integers, FiniteSets

CONSTANTS
    Threads,     \* user-space threads that use /dev/cedar_dev
    PM,          \* the system suspend/resume thread
    NoOne,       \* owner of a free semaphore
    Engines,     \* interrupt sources: the de_, en_ and jpeg_irq_flag words
    Calls,       \* the optional calls the clients of a run make
    RefArgs,     \* arguments passed to IOCTL_SET_REFCOUNT
    MaxRef,      \* bound on |ref_count|, on lost sessions and on ve_clk
    ClkMayFail   \* whether clk_prepare_enable may return an error

OptionalCalls == {"abort", "unbalanced", "setref", "enable_ve", "disable_ve", "reset_ve"}

ASSUME ActorsAssumption == PM \notin Threads /\ NoOne \notin Threads \cup {PM}
ASSUME CallsAssumption == Calls \subseteq OptionalCalls
ASSUME BoundsAssumption == MaxRef \in Nat /\ RefArgs \subseteq Int /\ ClkMayFail \in BOOLEAN
ASSUME ThreadsAssumption == IsFiniteSet(Threads)

VARIABLES
    pc,          \* where each thread, and PM, is in the driver
    ret,         \* result of the call in progress, "ok" or "err"
    tmp,         \* ref_count as loaded by ref_count++ or ref_count--, else 0
    sem,         \* cedar_devp->sem: the thread inside it, or NoOne
    ref_count,   \* cedar_devp->ref_count
    clk_status,  \* the static clk_status
    clk,         \* enable count of bus_clk, mbus_clk and ve_clk
    rst,         \* whether the VE reset line is asserted
    rpm,         \* runtime PM usage count of the platform device
    irq_flag,    \* de_irq_flag, en_irq_flag, jpeg_irq_flag
    granted,     \* history: threads whose ENGINE_REQ succeeded
    lost         \* history: grants whose file was closed without ENGINE_REL

vars == <<pc, ret, tmp, sem, ref_count, clk_status, clk, rst, rpm,
          irq_flag, granted, lost>>
powerVars == <<clk_status, clk, rst, rpm>>
countVars == <<sem, ref_count, granted, lost>>

Actors == Threads \cup {PM}
Clks == {"bus", "mbus", "ve"}

\* Program points.  At "bus", "mbus" and "ve" that clock is enabled next.
Outside   == {"closed", "user"}
Blocked   == {"open_down", "close_down", "req_down", "rel_down"}
Enabling  == {"en_status"} \cup Clks
Disabling == {"dis_status", "dis_clks"}
InSem     == {"req_load", "req_inc", "req_done", "req_up",
              "rel_load", "rel_dec", "rel_up"} \cup Enabling \cup Disabling
PmPoints  == {"run", "suspended"} \cup Enabling \cup Disabling

Goto(a, l) == pc' = [pc EXCEPT ![a] = l]
Return(a, r, l) == Goto(a, l) /\ ret' = [ret EXCEPT ![a] = r]

\* The bound on ref_count: a call that would carry the count, or the value a
\* thread has loaded from it, out of these limits is not issued.
CountsWithin(lo, hi) ==
    /\ lo <= ref_count /\ ref_count <= hi
    /\ \A t \in Threads : lo <= tmp[t] /\ tmp[t] <= hi

\* User threads run only while the system is not suspended or suspending.
At(t, l) == pc[PM] = "run" /\ pc[t] = l

Init ==
    /\ pc = [a \in Actors |-> IF a = PM THEN "run" ELSE "closed"]
    /\ ret = [a \in Actors |-> "ok"]
    /\ tmp = [t \in Threads |-> 0]
    /\ sem = NoOne
    /\ ref_count = 0
    /\ clk_status = 0
    /\ clk = [c \in Clks |-> 0]
    /\ rst = TRUE
    /\ rpm = 0
    /\ irq_flag = [e \in Engines |-> 0]
    /\ granted = {}
    /\ lost = 0

----------------------------------------------------------------------------
(* The semaphore, and calls that start or give up waiting for it.          *)

\* Faulty variant: enters without waiting for the semaphore.
DownUnlocked(t, from, to) == At(t, from) /\ sem' = t /\ Goto(t, to)

Down(t, from, to) ==
    /\ At(t, from)
    /\ sem = NoOne
    /\ sem' = t
    /\ Goto(t, to)

Up(t, from) ==
    /\ At(t, from)
    /\ sem' = NoOne
    /\ Return(t, "ok", "user")

\* down_interruptible returns -EINTR on a signal: the call has no effect,
\* except that release ends with the file gone and its ve_info leaked.
Interrupted(t) ==
    /\ pc[PM] = "run"
    /\ pc[t] \in Blocked
    /\ Goto(t, IF pc[t] \in {"open_down", "close_down"} THEN "closed" ELSE "user")
    /\ UNCHANGED <<ret, tmp, countVars, powerVars, irq_flag>>

----------------------------------------------------------------------------
(* cedardev_open and cedardev_release.                                     *)

OpenCall(t) ==
    /\ At(t, "closed")
    /\ Goto(t, "open_down")
    /\ UNCHANGED <<ret, tmp, countVars, powerVars, irq_flag>>

\* Between down and up, open clears the three interrupt flags when nobody
\* holds a reference, and release sets them.
SetIrqFlags(v) ==
    irq_flag' = IF ref_count = 0 THEN [e \in Engines |-> v] ELSE irq_flag

Open(t) ==
    /\ At(t, "open_down")
    /\ sem = NoOne
    /\ SetIrqFlags(0)
    /\ Goto(t, "user")
    /\ UNCHANGED <<ret, tmp, countVars, powerVars>>

\* A close with the session still granted is a process that died between
\* ENGINE_REQ and ENGINE_REL: release leaves ref_count as it is.
CloseCall(t) ==
    /\ At(t, "user")
    /\ t \in granted => "abort" \in Calls /\ lost < MaxRef
    /\ granted' = granted \ {t}
    /\ lost' = IF t \in granted THEN lost + 1 ELSE lost
    /\ Goto(t, "close_down")
    /\ UNCHANGED <<ret, tmp, sem, ref_count, powerVars, irq_flag>>

Release(t) ==
    /\ At(t, "close_down")
    /\ sem = NoOne
    /\ SetIrqFlags(1)
    /\ Goto(t, "closed")
    /\ UNCHANGED <<ret, tmp, countVars, powerVars>>

----------------------------------------------------------------------------
(* enable_cedar_hw_clk and disable_cedar_hw_clk, called by a thread inside *)
(* the semaphore or by PM.                                                 *)

EnableExit(a) == IF a = PM THEN "run" ELSE "req_done"
DisableExit(a) == IF a = PM THEN "suspended" ELSE "rel_up"
NextClk == [bus |-> "mbus", mbus |-> "ve"]

\* Faulty variant: takes the power reference before it looks at clk_status.
EnableStatusTakesTwice(a) ==
    /\ pc[a] = "en_status"
    /\ clk_status' = 1 /\ rpm' = rpm + 1 /\ rst' = FALSE
    /\ Return(a, "ok", IF clk_status = 1 THEN EnableExit(a) ELSE "bus")
    /\ UNCHANGED <<tmp, countVars, clk, irq_flag>>

EnableStatus(a) ==
    /\ pc[a] = "en_status"
    /\ IF clk_status = 1
       THEN Return(a, "ok", EnableExit(a)) /\ UNCHANGED <<clk_status, rst, rpm>>
       ELSE /\ clk_status' = 1
            /\ rpm' = rpm + 1
            /\ rst' = FALSE
            /\ Return(a, "ok", "bus")
    /\ UNCHANGED <<tmp, countVars, clk, irq_flag>>

EnableClk(a) ==
    /\ pc[a] \in Clks
    /\ clk' = [clk EXCEPT ![pc[a]] = @ + 1]
    /\ Goto(a, IF pc[a] = "ve" THEN EnableExit(a) ELSE NextClk[pc[a]])
    /\ UNCHANGED <<ret, tmp, countVars, clk_status, rst, rpm, irq_flag>>

\* A failing clk_prepare_enable returns at once: clk_status stays 1 and the
\* clocks enabled so far stay on.
EnableClkFails(a) ==
    /\ ClkMayFail
    /\ pc[a] \in Clks
    /\ Return(a, "err", EnableExit(a))
    /\ UNCHANGED <<tmp, countVars, powerVars, irq_flag>>

DisableStatus(a) ==
    /\ pc[a] = "dis_status"
    /\ clk_status' = 0
    /\ Return(a, "ok", IF clk_status = 0 THEN DisableExit(a) ELSE "dis_clks")
    /\ UNCHANGED <<tmp, countVars, clk, rst, rpm, irq_flag>>

\* clk_disable_unprepare of a clock that is off warns and changes nothing.
ClkOff(n) == IF n = 0 THEN 0 ELSE n - 1

\* Faulty variant: forgets mbus_clk.
DisableClksForgetsMbus(a) ==
    /\ pc[a] = "dis_clks"
    /\ clk' = [c \in Clks |-> IF c = "mbus" THEN clk[c] ELSE ClkOff(clk[c])]
    /\ rst' = TRUE /\ rpm' = rpm - 1
    /\ Goto(a, DisableExit(a))
    /\ UNCHANGED <<ret, tmp, countVars, clk_status, irq_flag>>

DisableClks(a) ==
    /\ pc[a] = "dis_clks"
    /\ clk' = [c \in Clks |-> ClkOff(clk[c])]
    /\ rst' = TRUE
    /\ rpm' = rpm - 1
    /\ Goto(a, DisableExit(a))
    /\ UNCHANGED <<ret, tmp, countVars, clk_status, irq_flag>>

----------------------------------------------------------------------------
(* IOCTL_ENGINE_REQ.                                                       *)

ReqCall(t) ==
    /\ At(t, "user")
    /\ t \notin granted
    /\ CountsWithin(0 - MaxRef, MaxRef - 1)
    /\ Goto(t, "req_down")
    /\ UNCHANGED <<ret, tmp, countVars, powerVars, irq_flag>>

ReqDown(t) ==
    /\ Down(t, "req_down", "req_load")
    /\ UNCHANGED <<ret, tmp, ref_count, granted, lost, powerVars, irq_flag>>

\* Faulty variant: returns with the semaphore held.
ReqLoadKeepsSem(t) ==
    /\ At(t, "req_load")
    /\ IF ref_count < 0
       THEN Goto(t, "user") /\ UNCHANGED tmp
       ELSE Goto(t, "req_inc") /\ tmp' = [tmp EXCEPT ![t] = ref_count]
    /\ UNCHANGED <<ret, countVars, powerVars, irq_flag>>

ReqLoad(t) ==
    /\ At(t, "req_load")
    /\ IF ref_count < 0
       THEN Return(t, "err", "req_up") /\ UNCHANGED tmp
       ELSE Goto(t, "req_inc") /\ tmp' = [tmp EXCEPT ![t] = ref_count] /\ UNCHANGED ret
    /\ UNCHANGED <<countVars, powerVars, irq_flag>>

ReqInc(t) ==
    /\ At(t, "req_inc")
    /\ ref_count' = tmp[t] + 1
    /\ Return(t, "ok", IF ref_count' = 1 THEN "en_status" ELSE "req_done")
    /\ tmp' = [tmp EXCEPT ![t] = 0]
    /\ UNCHANGED <<sem, granted, lost, powerVars, irq_flag>>

\* Faulty variant: a failed request keeps its reference.
ReqDoneKeepsRef(t) ==
    /\ At(t, "req_done")
    /\ granted' = IF ret[t] = "err" THEN granted ELSE granted \cup {t}
    /\ Goto(t, "req_up")
    /\ UNCHANGED <<ret, tmp, sem, ref_count, lost, powerVars, irq_flag>>

\* The caller gives its reference back when the clocks could not be enabled.
ReqDone(t) ==
    /\ At(t, "req_done")
    /\ ref_count' = IF ret[t] = "err" THEN ref_count - 1 ELSE ref_count
    /\ granted' = IF ret[t] = "err" THEN granted ELSE granted \cup {t}
    /\ Goto(t, "req_up")
    /\ UNCHANGED <<ret, tmp, sem, lost, powerVars, irq_flag>>

ReqUp(t) ==
    /\ Up(t, "req_up")
    /\ UNCHANGED <<tmp, ref_count, granted, lost, powerVars, irq_flag>>

----------------------------------------------------------------------------
(* IOCTL_ENGINE_REL.                                                       *)

RelCall(t) ==
    /\ At(t, "user")
    /\ t \in granted \/ ("unbalanced" \in Calls /\ CountsWithin(1 - MaxRef, MaxRef))
    /\ Goto(t, "rel_down")
    /\ UNCHANGED <<ret, tmp, countVars, powerVars, irq_flag>>

RelDown(t) ==
    /\ Down(t, "rel_down", "rel_load")
    /\ UNCHANGED <<ret, tmp, ref_count, granted, lost, powerVars, irq_flag>>

RelLoad(t) ==
    /\ At(t, "rel_load")
    /\ tmp' = [tmp EXCEPT ![t] = ref_count]
    /\ Goto(t, "rel_dec")
    /\ UNCHANGED <<ret, countVars, powerVars, irq_flag>>

\* A count below zero is stored, reported and left there.
RelDec(t) ==
    /\ At(t, "rel_dec")
    /\ ref_count' = tmp[t] - 1
    /\ granted' = granted \ {t}
    /\ Return(t, IF ref_count' < 0 THEN "err" ELSE "ok",
                 IF ref_count' = 0 THEN "dis_status" ELSE "rel_up")
    /\ tmp' = [tmp EXCEPT ![t] = 0]
    /\ UNCHANGED <<sem, lost, powerVars, irq_flag>>

RelUp(t) ==
    /\ Up(t, "rel_up")
    /\ UNCHANGED <<tmp, ref_count, granted, lost, powerVars, irq_flag>>

----------------------------------------------------------------------------
(* Ioctls that touch the same state without the semaphore.                 *)

SetRefcount(t) ==
    /\ At(t, "user")
    /\ "setref" \in Calls
    /\ \E arg \in RefArgs : ref_count' = arg
    /\ UNCHANGED <<pc, ret, tmp, sem, granted, lost, powerVars, irq_flag>>

EnableVe(t) ==
    /\ At(t, "user")
    /\ "enable_ve" \in Calls /\ clk["ve"] < MaxRef
    /\ clk' = [clk EXCEPT !["ve"] = @ + 1]
    /\ UNCHANGED <<pc, ret, tmp, countVars, clk_status, rst, rpm, irq_flag>>

DisableVe(t) ==
    /\ At(t, "user")
    /\ "disable_ve" \in Calls
    /\ clk' = [clk EXCEPT !["ve"] = ClkOff(@)]
    /\ UNCHANGED <<pc, ret, tmp, countVars, clk_status, rst, rpm, irq_flag>>

\* reset_control_reset pulses the line and leaves it deasserted.
ResetVe(t) ==
    /\ At(t, "user")
    /\ "reset_ve" \in Calls
    /\ rst' = FALSE
    /\ UNCHANGED <<pc, ret, tmp, countVars, clk_status, clk, rpm, irq_flag>>

----------------------------------------------------------------------------
(* sunxi_cedar_suspend and sunxi_cedar_resume.                             *)

Suspend ==
    /\ pc[PM] = "run"
    /\ \A t \in Threads : pc[t] \in Outside
    /\ Return(PM, "ok", "dis_status")
    /\ UNCHANGED <<tmp, countVars, powerVars, irq_flag>>

\* Faulty variant: leaves the clocks to the next request.
ResumeForgetsClocks ==
    /\ pc[PM] = "suspended"
    /\ Goto(PM, "run")
    /\ UNCHANGED <<ret, tmp, countVars, powerVars, irq_flag>>

Resume ==
    /\ pc[PM] = "suspended"
    /\ Goto(PM, IF ref_count = 0 THEN "run" ELSE "en_status")
    /\ UNCHANGED <<ret, tmp, countVars, powerVars, irq_flag>>

Switch(a) ==
    \/ EnableStatus(a) \/ EnableClk(a) \/ EnableClkFails(a)
    \/ DisableStatus(a) \/ DisableClks(a)

ReqStep(t) == ReqDown(t) \/ ReqLoad(t) \/ ReqInc(t) \/ ReqDone(t) \/ ReqUp(t)
RelStep(t) == RelDown(t) \/ RelLoad(t) \/ RelDec(t) \/ RelUp(t)

Next ==
    \/ \E t \in Threads :
        \/ OpenCall(t) \/ Open(t) \/ CloseCall(t) \/ Release(t) \/ Interrupted(t)
        \/ ReqCall(t) \/ ReqStep(t) \/ RelCall(t) \/ RelStep(t)
        \/ SetRefcount(t) \/ EnableVe(t) \/ DisableVe(t) \/ ResetVe(t)
    \/ \E a \in Actors : Switch(a)
    \/ Suspend \/ Resume

Spec == Init /\ [][Next]_vars

\* A thread inside the semaphore runs on, and the semaphore wakes its waiters
\* in FIFO order, so that a request is not overtaken for ever.
Inside(t) ==
    \/ ReqLoad(t) \/ ReqInc(t) \/ ReqDone(t) \/ ReqUp(t)
    \/ RelLoad(t) \/ RelDec(t) \/ RelUp(t) \/ Switch(t)

Fairness == \A t \in Threads : WF_vars(Inside(t)) /\ SF_vars(ReqDown(t))

FairSpec == Spec /\ Fairness

----------------------------------------------------------------------------
(* Properties.                                                             *)

\* The values the driver's variables can take; the enable counts of the
\* clocks and the runtime PM usage count never go below zero.
TypeOK ==
    /\ pc \in [Actors -> Outside \cup Blocked \cup InSem \cup PmPoints]
    /\ \A t \in Threads : pc[t] \in Outside \cup Blocked \cup InSem
    /\ pc[PM] \in PmPoints
    /\ ret \in [Actors -> {"ok", "err"}]
    /\ tmp \in [Threads -> Int]
    /\ sem \in Threads \cup {NoOne}
    /\ ref_count \in Int
    /\ clk_status \in {0, 1}
    /\ clk \in [Clks -> Nat]
    /\ rst \in BOOLEAN
    /\ rpm \in Nat
    /\ irq_flag \in [Engines -> {0, 1}]
    /\ granted \subseteq Threads
    /\ lost \in Nat

\* Threads whose reference is in ref_count: the granted ones and the one that
\* has incremented it and is still switching the clocks on.
Counted == granted \cup {t \in Threads : pc[t] \in Enabling \cup {"req_done"}}

\* ref_count is exactly the number of sessions that hold the engine plus the
\* orphaned ones, at every step of REQ and REL and also when a clock fails
\* and the request takes its reference back (balanced clients only).
RefCountExact == ref_count = Cardinality(Counted) + lost

ClksOn == \A c \in Clks : clk[c] > 0

\* From the success of ENGINE_REQ to the decrement in ENGINE_REL the engine is
\* clocked, out of reset and runtime-resumed, whatever other sessions, dying
\* processes, suspend and resume do meanwhile.
HolderClocked ==
    pc[PM] = "run" /\ granted # {} => ClksOn /\ ~rst /\ rpm = 1

\* With no reference left and nobody in the semaphore, or suspended, every
\* clock is off, the engine is in reset and the power domain is released.
IdleUnclocked ==
    \/ pc[PM] = "run" /\ sem = NoOne /\ ref_count = 0
    \/ pc[PM] = "suspended"
    => (\A c \in Clks : clk[c] = 0) /\ rst /\ rpm = 0

\* clk_status = 0 means that the hardware is off, even after a failed enable,
\* an unbalanced release or a forced reference count: no clock stays on and no
\* power reference stays taken that a later enable would take a second time.
OffMeansOff ==
    clk_status = 0 /\ (\A a \in Actors : pc[a] # "dis_clks")
    => (\A c \in Clks : clk[c] = 0) /\ rst /\ rpm = 0

\* The runtime PM reference is taken once per clk_status = 1, whatever the
\* clients do: it is neither leaked by a failing clk_prepare_enable nor put
\* twice by ENGINE_REL and suspend.
RpmFollowsStatus ==
    rpm = IF clk_status = 1 \/ \E a \in Actors : pc[a] = "dis_clks" THEN 1 ELSE 0

\* Every ENGINE_REQ returns to its caller: no path through REQ, REL, open or
\* release leaves with the semaphore held, whatever fails on the way.
ReqReturns == \A t \in Threads : pc[t] = "req_down" ~> pc[t] \in Outside

\* The driver implements the service.  A session is a user of the service from
\* the step that completes its power-up to the step that completes the power
\* down (or to its decrement, when it is not the last).
ServiceUsers ==
    granted \cup {t \in Threads : \/ pc[t] = "req_done" /\ ret[t] = "ok"
                                 \/ pc[t] \in Disabling}
Powered == ClksOn /\ ~rst
Asleep == pc[PM] \in {"suspended"} \cup Enabling

Service == INSTANCE VeService WITH
    Clients <- Threads, users <- ServiceUsers, orphans <- lost,
    powered <- Powered, asleep <- Asleep

\* Every step of the driver is a step of the service or leaves it unchanged.
ImplementsService == Service!Spec
============================================================================
