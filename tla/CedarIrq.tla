------------------------------ MODULE CedarIrq ------------------------------
(***************************************************************************)
(* Completion interrupts of the video engine: VideoEngineInterupt, the     *)
(* ioctls WAIT_VE_DE, WAIT_VE_EN and WAIT_JPEG_DEC, and the writes of the  *)
(* same flags by cedardev_open and cedardev_release.                       *)
(*                                                                         *)
(* A client opens the device, holds the engine between ENGINE_REQ and      *)
(* ENGINE_REL (single steps here: CedarEngine has their inside), and under *)
(* the GET_LOCK mutex of an interrupt source programs a frame through the  *)
(* mapped registers and waits for it.  The handler runs on another CPU, so *)
(* its stores interleave with the steps of the waiter, in either order:    *)
(* they are plain stores without a barrier between them.                   *)
(***************************************************************************)
EXTENDS Integers, Sequences, FiniteSets

CONSTANTS
    Clients,      \* open files, one thread each
    NoOne,        \* owner of a free engine mutex
    IsrOrder,     \* the sources in the order the handler examines them
    Timeouts,     \* whether ve_timeout may elapse before the interrupt
    MaxOrphans    \* bound on the clients that die inside a session

Engines == {IsrOrder[i] : i \in 1..Len(IsrOrder)}

ASSUME IrqAssumption ==
    /\ NoOne \notin Clients /\ IsFiniteSet(Clients)
    /\ Len(IsrOrder) \in Nat \ {0}
    /\ \A i, j \in 1..Len(IsrOrder) : IsrOrder[i] = IsrOrder[j] => i = j
    /\ Timeouts \in BOOLEAN /\ MaxOrphans \in Nat

VARIABLES
    pc,          \* where each client is
    eng,         \* the source each client's frame runs on
    res,         \* what its last WAIT returned
    ref_count,   \* cedar_devp->ref_count
    orphans,     \* references of clients that died
    lock,        \* owner of the lock_vdec / lock_venc / lock_jdec mutex
    hw,          \* per source: "idle", "running" or "done" (status bit set)
    ien,         \* its interrupt enable bits
    irq_flag,    \* de_irq_flag, en_irq_flag, jpeg_irq_flag
    irq_value,   \* de_irq_value, en_irq_value, jpeg_irq_value
    isr,         \* handler: source under examination (0: not running), and
                 \* what it still has to store for it
    fresh,       \* history: the handler answered the last start
    leftover,    \* history: the flag was set, or on its way, at the start
    timedout,    \* history: the last WAIT timed out
    raced        \* history: a store of WAIT fell between those of the handler

vars == <<pc, eng, res, ref_count, orphans, lock, hw, ien, irq_flag, irq_value,
          isr, fresh, leftover, timedout, raced>>
clientVars == <<eng, res, timedout, raced>>
sessionVars == <<ref_count, orphans, lock>>
hwVars == <<hw, ien, fresh, leftover>>
flagVars == <<irq_flag, irq_value>>

Waiting == {"w_check", "w_test", "w_asleep", "w_clear", "w_ret"}
InSession == {"session", "started", "got"} \cup Waiting

Goto(c, l) == pc' = [pc EXCEPT ![c] = l]

\* The handler is between the two stores for source e.
Storing(e) == isr.at # 0 /\ IsrOrder[isr.at] = e /\ isr.todo \in {{"flag"}, {"value"}}
\* The handler has still something to do for source e.
Pending(e) == isr.at # 0 /\ IsrOrder[isr.at] = e /\ isr.hit

\* The answer of the last frame is of no use any more.
Forget(c) ==
    /\ eng' = [eng EXCEPT ![c] = IsrOrder[1]]
    /\ res' = [res EXCEPT ![c] = 0]
    /\ timedout' = [timedout EXCEPT ![c] = FALSE]
    /\ raced' = [raced EXCEPT ![c] = FALSE]
    /\ leftover' = [leftover EXCEPT ![eng[c]] = lock[eng[c]] # c /\ @]

NoIsr == [at |-> 0, hit |-> FALSE, todo |-> {}]

Init ==
    /\ pc = [c \in Clients |-> "closed"]
    /\ eng = [c \in Clients |-> IsrOrder[1]]
    /\ res = [c \in Clients |-> 0]
    /\ ref_count = 0 /\ orphans = 0
    /\ lock = [e \in Engines |-> NoOne]
    /\ hw = [e \in Engines |-> "idle"]
    /\ ien = [e \in Engines |-> FALSE]
    /\ irq_flag = [e \in Engines |-> 0]
    /\ irq_value = [e \in Engines |-> 0]
    /\ isr = NoIsr
    /\ fresh = [e \in Engines |-> FALSE]
    /\ leftover = [e \in Engines |-> FALSE]
    /\ timedout = [c \in Clients |-> FALSE]
    /\ raced = [c \in Clients |-> FALSE]

----------------------------------------------------------------------------
(* open, release and the session.                                          *)

\* Faulty variant: clears the flags while other files use the engine.
OpenUnguarded(c) ==
    /\ pc[c] = "closed"
    /\ irq_flag' = [e \in Engines |-> 0]
    /\ Goto(c, "open")
    /\ UNCHANGED <<irq_value, clientVars, sessionVars, hwVars, isr>>

Open(c) ==
    /\ pc[c] = "closed"
    /\ irq_flag' = IF ref_count = 0 THEN [e \in Engines |-> 0] ELSE irq_flag
    /\ Goto(c, "open")
    /\ UNCHANGED <<irq_value, clientVars, sessionVars, hwVars, isr>>

\* The file is closed by its owner, or by the kernel when the owner dies with
\* no ioctl in progress: its mutexes are freed, its reference is not.  The
\* flags of an engine nobody references are set, without a wake-up.
Release(c) ==
    /\ pc[c] \in {"open", "session", "started", "got"}
    /\ IF pc[c] = "open" THEN UNCHANGED orphans
       ELSE orphans < MaxOrphans /\ orphans' = orphans + 1
    /\ lock' = [e \in Engines |-> IF lock[e] = c THEN NoOne ELSE lock[e]]
    /\ irq_flag' = IF ref_count = 0 THEN [e \in Engines |-> 1] ELSE irq_flag
    /\ Forget(c)
    /\ Goto(c, "closed")
    /\ UNCHANGED <<irq_value, ref_count, hw, ien, fresh, isr>>

EngineReq(c) ==
    /\ pc[c] = "open"
    /\ ref_count' = ref_count + 1
    /\ Goto(c, "session")
    /\ UNCHANGED <<flagVars, clientVars, orphans, lock, hwVars, isr>>

\* The last release switches the engine off: nothing runs, nothing interrupts.
EngineRel(c) ==
    /\ pc[c] = "session"
    /\ ref_count' = ref_count - 1
    /\ IF ref_count' = 0
       THEN /\ hw' = [e \in Engines |-> "idle"]
            /\ ien' = [e \in Engines |-> FALSE]
       ELSE UNCHANGED <<hw, ien>>
    /\ Goto(c, "open")
    /\ UNCHANGED <<flagVars, clientVars, orphans, lock, fresh, leftover, isr>>

----------------------------------------------------------------------------
(* A frame: programmed through the mapped registers, run by the hardware.  *)

Start(c, e) ==
    /\ pc[c] = "session"
    /\ lock[e] = NoOne
    /\ lock' = [lock EXCEPT ![e] = c]
    /\ eng' = [eng EXCEPT ![c] = e]
    /\ hw' = [hw EXCEPT ![e] = "running"]
    /\ ien' = [ien EXCEPT ![e] = TRUE]
    /\ fresh' = [fresh EXCEPT ![e] = FALSE]
    /\ leftover' = [leftover EXCEPT ![e] = irq_flag[e] = 1 \/ Pending(e)]
    /\ Goto(c, "started")
    /\ UNCHANGED <<res, timedout, raced, ref_count, orphans, flagVars, isr>>

HwDone(e) ==
    /\ hw[e] = "running"
    /\ hw' = [hw EXCEPT ![e] = "done"]
    /\ UNCHANGED <<pc, clientVars, sessionVars, ien, fresh, leftover, flagVars, isr>>

\* The client has its answer and gives the engine mutex back.
Finish(c) ==
    /\ pc[c] = "got"
    /\ lock' = [lock EXCEPT ![eng[c]] = NoOne]
    /\ Forget(c)
    /\ Goto(c, "session")
    /\ UNCHANGED <<ref_count, orphans, hw, ien, fresh, flagVars, isr>>

----------------------------------------------------------------------------
(* VideoEngineInterupt.                                                    *)

Raised(e) == hw[e] = "done" /\ ien[e]

\* The interrupt line is level triggered.
IsrEnter ==
    /\ isr = NoIsr
    /\ \E e \in Engines : Raised(e)
    /\ isr' = [NoIsr EXCEPT !.at = 1]
    /\ UNCHANGED <<pc, clientVars, sessionVars, hwVars, flagVars>>

NextSource == IF isr.at = Len(IsrOrder) THEN NoIsr ELSE [NoIsr EXCEPT !.at = isr.at + 1]

IsrSkip ==
    /\ isr.at # 0 /\ ~isr.hit
    /\ ~Raised(IsrOrder[isr.at])
    /\ isr' = NextSource
    /\ UNCHANGED <<pc, clientVars, sessionVars, hwVars, flagVars>>

\* Faulty variant: leaves the source enabled.
IsrMaskKeepsEnabled ==
    /\ isr.at # 0 /\ ~isr.hit
    /\ LET e == IsrOrder[isr.at] IN
        /\ Raised(e)
        /\ fresh' = [fresh EXCEPT ![e] = TRUE]
    /\ isr' = [isr EXCEPT !.hit = TRUE, !.todo = {"value", "flag"}]
    /\ UNCHANGED <<pc, clientVars, sessionVars, hw, ien, leftover, flagVars>>

IsrMask ==
    /\ isr.at # 0 /\ ~isr.hit
    /\ LET e == IsrOrder[isr.at] IN
        /\ Raised(e)
        /\ ien' = [ien EXCEPT ![e] = FALSE]
        /\ fresh' = [fresh EXCEPT ![e] = TRUE]
    /\ isr' = [isr EXCEPT !.hit = TRUE, !.todo = {"value", "flag"}]
    /\ UNCHANGED <<pc, clientVars, sessionVars, hw, leftover, flagVars>>

IsrStore(w) ==
    /\ w \in isr.todo
    /\ IF w = "flag"
       THEN irq_flag' = [irq_flag EXCEPT ![IsrOrder[isr.at]] = 1] /\ UNCHANGED irq_value
       ELSE irq_value' = [irq_value EXCEPT ![IsrOrder[isr.at]] = 1] /\ UNCHANGED irq_flag
    /\ isr' = [isr EXCEPT !.todo = @ \ {w}]
    /\ UNCHANGED <<pc, clientVars, sessionVars, hwVars>>

\* Faulty variant: forgets wake_up.
IsrNoWake ==
    /\ isr.hit /\ isr.todo = {}
    /\ isr' = NextSource
    /\ UNCHANGED <<pc, clientVars, sessionVars, hwVars, flagVars>>

\* wake_up(&wait_ve): every sleeper looks at its flag again.
IsrWake ==
    /\ isr.hit /\ isr.todo = {}
    /\ pc' = [c \in Clients |-> IF pc[c] = "w_asleep" THEN "w_test" ELSE pc[c]]
    /\ isr' = NextSource
    /\ UNCHANGED <<clientVars, sessionVars, hwVars, flagVars>>

----------------------------------------------------------------------------
(* The WAIT ioctls.                                                        *)

WaitZero(c) ==
    /\ pc[c] = "started"
    /\ irq_value' = [irq_value EXCEPT ![eng[c]] = 0]
    /\ raced' = [raced EXCEPT ![c] = Storing(eng[c])]
    /\ Goto(c, "w_check")
    /\ UNCHANGED <<eng, res, timedout, sessionVars, hwVars, irq_flag, isr>>

\* Faulty variant: no second look at the flag.
WaitCheckSkipped(c) ==
    /\ pc[c] = "w_check"
    /\ Goto(c, "w_test")
    /\ UNCHANGED <<flagVars, clientVars, sessionVars, hwVars, isr>>

\* Faulty variant: sets the value whatever the flag.
WaitCheckAlwaysOne(c) ==
    /\ pc[c] = "w_check"
    /\ irq_value' = [irq_value EXCEPT ![eng[c]] = 1]
    /\ Goto(c, "w_test")
    /\ UNCHANGED <<irq_flag, clientVars, sessionVars, hwVars, isr>>

WaitCheck(c) ==
    /\ pc[c] = "w_check"
    /\ irq_value' = IF irq_flag[eng[c]] = 1 THEN [irq_value EXCEPT ![eng[c]] = 1] ELSE irq_value
    /\ Goto(c, "w_test")
    /\ UNCHANGED <<irq_flag, clientVars, sessionVars, hwVars, isr>>

\* wait_event_timeout tests the flag and sleeps in one step.
WaitTest(c) ==
    /\ pc[c] = "w_test"
    /\ Goto(c, IF irq_flag[eng[c]] = 1 THEN "w_clear" ELSE "w_asleep")
    /\ UNCHANGED <<flagVars, clientVars, sessionVars, hwVars, isr>>

WaitTimeout(c) ==
    /\ Timeouts
    /\ pc[c] = "w_asleep"
    /\ timedout' = [timedout EXCEPT ![c] = TRUE]
    /\ Goto(c, "w_clear")
    /\ UNCHANGED <<flagVars, eng, res, raced, sessionVars, hwVars, isr>>

WaitClear(c) ==
    /\ pc[c] = "w_clear"
    /\ irq_flag' = [irq_flag EXCEPT ![eng[c]] = 0]
    /\ Goto(c, "w_ret")
    /\ UNCHANGED <<irq_value, clientVars, sessionVars, hwVars, isr>>

WaitReturn(c) ==
    /\ pc[c] = "w_ret"
    /\ res' = [res EXCEPT ![c] = irq_value[eng[c]]]
    /\ raced' = [raced EXCEPT ![c] = @ \/ Storing(eng[c])]
    /\ Goto(c, "got")
    /\ UNCHANGED <<flagVars, eng, timedout, sessionVars, hwVars, isr>>

Wait(c) ==
    \/ WaitZero(c) \/ WaitCheck(c) \/ WaitTest(c) \/ WaitClear(c) \/ WaitReturn(c)

Handler == IsrEnter \/ IsrSkip \/ IsrMask \/ (\E w \in {"flag", "value"} : IsrStore(w)) \/ IsrWake

Next ==
    \/ \E c \in Clients :
        \/ Open(c) \/ Release(c) \/ EngineReq(c) \/ EngineRel(c)
        \/ \E e \in Engines : Start(c, e)
        \/ Wait(c) \/ WaitTimeout(c) \/ Finish(c)
    \/ \E e \in Engines : HwDone(e)
    \/ Handler

Spec == Init /\ [][Next]_vars

\* The hardware finishes every frame, the handler and a WAIT in progress run.
\* No timeout is assumed: a waiter must not depend on it.
FairSpec ==
    /\ Spec
    /\ \A e \in Engines : WF_vars(HwDone(e))
    /\ WF_vars(Handler)
    /\ \A c \in Clients : WF_vars(pc[c] \in Waiting /\ Wait(c))

----------------------------------------------------------------------------
(* Properties.                                                             *)

\* The values of the driver's variables; ref_count counts the sessions, the
\* ones whose client died included.
TypeOK ==
    /\ pc \in [Clients -> {"closed", "open"} \cup InSession]
    /\ eng \in [Clients -> Engines]
    /\ res \in [Clients -> {0, 1}]
    /\ orphans \in 0..MaxOrphans
    /\ ref_count = Cardinality({c \in Clients : pc[c] \in InSession}) + orphans
    /\ lock \in [Engines -> Clients \cup {NoOne}]
    /\ hw \in [Engines -> {"idle", "running", "done"}]
    /\ ien \in [Engines -> BOOLEAN]
    /\ irq_flag \in [Engines -> {0, 1}]
    /\ irq_value \in [Engines -> {0, 1}]
    /\ isr \in [at : 0..Len(IsrOrder), hit : BOOLEAN, todo : SUBSET {"flag", "value"}]

\* No waiter sleeps through its completion: with its flag set, it is awake or
\* the handler is about to wake it.  This rests on release setting the flags,
\* without a wake-up, only when nobody holds a reference.
NoMissedWake ==
    \A c \in Clients : pc[c] = "w_asleep" /\ irq_flag[eng[c]] = 1 => Pending(eng[c])

\* From the start of a frame to the end of its WAIT only the handler sets the
\* flag, whatever other files are opened and closed: a WAIT that reports a
\* completion without an interrupt was misled by a flag set before the start.
OneIsExplained ==
    \A c \in Clients : pc[c] = "got" /\ res[c] = 1 => fresh[eng[c]] \/ leftover[eng[c]]

\* WAIT reports 0 only on a timeout, or when one of its accesses to the value
\* fell between the two stores of the handler on the other CPU.
ZeroIsExplained ==
    \A c \in Clients : pc[c] = "got" /\ res[c] = 0 => timedout[c] \/ raced[c]

\* Every start is answered at most once: the handler masks the source, so a
\* level-triggered interrupt does not come back before the next start.
OneAnswerPerStart == [][isr'.hit /\ ~isr.hit => ~fresh[IsrOrder[isr.at]]]_vars

\* Every WAIT ends, by its interrupt when no timeout comes first: no open or
\* close of another file clears the flag the waiter is about to see, and the
\* late interrupt of a frame that timed out does not starve the next one.
CompletionWakes == \A c \in Clients : pc[c] = "w_check" ~> pc[c] = "got"
============================================================================
