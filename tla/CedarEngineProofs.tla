------------------------- MODULE CedarEngineProofs -------------------------
(***************************************************************************)
(* Proofs about CedarEngine, for every set of threads and every choice of  *)
(* calls.  Everything rests on two facts about who runs: the thread in a   *)
(* critical section is the semaphore's owner, and PM runs only while every *)
(* thread is outside the driver.                                           *)
(***************************************************************************)
EXTENDS CedarEngine, FiniteSetTheorems, TLAPS

\* The thread that is between down and up of cedar_devp->sem owns it.
SemOwner == \A t \in Threads : pc[t] \in InSem <=> sem = t

\* Suspend and resume find no thread inside the driver.
PmAlone == pc[PM] # "run" => \A t \in Threads : pc[t] \in Outside

\* disable_cedar_hw_clk has cleared clk_status before it touches a clock.
OffFirst == \A a \in Actors : pc[a] = "dis_clks" => clk_status = 0

PowerInv == TypeOK /\ SemOwner /\ PmAlone /\ OffFirst /\ RpmFollowsStatus

\* At most one actor is inside the clock switch.
OneSwitch ==
    \A a, b \in Actors : pc[a] \in Enabling \cup Disabling
                      /\ pc[b] \in Enabling \cup Disabling => a = b

LEMMA OneSwitchLemma == ASSUME PowerInv PROVE OneSwitch
  BY ActorsAssumption DEF PowerInv, TypeOK, SemOwner, PmAlone, OneSwitch, Actors, Outside, InSem, Enabling, Disabling, Clks, PmPoints

\* Init establishes the invariant: nothing is on and nobody is inside.
LEMMA PowerInit == Init => PowerInv
  BY ActorsAssumption DEF Init, PowerInv, TypeOK, SemOwner, PmAlone, OffFirst,
     RpmFollowsStatus, Actors, Outside, Blocked, InSem, PmPoints, Enabling, Disabling, Clks

\* Every step keeps it, one action at a time.
LEMMA PowerNext == PowerInv /\ [Next]_vars => PowerInv'
  <1> SUFFICES ASSUME PowerInv, [Next]_vars PROVE PowerInv'
    OBVIOUS
  <1> USE ActorsAssumption, BoundsAssumption
      DEF PowerInv, TypeOK, SemOwner, PmAlone, OffFirst, RpmFollowsStatus, Actors, At,
          Goto, Return, Outside, Blocked, InSem, PmPoints, Enabling, Disabling, Clks,
          countVars, powerVars
  <1>1. ASSUME NEW t \in Threads, OpenCall(t) PROVE PowerInv'
    BY <1>1 DEF OpenCall
  <1>2. ASSUME NEW t \in Threads, Open(t) PROVE PowerInv'
    BY <1>2 DEF Open, SetIrqFlags
  <1>3. ASSUME NEW t \in Threads, CloseCall(t) PROVE PowerInv'
    BY <1>3 DEF CloseCall
  <1>4. ASSUME NEW t \in Threads, Release(t) PROVE PowerInv'
    BY <1>4 DEF Release, SetIrqFlags
  <1>5. ASSUME NEW t \in Threads, Interrupted(t) PROVE PowerInv'
    BY <1>5 DEF Interrupted
  <1>6. ASSUME NEW t \in Threads, ReqCall(t) PROVE PowerInv'
    BY <1>6 DEF ReqCall
  <1>7. ASSUME NEW t \in Threads, ReqDown(t) PROVE PowerInv'
    BY <1>7 DEF ReqDown, Down
  <1>8. ASSUME NEW t \in Threads, ReqLoad(t) PROVE PowerInv'
    BY <1>8 DEF ReqLoad
  <1>9. ASSUME NEW t \in Threads, ReqInc(t) PROVE PowerInv'
    BY <1>9 DEF ReqInc
  <1>10. ASSUME NEW t \in Threads, ReqDone(t) PROVE PowerInv'
    BY <1>10 DEF ReqDone
  <1>11. ASSUME NEW t \in Threads, ReqUp(t) PROVE PowerInv'
    BY <1>11 DEF ReqUp, Up
  <1>12. ASSUME NEW t \in Threads, RelCall(t) PROVE PowerInv'
    BY <1>12 DEF RelCall
  <1>13. ASSUME NEW t \in Threads, RelDown(t) PROVE PowerInv'
    BY <1>13 DEF RelDown, Down
  <1>14. ASSUME NEW t \in Threads, RelLoad(t) PROVE PowerInv'
    BY <1>14 DEF RelLoad
  <1>15. ASSUME NEW t \in Threads, RelDec(t) PROVE PowerInv'
    BY <1>15 DEF RelDec
  <1>16. ASSUME NEW t \in Threads, RelUp(t) PROVE PowerInv'
    BY <1>16 DEF RelUp, Up
  <1>17. ASSUME NEW t \in Threads, SetRefcount(t) PROVE PowerInv'
    BY <1>17 DEF SetRefcount
  <1>18. ASSUME NEW t \in Threads, EnableVe(t) PROVE PowerInv'
    BY <1>18 DEF EnableVe
  <1>19. ASSUME NEW t \in Threads, DisableVe(t) PROVE PowerInv'
    BY <1>19 DEF DisableVe, ClkOff
  <1>20. ASSUME NEW t \in Threads, ResetVe(t) PROVE PowerInv'
    BY <1>20 DEF ResetVe
  <1>21. ASSUME NEW a \in Actors, EnableStatus(a) PROVE PowerInv'
    <2>1. \A b \in Actors : pc[b] # "dis_clks"
      BY <1>21, OneSwitchLemma DEF EnableStatus, OneSwitch
    <2>2. CASE clk_status = 1
      BY <1>21, <2>2 DEF EnableStatus, EnableExit
    <2>3. CASE clk_status = 0
      <3>1. rpm = 0 /\ rpm' = 1 /\ clk_status' = 1 /\ pc' = [pc EXCEPT ![a] = "bus"]
        BY <1>21, <2>1, <2>3 DEF EnableStatus
      <3>2. \A b \in Actors : pc'[b] # "dis_clks"
        BY <2>1, <3>1
      <3>3. RpmFollowsStatus' /\ OffFirst'
        BY <3>1, <3>2
      <3>4. TypeOK' /\ SemOwner' /\ PmAlone'
        <4>1. TypeOK'
          <5>1. /\ pc' \in [Actors -> Outside \cup Blocked \cup InSem \cup PmPoints]
                /\ \A t \in Threads : pc'[t] \in Outside \cup Blocked \cup InSem
                /\ pc'[PM] \in PmPoints
            BY <3>1
          <5>2. ret' \in [Actors -> {"ok", "err"}]
            BY <1>21, <2>3 DEF EnableStatus
          <5>3. UNCHANGED <<tmp, sem, ref_count, clk, irq_flag, granted, lost>> /\ rst' \in BOOLEAN
            BY <1>21, <2>3 DEF EnableStatus
          <5>4. QED
            BY <3>1, <5>1, <5>2, <5>3
        <4>2. SemOwner'
          BY <1>21, <2>3, <3>1 DEF EnableStatus
        <4>3. PmAlone'
          BY <1>21, <2>3, <3>1 DEF EnableStatus
        <4>4. QED
          BY <4>1, <4>2, <4>3
      <3>5. QED
        BY <3>3, <3>4
    <2>4. QED
      BY <2>2, <2>3
  <1>22. ASSUME NEW a \in Actors, EnableClk(a) PROVE PowerInv'
    BY <1>22, OneSwitchLemma DEF EnableClk, EnableExit, NextClk, OneSwitch
  <1>23. ASSUME NEW a \in Actors, EnableClkFails(a) PROVE PowerInv'
    BY <1>23, OneSwitchLemma DEF EnableClkFails, EnableExit, OneSwitch
  <1>24. ASSUME NEW a \in Actors, DisableStatus(a) PROVE PowerInv'
    BY <1>24, OneSwitchLemma DEF DisableStatus, DisableExit, OneSwitch
  <1>25. ASSUME NEW a \in Actors, DisableClks(a) PROVE PowerInv'
    BY <1>25, OneSwitchLemma DEF DisableClks, DisableExit, ClkOff, OneSwitch
  <1>26. CASE Suspend
    BY <1>26 DEF Suspend
  <1>27. CASE Resume
    BY <1>27 DEF Resume
  <1>28. CASE UNCHANGED vars
    BY <1>28 DEF vars
  <1>29. QED
    BY <1>1, <1>2, <1>3, <1>4, <1>5, <1>6, <1>7, <1>8, <1>9, <1>10, <1>11, <1>12, <1>13, <1>14, <1>15, <1>16, <1>17, <1>18, <1>19, <1>20, <1>21, <1>22, <1>23, <1>24, <1>25, <1>26, <1>27, <1>28 DEF Next, ReqStep, RelStep, Switch

\* Type correctness, for every set of threads, every mix of calls and with
\* failing clocks: in particular no clock count and no runtime PM usage count
\* ever goes below zero.
THEOREM TypeCorrect == Spec => []TypeOK
  <1>1. PowerInv => TypeOK
    BY DEF PowerInv
  <1>2. QED
    BY PowerInit, PowerNext, <1>1, PTL DEF Spec

\* Whatever its clients do, the driver holds exactly one runtime PM reference
\* while clk_status is 1 or the switch-off is in progress, and none otherwise.
THEOREM RpmBalanced == Spec => []RpmFollowsStatus
  <1>1. PowerInv => RpmFollowsStatus
    BY DEF PowerInv
  <1>2. QED
    BY PowerInit, PowerNext, <1>1, PTL DEF Spec

----------------------------------------------------------------------------
(* clk_status and the hardware, when only the clock switch touches it.     *)

\* No client switches ve_clk on or pulses the reset line past clk_status.
SwitchOnly == Calls \cap {"enable_ve", "reset_ve"} = {}

\* The points at which the clocks are being switched.
Between == Clks \cup {"dis_clks"}

\* A clock is enabled at most once; the switch-on finds the clocks it has yet
\* to enable off, also when an earlier one stopped half way; and nothing is on
\* that clk_status does not account for.
ClksFollow ==
    /\ \A c \in Clks : clk[c] <= 1
    /\ \A a \in Actors :
        /\ pc[a] \in Clks => clk_status = 1 /\ clk["ve"] = 0
        /\ pc[a] \in {"bus", "mbus"} => clk["mbus"] = 0
        /\ pc[a] = "bus" => clk["bus"] = 0
    /\ clk_status = 0 /\ (\A a \in Actors : pc[a] # "dis_clks")
       => (\A c \in Clks : clk[c] = 0) /\ rst

OffInv == PowerInv /\ ClksFollow

\* A step outside the switch leaves it alone.
LEMMA ClksFrame ==
    ASSUME ClksFollow, UNCHANGED <<clk_status, clk, rst>>,
           \A a \in Actors : pc[a] \in Between \/ pc'[a] \in Between => pc'[a] = pc[a]
    PROVE  ClksFollow'
  BY DEF ClksFollow, Between, Clks

LEMMA OffNext == ASSUME SwitchOnly PROVE OffInv /\ [Next]_vars => OffInv'
  <1> SUFFICES ASSUME OffInv, [Next]_vars PROVE OffInv'
    OBVIOUS
  <1>a. PowerInv /\ TypeOK /\ OneSwitch /\ OffFirst /\ ClksFollow
    BY OneSwitchLemma DEF OffInv, PowerInv
  <1>s. SUFFICES ClksFollow'
    BY <1>a, PowerNext DEF OffInv
  <1>p. /\ pc \in [Actors -> Outside \cup Blocked \cup InSem \cup PmPoints]
        /\ clk \in [Clks -> Nat] /\ clk_status \in {0, 1} /\ PM \in Actors /\ Threads \subseteq Actors
    BY <1>a DEF TypeOK, Actors
  <1>1. ASSUME NEW t \in Threads,
               \/ OpenCall(t) \/ Open(t) \/ CloseCall(t) \/ Release(t) \/ Interrupted(t)
               \/ ReqCall(t) \/ RelCall(t) \/ SetRefcount(t)
        PROVE  ClksFollow'
    <2>1. UNCHANGED <<clk_status, clk, rst>>
      BY <1>1 DEF OpenCall, Open, CloseCall, Release, Interrupted, ReqCall, RelCall,
         SetRefcount, powerVars
    <2>2. \/ pc' = pc
          \/ /\ pc[t] \notin Between
             /\ \E l \in Outside \cup Blocked : pc' = [pc EXCEPT ![t] = l]
      BY <1>1 DEF OpenCall, Open, CloseCall, Release, Interrupted, ReqCall, RelCall,
         SetRefcount, At, Goto, Outside, Blocked, Between, Clks
    <2>3. \A a \in Actors : pc[a] \in Between \/ pc'[a] \in Between => pc'[a] = pc[a]
      BY <1>p, <2>2 DEF Outside, Blocked, Between, Clks
    <2>4. QED
      BY <1>a, <2>1, <2>3, ClksFrame
  <1>2. ASSUME NEW t \in Threads, ReqStep(t) \/ RelStep(t) PROVE ClksFollow'
    <2>1. UNCHANGED <<clk_status, clk, rst>>
      BY <1>2 DEF ReqStep, RelStep, ReqDown, ReqLoad, ReqInc, ReqDone, ReqUp, RelDown, RelLoad,
         RelDec, RelUp, powerVars
    <2>2. /\ pc[t] \notin Between
          /\ \E l \in {"req_load", "req_inc", "req_up", "req_done", "en_status", "rel_load",
                       "rel_dec", "rel_up", "dis_status", "user"} : pc' = [pc EXCEPT ![t] = l]
      BY <1>2 DEF ReqStep, RelStep, ReqDown, ReqLoad, ReqInc, ReqDone, ReqUp, RelDown, RelLoad,
         RelDec, RelUp, Down, Up, At, Goto, Return, Between, Clks
    <2>3. \A a \in Actors : pc[a] \in Between \/ pc'[a] \in Between => pc'[a] = pc[a]
      BY <1>p, <2>2 DEF Between, Clks
    <2>4. QED
      BY <1>a, <2>1, <2>3, ClksFrame
  <1>3. ASSUME NEW t \in Threads, EnableVe(t) \/ ResetVe(t) PROVE FALSE
    BY <1>3 DEF EnableVe, ResetVe, SwitchOnly
  <1>4. ASSUME NEW t \in Threads, DisableVe(t) PROVE ClksFollow'
    <2>1. /\ UNCHANGED <<pc, clk_status, rst>>
          /\ clk' = [clk EXCEPT !["ve"] = ClkOff(@)]
      BY <1>4 DEF DisableVe
    <2>2. /\ clk'["bus"] = clk["bus"] /\ clk'["mbus"] = clk["mbus"]
          /\ clk'["ve"] = IF clk["ve"] = 0 THEN 0 ELSE clk["ve"] - 1
      BY <1>p, <2>1 DEF ClkOff, Clks
    <2>3. clk["ve"] \in Nat
      BY <1>p DEF Clks
    <2>4. QED
      BY <1>a, <2>1, <2>2, <2>3 DEF ClksFollow, Clks
  <1>5. ASSUME NEW a \in Actors, EnableStatus(a) PROVE ClksFollow'
    <2>1. \A b \in Actors : b # a => pc[b] \notin Between
      BY <1>a, <1>5 DEF EnableStatus, OneSwitch, Enabling, Disabling, Between
    <2>2. CASE clk_status = 1
      <3>1. UNCHANGED <<clk_status, clk, rst>> /\ pc' = [pc EXCEPT ![a] = EnableExit(a)]
            /\ pc[a] = "en_status" /\ EnableExit(a) \in {"run", "req_done"}
        BY <1>5, <2>2 DEF EnableStatus, Return, Goto, EnableExit
      <3>2. \A b \in Actors : pc[b] \in Between \/ pc'[b] \in Between => pc'[b] = pc[b]
        BY <1>p, <3>1 DEF Between, Clks
      <3>3. QED
        BY <1>a, <3>1, <3>2, ClksFrame
    <2>3. CASE clk_status = 0
      <3>1. clk' = clk /\ clk_status' = 1 /\ pc' = [pc EXCEPT ![a] = "bus"] /\ pc[a] = "en_status"
        BY <1>5, <2>3 DEF EnableStatus, Return, Goto
      <3>2. \A c \in Clks : clk[c] = 0
        BY <1>a, <2>1, <2>3, <3>1 DEF ClksFollow, Between
      <3>3. QED
        BY <1>p, <2>1, <3>1, <3>2 DEF ClksFollow, Between, Clks
    <2>4. QED
      BY <1>p, <2>2, <2>3
  <1>6. ASSUME NEW a \in Actors, EnableClk(a) PROVE ClksFollow'
    <2>1. \A b \in Actors : b # a => pc[b] \notin Between
      BY <1>a, <1>6 DEF EnableClk, OneSwitch, Enabling, Disabling, Between
    <2>2. UNCHANGED <<clk_status, rst>> /\ pc[a] \in Clks
      BY <1>6 DEF EnableClk
    <2>3. clk_status = 1 /\ clk[pc[a]] = 0
      BY <1>a, <2>2 DEF ClksFollow, Clks
    <2>4. \A b \in Actors : b # a => pc'[b] = pc[b]
      BY <1>p, <1>6 DEF EnableClk, Goto
    <2>5. /\ \A c \in Clks : clk'[c] = IF c = pc[a] THEN 1 ELSE clk[c]
          /\ pc[a] = "bus" => pc'[a] = "mbus"
          /\ pc[a] = "mbus" => pc'[a] = "ve"
          /\ pc[a] = "ve" => pc'[a] \in {"run", "req_done"}
      BY <1>p, <1>6, <2>3 DEF EnableClk, EnableExit, NextClk, Goto, Clks
    <2>6. QED
      BY <1>a, <2>1, <2>2, <2>3, <2>4, <2>5 DEF ClksFollow, Between, Clks
  <1>7. ASSUME NEW a \in Actors, EnableClkFails(a) PROVE ClksFollow'
    <2>1. UNCHANGED <<clk_status, clk, rst>> /\ pc[a] \in Clks
      BY <1>7 DEF EnableClkFails, powerVars
    <2>2. clk_status = 1
      BY <1>a, <2>1 DEF ClksFollow
    <2>3. pc'[a] \in {"run", "req_done"} /\ \A b \in Actors : b # a => pc'[b] = pc[b]
      BY <1>p, <1>7 DEF EnableClkFails, Return, Goto, EnableExit
    <2>4. QED
      BY <1>a, <2>1, <2>2, <2>3 DEF ClksFollow, Clks
  <1>8. ASSUME NEW a \in Actors, DisableStatus(a) PROVE ClksFollow'
    <2>1. \A b \in Actors : b # a => pc[b] \notin Between
      BY <1>a, <1>8 DEF DisableStatus, OneSwitch, Enabling, Disabling, Between
    <2>2. /\ UNCHANGED <<clk, rst>> /\ pc[a] = "dis_status"
          /\ \A b \in Actors : b # a => pc'[b] = pc[b]
      BY <1>p, <1>8 DEF DisableStatus, Return, Goto
    <2>3. CASE clk_status = 1
      <3>1. pc'[a] = "dis_clks"
        BY <1>p, <1>8, <2>3 DEF DisableStatus, Return, Goto
      <3>2. QED
        BY <1>a, <2>1, <2>2, <3>1 DEF ClksFollow, Between, Clks
    <2>4. CASE clk_status = 0
      <3>1. pc'[a] \in {"suspended", "rel_up"} /\ clk_status' = clk_status
        BY <1>p, <1>8, <2>4 DEF DisableStatus, DisableExit, Return, Goto
      <3>2. \A b \in Actors : pc[b] \in Between \/ pc'[b] \in Between => pc'[b] = pc[b]
        BY <2>2, <3>1 DEF Between, Clks
      <3>3. QED
        BY <1>a, <2>2, <3>1, <3>2, ClksFrame
    <2>5. QED
      BY <1>p, <2>3, <2>4
  <1>9. ASSUME NEW a \in Actors, DisableClks(a) PROVE ClksFollow'
    <2>1. \A b \in Actors : b # a => pc[b] \notin Between
      BY <1>a, <1>9 DEF DisableClks, OneSwitch, Enabling, Disabling, Between
    <2>2. /\ rst' = TRUE /\ \A b \in Actors : b # a => pc'[b] = pc[b]
          /\ pc'[a] \in {"suspended", "rel_up"}
          /\ \A c \in Clks : clk'[c] = ClkOff(clk[c])
      BY <1>p, <1>9 DEF DisableClks, DisableExit, Goto
    <2>3. \A c \in Clks : clk'[c] = 0
      BY <1>a, <1>p, <2>2 DEF ClksFollow, ClkOff
    <2>4. QED
      BY <2>1, <2>2, <2>3 DEF ClksFollow, Between, Clks
  <1>10. CASE Suspend \/ Resume
    <2>1. UNCHANGED <<clk_status, clk, rst>>
      BY <1>10 DEF Suspend, Resume, powerVars
    <2>2. /\ pc[PM] \in {"run", "suspended"}
          /\ \E l \in {"dis_status", "run", "en_status"} : pc' = [pc EXCEPT ![PM] = l]
      BY <1>10 DEF Suspend, Resume, Return, Goto
    <2>3. \A a \in Actors : pc[a] \in Between \/ pc'[a] \in Between => pc'[a] = pc[a]
      BY <1>p, <2>2 DEF Between, Clks
    <2>4. QED
      BY <1>a, <2>1, <2>3, ClksFrame
  <1>11. CASE UNCHANGED vars
    BY <1>a, <1>11, ClksFrame DEF vars
  <1>12. QED
    BY <1>1, <1>2, <1>3, <1>4, <1>5, <1>6, <1>7, <1>8, <1>9, <1>10, <1>11 DEF Next, Switch

\* clk_status = 0 means that every clock is off, the engine is in reset and the
\* power reference is back, for any number of sessions and also after failed
\* enables, unbalanced releases, forced reference counts and dying processes,
\* as long as nobody calls IOCTL_ENABLE_VE or IOCTL_RESET_VE, which do not look
\* at clk_status.
THEOREM OffIsOff == ASSUME SwitchOnly PROVE Spec => []OffMeansOff
  <1>1. OffInv => OffMeansOff
    <2> SUFFICES ASSUME OffInv, clk_status = 0, \A a \in Actors : pc[a] # "dis_clks"
                 PROVE  (\A c \in Clks : clk[c] = 0) /\ rst /\ rpm = 0
      BY DEF OffMeansOff
    <2>1. (\A c \in Clks : clk[c] = 0) /\ rst
      BY DEF OffInv, ClksFollow
    <2>2. rpm = 0
      BY DEF OffInv, PowerInv, RpmFollowsStatus
    <2>3. QED
      BY <2>1, <2>2
  <1>2. Init => OffInv
    <2>1. Init => ClksFollow
      BY ActorsAssumption DEF Init, ClksFollow, Actors, Clks
    <2>2. QED
      BY <2>1, PowerInit DEF OffInv
  <1>3. OffInv /\ [Next]_vars => OffInv'
    BY OffNext
  <1>4. QED
    BY <1>1, <1>2, <1>3, PTL DEF Spec

----------------------------------------------------------------------------
(* The reference count of balanced clients.                                *)

\* No client releases what it did not request or overwrites ref_count.
Balanced == Calls \cap {"unbalanced", "setref"} = {}

\* The value a thread loaded is still current when it stores the new one.
LoadedCurrent == \A t \in Threads : pc[t] \in {"req_inc", "rel_dec"} => tmp[t] = ref_count

\* A granted thread is idle or on its way out; a releasing one is granted.
GrantedPoints ==
    \A t \in Threads :
        /\ t \in granted => pc[t] \in {"user", "req_up", "rel_down", "rel_load", "rel_dec"}
        /\ pc[t] \in {"rel_down", "rel_load", "rel_dec"} => t \in granted

RefInv == PowerInv /\ LoadedCurrent /\ GrantedPoints /\ RefCountExact

\* The counted threads form a finite set, so Cardinality is a natural number
\* that moves by one with each thread.
LEMMA CountedFinite ==
  ASSUME TypeOK
  PROVE  /\ IsFiniteSet(Counted)
         /\ Cardinality(Counted) \in Nat
         /\ \A t \in Threads \ Counted : Cardinality(Counted \cup {t}) = Cardinality(Counted) + 1
         /\ \A t \in Counted : Cardinality(Counted \ {t}) = Cardinality(Counted) - 1
  <1>1. Counted \subseteq Threads
    BY DEF TypeOK, Counted
  <1>2. IsFiniteSet(Counted)
    BY <1>1, ThreadsAssumption, FS_Subset
  <1>3. QED
    BY <1>2, FS_CardinalityType, FS_AddElement, FS_RemoveElement

LEMMA RefInit == Init => RefInv
  <1> SUFFICES ASSUME Init PROVE RefInv
    OBVIOUS
  <1>1. PowerInv
    BY PowerInit
  <1>2. Counted = {}
    BY ActorsAssumption DEF Init, Counted, Actors, Enabling, Clks
  <1>3. RefCountExact
    BY <1>2, FS_EmptySet DEF Init, RefCountExact
  <1>4. QED
    BY <1>1, <1>3, ActorsAssumption DEF Init, RefInv, LoadedCurrent, GrantedPoints, Actors

\* Every step of balanced clients keeps it.  Only four actions move the count:
\* an increment, a failed request, a release and the death of a holder.
LEMMA RefNext == ASSUME Balanced PROVE RefInv /\ [Next]_vars => RefInv'
  <1> SUFFICES ASSUME RefInv, [Next]_vars PROVE RefInv'
    OBVIOUS
  <1>0. PowerInv' /\ TypeOK
    BY PowerNext DEF RefInv, PowerInv
  <1> DEFINE Same == Counted' = Counted /\ ref_count' = ref_count /\ lost' = lost
  <1>same. ASSUME Same PROVE RefCountExact'
    BY <1>same DEF RefInv, RefCountExact
  <1> USE ActorsAssumption DEF Actors, At, Goto, Return, Outside, Blocked, InSem, Enabling, Disabling,
          Clks, countVars, powerVars, PmPoints
  <1>1. ASSUME NEW t \in Threads, ReqInc(t) PROVE RefInv'
    <2>1. t \notin Counted /\ Counted' = Counted \cup {t} /\ ref_count' = ref_count + 1 /\ lost' = lost
      BY <1>0, <1>1 DEF ReqInc, RefInv, GrantedPoints, LoadedCurrent, Counted, TypeOK
    <2>2. RefCountExact'
      BY <2>1, <1>0, CountedFinite DEF RefInv, RefCountExact, TypeOK
    <2>3. LoadedCurrent' /\ GrantedPoints'
      BY <1>0, <1>1 DEF ReqInc, RefInv, PowerInv, SemOwner, LoadedCurrent, GrantedPoints, TypeOK
    <2>4. QED
      BY <1>0, <2>2, <2>3 DEF RefInv
  <1>2. ASSUME NEW t \in Threads, ReqDone(t) PROVE RefInv'
    <2>1. t \in Counted
      BY <1>2 DEF ReqDone, Counted
    <2>2. CASE ret[t] = "err"
      <3>1. Counted' = Counted \ {t} /\ ref_count' = ref_count - 1 /\ lost' = lost
        BY <1>0, <1>2, <2>2 DEF ReqDone, RefInv, GrantedPoints, Counted, TypeOK
      <3>2. RefCountExact'
        BY <2>1, <3>1, <1>0, CountedFinite DEF RefInv, RefCountExact, TypeOK
      <3>3. LoadedCurrent' /\ GrantedPoints'
        BY <1>0, <1>2, <2>2 DEF ReqDone, RefInv, PowerInv, SemOwner, LoadedCurrent, GrantedPoints, TypeOK
      <3>4. QED
        BY <1>0, <3>2, <3>3 DEF RefInv
    <2>3. CASE ret[t] # "err"
      <3>1. Same
        BY <1>0, <1>2, <2>3 DEF ReqDone, Counted, TypeOK
      <3>2. LoadedCurrent' /\ GrantedPoints'
        BY <1>0, <1>2, <2>3 DEF ReqDone, RefInv, PowerInv, SemOwner, LoadedCurrent, GrantedPoints, TypeOK
      <3>3. QED
        BY <1>0, <1>same, <3>1, <3>2 DEF RefInv
    <2>4. QED
      BY <2>2, <2>3
  <1>3. ASSUME NEW t \in Threads, RelDec(t) PROVE RefInv'
    <2>1. t \in Counted /\ Counted' = Counted \ {t} /\ ref_count' = ref_count - 1 /\ lost' = lost
      BY <1>0, <1>3 DEF RelDec, RefInv, GrantedPoints, LoadedCurrent, Counted, TypeOK
    <2>2. RefCountExact'
      BY <2>1, <1>0, CountedFinite DEF RefInv, RefCountExact, TypeOK
    <2>3. LoadedCurrent' /\ GrantedPoints'
      BY <1>0, <1>3 DEF RelDec, RefInv, PowerInv, SemOwner, LoadedCurrent, GrantedPoints, TypeOK
    <2>4. QED
      BY <1>0, <2>2, <2>3 DEF RefInv
  <1>4. ASSUME NEW t \in Threads, CloseCall(t) PROVE RefInv'
    <2>1. LoadedCurrent' /\ GrantedPoints'
      BY <1>0, <1>4 DEF CloseCall, RefInv, LoadedCurrent, GrantedPoints, TypeOK
    <2>2. CASE t \in granted
      <3>1. t \in Counted /\ Counted' = Counted \ {t} /\ ref_count' = ref_count /\ lost' = lost + 1
        BY <1>0, <1>4, <2>2 DEF CloseCall, Counted, TypeOK
      <3>2. RefCountExact'
        BY <3>1, <1>0, CountedFinite DEF RefInv, RefCountExact, TypeOK
      <3>3. QED
        BY <1>0, <2>1, <3>2 DEF RefInv
    <2>3. CASE t \notin granted
      <3>1. Same
        BY <1>0, <1>4, <2>3 DEF CloseCall, Counted, TypeOK
      <3>2. QED
        BY <1>0, <1>same, <2>1, <3>1 DEF RefInv
    <2>4. QED
      BY <2>2, <2>3
  <1>5. ASSUME NEW t \in Threads, OpenCall(t) PROVE RefInv'
    <2>1. Same /\ LoadedCurrent' /\ GrantedPoints'
      BY <1>0, <1>5 DEF OpenCall, RefInv, PowerInv, SemOwner, LoadedCurrent, GrantedPoints, Counted, TypeOK
    <2>2. QED
      BY <1>0, <1>same, <2>1 DEF RefInv
  <1>6. ASSUME NEW t \in Threads, Open(t) PROVE RefInv'
    <2>1. Same /\ LoadedCurrent' /\ GrantedPoints'
      BY <1>0, <1>6 DEF Open, RefInv, PowerInv, SemOwner, LoadedCurrent, GrantedPoints, Counted, TypeOK
    <2>2. QED
      BY <1>0, <1>same, <2>1 DEF RefInv
  <1>7. ASSUME NEW t \in Threads, Release(t) PROVE RefInv'
    <2>1. Same /\ LoadedCurrent' /\ GrantedPoints'
      BY <1>0, <1>7 DEF Release, RefInv, PowerInv, SemOwner, LoadedCurrent, GrantedPoints, Counted, TypeOK
    <2>2. QED
      BY <1>0, <1>same, <2>1 DEF RefInv
  <1>8. ASSUME NEW t \in Threads, Interrupted(t) PROVE RefInv'
    <2>1. Same /\ LoadedCurrent' /\ GrantedPoints'
      BY <1>0, <1>8 DEF Interrupted, RefInv, PowerInv, SemOwner, LoadedCurrent, GrantedPoints, Counted, TypeOK
    <2>2. QED
      BY <1>0, <1>same, <2>1 DEF RefInv
  <1>9. ASSUME NEW t \in Threads, ReqCall(t) PROVE RefInv'
    <2>1. Same /\ LoadedCurrent' /\ GrantedPoints'
      BY <1>0, <1>9 DEF ReqCall, RefInv, PowerInv, SemOwner, LoadedCurrent, GrantedPoints, Counted, TypeOK
    <2>2. QED
      BY <1>0, <1>same, <2>1 DEF RefInv
  <1>10. ASSUME NEW t \in Threads, ReqDown(t) PROVE RefInv'
    <2>1. Same /\ LoadedCurrent' /\ GrantedPoints'
      BY <1>0, <1>10 DEF ReqDown, Down, RefInv, PowerInv, SemOwner, LoadedCurrent, GrantedPoints, Counted, TypeOK
    <2>2. QED
      BY <1>0, <1>same, <2>1 DEF RefInv
  <1>11. ASSUME NEW t \in Threads, ReqLoad(t) PROVE RefInv'
    <2>1. Same /\ LoadedCurrent' /\ GrantedPoints'
      BY <1>0, <1>11 DEF ReqLoad, RefInv, PowerInv, SemOwner, LoadedCurrent, GrantedPoints, Counted, TypeOK
    <2>2. QED
      BY <1>0, <1>same, <2>1 DEF RefInv
  <1>12. ASSUME NEW t \in Threads, ReqUp(t) PROVE RefInv'
    <2>1. Same /\ LoadedCurrent' /\ GrantedPoints'
      BY <1>0, <1>12 DEF ReqUp, Up, RefInv, PowerInv, SemOwner, LoadedCurrent, GrantedPoints, Counted, TypeOK
    <2>2. QED
      BY <1>0, <1>same, <2>1 DEF RefInv
  <1>13. ASSUME NEW t \in Threads, RelCall(t) PROVE RefInv'
    <2>1. Same /\ LoadedCurrent' /\ GrantedPoints'
      BY <1>0, <1>13 DEF RelCall, Balanced, RefInv, PowerInv, SemOwner, LoadedCurrent, GrantedPoints, Counted, TypeOK
    <2>2. QED
      BY <1>0, <1>same, <2>1 DEF RefInv
  <1>14. ASSUME NEW t \in Threads, RelDown(t) PROVE RefInv'
    <2>1. Same /\ LoadedCurrent' /\ GrantedPoints'
      BY <1>0, <1>14 DEF RelDown, Down, RefInv, PowerInv, SemOwner, LoadedCurrent, GrantedPoints, Counted, TypeOK
    <2>2. QED
      BY <1>0, <1>same, <2>1 DEF RefInv
  <1>15. ASSUME NEW t \in Threads, RelLoad(t) PROVE RefInv'
    <2>1. Same /\ LoadedCurrent' /\ GrantedPoints'
      BY <1>0, <1>15 DEF RelLoad, RefInv, PowerInv, SemOwner, LoadedCurrent, GrantedPoints, Counted, TypeOK
    <2>2. QED
      BY <1>0, <1>same, <2>1 DEF RefInv
  <1>16. ASSUME NEW t \in Threads, RelUp(t) PROVE RefInv'
    <2>1. Same /\ LoadedCurrent' /\ GrantedPoints'
      BY <1>0, <1>16 DEF RelUp, Up, RefInv, PowerInv, SemOwner, LoadedCurrent, GrantedPoints, Counted, TypeOK
    <2>2. QED
      BY <1>0, <1>same, <2>1 DEF RefInv
  <1>17. ASSUME NEW t \in Threads, SetRefcount(t) PROVE RefInv'
    <2>1. Same /\ LoadedCurrent' /\ GrantedPoints'
      BY <1>0, <1>17 DEF SetRefcount, Balanced, RefInv, PowerInv, SemOwner, LoadedCurrent, GrantedPoints, Counted, TypeOK
    <2>2. QED
      BY <1>0, <1>same, <2>1 DEF RefInv
  <1>18. ASSUME NEW t \in Threads, EnableVe(t) PROVE RefInv'
    <2>1. Same /\ LoadedCurrent' /\ GrantedPoints'
      BY <1>0, <1>18 DEF EnableVe, RefInv, PowerInv, SemOwner, LoadedCurrent, GrantedPoints, Counted, TypeOK
    <2>2. QED
      BY <1>0, <1>same, <2>1 DEF RefInv
  <1>19. ASSUME NEW t \in Threads, DisableVe(t) PROVE RefInv'
    <2>1. Same /\ LoadedCurrent' /\ GrantedPoints'
      BY <1>0, <1>19 DEF DisableVe, RefInv, PowerInv, SemOwner, LoadedCurrent, GrantedPoints, Counted, TypeOK
    <2>2. QED
      BY <1>0, <1>same, <2>1 DEF RefInv
  <1>20. ASSUME NEW t \in Threads, ResetVe(t) PROVE RefInv'
    <2>1. Same /\ LoadedCurrent' /\ GrantedPoints'
      BY <1>0, <1>20 DEF ResetVe, RefInv, PowerInv, SemOwner, LoadedCurrent, GrantedPoints, Counted, TypeOK
    <2>2. QED
      BY <1>0, <1>same, <2>1 DEF RefInv
  <1>21. ASSUME NEW a \in Actors, EnableStatus(a) PROVE RefInv'
    <2>1. Same /\ LoadedCurrent' /\ GrantedPoints'
      BY <1>0, <1>21 DEF EnableStatus, EnableExit, RefInv, PowerInv, SemOwner, LoadedCurrent, GrantedPoints, Counted, TypeOK
    <2>2. QED
      BY <1>0, <1>same, <2>1 DEF RefInv
  <1>22. ASSUME NEW a \in Actors, EnableClk(a) PROVE RefInv'
    <2>1. Same /\ LoadedCurrent' /\ GrantedPoints'
      BY <1>0, <1>22 DEF EnableClk, EnableExit, NextClk, RefInv, PowerInv, SemOwner, LoadedCurrent, GrantedPoints, Counted, TypeOK
    <2>2. QED
      BY <1>0, <1>same, <2>1 DEF RefInv
  <1>23. ASSUME NEW a \in Actors, EnableClkFails(a) PROVE RefInv'
    <2>1. Same /\ LoadedCurrent' /\ GrantedPoints'
      BY <1>0, <1>23 DEF EnableClkFails, EnableExit, RefInv, PowerInv, SemOwner, LoadedCurrent, GrantedPoints, Counted, TypeOK
    <2>2. QED
      BY <1>0, <1>same, <2>1 DEF RefInv
  <1>24. ASSUME NEW a \in Actors, DisableStatus(a) PROVE RefInv'
    <2>1. Same /\ LoadedCurrent' /\ GrantedPoints'
      BY <1>0, <1>24 DEF DisableStatus, DisableExit, RefInv, PowerInv, SemOwner, LoadedCurrent, GrantedPoints, Counted, TypeOK
    <2>2. QED
      BY <1>0, <1>same, <2>1 DEF RefInv
  <1>25. ASSUME NEW a \in Actors, DisableClks(a) PROVE RefInv'
    <2>1. Same /\ LoadedCurrent' /\ GrantedPoints'
      BY <1>0, <1>25 DEF DisableClks, DisableExit, RefInv, PowerInv, SemOwner, LoadedCurrent, GrantedPoints, Counted, TypeOK
    <2>2. QED
      BY <1>0, <1>same, <2>1 DEF RefInv
  <1>26. CASE Suspend
    <2>1. Same /\ LoadedCurrent' /\ GrantedPoints'
      BY <1>0, <1>26 DEF Suspend, RefInv, PowerInv, SemOwner, LoadedCurrent, GrantedPoints, Counted, TypeOK
    <2>2. QED
      BY <1>0, <1>same, <2>1 DEF RefInv
  <1>27. CASE Resume
    <2>1. Same /\ LoadedCurrent' /\ GrantedPoints'
      BY <1>0, <1>27 DEF Resume, RefInv, PowerInv, SemOwner, LoadedCurrent, GrantedPoints, Counted, TypeOK
    <2>2. QED
      BY <1>0, <1>same, <2>1 DEF RefInv
  <1>28. CASE UNCHANGED vars
    <2>1. Same /\ LoadedCurrent' /\ GrantedPoints'
      BY <1>28 DEF vars, RefInv, LoadedCurrent, GrantedPoints, Counted
    <2>2. QED
      BY <1>0, <1>same, <2>1 DEF RefInv
  <1>29. QED
    BY <1>1, <1>2, <1>3, <1>4, <1>5, <1>6, <1>7, <1>8, <1>9, <1>10, <1>11, <1>12, <1>13, <1>14, <1>15, <1>16, <1>17, <1>18, <1>19, <1>20, <1>21, <1>22, <1>23, <1>24, <1>25, <1>26, <1>27, <1>28 DEF Next, ReqStep, RelStep, Switch

\* For any number of balanced clients, dying ones included, and with clocks that
\* fail to start, ref_count is exactly the number of sessions that hold the
\* engine plus the number of sessions whose process died holding it.
THEOREM RefCountIsExact == ASSUME Balanced PROVE Spec => []RefCountExact
  <1>1. RefInv => RefCountExact
    BY DEF RefInv
  <1>2. RefInv /\ [Next]_vars => RefInv'
    BY RefNext
  <1>3. QED
    BY RefInit, <1>1, <1>2, PTL DEF Spec

----------------------------------------------------------------------------
(* Power follows the references, while no clock fails and no client        *)
(* switches ve_clk or the reset line by hand.                              *)

Plain == Calls \subseteq {"abort"} /\ ~ClkMayFail

Switching == {"bus", "mbus", "ve", "dis_clks"}
AllClks(n) == \A c \in Clks : clk[c] = n

\* What is on at each point inside the clock switch, and outside it.
PhaseClks ==
    /\ \A a \in Actors :
        /\ pc[a] = "bus"  => clk_status = 1 /\ ~rst /\ AllClks(0)
        /\ pc[a] = "mbus" => clk_status = 1 /\ ~rst /\ clk["bus"] = 1 /\ clk["mbus"] = 0 /\ clk["ve"] = 0
        /\ pc[a] = "ve"   => clk_status = 1 /\ ~rst /\ clk["bus"] = 1 /\ clk["mbus"] = 1 /\ clk["ve"] = 0
        /\ pc[a] = "dis_clks" => clk_status = 0 /\ ~rst /\ AllClks(1)
    /\ (\A a \in Actors : pc[a] \notin Switching) => AllClks(clk_status) /\ (rst <=> clk_status = 0)

\* How clk_status relates to ref_count at each point.
StatusFollowsRefs ==
    /\ \A t \in Threads :
        /\ pc[t] = "en_status"  => clk_status = 0
        /\ pc[t] \in Enabling   => ref_count = 1
        /\ pc[t] = "dis_status" => clk_status = 1
        /\ pc[t] \in Disabling  => ref_count = 0
        /\ pc[t] \in Enabling \cup {"req_done"} => ret[t] = "ok"
    /\ pc[PM] \in {"suspended", "en_status"} => clk_status = 0
    /\ pc[PM] \in Enabling => ref_count > 0
    /\ /\ pc[PM] \in {"run", "dis_status"}
       /\ \A t \in Threads : pc[t] \notin Enabling \cup Disabling
       => (clk_status = 1 <=> ref_count > 0)

PlainInv == RefInv /\ PhaseClks /\ StatusFollowsRefs

LEMMA PlainIsBalanced == Plain => Balanced
  BY DEF Plain, Balanced

\* A counted thread makes the count positive, two of them make it at least two.
LEMMA CountedPositive ==
  ASSUME RefInv
  PROVE  /\ ref_count >= lost /\ lost >= 0
         /\ \A t \in Counted : ref_count >= lost + 1
         /\ \A t, u \in Counted : t # u => ref_count >= lost + 2
         /\ Counted = {} => ref_count = lost
  <1>1. TypeOK /\ ref_count = Cardinality(Counted) + lost /\ lost \in Nat
    BY DEF RefInv, PowerInv, TypeOK, RefCountExact
  <1>2. ASSUME NEW t \in Counted
        PROVE /\ Cardinality(Counted) >= 1
              /\ \A u \in Counted : u # t => Cardinality(Counted) >= 2
    <2>1. /\ IsFiniteSet(Counted \ {t})
          /\ Cardinality(Counted \ {t}) \in Nat
          /\ Cardinality(Counted) = Cardinality(Counted \ {t}) + 1
      BY <1>1, <1>2, CountedFinite, FS_RemoveElement, FS_CardinalityType
    <2>2. ASSUME NEW u \in Counted, u # t PROVE Cardinality(Counted \ {t}) >= 1
      <3>1. Counted \ {t} # {}
        BY <2>2
      <3>2. QED
        BY <2>1, <3>1, FS_EmptySet
    <2>3. QED
      BY <2>1, <2>2
  <1>3. QED
    BY <1>1, <1>2, CountedFinite, FS_EmptySet

LEMMA PlainInit == Init => PlainInv
  BY RefInit, ActorsAssumption DEF Init, PlainInv, PhaseClks, StatusFollowsRefs, AllClks, Actors,
     Clks, Enabling, Disabling, Switching

LEMMA PlainNext == ASSUME Plain PROVE PlainInv /\ [Next]_vars => PlainInv'
  <1> SUFFICES ASSUME PlainInv, [Next]_vars PROVE PlainInv'
    OBVIOUS
  <1>a. RefInv' /\ RefInv /\ PowerInv /\ TypeOK /\ TypeOK' /\ OneSwitch
    BY PlainIsBalanced, RefNext, OneSwitchLemma DEF PlainInv, RefInv, PowerInv
  <1> USE ActorsAssumption DEF Actors, At, Goto, Return, Outside, Blocked, InSem, Enabling, Disabling,
          Clks, countVars, powerVars, PmPoints, Switching, AllClks
  <1>1. ASSUME NEW t \in Threads, OpenCall(t) PROVE PlainInv'
    BY <1>a, <1>1, CountedPositive DEF OpenCall, PlainInv, PhaseClks, StatusFollowsRefs, PowerInv, SemOwner, PmAlone, TypeOK
  <1>2. ASSUME NEW t \in Threads, Open(t) PROVE PlainInv'
    BY <1>a, <1>2, CountedPositive DEF Open, PlainInv, PhaseClks, StatusFollowsRefs, PowerInv, SemOwner, PmAlone, TypeOK
  <1>3. ASSUME NEW t \in Threads, CloseCall(t) PROVE PlainInv'
    BY <1>a, <1>3, CountedPositive DEF CloseCall, PlainInv, PhaseClks, StatusFollowsRefs, PowerInv, SemOwner, PmAlone, TypeOK
  <1>4. ASSUME NEW t \in Threads, Release(t) PROVE PlainInv'
    BY <1>a, <1>4, CountedPositive DEF Release, PlainInv, PhaseClks, StatusFollowsRefs, PowerInv, SemOwner, PmAlone, TypeOK
  <1>5. ASSUME NEW t \in Threads, Interrupted(t) PROVE PlainInv'
    BY <1>a, <1>5, CountedPositive DEF Interrupted, PlainInv, PhaseClks, StatusFollowsRefs, PowerInv, SemOwner, PmAlone, TypeOK
  <1>6. ASSUME NEW t \in Threads, ReqCall(t) PROVE PlainInv'
    BY <1>a, <1>6, CountedPositive DEF ReqCall, PlainInv, PhaseClks, StatusFollowsRefs, PowerInv, SemOwner, PmAlone, TypeOK
  <1>7. ASSUME NEW t \in Threads, ReqDown(t) PROVE PlainInv'
    BY <1>a, <1>7, CountedPositive DEF ReqDown, Down, PlainInv, PhaseClks, StatusFollowsRefs, PowerInv, SemOwner, PmAlone, TypeOK
  <1>8. ASSUME NEW t \in Threads, ReqLoad(t) PROVE PlainInv'
    BY <1>a, <1>8, CountedPositive DEF ReqLoad, PlainInv, PhaseClks, StatusFollowsRefs, PowerInv, SemOwner, PmAlone, TypeOK
  <1>9. ASSUME NEW t \in Threads, ReqInc(t) PROVE PlainInv'
    BY <1>a, <1>9, CountedPositive DEF ReqInc, RefInv, LoadedCurrent, PlainInv, PhaseClks, StatusFollowsRefs, PowerInv, SemOwner, PmAlone, TypeOK
  <1>10. ASSUME NEW t \in Threads, ReqDone(t) PROVE PlainInv'
    BY <1>a, <1>10, CountedPositive DEF ReqDone, PlainInv, PhaseClks, StatusFollowsRefs, PowerInv, SemOwner, PmAlone, TypeOK
  <1>11. ASSUME NEW t \in Threads, ReqUp(t) PROVE PlainInv'
    BY <1>a, <1>11, CountedPositive DEF ReqUp, Up, PlainInv, PhaseClks, StatusFollowsRefs, PowerInv, SemOwner, PmAlone, TypeOK
  <1>12. ASSUME NEW t \in Threads, RelCall(t) PROVE PlainInv'
    BY <1>a, <1>12, CountedPositive DEF RelCall, PlainInv, PhaseClks, StatusFollowsRefs, PowerInv, SemOwner, PmAlone, TypeOK
  <1>13. ASSUME NEW t \in Threads, RelDown(t) PROVE PlainInv'
    BY <1>a, <1>13, CountedPositive DEF RelDown, Down, PlainInv, PhaseClks, StatusFollowsRefs, PowerInv, SemOwner, PmAlone, TypeOK
  <1>14. ASSUME NEW t \in Threads, RelLoad(t) PROVE PlainInv'
    BY <1>a, <1>14, CountedPositive DEF RelLoad, PlainInv, PhaseClks, StatusFollowsRefs, PowerInv, SemOwner, PmAlone, TypeOK
  <1>15. ASSUME NEW t \in Threads, RelDec(t) PROVE PlainInv'
    BY <1>a, <1>15, CountedPositive DEF RelDec, RefInv, LoadedCurrent, PlainInv, PhaseClks, StatusFollowsRefs, PowerInv, SemOwner, PmAlone, TypeOK
  <1>16. ASSUME NEW t \in Threads, RelUp(t) PROVE PlainInv'
    BY <1>a, <1>16, CountedPositive DEF RelUp, Up, PlainInv, PhaseClks, StatusFollowsRefs, PowerInv, SemOwner, PmAlone, TypeOK
  <1>17. ASSUME NEW t \in Threads, SetRefcount(t) \/ EnableVe(t) \/ DisableVe(t) \/ ResetVe(t) PROVE PlainInv'
    BY <1>17 DEF Plain, SetRefcount, EnableVe, DisableVe, ResetVe
  <1>18. ASSUME NEW a \in Actors, EnableStatus(a) PROVE PlainInv'
    BY <1>a, <1>18 DEF EnableStatus, EnableExit, OneSwitch, PlainInv, PhaseClks, StatusFollowsRefs, PowerInv, SemOwner, PmAlone, TypeOK
  <1>19. ASSUME NEW a \in Actors, EnableClk(a) PROVE PlainInv'
    BY <1>a, <1>19 DEF EnableClk, EnableExit, NextClk, OneSwitch, PlainInv, PhaseClks, StatusFollowsRefs, PowerInv, SemOwner, PmAlone, TypeOK
  <1>20. ASSUME NEW a \in Actors, EnableClkFails(a) PROVE PlainInv'
    BY <1>a, <1>20 DEF EnableClkFails, EnableExit, Plain, OneSwitch, PlainInv, PhaseClks, StatusFollowsRefs, PowerInv, SemOwner, PmAlone, TypeOK
  <1>21. ASSUME NEW a \in Actors, DisableStatus(a) PROVE PlainInv'
    BY <1>a, <1>21 DEF DisableStatus, DisableExit, OneSwitch, PlainInv, PhaseClks, StatusFollowsRefs, PowerInv, SemOwner, PmAlone, TypeOK
  <1>22. ASSUME NEW a \in Actors, DisableClks(a) PROVE PlainInv'
    BY <1>a, <1>22 DEF DisableClks, DisableExit, ClkOff, OneSwitch, PlainInv, PhaseClks, StatusFollowsRefs, PowerInv, SemOwner, PmAlone, TypeOK
  <1>23. CASE Suspend
    BY <1>a, <1>23, CountedPositive DEF Suspend, PlainInv, PhaseClks, StatusFollowsRefs, PowerInv, SemOwner, PmAlone, TypeOK
  <1>24. CASE Resume
    BY <1>a, <1>24, CountedPositive DEF Resume, PlainInv, PhaseClks, StatusFollowsRefs, PowerInv, SemOwner, PmAlone, TypeOK
  <1>25. CASE UNCHANGED vars
    BY <1>a, <1>25 DEF vars, PlainInv, PhaseClks, StatusFollowsRefs, PowerInv, SemOwner, PmAlone, TypeOK
  <1>26. QED
    BY <1>1, <1>2, <1>3, <1>4, <1>5, <1>6, <1>7, <1>8, <1>9, <1>10, <1>11, <1>12, <1>13, <1>14, <1>15, <1>16, <1>17, <1>18, <1>19, <1>20, <1>21, <1>22, <1>23, <1>24, <1>25 DEF Next, ReqStep, RelStep, Switch

LEMMA PlainImplies == PlainInv => HolderClocked /\ IdleUnclocked
  <1> SUFFICES ASSUME PlainInv PROVE HolderClocked /\ IdleUnclocked
    OBVIOUS
  <1>a. RefInv /\ PowerInv /\ TypeOK
    BY DEF PlainInv, RefInv, PowerInv
  <1> USE ActorsAssumption DEF Actors, Outside, InSem, Enabling, Disabling, Clks, PmPoints, Switching, AllClks
  <1>1. HolderClocked
    <2> SUFFICES ASSUME pc[PM] = "run", NEW h \in granted PROVE ClksOn /\ ~rst /\ rpm = 1
      BY DEF HolderClocked
    <2>1. h \in Threads /\ h \in Counted /\ pc[h] \notin Enabling \cup Disabling
      BY <1>a DEF Counted, TypeOK, RefInv, GrantedPoints
    <2>2. \A t \in Threads : pc[t] \notin Enabling \cup Disabling
      <3>1. ASSUME NEW t \in Threads, pc[t] \in Enabling PROVE FALSE
        <4>1. t \in Counted /\ t # h
          BY <2>1, <3>1 DEF Counted
        <4>2. QED
          BY <1>a, <2>1, <3>1, <4>1, CountedPositive DEF PlainInv, StatusFollowsRefs, TypeOK
      <3>2. ASSUME NEW t \in Threads, pc[t] \in Disabling PROVE FALSE
        BY <1>a, <2>1, <3>2, CountedPositive DEF PlainInv, StatusFollowsRefs, TypeOK
      <3>3. QED
        BY <3>1, <3>2
    <2>3. clk_status = 1
      BY <1>a, <2>1, <2>2, CountedPositive DEF PlainInv, StatusFollowsRefs, TypeOK
    <2>4. QED
      BY <1>a, <2>2, <2>3 DEF PlainInv, PhaseClks, ClksOn, TypeOK, PowerInv, RpmFollowsStatus
  <1>2. IdleUnclocked
    <2>1. ASSUME pc[PM] = "run", sem = NoOne, ref_count = 0
          PROVE  AllClks(0) /\ rst /\ rpm = 0
      <3>1. \A t \in Threads : pc[t] \notin InSem
        BY <1>a, <2>1 DEF PowerInv, SemOwner
      <3>2. QED
        BY <1>a, <2>1, <3>1 DEF PlainInv, StatusFollowsRefs, PhaseClks, PowerInv, TypeOK, RpmFollowsStatus
    <2>2. ASSUME pc[PM] = "suspended" PROVE AllClks(0) /\ rst /\ rpm = 0
      <3>1. \A t \in Threads : pc[t] \notin InSem
        BY <1>a, <2>2 DEF PowerInv, PmAlone
      <3>2. QED
        BY <1>a, <2>2, <3>1 DEF PlainInv, StatusFollowsRefs, PhaseClks, PowerInv, TypeOK, RpmFollowsStatus
    <2>3. QED
      BY <2>1, <2>2 DEF IdleUnclocked
  <1>3. QED
    BY <1>1, <1>2

\* For any number of sessions, whatever dies or suspends: a session that was
\* granted finds the engine clocked, out of reset and powered until it releases.
THEOREM HolderIsClocked == ASSUME Plain PROVE Spec => []HolderClocked
  <1>1. PlainInv /\ [Next]_vars => PlainInv'
    BY PlainNext
  <1>2. PlainInv => HolderClocked
    BY PlainImplies
  <1>3. QED
    BY PlainInit, <1>1, <1>2, PTL DEF Spec

\* ... and with no reference left, or suspended, nothing is left on.
THEOREM IdleIsUnclocked == ASSUME Plain PROVE Spec => []IdleUnclocked
  <1>1. PlainInv /\ [Next]_vars => PlainInv'
    BY PlainNext
  <1>2. PlainInv => IdleUnclocked
    BY PlainImplies
  <1>3. QED
    BY PlainInit, <1>1, <1>2, PTL DEF Spec

----------------------------------------------------------------------------
(* CedarEngine implements VeService.                                       *)

\* While no thread is inside the clock switch and the system is awake, the
\* engine is powered exactly when there is a reference.
LEMMA PoweredIffRefs ==
  ASSUME PlainInv, pc[PM] \in {"run", "dis_status"},
         \A t \in Threads : pc[t] \notin Enabling \cup Disabling
  PROVE  Powered <=> ref_count > 0
  BY ActorsAssumption DEF PlainInv, RefInv, PowerInv, StatusFollowsRefs, PhaseClks, Powered, ClksOn, AllClks,
     Actors, Switching, Enabling, Disabling, Clks, TypeOK

\* Without a thread between its increment and its decrement, the users of the
\* service are the granted threads, and they or the orphans make up the count.
LEMMA UsersAreCounted ==
  ASSUME PlainInv, \A t \in Threads : pc[t] \notin Enabling \cup Disabling \cup {"req_done"}
  PROVE  /\ ServiceUsers = granted
         /\ ref_count > 0 <=> (ServiceUsers # {} \/ lost > 0)
  <1>1. ServiceUsers = granted /\ Counted = granted
    BY DEF ServiceUsers, Counted
  <1>2. RefInv /\ ref_count \in Int /\ lost \in Nat
    BY DEF PlainInv, RefInv, PowerInv, TypeOK
  <1>3. QED
    BY <1>1, <1>2, CountedPositive

LEMMA ServiceInit == Init => Service!Init
  BY ActorsAssumption DEF Init, Service!Init, ServiceUsers, Powered, ClksOn, Asleep, Actors, Clks, Enabling, Disabling

LEMMA ServiceNext ==
  ASSUME Plain
  PROVE  PlainInv /\ PlainInv' /\ [Next]_vars => [Service!Next]_(Service!serviceVars)
  <1> SUFFICES ASSUME PlainInv, PlainInv', [Next]_vars
               PROVE  Service!Next \/ UNCHANGED <<ServiceUsers, lost, Powered, Asleep>>
    BY DEF Service!serviceVars
  <1>a. TypeOK /\ TypeOK' /\ RefInv /\ RefInv' /\ OneSwitch
    BY OneSwitchLemma DEF PlainInv, RefInv, PowerInv
  <1>b. SemOwner /\ PmAlone /\ PhaseClks /\ StatusFollowsRefs /\ GrantedPoints
    BY DEF PlainInv, RefInv, PowerInv
  <1> USE ActorsAssumption DEF Actors, At, Goto, Return, Outside, Blocked, InSem, Enabling, Disabling,
          Clks, countVars, powerVars, PmPoints
  <1>c. /\ Powered \in BOOLEAN /\ Powered' \in BOOLEAN
        /\ Asleep \in BOOLEAN /\ Asleep' \in BOOLEAN
    BY DEF Powered, Asleep
  <1> DEFINE Stutter == UNCHANGED <<ServiceUsers, lost, Powered, Asleep>>
  <1>1. ASSUME NEW t \in Threads, OpenCall(t) PROVE Stutter
    BY <1>a, <1>b, <1>1 DEF OpenCall, ServiceUsers, Powered, ClksOn, Asleep, TypeOK
  <1>2. ASSUME NEW t \in Threads, Open(t) PROVE Stutter
    BY <1>a, <1>b, <1>2 DEF Open, ServiceUsers, Powered, ClksOn, Asleep, TypeOK
  <1>3. ASSUME NEW t \in Threads, Release(t) PROVE Stutter
    BY <1>a, <1>b, <1>3 DEF Release, ServiceUsers, Powered, ClksOn, Asleep, TypeOK
  <1>4. ASSUME NEW t \in Threads, Interrupted(t) PROVE Stutter
    BY <1>a, <1>b, <1>4 DEF Interrupted, ServiceUsers, Powered, ClksOn, Asleep, TypeOK
  <1>5. ASSUME NEW t \in Threads, ReqCall(t) PROVE Stutter
    BY <1>a, <1>b, <1>5 DEF ReqCall, ServiceUsers, Powered, ClksOn, Asleep, TypeOK
  <1>6. ASSUME NEW t \in Threads, ReqDown(t) PROVE Stutter
    BY <1>a, <1>b, <1>6 DEF ReqDown, Down, ServiceUsers, Powered, ClksOn, Asleep, TypeOK
  <1>7. ASSUME NEW t \in Threads, ReqLoad(t) PROVE Stutter
    BY <1>a, <1>b, <1>7 DEF ReqLoad, ServiceUsers, Powered, ClksOn, Asleep, TypeOK
  <1>8. ASSUME NEW t \in Threads, ReqDone(t) PROVE Stutter
    BY <1>a, <1>b, <1>8 DEF ReqDone, StatusFollowsRefs, ServiceUsers, Powered, ClksOn, Asleep, TypeOK
  <1>9. ASSUME NEW t \in Threads, ReqUp(t) PROVE Stutter
    BY <1>a, <1>b, <1>9 DEF ReqUp, Up, ServiceUsers, Powered, ClksOn, Asleep, TypeOK
  <1>10. ASSUME NEW t \in Threads, RelCall(t) PROVE Stutter
    BY <1>a, <1>b, <1>10 DEF RelCall, ServiceUsers, Powered, ClksOn, Asleep, TypeOK
  <1>11. ASSUME NEW t \in Threads, RelDown(t) PROVE Stutter
    BY <1>a, <1>b, <1>11 DEF RelDown, Down, ServiceUsers, Powered, ClksOn, Asleep, TypeOK
  <1>12. ASSUME NEW t \in Threads, RelLoad(t) PROVE Stutter
    BY <1>a, <1>b, <1>12 DEF RelLoad, ServiceUsers, Powered, ClksOn, Asleep, TypeOK
  <1>13. ASSUME NEW t \in Threads, RelUp(t) PROVE Stutter
    BY <1>a, <1>b, <1>13 DEF RelUp, Up, ServiceUsers, Powered, ClksOn, Asleep, TypeOK
  <1>14. ASSUME NEW t \in Threads, CloseCall(t) PROVE Stutter \/ Service!Orphan(t)
    BY <1>a, <1>b, <1>14 DEF CloseCall, ServiceUsers, Powered, ClksOn, Asleep, TypeOK, Service!Orphan
  <1>15. ASSUME NEW t \in Threads, ReqInc(t) PROVE Stutter \/ Service!Grant(t)
    <2>1. UNCHANGED <<lost, Powered, Asleep>> /\ ~Asleep
      BY <1>a, <1>15 DEF ReqInc, Powered, ClksOn, Asleep, TypeOK
    <2>2. CASE ref_count' = 1
      BY <1>a, <1>15, <2>1, <2>2 DEF ReqInc, ServiceUsers, TypeOK
    <2>3. CASE ref_count' # 1
      <3>1. \A u \in Threads : pc[u] \notin Enabling \cup Disabling
        BY <1>b, <1>15 DEF ReqInc, SemOwner
      <3>2. ref_count > 0 /\ pc[PM] = "run"
        BY <1>a, <1>15, <2>3, CountedPositive DEF ReqInc, RefInv, LoadedCurrent, TypeOK
      <3>3. Powered
        BY <3>1, <3>2, PoweredIffRefs
      <3>4. t \notin ServiceUsers /\ ServiceUsers' = ServiceUsers \cup {t}
        BY <1>a, <1>b, <1>15, <2>3 DEF ReqInc, ServiceUsers, GrantedPoints, TypeOK
      <3>5. QED
        BY <2>1, <3>3, <3>4 DEF Service!Grant
    <2>4. QED
      BY <2>2, <2>3
  <1>16. ASSUME NEW t \in Threads, RelDec(t) PROVE Stutter \/ Service!Drop(t)
    <2>1. UNCHANGED <<lost, Powered, Asleep>> /\ ~Asleep /\ t \in granted
      BY <1>a, <1>b, <1>16 DEF RelDec, Powered, ClksOn, Asleep, TypeOK, GrantedPoints
    <2>2. CASE ref_count' = 0
      BY <1>a, <1>16, <2>1, <2>2 DEF RelDec, ServiceUsers, TypeOK
    <2>3. CASE ref_count' # 0
      <3>1. \A u \in Threads : pc[u] \notin Enabling \cup Disabling \cup {"req_done"}
        BY <1>b, <1>16 DEF RelDec, SemOwner
      <3>2. \A u \in Threads : pc'[u] \notin Enabling \cup Disabling \cup {"req_done"}
        BY <1>a, <1>16, <2>3, <3>1 DEF RelDec, TypeOK
      <3>3. ref_count > 0 /\ ref_count' > 0 /\ pc[PM] = "run"
        BY <1>a, <1>16, <2>1, <2>3, CountedPositive DEF RelDec, RefInv, LoadedCurrent, TypeOK, Counted
      <3>4. Powered
        BY <3>1, <3>3, PoweredIffRefs
      <3>5. ServiceUsers = granted
        BY <3>1, UsersAreCounted
      <3>6. ServiceUsers' = granted'
        BY <3>2 DEF ServiceUsers
      <3>6a. granted' = granted \ {t}
        BY <1>16 DEF RelDec
      <3>7. granted' # {} \/ lost > 0
        <4>1. Counted' = granted'
          BY <3>2 DEF Counted
        <4>2. Counted = granted
          BY <3>1 DEF Counted
        <4>3. granted' = {} => ref_count = lost + 1
          <5>1. SUFFICES ASSUME granted' = {} PROVE ref_count = lost + 1
            OBVIOUS
          <5>2. Counted \ {t} = {} /\ t \in Counted
            BY <2>1, <3>6a, <4>2, <5>1
          <5>3. Cardinality(Counted) = 1
            BY <1>a, <5>2, CountedFinite, FS_EmptySet
          <5>4. QED
            BY <1>a, <5>3 DEF RefInv, RefCountExact, TypeOK
        <4>4. ref_count' = ref_count - 1
          BY <1>16 DEF RelDec, RefInv, LoadedCurrent, PlainInv
        <4>5. QED
          BY <1>a, <3>3, <4>3, <4>4 DEF TypeOK
      <3>8. QED
        BY <2>1, <3>4, <3>5, <3>6, <3>6a, <3>7 DEF Service!Drop
    <2>4. QED
      BY <2>2, <2>3
  <1>17. ASSUME NEW t \in Threads, SetRefcount(t) \/ EnableVe(t) \/ DisableVe(t) \/ ResetVe(t) PROVE FALSE
    BY <1>17 DEF Plain, SetRefcount, EnableVe, DisableVe, ResetVe
  <1>18. ASSUME NEW a \in Actors, EnableStatus(a) PROVE Stutter
    <2>1. clk_status = 0 /\ \A b \in Actors : pc[b] \notin Switching
      BY <1>a, <1>b, <1>18 DEF EnableStatus, OneSwitch, StatusFollowsRefs, Switching
    <2>2. ~Powered /\ clk' = clk /\ AllClks(0)
      BY <1>b, <1>18, <2>1 DEF EnableStatus, PhaseClks, Powered
    <2>3. ~Powered'
      BY <2>2 DEF Powered, ClksOn, AllClks
    <2>4. UNCHANGED <<ServiceUsers, lost, Asleep>>
      BY <1>a, <1>18, <2>1 DEF EnableStatus, ServiceUsers, Asleep, TypeOK
    <2>5. Powered' = Powered
      BY <1>c, <2>2, <2>3
    <2>6. QED
      BY <2>4, <2>5
  <1>19. ASSUME NEW a \in Actors, EnableClk(a)
        PROVE Stutter \/ Service!Wake \/ \E t \in Threads : Service!Grant(t)
    <2>1. clk["ve"] = 0 /\ ~rst /\ rst' = rst /\ lost' = lost
      BY <1>b, <1>19 DEF EnableClk, PhaseClks, AllClks
    <2>2. ~Powered
      BY <2>1 DEF Powered, ClksOn
    <2>3. CASE pc[a] # "ve"
      <3>1. clk'["ve"] = 0
        BY <1>a, <1>19, <2>1, <2>3 DEF EnableClk, TypeOK
      <3>2. ~Powered'
        BY <3>1 DEF Powered, ClksOn
      <3>3. UNCHANGED <<ServiceUsers, lost, Asleep>>
        BY <1>a, <1>19, <2>3 DEF EnableClk, NextClk, ServiceUsers, Asleep, TypeOK
      <3>4. Powered' = Powered
        BY <1>c, <2>2, <3>2
      <3>5. QED
        BY <3>3, <3>4
    <2>4. CASE pc[a] = "ve"
      <3>1. Powered'
        BY <1>a, <1>b, <1>19, <2>1, <2>4 DEF EnableClk, PhaseClks, Powered, ClksOn, TypeOK
      <3>2. CASE a = PM
        <4>1. Asleep /\ ~Asleep' /\ UNCHANGED ServiceUsers
          BY <1>a, <1>19, <2>4, <3>2 DEF EnableClk, EnableExit, Asleep, ServiceUsers, TypeOK
        <4>2. \A t \in Threads : pc[t] \notin Enabling \cup Disabling \cup {"req_done"}
          BY <1>b, <2>4, <3>2 DEF PmAlone
        <4>3. ServiceUsers # {} \/ lost > 0
          BY <1>b, <2>4, <3>2, <4>2, UsersAreCounted DEF StatusFollowsRefs
        <4>4. QED
          BY <1>c, <2>1, <3>1, <4>1, <4>3 DEF Service!Wake
      <3>3. CASE a # PM
        <4>1. a \in Threads /\ pc[PM] = "run" /\ ret[a] = "ok" /\ a \notin granted
          BY <1>a, <1>b, <2>4, <3>3 DEF PmAlone, StatusFollowsRefs, GrantedPoints
        <4>2. a \notin ServiceUsers /\ ServiceUsers' = ServiceUsers \cup {a} /\ UNCHANGED Asleep /\ ~Asleep
          BY <1>a, <1>19, <2>4, <3>3, <4>1 DEF EnableClk, EnableExit, ServiceUsers, Asleep, TypeOK
        <4>3. Service!Grant(a)
          BY <2>1, <3>1, <4>2 DEF Service!Grant
        <4>4. QED
          BY <4>1, <4>3
      <3>4. QED
        BY <3>2, <3>3
    <2>5. QED
      BY <2>3, <2>4
  <1>20. ASSUME NEW a \in Actors, EnableClkFails(a) PROVE FALSE
    BY <1>20 DEF EnableClkFails, Plain
  <1>21. ASSUME NEW a \in Actors, DisableStatus(a) PROVE Stutter \/ Service!Sleep
    <2>1. UNCHANGED <<ServiceUsers, lost, Powered>>
      BY <1>a, <1>b, <1>21 DEF DisableStatus, DisableExit, ServiceUsers, Powered, ClksOn, StatusFollowsRefs, TypeOK
    <2>2. CASE clk_status = 1 \/ a # PM
      <3>1. UNCHANGED Asleep
        BY <1>a, <1>21, <2>2 DEF DisableStatus, DisableExit, Asleep, TypeOK
      <3>2. QED
        BY <2>1, <3>1
    <2>3. CASE clk_status = 0 /\ a = PM
      <3>1. ~Asleep /\ Asleep'
        BY <1>a, <1>21, <2>3 DEF DisableStatus, DisableExit, Asleep, TypeOK
      <3>2. \A b \in Actors : pc[b] \notin Switching
        BY <1>a, <1>21, <2>3 DEF OneSwitch, DisableStatus, Switching
      <3>3. ~Powered
        BY <1>b, <2>3, <3>2 DEF PhaseClks, Powered
      <3>4. QED
        BY <1>c, <2>1, <3>1, <3>3 DEF Service!Sleep
    <2>4. QED
      BY <1>a, <2>2, <2>3 DEF TypeOK
  <1>22. ASSUME NEW a \in Actors, DisableClks(a)
        PROVE Service!Sleep \/ \E t \in Threads : Service!Drop(t)
    <2>1. ~Powered' /\ lost' = lost
      BY <1>22 DEF DisableClks, Powered
    <2>2. CASE a = PM
      <3>1. ~Asleep /\ Asleep' /\ UNCHANGED ServiceUsers
        BY <1>a, <1>22, <2>2 DEF DisableClks, DisableExit, Asleep, ServiceUsers, TypeOK
      <3>2. QED
        BY <1>c, <2>1, <3>1 DEF Service!Sleep
    <2>3. CASE a # PM
      <3>1. a \in Threads /\ pc[PM] = "run" /\ ref_count = 0
        BY <1>a, <1>b, <1>22, <2>3 DEF DisableClks, PmAlone, StatusFollowsRefs
      <3>2. lost = 0 /\ Counted = {}
        BY <1>a, <3>1, CountedPositive DEF TypeOK
      <3>3. granted = {}
        BY <3>2 DEF Counted
      <3>4. ServiceUsers = {a} /\ ServiceUsers' = {} /\ UNCHANGED Asleep /\ ~Asleep
        BY <1>a, <1>b, <1>22, <2>3, <3>1, <3>3 DEF DisableClks, DisableExit, ServiceUsers, Asleep, SemOwner, TypeOK
      <3>5. Service!Drop(a)
        BY <1>c, <2>1, <3>2, <3>4 DEF Service!Drop
      <3>6. QED
        BY <3>1, <3>5
    <2>4. QED
      BY <2>2, <2>3
  <1>23. ASSUME Suspend PROVE Stutter
    BY <1>a, <1>23 DEF Suspend, ServiceUsers, Powered, ClksOn, Asleep, TypeOK
  <1>24. ASSUME Resume PROVE Stutter \/ Service!Wake
    <2>1. UNCHANGED <<ServiceUsers, lost, Powered>> /\ Asleep
      BY <1>a, <1>24 DEF Resume, ServiceUsers, Powered, ClksOn, Asleep, TypeOK
    <2>2. CASE ref_count # 0
      BY <1>a, <1>24, <2>1, <2>2 DEF Resume, Asleep, TypeOK
    <2>3. CASE ref_count = 0
      <3>1. ~Asleep'
        BY <1>a, <1>24, <2>3 DEF Resume, Asleep, TypeOK
      <3>2. \A t \in Threads : pc[t] \notin Enabling \cup Disabling \cup {"req_done"}
        BY <1>b, <1>24 DEF Resume, PmAlone
      <3>3. ~(ServiceUsers # {} \/ lost > 0)
        BY <2>3, <3>2, UsersAreCounted
      <3>4. ~Powered
        BY <1>b, <1>24, <3>2 DEF Resume, StatusFollowsRefs, PhaseClks, Powered, Switching
      <3>5. QED
        BY <1>c, <2>1, <3>1, <3>3, <3>4 DEF Service!Wake
    <2>4. QED
      BY <2>2, <2>3
  <1>25. ASSUME UNCHANGED vars PROVE Stutter
    BY <1>25 DEF vars, ServiceUsers, Powered, ClksOn, Asleep
  <1>26. QED
    BY <1>1, <1>2, <1>3, <1>4, <1>5, <1>6, <1>7, <1>8, <1>9, <1>10, <1>11, <1>12, <1>13, <1>14, <1>15, <1>16, <1>17, <1>18, <1>19, <1>20, <1>21, <1>22, <1>23, <1>24, <1>25 DEF Next, ReqStep, RelStep, Switch, Service!Next

\* The driver implements VeService, for any number of sessions: every session
\* sees a powered engine from grant to release, and suspend, resume and dying
\* processes have exactly the effect the service describes.
THEOREM DriverImplementsService == ASSUME Plain PROVE Spec => ImplementsService
  <1>1. PlainInv /\ [Next]_vars => PlainInv'
    BY PlainNext
  <1>2. PlainInv /\ PlainInv' /\ [Next]_vars => [Service!Next]_(Service!serviceVars)
    BY ServiceNext
  <1>3. Init => Service!Init
    BY ServiceInit
  <1>4. QED
    BY PlainInit, <1>1, <1>2, <1>3, PTL DEF Spec, ImplementsService, Service!Spec
============================================================================
