----------------------------- MODULE FanControl -----------------------------
(***************************************************************************)
(* fan_control_userspace.py: the cold-start kick, the poll loop with its   *)
(* curve, floor and hysteresis, the sweep that finds the floor, and the    *)
(* ways the script ends.  Only KeyboardInterrupt inside the try block is   *)
(* handled; a sensor that cannot be read and a sysfs write that fails end  *)
(* the script as they are.  The fan is external: it starts and keeps       *)
(* spinning from the duties measured in the script's comments.             *)
(***************************************************************************)
EXTENDS Integers, Sequences, FiniteSetsExt

CONSTANTS
    Curve,       \* CURVE: a sequence of [trip, duty]
    Floors,      \* MIN_SPIN_DUTY: the values to be considered
    Hystereses,  \* HYSTERESIS_C: the values to be considered
    Temps,       \* what the sensor may read
    FanStart,    \* the least duty that starts the fan
    FanKeep      \* the least duty that keeps it spinning

ASSUME FanAssumption ==
    /\ Curve \in Seq([trip : Int, duty : 0..100])
    /\ \A i, j \in DOMAIN Curve : i <= j => Curve[i].duty <= Curve[j].duty
    /\ FanKeep \in Nat /\ FanStart \in FanKeep..100
    /\ Floors \subseteq FanKeep..100 /\ Hystereses \subseteq Nat /\ Temps \subseteq Int

VARIABLES
    tuning,      \* [floor, hysteresis]: the constants at the top of the file
    step,        \* what the script does next, "off" when it does not run
    current,     \* current_duty_pct, NoDuty for None
    target,      \* target_duty, or the duty of the sweep
    pwm,         \* duty_cycle of the channel, in percent
    spins,       \* the fan turns
    seen,        \* history: the last temperature read, or NoTemp
    died         \* history: the loop ended by an error

fanVars == <<tuning, step, current, target, pwm, spins, seen, died>>

NoDuty == -1
NoTemp == -1000
InTry  == {"kick", "floor", "poll", "apply"}

FanInit ==
    /\ tuning \in [floor : Floors, hysteresis : Hystereses]
    /\ step = "off" /\ current = NoDuty /\ target = 0
    /\ pwm = 0 /\ spins = FALSE /\ seen = NoTemp /\ died = FALSE

-----------------------------------------------------------------------------
\* The fan follows the duty.
Drive(pct) ==
    /\ pwm' = pct
    /\ spins' = (pct >= FanStart \/ (spins /\ pct >= FanKeep))

set_duty_pct(pct) == Drive(pct) /\ current' = pct

\* The last row of the curve that is reached, 0 before the first.
Reached(t) ==
    LET rows == {i \in DOMAIN Curve : t >= Curve[i].trip}
    IN  IF rows = {} THEN 0 ELSE Curve[Max(rows)].duty

\* Faulty variant: without the floor.
DutyWithoutFloor(t, last) == Reached(t)

duty_for_temp(t, last) ==
    LET held == {Curve[i].duty : i \in {j \in DOMAIN Curve :
                   last > Curve[j].duty /\ t >= Curve[j].trip - tuning.hysteresis}}
        stepped == IF Reached(t) < last THEN {Reached(t)} \cup held ELSE {Reached(t)}
    IN  Max(stepped \cup {tuning.floor})

-----------------------------------------------------------------------------
\* main and PwmFan.export: a new process; the fan stops until the kick.
Export ==
    /\ step = "off"
    /\ step' \in {"kick", "sweep"}
    /\ Drive(0) /\ current' = NoDuty
    /\ target' = IF step' = "sweep" THEN 10 ELSE 0
    /\ seen' = NoTemp /\ died' = FALSE
    /\ UNCHANGED tuning

\* One of the writes of export fails, before or after the one of the duty.
ExportFails ==
    /\ step = "off"
    /\ Drive(0) \/ UNCHANGED <<pwm, spins>>
    /\ current' = NoDuty /\ seen' = NoTemp /\ died' = FALSE
    /\ UNCHANGED <<tuning, step, target>>

KickStart ==
    /\ step = "kick" /\ step' = "floor"
    /\ set_duty_pct(100)
    /\ UNCHANGED <<tuning, target, seen, died>>

ToFloor ==
    /\ step = "floor" /\ step' = "poll"
    /\ set_duty_pct(tuning.floor)
    /\ UNCHANGED <<tuning, target, seen, died>>

\* read_cpu_temp and the decision.  Nothing is written when nothing changes.
Poll ==
    /\ step = "poll"
    /\ \E t \in Temps :
         /\ target' = duty_for_temp(t, current)
         /\ step' = IF target' # current THEN "apply" ELSE "poll"
         /\ seen' = t
    /\ UNCHANGED <<tuning, current, pwm, spins, died>>

Apply ==
    /\ step = "apply" /\ step' = "poll"
    /\ set_duty_pct(target)
    /\ UNCHANGED <<tuning, target, seen, died>>

\* The sensor is gone, or a write fails: the exception is not caught.
Raise ==
    /\ step \in InTry \cup {"sweep"} /\ step' = "off"
    /\ died' = (step \in {"poll", "apply"})
    /\ UNCHANGED <<tuning, current, target, pwm, spins, seen>>

\* Ctrl-C inside the try block: the handler stops the fan, if its write succeeds.
Interrupt ==
    /\ step \in InTry /\ step' = "off"
    /\ set_duty_pct(0) \/ UNCHANGED <<pwm, spins, current>>
    /\ UNCHANGED <<tuning, target, seen, died>>

\* find_min_duty: the operator answers after each step; Ctrl-C is a Raise.
Sweep ==
    /\ step = "sweep"
    /\ \/ target <= 100 /\ set_duty_pct(target) /\ target' = target + 2
          /\ UNCHANGED step
       \/ target > 10 /\ step' = "off" /\ set_duty_pct(0) /\ UNCHANGED target
    /\ UNCHANGED <<tuning, seen, died>>

FanNext == Export \/ ExportFails \/ KickStart \/ ToFloor \/ Poll \/ Apply
           \/ Raise \/ Interrupt \/ Sweep

FanSpec == FanInit /\ [][FanNext]_fanVars

-----------------------------------------------------------------------------
\* The duty the curve asks for: the highest of the rows reached, at least the floor.
Demand(t) == Max({tuning.floor} \cup {Curve[i].duty : i \in {j \in DOMAIN Curve : t >= Curve[j].trip}})

\* While the loop sleeps the fan spins and the channel has the duty the curve
\* asks for at the temperature read, or one it asks for within the hysteresis
\* above it; and an error in the loop leaves the fan spinning, whatever duty was
\* to be written (main, duty_for_temp: "Never returns below MIN_SPIN_DUTY").
LoopCools ==
    /\ step = "poll" =>
         /\ spins /\ pwm = current /\ pwm >= tuning.floor
         /\ seen # NoTemp => Demand(seen) <= pwm /\ pwm <= Demand(seen + tuning.hysteresis)
    /\ died => spins
=============================================================================
