----------------------------- MODULE VeService -----------------------------
(***************************************************************************)
(* What cedar_ve.c promises to a codec that brackets its use of the video  *)
(* engine with IOCTL_ENGINE_REQ and IOCTL_ENGINE_REL: the engine is        *)
(* clocked, out of reset and powered from the moment the request succeeds  *)
(* to the release, it is switched off when the last session ends, and      *)
(* suspend and resume restore it.  A session whose process died without a  *)
(* release counts as a user for ever.                                      *)
(***************************************************************************)
EXTENDS Naturals

CONSTANT Clients

VARIABLES
    users,    \* sessions that hold the engine
    orphans,  \* sessions whose process died without ENGINE_REL
    powered,  \* all clocks on and the reset line released
    asleep    \* the system is suspended

serviceVars == <<users, orphans, powered, asleep>>

Init == users = {} /\ orphans = 0 /\ powered = FALSE /\ asleep = FALSE

Grant(c) ==
    /\ ~asleep /\ c \notin users
    /\ users' = users \cup {c}
    /\ powered' = TRUE
    /\ UNCHANGED <<orphans, asleep>>

Drop(c) ==
    /\ ~asleep /\ c \in users
    /\ users' = users \ {c}
    /\ powered' = (users' # {} \/ orphans > 0)
    /\ UNCHANGED <<orphans, asleep>>

Orphan(c) ==
    /\ ~asleep /\ c \in users
    /\ users' = users \ {c}
    /\ orphans' = orphans + 1
    /\ UNCHANGED <<powered, asleep>>

Sleep ==
    /\ ~asleep
    /\ asleep' = TRUE
    /\ powered' = FALSE
    /\ UNCHANGED <<users, orphans>>

Wake ==
    /\ asleep
    /\ asleep' = FALSE
    /\ powered' = (users # {} \/ orphans > 0)
    /\ UNCHANGED <<users, orphans>>

Next ==
    \/ \E c \in Clients : Grant(c) \/ Drop(c) \/ Orphan(c)
    \/ Sleep \/ Wake

Spec == Init /\ [][Next]_serviceVars
============================================================================
