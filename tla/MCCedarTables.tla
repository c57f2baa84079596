---------------------------- MODULE MCCedarTables ----------------------------
(* Three parts of the Cedar driver that share no state: a behaviour is about   *)
(* one of them.                                                               *)
EXTENDS CedarLoad, CedarDebugInfo, CedarInit, TLC

VARIABLE part

P(format, size, frame_rate) == [format |-> format, size |-> size, frame_rate |-> frame_rate]
McParams == {P("H264", 1, 0), P("H264", 33, 60), P("ENC", 2, 30)}
McSymmetry == Permutations(Threads) \cup Permutations(Files) \cup Permutations(Addrs)

vars == <<part, loadVars, debugVars, initVars>>
Init == part \in {"load", "debug", "init"} /\ LoadInit /\ DebugInit /\ CedarInitInit
Next ==
    \/ part = "load" /\ LoadNext /\ UNCHANGED <<part, debugVars, initVars>>
    \/ part = "debug" /\ DebugNext /\ UNCHANGED <<part, loadVars, initVars>>
    \/ part = "init" /\ CedarInitNext /\ UNCHANGED <<part, loadVars, debugVars>>
Spec == Init /\ [][Next]_vars
=============================================================================
