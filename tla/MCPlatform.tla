----------------------------- MODULE MCPlatform -----------------------------
(* Four machines around the IOMMU and the board that share no state: a        *)
(* behaviour is about one of them.                                            *)
EXTENDS IommuPower, IommuPte, FanControl, FirstBoot, TLC

VARIABLE part

V1AndV2 == {[high |-> 0, tab |-> 4], [high |-> 2, tab |-> 7]}
BoardCurve == <<[trip |-> 60, duty |-> 50], [trip |-> 70, duty |-> 100]>>
McSymmetry == Permutations(Masters)

vars == <<part, powerVars, pteVars, fanVars, bootVars>>
Init == part \in {"power", "pte", "fan", "boot"}
        /\ PowerInit /\ PteInit /\ FanInit /\ FirstBootInit
Next ==
    \/ part = "power" /\ PowerNext /\ UNCHANGED <<part, pteVars, fanVars, bootVars>>
    \/ part = "pte" /\ PteNext /\ UNCHANGED <<part, powerVars, fanVars, bootVars>>
    \/ part = "fan" /\ FanNext /\ UNCHANGED <<part, powerVars, pteVars, bootVars>>
    \/ part = "boot" /\ FirstBootNext /\ UNCHANGED <<part, powerVars, pteVars, fanVars>>
Spec == Init /\ [][Next]_vars
=============================================================================
