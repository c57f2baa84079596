----------------------------- MODULE FirstBoot ------------------------------
(***************************************************************************)
(* firstboot.sh and firstboot.service: the script that grows the root file *)
(* system on the first boot and is put away afterwards.  parted may give   *)
(* the disk a new signature, from which the root partition's PARTUUID is   *)
(* made, and the boot configuration names the old one.  The script has no  *)
(* "set -e": a tool that fails is passed over.  Power may be lost anywhere. *)
(***************************************************************************)
EXTENDS Naturals

CONSTANT MaxBoots    \* bound: number of boots

ASSUME BootAssumption == MaxBoots \in Nat

VARIABLES
    at,          \* next command of the script; "off", or "up" when it is not running
    sig,         \* the signature on the disk: the one mksdimg.sh wrote, or another
    saved,       \* SAVED_SIG
    partition,   \* size of the root partition
    rootfs,      \* size of the root file system
    script,      \* /opt/firstboot.sh is there
    locales,     \* times the block was appended to /etc/locale.gen
    boots,       \* boots so far, up to MaxBoots
    cut,         \* history: power was lost between parted and the restoring dd
    trouble      \* history: the tools that have failed

bootVars == <<at, sig, saved, partition, rootfs, script, locales, boots, cut, trouble>>

FirstBootInit ==
    /\ at = "off" /\ sig = "image" /\ saved = "none"
    /\ partition = "image" /\ rootfs = "image"
    /\ script = TRUE /\ locales = 0 /\ boots = 0
    /\ cut = FALSE /\ trouble = {}

Then(from, to) == at = from /\ at' = to
Fails(tool) == trouble' = trouble \cup {tool}

-----------------------------------------------------------------------------
\* The kernel finds its root by PARTUUID, or does not boot.
Boot ==
    /\ at = "off" /\ sig = "image" /\ boots < MaxBoots
    /\ at' = IF script THEN "save" ELSE "up"
    /\ boots' = boots + 1 /\ saved' = "none"
    /\ UNCHANGED <<sig, partition, rootfs, script, locales, cut, trouble>>

PowerLoss ==
    /\ at # "off" /\ at' = "off"
    /\ cut' = (cut \/ at = "restore")
    /\ UNCHANGED <<sig, saved, partition, rootfs, script, locales, boots, trouble>>

SaveSig ==
    /\ Then("save", "part")
    /\ \/ saved' = sig /\ UNCHANGED trouble
       \/ saved' = "none" /\ Fails("dd")
    /\ UNCHANGED <<sig, partition, rootfs, script, locales, boots, cut>>

\* One write of the first sector: table and signature change together.
Parted ==
    /\ Then("part", "restore")
    /\ \/ partition' = "disk" /\ sig' \in {sig, "random"} /\ UNCHANGED trouble
       \/ Fails("parted") /\ UNCHANGED <<partition, sig>>
    /\ UNCHANGED <<saved, rootfs, script, locales, boots, cut>>

\* Faulty variant: the signature is not put back.
RestoreForgotten ==
    /\ Then("restore", "fs")
    /\ UNCHANGED <<sig, saved, partition, rootfs, script, locales, boots, cut, trouble>>

\* Without a saved signature printf makes text of the empty escapes.
RestoreSig ==
    /\ Then("restore", "fs")
    /\ \/ sig' = (IF saved = "none" THEN "text" ELSE saved) /\ UNCHANGED trouble
       \/ Fails("dd") /\ UNCHANGED sig
    /\ UNCHANGED <<saved, partition, rootfs, script, locales, boots, cut>>

Resize2fs ==
    /\ Then("fs", "locale")
    /\ \/ rootfs' = partition /\ UNCHANGED trouble
       \/ Fails("resize2fs") /\ UNCHANGED rootfs
    /\ UNCHANGED <<sig, saved, partition, script, locales, boots, cut>>

\* The rest of the script.  Its last command goes to the background, so that
\* the script succeeds whatever happened.
Locales ==
    /\ Then("locale", "mv")
    /\ locales' = locales + 1
    /\ UNCHANGED <<sig, saved, partition, rootfs, script, boots, cut, trouble>>

\* ExecStartPost
PutAway ==
    /\ Then("mv", "up")
    /\ script' = FALSE
    /\ UNCHANGED <<sig, saved, partition, rootfs, locales, boots, cut, trouble>>

FirstBootNext == Boot \/ PowerLoss \/ SaveSig \/ Parted \/ RestoreSig \/ Resize2fs
                 \/ Locales \/ PutAway

FirstBootSpec == FirstBootInit /\ [][FirstBootNext]_bootVars

-----------------------------------------------------------------------------
\* However often power is lost and the script starts again, the board boots:
\* the disk has the signature the boot configuration names whenever the script
\* is not between parted and the restoring dd.  The exceptions are a power loss
\* just there and a dd that failed.  And when the script has been put away and
\* no tool had failed, the file system fills the disk (firstboot.sh, "Restore
\* original disk signature so PARTUUID stays consistent").
BootsAgain ==
    /\ sig = "image" \/ at = "restore" \/ cut \/ "dd" \in trouble
    /\ ~script /\ trouble = {} => rootfs = "disk"
=============================================================================
