--------------------------- MODULE MCCedarLocks -----------------------------
(* Instances of CedarLocks for TLC: two threads share a file, one has its  *)
(* own.                                                                    *)
EXTENDS CedarLocks, TLC

CONSTANTS t1, t2, t3, f1, f2

SharedFile == (t1 :> f1) @@ (t2 :> f1) @@ (t3 :> f2)
OwnFiles == (t1 :> f1) @@ (t2 :> f2)
OwnChannel3 == (t1 :> 0) @@ (t2 :> 1) @@ (t3 :> 2)
OwnChannel2 == (t1 :> 0) @@ (t2 :> 1)
LockOrder == [vdec |-> 1, venc |-> 2]
OneFile == (t1 :> f1) @@ (t2 :> f1)
OneLock == [vdec |-> 1]
============================================================================
