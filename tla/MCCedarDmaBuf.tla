---------------------------- MODULE MCCedarDmaBuf ----------------------------
(* Constants of the TLC runs of CedarDmaBuf: two threads of one process and  *)
(* one of another.                                                           *)
EXTENDS CedarDmaBuf, TLC

CONSTANTS a1, a2, b1, A, B

MCThreads == {a1, a2, b1}
MCProcess == (a1 :> A) @@ (a2 :> A) @@ (b1 :> B)
MCProcesses == {A, B}

Sym == Permutations(Bufs) \cup Permutations(Filps) \cup
       Permutations(Fds) \cup Permutations({a1, a2})
=============================================================================
