---------------------------- MODULE MCCedarIrq ------------------------------
(* Instances of CedarIrq for TLC.                                          *)
EXTENDS CedarIrq, TLC

ClientSymmetry == Permutations(Clients)
DecoderOnly == <<"de">>
JpegAndDecoder == <<"jpeg", "de">>
============================================================================
