---------------------------- MODULE MCBootConfig ----------------------------
(* Kernels that come and go are interchangeable: the module treats every   *)
(* entry alike and no property is a liveness one.                          *)
EXTENDS BootConfig, TLC

Symmetry == Permutations(Entries)
=============================================================================
