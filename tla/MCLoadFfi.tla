----------------------------- MODULE MCLoadFfi -----------------------------
(* Instances of LoadFfi for TLC.  Loads are interchangeable, and so are    *)
(* libraries and configurations.                                           *)
EXTENDS LoadFfi, TLC

Symm == Permutations(Obj) \cup Permutations(Lib) \cup Permutations(Cfg)
=============================================================================
