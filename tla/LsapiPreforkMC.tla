---------------------------- MODULE LsapiPreforkMC ----------------------------
(* LsapiPrefork for TLC: process ids are interchangeable. *)
EXTENDS LsapiPrefork, TLC

Symmetry == Permutations(Pids)
=============================================================================
