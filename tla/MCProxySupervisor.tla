-------------------------- MODULE MCProxySupervisor -------------------------
(* Symmetric instances of ProxySupervisor for TLC.                           *)
EXTENDS ProxySupervisor, TLC

UriSymmetry == Permutations(Uris)
=============================================================================
