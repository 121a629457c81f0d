---------------------------- MODULE MCObservers ----------------------------
(* FsmObservers on machines of the repository. *)
EXTENDS FsmObservers, RepositoryMachines, TLC

ClientSymmetry == Permutations(Client)
=============================================================================
