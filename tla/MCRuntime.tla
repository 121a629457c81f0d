----------------------------- MODULE MCRuntime -----------------------------
(* FsmRuntime on machines of the repository. *)
EXTENDS FsmRuntime, RepositoryMachines, TLC

\* Clients are interchangeable: nothing but the client that got the handle
\* first, chosen in Init, tells them apart.
ClientSymmetry == Permutations(Client)
=============================================================================
