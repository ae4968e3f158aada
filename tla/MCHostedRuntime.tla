-------------------------- MODULE MCHostedRuntime ---------------------------
(* HostedRuntime on small instances.                                       *)
EXTENDS HostedRuntime, TLC

Symmetry == Permutations(Calls) \cup Permutations(Keys) \cup Permutations(Handles)
            \cup Permutations(Releases)
=============================================================================
