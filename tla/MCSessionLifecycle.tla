------------------------ MODULE MCSessionLifecycle ------------------------
(* SessionLifecycle on small instances.                                    *)
EXTENDS SessionLifecycle, TLC

CallerSymmetry == Permutations(Callers)

=============================================================================
