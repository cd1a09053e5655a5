-------------------------- MODULE MCServerLifecycle --------------------------
(* Instances of ServerLifecycle for TLC. *)
EXTENDS ServerLifecycle, TLC

MCStopperSymmetry == Permutations(Accepts) \cup Permutations(Stoppers)
MCAllErrors == {"EMFILE", "EINVAL"}
MCFatalErrors == {"EINVAL"}
MCNoErrors == {}

=============================================================================
