------------------------------ MODULE MCJobs ------------------------------
(* Instances of Jobs for TLC. *)
EXTENDS Jobs, TLC

(* Pids are only ever compared for equality. *)
PidSymmetry == Permutations(Pids)
===========================================================================
