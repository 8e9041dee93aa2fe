------------------------------- MODULE MCProc -------------------------------
(* Instances of Proc: MCProc.cfg (safety, two CPUs), MCProcBorn.cfg (what  *)
(* kill() does to a free slot); MCSleep has one for liveness.              *)
EXTENDS Proc, TLC

\* The CPUs are interchangeable.
CpuSymmetry == Permutations(Cpus)
=============================================================================
