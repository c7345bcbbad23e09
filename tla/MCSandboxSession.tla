-------------------------- MODULE MCSandboxSession --------------------------
(* Instances of SandboxSession for TLC: the configurations choose the threads, *)
(* the methods they call, the faults and the number of calls.                  *)
EXTENDS SandboxSession, TLC

\* The threads of the instances.
CONSTANTS t1, t2

\* The threads are alike.
Symmetry == Permutations(Threads)

=============================================================================
