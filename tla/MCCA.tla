-------------------------------- MODULE MCCA --------------------------------
(***************************************************************************)
(* Instances of CA for TLC.                                                *)
(***************************************************************************)
EXTENDS CARefinement, TLC

\* Two subjects, one the beginning of the other, and a beginning of both that
\* is not a name any more.
NameBeginnings ==
  [d \in Names |-> Names \intersect
     CASE d = "CN=alice" -> {"CN=alice", "CN=ali", "CN"}
       [] d = "CN=ali"   -> {"CN=ali", "CN"}
       [] OTHER          -> {d}]

\* The invocations differ in nothing but their names.  (Used for invariants
\* only: a symmetric state space is not sound for liveness.)
ProcSymmetry == Permutations(Procs)
=============================================================================
