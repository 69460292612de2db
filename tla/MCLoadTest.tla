------------------------------ MODULE MCLoadTest ------------------------------
(***************************************************************************)
(* LoadTest for TLC.                                                       *)
(***************************************************************************)
EXTENDS LoadTest, TLC

CONSTANTS alice, bob, ws1, ws2, ws3, beginner

\* Three iterations without a fault, or two with one.
FewIterations == connects + faults <= 3

\* The two users differ in name only, and symmetry sets do not go with
\* liveness: alice is the one whose virtual user connects first.
AliceFirst == vu[bob].iteration > 0 => vu[alice].iteration > 0

\* LoadFairSpec within these bounds.  An iteration that has begun is not cut off: no step
\* that fairness asks for connects or fails.
BoundedNext == LoadNext /\ FewIterations' /\ AliceFirst'

BoundedSpec ==
  LoadInit /\ [][BoundedNext]_loadVars /\ \A u \in Users : WF_loadVars(Iteration(u))
=============================================================================
