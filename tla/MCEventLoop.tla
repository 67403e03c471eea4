------------------------------ MODULE MCEventLoop ------------------------------
(* The event loop with its panes, workflow steps, users and harnesses. *)
EXTENDS EventLoop, TLC

CONSTANTS c1, c2

OneStep == {c1}
TwoSteps == {c1, c2}
OneSideband == {c2}
Symmetry == Permutations(TwoSteps)
===============================================================================
