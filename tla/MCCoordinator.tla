---------------------------- MODULE MCCoordinator ----------------------------
(* Model-checking instance of Coordinator. *)
EXTENDS Coordinator

Both == {1, 2}
Short == {2}

\* Two runs and a failure, or one run with a failure and a reload.
Pairs == {<<2, 1, 0>>, <<1, 1, 1>>}
===============================================================================
