---------------------------- MODULE MCGen1Session ----------------------------
(* Model-checking instances of Gen1Session. *)
EXTENDS Gen1Session, TLC

OnlyStatus == {"status"}
OnlyStart == {"start"}

\* The ends of the timer's own command ranges.
Lowest == {135}
Highest == {191}
===============================================================================
