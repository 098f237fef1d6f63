----------------------------- MODULE MCGen2Merge -----------------------------
(* Model-checking instances of Gen2Merge. *)
EXTENDS Gen2Merge

TwoPorts == {0, 1}
OnOff == {"wateringInProgress", "wateringComplete"}
AllStatuses == {"wateringInProgress", "stationDelay", "wateringComplete"}
IdleOrNot == {"deviceIdle", "wateringInProgress"}
SecondPort == {<<1>>}
===============================================================================
