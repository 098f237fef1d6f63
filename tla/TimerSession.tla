----------------------------- MODULE TimerSession -----------------------------
(***************************************************************************)
(* What one session with a timer promises to its coordinator: the command  *)
(* it was opened for is the only thing it does to the valve, what it has   *)
(* seen only ever gets newer and is never newer than the truth, and at its *)
(* end nothing moves any more.                                             *)
(***************************************************************************)
EXTENDS Naturals

VARIABLES op,       \* the operation: status, start, stop or onboard
          valve,    \* the timer: watering or idle
          ver,      \* the timer: how often its valve was set
          seen,     \* the snapshot: a valve, and the version it is of
          outcome   \* running, ok or error

vars == <<op, valve, ver, seen, outcome>>

Init ==
  /\ op \in {"status", "start", "stop", "onboard"}
  /\ valve \in {"watering", "idle"}
  /\ ver = 0
  /\ seen = [kind |-> "none", ver |-> 0]
  /\ outcome = "running"

\* The timer obeys a command, of a start or a stop; only a start opens the valve.
Obey ==
  /\ outcome = "running"
  /\ op \in {"start", "stop"}
  /\ \/ valve' = "idle"
     \/ op = "start" /\ valve' = "watering"
  /\ ver' = ver + 1
  /\ UNCHANGED <<op, seen, outcome>>

\* A record of the timer is heard: of now, or of a moment since the one seen last.
Hear ==
  /\ outcome = "running"
  /\ \E k \in {"watering", "idle"} : \E v \in seen.ver .. ver :
       /\ v = ver => k = valve
       /\ seen' = [kind |-> k, ver |-> v]
  /\ UNCHANGED <<op, valve, ver, outcome>>

End ==
  /\ outcome = "running"
  /\ outcome' \in {"ok", "error"}
  /\ UNCHANGED <<op, valve, ver, seen>>

Next == Obey \/ Hear \/ End

Spec == Init /\ [][Next]_vars
===============================================================================
