----------------------------- MODULE NotifyStream -----------------------------
(***************************************************************************)
(* What a notification channel promises its callback: every message at     *)
(* most once, in the order of issue, any of them possibly never.           *)
(***************************************************************************)
EXTENDS Integers, Sequences

VARIABLES issued,  \* messages 1 .. issued exist
          got      \* the messages the callback has seen

Latest == IF got = <<>> THEN 0 ELSE got[Len(got)]

Init == issued = 0 /\ got = <<>>

Issue == issued' = issued + 1 /\ UNCHANGED got

Hear == /\ \E m \in Latest + 1 .. issued : got' = Append(got, m)
        /\ UNCHANGED issued

Next == Issue \/ Hear

Spec == Init /\ [][Next]_<<issued, got>>
===============================================================================
