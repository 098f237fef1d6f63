---------------------------- MODULE MCConfigFlow ----------------------------
(* Model-checking instances of ConfigFlow. *)
EXTENDS ConfigFlow, TLC

OneEntry == {1}
TwoEntries == {1, 2}

\* Neither dialogs nor timers are told apart, entries are (by CreateEntry).
Symmetry == Permutations(Flows) \cup Permutations(Timers)
===============================================================================
