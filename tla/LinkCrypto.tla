------------------------------ MODULE LinkCrypto ------------------------------
(***************************************************************************)
(* The counter-mode framing of pybhyve/link_crypto.py.                     *)
(*                                                                         *)
(* A payload is abstracted to n, the number of 16-byte keystream blocks it *)
(* takes, and a frame to the counter it was encrypted at.  Keystream       *)
(* blocks are told apart by their counter alone: key and iv are fixed for  *)
(* the life of a link.  The 16-bit checksum is abstracted to the set of    *)
(* WRONG counters at which a given ciphertext happens to check out, the    *)
(* "collide" field of a frame.                                             *)
(***************************************************************************)
EXTENDS Integers

CONSTANTS CtrMod,    \* _CTR_MOD, 2^32 - 1 in the code
          MaxSkip    \* GEN1_MAX_CTR_SKIP, 65535 in the code

ASSUME CtrModAssumption == CtrMod \in Nat /\ CtrMod > 1
ASSUME MaxSkipAssumption == MaxSkip \in Nat /\ MaxSkip < CtrMod

\* A counter starts as any 32-bit value, CtrMod itself (0xFFFFFFFF) included.
Counter == 0 .. CtrMod

inc_ctr(n) == (n + 1) % CtrMod

\* The counter after n blocks: inc_ctr applied n times (lemma BlockStep of
\* BleTransportProofs).
perform_crypto(ctr, n) == IF n = 0 THEN ctr ELSE (ctr + n) % CtrMod

\* The keystream blocks that encrypt n blocks from ctr.
Keystream(ctr, n) == {perform_crypto(ctr, k) : k \in 0 .. n - 1}

\* parse_data_frame at a candidate counter: the checksum of a frame without
\* data does not depend on the counter at all.
ChecksOut(f, ctr) == f.n = 0 \/ ctr = f.ctr \/ ctr \in f.collide

\* Mutant: the last candidate of the window is left out.
ResyncSkipsShort(f, dec) == {k \in 0 .. MaxSkip - 1 : ChecksOut(f, perform_crypto(dec, k))}

\* parse_data_frame_resync: the candidates are the counters up to MaxSkip
\* steps ahead of dec_ctr, and the first that checks out is taken.
ResyncSkips(f, dec) == {k \in 0 .. MaxSkip : ChecksOut(f, perform_crypto(dec, k))}

\* Mutant: the furthest candidate is taken.
IsFurthestSkip(f, dec, k) ==
  k \in ResyncSkips(f, dec) /\ \A j \in ResyncSkips(f, dec) : j <= k

IsFirstSkip(f, dec, k) ==
  k \in ResyncSkips(f, dec) /\ \A j \in ResyncSkips(f, dec) : k <= j

\* The dec_ctr that parse_inbound_data_frame returns after skip k, and whether
\* the plaintext it returns is the one that was encrypted.
NextDec(f, dec, k) == perform_crypto(perform_crypto(dec, k), f.n)
Intact(f, dec, k) == f.n = 0 \/ perform_crypto(dec, k) = f.ctr
===============================================================================
