-------------------------- MODULE BleTransportProofs --------------------------
(***************************************************************************)
(* For every counter period, window, set of tasks and bound: the transport *)
(* never reuses a keystream block, the timer receives frames in the order  *)
(* of their counters, and what the resync window of the receiving half     *)
(* lets through is an in-order part of what the timer emitted.             *)
(***************************************************************************)
EXTENDS BleTransport, SequenceTheorems, TLAPS

(* Arithmetic of the link counters: what a run of inc_ctr steps returns, and that it      *)
(* does not return to a counter within one period.                                        *)

\* The two cases of the remainder the counters ever meet.
LEMMA ModBelow == ASSUME NEW x \in 0 .. CtrMod - 1 PROVE x % CtrMod = x
  BY CtrModAssumption, SMT

LEMMA ModAbove == ASSUME NEW x \in CtrMod .. 2 * CtrMod - 1 PROVE x % CtrMod = x - CtrMod
  BY CtrModAssumption, SMT

\* perform_crypto keeps a counter a 32-bit value.
LEMMA BlockType ==
  ASSUME NEW c \in Counter, NEW n \in Nat
  PROVE  perform_crypto(c, n) \in Counter
  <1>1. n # 0 => (c + n) % CtrMod \in 0 .. CtrMod - 1
    BY CtrModAssumption, SMT DEF Counter
  <1> QED
    BY <1>1, CtrModAssumption DEF perform_crypto, Counter

\* perform_crypto in linear form, for fewer blocks than a period.
LEMMA BlockCases ==
  ASSUME NEW c \in Counter, NEW n \in 0 .. CtrMod - 1
  PROVE  perform_crypto(c, n) = IF n = 0 \/ c + n < CtrMod THEN c + n ELSE c + n - CtrMod
  <1>1. CASE n = 0
    BY <1>1 DEF perform_crypto, Counter
  <1>2. CASE n # 0 /\ c + n < CtrMod
    <2>1. c + n \in 0 .. CtrMod - 1
      BY <1>2, CtrModAssumption DEF Counter
    <2> QED
      BY <1>2, <2>1, ModBelow DEF perform_crypto
  <1>3. CASE n # 0 /\ ~(c + n < CtrMod)
    <2>1. c + n \in CtrMod .. 2 * CtrMod - 1
      BY <1>3, CtrModAssumption DEF Counter
    <2> QED
      BY <1>3, <2>1, ModAbove, CtrModAssumption DEF perform_crypto, Counter
  <1> QED
    BY <1>1, <1>2, <1>3

\* One more block is one more inc_ctr, as the loop of perform_crypto does it.
LEMMA BlockStep ==
  ASSUME NEW c \in Counter, NEW n \in 0 .. CtrMod - 2
  PROVE  perform_crypto(c, n + 1) = inc_ctr(perform_crypto(c, n))
  <1> DEFINE p == perform_crypto(c, n)
  <1>1. p = IF n = 0 \/ c + n < CtrMod THEN c + n ELSE c + n - CtrMod
    BY BlockCases, CtrModAssumption
  <1>2. perform_crypto(c, n + 1) = IF c + n + 1 < CtrMod THEN c + n + 1 ELSE c + n + 1 - CtrMod
    BY BlockCases, CtrModAssumption DEF Counter
  <1>3. CASE p + 1 < CtrMod
    <2>1. p + 1 \in 0 .. CtrMod - 1
      BY <1>1, <1>3, CtrModAssumption DEF Counter
    <2> QED
      BY <1>1, <1>2, <1>3, <2>1, ModBelow, CtrModAssumption DEF inc_ctr, Counter
  <1>4. CASE ~(p + 1 < CtrMod)
    <2>1. p + 1 \in CtrMod .. 2 * CtrMod - 1
      BY <1>1, <1>4, CtrModAssumption DEF Counter
    <2> QED
      BY <1>1, <1>2, <1>4, <2>1, ModAbove, CtrModAssumption DEF inc_ctr, Counter
  <1> QED
    BY <1>3, <1>4

\* Encrypting a blocks, then b blocks, is encrypting a + b blocks.
LEMMA BlockAdd ==
  ASSUME NEW c \in Counter, NEW a \in Nat, NEW b \in Nat, a + b < CtrMod
  PROVE  perform_crypto(perform_crypto(c, a), b) = perform_crypto(c, a + b)
  <1> DEFINE p == perform_crypto(c, a)
  <1>1. p \in Counter
    BY BlockType
  <1>2. p = IF a = 0 \/ c + a < CtrMod THEN c + a ELSE c + a - CtrMod
    BY BlockCases, CtrModAssumption
  <1>3. perform_crypto(p, b) = IF b = 0 \/ p + b < CtrMod THEN p + b ELSE p + b - CtrMod
    BY <1>1, BlockCases, CtrModAssumption
  <1>4. perform_crypto(c, a + b) =
          IF a + b = 0 \/ c + (a + b) < CtrMod THEN c + (a + b) ELSE c + (a + b) - CtrMod
    BY BlockCases, CtrModAssumption
  <1> HIDE DEF p
  <1>5. perform_crypto(p, b) = perform_crypto(c, a + b)
    BY <1>1, <1>2, <1>3, <1>4, CtrModAssumption DEF Counter
  <1> QED
    BY <1>5 DEF p

\* Within a period no counter comes back, for every starting value: the start
\* 0xFFFFFFFF, which inc_ctr never reaches again, included.
LEMMA BlockInjective ==
  ASSUME NEW c \in Counter, NEW a \in 0 .. CtrMod - 1, NEW b \in 0 .. CtrMod - 1, a # b
  PROVE  perform_crypto(c, a) # perform_crypto(c, b)
  <1>1. perform_crypto(c, a) = IF a = 0 \/ c + a < CtrMod THEN c + a ELSE c + a - CtrMod
    BY BlockCases
  <1>2. perform_crypto(c, b) = IF b = 0 \/ c + b < CtrMod THEN c + b ELSE c + b - CtrMod
    BY BlockCases
  <1> QED
    BY <1>1, <1>2, CtrModAssumption DEF Counter

\* Two frames whose positions do not overlap share no keystream block.
LEMMA DisjointKeystream ==
  ASSUME NEW c \in Counter,
         NEW p \in Nat, NEW m \in Nat, NEW q \in Nat, NEW n \in Nat,
         p + m <= q, q + n < CtrMod
  PROVE  Keystream(perform_crypto(c, p), m) \cap Keystream(perform_crypto(c, q), n) = {}
  <1> SUFFICES ASSUME NEW i \in 0 .. m - 1, NEW j \in 0 .. n - 1
               PROVE  perform_crypto(perform_crypto(c, p), i)
                        # perform_crypto(perform_crypto(c, q), j)
    BY DEF Keystream
  <1>1. perform_crypto(perform_crypto(c, p), i) = perform_crypto(c, p + i)
    BY BlockAdd, CtrModAssumption
  <1>2. perform_crypto(perform_crypto(c, q), j) = perform_crypto(c, q + j)
    BY BlockAdd, CtrModAssumption
  <1>3. p + i \in 0 .. CtrMod - 1 /\ q + j \in 0 .. CtrMod - 1 /\ p + i # q + j
    BY CtrModAssumption
  <1> QED
    BY <1>1, <1>2, <1>3, BlockInjective

-------------------------------------------------------------------------------

(* The inductive invariant.                                                 *)

\* The task that writes holds the lock, and writes the newest frame.
WriterInv ==
  \A t \in Tasks : pc[t] = "writing" =>
    lock = t /\ Len(sent) > 0 /\ frame[t] = Len(sent)

\* Frames were encrypted at consecutive positions of one counter sequence.
SentInv ==
  /\ \A i \in 1 .. Len(sent) :
       /\ sent[i].ctr = perform_crypto(start.enc, sent[i].pos)
       /\ sent[i].pos + sent[i].n < CtrMod
  /\ \A i, j \in 1 .. Len(sent) : i < j => sent[i].pos + sent[i].n <= sent[j].pos

\* _keys.enc_ctr stands where the newest frame ended.
KeyInv ==
  /\ keyed => enc_ctr = perform_crypto(start.enc, Spent)
  /\ conn \in {"new", "connecting", "handshake"} => sent = <<>> /\ ~keyed

\* The timer received frames oldest first, and none that is still being written.
WireInv ==
  /\ \A i \in 1 .. Len(wire) : wire[i] \in 1 .. Len(sent)
  /\ \A i, j \in 1 .. Len(wire) : i < j => wire[i] < wire[j]
  /\ \A t \in Tasks : pc[t] = "writing" => \A i \in 1 .. Len(wire) : wire[i] < Len(sent)

\* A handshake that goes on has a read left.
ReadsInv == conn \in {"new", "connecting", "handshake"} => reads < MaxReads

IInv == TypeOK /\ WriterInv /\ SentInv /\ KeyInv /\ WireInv /\ ReadsInv

LEMMA SpentType ==
  ASSUME TypeOK, SentInv
  PROVE  Spent \in Nat /\ Spent < CtrMod
  <1>1. CASE sent = <<>>
    BY <1>1, CtrModAssumption DEF Spent
  <1>2. CASE sent # <<>>
    <2>1. Len(sent) \in 1 .. Len(sent) /\ sent[Len(sent)] \in OutFrame
      BY <1>2 DEF TypeOK
    <2> QED
      BY <1>2, <2>1, BoundsAssumption DEF Spent, SentInv, OutFrame
  <1> QED
    BY <1>1, <1>2

LEMMA InitIInv == Init => IInv
  <1> SUFFICES ASSUME Init PROVE IInv
    OBVIOUS
  <1>1. start.enc \in Counter /\ start.dec \in Counter /\ start \in [enc : Counter, dec : Counter]
    BY StartsAssumption DEF Init
  <1>2. TypeOK
    <2>1. pc \in [Tasks -> {"idle", "waiting", "writing", "ok", "error", "crashed"}]
      BY DEF Init
    <2>2. frame \in [Tasks -> Nat]
      BY DEF Init
    <2>3. waiters \in Seq(Tasks) /\ sent \in Seq(OutFrame) /\ wire \in Seq(Nat)
          /\ air \in Seq(InFrame) /\ notifyTasks \in Seq(Heard) /\ delivered \in Seq(Heard)
      BY DEF Init
    <2>4. conn \in Phases /\ reads \in 0 .. MaxReads
      BY BoundsAssumption DEF Init, Phases
    <2>7. linkUp \in BOOLEAN /\ keyed \in BOOLEAN
      BY Zenon DEF Init
    <2>5. dtx \in Nat /\ emitted \in Nat /\ decPos \in Nat
          /\ rejects \subseteq [id : Nat, gap : Int]
      BY BoundsAssumption DEF Init
    <2>6. enc_ctr \in Counter /\ dec_ctr \in Counter /\ lock \in Tasks \cup {Free}
      BY <1>1 DEF Init
    <2> QED
      BY <1>1, <2>1, <2>2, <2>3, <2>4, <2>5, <2>6, <2>7 DEF TypeOK
  <1>3. WriterInv /\ SentInv /\ KeyInv /\ WireInv /\ ReadsInv
    BY BoundsAssumption DEF Init, WriterInv, SentInv, KeyInv, WireInv, ReadsInv
  <1> QED
    BY <1>2, <1>3 DEF IInv

\* Encrypting a frame and starting to write it keeps the invariant.
LEMMA EncryptKeeps ==
  ASSUME IInv, NEW t \in Tasks, NEW n \in 0 .. MaxBlocks,
         keyed, lock = Free, Encrypt(t, n),
         waiters' \in Seq(Tasks),
         UNCHANGED <<linkUp, keyed, dec_ctr, wire, ownerVars, recvVars>>
  PROVE  IInv'
  <1> DEFINE f == [pos |-> Spent, ctr |-> enc_ctr, n |-> n]
  <1>0. Spent \in Nat /\ Spent < CtrMod /\ n \in Nat
    BY SpentType, BoundsAssumption DEF IInv
  <1>1. f \in OutFrame /\ Spent + n < CtrMod
    BY <1>0 DEF OutFrame, Encrypt, IInv, TypeOK
  <1>2. /\ sent' = Append(sent, f)
        /\ sent' \in Seq(OutFrame)
        /\ Len(sent) \in Nat
        /\ Len(sent') = Len(sent) + 1
        /\ \A i \in 1 .. Len(sent) : sent'[i] = sent[i]
        /\ sent'[Len(sent) + 1] = f
    BY <1>1 DEF IInv, TypeOK, Encrypt
  <1>3. Spent' = Spent + n
    <2>1. sent' # <<>>
      BY <1>2
    <2> QED
      BY <1>2, <2>1 DEF Spent
  <1>4. enc_ctr' = perform_crypto(enc_ctr, n) /\ enc_ctr' \in Counter
    BY <1>0, BlockType DEF Encrypt, IInv, TypeOK
  <1>5. \A i \in 1 .. Len(sent) : sent[i].pos + sent[i].n <= Spent
    <2> SUFFICES ASSUME NEW i \in 1 .. Len(sent) PROVE sent[i].pos + sent[i].n <= Spent
      OBVIOUS
    <2>1. sent # <<>> /\ Len(sent) \in 1 .. Len(sent)
      BY <1>2
    <2>2. sent[i] \in OutFrame /\ sent[Len(sent)] \in OutFrame
      BY <2>1 DEF IInv, TypeOK
    <2>3. Spent = sent[Len(sent)].pos + sent[Len(sent)].n
      BY <2>1 DEF Spent
    <2>4. i < Len(sent) => sent[i].pos + sent[i].n <= sent[Len(sent)].pos
      BY <2>1 DEF IInv, SentInv
    <2> QED
      BY <1>2, <2>2, <2>3, <2>4, BoundsAssumption, SMTT(30) DEF OutFrame
  <1>6. start' = start /\ start.enc \in Counter
    BY DEF IInv, TypeOK, ownerVars
  <1>7. enc_ctr = perform_crypto(start.enc, Spent)
    BY DEF IInv, KeyInv
  <1>8. \A i \in 1 .. Len(sent) : sent[i] \in OutFrame
    BY DEF IInv, TypeOK
  <1>9. TypeOK'
    <2>1. frame' \in [Tasks -> Nat] /\ pc' \in [Tasks -> {"idle", "waiting", "writing", "ok", "error", "crashed"}]
      BY <1>2, SMTT(30) DEF IInv, TypeOK, Encrypt
    <2> QED
      BY <1>2, <1>4, <2>1 DEF IInv, TypeOK, Encrypt, ownerVars, recvVars
  <1>10. WriterInv'
    BY <1>2, FreeAssumption DEF IInv, WriterInv, Encrypt, TypeOK
  <1>11. SentInv'
    BY <1>0, <1>1, <1>2, <1>5, <1>6, <1>7, <1>8, SMTT(30) DEF IInv, SentInv, OutFrame
  <1>12. KeyInv'
    <2>1. enc_ctr' = perform_crypto(start.enc, Spent + n)
      BY <1>0, <1>1, <1>4, <1>6, <1>7, BlockAdd
    <2> QED
      BY <1>3, <1>6, <2>1 DEF KeyInv, IInv, ownerVars
  <1>13. WireInv'
    <2>1. wire' = wire /\ Len(wire) \in Nat
      BY DEF IInv, TypeOK
    <2>2. \A i \in 1 .. Len(wire) : wire[i] \in 1 .. Len(sent)
      BY DEF IInv, WireInv
    <2>3. \A i, j \in 1 .. Len(wire) : i < j => wire[i] < wire[j]
      BY DEF IInv, WireInv
    <2>4. \A i \in 1 .. Len(wire) : wire[i] \in 1 .. Len(sent') /\ wire[i] < Len(sent')
      BY <1>2, <2>2
    <2> HIDE DEF f
    <2> QED
      BY <2>1, <2>3, <2>4 DEF WireInv
  <1>14. ReadsInv'
    BY DEF IInv, ReadsInv, ownerVars
  <1> QED
    BY <1>9, <1>10, <1>11, <1>12, <1>13, <1>14 DEF IInv

\* A step that leaves the senders and what was sent alone keeps their invariants.
LEMMA SendersUntouched ==
  ASSUME IInv, UNCHANGED <<start, sendVars>>
  PROVE  WriterInv' /\ SentInv' /\ WireInv' /\ Spent' = Spent
  BY DEF IInv, WriterInv, SentInv, WireInv, Spent, sendVars

\* The owner's steps.
LEMMA OwnerKeeps == ASSUME IInv, Owner PROVE IInv'
  <1> USE DEF IInv
  <1>0. UNCHANGED <<start, sendVars, recvVars>>
    BY DEF Owner, Lookup, Establish, HandshakeRead, HandshakeRetry, SetupError,
           StartNotify, BeginDisconnect, StopNotify, FinishDisconnect
  <1>1. WriterInv' /\ SentInv' /\ WireInv' /\ Spent' = Spent
    BY <1>0, SendersUntouched
  <1>2. /\ conn' \in Phases
        /\ reads' \in 0 .. MaxReads
        /\ enc_ctr' \in Counter /\ dec_ctr' \in Counter
        /\ ReadsInv'
    <2>0. /\ MaxReads \in Nat /\ reads \in 0 .. MaxReads /\ conn \in Phases
          /\ start.enc \in Counter /\ start.dec \in Counter
          /\ enc_ctr \in Counter /\ dec_ctr \in Counter
      BY BoundsAssumption DEF TypeOK
    <2>1. CASE HandshakeRead
      BY <2>0, <2>1 DEF HandshakeRead, ReadsInv, Phases
    <2>2. CASE HandshakeRetry
      BY <2>0, <2>2 DEF HandshakeRetry, ReadsInv, Phases, keyVars
    <2>3. CASE FinishDisconnect
      BY <2>0, <2>3 DEF FinishDisconnect, ReadsInv, Phases
    <2>4. CASE Lookup \/ Establish \/ SetupError \/ StartNotify \/ BeginDisconnect \/ StopNotify
      BY <2>0, <2>4
      DEF Lookup, Establish, SetupError, StartNotify, BeginDisconnect, StopNotify, ReadsInv,
          Phases, keyVars
    <2> QED
      BY <2>1, <2>2, <2>3, <2>4 DEF Owner
  <1>3. linkUp' \in BOOLEAN /\ keyed' \in BOOLEAN
    <2>1. linkUp \in BOOLEAN /\ keyed \in BOOLEAN
      BY DEF TypeOK
    <2>2. linkUp' \in {TRUE, FALSE, linkUp} /\ keyed' \in {TRUE, FALSE, keyed}
      BY Zenon DEF keyVars, Owner, Lookup, Establish, HandshakeRead, HandshakeRetry, SetupError,
          StartNotify, BeginDisconnect, StopNotify, FinishDisconnect
    <2> QED
      BY <2>1, <2>2
  <1>4. TypeOK'
    BY <1>0, <1>2, <1>3 DEF TypeOK, sendVars, recvVars
  <1>5. KeyInv'
    <2>1. CASE HandshakeRead
      <3>1. sent = <<>> /\ sent' = <<>> /\ start' = start
        BY <1>0, <2>1 DEF HandshakeRead, KeyInv, sendVars
      <3>2. Spent' = 0 /\ enc_ctr' = start.enc
        BY <2>1, <3>1 DEF HandshakeRead, Spent
      <3> QED
        BY <2>1, <3>1, <3>2 DEF KeyInv, HandshakeRead, perform_crypto
    <2>2. CASE ~HandshakeRead
      <3>0. UNCHANGED enc_ctr /\ keyed' \in {FALSE, keyed}
        BY <2>2, Zenon
        DEF keyVars, Owner, Lookup, Establish, HandshakeRetry, SetupError, StartNotify,
            BeginDisconnect, StopNotify, FinishDisconnect
      <3>1. enc_ctr' = enc_ctr /\ start' = start /\ sent' = sent
        BY <1>0, <3>0 DEF sendVars
      <3>3. keyed' => keyed
        BY <3>0, Zenon
      <3>2. conn' \in {"new", "connecting", "handshake"} => conn \in {"new", "connecting", "handshake"}
        BY <2>2
        DEF Owner, Lookup, Establish, HandshakeRetry, SetupError, StartNotify,
            BeginDisconnect, StopNotify, FinishDisconnect
      <3> QED
        BY <1>1, <3>1, <3>2, <3>3 DEF KeyInv
    <2> QED
      BY <2>1, <2>2
  <1> QED
    BY <1>1, <1>2, <1>4, <1>5

LEMMA LinkDropKeeps == ASSUME IInv, LinkDrop PROVE IInv'
  <1>1. WriterInv' /\ SentInv' /\ WireInv' /\ Spent' = Spent
    BY SendersUntouched DEF LinkDrop
  <1>2. TypeOK'
    BY DEF LinkDrop, IInv, TypeOK, keyVars, sendVars, recvVars
  <1> QED
    BY <1>1, <1>2 DEF IInv, LinkDrop, KeyInv, ReadsInv, keyVars, sendVars

\* Steps of async_send_plaintext other than an encryption: the frames sent stay
\* as they are, and nobody starts to write.
LEMMA SendKeeps == ASSUME IInv, NEW t \in Tasks, Send(t) PROVE IInv'
  <1> USE DEF IInv
  <1>1. ASSUME NEW n \in 0 .. MaxBlocks, SendNow(t, n) PROVE IInv'
    BY <1>1, EncryptKeeps DEF SendNow, TypeOK
  <1>2. ASSUME NEW n \in 0 .. MaxBlocks, LockGranted(t, n) PROVE IInv'
    <2>1. waiters' \in Seq(Tasks)
      BY <1>2 DEF LockGranted, TypeOK
    <2> QED
      BY <1>2, <2>1, EncryptKeeps DEF LockGranted
  <1>3. CASE SendNotConnected(t) \/ SendQueued(t) \/ LockGrantedTooLate(t)
    <2>1. UNCHANGED <<linkUp, keyVars, lock, frame, sent, wire, ownerVars, recvVars>>
      BY <1>3 DEF SendNotConnected, SendQueued, LockGrantedTooLate
    <2>2. waiters' \in Seq(Tasks)
      <3>1. waiters \in Seq(Tasks)
        BY DEF TypeOK
      <3>2. waiters # <<>> => Tail(waiters) \in Seq(Tasks)
        BY <3>1
      <3>3. Append(waiters, t) \in Seq(Tasks)
        BY <3>1
      <3> QED
        BY <1>3, <3>1, <3>2, <3>3 DEF SendNotConnected, SendQueued, LockGrantedTooLate
    <2>3. /\ pc' \in [Tasks -> {"idle", "waiting", "writing", "ok", "error", "crashed"}]
          /\ \A u \in Tasks : pc'[u] = "writing" => pc[u] = "writing"
      BY <1>3 DEF SendNotConnected, SendQueued, LockGrantedTooLate, TypeOK
    <2>4. TypeOK'
      BY <2>1, <2>2, <2>3 DEF TypeOK, keyVars, ownerVars, recvVars
    <2>5. WriterInv' /\ SentInv' /\ WireInv'
      BY <2>1, <2>3 DEF WriterInv, SentInv, WireInv, ownerVars
    <2>6. KeyInv' /\ ReadsInv'
      BY <2>1 DEF KeyInv, ReadsInv, Spent, keyVars, ownerVars
    <2> QED
      BY <2>4, <2>5, <2>6
  <1>4. CASE WriteAcked(t) \/ WriteFailed(t)
    <2>1. UNCHANGED <<linkUp, keyVars, waiters, sent, ownerVars, recvVars>>
      BY <1>4 DEF WriteAcked, WriteFailed
    <2>2. PICK outcome \in {"ok", "error"} : Release(t, outcome)
      BY <1>4 DEF WriteAcked, WriteFailed
    <2>3. /\ pc' \in [Tasks -> {"idle", "waiting", "writing", "ok", "error", "crashed"}]
          /\ frame' \in [Tasks -> Nat]
          /\ lock' = Free
      BY <2>2 DEF Release, TypeOK
    <2>4. pc[t] = "writing" /\ frame[t] = Len(sent) /\ Len(sent) > 0 /\ Len(sent) \in Nat
      BY <1>4 DEF WriteAcked, WriteFailed, WriterInv, TypeOK
    <2>5. wire' = wire \/ wire' = Append(wire, Len(sent))
      BY <1>4, <2>4 DEF WriteAcked, WriteFailed
    <2>6. wire' \in Seq(Nat)
      <3>1. wire \in Seq(Nat)
        BY DEF TypeOK
      <3>2. Append(wire, Len(sent)) \in Seq(Nat)
        BY <2>4, <3>1
      <3> QED
        BY <2>5, <3>1, <3>2
    <2>7. TypeOK'
      BY <2>1, <2>3, <2>6 DEF TypeOK, keyVars, ownerVars, recvVars
    <2>8. \A u \in Tasks : pc'[u] # "writing"
      BY <2>2, <2>4 DEF Release, TypeOK, WriterInv
    <2>9. SentInv' /\ KeyInv' /\ ReadsInv'
      BY <2>1 DEF SentInv, KeyInv, ReadsInv, Spent, keyVars, ownerVars
    <2>10. WireInv'
      <3>1. \A i \in 1 .. Len(wire) : wire[i] \in 1 .. Len(sent) /\ wire[i] < Len(sent)
        BY <2>4 DEF WireInv
      <3>2. \A i, j \in 1 .. Len(wire) : i < j => wire[i] < wire[j]
        BY DEF WireInv
      <3>3. wire \in Seq(Nat)
        BY DEF TypeOK
      <3>4. CASE wire' = wire
        BY <2>1, <2>8, <3>1, <3>2, <3>4 DEF WireInv
      <3>5. CASE wire' = Append(wire, Len(sent))
        <4>1. /\ Len(wire') = Len(wire) + 1 /\ Len(wire) \in Nat
              /\ \A i \in 1 .. Len(wire) : wire'[i] = wire[i]
              /\ wire'[Len(wire) + 1] = Len(sent)
          BY <2>4, <3>3, <3>5
        <4>2. sent' = sent
          BY <2>1
        <4>3. \A i \in 1 .. Len(wire') : wire'[i] \in 1 .. Len(sent')
          BY <2>4, <3>1, <4>1, <4>2
        <4>4. \A i, j \in 1 .. Len(wire') : i < j => wire'[i] < wire'[j]
          <5> SUFFICES ASSUME NEW i \in 1 .. Len(wire'), NEW j \in 1 .. Len(wire'), i < j
                       PROVE  wire'[i] < wire'[j]
            OBVIOUS
          <5>1. i \in 1 .. Len(wire) /\ wire'[i] = wire[i]
            BY <4>1
          <5>2. CASE j \in 1 .. Len(wire)
            BY <3>2, <4>1, <5>1, <5>2
          <5>3. CASE j = Len(wire) + 1
            BY <3>1, <4>1, <5>1, <5>3
          <5> QED
            BY <4>1, <5>2, <5>3
        <4> QED
          BY <2>8, <4>3, <4>4 DEF WireInv
      <3> QED
        BY <2>5, <3>4, <3>5
    <2> QED
      BY <2>7, <2>8, <2>9, <2>10 DEF WriterInv
  <1> QED
    BY <1>1, <1>2, <1>3, <1>4 DEF Send

\* The timer emits some frame.
TimerNotifies ==
  \E a \in 0 .. MaxAhead, n \in 0 .. MaxBlocks, c \in CollisionSets : TimerNotify(a, n, c)

\* Notifications touch the receiving half only: dec_ctr, never enc_ctr.
LEMMA NotifyKeeps == ASSUME IInv, Notify PROVE IInv'
  <1> USE DEF IInv
  <1>1. UNCHANGED <<linkUp, keyed, enc_ctr, sendVars, ownerVars>>
    BY DEF Notify, TimerNotify, LoseNotify, OnNotifyAccepted, OnNotifyRejected, RunNotifyTask, keyVars
  <1>2. WriterInv' /\ SentInv' /\ WireInv' /\ Spent' = Spent
    BY <1>1, SendersUntouched DEF ownerVars
  <1>3. KeyInv' /\ ReadsInv'
    BY <1>1, <1>2 DEF KeyInv, ReadsInv, ownerVars, sendVars
  <1>4. CASE TimerNotifies
    <2>1. PICK a \in 0 .. MaxAhead, n \in 0 .. MaxBlocks, c \in CollisionSets :
            TimerNotify(a, n, c)
      BY <1>4 DEF TimerNotifies
    <2>2. n \in Nat /\ dtx + a \in Nat /\ dtx' \in Nat /\ emitted' \in Nat
      BY <2>1, BoundsAssumption DEF TimerNotify, TypeOK
    <2>3. c \subseteq Counter
      BY CtrModAssumption DEF CollisionSets, Counter
    <2>4. perform_crypto(start.dec, dtx + a) \in Counter
      BY <2>2, BlockType DEF TypeOK
    <2>5. air' \in Seq(InFrame)
      BY <2>1, <2>2, <2>3, <2>4 DEF TimerNotify, TypeOK, InFrame
    <2> QED
      BY <1>1, <1>2, <1>3, <2>1, <2>2, <2>5 DEF TimerNotify, TypeOK, ownerVars, sendVars, keyVars
  <1>5. CASE LoseNotify
    BY <1>1, <1>2, <1>3, <1>5 DEF LoseNotify, TypeOK, ownerVars, sendVars, keyVars
  <1>6. CASE OnNotifyAccepted
    <2>1. Head(air) \in InFrame /\ air' \in Seq(InFrame)
      BY <1>6 DEF OnNotifyAccepted, TypeOK
    <2>2. PICK k \in 0 .. MaxSkip :
            /\ dec_ctr' = NextDec(Head(air), dec_ctr, k)
            /\ decPos' = decPos + k + Head(air).n
            /\ notifyTasks' = Append(notifyTasks,
                 [id |-> Head(air).id, pos |-> Head(air).pos, n |-> Head(air).n,
                  intact |-> Intact(Head(air), dec_ctr, k)])
      BY <1>6 DEF OnNotifyAccepted
    <2>3. /\ k \in Nat /\ Head(air).n \in Nat /\ Head(air).n \in 0 .. MaxBlocks
          /\ Head(air).id \in Nat /\ Head(air).pos \in Nat
      BY <2>1, MaxSkipAssumption, BoundsAssumption DEF InFrame
    <2>4. dec_ctr' \in Counter /\ decPos' \in Nat
      <3>1. perform_crypto(dec_ctr, k) \in Counter
        BY <2>3, BlockType DEF TypeOK
      <3>2. perform_crypto(perform_crypto(dec_ctr, k), Head(air).n) \in Counter
        BY <2>3, <3>1, BlockType
      <3> QED
        BY <2>2, <2>3, <3>2, SMTT(30) DEF NextDec, TypeOK
    <2>5. Intact(Head(air), dec_ctr, k) \in BOOLEAN
      BY DEF Intact
    <2>6. notifyTasks' \in Seq(Heard)
      BY <2>2, <2>3, <2>5 DEF Heard, TypeOK
    <2> QED
      BY <1>1, <1>2, <1>3, <1>6, <2>1, <2>4, <2>6
      DEF OnNotifyAccepted, TypeOK, ownerVars, sendVars, keyVars
  <1>7. CASE OnNotifyRejected
    <2>1. Head(air) \in InFrame /\ air' \in Seq(InFrame)
      BY <1>7 DEF OnNotifyRejected, TypeOK
    <2>2. [id |-> Head(air).id, gap |-> Head(air).pos - decPos] \in [id : Nat, gap : Int]
      BY <2>1, SMTT(30) DEF InFrame, TypeOK
    <2> QED
      BY <1>1, <1>2, <1>3, <1>7, <2>1, <2>2
      DEF OnNotifyRejected, TypeOK, ownerVars, sendVars, keyVars
  <1>8. CASE RunNotifyTask
    BY <1>1, <1>2, <1>3, <1>8 DEF RunNotifyTask, TypeOK, ownerVars, sendVars, keyVars
  <1> QED
    BY <1>4, <1>5, <1>6, <1>7, <1>8 DEF Notify, TimerNotifies

LEMMA StutterKeeps == ASSUME IInv, UNCHANGED vars PROVE IInv'
  BY DEF vars, keyVars, sendVars, recvVars, IInv, TypeOK, WriterInv, SentInv, KeyInv, WireInv,
         ReadsInv, Spent

\* The inductive invariant holds of every reachable state.
LEMMA Invariance == Spec => []IInv
  <1>1. IInv /\ [Next]_vars => IInv'
    BY OwnerKeeps, LinkDropKeeps, SendKeeps, NotifyKeeps, StutterKeeps DEF Next
  <1> QED
    BY <1>1, InitIInv, PTL DEF Spec

-------------------------------------------------------------------------------

\* Every variable of the transport keeps its type.
THEOREM TypeCorrect == Spec => []TypeOK
  <1>1. IInv => TypeOK
    BY DEF IInv
  <1> QED
    BY <1>1, Invariance, PTL

\* No keystream block is used twice on a link, for every counter period, start
\* value, number of senders and pattern of failed writes.
THEOREM KeystreamFresh == Spec => []NoKeystreamReuse
  <1>1. IInv => NoKeystreamReuse
    <2> SUFFICES ASSUME IInv, NEW i \in 1 .. Len(sent), NEW j \in 1 .. Len(sent), i < j
                 PROVE  Keystream(sent[i].ctr, sent[i].n) \cap Keystream(sent[j].ctr, sent[j].n) = {}
      <3>1. Len(sent) \in Nat
        BY DEF IInv, TypeOK
      <3> QED
        BY <3>1, SMTT(30) DEF NoKeystreamReuse
    <2>1. sent[i] \in OutFrame /\ sent[j] \in OutFrame /\ start.enc \in Counter
      BY DEF IInv, TypeOK
    <2>2. /\ sent[i].pos \in Nat /\ sent[i].n \in Nat
          /\ sent[j].pos \in Nat /\ sent[j].n \in Nat
      BY <2>1, BoundsAssumption DEF OutFrame
    <2>3. sent[i].pos + sent[i].n <= sent[j].pos /\ sent[j].pos + sent[j].n < CtrMod
      BY DEF IInv, SentInv
    <2>4. /\ sent[i].ctr = perform_crypto(start.enc, sent[i].pos)
          /\ sent[j].ctr = perform_crypto(start.enc, sent[j].pos)
      BY DEF IInv, SentInv
    <2>5. Keystream(perform_crypto(start.enc, sent[i].pos), sent[i].n)
            \cap Keystream(perform_crypto(start.enc, sent[j].pos), sent[j].n) = {}
      BY <2>1, <2>2, <2>3, DisjointKeystream
    <2> QED
      BY <2>4, <2>5
  <1> QED
    BY <1>1, Invariance, PTL

\* The timer receives frames in counter order: a frame never overtakes another,
\* and no failed write makes the counter step back.
THEOREM WireOrdered == Spec => []WireInCounterOrder
  <1>1. IInv => WireInCounterOrder
    BY DEF IInv, WireInv, SentInv, WireInCounterOrder
  <1> QED
    BY <1>1, Invariance, PTL

-------------------------------------------------------------------------------
(* The receiving half.                                                      *)

\* What was accepted, in order: handed to notify_cb, or a callback task still to run.
Accepted == delivered \o notifyTasks

\* Where the next frame that arrives begins, and how many frames will not arrive any
\* more: heard, lost or rejected.
NextPos == IF air = <<>> THEN dtx ELSE air[1].pos
Gone == emitted - Len(air)

\* Frames on the air are the newest ones; none begins before the one ahead of it ends.
OnAir(i) ==
  /\ air[i].id = Gone + i
  /\ air[i].ctr = perform_crypto(start.dec, air[i].pos)
  /\ air[i].pos + air[i].n <= dtx

AirInv ==
  /\ dtx + MaxSkip < CtrMod
  /\ Len(air) <= emitted
  /\ \A i \in 1 .. Len(air) : OnAir(i)
  /\ \A i, j \in 1 .. Len(air) : i < j => air[i].pos + air[i].n <= air[j].pos

\* Accepted frames are in order, and end before the next one that arrives.
LastEnd == EndOf(Accepted, Len(Accepted))

AcceptedInv ==
  /\ LastEnd \in Nat /\ LastEnd <= NextPos
  /\ \A i \in 1 .. Len(Accepted) : 1 <= Accepted[i].id /\ Accepted[i].id <= Gone
  /\ \A i, j \in 1 .. Len(Accepted) : i < j => Accepted[i].id < Accepted[j].id

\* The timer's counter has not got ahead since the j-th frame accepted.
Steady(j) == \A k \in j .. Len(Accepted) - 1 : ~GotAhead(Accepted, k)

\* Since a frame after which both ends agreed, _keys.dec_ctr stands where the last frame
\* ended and every frame was decrypted right, unless the timer's counter got ahead.
AgreeInv ==
  /\ \A j \in 0 .. Len(Accepted) :
       Agreed(Accepted, j) /\ Steady(j) => dec_ctr = perform_crypto(start.dec, LastEnd)
  /\ \A i \in 1 .. Len(Accepted) : ~Accepted[i].intact =>
       \A j \in 0 .. i - 1 : Agreed(Accepted, j) => \E k \in j .. i - 1 : GotAhead(Accepted, k)

\* Nothing is notified before the handshake is done.
EarlyInv ==
  conn \in {"new", "connecting", "handshake"} =>
    air = <<>> /\ dtx = 0 /\ decPos = 0 /\ Len(Accepted) = 0 /\ rejects = {}

\* No wrong plaintext was accepted.
Sound == \A i \in 1 .. Len(Accepted) : Accepted[i].intact

\* Then dec_ctr is a counter of the timer's sequence, not past the next frame; and once a
\* frame was rejected everything that comes is out of the window.
SyncInv ==
  Sound =>
    /\ decPos <= NextPos
    /\ dec_ctr = perform_crypto(start.dec, decPos)
    /\ rejects # {} => decPos + MaxSkip < NextPos
    /\ \A r \in rejects :
         /\ r.gap > MaxSkip
         /\ \A i \in 1 .. Len(Accepted) : Accepted[i].n > 0 => Accepted[i].id < r.id

\* A task in the queue of the lock has seen the keys, and only the end takes them away.
CrashInv ==
  \A t \in Tasks : /\ pc[t] = "waiting" => keyed \/ conn = "closed"
                   /\ pc[t] = "crashed" => conn = "closed"

RInv == AirInv /\ AcceptedInv /\ AgreeInv /\ EarlyInv /\ SyncInv

LEMMA AcceptedSeq ==
  ASSUME TypeOK
  PROVE  /\ Accepted \in Seq(Heard)
         /\ Len(delivered) \in Nat /\ Len(notifyTasks) \in Nat
         /\ Len(Accepted) = Len(delivered) + Len(notifyTasks)
         /\ \A i \in 1 .. Len(delivered) : Accepted[i] = delivered[i]
         /\ \A i \in 1 .. Len(notifyTasks) : Accepted[Len(delivered) + i] = notifyTasks[i]
  <1>1. delivered \in Seq(Heard) /\ notifyTasks \in Seq(Heard)
    BY DEF TypeOK
  <1>2. /\ Accepted \in Seq(Heard)
        /\ Len(Accepted) = Len(delivered) + Len(notifyTasks)
        /\ \A i \in 1 .. Len(delivered) + Len(notifyTasks) :
             Accepted[i] = IF i <= Len(delivered) THEN delivered[i]
                           ELSE notifyTasks[i - Len(delivered)]
    BY <1>1, ConcatProperties, Zenon DEF Accepted
  <1>3. Len(delivered) \in Nat /\ Len(notifyTasks) \in Nat
    BY <1>1
  <1>4. ASSUME NEW i \in 1 .. Len(delivered) PROVE Accepted[i] = delivered[i]
    BY <1>2, <1>3
  <1>5. ASSUME NEW i \in 1 .. Len(notifyTasks) PROVE Accepted[Len(delivered) + i] = notifyTasks[i]
    <2>1. Len(delivered) + i \in 1 .. Len(delivered) + Len(notifyTasks)
      BY <1>3
    <2>2. ~(Len(delivered) + i <= Len(delivered)) /\ Len(delivered) + i - Len(delivered) = i
      BY <1>3
    <2> QED
      BY <1>2, <2>1, <2>2
  <1> QED
    BY <1>2, <1>3, <1>4, <1>5

LEMMA AcceptedElems ==
  ASSUME TypeOK
  PROVE  /\ Len(Accepted) \in Nat
         /\ \A i \in 1 .. Len(Accepted) : /\ Accepted[i] \in Heard
                                         /\ Accepted[i].id \in Nat
                                         /\ Accepted[i].pos \in Nat /\ Accepted[i].n \in Nat
  <1>1. Accepted \in Seq(Heard)
    BY AcceptedSeq
  <1>2. \A x \in Heard : x.id \in Nat /\ x.pos \in Nat /\ x.n \in Nat
    BY BoundsAssumption DEF Heard
  <1> QED
    BY <1>1, <1>2

\* Running a callback task moves it from one part to the other.
LEMMA AcceptedMoves ==
  ASSUME TypeOK, RunNotifyTask
  PROVE  Accepted' = Accepted
  <1> DEFINE h == <<Head(notifyTasks)>>
  <1>1. delivered \in Seq(Heard) /\ notifyTasks \in Seq(Heard) /\ notifyTasks # <<>>
    BY DEF TypeOK, RunNotifyTask
  <1>2. Head(notifyTasks) \in Heard /\ Tail(notifyTasks) \in Seq(Heard) /\ h \in Seq(Heard)
    BY <1>1
  <1>3. Append(delivered, Head(notifyTasks)) = delivered \o h
    BY <1>1, <1>2, AppendIsConcat
  <1>4. h \o Tail(notifyTasks) = notifyTasks
    BY <1>1, <1>2
  <1>5. (delivered \o h) \o Tail(notifyTasks) = delivered \o (h \o Tail(notifyTasks))
    BY <1>1, <1>2, ConcatAssociative
  <1> QED
    BY <1>3, <1>4, <1>5 DEF RunNotifyTask, Accepted

\* An accepted frame is the last of them.
LEMMA AcceptedGrows ==
  ASSUME TypeOK, NEW x \in Heard,
         delivered' = delivered, notifyTasks' = Append(notifyTasks, x)
  PROVE  Accepted' = Append(Accepted, x)
  <1>1. delivered \in Seq(Heard) /\ notifyTasks \in Seq(Heard) /\ <<x>> \in Seq(Heard)
    BY DEF TypeOK
  <1>2. delivered \o notifyTasks \in Seq(Heard)
    BY <1>1, ConcatProperties, Zenon
  <1>3. notifyTasks' = notifyTasks \o <<x>>
    BY <1>1, AppendIsConcat, Zenon
  <1>4. Append(Accepted, x) = Accepted \o <<x>>
    BY <1>2, AppendIsConcat, Zenon DEF Accepted
  <1> DEFINE l == <<x>>
  <1>5. l \in Seq(Heard) /\ l = <<x>>
    BY <1>1
  <1> HIDE DEF l
  <1>6. (delivered \o notifyTasks) \o l = delivered \o (notifyTasks \o l)
    BY <1>1, <1>5, ConcatAssociative, SMTT(30)
  <1> QED
    BY <1>3, <1>4, <1>5, <1>6 DEF Accepted

\* The frames on the air.
LEMMA AirType ==
  ASSUME TypeOK
  PROVE  /\ Len(air) \in Nat /\ emitted \in Nat /\ dtx \in Nat /\ decPos \in Nat
         /\ air # <<>> => 1 \in 1 .. Len(air) /\ Head(air) = air[1]
         /\ air = <<>> <=> Len(air) = 0
         /\ \A i \in 1 .. Len(air) : air[i] \in InFrame /\ air[i].id \in Nat
                                     /\ air[i].pos \in Nat /\ air[i].n \in Nat
         /\ start.dec \in Counter /\ dec_ctr \in Counter
  <1>1. air \in Seq(InFrame) /\ emitted \in Nat /\ dtx \in Nat /\ decPos \in Nat
    BY DEF TypeOK
  <1>2. \A f \in InFrame : f.id \in Nat /\ f.pos \in Nat /\ f.n \in Nat
    BY BoundsAssumption DEF InFrame
  <1>3. start.dec \in Counter /\ dec_ctr \in Counter
    BY DEF TypeOK
  <1> QED
    BY <1>1, <1>2, <1>3

LEMMA NextPosType ==
  ASSUME TypeOK, AirInv
  PROVE  NextPos \in Nat /\ NextPos <= dtx /\ Gone \in Nat
  <1>1. Len(air) <= emitted /\ Len(air) \in Nat /\ emitted \in Nat /\ dtx \in Nat
    BY AirType DEF AirInv
  <1>2. air # <<>> => 1 \in 1 .. Len(air)
    BY AirType
  <1>3. air # <<>> => air[1].pos \in Nat /\ air[1].n \in Nat
    BY <1>2, AirType
  <1>4. air # <<>> => air[1].pos + air[1].n <= dtx
    BY <1>2 DEF AirInv, OnAir
  <1> QED
    BY <1>1, <1>3, <1>4 DEF NextPos, Gone

\* The first frame leaves the air: heard, lost or rejected.
LEMMA AirPops ==
  ASSUME TypeOK, AirInv, air # <<>>, air' = Tail(air),
         emitted' = emitted, dtx' = dtx, start' = start
  PROVE  /\ AirInv'
         /\ Gone' = Gone + 1
         /\ NextPos = air[1].pos
         /\ NextPos' \in Nat /\ air[1].pos + air[1].n <= NextPos'
         /\ air[1].id = Gone + 1
         /\ air[1].ctr = perform_crypto(start.dec, air[1].pos)
         /\ air[1].pos + air[1].n <= dtx
  <1>0. /\ Len(air) \in Nat /\ emitted \in Nat /\ dtx \in Nat
        /\ 1 \in 1 .. Len(air)
        /\ \A i \in 1 .. Len(air) : air[i].id \in Nat /\ air[i].pos \in Nat /\ air[i].n \in Nat
    BY AirType
  <1>1. air \in Seq(InFrame)
    BY DEF TypeOK
  <1>2. /\ Len(air') = Len(air) - 1
        /\ \A i \in 1 .. Len(air') : air'[i] = air[i + 1] /\ i + 1 \in 1 .. Len(air)
    BY <1>0, <1>1
  <1>3. NextPos = air[1].pos /\ Gone \in Nat /\ Gone = emitted - Len(air)
    BY NextPosType DEF NextPos, Gone
  <1>4. Gone' = Gone + 1
    <2>1. Gone' = emitted - (Len(air) - 1)
      BY <1>2 DEF Gone
    <2> QED
      BY <1>0, <1>3, <2>1
  <1>5. OnAir(1)
    BY <1>0 DEF AirInv
  <1>6. NextPos' \in Nat /\ air[1].pos + air[1].n <= NextPos'
    <2>1. CASE Len(air) = 1
      <3>1. air' = <<>>
        BY <1>0, <1>1, <2>1
      <3> QED
        BY <1>0, <1>5, <3>1 DEF NextPos, OnAir
    <2>2. CASE Len(air) # 1
      <3>1. 1 \in 1 .. Len(air') /\ 2 \in 1 .. Len(air) /\ 1 + 1 = 2
        BY <1>0, <1>2, <2>2
      <3>2. air' # <<>> /\ air'[1] = air[2]
        <4>1. air'[1] = air[1 + 1]
          BY <1>2, <3>1
        <4>2. Len(air') # 0
          BY <1>0, <1>2, <2>2
        <4>3. air' # <<>>
          BY <4>2
        <4> QED
          BY <3>1, <4>1, <4>3
      <3>3. air[1].pos + air[1].n <= air[2].pos
        BY <1>0, <3>1 DEF AirInv
      <3> QED
        BY <1>0, <3>1, <3>2, <3>3 DEF NextPos
    <2> QED
      BY <2>1, <2>2
  <1>7. ASSUME NEW i \in 1 .. Len(air') PROVE OnAir(i)'
    <2>1. i + 1 \in 1 .. Len(air) /\ air'[i] = air[i + 1] /\ i \in Nat
      BY <1>2
    <2>2. OnAir(i + 1)
      BY <2>1 DEF AirInv
    <2>3. Gone + (i + 1) = Gone' + i
      BY <1>3, <1>4, <2>1
    <2> QED
      BY <2>1, <2>2, <2>3 DEF OnAir
  <1>8. ASSUME NEW i \in 1 .. Len(air'), NEW j \in 1 .. Len(air'), i < j
        PROVE  air'[i].pos + air'[i].n <= air'[j].pos
    <2>1. /\ air'[i] = air[i + 1] /\ i + 1 \in 1 .. Len(air)
          /\ air'[j] = air[j + 1] /\ j + 1 \in 1 .. Len(air)
          /\ i + 1 < j + 1
      BY <1>2, <1>8
    <2>2. air[i + 1].pos + air[i + 1].n <= air[j + 1].pos
      BY <2>1 DEF AirInv
    <2> QED
      BY <2>1, <2>2
  <1>9. dtx' + MaxSkip < CtrMod /\ Len(air') <= emitted'
    <2>1. dtx + MaxSkip < CtrMod /\ Len(air) <= emitted
      BY DEF AirInv
    <2> QED
      BY <1>0, <1>2, <2>1
  <1>10. AirInv'
    BY <1>7, <1>8, <1>9 DEF AirInv
  <1> QED
    BY <1>3, <1>4, <1>5, <1>6, <1>10 DEF OnAir

Early == {"new", "connecting", "handshake"}

LEMMA InitRInv == Init => RInv
  <1> SUFFICES ASSUME Init PROVE RInv
    OBVIOUS
  <1>1. TypeOK
    BY InitIInv DEF IInv
  <1>2. /\ air = <<>> /\ dtx = 0 /\ emitted = 0 /\ decPos = 0 /\ rejects = {}
        /\ delivered = <<>> /\ notifyTasks = <<>> /\ dec_ctr = start.dec
    BY DEF Init
  <1>3. Len(air) = 0 /\ Len(delivered) = 0 /\ Len(notifyTasks) = 0
    BY <1>2
  <1>4. Len(Accepted) = 0 /\ Gone = 0 /\ NextPos = 0
    <2>1. Len(Accepted) = Len(delivered) + Len(notifyTasks)
      BY <1>1, AcceptedSeq
    <2>2. Len(Accepted) = 0
      BY <1>3, <2>1
    <2>3. Gone = 0
      <3>1. emitted = 0
        BY <1>2
      <3>2. emitted - Len(air) = 0
        BY <1>3, <3>1
      <3> QED
        BY <3>2 DEF Gone
    <2>4. NextPos = 0
      BY <1>2 DEF NextPos
    <2> QED
      BY <2>2, <2>3, <2>4
  <1>5. dec_ctr = perform_crypto(start.dec, 0)
    BY <1>2 DEF perform_crypto
  <1>6. AirInv
    BY <1>2, <1>3, MaxSkipAssumption, CtrModAssumption DEF AirInv
  <1>7. LastEnd = 0
    BY <1>4 DEF LastEnd, EndOf
  <1>8. AcceptedInv /\ AgreeInv /\ EarlyInv
    BY <1>2, <1>4, <1>5, <1>7 DEF AcceptedInv, AgreeInv, EarlyInv
  <1>9. SyncInv
    BY <1>2, <1>4, <1>5 DEF SyncInv
  <1> QED
    BY <1>6, <1>8, <1>9 DEF RInv

\* Most steps leave alone all that the agreement of both ends is about.
LEMMA AgreeUntouched ==
  ASSUME AgreeInv, Accepted' = Accepted, UNCHANGED <<start, dec_ctr>>
  PROVE  AgreeInv' /\ LastEnd' = LastEnd
  BY DEF AgreeInv, Steady, LastEnd, EndOf, GotAhead, Agreed

\* A step that leaves the receiving half and its counter alone.
LEMMA ReceiverUntouched ==
  ASSUME RInv, UNCHANGED <<start, dec_ctr, recvVars>>, conn' \in Early => conn \in Early
  PROVE  RInv'
  <1>1. UNCHANGED <<start, dec_ctr, dtx, emitted, air, notifyTasks, delivered, decPos, rejects>>
    BY DEF recvVars
  <1>2. Accepted' = Accepted /\ NextPos' = NextPos /\ Gone' = Gone
    BY <1>1 DEF Accepted, NextPos, Gone
  <1>3. AirInv'
    BY <1>1, <1>2 DEF RInv, AirInv, OnAir
  <1>4. AgreeInv' /\ LastEnd' = LastEnd
    BY <1>1, <1>2, AgreeUntouched DEF RInv
  <1>5. AcceptedInv' /\ EarlyInv'
    BY <1>1, <1>2, <1>4 DEF RInv, AcceptedInv, EarlyInv, Early
  <1>6. SyncInv'
    BY <1>1, <1>2 DEF RInv, SyncInv, Sound
  <1> QED
    BY <1>3, <1>4, <1>5, <1>6 DEF RInv

\* The handshake sets the counters before the first notification.
LEMMA HandshakeReceives == ASSUME IInv, RInv, HandshakeRead PROVE RInv'
  <1>1. UNCHANGED <<start, dtx, emitted, air, notifyTasks, delivered, decPos, rejects>>
    BY DEF HandshakeRead, recvVars
  <1>2. Accepted' = Accepted /\ NextPos' = NextPos /\ Gone' = Gone
    BY <1>1 DEF Accepted, NextPos, Gone
  <1>3. air = <<>> /\ dtx = 0 /\ decPos = 0 /\ Len(Accepted) = 0 /\ rejects = {}
    BY DEF RInv, EarlyInv, HandshakeRead
  <1>4. NextPos = 0
    BY <1>3 DEF NextPos
  <1>5. dec_ctr' = perform_crypto(start.dec, 0)
    BY DEF HandshakeRead, perform_crypto
  <1>6. AirInv'
    BY <1>1, <1>2 DEF RInv, AirInv, OnAir
  <1>7. AcceptedInv' /\ AgreeInv'
    <2>1. LastEnd' = 0
      BY <1>2, <1>3 DEF LastEnd, EndOf
    <2> QED
      BY <1>1, <1>2, <1>3, <1>4, <1>5, <2>1 DEF AcceptedInv, AgreeInv
  <1>8. EarlyInv'
    BY DEF HandshakeRead, EarlyInv
  <1>9. SyncInv'
    BY <1>1, <1>2, <1>3, <1>4, <1>5 DEF SyncInv
  <1> QED
    BY <1>6, <1>7, <1>8, <1>9 DEF RInv

LEMMA OwnerReceives == ASSUME IInv, RInv, Owner PROVE RInv'
  <1>1. CASE HandshakeRead
    BY <1>1, HandshakeReceives
  <1>2. CASE ~HandshakeRead
    <2>1. UNCHANGED <<start, dec_ctr, recvVars>>
      BY <1>2, Zenon
      DEF keyVars, Owner, Lookup, Establish, HandshakeRetry, SetupError, StartNotify,
          BeginDisconnect, StopNotify, FinishDisconnect
    <2>2. conn' \in Early => conn \in Early
      BY <1>2
      DEF Early, Owner, Lookup, Establish, HandshakeRetry, SetupError, StartNotify,
          BeginDisconnect, StopNotify, FinishDisconnect
    <2> QED
      BY <2>1, <2>2, ReceiverUntouched
  <1> QED
    BY <1>1, <1>2

LEMMA SendReceives == ASSUME RInv, NEW t \in Tasks, Send(t) PROVE RInv'
  <1>1. UNCHANGED <<start, dec_ctr, recvVars>> /\ conn' = conn
    BY DEF Send, SendNotConnected, SendQueued, LockGrantedTooLate, WriteAcked, WriteFailed,
           SendNow, LockGranted, keyVars, ownerVars
  <1> QED
    BY <1>1, ReceiverUntouched

\* The next position only ever moves on, which leaves the window where it is.
LEMMA SyncMoves ==
  ASSUME TypeOK, SyncInv, Accepted' = Accepted, UNCHANGED <<start, dec_ctr, decPos, rejects>>,
         NextPos \in Nat, NextPos' \in Nat, NextPos <= NextPos'
  PROVE  SyncInv'
  <1>1. decPos \in Nat
    BY DEF TypeOK
  <1>2. decPos <= NextPos => decPos <= NextPos'
    BY <1>1
  <1>3. decPos + MaxSkip < NextPos => decPos + MaxSkip < NextPos'
    BY <1>1, MaxSkipAssumption
  <1> QED
    BY <1>2, <1>3 DEF SyncInv, Sound

\* A frame the timer emits is the last one on the air, and begins past the ones before.
LEMMA TimerReceives == ASSUME IInv, RInv, TimerNotifies PROVE RInv'
  <1> PICK a \in 0 .. MaxAhead, n \in 0 .. MaxBlocks, c \in CollisionSets : TimerNotify(a, n, c)
    BY DEF TimerNotifies
  <1> DEFINE f == [id |-> emitted', pos |-> dtx + a, n |-> n, collide |-> c,
                   ctr |-> perform_crypto(start.dec, dtx + a)]
  <1>0. TypeOK /\ AirInv
    BY DEF IInv, RInv
  <1>1. /\ Len(air) \in Nat /\ emitted \in Nat /\ dtx \in Nat /\ n \in Nat /\ a \in Nat
        /\ \A i \in 1 .. Len(air) : air[i].pos \in Nat /\ air[i].n \in Nat
    BY <1>0, AirType, BoundsAssumption
  <1>2. /\ emitted' = emitted + 1 /\ dtx' = dtx + a + n /\ dtx' + MaxSkip < CtrMod
        /\ air' = Append(air, f)
        /\ UNCHANGED <<start, dec_ctr, notifyTasks, delivered, decPos, rejects, conn>>
        /\ conn \notin Early
    BY DEF TimerNotify, keyVars, ownerVars, Early
  <1>3. f.id = emitted + 1 /\ f.pos = dtx + a /\ f.n = n /\ f.ctr = perform_crypto(start.dec, f.pos)
    BY <1>2
  <1> HIDE DEF f
  <1>4. /\ Len(air') = Len(air) + 1
        /\ \A i \in 1 .. Len(air) : air'[i] = air[i]
        /\ air'[Len(air) + 1] = f
    <2>1. air \in Seq(InFrame)
      BY <1>0 DEF TypeOK
    <2> QED
      BY <1>2, <2>1
  <1>5. Gone' = Gone /\ Gone \in Nat
    <2>1. Gone' = (emitted + 1) - (Len(air) + 1) /\ Gone = emitted - Len(air)
      BY <1>2, <1>4 DEF Gone
    <2> QED
      BY <1>0, <1>1, <2>1, NextPosType
  <1>6. NextPos \in Nat /\ NextPos' \in Nat /\ NextPos <= NextPos'
    <2>1. air' # <<>>
      BY <1>1, <1>4
    <2>2. CASE air = <<>>
      <3>1. air'[1] = f
        BY <1>4, <2>2
      <3> QED
        BY <1>1, <1>3, <2>1, <2>2, <3>1 DEF NextPos
    <2>3. CASE air # <<>>
      <3>1. air'[1] = air[1] /\ air[1].pos \in Nat
        BY <1>0, <1>4, <2>3, AirType
      <3> QED
        BY <2>1, <2>3, <3>1 DEF NextPos
    <2> QED
      BY <2>2, <2>3
  <1>7. ASSUME NEW i \in 1 .. Len(air) PROVE air[i].pos + air[i].n <= dtx /\ OnAir(i)
    BY <1>0, <1>7 DEF AirInv, OnAir
  <1>8. ASSUME NEW i \in 1 .. Len(air') PROVE OnAir(i)'
    <2>1. CASE i = Len(air) + 1
      <3>1. air'[i] = f
        BY <1>4, <2>1
      <3>2. f.id = Gone' + i
        BY <1>1, <1>3, <1>5, <2>1 DEF Gone
      <3> QED
        BY <1>1, <1>2, <1>3, <3>1, <3>2 DEF OnAir
    <2>2. CASE i # Len(air) + 1
      <3>1. i \in 1 .. Len(air) /\ air'[i] = air[i]
        BY <1>1, <1>4, <2>2
      <3>2. OnAir(i) /\ air[i].pos + air[i].n <= dtx'
        BY <1>1, <1>2, <1>7, <3>1
      <3> QED
        BY <1>2, <1>5, <3>1, <3>2 DEF OnAir
    <2> QED
      BY <2>1, <2>2
  <1>9. ASSUME NEW i \in 1 .. Len(air'), NEW j \in 1 .. Len(air'), i < j
        PROVE  air'[i].pos + air'[i].n <= air'[j].pos
    <2>1. i \in 1 .. Len(air) /\ air'[i] = air[i]
      BY <1>1, <1>4, <1>9
    <2>2. CASE j = Len(air) + 1
      <3>1. air[i].pos + air[i].n <= dtx
        BY <1>7, <2>1
      <3>2. air'[j].pos = dtx + a
        BY <1>3, <1>4, <2>2
      <3>3. air[i].pos \in Nat /\ air[i].n \in Nat
        BY <1>0, <2>1, AirType
      <3>4. \A p, q \in Nat : p + q <= dtx => p + q <= dtx + a
        BY <1>1
      <3>5. air[i].pos + air[i].n <= dtx + a
        BY <3>1, <3>3, <3>4
      <3> QED
        BY <2>1, <3>2, <3>5
    <2>3. CASE j # Len(air) + 1
      <3>1. j \in 1 .. Len(air) /\ air'[j] = air[j]
        BY <1>1, <1>4, <2>3
      <3> QED
        BY <1>0, <1>9, <2>1, <3>1 DEF AirInv
    <2> QED
      BY <2>2, <2>3
  <1>10. AirInv'
    <2>1. Len(air') <= emitted'
      BY <1>0, <1>1, <1>2, <1>4 DEF AirInv
    <2> QED
      BY <1>2, <1>8, <1>9, <2>1 DEF AirInv
  <1>11. Accepted' = Accepted
    BY <1>2 DEF Accepted
  <1>12. AgreeInv' /\ AcceptedInv'
    <2>1. AgreeInv' /\ LastEnd' = LastEnd
      BY <1>2, <1>11, AgreeUntouched DEF RInv
    <2> QED
      BY <1>5, <1>6, <1>11, <2>1 DEF RInv, AcceptedInv
  <1>13. SyncInv'
    BY <1>0, <1>2, <1>6, <1>11, SyncMoves DEF RInv
  <1>14. EarlyInv'
    BY <1>2 DEF EarlyInv, Early
  <1> QED
    BY <1>10, <1>12, <1>13, <1>14 DEF RInv

\* A frame that is not accepted only moves the next position on.
LEMMA Missed ==
  ASSUME IInv, RInv, air # <<>>, air' = Tail(air),
         UNCHANGED <<start, dec_ctr, emitted, dtx, notifyTasks, delivered, decPos, conn>>
  PROVE  /\ AirInv' /\ AcceptedInv' /\ AgreeInv'
         /\ conn \notin Early
         /\ Accepted' = Accepted
         /\ NextPos \in Nat /\ NextPos' \in Nat /\ NextPos <= NextPos'
  <1>0. TypeOK /\ AirInv
    BY DEF IInv, RInv
  <1>1. /\ AirInv' /\ Gone' = Gone + 1
        /\ NextPos = air[1].pos /\ NextPos' \in Nat /\ air[1].pos + air[1].n <= NextPos'
    BY <1>0, AirPops
  <1>2. Gone \in Nat /\ NextPos \in Nat /\ air[1].n \in Nat
    BY <1>0, NextPosType, AirType
  <1>3. NextPos <= NextPos'
    BY <1>1, <1>2
  <1>4. Accepted' = Accepted /\ \A i \in 1 .. Len(Accepted) : Accepted[i].id \in Nat
    BY <1>0, AcceptedElems DEF Accepted
  <1>5. AgreeInv' /\ LastEnd' = LastEnd
    BY <1>4, AgreeUntouched DEF RInv
  <1>6. AcceptedInv'
    BY <1>1, <1>2, <1>3, <1>4, <1>5 DEF RInv, AcceptedInv
  <1>7. conn \notin Early
    BY DEF RInv, EarlyInv, Early
  <1> QED
    BY <1>1, <1>2, <1>3, <1>4, <1>5, <1>6, <1>7

LEMMA LoseReceives == ASSUME IInv, RInv, LoseNotify PROVE RInv'
  <1>0. TypeOK /\ AirInv
    BY DEF IInv, RInv
  <1>1. /\ UNCHANGED <<start, dec_ctr, emitted, dtx, notifyTasks, delivered, decPos, rejects, conn>>
        /\ air # <<>> /\ air' = Tail(air)
    BY DEF LoseNotify, keyVars, ownerVars
  <1>2. /\ AirInv' /\ AcceptedInv' /\ AgreeInv' /\ conn \notin Early
        /\ Accepted' = Accepted /\ NextPos \in Nat /\ NextPos' \in Nat /\ NextPos <= NextPos'
    BY <1>1, Missed
  <1>3. SyncInv'
    BY <1>0, <1>1, <1>2, SyncMoves DEF RInv
  <1>4. EarlyInv'
    BY <1>1, <1>2 DEF EarlyInv, Early
  <1> QED
    BY <1>2, <1>3, <1>4 DEF RInv

\* A callback task that runs hands over what was accepted.
LEMMA RunReceives == ASSUME IInv, RInv, RunNotifyTask PROVE RInv'
  <1>1. Accepted' = Accepted
    BY AcceptedMoves DEF IInv
  <1>2. UNCHANGED <<start, dec_ctr, emitted, dtx, air, decPos, rejects, conn>>
    BY DEF RunNotifyTask, keyVars, ownerVars
  <1>3. NextPos' = NextPos /\ Gone' = Gone
    BY <1>2 DEF NextPos, Gone
  <1>4. AirInv'
    BY <1>2, <1>3 DEF RInv, AirInv, OnAir
  <1>5. AgreeInv' /\ AcceptedInv' /\ EarlyInv'
    <2>1. AgreeInv' /\ LastEnd' = LastEnd
      BY <1>1, <1>2, AgreeUntouched DEF RInv
    <2> QED
      BY <1>1, <1>2, <1>3, <2>1 DEF RInv, AcceptedInv, EarlyInv
  <1>6. SyncInv'
    BY <1>1, <1>2, <1>3 DEF RInv, SyncInv, Sound
  <1> QED
    BY <1>4, <1>5, <1>6 DEF RInv

\* A candidate counter that decrypts the frame truly is the frame's own position, and
\* the frame is then the first after all that was accepted.
LEMMA TrueSkip ==
  ASSUME NEW s \in Counter, NEW d \in Nat, NEW p \in Nat, NEW k \in 0 .. MaxSkip,
         p + MaxSkip < CtrMod, d <= p,
         perform_crypto(perform_crypto(s, d), k) = perform_crypto(s, p)
  PROVE  d + k = p
  <1>1. k \in Nat /\ d + k \in 0 .. CtrMod - 1 /\ p \in 0 .. CtrMod - 1 /\ d + k < CtrMod
    BY MaxSkipAssumption, CtrModAssumption
  <1>2. perform_crypto(perform_crypto(s, d), k) = perform_crypto(s, d + k)
    BY <1>1, BlockAdd
  <1> QED
    BY <1>1, <1>2, BlockInjective

\* The candidate at the frame's position does check out.
LEMMA ExactSkip ==
  ASSUME NEW s \in Counter, NEW d \in Nat, NEW p \in Nat, d <= p, p - d <= MaxSkip,
         p < CtrMod, NEW f, f.ctr = perform_crypto(s, p)
  PROVE  p - d \in ResyncSkips(f, perform_crypto(s, d))
  <1>1. p - d \in Nat /\ p - d \in 0 .. MaxSkip /\ d + (p - d) = p
    BY MaxSkipAssumption
  <1>2. perform_crypto(perform_crypto(s, d), p - d) = perform_crypto(s, p)
    BY <1>1, BlockAdd
  <1> QED
    BY <1>1, <1>2 DEF ResyncSkips, ChecksOut

\* A frame that checks out at some candidate counter.
LEMMA AcceptReceives == ASSUME IInv, RInv, OnNotifyAccepted PROVE RInv'
  <1> DEFINE f == air[1]
  <1>0. TypeOK /\ AirInv
    BY DEF IInv, RInv
  <1>1. /\ UNCHANGED <<start, emitted, dtx, delivered, rejects, conn>>
        /\ air # <<>> /\ air' = Tail(air) /\ Head(air) = f
    BY <1>0, AirType DEF OnNotifyAccepted, ownerVars
  <1>2. PICK k \in 0 .. MaxSkip :
          /\ IsFirstSkip(f, dec_ctr, k)
          /\ dec_ctr' = NextDec(f, dec_ctr, k)
          /\ decPos' = decPos + k + f.n
          /\ notifyTasks' = Append(notifyTasks,
               [id |-> f.id, pos |-> f.pos, n |-> f.n, intact |-> Intact(f, dec_ctr, k)])
    BY <1>1 DEF OnNotifyAccepted
  <1> DEFINE x == [id |-> f.id, pos |-> f.pos, n |-> f.n, intact |-> Intact(f, dec_ctr, k)]
  <1>3. /\ AirInv' /\ Gone' = Gone + 1
        /\ NextPos = f.pos /\ NextPos' \in Nat /\ f.pos + f.n <= NextPos'
        /\ f.id = Gone + 1
        /\ f.ctr = perform_crypto(start.dec, f.pos)
        /\ f.pos + f.n <= dtx
    BY <1>0, <1>1, AirPops
  <1>4. /\ f \in InFrame /\ f.id \in Nat /\ f.pos \in Nat /\ f.n \in Nat
        /\ Gone \in Nat /\ dtx \in Nat /\ decPos \in Nat /\ k \in Nat
        /\ start.dec \in Counter /\ dec_ctr \in Counter
    BY <1>0, <1>1, AirType, NextPosType, MaxSkipAssumption
  <1>5. /\ x \in Heard /\ x.id = f.id /\ x.pos = f.pos /\ x.n = f.n
        /\ x.intact = Intact(f, dec_ctr, k)
    <2>1. Intact(f, dec_ctr, k) \in BOOLEAN
      BY DEF Intact
    <2>2. f.n \in 0 .. MaxBlocks
      BY <1>4 DEF InFrame
    <2> QED
      BY <1>4, <2>1, <2>2 DEF Heard
  <1>6. Accepted' = Append(Accepted, x)
    BY <1>0, <1>1, <1>2, <1>5, AcceptedGrows
  <1>7. dtx + MaxSkip < CtrMod
    BY <1>0 DEF AirInv
  <1>8. EarlyInv'
    <2>1. conn \notin Early
      BY <1>1 DEF RInv, EarlyInv, Early
    <2> QED
      BY <1>1, <2>1 DEF EarlyInv, Early
  <1>9. k \in ResyncSkips(f, dec_ctr) /\ \A j \in ResyncSkips(f, dec_ctr) : k <= j
    BY <1>2 DEF IsFirstSkip
  <1> HIDE DEF f, x
  <1>10. /\ Len(Accepted) \in Nat
         /\ Len(Accepted') = Len(Accepted) + 1
         /\ \A i \in 1 .. Len(Accepted) : /\ Accepted'[i] = Accepted[i]
                                          /\ Accepted[i].id \in Nat
         /\ Accepted'[Len(Accepted) + 1] = x
    <2>1. Accepted \in Seq(Heard)
      BY <1>0, AcceptedSeq
    <2> QED
      BY <1>0, <1>5, <1>6, <2>1, AcceptedElems
  <1>11. /\ LastEnd' = f.pos + f.n
         /\ \A m \in 0 .. Len(Accepted) : EndOf(Accepted', m) = EndOf(Accepted, m)
         /\ \A m \in 0 .. Len(Accepted) : Agreed(Accepted', m) <=> Agreed(Accepted, m)
         /\ \A m \in 0 .. Len(Accepted) - 1 : GotAhead(Accepted', m) <=> GotAhead(Accepted, m)
         /\ GotAhead(Accepted', Len(Accepted)) <=> LastEnd < f.pos
    <2>1. LastEnd' = f.pos + f.n
      <3>1. LastEnd' = EndOf(Accepted', Len(Accepted) + 1) /\ Len(Accepted) + 1 # 0
        BY <1>10 DEF LastEnd
      <3> QED
        BY <1>5, <1>10, <3>1 DEF EndOf
    <2>2. \A m \in 0 .. Len(Accepted) : EndOf(Accepted', m) = EndOf(Accepted, m)
      BY <1>10 DEF EndOf
    <2>3. \A m \in 0 .. Len(Accepted) : Agreed(Accepted', m) <=> Agreed(Accepted, m)
      BY <1>10 DEF Agreed
    <2>4. ASSUME NEW m \in 0 .. Len(Accepted) - 1
          PROVE  GotAhead(Accepted', m) <=> GotAhead(Accepted, m)
      <3>1. m \in 0 .. Len(Accepted) /\ m + 1 \in 1 .. Len(Accepted)
        BY <1>10
      <3>2. Accepted'[m + 1] = Accepted[m + 1]
        BY <1>10, <3>1
      <3> QED
        BY <2>2, <3>1, <3>2 DEF GotAhead
    <2>5. GotAhead(Accepted', Len(Accepted)) <=> LastEnd < f.pos
      <3>1. EndOf(Accepted', Len(Accepted)) = LastEnd
        BY <1>10, <2>2 DEF LastEnd
      <3> QED
        BY <1>5, <1>10, <3>1 DEF GotAhead
    <2> QED
      BY <2>1, <2>2, <2>3, <2>4, <2>5
  <1>12. AcceptedInv'
    <2>0. /\ \A i \in 1 .. Len(Accepted) : 1 <= Accepted[i].id /\ Accepted[i].id <= Gone
          /\ \A i, j \in 1 .. Len(Accepted) : i < j => Accepted[i].id < Accepted[j].id
      BY DEF RInv, AcceptedInv
    <2>1. LastEnd' \in Nat /\ LastEnd' <= NextPos'
      BY <1>3, <1>4, <1>11
    <2>2. ASSUME NEW i \in 1 .. Len(Accepted')
          PROVE  1 <= Accepted'[i].id /\ Accepted'[i].id <= Gone'
      <3>1. CASE i \in 1 .. Len(Accepted)
        BY <1>3, <1>4, <1>10, <2>0, <3>1
      <3>2. CASE i = Len(Accepted) + 1
        BY <1>3, <1>4, <1>5, <1>10, <3>2
      <3> QED
        BY <1>10, <3>1, <3>2
    <2>3. ASSUME NEW i \in 1 .. Len(Accepted'), NEW j \in 1 .. Len(Accepted'), i < j
          PROVE  Accepted'[i].id < Accepted'[j].id
      <3>1. i \in 1 .. Len(Accepted) /\ Accepted'[i] = Accepted[i] /\ Accepted[i].id \in Nat
        BY <1>10, <2>3
      <3>2. CASE j \in 1 .. Len(Accepted)
        BY <1>10, <2>0, <2>3, <3>1, <3>2
      <3>3. CASE j = Len(Accepted) + 1
        <4>1. Accepted'[j] = x /\ x.id = Gone + 1 /\ Accepted[i].id <= Gone
          BY <1>3, <1>5, <1>10, <2>0, <3>1, <3>3
        <4> QED
          BY <1>4, <3>1, <4>1
      <3> QED
        BY <1>10, <3>2, <3>3
    <2> QED
      BY <2>1, <2>2, <2>3 DEF AcceptedInv
  \* With no gap since a frame at which both ends agreed, this one is where dec_ctr stands.
  <1>13. ASSUME NEW j \in 0 .. Len(Accepted), Agreed(Accepted', j),
                \A m \in j .. Len(Accepted) : ~GotAhead(Accepted', m)
         PROVE  x.intact /\ dec_ctr' = perform_crypto(start.dec, f.pos + f.n)
    <2>1. Agreed(Accepted, j) /\ Steady(j)
      <3>1. \A m \in j .. Len(Accepted) - 1 :
              m \in j .. Len(Accepted) /\ m \in 0 .. Len(Accepted) - 1
        BY <1>10
      <3> QED
        BY <1>11, <1>13, <3>1 DEF Steady
    <2>2. LastEnd = f.pos
      <3>1. ~GotAhead(Accepted', Len(Accepted))
        BY <1>10, <1>13
      <3>2. LastEnd \in Nat /\ LastEnd <= f.pos
        BY <1>3 DEF RInv, AcceptedInv
      <3> QED
        BY <1>4, <1>11, <3>1, <3>2
    <2>3. dec_ctr = f.ctr
      BY <1>3, <2>1, <2>2 DEF RInv, AgreeInv
    <2>4. perform_crypto(dec_ctr, 0) = dec_ctr
      BY DEF perform_crypto
    <2>5. 0 \in ResyncSkips(f, dec_ctr)
      BY <2>3, <2>4, MaxSkipAssumption DEF ResyncSkips, ChecksOut
    <2>6. k = 0
      BY <1>4, <1>9, <2>5
    <2>7. x.intact
      BY <1>5, <2>3, <2>4, <2>6 DEF Intact
    <2>8. dec_ctr' = perform_crypto(perform_crypto(start.dec, f.pos), f.n)
      BY <1>2, <1>3, <2>3, <2>4, <2>6 DEF NextDec
    <2>9. f.pos + f.n < CtrMod
      BY <1>3, <1>4, <1>7, MaxSkipAssumption, CtrModAssumption
    <2> QED
      BY <1>4, <2>7, <2>8, <2>9, BlockAdd
  <1>14. AgreeInv'
    <2>1. ASSUME NEW j \in 0 .. Len(Accepted'), Agreed(Accepted', j), Steady(j)'
          PROVE  dec_ctr' = perform_crypto(start.dec, f.pos + f.n)
      <3>1. CASE j \in 0 .. Len(Accepted)
        <4>1. \A m \in j .. Len(Accepted) : ~GotAhead(Accepted', m)
          BY <1>10, <2>1 DEF Steady
        <4> QED
          BY <1>13, <2>1, <3>1, <4>1
      <3>2. CASE j = Len(Accepted) + 1
        <4>1. x.n > 0 /\ x.intact
          BY <1>10, <2>1, <3>2 DEF Agreed
        <4>2. perform_crypto(dec_ctr, k) = f.ctr
          <5>1. f.n # 0
            BY <1>4, <1>5, <4>1
          <5> QED
            BY <1>5, <4>1, <5>1 DEF Intact
        <4>3. dec_ctr' = perform_crypto(perform_crypto(start.dec, f.pos), f.n)
          BY <1>2, <1>3, <4>2 DEF NextDec
        <4>4. f.pos + f.n < CtrMod
          BY <1>3, <1>4, <1>7, MaxSkipAssumption, CtrModAssumption
        <4> QED
          BY <1>4, <4>3, <4>4, BlockAdd
      <3> QED
        BY <1>10, <3>1, <3>2
    <2>2. ASSUME NEW i \in 1 .. Len(Accepted'), ~Accepted'[i].intact,
                 NEW j \in 0 .. i - 1, Agreed(Accepted', j)
          PROVE  \E m \in j .. i - 1 : GotAhead(Accepted', m)
      <3>1. CASE i \in 1 .. Len(Accepted)
        <4>1. j \in 0 .. Len(Accepted) /\ ~Accepted[i].intact
          BY <1>10, <2>2, <3>1
        <4>2. PICK m \in j .. i - 1 : GotAhead(Accepted, m)
          BY <1>11, <2>2, <3>1, <4>1 DEF RInv, AgreeInv
        <4>3. m \in 0 .. Len(Accepted) - 1
          BY <1>10, <3>1
        <4> QED
          BY <1>11, <4>2, <4>3
      <3>2. CASE i = Len(Accepted) + 1
        <4>1. ~x.intact /\ j \in 0 .. Len(Accepted) /\ i - 1 = Len(Accepted)
          BY <1>10, <2>2, <3>2
        <4> QED
          BY <1>13, <2>2, <4>1
      <3> QED
        BY <1>10, <3>1, <3>2
    <2> QED
      BY <1>1, <1>11, <2>1, <2>2 DEF AgreeInv
  <1>15. SyncInv'
    <2> SUFFICES ASSUME Sound'
                 PROVE  /\ decPos' <= NextPos'
                        /\ dec_ctr' = perform_crypto(start.dec, decPos')
                        /\ rejects # {} => decPos' + MaxSkip < NextPos'
                        /\ \A r \in rejects :
                             /\ r.gap > MaxSkip
                             /\ \A i \in 1 .. Len(Accepted') :
                                  Accepted'[i].n > 0 => Accepted'[i].id < r.id
      BY <1>1 DEF SyncInv
    <2>1. Sound /\ x.intact
      BY <1>10 DEF Sound
    <2>2. /\ decPos <= f.pos
          /\ dec_ctr = perform_crypto(start.dec, decPos)
          /\ rejects # {} => decPos + MaxSkip < f.pos
          /\ \A r \in rejects :
               /\ r.gap > MaxSkip
               /\ \A i \in 1 .. Len(Accepted) : Accepted[i].n > 0 => Accepted[i].id < r.id
      BY <1>3, <2>1 DEF RInv, SyncInv
    <2>3. CASE f.n = 0
      <3>1. 0 \in ResyncSkips(f, dec_ctr)
        BY <2>3, MaxSkipAssumption DEF ResyncSkips, ChecksOut
      <3>2. k = 0
        BY <1>4, <1>9, <3>1
      <3>3. decPos' = decPos /\ dec_ctr' = dec_ctr /\ f.pos <= NextPos'
        BY <1>2, <1>3, <1>4, <2>3, <3>2 DEF NextDec, perform_crypto
      <3>4. \A i \in 1 .. Len(Accepted') : Accepted'[i].n > 0 => i \in 1 .. Len(Accepted)
        BY <1>5, <1>10, <2>3
      <3>5. \A i \in 1 .. Len(Accepted') : Accepted'[i].n > 0 => Accepted[i].n > 0 /\ Accepted'[i].id = Accepted[i].id
        BY <1>10, <3>4
      <3>6. decPos' <= NextPos' /\ (rejects # {} => decPos' + MaxSkip < NextPos')
        BY <1>3, <1>4, <2>2, <3>3, MaxSkipAssumption
      <3> QED
        BY <2>2, <3>3, <3>4, <3>5, <3>6
    <2>4. CASE f.n # 0
      <3>1. perform_crypto(dec_ctr, k) = f.ctr
        BY <1>5, <2>1, <2>4 DEF Intact
      <3>2. f.pos + MaxSkip < CtrMod
        BY <1>3, <1>4, <1>7, MaxSkipAssumption, CtrModAssumption
      <3>3. decPos + k = f.pos
        BY <1>3, <1>4, <2>2, <3>1, <3>2, TrueSkip
      <3>4. decPos' = f.pos + f.n
        BY <1>2, <3>3
      <3>5. dec_ctr' = perform_crypto(start.dec, f.pos + f.n)
        <4>1. dec_ctr' = perform_crypto(perform_crypto(start.dec, f.pos), f.n)
          BY <1>2, <1>3, <3>1 DEF NextDec
        <4>2. f.pos + f.n < CtrMod
          BY <1>3, <1>4, <1>7, MaxSkipAssumption, CtrModAssumption
        <4> QED
          BY <1>4, <4>1, <4>2, BlockAdd
      <3>6. rejects = {}
        BY <1>4, <2>2, <3>3, MaxSkipAssumption
      <3> QED
        BY <1>3, <1>4, <3>4, <3>5, <3>6
    <2> QED
      BY <2>3, <2>4
  <1> QED
    BY <1>3, <1>8, <1>12, <1>14, <1>15 DEF RInv

\* A frame that no candidate decrypts: with no wrong plaintext accepted, its own counter
\* was not a candidate, so it lies beyond the window, and so does all that follows.
LEMMA RejectReceives == ASSUME IInv, RInv, OnNotifyRejected PROVE RInv'
  <1> DEFINE f == air[1]
             r0 == [id |-> f.id, gap |-> f.pos - decPos]
  <1>0. TypeOK /\ AirInv
    BY DEF IInv, RInv
  <1>1. /\ UNCHANGED <<start, dec_ctr, emitted, dtx, notifyTasks, delivered, decPos, conn>>
        /\ air # <<>> /\ air' = Tail(air) /\ Head(air) = f
        /\ ResyncSkips(f, dec_ctr) = {}
        /\ rejects' = rejects \cup {r0}
    BY <1>0, AirType DEF OnNotifyRejected, keyVars, ownerVars
  <1>2. /\ AirInv' /\ AcceptedInv' /\ AgreeInv' /\ conn \notin Early
        /\ Accepted' = Accepted /\ NextPos' >= NextPos /\ NextPos' \in Nat
    <2>1. /\ AirInv' /\ AcceptedInv' /\ AgreeInv' /\ conn \notin Early
          /\ Accepted' = Accepted /\ NextPos \in Nat /\ NextPos' \in Nat /\ NextPos <= NextPos'
      BY <1>1, Missed
    <2> QED
      BY <2>1
  <1>3. /\ NextPos = f.pos /\ f.id = Gone + 1 /\ f.pos + f.n <= dtx
        /\ f.ctr = perform_crypto(start.dec, f.pos)
    BY <1>0, <1>1, AirPops
  <1>4. /\ f.id \in Nat /\ f.pos \in Nat /\ f.n \in Nat /\ Gone \in Nat /\ dtx \in Nat
        /\ decPos \in Nat /\ start.dec \in Counter
    BY <1>0, <1>1, AirType, NextPosType
  <1>5. dtx + MaxSkip < CtrMod
    BY <1>0 DEF AirInv
  <1>6. r0.id = f.id /\ r0.gap = f.pos - decPos
    OBVIOUS
  <1> HIDE DEF f, r0
  <1>7. SyncInv'
    <2> SUFFICES ASSUME Sound
                 PROVE  /\ decPos <= NextPos'
                        /\ dec_ctr = perform_crypto(start.dec, decPos)
                        /\ decPos + MaxSkip < NextPos'
                        /\ \A r \in rejects' :
                             /\ r.gap > MaxSkip
                             /\ \A i \in 1 .. Len(Accepted) :
                                  Accepted[i].n > 0 => Accepted[i].id < r.id
      BY <1>1, <1>2 DEF SyncInv, Sound
    <2>1. /\ decPos <= f.pos
          /\ dec_ctr = perform_crypto(start.dec, decPos)
          /\ \A r \in rejects :
               /\ r.gap > MaxSkip
               /\ \A i \in 1 .. Len(Accepted) : Accepted[i].n > 0 => Accepted[i].id < r.id
      BY <1>3 DEF RInv, SyncInv
    <2>2. f.pos < CtrMod
      BY <1>3, <1>4, <1>5, MaxSkipAssumption, CtrModAssumption
    <2>3. ~(f.pos - decPos <= MaxSkip)
      <3>1. f.pos - decPos \notin ResyncSkips(f, perform_crypto(start.dec, decPos))
        BY <1>1, <2>1
      <3> QED
        BY <1>3, <1>4, <2>1, <2>2, <3>1, ExactSkip
    <2>4. f.pos - decPos > MaxSkip /\ decPos + MaxSkip < f.pos
      BY <1>4, <2>3, MaxSkipAssumption
    <2>5. decPos <= NextPos' /\ decPos + MaxSkip < NextPos'
      BY <1>2, <1>3, <1>4, <2>1, <2>4, MaxSkipAssumption
    <2>6. \A i \in 1 .. Len(Accepted) : Accepted[i].id < r0.id
      <3>1. \A i \in 1 .. Len(Accepted) : Accepted[i].id <= Gone /\ Accepted[i].id \in Nat
        BY <1>0, AcceptedElems DEF RInv, AcceptedInv
      <3> QED
        BY <1>3, <1>4, <1>6, <3>1
    <2>7. r0.gap > MaxSkip
      BY <1>6, <2>4
    <2> QED
      BY <1>1, <2>1, <2>5, <2>6, <2>7
  <1>8. EarlyInv'
    BY <1>1, <1>2 DEF EarlyInv, Early
  <1> QED
    BY <1>2, <1>7, <1>8 DEF RInv

\* The receiving half's inductive invariant holds of every reachable state.
LEMMA ReceiveInvariance == Spec => []RInv
  <1>1. ASSUME IInv, RInv, [Next]_vars PROVE RInv'
    <2>1. CASE Owner
      BY <1>1, <2>1, OwnerReceives
    <2>2. CASE LinkDrop
      <3>1. UNCHANGED <<start, dec_ctr, recvVars>> /\ conn' = conn
        BY <2>2 DEF LinkDrop, keyVars
      <3> QED
        BY <1>1, <3>1, ReceiverUntouched
    <2>3. CASE Notify
      BY <1>1, <2>3, TimerReceives, LoseReceives, AcceptReceives, RejectReceives, RunReceives
      DEF Notify, TimerNotifies
    <2>4. CASE \E t \in Tasks : Send(t)
      BY <1>1, <2>4, SendReceives
    <2>5. CASE UNCHANGED vars
      <3>1. UNCHANGED <<start, dec_ctr, recvVars>> /\ conn' = conn
        BY <2>5 DEF vars, keyVars
      <3> QED
        BY <1>1, <3>1, ReceiverUntouched
    <2> QED
      BY <1>1, <2>1, <2>2, <2>3, <2>4, <2>5 DEF Next
  <1> QED
    BY <1>1, InitRInv, Invariance, PTL DEF Spec

\* The lock's queue outlives the keys only once async_disconnect is done.
LEMMA CrashKeeps == ASSUME TypeOK, CrashInv, [Next]_vars PROVE CrashInv'
  <1>1. (keyed => keyed' \/ conn' = "closed") /\ (conn = "closed" => conn' = "closed")
    <2>1. CASE Owner
      <3>1. conn # "closed"
        BY <2>1
        DEF Owner, Lookup, Establish, HandshakeRead, HandshakeRetry, SetupError, StartNotify,
            BeginDisconnect, StopNotify, FinishDisconnect
      <3>2. CASE FinishDisconnect
        BY <3>1, <3>2 DEF FinishDisconnect
      <3>3. CASE HandshakeRead
        BY <3>1, <3>3 DEF HandshakeRead
      <3>4. CASE ~FinishDisconnect /\ ~HandshakeRead
        <4>1. UNCHANGED keyed
          BY <2>1, <3>4
          DEF keyVars, Owner, Lookup, Establish, HandshakeRetry, SetupError, StartNotify,
              BeginDisconnect, StopNotify
        <4> QED
          BY <3>1, <4>1
      <3> QED
        BY <3>2, <3>3, <3>4
    <2>2. CASE ~Owner
      <3>1. UNCHANGED <<conn, keyed>>
        BY <2>2
        DEF Next, LinkDrop, Notify, TimerNotify, LoseNotify, OnNotifyAccepted, OnNotifyRejected,
            RunNotifyTask, Send, SendNotConnected, SendQueued, LockGrantedTooLate, WriteAcked,
            WriteFailed, SendNow, LockGranted, keyVars, ownerVars, vars
      <3> QED
        BY <3>1
    <2> QED
      BY <2>1, <2>2
  <1>2. ASSUME NEW t \in Tasks
        PROVE  /\ pc'[t] = "waiting" => pc[t] = "waiting" \/ keyed
               /\ pc'[t] = "crashed" => pc[t] = "crashed" \/ (pc[t] = "waiting" /\ ~keyed)
    <2>1. CASE \E u \in Tasks : Send(u)
      BY <2>1
      DEF Send, SendNotConnected, SendQueued, LockGrantedTooLate, WriteAcked, WriteFailed,
          SendNow, LockGranted, Encrypt, Release, TypeOK
    <2>2. CASE ~\E u \in Tasks : Send(u)
      <3>1. UNCHANGED pc
        BY <2>2
        DEF Next, LinkDrop, Notify, TimerNotify, LoseNotify, OnNotifyAccepted, OnNotifyRejected,
            RunNotifyTask, Owner, Lookup, Establish, HandshakeRead, HandshakeRetry, SetupError,
            StartNotify, BeginDisconnect, StopNotify, FinishDisconnect, sendVars, vars
      <3> QED
        BY <3>1
    <2> QED
      BY <2>1, <2>2
  <1> QED
    BY <1>1, <1>2 DEF CrashInv

-------------------------------------------------------------------------------

\* The AttributeError of a queued sender never strikes before async_disconnect is done:
\* whatever the number of senders, no failure path of connecting or closing takes the
\* keys from under the queue of the write lock earlier.
THEOREM CrashConfined == Spec => []CrashOnlyAfterClose
  <1>1. Init => CrashInv
    BY DEF Init, CrashInv
  <1>2. CrashInv => CrashOnlyAfterClose
    BY DEF CrashInv, CrashOnlyAfterClose
  <1> QED
    BY <1>1, <1>2, CrashKeeps, TypeCorrect, PTL DEF Spec

\* AllIntact speaks of the two parts of Accepted.
LEMMA IntactSound == ASSUME TypeOK, AllIntact PROVE Sound
  <1> SUFFICES ASSUME NEW i \in 1 .. Len(Accepted) PROVE Accepted[i].intact
    BY DEF Sound
  <1>1. /\ Len(delivered) \in Nat /\ Len(notifyTasks) \in Nat
        /\ Len(Accepted) = Len(delivered) + Len(notifyTasks)
        /\ \A j \in 1 .. Len(delivered) : Accepted[j] = delivered[j]
        /\ \A j \in 1 .. Len(notifyTasks) : Accepted[Len(delivered) + j] = notifyTasks[j]
    BY AcceptedSeq
  <1>2. DOMAIN delivered = 1 .. Len(delivered) /\ DOMAIN notifyTasks = 1 .. Len(notifyTasks)
    BY DEF TypeOK
  <1>3. CASE i <= Len(delivered)
    BY <1>1, <1>2, <1>3 DEF AllIntact
  <1>4. CASE i > Len(delivered)
    <2>1. i - Len(delivered) \in 1 .. Len(notifyTasks) /\ Len(delivered) + (i - Len(delivered)) = i
      BY <1>1, <1>4
    <2> QED
      BY <1>1, <1>2, <2>1 DEF AllIntact
  <1> QED
    BY <1>1, <1>3, <1>4

\* What notify_cb has been called with is the beginning of what was accepted.
LEMMA DeliveredAccepted ==
  ASSUME TypeOK
  PROVE  \A i \in DOMAIN delivered :
           i \in 1 .. Len(Accepted) /\ i \in 1 .. Len(delivered) /\ Accepted[i] = delivered[i]
  <1>1. DOMAIN delivered = 1 .. Len(delivered)
    BY DEF TypeOK
  <1> QED
    BY <1>1, AcceptedSeq

\* The resync window is never shorter than MaxSkip blocks: for every mix of lost, empty
\* and multi-block frames, every start counter (the wrap of the period included) and every
\* window, a frame given up lies more than MaxSkip blocks ahead.
THEOREM WindowIsWhole == Spec => []RejectOnlyBeyondWindow
  <1>1. TypeOK /\ RInv => RejectOnlyBeyondWindow
    BY IntactSound DEF RInv, SyncInv, RejectOnlyBeyondWindow
  <1> QED
    BY <1>1, TypeCorrect, ReceiveInvariance, PTL

\* After a rejection no later data frame is delivered, short of a collision.
THEOREM DeafAfterWindow == Spec => []DeafBeyondWindow
  <1>1. ASSUME TypeOK, RInv PROVE DeafBeyondWindow
    <2> SUFFICES ASSUME AllIntact, NEW r \in rejects, NEW i \in DOMAIN delivered,
                        delivered[i].n > 0
                 PROVE  delivered[i].id < r.id
      BY DEF DeafBeyondWindow
    <2>1. i \in 1 .. Len(Accepted) /\ Accepted[i] = delivered[i]
      BY <1>1, DeliveredAccepted
    <2>2. Sound
      BY <1>1, IntactSound
    <2> QED
      BY <1>1, <2>1, <2>2 DEF RInv, SyncInv
  <1> QED
    BY <1>1, TypeCorrect, ReceiveInvariance, PTL

\* From a frame at which both ends agree, no checksum collision can make the session accept
\* a wrong plaintext before the timer's counter gets ahead of what was heard, whichever
\* counters the ciphertexts collide at and however far the window reaches.
THEOREM GarbageNeedsGap == Spec => []GarbageOnlyAtGap
  <1>1. ASSUME TypeOK, RInv PROVE GarbageOnlyAtGap
    <2> SUFFICES ASSUME NEW i \in DOMAIN delivered, ~delivered[i].intact,
                        NEW j \in 0 .. i - 1, Agreed(delivered, j)
                 PROVE  \E k \in j .. i - 1 : GotAhead(delivered, k)
      BY DEF GarbageOnlyAtGap
    <2>1. /\ i \in 1 .. Len(Accepted) /\ i \in 1 .. Len(delivered) /\ Len(delivered) \in Nat
          /\ \A m \in 1 .. Len(delivered) : Accepted[m] = delivered[m]
      BY <1>1, DeliveredAccepted, AcceptedSeq
    <2>2. Agreed(Accepted, j) /\ ~Accepted[i].intact
      <3>1. j # 0 => j \in 1 .. Len(delivered)
        BY <2>1
      <3> QED
        BY <2>1, <3>1 DEF Agreed
    <2>3. PICK k \in j .. i - 1 : GotAhead(Accepted, k)
      BY <1>1, <2>1, <2>2 DEF RInv, AgreeInv
    <2>4. k + 1 \in 1 .. Len(delivered) /\ (k # 0 => k \in 1 .. Len(delivered))
      BY <2>1
    <2>5. GotAhead(delivered, k)
      BY <2>1, <2>3, <2>4 DEF GotAhead, EndOf
    <2> QED
      BY <2>5
  <1> QED
    BY <1>1, TypeCorrect, ReceiveInvariance, PTL

-------------------------------------------------------------------------------
(* The refinement of NotifyStream.                                          *)

Ids(s) == [i \in DOMAIN s |-> s[i].id]

LEMMA IdsAppend ==
  ASSUME NEW s \in Seq(Heard), NEW x \in Heard
  PROVE  Ids(Append(s, x)) = Append(Ids(s), x.id)
  <1>1. /\ Append(s, x) \in Seq(Heard)
        /\ Len(Append(s, x)) = Len(s) + 1 /\ Len(s) \in Nat
        /\ \A i \in 1 .. Len(s) : Append(s, x)[i] = s[i]
        /\ Append(s, x)[Len(s) + 1] = x
    OBVIOUS
  <1>2. \A y \in Heard : y.id \in Nat
    BY DEF Heard
  <1>3. \A u \in Seq(Heard) : /\ Ids(u) \in Seq(Nat) /\ Len(Ids(u)) = Len(u)
                              /\ \A i \in 1 .. Len(u) : Ids(u)[i] = u[i].id
    <2> SUFFICES ASSUME NEW u \in Seq(Heard)
                 PROVE  /\ Ids(u) \in Seq(Nat) /\ Len(Ids(u)) = Len(u)
                        /\ \A i \in 1 .. Len(u) : Ids(u)[i] = u[i].id
      OBVIOUS
    <2>1. DOMAIN u = 1 .. Len(u) /\ Len(u) \in Nat /\ \A i \in 1 .. Len(u) : u[i].id \in Nat
      BY <1>2
    <2>2. Ids(u) = [i \in 1 .. Len(u) |-> u[i].id]
      BY <2>1 DEF Ids
    <2>3. Ids(u) \in Seq(Nat)
      BY <2>1, <2>2, IsASeq
    <2> QED
      BY <2>1, <2>2, <2>3
  <1>4. /\ Ids(s) \in Seq(Nat) /\ Len(Ids(s)) = Len(s)
        /\ \A i \in 1 .. Len(s) : Ids(s)[i] = s[i].id
    BY <1>3
  <1>5. /\ Ids(Append(s, x)) \in Seq(Nat) /\ Len(Ids(Append(s, x))) = Len(s) + 1
        /\ \A i \in 1 .. Len(s) + 1 : Ids(Append(s, x))[i] = Append(s, x)[i].id
    BY <1>1, <1>3
  <1>6. /\ Append(Ids(s), x.id) \in Seq(Nat) /\ Len(Append(Ids(s), x.id)) = Len(s) + 1
        /\ \A i \in 1 .. Len(s) : Append(Ids(s), x.id)[i] = Ids(s)[i]
        /\ Append(Ids(s), x.id)[Len(s) + 1] = x.id
    BY <1>2, <1>4
  <1>7. ASSUME NEW i \in 1 .. Len(s) + 1
        PROVE  Ids(Append(s, x))[i] = Append(Ids(s), x.id)[i]
    <2>1. CASE i = Len(s) + 1
      BY <1>1, <1>5, <1>6, <2>1
    <2>2. CASE i # Len(s) + 1
      <3>1. i \in 1 .. Len(s)
        BY <1>1, <2>2
      <3> QED
        BY <1>1, <1>4, <1>5, <1>6, <3>1
    <2> QED
      BY <2>1, <2>2
  <1> QED
    BY <1>5, <1>6, <1>7, SeqEqual

\* A callback that runs is one the stream may hear next.
LEMMA RunHears ==
  ASSUME TypeOK, RInv, RunNotifyTask
  PROVE  \E m \in Stream!Latest + 1 .. emitted :
           Ids(delivered') = Append(Ids(delivered), m)
  <1> DEFINE x == Head(notifyTasks)
  <1>1. delivered \in Seq(Heard) /\ notifyTasks \in Seq(Heard) /\ notifyTasks # <<>>
    BY DEF TypeOK, RunNotifyTask
  <1>2. x \in Heard /\ x = notifyTasks[1] /\ 1 \in 1 .. Len(notifyTasks)
    BY <1>1
  <1>3. x.id \in Nat
    BY <1>2 DEF Heard
  <1>4. Ids(delivered') = Append(Ids(delivered), x.id)
    BY <1>1, <1>2, IdsAppend DEF RunNotifyTask
  <1>5. /\ Len(delivered) \in Nat
        /\ Len(delivered) + 1 \in 1 .. Len(Accepted)
        /\ Accepted[Len(delivered) + 1] = x
    <2>1. Len(Accepted) = Len(delivered) + Len(notifyTasks) /\ Len(delivered) \in Nat
          /\ Len(notifyTasks) \in Nat
      BY AcceptedSeq
    <2>2. Accepted[Len(delivered) + 1] = notifyTasks[1]
      BY <1>2, AcceptedSeq
    <2> QED
      BY <1>2, <2>1, <2>2
  <1>6. x.id <= emitted
    <2>1. x.id <= Gone /\ Len(air) \in Nat /\ emitted \in Nat
      BY <1>5, AirType DEF RInv, AcceptedInv
    <2> QED
      BY <1>3, <2>1 DEF Gone
  <1>7. Stream!Latest \in Nat /\ Stream!Latest < x.id
    <2>1. Stream!Latest = IF Ids(delivered) = <<>> THEN 0 ELSE Ids(delivered)[Len(Ids(delivered))]
      BY DEF Stream!Latest, Ids
    <2>2. DOMAIN delivered = 1 .. Len(delivered)
      BY <1>1
    <2>3. Len(Ids(delivered)) = Len(delivered)
      BY <1>1, <1>5, <2>2 DEF Ids
    <2>4. CASE Len(delivered) = 0
      <3>1. Ids(delivered) = <<>>
        BY <2>2, <2>4 DEF Ids
      <3>2. x.id >= 1
        BY <1>3, <1>5, <2>4 DEF RInv, AcceptedInv
      <3> QED
        BY <1>3, <2>1, <3>1, <3>2
    <2>5. CASE Len(delivered) # 0
      <3>1. Len(delivered) \in 1 .. Len(delivered)
        BY <1>5, <2>5
      <3>2. Ids(delivered) # <<>>
        BY <2>3, <2>5
      <3>3. Stream!Latest = delivered[Len(delivered)].id
        BY <2>1, <2>2, <2>3, <3>1, <3>2 DEF Ids
      <3>4. Accepted[Len(delivered)] = delivered[Len(delivered)] /\ Len(delivered) \in 1 .. Len(Accepted)
        BY <1>5, <3>1, AcceptedSeq
      <3>5. Accepted[Len(delivered)].id \in Nat
        BY <3>4, AcceptedElems
      <3>6. Accepted[Len(delivered)].id < Accepted[Len(delivered) + 1].id
        BY <1>5, <3>4 DEF RInv, AcceptedInv
      <3> QED
        BY <1>5, <3>3, <3>4, <3>5, <3>6
    <2> QED
      BY <2>4, <2>5
  <1>8. x.id \in Stream!Latest + 1 .. emitted
    <2>1. emitted \in Nat
      BY AirType
    <2> QED
      BY <1>3, <1>6, <1>7, <2>1
  <1> QED
    BY <1>4, <1>8

\* Every step of the transport is a step of the stream or does not touch it.
LEMMA StepStreams ==
  ASSUME TypeOK, RInv, [Next]_vars
  PROVE  [Stream!Next]_<<emitted, Ids(delivered)>>
  <1>1. CASE RunNotifyTask
    <2>1. UNCHANGED emitted
      BY <1>1 DEF RunNotifyTask
    <2>2. Stream!Hear
      BY <1>1, <2>1, RunHears DEF Stream!Hear, Ids
    <2> QED
      BY <2>2 DEF Stream!Next
  <1>2. CASE TimerNotifies
    <2>1. emitted' = emitted + 1 /\ delivered' = delivered
      BY <1>2 DEF TimerNotifies, TimerNotify
    <2>2. Stream!Issue
      BY <2>1 DEF Stream!Issue
    <2> QED
      BY <2>2 DEF Stream!Next
  <1>3. CASE ~RunNotifyTask /\ ~TimerNotifies
    <2>1. UNCHANGED <<emitted, delivered>>
      <3>1. CASE LinkDrop \/ LoseNotify \/ OnNotifyAccepted \/ OnNotifyRejected \/ UNCHANGED vars
        BY <3>1
        DEF LinkDrop, LoseNotify, OnNotifyAccepted, OnNotifyRejected, recvVars, vars
      <3>2. CASE Owner
        BY <3>2
        DEF Owner, Lookup, Establish, HandshakeRead, HandshakeRetry, SetupError, StartNotify,
            BeginDisconnect, StopNotify, FinishDisconnect, recvVars
      <3>3. CASE \E t \in Tasks : Send(t)
        BY <3>3
        DEF Send, SendNotConnected, SendQueued, LockGrantedTooLate, WriteAcked, WriteFailed,
            SendNow, LockGranted, recvVars
      <3> QED
        BY <1>3, <3>1, <3>2, <3>3 DEF Next, Notify, TimerNotifies
    <2> QED
      BY <2>1 DEF Ids
  <1> QED
    BY <1>1, <1>2, <1>3

\* notify_cb is called with an in-order, duplicate-free selection of what the timer
\* emitted: the transport implements the notification stream.
THEOREM TransportStreams == Spec => ImplementsStream
  <1>1. Init => Stream!Init
    <2> SUFFICES ASSUME Init PROVE Stream!Init
      OBVIOUS
    <2>1. emitted = 0 /\ delivered = <<>>
      BY DEF Init
    <2> QED
      BY <2>1 DEF Stream!Init
  <1>2. TypeOK /\ RInv /\ [Next]_vars
          => [Stream!Next]_<<emitted, [i \in DOMAIN delivered |-> delivered[i].id]>>
    BY StepStreams DEF Ids
  <1> QED
    BY <1>1, <1>2, TypeCorrect, ReceiveInvariance, PTL DEF Spec, ImplementsStream, Stream!Spec
===============================================================================
