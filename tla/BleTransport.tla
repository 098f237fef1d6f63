----------------------------- MODULE BleTransport -----------------------------
(***************************************************************************)
(* transport.py: one BhyveBleTransport, from its creation to the end of    *)
(* async_disconnect.  Several tasks send through it at once (a session     *)
(* script and its ACK tasks), the timer notifies, and the BLE link may     *)
(* fail or drop at every await.                                            *)
(***************************************************************************)
EXTENDS LinkCrypto, Sequences

CONSTANTS Tasks,         \* tasks that call async_send_plaintext
          EncStarts,     \* counters a handshake may derive for sending
          DecStarts,     \* ... and for receiving
          MaxReads,      \* max_attempts of the aes_char handshake (12)
          MaxSends,      \* bound: frames encrypted on a link
          MaxNotifies,   \* bound: frames the timer emits
          MaxBlocks,     \* bound: keystream blocks of one frame
          MaxAhead,      \* bound: blocks the timer's counter gets ahead between two frames
          Collisions     \* whether a checksum may match at a wrong counter

ASSUME StartsAssumption == EncStarts \subseteq Counter /\ DecStarts \subseteq Counter
ASSUME BoundsAssumption ==
  /\ MaxReads \in Nat \ {0}
  /\ MaxSends \in Nat /\ MaxNotifies \in Nat /\ MaxBlocks \in Nat /\ MaxAhead \in Nat
  /\ Collisions \in BOOLEAN

Free == "free"
ASSUME FreeAssumption == Free \notin Tasks

Phases == {"new", "connecting", "handshake", "subscribing", "open",
           "stopping", "dropping", "closed"}

VARIABLES
  conn,        \* where connect / disconnect of the owner stands
  linkUp,      \* whether the BLE connection is alive
  reads,       \* aes_char reads made by the handshake
  keyed,       \* whether _keys is set
  enc_ctr,     \* _keys.enc_ctr
  dec_ctr,     \* _keys.dec_ctr
  lock,        \* holder of _write_lock
  waiters,     \* tasks queued on _write_lock, oldest first
  pc,          \* of each sending task
  frame,       \* of each writing task: its frame, an index of sent
  start,       \* history: the counters the handshake derived
  sent,        \* history: every frame encrypted, in order
  wire,        \* history: the frames (indices of sent) that reached the timer
  dtx,         \* the timer: how far its counter is past the one the handshake derived
  emitted,     \* the timer: frames it has emitted
  air,         \* notifications on their way
  notifyTasks, \* _notify_tasks not run yet, in creation order
  delivered,   \* history: what notify_cb has been called with
  decPos,      \* history: blocks _keys.dec_ctr has advanced by
  rejects      \* history: notifications that no candidate counter decrypted

ownerVars == <<conn, reads, start>>
sendVars == <<lock, waiters, pc, frame, sent, wire>>
recvVars == <<dtx, emitted, air, notifyTasks, delivered, decPos, rejects>>
keyVars == <<keyed, enc_ctr, dec_ctr>>
vars == <<conn, linkUp, reads, start, keyVars, sendVars, recvVars>>

\* _client is set once the connection is established, cleared by async_disconnect.
HasClient == conn \notin {"new", "connecting", "closed"}

\* Blocks encrypted so far, failed writes included.
Spent == IF sent = <<>> THEN 0 ELSE sent[Len(sent)].pos + sent[Len(sent)].n

OutFrame == [pos : Nat, ctr : Counter, n : 0 .. MaxBlocks]
InFrame == [id : Nat, pos : Nat, ctr : Counter, n : 0 .. MaxBlocks, collide : SUBSET Counter]
\* A callback: which notification, where it began, how long, and whether it decrypted correctly.
Heard == [id : Nat, pos : Nat, n : 0 .. MaxBlocks, intact : BOOLEAN]

TypeOK ==
  /\ conn \in Phases
  /\ linkUp \in BOOLEAN
  /\ reads \in 0 .. MaxReads
  /\ keyed \in BOOLEAN
  /\ enc_ctr \in Counter
  /\ dec_ctr \in Counter
  /\ lock \in Tasks \cup {Free}
  /\ waiters \in Seq(Tasks)
  /\ pc \in [Tasks -> {"idle", "waiting", "writing", "ok", "error", "crashed"}]
  /\ frame \in [Tasks -> Nat]
  /\ start \in [enc : Counter, dec : Counter]
  /\ sent \in Seq(OutFrame)
  /\ wire \in Seq(Nat)
  /\ dtx \in Nat
  /\ emitted \in Nat
  /\ air \in Seq(InFrame)
  /\ notifyTasks \in Seq(Heard)
  /\ delivered \in Seq(Heard)
  /\ decPos \in Nat
  /\ rejects \subseteq [id : Nat, gap : Int]

Init ==
  /\ conn = "new"
  /\ linkUp = FALSE
  /\ reads = 0
  /\ keyed = FALSE
  /\ lock = Free
  /\ waiters = <<>>
  /\ pc = [t \in Tasks |-> "idle"]
  /\ frame = [t \in Tasks |-> 0]
  /\ start \in [enc : EncStarts, dec : DecStarts]
  /\ enc_ctr = start.enc
  /\ dec_ctr = start.dec
  /\ sent = <<>>
  /\ wire = <<>>
  /\ dtx = 0
  /\ emitted = 0
  /\ air = <<>>
  /\ notifyTasks = <<>>
  /\ delivered = <<>>
  /\ decPos = 0
  /\ rejects = {}

-------------------------------------------------------------------------------
(* The owner: async_connect_and_subscribe, then async_disconnect.           *)

\* Device lookup: without a BLE device the call raises before any client exists.
Lookup ==
  /\ conn = "new"
  /\ conn' \in {"connecting", "closed"}
  /\ UNCHANGED <<linkUp, reads, keyVars, start, sendVars, recvVars>>

\* establish_connection returns, or the timeout / BleakError / OSError becomes a
\* transport error while _client is still None.
Establish ==
  /\ conn = "connecting"
  /\ \/ conn' = "handshake" /\ linkUp' = TRUE
     \/ conn' = "closed" /\ linkUp' = linkUp
  /\ UNCHANGED <<reads, keyVars, start, sendVars, recvVars>>

\* A read of aes_char that validates: the derived counters become _keys.
HandshakeRead ==
  /\ conn = "handshake"
  /\ linkUp
  /\ keyed' = TRUE
  /\ enc_ctr' = start.enc
  /\ dec_ctr' = start.dec
  /\ reads' = reads + 1
  /\ conn' = "subscribing"
  /\ UNCHANGED <<linkUp, start, sendVars, recvVars>>

\* Mutants of HandshakeRetry: one read too many; no limit at all.
HandshakeRetryOneMore ==
  /\ conn = "handshake" /\ linkUp
  /\ reads' = reads + 1
  /\ conn' = IF reads' > MaxReads THEN "stopping" ELSE "handshake"
  /\ UNCHANGED <<linkUp, keyVars, start, sendVars, recvVars>>

HandshakeRetryForever ==
  /\ conn = "handshake" /\ linkUp
  /\ reads' = (reads + 1) % MaxReads
  /\ UNCHANGED <<conn, linkUp, keyVars, start, sendVars, recvVars>>

\* A read that does not validate yet is retried, MaxReads times in all.
HandshakeRetry ==
  /\ conn = "handshake"
  /\ linkUp
  /\ reads' = reads + 1
  /\ conn' = IF reads' = MaxReads THEN "stopping" ELSE "handshake"
  /\ UNCHANGED <<linkUp, keyVars, start, sendVars, recvVars>>

\* A GATT operation of the handshake or of start_notify raises: the caller's
\* finally disconnects.
SetupError ==
  /\ conn \in {"handshake", "subscribing"}
  /\ conn' = "stopping"
  /\ UNCHANGED <<linkUp, reads, keyVars, start, sendVars, recvVars>>

StartNotify ==
  /\ conn = "subscribing"
  /\ linkUp
  /\ conn' = "open"
  /\ UNCHANGED <<linkUp, reads, keyVars, start, sendVars, recvVars>>

\* async_disconnect is called; its three awaits-and-assignments follow in order.
BeginDisconnect ==
  /\ conn = "open"
  /\ conn' = "stopping"
  /\ UNCHANGED <<linkUp, reads, keyVars, start, sendVars, recvVars>>

\* Mutant: _keys is cleared before the client is disconnected.
StopNotifyClearsKeys ==
  /\ conn = "stopping"
  /\ conn' = "dropping"
  /\ keyed' = FALSE
  /\ UNCHANGED <<linkUp, reads, start, enc_ctr, dec_ctr, sendVars, recvVars>>

StopNotify ==
  /\ conn = "stopping"
  /\ conn' = "dropping"
  /\ UNCHANGED <<linkUp, reads, keyVars, start, sendVars, recvVars>>

\* client.disconnect() returns or raises (swallowed: the link may stay up), then
\* _client and _keys are cleared without another await.
FinishDisconnect ==
  /\ conn = "dropping"
  /\ conn' = "closed"
  /\ keyed' = FALSE
  /\ linkUp' \in {FALSE, linkUp}
  /\ UNCHANGED <<reads, start, enc_ctr, dec_ctr, sendVars, recvVars>>

\* The connection is lost; nothing tells the transport.
LinkDrop ==
  /\ linkUp
  /\ linkUp' = FALSE
  /\ UNCHANGED <<conn, reads, keyVars, start, sendVars, recvVars>>

-------------------------------------------------------------------------------
(* async_send_plaintext                                                     *)

\* A task may call; the second conjunct is the bound on sends.
Callable(t) ==
  /\ pc[t] \in {"idle", "ok", "error"}
  /\ Len(sent) + Len(waiters) < MaxSends

\* Under the lock: encrypt at enc_ctr and advance it before the write is awaited.
Encrypt(t, n) ==
  /\ Spent + n < CtrMod
  /\ sent' = Append(sent, [pos |-> Spent, ctr |-> enc_ctr, n |-> n])
  /\ enc_ctr' = perform_crypto(enc_ctr, n)
  /\ frame' = [frame EXCEPT ![t] = Len(sent) + 1]
  /\ lock' = t
  /\ pc' = [pc EXCEPT ![t] = "writing"]

SendNotConnected(t) ==
  /\ pc[t] \in {"idle", "ok"}
  /\ ~HasClient \/ ~keyed
  /\ pc' = [pc EXCEPT ![t] = "error"]
  /\ UNCHANGED <<linkUp, keyVars, lock, waiters, frame, sent, wire, ownerVars, recvVars>>

\* Mutant: no write lock around encryption and write.
SendNowUnlocked(t, n) ==
  /\ Callable(t)
  /\ HasClient /\ keyed
  /\ Encrypt(t, n)
  /\ UNCHANGED <<linkUp, keyed, dec_ctr, waiters, wire, ownerVars, recvVars>>

\* The lock is free and nobody queues for it: no await before the write.
SendNow(t, n) ==
  /\ Callable(t)
  /\ HasClient /\ keyed
  /\ lock = Free /\ waiters = <<>>
  /\ Encrypt(t, n)
  /\ UNCHANGED <<linkUp, keyed, dec_ctr, waiters, wire, ownerVars, recvVars>>

SendQueued(t) ==
  /\ Callable(t)
  /\ HasClient /\ keyed
  /\ lock # Free \/ waiters # <<>>
  /\ waiters' = Append(waiters, t)
  /\ pc' = [pc EXCEPT ![t] = "waiting"]
  /\ UNCHANGED <<linkUp, keyVars, lock, frame, sent, wire, ownerVars, recvVars>>

\* The oldest waiter resumes.  The connection is not checked again.
LockGranted(t, n) ==
  /\ pc[t] = "waiting"
  /\ lock = Free
  /\ waiters # <<>> /\ t = Head(waiters)
  /\ waiters' = Tail(waiters)
  /\ keyed
  /\ Encrypt(t, n)
  /\ UNCHANGED <<linkUp, keyed, dec_ctr, wire, ownerVars, recvVars>>

\* _keys went to None while the task queued: AttributeError, and the lock passes on.
LockGrantedTooLate(t) ==
  /\ pc[t] = "waiting"
  /\ lock = Free
  /\ waiters # <<>> /\ t = Head(waiters)
  /\ waiters' = Tail(waiters)
  /\ ~keyed
  /\ pc' = [pc EXCEPT ![t] = "crashed"]
  /\ UNCHANGED <<linkUp, keyVars, lock, frame, sent, wire, ownerVars, recvVars>>

Release(t, outcome) ==
  /\ lock' = Free
  /\ pc' = [pc EXCEPT ![t] = outcome]
  /\ frame' = [frame EXCEPT ![t] = 0]

WriteAcked(t) ==
  /\ pc[t] = "writing"
  /\ linkUp
  /\ wire' = Append(wire, frame[t])
  /\ Release(t, "ok")
  /\ UNCHANGED <<linkUp, keyVars, waiters, sent, ownerVars, recvVars>>

\* Mutants of WriteFailed: the counter is rolled back; the lock is not released.
WriteFailedRollsBack(t) ==
  /\ pc[t] = "writing"
  /\ wire' \in {wire, Append(wire, frame[t])}
  /\ Release(t, "error")
  /\ enc_ctr' = sent[frame[t]].ctr
  /\ UNCHANGED <<linkUp, keyed, dec_ctr, waiters, sent, ownerVars, recvVars>>

WriteFailedKeepsLock(t) ==
  /\ pc[t] = "writing"
  /\ wire' \in {wire, Append(wire, frame[t])}
  /\ pc' = [pc EXCEPT ![t] = "error"]
  /\ frame' = [frame EXCEPT ![t] = 0]
  /\ UNCHANGED <<linkUp, keyVars, lock, waiters, sent, ownerVars, recvVars>>

\* BleakError: the frame is lost, or it arrived and its write response was lost.
WriteFailed(t) ==
  /\ pc[t] = "writing"
  /\ wire' \in {wire, Append(wire, frame[t])}
  /\ Release(t, "error")
  /\ UNCHANGED <<linkUp, keyVars, waiters, sent, ownerVars, recvVars>>

-------------------------------------------------------------------------------
(* Notifications                                                            *)

\* The timer emits a frame; it arrives only if the characteristic is subscribed.  Its counter
\* may have got ahead since its last frame, or since the handshake, without a frame that was
\* missed: "missed frames, 0x00 per-write acks, or prior sessions".
TimerNotify(ahead, n, collide) ==
  /\ linkUp
  /\ conn \in {"subscribing", "open", "stopping", "dropping"} /\ keyed
  /\ emitted < MaxNotifies
  /\ dtx + ahead + n + MaxSkip < CtrMod
  /\ emitted' = emitted + 1
  /\ dtx' = dtx + ahead + n
  /\ air' = Append(air, [id |-> emitted', pos |-> dtx + ahead, n |-> n, collide |-> collide,
                         ctr |-> perform_crypto(start.dec, dtx + ahead)])
  /\ UNCHANGED <<linkUp, keyVars, sendVars, ownerVars, notifyTasks, delivered, decPos, rejects>>

LoseNotify ==
  /\ air # <<>>
  /\ air' = Tail(air)
  /\ UNCHANGED <<linkUp, keyVars, sendVars, ownerVars, dtx, emitted, notifyTasks,
                 delivered, decPos, rejects>>

\* _on_notify when a candidate counter checks out: dec_ctr moves past the frame
\* and a task is created for the callback.
OnNotifyAccepted ==
  /\ air # <<>>
  /\ keyed
  /\ LET f == Head(air)
     IN  \E k \in 0 .. MaxSkip :
           /\ IsFirstSkip(f, dec_ctr, k)
           /\ dec_ctr' = NextDec(f, dec_ctr, k)
           /\ decPos' = decPos + k + f.n
           /\ notifyTasks' = Append(notifyTasks,
                [id |-> f.id, pos |-> f.pos, n |-> f.n, intact |-> Intact(f, dec_ctr, k)])
  /\ air' = Tail(air)
  /\ UNCHANGED <<linkUp, keyed, enc_ctr, sendVars, ownerVars, dtx, emitted, delivered, rejects>>

\* Mutant: a frame that does not decrypt moves the counter past the window.
OnNotifyRejectedJumps ==
  /\ air # <<>> /\ keyed
  /\ ResyncSkips(Head(air), dec_ctr) = {}
  /\ rejects' = rejects \cup {[id |-> Head(air).id, gap |-> Head(air).pos - decPos]}
  /\ air' = Tail(air)
  /\ dec_ctr' = perform_crypto(dec_ctr, MaxSkip + 1)
  /\ decPos' = decPos + MaxSkip + 1
  /\ UNCHANGED <<linkUp, keyed, enc_ctr, sendVars, ownerVars, dtx, emitted, notifyTasks, delivered>>

\* _on_notify when none does: the frame is dropped and dec_ctr stays.
OnNotifyRejected ==
  /\ air # <<>>
  /\ keyed
  /\ ResyncSkips(Head(air), dec_ctr) = {}
  /\ rejects' = rejects \cup {[id |-> Head(air).id, gap |-> Head(air).pos - decPos]}
  /\ air' = Tail(air)
  /\ UNCHANGED <<linkUp, keyVars, sendVars, ownerVars, dtx, emitted, notifyTasks,
                 delivered, decPos>>

\* Mutant: the newest callback task runs first.
RunNotifyTaskNewest ==
  /\ notifyTasks # <<>>
  /\ delivered' = Append(delivered, notifyTasks[Len(notifyTasks)])
  /\ notifyTasks' = SubSeq(notifyTasks, 1, Len(notifyTasks) - 1)
  /\ UNCHANGED <<linkUp, keyVars, sendVars, ownerVars, dtx, emitted, air, decPos, rejects>>

\* The event loop runs the oldest callback task, after a disconnect too.
RunNotifyTask ==
  /\ notifyTasks # <<>>
  /\ delivered' = Append(delivered, Head(notifyTasks))
  /\ notifyTasks' = Tail(notifyTasks)
  /\ UNCHANGED <<linkUp, keyVars, sendVars, ownerVars, dtx, emitted, air, decPos, rejects>>

-------------------------------------------------------------------------------

Owner == \/ Lookup \/ Establish \/ HandshakeRead \/ HandshakeRetry \/ SetupError
         \/ StartNotify \/ BeginDisconnect \/ StopNotify \/ FinishDisconnect

Send(t) == \/ SendNotConnected(t) \/ SendQueued(t) \/ LockGrantedTooLate(t)
           \/ WriteAcked(t) \/ WriteFailed(t)
           \/ \E n \in 0 .. MaxBlocks : SendNow(t, n) \/ LockGranted(t, n)

CollisionSets == IF Collisions THEN {{}} \cup {{c} : c \in 0 .. CtrMod - 1} ELSE {{}}

Notify == \/ \E ahead \in 0 .. MaxAhead, n \in 0 .. MaxBlocks, c \in CollisionSets :
               TimerNotify(ahead, n, c)
          \/ LoseNotify \/ OnNotifyAccepted \/ OnNotifyRejected \/ RunNotifyTask

Next == Owner \/ LinkDrop \/ Notify \/ \E t \in Tasks : Send(t)

\* Every await of the code ends: the BLE stack completes or fails each GATT
\* operation, establish_connection and the handshake are bounded, the owner's
\* finally always disconnects, and the event loop runs every ready task.
Fairness ==
  /\ WF_vars(Owner)
  /\ WF_vars(RunNotifyTask)
  /\ \A t \in Tasks : WF_vars(Send(t) /\ pc[t] \in {"waiting", "writing"})

Spec == Init /\ [][Next]_vars
FairSpec == Spec /\ Fairness
-------------------------------------------------------------------------------
(* Properties                                                               *)

\* No two frames of a link are ever encrypted with a common keystream block,
\* whichever tasks race for the write lock, whichever writes fail after the
\* counter moved, and whatever notifications rewrite _keys in between.
NoKeystreamReuse ==
  \A i, j \in 1 .. Len(sent) :
    i # j => Keystream(sent[i].ctr, sent[i].n) \cap Keystream(sent[j].ctr, sent[j].n) = {}

\* The timer sees frames in the order of their counters: the lock spans the
\* encryption and the write, so no frame overtakes another, and a failed write
\* leaves a gap but never a step back.
WireInCounterOrder ==
  \A i, j \in 1 .. Len(wire) :
    i < j => sent[wire[i]].pos + sent[wire[i]].n <= sent[wire[j]].pos

\* A task that queued for the write lock never finds the connection gone while
\* async_disconnect has yet to finish: AttributeError is confined to tasks that
\* outlive the session.
CrashOnlyAfterClose == \A t \in Tasks : pc[t] = "crashed" => conn = "closed"

\* No wrong plaintext has been accepted so far.
AllIntact ==
  /\ \A i \in DOMAIN delivered : delivered[i].intact
  /\ \A i \in DOMAIN notifyTasks : notifyTasks[i].intact

\* As long as no checksum collision was hit, a notification is only ever given up when
\* the timer had got more than MaxSkip blocks ahead: no combination of lost, empty and
\* multi-block frames makes the resync window shorter than it says.
RejectOnlyBeyondWindow == AllIntact => \A r \in rejects : r.gap > MaxSkip

\* Once a frame fell beyond the window no data is delivered any more, short of a
\* collision: a rejected frame leaves dec_ctr alone, and the timer only gets further away.
DeafBeyondWindow ==
  AllIntact => \A r \in rejects : \A i \in DOMAIN delivered :
                 delivered[i].n > 0 => delivered[i].id < r.id

\* Where the k-th of the frames s ends; the handshake left the timer at 0.
EndOf(s, k) == IF k = 0 THEN 0 ELSE s[k].pos + s[k].n

\* The timer's counter got ahead between the k-th of the frames s and the next one of them.
GotAhead(s, k) == EndOf(s, k) < s[k + 1].pos

\* After the k-th of the frames s both ends agree on the counter: by the handshake, or
\* because the frame had data and was decrypted at the right one.
Agreed(s, k) == k = 0 \/ (s[k].n > 0 /\ s[k].intact)

\* A wrong plaintext is delivered only where the timer's counter got ahead of the frames
\* heard: one frame with data decrypted right brings the ends back together whatever went
\* wrong before, and from there on no collision can shadow the true counter until the timer
\* gets ahead again.
GarbageOnlyAtGap ==
  \A i \in DOMAIN delivered : ~delivered[i].intact =>
    \A j \in 0 .. i - 1 : Agreed(delivered, j) =>
      \E k \in j .. i - 1 : GotAhead(delivered, k)

\* What notify_cb is given is an in-order, duplicate-free selection of what the
\* timer emitted, late callbacks after async_disconnect included.
Stream == INSTANCE NotifyStream
            WITH issued <- emitted, got <- [i \in DOMAIN delivered |-> delivered[i].id]
ImplementsStream == Stream!Spec

\* The write lock always comes back: no failed write, crash or disconnect leaves
\* a queued task waiting for ever.
LockComesBack == \A t \in Tasks : pc[t] = "waiting" ~> pc[t] # "waiting"

\* Every failure path of connecting, and every session, ends disconnected.
AlwaysClosed == <>(conn = "closed")
===============================================================================
