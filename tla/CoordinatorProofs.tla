--------------------------- MODULE CoordinatorProofs ---------------------------
(***************************************************************************)
(* Proofs about Coordinator, for any durations, delays and bounds.         *)
(***************************************************************************)
EXTENDS Coordinator, TLAPS

USE GensAssumption, TimesAssumption, BoundsAssumption

Lives == {"absent", "setup", "loaded", "unloaded"}
StartQueued(i) == \E k \in 1 .. Len(queue[i]) : queue[i][k].kind = "start"

Types ==
  /\ TypeOK
  /\ deferred \in [Insts -> SUBSET ({"mid", "post"} \X Nat)]

\* A session has a holder, and the run of a start that has arrived, and that no other
\* coordinator replaced, is over its duration from now at the latest.
Holding ==
  \A i \in Insts :
    sess[i] # "none" =>
      /\ queue[i] # <<>>
      /\ sess[i] = "sent" /\ Holder(i).kind = "start" /\ runBy = i
           => runEnd <= now + Holder(i).dur

\* A coordinator that was never loaded has been asked for nothing.
NotAsked ==
  \A i \in Insts : life[i] \in {"absent", "setup"} => ~StartQueued(i) /\ runBy # i

\* An unloaded one may owe refreshes only to a start it had when it was unloaded.
Owed ==
  \A i \in Insts : life[i] = "unloaded" /\ (StartQueued(i) \/ deferred[i] # {}) => i \in inflight

ConfirmedBy == confirmed => runBy \in Insts

\* The second coordinator is that of the reload.
SecondAbsent == reloads = 0 => life[2] = "absent"

CoordInv == SecondAbsent /\ ConfirmedBy /\ Types /\ Holding /\ NotAsked /\ Owed /\ RunIsWatched

-------------------------------------------------------------------------------
(* Queues                                                                    *)

LEMMA QueueJoins ==
  ASSUME NEW q \in Seq(Op), NEW op \in Op
  PROVE  /\ Append(q, op) \in Seq(Op)
         /\ q # <<>> => Head(Append(q, op)) = Head(q)
         /\ Append(q, op) # <<>>
         /\ (\E k \in 1 .. Len(Append(q, op)) : Append(q, op)[k].kind = "start")
              => op.kind = "start" \/ \E k \in 1 .. Len(q) : q[k].kind = "start"
<1>1. /\ Append(q, op) \in Seq(Op) /\ Len(Append(q, op)) = Len(q) + 1 /\ Len(q) \in Nat
      /\ \A k \in 1 .. Len(q) : Append(q, op)[k] = q[k]
      /\ Append(q, op)[Len(q) + 1] = op
  OBVIOUS
<1>2. q # <<>> => Head(Append(q, op)) = Head(q)
  BY <1>1
<1>3. Append(q, op) # <<>>
  BY <1>1
<1>4. ASSUME NEW k \in 1 .. Len(q) + 1, Append(q, op)[k].kind = "start"
      PROVE  op.kind = "start" \/ \E j \in 1 .. Len(q) : q[j].kind = "start"
  <2>1. CASE k \in 1 .. Len(q)
    BY <1>1, <1>4, <2>1
  <2>2. CASE k = Len(q) + 1
    BY <1>1, <1>4, <2>2
  <2> QED  BY <1>1, <2>1, <2>2
<1> QED  BY <1>1, <1>2, <1>3, <1>4

LEMMA QueueLeaves ==
  ASSUME NEW q \in Seq(Op), q # <<>>
  PROVE  /\ Tail(q) \in Seq(Op) /\ Head(q) \in Op
         /\ (\E k \in 1 .. Len(Tail(q)) : Tail(q)[k].kind = "start")
              => \E k \in 1 .. Len(q) : q[k].kind = "start"
         /\ Head(q).kind = "start" => \E k \in 1 .. Len(q) : q[k].kind = "start"
<1>1. /\ Tail(q) \in Seq(Op) /\ Head(q) \in Op /\ Len(Tail(q)) = Len(q) - 1 /\ Len(q) \in Nat
      /\ Len(q) >= 1 /\ q[1] = Head(q)
      /\ \A k \in 1 .. Len(Tail(q)) : Tail(q)[k] = q[k + 1]
  OBVIOUS
<1>2. ASSUME NEW k \in 1 .. Len(Tail(q)), Tail(q)[k].kind = "start"
      PROVE  \E j \in 1 .. Len(q) : q[j].kind = "start"
  <2>1. k + 1 \in 1 .. Len(q) /\ q[k + 1].kind = "start"
    BY <1>1, <1>2
  <2> QED  BY <2>1
<1>3. 1 \in 1 .. Len(q)
  BY <1>1
<1> QED  BY <1>1, <1>2, <1>3

LEMMA OpTypes ==
  /\ Poll \in Op /\ Poll.kind # "start"
  /\ \A op \in Op : op.kind \in {"poll", "start", "stop"} /\ op.dur \in Nat
                    /\ (op.kind = "start" => op.dur \in Durations)
<1>1. [kind |-> "poll", dur |-> 0] \in [kind : {"poll", "stop"}, dur : {0}]
  OBVIOUS
<1>2. ASSUME NEW op \in [kind : {"poll", "stop"}, dur : {0}]
      PROVE  op.kind \in {"poll", "stop"} /\ op.dur = 0
  OBVIOUS
<1>3. ASSUME NEW op \in [kind : {"start"}, dur : Durations]
      PROVE  op.kind = "start" /\ op.dur \in Durations
  OBVIOUS
<1>4. Poll \in Op /\ Poll.kind # "start"
  BY <1>1 DEF Op, Poll
<1>5. ASSUME NEW op \in Op
      PROVE  /\ op.kind \in {"poll", "start", "stop"} /\ op.dur \in Nat
             /\ op.kind = "start" => op.dur \in Durations
  <2>1. CASE op \in [kind : {"poll", "stop"}, dur : {0}]
    BY <1>2, <2>1
  <2>2. CASE op \in [kind : {"start"}, dur : Durations]
    BY <1>3, <2>2
  <2> QED  BY <2>1, <2>2 DEF Op
<1> QED  BY <1>4, <1>5

-------------------------------------------------------------------------------
(* Each kind of step                                                        *)

LEMMA CoordInit == Init => CoordInv
<1> SUFFICES ASSUME Init PROVE CoordInv
  OBVIOUS
<1>1. Types
  <2>1. queue \in [Insts -> Seq(Op)]
    BY DEF Init
  <2>2. deferred \in [Insts -> SUBSET ({"mid", "post"} \X Nat)]
    BY DEF Init
  <2>3. /\ gen \in Gens /\ runBy \in Insts \cup {Nobody} /\ 0 \in 0 .. MaxTime
        /\ inflight \subseteq Insts
    BY DEF Init, Nobody
  <2>4. \A i \in Insts : deferred[i] \subseteq {"mid", "post"} \X Nat
    BY <2>2
  <2> QED  BY <2>1, <2>2, <2>3, <2>4 DEF Init, Types, TypeOK
<1>2. Holding /\ NotAsked /\ Owed /\ RunIsWatched
  BY DEF Init, Holding, NotAsked, Owed, RunIsWatched, StartQueued, Insts, Nobody
<1>3. SecondAbsent /\ ConfirmedBy
  BY DEF Init, SecondAbsent, ConfirmedBy, Insts
<1> QED  BY <1>1, <1>2, <1>3 DEF CoordInv

\* An operation joins a queue.
LEMMA Enqueues ==
  ASSUME CoordInv, NEW i \in Insts, NEW op \in Op, Enqueue(i, op),
         op.kind = "start" => life[i] = "loaded",
         UNCHANGED <<life, sess, deferred, now, timerVars, inflight>>
  PROVE  /\ queue' \in [Insts -> Seq(Op)]
         /\ Holding' /\ NotAsked' /\ Owed' /\ RunIsWatched'
<1> USE DEF timerVars
<1>0. queue \in [Insts -> Seq(Op)]
  BY DEF CoordInv, Types, TypeOK
<1>1. /\ queue' = [queue EXCEPT ![i] = Append(queue[i], op)]
      /\ queue[i] \in Seq(Op)
  BY <1>0 DEF Enqueue
<1>2. queue' \in [Insts -> Seq(Op)]
  BY <1>0, <1>1, QueueJoins
<1>3. /\ queue[i] # <<>> => Head(queue'[i]) = Head(queue[i])
      /\ queue'[i] # <<>>
      /\ \A j \in Insts \ {i} : queue'[j] = queue[j]
      /\ StartQueued(i)' => op.kind = "start" \/ StartQueued(i)
  BY <1>0, <1>1, QueueJoins DEF StartQueued
<1>4. \A j \in Insts \ {i} : StartQueued(j)' = StartQueued(j)
  BY <1>3 DEF StartQueued
<1>5. Holding'
  BY <1>3 DEF CoordInv, Holding, Holder
<1>6. NotAsked' /\ Owed'
  BY <1>3, <1>4 DEF CoordInv, NotAsked, Owed
<1>7. RunIsWatched'
  BY DEF CoordInv, RunIsWatched
<1> QED  BY <1>2, <1>5, <1>6, <1>7

\* The lock of a coordinator goes to the next of its queue.
LEMMA Releases ==
  ASSUME CoordInv, NEW i \in Insts, sess[i] # "none", Release(i)
  PROVE  /\ queue' \in [Insts -> Seq(Op)]
         /\ sess' \in [Insts -> {"none", "open", "sent"}] /\ sess'[i] = "none"
         /\ heard' \in [Insts -> {"none", "watering", "idle"}]
         /\ Holder(i) \in Op
         /\ Holder(i).kind = "start" => StartQueued(i)
         /\ StartQueued(i)' => StartQueued(i)
         /\ \A j \in Insts \ {i} : queue'[j] = queue[j] /\ sess'[j] = sess[j]
<1>0. queue \in [Insts -> Seq(Op)] /\ queue[i] # <<>>
  BY DEF CoordInv, Types, TypeOK, Holding
<1>1. queue' = [queue EXCEPT ![i] = Tail(queue[i])] /\ queue[i] \in Seq(Op)
  BY <1>0 DEF Release
<1>2. Tail(queue[i]) \in Seq(Op) /\ queue'[i] = Tail(queue[i])
  BY <1>0, <1>1, QueueLeaves
<1>3. queue' \in [Insts -> Seq(Op)]
  BY <1>0, <1>1, <1>2
<1>4. /\ Holder(i) \in Op
      /\ Holder(i).kind = "start" => StartQueued(i)
      /\ StartQueued(i)' => StartQueued(i)
  BY <1>0, <1>1, <1>2, QueueLeaves DEF StartQueued, Holder
<1> QED  BY <1>0, <1>1, <1>3, <1>4 DEF Release, CoordInv, Types, TypeOK

LEMMA CoordStep == CoordInv /\ [Next]_vars => CoordInv'
<1> SUFFICES ASSUME CoordInv, [Next]_vars PROVE CoordInv'
  OBVIOUS
<1> DEFINE Rest == Types /\ Holding /\ NotAsked /\ Owed /\ RunIsWatched
<1> USE DEF timerVars, instVars
<1>0. /\ ConfirmedBy /\ Types /\ TypeOK /\ Holding /\ NotAsked /\ Owed /\ RunIsWatched
      /\ deferred \in [Insts -> SUBSET ({"mid", "post"} \X Nat)]
  BY DEF CoordInv, Types
<1>1. ASSUME NEW i \in Insts, BeginPoll(i) PROVE Rest'
  <2>1. /\ queue' \in [Insts -> Seq(Op)]
        /\ Holding' /\ NotAsked' /\ Owed' /\ RunIsWatched'
    BY <1>1, OpTypes, Enqueues DEF BeginPoll
  <2>2. pollWanted' \in [Insts -> BOOLEAN]
    BY <1>0, <1>1 DEF BeginPoll, TypeOK
  <2> QED  BY <1>0, <1>1, <2>1, <2>2 DEF BeginPoll, Types, TypeOK
<1>2. ASSUME NEW i \in Insts, IntervalPoll(i) PROVE Rest'
  <2>1. UNCHANGED <<life, queue, sess, deferred, now, timerVars, inflight>>
    BY <1>2 DEF IntervalPoll
  <2>2. Holding' /\ NotAsked' /\ Owed' /\ RunIsWatched'
    BY <1>0, <2>1 DEF Holding, NotAsked, Owed, RunIsWatched, StartQueued, Holder
  <2> QED  BY <1>0, <1>2, <2>2 DEF IntervalPoll, Types, TypeOK
<1>3. ASSUME NEW i \in Insts, NEW op \in Op, UserAsks(i, op) PROVE Rest'
  <2>1. /\ queue' \in [Insts -> Seq(Op)]
        /\ Holding' /\ NotAsked' /\ Owed' /\ RunIsWatched'
    BY <1>3, Enqueues DEF UserAsks
  <2> QED  BY <1>0, <1>3, <2>1 DEF UserAsks, Types, TypeOK
<1>4. ASSUME NEW i \in Insts, OpenSession(i) \/ Report(i) PROVE Rest'
  <2>1. UNCHANGED <<life, queue, deferred, now, timerVars, inflight>>
    BY <1>4 DEF OpenSession, Report
  <2>2. /\ sess' \in [Insts -> {"none", "open", "sent"}]
        /\ heard' \in [Insts -> {"none", "watering", "idle"}]
        /\ \A j \in Insts : sess'[j] = sess[j] \/ (j = i /\ sess'[j] = "open" /\ queue[j] # <<>>)
    BY <1>0, <1>4 DEF OpenSession, Report, TypeOK, Valve
  <2>3. Holding'
    BY <1>0, <2>1, <2>2 DEF Holding, Holder
  <2>4. NotAsked' /\ Owed' /\ RunIsWatched'
    BY <1>0, <2>1 DEF NotAsked, Owed, RunIsWatched, StartQueued
  <2> QED  BY <1>0, <1>4, <2>2, <2>3, <2>4 DEF OpenSession, Report, Types, TypeOK
<1>5. ASSUME NEW i \in Insts, CommandArrives(i) PROVE Rest'
  <2>0. queue[i] \in Seq(Op) /\ queue[i] # <<>>
    BY <1>0, <1>5 DEF CommandArrives, TypeOK, Holding
  <2>1. /\ Holder(i) \in Op
        /\ Holder(i).kind = "start" => StartQueued(i)
    BY <2>0, QueueLeaves DEF Holder, StartQueued
  <2>2. UNCHANGED <<gen, life, queue, heard, view, deferred, pollWanted, now, reloads, ops, fails,
                    inflight>>
    BY <1>5 DEF CommandArrives
  <2>3. sess' = [sess EXCEPT ![i] = "sent"]
    BY <1>5 DEF CommandArrives
  <2>4. CASE Holder(i).kind = "start"
    <3>1. runEnd' = now + Holder(i).dur /\ runBy' = i /\ confirmed' = FALSE
      BY <1>5, <2>4 DEF CommandArrives
    <3>2. Types'
      <4>1. runEnd' \in Nat
        BY <1>0, <2>1, <3>1, OpTypes DEF TypeOK
      <4> QED  BY <1>0, <2>2, <2>3, <3>1, <4>1 DEF Types, TypeOK
    <3>3. Holding'
      BY <1>0, <2>0, <2>1, <2>2, <2>3, <3>1, OpTypes DEF Holding, Holder, TypeOK
    <3>4. NotAsked'
      BY <1>0, <2>1, <2>2, <2>4, <3>1 DEF NotAsked, StartQueued
    <3> QED  BY <1>0, <2>2, <3>1, <3>2, <3>3, <3>4 DEF Owed, StartQueued, RunIsWatched
  <2>5. CASE Holder(i).kind # "start"
    <3>1. /\ runEnd' \in {now, runEnd} /\ runBy' = runBy /\ confirmed' = confirmed
      BY <1>5, <2>1, <2>5, OpTypes DEF CommandArrives
    <3>2. Types'
      BY <1>0, <2>2, <2>3, <3>1 DEF Types, TypeOK
    <3>3. Holding'
      <4> SUFFICES ASSUME NEW j \in Insts, sess'[j] # "none"
                   PROVE  /\ queue[j] # <<>>
                          /\ sess'[j] = "sent" /\ Holder(j).kind = "start" /\ runBy = j
                               => runEnd' <= now + Holder(j).dur
        BY <2>2, <3>1 DEF Holding, Holder
      <4>1. CASE j = i
        BY <2>0, <2>5, <4>1
      <4>2. CASE j # i
        <5>1. sess'[j] = sess[j]
          BY <1>0, <2>3, <4>2 DEF TypeOK
        <5>2. queue[j] # <<>> /\ Holder(j) \in Op
          BY <1>0, <5>1, QueueLeaves DEF Holding, Holder, TypeOK
        <5>3. now <= now + Holder(j).dur
          BY <1>0, <5>2, OpTypes DEF TypeOK
        <5> QED  BY <1>0, <3>1, <5>1, <5>2, <5>3 DEF Holding
      <4> QED  BY <4>1, <4>2
    <3>4. NotAsked' /\ Owed'
      BY <1>0, <2>2, <3>1 DEF NotAsked, Owed, StartQueued
    <3>5. RunIsWatched'
      BY <1>0, <2>2, <3>1 DEF RunIsWatched, TypeOK
    <3> QED  BY <3>2, <3>3, <3>4, <3>5
  <2> QED  BY <2>4, <2>5
<1>8. ASSUME NEW i \in Insts, FireDeferred(i) PROVE Rest'
  <2>1. PICK d \in deferred[i] : d[2] <= now /\ deferred' = [deferred EXCEPT ![i] = @ \ {d}]
    BY <1>8 DEF FireDeferred
  <2>2. UNCHANGED <<gen, life, queue, sess, heard, view, now, timerVars, reloads, ops, fails,
                    inflight>>
    BY <1>8 DEF FireDeferred
  <2>3. deferred' \in [Insts -> SUBSET ({"mid", "post"} \X Nat)]
    BY <1>0, <2>1
  <2>4. \A j \in Insts : deferred'[j] \subseteq deferred[j]
                         /\ \A e \in deferred[j] \ deferred'[j] : e[2] <= now
    BY <1>0, <2>1
  <2>5. Types'
    BY <1>0, <1>8, <2>2, <2>3 DEF FireDeferred, Types, TypeOK
  <2>6. Holding' /\ NotAsked'
    BY <1>0, <2>2 DEF Holding, Holder, NotAsked, StartQueued
  <2>7. Owed'
    BY <1>0, <2>2, <2>4 DEF Owed, StartQueued
  <2>8. RunIsWatched'
    <3> SUFFICES ASSUME now < runEnd, confirmed, life[runBy] = "loaded"
                 PROVE  \E e \in deferred'[runBy] : e[2] > runEnd
      BY <2>2 DEF RunIsWatched
    <3>1. PICK e \in deferred[runBy] : e[2] > runEnd
      BY <1>0 DEF RunIsWatched
    <3>2. runBy \in Insts
      BY <1>0 DEF ConfirmedBy
    <3>3. e[2] \in Nat /\ now \in Nat /\ runEnd \in Nat
      BY <1>0, <3>1, <3>2 DEF TypeOK
    <3>4. e \in deferred'[runBy]
      BY <2>4, <3>1, <3>2, <3>3
    <3> QED  BY <3>1, <3>4
  <2> QED  BY <2>5, <2>6, <2>7, <2>8
<1>9. ASSUME Tick PROVE Rest'
  <2>1. now' = now + 1 /\ now < MaxTime
        /\ UNCHANGED <<gen, life, instVars, timerVars, reloads, ops, fails, inflight>>
    BY <1>9 DEF Tick
  <2>2. Types'
    BY <1>0, <2>1 DEF Types, TypeOK
  <2>3. Holding'
    <3> SUFFICES ASSUME NEW j \in Insts, sess[j] # "none"
                 PROVE  /\ queue[j] # <<>>
                        /\ sess[j] = "sent" /\ Holder(j).kind = "start" /\ runBy = j
                             => runEnd <= now + 1 + Holder(j).dur
      BY <2>1 DEF Holding, Holder
    <3>1. queue[j] # <<>> /\ Holder(j) \in Op
      BY <1>0, QueueLeaves DEF Holding, Holder, TypeOK
    <3>2. Holder(j).dur \in Nat /\ now \in Nat /\ runEnd \in Nat
      BY <1>0, <3>1, OpTypes DEF TypeOK
    <3> QED  BY <1>0, <3>1, <3>2 DEF Holding
  <2>4. NotAsked' /\ Owed'
    BY <1>0, <2>1 DEF NotAsked, Owed, StartQueued
  <2>5. RunIsWatched'
    BY <1>0, <2>1 DEF RunIsWatched, TypeOK
  <2> QED  BY <2>2, <2>3, <2>4, <2>5
<1>10. ASSUME Reload PROVE Rest'
  <2>1. /\ life[1] = "loaded"
        /\ life' = [life EXCEPT ![1] = "unloaded", ![2] = "setup"]
        /\ deferred' = [deferred EXCEPT ![1] = {}]
        /\ inflight' = IF StartQueued(1) THEN inflight \cup {1} ELSE inflight
        /\ UNCHANGED <<gen, queue, sess, heard, view, now, timerVars, ops, fails>>
    BY <1>10 DEF Reload, StartQueued
  <2>2. reloads = 0 /\ reloads' = 1
    <3>1. PICK b \in Budget : reloads + 1 <= b[3]
      BY <1>10 DEF Reload, Within
    <3>2. b[3] \in {0, 1}
      OBVIOUS
    <3> QED  BY <1>0, <1>10, <3>1, <3>2 DEF Reload, TypeOK
  <2>3. life[2] = "absent"
    BY <2>2 DEF CoordInv, SecondAbsent
  <2>4. /\ life' \in [Insts -> {"absent", "setup", "loaded", "unloaded"}]
        /\ life'[1] = "unloaded" /\ life'[2] = "setup"
        /\ deferred' \in [Insts -> SUBSET ({"mid", "post"} \X Nat)]
        /\ deferred'[1] = {} /\ deferred'[2] = deferred[2]
    BY <1>0, <2>1 DEF TypeOK, Insts
  <2>5. pollWanted' \in [Insts -> BOOLEAN] /\ inflight' \subseteq Insts /\ inflight \subseteq inflight'
    BY <1>0, <1>10, <2>1 DEF Reload, TypeOK, Insts
  <2>6. Types'
    BY <1>0, <2>1, <2>2, <2>4, <2>5 DEF Types, TypeOK
  <2>7. Holding'
    BY <1>0, <2>1 DEF Holding, Holder
  <2>8. NotAsked'
    BY <1>0, <2>1, <2>3, <2>4 DEF NotAsked, StartQueued, Insts
  <2>9. Owed'
    BY <1>0, <2>1, <2>4, <2>5 DEF Owed, StartQueued, Insts
  <2>10. RunIsWatched'
    <3> SUFFICES ASSUME now < runEnd, confirmed, life'[runBy] = "loaded"
                 PROVE  FALSE
      BY <2>1 DEF RunIsWatched
    <3> QED  BY <1>0, <2>4 DEF ConfirmedBy, Insts
  <2> QED  BY <2>6, <2>7, <2>8, <2>9, <2>10
<1>6. ASSUME NEW i \in Insts, FailSession(i) PROVE Rest'
  <2>1. /\ sess[i] # "none" /\ Release(i)
        /\ UNCHANGED <<gen, life, view, deferred, now, timerVars, reloads, ops, inflight>>
    BY <1>6 DEF FailSession
  <2>2. /\ queue' \in [Insts -> Seq(Op)]
        /\ sess' \in [Insts -> {"none", "open", "sent"}] /\ sess'[i] = "none"
        /\ heard' \in [Insts -> {"none", "watering", "idle"}]
        /\ StartQueued(i)' => StartQueued(i)
        /\ \A j \in Insts \ {i} : queue'[j] = queue[j] /\ sess'[j] = sess[j]
    BY <2>1, Releases
  <2>3. \A j \in Insts : StartQueued(j)' => StartQueued(j)
    BY <2>2 DEF StartQueued
  <2>4. Types'
    BY <1>0, <1>6, <2>1, <2>2 DEF FailSession, Types, TypeOK
  <2>5. Holding'
    BY <1>0, <2>1, <2>2 DEF Holding, Holder
  <2>6. NotAsked' /\ Owed' /\ RunIsWatched'
    BY <1>0, <2>1, <2>3 DEF NotAsked, Owed, RunIsWatched
  <2> QED  BY <2>4, <2>5, <2>6
<1>7. ASSUME NEW i \in Insts, EndSession(i) PROVE Rest'
  <2>1. /\ sess[i] = "sent" /\ Release(i)
        /\ UNCHANGED <<gen, pollWanted, now, runEnd, runBy, reloads, ops, inflight>>
        /\ confirmed' = (confirmed \/ (Holder(i).kind = "start" /\ runBy = i))
    BY <1>7 DEF EndSession
  <2>2. /\ queue' \in [Insts -> Seq(Op)]
        /\ sess' \in [Insts -> {"none", "open", "sent"}] /\ sess'[i] = "none"
        /\ heard' \in [Insts -> {"none", "watering", "idle"}]
        /\ Holder(i) \in Op
        /\ Holder(i).kind = "start" => StartQueued(i)
        /\ StartQueued(i)' => StartQueued(i)
        /\ \A j \in Insts \ {i} : queue'[j] = queue[j] /\ sess'[j] = sess[j]
    BY <2>1, Releases
  <2>3. \A j \in Insts : StartQueued(j)' => StartQueued(j)
    BY <2>2 DEF StartQueued
  <2>4. /\ life' \in [Insts -> {"absent", "setup", "loaded", "unloaded"}]
        /\ \A j \in Insts :
             life'[j] = life[j] \/ (j = i /\ life[i] = "setup" /\ life'[i] = "loaded")
    BY <1>0, <1>7 DEF EndSession, TypeOK
  <2>5. CASE Holder(i).kind = "start"
    <3> DEFINE dur == Holder(i).dur
               mid == IF dur \div 2 < MidDelay THEN dur \div 2 ELSE MidDelay
    <3>1. dur \in Nat /\ now \in Nat /\ Settle \in Nat \ {0}
      BY <1>0, <2>2, OpTypes DEF TypeOK
    <3>2. refresh_after_run(i, dur)
            = {<<"mid", now + (IF mid < 1 THEN 1 ELSE mid)>>, <<"post", now + dur + Settle>>}
      BY DEF refresh_after_run
    <3>3. dur \div 2 \in Nat
      BY <3>1
    <3>4. mid \in Nat
      BY <3>3
    <3>5. now + (IF mid < 1 THEN 1 ELSE mid) \in Nat /\ now + dur + Settle \in Nat
      BY <3>1, <3>4
    <3>6. refresh_after_run(i, dur) \in SUBSET ({"mid", "post"} \X Nat)
      BY <3>2, <3>5
    <3>7. deferred' = [deferred EXCEPT ![i] = refresh_after_run(i, dur)]
      BY <1>7, <2>5 DEF EndSession
    <3>8. /\ deferred' \in [Insts -> SUBSET ({"mid", "post"} \X Nat)]
          /\ deferred'[i] = refresh_after_run(i, dur)
          /\ \A j \in Insts \ {i} : deferred'[j] = deferred[j]
      BY <1>0, <3>6, <3>7
    <3>9. Types'
      <4>1. view' \in [Insts -> {"none", "watering", "idle"}] /\ fails' \in Nat
        BY <1>0, <1>7 DEF EndSession, Applied, TypeOK
      <4>2. confirmed' \in BOOLEAN
        BY <1>0, <2>1 DEF TypeOK
      <4> QED  BY <1>0, <2>1, <2>2, <2>4, <3>8, <4>1, <4>2 DEF Types, TypeOK
    <3>10. Holding'
      BY <1>0, <2>1, <2>2 DEF Holding, Holder
    <3>11. life[i] \notin {"absent", "setup"}
      BY <1>0, <2>2, <2>5 DEF NotAsked
    <3>12. life' = life
      BY <1>0, <2>4, <3>11 DEF TypeOK
    <3>13. NotAsked'
      BY <1>0, <2>1, <2>3, <3>12 DEF NotAsked
    <3>14. Owed'
      BY <1>0, <2>1, <2>2, <2>3, <2>5, <3>8, <3>12 DEF Owed
    <3>15. RunIsWatched'
      <4> SUFFICES ASSUME now < runEnd, confirmed', life[runBy] = "loaded"
                   PROVE  \E d \in deferred'[runBy] : d[2] > runEnd
        BY <2>1, <3>12 DEF RunIsWatched
      <4>1. CASE runBy = i
        <5>1. runEnd <= now + dur
          BY <1>0, <2>1, <2>5, <4>1 DEF Holding
        <5>2. runEnd \in Nat
          BY <1>0 DEF TypeOK
        <5>3. now + dur + Settle > runEnd
          BY <3>1, <5>1, <5>2
        <5>4. <<"post", now + dur + Settle>> \in deferred'[runBy]
          BY <3>2, <3>8, <4>1
        <5> QED  BY <5>3, <5>4
      <4>2. CASE runBy # i
        <5>1. confirmed
          BY <2>1, <4>2
        <5>2. PICK d \in deferred[runBy] : d[2] > runEnd
          BY <1>0, <5>1 DEF RunIsWatched
        <5>3. runBy \in Insts
          BY <1>0, <5>1 DEF ConfirmedBy
        <5> QED  BY <3>8, <4>2, <5>2, <5>3
      <4> QED  BY <4>1, <4>2
    <3> QED  BY <3>9, <3>10, <3>13, <3>14, <3>15
  <2>6. CASE Holder(i).kind # "start"
    <3>1. deferred' = deferred /\ confirmed' = confirmed
      BY <1>0, <1>7, <2>1, <2>6 DEF EndSession, TypeOK
    <3>2. Types'
      <4>1. view' \in [Insts -> {"none", "watering", "idle"}] /\ fails' \in Nat
        BY <1>0, <1>7 DEF EndSession, Applied, TypeOK
      <4>2. confirmed' \in BOOLEAN
        BY <1>0, <2>1 DEF TypeOK
      <4> QED  BY <1>0, <2>1, <2>2, <2>4, <3>1, <4>1, <4>2 DEF Types, TypeOK
    <3>3. Holding'
      BY <1>0, <2>1, <2>2 DEF Holding, Holder
    <3>4. NotAsked' /\ Owed'
      BY <1>0, <2>1, <2>3, <2>4, <3>1 DEF NotAsked, Owed
    <3>5. RunIsWatched'
      <4>1. runBy \in Insts => life'[runBy] = life[runBy]
        BY <1>0, <2>4 DEF NotAsked
      <4> QED  BY <1>0, <2>1, <3>1, <4>1 DEF RunIsWatched, ConfirmedBy
    <3> QED  BY <3>2, <3>3, <3>4, <3>5
  <2> QED  BY <2>5, <2>6
<1>11. CASE UNCHANGED vars
  BY <1>0, <1>11
  DEF vars, CoordInv, SecondAbsent, ConfirmedBy, Types, TypeOK, Holding, Holder, NotAsked, Owed,
     RunIsWatched, StartQueued
<1>12. Next => SecondAbsent' /\ ConfirmedBy'
  <2>1. ASSUME NEW i \in Insts,
               BeginPoll(i) \/ IntervalPoll(i) \/ OpenSession(i) \/ Report(i) \/ FailSession(i)
               \/ FireDeferred(i) \/ (\E op \in Op : UserAsks(i, op)) \/ Tick
        PROVE  UNCHANGED <<life, reloads, runBy, confirmed>>
    BY <2>1 DEF BeginPoll, IntervalPoll, UserAsks, OpenSession, Report, FailSession, FireDeferred,
       Tick
  <2>2. ASSUME NEW i \in Insts, CommandArrives(i)
        PROVE  UNCHANGED <<life, reloads>> /\ ConfirmedBy'
    <3>1. runBy' \in {i, runBy} /\ (confirmed' => confirmed /\ runBy' = runBy)
      BY <2>2 DEF CommandArrives
    <3> QED  BY <1>0, <2>2, <3>1 DEF CommandArrives, ConfirmedBy
  <2>3. ASSUME NEW i \in Insts, EndSession(i)
        PROVE  /\ reloads' = reloads /\ ConfirmedBy'
               /\ life[2] = "absent" => life'[2] = "absent"
    BY <1>0, <2>3 DEF EndSession, ConfirmedBy, TypeOK, Insts
  <2>4. Reload => reloads' # 0 /\ UNCHANGED <<runBy, confirmed>>
    BY <1>0 DEF Reload, TypeOK
  <2>5. 1 \in Insts
    BY DEF Insts
  <2> QED  BY <1>0, <2>1, <2>2, <2>3, <2>4, <2>5 DEF Next, Session, CoordInv, SecondAbsent,
              ConfirmedBy
<1> HIDE DEF Rest
<1>13. Next => Rest'
  BY <1>1, <1>2, <1>3, <1>4, <1>5, <1>6, <1>7, <1>8, <1>9, <1>10 DEF Next, Session
<1> QED  BY <1>11, <1>12, <1>13 DEF CoordInv, Rest

\* The coordinators keep their types, however long their queues get.
THEOREM CoordinatorTypes == Spec => []TypeOK
<1>1. CoordInv => TypeOK
  BY DEF CoordInv, Types
<1> QED  BY <1>1, CoordInit, CoordStep, PTL DEF Spec

\* A confirmed run is watched: while it goes on and its coordinator is loaded, a poll is
\* scheduled after its end, whatever is asked for, fails or is reloaded in between.
THEOREM RunWatched == Spec => []RunIsWatched
<1>1. CoordInv => RunIsWatched
  BY DEF CoordInv
<1> QED  BY <1>1, CoordInit, CoordStep, PTL DEF Spec

\* An unloaded coordinator owes refreshes only to a start that was in flight.
THEOREM LeakInFlight == Spec => []LeakOnlyInFlight
<1>1. CoordInv => LeakOnlyInFlight
  BY DEF CoordInv, Owed, LeakOnlyInFlight
<1> QED  BY <1>1, CoordInit, CoordStep, PTL DEF Spec
===============================================================================
