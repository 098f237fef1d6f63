------------------------------ MODULE Coordinator ------------------------------
(***************************************************************************)
(* coordinator.py for one timer: polls, starts and stops that queue for    *)
(* _session_lock, the refreshes scheduled after a run, and a reload of the *)
(* entry, which builds a second coordinator while work of the first may    *)
(* still be in flight.  A BLE session is what gen1_runtime.py and          *)
(* gen2_runtime.py make of it: it opens, its command reaches the timer or  *)
(* not, the timer reports what it does or not, and it ends well or raises. *)
(***************************************************************************)
EXTENDS Integers, Sequences, FiniteSets

CONSTANTS Gens,       \* generations of timers considered
          Durations,  \* run times a user asks for, in ticks
          Settle,     \* margin of the post-run poll (15 s), in ticks
          MidDelay,   \* latest mid-run poll (30 s), in ticks
          MaxTime,    \* bound: ticks of the clock
          Budget      \* bounds that go together: starts and stops a user asks for,
                      \* sessions that raise or hear nothing, reloads (0 or 1)

ASSUME GensAssumption == Gens \subseteq {1, 2}
ASSUME TimesAssumption == Durations \subseteq Nat \ {0} /\ Settle \in Nat \ {0} /\ MidDelay \in Nat
ASSUME BoundsAssumption == MaxTime \in Nat /\ Budget \subseteq Nat \X Nat \X {0, 1}

Insts == {1, 2}   \* the coordinator before the reload and the one after it
Nobody == 0

VARIABLES
  gen,        \* generation of the timer: 1 or 2
  life,       \* of each coordinator: absent, setup, loaded, unloaded
  queue,      \* its operations on _session_lock, the holder first
  sess,       \* the holder's session: none, open, sent
  heard,      \* what the session has heard of the valve
  view,       \* the valve in _last_message / _gen1_snapshot, which entities show
  deferred,   \* _defer_refresh_unsubs still to fire: <<kind, deadline>>
  pollWanted, \* a refresh has been requested and not begun
  now,        \* the clock
  runEnd,     \* the timer: when the run ends; it waters while now < runEnd
  runBy,      \* the timer: whose start began the run
  confirmed,  \* history: the session of that start ended well
  reloads,    \* reloads so far
  ops, fails, \* operations and failures so far
  inflight    \* history: coordinators unloaded while a start was queued

instVars == <<queue, sess, heard, view, deferred, pollWanted>>
timerVars == <<runEnd, runBy, confirmed>>
vars == <<gen, life, instVars, now, timerVars, reloads, ops, fails, inflight>>

Op == [kind : {"poll", "stop"}, dur : {0}] \cup [kind : {"start"}, dur : Durations]
Poll == [kind |-> "poll", dur |-> 0]

\* Some bound allows so many asks, failures and reloads.
Within(o, f, r) == \E b \in Budget : o <= b[1] /\ f <= b[2] /\ r <= b[3]

TypeOK ==
  /\ gen \in Gens
  /\ life \in [Insts -> {"absent", "setup", "loaded", "unloaded"}]
  /\ queue \in [Insts -> Seq(Op)]
  /\ sess \in [Insts -> {"none", "open", "sent"}]
  /\ heard \in [Insts -> {"none", "watering", "idle"}]
  /\ view \in [Insts -> {"none", "watering", "idle"}]
  /\ \A i \in Insts : deferred[i] \subseteq {"mid", "post"} \X Nat
  /\ pollWanted \in [Insts -> BOOLEAN]
  /\ now \in 0 .. MaxTime
  /\ runEnd \in Nat
  /\ runBy \in Insts \cup {Nobody}
  /\ confirmed \in BOOLEAN
  /\ ops \in Nat /\ fails \in Nat /\ reloads \in {0, 1}
  /\ inflight \subseteq Insts

Init ==
  /\ gen \in Gens
  /\ life = [i \in Insts |-> IF i = 1 THEN "setup" ELSE "absent"]
  /\ queue = [i \in Insts |-> <<>>]
  /\ sess = [i \in Insts |-> "none"]
  /\ heard = [i \in Insts |-> "none"]
  /\ view = [i \in Insts |-> "none"]
  /\ deferred = [i \in Insts |-> {}]
  /\ pollWanted = [i \in Insts |-> i = 1]
  /\ now = 0 /\ runEnd = 0 /\ runBy = Nobody /\ confirmed = FALSE
  /\ reloads = 0 /\ ops = 0 /\ fails = 0
  /\ inflight = {}

Valve == IF now < runEnd THEN "watering" ELSE "idle"
Holder(i) == Head(queue[i])

-------------------------------------------------------------------------------
(* Operations queue for the session lock                                    *)

Enqueue(i, op) == queue' = [queue EXCEPT ![i] = Append(@, op)]

\* A requested refresh begins; requests made while a poll is queued wait for its end.
BeginPoll(i) ==
  /\ pollWanted[i]
  /\ \A k \in 1 .. Len(queue[i]) : queue[i][k].kind # "poll"
  /\ pollWanted' = [pollWanted EXCEPT ![i] = FALSE]
  /\ Enqueue(i, Poll)
  /\ UNCHANGED <<gen, life, sess, heard, view, deferred, now, timerVars, reloads, ops, fails,
                 inflight>>

\* The update interval of a loaded entry, or its refresh button.
IntervalPoll(i) ==
  /\ life[i] = "loaded"
  /\ ~pollWanted[i]
  /\ pollWanted' = [pollWanted EXCEPT ![i] = TRUE]
  /\ UNCHANGED <<gen, life, queue, sess, heard, view, deferred, now, timerVars, reloads, ops,
                 fails, inflight>>

\* A switch is turned on for its run time, or off.
UserAsks(i, op) ==
  /\ life[i] = "loaded"
  /\ op.kind # "poll"
  /\ Within(ops + 1, fails, reloads)
  /\ ops' = ops + 1
  /\ Enqueue(i, op)
  /\ UNCHANGED <<gen, life, sess, heard, view, deferred, pollWanted, now, timerVars, reloads,
                 fails, inflight>>

-------------------------------------------------------------------------------
(* The session of the lock's holder                                         *)

OpenSession(i) ==
  /\ queue[i] # <<>>
  /\ sess[i] = "none"
  /\ sess' = [sess EXCEPT ![i] = "open"]
  /\ UNCHANGED <<gen, life, queue, heard, view, deferred, pollWanted, now, timerVars, reloads, ops,
                 fails, inflight>>

\* The holder's command reaches the timer: a start replaces the run, a stop ends it.
CommandArrives(i) ==
  /\ sess[i] = "open"
  /\ sess' = [sess EXCEPT ![i] = "sent"]
  /\ runEnd' = CASE Holder(i).kind = "start" -> now + Holder(i).dur
                 [] Holder(i).kind = "stop"  -> now
                 [] Holder(i).kind = "poll"  -> runEnd
  /\ runBy' = IF Holder(i).kind = "start" THEN i ELSE runBy
  /\ confirmed' = IF Holder(i).kind = "start" THEN FALSE ELSE confirmed
  /\ UNCHANGED <<gen, life, queue, heard, view, deferred, pollWanted, now, reloads, ops, fails,
                 inflight>>

\* The timer reports its valve: the answer to a poll, or of its own accord.
Report(i) ==
  /\ sess[i] \in {"open", "sent"}
  /\ heard[i] # Valve
  /\ heard' = [heard EXCEPT ![i] = Valve]
  /\ UNCHANGED <<gen, life, queue, sess, view, deferred, pollWanted, now, timerVars, reloads, ops,
                 fails, inflight>>

\* The lock goes to the next waiter, and what the session heard goes with it.
Release(i) ==
  /\ queue' = [queue EXCEPT ![i] = Tail(@)]
  /\ sess' = [sess EXCEPT ![i] = "none"]
  /\ heard' = [heard EXCEPT ![i] = "none"]

\* _apply_gen1_result replaces the snapshot; _apply_gen2_result keeps the last message
\* when the session heard none.
Applied(i) == IF gen = 2 /\ heard[i] = "none" THEN view[i] ELSE heard[i]

\* Mutant: the cancellation comes last.
refresh_after_run_cancelled(i, dur) == {}

\* schedule_status_refresh_after_run: the polls of an earlier run are cancelled, then
\* one mid-run and one post-run poll are scheduled.
refresh_after_run(i, dur) ==
  LET mid == IF dur \div 2 < MidDelay THEN dur \div 2 ELSE MidDelay
  IN  {<<"mid", now + (IF mid < 1 THEN 1 ELSE mid)>>, <<"post", now + dur + Settle>>}

\* The session ends well: the lock is released, the result applied, the entities
\* updated and, after a start, the refreshes scheduled, all without another await.
EndSession(i) ==
  /\ sess[i] = "sent"
  /\ heard[i] = "none" => Within(ops, fails + 1, reloads)
  /\ fails' = IF heard[i] = "none" THEN fails + 1 ELSE fails
  /\ Release(i)
  /\ view' = [view EXCEPT ![i] = Applied(i)]
  /\ deferred' = IF Holder(i).kind = "start"
                   THEN [deferred EXCEPT ![i] = refresh_after_run(i, Holder(i).dur)]
                   ELSE deferred
  /\ confirmed' = (confirmed \/ (Holder(i).kind = "start" /\ runBy = i))
  /\ life' = IF life[i] = "setup" THEN [life EXCEPT ![i] = "loaded"] ELSE life
  /\ UNCHANGED <<gen, pollWanted, now, runEnd, runBy, reloads, ops, inflight>>

\* Mutant: a failed session keeps the lock.
FailSessionKeepsLock(i) ==
  /\ sess[i] # "none"
  /\ Within(ops, fails + 1, reloads)
  /\ fails' = fails + 1
  /\ sess' = [sess EXCEPT ![i] = "failed"]
  /\ UNCHANGED <<gen, life, queue, heard, view, deferred, pollWanted, now, timerVars, reloads,
                 ops, inflight>>

\* The session raises, before or after its command reached the timer: UpdateFailed.
\* Nothing is applied or scheduled; a first refresh is tried again by the next setup.
FailSession(i) ==
  /\ sess[i] # "none"
  /\ Within(ops, fails + 1, reloads)
  /\ fails' = fails + 1
  /\ Release(i)
  /\ pollWanted' = IF life[i] = "setup" THEN [pollWanted EXCEPT ![i] = TRUE] ELSE pollWanted
  /\ UNCHANGED <<gen, life, view, deferred, now, timerVars, reloads, ops, inflight>>

-------------------------------------------------------------------------------
(* Time, deferred refreshes, reload                                         *)

FireDeferred(i) ==
  /\ \E d \in deferred[i] :
       /\ d[2] <= now
       /\ deferred' = [deferred EXCEPT ![i] = @ \ {d}]
  /\ pollWanted' = [pollWanted EXCEPT ![i] = TRUE]
  /\ UNCHANGED <<gen, life, queue, sess, heard, view, now, timerVars, reloads, ops, fails,
                 inflight>>

Tick ==
  /\ now < MaxTime
  /\ \A i \in Insts : \A d \in deferred[i] : d[2] > now
  /\ now' = now + 1
  /\ UNCHANGED <<gen, life, instVars, timerVars, reloads, ops, fails, inflight>>

\* Mutant: async_shutdown forgets the deferred refreshes.
ReloadKeepsDeferred ==
  /\ Within(ops, fails, reloads + 1)
  /\ reloads' = reloads + 1
  /\ life[1] = "loaded"
  /\ life' = [life EXCEPT ![1] = "unloaded", ![2] = "setup"]
  /\ pollWanted' = [pollWanted EXCEPT ![2] = TRUE]
  /\ inflight' = IF \E k \in 1 .. Len(queue[1]) : queue[1][k].kind = "start"
                   THEN inflight \cup {1} ELSE inflight
  /\ UNCHANGED <<gen, queue, sess, heard, view, deferred, now, timerVars, ops, fails>>

\* _async_reload_on_entry_update: the entry is unloaded (async_shutdown cancels the
\* deferred refreshes, not what runs or queues) and set up again with a new hub.
Reload ==
  /\ Within(ops, fails, reloads + 1)
  /\ reloads' = reloads + 1
  /\ life[1] = "loaded"
  /\ life' = [life EXCEPT ![1] = "unloaded", ![2] = "setup"]
  /\ deferred' = [deferred EXCEPT ![1] = {}]
  /\ pollWanted' = [pollWanted EXCEPT ![2] = TRUE]
  /\ inflight' = IF \E k \in 1 .. Len(queue[1]) : queue[1][k].kind = "start"
                   THEN inflight \cup {1} ELSE inflight
  /\ UNCHANGED <<gen, queue, sess, heard, view, now, timerVars, ops, fails>>

Session(i) == OpenSession(i) \/ CommandArrives(i) \/ EndSession(i) \/ FailSession(i)

Next ==
  \/ \E i \in Insts :
       \/ BeginPoll(i) \/ IntervalPoll(i) \/ Session(i) \/ Report(i) \/ FireDeferred(i)
       \/ \E op \in Op : UserAsks(i, op)
  \/ Tick
  \/ Reload

Spec == Init /\ [][Next]_vars

\* The event loop runs ready tasks; every session ends (AlwaysClosed of BleTransport,
\* SessionEnds of Gen1Session) and the timer answers in it; the clock, the update
\* interval and the deferred calls go on.
Fairness ==
  /\ WF_vars(Tick)
  /\ \A i \in Insts :
       /\ WF_vars(BeginPoll(i)) /\ WF_vars(IntervalPoll(i)) /\ WF_vars(FireDeferred(i))
       /\ WF_vars(Session(i)) /\ WF_vars(Report(i))

FairSpec == Spec /\ Fairness
-------------------------------------------------------------------------------
(* Properties                                                               *)

\* "Poll status after manual watering (coordinator interval is too slow)": while the
\* run of a start that ended well goes on and its coordinator is loaded, a poll is
\* scheduled after the end of the run, whatever else was asked for in between.
RunIsWatched ==
  now < runEnd /\ confirmed /\ life[runBy] = "loaded" =>
    \E d \in deferred[runBy] : d[2] > runEnd

\* An unloaded coordinator has refreshes scheduled only if a start was in flight when
\* it was unloaded.
LeakOnlyInFlight ==
  \A i \in Insts : life[i] = "unloaded" /\ deferred[i] # {} => i \in inflight

\* Once the user and the failures are done, what the entities of the loaded entry show
\* is what the timer does: a poll always gets the lock in the end, and its result
\* replaces whatever older sessions left.
ViewSettles ==
  <>[](\A i \in Insts : life[i] = "loaded" => view[i] = Valve)
===============================================================================
