------------------------------- MODULE LabClient -------------------------------
(***************************************************************************)
(* One command of the lab client, ble_session of pybhyve/cli/main.py.  It  *)
(* drives the same session engine and scripts as the integration, but over *)
(* a sender of its own: no write lock, the counter in a dict.  Several     *)
(* frames may be in their GATT writes at once and complete in any order.   *)
(***************************************************************************)
EXTENDS Gen1Ops, FiniteSets

CONSTANTS MaxAsync,   \* bound: notifies the timer emits on its own
          MaxFaults   \* bound: notifies lost or late, and writes failed, in the script

ASSUME BoundsAssumption == MaxAsync \in Nat /\ MaxFaults \in Nat

Commands == {"pair", "start", "stop", "status", "connect"}
MaxReads == 12

\* Device ids of a gen1 timer: the one of the command line (or the one generated for
\* it), and another the timer may assign instead.
None == 0
Proposed == 1
OtherId == 2

VARIABLES
  args,      \* command and generation
  at,        \* see Places
  step,      \* index into Script
  reads,     \* of aes_char that did not validate
  id,        \* profile.device_id
  enc,       \* state["enc"], from the counter the handshake derived
  flying,    \* frames in their GATT write: counter and step (0 for an ACK)
  acks,      \* ACK tasks of the session engine that wait for _ack_lock
  assigned,  \* assigned_device_id of the session engine
  heard,     \* received_any_notify
  inbox,     \* notifies on their way, and those whose ingest task has not run
  timer,     \* its network key and the id it goes by
  nasync, faults,
  built,     \* history: counters of the frames encrypted, in order
  unheard,   \* history: a notify with the assigned id was lost or came after the script
  saved      \* the credentials printed at the end of pair

linkVars == <<enc, flying, built>>
engineVars == <<acks, assigned, heard>>
boundVars == <<nasync, faults>>
vars == <<args, at, step, reads, id, linkVars, engineVars, inbox, timer, boundVars, unheard,
          saved>>

Gen1 == args.gen = 1
Pairing == args.cmd = "pair"

\* network_char, aes_write, aes_read: set-up; ready: between steps; writing: the frame
\* of a step; waiting: its answer; listening, done; exit: SystemExit or an exception.
Places == {"network_char", "aes_write", "aes_read", "ready", "writing", "waiting",
           "listening", "done", "exit"}
Session == {"ready", "writing", "waiting", "listening"}   \* subscribed to notifies
Notify == {"answer", "async", "assign"}
NotPrinted == [key |-> "none", id |-> None]

TypeOK ==
  /\ args \in [cmd : Commands, gen : {1, 2}]
  /\ at \in Places
  /\ step \in 1 .. 20
  /\ reads \in 0 .. MaxReads
  /\ id \in {None, Proposed, OtherId}
  /\ enc \in Nat
  /\ flying \subseteq [ctr : Nat, step : 0 .. 20]
  /\ acks \in 0 .. MaxAsync
  /\ assigned \in {None, Proposed, OtherId}
  /\ heard \in BOOLEAN
  /\ inbox \in Seq(Notify)
  /\ timer \in [key : {"old", "new"}, id : {Proposed, OtherId}]
  /\ nasync \in 0 .. MaxAsync
  /\ faults \in 0 .. MaxFaults
  /\ built \in Seq(Nat)
  /\ unheard \in BOOLEAN
  /\ saved \in [key : {"none", "new"}, id : {None, Proposed, OtherId}]

\* _resolve_profile: gen1 goes by a device id, given or generated, gen2 by none.
Init ==
  /\ args \in [cmd : Commands, gen : {1, 2}]
  /\ at = IF args.cmd = "pair" THEN "network_char" ELSE "aes_write"
  /\ step = 1
  /\ reads = 0
  /\ id = IF args.gen = 1 THEN Proposed ELSE None
  /\ enc = 0 /\ flying = {} /\ built = <<>>
  /\ acks = 0 /\ assigned = None /\ heard = FALSE
  /\ inbox = <<>>
  /\ timer \in [key : {"old"},
                id : IF args.cmd = "pair" THEN {Proposed, OtherId} ELSE {Proposed}]
  /\ nasync = 0 /\ faults = 0
  /\ unheard = FALSE
  /\ saved = NotPrinted

\* What the command sends: the gen1 operations, or the plain sends of gen2_ops.
Gen2Queries == << Fixed("info", 0), Fixed("info", 0), Fixed("info", 0) >>
Script ==
  CASE Gen1 /\ Pairing            -> OnboardScript
    [] Gen1 /\ args.cmd = "connect" -> gen1_mesh_attach(TRUE)
    [] Gen1 /\ args.cmd = "start" -> StartScript
    [] Gen1 /\ args.cmd = "stop"  -> StopScript
    [] Gen1 /\ args.cmd = "status" -> StatusScript
    [] ~Gen1 /\ args.cmd = "start" -> << Fixed("start", 0) >>
    [] ~Gen1 /\ args.cmd = "stop" -> << Fixed("stop", 0) >> \o Gen2Queries
    [] ~Gen1 /\ args.cmd = "status" -> Gen2Queries
    [] OTHER                      -> <<>>

-------------------------------------------------------------------------------
(* Set-up                                                                   *)

\* pair: network_char is written with response; an error ends the command, whether or
\* not the key arrived.
WriteNetworkChar(arrives, fails) ==
  /\ at = "network_char"
  /\ fails \/ arrives
  /\ timer' = IF arrives THEN [timer EXCEPT !.key = "new"] ELSE timer
  /\ at' = IF fails THEN "exit" ELSE "aes_write"
  /\ UNCHANGED <<args, step, reads, id, linkVars, engineVars, inbox, boundVars, unheard, saved>>

WriteAesChar(fails) ==
  /\ at = "aes_write"
  /\ at' = IF fails THEN "exit" ELSE "aes_read"
  /\ UNCHANGED <<args, step, reads, id, linkVars, engineVars, inbox, timer, boundVars, unheard,
                 saved>>

\* Mutant: the reads are not counted out.
ReadAesCharForever(got) ==
  /\ at = "aes_read"
  /\ reads' = IF got = "valid" THEN 0 ELSE reads + 1
  /\ at' = CASE got = "valid" -> "ready" [] got = "error" -> "exit" [] OTHER -> "aes_read"
  /\ UNCHANGED <<args, step, id, linkVars, engineVars, inbox, timer, boundVars, unheard, saved>>

\* A read that validates gives the counters, and notifies are subscribed to; an error of
\* either, or twelve reads that do not validate, end the command.
ReadAesChar(got) ==
  /\ at = "aes_read"
  /\ reads' = IF got = "valid" THEN 0 ELSE reads + 1
  /\ at' = CASE got = "valid" -> "ready"
             [] got = "error" \/ reads' = MaxReads -> "exit"
             [] OTHER -> "aes_read"
  /\ UNCHANGED <<args, step, id, linkVars, engineVars, inbox, timer, boundVars, unheard, saved>>

-------------------------------------------------------------------------------
(* Sending                                                                  *)

\* send_plaintext up to its await: the frame is built and the counter moved in one step.
Build(s) ==
  /\ enc' = enc + 1
  /\ flying' = flying \cup {[ctr |-> enc, step |-> s]}
  /\ built' = Append(built, enc)

SendStep ==
  /\ at = "ready"
  /\ step <= Len(Script)
  /\ Build(step)
  /\ at' = "writing"
  /\ UNCHANGED <<args, step, reads, id, engineVars, inbox, timer, boundVars, unheard, saved>>

\* The poll that ends a status or a start is left out when the snapshot has a record,
\* which is left to chance here.
SkipPoll ==
  /\ at = "ready"
  /\ step <= Len(Script) /\ Script[step].what = "silent_poll"
  /\ heard
  /\ step' = step + 1
  /\ UNCHANGED <<args, at, reads, id, linkVars, engineVars, inbox, timer, boundVars, unheard,
                 saved>>

\* An ACK task gets _ack_lock, whatever the script is doing.
SendAck ==
  /\ at \in Session
  /\ acks > 0
  /\ \A w \in flying : w.step # 0
  /\ acks' = acks - 1
  /\ Build(0)
  /\ UNCHANGED <<args, at, step, reads, id, assigned, heard, inbox, timer, boundVars, unheard,
                 saved>>

\* A timer answers the register commands of gen1 with its id.
Registers(w) == w.step # 0 /\ Script[w.step].what = "register"

\* A frame arrives and its write returns, in any order of those in flight.
WriteDone(w) ==
  /\ at \in Session
  /\ w \in flying
  /\ flying' = flying \ {w}
  /\ inbox' = IF w.step = 0 THEN inbox
              ELSE Append(inbox, IF Registers(w) THEN "assign" ELSE "answer")
  /\ at' = IF w.step # 0 THEN "waiting" ELSE at
  /\ UNCHANGED <<args, step, reads, id, enc, built, engineVars, timer, boundVars, unheard,
                 saved>>

\* Mutant: a failed write gives its counter back.
WriteFailsRollsBack(w) ==
  /\ at \in Session
  /\ w \in flying
  /\ faults < MaxFaults
  /\ faults' = faults + 1
  /\ flying' = flying \ {w}
  /\ enc' = enc - 1
  /\ at' = IF w.step # 0 THEN "exit" ELSE at
  /\ UNCHANGED <<args, step, reads, id, built, engineVars, inbox, timer, nasync, unheard, saved>>

\* A write raises: the script ends the command with it, an ACK task only itself.
WriteFails(w) ==
  /\ at \in Session
  /\ w \in flying
  /\ faults < MaxFaults
  /\ faults' = faults + 1
  /\ flying' = flying \ {w}
  /\ at' = IF w.step # 0 THEN "exit" ELSE at
  /\ UNCHANGED <<args, step, reads, id, enc, built, engineVars, inbox, timer, nasync, unheard,
                 saved>>

\* Commands of the session engine wait for their answer, but for the commit and the start;
\* the sends of gen2_ops do not.
Awaited == Gen1 /\ Script[step].what \notin {"commit", "start"}

\* The answer was heard, or lost so that its time-out passed, or none is awaited.
NextStep ==
  /\ at = "waiting"
  /\ Awaited => inbox = <<>>
  /\ at' = "ready"
  /\ step' = step + 1
  /\ UNCHANGED <<args, reads, id, linkVars, engineVars, inbox, timer, boundVars, unheard, saved>>

\* The time-out passes with the answer under way.
TimesOut ==
  /\ at = "waiting"
  /\ Awaited /\ inbox # <<>>
  /\ faults < MaxFaults
  /\ faults' = faults + 1
  /\ at' = "ready"
  /\ step' = step + 1
  /\ UNCHANGED <<args, reads, id, linkVars, engineVars, inbox, timer, nasync, unheard, saved>>

-------------------------------------------------------------------------------
(* Receiving                                                                *)

\* ingest_notify: on_notify gives each notify a task, and as none of them awaits they
\* run whole and in order.
IngestNotify ==
  /\ at \in Session
  /\ inbox # <<>>
  /\ inbox' = Tail(inbox)
  /\ heard' = (Gen1 \/ heard)
  /\ assigned' = IF Gen1 /\ Head(inbox) = "assign" THEN timer.id ELSE assigned
  /\ acks' = IF Gen1 /\ Head(inbox) = "async" THEN acks + 1 ELSE acks
  /\ UNCHANGED <<args, at, step, reads, id, linkVars, timer, boundVars, unheard, saved>>

LoseNotify ==
  /\ at \in Session
  /\ inbox # <<>>
  /\ faults < MaxFaults
  /\ faults' = faults + 1
  /\ inbox' = Tail(inbox)
  /\ unheard' = (unheard \/ Head(inbox) = "assign")
  /\ UNCHANGED <<args, at, step, reads, id, linkVars, engineVars, timer, nasync, saved>>

TimerNotifies ==
  /\ at \in Session
  /\ nasync < MaxAsync
  /\ nasync' = nasync + 1
  /\ inbox' = Append(inbox, "async")
  /\ UNCHANGED <<args, at, step, reads, id, linkVars, engineVars, timer, faults, unheard, saved>>

-------------------------------------------------------------------------------
(* The end                                                                  *)

\* Mutant: the id the command line proposed is kept.
learned_device_id_proposed == id

\* _apply_learned_gen1_device_id
learned_device_id == IF assigned # None THEN assigned ELSE id

\* The script is over: a pair that heard nothing at all gives up, otherwise the id the
\* timer assigned is the profile's from here on.
ScriptOver ==
  /\ at = "ready"
  /\ step > Len(Script)
  /\ IF Gen1 /\ Pairing /\ assigned = None /\ ~heard
       THEN at' = "exit" /\ UNCHANGED id
       ELSE at' = "listening" /\ id' = IF Gen1 THEN learned_device_id ELSE id
  /\ unheard' = (unheard \/ \E i \in 1 .. Len(inbox) : inbox[i] = "assign")
  /\ UNCHANGED <<args, step, reads, linkVars, engineVars, inbox, timer, boundVars, saved>>

\* The listen window of the command passes; the client disconnects, pair prints what it
\* saved.  Tasks and frames still around are dropped.
Finish ==
  /\ at = "listening"
  /\ at' = "done"
  /\ saved' = IF Pairing THEN [key |-> "new", id |-> id] ELSE NotPrinted
  /\ UNCHANGED <<args, step, reads, id, linkVars, engineVars, inbox, timer, boundVars, unheard>>

Next ==
  \/ \E arrives, fails \in BOOLEAN : WriteNetworkChar(arrives, fails)
  \/ \E fails \in BOOLEAN : WriteAesChar(fails)
  \/ \E got \in {"valid", "invalid", "error"} : ReadAesChar(got)
  \/ SendStep \/ SkipPoll \/ SendAck \/ NextStep \/ TimesOut
  \/ \E w \in flying : WriteDone(w) \/ WriteFails(w)
  \/ IngestNotify \/ LoseNotify \/ TimerNotifies
  \/ ScriptOver \/ Finish

Spec == Init /\ [][Next]_vars

-------------------------------------------------------------------------------
(* Properties                                                               *)

\* Without a lock too, the script and the ACK tasks never encrypt two frames at one
\* counter, whichever writes fail or overtake each other.
CountersUnique == \A i, j \in 1 .. Len(built) : built[i] = built[j] => i = j

\* pair prints the key the timer has; for gen1 it heard from the timer and prints the id
\* the timer goes by, unless a notify that tells it was lost or came after the script.
PairPrintsWhatHolds ==
  saved # NotPrinted =>
    /\ timer.key = saved.key
    /\ Gen1 => heard /\ (saved.id = timer.id \/ unheard)
===============================================================================
