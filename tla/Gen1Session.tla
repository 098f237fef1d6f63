------------------------------ MODULE Gen1Session ------------------------------
(***************************************************************************)
(* One gen1 BLE session: pybhyve/gen1_session.py driven by a script of     *)
(* Gen1Ops inside gen1_runtime.py, with the timer at the other end.  The   *)
(* transport is what BleTransport shows it to be: a write reaches the      *)
(* timer or fails, notifications arrive in order or not at all.            *)
(***************************************************************************)
EXTENDS Gen1Ops, FiniteSets

CONSTANTS Ops,          \* the operations a session may be opened for
          TimerCmds,    \* command bytes the timer uses for its own notifies
          MaxAsync,     \* bound: notifies the timer emits on its own
          MaxFaults     \* bound: commands, notifies and ACKs lost, and answers late

ASSUME OpsAssumption == Ops \subseteq Operations
ASSUME TimerCmdsAssumption == TimerCmds \subseteq AsyncCmds
ASSUME BoundsAssumption == MaxAsync \in Nat /\ MaxFaults \in Nat

Proposed == 1                    \* the mesh id the session was opened with
OtherId == 2                     \* an id the timer may assign instead
None == 0

VARIABLES
  op,        \* the operation of the session
  at,        \* the step of Script being run
  phase,     \* where in the step: see Phases
  cmd,       \* the command byte of the step
  reached,   \* whether the timer has received the command being written
  pending,   \* _pending_req, None when no future is pending
  fut,       \* _pending_fut: the step whose answer completed it, or None
  next_cmd,  \* _next_cmd
  cur,       \* the last allocated command byte
  magic,     \* mesh id in the frames of the script
  assigned,  \* _assigned_device_id, or None
  status,    \* _status: the watering record, and the valve change it reports
  lastAt,    \* _last_notify_at: never, fresh, or quiet (at least quiet_sec ago)
  settled,   \* quiet_sec since the commit: no, heard (a notify came), yes
  acks,      \* ACK tasks in the order of _ack_lock: the notifies they answer
  valve,     \* the timer: is it watering
  ver,       \* the timer: number of times the valve changed
  given,     \* the timer: the mesh id it registers
  inbox,     \* notifies on their way
  nasync,    \* notifies the timer emitted on its own
  losses,    \* losses so far
  lates,     \* late answers so far
  timeouts,  \* history: steps whose wait timed out
  served,    \* history: <<step, step whose answer it was taken for>>
  used,      \* history: command bytes allocated, in order
  heard,     \* history: command bytes of the async notifies received
  acked,     \* history: the notifies acknowledged, in order
  hasty,     \* history: a drain ended, well before max_sec, on an unsettled commit
  outcome    \* of the session: running, ok, error

stepVars == <<at, phase, cmd, reached>>
futVars == <<pending, fut>>
waitVars == <<timeouts, served>>
cmdVars == <<next_cmd, cur, used>>
fixedVars == <<op, given>>
heardVars == <<assigned, status, heard>>
quietVars == <<lastAt, settled, hasty>>
ackVars == <<acks, acked>>
timerVars == <<valve, ver, fixedVars, inbox, nasync>>
faultVars == <<losses, lates>>
vars == <<stepVars, futVars, waitVars, cmdVars, magic, heardVars, quietVars, ackVars,
          timerVars, faultVars, outcome>>

Script == ScriptOf(op)
Steps == 1 .. Len(Script)
Volunteered == 100   \* what a notify of the timer's own answers: no step of any script

\* ready: between steps; writing: in the GATT write; waiting: for the answer;
\* draining: after the commit; confirming: the pause after a start; listening:
\* the listen window; closed: async_disconnect is done.
Phases == {"ready", "writing", "waiting", "draining", "confirming", "listening", "closed"}

Notify == [cmd : 0 .. 255, re : 1 .. Volunteered, rec : {"none", "watering", "idle"},
           ver : Nat, id : {None, Proposed, OtherId}, sn : Nat]

TypeOK ==
  /\ op \in Ops
  /\ at \in 1 .. Len(Script) + 1
  /\ phase \in Phases
  /\ cmd \in 0 .. 255
  /\ reached \in BOOLEAN
  /\ pending \in 0 .. 255
  /\ fut \in 0 .. Volunteered
  /\ next_cmd \in FirstCmd .. 256
  /\ cur \in 0 .. 255
  /\ magic \in {Proposed, OtherId}
  /\ assigned \in {None, Proposed, OtherId}
  /\ status \in [kind : {"none", "watering", "idle"}, ver : Nat]
  /\ lastAt \in {"never", "fresh", "quiet"}
  /\ settled \in {"no", "heard", "yes"}
  /\ acks \in Seq(Nat)
  /\ valve \in {"watering", "idle"}
  /\ ver \in Nat
  /\ given \in {Proposed, OtherId}
  /\ inbox \in Seq(Notify)
  /\ nasync \in 0 .. MaxAsync
  /\ losses \in Nat /\ lates \in Nat /\ losses + lates <= MaxFaults
  /\ timeouts \subseteq Steps
  /\ served \subseteq Steps \X (1 .. Volunteered)
  /\ used \in Seq(0 .. 255)
  /\ heard \subseteq AsyncCmds
  /\ acked \in Seq(Nat)
  /\ hasty \in BOOLEAN
  /\ outcome \in {"running", "ok", "error"}
  /\ outcome = "running" <=> phase # "closed"

Init ==
  /\ op \in Ops
  /\ at = 1 /\ phase = "ready" /\ cmd = 0 /\ reached = FALSE
  /\ pending = None /\ fut = None
  /\ timeouts = {} /\ served = {}
  /\ next_cmd = FirstCmd /\ cur = 0 /\ used = <<>>
  /\ magic = Proposed
  /\ assigned = None /\ status = [kind |-> "none", ver |-> 0] /\ heard = {}
  /\ lastAt = "never" /\ settled = "yes" /\ hasty = FALSE
  /\ acks = <<>> /\ acked = <<>>
  /\ valve \in {"watering", "idle"} /\ ver = 0
  /\ given \in IF op = "onboard" THEN {Proposed, OtherId} ELSE {Proposed}
  /\ inbox = <<>> /\ nasync = 0
  /\ losses = 0 /\ lates = 0
  /\ outcome = "running"

-------------------------------------------------------------------------------
(* The script                                                               *)

Step == Script[at]

\* One more frame may be lost or late.
FaultLeft == losses + lates < MaxFaults

\* Commands whose answer is awaited; the commit and the start are send_only.
Awaited == Step.what \notin {"commit", "start"}

\* The poll after a status attach or a start is made only for an empty snapshot.
Skipped == Step.what = "silent_poll" /\ status.kind # "none"

\* run_gen1_onboard runs its status session under the id the timer assigned.
ScriptMagic ==
  IF op = "onboard" /\ at = Len(gen1_onboard_writes) + 1 /\ assigned # None
    THEN assigned ELSE magic

\* alloc_cmd; without a byte left it raises (NeverExhausted: it never does).
alloc_cmd ==
  /\ next_cmd <= 255
  /\ next_cmd' = next_cmd + 1
  /\ cur' = next_cmd
  /\ used' = Append(used, next_cmd)

\* The next step starts: the future of its answer is set up, then the write begins.
BeginStep ==
  /\ phase = "ready"
  /\ at \in Steps
  /\ ~Skipped
  /\ IF Step.num = "alloc" THEN alloc_cmd ELSE UNCHANGED cmdVars
  /\ cmd' = IF Step.num = "fixed" THEN Step.cmd ELSE cur'
  /\ pending' = IF Awaited THEN cmd' ELSE pending
  /\ fut' = IF Awaited THEN None ELSE fut
  /\ magic' = ScriptMagic
  /\ phase' = "writing"
  /\ reached' = FALSE
  /\ UNCHANGED <<at, waitVars, heardVars, quietVars, ackVars, timerVars, faultVars, outcome>>

NextStep == at' = at + 1 /\ phase' = "ready" /\ UNCHANGED <<cmd, reached>>

SkipPoll ==
  /\ phase = "ready"
  /\ at \in Steps
  /\ Skipped
  /\ NextStep
  /\ UNCHANGED <<futVars, waitVars, cmdVars, magic, heardVars, quietVars, ackVars,
                 timerVars, faultVars, outcome>>

\* Mutant: the future is created only when the write has returned.
WriteReturnsFreshFuture ==
  /\ phase = "writing"
  /\ reached
  /\ phase' = CASE Step.what = "commit" -> "draining"
                [] Step.what = "start"  -> "confirming"
                [] OTHER                -> "waiting"
  /\ settled' = IF Step.what = "commit" THEN "no" ELSE settled
  /\ fut' = None
  /\ UNCHANGED <<at, cmd, reached, pending, waitVars, cmdVars, magic, heardVars, lastAt,
                 hasty, ackVars, timerVars, faultVars, outcome>>

\* The write returns: the answer is awaited, or the step ends in a pause of its own.
WriteReturns ==
  /\ phase = "writing"
  /\ reached
  /\ phase' = CASE Step.what = "commit" -> "draining"
                [] Step.what = "start"  -> "confirming"
                [] OTHER                -> "waiting"
  /\ settled' = IF Step.what = "commit" THEN "no" ELSE settled
  /\ UNCHANGED <<at, cmd, reached, futVars, waitVars, cmdVars, magic, heardVars, lastAt,
                 hasty, ackVars, timerVars, faultVars, outcome>>

\* Mutant: an error leaves the transport connected.
WriteFailsLeavesLink ==
  /\ phase = "writing"
  /\ FaultLeft
  /\ losses' = losses + 1
  /\ outcome' = "error"
  /\ UNCHANGED <<stepVars, futVars, waitVars, cmdVars, magic, heardVars, quietVars,
                 ackVars, timerVars, lates>>

\* The write raises, whether or not the timer got the command: the session ends with
\* an error; _pending_req stays set, its future is never awaited.
WriteFails ==
  /\ phase = "writing"
  /\ FaultLeft
  /\ losses' = losses + 1
  /\ phase' = "closed"
  /\ outcome' = "error"
  /\ UNCHANGED <<at, cmd, reached, futVars, waitVars, cmdVars, magic, heardVars, quietVars,
                 ackVars, timerVars, lates>>

\* The wait for the answer ends with the decoded answer; step_delay_s follows.
Answered ==
  /\ phase = "waiting"
  /\ fut # None
  /\ served' = served \cup {<<at, fut>>}
  /\ pending' = None /\ fut' = None
  /\ NextStep
  /\ UNCHANGED <<timeouts, cmdVars, magic, heardVars, quietVars, ackVars, timerVars,
                 faultVars, outcome>>

AnswerInFlight == \E i \in 1 .. Len(inbox) : inbox[i].re = at

\* Mutant: the answer is awaited without a timeout.
TimesOutNever == FALSE /\ UNCHANGED vars

\* ... or response_timeout_s is over; when the answer is on its way it will be late.
TimesOut ==
  /\ phase = "waiting"
  /\ fut = None
  /\ AnswerInFlight => FaultLeft
  /\ lates' = IF AnswerInFlight THEN lates + 1 ELSE lates
  /\ timeouts' = timeouts \cup {at}
  /\ pending' = None /\ fut' = None
  /\ NextStep
  /\ UNCHANGED <<served, cmdVars, magic, heardVars, quietVars, ackVars, timerVars, losses,
                 outcome>>

\* drain_commit_async returns because the last notify is quiet_sec old ...
DrainQuiet ==
  /\ phase = "draining"
  /\ lastAt = "quiet"
  /\ hasty' = (hasty \/ settled # "yes")
  /\ NextStep
  /\ UNCHANGED <<futVars, waitVars, cmdVars, magic, heardVars, lastAt, settled, ackVars,
                 timerVars, faultVars, outcome>>

\* ... or because max_sec is over; a start ends after confirm_delay_s.
PauseOver ==
  /\ phase \in {"draining", "confirming"}
  /\ NextStep
  /\ UNCHANGED <<futVars, waitVars, cmdVars, magic, heardVars, quietVars, ackVars,
                 timerVars, faultVars, outcome>>

Listen ==
  /\ phase = "ready"
  /\ at \notin Steps
  /\ phase' = "listening"
  /\ UNCHANGED <<at, cmd, reached, futVars, waitVars, cmdVars, magic, heardVars, quietVars,
                 ackVars, timerVars, faultVars, outcome>>

\* The snapshot is returned and the transport is disconnected.
EndSession ==
  /\ phase = "listening"
  /\ phase' = "closed"
  /\ outcome' = "ok"
  /\ UNCHANGED <<at, cmd, reached, futVars, waitVars, cmdVars, magic, heardVars, quietVars,
                 ackVars, timerVars, faultVars>>

-------------------------------------------------------------------------------
(* Notifies and their ACKs                                                  *)

\* merge_gen1_status_record, for the watering records.
merge_record(n) == IF n.rec = "none" THEN status ELSE [kind |-> n.rec, ver |-> n.ver]

\* Mutant: only the onboard register's answer is read for the assigned id.
assigned_id_onboard(n) == IF request_cmd(n.cmd) = 132 /\ n.id # None THEN n.id ELSE assigned

\* assigned_device_id_from_register_response
assigned_id(n) ==
  IF request_cmd(n.cmd) \in MeshRegisterCmds /\ n.id # None THEN n.id ELSE assigned

IsAsync(n) == n.cmd \in AsyncCmds

\* Mutant: the counter moves onto the byte of a notify, not past it.
bumpedOnto(n) == IF ~HasResponseBit(n.cmd) /\ n.cmd > next_cmd THEN n.cmd ELSE next_cmd

\* Mutant: it is kept ahead of the byte of the ACK.
bumpedPastAck(n) ==
  IF WithResponseBit(n.cmd) + 1 > next_cmd THEN WithResponseBit(n.cmd) + 1 ELSE next_cmd

\* The command counter stays ahead of the bytes the timer uses.
bumped(n) == IF ~HasResponseBit(n.cmd) /\ n.cmd + 1 > next_cmd THEN n.cmd + 1 ELSE next_cmd

\* Mutant: any notify completes the wait.
CompletesAny(n) == pending # None /\ fut = None

Completes(n) == pending # None /\ fut = None /\ request_cmd(n.cmd) = pending

\* on_notify_plaintext, whole: time stamp, assigned id, status record, command
\* counter and ACK task of an async notify, and the pending future.
OnNotify ==
  /\ phase # "closed"
  /\ inbox # <<>>
  /\ LET n == Head(inbox)
     IN  /\ status' = merge_record(n)
         /\ assigned' = assigned_id(n)
         /\ heard' = IF IsAsync(n) THEN heard \cup {n.cmd} ELSE heard
         /\ next_cmd' = IF IsAsync(n) THEN bumped(n) ELSE next_cmd
         /\ acks' = IF IsAsync(n) THEN Append(acks, n.sn) ELSE acks
         /\ fut' = IF Completes(n) THEN n.re ELSE fut
  /\ inbox' = Tail(inbox)
  /\ lastAt' = "fresh"
  /\ settled' = IF settled = "no" THEN "heard" ELSE settled
  /\ UNCHANGED <<stepVars, pending, waitVars, cur, used, magic, hasty, acked, valve, ver,
                 fixedVars, nasync, faultVars, outcome>>

\* Mutant: ACK tasks send without _ack_lock.
AckSentUnlocked ==
  /\ phase # "closed"
  /\ \E i \in 1 .. Len(acks) :
       /\ acked' = Append(acked, acks[i])
       /\ acks' = SubSeq(acks, 1, i - 1) \o SubSeq(acks, i + 1, Len(acks))
  /\ UNCHANGED <<stepVars, futVars, waitVars, cmdVars, magic, heardVars, quietVars,
                 timerVars, faultVars, outcome>>

\* The oldest ACK task holds _ack_lock: its write goes out, or raises (always so once
\* the transport is disconnected), which ends the task and frees the lock.
AckSent ==
  /\ phase # "closed"
  /\ acks # <<>>
  /\ acked' = Append(acked, Head(acks))
  /\ acks' = Tail(acks)
  /\ UNCHANGED <<stepVars, futVars, waitVars, cmdVars, magic, heardVars, quietVars,
                 timerVars, faultVars, outcome>>

\* Mutant: an ACK waits for the link to come back.
AckFailsNot ==
  /\ acks # <<>>
  /\ phase # "closed" /\ FaultLeft
  /\ losses' = losses + 1
  /\ acks' = Tail(acks)
  /\ UNCHANGED <<stepVars, futVars, waitVars, cmdVars, magic, heardVars, quietVars, acked,
                 timerVars, lates, outcome>>

AckFails ==
  /\ acks # <<>>
  /\ phase = "closed" \/ FaultLeft
  /\ losses' = IF phase = "closed" THEN losses ELSE losses + 1
  /\ acks' = Tail(acks)
  /\ UNCHANGED <<stepVars, futVars, waitVars, cmdVars, magic, heardVars, quietVars, acked,
                 timerVars, lates, outcome>>

-------------------------------------------------------------------------------
(* The timer, the link and time                                             *)

\* What a command does to the valve.
ValveAfter ==
  CASE Step.what = "start"            -> "watering"
    [] Step.what \in {"stop", "clear"} -> "idle"
    [] OTHER                          -> valve

Answer(v, c) ==
  [cmd |-> WithResponseBit(cmd), re |-> at, sn |-> 0, ver |-> c,
   rec |-> IF Step.what \in {"poll", "silent_poll"} THEN v ELSE "none",
   id |-> IF Step.what = "register" THEN given ELSE None]

\* The session speaks under the prefix of network_char, which is the id it was opened with.
Prefixed == magic = Proposed

\* The command reaches the timer, which obeys and answers: "A prefix/magic mismatch makes
\* the timer drop every command and never NOTIFY."
TimerObeys ==
  /\ phase = "writing"
  /\ ~reached
  /\ Prefixed
  /\ reached' = TRUE
  /\ valve' = ValveAfter
  /\ ver' = IF Step.what = "start" \/ valve' # valve THEN ver + 1 ELSE ver
  /\ inbox' = Append(inbox, Answer(valve', ver'))
  /\ UNCHANGED <<at, phase, cmd, futVars, waitVars, cmdVars, magic, heardVars, quietVars,
                 ackVars, fixedVars, nasync, faultVars, outcome>>

\* The timer drops the command: a loss, or the lot of all that is said under another id.
TimerIgnores ==
  /\ phase = "writing"
  /\ ~reached
  /\ Prefixed => FaultLeft
  /\ losses' = IF Prefixed THEN losses + 1 ELSE losses
  /\ reached' = TRUE
  /\ UNCHANGED <<at, phase, cmd, futVars, waitVars, cmdVars, magic, heardVars, quietVars,
                 ackVars, timerVars, lates, outcome>>

\* The timer notifies on its own, with or without a watering record, whatever id the
\* session speaks under.
TimerNotifies(c) ==
  /\ phase # "closed"
  /\ nasync < MaxAsync
  /\ nasync' = nasync + 1
  /\ \E rec \in {"none", valve} :
       inbox' = Append(inbox, [cmd |-> c, re |-> Volunteered, rec |-> rec, ver |-> ver,
                               id |-> None, sn |-> nasync'])
  /\ UNCHANGED <<stepVars, futVars, waitVars, cmdVars, magic, heardVars, quietVars, ackVars,
                 valve, ver, fixedVars, faultVars, outcome>>

LoseNotify ==
  /\ phase # "closed"
  /\ inbox # <<>>
  /\ FaultLeft
  /\ losses' = losses + 1
  /\ inbox' = Tail(inbox)
  /\ UNCHANGED <<stepVars, futVars, waitVars, cmdVars, magic, heardVars, quietVars, ackVars,
                 valve, ver, fixedVars, nasync, lates, outcome>>

\* quiet_sec has passed since the last notify; only drain_commit_async looks at it ...
NotifyAges ==
  /\ phase = "draining"
  /\ lastAt = "fresh"
  /\ lastAt' = "quiet"
  /\ settled' = IF settled = "heard" THEN "yes" ELSE settled
  /\ UNCHANGED <<stepVars, futVars, waitVars, cmdVars, magic, heardVars, hasty, ackVars,
                 timerVars, faultVars, outcome>>

\* ... or since the commit, without a notify.
CommitAges ==
  /\ phase = "draining"
  /\ settled = "no"
  /\ lastAt # "fresh"
  /\ settled' = "yes"
  /\ UNCHANGED <<stepVars, futVars, waitVars, cmdVars, magic, heardVars, lastAt, hasty,
                 ackVars, timerVars, faultVars, outcome>>

ScriptNext == BeginStep \/ SkipPoll \/ WriteReturns \/ WriteFails \/ Answered \/ TimesOut
              \/ DrainQuiet \/ PauseOver \/ Listen \/ EndSession

Next ==
  \/ ScriptNext
  \/ OnNotify \/ AckSent \/ AckFails
  \/ TimerObeys \/ TimerIgnores \/ (\E c \in TimerCmds : TimerNotifies(c))
  \/ LoseNotify \/ NotifyAges \/ CommitAges

Spec == Init /\ [][Next]_vars

\* The event loop runs ready coroutines and timers; a GATT write ends; a notification
\* on the air arrives or is lost.
Fairness ==
  /\ WF_vars(ScriptNext)
  /\ WF_vars(AckSent \/ AckFails)
  /\ WF_vars(TimerObeys \/ TimerIgnores)
  /\ WF_vars(OnNotify \/ LoseNotify)
  /\ WF_vars(NotifyAges \/ CommitAges)

FairSpec == Spec /\ Fairness

-------------------------------------------------------------------------------
(* Properties                                                               *)

\* Steps that send one byte: the same fixed one, or one allocated once and sent again.
SharesByte(i, k) ==
  \/ /\ Script[i].num = "fixed" /\ Script[k].num = "fixed"
     /\ Script[i].cmd = Script[k].cmd
  \/ \A m \in i + 1 .. k : Script[m].num = "same"

\* A wait of send_and_wait ends with the answer to its own command.  An older answer
\* may be taken for it when both commands have one byte, but only while the session runs
\* behind: an earlier step gave up waiting, and none since got its own answer.
AnsweredByOwn ==
  \A s \in served :
    \/ s[2] = s[1]
    \/ /\ s[2] < s[1]
       /\ SharesByte(s[2], s[1])
       /\ \E j \in timeouts : j <= s[2] /\ \A k \in j .. s[1] - 1 : <<k, k>> \notin served

\* decode_gen1_plaintext pairs every answer with its request ("request 0x81 ->
\* response 0xc1"): no more steps give up waiting than frames were lost or late, even
\* if an answer overtakes the return of its write -- as long as no byte was allocated
\* that has the response bit itself (0xC0 and up, reached after a notify 0xBF), and the
\* session speaks under the prefix the timer listens to.
NoSpuriousTimeout ==
  Prefixed /\ (\A i \in 1 .. Len(used) : ~HasResponseBit(used[i]))
    => Cardinality(timeouts) <= losses + lates

\* alloc_cmd hands out bytes in increasing order, each above every byte the timer has
\* used for a notify this session has received.
AllocFresh ==
  [][used' # used =>
       /\ \A i \in 1 .. Len(used) : used[i] < used'[Len(used')]
       /\ \A c \in heard : c < used'[Len(used')]]_vars

\* alloc_cmd never raises "gen1 cmd byte exhausted", whatever bytes the timer uses.
NeverExhausted == next_cmd <= 255

\* ACK tasks send one at a time in the order the notifies came, each at most once.
AcksInOrder == \A i, j \in 1 .. Len(acked) : i < j => acked[i] < acked[j]

\* What the coordinator relies on, whatever is lost, late or volunteered: "Status session
\* must not send the 0x85 clear (cancels an active run)" and nothing else it sends
\* touches the valve, only a start opens it, and the snapshot never goes back to an
\* older record than it has shown already.
Session == INSTANCE TimerSession WITH seen <- status
ImplementsSession == Session!Spec

\* A stop session that returns has stopped the run: the sequence survives the loss of
\* any two of its commands.
StopEndsRun == op = "stop" /\ outcome = "ok" /\ losses <= 2 => valve = "idle"

\* The snapshot a stop returns is of the stopped timer, never of the run before it,
\* unless a frame was lost or late.
StopIsConfirmed ==
  op = "stop" /\ outcome = "ok" /\ losses + lates = 0 =>
    status = [kind |-> "idle", ver |-> ver]

\* The clear of a start's attach cannot cancel the run the start began.
StartEndsWatering ==
  op = "start" /\ outcome = "ok" /\ losses = 0 => valve = "watering"

\* "Pause after a manual-start write before checking whether watering status arrived":
\* the snapshot a start returns is of the timer after the start.
StartIsConfirmed ==
  op = "start" /\ outcome = "ok" /\ losses + lates = 0 => status.ver = ver

\* Onboarding returns the id the timer registered: one of the two registers suffices,
\* as long as its answer is neither lost nor later than the session.  But when that is not
\* the proposed id, the status session of run_gen1_onboard goes over to it while the prefix
\* in network_char stays the proposed one, and the timer drops all it says: with nothing
\* lost or late, every awaited command of the status session then times out, all but the
\* commit at its end, and no command times out in any other onboarding.
OnboardLearnsId ==
  op = "onboard" /\ outcome = "ok" =>
    /\ assigned = given \/ losses + lates >= 2
    /\ losses + lates = 0 =>
         timeouts = IF given = Proposed THEN {}
                    ELSE Len(gen1_onboard_writes) + 1 .. Len(Script) - 1

\* "After commit (0x86): wait for async NOTIFYs to go quiet."
DrainWaits == ~hasty

\* Whatever is lost, every wait of a session is bounded: it ends.
SessionEnds == <>(phase = "closed")

\* No ACK task stays behind, not even when the session ends under it.
AcksSettle == acks # <<>> ~> acks = <<>>

===============================================================================
