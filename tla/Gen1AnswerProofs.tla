---------------------------- MODULE Gen1AnswerProofs ----------------------------
(***************************************************************************)
(* Proofs about Gen1Session, for every operation, any set of bytes the     *)
(* timer uses for its own notifies and any number of losses and late       *)
(* answers: which answer a step takes for its own, how many steps give up  *)
(* waiting, and what a session that returns has done.                      *)
(***************************************************************************)
EXTENDS Gen1SessionProofs, FiniteSetTheorems

Faults == losses + lates
AwaitedAt(i) == Script[i].what \notin {"commit", "start"}

\* The timer has received the command of step i, or has dropped it.
Passed(i) == i < at \/ (i = at /\ phase # "ready" /\ reached)
Begun(i) == i < at \/ (i = at /\ phase # "ready")

\* Where the session stands in its script.
PhaseInv ==
  /\ phase = "listening" \/ outcome = "ok" => at \notin Steps
  /\ phase \in {"waiting", "draining", "confirming"} => reached
  /\ phase = "waiting" => Awaited
  /\ phase \in {"draining", "confirming"} => ~Awaited

\* A future is pending exactly while an awaited command is out.
PendingInv ==
  /\ pending # None => /\ at \in Steps /\ phase \in {"writing", "waiting", "closed"}
                       /\ Awaited /\ pending = cmd
  /\ phase \in {"writing", "waiting"} /\ Awaited => pending = cmd /\ cmd # 0
  /\ fut # None => pending # None

\* The byte of the step, and the last one allocated.
CmdInv ==
  /\ used \in Seq(FirstCmd .. 255)
  /\ cur = IF used = <<>> THEN 0 ELSE used[Len(used)]
  /\ \A k \in Steps : Begun(k) /\ Script[k].num # "fixed" /\ Script[k].what # "silent_poll"
                        => used # <<>>
  /\ at \in Steps /\ phase # "ready" =>
       cmd = (IF Step.num = "fixed" THEN Step.cmd ELSE cur)
         /\ (Step.num # "fixed" => used # <<>>)

\* An answer carries the byte of its step, with the response bit: an allocated byte is the
\* current one only as long as all later steps repeat it.
Bytes(n) ==
  /\ Script[n.re].num = "fixed" => n.cmd = WithResponseBit(Script[n.re].cmd)
  /\ Script[n.re].num # "fixed" =>
       \E c \in FirstCmd .. cur :
         /\ n.cmd = WithResponseBit(c)
         /\ c = cur /\ at \in Steps =>
              \A m \in n.re + 1 .. at : Begun(m) => Script[m].num = "same"
  /\ n.re = at => n.cmd = WithResponseBit(cmd)

Ours(n) ==
  /\ n.re \in Steps /\ Passed(n.re)
  /\ n.id = IF Script[n.re].what = "register" THEN given ELSE None
  /\ Bytes(n)

Theirs(n) == n.re = Volunteered /\ n.cmd \in TimerCmds /\ n.id = None

\* The notifies on their way: each is an answer or volunteered, the answers are in order.
Flying == {inbox[i] : i \in 1 .. Len(inbox)}

InboxInv ==
  /\ \A n \in Flying : Ours(n) \/ Theirs(n)
  /\ \A i, j \in 1 .. Len(inbox) :
       i < j /\ inbox[j].re # Volunteered => inbox[i].re = Volunteered \/ inbox[i].re < inbox[j].re

\* Step i was left behind: from some timeout not after it on, no step got its own answer.
Behind(i) == \E j \in timeouts : j <= i /\ \A k \in j .. at - 1 : <<k, k>> \notin served

\* Answers that come after their step gave up.
LeftInv == \A n \in Flying : n.re < at /\ AwaitedAt(n.re) => Behind(n.re)

\* What completed the pending future.
FutInv ==
  fut # None =>
    /\ fut \in Steps /\ Passed(fut)
    /\ \A n \in Flying : n.re > fut
    /\ fut # at => SharesByte(fut, at) /\ Behind(fut)

HistInv ==
  /\ \A s \in served : s[1] < at
  /\ AnsweredByOwn

\* Only the status session of an onboarding speaks under another id.
MagicInv == ~Prefixed => op = "onboard" /\ Begun(Len(gen1_onboard_writes) + 1)

AnswerInv == /\ TypeOK /\ AllocInv /\ ViewInv /\ PhaseInv /\ PendingInv /\ CmdInv
             /\ InboxInv /\ LeftInv /\ FutInv /\ HistInv /\ MagicInv

\* The answer of the step is gone, and a timeout will follow.
Missing ==
  phase \in {"writing", "waiting"} /\ reached /\ Awaited /\ fut = None /\ ~AnswerInFlight

NoBit == \A i \in 1 .. Len(used) : ~HasResponseBit(used[i])

CountsInv ==
  Prefixed /\ NoBit => Cardinality(timeouts) + (IF Missing THEN 1 ELSE 0) <= Faults

\* With nothing lost or late, no awaited answer outlives its step.
PunctualInv ==
  Faults = 0 =>
    /\ \A n \in Flying : n.re # Volunteered /\ AwaitedAt(n.re) => n.re = at
    /\ fut \in {None, at}

InFlight(i) == \E n \in Flying : n.re = i

\* Each of the three stop commands that did not reach the timer cost a loss.
StopInv ==
  op = "stop" =>
    \/ valve = "idle"
    \/ /\ Passed(9) => losses >= 1
       /\ Passed(10) => losses >= 2
       /\ Passed(11) => losses >= 3

\* The answer of the final poll tells of the stopped timer.
ConfirmInv ==
  op = "stop" /\ Faults = 0 /\ Passed(12) =>
    status = [kind |-> "idle", ver |-> ver]
      \/ \E n \in Flying : n.re = 12 /\ n.ver = ver /\ n.rec = "idle"

StartInv == op = "start" /\ losses = 0 /\ Passed(9) => valve = "watering"

\* The id of each register's answer is known once that answer is in.
LearnInv ==
  op = "onboard" =>
    /\ assigned \in {None, given}
    /\ Faults = 0 /\ Passed(4) => assigned = given \/ InFlight(4)
    /\ Faults <= 1 /\ Passed(11) => assigned = given \/ (at = 11 /\ InFlight(11))
    /\ Faults = 0 /\ Begun(7) => magic = given
    /\ ~Prefixed => magic = given /\ assigned = given

\* Nothing said under another id is ever answered; what is said under the proposed one is,
\* with nothing lost or late.
SilentInv ==
  op = "onboard" =>
    /\ used = <<>>
    /\ \A k \in timeouts : k < at /\ AwaitedAt(k)
    /\ ~Prefixed => fut < 7 /\ \A n \in Flying : n.re # Volunteered => n.re < 7
    /\ Faults = 0 =>
         \A k \in Steps : k < at /\ AwaitedAt(k) => (k \in timeouts <=> k >= 7 /\ given # Proposed)

\* ACKs, ACK tasks and notifies on their way, oldest first.
Rising(s) == \A i, j \in 1 .. Len(s) : i < j => s[i] < s[j]
Below(s, e) == \A i \in 1 .. Len(s) : s[i] < e

AckInv ==
  /\ Rising(acked) /\ Rising(acks)
  /\ \A j \in 1 .. Len(acks) : Below(acked, acks[j])
  /\ Below(acked, nasync + 1) /\ Below(acks, nasync + 1)
  /\ \A n \in Flying :
       n.re = Volunteered => Below(acked, n.sn) /\ Below(acks, n.sn) /\ n.sn < nasync + 1
  /\ \A i, j \in 1 .. Len(inbox) :
       i < j /\ inbox[i].re = Volunteered /\ inbox[j].re = Volunteered => inbox[i].sn < inbox[j].sn

-------------------------------------------------------------------------------

\* The script of the session.
LEMMA TheScript ==
  ASSUME op \in Ops
  PROVE  /\ Len(Script) \in Nat /\ Len(Script) <= 20 /\ Steps \subseteq 1 .. 20
         /\ \A k \in Steps : /\ StepShape(Script, k)
                             /\ Script[k].num = "fixed" => Script[k].cmd \in 1 .. 134
                             /\ Script[k].what \in Allowed(op)
<1>1. op \in Operations  BY OpsAssumption
<1>2. Script \in Seq(StepOf(Allowed(op))) /\ Len(Script) <= 20  BY <1>1, ScriptType DEF Script
<1>3. \A k \in Steps : StepShape(Script, k)  BY <1>1, ScriptShape DEF Script, Steps
<1>4. \A k \in Steps : Script[k] \in StepOf(Allowed(op))  BY <1>2 DEF Steps
<1>5. Len(Script) \in Nat /\ Steps \subseteq 1 .. 20  BY <1>2, SMTT(30) DEF Steps
<1>6. \A k \in Steps : Script[k].num = "fixed" => Script[k].cmd \in 1 .. 134
  BY <1>3 DEF StepShape
<1>7. \A k \in Steps : Script[k].what \in Allowed(op)  BY <1>4 DEF StepOf
<1> QED  BY <1>2, <1>3, <1>5, <1>6, <1>7

\* The operation and the script are those of the beginning.
LEMMA SameScript ==
  ASSUME [Next]_vars
  PROVE  op' = op /\ given' = given /\ Script' = Script /\ Steps' = Steps
<1>1. op' = op /\ given' = given
  BY DEF Next, ScriptNext, BeginStep, SkipPoll, WriteReturns, WriteFails, Answered, TimesOut,
         DrainQuiet, PauseOver, Listen, EndSession, OnNotify, AckSent, AckFails, TimerObeys,
         TimerIgnores, TimerNotifies, LoseNotify, NotifyAges, CommitAges, vars, timerVars,
         fixedVars
<1> QED  BY <1>1 DEF Script, Steps

-------------------------------------------------------------------------------
(* Types                                                                    *)

\* The variables of the script, of the counter and the waits, and of what is heard.
TypeStep ==
  /\ op \in Ops /\ at \in 1 .. Len(Script) + 1 /\ phase \in Phases
  /\ cmd \in 0 .. 255 /\ pending \in 0 .. 255 /\ fut \in 0 .. Volunteered
  /\ next_cmd \in FirstCmd .. 256 /\ cur \in 0 .. 255 /\ used \in Seq(0 .. 255)
  /\ timeouts \subseteq Steps /\ served \subseteq Steps \X (1 .. Volunteered)

TypeHeard ==
  /\ magic \in {Proposed, OtherId} /\ assigned \in {None, Proposed, OtherId}
  /\ status \in [kind : {"none", "watering", "idle"}, ver : Nat]
  /\ lastAt \in {"never", "fresh", "quiet"} /\ settled \in {"no", "heard", "yes"}
  /\ heard \subseteq AsyncCmds
  /\ acks \in Seq(Nat) /\ acked \in Seq(Nat)
  /\ outcome \in {"running", "ok", "error"}

TypeTimer ==
  /\ valve \in {"watering", "idle"} /\ ver \in Nat /\ given \in {Proposed, OtherId}
  /\ inbox \in Seq(Notify)
  /\ nasync \in 0 .. MaxAsync
  /\ losses \in Nat /\ lates \in Nat /\ losses + lates <= MaxFaults

TypeBool == reached \in BOOLEAN /\ hasty \in BOOLEAN

LEMMA TypeParts ==
  TypeOK <=> /\ TypeStep /\ TypeHeard /\ TypeTimer /\ TypeBool
             /\ outcome = "running" <=> phase # "closed"
  BY DEF TypeOK, TypeStep, TypeHeard, TypeTimer, TypeBool

LEMMA TypeStepKeeps ==
  ASSUME TypeOK, AllocInv, [Next]_vars
  PROVE  TypeStep'
<1>0. /\ TypeStep
      /\ op' = op /\ Script' = Script /\ Steps' = Steps
      /\ Len(Script) \in Nat /\ Len(Script) <= 20
      /\ at \in Steps /\ Step.num = "fixed" => Step.cmd \in 0 .. 255
  BY TypeParts, SameScript, TheScript DEF AllocInv, PlaceInv, Step
<1>a. CASE UNCHANGED <<at, phase, cmd, futVars, waitVars, cmdVars>>
  BY <1>0, <1>a DEF TypeStep, futVars, waitVars, cmdVars
<1>b. CASE UNCHANGED <<at, cmd, futVars, waitVars, cmdVars>> /\ phase' \in Phases
  BY <1>0, <1>b DEF TypeStep, futVars, waitVars, cmdVars
<1>1. CASE BeginStep
  <2>1. /\ at' = at /\ phase' = "writing" /\ UNCHANGED waitVars /\ at \in Steps
        /\ cmd' = IF Step.num = "fixed" THEN Step.cmd ELSE cur'
        /\ pending' = (IF Awaited THEN cmd' ELSE pending)
        /\ fut' = (IF Awaited THEN None ELSE fut)
    BY <1>1 DEF BeginStep
  <2>2. next_cmd' \in FirstCmd .. 256 /\ cur' \in 0 .. 255 /\ used' \in Seq(0 .. 255)
    <3>0. next_cmd \in FirstCmd .. 256 /\ cur \in 0 .. 255 /\ used \in Seq(0 .. 255)
      BY <1>0 DEF TypeStep
    <3>1. CASE Step.num = "alloc"
      <4>1. /\ next_cmd <= 255 /\ next_cmd' = next_cmd + 1 /\ cur' = next_cmd
            /\ used' = Append(used, next_cmd)
        BY <1>1, <3>1 DEF BeginStep, alloc_cmd
      <4>2. next_cmd \in 0 .. 255  BY <3>0, <4>1 DEF FirstCmd
      <4> QED  BY <3>0, <4>1, <4>2 DEF FirstCmd
    <3>2. CASE Step.num # "alloc"
      BY <1>1, <3>0, <3>2 DEF BeginStep, cmdVars
    <3> QED  BY <3>1, <3>2
  <2>3. cmd' \in 0 .. 255  BY <1>0, <2>1, <2>2
  <2> QED  BY <1>0, <2>1, <2>2, <2>3 DEF TypeStep, Phases, waitVars, None, Volunteered
<1>2. ASSUME NextStep, at \in Steps, UNCHANGED cmdVars,
             pending' \in {pending, None}, fut' \in {fut, None},
             timeouts' \subseteq timeouts \cup {at},
             served' = served \/ (fut # None /\ served' = served \cup {<<at, fut>>})
      PROVE  TypeStep'
  <2>1. at' \in 1 .. Len(Script) + 1 /\ phase' \in Phases /\ cmd' = cmd
    BY <1>0, <1>2 DEF NextStep, Phases, Steps
  <2>2. pending' \in 0 .. 255 /\ fut' \in 0 .. Volunteered
    BY <1>0, <1>2 DEF TypeStep, None, Volunteered
  <2>3. timeouts' \subseteq Steps  BY <1>0, <1>2 DEF TypeStep
  <2>4. served' \subseteq Steps \X (1 .. Volunteered)
    <3>1. fut # None => fut \in 1 .. Volunteered  BY <1>0 DEF TypeStep, None, Volunteered
    <3> QED  BY <1>0, <1>2, <3>1 DEF TypeStep
  <2> QED  BY <1>0, <1>2, <2>1, <2>2, <2>3, <2>4 DEF TypeStep, cmdVars
<1>3. CASE SkipPoll
  BY <1>2, <1>3 DEF SkipPoll, futVars, waitVars
<1>4. CASE Answered
  BY <1>2, <1>4 DEF Answered, AllocInv, PlaceInv
<1>5. CASE TimesOut
  BY <1>2, <1>5 DEF TimesOut, AllocInv, PlaceInv
<1>6. CASE DrainQuiet \/ PauseOver
  BY <1>2, <1>6 DEF DrainQuiet, PauseOver, AllocInv, PlaceInv, futVars, waitVars
<1>7. CASE WriteReturns
  BY <1>b, <1>7 DEF WriteReturns, Phases
<1>8. CASE WriteFails \/ Listen \/ EndSession
  BY <1>b, <1>8 DEF WriteFails, Listen, EndSession, Phases
<1>9. CASE OnNotify
  <2> DEFINE n == Head(inbox)
  <2>1. /\ inbox # <<>> /\ UNCHANGED <<at, phase, cmd, pending, waitVars, cur, used>>
        /\ next_cmd' = (IF IsAsync(n) THEN bumped(n) ELSE next_cmd)
        /\ fut' = IF Completes(n) THEN n.re ELSE fut
    BY <1>9 DEF OnNotify, stepVars
  <2>2. n \in Notify
    <3>1. inbox \in Seq(Notify)  BY DEF TypeOK
    <3> QED  BY <2>1, <3>1
  <2>3. next_cmd' \in FirstCmd .. 256
    <3>1. next_cmd \in FirstCmd .. 256 /\ next_cmd \in Int  BY <1>0 DEF TypeStep, FirstCmd
    <3>2. IsAsync(n) => next_cmd <= bumped(n) /\ bumped(n) \in Int
                        /\ (bumped(n) <= 192 \/ bumped(n) = next_cmd)
      BY <3>1, BumpedAhead
    <3>3. CASE IsAsync(n)
      <4>1. next_cmd' = bumped(n)  BY <2>1, <3>3
      <4> HIDE DEF n
      <4> QED  BY <3>1, <3>2, <3>3, <4>1 DEF FirstCmd
    <3>4. CASE ~IsAsync(n)
      <4>1. next_cmd' = next_cmd  BY <2>1, <3>4
      <4> QED  BY <3>1, <4>1
    <3> QED  BY <3>3, <3>4
  <2>4. fut' \in 0 .. Volunteered
    <3>1. n.re \in 1 .. Volunteered  BY <2>2 DEF Notify
    <3> HIDE DEF n
    <3> QED  BY <1>0, <2>1, <3>1 DEF TypeStep, Volunteered
  <2> QED  BY <1>0, <2>1, <2>3, <2>4 DEF TypeStep, waitVars
<1>10. CASE AckSent \/ AckFails \/ LoseNotify \/ NotifyAges \/ CommitAges
  BY <1>a, <1>10 DEF AckSent, AckFails, LoseNotify, NotifyAges, CommitAges, stepVars
<1>11. CASE TimerObeys \/ TimerIgnores
  BY <1>a, <1>11 DEF TimerObeys, TimerIgnores
<1>12. CASE \E c \in TimerCmds : TimerNotifies(c)
  BY <1>a, <1>12 DEF TimerNotifies, stepVars
<1>13. CASE UNCHANGED vars
  BY <1>a, <1>13 DEF vars, stepVars
<1> QED
  BY <1>1, <1>3, <1>4, <1>5, <1>6, <1>7, <1>8, <1>9, <1>10, <1>11, <1>12, <1>13
     DEF Next, ScriptNext

LEMMA TypeHeardKeeps ==
  ASSUME TypeOK, ViewInv, [Next]_vars
  PROVE  TypeHeard'
<1>0. TypeHeard  BY TypeParts
<1>1. CASE OnNotify
  <2> DEFINE n == Head(inbox)
  <2>0. inbox \in Seq(Notify) /\ inbox # <<>>  BY <1>1 DEF TypeOK, OnNotify
  <2>1. n \in Notify  BY <2>0
  <2>2. /\ n.sn \in Nat /\ n.ver \in Nat /\ n.rec \in {"none", "watering", "idle"}
        /\ n.id \in {None, Proposed, OtherId}
    BY <2>1 DEF Notify
  <2>3. status' \in [kind : {"none", "watering", "idle"}, ver : Nat]
    BY <1>0, <1>1, <2>2 DEF OnNotify, merge_record, TypeHeard
  <2>4. assigned' \in {None, Proposed, OtherId}
    BY <1>0, <1>1, <2>2 DEF OnNotify, assigned_id, TypeHeard
  <2>5. heard' \subseteq AsyncCmds
    BY <1>0, <1>1 DEF OnNotify, IsAsync, TypeHeard
  <2>6. acks' \in Seq(Nat)
    <3>1. acks' = acks \/ acks' = Append(acks, n.sn)  BY <1>1 DEF OnNotify
    <3>2. acks \in Seq(Nat)  BY <1>0 DEF TypeHeard
    <3> QED  BY <2>2, <3>1, <3>2, SMTT(30)
  <2>7. lastAt' = "fresh" /\ settled' \in {"heard", settled}
        /\ UNCHANGED <<magic, acked, outcome>>
    BY <1>1 DEF OnNotify
  <2> QED  BY <1>0, <2>3, <2>4, <2>5, <2>6, <2>7 DEF TypeHeard
<1>2. CASE BeginStep
  BY <1>0, <1>2 DEF BeginStep, TypeHeard, ScriptMagic, heardVars, quietVars, ackVars, None,
     Proposed, OtherId
<1>3. CASE SkipPoll \/ Answered \/ TimesOut \/ DrainQuiet \/ PauseOver
  BY <1>0, <1>3 DEF SkipPoll, Answered, TimesOut, DrainQuiet, PauseOver, TypeHeard, heardVars,
     quietVars, ackVars
<1>4. CASE WriteReturns \/ WriteFails \/ Listen \/ EndSession
  BY <1>0, <1>4 DEF WriteReturns, WriteFails, Listen, EndSession, TypeHeard, heardVars,
     quietVars, ackVars
<1>5. CASE AckSent \/ AckFails
  <2>1. acks \in Seq(Nat) /\ acks # <<>> /\ acked \in Seq(Nat)
    BY <1>0, <1>5 DEF AckSent, AckFails, TypeHeard
  <2>2. acks' = Tail(acks) /\ (acked' = acked \/ acked' = Append(acked, Head(acks)))
    BY <1>5 DEF AckSent, AckFails
  <2>3. acks' \in Seq(Nat) /\ acked' \in Seq(Nat)
    <3>1. Tail(acks) \in Seq(Nat) /\ Head(acks) \in Nat  BY <2>1
    <3>2. Append(acked, Head(acks)) \in Seq(Nat)  BY <2>1, <3>1
    <3> QED  BY <2>1, <2>2, <3>1, <3>2
  <2> QED  BY <1>0, <1>5, <2>3 DEF AckSent, AckFails, TypeHeard, heardVars, quietVars
<1>6. CASE LoseNotify \/ NotifyAges \/ CommitAges
  BY <1>0, <1>6 DEF LoseNotify, NotifyAges, CommitAges, TypeHeard, heardVars, quietVars, ackVars
<1>7. CASE TimerObeys \/ TimerIgnores
  BY <1>0, <1>7 DEF TimerObeys, TimerIgnores, TypeHeard, heardVars, quietVars, ackVars
<1>8. CASE \E c \in TimerCmds : TimerNotifies(c)
  BY <1>0, <1>8 DEF TimerNotifies, TypeHeard, heardVars, quietVars, ackVars
<1>9. CASE UNCHANGED vars
  BY <1>0, <1>9 DEF vars, TypeHeard, heardVars, quietVars, ackVars
<1> QED
  BY <1>1, <1>2, <1>3, <1>4, <1>5, <1>6, <1>7, <1>8, <1>9 DEF Next, ScriptNext

LEMMA TypeTimerKeeps ==
  ASSUME TypeOK, AllocInv, ViewInv, [Next]_vars
  PROVE  TypeTimer'
<1>0. /\ TypeTimer /\ given' = given /\ cmd \in 0 .. 255
      /\ Len(Script) <= 20 /\ Len(Script) \in Nat
  BY TypeParts, SameScript, TheScript DEF AllocInv, PlaceInv, TypeOK
<1>1. CASE OnNotify
  <2>1. inbox' \in Seq(Notify)
    <3>1. inbox \in Seq(Notify) /\ inbox # <<>> /\ inbox' = Tail(inbox)
      BY <1>1 DEF TypeOK, OnNotify
    <3> QED  BY <3>1
  <2> QED  BY <1>0, <1>1, <2>1 DEF OnNotify, TypeTimer, faultVars
<1>2. CASE LoseNotify
  <2>1. inbox' \in Seq(Notify)
    <3>1. inbox \in Seq(Notify) /\ inbox # <<>> /\ inbox' = Tail(inbox)
      BY <1>2 DEF TypeOK, LoseNotify
    <3> QED  BY <3>1
  <2>2. losses' \in Nat /\ lates' \in Nat /\ losses' + lates' <= MaxFaults
    BY <1>0, <1>2, BoundsAssumption DEF LoseNotify, FaultLeft, TypeTimer
  <2> QED  BY <1>0, <1>2, <2>1, <2>2 DEF LoseNotify, TypeTimer
<1>3. CASE TimerObeys
  <2>1. at \in Steps /\ at \in 1 .. Volunteered
    BY <1>0, <1>3 DEF TimerObeys, AllocInv, PlaceInv, Steps, Volunteered
  <2>2. valve' \in {"watering", "idle"} /\ ver' \in Nat
    BY <1>0, <1>3 DEF TimerObeys, ValveAfter, TypeTimer
  <2>3. WithResponseBit(cmd) \in 0 .. 255  BY <1>0, BitCases
  <2>4. Answer(valve', ver') \in Notify
    BY <1>0, <2>1, <2>2, <2>3 DEF Answer, Notify, TypeTimer
  <2>5. inbox' \in Seq(Notify)
    BY <1>0, <1>3, <2>4 DEF TimerObeys, TypeTimer
  <2> QED  BY <1>0, <1>3, <2>2, <2>5 DEF TimerObeys, TypeTimer, faultVars
<1>4. ASSUME NEW c \in TimerCmds, TimerNotifies(c) PROVE TypeTimer'
  <2>1. PICK rec \in {"none", valve} :
          inbox' = Append(inbox, [cmd |-> c, re |-> Volunteered, rec |-> rec, ver |-> ver,
                                  id |-> None, sn |-> nasync'])
    BY <1>4 DEF TimerNotifies
  <2>2. nasync' \in 0 .. MaxAsync /\ nasync' \in Nat
    BY <1>0, <1>4, BoundsAssumption DEF TimerNotifies, TypeTimer
  <2>3. c \in 0 .. 255  BY TimerCmdsAssumption DEF AsyncCmds
  <2>4. Volunteered \in 1 .. Volunteered  BY DEF Volunteered
  <2>5. [cmd |-> c, re |-> Volunteered, rec |-> rec, ver |-> ver, id |-> None,
         sn |-> nasync'] \in Notify
    BY <1>0, <2>2, <2>3, <2>4 DEF Notify, TypeTimer
  <2>6. inbox' \in Seq(Notify)  BY <1>0, <2>1, <2>5 DEF TypeTimer
  <2> QED  BY <1>0, <1>4, <2>2, <2>6 DEF TimerNotifies, TypeTimer, faultVars
<1>5. CASE TimerIgnores \/ WriteFails \/ TimesOut \/ AckFails
  <2>1. losses' \in Nat /\ lates' \in Nat /\ losses' + lates' <= MaxFaults
    <3>1. losses \in Nat /\ lates \in Nat /\ losses + lates <= MaxFaults /\ MaxFaults \in Nat
      BY <1>0, BoundsAssumption DEF TypeTimer
    <3>2. CASE TimerIgnores \/ WriteFails
      BY <3>1, <3>2 DEF TimerIgnores, WriteFails, FaultLeft
    <3>3. CASE TimesOut
      BY <3>1, <3>3 DEF TimesOut, FaultLeft
    <3>4. CASE AckFails
      BY <3>1, <3>4 DEF AckFails, FaultLeft
    <3> QED  BY <1>5, <3>2, <3>3, <3>4
  <2>2. UNCHANGED <<valve, ver, inbox, nasync>>
    BY <1>5 DEF TimerIgnores, WriteFails, TimesOut, AckFails, timerVars
  <2> QED  BY <1>0, <2>1, <2>2 DEF TypeTimer
<1>6. CASE BeginStep \/ SkipPoll \/ Answered \/ DrainQuiet \/ PauseOver
  BY <1>0, <1>6 DEF BeginStep, SkipPoll, Answered, DrainQuiet, PauseOver, TypeTimer, timerVars,
     faultVars
<1>7. CASE WriteReturns \/ Listen \/ EndSession \/ AckSent \/ NotifyAges \/ CommitAges
  BY <1>0, <1>7 DEF WriteReturns, Listen, EndSession, AckSent, NotifyAges, CommitAges,
     TypeTimer, timerVars, faultVars
<1>8. CASE UNCHANGED vars
  BY <1>0, <1>8 DEF vars, TypeTimer, timerVars, faultVars
<1> QED
  BY <1>1, <1>2, <1>3, <1>4, <1>5, <1>6, <1>7, <1>8 DEF Next, ScriptNext

LEMMA TypeBoolKeeps ==
  ASSUME TypeOK, [Next]_vars
  PROVE  TypeBool'
<1>0. reached \in BOOLEAN /\ hasty \in BOOLEAN  BY DEF TypeOK
<1>1. reached' \in {TRUE, FALSE, reached}
  BY Zenon DEF Next, ScriptNext, BeginStep, SkipPoll, WriteReturns, WriteFails, Answered,
     TimesOut, DrainQuiet, PauseOver, Listen, EndSession, OnNotify, AckSent, AckFails,
     TimerObeys, TimerIgnores, TimerNotifies, LoseNotify, NotifyAges, CommitAges, vars,
     stepVars, NextStep
<1>2. hasty' \in {hasty, (hasty \/ settled # "yes")}
  BY Zenon DEF Next, ScriptNext, BeginStep, SkipPoll, WriteReturns, WriteFails, Answered,
     TimesOut, DrainQuiet, PauseOver, Listen, EndSession, OnNotify, AckSent, AckFails,
     TimerObeys, TimerIgnores, TimerNotifies, LoseNotify, NotifyAges, CommitAges, vars,
     quietVars
<1> QED  BY <1>0, <1>1, <1>2 DEF TypeBool

LEMMA InitType == Init => TypeOK
<1> SUFFICES ASSUME Init PROVE TypeOK  OBVIOUS
<1>1. op \in Ops  BY DEF Init
<1>2. Len(Script) \in Nat  BY <1>1, TheScript
<1>3. TypeStep
  BY <1>1, <1>2 DEF Init, TypeStep, Phases, FirstCmd, Volunteered, None
<1>4. TypeHeard  BY DEF Init, TypeHeard
<1>5. TypeTimer
  BY BoundsAssumption DEF Init, TypeTimer, Proposed, OtherId
<1>6. TypeBool /\ (outcome = "running" <=> phase # "closed")  BY DEF Init, TypeBool
<1> QED  BY <1>3, <1>4, <1>5, <1>6, TypeParts

LEMMA TypeKeeps == TypeOK /\ AllocInv /\ ViewInv /\ [Next]_vars => TypeOK'
<1> SUFFICES ASSUME TypeOK, AllocInv, ViewInv, [Next]_vars PROVE TypeOK'  OBVIOUS
<1>1. (outcome = "running" <=> phase # "closed")'
  BY StepRefines DEF ViewInv
<1> QED
  BY <1>1, TypeStepKeeps, TypeHeardKeeps, TypeTimerKeeps, TypeBoolKeeps
     DEF TypeOK, TypeStep, TypeHeard, TypeTimer, TypeBool

-------------------------------------------------------------------------------
(* Phases, the pending future and the byte of the step                      *)

\* Steps of the ACK tasks and of the clock, and one that changes nothing.
Aside == AckSent \/ AckFails \/ NotifyAges \/ CommitAges \/ UNCHANGED vars

\* The script goes on to its next step.
Leave == SkipPoll \/ Answered \/ TimesOut \/ DrainQuiet \/ PauseOver

LEMMA AsideFrame ==
  ASSUME Aside
  PROVE  UNCHANGED <<at, phase, cmd, reached, pending, fut, timeouts, served, cur, used, magic,
                     assigned, status, valve, ver, inbox, nasync, lates, outcome, next_cmd>>
BY DEF Aside, AckSent, AckFails, NotifyAges, CommitAges, vars, stepVars, futVars, waitVars,
       cmdVars, heardVars, timerVars, faultVars

LEMMA LeaveFrame ==
  ASSUME Leave, AllocInv
  PROVE  /\ at \in Steps /\ at' = at + 1 /\ phase' = "ready"
         /\ phase \in {"ready", "waiting", "draining", "confirming"}
         /\ phase = "ready" <=> SkipPoll
         /\ UNCHANGED <<cmd, reached, cur, used, next_cmd, magic, assigned, status, valve, ver,
                        inbox, nasync, losses, outcome>>
<1>1. at \in Steps
  BY DEF Leave, SkipPoll, Answered, TimesOut, DrainQuiet, PauseOver, AllocInv, PlaceInv
<1>2. /\ phase \in {"ready", "waiting", "draining", "confirming"}
      /\ phase = "ready" <=> SkipPoll
  BY DEF Leave, SkipPoll, Answered, TimesOut, DrainQuiet, PauseOver
<1>3. at' = at + 1 /\ phase' = "ready" /\ UNCHANGED <<cmd, reached>>
  BY DEF Leave, SkipPoll, Answered, TimesOut, DrainQuiet, PauseOver, NextStep
<1>4. UNCHANGED <<cur, used, next_cmd, magic, assigned, status, valve, ver, inbox, nasync,
                  losses, outcome>>
  BY DEF Leave, SkipPoll, Answered, TimesOut, DrainQuiet, PauseOver, cmdVars, heardVars,
     timerVars, faultVars
<1> QED  BY <1>1, <1>2, <1>3, <1>4

\* Notifies come and go beside the script.
Notified == OnNotify \/ LoseNotify \/ \E c \in TimerCmds : TimerNotifies(c)

LEMMA NotifiedFrame ==
  ASSUME Notified
  PROVE  /\ phase # "closed"
         /\ UNCHANGED <<at, phase, cmd, reached, pending, timeouts, served, cur, used, magic,
                        valve, ver, lates, outcome>>
BY DEF Notified, OnNotify, LoseNotify, TimerNotifies, stepVars, futVars, waitVars, cmdVars,
       fixedVars, faultVars

LEMMA NextSplit ==
  [Next]_vars <=> \/ BeginStep \/ Leave \/ WriteReturns \/ WriteFails \/ Listen \/ EndSession
                  \/ Notified \/ TimerObeys \/ TimerIgnores \/ Aside
BY DEF Next, ScriptNext, Leave, Notified, Aside

LEMMA PhaseKeeps ==
  ASSUME TypeOK, AllocInv, ViewInv, PhaseInv, [Next]_vars
  PROVE  PhaseInv'
<1>0. Steps' = Steps /\ Script' = Script /\ Len(Script) \in Nat /\ Steps = 1 .. Len(Script)
  BY SameScript, TheScript DEF AllocInv, PlaceInv, Steps
<1>v. /\ outcome = "ok" => phase = "closed"
      /\ phase = "closed" => outcome # "running"
  BY DEF ViewInv
<1>1. CASE Aside
  BY <1>0, <1>1, AsideFrame DEF PhaseInv, Awaited, Step
<1>2. CASE Notified
  BY <1>0, <1>2, NotifiedFrame DEF PhaseInv, Awaited, Step
<1>3. CASE Leave
  BY <1>0, <1>3, <1>v, LeaveFrame DEF PhaseInv
<1>4. CASE BeginStep
  BY <1>0, <1>4, <1>v DEF BeginStep, PhaseInv
<1>5. CASE WriteReturns
  BY <1>0, <1>5, <1>v DEF WriteReturns, PhaseInv, Awaited, Step
<1>6. CASE WriteFails \/ Listen \/ EndSession
  BY <1>0, <1>6, <1>v DEF WriteFails, Listen, EndSession, PhaseInv
<1>7. CASE TimerObeys \/ TimerIgnores
  BY <1>0, <1>7, <1>v DEF TimerObeys, TimerIgnores, PhaseInv
<1> QED
  BY <1>1, <1>2, <1>3, <1>4, <1>5, <1>6, <1>7, NextSplit

LEMMA LastByte ==
  ASSUME CmdInv, used # <<>>
  PROVE  cur = used[Len(used)] /\ cur \in FirstCmd .. 255 /\ cur \in FirstCmd .. cur
<1> DEFINE S == FirstCmd .. 255
<1>1. \A T : \A s \in Seq(T) : s # <<>> => s[Len(s)] \in T  OBVIOUS
<1>2. used \in Seq(S) /\ cur = used[Len(used)]  BY DEF CmdInv
<1> HIDE DEF S
<1>3. used[Len(used)] \in S  BY <1>1, <1>2
<1>4. cur \in FirstCmd .. 255  BY <1>2, <1>3 DEF S
<1>5. \A c \in FirstCmd .. 255 : c \in FirstCmd .. c  BY DEF FirstCmd
<1> QED  BY <1>2, <1>4, <1>5

\* The byte a step is begun with.
LEMMA BeginByte ==
  ASSUME TypeOK, AllocInv, CmdInv, BeginStep
  PROVE  /\ used' \in Seq(FirstCmd .. 255)
         /\ cur' = IF used' = <<>> THEN 0 ELSE used'[Len(used')]
         /\ cur \in 0 .. 255 /\ cur' \in 0 .. 255
         /\ Step.num = "fixed" => cmd' = Step.cmd /\ UNCHANGED <<cur, used, next_cmd>>
         /\ Step.num = "same" => cmd' = cur' /\ UNCHANGED <<cur, used, next_cmd>>
         /\ Step.num = "alloc" => /\ cmd' = cur' /\ cur' = next_cmd /\ cur < cur'
                                  /\ used' = Append(used, next_cmd)
         /\ Step.num # "fixed" => used' # <<>> /\ cur' >= FirstCmd
         /\ used # <<>> => used' # <<>>
         /\ cmd' \in 1 .. 255
<1>0. /\ at \in Steps /\ StepShape(Script, at) /\ Len(Script) \in Nat
      /\ Step.num = "fixed" => Step.cmd \in 1 .. 134
      /\ cmd' = IF Step.num = "fixed" THEN Step.cmd ELSE cur'
  BY TheScript DEF AllocInv, PlaceInv, BeginStep, Step
<1>1. /\ used \in Seq(FirstCmd .. 255) /\ cur = (IF used = <<>> THEN 0 ELSE used[Len(used)])
      /\ next_cmd \in FirstCmd .. 256 /\ cur \in 0 .. 255
  BY DEF CmdInv, TypeOK
<1>2. Step.num \in {"fixed", "alloc", "same"}  BY <1>0 DEF StepShape, Step
<1>3. used # <<>> => cur \in FirstCmd .. 255  BY LastByte
<1>4. CASE Step.num = "alloc"
  <2>1. /\ next_cmd <= 255 /\ cur' = next_cmd /\ used' = Append(used, next_cmd)
    BY <1>4 DEF BeginStep, alloc_cmd
  <2>2. next_cmd \in FirstCmd .. 255  BY <1>1, <2>1 DEF FirstCmd
  <2>3. used' \in Seq(FirstCmd .. 255) /\ used' # <<>> /\ used'[Len(used')] = next_cmd
    BY <1>1, <2>1, <2>2
  <2>4. cur < next_cmd
    <3>1. CASE used = <<>>  BY <1>1, <2>2, <3>1 DEF FirstCmd
    <3>2. CASE used # <<>>
      <4>1. Len(used) \in 1 .. Len(used)  BY <1>1, <3>2
      <4> QED  BY <1>1, <3>2, <4>1 DEF AllocInv, FreshInv
    <3> QED  BY <3>1, <3>2
  <2> QED  BY <1>0, <1>1, <1>4, <2>1, <2>2, <2>3, <2>4 DEF FirstCmd
<1>5. CASE Step.num = "same"
  <2>1. UNCHANGED <<cur, used, next_cmd>>  BY <1>5 DEF BeginStep, cmdVars
  <2>2. used # <<>>
    <3>1. /\ at > 1 /\ Script[at - 1].num # "fixed" /\ Script[at - 1].what # "silent_poll"
      BY <1>0, <1>5 DEF StepShape, Step
    <3>2. at - 1 \in Steps /\ Begun(at - 1)  BY <1>0, <3>1 DEF Steps, Begun
    <3> QED  BY <3>1, <3>2 DEF CmdInv
  <2>3. cur' = cur /\ used' = used /\ next_cmd' = next_cmd /\ cmd' = cur
    BY <1>0, <1>5, <2>1
  <2>4. cmd' \in 1 .. 255 /\ cur' >= FirstCmd /\ cur' \in 0 .. 255
    <3>1. cur \in FirstCmd .. 255  BY <1>3, <2>2
    <3>2. cur \in 135 .. 255  BY <3>1 DEF FirstCmd
    <3>3. cmd' = cur /\ cur' = cur  BY <2>3
    <3> QED  BY <3>2, <3>3 DEF FirstCmd
  <2>5. used' \in Seq(FirstCmd .. 255)  BY <1>1, <2>3
  <2>6. cur' = used'[Len(used')]  BY <1>1, <2>2, <2>3
  <2> QED  BY <1>1, <1>5, <2>2, <2>3, <2>4, <2>5, <2>6
<1>6. CASE Step.num = "fixed"
  <2>1. UNCHANGED <<cur, used, next_cmd>>  BY <1>6 DEF BeginStep, cmdVars
  <2> QED  BY <1>0, <1>1, <1>6, <2>1
<1> QED  BY <1>2, <1>4, <1>5, <1>6

LEMMA CmdKeeps ==
  ASSUME TypeOK, AllocInv, CmdInv, [Next]_vars
  PROVE  CmdInv'
<1>0. /\ Steps' = Steps /\ Script' = Script /\ Steps = 1 .. Len(Script) /\ Len(Script) \in Nat
      /\ at \in 1 .. Len(Script) + 1
  BY SameScript, TheScript DEF AllocInv, PlaceInv, Steps
<1>1. CASE UNCHANGED <<at, phase, cmd, cur, used>>
  BY <1>0, <1>1 DEF CmdInv, Begun, Step
<1>2. CASE UNCHANGED <<at, cmd, cur, used>> /\ phase # "ready" /\ phase' # "ready"
  BY <1>0, <1>2 DEF CmdInv, Begun, Step
<1>3. CASE Leave
  <2>1. /\ at' = at + 1 /\ phase' = "ready" /\ UNCHANGED <<cur, used>> /\ at \in Steps
        /\ phase = "ready" => SkipPoll
    BY <1>3, LeaveFrame
  <2>2. ASSUME NEW k \in Steps, Begun(k)', Script[k].num # "fixed",
               Script[k].what # "silent_poll"
        PROVE  used # <<>>
    <3>1. k < at \/ k = at  BY <1>0, <2>1, <2>2 DEF Begun
    <3>2. Begun(k)
      <4>1. k = at => phase # "ready"  BY <2>1, <2>2 DEF SkipPoll, Skipped, Step
      <4> QED  BY <3>1, <4>1 DEF Begun
    <3> QED  BY <2>2, <3>2 DEF CmdInv
  <2> QED  BY <1>0, <2>1, <2>2 DEF CmdInv
<1>4. CASE BeginStep
  <2>1. at \in Steps /\ at' = at /\ phase = "ready" /\ phase' = "writing"
    BY <1>4 DEF BeginStep
  <2>2. /\ used' \in Seq(FirstCmd .. 255)
        /\ cur' = (IF used' = <<>> THEN 0 ELSE used'[Len(used')])
        /\ cmd' = (IF Step.num = "fixed" THEN Step.cmd ELSE cur')
        /\ Step.num # "fixed" => used' # <<>>
        /\ used # <<>> => used' # <<>>
    BY <1>4, BeginByte DEF BeginStep
  <2>3. ASSUME NEW k \in Steps, Begun(k)', Script[k].num # "fixed",
               Script[k].what # "silent_poll"
        PROVE  used' # <<>>
    <3>1. CASE k = at  BY <2>2, <2>3, <3>1 DEF Step
    <3>2. CASE k # at
      <4>1. Begun(k)  BY <2>1, <2>3, <3>2 DEF Begun
      <4> QED  BY <2>2, <2>3, <4>1 DEF CmdInv
    <3> QED  BY <3>1, <3>2
  <2> QED  BY <1>0, <2>1, <2>2, <2>3 DEF CmdInv, Step
<1>5. CASE WriteReturns \/ WriteFails
  BY <1>2, <1>5 DEF WriteReturns, WriteFails, cmdVars
<1>6. CASE EndSession
  BY <1>2, <1>6 DEF EndSession, cmdVars
<1>7. CASE Listen
  BY <1>0, <1>7 DEF Listen, CmdInv, Begun, Step, cmdVars
<1>8. CASE Aside \/ Notified
  BY <1>1, <1>8, AsideFrame, NotifiedFrame
<1>9. CASE TimerObeys \/ TimerIgnores
  BY <1>1, <1>9 DEF TimerObeys, TimerIgnores, cmdVars
<1> QED  BY <1>3, <1>4, <1>5, <1>6, <1>7, <1>8, <1>9, NextSplit

LEMMA PendingKeeps ==
  ASSUME TypeOK, AllocInv, PhaseInv, PendingInv, CmdInv, [Next]_vars
  PROVE  PendingInv'
<1>0. /\ Steps' = Steps /\ Script' = Script
      /\ at \in Steps /\ Step.num = "fixed" => Step.cmd \in 1 .. 134
  BY SameScript, TheScript DEF AllocInv, PlaceInv, Step
<1>1. CASE Aside
  BY <1>0, <1>1, AsideFrame DEF PendingInv, Awaited, Step
<1>2. CASE Notified
  <2>1. UNCHANGED <<at, phase, cmd, pending>> /\ phase # "closed"
    BY <1>2, NotifiedFrame
  <2>2. fut' # None => fut # None \/ pending # None
    BY <1>2 DEF Notified, OnNotify, Completes, LoseNotify, TimerNotifies, futVars
  <2> QED  BY <1>0, <2>1, <2>2 DEF PendingInv, Awaited, Step
<1>3. CASE Leave
  <2>1. pending' = None /\ fut' = None
    <3>1. CASE Answered \/ TimesOut  BY <3>1 DEF Answered, TimesOut
    <3>2. CASE SkipPoll \/ DrainQuiet \/ PauseOver
      <4>1. phase \in {"ready", "draining", "confirming"} /\ UNCHANGED futVars
        BY <3>2 DEF SkipPoll, DrainQuiet, PauseOver
      <4> QED  BY <4>1 DEF PendingInv, futVars
    <3> QED  BY <1>3, <3>1, <3>2 DEF Leave
  <2>2. phase' = "ready"  BY <1>3, LeaveFrame
  <2> QED  BY <2>1, <2>2 DEF PendingInv
<1>4. CASE BeginStep
  <2>1. /\ at \in Steps /\ at' = at /\ phase' = "writing" /\ phase = "ready"
        /\ cmd' = (IF Step.num = "fixed" THEN Step.cmd ELSE cur')
        /\ pending' = (IF Awaited THEN cmd' ELSE pending)
        /\ fut' = (IF Awaited THEN None ELSE fut)
    BY <1>4 DEF BeginStep
  <2>2. pending = None /\ fut = None  BY <2>1 DEF PendingInv
  <2>3. cmd' # 0
    <3>1. cmd' \in 1 .. 255  BY <1>4, BeginByte
    <3> QED  BY <3>1
  <2> QED  BY <1>0, <2>1, <2>2, <2>3 DEF PendingInv, Awaited, Step, None
<1>5. CASE WriteReturns
  BY <1>0, <1>5 DEF WriteReturns, PendingInv, Awaited, Step, futVars
<1>6. CASE WriteFails \/ Listen \/ EndSession
  BY <1>0, <1>6 DEF WriteFails, Listen, EndSession, PendingInv, Awaited, Step, futVars
<1>7. CASE TimerObeys \/ TimerIgnores
  BY <1>0, <1>7 DEF TimerObeys, TimerIgnores, PendingInv, Awaited, Step, futVars
<1> QED
  BY <1>1, <1>2, <1>3, <1>4, <1>5, <1>6, <1>7, NextSplit

-------------------------------------------------------------------------------
(* The notifies on their way                                                *)

LEMMA InboxTail ==
  ASSUME TypeOK, inbox # <<>>, inbox' = Tail(inbox)
  PROVE  /\ Len(inbox) \in Nat /\ Len(inbox) >= 1 /\ Len(inbox') = Len(inbox) - 1
         /\ \A i \in 1 .. Len(inbox') : inbox'[i] = inbox[i + 1] /\ i + 1 \in 1 .. Len(inbox)
         /\ 1 \in 1 .. Len(inbox) /\ Head(inbox) = inbox[1]
         /\ Head(inbox) \in Flying /\ Head(inbox) \in Notify
         /\ Flying' \subseteq Flying
         /\ \A n \in Flying : n = Head(inbox) \/ n \in Flying'
<1>1. inbox \in Seq(Notify)  BY DEF TypeOK
<1>2. /\ Len(inbox) \in Nat /\ Len(inbox) >= 1 /\ Len(inbox') = Len(inbox) - 1
      /\ \A i \in 1 .. Len(inbox') : inbox'[i] = inbox[i + 1] /\ i + 1 \in 1 .. Len(inbox)
      /\ 1 \in 1 .. Len(inbox) /\ Head(inbox) = inbox[1] /\ Head(inbox) \in Notify
  BY <1>1
<1>3. Head(inbox) \in Flying /\ Flying' \subseteq Flying  BY <1>2 DEF Flying
<1>4. ASSUME NEW n \in Flying PROVE n = Head(inbox) \/ n \in Flying'
  <2>1. PICK i \in 1 .. Len(inbox) : n = inbox[i]  BY DEF Flying
  <2>2. CASE i = 1  BY <1>2, <2>1, <2>2
  <2>3. CASE i # 1
    <3>1. i - 1 \in 1 .. Len(inbox') /\ (i - 1) + 1 = i  BY <1>2, <2>3
    <3>2. inbox'[i - 1] = n  BY <1>2, <2>1, <3>1
    <3> QED  BY <3>1, <3>2 DEF Flying
  <2> QED  BY <2>2, <2>3
<1> QED  BY <1>2, <1>3, <1>4

LEMMA InboxAppend ==
  ASSUME TypeOK, NEW n, inbox' = Append(inbox, n)
  PROVE  /\ Len(inbox) \in Nat /\ Len(inbox') = Len(inbox) + 1
         /\ inbox'[Len(inbox) + 1] = n
         /\ \A i \in 1 .. Len(inbox) : inbox'[i] = inbox[i]
         /\ \A i \in 1 .. Len(inbox') : i \in 1 .. Len(inbox) \/ i = Len(inbox) + 1
         /\ Flying' = Flying \cup {n}
<1>1. /\ Len(inbox) \in Nat /\ Len(inbox') = Len(inbox) + 1
      /\ inbox'[Len(inbox) + 1] = n
      /\ \A i \in 1 .. Len(inbox) : inbox'[i] = inbox[i]
  <2>1. inbox \in Seq(Notify)  BY DEF TypeOK
  <2>2. inbox \in Seq(Notify \cup {n})  BY <2>1
  <2> QED  BY <2>2
<1>2. \A i \in 1 .. Len(inbox') : i \in 1 .. Len(inbox) \/ i = Len(inbox) + 1
  BY <1>1
<1>3. Flying' \subseteq Flying \cup {n}  BY <1>1, <1>2 DEF Flying
<1>4. Flying \subseteq Flying'  BY <1>1 DEF Flying
<1>5. n \in Flying'
  <2>1. Len(inbox) + 1 \in 1 .. Len(inbox')  BY <1>1
  <2> QED  BY <1>1, <2>1 DEF Flying
<1> QED  BY <1>1, <1>2, <1>3, <1>4, <1>5

LEMMA FlyingType == ASSUME TypeOK PROVE Flying \subseteq Notify
<1>1. inbox \in Seq(Notify)  BY DEF TypeOK
<1> QED  BY <1>1 DEF Flying

\* The step of an answer lies behind, or is the present one.
LEMMA OursPast ==
  ASSUME TypeOK, AllocInv, NEW n, Ours(n)
  PROVE  /\ n.re \in Steps /\ n.re \in 1 .. 20 /\ n.re <= at /\ n.re # Volunteered
         /\ n.re \in Int
         /\ n.re = at => phase # "ready" /\ reached
         /\ at \in Int
<1>1. Steps \subseteq 1 .. 20 /\ at \in Int  BY TheScript DEF AllocInv, PlaceInv
<1>2. n.re \in Steps /\ n.re \in 1 .. 20  BY <1>1 DEF Ours
<1>3. n.re < at \/ (n.re = at /\ phase # "ready" /\ reached)  BY DEF Ours, Passed
<1>4. n.re <= at /\ n.re # Volunteered  BY <1>1, <1>2, <1>3 DEF Volunteered
<1>5. n.re = at => ~(n.re < at)  BY <1>1
<1>6. n.re = at => phase # "ready" /\ reached  BY <1>3, <1>5
<1> QED  BY <1>1, <1>2, <1>4, <1>6

LEMMA TheirsFar ==
  ASSUME TypeOK, AllocInv, NEW n, Theirs(n)
  PROVE  n.re = 100 /\ n.re > at /\ n.cmd \in AsyncCmds /\ request_cmd(n.cmd) = 0
         /\ \A i \in Steps : n.re > i
<1>1. Steps \subseteq 1 .. 20 /\ at \in 1 .. 21  BY TheScript, SMTT(30) DEF AllocInv, PlaceInv
<1>2. n.cmd \in AsyncCmds /\ n.re = 100  BY TimerCmdsAssumption DEF Theirs, Volunteered
<1>3. ~HasResponseBit(n.cmd)
  <2>1. n.cmd \in 0 .. 255 /\ ~(n.cmd \in 64 .. 127) /\ ~(n.cmd \in 192 .. 255)
    BY <1>2 DEF AsyncCmds
  <2> QED  BY <2>1, BitRange
<1> QED  BY <1>1, <1>2, <1>3 DEF request_cmd

\* Steps that leave the place in the script alone leave the answers what they are.
LEMMA OursStays ==
  ASSUME AllocInv, [Next]_vars, NEW n, Ours(n),
         UNCHANGED <<at, cmd, cur>>, reached => reached',
         phase # "ready" => phase' # "ready",
         phase = "ready" => phase' = "ready" \/ at \notin Steps
  PROVE  Ours(n)'
<1>1. Steps' = Steps /\ Script' = Script /\ given' = given  BY SameScript
<1>2. Passed(n.re)'  BY DEF Ours, Passed
<1>3. at \in Steps => \A m : Begun(m)' => Begun(m)  BY DEF Begun
<1>4. Bytes(n)'  BY <1>1, <1>3 DEF Ours, Bytes
<1> QED  BY <1>1, <1>2, <1>4 DEF Ours

LEMMA OursLeave ==
  ASSUME TypeOK, AllocInv, Leave, NEW n, Ours(n)
  PROVE  Ours(n)'
<1>0. [Next]_vars  BY NextSplit
<1>1. Steps' = Steps /\ Script' = Script /\ given' = given /\ Steps = 1 .. Len(Script)
      /\ Len(Script) \in Nat
  BY <1>0, SameScript, TheScript DEF Steps, AllocInv, PlaceInv
<1>2. /\ at \in Steps /\ at' = at + 1 /\ UNCHANGED <<cmd, cur>> /\ phase' = "ready"
      /\ phase = "ready" => SkipPoll
  BY LeaveFrame
<1>3. n.re \in Steps /\ n.re <= at  BY OursPast
<1>4. Passed(n.re)'  BY <1>1, <1>2, <1>3 DEF Passed
<1>5. ASSUME at' \in Steps, NEW m \in Int, m <= at', Begun(m)' PROVE Begun(m)
  <2>1. m <= at  BY <1>1, <1>2, <1>5 DEF Begun
  <2>2. CASE phase = "ready"
    <3>1. Step.what = "silent_poll"  BY <1>2, <2>2 DEF SkipPoll, Skipped
    <3>2. at = Len(Script)  BY <1>2, <3>1, TheScript DEF StepShape, Step, AllocInv, PlaceInv
    <3> QED  BY <1>1, <1>2, <1>5, <3>2
  <2>3. CASE phase # "ready"  BY <1>1, <1>2, <2>1, <2>3 DEF Begun
  <2> QED  BY <2>2, <2>3
<1>6. Bytes(n)'
  <2>1. Script[n.re].num = "fixed" => n.cmd = WithResponseBit(Script[n.re].cmd)
    BY DEF Ours, Bytes
  <2>2. ASSUME Script[n.re].num # "fixed"
        PROVE \E c \in FirstCmd .. cur' :
                /\ n.cmd = WithResponseBit(c)
                /\ c = cur' /\ at' \in Steps =>
                     \A m \in n.re + 1 .. at' : Begun(m)' => Script[m].num = "same"
    <3>1. PICK c \in FirstCmd .. cur :
            /\ n.cmd = WithResponseBit(c)
            /\ c = cur /\ at \in Steps =>
                 \A m \in n.re + 1 .. at : Begun(m) => Script[m].num = "same"
      BY <2>2 DEF Ours, Bytes
    <3>2. ASSUME c = cur', at' \in Steps, NEW m \in n.re + 1 .. at', Begun(m)'
          PROVE  Script[m].num = "same"
      <4>1. m \in Int /\ m <= at' /\ m < at'  BY <1>1, <1>2, <1>3, <3>2 DEF Begun
      <4>2. Begun(m)  BY <1>5, <3>2, <4>1
      <4>3. m \in n.re + 1 .. at  BY <1>1, <1>2, <1>3, <3>2, <4>1
      <4> QED  BY <1>2, <3>1, <3>2, <4>2, <4>3
    <3> QED  BY <1>2, <3>1, <3>2
  <2>3. n.re # at'  BY <1>1, <1>2, <1>3
  <2> QED  BY <1>1, <2>1, <2>2, <2>3 DEF Bytes
<1> QED  BY <1>1, <1>3, <1>4, <1>6 DEF Ours

LEMMA OursBegin ==
  ASSUME TypeOK, AllocInv, CmdInv, BeginStep, NEW n, Ours(n)
  PROVE  Ours(n)'
<1>0. [Next]_vars  BY NextSplit
<1>1. Steps' = Steps /\ Script' = Script /\ given' = given /\ Steps = 1 .. Len(Script)
      /\ Len(Script) \in Nat /\ StepShape(Script, at)
  BY <1>0, SameScript, TheScript DEF Steps, AllocInv, PlaceInv, BeginStep
<1>2. at \in Steps /\ at' = at /\ phase = "ready" /\ phase' = "writing"  BY DEF BeginStep
<1>3. n.re \in Steps /\ n.re < at
  BY <1>2 DEF Ours, Passed
<1>4. Passed(n.re)'  BY <1>2, <1>3 DEF Passed
<1>5. cur \in 0 .. 255 /\ cur' \in 0 .. 255 /\ cur <= cur'
      /\ (Step.num = "alloc" => cur < cur')
  <2>1. Step.num \in {"fixed", "alloc", "same"}  BY <1>1 DEF StepShape, Step
  <2>2. cur \in 0 .. 255 /\ cur' \in 0 .. 255 /\ (Step.num = "alloc" => cur < cur')
        /\ (Step.num # "alloc" => cur' = cur)
    BY BeginByte, <2>1
  <2> QED  BY <2>2
<1>6. Bytes(n)'
  <2>1. Script[n.re].num = "fixed" => n.cmd = WithResponseBit(Script[n.re].cmd)
    BY DEF Ours, Bytes
  <2>2. ASSUME Script[n.re].num # "fixed"
        PROVE \E c \in FirstCmd .. cur' :
                /\ n.cmd = WithResponseBit(c)
                /\ c = cur' /\ at \in Steps =>
                     \A m \in n.re + 1 .. at : Begun(m)' => Script[m].num = "same"
    <3>1. PICK c \in FirstCmd .. cur :
            /\ n.cmd = WithResponseBit(c)
            /\ c = cur /\ at \in Steps =>
                 \A m \in n.re + 1 .. at : Begun(m) => Script[m].num = "same"
      BY <2>2 DEF Ours, Bytes
    <3>2. ASSUME c = cur', NEW m \in n.re + 1 .. at PROVE Script[m].num = "same"
      <4>1. c = cur /\ Step.num # "alloc"  BY <1>5, <3>1, <3>2 DEF FirstCmd
      <4>2. CASE m = at
        <5>1. n.re \in 1 .. at  BY <1>1, <1>2, <1>3
        <5>2. Step.num # "fixed"  BY <1>1, <2>2, <5>1 DEF StepShape, Step
        <5> QED  BY <1>1, <4>1, <4>2, <5>2 DEF StepShape, Step
      <4>3. CASE m # at
        <5>1. Begun(m)  BY <1>1, <1>2, <3>2, <4>3 DEF Begun
        <5> QED  BY <1>2, <3>1, <3>2, <4>1, <5>1
      <4> QED  BY <4>2, <4>3
    <3>3. c \in FirstCmd .. cur'  BY <1>5, <3>1 DEF FirstCmd
    <3> QED  BY <3>1, <3>2, <3>3
  <2>3. n.re # at'  BY <1>1, <1>2, <1>3
  <2> QED  BY <1>1, <1>2, <2>1, <2>2, <2>3 DEF Bytes
<1> QED  BY <1>1, <1>3, <1>4, <1>6 DEF Ours

\* The answer of the timer is one to the present step.
LEMMA OursAnswer ==
  ASSUME TypeOK, AllocInv, CmdInv, TimerObeys, NEW n, n = Answer(valve', ver')
  PROVE  Ours(n)' /\ n.re = at
<1>0. [Next]_vars  BY NextSplit
<1>1. /\ at' = at /\ phase' = phase /\ phase = "writing" /\ cmd' = cmd /\ cur' = cur
      /\ at \in Steps /\ at \in Int
  BY TheScript DEF TimerObeys, cmdVars, AllocInv, PlaceInv
<1>r. reached'  BY DEF TimerObeys
<1>2. Steps' = Steps /\ Script' = Script /\ given' = given  BY <1>0, SameScript
<1>3. /\ n.re = at /\ n.cmd = WithResponseBit(cmd)
      /\ n.id = IF Step.what = "register" THEN given ELSE None
  BY DEF Answer
<1>4. Passed(n.re)'  BY <1>1, <1>3, <1>r DEF Passed
<1>5. Bytes(n)'
  <2>1. cmd = (IF Step.num = "fixed" THEN Step.cmd ELSE cur)
        /\ (Step.num # "fixed" => used # <<>>)
    BY <1>1 DEF CmdInv
  <2>2. used # <<>> => cur \in FirstCmd .. cur  BY LastByte
  <2>3. Script[n.re].num = "fixed" => n.cmd = WithResponseBit(Script[n.re].cmd)
    BY <1>3, <2>1 DEF Step
  <2>4. ASSUME Script[n.re].num # "fixed"
        PROVE \E c \in FirstCmd .. cur :
                /\ n.cmd = WithResponseBit(c)
                /\ c = cur /\ at \in Steps =>
                     \A m \in n.re + 1 .. at : Begun(m)' => Script[m].num = "same"
    <3>1. n.cmd = WithResponseBit(cur) /\ cur \in FirstCmd .. cur
      BY <1>3, <2>1, <2>2, <2>4 DEF Step
    <3>2. \A m \in n.re + 1 .. at : FALSE  BY <1>1, <1>3
    <3> QED  BY <3>1, <3>2
  <2> QED  BY <1>1, <1>2, <1>3, <2>3, <2>4 DEF Bytes
<1> QED  BY <1>1, <1>2, <1>3, <1>4, <1>5 DEF Ours, Step

LEMMA InboxKeeps ==
  ASSUME TypeOK, AllocInv, CmdInv, InboxInv, [Next]_vars
  PROVE  InboxInv'
<1> DEFINE Ordered == \A i, j \in 1 .. Len(inbox) :
             i < j /\ inbox[j].re # Volunteered =>
                inbox[i].re = Volunteered \/ inbox[i].re < inbox[j].re
<1>0. Ordered /\ \A n \in Flying : Ours(n) \/ Theirs(n)  BY DEF InboxInv
<1>t. \A n : Theirs(n)' <=> Theirs(n)  BY DEF Theirs
<1>a. ASSUME inbox' = inbox, \A n \in Flying : Ours(n) => Ours(n)' PROVE InboxInv'
  BY <1>0, <1>a, <1>t DEF InboxInv, Flying
<1>b. ASSUME inbox' = Tail(inbox), inbox # <<>>, \A n \in Flying : Ours(n) => Ours(n)'
      PROVE  InboxInv'
  <2>1. /\ Flying' \subseteq Flying /\ Len(inbox) \in Nat /\ Len(inbox') = Len(inbox) - 1
        /\ \A i \in 1 .. Len(inbox') : inbox'[i] = inbox[i + 1] /\ i + 1 \in 1 .. Len(inbox)
    BY <1>b, InboxTail
  <2>2. \A n \in Flying' : Ours(n)' \/ Theirs(n)'  BY <1>0, <1>b, <1>t, <2>1
  <2>3. Ordered'
    <3> SUFFICES ASSUME NEW i \in 1 .. Len(inbox'), NEW j \in 1 .. Len(inbox'), i < j,
                        inbox'[j].re # Volunteered
                 PROVE  inbox'[i].re = Volunteered \/ inbox'[i].re < inbox'[j].re
      OBVIOUS
    <3>1. i + 1 < j + 1  OBVIOUS
    <3> QED  BY <1>0, <2>1, <3>1
  <2> QED  BY <2>2, <2>3 DEF InboxInv
<1>c. ASSUME NEW n, inbox' = Append(inbox, n), Ours(n)' \/ Theirs(n)',
             \A m \in Flying : Ours(m) => Ours(m)',
             n.re # Volunteered => \A m \in Flying : m.re = Volunteered \/ m.re < n.re
      PROVE  InboxInv'
  <2>1. /\ Len(inbox) \in Nat /\ Len(inbox') = Len(inbox) + 1
        /\ inbox'[Len(inbox) + 1] = n
        /\ \A i \in 1 .. Len(inbox) : inbox'[i] = inbox[i]
        /\ \A i \in 1 .. Len(inbox') : i \in 1 .. Len(inbox) \/ i = Len(inbox) + 1
        /\ Flying' = Flying \cup {n}
    BY <1>c, InboxAppend
  <2>2. \A m \in Flying' : Ours(m)' \/ Theirs(m)'  BY <1>0, <1>c, <1>t, <2>1
  <2>3. Ordered'
    <3> SUFFICES ASSUME NEW i \in 1 .. Len(inbox'), NEW j \in 1 .. Len(inbox'), i < j,
                        inbox'[j].re # Volunteered
                 PROVE  inbox'[i].re = Volunteered \/ inbox'[i].re < inbox'[j].re
      OBVIOUS
    <3>1. i \in 1 .. Len(inbox) /\ inbox'[i] = inbox[i]  BY <2>1
    <3>2. CASE j = Len(inbox) + 1
      <4>1. inbox[i] \in Flying  BY <3>1 DEF Flying
      <4> QED  BY <1>c, <2>1, <3>1, <3>2, <4>1
    <3>3. CASE j \in 1 .. Len(inbox)
      <4>1. inbox'[j] = inbox[j]  BY <2>1, <3>3
      <4> QED  BY <1>0, <3>1, <3>3, <4>1
    <3> QED  BY <2>1, <3>2, <3>3
  <2> QED  BY <2>2, <2>3 DEF InboxInv
<1> HIDE DEF Ordered
<1>1. CASE Leave
  BY <1>a, <1>1, LeaveFrame, OursLeave
<1>2. CASE BeginStep
  <2>1. inbox' = inbox  BY <1>2 DEF BeginStep, timerVars
  <2> QED  BY <1>2, <1>a, <2>1, OursBegin
<1>3. CASE WriteReturns \/ WriteFails \/ Listen \/ EndSession \/ TimerIgnores \/ Aside
  <2>1. CASE Aside  BY <1>a, <2>1, AsideFrame, OursStays
  <2>2. CASE WriteReturns
    <3>1. inbox' = inbox /\ UNCHANGED <<at, cmd, cur, reached>> /\ phase # "ready"
          /\ phase' # "ready"
      BY <2>2 DEF WriteReturns, timerVars, cmdVars
    <3> QED  BY <1>a, <3>1, OursStays
  <2>3. CASE WriteFails \/ EndSession
    <3>1. inbox' = inbox /\ UNCHANGED <<at, cmd, cur, reached>> /\ phase # "ready"
          /\ phase' # "ready"
      BY <2>3 DEF WriteFails, EndSession, timerVars, cmdVars
    <3> QED  BY <1>a, <3>1, OursStays
  <2>4. CASE Listen
    <3>1. inbox' = inbox /\ UNCHANGED <<at, cmd, cur, reached>> /\ at \notin Steps
          /\ phase' # "ready"
      BY <2>4 DEF Listen, timerVars, cmdVars
    <3> QED  BY <1>a, <3>1, OursStays
  <2>5. CASE TimerIgnores
    <3>1. inbox' = inbox /\ UNCHANGED <<at, cmd, cur, phase>> /\ reached'
      BY <2>5 DEF TimerIgnores, timerVars, cmdVars
    <3> QED  BY <1>a, <3>1, OursStays
  <2> QED  BY <1>3, <2>1, <2>2, <2>3, <2>4, <2>5
<1>4. CASE OnNotify \/ LoseNotify
  <2>1. inbox # <<>> /\ inbox' = Tail(inbox)  BY <1>4 DEF OnNotify, LoseNotify
  <2>2. Notified  BY <1>4 DEF Notified
  <2>3. \A n \in Flying : Ours(n) => Ours(n)'  BY <2>2, NotifiedFrame, OursStays
  <2> QED  BY <1>b, <2>1, <2>3
<1>5. ASSUME NEW c \in TimerCmds, TimerNotifies(c) PROVE InboxInv'
  <2>1. PICK rec \in {"none", valve} :
          inbox' = Append(inbox, [cmd |-> c, re |-> Volunteered, rec |-> rec, ver |-> ver,
                                  id |-> None, sn |-> nasync'])
    BY <1>5 DEF TimerNotifies
  <2>2. PICK n : n = [cmd |-> c, re |-> Volunteered, rec |-> rec, ver |-> ver, id |-> None,
                      sn |-> nasync']
    OBVIOUS
  <2>3. Theirs(n)' /\ n.re = Volunteered  BY <2>2 DEF Theirs
  <2>4. Notified  BY <1>5 DEF Notified
  <2>5. \A m \in Flying : Ours(m) => Ours(m)'  BY <2>4, NotifiedFrame, OursStays
  <2> QED  BY <1>c, <2>1, <2>2, <2>3, <2>5
<1>6. CASE TimerObeys
  <2>1. PICK n : n = Answer(valve', ver')  OBVIOUS
  <2>2. /\ inbox' = Append(inbox, n) /\ UNCHANGED <<at, cmd, cur, phase>> /\ reached'
        /\ phase = "writing" /\ ~reached
    BY <1>6, <2>1 DEF TimerObeys, cmdVars
  <2>3. Ours(n)' /\ n.re = at  BY <1>6, <2>1, OursAnswer
  <2>4. \A m \in Flying : Ours(m) => Ours(m)'  BY <2>2, OursStays
  <2>5. ASSUME NEW m \in Flying PROVE m.re = Volunteered \/ m.re < at
    <3>1. CASE Ours(m)
      <4>1. m.re <= at /\ m.re # at /\ m.re \in Int /\ at \in Int
        BY <2>2, <3>1, OursPast
      <4> QED  BY <4>1
    <3>2. CASE Theirs(m)  BY <3>2 DEF Theirs
    <3> QED  BY <1>0, <3>1, <3>2
  <2> QED  BY <1>c, <2>2, <2>3, <2>4, <2>5
<1> QED  BY <1>1, <1>2, <1>3, <1>4, <1>5, <1>6, NextSplit DEF Notified

-------------------------------------------------------------------------------
(* Which answer a step takes for its own                                    *)

\* A notify that completes the wait answers a step that shares the byte of this one, and
\* all notifies behind it answer later steps.
LEMMA CompletesOwn ==
  ASSUME TypeOK, AllocInv, PendingInv, CmdInv, InboxInv, phase # "closed",
         NEW n \in Flying, Completes(n)
  PROVE  /\ Ours(n) /\ at \in Steps /\ Awaited
         /\ n.re # at => SharesByte(n.re, at) /\ AwaitedAt(n.re) /\ n.re < at
<1>1. /\ pending # None /\ fut = None /\ request_cmd(n.cmd) = pending
      /\ at \in Steps /\ Awaited /\ pending = cmd /\ phase # "ready"
  BY DEF Completes, PendingInv
<1>2. Ours(n)
  <2>1. ~Theirs(n)  BY <1>1, TheirsFar DEF None
  <2> QED  BY <2>1 DEF InboxInv
<1>3. n.re \in Steps /\ n.re <= at /\ n.re \in Int /\ at \in Int  BY <1>2, OursPast
<1>4. /\ StepShape(Script, at) /\ StepShape(Script, n.re) /\ Len(Script) \in Nat
      /\ Steps = 1 .. Len(Script)
  BY <1>1, <1>3, TheScript DEF AllocInv, PlaceInv, Steps
<1>5. cmd = (IF Step.num = "fixed" THEN Step.cmd ELSE cur)
      /\ (Step.num # "fixed" => used # <<>>)
  BY <1>1 DEF CmdInv
<1>6. Step.num # "fixed" => cur \in FirstCmd .. 255  BY <1>5, LastByte
<1>7. ASSUME n.re # at PROVE SharesByte(n.re, at) /\ AwaitedAt(n.re)
  <2>1. n.re < at  BY <1>3, <1>7
  <2>2. CASE Script[n.re].num = "fixed"
    <3> DEFINE k == Script[n.re].cmd
    <3>1. k \in 1 .. 134 /\ ~HasResponseBit(k) /\ n.cmd = WithResponseBit(k)
      BY <1>2, <1>4, <2>2 DEF StepShape, Ours, Bytes
    <3>2. k \in 0 .. 255  BY <3>1
    <3> HIDE DEF k
    <3>3. cmd = k  BY <1>1, <3>1, <3>2, BitCases
    <3>4. Step.num = "fixed"
      <4>1. ASSUME Step.num # "fixed" PROVE FALSE
        <5>1. cur \in 135 .. 255  BY <1>6, <4>1 DEF FirstCmd
        <5>2. k = cur  BY <1>5, <3>3, <4>1
        <5> QED  BY <3>1, <5>1, <5>2
      <4> QED  BY <4>1
    <3>5. Step.cmd = k  BY <1>5, <3>3, <3>4
    <3>6. Step.cmd # 134  BY <1>1, <1>4, <3>4 DEF StepShape, Awaited, Step
    <3>7. AwaitedAt(n.re)  BY <1>4, <2>2, <3>5, <3>6 DEF StepShape, AwaitedAt, k
    <3> QED  BY <2>2, <3>4, <3>5, <3>7 DEF SharesByte, Step, k
  <2>3. CASE Script[n.re].num # "fixed"
    <3>1. PICK c \in FirstCmd .. cur :
            /\ n.cmd = WithResponseBit(c)
            /\ c = cur /\ at \in Steps =>
                 \A m \in n.re + 1 .. at : Begun(m) => Script[m].num = "same"
      BY <1>2, <2>3 DEF Ours, Bytes
    <3>2. Step.num # "fixed"
      <4>1. n.re \in 1 .. at  BY <1>3, <1>4, <2>1
      <4> QED  BY <1>4, <2>3, <4>1 DEF StepShape, Step
    <3>3. cmd = cur  BY <1>5, <3>2
    <3>4. c = cur
      <4>1. c \in 0 .. 255 /\ cur \in Int  BY <1>6, <3>1, <3>2 DEF FirstCmd
      <4>2. request_cmd(n.cmd) = c \/ request_cmd(n.cmd) = c - 64  BY <3>1, <4>1, BitCases
      <4>3. c <= cur  BY <3>1
      <4> QED  BY <1>1, <3>3, <4>1, <4>2, <4>3
    <3>5. \A m \in n.re + 1 .. at : Begun(m)  BY <1>1, <1>3 DEF Begun
    <3>6. \A m \in n.re + 1 .. at : Script[m].num = "same"  BY <1>1, <3>1, <3>4, <3>5
    <3>7. AwaitedAt(n.re)
      <4>1. n.re + 1 \in n.re + 1 .. at /\ n.re + 1 \in Steps /\ (n.re + 1) - 1 = n.re
        BY <1>1, <1>3, <1>4, <2>1
      <4>2. StepShape(Script, n.re + 1) /\ Script[n.re + 1].num = "same"
        BY <3>6, <4>1, TheScript DEF AllocInv, PlaceInv
      <4>3. Script[n.re].what # "start"  BY <4>1, <4>2 DEF StepShape
      <4> QED  BY <1>4, <2>3, <4>3 DEF StepShape, AwaitedAt
    <3> QED  BY <3>6, <3>7 DEF SharesByte
  <2> QED  BY <2>2, <2>3
<1> QED  BY <1>1, <1>2, <1>3, <1>7

LEMMA Whole ==
  ASSUME TypeOK, AllocInv
  PROVE  /\ at \in 1 .. 21 /\ at \in Int /\ fut \in Int /\ Steps \subseteq 1 .. 20
         /\ Steps \subseteq Int /\ timeouts \subseteq Steps /\ timeouts \subseteq Int
<1>1. Steps \subseteq 1 .. 20 /\ at \in 1 .. 21  BY TheScript, SMTT(30) DEF AllocInv, PlaceInv
<1>2. fut \in 0 .. Volunteered /\ timeouts \subseteq Steps  BY DEF TypeOK
<1> QED  BY <1>1, <1>2 DEF Volunteered

\* Leaving a step adds at most its timeout, or the pair of it and of what completed it.
LEMMA LeaveWaits ==
  ASSUME Leave
  PROVE  \/ /\ Answered /\ timeouts' = timeouts /\ served' = served \cup {<<at, fut>>}
            /\ fut # None
         \/ /\ TimesOut /\ timeouts' = timeouts \cup {at} /\ served' = served /\ fut = None
         \/ /\ phase \in {"ready", "draining", "confirming"}
            /\ UNCHANGED <<timeouts, served, pending, fut>>
<1>1. CASE Answered  BY <1>1 DEF Answered
<1>2. CASE TimesOut  BY <1>2 DEF TimesOut
<1>3. CASE SkipPoll \/ DrainQuiet \/ PauseOver
  BY <1>3 DEF SkipPoll, DrainQuiet, PauseOver, waitVars, futVars
<1> QED  BY <1>1, <1>2, <1>3 DEF Leave

\* What was left behind stays so when the step is not answered by its own answer.
LEMMA BehindLeave ==
  ASSUME TypeOK, AllocInv, HistInv, Leave, ~(Answered /\ fut = at), NEW i, Behind(i)
  PROVE  Behind(i)'
<1>1. at' = at + 1 /\ at \in Int  BY LeaveFrame, TheScript DEF AllocInv, PlaceInv
<1>2. PICK j \in timeouts : j <= i /\ \A k \in j .. at - 1 : <<k, k>> \notin served
  BY DEF Behind
<1>3. j \in Int  BY Whole
<1>4. j \in timeouts'  BY LeaveWaits
<1>5. ASSUME NEW k \in j .. at' - 1 PROVE <<k, k>> \notin served'
  <2>1. <<k, k>> \notin served
    <3>1. CASE k = at  BY <1>1, <3>1 DEF HistInv
    <3>2. CASE k # at  BY <1>1, <1>2, <1>3, <3>2
    <3> QED  BY <3>1, <3>2
  <2> QED  BY <2>1, LeaveWaits
<1> QED  BY <1>2, <1>4, <1>5 DEF Behind

LEMMA LeftKeeps ==
  ASSUME TypeOK, AllocInv, PhaseInv, PendingInv, CmdInv, InboxInv, LeftInv, FutInv, HistInv,
         [Next]_vars
  PROVE  LeftInv'
<1>0. Script' = Script  BY SameScript
<1>1. CASE Leave
  <2>1. /\ at \in Steps /\ at' = at + 1 /\ Flying' = Flying /\ at \in Int
        /\ phase = "ready" <=> SkipPoll
    BY <1>1, LeaveFrame, TheScript DEF Flying, AllocInv, PlaceInv
  <2> SUFFICES ASSUME NEW n \in Flying, n.re < at + 1, AwaitedAt(n.re)
               PROVE  Behind(n.re)'
    BY <1>0, <2>1 DEF LeftInv, AwaitedAt, Behind
  <2>2. Ours(n) /\ n.re <= at /\ n.re \in Int
    <3>1. ~Theirs(n)
      <4>1. Theirs(n) => n.re = 100 /\ n.re > at  BY TheirsFar
      <4> QED  BY <2>1, <4>1
    <3> QED  BY <3>1, OursPast DEF InboxInv
  <2>3. ~(Answered /\ fut = at)
    <3>1. ASSUME Answered, fut = at PROVE FALSE
      <4>1. n.re > at  BY <3>1 DEF Answered, FutInv
      <4> QED  BY <2>1, <2>2, <4>1
    <3> QED  BY <3>1
  <2>4. CASE n.re < at
    <3>1. Behind(n.re)  BY <2>4 DEF LeftInv
    <3> QED  BY <1>1, <2>3, <3>1, BehindLeave
  <2>5. CASE n.re = at
    <3>1. phase # "ready"  BY <2>2, <2>5, OursPast
    <3>2. Awaited  BY <2>5 DEF Awaited, AwaitedAt, Step
    <3>3. phase \notin {"draining", "confirming"}  BY <3>2 DEF PhaseInv
    <3>4. CASE Answered
      <4>1. fut # None /\ fut # at  BY <2>3, <3>4 DEF Answered
      <4>2. Behind(fut) /\ fut <= at /\ fut \in Int
        BY <2>1, <4>1, Whole DEF FutInv, Passed
      <4>3. Behind(at)
        <5>1. \A j \in timeouts : j \in Int  BY Whole
        <5> QED  BY <2>1, <4>2, <5>1 DEF Behind
      <4> QED  BY <1>1, <2>3, <2>5, <4>3, BehindLeave
    <3>5. CASE TimesOut
      <4>1. at \in timeouts' /\ served' = served  BY <3>5 DEF TimesOut
      <4>2. <<at, at>> \notin served  BY <2>1 DEF HistInv
      <4>3. \A k \in at .. at' - 1 : <<k, k>> \notin served'  BY <2>1, <4>1, <4>2
      <4> QED  BY <2>1, <2>5, <4>1, <4>3 DEF Behind
    <3> QED  BY <1>1, <3>1, <3>3, <3>4, <3>5, LeaveWaits
  <2> QED  BY <2>1, <2>2, <2>4, <2>5
<1>2. ASSUME at' = at, timeouts' = timeouts, served' = served,
             \A n \in Flying' : n \in Flying \/ ~(n.re < at)
      PROVE  LeftInv'
  <2>1. \A n \in Flying' : n.re < at /\ AwaitedAt(n.re) => Behind(n.re)
    BY <1>2 DEF LeftInv
  <2> QED  BY <1>0, <1>2, <2>1 DEF LeftInv, Behind, AwaitedAt
<1>3. CASE OnNotify \/ LoseNotify
  <2>1. inbox # <<>> /\ inbox' = Tail(inbox)  BY <1>3 DEF OnNotify, LoseNotify
  <2>2. Flying' \subseteq Flying  BY <2>1, InboxTail
  <2> QED  BY <1>2, <1>3, <2>2, NotifiedFrame DEF Notified
<1>4. ASSUME NEW c \in TimerCmds, TimerNotifies(c) PROVE LeftInv'
  <2>1. PICK n : inbox' = Append(inbox, n) /\ n.re = Volunteered
    BY <1>4 DEF TimerNotifies
  <2>2. Flying' = Flying \cup {n}  BY <2>1, InboxAppend
  <2>3. ~(n.re < at)
    <3>1. \A i \in 1 .. 21 : ~(100 < i)  OBVIOUS
    <3>2. at \in 1 .. 21  BY Whole
    <3> QED  BY <2>1, <3>1, <3>2 DEF Volunteered
  <2> QED  BY <1>2, <1>4, <2>2, <2>3, NotifiedFrame DEF Notified
<1>5. CASE TimerObeys
  <2>1. PICK n : inbox' = Append(inbox, n) /\ n.re = at
    BY <1>5 DEF TimerObeys, Answer
  <2>2. Flying' = Flying \cup {n}  BY <2>1, InboxAppend
  <2>3. ~(n.re < at)  BY <2>1, Whole
  <2>4. UNCHANGED <<at, timeouts, served>>  BY <1>5 DEF TimerObeys, waitVars
  <2> QED  BY <1>2, <2>2, <2>3, <2>4
<1>6. CASE Aside \/ BeginStep \/ WriteReturns \/ WriteFails \/ Listen \/ EndSession
           \/ TimerIgnores
  <2>1. UNCHANGED <<at, timeouts, served, inbox>>
    BY <1>6, AsideFrame DEF BeginStep, WriteReturns, WriteFails, Listen, EndSession,
       TimerIgnores, waitVars, timerVars
  <2>2. Flying' = Flying  BY <2>1 DEF Flying
  <2> QED  BY <1>2, <2>1, <2>2
<1> QED  BY <1>1, <1>3, <1>4, <1>5, <1>6, NextSplit DEF Notified

LEMMA FutKeeps ==
  ASSUME TypeOK, AllocInv, PhaseInv, PendingInv, CmdInv, InboxInv, LeftInv, FutInv,
         [Next]_vars, PendingInv'
  PROVE  FutInv'
<1>0. Script' = Script /\ Steps' = Steps  BY SameScript
<1>1. CASE Leave
  <2>1. phase' = "ready"  BY <1>1, LeaveFrame
  <2>2. fut' = None  BY <2>1 DEF PendingInv
  <2> QED  BY <2>2 DEF FutInv
<1>2. CASE BeginStep
  <2>1. phase = "ready" /\ fut' \in {None, fut}  BY <1>2 DEF BeginStep
  <2>2. fut' = None  BY <2>1 DEF PendingInv
  <2> QED  BY <2>2 DEF FutInv
<1>3. ASSUME fut' = fut, at' = at, timeouts' = timeouts, served' = served,
             fut # None => phase \in {"writing", "waiting", "closed"} /\ (Passed(fut) => Passed(fut)'),
             fut # None => \A n \in Flying' : n \in Flying \/ n.re > fut
      PROVE  FutInv'
  <2> SUFFICES ASSUME fut # None
               PROVE  /\ fut \in Steps /\ Passed(fut)'
                      /\ \A n \in Flying' : n.re > fut
                      /\ fut # at => SharesByte(fut, at) /\ Behind(fut)
    BY <1>0, <1>3 DEF FutInv, SharesByte, Behind, Passed
  <2> QED  BY <1>3 DEF FutInv
<1>4. CASE Aside
  <2>1. UNCHANGED <<fut, at, timeouts, served, inbox, phase, reached>>
    BY <1>4, AsideFrame
  <2>2. Flying' = Flying  BY <2>1 DEF Flying
  <2> QED  BY <1>3, <2>1, <2>2 DEF Passed, PendingInv
<1>5. CASE WriteReturns \/ WriteFails \/ Listen \/ EndSession \/ TimerIgnores
  <2>1. /\ UNCHANGED <<fut, at, timeouts, served, inbox>>
        /\ reached => reached'
        /\ phase # "ready" => phase' # "ready"
    BY <1>5 DEF WriteReturns, WriteFails, Listen, EndSession, TimerIgnores, waitVars,
       timerVars, futVars
  <2>2. Flying' = Flying  BY <2>1 DEF Flying
  <2> QED  BY <1>3, <2>1, <2>2 DEF Passed, PendingInv
<1>6. CASE TimerObeys
  <2>1. PICK n : inbox' = Append(inbox, n) /\ n.re = at
    BY <1>6 DEF TimerObeys, Answer
  <2>2. Flying' = Flying \cup {n}  BY <2>1, InboxAppend
  <2>3. UNCHANGED <<at, timeouts, served, fut, phase>> /\ reached' /\ ~reached
    BY <1>6 DEF TimerObeys, waitVars, futVars
  <2>4. fut # None => n.re > fut  BY <2>1, <2>3, Whole DEF FutInv, Passed
  <2> QED  BY <1>3, <2>2, <2>3, <2>4 DEF Passed, PendingInv
<1>7. ASSUME NEW c \in TimerCmds, TimerNotifies(c) PROVE FutInv'
  <2>1. PICK n : inbox' = Append(inbox, n) /\ n.re = Volunteered
    BY <1>7 DEF TimerNotifies
  <2>2. Flying' = Flying \cup {n}  BY <2>1, InboxAppend
  <2>3. UNCHANGED <<at, timeouts, served, phase, reached>>
    BY <1>7, NotifiedFrame DEF Notified
  <2>4. fut' = fut  BY <1>7 DEF TimerNotifies, futVars
  <2>5. fut # None => n.re > fut
    <3>1. \A i \in 1 .. 20 : 100 > i  OBVIOUS
    <3>2. fut # None => fut \in 1 .. 20  BY Whole DEF FutInv
    <3> QED  BY <2>1, <3>1, <3>2 DEF Volunteered
  <2> QED  BY <1>3, <2>2, <2>3, <2>4, <2>5 DEF Passed, PendingInv
<1>8. CASE OnNotify \/ LoseNotify
  <2>1. inbox # <<>> /\ inbox' = Tail(inbox)  BY <1>8 DEF OnNotify, LoseNotify
  <2>2. /\ Flying' \subseteq Flying /\ Head(inbox) \in Flying /\ Head(inbox) = inbox[1]
        /\ Len(inbox) \in Nat /\ Len(inbox') = Len(inbox) - 1
        /\ \A i \in 1 .. Len(inbox') : inbox'[i] = inbox[i + 1] /\ i + 1 \in 1 .. Len(inbox)
        /\ 1 \in 1 .. Len(inbox)
    BY <2>1, InboxTail
  <2>3. UNCHANGED <<at, timeouts, served, phase, reached>> /\ phase # "closed"
    BY <1>8, NotifiedFrame DEF Notified
  <2>4. CASE fut' = fut
    BY <1>3, <2>2, <2>3, <2>4 DEF Passed, PendingInv
  <2>5. CASE fut' # fut
    <3>1. PICK n : n = Head(inbox)  OBVIOUS
    <3>2. Completes(n) /\ fut' = n.re
      BY <1>8, <2>5, <3>1 DEF OnNotify, LoseNotify, futVars
    <3>3. /\ Ours(n) /\ at \in Steps /\ n \in Flying
          /\ n.re # at => SharesByte(n.re, at) /\ AwaitedAt(n.re) /\ n.re < at
      BY <2>2, <2>3, <3>1, <3>2, CompletesOwn
    <3>4. n.re \in Steps /\ Passed(n.re) /\ n.re # Volunteered /\ n.re \in Int
      BY <3>3, OursPast DEF Ours
    <3>5. n.re # at => Behind(n.re)  BY <3>3 DEF LeftInv
    <3>6. ASSUME NEW m \in Flying' PROVE m.re > n.re
      <4>1. PICK i \in 1 .. Len(inbox') : m = inbox'[i]  BY DEF Flying
      <4>2. m = inbox[i + 1] /\ i + 1 \in 1 .. Len(inbox) /\ 1 < i + 1  BY <2>2, <4>1
      <4>3. m \in Flying  BY <2>2
      <4>4. CASE Theirs(m)  BY <3>4, <4>4, TheirsFar
      <4>5. CASE Ours(m)
        <5>1. m.re # Volunteered /\ m.re \in Int  BY <4>5, OursPast
        <5>2. n.re < m.re
          BY <2>2, <3>1, <3>4, <4>2, <5>1 DEF InboxInv
        <5> QED  BY <3>4, <5>1, <5>2
      <4> QED  BY <4>3, <4>4, <4>5 DEF InboxInv
    <3> QED
      BY <1>0, <2>3, <3>2, <3>3, <3>4, <3>5, <3>6 DEF FutInv, Passed, SharesByte, Behind
  <2> QED  BY <2>4, <2>5
<1> QED  BY <1>1, <1>2, <1>4, <1>5, <1>6, <1>7, <1>8, NextSplit DEF Notified

LEMMA HistKeeps ==
  ASSUME TypeOK, AllocInv, FutInv, HistInv, [Next]_vars
  PROVE  HistInv'
<1>0. Script' = Script  BY SameScript
<1> DEFINE Own(s, T, S) ==
             \/ s[2] = s[1]
             \/ /\ s[2] < s[1] /\ SharesByte(s[2], s[1])
                /\ \E j \in T : j <= s[2] /\ \A k \in j .. s[1] - 1 : <<k, k>> \notin S
<1>1. (AnsweredByOwn <=> \A s \in served : Own(s, timeouts, served))
  BY DEF AnsweredByOwn
<1>2. AnsweredByOwn' <=> \A s \in served' : Own(s, timeouts', served')
  BY <1>0 DEF AnsweredByOwn, SharesByte
<1>3. CASE Leave
  <2>1. at' = at + 1 /\ at \in Int /\ at \in Steps /\ timeouts \subseteq Int
    BY <1>3, LeaveFrame, Whole
  <2>2. timeouts \subseteq timeouts'
        /\ (served' = served \/ (fut # None /\ served' = served \cup {<<at, fut>>}))
    BY <1>3, LeaveWaits
  <2>3. \A s \in served : s[1] \in Int /\ s[1] < at
    BY Whole DEF HistInv, TypeOK
  <2>4. \A k \in Int : k < at => (<<k, k>> \in served' <=> <<k, k>> \in served)
    BY <2>1, <2>2
  <2>5. ASSUME NEW s \in served PROVE Own(s, timeouts', served')
    <3>1. Own(s, timeouts, served)  BY <1>1 DEF HistInv
    <3>2. \A j \in timeouts : \A k \in j .. s[1] - 1 : k \in Int /\ k < at
      BY <2>1, <2>3
    <3> QED  BY <2>2, <2>4, <3>1, <3>2
  <2>6. ASSUME fut # None, NEW s, s = <<at, fut>> PROVE Own(s, timeouts', served') /\ s[1] = at
    <3>1. s[1] = at /\ s[2] = fut  BY <2>6
    <3>2. CASE fut # at
      <4>1. fut < at /\ SharesByte(fut, at) /\ Behind(fut)
        BY <2>1, <2>6, <3>2, Whole DEF FutInv, Passed
      <4>2. PICK j \in timeouts : j <= fut /\ \A k \in j .. at - 1 : <<k, k>> \notin served
        BY <4>1 DEF Behind
      <4>3. \A k \in j .. at - 1 : k \in Int /\ k < at  BY <2>1
      <4>4. \A k \in j .. at - 1 : <<k, k>> \notin served'  BY <2>4, <4>2, <4>3
      <4> QED  BY <2>2, <3>1, <4>1, <4>2, <4>4
    <3> QED  BY <3>1, <3>2
  <2>7. \A s \in served' : s \in served \/ (fut # None /\ s = <<at, fut>>)  BY <2>2
  <2>8. \A s \in served' : Own(s, timeouts', served')  BY <2>5, <2>6, <2>7
  <2>9. \A s \in served' : s[1] < at'
    <3>1. at < at + 1  BY <2>1
    <3>2. \A s \in served : s[1] < at + 1  BY <2>1, <2>3
    <3> QED  BY <2>1, <2>6, <2>7, <3>1, <3>2
  <2> QED  BY <1>2, <2>8, <2>9 DEF HistInv
<1>4. CASE UNCHANGED <<at, timeouts, served>>
  BY <1>1, <1>2, <1>4 DEF HistInv
<1>5. ~Leave => UNCHANGED <<at, timeouts, served>>
  BY NextSplit, AsideFrame, NotifiedFrame
     DEF BeginStep, WriteReturns, WriteFails, Listen, EndSession, TimerObeys, TimerIgnores,
         waitVars
<1> QED  BY <1>3, <1>4, <1>5

\* The id of the frames changes only when the status session of an onboarding begins.
LEMMA MagicKeeps ==
  ASSUME TypeOK, AllocInv, MagicInv, [Next]_vars
  PROVE  /\ MagicInv'
         /\ Prefixed' => Prefixed
         /\ magic' = magic \/ (BeginStep /\ op = "onboard" /\ magic' = assigned /\ at = 7)
<1>0. /\ at \in Int /\ op' = op
      /\ Len(gen1_onboard_writes) = 6
  BY SameScript, Whole DEF gen1_onboard_writes
<1>1. CASE BeginStep
  <2>1. at' = at /\ phase = "ready" /\ phase' = "writing" /\ magic' = ScriptMagic
    BY <1>1 DEF BeginStep
  <2>2. CASE magic' = magic  BY <1>0, <2>1, <2>2 DEF MagicInv, Begun, Prefixed
  <2>3. CASE magic' # magic
    <3>1. op = "onboard" /\ at = 7 /\ magic' = assigned  BY <1>0, <2>1, <2>3 DEF ScriptMagic
    <3>2. Begun(7)' /\ ~Begun(7)  BY <1>0, <2>1, <3>1 DEF Begun
    <3> QED  BY <1>0, <1>1, <3>1, <3>2 DEF MagicInv
  <2> QED  BY <2>2, <2>3
<1>2. CASE ~BeginStep
  <2>1. magic' = magic
    BY <1>2 DEF Next, ScriptNext, SkipPoll, WriteReturns, WriteFails, Answered, TimesOut,
           DrainQuiet, PauseOver, Listen, EndSession, OnNotify, AckSent, AckFails, TimerObeys,
           TimerIgnores, TimerNotifies, LoseNotify, NotifyAges, CommitAges, vars
  <2>2. Begun(7) => Begun(7)'
    <3>1. CASE Leave  BY <1>0, <3>1, LeaveFrame DEF Begun
    <3>2. CASE ~Leave
      <4>1. at' = at /\ (phase # "ready" => phase' # "ready")
        BY <1>2, <3>2, NextSplit, AsideFrame, NotifiedFrame
           DEF WriteReturns, WriteFails, Listen, EndSession, TimerObeys, TimerIgnores
      <4> QED  BY <4>1 DEF Begun
    <3> QED  BY <3>1, <3>2
  <2> QED  BY <1>0, <2>1, <2>2 DEF MagicInv, Prefixed
<1> QED  BY <1>1, <1>2

LEMMA InitAnswer == Init => AnswerInv
<1> SUFFICES ASSUME Init PROVE AnswerInv  OBVIOUS
<1>1. TypeOK /\ AllocInv /\ ViewInv  BY InitType, InitAlloc, InitView
<1>2. PhaseInv /\ PendingInv  BY DEF Init, PhaseInv, PendingInv, None
<1>3. CmdInv
  <2>1. at = 1 /\ phase = "ready" /\ used = <<>> /\ cur = 0  BY DEF Init
  <2>2. \A k \in Steps : ~Begun(k)  BY <2>1, <1>1, Whole, SMTT(30) DEF Begun
  <2> QED  BY <2>1, <2>2 DEF CmdInv
<1>4. Flying = {} /\ Len(inbox) = 0  BY DEF Init, Flying
<1>5. InboxInv /\ LeftInv  BY <1>4 DEF InboxInv, LeftInv
<1>6. FutInv /\ HistInv /\ MagicInv
  BY DEF Init, FutInv, HistInv, AnsweredByOwn, MagicInv, Prefixed
<1> QED  BY <1>1, <1>2, <1>3, <1>5, <1>6 DEF AnswerInv

LEMMA AnswerKeeps == AnswerInv /\ [Next]_vars => AnswerInv'
<1> SUFFICES ASSUME AnswerInv, [Next]_vars PROVE AnswerInv'  OBVIOUS
<1> USE DEF AnswerInv
<1>1. TypeOK' /\ AllocInv' /\ ViewInv'  BY TypeKeeps, AllocPreserved, StepRefines
<1>2. PhaseInv' /\ PendingInv' /\ CmdInv'  BY PhaseKeeps, PendingKeeps, CmdKeeps
<1>3. InboxInv' /\ LeftInv'  BY InboxKeeps, LeftKeeps
<1>4. FutInv' /\ HistInv' /\ MagicInv'  BY <1>2, FutKeeps, HistKeeps, MagicKeeps
<1> QED  BY <1>1, <1>2, <1>3, <1>4

LEMMA AnswerInvariance == Spec => []AnswerInv
BY InitAnswer, AnswerKeeps, PTL DEF Spec

\* Every variable of a session keeps its type: bytes are bytes, and the faults stay within
\* their bound.
THEOREM SessionTypes == Spec => []TypeOK
<1>1. AnswerInv => TypeOK  BY DEF AnswerInv
<1> QED  BY <1>1, AnswerInvariance, PTL

\* A wait ends with the answer to its own command, or with that of an older step of the
\* same byte while the session runs behind.
THEOREM AnswersMatch == Spec => []AnsweredByOwn
<1>1. AnswerInv => AnsweredByOwn  BY DEF AnswerInv, HistInv
<1> QED  BY <1>1, AnswerInvariance, PTL

-------------------------------------------------------------------------------
(* How many steps give up waiting                                           *)

LEMMA InFlightAt == AnswerInFlight <=> \E n \in Flying : n.re = at
BY DEF AnswerInFlight, Flying

LEMMA TimeoutsFinite ==
  ASSUME TypeOK, AllocInv
  PROVE  IsFiniteSet(timeouts) /\ Cardinality(timeouts) \in Nat
<1>1. 1 \in Int /\ 20 \in Int  OBVIOUS
<1>2. IsFiniteSet(1 .. 20)  BY <1>1, FS_Interval, Zenon
<1>3. timeouts \subseteq 1 .. 20  BY Whole
<1>4. IsFiniteSet(timeouts)  BY <1>2, <1>3, FS_Subset
<1> QED  BY <1>4, FS_CardinalityType

LEMMA TimeoutsCounted ==
  ASSUME TypeOK, AllocInv, NEW i \in Steps
  PROVE  /\ Cardinality(timeouts) \in Nat
         /\ Cardinality(timeouts \cup {i}) \in Nat
         /\ Cardinality(timeouts \cup {i}) <= Cardinality(timeouts) + 1
<1>1. IsFiniteSet(timeouts) /\ Cardinality(timeouts) \in Nat  BY TimeoutsFinite
<1>2. Cardinality(timeouts \cup {i}) =
        (IF i \in timeouts THEN Cardinality(timeouts) ELSE Cardinality(timeouts) + 1)
  BY <1>1, FS_AddElement
<1> QED  BY <1>1, <1>2

\* While no byte with the response bit was allocated, the answer of a step completes it.
LEMMA OwnCompletes ==
  ASSUME AnswerInv, NoBit, phase \in {"writing", "waiting"}, Awaited, fut = None,
         NEW n \in Flying, n.re = at
  PROVE  Completes(n)
<1>0. TypeOK /\ AllocInv /\ PendingInv /\ CmdInv /\ InboxInv  BY DEF AnswerInv
<1>1. Ours(n)
  <2>1. ~Theirs(n)
    <3>1. Theirs(n) => n.re > at  BY <1>0, TheirsFar
    <3> QED  BY <1>0, <3>1, Whole
  <2> QED  BY <1>0, <2>1 DEF InboxInv
<1>2. n.cmd = WithResponseBit(cmd) /\ at \in Steps  BY <1>1 DEF Ours, Bytes
<1>3. pending = cmd /\ cmd # 0  BY <1>0 DEF PendingInv
<1>4. cmd = (IF Step.num = "fixed" THEN Step.cmd ELSE cur)
      /\ (Step.num # "fixed" => used # <<>>)
  BY <1>0, <1>2 DEF CmdInv
<1>5. ~HasResponseBit(cmd)
  <2>1. CASE Step.num = "fixed"
    <3>1. StepShape(Script, at)  BY <1>0, <1>2, TheScript DEF AllocInv, PlaceInv
    <3> QED  BY <1>4, <2>1, <3>1 DEF StepShape, Step
  <2>2. CASE Step.num # "fixed"
    <3>1. cur = used[Len(used)]  BY <1>0, <1>4, <2>2, LastByte
    <3>2. Len(used) \in 1 .. Len(used)  BY <1>0, <1>4, <2>2 DEF CmdInv
    <3> QED  BY <1>4, <2>2, <3>1, <3>2 DEF NoBit
  <2> QED  BY <2>1, <2>2
<1>6. cmd \in 0 .. 255  BY <1>0 DEF TypeOK
<1>7. request_cmd(n.cmd) = cmd  BY <1>2, <1>5, <1>6, BitCases
<1> QED  BY <1>3, <1>7 DEF Completes, None

LEMMA InitCounts == Init => CountsInv
<1> SUFFICES ASSUME Init PROVE CountsInv  OBVIOUS
<1>1. timeouts = {} /\ losses = 0 /\ lates = 0 /\ ~Missing  BY DEF Init, Missing
<1>2. Cardinality(timeouts) = 0  BY <1>1, FS_EmptySet
<1> QED  BY <1>1, <1>2 DEF CountsInv, Faults

LEMMA CountsKeeps == AnswerInv /\ CountsInv /\ [Next]_vars => CountsInv'
<1> SUFFICES ASSUME AnswerInv, CountsInv, [Next]_vars, Prefixed', NoBit'
             PROVE  Cardinality(timeouts') + (IF Missing' THEN 1 ELSE 0) <= losses' + lates'
  BY DEF CountsInv, Faults
<1>0. /\ TypeOK /\ AllocInv /\ PhaseInv /\ PendingInv /\ CmdInv /\ InboxInv
      /\ losses \in Nat /\ lates \in Nat
      /\ Script' = Script
  BY SameScript DEF AnswerInv, TypeOK
<1>t. Cardinality(timeouts) \in Nat  BY <1>0, TimeoutsFinite
<1>m. Prefixed  BY MagicKeeps DEF AnswerInv
<1>b. NoBit
  <2>1. used' = used \/ used' = Append(used, next_cmd)
    BY NextSplit, AsideFrame, NotifiedFrame, <1>0, LeaveFrame
       DEF BeginStep, alloc_cmd, WriteReturns, WriteFails, Listen, EndSession, TimerObeys,
           TimerIgnores, cmdVars
  <2>2. used \in Seq(Int)  BY <1>0 DEF AllocInv, FreshInv
  <2>3. \A i \in 1 .. Len(used) : i \in 1 .. Len(used') /\ used'[i] = used[i]
    <3>1. CASE used' = used  BY <3>1
    <3>2. CASE used' = Append(used, next_cmd)
      <4>1. next_cmd \in Int  BY <1>0 DEF AllocInv, CountInv
      <4> QED  BY <2>2, <3>2, <4>1
    <3> QED  BY <2>1, <3>1, <3>2
  <2> QED  BY <2>3 DEF NoBit
<1>c. Cardinality(timeouts) + (IF Missing THEN 1 ELSE 0) <= losses + lates
  BY <1>b, <1>m DEF CountsInv, Faults
<1>d. Cardinality(timeouts) <= losses + lates
      /\ (Missing => Cardinality(timeouts) + 1 <= losses + lates)
  BY <1>c, <1>t, <1>0
<1>e. ASSUME timeouts' = timeouts, losses' \in {losses, losses + 1}, lates' = lates,
             ~Missing' \/ Missing \/ losses' = losses + 1
      PROVE  Cardinality(timeouts') + (IF Missing' THEN 1 ELSE 0) <= losses' + lates'
  <2>1. CASE Missing'
    <3>1. Cardinality(timeouts) + 1 <= losses' + lates  BY <1>0, <1>d, <1>e, <1>t, <2>1
    <3> QED  BY <1>e, <2>1, <3>1
  <2>2. CASE ~Missing'
    <3>1. Cardinality(timeouts) + 0 <= losses' + lates  BY <1>0, <1>d, <1>e, <1>t
    <3> QED  BY <1>e, <2>2, <3>1
  <2> QED  BY <2>1, <2>2
<1>1. CASE Aside
  <2>1. losses' \in {losses, losses + 1}
    BY <1>1 DEF Aside, AckSent, AckFails, NotifyAges, CommitAges, vars, faultVars
  <2>2. UNCHANGED <<timeouts, lates, phase, reached, fut, inbox, at>>  BY <1>1, AsideFrame
  <2>3. Missing' => Missing  BY <1>0, <2>2 DEF Missing, Awaited, Step, AnswerInFlight
  <2> QED  BY <1>e, <2>1, <2>2, <2>3
<1>2. CASE BeginStep \/ WriteFails \/ Listen \/ EndSession
  <2>1. /\ UNCHANGED <<timeouts, lates>> /\ losses' \in {losses, losses + 1}
        /\ ~reached' \/ phase' \in {"closed", "listening"}
    BY <1>2 DEF BeginStep, WriteFails, Listen, EndSession, waitVars, faultVars
  <2> QED  BY <1>e, <2>1 DEF Missing
<1>3. CASE WriteReturns
  <2>1. UNCHANGED <<timeouts, lates, losses, reached, fut, inbox, at>> /\ phase = "writing"
    BY <1>3 DEF WriteReturns, waitVars, faultVars, futVars, timerVars
  <2>2. Missing' => Missing  BY <1>0, <2>1 DEF Missing, Awaited, Step, AnswerInFlight
  <2> QED  BY <1>e, <2>1, <2>2
<1>4. CASE TimerObeys
  <2>1. PICK n : inbox' = Append(inbox, n) /\ n.re = at
    BY <1>4 DEF TimerObeys, Answer
  <2>2. UNCHANGED <<timeouts, lates, losses, at>>
    BY <1>4 DEF TimerObeys, waitVars, faultVars
  <2>3. AnswerInFlight'
    <3>1. Len(inbox') \in 1 .. Len(inbox') /\ inbox'[Len(inbox')] = n
      BY <1>0, <2>1, InboxAppend
    <3> QED  BY <2>1, <2>2, <3>1 DEF AnswerInFlight
  <2> QED  BY <1>e, <2>2, <2>3 DEF Missing
<1>5. CASE TimerIgnores
  BY <1>e, <1>m, <1>5 DEF TimerIgnores, waitVars
<1>6. CASE LoseNotify
  BY <1>e, <1>6, NotifiedFrame DEF LoseNotify, Notified
<1>7. ASSUME NEW c \in TimerCmds, TimerNotifies(c)
      PROVE  Cardinality(timeouts') + (IF Missing' THEN 1 ELSE 0) <= losses' + lates'
  <2>1. PICK n : inbox' = Append(inbox, n)  BY <1>7 DEF TimerNotifies
  <2>2. UNCHANGED <<timeouts, lates, losses, at, phase, reached, fut>>
    BY <1>7 DEF TimerNotifies, waitVars, faultVars, stepVars, futVars
  <2>3. AnswerInFlight => AnswerInFlight'
    <3>1. \A i \in 1 .. Len(inbox) : i \in 1 .. Len(inbox') /\ inbox'[i] = inbox[i]
      BY <1>0, <2>1, InboxAppend
    <3> QED  BY <2>2, <3>1 DEF AnswerInFlight
  <2>4. Missing' => Missing  BY <1>0, <2>2, <2>3 DEF Missing, Awaited, Step
  <2> QED  BY <1>e, <2>2, <2>4
<1>8. CASE OnNotify
  <2>1. PICK n : n = Head(inbox)  OBVIOUS
  <2>2. /\ inbox # <<>> /\ inbox' = Tail(inbox)
        /\ UNCHANGED <<timeouts, lates, losses, at, phase, reached>>
        /\ fut' = IF Completes(n) THEN n.re ELSE fut
    BY <1>8, <2>1 DEF OnNotify, waitVars, faultVars, stepVars
  <2>3. n \in Flying /\ \A m \in Flying : m = n \/ m \in Flying'
    BY <1>0, <2>1, <2>2, InboxTail
  <2>4. ASSUME Missing', ~Missing PROVE FALSE
    <3>1. /\ phase \in {"writing", "waiting"} /\ reached /\ Awaited /\ fut' = None
          /\ ~AnswerInFlight'
      BY <1>0, <2>2, <2>4 DEF Missing, Awaited, Step
    <3>2. fut = None
      <4>1. Completes(n) => fut = None  BY DEF Completes
      <4> QED  BY <2>2, <3>1, <4>1
    <3>3. AnswerInFlight  BY <2>4, <3>1, <3>2 DEF Missing
    <3>4. n.re = at
      <4>1. PICK m \in Flying : m.re = at  BY <3>3, InFlightAt
      <4>2. m \notin Flying'  BY <2>2, <3>1, <4>1 DEF AnswerInFlight, Flying
      <4> QED  BY <2>3, <4>1, <4>2
    <3>5. Completes(n)  BY <1>b, <2>3, <3>1, <3>2, <3>4, OwnCompletes
    <3>6. fut' = at /\ at # None
      <4>1. fut' = n.re  BY <2>2, <3>5
      <4>2. at \in 1 .. 21  BY <1>0, Whole
      <4> QED  BY <3>4, <4>1, <4>2 DEF None
    <3> QED  BY <3>1, <3>6
  <2> QED  BY <1>e, <2>2, <2>4
<1>9. CASE Leave
  <2>1. ~Missing' /\ losses' = losses /\ at \in Steps
    BY <1>0, <1>9, LeaveFrame DEF Missing
  <2>2. CASE TimesOut
    <3>1. /\ phase = "waiting" /\ fut = None /\ timeouts' = timeouts \cup {at}
          /\ lates' = IF AnswerInFlight THEN lates + 1 ELSE lates
      BY <2>2 DEF TimesOut
    <3>2. AnswerInFlight \/ Missing  BY <1>0, <3>1 DEF Missing, PhaseInv
    <3>3. Cardinality(timeouts') \in Nat /\ Cardinality(timeouts') <= Cardinality(timeouts) + 1
      BY <1>0, <2>1, <3>1, TimeoutsCounted
    <3>4. Cardinality(timeouts) + 1 <= losses + lates'
      <4>1. CASE AnswerInFlight  BY <1>0, <1>d, <1>t, <3>1, <4>1
      <4>2. CASE ~AnswerInFlight  BY <1>0, <1>d, <1>t, <3>1, <3>2, <4>2
      <4> QED  BY <4>1, <4>2
    <3>5. lates' \in Nat  BY <1>0, <3>1
    <3>6. Cardinality(timeouts') <= losses + lates'  BY <1>0, <1>t, <3>3, <3>4, <3>5
    <3> QED  BY <2>1, <3>3, <3>6
  <2>3. CASE ~TimesOut
    <3>1. timeouts' = timeouts /\ lates' = lates
      BY <1>9, <2>3 DEF Leave, SkipPoll, Answered, DrainQuiet, PauseOver, waitVars, faultVars
    <3> QED  BY <1>e, <2>1, <3>1
  <2> QED  BY <2>2, <2>3
<1> QED  BY <1>1, <1>2, <1>3, <1>4, <1>5, <1>6, <1>7, <1>8, <1>9, NextSplit DEF Notified

\* As long as no allocated byte has the response bit itself, no more steps give up waiting
\* than frames were lost or late: an answer that arrives completes its wait, even when it
\* overtakes the return of its own write.  Only a session that goes over to another id than
\* that of network_char is excepted.
THEOREM TimeoutsAreFaults == Spec => []NoSpuriousTimeout
<1>1. AnswerInv /\ CountsInv => NoSpuriousTimeout
  <2> SUFFICES ASSUME AnswerInv, CountsInv, Prefixed, NoBit
               PROVE  Cardinality(timeouts) <= losses + lates
    BY DEF NoSpuriousTimeout, NoBit
  <2>1. Cardinality(timeouts) \in Nat  BY TimeoutsFinite DEF AnswerInv
  <2>2. losses \in Nat /\ lates \in Nat  BY DEF AnswerInv, TypeOK
  <2>3. Cardinality(timeouts) + (IF Missing THEN 1 ELSE 0) <= losses + lates
    BY DEF CountsInv, Faults
  <2> QED  BY <2>1, <2>2, <2>3
<1> QED  BY <1>1, InitCounts, CountsKeeps, AnswerInvariance, PTL DEF Spec

-------------------------------------------------------------------------------
(* The order of the ACKs                                                    *)

LEMMA RisingTail ==
  ASSUME NEW s \in Seq(Nat), s # <<>>, Rising(s)
  PROVE  /\ Rising(Tail(s)) /\ Head(s) \in Nat
         /\ \A j \in 1 .. Len(Tail(s)) : /\ Head(s) < Tail(s)[j]
                                         /\ \E k \in 1 .. Len(s) : Tail(s)[j] = s[k]
         /\ \A e : Below(s, e) => Below(Tail(s), e) /\ Head(s) < e
         /\ \E k \in 1 .. Len(s) : Head(s) = s[k]
<1>1. /\ Tail(s) \in Seq(Nat) /\ Head(s) = s[1] /\ Len(Tail(s)) = Len(s) - 1 /\ Len(s) \in Nat
      /\ 1 \in 1 .. Len(s) /\ s[1] \in Nat
      /\ \A j \in 1 .. Len(Tail(s)) : Tail(s)[j] = s[j + 1] /\ j + 1 \in 1 .. Len(s) /\ 1 < j + 1
  OBVIOUS
<1>2. \A i, j \in 1 .. Len(Tail(s)) : i < j => i + 1 < j + 1  BY <1>1
<1> QED  BY <1>1, <1>2 DEF Rising, Below

LEMMA RisingAppend ==
  ASSUME NEW s \in Seq(Nat), NEW e \in Nat, Rising(s), Below(s, e)
  PROVE  /\ Rising(Append(s, e))
         /\ \A f : Below(s, f) /\ e < f => Below(Append(s, e), f)
         /\ \A j \in 1 .. Len(Append(s, e)) :
              Append(s, e)[j] = e \/ \E k \in 1 .. Len(s) : Append(s, e)[j] = s[k]
<1>1. /\ Len(s) \in Nat /\ Len(Append(s, e)) = Len(s) + 1 /\ Append(s, e)[Len(s) + 1] = e
      /\ \A i \in 1 .. Len(s) : Append(s, e)[i] = s[i]
  OBVIOUS
<1>2. \A j \in 1 .. Len(Append(s, e)) : j \in 1 .. Len(s) \/ j = Len(s) + 1
  BY <1>1
<1>3. ASSUME NEW i \in 1 .. Len(Append(s, e)), NEW j \in 1 .. Len(Append(s, e)), i < j
      PROVE  Append(s, e)[i] < Append(s, e)[j]
  <2>1. i \in 1 .. Len(s)  BY <1>1, <1>3
  <2> QED  BY <1>1, <1>2, <1>3, <2>1 DEF Rising, Below
<1> QED  BY <1>1, <1>2, <1>3 DEF Rising, Below

\* An async notify is one the timer volunteered: answers have the response bit.
LEMMA AsyncTheirs ==
  ASSUME TypeOK, AllocInv, InboxInv, NEW n \in Flying, IsAsync(n)
  PROVE  n.re = Volunteered
<1>1. ~HasResponseBit(n.cmd)
  <2>1. n.cmd \in 0 .. 255 /\ ~(n.cmd \in 64 .. 127) /\ ~(n.cmd \in 192 .. 255)
    BY DEF IsAsync, AsyncCmds
  <2> QED  BY <2>1, BitRange
<1>2. ~Ours(n)
  <2> SUFFICES ASSUME Ours(n) PROVE HasResponseBit(n.cmd)  BY <1>1
  <2>1. n.re \in Steps /\ Bytes(n)  BY DEF Ours
  <2>2. CASE Script[n.re].num = "fixed"
    <3>1. Script[n.re].cmd \in 0 .. 255
      <4>1. Script[n.re].cmd \in 1 .. 134
        BY <2>1, <2>2, TheScript DEF AllocInv, PlaceInv
      <4> QED  BY <4>1
    <3>2. n.cmd = WithResponseBit(Script[n.re].cmd)  BY <2>1, <2>2 DEF Bytes
    <3>3. HasResponseBit(WithResponseBit(Script[n.re].cmd))  BY <3>1, BitCases, Zenon
    <3> QED  BY <3>2, <3>3, Zenon
  <2>3. CASE Script[n.re].num # "fixed"
    <3>1. PICK c \in FirstCmd .. cur : n.cmd = WithResponseBit(c)  BY <2>1, <2>3 DEF Bytes
    <3>2. cur \in 0 .. 255  BY DEF TypeOK
    <3>3. c \in 0 .. 255  BY <3>1, <3>2 DEF FirstCmd
    <3>4. HasResponseBit(WithResponseBit(c))  BY <3>3, BitCases
    <3> QED  BY <3>1, <3>4
  <2> QED  BY <2>2, <2>3
<1> QED  BY <1>2 DEF InboxInv, Theirs

LEMMA AckKeeps == AnswerInv /\ AckInv /\ [Next]_vars => AckInv'
<1> SUFFICES ASSUME AnswerInv, AckInv, [Next]_vars PROVE AckInv'  OBVIOUS
<1>0. /\ TypeOK /\ AllocInv /\ InboxInv
      /\ acks \in Seq(Nat) /\ acked \in Seq(Nat) /\ nasync \in Nat
  BY DEF AnswerInv, TypeOK
<1> DEFINE Order == \A i, j \in 1 .. Len(inbox) :
             i < j /\ inbox[i].re = Volunteered /\ inbox[j].re = Volunteered
               => inbox[i].sn < inbox[j].sn
<1>a. ASSUME inbox' = inbox, nasync' = nasync, acks' = Tail(acks), acks # <<>>,
             acked' \in {acked, Append(acked, Head(acks))}
      PROVE  AckInv'
  <2>1. Rising(acks) /\ acks \in Seq(Nat)  BY <1>0 DEF AckInv
  <2>2. /\ Rising(Tail(acks)) /\ Head(acks) \in Nat
        /\ \A j \in 1 .. Len(Tail(acks)) : /\ Head(acks) < Tail(acks)[j]
                                           /\ \E k \in 1 .. Len(acks) : Tail(acks)[j] = acks[k]
        /\ \A e : Below(acks, e) => Below(Tail(acks), e) /\ Head(acks) < e
        /\ \E k \in 1 .. Len(acks) : Head(acks) = acks[k]
    BY <1>a, <2>1, RisingTail
  <2>3. Below(acked, Head(acks)) /\ Rising(acked)  BY <2>2 DEF AckInv
  <2>4. /\ Rising(acked')
        /\ \A f : Below(acked, f) /\ Head(acks) < f => Below(acked', f)
    <3>1. acked \in Seq(Nat) /\ Head(acks) \in Nat  BY <1>0, <2>2, Zenon
    <3>2. CASE acked' = acked  BY <2>3, <3>2, Zenon
    <3>3. CASE acked' = Append(acked, Head(acks))  BY <2>3, <3>1, <3>3, RisingAppend, Zenon
    <3> QED  BY <1>a, <3>2, <3>3, Zenon
  <2>5. Flying' = Flying /\ Order'  BY <1>a DEF Flying, AckInv
  <2>6. \A j \in 1 .. Len(acks') : Below(acked', acks'[j])  BY <1>a, <2>2, <2>4 DEF AckInv
  <2>7. Below(acked', nasync' + 1) /\ Below(acks', nasync' + 1)
    BY <1>a, <2>2, <2>4 DEF AckInv
  <2>8. \A n \in Flying' : n.re = Volunteered =>
           Below(acked', n.sn) /\ Below(acks', n.sn) /\ n.sn < nasync' + 1
    BY <1>a, <2>2, <2>4, <2>5 DEF AckInv
  <2>9. Rising(acks')  BY <1>a, <2>2
  <2> QED  BY <2>4, <2>5, <2>6, <2>7, <2>8, <2>9 DEF AckInv
<1>b. ASSUME UNCHANGED <<acks, acked, nasync, inbox>> PROVE AckInv'
  BY <1>b DEF AckInv, Flying
<1>c. ASSUME inbox # <<>>, inbox' = Tail(inbox), acked' = acked, nasync' = nasync
      PROVE  /\ Order' /\ Flying' \subseteq Flying
             /\ Head(inbox) \in Flying /\ Head(inbox) \in Notify
             /\ Head(inbox).re = Volunteered =>
                  \A m \in Flying' : m.re = Volunteered => Head(inbox).sn < m.sn
  <2>1. /\ Len(inbox) \in Nat /\ Len(inbox') = Len(inbox) - 1
        /\ \A i \in 1 .. Len(inbox') : inbox'[i] = inbox[i + 1] /\ i + 1 \in 1 .. Len(inbox)
        /\ 1 \in 1 .. Len(inbox) /\ Head(inbox) = inbox[1]
        /\ Head(inbox) \in Flying /\ Head(inbox) \in Notify /\ Flying' \subseteq Flying
    BY <1>0, <1>c, InboxTail
  <2>2. \A i, j \in 1 .. Len(inbox') : i < j => i + 1 < j + 1  BY <2>1
  <2>3. Order'  BY <2>1, <2>2 DEF AckInv
  <2>4. \A i \in 1 .. Len(inbox') : 1 < i + 1  BY <2>1
  <2>5. ASSUME Head(inbox).re = Volunteered, NEW m \in Flying', m.re = Volunteered
        PROVE  Head(inbox).sn < m.sn
    <3>1. PICK i \in 1 .. Len(inbox') : m = inbox'[i]  BY DEF Flying
    <3> QED  BY <2>1, <2>4, <2>5, <3>1 DEF AckInv
  <2> QED  BY <2>1, <2>3, <2>5
<1>1. CASE LoseNotify
  BY <1>1, <1>c DEF LoseNotify, ackVars, AckInv
<1>2. CASE OnNotify
  <2>1. PICK n : n = Head(inbox)  OBVIOUS
  <2>2. /\ inbox # <<>> /\ inbox' = Tail(inbox) /\ acked' = acked /\ nasync' = nasync
        /\ acks' = IF IsAsync(n) THEN Append(acks, n.sn) ELSE acks
    BY <1>2, <2>1 DEF OnNotify
  <2>3. /\ Order' /\ Flying' \subseteq Flying /\ n \in Flying /\ n \in Notify
        /\ n.re = Volunteered => \A m \in Flying' : m.re = Volunteered => n.sn < m.sn
    BY <1>c, <2>1, <2>2
  <2>4. CASE ~IsAsync(n)
    BY <2>2, <2>3, <2>4 DEF AckInv
  <2>5. CASE IsAsync(n)
    <3>1. n.re = Volunteered /\ n.sn \in Nat
      BY <1>0, <2>3, <2>5, AsyncTheirs DEF Notify
    <3>2. Rising(acks) /\ Below(acks, n.sn) /\ Below(acked, n.sn) /\ n.sn < nasync + 1
      BY <2>3, <3>1 DEF AckInv
    <3>3. /\ Rising(acks')
          /\ \A f : Below(acks, f) /\ n.sn < f => Below(acks', f)
          /\ \A j \in 1 .. Len(acks') :
               acks'[j] = n.sn \/ \E k \in 1 .. Len(acks) : acks'[j] = acks[k]
      BY <1>0, <2>2, <2>5, <3>1, <3>2, RisingAppend
    <3>4. \A j \in 1 .. Len(acks') : Below(acked', acks'[j])
      BY <2>2, <3>2, <3>3 DEF AckInv
    <3>5. Rising(acked') /\ Below(acked', nasync' + 1) /\ Below(acks', nasync' + 1)
      BY <2>2, <3>2, <3>3 DEF AckInv
    <3>6. \A m \in Flying' : m.re = Volunteered =>
             Below(acked', m.sn) /\ Below(acks', m.sn) /\ m.sn < nasync' + 1
      BY <2>2, <2>3, <3>1, <3>3 DEF AckInv
    <3> QED  BY <2>3, <3>3, <3>4, <3>5, <3>6 DEF AckInv
  <2> QED  BY <2>4, <2>5
<1>d. ASSUME NEW n, inbox' = Append(inbox, n), UNCHANGED <<acks, acked>>,
             \/ n.re # Volunteered /\ nasync' = nasync
             \/ n.re = Volunteered /\ nasync' = nasync + 1 /\ n.sn = nasync'
      PROVE  AckInv'
  <2>1. /\ Len(inbox) \in Nat /\ Len(inbox') = Len(inbox) + 1
        /\ inbox'[Len(inbox) + 1] = n
        /\ \A i \in 1 .. Len(inbox) : inbox'[i] = inbox[i]
        /\ \A i \in 1 .. Len(inbox') : i \in 1 .. Len(inbox) \/ i = Len(inbox) + 1
        /\ Flying' = Flying \cup {n}
    BY <1>0, <1>d, InboxAppend
  <2>2. \A s \in Seq(Nat) : Below(s, nasync + 1) => Below(s, nasync' + 1)
    <3> SUFFICES ASSUME NEW s \in Seq(Nat), Below(s, nasync + 1), NEW i \in 1 .. Len(s)
                 PROVE  s[i] < nasync' + 1
      BY DEF Below
    <3>1. s[i] \in Nat /\ s[i] < nasync + 1  BY DEF Below
    <3> QED  BY <1>0, <1>d, <3>1
  <2>3. Below(acked', nasync' + 1) /\ Below(acks', nasync' + 1)
    BY <1>0, <1>d, <2>2 DEF AckInv
  <2>4. ASSUME NEW m \in Flying, m.re = Volunteered PROVE m.sn \in Nat /\ m.sn < nasync + 1
    <3>1. m \in Notify  BY <1>0, FlyingType
    <3> QED  BY <2>4, <3>1 DEF AckInv, Notify
  <2>5. \A m \in Flying' : m.re = Volunteered =>
           Below(acked', m.sn) /\ Below(acks', m.sn) /\ m.sn < nasync' + 1
    <3> SUFFICES ASSUME NEW m \in Flying', m.re = Volunteered
                 PROVE  Below(acked, m.sn) /\ Below(acks, m.sn) /\ m.sn < nasync' + 1
      BY <1>d
    <3>1. CASE m \in Flying
      <4>1. m.sn < nasync' + 1  BY <1>0, <1>d, <2>4, <3>1
      <4> QED  BY <3>1, <4>1 DEF AckInv
    <3>2. CASE m = n
      BY <1>0, <1>d, <3>2 DEF AckInv
    <3> QED  BY <2>1, <3>1, <3>2
  <2>6. Order'
    <3> SUFFICES ASSUME NEW i \in 1 .. Len(inbox'), NEW j \in 1 .. Len(inbox'), i < j,
                        inbox'[i].re = Volunteered, inbox'[j].re = Volunteered
                 PROVE  inbox'[i].sn < inbox'[j].sn
      OBVIOUS
    <3>1. i \in 1 .. Len(inbox) /\ inbox'[i] = inbox[i] /\ inbox[i] \in Flying
      BY <2>1 DEF Flying
    <3>2. CASE j \in 1 .. Len(inbox)
      BY <2>1, <3>1, <3>2 DEF AckInv
    <3>3. CASE j = Len(inbox) + 1
      <4>1. n.sn = nasync + 1 /\ inbox'[j] = n  BY <1>d, <2>1, <3>3
      <4> QED  BY <2>4, <3>1, <4>1
    <3> QED  BY <2>1, <3>2, <3>3
  <2> QED  BY <1>d, <2>3, <2>5, <2>6 DEF AckInv
<1>3. ASSUME NEW c \in TimerCmds, TimerNotifies(c) PROVE AckInv'
  <2>1. PICK n : inbox' = Append(inbox, n) /\ n.re = Volunteered /\ n.sn = nasync'
    BY <1>3 DEF TimerNotifies
  <2> QED  BY <1>3, <1>d, <2>1 DEF TimerNotifies, ackVars
<1>4. CASE TimerObeys
  <2>1. PICK n : inbox' = Append(inbox, n) /\ n.re = at
    BY <1>4 DEF TimerObeys, Answer
  <2>2. n.re # Volunteered
    <3>1. at \in 1 .. 21  BY <1>0, Whole
    <3> QED  BY <2>1, <3>1 DEF Volunteered
  <2> QED  BY <1>4, <1>d, <2>1, <2>2 DEF TimerObeys, ackVars
<1>5. CASE AckSent \/ AckFails
  BY <1>5, <1>a DEF AckSent, AckFails, timerVars
<1>6. CASE NotifyAges \/ CommitAges \/ UNCHANGED vars
  BY <1>6, <1>b DEF NotifyAges, CommitAges, vars, ackVars, timerVars
<1>7. CASE Leave
  <2>1. UNCHANGED <<acks, acked>>
    BY <1>7 DEF Leave, SkipPoll, Answered, TimesOut, DrainQuiet, PauseOver, ackVars
  <2> QED  BY <1>0, <1>7, <1>b, <2>1, LeaveFrame
<1>8. CASE BeginStep \/ WriteReturns \/ WriteFails \/ Listen \/ EndSession \/ TimerIgnores
  BY <1>8, <1>b DEF BeginStep, WriteReturns, WriteFails, Listen, EndSession, TimerIgnores,
     ackVars, timerVars
<1> QED
  BY <1>1, <1>2, <1>3, <1>4, <1>5, <1>6, <1>7, <1>8, NextSplit DEF Notified, Aside

\* Notifies are acknowledged in the order they came, each at most once.
THEOREM AcksOrdered == Spec => []AcksInOrder
<1>1. Init => AckInv
  BY DEF Init, AckInv, Rising, Below, Flying
<1>2. AckInv => AcksInOrder  BY DEF AckInv, Rising, AcksInOrder
<1> QED  BY <1>1, <1>2, AckKeeps, AnswerInvariance, PTL DEF Spec

-------------------------------------------------------------------------------
(* What a session that returns has done                                     *)

LEMMA StepFrame ==
  ASSUME AnswerInv, [Next]_vars
  PROVE  /\ losses \in Nat /\ lates \in Nat /\ losses' \in Nat /\ lates' \in Nat
         /\ losses' >= losses /\ lates' >= lates
         /\ (TimerIgnores /\ Prefixed) \/ LoseNotify => losses' = losses + 1
         /\ op # "onboard" => Prefixed
         /\ ~TimerObeys => UNCHANGED <<valve, ver>>
         /\ ~OnNotify => UNCHANGED <<status, assigned>>
         /\ ~BeginStep => magic' = magic
<1>1. losses \in Nat /\ lates \in Nat  BY DEF AnswerInv, TypeOK
<1>2. losses' \in {losses, losses + 1} /\ lates' \in {lates, lates + 1}
      /\ ((TimerIgnores /\ Prefixed) \/ LoseNotify => losses' = losses + 1)
  BY DEF Next, ScriptNext, BeginStep, SkipPoll, WriteReturns, WriteFails, Answered, TimesOut,
         DrainQuiet, PauseOver, Listen, EndSession, OnNotify, AckSent, AckFails, TimerObeys,
         TimerIgnores, TimerNotifies, LoseNotify, NotifyAges, CommitAges, vars, faultVars
<1>3. ~TimerObeys => UNCHANGED <<valve, ver>>
  BY DEF Next, ScriptNext, BeginStep, SkipPoll, WriteReturns, WriteFails, Answered, TimesOut,
         DrainQuiet, PauseOver, Listen, EndSession, OnNotify, AckSent, AckFails,
         TimerIgnores, TimerNotifies, LoseNotify, NotifyAges, CommitAges, vars, timerVars
<1>4. ~OnNotify => UNCHANGED <<status, assigned>>
  BY DEF Next, ScriptNext, BeginStep, SkipPoll, WriteReturns, WriteFails, Answered, TimesOut,
         DrainQuiet, PauseOver, Listen, EndSession, AckSent, AckFails, TimerObeys,
         TimerIgnores, TimerNotifies, LoseNotify, NotifyAges, CommitAges, vars, heardVars
<1>5. ~BeginStep => magic' = magic
  BY DEF Next, ScriptNext, SkipPoll, WriteReturns, WriteFails, Answered, TimesOut,
         DrainQuiet, PauseOver, Listen, EndSession, OnNotify, AckSent, AckFails, TimerObeys,
         TimerIgnores, TimerNotifies, LoseNotify, NotifyAges, CommitAges, vars
<1>6. losses' \in Nat /\ lates' \in Nat /\ losses' >= losses /\ lates' >= lates
  BY <1>1, <1>2
<1>7. op # "onboard" => Prefixed  BY DEF AnswerInv, MagicInv
<1> QED  BY <1>1, <1>2, <1>3, <1>4, <1>5, <1>6, <1>7

\* How a step comes to be begun, and how its command comes to be out: no other way.
LEMMA PassedNext ==
  ASSUME AnswerInv, [Next]_vars, NEW i \in Steps
  PROVE  /\ Passed(i)' => Passed(i) \/ (i = at /\ (TimerObeys \/ TimerIgnores \/ SkipPoll))
         /\ Begun(i)' => Begun(i) \/ (i = at /\ (BeginStep \/ SkipPoll))
<1>0. /\ TypeOK /\ AllocInv /\ PhaseInv /\ at \in Int /\ i \in Int
      /\ Steps = 1 .. Len(Script) /\ Len(Script) \in Nat
  BY Whole, TheScript DEF AnswerInv, Steps, AllocInv, PlaceInv
<1>1. CASE Leave
  <2>1. /\ at \in Steps /\ at' = at + 1 /\ phase' = "ready"
        /\ phase \in {"ready", "waiting", "draining", "confirming"}
        /\ phase = "ready" <=> SkipPoll
    BY <1>0, <1>1, LeaveFrame
  <2>2. phase # "ready" => reached  BY <2>1, <1>0 DEF PhaseInv
  <2>3. Passed(i)' \/ Begun(i)' => i < at \/ i = at  BY <1>0, <2>1 DEF Passed, Begun
  <2> QED  BY <2>1, <2>2, <2>3 DEF Passed, Begun
<1>2. CASE BeginStep
  <2>1. at' = at /\ ~reached'  BY <1>2 DEF BeginStep
  <2>2. Passed(i)' => Passed(i)  BY <2>1 DEF Passed
  <2>3. Begun(i)' => Begun(i) \/ i = at  BY <2>1 DEF Begun
  <2> QED  BY <1>2, <2>2, <2>3
<1>3. CASE TimerObeys \/ TimerIgnores
  <2>1. UNCHANGED <<at, phase>>  BY <1>3 DEF TimerObeys, TimerIgnores
  <2>2. Passed(i)' => Passed(i) \/ i = at  BY <2>1 DEF Passed
  <2>3. Begun(i)' => Begun(i)  BY <2>1 DEF Begun
  <2> QED  BY <1>3, <2>2, <2>3
<1>4. CASE WriteReturns \/ WriteFails \/ EndSession
  <2>1. UNCHANGED <<at, reached>> /\ phase # "ready"
    BY <1>4 DEF WriteReturns, WriteFails, EndSession
  <2> QED  BY <2>1 DEF Passed, Begun
<1>5. CASE Listen
  <2>1. at' = at /\ at \notin Steps /\ at \in 1 .. Len(Script) + 1
    BY <1>0, <1>5 DEF Listen, AllocInv, PlaceInv
  <2>2. i < at  BY <1>0, <2>1
  <2> QED  BY <2>2 DEF Passed, Begun
<1>6. CASE Aside \/ Notified
  <2>1. UNCHANGED <<at, phase, reached>>  BY <1>6, AsideFrame, NotifiedFrame
  <2> QED  BY <2>1 DEF Passed, Begun
<1> QED  BY <1>1, <1>2, <1>3, <1>4, <1>5, <1>6, NextSplit

\* A session that returns has left its last step behind.
LEMMA ScriptDone ==
  ASSUME AnswerInv, outcome = "ok"
  PROVE  /\ at = Len(Script) + 1
         /\ \A i \in Steps : Passed(i) /\ Begun(i)
<1>1. /\ at \notin Steps /\ at \in 1 .. Len(Script) + 1 /\ Len(Script) \in Nat
      /\ Steps = 1 .. Len(Script)
  BY TheScript DEF AnswerInv, PhaseInv, AllocInv, PlaceInv, Steps
<1> QED  BY <1>1 DEF Passed, Begun

LEMMA StopSteps ==
  ASSUME AnswerInv, op = "stop"
  PROVE  /\ Steps = 1 .. 12 /\ Len(Script) = 12
         /\ \A i \in Steps : Script[i].what \notin {"start", "clear", "silent_poll"}
         /\ \A i \in 9 .. 11 : Script[i].what = "stop"
         /\ \A i \in 1 .. 8 : Script[i].what # "stop"
         /\ Script[12].what = "poll"
<1>1. IsStop(Script)
  BY ScriptSteps, OpsAssumption DEF AnswerInv, AllocInv, PlaceInv, Script
<1>2. /\ \A w, c : Fixed(w, c).what = w
      /\ \A w : Alloc(w).what = w /\ Same(w).what = w
  BY DEF Fixed, Alloc, Same
<1>3. Steps = 1 .. 12 /\ Len(Script) = 12  BY <1>1 DEF Steps, IsStop
<1>4. \A i \in 1 .. 7 : Script[i].what \notin {"start", "clear", "silent_poll", "stop"}
  BY <1>1, <1>2 DEF IsStop
<1>5. /\ Script[8].what = "probe" /\ Script[9].what = "stop" /\ Script[10].what = "stop"
      /\ Script[11].what = "stop" /\ Script[12].what = "poll"
  BY <1>1, <1>2 DEF IsStop
<1>6. \A i \in 1 .. 12 : i \in 1 .. 7 \/ i \in {8, 9, 10, 11, 12}  OBVIOUS
<1>7. \A i \in 9 .. 11 : i \in {9, 10, 11}  OBVIOUS
<1>8. \A i \in 1 .. 8 : i \in 1 .. 7 \/ i = 8  OBVIOUS
<1>9. \A i \in Steps : Script[i].what \notin {"start", "clear", "silent_poll"}
  BY <1>3, <1>4, <1>5, <1>6
<1>10. \A i \in 9 .. 11 : Script[i].what = "stop"  BY <1>5, <1>7
<1>11. \A i \in 1 .. 8 : Script[i].what # "stop"  BY <1>4, <1>5, <1>8
<1> QED  BY <1>3, <1>5, <1>9, <1>10, <1>11

LEMMA StopKeeps == AnswerInv /\ StopInv /\ [Next]_vars => StopInv'
<1> SUFFICES ASSUME AnswerInv, StopInv, [Next]_vars, op = "stop", valve' # "idle"
             PROVE  /\ Passed(9)' => losses' >= 1
                    /\ Passed(10)' => losses' >= 2
                    /\ Passed(11)' => losses' >= 3
  BY SameScript DEF StopInv
<1>1. /\ Steps = 1 .. 12
      /\ \A i \in Steps : Script[i].what \notin {"start", "clear", "silent_poll"}
      /\ \A i \in 9 .. 11 : Script[i].what = "stop"
      /\ 9 \in Steps /\ 10 \in Steps /\ 11 \in Steps
  BY StopSteps
<1>2. losses \in Nat /\ losses' \in Nat /\ losses' >= losses  BY StepFrame
<1>3. valve # "idle" /\ ~(TimerObeys /\ at \in {9, 10, 11})
  <2>1. CASE TimerObeys
    <3>1. at \in Steps /\ valve' = ValveAfter
      BY <2>1 DEF TimerObeys, AnswerInv, AllocInv, PlaceInv
    <3>2. Step.what # "stop" /\ Step.what # "clear" /\ Step.what # "start"
      BY <1>1, <3>1 DEF ValveAfter, Step
    <3>3. valve' = valve  BY <3>1, <3>2 DEF ValveAfter
    <3>4. at \notin {9, 10, 11}  BY <1>1, <3>2 DEF Step
    <3> QED  BY <3>3, <3>4
  <2>2. CASE ~TimerObeys  BY <2>2, StepFrame
  <2> QED  BY <2>1, <2>2
<1>4. /\ Passed(9) => losses >= 1
      /\ Passed(10) => losses >= 2
      /\ Passed(11) => losses >= 3
  BY <1>3 DEF StopInv
<1>5. ~(SkipPoll /\ at \in Steps)  BY <1>1 DEF SkipPoll, Skipped, Step
<1>6. ASSUME NEW i \in {9, 10, 11}, Passed(i)'
      PROVE  Passed(i) \/ (i = at /\ losses' = losses + 1)
  <2>1. Passed(i) \/ (i = at /\ (TimerObeys \/ TimerIgnores \/ SkipPoll))
    BY <1>1, <1>6, PassedNext
  <2> QED  BY <1>1, <1>3, <1>5, <2>1, StepFrame
<1>7. /\ at = 10 => Passed(9)
      /\ at = 11 => Passed(10)
  BY DEF Passed
<1> QED  BY <1>2, <1>4, <1>6, <1>7

\* A stop session that returns has stopped the run, whichever two of its commands are lost.
THEOREM StopsSurely == Spec => []StopEndsRun
<1>1. Init => StopInv
  <2> SUFFICES ASSUME Init, NEW i \in {9, 10, 11} PROVE ~Passed(i)  BY DEF StopInv
  <2> QED  BY DEF Init, Passed
<1>2. AnswerInv /\ StopInv => StopEndsRun
  <2> SUFFICES ASSUME AnswerInv, StopInv, op = "stop", outcome = "ok", losses <= 2
               PROVE  valve = "idle"
    BY DEF StopEndsRun
  <2>1. Passed(11)  BY ScriptDone, StopSteps
  <2>2. losses \in Nat  BY DEF AnswerInv, TypeOK
  <2> QED  BY <2>1, <2>2 DEF StopInv
<1> QED  BY <1>1, <1>2, StopKeeps, AnswerInvariance, PTL DEF Spec

LEMMA StartKeeps == AnswerInv /\ StartInv /\ [Next]_vars => StartInv'
<1> SUFFICES ASSUME AnswerInv, StartInv, [Next]_vars, op = "start", losses' = 0, Passed(9)'
             PROVE  valve' = "watering"
  BY SameScript DEF StartInv
<1>0. IsStart(Script)
  BY ScriptSteps, OpsAssumption DEF AnswerInv, AllocInv, PlaceInv, Script
<1>1. /\ Steps = 1 .. 10 /\ 9 \in Steps
      /\ Script[9].what = "start" /\ Script[10].what = "silent_poll"
  BY <1>0 DEF Steps, IsStart, Alloc
<1>2. losses = 0  BY StepFrame
<1>3. ~TimerIgnores  BY <1>2, StepFrame
<1>4. ~(SkipPoll /\ at = 9)  BY <1>1 DEF SkipPoll, Skipped, Step
<1>5. Passed(9) \/ (9 = at /\ TimerObeys)  BY <1>1, <1>3, <1>4, PassedNext
<1>6. CASE TimerObeys
  <2>1. at \in Steps /\ valve' = ValveAfter /\ ~reached
    BY <1>6 DEF TimerObeys, AnswerInv, AllocInv, PlaceInv
  <2>2. CASE at = 9  BY <1>1, <2>1, <2>2 DEF ValveAfter, Step
  <2>3. CASE at # 9
    <3>1. Passed(9) /\ at = 10  BY <1>1, <1>5, <2>1, <2>3 DEF Passed
    <3>2. valve' = valve  BY <1>1, <2>1, <3>1 DEF ValveAfter, Step
    <3> QED  BY <1>2, <3>1, <3>2 DEF StartInv
  <2> QED  BY <2>2, <2>3
<1>7. CASE ~TimerObeys
  <2>1. Passed(9) /\ valve' = valve  BY <1>5, <1>7, StepFrame
  <2> QED  BY <1>2, <2>1 DEF StartInv
<1> QED  BY <1>6, <1>7

\* The clear of its own attach never cancels the run a start began.
THEOREM StartsSurely == Spec => []StartEndsWatering
<1>1. Init => StartInv
  <2> SUFFICES ASSUME Init PROVE ~Passed(9)  BY DEF StartInv
  <2> QED  BY DEF Init, Passed
<1>2. AnswerInv /\ StartInv => StartEndsWatering
  <2> SUFFICES ASSUME AnswerInv, StartInv, op = "start", outcome = "ok", losses = 0
               PROVE  valve = "watering"
    BY DEF StartEndsWatering
  <2>1. IsStart(Script)
    BY ScriptSteps, OpsAssumption DEF AnswerInv, AllocInv, PlaceInv, Script
  <2>2. 9 \in Steps  BY <2>1 DEF Steps, IsStart
  <2>3. Passed(9)  BY <2>2, ScriptDone
  <2> QED  BY <2>3 DEF StartInv
<1> QED  BY <1>1, <1>2, StartKeeps, AnswerInvariance, PTL DEF Spec

-------------------------------------------------------------------------------
(* With nothing lost or late                                                *)

LEMMA PunctualKeeps == AnswerInv /\ PunctualInv /\ [Next]_vars => PunctualInv'
<1> SUFFICES ASSUME AnswerInv, PunctualInv, [Next]_vars, Faults' = 0
             PROVE  /\ \A n \in Flying' : n.re # Volunteered /\ AwaitedAt(n.re) => n.re = at'
                    /\ fut' \in {None, at'}
  BY SameScript DEF PunctualInv, AwaitedAt
<1>0. /\ TypeOK /\ AllocInv /\ PhaseInv /\ PendingInv /\ CmdInv /\ InboxInv /\ FutInv
      /\ at \in Int /\ at \in 1 .. 21
  BY Whole DEF AnswerInv
<1>1. losses = 0 /\ lates = 0 /\ losses' = 0 /\ lates' = 0  BY StepFrame DEF Faults
<1>2. /\ \A n \in Flying : n.re # Volunteered /\ AwaitedAt(n.re) => n.re = at
      /\ fut \in {None, at}
  BY <1>1 DEF PunctualInv, Faults
<1>a. ASSUME at' = at, fut' \in {None, fut}, Flying' \subseteq Flying
      PROVE  /\ \A n \in Flying' : n.re # Volunteered /\ AwaitedAt(n.re) => n.re = at'
             /\ fut' \in {None, at'}
  BY <1>2, <1>a
<1>3. CASE Leave
  <2>1. /\ phase' = "ready" /\ Flying' = Flying /\ at \in Steps
        /\ phase = "ready" <=> SkipPoll
    BY <1>0, <1>3, LeaveFrame DEF Flying
  <2>2. fut' = None
    <3>1. PendingInv'  BY <1>0, PendingKeeps
    <3> QED  BY <2>1, <3>1 DEF PendingInv
  <2>3. ASSUME NEW n \in Flying, n.re # Volunteered, AwaitedAt(n.re) PROVE FALSE
    <3>1. n.re = at  BY <1>2, <2>3
    <3>2. Ours(n)  BY <1>0, <2>3 DEF InboxInv, Theirs
    <3>3. phase # "ready"  BY <1>0, <3>1, <3>2, OursPast
    <3>4. Awaited  BY <2>3, <3>1 DEF Awaited, AwaitedAt, Step
    <3>5. phase \notin {"draining", "confirming"}  BY <1>0, <3>4 DEF PhaseInv
    <3>6. CASE Answered
      <4>1. fut = at  BY <1>2, <3>6 DEF Answered
      <4>2. n.re > at  BY <2>3, <3>6, <1>0, <4>1 DEF Answered, FutInv
      <4> QED  BY <1>0, <3>1, <4>2
    <3>7. CASE TimesOut
      <4>1. AnswerInFlight  BY <2>3, <3>1, InFlightAt
      <4>2. lates' = lates + 1  BY <3>7, <4>1 DEF TimesOut
      <4> QED  BY <1>1, <4>2
    <3> QED  BY <1>3, <3>3, <3>5, <3>6, <3>7, LeaveWaits
  <2> QED  BY <2>1, <2>2, <2>3
<1>4. CASE OnNotify
  <2>1. PICK n : n = Head(inbox)  OBVIOUS
  <2>2. /\ inbox # <<>> /\ inbox' = Tail(inbox) /\ at' = at /\ phase # "closed"
        /\ fut' = IF Completes(n) THEN n.re ELSE fut
    BY <1>4, <2>1 DEF OnNotify, stepVars
  <2>3. n \in Flying /\ Flying' \subseteq Flying  BY <1>0, <2>1, <2>2, InboxTail
  <2>4. CASE Completes(n)
    <3>1. Ours(n) /\ (n.re # at => AwaitedAt(n.re) /\ n.re < at)
      BY <1>0, <2>2, <2>3, <2>4, CompletesOwn
    <3>2. n.re # Volunteered  BY <1>0, <3>1, OursPast
    <3>3. n.re = at  BY <1>2, <2>3, <3>1, <3>2
    <3>4. fut' = at'  BY <2>2, <2>4, <3>3
    <3> QED  BY <1>2, <2>2, <2>3, <3>4
  <2>5. CASE ~Completes(n)  BY <1>a, <2>2, <2>3, <2>5
  <2> QED  BY <2>4, <2>5
<1>5. CASE LoseNotify
  BY <1>1, <1>5 DEF LoseNotify
<1>6. ASSUME NEW n, inbox' = Append(inbox, n), n.re \in {at, Volunteered}, at' = at, fut' = fut
      PROVE  /\ \A m \in Flying' : m.re # Volunteered /\ AwaitedAt(m.re) => m.re = at'
             /\ fut' \in {None, at'}
  <2>1. Flying' = Flying \cup {n}  BY <1>0, <1>6, InboxAppend
  <2> QED  BY <1>2, <1>6, <2>1
<1>7. ASSUME NEW c \in TimerCmds, TimerNotifies(c)
      PROVE  /\ \A n \in Flying' : n.re # Volunteered /\ AwaitedAt(n.re) => n.re = at'
             /\ fut' \in {None, at'}
  <2>1. PICK n : inbox' = Append(inbox, n) /\ n.re = Volunteered
    BY <1>7 DEF TimerNotifies
  <2> QED  BY <1>6, <1>7, <2>1 DEF TimerNotifies, stepVars, futVars
<1>8. CASE TimerObeys
  <2>1. PICK n : inbox' = Append(inbox, n) /\ n.re = at
    BY <1>8 DEF TimerObeys, Answer
  <2> QED  BY <1>6, <1>8, <2>1 DEF TimerObeys, futVars
<1>9. CASE Aside
  BY <1>a, <1>9, AsideFrame DEF Flying
<1>10. CASE BeginStep \/ WriteReturns \/ WriteFails \/ Listen \/ EndSession \/ TimerIgnores
  <2>1. at' = at /\ inbox' = inbox /\ fut' \in {None, fut}
    BY <1>10 DEF BeginStep, WriteReturns, WriteFails, Listen, EndSession, TimerIgnores,
       futVars, timerVars
  <2> QED  BY <1>a, <2>1 DEF Flying
<1> QED
  BY <1>3, <1>4, <1>5, <1>7, <1>8, <1>9, <1>10, NextSplit DEF Notified

LEMMA InitPunctual == Init => PunctualInv
BY DEF Init, PunctualInv, Flying, Faults

\* While the answer of the final poll is out or read, nothing newer can be told.
LEMMA ConfirmKeeps ==
  AnswerInv /\ PunctualInv /\ StopInv /\ ConfirmInv /\ [Next]_vars => ConfirmInv'
<1> DEFINE Told(s, v) == s = [kind |-> "idle", ver |-> v]
           Tells(n, v) == n.re = 12 /\ n.ver = v /\ n.rec = "idle"
<1> SUFFICES ASSUME AnswerInv, PunctualInv, StopInv, ConfirmInv, [Next]_vars, op = "stop",
                    Faults' = 0, Passed(12)'
             PROVE  Told(status', ver') \/ \E n \in Flying' : Tells(n, ver')
  BY SameScript DEF ConfirmInv
<1>0. /\ TypeOK /\ AllocInv /\ ViewInv /\ at \in Int /\ at \in 1 .. 21
      /\ Steps = 1 .. 12 /\ 12 \in Steps /\ 9 \in Steps
      /\ \A i \in Steps : Script[i].what \notin {"start", "clear", "silent_poll"}
      /\ Script[12].what = "poll"
  BY Whole, StopSteps DEF AnswerInv
<1>1. losses = 0 /\ lates = 0 /\ losses' = 0 /\ lates' = 0 /\ Faults = 0
  BY StepFrame DEF Faults
<1>2. ~TimerIgnores /\ ~LoseNotify  BY <1>1, StepFrame
<1>3. ~(SkipPoll /\ at \in Steps)  BY <1>0 DEF SkipPoll, Skipped, Step
<1>4. Passed(12) \/ (12 = at /\ TimerObeys)  BY <1>0, <1>2, <1>3, PassedNext
<1>5. valve = "idle"
  <2>1. Passed(9)  BY <1>0, <1>4 DEF Passed
  <2> QED  BY <1>1, <2>1 DEF StopInv
<1>6. Passed(12) => ~TimerObeys
  <2>1. TimerObeys => at \in Steps /\ ~reached
    BY <1>0 DEF TimerObeys, AllocInv, PlaceInv
  <2> QED  BY <1>0, <2>1 DEF Passed
<1>7. CASE TimerObeys
  <2>1. at = 12 /\ valve' = ValveAfter  BY <1>4, <1>6, <1>7 DEF TimerObeys
  <2>2. Step.what = "poll"  BY <1>0, <2>1 DEF Step
  <2>3. valve' = valve  BY <2>1, <2>2 DEF ValveAfter
  <2>4. ver' = ver  BY <1>7, <2>2, <2>3 DEF TimerObeys
  <2>5. PICK n : n = Answer(valve', ver')  OBVIOUS
  <2>6. Tells(n, ver')  BY <1>5, <2>1, <2>2, <2>3, <2>5 DEF Answer
  <2>7. inbox' = Append(inbox, n)  BY <1>7, <2>5 DEF TimerObeys
  <2>8. n \in Flying'  BY <1>0, <2>7, InboxAppend
  <2> QED  BY <2>6, <2>8
<1>8. CASE ~TimerObeys
  <2>1. ver' = ver /\ valve' = valve  BY <1>8, StepFrame
  <2>2. Told(status, ver) \/ \E n \in Flying : Tells(n, ver)
    BY <1>1, <1>4, <1>8 DEF ConfirmInv
  <2>3. CASE OnNotify
    <3>1. PICK h : h = Head(inbox)  OBVIOUS
    <3>2. inbox # <<>> /\ inbox' = Tail(inbox) /\ status' = merge_record(h)
      BY <2>3, <3>1 DEF OnNotify
    <3>3. h \in Flying /\ \A m \in Flying : m = h \/ m \in Flying'
      BY <1>0, <3>1, <3>2, InboxTail
    <3>4. CASE Told(status, ver)
      <4>1. h.ver \in Nat /\ ver \in Nat /\ status.ver <= h.ver /\ h.ver <= ver
            /\ (h.ver = ver => h.rec \in {valve, "none"})
        <5>1. PICK i \in 1 .. Len(inbox) : h = inbox[i]  BY <3>3 DEF Flying
        <5> QED  BY <1>0, <5>1 DEF ViewInv, LagInv
      <4>2. h.ver = ver  BY <3>4, <4>1
      <4>3. h.rec \in {"idle", "none"}  BY <1>5, <4>1, <4>2
      <4> QED  BY <2>1, <3>2, <3>4, <4>2, <4>3 DEF merge_record
    <3>5. ASSUME NEW n \in Flying, Tells(n, ver)
          PROVE  Told(status', ver') \/ \E m \in Flying' : Tells(m, ver')
      <4>1. CASE n = h  BY <2>1, <3>2, <3>5, <4>1 DEF merge_record
      <4>2. CASE n # h  BY <2>1, <3>3, <3>5, <4>2
      <4> QED  BY <4>1, <4>2
    <3> QED  BY <2>2, <3>4, <3>5
  <2>4. CASE ~OnNotify
    <3>1. status' = status  BY <2>4, StepFrame
    <3>2. Flying \subseteq Flying'
      <4>1. CASE UNCHANGED inbox  BY <4>1 DEF Flying
      <4>2. ASSUME NEW n, inbox' = Append(inbox, n) PROVE Flying \subseteq Flying'
        BY <1>0, <4>2, InboxAppend
      <4>3. inbox' = inbox \/ \E n : inbox' = Append(inbox, n)
        BY <1>0, <1>2, <1>8, <2>4, NextSplit, LeaveFrame, AsideFrame
           DEF Notified, TimerNotifies, BeginStep, WriteReturns, WriteFails, Listen, EndSession,
               timerVars
      <4> QED  BY <4>1, <4>2, <4>3
    <3> QED  BY <2>1, <2>2, <3>1, <3>2
  <2> QED  BY <2>3, <2>4
<1> QED  BY <1>7, <1>8

LEMMA StopInvariance == Spec => [](AnswerInv /\ PunctualInv /\ StopInv)
<1>1. Init => StopInv
  <2> SUFFICES ASSUME Init, NEW i \in {9, 10, 11} PROVE ~Passed(i)  BY DEF StopInv
  <2> QED  BY DEF Init, Passed
<1> QED  BY <1>1, InitPunctual, PunctualKeeps, StopKeeps, AnswerInvariance, PTL DEF Spec

\* With nothing lost or late, the snapshot a stop returns is of the stopped timer.
THEOREM StopsConfirmed == Spec => []StopIsConfirmed
<1>1. Init => ConfirmInv
  BY DEF Init, ConfirmInv, Passed
<1>2. AnswerInv /\ PunctualInv /\ ConfirmInv => StopIsConfirmed
  <2> SUFFICES ASSUME AnswerInv, PunctualInv, ConfirmInv, op = "stop", outcome = "ok",
                      losses + lates = 0
               PROVE  status = [kind |-> "idle", ver |-> ver]
    BY DEF StopIsConfirmed
  <2>1. at = 13 /\ Passed(12)
    <3>1. Len(Script) = 12 /\ 12 \in Steps  BY StopSteps
    <3>2. at = Len(Script) + 1 /\ Passed(12)  BY <3>1, ScriptDone
    <3> QED  BY <3>1, <3>2
  <2>2. AwaitedAt(12)  BY StopSteps DEF AwaitedAt
  <2>3. \A n \in Flying : n.re # 12
    <3>1. 12 # Volunteered  BY DEF Volunteered
    <3> QED  BY <2>1, <2>2, <3>1 DEF PunctualInv, Faults
  <2> QED  BY <2>1, <2>3 DEF ConfirmInv, Faults
<1> QED  BY <1>1, <1>2, ConfirmKeeps, StopInvariance, PTL DEF Spec

-------------------------------------------------------------------------------
(* The id an onboarding learns                                              *)

LEMMA OnboardSteps ==
  ASSUME AnswerInv, op = "onboard"
  PROVE  /\ Steps = 1 .. 13 /\ Len(Script) = 13 /\ Len(gen1_onboard_writes) = 6
         /\ \A i \in Steps : /\ Script[i].num = "fixed" /\ Script[i].what # "silent_poll"
                             /\ Script[i].what = "register" <=> i \in {4, 11}
                             /\ i < 11 => Script[i].cmd # 133
                             /\ AwaitedAt(i) <=> i \notin {6, 13}
         /\ Script[4].cmd = 132 /\ Script[11].cmd = 133
         /\ AwaitedAt(4) /\ AwaitedAt(11)
<1>1. IsOnboard(Script)
  BY ScriptSteps, OpsAssumption DEF AnswerInv, AllocInv, PlaceInv, Script
<1>2. \A w, c : Fixed(w, c).what = w /\ Fixed(w, c).cmd = c /\ Fixed(w, c).num = "fixed"
  BY DEF Fixed
<1>3. Steps = 1 .. 13 /\ Len(Script) = 13  BY <1>1 DEF Steps, IsOnboard
<1>4. Len(gen1_onboard_writes) = 6  BY DEF gen1_onboard_writes
<1> DEFINE Good(i) == /\ Script[i].num = "fixed" /\ Script[i].what # "silent_poll"
                      /\ Script[i].what = "register" <=> i \in {4, 11}
                      /\ i < 11 => Script[i].cmd # 133
                      /\ Script[i].what \notin {"commit", "start"} <=> i \notin {6, 13}
<1>5. Good(1) /\ Good(2) /\ Good(3) /\ Good(4) /\ Good(5) /\ Good(6) /\ Good(7)
  BY <1>1, <1>2 DEF IsOnboard
<1>6. Good(8) /\ Good(9) /\ Good(10) /\ Good(11) /\ Good(12) /\ Good(13)
  BY <1>1, <1>2 DEF IsOnboard
<1>7. \A i \in 1 .. 13 : i \in 1 .. 7 \/ i \in {8, 9, 10, 11, 12, 13}  OBVIOUS
<1>8. \A i \in 1 .. 7 : i \in {1, 2, 3, 4, 5, 6, 7}  OBVIOUS
<1>9. \A i \in Steps : Good(i)
  <2> HIDE DEF Good
  <2> QED  BY <1>3, <1>5, <1>6, <1>7, <1>8
<1>10. /\ Script[4].cmd = 132 /\ Script[4].what = "register"
       /\ Script[11].cmd = 133 /\ Script[11].what = "register"
  BY <1>1, <1>2 DEF IsOnboard
<1> QED  BY <1>3, <1>4, <1>9, <1>10 DEF AwaitedAt

\* Only the answer to a register tells an id, and it tells the registered one.
LEMMA IdLearned ==
  ASSUME AnswerInv, op = "onboard", OnNotify
  PROVE  /\ assigned' \in {assigned, given}
         /\ Head(inbox) \in Flying
         /\ Head(inbox).re \in {4, 11} => assigned' = given
         /\ \A m \in Flying : m = Head(inbox) \/ m \in Flying'
<1> DEFINE n == Head(inbox)
<1>0. /\ TypeOK /\ AllocInv /\ InboxInv /\ given \in {Proposed, OtherId}
  BY DEF AnswerInv, TypeOK
<1>1. /\ inbox # <<>> /\ inbox' = Tail(inbox) /\ assigned' = assigned_id(n)
  BY DEF OnNotify
<1>2. n \in Flying /\ \A m \in Flying : m = n \/ m \in Flying'  BY <1>0, <1>1, InboxTail
<1> HIDE DEF n
<1>3. n.id \in {None, given} /\ assigned' \in {assigned, n.id} /\ (n.id = None => assigned' = assigned)
  <2>1. n.id \in {None, given}  BY <1>0, <1>2 DEF InboxInv, Ours, Theirs
  <2> QED  BY <1>1, <2>1 DEF assigned_id
<1>4. ASSUME n.re \in {4, 11} PROVE assigned' = given
  <2>1. n.re # Volunteered  BY <1>4 DEF Volunteered
  <2>2. Ours(n)  BY <1>0, <1>2, <2>1 DEF InboxInv, Theirs
  <2>3. /\ Script[n.re].num = "fixed" /\ Script[n.re].what = "register"
        /\ Script[n.re].cmd \in {132, 133}
    BY <1>4, <2>2, OnboardSteps DEF Ours
  <2>4. n.id = given /\ n.cmd = WithResponseBit(Script[n.re].cmd)
    BY <2>2, <2>3 DEF Ours, Bytes
  <2>5. \A c \in {132, 133} : request_cmd(WithResponseBit(c)) = c
    <3> TAKE c \in {132, 133}
    <3>1. c \in 0 .. 255 /\ ~(c \in 64 .. 127) /\ ~(c \in 192 .. 255)  OBVIOUS
    <3>2. ~HasResponseBit(c)  BY <3>1, BitRange
    <3>3. c \in 0 .. 255  BY <3>1
    <3> QED  BY <3>2, <3>3, BitCases, Zenon
  <2>6. request_cmd(n.cmd) \in MeshRegisterCmds
    BY <2>3, <2>4, <2>5 DEF MeshRegisterCmds
  <2> QED  BY <1>0, <1>1, <2>4, <2>6 DEF assigned_id, None, Proposed, OtherId
<1> QED  BY <1>2, <1>3, <1>4 DEF n

\* Answers stay in flight until they are received or lost.
LEMMA FlyingStays ==
  ASSUME AnswerInv, [Next]_vars, ~OnNotify, ~LoseNotify
  PROVE  Flying \subseteq Flying'
<1>0. TypeOK /\ AllocInv  BY DEF AnswerInv
<1>1. CASE UNCHANGED inbox  BY <1>1 DEF Flying
<1>2. ASSUME NEW n, inbox' = Append(inbox, n) PROVE Flying \subseteq Flying'
  BY <1>0, <1>2, InboxAppend
<1>3. inbox' = inbox \/ \E n : inbox' = Append(inbox, n)
  BY <1>0, NextSplit, LeaveFrame, AsideFrame
     DEF Notified, TimerNotifies, BeginStep, WriteReturns, WriteFails, Listen, EndSession,
         TimerObeys, TimerIgnores, timerVars
<1> QED  BY <1>1, <1>2, <1>3

LEMMA LearnKeeps == AnswerInv /\ PunctualInv /\ LearnInv /\ [Next]_vars => LearnInv'
<1> SUFFICES ASSUME AnswerInv, PunctualInv, LearnInv, [Next]_vars, op = "onboard"
             PROVE  /\ assigned' \in {None, given}
                    /\ Faults' = 0 /\ Passed(4)' => assigned' = given \/ InFlight(4)'
                    /\ Faults' <= 1 /\ Passed(11)' =>
                         assigned' = given \/ (at' = 11 /\ InFlight(11)')
                    /\ Faults' = 0 /\ Begun(7)' => magic' = given
                    /\ ~Prefixed' => magic' = given /\ assigned' = given
  BY SameScript DEF LearnInv
<1>0. /\ TypeOK /\ AllocInv /\ PhaseInv /\ InboxInv /\ FutInv
      /\ at \in Int /\ at \in 1 .. 21 /\ given \in {Proposed, OtherId}
  BY Whole DEF AnswerInv, TypeOK
<1>s. /\ Steps = 1 .. 13 /\ 4 \in Steps /\ 7 \in Steps /\ 11 \in Steps
      /\ \A i \in Steps : Script[i].num = "fixed" /\ Script[i].what # "silent_poll"
      /\ Len(gen1_onboard_writes) = 6
      /\ AwaitedAt(4) /\ AwaitedAt(11)
  BY OnboardSteps
<1>f. /\ losses \in Nat /\ lates \in Nat /\ losses' \in Nat /\ lates' \in Nat
      /\ losses' >= losses /\ lates' >= lates
      /\ (TimerIgnores /\ Prefixed) \/ LoseNotify => losses' = losses + 1
      /\ ~OnNotify => assigned' = assigned
      /\ ~BeginStep => magic' = magic
  BY StepFrame
<1>g. /\ Faults' = 0 => Faults = 0 /\ losses' = losses /\ lates' = lates
      /\ Faults' <= 1 => Faults <= 1
      /\ Faults' <= 1 /\ (losses' = losses + 1 \/ lates' = lates + 1) => Faults = 0
  <2>1. \A a, b, c, d \in Nat : c >= a /\ d >= b =>
           /\ c + d = 0 => a + b = 0 /\ c = a /\ d = b
           /\ c + d <= 1 => a + b <= 1
           /\ c + d <= 1 /\ (c = a + 1 \/ d = b + 1) => a + b = 0
    OBVIOUS
  <2>2. losses \in Nat /\ lates \in Nat /\ losses' \in Nat /\ lates' \in Nat
        /\ losses' >= losses /\ lates' >= lates
    BY <1>f
  <2> QED  BY <2>1, <2>2, ZenonT(60) DEF Faults
<1>p. ~SkipPoll
  <2>1. SkipPoll => at \in Steps /\ Step.what = "silent_poll"  BY DEF SkipPoll, Skipped
  <2> QED  BY <1>s, <2>1 DEF Step
<1>1. assigned \in {None, given} /\ assigned' \in {assigned, given}
  BY <1>f, IdLearned DEF LearnInv
<1>2. assigned = given => assigned' = given  BY <1>1
<1>3. ASSUME Faults = 0, Passed(4), at # 4 PROVE assigned = given
  <2>1. ~InFlight(4)
    <3>1. 4 # Volunteered  BY DEF Volunteered
    <3> QED  BY <1>3, <1>s, <3>1 DEF PunctualInv, InFlight
  <2> QED  BY <1>3, <2>1 DEF LearnInv
<1>4. ASSUME NEW i \in {4, 11}, InFlight(i), ~LoseNotify PROVE assigned' = given \/ InFlight(i)'
  <2>1. PICK n \in Flying : n.re = i  BY <1>4 DEF InFlight
  <2>2. CASE OnNotify
    <3>1. CASE n = Head(inbox)  BY <2>1, <2>2, <3>1, IdLearned
    <3>2. CASE n # Head(inbox)  BY <2>1, <2>2, <3>2, IdLearned DEF InFlight
    <3> QED  BY <3>1, <3>2
  <2>3. CASE ~OnNotify
    <3>1. Flying \subseteq Flying'  BY <1>4, <2>3, FlyingStays
    <3> QED  BY <2>1, <3>1 DEF InFlight
  <2> QED  BY <2>2, <2>3
<1>5. ASSUME TimerObeys PROVE InFlight(at)' /\ at' = at
  <2>1. PICK n : inbox' = Append(inbox, n) /\ n.re = at
    BY <1>5 DEF TimerObeys, Answer
  <2>2. n \in Flying' /\ at' = at  BY <1>0, <1>5, <2>1, InboxAppend DEF TimerObeys
  <2> QED  BY <2>1, <2>2 DEF InFlight
<1>6. ASSUME Faults' = 0, Passed(4)' PROVE assigned' = given \/ InFlight(4)'
  <2>1. ~LoseNotify  BY <1>6, <1>f, <1>g
  <2>2. Passed(4) \/ (4 = at /\ TimerObeys)
    <3>1. at = 4 => Prefixed  BY <1>s DEF AnswerInv, MagicInv, Begun
    <3>2. ~(4 = at /\ TimerIgnores)  BY <1>6, <1>f, <1>g, <3>1
    <3> QED  BY <1>6, <1>s, <1>p, <3>2, PassedNext
  <2>3. CASE Passed(4)
    <3>1. assigned = given \/ InFlight(4)  BY <1>6, <1>g, <2>3 DEF LearnInv
    <3> QED  BY <1>2, <1>4, <2>1, <3>1
  <2>4. CASE 4 = at /\ TimerObeys  BY <1>5, <2>4 DEF InFlight
  <2> QED  BY <2>2, <2>3, <2>4
<1>7. ASSUME Faults = 0, at = 11 PROVE assigned = given
  BY <1>3, <1>7 DEF Passed
<1>8. ASSUME Faults' <= 1, Passed(11)'
      PROVE  assigned' = given \/ (at' = 11 /\ InFlight(11)')
  <2>1. Passed(11) \/ (11 = at /\ (TimerObeys \/ TimerIgnores))
    BY <1>8, <1>s, <1>p, PassedNext
  <2>2. CASE 11 = at /\ TimerIgnores
    <3>1. Prefixed => Faults = 0  BY <1>8, <1>f, <1>g, <2>2
    <3>2. ~Prefixed => assigned = given  BY DEF LearnInv
    <3> QED  BY <1>2, <1>7, <2>2, <3>1, <3>2
  <2>3. CASE 11 = at /\ TimerObeys
    BY <1>5, <2>3 DEF InFlight
  <2>4. CASE Passed(11) /\ assigned = given  BY <1>2, <2>4
  <2>5. CASE Passed(11) /\ assigned # given
    <3>1. at = 11 /\ InFlight(11)  BY <1>8, <1>g, <2>5 DEF LearnInv
    <3>2. Faults # 0  BY <1>7, <2>5, <3>1
    <3>3. ~LoseNotify  BY <1>8, <1>f, <1>g, <3>2
    <3>4. assigned' = given \/ InFlight(11)'  BY <1>4, <3>1, <3>3
    <3>5. at' = 11
      <4>1. CASE Leave
        <5>1. phase # "ready"  BY <1>0, <1>p, <4>1, LeaveFrame
        <5>2. Awaited  BY <1>s, <3>1 DEF Awaited, AwaitedAt, Step
        <5>3. phase \notin {"draining", "confirming"}  BY <1>0, <5>2 DEF PhaseInv
        <5>4. CASE Answered
          <6>1. fut # None  BY <5>4 DEF Answered
          <6>2. fut = at
            <7>1. fut # at => fut \in Steps /\ fut < 11 /\ SharesByte(fut, 11)
              BY <1>0, <3>1, <6>1, Whole DEF FutInv, Passed
            <7>2. fut # at => Script[fut].cmd # Script[11].cmd
              BY <7>1, OnboardSteps
            <7>3. fut # at => 11 \in fut + 1 .. 11  BY <1>s, <7>1
            <7>4. Script[11].num # "same"  BY <1>s
            <7> QED  BY <7>1, <7>2, <7>3, <7>4 DEF SharesByte
          <6>3. PICK n \in Flying : n.re = 11  BY <3>1 DEF InFlight
          <6>4. n.re > fut  BY <1>0, <6>1 DEF FutInv
          <6> QED  BY <3>1, <6>2, <6>3, <6>4
        <5>5. CASE TimesOut
          <6>1. AnswerInFlight  BY <3>1, InFlightAt DEF InFlight
          <6>2. lates' = lates + 1  BY <5>5, <6>1 DEF TimesOut
          <6> QED  BY <1>8, <1>g, <3>2, <6>2
        <5> QED  BY <4>1, <5>1, <5>3, <5>4, <5>5, LeaveWaits
      <4>2. CASE ~Leave
        <5>1. at' = at
          BY <4>2, NextSplit, AsideFrame, NotifiedFrame
             DEF BeginStep, WriteReturns, WriteFails, Listen, EndSession, TimerObeys,
                 TimerIgnores
        <5> QED  BY <3>1, <5>1
      <4> QED  BY <4>1, <4>2
    <3> QED  BY <3>4, <3>5
  <2> QED  BY <2>1, <2>2, <2>3, <2>4, <2>5
<1>9. ASSUME Faults' = 0, Begun(7)' PROVE magic' = given
  <2>1. Begun(7) \/ (7 = at /\ BeginStep)  BY <1>9, <1>s, <1>p, PassedNext
  <2>2. Faults = 0  BY <1>9, <1>g
  <2>3. CASE 7 = at /\ BeginStep
    <3>1. assigned = given
      <4>1. Passed(4)  BY <2>3 DEF Passed
      <4> QED  BY <1>3, <2>2, <2>3, <4>1
    <3>2. assigned # None  BY <1>0, <3>1 DEF None, Proposed, OtherId
    <3>3. magic' = ScriptMagic  BY <2>3 DEF BeginStep
    <3> QED  BY <1>s, <2>3, <3>1, <3>2, <3>3 DEF ScriptMagic
  <2>4. CASE Begun(7) /\ ~(7 = at /\ BeginStep)
    <3>1. magic = given  BY <2>2, <2>4 DEF LearnInv
    <3>2. BeginStep => at # 7  BY <2>4
    <3>3. magic' = magic
      <4>1. CASE BeginStep
        <5>1. magic' = ScriptMagic  BY <4>1 DEF BeginStep
        <5> QED  BY <1>s, <3>2, <4>1, <5>1 DEF ScriptMagic
      <4> QED  BY <1>f, <4>1
    <3> QED  BY <3>1, <3>3
  <2> QED  BY <2>1, <2>3, <2>4
<1>10. ASSUME ~Prefixed' PROVE magic' = given /\ assigned' = given
  <2>1. magic' = magic \/ (magic' = assigned /\ BeginStep)  BY MagicKeeps DEF AnswerInv
  <2>2. CASE magic' = magic
    <3>1. magic = given /\ assigned = given  BY <1>10, <2>2 DEF LearnInv, Prefixed
    <3> QED  BY <1>2, <2>2, <3>1
  <2>3. CASE magic' = assigned /\ magic' # magic /\ BeginStep
    <3>1. magic' \in {Proposed, OtherId}  BY AnswerKeeps DEF AnswerInv, TypeOK
    <3>2. assigned = given  BY <1>1, <2>3, <3>1 DEF None, Proposed, OtherId
    <3> QED  BY <1>2, <2>3, <3>2
  <2> QED  BY <2>1, <2>2, <2>3
<1> QED  BY <1>1, <1>6, <1>8, <1>9, <1>10

LEMMA SilentKeeps ==
  AnswerInv /\ CountsInv /\ PunctualInv /\ LearnInv /\ SilentInv /\ [Next]_vars => SilentInv'
<1> SUFFICES ASSUME AnswerInv, CountsInv, PunctualInv, LearnInv, SilentInv, [Next]_vars,
                    op = "onboard"
             PROVE  /\ used' = <<>>
                    /\ \A k \in timeouts' : k < at' /\ AwaitedAt(k)
                    /\ ~Prefixed' =>
                         fut' < 7 /\ \A n \in Flying' : n.re # Volunteered => n.re < 7
                    /\ Faults' = 0 => \A k \in Steps : k < at' /\ AwaitedAt(k) =>
                         (k \in timeouts' <=> k >= 7 /\ given # Proposed)
  BY SameScript DEF SilentInv, AwaitedAt
<1>0. /\ TypeOK /\ AllocInv /\ PhaseInv /\ PendingInv /\ InboxInv /\ FutInv
      /\ at \in Int /\ at \in 1 .. 21 /\ given \in {Proposed, OtherId}
      /\ used = <<>> /\ (\A k \in timeouts : k < at /\ AwaitedAt(k))
  BY Whole DEF AnswerInv, TypeOK, SilentInv
<1>s. /\ Steps = 1 .. 13 /\ 7 \in Steps /\ AwaitedAt(7)
      /\ \A i \in Steps : Script[i].num = "fixed" /\ Script[i].what # "silent_poll"
  BY OnboardSteps
<1>f. /\ losses \in Nat /\ lates \in Nat /\ losses' \in Nat /\ lates' \in Nat
      /\ losses' >= losses /\ lates' >= lates
  BY StepFrame
<1>g. Faults' = 0 => Faults = 0 /\ lates' = lates
  <2>1. \A a, b, c, d \in Nat : c >= a /\ d >= b /\ c + d = 0 => a + b = 0 /\ d = b
    OBVIOUS
  <2> QED  BY <1>f, <2>1, ZenonT(60) DEF Faults
<1>p. ~SkipPoll
  <2>1. SkipPoll => at \in Steps /\ Step.what = "silent_poll"  BY DEF SkipPoll, Skipped
  <2> QED  BY <1>s, <2>1 DEF Step
<1>w. ASSUME Leave PROVE /\ at \in Steps /\ at' = at + 1
                         /\ AwaitedAt(at) => phase = "waiting" /\ (Answered \/ TimesOut)
  <2>1. at \in Steps /\ at' = at + 1 /\ phase # "ready"  BY <1>0, <1>p, <1>w, LeaveFrame
  <2>2. AwaitedAt(at) => phase \notin {"draining", "confirming"}
    BY <1>0 DEF PhaseInv, Awaited, AwaitedAt, Step
  <2> QED  BY <1>w, <2>1, <2>2, LeaveWaits DEF Answered, TimesOut
<1>t. TimesOut \/ timeouts' = timeouts
  BY NextSplit, AsideFrame, NotifiedFrame
     DEF Leave, SkipPoll, Answered, DrainQuiet, PauseOver, BeginStep, WriteReturns, WriteFails,
         Listen, EndSession, TimerObeys, TimerIgnores, waitVars
<1>a. at' = at \/ Leave
  BY NextSplit, AsideFrame, NotifiedFrame
     DEF BeginStep, WriteReturns, WriteFails, Listen, EndSession, TimerObeys, TimerIgnores
<1>1. used' = <<>>
  <2>1. CASE BeginStep
    <3>1. at \in Steps /\ (Step.num = "alloc" \/ UNCHANGED cmdVars)
      BY <2>1 DEF BeginStep
    <3> QED  BY <1>0, <1>s, <3>1 DEF Step, cmdVars
  <2>2. CASE ~BeginStep
    BY <1>0, <2>2, NextSplit, LeaveFrame, AsideFrame, NotifiedFrame
       DEF WriteReturns, WriteFails, Listen, EndSession, TimerObeys, TimerIgnores, cmdVars
  <2> QED  BY <2>1, <2>2
<1>2. ASSUME TimesOut
      PROVE  at \in Steps /\ AwaitedAt(at) /\ at' = at + 1 /\ timeouts' = timeouts \cup {at}
  <2>1. phase = "waiting" /\ timeouts' = timeouts \cup {at}  BY <1>2 DEF TimesOut
  <2>2. AwaitedAt(at)  BY <1>0, <2>1 DEF PhaseInv, Awaited, AwaitedAt, Step
  <2>3. Leave  BY <1>2 DEF Leave
  <2> QED  BY <1>w, <2>1, <2>2, <2>3
<1>3. \A k \in timeouts' : k < at' /\ AwaitedAt(k)
  <2>1. at' >= at  BY <1>0, <1>a, <1>w
  <2>2. \A k \in timeouts : k \in Int
    <3>1. timeouts \subseteq Steps  BY <1>0 DEF TypeOK
    <3> QED  BY <1>s, <3>1
  <2>3. at' \in Int  BY <1>0, <1>a, <1>w
  <2>4. \A k \in timeouts : k < at' /\ AwaitedAt(k)  BY <1>0, <2>1, <2>2, <2>3
  <2>5. CASE TimesOut  BY <1>0, <1>2, <2>4, <2>5
  <2>6. CASE timeouts' = timeouts  BY <2>4, <2>6
  <2> QED  BY <1>t, <2>5, <2>6
<1>4. ASSUME ~Prefixed'
      PROVE  fut' < 7 /\ \A n \in Flying' : n.re # Volunteered => n.re < 7
  <2>1. CASE Prefixed
    <3>1. BeginStep /\ at = 7
      <4>1. magic' # magic  BY <1>4, <2>1 DEF Prefixed
      <4> QED  BY <4>1, MagicKeeps DEF AnswerInv
    <3>2. phase = "ready" /\ inbox' = inbox /\ (Awaited => fut' = None)
      BY <3>1 DEF BeginStep, timerVars
    <3>3. fut' = None  BY <1>s, <3>1, <3>2 DEF Awaited, AwaitedAt, Step
    <3>4. ASSUME NEW n \in Flying, n.re # Volunteered PROVE n.re < 7
      <4>1. Ours(n)  BY <1>0, <3>4 DEF InboxInv, Theirs
      <4> QED  BY <3>1, <3>2, <4>1 DEF Ours, Passed
    <3> QED  BY <3>2, <3>3, <3>4 DEF Flying, None
  <2>2. CASE ~Prefixed
    <3>1. fut < 7 /\ \A n \in Flying : n.re # Volunteered => n.re < 7
      BY <2>2 DEF SilentInv
    <3>a. ASSUME inbox' = inbox, fut' \in {fut, None}
          PROVE  fut' < 7 /\ \A n \in Flying' : n.re # Volunteered => n.re < 7
      BY <3>1, <3>a DEF Flying, None
    <3>2. CASE Leave
      <4>1. fut' \in {fut, None}
        BY <3>2 DEF Leave, SkipPoll, Answered, TimesOut, DrainQuiet, PauseOver, futVars
      <4> QED  BY <1>0, <3>2, <3>a, <4>1, LeaveFrame
    <3>3. CASE BeginStep \/ WriteReturns \/ WriteFails \/ Listen \/ EndSession \/ TimerIgnores
      <4>1. inbox' = inbox /\ fut' \in {fut, None}
        BY <3>3 DEF BeginStep, WriteReturns, WriteFails, Listen, EndSession, TimerIgnores,
           futVars, timerVars
      <4> QED  BY <3>a, <4>1
    <3>4. CASE Aside  BY <3>4, <3>a, AsideFrame
    <3>5. CASE TimerObeys  BY <2>2, <3>5 DEF TimerObeys
    <3>6. CASE LoseNotify
      <4>1. inbox # <<>> /\ inbox' = Tail(inbox) /\ fut' = fut
        BY <3>6 DEF LoseNotify, futVars
      <4>2. Flying' \subseteq Flying  BY <1>0, <4>1, InboxTail
      <4> QED  BY <3>1, <4>1, <4>2
    <3>7. ASSUME NEW c \in TimerCmds, TimerNotifies(c)
          PROVE  fut' < 7 /\ \A n \in Flying' : n.re # Volunteered => n.re < 7
      <4>1. PICK n : inbox' = Append(inbox, n) /\ n.re = Volunteered
        BY <3>7 DEF TimerNotifies
      <4>2. Flying' = Flying \cup {n}  BY <1>0, <4>1, InboxAppend
      <4>3. fut' = fut  BY <3>7 DEF TimerNotifies, futVars
      <4> QED  BY <3>1, <4>1, <4>2, <4>3
    <3>8. CASE OnNotify
      <4>1. PICK n : n = Head(inbox)  OBVIOUS
      <4>2. /\ inbox # <<>> /\ inbox' = Tail(inbox)
            /\ fut' = IF Completes(n) THEN n.re ELSE fut
        BY <3>8, <4>1 DEF OnNotify
      <4>3. n \in Flying /\ Flying' \subseteq Flying  BY <1>0, <4>1, <4>2, InboxTail
      <4>4. fut' = None \/ fut' # Volunteered
        <5>1. FutInv' /\ AllocInv'  BY AnswerKeeps DEF AnswerInv
        <5>2. fut' # None => fut' \in 1 .. 13  BY <1>s, <5>1, SameScript DEF FutInv
        <5> QED  BY <5>2 DEF Volunteered
      <4> QED  BY <3>1, <4>2, <4>3, <4>4 DEF None
    <3> QED  BY <3>2, <3>3, <3>4, <3>5, <3>6, <3>7, <3>8, NextSplit DEF Notified
  <2> QED  BY <2>1, <2>2
<1>5. ASSUME Faults' = 0, NEW k \in Steps, k < at', AwaitedAt(k)
      PROVE  k \in timeouts' <=> k >= 7 /\ given # Proposed
  <2>0. Faults = 0 /\ lates' = lates /\ k \in Int  BY <1>5, <1>g, <1>s
  <2>1. CASE k < at
    <3>1. k \in timeouts <=> k >= 7 /\ given # Proposed  BY <1>5, <2>0, <2>1 DEF SilentInv
    <3>2. k \in timeouts' <=> k \in timeouts  BY <1>0, <1>2, <1>t, <2>0, <2>1
    <3> QED  BY <3>1, <3>2
  <2>2. CASE ~(k < at)
    <3>1. Leave /\ k = at  BY <1>0, <1>5, <1>a, <1>w, <2>0, <2>2
    <3>2. phase = "waiting" /\ (Answered \/ TimesOut)  BY <1>5, <1>w, <3>1
    <3>3. Prefixed <=> k < 7 \/ given = Proposed
      <4>1. k < 7 => Prefixed
        <5>1. Len(gen1_onboard_writes) = 6  BY OnboardSteps
        <5> QED  BY <1>0, <3>1, <5>1 DEF AnswerInv, MagicInv, Begun
      <4>2. k >= 7 => Begun(7)  BY <1>0, <3>1, <3>2 DEF Begun
      <4>3. k >= 7 => magic = given  BY <2>0, <4>2 DEF LearnInv
      <4> QED  BY <2>0, <4>1, <4>3 DEF Prefixed
    <3>4. CASE Answered
      <4>1. at \notin timeouts /\ timeouts' = timeouts
        BY <1>0, <3>4 DEF Answered
      <4>2. fut = at  BY <2>0, <3>4 DEF Answered, PunctualInv
      <4>3. Prefixed
        <5>1. ~Prefixed => k < 7  BY <3>1, <4>2 DEF SilentInv
        <5> QED  BY <3>3, <5>1
      <4> QED  BY <2>0, <3>1, <3>3, <4>1, <4>3
    <3>5. CASE TimesOut
      <4>1. at \in timeouts'  BY <1>2, <3>5
      <4>2. ~Prefixed
        <5>1. SUFFICES ASSUME Prefixed PROVE FALSE  OBVIOUS
        <5>2. fut = None /\ ~AnswerInFlight
          BY <2>0, <1>f, <3>5 DEF TimesOut
        <5>3. Missing  BY <1>0, <3>2, <5>2 DEF Missing, PhaseInv
        <5>4. NoBit  BY <1>0 DEF NoBit
        <5>5. Cardinality(timeouts) + 1 <= 0  BY <2>0, <5>1, <5>3, <5>4 DEF CountsInv
        <5>6. Cardinality(timeouts) \in Nat  BY <1>0, TimeoutsFinite
        <5> QED  BY <5>5, <5>6
      <4> QED  BY <2>0, <3>1, <3>3, <4>1, <4>2
    <3> QED  BY <3>2, <3>4, <3>5
  <2> QED  BY <2>1, <2>2
<1> QED  BY <1>1, <1>3, <1>4, <1>5

\* An onboarding returns the registered id unless two frames were lost or late.  When that id
\* is not the proposed one and nothing is lost or late, every awaited command of its status
\* session times out, and otherwise none does.
THEOREM OnboardLearns == Spec => []OnboardLearnsId
<1>1. Init => LearnInv /\ CountsInv /\ SilentInv
  <2> SUFFICES ASSUME Init PROVE LearnInv /\ CountsInv /\ SilentInv  OBVIOUS
  <2>1. LearnInv  BY DEF Init, LearnInv, Passed, Begun, Prefixed
  <2>2. CountsInv  BY InitCounts
  <2>3. AnswerInv  BY InitAnswer
  <2>4. op = "onboard" => Steps = 1 .. 13  BY <2>3, OnboardSteps
  <2>5. SilentInv  BY <2>4 DEF Init, SilentInv, Flying, Prefixed
  <2> QED  BY <2>1, <2>2, <2>5
<1>2. AnswerInv /\ LearnInv /\ SilentInv => OnboardLearnsId
  <2> SUFFICES ASSUME AnswerInv, LearnInv, SilentInv, op = "onboard", outcome = "ok"
               PROVE  /\ assigned = given \/ losses + lates >= 2
                      /\ losses + lates = 0 =>
                           timeouts = IF given = Proposed THEN {}
                                      ELSE Len(gen1_onboard_writes) + 1 .. Len(Script) - 1
    BY DEF OnboardLearnsId
  <2>1. /\ Len(gen1_onboard_writes) = 6 /\ Len(Script) = 13 /\ 11 \in Steps /\ Steps = 1 .. 13
        /\ \A i \in Steps : AwaitedAt(i) <=> i \notin {6, 13}
    BY OnboardSteps
  <2>2. at = 14 /\ Passed(11)
    <3>1. at = Len(Script) + 1 /\ Passed(11)  BY <2>1, ScriptDone
    <3> QED  BY <2>1, <3>1
  <2>3. losses \in Nat /\ lates \in Nat  BY DEF AnswerInv, TypeOK
  <2>4. Faults <= 1 => assigned = given  BY <2>2 DEF LearnInv
  <2>5. ASSUME losses + lates = 0 PROVE timeouts = IF given = Proposed THEN {} ELSE 7 .. 12
    <3>1. \A k \in Steps : k < 14 /\ AwaitedAt(k) => (k \in timeouts <=> k >= 7 /\ given # Proposed)
      BY <2>2, <2>5 DEF SilentInv, Faults
    <3>2. timeouts \subseteq Steps /\ \A k \in timeouts : AwaitedAt(k)
      BY DEF AnswerInv, TypeOK, SilentInv
    <3>3. \A k \in Steps : k \in timeouts <=> k \in 7 .. 12 /\ given # Proposed
      BY <2>1, <3>1, <3>2
    <3>4. 7 .. 12 \subseteq Steps  BY <2>1
    <3>5. CASE given = Proposed  BY <3>2, <3>3, <3>5
    <3>6. CASE given # Proposed  BY <3>2, <3>3, <3>4, <3>6
    <3> QED  BY <3>5, <3>6
  <2>6. assigned = given \/ losses + lates >= 2  BY <2>3, <2>4 DEF Faults
  <2>7. Len(gen1_onboard_writes) + 1 = 7 /\ Len(Script) - 1 = 12  BY <2>1
  <2> QED  BY <2>5, <2>6, <2>7
<1> QED
  BY <1>1, <1>2, CountsKeeps, LearnKeeps, SilentKeeps, InitPunctual, PunctualKeeps,
     AnswerInvariance, PTL DEF Spec
===============================================================================
