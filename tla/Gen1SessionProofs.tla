--------------------------- MODULE Gen1SessionProofs ---------------------------
(***************************************************************************)
(* Proofs about Gen1Session, for every operation, any set of bytes the     *)
(* timer uses for its own notifies, and any bounds: its command bytes, and *)
(* that it implements TimerSession.                                        *)
(***************************************************************************)
EXTENDS Gen1Session, Gen1OpsProofs

\* The script's position, and how many bytes it can have allocated by then: notifies
\* push the counter to 192 at most, every step begun adds at most one.
PlaceInv ==
  /\ op \in Ops
  /\ at \in 1 .. Len(Script) + 1
  /\ phase = "writing" => at \in Steps
  /\ phase \in {"waiting", "draining", "confirming"} => at \in Steps

CountInv ==
  /\ next_cmd \in Int
  /\ next_cmd <= IF phase = "ready" THEN 191 + at ELSE 192 + at

\* Every byte allocated or heard is below the next one.
FreshInv ==
  /\ used \in Seq(Int)
  /\ \A i \in 1 .. Len(used) : used[i] < next_cmd
  /\ heard \subseteq Int
  /\ \A c \in heard : c < next_cmd

AllocInv == PlaceInv /\ CountInv /\ FreshInv

LEMMA InitAlloc == Init => AllocInv
<1> SUFFICES ASSUME Init PROVE AllocInv  OBVIOUS
<1>1. op \in Ops  BY DEF Init
<1>2. Len(Script) \in Nat  BY <1>1, ScriptType, OpsAssumption DEF Script
<1> QED  BY <1>1, <1>2 DEF Init, AllocInv, PlaceInv, CountInv, FreshInv, FirstCmd, Steps

\* A notify moves the counter forward, never past 192, and above its own byte.
LEMMA BumpedAhead ==
  ASSUME NEW n, IsAsync(n), next_cmd \in Int
  PROVE  /\ bumped(n) \in Int
         /\ next_cmd <= bumped(n)
         /\ n.cmd \in Int
         /\ n.cmd < bumped(n)
         /\ bumped(n) <= 192 \/ bumped(n) = next_cmd
<1>1. n.cmd \in Int /\ n.cmd <= 191 /\ n.cmd >= 135  BY DEF IsAsync, AsyncCmds
<1>2. ~HasResponseBit(n.cmd)
  <2>1. n.cmd \in 135 .. 191  BY <1>1
  <2>2. n.cmd \div 64 = 2  BY <2>1
  <2> QED  BY <2>2 DEF HasResponseBit, ResponseBit
<1> QED  BY <1>1, <1>2 DEF bumped

LEMMA AllocPreserved == AllocInv /\ [Next]_vars => AllocInv'
<1> SUFFICES ASSUME AllocInv, [Next]_vars PROVE AllocInv'  OBVIOUS
<1>op. op' = op
  BY DEF Next, ScriptNext, BeginStep, SkipPoll, WriteReturns, WriteFails, Answered, TimesOut,
         DrainQuiet, PauseOver, Listen, EndSession, OnNotify, AckSent, AckFails, TimerObeys,
         TimerIgnores, TimerNotifies, LoseNotify, NotifyAges, CommitAges, vars, timerVars,
         fixedVars
<1>len. Len(Script) \in Nat
  BY ScriptType, OpsAssumption DEF Script, AllocInv, PlaceInv
<1>script. Script' = Script  BY <1>op DEF Script
<1> USE <1>op, <1>len, <1>script DEF AllocInv, PlaceInv, CountInv, FreshInv, Steps
<1>1. CASE BeginStep
  <2>1. PlaceInv'  BY <1>1 DEF BeginStep
  <2>2. CASE Step.num = "alloc"
    <3>1. next_cmd' = next_cmd + 1 /\ used' = Append(used, next_cmd) /\ heard' = heard
      BY <1>1, <2>2 DEF BeginStep, alloc_cmd, heardVars
    <3>2. CountInv'  BY <1>1, <3>1 DEF BeginStep
    <3>3. used' \in Seq(Int) /\ Len(used') = Len(used) + 1  BY <3>1
    <3>4. \A i \in 1 .. Len(used') : used'[i] < next_cmd'
      <4> SUFFICES ASSUME NEW i \in 1 .. Len(used') PROVE used'[i] < next_cmd'  OBVIOUS
      <4>1. CASE i = Len(used) + 1
        <5>1. used'[i] = next_cmd  BY <3>1, <4>1
        <5> QED  BY <3>1, <5>1
      <4>2. CASE i # Len(used) + 1
        <5>1. i \in 1 .. Len(used)  BY <3>3, <4>2
        <5>2. used'[i] = used[i]  BY <3>1, <5>1
        <5>3. used[i] \in Int  BY <5>1
        <5> QED  BY <3>1, <5>1, <5>2, <5>3
      <4> QED  BY <4>1, <4>2
    <3>5. \A c \in heard' : c < next_cmd'
      <4> SUFFICES ASSUME NEW c \in heard PROVE c < next_cmd + 1
        BY <3>1
      <4>1. c \in Int /\ c < next_cmd  OBVIOUS
      <4> QED  BY <4>1
    <3> QED  BY <2>1, <3>1, <3>2, <3>3, <3>4, <3>5
  <2>3. CASE Step.num # "alloc"
    BY <1>1, <2>1, <2>3 DEF BeginStep, cmdVars, heardVars
  <2> QED  BY <2>2, <2>3
<1>2. CASE SkipPoll
  BY <1>2 DEF SkipPoll, NextStep, cmdVars, heardVars
<1>3. CASE WriteReturns
  BY <1>3 DEF WriteReturns, cmdVars, heardVars
<1>4. CASE WriteFails
  BY <1>4 DEF WriteFails, cmdVars, heardVars
<1>5. CASE Answered
  BY <1>5 DEF Answered, NextStep, cmdVars, heardVars
<1>6. CASE TimesOut
  BY <1>6 DEF TimesOut, NextStep, cmdVars, heardVars
<1>7. CASE DrainQuiet
  BY <1>7 DEF DrainQuiet, NextStep, cmdVars, heardVars
<1>8. CASE PauseOver
  BY <1>8 DEF PauseOver, NextStep, cmdVars, heardVars
<1>9. CASE Listen
  BY <1>9 DEF Listen, cmdVars, heardVars
<1>10. CASE EndSession
  BY <1>10 DEF EndSession, cmdVars, heardVars
<1>11. CASE OnNotify
  <2> DEFINE n == Head(inbox)
  <2>1. at' = at /\ phase' = phase /\ used' = used  BY <1>11 DEF OnNotify, stepVars
  <2>2. CASE IsAsync(n)
    <3>1. next_cmd' = bumped(n) /\ heard' = heard \cup {n.cmd}
      BY <1>11, <2>2 DEF OnNotify
    <3>2. /\ bumped(n) \in Int /\ next_cmd <= bumped(n) /\ n.cmd \in Int /\ n.cmd < bumped(n)
          /\ bumped(n) <= 192 \/ bumped(n) = next_cmd
      BY <2>2, BumpedAhead
    <3> HIDE DEF n
    <3>3. PlaceInv' /\ CountInv'  BY <2>1, <3>1, <3>2
    <3>4. \A i \in 1 .. Len(used') : used'[i] < next_cmd'
      <4> SUFFICES ASSUME NEW i \in 1 .. Len(used) PROVE used[i] < bumped(n)
        BY <2>1, <3>1
      <4>1. used[i] \in Int  OBVIOUS
      <4> QED  BY <3>2, <4>1
    <3>5. heard' \subseteq Int  BY <3>1, <3>2
    <3>6. \A c \in heard' : c < next_cmd'
      <4> SUFFICES ASSUME NEW c \in heard \cup {n.cmd} PROVE c < bumped(n)
        BY <3>1
      <4>1. CASE c \in heard
        <5>1. c \in Int /\ c < next_cmd  BY <4>1
        <5> QED  BY <3>2, <5>1
      <4>2. CASE c = n.cmd  BY <3>2, <4>2
      <4> QED  BY <4>1, <4>2
    <3> QED  BY <2>1, <3>3, <3>4, <3>5, <3>6
  <2>3. CASE ~IsAsync(n)
    <3>1. next_cmd' = next_cmd /\ heard' = heard  BY <1>11, <2>3 DEF OnNotify
    <3> QED  BY <2>1, <3>1
  <2> QED  BY <2>2, <2>3
<1>12. CASE AckSent
  BY <1>12 DEF AckSent, stepVars, cmdVars, heardVars
<1>13. CASE AckFails
  BY <1>13 DEF AckFails, stepVars, cmdVars, heardVars
<1>14. CASE TimerObeys
  BY <1>14 DEF TimerObeys, cmdVars, heardVars
<1>15. CASE TimerIgnores
  BY <1>15 DEF TimerIgnores, cmdVars, heardVars
<1>16. ASSUME NEW c \in TimerCmds, TimerNotifies(c) PROVE AllocInv'
  BY <1>16 DEF TimerNotifies, stepVars, cmdVars, heardVars
<1>17. CASE LoseNotify
  BY <1>17 DEF LoseNotify, stepVars, cmdVars, heardVars
<1>18. CASE NotifyAges
  BY <1>18 DEF NotifyAges, stepVars, cmdVars, heardVars
<1>19. CASE CommitAges
  BY <1>19 DEF CommitAges, stepVars, cmdVars, heardVars
<1>20. CASE UNCHANGED vars
  BY <1>20 DEF vars, stepVars, cmdVars, heardVars
<1> QED
  BY <1>1, <1>2, <1>3, <1>4, <1>5, <1>6, <1>7, <1>8, <1>9, <1>10, <1>11, <1>12, <1>13,
     <1>14, <1>15, <1>16, <1>17, <1>18, <1>19, <1>20 DEF Next, ScriptNext

\* alloc_cmd never raises for want of a command byte: not in any operation, whichever
\* of its async bytes the timer uses, however often.
THEOREM CommandBytesSuffice == Spec => []NeverExhausted
<1>1. AllocInv => NeverExhausted
  <2> SUFFICES ASSUME AllocInv PROVE NeverExhausted  OBVIOUS
  <2>1. Script \in Seq(StepOf(Allowed(op))) /\ Len(Script) <= 20
    BY ScriptType, OpsAssumption DEF Script, AllocInv, PlaceInv
  <2> QED  BY <2>1 DEF AllocInv, PlaceInv, CountInv, NeverExhausted
<1> QED  BY <1>1, InitAlloc, AllocPreserved, PTL DEF Spec

\* Every allocated byte is above those allocated before and those heard from the timer.
THEOREM CommandBytesFresh == Spec => AllocFresh
<1> DEFINE Fresh == used' # used =>
                      /\ \A i \in 1 .. Len(used) : used[i] < used'[Len(used')]
                      /\ \A c \in heard : c < used'[Len(used')]
<1>1. AllocInv /\ [Next]_vars => [Fresh]_vars
  <2> SUFFICES ASSUME AllocInv, Next, used' # used PROVE Fresh  OBVIOUS
  <2>1. used' = Append(used, next_cmd)
    BY DEF Next, ScriptNext, BeginStep, alloc_cmd, SkipPoll, WriteReturns, WriteFails,
           Answered, TimesOut, DrainQuiet, PauseOver, Listen, EndSession, OnNotify, AckSent,
           AckFails, TimerObeys, TimerIgnores, TimerNotifies, LoseNotify, NotifyAges,
           CommitAges, cmdVars
  <2>2. used'[Len(used')] = next_cmd  BY <2>1 DEF AllocInv, FreshInv, CountInv
  <2> QED  BY <2>2 DEF AllocInv, FreshInv
<1>2. AllocInv /\ [Next]_vars => [used' # used =>
         /\ \A i \in 1 .. Len(used) : used[i] < used'[Len(used')]
         /\ \A c \in heard : c < used'[Len(used')]]_vars
  BY <1>1
<1> QED  BY <1>2, InitAlloc, AllocPreserved, PTL DEF Spec, AllocFresh

-------------------------------------------------------------------------------
(* Refinement: the snapshot lags behind the valve; the notifies on their way lie in    *)
(* between, in order, and those of the present version tell the present valve.         *)

Kinds == {"watering", "idle"}

LagInv ==
  /\ valve \in Kinds
  /\ ver \in Nat
  /\ status.ver \in Nat /\ status.ver <= ver
  /\ \A i \in 1 .. Len(inbox) :
       /\ inbox[i].ver \in Nat
       /\ inbox[i].rec \in Kinds \cup {"none"}
       /\ status.ver <= inbox[i].ver /\ inbox[i].ver <= ver
       /\ inbox[i].ver = ver => inbox[i].rec \in {valve, "none"}
  /\ \A i, j \in 1 .. Len(inbox) : i <= j => inbox[i].ver <= inbox[j].ver

ViewInv ==
  /\ \E S : inbox \in Seq(S)
  /\ outcome = "running" <=> phase # "closed"
  /\ LagInv

LEMMA InitView == Init => ViewInv /\ Session!Init
<1> SUFFICES ASSUME Init PROVE ViewInv /\ Session!Init  OBVIOUS
<1>1. inbox = <<>> /\ inbox \in Seq(Nat)  BY DEF Init
<1>2. ViewInv  BY <1>1 DEF Init, ViewInv, LagInv, Kinds
<1>3. Session!Init
  BY OpsAssumption DEF Init, Session!Init, Operations
<1> QED  BY <1>2, <1>3

\* A notify about the valve as it is joins the others.
LEMMA NotifyJoins ==
  ASSUME ViewInv, NEW n,
         valve' \in Kinds, ver' \in Nat,
         (ver' = ver /\ valve' = valve) \/ ver' = ver + 1,
         n.ver = ver', n.rec \in {valve', "none"},
         inbox' = Append(inbox, n), status' = status
  PROVE  (\E S : inbox' \in Seq(S)) /\ LagInv'
<1>1. PICK S : inbox \in Seq(S)  BY DEF ViewInv
<1>2. /\ inbox' \in Seq(S \cup {n})
      /\ Len(inbox) \in Nat
      /\ Len(inbox') = Len(inbox) + 1
      /\ inbox'[Len(inbox) + 1] = n
      /\ \A i \in 1 .. Len(inbox) : inbox'[i] = inbox[i]
  <2>1. inbox \in Seq(S \cup {n})  BY <1>1
  <2> QED  BY <2>1
<1>3. \A i \in 1 .. Len(inbox') : i \in 1 .. Len(inbox) \/ i = Len(inbox) + 1
  BY <1>2
<1>4. \A i \in 1 .. Len(inbox') :
        /\ inbox'[i].ver \in Nat
        /\ inbox'[i].rec \in Kinds \cup {"none"}
        /\ status'.ver <= inbox'[i].ver /\ inbox'[i].ver <= ver'
        /\ inbox'[i].ver = ver' => inbox'[i].rec \in {valve', "none"}
  <2> SUFFICES ASSUME NEW i \in 1 .. Len(inbox')
               PROVE  /\ inbox'[i].ver \in Nat
                      /\ inbox'[i].rec \in Kinds \cup {"none"}
                      /\ status'.ver <= inbox'[i].ver /\ inbox'[i].ver <= ver'
                      /\ inbox'[i].ver = ver' => inbox'[i].rec \in {valve', "none"}
    OBVIOUS
  <2>1. CASE i = Len(inbox) + 1
    BY <2>1, <1>2 DEF ViewInv, LagInv
  <2>2. CASE i \in 1 .. Len(inbox)
    <3>1. inbox'[i] = inbox[i]  BY <2>2, <1>2
    <3>2. /\ inbox[i].ver \in Nat
          /\ inbox[i].rec \in Kinds \cup {"none"}
          /\ status.ver <= inbox[i].ver /\ inbox[i].ver <= ver
          /\ inbox[i].ver = ver => inbox[i].rec \in {valve, "none"}
          /\ ver \in Nat
      BY <2>2 DEF ViewInv, LagInv
    <3>3. inbox[i].ver = ver' => ver' = ver /\ valve' = valve
      BY <3>2
    <3> QED  BY <3>1, <3>2, <3>3
  <2> QED  BY <2>1, <2>2, <1>3
<1>5. \A i, j \in 1 .. Len(inbox') : i <= j => inbox'[i].ver <= inbox'[j].ver
  <2> SUFFICES ASSUME NEW i \in 1 .. Len(inbox'), NEW j \in 1 .. Len(inbox'), i <= j
               PROVE  inbox'[i].ver <= inbox'[j].ver
    OBVIOUS
  <2>1. CASE j = Len(inbox) + 1
    BY <2>1, <1>2, <1>4
  <2>2. CASE j \in 1 .. Len(inbox)
    <3>1. i \in 1 .. Len(inbox)  BY <2>2, <1>2
    <3> QED  BY <2>2, <3>1, <1>2 DEF ViewInv, LagInv
  <2> QED  BY <2>1, <2>2, <1>3
<1> QED  BY <1>2, <1>4, <1>5 DEF ViewInv, LagInv

\* The first notify is taken from the others, read or lost.
LEMMA NotifyLeaves ==
  ASSUME ViewInv, inbox # <<>>,
         valve' = valve, ver' = ver, inbox' = Tail(inbox),
         status' = status \/ status'.ver = Head(inbox).ver
  PROVE  (\E S : inbox' \in Seq(S)) /\ LagInv'
<1>1. PICK S : inbox \in Seq(S)  BY DEF ViewInv
<1>2. /\ inbox' \in Seq(S)
      /\ Len(inbox) \in Nat /\ Len(inbox) >= 1
      /\ Len(inbox') = Len(inbox) - 1
      /\ \A i \in 1 .. Len(inbox') : inbox'[i] = inbox[i + 1] /\ i + 1 \in 1 .. Len(inbox)
      /\ Head(inbox) = inbox[1]
      /\ 1 \in 1 .. Len(inbox)
  BY <1>1
<1>3. /\ status'.ver \in Nat /\ status'.ver <= ver'
      /\ \A i \in 1 .. Len(inbox) : 1 <= i => status'.ver <= inbox[i].ver
  <2>1. CASE status' = status  BY <2>1 DEF ViewInv, LagInv
  <2>2. CASE status'.ver = Head(inbox).ver
    BY <2>2, <1>2 DEF ViewInv, LagInv
  <2> QED  BY <2>1, <2>2
<1>4. ASSUME NEW i \in 1 .. Len(inbox')
      PROVE  /\ inbox'[i].ver \in Nat
             /\ inbox'[i].rec \in Kinds \cup {"none"}
             /\ status'.ver <= inbox'[i].ver /\ inbox'[i].ver <= ver'
             /\ inbox'[i].ver = ver' => inbox'[i].rec \in {valve', "none"}
  BY <1>2, <1>3 DEF ViewInv, LagInv
<1>5. ASSUME NEW i \in 1 .. Len(inbox'), NEW j \in 1 .. Len(inbox'), i <= j
      PROVE  inbox'[i].ver <= inbox'[j].ver
  BY <1>2, <1>5 DEF ViewInv, LagInv
<1> QED  BY <1>2, <1>3, <1>4, <1>5 DEF ViewInv, LagInv

\* What each step is to the coordinator.
LEMMA StepRefines ==
  AllocInv /\ ViewInv /\ [Next]_vars => ViewInv' /\ [Session!Next]_(Session!vars)
<1> SUFFICES ASSUME AllocInv, ViewInv, [Next]_vars
             PROVE  ViewInv' /\ [Session!Next]_(Session!vars)
  OBVIOUS
<1> DEFINE Goal == ViewInv' /\ [Session!Next]_(Session!vars)
<1>a. CASE UNCHANGED <<op, valve, ver, status, inbox, outcome>>
           /\ (phase' = "closed" <=> phase = "closed")
  BY <1>a DEF ViewInv, LagInv, Session!vars
<1>1. CASE OnNotify
  <2> DEFINE n == Head(inbox)
  <2>1. /\ inbox # <<>> /\ inbox' = Tail(inbox) /\ phase # "closed"
        /\ status' = merge_record(n)
        /\ UNCHANGED <<op, valve, ver, outcome, phase>>
    BY <1>1 DEF OnNotify, stepVars, fixedVars
  <2>2. status' = status \/ status'.ver = n.ver
    BY <2>1 DEF merge_record
  <2>3. ViewInv'
    BY <2>1, <2>2, NotifyLeaves DEF ViewInv
  <2>4. n.ver \in status.ver .. ver /\ (n.ver = ver => n.rec \in {valve, "none"})
        /\ n.rec \in Kinds \cup {"none"}
    <3>1. PICK S : inbox \in Seq(S)  BY DEF ViewInv
    <3>2. 1 \in 1 .. Len(inbox) /\ n = inbox[1]  BY <2>1, <3>1
    <3> QED  BY <3>2 DEF ViewInv, LagInv
  <2>5. CASE n.rec = "none"
    BY <2>1, <2>3, <2>5 DEF merge_record, Session!vars
  <2>6. CASE n.rec # "none"
    <3>1. status' = [kind |-> n.rec, ver |-> n.ver]
      BY <2>1, <2>6 DEF merge_record
    <3>2. n.rec \in {"watering", "idle"} /\ (n.ver = ver => n.rec = valve)
      BY <2>4, <2>6 DEF Kinds
    <3>3. Session!Hear
      BY <2>1, <2>4, <3>1, <3>2 DEF Session!Hear, ViewInv
    <3> QED  BY <2>3, <3>3 DEF Session!Next
  <2> QED  BY <2>5, <2>6
<1>2. CASE TimerObeys
  <2>1. /\ phase = "writing" /\ at \in Steps
        /\ UNCHANGED <<op, status, outcome, phase>>
        /\ valve' = ValveAfter
        /\ ver' = IF Step.what = "start" \/ valve' # valve THEN ver + 1 ELSE ver
        /\ inbox' = Append(inbox, Answer(valve', ver'))
    BY <1>2 DEF TimerObeys, AllocInv, PlaceInv, heardVars, fixedVars
  <2>2. /\ Step.what = "start" => op = "start"
        /\ Step.what \in {"stop", "clear"} => op \in {"start", "stop"}
    <3>1. op \in Operations  BY OpsAssumption DEF AllocInv, PlaceInv
    <3>2. Script \in Seq(StepOf(Allowed(op)))  BY <3>1, ScriptType DEF Script
    <3>3. Step \in StepOf(Allowed(op))  BY <2>1, <3>2 DEF Step, Steps
    <3>4. Step.what \in Allowed(op)  BY <3>3 DEF StepOf
    <3> QED  BY <3>4 DEF Allowed, Mild
  <2>3. valve \in Kinds /\ ver \in Nat  BY DEF ViewInv, LagInv
  <2>4. valve' \in Kinds /\ (valve' = "watering" /\ valve' # valve => Step.what = "start")
    BY <2>1, <2>3 DEF ValveAfter, Kinds
  <2>5. ver' \in Nat /\ ((ver' = ver /\ valve' = valve) \/ ver' = ver + 1)
    BY <2>1, <2>3
  <2>6. /\ Answer(valve', ver').ver = ver'
        /\ Answer(valve', ver').rec \in {valve', "none"}
    BY DEF Answer
  <2>7. ViewInv'
    BY <2>1, <2>4, <2>5, <2>6, NotifyJoins DEF ViewInv
  <2>8. CASE ver' = ver /\ valve' = valve
    BY <2>1, <2>7, <2>8 DEF Session!vars
  <2>9. CASE ~(ver' = ver /\ valve' = valve)
    <3>1. ver' = ver + 1 /\ (Step.what = "start" \/ valve' # valve)
      BY <2>1, <2>3, <2>9
    <3>2. Step.what \in {"start", "stop", "clear"}
      BY <2>1, <3>1 DEF ValveAfter
    <3>3. /\ op \in {"start", "stop"}
          /\ (valve' = "idle") \/ (op = "start" /\ valve' = "watering")
      BY <2>1, <2>2, <3>2 DEF ValveAfter
    <3>4. outcome = "running"  BY <2>1 DEF ViewInv
    <3>5. Session!Obey  BY <2>1, <3>1, <3>3, <3>4 DEF Session!Obey
    <3> QED  BY <2>7, <3>5 DEF Session!Next
  <2> QED  BY <2>8, <2>9
<1>3. ASSUME NEW c \in TimerCmds, TimerNotifies(c) PROVE Goal
  <2>1. PICK rec \in {"none", valve} :
          inbox' = Append(inbox, [cmd |-> c, re |-> Volunteered, rec |-> rec, ver |-> ver,
                                  id |-> None, sn |-> nasync'])
    BY <1>3 DEF TimerNotifies
  <2>2. UNCHANGED <<op, valve, ver, status, outcome, phase>>
    BY <1>3 DEF TimerNotifies, heardVars, stepVars, fixedVars
  <2>3. ViewInv'
    <3>1. valve' \in Kinds /\ ver' \in Nat  BY <2>2 DEF ViewInv, LagInv
    <3> DEFINE n == [cmd |-> c, re |-> Volunteered, rec |-> rec, ver |-> ver, id |-> None,
                     sn |-> nasync']
    <3>2. n.ver = ver' /\ n.rec \in {valve', "none"}  BY <2>2
    <3>3. inbox' = Append(inbox, n)  BY <2>1
    <3> HIDE DEF n
    <3> QED  BY <2>2, <3>1, <3>2, <3>3, NotifyJoins DEF ViewInv
  <2> QED  BY <2>2, <2>3 DEF Session!vars
<1>4. CASE LoseNotify
  <2>1. /\ inbox # <<>> /\ inbox' = Tail(inbox)
        /\ UNCHANGED <<op, valve, ver, status, outcome, phase>>
    BY <1>4 DEF LoseNotify, heardVars, stepVars, fixedVars
  <2>2. ViewInv'  BY <2>1, NotifyLeaves DEF ViewInv
  <2> QED  BY <2>1, <2>2 DEF Session!vars
<1>5. CASE WriteFails \/ EndSession
  <2>1. /\ phase \in {"writing", "listening"} /\ phase' = "closed"
        /\ outcome' \in {"ok", "error"}
        /\ UNCHANGED <<op, valve, ver, status, inbox>>
    BY <1>5 DEF WriteFails, EndSession, heardVars, timerVars, fixedVars
  <2>2. ViewInv'  BY <2>1 DEF ViewInv, LagInv
  <2>3. Session!End  BY <2>1 DEF Session!End, ViewInv
  <2> QED  BY <2>2, <2>3 DEF Session!Next
<1>6. CASE BeginStep
  BY <1>a, <1>6 DEF BeginStep, heardVars, timerVars, fixedVars
<1>7. CASE SkipPoll \/ Answered \/ TimesOut \/ DrainQuiet \/ PauseOver
  BY <1>a, <1>7 DEF SkipPoll, Answered, TimesOut, DrainQuiet, PauseOver, NextStep, heardVars,
     timerVars, fixedVars
<1>8. CASE WriteReturns
  BY <1>a, <1>8 DEF WriteReturns, heardVars, timerVars, fixedVars
<1>9. CASE Listen
  BY <1>a, <1>9 DEF Listen, heardVars, timerVars, fixedVars
<1>10. CASE AckSent \/ AckFails \/ NotifyAges \/ CommitAges
  BY <1>a, <1>10 DEF AckSent, AckFails, NotifyAges, CommitAges, stepVars, heardVars,
     timerVars, fixedVars
<1>11. CASE TimerIgnores
  BY <1>a, <1>11 DEF TimerIgnores, heardVars, timerVars, fixedVars
<1>12. CASE UNCHANGED vars
  BY <1>a, <1>12 DEF vars, stepVars, heardVars, timerVars, fixedVars
<1> QED
  BY <1>1, <1>2, <1>3, <1>4, <1>5, <1>6, <1>7, <1>8, <1>9, <1>10, <1>11, <1>12
     DEF Next, ScriptNext

\* A session implements TimerSession whatever the timer volunteers and however much is
\* lost or late: no operation but a start or a stop touches the valve, and the snapshot
\* never goes back in time.
THEOREM SessionImplemented == Spec => ImplementsSession
<1>1. AllocInv /\ ViewInv /\ [Next]_vars => [Session!Next]_(Session!vars)
  BY StepRefines
<1> QED
  BY <1>1, InitAlloc, InitView, AllocPreserved, StepRefines, PTL
     DEF Spec, ImplementsSession, Session!Spec
===============================================================================
