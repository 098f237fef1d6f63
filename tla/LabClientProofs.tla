--------------------------- MODULE LabClientProofs ---------------------------
(* Proofs about LabClient, for any number of notifies and faults. *)
EXTENDS LabClient, Gen1OpsProofs

-------------------------------------------------------------------------------
(* The counter is the number of frames built, and each frame got its number.          *)

Numbered ==
  /\ built \in Seq(Nat)
  /\ enc = Len(built)
  /\ \A i \in 1 .. Len(built) : built[i] = i - 1

\* What is built for a step or an ACK is numbered on.
LEMMA BuildNumbers ==
  ASSUME NEW s, Numbered, Build(s)
  PROVE  Numbered'
<1>1. enc \in Nat
  BY DEF Numbered
<1>2. built' = Append(built, enc) /\ enc' = enc + 1
  BY DEF Build
<1>3. built' \in Seq(Nat) /\ Len(built') = Len(built) + 1
  BY <1>1, <1>2 DEF Numbered
<1>4. ASSUME NEW i \in 1 .. Len(built')
      PROVE  built'[i] = i - 1
  <2>1. CASE i \in 1 .. Len(built)
    BY <2>1, <1>2 DEF Numbered
  <2>2. CASE i = Len(built) + 1
    BY <2>2, <1>1, <1>2 DEF Numbered
  <2> QED  BY <2>1, <2>2, <1>3 DEF Numbered
<1> QED  BY <1>2, <1>3, <1>4 DEF Numbered

LEMMA NumberedStep == Numbered /\ [Next]_vars => Numbered'
<1> SUFFICES ASSUME Numbered, [Next]_vars PROVE Numbered'
  OBVIOUS
<1>1. CASE SendStep
  BY <1>1, BuildNumbers DEF SendStep
<1>2. CASE SendAck
  BY <1>2, BuildNumbers DEF SendAck
<1>3. CASE UNCHANGED <<enc, built>>
  BY <1>3 DEF Numbered
<1>4. CASE ~SendStep /\ ~SendAck
  <2>1. UNCHANGED <<enc, built>>
    BY <1>4 DEF Next, vars, linkVars, WriteNetworkChar, WriteAesChar, ReadAesChar, SkipPoll,
       NextStep, TimesOut, WriteDone, WriteFails, IngestNotify, LoseNotify, TimerNotifies,
       ScriptOver, Finish
  <2> QED  BY <2>1, <1>3
<1> QED  BY <1>1, <1>2, <1>4

\* No two frames of the lab client are encrypted at one counter: send_plaintext of
\* main.py moves the counter before it awaits, and nothing ever moves it back.
THEOREM CountersNeverRepeat == Spec => []CountersUnique
<1>1. Init => Numbered
  BY DEF Init, Numbered
<1>2. Numbered => CountersUnique
  <2> SUFFICES ASSUME Numbered, NEW i \in 1 .. Len(built), NEW j \in 1 .. Len(built),
                      built[i] = built[j]
               PROVE  i = j
    BY DEF CountersUnique
  <2>1. i - 1 = j - 1
    BY DEF Numbered
  <2> QED  BY <2>1
<1> QED  BY <1>1, <1>2, NumberedStep, PTL DEF Spec

-------------------------------------------------------------------------------
(* The credentials of pair.  The fourth step of the onboarding script registers, so a *)
(* session past it knows the timer's id, has it in its inbox, or missed it.           *)

AssignComing == \E i \in 1 .. Len(inbox) : inbox[i] = "assign"
Known == assigned = timer.id \/ unheard \/ AssignComing

\* Facts that every action but a few leaves alone.
Types ==
  /\ args \in [cmd : Commands, gen : {1, 2}]
  /\ timer \in [key : {"old", "new"}, id : {Proposed, OtherId}]
  /\ inbox \in Seq(Notify)
  /\ step \in Nat \ {0}
  /\ at \in Places

\* The frame of a step is in flight only while the script awaits its write.
FramesOfStep ==
  /\ \A w \in flying : w.step # 0 => w.step = step /\ at = "writing"
  /\ \A v, w \in flying : v.step # 0 /\ w.step # 0 => v = w

KeyWritten == Pairing /\ at \notin {"network_char", "exit"} => timer.key = "new"

AssignedByTimer == assigned \in {None, timer.id} /\ (assigned # None => heard)

Registered ==
  Gen1 /\ Pairing /\ at # "exit" /\ (step > 4 \/ (step = 4 /\ at = "waiting")) => Known

Learned ==
  Gen1 /\ Pairing /\ at \in {"listening", "done"} => heard /\ (id = timer.id \/ unheard)

Printed ==
  saved # NotPrinted => Pairing /\ at = "done" /\ saved = [key |-> "new", id |-> id]

PairInv == Types /\ FramesOfStep /\ KeyWritten /\ AssignedByTimer /\ Registered /\ Learned
           /\ Printed

LEMMA PairInit == Init => PairInv
BY DEF Init, PairInv, Types, FramesOfStep, KeyWritten, AssignedByTimer, Registered, Learned,
   Printed, Known, Places, Pairing, NotPrinted, Commands, None, Proposed, OtherId

\* An action that only moves the script on between its first steps, or after its last.
Untouched == UNCHANGED <<args, id, assigned, heard, inbox, timer, unheard, saved>>

LEMMA PairMoves ==
  ASSUME PairInv, Untouched, at # "done", step' \in Nat \ {0}, at' \in Places,
         FramesOfStep', KeyWritten',
         at' # "exit" /\ Gen1 /\ Pairing /\ (step' > 4 \/ (step' = 4 /\ at' = "waiting"))
           => Known,
         at' \in {"listening", "done"} => at = at'
  PROVE  PairInv'
<1>1. /\ Types' /\ AssignedByTimer'
      /\ saved = NotPrinted /\ saved' = NotPrinted
  BY DEF PairInv, Types, AssignedByTimer, Printed, Untouched
<1>2. Known' <=> Known
  BY DEF Known, AssignComing, Untouched
<1>3. Registered' /\ Learned' /\ Printed'
  BY <1>1, <1>2 DEF PairInv, Registered, Learned, Printed, Gen1, Pairing, Untouched
<1> QED  BY <1>1, <1>3 DEF PairInv

\* An action that only changes the inbox and what was heard of it.
LEMMA PairHears ==
  ASSUME PairInv,
         UNCHANGED <<args, at, step, id, timer, saved>>,
         inbox' \in Seq(Notify), AssignedByTimer', FramesOfStep',
         Known => Known', unheard => unheard', heard => heard'
  PROVE  PairInv'
<1>1. Types' /\ KeyWritten' /\ Printed'
  BY DEF PairInv, Types, KeyWritten, Printed, Pairing
<1>2. Registered' /\ Learned'
  BY DEF PairInv, Registered, Learned, Gen1, Pairing
<1> QED  BY <1>1, <1>2 DEF PairInv

\* An assign stays in the inbox unless it is the one taken out.
LEMMA AssignStays ==
  ASSUME inbox \in Seq(Notify), inbox # <<>>, inbox' = Tail(inbox), AssignComing
  PROVE  Head(inbox) = "assign" \/ AssignComing'
<1>1. PICK i \in 1 .. Len(inbox) : inbox[i] = "assign"
  BY DEF AssignComing
<1>2. CASE i = 1
  BY <1>1, <1>2
<1>3. CASE i # 1
  <2>1. i - 1 \in 1 .. Len(Tail(inbox)) /\ Tail(inbox)[i - 1] = inbox[i]
    BY <1>3
  <2> QED  BY <1>1, <2>1 DEF AssignComing
<1> QED  BY <1>2, <1>3

\* An assign stays in the inbox when another notify joins, and may be that one.
LEMMA AssignJoins ==
  ASSUME inbox \in Seq(Notify), NEW n \in Notify, inbox' = Append(inbox, n)
  PROVE  /\ AssignComing => AssignComing'
         /\ n = "assign" => AssignComing'
<1>1. /\ Len(inbox') = Len(inbox) + 1 /\ inbox'[Len(inbox) + 1] = n
      /\ \A i \in 1 .. Len(inbox) : inbox'[i] = inbox[i]
      /\ Len(inbox) \in Nat
  OBVIOUS
<1> QED  BY <1>1 DEF AssignComing

LEMMA PairScript == Gen1 /\ Pairing => Script = OnboardScript
BY DEF Script, Gen1, Pairing

LEMMA PairStep == PairInv /\ [Next]_vars => PairInv'
<1> SUFFICES ASSUME PairInv, [Next]_vars PROVE PairInv'
  OBVIOUS
<1> USE DEF linkVars, engineVars, boundVars
<1>t. Types /\ FramesOfStep /\ KeyWritten /\ AssignedByTimer /\ Registered /\ Learned /\ Printed
  BY DEF PairInv
<1>1. ASSUME NEW arrives \in BOOLEAN, NEW fails \in BOOLEAN, WriteNetworkChar(arrives, fails)
      PROVE  PairInv'
  <2>1. /\ Types' /\ FramesOfStep' /\ KeyWritten' /\ Learned' /\ Printed'
        /\ timer'.id = timer.id
    BY <1>1, <1>t DEF WriteNetworkChar, Types, FramesOfStep, KeyWritten, Learned, Printed, Places,
       Pairing, Gen1
  <2>2. AssignedByTimer'
    BY <1>1, <1>t, <2>1 DEF WriteNetworkChar, AssignedByTimer
  <2>3. Registered'
    BY <1>1, <1>t, <2>1 DEF WriteNetworkChar, Registered, Known, AssignComing, Gen1, Pairing,
       Types
  <2> QED  BY <2>1, <2>2, <2>3 DEF PairInv
<1>2. ASSUME NEW fails \in BOOLEAN, WriteAesChar(fails) PROVE PairInv'
  BY <1>2, <1>t, PairMoves DEF WriteAesChar, Untouched, Types, Places, FramesOfStep, KeyWritten,
     Registered, Pairing
<1>3. ASSUME NEW got \in {"valid", "invalid", "error"}, ReadAesChar(got) PROVE PairInv'
  BY <1>3, <1>t, PairMoves DEF ReadAesChar, Untouched, Types, Places, FramesOfStep, KeyWritten,
     Registered, Pairing
<1>4. CASE SendStep
  <2>1. FramesOfStep'
    BY <1>4, <1>t DEF SendStep, Build, FramesOfStep
  <2> QED  BY <1>4, <1>t, <2>1, PairMoves DEF SendStep, Untouched, Types, Places, KeyWritten,
              Registered, Pairing
<1>5. CASE SkipPoll
  <2>1. ~(Gen1 /\ Pairing /\ step = 4)
    BY <1>5, PairScript, OnboardRegisters DEF SkipPoll
  <2> QED  BY <1>5, <1>t, <2>1, PairMoves DEF SkipPoll, Untouched, Types, Places, FramesOfStep,
              KeyWritten, Registered, Pairing
<1>6. CASE SendAck
  <2>1. FramesOfStep'
    BY <1>6, <1>t DEF SendAck, Build, FramesOfStep
  <2> QED  BY <1>6, <1>t, <2>1, PairHears DEF SendAck, Types, AssignedByTimer, Known,
              AssignComing
<1>7. CASE NextStep \/ TimesOut
  BY <1>7, <1>t, PairMoves DEF NextStep, TimesOut, Untouched, Types, Places, FramesOfStep,
     KeyWritten, Registered, Pairing
<1>8. ASSUME NEW w \in flying, WriteDone(w) PROVE PairInv'
  <2>1. FramesOfStep'
    BY <1>8, <1>t DEF WriteDone, FramesOfStep
  <2>2. CASE w.step = 0
    BY <1>8, <1>t, <2>1, <2>2, PairHears DEF WriteDone, Types, AssignedByTimer, Known,
       AssignComing
  <2>3. CASE w.step # 0
    <3>1. w.step = step /\ at = "writing" /\ at' = "waiting" /\ step' = step
      BY <1>8, <1>t, <2>3 DEF WriteDone, FramesOfStep
    <3>2. PICK n \in Notify : inbox' = Append(inbox, n) /\ (Registers(w) => n = "assign")
      BY <1>8, <2>3 DEF WriteDone, Notify
    <3>3. UNCHANGED <<args, id, assigned, heard, timer, unheard, saved>>
      BY <1>8 DEF WriteDone
    <3>4. Types' /\ KeyWritten' /\ AssignedByTimer' /\ Learned' /\ Printed'
      BY <1>t, <3>1, <3>2, <3>3 DEF Types, Places, KeyWritten, AssignedByTimer, Learned, Printed,
         Pairing
    <3>5. AssignComing => AssignComing'
      BY <1>t, <3>2, AssignJoins DEF Types
    <3>6. Gen1 /\ Pairing /\ step = 4 => AssignComing'
      <4>1. Gen1 /\ Pairing /\ step = 4 => Registers(w)
        BY <2>3, <3>1, PairScript, OnboardRegisters DEF Registers
      <4> QED  BY <1>t, <3>2, <4>1, AssignJoins DEF Types
    <3>7. Registered'
      BY <1>t, <3>1, <3>3, <3>5, <3>6 DEF Registered, Known, Gen1, Pairing
    <3> QED  BY <2>1, <3>4, <3>7 DEF PairInv
  <2> QED  BY <2>2, <2>3
<1>9. ASSUME NEW w \in flying, WriteFails(w) PROVE PairInv'
  <2>1. FramesOfStep'
    BY <1>9, <1>t DEF WriteFails, FramesOfStep
  <2>2. CASE w.step = 0
    BY <1>9, <1>t, <2>1, <2>2, PairHears DEF WriteFails, Types, AssignedByTimer, Known,
       AssignComing
  <2>3. CASE w.step # 0
    BY <1>9, <1>t, <2>1, <2>3, PairMoves DEF WriteFails, Untouched, Types, Places, KeyWritten,
       FramesOfStep
  <2> QED  BY <2>2, <2>3
<1>10. CASE IngestNotify
  <2>1. /\ inbox # <<>> /\ inbox' = Tail(inbox) /\ inbox' \in Seq(Notify)
        /\ UNCHANGED <<args, at, step, id, flying, timer, unheard, saved>>
        /\ heard' = (Gen1 \/ heard)
    BY <1>10, <1>t DEF IngestNotify, Types
  <2>2. AssignedByTimer'
    BY <1>10, <1>t, <2>1 DEF IngestNotify, AssignedByTimer
  <2>3. FramesOfStep'
    BY <1>t, <2>1 DEF FramesOfStep
  <2>4. Gen1 /\ Known => Known'
    <3>1. CASE assigned = timer.id \/ unheard
      BY <1>10, <2>1, <3>1 DEF IngestNotify, Known
    <3>2. CASE AssignComing
      <4>1. Head(inbox) = "assign" \/ AssignComing'
        BY <1>t, <2>1, <3>2, AssignStays DEF Types
      <4> QED  BY <1>10, <2>1, <4>1 DEF IngestNotify, Known
    <3> QED  BY <3>1, <3>2 DEF Known
  <2>5. CASE Gen1
    BY <2>1, <2>2, <2>3, <2>4, <2>5, PairHears
  <2>6. CASE ~Gen1
    <3>1. Registered' /\ Learned'
      BY <2>1, <2>6 DEF Registered, Learned, Gen1
    <3>2. Types' /\ KeyWritten' /\ Printed'
      BY <1>t, <2>1 DEF Types, KeyWritten, Printed, Pairing
    <3> QED  BY <2>2, <2>3, <3>1, <3>2 DEF PairInv
  <2> QED  BY <2>5, <2>6
<1>11. CASE LoseNotify
  <2>1. /\ inbox # <<>> /\ inbox' = Tail(inbox) /\ inbox' \in Seq(Notify)
        /\ UNCHANGED <<args, at, step, id, flying, assigned, heard, timer, saved>>
        /\ unheard' = (unheard \/ Head(inbox) = "assign")
    BY <1>11, <1>t DEF LoseNotify, Types
  <2>2. AssignedByTimer' /\ FramesOfStep'
    BY <1>t, <2>1 DEF AssignedByTimer, FramesOfStep
  <2>3. Known => Known'
    BY <1>t, <2>1, AssignStays DEF Types, Known
  <2> QED  BY <2>1, <2>2, <2>3, PairHears
<1>12. CASE TimerNotifies
  <2>1. /\ inbox' = Append(inbox, "async") /\ inbox' \in Seq(Notify)
        /\ UNCHANGED <<args, at, step, id, flying, assigned, heard, timer, unheard, saved>>
    BY <1>12, <1>t DEF TimerNotifies, Types, Notify
  <2>2. AssignedByTimer' /\ FramesOfStep'
    BY <1>t, <2>1 DEF AssignedByTimer, FramesOfStep
  <2>3. "async" \in Notify
    BY DEF Notify
  <2>4. AssignComing => AssignComing'
    BY <1>t, <2>1, <2>3, AssignJoins DEF Types
  <2>5. Known => Known'
    BY <2>1, <2>4 DEF Known
  <2> QED  BY <2>1, <2>2, <2>5, PairHears
<1>13. CASE ScriptOver
  <2>1. /\ at = "ready" /\ step > Len(Script)
        /\ UNCHANGED <<args, step, flying, assigned, heard, inbox, timer, saved>>
        /\ unheard' = (unheard \/ AssignComing)
    BY <1>13 DEF ScriptOver, AssignComing
  <2>2. at' \in {"listening", "exit"}
    BY <1>13 DEF ScriptOver
  <2>3. Types' /\ FramesOfStep' /\ KeyWritten' /\ AssignedByTimer' /\ Printed'
    BY <1>t, <2>1, <2>2 DEF Types, Places, FramesOfStep, KeyWritten, AssignedByTimer, Printed,
       Pairing
  <2>4. Gen1 /\ Pairing => Known
    <3>1. Len(OnboardScript) \in Nat
      BY ScriptType, LenProperties DEF ScriptOf, Operations
    <3> QED  BY <1>t, <2>1, <3>1, PairScript, OnboardRegisters DEF Registered, Types
  <2>5. Registered'
    BY <2>1, <2>4 DEF Registered, Known, AssignComing, Gen1, Pairing
  <2>6. ASSUME Gen1, Pairing, at' = "listening"
        PROVE  heard /\ (id' = timer.id \/ unheard')
    <3>1. assigned # None \/ heard
      BY <1>13, <2>6 DEF ScriptOver
    <3>2. heard
      BY <1>t, <3>1 DEF AssignedByTimer
    <3>3. id' = IF assigned # None THEN assigned ELSE id
      BY <1>13, <2>6 DEF ScriptOver, learned_device_id
    <3>4. timer.id # None
      BY <1>t DEF Types, None, Proposed, OtherId
    <3>5. CASE assigned # None
      BY <1>t, <3>2, <3>3, <3>5 DEF AssignedByTimer
    <3>6. CASE assigned = None
      BY <2>1, <2>4, <2>6, <3>2, <3>4, <3>6 DEF Known
    <3> QED  BY <3>5, <3>6
  <2>7. Learned'
    BY <2>1, <2>2, <2>6 DEF Learned, Gen1, Pairing
  <2> QED  BY <2>3, <2>5, <2>7 DEF PairInv
<1>14. CASE Finish
  <2>1. /\ at = "listening" /\ at' = "done"
        /\ saved' = IF Pairing THEN [key |-> "new", id |-> id] ELSE NotPrinted
        /\ UNCHANGED <<args, step, id, flying, assigned, heard, inbox, timer, unheard>>
    BY <1>14 DEF Finish
  <2>2. Types' /\ FramesOfStep' /\ KeyWritten' /\ AssignedByTimer'
    BY <1>t, <2>1 DEF Types, Places, FramesOfStep, KeyWritten, AssignedByTimer, Pairing
  <2>3. Learned' /\ Printed'
    BY <1>t, <2>1 DEF Learned, Printed, Gen1, Pairing
  <2>4. Registered'
    BY <1>t, <2>1 DEF Registered, Known, AssignComing, Gen1, Pairing
  <2> QED  BY <2>2, <2>3, <2>4 DEF PairInv
<1>15. CASE UNCHANGED vars
  BY <1>15, <1>t DEF vars, PairInv, Types, FramesOfStep, KeyWritten, AssignedByTimer, Registered,
     Known, AssignComing, Learned, Printed, Gen1, Pairing
<1> QED  BY <1>1, <1>2, <1>3, <1>4, <1>5, <1>6, <1>7, <1>8, <1>9, <1>10, <1>11, <1>12, <1>13,
            <1>14, <1>15 DEF Next

\* The credentials pair prints are those of the timer: the key of network_char, and for
\* gen1 the id the session learned, unless the notify that tells it was missed.
THEOREM PairPrints == Spec => []PairPrintsWhatHolds
<1>1. PairInv => PairPrintsWhatHolds
  BY DEF PairInv, KeyWritten, Learned, Printed, PairPrintsWhatHolds
<1> QED  BY <1>1, PairInit, PairStep, PTL DEF Spec

-------------------------------------------------------------------------------
(* Types.  The places in the script bound the steps, and every ACK task stems from a  *)
(* notify of the timer's own: those still to come out of the inbox are counted along  *)
(* it, f[i] of them from its i-th notify on.                                          *)

ScriptPlace ==
  /\ step <= Len(Script) + 1
  /\ at \in {"writing", "waiting"} => step <= Len(Script)

ReadsLeft == reads \in 0 .. MaxReads /\ (at # "exit" => reads < MaxReads)

Counts(f, box, n) ==
  /\ f \in [1 .. Len(box) + 1 -> Nat]
  /\ \A i \in 1 .. Len(box) : f[i] >= f[i + 1] + (IF box[i] = "async" THEN 1 ELSE 0)
  /\ f[1] <= n

AckBudget ==
  /\ nasync \in 0 .. MaxAsync
  /\ acks \in Nat
  /\ \E f : Counts(f, inbox, nasync - acks)

Rest ==
  /\ id \in {None, Proposed, OtherId}
  /\ flying \subseteq [ctr : Nat, step : 0 .. 20]
  /\ heard \in BOOLEAN /\ unheard \in BOOLEAN
  /\ faults \in 0 .. MaxFaults

LabInv == PairInv /\ Numbered /\ ScriptPlace /\ ReadsLeft /\ AckBudget /\ Rest

\* A notify that joins the inbox is one more at every place of it.
LEMMA CountsJoin ==
  ASSUME NEW box \in Seq(Notify), NEW m \in Notify, NEW n \in Int, NEW f, Counts(f, box, n)
  PROVE  \E g : Counts(g, Append(box, m), IF m = "async" THEN n + 1 ELSE n)
<1> DEFINE more == IF m = "async" THEN 1 ELSE 0
           last == Len(box) + 1
           g == [i \in 1 .. Len(box) + 2 |-> IF i <= last THEN f[i] + more ELSE 0]
<1>1. Len(box) \in Nat /\ Len(Append(box, m)) = last
      /\ Append(box, m)[last] = m
      /\ \A i \in 1 .. Len(box) : Append(box, m)[i] = box[i]
  OBVIOUS
<1>2. f \in [1 .. Len(box) + 1 -> Nat] /\ f[1] <= n
      /\ \A i \in 1 .. Len(box) : f[i] >= f[i + 1] + (IF box[i] = "async" THEN 1 ELSE 0)
  BY DEF Counts
<1>3. more \in {0, 1} /\ (m = "async" <=> more = 1)
  OBVIOUS
<1> HIDE DEF more
<1>4. g \in [1 .. Len(box) + 2 -> Nat] /\ g[1] = f[1] + more
  BY <1>1, <1>2, <1>3
<1>5. ASSUME NEW i \in 1 .. last
      PROVE  g[i] >= g[i + 1] + (IF Append(box, m)[i] = "async" THEN 1 ELSE 0)
  <2>1. CASE i <= Len(box)
    <3>1. g[i] = f[i] + more /\ g[i + 1] = f[i + 1] + more /\ Append(box, m)[i] = box[i]
      BY <1>1, <2>1
    <3>2. f[i] >= f[i + 1] + (IF box[i] = "async" THEN 1 ELSE 0) /\ f[i] \in Nat
          /\ f[i + 1] \in Nat
      BY <1>1, <1>2, <2>1, SMTT(30)
    <3> QED  BY <1>3, <3>1, <3>2, SMTT(30)
  <2>2. CASE i = last
    <3>1. g[i] = f[i] + more /\ g[i + 1] = 0 /\ Append(box, m)[i] = m
      BY <1>1, <2>2
    <3>2. f[i] \in Nat
      BY <1>2
    <3> QED  BY <1>3, <3>1, <3>2
  <2> QED  BY <1>1, <2>1, <2>2
<1>6. g[1] <= IF m = "async" THEN n + 1 ELSE n
  BY <1>1, <1>2, <1>3, <1>4
<1>7. Len(Append(box, m)) + 1 = Len(box) + 2
  BY <1>1
<1> HIDE DEF g
<1> QED  BY <1>1, <1>4, <1>5, <1>6, <1>7 DEF Counts

\* The first notify of the inbox leaves it with its share of the count.
LEMMA CountsLeave ==
  ASSUME NEW box \in Seq(Notify), box # <<>>, NEW n \in Int, NEW f, Counts(f, box, n)
  PROVE  \E g : Counts(g, Tail(box), IF Head(box) = "async" THEN n - 1 ELSE n)
<1> DEFINE g == [i \in 1 .. Len(box) |-> f[i + 1]]
<1>1. Len(box) \in Nat \ {0} /\ Len(Tail(box)) = Len(box) - 1 /\ Head(box) = box[1]
      /\ \A i \in 1 .. Len(box) - 1 : Tail(box)[i] = box[i + 1]
  OBVIOUS
<1>2. f \in [1 .. Len(box) + 1 -> Nat] /\ f[1] <= n
      /\ \A i \in 1 .. Len(box) : f[i] >= f[i + 1] + (IF box[i] = "async" THEN 1 ELSE 0)
  BY DEF Counts
<1>3. g \in [1 .. Len(box) -> Nat] /\ g[1] = f[2]
  BY <1>1, <1>2
<1>4. ASSUME NEW i \in 1 .. Len(box) - 1
      PROVE  g[i] >= g[i + 1] + (IF Tail(box)[i] = "async" THEN 1 ELSE 0)
  <2>1. g[i] = f[i + 1] /\ g[i + 1] = f[i + 1 + 1] /\ Tail(box)[i] = box[i + 1]
    BY <1>1
  <2>2. f[i + 1] >= f[i + 1 + 1] + (IF box[i + 1] = "async" THEN 1 ELSE 0)
    BY <1>1, <1>2
  <2> QED  BY <2>1, <2>2
<1>5. g[1] <= IF Head(box) = "async" THEN n - 1 ELSE n
  <2>1. f[1] >= f[2] + (IF box[1] = "async" THEN 1 ELSE 0) /\ f[1] \in Nat /\ f[2] \in Nat
    BY <1>1, <1>2
  <2> QED  BY <1>1, <1>2, <1>3, <2>1
<1> HIDE DEF g
<1>6. Len(Tail(box)) + 1 = Len(box)
  BY <1>1
<1> QED  BY <1>1, <1>3, <1>4, <1>5, <1>6 DEF Counts

\* No command of the lab client has more than 19 steps.
LEMMA ScriptShort == Types => Len(Script) \in 0 .. 19
<1> SUFFICES ASSUME Types PROVE Len(Script) \in 0 .. 19
  OBVIOUS
<1>1. /\ Len(StatusScript) = 8 /\ Len(StartScript) = 10
      /\ Len(StopScript) = 12 /\ Len(OnboardScript) = 13
  BY ScriptSteps DEF Operations, ScriptOf, IsStatus, IsStart, IsStop, IsOnboard
<1>2. Len(gen1_mesh_attach(TRUE)) \in 0 .. 8
  <2> DEFINE W == Mild \cup {"clear"}
  <2>1. Mild \subseteq W /\ "clear" \in W
    OBVIOUS
  <2> HIDE DEF W
  <2>2. gen1_mesh_attach(TRUE) \in Seq(StepOf(W))
    BY <2>1, AttachLength
  <2>3. Len(gen1_mesh_attach(TRUE)) <= 8
    BY <2>1, AttachLength
  <2>4. Len(gen1_mesh_attach(TRUE)) \in Nat
    BY <2>2, LenProperties
  <2> DEFINE n == Len(gen1_mesh_attach(TRUE))
  <2>5. n \in Nat /\ n <= 8
    BY <2>3, <2>4
  <2> HIDE DEF n
  <2>6. n \in 0 .. 8
    BY <2>5
  <2> QED  BY <2>6 DEF n
<1>3. Len(<< Fixed("start", 0) >>) = 1 /\ Len(Gen2Queries) = 3
      /\ Len(<< Fixed("stop", 0) >> \o Gen2Queries) = 4
  BY DEF Gen2Queries
<1> DEFINE lengths == {Len(OnboardScript), Len(gen1_mesh_attach(TRUE)), Len(StartScript),
                       Len(StopScript), Len(StatusScript), Len(<< Fixed("start", 0) >>),
                       Len(<< Fixed("stop", 0) >> \o Gen2Queries), Len(Gen2Queries),
                       Len(<<>>)}
<1>4. Len(Script) \in lengths
  BY DEF Script
<1>5. PICK n \in 0 .. 8 : n = Len(gen1_mesh_attach(TRUE))
  BY <1>2
<1>6. Len(<<>>) = 0
  OBVIOUS
<1>7. lengths = {13, n, 10, 12, 8, 1, 4, 3, 0}
  BY <1>1, <1>3, <1>5, <1>6, Zenon
<1> HIDE DEF lengths
<1>8. Len(Script) \in {13, n, 10, 12, 8, 1, 4, 3, 0}
  BY <1>4, <1>7, Zenon
<1> DEFINE k == Len(Script)
<1>9. k \in {13, n, 10, 12, 8, 1, 4, 3, 0}
  BY <1>8
<1> HIDE DEF k
<1>10. k \in 0 .. 19
  BY <1>9
<1> QED  BY <1>10 DEF k

\* The step is one of the script's, or the one after its end.
LEMMA StepRange == Types /\ ScriptPlace => step \in 1 .. 20
<1> SUFFICES ASSUME Types, ScriptPlace PROVE step \in 1 .. 20
  OBVIOUS
<1>1. PICK n \in 0 .. 19 : n = Len(Script)
  BY ScriptShort
<1>2. step \in Nat \ {0} /\ step <= n + 1
  BY <1>1 DEF Types, ScriptPlace
<1> QED  BY <1>2

LEMMA LabInit == Init => LabInv
<1> SUFFICES ASSUME Init PROVE LabInv
  OBVIOUS
<1>1. PairInv /\ Numbered
  BY PairInit DEF Init, Numbered
<1>2. ScriptPlace
  <2>1. Len(Script) \in Nat
    BY <1>1, ScriptShort DEF PairInv
  <2> QED  BY <2>1 DEF Init, ScriptPlace
<1>3. ReadsLeft
  BY DEF Init, ReadsLeft, MaxReads
<1>4. Rest
  <2>1. id \in {None, Proposed, OtherId} /\ flying = {} /\ heard = FALSE /\ unheard = FALSE
    BY DEF Init
  <2>2. faults \in 0 .. MaxFaults
    BY BoundsAssumption DEF Init
  <2> QED  BY <2>1, <2>2 DEF Rest
<1>5. AckBudget
  <2> DEFINE f == [i \in 1 .. 1 |-> 0]
  <2>1. f \in [1 .. 0 + 1 -> Nat] /\ f[1] <= 0
    OBVIOUS
  <2>2. inbox = <<>> /\ Len(inbox) = 0 /\ nasync = 0 /\ acks = 0
    BY DEF Init
  <2> HIDE DEF f
  <2>3. Counts(f, inbox, 0)
    BY <2>1, <2>2 DEF Counts
  <2> QED  BY <2>2, <2>3, BoundsAssumption DEF AckBudget
<1> QED  BY <1>1, <1>2, <1>3, <1>4, <1>5 DEF LabInv

\* The count goes along with every notify that joins or leaves the inbox, and an ACK
\* sent only makes room.
LEMMA BudgetStep == LabInv /\ [Next]_vars => AckBudget'
<1> SUFFICES ASSUME LabInv, [Next]_vars PROVE AckBudget'
  OBVIOUS
<1> USE DEF linkVars, engineVars, boundVars
<1>1. /\ nasync \in 0 .. MaxAsync /\ acks \in Nat /\ inbox \in Seq(Notify)
      /\ MaxAsync \in Nat
  BY BoundsAssumption DEF LabInv, AckBudget, PairInv, Types
<1>2. PICK f : Counts(f, inbox, nasync - acks)
  BY DEF LabInv, AckBudget
<1>3. nasync - acks \in Int
  BY <1>1
<1>4. CASE UNCHANGED <<nasync, acks, inbox>>
  BY <1>1, <1>2, <1>4 DEF AckBudget
<1>5. CASE SendAck
  <2>1. acks' = acks - 1 /\ acks > 0 /\ nasync' = nasync /\ inbox' = inbox
    BY <1>5 DEF SendAck
  <2>2. nasync - acks <= nasync' - acks' /\ nasync' - acks' \in Int /\ acks' \in Nat
    BY <1>1, <2>1
  <2>3. f[1] \in Nat
    BY <1>1, <1>2 DEF Counts
  <2>4. Counts(f, inbox', nasync' - acks')
    BY <1>2, <1>3, <2>1, <2>2, <2>3 DEF Counts
  <2> QED  BY <1>1, <2>1, <2>2, <2>4 DEF AckBudget
<1>6. ASSUME NEW w \in flying, WriteDone(w) PROVE AckBudget'
  <2>1. nasync' = nasync /\ acks' = acks
    BY <1>6 DEF WriteDone
  <2>2. CASE inbox' = inbox
    BY <2>1, <2>2, <1>4
  <2>3. ASSUME NEW m \in {"assign", "answer"}, inbox' = Append(inbox, m) PROVE AckBudget'
    <3>1. m \in Notify /\ m # "async"
      BY DEF Notify
    <3>2. \E g : Counts(g, Append(inbox, m), nasync - acks)
      BY <1>1, <1>2, <1>3, <3>1, CountsJoin
    <3> QED  BY <1>1, <2>1, <2>3, <3>2 DEF AckBudget
  <2> QED  BY <1>6, <2>2, <2>3 DEF WriteDone
<1>7. CASE IngestNotify
  <2>1. inbox # <<>> /\ inbox' = Tail(inbox) /\ nasync' = nasync
        /\ acks' = IF Gen1 /\ Head(inbox) = "async" THEN acks + 1 ELSE acks
    BY <1>7 DEF IngestNotify
  <2>2. PICK g : Counts(g, Tail(inbox), IF Head(inbox) = "async" THEN nasync - acks - 1
                                        ELSE nasync - acks)
    BY <1>1, <1>2, <1>3, <2>1, CountsLeave
  <2>3. acks' \in Nat /\ (IF Head(inbox) = "async" THEN nasync - acks - 1 ELSE nasync - acks)
                            <= nasync' - acks'
    BY <1>1, <2>1
  <2>4. g[1] \in Nat
    BY <1>1, <2>1, <2>2 DEF Counts
  <2>5. Counts(g, inbox', nasync' - acks')
    BY <1>1, <2>1, <2>2, <2>3, <2>4 DEF Counts
  <2> QED  BY <1>1, <2>1, <2>3, <2>5 DEF AckBudget
<1>8. CASE LoseNotify
  <2>1. inbox # <<>> /\ inbox' = Tail(inbox) /\ nasync' = nasync /\ acks' = acks
    BY <1>8 DEF LoseNotify
  <2>2. PICK g : Counts(g, Tail(inbox), IF Head(inbox) = "async" THEN nasync - acks - 1
                                        ELSE nasync - acks)
    BY <1>1, <1>2, <1>3, <2>1, CountsLeave
  <2>3. (IF Head(inbox) = "async" THEN nasync - acks - 1 ELSE nasync - acks)
          <= nasync' - acks'
    BY <1>1, <2>1
  <2>4. g[1] \in Nat
    BY <1>1, <2>1, <2>2 DEF Counts
  <2>5. Counts(g, inbox', nasync' - acks')
    BY <1>1, <2>1, <2>2, <2>3, <2>4 DEF Counts
  <2> QED  BY <1>1, <2>1, <2>5 DEF AckBudget
<1>9. CASE TimerNotifies
  <2>1. /\ nasync < MaxAsync /\ nasync' = nasync + 1 /\ acks' = acks
        /\ inbox' = Append(inbox, "async")
    BY <1>9 DEF TimerNotifies
  <2>2. "async" \in Notify
    BY DEF Notify
  <2>3. \E g : Counts(g, Append(inbox, "async"), nasync - acks + 1)
    BY <1>1, <1>2, <1>3, <2>2, CountsJoin
  <2>4. nasync' - acks' = nasync - acks + 1 /\ nasync' \in 0 .. MaxAsync
    BY <1>1, <2>1
  <2> QED  BY <1>1, <2>1, <2>3, <2>4 DEF AckBudget
<1>10. CASE /\ ~SendAck /\ ~IngestNotify /\ ~LoseNotify /\ ~TimerNotifies
            /\ ~(\E w \in flying : WriteDone(w))
  <2>1. UNCHANGED <<nasync, acks, inbox>>
    BY <1>10 DEF Next, vars, WriteNetworkChar, WriteAesChar, ReadAesChar, SendStep, SkipPoll,
       NextStep, TimesOut, WriteFails, ScriptOver, Finish
  <2> QED  BY <2>1, <1>4
<1> QED  BY <1>5, <1>6, <1>7, <1>8, <1>9, <1>10

\* The other bounds, action by action.
LEMMA RestStep == LabInv /\ [Next]_vars => ScriptPlace' /\ ReadsLeft' /\ Rest'
<1> SUFFICES ASSUME LabInv, [Next]_vars PROVE ScriptPlace' /\ ReadsLeft' /\ Rest'
  OBVIOUS
<1> USE DEF linkVars, engineVars, boundVars
<1>t. Types /\ Numbered /\ ScriptPlace /\ ReadsLeft /\ Rest /\ AssignedByTimer
  BY DEF LabInv, PairInv
<1>n. Len(Script) \in 0 .. 19 /\ step \in Nat \ {0} /\ enc \in Nat
  BY <1>t, ScriptShort DEF Types, Numbered
<1>s. args' = args => Script' = Script
  BY DEF Script, Gen1, Pairing
<1>a. args' = args
  BY DEF Next, vars, WriteNetworkChar, WriteAesChar, ReadAesChar, SendStep, SkipPoll, SendAck,
     NextStep, TimesOut, WriteDone, WriteFails, IngestNotify, LoseNotify, TimerNotifies,
     ScriptOver, Finish
<1>l. Script' = Script
  BY <1>s, <1>a
<1>f. \A w \in flying : w \in [ctr : Nat, step : 0 .. 20]
  BY <1>t DEF Rest
<1>1. ASSUME NEW arrives \in BOOLEAN, NEW fails \in BOOLEAN, WriteNetworkChar(arrives, fails)
      PROVE  ScriptPlace' /\ ReadsLeft' /\ Rest'
  BY <1>1, <1>t, <1>l DEF WriteNetworkChar, ScriptPlace, ReadsLeft, Rest
<1>2. ASSUME NEW fails \in BOOLEAN, WriteAesChar(fails)
      PROVE  ScriptPlace' /\ ReadsLeft' /\ Rest'
  BY <1>2, <1>t, <1>l DEF WriteAesChar, ScriptPlace, ReadsLeft, Rest
<1>3. ASSUME NEW got \in {"valid", "invalid", "error"}, ReadAesChar(got)
      PROVE  ScriptPlace' /\ ReadsLeft' /\ Rest'
  <2>1. ScriptPlace' /\ Rest'
    BY <1>3, <1>t, <1>l DEF ReadAesChar, ScriptPlace, Rest
  <2>2. ReadsLeft'
    <3>1. reads \in 0 .. 12 /\ reads < 12
      BY <1>3, <1>t DEF ReadAesChar, ReadsLeft, MaxReads
    <3> QED  BY <1>3, <3>1 DEF ReadAesChar, ReadsLeft, MaxReads
  <2> QED  BY <2>1, <2>2
<1>4. CASE SendStep
  <2>1. [ctr |-> enc, step |-> step] \in [ctr : Nat, step : 0 .. 20]
    BY <1>n, <1>t, StepRange
  <2>2. Rest'
    BY <1>4, <1>t, <2>1 DEF SendStep, Build, Rest
  <2> QED  BY <1>4, <1>t, <1>l, <2>2 DEF SendStep, ScriptPlace, ReadsLeft
<1>5. CASE SkipPoll
  <2>1. ScriptPlace'
    BY <1>5, <1>l, <1>n DEF SkipPoll, ScriptPlace
  <2> QED  BY <1>5, <1>t, <2>1 DEF SkipPoll, ReadsLeft, Rest
<1>6. CASE SendAck
  <2>1. [ctr |-> enc, step |-> 0] \in [ctr : Nat, step : 0 .. 20]
    BY <1>n
  <2>2. Rest'
    BY <1>6, <1>t, <2>1 DEF SendAck, Build, Rest
  <2> QED  BY <1>6, <1>t, <1>l, <2>2 DEF SendAck, ScriptPlace, ReadsLeft
<1>7. CASE NextStep
  <2>1. step <= Len(Script) /\ step' = step + 1 /\ at' = "ready"
    BY <1>7, <1>t DEF NextStep, ScriptPlace
  <2>2. ScriptPlace'
    BY <1>l, <1>n, <2>1 DEF ScriptPlace
  <2> QED  BY <1>7, <1>t, <2>2 DEF NextStep, ReadsLeft, Rest
<1>8. CASE TimesOut
  <2>1. step <= Len(Script) /\ step' = step + 1 /\ at' = "ready"
    BY <1>8, <1>t DEF TimesOut, ScriptPlace
  <2>2. ScriptPlace'
    BY <1>l, <1>n, <2>1 DEF ScriptPlace
  <2>3. faults' \in 0 .. MaxFaults
    BY <1>8, <1>t, BoundsAssumption DEF TimesOut, Rest
  <2> QED  BY <1>8, <1>t, <2>2, <2>3 DEF TimesOut, ReadsLeft, Rest
<1>9. ASSUME NEW w \in flying, WriteDone(w) PROVE ScriptPlace' /\ ReadsLeft' /\ Rest'
  <2>1. w.step # 0 => w.step = step /\ at = "writing"
    BY DEF LabInv, PairInv, FramesOfStep
  <2>2. ScriptPlace' /\ ReadsLeft'
    BY <1>9, <1>t, <1>l, <2>1 DEF WriteDone, ScriptPlace, ReadsLeft
  <2> QED  BY <1>9, <1>t, <2>2 DEF WriteDone, Rest
<1>10. ASSUME NEW w \in flying, WriteFails(w) PROVE ScriptPlace' /\ ReadsLeft' /\ Rest'
  <2>1. faults' \in 0 .. MaxFaults
    BY <1>10, <1>t, BoundsAssumption DEF WriteFails, Rest
  <2>2. ScriptPlace' /\ ReadsLeft'
    BY <1>10, <1>t, <1>l DEF WriteFails, ScriptPlace, ReadsLeft
  <2> QED  BY <1>10, <1>t, <2>1, <2>2 DEF WriteFails, Rest
<1>11. CASE IngestNotify
  <2>1. heard' \in BOOLEAN
    BY <1>11 DEF IngestNotify
  <2> QED  BY <1>11, <1>t, <1>l, <2>1 DEF IngestNotify, ScriptPlace, ReadsLeft, Rest
<1>12. CASE LoseNotify
  <2>1. unheard' \in BOOLEAN
    BY <1>12 DEF LoseNotify
  <2>2. faults' \in 0 .. MaxFaults
    BY <1>12, <1>t, BoundsAssumption DEF LoseNotify, Rest
  <2> QED  BY <1>12, <1>t, <1>l, <2>1, <2>2 DEF LoseNotify, ScriptPlace, ReadsLeft, Rest
<1>13. CASE TimerNotifies
  BY <1>13, <1>t, <1>l DEF TimerNotifies, ScriptPlace, ReadsLeft, Rest
<1>14. CASE ScriptOver
  <2>1. unheard' \in BOOLEAN
    BY <1>14 DEF ScriptOver
  <2>2. at' \in {"exit", "listening"}
    BY <1>14 DEF ScriptOver
  <2>3. assigned \in {None, Proposed, OtherId}
    BY <1>t DEF AssignedByTimer, Types
  <2>4. id' \in {id, assigned}
    BY <1>14 DEF ScriptOver, learned_device_id
  <2>5. Rest'
    BY <1>14, <1>t, <2>1, <2>3, <2>4 DEF ScriptOver, Rest
  <2> QED  BY <1>14, <1>t, <1>l, <2>2, <2>5 DEF ScriptOver, ScriptPlace, ReadsLeft
<1>15. CASE Finish
  BY <1>15, <1>t, <1>l DEF Finish, ScriptPlace, ReadsLeft, Rest
<1>16. CASE UNCHANGED vars
  BY <1>16, <1>t, <1>l DEF vars, ScriptPlace, ReadsLeft, Rest
<1> QED  BY <1>1, <1>2, <1>3, <1>4, <1>5, <1>6, <1>7, <1>8, <1>9, <1>10, <1>11, <1>12, <1>13,
            <1>14, <1>15, <1>16 DEF Next

LEMMA LabTypeOK == LabInv => TypeOK
<1> SUFFICES ASSUME LabInv PROVE TypeOK
  OBVIOUS
<1>1. PairInv /\ Numbered /\ ScriptPlace /\ ReadsLeft /\ AckBudget /\ Rest
  BY DEF LabInv
<1>2. Types /\ AssignedByTimer /\ Printed
  BY <1>1 DEF PairInv
<1>3. step \in 1 .. 20
  BY <1>1, <1>2, StepRange
<1>4. enc \in Nat /\ built \in Seq(Nat)
  BY <1>1 DEF Numbered
<1>5. nasync \in 0 .. MaxAsync /\ acks \in 0 .. MaxAsync
  <2>1. nasync \in 0 .. MaxAsync /\ acks \in Nat
    BY <1>1 DEF AckBudget
  <2>2. PICK f : Counts(f, inbox, nasync - acks)
    BY <1>1 DEF AckBudget
  <2>3. Len(inbox) \in Nat
    BY <1>2 DEF Types
  <2>4. f[1] \in Nat /\ f[1] <= nasync - acks
    BY <2>2, <2>3 DEF Counts
  <2> QED  BY <2>1, <2>4, BoundsAssumption
<1>6. assigned \in {None, Proposed, OtherId}
  BY <1>2 DEF AssignedByTimer, Types
<1>7. saved \in [key : {"none", "new"}, id : {None, Proposed, OtherId}]
  BY <1>1, <1>2 DEF Printed, NotPrinted, Rest
<1> QED  BY <1>1, <1>2, <1>3, <1>4, <1>5, <1>6, <1>7 DEF TypeOK, Types, ReadsLeft, Rest

\* The types of the lab client: its script never runs past its end, aes_char is read
\* twelve times at most, and no ACK task waits that no notify of the timer called for.
THEOREM LabTypes == Spec => []TypeOK
<1>1. LabInv /\ [Next]_vars => LabInv'
  <2> SUFFICES ASSUME LabInv, [Next]_vars PROVE LabInv'
    OBVIOUS
  <2>1. PairInv' /\ Numbered'
    BY PairStep, NumberedStep DEF LabInv
  <2>2. AckBudget'
    BY BudgetStep
  <2>3. ScriptPlace' /\ ReadsLeft' /\ Rest'
    BY RestStep
  <2> QED  BY <2>1, <2>2, <2>3 DEF LabInv
<1> QED  BY <1>1, LabInit, LabTypeOK, PTL DEF Spec
===============================================================================
