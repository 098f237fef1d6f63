----------------------------- MODULE Gen1OpsProofs -----------------------------
(***************************************************************************)
(* Lemmas about the scripts of Gen1Ops: how long they get, and which of    *)
(* them touch the valve.                                                   *)
(***************************************************************************)
EXTENDS Gen1Ops, SequenceTheorems, TLAPS

\* Steps that leave the valve alone, and those an operation may send.
Mild == {"ping", "poll", "silent_poll", "other", "info", "register", "tail", "commit", "probe"}
Allowed(o) ==
  Mild \cup (IF o = "start" THEN {"start", "clear"} ELSE {})
       \cup (IF o = "stop" THEN {"stop"} ELSE {})
StepOf(W) == [what : W, num : {"fixed", "alloc", "same"}, cmd : Int]

\* The three kinds of step, and the scripts' building blocks.
LEMMA StepTypes ==
  ASSUME NEW W
  PROVE  /\ \A w \in W, c \in Int : Fixed(w, c) \in StepOf(W)
         /\ \A w \in W : Alloc(w) \in StepOf(W) /\ Same(w) \in StepOf(W)
BY DEF StepOf, Fixed, Alloc, Same

LEMMA Concatenation ==
  ASSUME NEW S, NEW s \in Seq(S), NEW t \in Seq(S)
  PROVE  s \o t \in Seq(S) /\ Len(s \o t) = Len(s) + Len(t)
BY ConcatProperties

\* An attach sends at most eight commands, all mild but for the clear it may include.
LEMMA AttachLength ==
  ASSUME NEW W, Mild \subseteq W, NEW b \in BOOLEAN, b => "clear" \in W
  PROVE  gen1_mesh_attach(b) \in Seq(StepOf(W)) /\ Len(gen1_mesh_attach(b)) <= 8
<1> DEFINE head == << Fixed("ping", 129), Fixed("poll", 2), Fixed("other", 3),
                      Fixed("info", 4), Fixed("register", 133) >>
           mid == IF b THEN << Fixed("clear", 133) >> ELSE <<>>
           tail == << Fixed("tail", 133), Fixed("commit", 134) >>
<1>1. head \in Seq(StepOf(W)) /\ Len(head) = 5  BY StepTypes DEF Mild
<1>2. mid \in Seq(StepOf(W)) /\ Len(mid) <= 1
  <2>1. CASE b = TRUE  BY <2>1, StepTypes
  <2>2. CASE b = FALSE  BY <2>2
  <2> QED  BY <2>1, <2>2
<1>3. tail \in Seq(StepOf(W)) /\ Len(tail) = 2  BY StepTypes DEF Mild
<1>4. gen1_mesh_attach(b) = (head \o mid) \o tail  BY DEF gen1_mesh_attach
<1> HIDE DEF head, mid, tail
<1>5. head \o mid \in Seq(StepOf(W)) /\ Len(head \o mid) = Len(head) + Len(mid)
  BY <1>1, <1>2, Concatenation, Zenon
<1>6. /\ gen1_mesh_attach(b) \in Seq(StepOf(W))
      /\ Len(gen1_mesh_attach(b)) = Len(head \o mid) + Len(tail)
  BY <1>3, <1>4, <1>5, Concatenation, Zenon
<1>7. Len(mid) \in Nat  BY <1>2
<1> QED  BY <1>1, <1>2, <1>3, <1>5, <1>6, <1>7

\* No script has more than 20 steps, and only a start sends start and clear, only a stop
\* stops.
LEMMA ScriptType ==
  ASSUME NEW o \in Operations
  PROVE  ScriptOf(o) \in Seq(StepOf(Allowed(o))) /\ Len(ScriptOf(o)) <= 20
<1> DEFINE short == gen1_mesh_attach(FALSE)
           long == gen1_mesh_attach(TRUE)
           S == StepOf(Allowed(o))
<1>0. Mild \subseteq Allowed(o)  BY DEF Allowed
<1>1. short \in Seq(S) /\ Len(short) <= 8  BY <1>0, AttachLength
<1>2. o = "start" => long \in Seq(S) /\ Len(long) <= 8
  BY <1>0, AttachLength DEF Allowed
<1>w. /\ \A w \in Mild : w \in Allowed(o)
      /\ o = "start" => "start" \in Allowed(o)
      /\ o = "stop" => "stop" \in Allowed(o)
  BY DEF Allowed
<1>s. /\ \A w \in Allowed(o), c \in Int : Fixed(w, c) \in S
      /\ \A w \in Allowed(o) : Alloc(w) \in S /\ Same(w) \in S
  BY StepTypes
<1> HIDE DEF short, long, S
<1>3. ASSUME o = "status"
      PROVE  ScriptOf(o) \in Seq(S) /\ Len(ScriptOf(o)) <= 20
  <2> DEFINE last == << Alloc("silent_poll") >>
  <2>1. last \in Seq(S) /\ Len(last) = 1  BY <1>w, <1>s DEF Mild
  <2>2. ScriptOf(o) = short \o last
    BY <1>3 DEF short, long, ScriptOf, StatusScript
  <2> HIDE DEF last
  <2>3. ScriptOf(o) \in Seq(S) /\ Len(ScriptOf(o)) = Len(short) + Len(last)
    BY <1>1, <2>1, <2>2, Concatenation, Zenon
  <2> QED  BY <1>1, <2>1, <2>3
<1>4. ASSUME o = "start"
      PROVE  ScriptOf(o) \in Seq(S) /\ Len(ScriptOf(o)) <= 20
  <2> DEFINE last == << Alloc("start"), Alloc("silent_poll") >>
  <2>1. last \in Seq(S) /\ Len(last) = 2  BY <1>4, <1>w, <1>s DEF Mild
  <2>2. ScriptOf(o) = long \o last
    BY <1>4 DEF short, long, ScriptOf, StartScript
  <2> HIDE DEF last
  <2>3. ScriptOf(o) \in Seq(S) /\ Len(ScriptOf(o)) = Len(long) + Len(last)
    BY <1>2, <1>4, <2>1, <2>2, Concatenation, Zenon
  <2> QED  BY <1>2, <1>4, <2>1, <2>3
<1>5. ASSUME o = "stop"
      PROVE  ScriptOf(o) \in Seq(S) /\ Len(ScriptOf(o)) <= 20
  <2> DEFINE last == << Alloc("poll") >>
  <2>1. StopSequence \in Seq(S) /\ Len(StopSequence) = 4
    BY <1>5, <1>w, <1>s DEF Mild, StopSequence
  <2>2. last \in Seq(S) /\ Len(last) = 1  BY <1>w, <1>s DEF Mild
  <2>3. ScriptOf(o) = (short \o StopSequence) \o last
    BY <1>5 DEF short, long, ScriptOf, StopScript
  <2> DEFINE front == short \o StopSequence
  <2> HIDE DEF last
  <2>4. front \in Seq(S) /\ Len(front) = Len(short) + Len(StopSequence)
    BY <1>1, <2>1, Concatenation, Zenon
  <2>5. ScriptOf(o) \in Seq(S) /\ Len(ScriptOf(o)) = Len(front) + Len(last)
    BY <2>2, <2>3, <2>4, Concatenation, Zenon
  <2> QED  BY <1>1, <2>1, <2>2, <2>4, <2>5
<1>6. ASSUME o = "onboard"
      PROVE  ScriptOf(o) \in Seq(S) /\ Len(ScriptOf(o)) <= 20
  <2>1. gen1_onboard_writes \in Seq(S) /\ Len(gen1_onboard_writes) = 6
    BY <1>w, <1>s DEF Mild, gen1_onboard_writes
  <2>2. ScriptOf(o) = gen1_onboard_writes \o short
    BY <1>6 DEF short, long, ScriptOf, OnboardScript
  <2>3. /\ ScriptOf(o) \in Seq(S)
        /\ Len(ScriptOf(o)) = Len(gen1_onboard_writes) + Len(short)
    BY <1>1, <2>1, <2>2, Concatenation, Zenon
  <2> QED  BY <1>1, <2>1, <2>3
<1> QED  BY <1>3, <1>4, <1>5, <1>6 DEF Operations, S

\* The fourth step of an onboarding registers.
LEMMA OnboardRegisters == Len(OnboardScript) >= 4 /\ OnboardScript[4].what = "register"
<1> DEFINE rest == gen1_mesh_attach(FALSE)
           S == StepOf(Mild)
<1>1. rest \in Seq(S)  BY AttachLength
<1>2. gen1_onboard_writes \in Seq(S) /\ Len(gen1_onboard_writes) = 6
  BY StepTypes DEF Mild, gen1_onboard_writes
<1>3. gen1_onboard_writes[4].what = "register"  BY DEF gen1_onboard_writes, Fixed
<1>4. OnboardScript = gen1_onboard_writes \o rest  BY DEF OnboardScript
<1> HIDE DEF rest, S
<1>5. /\ Len(OnboardScript) = Len(gen1_onboard_writes) + Len(rest)
      /\ \A i \in 1 .. Len(gen1_onboard_writes) : OnboardScript[i] = gen1_onboard_writes[i]
  <2>1. Len(gen1_onboard_writes) + Len(rest) >= Len(gen1_onboard_writes)
    BY <1>1, <1>2
  <2>2. /\ Len(gen1_onboard_writes \o rest) = Len(gen1_onboard_writes) + Len(rest)
        /\ \A i \in 1 .. Len(gen1_onboard_writes) + Len(rest) :
             (gen1_onboard_writes \o rest)[i] =
                IF i <= Len(gen1_onboard_writes) THEN gen1_onboard_writes[i]
                ELSE rest[i - Len(gen1_onboard_writes)]
    BY <1>1, <1>2, ConcatProperties, Zenon
  <2> QED  BY <1>1, <1>2, <1>4, <2>1, <2>2
<1>6. Len(rest) \in Nat  BY <1>1
<1> QED  BY <1>2, <1>3, <1>5, <1>6

(* The scripts, step by step.                                                           *)

IsStatus(s) ==
  /\ Len(s) = 8
  /\ s[1] = Fixed("ping", 129) /\ s[2] = Fixed("poll", 2) /\ s[3] = Fixed("other", 3)
  /\ s[4] = Fixed("info", 4) /\ s[5] = Fixed("register", 133) /\ s[6] = Fixed("tail", 133)
  /\ s[7] = Fixed("commit", 134) /\ s[8] = Alloc("silent_poll")

IsStart(s) ==
  /\ Len(s) = 10
  /\ s[1] = Fixed("ping", 129) /\ s[2] = Fixed("poll", 2) /\ s[3] = Fixed("other", 3)
  /\ s[4] = Fixed("info", 4) /\ s[5] = Fixed("register", 133) /\ s[6] = Fixed("clear", 133)
  /\ s[7] = Fixed("tail", 133) /\ s[8] = Fixed("commit", 134)
  /\ s[9] = Alloc("start") /\ s[10] = Alloc("silent_poll")

IsStop(s) ==
  /\ Len(s) = 12
  /\ s[1] = Fixed("ping", 129) /\ s[2] = Fixed("poll", 2) /\ s[3] = Fixed("other", 3)
  /\ s[4] = Fixed("info", 4) /\ s[5] = Fixed("register", 133) /\ s[6] = Fixed("tail", 133)
  /\ s[7] = Fixed("commit", 134)
  /\ s[8] = Alloc("probe") /\ s[9] = Same("stop") /\ s[10] = Same("stop")
  /\ s[11] = Alloc("stop") /\ s[12] = Alloc("poll")

IsOnboard(s) ==
  /\ Len(s) = 13
  /\ s[1] = Fixed("ping", 129) /\ s[2] = Fixed("info", 2) /\ s[3] = Fixed("other", 3)
  /\ s[4] = Fixed("register", 132) /\ s[5] = Fixed("info", 5) /\ s[6] = Fixed("commit", 134)
  /\ s[7] = Fixed("ping", 129) /\ s[8] = Fixed("poll", 2) /\ s[9] = Fixed("other", 3)
  /\ s[10] = Fixed("info", 4) /\ s[11] = Fixed("register", 133)
  /\ s[12] = Fixed("tail", 133) /\ s[13] = Fixed("commit", 134)

LEMMA ScriptSteps ==
  ASSUME NEW o \in Operations
  PROVE  /\ o = "status" => IsStatus(ScriptOf(o))
         /\ o = "start" => IsStart(ScriptOf(o))
         /\ o = "stop" => IsStop(ScriptOf(o))
         /\ o = "onboard" => IsOnboard(ScriptOf(o))
<1>1. ASSUME NEW s, s = StatusScript PROVE IsStatus(s)
  BY <1>1 DEF StatusScript, gen1_mesh_attach, IsStatus
<1>2. ASSUME NEW s, s = StartScript PROVE IsStart(s)
  BY <1>2 DEF StartScript, gen1_mesh_attach, IsStart
<1>3. ASSUME NEW s, s = StopScript PROVE IsStop(s)
  BY <1>3 DEF StopScript, StopSequence, gen1_mesh_attach, IsStop
<1>4. ASSUME NEW s, s = OnboardScript PROVE IsOnboard(s)
  BY <1>4 DEF OnboardScript, gen1_onboard_writes, gen1_mesh_attach, IsOnboard
<1> QED  BY <1>1, <1>2, <1>3, <1>4 DEF ScriptOf

\* The bytes with the response bit.
LEMMA BitRange ==
  ASSUME NEW c \in 0 .. 255
  PROVE  HasResponseBit(c) <=> c \in 64 .. 127 \/ c \in 192 .. 255
<1>1. CASE c \in 0 .. 63
  <2>1. c \div 64 = 0  BY <1>1
  <2> QED  BY <1>1, <2>1 DEF HasResponseBit, ResponseBit
<1>2. CASE c \in 64 .. 127
  <2>1. c \div 64 = 1  BY <1>2
  <2> QED  BY <1>2, <2>1 DEF HasResponseBit, ResponseBit
<1>3. CASE c \in 128 .. 191
  <2>1. c \div 64 = 2  BY <1>3
  <2> QED  BY <1>3, <2>1 DEF HasResponseBit, ResponseBit
<1>4. CASE c \in 192 .. 255
  <2>1. c \div 64 = 3  BY <1>4
  <2> QED  BY <1>4, <2>1 DEF HasResponseBit, ResponseBit
<1> QED  BY <1>1, <1>2, <1>3, <1>4

\* What the response bit adds, and request_cmd takes away again.
LEMMA BitCases ==
  ASSUME NEW c \in 0 .. 255
  PROVE  /\ WithResponseBit(c) \in 0 .. 255
         /\ HasResponseBit(WithResponseBit(c))
         /\ ~HasResponseBit(c) => request_cmd(WithResponseBit(c)) = c
         /\ HasResponseBit(c) => request_cmd(WithResponseBit(c)) = c - 64
<1>1. WithResponseBit(c) = IF HasResponseBit(c) THEN c ELSE c + 64
  BY DEF WithResponseBit, ResponseBit
<1>2. WithResponseBit(c) \in 64 .. 127 \/ WithResponseBit(c) \in 192 .. 255
  BY <1>1, BitRange
<1>3. WithResponseBit(c) \in 0 .. 255  BY <1>2
<1>4. HasResponseBit(WithResponseBit(c))  BY <1>2, <1>3, BitRange
<1> QED  BY <1>1, <1>3, <1>4 DEF request_cmd, ResponseBit

\* What any script is made of: fixed bytes without the response bit first, the commit's
\* used by no other step, then allocated ones; a byte is repeated only after an awaited
\* step that was really sent; what may be skipped is the last step.
StepShape(s, k) ==
  /\ s[k].num \in {"fixed", "alloc", "same"}
  /\ s[k].num = "fixed" => /\ s[k].cmd \in 1 .. 134 /\ ~HasResponseBit(s[k].cmd)
                           /\ s[k].cmd = 134 <=> s[k].what = "commit"
                           /\ s[k].what # "start"
  /\ s[k].num # "fixed" => s[k].what # "commit"
  /\ s[k].num = "same" => /\ k > 1 /\ s[k - 1].num # "fixed"
                          /\ s[k - 1].what \notin {"silent_poll", "start"}
  /\ s[k].what = "silent_poll" => k = Len(s)
  /\ s[k].what = "register" => s[k].num = "fixed" /\ s[k].cmd \in MeshRegisterCmds
  /\ s[k].num = "fixed" => \A i \in 1 .. k : s[i].num = "fixed"

LEMMA FixedShape ==
  ASSUME NEW s, NEW k \in Nat, s[k].num = "fixed",
         s[k].cmd \in {2, 3, 4, 5, 129, 132, 133, 134},
         s[k].what \notin {"start", "silent_poll"},
         s[k].cmd = 134 <=> s[k].what = "commit",
         s[k].what = "register" => s[k].cmd \in {132, 133},
         \A i \in 1 .. k : s[i].num = "fixed"
  PROVE  StepShape(s, k)
<1>1. s[k].cmd \in 1 .. 134  OBVIOUS
<1>2. ~HasResponseBit(s[k].cmd)
  <2> DEFINE c == s[k].cmd
  <2>1. c \in 0 .. 255 /\ ~(c \in 64 .. 127) /\ ~(c \in 192 .. 255)  OBVIOUS
  <2> HIDE DEF c
  <2>2. ~HasResponseBit(c)  BY <2>1, BitRange
  <2> QED  BY <2>2 DEF c
<1> QED  BY <1>1, <1>2 DEF StepShape, MeshRegisterCmds

LEMMA ScriptShape ==
  ASSUME NEW o \in Operations
  PROVE  \A k \in 1 .. Len(ScriptOf(o)) : StepShape(ScriptOf(o), k)
<1>f. \A w, c : Fixed(w, c).what = w /\ Fixed(w, c).num = "fixed" /\ Fixed(w, c).cmd = c
  BY DEF Fixed
<1>a. \A w : Alloc(w).what = w /\ Alloc(w).num = "alloc"  BY DEF Alloc
<1>s. \A w : Same(w).what = w /\ Same(w).num = "same"  BY DEF Same
<1> DEFINE Plain(s, k) ==
             /\ s[k].num = "fixed"
             /\ s[k].cmd \in {2, 3, 4, 5, 129, 132, 133, 134}
             /\ s[k].what \notin {"start", "silent_poll"}
             /\ s[k].cmd = 134 <=> s[k].what = "commit"
             /\ s[k].what = "register" => s[k].cmd \in {132, 133}
<1>p. ASSUME NEW s, NEW n \in Nat, \A k \in 1 .. n : Plain(s, k)
      PROVE  \A k \in 1 .. n : StepShape(s, k)
  BY <1>p, FixedShape
<1>1. ASSUME NEW s, IsStatus(s) PROVE \A k \in 1 .. Len(s) : StepShape(s, k)
  <2>1. \A k \in 1 .. 7 : Plain(s, k)  BY <1>1, <1>f DEF IsStatus
  <2>2. \A k \in 1 .. 7 : StepShape(s, k)  BY <1>p, <2>1
  <2>3. StepShape(s, 8)  BY <1>1, <1>a DEF IsStatus, StepShape
  <2>4. \A k \in 1 .. Len(s) : k \in 1 .. 7 \/ k = 8  BY <1>1 DEF IsStatus
  <2> QED  BY <2>2, <2>3, <2>4
<1>2. ASSUME NEW s, IsStart(s) PROVE \A k \in 1 .. Len(s) : StepShape(s, k)
  <2>1. \A k \in 1 .. 8 : Plain(s, k)  BY <1>2, <1>f DEF IsStart
  <2>2. \A k \in 1 .. 8 : StepShape(s, k)  BY <1>p, <2>1
  <2>3. StepShape(s, 9) /\ StepShape(s, 10)  BY <1>2, <1>a DEF IsStart, StepShape
  <2>4. \A k \in 1 .. Len(s) : k \in 1 .. 8 \/ k = 9 \/ k = 10  BY <1>2 DEF IsStart
  <2> QED  BY <2>2, <2>3, <2>4
<1>3. ASSUME NEW s, IsStop(s) PROVE \A k \in 1 .. Len(s) : StepShape(s, k)
  <2>1. \A k \in 1 .. 7 : Plain(s, k)  BY <1>3, <1>f DEF IsStop
  <2>2. \A k \in 1 .. 7 : StepShape(s, k)  BY <1>p, <2>1
  <2>3. StepShape(s, 8) /\ StepShape(s, 11) /\ StepShape(s, 12)
    BY <1>3, <1>a DEF IsStop, StepShape
  <2>4. StepShape(s, 9) /\ StepShape(s, 10)
    <3>1. /\ s[9 - 1].num = "alloc" /\ s[9 - 1].what = "probe"
          /\ s[10 - 1].num = "same" /\ s[10 - 1].what = "stop"
      BY <1>3, <1>a, <1>s DEF IsStop
    <3>2. /\ s[9].num = "same" /\ s[9].what = "stop"
          /\ s[10].num = "same" /\ s[10].what = "stop"
      BY <1>3, <1>s DEF IsStop
    <3> QED  BY <3>1, <3>2 DEF StepShape
  <2>5. \A k \in 1 .. Len(s) : k \in 1 .. 7 \/ k \in {8, 9, 10, 11, 12}  BY <1>3 DEF IsStop
  <2> QED  BY <2>2, <2>3, <2>4, <2>5
<1>4. ASSUME NEW s, IsOnboard(s) PROVE \A k \in 1 .. Len(s) : StepShape(s, k)
  <2>1. \A k \in 1 .. 13 : Plain(s, k)  BY <1>4, <1>f DEF IsOnboard
  <2>2. \A k \in 1 .. 13 : StepShape(s, k)  BY <1>p, <2>1
  <2> QED  BY <1>4, <2>2 DEF IsOnboard
<1> QED  BY <1>1, <1>2, <1>3, <1>4, ScriptSteps DEF Operations
===============================================================================
