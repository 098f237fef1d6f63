-------------------------------- MODULE Gen1Ops --------------------------------
(***************************************************************************)
(* The gen1 command scripts of pybhyve/gen1_ops.py and gen1_codec.py: which *)
(* command bytes an operation sends, in which order, and which of them it  *)
(* waits for.  A payload is abstracted to what it asks of the timer.       *)
(***************************************************************************)
EXTENDS Integers, Sequences

\* Command bytes and the response bit 0x40.
ResponseBit == 64
HasResponseBit(cmd) == (cmd \div ResponseBit) % 2 = 1
WithResponseBit(cmd) == IF HasResponseBit(cmd) THEN cmd ELSE cmd + ResponseBit

\* decode_gen1_plaintext: request_cmd of a received cmd byte; 0 when the cmd has no
\* response bit (no request uses 0).
request_cmd(cmd) == IF HasResponseBit(cmd) THEN cmd - ResponseBit ELSE 0

\* GEN1_ASYNC_NOTIFY_CMDS and GEN1_POST_HANDSHAKE_CMD.
AsyncCmds == (164 .. 172) \cup (177 .. 191) \cup (135 .. 140)
FirstCmd == 135

\* GEN1_MESH_REGISTER_CMDS
MeshRegisterCmds == {132, 133}

\* A step sends one command: a fixed byte, a freshly allocated one, or the last
\* allocated one again.
Fixed(what, cmd) == [what |-> what, num |-> "fixed", cmd |-> cmd]
Alloc(what) == [what |-> what, num |-> "alloc", cmd |-> 0]
Same(what) == [what |-> what, num |-> "same", cmd |-> 0]

gen1_onboard_writes ==
  << Fixed("ping", 129), Fixed("info", 2), Fixed("other", 3),
     Fixed("register", 132), Fixed("info", 5), Fixed("commit", 134) >>

gen1_mesh_attach(include_85_clear) ==
  << Fixed("ping", 129), Fixed("poll", 2), Fixed("other", 3),
     Fixed("info", 4), Fixed("register", 133) >>
  \o (IF include_85_clear THEN << Fixed("clear", 133) >> ELSE <<>>)
  \o << Fixed("tail", 133), Fixed("commit", 134) >>

\* "silent_poll": the poll that is skipped when the snapshot already has a watering record.
StatusScript == gen1_mesh_attach(FALSE) \o << Alloc("silent_poll") >>

\* Mutant: the clear of the attach comes after the start.
StartScriptClearLast ==
  gen1_mesh_attach(FALSE) \o << Alloc("start"), Fixed("clear", 133), Alloc("silent_poll") >>

StartScript == gen1_mesh_attach(TRUE) \o << Alloc("start"), Alloc("silent_poll") >>

\* Mutant: the sequence stops after the two repeats of one command.
StopSequenceShort == << Alloc("probe"), Same("stop"), Same("stop") >>
StopSequence == << Alloc("probe"), Same("stop"), Same("stop"), Alloc("stop") >>

\* Mutant: the final poll is left out when the attach brought a record.
StopScriptSilent == gen1_mesh_attach(FALSE) \o StopSequence \o << Alloc("silent_poll") >>

StopScript == gen1_mesh_attach(FALSE) \o StopSequence \o << Alloc("poll") >>

OnboardScript == gen1_onboard_writes \o gen1_mesh_attach(FALSE)

\* The operations of gen1_runtime.py, one session each.
Operations == {"status", "start", "stop", "onboard"}

\* Mutant: a status session sends the clear step of a start.
ScriptOfClearing(op) ==
  CASE op = "status"  -> gen1_mesh_attach(TRUE) \o << Alloc("silent_poll") >>
    [] op = "start"   -> StartScript
    [] op = "stop"    -> StopScript
    [] op = "onboard" -> OnboardScript

ScriptOf(op) ==
  CASE op = "status"  -> StatusScript
    [] op = "start"   -> StartScript
    [] op = "stop"    -> StopScript
    [] op = "onboard" -> OnboardScript
===============================================================================
