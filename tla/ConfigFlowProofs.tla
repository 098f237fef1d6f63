--------------------------- MODULE ConfigFlowProofs ---------------------------
(***************************************************************************)
(* Proofs about ConfigFlow, for any number of dialogs, timers, entries and *)
(* keys.                                                                   *)
(***************************************************************************)
EXTENDS ConfigFlow, TLAPS

-------------------------------------------------------------------------------
(* Types.  What a dialog has been told depends on how far it has got; an entry that     *)
(* exists has a key, another has nothing to reload.                                     *)

Filled ==
  \A f \in Flows :
    /\ flow[f].step \in {"generation", "credentials"} \cup Working => flow[f].addr \in Timers
    /\ flow[f].step \in {"credentials"} \cup Working => flow[f].gen \in {1, 2}
    /\ flow[f].step \in Working => flow[f].key \in Keys
    /\ flow[f].of # New => Exists(flow[f].of)

EntryFilled ==
  \A e \in Entries :
    IF Exists(e) THEN entry[e].key \in Keys ELSE entry[e] = NoEntry /\ reloads[e] = 0

Typed == TypeOK /\ Filled /\ EntryFilled

USE TimersAssumption, EntriesAssumption, BoundsAssumption

\* What Init says of the installation it starts from.
EntryType == [uid : Keys \cup {NoKey}, key : Keys \cup {NoKey},
              devices : [Timers -> Device \cup {NoDevice}]]
Installed ==
  /\ entry \in [Entries -> EntryType]
  /\ timerKey \in [Timers -> Keys \cup {NoKey}]
  /\ life \in [Entries -> {"absent", "waiting", "setup", "loaded"}]
  /\ EntryFilled

LEMMA TypedInit == Init => Typed
<1> SUFFICES ASSUME Init PROVE Typed
  OBVIOUS
<1> USE DEF Init, Keys, NoKey, New
<1>1. /\ 1 \in Keys /\ 2 \in Keys
      /\ NoDevices \in [Timers -> Device \cup {NoDevice}]
      /\ NoHub \in [Timers -> Keys \cup {NoKey}]
      /\ NoFlow \in Flow
  BY DEF NoDevices, NoDevice, Device, NoHub, NoFlow, Flow, Steps
<1>2. genOf \in [Timers -> {1, 2}]
  OBVIOUS
<1>3. Installed
  <2>1. CASE /\ entry = [e \in Entries |-> NoEntry]
             /\ timerKey = [t \in Timers |-> NoKey]
             /\ life = [e \in Entries |-> "absent"]
    BY <1>1, <2>1 DEF NoEntry, Installed, EntryType, EntryFilled, Exists
  <2>2. ASSUME NEW one \in Entries, NEW t \in Timers, NEW some \in BOOLEAN,
               LET key == IF genOf[t] = 1 THEN 2 ELSE 1
               IN  /\ entry = [e \in Entries |->
                        IF e # one THEN NoEntry
                        ELSE [uid |-> 1, key |-> 1,
                              devices |-> IF some THEN [NoDevices EXCEPT ![t] =
                                                          [gen |-> genOf[t], key |-> key]]
                                          ELSE NoDevices]]
                   /\ timerKey = [s \in Timers |-> IF s = t THEN key ELSE NoKey],
               life = [e \in Entries |-> IF e = one THEN "waiting" ELSE "absent"]
        PROVE  Installed
    <3> DEFINE key == IF genOf[t] = 1 THEN 2 ELSE 1
               devs == IF some THEN [NoDevices EXCEPT ![t] = [gen |-> genOf[t], key |-> key]]
                               ELSE NoDevices
    <3>1. key \in Keys
      BY <1>1
    <3>2. [gen |-> genOf[t], key |-> key] \in Device
      BY <1>2, <3>1 DEF Device
    <3>3. devs \in [Timers -> Device \cup {NoDevice}]
      BY <1>1, <3>2
    <3>4. /\ entry = [e \in Entries |-> IF e # one THEN NoEntry
                                        ELSE [uid |-> 1, key |-> 1, devices |-> devs]]
          /\ timerKey = [s \in Timers |-> IF s = t THEN key ELSE NoKey]
      BY <2>2
    <3> HIDE DEF key, devs
    <3>5. /\ timerKey \in [Timers -> Keys \cup {NoKey}]
          /\ life \in [Entries -> {"absent", "waiting", "setup", "loaded"}]
      BY <2>2, <3>1, <3>4
    <3>6. /\ NoEntry \in [uid : Keys \cup {NoKey}, key : Keys \cup {NoKey},
                          devices : [Timers -> Device \cup {NoDevice}]]
          /\ [uid |-> 1, key |-> 1, devices |-> devs]
               \in [uid : Keys \cup {NoKey}, key : Keys \cup {NoKey},
                    devices : [Timers -> Device \cup {NoDevice}]]
      BY <1>1, <3>3 DEF NoEntry
    <3>7. entry \in [Entries -> [uid : Keys \cup {NoKey}, key : Keys \cup {NoKey},
                            devices : [Timers -> Device \cup {NoDevice}]]]
      BY <3>4, <3>6, Zenon
    <3>8. EntryFilled
      BY <1>1, <2>2, <3>4 DEF EntryFilled, Exists
    <3> QED  BY <3>5, <3>7, <3>8 DEF Installed, EntryType
  <2> QED  BY <2>1, <2>2
<1>4. Filled
  BY DEF Filled, NoFlow, Working
<1> QED  BY <1>1, <1>2, <1>3, <1>4 DEF Typed, TypeOK, Installed, EntryType

\* What an update of entry e touches.
LEMMA UpdatedTypes ==
  ASSUME Typed, NEW e \in Entries, Updated(e)
  PROVE  /\ life' = life /\ hub' = hub
         /\ reloads' \in [Entries -> Nat]
         /\ missed' \subseteq Entries
BY DEF Typed, TypeOK, Updated

LEMMA TypedHub ==
  ASSUME Typed, NEW e \in Entries
  PROVE  HubOf(e) \in [Timers -> Keys \cup {NoKey}]
<1>1. ASSUME NEW t \in Timers PROVE device_network_key(e, t) \in Keys \cup {NoKey}
  BY DEF Typed, TypeOK, device_network_key, Device, NoDevice
<1> QED  BY <1>1 DEF HubOf

\* Steps of an entry.
LEMMA TypedEntryStep ==
  ASSUME Typed, NEW e \in Entries, EntryNext(e)
  PROVE  Typed'
<1> USE DEF dataVars, setupVars, histVars
<1>h. NoHub \in [Timers -> Keys \cup {NoKey}]
  BY DEF NoHub
<1>1. CASE SetupBegins(e) \/ SetupDone(e) \/ SetupFails(e) \/ ReloadBegins(e)
  <2>1. UNCHANGED <<genOf, timerKey, entry, drawn, flow, edits, raced, outdated, contested>>
    BY <1>1 DEF SetupBegins, SetupDone, SetupFails, ReloadBegins
  <2>2. /\ life' \in [Entries -> {"absent", "waiting", "setup", "loaded"}]
        /\ \A d \in Entries : Exists(d) => Exists(d)'
        /\ missed' \subseteq Entries
    BY <1>1 DEF SetupBegins, SetupDone, SetupFails, ReloadBegins, Typed, TypeOK, Exists
  <2>3. reloads' \in [Entries -> Nat]
    <3>1. CASE ReloadBegins(e)
      <4>1. reloads[e] - 1 \in Nat
        BY <3>1 DEF ReloadBegins, Typed, TypeOK
      <4> QED  BY <3>1, <4>1 DEF ReloadBegins, Typed, TypeOK
    <3>2. CASE ~ReloadBegins(e)
      BY <1>1, <3>2 DEF SetupBegins, SetupDone, SetupFails, Typed, TypeOK
    <3> QED  BY <3>1, <3>2
  <2>4. hub' \in [Entries -> [Timers -> Keys \cup {NoKey}]]
    BY <1>1, <1>h, TypedHub DEF SetupBegins, SetupDone, SetupFails, ReloadBegins, Typed, TypeOK
  <2>5. TypeOK'
    BY <2>1, <2>2, <2>3, <2>4 DEF Typed, TypeOK
  <2>6. Filled'
    BY <2>1, <2>2 DEF Typed, TypeOK, Filled, Flow, Exists
  <2>7. EntryFilled'
    BY <1>1, <2>1 DEF SetupBegins, SetupDone, SetupFails, ReloadBegins, Typed, TypeOK,
       EntryFilled, Exists
  <2> QED  BY <2>5, <2>6, <2>7 DEF Typed
<1>2. CASE ChangeOptions(e) \/ \E t \in Timers : RemoveDevice(e, t)
  <2>1. /\ UNCHANGED <<genOf, timerKey, drawn, flow, raced, outdated, contested>>
        /\ edits' \in 0 .. MaxEdits
        /\ Updated(e)
    BY <1>2 DEF ChangeOptions, RemoveDevice, Typed, TypeOK
  <2>2. /\ life' = life /\ hub' = hub
        /\ reloads' \in [Entries -> Nat] /\ missed' \subseteq Entries
    BY <2>1, UpdatedTypes
  <2>e. \A d \in Entries : ~Exists(d) => reloads'[d] = reloads[d]
    BY <2>1 DEF Updated, Exists, Typed, TypeOK
  <2>3. entry' \in [Entries -> EntryType] /\ EntryFilled'
    <3>1. CASE ChangeOptions(e)
      <4>1. entry' = entry
        BY <3>1 DEF ChangeOptions, dataVars
      <4> QED  BY <2>2, <2>e, <4>1 DEF Typed, TypeOK, EntryType, EntryFilled, Exists
    <3>2. ASSUME NEW t \in Timers, RemoveDevice(e, t)
          PROVE  entry' \in [Entries -> EntryType] /\ EntryFilled'
      <4>1. /\ entry[e] \in EntryType
            /\ entry' = [entry EXCEPT ![e].devices[t] = NoDevice]
            /\ entry[e].devices[t] # NoDevice
        BY <3>2 DEF RemoveDevice, HasDevice, NoDevice, Typed, TypeOK, EntryType
      <4>2. Exists(e)
        BY <4>1 DEF Typed, EntryFilled, NoEntry, NoDevices
      <4>3. entry' = [entry EXCEPT ![e] = [entry[e] EXCEPT !.devices =
                        [entry[e].devices EXCEPT ![t] = NoDevice]]]
        BY <4>1
      <4>4. entry' \in [Entries -> EntryType]
        <5>1. [entry[e] EXCEPT !.devices = [entry[e].devices EXCEPT ![t] = NoDevice]]
                \in EntryType
          BY <4>1 DEF EntryType
        <5>2. entry \in [Entries -> EntryType]
          BY DEF Typed, TypeOK, EntryType
        <5> QED  BY <4>3, <5>1, <5>2
      <4>5. EntryFilled'
        <5>1. entry'[e].key = entry[e].key /\ \A d \in Entries \ {e} : entry'[d] = entry[d]
          BY <4>1, <4>3 DEF Typed, TypeOK, EntryType
        <5> QED  BY <2>2, <2>e, <4>2, <5>1 DEF Typed, EntryFilled, Exists
      <4> QED  BY <4>4, <4>5
    <3> QED  BY <1>2, <3>1, <3>2
  <2>4. TypeOK' /\ Filled'
    BY <2>1, <2>2, <2>3 DEF Typed, TypeOK, EntryType, Filled, Exists
  <2> QED  BY <2>3, <2>4 DEF Typed
<1> QED  BY <1>1, <1>2 DEF EntryNext

\* Steps of a dialog that leave the entries alone.
Quiet(f) ==
  \/ \E of \in Entries \cup {New} : OpenFlow(f, of)
  \/ \E t \in Timers : PickAddress(f, t)
  \/ \E gen \in {1, 2} : ChooseGeneration(f, gen)
  \/ SubmitForm(f) \/ Abandon(f)
  \/ WriteNetworkChar(f) \/ HandshakeDone(f) \/ SetupError(f) \/ AbortNewGen2(f)

\* A dialog becomes r.
LEMMA TypedDialog ==
  ASSUME Typed, NEW f \in Flows, NEW r \in Flow, flow' = [flow EXCEPT ![f] = r],
         \A e \in Entries : Exists(e) => Exists(e)',
         r.step \in {"generation", "credentials"} \cup Working => r.addr \in Timers,
         r.step \in {"credentials"} \cup Working => r.gen \in {1, 2},
         r.step \in Working => r.key \in Keys,
         r.of # New => Exists(r.of)
  PROVE  flow' \in [Flows -> Flow] /\ Filled'
<1>1. \A g \in Flows : flow'[g] = IF g = f THEN r ELSE flow[g]
  BY DEF Typed, TypeOK
<1>2. \A g \in Flows : flow[g].of \in Entries \cup {New} /\ r.of \in Entries \cup {New}
  BY DEF Typed, TypeOK, Flow
<1>3. ASSUME NEW g \in Flows, flow'[g].of # New
      PROVE  Exists(flow[g].of)'
  BY <1>1, <1>2, <1>3 DEF Typed, Filled, Exists
<1>4. flow' \in [Flows -> Flow]
  BY DEF Typed, TypeOK
<1> QED  BY <1>1, <1>3, <1>4 DEF Typed, Filled

LEMMA TypedClose ==
  ASSUME Typed, NEW f \in Flows, Close(f), \A e \in Entries : Exists(e) => Exists(e)'
  PROVE  flow' \in [Flows -> Flow] /\ Filled'
<1>1. [NoFlow EXCEPT !.step = "closed"] \in Flow
  BY DEF NoFlow, Flow, Steps, New, NoKey
<1> QED  BY <1>1, TypedDialog DEF Close, Working, NoFlow

LEMMA TypedQuietStep ==
  ASSUME Typed, NEW f \in Flows, Quiet(f)
  PROVE  Typed' /\ UNCHANGED <<genOf, entry, setupVars, edits>>
<1> USE DEF dataVars, setupVars, histVars
<1>0. UNCHANGED <<genOf, entry, setupVars, edits>>
  BY DEF Quiet, OpenFlow, PickAddress, ChooseGeneration, SubmitForm, SubmitGen1, SubmitGen2,
     Submit, Abandon, WriteNetworkChar, HandshakeDone, SetupError, AbortNewGen2
<1>t. /\ flow[f] \in Flow
      /\ flow[f].of # New => Exists(flow[f].of)
      /\ \A e \in Entries : Exists(e) => Exists(e)'
  BY <1>0 DEF Typed, TypeOK, Filled, Exists
<1>1. ASSUME NEW of \in Entries \cup {New}, OpenFlow(f, of) PROVE Typed'
  <2> DEFINE r == [flow[f] EXCEPT !.of = of, !.step = "picking"]
  <2>1. flow' = [flow EXCEPT ![f] = r] /\ r \in Flow /\ r.step = "picking" /\ r.of = of
    BY <1>1, <1>t DEF OpenFlow, Flow, Steps, Typed, TypeOK
  <2>2. of # New => Exists(of)
    BY <1>1 DEF OpenFlow
  <2> HIDE DEF r
  <2>3. flow' \in [Flows -> Flow] /\ Filled'
    BY <1>t, <2>1, <2>2, TypedDialog DEF Working
  <2> QED  BY <1>0, <1>1, <2>3 DEF OpenFlow, Typed, TypeOK, EntryFilled, Exists
<1>2. ASSUME NEW t \in Timers, PickAddress(f, t) PROVE Typed'
  <2> DEFINE r == [flow[f] EXCEPT !.addr = t, !.step = "generation"]
  <2>1. flow' = [flow EXCEPT ![f] = r] /\ r \in Flow /\ r.step = "generation"
        /\ r.of = flow[f].of /\ r.addr = t
    BY <1>2, <1>t DEF PickAddress, Flow, Steps, Typed, TypeOK
  <2> HIDE DEF r
  <2>2. flow' \in [Flows -> Flow] /\ Filled'
    BY <1>t, <2>1, TypedDialog DEF Working
  <2>3. contested' \subseteq Timers
    BY <1>2 DEF PickAddress, Typed, TypeOK
  <2> QED  BY <1>0, <1>2, <2>2, <2>3 DEF PickAddress, Typed, TypeOK, EntryFilled, Exists
<1>3. ASSUME NEW gen \in {1, 2}, ChooseGeneration(f, gen) PROVE Typed'
  <2> DEFINE r == [flow[f] EXCEPT !.gen = gen, !.step = "credentials"]
  <2>1. flow' = [flow EXCEPT ![f] = r] /\ r \in Flow /\ r.step = "credentials"
        /\ r.of = flow[f].of /\ r.addr \in Timers /\ r.gen = gen
    BY <1>3, <1>t DEF ChooseGeneration, Flow, Steps, Typed, TypeOK, Filled
  <2> HIDE DEF r
  <2>2. flow' \in [Flows -> Flow] /\ Filled'
    BY <1>t, <2>1, TypedDialog DEF Working
  <2> QED  BY <1>0, <1>3, <2>2 DEF ChooseGeneration, Typed, TypeOK, EntryFilled, Exists
<1>4. CASE SubmitForm(f)
  <2>1. PICK typed \in Keys \cup {NoKey}, run_pairing \in BOOLEAN :
          /\ Submit(f, typed, run_pairing)
          /\ flow[f].step = "credentials"
    <3>1. PICK typed \in 0 .. drawn : \E has_id, run_pairing \in BOOLEAN :
            SubmitGen2(f, typed, run_pairing) \/ SubmitGen1(f, typed, has_id, run_pairing)
      BY <1>4 DEF SubmitForm
    <3>2. typed \in Keys \cup {NoKey}
      BY DEF Typed, TypeOK, Keys, NoKey
    <3>3. entry_gen2_pairing_locked(flow[f].of) => entry[flow[f].of].key \in Keys
      <4>1. flow[f].of # New => flow[f].of \in Entries /\ Exists(flow[f].of)
        BY <1>t DEF Flow
      <4> QED  BY <4>1 DEF entry_gen2_pairing_locked, Typed, EntryFilled
    <3> QED  BY <3>1, <3>2, <3>3 DEF SubmitGen2, SubmitGen1
  <2> DEFINE key == IF typed = NoKey THEN Fresh ELSE typed
             s == IF run_pairing THEN "connecting" ELSE "verifying"
             r == [flow[f] EXCEPT !.key = key, !.step = s]
  <2>2. key \in Keys /\ s \in Working /\ drawn' \in 0 .. MaxKeys
    BY <2>1 DEF Submit, Fresh, Keys, NoKey, Working, Typed, TypeOK
  <2>3. flow' = [flow EXCEPT ![f] = r]
    BY <1>t, <2>1 DEF Submit, Flow, Typed, TypeOK
  <2> HIDE DEF key, s
  <2>a. flow[f].addr \in Timers /\ flow[f].gen \in {1, 2}
    BY <2>1 DEF Typed, Filled
  <2>4. /\ r \in Flow /\ r.step = s /\ r.of = flow[f].of /\ r.key = key
        /\ r.addr \in Timers /\ r.gen \in {1, 2}
    BY <1>t, <2>2, <2>a DEF Flow, Steps, Working
  <2> HIDE DEF r
  <2>5. flow' \in [Flows -> Flow] /\ Filled'
    BY <1>t, <2>2, <2>3, <2>4, TypedDialog
  <2> QED  BY <1>0, <2>1, <2>2, <2>5 DEF Submit, Typed, TypeOK, EntryFilled, Exists
<1>5. CASE Abandon(f) \/ AbortNewGen2(f)
  <2>1. flow' \in [Flows -> Flow] /\ Filled'
    BY <1>0, <1>5, TypedClose DEF Abandon, AbortNewGen2, Exists
  <2> QED  BY <1>0, <1>5, <2>1 DEF Abandon, AbortNewGen2, Typed, TypeOK, EntryFilled, Exists
<1>6. CASE WriteNetworkChar(f) \/ HandshakeDone(f)
  <2>1. PICK s \in {"handshake", "verifying"} :
          Goto(f, s) /\ flow[f].step \in Working
    BY <1>6 DEF WriteNetworkChar, HandshakeDone, Working
  <2> DEFINE r == [flow[f] EXCEPT !.step = s]
  <2>a. flow[f].addr \in Timers /\ flow[f].gen \in {1, 2} /\ flow[f].key \in Keys
    BY <2>1 DEF Typed, Filled
  <2>2. /\ flow' = [flow EXCEPT ![f] = r] /\ r \in Flow /\ r.step = s /\ r.of = flow[f].of
        /\ r.addr \in Timers /\ r.gen \in {1, 2} /\ r.key \in Keys
    BY <1>t, <2>1, <2>a DEF Goto, Flow, Steps
  <2> HIDE DEF r
  <2>3. flow' \in [Flows -> Flow] /\ Filled'
    BY <1>t, <2>2, TypedDialog
  <2>4. timerKey' \in [Timers -> Keys \cup {NoKey}]
    BY <1>6, <1>t, <2>1 DEF WriteNetworkChar, HandshakeDone, Flow, Typed, TypeOK
  <2> QED  BY <1>0, <1>6, <2>3, <2>4 DEF WriteNetworkChar, HandshakeDone, Typed, TypeOK,
              EntryFilled, Exists
<1>7. CASE SetupError(f)
  <2> DEFINE r == [flow[f] EXCEPT !.step = "credentials", !.key = NoKey]
  <2>a. flow[f].addr \in Timers /\ flow[f].gen \in {1, 2}
    BY <1>7 DEF SetupError, Typed, Filled
  <2>1. flow' = [flow EXCEPT ![f] = r]
    BY <1>7, <1>t DEF SetupError, Typed, TypeOK, Flow
  <2>b. /\ r \in Flow /\ r.step = "credentials"
        /\ r.of = flow[f].of /\ r.addr \in Timers /\ r.gen \in {1, 2}
    BY <1>t, <2>a DEF Flow, Steps, NoKey
  <2> HIDE DEF r
  <2>2. flow' \in [Flows -> Flow] /\ Filled'
    BY <1>t, <2>1, <2>b, TypedDialog DEF Working
  <2> QED  BY <1>0, <1>7, <2>2 DEF SetupError, Typed, TypeOK, EntryFilled, Exists
<1> QED  BY <1>0, <1>1, <1>2, <1>3, <1>4, <1>5, <1>6, <1>7 DEF Quiet

-------------------------------------------------------------------------------
(* What a completed dialog f does: entry e, a new one or the one of the dialog, gets    *)
(* the timer and key k.                                                                 *)

Created(f, e, k) ==
  /\ flow[f].of = New /\ ~Exists(e)
  /\ life' = [life EXCEPT ![e] = "waiting"]
  /\ flow[f].gen = 2 => k = flow[f].key
  /\ UNCHANGED <<reloads, missed, raced, outdated>>

Joined(f, e, k) ==
  /\ flow[f].of = e /\ e # New /\ Exists(e)
  /\ Updated(e)
  /\ k = IF flow[f].gen = 2 /\ ~entry_gen2_pairing_locked(e) THEN flow[f].key
         ELSE entry[e].key
  /\ raced' = (IF flow[f].gen = 2 /\ ~entry_gen2_pairing_locked(e)
                 THEN raced \cup OthersAtWork(f) ELSE raced) \ {f}
  /\ outdated' = IF flow[f].gen = 2 /\ f \in raced THEN outdated \cup {flow[f].addr}
                 ELSE outdated

Completes(f, e, k) ==
  /\ entry' \in [Entries -> EntryType]
  /\ \A d \in Entries \ {e} : entry'[d] = entry[d]
  /\ entry'[e].key = k
  /\ \A t \in Timers : entry'[e].devices[t] =
                         IF t = flow[f].addr THEN Meta(f) ELSE entry[e].devices[t]
  /\ Answers(f) /\ Close(f)
  /\ UNCHANGED <<genOf, timerKey, hub, edits, contested>>
  /\ drawn' \in 0 .. MaxKeys
  /\ Created(f, e, k) \/ Joined(f, e, k)

\* The timer and key of a dialog whose timer answered.
LEMMA AnswersTyped ==
  ASSUME Typed, NEW f \in Flows, Answers(f)
  PROVE  /\ flow[f].addr \in Timers /\ flow[f].gen \in {1, 2} /\ flow[f].key \in Keys
         /\ Meta(f) \in Device
         /\ flow[f].of # New => flow[f].of \in Entries /\ Exists(flow[f].of)
<1>1. flow[f].addr \in Timers /\ flow[f].gen \in {1, 2} /\ flow[f].key \in Keys
  BY DEF Answers, Working, Typed, Filled
<1>2. flow[f].of \in Entries \cup {New}
  BY DEF Typed, TypeOK, Flow
<1> QED  BY <1>1, <1>2 DEF Typed, Filled, Meta, Device

LEMMA CreateCompletes ==
  ASSUME Typed, NEW f \in Flows, NEW key \in Keys, Answers(f), flow[f].of = New,
         flow[f].gen = 2 => key = flow[f].key, drawn' \in 0 .. MaxKeys, CreateEntry(f, key)
  PROVE  \E e \in Entries, k \in Keys : Completes(f, e, k)
<1> DEFINE a == flow[f].addr
           devs == [NoDevices EXCEPT ![a] = Meta(f)]
           new == [uid |-> key, key |-> key, devices |-> devs]
<1>1. PICK e \in Entries :
        /\ ~Exists(e)
        /\ entry' = [entry EXCEPT ![e] = new]
        /\ life' = [life EXCEPT ![e] = "waiting"]
        /\ Close(f)
        /\ UNCHANGED <<genOf, timerKey, hub, reloads, missed, edits, histVars>>
  BY DEF CreateEntry
<1>2. a \in Timers /\ Meta(f) \in Device
  BY AnswersTyped
<1>3. /\ devs \in [Timers -> Device \cup {NoDevice}]
      /\ \A t \in Timers : devs[t] = IF t = a THEN Meta(f) ELSE NoDevice
  BY <1>2 DEF NoDevices
<1>4. \A t \in Timers : entry[e].devices[t] = NoDevice
  <2>1. entry[e] = NoEntry
    BY <1>1 DEF Typed, EntryFilled
  <2>2. NoEntry.devices = NoDevices
    BY DEF NoEntry
  <2> QED  BY <2>1, <2>2 DEF NoDevices
<1> HIDE DEF devs
<1>5. new \in EntryType /\ new.key = key /\ new.devices = devs
  BY <1>3 DEF EntryType
<1> HIDE DEF new
<1>6. /\ entry' \in [Entries -> EntryType]
      /\ entry'[e] = new
      /\ \A d \in Entries \ {e} : entry'[d] = entry[d]
  BY <1>1, <1>5 DEF Typed, TypeOK, EntryType
<1>7. \A t \in Timers : entry'[e].devices[t] = IF t = a THEN Meta(f) ELSE entry[e].devices[t]
  BY <1>3, <1>4, <1>5, <1>6
<1>8. Created(f, e, key)
  BY <1>1 DEF Created, histVars
<1> QED  BY <1>1, <1>5, <1>6, <1>7, <1>8 DEF Completes, histVars

LEMMA OptionCompletes ==
  ASSUME Typed, NEW f \in Flows, CompleteOptionGen1(f) \/ CompleteOptionGen2(f)
  PROVE  \E e \in Entries, k \in Keys : Completes(f, e, k)
<1> DEFINE a == flow[f].addr
           e == flow[f].of
           k == IF flow[f].gen = 2 /\ ~entry_gen2_pairing_locked(e) THEN flow[f].key
                ELSE entry[e].key
           devs == [entry[e].devices EXCEPT ![a] = Meta(f)]
           new == [entry[e] EXCEPT !.devices = devs, !.key = k]
<1>1. Answers(f) /\ e # New /\ Updated(e) /\ Close(f)
  BY DEF CompleteOptionGen1, CompleteOptionGen2
<1>2. /\ a \in Timers /\ Meta(f) \in Device /\ e \in Entries /\ Exists(e)
      /\ flow[f].key \in Keys
  BY <1>1, AnswersTyped
<1>3. entry[e] \in EntryType /\ entry[e].key \in Keys
  BY <1>2 DEF Typed, TypeOK, EntryType, EntryFilled
<1>4. k \in Keys
  BY <1>2, <1>3
<1>5. entry' = [entry EXCEPT ![e] = new]
  <2>1. CASE CompleteOptionGen1(f)
    <3>1. k = entry[e].key
      BY <2>1 DEF CompleteOptionGen1
    <3>2. entry' = [entry EXCEPT ![e].devices[a] = Meta(f)]
      BY <2>1 DEF CompleteOptionGen1
    <3>3. new = [entry[e] EXCEPT !.devices = devs]
      BY <1>3, <3>1 DEF EntryType
    <3> QED  BY <3>2, <3>3
  <2>2. CASE CompleteOptionGen2(f)
    BY <2>2 DEF CompleteOptionGen2
  <2> QED  BY <2>1, <2>2
<1>6. Joined(f, e, k)
  <2>1. CASE CompleteOptionGen1(f)
    BY <1>1, <1>2, <2>1 DEF CompleteOptionGen1, Joined
  <2>2. CASE CompleteOptionGen2(f)
    BY <1>1, <1>2, <2>2 DEF CompleteOptionGen2, Joined
  <2> QED  BY <2>1, <2>2
<1>7. UNCHANGED <<genOf, timerKey, hub, edits, contested, drawn>>
  BY <1>1 DEF CompleteOptionGen1, CompleteOptionGen2, Updated
<1> HIDE DEF k
<1>8. /\ devs \in [Timers -> Device \cup {NoDevice}]
      /\ \A t \in Timers : devs[t] = IF t = a THEN Meta(f) ELSE entry[e].devices[t]
  BY <1>2, <1>3 DEF EntryType
<1> HIDE DEF devs
<1>9. new \in EntryType /\ new.key = k /\ new.devices = devs
  BY <1>3, <1>4, <1>8 DEF EntryType
<1> HIDE DEF new, e
<1>10. /\ entry' \in [Entries -> EntryType]
       /\ entry'[e] = new
       /\ \A d \in Entries \ {e} : entry'[d] = entry[d]
  BY <1>2, <1>5, <1>9 DEF Typed, TypeOK, EntryType
<1>11. \A t \in Timers : entry'[e].devices[t] = IF t = a THEN Meta(f) ELSE entry[e].devices[t]
  BY <1>8, <1>9, <1>10
<1>12. drawn' \in 0 .. MaxKeys
  BY <1>7 DEF Typed, TypeOK
<1>13. Completes(f, e, k)
  BY <1>1, <1>6, <1>7, <1>9, <1>10, <1>11, <1>12 DEF Completes
<1> QED  BY <1>2, <1>4, <1>13

LEMMA CompleteCases ==
  ASSUME Typed, NEW f \in Flows, Complete(f)
  PROVE  AbortNewGen2(f) \/ \E e \in Entries, k \in Keys : Completes(f, e, k)
<1>1. CASE CompleteNewGen2(f)
  BY <1>1, AnswersTyped, CreateCompletes DEF CompleteNewGen2, Typed, TypeOK
<1>2. CASE CompleteNewGen1(f)
  <2>1. Fresh \in Keys /\ Fresh \in 0 .. MaxKeys
    BY <1>2 DEF CompleteNewGen1, Fresh, Keys, Typed, TypeOK
  <2> QED  BY <1>2, <2>1, CreateCompletes DEF CompleteNewGen1
<1> QED  BY <1>1, <1>2, OptionCompletes DEF Complete

LEMMA TypedCompletes ==
  ASSUME Typed, NEW f \in Flows, NEW e \in Entries, NEW k \in Keys, Completes(f, e, k)
  PROVE  Typed'
<1>1. /\ life' \in [Entries -> {"absent", "waiting", "setup", "loaded"}]
      /\ reloads' \in [Entries -> Nat] /\ missed' \subseteq Entries
      /\ raced' \subseteq Flows /\ outdated' \subseteq Timers
      /\ \A d \in Entries : Exists(d)' <=> Exists(d) \/ d = e
      /\ \A d \in Entries \ {e} : ~Exists(d) => reloads'[d] = reloads[d]
  <2>1. flow[f].addr \in Timers
    BY AnswersTyped DEF Completes
  <2>2. CASE Created(f, e, k)
    BY <2>2 DEF Created, Typed, TypeOK, Exists
  <2>3. CASE Joined(f, e, k)
    <3>1. raced' \subseteq Flows /\ outdated' \subseteq Timers
      BY <2>1, <2>3 DEF Joined, OthersAtWork, Typed, TypeOK
    <3>2. life' = life /\ reloads' \in [Entries -> Nat] /\ missed' \subseteq Entries
      BY <2>3, UpdatedTypes DEF Joined
    <3>3. \A d \in Entries \ {e} : reloads'[d] = reloads[d]
      BY <2>3 DEF Joined, Updated, Typed, TypeOK
    <3>4. Exists(e)
      BY <2>3 DEF Joined
    <3> QED  BY <3>1, <3>2, <3>3, <3>4 DEF Typed, TypeOK, Exists
  <2> QED  BY <2>2, <2>3 DEF Completes
<1>2. flow' \in [Flows -> Flow] /\ Filled'
  BY <1>1, TypedClose DEF Completes
<1>3. EntryFilled'
  BY <1>1 DEF Completes, Typed, EntryFilled
<1>4. TypeOK'
  BY <1>1, <1>2 DEF Completes, Typed, TypeOK, EntryType
<1> QED  BY <1>2, <1>3, <1>4 DEF Typed

LEMMA TypedStep == Typed /\ [Next]_vars => Typed'
<1> SUFFICES ASSUME Typed, [Next]_vars PROVE Typed'
  OBVIOUS
<1>1. ASSUME NEW f \in Flows, FlowNext(f) PROVE Typed'
  <2>1. CASE Quiet(f)
    BY <2>1, TypedQuietStep
  <2>2. CASE Complete(f)
    BY <2>1, <2>2, CompleteCases, TypedCompletes DEF Quiet
  <2> QED  BY <1>1, <2>1, <2>2 DEF FlowNext, Quiet
<1>2. ASSUME NEW e \in Entries, EntryNext(e) PROVE Typed'
  BY <1>2, TypedEntryStep
<1>3. CASE UNCHANGED vars
  BY <1>3 DEF vars, dataVars, setupVars, histVars, Typed, TypeOK, Filled, EntryFilled, Exists
<1> QED  BY <1>1, <1>2, <1>3 DEF Next

\* Every dialog and entry keeps its shape.
THEOREM FlowTypes == Spec => []TypeOK
<1>1. Typed => TypeOK
  BY DEF Typed
<1> QED  BY <1>1, TypedInit, TypedStep, PTL DEF Spec

-------------------------------------------------------------------------------
(* What happens to the entries in a step: nothing, a removal, or a completion.          *)

Removes(e, t) ==
  /\ RemoveDevice(e, t)
  /\ \A d \in Entries \ {e} : entry'[d] = entry[d]
  /\ entry'[e].key = entry[e].key
  /\ \A s \in Timers : entry'[e].devices[s] = IF s = t THEN NoDevice ELSE entry[e].devices[s]

LEMMA StepCases ==
  ASSUME Typed, [Next]_vars
  PROVE  \/ UNCHANGED vars
         \/ \E f \in Flows : Quiet(f)
         \/ \E e \in Entries : SetupBegins(e) \/ SetupDone(e) \/ SetupFails(e)
                               \/ ReloadBegins(e) \/ ChangeOptions(e)
         \/ \E e \in Entries, t \in Timers : Removes(e, t)
         \/ \E f \in Flows, e \in Entries, k \in Keys : Completes(f, e, k)
<1>1. ASSUME NEW f \in Flows, FlowNext(f)
      PROVE  Quiet(f) \/ \E e \in Entries, k \in Keys : Completes(f, e, k)
  BY <1>1, CompleteCases DEF FlowNext, Quiet
<1>2. ASSUME NEW e \in Entries, NEW t \in Timers, RemoveDevice(e, t)
      PROVE  Removes(e, t)
  <2>1. entry' = [entry EXCEPT ![e].devices[t] = NoDevice]
    BY <1>2 DEF RemoveDevice
  <2>2. entry[e] \in EntryType
    BY DEF Typed, TypeOK, EntryType
  <2>3. entry'[e] = [entry[e] EXCEPT !.devices = [entry[e].devices EXCEPT ![t] = NoDevice]]
        /\ \A d \in Entries \ {e} : entry'[d] = entry[d]
    BY <2>1 DEF Typed, TypeOK
  <2> QED  BY <1>2, <2>2, <2>3 DEF Removes, EntryType
<1> QED  BY <1>1, <1>2 DEF Next, EntryNext

\* A step that leaves entry alone does not change what is read from it.
LEMMA QuietEntries ==
  ASSUME Typed
  PROVE  /\ \A f \in Flows : Quiet(f) => UNCHANGED <<entry, setupVars, edits>>
         /\ \A e \in Entries :
              SetupBegins(e) \/ SetupDone(e) \/ SetupFails(e) \/ ReloadBegins(e)
              \/ ChangeOptions(e)
                => UNCHANGED <<entry, flow, timerKey, histVars>>
BY TypedQuietStep DEF SetupBegins, SetupDone, SetupFails, ReloadBegins, ChangeOptions, dataVars,
   setupVars, histVars

\* No flow replaces the key of an entry under its gen2 timers: it is written only when
\* the entry is created or, at the moment of writing, not locked.
THEOREM KeyKept == Spec => SharedKeyStable
<1>1. Typed /\ [Next]_vars =>
        [\A e \in Entries : entry_gen2_pairing_locked(e) /\ entry_gen2_pairing_locked(e)'
                              => entry'[e].key = entry[e].key]_vars
  <2> SUFFICES ASSUME Typed, [Next]_vars, NEW e \in Entries, entry_gen2_pairing_locked(e)
               PROVE  entry'[e].key = entry[e].key
    OBVIOUS
  <2>1. ASSUME NEW d \in Entries, NEW t \in Timers, Removes(d, t)
        PROVE  entry'[e].key = entry[e].key
    BY <2>1 DEF Removes
  <2>2. ASSUME NEW f \in Flows, NEW d \in Entries, NEW k \in Keys, Completes(f, d, k)
        PROVE  entry'[e].key = entry[e].key
    <3>1. entry[e].key # NoKey
      BY DEF entry_gen2_pairing_locked
    <3>2. Exists(e)
      BY <3>1 DEF Typed, EntryFilled, NoEntry
    <3>3. CASE d = e
      BY <2>2, <3>2, <3>3 DEF Completes, Created, Joined
    <3>4. CASE d # e
      BY <2>2, <3>4 DEF Completes
    <3> QED  BY <3>3, <3>4
  <2> QED  BY <2>1, <2>2, StepCases, QuietEntries DEF vars, dataVars
<1> QED  BY <1>1, TypedInit, TypedStep, PTL DEF Spec, SharedKeyStable

-------------------------------------------------------------------------------
(* Timers that two dialogs have in hand.  A dialog picks a timer no entry has, so if it  *)
(* is saved before the dialog ends, another dialog did.                                  *)

PickedApart ==
  /\ \A f \in Flows, t \in Timers \ contested :
       InHand(f, t) => t \notin configured_device_addresses
  /\ \A f, g \in Flows, t \in Timers \ contested : InHand(f, t) /\ InHand(g, t) => f = g

NoneYet == \A f \in Flows : flow[f].step \in {"unopened", "picking"} => flow[f].addr = NoTimer

HandInv == Typed /\ NoneYet /\ PickedApart /\ OneEntryPerTimer

LEMMA HandInit == Init => HandInv
<1> SUFFICES ASSUME Init PROVE NoneYet /\ PickedApart /\ OneEntryPerTimer
  BY TypedInit DEF HandInv
<1>1. \A f \in Flows, t \in Timers : ~InHand(f, t)
  BY DEF Init, InHand, NoFlow
<1>2. ASSUME NEW d \in Entries, NEW e \in Entries, NEW t \in Timers, d # e, HasDevice(d, t),
             HasDevice(e, t)
      PROVE  FALSE
  <2>1. NoEntry.devices[t].gen = 0
    BY DEF NoEntry, NoDevices, NoDevice
  <2>2. entry[d] = NoEntry \/ entry[e] = NoEntry
    BY <1>2 DEF Init
  <2> QED  BY <1>2, <2>1, <2>2 DEF HasDevice
<1>3. NoneYet
  BY DEF Init, NoFlow, NoneYet
<1> QED  BY <1>1, <1>2, <1>3 DEF PickedApart, OneEntryPerTimer

\* A dialog gets a timer in hand only by picking it.
LEMMA QuietHands ==
  ASSUME Typed, NoneYet, NEW f \in Flows, Quiet(f)
  PROVE  /\ NoneYet'
         /\ contested \subseteq contested'
         /\ \A g \in Flows \ {f} : flow'[g] = flow[g]
         /\ \A t \in Timers : InHand(f, t)' => InHand(f, t) \/ PickAddress(f, t)
<1> USE DEF histVars
<1>0. flow[f] \in Flow /\ flow \in [Flows -> Flow]
  BY DEF Typed, TypeOK
<1>1. CASE \E t \in Timers : PickAddress(f, t)
  <2>1. PICK t \in Timers : PickAddress(f, t)
    BY <1>1
  <2>2. /\ flow' = [flow EXCEPT ![f] = [flow[f] EXCEPT !.addr = t, !.step = "generation"]]
        /\ contested \subseteq contested'
    BY <1>0, <2>1 DEF PickAddress, Flow
  <2>3. /\ flow'[f].addr = t /\ flow'[f].step = "generation"
        /\ \A g \in Flows \ {f} : flow'[g] = flow[g]
    BY <1>0, <2>2 DEF Flow
  <2> QED  BY <2>1, <2>2, <2>3 DEF NoneYet, InHand
<1>2. CASE Abandon(f) \/ AbortNewGen2(f)
  <2>1. /\ flow' = [flow EXCEPT ![f] = [NoFlow EXCEPT !.step = "closed"]]
        /\ contested' = contested
    BY <1>2 DEF Abandon, AbortNewGen2, Close
  <2>2. /\ flow'[f].step = "closed"
        /\ \A g \in Flows \ {f} : flow'[g] = flow[g]
    BY <1>0, <2>1 DEF NoFlow
  <2> QED  BY <2>1, <2>2 DEF NoneYet, InHand
<1> DEFINE Kept == /\ contested' = contested
                   /\ \A g \in Flows \ {f} : flow'[g] = flow[g]
                   /\ flow'[f].addr = flow[f].addr
                   /\ flow[f].step # "closed"
                   /\ flow'[f].step \in {"unopened", "picking"} => flow[f].step = "unopened"
<1>3. ASSUME NEW of \in Entries \cup {New}, OpenFlow(f, of) PROVE Kept
  BY <1>0, <1>3 DEF OpenFlow, Flow
<1>4. ASSUME NEW gen \in {1, 2}, ChooseGeneration(f, gen) PROVE Kept
  BY <1>0, <1>4 DEF ChooseGeneration, Flow
<1>5. ASSUME SubmitForm(f) PROVE Kept
  <2>1. PICK typed, run_pairing : Submit(f, typed, run_pairing) /\ flow[f].step = "credentials"
    BY <1>5 DEF SubmitForm, SubmitGen1, SubmitGen2
  <2> DEFINE s == IF run_pairing THEN "connecting" ELSE "verifying"
             key == IF typed = NoKey THEN Fresh ELSE typed
  <2>2. flow' = [flow EXCEPT ![f] = [flow[f] EXCEPT !.key = key, !.step = s]]
        /\ contested' = contested
    BY <1>0, <2>1 DEF Submit, Flow
  <2>3. s \notin {"unopened", "picking"}
    OBVIOUS
  <2> HIDE DEF s, key
  <2> QED  BY <1>0, <2>1, <2>2, <2>3 DEF Flow
<1>6. ASSUME WriteNetworkChar(f) \/ HandshakeDone(f) PROVE Kept
  BY <1>0, <1>6 DEF WriteNetworkChar, HandshakeDone, Goto, Flow
<1>7. ASSUME SetupError(f) PROVE Kept
  BY <1>0, <1>7 DEF SetupError, Working, Flow
<1>8. ASSUME Kept
      PROVE  /\ NoneYet'
             /\ contested \subseteq contested'
             /\ \A g \in Flows \ {f} : flow'[g] = flow[g]
             /\ \A t \in Timers : InHand(f, t)' => InHand(f, t) \/ PickAddress(f, t)
  <2>1. flow'[f].addr \in Timers => flow[f].step # "unopened"
    BY <1>8 DEF NoneYet
  <2> QED  BY <1>8, <2>1 DEF NoneYet, InHand
<1> HIDE DEF Kept
<1> QED  BY <1>1, <1>2, <1>3, <1>4, <1>5, <1>6, <1>7, <1>8 DEF Quiet

LEMMA HandStep == HandInv /\ [Next]_vars => HandInv'
<1> SUFFICES ASSUME HandInv, [Next]_vars PROVE NoneYet' /\ PickedApart' /\ OneEntryPerTimer'
  BY TypedStep DEF HandInv
<1> USE DEF dataVars, histVars
<1>0. Typed /\ NoneYet /\ PickedApart /\ OneEntryPerTimer
  BY DEF HandInv
<1>1. CASE UNCHANGED <<entry, flow, contested>>
  BY <1>0, <1>1 DEF NoneYet, PickedApart, OneEntryPerTimer, InHand, configured_device_addresses,
     HasDevice
<1>2. ASSUME NEW f \in Flows, Quiet(f)
      PROVE  NoneYet' /\ PickedApart' /\ OneEntryPerTimer'
  <2>1. /\ NoneYet' /\ contested \subseteq contested'
        /\ \A g \in Flows \ {f} : flow'[g] = flow[g]
        /\ \A t \in Timers : InHand(f, t)' => InHand(f, t) \/ PickAddress(f, t)
    BY <1>0, <1>2, QuietHands
  <2>2. entry' = entry
    BY <1>0, <1>2, QuietEntries
  <2>3. OneEntryPerTimer'
    BY <1>0, <2>1, <2>2 DEF OneEntryPerTimer, HasDevice
  <2>4. \A g \in Flows \ {f}, t \in Timers : InHand(g, t)' => InHand(g, t)
    BY <2>1 DEF InHand
  <2>5. configured_device_addresses' = configured_device_addresses
    BY <2>2 DEF configured_device_addresses, HasDevice
  <2>6. ASSUME NEW t \in Timers \ contested', PickAddress(f, t)
        PROVE  /\ t \notin configured_device_addresses
               /\ \A g \in Flows \ {f} : ~InHand(g, t)
    BY <2>6 DEF PickAddress
  <2>7. PickedApart'
    BY <1>0, <2>1, <2>4, <2>5, <2>6 DEF PickedApart
  <2> QED  BY <2>1, <2>3, <2>7
<1>3. ASSUME NEW e \in Entries, NEW t \in Timers, Removes(e, t)
      PROVE  NoneYet' /\ PickedApart' /\ OneEntryPerTimer'
  <2>1. UNCHANGED <<flow, contested>>
    BY <1>3 DEF Removes, RemoveDevice
  <2>2. \A d \in Entries, s \in Timers : HasDevice(d, s)' => HasDevice(d, s)
    <3>1. NoDevice.gen = 0
      BY DEF NoDevice
    <3>2. ASSUME NEW d \in Entries, NEW s \in Timers
          PROVE  entry'[d].devices[s] \in {NoDevice, entry[d].devices[s]}
      BY <1>3, <3>2 DEF Removes
    <3> QED  BY <3>1, <3>2 DEF HasDevice
  <2> QED  BY <1>0, <2>1, <2>2 DEF NoneYet, PickedApart, OneEntryPerTimer, InHand,
              configured_device_addresses
<1>4. ASSUME NEW f \in Flows, NEW e \in Entries, NEW k \in Keys, Completes(f, e, k)
      PROVE  NoneYet' /\ PickedApart' /\ OneEntryPerTimer'
  <2> DEFINE a == flow[f].addr
  <2>1. a \in Timers /\ InHand(f, a) /\ contested' = contested
    BY <1>0, <1>4, AnswersTyped DEF Completes, Answers, InHand
  <2>2. /\ \A g \in Flows \ {f} : flow'[g] = flow[g]
        /\ flow'[f].step = "closed"
    BY <1>0, <1>4 DEF Completes, Close, NoFlow, Typed, TypeOK
  <2>3. \A g \in Flows, t \in Timers : InHand(g, t)' => g # f /\ InHand(g, t)
    BY <2>2 DEF InHand
  <2>4. \A d \in Entries, t \in Timers :
          HasDevice(d, t)' => HasDevice(d, t) \/ (d = e /\ t = a)
    BY <1>4 DEF Completes, HasDevice
  <2>5. NoneYet'
    BY <1>0, <2>2 DEF NoneYet
  <2>6. \A t \in Timers : t \in configured_device_addresses'
                           => t = a \/ t \in configured_device_addresses
    BY <2>4 DEF configured_device_addresses
  <2>7. PickedApart'
    BY <1>0, <2>1, <2>3, <2>6 DEF PickedApart
  <2>8. OneEntryPerTimer'
    BY <1>0, <2>1, <2>4 DEF OneEntryPerTimer, PickedApart, configured_device_addresses
  <2> QED  BY <2>5, <2>7, <2>8
<1> QED  BY <1>0, <1>1, <1>2, <1>3, <1>4, StepCases, QuietEntries DEF vars

\* A timer is in two entries only if two dialogs had it in hand at once.
THEOREM TimersApart == Spec => []OneEntryPerTimer
<1>1. HandInv => OneEntryPerTimer
  BY DEF HandInv
<1> QED  BY <1>1, HandInit, HandStep, PTL DEF Spec

\* A saved timer disappears or changes only by its removal, or by such a dialog.
THEOREM DevicesKept == Spec => NoDeviceLost
<1>1. HandInv /\ [Next]_vars =>
        [\A e \in Entries, t \in Timers :
           HasDevice(e, t) /\ entry'[e].devices[t] # entry[e].devices[t]
             => edits' # edits \/ t \in contested]_vars
  <2> SUFFICES ASSUME HandInv, [Next]_vars, NEW e \in Entries, NEW t \in Timers,
                      HasDevice(e, t), entry'[e].devices[t] # entry[e].devices[t]
               PROVE  edits' # edits \/ t \in contested
    OBVIOUS
  <2>0. Typed /\ PickedApart
    BY DEF HandInv
  <2>1. ASSUME NEW d \in Entries, NEW s \in Timers, Removes(d, s) PROVE edits' # edits
    BY <2>0, <2>1 DEF Removes, RemoveDevice, Typed, TypeOK
  <2>2. ASSUME NEW f \in Flows, NEW d \in Entries, NEW k \in Keys, Completes(f, d, k)
        PROVE  t \in contested
    <3>1. d = e /\ t = flow[f].addr
      BY <2>2 DEF Completes
    <3>2. InHand(f, t)
      BY <2>2, <3>1 DEF Completes, Answers, InHand
    <3> QED  BY <2>0, <3>2 DEF PickedApart, configured_device_addresses
  <2> QED  BY <2>0, <2>1, <2>2, StepCases, QuietEntries DEF vars, dataVars
<1> QED  BY <1>1, HandInit, HandStep, PTL DEF Spec, NoDeviceLost

-------------------------------------------------------------------------------
(* Saved timers answer.  A gen2 dialog of a locked entry works with the entry's key,    *)
(* unless the entry got that key under it.                                              *)

KeyAgreed ==
  \A f \in Flows \ raced :
    flow[f].step \in Working /\ flow[f].gen = 2 /\ entry_gen2_pairing_locked(flow[f].of)
      => flow[f].key = entry[flow[f].of].key

AnswerInv == HandInv /\ KeyAgreed /\ SavedAnswers

LEMMA AnswerInit == Init => AnswerInv
<1> SUFFICES ASSUME Init PROVE KeyAgreed /\ SavedAnswers
  BY HandInit DEF AnswerInv
<1>1. KeyAgreed
  BY DEF Init, NoFlow, Working, KeyAgreed
<1>2. NoEntry.devices = NoDevices /\ \A t \in Timers : NoDevices[t].gen = 0
  BY DEF NoEntry, NoDevices, NoDevice
<1>3. ASSUME NEW e \in Entries, NEW t \in Timers, HasDevice(e, t)
      PROVE  timerKey[t] = device_network_key(e, t)
  <2>1. entry[e] # NoEntry
    BY <1>2, <1>3 DEF HasDevice
  <2>2. PICK one \in Entries, s \in Timers, some \in BOOLEAN :
          LET key == IF genOf[s] = 1 THEN 2 ELSE 1
          IN  /\ entry = [d \in Entries |->
                   IF d # one THEN NoEntry
                   ELSE [uid |-> 1, key |-> 1,
                         devices |-> IF some THEN [NoDevices EXCEPT ![s] =
                                                     [gen |-> genOf[s], key |-> key]]
                                     ELSE NoDevices]]
              /\ timerKey = [r \in Timers |-> IF r = s THEN key ELSE NoKey]
    BY <2>1 DEF Init
  <2> DEFINE key == IF genOf[s] = 1 THEN 2 ELSE 1
             dev == [gen |-> genOf[s], key |-> key]
             devs == IF some THEN [NoDevices EXCEPT ![s] = dev] ELSE NoDevices
  <2>3. entry[e].key = 1 /\ entry[e].devices = devs /\ timerKey[t] = IF t = s THEN key ELSE NoKey
    BY <2>1, <2>2
  <2>4. t = s /\ devs[t] = dev
    BY <1>2, <1>3, <2>3 DEF HasDevice, NoDevices
  <2>5. genOf[s] \in {1, 2}
    BY DEF Init
  <2>6. dev.gen = genOf[s] /\ dev.key = key
    OBVIOUS
  <2> HIDE DEF devs, dev
  <2> QED  BY <2>3, <2>4, <2>5, <2>6 DEF device_network_key
<1> QED  BY <1>1, <1>3 DEF SavedAnswers

\* What a dialog does to its timer and to the key it works with.
LEMMA QuietKeys ==
  ASSUME HandInv, NEW f \in Flows, Quiet(f)
  PROVE  /\ outdated' = outdated
         /\ \A t \in Timers : timerKey'[t] = timerKey[t] \/ InHand(f, t)
         /\ raced' = raced \/ (raced' = raced \ {f} /\ flow'[f].step \notin Working)
         /\ flow'[f].step \in Working =>
              \/ /\ flow[f].step \in Working
                 /\ flow'[f].gen = flow[f].gen /\ flow'[f].of = flow[f].of
                 /\ flow'[f].key = flow[f].key
              \/ /\ flow'[f].of = flow[f].of
                 /\ flow'[f].gen = 2 /\ entry_gen2_pairing_locked(flow[f].of)
                      => flow'[f].key = entry[flow[f].of].key
<1> USE DEF histVars
<1>0. /\ flow[f] \in Flow /\ flow \in [Flows -> Flow]
      /\ timerKey \in [Timers -> Keys \cup {NoKey}]
  BY DEF HandInv, Typed, TypeOK
<1> DEFINE Goal == /\ outdated' = outdated
                   /\ \A t \in Timers : timerKey'[t] = timerKey[t] \/ InHand(f, t)
                   /\ raced' = raced \/ (raced' = raced \ {f} /\ flow'[f].step \notin Working)
                   /\ flow'[f].step \in Working =>
                        \/ /\ flow[f].step \in Working
                           /\ flow'[f].gen = flow[f].gen /\ flow'[f].of = flow[f].of
                           /\ flow'[f].key = flow[f].key
                        \/ /\ flow'[f].of = flow[f].of
                           /\ flow'[f].gen = 2 /\ entry_gen2_pairing_locked(flow[f].of)
                                => flow'[f].key = entry[flow[f].of].key
<1>1. ASSUME NEW of \in Entries \cup {New}, OpenFlow(f, of) PROVE Goal
  BY <1>0, <1>1 DEF OpenFlow, Flow, Working
<1>2. ASSUME NEW t \in Timers, PickAddress(f, t) PROVE Goal
  BY <1>0, <1>2 DEF PickAddress, Flow, Working
<1>3. ASSUME NEW gen \in {1, 2}, ChooseGeneration(f, gen) PROVE Goal
  BY <1>0, <1>3 DEF ChooseGeneration, Flow, Working
<1>4. ASSUME NEW typed, NEW run_pairing, SubmitGen2(f, typed, run_pairing) PROVE Goal
  <2>1. PICK typed_, pairing_ :
          /\ Submit(f, typed_, pairing_)
          /\ entry_gen2_pairing_locked(flow[f].of) => typed_ = entry[flow[f].of].key
    BY <1>4 DEF SubmitGen2
  <2>2. typed_ = NoKey => ~entry_gen2_pairing_locked(flow[f].of)
    BY <2>1 DEF entry_gen2_pairing_locked
  <2> DEFINE s == IF pairing_ THEN "connecting" ELSE "verifying"
             key == IF typed_ = NoKey THEN Fresh ELSE typed_
  <2>3. flow' = [flow EXCEPT ![f] = [flow[f] EXCEPT !.key = key, !.step = s]]
        /\ UNCHANGED <<timerKey, raced, outdated>>
    BY <1>0, <2>1 DEF Submit, Flow
  <2>4. entry_gen2_pairing_locked(flow[f].of) => key = entry[flow[f].of].key
    BY <2>1, <2>2
  <2> HIDE DEF s, key
  <2>5. flow'[f].of = flow[f].of /\ flow'[f].gen = flow[f].gen /\ flow'[f].key = key
    BY <1>0, <2>3 DEF Flow
  <2> QED  BY <2>3, <2>4, <2>5
<1>5. ASSUME NEW typed, NEW has_id, NEW run_pairing, SubmitGen1(f, typed, has_id, run_pairing)
      PROVE  Goal
  <2>1. Submit(f, typed, run_pairing) /\ flow[f].gen = 1
    BY <1>5 DEF SubmitGen1
  <2> DEFINE s == IF run_pairing THEN "connecting" ELSE "verifying"
             key == IF typed = NoKey THEN Fresh ELSE typed
  <2>2. flow' = [flow EXCEPT ![f] = [flow[f] EXCEPT !.key = key, !.step = s]]
        /\ UNCHANGED <<timerKey, raced, outdated>>
    BY <1>0, <2>1 DEF Submit, Flow
  <2> HIDE DEF s, key
  <2>3. flow'[f].of = flow[f].of /\ flow'[f].gen = 1
    BY <1>0, <2>1, <2>2 DEF Flow
  <2> QED  BY <2>2, <2>3
<1>6. ASSUME Abandon(f) \/ AbortNewGen2(f) PROVE Goal
  BY <1>0, <1>6 DEF Abandon, AbortNewGen2, Close, NoFlow, dataVars, Working
<1>7. ASSUME WriteNetworkChar(f) \/ HandshakeDone(f) PROVE Goal
  BY <1>0, <1>7 DEF WriteNetworkChar, HandshakeDone, Goto, InHand, Flow, Working
<1>8. ASSUME SetupError(f) PROVE Goal
  BY <1>0, <1>8 DEF SetupError, Flow, Working
<1> HIDE DEF Goal
<1>9. Goal
  BY <1>1, <1>2, <1>3, <1>4, <1>5, <1>6, <1>7, <1>8 DEF Quiet, SubmitForm
<1> QED  BY <1>9 DEF Goal

\* What the key of a timer is read from.
LEMMA NetworkKey ==
  ASSUME NEW e \in Entries, NEW t \in Timers,
         entry'[e].devices[t] = entry[e].devices[t], entry'[e].key = entry[e].key
  PROVE  /\ HasDevice(e, t)' = HasDevice(e, t)
         /\ device_network_key(e, t)' = device_network_key(e, t)
BY DEF HasDevice, device_network_key

LEMMA AnswerStep == AnswerInv /\ [Next]_vars => AnswerInv'
<1> SUFFICES ASSUME AnswerInv, [Next]_vars PROVE KeyAgreed' /\ SavedAnswers'
  BY HandStep DEF AnswerInv
<1> USE DEF dataVars, histVars
<1>0. HandInv /\ Typed /\ PickedApart /\ KeyAgreed /\ SavedAnswers
  BY DEF AnswerInv, HandInv
<1>1. CASE UNCHANGED <<entry, flow, timerKey, histVars>>
  BY <1>0, <1>1 DEF KeyAgreed, SavedAnswers, HasDevice, device_network_key,
     entry_gen2_pairing_locked, entry_has_gen2_device
<1>2. ASSUME NEW f \in Flows, Quiet(f) PROVE KeyAgreed' /\ SavedAnswers'
  <2>1. /\ entry' = entry
        /\ \A e : entry_gen2_pairing_locked(e)' = entry_gen2_pairing_locked(e)
    BY <1>0, <1>2, QuietEntries DEF entry_gen2_pairing_locked, entry_has_gen2_device
  <2>2. /\ contested \subseteq contested' /\ outdated' = outdated
        /\ \A g \in Flows \ {f} : flow'[g] = flow[g]
        /\ \A t \in Timers : timerKey'[t] = timerKey[t] \/ InHand(f, t)
    BY <1>0, <1>2, QuietHands, QuietKeys DEF HandInv
  <2>3. SavedAnswers'
    <3> SUFFICES ASSUME NEW e \in Entries, NEW t \in Timers, HasDevice(e, t),
                        t \notin contested' \cup outdated'
                 PROVE  timerKey'[t] = device_network_key(e, t)
      BY <2>1 DEF SavedAnswers, HasDevice, device_network_key
    <3>1. ~InHand(f, t)
      BY <1>0, <2>2 DEF PickedApart, configured_device_addresses
    <3> QED  BY <1>0, <2>2, <3>1 DEF SavedAnswers
  <2>4. KeyAgreed'
    <3> SUFFICES ASSUME NEW g \in Flows \ raced', flow'[g].step \in Working, flow'[g].gen = 2,
                        entry_gen2_pairing_locked(flow'[g].of)
                 PROVE  flow'[g].key = entry[flow'[g].of].key
      BY <2>1 DEF KeyAgreed, entry_gen2_pairing_locked, entry_has_gen2_device
    <3>1. CASE g # f
      <4>1. g \notin raced
        BY <1>0, <1>2, <3>1, QuietKeys
      <4> QED  BY <1>0, <2>2, <3>1, <4>1 DEF KeyAgreed
    <3>2. CASE g = f
      <4>1. f \notin raced
        BY <1>0, <1>2, <3>2, QuietKeys
      <4> QED  BY <1>0, <1>2, <3>2, <4>1, QuietKeys DEF KeyAgreed
    <3> QED  BY <3>1, <3>2
  <2> QED  BY <2>3, <2>4
<1>3. ASSUME NEW e \in Entries, NEW t \in Timers, Removes(e, t)
      PROVE  KeyAgreed' /\ SavedAnswers'
  <2>1. UNCHANGED <<flow, timerKey, contested, outdated, raced>>
    BY <1>3 DEF Removes, RemoveDevice
  <2>2. NoDevice.gen = 0
    BY DEF NoDevice
  <2>3. \A d \in Entries : entry'[d].key = entry[d].key
    BY <1>3 DEF Removes
  <2>4. \A d \in Entries, s \in Timers : \/ entry'[d].devices[s] = NoDevice
                                         \/ entry'[d].devices[s] = entry[d].devices[s]
    BY <1>3 DEF Removes
  <2>5. SavedAnswers'
    <3> SUFFICES ASSUME NEW d \in Entries, NEW s \in Timers, HasDevice(d, s)',
                        s \notin contested \cup outdated
                 PROVE  timerKey[s] = device_network_key(d, s)'
      BY <2>1 DEF SavedAnswers
    <3>1. entry'[d].devices[s] = entry[d].devices[s]
      BY <2>2, <2>4 DEF HasDevice
    <3> QED  BY <1>0, <2>3, <3>1, NetworkKey DEF SavedAnswers
  <2>6. ASSUME NEW d \in Entries \cup {New}, entry_gen2_pairing_locked(d)'
        PROVE  d \in Entries /\ entry_gen2_pairing_locked(d)
    BY <2>2, <2>3, <2>4, <2>6 DEF entry_gen2_pairing_locked, entry_has_gen2_device
  <2>7. KeyAgreed'
    <3>1. \A g \in Flows : flow[g].of \in Entries \cup {New}
      BY <1>0 DEF Typed, TypeOK, Flow
    <3>2. ASSUME NEW g \in Flows \ raced, flow[g].step \in Working, flow[g].gen = 2,
                 entry_gen2_pairing_locked(flow[g].of)'
          PROVE  flow[g].key = entry'[flow[g].of].key
      <4>1. flow'[g].of = flow[g].of
        BY <2>1
      <4>2. entry_gen2_pairing_locked(flow[g].of) /\ flow[g].of \in Entries
        BY <2>1, <2>6, <3>1, <3>2
      <4> QED  BY <1>0, <2>3, <3>2, <4>2 DEF KeyAgreed
    <3> QED  BY <2>1, <3>2 DEF KeyAgreed
  <2> QED  BY <2>5, <2>7
<1>4. ASSUME NEW f \in Flows, NEW e \in Entries, NEW k \in Keys, Completes(f, e, k)
      PROVE  KeyAgreed' /\ SavedAnswers'
  <2> DEFINE a == flow[f].addr
  <2>0. a \in Timers /\ flow[f].gen \in {1, 2} /\ flow[f].step \in Working
    BY <1>0, <1>4, AnswersTyped DEF Completes, Answers, Working
  <2>1. /\ contested' = contested /\ timerKey' = timerKey
        /\ outdated \subseteq outdated' /\ raced \ {f} \subseteq raced'
        /\ timerKey[a] = flow[f].key
    BY <1>4 DEF Completes, Created, Joined, Answers
  <2>2. /\ \A d \in Entries \ {e} : entry'[d] = entry[d]
        /\ entry'[e].key = k
        /\ \A t \in Timers : entry'[e].devices[t] =
                               IF t = a THEN Meta(f) ELSE entry[e].devices[t]
    BY <1>4 DEF Completes
  <2>m. Meta(f).gen = flow[f].gen /\ Meta(f).key = flow[f].key
    BY DEF Meta
  \* The key of an entry that has a gen2 timer stays.
  <2>3. ASSUME NEW t \in Timers, entry[e].devices[t].gen = 2
        PROVE  k = entry[e].key
    <3>1. Exists(e) /\ entry[e].key # NoKey
      <4>1. NoEntry.devices[t].gen = 0
        BY DEF NoEntry, NoDevices, NoDevice
      <4>2. Exists(e)
        BY <1>0, <2>3, <4>1 DEF Typed, EntryFilled
      <4> QED  BY <1>0, <4>2 DEF Typed, EntryFilled, Keys, NoKey
    <3>2. Joined(f, e, k)
      BY <1>4, <3>1 DEF Completes, Created
    <3>3. entry_gen2_pairing_locked(e)
      BY <2>3, <3>1, <3>2 DEF entry_gen2_pairing_locked, entry_has_gen2_device, Joined
    <3> QED  BY <3>2, <3>3 DEF Joined
  \* The new timer: its dialog's key is the entry's, or it is marked as outdated.
  <2>4. ASSUME flow[f].gen = 2, a \notin outdated'
        PROVE  k = flow[f].key
    <3>1. CASE Created(f, e, k)
      BY <2>4, <3>1 DEF Created
    <3>2. CASE Joined(f, e, k) /\ entry_gen2_pairing_locked(e)
      <4>1. f \notin raced
        BY <2>4, <3>2 DEF Joined
      <4>2. flow[f].key = entry[flow[f].of].key
        BY <1>0, <2>0, <2>4, <3>2, <4>1 DEF KeyAgreed, Joined
      <4> QED  BY <3>2, <4>2 DEF Joined
    <3>3. CASE Joined(f, e, k) /\ ~entry_gen2_pairing_locked(e)
      BY <2>4, <3>3 DEF Joined
    <3> QED  BY <1>4, <3>1, <3>2, <3>3 DEF Completes
  <2>5. SavedAnswers'
    <3> SUFFICES ASSUME NEW d \in Entries, NEW t \in Timers, HasDevice(d, t)',
                        t \notin contested \cup outdated'
                 PROVE  timerKey[t] = device_network_key(d, t)'
      BY <2>1 DEF SavedAnswers
    <3>1. CASE d # e
      <4>1. entry'[d] = entry[d]
        BY <2>2, <3>1
      <4>2. HasDevice(d, t) /\ device_network_key(d, t)' = device_network_key(d, t)
        BY <4>1, NetworkKey
      <4> QED  BY <1>0, <2>1, <4>2 DEF SavedAnswers
    <3>2. CASE d = e /\ t = a
      <4>1. entry'[e].devices[t] = Meta(f)
        BY <2>2, <3>2
      <4> QED  BY <2>0, <2>1, <2>2, <2>m, <2>4, <3>2, <4>1 DEF device_network_key
    <3>3. CASE d = e /\ t # a
      <4>1. entry'[e].devices[t] = entry[e].devices[t]
        BY <2>2, <3>3
      <4>2. timerKey[t] = device_network_key(e, t)
        BY <1>0, <2>1, <3>3, <4>1 DEF SavedAnswers, HasDevice
      <4>3. CASE entry[e].devices[t].gen = 1
        BY <3>3, <4>1, <4>2, <4>3 DEF device_network_key
      <4>4. CASE entry[e].devices[t].gen = 2
        BY <2>2, <2>3, <3>3, <4>1, <4>2, <4>4, NetworkKey
      <4>5. entry[e].devices[t].gen \in {0, 1, 2}
        BY <1>0 DEF Typed, TypeOK, Device, NoDevice
      <4> QED  BY <3>3, <4>1, <4>3, <4>4, <4>5 DEF HasDevice
    <3> QED  BY <3>1, <3>2, <3>3
  <2>6. KeyAgreed'
    <3> SUFFICES ASSUME NEW g \in Flows \ raced', flow'[g].step \in Working, flow'[g].gen = 2,
                        entry_gen2_pairing_locked(flow[g].of)', flow'[g].of = flow[g].of
                 PROVE  flow'[g].key = entry'[flow[g].of].key
      <4>1. \A g \in Flows :
              flow'[g] = IF g = f THEN [NoFlow EXCEPT !.step = "closed"] ELSE flow[g]
        BY <1>0, <1>4 DEF Completes, Close, Typed, TypeOK
      <4>2. \A g \in Flows : flow'[g].step \in Working => flow'[g] = flow[g]
        BY <4>1 DEF NoFlow, Working
      <4> QED  BY <4>2 DEF KeyAgreed, entry_gen2_pairing_locked, entry_has_gen2_device
    <3>1. g # f /\ flow'[g] = flow[g] /\ g \notin raced
      <4>1. flow'[f].step = "closed" /\ \A h \in Flows \ {f} : flow'[h] = flow[h]
        BY <1>0, <1>4 DEF Completes, Close, NoFlow, Typed, TypeOK
      <4> QED  BY <2>1, <4>1 DEF Working
    <3> DEFINE d == flow[g].of
    <3>2. d \in Entries /\ d # New /\ Exists(d)
      <4>1. d \in Entries \cup {New}
        BY <1>0 DEF Typed, TypeOK, Flow
      <4>2. d # New
        BY DEF entry_gen2_pairing_locked
      <4> QED  BY <1>0, <4>1, <4>2 DEF Typed, Filled
    <3>3. CASE d # e
      <4>0. entry'[d] = entry[d] /\ entry_gen2_pairing_locked(d)'
        BY <2>2, <3>1, <3>2, <3>3
      <4>1. entry_gen2_pairing_locked(d)
        BY <3>1, <4>0 DEF entry_gen2_pairing_locked, entry_has_gen2_device
      <4> QED  BY <1>0, <2>2, <3>1, <3>2, <3>3, <4>1 DEF KeyAgreed
    <3>4. CASE d = e
      <4>1. Joined(f, e, k)
        BY <1>4, <3>2, <3>4 DEF Completes, Created
      <4>2. ~(flow[f].gen = 2 /\ ~entry_gen2_pairing_locked(e))
        BY <3>1, <3>4, <4>1 DEF Joined, OthersAtWork
      <4>3. k = entry[e].key
        BY <4>1, <4>2 DEF Joined
      <4>4. entry_gen2_pairing_locked(e)
        <5>1. CASE flow[f].gen = 2
          BY <4>2, <5>1
        <5>2. CASE flow[f].gen = 1
          BY <2>2, <2>m, <3>2, <3>4, <4>3, <5>2 DEF entry_gen2_pairing_locked,
             entry_has_gen2_device
        <5> QED  BY <2>0, <5>1, <5>2
      <4> QED  BY <1>0, <2>2, <3>1, <3>4, <4>3, <4>4 DEF KeyAgreed
    <3> QED  BY <3>3, <3>4
  <2> QED  BY <2>5, <2>6
<1> QED  BY <1>0, <1>1, <1>2, <1>3, <1>4, StepCases, QuietEntries DEF vars

\* Every saved timer answers to the key its coordinator will use, but for the two races
\* the property names.
THEOREM TimersAnswer == Spec => []SavedAnswers
<1>1. AnswerInv => SavedAnswers
  BY DEF AnswerInv
<1> QED  BY <1>1, AnswerInit, AnswerStep, PTL DEF Spec

-------------------------------------------------------------------------------
(* Coordinators.  From the moment a set-up begins they are those of the entry, unless   *)
(* it is updated.                                                                        *)

HubInv ==
  /\ Typed
  /\ \A e \in Entries \ missed :
       life[e] = "setup" \/ (life[e] = "loaded" /\ reloads[e] = 0) => hub[e] = HubOf(e)

LEMMA HubKept ==
  ASSUME NEW e \in Entries, entry'[e] = entry[e]
  PROVE  HubOf(e)' = HubOf(e)
BY DEF HubOf, HasDevice, device_network_key

\* An updated entry is reloaded, or was caught in its set-up.
LEMMA HubUpdated ==
  ASSUME HubInv, NEW e \in Entries, Updated(e), \A d \in Entries \ {e} : entry'[d] = entry[d]
  PROVE  \A d \in Entries \ missed' :
           (life[d] = "setup" \/ (life[d] = "loaded" /\ reloads[d] = 0) => hub[d] = HubOf(d))'
<1> SUFFICES ASSUME NEW d \in Entries \ missed',
                    life'[d] = "setup" \/ (life'[d] = "loaded" /\ reloads'[d] = 0)
             PROVE  hub'[d] = HubOf(d)'
  OBVIOUS
<1>1. life' = life /\ hub' = hub /\ missed \subseteq missed'
  BY DEF Updated
<1>2. d # e
  BY DEF HubInv, Typed, TypeOK, Updated
<1>3. reloads'[d] = reloads[d]
  BY <1>2 DEF HubInv, Typed, TypeOK, Updated
<1>4. hub[d] = HubOf(d)
  BY <1>1, <1>3 DEF HubInv
<1> QED  BY <1>1, <1>2, <1>4, HubKept

LEMMA HubStep == HubInv /\ [Next]_vars => HubInv'
<1> DEFINE Goal == \A d \in Entries \ missed' :
           (life[d] = "setup" \/ (life[d] = "loaded" /\ reloads[d] = 0) => hub[d] = HubOf(d))'
<1> SUFFICES ASSUME HubInv, [Next]_vars PROVE Goal
  BY TypedStep DEF HubInv
<1> USE DEF dataVars, setupVars
<1>0. Typed
  BY DEF HubInv
<1>1. CASE UNCHANGED <<entry, setupVars>>
  BY <1>1, HubKept DEF HubInv
<1>2. ASSUME NEW e \in Entries, SetupBegins(e) \/ SetupDone(e) \/ SetupFails(e) \/ ReloadBegins(e)
      PROVE  Goal
  <2> SUFFICES ASSUME NEW d \in Entries \ missed',
                      life'[d] = "setup" \/ (life'[d] = "loaded" /\ reloads'[d] = 0)
               PROVE  hub'[d] = HubOf(d)'
    OBVIOUS
  <2>1. HubOf(d)' = HubOf(d)
    BY <1>2, HubKept DEF SetupBegins, SetupDone, SetupFails, ReloadBegins
  <2>2. CASE d # e
    <3>1. /\ life'[d] = life[d] /\ hub'[d] = hub[d] /\ reloads'[d] = reloads[d]
          /\ d \notin missed
      BY <1>0, <1>2, <2>2 DEF SetupBegins, SetupDone, SetupFails, ReloadBegins, Typed, TypeOK
    <3> QED  BY <2>1, <3>1 DEF HubInv
  <2>3. CASE d = e /\ SetupBegins(e)
    BY <1>0, <2>1, <2>3 DEF SetupBegins, Typed, TypeOK
  <2>4. CASE d = e /\ SetupDone(e)
    BY <1>0, <2>1, <2>4 DEF SetupDone, HubInv
  <2>5. CASE d = e /\ (SetupFails(e) \/ ReloadBegins(e))
    BY <1>0, <2>5 DEF SetupFails, ReloadBegins, Typed, TypeOK
  <2> QED  BY <1>2, <2>2, <2>3, <2>4, <2>5
<1>3. ASSUME NEW e \in Entries, ChangeOptions(e) PROVE Goal
  BY <1>3, HubUpdated DEF ChangeOptions
<1>4. ASSUME NEW e \in Entries, NEW t \in Timers, Removes(e, t) PROVE Goal
  BY <1>4, HubUpdated DEF Removes, RemoveDevice
<1>5. ASSUME NEW f \in Flows, NEW e \in Entries, NEW k \in Keys, Completes(f, e, k) PROVE Goal
  <2>1. CASE Joined(f, e, k)
    BY <1>5, <2>1, HubUpdated DEF Completes, Joined
  <2>2. CASE Created(f, e, k)
    <3> SUFFICES ASSUME NEW d \in Entries \ missed',
                        life'[d] = "setup" \/ (life'[d] = "loaded" /\ reloads'[d] = 0)
                 PROVE  hub'[d] = HubOf(d)'
      OBVIOUS
    <3>1. d # e /\ life'[d] = life[d]
      BY <1>0, <2>2 DEF Created, Typed, TypeOK
    <3>2. UNCHANGED <<hub, reloads, missed>> /\ entry'[d] = entry[d]
      BY <1>5, <2>2, <3>1 DEF Completes, Created
    <3> QED  BY <3>1, <3>2, HubKept DEF HubInv
  <2> QED  BY <1>5, <2>1, <2>2 DEF Completes
<1> HIDE DEF Goal
<1> QED  BY <1>0, <1>1, <1>2, <1>3, <1>4, <1>5, StepCases, QuietEntries DEF vars

\* A loaded entry has the coordinators of its timers, with their keys, unless it was
\* updated in the middle of its set-up, when no listener is registered.
THEOREM HubFollows == Spec => []HubFollowsEntry
<1>1. Init => HubInv
  BY TypedInit DEF Init, HubInv
<1>2. HubInv => HubFollowsEntry
  BY DEF HubInv, HubFollowsEntry
<1> QED  BY <1>1, <1>2, HubStep, PTL DEF Spec
===============================================================================
