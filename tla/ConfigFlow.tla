------------------------------ MODULE ConfigFlow ------------------------------
(***************************************************************************)
(* Adding timers: the configuration and options flows of config_flow.py,   *)
(* the provisioning and verification they run (ble.py, onboarding.py), the *)
(* entries they write (entry_data.py, device_credentials.py), and the      *)
(* set-up and reload of an entry that its updates cause (__init__.py,      *)
(* hub.py).  Flows interleave with each other, with the removal of timers  *)
(* and with reloads; the code checks at one step what it writes at another.*)
(***************************************************************************)
EXTENDS Naturals, FiniteSets

CONSTANTS Flows,       \* dialogs users open
          Timers,      \* timers in reach, by address
          NoTimer,     \* none of them: no timer is picked yet
          Entries,     \* entries of the integration: bounds how many there are
          MaxKeys,     \* bound: network keys typed or drawn
          MaxEdits     \* bound: timers removed from an entry and options saved

ASSUME TimersAssumption == NoTimer \notin Timers
ASSUME EntriesAssumption == Entries \subseteq Nat \ {0}
ASSUME BoundsAssumption == MaxKeys \in Nat \ {0, 1} /\ MaxEdits \in Nat

NoKey == 0
Keys == 1 .. MaxKeys
New == 0         \* the flow creates an entry; otherwise it is the options flow of one

VARIABLES
  genOf,      \* the timers: their generation
  timerKey,   \* the timers: the network key written to network_char last
  entry,      \* config entries: uid, key and devices; uid is NoKey before creation
  life,       \* of each entry: absent, waiting (to be set up), setup, loaded
  hub,        \* its coordinators: the key each was built with, or NoKey
  reloads,    \* reload tasks of its update listener yet to run
  flow,       \* the dialogs
  drawn,      \* keys 1 .. drawn have been seen, a user may type any of them
  edits,      \* timers removed and options saved so far
  raced,      \* history: flows whose entry was given a key while they were at work
  outdated,   \* history: timers saved by such a flow
  contested,  \* history: timers two flows had in hand at once
  missed      \* history: entries updated while set up, when no listener is registered

dataVars == <<entry, drawn>>
setupVars == <<life, hub, reloads, missed>>
histVars == <<raced, outdated, contested>>
vars == <<genOf, timerKey, dataVars, setupVars, flow, edits, histVars>>

\* Metadata of a saved timer; of a gen2 timer key is history, the key it was verified with.
Device == [gen : {1, 2}, key : Keys]
NoDevice == [gen |-> 0, key |-> NoKey]
NoDevices == [t \in Timers |-> NoDevice]
NoEntry == [uid |-> NoKey, key |-> NoKey, devices |-> NoDevices]
NoHub == [t \in Timers |-> NoKey]

\* picking, generation and credentials are forms; connecting and handshake are
\* async_provision_with_network_key before and after it wrote network_char.
Steps == {"unopened", "picking", "generation", "credentials", "connecting", "handshake",
          "verifying", "closed"}
NoFlow == [of |-> New, step |-> "unopened", addr |-> NoTimer, gen |-> 0, key |-> NoKey]
Flow == [of : Entries \cup {New}, step : Steps, addr : Timers \cup {NoTimer},
         gen : {0, 1, 2}, key : Keys \cup {NoKey}]

TypeOK ==
  /\ genOf \in [Timers -> {1, 2}]
  /\ timerKey \in [Timers -> Keys \cup {NoKey}]
  /\ entry \in [Entries -> [uid : Keys \cup {NoKey}, key : Keys \cup {NoKey},
                            devices : [Timers -> Device \cup {NoDevice}]]]
  /\ life \in [Entries -> {"absent", "waiting", "setup", "loaded"}]
  /\ hub \in [Entries -> [Timers -> Keys \cup {NoKey}]]
  /\ reloads \in [Entries -> Nat]
  /\ flow \in [Flows -> Flow]
  /\ drawn \in 0 .. MaxKeys
  /\ edits \in 0 .. MaxEdits
  /\ raced \subseteq Flows /\ outdated \subseteq Timers /\ contested \subseteq Timers
  /\ missed \subseteq Entries

-------------------------------------------------------------------------------
(* Entry data                                                               *)

Exists(e) == life[e] # "absent"
HasDevice(e, t) == entry[e].devices[t].gen # 0

\* _configured_device_addresses
configured_device_addresses == {t \in Timers : \E e \in Entries : HasDevice(e, t)}

entry_has_gen2_device(e) == \E t \in Timers : entry[e].devices[t].gen = 2

\* entry_gen2_pairing_locked; a flow that creates an entry has no data yet.
entry_gen2_pairing_locked(e) ==
  e # New /\ entry_has_gen2_device(e) /\ entry[e].key # NoKey

\* device_network_key: gen1 timers have a key each, gen2 timers share the entry's.
device_network_key(e, t) ==
  IF entry[e].devices[t].gen = 1 THEN entry[e].devices[t].key ELSE entry[e].key

\* secrets.token_bytes(16): a key nobody has seen.
Fresh == drawn + 1

-------------------------------------------------------------------------------
(* Set-up of an entry                                                       *)

\* BhyveBleHub.async_setup: one coordinator for each timer, with its key of this moment.
HubOf(e) == [t \in Timers |-> IF HasDevice(e, t) THEN device_network_key(e, t) ELSE NoKey]

\* async_setup_entry up to the first refreshes, which are BLE sessions.
SetupBegins(e) ==
  /\ life[e] = "waiting"
  /\ life' = [life EXCEPT ![e] = "setup"]
  /\ hub' = [hub EXCEPT ![e] = HubOf(e)]
  /\ missed' = missed \ {e}
  /\ UNCHANGED <<genOf, timerKey, dataVars, reloads, flow, edits, histVars>>

\* The timers answered: the platforms are set up and the update listener registered.
SetupDone(e) ==
  /\ life[e] = "setup"
  /\ life' = [life EXCEPT ![e] = "loaded"]
  /\ UNCHANGED <<genOf, timerKey, dataVars, hub, reloads, missed, flow, edits, histVars>>

\* A first refresh failed: Home Assistant tries again later, from the start.
SetupFails(e) ==
  /\ life[e] = "setup"
  /\ life' = [life EXCEPT ![e] = "waiting"]
  /\ hub' = [hub EXCEPT ![e] = NoHub]
  /\ UNCHANGED <<genOf, timerKey, dataVars, reloads, missed, flow, edits, histVars>>

\* Mutant: only a first device makes the entry reload.
UpdatedFirstOnly(e) ==
  /\ reloads' = IF life[e] = "loaded" /\ hub[e] = NoHub
                  THEN [reloads EXCEPT ![e] = @ + 1] ELSE reloads
  /\ missed' = IF life[e] = "setup" THEN missed \cup {e} ELSE missed
  /\ UNCHANGED <<life, hub>>

\* async_update_entry calls the update listener, which exists only while e is loaded.
Updated(e) ==
  /\ reloads' = IF life[e] = "loaded" THEN [reloads EXCEPT ![e] = @ + 1] ELSE reloads
  /\ missed' = IF life[e] = "setup" THEN missed \cup {e} ELSE missed
  /\ UNCHANGED <<life, hub>>

\* async_reload, behind the set-up lock of the entry: async_unload_entry, then set-up.
ReloadBegins(e) ==
  /\ reloads[e] > 0
  /\ life[e] # "setup"
  /\ reloads' = [reloads EXCEPT ![e] = @ - 1]
  /\ life' = [life EXCEPT ![e] = "waiting"]
  /\ hub' = [hub EXCEPT ![e] = NoHub]
  /\ UNCHANGED <<genOf, timerKey, dataVars, missed, flow, edits, histVars>>

\* async_remove_config_entry_device
RemoveDevice(e, t) ==
  /\ HasDevice(e, t)
  /\ edits < MaxEdits
  /\ edits' = edits + 1
  /\ entry' = [entry EXCEPT ![e].devices[t] = NoDevice]
  /\ Updated(e)
  /\ UNCHANGED <<genOf, timerKey, drawn, flow, histVars>>

\* The poll interval or default run time is set: saved options reload the entry too.
ChangeOptions(e) ==
  /\ Exists(e)
  /\ edits < MaxEdits
  /\ edits' = edits + 1
  /\ Updated(e)
  /\ UNCHANGED <<genOf, timerKey, dataVars, flow, histVars>>

-------------------------------------------------------------------------------
(* The dialogs                                                              *)

Working == {"connecting", "handshake", "verifying"}   \* between submission and result
InHand(f, t) == flow[f].addr = t /\ flow[f].step \notin {"unopened", "closed"}

Goto(f, step) == flow' = [flow EXCEPT ![f].step = step]

\* The dialog and its context are gone.
Close(f) == flow' = [flow EXCEPT ![f] = [NoFlow EXCEPT !.step = "closed"]]

\* async_step_user of a new flow, or add_device in the options menu of an entry.
OpenFlow(f, of) ==
  /\ flow[f].step = "unopened"
  /\ IF of = New
       THEN Cardinality({e \in Entries : ~Exists(e)})
              > Cardinality({g \in Flows : flow[g].of = New /\ flow[g].step \notin
                                             {"unopened", "closed"}})
       ELSE Exists(of)
  /\ flow' = [flow EXCEPT ![f].of = of, ![f].step = "picking"]
  /\ UNCHANGED <<genOf, timerKey, dataVars, setupVars, edits, histVars>>

\* Mutant: an options flow looks at the devices of its own entry only.
PickAddressOwnEntry(f, t) ==
  /\ flow[f].step = "picking"
  /\ flow[f].of # New => ~HasDevice(flow[f].of, t)
  /\ flow' = [flow EXCEPT ![f].addr = t, ![f].step = "generation"]
  /\ contested' = IF \E g \in Flows \ {f} : InHand(g, t) THEN contested \cup {t} ELSE contested
  /\ UNCHANGED <<genOf, timerKey, dataVars, setupVars, edits, raced, outdated>>

\* A timer is picked that no entry has; with any other the form is shown again.
PickAddress(f, t) ==
  /\ flow[f].step = "picking"
  /\ t \notin configured_device_addresses
  /\ flow' = [flow EXCEPT ![f].addr = t, ![f].step = "generation"]
  /\ contested' = IF \E g \in Flows \ {f} : InHand(g, t) THEN contested \cup {t} ELSE contested
  /\ UNCHANGED <<genOf, timerKey, dataVars, setupVars, edits, raced, outdated>>

\* async_step_device_generation, where the user may be wrong.
ChooseGeneration(f, gen) ==
  /\ flow[f].step = "generation"
  /\ flow' = [flow EXCEPT ![f].gen = gen, ![f].step = "credentials"]
  /\ UNCHANGED <<genOf, timerKey, dataVars, setupVars, edits, histVars>>

\* The key of a submission is the one typed or a fresh one; pairing writes it to the
\* timer first, without pairing the timer only has to answer to it.
Submit(f, typed, run_pairing) ==
  /\ typed = NoKey => drawn < MaxKeys
  /\ drawn' = IF typed = NoKey THEN Fresh ELSE drawn
  /\ flow' = [flow EXCEPT ![f].key = IF typed = NoKey THEN Fresh ELSE typed,
                          ![f].step = IF run_pairing THEN "connecting" ELSE "verifying"]
  /\ UNCHANGED <<genOf, timerKey, entry, setupVars, edits, histVars>>

\* Mutant: the key field is read even when the entry has its key.
SubmitGen2Typed(f, typed, run_pairing) ==
  /\ flow[f].step = "credentials"
  /\ flow[f].gen = 2
  /\ Submit(f, typed, run_pairing)

\* parse_gen2_credentials_submission: an entry with a gen2 timer imposes its key and
\* pairing, otherwise the user decides.
SubmitGen2(f, typed, run_pairing) ==
  /\ flow[f].step = "credentials"
  /\ flow[f].gen = 2
  /\ IF entry_gen2_pairing_locked(flow[f].of)
       THEN Submit(f, entry[flow[f].of].key, TRUE)
       ELSE Submit(f, typed, run_pairing)

\* parse_gen1_credentials_submission: a key without a device id, or no pairing without
\* both, is refused.
SubmitGen1(f, typed, has_id, run_pairing) ==
  /\ flow[f].step = "credentials"
  /\ flow[f].gen = 1
  /\ typed # NoKey => has_id
  /\ ~run_pairing => typed # NoKey /\ has_id
  /\ Submit(f, typed, run_pairing)

\* The dialog is closed on one of its forms.
Abandon(f) ==
  /\ flow[f].step \in {"picking", "generation", "credentials"}
  /\ Close(f)
  /\ UNCHANGED <<genOf, timerKey, dataVars, setupVars, edits, histVars>>

\* A form takes a timer's key: all the credentials a user can come up with.
SubmitForm(f) ==
  \E typed \in 0 .. drawn : \E has_id, run_pairing \in BOOLEAN :
    SubmitGen2(f, typed, run_pairing) \/ SubmitGen1(f, typed, has_id, run_pairing)

-------------------------------------------------------------------------------
(* Provisioning and verification                                            *)

\* async_provision_with_network_key: the connection is up and network_char is written,
\* the timer has the key of this flow from here on.
WriteNetworkChar(f) ==
  /\ flow[f].step = "connecting"
  /\ timerKey' = [timerKey EXCEPT ![flow[f].addr] = flow[f].key]
  /\ Goto(f, "handshake")
  /\ UNCHANGED <<genOf, dataVars, setupVars, edits, histVars>>

HandshakeDone(f) ==
  /\ flow[f].step = "handshake"
  /\ Goto(f, "verifying")
  /\ UNCHANGED <<genOf, timerKey, dataVars, setupVars, edits, histVars>>

\* Connecting, writing, the handshake or the verification fails or times out: the error
\* is shown on the credentials form, whose submission brings a key again.  A key that was
\* written stays in the timer.
SetupError(f) ==
  /\ flow[f].step \in Working
  /\ flow' = [flow EXCEPT ![f].step = "credentials", ![f].key = NoKey]
  /\ raced' = raced \ {f}
  /\ UNCHANGED <<genOf, timerKey, dataVars, setupVars, edits, outdated, contested>>

\* The verifying session: a timer answers under the key it has, in its generation.
Answers(f) ==
  /\ flow[f].step = "verifying"
  /\ timerKey[flow[f].addr] = flow[f].key
  /\ genOf[flow[f].addr] = flow[f].gen

\* Mutant: a timer is saved without the key it was verified with.
MetaKeyless(f) == [gen |-> flow[f].gen, key |-> NoKey]

Meta(f) == [gen |-> flow[f].gen, key |-> flow[f].key]

-------------------------------------------------------------------------------
(* What a flow writes when its timer has answered                           *)

\* async_create_entry with the timer as its only device; the key's hash is its unique id.
\* Entries are numbered in the order they are created.
CreateEntry(f, key) ==
  \E e \in Entries :
    /\ ~Exists(e) /\ \A d \in Entries : ~Exists(d) => e <= d
    /\ entry' = [entry EXCEPT ![e] = [uid |-> key, key |-> key,
                                      devices |-> [NoDevices EXCEPT ![flow[f].addr] = Meta(f)]]]
    /\ life' = [life EXCEPT ![e] = "waiting"]
    /\ Close(f)
    /\ UNCHANGED <<genOf, timerKey, hub, reloads, missed, edits, histVars>>

\* A new entry gets the key of its gen2 timer ...
CompleteNewGen2(f) ==
  /\ Answers(f)
  /\ flow[f].of = New /\ flow[f].gen = 2
  /\ \A e \in Entries : entry[e].uid # flow[f].key
  /\ CreateEntry(f, flow[f].key)
  /\ UNCHANGED drawn

\* ... unless an entry was created with that key: the flow aborts, the timer keeps the key.
AbortNewGen2(f) ==
  /\ Answers(f)
  /\ flow[f].of = New /\ flow[f].gen = 2
  /\ \E e \in Entries : entry[e].uid = flow[f].key
  /\ Close(f)
  /\ UNCHANGED <<genOf, timerKey, dataVars, setupVars, edits, histVars>>

\* A new entry for a gen1 timer gets a key of its own.
CompleteNewGen1(f) ==
  /\ Answers(f)
  /\ flow[f].of = New /\ flow[f].gen = 1
  /\ drawn < MaxKeys
  /\ drawn' = Fresh
  /\ CreateEntry(f, Fresh)

\* Other flows of the entry that are at work: a key stored now they do not know of.
OthersAtWork(f) ==
  {g \in Flows \ {f} : flow[g].of = flow[f].of /\ flow[g].step \in Working}

\* Mutant: the key of the flow is stored in any case.
CompleteOptionGen2Overwrites(f) ==
  LET e == flow[f].of
  IN  /\ Answers(f)
      /\ e # New /\ flow[f].gen = 2
      /\ entry' = [entry EXCEPT ![e].devices[flow[f].addr] = Meta(f), ![e].key = flow[f].key]
      /\ Updated(e)
      /\ Close(f)
      /\ UNCHANGED <<genOf, timerKey, drawn, edits, histVars>>

\* The gen2 timer joins the devices the entry has now; the flow's key is stored unless
\* the entry is locked to one now, whatever it was when the form was submitted.
CompleteOptionGen2(f) ==
  LET e == flow[f].of
      locked == entry_gen2_pairing_locked(e)
  IN  /\ Answers(f)
      /\ e # New /\ flow[f].gen = 2
      /\ entry' = [entry EXCEPT ![e].devices[flow[f].addr] = Meta(f),
                                ![e].key = IF locked THEN @ ELSE flow[f].key]
      /\ Updated(e)
      /\ raced' = (IF locked THEN raced ELSE raced \cup OthersAtWork(f)) \ {f}
      /\ outdated' = IF f \in raced THEN outdated \cup {flow[f].addr} ELSE outdated
      /\ Close(f)
      /\ UNCHANGED <<genOf, timerKey, drawn, edits, contested>>

\* Mutant: the devices are replaced by the new one.
CompleteOptionGen1Alone(f) ==
  LET e == flow[f].of
  IN  /\ Answers(f)
      /\ e # New /\ flow[f].gen = 1
      /\ entry' = [entry EXCEPT ![e].devices = [NoDevices EXCEPT ![flow[f].addr] = Meta(f)]]
      /\ Updated(e)
      /\ Close(f)
      /\ UNCHANGED <<genOf, timerKey, drawn, edits, histVars>>

\* The gen1 timer joins them with its key.
CompleteOptionGen1(f) ==
  LET e == flow[f].of
  IN  /\ Answers(f)
      /\ e # New /\ flow[f].gen = 1
      /\ entry' = [entry EXCEPT ![e].devices[flow[f].addr] = Meta(f)]
      /\ Updated(e)
      /\ raced' = raced \ {f}
      /\ Close(f)
      /\ UNCHANGED <<genOf, timerKey, drawn, edits, outdated, contested>>

Complete(f) == CompleteNewGen2(f) \/ AbortNewGen2(f) \/ CompleteNewGen1(f)
               \/ CompleteOptionGen2(f) \/ CompleteOptionGen1(f)

-------------------------------------------------------------------------------
(* An installation with at most one entry, as an earlier flow left it: empty, or with  *)
(* one timer of either generation.                                                     *)

Init ==
  /\ genOf \in [Timers -> {1, 2}]
  /\ \/ /\ entry = [e \in Entries |-> NoEntry]
        /\ timerKey = [t \in Timers |-> NoKey]
        /\ life = [e \in Entries |-> "absent"]
     \/ \E one \in Entries, t \in Timers, some \in BOOLEAN :
          /\ \A e \in Entries : one <= e
          /\ LET key == IF genOf[t] = 1 THEN 2 ELSE 1
             IN  /\ entry = [e \in Entries |->
                      IF e # one THEN NoEntry
                      ELSE [uid |-> 1, key |-> 1,
                            devices |-> IF some THEN [NoDevices EXCEPT ![t] =
                                                        [gen |-> genOf[t], key |-> key]]
                                        ELSE NoDevices]]
                 /\ timerKey = [s \in Timers |-> IF s = t THEN key ELSE NoKey]
          /\ life = [e \in Entries |-> IF e = one THEN "waiting" ELSE "absent"]
  /\ hub = [e \in Entries |-> NoHub]
  /\ reloads = [e \in Entries |-> 0]
  /\ flow = [f \in Flows |-> NoFlow]
  /\ drawn = 2
  /\ edits = 0
  /\ raced = {} /\ outdated = {} /\ contested = {} /\ missed = {}

FlowNext(f) ==
  \/ \E of \in Entries \cup {New} : OpenFlow(f, of)
  \/ \E t \in Timers : PickAddress(f, t)
  \/ \E gen \in {1, 2} : ChooseGeneration(f, gen)
  \/ SubmitForm(f) \/ Abandon(f)
  \/ WriteNetworkChar(f) \/ HandshakeDone(f) \/ SetupError(f) \/ Complete(f)

EntryNext(e) ==
  \/ SetupBegins(e) \/ SetupDone(e) \/ SetupFails(e) \/ ReloadBegins(e) \/ ChangeOptions(e)
  \/ \E t \in Timers : RemoveDevice(e, t)

Next == (\E f \in Flows : FlowNext(f)) \/ (\E e \in Entries : EntryNext(e))

Spec == Init /\ [][Next]_vars

-------------------------------------------------------------------------------
(* Properties                                                               *)

\* An entry whose gen2 timers are bound to its key keeps that key: no flow, with
\* whatever key and however long ago it was submitted, replaces it under them.
SharedKeyStable ==
  [][\A e \in Entries :
       entry_gen2_pairing_locked(e) /\ entry_gen2_pairing_locked(e)'
         => entry'[e].key = entry[e].key]_vars

\* A saved timer disappears or changes only by its removal, or by a flow that had picked
\* it before it was saved: flows and removals that overlap lose nothing of each other.
NoDeviceLost ==
  [][\A e \in Entries, t \in Timers :
       HasDevice(e, t) /\ entry'[e].devices[t] # entry[e].devices[t]
         => edits' # edits \/ t \in contested]_vars

\* A timer is in two entries only if two flows had it in hand at once: the address is
\* checked when it is picked and not when it is saved.
OneEntryPerTimer ==
  \A d, e \in Entries, t \in Timers :
    d # e /\ HasDevice(d, t) /\ HasDevice(e, t) => t \in contested

\* Every saved timer answers to the key its coordinator will use, unless two flows had it
\* in hand at once, or its entry got a key while the flow was at work.
SavedAnswers ==
  \A e \in Entries, t \in Timers :
    HasDevice(e, t) /\ t \notin contested \cup outdated
      => timerKey[t] = device_network_key(e, t)

\* A loaded entry has a coordinator for each of its timers, with the key of that timer,
\* and for no other, unless it was updated in the middle of its set-up.
HubFollowsEntry ==
  \A e \in Entries :
    life[e] = "loaded" /\ reloads[e] = 0 /\ e \notin missed => hub[e] = HubOf(e)

\* "Gen2 timers share the integration entry network_key_b64": each was verified with it.
\* (Timers that two flows had in hand are left out, they have a hazard of their own.)
Gen2SharesKey ==
  \A e \in Entries, t \in Timers \ contested :
    entry[e].devices[t].gen = 2 => entry[e].devices[t].key = entry[e].key
===============================================================================
