# Verification of the B-hyve BLE integration

The repository is a Home Assistant custom component that waters a garden through
Orbit B-hyve hose timers over Bluetooth LE. Nothing in it runs in parallel, but
nearly everything interleaves at an `await`: the event loop switches between a
session script, its ACK tasks, notification callbacks, polls, switches, timers of
Home Assistant and reloads of the entry, while the BLE link loses frames and
drops. The timer takes one BLE connection at a time and every session is made for
one operation. This directory holds TLA+ models of that machinery, TLC
configurations that check them and TLAPS proofs of the properties every session
rests on. Paths below are relative to `src/custom_components/bhyve_ble/`.

## Inventory

| Component | State it keeps | Operations | Talks to | What is hard |
|---|---|---|---|---|
| link cryptography: `pybhyve/link_crypto.py`, `aes_handshake.py` | `enc_ctr`, `dec_ctr` | derive counters, encrypt, decrypt with resync | transport | wrap at 2^32 - 1, resync window, 16-bit checksum |
| transport: `transport.py` | `_client`, `_keys`, `_write_lock`, `_notify_tasks` | connect, handshake with retries, subscribe, send, notify, disconnect | BLE stack; gen1 and gen2 runtimes | concurrent senders, failed writes, disconnect under a queue |
| gen1 session: `pybhyve/gen1_session.py` | `_next_cmd`, `_pending_req`, `_pending_fut`, `_status`, `_assigned_device_id`, `_last_notify_at`, ACK lock | send and wait, allocate command bytes, dispatch a notify, ACK, drain | transport, gen1 operations | answers that are lost, late or early; one byte used several times |
| gen1 operations: `pybhyve/gen1_ops.py`, `gen1_codec.py`, `gen1_runtime.py` | none between sessions | status, start, stop, onboard | gen1 session, coordinator | which command cancels what, when a snapshot is fresh |
| gen2 runtime: `gen2_runtime.py`, `pybhyve/gen2_ops.py` | `last_message` of the session | status, start, stop | transport, coordinator | a session that hears nothing |
| gen2 codec: `pybhyve/gen2_codec.py`, `hose_timer_ble.proto` | none | decode, merge, station state | gen2 runtime, entities | partial messages, stale fields |
| coordinator: `coordinator.py` | `_session_lock`, `_last_message`, `_gen1_snapshot`, `_defer_refresh_unsubs` | poll, start, stop, deferred refresh, shutdown | runtimes, Home Assistant, entities | operations queue; runs, stops and polls interleave |
| entry and hub: `__init__.py`, `hub.py` | entry data, one coordinator per timer | set up, unload, reload, remove a timer, migrate | Home Assistant, coordinator | work of the old coordinator outlives a reload; an update during set-up |
| entities: `switch.py`, `sensor.py`, `number.py`, `button.py` | run time of a number entity | turn on, turn off, refresh, show | coordinator | two derivations of one fact |
| provisioning: `ble.py`, `onboarding.py` | none | write `network_char`, verify | transport, gen1 operations | a timer left with a key nobody stores |
| configuration flows: `config_flow.py`, `entry_data.py`, `device_credentials.py` | the dialog's context, entry data | pick a timer, take credentials, provision, save; options | provisioning, entry | two flows of one entry, check then act |
| lab client: `pybhyve/cli/main.py` | counters in a dict, profile | pair, start, stop, status, connect | BLE stack, gen1 session | sends without a lock |
| profiles, models, display strings, tracing | tables | lookup, formatting | all | nothing that changes state |

What makes each correct, in a phrase. Link and transport: no keystream block used
twice, frames in counter order, callbacks in order and each once, the lock and the
connection always given back. gen1 session: every wait ended by its own answer,
command bytes never reused and never exhausted, ACKs in order. gen1 operations:
status never disturbs a run, stop survives loss, a snapshot is of the timer as the
operation left it. gen2 codec: the newest report wins, switch and sensor agree.
Coordinator: every confirmed run has a poll after its end, what is shown settles
on the truth. Flows and entry: no saved timer is lost, the shared key never changes
under gen2 timers, every saved timer answers to the key its coordinator uses, and
the coordinators are those of the data. Lab client: no counter used twice, and pair
prints what the timer has. `PROJECT.json` lists the hazards one by one, at
the line where each bites, with the properties that cover it, or with a note that
says that the code allows it and which property excepts it.

## Modules

    NotifyStream            what a notification channel promises
        ^ implemented by
    LinkCrypto  <-  BleTransport            (BleTransportProofs)

    TimerSession            what a session promises to its coordinator
        ^ implemented by
    Gen1Ops     <-  Gen1Session             (Gen1OpsProofs, Gen1SessionProofs,
            ^                                Gen1AnswerProofs)
            ^-----  LabClient               (LabClientProofs)

    Gen2Codec   <-  Gen2Merge               (Gen2MergeProofs)
    Coordinator                             (CoordinatorProofs)
    ConfigFlow                              (ConfigFlowProofs)
    MC...                   instances for TLC: sets a .cfg cannot write

An arrow is EXTENDS. The levels meet through what a lower one guarantees.
`Gen1Session` takes from `BleTransport` that a write reaches the timer or fails and
that notifications come in order or not at all; `Coordinator` takes from the
sessions that they end (`AlwaysClosed`, `SessionEnds`), that only their own command
moves the valve and that what they report is never older than what they reported
before (`TimerSession`); `ConfigFlow` takes a verification to succeed only with a
timer that has the key, and a reload to be what `Coordinator` makes of it.

**LinkCrypto** abstracts a payload to the number of 16-byte keystream blocks it
takes and a keystream block to its counter. `perform_crypto` is the counter after
n blocks, with the code's wrap at `_CTR_MOD` = 2^32 - 1 and the one starting value,
0xFFFFFFFF, that no increment returns to. `ResyncSkips` and `IsFirstSkip` are
the search of `parse_data_frame_resync`; a checksum that matches at a wrong counter is a
member of a frame's `collide`.

**BleTransport** is one `BhyveBleTransport` from creation to the end of
`async_disconnect`. `conn` is where the owner's connect and disconnect stand,
`lock`, `waiters` and `pc` are the asyncio lock (free, not contended: no await,
`SendNow`; otherwise first come, first served, `SendQueued` and `LockGranted`, where
the connection is not checked again). `Encrypt` advances `enc_ctr` before the
write is awaited, as the code does. A write that raises may have arrived
(`WriteFailed`). `OnNotifyAccepted`/`OnNotifyRejected` are `_on_notify`;
`RunNotifyTask` runs the task it creates. The timer counts on its own: before every
frame (`TimerNotify`) its counter may have got ahead, since "missed frames, 0x00
per-write acks, or prior sessions" (`link_crypto.py:24-25`) all leave it past the
session's, with or without a notification that was lost.

**Gen1Ops** holds the scripts: for every operation the command bytes it sends in
order, fixed, allocated or repeated, and which are polls, clears, commits, starts
or stops. **Gen1Session** runs one: `BeginStep` sets up the future and starts the
write, `WriteReturns`/`WriteFails` end it, `Answered`/`TimesOut` end the wait,
`DrainQuiet`/`PauseOver` the commit drain and the pauses; `OnNotify` is
`on_notify_plaintext` whole. The timer at the other end obeys or ignores commands,
answers them, and emits notifies with bytes of its own. It obeys only what is said under
the prefix of `network_char` (`Prefixed`, `link_crypto.py:230-233`): a session is opened
under that id, and onboarding goes over to another if the timer registers one. Time is the age of the
last notify relative to `quiet_sec`, which is all the drain looks at.

**Coordinator** is the coordinator of one timer, and a second one after a reload.
A session is four steps (open, command arrives, report, end or fail), which is
where other work can come between. Its end, `EndSession`, is one action: from the
release of the lock to the scheduling of the refreshes the code awaits nothing
that lets a waiter run. The timer waters while `now < runEnd`.

**Gen2Codec** translates the merge and the port-state functions on messages cut
down to what they read: top-level `wateringStatus`, and device status, nested
`wateringStatus`, summary and manual mode of `deviceStatusInfo`. Absence is kept
(`Unset`, `NoStation`, empty lists that protobuf omits), since the functions branch
on it. **Gen2Merge** lets any notify arrive in any order, in any number of sessions.

**TimerSession** is the abstract specification of a session: a session of a start
or stop may set the valve, only a start opens it, each record heard is of a moment
between the one seen last and now, and after the end nothing moves. `ImplementsSession`
maps `Gen1Session` onto it with the snapshot as `seen`: any loss, late answer and
notify of the timer's own is a stutter or a step of it.

**ConfigFlow** is the life of entries and the dialogs that write them. A dialog
(`flow`) goes through the forms of `config_flow.py` (`PickAddress`,
`ChooseGeneration`, `SubmitForm`), then through `async_provision_with_network_key`
(`WriteNetworkChar`, `HandshakeDone`) and the verifying session (`Answers`), with
`SetupError` possible at each `await` and back to the form, and ends in one of the
`Complete...` actions, which is what the code does from the last `await` to its return.
`timerKey` is what the timers keep, whatever becomes of the dialog. Keys are numbers in
the order they were drawn: a user may type any key seen so far, or leave the field
empty for a fresh one. `life`, `hub` and `reloads` are the set-up lock, the coordinators
and the reload tasks of each entry; `Updated` is what `async_update_entry` causes.
`raced`, `outdated`, `contested` and `missed` record the races the code allows, so
that the properties can say that nothing else breaks them.

**LabClient** is one command of `bhyve`, from `network_char` to what `pair` prints,
with the scripts of `Gen1Ops` and the plain sends of `gen2_ops`. It differs from the
integration where it sends: `Build` is `send_plaintext` up to its `await`, and the
frames of the script and of the ACK tasks (`flying`) may be in their GATT writes
together and fail or finish in any order. A frame takes one counter here; how many
blocks it takes is `LinkCrypto`'s matter.

## Runs

| Run | Question | Bounds | Why they are enough |
|---|---|---|---|
| `Link_send` | Can senders, failures and disconnect break the counter discipline, starve a waiter or keep `async_disconnect` from ending? | counters mod 9, starts 7 and 9, 2 tasks, 3 frames of 0..2 blocks, 2 handshake reads, no notifications | the counter wraps within the frames sent, 9 is the 0xFFFFFFFF case, 2 tasks give holder and queue; that notifications rewrite `_keys` in between is covered by the proofs, not by this run |
| `Link_receive` | What does the resync window accept, where can a wrong plaintext come from, and what does the callback see? | counters mod 7, starts 5 and 7, window 1, 3 notifications of 0..2 blocks, the timer 0..2 blocks ahead before each, any one wrong counter may check out | the counter wraps within the frames, 7 is the 0xFFFFFFFF case; a gap of 2 blocks, by a lost notification or without one, exceeds the window, one of 1 block does not; a third notification follows a rejected one |
| `Gen1_safety` | Does a stop stop, is its snapshot fresh, are answers paired and bytes fresh, does onboarding learn the id, does every session implement `TimerSession`? | all four operations, 2 losses or late answers, 1 notify with the highest byte; onboarding with the proposed id registered or another | the stop sends three times and two losses are what it is built to survive; a late answer needs one; 0xBF takes the allocator closest to its end |
| `Gen1_liveness` | Does the session end, and do ACKs go out in order and settle? | 2 notifies of its own, 1 loss | two ACK tasks are the fewest that can overtake |
| `Coord_runs` | Is every run watched, is nothing scheduled on an unloaded coordinator but by what was in flight, does the view settle? | 2 starts or stops and 1 failure, or 1 and 1 and a reload; 4 ticks, runs of 2, both generations | a second start falls before, in and after the run of the first, whose polls are due within the clock; the proofs cover larger budgets |
| `Gen2_ports` | Are ports read consistently from any merge? | messages of a two-port timer, 3 watering statuses, 2 device statuses, summaries of at most one session; read for 1, 2 and 4 known ports | all reachable merges of these fields are explored; reading branches on nothing finer, and a timer may have more ports than the coordinator knows of yet |
| `Config_flows` | Can dialogs, removals and reloads lose a timer, change the shared key, save a timer that does not answer or leave the wrong coordinators? | 2 dialogs, 2 timers, 2 entries, 3 keys, 1 removal or saved option | two dialogs and one reload are the actors of every race found, a third key is one that neither the first entry nor its timer has; the proofs cover any number |
| `Lab_session` | Are counters unique without a lock, and does `pair` print what holds? | 2 notifies of its own, 2 losses, late answers or failed writes, all commands and generations | two ACK tasks and the script send at once |

`CHECK_DEADLOCK FALSE` stands where the system really stops: a transport after its
disconnect, a session after its end, a coordinator at the bound of its clock, an
installation whose dialogs are closed, a command that has ended. In `Gen1Session` the
age of the last notify only moves during the drain, the one place that reads the time.

Four runs show the code doing something other than what a comment or test says:

- `Gen1_start_stale`: the poll that should confirm a start is skipped because the
  attach of the same session has already put a record, of before the start, in the
  snapshot (`gen1_ops.py:141`). With nothing lost or late a start may return "idle".
- `Gen1_drain`: the wait for notifies to go quiet after the commit measures from
  the last notify, which may be older than the commit (`gen1_session.py:150`).
- `Gen2_idle_sessions`: a decoded idle summary has no `sessions` key, so the merge
  keeps old sessions (`gen2_codec.py:203`), where the test builds the key by hand.
- `Config_shared_key`: of two options flows that pair gen2 timers at once on an entry
  without one, the second saves a timer that was given another key than the entry
  keeps (`config_flow.py:653`), although gen2 timers "share the integration entry
  network_key_b64".

More divergences were met while modelling; the properties are stated so
that they allow for them:

- A notify 0xBF moves the counter to 0xC0, and from there a request byte has the
  response bit already: its answer cannot be paired (`gen1_session.py:92`).
  `NoSpuriousTimeout` excludes sessions that allocated such a byte; what they do to the
  timer and return is checked and proved like that of any other.
- Onboarding provisions `network_char` with the proposed mesh id, but its status
  session goes on under the id the timer assigned (`gen1_ops.py:186`). "A prefix/magic
  mismatch makes the timer drop every command and never NOTIFY" (`link_crypto.py:232-233`,
  `tests/test_gen1_protocol.py:54-61`): with another id than the proposed one the status
  session is in vain. `OnboardLearnsId` says so much and no more: every awaited command of
  it times out, and the onboarding still returns the id. `NoSpuriousTimeout` is about what
  is said under the prefix. The sessions opened later with the saved id would all be
  dropped too; they are not modelled, since every other operation is opened under
  the prefix. The tests' vectors assign the id that was proposed.
- A gen2 stop that hears nothing keeps the message of before and schedules no
  refresh (`coordinator.py:113`), although it promises to refresh.
- The address of a timer is checked when it is picked (`config_flow.py:231`, `522`)
  and not when it is saved: two dialogs may put one timer into two entries or save
  it twice. `contested` names these timers.
- A send that is queued on the write lock while the transport is closed fails on the
  cleared keys (`transport.py:130-131`) with an error of another type than the one for
  a closed transport. `CrashOnlyAfterClose` confines it to that moment.
- A start that is in flight at a reload schedules refreshes on the unloaded coordinator
  (`coordinator.py:207`); `LeakOnlyInFlight` allows for these and no others.
- `async_disconnect` swallows the errors of the BLE stack (`transport.py:115-122`), so
  that the link may stay up behind it. `AlwaysClosed` is about the transport, not the link.
- An entry that is updated in the middle of its set-up keeps the coordinators of the
  old data: the listener that would reload it is registered last (`__init__.py:85`).
  `HubFollowsEntry` excludes entries in `missed`.
- With the key of an existing entry typed into a new flow, the timer is provisioned
  with it first and the flow aborts after (`config_flow.py:356-358`): the timer has the
  key, no entry has the timer (`AbortNewGen2`).
- A gen2 verification without pairing and without a key is tried with a random key
  (`config_flow.py:587`) and cannot succeed; `_resolve_gen2_network_key` never falls
  back to the entry's key (`config_flow.py:432`), since its caller has always set one.
- A failed gen1 provisioning is shown as "verify_failed": `onboarding.py:131` wraps
  the `BhyveBleProvisionError` that the flow would show as "cannot_connect".
- `bhyve connect`, described as "Connection test (handshake only)" (`main.py:684`),
  sends the attach with the 0x85 clear (`main.py:540`), which ends a run.
- The id a gen1 timer assigns is read when the onboarding script is over; a notify
  that arrives after that is not printed by `pair` (`main.py:555`).
- A top-level `wateringStatus` of an earlier notify is folded back after an idle
  summary has cleared the nested one (`gen2_codec.py:168`).

## Fairness

`BleTransport`: the owner's steps, because `establish_connection` has a timeout, the
handshake a read limit and every caller disconnects in a `finally`; the
callback tasks and the tasks in the lock or in a write, because the event loop runs
ready tasks and the BLE stack completes or fails every GATT operation. Nothing
makes a task send or the timer notify. `Gen1Session`: the script (every wait has a
timeout or a maximum), ACK tasks, the timer accepting or dropping a write, the air
delivering or losing a notify, and time. `Coordinator`: the clock, polls, deferred
calls, and each session. A failure is never owed: bounded failures model that a
timer in reach is reached in the end.

## Proofs

Checked by TLAPS for every value of the constants; the assumptions are the named
`ASSUME`s of the modules, which TLC evaluates in the runs.

- `BleTransportProofs`, the counters: n increments of a counter are `perform_crypto`
  (`BlockStep`), it adds (`BlockAdd`), and within one period positions map to
  counters injectively (`BlockInjective`), 0xFFFFFFFF included; hence ranges of
  positions that do not overlap have disjoint keystream (`DisjointKeystream`).
- `BleTransportProofs`, sending: `TypeCorrect`, `KeystreamFresh` and `WireOrdered`. Neither
  safety property is inductive: that a new frame takes fresh blocks needs that
  `enc_ctr` stands exactly where the newest frame ended (`KeyInv`), also after failed
  writes, and that frames lie end to end (`SentInv`); that wire order is counter
  order needs that a writer holds the lock and writes the newest frame
  (`WriterInv`) and that nothing newer has arrived (`WireInv`). `ReadsInv`
  bounds the handshake for the type. Their conjunction is `IInv`; there is a
  lemma for each group of actions. The precondition is in `Encrypt`: a link
  spends fewer than `CtrMod` blocks, 64 GiB for the real period.
- `BleTransportProofs`, receiving: `WindowIsWhole`, `DeafAfterWindow`, `GarbageNeedsGap`
  and the refinement `TransportStreams`, from `RInv`. It looks at the frames accepted,
  run or still in a callback task (`Accepted`), and at those on the air. `AirInv`:
  emitted frames are in order in the timer's counter sequence, with gaps wherever it
  got ahead. `AcceptedInv`: accepted frames are in order, and what is on the air
  begins where the last of them ended (`LastEnd`) or later. `AgreeInv`: if since the handshake, or
  since an intact frame with data, no accepted frame left a gap, `dec_ctr` stands where the
  last one ended; a frame that begins there is found at the first try of the search, and
  a collision further on is never looked at. `EarlyInv`: before the handshake nothing was
  accepted. `SyncInv`: short of a
  wrong plaintext, `dec_ctr` is a counter of the timer's sequence not past the next
  frame, and after a rejection it is more than the window behind it. Step by step,
  `NotifyStream` sees a notification accepted, a callback run, or nothing. `CrashConfined`
  rests on `CrashInv`: a sender in the queue has seen the keys. The precondition is in the
  guard of the timer's notifies: the blocks of a link and one window fit in the period.
- `Gen1SessionProofs`, on the scripts' shape in `Gen1OpsProofs`: `CommandBytesSuffice`
  (the allocator never raises) and `CommandBytesFresh` (bytes increase and exceed
  every byte heard). `CountInv` says why: notifies push the counter to 192 at most,
  each step begun adds at most one, and no script is long enough to use the rest.
  `FreshInv` says that everything allocated or heard is below the counter.
  `SessionImplemented` is the refinement of `TimerSession`. It needs that the records
  on the air are in the order of the valve's versions and none is of the future
  (`ViewInv`, `LagInv`), and that a script holds nothing its operation is not
  allowed to send (`ScriptType`).
- `Gen1AnswerProofs`: the types and all other safety properties of the gen1 session, for
  any operation, any budget of losses and late answers and any bytes the timer uses.
  `AnswerInv` is the common invariant. `PendingInv` and `CmdInv` say that a future is
  pending exactly while an awaited command is out, under that command's byte; `InboxInv`
  what each notify on the air answers, in which order, under which byte, and that the
  timer's own notifies never carry the byte of an answer. `LeftInv` is what pairing rests
  on: an answer on the air that its step no longer waits for means that the session is
  `Behind` since a timeout at or before that step. `AnswersMatch` follows from it.
  `MagicInv` says that only the status session of an onboarding speaks under another id.
  On top of it, `CountsInv` charges each timeout under the prefix, and an answer that is
  gone while its step still waits, to one fault (`TimeoutsAreFaults`); `AckInv` orders ACKs sent,
  queued and on the air (`AcksOrdered`); `StopInv` charges each stop command that was
  dropped to a loss (`StopsSurely`); `StartInv` (`StartsSurely`); `PunctualInv` says that
  without faults no answer outlives its step, so that the answer of the final poll is
  in the snapshot or still in flight (`ConfirmInv`, `StopsConfirmed`); `LearnInv` follows
  the id from either register through the air, and `SilentInv` that nothing said under
  another id is ever answered, while without faults all else is (`OnboardLearns`).

  Looking for these proofs corrected two properties, which the bound of two faults
  had hidden. An answer may be taken for a later command of the same byte even if other
  steps lie between the two, since onboarding sends fixed bytes again, and since a
  session may stay behind over several steps (`SharesByte`, `AnsweredByOwn`). And late
  answers, not only lost ones, may leave onboarding without the timer's id
  (`OnboardLearnsId`). TLC shows both under a larger bound.

  The proofs take from the timer that it obeys nothing said under another id than the
  prefix, and that it may volunteer notifies all the same.
- `CoordinatorProofs`: `CoordinatorTypes`, `RunWatched` and `LeakInFlight`, all from
  `CoordInv`. That a run is watched is not inductive: when a start reports, its refreshes
  must be due after the run it began, so `Holding` bounds the end of a run whose
  command has arrived by the duration the holder of the lock will schedule for;
  `Owed` says that an unloaded coordinator holds starts and refreshes only if it was in
  flight, `NotAsked` that one not yet loaded holds none.
- `Gen2MergeProofs`: `MergeTyped`, `SwitchIsSensor`, `NewestWins` and `ShownIfReported`,
  for a notify that lists one session at most. They rest on what one merge can do
  (`Merge`): a status comes from one of its two parts, and the sessions are the
  update's unless it has none. `MergeInv` adds that a merge of quiet notifies is quiet
  and that the latest sessions stand; `Resolved` is the walk through the four places a
  port's status is looked for.
- `ConfigFlowProofs`: `FlowTypes` (with what a dialog knows at each step, `Typed`), then
  three invariants on top of it. `HandInv` adds that an uncontested timer in a
  dialog's hand is in no entry and in no other hand (`PickedApart`): `TimersApart` and
  `DevicesKept` follow. `AnswerInv` adds what the key of a dialog at work has to do with
  the entry's (`KeyAgreed`): if the entry is locked, the dialog has its key or is in
  `raced`; `TimersAnswer` follows. `HubInv` adds that an entry in set-up, and not in
  `missed`, has the coordinators of its data already: `HubFollows` follows. `KeyKept` is
  an action property that needs the types only.
- `LabClientProofs`: `CountersNeverRepeat` (`Numbered`: the i-th frame got counter i - 1)
  and `PairPrints` (`PairInv`: past the register step the id is known, on its way
  or was missed), and `LabTypes`: the step stays in its script (`ScriptPlace`), and
  `AckBudget` counts the timer's own notifies along the inbox, since an ACK task
  stands for one that has left it.

All proofs hold for any value of the constants that meets the named assumptions: any
number of dialogs, timers and entries, of notifies and faults, any durations and any
budget of operations.

So every invariant and action property of the passing runs is proved, and both
refinements. Only model-checked is liveness: `LockComesBack`, `AlwaysClosed`,
`SessionEnds`, `AcksSettle` and `ViewSettles` need fairness and `ENABLED`, which are
out of the prover's reach.

## Not modelled, and the plan

The order of the work was: link and transport, gen1 session, coordinator with reload,
gen2 merge, then sessions in the abstract, configuration flows and the lab client,
each with its proofs. What would come next:

1. The gen2 verification as a session of its own (`onboarding.py:175-251`): here it
   is the one step `Answers` or `SetupError`.
2. Migration of version 1 entries (`__init__.py:49-61`): it writes devices without a
   generation, which every reader takes for gen2.

Not modelled: removal of whole entries; a dialog closed between submission and result
(`Abandon` leaves forms only); faults, battery and diagnostic records of both
generations, whose readers keep no state; the status summary of the lab client and its
scan; profiles, models and display strings, which are tables; tracing; AES itself
and payload bytes; the generated protobuf code.
