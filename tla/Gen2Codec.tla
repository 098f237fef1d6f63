------------------------------- MODULE Gen2Codec -------------------------------
(***************************************************************************)
(* How gen2_codec.py merges the notifies of a gen2 session and reads the   *)
(* state of a valve port from the result.                                  *)
(*                                                                         *)
(* A message is what these functions look at: the top-level wateringStatus *)
(* branch and the parts of deviceStatusInfo that bear on watering.  Enum   *)
(* values are their short names; an absent field is Unset (NoStation for a *)
(* station), an absent or empty sub-message one with every field absent.   *)
(* Protobuf omits an empty list: a summary without sessions is <<>>.       *)
(***************************************************************************)
EXTENDS Integers, Sequences

\* num_stations is what deviceInfo said, or 1 until it is known: a timer may have more
\* ports than that.
PortCounts == {1, 2, 4}
Stations(num_stations) == 0 .. num_stations - 1
Unset == "unset"
NoStation == -1

NoWs == [status |-> Unset, cur |-> NoStation]
NoSummary == [has |-> FALSE, sessions |-> <<>>]
NoMode == [mode |-> Unset, targets |-> <<>>]
NoDsi == [deviceStatus |-> Unset, ws |-> NoWs, summary |-> NoSummary, timerMode |-> NoMode]

-------------------------------------------------------------------------------
(* Merging                                                                  *)

\* deep_merge_partial_proto_dict, by type of sub-message: a field of the update wins
\* when it is there.
Newer(base, update, absent) == IF update = absent THEN base ELSE update

merge_ws(base, update) ==
  [status |-> Newer(base.status, update.status, Unset),
   cur |-> Newer(base.cur, update.cur, NoStation)]

\* Mutant: sessions pile up.
merge_summary_appending(base, update) ==
  [has |-> base.has \/ update.has, sessions |-> base.sessions \o update.sessions]

merge_summary(base, update) ==
  [has |-> base.has \/ update.has, sessions |-> Newer(base.sessions, update.sessions, <<>>)]

merge_mode(base, update) ==
  [mode |-> Newer(base.mode, update.mode, Unset),
   targets |-> Newer(base.targets, update.targets, <<>>)]

merge_dsi(base, update) ==
  [deviceStatus |-> Newer(base.deviceStatus, update.deviceStatus, Unset),
   ws |-> merge_ws(base.ws, update.ws),
   summary |-> merge_summary(base.summary, update.summary),
   timerMode |-> merge_mode(base.timerMode, update.timerMode)]

\* A summary without sessions, from an idle timer, drops the merged wateringStatus.
deep_merge_device_status_info(base, update) ==
  LET merged == merge_dsi(base, update)
      idle == /\ update.summary = [has |-> TRUE, sessions |-> <<>>]
              /\ update.ws = NoWs
              /\ merged.deviceStatus \in {"deviceIdle", "deviceOff"}
  IN  IF idle THEN [merged EXCEPT !.ws = NoWs] ELSE merged

\* A top-level wateringStatus is folded into deviceStatusInfo.
normalize_gen2_message_for_status(m) == [m EXCEPT !.dsi.ws = merge_ws(m.dsi.ws, m.ws)]

merge_gen2_decoded(prev, new) ==
  normalize_gen2_message_for_status(
    [dsi |-> IF prev.dsi = NoDsi \/ new.dsi = NoDsi
               THEN Newer(prev.dsi, new.dsi, NoDsi)
               ELSE deep_merge_device_status_info(prev.dsi, new.dsi),
     ws |-> Newer(prev.ws, new.ws, NoWs)])

-------------------------------------------------------------------------------
(* Reading                                                                  *)

ActiveWatering == {"wateringInProgress", "pumpDelay", "stationDelay"}

\* Mutant: a station that waits for its turn counts as on.
ActiveSwitchWide == ActiveWatering
ActiveSwitch == {"wateringInProgress"}

\* _legacy_watering_applies_to_station
legacy_applies(ws, s, num_stations) ==
  /\ ws.status \in ActiveWatering
  /\ IF ws.cur # NoStation THEN ws.cur = s ELSE num_stations = 1 /\ s = 0

manual_mode_targets(dsi, s) ==
  /\ dsi.timerMode.mode = "manualMode"
  /\ IF dsi.timerMode.targets = <<>> THEN s = 0
     ELSE \E i \in 1 .. Len(dsi.timerMode.targets) : dsi.timerMode.targets[i] = s

\* _session_from_device_status_watering finds a session for s; legacy_applies gives it
\* the status of wateringStatus, the rest wateringInProgress.
device_status_waters(dsi, s, num_stations) ==
  /\ dsi.deviceStatus = "wateringInProgress"
  /\ \/ legacy_applies(dsi.ws, s, num_stations)
     \/ manual_mode_targets(dsi, s)
     \/ num_stations = 1 /\ s = 0

\* _resolve_watering_session: the status of the session found for s, or Unset.
resolve_status(message, s, num_stations) ==
  LET m == normalize_gen2_message_for_status(message)
      sessions == m.dsi.summary.sessions
      own == {i \in 1 .. Len(sessions) : sessions[i].cur = s}
  IN  IF own # {} THEN sessions[CHOOSE i \in own : \A j \in own : i <= j].status
      ELSE IF legacy_applies(m.dsi.ws, s, num_stations) THEN m.dsi.ws.status
      ELSE IF legacy_applies(m.ws, s, num_stations) THEN m.ws.status
      ELSE IF device_status_waters(m.dsi, s, num_stations) THEN "wateringInProgress"
      ELSE Unset

\* parse_station_status, without faults: the sensor of a port.
parse_station_status(message, s, num_stations) ==
  LET st == resolve_status(message, s, num_stations)
  IN  CASE st = "wateringInProgress"                   -> "watering"
        [] st \in ActiveWatering \ {"wateringInProgress"} -> "delay"
        [] OTHER                                       -> "off"

\* station_is_actively_watering: the switch of a port.
station_is_actively_watering(message, s, num_stations) ==
  LET dsi == normalize_gen2_message_for_status(message).dsi
      st == resolve_status(message, s, num_stations)
  IN  IF st # Unset THEN st \in ActiveSwitch ELSE device_status_waters(dsi, s, num_stations)
===============================================================================
