------------------------------- MODULE Gen2Merge -------------------------------
(***************************************************************************)
(* The merged message of a gen2 session (gen2_runtime.py) and of the       *)
(* coordinator that keeps the last one, as notifies of any content arrive  *)
(* and sessions follow one another.                                        *)
(***************************************************************************)
EXTENDS Gen2Codec

CONSTANTS Ports,         \* valve ports of the timer
          Statuses,      \* wateringStatus values the timer uses
          DeviceStatuses,
          Targets        \* station lists of a manual mode

ASSUME PortsAssumption == Ports \in {0 .. 0, 0 .. 1, 0 .. 3}
ASSUME StatusesAssumption == Statuses \subseteq ActiveWatering \cup {"wateringComplete"}

VARIABLES
  last_message, \* of the running session, normalised or not
  heard,        \* whether the session has merged a notify (last_message is not None)
  latest,       \* history: what the notify merged last said of deviceStatusInfo
  reported      \* history: some notify of the session reported watering

vars == <<last_message, heard, latest, reported>>

\* The schema requires status, mode and deviceStatus; a station is optional.
Ws == [status : Statuses, cur : Ports \cup {NoStation}]
Summary == {NoSummary} \cup [has : {TRUE}, sessions : {<<>>} \cup {<<x>> : x \in Ws}]
Mode == {NoMode, [mode |-> "offMode", targets |-> <<>>]}
        \cup {[mode |-> "manualMode", targets |-> t] : t \in Targets}
Dsi == [deviceStatus : DeviceStatuses, ws : Ws \cup {NoWs}, summary : Summary,
        timerMode : Mode]

\* A merge can also have the targets of an earlier mode, or no device status yet.
MergedDsi ==
  [deviceStatus : DeviceStatuses \cup {Unset}, ws : Ws \cup {NoWs}, summary : Summary,
   timerMode : [mode : {Unset, "offMode", "manualMode"}, targets : Targets \cup {<<>>}]]

\* A notify carries one branch of the envelope; other branches do not touch these two.
Notifies == [dsi : Dsi, ws : {NoWs}] \cup [dsi : {NoDsi}, ws : Ws]
Nothing == [dsi |-> NoDsi, ws |-> NoWs]

\* Of the last notify: device status, sessions, whether wateringStatus was nested in it.
Said(n) == [deviceStatus |-> n.dsi.deviceStatus, summary |-> n.dsi.summary,
            nested |-> n.dsi.ws # NoWs]

TypeOK ==
  /\ last_message \in [dsi : MergedDsi, ws : Ws \cup {NoWs}]
  /\ heard \in BOOLEAN
  /\ latest \in [deviceStatus : DeviceStatuses \cup {Unset}, summary : Summary,
                 nested : BOOLEAN]
  /\ reported \in BOOLEAN

Init == last_message = Nothing /\ heard = FALSE /\ latest = Said(Nothing) /\ reported = FALSE

Reports(n) ==
  \/ n.ws.status \in ActiveWatering \/ n.dsi.ws.status \in ActiveWatering
  \/ n.dsi.deviceStatus = "wateringInProgress"
  \/ \E i \in 1 .. Len(n.dsi.summary.sessions) :
       n.dsi.summary.sessions[i].status \in ActiveWatering

\* on_notify: decode, then merge into last_message.
OnNotify(n) ==
  /\ last_message' = IF heard THEN merge_gen2_decoded(last_message, n) ELSE n
  /\ heard' = TRUE
  /\ latest' = Said(n)
  /\ reported' = (reported \/ Reports(n))

\* Mutant: a session goes on from the message of the one before.
NewSessionKeeps ==
  /\ latest' = Said(Nothing)
  /\ reported' = FALSE
  /\ UNCHANGED <<last_message, heard>>

\* The next session starts from None.
NewSession ==
  /\ last_message' = Nothing
  /\ heard' = FALSE
  /\ latest' = Said(Nothing)
  /\ reported' = FALSE

Next == (\E n \in Notifies : OnNotify(n)) \/ NewSession

Spec == Init /\ [][Next]_vars
-------------------------------------------------------------------------------
(* Properties                                                               *)

\* The status sensor says "watering" exactly when the switch of the port is on, for
\* whatever mixture of partial notifies was merged.
SwitchMatchesSensor ==
  \A num_stations \in PortCounts : \A s \in Stations(num_stations) :
    parse_station_status(last_message, s, num_stations) = "watering"
      <=> station_is_actively_watering(last_message, s, num_stations)

\* A port the latest notify names a session for is shown as that session says, whatever
\* older notifies of the merge said about it.
NewestSessionWins ==
  \A i \in 1 .. Len(latest.summary.sessions) :
    latest.summary.sessions[i].cur # NoStation =>
      \A num_stations \in PortCounts :
        resolve_status(last_message, latest.summary.sessions[i].cur, num_stations)
          = latest.summary.sessions[i].status

\* A port is shown to water only if some notify of this very session reported watering:
\* nothing is carried over from a session before.
ShownOnlyIfReported ==
  (\E num_stations \in PortCounts : \E s \in Stations(num_stations) :
     parse_station_status(last_message, s, num_stations) = "watering") => reported

IdleSummary ==
  [deviceStatus |-> "deviceIdle", summary |-> [has |-> TRUE, sessions |-> <<>>],
   nested |-> FALSE]

\* assert merged["wateringStatusSummary"] == {"sessions": []}, after an idle status.
IdleClearsSessions == latest = IdleSummary => last_message.dsi.summary.sessions = <<>>
===============================================================================
