---------------------------- MODULE Gen2MergeProofs ----------------------------
(***************************************************************************)
(* Proofs about Gen2Merge: what a port is shown as, for any number of      *)
(* notifies and sessions of a timer with any ports, statuses and targets.  *)
(***************************************************************************)
EXTENDS Gen2Merge, TLAPS

USE PortsAssumption, StatusesAssumption

Message == [dsi : MergedDsi, ws : Ws \cup {NoWs}]

-------------------------------------------------------------------------------
(* What a merge keeps                                                        *)

LEMMA StatusesSet == Unset \notin Statuses
BY DEF ActiveWatering, Unset

Lists == {<<>>} \cup {<<x>> : x \in Ws}

LEMMA SummaryLists ==
  ASSUME NEW sm \in Summary
  PROVE  sm.sessions \in Lists /\ sm.has \in BOOLEAN
<1>1. <<>> \in Lists
  BY DEF Lists
<1>2. sm = NoSummary \/ sm \in [has : {TRUE}, sessions : Lists]
  BY DEF Summary, Lists
<1>3. CASE sm = NoSummary
  <2>1. sm.sessions = <<>> /\ sm.has = FALSE
    BY <1>3 DEF NoSummary
  <2> QED  BY <1>1, <2>1
<1>4. CASE sm \in [has : {TRUE}, sessions : Lists]
  BY <1>4
<1> QED  BY <1>2, <1>3, <1>4

\* A summary lists one session at most, and each has a status.
LEMMA Sessions ==
  ASSUME NEW sm \in Summary
  PROVE  /\ \A i \in 1 .. Len(sm.sessions) : i = 1 /\ sm.sessions[1] \in Ws
         /\ sm.sessions # <<>> => 1 \in 1 .. Len(sm.sessions)
<1>1. sm.sessions = <<>> \/ \E x \in Ws : sm.sessions = <<x>>
  BY SummaryLists, Zenon DEF Lists
<1>2. CASE sm.sessions = <<>>
  BY <1>2
<1>3. CASE \E x \in Ws : sm.sessions = <<x>>
  <2>1. PICK x \in Ws : sm.sessions = <<x>>
    BY <1>3
  <2>2. Len(sm.sessions) = 1 /\ sm.sessions[1] = x
    BY <2>1
  <2> QED  BY <2>2
<1> QED  BY <1>1, <1>2, <1>3

LEMMA MergeWs ==
  ASSUME NEW b \in Ws \cup {NoWs}, NEW u \in Ws \cup {NoWs}
  PROVE  /\ merge_ws(b, u) \in Ws \cup {NoWs}
         /\ merge_ws(b, u).status \in {b.status, u.status}
<1>1. CASE u = NoWs
  <2>1. merge_ws(b, u) = b
    BY <1>1 DEF merge_ws, Newer, NoWs, Ws
  <2> QED  BY <2>1
<1>2. CASE u \in Ws
  <2>1. u.status \in Statuses /\ u.status # Unset
    BY <1>2, StatusesSet DEF Ws
  <2>2. merge_ws(b, u) \in Ws
    BY <1>2, <2>1 DEF merge_ws, Newer, NoWs, Ws
  <2> QED  BY <2>1, <2>2 DEF merge_ws, Newer
<1> QED  BY <1>1, <1>2

LEMMA MergeSummary ==
  ASSUME NEW b \in Summary, NEW u \in Summary
  PROVE  /\ merge_summary(b, u) \in Summary
         /\ merge_summary(b, u).sessions = IF u.sessions = <<>> THEN b.sessions ELSE u.sessions
<1>1. CASE u.has
  <2> DEFINE l == IF u.sessions = <<>> THEN b.sessions ELSE u.sessions
  <2>3. l \in Lists
    BY SummaryLists
  <2>4. u.has = TRUE
    BY <1>1 DEF Summary, NoSummary
  <2>5. merge_summary(b, u) = [has |-> TRUE, sessions |-> l]
    BY <2>4 DEF merge_summary, Newer
  <2> HIDE DEF l
  <2>6. [has |-> TRUE, sessions |-> l] \in Summary
    BY <2>3 DEF Summary, Lists
  <2> QED  BY <2>5, <2>6 DEF l
<1>2. CASE ~u.has
  <2>1. u = NoSummary
    BY <1>2 DEF Summary, NoSummary
  <2> QED  BY <2>1 DEF merge_summary, Newer, Summary, NoSummary
<1> QED  BY <1>1, <1>2

LEMMA MergeDsi ==
  ASSUME NEW b \in MergedDsi, NEW u \in Dsi
  PROVE  LET r == deep_merge_device_status_info(b, u)
         IN  /\ r \in MergedDsi
             /\ r.deviceStatus \in {b.deviceStatus, u.deviceStatus}
             /\ r.ws.status \in {b.ws.status, u.ws.status, Unset}
             /\ r.summary = merge_summary(b.summary, u.summary)
<1> DEFINE r == deep_merge_device_status_info(b, u)
           m == merge_dsi(b, u)
<1>1. /\ b.ws \in Ws \cup {NoWs} /\ u.ws \in Ws \cup {NoWs}
      /\ b.summary \in Summary /\ u.summary \in Summary
      /\ b.deviceStatus \in DeviceStatuses \cup {Unset}
      /\ u.deviceStatus \in DeviceStatuses
      /\ b.timerMode \in [mode : {Unset, "offMode", "manualMode"}, targets : Targets \cup {<<>>}]
      /\ u.timerMode \in [mode : {Unset, "offMode", "manualMode"}, targets : Targets \cup {<<>>}]
  BY DEF MergedDsi, Dsi, Mode, NoMode
<1>2. m.timerMode \in [mode : {Unset, "offMode", "manualMode"}, targets : Targets \cup {<<>>}]
  BY <1>1 DEF merge_dsi, merge_mode, Newer
<1>3. m.ws \in Ws \cup {NoWs} /\ m.ws.status \in {b.ws.status, u.ws.status}
  BY <1>1, MergeWs DEF merge_dsi
<1>4. m.summary = merge_summary(b.summary, u.summary) /\ m.summary \in Summary
  BY <1>1, MergeSummary DEF merge_dsi
<1>5. /\ m.deviceStatus \in DeviceStatuses \cup {Unset}
      /\ m.deviceStatus \in {b.deviceStatus, u.deviceStatus}
  BY <1>1 DEF merge_dsi, Newer
<1>6. m = [deviceStatus |-> m.deviceStatus, ws |-> m.ws, summary |-> m.summary,
           timerMode |-> m.timerMode]
  BY DEF merge_dsi
<1>7. r \in {m, [m EXCEPT !.ws = NoWs]}
  BY DEF deep_merge_device_status_info
<1> HIDE DEF r, m
<1>8. CASE r = m
  BY <1>2, <1>3, <1>4, <1>5, <1>6, <1>8 DEF MergedDsi, r
<1>9. CASE r = [m EXCEPT !.ws = NoWs]
  <2>1. r = [deviceStatus |-> m.deviceStatus, ws |-> NoWs, summary |-> m.summary,
             timerMode |-> m.timerMode]
    BY <1>6, <1>9
  <2>2. NoWs.status = Unset
    BY DEF NoWs
  <2> QED  BY <1>2, <1>4, <1>5, <2>1, <2>2 DEF MergedDsi, r
<1> QED  BY <1>7, <1>8, <1>9

LEMMA Normalized ==
  ASSUME NEW m \in Message
  PROVE  LET r == normalize_gen2_message_for_status(m)
         IN  /\ r \in Message
             /\ r.ws = m.ws
             /\ r.dsi.ws.status \in {m.ws.status, m.dsi.ws.status}
             /\ r.dsi.summary = m.dsi.summary
             /\ r.dsi.deviceStatus = m.dsi.deviceStatus
<1> DEFINE w == merge_ws(m.dsi.ws, m.ws)
<1>1. m.dsi \in MergedDsi /\ m.ws \in Ws \cup {NoWs} /\ m.dsi.ws \in Ws \cup {NoWs}
  BY DEF Message, MergedDsi
<1>2. w \in Ws \cup {NoWs} /\ w.status \in {m.dsi.ws.status, m.ws.status}
  BY <1>1, MergeWs
<1>3. normalize_gen2_message_for_status(m) = [m EXCEPT !.dsi.ws = w]
  BY DEF normalize_gen2_message_for_status
<1> HIDE DEF w
<1> QED  BY <1>1, <1>2, <1>3 DEF Message, MergedDsi

\* A merge has a dsi of the state's shape, and nothing active that neither part had.
LEMMA Merge ==
  ASSUME NEW m \in Message, NEW n \in Notifies
  PROVE  LET r == merge_gen2_decoded(m, n)
         IN  /\ r \in Message
             /\ r.ws.status \in {m.ws.status, n.ws.status}
             /\ r.dsi.ws.status \in {m.dsi.ws.status, n.dsi.ws.status,
                                    m.ws.status, n.ws.status, Unset}
             /\ r.dsi.deviceStatus \in {m.dsi.deviceStatus, n.dsi.deviceStatus}
             /\ r.dsi.summary.sessions = IF n.dsi.summary.sessions = <<>>
                                           THEN m.dsi.summary.sessions
                                           ELSE n.dsi.summary.sessions
<1> DEFINE d == IF m.dsi = NoDsi \/ n.dsi = NoDsi
                  THEN Newer(m.dsi, n.dsi, NoDsi)
                  ELSE deep_merge_device_status_info(m.dsi, n.dsi)
           w == Newer(m.ws, n.ws, NoWs)
           L == IF n.dsi.summary.sessions = <<>> THEN m.dsi.summary.sessions
                ELSE n.dsi.summary.sessions
<1>1. m.dsi \in MergedDsi /\ m.ws \in Ws \cup {NoWs}
  BY DEF Message
<1>2. n.dsi \in Dsi \cup {NoDsi} /\ n.ws \in Ws \cup {NoWs}
  BY DEF Notifies
<1>3. w \in Ws \cup {NoWs} /\ w \in {m.ws, n.ws}
  BY <1>1, <1>2 DEF Newer
<1>4. NoDsi.summary.sessions = <<>>
  BY DEF NoDsi, NoSummary
<1>5. /\ d \in MergedDsi
      /\ d.ws.status \in {m.dsi.ws.status, n.dsi.ws.status, Unset}
      /\ d.deviceStatus \in {m.dsi.deviceStatus, n.dsi.deviceStatus}
      /\ d.summary.sessions = L
  <2>1. CASE n.dsi = NoDsi
    <3>1. d = m.dsi
      BY <2>1 DEF Newer
    <3> HIDE DEF d
    <3> QED  BY <1>1, <1>4, <2>1, <3>1
  <2>2. CASE n.dsi # NoDsi /\ m.dsi = NoDsi
    <3>1. d = n.dsi /\ n.dsi \in Dsi
      BY <1>2, <2>2 DEF Newer
    <3>2. n.dsi \in MergedDsi
      BY <3>1 DEF Dsi, MergedDsi, Mode, NoMode
    <3> HIDE DEF d
    <3> QED  BY <1>4, <2>2, <3>1, <3>2
  <2>3. CASE n.dsi # NoDsi /\ m.dsi # NoDsi
    <3>1. d = deep_merge_device_status_info(m.dsi, n.dsi) /\ n.dsi \in Dsi
      BY <1>2, <2>3
    <3>2. m.dsi.summary \in Summary /\ n.dsi.summary \in Summary
      BY <1>1, <3>1 DEF MergedDsi, Dsi
    <3> HIDE DEF d
    <3> QED  BY <1>1, <3>1, <3>2, MergeDsi, MergeSummary
  <2> QED  BY <2>1, <2>2, <2>3
<1>6. merge_gen2_decoded(m, n) = normalize_gen2_message_for_status([dsi |-> d, ws |-> w])
  BY DEF merge_gen2_decoded
<1> HIDE DEF d, w, L
<1>7. [dsi |-> d, ws |-> w] \in Message
  BY <1>3, <1>5 DEF Message
<1> DEFINE c == [dsi |-> d, ws |-> w]
           r == normalize_gen2_message_for_status(c)
<1>8. c \in Message /\ c.dsi = d /\ c.ws = w
  BY <1>7
<1> HIDE DEF c
<1>9. /\ r \in Message /\ r.ws = w /\ r.dsi.ws.status \in {w.status, d.ws.status}
      /\ r.dsi.summary = d.summary /\ r.dsi.deviceStatus = d.deviceStatus
  BY <1>8, Normalized
<1>10. merge_gen2_decoded(m, n) = r
  BY <1>6 DEF c
<1> HIDE DEF r
<1> QED  BY <1>3, <1>5, <1>9, <1>10 DEF L

-------------------------------------------------------------------------------
(* The invariant                                                             *)

\* Nothing of a message reports watering.
Quiet(m) ==
  /\ m.ws.status \notin ActiveWatering
  /\ m.dsi.ws.status \notin ActiveWatering
  /\ m.dsi.deviceStatus # "wateringInProgress"
  /\ \A i \in 1 .. Len(m.dsi.summary.sessions) :
       m.dsi.summary.sessions[i].status \notin ActiveWatering

\* The sessions of the latest notify, when it has some, are those of the merge, and a
\* merge of notifies that report no watering reports none.
MergeInv ==
  /\ TypeOK
  /\ latest.summary.sessions # <<>> => last_message.dsi.summary.sessions = latest.summary.sessions
  /\ ~reported => Quiet(last_message)

LEMMA NothingIs == Nothing \in Message /\ Quiet(Nothing) /\ Said(Nothing).summary = NoSummary
<1>1. NoDsi \in MergedDsi
  BY DEF NoDsi, MergedDsi, NoMode, Summary
<1>2. Nothing.dsi = NoDsi /\ Nothing.ws = NoWs
  BY DEF Nothing
<1>3. /\ NoDsi.ws.status = Unset /\ NoWs.status = Unset /\ NoDsi.deviceStatus = Unset
      /\ NoDsi.summary = NoSummary /\ NoSummary.sessions = <<>>
  BY DEF NoDsi, NoWs, NoSummary
<1>4. Nothing \in Message
  BY <1>1 DEF Nothing, Message
<1>5. Said(Nothing).summary = NoSummary
  BY <1>2, <1>3 DEF Said
<1>6. Quiet(Nothing)
  BY <1>2, <1>3 DEF Quiet, ActiveWatering, Unset
<1> QED  BY <1>4, <1>5, <1>6

LEMMA SaidType ==
  ASSUME NEW n, n \in Notifies \/ n = Nothing
  PROVE  /\ Said(n) \in [deviceStatus : DeviceStatuses \cup {Unset}, summary : Summary,
                         nested : BOOLEAN]
         /\ Said(n).summary = n.dsi.summary
<1>1. n.dsi \in Dsi \cup {NoDsi}
  BY DEF Notifies, Nothing
<1>2. n.dsi.deviceStatus \in DeviceStatuses \cup {Unset} /\ n.dsi.summary \in Summary
  <2>1. CASE n.dsi \in Dsi
    BY <2>1 DEF Dsi
  <2>2. CASE n.dsi = NoDsi
    <3>1. NoDsi.deviceStatus = Unset /\ NoDsi.summary = NoSummary
      BY DEF NoDsi
    <3> QED  BY <2>2, <3>1 DEF Summary
  <2> QED  BY <1>1, <2>1, <2>2
<1> QED  BY <1>2 DEF Said

LEMMA NotifyInMessage == Notifies \subseteq Message
<1>1. Dsi \subseteq MergedDsi
  BY DEF Dsi, MergedDsi, Mode, NoMode
<1>2. NoDsi \in MergedDsi
  BY DEF NoDsi, MergedDsi, NoMode, Summary
<1> QED  BY <1>1, <1>2 DEF Notifies, Message

LEMMA MergeInit == Init => MergeInv
<1> SUFFICES ASSUME Init PROVE MergeInv
  OBVIOUS
<1>1. /\ last_message = Nothing /\ heard = FALSE /\ latest = Said(Nothing)
      /\ reported = FALSE
  BY DEF Init
<1>2. TypeOK
  BY <1>1, NothingIs, SaidType DEF TypeOK, Message
<1>3. latest.summary.sessions = <<>>
  BY <1>1, NothingIs DEF NoSummary
<1> QED  BY <1>1, <1>2, <1>3, NothingIs DEF MergeInv

\* A quiet message merged with a notify that reports nothing stays quiet.
LEMMA QuietMerge ==
  ASSUME NEW m \in Message, NEW n \in Notifies, ~Reports(n), Quiet(m)
  PROVE  Quiet(merge_gen2_decoded(m, n)) /\ Quiet(n)
<1> DEFINE r == merge_gen2_decoded(m, n)
<1>1. Quiet(n)
  BY DEF Quiet, Reports
<1>2. Unset \notin ActiveWatering
  BY DEF ActiveWatering, Unset
<1>3. /\ r.ws.status \in {m.ws.status, n.ws.status}
      /\ r.dsi.ws.status \in {m.dsi.ws.status, n.dsi.ws.status, m.ws.status, n.ws.status, Unset}
      /\ r.dsi.deviceStatus \in {m.dsi.deviceStatus, n.dsi.deviceStatus}
      /\ r.dsi.summary.sessions \in {m.dsi.summary.sessions, n.dsi.summary.sessions}
  BY Merge
<1> HIDE DEF r
<1>4. Quiet(r)
  BY <1>1, <1>2, <1>3 DEF Quiet
<1> QED  BY <1>1, <1>4 DEF r

LEMMA MergeStep == MergeInv /\ [Next]_vars => MergeInv'
<1> SUFFICES ASSUME MergeInv, [Next]_vars PROVE MergeInv'
  OBVIOUS
<1>t. last_message \in Message /\ heard \in BOOLEAN /\ reported \in BOOLEAN
  BY DEF MergeInv, TypeOK, Message
<1>1. ASSUME NEW n \in Notifies, OnNotify(n) PROVE MergeInv'
  <2> DEFINE r == merge_gen2_decoded(last_message, n)
  <2>1. /\ last_message' = IF heard THEN r ELSE n
        /\ heard' = TRUE /\ latest' = Said(n) /\ reported' = (reported \/ Reports(n))
    BY <1>1 DEF OnNotify
  <2>2. /\ r \in Message
        /\ r.dsi.summary.sessions = IF n.dsi.summary.sessions = <<>>
                                      THEN last_message.dsi.summary.sessions
                                      ELSE n.dsi.summary.sessions
    BY <1>t, Merge
  <2>r. Reports(n) \in BOOLEAN
    BY DEF Reports
  <2>q. ~reported /\ ~Reports(n) => Quiet(r) /\ Quiet(n)
    BY <1>t, QuietMerge DEF MergeInv
  <2> HIDE DEF r
  <2>3. last_message' \in Message
    BY <2>1, <2>2, NotifyInMessage
  <2>4. TypeOK'
    BY <1>t, <2>1, <2>3, <2>r, SaidType DEF TypeOK, Message
  <2>5. latest'.summary.sessions # <<>>
          => last_message'.dsi.summary.sessions = latest'.summary.sessions
    BY <2>1, <2>2, SaidType
  <2>6. ~reported' => Quiet(last_message')
    BY <2>1, <2>q
  <2> QED  BY <2>4, <2>5, <2>6 DEF MergeInv, Quiet
<1>2. CASE NewSession
  <2>1. last_message' = Nothing /\ heard' = FALSE /\ latest' = Said(Nothing) /\ reported' = FALSE
    BY <1>2 DEF NewSession
  <2>2. TypeOK'
    BY <2>1, NothingIs, SaidType DEF TypeOK, Message
  <2>3. latest'.summary.sessions = <<>>
    BY <2>1, NothingIs DEF NoSummary
  <2> QED  BY <2>1, <2>2, <2>3, NothingIs DEF MergeInv, Quiet
<1>3. CASE UNCHANGED vars
  BY <1>3 DEF vars, MergeInv, TypeOK, Quiet
<1> QED  BY <1>1, <1>2, <1>3 DEF Next

LEMMA MergeInvariant == Spec => []MergeInv
BY MergeInit, MergeStep, PTL DEF Spec

\* What the merge holds keeps its shape, for any ports, statuses and targets.
THEOREM MergeTyped == Spec => []TypeOK
BY MergeInvariant, PTL DEF MergeInv

-------------------------------------------------------------------------------
(* What a port is shown as                                                   *)

\* The status found for a port of a well-formed message: Unset only when the device
\* status says nothing of the port either, and active only when something is.
LEMMA Resolved ==
  ASSUME NEW m \in Message, NEW s, NEW k
  PROVE  LET st == resolve_status(m, s, k)
             d == normalize_gen2_message_for_status(m).dsi
         IN  /\ st = Unset => ~device_status_waters(d, s, k)
             /\ Quiet(m) => st # "wateringInProgress"
<1> DEFINE r == normalize_gen2_message_for_status(m)
           ss == r.dsi.summary.sessions
           own == {i \in 1 .. Len(ss) : ss[i].cur = s}
           st == resolve_status(m, s, k)
<1>1. /\ r \in Message /\ r.ws = m.ws
      /\ r.dsi.ws.status \in {m.ws.status, m.dsi.ws.status}
      /\ r.dsi.summary = m.dsi.summary /\ r.dsi.deviceStatus = m.dsi.deviceStatus
  BY Normalized
<1>2. r.dsi.summary \in Summary
  BY <1>1 DEF Message, MergedDsi
<1>3. st = IF own # {} THEN ss[CHOOSE i \in own : \A j \in own : i <= j].status
           ELSE IF legacy_applies(r.dsi.ws, s, k) THEN r.dsi.ws.status
           ELSE IF legacy_applies(r.ws, s, k) THEN r.ws.status
           ELSE IF device_status_waters(r.dsi, s, k) THEN "wateringInProgress"
           ELSE Unset
  BY DEF resolve_status
<1>4. Unset \notin ActiveWatering /\ "wateringInProgress" \in ActiveWatering
      /\ Unset # "wateringInProgress"
  BY DEF ActiveWatering, Unset
<1> HIDE DEF r, st
<1>5. CASE own # {}
  <2>1. /\ \A i \in 1 .. Len(ss) : i = 1 /\ ss[1] \in Ws
    BY <1>2, Sessions
  <2>2. own = {1} /\ 1 \in 1 .. Len(ss)
    BY <1>5, <2>1
  <2>3. (CHOOSE i \in own : \A j \in own : i <= j) = 1
    BY <2>2
  <2>4. st = ss[1].status /\ ss[1] \in Ws
    BY <1>3, <1>5, <2>1, <2>2, <2>3
  <2>5. st # Unset
    BY <2>4, StatusesSet DEF Ws
  <2>6. Quiet(m) => st \notin ActiveWatering
    BY <1>1, <2>2, <2>4 DEF Quiet
  <2> QED  BY <1>4, <2>5, <2>6 DEF st, r
<1>6. CASE own = {}
  <2>1. legacy_applies(r.dsi.ws, s, k) => r.dsi.ws.status \in ActiveWatering
    BY DEF legacy_applies
  <2>2. legacy_applies(r.ws, s, k) => r.ws.status \in ActiveWatering
    BY DEF legacy_applies
  <2>3. device_status_waters(r.dsi, s, k) => r.dsi.deviceStatus = "wateringInProgress"
    BY DEF device_status_waters
  <2>4. st = IF legacy_applies(r.dsi.ws, s, k) THEN r.dsi.ws.status
             ELSE IF legacy_applies(r.ws, s, k) THEN r.ws.status
             ELSE IF device_status_waters(r.dsi, s, k) THEN "wateringInProgress"
             ELSE Unset
    BY <1>3, <1>6
  <2>5. st = Unset => ~device_status_waters(r.dsi, s, k)
    BY <1>4, <2>1, <2>2, <2>4
  <2>6. Quiet(m) => st # "wateringInProgress"
    BY <1>1, <1>4, <2>1, <2>2, <2>3, <2>4 DEF Quiet
  <2> QED  BY <2>5, <2>6 DEF st, r
<1> QED  BY <1>5, <1>6

LEMMA Sensor ==
  ASSUME NEW m, NEW s, NEW k
  PROVE  parse_station_status(m, s, k) = "watering"
           <=> resolve_status(m, s, k) = "wateringInProgress"
BY DEF parse_station_status, ActiveWatering

\* Whatever mixture of notifies was merged, the status sensor of a port says "watering"
\* exactly when its switch is on.
THEOREM SwitchIsSensor == Spec => []SwitchMatchesSensor
<1>1. TypeOK => SwitchMatchesSensor
  <2> SUFFICES ASSUME TypeOK, NEW k \in PortCounts, NEW s \in Stations(k)
               PROVE  parse_station_status(last_message, s, k) = "watering"
                        <=> station_is_actively_watering(last_message, s, k)
    BY DEF SwitchMatchesSensor
  <2> DEFINE st == resolve_status(last_message, s, k)
             d == normalize_gen2_message_for_status(last_message).dsi
  <2>1. last_message \in Message
    BY DEF TypeOK, Message
  <2>2. st = Unset => ~device_status_waters(d, s, k)
    BY <2>1, Resolved
  <2>3. station_is_actively_watering(last_message, s, k)
          <=> IF st # Unset THEN st = "wateringInProgress" ELSE device_status_waters(d, s, k)
    BY DEF station_is_actively_watering, ActiveSwitch
  <2>4. Unset # "wateringInProgress"
    BY DEF Unset
  <2>5. parse_station_status(last_message, s, k) = "watering" <=> st = "wateringInProgress"
    BY Sensor
  <2> HIDE DEF st, d
  <2> QED  BY <2>2, <2>3, <2>4, <2>5
<1> QED  BY <1>1, MergeTyped, PTL

\* A port the latest notify names a session for is shown as that session says, whatever
\* the notifies merged before it said.
THEOREM NewestWins == Spec => []NewestSessionWins
<1>1. MergeInv => NewestSessionWins
  <2> SUFFICES ASSUME MergeInv, NEW i \in 1 .. Len(latest.summary.sessions),
                      latest.summary.sessions[i].cur # NoStation, NEW k \in PortCounts
               PROVE  resolve_status(last_message, latest.summary.sessions[i].cur, k)
                        = latest.summary.sessions[i].status
    BY DEF NewestSessionWins
  <2> DEFINE l == latest.summary.sessions
             r == normalize_gen2_message_for_status(last_message)
             own == {j \in 1 .. Len(l) : l[j].cur = l[1].cur}
  <2>1. latest.summary \in Summary /\ last_message \in Message
    BY DEF MergeInv, TypeOK, Message
  <2>2. i = 1 /\ \A j \in 1 .. Len(l) : j = 1
    BY <2>1, Sessions
  <2>3. l # <<>>
    BY <2>2
  <2>4. r.dsi.summary.sessions = l
    BY <2>1, <2>3, Normalized DEF MergeInv
  <2>5. own = {1}
    BY <2>2
  <2>6. (CHOOSE j \in own : \A h \in own : j <= h) = 1
    BY <2>5
  <2> HIDE DEF l
  <2>7. resolve_status(last_message, l[1].cur, k)
          = l[CHOOSE j \in own : \A h \in own : j <= h].status
    BY <2>4, <2>5 DEF resolve_status
  <2> QED  BY <2>2, <2>6, <2>7 DEF l
<1> QED  BY <1>1, MergeInvariant, PTL

\* A port is shown to water only if a notify of this very session reported watering.
THEOREM ShownIfReported == Spec => []ShownOnlyIfReported
<1>1. MergeInv => ShownOnlyIfReported
  <2> SUFFICES ASSUME MergeInv, NEW k \in PortCounts, NEW s \in Stations(k),
                      parse_station_status(last_message, s, k) = "watering"
               PROVE  reported
    BY DEF ShownOnlyIfReported
  <2>1. last_message \in Message /\ reported \in BOOLEAN
    BY DEF MergeInv, TypeOK, Message
  <2>2. resolve_status(last_message, s, k) = "wateringInProgress"
    BY Sensor
  <2>3. ~Quiet(last_message)
    BY <2>1, <2>2, Resolved
  <2> QED  BY <2>1, <2>3 DEF MergeInv
<1> QED  BY <1>1, MergeInvariant, PTL
===============================================================================
