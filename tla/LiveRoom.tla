------------------------------ MODULE LiveRoom ------------------------------
(***************************************************************************)
(* Live rooms of one host (apps/api/src/live/live.service.ts).             *)
(*                                                                         *)
(* A room on air is a JSON record in Redis, an entry of the lobby set, a   *)
(* key with the host's last check-in and a database row.  There is no lock:*)
(* the host's edits and the viewers' heartbeats write back the whole       *)
(* record they read, and four paths end a room.  The fields of the record  *)
(* are left out: what matters here is whether it is there.  A request may  *)
(* be cut off after any write; Redis itself does not fail.                 *)
(***************************************************************************)
EXTENDS Integers, FiniteSets

CONSTANTS
  LiveViewers,   \* signed-in people who are not the host
  LiveRequests,  \* concurrent HTTP requests
  MaxRooms,      \* bound: rooms started in one behaviour
  MaxCutOff,     \* bound: rooms with a request that is cut off
  ReportsToEnd,  \* LIVE_LIMITS.reportsToEnd
  NoRoom         \* nobody, nothing

ASSUME LiveAssumption ==
  /\ MaxRooms \in Nat /\ MaxCutOff \in Nat /\ ReportsToEnd \in Nat \ {0}
  /\ NoRoom \notin 1..MaxRooms

VARIABLES
  roomRec,   \* kamby:live:<id> is there
  lobby,     \* kamby:live:active
  hostHere,  \* rooms whose kamby:live:<id>:host is younger than hostStaleMs
  liveRow,   \* LiveRoom row: its endedReason once ended
  reports,   \* LiveReport rows
  liveReq,   \* what each request remembers
  cutOff     \* history: rooms a request about which did not get to its end

liveVars == <<roomRec, lobby, hostHere, liveRow, reports, liveReq, cutOff>>

Rooms == 1..MaxRooms
EndReasons == {"host", "dropped", "reports"}

LiveTask ==
  [pc: {"idle", "start", "write", "sadd", "hostSeen", "edit",
        "peak", "file", "count", "del", "db"},
   room: Rooms \cup {NoRoom}, who: LiveViewers \cup {NoRoom},
   todo: SUBSET Rooms, starting: BOOLEAN,
   reason: EndReasons \cup {NoRoom}]

LiveTypeOK ==
  /\ roomRec \in [Rooms -> BOOLEAN]
  /\ lobby \subseteq Rooms /\ cutOff \subseteq Rooms
  /\ hostHere \subseteq Rooms
  /\ liveRow \in [Rooms -> {"none", "open"} \cup EndReasons]
  /\ reports \in [Rooms -> SUBSET LiveViewers]
  /\ liveReq \in [LiveRequests -> LiveTask]

IdleLive == [pc |-> "idle", room |-> NoRoom, who |-> NoRoom,
             todo |-> {}, starting |-> FALSE, reason |-> NoRoom]

LiveInit ==
  /\ roomRec = [i \in Rooms |-> FALSE]
  /\ lobby = {}
  /\ hostHere = {}
  /\ liveRow = [i \in Rooms |-> "none"]
  /\ reports = [i \in Rooms |-> {}]
  /\ liveReq = [r \in LiveRequests |-> IdleLive]
  /\ cutOff = {}

SetReq(r, t) == liveReq' = [liveReq EXCEPT ![r] = t]

Ended(i) == liveRow[i] \in EndReasons

\* Requests name a room they heard of: its record is there, and start has at
\* least put it in the lobby.
Found(i) ==
  /\ roomRec[i]
  /\ \A q \in LiveRequests : liveReq[q].room = i => liveReq[q].pc \notin {"write", "sadd"}

-----------------------------------------------------------------------------
(* end(id, reason): lobby and keys, then the row unless it is ended.       *)

Ending(t, i, why) ==
  [t EXCEPT !.pc = "del", !.room = i, !.reason = why]

\* A mutant: the room stays in the lobby.
EndKeys_KeepsLobby(r) ==
  LET i == liveReq[r].room
  IN /\ liveReq[r].pc = "del"
     /\ lobby' = lobby
     /\ roomRec' = [roomRec EXCEPT ![i] = FALSE]
     /\ hostHere' = hostHere \ {i}
     /\ SetReq(r, [liveReq[r] EXCEPT !.pc = "db"])
     /\ UNCHANGED <<liveRow, reports, cutOff>>

EndKeys(r) ==
  LET i == liveReq[r].room
  IN /\ liveReq[r].pc = "del"
     /\ lobby' = lobby \ {i}
     /\ roomRec' = [roomRec EXCEPT ![i] = FALSE]
     /\ hostHere' = hostHere \ {i}
     /\ SetReq(r, [liveReq[r] EXCEPT !.pc = "db"])
     /\ UNCHANGED <<liveRow, reports, cutOff>>

\* where: { id, endedAt: null }
EndRow(r) ==
  LET t == liveReq[r]
  IN /\ t.pc = "db"
     /\ liveRow' = IF liveRow[t.room] = "open"
                   THEN [liveRow EXCEPT ![t.room] = t.reason] ELSE liveRow
     /\ SetReq(r, IF t.starting THEN [IdleLive EXCEPT !.pc = "start", !.starting = TRUE,
                                                      !.todo = t.todo \ {t.room}]
                  ELSE IdleLive)
     /\ UNCHANGED <<roomRec, lobby, hostHere, reports, cutOff>>

-----------------------------------------------------------------------------
(* start: end the host's other rooms, then row, record, lobby, check-in.   *)

Start(r) ==
  /\ liveReq[r].pc = "idle"
  /\ SetReq(r, [IdleLive EXCEPT !.pc = "start", !.starting = TRUE, !.todo = lobby])
  /\ UNCHANGED <<roomRec, lobby, hostHere, liveRow, reports, cutOff>>

EndOther(r, i) ==
  LET t == liveReq[r]
  IN /\ t.pc = "start" /\ i \in t.todo
     /\ SetReq(r, IF ~roomRec[i] THEN [t EXCEPT !.todo = @ \ {i}]
                  ELSE Ending(t, i, "host"))
     /\ UNCHANGED <<roomRec, lobby, hostHere, liveRow, reports, cutOff>>

CreateRoomRow(r) ==
  LET fresh == {i \in Rooms : liveRow[i] = "none"}
      i == CHOOSE i \in fresh : \A j \in fresh : i <= j
  IN /\ liveReq[r].pc = "start" /\ liveReq[r].todo = {}
     /\ fresh # {}
     /\ liveRow' = [liveRow EXCEPT ![i] = "open"]
     /\ SetReq(r, [IdleLive EXCEPT !.pc = "write", !.starting = TRUE, !.room = i])
     /\ UNCHANGED <<roomRec, lobby, hostHere, reports, cutOff>>

WriteNewRoom(r) ==
  LET i == liveReq[r].room
  IN /\ liveReq[r].pc = "write"
     /\ roomRec' = [roomRec EXCEPT ![i] = TRUE]
     /\ SetReq(r, [liveReq[r] EXCEPT !.pc = "sadd"])
     /\ UNCHANGED <<lobby, hostHere, liveRow, reports, cutOff>>

EnterLobby(r) ==
  /\ liveReq[r].pc = "sadd"
  /\ lobby' = lobby \cup {liveReq[r].room}
  /\ SetReq(r, [liveReq[r] EXCEPT !.pc = "hostSeen"])
  /\ UNCHANGED <<roomRec, hostHere, liveRow, reports, cutOff>>

hostSeen(r) ==
  /\ liveReq[r].pc = "hostSeen"
  /\ hostHere' = hostHere \cup {liveReq[r].room}
  /\ SetReq(r, IF liveReq[r].starting THEN IdleLive
               ELSE [liveReq[r] EXCEPT !.pc = "peak"])
  /\ UNCHANGED <<roomRec, lobby, liveRow, reports, cutOff>>

-----------------------------------------------------------------------------
(* The host's other requests: each starts with hostState, the record read. *)

\* mute, publishTracks, closeTracks, pinTrade, pinLine, setSlow, startPoll and
\* endPoll change one field of the record they read and write it all back,
\* whether or not the room was ended in the meantime.
HostEdit(r, i) ==
  /\ liveReq[r].pc = "idle" /\ Found(i)
  /\ SetReq(r, [IdleLive EXCEPT !.pc = "edit", !.room = i])
  /\ UNCHANGED <<roomRec, lobby, hostHere, liveRow, reports, cutOff>>

WriteEdit(r) ==
  LET t == liveReq[r]
  IN /\ t.pc = "edit"
     /\ roomRec' = [roomRec EXCEPT ![t.room] = TRUE]
     /\ SetReq(r, IdleLive)
     /\ UNCHANGED <<lobby, hostHere, liveRow, reports, cutOff>>

stop(r, i) ==
  /\ liveReq[r].pc = "idle" /\ Found(i)
  /\ SetReq(r, Ending(IdleLive, i, "host"))
  /\ UNCHANGED <<roomRec, lobby, hostHere, liveRow, reports, cutOff>>

-----------------------------------------------------------------------------
(* Everybody's requests. *)

\* tidy: a room whose host's check-in is old, or not there, is ended.
Dropped(i) == i \notin hostHere

\* list, get and watch return a room only through tidy.
look(r, i) ==
  /\ liveReq[r].pc = "idle" /\ Found(i)
  /\ Dropped(i)
  /\ SetReq(r, Ending(IdleLive, i, "dropped"))
  /\ UNCHANGED <<roomRec, lobby, hostHere, liveRow, reports, cutOff>>

\* heartbeat of the host, or of a viewer (whose own check-in only counts the
\* audience): tidy, the check-in, then perhaps a new peak.
heartbeat(r, i, isHost) ==
  /\ liveReq[r].pc = "idle" /\ Found(i)
  /\ SetReq(r, IF Dropped(i) THEN Ending(IdleLive, i, "dropped")
               ELSE [IdleLive EXCEPT !.pc = IF isHost THEN "hostSeen" ELSE "peak",
                                     !.room = i])
  /\ UNCHANGED <<roomRec, lobby, hostHere, liveRow, reports, cutOff>>

WritePeak(r) ==
  LET t == liveReq[r]
  IN /\ t.pc = "peak"
     /\ \/ roomRec' = [roomRec EXCEPT ![t.room] = TRUE]   \* a new peak
        \/ UNCHANGED roomRec
     /\ SetReq(r, IdleLive)
     /\ UNCHANGED <<lobby, hostHere, liveRow, reports, cutOff>>

report(r, i, v) ==
  /\ liveReq[r].pc = "idle" /\ Found(i)
  /\ SetReq(r, [IdleLive EXCEPT !.pc = "file", !.room = i, !.who = v])
  /\ UNCHANGED <<roomRec, lobby, hostHere, liveRow, reports, cutOff>>

\* unique (roomId, reporterId): a second report of the same viewer is dropped.
FileReport(r) ==
  LET t == liveReq[r]
  IN /\ t.pc = "file"
     /\ reports' = [reports EXCEPT ![t.room] = @ \cup {t.who}]
     /\ SetReq(r, [IdleLive EXCEPT !.pc = "count", !.room = t.room])
     /\ UNCHANGED <<roomRec, lobby, hostHere, liveRow, cutOff>>

\* A mutant: one report more is asked for.
CountReports_TooLate(r) ==
  LET t == liveReq[r]
  IN /\ t.pc = "count"
     /\ SetReq(r, IF Cardinality(reports[t.room]) > ReportsToEnd
                  THEN Ending(t, t.room, "reports") ELSE IdleLive)
     /\ UNCHANGED <<roomRec, lobby, hostHere, liveRow, reports, cutOff>>

CountReports(r) ==
  LET t == liveReq[r]
  IN /\ t.pc = "count"
     /\ SetReq(r, IF Cardinality(reports[t.room]) >= ReportsToEnd
                  THEN Ending(t, t.room, "reports") ELSE IdleLive)
     /\ UNCHANGED <<roomRec, lobby, hostHere, liveRow, reports, cutOff>>

\* The process stops, or the database fails.
LiveFails(r) ==
  /\ liveReq[r].pc # "idle"
  /\ cutOff' = cutOff \cup ({liveReq[r].room} \ {NoRoom})
  /\ Cardinality(cutOff') <= MaxCutOff
  /\ SetReq(r, IdleLive)
  /\ UNCHANGED <<roomRec, lobby, hostHere, liveRow, reports>>

\* Time: the host's last check-in is more than hostStaleMs ago.
HostFallsSilent(i) ==
  /\ i \in hostHere
  /\ hostHere' = hostHere \ {i}
  /\ UNCHANGED <<roomRec, lobby, liveRow, reports, liveReq, cutOff>>

LiveStep(r) ==
  \/ EndKeys(r) \/ EndRow(r) \/ CreateRoomRow(r) \/ WriteNewRoom(r)
  \/ EnterLobby(r) \/ hostSeen(r) \/ WriteEdit(r) \/ WritePeak(r)
  \/ FileReport(r) \/ CountReports(r)
  \/ \E i \in Rooms : EndOther(r, i)

LiveNext ==
  \/ \E r \in LiveRequests :
       \/ Start(r)
       \/ LiveStep(r)
       \/ LiveFails(r)
       \/ \E i \in Rooms :
            \/ HostEdit(r, i) \/ stop(r, i) \/ look(r, i)
            \/ \E isHost \in BOOLEAN : heartbeat(r, i, isHost)
            \/ \E v \in LiveViewers : report(r, i, v)
  \/ \E i \in Rooms : HostFallsSilent(i)

LiveSpec == LiveInit /\ [][LiveNext]_liveVars

-----------------------------------------------------------------------------
(* Properties. *)

\* The lobby never lists a room whose row is ended, though the record of an
\* ended room may be written back by a late edit or heartbeat (lines 593-597).
LobbyIsOnAir == \A i \in lobby : ~Ended(i)

Reporting(i) == \E r \in LiveRequests :
  liveReq[r].room = i /\ liveReq[r].pc \in {"count", "del", "db"}

\* Enough reports by different viewers end the room, however the reports
\* overlap, unless a request was cut off before it ended it (report, lines 382-394).
ReportsEndRoom ==
  \A i \in Rooms :
    Cardinality(reports[i]) >= ReportsToEnd => Ended(i) \/ Reporting(i) \/ i \in cutOff

\* An ended room is gone from the lobby for good, and reports do end a room.
LiveSafety == LobbyIsOnAir /\ ReportsEndRoom
=============================================================================
