----------------------------- MODULE LiveGateway -----------------------------
(***************************************************************************)
(* The live classes of the institute service, over one session: its row    *)
(* (LiveClassService), the rows of its participants, and the socket.io     *)
(* gateway (LiveGateway) that keeps who is in the room.                    *)
(*                                                                         *)
(* Handlers, those of one socket too, interleave at their awaits; each is  *)
(* split there.  A socket id is used once: a client that connects again    *)
(* gets a new one, perhaps before the server has noticed that the old one  *)
(* is gone.  Clients send join-room once per socket, and leave-room just   *)
(* before they disconnect; a page that has already left, and was only then *)
(* given its microphone, names no session in it (LiveSessionContext).      *)
(***************************************************************************)
CONSTANTS
    Users,      \* the teacher of the session and the students who may join
    Sockets,    \* socket ids: bounds the connections in the life of the session
    None

ASSUME SocketAssumption == None \notin Users

VARIABLES
    status,             \* of the session's row, or "deleted"
    deleting,           \* a deleteSession has passed its check
    rows, present,      \* users with a participant's row, and with one whose leftAt is null
    owner,              \* owner[s]: the user of socket s, None for an id not yet used
    open,               \* sockets the server takes for connected
    room,               \* sockets in the socket.io room of the session
    socketSessionMap,   \* sockets mapped to the session
    joining,            \* joining[s]: where the handler of its join-room is
    leaving,            \* leaving[s][h]: where the handler h of its leaving is
    heard,              \* heard[s]: the sockets in its panel, once it has received what was sent
    listed,             \* listed[s]: the users its join-room has found present, until it sends them
    shown,              \* shown[s]: the users in its panel for whom it was given no socket
    asked,              \* users who have asked to leave by HTTP and whose socket is still there
    disturbed           \* users whose joins and leaves overlapped, or failed

session == <<status, deleting>>
attendance == <<rows, present, asked, disturbed>>
connections == <<owner, open>>
panels == <<heard, listed, shown>>
vars == <<session, attendance, connections, room, socketSessionMap, joining, leaving, panels>>

LeaveHandlers == {"leave-room", "disconnect"}

TypeOK ==
    /\ status \in {"scheduled", "live", "ended", "deleted"}
    /\ deleting \in BOOLEAN
    /\ rows \subseteq Users /\ present \subseteq rows
    /\ asked \subseteq Users /\ disturbed \subseteq Users
    /\ owner \in [Sockets -> Users \cup {None}]
    /\ open \subseteq Sockets /\ room \subseteq open /\ socketSessionMap \subseteq Sockets
    /\ joining \in [Sockets -> {"idle", "find", "insert", "update", "list", "tell", "done", "failed"}]
    /\ leaving \in [Sockets -> [LeaveHandlers -> {"none", "mark", "tell", "done"}]]
    /\ heard \in [Sockets -> SUBSET Sockets]
    /\ listed \in [Sockets -> SUBSET Users] /\ shown \in [Sockets -> SUBSET Users]

Init ==
    /\ status = "scheduled" /\ deleting = FALSE
    /\ rows = {} /\ present = {} /\ asked = {} /\ disturbed = {}
    /\ owner = [s \in Sockets |-> None]
    /\ open = {} /\ room = {} /\ socketSessionMap = {}
    /\ joining = [s \in Sockets |-> "idle"]
    /\ leaving = [s \in Sockets |-> [h \in LeaveHandlers |-> "none"]]
    /\ heard = [s \in Sockets |-> {}]
    /\ listed = [s \in Sockets |-> {}] /\ shown = [s \in Sockets |-> {}]

-----------------------------------------------------------------------------
(* Who is in the room, and what is still being done about it               *)

SocketsOf(u) == {s \in Sockets : owner[s] = u}
InRoom(u) == SocketsOf(u) \cap room # {}

Joins(s)  == joining[s] \notin {"idle", "done", "failed"}
Leaves(s) == \E h \in LeaveHandlers : leaving[s][h] \in {"mark", "tell"}
Quiet(u)  == \A s \in SocketsOf(u) : ~Joins(s) /\ ~Leaves(s)

-----------------------------------------------------------------------------
(* The session's row.  startSession and endSession check who asks and not  *)
(* the status: what they read decides nothing that they write.             *)

SetStatus(to) ==
    /\ status # "deleted"
    /\ status' = to
    /\ UNCHANGED <<deleting, attendance, connections, room, socketSessionMap, joining, leaving, panels>>

startSession == SetStatus("live")
endSession == SetStatus("ended")

\* deleteSession reads the row, refuses a live session, and deletes; the participants'
\* rows go with it.
deleteSession ==
    /\ ~deleting /\ status \in {"scheduled", "ended"}
    /\ deleting' = TRUE
    /\ UNCHANGED <<status, attendance, connections, room, socketSessionMap, joining, leaving, panels>>

DeleteRow ==
    /\ deleting
    /\ deleting' = FALSE /\ status' = "deleted"
    /\ rows' = {} /\ present' = {}
    /\ UNCHANGED <<asked, disturbed, connections, room, socketSessionMap, joining, leaving, panels>>

-----------------------------------------------------------------------------
(* join-room: enter the room and the map; joinSession (read the session    *)
(* and the participant's row, save); list who is present; tell the others. *)

handleConnection(s, u) ==
    /\ owner[s] = None
    /\ owner' = [owner EXCEPT ![s] = u]
    /\ open' = open \cup {s}
    /\ UNCHANGED <<session, attendance, room, socketSessionMap, joining, leaving, panels>>

handleJoinRoom(s) ==
    /\ s \in open /\ joining[s] = "idle"
    /\ room' = room \cup {s}
    /\ socketSessionMap' = socketSessionMap \cup {s}
    /\ joining' = [joining EXCEPT ![s] = "find"]
    /\ disturbed' = IF Quiet(owner[s]) /\ ~InRoom(owner[s]) THEN disturbed
                    ELSE disturbed \cup {owner[s]}
    /\ UNCHANGED <<session, rows, present, asked, connections, leaving, panels>>

\* findWithDetails and findOne: a session that is gone ends joinSession.
JoinFind(s) ==
    /\ joining[s] = "find"
    /\ joining' = [joining EXCEPT ![s] = IF status = "deleted" THEN "list"
                                         ELSE IF owner[s] \in rows THEN "update" ELSE "insert"]
    /\ UNCHANGED <<session, attendance, connections, room, socketSessionMap, leaving, panels>>

\* The save of upsertParticipant.  An insert fails when another join has inserted the row
\* (unique index), and any save when the session or the database is gone; joining goes on.
JoinSave(s) ==
    /\ joining[s] \in {"insert", "update"}
    /\ joining' = [joining EXCEPT ![s] = "list"]
    /\ \/ /\ status # "deleted"
          /\ joining[s] = "insert" => owner[s] \notin rows
          /\ rows' = rows \cup {owner[s]} /\ present' = present \cup {owner[s]}
          /\ UNCHANGED disturbed
       \/ /\ disturbed' = disturbed \cup {owner[s]}
          /\ UNCHANGED <<rows, present>>
    /\ UNCHANGED <<session, asked, connections, room, socketSessionMap, leaving, panels>>

\* getSessionParticipants, whose failure ends the handler.
JoinList(s) ==
    /\ joining[s] = "list"
    /\ \/ joining' = [joining EXCEPT ![s] = "tell"] /\ listed' = [listed EXCEPT ![s] = present]
       \/ joining' = [joining EXCEPT ![s] = "failed"] /\ UNCHANGED listed
    /\ UNCHANGED <<session, attendance, connections, room, socketSessionMap, leaving, heard, shown>>

\* room-state names the users that were found present, the newcomer among them, and no socket
RoomState(s) ==
    /\ shown' = IF s \in room THEN [shown EXCEPT ![s] = listed[s]] ELSE shown
    /\ listed' = [listed EXCEPT ![s] = {}]

\* Mutant of JoinTell: the newcomer is told of itself too.
JoinTellAll(s) ==
    /\ joining[s] = "tell"
    /\ joining' = [joining EXCEPT ![s] = "done"]
    /\ heard' = [x \in Sockets |-> IF x \in room THEN heard[x] \cup {s} ELSE heard[x]]
    /\ RoomState(s)
    /\ UNCHANGED <<session, attendance, connections, room, socketSessionMap, leaving>>

\* room-state, which replaces the panel of s, and peer-joined, which the others add to theirs.
JoinTell(s) ==
    /\ joining[s] = "tell"
    /\ joining' = [joining EXCEPT ![s] = "done"]
    /\ heard' = [x \in Sockets |-> IF x = s THEN {}
                                   ELSE IF x \in room THEN heard[x] \cup {s} ELSE heard[x]]
    /\ RoomState(s)
    /\ UNCHANGED <<session, attendance, connections, room, socketSessionMap, leaving>>

-----------------------------------------------------------------------------
(* leave-room and disconnect share _handleLeave: leave the room, mark the  *)
(* user's row as left, tell the others; then the socket is forgotten.      *)

StartLeave(s, h) ==
    LET overlaps == Joins(s) \/ \E x \in SocketsOf(owner[s]) \ {s} : x \in room \/ Leaves(x)
    IN /\ leaving' = [leaving EXCEPT ![s][h] = "mark"]
       /\ disturbed' = IF overlaps THEN disturbed \cup {owner[s]} ELSE disturbed
       /\ asked' = asked \ {owner[s]}

\* The page of s is gone, or will get another room state under another socket id.
PanelCloses(s) ==
    /\ heard' = [heard EXCEPT ![s] = {}] /\ shown' = [shown EXCEPT ![s] = {}]
    /\ UNCHANGED listed

handleLeaveRoom(s) ==
    /\ s \in room
    /\ room' = room \ {s}
    /\ PanelCloses(s)
    /\ StartLeave(s, "leave-room")
    /\ UNCHANGED <<session, rows, present, connections, socketSessionMap, joining>>

\* Without a session, the only effect is that the map loses the socket.
handleLeaveRoomUnnamed(s) ==
    /\ s \in room
    /\ socketSessionMap' = socketSessionMap \ {s}
    /\ disturbed' = disturbed \cup {owner[s]}
    /\ UNCHANGED <<session, rows, present, asked, connections, room, joining, leaving, panels>>

\* Mutant of handleDisconnect: only leave-room takes a socket out of its room.
DisconnectKeepingRoom(s) ==
    /\ s \in open
    /\ open' = open \ {s}
    /\ PanelCloses(s)
    /\ IF s \in socketSessionMap THEN StartLeave(s, "disconnect")
       ELSE UNCHANGED <<leaving, disturbed, asked>>
    /\ UNCHANGED <<session, rows, present, owner, room, socketSessionMap, joining>>

\* socket.io takes a socket out of its rooms before the gateway hears of it.
handleDisconnect(s) ==
    /\ s \in open
    /\ open' = open \ {s} /\ room' = room \ {s}
    /\ PanelCloses(s)
    /\ IF s \in socketSessionMap THEN StartLeave(s, "disconnect")
       ELSE UNCHANGED <<leaving, disturbed, asked>>
    /\ UNCHANGED <<session, rows, present, owner, socketSessionMap, joining>>

\* Mutant of LeaveMark: a lost connection is not marked.
LeaveMarkOnRequest(s, h) ==
    /\ leaving[s][h] = "mark"
    /\ leaving' = [leaving EXCEPT ![s][h] = "tell"]
    /\ present' = IF h = "leave-room" THEN present \ {owner[s]} ELSE present
    /\ UNCHANGED <<session, rows, asked, disturbed, connections, room, socketSessionMap, joining, panels>>

\* markLeft, whose failure is ignored.
LeaveMark(s, h) ==
    /\ leaving[s][h] = "mark"
    /\ leaving' = [leaving EXCEPT ![s][h] = "tell"]
    /\ \/ present' = present \ {owner[s]} /\ UNCHANGED disturbed
       \/ disturbed' = disturbed \cup {owner[s]} /\ UNCHANGED present
    /\ UNCHANGED <<session, rows, asked, connections, room, socketSessionMap, joining, panels>>

\* Mutants of LeaveTell: only leave-room tells the others; the map keeps the socket.
LeaveTellOnRequest(s, h) ==
    /\ leaving[s][h] = "tell"
    /\ leaving' = [leaving EXCEPT ![s][h] = "done"]
    /\ heard' = [x \in Sockets |-> IF x \in room /\ h = "leave-room" THEN heard[x] \ {s} ELSE heard[x]]
    /\ socketSessionMap' = socketSessionMap \ {s}
    /\ UNCHANGED <<session, attendance, connections, room, joining, listed, shown>>

LeaveTellKeepingMap(s, h) ==
    /\ leaving[s][h] = "tell"
    /\ leaving' = [leaving EXCEPT ![s][h] = "done"]
    /\ heard' = [x \in Sockets |-> IF x \in room \ {s} THEN heard[x] \ {s} ELSE heard[x]]
    /\ UNCHANGED <<session, attendance, connections, room, socketSessionMap, joining, listed, shown>>

LeaveTell(s, h) ==
    /\ leaving[s][h] = "tell"
    /\ leaving' = [leaving EXCEPT ![s][h] = "done"]
    /\ heard' = [x \in Sockets |-> IF x \in room \ {s} THEN heard[x] \ {s} ELSE heard[x]]
    /\ socketSessionMap' = socketSessionMap \ {s}
    /\ UNCHANGED <<session, attendance, connections, room, joining, listed, shown>>

\* POST leave, after which the client sends leave-room and disconnects.
leaveSession(u) ==
    /\ InRoom(u) /\ u \notin asked
    /\ present' = present \ {u}
    /\ asked' = asked \cup {u}
    /\ disturbed' = IF Quiet(u) THEN disturbed ELSE disturbed \cup {u}
    /\ UNCHANGED <<session, rows, connections, room, socketSessionMap, joining, leaving, panels>>

-----------------------------------------------------------------------------
Row == startSession \/ endSession \/ deleteSession \/ DeleteRow

Client(s) ==
    \/ \E u \in Users : handleConnection(s, u)
    \/ handleJoinRoom(s) \/ handleLeaveRoom(s) \/ handleLeaveRoomUnnamed(s) \/ handleDisconnect(s)

Handler(s) ==
    \/ JoinFind(s) \/ JoinSave(s) \/ JoinList(s) \/ JoinTell(s)
    \/ \E h \in LeaveHandlers : LeaveMark(s, h) \/ LeaveTell(s, h)

Next ==
    \/ Row
    \/ \E s \in Sockets : Client(s) \/ Handler(s)
    \/ \E u \in Users : leaveSession(u)

Spec == Init /\ [][Next]_vars

-----------------------------------------------------------------------------
\* Nothing is being done about u's presence.
Settled(u) == Quiet(u) /\ u \notin asked /\ \A s \in SocketsOf(u) \cap open : joining[s] \in {"done", "failed"}

\* The rows say who is in class: a user whose joins and leaves did not overlap or fail, and
\* about whom nothing is being done, is present exactly while a socket of theirs is in the
\* room, however often they came back and whichever way they left: leave-room, a lost
\* connection, POST leave, or two of these at once (live.gateway.ts:74-152,
\* live-class.service.ts:182-199).
AttendanceIsExact ==
    status # "deleted" => \A u \in Users \ disturbed : Settled(u) => (u \in present <=> InRoom(u))

\* A socket announced by peer-joined is forgotten by every page that heard of it: neither its
\* entry in the panel nor the connection made for it outlives it, unless its join was still
\* being handled when it left or a call failed, for peer-left comes after peer-joined
\* (live.gateway.ts:118-148, LiveSessionContext.tsx:292-319).
AnnouncedPeersAreForgotten ==
    \A x \in room : \A s \in heard[x] : s \in room \/ Leaves(s) \/ owner[s] \in disturbed

PanelOf(x) == shown[x] \cup {owner[s] : s \in heard[x]}

\* When nothing is under way and nothing ever overlapped or failed, a panel shows nobody who has
\* left: "Participant count updates instantly as students join and leave the session"
\* (docs/test_cases/SmartEdX_Test_Cases.csv:46).  The code does not keep it: room-state names
\* users without a socket, and peer-left takes entries out by their socket
\* (LiveSessionContext.tsx:288-290, 315-319).
PanelsFollowTheClass ==
    /\ disturbed = {} /\ \A s \in Sockets : joining[s] \in {"idle", "done"}
    /\ \A u \in Users : Settled(u)
    => \A x \in room : \A u \in PanelOf(x) : InRoom(u)

\* What socketSessionMap keeps, it loses again: a dead socket is in neither map nor room once
\* its handlers are through, even if it asked to leave and disconnected before the answer
\* (live.gateway.ts:34, 79, 134).
DeadSocketsAreForgotten ==
    \A s \in Sockets \ open : Leaves(s) \/ s \notin socketSessionMap \cup room

Room == INSTANCE LiveRoom WITH
    where <- [s \in Sockets |-> IF joining[s] = "idle" THEN "out" ELSE IF s \in room THEN "in" ELSE "gone"],
    announced <- {s \in Sockets : joining[s] = "done"},
    heard <- heard

\* The gateway implements the room that the pages of LiveCall rely on (live.gateway.ts:88-151).
ImplementsRoom == Room!RoomSpec

=============================================================================
