----------------------------- MODULE LiveProofs -----------------------------
(***************************************************************************)
(* Proofs about LiveGateway, for any users and any number of socket ids:   *)
(* its invariants, and that it implements LiveRoom.                        *)
(***************************************************************************)
EXTENDS LiveGateway, TLAPS

(* What is true of a socket.  Nothing has happened to an unused id; a      *)
(* socket is in the room only after asking, and its leaving takes it out.  *)

SocketSound(s) ==
    /\ owner[s] = None => joining[s] = "idle" /\ s \notin open
    /\ joining[s] = "idle" => s \notin room /\ s \notin socketSessionMap /\ ~Leaves(s)
    /\ s \in room => s \in open /\ ~Leaves(s)
    /\ s \notin room => heard[s] = {}
    /\ s \notin open => Leaves(s) \/ s \notin socketSessionMap

SocketsSound == \A s \in Sockets : SocketSound(s)

\* Only sockets whose join is through are in a panel.
PanelsSound == \A x, s \in Sockets : s \in heard[x] => joining[s] = "done"

(* What is true of the sockets of an undisturbed user: one at a time is    *)
(* doing anything, it is still in the room while its join is handled, and  *)
(* the row of the user follows it.                                         *)

Active(s) == s \in room \/ Joins(s) \/ Leaves(s)
Marks(s) == \E h \in LeaveHandlers : leaving[s][h] = "mark"

OneActive ==
    \A s, x \in Sockets : s # x /\ owner[s] = owner[x] /\ owner[s] \notin disturbed
                          => ~(Active(s) /\ Active(x))

JoinersAreIn == \A s \in Sockets : Joins(s) /\ owner[s] \notin disturbed => s \in room

JoinedArePresent ==
    \A s \in Sockets : s \in room /\ joining[s] \in {"list", "tell", "done", "failed"}
                       /\ owner[s] \notin disturbed /\ status # "deleted"
                       => owner[s] \in present \cup asked

PresentAreIn ==
    \A u \in present \ disturbed : \E s \in Sockets : owner[s] = u /\ (s \in room \/ Marks(s))

MembersAreMapped == \A s \in room : owner[s] \notin disturbed => s \in socketSessionMap

UserSound == MembersAreMapped /\ OneActive /\ JoinersAreIn /\ JoinedArePresent /\ PresentAreIn

IInv == TypeOK /\ SocketsSound /\ PanelsSound /\ UserSound /\ AnnouncedPeersAreForgotten

-----------------------------------------------------------------------------
LEMMA HandlerNames == LeaveHandlers = {"leave-room", "disconnect"}
BY DEF LeaveHandlers

LEMMA TypeInit == Init => TypeOK
<1> SUFFICES ASSUME Init PROVE TypeOK
    OBVIOUS
<1>1. joining \in [Sockets -> {"idle", "find", "insert", "update", "list", "tell", "done", "failed"}]
      BY DEF Init
<1>2. leaving \in [Sockets -> [LeaveHandlers -> {"none", "mark", "tell", "done"}]]
      BY DEF Init
<1> QED BY <1>1, <1>2 DEF Init, TypeOK

LEMMA TypeNext == TypeOK /\ SocketsSound /\ [Next]_vars => TypeOK'
<1> SUFFICES ASSUME TypeOK, SocketsSound, [Next]_vars PROVE TypeOK'
    OBVIOUS
<1> USE DEF TypeOK, session, attendance, connections, panels
<1>1. CASE Row
      BY <1>1 DEF Row, startSession, endSession, SetStatus, deleteSession, DeleteRow
<1>2. ASSUME NEW s \in Sockets, Client(s) PROVE TypeOK'
  <2>1. ASSUME NEW u \in Users, handleConnection(s, u) PROVE TypeOK'
        BY <2>1 DEF handleConnection
  <2>2. CASE handleJoinRoom(s)
        BY <2>2, SocketAssumption DEF handleJoinRoom, SocketsSound, SocketSound
  <2>3. CASE handleLeaveRoom(s)
    <3>1. owner[s] \in Users
          BY <2>3 DEF handleLeaveRoom, SocketsSound, SocketSound
    <3> QED BY <3>1, <2>3, HandlerNames DEF handleLeaveRoom, StartLeave, PanelCloses
  <2>4. CASE handleDisconnect(s)
    <3>1. owner[s] \in Users
          BY <2>4 DEF handleDisconnect, SocketsSound, SocketSound
    <3>2. leaving' \in [Sockets -> [LeaveHandlers -> {"none", "mark", "tell", "done"}]]
      <4>1. CASE s \in socketSessionMap
            BY <2>4, <4>1, HandlerNames DEF handleDisconnect, StartLeave
      <4>2. CASE s \notin socketSessionMap
            BY <2>4, <4>2 DEF handleDisconnect
      <4> QED BY <4>1, <4>2
    <3>3. disturbed' \subseteq Users /\ asked' \subseteq Users
          BY <3>1, <2>4 DEF handleDisconnect, StartLeave
    <3> QED BY <3>2, <3>3, <2>4 DEF handleDisconnect, PanelCloses
  <2>5. CASE handleLeaveRoomUnnamed(s)
        BY <2>5, SocketAssumption DEF handleLeaveRoomUnnamed, SocketsSound, SocketSound
  <2> QED BY <1>2, <2>1, <2>2, <2>3, <2>4, <2>5 DEF Client
<1>3. ASSUME NEW s \in Sockets, Handler(s) PROVE TypeOK'
  <2>0. joining[s] # "idle" => owner[s] \in Users
        BY DEF SocketsSound, SocketSound
  <2>1. CASE JoinFind(s)
        BY <2>1 DEF JoinFind
  <2>2. CASE JoinSave(s)
        BY <2>0, <2>2 DEF JoinSave
  <2>3. CASE JoinList(s)
        BY <2>3 DEF JoinList
  <2>6. CASE JoinTell(s)
        BY <2>6 DEF JoinTell, RoomState
  <2>4. ASSUME NEW h \in LeaveHandlers, LeaveMark(s, h) PROVE TypeOK'
        BY <2>0, <2>4 DEF LeaveMark, SocketsSound, SocketSound, Leaves
  <2>5. ASSUME NEW h \in LeaveHandlers, LeaveTell(s, h) PROVE TypeOK'
        BY <2>5 DEF LeaveTell
  <2> QED BY <1>3, <2>1, <2>2, <2>3, <2>4, <2>5, <2>6 DEF Handler
<1>4. ASSUME NEW u \in Users, leaveSession(u) PROVE TypeOK'
      BY <1>4 DEF leaveSession
<1>5. CASE UNCHANGED vars
      BY <1>5 DEF vars
<1> QED BY <1>1, <1>2, <1>3, <1>4, <1>5 DEF Next

-----------------------------------------------------------------------------
(* What is true of every socket                                            *)

LEMMA SocketsInit == Init => SocketsSound
BY HandlerNames DEF Init, SocketsSound, SocketSound, Leaves

\* A step that leaves a socket alone leaves what is true of it alone.
LEMMA SocketKept ==
    ASSUME NEW s \in Sockets, SocketSound(s),
           owner'[s] = owner[s], joining'[s] = joining[s], leaving'[s] = leaving[s],
           s \in room' <=> s \in room, s \in open' <=> s \in open,
           s \in socketSessionMap' <=> s \in socketSessionMap,
           s \notin room => heard'[s] = {}
    PROVE  SocketSound(s)'
BY DEF SocketSound, Leaves

LEMMA SocketsNext == TypeOK /\ SocketsSound /\ [Next]_vars => SocketsSound'
<1> SUFFICES ASSUME TypeOK, SocketsSound, [Next]_vars, NEW x \in Sockets PROVE SocketSound(x)'
    BY DEF SocketsSound
<1>0. SocketSound(x)
      BY DEF SocketsSound
<1> USE DEF TypeOK, session, attendance, connections, panels
<1>1. CASE Row \/ (\E u \in Users : leaveSession(u)) \/ UNCHANGED vars
      BY <1>0, <1>1, SocketKept
      DEF Row, startSession, endSession, SetStatus, deleteSession, DeleteRow, leaveSession, vars, SocketSound
<1>2. ASSUME NEW s \in Sockets, Client(s) PROVE SocketSound(x)'
  <2>1. ASSUME NEW u \in Users, handleConnection(s, u) PROVE SocketSound(x)'
    <3>1. CASE x = s
          BY <1>0, <2>1, <3>1, SocketAssumption DEF handleConnection, SocketSound, Leaves
    <3>2. CASE x # s
          BY <1>0, <2>1, <3>2, SocketKept DEF handleConnection, SocketSound
    <3> QED BY <3>1, <3>2
  <2>2. CASE handleJoinRoom(s)
    <3>1. CASE x = s
          BY <1>0, <2>2, <3>1 DEF handleJoinRoom, SocketSound, Leaves
    <3>2. CASE x # s
          BY <1>0, <2>2, <3>2, SocketKept DEF handleJoinRoom, SocketSound
    <3> QED BY <3>1, <3>2
  <2>3. CASE handleLeaveRoom(s)
    <3>1. CASE x = s
      <4>1. leaving'[x]["leave-room"] = "mark"
            BY <2>3, <3>1, HandlerNames DEF handleLeaveRoom, StartLeave, PanelCloses
      <4> QED BY <4>1, <1>0, <2>3, <3>1, HandlerNames DEF handleLeaveRoom, PanelCloses, SocketSound, Leaves
    <3>2. CASE x # s
      <4>1. leaving'[x] = leaving[x]
            BY <2>3, <3>2 DEF handleLeaveRoom, StartLeave, PanelCloses
      <4> QED BY <4>1, <1>0, <2>3, <3>2, SocketKept DEF handleLeaveRoom, PanelCloses, SocketSound
    <3> QED BY <3>1, <3>2
  <2>4. CASE handleDisconnect(s)
    <3>1. CASE x = s /\ s \in socketSessionMap
      <4>1. leaving'[x]["disconnect"] = "mark"
            BY <2>4, <3>1, HandlerNames DEF handleDisconnect, StartLeave
      <4> QED BY <4>1, <1>0, <2>4, <3>1, HandlerNames DEF handleDisconnect, PanelCloses, SocketSound, Leaves
    <3>2. CASE x = s /\ s \notin socketSessionMap
          BY <1>0, <2>4, <3>2 DEF handleDisconnect, PanelCloses, SocketSound, Leaves
    <3>3. CASE x # s
      <4>1. leaving'[x] = leaving[x]
            BY <2>4, <3>3 DEF handleDisconnect, StartLeave
      <4> QED BY <4>1, <1>0, <2>4, <3>3, SocketKept DEF handleDisconnect, PanelCloses, SocketSound
    <3> QED BY <3>1, <3>2, <3>3
  <2>5. CASE handleLeaveRoomUnnamed(s)
        BY <1>0, <2>5 DEF handleLeaveRoomUnnamed, SocketSound, Leaves
  <2> QED BY <1>2, <2>1, <2>2, <2>3, <2>4, <2>5 DEF Client
<1>3. ASSUME NEW s \in Sockets, Handler(s) PROVE SocketSound(x)'
  <2>1. CASE JoinFind(s) \/ JoinSave(s) \/ JoinList(s)
    <3>1. joining'[x] = "idle" <=> joining[x] = "idle"
          BY <2>1 DEF JoinFind, JoinSave, JoinList
    <3>2. UNCHANGED <<owner, open, room, socketSessionMap, leaving, heard>>
          BY <2>1 DEF JoinFind, JoinSave, JoinList
    <3> QED BY <3>1, <3>2, <1>0 DEF SocketSound, Leaves
  <2>2. CASE JoinTell(s)
        BY <1>0, <2>2 DEF JoinTell, RoomState, SocketSound, Leaves
  <2>3. ASSUME NEW h \in LeaveHandlers, LeaveMark(s, h) PROVE SocketSound(x)'
    <3>1. \A g \in LeaveHandlers :
             leaving'[x][g] \in {"mark", "tell"} <=> leaving[x][g] \in {"mark", "tell"}
          BY <2>3 DEF LeaveMark
    <3>2. Leaves(x)' <=> Leaves(x)
          BY <3>1 DEF Leaves
    <3>3. UNCHANGED <<owner, open, room, socketSessionMap, joining, heard>>
          BY <2>3 DEF LeaveMark
    <3> QED BY <3>2, <3>3, <1>0 DEF SocketSound
  <2>4. ASSUME NEW h \in LeaveHandlers, LeaveTell(s, h) PROVE SocketSound(x)'
    <3>1. Leaves(s)
          BY <2>4 DEF LeaveTell, Leaves
    <3>2. CASE x = s
          BY <3>1, <3>2, <1>0, <2>4 DEF LeaveTell, SocketSound
    <3>3. CASE x # s
      <4>1. leaving'[x] = leaving[x]
            BY <2>4, <3>3 DEF LeaveTell
      <4> QED BY <4>1, <1>0, <2>4, <3>3, SocketKept DEF LeaveTell, SocketSound
    <3> QED BY <3>2, <3>3
  <2> QED BY <1>3, <2>1, <2>2, <2>3, <2>4 DEF Handler
<1> QED BY <1>1, <1>2, <1>3 DEF Next

\* Types are as TypeOK says.
THEOREM TypeCorrect == Spec => []TypeOK
<1>1. TypeOK /\ SocketsSound /\ [Next]_vars => (TypeOK /\ SocketsSound)'
      BY TypeNext, SocketsNext
<1> QED BY <1>1, TypeInit, SocketsInit, PTL DEF Spec

\* A dead socket is in neither map nor room once its handlers are through.
THEOREM Forgets == Spec => []DeadSocketsAreForgotten
<1>1. TypeOK /\ SocketsSound /\ [Next]_vars => (TypeOK /\ SocketsSound)'
      BY TypeNext, SocketsNext
<1>2. TypeOK /\ SocketsSound => DeadSocketsAreForgotten
      BY DEF SocketsSound, SocketSound, DeadSocketsAreForgotten, TypeOK
<1> QED BY <1>1, <1>2, TypeInit, SocketsInit, PTL DEF Spec

-----------------------------------------------------------------------------
(* The gateway implements the room                                         *)

LEMMA RoomInits == Init => Room!RoomInit
BY DEF Init, Room!RoomInit

LEMMA RoomSteps == TypeOK /\ SocketsSound /\ [Next]_vars => [Room!RoomNext]_(Room!roomVars)
<1> DEFINE at(s) == IF joining[s] = "idle" THEN "out" ELSE IF s \in room THEN "in" ELSE "gone"
           Where == [s \in Sockets |-> at(s)]
           Announced == {s \in Sockets : joining[s] = "done"}
<1> SUFFICES ASSUME TypeOK, SocketsSound, [Next]_vars
             PROVE  \/ \E s \in Sockets : Room!Enter(s) \/ Room!Announce(s) \/ Room!Leave(s) \/ Room!Farewell(s)
                    \/ UNCHANGED <<Where, Announced, heard>>
    BY DEF Room!RoomNext, Room!roomVars
<1> USE DEF TypeOK, session, attendance, connections, panels
<1>0. Room!Inside = room
      BY DEF Room!Inside, SocketsSound, SocketSound
<1>1. CASE Row \/ (\E u \in Users : leaveSession(u)) \/ UNCHANGED vars
  <2>1. UNCHANGED <<joining, room, heard>>
        BY <1>1 DEF Row, startSession, endSession, SetStatus, deleteSession, DeleteRow, leaveSession, vars
  <2> QED BY <2>1
<1>2. ASSUME NEW s \in Sockets, Client(s) PROVE Room!Enter(s) \/ Room!Leave(s) \/ UNCHANGED <<Where, Announced, heard>>
  <2>1. ASSUME NEW u \in Users, handleConnection(s, u) PROVE UNCHANGED <<Where, Announced, heard>>
        BY <2>1 DEF handleConnection
  <2>2. CASE handleJoinRoom(s)
    <3>1. Where[s] = "out" /\ Where' = [Where EXCEPT ![s] = "in"]
          BY <2>2 DEF handleJoinRoom
    <3>2. Announced' = Announced /\ heard' = heard
          BY <2>2 DEF handleJoinRoom
    <3> QED BY <3>1, <3>2 DEF Room!Enter
  <2>3. CASE handleLeaveRoom(s) \/ (handleDisconnect(s) /\ s \in room)
    <3>1. joining[s] # "idle" /\ s \in room
          BY <2>3 DEF handleLeaveRoom, SocketsSound, SocketSound
    <3>2. joining' = joining /\ room' = room \ {s} /\ heard' = [heard EXCEPT ![s] = {}]
          BY <2>3 DEF handleLeaveRoom, handleDisconnect, PanelCloses
    <3>3. Where[s] = "in" /\ Where' = [Where EXCEPT ![s] = "gone"]
          BY <3>1, <3>2
    <3> QED BY <3>2, <3>3 DEF Room!Leave
  <2>4. CASE handleDisconnect(s) /\ s \notin room
    <3>1. joining' = joining /\ room' = room /\ heard' = [heard EXCEPT ![s] = {}]
          BY <2>4 DEF handleDisconnect, PanelCloses
    <3>2. heard' = heard
          BY <3>1, <2>4 DEF SocketsSound, SocketSound
    <3> QED BY <3>1, <3>2
  <2>5. CASE handleLeaveRoomUnnamed(s)
        BY <2>5 DEF handleLeaveRoomUnnamed
  <2> QED BY <1>2, <2>1, <2>2, <2>3, <2>4, <2>5 DEF Client
<1>3. ASSUME NEW s \in Sockets, Handler(s)
      PROVE  Room!Announce(s) \/ Room!Farewell(s) \/ UNCHANGED <<Where, Announced, heard>>
  <2>1. CASE JoinFind(s) \/ JoinSave(s) \/ JoinList(s)
    <3>1. /\ \A x \in Sockets : joining'[x] = "idle" <=> joining[x] = "idle"
          /\ \A x \in Sockets : joining'[x] = "done" <=> joining[x] = "done"
          BY <2>1 DEF JoinFind, JoinSave, JoinList
    <3>2. UNCHANGED <<room, heard>>
          BY <2>1 DEF JoinFind, JoinSave, JoinList
    <3> QED BY <3>1, <3>2
  <2>2. CASE JoinTell(s)
    <3>1. Where[s] # "out" /\ s \notin Announced /\ Where' = Where /\ Announced' = Announced \cup {s}
          BY <2>2 DEF JoinTell, RoomState
    <3> QED BY <3>1, <2>2, <1>0 DEF JoinTell, RoomState, Room!Announce
  <2>3. ASSUME NEW h \in LeaveHandlers, LeaveMark(s, h) PROVE UNCHANGED <<Where, Announced, heard>>
        BY <2>3 DEF LeaveMark
  <2>4. ASSUME NEW h \in LeaveHandlers, LeaveTell(s, h) PROVE Room!Farewell(s)
    <3>1. Leaves(s)
          BY <2>4 DEF LeaveTell, Leaves
    <3>2. joining[s] # "idle" /\ s \notin room
          BY <3>1 DEF SocketsSound, SocketSound
    <3>3. Where[s] = "gone" /\ UNCHANGED <<Where, Announced>>
          BY <3>2, <2>4 DEF LeaveTell
    <3> QED BY <3>2, <3>3, <2>4, <1>0 DEF LeaveTell, Room!Farewell
  <2> QED BY <1>3, <2>1, <2>2, <2>3, <2>4 DEF Handler
<1> QED BY <1>1, <1>2, <1>3 DEF Next

\* The gateway implements the room that the pages rely on.
THEOREM Refinement == Spec => ImplementsRoom
<1>1. TypeOK /\ SocketsSound /\ [Next]_vars => (TypeOK /\ SocketsSound)'
      BY TypeNext, SocketsNext
<1> QED BY <1>1, TypeInit, SocketsInit, RoomInits, RoomSteps, PTL DEF Spec, ImplementsRoom, Room!RoomSpec

-----------------------------------------------------------------------------
(* The rows of undisturbed users                                           *)

LEMMA PanelsNext == TypeOK /\ PanelsSound /\ [Next]_vars => PanelsSound'
<1> SUFFICES ASSUME TypeOK, PanelsSound, [Next]_vars, NEW x \in Sockets, NEW y \in Sockets, y \in heard'[x]
             PROVE  joining'[y] = "done"
    BY DEF PanelsSound
<1> USE DEF TypeOK, session, attendance, connections, panels
<1>1. CASE \E s \in Sockets : JoinTell(s)
      BY <1>1 DEF JoinTell, RoomState, PanelsSound
<1>2. CASE ~\E s \in Sockets : JoinTell(s)
  <2>1. y \in heard[x]
        BY <1>2 DEF Next, vars, Row, startSession, endSession, SetStatus, deleteSession, DeleteRow, leaveSession,
             Client, Handler, handleConnection, handleJoinRoom, handleLeaveRoom, handleLeaveRoomUnnamed, handleDisconnect,
             JoinFind, JoinSave, JoinList, LeaveMark, LeaveTell, PanelCloses
  <2>2. joining[y] = "done"
        BY <2>1 DEF PanelsSound
  <2>3. joining'[y] = joining[y]
        BY <1>2, <2>2 DEF Next, vars, Row, startSession, endSession, SetStatus, deleteSession, DeleteRow, leaveSession,
             Client, Handler, handleConnection, handleJoinRoom, handleLeaveRoom, handleLeaveRoomUnnamed, handleDisconnect,
             JoinFind, JoinSave, JoinList, LeaveMark, LeaveTell
  <2> QED BY <2>2, <2>3
<1> QED BY <1>1, <1>2

LEMMA UsersInit == Init => UserSound /\ AnnouncedPeersAreForgotten
<1> SUFFICES ASSUME Init PROVE UserSound /\ AnnouncedPeersAreForgotten
    OBVIOUS
<1>1. \A s \in Sockets : ~Active(s)
      BY HandlerNames DEF Init, Active, Joins, Leaves
<1>2. JoinersAreIn /\ JoinedArePresent /\ PresentAreIn /\ AnnouncedPeersAreForgotten /\ MembersAreMapped
      BY DEF Init, MembersAreMapped, JoinersAreIn, Joins, JoinedArePresent, PresentAreIn, AnnouncedPeersAreForgotten
<1> QED BY <1>1, <1>2 DEF UserSound, OneActive

\* Steps of the session's row.
LEMMA UsersRow == TypeOK /\ SocketsSound /\ UserSound /\ AnnouncedPeersAreForgotten /\ (Row \/ UNCHANGED vars)
                  => UserSound' /\ AnnouncedPeersAreForgotten'
<1> SUFFICES ASSUME TypeOK, UserSound, AnnouncedPeersAreForgotten, Row \/ UNCHANGED vars
             PROVE  UserSound' /\ AnnouncedPeersAreForgotten'
    OBVIOUS
<1> USE DEF session, attendance, connections, panels
<1>1. /\ UNCHANGED <<owner, room, socketSessionMap, joining, leaving, heard, asked, disturbed>>
      /\ status' # "deleted" => status # "deleted" /\ present' = present
      /\ present' \subseteq present
      BY DEF Row, startSession, endSession, SetStatus, deleteSession, DeleteRow, vars
<1>2. MembersAreMapped' /\ OneActive' /\ JoinersAreIn' /\ AnnouncedPeersAreForgotten'
      BY <1>1 DEF UserSound, MembersAreMapped, OneActive, JoinersAreIn, AnnouncedPeersAreForgotten, Active, Joins, Leaves
<1>3. JoinedArePresent'
      BY <1>1 DEF UserSound, JoinedArePresent
<1>4. PresentAreIn'
      BY <1>1 DEF UserSound, PresentAreIn, Marks
<1> QED BY <1>2, <1>3, <1>4 DEF UserSound

LEMMA UsersConnect ==
    ASSUME TypeOK, SocketsSound, PanelsSound, UserSound, AnnouncedPeersAreForgotten,
           NEW s \in Sockets, NEW u \in Users, handleConnection(s, u)
    PROVE  UserSound' /\ AnnouncedPeersAreForgotten'
<1> USE DEF session, attendance, connections, panels
<1>1. /\ UNCHANGED <<status, present, asked, disturbed, room, socketSessionMap, joining, leaving, heard>>
      /\ owner' = [owner EXCEPT ![s] = u] /\ owner \in [Sockets -> Users \cup {None}]
      BY DEF handleConnection, TypeOK
<1>2. ~Active(s) /\ ~Marks(s) /\ \A x \in room : s \notin heard[x]
  <2>1. joining[s] = "idle" /\ s \notin open /\ ~Leaves(s) /\ s \notin room /\ ~Joins(s)
        BY DEF handleConnection, SocketsSound, SocketSound, Joins
  <2>2. \A x \in room : s \notin heard[x]
        BY <2>1 DEF PanelsSound, TypeOK
  <2> QED BY <2>1, <2>2 DEF Active, Marks, Leaves
<1>3. \A x \in Sockets : (Active(x)' <=> Active(x)) /\ (Joins(x)' <=> Joins(x)) /\ (Leaves(x)' <=> Leaves(x)) /\ (Marks(x)' <=> Marks(x))
      BY <1>1 DEF Active, Joins, Leaves, Marks
<1>4. OneActive'
      BY <1>1, <1>2, <1>3 DEF UserSound, OneActive
<1>5. JoinersAreIn' /\ JoinedArePresent' /\ MembersAreMapped'
      BY <1>1, <1>2, <1>3 DEF UserSound, JoinersAreIn, JoinedArePresent, MembersAreMapped, Active, TypeOK
<1>6. PresentAreIn'
      BY <1>1, <1>2, <1>3 DEF UserSound, PresentAreIn, Active
<1>7. AnnouncedPeersAreForgotten'
      BY <1>1, <1>2, <1>3 DEF AnnouncedPeersAreForgotten, TypeOK
<1> QED BY <1>4, <1>5, <1>6, <1>7 DEF UserSound

LEMMA UsersJoinRoom ==
    ASSUME TypeOK, SocketsSound, PanelsSound, UserSound, AnnouncedPeersAreForgotten,
           NEW s \in Sockets, handleJoinRoom(s)
    PROVE  UserSound' /\ AnnouncedPeersAreForgotten'
<1> USE DEF session, attendance, connections, panels
<1>1. /\ UNCHANGED <<status, present, asked, owner, leaving, heard>>
      /\ joining' = [joining EXCEPT ![s] = "find"] /\ joining[s] = "idle"
      /\ room' = room \cup {s} /\ disturbed \subseteq disturbed'
      /\ socketSessionMap' = socketSessionMap \cup {s}
      BY DEF handleJoinRoom
<1>2. owner[s] \notin disturbed' => \A x \in Sockets : owner[x] = owner[s] => ~Active(x)
      BY DEF handleJoinRoom, Quiet, InRoom, SocketsOf, Active
<1>3. s \notin room /\ heard[s] = {}
      BY <1>1 DEF SocketsSound, SocketSound
<1>4. \A x \in Sockets \ {s} : (Active(x)' <=> Active(x)) /\ (Joins(x)' <=> Joins(x))
      BY <1>1 DEF Active, Joins, Leaves, TypeOK
<1>5. OneActive'
      BY <1>1, <1>2, <1>4 DEF UserSound, OneActive
<1>6. JoinersAreIn' /\ JoinedArePresent' /\ MembersAreMapped'
      BY <1>1, <1>4 DEF UserSound, JoinersAreIn, JoinedArePresent, MembersAreMapped, TypeOK
<1>7. PresentAreIn'
      BY <1>1 DEF UserSound, PresentAreIn, Marks
<1>8. AnnouncedPeersAreForgotten'
      BY <1>1, <1>3 DEF AnnouncedPeersAreForgotten, Leaves
<1> QED BY <1>5, <1>6, <1>7, <1>8 DEF UserSound

\* The two ways out: what they have in common when the socket is mapped.
LEMMA UsersLeave ==
    ASSUME TypeOK, SocketsSound, PanelsSound, UserSound, AnnouncedPeersAreForgotten,
           NEW s \in Sockets, NEW h \in LeaveHandlers, StartLeave(s, h),
           room' = room \ {s}, heard' = [heard EXCEPT ![s] = {}],
           UNCHANGED <<status, present, owner, joining, socketSessionMap>>
    PROVE  UserSound' /\ AnnouncedPeersAreForgotten'
<1>1. /\ leaving' = [leaving EXCEPT ![s][h] = "mark"] /\ leaving'[s][h] = "mark"
      /\ disturbed \subseteq disturbed' /\ asked' = asked \ {owner[s]}
      BY DEF StartLeave, TypeOK
<1>2. owner[s] \notin disturbed' =>
         ~Joins(s) /\ \A x \in Sockets \ {s} : owner[x] = owner[s] => x \notin room /\ ~Leaves(x)
      BY DEF StartLeave, SocketsOf
<1>3. \A x \in Sockets \ {s} : /\ Active(x)' <=> Active(x)
                               /\ Leaves(x)' <=> Leaves(x)
                               /\ Marks(x)' <=> Marks(x)
      BY <1>1 DEF Active, Joins, Leaves, Marks, TypeOK
<1>4. Leaves(s)' /\ Marks(s)' /\ \A x \in Sockets : Joins(x)' <=> Joins(x)
      BY <1>1 DEF Leaves, Marks, Joins
<1>5. OneActive'
  <2> SUFFICES ASSUME NEW x \in Sockets, x # s, owner[x] = owner[s], owner[s] \notin disturbed'
               PROVE  ~Active(x)'
      BY <1>1, <1>3 DEF UserSound, OneActive
  <2>1. x \notin room /\ ~Leaves(x)
        BY <1>2
  <2>2. ~Joins(x)
        BY <2>1, <1>1 DEF UserSound, JoinersAreIn
  <2> QED BY <2>1, <2>2, <1>3 DEF Active
<1>6. JoinersAreIn' /\ MembersAreMapped'
      BY <1>1, <1>2, <1>4 DEF UserSound, JoinersAreIn, MembersAreMapped
<1>7. JoinedArePresent'
      BY <1>1, <1>2 DEF UserSound, JoinedArePresent
<1>8. PresentAreIn'
      BY <1>1, <1>3, <1>4 DEF UserSound, PresentAreIn
<1>9. AnnouncedPeersAreForgotten'
      BY <1>1, <1>3, <1>4 DEF AnnouncedPeersAreForgotten, TypeOK
<1> QED BY <1>5, <1>6, <1>7, <1>8, <1>9 DEF UserSound

LEMMA UsersGo ==
    ASSUME TypeOK, SocketsSound, PanelsSound, UserSound, AnnouncedPeersAreForgotten,
           NEW s \in Sockets, handleLeaveRoom(s) \/ handleDisconnect(s)
    PROVE  UserSound' /\ AnnouncedPeersAreForgotten'
<1> USE DEF session, attendance, connections, panels
<1>1. CASE handleLeaveRoom(s)
      BY <1>1, UsersLeave, HandlerNames DEF handleLeaveRoom, PanelCloses
<1>2. CASE handleDisconnect(s) /\ s \in socketSessionMap
      BY <1>2, UsersLeave, HandlerNames DEF handleDisconnect, PanelCloses
<1>3. CASE handleDisconnect(s) /\ s \notin socketSessionMap
  <2>1. /\ UNCHANGED <<status, present, asked, disturbed, owner, joining, leaving, socketSessionMap>>
        /\ room' = room \ {s} /\ heard' = [heard EXCEPT ![s] = {}]
        BY <1>3 DEF handleDisconnect, PanelCloses
  <2>2. s \in room => owner[s] \in disturbed
        BY <1>3 DEF UserSound, MembersAreMapped
  <2>3. MembersAreMapped' /\ OneActive' /\ JoinersAreIn' /\ JoinedArePresent'
        BY <2>1, <2>2 DEF UserSound, MembersAreMapped, OneActive, JoinersAreIn, JoinedArePresent,
             Active, Joins, Leaves
  <2>4. PresentAreIn'
        BY <2>1, <2>2 DEF UserSound, PresentAreIn, Marks
  <2>5. AnnouncedPeersAreForgotten'
        BY <2>1, <2>2 DEF AnnouncedPeersAreForgotten, Leaves, TypeOK
  <2> QED BY <2>3, <2>4, <2>5 DEF UserSound
<1> QED BY <1>1, <1>2, <1>3

LEMMA UsersUnnamed ==
    ASSUME TypeOK, UserSound, AnnouncedPeersAreForgotten, NEW s \in Sockets, handleLeaveRoomUnnamed(s)
    PROVE  UserSound' /\ AnnouncedPeersAreForgotten'
<1>1. /\ UNCHANGED <<status, present, asked, owner, joining, leaving, room, heard>>
      /\ disturbed' = disturbed \cup {owner[s]} /\ socketSessionMap' = socketSessionMap \ {s}
      BY DEF handleLeaveRoomUnnamed, session, connections, panels
<1> QED BY <1>1 DEF UserSound, MembersAreMapped, OneActive, JoinersAreIn, JoinedArePresent, PresentAreIn,
             AnnouncedPeersAreForgotten, Active, Joins, Leaves, Marks

LEMMA UsersHandleJoin ==
    ASSUME TypeOK, SocketsSound, PanelsSound, UserSound, AnnouncedPeersAreForgotten,
           NEW s \in Sockets, JoinFind(s) \/ JoinSave(s) \/ JoinList(s) \/ JoinTell(s)
    PROVE  UserSound' /\ AnnouncedPeersAreForgotten'
<1> USE DEF session, attendance, connections, panels
<1>1. /\ UNCHANGED <<status, asked, owner, leaving, room, socketSessionMap>>
      /\ disturbed \subseteq disturbed' /\ present \subseteq present'
      /\ \A x \in Sockets \ {s} : joining'[x] = joining[x]
      /\ Joins(s)
      BY DEF JoinFind, JoinSave, JoinList, JoinTell, Joins, TypeOK
<1>2. \A x \in Sockets : (Leaves(x)' <=> Leaves(x)) /\ (Marks(x)' <=> Marks(x)) /\ (Joins(x)' => Joins(x))
      BY <1>1 DEF Leaves, Marks, Joins
<1>3. OneActive' /\ JoinersAreIn' /\ MembersAreMapped'
      BY <1>1, <1>2 DEF UserSound, OneActive, JoinersAreIn, MembersAreMapped, Active
<1>4. owner[s] \notin disturbed' => s \in room
      BY <1>1 DEF UserSound, JoinersAreIn
<1>5. JoinedArePresent'
  <2>1. CASE JoinFind(s) \/ JoinList(s) \/ JoinTell(s)
        BY <2>1, <1>1 DEF JoinFind, JoinList, JoinTell, UserSound, JoinedArePresent, TypeOK
  <2>2. CASE JoinSave(s)
        BY <2>2, <1>1 DEF JoinSave, UserSound, JoinedArePresent, TypeOK
  <2> QED BY <2>1, <2>2
<1>6. PresentAreIn'
  <2>1. present' \subseteq present \cup {owner[s]}
        BY DEF JoinFind, JoinSave, JoinList, JoinTell
  <2> QED BY <2>1, <1>1, <1>2, <1>4 DEF UserSound, PresentAreIn
<1>7. AnnouncedPeersAreForgotten'
  <2>1. \A x \in room : heard'[x] \subseteq heard[x] \cup {s}
        BY DEF JoinFind, JoinSave, JoinList, JoinTell, TypeOK
  <2> QED BY <2>1, <1>1, <1>2, <1>4 DEF AnnouncedPeersAreForgotten, TypeOK
<1> QED BY <1>3, <1>5, <1>6, <1>7 DEF UserSound

LEMMA UsersMark ==
    ASSUME TypeOK, SocketsSound, PanelsSound, UserSound, AnnouncedPeersAreForgotten,
           NEW s \in Sockets, NEW h \in LeaveHandlers, LeaveMark(s, h)
    PROVE  UserSound' /\ AnnouncedPeersAreForgotten'
<1> USE DEF session, attendance, connections, panels
<1>1. /\ UNCHANGED <<status, asked, owner, joining, room, socketSessionMap, heard>>
      /\ leaving' = [leaving EXCEPT ![s][h] = "tell"] /\ leaving[s][h] = "mark"
      /\ disturbed \subseteq disturbed' /\ present' \subseteq present
      BY DEF LeaveMark
<1>2. owner[s] \notin disturbed' => present' = present \ {owner[s]}
      BY DEF LeaveMark
<1>3. /\ \A x \in Sockets \ {s} : (Leaves(x)' <=> Leaves(x)) /\ (Marks(x)' <=> Marks(x))
      /\ Leaves(s) /\ Leaves(s)' /\ s \notin room
      /\ \A x \in Sockets : Joins(x)' <=> Joins(x)
  <2>1. Leaves(s) /\ Leaves(s)'
        BY <1>1 DEF Leaves, TypeOK
  <2> QED BY <2>1, <1>1 DEF Leaves, Marks, Joins, SocketsSound, SocketSound
<1>4. OneActive' /\ JoinersAreIn' /\ MembersAreMapped'
      BY <1>1, <1>3 DEF UserSound, OneActive, JoinersAreIn, MembersAreMapped, Active
<1>5. JoinedArePresent'
  <2>1. \A x \in room : owner[x] = owner[s] => owner[s] \in disturbed
        BY <1>3 DEF UserSound, OneActive, Active, TypeOK
  <2>2. present' = present \ {owner[s]} \/ present' = present
        BY DEF LeaveMark
  <2> QED BY <2>1, <2>2, <1>1 DEF UserSound, JoinedArePresent, TypeOK
<1>6. PresentAreIn'
      BY <1>1, <1>2, <1>3 DEF UserSound, PresentAreIn
<1>7. AnnouncedPeersAreForgotten'
      BY <1>1, <1>3 DEF AnnouncedPeersAreForgotten, TypeOK
<1> QED BY <1>4, <1>5, <1>6, <1>7 DEF UserSound

LEMMA UsersTell ==
    ASSUME TypeOK, SocketsSound, PanelsSound, UserSound, AnnouncedPeersAreForgotten,
           NEW s \in Sockets, NEW h \in LeaveHandlers, LeaveTell(s, h)
    PROVE  UserSound' /\ AnnouncedPeersAreForgotten'
<1> USE DEF session, attendance, connections, panels
<1>1. /\ UNCHANGED <<status, present, asked, disturbed, owner, joining, room>>
      /\ leaving' = [leaving EXCEPT ![s][h] = "done"] /\ leaving[s][h] = "tell"
      /\ \A x \in room : heard'[x] \subseteq heard[x] /\ (x # s => s \notin heard'[x])
      /\ socketSessionMap' = socketSessionMap \ {s}
      BY DEF LeaveTell, TypeOK
<1>2. /\ \A x \in Sockets \ {s} : Leaves(x)' <=> Leaves(x)
      /\ \A x \in Sockets : (Leaves(x)' => Leaves(x)) /\ (Marks(x)' <=> Marks(x)) /\ (Joins(x)' <=> Joins(x))
      BY <1>1 DEF Leaves, Marks, Joins, TypeOK
<1>0. s \notin room
      BY <1>1 DEF SocketsSound, SocketSound, Leaves
<1>3. MembersAreMapped' /\ OneActive' /\ JoinersAreIn' /\ JoinedArePresent' /\ PresentAreIn'
      BY <1>0, <1>1, <1>2 DEF UserSound, MembersAreMapped, OneActive, JoinersAreIn, JoinedArePresent, PresentAreIn, Active
<1>4. AnnouncedPeersAreForgotten'
      BY <1>0, <1>1, <1>2 DEF AnnouncedPeersAreForgotten, TypeOK
<1> QED BY <1>3, <1>4 DEF UserSound

LEMMA UsersPost ==
    ASSUME TypeOK, SocketsSound, PanelsSound, UserSound, AnnouncedPeersAreForgotten,
           NEW u \in Users, leaveSession(u)
    PROVE  UserSound' /\ AnnouncedPeersAreForgotten'
<1> USE DEF session, attendance, connections, panels
<1>1. /\ UNCHANGED <<status, owner, joining, leaving, room, socketSessionMap, heard>>
      /\ disturbed \subseteq disturbed' /\ present' = present \ {u} /\ asked' = asked \cup {u}
      BY DEF leaveSession
<1>2. MembersAreMapped' /\ OneActive' /\ JoinersAreIn' /\ AnnouncedPeersAreForgotten'
      BY <1>1 DEF UserSound, MembersAreMapped, OneActive, JoinersAreIn, AnnouncedPeersAreForgotten, Active, Joins, Leaves
<1>3. JoinedArePresent' /\ PresentAreIn'
      BY <1>1 DEF UserSound, JoinedArePresent, PresentAreIn, Marks
<1> QED BY <1>2, <1>3 DEF UserSound

LEMMA Inductive == IInv /\ [Next]_vars => IInv'
<1> SUFFICES ASSUME IInv, [Next]_vars PROVE UserSound' /\ AnnouncedPeersAreForgotten'
    BY TypeNext, SocketsNext, PanelsNext DEF IInv
<1> USE DEF IInv
<1>1. CASE Row \/ UNCHANGED vars
      BY <1>1, UsersRow
<1>2. ASSUME NEW s \in Sockets, Client(s) PROVE UserSound' /\ AnnouncedPeersAreForgotten'
      BY <1>2, UsersConnect, UsersJoinRoom, UsersGo, UsersUnnamed DEF Client
<1>3. ASSUME NEW s \in Sockets, Handler(s) PROVE UserSound' /\ AnnouncedPeersAreForgotten'
      BY <1>3, UsersHandleJoin, UsersMark, UsersTell DEF Handler
<1>4. ASSUME NEW u \in Users, leaveSession(u) PROVE UserSound' /\ AnnouncedPeersAreForgotten'
      BY <1>4, UsersPost
<1> QED BY <1>1, <1>2, <1>3, <1>4 DEF Next

LEMMA Initially == Init => IInv
BY TypeInit, SocketsInit, UsersInit DEF IInv, Init, PanelsSound

\* An undisturbed user is present exactly while a socket of theirs is in the room.
THEOREM Attendance == Spec => []AttendanceIsExact
<1>1. IInv => AttendanceIsExact
  <2> SUFFICES ASSUME IInv, status # "deleted", NEW u \in Users \ disturbed, Settled(u)
               PROVE  u \in present <=> InRoom(u)
      BY DEF AttendanceIsExact
  <2>1. \A s \in SocketsOf(u) : ~Leaves(s)
        BY DEF Settled, Quiet
  <2>2. u \in present => InRoom(u)
        BY <2>1 DEF IInv, UserSound, PresentAreIn, InRoom, SocketsOf, Marks, Leaves
  <2>3. InRoom(u) => u \in present
        BY DEF IInv, UserSound, JoinedArePresent, InRoom, SocketsOf, Settled, TypeOK
  <2> QED BY <2>2, <2>3
<1> QED BY <1>1, Inductive, Initially, PTL DEF Spec

\* Neither a panel nor a connection keeps an announced socket that left.
THEOREM AnnouncedAreForgotten == Spec => []AnnouncedPeersAreForgotten
<1>1. IInv => AnnouncedPeersAreForgotten
      BY DEF IInv
<1> QED BY <1>1, Inductive, Initially, PTL DEF Spec

=============================================================================
