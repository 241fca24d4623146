------------------------------ MODULE LiveCall ------------------------------
(***************************************************************************)
(* The pages of one live class (LiveSessionContext) around the room that   *)
(* the gateway keeps: who is in it and who was told of whom is LiveRoom,   *)
(* which LiveGateway implements.  The page of the teacher offers a peer    *)
(* connection to every socket it is told of; offer, answer and candidates  *)
(* are relayed in order, and each handler is split at its awaits.          *)
(*                                                                         *)
(* A page keeps the class, media and socket of LiveSessionContext.  What   *)
(* it emits reaches the gateway at once or, once it has disconnected,      *)
(* never.  A page that is asked to join again while it waits for the       *)
(* microphone is left out: see the README.                                 *)
(***************************************************************************)
EXTENDS LiveRoom, Sequences, Functions

CONSTANTS
    Teacher, Students,
    Plans,      \* bounds on a behaviour, see plan
    None

Pages == {Teacher} \cup Students

ASSUME PageAssumption ==
    /\ Teacher \notin Students /\ None \notin Sockets
    /\ Plans \subseteq [owner : [Sockets -> Pages \cup {None}], ends : BOOLEAN]

VARIABLES
    plan,       \* which page each socket id will be given to, and whether the teacher ends the class
    session,    \* pages with a sessionRef
    media,      \* pages that wait for getUserMedia
    link,       \* link[p]: socketRef is "none", "up" (connected) or "down"
    sock,       \* sock[p]: the id of p's latest connection
    timers,     \* students whose page leaves when the timer of session-ended fires
    ending,     \* the teacher's page waits for the answer to POST end
    inbox,      \* inbox[s]: what the gateway sent to s and the page has not handled
    pc,         \* pc[p][s]: how far p's peer connection with the socket s is
    trickled,   \* trickled[p]: sockets to which p has emitted its candidate
    pending,    \* pending[p]: sockets with a queued candidate
    added       \* added[p]: peer connections that have got the other's candidate

page == <<session, media, link, timers, ending, plan>>
peers == <<pc, trickled, pending, added>>
vars == <<roomVars, page, sock, inbox, peers>>

PeerStates == {"none", "offering", "offered", "setting", "answering", "stable"}
Message == [type : {"peer-joined", "peer-left", "offer", "answer", "ice-candidate"}, from : Sockets]
           \cup [type : {"session-ended"}]

TypeOK ==
    /\ RoomTypeOK
    /\ plan \in Plans
    /\ session \subseteq Pages /\ media \subseteq Pages
    /\ link \in [Pages -> {"none", "up", "down"}]
    /\ sock \in [Pages -> Sockets \cup {None}]
    /\ timers \subseteq Students /\ ending \in BOOLEAN
    /\ inbox \in [Sockets -> Seq(Message)]
    /\ pc \in [Pages -> [Sockets -> PeerStates]]
    /\ \A f \in {trickled, pending, added} : f \in [Pages -> SUBSET Sockets]

Init ==
    /\ RoomInit /\ plan \in Plans
    /\ session = {} /\ media = {} /\ timers = {} /\ ending = FALSE
    /\ link = [p \in Pages |-> "none"] /\ sock = [p \in Pages |-> None]
    /\ inbox = [s \in Sockets |-> <<>>]
    /\ pc = [p \in Pages |-> [s \in Sockets |-> "none"]]
    /\ trickled = [p \in Pages |-> {}] /\ pending = [p \in Pages |-> {}] /\ added = [p \in Pages |-> {}]

-----------------------------------------------------------------------------
Live(s) == plan.owner[s] # None /\ link[plan.owner[s]] = "up" /\ sock[plan.owner[s]] = s

\* What the gateway emits to the sockets of S in the room; only live ones will read it.
Emitted(S, m) ==
    [s \in Sockets |-> IF s \in S \cap Inside /\ Live(s) THEN Append(inbox[s], m) ELSE inbox[s]]

Unread(p) == IF sock[p] = None THEN inbox ELSE [inbox EXCEPT ![sock[p]] = <<>>]

\* peerConnectionsRef.delete: what is remembered of the connection goes with it.
Forget(p, S) ==
    /\ pc' = [pc EXCEPT ![p] = [s \in Sockets |-> IF s \in S THEN "none" ELSE @[s]]]
    /\ trickled' = [trickled EXCEPT ![p] = @ \ S]
    /\ added' = [added EXCEPT ![p] = @ \ S]

-----------------------------------------------------------------------------
(* The gateway                                                             *)

ServerAnnounces(s) ==
    /\ Announce(s)
    /\ inbox' = Emitted({sock[Teacher]} \ {s}, [type |-> "peer-joined", from |-> s])
    /\ UNCHANGED <<page, sock, peers>>

ServerNotices(s) ==
    /\ Leave(s) /\ ~Live(s)
    /\ UNCHANGED <<page, sock, inbox, peers>>

ServerFarewells(s) ==
    /\ Farewell(s) /\ heard' # heard
    /\ inbox' = Emitted(Sockets \ {s}, [type |-> "peer-left", from |-> s])
    /\ UNCHANGED <<page, sock, peers>>

-----------------------------------------------------------------------------
(* Coming and going                                                        *)

Unused(p) == {s \in Sockets : plan.owner[s] = p /\ where[s] = "out"}

\* connectSocket, and the same after every reconnection: a new id joins the room.  Which
\* one makes no difference.
Connects(p) ==
    LET s == CHOOSE x \in Unused(p) : TRUE
    IN  /\ Unused(p) # {}
        /\ Enter(s)
        /\ sock' = [sock EXCEPT ![p] = s]
        /\ link' = [link EXCEPT ![p] = "up"]

\* Whatever connection the page still has is closed first; its queues of candidates stay.
joinSession(p) ==
    /\ p \notin media /\ ~(p \in session /\ link[p] = "up") /\ Unused(p) # {}
    /\ session' = session \cup {p} /\ media' = media \cup {p}
    /\ link' = [link EXCEPT ![p] = "none"]
    /\ IF link[p] = "none" THEN UNCHANGED <<pc, trickled, added>> ELSE Forget(p, Sockets)
    /\ inbox' = Unread(p)
    /\ UNCHANGED <<roomVars, plan, sock, timers, ending, pending>>

\* The stream comes, even to a page that has left meanwhile.
MediaGranted(p) ==
    /\ p \in media
    /\ media' = media \ {p}
    /\ Connects(p)
    /\ UNCHANGED <<plan, session, timers, ending, inbox, peers>>

MediaDenied(p) ==
    /\ p \in media
    /\ media' = media \ {p}
    /\ UNCHANGED <<roomVars, plan, session, link, timers, ending, sock, inbox, peers>>

\* Bound: a page drops off only while it has an id to come back with.
Drop(p) ==
    /\ link[p] = "up" /\ Unused(p) # {}
    /\ link' = [link EXCEPT ![p] = "down"]
    /\ inbox' = Unread(p)
    /\ UNCHANGED <<roomVars, plan, session, media, timers, ending, sock, peers>>

Reconnect(p) ==
    /\ link[p] = "down"
    /\ Connects(p)
    /\ UNCHANGED <<plan, session, media, timers, ending, inbox, peers>>

disconnectAll(p) ==
    /\ link' = [link EXCEPT ![p] = "none"]
    /\ session' = session \ {p}
    /\ Forget(p, Sockets)
    /\ pending' = [pending EXCEPT ![p] = {}]
    /\ inbox' = Unread(p)
    /\ UNCHANGED <<roomVars, plan, sock, media>>

\* Of students: the POST before it changes rows only.
leaveSession(p) ==
    /\ p \in session \cap Students
    /\ disconnectAll(p)
    /\ UNCHANGED <<timers, ending>>

endSession ==
    /\ plan.ends /\ Teacher \in session /\ ~ending
    /\ ending' = TRUE
    /\ inbox' = IF link[Teacher] = "up" THEN Emitted(Sockets, [type |-> "session-ended"]) ELSE inbox
    /\ UNCHANGED <<roomVars, plan, session, media, link, timers, sock, peers>>

Ended ==
    /\ ending /\ ending' = FALSE
    /\ disconnectAll(Teacher)
    /\ UNCHANGED timers

\* Mutant of TimerFires: the page moves on and keeps its socket.
TimerFiresConnected(p) ==
    /\ p \in timers
    /\ timers' = timers \ {p}
    /\ session' = session \ {p}
    /\ UNCHANGED <<roomVars, plan, media, link, ending, sock, inbox, peers>>

TimerFires(p) ==
    /\ p \in timers
    /\ timers' = timers \ {p}
    /\ disconnectAll(p)
    /\ UNCHANGED ending

-----------------------------------------------------------------------------
(* Messages.  Receive(p, type, m) takes m, the next one, from p's socket.  *)

Receive(p, type, m) ==
    /\ link[p] = "up" /\ inbox[sock[p]] # <<>>
    /\ m = Head(inbox[sock[p]]) /\ m.type = type
    /\ inbox' = [inbox EXCEPT ![sock[p]] = Tail(@)]
    /\ UNCHANGED <<roomVars, sock>>

Relay(p, s, type) == inbox' = Emitted({s}, [type |-> type, from |-> sock[p]])

NewPeer(p, s, at) ==
    /\ pc' = [pc EXCEPT ![p][s] = at]
    /\ trickled' = [trickled EXCEPT ![p] = @ \ {s}]
    /\ added' = [added EXCEPT ![p] = @ \ {s}]
    /\ UNCHANGED pending

PeerJoined(p) ==
    \E s \in Sockets :
        /\ Receive(p, "peer-joined", [type |-> "peer-joined", from |-> s])
        /\ NewPeer(p, s, "offering")
        /\ UNCHANGED page

\* closePeer
PeerLeft(p) ==
    \E s \in Sockets :
        /\ Receive(p, "peer-left", [type |-> "peer-left", from |-> s])
        /\ Forget(p, {s})
        /\ pending' = [pending EXCEPT ![p] = @ \ {s}]
        /\ UNCHANGED page

\* createOffer and setLocalDescription have resolved.
SendOffer(s) ==
    /\ pc[Teacher][s] = "offering" /\ link[Teacher] = "up"
    /\ pc' = [pc EXCEPT ![Teacher][s] = "offered"]
    /\ Relay(Teacher, s, "offer")
    /\ UNCHANGED <<roomVars, page, sock, trickled, pending, added>>

Offer(p) ==
    \E s \in Sockets :
        /\ p # Teacher
        /\ Receive(p, "offer", [type |-> "offer", from |-> s])
        /\ NewPeer(p, s, "setting")
        /\ UNCHANGED page

\* drainPendingCandidates, once the remote description of p's connection with s is set.
Drain(p, s) ==
    /\ pending' = [pending EXCEPT ![p] = @ \ {s}]
    /\ added' = IF s \in pending[p] THEN [added EXCEPT ![p] = @ \cup {s}] ELSE added

OfferSet(p, s) ==
    /\ p # Teacher /\ pc[p][s] = "setting"
    /\ pc' = [pc EXCEPT ![p][s] = "answering"]
    /\ UNCHANGED <<roomVars, page, sock, inbox, trickled, pending, added>>

\* Mutant of SendAnswer: the queue is drained by the teacher's page only.
SendAnswerUndrained(p, s) ==
    /\ pc[p][s] = "answering" /\ link[p] = "up"
    /\ pc' = [pc EXCEPT ![p][s] = "stable"]
    /\ Relay(p, s, "answer")
    /\ UNCHANGED <<roomVars, page, sock, trickled, pending, added>>

SendAnswer(p, s) ==
    /\ pc[p][s] = "answering" /\ link[p] = "up"
    /\ pc' = [pc EXCEPT ![p][s] = "stable"]
    /\ Drain(p, s)
    /\ Relay(p, s, "answer")
    /\ UNCHANGED <<roomVars, page, sock, trickled>>

Answer(p) ==
    \E s \in Sockets :
        /\ Receive(p, "answer", [type |-> "answer", from |-> s])
        /\ pc' = IF pc[p][s] = "offered" THEN [pc EXCEPT ![p][s] = "setting"] ELSE pc
        /\ UNCHANGED <<page, trickled, pending, added>>

AnswerSet(s) ==
    /\ pc[Teacher][s] = "setting"
    /\ pc' = [pc EXCEPT ![Teacher][s] = "stable"]
    /\ Drain(Teacher, s)
    /\ UNCHANGED <<roomVars, page, sock, inbox, trickled>>

\* onicecandidate: gathering starts with the local description; one candidate stands for all.
Trickle(p, s) ==
    /\ pc[p][s] \in IF p = Teacher THEN {"offered", "setting", "stable"} ELSE {"stable"}
    /\ s \notin trickled[p] /\ link[p] = "up"
    /\ trickled' = [trickled EXCEPT ![p] = @ \cup {s}]
    /\ Relay(p, s, "ice-candidate")
    /\ UNCHANGED <<roomVars, page, sock, pc, pending, added>>

RemoteIsSet(p, s) == pc[p][s] \in {"answering", "stable"}

\* Mutant of IceCandidate: addIceCandidate at once, which fails before the remote description.
IceCandidateAtOnce(p) ==
    \E s \in Sockets :
        /\ Receive(p, "ice-candidate", [type |-> "ice-candidate", from |-> s])
        /\ added' = IF RemoteIsSet(p, s) THEN [added EXCEPT ![p] = @ \cup {s}] ELSE added
        /\ UNCHANGED <<page, pc, trickled, pending>>

\* A candidate without a connection is dropped; before the remote description it waits.
IceCandidate(p) ==
    \E s \in Sockets :
        /\ Receive(p, "ice-candidate", [type |-> "ice-candidate", from |-> s])
        /\ IF pc[p][s] # "none" /\ ~RemoteIsSet(p, s)
           THEN pending' = [pending EXCEPT ![p] = @ \cup {s}] /\ UNCHANGED added
           ELSE /\ added' = IF RemoteIsSet(p, s) THEN [added EXCEPT ![p] = @ \cup {s}] ELSE added
                /\ UNCHANGED pending
        /\ UNCHANGED <<page, pc, trickled>>

SessionEnded(p) ==
    /\ Receive(p, "session-ended", [type |-> "session-ended"])
    /\ timers' = IF p = Teacher THEN timers ELSE timers \cup {p}
    /\ UNCHANGED <<plan, session, media, link, ending, peers>>

\* onconnectionstatechange, when the other side has closed or has another socket now.
PeerFails(p, s) ==
    /\ pc[p][s] = "stable"
    /\ \A q \in Pages \ {p} : sock[q] = s => pc[q][sock[p]] = "none"
    /\ Forget(p, {s})
    /\ UNCHANGED <<roomVars, page, sock, inbox, pending>>

-----------------------------------------------------------------------------
Server(s) == ServerAnnounces(s) \/ ServerNotices(s) \/ ServerFarewells(s)

Handle(p) ==
    \/ PeerJoined(p) \/ PeerLeft(p) \/ Offer(p) \/ Answer(p) \/ IceCandidate(p) \/ SessionEnded(p)

Resume(p, s) ==
    \/ p = Teacher /\ (SendOffer(s) \/ AnswerSet(s))
    \/ OfferSet(p, s) \/ SendAnswer(p, s) \/ Trickle(p, s)

Loop(p) == Handle(p) \/ TimerFires(p) \/ \E s \in Sockets : Resume(p, s)

User(p) == joinSession(p) \/ MediaGranted(p) \/ MediaDenied(p) \/ leaveSession(p) \/ Drop(p) \/ Reconnect(p)

System == (\E s \in Sockets : Server(s)) \/ (\E p \in Pages : Loop(p))

Next ==
    \/ System
    \/ \E p \in Pages : User(p) \/ \E s \in Sockets : PeerFails(p, s)
    \/ endSession \/ Ended

\* The gateway and the pages go on with what they have begun; users need not.
Fairness == WF_vars(System)

Spec == Init /\ [][Next]_vars /\ Fairness

-----------------------------------------------------------------------------
\* A candidate never waits in the queue of a connection that is ready for it, whichever of
\* answer, description and candidates is handled first (LiveSessionContext.tsx:226-232, 351-364).
CandidatesAreKept == \A p \in Pages, s \in Sockets : pc[p][s] = "stable" => s \notin pending[p]

\* The teacher's page is connected as t, a student's as s, and the gateway has told t of s.
Met(t, s) == plan.owner[t] = Teacher /\ Live(t) /\ Live(s) /\ s \in heard[t]

Connected(p, s) == pc[p][s] = "stable" /\ s \in added[p]
Call(t, s) == Connected(Teacher, s) /\ Connected(plan.owner[s], t)

\* Once the teacher has been told of a student, both ends get a description and the other's
\* candidate, or one of them goes (LiveSessionContext.tsx:292-364).
PeersConnect == \A t, s \in Sockets : Met(t, s) ~> (Call(t, s) \/ ~Met(t, s))

Told(s) == plan.owner[s] \in Students /\ Live(s) /\ [type |-> "session-ended"] \in Range(inbox[s])

\* A student's page that is sent session-ended leaves, whatever else it is doing
\* (LiveSessionContext.tsx:393-402).
EndedClassEmpties == \A s \in Sockets : Told(s) ~> ~Live(s)

\* What a student's page has been told, or has begun to count down to, is not lost on the
\* way: whatever step comes, it still has to leave or its socket is gone
\* (LiveSessionContext.tsx:393-402).
MustLeave(s) == Told(s) \/ (Live(s) /\ plan.owner[s] \in timers)
MustLeaveStays == [][\A s \in Sockets : MustLeave(s) => MustLeave(s)' \/ ~Live(s)']_vars

\* "Student joins the live session with audio/video via WebRTC"
\* (docs/test_cases/SmartEdX_Test_Cases.csv:63): a student who is in class with the teacher
\* gets a call.
StudentsAreCalled ==
    \A t, s \in Sockets :
        LET together == plan.owner[t] = Teacher /\ plan.owner[s] \in Students /\ Live(t) /\ Live(s)
        IN  together ~> (Call(t, s) \/ ~together)

=============================================================================
