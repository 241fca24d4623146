--------------------------- MODULE LiveCallProofs ---------------------------
(***************************************************************************)
(* Proofs about the pages of a live class, for any class, sockets and      *)
(* plans: their types, that no candidate waits in the queue of a peer      *)
(* connection that is ready for it, that the pages use the gateway as      *)
(* LiveRoom describes it, and that a page that has to leave the class      *)
(* stays one that has to.                                                  *)
(***************************************************************************)
EXTENDS LiveCall, TLAPS

\* A connected page has a socket, so that what it emits comes from one.
CallInvariant ==
    /\ TypeOK
    /\ \A p \in Pages : link[p] = "up" => sock[p] \in Sockets
    /\ CandidatesAreKept

-----------------------------------------------------------------------------
(* The parts of the state.                                                 *)

PageType ==
    /\ plan \in Plans
    /\ session \subseteq Pages /\ media \subseteq Pages
    /\ link \in [Pages -> {"none", "up", "down"}]
    /\ sock \in [Pages -> Sockets \cup {None}]
    /\ timers \subseteq Students /\ ending \in BOOLEAN
    /\ \A p \in Pages : link[p] = "up" => sock[p] \in Sockets

InboxType == inbox \in [Sockets -> Seq(Message)]

\* The peer connections, and no candidate queued for a stable one.
PeersKept ==
    /\ pc \in [Pages -> [Sockets -> PeerStates]]
    /\ trickled \in [Pages -> SUBSET Sockets]
    /\ pending \in [Pages -> SUBSET Sockets]
    /\ added \in [Pages -> SUBSET Sockets]
    /\ CandidatesAreKept

LEMMA Parts == CallInvariant <=> RoomTypeOK /\ PageType /\ InboxType /\ PeersKept
BY DEF CallInvariant, TypeOK, PageType, InboxType, PeersKept

LEMMA PartsNext ==
    ASSUME RoomTypeOK', PageType', InboxType', PeersKept'
    PROVE  CallInvariant'
BY DEF CallInvariant, TypeOK, PageType, InboxType, PeersKept

LEMMA RoomStep ==
    ASSUME RoomTypeOK, NEW s \in Sockets, Enter(s) \/ Announce(s) \/ Leave(s) \/ Farewell(s)
    PROVE  RoomTypeOK'
BY DEF RoomTypeOK, Enter, Announce, Leave, Farewell

LEMMA Pages1 == Teacher \in Pages /\ Students \subseteq Pages
BY DEF Pages

LEMMA MessageTypes ==
    ASSUME NEW s \in Sockets,
           NEW type \in {"peer-joined", "peer-left", "offer", "answer", "ice-candidate"}
    PROVE  [type |-> type, from |-> s] \in Message /\ [type |-> "session-ended"] \in Message
BY DEF Message

LEMMA EmittedType ==
    ASSUME InboxType, NEW S, NEW m \in Message
    PROVE  Emitted(S, m) \in [Sockets -> Seq(Message)]
BY DEF InboxType, Emitted

LEMMA UnreadType ==
    ASSUME InboxType, PageType, NEW p \in Pages
    PROVE  Unread(p) \in [Sockets -> Seq(Message)]
BY DEF InboxType, PageType, Unread

LEMMA RelayStep ==
    ASSUME InboxType, PageType, NEW p \in Pages, link[p] = "up", NEW s,
           NEW type \in {"peer-joined", "peer-left", "offer", "answer", "ice-candidate"},
           Relay(p, s, type)
    PROVE  InboxType'
BY MessageTypes, EmittedType DEF PageType, Relay, InboxType

LEMMA ReceiveStep ==
    ASSUME InboxType, PageType, RoomTypeOK, NEW p \in Pages, NEW type, NEW m,
           Receive(p, type, m)
    PROVE  InboxType' /\ RoomTypeOK'
<1>1. RoomTypeOK'
  BY DEF Receive, roomVars, RoomTypeOK
<1>2. sock[p] \in Sockets /\ inbox[sock[p]] \in Seq(Message) /\ inbox[sock[p]] # <<>>
  BY DEF Receive, InboxType, PageType
<1>3. Tail(inbox[sock[p]]) \in Seq(Message)
  BY <1>2
<1> QED
  BY <1>1, <1>2, <1>3 DEF Receive, InboxType

LEMMA ForgetStep ==
    ASSUME PeersKept, NEW p \in Pages, NEW S, Forget(p, S),
           UNCHANGED pending \/ \E T : pending' = [pending EXCEPT ![p] = @ \ T]
    PROVE  PeersKept'
<1>1. /\ pc' \in [Pages -> [Sockets -> PeerStates]]
      /\ trickled' \in [Pages -> SUBSET Sockets]
      /\ added' \in [Pages -> SUBSET Sockets]
      /\ pending' \in [Pages -> SUBSET Sockets]
  BY DEF Forget, PeersKept, PeerStates
<1>2. \A q \in Pages, s \in Sockets :
         /\ pc'[q][s] = "stable" => pc[q][s] = "stable"
         /\ s \in pending'[q] => s \in pending[q]
  BY DEF Forget, PeersKept
<1> QED
  BY <1>1, <1>2 DEF PeersKept, CandidatesAreKept

LEMMA NewPeerStep ==
    ASSUME PeersKept, NEW p \in Pages, NEW s \in Sockets, NEW at \in PeerStates \ {"stable"},
           NewPeer(p, s, at)
    PROVE  PeersKept'
<1>1. /\ pc' \in [Pages -> [Sockets -> PeerStates]]
      /\ trickled' \in [Pages -> SUBSET Sockets]
      /\ added' \in [Pages -> SUBSET Sockets]
      /\ pending' \in [Pages -> SUBSET Sockets]
  BY DEF NewPeer, PeersKept
<1>2. \A q \in Pages, r \in Sockets :
         /\ pc'[q][r] = "stable" => pc[q][r] = "stable"
         /\ r \in pending'[q] => r \in pending[q]
  BY DEF NewPeer, PeersKept
<1> QED
  BY <1>1, <1>2 DEF PeersKept, CandidatesAreKept

\* A connection goes on; it becomes stable only where its queue is drained.
LEMMA GoesOnStep ==
    ASSUME PeersKept, NEW p \in Pages, NEW s \in Sockets, NEW at \in PeerStates,
           pc' = [pc EXCEPT ![p][s] = at], UNCHANGED trickled,
           \/ at # "stable" /\ UNCHANGED <<pending, added>>
           \/ Drain(p, s)
    PROVE  PeersKept'
<1>1. /\ pc' \in [Pages -> [Sockets -> PeerStates]]
      /\ trickled' \in [Pages -> SUBSET Sockets]
      /\ added' \in [Pages -> SUBSET Sockets]
      /\ pending' \in [Pages -> SUBSET Sockets]
  <2>1. pc' \in [Pages -> [Sockets -> PeerStates]] /\ trickled' \in [Pages -> SUBSET Sockets]
    BY DEF PeersKept
  <2>2. added' = added \/ added' = [added EXCEPT ![p] = @ \cup {s}]
    BY DEF Drain
  <2>3. added' \in [Pages -> SUBSET Sockets]
    BY <2>2 DEF PeersKept
  <2>4. pending' = pending \/ pending' = [pending EXCEPT ![p] = @ \ {s}]
    BY DEF Drain
  <2>5. pending' \in [Pages -> SUBSET Sockets]
    BY <2>4 DEF PeersKept
  <2> QED
    BY <2>1, <2>3, <2>5
<1>2. \A q \in Pages, r \in Sockets :
         pc'[q][r] = IF q = p /\ r = s THEN at ELSE pc[q][r]
  BY DEF PeersKept
<1>3. \A q \in Pages, r \in Sockets : r \in pending'[q] => r \in pending[q]
  BY DEF Drain, PeersKept
<1>4. at = "stable" => s \notin pending'[p]
  BY DEF Drain, PeersKept
<1> QED
  BY <1>1, <1>2, <1>3, <1>4 DEF PeersKept, CandidatesAreKept

-----------------------------------------------------------------------------
(* One lemma per kind of step.                                             *)

LEMMA ServerStep ==
    ASSUME CallInvariant, NEW s \in Sockets, Server(s)
    PROVE  CallInvariant'
<1>1. RoomTypeOK /\ PageType /\ InboxType /\ PeersKept
  BY Parts
<1>2. RoomTypeOK'
  BY <1>1, RoomStep DEF Server, ServerAnnounces, ServerNotices, ServerFarewells
<1>3. PageType' /\ PeersKept'
  BY <1>1 DEF Server, ServerAnnounces, ServerNotices, ServerFarewells, page, peers, PageType,
              PeersKept, CandidatesAreKept
<1>4. InboxType'
  <2>1. Emitted({sock[Teacher]} \ {s}, [type |-> "peer-joined", from |-> s])
           \in [Sockets -> Seq(Message)]
    BY <1>1, MessageTypes, EmittedType
  <2>2. Emitted(Sockets \ {s}, [type |-> "peer-left", from |-> s]) \in [Sockets -> Seq(Message)]
    BY <1>1, MessageTypes, EmittedType
  <2> QED
    BY <1>1, <2>1, <2>2 DEF Server, ServerAnnounces, ServerNotices, ServerFarewells, InboxType
<1> QED
  BY <1>2, <1>3, <1>4, PartsNext

LEMMA ConnectsType ==
    ASSUME PageType, RoomTypeOK, NEW p \in Pages, Connects(p)
    PROVE  /\ RoomTypeOK'
           /\ link' \in [Pages -> {"none", "up", "down"}]
           /\ sock' \in [Pages -> Sockets \cup {None}]
           /\ \A q \in Pages : link'[q] = "up" => sock'[q] \in Sockets
<1>1. PICK s \in Sockets : /\ Enter(s)
                           /\ sock' = [sock EXCEPT ![p] = s]
                           /\ link' = [link EXCEPT ![p] = "up"]
  BY DEF Connects, Unused
<1> QED
  BY <1>1, RoomStep DEF PageType

LEMMA disconnectAllStep ==
    ASSUME CallInvariant, NEW p \in Pages, disconnectAll(p), timers' \subseteq timers,
           ending' \in BOOLEAN
    PROVE  CallInvariant'
<1>1. RoomTypeOK /\ PageType /\ InboxType /\ PeersKept
  BY Parts
<1>2. RoomTypeOK'
  BY <1>1 DEF disconnectAll, roomVars, RoomTypeOK
<1>3. PageType'
  BY <1>1 DEF disconnectAll, PageType
<1>4. PeersKept'
  <2>1. pending' = [pending EXCEPT ![p] = @ \ Sockets]
    BY <1>1 DEF disconnectAll, PeersKept
  <2> QED
    BY <1>1, <2>1, ForgetStep DEF disconnectAll
<1>5. InboxType'
  BY <1>1, UnreadType DEF disconnectAll, InboxType
<1> QED
  BY <1>2, <1>3, <1>4, <1>5, PartsNext

LEMMA UserStep ==
    ASSUME CallInvariant, NEW p \in Pages, User(p)
    PROVE  CallInvariant'
<1>1. RoomTypeOK /\ PageType /\ InboxType /\ PeersKept
  BY Parts
<1>2. UNCHANGED peers => PeersKept'
  BY <1>1 DEF peers, PeersKept, CandidatesAreKept
<1>3. CASE joinSession(p)
  <2>1. RoomTypeOK' /\ PageType'
    BY <1>1, <1>3 DEF joinSession, roomVars, RoomTypeOK, PageType
  <2>2. InboxType'
    BY <1>1, <1>3, UnreadType DEF joinSession, InboxType
  <2>3. PeersKept'
    <3>1. CASE link[p] = "none"
      BY <1>2, <1>3, <3>1 DEF joinSession, peers
    <3>2. CASE link[p] # "none"
      BY <1>1, <1>3, <3>2, ForgetStep DEF joinSession
    <3> QED
      BY <3>1, <3>2
  <2> QED
    BY <2>1, <2>2, <2>3, PartsNext
<1>4. CASE MediaGranted(p) \/ Reconnect(p)
  <2>1. RoomTypeOK' /\ PageType'
    BY <1>1, <1>4, ConnectsType DEF MediaGranted, Reconnect, PageType
  <2>2. InboxType' /\ PeersKept'
    BY <1>1, <1>2, <1>4 DEF MediaGranted, Reconnect, InboxType
  <2> QED
    BY <2>1, <2>2, PartsNext
<1>5. CASE MediaDenied(p)
  <2>1. RoomTypeOK' /\ PageType' /\ InboxType'
    BY <1>1, <1>5 DEF MediaDenied, roomVars, RoomTypeOK, PageType, InboxType
  <2> QED
    BY <1>2, <1>5, <2>1, PartsNext DEF MediaDenied
<1>6. CASE Drop(p)
  <2>1. RoomTypeOK' /\ PageType'
    BY <1>1, <1>6 DEF Drop, roomVars, RoomTypeOK, PageType
  <2>2. InboxType'
    BY <1>1, <1>6, UnreadType DEF Drop, InboxType
  <2> QED
    BY <1>2, <1>6, <2>1, <2>2, PartsNext DEF Drop
<1>7. CASE leaveSession(p)
  BY <1>1, <1>7, disconnectAllStep DEF leaveSession, PageType
<1> QED
  BY <1>3, <1>4, <1>5, <1>6, <1>7 DEF User

LEMMA HandleStep ==
    ASSUME CallInvariant, NEW p \in Pages, Handle(p)
    PROVE  CallInvariant'
<1>1. RoomTypeOK /\ PageType /\ InboxType /\ PeersKept
  BY Parts
<1>2. InboxType' /\ RoomTypeOK' /\ UNCHANGED sock
  BY <1>1, ReceiveStep DEF Handle, PeerJoined, PeerLeft, Offer, Answer, IceCandidate,
                           SessionEnded, Receive
<1>3. PageType'
  <2>1. CASE SessionEnded(p)
    BY <1>1, <1>2, <2>1 DEF SessionEnded, PageType, Pages
  <2>2. CASE ~SessionEnded(p)
    BY <1>1, <1>2, <2>2 DEF Handle, PeerJoined, PeerLeft, Offer, Answer, IceCandidate, page,
                            PageType
  <2> QED
    BY <2>1, <2>2
<1>4. PeersKept'
  <2>1. CASE PeerJoined(p)
    BY <1>1, <2>1, NewPeerStep DEF PeerJoined, PeerStates
  <2>2. CASE PeerLeft(p)
    BY <1>1, <2>2, ForgetStep DEF PeerLeft
  <2>3. CASE Offer(p)
    BY <1>1, <2>3, NewPeerStep DEF Offer, PeerStates
  <2>4. CASE Answer(p)
    <3>1. PICK s \in Sockets :
             /\ pc' = IF pc[p][s] = "offered" THEN [pc EXCEPT ![p][s] = "setting"] ELSE pc
             /\ UNCHANGED <<trickled, pending, added>>
      BY <2>4 DEF Answer
    <3>2. CASE pc[p][s] = "offered"
      BY <1>1, <3>1, <3>2, GoesOnStep DEF PeerStates
    <3>3. CASE pc[p][s] # "offered"
      BY <1>1, <3>1, <3>3 DEF PeersKept, CandidatesAreKept
    <3> QED
      BY <3>2, <3>3
  <2>5. CASE IceCandidate(p)
    <3>1. PICK s \in Sockets :
             /\ IF pc[p][s] # "none" /\ ~RemoteIsSet(p, s)
                THEN pending' = [pending EXCEPT ![p] = @ \cup {s}] /\ UNCHANGED added
                ELSE /\ added' = IF RemoteIsSet(p, s) THEN [added EXCEPT ![p] = @ \cup {s}]
                                 ELSE added
                     /\ UNCHANGED pending
             /\ UNCHANGED <<pc, trickled>>
      BY <2>5 DEF IceCandidate
    <3>2. CASE pc[p][s] # "none" /\ ~RemoteIsSet(p, s)
      <4>1. pending' = [pending EXCEPT ![p] = @ \cup {s}] /\ UNCHANGED <<added, pc, trickled>>
        BY <3>1, <3>2
      <4>2. pc[p][s] # "stable"
        BY <3>2 DEF RemoteIsSet
      <4> QED
        BY <1>1, <4>1, <4>2 DEF PeersKept, CandidatesAreKept
    <3>3. CASE ~(pc[p][s] # "none" /\ ~RemoteIsSet(p, s))
      <4>1. added' = added \/ added' = [added EXCEPT ![p] = @ \cup {s}]
        BY <3>1, <3>3
      <4>2. UNCHANGED <<pending, pc, trickled>>
        BY <3>1, <3>3
      <4> QED
        BY <1>1, <4>1, <4>2 DEF PeersKept, CandidatesAreKept
    <3> QED
      BY <3>2, <3>3
  <2>6. CASE SessionEnded(p)
    BY <1>1, <2>6 DEF SessionEnded, peers, PeersKept, CandidatesAreKept
  <2> QED
    BY <2>1, <2>2, <2>3, <2>4, <2>5, <2>6 DEF Handle
<1> QED
  BY <1>2, <1>3, <1>4, PartsNext

LEMMA ResumeStep ==
    ASSUME CallInvariant, NEW p \in Pages, NEW s \in Sockets, Resume(p, s)
    PROVE  CallInvariant'
<1>1. RoomTypeOK /\ PageType /\ InboxType /\ PeersKept
  BY Parts
<1>2. RoomTypeOK' /\ PageType'
  BY <1>1 DEF Resume, SendOffer, AnswerSet, OfferSet, SendAnswer, Trickle, roomVars, page,
              RoomTypeOK, PageType
<1>3. InboxType'
  <2>1. SendOffer(s) \/ SendAnswer(p, s) \/ Trickle(p, s) => InboxType'
    BY <1>1, RelayStep, Pages1 DEF SendOffer, SendAnswer, Trickle
  <2>2. AnswerSet(s) \/ OfferSet(p, s) => InboxType'
    BY <1>1 DEF AnswerSet, OfferSet, InboxType
  <2> QED
    BY <2>1, <2>2 DEF Resume
<1>4. PeersKept'
  <2>1. CASE SendOffer(s)
    BY <1>1, <2>1, GoesOnStep, Pages1 DEF SendOffer, PeerStates
  <2>2. CASE AnswerSet(s)
    BY <1>1, <2>2, GoesOnStep, Pages1 DEF AnswerSet, PeerStates
  <2>3. CASE OfferSet(p, s)
    BY <1>1, <2>3, GoesOnStep DEF OfferSet, PeerStates
  <2>4. CASE SendAnswer(p, s)
    BY <1>1, <2>4, GoesOnStep DEF SendAnswer, PeerStates
  <2>5. CASE Trickle(p, s)
    BY <1>1, <2>5 DEF Trickle, PeersKept, CandidatesAreKept
  <2> QED
    BY <2>1, <2>2, <2>3, <2>4, <2>5 DEF Resume
<1> QED
  BY <1>2, <1>3, <1>4, PartsNext

LEMMA OtherStep ==
    ASSUME CallInvariant,
           \/ \E p \in Pages : TimerFires(p)
           \/ \E p \in Pages, s \in Sockets : PeerFails(p, s)
           \/ endSession \/ Ended \/ UNCHANGED vars
    PROVE  CallInvariant'
<1>1. RoomTypeOK /\ PageType /\ InboxType /\ PeersKept
  BY Parts
<1>2. ASSUME NEW p \in Pages, TimerFires(p) PROVE CallInvariant'
  BY <1>1, <1>2, disconnectAllStep DEF TimerFires, PageType
<1>3. ASSUME NEW p \in Pages, NEW s \in Sockets, PeerFails(p, s) PROVE CallInvariant'
  <2>1. RoomTypeOK' /\ PageType' /\ InboxType'
    BY <1>1, <1>3 DEF PeerFails, roomVars, page, RoomTypeOK, PageType, InboxType
  <2>2. PeersKept'
    BY <1>1, <1>3, ForgetStep DEF PeerFails
  <2> QED
    BY <2>1, <2>2, PartsNext
<1>4. CASE endSession
  <2>1. RoomTypeOK' /\ PageType' /\ PeersKept'
    BY <1>1, <1>4 DEF endSession, roomVars, peers, RoomTypeOK, PageType, PeersKept,
                      CandidatesAreKept
  <2>2. [type |-> "session-ended"] \in Message
    BY DEF Message
  <2>3. InboxType'
    BY <1>1, <1>4, <2>2, EmittedType DEF endSession, InboxType
  <2> QED
    BY <2>1, <2>3, PartsNext
<1>5. CASE Ended
  BY <1>5, disconnectAllStep, Pages1 DEF Ended
<1>6. CASE UNCHANGED vars
  BY <1>6 DEF vars, roomVars, page, peers, CallInvariant, TypeOK, RoomTypeOK, CandidatesAreKept
<1> QED
  BY <1>2, <1>3, <1>4, <1>5, <1>6

LEMMA CallInvariantHolds == Spec => []CallInvariant
<1>1. Init => CallInvariant
  <2> SUFFICES ASSUME Init PROVE CallInvariant
    OBVIOUS
  <2>1. RoomTypeOK /\ PageType
    BY DEF Init, RoomInit, RoomTypeOK, PageType
  <2>2. InboxType
    BY DEF Init, InboxType
  <2>3. PeersKept
    BY DEF Init, PeersKept, PeerStates, CandidatesAreKept
  <2> QED
    BY <2>1, <2>2, <2>3, Parts
<1>2. CallInvariant /\ [Next]_vars => CallInvariant'
  BY ServerStep, UserStep, HandleStep, ResumeStep, OtherStep DEF Next, System, Loop
<1> QED
  BY <1>1, <1>2, PTL DEF Spec

-----------------------------------------------------------------------------
(* The theorems.                                                           *)

\* Inboxes hold messages of the protocol, peer connections and queues what
\* LiveSessionContext.tsx puts there.
THEOREM CallTypeCorrect == Spec => []TypeOK
<1>1. CallInvariant => TypeOK
  BY DEF CallInvariant
<1> QED
  BY <1>1, CallInvariantHolds, PTL

\* In whatever order offers, answers and candidates come, with reconnections, pages that leave
\* and connections that fail in between, a connection that is ready has an empty queue
\* (LiveSessionContext.tsx:226-232, 351-364).
THEOREM CandidatesStayKept == Spec => []CandidatesAreKept
<1>1. CallInvariant => CandidatesAreKept
  BY DEF CallInvariant
<1> QED
  BY <1>1, CallInvariantHolds, PTL

-----------------------------------------------------------------------------
(* The pages in the room.                                                  *)

LEMMA ConnectsEnters ==
    ASSUME NEW p \in Pages, Connects(p)
    PROVE  RoomNext
<1>1. PICK s \in Sockets : Enter(s)
  BY DEF Connects, Unused
<1> QED
  BY <1>1 DEF RoomNext

\* The pages use the gateway as LiveRoom describes it, which the gateway's own handlers
\* implement: whatever the pages do, a socket enters the room once and nobody is told that
\* one left before it did (live-session.gateway.ts, LiveSessionContext.tsx:268-402).
THEOREM PagesRunTheRoom == Spec => RoomSpec
<1>1. Init => RoomInit
  BY DEF Init
<1>2. [Next]_vars => [RoomNext]_roomVars
  <2> SUFFICES ASSUME [Next]_vars PROVE RoomNext \/ UNCHANGED roomVars
    OBVIOUS
  <2>1. ASSUME NEW s \in Sockets, Server(s) PROVE RoomNext
    BY <2>1 DEF Server, ServerAnnounces, ServerNotices, ServerFarewells, RoomNext
  <2>2. ASSUME NEW p \in Pages, Handle(p) PROVE UNCHANGED roomVars
    BY <2>2 DEF Handle, PeerJoined, PeerLeft, Offer, Answer, IceCandidate, SessionEnded, Receive
  <2>3. ASSUME NEW p \in Pages, TimerFires(p) PROVE UNCHANGED roomVars
    BY <2>3 DEF TimerFires, disconnectAll
  <2>4. ASSUME NEW p \in Pages, NEW s \in Sockets, Resume(p, s) PROVE UNCHANGED roomVars
    BY <2>4 DEF Resume, SendOffer, AnswerSet, OfferSet, SendAnswer, Trickle
  <2>5. ASSUME NEW p \in Pages, User(p) PROVE RoomNext \/ UNCHANGED roomVars
    BY <2>5, ConnectsEnters DEF User, joinSession, MediaGranted, MediaDenied, leaveSession,
                                disconnectAll, Drop, Reconnect
  <2>6. ASSUME NEW p \in Pages, NEW s \in Sockets, PeerFails(p, s) PROVE UNCHANGED roomVars
    BY <2>6 DEF PeerFails
  <2>7. endSession \/ Ended \/ UNCHANGED vars => UNCHANGED roomVars
    BY DEF endSession, Ended, disconnectAll, vars
  <2> QED
    BY <2>1, <2>2, <2>3, <2>4, <2>5, <2>6, <2>7 DEF Next, System, Loop
<1> QED
  BY <1>1, <1>2, PTL DEF Spec, RoomSpec

-----------------------------------------------------------------------------
(* The end of a class.                                                     *)

\* A page's socket is one of its own, so that nobody else reads or empties its inbox.
SocketsAreOwned == \A p \in Pages : sock[p] # None => plan.owner[sock[p]] = p

LEMMA OwnedStep ==
    ASSUME CallInvariant, SocketsAreOwned, [Next]_vars
    PROVE  SocketsAreOwned' /\ UNCHANGED plan
<1>1. UNCHANGED plan
  BY ZenonT(40) DEF Next, System, Loop, Server, ServerAnnounces, ServerNotices, ServerFarewells, Handle,
         PeerJoined, PeerLeft, Offer, Answer, IceCandidate, SessionEnded, TimerFires,
         disconnectAll, Resume, SendOffer, AnswerSet, OfferSet, SendAnswer, Trickle, User,
         joinSession, MediaGranted, MediaDenied, leaveSession, Drop, Reconnect, PeerFails,
         endSession, Ended, page, vars
<1>2. sock \in [Pages -> Sockets \cup {None}]
  BY DEF CallInvariant, TypeOK
<1>3. UNCHANGED sock \/ \E p \in Pages : Connects(p)
  BY ZenonT(40) DEF Next, System, Loop, Server, ServerAnnounces, ServerNotices, ServerFarewells, Handle,
         PeerJoined, PeerLeft, Offer, Answer, IceCandidate, SessionEnded, Receive, TimerFires,
         disconnectAll, Resume, SendOffer, AnswerSet, OfferSet, SendAnswer, Trickle, User,
         joinSession, MediaGranted, MediaDenied, leaveSession, Drop, Reconnect, PeerFails,
         endSession, Ended, vars
<1>4. ASSUME NEW p \in Pages, Connects(p) PROVE SocketsAreOwned'
  <2>1. PICK s \in Sockets : plan.owner[s] = p /\ sock' = [sock EXCEPT ![p] = s]
    BY <1>4 DEF Connects, Unused
  <2> QED
    BY <1>1, <1>2, <2>1 DEF SocketsAreOwned
<1> QED
  BY <1>1, <1>3, <1>4 DEF SocketsAreOwned

LEMMA AppendKeeps ==
    ASSUME NEW S, NEW seq \in Seq(S), NEW e \in S, NEW m \in Range(seq)
    PROVE  m \in Range(Append(seq, e))
<1>1. PICK n \in 1 .. Len(seq) : seq[n] = m
  BY DEF Range
<1>2. n \in DOMAIN Append(seq, e) /\ Append(seq, e)[n] = m
  BY <1>1
<1> QED
  BY <1>2 DEF Range

LEMMA TailKeeps ==
    ASSUME NEW S, NEW seq \in Seq(S), seq # <<>>, NEW m \in Range(seq), m # Head(seq)
    PROVE  m \in Range(Tail(seq))
<1>1. PICK n \in 1 .. Len(seq) : seq[n] = m
  BY DEF Range
<1>2. n # 1 /\ n - 1 \in 1 .. Len(Tail(seq)) /\ Tail(seq)[n - 1] = m
  BY <1>1
<1> QED
  BY <1>2 DEF Range

Sends == \E S \in SUBSET (Sockets \cup {None}), m \in Message : inbox' = Emitted(S, m)
Closes == \E p \in Pages : inbox' = Unread(p) /\ link'[p] # "up"
Receives(p) == /\ link[p] = "up" /\ inbox[sock[p]] # <<>>
               /\ inbox' = [inbox EXCEPT ![sock[p]] = Tail(@)]
               /\ Head(inbox[sock[p]]).type = "session-ended" => SessionEnded(p)

LEMMA RelaySends ==
    ASSUME PageType, NEW p \in Pages, link[p] = "up", NEW s \in Sockets,
           NEW type \in {"offer", "answer", "ice-candidate"}, Relay(p, s, type)
    PROVE  Sends
<1>1. [type |-> type, from |-> sock[p]] \in Message
  BY MessageTypes DEF PageType
<1>2. {s} \in SUBSET (Sockets \cup {None})
  OBVIOUS
<1> QED
  BY <1>1, <1>2 DEF Relay, Sends

\* All that a step does to inboxes.
LEMMA InboxStep ==
    ASSUME CallInvariant, [Next]_vars
    PROVE  UNCHANGED inbox \/ Sends \/ Closes \/ \E p \in Pages : Receives(p)
<1>1. PageType /\ link \in [Pages -> {"none", "up", "down"}]
  BY Parts DEF PageType
<1>2. ASSUME NEW s \in Sockets, Server(s) PROVE UNCHANGED inbox \/ Sends
  <2>1. CASE ServerAnnounces(s)
    <3>1. {sock[Teacher]} \ {s} \in SUBSET (Sockets \cup {None})
      BY <1>1, Pages1 DEF PageType
    <3>2. [type |-> "peer-joined", from |-> s] \in Message
      BY MessageTypes
    <3> QED
      BY <2>1, <3>1, <3>2 DEF ServerAnnounces, Sends
  <2>2. CASE ServerFarewells(s)
    <3>1. Sockets \ {s} \in SUBSET (Sockets \cup {None})
      OBVIOUS
    <3>2. [type |-> "peer-left", from |-> s] \in Message
      BY MessageTypes
    <3> QED
      BY <2>2, <3>1, <3>2 DEF ServerFarewells, Sends
  <2>3. CASE ServerNotices(s)
    BY <2>3 DEF ServerNotices
  <2> QED
    BY <1>2, <2>1, <2>2, <2>3 DEF Server
<1>3. ASSUME NEW p \in Pages, Handle(p) PROVE Receives(p)
  BY <1>3 DEF Handle, PeerJoined, PeerLeft, Offer, Answer, IceCandidate, SessionEnded, Receive,
              Receives
<1>4. ASSUME NEW p \in Pages, NEW s \in Sockets, Resume(p, s) PROVE UNCHANGED inbox \/ Sends
  BY <1>1, <1>4, RelaySends, Pages1 DEF Resume, SendOffer, AnswerSet, OfferSet, SendAnswer, Trickle
<1>5. ASSUME NEW p \in Pages, disconnectAll(p) PROVE Closes
  BY <1>1, <1>5 DEF disconnectAll, Closes
<1>6. ASSUME NEW p \in Pages, joinSession(p) \/ Drop(p) PROVE Closes
  BY <1>1, <1>6 DEF joinSession, Drop, Closes
<1>7. ASSUME NEW p \in Pages, User(p) PROVE UNCHANGED inbox \/ Closes
  BY <1>5, <1>6, <1>7 DEF User, MediaGranted, MediaDenied, Reconnect, leaveSession
<1>8. CASE endSession
  <2>1. [type |-> "session-ended"] \in Message /\ Sockets \in SUBSET (Sockets \cup {None})
    BY DEF Message
  <2> QED
    BY <1>8, <2>1 DEF endSession, Sends
<1>9. CASE Ended \/ \E p \in Pages : TimerFires(p)
  BY <1>5, <1>9, Pages1 DEF Ended, TimerFires
<1>10. (\E p \in Pages, s \in Sockets : PeerFails(p, s)) \/ UNCHANGED vars => UNCHANGED inbox
  BY DEF PeerFails, vars
<1> QED
  BY <1>2, <1>3, <1>4, <1>7, <1>8, <1>9, <1>10 DEF Next, System, Loop

LEMMA TimersStep ==
    ASSUME CallInvariant, [Next]_vars
    PROVE  \A p \in Pages : p \in timers => p \in timers' \/ link'[p] # "up"
<1>1. link \in [Pages -> {"none", "up", "down"}]
  BY DEF CallInvariant, TypeOK
<1>2. ASSUME NEW q \in Pages, TimerFires(q)
      PROVE  \A p \in Pages : p \in timers => p \in timers' \/ link'[p] # "up"
  BY <1>1, <1>2 DEF TimerFires, disconnectAll
<1>3. CASE ~\E q \in Pages : TimerFires(q)
  <2>1. timers \subseteq timers'
    BY ZenonT(40), <1>3 DEF Next, System, Loop, Server, ServerAnnounces, ServerNotices, ServerFarewells,
         Handle, PeerJoined, PeerLeft, Offer, Answer, IceCandidate, SessionEnded, Resume,
         SendOffer, AnswerSet, OfferSet, SendAnswer, Trickle, User, joinSession, MediaGranted,
         MediaDenied, leaveSession, Drop, Reconnect, PeerFails, endSession, Ended, page, vars
  <2> QED
    BY <2>1
<1> QED
  BY <1>2, <1>3

LEMMA MustLeaveStep ==
    ASSUME CallInvariant, SocketsAreOwned, [Next]_vars, NEW s \in Sockets, MustLeave(s), Live(s)'
    PROVE  MustLeave(s)'
<1>1. PICK o : o = plan.owner[s]
  OBVIOUS
<1>2. o \in Students /\ o \in Pages /\ o # Teacher
  BY <1>1, PageAssumption, Pages1 DEF MustLeave, Told, CallInvariant, TypeOK
<1>3. plan'.owner[s] = o /\ link'[o] = "up" /\ sock[o] = s /\ link[o] = "up"
  BY <1>1, OwnedStep DEF MustLeave, Told, Live
<1>4. CASE o \in timers
  <2>1. o \in timers'
    BY <1>2, <1>3, <1>4, TimersStep
  <2> QED
    BY <1>3, <2>1 DEF MustLeave
<1>5. CASE o \notin timers
  <2>1. PICK m \in Message : m = [type |-> "session-ended"]
    BY DEF Message
  <2>2. m \in Range(inbox[s]) /\ inbox \in [Sockets -> Seq(Message)]
    BY <1>1, <1>5, <2>1 DEF MustLeave, Told, CallInvariant, TypeOK
  <2> SUFFICES m \in Range(inbox'[s]) \/ o \in timers'
    BY <1>2, <1>3, <2>1 DEF MustLeave, Told
  <2>3. CASE Sends
    <3>1. PICK S \in SUBSET (Sockets \cup {None}), e \in Message : inbox' = Emitted(S, e)
      BY <2>3 DEF Sends
    <3>2. inbox'[s] = inbox[s] \/ inbox'[s] = Append(inbox[s], e)
      BY <3>1 DEF Emitted
    <3> QED
      BY <2>2, <3>2, AppendKeeps
  <2>4. CASE Closes
    <3>1. PICK p \in Pages : inbox' = Unread(p) /\ link'[p] # "up"
      BY <2>4 DEF Closes
    <3>2. sock[p] # s
      BY <1>1, <1>3, <3>1, PageAssumption DEF SocketsAreOwned
    <3> QED
      BY <2>2, <3>1, <3>2 DEF Unread
  <2>5. CASE \E p \in Pages : Receives(p)
    <3>1. PICK p \in Pages : Receives(p)
      BY <2>5
    <3>2. CASE sock[p] # s
      BY <2>2, <3>1, <3>2 DEF Receives
    <3>3. CASE sock[p] = s
      <4>1. p = o
        BY <1>1, <3>3, PageAssumption DEF SocketsAreOwned
      <4>2. inbox'[s] = Tail(inbox[s]) /\ inbox[s] # <<>>
        BY <2>2, <3>1, <3>3 DEF Receives
      <4>3. CASE Head(inbox[s]) = m
        <5>1. m.type = "session-ended"
          BY <2>1
        <5>2. SessionEnded(p)
          BY <3>1, <3>3, <4>3, <5>1 DEF Receives
        <5> QED
          BY <1>2, <4>1, <5>2 DEF SessionEnded
      <4>4. CASE Head(inbox[s]) # m
        BY <2>2, <4>2, <4>4, TailKeeps
      <4> QED
        BY <4>3, <4>4
    <3> QED
      BY <3>2, <3>3
  <2> QED
    BY <2>2, <2>3, <2>4, <2>5, InboxStep
<1> QED
  BY <1>4, <1>5

\* A student's page that is told that the class has ended, or that counts down to leaving
\* it, does not get out of that: no message, reconnection or second join takes the notice or
\* the timer away while its socket lives (LiveSessionContext.tsx:393-402, 408-425).
THEOREM NoticesAreNotLost == Spec => MustLeaveStays
<1>1. Init => SocketsAreOwned
  BY DEF Init, SocketsAreOwned
<1>2. CallInvariant /\ SocketsAreOwned /\ [Next]_vars => SocketsAreOwned'
  BY OwnedStep
<1>3. CallInvariant /\ SocketsAreOwned /\ [Next]_vars =>
         [\A s \in Sockets : MustLeave(s) => MustLeave(s)' \/ ~Live(s)']_vars
  BY MustLeaveStep
<1> QED
  BY <1>1, <1>2, <1>3, CallInvariantHolds, PTL DEF Spec, MustLeaveStays

=============================================================================
