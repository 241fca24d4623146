------------------------------- MODULE LiveRoom -------------------------------
(***************************************************************************)
(* What the gateway of live classes promises the clients of one session: a *)
(* socket enters the room at most once, is announced to the others at most *)
(* once and after it entered, and nobody is told that it left before it    *)
(* did.  How late an announcement comes is not promised: it may be made    *)
(* after the socket is gone.                                               *)
(***************************************************************************)
CONSTANT Sockets

VARIABLES
    where,      \* where[s]: "out" of the room, "in" it, or "gone"
    announced,  \* sockets whose joining the others were told of
    heard       \* heard[s]: the sockets announced to s since it got the room state, and not
                \* told to have left

roomVars == <<where, announced, heard>>

RoomTypeOK ==
    /\ where \in [Sockets -> {"out", "in", "gone"}]
    /\ announced \subseteq Sockets
    /\ heard \in [Sockets -> SUBSET Sockets]

RoomInit ==
    /\ where = [s \in Sockets |-> "out"]
    /\ announced = {}
    /\ heard = [s \in Sockets |-> {}]

Inside == {s \in Sockets : where[s] = "in"}

Enter(s) ==
    /\ where[s] = "out"
    /\ where' = [where EXCEPT ![s] = "in"]
    /\ UNCHANGED <<announced, heard>>

\* The newcomer gets the room state instead, which replaces its panel.  It names users and no
\* sockets; these are not what is promised here, and nobody hears when they leave.
Announce(s) ==
    /\ where[s] # "out" /\ s \notin announced
    /\ announced' = announced \cup {s}
    /\ heard' = [x \in Sockets |-> IF x = s THEN {}
                                   ELSE IF x \in Inside THEN heard[x] \cup {s} ELSE heard[x]]
    /\ UNCHANGED where

Leave(s) ==
    /\ where[s] = "in"
    /\ where' = [where EXCEPT ![s] = "gone"]
    /\ heard' = [heard EXCEPT ![s] = {}]
    /\ UNCHANGED announced

Farewell(s) ==
    /\ where[s] = "gone"
    /\ heard' = [x \in Sockets |-> IF x \in Inside THEN heard[x] \ {s} ELSE heard[x]]
    /\ UNCHANGED <<where, announced>>

RoomNext == \E s \in Sockets : Enter(s) \/ Announce(s) \/ Leave(s) \/ Farewell(s)

RoomSpec == RoomInit /\ [][RoomNext]_roomVars

=============================================================================
