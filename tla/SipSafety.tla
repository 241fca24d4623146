------------------------------ MODULE SipSafety ------------------------------
(***************************************************************************)
(* What the SIP server keeps true of its calls.                            *)
(***************************************************************************)
EXTENDS SipServer

(* Whatever the phones send, repeated INVITEs and ACKs included.           *)

TeardownRank == [none |-> 0, adk |-> 1, pacing |-> 2, done |-> 3]

\* "Atomically pop from tracking dicts to prevent double cleanup"
\* (sip_udp/server.py:860): BYE, CANCEL, stop(), a failed start and the agent's own
\* end may all ask for it, in any order and while another is half-way, and a call
\* is torn down once, by the first.
TeardownRunsOnce ==
    [][\A i \in Infos :
         /\ TeardownRank[info[i].teardown] <= TeardownRank[info'[i].teardown]
         /\ info[i].by # None => info'[i].by = info[i].by]_vars

\* A call that was started once at most, and has been torn down, is left with nothing: its
\* tasks are over, its queue is closed for good, although the agent task may have been
\* reconnecting with a new one, nothing reactivates it, and its transcript was reported
\* (sip_udp/server.py:868-937, 664-674).  Not so after a second start: what that replaced
\* is out of the teardown's reach.
ReleasedMeansReleased ==
    \A i \in Infos :
       info[i].teardown = "done" /\ info[i].earlier_tasks = "none" =>
          /\ info[i].adk \in {"none", "done"}
          /\ info[i].pacing \in {"none", "done"}
          /\ info[i].live_request_queue # "open"
          /\ ~info[i].is_active
          /\ info[i].transcript_handler # "open"

\* What is heard on an address goes to the call of a phone at the same IP, although
\* addresses are learned from addresses that were learned
\* (sip_udp/server.py:394-401).
RoutesStayOnHost ==
    \A a \in Addrs :
       rtp_addr_to_call[a] # None =>
          \E i \in Infos : /\ info[i].call_id = rtp_addr_to_call[a]
                           /\ info[i].remote_rtp_addr # None
                           /\ Host[info[i].remote_rtp_addr] = Host[a]

-----------------------------------------------------------------------------
(* Why: what holds of every info, and of the infos that are tracked.       *)

Sound(x, i) ==
    /\ x.call_id = None => /\ x.adk = "none" /\ x.pacing = "none"
                           /\ x.teardown = "none" /\ x.earlier_tasks = "none"
    /\ x.by = None <=> x.teardown = "none"
    /\ x.by = "lost" => x.earlier_tasks = "lost"
    /\ x.teardown # "none" =>
          /\ ~x.is_active
          /\ x.live_request_queue # "open" /\ x.transcript_handler # "open"
          /\ x.adk \in {"streaming", "reconnecting"} => x.cancelled \/ x.by = "lost"
    /\ x.teardown = "pacing" => x.adk \notin Running \/ x.by \in {i, "lost"}
    /\ x.teardown = "done" => /\ x.adk \notin Running \/ x.by = "lost"
                              /\ x.pacing \notin Pacing
    /\ x.adk \in {"none", "streaming", "reconnecting"} => x.retry_count <= max_retries

\* A tracked info is the one that a dialog's latest INVITE made, and nobody has begun
\* to tear it down.
IsTracked(x, c) == x.call_id = c /\ x.teardown = "none"

TeardownInvariant ==
    /\ TypeOK
    /\ \A i \in Infos : Sound(info[i], i)
    /\ \A c \in CallIds : calls[c] # None => IsTracked(info[calls[c]], c)
    /\ \A i \in Infos : info[i].by \in Infos => info[info[i].by].call_id # None

-----------------------------------------------------------------------------
(* As long as every INVITE opens a dialog of its own.                      *)

\* A task that runs is reachable for the BYE that must end it: its call is tracked,
\* or is being torn down (sip_udp/server.py:289, 490-491, 861).
TasksAreTracked ==
    \A i \in Infos :
       info[i].adk \in Running \/ info[i].pacing \in Pacing =>
          \/ calls[info[i].call_id] = i
          \/ info[i].teardown \in {"adk", "pacing"}

\* Sessions and transcripts are kept for calls that are tracked or being torn down,
\* and not after (sip_udp/server.py:899, 926).
NothingIsLeftBehind ==
    /\ \A c \in sessions :
          \E i \in Infos : /\ info[i].call_id = c
                           /\ calls[c] = i \/ info[i].teardown \in {"adk", "pacing"}
    /\ \A c \in transcript_store : calls[c] # None

\* Why: an info whose teardown has not begun is tracked, which is inductive because no
\* other INVITE takes its place; a session belongs to a call that is not yet released, and
\* a stored transcript to a tracked call that will finalize it.
TrackedInvariant ==
    /\ \A i \in Infos : info[i].call_id # None /\ info[i].teardown = "none" =>
                       calls[info[i].call_id] = i
    /\ \A c \in sessions :
          \E i \in Infos : info[i].call_id = c /\ info[i].teardown # "done"
    /\ \A c \in transcript_store :
          calls[c] # None /\ info[calls[c]].transcript_handler # "none"

\* A teardown that waits waits for a task that is over, or that a cancellation ends, or for
\* a pacing task that does: it never waits for its own task, or for one that nobody cancelled
\* (sip_udp/server.py:879-911).
TeardownsGoOn ==
    \A k \in Infos :
       info[k].teardown \in {"adk", "pacing"} =>
          \/ Awaits(info[k], k) # info[k].teardown
          \/ info[k].adk \in {"streaming", "reconnecting"} /\ info[k].cancelled
          \/ info[k].adk = "draining" /\ ~PacingAlive(info[k])
          \/ PacingAlive(info[k]) /\ info[k].pacingCancelled

\* A call whose end was asked for, and that nobody tears down, still has the agent task that
\* will once its stream is over: none is hung up and then forgotten
\* (sip_udp/server.py:692-705, 732-745).
EndedCallsGoOn ==
    \A i \in Infos :
       info[i].end_call_requested /\ info[i].teardown = "none" =>
          info[i].adk \in {"streaming", "reconnecting", "draining"}

\* Why: whoever makes a teardown wait for a pacing task has cancelled that, an agent task
\* tears down its own call only and is not over before somebody does, no dialog has two
\* infos, and a call that has started keeps its session until it is torn down, so that no
\* ACK starts it again.
Waits(x, i) ==
    /\ x.by \in Infos => x.by = i
    /\ x.adk = "terminating" => x.by = i
    /\ x.adk = "done" => x.teardown # "none"
    /\ x.end_call_requested => x.adk # "none"
    /\ x.teardown = "adk" => x.by # i
    /\ PacingAlive(x) /\ (x.teardown = "pacing" \/ (x.teardown = "adk" /\ x.adk = "draining")) =>
          x.pacingCancelled

StartedOnce ==
    \A i \in Infos :
       /\ info[i].earlier_tasks = "none"
       /\ info[i].transcript_handler # "none" /\ info[i].teardown # "done" =>
             info[i].call_id \in sessions

WaitingInvariant ==
    /\ \A i, j \in Infos : info[i].call_id = info[j].call_id /\ info[i].call_id # None => i = j
    /\ StartedOnce
    /\ \A i \in Infos : Waits(info[i], i)

\* Teardowns do not wait for each other or for a task that waits for them: each
\* one that has begun ends, and so does stop().
TeardownsEnd == \A i \in Infos : info[i].teardown # "none" ~> info[i].teardown = "done"
StopEnds == server = "stopping" ~> server = "stopped"

\* A call whose agent's stream is over, by itself, by an error or by a cancellation, is torn
\* down once what was said is played, even if the phone never sends a BYE
\* (sip_udp/server.py:692-705, 732-745).
CallsEndWithTheirStream ==
    \A i \in Infos :
       info[i].adk \in {"draining", "terminating", "done"} ~> info[i].teardown = "done"

=============================================================================
