------------------------------ MODULE SipServer ------------------------------
(***************************************************************************)
(* The native SIP server of the voice agent: NativeSIPServer and the tasks *)
(* of its calls.                                                           *)
(*                                                                         *)
(* asyncio runs one task at a time, so a task is atomic between two awaits *)
(* that really suspend (those of the in-memory session service and of the  *)
(* unbounded audio queue do not).  A datagram handler runs in one step up  *)
(* to the first living task that it awaits.  A call has an agent task      *)
(* (_run_adk_session) and a pacing task (_rtp_pacing_worker); a teardown   *)
(* (_terminate_call) cancels both and awaits them, and may itself run in   *)
(* the agent task.  The audio clip worker is off (AUDIO_CLIP_TOOL_MAP is   *)
(* empty by default); what is heard and said is left out, but for whether  *)
(* audio waits to be played.  A finalized transcript has been reported to  *)
(* the Core service if that has a session; a failure is not retried.       *)
(***************************************************************************)
EXTENDS Naturals

CONSTANTS
    CallIds,        \* Call-IDs of the phones' dialogs
    Infos,          \* SIPCallInfo objects: bounds the INVITEs received
    Addrs,          \* RTP addresses
    SdpAddrs,       \* those that an INVITE may name; None: it has no SDP
    Host,           \* address -> IP
    Repeated,       \* which of "INVITE" and "ACK" a phone may send again
    max_retries,    \* reconnections of a failing agent stream
    None

ASSUME RepeatedAssumption == Repeated \subseteq {"INVITE", "ACK"}
ASSUME RetriesAssumption == max_retries \in Nat
ASSUME SdpAssumption == SdpAddrs \subseteq Addrs \cup {None}
ASSUME HostAssumption == DOMAIN Host = Addrs
ASSUME NoneAssumption ==
    None \notin CallIds \cup Infos \cup Addrs \cup {"handler", "stop", "lost"}
ASSUME InfosAssumption == Infos \cap {"handler", "stop", "lost"} = {}

Running == {"streaming", "reconnecting", "draining", "terminating"}
Pacing  == {"playing", "hangingUp"}

SIPCallInfo ==
    [call_id : CallIds \cup {None}, remote_rtp_addr : Addrs \cup {None},
     is_active : BOOLEAN, end_call_requested : BOOLEAN, bye_sent : BOOLEAN,
     live_request_queue : {"none", "open", "closed"},
     transcript_handler : {"none", "open", "finalized"},
     adk : {"none", "done"} \cup Running,    \* where the agent task is
     cancelled : BOOLEAN,                    \* it is resumed by a cancellation
     retry_count : 0 .. max_retries + 1,     \* of the agent task, as long as it streams
     pacing : {"none", "done"} \cup Pacing,  \* where the pacing task is
     pacingCancelled : BOOLEAN,
     audio : BOOLEAN,                        \* rtp_output_queue has something to play
     long : BOOLEAN,                         \* the agent left audio to be played out
     earlier_tasks : {"none", "lost"},       \* those of an earlier start, which run on
     teardown : {"none", "adk", "pacing", "done"},   \* which task it awaits
     by : Infos \cup {None, "handler", "stop", "lost"}]     \* whose task runs it

Fresh(c, a) ==
    [call_id |-> c, remote_rtp_addr |-> a,
     is_active |-> FALSE, end_call_requested |-> FALSE, bye_sent |-> FALSE,
     live_request_queue |-> "none", transcript_handler |-> "none",
     adk |-> "none", cancelled |-> FALSE, retry_count |-> 0,
     pacing |-> "none", pacingCancelled |-> FALSE, audio |-> FALSE, long |-> FALSE,
     earlier_tasks |-> "none", teardown |-> "none", by |-> None]

VARIABLES
    calls,              \* Call-ID -> the info it is tracked by
    rtp_addr_to_call,   \* RTP address -> Call-ID
    info,               \* the info objects; call_id None: not allocated
    sessions,           \* Call-IDs with a session in the session service
    transcript_store,   \* Call-IDs with a stored transcript
    server,             \* "running", "stopping" or "stopped"
    left                \* Call-IDs that stop() has still to terminate

vars == <<calls, rtp_addr_to_call, info, sessions, transcript_store, server, left>>
lifecycle == <<server, left>>
tracking == <<calls, rtp_addr_to_call, transcript_store>>

Init ==
    /\ calls = [c \in CallIds |-> None]
    /\ rtp_addr_to_call = [a \in Addrs |-> None]
    /\ info = [i \in Infos |-> Fresh(None, None)]
    /\ sessions = {}
    /\ transcript_store = {}
    /\ server = "running"
    /\ left = {}

-----------------------------------------------------------------------------
(* _terminate_call                                                         *)

PacingAlive(x) == x.pacing \in Pacing

\* What the teardown does to the info before it awaits anything but the cancelled
\* tasks.  Cancelling the agent task cancels what it awaits: a pacing task still alive
\* swallows that, and the agent task goes on.  A lost agent task that tears its own info
\* down has cleared adk_task, so that the present one is neither cancelled nor awaited.
TornDown(x, by) ==
    [x EXCEPT
       !.is_active = FALSE,
       !.live_request_queue = IF @ = "open" THEN "closed" ELSE @,
       !.transcript_handler = IF @ = "open" THEN "finalized" ELSE @,
       !.cancelled = IF by = "lost" THEN @
                     ELSE \/ x.adk \in {"streaming", "reconnecting"}
                          \/ x.adk = "draining" /\ ~PacingAlive(x),
       !.pacingCancelled = @ \/ (by # "lost" /\ x.adk = "draining" /\ PacingAlive(x)),
       !.by = by]

\* Mutant: the agent task is cancelled and not awaited.
AwaitsPacingOnly(x, k) == IF PacingAlive(x) THEN "pacing" ELSE "done"

\* Mutant: the pacing task is cancelled and not awaited.
AwaitsAdkOnly(x, k) == IF x.adk \in Running /\ x.by \notin {k, "lost"} THEN "adk" ELSE "done"

\* Mutant: an agent task that runs its own teardown awaits itself.
AwaitsItself(x, k) ==
    CASE x.adk \in Running -> "adk"
      [] x.adk \notin Running /\ PacingAlive(x) -> "pacing"
      [] OTHER -> "done"

\* The task that the teardown of k, now x, has to wait for; an agent task that runs it
\* does not wait for itself.
Awaits(x, k) ==
    CASE x.adk \in Running /\ x.by \notin {k, "lost"} -> "adk"
      [] (x.adk \notin Running \/ x.by \in {k, "lost"}) /\ PacingAlive(x) -> "pacing"
      [] OTHER -> "done"

AtStage(x, stage) ==
    [x EXCEPT !.teardown = stage, !.pacingCancelled = @ \/ stage = "pacing"]

\* The teardown of k runs as far as it can, and in the end closes the session.
Proceed(k, infos) ==
    LET x == infos[k]
        stage == Awaits(x, k)
        moved == [infos EXCEPT ![k] = AtStage(x, stage)]
    IN /\ info' = IF stage = "done" /\ x.by \in Infos THEN [moved EXCEPT ![x.by].adk = "done"]
                  ELSE moved
       /\ sessions' = IF stage = "done" THEN sessions \ {x.call_id} ELSE sessions

\* Mutant: the call is looked up in the tracking dict, not popped from it.
TerminateWithoutPop(c, by, infos) ==
    LET k == calls[c] IN
    /\ UNCHANGED calls
    /\ rtp_addr_to_call' = [a \in Addrs |-> IF a = infos[k].remote_rtp_addr THEN None
                                            ELSE rtp_addr_to_call[a]]
    /\ transcript_store' = IF infos[k].transcript_handler = "none" THEN transcript_store
                           ELSE transcript_store \ {c}
    /\ Proceed(k, [infos EXCEPT ![k] = TornDown(@, by)])

\* Mutant: the transcript stays in the store.
TerminateKeepingTranscript(c, by, infos) ==
    LET k == calls[c] IN
    /\ calls' = [calls EXCEPT ![c] = None]
    /\ rtp_addr_to_call' = [a \in Addrs |-> IF a = infos[k].remote_rtp_addr THEN None
                                            ELSE rtp_addr_to_call[a]]
    /\ UNCHANGED transcript_store
    /\ Proceed(k, [infos EXCEPT ![k] = TornDown(@, by)])

\* Pop the call from the tracking dicts and tear its info down; infos is the info
\* function with whatever else the running task has changed.
Terminate(c, by, infos) ==
    LET k == calls[c] IN
    /\ calls' = [calls EXCEPT ![c] = None]
    /\ rtp_addr_to_call' = [a \in Addrs |-> IF a = infos[k].remote_rtp_addr THEN None
                                            ELSE rtp_addr_to_call[a]]
    /\ transcript_store' = IF infos[k].transcript_handler = "none" THEN transcript_store
                           ELSE transcript_store \ {c}
    /\ Proceed(k, [infos EXCEPT ![k] = TornDown(@, by)])

\* The task it waited for has ended.
Teardown(k) ==
    /\ info[k].teardown \in {"adk", "pacing"}
    /\ Awaits(info[k], k) # info[k].teardown
    /\ Proceed(k, info)
    /\ UNCHANGED <<tracking, lifecycle>>

-----------------------------------------------------------------------------
(* Datagrams                                                               *)

Unallocated == {i \in Infos : info[i].call_id = None}

\* A repeated INVITE, or one that refreshes a dialog, is handled like a new one.
_handle_invite(c, a) ==
    LET new == CHOOSE i \in Unallocated : TRUE IN
    /\ server # "stopped"
    /\ a \in SdpAddrs
    /\ Unallocated # {}
    /\ "INVITE" \in Repeated \/ \A j \in Infos : info[j].call_id # c
    /\ info' = [info EXCEPT ![new] = Fresh(c, a)]
    /\ calls' = [calls EXCEPT ![c] = new]
    /\ rtp_addr_to_call' = [b \in Addrs |-> IF b = a THEN c ELSE rtp_addr_to_call[b]]
    /\ UNCHANGED <<sessions, transcript_store, lifecycle>>

\* _start_adk_session.  An info that has started starts again if the teardown of an earlier
\* INVITE of its dialog has deleted its session meanwhile: it has new tasks then, and
\* nothing refers to the old ones any more, which run on.
StartAdkSession(c) ==
    /\ c \notin sessions
    /\ sessions' = sessions \cup {c}
    /\ transcript_store' = transcript_store \cup {c}
    /\ info' = [info EXCEPT ![calls[c]] =
                  [@ EXCEPT !.is_active = TRUE, !.live_request_queue = "open",
                            !.transcript_handler = "open",
                            !.adk = "streaming", !.cancelled = FALSE, !.retry_count = 0,
                            !.pacing = "playing", !.pacingCancelled = FALSE,
                            !.earlier_tasks = IF info[calls[c]].transcript_handler = "none"
                                              THEN "none" ELSE "lost"]]
    /\ UNCHANGED <<calls, rtp_addr_to_call, lifecycle>>

\* The session service refuses a second session of the same id.
FailAdkSession(c) ==
    /\ c \in sessions
    /\ Terminate(c, "handler", info)
    /\ UNCHANGED lifecycle

_handle_ack(c) ==
    /\ server # "stopped"
    /\ calls[c] # None
    /\ "ACK" \in Repeated \/ info[calls[c]].adk = "none"
    /\ StartAdkSession(c) \/ FailAdkSession(c)

\* BYE or CANCEL, which may also come late or twice.
_handle_bye(c) ==
    /\ server # "stopped"
    /\ calls[c] # None
    /\ Terminate(c, "handler", info)
    /\ UNCHANGED lifecycle

\* Mutant: any call will do.
handle_rtp_packet_of_any_host(a) ==
    /\ server # "stopped"
    /\ rtp_addr_to_call[a] = None
    /\ \E b \in Addrs : /\ rtp_addr_to_call[b] # None
                        /\ rtp_addr_to_call' = [rtp_addr_to_call EXCEPT ![a] = rtp_addr_to_call[b]]
    /\ UNCHANGED <<calls, info, sessions, transcript_store, lifecycle>>

\* A packet from an address nobody signalled is taken to belong to a call of its host.
handle_rtp_packet(a) ==
    /\ server # "stopped"
    /\ rtp_addr_to_call[a] = None
    /\ \E b \in Addrs : /\ rtp_addr_to_call[b] # None
                        /\ Host[b] = Host[a]
                        /\ rtp_addr_to_call' = [rtp_addr_to_call EXCEPT ![a] = rtp_addr_to_call[b]]
    /\ UNCHANGED <<calls, info, sessions, transcript_store, lifecycle>>

-----------------------------------------------------------------------------
(* _run_adk_session                                                        *)

\* The  finally  of the agent task, x being its info by then: let the pacing task
\* play out what is queued and hang up, then terminate whatever call has this id.
AdkFinally(i, x) ==
    LET c == x.call_id
        ending == [x EXCEPT !.end_call_requested = TRUE, !.cancelled = FALSE,
                             !.retry_count = 0]
    IN CASE calls[c] = None ->
              /\ info' = [info EXCEPT ![i] = [x EXCEPT !.adk = "done", !.cancelled = FALSE,
                                                       !.retry_count = 0]]
              /\ UNCHANGED <<tracking, sessions>>
         [] calls[c] # None /\ PacingAlive(x) ->
              /\ info' = [info EXCEPT ![i] = [ending EXCEPT !.adk = "draining", !.long = x.audio]]
              /\ UNCHANGED <<tracking, sessions>>
         [] OTHER ->
              Terminate(c, i, [info EXCEPT ![i] = [ending EXCEPT !.adk = "terminating"]])

Streams(i) == info[i].adk = "streaming" /\ ~info[i].cancelled

\* An event of the agent's stream: speech, or end_call, or neither.
AdkEvent(i) ==
    /\ Streams(i)
    /\ info[i].is_active
    /\ \E speech, end_call \in BOOLEAN :
          /\ speech => info[i].remote_rtp_addr # None
          /\ info' = [info EXCEPT ![i].audio = @ \/ speech,
                                  ![i].end_call_requested = @ \/ end_call]
    /\ UNCHANGED <<tracking, sessions, lifecycle>>

\* The stream is over, or fails for good, or yields an event of an inactive call.
AdkStreamEnds(i) ==
    /\ Streams(i)
    /\ AdkFinally(i, info[i])
    /\ UNCHANGED lifecycle

RetriesLeft(retry_count) == retry_count <= max_retries

mayReconnect(x) ==
    /\ RetriesLeft(x.retry_count)
    /\ x.is_active
    /\ ~x.end_call_requested

AdkStreamError(i) ==
    LET failed == [info[i] EXCEPT !.retry_count = @ + 1] IN
    /\ Streams(i)
    /\ IF mayReconnect(failed)
       THEN /\ info' = [info EXCEPT ![i] = [failed EXCEPT !.live_request_queue = "open",
                                                          !.adk = "reconnecting"]]
            /\ UNCHANGED <<tracking, sessions>>
       ELSE AdkFinally(i, [failed EXCEPT !.end_call_requested = TRUE])
    /\ UNCHANGED lifecycle

\* After half a second's sleep.
AdkReconnect(i) ==
    /\ info[i].adk = "reconnecting" /\ ~info[i].cancelled
    /\ IF info[i].is_active /\ RetriesLeft(info[i].retry_count)
       THEN /\ info' = [info EXCEPT ![i].adk = "streaming"]
            /\ UNCHANGED <<tracking, sessions>>
       ELSE AdkFinally(i, info[i])
    /\ UNCHANGED lifecycle

AdkCancelled(i) ==
    /\ info[i].adk \in {"streaming", "reconnecting"} /\ info[i].cancelled
    /\ AdkFinally(i, info[i])
    /\ UNCHANGED lifecycle

\* wait_for(rtp_pacing_task, timeout=10): the timeout cancels the pacing task, which
\* swallows it, so wait_for returns as if it had ended by itself.  Without audio
\* left to play the pacing task ends in less than four seconds.
AdkDrainTimeout(i) ==
    /\ info[i].adk = "draining" /\ info[i].long
    /\ PacingAlive(info[i]) /\ ~info[i].pacingCancelled
    /\ info' = [info EXCEPT ![i].pacingCancelled = TRUE]
    /\ UNCHANGED <<tracking, sessions, lifecycle>>

\* Mutant: the call is hung up and not terminated.
AdkDrainedOnly(i) ==
    LET x == [info[i] EXCEPT !.bye_sent = @ \/ info[i].cancelled, !.cancelled = FALSE,
                             !.long = FALSE] IN
    /\ info[i].adk = "draining"
    /\ ~PacingAlive(x)
    /\ info' = [info EXCEPT ![i] = [x EXCEPT !.adk = "done"]]
    /\ UNCHANGED <<tracking, sessions, lifecycle>>

\* The pacing task has ended.  A cancellation that came after that is taken for a
\* timeout, and a BYE is sent.
AdkDrained(i) ==
    LET x == [info[i] EXCEPT !.bye_sent = @ \/ info[i].cancelled, !.cancelled = FALSE,
                             !.long = FALSE] IN
    /\ info[i].adk = "draining"
    /\ ~PacingAlive(x)
    /\ IF calls[x.call_id] = None
       THEN /\ info' = [info EXCEPT ![i] = [x EXCEPT !.adk = "done"]]
            /\ UNCHANGED <<tracking, sessions>>
       ELSE Terminate(x.call_id, i, [info EXCEPT ![i] = [x EXCEPT !.adk = "terminating"]])
    /\ UNCHANGED lifecycle

-----------------------------------------------------------------------------
(* _rtp_pacing_worker                                                      *)

Paces(i) == info[i].pacing = "playing" /\ ~info[i].pacingCancelled

\* Everything queued is played, or dropped because the caller interrupted.
Play(i) ==
    /\ Paces(i) /\ info[i].is_active /\ info[i].audio
    /\ info' = [info EXCEPT ![i].audio = FALSE]
    /\ UNCHANGED <<tracking, sessions, lifecycle>>

\* Nothing is left to play three seconds after the end was requested.
HangUp(i) ==
    /\ Paces(i) /\ info[i].is_active /\ ~info[i].audio
    /\ info[i].end_call_requested
    /\ info' = [info EXCEPT ![i].pacing = "hangingUp"]
    /\ UNCHANGED <<tracking, sessions, lifecycle>>

_send_bye(i) ==
    /\ info[i].pacing = "hangingUp" /\ ~info[i].pacingCancelled
    /\ info' = [info EXCEPT ![i].bye_sent = TRUE, ![i].is_active = FALSE, ![i].pacing = "done",
                            ![i].audio = FALSE]
    /\ UNCHANGED <<tracking, sessions, lifecycle>>

\* Mutant: a cancellation of the pacing task is lost on it while it hangs up.
PacingStopsWhilePlaying(i) ==
    /\ info[i].pacing = "playing"
    /\ info[i].pacingCancelled \/ ~info[i].is_active
    /\ info' = [info EXCEPT ![i].pacing = "done", ![i].pacingCancelled = FALSE,
                            ![i].audio = FALSE]
    /\ UNCHANGED <<tracking, sessions, lifecycle>>

\* A cancellation is swallowed, and what is left in the queue is not played.
PacingStops(i) ==
    /\ PacingAlive(info[i])
    /\ \/ info[i].pacingCancelled
       \/ info[i].pacing = "playing" /\ ~info[i].is_active
    /\ info' = [info EXCEPT ![i].pacing = "done", ![i].pacingCancelled = FALSE,
                            ![i].audio = FALSE]
    /\ UNCHANGED <<tracking, sessions, lifecycle>>

-----------------------------------------------------------------------------
(* The tasks that a second start of their info has put out of reach.       *)

\* They speak, ask for the end, play, hang up, and cancel the info's present pacing task
\* when they have waited for it in vain.
LostTasksGoOn(i) ==
    /\ info[i].earlier_tasks = "lost"
    /\ \E audio, end_call, bye, cancel \in BOOLEAN :
          /\ audio => info[i].audio \/ (info[i].is_active /\ info[i].remote_rtp_addr # None)
          /\ cancel => PacingAlive(info[i])
          /\ info' = [info EXCEPT ![i].audio = audio,
                                  ![i].end_call_requested = @ \/ end_call,
                                  ![i].bye_sent = @ \/ bye, ![i].is_active = @ /\ ~bye,
                                  ![i].pacingCancelled = @ \/ cancel]
    /\ UNCHANGED <<tracking, sessions, lifecycle>>

\* The  finally  of a lost agent task.  Nothing awaits it, so that a teardown it runs for
\* another info is like a handler's.
LostAgentEnds(i) ==
    LET c == info[i].call_id IN
    /\ info[i].earlier_tasks = "lost"
    /\ calls[c] # None
    /\ Terminate(c, IF calls[c] = i THEN "lost" ELSE "handler",
                 [info EXCEPT ![i].end_call_requested = TRUE])
    /\ UNCHANGED lifecycle

-----------------------------------------------------------------------------
(* stop(): the calls tracked when it starts are terminated one by one.     *)

stop ==
    /\ server = "running"
    /\ server' = "stopping"
    /\ left' = {c \in CallIds : calls[c] # None}
    /\ UNCHANGED <<tracking, info, sessions>>

StopIsFree == \A i \in Infos : info[i].by = "stop" => info[i].teardown = "done"

StopCall(c) ==
    /\ server = "stopping" /\ StopIsFree
    /\ c \in left
    /\ left' = left \ {c}
    /\ IF calls[c] = None THEN UNCHANGED <<tracking, info, sessions>>
       ELSE Terminate(c, "stop", info)
    /\ UNCHANGED server

Stopped ==
    /\ server = "stopping" /\ StopIsFree
    /\ left = {}
    /\ server' = "stopped"
    /\ UNCHANGED <<tracking, info, sessions, left>>

-----------------------------------------------------------------------------
Phone ==
    \/ \E c \in CallIds, a \in Addrs \cup {None} : _handle_invite(c, a)
    \/ \E c \in CallIds : _handle_ack(c) \/ _handle_bye(c)
    \/ \E a \in Addrs : handle_rtp_packet(a)

\* The tasks of a call, and what the agent's stream and a clock decide in them.
AdkTask(i) == AdkReconnect(i) \/ AdkCancelled(i) \/ AdkDrained(i)
PacingTask(i) == Play(i) \/ HangUp(i) \/ _send_bye(i) \/ PacingStops(i)
Stream(i) == AdkEvent(i) \/ AdkStreamEnds(i) \/ AdkStreamError(i) \/ AdkDrainTimeout(i)
LostTasks(i) == LostTasksGoOn(i) \/ LostAgentEnds(i)

Stop == stop \/ (\E c \in CallIds : StopCall(c)) \/ Stopped

Next ==
    \/ Phone
    \/ \E i \in Infos : Teardown(i) \/ AdkTask(i) \/ PacingTask(i) \/ Stream(i) \/ LostTasks(i)
    \/ Stop

Spec == Init /\ [][Next]_vars

\* The event loop runs every task that can run, stop() included once it is called.
\* Nothing is assumed of the agent's stream: it may last for ever.
Fairness ==
    /\ \A i \in Infos :
          WF_vars(Teardown(i)) /\ WF_vars(AdkTask(i)) /\ WF_vars(PacingTask(i))
    /\ WF_vars((\E c \in CallIds : StopCall(c)) \/ Stopped)

FairSpec == Spec /\ Fairness

-----------------------------------------------------------------------------
TypeOK ==
    /\ calls \in [CallIds -> Infos \cup {None}]
    /\ rtp_addr_to_call \in [Addrs -> CallIds \cup {None}]
    /\ info \in [Infos -> SIPCallInfo]
    /\ sessions \subseteq CallIds
    /\ transcript_store \subseteq CallIds
    /\ server \in {"running", "stopping", "stopped"}
    /\ left \subseteq CallIds

=============================================================================
