---------------------------- MODULE VoiceSession ----------------------------
(***************************************************************************)
(* The connections of a browser to one voice session (websocket_endpoint,  *)
(* ADKSessionManager, TranscriptHandler).  A client that lost its          *)
(* connection comes back with the same session id, perhaps before the old  *)
(* connection has been finalised.  All of them share, under that id, the   *)
(* transcript, the ADK session, the queue for audio clips and the memory.  *)
(*                                                                         *)
(* asyncio runs one connection at a time from one await to the next: the   *)
(* steps are split there.  The services that are called, and the client,   *)
(* may answer late or never.                                               *)
(***************************************************************************)
EXTENDS Integers, Sequences, FiniteSets, SequencesExt

CONSTANTS
    Conns,          \* connections with the session id
    None,
    Turns,          \* _SESSION_MEMORY_TURNS
    MaxMessages     \* bound: messages in the life of the session

ASSUME VoiceAssumption ==
    /\ Turns \in Nat \ {0} /\ MaxMessages \in Nat
    /\ None \notin Conns /\ None \notin Seq([by : Conns, n : Nat])

VARIABLES
    transcript, \* transcript_store[session_id], None if there is no entry
    adk,        \* the session service knows the session
    clips,      \* the connection whose queue is registered for audio clips
    memory,     \* _session_memory[session_id]
    stage,      \* stage[c]: how far connection c has got
    partial,    \* partial[c]: the agent is in the middle of a turn that will be recorded
    suppress,   \* suppress[c]: suppress_agent_output
    core,       \* core[c]: the Core session of c
    given,      \* given[c]: the memory that the agent of c was told
    history,    \* history[c]: the transcript that c ended its Core session with
    recorded,   \* recorded[c]: what c has recorded
    overlapped, \* the connections that were not alone
    broken,     \* the connections that met a missing transcript
    last        \* the connection that was finalised last

shared == <<transcript, adk, clips, memory>>
speech == <<partial, suppress>>
observed == <<given, history, recorded, overlapped, broken, last>>
vars == <<shared, stage, speech, core, observed>>

Message == [by : Conns, n : Nat]

Stages == {"idle", "loading", "open", "streaming", "closing", "waiting", "ending", "closed", "dead"}

CoreStates == {"none", "starting", "started", "failed", "abandoned", "ended", "endFailed"}

Active(c) == stage[c] \notin {"idle", "closed", "dead"}

Init ==
    /\ transcript = None /\ adk = FALSE /\ clips = None /\ memory = <<>>
    /\ stage = [c \in Conns |-> "idle"]
    /\ partial = [c \in Conns |-> FALSE] /\ suppress = [c \in Conns |-> FALSE]
    /\ core = [c \in Conns |-> "none"]
    /\ given = [c \in Conns |-> <<>>] /\ history = [c \in Conns |-> None]
    /\ recorded = [c \in Conns |-> <<>>]
    /\ overlapped = {} /\ broken = {} /\ last = None

-----------------------------------------------------------------------------
(* TranscriptHandler                                                       *)

Spoken == FoldFunctionOnSet(LAMBDA s, n : Len(s) + n, 0, recorded, Conns)

\* record_message, which raises when another connection has removed the entry.
Recordable == transcript # None

record_message(c) ==
    LET message == [by |-> c, n |-> Len(recorded[c])] IN
    /\ Recordable
    /\ transcript' = Append(transcript, message)
    /\ recorded' = [recorded EXCEPT ![c] = Append(@, message)]
    /\ UNCHANGED broken

KeyError(c) ==
    /\ ~Recordable
    /\ broken' = broken \cup {c}
    /\ UNCHANGED <<transcript, recorded>>

\* Mutant: no list if nothing was said.
LastTurnsIfAny(s) ==
    IF s = <<>> THEN None ELSE SubSeq(s, IF Len(s) > Turns THEN Len(s) - Turns + 1 ELSE 1, Len(s))

LastTurns(s) == SubSeq(s, IF Len(s) > Turns THEN Len(s) - Turns + 1 ELSE 1, Len(s))

get_transcript == IF transcript = None THEN <<>> ELSE transcript

-----------------------------------------------------------------------------
(* Connecting                                                              *)

\* Mutant: only the ADK session is created.
ConnectBare(c) ==
    LET others == {d \in Conns : Active(d)} IN
    /\ stage[c] = "idle" /\ stage' = [stage EXCEPT ![c] = "loading"]
    /\ adk' = TRUE
    /\ overlapped' = IF others = {} THEN overlapped ELSE overlapped \cup others \cup {c}
    /\ UNCHANGED <<transcript, clips, memory, speech, core, given, history, recorded, broken, last>>

\* The transcript and the ADK session are created unless they exist; the history of the chat
\* may then have to be loaded.
Connect(c) ==
    LET others == {d \in Conns : Active(d)} IN
    /\ stage[c] = "idle" /\ stage' = [stage EXCEPT ![c] = "loading"]
    /\ transcript' = get_transcript /\ adk' = TRUE
    /\ overlapped' = IF others = {} THEN overlapped ELSE overlapped \cup others \cup {c}
    /\ UNCHANGED <<clips, memory, speech, core, given, history, recorded, broken, last>>

\* The agent is told the memory, and the Core session is started in the background.
initialize(c) ==
    /\ stage[c] = "loading" /\ stage' = [stage EXCEPT ![c] = "open"]
    /\ given' = [given EXCEPT ![c] = memory]
    /\ core' = [core EXCEPT ![c] = "starting"]
    /\ clips' = c
    /\ UNCHANGED <<transcript, adk, memory, speech, history, recorded, overlapped, broken, last>>

\* run_live fails on a session that has been deleted.
run_live(c) ==
    /\ stage[c] = "open"
    /\ stage' = [stage EXCEPT ![c] = IF adk THEN "streaming" ELSE "closing"]
    /\ UNCHANGED <<shared, speech, core, observed>>

start_core_session(c) ==
    /\ core[c] = "starting"
    /\ \E result \in {"started", "failed"} : core' = [core EXCEPT ![c] = result]
    /\ UNCHANGED <<shared, stage, speech, observed>>

-----------------------------------------------------------------------------
(* Talking                                                                 *)

MaySpeak == Spoken < MaxMessages

\* A typed message goes to the agent and is recorded; if it cannot be, upstream_task dies of it
\* and the connection with it.
upstream_task(c) ==
    /\ stage[c] \in {"open", "streaming"} /\ MaySpeak
    /\ \/ /\ record_message(c)
          /\ suppress' = [suppress EXCEPT ![c] = FALSE]
          /\ UNCHANGED stage
       \/ /\ KeyError(c)
          /\ stage' = [stage EXCEPT ![c] = "closing"]
          /\ UNCHANGED suppress
    /\ UNCHANGED <<adk, clips, memory, partial, core, given, history, overlapped, last>>

\* process_event catches what goes wrong: speech that cannot be recorded is lost.
InputTranscription(c) ==
    /\ stage[c] = "streaming" /\ MaySpeak
    /\ \/ record_message(c) /\ suppress' = [suppress EXCEPT ![c] = FALSE]
       \/ KeyError(c) /\ UNCHANGED suppress
    /\ UNCHANGED <<adk, clips, memory, stage, partial, core, given, history, overlapped, last>>

AgentSpeaks(c) ==
    /\ stage[c] = "streaming" /\ ~suppress[c] /\ ~partial[c]
    /\ partial' = [partial EXCEPT ![c] = TRUE]
    /\ UNCHANGED <<shared, stage, suppress, core, observed>>

Interrupted(c) ==
    /\ stage[c] = "streaming"
    /\ suppress' = [suppress EXCEPT ![c] = TRUE]
    /\ partial' = [partial EXCEPT ![c] = FALSE]
    /\ UNCHANGED <<shared, stage, core, observed>>

TurnComplete(c) ==
    /\ stage[c] = "streaming" /\ partial[c] /\ MaySpeak
    /\ \/ record_message(c) /\ partial' = [partial EXCEPT ![c] = FALSE]
       \/ KeyError(c) /\ UNCHANGED partial
    /\ UNCHANGED <<adk, clips, memory, stage, suppress, core, given, history, overlapped, last>>

\* The client goes, the stream of the model ends, or anything fails.
Ends(c) ==
    /\ stage[c] \in {"open", "streaming"}
    /\ stage' = [stage EXCEPT ![c] = "closing"]
    /\ UNCHANGED <<shared, speech, core, observed>>

-----------------------------------------------------------------------------
(* finalize                                                                *)

\* Mutant: the clip queue stays registered.
flush_keeping_queue(c) ==
    /\ stage[c] = "closing"
    /\ UNCHANGED clips
    /\ partial' = [partial EXCEPT ![c] = FALSE]
    /\ \/ /\ ~partial[c]
          /\ stage' = [stage EXCEPT ![c] = "waiting"]
          /\ UNCHANGED <<transcript, recorded, broken>>
       \/ /\ partial[c] /\ record_message(c)
          /\ stage' = [stage EXCEPT ![c] = "waiting"]
       \/ /\ partial[c] /\ KeyError(c)
          /\ stage' = [stage EXCEPT ![c] = "dead"]
    /\ UNCHANGED <<adk, memory, suppress, core, given, history, overlapped, last>>

\* The clip queue is unregistered, whosever it is, and a turn in progress is recorded; if that
\* fails, the exception ends finalize.
flush(c) ==
    /\ stage[c] = "closing"
    /\ clips' = None
    /\ partial' = [partial EXCEPT ![c] = FALSE]
    /\ \/ /\ ~partial[c]
          /\ stage' = [stage EXCEPT ![c] = "waiting"]
          /\ UNCHANGED <<transcript, recorded, broken>>
       \/ /\ partial[c] /\ record_message(c)
          /\ stage' = [stage EXCEPT ![c] = "waiting"]
       \/ /\ partial[c] /\ KeyError(c)
          /\ stage' = [stage EXCEPT ![c] = "dead"]
    /\ UNCHANGED <<adk, memory, suppress, core, given, history, overlapped, last>>

\* Mutant: the transcript is left for the next connection.
persistKeeping(c) ==
    /\ memory' = LastTurns(get_transcript)
    /\ transcript' = transcript /\ adk' = FALSE
    /\ last' = c
    /\ stage' = [stage EXCEPT ![c] = "closed"]

\* Mutant: the memory is saved after the transcript has been cleared.
persistCleared(c) ==
    /\ memory' = <<>>
    /\ transcript' = None /\ adk' = FALSE
    /\ last' = c
    /\ stage' = [stage EXCEPT ![c] = "closed"]

\* The memory is replaced, the transcript and the ADK session are deleted.
persist(c) ==
    /\ memory' = LastTurns(get_transcript)
    /\ transcript' = None /\ adk' = FALSE
    /\ last' = c
    /\ stage' = [stage EXCEPT ![c] = "closed"]

\* Mutant: the wait for the Core session has no end.
wait_for_ever(c) ==
    /\ stage[c] = "waiting"
    /\ core[c] \in {"started", "failed"}
    /\ \/ /\ core[c] = "started"
          /\ history' = [history EXCEPT ![c] = get_transcript]
          /\ stage' = [stage EXCEPT ![c] = "ending"]
          /\ UNCHANGED <<transcript, adk, memory, last, core>>
       \/ /\ core[c] = "failed" /\ UNCHANGED core
          /\ persist(c)
          /\ UNCHANGED history
    /\ UNCHANGED <<clips, speech, given, recorded, overlapped, broken>>

\* The start of the Core session is awaited for five seconds and then cancelled.
wait_for(c) ==
    /\ stage[c] = "waiting"
    /\ \/ /\ core[c] = "started"
          /\ history' = [history EXCEPT ![c] = get_transcript]
          /\ stage' = [stage EXCEPT ![c] = "ending"]
          /\ UNCHANGED <<transcript, adk, memory, last, core>>
       \/ /\ core[c] = "failed" /\ UNCHANGED core
          /\ persist(c)
          /\ UNCHANGED history
       \/ /\ core[c] = "starting" /\ core' = [core EXCEPT ![c] = "abandoned"]
          /\ persist(c)
          /\ UNCHANGED history
    /\ UNCHANGED <<clips, speech, given, recorded, overlapped, broken>>

\* end_assistant_session has answered, or failed.
end_core_session(c) ==
    /\ stage[c] = "ending"
    /\ \E result \in {"ended", "endFailed"} : core' = [core EXCEPT ![c] = result]
    /\ persist(c)
    /\ UNCHANGED <<clips, speech, given, history, recorded, overlapped, broken>>

finalize(c) == flush(c) \/ wait_for(c) \/ end_core_session(c)

-----------------------------------------------------------------------------
Next ==
    \E c \in Conns :
       \/ Connect(c) \/ initialize(c) \/ run_live(c) \/ start_core_session(c)
       \/ upstream_task(c) \/ InputTranscription(c)
       \/ AgentSpeaks(c) \/ Interrupted(c) \/ TurnComplete(c)
       \/ Ends(c)
       \/ finalize(c)

\* asyncio runs what can run: the waits of finalize end by their own time-outs.
Spec == Init /\ [][Next]_vars /\ \A c \in Conns : WF_vars(finalize(c))

-----------------------------------------------------------------------------
\* Types: what is shared is there or not, and each connection is at some stage.
TypeOK ==
    /\ transcript \in Seq(Message) \cup {None}
    /\ adk \in BOOLEAN /\ clips \in Conns \cup {None} /\ last \in Conns \cup {None}
    /\ memory \in Seq(Message)
    /\ stage \in [Conns -> Stages]
    /\ partial \in [Conns -> BOOLEAN] /\ suppress \in [Conns -> BOOLEAN]
    /\ core \in [Conns -> CoreStates]
    /\ given \in [Conns -> Seq(Message)]
    /\ history \in [Conns -> Seq(Message) \cup {None}]
    /\ recorded \in [Conns -> Seq(Message)]
    /\ overlapped \subseteq Conns /\ broken \subseteq Conns

\* However connections overlap, they release what they share: the transcript and the ADK
\* session exist together, and only while a connection is there to delete them, and clips go to
\* no queue that has been unregistered (session_manager.py:267-283, handler.py:438-440).
ResourcesAreReleased ==
    /\ adk <=> transcript # None
    /\ adk => \E c \in Conns : Active(c)
    /\ clips # None => stage[clips] \in {"open", "streaming", "closing"}

\* No connection breaks for want of its transcript unless another one of the same session
\* overlapped it (transcription/handler.py:56, session_manager.py:235-271).
OnlyOverlapsBreak ==
    /\ broken \subseteq overlapped
    /\ \A c \in Conns : stage[c] = "dead" => c \in overlapped

\* A connection that was alone ends its Core session with exactly what was recorded on it,
\* and nothing of the connections before it (session_manager.py:235-260).
CoreGetsTheTranscript ==
    \A c \in Conns : c \notin overlapped /\ history[c] # None => history[c] = recorded[c]

\* "Survives WebSocket disconnects so the agent remembers what was discussed"
\* (session_manager.py:27): as long as no two connections overlap, the next one is told the
\* last turns of the last one, if anything was recorded on that. The code keeps no more of
\* the promise: a connection on which nothing was said is excluded here, since finalize then
\* replaces the memory by nothing, and all that was said before is forgotten
\* (session_manager.py:267-270).
MemoryIsOfTheLast ==
    overlapped = {} /\ last # None /\ recorded[last] # <<>> => memory = LastTurns(recorded[last])

\* Every connection that ends is finalised, or dies of the attempt.
EveryEndIsFinal ==
    \A c \in Conns : stage[c] = "closing" ~> stage[c] \in {"closed", "dead"}

=============================================================================
