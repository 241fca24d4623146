---------------------------- MODULE VoiceProofs ----------------------------
(***************************************************************************)
(* Proofs about VoiceSession, for any number of connections and messages.  *)
(***************************************************************************)
EXTENDS VoiceSession, SequenceTheorems, TLAPS

\* Whoever is not overlapped is alone, and the transcript is its own.
Alone ==
    \A c \in Conns : Active(c) /\ c \notin overlapped =>
       /\ transcript = recorded[c]
       /\ \A d \in Conns : Active(d) => d = c

\* Nothing is recorded before a connection is open or after its Core session
\* is being ended.
Progress ==
    /\ \A c \in Conns : stage[c] = "idle" => recorded[c] = <<>>
    /\ \A c \in Conns : history[c] # None => stage[c] \in {"ending", "closed"}
    /\ last # None => stage[last] = "closed"

\* Each connection leaves its last turns, or nothing if there were none.
MemoryIsReplaced ==
    overlapped = {} => memory = (IF last = None THEN <<>> ELSE LastTurns(recorded[last]))

SessionInvariant ==
    /\ TypeOK
    /\ ResourcesAreReleased /\ OnlyOverlapsBreak
    /\ CoreGetsTheTranscript /\ MemoryIsReplaced
    /\ Alone /\ Progress

-----------------------------------------------------------------------------
\* The types.

\* There is no empty place in a transcript: None is none.
LEMMA NoneIsNoTranscript == None \notin Seq(Message)
BY VoiceAssumption DEF Message

\* The last turns of a transcript are a transcript.
LEMMA LastTurnsType ==
    ASSUME NEW s \in Seq(Message)
    PROVE  LastTurns(s) \in Seq(Message)
<1>1. Len(s) \in Nat /\ \A i \in 1..Len(s) : s[i] \in Message
  BY LenProperties
<1> DEFINE from == IF Len(s) > Turns THEN Len(s) - Turns + 1 ELSE 1
<1>2. from \in Int /\ from >= 1
  BY <1>1, VoiceAssumption
<1>3. \A i \in from..Len(s) : s[i] \in Message
  BY <1>1, <1>2
<1>4. SubSeq(s, from, Len(s)) \in Seq(Message)
  <2> HIDE DEF from
  <2> QED BY <1>1, <1>2, <1>3, SubSeqProperties
<1> QED BY <1>4 DEF LastTurns

LEMMA GetTranscriptType ==
    ASSUME TypeOK
    PROVE  get_transcript \in Seq(Message)
<1>1. <<>> \in Seq(Message)
  OBVIOUS
<1> QED BY <1>1 DEF TypeOK, get_transcript

\* What recording a message changes, or trying to.
LEMMA RecordTypes ==
    ASSUME TypeOK, NEW c \in Conns, record_message(c) \/ KeyError(c)
    PROVE  /\ transcript' \in Seq(Message) \cup {None}
           /\ recorded' \in [Conns -> Seq(Message)]
           /\ broken' \subseteq Conns
<1>1. CASE record_message(c)
  <2> DEFINE message == [by |-> c, n |-> Len(recorded[c])]
  <2>1. recorded[c] \in Seq(Message) /\ transcript \in Seq(Message)
    BY <1>1 DEF TypeOK, record_message, Recordable
  <2>2. message \in Message
    BY <2>1, LenProperties DEF Message
  <2>3. Append(transcript, message) \in Seq(Message) /\ Append(recorded[c], message) \in Seq(Message)
    <3> HIDE DEF message
    <3> QED BY <2>1, <2>2, AppendProperties
  <2>4. /\ transcript' = Append(transcript, message)
        /\ recorded' = [recorded EXCEPT ![c] = Append(recorded[c], message)]
        /\ broken' = broken
    BY <1>1 DEF record_message
  <2> QED
    <3> HIDE DEF message
    <3> QED BY <2>3, <2>4 DEF TypeOK
<1>2. CASE KeyError(c)
  BY <1>2 DEF TypeOK, KeyError
<1> QED BY <1>1, <1>2

\* A connection that is finalised leaves typed memory.
LEMMA PersistTypes ==
    ASSUME TypeOK, NEW c \in Conns, persist(c)
    PROVE  /\ memory' \in Seq(Message) /\ transcript' = None /\ adk' = FALSE
           /\ last' = c
           /\ stage' = [stage EXCEPT ![c] = "closed"]
BY GetTranscriptType, LastTurnsType DEF persist

LEMMA TypeInit == Init => TypeOK
<1>1. <<>> \in Seq(Message)
  OBVIOUS
<1> QED BY <1>1 DEF Init, TypeOK, Stages, CoreStates

LEMMA TypeStep == TypeOK /\ [Next]_vars => TypeOK'
<1> SUFFICES ASSUME TypeOK, [Next]_vars PROVE TypeOK'
  OBVIOUS
<1> USE DEF shared, speech, observed
<1>1. ASSUME NEW c \in Conns, Connect(c) PROVE TypeOK'
  BY <1>1, GetTranscriptType DEF Connect, TypeOK, Stages
<1>2. ASSUME NEW c \in Conns, initialize(c) PROVE TypeOK'
  BY <1>2 DEF initialize, TypeOK, Stages, CoreStates
<1>3. ASSUME NEW c \in Conns, run_live(c) PROVE TypeOK'
  BY <1>3 DEF run_live, TypeOK, Stages
<1>4. ASSUME NEW c \in Conns, start_core_session(c) PROVE TypeOK'
  BY <1>4 DEF start_core_session, TypeOK, CoreStates
<1>5. ASSUME NEW c \in Conns, upstream_task(c) PROVE TypeOK'
  <2>1. record_message(c) \/ KeyError(c)
    BY <1>5 DEF upstream_task
  <2> QED BY <1>5, <2>1, RecordTypes DEF upstream_task, TypeOK, Stages
<1>6. ASSUME NEW c \in Conns, InputTranscription(c) PROVE TypeOK'
  <2>1. record_message(c) \/ KeyError(c)
    BY <1>6 DEF InputTranscription
  <2> QED BY <1>6, <2>1, RecordTypes DEF InputTranscription, TypeOK
<1>7. ASSUME NEW c \in Conns, AgentSpeaks(c) \/ Interrupted(c) PROVE TypeOK'
  BY <1>7 DEF AgentSpeaks, Interrupted, TypeOK
<1>8. ASSUME NEW c \in Conns, TurnComplete(c) PROVE TypeOK'
  <2>1. record_message(c) \/ KeyError(c)
    BY <1>8 DEF TurnComplete
  <2> QED BY <1>8, <2>1, RecordTypes DEF TurnComplete, TypeOK
<1>9. ASSUME NEW c \in Conns, Ends(c) PROVE TypeOK'
  BY <1>9 DEF Ends, TypeOK, Stages
<1>10. ASSUME NEW c \in Conns, flush(c) PROVE TypeOK'
  <2>1. /\ transcript' \in Seq(Message) \cup {None}
        /\ recorded' \in [Conns -> Seq(Message)]
        /\ broken' \subseteq Conns
    BY <1>10, RecordTypes DEF flush, TypeOK
  <2> QED BY <1>10, <2>1 DEF flush, TypeOK, Stages
<1>11. ASSUME NEW c \in Conns, wait_for(c) PROVE TypeOK'
  <2>1. CASE core[c] = "started"
    <3>1. /\ history' = [history EXCEPT ![c] = get_transcript]
          /\ stage' = [stage EXCEPT ![c] = "ending"]
          /\ UNCHANGED <<transcript, adk, memory, last, core>>
      BY <1>11, <2>1 DEF wait_for
    <3> QED BY <1>11, <3>1, GetTranscriptType DEF wait_for, TypeOK, Stages
  <2>2. CASE core[c] # "started"
    <3>1. /\ persist(c) /\ history' = history
          /\ core' = core \/ core' = [core EXCEPT ![c] = "abandoned"]
      BY <1>11, <2>2 DEF wait_for
    <3> QED BY <1>11, <3>1, PersistTypes DEF wait_for, TypeOK, Stages, CoreStates
  <2> QED BY <2>1, <2>2
<1>12. ASSUME NEW c \in Conns, end_core_session(c) PROVE TypeOK'
  <2>1. persist(c)
    BY <1>12 DEF end_core_session
  <2> QED BY <1>12, <2>1, PersistTypes DEF end_core_session, TypeOK, Stages, CoreStates
<1>13. CASE UNCHANGED vars
  BY <1>13 DEF vars, TypeOK
<1> QED BY <1>1, <1>2, <1>3, <1>4, <1>5, <1>6, <1>7, <1>8, <1>9, <1>10, <1>11, <1>12, <1>13
      DEF Next, finalize

-----------------------------------------------------------------------------
(* The steps.                                                              *)

\* What a step that adds c to those that talk leaves true; a step of c that changes neither what
\* was recorded nor what is shared, and keeps c active.
Quiet == <<transcript, adk, memory, history, recorded, overlapped, broken, last>>

Talking == {"open", "streaming", "closing"}

LEMMA QuietStep ==
    ASSUME SessionInvariant, NEW c \in Conns, UNCHANGED Quiet,
           \/ stage' = stage
           \/ stage[c] \in Talking /\ \E s \in Talking : stage' = [stage EXCEPT ![c] = s]
           \/ stage[c] = "loading" /\ stage' = [stage EXCEPT ![c] = "open"],
           clips' = clips \/ (clips' = c /\ stage'[c] \in Talking)
    PROVE  /\ ResourcesAreReleased' /\ OnlyOverlapsBreak'
           /\ CoreGetsTheTranscript' /\ MemoryIsReplaced'
           /\ Alone' /\ Progress'
<1> USE DEF Quiet
<1>0. stage \in [Conns -> Stages] /\ clips \in Conns \cup {None} /\ last \in Conns \cup {None}
  BY DEF SessionInvariant, TypeOK
<1>1. \A d \in Conns : Active(d)' <=> Active(d)
  BY <1>0 DEF Active, Talking
<1>2. \A d \in Conns : /\ stage[d] \in {"idle", "ending", "closed", "dead"} <=> stage'[d] \in {"idle", "ending", "closed", "dead"}
                       /\ stage[d] \in {"idle", "ending", "closed", "dead"} => stage'[d] = stage[d]
                       /\ stage[d] \in Talking => stage'[d] \in Talking
  BY <1>0 DEF Talking
<1>3. ResourcesAreReleased'
  BY <1>0, <1>1, <1>2 DEF SessionInvariant, ResourcesAreReleased, Talking
<1>4. OnlyOverlapsBreak'
  BY <1>2 DEF SessionInvariant, OnlyOverlapsBreak
<1>5. CoreGetsTheTranscript'
  BY DEF SessionInvariant, CoreGetsTheTranscript
<1>6. MemoryIsReplaced'
  BY DEF SessionInvariant, MemoryIsReplaced
<1>7. Alone'
  BY <1>1 DEF SessionInvariant, Alone
<1>8. Progress'
  BY <1>0, <1>2 DEF SessionInvariant, Progress
<1> QED BY <1>3, <1>4, <1>5, <1>6, <1>7, <1>8

\* A message of a connection that talks is recorded, or cannot be.
LEMMA RecordStep ==
    ASSUME SessionInvariant, NEW c \in Conns, record_message(c) \/ KeyError(c),
           UNCHANGED <<adk, memory, history, overlapped, last>>,
           stage[c] \in Talking,
           \/ stage' = stage
           \/ \E s \in Talking \cup {"waiting"} : stage' = [stage EXCEPT ![c] = s]
           \/ KeyError(c) /\ stage' = [stage EXCEPT ![c] = "dead"],
           (clips' = clips /\ stage'[c] \in Talking) \/ clips' = None
    PROVE  /\ ResourcesAreReleased' /\ OnlyOverlapsBreak'
           /\ CoreGetsTheTranscript' /\ MemoryIsReplaced'
           /\ Alone' /\ Progress'
<1>0. /\ stage \in [Conns -> Stages] /\ clips \in Conns \cup {None} /\ last \in Conns \cup {None}
      /\ transcript \in Seq(Message) \cup {None} /\ recorded \in [Conns -> Seq(Message)]
  BY DEF SessionInvariant, TypeOK
<1>1. /\ \A d \in Conns : Active(d)' => Active(d)
      /\ ~KeyError(c) => \A d \in Conns : Active(d) => Active(d)'
      /\ Active(c)
  BY <1>0 DEF Active, Talking
<1>2. \A d \in Conns \ {c} : stage'[d] = stage[d] /\ recorded'[d] = recorded[d]
  BY <1>0 DEF record_message, KeyError
<1>3. stage'[c] \in Talking \cup {"waiting", "dead"} /\ (stage'[c] = "dead" => KeyError(c))
  BY <1>0 DEF Talking
<1>4. KeyError(c) => c \in overlapped /\ ~adk
  BY <1>0, <1>1, NoneIsNoTranscript
     DEF SessionInvariant, Alone, KeyError, Recordable, ResourcesAreReleased
<1>5. ResourcesAreReleased'
  <2>1. transcript' # None <=> transcript # None
    <3>1. CASE record_message(c)
      <4>1. transcript' \in Seq(Message)
        BY <3>1, RecordTypes DEF record_message, Recordable, SessionInvariant, TypeOK, Message
      <4> QED BY <3>1, <4>1, NoneIsNoTranscript DEF record_message, Recordable
    <3>2. CASE KeyError(c)
      BY <3>2 DEF KeyError
    <3> QED BY <3>1, <3>2
  <2>2. adk' => \E d \in Conns : Active(d)'
    BY <1>1, <1>4 DEF SessionInvariant, ResourcesAreReleased
  <2>3. clips' # None => stage'[clips'] \in {"open", "streaming", "closing"}
    BY <1>0, <1>2 DEF SessionInvariant, ResourcesAreReleased, Talking
  <2> QED BY <2>1, <2>2, <2>3 DEF SessionInvariant, ResourcesAreReleased
<1>6. OnlyOverlapsBreak'
  BY <1>2, <1>3, <1>4 DEF SessionInvariant, OnlyOverlapsBreak, record_message, KeyError, Talking
<1>7. CoreGetsTheTranscript'
  BY <1>2 DEF SessionInvariant, CoreGetsTheTranscript, Progress, Talking
<1>8. MemoryIsReplaced'
  <2>1. last # None => last # c
    BY DEF SessionInvariant, Progress, Talking
  <2> QED BY <1>0, <1>2, <2>1 DEF SessionInvariant, MemoryIsReplaced
<1>9. Alone'
  <2> SUFFICES ASSUME NEW d \in Conns, Active(d)', d \notin overlapped
               PROVE  transcript' = recorded'[d] /\ \A e \in Conns : Active(e)' => e = d
    BY DEF Alone
  <2>1. d = c /\ transcript = recorded[c] /\ \A e \in Conns : Active(e) => e = d
    BY <1>1 DEF SessionInvariant, Alone
  <2>2. record_message(c)
    BY <1>4, <2>1
  <2> QED BY <1>0, <1>1, <2>1, <2>2 DEF record_message
<1>10. Progress'
  BY <1>0, <1>2, <1>3 DEF SessionInvariant, Progress, Talking
<1> QED BY <1>5, <1>6, <1>7, <1>8, <1>9, <1>10

\* A connection that is finalised releases what is shared, and is remembered.
LEMMA PersistStep ==
    ASSUME SessionInvariant, NEW c \in Conns, persist(c), Active(c), stage[c] \notin Talking,
           UNCHANGED <<clips, history, recorded, overlapped, broken>>
    PROVE  /\ ResourcesAreReleased' /\ OnlyOverlapsBreak'
           /\ CoreGetsTheTranscript' /\ MemoryIsReplaced'
           /\ Alone' /\ Progress'
<1>0. /\ stage \in [Conns -> Stages] /\ clips \in Conns \cup {None} /\ last \in Conns \cup {None}
      /\ transcript \in Seq(Message) \cup {None} /\ recorded \in [Conns -> Seq(Message)]
      /\ TypeOK
  BY DEF SessionInvariant, TypeOK
<1>1. /\ memory' = LastTurns(get_transcript) /\ transcript' = None /\ adk' = FALSE /\ last' = c
      /\ stage' = [stage EXCEPT ![c] = "closed"]
  BY DEF persist
<1>2. \A d \in Conns : Active(d)' => Active(d) /\ d # c
  BY <1>0, <1>1 DEF Active
<1>3. ResourcesAreReleased'
  BY <1>0, <1>1 DEF SessionInvariant, ResourcesAreReleased, Talking
<1>4. OnlyOverlapsBreak'
  BY <1>0, <1>1 DEF SessionInvariant, OnlyOverlapsBreak
<1>5. CoreGetsTheTranscript'
  BY DEF SessionInvariant, CoreGetsTheTranscript
<1>6. MemoryIsReplaced'
  <2> SUFFICES ASSUME overlapped = {} PROVE memory' = LastTurns(recorded[c])
    BY <1>0, <1>1, VoiceAssumption DEF MemoryIsReplaced
  <2>1. transcript = recorded[c]
    BY DEF SessionInvariant, Alone
  <2>2. get_transcript = recorded[c]
    BY <1>0, <2>1, NoneIsNoTranscript DEF get_transcript
  <2> QED BY <1>1, <2>2
<1>7. Alone'
  BY <1>2 DEF SessionInvariant, Alone
<1>8. Progress'
  BY <1>0, <1>1 DEF SessionInvariant, Progress, Active
<1> QED BY <1>3, <1>4, <1>5, <1>6, <1>7, <1>8

\* A connection finds nothing of the ones before it, unless it overlaps one of them.
LEMMA ConnectStep ==
    ASSUME SessionInvariant, NEW c \in Conns, Connect(c)
    PROVE  /\ ResourcesAreReleased' /\ OnlyOverlapsBreak'
           /\ CoreGetsTheTranscript' /\ MemoryIsReplaced'
           /\ Alone' /\ Progress'
<1> DEFINE others == {d \in Conns : Active(d)}
<1>0. /\ stage \in [Conns -> Stages] /\ clips \in Conns \cup {None} /\ last \in Conns \cup {None}
      /\ transcript \in Seq(Message) \cup {None} /\ recorded \in [Conns -> Seq(Message)]
      /\ TypeOK
  BY DEF SessionInvariant, TypeOK
<1>1. /\ stage[c] = "idle" /\ stage' = [stage EXCEPT ![c] = "loading"]
      /\ transcript' = get_transcript /\ adk' = TRUE
      /\ overlapped' = IF others = {} THEN overlapped ELSE overlapped \cup others \cup {c}
      /\ UNCHANGED <<clips, memory, history, recorded, broken, last>>
  BY DEF Connect, others
<1>2. transcript' \in Seq(Message)
  BY <1>0, <1>1, GetTranscriptType
<1>3. /\ Active(c)' /\ ~Active(c)
      /\ \A d \in Conns : Active(d)' <=> d = c \/ Active(d)
      /\ \A d \in Conns \ {c} : stage'[d] = stage[d]
      /\ stage'[c] = "loading"
  BY <1>0, <1>1 DEF Active
<1>4. overlapped \subseteq overlapped'
  BY <1>1
<1>5. ResourcesAreReleased'
  <2>1. transcript' # None
    BY <1>2, NoneIsNoTranscript
  <2>2. clips # None => clips # c
    BY <1>1 DEF SessionInvariant, ResourcesAreReleased
  <2> QED BY <1>0, <1>1, <1>3, <2>1, <2>2 DEF SessionInvariant, ResourcesAreReleased
<1>6. OnlyOverlapsBreak'
  BY <1>1, <1>3, <1>4 DEF SessionInvariant, OnlyOverlapsBreak
<1>7. CoreGetsTheTranscript'
  BY <1>1, <1>4 DEF SessionInvariant, CoreGetsTheTranscript
<1>8. MemoryIsReplaced'
  BY <1>1, <1>4 DEF SessionInvariant, MemoryIsReplaced
<1>9. Alone'
  <2> SUFFICES ASSUME NEW d \in Conns, Active(d)', d \notin overlapped'
               PROVE  transcript' = recorded'[d] /\ \A e \in Conns : Active(e)' => e = d
    BY DEF Alone
  <2>1. others = {}
    BY <1>1, <1>3
  <2>2. d = c /\ \A e \in Conns : Active(e)' => e = d
    BY <1>3, <2>1
  <2>3. ~adk
    BY <2>1 DEF SessionInvariant, ResourcesAreReleased
  <2>4. transcript' = <<>>
    BY <1>1, <2>3 DEF SessionInvariant, ResourcesAreReleased, get_transcript
  <2>5. recorded[c] = <<>>
    BY <1>1 DEF SessionInvariant, Progress
  <2> QED BY <1>1, <2>2, <2>4, <2>5
<1>10. Progress'
  BY <1>0, <1>1, <1>3 DEF SessionInvariant, Progress
<1> QED BY <1>5, <1>6, <1>7, <1>8, <1>9, <1>10

\* A Core session is ended with what was recorded.
LEMMA EndingStep ==
    ASSUME SessionInvariant, NEW c \in Conns, stage[c] = "waiting",
           stage' = [stage EXCEPT ![c] = "ending"],
           history' = [history EXCEPT ![c] = get_transcript],
           UNCHANGED <<transcript, adk, clips, memory, recorded, overlapped, broken, last>>
    PROVE  /\ ResourcesAreReleased' /\ OnlyOverlapsBreak'
           /\ CoreGetsTheTranscript' /\ MemoryIsReplaced'
           /\ Alone' /\ Progress'
<1>0. /\ stage \in [Conns -> Stages] /\ clips \in Conns \cup {None} /\ last \in Conns \cup {None}
      /\ transcript \in Seq(Message) \cup {None} /\ recorded \in [Conns -> Seq(Message)]
      /\ history \in [Conns -> Seq(Message) \cup {None}]
  BY DEF SessionInvariant, TypeOK
<1>1. /\ \A d \in Conns : Active(d)' <=> Active(d)
      /\ \A d \in Conns \ {c} : stage'[d] = stage[d] /\ history'[d] = history[d]
      /\ Active(c)
  BY <1>0 DEF Active
<1>2. ResourcesAreReleased'
  BY <1>0, <1>1 DEF SessionInvariant, ResourcesAreReleased
<1>3. OnlyOverlapsBreak'
  BY <1>0 DEF SessionInvariant, OnlyOverlapsBreak
<1>4. CoreGetsTheTranscript'
  <2>1. c \notin overlapped => get_transcript = recorded[c]
    BY <1>0, <1>1, NoneIsNoTranscript DEF SessionInvariant, Alone, get_transcript
  <2> QED BY <1>0, <1>1, <2>1 DEF SessionInvariant, CoreGetsTheTranscript
<1>5. MemoryIsReplaced'
  BY DEF SessionInvariant, MemoryIsReplaced
<1>6. Alone'
  BY <1>1 DEF SessionInvariant, Alone
<1>7. Progress'
  BY <1>0 DEF SessionInvariant, Progress
<1> QED BY <1>2, <1>3, <1>4, <1>5, <1>6, <1>7

-----------------------------------------------------------------------------
(* The invariant.                                                          *)

LEMMA InvariantInit == Init => SessionInvariant
<1> SUFFICES ASSUME Init PROVE SessionInvariant
  OBVIOUS
<1>1. \A c \in Conns : ~Active(c)
  BY DEF Init, Active
<1>2. TypeOK
  BY TypeInit
<1> QED BY <1>1, <1>2 DEF Init, SessionInvariant, ResourcesAreReleased, OnlyOverlapsBreak,
      CoreGetsTheTranscript, MemoryIsReplaced, Alone, Progress

LEMMA InvariantStep == SessionInvariant /\ [Next]_vars => SessionInvariant'
<1> SUFFICES ASSUME SessionInvariant, [Next]_vars PROVE SessionInvariant'
  OBVIOUS
<1> DEFINE Rest == /\ ResourcesAreReleased /\ OnlyOverlapsBreak
                   /\ CoreGetsTheTranscript /\ MemoryIsReplaced
                   /\ Alone /\ Progress
<1>0. TypeOK' /\ stage \in [Conns -> Stages]
  BY TypeStep DEF SessionInvariant, TypeOK
<1> USE DEF shared, speech, observed
<1>1. ASSUME NEW c \in Conns, Connect(c) PROVE Rest'
  BY <1>1, ConnectStep
<1>2. ASSUME NEW c \in Conns, \/ initialize(c) \/ run_live(c) \/ start_core_session(c)
                              \/ AgentSpeaks(c) \/ Interrupted(c) \/ Ends(c)
      PROVE  Rest'
  <2>1. UNCHANGED Quiet
    BY <1>2 DEF initialize, run_live, start_core_session, AgentSpeaks, Interrupted, Ends, Quiet
  <2>2. \/ stage' = stage
        \/ stage[c] \in Talking /\ \E s \in Talking : stage' = [stage EXCEPT ![c] = s]
        \/ stage[c] = "loading" /\ stage' = [stage EXCEPT ![c] = "open"]
    BY <1>2 DEF initialize, run_live, start_core_session, AgentSpeaks, Interrupted, Ends, Talking
  <2>3. clips' = clips \/ (clips' = c /\ stage'[c] \in Talking)
    BY <1>0, <1>2 DEF initialize, run_live, start_core_session, AgentSpeaks, Interrupted, Ends, Talking
  <2> QED BY <2>1, <2>2, <2>3, QuietStep
<1>3. ASSUME NEW c \in Conns, upstream_task(c) \/ InputTranscription(c) \/ TurnComplete(c)
      PROVE  Rest'
  <2>1. /\ record_message(c) \/ KeyError(c)
        /\ UNCHANGED <<adk, memory, history, overlapped, last, clips>>
        /\ stage[c] \in Talking
    BY <1>3 DEF upstream_task, InputTranscription, TurnComplete, Talking
  <2>2. stage' = stage \/ stage' = [stage EXCEPT ![c] = "closing"]
    BY <1>3 DEF upstream_task, InputTranscription, TurnComplete
  <2>3. stage'[c] \in Talking
    BY <1>0, <2>1, <2>2 DEF Talking
  <2>4. \/ stage' = stage
        \/ \E s \in Talking \cup {"waiting"} : stage' = [stage EXCEPT ![c] = s]
    BY <2>2 DEF Talking
  <2> QED BY <2>1, <2>3, <2>4, RecordStep
<1>4. ASSUME NEW c \in Conns, flush(c) PROVE Rest'
  <2>1. /\ stage[c] = "closing" /\ stage[c] \in Talking /\ clips' = None
        /\ UNCHANGED <<adk, memory, history, overlapped, last>>
    BY <1>4 DEF flush, Talking
  <2>2. CASE partial[c]
    <3>1. \/ record_message(c) /\ stage' = [stage EXCEPT ![c] = "waiting"]
          \/ KeyError(c) /\ stage' = [stage EXCEPT ![c] = "dead"]
      BY <1>4, <2>2 DEF flush
    <3> QED BY <2>1, <3>1, RecordStep
  <2>3. CASE ~partial[c]
    <3>1. stage' = [stage EXCEPT ![c] = "waiting"] /\ UNCHANGED <<transcript, recorded, broken>>
      BY <1>4, <2>3 DEF flush
    <3>2. \A d \in Conns : /\ Active(d)' <=> Active(d)
                           /\ d # c => stage'[d] = stage[d]
      BY <1>0, <2>1, <3>1 DEF Active
    <3>3. ResourcesAreReleased'
      BY <2>1, <3>1, <3>2 DEF SessionInvariant, ResourcesAreReleased
    <3>4. OnlyOverlapsBreak'
      BY <1>0, <2>1, <3>1 DEF SessionInvariant, OnlyOverlapsBreak
    <3>5. CoreGetsTheTranscript' /\ MemoryIsReplaced'
      BY <2>1, <3>1 DEF SessionInvariant, CoreGetsTheTranscript, MemoryIsReplaced
    <3>6. Alone'
      BY <2>1, <3>1, <3>2 DEF SessionInvariant, Alone
    <3>7. Progress'
      BY <1>0, <2>1, <3>1 DEF SessionInvariant, Progress, TypeOK
    <3> QED BY <3>3, <3>4, <3>5, <3>6, <3>7
  <2> QED BY <2>2, <2>3
<1>5. ASSUME NEW c \in Conns, wait_for(c) PROVE Rest'
  <2>1. stage[c] = "waiting" /\ Active(c) /\ stage[c] \notin Talking
    BY <1>5 DEF wait_for, Active, Talking
  <2>2. UNCHANGED <<clips, recorded, overlapped, broken>>
    BY <1>5 DEF wait_for
  <2>3. \/ persist(c) /\ history' = history
        \/ /\ history' = [history EXCEPT ![c] = get_transcript]
           /\ stage' = [stage EXCEPT ![c] = "ending"]
           /\ UNCHANGED <<transcript, adk, memory, last>>
    BY <1>5 DEF wait_for
  <2> QED BY <2>1, <2>2, <2>3, PersistStep, EndingStep
<1>6. ASSUME NEW c \in Conns, end_core_session(c) PROVE Rest'
  <2>1. /\ persist(c) /\ Active(c) /\ stage[c] \notin Talking
        /\ UNCHANGED <<clips, history, recorded, overlapped, broken>>
    BY <1>6 DEF end_core_session, Active, Talking
  <2> QED BY <2>1, PersistStep
<1>7. ASSUME UNCHANGED vars PROVE Rest'
  <2> USE <1>7 DEF vars
  <2>1. \A d \in Conns : Active(d)' <=> Active(d)
    BY DEF Active
  <2>2. ResourcesAreReleased' /\ OnlyOverlapsBreak'
    BY <2>1 DEF SessionInvariant, ResourcesAreReleased, OnlyOverlapsBreak
  <2>3. CoreGetsTheTranscript' /\ Progress'
    BY DEF SessionInvariant, CoreGetsTheTranscript, Progress
  <2>4. MemoryIsReplaced'
    BY DEF SessionInvariant, MemoryIsReplaced
  <2>5. Alone'
    BY <2>1 DEF SessionInvariant, Alone
  <2> QED BY <2>2, <2>3, <2>4, <2>5
<1>8. Rest'
  <2> HIDE DEF Rest
  <2> QED BY <1>1, <1>2, <1>3, <1>4, <1>5, <1>6, <1>7 DEF Next, finalize
<1> QED BY <1>0, <1>8 DEF SessionInvariant

THEOREM Invariant == Spec => []SessionInvariant
BY InvariantInit, InvariantStep, PTL DEF Spec

\* Every reachable state is typed.
THEOREM TypeCorrect == Spec => []TypeOK
<1>1. SessionInvariant => TypeOK
  BY DEF SessionInvariant
<1> QED BY <1>1, Invariant, PTL

\* However connections overlap, transcript, ADK session and clip queue are released.
THEOREM Released == Spec => []ResourcesAreReleased
<1>1. SessionInvariant => ResourcesAreReleased
  BY DEF SessionInvariant
<1> QED BY <1>1, Invariant, PTL

\* Only an overlap costs a connection its transcript.
THEOREM OverlapsBreak == Spec => []OnlyOverlapsBreak
<1>1. SessionInvariant => OnlyOverlapsBreak
  BY DEF SessionInvariant
<1> QED BY <1>1, Invariant, PTL

\* The Core session of a connection that was alone gets what was recorded on it.
THEOREM CoreGets == Spec => []CoreGetsTheTranscript
<1>1. SessionInvariant => CoreGetsTheTranscript
  BY DEF SessionInvariant
<1> QED BY <1>1, Invariant, PTL

\* As long as none overlap, the memory is what the last connection recorded, if it recorded
\* anything. What the code does of a silent one is in MemoryIsReplaced.
THEOREM Remembered == Spec => []MemoryIsOfTheLast
<1>1. SessionInvariant => MemoryIsOfTheLast
  BY DEF SessionInvariant, MemoryIsReplaced, MemoryIsOfTheLast
<1> QED BY <1>1, Invariant, PTL

=============================================================================
