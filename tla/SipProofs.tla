------------------------------ MODULE SipProofs ------------------------------
(***************************************************************************)
(* Proofs about the SIP server, for any calls, addresses and retries.      *)
(* Types, routes, the run of a teardown and what it releases of a call     *)
(* that was started once hold whatever INVITEs and ACKs are repeated; the  *)
(* tracking of calls, what a teardown cleans up and waits for, and the end *)
(* an agent asks for as long as every INVITE opens a dialog of its own.    *)
(***************************************************************************)
EXTENDS SipSafety, TLAPS

TypeOfOthers ==
    /\ rtp_addr_to_call \in [Addrs -> CallIds \cup {None}]
    /\ sessions \subseteq CallIds
    /\ transcript_store \subseteq CallIds
    /\ server \in {"running", "stopping", "stopped"}
    /\ left \subseteq CallIds

\* Between two states of an info, its teardown goes on and keeps its owner.
Advance(x, y) ==
    /\ TeardownRank[x.teardown] <= TeardownRank[y.teardown]
    /\ x.by # None => y.by = x.by

Advances == \A i \in Infos : Advance(info[i], info'[i])

\* What a running task may have changed in the infos before it terminates a call.
Prepared(infos) ==
    /\ infos \in [Infos -> SIPCallInfo]
    /\ \A i \in Infos : /\ Sound(infos[i], i)
                        /\ infos[i].call_id = info[i].call_id
                        /\ infos[i].teardown = info[i].teardown
                        /\ infos[i].by = info[i].by

LEMMA NoRetries == 0 \in 0 .. max_retries + 1
BY RetriesAssumption

LEMMA FreshSound ==
    ASSUME NEW c \in CallIds \cup {None}, NEW a \in Addrs \cup {None}, NEW i \in Infos
    PROVE  Fresh(c, a) \in SIPCallInfo /\ Sound(Fresh(c, a), i)
BY RetriesAssumption, NoneAssumption DEF Fresh, SIPCallInfo, Sound, Running, Pacing

LEMMA InitInvariant == Init => TeardownInvariant
<1> SUFFICES ASSUME Init PROVE TeardownInvariant
  OBVIOUS
<1>1. \A i \in Infos : info[i] = Fresh(None, None)
  BY DEF Init
<1>2. info \in [Infos -> SIPCallInfo] /\ \A i \in Infos : Sound(info[i], i)
  BY <1>1, FreshSound DEF Init
<1>3. \A i \in Infos : info[i].by = None
  BY <1>1 DEF Fresh
<1>4. TypeOK
  BY <1>2 DEF Init, TypeOK
<1> QED
  BY <1>2, <1>3, <1>4, NoneAssumption DEF Init, TeardownInvariant

\* A step that leaves the tracking and every teardown alone.
LEMMA QuietStep ==
    ASSUME TeardownInvariant, Prepared(info'), UNCHANGED calls, TypeOfOthers'
    PROVE  TeardownInvariant' /\ Advances
<1>1. TypeOK'
  BY DEF TeardownInvariant, TypeOK, TypeOfOthers, Prepared
<1>2. \A c \in CallIds : calls'[c] # None => IsTracked(info'[calls'[c]], c)
  BY DEF TeardownInvariant, TypeOK, Prepared, IsTracked
<1>3. \A i \in Infos : info'[i].by \in Infos => info'[info'[i].by].call_id # None
  BY DEF TeardownInvariant, Prepared
<1>4. Advances
  <2> SUFFICES ASSUME NEW i \in Infos PROVE Advance(info[i], info'[i])
    BY DEF Advances
  <2>1. info[i].teardown \in {"none", "adk", "pacing", "done"}
    BY DEF TeardownInvariant, TypeOK, SIPCallInfo
  <2> QED
    BY <2>1 DEF Advance, Prepared, TeardownRank
<1> QED
  BY <1>1, <1>2, <1>3, <1>4 DEF TeardownInvariant, Prepared

LEMMA AwaitsType ==
    ASSUME NEW x, NEW k
    PROVE  /\ Awaits(x, k) \in {"adk", "pacing", "done"}
           /\ Awaits(x, k) # "adk" => x.adk \notin Running \/ x.by \in {k, "lost"}
           /\ Awaits(x, k) = "done" => ~PacingAlive(x)
BY DEF Awaits

LEMMA AtStageType ==
    ASSUME NEW x \in SIPCallInfo, NEW stage \in {"adk", "pacing", "done"},
           NEW y, y = AtStage(x, stage)
    PROVE  /\ y \in SIPCallInfo
           /\ y.teardown = stage
           /\ y.call_id = x.call_id /\ y.by = x.by /\ y.adk = x.adk /\ y.pacing = x.pacing
           /\ y.is_active = x.is_active /\ y.cancelled = x.cancelled
           /\ y.live_request_queue = x.live_request_queue
           /\ y.transcript_handler = x.transcript_handler
           /\ y.retry_count = x.retry_count /\ y.earlier_tasks = x.earlier_tasks
<1> DEFINE cancels == x.pacingCancelled \/ stage = "pacing"
<1>1. cancels \in BOOLEAN
  OBVIOUS
<1>2. y = [x EXCEPT !.teardown = stage, !.pacingCancelled = cancels]
  BY DEF AtStage
<1> HIDE DEF cancels
<1>3. y \in SIPCallInfo
  BY ZenonT(40), <1>1, <1>2 DEF SIPCallInfo
<1>4. y.cancelled = x.cancelled /\ y.is_active = x.is_active
  BY <1>2 DEF SIPCallInfo
<1>5. /\ y.teardown = stage
      /\ y.call_id = x.call_id /\ y.by = x.by /\ y.adk = x.adk /\ y.pacing = x.pacing
      /\ y.live_request_queue = x.live_request_queue
      /\ y.transcript_handler = x.transcript_handler
      /\ y.retry_count = x.retry_count /\ y.earlier_tasks = x.earlier_tasks
  BY <1>2 DEF SIPCallInfo
<1> QED
  BY <1>3, <1>4, <1>5

\* A teardown that goes as far as it can leaves sound infos.
LEMMA ProceedSound ==
    ASSUME NEW k \in Infos, NEW infos \in [Infos -> SIPCallInfo],
           infos[k].call_id # None,
           infos[k].by # None,
           infos[k].by \in Infos => infos[infos[k].by].call_id # None,
           ~infos[k].is_active,
           infos[k].live_request_queue # "open",
           infos[k].transcript_handler # "open",
           infos[k].adk \in {"streaming", "reconnecting"} =>
              infos[k].cancelled \/ infos[k].by = "lost",
           infos[k].by = "lost" => infos[k].earlier_tasks = "lost",
           infos[k].adk \in {"none", "streaming", "reconnecting"} =>
              infos[k].retry_count <= max_retries,
           \A j \in Infos \ {k} : Sound(infos[j], j),
           Proceed(k, infos)
    PROVE  /\ info' \in [Infos -> SIPCallInfo]
           /\ \A j \in Infos : Sound(info'[j], j)
           /\ \A j \in Infos : /\ info'[j].call_id = infos[j].call_id
                               /\ info'[j].by = infos[j].by
                               /\ j # k => info'[j].teardown = infos[j].teardown
           /\ info'[k].teardown = Awaits(infos[k], k)
           /\ sessions' \subseteq sessions
<1> DEFINE x == infos[k]
           stage == Awaits(x, k)
           y == AtStage(x, stage)
           moved == [infos EXCEPT ![k] = y]
<1>1. /\ stage \in {"adk", "pacing", "done"}
      /\ stage # "adk" => x.adk \notin Running \/ x.by \in {k, "lost"}
      /\ stage = "done" => ~PacingAlive(x)
  BY AwaitsType
<1>2. /\ y \in SIPCallInfo
      /\ y.teardown = stage
      /\ y.call_id = x.call_id /\ y.by = x.by /\ y.adk = x.adk /\ y.pacing = x.pacing
      /\ y.is_active = x.is_active /\ y.cancelled = x.cancelled
      /\ y.live_request_queue = x.live_request_queue
      /\ y.transcript_handler = x.transcript_handler
      /\ y.retry_count = x.retry_count /\ y.earlier_tasks = x.earlier_tasks
  <2>1. x \in SIPCallInfo
    OBVIOUS
  <2> HIDE DEF x, stage
  <2> QED
    BY <1>1, <2>1, AtStageType
<1>3. /\ info' = IF stage = "done" /\ x.by \in Infos THEN [moved EXCEPT ![x.by].adk = "done"]
                 ELSE moved
      /\ sessions' = IF stage = "done" THEN sessions \ {x.call_id} ELSE sessions
  BY DEF Proceed
<1> DEFINE j == x.by
<1>4. \A i \in Infos : moved[i] = IF i = k THEN y ELSE infos[i]
  OBVIOUS
<1>5. moved \in [Infos -> SIPCallInfo]
  BY <1>2
<1>6. CASE stage = "done" /\ x.by \in Infos
  <2>1. info' = [moved EXCEPT ![j] = [moved[j] EXCEPT !.adk = "done"]]
    BY <1>3, <1>6
  <2>2. j \in Infos /\ moved[j].call_id # None
    BY <1>2, <1>4, <1>6
  <2> DEFINE z == [moved[j] EXCEPT !.adk = "done"]
  <2>3. /\ z \in SIPCallInfo
        /\ z.adk = "done"
        /\ z.call_id = moved[j].call_id /\ z.by = moved[j].by
        /\ z.pacing = moved[j].pacing /\ z.teardown = moved[j].teardown
        /\ z.is_active = moved[j].is_active
        /\ z.live_request_queue = moved[j].live_request_queue
        /\ z.transcript_handler = moved[j].transcript_handler
        /\ z.earlier_tasks = moved[j].earlier_tasks
    BY <1>5, <2>2 DEF SIPCallInfo
  <2>4. \A i \in Infos : info'[i] = IF i = j THEN z ELSE moved[i]
    BY <1>5, <2>1
  <2>5. ASSUME NEW i \in Infos PROVE Sound(info'[i], i)
    <3>1. CASE i = j /\ i = k
      <4>1. info'[i] = z /\ moved[j] = y
        BY <2>4, <1>4, <3>1
      <4> HIDE DEF z, y, stage, x, moved
      <4> QED
        BY <4>1, <2>2, <2>3, <1>1, <1>2, <1>6, <3>1 DEF Sound, PacingAlive, Running, j, x
    <3>2. CASE i = j /\ i # k
      <4>1. info'[i] = z /\ moved[j] = infos[i]
        BY <2>4, <1>4, <3>2
      <4>2. Sound(infos[i], i)
        BY <3>2
      <4> HIDE DEF z
      <4> QED
        BY <4>1, <4>2, <2>2, <2>3 DEF Sound, Running
    <3>3. CASE i # j /\ i = k
      <4>1. info'[i] = y
        BY <2>4, <1>4, <3>3
      <4>2. x.adk \notin Running
        BY <1>1, <1>6, <3>3, InfosAssumption
      <4> QED
        BY <4>1, <4>2, <1>1, <1>2, <1>6 DEF Sound, PacingAlive
    <3>4. CASE i # j /\ i # k
      <4>1. info'[i] = infos[i]
        BY <2>4, <1>4, <3>4
      <4> QED
        BY <4>1, <3>4
    <3> QED
      BY <3>1, <3>2, <3>3, <3>4
  <2>6. info' \in [Infos -> SIPCallInfo]
    BY <1>5, <2>1, <2>2, <2>3
  <2>7. ASSUME NEW i \in Infos
        PROVE  /\ info'[i].call_id = moved[i].call_id
               /\ info'[i].by = moved[i].by
               /\ info'[i].teardown = moved[i].teardown
    BY <2>3, <2>4
  <2>8. ASSUME NEW i \in Infos
        PROVE  /\ moved[i].call_id = infos[i].call_id
               /\ moved[i].by = infos[i].by
               /\ i # k => moved[i].teardown = infos[i].teardown
    BY <1>4, <1>2
  <2>9. info'[k].teardown = stage
    BY <2>7, <1>2, <1>4
  <2> QED
    BY ZenonT(40), <2>5, <2>6, <2>7, <2>8, <2>9, <1>3
<1>7. CASE ~(stage = "done" /\ x.by \in Infos)
  <2>1. info' = moved
    BY <1>3, <1>7
  <2>2. Sound(y, k)
    BY <1>1, <1>2, <1>7 DEF Sound, PacingAlive
  <2> QED
    BY <1>3, <1>4, <1>5, <1>2, <2>1, <2>2
<1> QED
  BY <1>6, <1>7

LEMMA FlagTypes ==
    ASSUME NEW x \in SIPCallInfo, NEW b \in BOOLEAN
    PROVE  /\ [x EXCEPT !.is_active = b] \in SIPCallInfo
           /\ [x EXCEPT !.cancelled = b] \in SIPCallInfo
           /\ [x EXCEPT !.pacingCancelled = b] \in SIPCallInfo
           /\ [x EXCEPT !.end_call_requested = b] \in SIPCallInfo
           /\ [x EXCEPT !.bye_sent = b] \in SIPCallInfo
           /\ [x EXCEPT !.audio = b] \in SIPCallInfo
           /\ [x EXCEPT !.long = b] \in SIPCallInfo
BY DEF SIPCallInfo

LEMMA TornDownType ==
    ASSUME NEW x \in SIPCallInfo, NEW by \in Infos \cup {"handler", "stop", "lost"},
           NEW y, y = TornDown(x, by)
    PROVE  /\ y \in SIPCallInfo
           /\ y.call_id = x.call_id /\ y.by = by /\ y.adk = x.adk
           /\ y.teardown = x.teardown /\ y.retry_count = x.retry_count
           /\ y.earlier_tasks = x.earlier_tasks
           /\ ~y.is_active
           /\ y.live_request_queue # "open" /\ y.transcript_handler # "open"
           /\ x.adk \in {"streaming", "reconnecting"} => y.cancelled \/ by = "lost"
<1> DEFINE cancels == IF by = "lost" THEN x.cancelled
                      ELSE \/ x.adk \in {"streaming", "reconnecting"}
                           \/ x.adk = "draining" /\ ~PacingAlive(x)
           cancelsPacing == \/ x.pacingCancelled
                            \/ by # "lost" /\ x.adk = "draining" /\ PacingAlive(x)
           queue == IF x.live_request_queue = "open" THEN "closed" ELSE x.live_request_queue
           handler == IF x.transcript_handler = "open" THEN "finalized"
                      ELSE x.transcript_handler
<1>1. cancels \in BOOLEAN /\ cancelsPacing \in BOOLEAN
  BY DEF SIPCallInfo
<1>2. /\ queue \in {"none", "closed"} /\ handler \in {"none", "finalized"}
  BY DEF SIPCallInfo
<1>3. y = [x EXCEPT !.is_active = FALSE, !.live_request_queue = queue,
                    !.transcript_handler = handler, !.cancelled = cancels,
                    !.pacingCancelled = cancelsPacing, !.by = by]
  BY DEF TornDown
<1>4. x.adk \in {"streaming", "reconnecting"} => cancels \/ by = "lost"
  OBVIOUS
<1> HIDE DEF cancels, cancelsPacing, queue, handler
<1>5. y \in SIPCallInfo
  <2> DEFINE z == [x EXCEPT !.live_request_queue = queue, !.transcript_handler = handler]
  <2>1. z \in SIPCallInfo
    BY ZenonT(40), <1>2 DEF SIPCallInfo
  <2> DEFINE owned == [z EXCEPT !.by = by]
  <2>2. owned \in SIPCallInfo
    <3> HIDE DEF z
    <3> QED
      BY <2>1 DEF SIPCallInfo
  <2>3. y = [[[owned EXCEPT !.is_active = FALSE] EXCEPT !.cancelled = cancels]
               EXCEPT !.pacingCancelled = cancelsPacing]
    BY <1>3 DEF SIPCallInfo
  <2> HIDE DEF owned
  <2> DEFINE inactive == [owned EXCEPT !.is_active = FALSE]
             cancelled == [inactive EXCEPT !.cancelled = cancels]
  <2>4. inactive \in SIPCallInfo
    BY <2>2, FlagTypes, FALSE \in BOOLEAN
  <2> HIDE DEF inactive
  <2>5. cancelled \in SIPCallInfo
    BY <1>1, <2>4 DEF SIPCallInfo
  <2> HIDE DEF cancelled
  <2>6. [cancelled EXCEPT !.pacingCancelled = cancelsPacing] \in SIPCallInfo
    BY <1>1, <2>5 DEF SIPCallInfo
  <2> QED
    BY <2>3, <2>6 DEF inactive, cancelled
<1>6. y.cancelled = cancels /\ ~y.is_active
  BY <1>3 DEF SIPCallInfo
<1>7. /\ y.call_id = x.call_id /\ y.by = by /\ y.adk = x.adk
      /\ y.teardown = x.teardown /\ y.retry_count = x.retry_count
      /\ y.earlier_tasks = x.earlier_tasks
      /\ y.live_request_queue = queue /\ y.transcript_handler = handler
  BY <1>3 DEF SIPCallInfo
<1> QED
  BY <1>2, <1>4, <1>5, <1>6, <1>7

\* The only step that begins a teardown takes an info that nobody tears down yet.
LEMMA TerminateStep ==
    ASSUME TeardownInvariant, NEW c \in CallIds, calls[c] # None,
           NEW by \in Infos \cup {"handler", "stop", "lost"},
           by \in Infos => info[by].call_id # None,
           NEW infos, Prepared(infos), Terminate(c, by, infos),
           by = "lost" => infos[calls[c]].earlier_tasks = "lost",
           server' \in {"running", "stopping", "stopped"}, left' \subseteq CallIds
    PROVE  TeardownInvariant' /\ Advances
<1> DEFINE k == calls[c]
           y == TornDown(infos[k], by)
           torn == [infos EXCEPT ![k] = y]
<1>1. /\ k \in Infos
      /\ info[k].call_id = c /\ info[k].teardown = "none" /\ info[k].by = None
  BY DEF TeardownInvariant, TypeOK, IsTracked, Sound
<1>2. /\ infos[k] \in SIPCallInfo /\ Sound(infos[k], k)
      /\ infos[k].call_id = c /\ infos[k].teardown = "none" /\ infos[k].by = None
  BY <1>1 DEF Prepared
<1>3. /\ y \in SIPCallInfo
      /\ y.call_id = c /\ y.by = by /\ y.adk = infos[k].adk
      /\ y.retry_count = infos[k].retry_count
      /\ y.earlier_tasks = infos[k].earlier_tasks
      /\ ~y.is_active
      /\ y.live_request_queue # "open" /\ y.transcript_handler # "open"
      /\ y.adk \in {"streaming", "reconnecting"} => y.cancelled \/ by = "lost"
  <2> HIDE DEF k
  <2> QED
    BY <1>2, TornDownType
<1>4. y.adk \in {"none", "streaming", "reconnecting"} => y.retry_count <= max_retries
  BY <1>2, <1>3 DEF Sound
<1>5. /\ calls' = [calls EXCEPT ![c] = None]
      /\ rtp_addr_to_call' = [a \in Addrs |-> IF a = infos[k].remote_rtp_addr THEN None
                                              ELSE rtp_addr_to_call[a]]
      /\ transcript_store' = IF infos[k].transcript_handler = "none" THEN transcript_store
                             ELSE transcript_store \ {c}
      /\ Proceed(k, torn)
  BY DEF Terminate
<1>16. by = "lost" => y.earlier_tasks = "lost"
  BY <1>3
<1> HIDE DEF k, y
<1>6. torn \in [Infos -> SIPCallInfo] /\ torn[k] = y /\ \A j \in Infos \ {k} : torn[j] = infos[j]
  BY <1>1, <1>3 DEF Prepared
<1>7. torn[k].by \in Infos => torn[torn[k].by].call_id # None
  BY <1>1, <1>2, <1>3, <1>6, NoneAssumption DEF Prepared
<1>8. torn[k].call_id # None /\ torn[k].by # None
  BY <1>3, <1>6, NoneAssumption
<1>9. \A j \in Infos \ {k} : Sound(torn[j], j)
  BY <1>6 DEF Prepared
<1> HIDE DEF torn
<1>10. /\ info' \in [Infos -> SIPCallInfo]
       /\ \A j \in Infos : Sound(info'[j], j)
       /\ \A j \in Infos : /\ info'[j].call_id = torn[j].call_id
                           /\ info'[j].by = torn[j].by
                           /\ j # k => info'[j].teardown = torn[j].teardown
       /\ info'[k].teardown = Awaits(torn[k], k)
       /\ sessions' \subseteq sessions
  BY <1>1, <1>3, <1>4, <1>5, <1>6, <1>7, <1>8, <1>9, <1>16, ProceedSound
<1>11. /\ info'[k].call_id = c /\ info'[k].by = by
       /\ info'[k].teardown \in {"adk", "pacing", "done"}
       /\ \A j \in Infos \ {k} : /\ info'[j].call_id = info[j].call_id
                                 /\ info'[j].by = info[j].by
                                 /\ info'[j].teardown = info[j].teardown
  <2>1. Awaits(torn[k], k) \in {"adk", "pacing", "done"}
    BY AwaitsType
  <2>2. info'[k].call_id = c /\ info'[k].by = by
    BY <1>1, <1>3, <1>6, <1>10
  <2>3. ASSUME NEW j \in Infos \ {k}
        PROVE  /\ info'[j].call_id = info[j].call_id
               /\ info'[j].by = info[j].by
               /\ info'[j].teardown = info[j].teardown
    BY <1>6, <1>10 DEF Prepared
  <2> QED
    BY <1>10, <2>1, <2>2, <2>3
<1>12. TypeOK'
  BY <1>5, <1>10 DEF TeardownInvariant, TypeOK
<1>13. ASSUME NEW d \in CallIds, calls'[d] # None PROVE IsTracked(info'[calls'[d]], d)
  <2>1. d # c /\ calls'[d] = calls[d] /\ calls[d] \in Infos
    BY <1>5, <1>13 DEF TeardownInvariant, TypeOK
  <2>2. IsTracked(info[calls[d]], d)
    BY <1>13, <2>1 DEF TeardownInvariant
  <2>3. calls[d] # k
    BY <1>1, <2>1, <2>2 DEF IsTracked
  <2> QED
    BY <1>11, <2>1, <2>2, <2>3 DEF IsTracked
<1>14. \A i \in Infos : info'[i].by \in Infos => info'[info'[i].by].call_id # None
  <2> SUFFICES ASSUME NEW i \in Infos, info'[i].by \in Infos
               PROVE  info'[info'[i].by].call_id # None
    OBVIOUS
  <2>1. info[info'[i].by].call_id # None
    BY <1>11, <1>1 DEF TeardownInvariant
  <2> QED
    BY <2>1, <1>1, <1>11
<1>15. Advances
  <2> SUFFICES ASSUME NEW i \in Infos PROVE Advance(info[i], info'[i])
    BY DEF Advances
  <2>1. info[i].teardown \in {"none", "adk", "pacing", "done"}
    BY DEF TeardownInvariant, TypeOK, SIPCallInfo
  <2> QED
    BY <2>1, <1>1, <1>11 DEF Advance, TeardownRank
<1> QED
  <2>1. \A i \in Infos : Sound(info'[i], i)
    BY <1>10
  <2>2. \A d \in CallIds : calls'[d] # None => IsTracked(info'[calls'[d]], d)
    BY <1>13
  <2> QED
    BY <1>12, <1>14, <1>15, <2>1, <2>2 DEF TeardownInvariant

-----------------------------------------------------------------------------
(* Steps that change one info.                                             *)

LEMMA PreparedOne ==
    ASSUME TeardownInvariant, NEW i \in Infos, NEW y \in SIPCallInfo, Sound(y, i),
           y.call_id = info[i].call_id, y.teardown = info[i].teardown, y.by = info[i].by
    PROVE  Prepared([info EXCEPT ![i] = y])
BY DEF Prepared, TeardownInvariant, TypeOK

LEMMA OneInfoStep ==
    ASSUME TeardownInvariant, NEW i \in Infos, NEW y \in SIPCallInfo, Sound(y, i),
           y.call_id = info[i].call_id, y.teardown = info[i].teardown, y.by = info[i].by,
           info' = [info EXCEPT ![i] = y], UNCHANGED calls, TypeOfOthers'
    PROVE  TeardownInvariant' /\ Advances
<1>1. Prepared(info')
  BY PreparedOne
<1> QED
  BY <1>1, QuietStep

LEMMA OthersUnchanged ==
    ASSUME TeardownInvariant, UNCHANGED <<tracking, sessions, lifecycle>>
    PROVE  UNCHANGED calls /\ TypeOfOthers'
BY DEF TeardownInvariant, TypeOK, TypeOfOthers, tracking, lifecycle

LEMMA TaskFacts ==
    ASSUME TeardownInvariant, NEW i \in Infos,
           info[i].adk \in Running \/ info[i].pacing \in Pacing \/ info[i].earlier_tasks = "lost"
    PROVE  /\ info[i] \in SIPCallInfo /\ Sound(info[i], i)
           /\ info[i].call_id \in CallIds /\ info[i].call_id # None
<1>1. info[i] \in SIPCallInfo /\ Sound(info[i], i)
  BY DEF TeardownInvariant, TypeOK
<1>2. info[i].call_id # None
  BY <1>1 DEF Sound, Running, Pacing
<1> QED
  BY <1>1, <1>2 DEF SIPCallInfo

\* An agent task that has left its stream stays sound.
LEMMA LeavesStream ==
    ASSUME NEW i \in Infos, NEW x \in SIPCallInfo, x.adk \in Running, Sound(x, i),
           NEW y, y.adk \in {"done", "draining", "terminating"},
           y.call_id = x.call_id, y.teardown = x.teardown, y.by = x.by,
           y.is_active = x.is_active, y.pacing = x.pacing,
           y.live_request_queue = x.live_request_queue,
           y.transcript_handler = x.transcript_handler, y.earlier_tasks = x.earlier_tasks
    PROVE  Sound(y, i)
BY DEF Sound, Running

LEMMA FinallyStep ==
    ASSUME TeardownInvariant, NEW i \in Infos, NEW x \in SIPCallInfo,
           info[i].adk \in {"streaming", "reconnecting"},
           x.adk = info[i].adk, x.pacing = info[i].pacing,
           x.call_id = info[i].call_id, x.teardown = info[i].teardown, x.by = info[i].by,
           x.is_active = info[i].is_active,
           x.live_request_queue = info[i].live_request_queue,
           x.transcript_handler = info[i].transcript_handler,
           x.earlier_tasks = info[i].earlier_tasks,
           AdkFinally(i, x), UNCHANGED lifecycle
    PROVE  TeardownInvariant' /\ Advances
<1>1. /\ info[i].adk \in Running /\ x.call_id \in CallIds /\ x.call_id # None
      /\ info[i] \in SIPCallInfo /\ Sound(info[i], i)
  BY TaskFacts DEF Running
<1>2. CASE calls[x.call_id] = None
  <2> DEFINE y == [x EXCEPT !.adk = "done", !.cancelled = FALSE, !.retry_count = 0]
  <2>1. y \in SIPCallInfo
    BY ZenonT(60), NoRetries DEF SIPCallInfo
  <2>2. /\ y.adk = "done"
        /\ y.call_id = x.call_id /\ y.teardown = x.teardown /\ y.by = x.by
        /\ y.is_active = x.is_active /\ y.pacing = x.pacing
        /\ y.live_request_queue = x.live_request_queue
        /\ y.transcript_handler = x.transcript_handler
        /\ y.earlier_tasks = x.earlier_tasks
    BY DEF SIPCallInfo
  <2>3. Sound(y, i)
    <3> HIDE DEF y
    <3> QED
      BY <1>1, <2>2, LeavesStream
  <2>4. info' = [info EXCEPT ![i] = y] /\ UNCHANGED <<tracking, sessions>>
    BY <1>2 DEF AdkFinally
  <2> HIDE DEF y
  <2> QED
    BY <2>1, <2>2, <2>3, <2>4, OneInfoStep, OthersUnchanged
<1> DEFINE ending == [x EXCEPT !.end_call_requested = TRUE, !.cancelled = FALSE,
                             !.retry_count = 0]
<1>3. CASE calls[x.call_id] # None /\ PacingAlive(x)
  <2> DEFINE y == [ending EXCEPT !.adk = "draining", !.long = x.audio]
  <2>1. y \in SIPCallInfo
    BY ZenonT(60), NoRetries DEF SIPCallInfo, Running
  <2>2. /\ y.adk = "draining"
        /\ y.call_id = x.call_id /\ y.teardown = x.teardown /\ y.by = x.by
        /\ y.is_active = x.is_active /\ y.pacing = x.pacing
        /\ y.live_request_queue = x.live_request_queue
        /\ y.transcript_handler = x.transcript_handler
        /\ y.earlier_tasks = x.earlier_tasks
    BY DEF SIPCallInfo
  <2>3. Sound(y, i)
    <3> HIDE DEF y
    <3> QED
      BY <1>1, <2>2, LeavesStream
  <2>4. info' = [info EXCEPT ![i] = y] /\ UNCHANGED <<tracking, sessions>>
    BY <1>3 DEF AdkFinally
  <2> HIDE DEF y
  <2> QED
    BY <2>1, <2>2, <2>3, <2>4, OneInfoStep, OthersUnchanged
<1>4. CASE calls[x.call_id] # None /\ ~PacingAlive(x)
  <2> DEFINE y == [ending EXCEPT !.adk = "terminating"]
  <2>1. y \in SIPCallInfo
    BY ZenonT(60), NoRetries DEF SIPCallInfo, Running
  <2>2. /\ y.adk = "terminating"
        /\ y.call_id = x.call_id /\ y.teardown = x.teardown /\ y.by = x.by
        /\ y.is_active = x.is_active /\ y.pacing = x.pacing
        /\ y.live_request_queue = x.live_request_queue
        /\ y.transcript_handler = x.transcript_handler
        /\ y.earlier_tasks = x.earlier_tasks
    BY DEF SIPCallInfo
  <2>3. Sound(y, i)
    <3> HIDE DEF y
    <3> QED
      BY <1>1, <2>2, LeavesStream
  <2>4. Terminate(x.call_id, i, [info EXCEPT ![i] = y])
    BY <1>4 DEF AdkFinally
  <2> HIDE DEF y
  <2>5. Prepared([info EXCEPT ![i] = y])
    BY <2>1, <2>2, <2>3, PreparedOne
  <2>6. server' \in {"running", "stopping", "stopped"} /\ left' \subseteq CallIds
    BY DEF lifecycle, TeardownInvariant, TypeOK
  <2> QED
    BY <1>1, <1>4, <2>4, <2>5, <2>6, TerminateStep, InfosAssumption
<1> QED
  BY <1>2, <1>3, <1>4

-----------------------------------------------------------------------------
(* One lemma per step.                                                     *)

LEMMA InviteStep ==
    ASSUME TeardownInvariant, NEW c \in CallIds, NEW a \in Addrs \cup {None},
           _handle_invite(c, a)
    PROVE  TeardownInvariant' /\ Advances
<1> DEFINE new == CHOOSE i \in Unallocated : TRUE
           y == Fresh(c, a)
<1>1. new \in Infos /\ info[new].call_id = None
  BY DEF _handle_invite, Unallocated
<1>2. /\ info' = [info EXCEPT ![new] = y]
      /\ calls' = [calls EXCEPT ![c] = new]
      /\ rtp_addr_to_call' = [b \in Addrs |-> IF b = a THEN c ELSE rtp_addr_to_call[b]]
      /\ UNCHANGED <<sessions, transcript_store, lifecycle>>
  BY DEF _handle_invite
<1> HIDE DEF new
<1>3. /\ y \in SIPCallInfo /\ Sound(y, new)
      /\ y.call_id = c /\ y.teardown = "none" /\ y.by = None
  BY <1>1, FreshSound DEF Fresh
<1>4. c # None
  BY NoneAssumption
<1>5. info[new].teardown = "none" /\ info[new].by = None
  BY <1>1 DEF TeardownInvariant, Sound
<1> HIDE DEF y
<1>6. info' \in [Infos -> SIPCallInfo] /\ info'[new] = y /\ \A i \in Infos \ {new} : info'[i] = info[i]
  BY <1>1, <1>2, <1>3 DEF TeardownInvariant, TypeOK
<1>7. TypeOK'
  BY <1>1, <1>2, <1>6 DEF TeardownInvariant, TypeOK, lifecycle
<1>8. \A i \in Infos : Sound(info'[i], i)
  BY <1>3, <1>6 DEF TeardownInvariant
<1>9. \A d \in CallIds : calls'[d] # None => IsTracked(info'[calls'[d]], d)
  <2> SUFFICES ASSUME NEW d \in CallIds, calls'[d] # None
               PROVE  IsTracked(info'[calls'[d]], d)
    OBVIOUS
  <2>1. CASE d = c
    BY <1>2, <1>3, <1>6, <2>1 DEF IsTracked, TeardownInvariant, TypeOK
  <2>2. CASE d # c
    <3>1. calls'[d] = calls[d] /\ calls[d] \in Infos
      BY <1>2, <2>2 DEF TeardownInvariant, TypeOK
    <3>2. IsTracked(info[calls[d]], d)
      BY <3>1 DEF TeardownInvariant
    <3>3. calls[d] # new
      BY <1>1, <3>2, NoneAssumption DEF IsTracked
    <3> QED
      BY <1>6, <3>1, <3>2, <3>3
  <2> QED
    BY <2>1, <2>2
<1>10. \A i \in Infos : info'[i].by \in Infos => info'[info'[i].by].call_id # None
  BY <1>3, <1>4, <1>6, NoneAssumption DEF TeardownInvariant
<1>11. Advances
  <2> SUFFICES ASSUME NEW i \in Infos PROVE Advance(info[i], info'[i])
    BY DEF Advances
  <2>1. info[i].teardown \in {"none", "adk", "pacing", "done"}
    BY DEF TeardownInvariant, TypeOK, SIPCallInfo
  <2> QED
    BY <2>1, <1>3, <1>5, <1>6 DEF Advance, TeardownRank
<1> QED
  BY <1>7, <1>8, <1>9, <1>10, <1>11 DEF TeardownInvariant

LEMMA HandlerTerminates ==
    ASSUME TeardownInvariant, NEW c \in CallIds, calls[c] # None,
           NEW by \in {"handler", "stop"}, Terminate(c, by, info),
           server' \in {"running", "stopping", "stopped"}, left' \subseteq CallIds
    PROVE  TeardownInvariant' /\ Advances
<1>1. Prepared(info)
  BY DEF Prepared, TeardownInvariant, TypeOK
<1>2. by \notin Infos
  BY InfosAssumption
<1> QED
  BY <1>1, <1>2, TerminateStep

LEMMA AckStep ==
    ASSUME TeardownInvariant, NEW c \in CallIds, _handle_ack(c)
    PROVE  TeardownInvariant' /\ Advances
<1>1. CASE StartAdkSession(c)
  <2> DEFINE i == calls[c]
             x == info[i]
             earlier == IF x.transcript_handler = "none" THEN "none" ELSE "lost"
             y == [x EXCEPT !.is_active = TRUE, !.live_request_queue = "open",
                            !.transcript_handler = "open",
                            !.adk = "streaming", !.cancelled = FALSE, !.retry_count = 0,
                            !.pacing = "playing", !.pacingCancelled = FALSE,
                            !.earlier_tasks = earlier]
  <2>1. i \in Infos /\ IsTracked(x, c) /\ x \in SIPCallInfo /\ Sound(x, i)
    BY DEF _handle_ack, TeardownInvariant, TypeOK
  <2>2. x.call_id = c /\ x.teardown = "none" /\ x.by = None
    BY <2>1 DEF Sound, IsTracked
  <2>3. earlier \in {"none", "lost"}
    OBVIOUS
  <2>4. /\ info' = [info EXCEPT ![i] = y]
        /\ sessions' = sessions \cup {c} /\ transcript_store' = transcript_store \cup {c}
        /\ UNCHANGED <<calls, rtp_addr_to_call, lifecycle>>
    BY <1>1 DEF StartAdkSession
  <2> HIDE DEF x, i, earlier
  <2>5. /\ y.call_id = c /\ y.teardown = "none" /\ y.by = None
        /\ y.retry_count = 0
    BY <2>1, <2>2 DEF SIPCallInfo
  <2>6. y \in SIPCallInfo
    <3> DEFINE active == [x EXCEPT !.is_active = TRUE, !.cancelled = FALSE,
                                   !.pacingCancelled = FALSE]
    <3>1. active \in SIPCallInfo
      BY <2>1 DEF SIPCallInfo
    <3>2. y = [active EXCEPT !.live_request_queue = "open", !.transcript_handler = "open",
                             !.adk = "streaming", !.retry_count = 0, !.pacing = "playing",
                             !.earlier_tasks = earlier]
      BY <2>1 DEF SIPCallInfo
    <3> HIDE DEF active, y
    <3> QED
      BY ZenonT(60), <2>3, <3>1, <3>2, NoRetries DEF SIPCallInfo, Running, Pacing
  <2> HIDE DEF y
  <2>7. Sound(y, i)
    BY <2>5, NoneAssumption, RetriesAssumption DEF Sound
  <2>8. TypeOfOthers'
    BY <2>4 DEF TypeOfOthers, TeardownInvariant, TypeOK, lifecycle
  <2> QED
    BY <2>1, <2>2, <2>4, <2>5, <2>6, <2>7, <2>8, OneInfoStep DEF x
<1>2. CASE FailAdkSession(c)
  BY <1>2, HandlerTerminates
     DEF _handle_ack, FailAdkSession, lifecycle, TeardownInvariant, TypeOK
<1> QED
  BY <1>1, <1>2 DEF _handle_ack

LEMMA ByeStep ==
    ASSUME TeardownInvariant, NEW c \in CallIds, _handle_bye(c)
    PROVE  TeardownInvariant' /\ Advances
BY HandlerTerminates DEF _handle_bye, lifecycle, TeardownInvariant, TypeOK

LEMMA NoInfoStep ==
    ASSUME TeardownInvariant, UNCHANGED <<calls, info>>, TypeOfOthers'
    PROVE  TeardownInvariant' /\ Advances
<1>1. Prepared(info')
  BY DEF Prepared, TeardownInvariant, TypeOK
<1> QED
  BY <1>1, QuietStep

LEMMA RtpStep ==
    ASSUME TeardownInvariant, NEW a \in Addrs, handle_rtp_packet(a)
    PROVE  TeardownInvariant' /\ Advances
<1>1. TypeOfOthers'
  BY DEF handle_rtp_packet, TypeOfOthers, TeardownInvariant, TypeOK, lifecycle
<1> QED
  BY <1>1, NoInfoStep DEF handle_rtp_packet

LEMMA TeardownStep ==
    ASSUME TeardownInvariant, NEW k \in Infos, Teardown(k)
    PROVE  TeardownInvariant' /\ Advances
<1> DEFINE x == info[k]
<1>1. /\ x.teardown \in {"adk", "pacing"} /\ Awaits(x, k) # x.teardown
      /\ Proceed(k, info)
      /\ UNCHANGED <<tracking, lifecycle>>
  BY DEF Teardown
<1>2. info \in [Infos -> SIPCallInfo] /\ x \in SIPCallInfo /\ Sound(x, k)
  BY DEF TeardownInvariant, TypeOK
<1>3. /\ x.call_id # None /\ x.by # None
      /\ ~x.is_active /\ x.live_request_queue # "open" /\ x.transcript_handler # "open"
      /\ x.adk \in {"streaming", "reconnecting"} => x.cancelled \/ x.by = "lost"
      /\ x.by = "lost" => x.earlier_tasks = "lost"
      /\ x.adk \in {"none", "streaming", "reconnecting"} => x.retry_count <= max_retries
      /\ x.teardown = "pacing" => x.adk \notin Running \/ x.by \in {k, "lost"}
  BY <1>1, <1>2 DEF Sound
<1>4. x.by \in Infos => info[x.by].call_id # None
  BY DEF TeardownInvariant
<1>5. \A j \in Infos \ {k} : Sound(info[j], j)
  BY DEF TeardownInvariant
<1>6. /\ info' \in [Infos -> SIPCallInfo]
      /\ \A j \in Infos : Sound(info'[j], j)
      /\ \A j \in Infos : /\ info'[j].call_id = info[j].call_id
                          /\ info'[j].by = info[j].by
                          /\ j # k => info'[j].teardown = info[j].teardown
      /\ info'[k].teardown = Awaits(x, k)
      /\ sessions' \subseteq sessions
  BY <1>1, <1>2, <1>3, <1>4, <1>5, ProceedSound
<1>7. TypeOK'
  BY <1>1, <1>6 DEF TeardownInvariant, TypeOK, tracking, lifecycle
<1>8. \A c \in CallIds : calls'[c] # None => IsTracked(info'[calls'[c]], c)
  <2> SUFFICES ASSUME NEW c \in CallIds, calls[c] # None
               PROVE  IsTracked(info'[calls[c]], c)
    BY <1>1 DEF tracking
  <2>1. calls[c] \in Infos /\ IsTracked(info[calls[c]], c)
    BY DEF TeardownInvariant, TypeOK
  <2>2. calls[c] # k
    BY <1>1, <2>1 DEF IsTracked
  <2> QED
    BY <1>6, <2>1, <2>2 DEF IsTracked
<1>9. \A i \in Infos : info'[i].by \in Infos => info'[info'[i].by].call_id # None
  BY <1>6 DEF TeardownInvariant
<1>10. x.teardown = "adk" => Awaits(x, k) \in {"pacing", "done"}
  BY <1>1, AwaitsType
<1>11. x.teardown = "pacing" => Awaits(x, k) = "done"
  <2> SUFFICES ASSUME x.teardown = "pacing" PROVE Awaits(x, k) = "done"
    OBVIOUS
  <2>1. Awaits(x, k) # "adk"
    BY <1>3 DEF Awaits
  <2> QED
    BY <1>1, <2>1, AwaitsType
<1>12. Advances
  <2> SUFFICES ASSUME NEW i \in Infos PROVE Advance(info[i], info'[i])
    BY DEF Advances
  <2>1. info[i].teardown \in {"none", "adk", "pacing", "done"}
    BY DEF TeardownInvariant, TypeOK, SIPCallInfo
  <2>2. CASE i = k
    BY <1>1, <1>6, <1>10, <1>11, <2>2 DEF Advance, TeardownRank
  <2>3. CASE i # k
    BY <1>6, <2>1, <2>3 DEF Advance, TeardownRank
  <2> QED
    BY <2>2, <2>3
<1> QED
  BY <1>6, <1>7, <1>8, <1>9, <1>12 DEF TeardownInvariant

\* A step of a task that changes flags only, or ends the pacing task.
LEMMA FlagStep ==
    ASSUME TeardownInvariant, NEW i \in Infos,
           info[i].adk \in Running \/ info[i].pacing \in Pacing \/ info[i].earlier_tasks = "lost",
           NEW y \in SIPCallInfo, y.earlier_tasks = info[i].earlier_tasks,
           y.call_id = info[i].call_id, y.teardown = info[i].teardown, y.by = info[i].by,
           y.adk = info[i].adk, y.cancelled = info[i].cancelled,
           y.retry_count = info[i].retry_count,
           y.pacing = info[i].pacing \/ info[i].pacing \in Pacing,
           y.is_active => info[i].is_active,
           y.live_request_queue = info[i].live_request_queue,
           y.transcript_handler = info[i].transcript_handler,
           info' = [info EXCEPT ![i] = y], UNCHANGED <<tracking, sessions, lifecycle>>
    PROVE  TeardownInvariant' /\ Advances
<1>1. Sound(info[i], i) /\ info[i].call_id # None
  BY TaskFacts
<1>2. Sound(y, i)
  BY <1>1 DEF Sound, Pacing
<1> QED
  BY <1>2, OneInfoStep, OthersUnchanged

LEMMA EventStep ==
    ASSUME TeardownInvariant, NEW i \in Infos, AdkEvent(i)
    PROVE  TeardownInvariant' /\ Advances
<1> DEFINE x == info[i]
<1>1. x.adk \in Running /\ x \in SIPCallInfo
  BY TaskFacts DEF AdkEvent, Streams, Running
<1>2. PICK speech \in BOOLEAN, end_call \in BOOLEAN :
         info' = [info EXCEPT ![i].audio = @ \/ speech,
                              ![i].end_call_requested = @ \/ end_call]
  BY DEF AdkEvent
<1> DEFINE audio == x.audio \/ speech
           ended == x.end_call_requested \/ end_call
           heard == [x EXCEPT !.audio = audio]
           y == [heard EXCEPT !.end_call_requested = ended]
<1>3. info' = [info EXCEPT ![i] = y]
  BY <1>1, <1>2 DEF SIPCallInfo, TeardownInvariant, TypeOK
<1>4. audio \in BOOLEAN /\ ended \in BOOLEAN
  OBVIOUS
<1> HIDE DEF audio, ended, x
<1>5. heard \in SIPCallInfo
  BY <1>1, <1>4 DEF SIPCallInfo
<1>6. y \in SIPCallInfo
  <2> HIDE DEF heard
  <2> QED
    BY <1>4, <1>5 DEF SIPCallInfo
<1>7. /\ y.call_id = x.call_id /\ y.teardown = x.teardown /\ y.by = x.by
      /\ y.adk = x.adk /\ y.retry_count = x.retry_count /\ y.pacing = x.pacing
      /\ y.live_request_queue = x.live_request_queue
      /\ y.transcript_handler = x.transcript_handler /\ y.earlier_tasks = x.earlier_tasks
  BY <1>1 DEF SIPCallInfo
<1>8. y.cancelled = x.cancelled /\ y.is_active = x.is_active
  BY <1>1 DEF SIPCallInfo
<1> HIDE DEF y
<1> QED
  BY <1>1, <1>3, <1>6, <1>7, <1>8, FlagStep DEF AdkEvent, x

LEMMA StreamEndsStep ==
    ASSUME TeardownInvariant, NEW i \in Infos,
           AdkStreamEnds(i) \/ AdkCancelled(i)
    PROVE  TeardownInvariant' /\ Advances
<1>1. info[i].adk \in {"streaming", "reconnecting"}
  BY DEF AdkStreamEnds, AdkCancelled, Streams
<1>2. info[i] \in SIPCallInfo /\ Sound(info[i], i)
  BY DEF TeardownInvariant, TypeOK
<1> QED
  BY <1>1, <1>2, FinallyStep DEF AdkStreamEnds, AdkCancelled

LEMMA StreamErrorStep ==
    ASSUME TeardownInvariant, NEW i \in Infos, AdkStreamError(i)
    PROVE  TeardownInvariant' /\ Advances
<1> DEFINE x == info[i]
           failed == [x EXCEPT !.retry_count = @ + 1]
<1>1. /\ x.adk = "streaming" /\ ~x.cancelled
      /\ x \in SIPCallInfo /\ Sound(x, i) /\ x.call_id # None
  BY TaskFacts DEF AdkStreamError, Streams, Running
<1>2. x.retry_count \in Nat /\ x.retry_count <= max_retries
  <2>1. x.retry_count \in 0 .. max_retries + 1
    BY <1>1 DEF SIPCallInfo
  <2>2. x.retry_count <= max_retries
    BY <1>1 DEF Sound
  <2> QED
    BY <2>1, <2>2
<1>3. failed \in SIPCallInfo /\ failed.retry_count = x.retry_count + 1
  <2>1. x.retry_count + 1 \in 0 .. max_retries + 1
    BY <1>2, RetriesAssumption
  <2> QED
    BY ZenonT(60), <1>1, <2>1 DEF SIPCallInfo
<1>4. /\ failed.call_id = x.call_id /\ failed.teardown = x.teardown /\ failed.by = x.by
      /\ failed.adk = "streaming" /\ failed.pacing = x.pacing
      /\ failed.is_active = x.is_active
      /\ failed.live_request_queue = x.live_request_queue
      /\ failed.transcript_handler = x.transcript_handler
      /\ failed.earlier_tasks = x.earlier_tasks
  BY <1>1 DEF SIPCallInfo
<1>5. CASE mayReconnect(failed)
  <2> DEFINE y == [failed EXCEPT !.live_request_queue = "open", !.adk = "reconnecting"]
  <2>1. info' = [info EXCEPT ![i] = y] /\ UNCHANGED <<tracking, sessions, lifecycle>>
    BY <1>5 DEF AdkStreamError
  <2> HIDE DEF x, failed
  <2>2. /\ y \in SIPCallInfo
        /\ y.adk = "reconnecting" /\ y.retry_count = failed.retry_count
        /\ y.call_id = failed.call_id /\ y.teardown = failed.teardown /\ y.by = failed.by
        /\ y.earlier_tasks = failed.earlier_tasks
    BY ZenonT(60), <1>3 DEF SIPCallInfo, Running
  <2>3. y.retry_count <= max_retries
    BY <1>5, <2>2 DEF mayReconnect, RetriesLeft
  <2>4. x.teardown = "none"
    BY <1>1, <1>4, <1>5 DEF mayReconnect, Sound
  <2> HIDE DEF y
  <2>5. Sound(y, i)
    BY <1>1, <1>4, <2>2, <2>3, <2>4 DEF Sound
  <2> QED
    BY <1>3, <1>4, <2>1, <2>2, <2>5, OneInfoStep, OthersUnchanged DEF x
<1>6. CASE ~mayReconnect(failed)
  <2> DEFINE y == [failed EXCEPT !.end_call_requested = TRUE]
  <2>1. AdkFinally(i, y) /\ UNCHANGED lifecycle
    BY <1>6 DEF AdkStreamError
  <2> HIDE DEF failed
  <2>2. /\ y \in SIPCallInfo
        /\ y.adk = failed.adk /\ y.pacing = failed.pacing
        /\ y.call_id = failed.call_id /\ y.teardown = failed.teardown /\ y.by = failed.by
        /\ y.earlier_tasks = failed.earlier_tasks
        /\ y.live_request_queue = failed.live_request_queue
        /\ y.transcript_handler = failed.transcript_handler
    BY <1>3 DEF SIPCallInfo
  <2>3. y.is_active = failed.is_active
    BY <1>3 DEF SIPCallInfo
  <2> HIDE DEF x, y
  <2> QED
    BY <1>1, <1>3, <1>4, <2>1, <2>2, <2>3, FinallyStep DEF x
<1> QED
  BY <1>5, <1>6

LEMMA ReconnectStep ==
    ASSUME TeardownInvariant, NEW i \in Infos, AdkReconnect(i)
    PROVE  TeardownInvariant' /\ Advances
<1> DEFINE x == info[i]
           y == [x EXCEPT !.adk = "streaming"]
<1>1. /\ x.adk = "reconnecting" /\ ~x.cancelled
      /\ x \in SIPCallInfo /\ Sound(x, i) /\ x.call_id # None
  BY TaskFacts DEF AdkReconnect, Running
<1>2. CASE x.is_active /\ RetriesLeft(x.retry_count)
  <2>1. info' = [info EXCEPT ![i] = y] /\ UNCHANGED <<tracking, sessions, lifecycle>>
    BY <1>2 DEF AdkReconnect
  <2>2. x.teardown = "none" /\ x.retry_count <= max_retries
    BY <1>1, <1>2 DEF Sound, RetriesLeft
  <2> HIDE DEF x
  <2>3. /\ y \in SIPCallInfo
        /\ y.adk = "streaming" /\ y.retry_count = x.retry_count
        /\ y.call_id = x.call_id /\ y.teardown = x.teardown /\ y.by = x.by
        /\ y.earlier_tasks = x.earlier_tasks
    BY <1>1 DEF SIPCallInfo, Running
  <2> HIDE DEF y
  <2>4. Sound(y, i)
    BY <1>1, <2>2, <2>3 DEF Sound
  <2> QED
    BY <2>1, <2>3, <2>4, OneInfoStep, OthersUnchanged DEF x
<1>3. CASE ~(x.is_active /\ RetriesLeft(x.retry_count))
  <2>1. AdkFinally(i, x) /\ UNCHANGED lifecycle
    BY <1>3 DEF AdkReconnect
  <2> QED
    BY <1>1, <2>1, FinallyStep
<1> QED
  BY <1>2, <1>3

LEMMA DrainedStep ==
    ASSUME TeardownInvariant, NEW i \in Infos, AdkDrained(i)
    PROVE  TeardownInvariant' /\ Advances
<1> DEFINE old == info[i]
           told == old.bye_sent \/ old.cancelled
           x == [old EXCEPT !.bye_sent = told, !.cancelled = FALSE, !.long = FALSE]
<1>1. /\ old.adk = "draining" /\ old.adk \in Running
      /\ old \in SIPCallInfo /\ Sound(old, i)
      /\ old.call_id \in CallIds /\ old.call_id # None
  BY TaskFacts DEF AdkDrained, Running
<1>2. told \in BOOLEAN
  OBVIOUS
<1>3. /\ IF calls[x.call_id] = None
         THEN /\ info' = [info EXCEPT ![i] = [x EXCEPT !.adk = "done"]]
              /\ UNCHANGED <<tracking, sessions>>
         ELSE Terminate(x.call_id, i, [info EXCEPT ![i] = [x EXCEPT !.adk = "terminating"]])
      /\ UNCHANGED lifecycle
  BY DEF AdkDrained
<1> HIDE DEF told, old
<1>4. x \in SIPCallInfo
  BY <1>1, <1>2 DEF SIPCallInfo
<1>5. /\ x.call_id = old.call_id /\ x.teardown = old.teardown /\ x.by = old.by
      /\ x.pacing = old.pacing
      /\ x.live_request_queue = old.live_request_queue
      /\ x.transcript_handler = old.transcript_handler
      /\ x.earlier_tasks = old.earlier_tasks
  BY <1>1 DEF SIPCallInfo
<1>6. x.is_active = old.is_active
  BY <1>1 DEF SIPCallInfo
<1> HIDE DEF x
<1>7. ASSUME NEW adk \in {"done", "terminating"}, NEW y, y = [x EXCEPT !.adk = adk]
      PROVE  /\ y \in SIPCallInfo /\ Sound(y, i)
             /\ y.call_id = old.call_id /\ y.teardown = old.teardown /\ y.by = old.by
  <2>1. /\ y \in SIPCallInfo /\ y.adk = adk
        /\ y.call_id = x.call_id /\ y.teardown = x.teardown /\ y.by = x.by
        /\ y.is_active = x.is_active /\ y.pacing = x.pacing
        /\ y.live_request_queue = x.live_request_queue
        /\ y.transcript_handler = x.transcript_handler
        /\ y.earlier_tasks = x.earlier_tasks
    BY <1>4, <1>7 DEF SIPCallInfo, Running
  <2> QED
    BY <1>1, <1>5, <1>6, <2>1, LeavesStream
<1>8. CASE calls[x.call_id] = None
  <2> DEFINE y == [x EXCEPT !.adk = "done"]
  <2>1. info' = [info EXCEPT ![i] = y] /\ UNCHANGED <<tracking, sessions, lifecycle>>
    BY <1>3, <1>8
  <2>2. /\ y \in SIPCallInfo /\ Sound(y, i)
        /\ y.call_id = old.call_id /\ y.teardown = old.teardown /\ y.by = old.by
    BY <1>7
  <2> HIDE DEF y
  <2> QED
    BY <2>1, <2>2, OneInfoStep, OthersUnchanged DEF old
<1>9. CASE calls[x.call_id] # None
  <2> DEFINE y == [x EXCEPT !.adk = "terminating"]
  <2>1. Terminate(x.call_id, i, [info EXCEPT ![i] = y])
    BY <1>3, <1>9
  <2>2. /\ y \in SIPCallInfo /\ Sound(y, i)
        /\ y.call_id = old.call_id /\ y.teardown = old.teardown /\ y.by = old.by
    BY <1>7
  <2> HIDE DEF y
  <2>3. Prepared([info EXCEPT ![i] = y])
    BY <2>2, PreparedOne DEF old
  <2>4. server' \in {"running", "stopping", "stopped"} /\ left' \subseteq CallIds
    BY <1>3 DEF lifecycle, TeardownInvariant, TypeOK
  <2> QED
    BY <1>1, <1>5, <1>9, <2>1, <2>3, <2>4, TerminateStep, InfosAssumption DEF old
<1> QED
  BY <1>8, <1>9

LEMMA PacingStep ==
    ASSUME TeardownInvariant, NEW i \in Infos,
           AdkDrainTimeout(i) \/ Play(i) \/ HangUp(i) \/ _send_bye(i) \/ PacingStops(i)
    PROVE  TeardownInvariant' /\ Advances
<1> DEFINE x == info[i]
<1>1. x.adk \in Running \/ x.pacing \in Pacing
  BY DEF AdkDrainTimeout, Play, HangUp, _send_bye, PacingStops, Paces, PacingAlive,
         Running, Pacing
<1>2. x \in SIPCallInfo
  BY <1>1, TaskFacts
<1>3. info \in [Infos -> SIPCallInfo]
  BY DEF TeardownInvariant, TypeOK
<1>4. CASE AdkDrainTimeout(i)
  <2> DEFINE y == [x EXCEPT !.pacingCancelled = TRUE]
  <2>1. info' = [info EXCEPT ![i] = y] /\ UNCHANGED <<tracking, sessions, lifecycle>>
    BY <1>3, <1>4 DEF AdkDrainTimeout
  <2>2. /\ y \in SIPCallInfo
        /\ y.call_id = x.call_id /\ y.teardown = x.teardown /\ y.by = x.by
        /\ y.adk = x.adk /\ y.cancelled = x.cancelled /\ y.retry_count = x.retry_count
        /\ y.pacing = x.pacing /\ y.is_active = x.is_active
        /\ y.live_request_queue = x.live_request_queue
        /\ y.transcript_handler = x.transcript_handler
        /\ y.earlier_tasks = x.earlier_tasks
    BY <1>2 DEF SIPCallInfo
  <2> HIDE DEF y
  <2> QED
    BY <1>1, <2>1, <2>2, FlagStep
<1>5. CASE Play(i)
  <2> DEFINE y == [x EXCEPT !.audio = FALSE]
  <2>1. info' = [info EXCEPT ![i] = y] /\ UNCHANGED <<tracking, sessions, lifecycle>>
    BY <1>3, <1>5 DEF Play
  <2>2. /\ y \in SIPCallInfo
        /\ y.call_id = x.call_id /\ y.teardown = x.teardown /\ y.by = x.by
        /\ y.adk = x.adk /\ y.cancelled = x.cancelled /\ y.retry_count = x.retry_count
        /\ y.pacing = x.pacing /\ y.is_active = x.is_active
        /\ y.live_request_queue = x.live_request_queue
        /\ y.transcript_handler = x.transcript_handler
        /\ y.earlier_tasks = x.earlier_tasks
    BY <1>2 DEF SIPCallInfo
  <2> HIDE DEF y
  <2> QED
    BY <1>1, <2>1, <2>2, FlagStep
<1>6. CASE HangUp(i)
  <2> DEFINE y == [x EXCEPT !.pacing = "hangingUp"]
  <2>1. info' = [info EXCEPT ![i] = y] /\ UNCHANGED <<tracking, sessions, lifecycle>>
    BY <1>3, <1>6 DEF HangUp
  <2>2. x.pacing \in Pacing
    BY <1>6 DEF HangUp, Paces, Pacing
  <2>3. /\ y \in SIPCallInfo
        /\ y.call_id = x.call_id /\ y.teardown = x.teardown /\ y.by = x.by
        /\ y.adk = x.adk /\ y.cancelled = x.cancelled /\ y.retry_count = x.retry_count
        /\ y.is_active = x.is_active
        /\ y.live_request_queue = x.live_request_queue
        /\ y.transcript_handler = x.transcript_handler
        /\ y.earlier_tasks = x.earlier_tasks
    BY <1>2 DEF SIPCallInfo, Pacing
  <2> HIDE DEF y
  <2> QED
    BY <1>1, <2>1, <2>2, <2>3, FlagStep
<1>7. CASE _send_bye(i)
  <2> DEFINE y == [x EXCEPT !.bye_sent = TRUE, !.is_active = FALSE, !.pacing = "done",
                        !.audio = FALSE]
  <2>1. info' = [info EXCEPT ![i] = y] /\ UNCHANGED <<tracking, sessions, lifecycle>>
    BY <1>2, <1>3, <1>7 DEF _send_bye, SIPCallInfo
  <2>2. x.pacing \in Pacing
    BY <1>7 DEF _send_bye, Pacing
  <2>3. /\ y \in SIPCallInfo
        /\ y.call_id = x.call_id /\ y.teardown = x.teardown /\ y.by = x.by
        /\ y.adk = x.adk /\ y.cancelled = x.cancelled /\ y.retry_count = x.retry_count
        /\ ~y.is_active
        /\ y.live_request_queue = x.live_request_queue
        /\ y.transcript_handler = x.transcript_handler
        /\ y.earlier_tasks = x.earlier_tasks
    BY ZenonT(40), <1>2 DEF SIPCallInfo, Pacing
  <2> HIDE DEF y
  <2> QED
    BY <1>1, <2>1, <2>2, <2>3, FlagStep
<1>8. CASE PacingStops(i)
  <2> DEFINE y == [x EXCEPT !.pacing = "done", !.pacingCancelled = FALSE, !.audio = FALSE]
  <2>1. info' = [info EXCEPT ![i] = y] /\ UNCHANGED <<tracking, sessions, lifecycle>>
    BY <1>2, <1>3, <1>8 DEF PacingStops, SIPCallInfo
  <2>2. x.pacing \in Pacing
    BY <1>8 DEF PacingStops, PacingAlive
  <2>3. /\ y \in SIPCallInfo
        /\ y.call_id = x.call_id /\ y.teardown = x.teardown /\ y.by = x.by
        /\ y.adk = x.adk /\ y.cancelled = x.cancelled /\ y.retry_count = x.retry_count
        /\ y.is_active = x.is_active
        /\ y.live_request_queue = x.live_request_queue
        /\ y.transcript_handler = x.transcript_handler
        /\ y.earlier_tasks = x.earlier_tasks
    BY ZenonT(40), <1>2 DEF SIPCallInfo, Pacing
  <2> HIDE DEF y
  <2> QED
    BY <1>1, <2>1, <2>2, <2>3, FlagStep
<1> QED
  BY <1>4, <1>5, <1>6, <1>7, <1>8

\* What the tasks of an earlier start do to the fields of their info.
LEMMA LostTasksStep ==
    ASSUME TeardownInvariant, NEW i \in Infos, LostTasksGoOn(i)
    PROVE  TeardownInvariant' /\ Advances
<1> DEFINE x == info[i]
<1>1. x \in SIPCallInfo /\ x.earlier_tasks = "lost" /\ info \in [Infos -> SIPCallInfo]
  BY DEF LostTasksGoOn, TeardownInvariant, TypeOK
<1>2. PICK audio, end_call, bye, cancel \in BOOLEAN :
         /\ audio => info[i].audio \/ (info[i].is_active /\ info[i].remote_rtp_addr # None)
         /\ cancel => PacingAlive(info[i])
         /\ info' = [info EXCEPT ![i].audio = audio,
                                 ![i].end_call_requested = @ \/ end_call,
                                 ![i].bye_sent = @ \/ bye, ![i].is_active = @ /\ ~bye,
                                 ![i].pacingCancelled = @ \/ cancel]
  BY Zenon DEF LostTasksGoOn
<1> DEFINE ended == x.end_call_requested \/ end_call
           told == x.bye_sent \/ bye
           active == x.is_active /\ ~bye
           cancels == x.pacingCancelled \/ cancel
           y == [x EXCEPT !.audio = audio, !.end_call_requested = ended, !.bye_sent = told,
                          !.is_active = active, !.pacingCancelled = cancels]
<1>3. info' = [info EXCEPT ![i] = y]
  BY <1>2
<1>4. /\ ended \in BOOLEAN /\ told \in BOOLEAN /\ active \in BOOLEAN /\ cancels \in BOOLEAN
      /\ active => x.is_active
  OBVIOUS
<1> HIDE DEF ended, told, active, cancels, x
<1>5. y \in SIPCallInfo
  BY ZenonT(60), <1>1, <1>4 DEF SIPCallInfo
<1>6. /\ y.call_id = x.call_id /\ y.teardown = x.teardown /\ y.by = x.by
      /\ y.adk = x.adk /\ y.retry_count = x.retry_count /\ y.pacing = x.pacing
      /\ y.live_request_queue = x.live_request_queue
      /\ y.transcript_handler = x.transcript_handler
      /\ y.earlier_tasks = x.earlier_tasks
  BY <1>1 DEF SIPCallInfo
<1>7. y.cancelled = x.cancelled /\ y.is_active = active
  BY <1>1 DEF SIPCallInfo
<1> HIDE DEF y
<1>8. UNCHANGED <<tracking, sessions, lifecycle>>
  BY DEF LostTasksGoOn
<1> QED
  BY <1>1, <1>3, <1>4, <1>5, <1>6, <1>7, <1>8, FlagStep DEF x

LEMMA LostAgentStep ==
    ASSUME TeardownInvariant, NEW i \in Infos, LostAgentEnds(i)
    PROVE  TeardownInvariant' /\ Advances
<1> DEFINE x == info[i]
           c == x.call_id
           by == IF calls[c] = i THEN "lost" ELSE "handler"
           y == [x EXCEPT !.end_call_requested = TRUE]
<1>1. /\ x \in SIPCallInfo /\ Sound(x, i) /\ x.earlier_tasks = "lost"
      /\ c \in CallIds /\ calls[c] # None
  BY TaskFacts DEF LostAgentEnds
<1>2. info \in [Infos -> SIPCallInfo]
  BY DEF TeardownInvariant, TypeOK
<1>3. Terminate(c, by, [info EXCEPT ![i] = y]) /\ UNCHANGED lifecycle
  BY <1>1, <1>2 DEF LostAgentEnds
<1>4. by \in {"lost", "handler"} /\ (by = "lost" => calls[c] = i)
  OBVIOUS
<1> HIDE DEF x, by
<1>5. /\ y \in SIPCallInfo
      /\ y.call_id = x.call_id /\ y.teardown = x.teardown /\ y.by = x.by /\ y.adk = x.adk
      /\ y.retry_count = x.retry_count /\ y.pacing = x.pacing
      /\ y.live_request_queue = x.live_request_queue
      /\ y.transcript_handler = x.transcript_handler /\ y.earlier_tasks = x.earlier_tasks
  BY <1>1 DEF SIPCallInfo
<1>6. y.cancelled = x.cancelled /\ y.is_active = x.is_active
  BY <1>1 DEF SIPCallInfo
<1> HIDE DEF y
<1>7. Sound(y, i)
  BY <1>1, <1>5, <1>6 DEF Sound
<1>8. Prepared([info EXCEPT ![i] = y])
  BY <1>5, <1>7, PreparedOne DEF x
<1>9. by = "lost" => [info EXCEPT ![i] = y][calls[c]].earlier_tasks = "lost"
  BY <1>1, <1>2, <1>4, <1>5
<1>10. by \notin Infos
  BY <1>4, InfosAssumption
<1>11. server' \in {"running", "stopping", "stopped"} /\ left' \subseteq CallIds
  BY <1>3 DEF lifecycle, TeardownInvariant, TypeOK
<1> HIDE DEF c
<1> QED
  BY <1>1, <1>3, <1>4, <1>8, <1>9, <1>10, <1>11, TerminateStep

LEMMA StopStep ==
    ASSUME TeardownInvariant, Stop
    PROVE  TeardownInvariant' /\ Advances
<1>1. CASE stop \/ Stopped
  <2>1. UNCHANGED <<calls, info>> /\ TypeOfOthers'
    BY <1>1 DEF stop, Stopped, TypeOfOthers, tracking, TeardownInvariant, TypeOK
  <2> QED
    BY <2>1, NoInfoStep
<1>2. ASSUME NEW c \in CallIds, StopCall(c) PROVE TeardownInvariant' /\ Advances
  <2>1. server' \in {"running", "stopping", "stopped"} /\ left' \subseteq CallIds
    BY <1>2 DEF StopCall, TeardownInvariant, TypeOK
  <2>2. CASE calls[c] = None
    <3>1. UNCHANGED <<calls, info>> /\ TypeOfOthers'
      BY <1>2, <2>1, <2>2 DEF StopCall, TypeOfOthers, tracking, TeardownInvariant, TypeOK
    <3> QED
      BY <3>1, NoInfoStep
  <2>3. CASE calls[c] # None
    <3>1. Terminate(c, "stop", info)
      BY <1>2, <2>3 DEF StopCall
    <3> QED
      BY <2>1, <2>3, <3>1, HandlerTerminates
  <2> QED
    BY <2>2, <2>3
<1> QED
  BY <1>1, <1>2 DEF Stop

LEMMA NextStep == TeardownInvariant /\ [Next]_vars => TeardownInvariant' /\ Advances
<1> SUFFICES ASSUME TeardownInvariant, [Next]_vars
             PROVE  TeardownInvariant' /\ Advances
  OBVIOUS
<1>1. CASE Phone
  BY <1>1, InviteStep, AckStep, ByeStep, RtpStep DEF Phone
<1>2. ASSUME NEW i \in Infos,
             Teardown(i) \/ AdkTask(i) \/ PacingTask(i) \/ Stream(i) \/ LostTasks(i)
      PROVE  TeardownInvariant' /\ Advances
  <2>1. CASE Teardown(i)
    BY <2>1, TeardownStep
  <2>2. CASE AdkTask(i)
    BY <2>2, ReconnectStep, StreamEndsStep, DrainedStep DEF AdkTask
  <2>3. CASE PacingTask(i)
    BY <2>3, PacingStep DEF PacingTask
  <2>4. CASE Stream(i)
    BY <2>4, EventStep, StreamEndsStep, StreamErrorStep, PacingStep DEF Stream
  <2>5. CASE LostTasks(i)
    BY <2>5, LostTasksStep, LostAgentStep DEF LostTasks
  <2> QED
    BY <1>2, <2>1, <2>2, <2>3, <2>4, <2>5
<1>3. CASE Stop
  BY <1>3, StopStep
<1>4. CASE UNCHANGED vars
  <2>1. UNCHANGED <<calls, info>> /\ TypeOfOthers'
    BY <1>4 DEF vars, TypeOfOthers, TeardownInvariant, TypeOK
  <2> QED
    BY <2>1, NoInfoStep
<1> QED
  BY <1>1, <1>2, <1>3, <1>4 DEF Next

-----------------------------------------------------------------------------
(* The theorems.                                                           *)

\* Every info object, tracking dict and task stays in the states that
\* sip_udp/server.py and call_session.py give them.
THEOREM TypeCorrect == Spec => []TypeOK
<1>1. TeardownInvariant => TypeOK
  BY DEF TeardownInvariant
<1> QED
  BY <1>1, InitInvariant, NextStep, PTL DEF Spec

\* A call that was started once at most and has been torn down has no task, queue or
\* unreported transcript left, however many INVITEs, ACKs and hang-ups crossed, and
\* whatever other infos were started again (sip_udp/server.py:859-937).
THEOREM ReleasedStaysReleased == Spec => []ReleasedMeansReleased
<1>1. TeardownInvariant => ReleasedMeansReleased
  <2> SUFFICES ASSUME TeardownInvariant, NEW i \in Infos, info[i].teardown = "done",
                      info[i].earlier_tasks = "none"
               PROVE  /\ info[i].adk \in {"none", "done"}
                      /\ info[i].pacing \in {"none", "done"}
                      /\ info[i].live_request_queue # "open"
                      /\ ~info[i].is_active
                      /\ info[i].transcript_handler # "open"
    BY DEF ReleasedMeansReleased
  <2>1. info[i] \in SIPCallInfo /\ Sound(info[i], i)
    BY DEF TeardownInvariant, TypeOK
  <2> QED
    BY <2>1 DEF Sound, SIPCallInfo
<1> QED
  BY <1>1, InitInvariant, NextStep, PTL DEF Spec

\* Nobody tears a call down a second time or takes a teardown over
\* (sip_udp/server.py:860).
THEOREM TornDownOnce == Spec => TeardownRunsOnce
<1>1. Advances => \A i \in Infos :
                    /\ TeardownRank[info[i].teardown] <= TeardownRank[info'[i].teardown]
                    /\ info[i].by # None => info'[i].by = info[i].by
  BY DEF Advances, Advance
<1>2. TeardownInvariant /\ [Next]_vars =>
        [\A i \in Infos :
           /\ TeardownRank[info[i].teardown] <= TeardownRank[info'[i].teardown]
           /\ info[i].by # None => info'[i].by = info[i].by]_vars
  BY <1>1, NextStep
<1> QED
  BY <1>2, InitInvariant, NextStep, PTL DEF Spec, TeardownRunsOnce

-----------------------------------------------------------------------------
(* What a step does to the calls as such: whose they are, which infos are   *)
(* tracked, which sessions and transcripts are kept.                        *)

SamePhone(x, y) ==
    /\ y.call_id = x.call_id /\ y.remote_rtp_addr = x.remote_rtp_addr
    /\ x.transcript_handler # "none" => y.transcript_handler # "none"

\* The same call, and it is not started in between.
SameCall(x, y) ==
    /\ SamePhone(x, y)
    /\ y.earlier_tasks = x.earlier_tasks
    /\ y.transcript_handler # "none" => x.transcript_handler # "none"

SamePhones(infos) == \A i \in Infos : SamePhone(info[i], infos[i])

SameCalls(infos) == \A i \in Infos : SameCall(info[i], infos[i])

\* The infos change by what a task does before a teardown, or without one.
SameStages(infos) == \A i \in Infos : infos[i].teardown = info[i].teardown

Quiet == SameCalls(info') /\ SameStages(info') /\ UNCHANGED <<tracking, sessions>>

\* The teardown of k reaches a stage, and at the last one its session goes.
Reaches(k) ==
    /\ \A i \in Infos \ {k} : info'[i].teardown = info[i].teardown
    /\ info'[k].teardown \in {"adk", "pacing", "done"}
    /\ sessions' = IF info'[k].teardown = "done" THEN sessions \ {info[k].call_id} ELSE sessions

Begins(c) ==
    /\ calls[c] # None /\ calls' = [calls EXCEPT ![c] = None]
    /\ SameCalls(info') /\ Reaches(calls[c])
    /\ \A a \in Addrs : rtp_addr_to_call'[a] # None =>
          /\ rtp_addr_to_call'[a] = rtp_addr_to_call[a]
          /\ a # info[calls[c]].remote_rtp_addr
    /\ transcript_store' \subseteq transcript_store
    /\ info[calls[c]].transcript_handler # "none" => c \notin transcript_store'

GoesOn(k) ==
    /\ info[k].teardown \in {"adk", "pacing"}
    /\ SameCalls(info') /\ Reaches(k) /\ UNCHANGED tracking

LEMMA ProceedEffect ==
    ASSUME NEW k \in Infos, NEW infos \in [Infos -> SIPCallInfo], Proceed(k, infos)
    PROVE  /\ \A i \in Infos :
                 /\ info'[i].call_id = infos[i].call_id
                 /\ info'[i].remote_rtp_addr = infos[i].remote_rtp_addr
                 /\ info'[i].transcript_handler = infos[i].transcript_handler
                 /\ info'[i].earlier_tasks = infos[i].earlier_tasks
           /\ \A i \in Infos \ {k} : info'[i].teardown = infos[i].teardown
           /\ info'[k].teardown \in {"adk", "pacing", "done"}
           /\ sessions' = IF info'[k].teardown = "done" THEN sessions \ {infos[k].call_id}
                          ELSE sessions
<1> DEFINE x == infos[k]
           stage == Awaits(x, k)
           y == AtStage(x, stage)
           moved == [infos EXCEPT ![k] = y]
<1>1. stage \in {"adk", "pacing", "done"}
  BY AwaitsType
<1>2. /\ y.teardown = stage /\ y.call_id = x.call_id
      /\ y.remote_rtp_addr = x.remote_rtp_addr
      /\ y.transcript_handler = x.transcript_handler /\ y.earlier_tasks = x.earlier_tasks
  <2>1. x \in SIPCallInfo
    OBVIOUS
  <2> DEFINE cancels == x.pacingCancelled \/ stage = "pacing"
  <2>2. y = [x EXCEPT !.teardown = stage, !.pacingCancelled = cancels]
    BY DEF AtStage
  <2> HIDE DEF x, stage, cancels, y
  <2> QED
    BY <2>1, <2>2 DEF SIPCallInfo
<1>3. y \in SIPCallInfo
  <2>1. x \in SIPCallInfo
    OBVIOUS
  <2> HIDE DEF x, stage
  <2> QED
    BY <1>1, <2>1, AtStageType
<1>4. \A i \in Infos : moved[i] = IF i = k THEN y ELSE infos[i]
  OBVIOUS
<1>5. moved \in [Infos -> SIPCallInfo]
  BY <1>3
<1>6. /\ info' = IF stage = "done" /\ x.by \in Infos
                 THEN [moved EXCEPT ![x.by] = [moved[x.by] EXCEPT !.adk = "done"]] ELSE moved
      /\ sessions' = IF stage = "done" THEN sessions \ {x.call_id} ELSE sessions
  BY DEF Proceed
<1> HIDE DEF moved, y, stage
<1>7. ASSUME NEW i \in Infos
      PROVE  /\ info'[i].call_id = moved[i].call_id
             /\ info'[i].remote_rtp_addr = moved[i].remote_rtp_addr
             /\ info'[i].transcript_handler = moved[i].transcript_handler
             /\ info'[i].earlier_tasks = moved[i].earlier_tasks
             /\ info'[i].teardown = moved[i].teardown
  <2>1. moved[i] \in SIPCallInfo
    BY <1>5
  <2>2. info'[i] = moved[i] \/ info'[i] = [moved[i] EXCEPT !.adk = "done"]
    BY <1>5, <1>6
  <2> QED
    BY <2>1, <2>2 DEF SIPCallInfo
<1> QED
  BY <1>1, <1>2, <1>4, <1>6, <1>7

LEMMA TerminateEffect ==
    ASSUME TeardownInvariant, NEW c \in CallIds, calls[c] # None,
           NEW by \in Infos \cup {"handler", "stop", "lost"}, NEW infos \in [Infos -> SIPCallInfo],
           SameCalls(infos), SameStages(infos), Terminate(c, by, infos)
    PROVE  Begins(c)
<1> DEFINE k == calls[c]
           y == TornDown(infos[k], by)
           torn == [infos EXCEPT ![k] = y]
<1>1. k \in Infos
  BY DEF TeardownInvariant, TypeOK
<1>2. /\ calls' = [calls EXCEPT ![c] = None]
      /\ rtp_addr_to_call' = [a \in Addrs |-> IF a = infos[k].remote_rtp_addr THEN None
                                              ELSE rtp_addr_to_call[a]]
      /\ transcript_store' = IF infos[k].transcript_handler = "none" THEN transcript_store
                             ELSE transcript_store \ {c}
      /\ Proceed(k, torn)
  BY DEF Terminate
<1> HIDE DEF k
<1>3. infos[k] \in SIPCallInfo
  BY <1>1
<1>4. y \in SIPCallInfo /\ y.teardown = infos[k].teardown
  <2>1. PICK x \in SIPCallInfo : x = infos[k]
    BY <1>3
  <2> QED
    BY <2>1, TornDownType
<1>5. /\ y.call_id = infos[k].call_id /\ y.remote_rtp_addr = infos[k].remote_rtp_addr
      /\ infos[k].transcript_handler # "none" <=> y.transcript_handler # "none"
      /\ y.earlier_tasks = infos[k].earlier_tasks
  <2>1. PICK x \in SIPCallInfo : x = infos[k]
    BY <1>3
  <2> DEFINE cancels == IF by = "lost" THEN x.cancelled
                        ELSE \/ x.adk \in {"streaming", "reconnecting"}
                             \/ x.adk = "draining" /\ ~PacingAlive(x)
             cancelsPacing == \/ x.pacingCancelled
                              \/ by # "lost" /\ x.adk = "draining" /\ PacingAlive(x)
             queue == IF x.live_request_queue = "open" THEN "closed" ELSE x.live_request_queue
             handler == IF x.transcript_handler = "open" THEN "finalized"
                        ELSE x.transcript_handler
  <2>2. y = [x EXCEPT !.is_active = FALSE, !.live_request_queue = queue,
                      !.transcript_handler = handler, !.cancelled = cancels,
                      !.pacingCancelled = cancelsPacing, !.by = by]
    BY <2>1 DEF TornDown
  <2>3. x.transcript_handler # "none" <=> handler # "none"
    OBVIOUS
  <2> HIDE DEF cancels, cancelsPacing, queue, handler, y
  <2>4. /\ y.call_id = x.call_id /\ y.remote_rtp_addr = x.remote_rtp_addr
        /\ y.transcript_handler = handler /\ y.earlier_tasks = x.earlier_tasks
    BY <2>2 DEF SIPCallInfo
  <2> QED
    BY <2>1, <2>3, <2>4
<1> HIDE DEF y
<1>6. torn \in [Infos -> SIPCallInfo] /\ \A i \in Infos : torn[i] = IF i = k THEN y ELSE infos[i]
  BY <1>1, <1>4
<1> HIDE DEF torn
<1>7. /\ \A i \in Infos :
            /\ info'[i].call_id = torn[i].call_id
            /\ info'[i].remote_rtp_addr = torn[i].remote_rtp_addr
            /\ info'[i].transcript_handler = torn[i].transcript_handler
            /\ info'[i].earlier_tasks = torn[i].earlier_tasks
      /\ \A i \in Infos \ {k} : info'[i].teardown = torn[i].teardown
      /\ info'[k].teardown \in {"adk", "pacing", "done"}
      /\ sessions' = IF info'[k].teardown = "done" THEN sessions \ {torn[k].call_id}
                     ELSE sessions
  <2>1. PICK t \in [Infos -> SIPCallInfo] : t = torn
    BY <1>6
  <2>2. Proceed(k, t)
    BY <1>2, <2>1
  <2> QED
    BY <1>1, <2>1, <2>2, ProceedEffect
<1>8. SameCalls(info')
  BY <1>5, <1>6, <1>7 DEF SameCalls, SameCall, SamePhone
<1>9. Reaches(k)
  <2>1. \A i \in Infos \ {k} : info'[i].teardown = info[i].teardown
    BY <1>6, <1>7 DEF SameStages
  <2>2. torn[k].call_id = info[k].call_id
    BY <1>1, <1>5, <1>6 DEF SameCalls, SameCall, SamePhone
  <2> QED
    BY <1>7, <2>1, <2>2 DEF Reaches
<1> QED
  BY <1>1, <1>2, <1>8, <1>9 DEF Begins, SameCalls, SameCall, SamePhone, k, TeardownInvariant, TypeOK

LEMMA QuietEffect ==
    ASSUME TeardownInvariant, NEW i \in Infos, NEW y,
           SameCall(info[i], y), y.teardown = info[i].teardown,
           info' = [info EXCEPT ![i] = y], UNCHANGED <<tracking, sessions>>
    PROVE  Quiet
<1>1. \A j \in Infos : info'[j] = IF j = i THEN y ELSE info[j]
  BY DEF TeardownInvariant, TypeOK
<1> QED
  BY <1>1 DEF Quiet, SameCalls, SameCall, SamePhone, SameStages

\* The info that a task leaves behind at its end, before it tears the call down.
Ending(x) == [x EXCEPT !.end_call_requested = TRUE, !.cancelled = FALSE, !.retry_count = 0]
Ended(x) == [x EXCEPT !.adk = "done", !.cancelled = FALSE, !.retry_count = 0]
Draining(x) == [Ending(x) EXCEPT !.adk = "draining", !.long = x.audio]
Terminating(x) == [Ending(x) EXCEPT !.adk = "terminating"]

LEMMA FinallyTypes ==
    ASSUME NEW x \in SIPCallInfo
    PROVE  Ended(x) \in SIPCallInfo /\ Draining(x) \in SIPCallInfo /\ Terminating(x) \in SIPCallInfo
<1>1. Ending(x) \in SIPCallInfo /\ x.audio \in BOOLEAN
  BY ZenonT(60), NoRetries DEF Ending, SIPCallInfo
<1>2. Ended(x) \in SIPCallInfo
  BY ZenonT(60), NoRetries DEF Ended, SIPCallInfo
<1>3. PICK e \in SIPCallInfo : e = Ending(x)
  BY <1>1
<1>4. [e EXCEPT !.adk = "terminating"] \in SIPCallInfo
  BY DEF SIPCallInfo, Running
<1>5. [e EXCEPT !.adk = "draining", !.long = x.audio] \in SIPCallInfo
  <2> DEFINE d == [e EXCEPT !.adk = "draining"]
  <2>1. d \in SIPCallInfo
    BY DEF SIPCallInfo, Running
  <2> HIDE DEF d
  <2>2. [d EXCEPT !.long = x.audio] \in SIPCallInfo
    BY <1>1, <2>1, FlagTypes
  <2> QED
    BY <2>2 DEF d
<1> QED
  BY <1>2, <1>3, <1>4, <1>5 DEF Terminating, Draining

LEMMA FinallyFields ==
    ASSUME NEW x \in SIPCallInfo, NEW y \in {Ended(x), Draining(x), Terminating(x)}
    PROVE  /\ y.call_id = x.call_id /\ y.remote_rtp_addr = x.remote_rtp_addr
           /\ y.teardown = x.teardown /\ y.transcript_handler = x.transcript_handler
           /\ y.earlier_tasks = x.earlier_tasks /\ y.by = x.by /\ y.pacing = x.pacing
           /\ y.pacingCancelled = x.pacingCancelled
<1>1. /\ y.call_id = x.call_id /\ y.remote_rtp_addr = x.remote_rtp_addr
      /\ y.teardown = x.teardown /\ y.transcript_handler = x.transcript_handler
      /\ y.earlier_tasks = x.earlier_tasks /\ y.by = x.by /\ y.pacing = x.pacing
  BY DEF Ended, Draining, Terminating, Ending, SIPCallInfo
<1>2. y.pacingCancelled = x.pacingCancelled
  BY DEF Ended, Draining, Terminating, Ending, SIPCallInfo
<1> QED
  BY <1>1, <1>2

LEMMA FinallyEffect ==
    ASSUME TeardownInvariant, NEW i \in Infos, NEW x \in SIPCallInfo, x.call_id \in CallIds,
           SameCall(info[i], x), x.teardown = info[i].teardown, AdkFinally(i, x)
    PROVE  Quiet \/ \E c \in CallIds : Begins(c)
<1> DEFINE y == IF calls[x.call_id] = None THEN Ended(x)
                ELSE IF PacingAlive(x) THEN Draining(x) ELSE Terminating(x)
<1>1. /\ y \in SIPCallInfo
      /\ y.call_id = x.call_id /\ y.remote_rtp_addr = x.remote_rtp_addr
      /\ y.teardown = x.teardown /\ y.transcript_handler = x.transcript_handler
      /\ y.earlier_tasks = x.earlier_tasks
  <2>1. y \in {Ended(x), Draining(x), Terminating(x)}
    OBVIOUS
  <2> HIDE DEF y
  <2> QED
    BY <2>1, FinallyTypes, FinallyFields
<1>2. SameCall(info[i], y) /\ y.teardown = info[i].teardown
  BY <1>1 DEF SameCall, SamePhone
<1>3. \/ info' = [info EXCEPT ![i] = y] /\ UNCHANGED <<tracking, sessions>>
      \/ calls[x.call_id] # None /\ Terminate(x.call_id, i, [info EXCEPT ![i] = y])
  BY DEF AdkFinally, Ended, Draining, Terminating, Ending
<1> HIDE DEF y
<1>4. CASE info' = [info EXCEPT ![i] = y] /\ UNCHANGED <<tracking, sessions>>
  BY <1>2, <1>4, QuietEffect
<1>5. CASE calls[x.call_id] # None /\ Terminate(x.call_id, i, [info EXCEPT ![i] = y])
  <2>1. /\ [info EXCEPT ![i] = y] \in [Infos -> SIPCallInfo]
        /\ \A j \in Infos : [info EXCEPT ![i] = y][j] = IF j = i THEN y ELSE info[j]
    BY <1>1 DEF TeardownInvariant, TypeOK
  <2>2. PICK infos \in [Infos -> SIPCallInfo] : infos = [info EXCEPT ![i] = y]
    BY <2>1
  <2>3. SameCalls(infos) /\ SameStages(infos)
    BY <1>2, <2>1, <2>2 DEF SameCalls, SameCall, SamePhone, SameStages
  <2>4. Terminate(x.call_id, i, infos)
    BY <1>5, <2>2
  <2> QED
    BY <1>5, <2>3, <2>4, TerminateEffect
<1> QED
  BY <1>3, <1>4, <1>5

LEMMA AgentEffect ==
    ASSUME TeardownInvariant, NEW i \in Infos, AdkTask(i) \/ Stream(i)
    PROVE  Quiet \/ \E c \in CallIds : Begins(c)
<1> DEFINE x == info[i]
<1>1. x.adk \in Running /\ x \in SIPCallInfo /\ x.call_id \in CallIds
  BY TaskFacts DEF AdkTask, Stream, AdkReconnect, AdkCancelled, AdkDrained, AdkEvent,
                   AdkStreamEnds, AdkStreamError, AdkDrainTimeout, Streams, Running
<1>2. info \in [Infos -> SIPCallInfo]
  BY DEF TeardownInvariant, TypeOK
<1>3. CASE AdkEvent(i)
  <2>1. PICK speech \in BOOLEAN, end_call \in BOOLEAN :
           info' = [info EXCEPT ![i].audio = @ \/ speech,
                                ![i].end_call_requested = @ \/ end_call]
    BY <1>3 DEF AdkEvent
  <2> DEFINE audio == x.audio \/ speech
             ended == x.end_call_requested \/ end_call
             y == [x EXCEPT !.audio = audio, !.end_call_requested = ended]
  <2>2. info' = [info EXCEPT ![i] = y]
    BY <1>1, <1>2, <2>1 DEF SIPCallInfo
  <2> HIDE DEF audio, ended
  <2>3. SameCall(x, y) /\ y.teardown = x.teardown
    BY <1>1 DEF SameCall, SamePhone, SIPCallInfo
  <2> HIDE DEF y
  <2> QED
    BY <1>3, <2>2, <2>3, QuietEffect DEF AdkEvent
<1>4. CASE AdkStreamEnds(i) \/ AdkCancelled(i)
  BY <1>1, <1>4, FinallyEffect DEF AdkStreamEnds, AdkCancelled, SameCall, SamePhone
<1>5. CASE AdkStreamError(i)
  <2> DEFINE failed == [x EXCEPT !.retry_count = @ + 1]
  <2>1. /\ failed \in SIPCallInfo /\ SameCall(x, failed) /\ failed.teardown = x.teardown
        /\ failed.call_id = x.call_id
    <3>1. Sound(x, i) /\ x.adk = "streaming"
      BY <1>5 DEF TeardownInvariant, AdkStreamError, Streams
    <3>2. x.retry_count + 1 \in 0 .. max_retries + 1
      BY <1>1, <3>1, RetriesAssumption DEF Sound, SIPCallInfo
    <3> HIDE DEF x
    <3> QED
      BY <1>1, <3>2 DEF SIPCallInfo, SameCall, SamePhone
  <2>2. CASE mayReconnect(failed)
    <3> DEFINE y == [failed EXCEPT !.live_request_queue = "open", !.adk = "reconnecting"]
    <3>1. info' = [info EXCEPT ![i] = y] /\ UNCHANGED <<tracking, sessions>>
      BY <1>5, <2>2 DEF AdkStreamError
    <3> HIDE DEF failed
    <3>2. SameCall(x, y) /\ y.teardown = x.teardown
      BY <2>1 DEF SIPCallInfo, SameCall, SamePhone
    <3> HIDE DEF y
    <3> QED
      BY <3>1, <3>2, QuietEffect
  <2>3. CASE ~mayReconnect(failed)
    <3> DEFINE y == [failed EXCEPT !.end_call_requested = TRUE]
    <3>1. AdkFinally(i, y)
      BY <1>5, <2>3 DEF AdkStreamError
    <3> HIDE DEF failed
    <3>2. y \in SIPCallInfo /\ SameCall(x, y) /\ y.teardown = x.teardown /\ y.call_id = x.call_id
      BY ZenonT(40), <2>1 DEF SIPCallInfo, SameCall, SamePhone
    <3> HIDE DEF y
    <3> QED
      BY <1>1, <3>1, <3>2, FinallyEffect
  <2> QED
    BY <2>2, <2>3
<1>6. CASE AdkReconnect(i)
  <2>1. CASE x.is_active /\ RetriesLeft(x.retry_count)
    <3> DEFINE y == [x EXCEPT !.adk = "streaming"]
    <3>1. info' = [info EXCEPT ![i] = y] /\ UNCHANGED <<tracking, sessions>>
      BY <1>6, <2>1 DEF AdkReconnect
    <3>2. SameCall(x, y) /\ y.teardown = x.teardown
      BY <1>1 DEF SIPCallInfo, SameCall, SamePhone
    <3> HIDE DEF y
    <3> QED
      BY <3>1, <3>2, QuietEffect
  <2>2. CASE ~(x.is_active /\ RetriesLeft(x.retry_count))
    BY <1>1, <1>6, <2>2, FinallyEffect DEF AdkReconnect, SameCall, SamePhone
  <2> QED
    BY <2>1, <2>2
<1>7. CASE AdkDrainTimeout(i)
  <2> DEFINE y == [x EXCEPT !.pacingCancelled = TRUE]
  <2>1. info' = [info EXCEPT ![i] = y] /\ UNCHANGED <<tracking, sessions>>
    BY <1>2, <1>7 DEF AdkDrainTimeout
  <2>2. SameCall(x, y) /\ y.teardown = x.teardown
    BY <1>1 DEF SIPCallInfo, SameCall, SamePhone
  <2> HIDE DEF y
  <2> QED
    BY <2>1, <2>2, QuietEffect
<1>8. CASE AdkDrained(i)
  <2> DEFINE told == x.bye_sent \/ x.cancelled
             drained == [x EXCEPT !.bye_sent = told, !.cancelled = FALSE, !.long = FALSE]
             adk == IF calls[drained.call_id] = None THEN "done" ELSE "terminating"
             y == [drained EXCEPT !.adk = adk]
  <2>1. \/ info' = [info EXCEPT ![i] = y] /\ UNCHANGED <<tracking, sessions>>
        \/ calls[drained.call_id] # None
           /\ Terminate(drained.call_id, i, [info EXCEPT ![i] = y])
    BY <1>8 DEF AdkDrained
  <2>2. told \in BOOLEAN /\ adk \in {"done", "terminating"}
    OBVIOUS
  <2> HIDE DEF told, adk
  <2>3. /\ drained \in SIPCallInfo /\ drained.call_id = x.call_id
        /\ drained.remote_rtp_addr = x.remote_rtp_addr /\ drained.teardown = x.teardown
        /\ drained.transcript_handler = x.transcript_handler
        /\ drained.earlier_tasks = x.earlier_tasks
    BY ZenonT(40), <1>1, <2>2 DEF SIPCallInfo
  <2> HIDE DEF drained
  <2>4. y \in SIPCallInfo /\ SameCall(x, y) /\ y.teardown = x.teardown
    BY <2>2, <2>3 DEF SIPCallInfo, SameCall, SamePhone, Running
  <2> HIDE DEF y
  <2>5. CASE info' = [info EXCEPT ![i] = y] /\ UNCHANGED <<tracking, sessions>>
    BY <2>4, <2>5, QuietEffect
  <2>6. CASE calls[drained.call_id] # None
             /\ Terminate(drained.call_id, i, [info EXCEPT ![i] = y])
    <3>1. /\ [info EXCEPT ![i] = y] \in [Infos -> SIPCallInfo]
          /\ \A j \in Infos : [info EXCEPT ![i] = y][j] = IF j = i THEN y ELSE info[j]
      BY <1>2, <2>4
    <3>2. PICK infos \in [Infos -> SIPCallInfo] : infos = [info EXCEPT ![i] = y]
      BY <3>1
    <3>3. SameCalls(infos) /\ SameStages(infos)
      BY <2>4, <3>1, <3>2 DEF SameCalls, SameCall, SamePhone, SameStages
    <3>4. Terminate(drained.call_id, i, infos)
      BY <2>6, <3>2
    <3> QED
      BY <1>1, <2>3, <2>6, <3>3, <3>4, TerminateEffect
  <2> QED
    BY <2>1, <2>5, <2>6
<1> QED
  BY <1>3, <1>4, <1>5, <1>6, <1>7, <1>8 DEF AdkTask, Stream

LEMMA PacingEffect ==
    ASSUME TeardownInvariant, NEW i \in Infos, PacingTask(i)
    PROVE  Quiet
<1> DEFINE x == info[i]
<1>1. info \in [Infos -> SIPCallInfo] /\ x \in SIPCallInfo
  BY DEF TeardownInvariant, TypeOK
<1>2. PICK y : /\ y \in { [x EXCEPT !.audio = FALSE], [x EXCEPT !.pacing = "hangingUp"],
                          [x EXCEPT !.bye_sent = TRUE, !.is_active = FALSE, !.pacing = "done",
                                    !.audio = FALSE],
                          [x EXCEPT !.pacing = "done", !.pacingCancelled = FALSE,
                                    !.audio = FALSE] }
               /\ info' = [info EXCEPT ![i] = y]
  BY <1>1 DEF PacingTask, Play, HangUp, _send_bye, PacingStops, SIPCallInfo
<1>3. SameCall(x, y) /\ y.teardown = x.teardown
  BY ZenonT(40), <1>1, <1>2 DEF SIPCallInfo, SameCall, SamePhone
<1>4. UNCHANGED <<tracking, sessions>>
  BY DEF PacingTask, Play, HangUp, _send_bye, PacingStops
<1> QED
  BY <1>2, <1>3, <1>4, QuietEffect

LEMMA LostTasksAre ==
    ASSUME NEW i \in Infos, LostTasks(i)
    PROVE  info[i].earlier_tasks = "lost"
<1>1. CASE LostTasksGoOn(i)
  BY Zenon, <1>1 DEF LostTasksGoOn
<1>2. CASE LostAgentEnds(i)
  BY Zenon, <1>2 DEF LostAgentEnds
<1> QED
  BY <1>1, <1>2 DEF LostTasks

LEMMA LostEffect ==
    ASSUME TeardownInvariant, NEW i \in Infos, LostTasks(i)
    PROVE  Quiet \/ \E c \in CallIds : Begins(c)
<1> DEFINE x == info[i]
<1>1. x \in SIPCallInfo /\ x.call_id \in CallIds /\ info \in [Infos -> SIPCallInfo]
  <2>1. x.earlier_tasks = "lost"
    BY LostTasksAre
  <2> QED
    BY <2>1, TaskFacts DEF TeardownInvariant, TypeOK
<1>2. CASE LostTasksGoOn(i)
  <2>1. PICK audio, end_call, bye, cancel \in BOOLEAN :
           /\ audio => info[i].audio \/ (info[i].is_active /\ info[i].remote_rtp_addr # None)
           /\ cancel => PacingAlive(info[i])
           /\ info' = [info EXCEPT ![i].audio = audio,
                                   ![i].end_call_requested = @ \/ end_call,
                                   ![i].bye_sent = @ \/ bye, ![i].is_active = @ /\ ~bye,
                                   ![i].pacingCancelled = @ \/ cancel]
    BY Zenon, <1>2 DEF LostTasksGoOn
  <2> DEFINE ended == x.end_call_requested \/ end_call
             told == x.bye_sent \/ bye
             active == x.is_active /\ ~bye
             cancels == x.pacingCancelled \/ cancel
             y == [x EXCEPT !.audio = audio, !.end_call_requested = ended, !.bye_sent = told,
                            !.is_active = active, !.pacingCancelled = cancels]
  <2>2. info' = [info EXCEPT ![i] = y]
    BY <2>1
  <2> HIDE DEF ended, told, active, cancels
  <2>3. SameCall(x, y) /\ y.teardown = x.teardown
    BY <1>1 DEF SIPCallInfo, SameCall, SamePhone
  <2> HIDE DEF y
  <2>4. UNCHANGED <<tracking, sessions>>
    BY <1>2 DEF LostTasksGoOn
  <2> QED
    BY <2>2, <2>3, <2>4, QuietEffect
<1>3. CASE LostAgentEnds(i)
  <2> DEFINE y == [x EXCEPT !.end_call_requested = TRUE]
  <2>1. PICK by \in {"lost", "handler"} :
           calls[x.call_id] # None /\ Terminate(x.call_id, by, [info EXCEPT ![i] = y])
    <3>1. info' = info' /\ (IF calls[x.call_id] = i THEN "lost" ELSE "handler")
                              \in {"lost", "handler"}
      OBVIOUS
    <3> QED
      BY <1>1, <1>3, <3>1 DEF LostAgentEnds
  <2>2. y \in SIPCallInfo
    BY <1>1, FlagTypes, TRUE \in BOOLEAN
  <2>3. SameCall(x, y) /\ y.teardown = x.teardown
    BY <1>1 DEF SIPCallInfo, SameCall, SamePhone
  <2> HIDE DEF y
  <2>4. PICK infos \in [Infos -> SIPCallInfo] : infos = [info EXCEPT ![i] = y]
    BY <1>1, <2>2
  <2>5. SameCalls(infos) /\ SameStages(infos)
    BY <1>1, <2>3, <2>4 DEF SameCalls, SameCall, SamePhone, SameStages
  <2> QED
    BY <1>1, <2>1, <2>4, <2>5, TerminateEffect
<1> QED
  BY <1>2, <1>3 DEF LostTasks

\* Every step but an INVITE, a learned address or the start of an agent session is one
\* of three kinds.
LEMMA StepEffect ==
    ASSUME TeardownInvariant, [Next]_vars
    PROVE  \/ \E c \in CallIds, a \in Addrs \cup {None} : _handle_invite(c, a)
           \/ \E c \in CallIds : calls[c] # None /\ StartAdkSession(c)
           \/ \E a \in Addrs : handle_rtp_packet(a)
           \/ Quiet
           \/ \E c \in CallIds : Begins(c)
           \/ \E k \in Infos : GoesOn(k)
<1>1. info \in [Infos -> SIPCallInfo] /\ SameCalls(info) /\ SameStages(info)
  BY DEF TeardownInvariant, TypeOK, SameCalls, SameCall, SamePhone, SameStages
<1>2. ASSUME NEW c \in CallIds, calls[c] # None, NEW by \in {"handler", "stop"},
             Terminate(c, by, info)
      PROVE  Begins(c)
  BY <1>1, <1>2, TerminateEffect
<1>3. CASE Phone
  BY <1>2, <1>3 DEF Phone, _handle_ack, _handle_bye, FailAdkSession
<1>4. ASSUME NEW k \in Infos, Teardown(k) PROVE GoesOn(k)
  <2>1. /\ info[k].teardown \in {"adk", "pacing"}
        /\ Proceed(k, info) /\ UNCHANGED tracking
    BY <1>4 DEF Teardown
  <2>2. /\ \A i \in Infos :
              /\ info'[i].call_id = info[i].call_id
              /\ info'[i].remote_rtp_addr = info[i].remote_rtp_addr
              /\ info'[i].transcript_handler = info[i].transcript_handler
              /\ info'[i].earlier_tasks = info[i].earlier_tasks
        /\ \A i \in Infos \ {k} : info'[i].teardown = info[i].teardown
        /\ info'[k].teardown \in {"adk", "pacing", "done"}
        /\ sessions' = IF info'[k].teardown = "done" THEN sessions \ {info[k].call_id}
                       ELSE sessions
    BY <1>1, <2>1, ProceedEffect
  <2> QED
    BY <2>1, <2>2 DEF GoesOn, SameCalls, SameCall, SamePhone, Reaches
<1>5. CASE \E i \in Infos : Teardown(i) \/ AdkTask(i) \/ PacingTask(i) \/ Stream(i)
                              \/ LostTasks(i)
  BY <1>4, <1>5, AgentEffect, PacingEffect, LostEffect
<1>6. CASE UNCHANGED <<tracking, info, sessions>>
  BY <1>6 DEF Quiet, SameCalls, SameCall, SamePhone, SameStages
<1>7. CASE Stop
  BY <1>2, <1>6, <1>7 DEF Stop, stop, StopCall, Stopped
<1>8. CASE UNCHANGED vars
  BY <1>6, <1>8 DEF vars, tracking
<1> QED
  BY <1>3, <1>5, <1>7, <1>8 DEF Next

LEMMA InviteEffect ==
    ASSUME TeardownInvariant, NEW c \in CallIds, NEW a \in Addrs \cup {None},
           _handle_invite(c, a)
    PROVE  \E new \in Infos :
              /\ info[new].call_id = None
              /\ info'[new] = Fresh(c, a)
              /\ \A i \in Infos \ {new} : info'[i] = info[i]
              /\ calls' = [calls EXCEPT ![c] = new]
              /\ rtp_addr_to_call' = [b \in Addrs |-> IF b = a THEN c ELSE rtp_addr_to_call[b]]
              /\ UNCHANGED <<sessions, transcript_store>>
              /\ "INVITE" \in Repeated \/ \A j \in Infos : info[j].call_id # c
<1>1. PICK new \in Infos : new = CHOOSE i \in Unallocated : TRUE
  BY DEF _handle_invite, Unallocated
<1>2. info[new].call_id = None
  BY <1>1 DEF _handle_invite, Unallocated
<1>3. info' = [info EXCEPT ![new] = Fresh(c, a)]
  BY <1>1 DEF _handle_invite
<1>4. info'[new] = Fresh(c, a) /\ \A i \in Infos \ {new} : info'[i] = info[i]
  BY <1>3 DEF TeardownInvariant, TypeOK
<1> QED
  BY <1>1, <1>2, <1>4 DEF _handle_invite

LEMMA StartEffect ==
    ASSUME TeardownInvariant, NEW c \in CallIds, calls[c] # None, StartAdkSession(c)
    PROVE  /\ SamePhones(info') /\ SameStages(info')
           /\ info'[calls[c]].transcript_handler # "none"
           /\ info'[calls[c]].adk = "streaming" /\ info'[calls[c]].by = info[calls[c]].by
           /\ info'[calls[c]].earlier_tasks =
                 IF info[calls[c]].transcript_handler = "none" THEN "none" ELSE "lost"
           /\ \A j \in Infos \ {calls[c]} : info'[j] = info[j]
           /\ sessions' = sessions \cup {c} /\ transcript_store' = transcript_store \cup {c}
           /\ UNCHANGED <<calls, rtp_addr_to_call>>
<1>1. PICK k \in Infos : k = calls[c]
  BY DEF TeardownInvariant, TypeOK
<1> DEFINE x == info[k]
           earlier == IF x.transcript_handler = "none" THEN "none" ELSE "lost"
           y == [x EXCEPT !.is_active = TRUE, !.live_request_queue = "open",
                          !.transcript_handler = "open",
                          !.adk = "streaming", !.cancelled = FALSE, !.retry_count = 0,
                          !.pacing = "playing", !.pacingCancelled = FALSE,
                          !.earlier_tasks = earlier]
<1>2. info' = [info EXCEPT ![k] = y]
  BY <1>1 DEF StartAdkSession
<1>3. x \in SIPCallInfo
  BY DEF TeardownInvariant, TypeOK
<1> HIDE DEF earlier
<1>4. /\ SamePhone(x, y) /\ y.teardown = x.teardown /\ y.transcript_handler = "open"
      /\ y.adk = "streaming" /\ y.by = x.by /\ y.earlier_tasks = earlier
  BY <1>3 DEF SIPCallInfo, SamePhone
<1> HIDE DEF y
<1>5. \A j \in Infos : info'[j] = IF j = k THEN y ELSE info[j]
  BY <1>2 DEF TeardownInvariant, TypeOK
<1>6. \A j \in Infos : SamePhone(info[j], info[j])
  BY DEF SamePhone
<1>7. SamePhones(info') /\ SameStages(info')
  BY <1>4, <1>5, <1>6 DEF SamePhones, SameStages
<1> QED
  BY <1>1, <1>4, <1>5, <1>7 DEF StartAdkSession, earlier

-----------------------------------------------------------------------------
(* Where an address is routed.                                             *)

LEMMA CallsArePhones == SameCalls(info') => SamePhones(info')
BY DEF SameCalls, SameCall, SamePhones

\* A call keeps its phone, so a route stays right until it goes.
LEMMA RoutesKept ==
    ASSUME TypeOK, RoutesStayOnHost, SamePhones(info'),
           \A a \in Addrs : rtp_addr_to_call'[a] # None =>
              rtp_addr_to_call'[a] = rtp_addr_to_call[a]
    PROVE  RoutesStayOnHost'
BY DEF RoutesStayOnHost, SamePhones, SamePhone

LEMMA RoutesStep ==
    ASSUME TeardownInvariant, RoutesStayOnHost, [Next]_vars
    PROVE  RoutesStayOnHost'
<1>1. TypeOK
  BY DEF TeardownInvariant
<1>2. ASSUME NEW c \in CallIds, NEW a \in Addrs \cup {None}, _handle_invite(c, a)
      PROVE  RoutesStayOnHost'
  <2>1. PICK new \in Infos :
           /\ info[new].call_id = None
           /\ info'[new] = Fresh(c, a)
           /\ \A i \in Infos \ {new} : info'[i] = info[i]
           /\ rtp_addr_to_call' = [b \in Addrs |-> IF b = a THEN c ELSE rtp_addr_to_call[b]]
    BY <1>2, InviteEffect
  <2> SUFFICES ASSUME NEW b \in Addrs, rtp_addr_to_call'[b] # None
               PROVE  \E i \in Infos : /\ info'[i].call_id = rtp_addr_to_call'[b]
                                       /\ info'[i].remote_rtp_addr # None
                                       /\ Host[info'[i].remote_rtp_addr] = Host[b]
    BY DEF RoutesStayOnHost
  <2>2. CASE b = a
    <3>1. rtp_addr_to_call'[b] = c /\ b # None
      BY <2>1, <2>2, NoneAssumption
    <3>2. info'[new].call_id = c /\ info'[new].remote_rtp_addr = b
      BY <2>1, <2>2 DEF Fresh
    <3> QED
      BY <3>1, <3>2
  <2>3. CASE b # a
    <3>1. rtp_addr_to_call'[b] = rtp_addr_to_call[b]
      BY <2>1, <2>3
    <3>2. PICK i \in Infos : /\ info[i].call_id = rtp_addr_to_call[b]
                             /\ info[i].remote_rtp_addr # None
                             /\ Host[info[i].remote_rtp_addr] = Host[b]
      BY <3>1 DEF RoutesStayOnHost
    <3>3. i # new
      BY <2>1, <3>1, <3>2
    <3> QED
      BY <2>1, <3>1, <3>2, <3>3
  <2> QED
    BY <2>2, <2>3
<1>3. ASSUME NEW c \in CallIds, calls[c] # None, StartAdkSession(c) PROVE RoutesStayOnHost'
  BY <1>1, <1>3, StartEffect, RoutesKept
<1>4. ASSUME NEW a \in Addrs, handle_rtp_packet(a) PROVE RoutesStayOnHost'
  <2>1. PICK b \in Addrs :
           /\ rtp_addr_to_call[b] # None /\ Host[b] = Host[a]
           /\ rtp_addr_to_call' = [rtp_addr_to_call EXCEPT ![a] = rtp_addr_to_call[b]]
    BY <1>4 DEF handle_rtp_packet
  <2>2. UNCHANGED info
    BY <1>4 DEF handle_rtp_packet
  <2>3. \A d \in Addrs : rtp_addr_to_call'[d] =
                            IF d = a THEN rtp_addr_to_call[b] ELSE rtp_addr_to_call[d]
    BY <1>1, <2>1 DEF TypeOK
  <2> QED
    BY <2>1, <2>2, <2>3 DEF RoutesStayOnHost
<1>5. CASE Quiet
  BY <1>1, <1>5, RoutesKept, CallsArePhones DEF Quiet, tracking
<1>6. ASSUME NEW c \in CallIds, Begins(c) PROVE RoutesStayOnHost'
  BY <1>1, <1>6, RoutesKept, CallsArePhones DEF Begins
<1>7. ASSUME NEW k \in Infos, GoesOn(k) PROVE RoutesStayOnHost'
  BY <1>1, <1>7, RoutesKept, CallsArePhones DEF GoesOn, tracking
<1> QED
  BY <1>2, <1>3, <1>4, <1>5, <1>6, <1>7, StepEffect

\* Whoever sends packets, and whatever INVITEs are repeated, an address is heard by a call
\* of a phone at its own IP (sip_udp/server.py:394-401).
THEOREM RoutesAreOnHost == Spec => []RoutesStayOnHost
<1>1. Init => RoutesStayOnHost
  BY DEF Init, RoutesStayOnHost
<1>2. TeardownInvariant /\ RoutesStayOnHost /\ [Next]_vars =>
         TeardownInvariant' /\ RoutesStayOnHost'
  BY NextStep, RoutesStep
<1> QED
  BY <1>1, <1>2, InitInvariant, PTL DEF Spec

-----------------------------------------------------------------------------
(* As long as every INVITE opens a dialog of its own.                      *)

LEMMA TrackedStep ==
    ASSUME "INVITE" \notin Repeated, TeardownInvariant, TrackedInvariant, [Next]_vars
    PROVE  TrackedInvariant'
<1> DEFINE UntornAreTracked ==
              \A i \in Infos : info[i].call_id # None /\ info[i].teardown = "none" =>
                                  calls[info[i].call_id] = i
           SessionsHaveInfos ==
              \A c \in sessions :
                 \E i \in Infos : info[i].call_id = c /\ info[i].teardown # "done"
           TranscriptsAreTracked ==
              \A c \in transcript_store :
                 calls[c] # None /\ info[calls[c]].transcript_handler # "none"
<1>1. TypeOK /\ UntornAreTracked /\ SessionsHaveInfos /\ TranscriptsAreTracked
  BY DEF TeardownInvariant, TrackedInvariant
<1>2. /\ \A i \in Infos : info[i].call_id \in CallIds \cup {None}
      /\ \A c \in CallIds : c # None
      /\ \A c \in CallIds : calls[c] # None =>
            calls[c] \in Infos /\ info[calls[c]].call_id = c /\ info[calls[c]].teardown = "none"
      /\ transcript_store \subseteq CallIds /\ sessions \subseteq CallIds
  BY NoneAssumption DEF TeardownInvariant, TypeOK, SIPCallInfo, IsTracked
<1>3. calls = [c \in CallIds |-> calls[c]]
  BY DEF TeardownInvariant, TypeOK
<1> SUFFICES UntornAreTracked' /\ SessionsHaveInfos' /\ TranscriptsAreTracked'
  BY DEF TrackedInvariant
<1>4. ASSUME NEW c \in CallIds, NEW a \in Addrs \cup {None}, _handle_invite(c, a)
      PROVE  UntornAreTracked' /\ SessionsHaveInfos' /\ TranscriptsAreTracked'
  <2>1. PICK new \in Infos :
           /\ info[new].call_id = None
           /\ info'[new] = Fresh(c, a)
           /\ \A i \in Infos \ {new} : info'[i] = info[i]
           /\ calls' = [calls EXCEPT ![c] = new]
           /\ UNCHANGED <<sessions, transcript_store>>
           /\ \A j \in Infos : info[j].call_id # c
    BY <1>4, InviteEffect
  <2>2. info'[new].call_id = c
    BY <2>1 DEF Fresh
  <2>3. \A d \in CallIds : calls'[d] = IF d = c THEN new ELSE calls[d]
    BY <1>3, <2>1
  <2>4. UntornAreTracked'
    BY <1>1, <1>2, <2>1, <2>2, <2>3
  <2>5. SessionsHaveInfos'
    BY <1>1, <1>2, <2>1
  <2>6. TranscriptsAreTracked'
    <3> SUFFICES ASSUME NEW d \in transcript_store
                 PROVE  calls'[d] # None /\ info'[calls'[d]].transcript_handler # "none"
      BY <2>1
    <3>1. /\ d \in CallIds /\ calls[d] \in Infos /\ info[calls[d]].call_id = d
          /\ calls[d] # None /\ info[calls[d]].transcript_handler # "none"
      BY <1>1, <1>2
    <3>2. d # c /\ calls[d] # new
      BY <1>2, <2>1, <3>1
    <3> QED
      BY <2>1, <2>3, <3>1, <3>2
  <2> QED
    BY <2>4, <2>5, <2>6
<1>5. ASSUME NEW c \in CallIds, calls[c] # None, StartAdkSession(c)
      PROVE  UntornAreTracked' /\ SessionsHaveInfos' /\ TranscriptsAreTracked'
  <2>1. /\ SamePhones(info') /\ SameStages(info')
        /\ info'[calls[c]].transcript_handler # "none"
        /\ sessions' = sessions \cup {c} /\ transcript_store' = transcript_store \cup {c}
        /\ UNCHANGED calls
    BY <1>5, StartEffect
  <2>2. UntornAreTracked'
    BY <1>1, <2>1 DEF SamePhones, SamePhone, SameStages
  <2>3. SessionsHaveInfos'
    BY <1>1, <1>2, <1>5, <2>1 DEF SamePhones, SamePhone, SameStages
  <2>4. TranscriptsAreTracked'
    BY <1>1, <1>2, <1>5, <2>1 DEF SamePhones, SamePhone
  <2> QED
    BY <2>2, <2>3, <2>4
<1>6. ASSUME NEW a \in Addrs, handle_rtp_packet(a)
      PROVE  UntornAreTracked' /\ SessionsHaveInfos' /\ TranscriptsAreTracked'
  BY <1>1, <1>6 DEF handle_rtp_packet
<1>7. CASE Quiet
  BY <1>1, <1>2, <1>7 DEF Quiet, tracking, SameCalls, SameCall, SamePhone, SameStages
<1>8. ASSUME NEW c \in CallIds, Begins(c)
      PROVE  UntornAreTracked' /\ SessionsHaveInfos' /\ TranscriptsAreTracked'
  <2>1. PICK k \in Infos : k = calls[c] /\ k # None
    BY <1>2, <1>8 DEF Begins
  <2>2. info[k].call_id = c
    BY <1>2, <2>1
  <2>3. \A d \in CallIds : calls'[d] = IF d = c THEN None ELSE calls[d]
    BY <1>3, <1>8 DEF Begins
  <2>4. SameCalls(info') /\ Reaches(k)
    BY <1>8, <2>1 DEF Begins
  <2>5. UntornAreTracked'
    BY <1>1, <1>2, <2>1, <2>2, <2>3, <2>4 DEF SameCalls, SameCall, SamePhone, Reaches
  <2>6. SessionsHaveInfos'
    <3> SUFFICES ASSUME NEW d \in sessions'
                 PROVE  \E i \in Infos : info'[i].call_id = d /\ info'[i].teardown # "done"
      OBVIOUS
    <3>1. d \in sessions /\ (info'[k].teardown = "done" => d # c)
      BY <2>2, <2>4 DEF Reaches
    <3>2. PICK i \in Infos : info[i].call_id = d /\ info[i].teardown # "done"
      BY <1>1, <3>1
    <3> QED
      BY <2>2, <2>4, <3>1, <3>2 DEF SameCalls, SameCall, SamePhone, Reaches
  <2>7. TranscriptsAreTracked'
    <3> SUFFICES ASSUME NEW d \in transcript_store'
                 PROVE  calls'[d] # None /\ info'[calls'[d]].transcript_handler # "none"
      OBVIOUS
    <3>1. d \in transcript_store
      BY <1>8 DEF Begins
    <3>2. calls[d] # None /\ info[calls[d]].transcript_handler # "none" /\ d \in CallIds
      BY <1>1, <1>2, <3>1
    <3>3. d # c
      BY <1>8, <3>2 DEF Begins
    <3> QED
      BY <1>2, <2>3, <2>4, <3>2, <3>3 DEF SameCalls, SameCall, SamePhone
  <2> QED
    BY <2>5, <2>6, <2>7
<1>9. ASSUME NEW k \in Infos, GoesOn(k)
      PROVE  UntornAreTracked' /\ SessionsHaveInfos' /\ TranscriptsAreTracked'
  <2>1. SameCalls(info') /\ Reaches(k) /\ UNCHANGED <<calls, transcript_store>>
    BY <1>9 DEF GoesOn, tracking
  <2>2. UntornAreTracked'
    BY <1>1, <2>1 DEF SameCalls, SameCall, SamePhone, Reaches
  <2>3. SessionsHaveInfos'
    <3> SUFFICES ASSUME NEW d \in sessions'
                 PROVE  \E i \in Infos : info'[i].call_id = d /\ info'[i].teardown # "done"
      OBVIOUS
    <3>1. d \in sessions /\ (info'[k].teardown = "done" => d # info[k].call_id)
      BY <2>1 DEF Reaches
    <3>2. PICK i \in Infos : info[i].call_id = d /\ info[i].teardown # "done"
      BY <1>1, <3>1
    <3> QED
      BY <2>1, <3>1, <3>2 DEF SameCalls, SameCall, SamePhone, Reaches
  <2>4. TranscriptsAreTracked'
    BY <1>1, <1>2, <2>1 DEF SameCalls, SameCall, SamePhone
  <2> QED
    BY <2>2, <2>3, <2>4
<1> HIDE DEF UntornAreTracked, SessionsHaveInfos, TranscriptsAreTracked
<1> QED
  BY <1>4, <1>5, <1>6, <1>7, <1>8, <1>9, StepEffect

LEMMA InitTracked == Init => TrackedInvariant
BY DEF Init, TrackedInvariant, Fresh

LEMMA TrackedAlways ==
    ASSUME "INVITE" \notin Repeated
    PROVE  Spec => [](TeardownInvariant /\ TrackedInvariant)
<1>1. TeardownInvariant /\ TrackedInvariant /\ [Next]_vars =>
         TeardownInvariant' /\ TrackedInvariant'
  BY NextStep, TrackedStep
<1> QED
  BY <1>1, InitInvariant, InitTracked, PTL DEF Spec

\* No session and no transcript of a call is kept when its teardown is over, whether the
\* phone, stop(), a failed start or the agent began it (sip_udp/server.py:899, 926).
THEOREM EverythingIsCleanedUp ==
    ASSUME "INVITE" \notin Repeated
    PROVE  Spec => []NothingIsLeftBehind
<1>1. TeardownInvariant /\ TrackedInvariant => NothingIsLeftBehind
  <2> SUFFICES ASSUME TeardownInvariant, TrackedInvariant, NEW c \in sessions
               PROVE  \E i \in Infos : /\ info[i].call_id = c
                                       /\ \/ calls[c] = i
                                          \/ info[i].teardown \in {"adk", "pacing"}
    BY DEF NothingIsLeftBehind, TrackedInvariant
  <2>1. PICK i \in Infos : info[i].call_id = c /\ info[i].teardown # "done"
    BY DEF TrackedInvariant
  <2>2. info[i].teardown \in {"none", "adk", "pacing"} /\ c # None
    BY <2>1, NoneAssumption DEF TeardownInvariant, TypeOK, SIPCallInfo
  <2> QED
    BY <2>1, <2>2 DEF TrackedInvariant
<1> QED
  BY <1>1, TrackedAlways, PTL

-----------------------------------------------------------------------------
(* What a teardown waits for.                                              *)

AllWait == \A i \in Infos : Waits(info[i], i)

LEMMA AtStageWaits ==
    ASSUME NEW x \in SIPCallInfo, NEW stage \in {"adk", "pacing", "done"},
           NEW y, y = AtStage(x, stage)
    PROVE  /\ x.pacingCancelled \/ stage = "pacing" => y.pacingCancelled
           /\ y.end_call_requested = x.end_call_requested
<1> DEFINE cancels == x.pacingCancelled \/ stage = "pacing"
<1>1. y = [x EXCEPT !.teardown = stage, !.pacingCancelled = cancels]
  BY DEF AtStage
<1>2. x.pacingCancelled \/ stage = "pacing" => cancels
  OBVIOUS
<1> HIDE DEF cancels
<1>3. y.pacingCancelled = cancels /\ y.end_call_requested = x.end_call_requested
  BY <1>1 DEF SIPCallInfo
<1> QED
  BY <1>2, <1>3

LEMMA TornDownWaits ==
    ASSUME NEW x \in SIPCallInfo, NEW by \in Infos \cup {"handler", "stop"},
           NEW y, y = TornDown(x, by)
    PROVE  /\ y.pacing = x.pacing /\ y.end_call_requested = x.end_call_requested
           /\ x.adk = "draining" /\ PacingAlive(x) => y.pacingCancelled
<1> DEFINE cancels == IF by = "lost" THEN x.cancelled
                      ELSE \/ x.adk \in {"streaming", "reconnecting"}
                           \/ x.adk = "draining" /\ ~PacingAlive(x)
           cancelsPacing == \/ x.pacingCancelled
                            \/ by # "lost" /\ x.adk = "draining" /\ PacingAlive(x)
           queue == IF x.live_request_queue = "open" THEN "closed" ELSE x.live_request_queue
           handler == IF x.transcript_handler = "open" THEN "finalized"
                      ELSE x.transcript_handler
<1>1. y = [x EXCEPT !.is_active = FALSE, !.live_request_queue = queue,
                    !.transcript_handler = handler, !.cancelled = cancels,
                    !.pacingCancelled = cancelsPacing, !.by = by]
  BY DEF TornDown
<1>2. x.adk = "draining" /\ PacingAlive(x) => cancelsPacing
  BY InfosAssumption
<1> HIDE DEF cancels, cancelsPacing, queue, handler
<1>3. y.pacing = x.pacing
  BY <1>1 DEF SIPCallInfo
<1>4. y.pacingCancelled = cancelsPacing /\ y.end_call_requested = x.end_call_requested
  BY <1>1 DEF SIPCallInfo
<1> QED
  BY <1>2, <1>3, <1>4

\* A teardown that goes as far as it can has cancelled what it waits for.
LEMMA ProceedWaits ==
    ASSUME NEW k \in Infos, NEW infos \in [Infos -> SIPCallInfo], Proceed(k, infos),
           \A j \in Infos \ {k} : Waits(infos[j], j),
           infos[k].by \in Infos \/ infos[k].adk = "terminating" => infos[k].by = k,
           infos[k].end_call_requested => infos[k].adk # "none",
           Awaits(infos[k], k) = "adk" /\ infos[k].adk = "draining" /\ PacingAlive(infos[k]) =>
              infos[k].pacingCancelled
    PROVE  AllWait'
<1>1. PICK x \in SIPCallInfo : x = infos[k]
  OBVIOUS
<1>2. PICK stage \in {"adk", "pacing", "done"} : stage = Awaits(x, k)
  BY AwaitsType
<1>3. PICK y \in SIPCallInfo : y = AtStage(x, stage)
  BY AtStageType
<1>4. /\ y.teardown = stage /\ y.by = x.by /\ y.adk = x.adk /\ y.pacing = x.pacing
      /\ x.pacingCancelled \/ stage = "pacing" => y.pacingCancelled
      /\ y.end_call_requested = x.end_call_requested
  <2>1. /\ x.pacingCancelled \/ stage = "pacing" => y.pacingCancelled
        /\ y.end_call_requested = x.end_call_requested
    BY <1>3, AtStageWaits
  <2>2. y.teardown = stage /\ y.by = x.by /\ y.adk = x.adk /\ y.pacing = x.pacing
    BY <1>3, AtStageType
  <2> QED
    BY <2>1, <2>2
<1>5. stage = "adk" => x.by # k
  BY <1>2 DEF Awaits
<1>6. Waits(y, k)
  BY <1>1, <1>2, <1>4, <1>5 DEF Waits, PacingAlive
<1>7. PICK moved : moved = [infos EXCEPT ![k] = y]
  OBVIOUS
<1>8. \A j \in Infos : moved[j] = IF j = k THEN y ELSE infos[j]
  BY <1>7
<1>9. \/ info' = moved
      \/ info' = [moved EXCEPT ![k] = [y EXCEPT !.adk = "done"]]
  BY <1>1, <1>2, <1>3, <1>7, <1>8 DEF Proceed
<1>10. PICK z : z = [y EXCEPT !.adk = "done"]
  OBVIOUS
<1>11. Waits(z, k)
  <2>1. z.adk = "done" /\ z.by = y.by /\ z.teardown = y.teardown /\ z.pacing = y.pacing
    BY <1>10 DEF SIPCallInfo
  <2>2. z.pacingCancelled = y.pacingCancelled
    BY <1>10 DEF SIPCallInfo
  <2> QED
    BY <1>2, <1>4, <1>6, <2>1, <2>2 DEF Waits, PacingAlive
<1>12. /\ moved = [j \in Infos |-> moved[j]]
       /\ \A j \in Infos : Waits(moved[j], j)
  BY <1>6, <1>7, <1>8
<1> QED
  BY <1>9, <1>10, <1>11, <1>12 DEF AllWait

LEMMA TerminateWaits ==
    ASSUME TeardownInvariant, NEW c \in CallIds, calls[c] # None,
           NEW by \in Infos \cup {"handler", "stop"}, NEW infos \in [Infos -> SIPCallInfo],
           Terminate(c, by, infos), \A j \in Infos \ {calls[c]} : Waits(infos[j], j),
           by \in Infos \/ infos[calls[c]].adk = "terminating" => by = calls[c],
           infos[calls[c]].end_call_requested => infos[calls[c]].adk # "none"
    PROVE  AllWait'
<1>1. PICK k \in Infos : k = calls[c]
  BY DEF TeardownInvariant, TypeOK
<1>2. PICK x \in SIPCallInfo : x = infos[k]
  OBVIOUS
<1>3. PICK y \in SIPCallInfo : y = TornDown(x, by) /\ y.by = by /\ y.adk = x.adk
  BY TornDownType
<1>4. /\ y.by = by /\ y.adk = x.adk /\ y.pacing = x.pacing
      /\ y.end_call_requested = x.end_call_requested
      /\ x.adk = "draining" /\ PacingAlive(x) => y.pacingCancelled
  <2>1. /\ y.pacing = x.pacing /\ y.end_call_requested = x.end_call_requested
        /\ x.adk = "draining" /\ PacingAlive(x) => y.pacingCancelled
    BY <1>3, TornDownWaits
  <2> QED
    BY <1>3, <2>1
<1>5. PICK torn \in [Infos -> SIPCallInfo] : torn = [infos EXCEPT ![k] = y]
  OBVIOUS
<1>6. Proceed(k, torn)
  BY <1>1, <1>2, <1>3, <1>5 DEF Terminate
<1>7. torn[k] = y /\ \A j \in Infos \ {k} : Waits(torn[j], j)
  BY <1>1, <1>5
<1>8. y.adk = "draining" /\ PacingAlive(y) => y.pacingCancelled
  BY <1>4 DEF PacingAlive
<1>9. /\ y.by \in Infos \/ y.adk = "terminating" => y.by = k
      /\ y.end_call_requested => y.adk # "none"
  BY <1>1, <1>2, <1>4
<1> QED
  BY <1>6, <1>7, <1>8, <1>9, ProceedWaits

LEMMA OneWaits ==
    ASSUME TeardownInvariant, WaitingInvariant, NEW i \in Infos, NEW y, Waits(y, i),
           info' = [info EXCEPT ![i] = y]
    PROVE  AllWait'
BY DEF TeardownInvariant, TypeOK, WaitingInvariant, AllWait

\* No dialog has two infos, so the call that a task terminates is its own.
LEMMA OwnCall ==
    ASSUME TeardownInvariant, WaitingInvariant, NEW i \in Infos,
           info[i].call_id \in CallIds, calls[info[i].call_id] # None
    PROVE  calls[info[i].call_id] = i /\ info[i].teardown = "none"
BY NoneAssumption DEF TeardownInvariant, TypeOK, WaitingInvariant, IsTracked

LEMMA FinallyWaits ==
    ASSUME TeardownInvariant, TrackedInvariant, WaitingInvariant, NEW i \in Infos,
           info[i].call_id \in CallIds,
           NEW x \in SIPCallInfo, x.call_id = info[i].call_id, x.teardown = info[i].teardown,
           x.adk \in Running, Waits(x, i), AdkFinally(i, x)
    PROVE  AllWait'
<1> DEFINE y == IF calls[x.call_id] = None THEN Ended(x)
                ELSE IF PacingAlive(x) THEN Draining(x) ELSE Terminating(x)
<1>1. y \in {Ended(x), Draining(x), Terminating(x)}
  OBVIOUS
<1>2. y.adk = IF calls[x.call_id] = None THEN "done"
              ELSE IF PacingAlive(x) THEN "draining" ELSE "terminating"
  BY DEF Ended, Draining, Terminating, Ending, SIPCallInfo
<1>3. /\ y \in SIPCallInfo /\ y.by = x.by /\ y.teardown = x.teardown /\ y.pacing = x.pacing
      /\ y.pacingCancelled = x.pacingCancelled
  <2> HIDE DEF y
  <2> QED
    BY <1>1, FinallyTypes, FinallyFields
<1>4. \/ /\ info' = [info EXCEPT ![i] = y]
         /\ \/ calls[x.call_id] = None /\ y.adk = "done"
            \/ calls[x.call_id] # None /\ y.adk = "draining"
      \/ /\ calls[x.call_id] # None /\ y.adk = "terminating"
         /\ Terminate(x.call_id, i, [info EXCEPT ![i] = y])
  <2>1. CASE calls[x.call_id] = None
    BY <1>2, <2>1 DEF AdkFinally, Ended, Draining, Terminating, Ending
  <2>2. CASE calls[x.call_id] # None /\ PacingAlive(x)
    BY <1>2, <2>2 DEF AdkFinally, Ended, Draining, Terminating, Ending
  <2>3. CASE calls[x.call_id] # None /\ ~PacingAlive(x)
    BY <1>2, <2>3 DEF AdkFinally, Ended, Draining, Terminating, Ending
  <2> QED
    BY <2>1, <2>2, <2>3
<1> HIDE DEF y
<1>5. CASE /\ info' = [info EXCEPT ![i] = y]
           /\ \/ calls[x.call_id] = None /\ y.adk = "done"
              \/ calls[x.call_id] # None /\ y.adk = "draining"
  <2>1. calls[x.call_id] # None <=> x.teardown = "none"
    BY OwnCall, NoneAssumption DEF TrackedInvariant
  <2>2. Waits(y, i)
    BY <1>2, <1>3, <1>5, <2>1 DEF Waits, PacingAlive
  <2> QED
    BY <1>5, <2>2, OneWaits
<1>6. CASE /\ calls[x.call_id] # None /\ y.adk = "terminating"
           /\ Terminate(x.call_id, i, [info EXCEPT ![i] = y])
  <2>1. PICK infos \in [Infos -> SIPCallInfo] : infos = [info EXCEPT ![i] = y]
    BY <1>3 DEF TeardownInvariant, TypeOK
  <2>2. calls[x.call_id] = i
    BY <1>6, OwnCall
  <2>3. \A j \in Infos \ {i} : Waits(infos[j], j)
    BY <2>1 DEF WaitingInvariant, TeardownInvariant, TypeOK
  <2>4. Terminate(x.call_id, i, infos) /\ infos[i].adk = "terminating"
    BY <1>6, <2>1 DEF TeardownInvariant, TypeOK
  <2> QED
    BY <1>6, <2>2, <2>3, <2>4, TerminateWaits
<1> QED
  BY <1>4, <1>5, <1>6

LEMMA AgentWaits ==
    ASSUME TeardownInvariant, TrackedInvariant, WaitingInvariant, NEW i \in Infos, AdkTask(i) \/ Stream(i)
    PROVE  AllWait'
<1> DEFINE x == info[i]
<1>1. /\ x.adk \in Running /\ x \in SIPCallInfo /\ x.call_id \in CallIds
      /\ Sound(x, i) /\ Waits(x, i)
  BY TaskFacts DEF AdkTask, Stream, AdkReconnect, AdkCancelled, AdkDrained, AdkEvent,
                   AdkStreamEnds, AdkStreamError, AdkDrainTimeout, Streams, Running,
                   WaitingInvariant
<1>2. info \in [Infos -> SIPCallInfo]
  BY DEF TeardownInvariant, TypeOK
<1>3. CASE AdkEvent(i)
  <2>1. PICK speech \in BOOLEAN, end_call \in BOOLEAN :
           info' = [info EXCEPT ![i].audio = @ \/ speech,
                                ![i].end_call_requested = @ \/ end_call]
    BY <1>3 DEF AdkEvent
  <2> DEFINE audio == x.audio \/ speech
             ended == x.end_call_requested \/ end_call
             y == [x EXCEPT !.audio = audio, !.end_call_requested = ended]
  <2>2. info' = [info EXCEPT ![i] = y]
    BY <1>1, <1>2, <2>1 DEF SIPCallInfo
  <2> HIDE DEF audio, ended
  <2>3. y.adk = x.adk /\ y.by = x.by /\ y.teardown = x.teardown /\ y.pacing = x.pacing
    BY <1>1 DEF SIPCallInfo
  <2>4. y.pacingCancelled = x.pacingCancelled
    BY <1>1 DEF SIPCallInfo
  <2> HIDE DEF y
  <2>5. Waits(y, i)
    BY <1>1, <2>3, <2>4 DEF Waits, PacingAlive, Running
  <2> QED
    BY <2>2, <2>5, OneWaits
<1>4. CASE AdkStreamEnds(i) \/ AdkCancelled(i)
  BY <1>1, <1>4, FinallyWaits DEF AdkStreamEnds, AdkCancelled
<1>5. CASE AdkStreamError(i)
  <2> DEFINE failed == [x EXCEPT !.retry_count = @ + 1]
  <2>1. x.adk = "streaming"
    BY <1>5 DEF AdkStreamError, Streams
  <2>2. failed \in SIPCallInfo
    <3>1. x.retry_count + 1 \in 0 .. max_retries + 1
      BY <1>1, <2>1, RetriesAssumption DEF Sound, SIPCallInfo
    <3> HIDE DEF x
    <3> QED
      BY <1>1, <3>1 DEF SIPCallInfo
  <2>3. /\ failed.adk = x.adk /\ failed.by = x.by /\ failed.teardown = x.teardown
        /\ failed.pacing = x.pacing /\ failed.call_id = x.call_id
    BY <1>1 DEF SIPCallInfo
  <2>4. failed.pacingCancelled = x.pacingCancelled
    BY <1>1 DEF SIPCallInfo
  <2>5. CASE mayReconnect(failed)
    <3> DEFINE y == [failed EXCEPT !.live_request_queue = "open", !.adk = "reconnecting"]
    <3>1. info' = [info EXCEPT ![i] = y]
      BY <1>5, <2>5 DEF AdkStreamError
    <3> HIDE DEF failed
    <3>2. /\ y.adk = "reconnecting" /\ y.by = failed.by /\ y.teardown = failed.teardown
          /\ y.pacing = failed.pacing
      BY <2>2 DEF SIPCallInfo
    <3>3. y.pacingCancelled = failed.pacingCancelled
      BY <2>2 DEF SIPCallInfo
    <3> HIDE DEF y
    <3>4. Waits(y, i)
      BY <1>1, <2>3, <2>4, <3>2, <3>3 DEF Waits, PacingAlive, Running
    <3> QED
      BY <3>1, <3>4, OneWaits
  <2>6. CASE ~mayReconnect(failed)
    <3> DEFINE y == [failed EXCEPT !.end_call_requested = TRUE]
    <3>1. AdkFinally(i, y)
      BY <1>5, <2>6 DEF AdkStreamError
    <3> HIDE DEF failed
    <3>2. /\ y \in SIPCallInfo /\ y.call_id = failed.call_id /\ y.adk = failed.adk
          /\ y.by = failed.by /\ y.teardown = failed.teardown /\ y.pacing = failed.pacing
      BY <2>2 DEF SIPCallInfo
    <3>3. y.pacingCancelled = failed.pacingCancelled
      BY <2>2 DEF SIPCallInfo
    <3> HIDE DEF y
    <3>4. Waits(y, i)
      BY <1>1, <2>3, <2>4, <3>2, <3>3 DEF Waits, PacingAlive, Running
    <3> QED
      BY <1>1, <2>3, <3>1, <3>2, <3>4, FinallyWaits
  <2> QED
    BY <2>5, <2>6
<1>6. CASE AdkReconnect(i)
  <2>1. CASE x.is_active /\ RetriesLeft(x.retry_count)
    <3> DEFINE y == [x EXCEPT !.adk = "streaming"]
    <3>1. info' = [info EXCEPT ![i] = y]
      BY <1>6, <2>1 DEF AdkReconnect
    <3>2. /\ y.adk = "streaming" /\ y.by = x.by /\ y.teardown = x.teardown
          /\ y.pacing = x.pacing
      BY <1>1 DEF SIPCallInfo
    <3>3. y.pacingCancelled = x.pacingCancelled
      BY <1>1 DEF SIPCallInfo
    <3> HIDE DEF y
    <3>4. Waits(y, i)
      BY <1>1, <3>2, <3>3 DEF Waits, PacingAlive, Running
    <3> QED
      BY <3>1, <3>4, OneWaits
  <2>2. CASE ~(x.is_active /\ RetriesLeft(x.retry_count))
    BY <1>1, <1>6, <2>2, FinallyWaits DEF AdkReconnect
  <2> QED
    BY <2>1, <2>2
<1>7. CASE AdkDrainTimeout(i)
  <2> DEFINE y == [x EXCEPT !.pacingCancelled = TRUE]
  <2>1. info' = [info EXCEPT ![i] = y]
    BY <1>2, <1>7 DEF AdkDrainTimeout
  <2>2. y.adk = x.adk /\ y.by = x.by /\ y.teardown = x.teardown /\ y.pacingCancelled
    BY <1>1 DEF SIPCallInfo
  <2> HIDE DEF y
  <2>3. Waits(y, i)
    BY <1>1, <2>2 DEF Waits, Running
  <2> QED
    BY <2>1, <2>3, OneWaits
<1>8. CASE AdkDrained(i)
  <2> DEFINE told == x.bye_sent \/ x.cancelled
             drained == [x EXCEPT !.bye_sent = told, !.cancelled = FALSE, !.long = FALSE]
             adk == IF calls[drained.call_id] = None THEN "done" ELSE "terminating"
             y == [drained EXCEPT !.adk = adk]
  <2>1. \/ info' = [info EXCEPT ![i] = y] /\ calls[drained.call_id] = None
        \/ calls[drained.call_id] # None
           /\ Terminate(drained.call_id, i, [info EXCEPT ![i] = y])
    BY <1>8 DEF AdkDrained
  <2>2. ~PacingAlive(drained)
    BY <1>8 DEF AdkDrained
  <2>3. /\ told \in BOOLEAN /\ adk \in {"done", "terminating"}
        /\ calls[drained.call_id] = None => adk = "done"
    OBVIOUS
  <2> HIDE DEF told, adk
  <2>4. /\ drained \in SIPCallInfo /\ drained.call_id = x.call_id /\ drained.by = x.by
        /\ drained.teardown = x.teardown /\ drained.pacing = x.pacing
    BY ZenonT(40), <1>1, <2>3 DEF SIPCallInfo
  <2> HIDE DEF drained
  <2>5. /\ y \in SIPCallInfo /\ y.adk = adk /\ y.by = drained.by
        /\ y.teardown = drained.teardown /\ y.pacing = drained.pacing
    BY <2>3, <2>4 DEF SIPCallInfo, Running
  <2> HIDE DEF y
  <2>6. CASE info' = [info EXCEPT ![i] = y] /\ calls[drained.call_id] = None
    <3>1. x.teardown # "none"
      BY <1>1, <2>4, <2>6, NoneAssumption DEF TrackedInvariant
    <3>2. Waits(y, i)
      BY <1>1, <2>2, <2>3, <2>4, <2>5, <2>6, <3>1 DEF Waits, PacingAlive, Running
    <3> QED
      BY <2>6, <3>2, OneWaits
  <2>7. CASE calls[drained.call_id] # None
             /\ Terminate(drained.call_id, i, [info EXCEPT ![i] = y])
    <3>1. PICK infos \in [Infos -> SIPCallInfo] : infos = [info EXCEPT ![i] = y]
      BY <1>2, <2>5
    <3>2. calls[x.call_id] = i
      BY <1>1, <2>4, <2>7, OwnCall
    <3>3. \A j \in Infos \ {i} : Waits(infos[j], j)
      BY <1>2, <3>1 DEF WaitingInvariant
    <3>4. Terminate(x.call_id, i, infos) /\ infos[i].adk # "none"
      BY <1>2, <2>3, <2>4, <2>5, <2>7, <3>1
    <3> QED
      BY <1>1, <2>4, <2>7, <3>2, <3>3, <3>4, TerminateWaits
  <2> QED
    BY <2>1, <2>6, <2>7
<1> QED
  BY <1>3, <1>4, <1>5, <1>6, <1>7, <1>8 DEF AdkTask, Stream

LEMMA PacingWaits ==
    ASSUME TeardownInvariant, WaitingInvariant, NEW i \in Infos, PacingTask(i)
    PROVE  AllWait'
<1> DEFINE x == info[i]
<1>1. info \in [Infos -> SIPCallInfo] /\ x \in SIPCallInfo /\ Waits(x, i)
  BY DEF TeardownInvariant, TypeOK, WaitingInvariant
<1>2. CASE Play(i) \/ HangUp(i)
  <2>1. PICK y : /\ y \in {[x EXCEPT !.audio = FALSE], [x EXCEPT !.pacing = "hangingUp"]}
                 /\ info' = [info EXCEPT ![i] = y]
    BY <1>1, <1>2 DEF Play, HangUp
  <2>2. y.adk = x.adk /\ y.by = x.by /\ y.teardown = x.teardown
    BY <1>1, <2>1 DEF SIPCallInfo
  <2>3. y.pacingCancelled = x.pacingCancelled /\ y.end_call_requested = x.end_call_requested
    BY <1>1, <2>1 DEF SIPCallInfo
  <2>4. PacingAlive(x)
    BY <1>2 DEF Play, HangUp, Paces, PacingAlive, Pacing
  <2>5. Waits(y, i)
    BY <1>1, <2>2, <2>3, <2>4 DEF Waits
  <2> QED
    BY <2>1, <2>5, OneWaits
<1>3. CASE _send_bye(i) \/ PacingStops(i)
  <2>1. PICK y : /\ y \in {[x EXCEPT !.bye_sent = TRUE, !.is_active = FALSE, !.pacing = "done",
                                     !.audio = FALSE],
                           [x EXCEPT !.pacing = "done", !.pacingCancelled = FALSE,
                                     !.audio = FALSE]}
                 /\ info' = [info EXCEPT ![i] = y]
    BY <1>1, <1>3 DEF _send_bye, PacingStops, SIPCallInfo
  <2>2. y.adk = x.adk /\ y.by = x.by /\ y.teardown = x.teardown /\ ~PacingAlive(y)
    BY ZenonT(40), <1>1, <2>1 DEF SIPCallInfo, PacingAlive, Pacing
  <2>3. y.end_call_requested = x.end_call_requested
    BY <1>1, <2>1 DEF SIPCallInfo
  <2>4. Waits(y, i)
    BY <1>1, <2>2, <2>3 DEF Waits
  <2> QED
    BY <2>1, <2>4, OneWaits
<1> QED
  BY <1>2, <1>3 DEF PacingTask

\* A call keeps its session until it is torn down, and no other info of its dialog takes
\* that away, so that no ACK starts it again.
LEMMA StartedOnceStep ==
    ASSUME TeardownInvariant, WaitingInvariant, [Next]_vars
    PROVE  StartedOnce'
<1>1. /\ \A i \in Infos : info[i].earlier_tasks = "none"
      /\ \A i \in Infos : info[i].transcript_handler # "none" /\ info[i].teardown # "done" =>
                            info[i].call_id \in sessions
      /\ \A i, j \in Infos : info[i].call_id = info[j].call_id /\ info[i].call_id # None => i = j
  BY DEF WaitingInvariant, StartedOnce
<1>2. \A i \in Infos : info[i].call_id \in sessions => info[i].call_id # None
  BY NoneAssumption DEF TeardownInvariant, TypeOK
<1>3. ASSUME NEW c \in CallIds, NEW a \in Addrs \cup {None}, _handle_invite(c, a)
      PROVE  StartedOnce'
  <2>1. PICK new \in Infos : /\ info'[new] = Fresh(c, a) /\ UNCHANGED sessions
                             /\ \A i \in Infos \ {new} : info'[i] = info[i]
    BY <1>3, InviteEffect
  <2>2. info'[new].earlier_tasks = "none" /\ info'[new].transcript_handler = "none"
    BY <2>1 DEF Fresh
  <2> QED
    BY <1>1, <2>1, <2>2 DEF StartedOnce
<1>4. ASSUME NEW c \in CallIds, calls[c] # None, StartAdkSession(c) PROVE StartedOnce'
  <2>1. PICK k \in Infos : k = calls[c] /\ info[k].call_id = c /\ info[k].teardown = "none"
    BY <1>4 DEF TeardownInvariant, TypeOK, IsTracked
  <2>2. info[k].transcript_handler = "none"
    BY <1>1, <1>4, <2>1 DEF StartAdkSession
  <2>3. /\ info'[k].earlier_tasks = "none" /\ info'[k].call_id = c
        /\ sessions' = sessions \cup {c} /\ \A j \in Infos \ {k} : info'[j] = info[j]
    BY <1>4, <2>1, <2>2, StartEffect DEF SamePhones, SamePhone
  <2> QED
    BY <1>1, <2>1, <2>3 DEF StartedOnce
<1>5. ASSUME SameCalls(info')
      PROVE  \A i \in Infos :
                /\ info'[i].earlier_tasks = "none"
                /\ info'[i].call_id = info[i].call_id
                /\ info'[i].transcript_handler # "none" => info[i].transcript_handler # "none"
  <2>1. TAKE i \in Infos
  <2>2. SameCall(info[i], info'[i])
    BY <1>5 DEF SameCalls
  <2> QED
    BY <1>1, <2>2 DEF SameCall, SamePhone
<1>6. ASSUME NEW k \in Infos, info[k].teardown # "done", SameCalls(info'), Reaches(k)
      PROVE  StartedOnce'
  <2> SUFFICES ASSUME NEW i \in Infos, info'[i].transcript_handler # "none",
                      info'[i].teardown # "done"
               PROVE  info'[i].call_id \in sessions'
    BY <1>5, <1>6 DEF StartedOnce
  <2>1. info[i].transcript_handler # "none" /\ info'[i].call_id = info[i].call_id
    BY <1>5, <1>6
  <2>2. CASE info'[k].teardown # "done"
    <3>1. UNCHANGED sessions
      BY <1>6, <2>2 DEF Reaches
    <3>2. info[i].teardown # "done"
      BY <1>6 DEF Reaches
    <3> QED
      BY <1>1, <2>1, <3>1, <3>2
  <2>3. CASE info'[k].teardown = "done"
    <3>1. i # k /\ sessions' = sessions \ {info[k].call_id}
      BY <1>6, <2>3 DEF Reaches
    <3>2. info[i].teardown # "done"
      BY <1>6, <3>1 DEF Reaches
    <3> QED
      BY <1>1, <1>2, <2>1, <3>1, <3>2
  <2> QED
    BY <2>2, <2>3
<1>7. CASE Quiet
  <2>1. SameCalls(info') /\ SameStages(info') /\ UNCHANGED sessions
    BY <1>7 DEF Quiet
  <2> QED
    BY <1>1, <1>5, <2>1 DEF SameStages, StartedOnce
<1>8. CASE \E a \in Addrs : handle_rtp_packet(a)
  BY <1>1, <1>8 DEF handle_rtp_packet, StartedOnce
<1>9. ASSUME NEW c \in CallIds, Begins(c) PROVE StartedOnce'
  <2>1. PICK k \in Infos : k = calls[c] /\ info[k].teardown = "none"
    BY <1>9 DEF Begins, TeardownInvariant, TypeOK, IsTracked
  <2> QED
    BY <1>6, <1>9, <2>1 DEF Begins
<1>10. ASSUME NEW k \in Infos, GoesOn(k) PROVE StartedOnce'
  BY <1>6, <1>10 DEF GoesOn
<1> QED
  BY <1>3, <1>4, <1>7, <1>8, <1>9, <1>10, StepEffect

LEMMA WaitingStep ==
    ASSUME "INVITE" \notin Repeated, TeardownInvariant, TrackedInvariant, WaitingInvariant,
           [Next]_vars
    PROVE  WaitingInvariant'
<1>1. info \in [Infos -> SIPCallInfo] /\ \A i \in Infos : Waits(info[i], i)
  BY DEF TeardownInvariant, TypeOK, WaitingInvariant
<1>2. AllWait'
  <2>1. ASSUME NEW c \in CallIds, NEW a \in Addrs \cup {None}, _handle_invite(c, a)
        PROVE  AllWait'
    <3>1. PICK new \in Infos : info'[new] = Fresh(c, a) /\ \A i \in Infos \ {new} : info'[i] = info[i]
      BY <2>1, InviteEffect
    <3>2. Waits(Fresh(c, a), new)
      BY NoneAssumption DEF Waits, Fresh, PacingAlive, Pacing
    <3> QED
      BY <1>1, <3>1, <3>2 DEF AllWait
  <2>2. ASSUME NEW c \in CallIds, calls[c] # None, StartAdkSession(c) PROVE AllWait'
    <3>1. PICK k \in Infos : k = calls[c] /\ IsTracked(info[k], c)
      BY <2>2 DEF TeardownInvariant, TypeOK
    <3>2. /\ info'[k].adk = "streaming" /\ info'[k].teardown = "none"
          /\ info'[k].by = info[k].by
          /\ \A j \in Infos \ {k} : info'[j] = info[j]
      BY <2>2, <3>1, StartEffect DEF IsTracked, SameStages
    <3>3. Waits(info'[k], k)
      BY <1>1, <3>2 DEF Waits
    <3> QED
      BY <1>1, <3>2, <3>3 DEF AllWait
  <2>3. ASSUME NEW c \in CallIds, calls[c] # None, NEW by \in {"handler", "stop"},
               Terminate(c, by, info)
        PROVE  AllWait'
    <3>1. PICK k \in Infos : k = calls[c] /\ IsTracked(info[k], c) /\ Sound(info[k], k)
      BY <2>3 DEF TeardownInvariant, TypeOK
    <3>2. info[k].adk # "terminating" /\ by \notin Infos
      BY <1>1, <3>1, NoneAssumption, InfosAssumption DEF Waits, Sound, IsTracked
    <3>3. info[k].end_call_requested => info[k].adk # "none"
      BY <1>1 DEF Waits
    <3> QED
      BY <1>1, <2>3, <3>1, <3>2, <3>3, TerminateWaits
  <2>4. CASE UNCHANGED info
    BY <1>1, <2>4 DEF AllWait
  <2>5. CASE Phone
    BY <2>1, <2>2, <2>3, <2>4, <2>5 DEF Phone, _handle_ack, _handle_bye, FailAdkSession,
                                       handle_rtp_packet
  <2>6. ASSUME NEW k \in Infos, Teardown(k) PROVE AllWait'
    <3>1. /\ info[k].teardown \in {"adk", "pacing"}
          /\ Awaits(info[k], k) # info[k].teardown /\ Proceed(k, info)
      BY <2>6 DEF Teardown
    <3>2. Sound(info[k], k)
      BY DEF TeardownInvariant
    <3>3. Awaits(info[k], k) # "adk"
      BY <3>1, <3>2 DEF Awaits, Sound
    <3>4. /\ info[k].by \in Infos \/ info[k].adk = "terminating" => info[k].by = k
          /\ info[k].end_call_requested => info[k].adk # "none"
      BY <1>1 DEF Waits
    <3> QED
      BY <1>1, <3>1, <3>3, <3>4, ProceedWaits
  <2>7. CASE \E i \in Infos : Teardown(i) \/ AdkTask(i) \/ PacingTask(i) \/ Stream(i)
                                \/ LostTasks(i)
    <3>1. ASSUME NEW i \in Infos, LostTasks(i) PROVE FALSE
      <4>1. info[i].earlier_tasks = "lost"
        BY <3>1, LostTasksAre
      <4> QED
        BY <4>1 DEF WaitingInvariant, StartedOnce
    <3> QED
      BY <2>6, <2>7, <3>1, AgentWaits, PacingWaits
  <2>8. CASE Stop
    BY <2>3, <2>4, <2>8 DEF Stop, stop, StopCall, Stopped
  <2> QED
    BY <2>4, <2>5, <2>7, <2>8 DEF Next, vars
<1>3. \A i, j \in Infos :
         info'[i].call_id = info'[j].call_id /\ info'[i].call_id # None => i = j
  <2>1. \A i, j \in Infos :
           info[i].call_id = info[j].call_id /\ info[i].call_id # None => i = j
    BY DEF WaitingInvariant
  <2>2. CASE \E c \in CallIds, a \in Addrs \cup {None} : _handle_invite(c, a)
    <3>1. PICK c \in CallIds, a \in Addrs \cup {None} : _handle_invite(c, a)
      BY <2>2
    <3>2. PICK new \in Infos : /\ info'[new] = Fresh(c, a)
                               /\ \A i \in Infos \ {new} : info'[i] = info[i]
                               /\ \A j \in Infos : info[j].call_id # c
      BY <3>1, InviteEffect
    <3>3. info'[new].call_id = c
      BY <3>2 DEF Fresh
    <3> QED
      BY <2>1, <3>2, <3>3
  <2>3. CASE SamePhones(info')
    BY <2>1, <2>3 DEF SamePhones, SamePhone
  <2>4. CASE UNCHANGED info
    BY <2>1, <2>4
  <2> QED
    BY <2>2, <2>3, <2>4, StepEffect, StartEffect, CallsArePhones
       DEF handle_rtp_packet, Quiet, Begins, GoesOn
<1>4. StartedOnce'
  BY StartedOnceStep
<1> QED
  BY <1>2, <1>3, <1>4 DEF WaitingInvariant, AllWait

LEMMA WaitingAlways ==
    ASSUME "INVITE" \notin Repeated
    PROVE  Spec => [](TeardownInvariant /\ WaitingInvariant)
<1>1. Init => WaitingInvariant
  <2> SUFFICES ASSUME Init PROVE WaitingInvariant
    OBVIOUS
  <2>1. \A i \in Infos : info[i] = Fresh(None, None)
    BY DEF Init
  <2>2. \A i \in Infos : Waits(Fresh(None, None), i) /\ Fresh(None, None).call_id = None
    BY NoneAssumption DEF Waits, Fresh, PacingAlive, Pacing
  <2>3. StartedOnce
    BY <2>1 DEF StartedOnce, Fresh
  <2> QED
    BY <2>1, <2>2, <2>3 DEF WaitingInvariant
<1>2. TeardownInvariant /\ TrackedInvariant /\ WaitingInvariant /\ [Next]_vars => WaitingInvariant'
  BY WaitingStep
<1> QED
  BY <1>1, <1>2, TrackedAlways, PTL DEF Spec

\* A task of an info that calls no longer names would stream to a phone with no BYE to stop
\* it: there is none as long as every INVITE opens a dialog of its own
\* (sip_udp/server.py:289, 490-491, 861).
THEOREM RunningTasksAreTracked ==
    ASSUME "INVITE" \notin Repeated
    PROVE  Spec => []TasksAreTracked
<1>1. TeardownInvariant /\ TrackedInvariant /\ WaitingInvariant => TasksAreTracked
  <2> SUFFICES ASSUME TeardownInvariant, TrackedInvariant, WaitingInvariant, NEW i \in Infos,
                      info[i].adk \in Running \/ info[i].pacing \in Pacing
               PROVE  \/ calls[info[i].call_id] = i
                      \/ info[i].teardown \in {"adk", "pacing"}
    BY DEF TasksAreTracked
  <2>1. info[i] \in SIPCallInfo /\ Sound(info[i], i) /\ info[i].call_id # None
    BY TaskFacts
  <2>2. info[i].earlier_tasks = "none"
    BY DEF WaitingInvariant, StartedOnce
  <2>3. info[i].teardown \in {"none", "adk", "pacing"}
    BY <2>1, <2>2 DEF Sound, SIPCallInfo
  <2> QED
    BY <2>1, <2>3 DEF TrackedInvariant
<1> QED
  BY <1>1, TrackedAlways, WaitingAlways, PTL

\* What a teardown waits for has been cancelled, or runs no more: no chain of teardowns and
\* tasks waits for itself, however hang-ups, stop() and the agent's own end cross
\* (sip_udp/server.py:859-937).
THEOREM NoTeardownIsStuck ==
    ASSUME "INVITE" \notin Repeated
    PROVE  Spec => []TeardownsGoOn
<1>1. TeardownInvariant /\ WaitingInvariant => TeardownsGoOn
  <2> SUFFICES ASSUME TeardownInvariant, WaitingInvariant, NEW k \in Infos,
                      info[k].teardown \in {"adk", "pacing"},
                      Awaits(info[k], k) = info[k].teardown
               PROVE  \/ info[k].adk \in {"streaming", "reconnecting"} /\ info[k].cancelled
                      \/ info[k].adk = "draining" /\ ~PacingAlive(info[k])
                      \/ PacingAlive(info[k]) /\ info[k].pacingCancelled
    BY DEF TeardownsGoOn
  <2>1. info[k] \in SIPCallInfo /\ Sound(info[k], k) /\ Waits(info[k], k)
    BY DEF TeardownInvariant, TypeOK, WaitingInvariant
  <2>2. CASE info[k].teardown = "pacing"
    BY <2>1, <2>2 DEF Awaits, Waits
  <2>3. CASE info[k].teardown = "adk"
    <3>1. info[k].adk \in {"streaming", "reconnecting", "draining"}
      BY <2>1, <2>3 DEF Awaits, Waits, Running
    <3>2. info[k].adk \in {"streaming", "reconnecting"} => info[k].cancelled
      BY <2>1, <2>3 DEF Sound, Awaits
    <3>3. info[k].adk = "draining" /\ PacingAlive(info[k]) => info[k].pacingCancelled
      BY <2>1, <2>3 DEF Waits
    <3> QED
      BY <3>1, <3>2, <3>3
  <2> QED
    BY <2>2, <2>3
<1> QED
  BY <1>1, WaitingAlways, PTL

\* An agent that was asked to end the call, or whose stream fails for good, does not leave
\* it tracked with nobody to tear it down, if it ends before the phone says BYE
\* (sip_udp/server.py:692-705, 732-745).
THEOREM EndedCallsAreNotForgotten ==
    ASSUME "INVITE" \notin Repeated
    PROVE  Spec => []EndedCallsGoOn
<1>1. TeardownInvariant /\ WaitingInvariant => EndedCallsGoOn
  <2> SUFFICES ASSUME TeardownInvariant, WaitingInvariant, NEW i \in Infos,
                      info[i].end_call_requested, info[i].teardown = "none"
               PROVE  info[i].adk \in {"streaming", "reconnecting", "draining"}
    BY DEF EndedCallsGoOn
  <2>1. info[i] \in SIPCallInfo /\ Sound(info[i], i) /\ Waits(info[i], i)
    BY DEF TeardownInvariant, TypeOK, WaitingInvariant
  <2>2. info[i].adk # "none" /\ info[i].adk # "done"
    BY <2>1 DEF Waits
  <2>3. info[i].adk # "terminating"
    BY <2>1, NoneAssumption DEF Sound, Waits
  <2> QED
    BY <2>1, <2>2, <2>3 DEF SIPCallInfo, Running
<1> QED
  BY <1>1, WaitingAlways, PTL

=============================================================================
