--------------------------- MODULE ExamPageProofs ---------------------------
(***************************************************************************)
(* Proofs about ExamPage: the page drives the engine through steps of the  *)
(* engine only, so that whatever is proved of Exam holds around the page,  *)
(* and of that follows why a student may be disqualified.                  *)
(***************************************************************************)
EXTENDS ExamPage, ExamProofs

-----------------------------------------------------------------------------
(* The engine within.                                                      *)

LEMMA EngineStep == PageNext => [Next]_vars
<1> SUFFICES ASSUME PageNext PROVE Next \/ UNCHANGED vars
  OBVIOUS
<1> USE PageAssumption
<1>1. CASE Creator
  BY <1>1 DEF Creator, Next, Teacher
<1>2. CASE Student
  BY <1>2 DEF Student, load, handleStart, onClose, Reload, setAnswers, TimeIsUp, Return, Leave,
     handleSubmit, AutoSubmit, SubmitAnswered, onCopy, CountdownExpires, ReportAnswered
<1>3. ASSUME NEW r \in Reqs, Arrives(r) PROVE Next
  BY <1>3 DEF Arrives, Next, Client
<1>4. ASSUME NEW r \in Reqs, Refused(r) \/ Lost(r) PROVE UNCHANGED vars
  BY <1>4 DEF Refused, Lost
<1>5. ASSUME NEW r \in Reqs, Serves(r) PROVE Next
  BY <1>5 DEF Serves, Handler, Next, Server
<1>6. ASSUME NEW r \in Reqs, Fails(r) PROVE Next
  BY <1>6 DEF Fails, Next
<1> QED BY <1>1, <1>2, <1>3, <1>4, <1>5, <1>6 DEF PageNext, Engine

\* The exam engine around which the page runs is the exam engine: every step of the page is a
\* step of Exam or changes nothing of it.
THEOREM PageRunsTheEngine == PageSpec => Spec
<1>1. PageInit => Init
  BY DEF PageInit
<1>2. [PageNext]_pageVars => [Next]_vars
  <2>1. UNCHANGED pageVars => UNCHANGED vars
    BY DEF pageVars, vars
  <2> QED BY <2>1, EngineStep
<1> QED BY <1>1, <1>2, PTL DEF PageSpec, Spec

-----------------------------------------------------------------------------
(* Types                                                                   *)

LEMMA ViewType ==
    ASSUME TypeOK
    PROVE  View(exam) \in Exams
<1>1. /\ exam.status \in Statuses /\ exam.window \in Windows
      /\ exam.maxAttempts \in Nat \ {0} /\ exam.autoFailOnCheat \in BOOLEAN
      /\ exam.studentAttempts[Me] \in Attempt
  BY PageAssumption DEF TypeOK, Row
<1>2. computeStatus(exam) \in Statuses
  BY <1>1 DEF computeStatus, WindowStatus, Statuses, Windows
<1> QED BY <1>1, <1>2 DEF View, Exams, usedAttempts, Attempt

LEMMA ClosedType == Closed \in Modal
BY DEF Closed, Modal

LEMMA NoCallType == NoCall \in Call
BY DEF NoCall, Call

LEMMA SentType ==
    ASSUME NEW op \in {"submit", "flag", "force"}
    PROVE  Sent(op) \in Call
BY DEF Sent, Call

LEMMA PageTypeInit == PageInit => PageTypeOK
<1> SUFFICES ASSUME PageInit PROVE PageTypeOK
  OBVIOUS
<1>1. listed \in Exams \cup {None} /\ away \in BOOLEAN /\ overstayed \in BOOLEAN
  BY DEF PageInit
<1>2. modal \in Modal
  BY ClosedType DEF PageInit
<1>3. call \in [Reqs -> Call]
  BY NoCallType DEF PageInit
<1>4. incidents \in 0 .. MaxIncidents /\ failures \in 0 .. MaxFailures
  BY PageAssumption DEF PageInit
<1> QED BY <1>1, <1>2, <1>3, <1>4 DEF PageTypeOK

\* A change of one flag of the modal leaves a modal.
LEMMA ModalType ==
    ASSUME NEW m \in Modal, NEW b \in BOOLEAN
    PROVE  /\ [m EXCEPT !.due = b] \in Modal /\ [m EXCEPT !.submitRef = b] \in Modal
           /\ [m EXCEPT !.autoFailed = b] \in Modal /\ [m EXCEPT !.submitting = b] \in Modal
           /\ [m EXCEPT !.submitError = b] \in Modal /\ [m EXCEPT !.lost = b] \in Modal
           /\ [m EXCEPT !.countdown = b] \in Modal
BY DEF Modal

LEMMA OrphanedType ==
    ASSUME NEW calls \in [Reqs -> Call]
    PROVE  Orphaned(calls) \in [Reqs -> Call]
BY DEF Orphaned, Call

LEMMA PageTypeStep == TypeOK /\ PageTypeOK /\ [PageNext]_pageVars => PageTypeOK'
<1> SUFFICES ASSUME TypeOK, PageTypeOK, [PageNext]_pageVars PROVE PageTypeOK'
  OBVIOUS
<1> USE PageAssumption DEF page, pageVars
<1>0. /\ listed \in Exams \cup {None} /\ modal \in Modal /\ away \in BOOLEAN
      /\ overstayed \in BOOLEAN /\ call \in [Reqs -> Call]
      /\ incidents \in 0 .. MaxIncidents /\ failures \in 0 .. MaxFailures
  BY DEF PageTypeOK
<1>1. CASE UNCHANGED pageVars
  BY <1>1 DEF PageTypeOK
<1>2. CASE Creator
  BY <1>2 DEF Creator, PageTypeOK
<1>3. ASSUME NEW r \in Reqs, Engine(r) PROVE PageTypeOK'
  <2>1. UNCHANGED <<listed, away, incidents, overstayed>>
    BY <1>3 DEF Engine, Arrives, Refused, Serves, Fails, Lost
  <2>2. failures' \in 0 .. MaxFailures
    BY <1>0, <1>3 DEF Engine, Arrives, Refused, Serves, Fails, Lost
  <2>3. \/ call' = call \/ call' = [call EXCEPT ![r] = NoCall]
        \/ \E at \in {"served", "ok", "autoFailed", "refused"} : call' = [call EXCEPT ![r].at = at]
    BY <1>3 DEF Engine, Arrives, Refused, Serves, Fails, Lost, Answer, At
  <2>4. call' \in [Reqs -> Call]
    <3>1. \A at \in {"served", "ok", "autoFailed", "refused"} : [call[r] EXCEPT !.at = at] \in Call
      BY <1>0 DEF Call
    <3> QED BY <1>0, <2>3, <3>1, NoCallType
  <2>5. modal' \in Modal
    <3>1. CASE Lost(r)
      <4> DEFINE b == modal.lost \/ (call[r].op = "submit" /\ call[r].mine)
      <4>1. b \in BOOLEAN
        OBVIOUS
      <4>2. modal' = [modal EXCEPT !.lost = b]
        BY <3>1 DEF Lost
      <4> QED
        <5> HIDE DEF b
        <5> QED BY <1>0, <4>1, <4>2, ModalType
    <3>2. CASE ~Lost(r)
      BY <1>0, <1>3, <3>2 DEF Engine, Arrives, Refused, Serves, Fails
    <3> QED BY <3>1, <3>2
  <2> QED BY <1>0, <2>1, <2>2, <2>4, <2>5 DEF PageTypeOK
<1>4. CASE load
  BY <1>0, <1>4, ViewType DEF load, PageTypeOK
<1>5. CASE handleStart
  <2>1. modal' = [Closed EXCEPT !.exam = listed, !.due = listed.window = "closed"]
        /\ UNCHANGED <<listed, away, call, incidents, overstayed, failures>> /\ listed \in Exams
    BY <1>0, <1>5 DEF handleStart
  <2>2. modal' \in Modal
    <3>1. [Closed EXCEPT !.exam = listed] \in Modal
      BY <2>1 DEF Closed, Modal
    <3>2. (listed.window = "closed") \in BOOLEAN
      OBVIOUS
    <3> QED BY <2>1, <3>1, <3>2, ModalType
  <2> QED BY <1>0, <2>1, <2>2 DEF PageTypeOK
<1>6. CASE onClose
  BY <1>0, <1>6, ClosedType, OrphanedType DEF onClose, PageTypeOK
<1>7. CASE Reload
  BY <1>0, <1>7, ClosedType, NoCallType DEF Reload, PageTypeOK
<1>8. CASE setAnswers \/ TimeIsUp
  BY <1>0, <1>8, ModalType DEF setAnswers, TimeIsUp, PageTypeOK
<1>9. CASE Return
  BY <1>0, <1>9, ModalType DEF Return, PageTypeOK
<1>10. ASSUME NEW r1 \in Reqs, NEW r2 \in Reqs, Leave(r1, r2) PROVE PageTypeOK'
  <2>1. modal' \in Modal
    <3> DEFINE b == modal.countdown \/ ~modal.submitRef
    <3>1. b \in BOOLEAN
      OBVIOUS
    <3>2. modal' = [modal EXCEPT !.countdown = b]
      BY <1>10 DEF Leave, Counting
    <3> QED
      <4> HIDE DEF b
      <4> QED BY <1>0, <3>1, <3>2, ModalType
  <2>2. call' \in [Reqs -> Call] /\ incidents' \in 0 .. MaxIncidents /\ away' \in BOOLEAN
    BY <1>0, <1>10, SentType DEF Leave, Incident
  <2> QED BY <1>0, <1>10, <2>1, <2>2 DEF Leave, PageTypeOK
<1>11. ASSUME NEW r \in Reqs, handleSubmit(r) \/ AutoSubmit(r) PROVE PageTypeOK'
  <2>1. Submitting \in Modal
    BY <1>0 DEF Submitting, Modal
  <2>2. [Submitting EXCEPT !.submitRef = TRUE] \in Modal
    BY <2>1, ModalType
  <2>3. call' = [call EXCEPT ![r] = Sent("submit")]
    BY <1>11 DEF handleSubmit, AutoSubmit, Send
  <2>4. modal' \in Modal
    BY <1>11, <2>1, <2>2 DEF handleSubmit, AutoSubmit
  <2>5. call' \in [Reqs -> Call]
    BY <1>0, <2>3, SentType
  <2> QED BY <1>0, <1>11, <2>4, <2>5 DEF handleSubmit, AutoSubmit, PageTypeOK
<1>12. ASSUME NEW r \in Reqs, onCopy(r) PROVE PageTypeOK'
  <2>1. call' \in [Reqs -> Call] /\ incidents' \in 0 .. MaxIncidents
    BY <1>0, <1>12, SentType DEF onCopy, Send, Incident
  <2> QED BY <1>0, <1>12, <2>1 DEF onCopy, PageTypeOK
<1>13. ASSUME NEW r \in Reqs, CountdownExpires(r) PROVE PageTypeOK'
  <2>1. overstayed' \in BOOLEAN
    BY <1>13 DEF CountdownExpires
  <2>2. [modal EXCEPT !.countdown = FALSE] \in Modal
        /\ [modal EXCEPT !.countdown = FALSE, !.submitRef = TRUE, !.autoFailed = TRUE] \in Modal
    BY <1>0 DEF Modal
  <2>3. modal' \in Modal
    BY <1>13, <2>2 DEF CountdownExpires
  <2>4. call' \in [Reqs -> Call]
    BY <1>0, <1>13, SentType DEF CountdownExpires, Send
  <2> QED BY <1>0, <1>13, <2>1, <2>3, <2>4 DEF CountdownExpires, PageTypeOK
<1>14. ASSUME NEW r \in Reqs, SubmitAnswered(r) PROVE PageTypeOK'
  <2>1. [call EXCEPT ![r] = NoCall] \in [Reqs -> Call]
    BY <1>0, NoCallType
  <2>2. call' \in [Reqs -> Call]
    BY <1>14, <2>1, OrphanedType DEF SubmitAnswered
  <2>3. [modal EXCEPT !.submitting = FALSE, !.submitError = TRUE] \in Modal
    BY <1>0 DEF Modal
  <2>4. modal' \in Modal
    BY <1>0, <1>14, <2>3, ClosedType DEF SubmitAnswered
  <2> QED BY <1>0, <1>14, <2>2, <2>4 DEF SubmitAnswered, PageTypeOK
<1>15. ASSUME NEW r \in Reqs, ReportAnswered(r) PROVE PageTypeOK'
  <2>1. [modal EXCEPT !.submitRef = TRUE, !.autoFailed = TRUE] \in Modal
    BY <1>0 DEF Modal
  <2>2. modal' \in Modal
    BY <1>0, <1>15, <2>1 DEF ReportAnswered
  <2>3. call' \in [Reqs -> Call]
    BY <1>0, <1>15, NoCallType DEF ReportAnswered
  <2> QED BY <1>0, <1>15, <2>2, <2>3 DEF ReportAnswered, PageTypeOK
<1> QED BY <1>1, <1>2, <1>3, <1>4, <1>5, <1>6, <1>7, <1>8, <1>9, <1>10, <1>11, <1>12, <1>13, <1>14,
           <1>15 DEF PageNext, Student

-----------------------------------------------------------------------------
(* Calls and the requests that serve them                                  *)

\* What a request in a slot may become, by its operation.
HandlersOf(op) ==
    CASE op = "submit" -> {"submit"}
      [] op = "flag"   -> {"flag", "flagNotify", "flagWrite"}
      [] op = "force"  -> {"force", "forceNotify"}
      [] OTHER         -> {}

\* The requests are the student's own, and a call that is served has its handler in its slot.
CallsMatch ==
    \A r \in Reqs :
       /\ req[r].op \in {"idle", "submit", "flag", "flagNotify", "flagWrite", "force", "forceNotify"}
       /\ req[r].op # "idle" => req[r].student = Me
       /\ call[r].at = "autoFailed" => call[r].op = "flag"
       /\ call[r].at = "served" => req[r].op \in HandlersOf(call[r].op)

\* A handler of the engine ends, or goes on with its next step.
LEMMA HandlerStep ==
    ASSUME TypeOK, NEW r \in Reqs, Handler(r)
    PROVE  \E next : /\ req' = [req EXCEPT ![r] = next]
                     /\ \/ next = NoReq
                        \/ next.op # "idle" /\ next.student = req[r].student
                     /\ \/ next = NoReq /\ req[r].op \in {"submit", "forceNotify", "flagNotify", "flagWrite"}
                        \/ req[r].op = "flag" /\ next.op \in {"flagNotify", "flagWrite"}
                        \/ req[r].op = "force" /\ next.op = "forceNotify"
<1> req[r] \in Request
  BY DEF TypeOK
<1>1. CASE SubmitWrite(r) \/ ForceNotify(r) \/ FlagNotify(r) \/ FlagWrite(r)
  <2> WITNESS NoReq
  <2> QED BY <1>1 DEF SubmitWrite, ForceNotify, FlagNotify, FlagWrite, Resume
<1>2. CASE ForceWrite(r)
  <2> WITNESS [op |-> "forceNotify", student |-> req[r].student]
  <2> QED BY <1>2 DEF ForceWrite, Resume
<1>3. CASE FlagAutoFail(r)
  <2> WITNESS [op |-> "flagNotify", student |-> req[r].student, flag |-> req[r].flag]
  <2> QED BY <1>3 DEF FlagAutoFail, Resume
<1>4. CASE FlagAlert(r)
  <2>1. /\ req[r].op = "flag" /\ req' = [req EXCEPT ![r] = [req[r] EXCEPT !.op = "flagWrite"]]
    BY <1>4 DEF FlagAlert, Resume
  <2>2. /\ [req[r] EXCEPT !.op = "flagWrite"].op = "flagWrite"
        /\ [req[r] EXCEPT !.op = "flagWrite"].student = req[r].student
    BY <2>1 DEF Request
  <2> WITNESS [req[r] EXCEPT !.op = "flagWrite"]
  <2> QED BY <2>1, <2>2
<1> QED BY <1>1, <1>2, <1>3, <1>4 DEF Handler

LEMMA ArrivesStep ==
    ASSUME NEW r \in Reqs, Arrives(r)
    PROVE  \E next : /\ req[r] = NoReq /\ req' = [req EXCEPT ![r] = next]
                     /\ next.op = call[r].op /\ next.student = Me
                     /\ call[r].op \in {"submit", "flag", "force"}
                     /\ call[r].at = "sent" /\ call' = [call EXCEPT ![r].at = "served"]
<1>0. call[r].at = "sent" /\ call' = [call EXCEPT ![r].at = "served"]
  BY DEF Arrives, At
<1>1. CASE call[r].op = "submit" /\ submitExam(r, Me)
  <2>1. PICK answers \in AnswerSheets :
           Start(r, [op |-> "submit", student |-> Me, answers |-> answers, seen |-> exam])
    BY <1>1 DEF submitExam
  <2> WITNESS [op |-> "submit", student |-> Me, answers |-> answers, seen |-> exam]
  <2> QED BY <1>0, <1>1, <2>1 DEF Start
<1>2. CASE call[r].op = "flag" /\ reportIntegrityFlag(r, Me)
  <2>1. PICK type \in Violations : Start(r, flagRequest(Me, type, started))
    BY <1>2 DEF reportIntegrityFlag
  <2>2. flagRequest(Me, type, started).op = "flag" /\ flagRequest(Me, type, started).student = Me
    BY DEF flagRequest
  <2> WITNESS flagRequest(Me, type, started)
  <2> QED BY <1>0, <1>2, <2>1, <2>2 DEF Start
<1>3. CASE call[r].op = "force" /\ forceAutoFail(r, Me)
  <2> WITNESS [op |-> "force", student |-> Me, seen |-> exam]
  <2> QED BY <1>0, <1>3 DEF forceAutoFail, Start
<1> QED BY <1>1, <1>2, <1>3 DEF Arrives

\* What a call of the student becomes: it is kept, dropped, or sent from a free slot.
CallKept(s) == call'[s].at = call[s].at /\ call'[s].op = call[s].op
CallSent(s) ==
    /\ call[s] = NoCall /\ req[s] = NoReq /\ call'[s].at = "sent" /\ call'[s].mine
    /\ call'[s].op \in {"submit", "flag", "force"}
CallDropped(s) == call'[s].at = "done" /\ call'[s].op = "none"

LEMMA StudentCalls ==
    ASSUME Student, PageTypeOK
    PROVE  /\ UNCHANGED vars
           /\ \A s \in Reqs : CallKept(s) \/ CallDropped(s) \/ CallSent(s)
<1> USE DEF CallKept, CallSent, CallDropped
<1>0. call \in [Reqs -> Call]
  BY DEF PageTypeOK
<1>1. CASE load \/ handleStart \/ Reload \/ setAnswers \/ TimeIsUp \/ Return
  BY <1>0, <1>1 DEF load, handleStart, Reload, setAnswers, TimeIsUp, Return, NoCall
<1>2. ASSUME NEW calls \in [Reqs -> Call], NEW s \in Reqs
      PROVE  Orphaned(calls)[s].at = calls[s].at /\ Orphaned(calls)[s].op = calls[s].op
  BY <1>2 DEF Orphaned, Call
<1>3. CASE onClose
  BY <1>0, <1>2, <1>3 DEF onClose
<1>4. ASSUME NEW r1 \in Reqs, NEW r2 \in Reqs, Leave(r1, r2)
      PROVE  UNCHANGED vars /\ \A s \in Reqs : CallKept(s) \/ CallSent(s)
  BY <1>0, <1>4 DEF Leave, Sent, Free
<1>5. ASSUME NEW r \in Reqs, handleSubmit(r) \/ AutoSubmit(r) \/ onCopy(r) \/ CountdownExpires(r)
      PROVE  UNCHANGED vars /\ \A s \in Reqs : CallKept(s) \/ CallSent(s)
  <2>1. UNCHANGED vars
    BY <1>5 DEF handleSubmit, AutoSubmit, onCopy, CountdownExpires
  <2>2. \/ call' = call
        \/ /\ call[r] = NoCall /\ req[r] = NoReq
           /\ \E op \in {"submit", "flag", "force"} : call' = [call EXCEPT ![r] = Sent(op)]
    BY <1>5 DEF handleSubmit, AutoSubmit, onCopy, CountdownExpires, Send, Free
  <2> QED BY <1>0, <2>1, <2>2 DEF Sent
<1>6. ASSUME NEW r \in Reqs, SubmitAnswered(r) \/ ReportAnswered(r)
      PROVE  UNCHANGED vars /\ \A s \in Reqs : CallKept(s) \/ CallDropped(s)
  <2>1. UNCHANGED vars
    BY <1>6 DEF SubmitAnswered, ReportAnswered
  <2> DEFINE freed == [call EXCEPT ![r] = NoCall]
  <2>2. freed \in [Reqs -> Call]
    BY <1>0, NoCallType
  <2>3. call' = freed \/ call' = Orphaned(freed)
    BY <1>6 DEF SubmitAnswered, ReportAnswered
  <2>4. \A s \in Reqs : (freed[s].at = call[s].at /\ freed[s].op = call[s].op)
                        \/ (freed[s].at = "done" /\ freed[s].op = "none")
    BY <1>0 DEF NoCall
  <2> HIDE DEF freed
  <2>5. \A s \in Reqs : call'[s].at = freed[s].at /\ call'[s].op = freed[s].op
    BY <1>2, <2>2, <2>3
  <2> QED BY <2>1, <2>4, <2>5
<1> QED BY <1>1, <1>3, <1>4, <1>5, <1>6 DEF Student

LEMMA CallsMatchInit == PageInit => CallsMatch
BY PageAssumption DEF PageInit, Init, CallsMatch, NoReq, NoCall

LEMMA CallsMatchStep == TypeOK /\ PageTypeOK /\ CallsMatch /\ [PageNext]_pageVars => CallsMatch'
<1> SUFFICES ASSUME TypeOK, PageTypeOK, CallsMatch, [PageNext]_pageVars PROVE CallsMatch'
  OBVIOUS
<1>0. call \in [Reqs -> Call] /\ req \in [Reqs -> Request]
  BY DEF PageTypeOK, TypeOK
<1> DEFINE Match(c, q) ==
              /\ q.op \in {"idle", "submit", "flag", "flagNotify", "flagWrite", "force", "forceNotify"}
              /\ q.op # "idle" => q.student = Me
              /\ c.at = "autoFailed" => c.op = "flag"
              /\ c.at = "served" => q.op \in HandlersOf(c.op)
<1>1. ASSUME NEW r \in Reqs PROVE Match(call[r], req[r])
  BY DEF CallsMatch
<1>2. SUFFICES ASSUME NEW r \in Reqs PROVE Match(call'[r], req'[r])
  BY <1>2 DEF CallsMatch
<1>3. CASE UNCHANGED <<call, req>>
  BY <1>1, <1>3
<1>4. CASE Creator \/ UNCHANGED pageVars
  BY <1>3, <1>4 DEF Creator, update, remove, Tick, pageVars, vars
<1>5. CASE Student
  <2>1. UNCHANGED vars /\ (CallKept(r) \/ CallDropped(r) \/ CallSent(r))
    BY <1>5, StudentCalls
  <2>2. req'[r] = req[r]
    BY <2>1 DEF vars
  <2> QED BY <1>1, <2>1, <2>2 DEF CallKept, CallDropped, CallSent
<1>6. ASSUME NEW s \in Reqs, Engine(s) PROVE Match(call'[r], req'[r])
  <2>1. CASE r # s
    <3>1. call'[r] = call[r]
      BY <1>0, <1>6, <2>1 DEF Engine, Arrives, Refused, Serves, Fails, Lost, Answer, At
    <3>2. req'[r] = req[r]
      <4>1. CASE Arrives(s)
        BY <1>0, <2>1, <4>1, ArrivesStep
      <4>2. CASE Refused(s) \/ Lost(s)
        BY <4>2 DEF Refused, Lost, vars
      <4>3. CASE Serves(s)
        BY <1>0, <2>1, <4>3, HandlerStep DEF Serves
      <4>4. CASE Fails(s)
        BY <1>0, <2>1, <4>4 DEF Fails, Abort
      <4> QED BY <1>6, <4>1, <4>2, <4>3, <4>4 DEF Engine
    <3> QED BY <1>1, <3>1, <3>2
  <2>2. CASE r = s
    <3>1. CASE Arrives(r)
      <4>1. PICK next : /\ req' = [req EXCEPT ![r] = next]
                        /\ next.op = call[r].op /\ next.student = Me
                        /\ call[r].op \in {"submit", "flag", "force"}
                        /\ call[r].at = "sent" /\ call' = [call EXCEPT ![r].at = "served"]
        BY <3>1, ArrivesStep
      <4>2. req'[r] = next /\ call'[r].at = "served" /\ call'[r].op = call[r].op
        BY <1>0, <4>1 DEF Call
      <4> QED BY <4>1, <4>2 DEF HandlersOf
    <3>2. CASE Refused(r)
      <4>1. call'[r] = NoCall \/ (call'[r].at = "refused" /\ call'[r].op = call[r].op)
        BY <1>0, <3>2 DEF Refused, Answer, At, Call
      <4>2. req'[r] = req[r]
        BY <3>2 DEF Refused, vars
      <4> QED BY <1>1, <4>1, <4>2 DEF NoCall
    <3>3. CASE Lost(r)
      <4>1. call'[r] = NoCall /\ req'[r] = req[r]
        BY <1>0, <3>3 DEF Lost, vars
      <4> QED BY <1>1, <4>1 DEF NoCall
    <3>4. CASE Fails(r)
      <4>1. /\ req'[r] = NoReq
            /\ call'[r].at # "autoFailed" \/ (call'[r] = call[r] /\ call'[r].at # "served")
        BY <1>0, <3>4 DEF Fails, Abort, Answer, At, NoCall, Call
      <4>2. call'[r].at # "served"
        BY <1>0, <3>4 DEF Fails, Answer, At, NoCall, Call
      <4> QED BY <1>1, <4>1, <4>2 DEF NoReq
    <3>5. CASE Serves(r)
      <4>1. Handler(r)
        BY <3>5 DEF Serves
      <4>2. PICK next : /\ req' = [req EXCEPT ![r] = next]
                        /\ \/ next = NoReq
                           \/ next.op # "idle" /\ next.student = req[r].student
                        /\ \/ next = NoReq /\ req[r].op \in {"submit", "forceNotify", "flagNotify", "flagWrite"}
                           \/ req[r].op = "flag" /\ next.op \in {"flagNotify", "flagWrite"}
                           \/ req[r].op = "force" /\ next.op = "forceNotify"
        BY <4>1, HandlerStep
      <4>3. req'[r] = next
        BY <1>0, <4>2
      <4>4. CASE next = NoReq
        <5>1. call'[r].at # "served"
          BY <1>0, <3>5, <4>3, <4>4 DEF Serves, Answer, At, Call, NoCall
        <5>2. call'[r].at = "autoFailed" => call'[r].op = "flag"
          <6>1. CASE call[r].at = "served"
            <7>1. \/ call'[r] = NoCall \/ call'[r].at = "ok"
                  \/ req[r].op = "flagNotify" /\ call'[r].op = call[r].op
              BY <1>0, <3>5, <4>3, <4>4, <6>1 DEF Serves, Answer, At, Call
            <7>2. req[r].op = "flagNotify" => call[r].op = "flag"
              BY <1>1, <6>1 DEF HandlersOf
            <7> QED BY <7>1, <7>2 DEF NoCall
          <6>2. CASE call[r].at # "served"
            BY <1>1, <3>5, <6>2 DEF Serves
          <6> QED BY <6>1, <6>2
        <5> QED BY <4>3, <4>4, <5>1, <5>2 DEF NoReq
      <4>5. CASE next # NoReq
        <5>1. call' = call
          BY <3>5, <4>3, <4>5 DEF Serves
        <5>2. next.op # "idle" /\ next.student = Me
          BY <1>1, <4>2, <4>5
        <5>3. call[r].at = "served" => next.op \in HandlersOf(call[r].op)
          BY <1>1, <4>2, <4>5 DEF HandlersOf
        <5>4. next.op \in {"flagNotify", "flagWrite", "forceNotify"}
          BY <4>2, <4>5
        <5> QED BY <1>1, <4>3, <5>1, <5>2, <5>3, <5>4
      <4> QED BY <4>4, <4>5
    <3> QED BY <1>6, <2>2, <3>1, <3>2, <3>3, <3>4, <3>5 DEF Engine
  <2> QED BY <2>1, <2>2
<1> QED BY <1>4, <1>5, <1>6 DEF PageNext

-----------------------------------------------------------------------------
(* What the page waits for                                                 *)

\* A submission that is under way stays under way through a step that keeps its operation and owner.
LEMMA StillInFlight ==
    ASSUME InFlight("submit"),
           \A r \in Reqs : call[r].op = "submit" /\ call[r].mine =>
              call'[r].op = "submit" /\ call'[r].mine
    PROVE  InFlight("submit")'
BY DEF InFlight

LEMMA ForgottenStep ==
    PageTypeOK /\ CallsMatch /\ NothingIsForgotten /\ [PageNext]_pageVars => NothingIsForgotten'
<1> SUFFICES ASSUME PageTypeOK, CallsMatch, NothingIsForgotten, [PageNext]_pageVars
             PROVE  NothingIsForgotten'
  OBVIOUS
<1> USE DEF page, pageVars
<1>0. modal \in Modal /\ call \in [Reqs -> Call]
  BY DEF PageTypeOK
<1>1. ASSUME modal' = modal,
             \A r \in Reqs : call[r].op = "submit" /\ call[r].mine =>
                call'[r].op = "submit" /\ call'[r].mine
      PROVE  NothingIsForgotten'
  BY <1>1, StillInFlight DEF NothingIsForgotten
<1>2. ASSUME UNCHANGED <<modal, call>> PROVE NothingIsForgotten'
  BY <1>1, <1>2
<1>3. CASE Creator \/ load \/ UNCHANGED pageVars
  BY <1>2, <1>3 DEF Creator, load
<1>4. ASSUME NEW r \in Reqs, Engine(r) PROVE NothingIsForgotten'
  <2>1. CASE Lost(r)
    <3>1. CASE call[r].op = "submit" /\ call[r].mine
      <4>1. modal' = [modal EXCEPT !.lost = TRUE]
        BY <2>1, <3>1 DEF Lost
      <4> QED BY <1>0, <4>1 DEF NothingIsForgotten, Modal
    <3>2. CASE ~(call[r].op = "submit" /\ call[r].mine)
      <4>1. modal' = [modal EXCEPT !.lost = modal.lost \/ (call[r].op = "submit" /\ call[r].mine)]
        BY <2>1 DEF Lost
      <4>2. (modal.lost \/ (call[r].op = "submit" /\ call[r].mine)) = modal.lost
        BY <1>0, <3>2 DEF Modal
      <4>5. modal' = [modal EXCEPT !.lost = modal.lost]
        BY <4>1, <4>2
      <4>4. modal' = modal
        BY <1>0, <4>5 DEF Modal
      <4>3. call' = [call EXCEPT ![r] = NoCall]
        BY <2>1 DEF Lost
      <4> QED BY <1>0, <1>1, <3>2, <4>3, <4>4
    <3> QED BY <3>1, <3>2
  <2>2. CASE ~Lost(r)
    <3>1. modal' = modal
      BY <1>4, <2>2 DEF Engine, Arrives, Refused, Serves, Fails
    <3>2. \/ call' = call \/ (call' = [call EXCEPT ![r] = NoCall] /\ call[r].op # "submit")
          \/ \E at \in {"served", "ok", "autoFailed", "refused"} : call' = [call EXCEPT ![r].at = at]
      BY <1>4, <2>2 DEF Engine, Arrives, Refused, Serves, Fails, Answer, At
    <3>3. \A s \in Reqs : call[s].op = "submit" /\ call[s].mine =>
             call'[s].op = "submit" /\ call'[s].mine
      BY <1>0, <3>2 DEF Call
    <3> QED BY <1>1, <3>1, <3>3
  <2> QED BY <2>1, <2>2
<1>5. CASE handleStart \/ onClose \/ Reload
  <2>0. Closed.submitRef = FALSE /\ Closed.submitting = FALSE
    BY DEF Closed
  <2>1. modal'.submitRef = FALSE /\ modal'.submitting = FALSE
    <3>1. CASE handleStart
      <4> DEFINE b == listed.window = "closed"
      <4>1. modal' = [Closed EXCEPT !.exam = listed, !.due = b]
        BY <3>1 DEF handleStart
      <4> HIDE DEF b
      <4> QED BY <4>1 DEF Closed
    <3>2. CASE onClose \/ Reload
      BY <2>0, <3>2 DEF onClose, Reload
    <3> QED BY <1>5, <3>1, <3>2
  <2> QED BY <2>1 DEF NothingIsForgotten
<1>6. CASE setAnswers \/ TimeIsUp \/ Return
  <2>1. /\ modal'.submitRef = modal.submitRef /\ modal'.autoFailed = modal.autoFailed
        /\ modal'.submitting = modal.submitting /\ modal'.submitError = modal.submitError
        /\ modal'.lost = modal.lost /\ call' = call
    BY <1>0, <1>6 DEF setAnswers, TimeIsUp, Return, Modal
  <2> QED BY <2>1 DEF NothingIsForgotten, InFlight
<1>7. ASSUME NEW r1 \in Reqs, NEW r2 \in Reqs, Leave(r1, r2) PROVE NothingIsForgotten'
  <2>1. /\ modal'.submitRef = modal.submitRef /\ modal'.autoFailed = modal.autoFailed
        /\ modal'.submitting = modal.submitting /\ modal'.submitError = modal.submitError
        /\ modal'.lost = modal.lost
    BY <1>0, <1>7 DEF Leave, Counting, Modal
  <2>2. \A s \in Reqs : call[s].op = "submit" /\ call[s].mine =>
           call'[s].op = "submit" /\ call'[s].mine
    BY <1>0, <1>7 DEF Leave, Free, NoCall
  <2>3. InFlight("submit") => InFlight("submit")'
    BY <2>2, StillInFlight
  <2> QED BY <2>1, <2>3 DEF NothingIsForgotten
<1>8. ASSUME NEW r \in Reqs, handleSubmit(r) \/ AutoSubmit(r) PROVE NothingIsForgotten'
  <2>1. call' = [call EXCEPT ![r] = Sent("submit")]
    BY <1>8 DEF handleSubmit, AutoSubmit, Send
  <2>2. InFlight("submit")'
    BY <1>0, <2>1 DEF InFlight, Sent
  <2> QED BY <2>2 DEF NothingIsForgotten
<1>9. ASSUME NEW r \in Reqs, onCopy(r) PROVE NothingIsForgotten'
  <2>1. modal' = modal /\ call[r] = NoCall /\ call' = [call EXCEPT ![r] = Sent("flag")]
    BY <1>9 DEF onCopy, Send, Free
  <2> QED BY <1>0, <1>1, <2>1 DEF NoCall
<1>10. ASSUME NEW r \in Reqs, CountdownExpires(r) PROVE NothingIsForgotten'
  <2>1. CASE ~modal.submitRef /\ modal.exam.autoFailOnCheat
    <3>1. /\ modal'.autoFailed = TRUE
          /\ modal'.submitting = modal.submitting /\ modal'.submitError = modal.submitError
          /\ modal'.lost = modal.lost
          /\ call[r] = NoCall /\ call' = [call EXCEPT ![r] = Sent("force")]
      BY <1>0, <1>10, <2>1 DEF CountdownExpires, Modal, Send, Free
    <3>2. InFlight("submit") => InFlight("submit")'
      BY <1>0, <3>1, StillInFlight DEF NoCall
    <3> QED BY <3>1, <3>2 DEF NothingIsForgotten
  <2>2. CASE ~(~modal.submitRef /\ modal.exam.autoFailOnCheat)
    <3>1. /\ modal'.submitRef = modal.submitRef /\ modal'.autoFailed = modal.autoFailed
          /\ modal'.submitting = modal.submitting /\ modal'.submitError = modal.submitError
          /\ modal'.lost = modal.lost /\ call' = call
      BY <1>0, <1>10, <2>2 DEF CountdownExpires, Modal
    <3> QED BY <3>1 DEF NothingIsForgotten, InFlight
  <2> QED BY <2>1, <2>2
<1>11. ASSUME NEW r \in Reqs, SubmitAnswered(r) PROVE NothingIsForgotten'
  <2>1. CASE modal' = Closed
    BY <2>1 DEF Closed, NothingIsForgotten
  <2>2. CASE call[r].mine /\ modal' = [modal EXCEPT !.submitting = FALSE, !.submitError = TRUE]
    BY <1>0, <2>2 DEF NothingIsForgotten, Modal
  <2>3. CASE ~call[r].mine /\ modal' = modal /\ call' = [call EXCEPT ![r] = NoCall]
    BY <1>0, <1>1, <2>3
  <2> QED BY <1>11, <2>1, <2>2, <2>3 DEF SubmitAnswered
<1>12. ASSUME NEW r \in Reqs, ReportAnswered(r) PROVE NothingIsForgotten'
  <2>1. call[r].op = "flag" /\ call' = [call EXCEPT ![r] = NoCall]
    BY <1>12 DEF ReportAnswered, CallsMatch
  <2>2. InFlight("submit") => InFlight("submit")'
    BY <1>0, <2>1, StillInFlight
  <2>3. \/ modal' = modal
        \/ /\ modal'.autoFailed = TRUE
           /\ modal'.submitting = modal.submitting /\ modal'.submitError = modal.submitError
           /\ modal'.lost = modal.lost
    BY <1>0, <1>12 DEF ReportAnswered, Modal
  <2> QED BY <2>2, <2>3 DEF NothingIsForgotten
<1> QED BY <1>3, <1>4, <1>5, <1>6, <1>7, <1>8, <1>9, <1>10, <1>11, <1>12 DEF PageNext, Student

LEMMA ForgottenInit == PageInit => NothingIsForgotten
BY DEF PageInit, NothingIsForgotten, Closed

\* What the page knows and what it waits for.
PageInvariant == PageTypeOK /\ CallsMatch /\ NothingIsForgotten

LEMMA PageInvariantHolds == PageSpec => [](TypeOK /\ OverlapInvariant /\ PageInvariant)
<1>1. PageSpec => [](TypeOK /\ OverlapInvariant)
  BY PageRunsTheEngine, TypeCorrect, OverlapInvariantHolds, PTL
<1>2. PageInit => PageInvariant
  BY PageTypeInit, CallsMatchInit, ForgottenInit DEF PageInvariant
<1>3. TypeOK /\ PageInvariant /\ [PageNext]_pageVars => PageInvariant'
  BY PageTypeStep, CallsMatchStep, ForgottenStep DEF PageInvariant
<1> QED BY <1>1, <1>2, <1>3, PTL DEF PageSpec

\* The list and the modal hold what getStudentExams may have answered, and every call is
\* somewhere on its way.
THEOREM PageTypeCorrect == PageSpec => []PageTypeOK
<1>1. PageInvariant => PageTypeOK
  BY DEF PageInvariant
<1> QED BY <1>1, PageInvariantHolds, PTL

\* The page never waits for what will not come.
THEOREM NothingIsForgottenHolds == PageSpec => []NothingIsForgotten
<1>1. PageInvariant => NothingIsForgotten
  BY DEF PageInvariant
<1> QED BY <1>1, PageInvariantHolds, PTL

-----------------------------------------------------------------------------
(* Why a student is disqualified.  Each time the student leaves or copies, *)
(* the page reports at most twice, and a report that has arrived is no     *)
(* longer on its way: so the flags the engine has built and the reports on *)
(* their way to it are no more than twice the incidents.                   *)

OnItsWay == {r \in Reqs : call[r].op = "flag" /\ call[r].at = "sent"}

Countdown == modal.countdown => away

ForcedForCause ==
    /\ \A r \in Reqs : call[r].op = "force" => overstayed
    /\ Me \in forced => overstayed

Budget ==
    /\ IsFiniteSet(reported[Me])
    /\ Cardinality(reported[Me]) + Cardinality(OnItsWay) <= 2 * incidents

CauseInvariant == Countdown /\ ForcedForCause /\ Budget

LEMMA OnItsWayFinite == IsFiniteSet(OnItsWay) /\ Cardinality(OnItsWay) \in Nat
<1>1. OnItsWay \subseteq Reqs
  BY DEF OnItsWay
<1>2. IsFiniteSet(OnItsWay)
  BY <1>1, FS_Subset, PageAssumption
<1> QED BY <1>2, FS_CardinalityType

LEMMA CauseInit == PageInit => CauseInvariant
<1> SUFFICES ASSUME PageInit PROVE CauseInvariant
  OBVIOUS
<1>1. Countdown
  BY DEF PageInit, Countdown, Closed
<1>2. ForcedForCause
  BY DEF PageInit, Init, ForcedForCause, NoCall
<1>3. OnItsWay = {} /\ reported[Me] = {} /\ incidents = 0
  BY PageAssumption DEF PageInit, Init, OnItsWay, NoCall
<1>4. Budget
  BY <1>3, FS_EmptySet DEF Budget
<1> QED BY <1>1, <1>2, <1>4 DEF CauseInvariant

LEMMA CardinalityGrows ==
    ASSUME NEW S, NEW x, IsFiniteSet(S)
    PROVE  /\ IsFiniteSet(S \cup {x})
           /\ Cardinality(S \cup {x}) <= Cardinality(S) + 1
<1>1. IsFiniteSet(S \cup {x})
  BY FS_AddElement
<1>2. Cardinality(S \cup {x}) = Cardinality(S) \/ Cardinality(S \cup {x}) = Cardinality(S) + 1
  BY FS_AddElement
<1>3. Cardinality(S) \in Nat
  BY FS_CardinalityType
<1> QED BY <1>1, <1>2, <1>3

\* As long as no report is sent and none arrives the budget is kept.
LEMMA BudgetKept ==
    ASSUME Budget, PageTypeOK, incidents' \in Nat, incidents' >= incidents,
           reported'[Me] = reported[Me],
           \A r \in Reqs : call'[r].op = "flag" /\ call'[r].at = "sent" =>
              call[r].op = "flag" /\ call[r].at = "sent"
    PROVE  Budget'
<1>1. OnItsWay' \subseteq OnItsWay
  BY DEF OnItsWay
<1>2. IsFiniteSet(OnItsWay') /\ Cardinality(OnItsWay') <= Cardinality(OnItsWay)
  BY <1>1, OnItsWayFinite, FS_Subset
<1>3. Cardinality(OnItsWay') \in Nat /\ Cardinality(reported[Me]) \in Nat
  BY <1>2, FS_CardinalityType DEF Budget
<1>4. incidents \in Nat
  BY PageAssumption DEF PageTypeOK
<1> QED BY <1>2, <1>3, <1>4, OnItsWayFinite DEF Budget

\* One incident pays for two reports.
LEMMA BudgetSpent ==
    ASSUME Budget, PageTypeOK, incidents' = incidents + 1, reported'[Me] = reported[Me],
           NEW r1 \in Reqs, NEW r2 \in Reqs,
           \A r \in Reqs : call'[r].op = "flag" /\ call'[r].at = "sent" =>
              \/ call[r].op = "flag" /\ call[r].at = "sent"
              \/ r = r1 \/ r = r2
    PROVE  Budget'
<1>1. OnItsWay' \subseteq (OnItsWay \cup {r1}) \cup {r2}
  BY DEF OnItsWay
<1>2. /\ IsFiniteSet(OnItsWay \cup {r1})
      /\ Cardinality(OnItsWay \cup {r1}) <= Cardinality(OnItsWay) + 1
  BY OnItsWayFinite, CardinalityGrows
<1>3. /\ IsFiniteSet((OnItsWay \cup {r1}) \cup {r2})
      /\ Cardinality((OnItsWay \cup {r1}) \cup {r2}) <= Cardinality(OnItsWay \cup {r1}) + 1
  BY <1>2, CardinalityGrows
<1>4. /\ IsFiniteSet(OnItsWay')
      /\ Cardinality(OnItsWay') <= Cardinality((OnItsWay \cup {r1}) \cup {r2})
  BY <1>1, <1>3, FS_Subset
<1>5. /\ Cardinality(OnItsWay') \in Nat /\ Cardinality(reported[Me]) \in Nat
      /\ Cardinality(OnItsWay \cup {r1}) \in Nat
      /\ Cardinality((OnItsWay \cup {r1}) \cup {r2}) \in Nat
  BY <1>2, <1>3, <1>4, FS_CardinalityType DEF Budget
<1>6. Cardinality(OnItsWay') <= Cardinality(OnItsWay) + 2
  BY <1>2, <1>3, <1>4, <1>5, OnItsWayFinite
<1>7. incidents \in Nat
  BY PageAssumption DEF PageTypeOK
<1> QED BY <1>5, <1>6, <1>7, OnItsWayFinite DEF Budget

\* A report that arrives becomes one flag.
LEMMA BudgetArrives ==
    ASSUME Budget, PageTypeOK, incidents' = incidents, NEW r \in Reqs, NEW flag,
           call[r].op = "flag", call[r].at = "sent",
           call' = [call EXCEPT ![r].at = "served"],
           reported'[Me] = reported[Me] \cup {flag}
    PROVE  Budget'
<1>0. call \in [Reqs -> Call] /\ incidents \in Nat
  BY PageAssumption DEF PageTypeOK
<1>1. OnItsWay' = OnItsWay \ {r}
  BY <1>0 DEF OnItsWay, Call
<1>2. r \in OnItsWay
  BY DEF OnItsWay
<1>3. Cardinality(OnItsWay') = Cardinality(OnItsWay) - 1
  BY <1>1, <1>2, OnItsWayFinite, FS_RemoveElement
<1> DEFINE filed == reported[Me]
<1>4. IsFiniteSet(filed)
  BY DEF Budget
<1>5. IsFiniteSet(filed \cup {flag}) /\ Cardinality(filed \cup {flag}) <= Cardinality(filed) + 1
  BY <1>4, CardinalityGrows
<1>6. /\ IsFiniteSet(reported'[Me])
      /\ Cardinality(reported'[Me]) <= Cardinality(reported[Me]) + 1
      /\ Cardinality(reported[Me]) \in Nat
  BY <1>4, <1>5, FS_CardinalityType
<1>7. Cardinality(reported'[Me]) \in Nat
  BY <1>6, FS_CardinalityType
<1> QED BY <1>0, <1>3, <1>6, <1>7, OnItsWayFinite DEF Budget

\* The countdown runs only while the student is away.
LEMMA CountdownStep == PageTypeOK /\ Countdown /\ [PageNext]_pageVars => Countdown'
<1> SUFFICES ASSUME PageTypeOK, Countdown, [PageNext]_pageVars PROVE Countdown'
  OBVIOUS
<1> USE DEF page, pageVars
<1>0. modal \in Modal
  BY DEF PageTypeOK
<1>1. CASE Creator \/ load \/ UNCHANGED pageVars
  BY <1>1 DEF Creator, load, Countdown
<1>2. ASSUME NEW r \in Reqs, Engine(r) PROVE Countdown'
  <2>1. away' = away /\ modal'.countdown = modal.countdown
    BY <1>0, <1>2 DEF Engine, Arrives, Refused, Serves, Fails, Lost, Modal
  <2> QED BY <2>1 DEF Countdown
<1>3. Closed.countdown = FALSE
  BY DEF Closed
<1>4. CASE handleStart
  <2> DEFINE b == listed.window = "closed"
  <2>1. modal' = [Closed EXCEPT !.exam = listed, !.due = b]
    BY <1>4 DEF handleStart
  <2> HIDE DEF b
  <2>2. modal'.countdown = FALSE
    BY <2>1 DEF Closed
  <2> QED BY <2>2 DEF Countdown
<1>5. CASE onClose \/ Reload
  BY <1>3, <1>5 DEF onClose, Reload, Countdown
<1>6. CASE setAnswers \/ TimeIsUp
  <2>1. away' = away /\ modal'.countdown = modal.countdown
    BY <1>0, <1>6 DEF setAnswers, TimeIsUp, Modal
  <2> QED BY <2>1 DEF Countdown
<1>7. CASE Return
  BY <1>0, <1>7 DEF Return, Countdown, Modal
<1>8. ASSUME NEW r1 \in Reqs, NEW r2 \in Reqs, Leave(r1, r2) PROVE Countdown'
  BY <1>8 DEF Leave, Countdown
<1>9. ASSUME NEW r \in Reqs, handleSubmit(r) \/ AutoSubmit(r) \/ onCopy(r) PROVE Countdown'
  <2>1. away' = away /\ modal'.countdown = modal.countdown
    BY <1>0, <1>9 DEF handleSubmit, AutoSubmit, onCopy, Submitting, Modal
  <2> QED BY <2>1 DEF Countdown
<1>10. ASSUME NEW r \in Reqs, CountdownExpires(r) PROVE Countdown'
  <2>1. modal'.countdown = FALSE
    BY <1>0, <1>10 DEF CountdownExpires, Modal
  <2> QED BY <2>1 DEF Countdown
<1>11. ASSUME NEW r \in Reqs, SubmitAnswered(r) PROVE Countdown'
  <2>1. away' = away /\ (modal'.countdown = modal.countdown \/ modal' = Closed)
    BY <1>0, <1>11 DEF SubmitAnswered, Modal
  <2> QED BY <1>3, <2>1 DEF Countdown
<1>12. ASSUME NEW r \in Reqs, ReportAnswered(r) PROVE Countdown'
  <2>1. away' = away /\ modal'.countdown = modal.countdown
    BY <1>0, <1>12 DEF ReportAnswered, Modal
  <2> QED BY <2>1 DEF Countdown
<1> QED BY <1>1, <1>2, <1>4, <1>5, <1>6, <1>7, <1>8, <1>9, <1>10, <1>11, <1>12 DEF PageNext, Student

\* The step of the engine in a slot changes its call only, and keeps its operation unless it
\* drops the call; nothing but the arrival of a report adds a flag, and nothing but that of a
\* forced auto-fail adds to forced.
LEMMA EngineCalls ==
    ASSUME PageTypeOK, CallsMatch, NEW r \in Reqs, Engine(r)
    PROVE  /\ UNCHANGED <<listed, away, incidents, overstayed>>
           /\ \A s \in Reqs : \/ call'[s] = call[s]
                              \/ call'[s] = NoCall
                              \/ call'[s].op = call[s].op /\ call'[s].at # "sent"
           /\ ~Arrives(r) => UNCHANGED <<reported, forced>>
<1> USE DEF page
<1>0. call \in [Reqs -> Call]
  BY DEF PageTypeOK
<1>1. UNCHANGED <<listed, away, incidents, overstayed>>
  BY DEF Engine, Arrives, Refused, Serves, Fails, Lost
<1>2. \/ call' = call \/ call' = [call EXCEPT ![r] = NoCall]
      \/ \E at \in {"served", "ok", "autoFailed", "refused"} : call' = [call EXCEPT ![r].at = at]
  BY DEF Engine, Arrives, Refused, Serves, Fails, Lost, Answer, At
<1>3. \A s \in Reqs : \/ call'[s] = call[s]
                      \/ call'[s] = NoCall
                      \/ call'[s].op = call[s].op /\ call'[s].at # "sent"
  <2> TAKE s \in Reqs
  <2>1. CASE call' = call
    BY <2>1
  <2>2. CASE call' = [call EXCEPT ![r] = NoCall]
    BY <1>0, <2>2
  <2>3. ASSUME NEW at \in {"served", "ok", "autoFailed", "refused"}, call' = [call EXCEPT ![r].at = at]
        PROVE  call'[s] = call[s] \/ (call'[s].op = call[s].op /\ call'[s].at # "sent")
    <3>1. call'[r].op = call[r].op /\ call'[r].at = at
      BY <1>0, <2>3 DEF Call
    <3>2. s # r => call'[s] = call[s]
      BY <1>0, <2>3
    <3> QED BY <3>1, <3>2
  <2> QED BY <1>2, <2>1, <2>2, <2>3
<1>4. ~Arrives(r) => UNCHANGED <<reported, forced>>
  BY DEF Engine, Refused, Serves, Fails, Lost, vars, observed, Abort, Handler, SubmitWrite, ForceWrite,
     ForceNotify, FlagAutoFail, FlagNotify, FlagAlert, FlagWrite
<1> QED BY <1>1, <1>3, <1>4

\* An arrival adds to reported or to forced what its operation says.
LEMMA ArrivesObserved ==
    ASSUME TypeOK, NEW r \in Reqs, Arrives(r)
    PROVE  \/ call[r].op = "submit" /\ UNCHANGED <<reported, forced>>
           \/ /\ call[r].op = "flag" /\ forced' = forced
              /\ \E flag : reported'[Me] = reported[Me] \cup {flag}
           \/ call[r].op = "force" /\ forced' = forced \cup {Me} /\ reported' = reported
<1>1. CASE call[r].op = "submit" /\ submitExam(r, Me)
  BY <1>1 DEF submitExam, observed
<1>2. CASE call[r].op = "flag" /\ reportIntegrityFlag(r, Me)
  <2>1. PICK type \in Violations : Report(flagRequest(Me, type, started).flag, Me)
    BY <1>2 DEF reportIntegrityFlag
  <2>2. reported'[Me] = reported[Me] \cup {flagRequest(Me, type, started).flag}
    BY <2>1, PageAssumption DEF Report, TypeOK
  <2> QED BY <1>2, <2>2 DEF reportIntegrityFlag
<1>3. CASE call[r].op = "force" /\ forceAutoFail(r, Me)
  BY <1>3 DEF forceAutoFail
<1> QED BY <1>1, <1>2, <1>3 DEF Arrives

\* The page asks for a forced auto-fail only once the countdown has expired.
LEMMA ForcedStep ==
    TypeOK /\ PageTypeOK /\ CallsMatch /\ Countdown /\ ForcedForCause /\ [PageNext]_pageVars => ForcedForCause'
<1> SUFFICES ASSUME TypeOK, PageTypeOK, CallsMatch, Countdown, ForcedForCause, [PageNext]_pageVars
             PROVE  ForcedForCause'
  OBVIOUS
<1> USE DEF page, pageVars
<1>0. call \in [Reqs -> Call]
  BY DEF PageTypeOK
<1>1. ASSUME overstayed => overstayed', forced' = forced,
             \A r \in Reqs : call'[r].op = "force" => call[r].op = "force" \/ overstayed'
      PROVE  ForcedForCause'
  BY <1>1 DEF ForcedForCause
<1>2. CASE Creator \/ UNCHANGED pageVars
  BY <1>2 DEF Creator, update, remove, Tick, observed, vars, ForcedForCause
<1>3. ASSUME NEW r \in Reqs, Engine(r) PROVE ForcedForCause'
  <2>1. /\ overstayed' = overstayed
        /\ \A s \in Reqs : call'[s].op = "force" => call[s].op = "force"
    BY <1>3, EngineCalls DEF NoCall
  <2>2. forced' = forced \/ (call[r].op = "force" /\ forced' = forced \cup {Me})
    BY <1>3, EngineCalls, ArrivesObserved
  <2> QED BY <2>1, <2>2 DEF ForcedForCause
<1>4. ASSUME NEW r \in Reqs, CountdownExpires(r) PROVE ForcedForCause'
  BY <1>4 DEF CountdownExpires, Countdown, ForcedForCause, vars
<1>5. CASE Student /\ ~\E r \in Reqs : CountdownExpires(r)
  <2>1. overstayed' = overstayed /\ forced' = forced
    BY <1>5 DEF Student, load, handleStart, onClose, Reload, setAnswers, TimeIsUp, Return, Leave,
       handleSubmit, AutoSubmit, SubmitAnswered, onCopy, ReportAnswered, vars
  <2>2. ASSUME NEW s \in Reqs, call'[s].op = "force" PROVE call[s].op = "force"
    <3>1. CASE CallKept(s) \/ CallDropped(s)
      BY <2>2, <3>1 DEF CallKept, CallDropped
    <3>2. CASE ~(CallKept(s) \/ CallDropped(s))
      <4>1. CallSent(s)
        BY <1>5, <3>2, StudentCalls
      <4>2. \E r1, r2 \in Reqs : \/ call' = [call EXCEPT ![r1] = Sent("flag"), ![r2] = Sent("flag")]
                                 \/ call' = [call EXCEPT ![r1] = Sent("flag")]
                                 \/ call' = [call EXCEPT ![r1] = Sent("submit")]
        <5>1. ~(load \/ handleStart \/ setAnswers \/ TimeIsUp \/ Return)
          BY <3>2 DEF load, handleStart, setAnswers, TimeIsUp, Return, CallKept
        <5>2. ~(onClose \/ Reload \/ \E r \in Reqs : SubmitAnswered(r) \/ ReportAnswered(r))
          BY <1>0, <4>1 DEF onClose, Reload, SubmitAnswered, ReportAnswered, CallSent, NoCall, Orphaned, Call
        <5>3. \/ \E r1, r2 \in Reqs : Leave(r1, r2)
              \/ \E r \in Reqs : handleSubmit(r) \/ AutoSubmit(r) \/ onCopy(r)
          BY <1>5, <5>1, <5>2 DEF Student
        <5> QED BY <5>3 DEF Leave, handleSubmit, AutoSubmit, onCopy, Send
      <4> QED BY <1>0, <2>2, <4>1, <4>2 DEF Sent, CallSent, NoCall
    <3> QED BY <3>1, <3>2
  <2> QED BY <1>1, <2>1, <2>2
<1> QED BY <1>2, <1>3, <1>4, <1>5 DEF PageNext

LEMMA BudgetStep ==
    TypeOK /\ PageTypeOK /\ CallsMatch /\ Budget /\ [PageNext]_pageVars => Budget'
<1> SUFFICES ASSUME TypeOK, PageTypeOK, CallsMatch, Budget, [PageNext]_pageVars PROVE Budget'
  OBVIOUS
<1> USE DEF page, pageVars
<1>0. call \in [Reqs -> Call] /\ incidents \in Nat
  BY PageAssumption DEF PageTypeOK
<1>1. ASSUME incidents' = incidents, reported' = reported,
             \A s \in Reqs : call'[s].op = "flag" /\ call'[s].at = "sent" =>
                call[s].op = "flag" /\ call[s].at = "sent"
      PROVE  Budget'
  BY <1>0, <1>1, BudgetKept
<1>2. CASE Creator \/ UNCHANGED pageVars
  BY <1>1, <1>2 DEF Creator, update, remove, Tick, observed, vars
<1>3. ASSUME NEW r \in Reqs, Engine(r) PROVE Budget'
  <2>1. /\ incidents' = incidents
        /\ \A s \in Reqs : call'[s].op = "flag" /\ call'[s].at = "sent" =>
              call[s].op = "flag" /\ call[s].at = "sent"
    BY <1>3, EngineCalls DEF NoCall
  <2>2. CASE Arrives(r) /\ call[r].op = "flag"
    <3>1. PICK flag : reported'[Me] = reported[Me] \cup {flag}
      BY <2>2, ArrivesObserved
    <3>2. call[r].at = "sent" /\ call' = [call EXCEPT ![r].at = "served"]
      BY <2>2, ArrivesStep
    <3> QED BY <2>1, <2>2, <3>1, <3>2, BudgetArrives
  <2>3. CASE ~(Arrives(r) /\ call[r].op = "flag")
    <3>1. reported' = reported
      BY <1>3, <2>3, EngineCalls, ArrivesObserved
    <3> QED BY <1>1, <2>1, <3>1
  <2> QED BY <2>2, <2>3
<1>4. CASE load \/ handleStart \/ setAnswers \/ TimeIsUp \/ Return
  BY <1>1, <1>4 DEF load, handleStart, setAnswers, TimeIsUp, Return, vars
<1>5. CASE onClose \/ Reload
  BY <1>0, <1>1, <1>5 DEF onClose, Reload, vars, Orphaned, NoCall, Call
<1>6. ASSUME NEW r1 \in Reqs, NEW r2 \in Reqs, Leave(r1, r2) PROVE Budget'
  <2>1. incidents' = incidents + 1 /\ reported'[Me] = reported[Me]
    BY <1>6 DEF Leave, Incident, vars
  <2>2. \A s \in Reqs : s # r1 /\ s # r2 => call'[s] = call[s]
    BY <1>0, <1>6 DEF Leave
  <2>3. \A s \in Reqs : call'[s].op = "flag" /\ call'[s].at = "sent" =>
           \/ call[s].op = "flag" /\ call[s].at = "sent"
           \/ s = r1 \/ s = r2
    BY <2>2
  <2> QED BY <2>1, <2>3, BudgetSpent
<1>7. ASSUME NEW r \in Reqs, onCopy(r) PROVE Budget'
  <2>1. incidents' = incidents + 1 /\ reported'[Me] = reported[Me]
    BY <1>7 DEF onCopy, Incident, vars
  <2>2. \A s \in Reqs : s # r => call'[s] = call[s]
    BY <1>0, <1>7 DEF onCopy, Send
  <2>3. \A s \in Reqs : call'[s].op = "flag" /\ call'[s].at = "sent" =>
           \/ call[s].op = "flag" /\ call[s].at = "sent"
           \/ s = r \/ s = r
    BY <2>2
  <2> QED BY <2>1, <2>3, BudgetSpent
<1>8. ASSUME NEW r \in Reqs, handleSubmit(r) \/ AutoSubmit(r) \/ CountdownExpires(r) PROVE Budget'
  <2>1. incidents' = incidents /\ reported' = reported
    BY <1>8 DEF handleSubmit, AutoSubmit, CountdownExpires, vars
  <2>2. call' = call \/ call' = [call EXCEPT ![r] = Sent("submit")]
        \/ call' = [call EXCEPT ![r] = Sent("force")]
    BY <1>8 DEF handleSubmit, AutoSubmit, CountdownExpires, Send
  <2> QED BY <1>0, <1>1, <2>1, <2>2 DEF Sent
<1>9. ASSUME NEW r \in Reqs, SubmitAnswered(r) \/ ReportAnswered(r) PROVE Budget'
  <2>1. incidents' = incidents /\ reported' = reported
    BY <1>9 DEF SubmitAnswered, ReportAnswered, vars
  <2>2. Student
    BY <1>9 DEF Student
  <2>3. \A s \in Reqs : CallKept(s) \/ CallDropped(s) \/ CallSent(s)
    BY <2>2, StudentCalls
  <2> DEFINE freed == [call EXCEPT ![r] = NoCall]
  <2>4. freed \in [Reqs -> Call]
    BY <1>0, NoCallType
  <2>5. call' = freed \/ call' = Orphaned(freed)
    BY <1>9 DEF SubmitAnswered, ReportAnswered
  <2>6. \A s \in Reqs : freed[s].at = "sent" => freed[s] = call[s]
    BY <1>0 DEF NoCall
  <2> HIDE DEF freed
  <2>7. \A s \in Reqs : call'[s].at = freed[s].at /\ call'[s].op = freed[s].op
    BY <2>4, <2>5 DEF Orphaned, Call
  <2> QED BY <1>1, <2>1, <2>6, <2>7
<1> QED BY <1>2, <1>3, <1>4, <1>5, <1>6, <1>7, <1>8, <1>9 DEF PageNext, Student

\* A student is disqualified for staying away until the countdown expired or for a second
\* incident: of what the engine may go by, a forced auto-fail is asked for only after the
\* countdown, and three flags take two incidents.
THEOREM DisqualificationHasCause == PageSpec => []DisqualifiedForCause
<1> DEFINE I == TypeOK /\ OverlapInvariant /\ PageInvariant /\ CauseInvariant
<1>1. PageSpec => [](TypeOK /\ OverlapInvariant /\ PageInvariant)
  BY PageInvariantHolds
<1>2. PageInit => CauseInvariant
  BY CauseInit
<1>3. (TypeOK /\ OverlapInvariant /\ PageInvariant) /\ CauseInvariant /\ [PageNext]_pageVars
         => CauseInvariant'
  BY CountdownStep, ForcedStep, BudgetStep DEF PageInvariant, CauseInvariant
<1>4. (TypeOK /\ OverlapInvariant /\ PageInvariant) /\ CauseInvariant => DisqualifiedForCause
  <2> SUFFICES ASSUME TypeOK, OverlapInvariant, PageInvariant, CauseInvariant,
                      exam.studentAttempts[Me].autoFailed
               PROVE  overstayed \/ incidents >= 2
    BY DEF DisqualifiedForCause
  <2>1. Evidence(Me, reported, forced)
    BY PageAssumption DEF OverlapInvariant, RowSound, AttemptSound
  <2>2. CASE Me \in forced
    BY <2>2 DEF CauseInvariant, ForcedForCause
  <2>3. CASE Cardinality(High(reported[Me])) >= HIGH_VIOLATION_THRESHOLD
    <3>1. IsFiniteSet(reported[Me]) /\ Cardinality(reported[Me]) + Cardinality(OnItsWay) <= 2 * incidents
      BY DEF CauseInvariant, Budget
    <3>2. High(reported[Me]) \subseteq reported[Me]
      BY DEF High
    <3>3. IsFiniteSet(High(reported[Me])) /\ Cardinality(High(reported[Me])) <= Cardinality(reported[Me])
      BY <3>1, <3>2, FS_Subset
    <3>4. Cardinality(High(reported[Me])) \in Nat /\ Cardinality(reported[Me]) \in Nat
      BY <3>1, <3>3, FS_CardinalityType
    <3>5. incidents \in Nat
      BY PageAssumption DEF PageInvariant, PageTypeOK
    <3> QED BY <2>3, <3>1, <3>3, <3>4, <3>5, OnItsWayFinite DEF HIGH_VIOLATION_THRESHOLD
  <2> QED BY <2>1, <2>2, <2>3 DEF Evidence
<1> QED BY <1>1, <1>2, <1>3, <1>4, PTL DEF PageSpec

-----------------------------------------------------------------------------
(* What the banner says.                                                   *)

Undisturbed == failures = 0 /\ accepted[Me] = 0 /\ ~removed

Disqualified == exam.studentAttempts[Me].autoFailed

\* The modal is terminated on the engine's word or with a forced auto-fail under way, which the
\* engine ignores only for an attempt; and the only attempt is a disqualification.
Recorded ==
    /\ modal.autoFailed => Disqualified \/ \E r \in Reqs : call[r].op = "force"
    /\ \A r \in Reqs : req[r].op \in {"flagNotify", "forceNotify"} \/ call[r].at = "autoFailed"
                        => Disqualified
    /\ HasAttempt(exam.studentAttempts[Me]) => Disqualified

RecordedInvariant == Undisturbed => Recorded

LEMMA RecordedInit == PageInit => RecordedInvariant
<1> SUFFICES ASSUME PageInit PROVE Recorded
  BY DEF RecordedInvariant
<1>1. ~modal.autoFailed
  BY DEF PageInit, Closed
<1>2. \A r \in Reqs : req[r].op = "idle" /\ call[r].at = "done"
  BY DEF PageInit, Init, NoReq, NoCall
<1>3. ~HasAttempt(exam.studentAttempts[Me])
  <2>1. PICK dto \in Dtos : exam = Created(dto)
    BY DEF PageInit, Init
  <2>2. exam.studentAttempts[Me].attemptCount = 0
    BY <2>1, PageAssumption DEF Created, NoAttempt
  <2> QED BY <2>2 DEF HasAttempt
<1> QED BY <1>1, <1>2, <1>3 DEF Recorded

\* A disqualification written for the student, whatever the row that was read.
LEMMA DisqualifiedBy ==
    ASSUME TypeOK, NEW q \in Request, q.op \in {"force", "flag"}, q.student = Me, ~removed,
           NEW attempt, attempt.autoFailed,
           exam'.studentAttempts = withAttempt(q, attempt)
    PROVE  Disqualified'
<1>1. q.seen \in Row
  BY DEF Request
<1>2. q.seen.studentAttempts \in [Students -> Attempt]
  BY <1>1 DEF Row
<1>3. withAttempt(q, attempt)[Me] = attempt
  BY <1>2, PageAssumption DEF withAttempt
<1> QED BY <1>3 DEF Disqualified

\* What a handler that writes no submission does to the student's attempt.
LEMMA HandlerDisqualifies ==
    ASSUME TypeOK, CallsMatch, ~removed, NEW r \in Reqs, Handler(r), ~SubmitWrite(r)
    PROVE  /\ \/ exam'.studentAttempts = exam.studentAttempts /\ req[r].op # "force"
                 /\ req'[r].op \notin {"flagNotify", "forceNotify"}
              \/ Disqualified'
           /\ accepted' = accepted
<1>0. exam \in Row /\ req \in [Reqs -> Request] /\ req[r] \in Request
  BY DEF TypeOK
<1>1. CASE ForceNotify(r) \/ FlagNotify(r)
  BY <1>0, <1>1 DEF ForceNotify, FlagNotify, Resume, NoReq
<1>2. CASE FlagWrite(r)
  <2>1. /\ exam' = [exam EXCEPT !.integrityFlags = updatedFlags(req[r])]
        /\ req[r].op = "flagWrite" /\ req' = [req EXCEPT ![r] = NoReq] /\ accepted' = accepted
    BY <1>2 DEF FlagWrite, WriteFlags, Resume
  <2>2. exam'.studentAttempts = exam.studentAttempts
    BY <1>0, <2>1 DEF Row
  <2> QED BY <1>0, <2>1, <2>2 DEF NoReq
<1>3. CASE FlagAlert(r)
  <2>1. /\ exam' = exam /\ req[r].op = "flag" /\ accepted' = accepted
        /\ req' = [req EXCEPT ![r] = [req[r] EXCEPT !.op = "flagWrite"]]
    BY <1>3 DEF FlagAlert, Resume
  <2>2. req'[r].op = "flagWrite"
    BY <1>0, <2>1 DEF Request
  <2> QED BY <2>1, <2>2
<1>4. CASE ForceWrite(r)
  <2> DEFINE a == autoFailAttempt(req[r].seen.studentAttempts[req[r].student])
  <2>1. /\ req[r].op = "force" /\ accepted' = accepted
        /\ exam' = [exam EXCEPT !.studentAttempts = withAttempt(req[r], a)]
    BY <1>4 DEF ForceWrite, WriteAttempts, Resume, observed
  <2>2. a.autoFailed
    BY DEF autoFailAttempt
  <2>3. exam'.studentAttempts = withAttempt(req[r], a) /\ req[r].student = Me
    BY <1>0, <2>1 DEF Row, CallsMatch
  <2> HIDE DEF a
  <2> QED BY <1>0, <2>1, <2>2, <2>3, DisqualifiedBy
<1>5. CASE FlagAutoFail(r)
  <2> DEFINE a == autoFailAttempt(req[r].seen.studentAttempts[req[r].student])
  <2>1. /\ req[r].op = "flag" /\ accepted' = accepted
        /\ exam' = [exam EXCEPT !.studentAttempts = withAttempt(req[r], a),
                                !.integrityFlags = updatedFlags(req[r])]
    BY <1>5 DEF FlagAutoFail, WriteBoth, Resume, observed
  <2>2. a.autoFailed
    BY DEF autoFailAttempt
  <2>3. exam'.studentAttempts = withAttempt(req[r], a) /\ req[r].student = Me
    BY <1>0, <2>1 DEF Row, CallsMatch
  <2> HIDE DEF a
  <2> QED BY <1>0, <2>1, <2>2, <2>3, DisqualifiedBy
<1> QED BY <1>1, <1>2, <1>3, <1>4, <1>5 DEF Handler

LEMMA RecordedStep ==
    TypeOK /\ PageTypeOK /\ CallsMatch /\ RecordedInvariant /\ [PageNext]_pageVars => RecordedInvariant'
<1> SUFFICES ASSUME TypeOK, PageTypeOK, CallsMatch, RecordedInvariant, [PageNext]_pageVars, Undisturbed'
             PROVE  Recorded'
  BY DEF RecordedInvariant
<1> USE DEF page, pageVars
<1>0. /\ modal \in Modal /\ call \in [Reqs -> Call] /\ req \in [Reqs -> Request] /\ exam \in Row
      /\ accepted \in [Students -> Nat] /\ failures \in Nat
  BY PageAssumption DEF PageTypeOK, TypeOK
<1>1. CASE UNCHANGED pageVars
  <2>1. Undisturbed /\ UNCHANGED <<modal, call, exam, req>>
    BY <1>1 DEF Undisturbed, vars
  <2> QED BY <2>1 DEF RecordedInvariant, Recorded, Disqualified
<1>2. CASE Creator
  <2>1. UNCHANGED <<modal, call, failures, req, accepted>>
    BY <1>2 DEF Creator, update, remove, Tick, observed
  <2>2. exam'.studentAttempts = exam.studentAttempts
    BY <1>0, <1>2 DEF Creator, update, remove, Tick, Patched, Row
  <2>3. Undisturbed
    BY <1>2, <2>1 DEF Creator, update, remove, Tick, Undisturbed
  <2> QED BY <2>1, <2>2, <2>3 DEF RecordedInvariant, Recorded, Disqualified
<1>3. CASE Student
  <2>1. UNCHANGED vars /\ \A s \in Reqs : CallKept(s) \/ CallDropped(s) \/ CallSent(s)
    BY <1>3, StudentCalls
  <2>2. failures' = failures
    BY <1>3 DEF Student, load, handleStart, onClose, Reload, setAnswers, TimeIsUp, Return, Leave,
       handleSubmit, AutoSubmit, SubmitAnswered, onCopy, CountdownExpires, ReportAnswered
  <2>3. Recorded /\ UNCHANGED <<exam, req>>
    BY <2>1, <2>2 DEF RecordedInvariant, Undisturbed, vars
  <2>4. (Disqualified => Disqualified')
        /\ (HasAttempt(exam.studentAttempts[Me]) <=> HasAttempt(exam.studentAttempts[Me])')
    BY <2>3 DEF Disqualified
  <2>5. \A s \in Reqs : req'[s].op \in {"flagNotify", "forceNotify"} \/ call'[s].at = "autoFailed"
                         => Disqualified'
    BY <2>1, <2>3, <2>4 DEF CallKept, CallDropped, CallSent, Recorded
  <2>6. modal'.autoFailed => Disqualified' \/ \E s \in Reqs : call'[s].op = "force"
    <3>1. ASSUME modal'.autoFailed => modal.autoFailed,
                 \A s \in Reqs : call[s].op = "force" => call'[s].op = "force"
          PROVE  modal'.autoFailed => Disqualified' \/ \E s \in Reqs : call'[s].op = "force"
      BY <2>3, <2>4, <3>1 DEF Recorded
    <3>2. Closed.autoFailed = FALSE
      BY DEF Closed
    <3>3. CASE load \/ setAnswers \/ TimeIsUp \/ Return
      BY <1>0, <3>1, <3>3 DEF load, setAnswers, TimeIsUp, Return, Modal
    <3>4. CASE handleStart
      <4> DEFINE b == listed.window = "closed"
      <4>1. modal' = [Closed EXCEPT !.exam = listed, !.due = b]
        BY <3>4 DEF handleStart
      <4> HIDE DEF b
      <4> QED BY <4>1 DEF Closed
    <3>5. CASE onClose \/ Reload
      BY <3>2, <3>5 DEF onClose, Reload
    <3>6. ASSUME NEW r1 \in Reqs, NEW r2 \in Reqs, Leave(r1, r2)
          PROVE  modal'.autoFailed => Disqualified' \/ \E s \in Reqs : call'[s].op = "force"
      <4>1. modal'.autoFailed = modal.autoFailed
        BY <1>0, <3>6 DEF Leave, Counting, Modal
      <4>2. \A s \in Reqs : call[s].op = "force" => call'[s].op = "force"
        BY <1>0, <3>6 DEF Leave, Free, NoCall
      <4> QED BY <3>1, <4>1, <4>2
    <3>7. ASSUME NEW r \in Reqs, handleSubmit(r) \/ AutoSubmit(r) \/ onCopy(r)
          PROVE  modal'.autoFailed => Disqualified' \/ \E s \in Reqs : call'[s].op = "force"
      <4>1. modal'.autoFailed = modal.autoFailed
        BY <1>0, <3>7 DEF handleSubmit, AutoSubmit, onCopy, Submitting, Modal
      <4>2. call[r] = NoCall /\ \A s \in Reqs : s # r => call'[s] = call[s]
        BY <1>0, <3>7 DEF handleSubmit, AutoSubmit, onCopy, Send, Free
      <4>3. \A s \in Reqs : call[s].op = "force" => call'[s].op = "force"
        BY <4>2 DEF NoCall
      <4> QED BY <3>1, <4>1, <4>3
    <3>8. ASSUME NEW r \in Reqs, CountdownExpires(r)
          PROVE  modal'.autoFailed => Disqualified' \/ \E s \in Reqs : call'[s].op = "force"
      <4>1. CASE ~modal.submitRef /\ modal.exam.autoFailOnCheat
        <5>1. call'[r].op = "force"
          BY <1>0, <3>8, <4>1 DEF CountdownExpires, Send, Sent
        <5> QED BY <5>1
      <4>2. CASE ~(~modal.submitRef /\ modal.exam.autoFailOnCheat)
        <5>1. modal'.autoFailed = modal.autoFailed /\ call' = call
          BY <1>0, <3>8, <4>2 DEF CountdownExpires, Modal
        <5> QED BY <3>1, <5>1
      <4> QED BY <4>1, <4>2
    <3>9. ASSUME NEW r \in Reqs, SubmitAnswered(r)
          PROVE  modal'.autoFailed => Disqualified' \/ \E s \in Reqs : call'[s].op = "force"
      <4>1. CASE modal' = Closed
        BY <3>2, <4>1
      <4>2. CASE modal' # Closed
        <5>1. modal'.autoFailed = modal.autoFailed
          BY <1>0, <3>9, <4>2 DEF SubmitAnswered, Modal
        <5>2. call[r].op = "submit" /\ call' = [call EXCEPT ![r] = NoCall]
          BY <3>9, <4>2 DEF SubmitAnswered
        <5>3. \A s \in Reqs : call[s].op = "force" => call'[s].op = "force"
          BY <1>0, <5>2
        <5> QED BY <3>1, <5>1, <5>3
      <4> QED BY <4>1, <4>2
    <3>10. ASSUME NEW r \in Reqs, ReportAnswered(r)
           PROVE  modal'.autoFailed => Disqualified' \/ \E s \in Reqs : call'[s].op = "force"
      <4>1. call[r].at = "autoFailed"
        BY <3>10 DEF ReportAnswered
      <4> QED BY <2>3, <2>4, <4>1 DEF Recorded
    <3> QED BY <1>3, <3>3, <3>4, <3>5, <3>6, <3>7, <3>8, <3>9, <3>10 DEF Student
  <2> QED BY <2>3, <2>4, <2>5, <2>6 DEF Recorded
<1>4. ASSUME NEW r \in Reqs, Engine(r) PROVE Recorded'
  <2>1. ~Fails(r) /\ ~Lost(r)
    BY <1>0 DEF Fails, Lost, Undisturbed
  <2>2. modal' = modal /\ failures' = failures /\ removed' = removed
    BY <1>4, <2>1 DEF Engine, Arrives, Refused, Serves, submitExam, reportIntegrityFlag, forceAutoFail, vars,
       Handler, SubmitWrite, ForceWrite, ForceNotify, FlagAutoFail, FlagNotify, FlagAlert, FlagWrite
  <2>3. CASE Arrives(r)
    <3>1. exam' = exam /\ accepted' = accepted
      BY <2>3 DEF Arrives, submitExam, reportIntegrityFlag, forceAutoFail, observed
    <3>2. Recorded
      BY <2>2, <3>1 DEF RecordedInvariant, Undisturbed
    <3>3. PICK next : /\ req' = [req EXCEPT ![r] = next]
                      /\ next.op \in {"submit", "flag", "force"}
                      /\ call' = [call EXCEPT ![r].at = "served"]
      BY <2>3, ArrivesStep
    <3>4. \A s \in Reqs : /\ req'[s] = req[s] \/ req'[s].op \in {"submit", "flag", "force"}
                          /\ call'[s].op = call[s].op
                          /\ call'[s].at = call[s].at \/ call'[s].at = "served"
      BY <1>0, <3>3 DEF Call
    <3> QED BY <2>2, <3>1, <3>2, <3>4 DEF Recorded, Disqualified
  <2>4. CASE Refused(r)
    <3>1. UNCHANGED vars
      BY <2>4 DEF Refused
    <3>2. Recorded /\ UNCHANGED <<exam, req>> /\ ~removed
      BY <2>2, <3>1 DEF RecordedInvariant, Undisturbed, vars
    <3>3. call[r].op = "force" => Disqualified
      BY <2>4, <3>2 DEF Refused, Recorded
    <3>4. call' = [call EXCEPT ![r].at = "refused"] \/ call' = [call EXCEPT ![r] = NoCall]
      BY <2>4 DEF Refused, Answer, At
    <3>5. \A s \in Reqs : /\ call'[s].at = "autoFailed" => call[s].at = "autoFailed"
                          /\ call[s].op = "force" => call'[s].op = "force" \/ Disqualified
      BY <1>0, <3>3, <3>4 DEF Call, NoCall
    <3> QED BY <2>2, <3>2, <3>5 DEF Recorded, Disqualified
  <2>5. CASE Serves(r)
    <3>1. Handler(r)
      BY <2>5 DEF Serves
    <3>2. ~SubmitWrite(r)
      <4> SUFFICES ASSUME SubmitWrite(r) PROVE FALSE
        OBVIOUS
      <4>1. req[r].op = "submit" /\ accepted' = [accepted EXCEPT ![req[r].student] = @ + 1]
        BY DEF SubmitWrite, Resume
      <4>2. req[r].student = Me
        BY <4>1 DEF CallsMatch
      <4>3. accepted'[Me] = accepted[Me] + 1 /\ accepted[Me] \in Nat
        BY <1>0, <4>1, <4>2, PageAssumption
      <4> QED BY <4>3 DEF Undisturbed
    <3>3. ~removed
      BY <2>2 DEF Undisturbed
    <3>4. /\ \/ exam'.studentAttempts = exam.studentAttempts /\ req[r].op # "force"
                /\ req'[r].op \notin {"flagNotify", "forceNotify"}
             \/ Disqualified'
          /\ accepted' = accepted
      BY <3>1, <3>2, <3>3, HandlerDisqualifies
    <3>5. Recorded
      BY <2>2, <3>4 DEF RecordedInvariant, Undisturbed
    <3>6. CASE Disqualified'
      BY <3>6 DEF Recorded
    <3>7. CASE /\ exam'.studentAttempts = exam.studentAttempts /\ req[r].op # "force"
               /\ req'[r].op \notin {"flagNotify", "forceNotify"}
               /\ ~Disqualified
      <4>1. req[r].op \notin {"flagNotify", "forceNotify"}
        BY <3>5, <3>7 DEF Recorded
      <4>2. \A s \in Reqs : s # r => req'[s] = req[s] /\ call'[s] = call[s]
        BY <1>0, <2>5, <3>1, HandlerStep DEF Serves, Answer, At
      <4>3. call'[r] = call[r] \/ (call[r].at = "served" /\ call'[r].at # "autoFailed")
        BY <1>0, <2>5, <4>1 DEF Serves, Answer, At, Call, NoCall
      <4>4. call[r].at = "served" => call[r].op # "force"
        BY <3>7, <4>1 DEF CallsMatch, HandlersOf
      <4> QED BY <2>2, <3>5, <3>7, <4>2, <4>3, <4>4 DEF Recorded, Disqualified
    <3> QED BY <3>4, <3>6, <3>7 DEF Disqualified
  <2> QED BY <1>4, <2>1, <2>3, <2>4, <2>5 DEF Engine
<1> QED BY <1>1, <1>2, <1>3, <1>4 DEF PageNext

\* What the banner says is so, once the forced auto-fail it may have sent is no longer under way.
THEOREM TerminationStaysRecorded == PageSpec => []TerminationIsRecorded
<1>1. PageSpec => [](TypeOK /\ OverlapInvariant /\ PageInvariant)
  BY PageInvariantHolds
<1>2. PageInit => RecordedInvariant
  BY RecordedInit
<1>3. (TypeOK /\ OverlapInvariant /\ PageInvariant) /\ RecordedInvariant /\ [PageNext]_pageVars
         => RecordedInvariant'
  BY RecordedStep DEF PageInvariant
<1>4. RecordedInvariant => TerminationIsRecorded
  BY DEF RecordedInvariant, Undisturbed, Recorded, TerminationIsRecorded, Disqualified
<1> QED BY <1>1, <1>2, <1>3, <1>4, PTL DEF PageSpec

=============================================================================
