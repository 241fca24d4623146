----------------------------- MODULE ExamProofs -----------------------------
(***************************************************************************)
(* Proofs about the exam engine, for every set of students, questions and  *)
(* configurations and any number of overlapping requests: its types, then  *)
(* what requests cannot break however they overlap.                        *)
(***************************************************************************)
EXTENDS ExamSafety, FiniteSetTheorems, TLAPS

(***************************************************************************)
(* What the columns and the requests are made of.                          *)
(***************************************************************************)

LEMMA NoAttemptType == NoAttempt \in Attempt
BY DEF NoAttempt, Attempt

LEMMA AutoFailType ==
    ASSUME NEW a \in Attempt
    PROVE  autoFailAttempt(a) \in Attempt
BY DEF autoFailAttempt, Attempt

LEMMA RowColumns ==
    ASSUME NEW e \in Row, NEW u \in Students
    PROVE  /\ e.studentAttempts \in [Students -> Attempt]
           /\ e.studentAttempts[u] \in Attempt
           /\ e.studentAttempts[u].attemptCount \in Nat
           /\ e.integrityFlags \in [Students -> FlagList]
           /\ e.integrityFlags[u].flags \subseteq Flag
           /\ e.integrityFlags[u].reviewed \subseteq Flag
BY DEF Row, Attempt, FlagList

\* The fields of the request that resumes with operation op.
LEMMA RequestFields ==
    ASSUME TypeOK, NEW r \in Reqs
    PROVE  /\ req[r] \in Request
           /\ req[r].op # "idle" => req[r].student \in Students
           /\ req[r].op \in {"submit", "grade", "flag", "flagWrite", "force", "review"} =>
                req[r].seen \in Row
           /\ req[r].op = "submit" => req[r].answers \in SUBSET Questions
           /\ req[r].op = "grade" => req[r].question \in Questions /\ req[r].score \in Nat
           /\ req[r].op = "screen" => req[r].id \in Nat
           /\ req[r].op \in {"flag", "flagWrite", "flagNotify"} => req[r].flag \in Flag
<1>1. req[r] \in Request
  BY DEF TypeOK
<1>2. QED
  BY <1>1 DEF Request

LEMMA SubmittedType ==
    ASSUME TypeOK, NEW r \in Reqs, req[r].op = "submit",
           NEW graded \in SUBSET Answered(req[r], "short_answer"),
           NEW grades \in [graded -> UNION {0 .. Marks[x] : x \in graded}]
    PROVE  submittedAttempt(req[r], graded, grades) \in Attempt
<1> DEFINE q == req[r]
           awarded == [x \in Questions |->
                         IF x \in graded THEN grades[x]
                         ELSE IF x \in Answered(q, "mcq") THEN Marks[x] ELSE 0]
<1>1. q.seen \in Row /\ q.student \in Students /\ q.answers \in SUBSET Questions
  BY RequestFields
<1>2. graded \subseteq Questions
  BY <1>1 DEF Answered
<1>3. \A x \in graded : grades[x] \in Nat
  <2>1. \A x \in Questions : Marks[x] \in Nat
    BY QuestionAssumption
  <2>2. UNION {0 .. Marks[x] : x \in graded} \subseteq Nat
    BY <1>2, <2>1
  <2>3. QED
    BY <2>2
<1>4. awarded \in [Questions -> Nat]
  BY <1>3, QuestionAssumption
<1>5. usedAttempts(q.seen, q.student) + 1 \in Nat
  BY <1>1, RowColumns DEF usedAttempts
<1> HIDE DEF awarded
<1>6. submittedAttempt(q, graded, grades) =
        [answers |-> q.answers, awarded |-> awarded,
         passed |-> ~(Answered(q, "essay") # {}) /\ reachesPassingScore(q.seen, awarded),
         pendingEssayReview |-> Answered(q, "essay") # {}, autoFailed |-> FALSE,
         essayGrades |-> graded, attemptCount |-> usedAttempts(q.seen, q.student) + 1]
  BY DEF submittedAttempt, nextAttempt, awarded
<1>7. QED
  BY <1>1, <1>2, <1>4, <1>5, <1>6 DEF Attempt

LEMMA GradedType ==
    ASSUME TypeOK, NEW r \in Reqs, req[r].op = "grade"
    PROVE  gradedAttempt(req[r]) \in Attempt
<1> DEFINE q == req[r]
           a == q.seen.studentAttempts[q.student]
           awarded == [a.awarded EXCEPT ![q.question] = @ + q.score]
<1>1. a \in Attempt /\ q.question \in Questions /\ q.score \in Nat
  BY RequestFields, RowColumns
<1>2. awarded \in [Questions -> Nat]
  BY SMTT(20), <1>1 DEF Attempt
<1>3. reachesPassingScore(q.seen, awarded) \in BOOLEAN
  BY DEF reachesPassingScore
<1>4. gradedAttempt(q) = [a EXCEPT !.awarded = awarded,
                                   !.passed = reachesPassingScore(q.seen, awarded),
                                   !.pendingEssayReview = FALSE,
                                   !.essayGrades = @ \cup {q.question}]
  BY DEF gradedAttempt
<1>5. a.essayGrades \cup {q.question} \in SUBSET Questions
  BY <1>1 DEF Attempt
<1> HIDE DEF a, awarded
<1>6. QED
  BY <1>1, <1>2, <1>3, <1>4, <1>5 DEF Attempt

LEMMA WriteType ==
    ASSUME TypeOK, NEW attempts \in [Students -> Attempt], NEW flags \in [Students -> FlagList]
    PROVE  /\ WriteAttempts(attempts) => exam' \in Row
           /\ WriteFlags(flags) => exam' \in Row
           /\ WriteBoth(attempts, flags) => exam' \in Row
<1>1. exam \in Row
  BY DEF TypeOK
<1>2. [exam EXCEPT !.studentAttempts = attempts] \in Row
  BY <1>1 DEF Row
<1>3. [exam EXCEPT !.integrityFlags = flags] \in Row
  BY <1>1 DEF Row
<1>4. [exam EXCEPT !.studentAttempts = attempts, !.integrityFlags = flags] \in Row
  BY <1>1 DEF Row
<1>5. QED
  BY <1>1, <1>2, <1>3, <1>4 DEF WriteAttempts, WriteFlags, WriteBoth

LEMMA SlotType ==
    ASSUME TypeOK, NEW r \in Reqs, NEW request \in Request, NEW op
    PROVE  /\ Start(r, request) => req' \in [Reqs -> Request] /\ started' \in Nat
           /\ Resume(r, op, request) => req' \in [Reqs -> Request] /\ started' \in Nat
BY DEF TypeOK, Start, Resume

LEMMA NoReqType == NoReq \in Request
BY DEF NoReq, Request

LEMMA CreatedType ==
    ASSUME NEW dto \in Dtos
    PROVE  Created(dto) \in Row
<1>1. dto \in Dto
  BY RequestAssumption
<1>2. [u \in Students |-> NoAttempt] \in [Students -> Attempt]
  BY NoAttemptType
<1>3. [u \in Students |-> NoFlags] \in [Students -> FlagList]
  BY DEF NoFlags, FlagList
<1>4. Created(dto).status \in Statuses
  BY <1>1 DEF Created, Dto, Optional, Statuses
<1>5. Created(dto).maxAttempts \in Nat \ {0}
  BY <1>1 DEF Created, Dto, Optional
<1>6. Created(dto).autoFailOnCheat \in BOOLEAN
  BY <1>1 DEF Created, Dto, Optional
<1>7. Created(dto).window \in Windows /\ Created(dto).passingScore \in Nat
      /\ Created(dto).questions \in SUBSET Questions
  BY <1>1 DEF Created, Dto
<1>8. QED
  BY <1>2, <1>3, <1>4, <1>5, <1>6, <1>7 DEF Created, Row

LEMMA PatchedType ==
    ASSUME NEW e \in Row, NEW p \in Patches
    PROVE  Patched(e, p) \in Row
<1>1. p \in Patch
  BY RequestAssumption
<1> DEFINE status == IF p.status # Undefined THEN p.status
                     ELSE IF p.window # Undefined THEN "scheduled" ELSE e.status
           phase == IF p.duration = Undefined THEN e.window ELSE p.duration
           window == IF p.window = Undefined /\ e.window \in {"open", "closed"} THEN phase
                     ELSE IF p.window = Undefined THEN e.window ELSE p.window
           maxAttempts == IF p.maxAttempts = Undefined THEN e.maxAttempts ELSE p.maxAttempts
           passingScore == IF p.passingScore = Undefined THEN e.passingScore ELSE p.passingScore
           autoFailOnCheat == IF p.autoFailOnCheat = Undefined THEN e.autoFailOnCheat
                              ELSE p.autoFailOnCheat
           questions == IF p.questions = Undefined THEN e.questions ELSE p.questions
<1>2. Patched(e, p) = [e EXCEPT !.status = status, !.window = window,
                                !.maxAttempts = maxAttempts, !.passingScore = passingScore,
                                !.autoFailOnCheat = autoFailOnCheat, !.questions = questions]
  BY DEF Patched
<1>3. status \in Statuses
  BY <1>1 DEF Row, Patch, Optional, Statuses
<1>4. window \in Windows
  BY <1>1 DEF Row, Patch, Optional, Windows
<1>5. maxAttempts \in Nat \ {0} /\ passingScore \in Nat
  BY <1>1 DEF Row, Patch, Optional
<1>6. autoFailOnCheat \in BOOLEAN
  BY <1>1 DEF Row, Patch, Optional
<1>7. questions \in SUBSET Questions
  BY <1>1 DEF Row, Patch, Optional
<1> HIDE DEF status, window, maxAttempts, passingScore, autoFailOnCheat, questions
<1>8. QED
  BY <1>2, <1>3, <1>4, <1>5, <1>6, <1>7 DEF Row

(***************************************************************************)
(* Type correctness.                                                       *)
(***************************************************************************)

LEMMA TeacherType ==
    ASSUME TypeOK, Teacher
    PROVE  TypeOK'
<1>1. ASSUME NEW p \in Patches, update(p) PROVE TypeOK'
  <2>1. exam' \in Row
    BY <1>1, PatchedType DEF update, TypeOK
  <2>2. QED
    BY <1>1, <2>1 DEF update, TypeOK, observed
<1>2. CASE remove
  BY <1>2 DEF remove, TypeOK, observed
<1>3. ASSUME NEW r \in Reqs, NEW u \in Students, saveEssayGrade(r, u) PROVE TypeOK'
  <2>1. PICK question \in exam.questions : \E given \in 0 .. Marks[question] :
          Start(r, [op |-> "grade", student |-> u, question |-> question,
                    score |-> given, seen |-> exam])
    BY <1>3 DEF saveEssayGrade
  <2>2. PICK given \in 0 .. Marks[question] :
          Start(r, [op |-> "grade", student |-> u, question |-> question,
                    score |-> given, seen |-> exam])
    BY <2>1
  <2>3. question \in Questions
    BY DEF TypeOK, Row
  <2>4. given \in Nat
    BY <2>3, QuestionAssumption
  <2>5. [op |-> "grade", student |-> u, question |-> question,
         score |-> given, seen |-> exam] \in Request
    BY <2>3, <2>4 DEF Request, TypeOK
  <2>6. req' \in [Reqs -> Request] /\ started' \in Nat
    BY <2>2, <2>5, SlotType
  <2>7. QED
    BY <1>3, <2>6 DEF saveEssayGrade, TypeOK, observed
<1>4. ASSUME NEW r \in Reqs, NEW u \in Students, markFlagReviewed(r, u) PROVE TypeOK'
  <2>1. PICK flag \in reported[u] :
          Start(r, [op |-> "review", student |-> u, id |-> flag.id, seen |-> exam])
    BY <1>4 DEF markFlagReviewed
  <2>2. flag.id \in Nat
    BY DEF TypeOK, Flag
  <2>3. [op |-> "review", student |-> u, id |-> flag.id, seen |-> exam] \in Request
    BY <2>2 DEF Request, TypeOK
  <2>4. req' \in [Reqs -> Request] /\ started' \in Nat
    BY <2>1, <2>3, SlotType
  <2>5. QED
    BY <1>4, <2>4 DEF markFlagReviewed, TypeOK, observed
<1>5. QED
  BY <1>1, <1>2, <1>3, <1>4 DEF Teacher

LEMMA FlagRequestType ==
    ASSUME TypeOK, NEW u \in Students, NEW type \in ViolationTypes, NEW id \in Nat
    PROVE  /\ flagRequest(u, type, id) \in Request
           /\ flagRequest(u, type, id).flag \in Flag
BY DEF flagRequest, Request, Flag, TypeOK

LEMMA ClientType ==
    ASSUME TypeOK, Client
    PROVE  TypeOK'
<1> PICK r \in Reqs, u \in Students :
       \/ submitExam(r, u)
       \/ reportIntegrityFlag(r, u)
       \/ screenCheck(r, u)
       \/ forceAutoFail(r, u)
  BY DEF Client
<1>1. CASE submitExam(r, u)
  <2>1. PICK answers \in AnswerSheets :
          Start(r, [op |-> "submit", student |-> u, answers |-> answers, seen |-> exam])
    BY <1>1 DEF submitExam
  <2>2. [op |-> "submit", student |-> u, answers |-> answers, seen |-> exam] \in Request
    BY QuestionAssumption DEF Request, TypeOK
  <2>3. req' \in [Reqs -> Request] /\ started' \in Nat
    BY <2>1, <2>2, SlotType
  <2>4. QED
    BY <1>1, <2>3 DEF submitExam, TypeOK, observed
<1>2. CASE reportIntegrityFlag(r, u)
  <2>1. PICK type \in Violations :
          /\ Start(r, flagRequest(u, type, started))
          /\ Report(flagRequest(u, type, started).flag, u)
    BY <1>2 DEF reportIntegrityFlag
  <2>2. /\ flagRequest(u, type, started) \in Request
        /\ flagRequest(u, type, started).flag \in Flag
    BY FlagRequestType DEF ViolationTypes, TypeOK
  <2>3. req' \in [Reqs -> Request] /\ started' \in Nat
    BY <2>1, <2>2, SlotType
  <2>4. reported' \in [Students -> SUBSET Flag]
    BY <2>1, <2>2 DEF Report, TypeOK
  <2>5. QED
    BY <1>2, <2>3, <2>4 DEF reportIntegrityFlag, TypeOK
<1>3. CASE screenCheck(r, u)
  <2>1. [op |-> "screen", student |-> u, id |-> started] \in Request
    BY DEF Request, TypeOK
  <2>2. req' \in [Reqs -> Request] /\ started' \in Nat
    BY <1>3, <2>1, SlotType DEF screenCheck
  <2>3. QED
    BY <1>3, <2>2 DEF screenCheck, TypeOK, observed
<1>4. CASE forceAutoFail(r, u)
  <2>1. [op |-> "force", student |-> u, seen |-> exam] \in Request
    BY DEF Request, TypeOK
  <2>2. req' \in [Reqs -> Request] /\ started' \in Nat
    BY <1>4, <2>1, SlotType DEF forceAutoFail
  <2>3. QED
    BY <1>4, <2>2 DEF forceAutoFail, TypeOK
<1>5. QED
  BY <1>1, <1>2, <1>3, <1>4

LEMMA ServerType ==
    ASSUME TypeOK, NEW r \in Reqs, req[r].op # "idle"
    PROVE  /\ SubmitWrite(r) \/ GradeWrite(r) \/ ReviewWrite(r) => TypeOK'
           /\ FlagAutoFail(r) \/ FlagNotify(r) \/ FlagAlert(r) \/ FlagWrite(r) => TypeOK'
           /\ ScreenClear(r) \/ ScreenSuspicious(r) => TypeOK'
           /\ ForceWrite(r) \/ ForceNotify(r) => TypeOK'
<1> DEFINE q == req[r]
<1>1. q.student \in Students
  BY RequestFields
<1>2. ASSUME SubmitWrite(r) PROVE TypeOK'
  <2>1. q.op = "submit" /\ q.seen \in Row
    BY <1>2, RequestFields DEF SubmitWrite, Resume
  <2>2. PICK graded \in SUBSET Answered(q, "short_answer") :
        \E grades \in [graded -> UNION {0 .. Marks[x] : x \in graded}] :
           WriteAttempts(withAttempt(q, submittedAttempt(q, graded, grades)))
    BY <1>2 DEF SubmitWrite
  <2>3. PICK grades \in [graded -> UNION {0 .. Marks[x] : x \in graded}] :
           WriteAttempts(withAttempt(q, submittedAttempt(q, graded, grades)))
    BY <2>2
  <2>4. submittedAttempt(q, graded, grades) \in Attempt
    BY <2>1, SubmittedType
  <2>5. exam' \in Row
    BY <1>1, <2>1, <2>3, <2>4, RowColumns, WriteType DEF withAttempt
  <2>6. req' \in [Reqs -> Request] /\ started' \in Nat
    BY <1>2, NoReqType, SlotType DEF SubmitWrite
  <2>7. accepted' \in [Students -> Nat]
    BY <1>1, <1>2 DEF SubmitWrite, TypeOK
  <2>8. QED
    BY <1>2, <2>5, <2>6, <2>7 DEF SubmitWrite, TypeOK
<1>3. ASSUME GradeWrite(r) PROVE TypeOK'
  <2>1. q.op = "grade" /\ q.seen \in Row
    BY <1>3, RequestFields DEF GradeWrite, Resume
  <2>2. exam' \in Row
    BY <1>1, <1>3, <2>1, GradedType, RowColumns, WriteType DEF withAttempt, GradeWrite
  <2>3. req' \in [Reqs -> Request] /\ started' \in Nat
    BY <1>3, NoReqType, SlotType DEF GradeWrite
  <2>4. QED
    BY <1>3, <2>2, <2>3 DEF GradeWrite, TypeOK, observed
<1>4. ASSUME ReviewWrite(r) PROVE TypeOK'
  <2>1. q.op = "review" /\ q.seen \in Row
    BY <1>4, RequestFields DEF ReviewWrite, Resume
  <2>2. matchingFlags(q) \subseteq Flag
    BY <1>1, <2>1, RowColumns DEF matchingFlags
  <2>3. [q.seen.integrityFlags EXCEPT ![q.student].reviewed = @ \cup matchingFlags(q)]
          \in [Students -> FlagList]
    <3>1. PICK lists \in [Students -> FlagList] : lists = q.seen.integrityFlags
      BY <1>1, <2>1, RowColumns
    <3>2. [lists[q.student] EXCEPT !.reviewed = @ \cup matchingFlags(q)] \in FlagList
      BY <1>1, <2>2 DEF FlagList
    <3> QED
      BY <3>1, <3>2
  <2>4. exam' \in Row
    BY <1>4, <2>3, WriteType DEF ReviewWrite, TypeOK, Row
  <2>5. req' \in [Reqs -> Request] /\ started' \in Nat
    BY <1>4, NoReqType, SlotType DEF ReviewWrite
  <2>6. QED
    BY <1>4, <2>4, <2>5 DEF ReviewWrite, TypeOK, observed
<1>5. ASSUME q.op \in {"flag", "flagWrite"}
      PROVE  /\ updatedFlags(q) \in [Students -> FlagList]
             /\ withAttempt(q, autoFailAttempt(q.seen.studentAttempts[q.student]))
                  \in [Students -> Attempt]
             /\ q.seen \in Row /\ q.flag \in Flag
  <2>1. q.seen \in Row /\ q.flag \in Flag
    BY <1>5, RequestFields
  <2>2. userFlags(q) \subseteq Flag
    BY <1>1, <2>1, RowColumns DEF userFlags
  <2>3. updatedFlags(q) \in [Students -> FlagList]
    BY <1>1, <2>1, <2>2, RowColumns DEF updatedFlags, FlagList
  <2>4. QED
    BY <1>1, <2>1, <2>3, RowColumns, AutoFailType DEF withAttempt
<1>6. ASSUME FlagAutoFail(r) PROVE TypeOK'
  <2>1. q.op = "flag"
    BY <1>6 DEF FlagAutoFail, Resume
  <2>2. exam' \in Row
    BY <1>5, <1>6, <2>1, WriteType DEF FlagAutoFail
  <2>3. [op |-> "flagNotify", student |-> q.student, flag |-> q.flag] \in Request
    BY <1>1, <1>5, <2>1 DEF Request
  <2>4. req' \in [Reqs -> Request] /\ started' \in Nat
    BY <1>6, <2>3, SlotType DEF FlagAutoFail
  <2>5. QED
    BY <1>6, <2>2, <2>4 DEF FlagAutoFail, TypeOK, observed
<1>7. ASSUME FlagNotify(r) PROVE TypeOK'
  <2>1. q.flag \in Flag
    BY <1>7, RequestFields DEF FlagNotify, Resume
  <2>2. req' \in [Reqs -> Request] /\ started' \in Nat
    BY <1>7, NoReqType, SlotType DEF FlagNotify
  <2>3. QED
    BY <1>1, <1>7, <2>1, <2>2 DEF FlagNotify, Acknowledge, TypeOK
<1>8. ASSUME FlagAlert(r) PROVE TypeOK'
  <2>1. q.op = "flag"
    BY <1>8 DEF FlagAlert, Resume
  <2>2. [q EXCEPT !.op = "flagWrite"] \in Request
    <3>1. q \in [op : {"flag", "flagWrite"}, student : Students, flag : Flag, seen : Row]
      BY <2>1, RequestFields DEF Request
    <3>2. QED
      BY <3>1 DEF Request
  <2>3. req' \in [Reqs -> Request] /\ started' \in Nat
    BY <1>8, <2>2, SlotType DEF FlagAlert
  <2>4. High({q.flag}) \subseteq Flag
    BY <1>5, <2>1 DEF High
  <2>5. QED
    BY <1>8, <2>3, <2>4 DEF FlagAlert, TypeOK
<1>9. ASSUME FlagWrite(r) PROVE TypeOK'
  <2>1. q.op = "flagWrite"
    BY <1>9 DEF FlagWrite, Resume
  <2>2. exam' \in Row
    BY <1>5, <1>9, <2>1, WriteType DEF FlagWrite, TypeOK, Row
  <2>3. req' \in [Reqs -> Request] /\ started' \in Nat
    BY <1>9, NoReqType, SlotType DEF FlagWrite
  <2>4. QED
    BY <1>1, <1>5, <1>9, <2>1, <2>2, <2>3 DEF FlagWrite, Acknowledge, TypeOK
<1>10. ASSUME ScreenClear(r) PROVE TypeOK'
  <2>1. req' \in [Reqs -> Request] /\ started' \in Nat
    BY <1>10, NoReqType, SlotType DEF ScreenClear
  <2>2. QED
    BY <1>10, <2>1 DEF ScreenClear, TypeOK, observed
<1>11. ASSUME ScreenSuspicious(r) PROVE TypeOK'
  <2>1. q.id \in Nat
    BY <1>11, RequestFields DEF ScreenSuspicious, Resume
  <2>2. /\ flagRequest(q.student, "suspicious_screen", q.id) \in Request
        /\ flagRequest(q.student, "suspicious_screen", q.id).flag \in Flag
    BY <1>1, <2>1, FlagRequestType DEF ViolationTypes
  <2>3. req' \in [Reqs -> Request] /\ started' \in Nat
    BY <1>11, <2>2, SlotType DEF ScreenSuspicious
  <2>4. reported' \in [Students -> SUBSET Flag]
    BY <1>1, <1>11, <2>2 DEF ScreenSuspicious, Report, TypeOK
  <2>5. QED
    BY <1>11, <2>3, <2>4 DEF ScreenSuspicious, TypeOK
<1>12. ASSUME ForceWrite(r) PROVE TypeOK'
  <2>1. q.seen \in Row
    BY <1>12, RequestFields DEF ForceWrite, Resume
  <2>2. exam' \in Row
    BY <1>1, <1>12, <2>1, AutoFailType, RowColumns, WriteType DEF withAttempt, ForceWrite
  <2>3. [op |-> "forceNotify", student |-> q.student] \in Request
    BY <1>1 DEF Request
  <2>4. req' \in [Reqs -> Request] /\ started' \in Nat
    BY <1>12, <2>3, SlotType DEF ForceWrite
  <2>5. QED
    BY <1>12, <2>2, <2>4 DEF ForceWrite, TypeOK, observed
<1>13. ASSUME ForceNotify(r) PROVE TypeOK'
  <2>1. req' \in [Reqs -> Request] /\ started' \in Nat
    BY <1>13, NoReqType, SlotType DEF ForceNotify
  <2>2. QED
    BY <1>1, <1>13, <2>1 DEF ForceNotify, TypeOK
<1>14. QED
  BY <1>2, <1>3, <1>4, <1>6, <1>7, <1>8, <1>9, <1>10, <1>11, <1>12, <1>13

\* Every reachable state is typed: rows, columns and the copies of the row that
\* overlapping requests carry stay what the code takes them for.
THEOREM TypeCorrect == Spec => []TypeOK
<1>1. Init => TypeOK
  <2> SUFFICES ASSUME Init PROVE TypeOK
    OBVIOUS
  <2>1. exam \in Row
    BY CreatedType DEF Init
  <2>2. req \in [Reqs -> Request]
    BY NoReqType DEF Init
  <2>3. /\ removed \in BOOLEAN /\ started \in Nat /\ accepted \in [Students -> Nat]
        /\ forced \subseteq Students /\ alerts \subseteq Flag \cup Students
    BY DEF Init
  <2>4. reported \in [Students -> SUBSET Flag] /\ acked \in [Students -> SUBSET Flag]
    BY DEF Init
  <2>5. QED
    BY <2>1, <2>2, <2>3, <2>4 DEF TypeOK
<1>2. TypeOK /\ [Next]_vars => TypeOK'
  <2> SUFFICES ASSUME TypeOK, [Next]_vars PROVE TypeOK'
    OBVIOUS
  <2>1. CASE Teacher
    BY <2>1, TeacherType
  <2>2. CASE Client
    BY <2>2, ClientType
  <2>3. CASE Server
    <3>1. PICK r \in Reqs :
             \/ SubmitWrite(r) \/ GradeWrite(r) \/ ReviewWrite(r)
             \/ FlagAutoFail(r) \/ FlagNotify(r) \/ FlagAlert(r) \/ FlagWrite(r)
             \/ ScreenClear(r) \/ ScreenSuspicious(r)
             \/ ForceWrite(r) \/ ForceNotify(r)
      BY <2>3 DEF Server
    <3>2. req[r].op # "idle"
      BY <3>1 DEF SubmitWrite, GradeWrite, ReviewWrite, FlagAutoFail, FlagNotify, FlagAlert,
                  FlagWrite, ScreenClear, ScreenSuspicious, ForceWrite, ForceNotify, Resume
    <3>3. QED
      BY <3>1, <3>2, ServerType
  <2>4. ASSUME NEW r \in Reqs, Abort(r) PROVE TypeOK'
    BY <2>4, NoReqType DEF Abort, TypeOK, observed
  <2>5. CASE Tick
    <3>1. exam' \in Row
      BY <2>5 DEF Tick, TypeOK, Row, Windows
    <3>2. QED
      BY <2>5, <3>1 DEF Tick, TypeOK, observed
  <2>6. CASE UNCHANGED vars
    BY <2>6 DEF vars, TypeOK
  <2>7. QED
    BY <2>1, <2>2, <2>3, <2>4, <2>5, <2>6 DEF Next
<1>3. QED
  BY <1>1, <1>2, PTL DEF Spec

(***************************************************************************)
(* OverlapInvariant is inductive.  A sound row stays sound as clients ask  *)
(* for more (RowGrows), and each write puts one sound attempt or flag list *)
(* into columns of a sound row (AttemptsWritten, FlagsWritten).            *)
(***************************************************************************)

LEMMA LimitsType == ConfiguredLimits \subseteq Nat \ {0}
<1>1. ASSUME NEW dto \in Dtos PROVE Created(dto).maxAttempts \in Nat \ {0}
  BY CreatedType DEF Row
<1>2. ASSUME NEW p \in Patches, p.maxAttempts # Undefined PROVE p.maxAttempts \in Nat \ {0}
  BY <1>2, RequestAssumption DEF Patch, Optional
<1>3. QED
  BY <1>1, <1>2 DEF ConfiguredLimits

\* More reports are at least as much evidence.
LEMMA EvidenceGrows ==
    ASSUME NEW u, NEW old, NEW new, NEW forcing, NEW forcing2,
           old[u] \subseteq new[u], IsFiniteSet(new[u]), forcing \subseteq forcing2,
           Evidence(u, old, forcing)
    PROVE  Evidence(u, new, forcing2)
<1>1. High(old[u]) \subseteq High(new[u])
  BY DEF High
<1>2. IsFiniteSet(High(new[u]))
  BY FS_Subset DEF High
<1>3. /\ Cardinality(High(old[u])) \in Nat /\ Cardinality(High(new[u])) \in Nat
      /\ Cardinality(High(old[u])) <= Cardinality(High(new[u]))
  BY <1>1, <1>2, FS_Subset, FS_CardinalityType
<1>4. QED
  BY <1>3 DEF Evidence, HIGH_VIOLATION_THRESHOLD

LEMMA RowGrows ==
    ASSUME NEW e, NEW old, NEW new, NEW forcing, NEW forcing2,
           \A u \in Students : old[u] \subseteq new[u] /\ IsFiniteSet(new[u]),
           forcing \subseteq forcing2,
           RowSound(e, old, forcing)
    PROVE  RowSound(e, new, forcing2)
<1>1. ASSUME NEW u \in Students
      PROVE  /\ AttemptSound(e.studentAttempts[u], u, new, forcing2)
             /\ FlagListSound(e.integrityFlags[u], new[u])
  <2>1. FlagListSound(e.integrityFlags[u], new[u])
    BY DEF RowSound, FlagListSound
  <2>2. AttemptSound(e.studentAttempts[u], u, old, forcing)
    BY DEF RowSound
  <2>3. QED
    BY <2>1, <2>2, EvidenceGrows DEF AttemptSound
<1>2. QED
  BY <1>1 DEF RowSound

LEMMA RequestGrows ==
    ASSUME NEW q \in Request, NEW old, NEW new, NEW forcing, NEW forcing2, NEW sent, NEW sent2,
           \A u \in Students : old[u] \subseteq new[u] /\ IsFiniteSet(new[u]),
           forcing \subseteq forcing2, sent \subseteq sent2,
           RequestSound(q, old, forcing, sent)
    PROVE  RequestSound(q, new, forcing2, sent2)
<1>1. q.op \in SeenOps => RowSound(q.seen, new, forcing2)
  BY RowGrows DEF RequestSound
<1>2. q.op \in {"flag", "flagWrite", "flagNotify"} => q.student \in Students
  BY DEF Request
<1>3. QED
  BY <1>1, <1>2 DEF RequestSound

\* One new sound attempt in a sound column, whatever the row it is written to.
LEMMA AttemptsWritten ==
    ASSUME NEW e \in Row, NEW seen \in Row, NEW reports, NEW forcing, NEW u \in Students,
           NEW a, RowSound(e, reports, forcing), RowSound(seen, reports, forcing),
           AttemptSound(a, u, reports, forcing)
    PROVE  RowSound([e EXCEPT !.studentAttempts = [seen.studentAttempts EXCEPT ![u] = a]],
                    reports, forcing)
BY RowColumns DEF RowSound, Row

LEMMA FlagsWritten ==
    ASSUME NEW e \in Row, NEW seen \in Row, NEW reports, NEW forcing, NEW u \in Students,
           NEW list, RowSound(e, reports, forcing), RowSound(seen, reports, forcing),
           FlagListSound(list, reports[u])
    PROVE  RowSound([e EXCEPT !.integrityFlags = [seen.integrityFlags EXCEPT ![u] = list]],
                    reports, forcing)
BY RowColumns DEF RowSound, Row

\* A step that replaces one request, adds to what has been observed and leaves a
\* sound row and a sound request keeps the invariant.
LEMMA StepSound ==
    ASSUME TypeOK, OverlapInvariant, NEW r \in Reqs, NEW q,
           req' = [req EXCEPT ![r] = q],
           \A u \in Students : reported[u] \subseteq reported'[u] /\ IsFiniteSet(reported'[u]),
           forced \subseteq forced', alerts \subseteq alerts',
           RequestSound(q, reported', forced', alerts'),
           RowSound(exam', reported', forced'),
           HighFlagsAreAlerted'
    PROVE  OverlapInvariant'
<1>1. ASSUME NEW s \in Reqs PROVE RequestSound(req'[s], reported', forced', alerts')
  <2>1. CASE s = r
    BY <2>1 DEF TypeOK
  <2>2. CASE s # r
    <3>1. req'[s] = req[s] /\ req[s] \in Request
      BY <2>2 DEF TypeOK
    <3>2. RequestSound(req[s], reported, forced, alerts)
      BY DEF OverlapInvariant
    <3>3. QED
      BY <3>1, <3>2, RequestGrows
  <2>3. QED
    BY <2>1, <2>2
<1>2. QED
  BY <1>1 DEF OverlapInvariant

\* The common case: clients have observed nothing new.
LEMMA QuietStepSound ==
    ASSUME TypeOK, OverlapInvariant, NEW r \in Reqs, NEW q,
           req' = [req EXCEPT ![r] = q], UNCHANGED <<acked, reported, forced, alerts>>,
           RequestSound(q, reported, forced, alerts),
           RowSound(exam', reported, forced)
    PROVE  OverlapInvariant'
<1>1. /\ \A u \in Students : reported[u] \subseteq reported'[u] /\ IsFiniteSet(reported'[u])
      /\ HighFlagsAreAlerted'
  BY DEF OverlapInvariant, HighFlagsAreAlerted
<1>2. RequestSound(q, reported', forced', alerts') /\ RowSound(exam', reported', forced')
  BY SMT
<1>3. forced \subseteq forced' /\ alerts \subseteq alerts'
  OBVIOUS
<1>4. QED
  BY <1>1, <1>2, <1>3, StepSound

LEMMA IdleSound ==
    ASSUME NEW reports, NEW forcing, NEW sent
    PROVE  RequestSound(NoReq, reports, forcing, sent)
BY DEF RequestSound, NoReq, SeenOps

LEMMA PatchedSound ==
    ASSUME NEW e \in Row, NEW p \in Patches, NEW reports, NEW forcing,
           RowSound(e, reports, forcing)
    PROVE  RowSound(Patched(e, p), reports, forcing)
<1>1. /\ Patched(e, p).studentAttempts = e.studentAttempts
      /\ Patched(e, p).integrityFlags = e.integrityFlags
  BY DEF Patched, Row
<1>2. Patched(e, p).maxAttempts =
         IF p.maxAttempts = Undefined THEN e.maxAttempts ELSE p.maxAttempts
  BY DEF Patched, Row
<1>3. Patched(e, p).maxAttempts \in ConfiguredLimits
  BY <1>2 DEF ConfiguredLimits, RowSound
<1>4. QED
  BY <1>1, <1>3 DEF RowSound

LEMMA CreatedSound ==
    ASSUME NEW dto \in Dtos, NEW reports, NEW forcing
    PROVE  RowSound(Created(dto), reports, forcing)
<1>1. Created(dto).maxAttempts \in ConfiguredLimits
  BY DEF ConfiguredLimits
<1>2. ASSUME NEW u \in Students
      PROVE  /\ AttemptSound(NoAttempt, u, reports, forcing)
             /\ FlagListSound(NoFlags, reports[u])
  <2>1. NoAttempt.attemptCount = 0 /\ ~NoAttempt.autoFailed
    BY DEF NoAttempt
  <2>2. PICK limit \in ConfiguredLimits : limit \in Nat
    BY <1>1, LimitsType
  <2>3. WithinLimits(NoAttempt)
    BY <2>1, <2>2, LimitsType DEF WithinLimits
  <2>4. QED
    BY <2>3 DEF AttemptSound, PassIsEarned, NoAttempt, FlagListSound, NoFlags
<1>3. QED
  BY <1>1, <1>2 DEF RowSound, Created

(***************************************************************************)
(* The attempts that handlers write are sound.                             *)
(***************************************************************************)

LEMMA SubmittedSound ==
    ASSUME NEW q, NEW graded, NEW grades, NEW reports, NEW forcing,
           q.op = "submit", q.seen \in Row, q.student \in Students,
           RequestSound(q, reports, forcing, {})
    PROVE  AttemptSound(submittedAttempt(q, graded, grades), q.student, reports, forcing)
<1> DEFINE a == submittedAttempt(q, graded, grades)
<1>1. /\ a.attemptCount = usedAttempts(q.seen, q.student) + 1
      /\ a.autoFailed = FALSE
      /\ a.passed => ~a.pendingEssayReview
  BY DEF submittedAttempt, nextAttempt
<1>2. /\ q.seen.maxAttempts \in ConfiguredLimits
      /\ usedAttempts(q.seen, q.student) < q.seen.maxAttempts
      /\ usedAttempts(q.seen, q.student) \in Nat
  BY RowColumns DEF RequestSound, RowSound, SeenOps, usedAttempts
<1> HIDE DEF a
<1>3. WithinLimits(a)
  <2>1. q.seen.maxAttempts \in Nat
    BY <1>2, LimitsType
  <2>2. a.attemptCount <= q.seen.maxAttempts + 0
    BY <1>1, <1>2, <2>1
  <2>3. QED
    BY <1>1, <1>2, <2>2 DEF WithinLimits
<1>4. QED
  BY <1>1, <1>3 DEF AttemptSound, PassIsEarned, a

LEMMA GradedSound ==
    ASSUME NEW q, NEW reports, NEW forcing, q.seen \in Row, q.student \in Students,
           q.question \in Questions, RowSound(q.seen, reports, forcing)
    PROVE  AttemptSound(gradedAttempt(q), q.student, reports, forcing)
<1> DEFINE a == q.seen.studentAttempts[q.student]
           g == gradedAttempt(q)
<1>1. a \in Attempt /\ AttemptSound(a, q.student, reports, forcing)
  BY RowColumns DEF RowSound
<1> DEFINE awarded == [a.awarded EXCEPT ![q.question] = @ + q.score]
           passed == reachesPassingScore(q.seen, awarded)
<1>2. /\ g.attemptCount = a.attemptCount /\ g.autoFailed = a.autoFailed
      /\ g.pendingEssayReview = FALSE /\ q.question \in g.essayGrades
  <2>1. g = [a EXCEPT !.awarded = awarded, !.passed = passed, !.pendingEssayReview = FALSE,
                      !.essayGrades = @ \cup {q.question}]
    BY DEF gradedAttempt
  <2> HIDE DEF a, g, awarded, passed
  <2>2. QED
    BY <1>1, <2>1 DEF Attempt
<1> HIDE DEF a, g
<1>3. WithinLimits(g)
  BY <1>1, <1>2 DEF WithinLimits, AttemptSound
<1>4. PassIsEarned(g)
  BY <1>2 DEF PassIsEarned
<1>5. QED
  BY <1>1, <1>2, <1>3, <1>4 DEF AttemptSound, g

\* A disqualification follows an attempt that was within a limit.
LEMMA AutoFailSound ==
    ASSUME NEW seen \in Row, NEW u \in Students, NEW reports, NEW forcing,
           RowSound(seen, reports, forcing), ~seen.studentAttempts[u].autoFailed,
           Evidence(u, reports, forcing)
    PROVE  AttemptSound(autoFailAttempt(seen.studentAttempts[u]), u, reports, forcing)
<1> DEFINE a == seen.studentAttempts[u]
           f == autoFailAttempt(a)
<1>1. a.attemptCount \in Nat /\ WithinLimits(a)
  BY RowColumns DEF RowSound, AttemptSound
<1>2. /\ f.attemptCount = a.attemptCount + 1 /\ f.autoFailed = TRUE /\ f.passed = FALSE
      /\ \A x \in Questions : f.awarded[x] = 0
  BY DEF autoFailAttempt
<1> HIDE DEF f
<1>3. PICK limit \in ConfiguredLimits : a.attemptCount <= limit
  BY <1>1, LimitsType DEF WithinLimits
<1> HIDE DEF a
<1>4. WithinLimits(f)
  BY <1>1, <1>2, <1>3, LimitsType DEF WithinLimits
<1>5. QED
  BY <1>2, <1>4 DEF AttemptSound, PassIsEarned, f, a

\* Three high flags in a list that holds nothing but the student's reports are evidence.
LEMMA FlagsAreEvidence ==
    ASSUME NEW q, NEW reports, NEW forcing, q.student \in Students, q.seen \in Row,
           RowSound(q.seen, reports, forcing), q.flag \in reports[q.student],
           IsFiniteSet(reports[q.student]), autoFails(q)
    PROVE  Evidence(q.student, reports, forcing)
<1>1. userFlags(q) \subseteq reports[q.student]
  BY DEF userFlags, RowSound, FlagListSound
<1>2. High(userFlags(q)) \subseteq High(reports[q.student])
  BY <1>1 DEF High
<1>3. IsFiniteSet(High(reports[q.student]))
  BY FS_Subset DEF High
<1>4. /\ Cardinality(High(userFlags(q))) \in Nat
      /\ Cardinality(High(reports[q.student])) \in Nat
      /\ Cardinality(High(userFlags(q))) <= Cardinality(High(reports[q.student]))
  BY <1>2, <1>3, FS_Subset, FS_CardinalityType
<1>5. QED
  BY <1>4 DEF autoFails, Evidence, HIGH_VIOLATION_THRESHOLD

(***************************************************************************)
(* The steps.                                                              *)
(***************************************************************************)

\* A request that starts without a report and carries the row it has read.
LEMMA StartSound ==
    ASSUME TypeOK, OverlapInvariant, NEW r \in Reqs, NEW q,
           req' = [req EXCEPT ![r] = q], UNCHANGED <<exam, acked, reported, forced, alerts>>,
           RequestSound(q, reported, forced, alerts)
    PROVE  OverlapInvariant'
<1>1. RowSound(exam', reported, forced)
  BY DEF OverlapInvariant
<1>2. QED
  BY <1>1, QuietStepSound

\* A request that starts by building flag f from a report of student u.
LEMMA ReportSound ==
    ASSUME TypeOK, OverlapInvariant, NEW r \in Reqs, NEW u \in Students,
           NEW type \in ViolationTypes, NEW id \in Nat,
           req' = [req EXCEPT ![r] = flagRequest(u, type, id)],
           Report([id |-> id, type |-> type], u),
           UNCHANGED <<exam, acked, forced, alerts>>
    PROVE  OverlapInvariant'
<1> DEFINE f == [id |-> id, type |-> type]
           q == flagRequest(u, type, id)
<1>1. reported' = [reported EXCEPT ![u] = @ \cup {f}]
  BY DEF Report
<1>2. ASSUME NEW v \in Students
      PROVE  reported[v] \subseteq reported'[v] /\ IsFiniteSet(reported'[v])
  <2>1. IsFiniteSet(reported[v])
    BY DEF OverlapInvariant
  <2>2. IsFiniteSet(reported[v] \cup {f})
    BY <2>1, FS_AddElement
  <2>3. QED
    BY <1>1, <2>1, <2>2 DEF TypeOK
<1>3. RowSound(exam, reported', forced)
  BY <1>2, RowGrows DEF OverlapInvariant
<1>4. RequestSound(q, reported', forced, alerts)
  <2>1. f \in reported'[u]
    BY <1>1 DEF TypeOK
  <2>2. /\ q.op = "flag" /\ q.student = u /\ q.flag = f /\ q.seen = exam
    BY DEF flagRequest
  <2> HIDE DEF q, f
  <2>3. QED
    BY <1>3, <2>1, <2>2 DEF RequestSound
<1>5. HighFlagsAreAlerted'
  BY DEF OverlapInvariant, HighFlagsAreAlerted
<1>6. RequestSound(q, reported', forced', alerts') /\ RowSound(exam', reported', forced')
  BY <1>3, <1>4
<1> HIDE DEF q
<1>7. req' = [req EXCEPT ![r] = q] /\ forced \subseteq forced' /\ alerts \subseteq alerts'
  BY DEF q
<1>8. QED
  BY <1>2, <1>5, <1>6, <1>7, StepSound

LEMMA TeacherSound ==
    ASSUME TypeOK, OverlapInvariant, Teacher
    PROVE  OverlapInvariant'
<1>1. ASSUME NEW p \in Patches, update(p) PROVE OverlapInvariant'
  <2>1. RowSound(Patched(exam, p), reported, forced)
    BY PatchedSound DEF TypeOK, OverlapInvariant
  <2>2. QED
    BY <1>1, <2>1 DEF update, observed, OverlapInvariant, HighFlagsAreAlerted
<1>2. CASE remove
  BY <1>2 DEF remove, observed, OverlapInvariant, HighFlagsAreAlerted
<1>3. ASSUME NEW r \in Reqs, NEW u \in Students, saveEssayGrade(r, u) PROVE OverlapInvariant'
  <2>1. PICK question \in exam.questions : \E given \in 0 .. Marks[question] :
          Start(r, [op |-> "grade", student |-> u, question |-> question,
                    score |-> given, seen |-> exam])
    BY <1>3 DEF saveEssayGrade
  <2>2. PICK given \in 0 .. Marks[question] :
          Start(r, [op |-> "grade", student |-> u, question |-> question,
                    score |-> given, seen |-> exam])
    BY <2>1
  <2> DEFINE q == [op |-> "grade", student |-> u, question |-> question,
                   score |-> given, seen |-> exam]
  <2>3. RequestSound(q, reported, forced, alerts)
    BY DEF RequestSound, OverlapInvariant
  <2>4. req' = [req EXCEPT ![r] = q]
    BY <2>2 DEF Start
  <2> HIDE DEF q
  <2>5. QED
    BY <1>3, <2>3, <2>4, StartSound DEF saveEssayGrade, observed
<1>4. ASSUME NEW r \in Reqs, NEW u \in Students, markFlagReviewed(r, u) PROVE OverlapInvariant'
  <2>1. PICK flag \in reported[u] :
          Start(r, [op |-> "review", student |-> u, id |-> flag.id, seen |-> exam])
    BY <1>4 DEF markFlagReviewed
  <2> DEFINE q == [op |-> "review", student |-> u, id |-> flag.id, seen |-> exam]
  <2>2. RequestSound(q, reported, forced, alerts)
    BY DEF RequestSound, OverlapInvariant
  <2>3. req' = [req EXCEPT ![r] = q]
    BY <2>1 DEF Start
  <2> HIDE DEF q
  <2>4. QED
    BY <1>4, <2>2, <2>3, StartSound DEF markFlagReviewed, observed
<1>5. QED
  BY <1>1, <1>2, <1>3, <1>4 DEF Teacher

LEMMA ClientSound ==
    ASSUME TypeOK, OverlapInvariant, Client
    PROVE  OverlapInvariant'
<1>1. ASSUME NEW r \in Reqs, NEW u \in Students, submitExam(r, u) PROVE OverlapInvariant'
  <2>1. PICK answers \in AnswerSheets :
          Start(r, [op |-> "submit", student |-> u, answers |-> answers, seen |-> exam])
    BY <1>1 DEF submitExam
  <2> DEFINE q == [op |-> "submit", student |-> u, answers |-> answers, seen |-> exam]
  <2>2. RequestSound(q, reported, forced, alerts)
    BY <1>1 DEF submitExam, maySubmit, attemptsLeft, RequestSound, OverlapInvariant
  <2>3. req' = [req EXCEPT ![r] = q]
    BY <2>1 DEF Start
  <2> HIDE DEF q
  <2>4. QED
    BY <1>1, <2>2, <2>3, StartSound DEF submitExam, observed
<1>2. ASSUME NEW r \in Reqs, NEW u \in Students, reportIntegrityFlag(r, u) PROVE OverlapInvariant'
  <2>1. PICK type \in Violations :
          /\ Start(r, flagRequest(u, type, started))
          /\ Report(flagRequest(u, type, started).flag, u)
    BY <1>2 DEF reportIntegrityFlag
  <2>2. flagRequest(u, type, started).flag = [id |-> started, type |-> type]
    BY DEF flagRequest
  <2>3. type \in ViolationTypes /\ started \in Nat
    BY DEF ViolationTypes, TypeOK
  <2>4. req' = [req EXCEPT ![r] = flagRequest(u, type, started)]
    BY <2>1 DEF Start
  <2>5. Report([id |-> started, type |-> type], u)
    BY <2>1, <2>2
  <2>6. QED
    BY <1>2, <2>3, <2>4, <2>5, ReportSound DEF reportIntegrityFlag
<1>3. ASSUME NEW r \in Reqs, NEW u \in Students, screenCheck(r, u) PROVE OverlapInvariant'
  <2> DEFINE q == [op |-> "screen", student |-> u, id |-> started]
  <2>1. RequestSound(q, reported, forced, alerts)
    BY DEF RequestSound, SeenOps
  <2>2. req' = [req EXCEPT ![r] = q]
    BY <1>3 DEF screenCheck, Start
  <2> HIDE DEF q
  <2>3. QED
    BY <1>3, <2>1, <2>2, StartSound DEF screenCheck, observed
<1>4. ASSUME NEW r \in Reqs, NEW u \in Students, forceAutoFail(r, u) PROVE OverlapInvariant'
  <2> DEFINE q == [op |-> "force", student |-> u, seen |-> exam]
  <2>1. /\ forced' = forced \cup {u} /\ req' = [req EXCEPT ![r] = q]
        /\ UNCHANGED <<exam, acked, reported, alerts>>
    BY <1>4 DEF forceAutoFail, Start
  <2>2. ~exam.studentAttempts[u].autoFailed
    BY <1>4 DEF forceAutoFail
  <2>3. \A v \in Students : reported[v] \subseteq reported'[v] /\ IsFiniteSet(reported'[v])
    BY <2>1 DEF OverlapInvariant
  <2>4. RowSound(exam, reported', forced')
    BY <2>1, <2>3, RowGrows DEF OverlapInvariant
  <2>5. RequestSound(q, reported', forced', alerts')
    BY <2>1, <2>2, <2>4 DEF RequestSound
  <2>6. HighFlagsAreAlerted'
    BY <2>1 DEF OverlapInvariant, HighFlagsAreAlerted
  <2> HIDE DEF q
  <2>7. forced \subseteq forced' /\ alerts \subseteq alerts' /\ RowSound(exam', reported', forced')
    BY <2>1, <2>4
  <2>8. QED
    BY <2>1, <2>3, <2>5, <2>6, <2>7, StepSound
<1>5. QED
  BY <1>1, <1>2, <1>3, <1>4 DEF Client

\* What the invariant says of the request in slot r.
LEMMA RequestSoundFields ==
    ASSUME TypeOK, OverlapInvariant, NEW r \in Reqs, req[r].op # "idle"
    PROVE  /\ req[r] \in Request /\ req[r].student \in Students
           /\ RequestSound(req[r], reported, forced, alerts)
           /\ req[r].op \in SeenOps =>
                 req[r].seen \in Row /\ RowSound(req[r].seen, reported, forced)
           /\ IsFiniteSet(reported[req[r].student])
BY RequestFields DEF OverlapInvariant, RequestSound, SeenOps

LEMMA WriteSound ==
    ASSUME TypeOK, OverlapInvariant, NEW r \in Reqs, req[r].op \in SeenOps
    PROVE  /\ \A a : /\ AttemptSound(a, req[r].student, reported, forced)
                     /\ WriteAttempts(withAttempt(req[r], a))
                     => RowSound(exam', reported, forced)
           /\ \A l : /\ FlagListSound(l, reported[req[r].student])
                     /\ WriteFlags([req[r].seen.integrityFlags EXCEPT ![req[r].student] = l])
                     => RowSound(exam', reported, forced)
<1> DEFINE q == req[r]
<1>1. /\ q.seen \in Row /\ q.student \in Students /\ RowSound(q.seen, reported, forced)
  BY RequestSoundFields DEF SeenOps
<1>2. exam \in Row /\ RowSound(exam, reported, forced)
  BY DEF TypeOK, OverlapInvariant
<1> HIDE DEF q
<1>3. ASSUME NEW a, AttemptSound(a, q.student, reported, forced),
             WriteAttempts(withAttempt(q, a))
      PROVE  RowSound(exam', reported, forced)
  BY <1>1, <1>2, <1>3, AttemptsWritten DEF WriteAttempts, withAttempt
<1>4. ASSUME NEW l, FlagListSound(l, reported[q.student]),
             WriteFlags([q.seen.integrityFlags EXCEPT ![q.student] = l])
      PROVE  RowSound(exam', reported, forced)
  BY <1>1, <1>2, <1>4, FlagsWritten DEF WriteFlags
<1>5. QED
  BY <1>3, <1>4 DEF q

\* The list with the new flag, in the column that a report writes.
LEMMA UpdatedFlagsSound ==
    ASSUME NEW q, q.seen \in Row, q.student \in Students,
           NEW reports, NEW forcing, RowSound(q.seen, reports, forcing),
           q.flag \in reports[q.student]
    PROVE  \E l : /\ FlagListSound(l, reports[q.student])
                  /\ updatedFlags(q) = [q.seen.integrityFlags EXCEPT ![q.student] = l]
<1> DEFINE old == q.seen.integrityFlags[q.student]
           l == [old EXCEPT !.flags = userFlags(q)]
<1>1. old \in FlagList /\ FlagListSound(old, reports[q.student])
  BY RowColumns DEF RowSound
<1>2. l.flags = userFlags(q) /\ l.reviewed = old.reviewed
  BY <1>1 DEF FlagList
<1>3. FlagListSound(l, reports[q.student])
  BY <1>1, <1>2 DEF FlagListSound, userFlags
<1>4. updatedFlags(q) = [q.seen.integrityFlags EXCEPT ![q.student] = l]
  BY DEF updatedFlags
<1> HIDE DEF l
<1>5. QED
  BY <1>3, <1>4

\* Both columns at once.
LEMMA BothWritten ==
    ASSUME NEW e \in Row, NEW seen \in Row, NEW reports, NEW forcing, NEW u \in Students,
           NEW a, NEW list, RowSound(e, reports, forcing), RowSound(seen, reports, forcing),
           AttemptSound(a, u, reports, forcing), FlagListSound(list, reports[u])
    PROVE  RowSound([e EXCEPT !.studentAttempts = [seen.studentAttempts EXCEPT ![u] = a],
                              !.integrityFlags = [seen.integrityFlags EXCEPT ![u] = list]],
                    reports, forcing)
BY RowColumns DEF RowSound, Row

LEMMA AttemptWritesSound ==
    ASSUME TypeOK, OverlapInvariant, NEW r \in Reqs, req[r].op # "idle",
           SubmitWrite(r) \/ GradeWrite(r) \/ ForceWrite(r)
    PROVE  OverlapInvariant'
<1> DEFINE q == req[r]
<1>1. /\ q.student \in Students /\ RequestSound(q, reported, forced, alerts)
      /\ q.op \in SeenOps => q.seen \in Row /\ RowSound(q.seen, reported, forced)
  BY RequestSoundFields
<1>2. CASE SubmitWrite(r)
  <2>1. q.op = "submit" /\ req' = [req EXCEPT ![r] = NoReq]
        /\ UNCHANGED <<acked, reported, forced, alerts>>
    BY <1>2 DEF SubmitWrite, Resume
  <2>2. PICK graded \in SUBSET Answered(q, "short_answer") :
        \E grades \in [graded -> UNION {0 .. Marks[x] : x \in graded}] :
           WriteAttempts(withAttempt(q, submittedAttempt(q, graded, grades)))
    BY <1>2 DEF SubmitWrite
  <2>3. PICK grades \in [graded -> UNION {0 .. Marks[x] : x \in graded}] :
           WriteAttempts(withAttempt(q, submittedAttempt(q, graded, grades)))
    BY <2>2
  <2>4. RequestSound(q, reported, forced, {})
    BY <1>1, <2>1 DEF RequestSound
  <2>5. AttemptSound(submittedAttempt(q, graded, grades), q.student, reported, forced)
    BY <1>1, <2>1, <2>4, SubmittedSound DEF SeenOps
  <2>6. RowSound(exam', reported, forced)
    BY <2>1, <2>3, <2>5, WriteSound DEF SeenOps
  <2>7. QED
    BY <2>1, <2>6, IdleSound, QuietStepSound
<1>3. CASE GradeWrite(r)
  <2>1. /\ q.op = "grade" /\ req' = [req EXCEPT ![r] = NoReq]
        /\ UNCHANGED <<acked, reported, forced, alerts>>
        /\ WriteAttempts(withAttempt(q, gradedAttempt(q)))
    BY <1>3 DEF GradeWrite, Resume, observed
  <2>2. q.question \in Questions
    BY <2>1, RequestFields
  <2>3. AttemptSound(gradedAttempt(q), q.student, reported, forced)
    BY <1>1, <2>1, <2>2, GradedSound DEF SeenOps
  <2>4. RowSound(exam', reported, forced)
    BY <2>1, <2>3, WriteSound DEF SeenOps
  <2>5. QED
    BY <2>1, <2>4, IdleSound, QuietStepSound
<1>4. CASE ForceWrite(r)
  <2> DEFINE next == [op |-> "forceNotify", student |-> q.student]
             old == q.seen.studentAttempts[q.student]
  <2>1. /\ q.op = "force" /\ req' = [req EXCEPT ![r] = next]
        /\ UNCHANGED <<acked, reported, forced, alerts>>
        /\ WriteAttempts(withAttempt(q, autoFailAttempt(q.seen.studentAttempts[q.student])))
    BY <1>4 DEF ForceWrite, Resume, observed
  <2>2. ~old.autoFailed /\ q.student \in forced
    BY <1>1, <2>1 DEF RequestSound
  <2>3. AttemptSound(autoFailAttempt(old), q.student, reported, forced)
    BY <1>1, <2>1, <2>2, AutoFailSound DEF SeenOps, Evidence
  <2>4. WriteAttempts(withAttempt(q, autoFailAttempt(old)))
    BY <2>1
  <2>5. RowSound(exam', reported, forced)
    BY <2>1, <2>3, <2>4, WriteSound DEF SeenOps
  <2>6. RequestSound(next, reported, forced, alerts)
    BY DEF RequestSound, SeenOps
  <2> HIDE DEF next
  <2>7. QED
    BY <2>1, <2>5, <2>6, QuietStepSound
<1>5. QED
  BY <1>2, <1>3, <1>4

LEMMA FlagStepsSound ==
    ASSUME TypeOK, OverlapInvariant, NEW r \in Reqs, req[r].op # "idle",
           FlagAutoFail(r) \/ FlagNotify(r) \/ FlagAlert(r) \/ FlagWrite(r) \/ ReviewWrite(r)
    PROVE  OverlapInvariant'
<1> DEFINE q == req[r]
<1>1. /\ q.student \in Students /\ RequestSound(q, reported, forced, alerts)
      /\ q.op \in SeenOps => q.seen \in Row /\ RowSound(q.seen, reported, forced)
      /\ IsFiniteSet(reported[q.student]) /\ q \in Request
  BY RequestSoundFields
<1>2. CASE FlagAutoFail(r)
  <2> DEFINE next == [op |-> "flagNotify", student |-> q.student, flag |-> q.flag]
             old == q.seen.studentAttempts[q.student]
  <2>1. /\ q.op = "flag" /\ req' = [req EXCEPT ![r] = next] /\ autoFails(q)
        /\ UNCHANGED <<acked, reported, forced, alerts>>
        /\ WriteBoth(withAttempt(q, autoFailAttempt(q.seen.studentAttempts[q.student])),
                     updatedFlags(q))
    BY <1>2 DEF FlagAutoFail, Resume, observed
  <2>2. q.seen \in Row /\ RowSound(q.seen, reported, forced) /\ q.flag \in reported[q.student]
    BY <1>1, <2>1 DEF SeenOps, RequestSound
  <2>3. Evidence(q.student, reported, forced)
    BY <1>1, <2>1, <2>2, FlagsAreEvidence
  <2>4. AttemptSound(autoFailAttempt(old), q.student, reported, forced)
    BY <1>1, <2>1, <2>2, <2>3, AutoFailSound DEF autoFails
  <2>5. PICK l : /\ FlagListSound(l, reported[q.student])
                 /\ updatedFlags(q) = [q.seen.integrityFlags EXCEPT ![q.student] = l]
    BY <1>1, <2>2, UpdatedFlagsSound
  <2>6. WriteBoth(withAttempt(q, autoFailAttempt(old)),
                  [q.seen.integrityFlags EXCEPT ![q.student] = l])
    BY <2>1, <2>5
  <2>7. exam \in Row /\ RowSound(exam, reported, forced)
    BY DEF TypeOK, OverlapInvariant
  <2>8. RowSound(exam', reported, forced)
    BY <1>1, <2>2, <2>4, <2>5, <2>6, <2>7, BothWritten DEF WriteBoth, withAttempt
  <2>9. RequestSound(next, reported, forced, alerts)
    BY <2>2 DEF RequestSound, SeenOps
  <2> HIDE DEF next
  <2>10. QED
    BY <2>1, <2>8, <2>9, QuietStepSound
<1>3. CASE FlagNotify(r)
  <2>1. /\ q.op = "flagNotify" /\ req' = [req EXCEPT ![r] = NoReq]
        /\ alerts' = alerts \cup {q.flag}
        /\ acked' = [acked EXCEPT ![q.student] = @ \cup {q.flag}]
        /\ UNCHANGED <<exam, reported, forced>>
    BY <1>3 DEF FlagNotify, Resume, Acknowledge
  <2>2. HighFlagsAreAlerted'
    BY <2>1 DEF OverlapInvariant, HighFlagsAreAlerted, High, TypeOK
  <2>3. RowSound(exam', reported', forced')
    BY <2>1 DEF OverlapInvariant
  <2>4. \A u \in Students : reported[u] \subseteq reported'[u] /\ IsFiniteSet(reported'[u])
    BY <2>1 DEF OverlapInvariant
  <2>5. forced \subseteq forced' /\ alerts \subseteq alerts'
    BY <2>1
  <2>6. RequestSound(NoReq, reported', forced', alerts')
    BY IdleSound
  <2>7. QED
    BY <2>1, <2>2, <2>3, <2>4, <2>5, <2>6, StepSound
<1>4. CASE FlagAlert(r)
  <2> DEFINE next == [q EXCEPT !.op = "flagWrite"]
  <2>1. /\ q.op = "flag" /\ req' = [req EXCEPT ![r] = next]
        /\ alerts' = alerts \cup High({q.flag})
        /\ UNCHANGED <<exam, acked, reported, forced>>
    BY <1>4 DEF FlagAlert, Resume
  <2>2. next.op = "flagWrite" /\ next.student = q.student /\ next.flag = q.flag
        /\ next.seen = q.seen
    BY <1>1, <2>1 DEF Request
  <2>3. RowSound(q.seen, reported, forced) /\ q.flag \in reported[q.student]
    BY <1>1, <2>1 DEF SeenOps, RequestSound
  <2>4. HighFlagsAreAlerted'
    BY <2>1 DEF OverlapInvariant, HighFlagsAreAlerted
  <2>5. RowSound(exam', reported', forced')
    BY <2>1 DEF OverlapInvariant
  <2>6. \A u \in Students : reported[u] \subseteq reported'[u] /\ IsFiniteSet(reported'[u])
    BY <2>1 DEF OverlapInvariant
  <2> HIDE DEF next
  <2>7. RequestSound(next, reported', forced', alerts')
    BY <2>1, <2>2, <2>3 DEF RequestSound
  <2>8. forced \subseteq forced' /\ alerts \subseteq alerts'
    BY <2>1
  <2>9. QED
    BY <2>1, <2>4, <2>5, <2>6, <2>7, <2>8, StepSound
<1>5. CASE FlagWrite(r)
  <2>1. /\ q.op = "flagWrite" /\ req' = [req EXCEPT ![r] = NoReq]
        /\ acked' = [acked EXCEPT ![q.student] = @ \cup {q.flag}]
        /\ UNCHANGED <<reported, forced, alerts>>
        /\ WriteFlags(updatedFlags(q))
    BY <1>5 DEF FlagWrite, Resume, Acknowledge
  <2>2. /\ q.seen \in Row /\ RowSound(q.seen, reported, forced)
        /\ q.flag \in reported[q.student] /\ High({q.flag}) \subseteq alerts
    BY <1>1, <2>1 DEF SeenOps, RequestSound
  <2>3. PICK l : /\ FlagListSound(l, reported[q.student])
                 /\ updatedFlags(q) = [q.seen.integrityFlags EXCEPT ![q.student] = l]
    BY <1>1, <2>2, UpdatedFlagsSound
  <2>4. RowSound(exam', reported, forced)
    BY <2>1, <2>3, WriteSound DEF SeenOps
  <2>5. HighFlagsAreAlerted'
    BY <2>1, <2>2 DEF OverlapInvariant, HighFlagsAreAlerted, High, TypeOK
  <2>6. \A u \in Students : reported[u] \subseteq reported'[u] /\ IsFiniteSet(reported'[u])
    BY <2>1 DEF OverlapInvariant
  <2>7. RequestSound(NoReq, reported', forced', alerts')
    BY IdleSound
  <2>8. RowSound(exam', reported', forced') /\ forced \subseteq forced' /\ alerts \subseteq alerts'
    BY <2>1, <2>4
  <2>9. QED
    BY <2>1, <2>5, <2>6, <2>7, <2>8, StepSound
<1>6. CASE ReviewWrite(r)
  <2> DEFINE old == q.seen.integrityFlags[q.student]
             l == [old EXCEPT !.reviewed = @ \cup matchingFlags(q)]
  <2>1. /\ q.op = "review" /\ req' = [req EXCEPT ![r] = NoReq]
        /\ UNCHANGED <<acked, reported, forced, alerts>>
        /\ WriteFlags([q.seen.integrityFlags EXCEPT ![q.student] = l])
    BY <1>6 DEF ReviewWrite, Resume, observed
  <2>2. old \in FlagList /\ FlagListSound(old, reported[q.student])
    BY <1>1, <2>1, RowColumns DEF RowSound, SeenOps
  <2>3. l.flags = old.flags /\ l.reviewed = old.reviewed \cup matchingFlags(q)
    BY <2>2 DEF FlagList
  <2>4. FlagListSound(l, reported[q.student])
    BY <2>2, <2>3 DEF FlagListSound, matchingFlags
  <2> HIDE DEF l
  <2>5. RowSound(exam', reported, forced)
    BY <2>1, <2>4, WriteSound DEF SeenOps
  <2>6. QED
    BY <2>1, <2>5, IdleSound, QuietStepSound
<1>7. QED
  BY <1>2, <1>3, <1>4, <1>5, <1>6

LEMMA OtherStepsSound ==
    ASSUME TypeOK, OverlapInvariant, NEW r \in Reqs, req[r].op # "idle",
           ScreenClear(r) \/ ScreenSuspicious(r) \/ ForceNotify(r)
    PROVE  OverlapInvariant'
<1>1. CASE ScreenClear(r)
  BY <1>1, IdleSound, StartSound DEF ScreenClear, Resume, observed
<1>2. CASE ScreenSuspicious(r)
  <2>1. req[r].op = "screen" /\ req[r].student \in Students /\ req[r].id \in Nat
    BY <1>2, RequestFields DEF ScreenSuspicious, Resume
  <2> DEFINE u == req[r].student
             id == req[r].id
  <2>2. /\ req' = [req EXCEPT ![r] = flagRequest(u, "suspicious_screen", id)]
        /\ Report(flagRequest(u, "suspicious_screen", id).flag, u)
        /\ UNCHANGED <<exam, acked, forced, alerts>>
    BY <1>2 DEF ScreenSuspicious, Resume
  <2>3. flagRequest(u, "suspicious_screen", id).flag = [id |-> id, type |-> "suspicious_screen"]
    BY DEF flagRequest
  <2>4. "suspicious_screen" \in ViolationTypes
    BY DEF ViolationTypes
  <2>5. Report([id |-> id, type |-> "suspicious_screen"], u)
    BY <2>2, <2>3
  <2>6. QED
    BY <2>1, <2>2, <2>4, <2>5, ReportSound
<1>3. CASE ForceNotify(r)
  <2>1. /\ req' = [req EXCEPT ![r] = NoReq] /\ alerts \subseteq alerts'
        /\ UNCHANGED <<exam, acked, reported, forced>>
    BY <1>3 DEF ForceNotify, Resume
  <2>2. HighFlagsAreAlerted'
    BY <2>1 DEF OverlapInvariant, HighFlagsAreAlerted
  <2>3. RowSound(exam', reported', forced') /\ forced \subseteq forced'
    BY <2>1 DEF OverlapInvariant
  <2>4. \A u \in Students : reported[u] \subseteq reported'[u] /\ IsFiniteSet(reported'[u])
    BY <2>1 DEF OverlapInvariant
  <2>5. RequestSound(NoReq, reported', forced', alerts')
    BY IdleSound
  <2>6. QED
    BY <2>1, <2>2, <2>3, <2>4, <2>5, StepSound
<1>4. QED
  BY <1>1, <1>2, <1>3

\* The invariant holds initially and every step keeps it.
THEOREM OverlapInvariantHolds == Spec => []OverlapInvariant
<1>1. Init => OverlapInvariant
  <2> SUFFICES ASSUME Init PROVE OverlapInvariant
    OBVIOUS
  <2>1. RowSound(exam, reported, forced)
    BY CreatedSound DEF Init
  <2>2. \A r \in Reqs : RequestSound(req[r], reported, forced, alerts)
    BY IdleSound DEF Init
  <2>3. \A u \in Students : IsFiniteSet(reported[u])
    BY FS_EmptySet DEF Init
  <2>4. HighFlagsAreAlerted
    BY DEF Init, HighFlagsAreAlerted, High
  <2>5. QED
    BY <2>1, <2>2, <2>3, <2>4 DEF OverlapInvariant
<1>2. TypeOK /\ OverlapInvariant /\ [Next]_vars => OverlapInvariant'
  <2> SUFFICES ASSUME TypeOK, OverlapInvariant, [Next]_vars PROVE OverlapInvariant'
    OBVIOUS
  <2>1. CASE Teacher
    BY <2>1, TeacherSound
  <2>2. CASE Client
    BY <2>2, ClientSound
  <2>3. CASE Server
    <3>1. PICK r \in Reqs :
             \/ SubmitWrite(r) \/ GradeWrite(r) \/ ReviewWrite(r)
             \/ FlagAutoFail(r) \/ FlagNotify(r) \/ FlagAlert(r) \/ FlagWrite(r)
             \/ ScreenClear(r) \/ ScreenSuspicious(r)
             \/ ForceWrite(r) \/ ForceNotify(r)
      BY <2>3 DEF Server
    <3>2. req[r].op # "idle"
      BY <3>1 DEF SubmitWrite, GradeWrite, ReviewWrite, FlagAutoFail, FlagNotify, FlagAlert,
                  FlagWrite, ScreenClear, ScreenSuspicious, ForceWrite, ForceNotify, Resume
    <3>3. QED
      BY <3>1, <3>2, AttemptWritesSound, FlagStepsSound, OtherStepsSound
  <2>4. ASSUME NEW r \in Reqs, Abort(r) PROVE OverlapInvariant'
    BY <2>4, IdleSound, StartSound DEF Abort, observed
  <2>5. CASE Tick
    <3>1. /\ exam'.maxAttempts = exam.maxAttempts
          /\ exam'.studentAttempts = exam.studentAttempts
          /\ exam'.integrityFlags = exam.integrityFlags
      BY <2>5 DEF Tick, TypeOK, Row
    <3>2. RowSound(exam', reported, forced)
      BY <3>1 DEF OverlapInvariant, RowSound
    <3>3. UNCHANGED <<req, acked, reported, forced, alerts>>
      BY <2>5 DEF Tick, observed
    <3>4. QED
      BY <3>2, <3>3 DEF OverlapInvariant, HighFlagsAreAlerted
  <2>6. CASE UNCHANGED vars
    BY <2>6 DEF vars, OverlapInvariant, HighFlagsAreAlerted
  <2>7. QED
    BY <2>1, <2>2, <2>3, <2>4, <2>5, <2>6 DEF Next
<1>3. QED
  BY <1>1, <1>2, TypeCorrect, PTL DEF Spec

\* No interleaving of reports, submissions, reviews and stale writes disqualifies
\* a student without her own client's evidence.
THEOREM NobodyFalselyDisqualified == Spec => []NoFalseDisqualification
<1>1. OverlapInvariant => NoFalseDisqualification
  BY DEF OverlapInvariant, RowSound, AttemptSound, NoFalseDisqualification
<1>2. QED
  BY <1>1, OverlapInvariantHolds, PTL

\* No interleaving pushes a stored attempt number past every configured limit.
THEOREM AttemptsStayWithinLimits == Spec => []AttemptsWithinLimits
<1>1. OverlapInvariant => AttemptsWithinLimits
  BY DEF OverlapInvariant, RowSound, AttemptSound, AttemptsWithinLimits
<1>2. QED
  BY <1>1, OverlapInvariantHolds, PTL

\* No interleaving stores a pass that awaits review, or marks on a fresh
\* disqualification.
THEOREM PassesStayEarned == Spec => []PassesAreEarned
<1>1. OverlapInvariant => PassesAreEarned
  BY DEF OverlapInvariant, RowSound, AttemptSound, PassesAreEarned
<1>2. QED
  BY <1>1, OverlapInvariantHolds, PTL

\* No interleaving lists a flag under a student who did not report it, or ticks
\* off a flag that is not listed.
THEOREM FlagsStayReported == Spec => []FlagsAreReported
<1>1. OverlapInvariant => FlagsAreReported
  BY DEF OverlapInvariant, RowSound, FlagsAreReported
<1>2. QED
  BY <1>1, OverlapInvariantHolds, PTL

\* Every high-severity report that was answered has alerted the creator.
THEOREM HighFlagsStayAlerted == Spec => []HighFlagsAreAlerted
<1>1. OverlapInvariant => HighFlagsAreAlerted
  BY DEF OverlapInvariant
<1>2. QED
  BY <1>1, OverlapInvariantHolds, PTL

(***************************************************************************)
(* Drafts.                                                                 *)
(***************************************************************************)

\* A step puts one request in its slot, or none: it has finished with the row, or has just
\* read it, or is a report that goes on with the row it had.
LEMMA RequestChanges ==
    ASSUME TypeOK, [Next]_vars
    PROVE  \/ UNCHANGED req
           \/ \E r \in Reqs : \E q :
                 /\ req' = [req EXCEPT ![r] = q]
                 /\ \/ q.op \notin SeenOps
                    \/ /\ q.op \in SeenOps \ {"flagWrite"}
                       /\ q.seen = exam /\ UNCHANGED <<exam, removed, accepted>>
                       /\ Checked(q)
                    \/ FlagAlert(r) /\ q = [req[r] EXCEPT !.op = "flagWrite"]
<1> DEFINE Goal == \E r \in Reqs : \E q :
                 /\ req' = [req EXCEPT ![r] = q]
                 /\ \/ q.op \notin SeenOps
                    \/ /\ q.op \in SeenOps \ {"flagWrite"}
                       /\ q.seen = exam /\ UNCHANGED <<exam, removed, accepted>>
                       /\ Checked(q)
                    \/ FlagAlert(r) /\ q = [req[r] EXCEPT !.op = "flagWrite"]
<1>1. ASSUME NEW r \in Reqs, NEW q, req' = [req EXCEPT ![r] = q], q.op \notin SeenOps
      PROVE  Goal
  BY <1>1
<1>2. ASSUME NEW r \in Reqs, NEW q, req' = [req EXCEPT ![r] = q],
             q.op \in SeenOps \ {"flagWrite"}, q.seen = exam,
             UNCHANGED <<exam, removed, accepted>>,
             Checked(q)
      PROVE  Goal
  BY <1>2
<1>3. NoReq.op \notin SeenOps
  BY DEF NoReq, SeenOps
<1>4. CASE Teacher
  <2>1. ASSUME NEW r \in Reqs, NEW u \in Students, saveEssayGrade(r, u) PROVE Goal
    <3>1. PICK question, given :
            Start(r, [op |-> "grade", student |-> u, question |-> question,
                      score |-> given, seen |-> exam])
      BY <2>1 DEF saveEssayGrade
    <3> DEFINE q == [op |-> "grade", student |-> u, question |-> question,
                     score |-> given, seen |-> exam]
    <3>2. /\ req' = [req EXCEPT ![r] = q] /\ q.op = "grade"
          /\ q.seen = exam /\ q.student = u
      BY <3>1 DEF Start
    <3> HIDE DEF q
    <3> QED
      BY <1>2, <2>1, <3>2 DEF saveEssayGrade, observed, SeenOps, Checked
  <2>2. ASSUME NEW r \in Reqs, NEW u \in Students, markFlagReviewed(r, u) PROVE Goal
    <3>1. PICK flag \in reported[u] :
            Start(r, [op |-> "review", student |-> u, id |-> flag.id, seen |-> exam])
      BY <2>2 DEF markFlagReviewed
    <3> DEFINE q == [op |-> "review", student |-> u, id |-> flag.id, seen |-> exam]
    <3>2. req' = [req EXCEPT ![r] = q] /\ q.op = "review" /\ q.seen = exam
      BY <3>1 DEF Start
    <3> HIDE DEF q
    <3> QED
      BY <1>2, <2>2, <3>2 DEF markFlagReviewed, observed, SeenOps, Checked
  <2> HIDE DEF Goal
  <2> QED
    BY <1>4, <2>1, <2>2 DEF Teacher, update, remove, Goal
<1>5. CASE Client
  <2>1. ASSUME NEW r \in Reqs, NEW u \in Students, submitExam(r, u) PROVE Goal
    <3>1. PICK answers \in AnswerSheets :
            Start(r, [op |-> "submit", student |-> u, answers |-> answers, seen |-> exam])
      BY <2>1 DEF submitExam
    <3> DEFINE q == [op |-> "submit", student |-> u, answers |-> answers, seen |-> exam]
    <3>2. req' = [req EXCEPT ![r] = q] /\ q.op = "submit" /\ q.seen = exam /\ q.student = u
      BY <3>1 DEF Start
    <3> HIDE DEF q
    <3> QED
      BY <1>2, <2>1, <3>2 DEF submitExam, maySubmit, observed, SeenOps, Checked
  <2>2. ASSUME NEW r \in Reqs, NEW u \in Students, reportIntegrityFlag(r, u) PROVE Goal
    <3>1. PICK type \in Violations : Start(r, flagRequest(u, type, started))
      BY <2>2 DEF reportIntegrityFlag
    <3> DEFINE q == flagRequest(u, type, started)
    <3>2. req' = [req EXCEPT ![r] = q] /\ q.op = "flag" /\ q.seen = exam
      BY <3>1 DEF Start, flagRequest
    <3> HIDE DEF q
    <3> QED
      BY <1>2, <2>2, <3>2 DEF reportIntegrityFlag, SeenOps, Checked
  <2>3. ASSUME NEW r \in Reqs, NEW u \in Students, screenCheck(r, u) PROVE Goal
    <3> DEFINE q == [op |-> "screen", student |-> u, id |-> started]
    <3>1. req' = [req EXCEPT ![r] = q] /\ q.op = "screen"
      BY <2>3 DEF screenCheck, Start
    <3> HIDE DEF q
    <3> QED
      BY <1>1, <3>1 DEF SeenOps
  <2>4. ASSUME NEW r \in Reqs, NEW u \in Students, forceAutoFail(r, u) PROVE Goal
    <3> DEFINE q == [op |-> "force", student |-> u, seen |-> exam]
    <3>1. req' = [req EXCEPT ![r] = q] /\ q.op = "force" /\ q.seen = exam /\ q.student = u
      BY <2>4 DEF forceAutoFail, Start
    <3> HIDE DEF q
    <3> QED
      BY <1>2, <2>4, <3>1 DEF forceAutoFail, SeenOps, Checked
  <2> HIDE DEF Goal
  <2> QED
    <3>1. PICK r \in Reqs, u \in Students :
             \/ submitExam(r, u) \/ reportIntegrityFlag(r, u)
             \/ screenCheck(r, u) \/ forceAutoFail(r, u)
      BY <1>5 DEF Client
    <3> QED
      BY <2>1, <2>2, <2>3, <2>4, <3>1 DEF Goal
<1>6. ASSUME NEW r \in Reqs, SubmitWrite(r) \/ GradeWrite(r) \/ ReviewWrite(r) \/ FlagNotify(r)
                             \/ FlagWrite(r) \/ ScreenClear(r) \/ ForceNotify(r) \/ Abort(r)
      PROVE  Goal
  <2>1. req' = [req EXCEPT ![r] = NoReq]
    BY <1>6 DEF SubmitWrite, GradeWrite, ReviewWrite, FlagNotify, FlagWrite, ScreenClear,
                ForceNotify, Abort, Resume
  <2> QED
    BY <1>1, <1>3, <2>1
<1>7. ASSUME NEW r \in Reqs, FlagAutoFail(r) \/ ForceWrite(r) PROVE Goal
  <2> DEFINE q == IF FlagAutoFail(r)
                  THEN [op |-> "flagNotify", student |-> req[r].student, flag |-> req[r].flag]
                  ELSE [op |-> "forceNotify", student |-> req[r].student]
  <2>1. req' = [req EXCEPT ![r] = q]
    BY <1>7 DEF FlagAutoFail, ForceWrite, Resume
  <2>2. q.op \notin SeenOps
    BY DEF SeenOps
  <2> HIDE DEF q
  <2> QED
    BY <1>1, <2>1, <2>2
<1>8. ASSUME NEW r \in Reqs, FlagAlert(r) PROVE Goal
  BY <1>8 DEF FlagAlert, Resume
<1>9. ASSUME NEW r \in Reqs, ScreenSuspicious(r) PROVE Goal
  <2> DEFINE q == flagRequest(req[r].student, "suspicious_screen", req[r].id)
  <2>1. req' = [req EXCEPT ![r] = q] /\ q.op = "flag" /\ q.seen = exam
    BY <1>9 DEF ScreenSuspicious, Resume, flagRequest
  <2> HIDE DEF q
  <2> QED
    BY <1>2, <1>9, <2>1 DEF ScreenSuspicious, SeenOps, Checked
<1> HIDE DEF Goal
<1>10. CASE Server
  <2>1. PICK r \in Reqs :
           \/ SubmitWrite(r) \/ GradeWrite(r) \/ ReviewWrite(r)
           \/ FlagAutoFail(r) \/ FlagNotify(r) \/ FlagAlert(r) \/ FlagWrite(r)
           \/ ScreenClear(r) \/ ScreenSuspicious(r)
           \/ ForceWrite(r) \/ ForceNotify(r)
    BY <1>10 DEF Server
  <2> QED
    BY <1>6, <1>7, <1>8, <1>9, <2>1 DEF Goal
<1>11. Tick \/ UNCHANGED vars => UNCHANGED req
  BY DEF Tick, vars
<1> QED
  BY <1>4, <1>5, <1>6, <1>10, <1>11 DEF Next, Goal

\* Only the creator changes the status, and submissions are counted by SubmitWrite alone.
LEMMA StatusChanges ==
    ASSUME TypeOK, [Next]_vars
    PROVE  /\ exam'.status = exam.status \/ \E p \in Patches : update(p)
           /\ UNCHANGED accepted \/ \E r \in Reqs : SubmitWrite(r)
<1>1. \A p \in Patches : update(p) => UNCHANGED accepted
  BY DEF update, observed
<1>2. remove \/ Client \/ (\E r \in Reqs : Abort(r)) => UNCHANGED <<exam, accepted>>
  BY DEF remove, Client, submitExam, reportIntegrityFlag, screenCheck, forceAutoFail, Abort,
         observed
<1>3. \A r \in Reqs, u \in Students :
         saveEssayGrade(r, u) \/ markFlagReviewed(r, u) => UNCHANGED <<exam, accepted>>
  BY DEF saveEssayGrade, markFlagReviewed, observed
<1>4. Tick => exam'.status = exam.status /\ UNCHANGED accepted
  BY DEF Tick, TypeOK, Row, observed
<1>5. ASSUME NEW attempts, NEW flags,
             WriteAttempts(attempts) \/ WriteFlags(flags) \/ WriteBoth(attempts, flags)
      PROVE  exam'.status = exam.status
  BY <1>5 DEF WriteAttempts, WriteFlags, WriteBoth, TypeOK, Row
<1>6. ASSUME NEW r \in Reqs,
             \/ SubmitWrite(r) \/ GradeWrite(r) \/ ReviewWrite(r)
             \/ FlagAutoFail(r) \/ FlagNotify(r) \/ FlagAlert(r) \/ FlagWrite(r)
             \/ ScreenClear(r) \/ ScreenSuspicious(r)
             \/ ForceWrite(r) \/ ForceNotify(r)
      PROVE  exam'.status = exam.status /\ (UNCHANGED accepted \/ SubmitWrite(r))
  <2>1. CASE SubmitWrite(r)
    BY <1>5, <2>1 DEF SubmitWrite
  <2>2. CASE GradeWrite(r) \/ ReviewWrite(r) \/ FlagAutoFail(r) \/ FlagWrite(r) \/ ForceWrite(r)
    BY <1>5, <2>2 DEF GradeWrite, ReviewWrite, FlagAutoFail, FlagWrite, ForceWrite, observed
  <2>3. CASE FlagNotify(r) \/ FlagAlert(r) \/ ScreenClear(r) \/ ScreenSuspicious(r) \/ ForceNotify(r)
    BY <2>3 DEF FlagNotify, FlagAlert, ScreenClear, ScreenSuspicious, ForceNotify, observed
  <2> QED
    BY <1>6, <2>1, <2>2, <2>3
<1> QED
  BY <1>1, <1>2, <1>3, <1>4, <1>6 DEF Next, Teacher, Server, vars

\* However requests overlap with the publishing of an exam, a draft has no submissions.
THEOREM DraftsStayEmpty ==
    ASSUME NeverBackToDraft
    PROVE  Spec => []DraftsHaveNoSubmissions
<1>1. Init => DraftInvariant
  BY DEF Init, DraftInvariant, NoReq
<1>2. TypeOK /\ DraftInvariant /\ [Next]_vars => DraftInvariant'
  <2> SUFFICES ASSUME TypeOK, DraftInvariant, [Next]_vars, exam'.status = "draft"
               PROVE  /\ \A u \in Students : accepted'[u] = 0
                      /\ \A r \in Reqs : req'[r].op # "submit"
    BY DEF DraftInvariant
  <2>1. exam.status = "draft"
    <3>1. ASSUME NEW p \in Patches, update(p) PROVE exam.status = "draft"
      BY <3>1 DEF update, Patched, NeverBackToDraft, TypeOK, Row
    <3> QED
      BY <3>1, StatusChanges
  <2>2. (\A u \in Students : accepted[u] = 0) /\ (\A r \in Reqs : req[r].op # "submit")
    BY <2>1 DEF DraftInvariant
  <2>3. UNCHANGED accepted
    BY <2>2, StatusChanges DEF SubmitWrite, Resume
  <2>4. \A u : ~canSubmit(exam, u)
    BY <2>1 DEF canSubmit, computeStatus
  <2>5. \A r \in Reqs : req'[r].op # "submit"
    <3>1. ASSUME NEW r \in Reqs, NEW q, req' = [req EXCEPT ![r] = q], q.op # "submit"
          PROVE  \A s \in Reqs : req'[s].op # "submit"
      BY <2>2, <3>1 DEF TypeOK
    <3>2. CASE UNCHANGED req
      BY <2>2, <3>2
    <3>3. ASSUME NEW r \in Reqs, FlagAlert(r)
          PROVE  [req[r] EXCEPT !.op = "flagWrite"].op = "flagWrite"
      BY <3>3, RequestFields DEF FlagAlert, Resume, Request
    <3> QED
      BY <2>4, <3>1, <3>2, <3>3, RequestChanges DEF SeenOps, Checked
  <2> QED
    BY <2>2, <2>3, <2>5
<1>3. DraftInvariant => DraftsHaveNoSubmissions
  BY DEF DraftInvariant, DraftsHaveNoSubmissions
<1> QED
  BY <1>1, <1>2, <1>3, TypeCorrect, PTL DEF Spec

=============================================================================
