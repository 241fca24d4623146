-------------------------- MODULE ExamSerialProofs --------------------------
(***************************************************************************)
(* What the exam engine keeps as long as requests do not overlap (Serial): *)
(* the columns a request writes are still as it read them, so a write      *)
(* changes one attempt or one list only, and loses nothing.  TLC shows     *)
(* that each of these facts is lost with two overlapping requests.         *)
(***************************************************************************)
EXTENDS ExamProofs

\* The columns after each kind of write by a request that read the current ones.
LEMMA AttemptsColumn ==
    ASSUME TypeOK, NEW q, q.op \in SeenOps, SeenIsCurrent(q), NEW a,
           WriteAttempts(withAttempt(q, a))
    PROVE  /\ exam'.integrityFlags = exam.integrityFlags
           /\ ~removed => exam'.studentAttempts = [exam.studentAttempts EXCEPT ![q.student] = a]
           /\ removed => exam' = exam
<1>1. WriteAttempts([exam.studentAttempts EXCEPT ![q.student] = a])
  BY DEF withAttempt, SeenIsCurrent
<1>2. QED
  BY <1>1 DEF TypeOK, Row, WriteAttempts

LEMMA FlagsColumn ==
    ASSUME TypeOK, NEW list, WriteFlags(list)
    PROVE  /\ exam'.studentAttempts = exam.studentAttempts
           /\ ~removed => exam'.integrityFlags = list
           /\ removed => exam' = exam
BY DEF TypeOK, Row, WriteFlags

\* What the write of a submission does to the row.
LEMMA SubmitWrites ==
    ASSUME TypeOK, SerialInvariant, NEW r \in Reqs, SubmitWrite(r)
    PROVE  LET u == req[r].student IN
           /\ u \in Students /\ ~exam.studentAttempts[u].autoFailed
           /\ exam'.integrityFlags = exam.integrityFlags
           /\ removed \/ \E a : /\ exam'.studentAttempts = [exam.studentAttempts EXCEPT ![u] = a]
                                /\ ~a.autoFailed
                                /\ a.attemptCount = usedAttempts(exam, u) + 1
<1> DEFINE q == req[r]
<1>1. q.op = "submit" /\ q.student \in Students /\ SeenIsCurrent(q)
      /\ ~q.seen.studentAttempts[q.student].autoFailed
  BY RequestFields DEF SubmitWrite, Resume, SerialInvariant
<1>2. PICK graded \in SUBSET Answered(q, "short_answer") :
      \E grades \in [graded -> UNION {0 .. Marks[x] : x \in graded}] :
         WriteAttempts(withAttempt(q, submittedAttempt(q, graded, grades)))
  BY DEF SubmitWrite
<1>3. PICK grades \in [graded -> UNION {0 .. Marks[x] : x \in graded}] :
         WriteAttempts(withAttempt(q, submittedAttempt(q, graded, grades)))
  BY <1>2
<1> DEFINE a == submittedAttempt(q, graded, grades)
<1>4. a.autoFailed = FALSE /\ a.attemptCount = usedAttempts(q.seen, q.student) + 1
  BY DEF submittedAttempt, nextAttempt
<1>5. /\ q.seen.studentAttempts = exam.studentAttempts
      /\ usedAttempts(q.seen, q.student) = usedAttempts(exam, q.student)
  BY <1>1 DEF SeenIsCurrent, SeenOps, usedAttempts
<1> HIDE DEF a
<1>6. /\ exam'.integrityFlags = exam.integrityFlags
      /\ ~removed => exam'.studentAttempts = [exam.studentAttempts EXCEPT ![q.student] = a]
  <2>1. q.op \in SeenOps
    BY <1>1 DEF SeenOps
  <2>2. WriteAttempts(withAttempt(q, a))
    BY <1>3 DEF a
  <2> HIDE DEF q
  <2>3. QED
    BY <1>1, <2>1, <2>2, AttemptsColumn
<1>7. QED
  BY <1>1, <1>4, <1>5, <1>6

\* A grade leaves the attempt's number and its disqualification as they are.
LEMMA GradeWrites ==
    ASSUME TypeOK, SerialInvariant, NEW r \in Reqs, GradeWrite(r)
    PROVE  LET u == req[r].student IN
           /\ u \in Students
           /\ exam'.integrityFlags = exam.integrityFlags
           /\ removed => exam' = exam
           /\ removed \/ \E a : /\ exam'.studentAttempts = [exam.studentAttempts EXCEPT ![u] = a]
                                /\ a.autoFailed = exam.studentAttempts[u].autoFailed
                                /\ a.attemptCount = usedAttempts(exam, u)
<1> DEFINE q == req[r]
           old == q.seen.studentAttempts[q.student]
           a == gradedAttempt(q)
<1>1. /\ q.op = "grade" /\ q.student \in Students /\ SeenIsCurrent(q) /\ q.seen \in Row
      /\ WriteAttempts(withAttempt(q, a))
  BY RequestFields DEF GradeWrite, Resume, SerialInvariant
<1> DEFINE awarded == [old.awarded EXCEPT ![q.question] = @ + q.score]
           passed == reachesPassingScore(q.seen, awarded)
<1>2. a.autoFailed = old.autoFailed /\ a.attemptCount = old.attemptCount
  <2>1. a = [old EXCEPT !.awarded = awarded, !.passed = passed, !.pendingEssayReview = FALSE,
                        !.essayGrades = @ \cup {q.question}]
    BY DEF gradedAttempt
  <2>2. old \in Attempt
    BY <1>1, RowColumns
  <2> HIDE DEF a, old, awarded, passed
  <2>3. QED
    BY <2>1, <2>2 DEF Attempt
<1>3. old = exam.studentAttempts[q.student]
  BY <1>1 DEF SeenIsCurrent, SeenOps
<1> HIDE DEF a
<1>4. /\ exam'.integrityFlags = exam.integrityFlags
      /\ ~removed => exam'.studentAttempts = [exam.studentAttempts EXCEPT ![q.student] = a]
      /\ removed => exam' = exam
  <2>1. q.op \in SeenOps
    BY <1>1 DEF SeenOps
  <2> HIDE DEF q
  <2>2. QED
    BY <1>1, <2>1, AttemptsColumn
<1>5. QED
  BY <1>1, <1>2, <1>3, <1>4 DEF usedAttempts

\* An auto-fail counts one attempt more.
LEMMA AutoFailWrites ==
    ASSUME TypeOK, SerialInvariant, NEW r \in Reqs, FlagAutoFail(r) \/ ForceWrite(r)
    PROVE  LET u == req[r].student IN
           /\ u \in Students
           /\ removed => exam' = exam
           /\ ForceWrite(r) => exam'.integrityFlags = exam.integrityFlags
           /\ FlagAutoFail(r) /\ ~removed => exam'.integrityFlags = updatedFlags(req[r])
           /\ removed \/ \E a : /\ exam'.studentAttempts = [exam.studentAttempts EXCEPT ![u] = a]
                                /\ a.autoFailed
                                /\ a.attemptCount = usedAttempts(exam, u) + 1
<1> DEFINE q == req[r]
           a == autoFailAttempt(q.seen.studentAttempts[q.student])
<1>1. q.op \in {"flag", "force"} /\ q.student \in Students /\ SeenIsCurrent(q)
  BY RequestFields DEF FlagAutoFail, ForceWrite, Resume, SerialInvariant
<1>2. q.seen.studentAttempts = exam.studentAttempts
  BY <1>1 DEF SeenIsCurrent, SeenOps
<1>3. a.autoFailed = TRUE /\ a.attemptCount = usedAttempts(exam, q.student) + 1
  BY <1>2 DEF autoFailAttempt, usedAttempts
<1> DEFINE column == [exam.studentAttempts EXCEPT ![q.student] = a]
<1>4. ForceWrite(r) => WriteAttempts(column)
  BY <1>2 DEF withAttempt, ForceWrite
<1>5. FlagAutoFail(r) => WriteBoth(column, updatedFlags(q))
  BY <1>2 DEF withAttempt, FlagAutoFail
<1> HIDE DEF column, a
<1>6. /\ removed => exam' = exam
      /\ ~removed => exam'.studentAttempts = column
      /\ ForceWrite(r) => exam'.integrityFlags = exam.integrityFlags
      /\ FlagAutoFail(r) /\ ~removed => exam'.integrityFlags = updatedFlags(q)
  BY <1>4, <1>5 DEF WriteAttempts, WriteBoth, TypeOK, Row
<1>7. QED
  BY <1>1, <1>3, <1>6 DEF column

(***************************************************************************)
(* The action properties.                                                  *)
(***************************************************************************)

\* A step changes the attempt of at most one student, and keeps it disqualified.
LEMMA OneAttemptChanges ==
    ASSUME TypeOK, SerialInvariant, [Next]_vars
    PROVE  \/ exam'.studentAttempts = exam.studentAttempts
           \/ \E u \in Students : \E a :
                 /\ exam'.studentAttempts = [exam.studentAttempts EXCEPT ![u] = a]
                 /\ exam.studentAttempts[u].autoFailed => a.autoFailed
<1>1. CASE Teacher
  <2>1. ASSUME NEW p \in Patches, update(p) PROVE exam'.studentAttempts = exam.studentAttempts
    BY <2>1 DEF update, Patched, TypeOK, Row
  <2>2. QED
    BY <1>1, <2>1 DEF Teacher, remove, saveEssayGrade, markFlagReviewed
<1>2. CASE Client
  BY <1>2 DEF Client, submitExam, reportIntegrityFlag, screenCheck, forceAutoFail
<1>3. CASE Server
  <2>1. PICK r \in Reqs :
           \/ SubmitWrite(r) \/ GradeWrite(r) \/ ReviewWrite(r)
           \/ FlagAutoFail(r) \/ FlagNotify(r) \/ FlagAlert(r) \/ FlagWrite(r)
           \/ ScreenClear(r) \/ ScreenSuspicious(r)
           \/ ForceWrite(r) \/ ForceNotify(r)
    BY <1>3 DEF Server
  <2>2. removed => exam' = exam
    BY <2>1 DEF SubmitWrite, GradeWrite, ReviewWrite, FlagAutoFail, FlagNotify, FlagAlert,
                FlagWrite, ScreenClear, ScreenSuspicious, ForceWrite, ForceNotify, observed,
                WriteAttempts, WriteFlags, WriteBoth
  <2>3. CASE SubmitWrite(r)
    BY <2>2, <2>3, SubmitWrites
  <2>4. CASE GradeWrite(r)
    BY <2>2, <2>4, GradeWrites
  <2>5. CASE FlagAutoFail(r) \/ ForceWrite(r)
    BY <2>2, <2>5, AutoFailWrites
  <2>6. CASE ReviewWrite(r)
    BY <2>6, FlagsColumn DEF ReviewWrite
  <2>7. CASE FlagWrite(r)
    BY <2>7, FlagsColumn DEF FlagWrite
  <2>8. CASE FlagNotify(r) \/ FlagAlert(r) \/ ScreenClear(r) \/ ScreenSuspicious(r) \/ ForceNotify(r)
    BY <2>8 DEF FlagNotify, FlagAlert, ScreenClear, ScreenSuspicious, ForceNotify, observed
  <2>9. QED
    BY <2>1, <2>3, <2>4, <2>5, <2>6, <2>7, <2>8
<1>4. ASSUME NEW r \in Reqs, Abort(r) PROVE exam'.studentAttempts = exam.studentAttempts
  BY <1>4 DEF Abort
<1>5. CASE Tick
  BY <1>5 DEF Tick, TypeOK, Row
<1>6. CASE UNCHANGED vars
  BY <1>6 DEF vars
<1>7. QED
  BY <1>1, <1>2, <1>3, <1>4, <1>5, <1>6 DEF Next

(***************************************************************************)
(* The invariant.                                                          *)
(***************************************************************************)

\* A step of the only request that neither writes the row nor answers.
LEMMA SerialStep ==
    ASSUME Serial, TypeOK, SerialInvariant, NEW r \in Reqs, NEW q,
           req' = [req EXCEPT ![r] = q], UNCHANGED <<exam, removed, accepted, acked>>,
           SeenIsCurrent(q), q.op # "flagNotify",
           q.op = "submit" => ~q.seen.studentAttempts[q.student].autoFailed
    PROVE  SerialInvariant'
<1>1. \A s \in Reqs : req'[s] = q
  BY DEF Serial, TypeOK
<1>2. SeenIsCurrent(q)'
  BY DEF SeenIsCurrent
<1>3. (removed \/ AttemptsAreCounted)' /\ AckedFlagsAreListed'
  BY DEF SerialInvariant, AttemptsAreCounted, AckedFlagsAreListed, usedAttempts
<1>4. \A s \in Reqs :
        /\ SeenIsCurrent(req[s])'
        /\ req'[s].op = "submit" => ~req'[s].seen.studentAttempts[req'[s].student].autoFailed
        /\ req'[s].op # "flagNotify"
  BY <1>1, <1>2 DEF SeenIsCurrent
<1>5. QED
  BY <1>3, <1>4 DEF SerialInvariant

\* A write by the only request, which then answers or goes on without the row.
LEMMA SerialWrite ==
    ASSUME Serial, TypeOK, NEW r \in Reqs, NEW q,
           req' = [req EXCEPT ![r] = q], q.op \notin SeenOps,
           (removed \/ AttemptsAreCounted)', AckedFlagsAreListed',
           q.op = "flagNotify" => removed' \/ q.flag \in exam'.integrityFlags[q.student].flags
    PROVE  SerialInvariant'
<1>1. \A s \in Reqs : req'[s] = q
  BY DEF Serial, TypeOK
<1>2. \A s \in Reqs : SeenIsCurrent(req[s])' /\ req'[s].op # "submit"
  BY <1>1 DEF SeenIsCurrent, SeenOps
<1>3. (removed \/ \A s \in Reqs :
          req[s].op = "flagNotify" =>
             req[s].flag \in exam.integrityFlags[req[s].student].flags)'
  BY <1>1
<1>4. QED
  BY <1>2, <1>3 DEF SerialInvariant

\* The attempts stay counted when one attempt is replaced and n submissions of
\* that student are answered.
LEMMA CountedAfter ==
    ASSUME TypeOK, AttemptsAreCounted, NEW u \in Students, NEW a, NEW n \in Nat,
           exam'.studentAttempts = [exam.studentAttempts EXCEPT ![u] = a],
           accepted' = [accepted EXCEPT ![u] = @ + n],
           accepted[u] + n + (IF a.autoFailed THEN 1 ELSE 0) <= a.attemptCount
    PROVE  AttemptsAreCounted'
<1>1. ASSUME NEW v \in Students
      PROVE  accepted'[v] + (IF exam'.studentAttempts[v].autoFailed THEN 1 ELSE 0)
                <= exam'.studentAttempts[v].attemptCount
  <2>1. CASE v = u
    BY <2>1, RowColumns DEF TypeOK
  <2>2. CASE v # u
    <3>1. /\ accepted'[v] = accepted[v]
          /\ exam'.studentAttempts[v] = exam.studentAttempts[v]
      BY <2>2, RowColumns DEF TypeOK
    <3>2. QED
      BY <3>1 DEF AttemptsAreCounted, usedAttempts
  <2>3. QED
    BY <2>1, <2>2
<1>2. QED
  BY <1>1 DEF AttemptsAreCounted, usedAttempts

LEMMA SerialTeacher ==
    ASSUME Serial, TypeOK, SerialInvariant, Teacher
    PROVE  SerialInvariant'
<1>1. ASSUME NEW p \in Patches, update(p) PROVE SerialInvariant'
  <2>1. /\ exam'.studentAttempts = exam.studentAttempts
        /\ exam'.integrityFlags = exam.integrityFlags
        /\ UNCHANGED <<removed, req, accepted, acked>>
    BY <1>1 DEF update, Patched, TypeOK, Row, observed
  <2>2. QED
    BY <2>1 DEF SerialInvariant, SeenIsCurrent, AttemptsAreCounted, usedAttempts,
                AckedFlagsAreListed
<1>2. CASE remove
  <2>1. removed' /\ UNCHANGED <<exam, req>>
    BY <1>2 DEF remove
  <2>2. QED
    BY <2>1 DEF SerialInvariant, SeenIsCurrent, AckedFlagsAreListed
<1>3. ASSUME NEW r \in Reqs, NEW u \in Students, saveEssayGrade(r, u) PROVE SerialInvariant'
  <2>1. PICK question \in exam.questions : \E given \in 0 .. Marks[question] :
          Start(r, [op |-> "grade", student |-> u, question |-> question,
                    score |-> given, seen |-> exam])
    BY <1>3 DEF saveEssayGrade
  <2>2. PICK given \in 0 .. Marks[question] :
          Start(r, [op |-> "grade", student |-> u, question |-> question,
                    score |-> given, seen |-> exam])
    BY <2>1
  <2> DEFINE q == [op |-> "grade", student |-> u, question |-> question,
                   score |-> given, seen |-> exam]
  <2>3. SeenIsCurrent(q) /\ q.op = "grade"
    BY DEF SeenIsCurrent
  <2>4. req' = [req EXCEPT ![r] = q]
    BY <2>2 DEF Start
  <2> HIDE DEF q
  <2>5. QED
    BY <1>3, <2>3, <2>4, SerialStep DEF saveEssayGrade, observed
<1>4. ASSUME NEW r \in Reqs, NEW u \in Students, markFlagReviewed(r, u) PROVE SerialInvariant'
  <2>1. PICK flag \in reported[u] :
          Start(r, [op |-> "review", student |-> u, id |-> flag.id, seen |-> exam])
    BY <1>4 DEF markFlagReviewed
  <2> DEFINE q == [op |-> "review", student |-> u, id |-> flag.id, seen |-> exam]
  <2>2. SeenIsCurrent(q) /\ q.op = "review"
    BY DEF SeenIsCurrent
  <2>3. req' = [req EXCEPT ![r] = q]
    BY <2>1 DEF Start
  <2> HIDE DEF q
  <2>4. QED
    BY <1>4, <2>2, <2>3, SerialStep DEF markFlagReviewed, observed
<1>5. QED
  BY <1>1, <1>2, <1>3, <1>4 DEF Teacher

LEMMA SerialClient ==
    ASSUME Serial, TypeOK, SerialInvariant, Client
    PROVE  SerialInvariant'
<1>1. ASSUME NEW r \in Reqs, NEW u \in Students, submitExam(r, u) PROVE SerialInvariant'
  <2>1. PICK answers \in AnswerSheets :
          Start(r, [op |-> "submit", student |-> u, answers |-> answers, seen |-> exam])
    BY <1>1 DEF submitExam
  <2> DEFINE q == [op |-> "submit", student |-> u, answers |-> answers, seen |-> exam]
  <2>2. SeenIsCurrent(q) /\ q.op = "submit" /\ ~q.seen.studentAttempts[q.student].autoFailed
    BY <1>1 DEF SeenIsCurrent, submitExam, maySubmit
  <2>3. req' = [req EXCEPT ![r] = q]
    BY <2>1 DEF Start
  <2> HIDE DEF q
  <2>4. QED
    BY <1>1, <2>2, <2>3, SerialStep DEF submitExam, observed
<1>2. ASSUME NEW r \in Reqs, NEW u \in Students, reportIntegrityFlag(r, u) PROVE SerialInvariant'
  <2>1. PICK type \in Violations : Start(r, flagRequest(u, type, started))
    BY <1>2 DEF reportIntegrityFlag
  <2> DEFINE q == flagRequest(u, type, started)
  <2>2. SeenIsCurrent(q) /\ q.op = "flag"
    BY DEF SeenIsCurrent, flagRequest
  <2>3. req' = [req EXCEPT ![r] = q]
    BY <2>1 DEF Start
  <2> HIDE DEF q
  <2>4. QED
    BY <1>2, <2>2, <2>3, SerialStep DEF reportIntegrityFlag
<1>3. ASSUME NEW r \in Reqs, NEW u \in Students, screenCheck(r, u) PROVE SerialInvariant'
  <2> DEFINE q == [op |-> "screen", student |-> u, id |-> started]
  <2>1. SeenIsCurrent(q) /\ q.op = "screen"
    BY DEF SeenIsCurrent, SeenOps
  <2>2. req' = [req EXCEPT ![r] = q]
    BY <1>3 DEF screenCheck, Start
  <2> HIDE DEF q
  <2>3. QED
    BY <1>3, <2>1, <2>2, SerialStep DEF screenCheck, observed
<1>4. ASSUME NEW r \in Reqs, NEW u \in Students, forceAutoFail(r, u) PROVE SerialInvariant'
  <2> DEFINE q == [op |-> "force", student |-> u, seen |-> exam]
  <2>1. SeenIsCurrent(q) /\ q.op = "force"
    BY DEF SeenIsCurrent
  <2>2. req' = [req EXCEPT ![r] = q]
    BY <1>4 DEF forceAutoFail, Start
  <2> HIDE DEF q
  <2>3. QED
    BY <1>4, <2>1, <2>2, SerialStep DEF forceAutoFail
<1>5. QED
  BY <1>1, <1>2, <1>3, <1>4 DEF Client

\* A report adds its flag to the stored list and drops none.
LEMMA FlagAdded ==
    ASSUME TypeOK, NEW q, q.student \in Students, q.seen \in Row, q.op \in SeenOps,
           SeenIsCurrent(q), exam'.integrityFlags = updatedFlags(q)
    PROVE  /\ \A v \in Students : exam.integrityFlags[v].flags \subseteq exam'.integrityFlags[v].flags
           /\ q.flag \in exam'.integrityFlags[q.student].flags
<1>1. q.seen.integrityFlags = exam.integrityFlags
  BY DEF SeenIsCurrent
<1>2. exam.integrityFlags \in [Students -> FlagList]
  BY RowColumns DEF TypeOK, Row
<1>3. exam'.integrityFlags =
        [exam.integrityFlags EXCEPT
           ![q.student].flags = exam.integrityFlags[q.student].flags \cup {q.flag}]
  BY <1>1 DEF updatedFlags, userFlags
<1>4. QED
  BY <1>2, <1>3 DEF FlagList

LEMMA SerialServer ==
    ASSUME Serial, TypeOK, SerialInvariant, NEW r \in Reqs,
           \/ SubmitWrite(r) \/ GradeWrite(r) \/ ReviewWrite(r)
           \/ FlagAutoFail(r) \/ FlagNotify(r) \/ FlagAlert(r) \/ FlagWrite(r)
           \/ ScreenClear(r) \/ ScreenSuspicious(r)
           \/ ForceWrite(r) \/ ForceNotify(r)
    PROVE  SerialInvariant'
<1> DEFINE q == req[r]
<1>1. SeenIsCurrent(q) /\ (removed \/ AttemptsAreCounted) /\ AckedFlagsAreListed
  BY DEF SerialInvariant
<1>2. CASE SubmitWrite(r)
  <2>1. /\ req' = [req EXCEPT ![r] = NoReq] /\ UNCHANGED <<removed, acked>>
        /\ accepted' = [accepted EXCEPT ![q.student] = @ + 1]
    BY <1>2 DEF SubmitWrite, Resume
  <2>2. (removed \/ AttemptsAreCounted)'
    <3> SUFFICES ASSUME ~removed PROVE AttemptsAreCounted'
      BY <2>1
    <3>1. PICK a : /\ exam'.studentAttempts = [exam.studentAttempts EXCEPT ![q.student] = a]
                   /\ ~a.autoFailed
                   /\ a.attemptCount = usedAttempts(exam, q.student) + 1
      BY <1>2, SubmitWrites
    <3>2. q.student \in Students /\ ~exam.studentAttempts[q.student].autoFailed
      BY <1>2, SubmitWrites
    <3>3. accepted[q.student] <= usedAttempts(exam, q.student)
      BY <1>1, <3>2 DEF AttemptsAreCounted, TypeOK
    <3>4. accepted[q.student] + 1 + 0 <= a.attemptCount
      BY <3>1, <3>2, <3>3, RowColumns DEF TypeOK, usedAttempts
    <3>5. QED
      BY <1>1, <2>1, <3>1, <3>2, <3>4, CountedAfter
  <2>3. AckedFlagsAreListed'
    BY <1>1, <1>2, <2>1, SubmitWrites DEF AckedFlagsAreListed
  <2>4. QED
    BY <2>1, <2>2, <2>3, SerialWrite DEF NoReq, SeenOps
<1>3. CASE GradeWrite(r)
  <2>1. req' = [req EXCEPT ![r] = NoReq] /\ UNCHANGED <<removed, acked, accepted>>
    BY <1>3 DEF GradeWrite, Resume, observed
  <2>2. (removed \/ AttemptsAreCounted)'
    <3> SUFFICES ASSUME ~removed PROVE AttemptsAreCounted'
      BY <2>1
    <3>1. PICK a : /\ exam'.studentAttempts = [exam.studentAttempts EXCEPT ![q.student] = a]
                   /\ a.autoFailed = exam.studentAttempts[q.student].autoFailed
                   /\ a.attemptCount = usedAttempts(exam, q.student)
      BY <1>3, GradeWrites
    <3>2. q.student \in Students
      BY <1>3, GradeWrites
    <3>3. accepted[q.student] + 0 + (IF a.autoFailed THEN 1 ELSE 0) <= a.attemptCount
      BY <1>1, <3>1, <3>2 DEF AttemptsAreCounted, TypeOK
    <3>4. accepted' = [accepted EXCEPT ![q.student] = @ + 0]
      BY <2>1 DEF TypeOK
    <3>5. QED
      BY <1>1, <3>1, <3>2, <3>3, <3>4, CountedAfter
  <2>3. AckedFlagsAreListed'
    BY <1>1, <1>3, <2>1, GradeWrites DEF AckedFlagsAreListed
  <2>4. QED
    BY <2>1, <2>2, <2>3, SerialWrite DEF NoReq, SeenOps
<1>4. CASE FlagAutoFail(r) \/ ForceWrite(r)
  <2>1. UNCHANGED <<removed, acked, accepted>> /\ q.student \in Students
    BY <1>4, AutoFailWrites DEF FlagAutoFail, ForceWrite, observed
  <2>2. (removed \/ AttemptsAreCounted)'
    <3> SUFFICES ASSUME ~removed PROVE AttemptsAreCounted'
      BY <2>1
    <3>1. PICK a : /\ exam'.studentAttempts = [exam.studentAttempts EXCEPT ![q.student] = a]
                   /\ a.autoFailed
                   /\ a.attemptCount = usedAttempts(exam, q.student) + 1
      BY <1>4, AutoFailWrites
    <3>2. accepted[q.student] <= usedAttempts(exam, q.student)
      <4>1. exam.studentAttempts[q.student].attemptCount \in Nat /\ accepted[q.student] \in Nat
        BY <2>1, RowColumns DEF TypeOK
      <4>2. QED
        BY <1>1, <2>1, <4>1 DEF AttemptsAreCounted, usedAttempts
    <3>3. accepted[q.student] + 0 + 1 <= a.attemptCount
      BY <2>1, <3>1, <3>2, RowColumns DEF TypeOK, usedAttempts
    <3>4. accepted' = [accepted EXCEPT ![q.student] = @ + 0]
      BY <2>1 DEF TypeOK
    <3>5. QED
      BY <1>1, <2>1, <3>1, <3>3, <3>4, CountedAfter
  <2>3. CASE ForceWrite(r)
    <3> DEFINE next == [op |-> "forceNotify", student |-> q.student]
    <3>1. req' = [req EXCEPT ![r] = next]
      BY <2>3 DEF ForceWrite, Resume
    <3>2. AckedFlagsAreListed'
      BY <1>1, <2>1, <2>3, AutoFailWrites DEF AckedFlagsAreListed
    <3>3. next.op \notin SeenOps /\ next.op # "flagNotify"
      BY DEF SeenOps
    <3> HIDE DEF next
    <3>4. QED
      BY <2>2, <3>1, <3>2, <3>3, SerialWrite
  <2>4. CASE FlagAutoFail(r)
    <3> DEFINE next == [op |-> "flagNotify", student |-> q.student, flag |-> q.flag]
    <3>1. req' = [req EXCEPT ![r] = next] /\ q.op = "flag" /\ q.seen \in Row
      BY <2>4, RequestFields DEF FlagAutoFail, Resume
    <3>2. removed \/ exam'.integrityFlags = updatedFlags(q)
      BY <2>4, AutoFailWrites
    <3>3. removed \/ (/\ \A v \in Students : exam.integrityFlags[v].flags
                                               \subseteq exam'.integrityFlags[v].flags
                      /\ q.flag \in exam'.integrityFlags[q.student].flags)
      BY <1>1, <2>1, <3>1, <3>2, FlagAdded DEF SeenOps
    <3>4. AckedFlagsAreListed'
      BY <1>1, <2>1, <3>3 DEF AckedFlagsAreListed
    <3>5. /\ next.op \notin SeenOps /\ next.student = q.student /\ next.flag = q.flag
      BY DEF SeenOps
    <3> HIDE DEF next
    <3>6. QED
      BY <2>1, <2>2, <3>1, <3>3, <3>4, <3>5, SerialWrite
  <2>5. QED
    BY <1>4, <2>3, <2>4
<1>5. CASE FlagNotify(r)
  <2>1. /\ req' = [req EXCEPT ![r] = NoReq] /\ q.op = "flagNotify"
        /\ acked' = [acked EXCEPT ![q.student] = @ \cup {q.flag}]
        /\ UNCHANGED <<exam, removed, accepted>>
    BY <1>5 DEF FlagNotify, Resume, Acknowledge
  <2>2. removed \/ q.flag \in exam.integrityFlags[q.student].flags
    BY <2>1 DEF SerialInvariant
  <2>3. AckedFlagsAreListed'
    BY <1>1, <2>1, <2>2 DEF AckedFlagsAreListed, TypeOK
  <2>4. (removed \/ AttemptsAreCounted)'
    BY <1>1, <2>1 DEF AttemptsAreCounted, usedAttempts
  <2>5. QED
    BY <2>1, <2>3, <2>4, SerialWrite DEF NoReq, SeenOps
<1>6. CASE FlagAlert(r)
  <2> DEFINE next == [q EXCEPT !.op = "flagWrite"]
  <2>1. /\ req' = [req EXCEPT ![r] = next] /\ q.op = "flag" /\ q \in Request
        /\ UNCHANGED <<exam, removed, accepted, acked>>
    BY <1>6, RequestFields DEF FlagAlert, Resume
  <2>2. next.op = "flagWrite" /\ next.seen = q.seen
    BY <2>1 DEF Request
  <2> HIDE DEF next
  <2>3. SeenIsCurrent(next)
    BY <1>1, <2>1, <2>2 DEF SeenIsCurrent, SeenOps
  <2>4. QED
    BY <2>1, <2>2, <2>3, SerialStep
<1>7. CASE FlagWrite(r)
  <2>1. /\ req' = [req EXCEPT ![r] = NoReq] /\ q.op = "flagWrite"
        /\ acked' = [acked EXCEPT ![q.student] = @ \cup {q.flag}]
        /\ UNCHANGED <<removed, accepted>> /\ WriteFlags(updatedFlags(q))
        /\ q.student \in Students /\ q.seen \in Row
    BY <1>7, RequestFields DEF FlagWrite, Resume, Acknowledge
  <2>2. /\ exam'.studentAttempts = exam.studentAttempts
        /\ removed \/ exam'.integrityFlags = updatedFlags(q)
    BY <2>1, FlagsColumn
  <2>3. removed \/ (/\ \A v \in Students : exam.integrityFlags[v].flags
                                             \subseteq exam'.integrityFlags[v].flags
                    /\ q.flag \in exam'.integrityFlags[q.student].flags)
    BY <1>1, <2>1, <2>2, FlagAdded DEF SeenOps
  <2>4. AckedFlagsAreListed'
    BY <1>1, <2>1, <2>3 DEF AckedFlagsAreListed, TypeOK
  <2>5. (removed \/ AttemptsAreCounted)'
    BY <1>1, <2>1, <2>2 DEF AttemptsAreCounted, usedAttempts
  <2>6. QED
    BY <2>1, <2>4, <2>5, SerialWrite DEF NoReq, SeenOps
<1>8. CASE ReviewWrite(r)
  <2> DEFINE old == q.seen.integrityFlags[q.student]
             list == [q.seen.integrityFlags EXCEPT
                        ![q.student].reviewed = @ \cup matchingFlags(q)]
  <2>1. /\ req' = [req EXCEPT ![r] = NoReq] /\ q.op = "review"
        /\ UNCHANGED <<removed, accepted, acked>> /\ WriteFlags(list)
        /\ q.student \in Students /\ q.seen \in Row
    BY <1>8, RequestFields DEF ReviewWrite, Resume, observed
  <2>2. \A v \in Students : list[v].flags = exam.integrityFlags[v].flags
    <3>1. q.seen.integrityFlags = exam.integrityFlags
      BY <1>1, <2>1 DEF SeenIsCurrent, SeenOps
    <3>2. q.seen.integrityFlags \in [Students -> FlagList]
      BY <2>1, RowColumns
    <3>3. QED
      BY <3>1, <3>2 DEF FlagList
  <2> HIDE DEF list
  <2>3. /\ exam'.studentAttempts = exam.studentAttempts
        /\ removed \/ exam'.integrityFlags = list
    BY <2>1, FlagsColumn
  <2>4. AckedFlagsAreListed'
    BY <1>1, <2>1, <2>2, <2>3 DEF AckedFlagsAreListed
  <2>5. (removed \/ AttemptsAreCounted)'
    BY <1>1, <2>1, <2>3 DEF AttemptsAreCounted, usedAttempts
  <2>6. QED
    BY <2>1, <2>4, <2>5, SerialWrite DEF NoReq, SeenOps
<1>9. CASE ScreenClear(r) \/ ForceNotify(r)
  <2>1. req' = [req EXCEPT ![r] = NoReq] /\ UNCHANGED <<exam, removed, accepted, acked>>
    BY <1>9 DEF ScreenClear, ForceNotify, Resume, observed
  <2>2. SeenIsCurrent(NoReq) /\ NoReq.op = "idle"
    BY DEF SeenIsCurrent, NoReq, SeenOps
  <2>3. QED
    BY <2>1, <2>2, SerialStep
<1>10. CASE ScreenSuspicious(r)
  <2> DEFINE next == flagRequest(q.student, "suspicious_screen", q.id)
  <2>1. req' = [req EXCEPT ![r] = next] /\ UNCHANGED <<exam, removed, accepted, acked>>
    BY <1>10 DEF ScreenSuspicious, Resume
  <2>2. SeenIsCurrent(next) /\ next.op = "flag"
    BY DEF SeenIsCurrent, flagRequest
  <2> HIDE DEF next
  <2>3. QED
    BY <2>1, <2>2, SerialStep
<1>11. QED
  BY <1>2, <1>3, <1>4, <1>5, <1>6, <1>7, <1>8, <1>9, <1>10

\* The invariant holds initially and every step keeps it.
THEOREM SerialInvariantHolds ==
    ASSUME Serial
    PROVE  Spec => []SerialInvariant
<1>1. Init => SerialInvariant
  <2> SUFFICES ASSUME Init PROVE SerialInvariant
    OBVIOUS
  <2>1. PICK dto \in Dtos : exam = Created(dto)
    BY DEF Init
  <2>2. \A u \in Students : exam.studentAttempts[u] = NoAttempt
    BY <2>1 DEF Created
  <2>3. AttemptsAreCounted
    <3>1. NoAttempt.attemptCount = 0 /\ NoAttempt.autoFailed = FALSE
      BY DEF NoAttempt
    <3>2. \A u \in Students : accepted[u] = 0
      BY DEF Init
    <3>3. QED
      BY <2>2, <3>1, <3>2 DEF AttemptsAreCounted, usedAttempts
  <2>4. \A r \in Reqs : req[r] = NoReq
    BY DEF Init
  <2>5. \A r \in Reqs : req[r].op = "idle"
    BY <2>4 DEF NoReq
  <2>6. AckedFlagsAreListed
    BY DEF Init, AckedFlagsAreListed
  <2>7. QED
    BY <2>3, <2>5, <2>6 DEF SerialInvariant, SeenIsCurrent, SeenOps
<1>2. TypeOK /\ SerialInvariant /\ [Next]_vars => SerialInvariant'
  <2> SUFFICES ASSUME TypeOK, SerialInvariant, [Next]_vars PROVE SerialInvariant'
    OBVIOUS
  <2>1. CASE Teacher
    BY <2>1, SerialTeacher
  <2>2. CASE Client
    BY <2>2, SerialClient
  <2>3. CASE Server
    BY <2>3, SerialServer DEF Server
  <2>4. ASSUME NEW r \in Reqs, Abort(r) PROVE SerialInvariant'
    <3>1. req' = [req EXCEPT ![r] = NoReq] /\ UNCHANGED <<exam, removed, accepted, acked>>
      BY <2>4 DEF Abort, observed
    <3>2. SeenIsCurrent(NoReq) /\ NoReq.op = "idle"
      BY DEF SeenIsCurrent, NoReq, SeenOps
    <3>3. QED
      BY <3>1, <3>2, SerialStep
  <2>5. CASE Tick
    <3>1. /\ exam'.studentAttempts = exam.studentAttempts
          /\ exam'.integrityFlags = exam.integrityFlags
          /\ UNCHANGED <<removed, req, accepted, acked>>
      BY <2>5 DEF Tick, TypeOK, Row, observed
    <3>2. QED
      BY <3>1 DEF SerialInvariant, SeenIsCurrent, AttemptsAreCounted, usedAttempts,
                  AckedFlagsAreListed
  <2>6. CASE UNCHANGED vars
    BY <2>6 DEF vars, SerialInvariant, SeenIsCurrent, AttemptsAreCounted, usedAttempts,
                AckedFlagsAreListed
  <2>7. QED
    BY <2>1, <2>2, <2>3, <2>4, <2>5, <2>6 DEF Next
<1>3. QED
  BY <1>1, <1>2, TypeCorrect, PTL DEF Spec

\* Without overlap, an accepted submission stays counted.
THEOREM AcceptedStayStored ==
    ASSUME Serial
    PROVE  Spec => []AcceptedAreStored
<1>1. TypeOK /\ SerialInvariant => AcceptedAreStored
  <2> SUFFICES ASSUME TypeOK, SerialInvariant, ~removed, NEW u \in Students
               PROVE  accepted[u] <= usedAttempts(exam, u)
    BY DEF AcceptedAreStored
  <2>1. exam.studentAttempts[u].attemptCount \in Nat /\ accepted[u] \in Nat
    BY RowColumns DEF TypeOK
  <2>2. QED
    BY <2>1 DEF SerialInvariant, AttemptsAreCounted, usedAttempts
<1>2. QED
  BY <1>1, SerialInvariantHolds, TypeCorrect, PTL

\* Without overlap, nobody has more submissions accepted than some limit of the exam.
THEOREM AcceptedStayWithinLimit ==
    ASSUME Serial
    PROVE  Spec => []AcceptedWithinLimit
<1>1. TypeOK /\ SerialInvariant /\ AttemptsWithinLimits => AcceptedWithinLimit
  <2> SUFFICES ASSUME TypeOK, SerialInvariant, AttemptsWithinLimits, ~removed, NEW u \in Students
               PROVE  \E limit \in ConfiguredLimits : accepted[u] <= limit
    BY DEF AcceptedWithinLimit
  <2> DEFINE a == exam.studentAttempts[u]
  <2>1. a.attemptCount \in Nat /\ accepted[u] \in Nat
    BY RowColumns DEF TypeOK
  <2>2. accepted[u] + (IF a.autoFailed THEN 1 ELSE 0) <= a.attemptCount
    BY DEF SerialInvariant, AttemptsAreCounted, usedAttempts
  <2>3. PICK limit \in ConfiguredLimits :
          a.attemptCount <= limit + (IF a.autoFailed THEN 1 ELSE 0)
    BY DEF AttemptsWithinLimits, WithinLimits
  <2>4. limit \in Nat
    BY LimitsType
  <2> HIDE DEF a
  <2>5. accepted[u] <= limit
    BY <2>1, <2>2, <2>3, <2>4
  <2>6. QED
    BY <2>5
<1>2. QED
  BY <1>1, SerialInvariantHolds, AttemptsStayWithinLimits, TypeCorrect, PTL

\* Without overlap, an answered report stays listed.
THEOREM AckedFlagsStayListed ==
    ASSUME Serial
    PROVE  Spec => []AckedFlagsAreListed
<1>1. SerialInvariant => AckedFlagsAreListed
  BY DEF SerialInvariant
<1>2. QED
  BY <1>1, SerialInvariantHolds, PTL

\* Without overlap, no step takes a disqualification back.
THEOREM DisqualificationStays ==
    ASSUME Serial
    PROVE  Spec => DisqualificationIsPermanent
<1>1. TypeOK /\ SerialInvariant /\ [Next]_vars =>
        [\A u \in Students :
           exam.studentAttempts[u].autoFailed => exam'.studentAttempts[u].autoFailed]_vars
  <2> SUFFICES ASSUME TypeOK, SerialInvariant, [Next]_vars, NEW u \in Students,
                      exam.studentAttempts[u].autoFailed
               PROVE  exam'.studentAttempts[u].autoFailed
    OBVIOUS
  <2>1. exam.studentAttempts \in [Students -> Attempt]
    BY DEF TypeOK, Row
  <2>2. QED
    BY <2>1, OneAttemptChanges
<1>2. QED
  BY <1>1, SerialInvariantHolds, TypeCorrect, PTL DEF Spec, DisqualificationIsPermanent

\* Without overlap, a step changes the attempt of one student at most.
THEOREM AttemptsStayIsolated ==
    ASSUME Serial
    PROVE  Spec => AttemptsAreIsolated
<1>1. TypeOK /\ SerialInvariant /\ [Next]_vars =>
        [\A u, v \in Students :
           (/\ exam'.studentAttempts[u] # exam.studentAttempts[u]
            /\ exam'.studentAttempts[v] # exam.studentAttempts[v]) => u = v]_vars
  <2> SUFFICES ASSUME TypeOK, SerialInvariant, [Next]_vars,
                      NEW u \in Students, NEW v \in Students,
                      exam'.studentAttempts[u] # exam.studentAttempts[u],
                      exam'.studentAttempts[v] # exam.studentAttempts[v]
               PROVE  u = v
    OBVIOUS
  <2>1. exam.studentAttempts \in [Students -> Attempt]
    BY DEF TypeOK, Row
  <2>2. QED
    BY <2>1, OneAttemptChanges
<1>2. QED
  BY <1>1, SerialInvariantHolds, TypeCorrect, PTL DEF Spec, AttemptsAreIsolated

(***************************************************************************)
(* The threshold.                                                          *)
(***************************************************************************)

\* The lists of flags change by the two writes of a report only.
LEMMA ListsChange ==
    ASSUME TypeOK, SerialInvariant, [Next]_vars
    PROVE  \/ \A u \in Students : exam'.integrityFlags[u].flags = exam.integrityFlags[u].flags
           \/ \E r \in Reqs : FlagAutoFail(r) \/ FlagWrite(r)
<1> DEFINE Same == \A u \in Students :
                      exam'.integrityFlags[u].flags = exam.integrityFlags[u].flags
<1>1. exam'.integrityFlags = exam.integrityFlags => Same
  OBVIOUS
<1>2. CASE Teacher
  <2>1. ASSUME NEW p \in Patches, update(p) PROVE exam'.integrityFlags = exam.integrityFlags
    BY <2>1 DEF update, Patched, TypeOK, Row
  <2> QED
    BY <1>2, <2>1 DEF Teacher, remove, saveEssayGrade, markFlagReviewed
<1>3. CASE Client
  BY <1>3 DEF Client, submitExam, reportIntegrityFlag, screenCheck, forceAutoFail
<1>4. CASE Server
  <2>1. PICK r \in Reqs :
           \/ SubmitWrite(r) \/ GradeWrite(r) \/ ReviewWrite(r)
           \/ FlagAutoFail(r) \/ FlagNotify(r) \/ FlagAlert(r) \/ FlagWrite(r)
           \/ ScreenClear(r) \/ ScreenSuspicious(r)
           \/ ForceWrite(r) \/ ForceNotify(r)
    BY <1>4 DEF Server
  <2>2. CASE SubmitWrite(r)
    BY <1>1, <2>2, SubmitWrites
  <2>3. CASE GradeWrite(r)
    BY <1>1, <2>3, GradeWrites
  <2>4. CASE ForceWrite(r)
    BY <1>1, <2>4, AutoFailWrites
  <2>5. CASE ReviewWrite(r)
    <3> DEFINE q == req[r]
               list == [q.seen.integrityFlags EXCEPT
                          ![q.student].reviewed = @ \cup matchingFlags(q)]
    <3>1. q.op = "review" /\ WriteFlags(list) /\ q.student \in Students /\ q.seen \in Row
      BY <2>5, RequestFields DEF ReviewWrite, Resume
    <3>2. q.seen.integrityFlags = exam.integrityFlags
      BY <3>1 DEF SerialInvariant, SeenIsCurrent, SeenOps
    <3>3. \A v \in Students : list[v].flags = exam.integrityFlags[v].flags
      BY <3>1, <3>2, RowColumns DEF FlagList
    <3> HIDE DEF list, q
    <3> QED
      BY <3>1, <3>3, FlagsColumn
  <2>6. CASE FlagNotify(r) \/ FlagAlert(r) \/ ScreenClear(r) \/ ScreenSuspicious(r) \/ ForceNotify(r)
    BY <2>6 DEF FlagNotify, FlagAlert, ScreenClear, ScreenSuspicious, ForceNotify, observed
  <2> QED
    BY <2>1, <2>2, <2>3, <2>4, <2>5, <2>6
<1>5. ASSUME NEW r \in Reqs, Abort(r) PROVE exam'.integrityFlags = exam.integrityFlags
  BY <1>5 DEF Abort
<1>6. CASE Tick
  BY <1>6 DEF Tick, TypeOK, Row
<1> QED
  BY <1>2, <1>3, <1>4, <1>5, <1>6 DEF Next, vars

\* The write of a report replaces its student's list by the flags that it counted.
LEMMA ListWritten ==
    ASSUME TypeOK, SerialInvariant, ~removed, NEW r \in Reqs, FlagAutoFail(r) \/ FlagWrite(r)
    PROVE  LET q == req[r] IN
           /\ q.student \in Students /\ q.op \in {"flag", "flagWrite"}
           /\ q.seen.studentAttempts = exam.studentAttempts
           /\ exam'.integrityFlags[q.student].flags = userFlags(q)
           /\ \A v \in Students \ {q.student} :
                 exam'.integrityFlags[v].flags = exam.integrityFlags[v].flags
<1> DEFINE q == req[r]
<1>1. q.op \in {"flag", "flagWrite"} /\ q.student \in Students /\ SeenIsCurrent(q)
  BY RequestFields DEF FlagAutoFail, FlagWrite, Resume, SerialInvariant
<1>2. /\ q.seen.studentAttempts = exam.studentAttempts
      /\ q.seen.integrityFlags = exam.integrityFlags
  BY <1>1 DEF SeenIsCurrent, SeenOps
<1>3. exam'.integrityFlags = updatedFlags(q)
  BY AutoFailWrites, FlagsColumn DEF FlagWrite
<1>4. exam.integrityFlags \in [Students -> FlagList]
  BY DEF TypeOK, Row
<1> HIDE DEF q
<1>5. /\ updatedFlags(q)[q.student].flags = userFlags(q)
      /\ \A v \in Students \ {q.student} : updatedFlags(q)[v] = exam.integrityFlags[v]
  BY <1>1, <1>2, <1>4 DEF updatedFlags, FlagList
<1> QED
  BY <1>1, <1>2, <1>3, <1>5 DEF q

\* Only an update switches the auto-fail.
LEMMA AutoFailSwitch ==
    ASSUME TypeOK, NeverTurnedOn, [Next]_vars, exam'.autoFailOnCheat
    PROVE  exam.autoFailOnCheat
<1>1. exam.autoFailOnCheat \in BOOLEAN
  BY DEF TypeOK, Row
<1>2. ASSUME NEW p \in Patches, update(p) PROVE exam.autoFailOnCheat
  <2>1. exam'.autoFailOnCheat =
           IF p.autoFailOnCheat = Undefined THEN exam.autoFailOnCheat ELSE p.autoFailOnCheat
    BY <1>2 DEF update, Patched, TypeOK, Row
  <2>2. p.autoFailOnCheat \in BOOLEAN \cup {Undefined} /\ p.autoFailOnCheat # TRUE
    BY RequestAssumption DEF NeverTurnedOn, Patch, Optional
  <2> QED
    BY <2>1, <2>2
<1>3. remove \/ Client \/ (\E r \in Reqs : Abort(r)) => UNCHANGED exam
  BY DEF remove, Client, submitExam, reportIntegrityFlag, screenCheck, forceAutoFail, Abort
<1>4. \A r \in Reqs, u \in Students :
         saveEssayGrade(r, u) \/ markFlagReviewed(r, u) => UNCHANGED exam
  BY DEF saveEssayGrade, markFlagReviewed
<1>5. Tick => exam'.autoFailOnCheat = exam.autoFailOnCheat
  BY DEF Tick, TypeOK, Row
<1>6. ASSUME NEW attempts, NEW flags,
             WriteAttempts(attempts) \/ WriteFlags(flags) \/ WriteBoth(attempts, flags)
      PROVE  exam'.autoFailOnCheat = exam.autoFailOnCheat
  BY <1>6 DEF WriteAttempts, WriteFlags, WriteBoth, TypeOK, Row
<1>7. CASE Server
  <2>1. PICK r \in Reqs :
           \/ SubmitWrite(r) \/ GradeWrite(r) \/ ReviewWrite(r)
           \/ FlagAutoFail(r) \/ FlagNotify(r) \/ FlagAlert(r) \/ FlagWrite(r)
           \/ ScreenClear(r) \/ ScreenSuspicious(r)
           \/ ForceWrite(r) \/ ForceNotify(r)
    BY <1>7 DEF Server
  <2>2. CASE SubmitWrite(r)
    BY <1>6, <2>2 DEF SubmitWrite
  <2>3. CASE GradeWrite(r) \/ ReviewWrite(r) \/ FlagAutoFail(r) \/ FlagWrite(r) \/ ForceWrite(r)
    BY <1>6, <2>3 DEF GradeWrite, ReviewWrite, FlagAutoFail, FlagWrite, ForceWrite
  <2>4. CASE FlagNotify(r) \/ FlagAlert(r) \/ ScreenClear(r) \/ ScreenSuspicious(r) \/ ForceNotify(r)
    BY <2>4 DEF FlagNotify, FlagAlert, ScreenClear, ScreenSuspicious, ForceNotify, observed
  <2> QED
    BY <2>1, <2>2, <2>3, <2>4
<1> QED
  BY <1>2, <1>3, <1>4, <1>5, <1>7 DEF Next, Teacher, vars

LEMMA ThresholdStep ==
    ASSUME Serial, NeverTurnedOn, TypeOK, SerialInvariant, ThresholdInvariant, [Next]_vars
    PROVE  ThresholdInvariant'
<1> SUFFICES ASSUME ~removed', exam'.autoFailOnCheat
             PROVE  /\ \A u \in Students :
                          Cardinality(High(exam'.integrityFlags[u].flags))
                             >= HIGH_VIOLATION_THRESHOLD => exam'.studentAttempts[u].autoFailed
                    /\ \A r \in Reqs :
                          /\ req'[r].op \in SeenOps => req'[r].seen.autoFailOnCheat
                          /\ req'[r].op = "flagWrite" => ~autoFails(req'[r])
  BY DEF ThresholdInvariant, autoFails, userFlags
<1>1. exam.autoFailOnCheat
  BY AutoFailSwitch
<1>2. ~removed
  BY DEF Next, Teacher, Client, Server, update, remove, saveEssayGrade, markFlagReviewed,
         submitExam, reportIntegrityFlag, screenCheck, forceAutoFail, SubmitWrite, GradeWrite,
         ReviewWrite, FlagAutoFail, FlagNotify, FlagAlert, FlagWrite, ScreenClear,
         ScreenSuspicious, ForceWrite, ForceNotify, Abort, Tick, vars
<1>3. /\ \A u \in Students :
            Cardinality(High(exam.integrityFlags[u].flags)) >= HIGH_VIOLATION_THRESHOLD =>
               exam.studentAttempts[u].autoFailed
      /\ \A r \in Reqs : /\ req[r].op \in SeenOps => req[r].seen.autoFailOnCheat
                         /\ req[r].op = "flagWrite" => ~autoFails(req[r])
  BY <1>1, <1>2 DEF ThresholdInvariant
<1>4. \A u \in Students : exam.studentAttempts[u].autoFailed => exam'.studentAttempts[u].autoFailed
  <2>1. exam.studentAttempts \in [Students -> Attempt]
    BY DEF TypeOK, Row
  <2> QED
    BY <2>1, OneAttemptChanges
<1>5. ASSUME NEW u \in Students,
             Cardinality(High(exam'.integrityFlags[u].flags)) >= HIGH_VIOLATION_THRESHOLD
      PROVE  exam'.studentAttempts[u].autoFailed
  <2>1. CASE exam'.integrityFlags[u].flags = exam.integrityFlags[u].flags
    BY <1>3, <1>4, <1>5, <2>1
  <2>2. ASSUME NEW r \in Reqs, FlagAutoFail(r), req[r].student = u
        PROVE  exam'.studentAttempts[u].autoFailed
    <3>1. exam.studentAttempts \in [Students -> Attempt]
      BY DEF TypeOK, Row
    <3> QED
      BY <1>2, <2>2, <3>1, AutoFailWrites
  <2>3. ASSUME NEW r \in Reqs, FlagWrite(r), req[r].student = u
        PROVE  exam'.studentAttempts[u].autoFailed
    <3>1. req[r].op = "flagWrite" /\ req[r].seen.autoFailOnCheat /\ ~autoFails(req[r])
      BY <1>3, <2>3 DEF FlagWrite, Resume, SeenOps
    <3>2. /\ exam'.integrityFlags[u].flags = userFlags(req[r])
          /\ req[r].seen.studentAttempts = exam.studentAttempts
      BY <1>2, <2>3, ListWritten
    <3> QED
      BY <1>4, <1>5, <2>3, <3>1, <3>2 DEF autoFails
  <2> QED
    BY <1>2, <2>1, <2>2, <2>3, ListsChange, ListWritten
<1>6. ASSUME NEW r \in Reqs
      PROVE  /\ req'[r].op \in SeenOps => req'[r].seen.autoFailOnCheat
             /\ req'[r].op = "flagWrite" => ~autoFails(req'[r])
  <2>1. CASE UNCHANGED req
    BY <1>3, <2>1
  <2>2. ASSUME NEW s \in Reqs, NEW q, req' = [req EXCEPT ![s] = q],
               q.op \in SeenOps => q.seen.autoFailOnCheat,
               q.op = "flagWrite" => ~autoFails(q)
        PROVE  /\ req'[r].op \in SeenOps => req'[r].seen.autoFailOnCheat
               /\ req'[r].op = "flagWrite" => ~autoFails(req'[r])
    BY <1>3, <2>2 DEF TypeOK
  <2>3. ASSUME NEW s \in Reqs, FlagAlert(s), NEW q, q = [req[s] EXCEPT !.op = "flagWrite"]
        PROVE  q.seen.autoFailOnCheat /\ ~autoFails(q)
    <3>1. /\ req[s].op = "flag" /\ ~autoFails(req[s]) /\ req[s] \in Request
          /\ req[s].seen.autoFailOnCheat
      BY <1>3, <2>3, RequestFields DEF FlagAlert, Resume, SeenOps
    <3>2. q.seen = req[s].seen /\ q.student = req[s].student /\ q.flag = req[s].flag
      BY <2>3, <3>1 DEF Request
    <3> QED
      BY <3>1, <3>2 DEF autoFails, userFlags
  <2>4. CASE ~ UNCHANGED req
    <3>1. PICK s, q :
             /\ s \in Reqs /\ req' = [req EXCEPT ![s] = q]
             /\ \/ q.op \notin SeenOps
                \/ q.op \in SeenOps \ {"flagWrite"} /\ q.seen = exam
                \/ FlagAlert(s) /\ q = [req[s] EXCEPT !.op = "flagWrite"]
      BY <2>4, RequestChanges
    <3>2. q.op \in SeenOps => q.seen.autoFailOnCheat
      BY <1>1, <2>3, <3>1
    <3>3. q.op = "flagWrite" => ~autoFails(q)
      BY <2>3, <3>1 DEF SeenOps
    <3> QED
      BY <2>2, <3>1, <3>2, <3>3
  <2> QED
    BY <2>1, <2>4
<1> QED
  BY <1>5, <1>6

\* Without overlap, three answered reports of high severity disqualify, as long as nobody
\* turns the auto-fail on when there are reports already.
THEOREM ThresholdAlwaysDisqualifies ==
    ASSUME Serial, NeverTurnedOn
    PROVE  Spec => []ThresholdDisqualifies
<1>1. Init => ThresholdInvariant
  <2> SUFFICES ASSUME Init PROVE ThresholdInvariant
    OBVIOUS
  <2>1. PICK dto \in Dtos : exam = Created(dto)
    BY DEF Init
  <2>2. \A u \in Students : High(exam.integrityFlags[u].flags) = {}
    BY <2>1 DEF Created, NoFlags, High
  <2>3. ~(Cardinality({}) >= HIGH_VIOLATION_THRESHOLD)
    BY FS_EmptySet DEF HIGH_VIOLATION_THRESHOLD
  <2>4. \A r \in Reqs : req[r].op = "idle"
    BY DEF Init, NoReq
  <2> QED
    BY <2>2, <2>3, <2>4 DEF ThresholdInvariant, SeenOps
<1>2. TypeOK /\ SerialInvariant /\ ThresholdInvariant /\ [Next]_vars => ThresholdInvariant'
  BY ThresholdStep
<1>3. TypeOK /\ OverlapInvariant /\ SerialInvariant /\ ThresholdInvariant => ThresholdDisqualifies
  <2> SUFFICES ASSUME OverlapInvariant, SerialInvariant, ThresholdInvariant, ~removed,
                      exam.autoFailOnCheat, NEW u \in Students, TypeOK,
                      Cardinality(High(acked[u])) >= HIGH_VIOLATION_THRESHOLD
               PROVE  exam.studentAttempts[u].autoFailed
    BY DEF ThresholdDisqualifies
  <2> DEFINE list == exam.integrityFlags[u].flags
  <2>1. acked[u] \subseteq list
    BY DEF SerialInvariant, AckedFlagsAreListed
  <2>2. IsFiniteSet(High(list))
    <3>1. list \subseteq reported[u] /\ IsFiniteSet(reported[u])
      BY DEF OverlapInvariant, RowSound, FlagListSound
    <3> QED
      BY <3>1, FS_Subset DEF High
  <2>3. /\ Cardinality(High(acked[u])) \in Nat /\ Cardinality(High(list)) \in Nat
        /\ Cardinality(High(acked[u])) <= Cardinality(High(list))
    <3>1. High(acked[u]) \subseteq High(list)
      BY <2>1 DEF High
    <3> QED
      BY <2>2, <3>1, FS_Subset, FS_CardinalityType
  <2>4. Cardinality(High(list)) >= HIGH_VIOLATION_THRESHOLD
    BY <2>3 DEF HIGH_VIOLATION_THRESHOLD
  <2> QED
    BY <2>4 DEF ThresholdInvariant
<1> QED
  BY <1>1, <1>2, <1>3, SerialInvariantHolds, OverlapInvariantHolds, TypeCorrect, PTL DEF Spec

(***************************************************************************)
(* The ledger.                                                             *)
(***************************************************************************)

LEMMA CheckedStep ==
    ASSUME TypeOK, AllChecked, [Next]_vars
    PROVE  AllChecked'
<1>1. ASSUME NEW r \in Reqs, NEW q, req' = [req EXCEPT ![r] = q], Checked(q)
      PROVE  \A s \in Reqs : Checked(req'[s])
  BY <1>1 DEF TypeOK, AllChecked
<1>2. ASSUME NEW r \in Reqs, FlagAlert(r)
      PROVE  [req[r] EXCEPT !.op = "flagWrite"].op = "flagWrite"
  BY <1>2, RequestFields DEF FlagAlert, Resume, Request
<1>3. \A q : q.op \notin SeenOps \ {"flagWrite"} => Checked(q)
  BY DEF Checked, SeenOps
<1>4. \A s \in Reqs : Checked(req'[s])
  <2>1. CASE UNCHANGED req
    BY <2>1 DEF AllChecked
  <2> QED
    BY <1>1, <1>2, <1>3, <2>1, RequestChanges
<1> QED
  BY <1>4 DEF AllChecked, Checked

\* A submission is entered, or answered after the exam was deleted.
LEMMA SubmitEnters ==
    ASSUME TypeOK, TypeOK', OverlapInvariant, SerialInvariant, NEW r \in Reqs, SubmitWrite(r)
    PROVE  \E u \in Students : Ledger!Submit(u) \/ Ledger!AnswerLate(u)
<1> DEFINE q == req[r]
           u == q.student
<1>1. /\ q.op = "submit" /\ u \in Students
      /\ accepted' = [accepted EXCEPT ![u] = @ + 1]
      /\ UNCHANGED <<removed, reported, acked, forced>>
  BY RequestFields DEF SubmitWrite, Resume
<1>2. exam'.integrityFlags = exam.integrityFlags /\ ~exam.studentAttempts[u].autoFailed
  BY SubmitWrites
<1>3. CASE removed
  <2>1. exam' = exam
    BY <1>3 DEF SubmitWrite, WriteAttempts
  <2> QED
    BY <1>1, <1>3, <2>1 DEF Ledger!AnswerLate, Ledger!asked
<1>4. CASE ~removed
  <2>1. PICK a : /\ exam'.studentAttempts = [exam.studentAttempts EXCEPT ![u] = a]
                 /\ ~a.autoFailed
                 /\ a.attemptCount = exam.studentAttempts[u].attemptCount + 1
    BY <1>4, SubmitWrites DEF usedAttempts
  <2>2. \E limit \in ConfiguredLimits : exam.studentAttempts[u].attemptCount < limit
    <3>1. RequestSound(q, reported, forced, alerts) /\ SeenIsCurrent(q)
      BY DEF OverlapInvariant, SerialInvariant
    <3>2. q.seen.maxAttempts \in ConfiguredLimits /\ usedAttempts(q.seen, u) < q.seen.maxAttempts
      BY <1>1, <3>1 DEF RequestSound, SeenOps, RowSound
    <3> QED
      BY <1>1, <3>1, <3>2 DEF SeenIsCurrent, SeenOps, usedAttempts
  <2>3. exam.studentAttempts \in [Students -> Attempt] /\ exam'.studentAttempts \in [Students -> Attempt]
    BY DEF TypeOK, Row
  <2>4. exam'.studentAttempts[u] = a /\ a.autoFailed = FALSE
    BY <1>1, <2>1, <2>3 DEF Attempt
  <2>5. Ledger!Enters(u, exam.studentAttempts[u].attemptCount + 1, FALSE)
    BY <1>1, <1>4, <2>1, <2>4 DEF Ledger!Enters
  <2> QED
    BY <1>1, <1>2, <2>2, <2>5 DEF Ledger!Submit, Ledger!asked
<1> QED
  BY <1>3, <1>4

LEMMA GradeEnters ==
    ASSUME TypeOK, TypeOK', SerialInvariant, AllChecked, NEW r \in Reqs, GradeWrite(r)
    PROVE  UNCHANGED Ledger!ledgerVars \/ \E u \in Students : Ledger!Grade(u)
<1> DEFINE q == req[r]
           u == q.student
<1>1. q.op = "grade" /\ u \in Students /\ UNCHANGED <<removed, accepted, reported, acked, forced>>
  BY RequestFields DEF GradeWrite, Resume, observed
<1>2. exam'.integrityFlags = exam.integrityFlags /\ (removed => exam' = exam)
  BY GradeWrites
<1>3. CASE removed
  BY <1>1, <1>2, <1>3 DEF Ledger!ledgerVars, Ledger!asked
<1>4. CASE ~removed
  <2>1. PICK a : /\ exam'.studentAttempts = [exam.studentAttempts EXCEPT ![u] = a]
                 /\ a.autoFailed = exam.studentAttempts[u].autoFailed
                 /\ a.attemptCount = exam.studentAttempts[u].attemptCount
    BY <1>4, GradeWrites DEF usedAttempts
  <2>2. exam.studentAttempts[u].attemptCount > 0
    BY <1>1 DEF AllChecked, Checked, SerialInvariant, SeenIsCurrent, SeenOps, HasAttempt
  <2>3. exam'.studentAttempts[u] = a
    BY <1>1, <2>1 DEF TypeOK, Row
  <2>4. Ledger!Enters(u, exam.studentAttempts[u].attemptCount, exam.studentAttempts[u].autoFailed)
    BY <1>1, <1>4, <2>1, <2>3 DEF Ledger!Enters
  <2> QED
    BY <1>1, <1>2, <2>2, <2>4 DEF Ledger!Grade, Ledger!asked
<1> QED
  BY <1>3, <1>4

\* A forced disqualification is the student's first attempt.
LEMMA ForceEnters ==
    ASSUME TypeOK, TypeOK', OverlapInvariant, SerialInvariant, AllChecked, NEW r \in Reqs,
           ForceWrite(r)
    PROVE  UNCHANGED Ledger!ledgerVars \/ \E u \in Students : Ledger!Fail(u)
<1> DEFINE q == req[r]
           u == q.student
<1>1. q.op = "force" /\ u \in Students /\ UNCHANGED <<removed, accepted, reported, acked, forced>>
  BY RequestFields DEF ForceWrite, Resume, observed
<1>2. exam'.integrityFlags = exam.integrityFlags /\ (removed => exam' = exam)
  BY AutoFailWrites
<1>3. CASE removed
  BY <1>1, <1>2, <1>3 DEF Ledger!ledgerVars, Ledger!asked
<1>4. CASE ~removed
  <2>1. PICK a : /\ exam'.studentAttempts = [exam.studentAttempts EXCEPT ![u] = a]
                 /\ a.autoFailed
                 /\ a.attemptCount = exam.studentAttempts[u].attemptCount + 1
    BY <1>4, AutoFailWrites DEF usedAttempts
  <2>2. exam.studentAttempts[u].attemptCount = 0
    <3>1. ~(exam.studentAttempts[u].attemptCount > 0)
      BY <1>1 DEF AllChecked, Checked, SerialInvariant, SeenIsCurrent, SeenOps, HasAttempt
    <3>2. exam.studentAttempts[u].attemptCount \in Nat
      BY <1>1, RowColumns DEF TypeOK
    <3> QED
      BY <3>1, <3>2
  <2>3. exam'.studentAttempts[u] = a /\ a.autoFailed = TRUE
    BY <1>1, <2>1 DEF TypeOK, Row, Attempt
  <2>4. Ledger!Enters(u, 1, TRUE)
    BY <1>1, <1>4, <2>1, <2>2, <2>3 DEF Ledger!Enters
  <2>5. u \in forced
    BY <1>1 DEF OverlapInvariant, RequestSound
  <2> QED
    BY <1>1, <1>2, <2>2, <2>4, <2>5 DEF Ledger!Fail, Ledger!asked
<1> QED
  BY <1>3, <1>4

\* What a report's write does to the lists.
LEMMA ReportLists ==
    ASSUME TypeOK, SerialInvariant, NEW q, q.op \in SeenOps, SeenIsCurrent(q)
    PROVE  /\ updatedFlags(q) = [exam.integrityFlags EXCEPT
                                   ![q.student].flags = @ \cup {q.flag}]
           /\ userFlags(q) = exam.integrityFlags[q.student].flags \cup {q.flag}
BY DEF SeenIsCurrent, updatedFlags, userFlags

LEMMA AutoFailEnters ==
    ASSUME TypeOK, TypeOK', OverlapInvariant, SerialInvariant, NEW r \in Reqs, FlagAutoFail(r)
    PROVE  \/ UNCHANGED Ledger!ledgerVars
           \/ \E u \in Students : \E flag \in reported[u] : Ledger!Disqualify(u, flag)
<1> DEFINE q == req[r]
           u == q.student
<1>1. /\ q.op = "flag" /\ u \in Students /\ q.flag \in reported[u] /\ SeenIsCurrent(q)
      /\ UNCHANGED <<removed, accepted, reported, acked, forced>>
  BY RequestFields DEF FlagAutoFail, Resume, observed, OverlapInvariant, RequestSound,
                       SerialInvariant
<1>2. autoFails(q) /\ (removed => exam' = exam)
  BY AutoFailWrites DEF FlagAutoFail
<1>3. CASE removed
  BY <1>1, <1>2, <1>3 DEF Ledger!ledgerVars, Ledger!asked
<1>4. CASE ~removed
  <2>1. PICK a : /\ exam'.studentAttempts = [exam.studentAttempts EXCEPT ![u] = a]
                 /\ a.autoFailed
                 /\ a.attemptCount = exam.studentAttempts[u].attemptCount + 1
    BY <1>4, AutoFailWrites DEF usedAttempts
  <2>2. exam'.integrityFlags = updatedFlags(q)
    BY <1>4, AutoFailWrites
  <2>3. exam'.studentAttempts[u] = a /\ a.autoFailed = TRUE
    BY <1>1, <2>1 DEF TypeOK, Row, Attempt
  <2>4. Ledger!Enters(u, exam.studentAttempts[u].attemptCount + 1, TRUE)
    BY <1>1, <1>4, <2>1, <2>3 DEF Ledger!Enters
  <2>5. /\ exam'.integrityFlags = [exam.integrityFlags EXCEPT ![u].flags = @ \cup {q.flag}]
        /\ userFlags(q) = exam.integrityFlags[u].flags \cup {q.flag}
    <3>1. q.op \in SeenOps
      BY <1>1 DEF SeenOps
    <3> HIDE DEF q
    <3> QED
      BY <1>1, <2>2, <3>1, ReportLists
  <2>6. ~exam.studentAttempts[u].autoFailed /\ Grave(exam.integrityFlags[u].flags \cup {q.flag})
    BY <1>1, <1>2, <2>5 DEF autoFails, SeenIsCurrent, SeenOps, Grave
  <2>7. Ledger!Disqualify(u, q.flag)
    BY <1>1, <2>4, <2>5, <2>6 DEF Ledger!Disqualify, Ledger!asked
  <2> QED
    BY <1>1, <2>7
<1> QED
  BY <1>3, <1>4

\* A plain report is listed and answered in one step.
LEMMA WriteLists ==
    ASSUME TypeOK, OverlapInvariant, SerialInvariant, NEW r \in Reqs, FlagWrite(r)
    PROVE  \E u \in Students : \E flag \in reported[u] :
              Ledger!List(u, flag) \/ Ledger!Acknowledge(u, flag)
<1> DEFINE q == req[r]
           u == q.student
<1>1. /\ q.op = "flagWrite" /\ u \in Students /\ q.flag \in reported[u] /\ SeenIsCurrent(q)
      /\ acked' = [acked EXCEPT ![u] = @ \cup {q.flag}]
      /\ WriteFlags(updatedFlags(q))
      /\ UNCHANGED <<removed, accepted, reported, forced>>
  BY RequestFields DEF FlagWrite, Resume, OverlapInvariant, RequestSound, SerialInvariant,
                       Acknowledge
<1>2. exam'.studentAttempts = exam.studentAttempts
  BY <1>1, FlagsColumn
<1>3. CASE removed
  <2>1. exam' = exam
    BY <1>1, <1>3 DEF WriteFlags
  <2>2. Ledger!Acknowledge(u, q.flag)
    BY <1>1, <1>3, <2>1 DEF Ledger!Acknowledge, Ledger!asked
  <2> QED
    BY <1>1, <2>2
<1>4. CASE ~removed
  <2>1. exam'.integrityFlags = updatedFlags(q)
    BY <1>1, <1>4, FlagsColumn
  <2>2. updatedFlags(q) = [exam.integrityFlags EXCEPT ![u].flags = @ \cup {q.flag}]
    <3>1. q.op \in SeenOps
      BY <1>1 DEF SeenOps
    <3> HIDE DEF q
    <3> QED
      BY <1>1, <3>1, ReportLists
  <2>3. Ledger!List(u, q.flag)
    BY <1>1, <1>2, <1>4, <2>1, <2>2 DEF Ledger!List, Ledger!asked
  <2> QED
    BY <1>1, <2>3
<1> QED
  BY <1>3, <1>4

LEMMA ReviewEnters ==
    ASSUME TypeOK, SerialInvariant, NEW r \in Reqs, ReviewWrite(r)
    PROVE  UNCHANGED Ledger!ledgerVars \/ \E u \in Students : Ledger!Review(u)
<1> DEFINE q == req[r]
           u == q.student
           flags == matchingFlags(q)
<1>1. /\ q.op = "review" /\ u \in Students /\ SeenIsCurrent(q)
      /\ WriteFlags([q.seen.integrityFlags EXCEPT ![u].reviewed = @ \cup flags])
      /\ UNCHANGED <<removed, accepted, reported, acked, forced>>
  BY RequestFields DEF ReviewWrite, Resume, observed, SerialInvariant
<1>2. q.seen.integrityFlags = exam.integrityFlags
  BY <1>1 DEF SeenIsCurrent, SeenOps
<1>3. flags \in SUBSET exam.integrityFlags[u].flags
  BY <1>2 DEF matchingFlags
<1> HIDE DEF flags
<1>4. /\ exam'.studentAttempts = exam.studentAttempts
      /\ ~removed => exam'.integrityFlags = [exam.integrityFlags EXCEPT ![u].reviewed = @ \cup flags]
      /\ removed => exam' = exam
  BY <1>1, <1>2, FlagsColumn
<1>5. CASE removed
  BY <1>1, <1>4, <1>5 DEF Ledger!ledgerVars, Ledger!asked
<1>6. CASE ~removed
  BY <1>1, <1>3, <1>4, <1>6 DEF Ledger!Review, Ledger!asked
<1> QED
  BY <1>5, <1>6

\* A report, or the request of a disqualification, is asked before anything is entered.
LEMMA Asks ==
    ASSUME TypeOK, NEW u \in Students, UNCHANGED <<exam, removed, accepted, acked>>,
           \/ UNCHANGED reported /\ forced' = forced \cup {u}
           \/ UNCHANGED forced /\ \E flag \in Flag : Report(flag, u)
    PROVE  Ledger!Ask(u)
<1>1. CASE UNCHANGED reported /\ forced' = forced \cup {u}
  BY <1>1 DEF Ledger!Ask
<1>2. ASSUME NEW flag \in Flag, Report(flag, u), UNCHANGED forced PROVE Ledger!Ask(u)
  <2>1. reported'[u] = reported[u] \cup {flag}
    BY <1>2 DEF Report, TypeOK
  <2>2. reported' = [reported EXCEPT ![u] = @ \cup reported'[u]]
    BY <1>2, <2>1 DEF Report, TypeOK
  <2> QED
    BY <1>2, <2>2 DEF Ledger!Ask
<1> QED
  BY <1>1, <1>2

LEMMA LedgerInits == Init => Ledger!LedgerInit
<1> SUFFICES ASSUME Init PROVE Ledger!LedgerInit
  OBVIOUS
<1>1. PICK dto \in Dtos : exam = Created(dto)
  BY DEF Init
<1> QED
  BY <1>1 DEF Init, Created, NoFlags, Ledger!LedgerInit

LEMMA LedgerStep ==
    ASSUME TypeOK, TypeOK', OverlapInvariant, SerialInvariant, AllChecked, [Next]_vars
    PROVE  Ledger!LedgerNext \/ UNCHANGED Ledger!ledgerVars
<1>1. CASE Teacher
  <2>1. ASSUME NEW p \in Patches, update(p) PROVE UNCHANGED Ledger!ledgerVars
    BY <2>1 DEF update, Patched, TypeOK, Row, observed, Ledger!ledgerVars, Ledger!asked
  <2>2. CASE remove
    BY <2>2 DEF remove, observed, Ledger!Delete, Ledger!LedgerNext, Ledger!asked
  <2>3. ASSUME NEW r \in Reqs, NEW u \in Students, saveEssayGrade(r, u) \/ markFlagReviewed(r, u)
        PROVE  UNCHANGED Ledger!ledgerVars
    BY <2>3 DEF saveEssayGrade, markFlagReviewed, observed, Ledger!ledgerVars, Ledger!asked
  <2> QED
    BY <1>1, <2>1, <2>2, <2>3 DEF Teacher
<1>2. CASE Client
  <2>1. PICK r \in Reqs, u \in Students :
           \/ submitExam(r, u) \/ reportIntegrityFlag(r, u)
           \/ screenCheck(r, u) \/ forceAutoFail(r, u)
    BY <1>2 DEF Client
  <2>2. CASE submitExam(r, u) \/ screenCheck(r, u)
    BY <2>2 DEF submitExam, screenCheck, observed, Ledger!ledgerVars, Ledger!asked
  <2>3. CASE forceAutoFail(r, u)
    BY <2>3, Asks DEF forceAutoFail, Ledger!LedgerNext
  <2>4. CASE reportIntegrityFlag(r, u)
    <3>1. PICK type \in Violations : Report([id |-> started, type |-> type], u)
      BY <2>4 DEF reportIntegrityFlag, flagRequest
    <3>2. [id |-> started, type |-> type] \in Flag
      BY DEF TypeOK, Flag, ViolationTypes
    <3>3. UNCHANGED <<exam, removed, accepted, acked, forced>>
      BY <2>4 DEF reportIntegrityFlag
    <3> QED
      BY <3>1, <3>2, <3>3, Asks DEF Ledger!LedgerNext
  <2> QED
    BY <2>1, <2>2, <2>3, <2>4
<1>3. CASE Server
  <2>1. PICK r \in Reqs :
           \/ SubmitWrite(r) \/ GradeWrite(r) \/ ReviewWrite(r)
           \/ FlagAutoFail(r) \/ FlagNotify(r) \/ FlagAlert(r) \/ FlagWrite(r)
           \/ ScreenClear(r) \/ ScreenSuspicious(r)
           \/ ForceWrite(r) \/ ForceNotify(r)
    BY <1>3 DEF Server
  <2>2. CASE SubmitWrite(r)
    BY <2>2, SubmitEnters DEF Ledger!LedgerNext
  <2>3. CASE GradeWrite(r)
    BY <2>3, GradeEnters DEF Ledger!LedgerNext
  <2>4. CASE ReviewWrite(r)
    BY <2>4, ReviewEnters DEF Ledger!LedgerNext
  <2>5. CASE FlagAutoFail(r)
    BY <2>5, AutoFailEnters DEF Ledger!LedgerNext
  <2>6. CASE FlagWrite(r)
    BY <2>6, WriteLists DEF Ledger!LedgerNext
  <2>7. CASE ForceWrite(r)
    BY <2>7, ForceEnters DEF Ledger!LedgerNext
  <2>8. CASE FlagNotify(r)
    <3> DEFINE q == req[r]
    <3>1. /\ q.op = "flagNotify" /\ q.student \in Students /\ q.flag \in reported[q.student]
          /\ acked' = [acked EXCEPT ![q.student] = @ \cup {q.flag}]
          /\ UNCHANGED <<exam, removed, accepted, reported, forced>>
      BY <2>8, RequestFields DEF FlagNotify, Resume, Acknowledge, OverlapInvariant, RequestSound
    <3>2. removed \/ q.flag \in exam.integrityFlags[q.student].flags
      BY <3>1 DEF SerialInvariant
    <3>3. Ledger!Acknowledge(q.student, q.flag)
      BY <3>1, <3>2 DEF Ledger!Acknowledge, Ledger!asked
    <3> QED
      BY <3>1, <3>3 DEF Ledger!LedgerNext
  <2>9. CASE ScreenSuspicious(r)
    <3>1. /\ req[r].op = "screen"
          /\ Report([id |-> req[r].id, type |-> "suspicious_screen"], req[r].student)
          /\ UNCHANGED <<exam, removed, accepted, acked, forced>>
      BY <2>9 DEF ScreenSuspicious, Resume, flagRequest
    <3>2. [id |-> req[r].id, type |-> "suspicious_screen"] \in Flag /\ req[r].student \in Students
      BY <3>1, RequestFields DEF Flag, ViolationTypes
    <3> QED
      BY <3>1, <3>2, Asks DEF Ledger!LedgerNext
  <2>10. CASE FlagAlert(r) \/ ScreenClear(r) \/ ForceNotify(r)
    BY <2>10 DEF FlagAlert, ScreenClear, ForceNotify, observed, Ledger!ledgerVars, Ledger!asked
  <2> QED
    BY <2>1, <2>2, <2>3, <2>4, <2>5, <2>6, <2>7, <2>8, <2>9, <2>10
<1>4. ASSUME NEW r \in Reqs, Abort(r) PROVE UNCHANGED Ledger!ledgerVars
  BY <1>4 DEF Abort, observed, Ledger!ledgerVars, Ledger!asked
<1>5. CASE Tick
  BY <1>5 DEF Tick, TypeOK, Row, observed, Ledger!ledgerVars, Ledger!asked
<1>6. CASE UNCHANGED vars
  BY <1>6 DEF vars, Ledger!ledgerVars, Ledger!asked
<1> QED
  BY <1>1, <1>2, <1>3, <1>4, <1>5, <1>6 DEF Next

\* Without overlap the engine is a ledger: every submission, grade, report, review and
\* disqualification takes effect in one step, on the student it is about, or not at all.
THEOREM EngineIsALedger ==
    ASSUME Serial
    PROVE  Spec => ImplementsLedger
<1>1. Init => AllChecked
  BY DEF Init, NoReq, AllChecked, Checked
<1>2. TypeOK /\ AllChecked /\ [Next]_vars => AllChecked'
  BY CheckedStep
<1>3. TypeOK /\ TypeOK' /\ OverlapInvariant /\ SerialInvariant /\ AllChecked /\ [Next]_vars
         => [Ledger!LedgerNext]_(Ledger!ledgerVars)
  BY LedgerStep
<1> QED
  BY <1>1, <1>2, <1>3, LedgerInits, TypeCorrect, OverlapInvariantHolds, SerialInvariantHolds, PTL
     DEF Spec, ImplementsLedger, Ledger!LedgerSpec

=============================================================================
