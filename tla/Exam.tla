-------------------------------- MODULE Exam --------------------------------
(***************************************************************************)
(* The exam engine of the institute service: ExamService over one row of   *)
(* the exams table.                                                        *)
(*                                                                         *)
(* Every handler first reads the whole row, awaits something else (a user  *)
(* lookup, a grader, an image analysis) and then writes whole JSONB        *)
(* columns computed from the row it read.  Nothing locks or versions the   *)
(* row, so handlers interleave at their awaits.  An operation is therefore *)
(* split here exactly at its awaits; a request keeps in  seen  the row it  *)
(* has read.  A request that is refused changes nothing and is no step.    *)
(***************************************************************************)
EXTENDS Integers, FiniteSets, FiniteSetsExt

CONSTANTS
    Students,       \* userIds of the students taking the exam
    Reqs,           \* slots of HTTP requests that may be in flight together
    Questions,      \* ids of the questions a paper may hold
    Kind,           \* question id -> "mcq", "essay" or "short_answer"
    Marks,          \* question id -> marks
    AnswerSheets,   \* the sets of questions a student may get right (MCQ) or fill in (text)
    Violations,     \* violation types the clients report
    Dtos,           \* the exams that may be created
    Patches,        \* the updates the creator or an admin may send
    Undefined,      \* an optional field that a request leaves out
    MaxRequests     \* bound: requests that get past their checks in the life of the exam

Statuses == {"draft", "scheduled", "active", "completed"}
Windows  == {"none", "before", "open", "closed"}

HIGH_VIOLATION_THRESHOLD == 3

SEVERITY_MAP ==
    [screen_share_disabled |-> "high", suspicious_screen |-> "high", copy_attempt |-> "high",
     tab_switch |-> "high", fullscreen_exit |-> "medium"]

Severity(type) == IF type \in DOMAIN SEVERITY_MAP THEN SEVERITY_MAP[type] ELSE "medium"

ViolationTypes == Violations \cup {"suspicious_screen"}

-----------------------------------------------------------------------------
(* The row.  A score is kept as the marks awarded per question.            *)

Flag == [id : Nat, type : ViolationTypes]

\* integrityFlags[u]: the flags of a student, and those whose reviewed mark is set.
FlagList == [flags : SUBSET Flag, reviewed : SUBSET Flag]
NoFlags  == [flags |-> {}, reviewed |-> {}]

Attempt ==
    [answers : SUBSET Questions, awarded : [Questions -> Nat], passed : BOOLEAN,
     pendingEssayReview : BOOLEAN, autoFailed : BOOLEAN, essayGrades : SUBSET Questions,
     attemptCount : Nat]

\* studentAttempts[u] of a student without an entry.  Its fields are the
\* defaults the code falls back to (?.  and ??); a stored attempt counts from 1.
NoAttempt ==
    [answers |-> {}, awarded |-> [q \in Questions |-> 0], passed |-> FALSE,
     pendingEssayReview |-> FALSE, autoFailed |-> FALSE, essayGrades |-> {},
     attemptCount |-> 0]

HasAttempt(attempt) == attempt.attemptCount > 0

Row ==
    [status : Statuses, window : Windows, maxAttempts : Nat \ {0}, passingScore : Nat,
     autoFailOnCheat : BOOLEAN, questions : SUBSET Questions,
     studentAttempts : [Students -> Attempt], integrityFlags : [Students -> FlagList]]

Optional(S) == S \cup {Undefined}

Dto ==
    [status : Optional(Statuses), window : Windows, maxAttempts : Optional(Nat \ {0}),
     passingScore : Nat, autoFailOnCheat : Optional(BOOLEAN), questions : SUBSET Questions]

\* window: the phase that a new scheduledAt puts the exam in; duration: the phase
\* that a new durationMinutes alone puts an exam in that has opened before.
Patch ==
    [status : Optional(Statuses), window : Optional(Windows \ {"none"}),
     duration : Optional({"open", "closed"}),
     maxAttempts : Optional(Nat \ {0}), passingScore : Optional(Nat),
     autoFailOnCheat : Optional(BOOLEAN), questions : Optional(SUBSET Questions)]

ASSUME QuestionAssumption ==
    /\ IsFiniteSet(Questions)
    /\ Kind \in [Questions -> {"mcq", "essay", "short_answer"}]
    /\ Marks \in [Questions -> Nat \ {0}]
    /\ AnswerSheets \subseteq SUBSET Questions

ASSUME RequestAssumption ==
    /\ Dtos \subseteq Dto
    /\ Patches \subseteq Patch
    /\ MaxRequests \in Nat

-----------------------------------------------------------------------------
(* Requests in flight, named after what they do when they resume.          *)

NoReq == [op |-> "idle"]

Request ==
    [op : {"idle"}]
    \cup [op : {"submit"}, student : Students, answers : SUBSET Questions, seen : Row]
    \cup [op : {"grade"}, student : Students, question : Questions, score : Nat, seen : Row]
    \cup [op : {"screen"}, student : Students, id : Nat]
    \cup [op : {"flag", "flagWrite"}, student : Students, flag : Flag, seen : Row]
    \cup [op : {"flagNotify"}, student : Students, flag : Flag]
    \cup [op : {"force"}, student : Students, seen : Row]
    \cup [op : {"forceNotify"}, student : Students]
    \cup [op : {"review"}, student : Students, id : Nat, seen : Row]

VARIABLES
    exam,      \* the row
    removed,   \* the row has been deleted
    req,       \* req[r]: the request in slot r
    started,   \* number of requests started; numbers the flag a request builds (randomUUID)
    accepted,  \* accepted[u]: submissions of u whose handler succeeded
    reported,  \* reported[u]: flags built from u's reports
    acked,     \* acked[u]: those whose handler succeeded
    forced,    \* students whose client asked for a forced auto-fail that was not a no-op
    alerts     \* flags, and forced students, the creator was sent a cheat_alert for

vars == <<exam, removed, req, started, accepted, reported, acked, forced, alerts>>

\* What clients and the teacher have observed.
observed == <<accepted, reported, acked, forced, alerts>>

-----------------------------------------------------------------------------
(* Helpers                                                                 *)

WindowStatus == [before |-> "scheduled", open |-> "active", closed |-> "completed"]

\* Mutant: a draft with a window follows its window.
computeStatusOfDraft(e) == IF e.window = "none" THEN e.status ELSE WindowStatus[e.window]

computeStatus(e) ==
    IF e.status = "draft" \/ e.window = "none" THEN e.status ELSE WindowStatus[e.window]

usedAttempts(e, u) == e.studentAttempts[u].attemptCount

\* Mutant: one attempt too many.
attemptsLeftOffByOne(e, u) == usedAttempts(e, u) <= e.maxAttempts

attemptsLeft(e, u) == usedAttempts(e, u) < e.maxAttempts

canSubmit(e, u) ==
    \/ computeStatus(e) = "active"
    \/ e.status # "draft" /\ attemptsLeft(e, u)

\* Mutant: the disqualification is not looked at.
maySubmitAgain(e, u) == canSubmit(e, u) /\ attemptsLeft(e, u)

maySubmit(e, u) ==
    /\ canSubmit(e, u)
    /\ ~e.studentAttempts[u].autoFailed
    /\ attemptsLeft(e, u)

High(flags) == {f \in flags : Severity(f.type) = "high"}

totalMarks(paper) == MapThenSumSet(LAMBDA q : Marks[q], paper)

score(awarded) == MapThenSumSet(LAMBDA q : awarded[q], Questions)

\* Math.round(100 * score / totalMarks) >= passingScore; an empty paper gives
\* NaN, which is never >=.
reachesPassingScore(e, awarded) ==
    LET total == totalMarks(e.questions) IN
    /\ total > 0
    /\ (200 * score(awarded) + total) \div (2 * total) >= e.passingScore

\* Mutants: the attempt before keeps its marks and its pass, or its marks are
\* removed instead of zeroed.
autoFailKeepsPass(prev) == [prev EXCEPT !.autoFailed = TRUE, !.attemptCount = @ + 1]
autoFailUnmarked(prev) == [autoFailKeepsPass(prev) EXCEPT !.awarded = [q \in {} |-> 0]]

\* The attempt that replaces a student's attempt when cheating is detected.
autoFailAttempt(prev) ==
    [answers |-> prev.answers, awarded |-> [q \in Questions |-> 0], passed |-> FALSE,
     pendingEssayReview |-> FALSE, autoFailed |-> TRUE, essayGrades |-> {},
     attemptCount |-> prev.attemptCount + 1]

\* Mutant: the spread of the other students' attempts is left out.
onlyAttempt(q, attempt) == [v \in Students |-> IF v = q.student THEN attempt ELSE NoAttempt]

\* { ...(exam.studentAttempts ?? {}), [userId]: attempt }: the whole column, as the
\* request read it but for its own student's attempt.
withAttempt(q, attempt) == [q.seen.studentAttempts EXCEPT ![q.student] = attempt]

\* examRepository.update: an UPDATE of the given columns, which touches no row
\* once the exam is deleted.
WriteAttempts(attempts) ==
    exam' = IF removed THEN exam ELSE [exam EXCEPT !.studentAttempts = attempts]
WriteFlags(flags) ==
    exam' = IF removed THEN exam ELSE [exam EXCEPT !.integrityFlags = flags]
WriteBoth(attempts, flags) ==
    exam' = IF removed THEN exam
            ELSE [exam EXCEPT !.studentAttempts = attempts, !.integrityFlags = flags]

Start(r, request) ==
    /\ req[r] = NoReq
    /\ ~removed
    /\ started < MaxRequests
    /\ started' = started + 1
    /\ req' = [req EXCEPT ![r] = request]

Resume(r, op, next) ==
    /\ req[r].op = op
    /\ req' = [req EXCEPT ![r] = next]
    /\ started' = started

-----------------------------------------------------------------------------
(* create, update and remove.  update writes only the columns of the patch *)
(* and remove only deletes: what they read before decides permissions and  *)
(* never what they write, so each is one step.                             *)

Created(dto) ==
    [status |-> IF dto.status # Undefined THEN dto.status
                ELSE IF dto.window # "none" THEN "scheduled" ELSE "draft",
     window |-> dto.window,
     maxAttempts |-> IF dto.maxAttempts = Undefined THEN 1 ELSE dto.maxAttempts,
     passingScore |-> dto.passingScore,
     autoFailOnCheat |-> IF dto.autoFailOnCheat = Undefined THEN FALSE ELSE dto.autoFailOnCheat,
     questions |-> dto.questions,
     studentAttempts |-> [u \in Students |-> NoAttempt],
     integrityFlags |-> [u \in Students |-> NoFlags]]

Init ==
    /\ \E dto \in Dtos : exam = Created(dto)
    /\ removed = FALSE
    /\ req = [r \in Reqs |-> NoReq]
    /\ started = 0
    /\ accepted = [u \in Students |-> 0]
    /\ reported = [u \in Students |-> {}]
    /\ acked = [u \in Students |-> {}]
    /\ forced = {}
    /\ alerts = {}

Patched(e, p) ==
    LET Set(field, old) == IF field = Undefined THEN old ELSE field
    IN [e EXCEPT
          !.status = IF p.status # Undefined THEN p.status
                     ELSE IF p.window # Undefined THEN "scheduled" ELSE @,
          !.window = IF p.window = Undefined /\ @ \in {"open", "closed"}
                     THEN Set(p.duration, @) ELSE Set(p.window, @),
          !.maxAttempts = Set(p.maxAttempts, @),
          !.passingScore = Set(p.passingScore, @),
          !.autoFailOnCheat = Set(p.autoFailOnCheat, @),
          !.questions = Set(p.questions, @)]

update(p) ==
    /\ ~removed
    /\ exam' = Patched(exam, p)
    /\ UNCHANGED <<removed, req, started, observed>>

remove ==
    /\ ~removed
    /\ removed' = TRUE
    /\ UNCHANGED <<exam, req, started, observed>>

\* The clock passes scheduledAt, or scheduledAt + durationMinutes.
Tick ==
    /\ exam.window \in {"before", "open"}
    /\ exam' = [exam EXCEPT !.window = IF @ = "before" THEN "open" ELSE "closed"]
    /\ UNCHANGED <<removed, req, started, observed>>

-----------------------------------------------------------------------------
(* submitExam: read and check; grade (short answers by the AI grader) and  *)
(* look the student up; write.                                             *)

submitExam(r, u) ==
    /\ maySubmit(exam, u)
    /\ \E answers \in AnswerSheets :
          Start(r, [op |-> "submit", student |-> u, answers |-> answers, seen |-> exam])
    /\ UNCHANGED <<exam, removed, observed>>

Answered(q, kind) == {x \in q.answers \cap q.seen.questions : Kind[x] = kind}

\* Mutant: every submission is the first.
firstAttempt(q) == 1

nextAttempt(q) == usedAttempts(q.seen, q.student) + 1

\* The attempt written for request q when the AI grader gave grades to the
\* short answers in graded (it may fail on any of them).
submittedAttempt(q, graded, grades) ==
    LET awarded == [x \in Questions |->
                      IF x \in graded THEN grades[x]
                      ELSE IF x \in Answered(q, "mcq") THEN Marks[x] ELSE 0]
        hasPendingEssay == Answered(q, "essay") # {}
    IN [answers |-> q.answers, awarded |-> awarded,
        passed |-> ~hasPendingEssay /\ reachesPassingScore(q.seen, awarded),
        pendingEssayReview |-> hasPendingEssay, autoFailed |-> FALSE,
        essayGrades |-> graded, attemptCount |-> nextAttempt(q)]

SubmitWrite(r) ==
    LET q == req[r] IN
    /\ Resume(r, "submit", NoReq)
    /\ \E graded \in SUBSET Answered(q, "short_answer") :
       \E grades \in [graded -> UNION {0 .. Marks[x] : x \in graded}] :
          /\ \A x \in graded : grades[x] <= Marks[x]
          /\ WriteAttempts(withAttempt(q, submittedAttempt(q, graded, grades)))
    /\ accepted' = [accepted EXCEPT ![q.student] = @ + 1]
    /\ UNCHANGED <<removed, reported, acked, forced, alerts>>

-----------------------------------------------------------------------------
(* saveEssayGrade: the creator grades one question of a student's attempt. *)
(* The score sent is clamped to the marks of the question.                 *)

saveEssayGrade(r, u) ==
    /\ HasAttempt(exam.studentAttempts[u])
    /\ \E question \in exam.questions : \E given \in 0 .. Marks[question] :
          Start(r, [op |-> "grade", student |-> u, question |-> question,
                    score |-> given, seen |-> exam])
    /\ UNCHANGED <<exam, removed, observed>>

\* Mutant: the attempt still awaits review.
gradedButPending(q) ==
    LET attempt == q.seen.studentAttempts[q.student]
        awarded == [attempt.awarded EXCEPT ![q.question] = @ + q.score]
    IN [attempt EXCEPT !.awarded = awarded, !.passed = reachesPassingScore(q.seen, awarded)]

gradedAttempt(q) ==
    LET attempt == q.seen.studentAttempts[q.student]
        awarded == [attempt.awarded EXCEPT ![q.question] = @ + q.score]
    IN [attempt EXCEPT !.awarded = awarded,
                       !.passed = reachesPassingScore(q.seen, awarded),
                       !.pendingEssayReview = FALSE,
                       !.essayGrades = @ \cup {q.question}]

GradeWrite(r) ==
    LET q == req[r] IN
    /\ Resume(r, "grade", NoReq)
    /\ WriteAttempts(withAttempt(q, gradedAttempt(q)))
    /\ UNCHANGED <<removed, observed>>

-----------------------------------------------------------------------------
(* reportIntegrityFlag: read and build the flag; look the student up, then *)
(* decide on the row read; either write the auto-fail and alert, or alert  *)
(* and write the flag.                                                     *)

\* A report that has read the row and built its flag, up to the user lookup.
flagRequest(u, type, id) ==
    [op |-> "flag", student |-> u, seen |-> exam,
     flag |-> [id |-> id, type |-> type]]

Report(flag, u) == reported' = [reported EXCEPT ![u] = @ \cup {flag}]

reportIntegrityFlag(r, u) ==
    /\ \E type \in Violations : LET request == flagRequest(u, type, started) IN
          Start(r, request) /\ Report(request.flag, u)
    /\ UNCHANGED <<exam, removed, accepted, acked, forced, alerts>>

\* Mutant: one list for all students.
allFlags(q) == {q.flag} \cup UNION {q.seen.integrityFlags[u].flags : u \in Students}

userFlags(q) == q.seen.integrityFlags[q.student].flags \cup {q.flag}

\* Mutant: the new flag replaces the list.
replacedFlags(q) == [q.seen.integrityFlags EXCEPT ![q.student].flags = {q.flag}]

updatedFlags(q) == [q.seen.integrityFlags EXCEPT ![q.student].flags = userFlags(q)]

\* Mutants: flags of every severity count; the threshold must be exceeded.
autoFailsOnAny(q) ==
    /\ q.seen.autoFailOnCheat
    /\ Cardinality(userFlags(q)) >= HIGH_VIOLATION_THRESHOLD
    /\ ~q.seen.studentAttempts[q.student].autoFailed
autoFailsAbove(q) ==
    /\ q.seen.autoFailOnCheat
    /\ Cardinality(High(userFlags(q))) > HIGH_VIOLATION_THRESHOLD
    /\ ~q.seen.studentAttempts[q.student].autoFailed

autoFails(q) ==
    /\ q.seen.autoFailOnCheat
    /\ Cardinality(High(userFlags(q))) >= HIGH_VIOLATION_THRESHOLD
    /\ ~q.seen.studentAttempts[q.student].autoFailed

Acknowledge(q) == acked' = [acked EXCEPT ![q.student] = @ \cup {q.flag}]

FlagAutoFail(r) ==
    LET q == req[r] IN
    /\ Resume(r, "flag", [op |-> "flagNotify", student |-> q.student, flag |-> q.flag])
    /\ autoFails(q)
    /\ WriteBoth(withAttempt(q, autoFailAttempt(q.seen.studentAttempts[q.student])),
                 updatedFlags(q))
    /\ UNCHANGED <<removed, observed>>

FlagNotify(r) ==
    /\ Resume(r, "flagNotify", NoReq)
    /\ alerts' = alerts \cup {req[r].flag}
    /\ Acknowledge(req[r])
    /\ UNCHANGED <<exam, removed, accepted, reported, forced>>

\* Mutant: only an auto-fail alerts the creator.
FlagSilent(r) ==
    /\ Resume(r, "flag", [req[r] EXCEPT !.op = "flagWrite"])
    /\ ~autoFails(req[r])
    /\ UNCHANGED <<exam, removed, observed>>

FlagAlert(r) ==
    LET q == req[r] IN
    /\ Resume(r, "flag", [q EXCEPT !.op = "flagWrite"])
    /\ ~autoFails(q)
    /\ alerts' = alerts \cup High({q.flag})
    /\ UNCHANGED <<exam, removed, accepted, reported, acked, forced>>

FlagWrite(r) ==
    /\ Resume(r, "flagWrite", NoReq)
    /\ WriteFlags(updatedFlags(req[r]))
    /\ Acknowledge(req[r])
    /\ UNCHANGED <<removed, accepted, reported, forced, alerts>>

-----------------------------------------------------------------------------
(* screenCheck: find the exam and have the screenshot analysed; only a     *)
(* suspicious one is reported, through a second read of the row.  A failed *)
(* or timed out analysis is not held against the student.                  *)

screenCheck(r, u) ==
    /\ Start(r, [op |-> "screen", student |-> u, id |-> started])
    /\ UNCHANGED <<exam, removed, observed>>

ScreenClear(r) ==
    /\ Resume(r, "screen", NoReq)
    /\ UNCHANGED <<exam, removed, observed>>

ScreenSuspicious(r) ==
    LET u == req[r].student
        request == flagRequest(u, "suspicious_screen", req[r].id)
    IN /\ ~removed
       /\ Resume(r, "screen", request)
       /\ Report(request.flag, u)
       /\ UNCHANGED <<exam, removed, accepted, acked, forced, alerts>>

-----------------------------------------------------------------------------
(* forceAutoFail: the client's countdown expired.  A no-op for a student   *)
(* who is disqualified or has a submission.                                *)

forceAutoFail(r, u) ==
    /\ ~exam.studentAttempts[u].autoFailed
    /\ ~HasAttempt(exam.studentAttempts[u])
    /\ Start(r, [op |-> "force", student |-> u, seen |-> exam])
    /\ forced' = forced \cup {u}
    /\ UNCHANGED <<exam, removed, accepted, reported, acked, alerts>>

ForceWrite(r) ==
    LET q == req[r] IN
    /\ Resume(r, "force", [op |-> "forceNotify", student |-> q.student])
    /\ WriteAttempts(withAttempt(q, autoFailAttempt(q.seen.studentAttempts[q.student])))
    /\ UNCHANGED <<removed, observed>>

ForceNotify(r) ==
    /\ Resume(r, "forceNotify", NoReq)
    /\ alerts' = alerts \cup {req[r].student}
    /\ UNCHANGED <<exam, removed, accepted, reported, acked, forced>>

-----------------------------------------------------------------------------
(* markFlagReviewed: the creator ticks off a flag of a list she was shown. *)
(* An id that the row read does not hold marks nothing, and is written.    *)

markFlagReviewed(r, u) ==
    /\ \E flag \in reported[u] :
          Start(r, [op |-> "review", student |-> u, id |-> flag.id, seen |-> exam])
    /\ UNCHANGED <<exam, removed, observed>>

matchingFlags(q) == {f \in q.seen.integrityFlags[q.student].flags : f.id = q.id}

ReviewWrite(r) ==
    LET q == req[r] IN
    /\ Resume(r, "review", NoReq)
    /\ WriteFlags([q.seen.integrityFlags EXCEPT ![q.student].reviewed = @ \cup matchingFlags(q)])
    /\ UNCHANGED <<removed, observed>>

-----------------------------------------------------------------------------
\* A handler dies at an await: a query fails, or the pod is restarted.
Abort(r) ==
    /\ req[r] # NoReq
    /\ req' = [req EXCEPT ![r] = NoReq]
    /\ UNCHANGED <<exam, removed, started, observed>>

Teacher ==
    \/ \E p \in Patches : update(p)
    \/ remove
    \/ \E r \in Reqs, u \in Students : saveEssayGrade(r, u) \/ markFlagReviewed(r, u)

Client ==
    \E r \in Reqs, u \in Students :
       \/ submitExam(r, u)
       \/ reportIntegrityFlag(r, u)
       \/ screenCheck(r, u)
       \/ forceAutoFail(r, u)

Server ==
    \E r \in Reqs :
       \/ SubmitWrite(r) \/ GradeWrite(r) \/ ReviewWrite(r)
       \/ FlagAutoFail(r) \/ FlagNotify(r) \/ FlagAlert(r) \/ FlagWrite(r)
       \/ ScreenClear(r) \/ ScreenSuspicious(r)
       \/ ForceWrite(r) \/ ForceNotify(r)

Next ==
    \/ Teacher
    \/ Client
    \/ Server
    \/ \E r \in Reqs : Abort(r)
    \/ Tick

Spec == Init /\ [][Next]_vars

-----------------------------------------------------------------------------
\* Every variable has its type; in particular the rows that requests carry
\* across their awaits are rows the table could hold.
TypeOK ==
    /\ exam \in Row
    /\ removed \in BOOLEAN
    /\ req \in [Reqs -> Request]
    /\ started \in Nat
    /\ accepted \in [Students -> Nat]
    /\ reported \in [Students -> SUBSET Flag]
    /\ acked \in [Students -> SUBSET Flag]
    /\ forced \subseteq Students
    /\ alerts \subseteq Flag \cup Students

=============================================================================
