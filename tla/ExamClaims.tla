----------------------------- MODULE ExamClaims -----------------------------
(***************************************************************************)
(* What a document says of the exam engine and its code does not keep when *)
(* requests overlap.  Of ExamSafety, what holds only without overlap       *)
(* belongs here too.                                                       *)
(***************************************************************************)
EXTENDS ExamSafety

\* "Results tracked per student" (docs/FEATURES.md:98): a student whose
\* submission was accepted has an attempt, whatever other students do.
\* submitExam writes back the attempts of all students as it read them.
SubmissionsSurvive ==
    removed \/ \A u \in Students : accepted[u] > 0 => HasAttempt(exam.studentAttempts[u])

=============================================================================
