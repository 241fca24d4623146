----------------------------- MODULE ExamSafety -----------------------------
(***************************************************************************)
(* What the exam engine keeps true.  The first part holds however requests *)
(* overlap; the second holds as long as they do not.                       *)
(***************************************************************************)
EXTENDS Exam

(* What holds whatever the interleaving.                                   *)

ConfiguredLimits ==
    {Created(dto).maxAttempts : dto \in Dtos} \cup ({p.maxAttempts : p \in Patches} \ {Undefined})

WithinLimits(a) ==
    \E limit \in ConfiguredLimits :
       a.attemptCount <= limit + (IF a.autoFailed THEN 1 ELSE 0)

\* However submissions, reports and stale writes of the whole column overlap,
\* the stored attempt number never passes a limit the exam was given, except
\* that a disqualification may follow the last attempt (exam.service.ts:303, 500).
AttemptsWithinLimits == \A u \in Students : WithinLimits(exam.studentAttempts[u])

PassIsEarned(a) ==
    /\ a.passed => ~a.pendingEssayReview
    /\ a.autoFailed /\ a.essayGrades = {} =>
          ~a.passed /\ \A x \in Questions : a.awarded[x] = 0

\* No stored attempt is passed while an essay of it awaits review, and a
\* disqualified attempt has no marks and is not passed unless a teacher graded
\* it afterwards (exam.service.ts:348, 426, 492, 587).
PassesAreEarned == \A u \in Students : PassIsEarned(exam.studentAttempts[u])

Evidence(u, reports, forcing) ==
    \/ u \in forcing
    \/ Cardinality(High(reports[u])) >= HIGH_VIOLATION_THRESHOLD

\* Nobody is disqualified on somebody else's violations or on too few: lost
\* writes may hide flags and never invent them.  A disqualified student's own
\* client asked for the auto-fail, or reported three high-severity violations.
NoFalseDisqualification ==
    \A u \in Students : exam.studentAttempts[u].autoFailed => Evidence(u, reported, forced)

FlagListSound(list, reports) ==
    /\ list.flags \subseteq reports
    /\ list.reviewed \subseteq list.flags

\* A flag is listed only under the student whose client reported it, with the
\* type that was reported, and is ticked off only where it is listed: a stale
\* write of the whole column moves no flag to another student
\* (exam.service.ts:473-475, 769-773).
FlagsAreReported == \A u \in Students : FlagListSound(exam.integrityFlags[u], reported[u])

\* "Always notify teacher for every high-severity violation"
\* (exam.service.ts:536): when the report of a high-severity flag has been
\* answered, the creator has been sent its alert, on either path.
HighFlagsAreAlerted ==
    \A u \in Students : High(acked[u]) \subseteq alerts

\* A draft has no submissions: nothing but publishing it, by status or by giving
\* it a schedule, opens it to students (exam.service.ts:57, 195-197, 290), as
\* long as nobody takes a published exam back to draft.
DraftsHaveNoSubmissions ==
    exam.status = "draft" => \A u \in Students : accepted[u] = 0

\* Why: nor is one on its way.
DraftInvariant ==
    exam.status = "draft" =>
       /\ \A u \in Students : accepted[u] = 0
       /\ \A r \in Reqs : req[r].op # "submit"

\* Nobody takes a published exam back to draft.
NeverBackToDraft == \A p \in Patches : p.status # "draft"

(* Why: the row, and every copy of it that a request carries, is sound by   *)
(* what the clients have asked for so far, which only grows.  A write mixes *)
(* columns of two sound rows.                                               *)

AttemptSound(a, u, reports, forcing) ==
    /\ WithinLimits(a)
    /\ PassIsEarned(a)
    /\ a.autoFailed => Evidence(u, reports, forcing)

RowSound(e, reports, forcing) ==
    /\ e.maxAttempts \in ConfiguredLimits
    /\ \A u \in Students : /\ AttemptSound(e.studentAttempts[u], u, reports, forcing)
                           /\ FlagListSound(e.integrityFlags[u], reports[u])

SeenOps == {"submit", "grade", "flag", "flagWrite", "force", "review"}

RequestSound(q, reports, forcing, sent) ==
    /\ q.op \in SeenOps => RowSound(q.seen, reports, forcing)
    /\ q.op \in {"submit", "force"} => ~q.seen.studentAttempts[q.student].autoFailed
    /\ q.op = "submit" => usedAttempts(q.seen, q.student) < q.seen.maxAttempts
    /\ q.op = "force" => q.student \in forcing
    /\ q.op \in {"flag", "flagWrite", "flagNotify"} => q.flag \in reports[q.student]
    /\ q.op = "flagWrite" => High({q.flag}) \subseteq sent

\* The inductive invariant behind the properties above.
OverlapInvariant ==
    /\ RowSound(exam, reported, forced)
    /\ \A r \in Reqs : RequestSound(req[r], reported, forced, alerts)
    /\ \A u \in Students : IsFiniteSet(reported[u])
    /\ HighFlagsAreAlerted

-----------------------------------------------------------------------------
(* What holds when requests do not overlap (Serial), and is lost when they *)
(* do.                                                                     *)

Serial == \A r1, r2 \in Reqs : r1 = r2

\* Every submission answered with success is counted in the stored attempt
\* (exam.service.ts:363-376).
AcceptedAreStored ==
    removed \/ \A u \in Students : accepted[u] <= usedAttempts(exam, u)

\* "maxAttempts: How many attempts allowed" (docs/FEATURES.md:109): no student
\* has more submissions accepted than the exam ever allowed.
AcceptedWithinLimit ==
    removed \/ \A u \in Students : \E limit \in ConfiguredLimits : accepted[u] <= limit

\* Every flag whose report was answered with success is still listed
\* (exam.service.ts:474-475, 561), reviewed or not.
AckedFlagsAreListed ==
    removed \/ \A u \in Students : acked[u] \subseteq exam.integrityFlags[u].flags

\* "Auto-fail when 3+ high-severity violations detected" (docs/FEATURES.md:106):
\* while auto-fail stays on, three answered high-severity reports disqualify.
ThresholdDisqualifies ==
    removed \/ ~exam.autoFailOnCheat \/
    \A u \in Students :
       Cardinality(High(acked[u])) >= HIGH_VIOLATION_THRESHOLD => exam.studentAttempts[u].autoFailed

\* "Cheating-detected failures are permanent" (exam.service.ts:296): no step
\* takes a disqualification back.
DisqualificationIsPermanent ==
    [][\A u \in Students :
         exam.studentAttempts[u].autoFailed => exam'.studentAttempts[u].autoFailed]_vars

\* A request changes the attempt of one student only, although it writes the
\* attempts of all (exam.service.ts:370-373).
AttemptsAreIsolated ==
    [][\A u, v \in Students :
         (/\ exam'.studentAttempts[u] # exam.studentAttempts[u]
          /\ exam'.studentAttempts[v] # exam.studentAttempts[v]) => u = v]_vars

Grave(flags) == Cardinality(High(flags)) >= HIGH_VIOLATION_THRESHOLD

Ledger == INSTANCE ExamLedger WITH
    Blank <- NoAttempt, Limits <- ConfiguredLimits,
    attempt <- exam.studentAttempts, list <- exam.integrityFlags,
    answered <- accepted, deleted <- removed

\* The engine is a ledger: although it writes the attempts and the flags of everybody, from a
\* row it read before, each step enters one thing of one student, and what is answered has
\* been entered in the same step or before (exam.service.ts:282-376, 451-566, 576-601).
ImplementsLedger == Ledger!LedgerSpec

(* Why: the columns that a request will write are still as it read them.   *)

SeenIsCurrent(q) ==
    q.op \in SeenOps =>
       /\ q.seen.studentAttempts = exam.studentAttempts
       /\ q.seen.integrityFlags = exam.integrityFlags

\* A request goes on only if the row that it read let it.
Checked(q) ==
    /\ q.op = "submit" => canSubmit(q.seen, q.student)
    /\ q.op = "grade" => HasAttempt(q.seen.studentAttempts[q.student])
    /\ q.op = "force" => ~HasAttempt(q.seen.studentAttempts[q.student])

AllChecked == \A r \in Reqs : Checked(req[r])

\* A disqualification counts as an attempt of its own.
AttemptsAreCounted ==
    \A u \in Students :
       accepted[u] + (IF exam.studentAttempts[u].autoFailed THEN 1 ELSE 0)
          <= usedAttempts(exam, u)

\* The inductive invariant behind the properties above.
SerialInvariant ==
    /\ \A r \in Reqs :
          /\ SeenIsCurrent(req[r])
          /\ req[r].op = "submit" => ~req[r].seen.studentAttempts[req[r].student].autoFailed
    /\ removed \/ AttemptsAreCounted
    /\ AckedFlagsAreListed
    /\ removed \/ \A r \in Reqs :
          req[r].op = "flagNotify" =>
             req[r].flag \in exam.integrityFlags[req[r].student].flags

\* Why the threshold holds: it does for the flags that are listed, and a report that has
\* decided against the auto-fail decided on the list that it will write.
ThresholdInvariant ==
    removed \/ ~exam.autoFailOnCheat \/
    /\ \A u \in Students :
          Cardinality(High(exam.integrityFlags[u].flags)) >= HIGH_VIOLATION_THRESHOLD =>
             exam.studentAttempts[u].autoFailed
    /\ \A r \in Reqs : /\ req[r].op \in SeenOps => req[r].seen.autoFailOnCheat
                       /\ req[r].op = "flagWrite" => ~autoFails(req[r])

\* Nobody turns the auto-fail on while students sit the exam.
NeverTurnedOn == \A p \in Patches : p.autoFailOnCheat # TRUE

=============================================================================
