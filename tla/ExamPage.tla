------------------------------ MODULE ExamPage ------------------------------
(***************************************************************************)
(* The exams page of one student (StudentExamsPage, TakeExamModal) around  *)
(* the exam engine: its list, the exam it is taking, its timers, the ways  *)
(* of leaving the window, and the calls it has made.  A call is sent,      *)
(* arrives (and may be refused), is served by a handler of Exam, and is    *)
(* answered; it may be lost at any of these points.                        *)
(*                                                                         *)
(* The list is what getStudentExams answered when it was last loaded, or   *)
(* what the response cache of the service kept: it may be arbitrarily old. *)
(* The page goes by its own clock.                                         *)
(***************************************************************************)
EXTENDS ExamSafety

CONSTANTS
    Me,             \* the student
    None,
    MaxIncidents,   \* bound: times the student leaves the window or copies
    MaxFailures     \* bound: calls that are lost or whose handler dies

ASSUME PageAssumption ==
    /\ Me \in Students /\ IsFiniteSet(Reqs)
    /\ MaxIncidents \in Nat /\ MaxFailures \in Nat

VARIABLES
    listed,     \* the exam in the list of the page, None if it is not in it
    modal,      \* the exam that is being taken, as TakeExamModal holds it
    away,       \* the window is blurred
    call,       \* call[r]: the call that uses the request slot r
    incidents,  \* times the student left or copied
    overstayed, \* the countdown has expired while the student was away
    failures    \* calls that failed

page == <<listed, modal, away, incidents, overstayed>>
pageVars == <<vars, page, call, failures>>

Exams == [status : Statuses, window : Windows, used : Nat, autoFailed : BOOLEAN,
          maxAttempts : Nat \ {0}, autoFailOnCheat : BOOLEAN]

\* What getStudentExams says of the exam.
View(e) ==
    [status |-> computeStatus(e), window |-> e.window, used |-> usedAttempts(e, Me),
     autoFailed |-> e.studentAttempts[Me].autoFailed,
     maxAttempts |-> e.maxAttempts, autoFailOnCheat |-> e.autoFailOnCheat]

Closed ==
    [exam |-> None, due |-> FALSE, submitRef |-> FALSE, autoFailed |-> FALSE,
     submitting |-> FALSE, submitError |-> FALSE, lost |-> FALSE, countdown |-> FALSE]

Modal == [exam : Exams \cup {None}, due : BOOLEAN, submitRef : BOOLEAN, autoFailed : BOOLEAN,
          submitting : BOOLEAN, submitError : BOOLEAN, lost : BOOLEAN, countdown : BOOLEAN]

Taking == modal.exam # None

\* Which answers a call submits, and which violation it reports, is left to the engine.
NoCall == [op |-> "none", at |-> "done", mine |-> FALSE]

Call == [op : {"none", "submit", "flag", "force"},
         at : {"done", "sent", "served", "ok", "autoFailed", "refused"},
         mine : BOOLEAN]    \* the modal that made it is still open

PageInit ==
    /\ Init
    /\ listed = None /\ modal = Closed /\ away = FALSE
    /\ call = [r \in Reqs |-> NoCall]
    /\ incidents = 0 /\ overstayed = FALSE /\ failures = 0

-----------------------------------------------------------------------------
(* Calls.  Bound: the page makes no more of them at a time than Reqs has.  *)

Free(r) == call[r] = NoCall /\ req[r] = NoReq

Sent(op) == [op |-> op, at |-> "sent", mine |-> TRUE]

Send(r, op) == Free(r) /\ call' = [call EXCEPT ![r] = Sent(op)]

At(r, at) == call' = [call EXCEPT ![r].at = at]

\* The page waits for the answer to a submission; of a report it only looks for autoFailed.
Answer(r, at) ==
    IF call[r].op = "submit" \/ at = "autoFailed" THEN At(r, at)
    ELSE call' = [call EXCEPT ![r] = NoCall]

\* The request reaches the handler of its operation.
Arrives(r) ==
    /\ call[r].at = "sent" /\ At(r, "served")
    /\ \/ call[r].op = "submit" /\ submitExam(r, Me)
       \/ call[r].op = "flag" /\ reportIntegrityFlag(r, Me)
       \/ call[r].op = "force" /\ forceAutoFail(r, Me)
    /\ UNCHANGED <<page, failures>>

\* The handler of a request to submit, or of any for an exam that is gone, throws; a forced
\* auto-fail after an attempt is answered and does nothing.
Refused(r) ==
    /\ call[r].at = "sent"
    /\ \/ removed
       \/ call[r].op = "submit" /\ ~maySubmit(exam, Me)
       \/ call[r].op = "force" /\ HasAttempt(exam.studentAttempts[Me])
    /\ Answer(r, "refused")
    /\ UNCHANGED <<vars, page, failures>>

Handler(r) ==
    \/ SubmitWrite(r) \/ ForceWrite(r) \/ ForceNotify(r)
    \/ FlagAutoFail(r) \/ FlagNotify(r) \/ FlagAlert(r) \/ FlagWrite(r)

Serves(r) ==
    /\ Handler(r)
    /\ IF req'[r] = NoReq /\ call[r].at = "served"
       THEN Answer(r, IF req[r].op = "flagNotify" THEN "autoFailed" ELSE "ok")
       ELSE UNCHANGED call
    /\ UNCHANGED <<page, failures>>

Fails(r) ==
    /\ failures < MaxFailures /\ failures' = failures + 1
    /\ Abort(r)
    /\ IF call[r].at = "served" THEN Answer(r, "refused") ELSE UNCHANGED call
    /\ UNCHANGED page

\* fetch rejects.  Reports and forced auto-fails catch it; handleSubmit does not, and never
\* gets to setSubmitting(false).  The handler, once reached, goes on.
Lost(r) ==
    /\ call[r].at \in {"sent", "served"}
    /\ failures < MaxFailures /\ failures' = failures + 1
    /\ call' = [call EXCEPT ![r] = NoCall]
    /\ modal' = [modal EXCEPT !.lost = @ \/ (call[r].op = "submit" /\ call[r].mine)]
    /\ UNCHANGED <<vars, listed, away, incidents, overstayed>>

-----------------------------------------------------------------------------
(* The list and the modal                                                  *)

\* The list is loaded when the page opens, after a submission, and when a scheduled exam starts.
load ==
    /\ ~Taking
    /\ listed # None => listed.window = "before" /\ exam.window # "before"
    /\ listed' = IF removed THEN None ELSE View(exam)
    /\ UNCHANGED <<vars, modal, away, call, incidents, overstayed, failures>>

isLive(x) == x.used = 0 /\ x.status = "active"
canRetry(x) == x.used > 0 /\ ~x.autoFailed /\ x.used < x.maxAttempts /\ x.status # "draft"

\* The window may have closed already: a retry is offered whatever the time.
handleStart ==
    /\ ~Taking /\ ~away /\ listed # None
    /\ isLive(listed) \/ canRetry(listed)
    /\ modal' = [Closed EXCEPT !.exam = listed, !.due = listed.window = "closed"]
    /\ UNCHANGED <<vars, listed, away, call, incidents, overstayed, failures>>

\* What is under way for the modal no longer concerns it.
Orphaned(calls) == [r \in Reqs |-> [calls[r] EXCEPT !.mine = FALSE]]

\* The Close button of AutoFailBanner.
onClose ==
    /\ Taking /\ modal.autoFailed /\ ~away
    /\ modal' = Closed /\ call' = Orphaned(call)
    /\ UNCHANGED <<vars, listed, away, incidents, overstayed, failures>>

\* The student reloads the page: what is under way is not waited for, and the sheet is gone.
Reload ==
    /\ listed # None /\ ~away
    /\ modal' = Closed /\ call' = [r \in Reqs |-> NoCall] /\ listed' = None
    /\ UNCHANGED <<vars, away, incidents, overstayed, failures>>

\* A new answer; the deadline of an exam without a schedule is computed anew with it.
setAnswers ==
    /\ Taking /\ ~modal.autoFailed /\ ~away
    /\ modal.exam.window = "none"
    /\ modal' = [modal EXCEPT !.due = FALSE]
    /\ UNCHANGED <<vars, listed, away, call, incidents, overstayed, failures>>

\* The page's clock passes endsAt.
TimeIsUp ==
    /\ Taking /\ ~modal.due
    /\ modal' = [modal EXCEPT !.due = TRUE]
    /\ UNCHANGED <<vars, listed, away, call, incidents, overstayed, failures>>

-----------------------------------------------------------------------------
(* Submitting                                                              *)

Submitting == [modal EXCEPT !.submitting = TRUE, !.submitError = FALSE]

\* "Yes, submit", which leaves submitRef alone.
handleSubmit(r) ==
    /\ Taking /\ ~modal.submitting /\ ~modal.autoFailed /\ ~away
    /\ Send(r, "submit")
    /\ modal' = Submitting
    /\ UNCHANGED <<vars, listed, away, incidents, overstayed, failures>>

\* The check every five seconds.
AutoSubmit(r) ==
    /\ Taking /\ modal.due /\ ~modal.submitRef
    /\ Send(r, "submit")
    /\ modal' = [Submitting EXCEPT !.submitRef = TRUE]
    /\ UNCHANGED <<vars, listed, away, incidents, overstayed, failures>>

\* Mutant: a refusal is not shown.
SubmitAnsweredQuietly(r) ==
    /\ call[r].op = "submit"
    /\ \/ /\ call[r].at = "ok"
          /\ modal' = Closed /\ listed' = None
          /\ call' = Orphaned([call EXCEPT ![r] = NoCall])
       \/ /\ call[r].at = "refused"
          /\ modal' = IF call[r].mine THEN [modal EXCEPT !.submitting = FALSE] ELSE modal
          /\ call' = [call EXCEPT ![r] = NoCall]
          /\ listed' = listed
    /\ UNCHANGED <<vars, away, incidents, overstayed, failures>>

\* A result closes whatever modal is open, and the list is loaded again; a refusal only
\* concerns the modal that asked.
SubmitAnswered(r) ==
    /\ call[r].op = "submit"
    /\ \/ /\ call[r].at = "ok"
          /\ modal' = Closed /\ listed' = None
          /\ call' = Orphaned([call EXCEPT ![r] = NoCall])
       \/ /\ call[r].at = "refused"
          /\ modal' = IF call[r].mine THEN [modal EXCEPT !.submitting = FALSE, !.submitError = TRUE]
                      ELSE modal
          /\ call' = [call EXCEPT ![r] = NoCall]
          /\ listed' = listed
    /\ UNCHANGED <<vars, away, incidents, overstayed, failures>>

-----------------------------------------------------------------------------
(* Leaving the window                                                      *)

Incident == incidents < MaxIncidents /\ incidents' = incidents + 1

Counting == [modal EXCEPT !.countdown = @ \/ ~modal.submitRef]

\* onBlur and, when the tab was switched, onVisibilityChange too: each reports.
Leave(r1, r2) ==
    /\ Taking /\ ~away /\ away' = TRUE
    /\ Incident
    /\ Free(r1) /\ Free(r2)
    /\ call' = [call EXCEPT ![r1] = Sent("flag"), ![r2] = Sent("flag")]
    /\ modal' = Counting
    /\ UNCHANGED <<vars, listed, overstayed, failures>>

\* Mutant of Return: the countdown goes on.
ReturnCounting ==
    /\ away /\ away' = FALSE
    /\ UNCHANGED <<vars, listed, modal, call, incidents, overstayed, failures>>

\* onFocus: clearCountdown.
Return ==
    /\ away /\ away' = FALSE
    /\ modal' = [modal EXCEPT !.countdown = FALSE]
    /\ UNCHANGED <<vars, listed, call, incidents, overstayed, failures>>

\* Copying; reports of one type within ten seconds are one.
onCopy(r) ==
    /\ Taking /\ ~away
    /\ Incident
    /\ Send(r, "flag")
    /\ UNCHANGED <<vars, listed, modal, away, overstayed, failures>>

\* Mutant: the engine is left to find out by itself.
CountdownExpiresUnsent(r) ==
    /\ modal.countdown
    /\ modal' = [modal EXCEPT !.countdown = FALSE,
                              !.submitRef = @ \/ modal.exam.autoFailOnCheat,
                              !.autoFailed = @ \/ (~modal.submitRef /\ modal.exam.autoFailOnCheat)]
    /\ overstayed' = (overstayed \/ away)
    /\ UNCHANGED <<vars, listed, away, call, incidents, failures>>

CountdownExpires(r) ==
    /\ modal.countdown
    /\ overstayed' = (overstayed \/ away)
    /\ IF ~modal.submitRef /\ modal.exam.autoFailOnCheat
       THEN /\ modal' = [modal EXCEPT !.countdown = FALSE, !.submitRef = TRUE, !.autoFailed = TRUE]
            /\ Send(r, "force")
       ELSE /\ modal' = [modal EXCEPT !.countdown = FALSE]
            /\ UNCHANGED call
    /\ UNCHANGED <<vars, listed, away, incidents, failures>>

\* The banner, when the engine has disqualified the student.
ReportAnswered(r) ==
    LET terminated == call[r].mine /\ ~modal.submitRef
    IN  /\ call[r].at = "autoFailed"
        /\ call' = [call EXCEPT ![r] = NoCall]
        /\ modal' = IF terminated THEN [modal EXCEPT !.submitRef = TRUE, !.autoFailed = TRUE] ELSE modal
        /\ UNCHANGED <<vars, listed, away, incidents, overstayed, failures>>

-----------------------------------------------------------------------------
Creator ==
    /\ (\E p \in Patches : update(p)) \/ remove \/ Tick
    /\ UNCHANGED <<page, call, failures>>

Engine(r) == Arrives(r) \/ Refused(r) \/ Serves(r) \/ Fails(r) \/ Lost(r)

Student ==
    \/ load \/ handleStart \/ onClose \/ Reload \/ setAnswers \/ TimeIsUp \/ Return
    \/ \E r1, r2 \in Reqs : Leave(r1, r2)
    \/ \E r \in Reqs : \/ handleSubmit(r) \/ AutoSubmit(r) \/ SubmitAnswered(r)
                       \/ onCopy(r) \/ CountdownExpires(r) \/ ReportAnswered(r)

PageNext == Creator \/ Student \/ \E r \in Reqs : Engine(r)

PageSpec == PageInit /\ [][PageNext]_pageVars

-----------------------------------------------------------------------------
\* Types: the list and the modal hold exams the engine may have answered with, and a call is
\* somewhere on its way.
PageTypeOK ==
    /\ listed \in Exams \cup {None}
    /\ modal \in Modal
    /\ away \in BOOLEAN /\ overstayed \in BOOLEAN
    /\ call \in [Reqs -> Call]
    /\ incidents \in 0 .. MaxIncidents /\ failures \in 0 .. MaxFailures

InFlight(op) == \E r \in Reqs : call[r].op = op /\ call[r].mine

\* The page never waits for what will not come: once submitRef is taken, so that neither the
\* timer nor the countdown will act again, the exam is terminated, its submission is under
\* way, or the student has been told that it failed, unless the connection broke
\* (page.tsx:227, 247, 260, 296, 477-488).
NothingIsForgotten ==
    /\ modal.submitRef => modal.autoFailed \/ InFlight("submit") \/ modal.submitError \/ modal.lost
    /\ modal.submitting => InFlight("submit") \/ modal.submitError \/ modal.lost

\* A student is disqualified for staying away until the countdown expired or for a second
\* incident, never for leaving once and coming back in time, although switching the tab is
\* reported twice (page.tsx:271-351).
DisqualifiedForCause ==
    exam.studentAttempts[Me].autoFailed => overstayed \/ incidents >= 2

\* "Your exam has been automatically failed" (page.tsx:189): when nothing is under way and no
\* call failed, what the banner says is so, for a student who has submitted nothing.
TerminationIsRecorded ==
    (/\ modal.autoFailed /\ failures = 0 /\ accepted[Me] = 0 /\ ~removed
     /\ \A r \in Reqs : call[r].op = "none")
        => exam.studentAttempts[Me].autoFailed

=============================================================================
