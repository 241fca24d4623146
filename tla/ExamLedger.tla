----------------------------- MODULE ExamLedger -----------------------------
(***************************************************************************)
(* What the exam engine promises while requests do not overlap: a ledger   *)
(* with one account per student, in which every submission, grade, report, *)
(* disqualification and review is entered in one step, for one student     *)
(* only.  Nothing is lost, nothing is entered twice, and a disqualified    *)
(* student submits no more.                                                *)
(***************************************************************************)
EXTENDS Naturals

CONSTANTS
    Students,
    Blank,          \* the attempt of a student who has made none
    Limits,         \* the limits of attempts the exam was given
    Grave(_)        \* whether a list of flags is enough to disqualify

VARIABLES
    attempt,    \* attempt[u]: the last attempt of u, with its number
    list,       \* list[u]: the flags listed under u, and those reviewed
    reported,   \* reported[u]: what u's client has reported
    forced,     \* students whose client asked for a disqualification
    answered,   \* answered[u]: submissions of u that were accepted
    acked,      \* acked[u]: reports of u that were answered
    deleted     \* the exam has been deleted

asked == <<reported, forced>>
ledgerVars == <<attempt, list, asked, answered, acked, deleted>>

LedgerInit ==
    /\ attempt = [u \in Students |-> Blank]
    /\ list = [u \in Students |-> [flags |-> {}, reviewed |-> {}]]
    /\ reported = [u \in Students |-> {}] /\ acked = [u \in Students |-> {}]
    /\ forced = {} /\ answered = [u \in Students |-> 0] /\ deleted = FALSE

\* A new attempt, or new contents of the last one, of one student.
Enters(u, number, autoFailed) ==
    /\ ~deleted /\ deleted' = deleted
    /\ attempt' = [attempt EXCEPT ![u] = attempt'[u]]
    /\ attempt'[u].attemptCount = number
    /\ attempt'[u].autoFailed = autoFailed

Submit(u) ==
    /\ ~attempt[u].autoFailed
    /\ \E limit \in Limits : attempt[u].attemptCount < limit
    /\ Enters(u, attempt[u].attemptCount + 1, FALSE)
    /\ answered' = [answered EXCEPT ![u] = @ + 1]
    /\ UNCHANGED <<list, asked, acked>>

Grade(u) ==
    /\ attempt[u].attemptCount > 0
    /\ Enters(u, attempt[u].attemptCount, attempt[u].autoFailed)
    /\ UNCHANGED <<list, asked, answered, acked>>

\* The countdown of the student's page expired before anything was handed in.
Fail(u) ==
    /\ u \in forced
    /\ attempt[u].attemptCount = 0
    /\ Enters(u, 1, TRUE)
    /\ UNCHANGED <<list, asked, answered, acked>>

\* A report that is one too many is listed and disqualifies at once.
Disqualify(u, flag) ==
    /\ ~attempt[u].autoFailed
    /\ Grave(list[u].flags \cup {flag})
    /\ Enters(u, attempt[u].attemptCount + 1, TRUE)
    /\ list' = [list EXCEPT ![u].flags = @ \cup {flag}]
    /\ UNCHANGED <<asked, answered, acked>>

List(u, flag) ==
    /\ ~deleted
    /\ list' = [list EXCEPT ![u].flags = @ \cup {flag}]
    /\ acked' = [acked EXCEPT ![u] = @ \cup {flag}]
    /\ UNCHANGED <<attempt, asked, answered, deleted>>

Acknowledge(u, flag) ==
    /\ deleted \/ flag \in list[u].flags
    /\ acked' = [acked EXCEPT ![u] = @ \cup {flag}]
    /\ UNCHANGED <<attempt, list, asked, answered, deleted>>

Review(u) ==
    /\ ~deleted
    /\ \E flags \in SUBSET list[u].flags :
          list' = [list EXCEPT ![u].reviewed = @ \cup flags]
    /\ UNCHANGED <<attempt, asked, answered, acked, deleted>>

\* A submission that was on its way when the exam was deleted is answered all the same.
AnswerLate(u) ==
    /\ deleted
    /\ answered' = [answered EXCEPT ![u] = @ + 1]
    /\ UNCHANGED <<attempt, list, asked, acked, deleted>>

\* A client reports a violation, or asks for a disqualification.
Ask(u) ==
    /\ \/ reported' = [reported EXCEPT ![u] = @ \cup reported'[u]] /\ UNCHANGED forced
       \/ forced' = forced \cup {u} /\ UNCHANGED reported
    /\ UNCHANGED <<attempt, list, answered, acked, deleted>>

Delete ==
    /\ deleted' = TRUE
    /\ UNCHANGED <<attempt, list, asked, answered, acked>>

LedgerNext ==
    \/ Delete
    \/ \E u \in Students :
          \/ Submit(u) \/ Grade(u) \/ Fail(u) \/ Review(u) \/ AnswerLate(u) \/ Ask(u)
          \/ \E flag \in reported[u] : Disqualify(u, flag) \/ List(u, flag) \/ Acknowledge(u, flag)

LedgerSpec == LedgerInit /\ [][LedgerNext]_ledgerVars

=============================================================================
