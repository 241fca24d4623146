------------------------------- MODULE MCExam -------------------------------
(***************************************************************************)
(* Instances of Exam for TLC: a paper with one MCQ and one essay, of one   *)
(* mark each, so that a student passes at 50% with either of the two.      *)
(***************************************************************************)
EXTENDS ExamClaims, TLC

CONSTANTS mcq1, essay1, Limits, Openings

MCKind  == mcq1 :> "mcq" @@ essay1 :> "essay"
MCMarks == mcq1 :> 1 @@ essay1 :> 1

\* A blank sheet, the MCQ right, and both filled in.
MCSheets == {{}, {mcq1}, {mcq1, essay1}}
FilledSheets == MCSheets \ {{}}

\* A published exam, without a schedule or while its window is open.
MCDtos ==
    {[status |-> "active", window |-> window, maxAttempts |-> limit, passingScore |-> 50,
      autoFailOnCheat |-> TRUE, questions |-> {mcq1, essay1}] : limit \in Limits, window \in Openings}

NoPatch ==
    [status |-> Undefined, window |-> Undefined, duration |-> Undefined, maxAttempts |-> Undefined,
     passingScore |-> Undefined, autoFailOnCheat |-> Undefined, questions |-> Undefined]

MCPatches == {[NoPatch EXCEPT !.maxAttempts = limit] : limit \in Limits}

Symmetry == Permutations(Students) \cup Permutations(Reqs)

=============================================================================
