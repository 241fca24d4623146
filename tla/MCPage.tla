------------------------------- MODULE MCPage -------------------------------
(***************************************************************************)
(* An instance of ExamPage for TLC: one MCQ of one mark; an exam without a *)
(* schedule that may be taken twice and that cheating fails, or a draft    *)
(* whose time has come, that the creator publishes, that may be taken once *)
(* and that cheating does not fail.                                        *)
(***************************************************************************)
EXTENDS ExamPage, TLC

CONSTANT mcq1

PageKind  == mcq1 :> "mcq"
PageMarks == mcq1 :> 1

PageDtos ==
    {[status |-> "draft", window |-> "open", maxAttempts |-> 1, passingScore |-> 50,
      autoFailOnCheat |-> FALSE, questions |-> {mcq1}],
     [status |-> "active", window |-> "none", maxAttempts |-> 2, passingScore |-> 50,
      autoFailOnCheat |-> TRUE, questions |-> {mcq1}]}

NoPatch ==
    [status |-> Undefined, window |-> Undefined, duration |-> Undefined, maxAttempts |-> Undefined,
     passingScore |-> Undefined, autoFailOnCheat |-> Undefined, questions |-> Undefined]

PagePatches == {[NoPatch EXCEPT !.status = "active"]}

Symmetry == Permutations(Reqs)

=============================================================================
