------------------------------- MODULE MCCall -------------------------------
(***************************************************************************)
(* Instances of LiveCall for TLC: one teacher and one student; either each *)
(* connects once and the teacher ends the class, or the teacher may have   *)
(* to come back and does not end it.                                       *)
(***************************************************************************)
EXTENDS LiveCall, TLC

CONSTANTS teacher, student, t1, s1, x1

MCPlans ==
    {[owner |-> t1 :> teacher @@ s1 :> student @@ x1 :> None, ends |-> TRUE],
     [owner |-> t1 :> teacher @@ s1 :> student @@ x1 :> teacher, ends |-> FALSE]}

=============================================================================
