------------------------------- MODULE MCCaseForm -------------------------------
(* The instance of CaseForm that TLC checks: submissions are alike. *)
EXTENDS CaseForm, TLC

MCSymmetry == Permutations(Submissions)
===============================================================================
