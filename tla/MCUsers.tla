-------------------------------- MODULE MCUsers --------------------------------
(* The instance of Users that TLC checks. *)
EXTENDS Users, TLC

MCSymmetry == Permutations(Requests)
===============================================================================
