------------------------------ MODULE Disturbances ------------------------------
(***************************************************************************)
(* What the pages of the web console do not bring about themselves: other  *)
(* users, calls that fail, data that ages, and what their own user does    *)
(* without end.  Their number is bounded.                                  *)
(***************************************************************************)
EXTENDS Naturals

CONSTANT
    MaxEvents   \* bound: disturbances

ASSUME EventsAssumption == MaxEvents \in Nat

VARIABLE events \* disturbances so far

Event == events < MaxEvents /\ events' = events + 1
===============================================================================
