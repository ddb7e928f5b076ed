------------------------------ MODULE CaseNumbers ------------------------------
(***************************************************************************)
(* The cases of the catalogue: numbers, of which the pages of the console  *)
(* may be about one or none.                                               *)
(***************************************************************************)
EXTENDS Naturals

CONSTANT
    MaxCases    \* bound: cases there ever are

ASSUME CaseNumbersAssumption == MaxCases \in Nat \ {0}

Cases == 1..MaxCases
NoCase == 0
===============================================================================
