----------------------------- MODULE MCConsoleDialogs -----------------------------
(* The instance of ConsoleDialogs that TLC checks: calls are alike. *)
EXTENDS ConsoleDialogs, TLC

MCSymmetry == Permutations(Calls)
===============================================================================
