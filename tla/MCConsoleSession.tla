---------------------------- MODULE MCConsoleSession ---------------------------
\* The instances of ConsoleSession that TLC checks.
EXTENDS ConsoleSession
===============================================================================
