------------------------------- MODULE MCCaseRun ------------------------------
\* The instance of CaseRun that TLC checks: two cases, so that one can be late
\* while the other runs.
EXTENDS CaseRun
===============================================================================
