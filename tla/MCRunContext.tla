----------------------------- MODULE MCRunContext -----------------------------
\* The instances of RunContext that TLC checks.
EXTENDS RunContext
===============================================================================
