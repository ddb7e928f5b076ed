------------------------ MODULE MCExecutionLifecycle -------------------------
\* The instances of ExecutionLifecycle that TLC checks: what stands for executions,
\* workers and free locks is in the configurations.
EXTENDS ExecutionLifecycle
===============================================================================
