-------------------------- MODULE MCMemoryExecution --------------------------
(* The small functions, analysed; those to execute are executed then.      *)
EXTENDS MemoryExecution, MemoryPrograms
=============================================================================
