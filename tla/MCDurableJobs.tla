--------------------------- MODULE MCDurableJobs ----------------------------
(* Model-checking instance of DurableJobs: two workers, one or two jobs, given by
   configurations.  Liveness is checked, so no symmetry is declared.  *)
EXTENDS DurableJobs
=============================================================================
