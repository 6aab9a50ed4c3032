----------------------------- MODULE MCEyeWorker -----------------------------
(* The eye worker and what it calls, on small instances.                     *)
EXTENDS EyeService

\* Sessions, calibrations and end requests are interchangeable.
Symmetry == Permutations(Sessions) \cup Permutations(Calibrations) \cup Permutations(Enders)
=============================================================================
