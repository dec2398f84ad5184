----------------------------- MODULE MCDataJobs -----------------------------
(* Instances of the heavy jobs for TLC. *)
EXTENDS DataJobs

(* A late error counts with the faults.  Nothing that has to go on needs a fault: an  *)
(* attempt may always end another way, and a row goes stale once no attempt works.    *)
FewTroubles == faults + late <= MaxFaults
=============================================================================
