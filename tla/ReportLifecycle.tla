--------------------------- MODULE ReportLifecycle ---------------------------
(***************************************************************************)
(* What the generation of reports promises about the reports of one month, *)
(* whatever happens to queues, leases and workers: at most one of them is  *)
(* in process, it is the newest, and a completed one is never touched.     *)
(***************************************************************************)
EXTENDS Integers

CONSTANT Reports   \* ids of the reports of the month, in the order of creation

VARIABLE status

Statuses == {"NONE", "PROCESSING", "COMPLETED", "FAILED"}

InProcess == {r \in Reports : status[r] = "PROCESSING"}

Newest(r) == \A s \in Reports : s > r => status[s] = "NONE"

Init == status = [r \in Reports |-> "NONE"]

(* A request, or a new attempt at a report that failed *)
Start(r) ==
  /\ InProcess = {}
  /\ Newest(r)
  /\ status[r] \in {"NONE", "FAILED"}
  /\ status' = [status EXCEPT ![r] = "PROCESSING"]

Close(r) ==
  /\ status[r] = "PROCESSING"
  /\ \E outcome \in {"COMPLETED", "FAILED"} : status' = [status EXCEPT ![r] = outcome]

Next == \E r \in Reports : Start(r) \/ Close(r)

Spec == Init /\ [][Next]_status

=============================================================================
