------------------------------ MODULE DataJobs ------------------------------
(***************************************************************************)
(* One heavy job of the data_jobs table: an export, generated by the       *)
(* Python worker and safe to generate again, or an import of vehicles,     *)
(* executed by the API and never to be executed twice.  Around the row are *)
(* its BullMQ job, the processes that attempt it, and the sweep that       *)
(* publishes, recovers and finally deletes it.                             *)
(*                                                                         *)
(* Jobs share nothing but a unique index that refuses a second active one  *)
(* of the same owner and type, so one row is enough.  Time is left out as  *)
(* in ReportJobs: rows become stale or expire at any moment, at the cost   *)
(* of a fault when a live attempt was working on the row.                  *)
(***************************************************************************)
EXTENDS Integers, FiniteSets

CONSTANTS
  Workers,         \* processes that consume the queue
  Sweepers,        \* API requests and sweeps
  ExportAttempts,  \* BullMQ attempts of an export; an import has one
  MaxFaults,       \* bound on everything that goes wrong
  LateErrors,      \* bound on the errors after an export was completed
  None, Input      \* no artifact or worker; the uploaded file of an import

ASSUME DataJobsAssumption ==
  /\ ExportAttempts \in Nat \ {0} /\ MaxFaults \in Nat /\ LateErrors \in Nat
  /\ None \notin Nat \cup Workers /\ Input \notin Nat \cup {None}

VARIABLES
  kind,      \* EXPORT or IMPORT, chosen once
  row,       \* the row of data_jobs
  bull,      \* the BullMQ job data-job-<id>
  files,     \* Input, and artifacts by the token of the attempt that wrote them
  applied,   \* how often the rows of the uploaded file were applied
  worker, sweeper,
  runs,      \* attempt tokens handed out
  faults, late

vars == <<kind, row, bull, files, applied, worker, sweeper, runs, faults, late>>

Row == [status: {"QUEUED", "PROCESSING", "COMPLETED", "FAILED", "DELETED"},
        artifact: Nat \cup {None}, stale: BOOLEAN, expired: BOOLEAN]

Bull == [state: {"absent", "waiting", "active", "terminal"},
         left: 0..ExportAttempts, holder: Workers \cup {None}]

Worker == [pc: {"idle", "claim", "work", "commit", "committed", "cleanup", "fail"},
           token: Nat, final: BOOLEAN]

Sweeper == [pc: {"idle", "remove", "add", "recover", "unlink", "delete", "prune"},
            doomed: SUBSET (Nat \cup {Input})]

NoJob == [state |-> "absent", left |-> 0, holder |-> None]
Resting == [pc |-> "idle", token |-> 0, final |-> FALSE]
Idle == [pc |-> "idle", doomed |-> {}]

Attempts == IF kind = "IMPORT" THEN 1 ELSE ExportAttempts

(* createQaExportJob, createEncuestasExportJob, createVehicleImportJob *)
Init ==
  /\ kind \in {"EXPORT", "IMPORT"}
  /\ row = [status |-> "QUEUED", artifact |-> None, stale |-> FALSE, expired |-> FALSE]
  /\ bull = NoJob
  /\ files = IF kind = "IMPORT" THEN {Input} ELSE {}
  /\ applied = 0
  /\ worker = [w \in Workers |-> Resting]
  /\ sweeper = [s \in Sweepers |-> Idle]
  /\ runs = 0 /\ faults = 0 /\ late = 0

Fault == faults < MaxFaults /\ faults' = faults + 1

SetStatus(status) == row' = [row EXCEPT !.status = status, !.stale = FALSE]

-----------------------------------------------------------------------------
(* Publishing: the job is looked up, a terminal one removed, and added again *)

\* a plausible mistake for getState: a terminal job is left where it is
getStateOfAbsent(s) ==
  /\ sweeper[s].pc = "idle"
  /\ row.status = "QUEUED" /\ ~row.expired /\ bull.state = "absent"
  /\ sweeper' = [sweeper EXCEPT ![s].pc = "add"]
  /\ UNCHANGED <<kind, row, bull, files, applied, worker, runs, faults, late>>

getState(s) ==
  /\ sweeper[s].pc = "idle"
  /\ row.status = "QUEUED" /\ ~row.expired
  /\ \/ bull.state = "absent" /\ sweeper' = [sweeper EXCEPT ![s].pc = "add"]
     \/ bull.state = "terminal" /\ sweeper' = [sweeper EXCEPT ![s].pc = "remove"]
  /\ UNCHANGED <<kind, row, bull, files, applied, worker, runs, faults, late>>

(* BullMQ refuses to remove a job somebody holds *)
removeTerminal(s) ==
  /\ sweeper[s].pc = "remove"
  /\ \/ /\ bull.state # "active"
        /\ bull' = NoJob
        /\ sweeper' = [sweeper EXCEPT ![s].pc = "add"]
     \/ /\ bull.state = "active"
        /\ sweeper' = [sweeper EXCEPT ![s] = Idle]
        /\ UNCHANGED bull
  /\ UNCHANGED <<kind, row, files, applied, worker, runs, faults, late>>

addJob(s) ==
  /\ sweeper[s].pc = "add"
  /\ \/ /\ bull' = IF bull.state = "absent"
                     THEN [state |-> "waiting", left |-> Attempts, holder |-> None] ELSE bull
        /\ UNCHANGED faults
     \/ Fault /\ UNCHANGED bull
  /\ sweeper' = [sweeper EXCEPT ![s] = Idle]
  /\ UNCHANGED <<kind, row, files, applied, worker, runs, late>>

-----------------------------------------------------------------------------
(* BullMQ *)

Abandoned == \A w \in Workers : bull.holder = w => worker[w].pc = "idle"

takeJob(w) ==
  /\ worker[w].pc = "idle" /\ bull.state = "waiting"
  /\ bull' = [bull EXCEPT !.state = "active", !.holder = w]
  /\ worker' = [worker EXCEPT ![w] = [pc |-> "claim", token |-> 0, final |-> bull.left = 1]]
  /\ UNCHANGED <<kind, row, files, applied, sweeper, runs, faults, late>>

redeliver ==
  /\ bull.state = "active"
  /\ IF Abandoned THEN UNCHANGED faults ELSE Fault
  /\ \E state \in {"waiting", "terminal"} :
       bull' = [bull EXCEPT !.state = state, !.holder = None]
  /\ UNCHANGED <<kind, row, files, applied, worker, sweeper, runs, late>>

EndAttempt(w, success) ==
  /\ worker' = [worker EXCEPT ![w] = Resting]
  /\ bull' = IF bull.state # "active" \/ bull.holder # w THEN bull
             ELSE [state |-> IF success \/ bull.left = 1 THEN "terminal" ELSE "waiting",
                   left |-> bull.left - 1, holder |-> None]

-----------------------------------------------------------------------------
(* One attempt: process_data_job or processVehicleImport *)

Claimable == row.status = "QUEUED"

(* The claim is made before the try block: a failing one touches nothing *)
ClaimFails(w) == EndAttempt(w, row.status = "COMPLETED")

claim_data_job(w) ==
  /\ worker[w].pc = "claim"
  /\ \/ /\ Claimable
        /\ SetStatus("PROCESSING")
        /\ runs' = runs + 1
        /\ worker' = [worker EXCEPT ![w].pc = "work", ![w].token = runs + 1]
        /\ UNCHANGED bull
     \/ /\ ~Claimable
        /\ ClaimFails(w)
        /\ UNCHANGED <<row, runs>>
  /\ UNCHANGED <<kind, files, applied, sweeper, faults, late>>

\* a plausible mistake for Artifact: files are named after the job alone
ArtifactOfJob(w) == 1

Artifact(w) == worker[w].token

(* Progress is written as the work advances *)
update_data_job_progress(w) ==
  /\ worker[w].pc = "work"
  /\ row.status = "PROCESSING"
  /\ row' = [row EXCEPT !.stale = FALSE]
  /\ UNCHANGED <<kind, bull, files, applied, worker, sweeper, runs, faults, late>>

work(w) ==
  /\ worker[w].pc = "work"
  /\ \/ /\ kind = "EXPORT"
        /\ files' = files \cup {Artifact(w)}
        /\ UNCHANGED applied
     \/ /\ kind = "IMPORT" /\ Input \in files
        /\ applied' = applied + 1
        /\ UNCHANGED files
  /\ worker' = [worker EXCEPT ![w].pc = "commit"]
  /\ UNCHANGED <<kind, row, bull, sweeper, runs, faults, late>>

complete_data_job(w) ==
  /\ worker[w].pc = "commit"
  /\ \/ /\ row.status = "PROCESSING"
        /\ row' = [row EXCEPT !.status = "COMPLETED", !.stale = FALSE,
                              !.artifact = IF kind = "EXPORT" THEN Artifact(w) ELSE None]
        /\ worker' = [worker EXCEPT ![w].pc = "committed"]
     \/ /\ row.status # "PROCESSING"
        /\ worker' = [worker EXCEPT ![w].pc = "cleanup"]
        /\ UNCHANGED row
  /\ UNCHANGED <<kind, bull, files, applied, sweeper, runs, faults, late>>

(* The work may have been done, in part or in full, when it fails *)
raise(w) ==
  /\ worker[w].pc \in {"work", "commit", "committed"}
  /\ \/ worker[w].pc = "work" /\ kind = "IMPORT" /\ Input \notin files /\ UNCHANGED <<faults, late, applied>>
     \/ worker[w].pc = "work" /\ Fault /\ UNCHANGED late
        /\ applied' \in {applied, IF kind = "IMPORT" THEN applied + 1 ELSE applied}
     \/ worker[w].pc = "commit" /\ Fault /\ UNCHANGED <<late, applied>>
     \/ worker[w].pc = "committed" /\ kind = "EXPORT" /\ late < LateErrors
        /\ late' = late + 1 /\ UNCHANGED <<faults, applied>>
  /\ worker' = [worker EXCEPT ![w].pc = "cleanup"]
  /\ UNCHANGED <<kind, row, bull, files, sweeper, runs>>

finish(w) ==
  /\ worker[w].pc = "committed"
  /\ files' = files \ {Input}
  /\ EndAttempt(w, TRUE)
  /\ UNCHANGED <<kind, row, applied, sweeper, runs, faults, late>>

remove_generated_file(w) ==
  /\ worker[w].pc = "cleanup"
  /\ files' = files \ {Artifact(w)}
  /\ worker' = [worker EXCEPT ![w].pc = "fail"]
  /\ UNCHANGED <<kind, row, bull, applied, sweeper, runs, faults, late>>

\* a plausible mistake for Failable: the row is failed whatever became of it
FailableAlways == row.status # "DELETED"

Failable == row.status = "PROCESSING"

fail_data_job(w) ==
  /\ worker[w].pc = "fail"
  /\ \/ /\ IF Failable THEN SetStatus(IF worker[w].final THEN "FAILED" ELSE "QUEUED")
                       ELSE UNCHANGED row
        /\ files' = IF worker[w].final THEN files \ {Input} ELSE files
        /\ UNCHANGED faults
     \/ Fault /\ UNCHANGED <<row, files>>
  /\ EndAttempt(w, FALSE)
  /\ UNCHANGED <<kind, applied, sweeper, runs, late>>

crashWorker(w) ==
  /\ worker[w].pc # "idle"
  /\ Fault
  /\ worker' = [worker EXCEPT ![w] = Resting]
  /\ UNCHANGED <<kind, row, bull, files, applied, sweeper, runs, late>>

-----------------------------------------------------------------------------
(* Recovering, deleting, pruning *)

Working == \E w \in Workers : worker[w].pc \in {"work", "commit", "cleanup", "fail"}

rowGoesStale ==
  /\ row.status = "PROCESSING" /\ ~row.stale
  /\ IF Working THEN Fault ELSE UNCHANGED faults
  /\ row' = [row EXCEPT !.stale = TRUE]
  /\ UNCHANGED <<kind, bull, files, applied, worker, sweeper, runs, late>>

rowExpires ==
  /\ row.status # "DELETED" /\ ~row.expired
  /\ row' = [row EXCEPT !.expired = TRUE]
  /\ UNCHANGED <<kind, bull, files, applied, worker, sweeper, runs, faults, late>>

inspectStale(s) ==
  /\ sweeper[s].pc = "idle"
  /\ row.status = "PROCESSING" /\ row.stale /\ bull.state # "active"
  /\ sweeper' = [sweeper EXCEPT ![s].pc = "recover"]
  /\ UNCHANGED <<kind, row, bull, files, applied, worker, runs, faults, late>>

\* a plausible mistake for Recovered: an interrupted import is queued again
RecoveredAlike == "QUEUED"

Recovered == IF kind = "EXPORT" THEN "QUEUED" ELSE "FAILED"

(* The reset is refused when the row was written since it was inspected *)
recoverStale(s) ==
  /\ sweeper[s].pc = "recover"
  /\ IF row.status = "PROCESSING" /\ row.stale
       THEN /\ SetStatus(Recovered)
            /\ bull' = IF kind = "IMPORT" /\ bull.state # "active" THEN NoJob ELSE bull
       ELSE UNCHANGED <<row, bull>>
  /\ sweeper' = [sweeper EXCEPT ![s] = Idle]
  /\ UNCHANGED <<kind, files, applied, worker, runs, faults, late>>

selectExpired(s) ==
  /\ sweeper[s].pc = "idle"
  /\ row.expired /\ row.status \in {"QUEUED", "COMPLETED", "FAILED"}
  /\ sweeper' = [sweeper EXCEPT ![s] = [pc |-> "unlink", doomed |-> {Input} \cup ({row.artifact} \ {None})]]
  /\ UNCHANGED <<kind, row, bull, files, applied, worker, runs, faults, late>>

unlinkExpired(s) ==
  /\ sweeper[s].pc = "unlink"
  /\ files' = files \ sweeper[s].doomed
  /\ sweeper' = [sweeper EXCEPT ![s].pc = "delete"]
  /\ UNCHANGED <<kind, row, bull, applied, worker, runs, faults, late>>

(* By id alone, whatever the row has become *)
deleteExpired(s) ==
  /\ sweeper[s].pc = "delete"
  /\ SetStatus("DELETED")
  /\ sweeper' = [sweeper EXCEPT ![s] = Idle]
  /\ UNCHANGED <<kind, bull, files, applied, worker, runs, faults, late>>

(* Artifacts older than the retention of a job: the job has expired by then *)
listOrphans(s) ==
  /\ sweeper[s].pc = "idle"
  /\ row.expired /\ row.status # "PROCESSING"
  /\ files \cap Nat # {}
  /\ sweeper' = [sweeper EXCEPT ![s] = [pc |-> "prune", doomed |-> (files \cap Nat) \ {row.artifact}]]
  /\ UNCHANGED <<kind, row, bull, files, applied, worker, runs, faults, late>>

pruneOrphans(s) ==
  /\ sweeper[s].pc = "prune"
  /\ files' = files \ sweeper[s].doomed
  /\ sweeper' = [sweeper EXCEPT ![s] = Idle]
  /\ UNCHANGED <<kind, row, bull, applied, worker, runs, faults, late>>

crashSweeper(s) ==
  /\ sweeper[s].pc # "idle"
  /\ Fault
  /\ sweeper' = [sweeper EXCEPT ![s] = Idle]
  /\ UNCHANGED <<kind, row, bull, files, applied, worker, runs, late>>

-----------------------------------------------------------------------------
Attempt(w) ==
  \/ takeJob(w) \/ claim_data_job(w) \/ work(w) \/ complete_data_job(w) \/ finish(w)
  \/ raise(w) \/ remove_generated_file(w) \/ fail_data_job(w)

Publish(s) == getState(s) \/ removeTerminal(s) \/ addJob(s)
Recover(s) == inspectStale(s) \/ recoverStale(s)
Clean(s) ==
  \/ selectExpired(s) \/ unlinkExpired(s) \/ deleteExpired(s)
  \/ listOrphans(s) \/ pruneOrphans(s)

Next ==
  \/ \E w \in Workers : Attempt(w) \/ update_data_job_progress(w) \/ crashWorker(w)
  \/ \E s \in Sweepers : Publish(s) \/ Recover(s) \/ Clean(s) \/ crashSweeper(s)
  \/ redeliver \/ rowGoesStale \/ rowExpires

Spec == Init /\ [][Next]_vars

(* The sweep runs every minute and does each of its parts, processes are *)
(* restarted, and BullMQ hands out what waits and what was abandoned.    *)
Fairness ==
  /\ WF_vars(redeliver) /\ WF_vars(rowGoesStale)
  /\ \A w \in Workers : WF_vars(Attempt(w))
  /\ \A s \in Sweepers : SF_vars(Publish(s)) /\ SF_vars(Recover(s)) /\ SF_vars(Clean(s))

FairSpec == Spec /\ Fairness

-----------------------------------------------------------------------------
(* Properties *)

(* Every variable holds what its row, job or process may hold. *)
TypeOK ==
  /\ kind \in {"EXPORT", "IMPORT"} /\ row \in Row /\ bull \in Bull
  /\ files \subseteq {Input} \cup 1..runs /\ applied \in Nat
  /\ worker \in [Workers -> Worker] /\ sweeper \in [Sweepers -> Sweeper]
  /\ runs \in Nat /\ faults \in 0..MaxFaults /\ late \in 0..LateErrors

(* "Nunca se reejecuta automaticamente": the rows of an uploaded file are     *)
(* applied at most once, whatever is redelivered, recovered or retried.       *)
ImportedAtMostOnce == applied <= 1

(* The artifacts are immutable: a completed export that has not expired can   *)
(* be downloaded, unless its worker met an error after the commit, which makes *)
(* it remove the file it has just published; and nobody takes the uploaded file from the attempt that is  *)
(* applying it: not another delivery of the job, nor the recovery, while the   *)
(* job has not expired.                                                       *)
FilesAreThere ==
  ~row.expired =>
    IF kind = "EXPORT" THEN row.status = "COMPLETED" /\ late = 0 => row.artifact \in files
    ELSE \A w \in Workers : worker[w].pc = "work" => Input \in files

(* What a job came to is final: attempts and sweeps that come late neither    *)
(* revive it nor change its outcome; it can only be deleted.                  *)
OutcomeFinal ==
  [][row.status \in {"COMPLETED", "FAILED"} =>
       row'.status = "DELETED" \/ (row'.status = row.status /\ row'.artifact = row.artifact)]_vars

(* No job hangs: it completes, fails, or expires and is deleted.              *)
Settles == <>[](row.status \in {"COMPLETED", "FAILED", "DELETED"})

=============================================================================
