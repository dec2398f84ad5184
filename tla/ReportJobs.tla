----------------------------- MODULE ReportJobs -----------------------------
(***************************************************************************)
(* The generation of the monthly report of one month: the history row and  *)
(* the outbox entry written by the API, the dispatchers that publish it to *)
(* BullMQ, the Python workers that generate it under a lease, and the      *)
(* sweep that recovers reports whose lease ran out.                        *)
(*                                                                         *)
(* Each statement or transaction of the database, each call to Redis and   *)
(* each change of the disk is one step; whatever lies between two of them  *)
(* can be interleaved, fail, or be cut short by a crash.                   *)
(*                                                                         *)
(* Time is left out: a lease runs out, or an unclaimed job becomes         *)
(* overdue, at any moment.  When that happens although the worker is alive *)
(* it counts as a fault, like a crash or an error, and faults are bounded. *)
(***************************************************************************)
EXTENDS Integers, FiniteSets

CONSTANTS
  Reports,       \* ids of the rows of report_history for the month
  Workers,       \* processes that consume the queue
  Dispatchers,   \* API requests and sweeps that publish the outbox
  JobAttempts,   \* REPORT_JOB_ATTEMPTS
  MaxFaults,     \* bound on everything that goes wrong
  None           \* no token, no worker

ASSUME ReportJobsAssumption ==
  /\ Reports \subseteq Nat
  /\ JobAttempts \in Nat \ {0} /\ MaxFaults \in Nat
  /\ None \notin Nat \cup Workers

VARIABLES
  report,      \* rows of report_history
  outbox,      \* rows of report_generation_outbox
  job,         \* job[r][n]: the BullMQ job with the n-th jobId of report r
  files,       \* artifacts on disk, by the token of the run that wrote them
  worker,
  dispatcher,
  runs,        \* run tokens handed out so far
  faults,      \* faults so far
  unconfirmed  \* history: tokens of the runs whose commit was not confirmed to them

vars == <<report, outbox, job, files, worker, dispatcher, runs, faults, unconfirmed>>
db == <<report, outbox>>

Tokens == 1..runs
Dispatches == 0..(3 * MaxFaults + 1)   \* enough jobIds for every fault

Report == [status: {"NONE", "PROCESSING", "COMPLETED", "FAILED"},
           runToken: Nat \cup {None}, lease: {"none", "held", "expired"},
           artifacts: Nat \cup {None}]

Job == [state: {"absent", "waiting", "active", "done"}, left: 0..JobAttempts,
        holder: Workers \cup {None}]

Worker == [pc: {"idle", "claim", "generate", "commit", "committed", "cleanup", "close"},
           report: Reports \cup {None}, dispatch: Nat, token: Nat \cup {None},
           leaseLost: BOOLEAN]

Dispatcher == [pc: {"idle", "consume", "add", "ack", "catch"},
               report: Reports \cup {None}, attempts: Nat]

Unclaimed == [status |-> "NONE", runToken |-> None, lease |-> "none", artifacts |-> None]
NoJob == [state |-> "absent", left |-> 0, holder |-> None]
Resting == [pc |-> "idle", report |-> None, dispatch |-> 0, token |-> None, leaseLost |-> FALSE]
Idle == [pc |-> "idle", report |-> None, attempts |-> 0]

Init ==
  /\ report = [r \in Reports |-> Unclaimed]
  /\ outbox = [r \in Reports |-> [pending |-> FALSE, attempts |-> 0]]
  /\ job = [r \in Reports |-> [n \in Dispatches |-> NoJob]]
  /\ files = {}
  /\ worker = [w \in Workers |-> Resting]
  /\ dispatcher = [d \in Dispatchers |-> Idle]
  /\ runs = 0 /\ faults = 0 /\ unconfirmed = {}

Fault == faults < MaxFaults /\ faults' = faults + 1

InProcess == {r \in Reports : report[r].status = "PROCESSING"}

-----------------------------------------------------------------------------
(* Requesting: row and intention to publish, in one transaction.  The unique *)
(* index refuses a second report of the month in process.                    *)
requestReportGeneration(r) ==
  /\ report[r].status = "NONE"
  /\ \A s \in Reports : s < r => report[s].status # "NONE"
  /\ InProcess = {}
  /\ report' = [report EXCEPT ![r].status = "PROCESSING"]
  /\ outbox' = [outbox EXCEPT ![r] = [pending |-> TRUE, attempts |-> 0]]
  /\ UNCHANGED <<job, files, worker, dispatcher, runs, faults, unconfirmed>>

-----------------------------------------------------------------------------
(* Publishing: dispatchPendingReportGenerationOutbox, one entry at a time *)

readEntry(d, r) ==
  /\ dispatcher[d].pc = "idle"
  /\ outbox[r].pending
  /\ dispatcher' = [dispatcher EXCEPT ![d] =
       [pc |-> IF report[r].status = "PROCESSING" THEN "add" ELSE "consume",
        report |-> r, attempts |-> outbox[r].attempts]]
  /\ UNCHANGED <<db, job, files, worker, runs, faults, unconfirmed>>

(* updateMany where publishedAt is still null *)
UpdateEntry(r, pending, added) ==
  outbox' = IF outbox[r].pending
              THEN [outbox EXCEPT ![r] = [pending |-> pending, attempts |-> @.attempts + added]]
              ELSE outbox

Rest(d) == dispatcher' = [dispatcher EXCEPT ![d] = Idle]

(* The report was closed before its publication was noted *)
consumeEntry(d) ==
  /\ dispatcher[d].pc = "consume"
  /\ UpdateEntry(dispatcher[d].report, FALSE, 0)
  /\ Rest(d)
  /\ UNCHANGED <<report, job, files, worker, runs, faults, unconfirmed>>

(* reportJobId is the number of attempts before this one: BullMQ ignores a *)
(* jobId it knows.                                                         *)
Published(r, n) ==
  IF job[r][n].state = "absent"
    THEN [job EXCEPT ![r][n] = [state |-> "waiting", left |-> JobAttempts, holder |-> None]]
    ELSE job

addJob(d) ==
  /\ dispatcher[d].pc = "add"
  /\ \/ /\ job' = Published(dispatcher[d].report, dispatcher[d].attempts)
        /\ dispatcher' = [dispatcher EXCEPT ![d].pc = "ack"]
        /\ UNCHANGED faults
     \/ /\ Fault   \* Redis did not take it, or took it and the reply was lost
        /\ job' \in {job, Published(dispatcher[d].report, dispatcher[d].attempts)}
        /\ dispatcher' = [dispatcher EXCEPT ![d].pc = "catch"]
  /\ UNCHANGED <<db, files, worker, runs, unconfirmed>>

ackEntry(d) ==
  /\ dispatcher[d].pc = "ack"
  /\ \/ UpdateEntry(dispatcher[d].report, FALSE, 1) /\ Rest(d) /\ UNCHANGED faults
     \/ /\ Fault
        /\ dispatcher' = [dispatcher EXCEPT ![d].pc = "catch"]
        /\ UNCHANGED outbox
  /\ UNCHANGED <<report, job, files, worker, runs, unconfirmed>>

deferEntry(d) ==
  /\ dispatcher[d].pc = "catch"
  /\ \/ UpdateEntry(dispatcher[d].report, TRUE, 1) /\ UNCHANGED faults
     \/ Fault /\ UNCHANGED outbox
  /\ Rest(d)
  /\ UNCHANGED <<report, job, files, worker, runs, unconfirmed>>

crashDispatcher(d) ==
  /\ dispatcher[d].pc # "idle"
  /\ Fault
  /\ Rest(d)
  /\ UNCHANGED <<db, job, files, worker, runs, unconfirmed>>

-----------------------------------------------------------------------------
(* The queue: BullMQ hands a waiting job to a worker, and hands it out again *)
(* when the worker stopped renewing its lock.                                *)

HoldsJob(w) ==
  LET j == job[worker[w].report][worker[w].dispatch]
  IN  j.state = "active" /\ j.holder = w

Abandoned(r, n) ==
  LET w == job[r][n].holder
  IN  ~(worker[w].pc # "idle" /\ worker[w].report = r /\ worker[w].dispatch = n)

takeJob(w, r, n) ==
  /\ worker[w].pc = "idle"
  /\ job[r][n].state = "waiting"
  /\ job' = [job EXCEPT ![r][n].state = "active", ![r][n].holder = w]
  /\ worker' = [worker EXCEPT ![w] = [Resting EXCEPT !.pc = "claim", !.report = r, !.dispatch = n]]
  /\ UNCHANGED <<db, files, dispatcher, runs, faults, unconfirmed>>

redeliver(r, n) ==
  /\ job[r][n].state = "active"
  /\ IF Abandoned(r, n) THEN UNCHANGED faults ELSE Fault
  /\ \E state \in {"waiting", "done"} :   \* a job may stall only so often
       job' = [job EXCEPT ![r][n].state = state, ![r][n].holder = None]
  /\ UNCHANGED <<db, files, worker, dispatcher, runs, unconfirmed>>

(* How an attempt ends, for a worker that still holds the lock of its job *)
EndAttempt(w, success) ==
  LET r == worker[w].report
      n == worker[w].dispatch
      left == job[r][n].left - 1
  IN  /\ worker' = [worker EXCEPT ![w] = Resting]
      /\ job' = IF ~HoldsJob(w) THEN job
                ELSE [job EXCEPT ![r][n] =
                       [state |-> IF success \/ left = 0 THEN "done" ELSE "waiting",
                        left |-> left, holder |-> None]]

-----------------------------------------------------------------------------
(* One attempt: process_report *)

\* a plausible mistake for Claimable: a newer report of the month is not looked for
ClaimableThoughOld(r) ==
  \/ report[r].status = "FAILED"
  \/ report[r].status = "PROCESSING" /\ (report[r].runToken = None \/ report[r].lease # "held")

Claimable(r) ==
  /\ \/ report[r].status = "FAILED"
     \/ report[r].status = "PROCESSING" /\ (report[r].runToken = None \/ report[r].lease # "held")
  /\ \A s \in Reports : s > r => report[s].status = "NONE"

claim_report_history(w) ==
  LET r == worker[w].report IN
  /\ worker[w].pc = "claim"
  /\ IF Claimable(r) /\ InProcess \subseteq {r}
       THEN /\ runs' = runs + 1
            /\ report' = [report EXCEPT ![r] =
                 [status |-> "PROCESSING", runToken |-> runs + 1, lease |-> "held",
                  artifacts |-> None]]
            /\ worker' = [worker EXCEPT ![w].pc = "generate", ![w].token = runs + 1]
            /\ UNCHANGED job
       ELSE /\ EndAttempt(w, report[r].status = "COMPLETED")
            /\ UNCHANGED <<report, runs>>
  /\ UNCHANGED <<outbox, files, dispatcher, faults, unconfirmed>>

Owns(w) ==
  LET r == report[worker[w].report]
  IN  r.status = "PROCESSING" /\ r.runToken = worker[w].token

(* maintain_report_lease, which runs beside the attempt until it ends *)
renew_report_history_lease(w) ==
  /\ worker[w].pc \notin {"idle", "claim"}
  /\ \/ Owns(w) /\ report' = [report EXCEPT ![worker[w].report].lease = "held"]
        /\ UNCHANGED <<worker, faults>>
     \/ ~Owns(w) /\ worker' = [worker EXCEPT ![w].leaseLost = TRUE]
        /\ UNCHANGED <<report, faults>>
     \/ Fault /\ worker' = [worker EXCEPT ![w].leaseLost = TRUE] /\ UNCHANGED report
  /\ UNCHANGED <<outbox, job, files, dispatcher, runs, unconfirmed>>

(* The artifacts are named after the token: no attempt writes over another's *)
generate(w) ==
  /\ worker[w].pc = "generate" /\ ~worker[w].leaseLost
  /\ files' = files \cup {worker[w].token}
  /\ worker' = [worker EXCEPT ![w].pc = "commit"]
  /\ UNCHANGED <<db, job, dispatcher, runs, faults, unconfirmed>>

Completed(w) ==
  [report EXCEPT ![worker[w].report] =
     [status |-> "COMPLETED", runToken |-> None, lease |-> "none",
      artifacts |-> worker[w].token]]

complete_report_history(w) ==
  /\ worker[w].pc = "commit"
  /\ \/ /\ Owns(w)
        /\ report' = Completed(w)
        /\ worker' = [worker EXCEPT ![w].pc = "committed"]
        /\ UNCHANGED <<faults, unconfirmed>>
     \/ /\ ~Owns(w)
        /\ worker' = [worker EXCEPT ![w].pc = "cleanup"]
        /\ UNCHANGED <<report, faults, unconfirmed>>
     \/ /\ Owns(w) /\ Fault   \* committed, but conn.commit() raised
        /\ unconfirmed' = unconfirmed \cup {worker[w].token}
        /\ report' = Completed(w)
        /\ worker' = [worker EXCEPT ![w].pc = "cleanup"]
  /\ UNCHANGED <<outbox, job, files, dispatcher, runs>>

\* a plausible mistake for Undone: the flag committed is not looked at
UndoneAlways(w) == TRUE

(* An error before the commit undoes the attempt, one after it does not *)
Undone(w) == worker[w].pc # "committed"

raise(w) ==
  /\ \/ worker[w].pc \in {"generate", "commit"} /\ worker[w].leaseLost /\ UNCHANGED faults
     \/ worker[w].pc \in {"generate", "commit", "committed"} /\ Fault
  /\ IF Undone(w) THEN worker' = [worker EXCEPT ![w].pc = "cleanup"] /\ UNCHANGED job
                  ELSE EndAttempt(w, TRUE)
  /\ UNCHANGED <<db, files, dispatcher, runs, unconfirmed>>

remove_generated_file(w) ==
  /\ worker[w].pc = "cleanup"
  /\ files' = files \ {worker[w].token}
  /\ worker' = [worker EXCEPT ![w].pc = "close"]
  /\ UNCHANGED <<db, job, dispatcher, runs, faults, unconfirmed>>

fail_report_history(w) ==
  /\ worker[w].pc = "close"
  /\ \/ /\ Owns(w)
        /\ report' = [report EXCEPT ![worker[w].report] =
             [status |-> "FAILED", runToken |-> None, lease |-> "none", artifacts |-> None]]
        /\ UNCHANGED faults
     \/ ~Owns(w) /\ UNCHANGED <<report, faults>>
     \/ Owns(w) /\ Fault /\ UNCHANGED report
  /\ EndAttempt(w, FALSE)
  /\ UNCHANGED <<outbox, files, dispatcher, runs, unconfirmed>>

finish(w) ==
  /\ worker[w].pc = "committed"
  /\ EndAttempt(w, TRUE)
  /\ UNCHANGED <<db, files, dispatcher, runs, faults, unconfirmed>>

crashWorker(w) ==
  /\ worker[w].pc # "idle"
  /\ Fault
  /\ worker' = [worker EXCEPT ![w] = Resting]
  /\ UNCHANGED <<db, job, files, dispatcher, runs, unconfirmed>>

-----------------------------------------------------------------------------
(* Time and the sweep *)

Alive(r) == \E w \in Workers : worker[w].pc # "idle" /\ worker[w].report = r
                               /\ worker[w].token = report[r].runToken

leaseExpires(r) ==
  /\ report[r].lease = "held"
  /\ IF Alive(r) THEN Fault ELSE UNCHANGED faults
  /\ report' = [report EXCEPT ![r].lease = "expired"]
  /\ UNCHANGED <<outbox, job, files, worker, dispatcher, runs, unconfirmed>>

Live(r, n) == job[r][n].state \in {"waiting", "active"}

\* a plausible mistake for Expired: a report no worker ever claimed is forgotten
ExpiredLeaseOnly(r) == report[r].lease = "expired"

Expired(r) ==
  \/ report[r].lease = "expired"
  \/ report[r].runToken = None /\ report[r].lease = "none" /\ ~outbox[r].pending

(* A report whose job is still alive is overdue only by a fault *)
recoverExpiredReportGenerations(r) ==
  /\ report[r].status = "PROCESSING"
  /\ Expired(r)
  /\ IF report[r].lease = "none" /\ \E n \in Dispatches : Live(r, n)
       THEN Fault ELSE UNCHANGED faults
  /\ report' = [report EXCEPT ![r].runToken = None, ![r].lease = "none"]
  /\ outbox' = [outbox EXCEPT ![r].pending = TRUE]
  /\ UNCHANGED <<job, files, worker, dispatcher, runs, unconfirmed>>

-----------------------------------------------------------------------------
Dispatch(d) ==
  \/ \E r \in Reports : readEntry(d, r)
  \/ consumeEntry(d) \/ addJob(d) \/ ackEntry(d) \/ deferEntry(d)

Attempt(w) ==
  \/ claim_report_history(w) \/ generate(w) \/ complete_report_history(w)
  \/ raise(w) \/ remove_generated_file(w) \/ fail_report_history(w) \/ finish(w)

Take(w) == \E r \in Reports, n \in Dispatches : takeJob(w, r, n)

Sweep(r) == leaseExpires(r) \/ recoverExpiredReportGenerations(r)

Redeliver(r) == \E n \in Dispatches : redeliver(r, n)

Next ==
  \/ \E r \in Reports : requestReportGeneration(r) \/ Sweep(r) \/ Redeliver(r)
  \/ \E d \in Dispatchers : Dispatch(d) \/ crashDispatcher(d)
  \/ \E w \in Workers :
       Take(w) \/ Attempt(w) \/ renew_report_history_lease(w) \/ crashWorker(w)

Spec == Init /\ [][Next]_vars

(* The sweep runs every minute, processes are restarted, BullMQ hands out   *)
(* what waits and what was abandoned, and a process that runs takes steps.  *)
Fairness ==
  /\ \A r \in Reports : WF_vars(Sweep(r)) /\ WF_vars(Redeliver(r))
  /\ \A d \in Dispatchers : WF_vars(Dispatch(d))
  /\ \A w \in Workers : WF_vars(Take(w)) /\ WF_vars(Attempt(w))

FairSpec == Spec /\ Fairness

-----------------------------------------------------------------------------
(* Properties *)

(* Every variable holds what its row, job or process may hold. *)
TypeOK ==
  /\ report \in [Reports -> Report]
  /\ outbox \in [Reports -> [pending: BOOLEAN, attempts: Dispatches]]
  /\ job \in [Reports -> [Dispatches -> Job]]
  /\ files \subseteq Tokens
  /\ worker \in [Workers -> Worker] /\ dispatcher \in [Dispatchers -> Dispatcher]
  /\ runs \in Nat /\ faults \in 0..MaxFaults /\ unconfirmed \subseteq Tokens

(* "La fila COMPLETED es el punto de confirmacion final de los archivos": the *)
(* artifacts a completed report names are on disk and stay there, except      *)
(* those of a run that was never told that its commit succeeded, which        *)
(* removes them (process_report takes an error of conn.commit() for a failure).*)
CompletedHasArtifacts ==
  \A r \in Reports :
    report[r].status = "COMPLETED" /\ report[r].artifacts \notin unconfirmed
      => report[r].artifacts \in files

(* Leases, retries, redeliveries and recoveries never break the promise of    *)
(* ReportLifecycle: one report of the month in process, the newest, and a     *)
(* completed one is final.                                                    *)
Lifecycle == INSTANCE ReportLifecycle WITH status <- [r \in Reports |-> report[r].status]
ImplementsLifecycle == Lifecycle!Spec

(* The month is never blocked for good: whatever crashed or got lost, a       *)
(* report in process is closed in the end.                                    *)
EventuallyClosed ==
  \A r \in Reports : (report[r].status = "PROCESSING") ~> (report[r].status # "PROCESSING")

=============================================================================
