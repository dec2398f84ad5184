----------------------------- MODULE ExportPanel ------------------------------
(* What the browser makes of a heavy job: the pages that ask for a ZIP of the surveys or *)
(* of the field records (panel "export"), and the dialog that imports vehicles (panel     *)
(* "import").  The page remembers the id of its job in the session storage, with the      *)
(* filters it was asked for, asks for a job in progress when it has none, and says for     *)
(* which filters the ZIP is when it knows.  Requests take their time: filters change,      *)
(* pages are left and opened again while an answer is on its way.                         *)
EXTENDS Integers, FiniteSets, Sequences

CONSTANTS
  Filters,      \* filters an export can be asked for; a file, in the dialog
  NoFilters,    \* filters that have no complete range of dates
  MaxJobs,      \* bound on the jobs of the user
  MaxMounts     \* bound on how often the page is opened

ASSUME PanelConstants == NoFilters \notin Filters /\ MaxJobs \in Nat /\ MaxMounts \in Nat

VARIABLES
  panel,        \* "export" or "import"
  jobs,         \* the jobs of the user, as the server has them
  filters,      \* what the page shows the filters to be
  jobId,        \* the job on the page, 0 if there is none
  known,        \* the page knows that the job is for the filters it shows
  mixedUp,      \* the filters have changed while a request for a job was on its way
  storage,      \* sessionStorage
  polled,       \* what the cache of queries has of each job
  active,       \* what it has of the job in progress: data, age, a request on its way
  posting,      \* a request for a job that is on its way, and the page that sent it
  mounts        \* how often the page was opened

panelVars == <<panel, jobs, filters, jobId, known, mixedUp, storage, polled, active, posting, mounts>>

NothingStored == [id |-> 0, filters |-> NoFilters]
NoPost == [step |-> "none", filters |-> NoFilters, answer |-> 0, mount |-> 0]
NothingCached == [data |-> 0, fresh |-> FALSE, fetch |-> "none", answer |-> 0]

(* QUEUED and PROCESSING are the same to the page, but for the words.                     *)
InProgress == "QUEUED"
Ended == {"COMPLETED", "FAILED"}

(* getLatestOwnedActiveDataJob.                                                         *)
ActiveJob == IF \E j \in DOMAIN jobs : jobs[j].status = InProgress
             THEN CHOOSE j \in DOMAIN jobs : jobs[j].status = InProgress ELSE 0

-----------------------------------------------------------------------------
(* The query for the job in progress runs when the page has no job, if what is cached is  *)
(* older than 30 seconds; what it has found is put on the page.                          *)
Asked(cached) == IF cached.fetch = "none" /\ ~cached.fresh THEN [cached EXCEPT !.fetch = "sent"] ELSE cached

Usable(cached) == cached.data # 0 /\ cached.fetch = "none"

(* What the page holds after a change, when its effects have run.                        *)
Shows(id, isKnown, stored, cached) ==
  IF id = 0 /\ Usable(cached)
  THEN /\ jobId' = cached.data /\ known' = FALSE /\ active' = cached
       /\ storage' = [id |-> cached.data, filters |-> NoFilters]
  ELSE /\ jobId' = id /\ known' = isKnown /\ active' = cached /\ storage' = stored

Cleared == Shows(0, FALSE, NothingStored, IF jobId # 0 THEN Asked(active) ELSE active)

PanelInit ==
  /\ panel \in {"export", "import"}
  /\ jobs = <<>> /\ filters = NoFilters /\ jobId = 0 /\ known = FALSE /\ mixedUp = FALSE
  /\ storage = NothingStored /\ polled = [j \in 1..MaxJobs |-> "none"]
  /\ active = [NothingCached EXCEPT !.fetch = "sent"] /\ posting = NoPost /\ mounts = 1

(* The page is left and opened again; a reload takes the cache and the requests with it.  *)
Mount(reload) ==
  /\ mounts < MaxMounts /\ mounts' = mounts + 1
  /\ LET cached == IF reload THEN NothingCached ELSE active
         toAsk == IF storage.id = 0 THEN Asked(cached) ELSE cached
     IN  Shows(storage.id, storage.filters # NoFilters, storage, toAsk)
  /\ filters' = storage.filters /\ mixedUp' = FALSE
  /\ polled' = IF reload THEN [j \in 1..MaxJobs |-> "none"] ELSE polled
  /\ posting' = IF reload THEN NoPost ELSE posting
  /\ UNCHANGED <<panel, jobs>>

(* Every change of a filter clears the job.                                             *)
ChangeFilters ==
  /\ panel = "export" /\ filters' \in (Filters \cup {NoFilters}) \ {filters}
  /\ Cleared
  /\ mixedUp' = (mixedUp \/ (posting.step # "none" /\ posting.mount = mounts))
  /\ UNCHANGED <<panel, jobs, polled, posting, mounts>>

(* clearExportJob after a status that could not be read; reset of the dialog, which       *)
(* offers it after the end, too, and which takes the file away.                          *)
Discard ==
  /\ jobId # 0
  /\ polled[jobId] = "error" \/ (panel = "import" /\ polled[jobId] \in Ended)
  /\ Cleared
  /\ filters' = IF panel = "import" THEN NoFilters ELSE filters
  /\ UNCHANGED <<panel, jobs, mixedUp, polled, posting, mounts>>

ChooseFile ==
  /\ panel = "import" /\ jobId = 0 /\ active.fetch = "none" /\ filters = NoFilters
  /\ filters' \in Filters
  /\ UNCHANGED <<panel, jobs, jobId, known, mixedUp, storage, polled, active, posting, mounts>>

-----------------------------------------------------------------------------
(* handleCreateExport, uploadMut: not while a job is looked for, in progress or done; the *)
(* button of the pages is there before the first status of a job was read.               *)
MayCreate ==
  /\ filters \in Filters
  /\ IF jobId = 0 THEN active.fetch = "none"
     ELSE panel = "export" /\ polled[jobId] \in {"none", "FAILED"}
  /\ posting.mount = mounts => posting.step = "none"

Create ==
  /\ MayCreate /\ posting.step = "none"
  /\ posting' = [step |-> "sent", filters |-> filters, answer |-> 0, mount |-> mounts]
  /\ UNCHANGED <<panel, jobs, filters, jobId, known, mixedUp, storage, polled, active, mounts>>

(* The server has room for one job in progress per user and type.                        *)
PostIsHandled ==
  /\ posting.step = "sent"
  /\ IF ActiveJob = 0
     THEN /\ Len(jobs) < MaxJobs
          /\ jobs' = Append(jobs, [status |-> InProgress, filters |-> posting.filters])
          /\ posting' = [posting EXCEPT !.step = "made", !.answer = Len(jobs) + 1]
     ELSE jobs' = jobs /\ posting' = [posting EXCEPT !.step = "refused"]
  /\ UNCHANGED <<panel, filters, jobId, known, mixedUp, storage, polled, active, mounts>>

(* After a 409 the page asks which job it is.                                           *)
ActiveIsRead ==
  /\ posting.step = "refused"
  /\ posting' = [posting EXCEPT !.step = "found", !.answer = ActiveJob]
  /\ UNCHANGED <<panel, jobs, filters, jobId, known, mixedUp, storage, polled, active, mounts>>

\* a plausible mistake for Remembered: the filters on the page, not those of the request
RememberedAsShown == [id |-> posting.answer, filters |-> filters]

(* The dialog remembers no filters.                                                     *)
Remembered == [id |-> posting.answer, filters |-> IF panel = "export" THEN posting.filters ELSE NoFilters]

(* A page that was left since still writes into the storage.                             *)
Takes(stored, isKnown) ==
  IF posting.mount = mounts THEN Shows(stored.id, isKnown, stored, active)
  ELSE storage' = stored /\ UNCHANGED <<jobId, known, active>>

PostIsAnswered ==
  /\ posting.step = "made"
  /\ Takes(Remembered, panel = "export")
  /\ posting' = NoPost
  /\ UNCHANGED <<panel, jobs, filters, mixedUp, polled, mounts>>

KnowsFound == FALSE

ConflictIsAnswered ==
  /\ posting.step = "found" /\ posting.answer # 0
  /\ Takes([id |-> posting.answer, filters |-> NoFilters], KnowsFound)
  /\ filters' = IF panel = "import" /\ posting.mount = mounts THEN NoFilters ELSE filters
  /\ posting' = NoPost
  /\ UNCHANGED <<panel, jobs, mixedUp, polled, mounts>>

(* No answer, or no job in progress any more: the page says that it did not work.         *)
PostFails ==
  /\ posting.step # "none" /\ posting' = NoPost
  /\ UNCHANGED <<panel, jobs, filters, jobId, known, mixedUp, storage, polled, active, mounts>>

-----------------------------------------------------------------------------
(* The queries.                                                                         *)
ActiveQueryIsHandled ==
  /\ active.fetch = "sent"
  /\ active' = [active EXCEPT !.fetch = "read", !.answer = ActiveJob]
  /\ UNCHANGED <<panel, jobs, filters, jobId, known, mixedUp, storage, polled, posting, mounts>>

ActiveQueryIsAnswered ==
  /\ active.fetch = "read"
  /\ Shows(jobId, known, storage,
           [data |-> active.answer, fresh |-> TRUE, fetch |-> "none", answer |-> 0])
  /\ UNCHANGED <<panel, jobs, filters, mixedUp, polled, posting, mounts>>

ActiveQueryFails ==
  /\ active.fetch # "none"
  /\ Shows(jobId, known, storage, [active EXCEPT !.fetch = "none", !.answer = 0])
  /\ UNCHANGED <<panel, jobs, filters, mixedUp, polled, posting, mounts>>

CacheAges ==
  /\ active.fresh /\ active' = [active EXCEPT !.fresh = FALSE]
  /\ UNCHANGED <<panel, jobs, filters, jobId, known, mixedUp, storage, polled, posting, mounts>>

(* The status is read until the job has ended, and again when asked for after an error.   *)
Poll ==
  /\ jobId # 0 /\ polled[jobId] \notin Ended
  /\ \/ polled' = [polled EXCEPT ![jobId] = jobs[jobId].status] /\ jobs[jobId].status # "GONE"
     \/ polled' = [polled EXCEPT ![jobId] = "error"]
  /\ UNCHANGED <<panel, jobs, filters, jobId, known, mixedUp, storage, active, posting, mounts>>

(* The worker, and the daily deletion.                                                  *)
JobProceeds ==
  /\ \E j \in DOMAIN jobs : \E status \in
       (IF jobs[j].status = InProgress THEN Ended
        ELSE IF jobs[j].status \in Ended THEN {"GONE"} ELSE {}) :
          jobs' = [jobs EXCEPT ![j].status = status]
  /\ UNCHANGED <<panel, filters, jobId, known, mixedUp, storage, polled, active, posting, mounts>>

PanelNext ==
  \/ \E reload \in BOOLEAN : Mount(reload)
  \/ ChangeFilters \/ Discard \/ ChooseFile \/ Create
  \/ PostIsHandled \/ ActiveIsRead \/ PostIsAnswered \/ ConflictIsAnswered \/ PostFails
  \/ ActiveQueryIsHandled \/ ActiveQueryIsAnswered \/ ActiveQueryFails \/ CacheAges
  \/ Poll \/ JobProceeds

PanelSpec == PanelInit /\ [][PanelNext]_panelVars

-----------------------------------------------------------------------------
(* When the page says for what a ZIP is, it is for that, unless the filters were changed   *)
(* while the request was on its way: the answer does not look whether they were.  And the  *)
(* filters in the session storage, which an opened page goes back to, are those of the     *)
(* job whose id is stored with them, whoever wrote them.                                 *)
ContextIsTrue ==
  /\ known /\ ~mixedUp => jobs[jobId].filters = filters
  /\ storage.filters # NoFilters => storage.id # 0 /\ jobs[storage.id].filters = storage.filters
=============================================================================
