---------------------------- MODULE ServerProofs ----------------------------
(***************************************************************************)
(* Proofs about what runs on the server besides the requests: the process   *)
(* of the API, the daily check of documents, the scripts of backups and     *)
(* deployments, and the rows of an import of vehicles.                      *)
(***************************************************************************)
EXTENDS Backups, ApiProcess, Compliance, VehicleImport, FiniteSetTheorems, SequenceTheorems, TLAPS

-----------------------------------------------------------------------------
(* The process of the API.  Closed(s): the shutdown has come to step s.               *)
HttpClosed == stopping \in {"jobs", "database", "redis"}
JobsClosed == stopping \in {"database", "redis"}

ApiInv ==
  /\ at = [w \in Crew |-> at[w]] /\ stopping \in Steps \cup {"no"}
  /\ open \in Nat /\ workers \in Nat
  /\ HttpClosed => open = 0
  /\ JobsClosed => \A w \in Crew \ late : at[w] \in {"none", "closed"}

LEMMA ApiStep == ApiInv /\ [ApiNext]_apiVars => ApiInv'
<1> SUFFICES ASSUME ApiInv, [ApiNext]_apiVars PROVE ApiInv'
  OBVIOUS
<1> USE DEF ApiInv, HttpClosed, JobsClosed, Steps
<1>1. ASSUME NEW w \in Crew, NEW v, at' = [at EXCEPT ![w] = v], JobsClosed => w \in late,
             UNCHANGED <<open, stopping, workers>>, late \subseteq late'
      PROVE  ApiInv'
  BY <1>1
<1>2. CASE UNCHANGED apiVars
  BY <1>2 DEF apiVars
<1>3. CASE StartWorker
  <2>1. workers' \in 1..Len(Roster)
    BY <1>3, ApiConstants DEF StartWorker
  <2>2. Roster[workers'] \in Crew
    BY <2>1, ApiConstants DEF Crew
  <2>3. at' = [at EXCEPT ![Roster[workers']] = "idle"]
    BY <1>3 DEF StartWorker
  <2> QED
    BY <1>3, <2>2, <2>3 DEF StartWorker
<1>4. CASE StartFails \/ Signal
  BY <1>4 DEF StartFails, Signal, BeginShutdown
<1>5. CASE TakeRequest \/ AnswerRequest
  BY <1>5 DEF TakeRequest, AnswerRequest
<1>6. CASE ShutdownStep
  <2>1. /\ UNCHANGED <<open, at, late>> /\ stopping \in {"http", "jobs", "database"}
        /\ stopping' = After(stopping)
        /\ stopping = "http" => open = 0
        /\ stopping = "jobs" => \A w \in Crew \ late : at[w] \in {"none", "closed"}
    BY <1>6 DEF ShutdownStep, Done
  <2>2. After("http") = "jobs" /\ After("jobs") = "database" /\ After("database") = "redis"
    BY DEF After
  <2>3. stopping' \in {"jobs", "database", "redis"}
    BY <2>1, <2>2
  <2>4. open' = 0
    BY <2>1
  <2>5. stopping' \in {"database", "redis"} => \A w \in Crew \ late : at[w] \in {"none", "closed"}
    <3>1. stopping # "http" \/ stopping' = "jobs"
      BY <2>1, <2>2
    <3> QED
      BY <2>1, <3>1
  <2>6. workers' = workers
    BY <1>6 DEF ShutdownStep
  <2> QED
    BY <2>1, <2>3, <2>4, <2>5, <2>6
<1>7. CASE ExitClean \/ ExitForced \/ Killed
  BY <1>7 DEF ExitClean, ExitForced, Killed, Leave
<1>8. ASSUME NEW w \in Crew, TakeJob(w) \/ EndJob(w) \/ CloseWorker(w) PROVE ApiInv'
  <2>1. CASE TakeJob(w)
    BY <1>1, <2>1 DEF TakeJob, Closing
  <2>2. CASE EndJob(w)
    BY <1>1, <2>2 DEF EndJob
  <2>3. CASE CloseWorker(w)
    BY <2>3 DEF CloseWorker
  <2> QED
    BY <1>8, <2>1, <2>2, <2>3
<1> QED
  BY <1>2, <1>3, <1>4, <1>5, <1>6, <1>7, <1>8 DEF ApiNext

(* Once shutdown has passed server.close and shutdownJobs no request is being answered,   *)
(* and no worker that shutdownJobs found is at a job, for any roster of workers.           *)
THEOREM ExitIsOrderly == ApiSpec => []OrderlyExit
<1>1. ApiInit => ApiInv
  BY DEF ApiInit, ApiInv, HttpClosed, JobsClosed, Steps
<1>2. ApiInv => OrderlyExit
  BY DEF ApiInv, HttpClosed, JobsClosed, OrderlyExit
<1> QED
  BY <1>1, <1>2, ApiStep, PTL DEF ApiSpec

-----------------------------------------------------------------------------
(* The daily check.  What was written and not yet told of is owed.                    *)
Owed(v) == IF phase = "applied" /\ v \in scan.toBlock THEN 1 ELSE 0

CheckInv ==
  /\ told \in [Units -> Nat] /\ blockings \in [Units -> Nat] /\ alerted \in [Units -> 0..1]
  /\ \A v \in Units : told[v] + Owed(v) <= blockings[v]

LEMMA CheckStep == CheckInv /\ [ComplianceNext]_complianceVars => CheckInv'
<1> SUFFICES ASSUME CheckInv, [ComplianceNext]_complianceVars PROVE CheckInv'
  OBVIOUS
<1>1. ASSUME UNCHANGED <<told, blockings, alerted, phase, scan>> PROVE CheckInv'
  BY <1>1 DEF CheckInv, Owed
<1>2. CASE UNCHANGED complianceVars
  BY <1>1, <1>2 DEF complianceVars
<1>3. ASSUME NEW d \in DocIds, NEW expiry, updateDocument(d, expiry) PROVE CheckInv'
  BY <1>1, <1>3 DEF updateDocument, EditDocument, jobVars
<1>4. ASSUME NEW d \in DocIds, NEW expiry, NEW v \in Units, createDocument(d, v, expiry) PROVE CheckInv'
  BY <1>1, <1>4 DEF createDocument, EditDocument, jobVars
<1>5. ASSUME NEW d \in DocIds, deleteDocument(d) PROVE CheckInv'
  BY <1>1, <1>5 DEF deleteDocument, EditDocument, jobVars
<1>6. ASSUME NEW v \in Units, deactivateVehicle(v) \/ ServiceFallsDue(v) PROVE CheckInv'
  BY <1>1, <1>6 DEF deactivateVehicle, ServiceFallsDue, jobVars
<1>7. ASSUME UNCHANGED <<told, blockings>>, phase' # "applied", alerted' \in [Units -> 0..1] PROVE CheckInv'
  <2>1. \A v \in Units : Owed(v) \in 0..1
    BY DEF Owed
  <2> QED
    BY <1>7, <2>1 DEF CheckInv, Owed
<1>8. CASE DayBegins
  <2>1. alerted' \in [Units -> 0..1]
    BY <1>8 DEF DayBegins
  <2> QED
    BY <1>7, <1>8, <2>1 DEF DayBegins
<1>9. CASE runDailyComplianceCheck
  BY <1>7, <1>9 DEF runDailyComplianceCheck, CheckInv
<1>10. CASE ApplyStatuses
  <2>1. /\ blockings' = [v \in Units |-> blockings[v] + (IF v \in scan.toBlock THEN 1 ELSE 0)]
        /\ phase = "found" /\ UNCHANGED <<told, alerted, scan>>
    BY <1>10 DEF ApplyStatuses
  <2>2. blockings' \in [Units -> Nat]
    BY <2>1 DEF CheckInv
  <2> QED
    BY <2>1, <2>2 DEF CheckInv, Owed
<1>11. CASE TellBlockings
  <2>1. /\ told' = [v \in Units |-> told[v] + (IF v \in scan.toBlock THEN 1 ELSE 0)]
        /\ phase = "applied" /\ phase' = "told" /\ UNCHANGED <<blockings, alerted, scan>>
    BY <1>11 DEF TellBlockings, TellTo
  <2>2. told' \in [Units -> Nat]
    BY <2>1 DEF CheckInv
  <2> QED
    BY <2>1, <2>2 DEF CheckInv, Owed
<1>12. CASE AlertServices
  <2>1. /\ alerted' = [v \in Units |-> alerted[v] + (IF v \in NotYetAlerted THEN 1 ELSE 0)]
        /\ phase' = "alerted" /\ UNCHANGED <<blockings, told>>
    BY <1>12 DEF AlertServices
  <2>2. alerted' \in [Units -> 0..1]
    BY <2>1 DEF CheckInv, NotYetAlerted
  <2> QED
    BY <1>7, <2>1, <2>2
<1>13. CASE JobEnds \/ JobFails
  BY <1>7, <1>13 DEF JobEnds, JobFails, CheckInv
<1> QED
  BY <1>2, <1>3, <1>4, <1>5, <1>6, <1>8, <1>9, <1>10, <1>11, <1>12, <1>13
     DEF ComplianceNext, JobStep

(* The daily job (jobs/index.ts, blockingService) tells of no blocking that was not       *)
(* written and alerts of a vehicle once a day, for any number of documents and failures.  *)
THEOREM NothingElseIsTold == ComplianceSpec => []ToldWhatHappened
<1>1. ComplianceInit => CheckInv
  BY DEF ComplianceInit, CheckInv, Owed
<1>2. CheckInv => ToldWhatHappened
  <2>1. \A v \in Units : Owed(v) \in 0..1
    BY DEF Owed
  <2> QED
    BY <2>1 DEF CheckInv, ToldWhatHappened
<1> QED
  BY <1>1, <1>2, CheckStep, PTL DEF ComplianceSpec

-----------------------------------------------------------------------------
(* Backups and deployments.                                                           *)
ScriptType == [kind : {"none", "backup", "deploy"},
               pc : {"idle", "stop", "database", "files", "undo", "restore", "migrate", "up"},
               found : SUBSET Services, stopped : SUBSET Services, todo : SUBSET Services,
               failed : BOOLEAN, db : Nat]
StoresType == [db : Nat, files : Nat, schema : Nat, legacy : BOOLEAN]

(* Every container runs or was stopped on purpose, as long as none dies and no drill is   *)
(* made: then the writers stay down from the check to the end of the migration.           *)
Quiet == troubles \cap {"death", "drill"} = {}

QuietInv ==
  /\ Services \subseteq up \cup held /\ drill = NoDrill
  /\ stores.db = stores.files /\ BundleIsOfOneMoment
  /\ script.pc \in {"database", "files", "migrate"} => up \cap Writers = {}
  /\ script.pc = "files" => script.db = stores.db
  /\ stores.schema = 0 => /\ stores.db = 0 /\ up = {} /\ script.found = {}
                          /\ script.stopped = {} /\ script.todo = {}
  /\ script.pc = "migrate" => stores \in newest \/ (stores.schema = 0 /\ ~stores.legacy)

ScriptInv ==
  /\ script \in ScriptType /\ stores \in StoresType
  /\ up \subseteq Services /\ drill \in Writers \cup {NoDrill}
  /\ script.pc = "up" => stores.schema # 0
BackupsInv == ScriptInv /\ (Quiet => QuietInv)

LEMMA FirstIsOneOf ==
  ASSUME NEW order \in {StopOrder, StartOrder}, NEW set \in SUBSET Services, set # {}
  PROVE  FirstOf(order, set) \in set
<1>1. Len(order) = 3 /\ \A s \in Services : order[1] = s \/ order[2] = s \/ order[3] = s
  BY DEF StopOrder, StartOrder, Services
<1>2. \E i \in 1..Len(order) : order[i] \in set /\ \A j \in 1..(i - 1) : order[j] \notin set
  <2>1. CASE order[1] \in set
    BY <1>1, <2>1
  <2>2. CASE order[1] \notin set /\ order[2] \in set
    <3>1. \A j \in 1..(2 - 1) : order[j] \notin set
      BY <2>2
    <3> QED
      BY <1>1, <2>2, <3>1
  <2>3. CASE order[1] \notin set /\ order[2] \notin set
    <3>1. order[3] \in set
      BY <1>1, <2>3
    <3>2. \A j \in 1..(3 - 1) : order[j] \notin set
      BY <2>3
    <3> QED
      BY <1>1, <3>1, <3>2
  <2> QED
    BY <2>1, <2>2, <2>3
<1> QED
  BY <1>2 DEF FirstOf

LEMMA BackupsStart == BackupsInit => BackupsInv
<1> SUFFICES ASSUME BackupsInit PROVE BackupsInv
  OBVIOUS
<1>1. /\ stores \in StoresType /\ stores.db = stores.files
      /\ stores.schema = 0 => stores.db = 0 /\ up = {}
      /\ up \subseteq Services
  <2>1. CASE stores = [db |-> 0, files |-> 0, schema |-> 1, legacy |-> FALSE]
             /\ up \in {Services, Services \ {"worker-python"}}
    BY <2>1 DEF StoresType
  <2>2. CASE up = {} /\ stores \in [db : {0}, files : {0}, schema : {0}, legacy : BOOLEAN]
    BY <2>2 DEF StoresType
  <2> QED
    BY <2>1, <2>2 DEF BackupsInit
<1>2. /\ script \in ScriptType /\ script.pc = "idle" /\ script.found = {} /\ script.stopped = {}
      /\ script.todo = {}
  BY DEF BackupsInit, NoScript, ScriptType
<1>3. newest = {} /\ held = Services \ up /\ drill = NoDrill
  BY DEF BackupsInit
<1> QED
  BY <1>1, <1>2, <1>3 DEF BackupsInv, ScriptInv, QuietInv, BundleIsOfOneMoment

(* A step of the script that neither writes nor starts anything.                        *)
LEMMA ScriptGoesOn ==
  ASSUME BackupsInv, UNCHANGED <<up, held, stores, newest>>, NEW n \in ScriptType, script' = n,
         drill' \in {drill, NoDrill}, troubles \subseteq troubles',
         n.found = script.found \/ n.found = {} \/ n.found = up,
         n.stopped \subseteq script.stopped, n.todo \subseteq script.stopped \cup script.todo,
         n.pc \in {"database", "files"} => up \cap Writers = {}, n.pc = "files" => n.db = stores.db,
         n.pc = "migrate" => stores.schema = 0 /\ ~stores.legacy, n.pc # "up"
  PROVE  BackupsInv'
<1>1. stores.schema = 0 /\ Quiet => up = {} /\ n.found = {} /\ n.stopped = {} /\ n.todo = {}
  BY DEF BackupsInv, QuietInv
<1>2. Quiet /\ n.pc = "migrate" => up \cap Writers = {}
  BY <1>1
<1> QED
  BY <1>1, <1>2 DEF BackupsInv, ScriptInv, Quiet, QuietInv, BundleIsOfOneMoment

LEMMA NoScriptType ==
  /\ NoScript \in ScriptType /\ NoScript.pc = "idle" /\ NoScript.found = {} /\ NoScript.stopped = {}
  /\ NoScript.todo = {}
BY DEF NoScript, ScriptType

LEMMA BackupsStep == BackupsInv /\ [BackupsNext]_backupVars => BackupsInv'
<1> SUFFICES ASSUME BackupsInv, [BackupsNext]_backupVars PROVE BackupsInv'
  OBVIOUS
<1>0. /\ script \in ScriptType /\ stores \in StoresType /\ up \subseteq Services
      /\ drill \in Writers \cup {NoDrill} /\ (script.pc = "up" => stores.schema # 0)
      /\ Quiet => QuietInv
  BY DEF BackupsInv, ScriptInv
<1>d. Writers \subseteq Services
  BY DEF Writers, Services
<1>1. CASE UNCHANGED <<up, held, stores, newest, script, drill, troubles>>
  BY <1>1 DEF BackupsInv, ScriptInv, Quiet, QuietInv, BundleIsOfOneMoment
<1>2. CASE Write
  <2>1. PICK m \in Nat, f \in Nat : m = stores.db + 1 /\ f = stores.files + 1
    BY <1>0 DEF StoresType
  <2>2. stores' = [stores EXCEPT !.db = m, !.files = f] /\ up \cap Writers # {}
        /\ UNCHANGED <<up, held, newest, script, drill, troubles>>
    BY <1>2, <2>1 DEF Write
  <2>3. /\ stores' \in StoresType /\ stores'.db = m /\ stores'.files = f /\ stores'.schema = stores.schema
    BY <1>0, <2>2 DEF StoresType
  <2>4. Quiet => QuietInv'
    BY <1>0, <2>1, <2>2, <2>3 DEF QuietInv, BundleIsOfOneMoment
  <2> QED
    BY <1>0, <2>2, <2>3, <2>4 DEF BackupsInv, ScriptInv, Quiet
<1>t. ASSUME NEW trouble \in {"death", "drill"}, Strikes(trouble), script' = script, stores' = stores, up' \subseteq up,
             drill' \in Writers \cup {NoDrill}
      PROVE  BackupsInv'
  BY <1>0, <1>t DEF Strikes, BackupsInv, ScriptInv, Quiet
<1>3. ASSUME NEW s \in Services, ContainerDies(s) \/ DrillStops(s) PROVE BackupsInv'
  <2>1. CASE ContainerDies(s)
    BY <1>0, <1>t, <2>1 DEF ContainerDies
  <2>2. CASE DrillStops(s)
    BY <1>t, <2>2 DEF DrillStops
  <2> QED
    BY <1>3, <2>1, <2>2
<1>4. ASSUME NEW s \in Services, DockerRestarts(s) PROVE BackupsInv'
  <2>1. ~Quiet /\ UNCHANGED <<stores, script, drill, troubles>> /\ up' \subseteq Services
    BY <1>0, <1>4 DEF DockerRestarts, QuietInv
  <2> QED
    BY <1>0, <2>1 DEF BackupsInv, ScriptInv, Quiet
<1>5. ASSUME NEW s \in Services, OperatorStarts(s) PROVE BackupsInv'
  <2>1. /\ script = NoScript /\ stores.schema # 0 /\ up' = up \cup {s} /\ held' = held \ {s}
        /\ UNCHANGED <<stores, newest, script, drill, troubles>>
    BY <1>5 DEF OperatorStarts
  <2>2. Quiet => QuietInv'
    BY <1>0, <2>1, NoScriptType DEF QuietInv, BundleIsOfOneMoment
  <2> QED
    BY <1>0, <2>1, <2>2 DEF BackupsInv, ScriptInv, Quiet
<1>6. ASSUME NEW kind \in {"backup", "deploy"}, Begin(kind) PROVE BackupsInv'
  <2>1. PICK pc \in {"migrate", "stop"} :
          /\ script' = [NoScript EXCEPT !.kind = kind, !.found = up, !.pc = pc]
          /\ pc = "migrate" => FirstDeploy
    BY <1>6 DEF Begin
  <2> DEFINE n == [NoScript EXCEPT !.kind = kind, !.found = up, !.pc = pc]
  <2>2. n \in ScriptType /\ n.found = up /\ n.stopped = {} /\ n.todo = {} /\ n.pc = pc
    BY <1>0 DEF NoScript, ScriptType
  <2>3. UNCHANGED <<up, held, stores, newest, drill, troubles>>
    BY <1>6 DEF Begin
  <2>4. script' = n
    BY <2>1
  <2> HIDE DEF n
  <2> QED
    BY <2>1, <2>2, <2>3, <2>4, ScriptGoesOn DEF FirstDeploy
<1>7. CASE StopNext
  <2> DEFINE left == script.found \ script.stopped
             s == FirstOf(StopOrder, left)
  <2>1. s \in left /\ left \in SUBSET Services
    <3>1. left \in SUBSET Services /\ left # {}
      BY <1>0, <1>7 DEF StopNext, ScriptType
    <3> HIDE DEF left
    <3> QED
      BY <3>1, FirstIsOneOf
  <2>2. /\ script.pc = "stop" /\ UNCHANGED <<stores, newest, drill, troubles>>
        /\ \/ /\ up' = up \ {s} /\ held' = held \cup {s}
              /\ script' = [script EXCEPT !.stopped = @ \cup {s}]
           \/ /\ UNCHANGED <<up, held>>
              /\ script' = [script EXCEPT !.stopped = @ \cup {s}, !.pc = "undo", !.todo = script.stopped \cup {s}]
    BY <1>7 DEF StopNext
  <2> HIDE DEF s
  <2>3. PICK stopped \in SUBSET Services : stopped = script.stopped \cup {s}
    BY <1>0, <2>1 DEF ScriptType
  <2>4. /\ script' \in ScriptType /\ script'.pc \in {"stop", "undo"} /\ script'.found = script.found
        /\ script.found # {}
    <3>1. \/ script' = [script EXCEPT !.stopped = stopped]
          \/ script' = [script EXCEPT !.stopped = stopped, !.pc = "undo", !.todo = stopped]
      BY <1>0, <2>2, <2>3 DEF ScriptType
    <3> QED
      BY <1>0, <2>1, <2>2, <3>1, ZenonT(40) DEF ScriptType
  <2>6. Quiet => QuietInv'
    BY <1>0, <2>2, <2>4 DEF QuietInv, BundleIsOfOneMoment
  <2> QED
    BY <1>0, <2>2, <2>4, <2>6 DEF BackupsInv, ScriptInv, Quiet
<1>g. ASSUME NEW pc \in {"database", "files", "undo", "restore", "migrate", "up"}, NEW todo \in SUBSET Services
      PROVE  LET n == [script EXCEPT !.pc = pc, !.todo = todo]
             IN  /\ n \in ScriptType /\ n.pc = pc /\ n.todo = todo /\ n.found = script.found
                 /\ n.stopped = script.stopped /\ n.db = script.db
  BY <1>0 DEF ScriptType
<1>h. ASSUME NEW pc \in {"database", "files", "undo", "restore", "migrate", "up"}
      PROVE  LET n == [script EXCEPT !.pc = pc]
             IN  /\ n \in ScriptType /\ n.pc = pc /\ n.todo = script.todo /\ n.found = script.found
                 /\ n.stopped = script.stopped /\ n.db = script.db
  BY <1>0 DEF ScriptType
<1>s. script.stopped \in SUBSET Services /\ script.db \in Nat /\ script.todo \in SUBSET Services
  BY <1>0 DEF ScriptType
<1>u. ASSUME UNCHANGED <<up, held, stores, newest, drill, troubles>>,
             script' = [script EXCEPT !.pc = "undo", !.todo = script.stopped]
      PROVE  BackupsInv'
  <2> DEFINE n == [script EXCEPT !.pc = "undo", !.todo = script.stopped]
  <2>1. /\ n \in ScriptType /\ n.pc = "undo" /\ n.todo = script.stopped /\ n.found = script.found
        /\ n.stopped = script.stopped
    BY <1>g, <1>s
  <2>2. script' = n
    BY <1>u
  <2> HIDE DEF n
  <2> QED
    BY <1>u, <2>1, <2>2, ScriptGoesOn

<1>8. CASE CheckWriters
  <2>1. CASE up \cap Writers = {}
    <3>1. script' = [script EXCEPT !.pc = "database"] /\ UNCHANGED <<up, held, stores, newest, drill, troubles>>
      BY <1>8, <2>1 DEF CheckWriters, Goto
    <3> QED
      BY <1>h, <2>1, <3>1, ScriptGoesOn
  <2>2. CASE up \cap Writers # {}
    BY <1>8, <1>u, <2>2 DEF CheckWriters, Undo
  <2> QED
    BY <2>1, <2>2
<1>w. script.pc \in {"database", "files", "migrate"} /\ Quiet => up \cap Writers = {}
  BY <1>0 DEF QuietInv
<1>v. ASSUME UNCHANGED <<up, held, stores, newest, drill, troubles>>, NEW n \in ScriptType, script' = n,
             n.found = script.found, n.stopped = script.stopped, n.todo = script.todo,
             Quiet /\ n.pc \in {"database", "files"} => up \cap Writers = {},
             n.pc = "files" => n.db = stores.db, n.pc \notin {"migrate", "up"}
      PROVE  BackupsInv'
  BY <1>0, <1>v DEF BackupsInv, ScriptInv, Quiet, QuietInv, BundleIsOfOneMoment
<1>9. CASE DumpDatabase
  <2>1. PICK m \in Nat : m = stores.db
    BY <1>0 DEF StoresType
  <2>2. script.pc = "database" /\ script' = [script EXCEPT !.pc = "files", !.db = m]
        /\ UNCHANGED <<up, held, stores, newest, drill, troubles>>
    BY <1>9, <2>1 DEF DumpDatabase
  <2> DEFINE n == [script EXCEPT !.pc = "files", !.db = m]
  <2>3. /\ n \in ScriptType /\ n.pc = "files" /\ n.todo = script.todo /\ n.found = script.found
        /\ n.stopped = script.stopped /\ n.db = m
    BY <1>0 DEF ScriptType
  <2>4. script' = n
    BY <2>2
  <2> HIDE DEF n
  <2> QED
    BY <1>v, <1>w, <2>1, <2>2, <2>3, <2>4
<1>10. CASE PublishBundle
  <2>1. /\ script.pc = "files" /\ newest' = {[stores EXCEPT !.db = script.db]}
        /\ UNCHANGED <<up, held, stores, drill, troubles>>
        /\ \/ script' = [script EXCEPT !.pc = "migrate"]
           \/ script' = [script EXCEPT !.pc = "restore", !.todo = script.stopped]
    BY <1>10 DEF PublishBundle, Goto
  <2>2. /\ script' \in ScriptType /\ script'.pc \in {"migrate", "restore"} /\ script'.found = script.found
        /\ script'.stopped = script.stopped /\ script'.todo \in {script.todo, script.stopped}
    <3>1. CASE script' = [script EXCEPT !.pc = "migrate"]
      BY <1>h, <3>1
    <3>2. CASE script' = [script EXCEPT !.pc = "restore", !.todo = script.stopped]
      BY <1>g, <1>s, <3>2
    <3> QED
      BY <2>1, <3>1, <3>2
  <2>3. Quiet => newest' = {stores}
    <3>1. Quiet => script.db = stores.db
      BY <1>0, <2>1 DEF QuietInv
    <3>2. [stores EXCEPT !.db = stores.db] = stores
      BY <1>0 DEF StoresType
    <3> QED
      BY <2>1, <3>1, <3>2
  <2>4. Quiet => QuietInv'
    BY <1>0, <2>1, <2>2, <2>3 DEF QuietInv, BundleIsOfOneMoment
  <2> QED
    BY <1>0, <2>1, <2>2, <2>4 DEF BackupsInv, ScriptInv, Quiet
<1>11. CASE SnapshotFails
  BY <1>11, <1>u DEF SnapshotFails, Undo
<1>12. ASSUME NEW works \in BOOLEAN, StartNext(works) PROVE BackupsInv'
  <2> DEFINE s == FirstOf(StartOrder, script.todo)
  <2>1. s \in Services /\ script.todo # {}
    BY <1>12, <1>s, FirstIsOneOf DEF StartNext
  <2>2. /\ script.pc \in {"restore", "undo"} /\ UNCHANGED <<stores, newest, drill, troubles>>
        /\ \/ up' = up \cup {s} /\ held' = held \ {s}
           \/ UNCHANGED <<up, held>>
        /\ script' = [script EXCEPT !.todo = @ \ {s}, !.failed = @ \/ ~ works]
    BY <1>12 DEF StartNext
  <2> HIDE DEF s
  <2>3. PICK todo \in SUBSET Services, failed \in BOOLEAN :
          script' = [script EXCEPT !.todo = todo, !.failed = failed]
    <3>1. script.todo \ {s} \in SUBSET Services
      BY <1>s
    <3> QED
      BY <2>2, <3>1
  <2>4. script' \in ScriptType /\ script'.pc = script.pc /\ script'.stopped = script.stopped
        /\ script'.found = script.found
    BY <1>0, <2>3 DEF ScriptType
  <2>5. Quiet => QuietInv'
    BY <1>0, <2>1, <2>2, <2>4 DEF QuietInv, BundleIsOfOneMoment
  <2> QED
    BY <1>0, <2>1, <2>2, <2>4, <2>5 DEF BackupsInv, ScriptInv, Quiet
<1>n. ASSUME UNCHANGED <<up, held, stores, newest>>, script' = NoScript, drill' \in {drill, NoDrill},
             troubles \subseteq troubles'
      PROVE  BackupsInv'
  BY <1>n, NoScriptType, ScriptGoesOn
<1>13. CASE RestoreEnds
  <2>1. CASE script.pc = "restore" /\ script.failed
    <3>1. script' = [script EXCEPT !.pc = "undo", !.todo = script.stopped, !.failed = FALSE]
          /\ UNCHANGED <<up, held, stores, newest, drill, troubles>>
      BY <1>13, <2>1 DEF RestoreEnds
    <3> DEFINE n == [script EXCEPT !.pc = "undo", !.todo = script.stopped, !.failed = FALSE]
    <3>2. /\ n \in ScriptType /\ n.pc = "undo" /\ n.todo = script.stopped /\ n.found = script.found
          /\ n.stopped = script.stopped
      BY <1>0, <1>s DEF ScriptType
    <3>3. script' = n
      BY <3>1
    <3> HIDE DEF n
    <3> QED
      BY <3>1, <3>2, <3>3, ScriptGoesOn
  <2>2. CASE ~(script.pc = "restore" /\ script.failed)
    BY <1>13, <1>n, <2>2 DEF RestoreEnds
  <2> QED
    BY <2>1, <2>2
<1>14. CASE Migrate
  <2>1. /\ script.pc = "migrate" /\ script' = [script EXCEPT !.pc = "up"]
        /\ UNCHANGED <<up, held, newest, drill, troubles>>
        /\ IF stores.schema < MaxSchema
           THEN stores' = [stores EXCEPT !.schema = @ + 1] ELSE stores' = stores
    BY <1>14 DEF Migrate, Goto
  <2>2. script' \in ScriptType /\ script'.pc = "up"
    BY <1>h, <2>1
  <2>3. PICK m \in Nat : m = stores.schema + 1 /\ m # 0
    BY <1>0 DEF StoresType
  <2>4. stores' \in StoresType /\ stores'.schema # 0 /\ stores'.db = stores.db /\ stores'.files = stores.files
    <3>1. CASE stores.schema < MaxSchema
      <4>1. stores' = [stores EXCEPT !.schema = m]
        BY <2>1, <2>3, <3>1
      <4> QED
        BY <1>0, <2>3, <4>1 DEF StoresType
    <3>2. CASE ~(stores.schema < MaxSchema)
      <4>1. stores.schema # 0
        BY <3>2, BackupConstants
      <4> QED
        BY <1>0, <2>1, <3>2, <4>1
    <3> QED
      BY <3>1, <3>2
  <2>5. Quiet => QuietInv'
    BY <1>0, <2>1, <2>2, <2>4 DEF QuietInv, BundleIsOfOneMoment
  <2> QED
    BY <1>0, <2>1, <2>2, <2>4, <2>5 DEF BackupsInv, ScriptInv, Quiet
<1>15. CASE MigrationFails
  BY <1>15, <1>n DEF MigrationFails
<1>16. CASE ComposeUp
  <2>1. PICK started \in SUBSET Services : up' = up \cup started /\ held' = held \ started
    BY <1>16 DEF ComposeUp
  <2>2. script.pc = "up" /\ script' = NoScript /\ UNCHANGED <<stores, newest, drill, troubles>>
    BY <1>16 DEF ComposeUp
  <2>3. Quiet => QuietInv'
    BY <1>0, <2>1, <2>2, NoScriptType DEF QuietInv, BundleIsOfOneMoment
  <2> QED
    BY <1>0, <2>1, <2>2, <2>3, NoScriptType DEF BackupsInv, ScriptInv, Quiet
<1>17. CASE HostCrashes
  BY <1>17, <1>n DEF HostCrashes, Strikes
<1>18. CASE Tick
  BY <1>1, <1>18 DEF Tick
<1>19. CASE DrillRestores
  <2>1. ~Quiet /\ UNCHANGED <<stores, script, troubles>> /\ drill' = NoDrill /\ up' \subseteq Services
    BY <1>0, <1>d, <1>19 DEF DrillRestores, QuietInv
  <2> QED
    BY <1>0, <2>1 DEF BackupsInv, ScriptInv, Quiet
<1> QED
  BY <1>1, <1>2, <1>3, <1>4, <1>5, <1>6, <1>7, <1>8, <1>9, <1>10, <1>11, <1>12, <1>13,
     <1>14, <1>15, <1>16,
     <1>17, <1>18, <1>19 DEF BackupsNext, ScriptStep, backupVars

(* While no container dies and no drill meets a script, a published bundle is of one       *)
(* moment, and the database is migrated only when the newest bundle holds all there is, or *)
(* nothing is there at all: backup.sh and the guard of the deployment, whatever fails.     *)
THEOREM BackupBeforeMigration == BackupsSpec => []MigratesWithBackup
<1>1. BackupsInv => MigratesWithBackup
  <2> SUFFICES ASSUME BackupsInv, Quiet PROVE MigratesWithBackup
    BY DEF MigratesWithBackup, Quiet
  <2>1. QuietInv /\ stores \in StoresType
    BY DEF BackupsInv, ScriptInv
  <2>2. stores.schema = 0 /\ ~stores.legacy => stores = [db |-> 0, files |-> 0, schema |-> 0, legacy |-> FALSE]
    BY <2>1 DEF QuietInv, StoresType
  <2> QED
    BY <2>1, <2>2 DEF MigratesWithBackup, QuietInv
<1> QED
  BY <1>1, BackupsStart, BackupsStep, PTL DEF BackupsSpec

-----------------------------------------------------------------------------
(* The rows of an import.  Numbers grow: a value in use gets "DUP" and the row behind it. *)
Fields == {"economicNumber", "plate", "vin", "isActive", "version", "author"}
Numbers == EconomicNumbers \cup Plates \cup Vins \cup {Missing} \cup ({"SIN ECO", "SIN PLACA"} \X Nat)
Values == Numbers \cup (Numbers \X {"DUP"} \X Nat) \cup BOOLEAN \cup Nat \cup {"before", "admin", "import", "nobody"}
Rows == [Fields -> Values]

(* What the import knows of a vehicle: unless somebody has written it since, each of its   *)
(* identifiers, or nothing in its place.                                                  *)
Knows(known, row) ==
  /\ known.version \in Nat /\ known.version <= row.version
  /\ row.author = "admin" => known.version < row.version
  /\ known.version = row.version => \A i \in Identifiers : known[i] \in {Missing, row[i]}

ImportInv ==
  /\ vehicles \in Seq(Rows) /\ file \in Seq(SheetRow) /\ done \in 0..Len(file)
  /\ \A v \in Ids : vehicles[v].version \in Nat \ {0}
  /\ ~Loaded => \A v \in Ids : vehicles[v].author = "before"
  /\ Loaded => lookup \in Seq(Rows) /\ Len(lookup) = Len(vehicles)
  /\ Loaded => \A v \in Ids : Knows(lookup[v], vehicles[v])

LEMMA VehicleIsRow ==
  ASSUME NEW e \in Values, NEW p \in Values, NEW x \in Values, NEW a \in BOOLEAN, NEW n \in Nat,
         NEW who \in {"before", "admin", "import", "nobody"}
  PROVE  /\ Vehicle(e, p, x, a, n, who) \in Rows
         /\ Vehicle(e, p, x, a, n, who).version = n /\ Vehicle(e, p, x, a, n, who).author = who
         /\ Vehicle(e, p, x, a, n, who).isActive = a
<1>1. a \in Values /\ n \in Values /\ who \in Values
  BY DEF Values
<1> QED
  BY <1>1 DEF Vehicle, Rows, Fields

LEMMA MissingIsValue == Missing \in Values /\ Missing \in Numbers
BY DEF Values, Numbers

LEMMA NotReadIsRow == NotRead \in Rows /\ NotRead.version = 0
<1>1. 0 \in Nat /\ "nobody" \in {"before", "admin", "import", "nobody"} /\ Missing \in Values
  BY MissingIsValue
<1>2. \A t \in BOOLEAN : /\ Vehicle(Missing, Missing, Missing, t, 0, "nobody") \in Rows
                        /\ Vehicle(Missing, Missing, Missing, t, 0, "nobody").version = 0
  BY <1>1, VehicleIsRow
<1>3. TRUE \in BOOLEAN
  OBVIOUS
<1>4. /\ Vehicle(Missing, Missing, Missing, TRUE, 0, "nobody") \in Rows
      /\ Vehicle(Missing, Missing, Missing, TRUE, 0, "nobody").version = 0
  BY ONLY <1>2, <1>3, Zenon
<1> QED
  BY <1>4 DEF NotRead

(* The sequences, place by place.                                                        *)
LEMMA SameLengthRows ==
  ASSUME NEW s \in Seq(Rows), NEW f, f = [v \in DOMAIN s |-> f[v]], \A v \in DOMAIN s : f[v] \in Rows
  PROVE  f \in Seq(Rows) /\ Len(f) = Len(s) /\ DOMAIN f = DOMAIN s
<1>1. DOMAIN s = 1..Len(s) /\ Len(s) \in Nat
  OBVIOUS
<1>2. f \in [1..Len(s) -> Rows]
  BY <1>1
<1> QED
  BY <1>1, <1>2

LEMMA ImportStarts == ImportInit => ImportInv
<1> SUFFICES ASSUME ImportInit PROVE ImportInv
  OBVIOUS
<1>1. vehicles \in Seq(RegistryRow) /\ file \in Seq(SheetRow) /\ done = 0 /\ lookup = <<>>
  BY ImportConstants DEF ImportInit
<1>2. ASSUME NEW r \in RegistryRow
      PROVE  r \in Rows /\ r.version \in Nat \ {0} /\ r.author = "before"
  <2>1. /\ r.economicNumber \in Values /\ r.plate \in Values /\ r.vin \in Values
        /\ r.isActive \in BOOLEAN /\ r.version \in Nat \ {0} /\ r.author = "before"
    BY DEF RegistryRow, Values, Numbers
  <2>2. r = Vehicle(r.economicNumber, r.plate, r.vin, r.isActive, r.version, r.author)
    BY DEF RegistryRow, Vehicle
  <2> QED
    BY <2>1, <2>2, VehicleIsRow
<1>3. \A v \in Ids : vehicles[v] \in RegistryRow
  BY <1>1 DEF Ids
<1>4. vehicles \in Seq(Rows)
  <2>1. DOMAIN vehicles = 1..Len(vehicles) /\ Len(vehicles) \in Nat /\ vehicles = [v \in 1..Len(vehicles) |-> vehicles[v]]
    BY <1>1
  <2>2. \A v \in 1..Len(vehicles) : vehicles[v] \in Rows
    BY <1>2, <1>3, <2>1 DEF Ids
  <2>3. vehicles \in [1..Len(vehicles) -> Rows]
    BY <2>1, <2>2
  <2> QED
    BY <2>1, <2>3
<1> QED
  BY <1>1, <1>2, <1>3, <1>4 DEF ImportInv, Loaded

(* What a row writes.                                                                     *)
LEMMA Cells ==
  ASSUME file \in Seq(SheetRow), done \in 0..Len(file), done < Len(file)
  PROVE  /\ Row["economicNumber"] \in Numbers /\ Row["plate"] \in Numbers /\ Row["vin"] \in Numbers
         /\ Row.economicNumber = Row["economicNumber"] /\ done + 1 \in Nat
<1>1. done + 1 \in DOMAIN file /\ done + 1 \in Nat
  OBVIOUS
<1>2. Row \in SheetRow
  BY <1>1 DEF Row
<1> QED
  BY <1>1, <1>2 DEF SheetRow, Numbers

LEMMA DisambiguatedIsValue ==
  ASSUME NEW i, NEW value \in Numbers, NEW own, done + 1 \in Nat
  PROVE  Disambiguated(i, value, own) \in Values
<1>1. PICK n \in Nat : n = done + 1
  OBVIOUS
<1>2. <<value, "DUP", n>> \in Numbers \X {"DUP"} \X Nat
  OBVIOUS
<1>3. <<value, "DUP", done + 1>> \in Values
  BY <1>1, <1>2 DEF Values
<1>4. value \in Values /\ Missing \in Values
  BY MissingIsValue DEF Values
<1> QED
  BY <1>3, <1>4 DEF Disambiguated

LEMMA CreatedIsRow ==
  ASSUME file \in Seq(SheetRow), done \in 0..Len(file), done < Len(file)
  PROVE  Created \in Rows /\ Created.version = 1 /\ Created.author = "import"
<1>1. PICK n \in Nat : n = done + 1
  BY Cells
<1>2. Placeholder("SIN ECO") \in Numbers /\ Placeholder("SIN PLACA") \in Numbers
  <2>1. <<"SIN ECO", n>> \in {"SIN ECO", "SIN PLACA"} \X Nat /\ <<"SIN PLACA", n>> \in {"SIN ECO", "SIN PLACA"} \X Nat
    OBVIOUS
  <2> QED
    BY <1>1, <2>1 DEF Placeholder, Numbers
<1>3. OrPlaceholder("SIN ECO", Row.economicNumber) \in Numbers /\ OrPlaceholder("SIN PLACA", Row.plate) \in Numbers
  BY <1>2, Cells DEF OrPlaceholder
<1>4. Row.vin \in Numbers /\ done + 1 \in Nat
  BY Cells
<1>5. PICK e \in Values, p \in Values, x \in Values, a \in BOOLEAN :
        Created = Vehicle(e, p, x, a, 1, "import")
  BY <1>3, <1>4, DisambiguatedIsValue DEF Created
<1> QED
  BY <1>5, VehicleIsRow, SMTT(30)

LEMMA UpdatedIsRow ==
  ASSUME file \in Seq(SheetRow), done \in 0..Len(file), done < Len(file),
         NEW v, vehicles[v] \in Rows, vehicles[v].version \in Nat
  PROVE  /\ Updated(v) \in Rows /\ Updated(v).version = vehicles[v].version + 1 /\ Updated(v).author = "import"
         /\ Updated(v).isActive = IF Removes(v) THEN FALSE ELSE vehicles[v].isActive
<1> DEFINE r == vehicles[v]
           e == IF Row.economicNumber = Missing THEN r.economicNumber ELSE Row.economicNumber
           p == IF Row.plate = Missing THEN r.plate ELSE Disambiguated("plate", Row.plate, {v})
           x == Disambiguated("vin", Row.vin, {v})
           a == IF Removes(v) THEN FALSE ELSE r.isActive
           n == r.version + 1
<1>1. Updated(v) = [r EXCEPT !.economicNumber = e, !.plate = p, !.vin = x, !.isActive = a, !.version = n,
                             !.author = "import"]
  BY DEF Updated
<1>2. r \in [Fields -> Values] /\ n \in Nat
  BY DEF Rows
<1>3. r["economicNumber"] \in Values /\ r["plate"] \in Values /\ r["isActive"] \in Values
  BY <1>2 DEF Fields
<1>4. e \in Values /\ p \in Values /\ x \in Values
  <2>1. Row.economicNumber \in Values
    BY Cells DEF Values
  <2>2. Disambiguated("plate", Row.plate, {v}) \in Values /\ Disambiguated("vin", Row.vin, {v}) \in Values
    BY Cells, DisambiguatedIsValue
  <2> QED
    BY <1>3, <2>1, <2>2
<1>5. FALSE \in Values
  BY DEF Values
<1>6. a \in Values /\ n \in Values /\ "import" \in Values
  <2>1. n \in Values /\ "import" \in Values
    BY <1>2 DEF Values
  <2> QED
    BY <1>3, <1>5, <2>1
<1> HIDE DEF r, e, p, x, a, n
<1>7. /\ Updated(v) \in [Fields -> Values] /\ Updated(v).version = n /\ Updated(v).author = "import"
      /\ Updated(v).isActive = a
  BY <1>1, <1>2, <1>4, <1>6, ZenonT(40) DEF Fields
<1> QED
  BY <1>7 DEF r, a, n, Rows

(* Writing a vehicle takes its identifiers from what is known of the others.               *)
LEMMA IndexedKnows ==
  ASSUME NEW new, NEW known \in Rows, NEW row, Knows(known, row)
  PROVE  WithoutKeysOf(new, known) \in Rows /\ Knows(WithoutKeysOf(new, known), row)
<1> DEFINE w == WithoutKeysOf(new, known)
<1>1. DOMAIN known = Fields /\ Missing \in Values
  BY MissingIsValue DEF Rows
<1>2. w = [i \in Fields |-> IF i \in Identifiers /\ known[i] = new[i] THEN Missing ELSE known[i]]
  BY <1>1 DEF WithoutKeysOf
<1>3. w \in Rows
  BY <1>1, <1>2 DEF Rows
<1>4. w["version"] = known["version"] /\ \A i \in Identifiers : w[i] \in {Missing, known[i]}
  BY <1>2 DEF Fields, Identifiers
<1> HIDE DEF w
<1>5. w.version = known.version
  BY <1>4
<1>6. Knows(w, row)
  BY <1>4, <1>5 DEF Knows
<1> QED
  BY <1>3, <1>6 DEF w

LEMMA WithoutKeysIsRow == ASSUME NEW new, NEW known \in Rows PROVE WithoutKeysOf(new, known) \in Rows
<1>1. DOMAIN known = Fields /\ Missing \in Values
  BY MissingIsValue DEF Rows
<1>2. WithoutKeysOf(new, known) = [i \in Fields |-> IF i \in Identifiers /\ known[i] = new[i] THEN Missing ELSE known[i]]
  BY <1>1 DEF WithoutKeysOf
<1> QED
  BY <1>1, <1>2 DEF Rows

LEMMA IndexedIsRows ==
  ASSUME lookup \in Seq(Rows), NEW k \in 1..(Len(lookup) + 1), NEW new \in Rows
  PROVE  /\ indexExistingVehicle(k, new) \in Seq(Rows)
         /\ Len(indexExistingVehicle(k, new)) = IF k = Len(lookup) + 1 THEN Len(lookup) + 1 ELSE Len(lookup)
         /\ indexExistingVehicle(k, new)[k] = new
         /\ \A u \in 1..Len(lookup) : u # k => indexExistingVehicle(k, new)[u] = WithoutKeysOf(new, lookup[u])
<1> DEFINE after == indexExistingVehicle(k, new)
           n == IF k = Len(lookup) + 1 THEN Len(lookup) + 1 ELSE Len(lookup)
<1>1. n \in Nat /\ DOMAIN lookup \cup {k} = 1..n /\ DOMAIN lookup = 1..Len(lookup)
  OBVIOUS
<1>2. after = [u \in 1..n |-> IF u = k THEN new ELSE WithoutKeysOf(new, lookup[u])]
  BY <1>1 DEF indexExistingVehicle
<1>3. ASSUME NEW u \in 1..n, u # k PROVE WithoutKeysOf(new, lookup[u]) \in Rows
  <2>1. lookup[u] \in Rows
    BY <1>1, <1>3
  <2> QED
    BY <2>1, WithoutKeysIsRow
<1> HIDE DEF after, n
<1>4. after \in [1..n -> Rows]
  BY <1>2, <1>3
<1>5. after \in Seq(Rows) /\ Len(after) = n
  BY <1>1, <1>4
<1>6. k \in 1..n /\ \A u \in 1..Len(lookup) : u \in 1..n
  BY DEF n
<1>7. after[k] = new /\ \A u \in 1..Len(lookup) : u # k => after[u] = WithoutKeysOf(new, lookup[u])
  BY <1>2, <1>6
<1> QED
  BY <1>5, <1>7 DEF after, n

LEMMA NonemptyRows == ASSUME NEW s \in Seq(Rows) PROVE (s # <<>>) <=> Len(s) > 0
OBVIOUS

(* What a step may do to the vehicles, as EditsSurvive has it.                             *)
EditsKept ==
  \A v \in Ids :
    /\ vehicles'[v].isActive => vehicles[v].isActive
    /\ vehicles[v].author = "admin" /\ vehicles'[v].author = "import" => ~vehicles'[v].isActive
    /\ vehicles'[v] # vehicles[v] /\ vehicles'[v].author = "import" /\ ~(Removes(v)) =>
         Cardinality(SharesWith(Row, vehicles[v])) >= 2

LEMMA UntouchedIsKept == ASSUME \A v \in Ids : vehicles'[v] = vehicles[v] PROVE EditsKept
<1> SUFFICES ASSUME NEW v \in Ids, vehicles'[v] = vehicles[v]
             PROVE  /\ vehicles'[v].isActive => vehicles[v].isActive
                    /\ ~(vehicles[v].author = "admin" /\ vehicles'[v].author = "import")
  BY DEF EditsKept
<1> QED
  OBVIOUS

LEMMA ReadingIsTrue == ASSUME ImportInv, preloadExistingVehicles PROVE ImportInv' /\ EditsKept
<1>1. /\ ~Loaded /\ UNCHANGED <<vehicles, file, done>>
      /\ lookup' = [v \in Ids |-> IF \E n \in DOMAIN file : SharesWith(file[n], vehicles[v]) # {}
                                    THEN vehicles[v] ELSE NotRead]
  BY DEF preloadExistingVehicles
<1>2. /\ vehicles \in Seq(Rows) /\ Ids = 1..Len(vehicles) /\ Len(vehicles) \in Nat
      /\ \A v \in Ids : vehicles[v] \in Rows /\ vehicles[v].version \in Nat \ {0} /\ vehicles[v].author = "before"
  BY <1>1 DEF ImportInv, Ids
<1>3. \A v \in Ids : lookup'[v] \in {vehicles[v], NotRead}
  BY <1>1
<1>4. lookup' \in [1..Len(vehicles) -> Rows]
  BY <1>1, <1>2, NotReadIsRow
<1>5. lookup' \in Seq(Rows) /\ Len(lookup') = Len(vehicles)
  BY <1>2, <1>4
<1>6. ASSUME NEW v \in Ids PROVE Knows(lookup'[v], vehicles[v])
  <2>1. CASE lookup'[v] = vehicles[v]
    BY <1>2, <2>1 DEF Knows
  <2>2. CASE lookup'[v] = NotRead
    BY <1>2, <2>2, NotReadIsRow DEF Knows
  <2> QED
    BY <1>3, <2>1, <2>2
<1>7. Ids' = Ids /\ vehicles' = vehicles /\ file' = file /\ done' = done
  BY <1>1 DEF Ids
<1>8. ImportInv'
  BY <1>2, <1>5, <1>6, <1>7 DEF ImportInv, Loaded
<1> QED
  BY <1>7, <1>8, UntouchedIsKept

(* A row that finds no vehicle writes a new one behind the others.                         *)
LEMMA CreatingKeeps ==
  ASSUME ImportInv, Loaded, done < Len(file), safeCreate, UNCHANGED file, done' = done + 1
  PROVE  ImportInv' /\ EditsKept
<1> DEFINE k == Len(lookup) + 1
<1>1. /\ vehicles \in Seq(Rows) /\ lookup \in Seq(Rows) /\ Len(lookup) = Len(vehicles) /\ Len(vehicles) \in Nat
      /\ Ids = 1..Len(vehicles) /\ file \in Seq(SheetRow) /\ done \in 0..Len(file) /\ Len(lookup) > 0
      /\ \A v \in Ids : lookup[v] \in Rows /\ vehicles[v].version \in Nat \ {0} /\ Knows(lookup[v], vehicles[v])
  BY NonemptyRows DEF ImportInv, Ids, Loaded
<1>2. Created \in Rows /\ Created.version = 1 /\ Created.author = "import"
  BY <1>1, CreatedIsRow
<1>3. vehicles' = Append(vehicles, Created) /\ lookup' = indexExistingVehicle(k, Created)
  BY DEF safeCreate
<1>4. /\ vehicles' \in Seq(Rows) /\ Len(vehicles') = k /\ vehicles'[k] = Created /\ Ids' = 1..k
      /\ \A v \in Ids : vehicles'[v] = vehicles[v]
  BY <1>1, <1>2, <1>3 DEF Ids
<1>5. /\ lookup' \in Seq(Rows) /\ Len(lookup') = k /\ lookup'[k] = Created
      /\ \A u \in Ids : lookup'[u] = WithoutKeysOf(Created, lookup[u])
  <2>1. k \in 1..(Len(lookup) + 1) /\ \A u \in Ids : u # k /\ u \in 1..Len(lookup)
    BY <1>1
  <2>2. /\ indexExistingVehicle(k, Created) \in Seq(Rows) /\ indexExistingVehicle(k, Created)[k] = Created
        /\ Len(indexExistingVehicle(k, Created)) = k
        /\ \A u \in 1..Len(lookup) : u # k => indexExistingVehicle(k, Created)[u] = WithoutKeysOf(Created, lookup[u])
    BY <1>1, <1>2, <2>1, IndexedIsRows
  <2> QED
    BY <1>3, <2>1, <2>2
<1>6. ASSUME NEW v \in Ids' PROVE vehicles'[v].version \in Nat \ {0}
  <2>1. CASE v = k
    BY <1>2, <1>4, <2>1
  <2>2. CASE v # k
    <3>1. v \in Ids
      BY <1>1, <1>4, <2>2
    <3>2. vehicles'[v] = vehicles[v]
      BY <1>4, <3>1
    <3> QED
      BY <1>1, <3>1, <3>2
  <2> QED
    BY <2>1, <2>2
<1>7. ASSUME NEW v \in Ids' PROVE Knows(lookup'[v], vehicles'[v])
  <2>1. CASE v = k
    BY <1>2, <1>4, <1>5, <2>1 DEF Knows
  <2>2. CASE v # k
    <3>1. v \in Ids
      BY <1>1, <1>4, <2>2
    <3> QED
      BY <1>1, <1>4, <1>5, <3>1, IndexedKnows
  <2> QED
    BY <2>1, <2>2
<1>8. lookup' # <<>> /\ file' \in Seq(SheetRow) /\ done' \in 0..Len(file')
  BY <1>1, <1>5, NonemptyRows
<1>9. ImportInv'
  BY <1>4, <1>5, <1>6, <1>7, <1>8 DEF ImportInv, Loaded
<1> QED
  BY <1>4, <1>9, UntouchedIsKept

(* A row that finds a vehicle changes the one it has read, as it has read it.               *)
LEMMA UpdatingKeeps ==
  ASSUME ImportInv, Loaded, done < Len(file), NEW v \in Existing, safeUpdate(v), UNCHANGED file, done' = done + 1
  PROVE  ImportInv' /\ EditsKept
<1>1. /\ vehicles \in Seq(Rows) /\ lookup \in Seq(Rows) /\ Len(lookup) = Len(vehicles) /\ Len(vehicles) \in Nat
      /\ Ids = 1..Len(vehicles) /\ file \in Seq(SheetRow) /\ done \in 0..Len(file) /\ Len(lookup) > 0
      /\ \A u \in Ids : /\ vehicles[u] \in Rows /\ lookup[u] \in Rows
                        /\ vehicles[u].version \in Nat \ {0} /\ Knows(lookup[u], vehicles[u])
  BY NonemptyRows DEF ImportInv, Ids, Loaded
<1>2. v \in Ids /\ v \in 1..(Len(lookup) + 1) /\ v # Len(lookup) + 1
  BY <1>1 DEF Existing
<1>3. /\ Updated(v) \in Rows /\ Updated(v).version = vehicles[v].version + 1 /\ Updated(v).author = "import"
      /\ Updated(v).isActive = IF Removes(v) THEN FALSE ELSE vehicles[v].isActive
  BY <1>1, <1>2, UpdatedIsRow
<1>4. vehicles' = [vehicles EXCEPT ![v] = Updated(v)] /\ lookup' = indexExistingVehicle(v, Updated(v))
  BY DEF safeUpdate
<1>5. /\ vehicles' \in Seq(Rows) /\ Len(vehicles') = Len(vehicles) /\ vehicles'[v] = Updated(v) /\ Ids' = Ids
      /\ \A u \in Ids : u # v => vehicles'[u] = vehicles[u]
  BY <1>1, <1>2, <1>3, <1>4 DEF Ids
<1>6. /\ lookup' \in Seq(Rows) /\ Len(lookup') = Len(lookup) /\ lookup'[v] = Updated(v)
      /\ \A u \in Ids : u # v => lookup'[u] = WithoutKeysOf(Updated(v), lookup[u])
  <2>1. \A u \in Ids : u \in 1..Len(lookup)
    BY <1>1
  <2>2. /\ indexExistingVehicle(v, Updated(v)) \in Seq(Rows) /\ indexExistingVehicle(v, Updated(v))[v] = Updated(v)
        /\ Len(indexExistingVehicle(v, Updated(v))) = Len(lookup)
        /\ \A u \in 1..Len(lookup) : u # v => indexExistingVehicle(v, Updated(v))[u] = WithoutKeysOf(Updated(v), lookup[u])
    BY <1>1, <1>2, <1>3, IndexedIsRows
  <2> QED
    BY <1>4, <2>1, <2>2
<1>7. \A u \in Ids : vehicles'[u].version \in Nat \ {0}
  BY <1>1, <1>2, <1>3, <1>5
<1>8. ASSUME NEW u \in Ids PROVE Knows(lookup'[u], vehicles'[u])
  <2>1. CASE u = v
    BY <1>1, <1>2, <1>3, <1>5, <1>6, <2>1 DEF Knows
  <2>2. CASE u # v
    BY <1>1, <1>5, <1>6, <2>2, IndexedKnows
  <2> QED
    BY <2>1, <2>2
<1>9. lookup' # <<>> /\ file' \in Seq(SheetRow) /\ done' \in 0..Len(file')
  BY <1>1, <1>6, NonemptyRows
<1>10. ImportInv'
  BY <1>1, <1>5, <1>6, <1>7, <1>8, <1>9 DEF ImportInv, Loaded
<1>11. ASSUME ~Removes(v)
       PROVE  vehicles[v].author # "admin" /\ Cardinality(SharesWith(Row, vehicles[v])) >= 2
  <2>1. vehicles[v].version = lookup[v].version
    BY <1>11 DEF safeUpdate, Mergeable, Expected
  <2>2. vehicles[v].author # "admin" /\ \A i \in Identifiers : lookup[v][i] \in {Missing, vehicles[v][i]}
    BY <1>1, <1>2, <2>1 DEF Knows
  <2>3. Hits(v) \subseteq SharesWith(Row, vehicles[v])
    BY <2>2 DEF Hits, SharesWith
  <2>4. IsFiniteSet(SharesWith(Row, vehicles[v]))
    <3>1. IsFiniteSet(Identifiers)
      <4>1. IsFiniteSet({} \cup {"economicNumber"})
        BY FS_EmptySet, FS_AddElement
      <4>2. IsFiniteSet(({} \cup {"economicNumber"}) \cup {"plate"})
        BY <4>1, FS_AddElement
      <4>3. IsFiniteSet((({} \cup {"economicNumber"}) \cup {"plate"}) \cup {"vin"})
        BY <4>2, FS_AddElement
      <4>4. Identifiers = (({} \cup {"economicNumber"}) \cup {"plate"}) \cup {"vin"}
        BY DEF Identifiers
      <4> QED
        BY <4>3, <4>4
    <3> QED
      BY <3>1, FS_Subset DEF SharesWith
  <2>5. Cardinality(Hits(v)) >= 2
    BY DEF Existing
  <2>6. Cardinality(Hits(v)) <= Cardinality(SharesWith(Row, vehicles[v]))
    BY <2>3, <2>4, FS_Subset
  <2>7. Cardinality(Hits(v)) \in Nat /\ Cardinality(SharesWith(Row, vehicles[v])) \in Nat
    BY <2>3, <2>4, FS_Subset, FS_CardinalityType
  <2> QED
    BY <2>2, <2>5, <2>6, <2>7
<1>12. EditsKept
  BY <1>3, <1>5, <1>11 DEF EditsKept
<1> QED
  BY <1>10, <1>12

LEMMA RowsKeep == ASSUME ImportInv, importRow PROVE ImportInv' /\ EditsKept
<1>1. /\ Loaded /\ done < Len(file) /\ UNCHANGED file /\ done' = done + 1
      /\ safeCreate \/ RowError \/ \E v \in Existing : safeUpdate(v)
  BY DEF importRow
<1>2. CASE RowError
  <2>1. vehicles' = vehicles /\ lookup' = lookup /\ Ids' = Ids
    BY <1>2 DEF RowError, Ids
  <2>2. done' \in 0..Len(file')
    BY <1>1 DEF ImportInv
  <2>3. ImportInv'
    BY <1>1, <2>1, <2>2 DEF ImportInv, Loaded
  <2> QED
    BY <2>1, <2>3, UntouchedIsKept
<1> QED
  BY <1>1, <1>2, CreatingKeeps, UpdatingKeeps

(* What administrators do is newer than what the import knows.                             *)
LEMMA AdminsKeep ==
  ASSUME ImportInv, Loaded, UNCHANGED <<file, done, lookup>>, NEW v \in Ids, NEW new \in Rows,
         new.version = vehicles[v].version + 1, new.author = "admin",
         vehicles[v].isActive, vehicles' = [vehicles EXCEPT ![v] = new]
  PROVE  ImportInv' /\ EditsKept
<1>1. /\ vehicles \in Seq(Rows) /\ lookup \in Seq(Rows) /\ Len(lookup) = Len(vehicles) /\ Len(vehicles) \in Nat
      /\ Ids = 1..Len(vehicles)
      /\ \A u \in Ids : vehicles[u].version \in Nat \ {0} /\ Knows(lookup[u], vehicles[u])
  BY DEF ImportInv, Ids
<1>2. /\ vehicles' \in Seq(Rows) /\ Len(vehicles') = Len(vehicles) /\ vehicles'[v] = new /\ Ids' = Ids
      /\ \A u \in Ids : u # v => vehicles'[u] = vehicles[u]
  BY <1>1 DEF Ids
<1>3. \A u \in Ids : vehicles'[u].version \in Nat \ {0}
  BY <1>1, <1>2
<1>4. ASSUME NEW u \in Ids PROVE Knows(lookup'[u], vehicles'[u])
  <2>1. CASE u = v
    <3>1. Knows(lookup[v], vehicles[v]) /\ vehicles[v].version \in Nat
      BY <1>1
    <3>2. lookup[v].version \in Nat /\ lookup[v].version < new.version
      BY <3>1 DEF Knows
    <3>3. lookup'[u] = lookup[v] /\ vehicles'[u] = new
      BY <1>2, <2>1
    <3>4. new.version \in Nat /\ lookup[v].version <= new.version /\ lookup[v].version # new.version
      BY <3>1, <3>2
    <3>5. Knows(lookup[v], new)
      BY <3>2, <3>4 DEF Knows
    <3> QED
      BY <3>3, <3>5
  <2>2. CASE u # v
    BY <1>1, <1>2, <2>2
  <2> QED
    BY <2>1, <2>2
<1>5. ImportInv'
  BY <1>1, <1>2, <1>3, <1>4 DEF ImportInv, Loaded
<1>6. EditsKept
  <2>1. \A u \in Ids : u = v => vehicles[u].isActive /\ vehicles'[u].author # "import"
    BY <1>2
  <2>2. \A u \in Ids : u # v => vehicles'[u] = vehicles[u]
    BY <1>2
  <2> QED
    BY <2>1, <2>2 DEF EditsKept
<1> QED
  BY <1>5, <1>6

LEMMA EditingKeeps ==
  ASSUME ImportInv, NEW v \in Ids, NEW e \in EconomicNumbers, NEW p \in Plates, NEW x \in Vins \cup {Missing},
         updateVehicle(v, e, p, x)
  PROVE  ImportInv' /\ EditsKept
<1> DEFINE n == vehicles[v].version + 1
<1>1. vehicles[v].version \in Nat /\ n \in Nat
  BY DEF ImportInv
<1>2. e \in Values /\ p \in Values /\ x \in Values
  BY DEF Values, Numbers
<1>3. "admin" \in {"before", "admin", "import", "nobody"}
  OBVIOUS
<1> HIDE DEF n
<1>4. \A t \in BOOLEAN : /\ Vehicle(e, p, x, t, n, "admin") \in Rows
                        /\ Vehicle(e, p, x, t, n, "admin").version = n
                        /\ Vehicle(e, p, x, t, n, "admin").author = "admin"
  BY <1>1, <1>2, <1>3, VehicleIsRow
<1>5. /\ Vehicle(e, p, x, TRUE, n, "admin") \in Rows
      /\ Vehicle(e, p, x, TRUE, n, "admin").version = n
      /\ Vehicle(e, p, x, TRUE, n, "admin").author = "admin"
  BY ONLY <1>4, Zenon
<1>6. /\ Loaded /\ UNCHANGED <<file, done, lookup>> /\ vehicles[v].isActive
      /\ vehicles' = [vehicles EXCEPT ![v] = Vehicle(e, p, x, TRUE, n, "admin")]
  BY DEF updateVehicle, Meanwhile, n
<1> QED
  BY <1>5, <1>6, AdminsKeep DEF n

LEMMA RemovingKeeps == ASSUME ImportInv, NEW v \in Ids, deleteVehicle(v) PROVE ImportInv' /\ EditsKept
<1> DEFINE r == vehicles[v]
           n == r.version + 1
           new == [r EXCEPT !.isActive = FALSE, !.version = n, !.author = "admin"]
<1>1. vehicles \in Seq(Rows) /\ r \in Rows /\ n \in Nat
  BY DEF ImportInv, Ids
<1>2. FALSE \in Values /\ n \in Values /\ "admin" \in Values
  BY <1>1 DEF Values
<1>3. /\ Loaded /\ UNCHANGED <<file, done, lookup>> /\ vehicles[v].isActive
      /\ vehicles' = [vehicles EXCEPT ![v] = new]
  BY <1>1 DEF deleteVehicle, Meanwhile, Ids
<1>4. new \in Rows /\ new.version = n /\ new.author = "admin"
  <2> HIDE DEF r, n
  <2> QED
    BY <1>1, <1>2 DEF Rows, Fields
<1> HIDE DEF new
<1> QED
  BY <1>3, <1>4, AdminsKeep

(* A vehicle the import does not learn of.                                                 *)
LEMMA AddingKeeps ==
  ASSUME ImportInv, NEW e \in EconomicNumbers, NEW p \in Plates, createVehicle(e, p)
  PROVE  ImportInv' /\ EditsKept
<1> DEFINE k == Len(vehicles) + 1
<1>1. /\ vehicles \in Seq(Rows) /\ lookup \in Seq(Rows) /\ Len(lookup) = Len(vehicles) /\ Len(vehicles) \in Nat
      /\ Ids = 1..Len(vehicles) /\ Loaded /\ UNCHANGED <<file, done>>
      /\ \A v \in Ids : vehicles[v].version \in Nat \ {0} /\ Knows(lookup[v], vehicles[v])
  BY DEF ImportInv, Ids, createVehicle, Meanwhile
<1>2. e \in Values /\ p \in Values /\ Missing \in Values
  BY DEF Values, Numbers
<1>3. \A t \in BOOLEAN : /\ Vehicle(e, p, Missing, t, 1, "admin") \in Rows
                        /\ Vehicle(e, p, Missing, t, 1, "admin").version = 1
  BY <1>2, VehicleIsRow
<1>4. PICK new \in Rows : new = Vehicle(e, p, Missing, TRUE, 1, "admin") /\ new.version = 1
  <2>1. /\ Vehicle(e, p, Missing, TRUE, 1, "admin") \in Rows
        /\ Vehicle(e, p, Missing, TRUE, 1, "admin").version = 1
    BY ONLY <1>3, Zenon
  <2> QED
    BY <2>1
<1>5. vehicles' = Append(vehicles, new) /\ lookup' = Append(lookup, NotRead)
  BY <1>4 DEF createVehicle
<1>6. /\ vehicles' \in Seq(Rows) /\ Len(vehicles') = k /\ vehicles'[k] = new /\ Ids' = 1..k
      /\ \A v \in Ids : vehicles'[v] = vehicles[v]
  BY <1>1, <1>5 DEF Ids
<1>7. /\ lookup' \in Seq(Rows) /\ Len(lookup') = k /\ lookup'[k] = NotRead
      /\ \A v \in Ids : lookup'[v] = lookup[v]
  BY <1>1, <1>5, NotReadIsRow
<1>8. ASSUME NEW v \in Ids' PROVE vehicles'[v].version \in Nat \ {0}
  <2>1. CASE v = k
    <3>1. vehicles'[v] = new /\ new.version = 1
      BY <1>4, <1>6, <2>1
    <3> QED
      BY <3>1
  <2>2. CASE v # k
    BY <1>1, <1>6, <2>2
  <2> QED
    BY <2>1, <2>2
<1>9. ASSUME NEW v \in Ids' PROVE Knows(lookup'[v], vehicles'[v])
  <2>1. CASE v = k
    <3>1. Knows(NotRead, new)
      <4>1. NotRead.version = 0 /\ new.version = 1
        BY <1>4, NotReadIsRow
      <4> QED
        BY ONLY <4>1 DEF Knows
    <3>2. lookup'[v] = NotRead /\ vehicles'[v] = new
      BY <1>6, <1>7, <2>1
    <3> QED
      BY <3>1, <3>2
  <2>2. CASE v # k
    BY <1>1, <1>6, <1>7, <2>2
  <2> QED
    BY <2>1, <2>2
<1>10. lookup' # <<>> /\ file' \in Seq(SheetRow) /\ done' \in 0..Len(file')
  BY <1>1, <1>7, NonemptyRows DEF ImportInv
<1>11. ImportInv'
  BY <1>6, <1>7, <1>8, <1>9, <1>10 DEF ImportInv, Loaded
<1> QED
  BY <1>6, <1>11, UntouchedIsKept

LEMMA ImportStep == ImportInv /\ [ImportNext]_importVars => ImportInv' /\ [EditsKept]_importVars
<1>1. ASSUME ImportInv, UNCHANGED importVars PROVE ImportInv'
  <2>1. UNCHANGED <<vehicles, file, done, lookup>>
    BY <1>1 DEF importVars
  <2> QED
    BY <1>1, <2>1 DEF ImportInv, Ids, Loaded
<1>2. ASSUME ImportInv, ImportNext PROVE ImportInv' /\ EditsKept
  BY <1>2, ReadingIsTrue, RowsKeep, EditingKeeps, RemovingKeeps, AddingKeeps DEF ImportNext
<1> QED
  BY <1>1, <1>2

(* vehicleImportService writes no vehicle over an administrator's later edit, brings no     *)
(* removed one back, and changes one only if two of its identifiers are the row's at that    *)
(* moment - for every sheet, registry and number of edits meanwhile.                        *)
THEOREM EditsAreKept == ImportSpec => EditsSurvive
<1>1. ImportSpec => [][EditsKept]_importVars
  BY ImportStarts, ImportStep, PTL DEF ImportSpec
<1>2. EditsSurvive <=> [][EditsKept]_importVars
  BY DEF EditsSurvive, EditsKept
<1> QED
  BY <1>1, <1>2
=============================================================================
