------------------------------- MODULE Backups ------------------------------
(* The scripts that stop the services of the public profile for a while: the periodic    *)
(* backup, the deployment with its guard, and the alert drill; and what the monitor      *)
(* makes of the services that are down and of the maintenance marker.  A backup and a    *)
(* deployment exclude each other by one lock; the drill does not ask for it.  The host   *)
(* may crash at any point: containers that were stopped on purpose stay down after it.   *)
EXTENDS Naturals, Sequences, FiniteSets

CONSTANTS
  Window,         \* minutes that the marker of a backup is good for
  MaxWrites,      \* bound: changes made by the writers
  MaxSchema,      \* bound: migrations
  MaxTroubles     \* bound: of a crash of the host, a container that dies, and a drill

ASSUME BackupConstants ==
  {Window, MaxWrites, MaxTroubles} \subseteq Nat /\ MaxSchema \in Nat \ {0}

VARIABLES
  up,             \* the services that run
  held,           \* the services that were stopped on purpose: Docker leaves them down
  stores,         \* changes in the database and in the files, the schema, and whether an
                  \* earlier installation left files
  newest,         \* the newest bundle that was published, if any
  script,         \* the backup or deployment that holds the lock
  marker,         \* minutes left of the maintenance marker, 0 once expired, or NoMarker
  drill,          \* the service that a drill has stopped, or NoDrill
  troubles        \* which of the three there has been

backupVars == <<up, held, stores, newest, script, marker, drill, troubles>>

(* The web pages stand and fall with Caddy.                                              *)
Services == {"api", "worker-python", "caddy"}
Writers == {"api", "worker-python"}
StopOrder == <<"caddy", "api", "worker-python">>
StartOrder == <<"api", "worker-python", "caddy">>
NoMarker == Window + 1
NoDrill == "none"
NoScript == [kind |-> "none", pc |-> "idle", found |-> {}, stopped |-> {}, todo |-> {},
         failed |-> FALSE, db |-> 0]

FirstOf(order, set) == order[CHOOSE i \in 1..Len(order) :
                               order[i] \in set /\ \A j \in 1..(i - 1) : order[j] \notin set]

BackupTypeOK ==
  /\ up \subseteq Services /\ held \subseteq Services \ up
  /\ marker \in 0..NoMarker /\ drill \in Writers \cup {NoDrill}
  /\ script.kind \in {"none", "backup", "deploy"} /\ script.stopped \subseteq script.found

(* An installation in use, perhaps with a service that somebody stopped; or a fresh one, *)
(* perhaps with files that an earlier one left.                                          *)
BackupsInit ==
  /\ \/ /\ stores = [db |-> 0, files |-> 0, schema |-> 1, legacy |-> FALSE]
        /\ up \in {Services, Services \ {"worker-python"}}
     \/ up = {} /\ stores \in [db : {0}, files : {0}, schema : {0}, legacy : BOOLEAN]
  /\ held = Services \ up /\ newest = {} /\ script = NoScript
  /\ marker = NoMarker /\ drill = NoDrill
  /\ troubles = {}

(*************************** The services on their own **********************************)

Strikes(trouble) ==
  /\ trouble \notin troubles /\ Cardinality(troubles) < MaxTroubles
  /\ troubles' = troubles \cup {trouble}

Write ==
  /\ up \cap Writers # {} /\ stores.db < MaxWrites
  /\ stores' = [stores EXCEPT !.db = @ + 1, !.files = @ + 1]
  /\ UNCHANGED <<up, held, newest, script, marker, drill, troubles>>

ContainerDies(s) ==
  /\ s \in up /\ Strikes("death")
  /\ up' = up \ {s}
  /\ UNCHANGED <<held, stores, newest, script, marker, drill>>

(* restart: unless-stopped, which docker compose stop suspends.                          *)
DockerRestarts(s) ==
  /\ s \notin up \cup held /\ stores.schema # 0
  /\ up' = up \cup {s}
  /\ UNCHANGED <<held, stores, newest, script, marker, drill, troubles>>

OperatorStarts(s) ==
  /\ script = NoScript /\ drill = NoDrill /\ s \in held /\ stores.schema # 0
  /\ up' = up \cup {s} /\ held' = held \ {s}
  /\ UNCHANGED <<stores, newest, script, marker, drill, troubles>>

(*************************** Backup and deployment **************************************)

(* A deployment may go on without a backup only where nothing is stored yet.             *)
(* A plausible mistake for FirstDeploy: an empty database is taken for a first           *)
(* deployment.                                                                           *)
FirstByDatabase == stores.schema = 0
FirstDeploy == stores.schema = 0 /\ ~ stores.legacy

Begin(kind) ==
  /\ script = NoScript /\ (kind = "backup" => stores.schema # 0)
  /\ script' = [NoScript EXCEPT !.kind = kind, !.found = up,
                            !.pc = IF kind = "deploy" /\ FirstDeploy THEN "migrate" ELSE "stop"]
  /\ marker' = IF kind = "backup" THEN Window ELSE marker
  /\ UNCHANGED <<up, held, stores, newest, drill, troubles>>

Goto(pc) == script' = [script EXCEPT !.pc = pc]
Undo == script' = [script EXCEPT !.pc = "undo", !.todo = script.stopped]

(* The next service is noted as stopped before it is stopped, so that a stop that fails  *)
(* is undone as well.                                                                    *)
StopNext ==
  LET left == script.found \ script.stopped
      s == FirstOf(StopOrder, left)
  IN /\ script.pc = "stop" /\ left # {}
     /\ \/ /\ up' = up \ {s} /\ held' = held \cup {s}
           /\ script' = [script EXCEPT !.stopped = @ \cup {s}]
        \/ /\ UNCHANGED <<up, held>>
           /\ script' = [script EXCEPT !.stopped = @ \cup {s}, !.pc = "undo",
                                       !.todo = script.stopped \cup {s}]
     /\ UNCHANGED <<stores, newest, marker, drill, troubles>>

(* backup.sh refuses while a writer runs.                                                *)
CheckWriters ==
  /\ script.pc = "stop" /\ script.found = script.stopped
  /\ IF up \cap Writers = {} THEN Goto("database") ELSE Undo
  /\ UNCHANGED <<up, held, stores, newest, marker, drill, troubles>>

DumpDatabase ==
  /\ script.pc = "database"
  /\ script' = [script EXCEPT !.pc = "files", !.db = stores.db]
  /\ UNCHANGED <<up, held, stores, newest, marker, drill, troubles>>

(* The files are archived, and the three artifacts published under one name, with a      *)
(* manifest that says consistency=application-writers-stopped.                           *)
PublishBundle ==
  /\ script.pc = "files"
  /\ newest' = {[stores EXCEPT !.db = script.db]}
  /\ IF script.kind = "deploy" THEN Goto("migrate")
     ELSE script' = [script EXCEPT !.pc = "restore", !.todo = script.stopped]
  /\ UNCHANGED <<up, held, stores, marker, drill, troubles>>

(* Any command of the snapshot may fail: what was stopped is started again.              *)
SnapshotFails ==
  /\ script.pc \in {"database", "files"}
  /\ Undo
  /\ UNCHANGED <<up, held, stores, newest, marker, drill, troubles>>

StartNext(works) ==
  LET s == FirstOf(StartOrder, script.todo)
  IN /\ script.pc \in {"restore", "undo"} /\ script.todo # {}
     /\ up' = IF works THEN up \cup {s} ELSE up
     /\ held' = IF works THEN held \ {s} ELSE held
     /\ script' = [script EXCEPT !.todo = @ \ {s}, !.failed = @ \/ ~ works]
     /\ UNCHANGED <<stores, newest, marker, drill, troubles>>

(* A restart that fails is tried once more by the trap; then the script ends either way, *)
(* and a backup takes its marker back.                                                   *)
RestoreEnds ==
  /\ script.pc \in {"restore", "undo"} /\ script.todo = {}
  /\ IF script.pc = "restore" /\ script.failed
     THEN /\ script' = [script EXCEPT !.pc = "undo", !.todo = script.stopped, !.failed = FALSE]
          /\ UNCHANGED marker
     ELSE /\ script' = NoScript
          /\ marker' = IF script.kind = "backup" THEN NoMarker ELSE marker
  /\ UNCHANGED <<up, held, stores, newest, drill, troubles>>

Migrate ==
  /\ script.pc = "migrate"
  /\ IF stores.schema < MaxSchema
     THEN stores' = [stores EXCEPT !.schema = @ + 1] ELSE UNCHANGED stores
  /\ Goto("up")
  /\ UNCHANGED <<up, held, newest, marker, drill, troubles>>

(* A migration that fails leaves the services as the guard left them: down.              *)
MigrationFails ==
  /\ script.pc = "migrate" /\ script' = NoScript
  /\ UNCHANGED <<up, held, stores, newest, marker, drill, troubles>>

ComposeUp ==
  /\ script.pc = "up" /\ script' = NoScript
  /\ \E started \in SUBSET Services : up' = up \cup started /\ held' = held \ started
  /\ UNCHANGED <<stores, newest, marker, drill, troubles>>

ScriptStep ==
  \/ StopNext \/ CheckWriters \/ DumpDatabase \/ PublishBundle \/ SnapshotFails
  \/ \E works \in BOOLEAN : StartNext(works)
  \/ RestoreEnds \/ Migrate \/ MigrationFails \/ ComposeUp

(*************************** Crashes, time, the monitor and the drill *******************)

(* No trap runs.  The marker and what was stopped on purpose outlive the crash.          *)
HostCrashes ==
  /\ Strikes("crash")
  /\ script' = NoScript /\ drill' = NoDrill
  /\ UNCHANGED <<up, held, stores, newest, marker>>

Tick ==
  /\ marker \in 1..Window /\ marker' = marker - 1
  /\ UNCHANGED <<up, held, stores, newest, script, drill, troubles>>

(* A plausible mistake for MarkerIsActive: the date of expiry is not looked at.          *)
MarkerIsThere == marker # NoMarker
MarkerIsActive == marker \in 1..Window

(* evaluate, of what the model has.                                                      *)
Problems ==
  {s \in Services : s \notin up /\ ~ MarkerIsActive}
    \cup (IF marker # NoMarker /\ ~ MarkerIsActive THEN {"marker"} ELSE {})

(* The drill needs a monitor that is content, which it also is during a backup.          *)
DrillStops(s) ==
  /\ Strikes("drill")
  /\ drill = NoDrill /\ s \in up \cap Writers /\ Problems = {}
  /\ drill' = s /\ up' = up \ {s} /\ held' = held \cup {s}
  /\ UNCHANGED <<stores, newest, script, marker>>

DrillRestores ==
  /\ drill # NoDrill /\ drill' = NoDrill
  /\ up' = up \cup {drill} /\ held' = held \ {drill}
  /\ UNCHANGED <<stores, newest, script, marker, troubles>>

BackupsNext ==
  \/ Write \/ ScriptStep \/ HostCrashes \/ Tick \/ DrillRestores
  \/ \E kind \in {"backup", "deploy"} : Begin(kind)
  \/ \E s \in Services : ContainerDies(s) \/ DockerRestarts(s) \/ OperatorStarts(s) \/ DrillStops(s)

(* A command ends, by a timeout at the latest, and the clock goes on.                    *)
BackupsFairness == WF_backupVars(ScriptStep) /\ WF_backupVars(Tick)

BackupsSpec == BackupsInit /\ [][BackupsNext]_backupVars /\ BackupsFairness

(*************************** Properties *************************************************)

(* "consistency=application-writers-stopped": the dump and the archives of a bundle are  *)
(* of the same moment, although they are read one after the other.                       *)
BundleIsOfOneMoment == \A bundle \in newest : bundle.db = bundle.files

(* The same while no drill and no dying container meets a script: a container that       *)
(* Docker is about to restart is not among those that the script finds running.  And no  *)
(* migration begins over data that the newest bundle does not hold, other than on an     *)
(* installation that holds nothing at all.                                               *)
MigratesWithBackup ==
  troubles \cap {"death", "drill"} = {} =>
    /\ BundleIsOfOneMoment
    /\ script.pc = "migrate" => \/ stores = [db |-> 0, files |-> 0, schema |-> 0, legacy |-> FALSE]
                                \/ stores \in newest

(* Services that no script is about to start again, for a crash has taken the script or  *)
(* the start has failed, come to the notice of the monitor, at the latest when the       *)
(* marker of the backup expires.                                                         *)
OutageIsSeen == (script = NoScript /\ up # Services) ~> (up = Services \/ Problems # {})
=============================================================================
