------------------------------- MODULE MCOps --------------------------------
(* One run for what surrounds the requests in production: the scripts that stop and  *)
(* start the services, the monitor and its state file, the process of the API, or its *)
(* worker of small pictures, as part says; the others stand still.                   *)
EXTENDS Backups, Monitor, ApiProcess, Thumbnails

VARIABLE part

opsVars == <<backupVars, monitorVars, apiVars, thumbVars, part>>

OnlyBackups == part = "backups" /\ UNCHANGED <<monitorVars, apiVars, thumbVars, part>>
OnlyMonitor == part = "monitor" /\ UNCHANGED <<backupVars, apiVars, thumbVars, part>>
OnlyApi == part = "api" /\ UNCHANGED <<backupVars, monitorVars, thumbVars, part>>
OnlyThumbs == part = "thumbs" /\ UNCHANGED <<backupVars, monitorVars, apiVars, part>>

(* Three of the workers that jobs/index.ts starts.                                   *)
ThreeWorkers == <<"reports", "compliance", "data">>

OpsInit ==
  /\ BackupsInit /\ MonitorInit /\ ApiInit /\ ThumbnailsInit
  /\ part \in {"backups", "monitor", "api", "thumbs"}
  /\ (part # "monitor" => ~ webhook) /\ (part # "backups" => up = Services)

OpsNext ==
  \/ BackupsNext /\ OnlyBackups
  \/ MonitorNext /\ OnlyMonitor
  \/ ApiNext /\ OnlyApi
  \/ ThumbnailsNext /\ OnlyThumbs

(* BackupsFairness, MonitorFairness and ThumbnailsFairness.                          *)
OpsSpec ==
  /\ OpsInit /\ [][OpsNext]_opsVars
  /\ WF_opsVars((ScriptStep /\ OnlyBackups) \/ (WorkerStep /\ OnlyThumbs))
  /\ WF_opsVars((Tick /\ OnlyBackups) \/ (ScheduleBackfill /\ OnlyThumbs))
  /\ SF_opsVars((Run(TRUE, FALSE) /\ OnlyMonitor) \/ (StartBackfill /\ OnlyThumbs))
=============================================================================
