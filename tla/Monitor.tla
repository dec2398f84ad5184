------------------------------- MODULE Monitor ------------------------------
(* The monitor of the public profile: a run every minute, which compares the problems it *)
(* finds with the state file of the run before and tells a webhook what is new, what has *)
(* lasted for a cooldown, and that everything is normal again.  What the checks find is  *)
(* the environment's choice, see Problems of Backups.                                    *)
EXTENDS Naturals

CONSTANTS
  Checks,         \* what may be wrong
  Cooldown        \* minutes, OPS_ALERT_COOLDOWN_SECONDS

VARIABLES
  wrong,          \* the problems there are
  webhook,        \* whether OPS_ALERT_WEBHOOK_URL is set
  file,           \* the state file: status, fingerprint, webhook_configured
  since,          \* minutes since last_alert_epoch of the file, up to Cooldown
  lastRun,        \* what the last run found, whether it called the webhook, and to what end
  heard           \* what the receiver was told last; {} after a recovery

monitorVars == <<wrong, webhook, file, since, lastRun, heard>>

MonitorTypeOK ==
  /\ wrong \subseteq Checks /\ heard \subseteq Checks /\ webhook \in BOOLEAN
  /\ since \in 0..Cooldown
  /\ file \in [status : {"none", "ok", "firing"}, fingerprint : SUBSET Checks, configured : BOOLEAN]

NoRun == [found |-> {}, sent |-> FALSE, delivered |-> TRUE]

MonitorInit ==
  /\ wrong = {} /\ webhook \in BOOLEAN /\ heard = {}
  /\ file = [status |-> "none", fingerprint |-> {}, configured |-> FALSE]
  /\ since = Cooldown /\ lastRun = NoRun

(* The problems change between two runs.  No file is as old as never.                    *)
ProblemsChange ==
  /\ wrong' \in SUBSET Checks \ {wrong}
  /\ UNCHANGED <<webhook, file, since, lastRun, heard>>

(* A webhook is set while the monitor is in use, and not taken away again.               *)
WebhookIsSet ==
  /\ ~ webhook /\ webhook' = TRUE
  /\ UNCHANGED <<wrong, file, since, lastRun, heard>>

LaterBy(minutes) == IF since + minutes > Cooldown THEN Cooldown ELSE since + minutes

(* A plausible mistake for ShouldSend: what was noted once is not sent again.            *)
ShouldSendOnce(age) ==
  file.fingerprint # wrong \/ file.configured # webhook
ShouldSend(age) ==
  file.fingerprint # wrong \/ file.configured # webhook \/ (webhook /\ age >= Cooldown)

(* An alert.  The fingerprint is noted whether or not the alert was delivered; the time  *)
(* only when it was.                                                                     *)
Alert(works, killed) ==
  LET age == LaterBy(1)
      sends == ShouldSend(age)
      told == sends /\ webhook /\ works
  IN /\ wrong # {}
     /\ heard' = IF told THEN wrong ELSE heard
     /\ lastRun' = [found |-> wrong, sent |-> sends, delivered |-> told \/ ~ (sends /\ webhook)]
     /\ IF killed THEN file' = file /\ since' = age
        ELSE /\ file' = [status |-> "firing", fingerprint |-> wrong, configured |-> webhook]
             /\ since' = IF told THEN 0 ELSE age
     /\ UNCHANGED <<wrong, webhook>>

(* Nothing is wrong.  A recovery that was not delivered leaves the file as it was.       *)
Normal(works, killed) ==
  LET sends == file.status = "firing"
      told == sends /\ webhook /\ works
      delivered == ~ sends \/ ~ webhook \/ works
  IN /\ wrong = {}
     /\ heard' = IF told THEN {} ELSE heard
     /\ lastRun' = [found |-> {}, sent |-> sends, delivered |-> delivered]
     /\ IF killed \/ ~ delivered THEN file' = file /\ since' = LaterBy(1)
        ELSE /\ file' = [status |-> "ok", fingerprint |-> {}, configured |-> webhook]
             /\ since' = IF webhook THEN 0 ELSE Cooldown
     /\ UNCHANGED <<wrong, webhook>>

(* A run, with a webhook that works or not; it may be killed before it writes the file.  *)
Run(works, killed) == Alert(works, killed) \/ Normal(works, killed)

MonitorNext ==
  \/ ProblemsChange \/ WebhookIsSet
  \/ \E works \in BOOLEAN, killed \in BOOLEAN : Run(works, killed)

(* The timer starts a run every minute, and neither the webhook nor the machine fails    *)
(* for ever.                                                                             *)
MonitorFairness == SF_monitorVars(Run(TRUE, FALSE))

MonitorSpec == MonitorInit /\ [][MonitorNext]_monitorVars /\ MonitorFairness

(* Whatever was delivered, lost or sent before: once the problems stay as they are, they *)
(* reach the receiver, if there is a webhook, and so does the return to normal from      *)
(* problems that the file knows of.  (A run that is killed between the alert and the     *)
(* file leaves an alert behind that nobody takes back.)                                  *)
KnownOrGone == heard = wrong \/ (wrong = {} /\ file.status # "firing")

ReceiverKnows ==
  <>[][UNCHANGED wrong]_monitorVars => <>[](webhook => KnownOrGone)

(* "Una entrega fallida se reintenta en el siguiente ciclo": a run that finds the same   *)
(* problems, whose alert the run before failed to deliver, calls the webhook again.      *)
FailedAlertIsRetried ==
  [][ (lastRun' # lastRun \/ since' # since \/ file' # file)
        => (~ lastRun.delivered /\ lastRun.found # {} /\ lastRun.found = wrong => lastRun'.sent)
    ]_monitorVars
=============================================================================
