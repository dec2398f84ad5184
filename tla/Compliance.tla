----------------------------- MODULE Compliance -----------------------------
(* Documents of vehicles, the daily job "compliance" that blocks and unblocks     *)
(* vehicles by them, and the notifications it sends.  The job is several           *)
(* transactions: it reads, writes what it read, tells, and then looks for overdue  *)
(* services; any of them may fail, and BullMQ runs the job again from the start.   *)
(* Dates are days; a document counts as valid on the day it expires.               *)
EXTENDS Integers, FiniteSets

CONSTANTS Units,        \* ids of vehicles, from 1 on
          DocIds,       \* ids of the documents of the one type that is modelled
          LastDay,      \* bound on the calendar
          MaxEdits,     \* bound on the changes to documents
          Attempts      \* attempts: 3 in createQueue

ASSUME ComplianceConstants ==
  /\ Units \subseteq Nat \ {0} /\ LastDay \in Nat /\ MaxEdits \in Nat
  /\ Attempts \in Nat \ {0}

NoDoc == [vehicle |-> 0, expiresAt |-> 0]
NoScan == [toBlock |-> {}, toUnblock |-> {}]

VARIABLES day,
          doc,          \* doc[d]: the document with id d, or NoDoc
          inService,    \* vehicles with isActive
          blocked,      \* vehicles with status BLOCKED
          overdue,      \* vehicles with a service in OVERDUE
          phase,        \* how far the job is: "none" when no run is queued
          tries,        \* attempts the queued run has used
          scan,         \* the vehicles the run found to block and to unblock
          blockings,    \* blockings[v]: how often the job has blocked v
          told,         \* told[v]: VEHICLE_BLOCKED notifications about v, per user
          alerted,      \* alerted[v]: MAINTENANCE_OVERDUE ones of the last 20 hours
          edits

complianceVars ==
  <<day, doc, inService, blocked, overdue, phase, tries, scan, blockings, told, alerted, edits>>
fleetVars == <<inService, overdue>>
jobVars == <<phase, tries, scan, blockings, told, alerted, blocked>>

-----------------------------------------------------------------------------
DocsOf(v) == {d \in DocIds : doc[d].vehicle = v}
HasExpired(v) == \E d \in DocsOf(v) : doc[d].expiresAt < day

ComplianceInit ==
  /\ day = 1 /\ doc = [d \in DocIds |-> NoDoc]
  /\ inService = Units /\ blocked = {} /\ overdue = {}
  /\ phase = "none" /\ tries = 0 /\ scan = NoScan
  /\ blockings = [v \in Units |-> 0] /\ told = [v \in Units |-> 0]
  /\ alerted = [v \in Units |-> 0] /\ edits = 0

-----------------------------------------------------------------------------
(* Documents: each handler holds the row of its vehicle, which must be in service. *)
EditDocument(d, new) ==
  /\ edits < MaxEdits
  /\ doc' = [doc EXCEPT ![d] = new]
  /\ edits' = edits + 1
  /\ UNCHANGED <<day, fleetVars, jobVars>>

(* A second document of the type is refused while one is valid beyond today; the   *)
(* expired ones stay.                                                               *)
createDocument(d, v, expiry) ==
  /\ doc[d] = NoDoc /\ v \in inService
  /\ \A e \in DocsOf(v) : doc[e].expiresAt <= day
  /\ EditDocument(d, [vehicle |-> v, expiresAt |-> expiry])

updateDocument(d, expiry) ==
  /\ doc[d] # NoDoc /\ doc[d].vehicle \in inService
  /\ EditDocument(d, [doc[d] EXCEPT !.expiresAt = expiry])

deleteDocument(d) ==
  /\ doc[d] # NoDoc /\ doc[d].vehicle \in inService
  /\ EditDocument(d, NoDoc)

(* Vehicles leave the registry, and readings make services overdue or records      *)
(* settle them.                                                                     *)
deactivateVehicle(v) ==
  /\ v \in inService
  /\ inService' = inService \ {v}
  /\ UNCHANGED <<day, doc, overdue, jobVars, edits>>

ServiceFallsDue(v) ==
  /\ v \notin overdue
  /\ overdue' = overdue \cup {v}
  /\ UNCHANGED <<day, doc, inService, jobVars, edits>>

-----------------------------------------------------------------------------
(* The job.  The scheduler queues a run at 00:01, once; alerts of the day before   *)
(* are then older than 20 hours.  The last day stands for all the following ones.   *)
DayBegins ==
  /\ phase = "none"
  /\ day' = IF day < LastDay THEN day + 1 ELSE day
  /\ phase' = "queued" /\ tries' = 1
  /\ alerted' = [v \in Units |-> 0]
  /\ UNCHANGED <<doc, fleetVars, blocked, scan, blockings, told, edits>>

\* a plausible mistake for FoundIn: a vehicle that is blocked is not looked at again
FoundOnlyToBlock ==
  [toBlock |-> {v \in inService : HasExpired(v) /\ v \notin blocked}, toUnblock |-> {}]

FoundIn ==
  [toBlock |-> {v \in inService : HasExpired(v) /\ v \notin blocked},
   toUnblock |-> {v \in inService : ~HasExpired(v) /\ v \in blocked}]

runDailyComplianceCheck ==
  /\ phase = "queued"
  /\ scan' = FoundIn /\ phase' = "found"
  /\ UNCHANGED <<day, doc, fleetVars, tries, blockings, told, alerted, blocked, edits>>

ApplyStatuses ==
  /\ phase = "found"
  /\ blocked' = (blocked \cup scan.toBlock) \ scan.toUnblock
  /\ blockings' = [v \in Units |-> blockings[v] + (IF v \in scan.toBlock THEN 1 ELSE 0)]
  /\ phase' = "applied"
  /\ UNCHANGED <<day, doc, fleetVars, tries, scan, told, alerted, edits>>

TellTo(S) == [v \in Units |-> told[v] + (IF v \in S THEN 1 ELSE 0)]

\* a plausible mistake for TellBlockings: what was found is told before it is written
TellBlockingsFirst ==
  \/ /\ phase = "found" /\ told' = TellTo(scan.toBlock) /\ phase' = "told"
     /\ UNCHANGED <<day, doc, fleetVars, tries, scan, blockings, blocked, alerted, edits>>
  \/ /\ phase = "applied" /\ phase' = "told"
     /\ UNCHANGED <<day, doc, fleetVars, tries, scan, blockings, blocked, told, alerted, edits>>

TellBlockings ==
  /\ phase = "applied"
  /\ told' = TellTo(scan.toBlock)
  /\ phase' = "told"
  /\ UNCHANGED <<day, doc, fleetVars, tries, scan, blockings, blocked, alerted, edits>>

(* notifyManyByRole with dedupeWithinHours: a user is not told of a vehicle twice.  *)
NotYetAlerted == {v \in overdue \cap inService : alerted[v] = 0}

AlertServices ==
  /\ phase = "told"
  /\ alerted' = [v \in Units |-> alerted[v] + (IF v \in NotYetAlerted THEN 1 ELSE 0)]
  /\ phase' = "alerted"
  /\ UNCHANGED <<day, doc, fleetVars, tries, scan, blockings, blocked, told, edits>>

(* The next type of alert, MAINTENANCE_DUE, is sent the same way and not kept.      *)
JobEnds ==
  /\ phase = "alerted"
  /\ phase' = "none" /\ scan' = NoScan /\ tries' = 0
  /\ UNCHANGED <<day, doc, fleetVars, blockings, blocked, told, alerted, edits>>

(* A step throws: the run starts over from its reading, or is given up for the day. *)
JobFails ==
  /\ phase \notin {"none", "queued"}
  /\ scan' = NoScan
  /\ phase' = IF tries < Attempts THEN "queued" ELSE "none"
  /\ tries' = IF tries < Attempts THEN tries + 1 ELSE 0
  /\ UNCHANGED <<day, doc, fleetVars, blockings, blocked, told, alerted, edits>>

JobStep ==
  runDailyComplianceCheck \/ ApplyStatuses \/ TellBlockings \/ AlertServices \/ JobEnds

ComplianceNext ==
  \/ \E d \in DocIds, expiry \in 0..(LastDay + 1) :
       updateDocument(d, expiry) \/ \E v \in Units : createDocument(d, v, expiry)
  \/ \E d \in DocIds : deleteDocument(d)
  \/ \E v \in Units : deactivateVehicle(v) \/ ServiceFallsDue(v)
  \/ DayBegins \/ JobStep \/ JobFails

(* Days pass, the worker runs its job, and the database is not down at the same     *)
(* step of every run for ever.                                                       *)
ComplianceFairness ==
  /\ WF_complianceVars(DayBegins) /\ WF_complianceVars(JobStep)
  /\ SF_complianceVars(ApplyStatuses)

ComplianceSpec ==
  ComplianceInit /\ [][ComplianceNext]_complianceVars /\ ComplianceFairness

-----------------------------------------------------------------------------
(* "Si CUALQUIER documento de un vehiculo esta vencido, la unidad se marca como      *)
(* BLOCKED": however edits, removals, failures and the two halves of the job          *)
(* interleave, once no document changes any more a vehicle in service ends up         *)
(* blocked for good exactly if one of its documents has expired.                      *)
StatusFollowsDocuments ==
  <>[](\A v \in inService : v \in blocked <=> HasExpired(v))

(* No user is told of more blockings of a vehicle than there were, also when the job  *)
(* fails between the writing and the telling and starts over; and ("Dedupe diario")   *)
(* the attempts of one day do not repeat the alert of a vehicle.                      *)
ToldWhatHappened == \A v \in Units : told[v] <= blockings[v] /\ alerted[v] <= 1

=============================================================================
