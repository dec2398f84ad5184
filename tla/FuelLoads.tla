----------------------------- MODULE FuelLoads -----------------------------
(***************************************************************************)
(* Fuel loads: authenticated captures, captures of the public portal that  *)
(* wait for review, the loads left pending by the earlier version, and     *)
(* what each of them does to the budget ledger and to the odometer.        *)
(*                                                                         *)
(* Every operation is one transaction that shares the timeline lock with   *)
(* the ledger's (or, to reject, only locks the row of the load), so it is  *)
(* one step; each one is a step of Budget, or leaves the ledger alone.     *)
(***************************************************************************)
EXTENDS Budget, Sequences

CONSTANTS
  MaxLoads,    \* bound on the loads ever captured
  Readings,    \* odometer readings
  NF           \* a capture whose odometer does not work

ASSUME FuelAssumption ==
  /\ MaxLoads \in Nat
  /\ Readings \subseteq Nat /\ 0 \in Readings /\ NF \notin Nat

VARIABLES
  loads,       \* the rows of fuel_loads, in the order of their ids and dates
  odometer,    \* currentOdometer of each vehicle
  serviced,    \* highest reading among the maintenance records of each vehicle
  blocked,     \* vehicles with status = BLOCKED
  honest,      \* history: no administrator declared an effect that is not a fact
  corrected    \* history: vehicles whose odometer was corrected by hand

fuelVars == <<loads, odometer, serviced, blocked, honest, corrected>>
allVars == <<vars, fuelVars>>

Status == {"PENDING_REVIEW", "APPROVED", "REJECTED"}

(* charged and advanced are facts, not columns: whether spentAmount counts *)
(* the load and whether the odometer was moved by it.                      *)
Load == [vehicle: Vehicles, month: Months, amount: Amounts \ {0},
         odometer: Readings \cup {NF}, status: Status,
         requiresReconciliation: BOOLEAN, charged: BOOLEAN, advanced: BOOLEAN]

-----------------------------------------------------------------------------
Ids == 1..Len(loads)

Pending(i) == loads[i].status = "PENDING_REVIEW"

(* assertNoEarlierPendingFuelLoad: dates first, ids among equal dates *)
NoEarlierPending(i) ==
  \A j \in Ids : (j < i /\ loads[j].vehicle = loads[i].vehicle) => ~Pending(j)

(* The readings that a capture or an approval accepts *)
Advances(v, reading) == reading \in {NF} \cup {r \in Readings : r >= odometer[v]}

OdometerAfter(v, reading) ==
  IF reading = NF THEN odometer ELSE [odometer EXCEPT ![v] = reading]

Operative(v) == v \in active /\ v \notin blocked

(* A load that waits for review keeps its month open, and every later one *)
Deferring(m) == \E i \in Ids : Pending(i) /\ loads[i].month <= m

-----------------------------------------------------------------------------
(* The loads the earlier version left pending may or may not have had effects *)
LegacyLoad ==
  {l \in [vehicle: Vehicles, month: 1..FirstOpen, amount: Amounts \ {0},
          odometer: Readings \cup {NF}, status: {"PENDING_REVIEW"},
          requiresReconciliation: {TRUE}, charged: BOOLEAN, advanced: BOOLEAN] :
     /\ l.charged => HasRow(l.vehicle, l.month) /\ row[l.vehicle][l.month].spentAmount >= l.amount
     /\ l.advanced => l.odometer # NF /\ odometer[l.vehicle] >= l.odometer}

FuelInit ==
  /\ Init
  /\ odometer \in [Vehicles -> Readings]
  /\ serviced = [v \in Vehicles |-> 0]
  /\ blocked = {}
  /\ honest = TRUE
  /\ corrected = {}
  /\ \/ loads = <<>>
     \/ MaxLoads > 0 /\ \E l \in LegacyLoad : loads = <<l>>

-----------------------------------------------------------------------------
(* Capturing *)

NewLoad(v, m, amount, reading, status, charged) ==
  [vehicle |-> v, month |-> m, amount |-> amount, odometer |-> reading,
   status |-> status, requiresReconciliation |-> FALSE,
   charged |-> charged, advanced |-> status = "APPROVED" /\ reading # NF]

(* From the dashboard: approved at once, in the month of the date it states *)
createFuelLoad(v, m, amount, reading) ==
  /\ Len(loads) < MaxLoads
  /\ Operative(v)
  /\ Advances(v, reading)
  /\ checkAndReserveFuelBudget(v, m, amount)
  /\ loads' = Append(loads, NewLoad(v, m, amount, reading, "APPROVED", HasRow(v, m)))
  /\ odometer' = OdometerAfter(v, reading)
  /\ UNCHANGED <<serviced, blocked, honest, corrected>>

\* a plausible mistake for CaptureMonths: the date is taken before the lock
CaptureMonthsBeforeLock == {now, Larger(now - 1, 1)}

(* The months a public capture may be dated in: the date is taken while the *)
(* timeline lock is held.                                                   *)
CaptureMonths == {now}

(* From the public portal: no effects until it is reviewed *)
createPublicFuelLoad(v, amount, reading) ==
  /\ Len(loads) < MaxLoads
  /\ Operative(v)
  /\ Advances(v, reading)
  /\ \E m \in CaptureMonths :
       loads' = Append(loads, NewLoad(v, m, amount, reading, "PENDING_REVIEW", FALSE))
  /\ UNCHANGED <<vars, odometer, serviced, blocked, honest, corrected>>

-----------------------------------------------------------------------------
(* Reviewing *)

Eligible(i) == Operative(loads[i].vehicle) /\ Advances(loads[i].vehicle, loads[i].odometer)

Reviewable(i) == Pending(i) /\ ~loads[i].requiresReconciliation

\* a plausible mistake for ChargedPeriod: the period of the review is charged
PeriodOfReview(i) == now

(* A load is charged to the month it was captured in *)
ChargedPeriod(i) == loads[i].month

approveFuelLoad(i) ==
  LET l == loads[i] IN
  /\ Reviewable(i)
  /\ NoEarlierPending(i)
  /\ Eligible(i)
  /\ checkAndReserveFuelBudget(l.vehicle, ChargedPeriod(i), l.amount)
  /\ loads' = [loads EXCEPT ![i].status = "APPROVED",
                            ![i].charged = HasRow(l.vehicle, ChargedPeriod(i)),
                            ![i].advanced = l.odometer # NF]
  /\ odometer' = OdometerAfter(l.vehicle, l.odometer)
  /\ UNCHANGED <<serviced, blocked, honest, corrected>>

rejectFuelLoad(i) ==
  /\ Reviewable(i)
  /\ loads' = [loads EXCEPT ![i].status = "REJECTED"]
  /\ UNCHANGED <<vars, odometer, serviced, blocked, honest, corrected>>

-----------------------------------------------------------------------------
(* Reconciling a legacy load with the effects an administrator declares *)

BudgetEffects == {"APPLIED", "NOT_APPLIED", "NO_BUDGET"}
OdometerEffects == {"APPLIED", "NOT_APPLIED"}

Reconcilable(i) == Pending(i) /\ loads[i].requiresReconciliation

(* assertBudgetEffectClaim, and no odometer effect without a reading *)
ClaimsPossible(i, budgetEffect, odometerEffect) ==
  /\ budgetEffect = "NO_BUDGET" => ~HasRow(loads[i].vehicle, loads[i].month)
  /\ budgetEffect = "APPLIED" => HasRow(loads[i].vehicle, loads[i].month)
  /\ odometerEffect = "APPLIED" => loads[i].odometer # NF

ClaimsTrue(i, budgetEffect, odometerEffect) ==
  /\ loads[i].charged <=> budgetEffect = "APPLIED"
  /\ loads[i].advanced <=> odometerEffect = "APPLIED"

reconcileApprove(i, budgetEffect, odometerEffect) ==
  LET l == loads[i] IN
  /\ Reconcilable(i)
  /\ ClaimsPossible(i, budgetEffect, odometerEffect)
  /\ NoEarlierPending(i)
  /\ Operative(l.vehicle)
  /\ IF odometerEffect = "APPLIED" THEN odometer[l.vehicle] >= l.odometer
                                   ELSE Advances(l.vehicle, l.odometer)
  /\ IF budgetEffect = "NOT_APPLIED"
       THEN checkAndReserveFuelBudget(l.vehicle, l.month, l.amount)
       ELSE UNCHANGED vars
  /\ loads' = [loads EXCEPT ![i].status = "APPROVED",
                            ![i].requiresReconciliation = FALSE,
                            ![i].charged = l.charged \/ (budgetEffect = "NOT_APPLIED"
                                                         /\ HasRow(l.vehicle, l.month)),
                            ![i].advanced = l.odometer # NF]
  /\ odometer' = IF odometerEffect = "APPLIED" THEN odometer
                                               ELSE OdometerAfter(l.vehicle, l.odometer)
  /\ honest' = (honest /\ ClaimsTrue(i, budgetEffect, odometerEffect))
  /\ UNCHANGED <<serviced, blocked, corrected>>

\* a plausible mistake for AboveEvidence: maintenance is the only evidence looked at
AboveServiced(v, reading) == reading >= serviced[v]

(* The correction may not go below a reading that was approved or serviced *)
AboveEvidence(v, reading) ==
  /\ reading >= serviced[v]
  /\ \A i \in Ids : loads[i].vehicle = v /\ loads[i].status = "APPROVED"
                    /\ loads[i].odometer # NF => reading >= loads[i].odometer

reconcileReject(i, budgetEffect, odometerEffect) ==
  LET l == loads[i] IN
  /\ Reconcilable(i)
  /\ ClaimsPossible(i, budgetEffect, odometerEffect)
  /\ IF budgetEffect = "APPLIED" THEN releaseFuelBudget(l.vehicle, l.month, l.amount)
                                 ELSE UNCHANGED vars
  /\ IF odometerEffect = "APPLIED"
       THEN \E reading \in Readings :
              /\ reading <= odometer[l.vehicle]
              /\ AboveEvidence(l.vehicle, reading)
              /\ odometer' = [odometer EXCEPT ![l.vehicle] = reading]
       ELSE UNCHANGED odometer
  /\ loads' = [loads EXCEPT ![i].status = "REJECTED",
                            ![i].requiresReconciliation = FALSE,
                            ![i].charged = l.charged /\ budgetEffect # "APPLIED"]
  /\ honest' = (honest /\ ClaimsTrue(i, budgetEffect, odometerEffect))
  /\ UNCHANGED <<serviced, blocked, corrected>>

-----------------------------------------------------------------------------
(* What else moves the odometer or the status of a vehicle *)

(* maintenanceRecordService.create, and completeRepair of a ticket *)
recordMaintenance(v, reading) ==
  /\ v \in active
  /\ serviced' = [serviced EXCEPT ![v] = Larger(@, reading)]
  /\ odometer' = [odometer EXCEPT ![v] = Larger(@, reading)]
  /\ UNCHANGED <<vars, loads, blocked, honest, corrected>>

(* maintenanceRecordService.update and remove leave the odometer as it is *)
editMaintenance(v, reading) ==
  /\ v \in active
  /\ serviced' = [serviced EXCEPT ![v] = reading]
  /\ UNCHANGED <<vars, loads, odometer, blocked, honest, corrected>>

correctVehicleOdometer(v, reading) ==
  /\ v \in active
  /\ odometer' = [odometer EXCEPT ![v] = reading]
  /\ corrected' = corrected \cup {v}
  /\ UNCHANGED <<vars, loads, serviced, blocked, honest>>

(* Documents expire and are renewed *)
checkVehicleCompliance(v) ==
  /\ \E hasExpiredDocs \in BOOLEAN :
       blocked' = IF hasExpiredDocs THEN blocked \cup {v} ELSE blocked \ {v}
  /\ UNCHANGED <<vars, loads, odometer, serviced, honest, corrected>>

-----------------------------------------------------------------------------
Ledger ==
  /\ \/ Administer
     \/ \E m \in Months : closeMonthAndRollover(m, Deferring(m))
  /\ UNCHANGED fuelVars

Capture ==
  \E v \in Vehicles, amount \in Amounts \ {0}, reading \in Readings \cup {NF} :
    \/ createPublicFuelLoad(v, amount, reading)
    \/ \E m \in Months : createFuelLoad(v, m, amount, reading)

Review ==
  \E i \in Ids :
    \/ approveFuelLoad(i)
    \/ rejectFuelLoad(i)
    \/ \E budgetEffect \in BudgetEffects, odometerEffect \in OdometerEffects :
         \/ reconcileApprove(i, budgetEffect, odometerEffect)
         \/ reconcileReject(i, budgetEffect, odometerEffect)

Vehicle ==
  \E v \in Vehicles :
    \/ checkVehicleCompliance(v)
    \/ \E reading \in Readings :
         \/ recordMaintenance(v, reading)
         \/ editMaintenance(v, reading)
         \/ correctVehicleOdometer(v, reading)

FuelNext == Ledger \/ Capture \/ Review \/ Vehicle

FuelSpec == FuelInit /\ [][FuelNext]_allVars

-----------------------------------------------------------------------------
(* Properties *)

FuelTypeOK ==
  /\ TypeOK
  /\ loads \in Seq(Load) /\ Len(loads) <= MaxLoads
  /\ odometer \in [Vehicles -> Readings] /\ serviced \in [Vehicles -> Readings]
  /\ blocked \subseteq Vehicles /\ corrected \subseteq Vehicles
  /\ honest \in BOOLEAN

(* A capture that waits for review keeps its month, and those after it, open: *)
(* approving it is never refused because its budget period was closed while   *)
(* it waited.                                                                 *)
PendingKeepsPeriodOpen ==
  \A i \in Ids : Pending(i) /\ ~loads[i].requiresReconciliation
                   => PeriodOpen(loads[i].month)

Charged(v, m) ==
  LET mine == {i \in Ids : loads[i].vehicle = v /\ loads[i].month = m /\ loads[i].charged}
  IN  SumFunctionOnSet([i \in mine |-> loads[i].amount], mine)

SpentOf(v, m) == IF HasRow(v, m) THEN row[v][m].spentAmount ELSE 0

(* As long as administrators declare facts, the ledger moves exactly with the *)
(* loads: what a month counts as spent changes by what starts or stops being  *)
(* charged to it, so no load is charged twice, released twice or forgotten.   *)
SpendingFollowsLoads ==
  [][honest' => \A v \in Vehicles, m \in Months :
       SpentOf(v, m)' - SpentOf(v, m) = Charged(v, m)' - Charged(v, m)]_allVars

(* ... and a rejected load leaves no charge behind. *)
RejectedNotCharged ==
  honest => \A i \in Ids : loads[i].status = "REJECTED" => ~loads[i].charged

(* The odometer of a vehicle that was not corrected by hand is never below an *)
(* approved reading, whatever was declared when legacy loads were reconciled. *)
OdometerCoversApproved ==
  \A i \in Ids : loads[i].status = "APPROVED" /\ loads[i].odometer # NF
                 /\ loads[i].vehicle \notin corrected
                   => odometer[loads[i].vehicle] >= loads[i].odometer

=============================================================================
