----------------------------- MODULE FuelProofs -----------------------------
(***************************************************************************)
(* Proofs about the fuel loads, for any fleet, calendar, amounts, readings *)
(* and number of loads: they implement the budget ledger, and what is      *)
(* proved of the ledger holds of them.                                     *)
(***************************************************************************)
EXTENDS FuelLoads, BudgetProofs, SequenceTheorems

-----------------------------------------------------------------------------
(* The table of loads *)

(* What the handlers write to a load never changes what was captured. *)
SameCapture(l, k) ==
  /\ l.vehicle = k.vehicle /\ l.month = k.month
  /\ l.amount = k.amount /\ l.odometer = k.odometer

(* The three shapes of an update of one load. *)
LEMMA LoadUpdates ==
  ASSUME NEW l \in Load, NEW s \in Status, NEW q \in BOOLEAN, NEW c \in BOOLEAN, NEW a \in BOOLEAN
  PROVE  /\ [l EXCEPT !.status = s] \in Load
         /\ [l EXCEPT !.status = s, !.charged = c, !.advanced = a] \in Load
         /\ [l EXCEPT !.status = s, !.requiresReconciliation = q, !.charged = c] \in Load
         /\ [l EXCEPT !.status = s, !.requiresReconciliation = q, !.charged = c, !.advanced = a]
              \in Load
         /\ SameCapture([l EXCEPT !.status = s], l)
         /\ SameCapture([l EXCEPT !.status = s, !.charged = c, !.advanced = a], l)
         /\ SameCapture([l EXCEPT !.status = s, !.requiresReconciliation = q, !.charged = c], l)
         /\ SameCapture([l EXCEPT !.status = s, !.requiresReconciliation = q,
                                  !.charged = c, !.advanced = a], l)
BY DEF Load, SameCapture

(* A capture is a load. *)
LEMMA NewLoadIsLoad ==
  ASSUME NEW v \in Vehicles, NEW m \in Months, NEW amount \in Amounts \ {0},
         NEW reading \in Readings \cup {NF}, NEW status \in Status, NEW charged \in BOOLEAN
  PROVE  NewLoad(v, m, amount, reading, status, charged) \in Load
BY DEF NewLoad, Load

(* A step of the table appends a capture, rewrites one load, or leaves it. *)
Appends == \E l \in Load : loads' = Append(loads, l)
Rewrites(i, l) == l \in Load /\ SameCapture(l, loads[i]) /\ loads' = [loads EXCEPT ![i] = l]

LEMMA ApproveRewrites ==
  ASSUME loads \in Seq(Load), NEW i \in Ids, approveFuelLoad(i)
  PROVE  \E l : /\ Rewrites(i, l) /\ l.status = "APPROVED"
                /\ l.requiresReconciliation = loads[i].requiresReconciliation
                /\ l.charged = HasRow(loads[i].vehicle, ChargedPeriod(i))
<1>1. loads[i] \in Load /\ i \in DOMAIN loads
  BY DEF Ids
<1> DEFINE c == HasRow(loads[i].vehicle, ChargedPeriod(i))
           a == loads[i].odometer # NF
           l == [loads[i] EXCEPT !.status = "APPROVED", !.charged = c, !.advanced = a]
<1>2. l \in Load /\ SameCapture(l, loads[i])
  <2>1. c \in BOOLEAN /\ a \in BOOLEAN /\ "APPROVED" \in Status
    BY DEF HasRow, Status
  <2> HIDE DEF c, a
  <2> QED
    BY <1>1, <2>1, LoadUpdates
<1>3. loads' = [loads EXCEPT ![i].status = "APPROVED", ![i].charged = c, ![i].advanced = a]
  BY DEF approveFuelLoad
<1> HIDE DEF c, a
<1>4. loads' = [loads EXCEPT ![i] = l]
  BY <1>1, <1>3
<1>5. /\ l.status = "APPROVED" /\ l.requiresReconciliation = loads[i].requiresReconciliation
      /\ l.charged = c
  BY <1>1 DEF Load
<1> QED
  BY <1>2, <1>4, <1>5 DEF Rewrites, c

LEMMA RejectRewrites ==
  ASSUME loads \in Seq(Load), NEW i \in Ids, rejectFuelLoad(i)
  PROVE  \E l : /\ Rewrites(i, l) /\ l.status = "REJECTED"
                /\ l.charged = loads[i].charged
<1>1. loads[i] \in Load /\ i \in DOMAIN loads
  BY DEF Ids
<1> DEFINE l == [loads[i] EXCEPT !.status = "REJECTED"]
<1>2. l \in Load /\ SameCapture(l, loads[i])
  BY <1>1, LoadUpdates DEF Status
<1>3. loads' = [loads EXCEPT ![i] = l]
  BY <1>1 DEF rejectFuelLoad
<1>4. l.status = "REJECTED" /\ l.charged = loads[i].charged
  BY <1>1 DEF Load
<1> QED
  BY <1>2, <1>3, <1>4 DEF Rewrites

LEMMA ReconcileApproveRewrites ==
  ASSUME loads \in Seq(Load), NEW i \in Ids, NEW b, NEW o, reconcileApprove(i, b, o)
  PROVE  \E l : /\ Rewrites(i, l) /\ l.status = "APPROVED"
                /\ l.charged = (\/ loads[i].charged
                                \/ b = "NOT_APPLIED" /\ HasRow(loads[i].vehicle, loads[i].month))
<1>1. loads[i] \in Load /\ i \in DOMAIN loads
  BY DEF Ids
<1> DEFINE c == loads[i].charged \/ (b = "NOT_APPLIED" /\ HasRow(loads[i].vehicle, loads[i].month))
           a == loads[i].odometer # NF
           l == [loads[i] EXCEPT !.status = "APPROVED", !.requiresReconciliation = FALSE,
                                 !.charged = c, !.advanced = a]
<1>2. l \in Load /\ SameCapture(l, loads[i])
  <2>1. c \in BOOLEAN /\ a \in BOOLEAN /\ "APPROVED" \in Status
    BY DEF HasRow, Status
  <2> HIDE DEF c, a
  <2> QED
    BY <1>1, <2>1, LoadUpdates
<1>3. loads' = [loads EXCEPT ![i].status = "APPROVED", ![i].requiresReconciliation = FALSE,
                             ![i].charged = c, ![i].advanced = a]
  BY DEF reconcileApprove
<1> HIDE DEF c, a
<1>4. loads' = [loads EXCEPT ![i] = l]
  BY <1>1, <1>3
<1>5. l.status = "APPROVED" /\ l.charged = c
  BY <1>1 DEF Load
<1> QED
  BY <1>2, <1>4, <1>5 DEF Rewrites, c

LEMMA ReconcileRejectRewrites ==
  ASSUME loads \in Seq(Load), NEW i \in Ids, NEW b, NEW o, reconcileReject(i, b, o)
  PROVE  \E l : /\ Rewrites(i, l) /\ l.status = "REJECTED"
                /\ l.charged = (loads[i].charged /\ b # "APPLIED")
<1>1. loads[i] \in Load /\ i \in DOMAIN loads
  BY DEF Ids
<1> DEFINE c == loads[i].charged /\ b # "APPLIED"
           l == [loads[i] EXCEPT !.status = "REJECTED", !.requiresReconciliation = FALSE,
                                 !.charged = c]
<1>2. l \in Load /\ SameCapture(l, loads[i])
  <2>1. c \in BOOLEAN /\ "REJECTED" \in Status
    BY DEF Status
  <2> HIDE DEF c
  <2> QED
    BY <1>1, <2>1, LoadUpdates
<1>3. loads' = [loads EXCEPT ![i].status = "REJECTED", ![i].requiresReconciliation = FALSE,
                             ![i].charged = c]
  BY DEF reconcileReject
<1>4. loads' = [loads EXCEPT ![i] = l] /\ l.status = "REJECTED" /\ l.charged = c
  <2> HIDE DEF c
  <2> QED
    BY <1>1, <1>3 DEF Load
<1> QED
  BY <1>2, <1>4 DEF Rewrites

LEMMA RewrittenTable ==
  ASSUME loads \in Seq(Load), NEW i \in Ids, NEW l, Rewrites(i, l)
  PROVE  /\ loads' \in Seq(Load) /\ Len(loads') = Len(loads) /\ Ids' = Ids
         /\ loads'[i] = l
         /\ \A j \in Ids : j # i => loads'[j] = loads[j]
<1>1. loads' = [loads EXCEPT ![i] = l] /\ l \in Load
  BY DEF Rewrites
<1> QED
  BY <1>1, ExceptSeq DEF Ids

LEMMA AppendedTable ==
  ASSUME loads \in Seq(Load), NEW l \in Load, loads' = Append(loads, l)
  PROVE  /\ loads' \in Seq(Load) /\ Len(loads') = Len(loads) + 1
         /\ Ids' = Ids \cup {Len(loads) + 1}
         /\ loads'[Len(loads) + 1] = l
         /\ \A j \in Ids : loads'[j] = loads[j]
<1>1. Len(loads) \in Nat
  BY LenProperties
<1>2. /\ loads' \in Seq(Load) /\ Len(loads') = Len(loads) + 1
      /\ \A j \in 1..Len(loads) : loads'[j] = loads[j]
      /\ loads'[Len(loads) + 1] = l
  BY AppendProperties
<1> QED
  BY <1>1, <1>2 DEF Ids

-----------------------------------------------------------------------------
(* Every step of the fuel loads is a step of the ledger *)

(* The parts of FuelTypeOK that are not the ledger's. *)
LoadsTyped ==
  /\ loads \in Seq(Load) /\ Len(loads) <= MaxLoads
  /\ odometer \in [Vehicles -> Readings] /\ serviced \in [Vehicles -> Readings]
  /\ blocked \subseteq Vehicles /\ corrected \subseteq Vehicles
  /\ honest \in BOOLEAN

LEMMA LoadFields ==
  ASSUME loads \in Seq(Load), NEW i \in Ids
  PROVE  /\ loads[i] \in Load
         /\ loads[i].vehicle \in Vehicles /\ loads[i].month \in Months
         /\ loads[i].amount \in Amounts \ {0} /\ loads[i].amount \in Nat
         /\ loads[i].odometer \in Readings \cup {NF}
<1>1. loads[i] \in Load
  BY DEF Ids
<1> QED
  BY <1>1, BudgetAssumption DEF Load

(* What one request does to the ledger. *)
LEMMA LedgerSteps ==
  ASSUME LoadsTyped, [FuelNext]_allVars
  PROVE  \/ \E m \in Months : closeMonthAndRollover(m, Deferring(m)) /\ UNCHANGED fuelVars
         \/ Administer
         \/ \E v \in Vehicles, m \in Months, amount \in Amounts \ {0} :
              \/ checkAndReserveFuelBudget(v, m, amount)
              \/ releaseFuelBudget(v, m, amount)
         \/ UNCHANGED vars
<1>1. loads \in Seq(Load)
  BY DEF LoadsTyped
<1>2. CASE Ledger
  BY <1>2 DEF Ledger
<1>3. CASE Capture
  BY <1>3 DEF Capture, createFuelLoad, createPublicFuelLoad, vars
<1>4. CASE Review
  <2> SUFFICES ASSUME NEW i \in Ids,
                      \/ approveFuelLoad(i)
                      \/ rejectFuelLoad(i)
                      \/ \E b \in BudgetEffects, o \in OdometerEffects :
                           reconcileApprove(i, b, o) \/ reconcileReject(i, b, o)
               PROVE  \/ \E v \in Vehicles, m \in Months, amount \in Amounts \ {0} :
                           \/ checkAndReserveFuelBudget(v, m, amount)
                           \/ releaseFuelBudget(v, m, amount)
                      \/ UNCHANGED vars
    BY <1>4 DEF Review
  <2>1. /\ loads[i].vehicle \in Vehicles /\ loads[i].month \in Months
        /\ loads[i].amount \in Amounts \ {0}
    BY <1>1, LoadFields
  <2>2. \/ checkAndReserveFuelBudget(loads[i].vehicle, loads[i].month, loads[i].amount)
        \/ releaseFuelBudget(loads[i].vehicle, loads[i].month, loads[i].amount)
        \/ UNCHANGED vars
    <3>1. CASE approveFuelLoad(i)
      BY <3>1 DEF approveFuelLoad, ChargedPeriod
    <3>2. CASE rejectFuelLoad(i)
      BY <3>2 DEF rejectFuelLoad
    <3>3. ASSUME NEW b, NEW o, reconcileApprove(i, b, o)
          PROVE  \/ checkAndReserveFuelBudget(loads[i].vehicle, loads[i].month, loads[i].amount)
                 \/ UNCHANGED vars
      BY <3>3 DEF reconcileApprove
    <3>4. ASSUME NEW b, NEW o, reconcileReject(i, b, o)
          PROVE  \/ releaseFuelBudget(loads[i].vehicle, loads[i].month, loads[i].amount)
                 \/ UNCHANGED vars
      BY <3>4 DEF reconcileReject
    <3> QED
      BY <3>1, <3>2, <3>3, <3>4
  <2> QED
    BY <2>1, <2>2
<1>5. CASE Vehicle
  BY <1>5 DEF Vehicle, checkVehicleCompliance, recordMaintenance, editMaintenance,
              correctVehicleOdometer, vars
<1>6. CASE UNCHANGED allVars
  BY <1>6 DEF allVars
<1> QED
  BY <1>2, <1>3, <1>4, <1>5, <1>6 DEF FuelNext

LEMMA StepIsLedgerStep ==
  ASSUME LoadsTyped, [FuelNext]_allVars
  PROVE  [Next]_vars
<1>1. \A m \in Months : Deferring(m) \in BOOLEAN
  BY DEF Deferring
<1> QED
  BY <1>1, LedgerSteps DEF Next

-----------------------------------------------------------------------------
(* Types *)

LEMMA InitLoadsTyped == FuelInit => LoadsTyped
<1> SUFFICES ASSUME FuelInit
             PROVE  LoadsTyped
  OBVIOUS
<1>1. LegacyLoad \subseteq Load
  <2>1. 1..FirstOpen \subseteq Months /\ "PENDING_REVIEW" \in Status
    BY BudgetAssumption DEF Months, Status
  <2> QED
    BY <2>1 DEF LegacyLoad, Load
<1>2. loads \in Seq(Load) /\ Len(loads) <= MaxLoads
  <2>1. CASE loads = <<>>
    BY <2>1, FuelAssumption
  <2>2. CASE MaxLoads > 0 /\ \E l \in LegacyLoad : loads = <<l>>
    BY <1>1, <2>2, FuelAssumption
  <2> QED
    BY <2>1, <2>2 DEF FuelInit
<1> QED
  BY <1>2, FuelAssumption DEF FuelInit, LoadsTyped

(* The readings that come in are those of captures and corrections. *)
LEMMA OdometerAfterType ==
  ASSUME LoadsTyped, NEW v \in Vehicles, NEW reading \in Readings \cup {NF}
  PROVE  OdometerAfter(v, reading) \in [Vehicles -> Readings]
BY DEF LoadsTyped, OdometerAfter

LEMMA CaptureTyped ==
  ASSUME TypeOK, LoadsTyped, NEW v \in Vehicles, NEW amount \in Amounts \ {0},
         NEW reading \in Readings \cup {NF},
         \/ createPublicFuelLoad(v, amount, reading)
         \/ \E m \in Months : createFuelLoad(v, m, amount, reading)
  PROVE  LoadsTyped'
<1>1. loads \in Seq(Load) /\ Len(loads) \in Nat
  BY LenProperties DEF LoadsTyped
<1>2. ASSUME createPublicFuelLoad(v, amount, reading)
      PROVE  LoadsTyped'
  <2>1. now \in Months
    BY DEF TypeOK
  <2>2. NewLoad(v, now, amount, reading, "PENDING_REVIEW", FALSE) \in Load
    BY <2>1, NewLoadIsLoad DEF Status
  <2>3. loads' = Append(loads, NewLoad(v, now, amount, reading, "PENDING_REVIEW", FALSE))
    BY <1>2 DEF createPublicFuelLoad, CaptureMonths
  <2>4. loads' \in Seq(Load) /\ Len(loads') = Len(loads) + 1
    BY <1>1, <2>2, <2>3, AppendedTable
  <2>5. /\ Len(loads) < MaxLoads
        /\ UNCHANGED <<odometer, serviced, blocked, corrected, honest>>
    BY <1>2 DEF createPublicFuelLoad
  <2> QED
    BY <1>1, <2>4, <2>5, FuelAssumption DEF LoadsTyped
<1>3. ASSUME NEW m \in Months, createFuelLoad(v, m, amount, reading)
      PROVE  LoadsTyped'
  <2>1. HasRow(v, m) \in BOOLEAN
    BY DEF HasRow
  <2>2. NewLoad(v, m, amount, reading, "APPROVED", HasRow(v, m)) \in Load
    BY <2>1, NewLoadIsLoad DEF Status
  <2>3. loads' = Append(loads, NewLoad(v, m, amount, reading, "APPROVED", HasRow(v, m)))
    BY <1>3 DEF createFuelLoad
  <2>4. loads' \in Seq(Load) /\ Len(loads') = Len(loads) + 1
    BY <1>1, <2>2, <2>3, AppendedTable
  <2>5. odometer' \in [Vehicles -> Readings]
    BY <1>3, OdometerAfterType DEF createFuelLoad
  <2> QED
    BY <1>1, <1>3, <2>4, <2>5, FuelAssumption DEF createFuelLoad, LoadsTyped
<1> QED
  BY <1>2, <1>3

LEMMA ReviewTyped ==
  ASSUME LoadsTyped, NEW i \in Ids,
         \/ approveFuelLoad(i)
         \/ rejectFuelLoad(i)
         \/ \E b \in BudgetEffects, o \in OdometerEffects :
              reconcileApprove(i, b, o) \/ reconcileReject(i, b, o)
  PROVE  LoadsTyped'
<1>1. loads \in Seq(Load)
  BY DEF LoadsTyped
<1>2. loads[i].vehicle \in Vehicles /\ loads[i].odometer \in Readings \cup {NF}
  BY <1>1, LoadFields
<1>3. loads' \in Seq(Load) /\ Len(loads') = Len(loads)
  BY <1>1, ApproveRewrites, RejectRewrites, ReconcileApproveRewrites,
     ReconcileRejectRewrites, RewrittenTable
<1>4. /\ odometer' \in [Vehicles -> Readings]
      /\ serviced' = serviced /\ blocked' = blocked /\ corrected' = corrected
      /\ honest' \in BOOLEAN
  <2>1. CASE approveFuelLoad(i)
    BY <1>2, <2>1, OdometerAfterType DEF approveFuelLoad, LoadsTyped
  <2>2. CASE rejectFuelLoad(i)
    BY <2>2 DEF rejectFuelLoad, LoadsTyped
  <2>3. ASSUME NEW b, NEW o, reconcileApprove(i, b, o)
        PROVE  /\ odometer' \in [Vehicles -> Readings]
               /\ serviced' = serviced /\ blocked' = blocked /\ corrected' = corrected
               /\ honest' \in BOOLEAN
    BY <1>2, <2>3, OdometerAfterType DEF reconcileApprove, LoadsTyped, ClaimsTrue
  <2>4. ASSUME NEW b, NEW o, reconcileReject(i, b, o)
        PROVE  /\ odometer' \in [Vehicles -> Readings]
               /\ serviced' = serviced /\ blocked' = blocked /\ corrected' = corrected
               /\ honest' \in BOOLEAN
    BY <1>2, <2>4 DEF reconcileReject, LoadsTyped, ClaimsTrue
  <2> QED
    BY <2>1, <2>2, <2>3, <2>4
<1> QED
  BY <1>3, <1>4 DEF LoadsTyped

LEMMA VehicleTyped ==
  ASSUME LoadsTyped, NEW v \in Vehicles,
         \/ checkVehicleCompliance(v)
         \/ \E reading \in Readings :
              \/ recordMaintenance(v, reading)
              \/ editMaintenance(v, reading)
              \/ correctVehicleOdometer(v, reading)
  PROVE  LoadsTyped'
<1>1. CASE checkVehicleCompliance(v)
  BY <1>1 DEF checkVehicleCompliance, LoadsTyped
<1>2. ASSUME NEW reading \in Readings, recordMaintenance(v, reading)
      PROVE  LoadsTyped'
  BY <1>2 DEF recordMaintenance, LoadsTyped, Larger
<1>3. ASSUME NEW reading \in Readings, editMaintenance(v, reading)
      PROVE  LoadsTyped'
  BY <1>3 DEF editMaintenance, LoadsTyped
<1>4. ASSUME NEW reading \in Readings, correctVehicleOdometer(v, reading)
      PROVE  LoadsTyped'
  BY <1>4 DEF correctVehicleOdometer, LoadsTyped
<1> QED
  BY <1>1, <1>2, <1>3, <1>4

LEMMA StepLoadsTyped ==
  ASSUME TypeOK, LoadsTyped, [FuelNext]_allVars
  PROVE  LoadsTyped'
<1>1. CASE Ledger
  BY <1>1 DEF Ledger, fuelVars, LoadsTyped
<1>2. CASE Capture
  BY <1>2, CaptureTyped DEF Capture
<1>3. CASE Review
  BY <1>3, ReviewTyped DEF Review
<1>4. CASE Vehicle
  BY <1>4, VehicleTyped DEF Vehicle
<1>5. CASE UNCHANGED allVars
  BY <1>5 DEF allVars, fuelVars, LoadsTyped
<1> QED
  BY <1>1, <1>2, <1>3, <1>4, <1>5 DEF FuelNext

(* The tables of loads, odometers and rows keep their types, for any fleet    *)
(* and calendar and any number of loads.                                      *)
THEOREM FuelTypeCorrect == FuelSpec => []FuelTypeOK
<1>1. FuelInit => TypeOK /\ LoadsTyped
  BY InitTypeOK, InitLoadsTyped DEF FuelInit
<1>2. TypeOK /\ LoadsTyped /\ [FuelNext]_allVars => (TypeOK /\ LoadsTyped)'
  BY StepIsLedgerStep, StepTypeOK, StepLoadsTyped
<1>3. TypeOK /\ LoadsTyped => FuelTypeOK
  BY DEF LoadsTyped, FuelTypeOK
<1> QED
  BY <1>1, <1>2, <1>3, PTL DEF FuelSpec

LEMMA LoadsStayTyped == FuelSpec => [](TypeOK /\ LoadsTyped)
<1>1. FuelTypeOK => TypeOK /\ LoadsTyped
  BY DEF LoadsTyped, FuelTypeOK
<1> QED
  BY <1>1, FuelTypeCorrect, PTL

(* Capturing, reviewing and reconciling loads implements the ledger: whatever *)
(* is proved of Budget holds of the program that runs on it.                  *)
THEOREM FuelImplementsLedger == FuelSpec => Spec
<1>1. FuelInit => Init
  BY DEF FuelInit
<1>2. LoadsTyped /\ [FuelNext]_allVars => [Next]_vars
  BY StepIsLedgerStep
<1> QED
  BY <1>1, <1>2, LoadsStayTyped, PTL DEF FuelSpec, Spec

-----------------------------------------------------------------------------
(* A capture under review keeps its month open *)

Waits(i) == Pending(i) /\ ~loads[i].requiresReconciliation

(* A load that waits after a step waited before it, or was captured by it in *)
(* the current month.                                                        *)
LEMMA WaitingLoads ==
  ASSUME TypeOK, LoadsTyped, [FuelNext]_allVars, NEW i \in Ids', Waits(i)'
  PROVE  \/ i \in Ids /\ Waits(i) /\ loads'[i] = loads[i]
         \/ loads'[i].month = now /\ loads'[i].charged = FALSE /\ UNCHANGED vars
<1>1. loads \in Seq(Load) /\ Len(loads) \in Nat
  BY LenProperties DEF LoadsTyped
<1>2. CASE loads' = loads
  BY <1>2 DEF Waits, Pending, Ids
<1>3. ASSUME NEW l \in Load, loads' = Append(loads, l), l.status # "PENDING_REVIEW"
      PROVE  i \in Ids /\ Waits(i) /\ loads'[i] = loads[i]
  BY <1>1, <1>3, AppendedTable DEF Waits, Pending
<1>4. ASSUME NEW j \in Ids, NEW l, Rewrites(j, l), l.status # "PENDING_REVIEW"
      PROVE  i \in Ids /\ Waits(i) /\ loads'[i] = loads[i]
  BY <1>1, <1>4, RewrittenTable DEF Waits, Pending
<1>5. CASE Ledger \/ Vehicle \/ UNCHANGED allVars
  BY <1>2, <1>5 DEF Ledger, Vehicle, checkVehicleCompliance, recordMaintenance, editMaintenance,
                    correctVehicleOdometer, fuelVars, allVars
<1>6. ASSUME NEW v \in Vehicles, NEW amount \in Amounts \ {0}, NEW reading \in Readings \cup {NF},
             createPublicFuelLoad(v, amount, reading)
      PROVE  \/ i \in Ids /\ Waits(i) /\ loads'[i] = loads[i]
             \/ loads'[i].month = now /\ loads'[i].charged = FALSE /\ UNCHANGED vars
  <2> DEFINE l == NewLoad(v, now, amount, reading, "PENDING_REVIEW", FALSE)
  <2>1. l \in Load /\ l.month = now /\ l.charged = FALSE
    BY NewLoadIsLoad DEF TypeOK, NewLoad, Status
  <2>2. loads' = Append(loads, l) /\ UNCHANGED vars
    BY <1>6 DEF createPublicFuelLoad, CaptureMonths, vars
  <2> HIDE DEF l
  <2>3. i = Len(loads) + 1 \/ (i \in Ids /\ loads'[i] = loads[i])
    BY <1>1, <2>1, <2>2, AppendedTable
  <2>4. loads'[Len(loads) + 1] = l
    BY <1>1, <2>1, <2>2, AppendedTable
  <2> QED
    BY <2>1, <2>2, <2>3, <2>4 DEF Waits, Pending
<1>7. ASSUME NEW v \in Vehicles, NEW amount \in Amounts \ {0}, NEW reading \in Readings \cup {NF},
             NEW m \in Months, createFuelLoad(v, m, amount, reading)
      PROVE  i \in Ids /\ Waits(i) /\ loads'[i] = loads[i]
  <2> DEFINE l == NewLoad(v, m, amount, reading, "APPROVED", HasRow(v, m))
  <2>1. l \in Load /\ l.status # "PENDING_REVIEW"
    BY NewLoadIsLoad, ZenonT(40) DEF NewLoad, Status, HasRow
  <2>2. loads' = Append(loads, l)
    BY <1>7 DEF createFuelLoad
  <2> HIDE DEF l
  <2> QED
    BY <1>3, <2>1, <2>2
<1>8. CASE Review
  BY <1>1, <1>4, <1>8, ApproveRewrites, RejectRewrites, ReconcileApproveRewrites,
     ReconcileRejectRewrites DEF Review
<1> QED
  BY <1>5, <1>6, <1>7, <1>8 DEF FuelNext, Capture

(* The loads of the earlier version wait for reconciliation. *)
LEMMA InitLoads ==
  ASSUME FuelInit
  PROVE  \A i \in Ids : Pending(i) /\ loads[i].requiresReconciliation
<1>1. CASE loads = <<>>
  BY <1>1 DEF Ids
<1>2. ASSUME NEW l \in LegacyLoad, loads = <<l>>
      PROVE  \A i \in Ids : Pending(i) /\ loads[i].requiresReconciliation
  <2>1. l.status = "PENDING_REVIEW" /\ l.requiresReconciliation = TRUE
    BY DEF LegacyLoad
  <2>2. \A i \in Ids : loads[i] = l
    BY <1>2 DEF Ids
  <2> QED
    BY <2>1, <2>2 DEF Pending
<1> QED
  BY <1>1, <1>2 DEF FuelInit

LEMMA StepPendingKeepsPeriodOpen ==
  ASSUME TypeOK, LoadsTyped, ClosedIsPast, PendingKeepsPeriodOpen, [FuelNext]_allVars
  PROVE  PendingKeepsPeriodOpen'
<1> SUFFICES ASSUME NEW i \in Ids', Waits(i)', NEW n \in Months, n >= loads'[i].month
             PROVE  ~isBudgetPeriodClosed(n)'
  <2>1. \A j \in Ids' : loads'[j].month \in Months
    <3>1. loads' \in Seq(Load)
      BY StepLoadsTyped DEF LoadsTyped
    <3>2. ASSUME NEW j \in 1..Len(loads')
          PROVE  loads'[j] \in Load
      BY <3>1, <3>2
    <3>3. Ids' = 1..Len(loads')
      BY DEF Ids
    <3>4. \A k \in Load : k.month \in Months
      BY DEF Load
    <3> QED
      BY <3>2, <3>3, <3>4
  <2> QED
    BY <2>1, BudgetAssumption DEF PendingKeepsPeriodOpen, Waits, PeriodOpen, Months
<1>1. CASE loads'[i].month = now /\ UNCHANGED vars
  <2>1. ~isBudgetPeriodClosed(n)
    BY <1>1, BudgetAssumption DEF ClosedIsPast, TypeOK, Months
  <2> QED
    BY <1>1, <2>1 DEF vars, isBudgetPeriodClosed, IsClosed, HasRow
<1>2. CASE i \in Ids /\ Waits(i) /\ loads'[i] = loads[i]
  <2>1. loads[i].month \in Months
    BY <1>2, LoadFields DEF LoadsTyped
  <2>2. ~isBudgetPeriodClosed(n)
    BY <1>2, <2>1, BudgetAssumption DEF PendingKeepsPeriodOpen, Waits, PeriodOpen, Months
  <2>3. ASSUME NEW m \in Months, closeMonthAndRollover(m, Deferring(m))
        PROVE  ~isBudgetPeriodClosed(n)'
    <3>1. ~Deferring(m)
      BY <2>3 DEF closeMonthAndRollover
    <3>2. ~(loads[i].month <= m)
      BY <1>2, <3>1 DEF Deferring, Waits
    <3>3. n # m
      BY <1>2, <2>1, <3>2, BudgetAssumption DEF Months
    <3> QED
      BY <2>2, <2>3, <3>3, CloseClosesOne
  <2>4. Amounts \ {0} \subseteq Nat
    BY BudgetAssumption
  <2> QED
    BY <2>2, <2>3, <2>4, LedgerSteps, OthersCloseNothing
<1> QED
  BY <1>1, <1>2, WaitingLoads

(* For any fleet, calendar and number of loads, the period of a capture that  *)
(* waits for review stays open until it is reviewed.                          *)
THEOREM PendingStaysChargeable == FuelSpec => []PendingKeepsPeriodOpen
<1>1. FuelInit => PendingKeepsPeriodOpen
  BY InitLoads DEF PendingKeepsPeriodOpen
<1>2. TypeOK /\ LoadsTyped /\ ClosedIsPast /\ PendingKeepsPeriodOpen /\ [FuelNext]_allVars
        => PendingKeepsPeriodOpen'
  BY StepPendingKeepsPeriodOpen
<1> QED
  BY <1>1, <1>2, LoadsStayTyped, FuelImplementsLedger, ClosedMonthsArePast, PTL DEF FuelSpec

-----------------------------------------------------------------------------
(* A rejected load leaves no charge behind *)

(* Until it is reviewed, a capture has not been charged. *)
WaitingNotCharged == \A i \in Ids : Waits(i) => ~loads[i].charged

LEMMA StepWaitingNotCharged ==
  ASSUME TypeOK, LoadsTyped, WaitingNotCharged, [FuelNext]_allVars
  PROVE  WaitingNotCharged'
<1> SUFFICES ASSUME NEW i \in Ids', Waits(i)'
             PROVE  ~loads'[i].charged
  BY DEF WaitingNotCharged
<1> QED
  BY WaitingLoads DEF WaitingNotCharged

(* Which loads a step rejects, and what is charged of them then. *)
LEMMA RejectedLoads ==
  ASSUME TypeOK, LoadsTyped, WaitingNotCharged, [FuelNext]_allVars,
         NEW i \in Ids', loads'[i].status = "REJECTED", honest'
  PROVE  \/ i \in Ids /\ loads'[i] = loads[i]
         \/ ~loads'[i].charged
<1>1. loads \in Seq(Load) /\ Len(loads) \in Nat
  BY LenProperties DEF LoadsTyped
<1>2. CASE loads' = loads
  BY <1>2 DEF Ids
<1>3. ASSUME NEW l \in Load, loads' = Append(loads, l), l.status # "REJECTED"
      PROVE  i \in Ids /\ loads'[i] = loads[i]
  BY <1>1, <1>3, AppendedTable
<1>4. CASE Ledger \/ Vehicle \/ UNCHANGED allVars
  BY <1>2, <1>4 DEF Ledger, Vehicle, checkVehicleCompliance, recordMaintenance, editMaintenance,
                    correctVehicleOdometer, fuelVars, allVars
<1>5. ASSUME NEW v \in Vehicles, NEW amount \in Amounts \ {0}, NEW reading \in Readings \cup {NF},
             \/ createPublicFuelLoad(v, amount, reading)
             \/ \E m \in Months : createFuelLoad(v, m, amount, reading)
      PROVE  i \in Ids /\ loads'[i] = loads[i]
  <2>1. \E m \in Months, s \in Status \ {"REJECTED"}, c \in BOOLEAN :
          loads' = Append(loads, NewLoad(v, m, amount, reading, s, c))
    BY <1>5 DEF createPublicFuelLoad, createFuelLoad, CaptureMonths, Status, HasRow, TypeOK
  <2>2. PICK m \in Months, s \in Status \ {"REJECTED"}, c \in BOOLEAN :
          loads' = Append(loads, NewLoad(v, m, amount, reading, s, c))
    BY <2>1
  <2> DEFINE l == NewLoad(v, m, amount, reading, s, c)
  <2>3. l \in Load /\ l.status # "REJECTED" /\ loads' = Append(loads, l)
    BY <2>2, NewLoadIsLoad DEF NewLoad
  <2> HIDE DEF l
  <2> QED
    BY <1>3, <2>3
<1>6. ASSUME NEW j \in Ids
      PROVE  /\ \A l : Rewrites(j, l) /\ l.status # "REJECTED"
                        => i \in Ids /\ loads'[i] = loads[i]
             /\ \A l : Rewrites(j, l) /\ ~l.charged
                        => (i \in Ids /\ loads'[i] = loads[i]) \/ ~loads'[i].charged
  BY <1>1, <1>6, RewrittenTable
<1>7. ASSUME NEW j \in Ids, approveFuelLoad(j)
      PROVE  i \in Ids /\ loads'[i] = loads[i]
  BY <1>1, <1>6, <1>7, ApproveRewrites
<1>8. ASSUME NEW j \in Ids, NEW b, NEW o, reconcileApprove(j, b, o)
      PROVE  i \in Ids /\ loads'[i] = loads[i]
  BY <1>1, <1>6, <1>8, ReconcileApproveRewrites
<1>9. ASSUME NEW j \in Ids, rejectFuelLoad(j)
      PROVE  (i \in Ids /\ loads'[i] = loads[i]) \/ ~loads'[i].charged
  <2>1. ~loads[j].charged
    BY <1>9 DEF rejectFuelLoad, Reviewable, Waits, WaitingNotCharged
  <2>2. \E l : Rewrites(j, l) /\ ~l.charged
    BY <1>1, <1>9, <2>1, RejectRewrites
  <2> QED
    BY <1>6, <2>2
<1>10. ASSUME NEW j \in Ids, NEW b, NEW o, reconcileReject(j, b, o)
       PROVE  (i \in Ids /\ loads'[i] = loads[i]) \/ ~loads'[i].charged
  <2>1. loads[j].charged <=> b = "APPLIED"
    BY <1>10 DEF reconcileReject, ClaimsTrue
  <2>2. PICK l : /\ Rewrites(j, l) /\ l.status = "REJECTED"
                 /\ l.charged = (loads[j].charged /\ b # "APPLIED")
    BY <1>1, <1>10, ReconcileRejectRewrites
  <2>3. ~l.charged
    BY <2>1, <2>2
  <2> QED
    BY <1>6, <2>2, <2>3
<1>11. CASE Review
  BY <1>7, <1>8, <1>9, <1>10, <1>11 DEF Review
<1> QED
  BY <1>4, <1>5, <1>11 DEF FuelNext, Capture

(* Administrators do not become honest again. *)
LEMMA HonestBefore ==
  ASSUME [FuelNext]_allVars, honest'
  PROVE  honest
<1>1. CASE Ledger \/ UNCHANGED allVars
  BY <1>1 DEF Ledger, fuelVars, allVars
<1>2. CASE Capture
  BY <1>2 DEF Capture, createPublicFuelLoad, createFuelLoad
<1>3. CASE Review
  <2>1. ASSUME NEW i, approveFuelLoad(i)
        PROVE  honest
    BY <2>1 DEF approveFuelLoad
  <2>2. ASSUME NEW i, rejectFuelLoad(i)
        PROVE  honest
    BY <2>2 DEF rejectFuelLoad
  <2>3. ASSUME NEW i, NEW b, NEW o, reconcileApprove(i, b, o)
        PROVE  honest
    BY <2>3 DEF reconcileApprove
  <2>4. ASSUME NEW i, NEW b, NEW o, reconcileReject(i, b, o)
        PROVE  honest
    BY <2>4 DEF reconcileReject
  <2> QED
    BY <1>3, <2>1, <2>2, <2>3, <2>4 DEF Review
<1>4. CASE Vehicle
  BY <1>4 DEF Vehicle, checkVehicleCompliance, recordMaintenance, editMaintenance,
              correctVehicleOdometer
<1> QED
  BY <1>1, <1>2, <1>3, <1>4 DEF FuelNext

(* For any number of loads: as long as administrators declare facts, a load   *)
(* that was rejected, legacy ones included, is not charged to any month.      *)
THEOREM RejectedStaysUncharged == FuelSpec => []RejectedNotCharged
<1>1. FuelInit => WaitingNotCharged /\ RejectedNotCharged
  BY InitLoads DEF WaitingNotCharged, RejectedNotCharged, Waits, Pending
<1>2. ASSUME TypeOK, LoadsTyped, WaitingNotCharged, RejectedNotCharged, [FuelNext]_allVars
      PROVE  WaitingNotCharged' /\ RejectedNotCharged'
  <2>1. ASSUME honest', NEW i \in Ids', loads'[i].status = "REJECTED"
        PROVE  ~loads'[i].charged
    BY <1>2, <2>1, RejectedLoads, HonestBefore DEF RejectedNotCharged
  <2> QED
    BY <1>2, <2>1, StepWaitingNotCharged DEF RejectedNotCharged
<1> QED
  BY <1>1, <1>2, LoadsStayTyped, PTL DEF FuelSpec


-----------------------------------------------------------------------------
(* The odometer covers the approved readings *)

(* Whether the load i of the table is covered by the odometer. *)
Covered(i) ==
  loads[i].status = "APPROVED" /\ loads[i].odometer # NF /\ loads[i].vehicle \notin corrected
    => odometer[loads[i].vehicle] >= loads[i].odometer

(* What a step may do to the reading of one vehicle: leave it, raise it, lower *)
(* it no further than the evidence, or correct it by hand.                    *)
Moves(v, reading) ==
  /\ corrected \subseteq corrected'
  /\ \/ odometer' = odometer
     \/ /\ odometer' = [odometer EXCEPT ![v] = reading]
        /\ reading >= odometer[v] \/ AboveEvidence(v, reading) \/ v \in corrected'

(* Such a step keeps the loads that it does not touch covered. *)
LEMMA OthersStayCovered ==
  ASSUME LoadsTyped, OdometerCoversApproved,
         NEW v \in Vehicles, NEW reading \in Readings, Moves(v, reading),
         NEW i \in Ids, loads'[i] = loads[i]
  PROVE  Covered(i)'
<1>1. /\ loads[i].vehicle \in Vehicles /\ loads[i].odometer \in Readings \cup {NF}
      /\ \A w \in Vehicles : odometer[w] \in Nat
      /\ reading \in Nat
  BY LoadFields, FuelAssumption DEF LoadsTyped
<1>2. /\ loads[i].status = "APPROVED" /\ loads[i].odometer # NF /\ loads[i].vehicle \notin corrected
         => odometer[loads[i].vehicle] >= loads[i].odometer
      /\ loads[i].odometer # NF => loads[i].odometer \in Nat
  BY <1>1, FuelAssumption DEF OdometerCoversApproved
<1> SUFFICES ASSUME loads[i].status = "APPROVED", loads[i].odometer # NF,
                    loads[i].vehicle \notin corrected'
             PROVE  odometer'[loads[i].vehicle] >= loads[i].odometer
  BY DEF Covered
<1> USE DEF Moves
<1>3. odometer[loads[i].vehicle] >= loads[i].odometer
  BY <1>2
<1>4. CASE odometer' = odometer
  BY <1>3, <1>4
<1>5. CASE loads[i].vehicle # v /\ odometer' = [odometer EXCEPT ![v] = reading]
  BY <1>1, <1>3, <1>5 DEF LoadsTyped
<1>6. CASE /\ loads[i].vehicle = v /\ odometer' = [odometer EXCEPT ![v] = reading]
           /\ reading >= odometer[v] \/ AboveEvidence(v, reading)
  <2>1. reading >= loads[i].odometer
    BY <1>1, <1>2, <1>3, <1>6 DEF AboveEvidence
  <2> QED
    BY <1>6, <2>1 DEF LoadsTyped
<1> QED
  BY <1>4, <1>5, <1>6


(* The reading of a load that is approved now. *)
LEMMA ApprovedReading ==
  ASSUME LoadsTyped, corrected' = corrected,
         NEW v \in Vehicles, NEW reading \in Readings \cup {NF},
         Advances(v, reading), odometer' = OdometerAfter(v, reading)
  PROVE  /\ \E r \in Readings : Moves(v, r)
         /\ reading # NF => odometer'[v] = reading
<1>1. CASE reading = NF
  <2>1. 0 \in Readings /\ odometer' = odometer
    BY <1>1, FuelAssumption DEF OdometerAfter
  <2> QED
    BY <1>1, <2>1 DEF Moves
<1>2. CASE reading # NF
  <2>1. reading \in Readings /\ reading >= odometer[v]
    BY <1>2 DEF Advances
  <2>2. odometer' = [odometer EXCEPT ![v] = reading]
    BY <1>2 DEF OdometerAfter
  <2> QED
    BY <2>1, <2>2 DEF Moves, LoadsTyped
<1> QED
  BY <1>1, <1>2

LEMMA VehicleMoves ==
  ASSUME LoadsTyped, NEW v \in Vehicles,
         \/ checkVehicleCompliance(v)
         \/ \E reading \in Readings :
              \/ recordMaintenance(v, reading)
              \/ editMaintenance(v, reading)
              \/ correctVehicleOdometer(v, reading)
  PROVE  \E reading \in Readings : Moves(v, reading)
<1>1. 0 \in Readings /\ odometer[v] \in Readings /\ Readings \subseteq Nat
  BY FuelAssumption DEF LoadsTyped
<1>2. CASE checkVehicleCompliance(v)
  BY <1>1, <1>2 DEF checkVehicleCompliance, Moves
<1>3. ASSUME NEW reading \in Readings, recordMaintenance(v, reading)
      PROVE  \E r \in Readings : Moves(v, r)
  <2>1. /\ odometer' = [odometer EXCEPT ![v] = Larger(odometer[v], reading)]
        /\ corrected' = corrected
    BY <1>3 DEF recordMaintenance
  <2>2. /\ Larger(odometer[v], reading) \in Readings
        /\ Larger(odometer[v], reading) >= odometer[v]
    <3>1. odometer[v] \in Nat /\ reading \in Nat
      BY <1>1
    <3>2. CASE odometer[v] >= reading
      BY <1>1, <3>1, <3>2 DEF Larger
    <3>3. CASE reading > odometer[v]
      BY <3>1, <3>3 DEF Larger
    <3> QED
      BY <3>1, <3>2, <3>3
  <2> QED
    BY <2>1, <2>2 DEF Moves
<1>4. ASSUME NEW reading \in Readings, editMaintenance(v, reading)
      PROVE  Moves(v, reading)
  BY <1>4 DEF editMaintenance, Moves
<1>5. ASSUME NEW reading \in Readings, correctVehicleOdometer(v, reading)
      PROVE  Moves(v, reading)
  BY <1>5 DEF correctVehicleOdometer, Moves
<1> QED
  BY <1>2, <1>3, <1>4, <1>5

(* A capture, or a load that is rewritten, and the odometer after it. *)
LEMMA CaptureCovers ==
  ASSUME TypeOK, LoadsTyped, OdometerCoversApproved,
         NEW v \in Vehicles, NEW amount \in Amounts \ {0}, NEW reading \in Readings \cup {NF},
         \/ createPublicFuelLoad(v, amount, reading)
         \/ \E m \in Months : createFuelLoad(v, m, amount, reading)
  PROVE  \A i \in Ids' : Covered(i)'
<1>1. loads \in Seq(Load) /\ Len(loads) \in Nat
  BY LenProperties DEF LoadsTyped
<1>2. ASSUME NEW l \in Load, loads' = Append(loads, l), NEW r \in Readings, Moves(v, r),
             l.status = "APPROVED" /\ l.odometer # NF => odometer'[l.vehicle] >= l.odometer
      PROVE  \A i \in Ids' : Covered(i)'
  <2> SUFFICES ASSUME NEW i \in Ids'
               PROVE  Covered(i)'
    OBVIOUS
  <2>1. CASE i \in Ids
    BY <1>1, <1>2, <2>1, AppendedTable, OthersStayCovered
  <2>2. CASE loads'[i] = l
    BY <1>2, <2>2 DEF Covered
  <2> QED
    BY <1>1, <1>2, <2>1, <2>2, AppendedTable
<1>3. CASE createPublicFuelLoad(v, amount, reading)
  <2> DEFINE l == NewLoad(v, now, amount, reading, "PENDING_REVIEW", FALSE)
  <2>1. l \in Load /\ l.status # "APPROVED"
    BY NewLoadIsLoad DEF TypeOK, NewLoad, Status
  <2>2. loads' = Append(loads, l) /\ Moves(v, 0)
    BY <1>3 DEF createPublicFuelLoad, CaptureMonths, Moves
  <2> HIDE DEF l
  <2> QED
    BY <1>2, <2>1, <2>2, FuelAssumption
<1>4. ASSUME NEW m \in Months, createFuelLoad(v, m, amount, reading)
      PROVE  \A i \in Ids' : Covered(i)'
  <2> DEFINE l == NewLoad(v, m, amount, reading, "APPROVED", HasRow(v, m))
  <2>1. l \in Load /\ l.odometer = reading /\ l.vehicle = v
    BY NewLoadIsLoad, ZenonT(40) DEF NewLoad, Status, HasRow
  <2>2. /\ loads' = Append(loads, l) /\ corrected' = corrected
        /\ Advances(v, reading) /\ odometer' = OdometerAfter(v, reading)
    BY <1>4 DEF createFuelLoad
  <2> HIDE DEF l
  <2>3. reading # NF => odometer'[v] = reading /\ reading \in Nat
    BY <2>2, ApprovedReading, FuelAssumption
  <2>4. PICK r \in Readings : Moves(v, r)
    BY <2>2, ApprovedReading
  <2>5. l.status = "APPROVED" /\ l.odometer # NF => odometer'[l.vehicle] >= l.odometer
    BY <2>1, <2>3
  <2> QED
    BY <1>2, <2>1, <2>2, <2>4, <2>5
<1> QED
  BY <1>3, <1>4

LEMMA ReviewCovers ==
  ASSUME LoadsTyped, OdometerCoversApproved, NEW j \in Ids,
         \/ approveFuelLoad(j)
         \/ rejectFuelLoad(j)
         \/ \E b \in BudgetEffects, o \in OdometerEffects :
              reconcileApprove(j, b, o) \/ reconcileReject(j, b, o)
  PROVE  \A i \in Ids' : Covered(i)'
<1> DEFINE v == loads[j].vehicle
           reading == loads[j].odometer
<1>1. loads \in Seq(Load)
  BY DEF LoadsTyped
<1>2. /\ v \in Vehicles /\ reading \in Readings \cup {NF}
      /\ odometer[v] \in Nat /\ (reading # NF => reading \in Nat)
      /\ 0 \in Readings
  BY <1>1, LoadFields, FuelAssumption DEF LoadsTyped
<1>3. ASSUME NEW l, Rewrites(j, l), NEW r \in Readings, Moves(v, r), Covered(j)'
      PROVE  \A i \in Ids' : Covered(i)'
  BY <1>1, <1>2, <1>3, RewrittenTable, OthersStayCovered
<1>4. ASSUME NEW l, Rewrites(j, l), l.status = "REJECTED"
      PROVE  Covered(j)'
  BY <1>1, <1>4, RewrittenTable DEF Covered
<1>5. ASSUME NEW l, Rewrites(j, l), reading # NF => odometer'[v] >= reading
      PROVE  Covered(j)'
  <2>1. loads'[j] = l /\ l.vehicle = v /\ l.odometer = reading
    BY <1>1, <1>5, RewrittenTable DEF Rewrites, SameCapture
  <2> QED
    BY <1>5, <2>1 DEF Covered
<1> HIDE DEF v, reading
<1>6. CASE approveFuelLoad(j)
  <2>1. /\ Advances(v, reading) /\ odometer' = OdometerAfter(v, reading)
        /\ corrected' = corrected
    BY <1>6 DEF approveFuelLoad, Eligible, v, reading
  <2>2. PICK l : Rewrites(j, l) /\ l.status = "APPROVED"
    BY <1>1, <1>6, ApproveRewrites
  <2>3. PICK r \in Readings : Moves(v, r)
    BY <1>2, <2>1, ApprovedReading
  <2>4. reading # NF => odometer'[v] >= reading
    BY <1>2, <2>1, ApprovedReading
  <2> QED
    BY <1>3, <1>5, <2>2, <2>3, <2>4
<1>7. CASE rejectFuelLoad(j)
  <2>1. Moves(v, 0)
    BY <1>7 DEF rejectFuelLoad, Moves
  <2>2. PICK l : Rewrites(j, l) /\ l.status = "REJECTED"
    BY <1>1, <1>7, RejectRewrites
  <2> QED
    BY <1>2, <1>3, <1>4, <2>1, <2>2
<1>8. ASSUME NEW b, NEW o, reconcileApprove(j, b, o)
      PROVE  \A i \in Ids' : Covered(i)'
  <2>1. corrected' = corrected
    BY <1>8 DEF reconcileApprove
  <2>2. PICK l : Rewrites(j, l) /\ l.status = "APPROVED"
    BY <1>1, <1>8, ReconcileApproveRewrites
  <2>3. CASE o = "APPLIED"
    <3>1. odometer' = odometer /\ odometer[v] >= reading
      BY <1>8, <2>3 DEF reconcileApprove, v, reading
    <3>2. Moves(v, 0)
      BY <2>1, <3>1 DEF Moves
    <3> QED
      BY <1>2, <1>3, <1>5, <2>2, <3>1, <3>2
  <2>4. CASE o # "APPLIED"
    <3>1. Advances(v, reading) /\ odometer' = OdometerAfter(v, reading)
      BY <1>8, <2>4 DEF reconcileApprove, v, reading
    <3>2. PICK r \in Readings : Moves(v, r)
      BY <1>2, <2>1, <3>1, ApprovedReading
    <3>3. reading # NF => odometer'[v] >= reading
      BY <1>2, <2>1, <3>1, ApprovedReading
    <3> QED
      BY <1>3, <1>5, <2>2, <3>2, <3>3
  <2> QED
    BY <2>3, <2>4
<1>9. ASSUME NEW b, NEW o, reconcileReject(j, b, o)
      PROVE  \A i \in Ids' : Covered(i)'
  <2>1. corrected' = corrected
    BY <1>9 DEF reconcileReject
  <2>2. PICK l : /\ Rewrites(j, l) /\ l.status = "REJECTED"
                 /\ l.charged = (loads[j].charged /\ b # "APPLIED")
    BY <1>1, <1>9, ReconcileRejectRewrites
  <2>3. \/ odometer' = odometer
        \/ \E r \in Readings : /\ AboveEvidence(v, r)
                               /\ odometer' = [odometer EXCEPT ![v] = r]
    BY <1>9 DEF reconcileReject, v
  <2>4. PICK r \in Readings : Moves(v, r)
    BY <1>2, <2>1, <2>3 DEF Moves
  <2> QED
    BY <1>3, <1>4, <2>2, <2>4
<1> QED
  BY <1>6, <1>7, <1>8, <1>9

(* For any fleet and number of loads, and whatever administrators declare of  *)
(* legacy loads, the odometer of a vehicle nobody corrected by hand is never  *)
(* below a reading that was approved.                                         *)
THEOREM OdometerStaysAbove == FuelSpec => []OdometerCoversApproved
<1>1. FuelInit => OdometerCoversApproved
  BY InitLoads DEF OdometerCoversApproved, Pending
<1>2. ASSUME TypeOK, LoadsTyped, OdometerCoversApproved, [FuelNext]_allVars
      PROVE  \A i \in Ids' : Covered(i)'
  <2>1. ASSUME loads' = loads, odometer' = odometer, corrected' = corrected
        PROVE  \A i \in Ids' : Covered(i)'
    BY <1>2, <2>1 DEF Covered, OdometerCoversApproved, Ids
  <2>2. CASE Ledger \/ UNCHANGED allVars
    BY <2>1, <2>2 DEF Ledger, fuelVars, allVars
  <2>3. CASE Capture
    BY <1>2, <2>3, CaptureCovers DEF Capture
  <2>4. CASE Review
    BY <1>2, <2>4, ReviewCovers DEF Review
  <2>5. CASE Vehicle
    <3>1. loads' = loads /\ Ids' = Ids
      BY <2>5 DEF Vehicle, checkVehicleCompliance, recordMaintenance, editMaintenance,
                  correctVehicleOdometer, Ids
    <3>2. \E v \in Vehicles, r \in Readings : Moves(v, r)
      BY <1>2, <2>5, VehicleMoves DEF Vehicle
    <3> QED
      BY <1>2, <3>1, <3>2, OthersStayCovered
  <2> QED
    BY <1>2, <2>2, <2>3, <2>4, <2>5 DEF FuelNext
<1>3. (\A i \in Ids' : Covered(i)') => OdometerCoversApproved'
  BY DEF Covered, OdometerCoversApproved
<1> QED
  BY <1>1, <1>2, <1>3, LoadsStayTyped, PTL DEF FuelSpec

-----------------------------------------------------------------------------
(* What the operations of the ledger do to the spending *)

(* What a step adds to what a month of one vehicle counts as spent. *)
SpentMoves(v, m, x) ==
  \A u \in Vehicles, n \in Months :
    SpentOf(u, n)' = SpentOf(u, n) + (IF u = v /\ n = m THEN x ELSE 0)

SpentKept == \A v \in Vehicles, m \in Months : SpentOf(v, m)' = SpentOf(v, m)

(* The spending of a row, also of none. *)
SpentIn(r) == IF r # NoRow THEN r.spentAmount ELSE 0

LEMMA SpentTypes ==
  ASSUME TypeOK
  PROVE  \A v \in Vehicles, m \in Months :
           /\ SpentOf(v, m) \in Nat
           /\ SpentOf(v, m) = SpentIn(row[v][m])
           /\ SpentOf(v, m)' = SpentIn(row'[v][m])
<1> SUFFICES ASSUME NEW v \in Vehicles, NEW m \in Months
             PROVE  /\ SpentOf(v, m) \in Nat
                    /\ SpentOf(v, m) = SpentIn(row[v][m])
                    /\ SpentOf(v, m)' = SpentIn(row'[v][m])
  OBVIOUS
<1>1. row[v][m] \in Row \cup {NoRow}
  BY DEF TypeOK
<1> QED
  BY <1>1 DEF SpentOf, HasRow, SpentIn, Row

LEMMA KeptSpending ==
  ASSUME TypeOK,
         \A v \in Vehicles, m \in Months :
           row'[v][m] = row[v][m] \/ SpentIn(row'[v][m]) = SpentIn(row[v][m])
  PROVE  SpentKept
BY SpentTypes DEF SpentKept

(* Setting bases, flags and rollovers does not touch the spending. *)
LEMMA UpdatesKeepSpending ==
  /\ \A r \in Row : /\ SpentIn(r) = r.spentAmount
                    /\ SpentIn([r EXCEPT !.isClosed = TRUE]) = r.spentAmount
                    /\ SpentIn(Normalized(r)) = r.spentAmount
                    /\ \A x \in Nat : SpentIn(Credited(r, x)) = r.spentAmount
                    /\ \A x \in Nat : SpentIn(Reserved(r, x)) = r.spentAmount + x
  /\ \A r \in Row \cup {NoRow}, x \in Nat :
       /\ SpentIn(Allocated(r, x)) = SpentIn(r)
       /\ SpentIn(RolledOver(r, x)) = SpentIn(r)
<1>1. \A r \in Row : SpentIn(r) = r.spentAmount
  BY BudgetAssumption DEF SpentIn
<1>2. ASSUME NEW r \in Row
      PROVE  /\ SpentIn([r EXCEPT !.isClosed = TRUE]) = r.spentAmount
             /\ SpentIn(Normalized(r)) = r.spentAmount
             /\ \A x \in Nat : SpentIn(Credited(r, x)) = r.spentAmount
             /\ \A x \in Nat : SpentIn(Reserved(r, x)) = r.spentAmount + x
  <2>1. /\ [r EXCEPT !.isClosed = TRUE] \in Row
        /\ [r EXCEPT !.isClosed = TRUE].spentAmount = r.spentAmount
    BY DEF Row
  <2>2. Normalized(r) \in Row /\ Normalized(r).spentAmount = r.spentAmount
    <3>1. Normalized(r).spentAmount = r.spentAmount
      BY DEF Normalized, Row
    <3> QED
      BY <3>1, NormalizedRow
  <2>3. \A x \in Nat : Credited(r, x) \in Row /\ Credited(r, x).spentAmount = r.spentAmount
    BY CreditedRow
  <2>4. \A x \in Nat : Reserved(r, x) \in Row
    BY ReservedRow
  <2>5. \A x \in Nat : Reserved(r, x).spentAmount = r.spentAmount + x
    BY DEF Reserved, Row
  <2> QED
    BY <1>1, <2>1, <2>2, <2>3, <2>4, <2>5
<1>3. ASSUME NEW r \in Row \cup {NoRow}, NEW x \in Nat
      PROVE  /\ SpentIn(Allocated(r, x)) = SpentIn(r)
             /\ SpentIn(RolledOver(r, x)) = SpentIn(r)
  <2>1. OrEmpty(r) \in Row
    BY EmptyRowIsRow DEF OrEmpty
  <2>2. OrEmpty(r).spentAmount = SpentIn(r)
    BY DEF OrEmpty, EmptyRow, SpentIn
  <2>3. Allocated(r, x) \in Row /\ RolledOver(r, x) \in Row
    BY AllocatedRow, RolledOverRow
  <2>4. Allocated(r, x).spentAmount = OrEmpty(r).spentAmount
    BY <2>1 DEF Allocated, Row
  <2>5. RolledOver(r, x).spentAmount = OrEmpty(r).spentAmount
    BY <2>1 DEF RolledOver, Row
  <2> QED
    BY <1>1, <2>2, <2>3, <2>4, <2>5
<1> QED
  BY <1>1, <1>2, <1>3

(* A reservation counts, if there is a row to count in. *)
LEMMA ReserveSpends ==
  ASSUME TypeOK, NEW v \in Vehicles, NEW m \in Months, NEW amount \in Nat,
         checkAndReserveFuelBudget(v, m, amount)
  PROVE  SpentMoves(v, m, IF HasRow(v, m) THEN amount ELSE 0)
<1>1. \A u \in Vehicles, n \in Months :
        ~(HasRow(v, m) /\ u = v /\ n = m) => row'[u][n] = row[u][n]
  BY ReservedRows
<1>2. ASSUME HasRow(v, m)
      PROVE  SpentIn(row'[v][m]) = SpentIn(row[v][m]) + amount
  <2>1. row[v][m] \in Row /\ row'[v][m] = Reserved(row[v][m], amount)
    BY <1>2 DEF checkAndReserveFuelBudget, HasRow, TypeOK
  <2> QED
    BY <2>1, UpdatesKeepSpending
<1> QED
  BY <1>1, <1>2, SpentTypes DEF SpentMoves

(* A release takes back its amount from its own month, wherever the carry goes. *)
LEMMA ReleaseSpends ==
  ASSUME TypeOK, NEW v \in Vehicles, NEW m \in Months, NEW amount \in Nat,
         releaseFuelBudget(v, m, amount)
  PROVE  SpentMoves(v, m, -amount)
<1>1. \A u \in Vehicles, n \in Months : row'[u][n] = row[u][n] \/ u = v
  BY ReleasedRows
<1>2. HasRow(v, m) /\ row[v][m] \in Row /\ amount <= row[v][m].spentAmount
  BY DEF releaseFuelBudget, HasRow, TypeOK
<1>3. row[v][m].spentAmount \in Nat /\ SpentIn(row[v][m]) = row[v][m].spentAmount
  BY <1>2, UpdatesKeepSpending DEF Row
<1>4. /\ SpentIn(row'[v][m]) = SpentIn(row[v][m]) - amount
      /\ \A n \in Months \ {m} : SpentIn(row'[v][n]) = SpentIn(row[v][n])
  <2>1. CASE ReleaseFromInactiveOpen(v, m, amount)
    <3> DEFINE less == [row[v][m] EXCEPT !.spentAmount = @ - amount]
    <3>1. less \in Row /\ less.spentAmount = row[v][m].spentAmount - amount
      BY <1>2, ReleasedRow DEF Row
    <3>2. /\ row'[v][m] = Normalized(less)
          /\ \A n \in Months \ {m} : row'[v][n] = row[v][n]
      BY <2>1 DEF ReleaseFromInactiveOpen, TypeOK
    <3> HIDE DEF less
    <3> QED
      BY <1>3, <3>1, <3>2, UpdatesKeepSpending
  <2>2. CASE ReleaseAndPropagate(v, m, amount)
    <3>1. PICK carry \in [m..LastMonth -> Nat] :
            /\ \A k \in 1..m - 1 : row'[v][k] = row[v][k]
            /\ row'[v][m] = Released(row[v][m], amount)
            /\ \A k \in m + 1..LastMonth :
                 row'[v][k] = IF Receives(v, k) /\ carry[k - 1] > 0
                                THEN Credited(row[v][k], carry[k - 1]) ELSE row[v][k]
      <4>1. HasRow(v, m) /\ amount <= row[v][m].spentAmount
        BY <1>2
      <4> QED
        BY <2>2, <4>1, PropagatedRows, SMTT(60)
    <3>2. SpentIn(row'[v][m]) = SpentIn(row[v][m]) - amount
      <4>1. /\ Released(row[v][m], amount) \in Row
            /\ Released(row[v][m], amount).spentAmount = row[v][m].spentAmount - amount
        BY <1>2, ReleasedRow
      <4>2. row'[v][m] \in Row /\ row'[v][m].spentAmount = row[v][m].spentAmount - amount
        BY <3>1, <4>1
      <4> QED
        BY <1>3, <4>2, UpdatesKeepSpending
    <3>3. ASSUME NEW n \in m + 1..LastMonth
          PROVE  SpentIn(row'[v][n]) = SpentIn(row[v][n])
      <4>1. n \in Months /\ n - 1 \in m..LastMonth
        BY <3>3, BudgetAssumption DEF Months
      <4>2. CASE Receives(v, n) /\ carry[n - 1] > 0
        <5>1. row[v][n] \in Row /\ carry[n - 1] \in Nat
          BY <4>1, <4>2 DEF Receives, HasRow, TypeOK
        <5>2. row'[v][n] = Credited(row[v][n], carry[n - 1])
          BY <3>1, <4>2
        <5> QED
          BY <5>1, <5>2, UpdatesKeepSpending, ZenonT(40)
      <4>3. CASE ~(Receives(v, n) /\ carry[n - 1] > 0)
        BY <3>1, <4>3
      <4> QED
        BY <4>2, <4>3
    <3>4. \A n \in Months \ {m} : n \in 1..m - 1 \/ n \in m + 1..LastMonth
      BY BudgetAssumption DEF Months
    <3> QED
      BY <3>1, <3>2, <3>3, <3>4
  <2> QED
    BY <2>1, <2>2 DEF releaseFuelBudget
<1>5. SpentOf(v, m)' = SpentOf(v, m) + (-amount)
  <2>1. SpentOf(v, m)' = SpentOf(v, m) - amount
    BY <1>4, SpentTypes
  <2>2. SpentOf(v, m) \in Nat
    BY SpentTypes
  <2> QED
    BY <2>1, <2>2
<1>6. \A u \in Vehicles, n \in Months : ~(u = v /\ n = m) => SpentOf(u, n)' = SpentOf(u, n)
  BY <1>1, <1>4, SpentTypes
<1>7. \A u \in Vehicles, n \in Months : SpentOf(u, n) \in Nat
  BY SpentTypes
<1> QED
  BY <1>5, <1>6, <1>7 DEF SpentMoves

(* Closing a month and administering the ledger change no spending. *)
LEMMA CloseKeepsSpending ==
  ASSUME TypeOK, NEW m \in Months, NEW deferring, closeMonthAndRollover(m, deferring)
  PROVE  SpentKept
<1> SUFFICES ASSUME NEW v \in Vehicles, NEW n \in Months, row'[v][n] # row[v][n]
             PROVE  SpentIn(row'[v][n]) = SpentIn(row[v][n])
  BY KeptSpending
<1>1. n \in {m, m + 1} /\ IsOpen(v, m)
  <2>1. n \in {m, m + 1}
    BY ClosedRows
  <2>2. ~IsOpen(v, m) => row'[v][m] = row[v][m] /\ row'[v][m + 1] = row[v][m + 1]
    BY ClosedRows
  <2> QED
    BY <2>1, <2>2
<1>2. row[v][m] \in Row
  BY <1>1 DEF IsOpen, HasRow, TypeOK
<1>3. CASE n = m
  <2>1. row'[v][n] = [row[v][m] EXCEPT !.isClosed = TRUE]
    BY <1>1, <1>3, ClosedRows
  <2> QED
    BY <1>2, <1>3, <2>1, UpdatesKeepSpending
<1>4. CASE n = m + 1
  <2>1. row'[v][n] = RolledOver(row[v][n], Remainder(row[v][m]))
    <3>1. m + 1 # m
      BY BudgetAssumption DEF Months
    <3> QED
      BY <1>1, <1>4, <3>1, ClosedRows
  <2>2. row[v][n] \in Row \cup {NoRow} /\ Remainder(row[v][m]) \in Nat
    BY <1>2, RowArithmetic DEF TypeOK
  <2> QED
    BY <2>1, <2>2, UpdatesKeepSpending
<1> QED
  BY <1>1, <1>3, <1>4

LEMMA AdministeringKeepsSpending ==
  ASSUME TypeOK, Administer
  PROVE  SpentKept
<1>1. ASSUME NEW m \in Months, NEW alloc, alloc \in [DOMAIN alloc -> Nat], Allocate(m, alloc)
      PROVE  SpentKept
  <2>1. /\ \A u \in DOMAIN alloc : row'[u][m] = Allocated(row[u][m], alloc[u]) /\ row'[u][m] \in Row
        /\ \A u \in Vehicles, k \in Months : ~(u \in DOMAIN alloc /\ k = m) => row'[u][k] = row[u][k]
    BY <1>1, AllocatedRows, ZenonT(40)
  <2> SUFFICES ASSUME NEW v \in Vehicles, NEW n \in Months, row'[v][n] # row[v][n]
               PROVE  SpentIn(row'[v][n]) = SpentIn(row[v][n])
    BY KeptSpending
  <2>2. v \in DOMAIN alloc /\ n = m
    BY <2>1
  <2>3. row[v][m] \in Row \cup {NoRow} /\ alloc[v] \in Nat
    BY <1>1, <2>2 DEF TypeOK
  <2> QED
    BY <2>1, <2>2, <2>3, UpdatesKeepSpending
<1>2. ASSUME NEW v \in Vehicles, deactivateVehicle(v)
      PROVE  SpentKept
  <2> SUFFICES ASSUME NEW u \in Vehicles, NEW n \in Months, row'[u][n] # row[u][n]
               PROVE  SpentIn(row'[u][n]) = SpentIn(row[u][n])
    BY KeptSpending
  <2>1. IsOpen(u, n) /\ row'[u][n] = Normalized(row[u][n])
    BY <1>2, DeactivatedRows
  <2>2. row[u][n] \in Row
    BY <2>1 DEF IsOpen, HasRow, TypeOK
  <2> QED
    BY <2>1, <2>2, UpdatesKeepSpending
<1>3. ASSUME row' = row
      PROVE  SpentKept
  BY <1>3, KeptSpending
<1>4. (\E m \in Months, total \in Amounts : SetMonthlyPool(m, total)) \/ NextMonthBegins => row' = row
  BY DEF SetMonthlyPool, NextMonthBegins
<1> QED
  BY <1>1, <1>2, <1>3, <1>4, AllocateForms DEF Administer

-----------------------------------------------------------------------------
(* The charges of a month, as a sum over the whole table *)

(* What one load counts for in a month of one vehicle. *)
Worth(l, v, m) == IF l.vehicle = v /\ l.month = m /\ l.charged THEN l.amount ELSE 0

Worths(v, m) == [i \in Ids |-> Worth(loads[i], v, m)]

LEMMA WorthIsNat ==
  ASSUME NEW l \in Load
  PROVE  \A v, m : Worth(l, v, m) \in Nat
<1>1. l.amount \in Nat
  BY BudgetAssumption DEF Load
<1> QED
  BY <1>1 DEF Worth

LEMMA TableIsFinite ==
  ASSUME loads \in Seq(Load)
  PROVE  IsFiniteSet(Ids) /\ \A v, m : \A i \in Ids : Worth(loads[i], v, m) \in Nat
<1>1. IsFiniteSet(Ids)
  <2>1. Len(loads) \in Nat
    BY LenProperties
  <2> QED
    BY <2>1, FS_Interval DEF Ids
<1>2. \A i \in Ids : loads[i] \in Load
  BY LoadFields
<1> QED
  BY <1>1, <1>2, WorthIsNat

(* Charged sums over the charged loads only; the others would add nothing. *)
LEMMA ChargedIsSum ==
  ASSUME loads \in Seq(Load), NEW v, NEW m
  PROVE  /\ Charged(v, m) = SumFunctionOnSet(Worths(v, m), Ids)
         /\ Charged(v, m) \in Nat
<1> DEFINE mine == {i \in Ids : loads[i].vehicle = v /\ loads[i].month = m /\ loads[i].charged}
           f == Worths(v, m)
           g == [i \in mine |-> loads[i].amount]
<1>1. IsFiniteSet(Ids) /\ \A i \in Ids : f[i] \in Nat
  BY TableIsFinite DEF Worths
<1>2. Charged(v, m) = SumFunctionOnSet(g, mine)
  BY DEF Charged
<1>3. \A i \in mine : g[i] = f[i]
  BY DEF Worths, Worth
<1>4. \A i \in Ids \ mine : f[i] = 0
  BY DEF Worths, Worth
<1>5. mine \in SUBSET Ids
  OBVIOUS
<1> HIDE DEF mine, f, g
<1>6. IsFiniteSet(mine) /\ IsFiniteSet(Ids \ mine)
  BY <1>1, <1>5, FS_Subset
<1>7. SumFunctionOnSet(f, Ids) = SumFunctionOnSet(f, mine) + SumFunctionOnSet(f, Ids \ mine)
  <2>1. \A i \in Ids : f[i] \in Int
    BY <1>1
  <2> QED
    BY <1>1, <1>5, <2>1, SumOfParts
<1>8. SumFunctionOnSet(f, Ids \ mine) = 0
  BY <1>4, <1>6, SumOfZeros
<1>9. SumFunctionOnSet(g, mine) = SumFunctionOnSet(f, mine)
  BY <1>3, <1>6, SumAgrees
<1>10. SumFunctionOnSet(f, mine) \in Nat
  <2>1. \A i \in mine : f[i] \in Nat
    BY <1>1, <1>5
  <2> QED
    BY <1>6, <2>1, SumIsNat
<1>11. Charged(v, m) = SumFunctionOnSet(f, Ids) /\ Charged(v, m) \in Nat
  BY <1>2, <1>7, <1>8, <1>9, <1>10
<1> QED
  BY <1>11 DEF f

Summed == \A v, m : Charged(v, m) = SumFunctionOnSet(Worths(v, m), Ids)

TableTyped == loads \in Seq(Load)

LEMMA TableSums == TableTyped => Summed
BY ChargedIsSum DEF TableTyped, Summed

(* A capture adds its worth ... *)
LEMMA ChargedAfterCapture ==
  ASSUME loads \in Seq(Load), NEW l \in Load, loads' = Append(loads, l), NEW v, NEW m
  PROVE  Charged(v, m)' = Charged(v, m) + Worth(l, v, m)
<1> DEFINE k == Len(loads) + 1
           f == Worths(v, m)
           g == [i \in Ids' |-> Worth(loads'[i], v, m)]
<1>1. /\ loads' \in Seq(Load) /\ Ids' = Ids \cup {k} /\ loads'[k] = l
      /\ \A j \in Ids : loads'[j] = loads[j]
  BY AppendedTable
<1>2. k \notin Ids
  BY LenProperties DEF Ids
<1>3. IsFiniteSet(Ids) /\ \A i \in Ids : f[i] \in Nat
  BY TableIsFinite DEF Worths
<1>4. Charged(v, m) = SumFunctionOnSet(f, Ids) /\ Charged(v, m) \in Nat
  BY ChargedIsSum
<1>5. Charged(v, m)' = SumFunctionOnSet(g, Ids')
  <2>1. TableTyped'
    BY <1>1 DEF TableTyped
  <2>2. Summed'
    BY <2>1, TableSums, PTL
  <2> QED
    BY <1>1, <2>2 DEF Summed, Worths
<1>6. g[k] = Worth(l, v, m) /\ \A i \in Ids : g[i] = f[i]
  BY <1>1 DEF Worths
<1>7. Worth(l, v, m) \in Nat
  BY WorthIsNat
<1>8. Ids' = Ids \cup {k}
  BY <1>1
<1> HIDE DEF f, g, k
<1>9. IsFiniteSet(Ids') /\ \A i \in Ids' : g[i] \in Int
  <2>1. IsFiniteSet(Ids')
    BY <1>3, <1>8, FS_AddElement
  <2> QED
    BY <1>3, <1>6, <1>7, <1>8, <2>1
<1>10. SumFunctionOnSet(g, Ids') = g[k] + SumFunctionOnSet(g, Ids' \ {k})
  BY <1>8, <1>9, SumWithout
<1>11. Ids' \ {k} = Ids
  BY <1>2, <1>8
<1>12. SumFunctionOnSet(g, Ids) = SumFunctionOnSet(f, Ids)
  BY <1>3, <1>6, SumAgrees
<1>13. Charged(v, m)' = g[k] + Charged(v, m)
  BY <1>4, <1>5, <1>10, <1>11, <1>12
<1>14. Charged(v, m)' = Worth(l, v, m) + Charged(v, m)
  BY <1>6, <1>13
<1> QED
  BY <1>4, <1>7, <1>14

(* ... and a review replaces that of its load. *)
LEMMA ChargedAfterRewrite ==
  ASSUME loads \in Seq(Load), NEW i \in Ids, NEW l, Rewrites(i, l), NEW v, NEW m
  PROVE  Charged(v, m)' = Charged(v, m) - Worth(loads[i], v, m) + Worth(l, v, m)
<1> DEFINE f == Worths(v, m)
           g == [j \in Ids' |-> Worth(loads'[j], v, m)]
<1>1. /\ loads' \in Seq(Load) /\ Ids' = Ids /\ loads'[i] = l
      /\ \A j \in Ids : j # i => loads'[j] = loads[j]
  BY RewrittenTable
<1>2. IsFiniteSet(Ids) /\ \A j \in Ids : f[j] \in Nat
  BY TableIsFinite DEF Worths
<1>3. Charged(v, m) = SumFunctionOnSet(f, Ids)
  BY ChargedIsSum
<1>4. Charged(v, m)' = SumFunctionOnSet(g, Ids)
  <2>1. TableTyped'
    BY <1>1 DEF TableTyped
  <2>2. Summed'
    BY <2>1, TableSums, PTL
  <2> QED
    BY <1>1, <2>2 DEF Summed, Worths
<1>5. /\ g[i] = Worth(l, v, m) /\ f[i] = Worth(loads[i], v, m)
      /\ \A j \in Ids \ {i} : g[j] = f[j]
  BY <1>1 DEF Worths
<1>6. Worth(l, v, m) \in Nat
  BY WorthIsNat DEF Rewrites
<1> HIDE DEF f, g
<1>7. \A j \in Ids : g[j] \in Int /\ f[j] \in Int
  BY <1>2, <1>5, <1>6
<1>8. /\ SumFunctionOnSet(g, Ids) = g[i] + SumFunctionOnSet(g, Ids \ {i})
      /\ SumFunctionOnSet(f, Ids) = f[i] + SumFunctionOnSet(f, Ids \ {i})
  BY <1>2, <1>7, SumWithout
<1>9. IsFiniteSet(Ids \ {i})
  BY <1>2, FS_Subset
<1>10. SumFunctionOnSet(g, Ids \ {i}) = SumFunctionOnSet(f, Ids \ {i})
  BY <1>5, <1>9, SumAgrees
<1>11. SumFunctionOnSet(f, Ids \ {i}) \in Int
  BY <1>7, <1>9, SumIsInt
<1> QED
  BY <1>2, <1>3, <1>4, <1>5, <1>6, <1>8, <1>10, <1>11

-----------------------------------------------------------------------------
(* The ledger moves with the loads *)

Follows ==
  \A v \in Vehicles, m \in Months :
    SpentOf(v, m)' - SpentOf(v, m) = Charged(v, m)' - Charged(v, m)

(* Nothing is charged, and the table keeps its loads. *)
LEMMA NothingMoves ==
  ASSUME TypeOK, LoadsTyped, SpentKept, loads' = loads
  PROVE  Follows
<1> SUFFICES ASSUME NEW v \in Vehicles, NEW m \in Months
             PROVE  SpentOf(v, m)' - SpentOf(v, m) = Charged(v, m)' - Charged(v, m)
  BY DEF Follows
<1>1. Charged(v, m)' = Charged(v, m)
  BY DEF Charged, Ids
<1>2. SpentOf(v, m)' = SpentOf(v, m) /\ SpentOf(v, m) \in Nat /\ Charged(v, m) \in Nat
  BY SpentTypes, ChargedIsSum DEF SpentKept, LoadsTyped
<1> QED
  BY <1>1, <1>2

(* A capture is charged to its month as the ledger counts it. *)
LEMMA CaptureFollows ==
  ASSUME TypeOK, LoadsTyped, NEW l \in Load, loads' = Append(loads, l),
         SpentMoves(l.vehicle, l.month, IF l.charged THEN l.amount ELSE 0)
  PROVE  Follows
<1> SUFFICES ASSUME NEW v \in Vehicles, NEW m \in Months
             PROVE  SpentOf(v, m)' - SpentOf(v, m) = Charged(v, m)' - Charged(v, m)
  BY DEF Follows
<1>1. Charged(v, m)' = Charged(v, m) + Worth(l, v, m)
  BY ChargedAfterCapture DEF LoadsTyped
<1>2. SpentOf(v, m)' = SpentOf(v, m) + Worth(l, v, m)
  BY DEF SpentMoves, Worth
<1>3. SpentOf(v, m) \in Nat /\ Charged(v, m) \in Nat /\ Worth(l, v, m) \in Nat
  BY SpentTypes, ChargedIsSum, WorthIsNat DEF LoadsTyped
<1> QED
  BY <1>1, <1>2, <1>3

(* A load that starts being charged, one that stops, one that stays as it was. *)
LEMMA ReviewFollows ==
  ASSUME TypeOK, LoadsTyped, NEW i \in Ids, NEW l, Rewrites(i, l), NEW x \in Int,
         SpentMoves(loads[i].vehicle, loads[i].month, x),
         x = (IF l.charged THEN l.amount ELSE 0)
               - (IF loads[i].charged THEN loads[i].amount ELSE 0)
  PROVE  Follows
<1> SUFFICES ASSUME NEW v \in Vehicles, NEW m \in Months
             PROVE  SpentOf(v, m)' - SpentOf(v, m) = Charged(v, m)' - Charged(v, m)
  BY DEF Follows
<1>1. Charged(v, m)' = Charged(v, m) - Worth(loads[i], v, m) + Worth(l, v, m)
  BY ChargedAfterRewrite DEF LoadsTyped
<1>2. /\ SpentOf(v, m) \in Nat /\ Charged(v, m) \in Nat
      /\ Worth(l, v, m) \in Nat /\ Worth(loads[i], v, m) \in Nat
  BY SpentTypes, ChargedIsSum, WorthIsNat, TableIsFinite DEF LoadsTyped, Rewrites
<1>3. SpentOf(v, m)' = SpentOf(v, m) + (Worth(l, v, m) - Worth(loads[i], v, m))
  <2>1. l.vehicle = loads[i].vehicle /\ l.month = loads[i].month
    BY DEF Rewrites, SameCapture
  <2>2. SpentOf(v, m)' = SpentOf(v, m) + (IF v = loads[i].vehicle /\ m = loads[i].month THEN x ELSE 0)
    BY DEF SpentMoves
  <2>3. (IF v = loads[i].vehicle /\ m = loads[i].month THEN x ELSE 0)
          = Worth(l, v, m) - Worth(loads[i], v, m)
    BY <2>1 DEF Worth
  <2> QED
    BY <2>2, <2>3
<1> QED
  BY <1>1, <1>2, <1>3

LEMMA UnchangedLedgerKeepsSpending ==
  ASSUME TypeOK, UNCHANGED vars
  PROVE  SpentKept /\ \A v \in Vehicles, m \in Months : SpentMoves(v, m, 0)
<1>1. row' = row
  BY DEF vars
<1>2. SpentKept
  BY <1>1, KeptSpending
<1>3. \A v \in Vehicles, m \in Months : SpentOf(v, m) \in Nat
  BY SpentTypes
<1> QED
  BY <1>2, <1>3 DEF SpentKept, SpentMoves

(* Request by request.  A load under review was not charged before, a legacy one is  *)
(* charged just when the administrator says so.                                     *)
LEMMA StepFollows ==
  ASSUME TypeOK, LoadsTyped, WaitingNotCharged, [FuelNext]_allVars, honest'
  PROVE  Follows
<1>0. loads \in Seq(Load)
  BY DEF LoadsTyped
<1>1. CASE Ledger
  <2>1. ASSUME NEW m \in Months, closeMonthAndRollover(m, Deferring(m))
        PROVE  SpentKept
    BY <2>1, CloseKeepsSpending
  <2> QED
    BY <1>1, <2>1, AdministeringKeepsSpending, NothingMoves DEF Ledger, fuelVars
<1>2. CASE Vehicle \/ UNCHANGED allVars
  <2>1. UNCHANGED vars /\ loads' = loads
    BY <1>2 DEF Vehicle, checkVehicleCompliance, recordMaintenance, editMaintenance,
                correctVehicleOdometer, vars, fuelVars, allVars
  <2> QED
    BY <2>1, UnchangedLedgerKeepsSpending, NothingMoves
<1>3. ASSUME NEW v \in Vehicles, NEW amount \in Amounts \ {0}, NEW reading \in Readings \cup {NF},
             createPublicFuelLoad(v, amount, reading)
      PROVE  Follows
  <2> DEFINE l == NewLoad(v, now, amount, reading, "PENDING_REVIEW", FALSE)
  <2>1. l \in Load
    BY NewLoadIsLoad DEF TypeOK, Status
  <2>2. l.vehicle = v /\ l.month = now /\ l.charged = FALSE /\ now \in Months
    BY DEF NewLoad, TypeOK
  <2>3. loads' = Append(loads, l) /\ UNCHANGED vars
    BY <1>3 DEF createPublicFuelLoad, CaptureMonths, vars
  <2> HIDE DEF l
  <2>4. SpentMoves(l.vehicle, l.month, 0)
    BY <2>2, <2>3, UnchangedLedgerKeepsSpending
  <2> QED
    BY <2>1, <2>2, <2>3, <2>4, CaptureFollows
<1>4. ASSUME NEW v \in Vehicles, NEW amount \in Amounts \ {0}, NEW reading \in Readings \cup {NF},
             NEW m \in Months, createFuelLoad(v, m, amount, reading)
      PROVE  Follows
  <2> DEFINE c == HasRow(v, m)
             l == NewLoad(v, m, amount, reading, "APPROVED", c)
  <2>1. l \in Load
    BY NewLoadIsLoad DEF Status, HasRow
  <2>2. l.vehicle = v /\ l.month = m /\ l.charged = c /\ l.amount = amount /\ amount \in Nat
    BY BudgetAssumption DEF NewLoad
  <2>3. loads' = Append(loads, l)
    BY <1>4 DEF createFuelLoad
  <2> HIDE DEF l
  <2>4. SpentMoves(v, m, IF HasRow(v, m) THEN amount ELSE 0)
    BY <1>4, <2>2, ReserveSpends DEF createFuelLoad
  <2>5. SpentMoves(l.vehicle, l.month, IF l.charged THEN l.amount ELSE 0)
    BY <2>2, <2>4
  <2> QED
    BY <2>1, <2>3, <2>5, CaptureFollows
<1>5. ASSUME NEW i \in Ids
      PROVE  /\ loads[i].vehicle \in Vehicles /\ loads[i].month \in Months
             /\ loads[i].amount \in Nat /\ loads[i].charged \in BOOLEAN
             /\ \A l : Rewrites(i, l) => /\ l.amount = loads[i].amount
                                         /\ l.charged \in BOOLEAN
  <2>1. loads[i].vehicle \in Vehicles /\ loads[i].month \in Months
        /\ loads[i].amount \in Nat /\ loads[i] \in Load
    BY <1>0, LoadFields
  <2> QED
    BY <2>1 DEF Load, Rewrites, SameCapture
<1>6. ASSUME NEW i \in Ids, approveFuelLoad(i)
      PROVE  Follows
  <2> DEFINE x == IF HasRow(loads[i].vehicle, loads[i].month) THEN loads[i].amount ELSE 0
  <2>1. ~loads[i].charged
    BY <1>6 DEF approveFuelLoad, Reviewable, Waits, WaitingNotCharged
  <2>2. PICK l : Rewrites(i, l) /\ l.charged = HasRow(loads[i].vehicle, loads[i].month)
    BY <1>0, <1>6, ApproveRewrites DEF ChargedPeriod
  <2>3. SpentMoves(loads[i].vehicle, loads[i].month, x)
    BY <1>5, <1>6, ReserveSpends DEF approveFuelLoad, ChargedPeriod
  <2>4. x \in Int /\ x = (IF l.charged THEN l.amount ELSE 0)
                          - (IF loads[i].charged THEN loads[i].amount ELSE 0)
    BY <1>5, <2>1, <2>2
  <2> HIDE DEF x
  <2> QED
    BY <2>2, <2>3, <2>4, ReviewFollows
<1>7. ASSUME NEW i \in Ids, NEW l, Rewrites(i, l), l.charged = loads[i].charged, UNCHANGED vars
      PROVE  Follows
  <2>1. SpentMoves(loads[i].vehicle, loads[i].month, 0)
    BY <1>5, <1>7, UnchangedLedgerKeepsSpending
  <2>2. 0 = (IF l.charged THEN l.amount ELSE 0)
              - (IF loads[i].charged THEN loads[i].amount ELSE 0)
    BY <1>5, <1>7
  <2> QED
    BY <1>7, <2>1, <2>2, ReviewFollows
<1>8. ASSUME NEW i \in Ids, rejectFuelLoad(i)
      PROVE  Follows
  BY <1>0, <1>7, <1>8, RejectRewrites DEF rejectFuelLoad
<1>9. ASSUME NEW i \in Ids, NEW b, NEW o, reconcileApprove(i, b, o)
      PROVE  Follows
  <2>1. loads[i].charged <=> b = "APPLIED"
    BY <1>9 DEF reconcileApprove, ClaimsTrue
  <2>2. PICK l : /\ Rewrites(i, l)
                 /\ l.charged = (\/ loads[i].charged
                                 \/ b = "NOT_APPLIED" /\ HasRow(loads[i].vehicle, loads[i].month))
    BY <1>0, <1>9, ReconcileApproveRewrites
  <2>3. CASE b = "NOT_APPLIED"
    <3> DEFINE x == IF HasRow(loads[i].vehicle, loads[i].month) THEN loads[i].amount ELSE 0
    <3>1. ~loads[i].charged /\ l.charged = HasRow(loads[i].vehicle, loads[i].month)
      BY <2>1, <2>2, <2>3 DEF HasRow
    <3>2. SpentMoves(loads[i].vehicle, loads[i].month, x)
      BY <1>5, <1>9, <2>3, ReserveSpends DEF reconcileApprove
    <3>3. x \in Int /\ x = (IF l.charged THEN l.amount ELSE 0)
                            - (IF loads[i].charged THEN loads[i].amount ELSE 0)
      <4>1. Rewrites(i, l)
        BY <2>2
      <4> QED
        BY <1>5, <3>1, <4>1
    <3> HIDE DEF x
    <3> QED
      BY <2>2, <3>2, <3>3, ReviewFollows
  <2>4. CASE b # "NOT_APPLIED"
    <3>1. UNCHANGED vars
      BY <1>9, <2>4 DEF reconcileApprove
    <3>2. l.charged = loads[i].charged
      BY <1>5, <2>2, <2>4
    <3> QED
      BY <1>7, <2>2, <3>1, <3>2
  <2> QED
    BY <2>3, <2>4
<1>10. ASSUME NEW i \in Ids, NEW b, NEW o, reconcileReject(i, b, o)
       PROVE  Follows
  <2>1. loads[i].charged <=> b = "APPLIED"
    BY <1>10 DEF reconcileReject, ClaimsTrue
  <2>2. PICK l : Rewrites(i, l) /\ l.charged = (loads[i].charged /\ b # "APPLIED")
    BY <1>0, <1>10, ReconcileRejectRewrites
  <2>3. CASE b = "APPLIED"
    <3> DEFINE x == -loads[i].amount
    <3>1. loads[i].charged /\ ~l.charged
      BY <2>1, <2>2, <2>3
    <3>2. SpentMoves(loads[i].vehicle, loads[i].month, x)
      BY <1>5, <1>10, <2>3, ReleaseSpends DEF reconcileReject
    <3>3. x \in Int /\ x = (IF l.charged THEN l.amount ELSE 0)
                            - (IF loads[i].charged THEN loads[i].amount ELSE 0)
      BY <1>5, <3>1
    <3> HIDE DEF x
    <3> QED
      BY <2>2, <3>2, <3>3, ReviewFollows
  <2>4. CASE b # "APPLIED"
    <3>1. UNCHANGED vars
      BY <1>10, <2>4 DEF reconcileReject
    <3>2. l.charged = loads[i].charged
      BY <1>5, <2>1, <2>2, <2>4
    <3> QED
      BY <1>7, <2>2, <3>1, <3>2
  <2> QED
    BY <2>3, <2>4
<1> QED
  BY <1>1, <1>2, <1>3, <1>4, <1>6, <1>8, <1>9, <1>10 DEF FuelNext, Capture, Review

(* For any fleet, calendar and number of loads: as long as administrators     *)
(* declare facts, what a month counts as spent moves by exactly what starts   *)
(* or stops being charged to it.                                              *)
THEOREM SpendingFollows == FuelSpec => SpendingFollowsLoads
<1>1. FuelInit => WaitingNotCharged
  BY InitLoads DEF WaitingNotCharged, Waits, Pending
<1>2. TypeOK /\ LoadsTyped /\ WaitingNotCharged /\ [FuelNext]_allVars => WaitingNotCharged'
  BY StepWaitingNotCharged
<1>3. TypeOK /\ LoadsTyped /\ WaitingNotCharged /\ [FuelNext]_allVars
        => [honest' => \A v \in Vehicles, m \in Months :
              SpentOf(v, m)' - SpentOf(v, m) = Charged(v, m)' - Charged(v, m)]_allVars
  BY StepFollows DEF Follows
<1> QED
  BY <1>1, <1>2, <1>3, LoadsStayTyped, PTL DEF FuelSpec, SpendingFollowsLoads

=============================================================================
