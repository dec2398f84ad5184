----------------------------- MODULE VehicleDesk ------------------------------
(* The page of the vehicles in several browsers: a dialog is filled from the row that was *)
(* clicked, and sends the moment of that row's last change along; the server changes the  *)
(* row if it has not been changed since.  The odometer is corrected the same way.         *)
EXTENDS Integers, Sequences, SequencesExt

CONSTANTS
  Clerks,       \* browsers
  Cars,
  MaxChanges,   \* bound on the changes of a vehicle
  MaxForms      \* bound on the forms that are sent

ASSUME VehicleDeskConstants == {MaxChanges, MaxForms} \subseteq Nat

VARIABLES
  fleet,        \* the vehicles: updatedAt, what they were made of, and whether they are active
  rows,         \* what the list of every browser has of them
  sheet,        \* the dialog that is open in every browser
  busy,         \* the kinds of dialogs that wait for an answer, open or not
  conflict,     \* those that say that the vehicle has changed, when they are open
  forms,        \* the forms that are on their way, there or back
  sentForms,    \* how many were sent
  edits         \* the changes that were made from a form: the car, what the form showed, what was there

vehicleDeskVars == <<fleet, rows, sheet, busy, conflict, forms, sentForms, edits>>

(* updatedAt is a count: every change of a row makes it greater.                          *)
Kinds == {"edit", "odometer", "delete"}
NoSheet == [kind |-> "none", car |-> "none", seen |-> 0]

(* A row of vehicles, what a dialog was filled from, and what is sent from it.            *)
Vehicles == [updatedAt: Nat, active: BOOLEAN]
Sheets == [kind: Kinds \cup {"none"}, car: Cars \cup {"none"}, seen: Nat]
Forms == [kind: Kinds, car: Cars, shown: Nat, expected: Nat, step: {"sent", "saved", "gone", "conflict"}]

ListedCars(known) == {car \in Cars : known[car].active}

VehicleDeskInit ==
  /\ fleet = [car \in Cars |-> [updatedAt |-> 0, active |-> TRUE]]
  /\ rows = [clerk \in Clerks |-> fleet] /\ sheet = [clerk \in Clerks |-> NoSheet]
  /\ busy = [clerk \in Clerks |-> {}] /\ conflict = [clerk \in Clerks |-> {}]
  /\ forms = [clerk \in Clerks |-> <<>>] /\ sentForms = 0 /\ edits = {}

(* useVehicles, after an own change, a conflict or the age of the query: getAllVehicles.    *)
ReadVehicles(clerk) ==
  /\ rows[clerk] # fleet /\ rows' = [rows EXCEPT ![clerk] = fleet]
  /\ UNCHANGED <<fleet, sheet, busy, conflict, forms, sentForms, edits>>

(* The buttons of a row keep the row as it is shown.                                       *)
OpenSheet(clerk, car, kind) ==
  /\ sheet[clerk].kind = "none" /\ car \in ListedCars(rows[clerk]) /\ sentForms < MaxForms
  /\ sheet' = [sheet EXCEPT ![clerk] = [kind |-> kind, car |-> car, seen |-> rows[clerk][car].updatedAt]]
  /\ UNCHANGED <<fleet, rows, busy, conflict, forms, sentForms, edits>>

Conflicting(clerk) == sheet[clerk].kind \in conflict[clerk]

(* closeDialog, also while a change is on its way, which only the correction forgets;       *)
(* reloadAfterConflict reads the list, too.                                              *)
CloseSheet(clerk) ==
  /\ sheet[clerk].kind # "none"
  /\ sheet' = [sheet EXCEPT ![clerk] = NoSheet]
  /\ conflict' = [conflict EXCEPT ![clerk] = @ \ {sheet[clerk].kind}]
  /\ busy' = [busy EXCEPT ![clerk] = @ \ ({sheet[clerk].kind} \cap {"odometer"})]
  /\ rows' = IF Conflicting(clerk) THEN [rows EXCEPT ![clerk] = fleet] ELSE rows
  /\ UNCHANGED <<fleet, forms, sentForms, edits>>

(* expectedUpdatedAt.                                                                    *)
Expected(clerk) == sheet[clerk].seen

(* handleSubmit of the form, submit of the correction, handleDelete of the page.            *)
SubmitSheet(clerk) ==
  LET s == sheet[clerk]
  IN  /\ s.kind # "none" /\ s.kind \notin busy[clerk] /\ ~Conflicting(clerk) /\ sentForms < MaxForms
      /\ forms' = [forms EXCEPT ![clerk] = Append(@,
           [kind |-> s.kind, car |-> s.car, shown |-> s.seen, expected |-> Expected(clerk), step |-> "sent"])]
      /\ busy' = [busy EXCEPT ![clerk] = @ \cup {s.kind}] /\ sentForms' = sentForms + 1
      /\ sheet' = IF s.kind = "delete" THEN [sheet EXCEPT ![clerk] = NoSheet] ELSE sheet
      /\ UNCHANGED <<fleet, rows, conflict, edits>>

\* a plausible mistake for MayChange: the row is read, and what was expected is forgotten
MayChangeAny(form) == fleet[form.car].active

(* The condition of the update: active, and unchanged since; a deletion takes any state.    *)
MayChange(form) ==
  fleet[form.car].active /\ (form.kind # "delete" => fleet[form.car].updatedAt = form.expected)

Changed(car, active) == [fleet EXCEPT ![car].updatedAt = @ + 1, ![car].active = active]

(* updateVehicle, correctVehicleOdometer, deleteVehicle; a plate that another vehicle has, or *)
(* a reason to keep the vehicle, refuses, with the same status as a conflict.              *)
FormIsHandled(clerk, i, unique) ==
  LET form == forms[clerk][i]
      ok == unique /\ MayChange(form)
      gone == ~fleet[form.car].active
  IN  /\ form.step = "sent" /\ (ok => fleet[form.car].updatedAt < MaxChanges)
      /\ fleet' = IF ok THEN Changed(form.car, form.kind # "delete") ELSE fleet
      /\ edits' = IF ok /\ form.kind # "delete"
                  THEN edits \cup {[car |-> form.car, base |-> form.shown, on |-> fleet[form.car].updatedAt]} ELSE edits
      /\ forms' = [forms EXCEPT ![clerk][i].step = IF ok THEN "saved" ELSE IF gone THEN "gone" ELSE "conflict"]
      /\ UNCHANGED <<rows, sheet, busy, conflict, sentForms>>

(* A success closes the dialog, of whichever vehicle by now, and reads the list again; a      *)
(* conflict locks the dialog until it is closed, also one that is opened later; any other    *)
(* error, and an answer that is lost, leaves it for another attempt.                        *)
FormIsAnswered(clerk, i, arrives) ==
  LET kind == forms[clerk][i].kind
      step == IF arrives THEN forms[clerk][i].step ELSE "lost"
      saved == step = "saved"
  IN  /\ forms[clerk][i].step # "sent"
      /\ forms' = [forms EXCEPT ![clerk] = RemoveAt(@, i)]
      /\ rows' = IF saved THEN [rows EXCEPT ![clerk] = fleet] ELSE rows
      /\ busy' = [busy EXCEPT ![clerk] = @ \ {kind}]
      /\ sheet' = IF saved /\ sheet[clerk].kind = kind /\ kind # "delete" THEN [sheet EXCEPT ![clerk] = NoSheet] ELSE sheet
      /\ conflict' = [conflict EXCEPT ![clerk] =
           IF saved THEN @ \ {kind} ELSE IF step = "conflict" /\ kind # "delete" THEN @ \cup {kind} ELSE @]
      /\ UNCHANGED <<fleet, sentForms, edits>>

(* A load of fuel, a ticket, the daily check: whatever changes the row from elsewhere.      *)
ChangesElsewhere(car) ==
  /\ fleet[car].active /\ fleet[car].updatedAt < MaxChanges
  /\ fleet' = Changed(car, TRUE)
  /\ UNCHANGED <<rows, sheet, busy, conflict, forms, sentForms, edits>>

VehicleDeskNext ==
  \/ \E car \in Cars : ChangesElsewhere(car)
  \/ \E clerk \in Clerks :
       \/ ReadVehicles(clerk) \/ CloseSheet(clerk) \/ SubmitSheet(clerk)
       \/ \E car \in Cars, kind \in Kinds : OpenSheet(clerk, car, kind)
       \/ \E i \in DOMAIN forms[clerk], ok \in BOOLEAN : FormIsHandled(clerk, i, ok) \/ FormIsAnswered(clerk, i, ok)

VehicleDeskSpec == VehicleDeskInit /\ [][VehicleDeskNext]_vehicleDeskVars

-----------------------------------------------------------------------------
(* Every browser holds rows, a dialog and forms of these kinds. *)
VehicleDeskTypeOK ==
  /\ fleet \in [Cars -> Vehicles] /\ rows \in [Clerks -> [Cars -> Vehicles]]
  /\ sheet \in [Clerks -> Sheets] /\ forms \in [Clerks -> Seq(Forms)]
  /\ busy \in [Clerks -> SUBSET Kinds] /\ conflict \in [Clerks -> SUBSET Kinds]
  /\ sentForms \in Nat /\ edits \subseteq [car: Cars, base: Nat, on: Nat]

(* Nobody overwrites what they have not seen: a change was made on the state of the vehicle   *)
(* that its form showed, however old the list, whichever answers were lost, and whatever the  *)
(* list read while the form was open: VehicleFormDialog, OdometerCorrectionDialog and the     *)
(* condition of updateVehicle and correctVehicleOdometer.                                  *)
NothingOverwrittenUnseen == \A edit \in edits : edit.base = edit.on
=============================================================================
