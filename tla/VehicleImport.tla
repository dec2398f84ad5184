---------------------------- MODULE VehicleImport ----------------------------
(* The rows of an import of vehicles against the registry they change, while       *)
(* administrators edit, create and remove vehicles.  The vehicles that share an     *)
(* identifier with the file are read once, before the first row; every row is then  *)
(* matched against that reading and written in a transaction of its own.  DataJobs  *)
(* has the job around it.  Three of the four identifiers are kept (expedientNumber   *)
(* is treated like plate), the other columns are one "content".                     *)
EXTENDS Integers, Sequences, FiniteSets, SequencesExt

CONSTANTS
  EconomicNumbers, Plates, Vins,   \* what cells may hold
  Missing,                         \* an empty cell, and an absent vin
  Files,                           \* the sheets that may be uploaded: sequences of rows
  Registries,                      \* the registries they may meet: sequences of vehicles
  MaxChanges                       \* bound on what administrators do meanwhile

Statuses == {"none", "alta", "baja"}
SheetRow == [economicNumber: EconomicNumbers \cup {Missing}, plate: Plates \cup {Missing},
             vin: Vins \cup {Missing}, status: Statuses]
Sheet(n) == [1..n -> SheetRow]

(* Vehicles that were there before the import, none of whose writers matters.        *)
RegistryRow == [economicNumber: EconomicNumbers \cup {Missing}, plate: Plates \cup {Missing},
                vin: Vins \cup {Missing}, isActive: BOOLEAN, version: Nat \ {0}, author: {"before"}]

(* An import into an empty registry only creates, and is left out.                   *)
ASSUME ImportConstants ==
  /\ MaxChanges \in Nat /\ Files \subseteq Seq(SheetRow)
  /\ Registries \subseteq Seq(RegistryRow) \ {<<>>}

VARIABLES
  vehicles,     \* the registry, a sequence: the id of a vehicle is its place
  file, done,   \* the sheet, and how many of its rows are dealt with
  lookup,       \* what the import knows of each vehicle, by id; <<>> before it has read
  result,       \* created, updated and errors
  changes

importVars == <<vehicles, file, done, lookup, result, changes>>

Identifiers == {"economicNumber", "plate", "vin"}

(* version stands for updatedAt; author is who wrote the content last.             *)
Vehicle(e, p, x, a, n, who) ==
  [economicNumber |-> e, plate |-> p, vin |-> x, isActive |-> a, version |-> n, author |-> who]

Ids == DOMAIN vehicles
Loaded == lookup # <<>>
Row == file[done + 1]

-----------------------------------------------------------------------------
(* Only vehicles that share an identifier with some row are read.                   *)
SharesWith(r, v) == {i \in Identifiers : r[i] # Missing /\ r[i] = v[i]}
NotRead == Vehicle(Missing, Missing, Missing, TRUE, 0, "nobody")

preloadExistingVehicles ==
  /\ ~Loaded
  /\ lookup' = [v \in Ids |-> IF \E n \in DOMAIN file : SharesWith(file[n], vehicles[v]) # {}
                                THEN vehicles[v] ELSE NotRead]
  /\ UNCHANGED <<vehicles, file, done, result, changes>>

Hits(v) == SharesWith(Row, lookup[v])

(* The vehicle of at least two identifiers, the first by economic number.           *)
Existing == {v \in DOMAIN lookup : Cardinality(Hits(v)) >= 2}

MatchesRemoved == \E v \in DOMAIN lookup : Hits(v) # {} /\ ~lookup[v].isActive

RefusedRow ==
  \/ Existing = {} /\ MatchesRemoved
  \/ \E v \in Existing : ~lookup[v].isActive /\ Row.status = "alta"

-----------------------------------------------------------------------------
(* safeCreate and safeUpdate: an identifier another vehicle has is disambiguated,   *)
(* a vin is dropped.                                                                *)
Taken(i, value, own) == \E v \in Ids \ own : vehicles[v][i] = value
Disambiguated(i, value, own) ==
  IF value = Missing \/ ~Taken(i, value, own) THEN value
  ELSE IF i = "vin" THEN Missing ELSE <<value, "DUP", done + 1>>

(* A written vehicle takes the entries of its identifiers, also from a vehicle that    *)
(* was read with one of them.                                                        *)
WithoutKeysOf(new, old) ==
  [i \in DOMAIN old |-> IF i \in Identifiers /\ old[i] = new[i] THEN Missing ELSE old[i]]

indexExistingVehicle(v, new) ==
  [u \in DOMAIN lookup \cup {v} |->
     IF u = v THEN new ELSE WithoutKeysOf(new, lookup[u])]

Placeholder(kind) == <<kind, done + 1>>
OrPlaceholder(kind, value) == IF value = Missing THEN Placeholder(kind) ELSE value

Created ==
  Vehicle(Disambiguated("economicNumber", OrPlaceholder("SIN ECO", Row.economicNumber), {}),
          Disambiguated("plate", OrPlaceholder("SIN PLACA", Row.plate), {}),
          Disambiguated("vin", Row.vin, {}), Row.status # "baja", 1, "import")

safeCreate ==
  /\ Existing = {}
  /\ vehicles' = Append(vehicles, Created)
  /\ lookup' = indexExistingVehicle(Len(lookup) + 1, Created)
  /\ result' = [result EXCEPT !.created = @ + 1]

\* a plausible mistake for Expected: the row is written without looking at updatedAt
ExpectedActive(v) == vehicles[v].isActive = lookup[v].isActive

(* The row of the registry is the one that was read or written last by this import.  *)
Expected(v) ==
  vehicles[v].isActive = lookup[v].isActive /\ vehicles[v].version = lookup[v].version

(* A removal takes the vehicle's row first and refuses one that is removed already;   *)
(* what follows then expects the state the removal left.                              *)
Removes(v) == lookup[v].isActive /\ Row.status = "baja"

Mergeable(v) == IF Removes(v) THEN vehicles[v].isActive ELSE Expected(v)

(* A missing number keeps the old one, a missing vin clears it.                      *)
Updated(v) ==
  [vehicles[v] EXCEPT
     !.economicNumber = IF Row.economicNumber = Missing THEN @ ELSE Row.economicNumber,
     !.plate = IF Row.plate = Missing THEN @ ELSE Disambiguated("plate", Row.plate, {v}),
     !.vin = Disambiguated("vin", Row.vin, {v}),
     !.isActive = IF Removes(v) THEN FALSE ELSE @, !.version = @ + 1, !.author = "import"]

(* safeUpdate gives up on an economic number that another vehicle has.               *)
safeUpdate(v) ==
  /\ v \in Existing /\ Mergeable(v)
  /\ Row.economicNumber = Missing \/ ~Taken("economicNumber", Row.economicNumber, {v})
  /\ vehicles' = [vehicles EXCEPT ![v] = Updated(v)]
  /\ lookup' = indexExistingVehicle(v, Updated(v))
  /\ result' = [result EXCEPT !.updated = @ + 1]

RowError ==
  /\ \/ RefusedRow
     \/ \E v \in Existing : \/ ~Mergeable(v)
                            \/ Removes(v)   \* a ticket of the vehicle is still open
                            \/ Taken("economicNumber", Row.economicNumber, {v})
  /\ result' = [result EXCEPT !.errors = @ + 1]
  /\ UNCHANGED <<vehicles, lookup>>

importRow ==
  /\ Loaded /\ done < Len(file)
  /\ IF RefusedRow THEN RowError
     ELSE safeCreate \/ RowError \/ \E v \in Existing : safeUpdate(v)
  /\ done' = done + 1
  /\ UNCHANGED <<file, changes>>

-----------------------------------------------------------------------------
(* What administrators do meanwhile.                                                 *)
Meanwhile ==
  /\ Loaded /\ changes < MaxChanges
  /\ changes' = changes + 1
  /\ UNCHANGED <<file, done, result>>

(* The import does not learn of the new vehicle.                                     *)
createVehicle(e, p) ==
  /\ ~Taken("economicNumber", e, {}) /\ ~Taken("plate", p, {})
  /\ vehicles' = Append(vehicles, Vehicle(e, p, Missing, TRUE, 1, "admin"))
  /\ lookup' = Append(lookup, NotRead)
  /\ Meanwhile

updateVehicle(v, e, p, x) ==
  /\ vehicles[v].isActive
  /\ ~Taken("economicNumber", e, {v}) /\ ~Taken("plate", p, {v})
  /\ x = Missing \/ ~Taken("vin", x, {v})
  /\ vehicles' = [vehicles EXCEPT ![v] = Vehicle(e, p, x, TRUE, @.version + 1, "admin")]
  /\ Meanwhile /\ UNCHANGED lookup

deleteVehicle(v) ==
  /\ vehicles[v].isActive
  /\ vehicles' = [vehicles EXCEPT ![v].isActive = FALSE, ![v].version = @ + 1, ![v].author = "admin"]
  /\ Meanwhile /\ UNCHANGED lookup

-----------------------------------------------------------------------------
ImportInit ==
  /\ file \in Files /\ done = 0 /\ lookup = <<>> /\ changes = 0
  /\ result = [created |-> 0, updated |-> 0, errors |-> 0]
  /\ vehicles \in Registries

ImportNext ==
  \/ preloadExistingVehicles \/ importRow
  \/ \E v \in Ids : deleteVehicle(v)
  \/ \E e \in EconomicNumbers, p \in Plates :
       createVehicle(e, p) \/ \E v \in Ids, x \in Vins \cup {Missing} : updateVehicle(v, e, p, x)

ImportSpec == ImportInit /\ [][ImportNext]_importVars

-----------------------------------------------------------------------------
(* "CAS contra el estado precargado": what an administrator writes after the import   *)
(* has read the registry is not overwritten by any of its rows, and no row brings a    *)
(* removed vehicle back; only a removal the sheet asks for may follow an edit.  And    *)
(* "coincidencia IDEMPOTENTE pero SEGURA": a row changes a vehicle only if, at that     *)
(* moment and not only when it was read, two of its identifiers are the vehicle's.      *)
EditsSurvive ==
  [][\A v \in Ids :
       /\ vehicles'[v].isActive => vehicles[v].isActive
       /\ vehicles[v].author = "admin" /\ vehicles'[v].author = "import" =>
            ~vehicles'[v].isActive
       /\ vehicles'[v] # vehicles[v] /\ vehicles'[v].author = "import" /\ ~(Removes(v)) =>
            Cardinality(SharesWith(Row, vehicles[v])) >= 2]_importVars

=============================================================================
