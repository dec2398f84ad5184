------------------------------ MODULE MCShared ------------------------------
(* One run for several small systems: a behaviour is one of the systems that      *)
(* part names, and the variables of the others stand still.                        *)
EXTENDS BudgetLocks, VehicleImport, FuelPortal, TLC

CONSTANTS e1, e2, p1, p2, x1

VARIABLE part

sharedVars == <<lockVars, importVars, portalVars, part>>

(* Fuel is distributed to all, and a service moves from the first month to the last. *)
ToAll == {<<"FUEL", WholeFleet>>}
FirstToLast == {<<1, LastPeriod>>}

TwoRows == Sheet(2)

(* Two vehicles with all identifiers of the sheets, the second one perhaps removed. *)
TwoVehicles ==
  {<<Vehicle(e1, p1, x1, TRUE, 1, "before"), Vehicle(e2, p2, Missing, alive, 1, "before")>> :
     alive \in BOOLEAN}

(* The sheet and the registry only matter to the import.                            *)
SharedInit ==
  /\ LocksInit /\ ImportInit /\ PortalInit
  /\ \/ part = "import"
     \/ /\ part \in {"locks", "portal"}
        /\ file = CHOOSE f \in Files : TRUE
        /\ vehicles = CHOOSE r \in Registries : TRUE

SharedNext ==
  \/ part = "locks" /\ LocksNext /\ UNCHANGED <<importVars, portalVars, part>>
  \/ part = "import" /\ ImportNext /\ UNCHANGED <<lockVars, portalVars, part>>
  \/ part = "portal" /\ PortalNext /\ UNCHANGED <<lockVars, importVars, part>>

SharedSpec == SharedInit /\ [][SharedNext]_sharedVars

Interchangeable == Permutations(Transactions)
=============================================================================
