---------------------------- MODULE MCFuelLoads ----------------------------
(* Instances of the fuel loads for TLC. *)
EXTENDS FuelLoads

CONSTANT Largest   \* bound on the rollover a row reaches in a run

OneVehicle == {1}
UpToOne == 0..1
UpToTwo == 0..2

(* Pools have nothing to do with the loads: the run goes no further once one is     *)
(* declared.                                                                        *)
NoPools == \A m \in Months : pool[m] = NoPool \/ pool[m].isClosed

(* The two questions of the run: loads and the ledger over months that close, with  *)
(* odometers that stand still; and readings in every order, in one month, while     *)
(* nothing is budgeted.  Nothing is said of a vehicle whose odometer was corrected   *)
(* by hand: the run goes no further after a correction.                              *)
Money ==
  /\ Len(loads) < MaxLoads
  /\ \A v \in Vehicles : odometer[v] = 0 /\ serviced[v] = 0
  /\ \A i \in Ids : loads[i].odometer \in {0, NF}
  /\ \A v \in Vehicles, m \in Months : row[v][m] # NoRow => row[v][m].rolloverIn <= Largest

Readout ==
  /\ now = FirstOpen /\ \A i \in Ids : loads[i].month = FirstOpen
  /\ \A v \in Vehicles, m \in Months : row[v][m] = NoRow

MoneyOrReadout == corrected = {} /\ (Money \/ Readout)
=============================================================================
