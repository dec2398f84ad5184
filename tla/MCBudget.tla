------------------------------ MODULE MCBudget ------------------------------
(* One run for the ledger and for the page that shows it: a behaviour is one of the  *)
(* two, as part says, and the variables of the other stand still.                    *)
EXTENDS Budget, BudgetDesk

CONSTANT Largest   \* bound on the amounts a row or a pool reaches in a run

VARIABLE part

TwoVehicles == {1, 2}
UpToOne == 0..1

(* Rows stay small; releases and rollovers make them grow without limit otherwise. *)
SmallAmounts ==
  \A v \in Vehicles, m \in Months :
    row[v][m] # NoRow => row[v][m].rolloverIn <= Largest

(* The two questions of the run on the ledger as a whole: two vehicles and a pool   *)
(* over two months without a past, and one vehicle over all months.                 *)
FleetOfOneYear ==
  /\ \A v \in Vehicles : row[v][1] = NoRow /\ row[v][LastMonth] = NoRow
  /\ pool[LastMonth] = NoPool /\ now < LastMonth
  /\ \A v \in Vehicles, m \in Months : row[v][m] # NoRow => row[v][m].rolloverIn <= 1

OneVehicleForLong ==
  /\ 2 \in active
  /\ \A m \in Months : row[2][m] = NoRow

FleetOrCalendar == part = "page" \/ FleetOfOneYear \/ OneVehicleForLong

(* One of the states that the page may begin in.                                     *)
BookIsFull == book = Periods \X Units /\ \A period \in Periods : desk.period <= period

LedgerIsBlank == \A v \in Vehicles, m \in Months : row[v][m] = NoRow

LedgerInit ==
  /\ Init /\ BudgetDeskInit
  /\ \/ part = "ledger" /\ BookIsFull
     \/ part = "page" /\ LedgerIsBlank

LedgerNext ==
  /\ \/ part = "ledger" /\ Next /\ UNCHANGED bookVars
     \/ part = "page" /\ BudgetDeskNext /\ UNCHANGED vars
  /\ UNCHANGED part

LedgerSpec == LedgerInit /\ [][LedgerNext]_<<vars, bookVars, part>>
=============================================================================
