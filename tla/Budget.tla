------------------------------- MODULE Budget -------------------------------
(***************************************************************************)
(* The monthly budget ledger of one BudgetKind: the vehicle_budgets rows,  *)
(* the monthly_budgets pools, the closing of a month with its rollover and *)
(* the logical removal of a vehicle.                                       *)
(*                                                                         *)
(* Every operation is one database transaction that first takes the        *)
(* timeline advisory lock (shared, or exclusive for closing and removing)  *)
(* and then the lock of its month, so it is one atomic step here; in which *)
(* order those locks are taken, and what can deadlock, is not modelled.    *)
(*                                                                         *)
(* Months are counted from 1: (year, month) pairs with nextMonth are a     *)
(* discrete linear order and nothing else about them matters.  Amounts are *)
(* integer cents.                                                          *)
(***************************************************************************)
EXTENDS Integers, FiniteSets, Functions

CONSTANTS
  Vehicles,         \* ids of the vehicles (integers: cents left over by a TOTAL distribution go by id)
  FirstOpen,        \* the month in which this version of the program starts
  LastMonth,        \* bound on the calendar
  Amounts,          \* what a request may ask for
  HistoricDeficit,  \* how far below zero a row of the earlier version may be
  NoRow, NoPool     \* absence of a database row

Months == 1..LastMonth

Row == [baseAmount: Nat, rolloverIn: Nat, spentAmount: Nat,
        isClosed: BOOLEAN, isCutOff: BOOLEAN]

Pool == [totalAmount: Nat, isClosed: BOOLEAN]

ASSUME BudgetAssumption ==
  /\ Vehicles \subseteq Int /\ IsFiniteSet(Vehicles)
  /\ LastMonth \in Nat /\ FirstOpen \in 1..LastMonth
  /\ Amounts \subseteq Nat /\ 0 \in Amounts
  /\ HistoricDeficit \in Nat
  /\ NoRow \notin Row /\ NoPool \notin Pool

VARIABLES
  now,      \* the current business month
  active,   \* vehicles with isActive = true
  row,      \* row[v][m]: the budget of vehicle v in month m, or NoRow
  pool      \* pool[m]: the monthly pool, or NoPool

vars == <<now, active, row, pool>>

-----------------------------------------------------------------------------
(* Amounts of a row *)

Smaller(a, b) == IF a <= b THEN a ELSE b
Larger(a, b) == IF a >= b THEN a ELSE b

Available(r) == r.baseAmount + r.rolloverIn - r.spentAmount

Remainder(r) == Larger(Available(r), 0)

\* a plausible mistake for Gain: the deficit is forgotten
WholeAmount(r, x) == x

\* how much of an extra amount x reaches the remainder: a deficit absorbs first
Gain(r, x) == Larger(Available(r) + x, 0) - Remainder(r)

EmptyRow == [baseAmount |-> 0, rolloverIn |-> 0, spentAmount |-> 0,
             isClosed |-> FALSE, isCutOff |-> FALSE]

(* A removed vehicle keeps only what it spent: base first, then rollover *)
Normalized(r) ==
  [r EXCEPT !.baseAmount = Smaller(r.baseAmount, r.spentAmount),
            !.rolloverIn = Smaller(r.rolloverIn, Larger(r.spentAmount - r.baseAmount, 0)),
            !.isCutOff = TRUE]

-----------------------------------------------------------------------------
(* Periods *)

HasRow(v, m) == row[v][m] # NoRow
IsOpen(v, m) == HasRow(v, m) /\ ~row[v][m].isClosed
IsClosed(v, m) == HasRow(v, m) /\ row[v][m].isClosed

isBudgetPeriodClosed(m) ==
  \/ pool[m] # NoPool /\ pool[m].isClosed
  \/ \E v \in Vehicles : IsClosed(v, m)

(* assertBudgetPeriodOpen: nothing is closed at or after the month *)
PeriodOpen(m) == \A n \in m..LastMonth : ~isBudgetPeriodClosed(n)

HoldsOpenBudget(m) ==
  \/ pool[m] # NoPool /\ ~pool[m].isClosed
  \/ \E v \in Vehicles : IsOpen(v, m)

-----------------------------------------------------------------------------
(* The first state: the months before FirstOpen were closed by the earlier *)
(* version, each remainder having become the rollover of the next month.   *)

HistoryRow ==
  {r \in [baseAmount: Amounts, rolloverIn: Amounts, spentAmount: Amounts,
          isClosed: {TRUE}, isCutOff: {FALSE}] : Available(r) >= -HistoricDeficit}

ChainLinked(h) ==
  \A v \in Vehicles :
    /\ h[v][1] # NoRow => h[v][1].rolloverIn = 0
    /\ \A m \in 1..FirstOpen - 2 :
         /\ h[v][m] # NoRow => h[v][m + 1] # NoRow
         /\ h[v][m + 1] # NoRow =>
              h[v][m + 1].rolloverIn = IF h[v][m] = NoRow THEN 0 ELSE Remainder(h[v][m])

OpeningRow(past) ==
  IF past = NoRow THEN NoRow ELSE [EmptyRow EXCEPT !.rolloverIn = Remainder(past)]

Init ==
  /\ now = FirstOpen
  /\ active = Vehicles
  /\ \E h \in [Vehicles -> [1..FirstOpen - 1 -> HistoryRow \cup {NoRow}]] :
       /\ FirstOpen > 1 => ChainLinked(h)
       /\ row = [v \in Vehicles |-> [m \in Months |->
                   IF m < FirstOpen THEN h[v][m]
                   ELSE IF m = FirstOpen /\ m > 1 THEN OpeningRow(h[v][m - 1])
                   ELSE NoRow]]
  /\ pool = [m \in Months |-> IF m < FirstOpen
                                THEN [totalAmount |-> 0, isClosed |-> TRUE]
                                ELSE NoPool]

-----------------------------------------------------------------------------
(* Pools and allocations *)

BaseOf(v, m) == IF HasRow(v, m) THEN row[v][m].baseAmount ELSE 0

Assigned(m, S) == SumFunctionOnSet([v \in S |-> BaseOf(v, m)], S)

(* validateReplacementAgainstSpent *)
CoversSpent(v, m, base) ==
  HasRow(v, m) => Available([row[v][m] EXCEPT !.baseAmount = base]) >= 0

\* a plausible mistake for PoolCapacity: removed vehicles are not counted
PoolCapacityOfActive(m, alloc) ==
  pool[m] # NoPool =>
    Assigned(m, active \ DOMAIN alloc) + SumFunction(alloc) <= pool[m].totalAmount

(* assertPoolCapacity: without a declared pool there is no limit *)
PoolCapacity(m, alloc) ==
  pool[m] # NoPool =>
    Assigned(m, Vehicles \ DOMAIN alloc) + SumFunction(alloc) <= pool[m].totalAmount

OrEmpty(r) == IF r = NoRow THEN EmptyRow ELSE r

Allocated(r, base) ==
  LET new == [OrEmpty(r) EXCEPT !.baseAmount = base]
  IN  [new EXCEPT !.isCutOff = (Available(new) = 0)]

(* What the three distribution endpoints share: replace the base of every  *)
(* vehicle of DOMAIN alloc, all active, or of none.                        *)
Allocate(m, alloc) ==
  /\ PeriodOpen(m)
  /\ DOMAIN alloc # {} /\ DOMAIN alloc \subseteq active
  /\ \A v \in DOMAIN alloc : CoversSpent(v, m, alloc[v])
  /\ PoolCapacity(m, alloc)
  /\ row' = [v \in Vehicles |-> IF v \in DOMAIN alloc
                THEN [row[v] EXCEPT ![m] = Allocated(@, alloc[v])]
                ELSE row[v]]
  /\ UNCHANGED <<now, active, pool>>

(* TOTAL: exact cents, the residue to the lowest ids *)
Rank(v, S) == Cardinality({u \in S : u < v})

TotalSplit(S, total) ==
  [v \in S |-> (total \div Cardinality(S)) +
               (IF Rank(v, S) < total % Cardinality(S) THEN 1 ELSE 0)]

PerUnit(S, amount) == [v \in S |-> amount]

(* One allocation for each AllocationMode *)
buildBudgetAllocations(S, amount) == {TotalSplit(S, amount), PerUnit(S, amount)}

(* lockTargetVehicleIds: ALL, one classification or UNASSIGNED, always among *)
(* the active vehicles; an empty selection is refused                        *)
Targets == (SUBSET active) \ {{}}

assignBudgetToVehicle(v, m, amount) == Allocate(m, PerUnit({v}, amount))

distributeExplicitBudgets(m, alloc) == Allocate(m, alloc)

distributeBudgetToTarget(m, targets, amount) ==
  \E alloc \in buildBudgetAllocations(targets, amount) : Allocate(m, alloc)

(* PUT /monthly-pool *)
SetMonthlyPool(m, total) ==
  /\ PeriodOpen(m)
  /\ Assigned(m, Vehicles) <= total
  /\ pool' = [pool EXCEPT ![m] = [totalAmount |-> total, isClosed |-> FALSE]]
  /\ UNCHANGED <<now, active, row>>

-----------------------------------------------------------------------------
(* Charging a fuel load or a repair *)

Reserved(r, amount) ==
  [r EXCEPT !.spentAmount = @ + amount,
            !.isCutOff = Available(r) - amount <= 0]

\* a plausible mistake for MayReserve: what was spent before is forgotten
MayReserveOfBase(v, m, amount) ==
  /\ PeriodOpen(m)
  /\ HasRow(v, m) => amount <= row[v][m].baseAmount

(* A vehicle without a budget in the month is let through (SIN_PRESUPUESTO) *)
MayReserve(v, m, amount) ==
  /\ PeriodOpen(m)
  /\ HasRow(v, m) => ~row[v][m].isCutOff /\ amount <= Available(row[v][m])

checkAndReserveFuelBudget(v, m, amount) ==
  /\ v \in active
  /\ MayReserve(v, m, amount)
  /\ row' = IF HasRow(v, m) THEN [row EXCEPT ![v][m] = Reserved(@, amount)] ELSE row
  /\ UNCHANGED <<now, active, pool>>

-----------------------------------------------------------------------------
(* Returning a charge, also into months that are already closed *)

Released(r, amount) ==
  LET less == [r EXCEPT !.spentAmount = @ - amount]
  IN  [less EXCEPT !.isCutOff = Available(less) <= 0]

Receives(v, n) == HasRow(v, n) /\ (v \in active \/ row[v][n].isClosed)

Credited(r, x) ==
  [r EXCEPT !.rolloverIn = @ + x, !.isCutOff = Available(r) + x <= 0]

(* carry[n] is what leaves month n for month n + 1: the increase of its    *)
(* remainder while the chain runs through closed months, otherwise 0.      *)
IsCarry(v, m, amount, carry) ==
  /\ carry[m] = IF row[v][m].isClosed THEN Gain(row[v][m], amount) ELSE 0
  /\ \A n \in m + 1..LastMonth :
       carry[n] = IF carry[n - 1] > 0 /\ Receives(v, n) /\ row[v][n].isClosed
                    THEN Gain(row[v][n], carry[n - 1]) ELSE 0

(* "Cadena de rollover incompleta": an active vehicle must have the row the carry goes to *)
ChainComplete(v, m, carry) ==
  v \in active =>
    \A n \in m..LastMonth : carry[n] > 0 => n < LastMonth /\ HasRow(v, n + 1)

ReleaseFromInactiveOpen(v, m, amount) ==
  /\ v \notin active /\ IsOpen(v, m)
  /\ row' = [row EXCEPT ![v][m] =
               Normalized([row[v][m] EXCEPT !.spentAmount = @ - amount])]

ReleaseAndPropagate(v, m, amount) ==
  /\ v \in active \/ IsClosed(v, m)
  /\ \E carry \in [m..LastMonth -> 0..amount] :
       /\ IsCarry(v, m, amount, carry)
       /\ ChainComplete(v, m, carry)
       /\ row' = [row EXCEPT ![v] = [n \in Months |->
                    IF n = m THEN Released(row[v][n], amount)
                    ELSE IF n > m /\ Receives(v, n) /\ carry[n - 1] > 0
                      THEN Credited(row[v][n], carry[n - 1])
                    ELSE row[v][n]]]

releaseFuelBudget(v, m, amount) ==
  /\ HasRow(v, m)
  /\ amount <= row[v][m].spentAmount
  /\ \/ ReleaseFromInactiveOpen(v, m, amount)
     \/ ReleaseAndPropagate(v, m, amount)
  /\ UNCHANGED <<now, active, pool>>

-----------------------------------------------------------------------------
(* Closing a month *)

(* The remainder of a closing month is added to the next row, or makes it *)
RolledOver(next, remainder) == [OrEmpty(next) EXCEPT !.rolloverIn = @ + remainder]

(* deferring is TRUE when a load that waits for review keeps the month,   *)
(* or an earlier one, open                                                *)
closeMonthAndRollover(m, deferring) ==
  /\ m < now
  /\ ~isBudgetPeriodClosed(m)
  /\ \A n \in 1..m - 1 : ~HoldsOpenBudget(n)
  /\ ~deferring
  /\ ~isBudgetPeriodClosed(m + 1)
  /\ row' = [v \in Vehicles |-> [n \in Months |->
               IF IsOpen(v, m) /\ n = m THEN [row[v][m] EXCEPT !.isClosed = TRUE]
               ELSE IF IsOpen(v, m) /\ v \in active /\ n = m + 1
                 THEN RolledOver(row[v][n], Remainder(row[v][m]))
               ELSE row[v][n]]]
  /\ pool' = [pool EXCEPT ![m] =
                [totalAmount |-> IF @ = NoPool THEN 0 ELSE @.totalAmount,
                 isClosed |-> TRUE]]
  /\ UNCHANGED <<now, active>>

-----------------------------------------------------------------------------
(* Removing a vehicle, and the calendar *)

deactivateVehicle(v) ==
  /\ v \in active
  /\ active' = active \ {v}
  /\ row' = [row EXCEPT ![v] = [m \in Months |->
               IF IsOpen(v, m) THEN Normalized(row[v][m]) ELSE row[v][m]]]
  /\ UNCHANGED <<now, pool>>

NextMonthBegins ==
  /\ now < LastMonth
  /\ now' = now + 1
  /\ UNCHANGED <<active, row, pool>>

-----------------------------------------------------------------------------
Distribute(m) ==
  \E S \in Targets :
    \/ \E alloc \in [S -> Amounts] : distributeExplicitBudgets(m, alloc)
    \/ \E amount \in Amounts : distributeBudgetToTarget(m, S, amount)

(* What budget managers, the registry of vehicles and the calendar do *)
Administer ==
  \/ \E v \in Vehicles, m \in Months, amount \in Amounts : assignBudgetToVehicle(v, m, amount)
  \/ \E m \in Months : Distribute(m)
  \/ \E m \in Months, total \in Amounts : SetMonthlyPool(m, total)
  \/ \E v \in Vehicles : deactivateVehicle(v)
  \/ NextMonthBegins

Next ==
  \/ Administer
  \/ \E v \in Vehicles, m \in Months, amount \in Amounts \ {0} :
       \/ checkAndReserveFuelBudget(v, m, amount)
       \/ releaseFuelBudget(v, m, amount)
  \/ \E m \in Months, deferring \in BOOLEAN : closeMonthAndRollover(m, deferring)

Spec == Init /\ [][Next]_vars

-----------------------------------------------------------------------------
(* Properties *)

(* Every variable holds what the schema admits: amounts of a row are never  *)
(* negative, as the CHECKs of vehicle_budgets demand.                        *)
TypeOK ==
  /\ now \in Months
  /\ active \subseteq Vehicles
  /\ row \in [Vehicles -> [Months -> Row \cup {NoRow}]]
  /\ pool \in [Months -> Pool \cup {NoPool}]

(* No sequence of reservations, reassignments, closings, removals and        *)
(* releases spends more than base plus rollover: a row is never further      *)
(* below zero than the earlier version left one.                             *)
NoOverspend ==
  \A v \in Vehicles, m \in Months :
    HasRow(v, m) => Available(row[v][m]) >= -HistoricDeficit

(* Rollover happens exactly once and stays exact: the rollover of a month is *)
(* what the month before it left over if that one is closed, and nothing     *)
(* otherwise, whatever was reassigned, closed again or released later.  The  *)
(* row that receives it exists, so the "Cadena de rollover incompleta"       *)
(* refusal of releaseFuelBudget is for a damaged database only.              *)
RolloverExact ==
  \A v \in active, m \in Months \ {LastMonth} :
    /\ IsClosed(v, m) => HasRow(v, m + 1)
    /\ HasRow(v, m + 1) =>
         row[v][m + 1].rolloverIn =
           IF IsClosed(v, m) THEN Remainder(row[v][m]) ELSE 0

(* Months close in order: no open row or pool is older than a closed month,  *)
(* so nothing can be charged behind a rollover already computed.             *)
ClosedInOrder ==
  \A m, n \in Months : m < n /\ isBudgetPeriodClosed(n) => ~HoldsOpenBudget(m)

(* While a month is open its pool covers every base amount assigned in it,   *)
(* those of removed vehicles included.                                       *)
PoolCovers ==
  \A m \in Months :
    pool[m] # NoPool /\ ~pool[m].isClosed => Assigned(m, Vehicles) <= pool[m].totalAmount

(* A removed vehicle holds no money: every row of it that is still open is   *)
(* cut off and has no balance, also after a late release or a rollover.      *)
InactiveHoldsNothing ==
  \A v \in Vehicles \ active, m \in Months :
    IsOpen(v, m) => row[v][m].isCutOff /\ Available(row[v][m]) <= 0

(* A closed row is history: it stays closed, its base never changes, and     *)
(* only a release touches it, lowering its spending or raising its rollover. *)
ClosedRowsFrozen ==
  [][\A v \in Vehicles, m \in Months :
       IsClosed(v, m) =>
         /\ IsClosed(v, m)'
         /\ row'[v][m].baseAmount = row[v][m].baseAmount
         /\ row'[v][m].spentAmount <= row[v][m].spentAmount
         /\ row'[v][m].rolloverIn >= row[v][m].rolloverIn]_vars

=============================================================================
