---------------------------- MODULE BudgetSweep ----------------------------
(* The daily sweep of overdue budget months, job "budget-rollover".  Budget.tla  *)
(* closes one month of one kind in one step; the sweep lists the months that     *)
(* are open for any kind and closes both kinds of each, one transaction per       *)
(* kind, while administrators assign budgets and close months by hand, operators  *)
(* send fuel loads and the process may stop.  Of a month only its stage is kept.  *)
EXTENDS Integers, Sequences, SequencesExt

CONSTANTS LastMonth,    \* bound on the calendar
          MaxRestarts   \* bound on the restarts of the API in the middle of a sweep

ASSUME SweepConstants == LastMonth \in Nat \ {0, 1} /\ MaxRestarts \in Nat

VARIABLES now,        \* the current business month
          stage,      \* stage[k][m]: NONE (no row, no pool), OPEN or CLOSED
          pending,    \* the months with a fuel load in PENDING_REVIEW
          todo,       \* the months the running sweep has left, in order
          left,       \* the kinds it has left of the first of them
          restarts

sweepVars == <<now, stage, pending, todo, left, restarts>>

BudgetMonths == 1..LastMonth
Kinds == <<"FUEL", "MAINTENANCE">>
KindSet == {"FUEL", "MAINTENANCE"}

-----------------------------------------------------------------------------
Open(k, m) == stage[k][m] = "OPEN"
Closed(k, m) == stage[k][m] = "CLOSED"

assertBudgetPeriodOpen(k, m) == \A n \in m..LastMonth : ~Closed(k, n)

(* A load that waits for review counts as an open month, also where there is no row.    *)
findEarlierOpenBudgetPeriod(k, m) ==
  {n \in 1..(m - 1) : Open(k, n) \/ (k = "FUEL" /\ n \in pending)}

(* What one closing transaction meets, in the order in which it looks.            *)
AlreadyClosed(k, m) == Closed(k, m)
DeferredByEarlier(k, m) == ~Closed(k, m) /\ findEarlierOpenBudgetPeriod(k, m) # {}
DeferredByLoads(k, m) ==
  /\ ~Closed(k, m) /\ findEarlierOpenBudgetPeriod(k, m) = {}
  /\ k = "FUEL" /\ m \in pending
Proceeds(k, m) ==
  ~AlreadyClosed(k, m) /\ ~DeferredByEarlier(k, m) /\ ~DeferredByLoads(k, m)
RefusedByNext(k, m) == Proceeds(k, m) /\ Closed(k, m + 1)
Closes(k, m) == Proceeds(k, m) /\ ~Closed(k, m + 1)

(* The rows of vehicles in service open the next month; a bare pool does not.     *)
ClosedStages(k, m) ==
  {[stage EXCEPT ![k][m] = "CLOSED", ![k][m + 1] = next] :
     next \in {stage[k][m + 1]} \cup (IF Open(k, m) THEN {"OPEN"} ELSE {})}

(* Skipped, deferred and closed alike let the caller go on; a refusal does not.   *)
closeKind(k, m) ==
  IF Closes(k, m) THEN stage' \in ClosedStages(k, m) ELSE UNCHANGED stage

-----------------------------------------------------------------------------
\* a plausible mistake for OverdueMonths: only the month just ended is looked at
PreviousMonth == {m \in {now - 1} : \E k \in KindSet : m > 0 /\ Open(k, m)}

OverdueMonths == {m \in 1..(now - 1) : \E k \in KindSet : Open(k, m)}

SweepIdle == todo = <<>>

SweepInit ==
  /\ now \in BudgetMonths
  /\ stage = [k \in KindSet |-> [m \in BudgetMonths |-> "NONE"]]
  /\ pending = {}
  /\ todo = <<>> /\ left = Kinds /\ restarts = 0

closeOverdueBudgetPeriods ==
  /\ SweepIdle /\ OverdueMonths # {}
  /\ todo' = SetToSortSeq(OverdueMonths, <)
  /\ left' = Kinds
  /\ UNCHANGED <<now, stage, pending, restarts>>

SweepKind ==
  /\ ~SweepIdle
  /\ ~RefusedByNext(Head(left), Head(todo))
  /\ closeKind(Head(left), Head(todo))
  /\ left' = IF Len(left) = 1 THEN Kinds ELSE Tail(left)
  /\ todo' = IF Len(left) = 1 THEN Tail(todo) ELSE todo
  /\ UNCHANGED <<now, pending, restarts>>

(* The Conflict of the next month leaves both loops: the job fails for the day.   *)
SweepRefused ==
  /\ ~SweepIdle
  /\ RefusedByNext(Head(left), Head(todo))
  /\ todo' = <<>> /\ left' = Kinds
  /\ UNCHANGED <<now, stage, pending, restarts>>

SweepRestart ==
  /\ ~SweepIdle /\ restarts < MaxRestarts
  /\ restarts' = restarts + 1
  /\ todo' = <<>> /\ left' = Kinds
  /\ UNCHANGED <<now, stage, pending>>

(* POST /close-month names a month and, if it likes, one kind.                     *)
closeMonthAndRollover(k, m) ==
  /\ m < now /\ Closes(k, m)
  /\ closeKind(k, m)
  /\ UNCHANGED <<now, pending, todo, left, restarts>>

OpenBudgetMonth(k, m) ==
  /\ stage[k][m] = "NONE" /\ assertBudgetPeriodOpen(k, m)
  /\ stage' = [stage EXCEPT ![k][m] = "OPEN"]
  /\ UNCHANGED <<now, pending, todo, left, restarts>>

createFuelLoad(m) ==
  /\ m <= now /\ m \notin pending /\ assertBudgetPeriodOpen("FUEL", m)
  /\ pending' = pending \cup {m}
  /\ UNCHANGED <<now, stage, todo, left, restarts>>

reviewFuelLoad(m) ==
  /\ m \in pending
  /\ pending' = pending \ {m}
  /\ UNCHANGED <<now, stage, todo, left, restarts>>

MonthEnds ==
  /\ now < LastMonth
  /\ now' = now + 1
  /\ UNCHANGED <<stage, pending, todo, left, restarts>>

SweepNext ==
  \/ closeOverdueBudgetPeriods \/ SweepKind \/ SweepRefused \/ SweepRestart
  \/ \E k \in KindSet, m \in BudgetMonths :
       closeMonthAndRollover(k, m) \/ OpenBudgetMonth(k, m)
  \/ \E m \in BudgetMonths : createFuelLoad(m) \/ reviewFuelLoad(m)
  \/ MonthEnds

(* The scheduler starts the job every day and the job's worker goes through it.   *)
SweepGoesOn == closeOverdueBudgetPeriods \/ SweepKind \/ SweepRefused
SweepFairness == WF_sweepVars(SweepGoesOn)

-----------------------------------------------------------------------------
(* The state no sweep gets out of: a month listed for one kind whose other kind    *)
(* was never opened there and is closed in the month after.                        *)
Wedged ==
  \E m \in OverdueMonths, k \in KindSet : stage[k][m] = "NONE" /\ Closed(k, m + 1)

Overdue(k, m) == m < now /\ Open(k, m)

(* "No se limita al mes anterior: una carga pendiente por varias semanas no puede  *)
(* hacer que el cambio de calendario abandone ese cierre": whatever the order of   *)
(* assignments, closings by hand, loads and restarts, the sweep comes back again    *)
(* and again to where nothing is overdue, except FUEL months behind a load that     *)
(* waits for review, and what is wedged.                                            *)
OverdueIsClosed ==
  []<>(\A m \in BudgetMonths :
         /\ Overdue("MAINTENANCE", m) => Wedged
         /\ Overdue("FUEL", m) => Wedged \/ \E n \in 1..m : n \in pending)

=============================================================================
