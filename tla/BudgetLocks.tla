---------------------------- MODULE BudgetLocks ----------------------------
(* The locks behind the budget ledger.  Budget.tla takes every transaction as   *)
(* one step; here a transaction is the sequence of the locks its code asks for,  *)
(* one acquisition per step: the advisory locks of budgetPeriodLock.ts and the   *)
(* row locks of the SELECT ... FOR UPDATE, UPDATE and INSERT statements.  What   *)
(* the code decides between two requests (refuse, stop a rollover chain, commit) *)
(* is left open: a transaction may end after any acquisition.                    *)
EXTENDS Integers, Sequences, FiniteSets, SequencesExt

CONSTANTS Transactions,   \* the transactions in flight
          FleetSize,      \* vehicles are 1..FleetSize
          LastPeriod,     \* months are 1..LastPeriod; the last one is the current one
          Targets,        \* the distributions there may be: a kind, and vehicles by their id
          Corrections     \* the months a corrected service may have been in and be moved to

VARIABLES plan,      \* plan[t]: the locks t asks for, in order; <<>> when t is not running
          got,       \* got[t]: how many of them t holds
          waiting    \* the transactions that wait, in the order they began to

lockVars == <<plan, got, waiting>>

Fleet == 1..FleetSize
Periods == 1..LastPeriod
Kinds == {"FUEL", "MAINTENANCE"}

-----------------------------------------------------------------------------
(* Resources and modes.  S and X are the advisory modes; U, N and K are what     *)
(* FOR UPDATE, an UPDATE that leaves the keys alone, and a foreign key check      *)
(* take on a row.                                                                 *)
Lock(resource, mode) == [resource |-> resource, mode |-> mode]

Conflicting == {{"X"}, {"X", "S"}, {"U"}, {"U", "N"}, {"N"}, {"U", "K"}}

lockBudgetTimelineShared(k) == Lock(<<"timeline", k>>, "S")
lockBudgetTimelineExclusive(k) == Lock(<<"timeline", k>>, "X")
lockBudgetPeriod(k, m) == Lock(<<"period", k, m>>, "X")
lockMonthlyPool(k, m) == Lock(<<"pool", k, m>>, "U")
lockVehicle(v) == Lock(<<"vehicle", v>>, "U")
lockBudgetRow(k, v, m) == Lock(<<"row", k, m, v>>, "U")
lockFuelLoadState(v, m) == Lock(<<"load", v, m>>, "U")
lockTicket(v) == Lock(<<"ticket", v>>, "U")
lockMaintenanceRecord(v) == Lock(<<"record", v>>, "U")

(* Some of 1..n, in their order: what ORDER BY id FOR UPDATE, or the sorted months, take. *)
Ascending(n) ==
  {s \in UNION {[1..i -> 1..n] : i \in 1..n} : \A i, j \in DOMAIN s : i < j => s[i] < s[j]}

ASSUME LockConstants ==
  /\ FleetSize \in Nat \ {0} /\ LastPeriod \in Nat \ {0}
  /\ Targets \subseteq Kinds \X Ascending(FleetSize) /\ Corrections \subseteq Ascending(LastPeriod)

EachOf(s, F(_)) == [i \in DOMAIN s |-> F(s[i])]
WholeFleet == [v \in Fleet |-> v]

(* First the one and then the other, for each of 1..n.                             *)
Alternately(n, F(_), G(_)) ==
  [i \in 1..(2 * n) |-> IF i % 2 = 1 THEN F((i + 1) \div 2) ELSE G(i \div 2)]

lockOpenBudgetPeriod(k, m) == <<lockBudgetTimelineShared(k), lockBudgetPeriod(k, m)>>

-----------------------------------------------------------------------------
(* The transactions, as the sequences of their requests.                          *)

checkAndReserveFuelBudget(v, m) == <<lockBudgetRow("FUEL", v, m)>>

(* Asking again for a lock one already has is granted at once and left out.       *)
createFuelLoad(v, m) ==
  lockOpenBudgetPeriod("FUEL", m) \o <<lockVehicle(v)>> \o checkAndReserveFuelBudget(v, m)

reviewFuelLoad(v, m) == <<lockFuelLoadState(v, m)>> \o createFuelLoad(v, m)

(* The chain of a late release: month after month, each with its row.             *)
NextLinks(v, m) ==
  Alternately(LastPeriod - m, LAMBDA i : lockBudgetPeriod("FUEL", m + i),
                              LAMBDA i : lockBudgetRow("FUEL", v, m + i))

releaseFuelBudget(v, m) ==
  lockOpenBudgetPeriod("FUEL", m)
    \o <<lockVehicle(v), lockBudgetRow("FUEL", v, m)>> \o NextLinks(v, m)

reconcileLegacyFuelLoad(v, m) == <<lockFuelLoadState(v, m)>> \o releaseFuelBudget(v, m)

\* a plausible mistake for distributeBudget: the vehicles are taken before the month
distributeVehiclesFirst(k, m, vs) ==
  EachOf(vs, lockVehicle) \o lockOpenBudgetPeriod(k, m) \o <<lockMonthlyPool(k, m)>>
    \o EachOf(vs, LAMBDA v : lockBudgetRow(k, v, m))

distributeBudget(k, m, vs) ==
  lockOpenBudgetPeriod(k, m) \o <<lockMonthlyPool(k, m)>> \o EachOf(vs, lockVehicle)
    \o EachOf(vs, LAMBDA v : lockBudgetRow(k, v, m))

(* The new row of the next month names its vehicle: the foreign key takes it in mode K. *)
closeMonthAndRollover(k, m) ==
  <<lockBudgetTimelineExclusive(k), lockBudgetPeriod(k, m), lockBudgetPeriod(k, m + 1)>>
    \o EachOf(WholeFleet, LAMBDA v : lockBudgetRow(k, v, m))
    \o Alternately(FleetSize, LAMBDA v : lockBudgetRow(k, v, m + 1),
                              LAMBDA v : Lock(<<"vehicle", v>>, "K"))

deactivateVehicle(v) ==
  <<lockBudgetTimelineExclusive("FUEL"), lockBudgetTimelineExclusive("MAINTENANCE"),
    lockVehicle(v)>> \o [m \in Periods |-> lockBudgetRow("FUEL", v, m)]

approveTicket(v) ==
  <<lockTicket(v)>> \o lockOpenBudgetPeriod("MAINTENANCE", LastPeriod)
    \o <<lockVehicle(v), lockBudgetRow("MAINTENANCE", v, LastPeriod)>>

(* A correction of a service takes the months of its old and its new date.        *)
updateMaintenanceRecord(v, ms) ==
  <<lockMaintenanceRecord(v), lockBudgetTimelineShared("MAINTENANCE")>>
    \o EachOf(ms, LAMBDA m : lockBudgetPeriod("MAINTENANCE", m)) \o <<lockVehicle(v)>>

(* Documents, corrections of the odometer and completed repairs take one vehicle. *)
changeVehicle(v) == <<lockVehicle(v)>>

(* Two updateMany in one transaction, the vehicles of each in no set order.       *)
runDailyComplianceCheck(order) ==
  [i \in DOMAIN order |-> Lock(<<"vehicle", order[i]>>, "N")]

createTicket(v) == <<Lock(<<"vehicle", v>>, "K"), Lock(<<"folio">>, "U")>>

DailyPlans == {runDailyComplianceCheck(order) : order \in SetToSeqs(Fleet)}
ReleasePlans == {reconcileLegacyFuelLoad(v, m) : v \in Fleet, m \in Periods}
OtherPlans ==
  {reviewFuelLoad(v, m) : v \in Fleet, m \in Periods}
    \cup {distributeBudget(g[1], m, g[2]) : g \in Targets, m \in Periods}
    \cup {closeMonthAndRollover(k, m) : k \in Kinds, m \in 1..(LastPeriod - 1)}
    \cup {deactivateVehicle(v) : v \in Fleet}
    \cup {approveTicket(v) : v \in Fleet}
    \cup {updateMaintenanceRecord(v, ms) : v \in Fleet, ms \in Corrections}
    \cup {changeVehicle(v) : v \in Fleet}
    \cup {createTicket(v) : v \in Fleet}
Plans == DailyPlans \cup ReleasePlans \cup OtherPlans

-----------------------------------------------------------------------------
(* PostgreSQL's lock table, with a queue per resource.                            *)
Running(t) == plan[t] # <<>>
Held(t) == {plan[t][i] : i \in 1..got[t]}
Request(t) == plan[t][got[t] + 1]

Clash(a, b) == a.resource = b.resource /\ {a.mode, b.mode} \in Conflicting

Waits(t) == \E i \in DOMAIN waiting : waiting[i] = t
Leaves(t) ==
  \/ ~Waits(t) /\ UNCHANGED waiting
  \/ \E i \in DOMAIN waiting : waiting[i] = t /\ waiting' = RemoveAt(waiting, i)
Ahead(t, u) ==
  \E i, j \in DOMAIN waiting : i < j /\ waiting[i] = u /\ waiting[j] = t

(* u keeps t from what t asks for: by what it holds, or by having asked before.   *)
Blocks(u, t) ==
  /\ u # t
  /\ \/ \E h \in Held(u) : Clash(h, Request(t))
     \/ Waits(u) /\ (Waits(t) => Ahead(t, u)) /\ Clash(Request(u), Request(t))

LocksInit ==
  /\ plan = [t \in Transactions |-> <<>>]
  /\ got = [t \in Transactions |-> 0]
  /\ waiting = <<>>

(* The job of the daily check runs one at a time.                                  *)
DailyCheck(t) == plan[t] \in DailyPlans

Begin(t) ==
  /\ ~Running(t)
  /\ \E p \in Plans :
       /\ p \in DailyPlans => \A u \in Transactions : ~DailyCheck(u)
       /\ plan' = [plan EXCEPT ![t] = p]
  /\ UNCHANGED <<got, waiting>>

Acquire(t) ==
  /\ Running(t) /\ got[t] < Len(plan[t])
  /\ \A u \in Transactions : ~Blocks(u, t)
  /\ got' = [got EXCEPT ![t] = @ + 1]
  /\ Leaves(t)
  /\ UNCHANGED plan

Enqueue(t) ==
  /\ Running(t) /\ got[t] < Len(plan[t]) /\ ~Waits(t)
  /\ \E u \in Transactions : Blocks(u, t)
  /\ waiting' = Append(waiting, t)
  /\ UNCHANGED <<plan, got>>

(* Commit, or a refusal that rolls everything back: both give all locks back.     *)
End(t) ==
  /\ Running(t) /\ got[t] > 0 /\ ~Waits(t)
  /\ plan' = [plan EXCEPT ![t] = <<>>]
  /\ got' = [got EXCEPT ![t] = 0]
  /\ UNCHANGED waiting

(* A set of transactions each of which waits for another one of the set.          *)
Interlocked(S) ==
  S # {} /\ \A t \in S : Waits(t) /\ \E u \in S : Blocks(u, t)

(* The deadlock detector aborts one of them.                                      *)
AbortVictim(t) ==
  /\ \E S \in SUBSET Transactions : t \in S /\ Interlocked(S)
  /\ plan' = [plan EXCEPT ![t] = <<>>]
  /\ got' = [got EXCEPT ![t] = 0]
  /\ Leaves(t)

LocksNext ==
  \E t \in Transactions :
    Begin(t) \/ Acquire(t) \/ Enqueue(t) \/ End(t) \/ AbortVictim(t)

LocksSpec == LocksInit /\ [][LocksNext]_lockVars

-----------------------------------------------------------------------------
(* A late release that goes on to a later month, with its vehicle's row held.     *)
LateRelease(t) ==
  /\ \E v \in Fleet : lockVehicle(v) \in Held(t)
  /\ \E m \in Periods : Request(t) = lockBudgetPeriod("FUEL", m)

(* "Orden global: timeline -> periodo -> vehiculo -> presupuesto. Mantenerlo evita *)
(* interbloqueos": every interlock has a late release in it, which breaks that     *)
(* order when it goes on to the next month, or the daily check, which has none.     *)
OnlyKnownInterlocks ==
  \A S \in SUBSET Transactions :
    Interlocked(S) => \E t \in S : LateRelease(t) \/ DailyCheck(t)

=============================================================================
