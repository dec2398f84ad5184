---------------------------- MODULE LocksProofs ----------------------------
(***************************************************************************)
(* Proofs about the locks of the budgets, for any number of transactions,  *)
(* vehicles and months, and for any distribution and correction that takes *)
(* its vehicles and months in their order.  First the plans, one handler   *)
(* after the other: each asks for locks in the global order of the code,   *)
(* with the exceptions that are named.  Then the lock table, and why       *)
(* nobody who keeps to the order can be waiting in a circle.               *)
(***************************************************************************)
EXTENDS BudgetLocks, FiniteSetTheorems, SequenceTheorems, WellFoundedInduction, TLAPS

-----------------------------------------------------------------------------
(* Locks, their order and their kinds *)

(* What can be locked, as the requests of BudgetLocks name it. *)
Resources ==
  {<<"timeline", k>> : k \in Kinds}
    \cup {<<"period", k, m>> : k \in Kinds, m \in Periods}
    \cup {<<"pool", k, m>> : k \in Kinds, m \in Periods}
    \cup {<<"vehicle", v>> : v \in Fleet}
    \cup {<<"row", k, m, v>> : k \in Kinds, m \in Periods, v \in Fleet}
    \cup {<<"load", v, m>> : v \in Fleet, m \in Periods}
    \cup {<<"ticket", v>> : v \in Fleet}
    \cup {<<"record", v>> : v \in Fleet}
    \cup {<<"folio">>}
(* The locks there are: a resource and the mode it is asked for in. *)
Locks == [resource : Resources, mode : {"S", "X", "U", "N", "K"}]

(* The global order of the code, as a number: timeline, month, pool, vehicle,
   row of the budget, folio; inside each, by id and by month.  What a handler
   takes before all of these (a load, a ticket, a record) comes first. *)
Rank(l) ==
  LET r == l.resource
  IN  CASE r[1] = "timeline" -> IF r[2] = "FUEL" THEN 1 ELSE 2
        [] r[1] = "period" -> 2 + r[3]
        [] r[1] = "pool" -> 3 + LastPeriod
        [] r[1] = "vehicle" -> 3 + LastPeriod + r[2]
        [] r[1] = "row" -> 3 + LastPeriod + FleetSize + r[3] + r[4]
        [] r[1] = "folio" -> 4 + LastPeriod + LastPeriod + FleetSize + FleetSize
        [] OTHER -> 0

(* l is a lock of the budget of kind k: of a month, a pool or a row of it. *)
OfKind(l, k) ==
  \/ \E m \in Periods : l.resource \in {<<"period", k, m>>, <<"pool", k, m>>}
  \/ \E m \in Periods, v \in Fleet : l.resource = <<"row", k, m, v>>

(* l is the timeline of kind k, which every handler takes before it. *)
Opens(l, k) == l \in {lockBudgetTimelineShared(k), lockBudgetTimelineExclusive(k)}

(* What the rank of each request is. *)
LEMMA LockRanks ==
  ASSUME NEW k \in Kinds, NEW m \in Periods, NEW v \in Fleet
  PROVE  /\ Rank(lockBudgetTimelineShared(k)) = IF k = "FUEL" THEN 1 ELSE 2
         /\ Rank(lockBudgetTimelineExclusive(k)) = IF k = "FUEL" THEN 1 ELSE 2
         /\ Rank(lockBudgetPeriod(k, m)) = 2 + m
         /\ Rank(lockMonthlyPool(k, m)) = 3 + LastPeriod
         /\ \A mode : Rank(Lock(<<"vehicle", v>>, mode)) = 3 + LastPeriod + v
         /\ Rank(lockVehicle(v)) = 3 + LastPeriod + v
         /\ Rank(lockBudgetRow(k, v, m)) = 3 + LastPeriod + FleetSize + m + v
         /\ Rank(lockFuelLoadState(v, m)) = 0
         /\ Rank(lockTicket(v)) = 0
         /\ Rank(lockMaintenanceRecord(v)) = 0
         /\ Rank(Lock(<<"folio">>, "U")) = 4 + LastPeriod + LastPeriod + FleetSize + FleetSize
<1>1. /\ Rank(lockBudgetTimelineShared(k)) = IF k = "FUEL" THEN 1 ELSE 2
      /\ Rank(lockBudgetTimelineExclusive(k)) = IF k = "FUEL" THEN 1 ELSE 2
  BY DEF Rank, lockBudgetTimelineShared, lockBudgetTimelineExclusive, Lock
<1>2. Rank(lockBudgetPeriod(k, m)) = 2 + m
  BY DEF Rank, lockBudgetPeriod, Lock
<1>3. Rank(lockMonthlyPool(k, m)) = 3 + LastPeriod
  BY DEF Rank, lockMonthlyPool, Lock
<1>4. ASSUME NEW mode PROVE Rank(Lock(<<"vehicle", v>>, mode)) = 3 + LastPeriod + v
  BY DEF Rank, Lock
<1>5. Rank(lockBudgetRow(k, v, m)) = 3 + LastPeriod + FleetSize + m + v
  BY DEF Rank, lockBudgetRow, Lock
<1>6. /\ Rank(lockFuelLoadState(v, m)) = 0
      /\ Rank(lockTicket(v)) = 0
      /\ Rank(lockMaintenanceRecord(v)) = 0
  BY DEF Rank, lockFuelLoadState, lockTicket, lockMaintenanceRecord, Lock
<1>7. Rank(Lock(<<"folio">>, "U")) = 4 + LastPeriod + LastPeriod + FleetSize + FleetSize
  BY DEF Rank, Lock
<1> QED
  BY <1>1, <1>2, <1>3, <1>4, <1>5, <1>6, <1>7 DEF lockVehicle

(* Each request is a lock. *)
LEMMA LockTypes ==
  ASSUME NEW k \in Kinds, NEW m \in Periods, NEW v \in Fleet
  PROVE  /\ lockBudgetTimelineShared(k) \in Locks
         /\ lockBudgetTimelineExclusive(k) \in Locks
         /\ lockBudgetPeriod(k, m) \in Locks
         /\ lockMonthlyPool(k, m) \in Locks
         /\ lockVehicle(v) \in Locks
         /\ \A mode \in {"N", "K"} : Lock(<<"vehicle", v>>, mode) \in Locks
         /\ lockBudgetRow(k, v, m) \in Locks
         /\ lockFuelLoadState(v, m) \in Locks
         /\ lockTicket(v) \in Locks
         /\ lockMaintenanceRecord(v) \in Locks
         /\ Lock(<<"folio">>, "U") \in Locks
<1>1. /\ <<"timeline", k>> \in Resources /\ <<"period", k, m>> \in Resources
      /\ <<"pool", k, m>> \in Resources /\ <<"vehicle", v>> \in Resources
      /\ <<"row", k, m, v>> \in Resources /\ <<"load", v, m>> \in Resources
      /\ <<"ticket", v>> \in Resources /\ <<"record", v>> \in Resources
      /\ <<"folio">> \in Resources
  BY DEF Resources
<1> QED
  BY <1>1 DEF Locks, Lock, lockBudgetTimelineShared, lockBudgetTimelineExclusive, lockBudgetPeriod,
     lockMonthlyPool, lockVehicle, lockBudgetRow, lockFuelLoadState, lockTicket, lockMaintenanceRecord

-----------------------------------------------------------------------------
(* Climbing plans *)

(* s asks for locks of ever higher rank, from lo up to hi. *)
Climbs(s, lo, hi) ==
  /\ s \in Seq(Locks) /\ lo \in Int /\ hi \in Int
  /\ \A i \in DOMAIN s : lo <= Rank(s[i]) /\ Rank(s[i]) <= hi /\ Rank(s[i]) \in Int
  /\ \A i, j \in DOMAIN s : i < j => Rank(s[i]) < Rank(s[j])

(* In s no lock of a budget comes before the timeline of its kind. *)
Opened(s) ==
  \A j \in DOMAIN s : \A k \in Kinds :
    OfKind(s[j], k) => \E i \in 1..(j - 1) : Opens(s[i], k)

(* s takes the timeline of kind k. *)
HasOpened(s, k) == \E i \in DOMAIN s : Opens(s[i], k)

(* Two plans, one after the other. *)
LEMMA Joined ==
  ASSUME NEW s \in Seq(Locks), NEW t \in Seq(Locks)
  PROVE  /\ Len(s) \in Nat /\ Len(t) \in Nat /\ s \o t \in Seq(Locks)
         /\ DOMAIN s = 1..Len(s) /\ DOMAIN t = 1..Len(t)
         /\ DOMAIN (s \o t) = 1..(Len(s) + Len(t))
         /\ \A i \in DOMAIN s : (s \o t)[i] = s[i]
         /\ \A i \in DOMAIN t : (s \o t)[Len(s) + i] = t[i]
         /\ \A i \in DOMAIN (s \o t) :
              \/ i \in DOMAIN s /\ (s \o t)[i] = s[i]
              \/ i - Len(s) \in DOMAIN t /\ i > Len(s) /\ (s \o t)[i] = t[i - Len(s)]
<1>1. /\ s \o t \in Seq(Locks)
      /\ Len(s \o t) = Len(s) + Len(t) /\ Len(s) \in Nat /\ Len(t) \in Nat
      /\ DOMAIN (s \o t) = 1..(Len(s) + Len(t)) /\ DOMAIN s = 1..Len(s) /\ DOMAIN t = 1..Len(t)
      /\ \A i \in 1..(Len(s) + Len(t)) : (s \o t)[i] = IF i <= Len(s) THEN s[i] ELSE t[i - Len(s)]
  BY ConcatProperties, LenProperties
<1>2. ASSUME NEW i \in DOMAIN t
      PROVE  (s \o t)[Len(s) + i] = t[i]
  <2>1. Len(s) + i \in 1..(Len(s) + Len(t)) /\ ~(Len(s) + i <= Len(s)) /\ (Len(s) + i) - Len(s) = i
    BY <1>1
  <2> QED
    BY <1>1, <2>1
<1>3. \A i \in DOMAIN (s \o t) :
        \/ i \in DOMAIN s /\ (s \o t)[i] = s[i]
        \/ i - Len(s) \in DOMAIN t /\ i > Len(s) /\ (s \o t)[i] = t[i - Len(s)]
  BY <1>1
<1> QED
  BY <1>1, <1>2, <1>3

(* A climb that goes on where another one has ended. *)
LEMMA ClimbOn ==
  ASSUME NEW s, NEW t, NEW a, NEW b, NEW c, NEW d,
         Climbs(s, a, b), Climbs(t, c, d), b < c, a <= c, b <= d
  PROVE  Climbs(s \o t, a, d)
<1>1. s \in Seq(Locks) /\ t \in Seq(Locks) /\ {a, b, c, d} \subseteq Int
  BY DEF Climbs
<1>2. /\ s \o t \in Seq(Locks) /\ Len(s) \in Nat /\ Len(t) \in Nat
      /\ DOMAIN (s \o t) = 1..(Len(s) + Len(t)) /\ DOMAIN s = 1..Len(s) /\ DOMAIN t = 1..Len(t)
      /\ \A i \in DOMAIN s : (s \o t)[i] = s[i]
  BY <1>1, Joined
<1>3. \A i \in DOMAIN (s \o t) :
        \/ i \in DOMAIN s /\ (s \o t)[i] = s[i]
        \/ i - Len(s) \in DOMAIN t /\ i > Len(s) /\ (s \o t)[i] = t[i - Len(s)]
  BY <1>1, Joined
<1>4. ASSUME NEW i \in DOMAIN (s \o t)
      PROVE  /\ a <= Rank((s \o t)[i]) /\ Rank((s \o t)[i]) <= d
             /\ Rank((s \o t)[i]) \in Int
  BY <1>1, <1>3 DEF Climbs
<1>5. ASSUME NEW i \in DOMAIN (s \o t), NEW j \in DOMAIN (s \o t), i < j
      PROVE  Rank((s \o t)[i]) < Rank((s \o t)[j])
  <2>1. CASE j \in DOMAIN s /\ (s \o t)[j] = s[j]
    <3>1. i \in DOMAIN s /\ (s \o t)[i] = s[i]
      BY <1>2, <1>5, <2>1
    <3> QED
      BY <1>5, <2>1, <3>1 DEF Climbs
  <2>2. CASE /\ j - Len(s) \in DOMAIN t /\ j > Len(s) /\ (s \o t)[j] = t[j - Len(s)]
             /\ i \in DOMAIN s /\ (s \o t)[i] = s[i]
    <3>1. Rank((s \o t)[i]) <= b /\ Rank((s \o t)[i]) \in Int
      BY <2>2 DEF Climbs
    <3>2. c <= Rank((s \o t)[j]) /\ Rank((s \o t)[j]) \in Int
      BY <2>2 DEF Climbs
    <3> QED
      BY <1>1, <3>1, <3>2
  <2>3. CASE /\ j - Len(s) \in DOMAIN t /\ (s \o t)[j] = t[j - Len(s)]
             /\ i - Len(s) \in DOMAIN t /\ (s \o t)[i] = t[i - Len(s)]
    <3>1. i - Len(s) < j - Len(s)
      BY <1>2, <1>5
    <3> QED
      BY <2>3, <3>1 DEF Climbs
  <2> QED
    BY <1>3, <2>1, <2>2, <2>3
<1> QED
  BY <1>1, <1>2, <1>4, <1>5 DEF Climbs

(* What comes after the timelines it needs. *)
LEMMA OpenOn ==
  ASSUME NEW s \in Seq(Locks), NEW t \in Seq(Locks), Opened(s),
         \A j \in DOMAIN t : \A k \in Kinds : OfKind(t[j], k) => HasOpened(s, k)
  PROVE  Opened(s \o t)
<1>1. /\ Len(s) \in Nat /\ Len(t) \in Nat
      /\ DOMAIN (s \o t) = 1..(Len(s) + Len(t)) /\ DOMAIN s = 1..Len(s) /\ DOMAIN t = 1..Len(t)
      /\ \A i \in 1..(Len(s) + Len(t)) : (s \o t)[i] = IF i <= Len(s) THEN s[i] ELSE t[i - Len(s)]
  BY ConcatProperties, LenProperties
<1> SUFFICES ASSUME NEW j \in DOMAIN (s \o t), NEW k \in Kinds, OfKind((s \o t)[j], k)
             PROVE  \E i \in 1..(j - 1) : Opens((s \o t)[i], k)
  BY DEF Opened
<1>2. CASE j <= Len(s)
  <2>1. j \in DOMAIN s /\ OfKind(s[j], k)
    BY <1>1, <1>2
  <2>2. PICK i \in 1..(j - 1) : Opens(s[i], k)
    BY <2>1 DEF Opened
  <2>3. (s \o t)[i] = s[i]
    BY <1>1, <1>2
  <2> QED
    BY <2>2, <2>3
<1>3. CASE j > Len(s)
  <2>1. j - Len(s) \in DOMAIN t /\ OfKind(t[j - Len(s)], k)
    BY <1>1, <1>3
  <2>2. PICK i \in DOMAIN s : Opens(s[i], k)
    BY <2>1 DEF HasOpened
  <2>3. (s \o t)[i] = s[i] /\ i \in 1..(j - 1)
    BY <1>1, <1>3
  <2> QED
    BY <2>2, <2>3
<1> QED
  BY <1>1, <1>2, <1>3

(* A timeline that one of two parts takes is taken by the whole. *)
LEMMA OpenedOn ==
  ASSUME NEW s \in Seq(Locks), NEW t \in Seq(Locks), NEW k,
         HasOpened(s, k) \/ HasOpened(t, k)
  PROVE  HasOpened(s \o t, k)
<1>1. /\ Len(s) \in Nat /\ Len(t) \in Nat
      /\ DOMAIN (s \o t) = 1..(Len(s) + Len(t)) /\ DOMAIN s = 1..Len(s) /\ DOMAIN t = 1..Len(t)
      /\ \A i \in 1..(Len(s) + Len(t)) : (s \o t)[i] = IF i <= Len(s) THEN s[i] ELSE t[i - Len(s)]
  BY ConcatProperties, LenProperties
<1>2. CASE HasOpened(s, k)
  <2>1. PICK i \in DOMAIN s : Opens(s[i], k)
    BY <1>2 DEF HasOpened
  <2>2. (s \o t)[i] = s[i] /\ i \in DOMAIN (s \o t)
    BY <1>1
  <2> QED
    BY <2>1, <2>2 DEF HasOpened
<1>3. CASE HasOpened(t, k)
  <2>1. PICK i \in DOMAIN t : Opens(t[i], k)
    BY <1>3 DEF HasOpened
  <2>2. (s \o t)[Len(s) + i] = t[i] /\ Len(s) + i \in DOMAIN (s \o t)
    BY <1>1
  <2> QED
    BY <2>1, <2>2 DEF HasOpened
<1> QED
  BY <1>2, <1>3

(* Which locks are of a kind, and which open one. *)
LEMMA LockKinds ==
  ASSUME NEW k \in Kinds, NEW c, NEW m \in Periods, NEW v \in Fleet
  PROVE  /\ ~OfKind(lockBudgetTimelineShared(k), c)
         /\ ~OfKind(lockBudgetTimelineExclusive(k), c)
         /\ OfKind(lockBudgetPeriod(k, m), c) => c = k
         /\ OfKind(lockMonthlyPool(k, m), c) => c = k
         /\ OfKind(lockBudgetRow(k, v, m), c) => c = k
         /\ OfKind(lockBudgetPeriod(k, m), k) /\ OfKind(lockBudgetRow(k, v, m), k)
         /\ \A mode : ~OfKind(Lock(<<"vehicle", v>>, mode), c)
         /\ ~OfKind(lockVehicle(v), c)
         /\ ~OfKind(lockFuelLoadState(v, m), c)
         /\ ~OfKind(lockTicket(v), c)
         /\ ~OfKind(lockMaintenanceRecord(v), c)
         /\ ~OfKind(Lock(<<"folio">>, "U"), c)
<1>1. /\ ~OfKind(lockBudgetTimelineShared(k), c)
      /\ ~OfKind(lockBudgetTimelineExclusive(k), c)
  BY DEF OfKind, lockBudgetTimelineShared, lockBudgetTimelineExclusive, Lock
<1>2. /\ OfKind(lockBudgetPeriod(k, m), c) => c = k
      /\ OfKind(lockBudgetPeriod(k, m), k)
  BY DEF OfKind, lockBudgetPeriod, Lock
<1>3. OfKind(lockMonthlyPool(k, m), c) => c = k
  BY DEF OfKind, lockMonthlyPool, Lock
<1>4. /\ OfKind(lockBudgetRow(k, v, m), c) => c = k
      /\ OfKind(lockBudgetRow(k, v, m), k)
  BY DEF OfKind, lockBudgetRow, Lock
<1>5. \A mode : ~OfKind(Lock(<<"vehicle", v>>, mode), c)
  BY DEF OfKind, Lock
<1>6. /\ ~OfKind(lockFuelLoadState(v, m), c)
      /\ ~OfKind(lockTicket(v), c)
      /\ ~OfKind(lockMaintenanceRecord(v), c)
      /\ ~OfKind(Lock(<<"folio">>, "U"), c)
  BY DEF OfKind, lockFuelLoadState, lockTicket, lockMaintenanceRecord, Lock
<1> QED
  BY <1>1, <1>2, <1>3, <1>4, <1>5, <1>6 DEF lockVehicle

(* Some natural numbers have a smallest one. *)
LEMMA SmallestOf ==
  ASSUME NEW A \in SUBSET Nat, A # {}
  PROVE  \E n \in A : \A m \in A : n <= m
<1> DEFINE Below == {ss \in Nat \X Nat : ss[1] < ss[2]}
<1>1. IsWellFoundedOn(Below, Nat)
  BY NatLessThanWellFounded DEF OpToRel
<1> HIDE DEF Below
<1>2. \E n \in A : \A m \in A : ~(<<m, n>> \in Below)
  BY <1>1, WFMin
<1>3. \E n \in A : \A m \in A : ~(m < n)
  BY <1>2 DEF Below
<1> QED
  BY <1>3

(* The numbers that months and vehicles are. *)
LEMMA PeriodRange ==
  /\ FleetSize \in Nat /\ FleetSize >= 1 /\ LastPeriod \in Nat /\ LastPeriod >= 1
  /\ \A m \in Periods : m \in Nat /\ 1 <= m /\ m <= LastPeriod
  /\ \A v \in Fleet : v \in Nat /\ 1 <= v /\ v <= FleetSize
  /\ "FUEL" \in Kinds /\ "MAINTENANCE" \in Kinds
  /\ \A k \in Kinds : k = "FUEL" \/ k = "MAINTENANCE"
BY LockConstants DEF Periods, Fleet, Kinds

(* A plan of one lock. *)
LEMMA OneLock ==
  ASSUME NEW l \in Locks, NEW r \in Int, Rank(l) = r
  PROVE  /\ Climbs(<<l>>, r, r)
         /\ (\A k \in Kinds : ~OfKind(l, k)) => Opened(<<l>>)
<1>1. <<l>> \in Seq(Locks) /\ DOMAIN <<l>> = 1..1 /\ <<l>>[1] = l
  OBVIOUS
<1> QED
  BY <1>1 DEF Climbs, Opened

(* The bounds of a climb may be wider than it is. *)
LEMMA Wider ==
  ASSUME NEW s, NEW a, NEW b, NEW c \in Int, NEW d \in Int, Climbs(s, a, b), c <= a, b <= d
  PROVE  Climbs(s, c, d)
<1>1. ASSUME NEW i \in DOMAIN s
      PROVE  c <= Rank(s[i]) /\ Rank(s[i]) <= d /\ Rank(s[i]) \in Int
  BY DEF Climbs
<1> QED
  BY <1>1 DEF Climbs

(* lockOpenBudgetPeriod climbs from a timeline to a month of its kind. *)
LEMMA OpenPeriod ==
  ASSUME NEW k \in Kinds, NEW m \in Periods
  PROVE  /\ Climbs(lockOpenBudgetPeriod(k, m), 1, 2 + m)
         /\ Opened(lockOpenBudgetPeriod(k, m))
         /\ HasOpened(lockOpenBudgetPeriod(k, m), k)
<1> DEFINE a == lockBudgetTimelineShared(k)
           b == lockBudgetPeriod(k, m)
           s == <<a, b>>
<1>1. 1 \in Fleet
  BY PeriodRange DEF Fleet
<1>2. a \in Locks /\ b \in Locks
  BY <1>1, LockTypes
<1>3. /\ Rank(a) \in Int /\ 1 <= Rank(a) /\ Rank(a) < Rank(b)
      /\ Rank(b) = 2 + m /\ m \in Nat
  <2>1. Rank(a) = IF k = "FUEL" THEN 1 ELSE 2
    BY <1>1, LockRanks
  <2>2. Rank(b) = 2 + m
    BY <1>1, LockRanks
  <2>3. m \in Nat /\ 1 <= m
    BY PeriodRange
  <2> HIDE DEF a, b
  <2> QED
    BY <2>1, <2>2, <2>3
<1>4. \A c \in Kinds : ~OfKind(a, c) /\ (OfKind(b, c) => c = k)
  BY <1>1, LockKinds
<1>5. Opens(a, k)
  BY DEF Opens
<1> HIDE DEF a, b
<1>6. s \in Seq(Locks) /\ DOMAIN s = 1..2 /\ s[1] = a /\ s[2] = b
  BY <1>2
<1>7. Climbs(s, 1, 2 + m)
  BY <1>3, <1>6 DEF Climbs
<1>8. Opened(s)
  BY <1>4, <1>5, <1>6 DEF Opened
<1>9. HasOpened(s, k)
  BY <1>5, <1>6 DEF HasOpened
<1> QED
  BY <1>7, <1>8, <1>9 DEF a, b, lockOpenBudgetPeriod

(* Members of Ascending are sequences that ascend. *)
LEMMA AscendingIs ==
  ASSUME NEW n \in Nat, NEW s \in Ascending(n)
  PROVE  /\ Len(s) \in Nat /\ DOMAIN s = 1..Len(s)
         /\ \A i \in DOMAIN s : s[i] \in 1..n
         /\ \A i, j \in DOMAIN s : i < j => s[i] < s[j]
<1>1. PICK i \in 1..n : s \in [1..i -> 1..n]
  BY DEF Ascending
<1>2. s \in Seq(1..n)
  BY <1>1
<1>3. \A h, j \in DOMAIN s : h < j => s[h] < s[j]
  BY DEF Ascending
<1> QED
  BY <1>1, <1>2, <1>3, LenProperties

(* The fleet by its ids is one of them. *)
LEMMA FleetAscends == WholeFleet \in Ascending(FleetSize)
<1>1. FleetSize \in 1..FleetSize
  BY PeriodRange
<1>2. WholeFleet \in [1..FleetSize -> 1..FleetSize]
  BY DEF WholeFleet, Fleet
<1>3. \A i, j \in DOMAIN WholeFleet : i < j => WholeFleet[i] < WholeFleet[j]
  BY DEF WholeFleet, Fleet
<1> QED
  BY <1>1, <1>2, <1>3 DEF Ascending

(* Vehicles taken by their ids climb. *)
LEMMA VehiclesClimb ==
  ASSUME NEW vs \in Ascending(FleetSize)
  PROVE  /\ Climbs(EachOf(vs, lockVehicle), 4 + LastPeriod, 3 + LastPeriod + FleetSize)
         /\ \A j \in DOMAIN EachOf(vs, lockVehicle), c \in Kinds :
              ~OfKind(EachOf(vs, lockVehicle)[j], c)
<1> DEFINE s == [i \in DOMAIN vs |-> lockVehicle(vs[i])]
<1>0. s = EachOf(vs, lockVehicle)
  BY DEF EachOf
<1>1. /\ Len(vs) \in Nat /\ DOMAIN vs = 1..Len(vs)
      /\ \A i \in DOMAIN vs : vs[i] \in Fleet
      /\ \A i, j \in DOMAIN vs : i < j => vs[i] < vs[j]
  BY AscendingIs, PeriodRange DEF Fleet
<1>2. 1 \in Periods
  BY PeriodRange DEF Periods
<1>3. ASSUME NEW i \in DOMAIN vs
      PROVE  /\ s[i] \in Locks /\ Rank(s[i]) = 3 + LastPeriod + vs[i]
             /\ \A c \in Kinds : ~OfKind(s[i], c)
  <2>1. vs[i] \in Fleet /\ s[i] = lockVehicle(vs[i])
    BY <1>1, <1>3
  <2> HIDE DEF s
  <2>2. s[i] \in Locks /\ Rank(s[i]) = 3 + LastPeriod + vs[i]
    <3>1. "FUEL" \in Kinds
      BY PeriodRange
    <3> QED
      BY <1>2, <2>1, <3>1, LockTypes, LockRanks
  <2>3. ASSUME NEW c \in Kinds
        PROVE  ~OfKind(s[i], c)
    <3>1. ~OfKind(lockVehicle(vs[i]), c)
      BY ONLY <1>2, <2>1, <2>3, LockKinds
    <3> QED
      BY <2>1, <3>1
  <2> QED
    BY <2>2, <2>3
<1>4. DOMAIN s = 1..Len(vs) /\ s \in Seq(Locks)
  BY <1>1, <1>3
<1> HIDE DEF s
<1>5. Climbs(s, 4 + LastPeriod, 3 + LastPeriod + FleetSize)
  <2>1. \A i \in DOMAIN s : 4 + LastPeriod <= Rank(s[i]) /\ Rank(s[i]) <= 3 + LastPeriod + FleetSize /\ Rank(s[i]) \in Int
    BY <1>1, <1>3, <1>4, PeriodRange
  <2>2. ASSUME NEW i \in DOMAIN s, NEW j \in DOMAIN s, i < j
        PROVE  Rank(s[i]) < Rank(s[j])
    BY <1>1, <1>3, <1>4, <2>2, PeriodRange
  <2> QED
    BY <1>4, <2>1, <2>2, PeriodRange DEF Climbs
<1> QED
  BY <1>0, <1>1, <1>3, <1>4, <1>5

(* So do their rows of one month. *)
LEMMA RowsClimb ==
  ASSUME NEW k \in Kinds, NEW m \in Periods, NEW vs \in Ascending(FleetSize)
  PROVE  LET s == EachOf(vs, LAMBDA v : lockBudgetRow(k, v, m))
         IN  /\ Climbs(s, 4 + LastPeriod + FleetSize, 3 + LastPeriod + LastPeriod + FleetSize + FleetSize)
             /\ DOMAIN s = DOMAIN vs
             /\ \A j \in DOMAIN s : \E v \in Fleet : s[j] = lockBudgetRow(k, v, m)
<1> DEFINE s == [i \in DOMAIN vs |-> lockBudgetRow(k, vs[i], m)]
<1>0. s = EachOf(vs, LAMBDA v : lockBudgetRow(k, v, m))
  BY DEF EachOf
<1>1. /\ Len(vs) \in Nat /\ DOMAIN vs = 1..Len(vs)
      /\ \A i \in DOMAIN vs : vs[i] \in Fleet
      /\ \A i, j \in DOMAIN vs : i < j => vs[i] < vs[j]
  BY AscendingIs, PeriodRange DEF Fleet
<1>3. ASSUME NEW i \in DOMAIN vs
      PROVE  /\ s[i] \in Locks /\ Rank(s[i]) = 3 + LastPeriod + FleetSize + m + vs[i]
             /\ s[i] = lockBudgetRow(k, vs[i], m)
  <2>1. vs[i] \in Fleet /\ s[i] = lockBudgetRow(k, vs[i], m)
    BY <1>1, <1>3
  <2> HIDE DEF s
  <2>2. lockBudgetRow(k, vs[i], m) \in Locks
    BY <2>1, LockTypes
  <2>3. Rank(lockBudgetRow(k, vs[i], m)) = 3 + LastPeriod + FleetSize + m + vs[i]
    BY <2>1, LockRanks
  <2> QED
    BY <2>1, <2>2, <2>3
<1>4. DOMAIN s = 1..Len(vs) /\ s \in Seq(Locks)
  BY <1>1, <1>3
<1> HIDE DEF s
<1>5. Climbs(s, 4 + LastPeriod + FleetSize, 3 + LastPeriod + LastPeriod + FleetSize + FleetSize)
  <2>1. \A i \in DOMAIN s : 4 + LastPeriod + FleetSize <= Rank(s[i]) /\ Rank(s[i]) <= 3 + LastPeriod + LastPeriod + FleetSize + FleetSize /\ Rank(s[i]) \in Int
    BY <1>1, <1>3, <1>4, PeriodRange
  <2>2. ASSUME NEW i \in DOMAIN s, NEW j \in DOMAIN s, i < j
        PROVE  Rank(s[i]) < Rank(s[j])
    BY <1>1, <1>3, <1>4, <2>2, PeriodRange
  <2> QED
    BY <1>4, <2>1, <2>2, PeriodRange DEF Climbs
<1> QED
  BY <1>0, <1>1, <1>3, <1>4, <1>5

(* So do months, taken in their order. *)
LEMMA PeriodsClimb ==
  ASSUME NEW k \in Kinds, NEW ms \in Ascending(LastPeriod)
  PROVE  LET s == EachOf(ms, LAMBDA m : lockBudgetPeriod(k, m))
         IN  /\ Climbs(s, 3, 2 + LastPeriod)
             /\ \A j \in DOMAIN s, c \in Kinds : OfKind(s[j], c) => c = k
<1> DEFINE s == [i \in DOMAIN ms |-> lockBudgetPeriod(k, ms[i])]
<1>0. s = EachOf(ms, LAMBDA m : lockBudgetPeriod(k, m))
  BY DEF EachOf
<1>1. /\ Len(ms) \in Nat /\ DOMAIN ms = 1..Len(ms)
      /\ \A i \in DOMAIN ms : ms[i] \in Periods
      /\ \A i, j \in DOMAIN ms : i < j => ms[i] < ms[j]
  BY AscendingIs, PeriodRange DEF Periods
<1>2. 1 \in Fleet
  BY PeriodRange DEF Fleet
<1>3. ASSUME NEW i \in DOMAIN ms
      PROVE  /\ s[i] \in Locks /\ Rank(s[i]) = 2 + ms[i]
             /\ \A c \in Kinds : OfKind(s[i], c) => c = k
  <2>1. ms[i] \in Periods /\ s[i] = lockBudgetPeriod(k, ms[i])
    BY <1>1, <1>3
  <2> HIDE DEF s
  <2>2. s[i] \in Locks /\ Rank(s[i]) = 2 + ms[i]
    <3>1. lockBudgetPeriod(k, ms[i]) \in Locks
      BY <1>2, <2>1, LockTypes
    <3>2. Rank(lockBudgetPeriod(k, ms[i])) = 2 + ms[i]
      BY <1>2, <2>1, LockRanks
    <3> QED
      BY <2>1, <3>1, <3>2
  <2>3. ASSUME NEW c \in Kinds
        PROVE  OfKind(s[i], c) => c = k
    <3>1. OfKind(lockBudgetPeriod(k, ms[i]), c) => c = k
      BY ONLY <1>2, <2>1, <2>3, LockKinds, k \in Kinds
    <3> QED
      BY <2>1, <3>1
  <2> QED
    BY <2>2, <2>3
<1>4. DOMAIN s = 1..Len(ms) /\ s \in Seq(Locks)
  BY <1>1, <1>3
<1> HIDE DEF s
<1>5. Climbs(s, 3, 2 + LastPeriod)
  <2>1. \A i \in DOMAIN s : 3 <= Rank(s[i]) /\ Rank(s[i]) <= 2 + LastPeriod /\ Rank(s[i]) \in Int
    BY <1>1, <1>3, <1>4, PeriodRange
  <2>2. ASSUME NEW i \in DOMAIN s, NEW j \in DOMAIN s, i < j
        PROVE  Rank(s[i]) < Rank(s[j])
    BY <1>1, <1>3, <1>4, <2>2, PeriodRange
  <2> QED
    BY <1>4, <2>1, <2>2, PeriodRange DEF Climbs
<1> QED
  BY <1>0, <1>1, <1>3, <1>4, <1>5

-----------------------------------------------------------------------------
(* Orderly plans: one lemma per handler *)

(* The highest rank there is: the folio's. *)
Highest == 4 + LastPeriod + LastPeriod + FleetSize + FleetSize

(* p[j] is a month of fuel asked for with a vehicle held: a late release. *)
LateAt(p, j) ==
  /\ \E m \in Periods : p[j] = lockBudgetPeriod("FUEL", m)
  /\ \E h \in 1..(j - 1), v \in Fleet : p[h] = lockVehicle(v)

(* p[i] is a lock of a kind whose timeline the transaction has for itself. *)
Sheltered(p, i) ==
  \E k \in Kinds, h \in 1..(i - 1) : p[h] = lockBudgetTimelineExclusive(k) /\ OfKind(p[i], k)

(* A plan that keeps to the order: what comes later has a higher rank, unless it
   is the next month of a late release, or the earlier lock is of a kind that
   nobody else can be in. *)
Orderly(p) ==
  /\ p \in Seq(Locks) /\ Opened(p)
  /\ \A i \in DOMAIN p : Rank(p[i]) \in 0..Highest
  /\ \A i, j \in DOMAIN p :
       i < j => Rank(p[i]) < Rank(p[j]) \/ LateAt(p, j) \/ Sheltered(p, i)

(* A plan that climbs is orderly. *)
LEMMA ClimbingIsOrderly ==
  ASSUME NEW p, NEW a, NEW b, Climbs(p, a, b), 0 <= a, b <= Highest, Opened(p)
  PROVE  Orderly(p)
<1>1. Highest \in Nat /\ a \in Int /\ b \in Int
  BY PeriodRange DEF Highest, Climbs
<1>2. ASSUME NEW i \in DOMAIN p
      PROVE  Rank(p[i]) \in 0..Highest
  BY <1>1 DEF Climbs
<1> QED
  BY <1>2 DEF Climbs, Orderly

(* Charging a load: createFuelLoad. *)
LEMMA ChargeClimbs ==
  ASSUME NEW k \in Kinds, NEW v \in Fleet, NEW m \in Periods
  PROVE  LET p == lockOpenBudgetPeriod(k, m) \o <<lockVehicle(v)>>
             q == p \o <<lockBudgetRow(k, v, m)>>
         IN  /\ Climbs(p, 1, 3 + LastPeriod + v) /\ Opened(p) /\ HasOpened(p, k)
             /\ Climbs(q, 1, 3 + LastPeriod + FleetSize + m + v) /\ Opened(q) /\ HasOpened(q, k)
<1> DEFINE o == lockOpenBudgetPeriod(k, m)
           p == o \o <<lockVehicle(v)>>
           q == p \o <<lockBudgetRow(k, v, m)>>
<1>1. Climbs(o, 1, 2 + m) /\ Opened(o) /\ HasOpened(o, k)
  BY OpenPeriod
<1>2. /\ lockVehicle(v) \in Locks /\ Rank(lockVehicle(v)) = 3 + LastPeriod + v
      /\ lockBudgetRow(k, v, m) \in Locks
      /\ Rank(lockBudgetRow(k, v, m)) = 3 + LastPeriod + FleetSize + m + v
  BY LockTypes, LockRanks
<1>3. \A c \in Kinds : ~OfKind(lockVehicle(v), c)
  BY LockKinds
<1>4. \A c \in Kinds : OfKind(lockBudgetRow(k, v, m), c) => c = k
  BY LockKinds
<1>5. m \in Nat /\ v \in Nat /\ FleetSize \in Nat /\ LastPeriod \in Nat
      /\ 1 <= v /\ 1 <= m /\ m <= LastPeriod /\ v <= FleetSize
  BY PeriodRange
<1> HIDE DEF o
<1>6. Climbs(<<lockVehicle(v)>>, 3 + LastPeriod + v, 3 + LastPeriod + v)
  BY <1>2, <1>5, OneLock
<1>7. Climbs(p, 1, 3 + LastPeriod + v)
  BY <1>1, <1>5, <1>6, ClimbOn
<1>8. Opened(p) /\ HasOpened(p, k)
  <2>1. o \in Seq(Locks) /\ <<lockVehicle(v)>> \in Seq(Locks)
    BY <1>1, <1>6 DEF Climbs
  <2>2. DOMAIN <<lockVehicle(v)>> = {1} /\ <<lockVehicle(v)>>[1] = lockVehicle(v)
    OBVIOUS
  <2> QED
    BY <1>1, <1>3, <2>1, <2>2, OpenOn, OpenedOn
<1> HIDE DEF p
<1>9. Climbs(<<lockBudgetRow(k, v, m)>>, 3 + LastPeriod + FleetSize + m + v,
             3 + LastPeriod + FleetSize + m + v)
  BY <1>2, <1>5, OneLock
<1>10. Climbs(q, 1, 3 + LastPeriod + FleetSize + m + v)
  BY <1>5, <1>7, <1>9, ClimbOn
<1>11. Opened(q) /\ HasOpened(q, k)
  <2>1. p \in Seq(Locks) /\ <<lockBudgetRow(k, v, m)>> \in Seq(Locks)
    BY <1>7, <1>9 DEF Climbs
  <2>2. /\ DOMAIN <<lockBudgetRow(k, v, m)>> = {1}
        /\ <<lockBudgetRow(k, v, m)>>[1] = lockBudgetRow(k, v, m)
    OBVIOUS
  <2> QED
    BY <1>4, <1>8, <2>1, <2>2, OpenOn, OpenedOn
<1> QED
  BY <1>7, <1>8, <1>10, <1>11 DEF p, o

(* A lock that is no budget's, taken first. *)
LEMMA AfterRecord ==
  ASSUME NEW l \in Locks, Rank(l) = 0, \A k \in Kinds : ~OfKind(l, k),
         NEW p, NEW b, Climbs(p, 1, b), 0 <= b, Opened(p)
  PROVE  /\ Climbs(<<l>> \o p, 0, b) /\ Opened(<<l>> \o p)
         /\ \A k : HasOpened(p, k) => HasOpened(<<l>> \o p, k)
<1>1. Climbs(<<l>>, 0, 0) /\ Opened(<<l>>)
  BY OneLock
<1>2. b \in Int /\ p \in Seq(Locks) /\ <<l>> \in Seq(Locks)
  BY <1>1 DEF Climbs
<1>3. Climbs(<<l>> \o p, 0, b)
  BY <1>1, <1>2, ClimbOn
<1> DEFINE q == <<l>> \o p
<1>4. /\ Len(p) \in Nat /\ DOMAIN p = 1..Len(p)
      /\ DOMAIN q = 1..(Len(p) + 1) /\ q[1] = l
      /\ \A i \in DOMAIN p : q[i + 1] = p[i]
  <2>1. Len(<<l>>) = 1 /\ DOMAIN <<l>> = {1} /\ <<l>>[1] = l
    OBVIOUS
  <2>2. \A i \in DOMAIN p : q[1 + i] = p[i]
    BY <1>2, <2>1, Joined
  <2>3. q[1] = l /\ Len(p) \in Nat /\ DOMAIN p = 1..Len(p) /\ DOMAIN q = 1..(1 + Len(p))
    BY <1>2, <2>1, Joined
  <2> HIDE DEF q
  <2> QED
    BY <2>2, <2>3
<1>5. Opened(q)
  <2> SUFFICES ASSUME NEW j \in DOMAIN q, NEW k \in Kinds, OfKind(q[j], k)
               PROVE  \E i \in 1..(j - 1) : Opens(q[i], k)
    BY DEF Opened
  <2> HIDE DEF q
  <2>1. j # 1
    BY <1>4
  <2>2. j - 1 \in DOMAIN p /\ q[j] = p[j - 1]
    BY <1>4, <2>1
  <2>3. PICK i \in 1..(j - 2) : Opens(p[i], k)
    BY <1>4, <2>2 DEF Opened
  <2>4. i \in DOMAIN p /\ i + 1 \in 1..(j - 1)
    BY <1>4, <2>2, <2>3
  <2>5. q[i + 1] = p[i]
    BY <1>4, <2>4
  <2> QED
    BY <2>3, <2>4, <2>5
<1>6. \A k : HasOpened(p, k) => HasOpened(q, k)
  BY <1>2, OpenedOn
<1> QED
  BY <1>3, <1>5, <1>6

(* A vehicle and its row of the month, after the month was opened. *)
AndItsRow(s, k, v, m) == s \o <<lockVehicle(v), lockBudgetRow(k, v, m)>>

LEMMA VehicleThenRow ==
  ASSUME NEW k \in Kinds, NEW v \in Fleet, NEW m \in Periods,
         NEW s, NEW a, Climbs(s, a, 2 + m), a <= 3, Opened(s), HasOpened(s, k)
  PROVE  /\ Climbs(AndItsRow(s, k, v, m), a, 3 + LastPeriod + FleetSize + m + v)
         /\ Opened(AndItsRow(s, k, v, m)) /\ HasOpened(AndItsRow(s, k, v, m), k)
         /\ \E h \in DOMAIN AndItsRow(s, k, v, m) : AndItsRow(s, k, v, m)[h] = lockVehicle(v)
<1> DEFINE x == lockVehicle(v)
           y == lockBudgetRow(k, v, m)
           t == <<x, y>>
           q == s \o t
<1>1. x \in Locks /\ y \in Locks
  BY LockTypes
<1>2. Rank(x) = 3 + LastPeriod + v /\ Rank(y) = 3 + LastPeriod + FleetSize + m + v
  BY LockRanks
<1>3. \A c \in Kinds : ~OfKind(x, c)
  BY LockKinds
<1>4. \A c \in Kinds : OfKind(y, c) => c = k
  BY LockKinds
<1>5. m \in Nat /\ v \in Nat /\ FleetSize \in Nat /\ LastPeriod \in Nat
      /\ 1 <= v /\ 1 <= m /\ m <= LastPeriod /\ v <= FleetSize
  BY PeriodRange
<1> HIDE DEF x, y
<1>6. t \in Seq(Locks) /\ DOMAIN t = 1..2 /\ t[1] = x /\ t[2] = y
  BY <1>1
<1>7. Climbs(t, 3 + LastPeriod + v, 3 + LastPeriod + FleetSize + m + v)
  BY <1>2, <1>5, <1>6 DEF Climbs
<1>8. s \in Seq(Locks) /\ a \in Int
  BY DEF Climbs
<1> HIDE DEF t
<1>9. Climbs(q, a, 3 + LastPeriod + FleetSize + m + v)
  BY <1>5, <1>7, <1>8, ClimbOn
<1>10. Opened(q) /\ HasOpened(q, k)
  <2>1. \A j \in DOMAIN t : \A c \in Kinds : OfKind(t[j], c) => HasOpened(s, c)
    BY <1>3, <1>4, <1>6
  <2> QED
    BY <1>6, <1>8, <2>1, OpenOn, OpenedOn
<1>11. \E h \in DOMAIN q : q[h] = x
  <2>1. Len(t) = 2
    BY <1>6, LenProperties
  <2>2. /\ Len(s) \in Nat /\ DOMAIN q = 1..(Len(s) + 2)
        /\ q[Len(s) + 1] = t[1]
    BY <1>6, <1>8, <2>1, Joined, SMTT(30)
  <2>3. Len(s) + 1 \in DOMAIN q
    BY <2>2
  <2> QED
    BY <1>6, <2>2, <2>3
<1>12. q = AndItsRow(s, k, v, m)
  BY DEF AndItsRow, t, x, y
<1> HIDE DEF q
<1> QED
  BY <1>9, <1>10, <1>11, <1>12 DEF x

(* Review of a load: the load, then as a capture does. *)
LEMMA ReviewIsOrderly ==
  ASSUME NEW v \in Fleet, NEW m \in Periods
  PROVE  Orderly(reviewFuelLoad(v, m))
<1> DEFINE p == lockOpenBudgetPeriod("FUEL", m) \o <<lockVehicle(v)>>
           q == p \o <<lockBudgetRow("FUEL", v, m)>>
           b == 3 + LastPeriod + FleetSize + m + v
<1>1. Climbs(q, 1, b) /\ Opened(q)
  BY ChargeClimbs, PeriodRange
<1>2. reviewFuelLoad(v, m) = <<lockFuelLoadState(v, m)>> \o q
  BY DEF reviewFuelLoad, createFuelLoad, checkAndReserveFuelBudget
<1>3. lockFuelLoadState(v, m) \in Locks /\ Rank(lockFuelLoadState(v, m)) = 0
  BY LockTypes, LockRanks, PeriodRange
<1>4. \A k \in Kinds : ~OfKind(lockFuelLoadState(v, m), k)
  BY LockKinds
<1>5. 0 <= b /\ b <= Highest
  BY PeriodRange DEF Highest
<1> HIDE DEF q, b
<1>6. Climbs(<<lockFuelLoadState(v, m)>> \o q, 0, b) /\ Opened(<<lockFuelLoadState(v, m)>> \o q)
  BY <1>1, <1>3, <1>4, <1>5, AfterRecord
<1> QED
  BY <1>2, <1>5, <1>6, ClimbingIsOrderly

(* Approval of a ticket: the ticket, the month, the vehicle and its row. *)
LEMMA ApprovalIsOrderly ==
  ASSUME NEW v \in Fleet
  PROVE  Orderly(approveTicket(v))
<1> DEFINE k == "MAINTENANCE"
           o == lockOpenBudgetPeriod(k, LastPeriod)
           p == <<lockTicket(v)>> \o o
           q == p \o <<lockVehicle(v), lockBudgetRow(k, v, LastPeriod)>>
           b == 3 + LastPeriod + FleetSize + LastPeriod + v
<1>1. LastPeriod \in Periods /\ k \in Kinds
  BY PeriodRange DEF Periods
<1>2. lockTicket(v) \in Locks /\ Rank(lockTicket(v)) = 0
  BY <1>1, LockTypes, LockRanks
<1>3. \A c \in Kinds : ~OfKind(lockTicket(v), c)
  BY <1>1, LockKinds
<1>4. Climbs(o, 1, 2 + LastPeriod) /\ Opened(o) /\ HasOpened(o, k)
  BY <1>1, OpenPeriod
<1>5. 0 <= 2 + LastPeriod /\ b <= Highest
  BY PeriodRange DEF Highest
<1>6. approveTicket(v) = q
  BY DEF approveTicket
<1> HIDE DEF o, k
<1>7. Climbs(p, 0, 2 + LastPeriod) /\ Opened(p) /\ HasOpened(p, k)
  BY <1>2, <1>3, <1>4, <1>5, AfterRecord
<1> HIDE DEF p
<1>8. Climbs(q, 0, b) /\ Opened(q)
  <2>1. q = AndItsRow(p, k, v, LastPeriod)
    BY DEF AndItsRow
  <2> HIDE DEF q
  <2> QED
    BY <1>1, <1>7, <2>1, VehicleThenRow
<1> QED
  BY <1>5, <1>6, <1>8, ClimbingIsOrderly

(* What takes one vehicle. *)
LEMMA SingleIsOrderly ==
  ASSUME NEW v \in Fleet
  PROVE  Orderly(changeVehicle(v))
<1>1. "FUEL" \in Kinds /\ 1 \in Periods
  BY PeriodRange DEF Periods
<1>2. lockVehicle(v) \in Locks /\ Rank(lockVehicle(v)) = 3 + LastPeriod + v
  BY <1>1, LockTypes, LockRanks
<1>3. \A k \in Kinds : ~OfKind(lockVehicle(v), k)
  BY <1>1, LockKinds
<1>4. 0 <= 3 + LastPeriod + v /\ 3 + LastPeriod + v <= Highest /\ 3 + LastPeriod + v \in Int
  BY PeriodRange DEF Highest
<1>5. Climbs(<<lockVehicle(v)>>, 3 + LastPeriod + v, 3 + LastPeriod + v) /\ Opened(<<lockVehicle(v)>>)
  BY <1>2, <1>3, <1>4, OneLock
<1> QED
  BY <1>4, <1>5, ClimbingIsOrderly DEF changeVehicle

(* A new ticket: its vehicle, then the folio. *)
LEMMA NewTicketIsOrderly ==
  ASSUME NEW v \in Fleet
  PROVE  Orderly(createTicket(v))
<1> DEFINE x == Lock(<<"vehicle", v>>, "K")
           y == Lock(<<"folio">>, "U")
           p == <<x, y>>
<1>1. "FUEL" \in Kinds /\ 1 \in Periods
  BY PeriodRange DEF Periods
<1>2. x \in Locks /\ y \in Locks
  BY <1>1, LockTypes
<1>3. Rank(x) = 3 + LastPeriod + v /\ Rank(y) = Highest
  BY <1>1, LockRanks DEF Highest
<1>4. \A k \in Kinds : ~OfKind(x, k) /\ ~OfKind(y, k)
  BY <1>1, LockKinds
<1> HIDE DEF x, y
<1>5. p \in Seq(Locks) /\ DOMAIN p = 1..2 /\ p[1] = x /\ p[2] = y
  BY <1>2
<1>6. Highest \in Nat /\ 3 + LastPeriod + v \in Nat /\ 3 + LastPeriod + v < Highest
  BY PeriodRange DEF Highest
<1> HIDE DEF p
<1>7. Climbs(p, 0, Highest)
  BY <1>3, <1>5, <1>6 DEF Climbs
<1>8. Opened(p)
  BY <1>4, <1>5 DEF Opened
<1>9. Orderly(p)
  BY <1>6, <1>7, <1>8, ClimbingIsOrderly
<1> QED
  BY <1>9 DEF p, x, y, createTicket

(* Correction of a service: the record, the months in their order, the vehicle. *)
LEMMA CorrectionIsOrderly ==
  ASSUME NEW v \in Fleet, NEW ms \in Ascending(LastPeriod)
  PROVE  Orderly(updateMaintenanceRecord(v, ms))
<1> DEFINE k == "MAINTENANCE"
           x == lockMaintenanceRecord(v)
           y == lockBudgetTimelineShared(k)
           o == <<x, y>>
           s == EachOf(ms, LAMBDA m : lockBudgetPeriod(k, m))
           t == <<lockVehicle(v)>>
<1>1. k \in Kinds /\ 1 \in Periods /\ LastPeriod \in Nat /\ v \in Nat /\ v <= FleetSize /\ 1 <= v
  BY PeriodRange DEF Periods
<1>2. x \in Locks /\ y \in Locks /\ lockVehicle(v) \in Locks
  BY <1>1, LockTypes
<1>3. Rank(x) = 0 /\ Rank(y) = 2 /\ Rank(lockVehicle(v)) = 3 + LastPeriod + v
  BY <1>1, LockRanks
<1>4. \A c \in Kinds : ~OfKind(x, c) /\ ~OfKind(y, c) /\ ~OfKind(lockVehicle(v), c)
  BY <1>1, LockKinds
<1>5. Opens(y, k)
  BY DEF Opens
<1>6. Climbs(s, 3, 2 + LastPeriod) /\ \A j \in DOMAIN s, c \in Kinds : OfKind(s[j], c) => c = k
  BY <1>1, PeriodsClimb
<1>7. updateMaintenanceRecord(v, ms) = (o \o s) \o t
  BY DEF updateMaintenanceRecord
<1> HIDE DEF x, y, s, k
<1>8. o \in Seq(Locks) /\ DOMAIN o = 1..2 /\ o[1] = x /\ o[2] = y
  BY <1>2
<1> HIDE DEF o
<1>9. Climbs(o, 0, 2) /\ Opened(o) /\ HasOpened(o, k)
  BY <1>3, <1>4, <1>5, <1>8 DEF Climbs, Opened, HasOpened
<1>10. Climbs(o \o s, 0, 2 + LastPeriod)
  BY <1>1, <1>6, <1>9, ClimbOn
<1>11. s \in Seq(Locks)
  BY <1>6 DEF Climbs
<1>12. Opened(o \o s)
  BY <1>6, <1>8, <1>9, <1>11, OpenOn
<1>13. Climbs(t, 3 + LastPeriod + v, 3 + LastPeriod + v)
  BY <1>1, <1>2, <1>3, OneLock
<1>14. Climbs((o \o s) \o t, 0, 3 + LastPeriod + v)
  BY <1>1, <1>10, <1>13, ClimbOn
<1>15. Opened((o \o s) \o t)
  <2>1. o \o s \in Seq(Locks) /\ t \in Seq(Locks)
    BY <1>10, <1>13 DEF Climbs
  <2>2. DOMAIN t = {1} /\ t[1] = lockVehicle(v)
    OBVIOUS
  <2> QED
    BY <1>4, <1>12, <2>1, <2>2, OpenOn
<1>16. 3 + LastPeriod + v <= Highest
  BY PeriodRange DEF Highest
<1> QED
  BY <1>7, <1>14, <1>15, <1>16, ClimbingIsOrderly

(* Distribution: the month, its pool, the vehicles by id, their rows. *)
LEMMA DistributionIsOrderly ==
  ASSUME NEW k \in Kinds, NEW m \in Periods, NEW vs \in Ascending(FleetSize)
  PROVE  Orderly(distributeBudget(k, m, vs))
<1> DEFINE o == lockOpenBudgetPeriod(k, m)
           x == lockMonthlyPool(k, m)
           f == EachOf(vs, lockVehicle)
           s == EachOf(vs, LAMBDA v : lockBudgetRow(k, v, m))
           p == o \o <<x>>
           q == p \o f
           r == q \o s
<1>1. Climbs(o, 1, 2 + m) /\ Opened(o) /\ HasOpened(o, k)
  BY OpenPeriod
<1>2. 1 \in Fleet /\ LastPeriod \in Nat /\ FleetSize \in Nat /\ m \in Nat /\ m <= LastPeriod
  BY PeriodRange DEF Fleet
<1>3. x \in Locks /\ Rank(x) = 3 + LastPeriod
  BY <1>2, LockTypes, LockRanks
<1>4. \A c \in Kinds : OfKind(x, c) => c = k
  BY <1>2, LockKinds
<1>5. /\ Climbs(f, 4 + LastPeriod, 3 + LastPeriod + FleetSize)
      /\ \A j \in DOMAIN f, c \in Kinds : ~OfKind(f[j], c)
  BY VehiclesClimb
<1>6. /\ Climbs(s, 4 + LastPeriod + FleetSize, 3 + LastPeriod + LastPeriod + FleetSize + FleetSize)
      /\ \A j \in DOMAIN s : \E v \in Fleet : s[j] = lockBudgetRow(k, v, m)
  BY RowsClimb
<1>7. \A j \in DOMAIN s, c \in Kinds : OfKind(s[j], c) => c = k
  <2> SUFFICES ASSUME NEW j \in DOMAIN s, NEW c \in Kinds, OfKind(s[j], c)
               PROVE  c = k
    OBVIOUS
  <2>1. PICK v \in Fleet : s[j] = lockBudgetRow(k, v, m)
    BY <1>6
  <2>2. OfKind(lockBudgetRow(k, v, m), c)
    BY <2>1
  <2> HIDE DEF s
  <2> QED
    BY <2>2, LockKinds
<1>8. distributeBudget(k, m, vs) = r
  BY DEF distributeBudget
<1> HIDE DEF o, x, f, s
<1>9. Climbs(<<x>>, 3 + LastPeriod, 3 + LastPeriod)
  BY <1>2, <1>3, OneLock
<1>10. Climbs(p, 1, 3 + LastPeriod)
  BY <1>1, <1>2, <1>9, ClimbOn
<1>11. /\ o \in Seq(Locks) /\ <<x>> \in Seq(Locks) /\ f \in Seq(Locks) /\ s \in Seq(Locks)
       /\ p \in Seq(Locks)
  BY <1>1, <1>5, <1>6, <1>9, <1>10 DEF Climbs
<1>12. Opened(p) /\ HasOpened(p, k)
  <2>1. DOMAIN <<x>> = {1} /\ <<x>>[1] = x
    OBVIOUS
  <2> QED
    BY <1>1, <1>4, <1>11, <2>1, OpenOn, OpenedOn
<1> HIDE DEF p
<1>13. Climbs(q, 1, 3 + LastPeriod + FleetSize)
  BY <1>2, <1>5, <1>10, ClimbOn
<1>14. Opened(q) /\ HasOpened(q, k)
  BY <1>5, <1>11, <1>12, OpenOn, OpenedOn
<1>15. q \in Seq(Locks)
  BY <1>13 DEF Climbs
<1> HIDE DEF q
<1>16. Climbs(r, 1, 3 + LastPeriod + LastPeriod + FleetSize + FleetSize)
  BY <1>2, <1>6, <1>13, ClimbOn
<1>17. Opened(r)
  BY <1>7, <1>11, <1>14, <1>15, OpenOn
<1>18. 3 + LastPeriod + LastPeriod + FleetSize + FleetSize <= Highest
  BY <1>2 DEF Highest
<1> QED
  BY <1>8, <1>16, <1>17, <1>18, ClimbingIsOrderly

(* Removal of a vehicle: both timelines for itself, the vehicle, its rows. *)
LEMMA DeactivationIsOrderly ==
  ASSUME NEW v \in Fleet
  PROVE  Orderly(deactivateVehicle(v))
<1> DEFINE x == lockBudgetTimelineExclusive("FUEL")
           y == lockBudgetTimelineExclusive("MAINTENANCE")
           z == lockVehicle(v)
           o == <<x, y, z>>
           s == [m \in Periods |-> lockBudgetRow("FUEL", v, m)]
           a == 4 + LastPeriod + FleetSize + v
           b == 3 + LastPeriod + LastPeriod + FleetSize + v
<1>1. /\ "FUEL" \in Kinds /\ "MAINTENANCE" \in Kinds /\ 1 \in Periods /\ Periods = 1..LastPeriod
      /\ LastPeriod \in Nat /\ FleetSize \in Nat /\ v \in Nat /\ 1 <= v /\ v <= FleetSize
  BY PeriodRange DEF Periods
<1>2. x \in Locks /\ y \in Locks /\ z \in Locks
  BY <1>1, LockTypes
<1>3. Rank(x) = 1 /\ Rank(y) = 2 /\ Rank(z) = 3 + LastPeriod + v
  BY <1>1, LockRanks
<1>4. \A c \in Kinds : ~OfKind(x, c) /\ ~OfKind(y, c) /\ ~OfKind(z, c)
  BY <1>1, LockKinds
<1>5. Opens(x, "FUEL")
  BY DEF Opens
<1>6. ASSUME NEW m \in Periods
      PROVE  /\ s[m] \in Locks /\ Rank(s[m]) = 3 + LastPeriod + FleetSize + m + v
             /\ \A c \in Kinds : OfKind(s[m], c) => c = "FUEL"
  <2>1. s[m] = lockBudgetRow("FUEL", v, m)
    OBVIOUS
  <2> HIDE DEF s
  <2>2. s[m] \in Locks /\ Rank(s[m]) = 3 + LastPeriod + FleetSize + m + v
    <3>1. lockBudgetRow("FUEL", v, m) \in Locks
      BY <1>1, <1>6, LockTypes
    <3>2. Rank(lockBudgetRow("FUEL", v, m)) = 3 + LastPeriod + FleetSize + m + v
      BY <1>1, <1>6, LockRanks
    <3> QED
      BY <2>1, <3>1, <3>2
  <2>3. ASSUME NEW c \in Kinds
        PROVE  OfKind(s[m], c) => c = "FUEL"
    <3>1. OfKind(lockBudgetRow("FUEL", v, m), c) => c = "FUEL"
      BY ONLY <1>1, <1>6, <2>3, LockKinds, v \in Fleet
    <3> QED
      BY <2>1, <3>1
  <2> QED
    BY <2>2, <2>3
<1>7. s \in Seq(Locks) /\ DOMAIN s = 1..LastPeriod
  BY <1>1, <1>6
<1>8. deactivateVehicle(v) = o \o s
  BY DEF deactivateVehicle
<1> HIDE DEF x, y, z, s
<1>9. o \in Seq(Locks) /\ DOMAIN o = 1..3 /\ o[1] = x /\ o[2] = y /\ o[3] = z
  BY <1>2
<1> HIDE DEF o
<1>10. Climbs(o, 1, 3 + LastPeriod + v)
  BY <1>1, <1>3, <1>9 DEF Climbs
<1>11. Opened(o) /\ HasOpened(o, "FUEL")
  BY <1>4, <1>5, <1>9 DEF Opened, HasOpened
<1>12. Climbs(s, a, b)
  BY <1>1, <1>6, <1>7 DEF Climbs
<1>13. Climbs(o \o s, 1, b)
  BY <1>1, <1>10, <1>12, ClimbOn
<1>14. Opened(o \o s)
  <2>1. \A j \in DOMAIN s : \A c \in Kinds : OfKind(s[j], c) => HasOpened(o, c)
    BY <1>1, <1>6, <1>7, <1>11
  <2> QED
    BY <1>7, <1>9, <1>11, <2>1, OpenOn
<1>15. b <= Highest
  BY <1>1 DEF Highest
<1> QED
  BY <1>8, <1>13, <1>14, <1>15, ClimbingIsOrderly

(* Places of Alternately: odd ones for the one, even ones for the other. *)
LEMMA AlternatelyIs ==
  ASSUME NEW n \in Nat, NEW i \in 1..(2 * n)
  PROVE  \/ i % 2 = 1 /\ (i + 1) \div 2 \in 1..n /\ i = 2 * ((i + 1) \div 2) - 1
         \/ i % 2 # 1 /\ i \div 2 \in 1..n /\ i = 2 * (i \div 2)
  OBVIOUS

(* The chain of a late release: months and rows in turn. *)
LEMMA LinksAre ==
  ASSUME NEW v \in Fleet, NEW m \in Periods
  PROVE  /\ NextLinks(v, m) \in Seq(Locks)
         /\ \A i \in DOMAIN NextLinks(v, m) : \E n \in Periods :
              /\ n > m
              /\ \/ /\ NextLinks(v, m)[i] = lockBudgetPeriod("FUEL", n)
                    /\ i = 2 * (n - m) - 1
                 \/ /\ NextLinks(v, m)[i] = lockBudgetRow("FUEL", v, n)
                    /\ i = 2 * (n - m)
<1> DEFINE s == [i \in 1..(2 * (LastPeriod - m)) |->
                   IF i % 2 = 1 THEN lockBudgetPeriod("FUEL", m + ((i + 1) \div 2))
                                ELSE lockBudgetRow("FUEL", v, m + (i \div 2))]
<1>1. s = NextLinks(v, m)
  BY DEF NextLinks, Alternately
<1>2. LastPeriod - m \in Nat /\ m \in Nat /\ Periods = 1..LastPeriod /\ LastPeriod \in Nat
  BY PeriodRange DEF Periods
<1>3. ASSUME NEW i \in 1..(2 * (LastPeriod - m))
      PROVE  \E n \in Periods :
               /\ n > m
               /\ \/ s[i] = lockBudgetPeriod("FUEL", n) /\ i = 2 * (n - m) - 1
                  \/ s[i] = lockBudgetRow("FUEL", v, n) /\ i = 2 * (n - m)
  <2>1. CASE i % 2 = 1 /\ (i + 1) \div 2 \in 1..(LastPeriod - m) /\ i = 2 * ((i + 1) \div 2) - 1
    <3> DEFINE h == (i + 1) \div 2
    <3>1. s[i] = lockBudgetPeriod("FUEL", m + h)
      BY <2>1
    <3>2. h \in 1..(LastPeriod - m) /\ i = 2 * h - 1
      BY <2>1
    <3> HIDE DEF h, s
    <3>3. m + h \in Periods /\ m + h > m /\ i = 2 * ((m + h) - m) - 1
      BY <1>2, <3>2
    <3> QED
      BY <3>1, <3>3
  <2>2. CASE i % 2 # 1 /\ i \div 2 \in 1..(LastPeriod - m) /\ i = 2 * (i \div 2)
    <3> DEFINE h == i \div 2
    <3>1. s[i] = lockBudgetRow("FUEL", v, m + h)
      BY <2>2
    <3>2. h \in 1..(LastPeriod - m) /\ i = 2 * h
      BY <2>2
    <3> HIDE DEF h, s
    <3>3. m + h \in Periods /\ m + h > m /\ i = 2 * ((m + h) - m)
      BY <1>2, <3>2
    <3> QED
      BY <3>1, <3>3
  <2> QED
    BY <1>2, <2>1, <2>2, AlternatelyIs
<1>4. DOMAIN s = 1..(2 * (LastPeriod - m)) /\ 2 * (LastPeriod - m) \in Nat
  BY <1>2
<1>5. ASSUME NEW i \in DOMAIN s
      PROVE  s[i] \in Locks
  <2> HIDE DEF s
  <2>1. PICK n \in Periods : s[i] = lockBudgetPeriod("FUEL", n) \/ s[i] = lockBudgetRow("FUEL", v, n)
    BY <1>3, <1>4
  <2>2. lockBudgetPeriod("FUEL", n) \in Locks /\ lockBudgetRow("FUEL", v, n) \in Locks
    BY LockTypes, PeriodRange
  <2> QED
    BY <2>1, <2>2
<1>6. s \in Seq(Locks)
  BY <1>4, <1>5
<1> HIDE DEF s
<1> QED
  BY <1>1, <1>3, <1>4, <1>6

(* Release of a load: orderly but for the months it goes on to. *)
LEMMA ReleaseIsOrderly ==
  ASSUME NEW v \in Fleet, NEW m \in Periods
  PROVE  Orderly(reconcileLegacyFuelLoad(v, m))
<1> DEFINE k == "FUEL"
           l == lockFuelLoadState(v, m)
           o == lockOpenBudgetPeriod(k, m)
           d == <<lockVehicle(v), lockBudgetRow(k, v, m)>>
           p == <<l>> \o o
           q == p \o d
           t == NextLinks(v, m)
           r == q \o t
           b == 3 + LastPeriod + FleetSize + m + v
<1>1. /\ k \in Kinds /\ LastPeriod \in Nat /\ FleetSize \in Nat /\ v \in Nat /\ m \in Nat
      /\ 1 <= v /\ v <= FleetSize /\ m <= LastPeriod
  BY PeriodRange
<1>2. Climbs(o, 1, 2 + m) /\ Opened(o) /\ HasOpened(o, k)
  BY <1>1, OpenPeriod
<1>3. l \in Locks /\ Rank(l) = 0
  BY <1>1, LockTypes, LockRanks
<1>4. \A c \in Kinds : ~OfKind(l, c)
  BY <1>1, LockKinds
<1>5. d \in Seq(Locks)
  <2>1. lockVehicle(v) \in Locks /\ lockBudgetRow(k, v, m) \in Locks
    BY <1>1, LockTypes
  <2> QED
    BY <2>1
<1>6. /\ t \in Seq(Locks)
      /\ \A i \in DOMAIN t : \E n \in Periods :
           /\ n > m
           /\ \/ t[i] = lockBudgetPeriod("FUEL", n) /\ i = 2 * (n - m) - 1
              \/ t[i] = lockBudgetRow("FUEL", v, n) /\ i = 2 * (n - m)
  BY LinksAre
<1>7. reconcileLegacyFuelLoad(v, m) = <<l>> \o ((o \o d) \o t)
  BY DEF reconcileLegacyFuelLoad, releaseFuelBudget
<1> HIDE DEF l, o, t, k
<1>8. Climbs(p, 0, 2 + m) /\ Opened(p) /\ HasOpened(p, k)
  BY <1>1, <1>2, <1>3, <1>4, AfterRecord
<1>9. /\ o \in Seq(Locks) /\ <<l>> \in Seq(Locks) /\ p \in Seq(Locks)
  BY <1>2, <1>3, <1>8 DEF Climbs
<1>10. reconcileLegacyFuelLoad(v, m) = r
  <2>1. o \o d \in Seq(Locks)
    BY <1>5, <1>9, ConcatProperties
  <2>2. <<l>> \o ((o \o d) \o t) = (<<l>> \o (o \o d)) \o t
    BY <1>6, <1>9, <2>1, ConcatAssociative, SMTT(30)
  <2>3. <<l>> \o (o \o d) = (<<l>> \o o) \o d
    BY <1>5, <1>9, ConcatAssociative
  <2> QED
    BY <1>7, <2>2, <2>3
<1> HIDE DEF p
<1>11. /\ Climbs(q, 0, b) /\ Opened(q) /\ HasOpened(q, k)
       /\ \E h \in DOMAIN q : q[h] = lockVehicle(v)
  <2>1. q = AndItsRow(p, k, v, m)
    BY DEF AndItsRow
  <2> HIDE DEF q, d
  <2> QED
    BY <1>1, <1>8, <2>1, VehicleThenRow
<1>12. q \in Seq(Locks)
  BY <1>11 DEF Climbs
<1> HIDE DEF q, d
<1>13. /\ Len(q) \in Nat /\ r \in Seq(Locks) /\ DOMAIN q = 1..Len(q)
       /\ DOMAIN r = 1..(Len(q) + Len(t)) /\ Len(t) \in Nat
       /\ \A i \in DOMAIN q : r[i] = q[i]
       /\ \A i \in DOMAIN r :
            \/ i \in DOMAIN q /\ r[i] = q[i]
            \/ i - Len(q) \in DOMAIN t /\ i > Len(q) /\ r[i] = t[i - Len(q)]
  BY <1>6, <1>12, Joined
<1> HIDE DEF r
<1>14. ASSUME NEW i \in DOMAIN r
       PROVE  \/ i \in DOMAIN q /\ Rank(r[i]) \in Int /\ 0 <= Rank(r[i]) /\ Rank(r[i]) <= b
              \/ \E n \in Periods :
                   /\ n > m /\ i > Len(q)
                   /\ \/ /\ r[i] = lockBudgetPeriod("FUEL", n) /\ i - Len(q) = 2 * (n - m) - 1
                         /\ Rank(r[i]) = 2 + n
                      \/ /\ r[i] = lockBudgetRow("FUEL", v, n) /\ i - Len(q) = 2 * (n - m)
                         /\ Rank(r[i]) = 3 + LastPeriod + FleetSize + n + v
  <2>1. CASE i \in DOMAIN q /\ r[i] = q[i]
    BY <1>11, <2>1 DEF Climbs
  <2>2. CASE i - Len(q) \in DOMAIN t /\ i > Len(q) /\ r[i] = t[i - Len(q)]
    <3>1. PICK n \in Periods :
            /\ n > m
            /\ \/ t[i - Len(q)] = lockBudgetPeriod("FUEL", n) /\ i - Len(q) = 2 * (n - m) - 1
               \/ t[i - Len(q)] = lockBudgetRow("FUEL", v, n) /\ i - Len(q) = 2 * (n - m)
      BY <1>6, <2>2
    <3>2. /\ Rank(lockBudgetPeriod("FUEL", n)) = 2 + n
          /\ Rank(lockBudgetRow("FUEL", v, n)) = 3 + LastPeriod + FleetSize + n + v
      BY <1>1, LockRanks DEF k
    <3> QED
      BY <2>2, <3>1, <3>2
  <2> QED
    BY <1>13, <2>1, <2>2
<1>15. ASSUME NEW i \in DOMAIN r, NEW j \in DOMAIN r, i < j
       PROVE  Rank(r[i]) < Rank(r[j]) \/ LateAt(r, j)
  <2>1. CASE j \in DOMAIN q
    <3>1. i \in DOMAIN q /\ r[i] = q[i] /\ r[j] = q[j]
      BY <1>13, <1>15, <2>1
    <3> QED
      BY <1>11, <1>15, <2>1, <3>1 DEF Climbs
  <2>2. ASSUME NEW n \in Periods, r[j] = lockBudgetPeriod("FUEL", n), j > Len(q)
        PROVE  LateAt(r, j)
    <3>1. PICK h \in DOMAIN q : q[h] = lockVehicle(v)
      BY <1>11
    <3>2. h \in 1..(j - 1) /\ r[h] = lockVehicle(v)
      BY <1>13, <2>2, <3>1
    <3> QED
      BY <2>2, <3>2 DEF LateAt
  <2>3. ASSUME NEW n \in Periods, n > m, j - Len(q) = 2 * (n - m),
               Rank(r[j]) = 3 + LastPeriod + FleetSize + n + v
        PROVE  Rank(r[i]) < Rank(r[j])
    <3>1. n \in Nat /\ n <= LastPeriod
      BY PeriodRange
    <3>2. CASE Rank(r[i]) \in Int /\ Rank(r[i]) <= b
      BY <1>1, <2>3, <3>1, <3>2
    <3>3. ASSUME NEW c \in Periods, Rank(r[i]) = 2 + c
          PROVE  Rank(r[i]) < Rank(r[j])
      BY <1>1, <2>3, <3>1, <3>3, PeriodRange
    <3>4. ASSUME NEW c \in Periods, i - Len(q) = 2 * (c - m),
                 Rank(r[i]) = 3 + LastPeriod + FleetSize + c + v
          PROVE  Rank(r[i]) < Rank(r[j])
      <4>1. c \in Nat /\ i \in Nat /\ j \in Nat
        BY <1>13, PeriodRange
      <4>2. i - Len(q) < j - Len(q)
        BY <1>13, <1>15, <4>1
      <4>3. c < n
        BY <1>1, <2>3, <3>1, <3>4, <4>1, <4>2
      <4> QED
        BY <1>1, <2>3, <3>1, <3>4, <4>1, <4>3
    <3> QED
      BY <1>14, <3>2, <3>3, <3>4
  <2> QED
    BY <1>14, <2>1, <2>2, <2>3
<1>16. Opened(r)
  <2>1. ASSUME NEW j \in DOMAIN t, NEW c \in Kinds, OfKind(t[j], c)
        PROVE  HasOpened(q, c)
    <3>1. PICK n \in Periods : t[j] = lockBudgetPeriod("FUEL", n) \/ t[j] = lockBudgetRow("FUEL", v, n)
      BY <1>6
    <3>2. "FUEL" \in Kinds
      BY PeriodRange
    <3>3. OfKind(lockBudgetPeriod("FUEL", n), c) => c = "FUEL"
      BY <3>2, LockKinds
    <3>4. OfKind(lockBudgetRow("FUEL", v, n), c) => c = "FUEL"
      BY <3>2, LockKinds
    <3> QED
      BY <1>11, <2>1, <3>1, <3>3, <3>4 DEF k
  <2> QED
    BY <1>6, <1>11, <1>12, <2>1, OpenOn DEF r
<1>17. ASSUME NEW i \in DOMAIN r
       PROVE  Rank(r[i]) \in 0..Highest
  BY <1>1, <1>14, PeriodRange DEF Highest
<1> QED
  BY <1>10, <1>13, <1>15, <1>16, <1>17 DEF Orderly

(* The rows of the next month and the foreign keys that come with them. *)
LEMMA ClosingRows ==
  ASSUME NEW k \in Kinds, NEW n \in Periods
  PROVE  LET t == Alternately(FleetSize, LAMBDA v : lockBudgetRow(k, v, n),
                              LAMBDA v : Lock(<<"vehicle", v>>, "K"))
         IN  /\ t \in Seq(Locks)
             /\ \A i \in DOMAIN t : \E w \in Fleet :
                  \/ t[i] = lockBudgetRow(k, w, n) /\ i = 2 * w - 1
                  \/ t[i] = Lock(<<"vehicle", w>>, "K") /\ i = 2 * w
<1> DEFINE s == [i \in 1..(2 * FleetSize) |->
                   IF i % 2 = 1 THEN lockBudgetRow(k, (i + 1) \div 2, n)
                                ELSE Lock(<<"vehicle", i \div 2>>, "K")]
<1>1. s = Alternately(FleetSize, LAMBDA v : lockBudgetRow(k, v, n),
                      LAMBDA v : Lock(<<"vehicle", v>>, "K"))
  BY DEF Alternately
<1>2. FleetSize \in Nat /\ Fleet = 1..FleetSize
  BY PeriodRange DEF Fleet
<1>3. ASSUME NEW i \in 1..(2 * FleetSize)
      PROVE  \E w \in Fleet : \/ s[i] = lockBudgetRow(k, w, n) /\ i = 2 * w - 1
                              \/ s[i] = Lock(<<"vehicle", w>>, "K") /\ i = 2 * w
  <2>1. CASE i % 2 = 1 /\ (i + 1) \div 2 \in 1..FleetSize /\ i = 2 * ((i + 1) \div 2) - 1
    <3>1. s[i] = lockBudgetRow(k, (i + 1) \div 2, n)
      BY <2>1
    <3> HIDE DEF s
    <3> QED
      BY <1>2, <2>1, <3>1
  <2>2. CASE i % 2 # 1 /\ i \div 2 \in 1..FleetSize /\ i = 2 * (i \div 2)
    <3>1. s[i] = Lock(<<"vehicle", i \div 2>>, "K")
      BY <2>2
    <3> HIDE DEF s
    <3> QED
      BY <1>2, <2>2, <3>1
  <2> QED
    BY <1>2, <2>1, <2>2, AlternatelyIs
<1>4. DOMAIN s = 1..(2 * FleetSize) /\ 2 * FleetSize \in Nat
  BY <1>2
<1>5. ASSUME NEW i \in DOMAIN s
      PROVE  s[i] \in Locks
  <2> HIDE DEF s
  <2>1. PICK w \in Fleet : s[i] = lockBudgetRow(k, w, n) \/ s[i] = Lock(<<"vehicle", w>>, "K")
    BY <1>3, <1>4
  <2>2. lockBudgetRow(k, w, n) \in Locks
    BY LockTypes
  <2>3. Lock(<<"vehicle", w>>, "K") \in Locks
    BY LockTypes
  <2> QED
    BY <2>1, <2>2, <2>3
<1>6. s \in Seq(Locks)
  <2> DEFINE n2 == 2 * FleetSize
  <2>1. DOMAIN s = 1..n2 /\ n2 \in Nat /\ s = [i \in DOMAIN s |-> s[i]]
    BY <1>4
  <2> HIDE DEF s, n2
  <2> QED
    BY <1>5, <2>1
<1> HIDE DEF s
<1> QED
  BY <1>1, <1>3, <1>4, <1>6

(* Closing of a month: what is out of order in it is sheltered by the timeline. *)
LEMMA ClosingIsOrderly ==
  ASSUME NEW k \in Kinds, NEW m \in 1..(LastPeriod - 1)
  PROVE  Orderly(closeMonthAndRollover(k, m))
<1> DEFINE x == lockBudgetTimelineExclusive(k)
           o == <<x, lockBudgetPeriod(k, m), lockBudgetPeriod(k, m + 1)>>
           s == EachOf(WholeFleet, LAMBDA v : lockBudgetRow(k, v, m))
           t == Alternately(FleetSize, LAMBDA v : lockBudgetRow(k, v, m + 1),
                            LAMBDA v : Lock(<<"vehicle", v>>, "K"))
           q == o \o s
           r == q \o t
           c == 3 + FleetSize
<1>1. /\ m \in Periods /\ m + 1 \in Periods /\ 1 \in Fleet /\ m \in Nat /\ 1 <= m
      /\ FleetSize \in Nat /\ LastPeriod \in Nat /\ m + 1 <= LastPeriod
  BY PeriodRange DEF Periods, Fleet
<1>2. /\ x \in Locks /\ lockBudgetPeriod(k, m) \in Locks /\ lockBudgetPeriod(k, m + 1) \in Locks
  BY <1>1, LockTypes
<1>3. /\ Rank(x) \in {1, 2} /\ Rank(lockBudgetPeriod(k, m)) = 2 + m
      /\ Rank(lockBudgetPeriod(k, m + 1)) = 3 + m
  <2>1. Rank(x) = IF k = "FUEL" THEN 1 ELSE 2
    BY <1>1, LockRanks
  <2>2. Rank(lockBudgetPeriod(k, m)) = 2 + m /\ Rank(lockBudgetPeriod(k, m + 1)) = 2 + (m + 1)
    BY <1>1, LockRanks
  <2> HIDE DEF x
  <2> QED
    BY <1>1, <2>1, <2>2
<1>4. /\ OfKind(lockBudgetPeriod(k, m), k) /\ OfKind(lockBudgetPeriod(k, m + 1), k)
      /\ \A v \in Fleet : OfKind(lockBudgetRow(k, v, m), k) /\ OfKind(lockBudgetRow(k, v, m + 1), k)
  BY <1>1, LockKinds
<1>5. /\ s \in Seq(Locks) /\ DOMAIN s = 1..FleetSize
      /\ \A j \in DOMAIN s : \E v \in Fleet : s[j] = lockBudgetRow(k, v, m)
  <2>1. /\ Climbs(s, 4 + LastPeriod + FleetSize, 3 + LastPeriod + LastPeriod + FleetSize + FleetSize)
        /\ DOMAIN s = DOMAIN WholeFleet
        /\ \A j \in DOMAIN s : \E v \in Fleet : s[j] = lockBudgetRow(k, v, m)
    BY <1>1, FleetAscends, RowsClimb
  <2>2. DOMAIN WholeFleet = 1..FleetSize
    BY DEF WholeFleet, Fleet
  <2> QED
    BY <2>1, <2>2 DEF Climbs
<1>6. /\ t \in Seq(Locks)
      /\ \A i \in DOMAIN t : \E w \in Fleet :
           \/ t[i] = lockBudgetRow(k, w, m + 1) /\ i = 2 * w - 1
           \/ t[i] = Lock(<<"vehicle", w>>, "K") /\ i = 2 * w
  BY <1>1, ClosingRows
<1>7. closeMonthAndRollover(k, m) = r
  BY DEF closeMonthAndRollover
<1> HIDE DEF x, s, t
<1>8. /\ o \in Seq(Locks) /\ Len(o) = 3 /\ DOMAIN o = 1..3
      /\ o[1] = x /\ o[2] = lockBudgetPeriod(k, m) /\ o[3] = lockBudgetPeriod(k, m + 1)
  BY <1>2
<1> HIDE DEF o
<1>9. /\ q \in Seq(Locks) /\ Len(q) = c /\ DOMAIN q = 1..c
      /\ \A i \in DOMAIN o : q[i] = o[i]
      /\ \A i \in DOMAIN q : \/ i \in DOMAIN o /\ q[i] = o[i]
                             \/ i - 3 \in DOMAIN s /\ i > 3 /\ q[i] = s[i - 3]
  <2>1. Len(s) = FleetSize
    BY <1>1, <1>5, LenProperties
  <2>2. q \in Seq(Locks) /\ DOMAIN q = 1..(3 + FleetSize)
    <3>1. o \o s \in Seq(Locks) /\ DOMAIN (o \o s) = 1..(Len(o) + Len(s))
      BY <1>5, <1>8, Joined
    <3> QED
      BY <1>8, <2>1, <3>1
  <2>3. Len(q) = 3 + FleetSize
    BY <1>1, <2>2, LenProperties
  <2>4. \A i \in DOMAIN o : q[i] = o[i]
    BY <1>5, <1>8, Joined
  <2>5. \A i \in DOMAIN q : \/ i \in DOMAIN o /\ q[i] = o[i]
                            \/ i - Len(o) \in DOMAIN s /\ i > Len(o) /\ q[i] = s[i - Len(o)]
    BY <1>5, <1>8, Joined
  <2> HIDE DEF q
  <2> QED
    BY <1>8, <2>2, <2>3, <2>4, <2>5
<1> HIDE DEF q
<1>10. /\ r \in Seq(Locks) /\ Len(t) \in Nat /\ DOMAIN r = 1..(c + Len(t))
       /\ \A i \in DOMAIN q : r[i] = q[i]
       /\ \A i \in DOMAIN r : \/ i \in DOMAIN q /\ r[i] = q[i]
                              \/ i - c \in DOMAIN t /\ i > c /\ r[i] = t[i - c]
  <2>1. /\ r \in Seq(Locks) /\ Len(t) \in Nat /\ DOMAIN r = 1..(Len(q) + Len(t))
        /\ \A i \in DOMAIN q : r[i] = q[i]
    BY <1>6, <1>9, Joined
  <2>2. \A i \in DOMAIN r : \/ i \in DOMAIN q /\ r[i] = q[i]
                            \/ i - Len(q) \in DOMAIN t /\ i > Len(q) /\ r[i] = t[i - Len(q)]
    BY <1>6, <1>9, Joined
  <2> HIDE DEF r
  <2> QED
    BY <1>9, <2>1, <2>2
<1> HIDE DEF r
<1>11. r[1] = x /\ 1 \in DOMAIN r
  BY <1>1, <1>8, <1>9, <1>10
<1>12. ASSUME NEW i \in DOMAIN r, i # 1
       PROVE  \/ /\ OfKind(r[i], k) /\ Rank(r[i]) \in 3..Highest
                 /\ i > c => Rank(r[i]) > 3 + LastPeriod + FleetSize
              \/ \E w \in Fleet : /\ r[i] = Lock(<<"vehicle", w>>, "K") /\ i = c + 2 * w
                                  /\ Rank(r[i]) = 3 + LastPeriod + w
  <2>1. ASSUME NEW v \in Fleet, NEW n \in {m, m + 1}, r[i] = lockBudgetRow(k, v, n)
        PROVE  /\ OfKind(r[i], k) /\ Rank(r[i]) \in 3..Highest
               /\ Rank(r[i]) > 3 + LastPeriod + FleetSize
    <3>1. Rank(lockBudgetRow(k, v, n)) = 3 + LastPeriod + FleetSize + n + v
      <4>1. n \in Periods
        BY <1>1
      <4> QED
        BY <4>1, LockRanks
    <3>2. v \in Nat /\ 1 <= v /\ v <= FleetSize
      BY PeriodRange
    <3>3. OfKind(lockBudgetRow(k, v, n), k)
      BY <1>4, <2>1
    <3> QED
      BY <1>1, <2>1, <3>1, <3>2, <3>3 DEF Highest
  <2>2. CASE i \in DOMAIN q /\ r[i] = q[i]
    <3>1. ~(i > c) /\ i \in 1..c
      BY <1>1, <1>9, <2>2
    <3>2. CASE i \in DOMAIN o /\ q[i] = o[i]
      <4>1. r[i] = lockBudgetPeriod(k, m) \/ r[i] = lockBudgetPeriod(k, m + 1)
        BY <1>8, <1>12, <2>2, <3>2
      <4>2. OfKind(r[i], k)
        BY <1>4, <4>1
      <4>3. Rank(r[i]) \in 3..Highest
        BY <1>1, <1>3, <4>1 DEF Highest
      <4> QED
        BY <3>1, <4>2, <4>3
    <3>3. CASE i - 3 \in DOMAIN s /\ i > 3 /\ q[i] = s[i - 3]
      <4>1. PICK v \in Fleet : s[i - 3] = lockBudgetRow(k, v, m)
        BY <1>5, <3>3
      <4> QED
        BY <2>1, <2>2, <3>3, <4>1
    <3> QED
      BY <1>9, <2>2, <3>2, <3>3
  <2>3. CASE i - c \in DOMAIN t /\ i > c /\ r[i] = t[i - c]
    <3>1. PICK w \in Fleet : \/ t[i - c] = lockBudgetRow(k, w, m + 1)
                             \/ t[i - c] = Lock(<<"vehicle", w>>, "K") /\ i - c = 2 * w
      BY <1>6, <2>3
    <3>2. CASE t[i - c] = lockBudgetRow(k, w, m + 1)
      BY <2>1, <2>3, <3>2
    <3>3. CASE t[i - c] = Lock(<<"vehicle", w>>, "K") /\ i - c = 2 * w
      <4>1. Rank(Lock(<<"vehicle", w>>, "K")) = 3 + LastPeriod + w
        BY <1>1, LockRanks
      <4>2. i = c + 2 * w
        BY <1>1, <1>10, <3>3, PeriodRange
      <4> QED
        BY <2>3, <3>3, <4>1, <4>2
    <3> QED
      BY <3>1, <3>2, <3>3
  <2> QED
    BY <1>10, <2>2, <2>3
<1>13. ASSUME NEW i \in DOMAIN r
       PROVE  Rank(r[i]) \in 0..Highest /\ (i # 1 => Rank(r[i]) >= 3)
  <2>1. CASE i = 1
    BY <1>1, <1>3, <1>11, <2>1 DEF Highest
  <2>2. ASSUME NEW w \in Fleet, Rank(r[i]) = 3 + LastPeriod + w
        PROVE  Rank(r[i]) \in 0..Highest /\ Rank(r[i]) >= 3
    BY <1>1, <2>2, PeriodRange DEF Highest
  <2>3. CASE Rank(r[i]) \in 3..Highest
    BY <1>1, <2>3 DEF Highest
  <2> QED
    BY <1>12, <2>1, <2>2, <2>3
<1>14. ASSUME NEW i \in DOMAIN r, NEW j \in DOMAIN r, i < j
       PROVE  Rank(r[i]) < Rank(r[j]) \/ Sheltered(r, i)
  <2>1. CASE i = 1
    <3>1. j # 1 /\ Rank(r[j]) >= 3 /\ Rank(r[j]) \in Int
      BY <1>1, <1>13, <1>14, <2>1 DEF Highest
    <3> QED
      BY <1>3, <1>11, <2>1, <3>1
  <2>2. CASE i # 1 /\ OfKind(r[i], k)
    <3>1. 1 \in 1..(i - 1)
      BY <1>1, <1>10, <2>2
    <3> QED
      BY <1>11, <2>2, <3>1 DEF Sheltered, x
  <2>3. ASSUME NEW w \in Fleet, i = c + 2 * w, Rank(r[i]) = 3 + LastPeriod + w
        PROVE  Rank(r[i]) < Rank(r[j])
    <3>1. w \in Nat /\ w <= FleetSize /\ 1 <= w
      BY PeriodRange
    <3>2. i \in Nat /\ j \in Nat /\ j > c /\ j # 1
      <4>1. i \in Nat /\ j \in Nat
        BY <1>10
      <4>2. c \in Nat /\ c >= 3
        BY <1>1
      <4> HIDE DEF c
      <4> QED
        BY <1>14, <2>3, <3>1, <4>1, <4>2
    <3>3. CASE Rank(r[j]) > 3 + LastPeriod + FleetSize /\ Rank(r[j]) \in 3..Highest
      BY <1>1, <2>3, <3>1, <3>3 DEF Highest
    <3>4. ASSUME NEW u \in Fleet, j = c + 2 * u, Rank(r[j]) = 3 + LastPeriod + u
          PROVE  Rank(r[i]) < Rank(r[j])
      <4>1. u \in Nat
        BY PeriodRange
      <4>2. w < u
        BY <1>1, <1>14, <2>3, <3>1, <3>4, <4>1
      <4> QED
        BY <1>1, <2>3, <3>1, <3>4, <4>1, <4>2
    <3> QED
      BY <1>12, <3>2, <3>3, <3>4
  <2> QED
    BY <1>12, <2>1, <2>2, <2>3
<1>15. Opened(r)
  <2> SUFFICES ASSUME NEW j \in DOMAIN r, NEW a \in Kinds, OfKind(r[j], a)
               PROVE  \E i \in 1..(j - 1) : Opens(r[i], a)
    BY DEF Opened
  <2>1. ~OfKind(x, a)
    BY <1>1, LockKinds DEF x
  <2>2. j # 1
    BY <1>11, <2>1
  <2>3. ASSUME NEW w \in Fleet, r[j] = Lock(<<"vehicle", w>>, "K")
        PROVE  FALSE
    <3>1. ~OfKind(Lock(<<"vehicle", w>>, "K"), a)
      BY <1>1, LockKinds
    <3> QED
      BY <2>3, <3>1
  <2>4. OfKind(r[j], k)
    BY <1>12, <2>2, <2>3
  <2>5. a = k
    BY <2>4 DEF OfKind
  <2>6. 1 \in 1..(j - 1)
    BY <1>1, <1>10, <2>2
  <2> QED
    BY <1>11, <2>5, <2>6 DEF Opens, x
<1> QED
  BY <1>7, <1>10, <1>13, <1>14, <1>15 DEF Orderly

(* The daily check takes vehicles, in some order. *)
LEMMA DailyIsASequence ==
  ASSUME NEW p \in DailyPlans
  PROVE  p \in Seq(Locks)
<1>1. PICK order \in SetToSeqs(Fleet) : p = runDailyComplianceCheck(order)
  BY DEF DailyPlans
<1>2. order \in [1..Cardinality(Fleet) -> Fleet]
  BY DEF SetToSeqs
<1>3. Cardinality(Fleet) \in Nat
  <2>1. FleetSize \in Nat /\ Fleet = 1..FleetSize
    BY PeriodRange DEF Fleet
  <2>2. Cardinality(1..FleetSize) = IF 1 > FleetSize THEN 0 ELSE FleetSize - 1 + 1
    BY <2>1, FS_Interval
  <2> QED
    BY <2>1, <2>2
<1>4. ASSUME NEW v \in Fleet
      PROVE  Lock(<<"vehicle", v>>, "N") \in Locks
  <2>1. "FUEL" \in Kinds /\ 1 \in Periods
    BY PeriodRange DEF Periods
  <2>2. \A mode \in {"N", "K"} : Lock(<<"vehicle", v>>, mode) \in Locks
    BY <2>1, LockTypes
  <2> QED
    BY <2>2
<1>5. p = [i \in 1..Cardinality(Fleet) |-> Lock(<<"vehicle", order[i]>>, "N")]
  BY <1>1, <1>2 DEF runDailyComplianceCheck
<1> DEFINE n == Cardinality(Fleet)
<1>8. n \in Nat /\ p = [i \in 1..n |-> Lock(<<"vehicle", order[i]>>, "N")]
  BY <1>3, <1>5
<1> HIDE DEF n
<1>6. \A i \in 1..n : order[i] \in Fleet
  BY <1>2 DEF n
<1>7. \A i \in 1..n : Lock(<<"vehicle", order[i]>>, "N") \in Locks
  BY <1>4, <1>6
<1>9. p \in [1..n -> Locks]
  BY <1>7, <1>8
<1> QED
  BY <1>8, <1>9

(* Every plan is orderly, the daily check's excepted. *)
LEMMA PlansAreDisciplined ==
  ASSUME NEW p \in Plans
  PROVE  /\ p \in Seq(Locks)
         /\ p \notin DailyPlans => Orderly(p)
<1>1. CASE p \in DailyPlans
  BY <1>1, DailyIsASequence
<1>2. CASE p \in ReleasePlans
  <2>1. Orderly(p)
    BY <1>2, ReleaseIsOrderly DEF ReleasePlans
  <2> QED
    BY <2>1 DEF Orderly
<1>3. CASE p \in OtherPlans
  <2>1. ASSUME NEW v \in Fleet, NEW m \in Periods
        PROVE  Orderly(reviewFuelLoad(v, m))
    BY ReviewIsOrderly
  <2>2. ASSUME NEW g \in Targets, NEW m \in Periods
        PROVE  Orderly(distributeBudget(g[1], m, g[2]))
    <3>1. g[1] \in Kinds /\ g[2] \in Ascending(FleetSize)
      BY LockConstants
    <3> QED
      BY <3>1, DistributionIsOrderly
  <2>3. ASSUME NEW k \in Kinds, NEW m \in 1..(LastPeriod - 1)
        PROVE  Orderly(closeMonthAndRollover(k, m))
    BY ClosingIsOrderly
  <2>4. ASSUME NEW v \in Fleet
        PROVE  Orderly(deactivateVehicle(v)) /\ Orderly(approveTicket(v))
    BY DeactivationIsOrderly, ApprovalIsOrderly
  <2>5. ASSUME NEW v \in Fleet, NEW ms \in Corrections
        PROVE  Orderly(updateMaintenanceRecord(v, ms))
    <3>1. ms \in Ascending(LastPeriod)
      BY LockConstants
    <3> QED
      BY <3>1, CorrectionIsOrderly
  <2>6. ASSUME NEW v \in Fleet
        PROVE  Orderly(changeVehicle(v)) /\ Orderly(createTicket(v))
    BY SingleIsOrderly, NewTicketIsOrderly
  <2>7. Orderly(p)
    BY <1>3, <2>1, <2>2, <2>3, <2>4, <2>5, <2>6 DEF OtherPlans
  <2> QED
    BY <2>7 DEF Orderly
<1> QED
  BY <1>1, <1>2, <1>3 DEF Plans

-----------------------------------------------------------------------------
(* The lock table *)

(* No two transactions hold locks that clash. *)
NoTwoClash ==
  \A t, u \in Transactions : t # u =>
    \A i \in 1..got[t], j \in 1..got[u] : ~Clash(plan[t][i], plan[u][j])

(* The lock table: what is held was asked for and clashes with nothing another one
   holds; who waits does so once and still has something to ask for. *)
LocksInv ==
  /\ plan \in [Transactions -> Plans \cup {<<>>}]
  /\ got \in [Transactions -> Nat]
  /\ \A t \in Transactions : got[t] <= Len(plan[t])
  /\ waiting \in Seq(Transactions)
  /\ \A i, j \in DOMAIN waiting : i # j => waiting[i] # waiting[j]
  /\ \A t \in Transactions : Waits(t) => got[t] < Len(plan[t])
  /\ NoTwoClash

(* Plans are sequences of locks. *)
LEMMA PlanLengths ==
  ASSUME LocksInv, NEW t \in Transactions
  PROVE  Len(plan[t]) \in Nat /\ plan[t] \in Seq(Locks) /\ got[t] \in Nat
<1>1. plan[t] \in Plans \/ plan[t] = <<>>
  BY DEF LocksInv
<1>2. plan[t] \in Seq(Locks)
  <2>1. CASE plan[t] \in Plans
    BY <2>1, PlansAreDisciplined
  <2>2. CASE plan[t] = <<>>
    BY <2>2
  <2> QED
    BY <1>1, <2>1, <2>2
<1>3. Len(plan[t]) \in Nat
  BY <1>2, LenProperties
<1> QED
  BY <1>2, <1>3 DEF LocksInv

(* A transaction that leaves the queue: the others stay in it, once each. *)
LEMMA Removed ==
  ASSUME LocksInv, NEW t, Leaves(t)
  PROVE  /\ waiting' \in Seq(Transactions)
         /\ \A i, j \in DOMAIN waiting' : i # j => waiting'[i] # waiting'[j]
         /\ \A u : Waits(u)' => Waits(u) /\ u # t
<1>1. CASE ~Waits(t) /\ UNCHANGED waiting
  BY <1>1 DEF LocksInv, Waits
<1>2. ASSUME NEW i \in DOMAIN waiting, waiting[i] = t, waiting' = RemoveAt(waiting, i)
      PROVE  /\ waiting' \in Seq(Transactions)
             /\ \A h, j \in DOMAIN waiting' : h # j => waiting'[h] # waiting'[j]
             /\ \A u : Waits(u)' => Waits(u) /\ u # t
  <2> DEFINE n == Len(waiting)
             a == SubSeq(waiting, 1, i - 1)
             b == SubSeq(waiting, i + 1, n)
  <2>1. /\ n \in Nat /\ i \in 1..n /\ DOMAIN waiting = 1..n
        /\ \A h \in 1..n : waiting[h] \in Transactions
    BY <1>2 DEF LocksInv
  <2>2. /\ a \in Seq(Transactions) /\ Len(a) = i - 1
        /\ \A h \in 1..(i - 1) : a[h] = waiting[h]
    BY <2>1
  <2>3. /\ b \in Seq(Transactions) /\ Len(b) = n - i
        /\ \A h \in 1..(n - i) : b[h] = waiting[i + h]
    BY <2>1
  <2>4. waiting' = a \o b
    BY <1>2 DEF RemoveAt
  <2> HIDE DEF a, b, n
  <2>5. /\ waiting' \in Seq(Transactions) /\ DOMAIN waiting' = 1..(n - 1)
        /\ \A h \in 1..(i - 1) : waiting'[h] = waiting[h]
        /\ \A h \in i..(n - 1) : waiting'[h] = waiting[h + 1]
    <3>1. /\ a \o b \in Seq(Transactions) /\ Len(a \o b) = Len(a) + Len(b)
          /\ \A h \in 1..(Len(a) + Len(b)) : (a \o b)[h] = IF h <= Len(a) THEN a[h] ELSE b[h - Len(a)]
      BY <2>2, <2>3, ConcatProperties
    <3>2. Len(a) + Len(b) = n - 1 /\ DOMAIN (a \o b) = 1..(n - 1)
      BY <2>1, <2>2, <2>3, <3>1, LenProperties
    <3>3. ASSUME NEW h \in i..(n - 1)
          PROVE  (a \o b)[h] = waiting[h + 1]
      <4>1. h \in 1..(Len(a) + Len(b)) /\ ~(h <= Len(a)) /\ h - Len(a) \in 1..(n - i)
        BY <2>1, <2>2, <3>2
      <4>2. i + (h - Len(a)) = h + 1
        BY <2>1, <2>2
      <4> QED
        BY <2>3, <3>1, <4>1, <4>2
    <3>4. ASSUME NEW h \in 1..(i - 1)
          PROVE  (a \o b)[h] = waiting[h]
      <4>1. h \in 1..(Len(a) + Len(b)) /\ h <= Len(a)
        BY <2>1, <2>2, <3>2
      <4> QED
        BY <2>2, <3>1, <4>1
    <3> QED
      BY <2>4, <3>1, <3>2, <3>3, <3>4
  <2>6. \A h \in 1..(n - 1) :
          \E g \in 1..n : /\ g # i /\ waiting'[h] = waiting[g]
                          /\ g = IF h < i THEN h ELSE h + 1
    BY <2>1, <2>5
  <2>7. ASSUME NEW h \in DOMAIN waiting', NEW j \in DOMAIN waiting', h # j
        PROVE  waiting'[h] # waiting'[j]
    <3>1. h \in 1..(n - 1) /\ j \in 1..(n - 1)
      BY <2>5
    <3>2. PICK g \in 1..n : waiting'[h] = waiting[g] /\ g = IF h < i THEN h ELSE h + 1
      BY <2>6, <3>1
    <3>3. PICK f \in 1..n : waiting'[j] = waiting[f] /\ f = IF j < i THEN j ELSE j + 1
      BY <2>6, <3>1
    <3>4. f # g
      BY <2>1, <2>7, <3>1, <3>2, <3>3
    <3> QED
      BY <2>1, <3>2, <3>3, <3>4 DEF LocksInv
  <2>8. ASSUME NEW u, Waits(u)'
        PROVE  Waits(u) /\ u # t
    <3>1. PICK h \in 1..(n - 1) : waiting'[h] = u
      BY <2>5, <2>8 DEF Waits
    <3>2. PICK g \in 1..n : g # i /\ waiting'[h] = waiting[g]
      BY <2>6
    <3>3. waiting[g] # waiting[i]
      BY <2>1, <3>2 DEF LocksInv
    <3> QED
      BY <1>2, <2>1, <3>1, <3>2, <3>3 DEF Waits
  <2> QED
    BY <2>5, <2>7, <2>8
<1> QED
  BY <1>1, <1>2 DEF Leaves

(* Clashes are mutual. *)
LEMMA ClashIsMutual ==
  ASSUME NEW a, NEW b, Clash(a, b)
  PROVE  Clash(b, a)
<1>1. {a.mode, b.mode} = {b.mode, a.mode}
  OBVIOUS
<1> QED
  BY <1>1 DEF Clash

(* Nobody holds or asks for anything at first. *)
LEMMA LocksInitially ==
  ASSUME LocksInit
  PROVE  LocksInv
BY DEF LocksInit, LocksInv, NoTwoClash, Waits

(* A transaction that ends or is aborted gives everything back. *)
LEMMA GivesBack ==
  ASSUME LocksInv, NEW t \in Transactions,
         plan' = [plan EXCEPT ![t] = <<>>], got' = [got EXCEPT ![t] = 0],
         waiting' \in Seq(Transactions),
         \A i, j \in DOMAIN waiting' : i # j => waiting'[i] # waiting'[j],
         \A u : Waits(u)' => Waits(u) /\ u # t
  PROVE  LocksInv'
<1>1. /\ plan' \in [Transactions -> Plans \cup {<<>>}] /\ got' \in [Transactions -> Nat]
      /\ plan'[t] = <<>> /\ got'[t] = 0
      /\ \A u \in Transactions \ {t} : plan'[u] = plan[u] /\ got'[u] = got[u]
  BY DEF LocksInv
<1>2. \A u \in Transactions : got'[u] <= Len(plan'[u])
  BY <1>1 DEF LocksInv
<1>3. \A u \in Transactions : Waits(u)' => got'[u] < Len(plan'[u])
  BY <1>1 DEF LocksInv
<1>4. NoTwoClash'
  <2> SUFFICES ASSUME NEW u \in Transactions, NEW w \in Transactions, u # w,
                      NEW i \in 1..got'[u], NEW j \in 1..got'[w]
               PROVE  ~Clash(plan'[u][i], plan'[w][j])
    BY DEF NoTwoClash, Clash
  <2>1. u # t /\ w # t
    BY <1>1
  <2> QED
    BY <1>1, <2>1 DEF LocksInv, NoTwoClash
<1> QED
  BY <1>1, <1>2, <1>3, <1>4 DEF LocksInv

(* Every step keeps the lock table right. *)
LEMMA LocksStep ==
  ASSUME LocksInv, [LocksNext]_lockVars
  PROVE  LocksInv'
<1>1. ASSUME NEW t \in Transactions, Begin(t)
      PROVE  LocksInv'
  <2>1. PICK p \in Plans : plan' = [plan EXCEPT ![t] = p]
    BY <1>1 DEF Begin
  <2>2. plan[t] = <<>> /\ got' = got /\ waiting' = waiting
    BY <1>1 DEF Begin, Running
  <2>3. got[t] = 0 /\ ~Waits(t)
    <3>1. Len(plan[t]) = 0
      BY <2>2
    <3> QED
      BY <3>1, PlanLengths DEF LocksInv
  <2>4. Len(p) \in Nat
    BY PlansAreDisciplined, LenProperties
  <2>5. /\ plan' \in [Transactions -> Plans \cup {<<>>}]
        /\ \A u \in Transactions : plan'[u] = IF u = t THEN p ELSE plan[u]
    BY <2>1 DEF LocksInv
  <2>6. \A u \in Transactions : got'[u] <= Len(plan'[u])
    BY <2>2, <2>3, <2>4, <2>5 DEF LocksInv
  <2>7. \A u \in Transactions : Waits(u)' => got'[u] < Len(plan'[u])
    BY <2>2, <2>3, <2>5 DEF LocksInv, Waits
  <2>8. NoTwoClash'
    <3> SUFFICES ASSUME NEW u \in Transactions, NEW w \in Transactions, u # w,
                        NEW i \in 1..got'[u], NEW j \in 1..got'[w]
                 PROVE  ~Clash(plan'[u][i], plan'[w][j])
      BY DEF NoTwoClash, Clash
    <3>1. u # t /\ w # t
      BY <2>2, <2>3
    <3> QED
      BY <2>2, <2>5, <3>1 DEF LocksInv, NoTwoClash
  <2> QED
    BY <2>2, <2>5, <2>6, <2>7, <2>8 DEF LocksInv
<1>2. ASSUME NEW t \in Transactions, Acquire(t)
      PROVE  LocksInv'
  <2>1. /\ got[t] < Len(plan[t]) /\ plan' = plan
        /\ got' = [got EXCEPT ![t] = @ + 1] /\ Leaves(t)
        /\ \A u \in Transactions : ~Blocks(u, t)
    BY <1>2 DEF Acquire
  <2>2. /\ got' \in [Transactions -> Nat] /\ got[t] \in Nat /\ Len(plan[t]) \in Nat
        /\ \A u \in Transactions : got'[u] = IF u = t THEN got[t] + 1 ELSE got[u]
    BY <2>1, PlanLengths DEF LocksInv
  <2>3. /\ waiting' \in Seq(Transactions)
        /\ \A i, j \in DOMAIN waiting' : i # j => waiting'[i] # waiting'[j]
        /\ \A u : Waits(u)' => Waits(u) /\ u # t
    BY <2>1, Removed
  <2>4. \A u \in Transactions : got'[u] <= Len(plan'[u])
    BY <2>1, <2>2 DEF LocksInv
  <2>5. \A u \in Transactions : Waits(u)' => got'[u] < Len(plan'[u])
    BY <2>1, <2>2, <2>3 DEF LocksInv
  <2>6. ASSUME NEW u \in Transactions \ {t}, NEW i \in 1..got'[t], NEW j \in 1..got'[u]
        PROVE  ~Clash(plan'[t][i], plan'[u][j])
    <3>1. got'[u] = got[u] /\ got'[t] = got[t] + 1
      BY <2>2
    <3>2. CASE i \in 1..got[t]
      BY <2>1, <3>1, <3>2 DEF LocksInv, NoTwoClash
    <3>3. CASE i = got[t] + 1
      <4>1. ~Clash(plan[u][j], Request(t))
        BY <2>1, <3>1 DEF Blocks, Held
      <4>2. plan'[t][i] = Request(t) /\ plan'[u][j] = plan[u][j]
        BY <2>1, <3>3 DEF Request
      <4> QED
        BY <4>1, <4>2, ClashIsMutual
    <3> QED
      BY <2>2, <3>1, <3>2, <3>3
  <2>7. NoTwoClash'
    <3> SUFFICES ASSUME NEW u \in Transactions, NEW w \in Transactions, u # w,
                        NEW i \in 1..got'[u], NEW j \in 1..got'[w]
                 PROVE  ~Clash(plan'[u][i], plan'[w][j])
      BY DEF NoTwoClash, Clash
    <3>1. CASE u = t
      BY <2>6, <3>1
    <3>2. CASE w = t
      BY <2>6, <3>2, ClashIsMutual
    <3>3. CASE u # t /\ w # t
      BY <2>1, <2>2, <3>3 DEF LocksInv, NoTwoClash
    <3> QED
      BY <3>1, <3>2, <3>3
  <2> QED
    BY <2>1, <2>2, <2>3, <2>4, <2>5, <2>7 DEF LocksInv
<1>3. ASSUME NEW t \in Transactions, Enqueue(t)
      PROVE  LocksInv'
  <2>1. /\ got[t] < Len(plan[t]) /\ plan' = plan /\ got' = got
        /\ ~Waits(t) /\ waiting' = Append(waiting, t)
    BY <1>3 DEF Enqueue
  <2> DEFINE n == Len(waiting)
  <2>2. /\ waiting \in Seq(Transactions) /\ n \in Nat /\ DOMAIN waiting = 1..n
        /\ waiting' \in Seq(Transactions) /\ DOMAIN waiting' = 1..(n + 1)
        /\ \A i \in 1..n : waiting'[i] = waiting[i]
        /\ waiting'[n + 1] = t
    BY <2>1 DEF LocksInv
  <2> HIDE DEF n
  <2>3. ASSUME NEW i \in DOMAIN waiting', NEW j \in DOMAIN waiting', i # j
        PROVE  waiting'[i] # waiting'[j]
    <3>1. \A h \in 1..n : waiting[h] # t
      BY <2>1, <2>2 DEF Waits
    <3>2. \A h \in DOMAIN waiting' : h \in 1..n \/ h = n + 1
      BY <2>2
    <3>3. CASE i \in 1..n /\ j \in 1..n
      BY <2>2, <2>3, <3>3 DEF LocksInv
    <3>4. CASE i = n + 1 \/ j = n + 1
      BY <2>2, <2>3, <3>1, <3>2, <3>4
    <3> QED
      BY <3>2, <3>3, <3>4
  <2>4. \A u \in Transactions : Waits(u)' => Waits(u) \/ u = t
    <3>1. \A h \in DOMAIN waiting' : h \in 1..n \/ h = n + 1
      BY <2>2
    <3> QED
      BY <2>2, <3>1 DEF Waits
  <2>5. \A u \in Transactions : Waits(u)' => got'[u] < Len(plan'[u])
    BY <2>1, <2>4 DEF LocksInv
  <2>6. NoTwoClash'
    BY <2>1 DEF LocksInv, NoTwoClash, Clash
  <2> QED
    BY <2>1, <2>2, <2>3, <2>5, <2>6 DEF LocksInv
<1>4. ASSUME NEW t \in Transactions, End(t)
      PROVE  LocksInv'
  <2>1. /\ ~Waits(t) /\ waiting' = waiting
        /\ plan' = [plan EXCEPT ![t] = <<>>] /\ got' = [got EXCEPT ![t] = 0]
    BY <1>4 DEF End
  <2>2. /\ waiting' \in Seq(Transactions)
        /\ \A i, j \in DOMAIN waiting' : i # j => waiting'[i] # waiting'[j]
        /\ \A u : Waits(u)' => Waits(u) /\ u # t
    BY <2>1 DEF LocksInv, Waits
  <2> QED
    BY <2>1, <2>2, GivesBack
<1>5. ASSUME NEW t \in Transactions, AbortVictim(t)
      PROVE  LocksInv'
  <2>1. plan' = [plan EXCEPT ![t] = <<>>] /\ got' = [got EXCEPT ![t] = 0] /\ Leaves(t)
    BY <1>5 DEF AbortVictim
  <2>2. /\ waiting' \in Seq(Transactions)
        /\ \A i, j \in DOMAIN waiting' : i # j => waiting'[i] # waiting'[j]
        /\ \A u : Waits(u)' => Waits(u) /\ u # t
    BY <2>1, Removed
  <2> QED
    BY <2>1, <2>2, GivesBack
<1>6. CASE UNCHANGED lockVars
  BY <1>6 DEF lockVars, LocksInv, NoTwoClash, Waits, Clash
<1> QED
  BY <1>1, <1>2, <1>3, <1>4, <1>5, <1>6 DEF LocksNext

-----------------------------------------------------------------------------
(* No circle without a late release or the daily check *)

(* Who holds what another one asks for asks for something higher itself. *)
LEMMA HoldersAskHigher ==
  ASSUME LocksInv, NEW t \in Transactions, NEW u \in Transactions, t # u,
         Waits(t), Waits(u), ~DailyCheck(t), ~DailyCheck(u), ~LateRelease(u),
         NEW h \in Held(u), Clash(h, Request(t))
  PROVE  Rank(Request(t)) < Rank(Request(u))
<1>1. /\ plan[t] \in Plans /\ plan[u] \in Plans /\ Orderly(plan[t]) /\ Orderly(plan[u])
      /\ got[t] + 1 \in DOMAIN plan[t] /\ got[u] + 1 \in DOMAIN plan[u]
      /\ got[t] \in Nat /\ got[u] \in Nat
      /\ DOMAIN plan[t] = 1..Len(plan[t]) /\ DOMAIN plan[u] = 1..Len(plan[u])
  <2>1. ASSUME NEW w \in Transactions, Waits(w), ~DailyCheck(w)
        PROVE  /\ plan[w] \in Plans /\ Orderly(plan[w]) /\ got[w] + 1 \in DOMAIN plan[w]
               /\ got[w] \in Nat /\ DOMAIN plan[w] = 1..Len(plan[w])
    <3>1. got[w] < Len(plan[w]) /\ Len(plan[w]) \in Nat /\ got[w] \in Nat /\ plan[w] \in Seq(Locks)
      BY <2>1, PlanLengths DEF LocksInv
    <3>2. plan[w] # <<>>
      BY <3>1
    <3>3. plan[w] \in Plans
      BY <3>2 DEF LocksInv
    <3>4. Orderly(plan[w])
      BY <2>1, <3>3, PlansAreDisciplined DEF DailyCheck
    <3> QED
      BY <3>1, <3>3, <3>4, LenProperties
  <2> QED
    BY <2>1
<1>2. PICK i \in 1..got[u] : h = plan[u][i]
  BY DEF Held
<1>3. i \in DOMAIN plan[u] /\ i < got[u] + 1
  BY <1>1, <1>2
<1>4. h.resource = Request(t).resource
  BY DEF Clash
<1>5. Rank(h) = Rank(Request(t))
  BY <1>4 DEF Rank
<1>6. ~LateAt(plan[u], got[u] + 1)
  <2> SUFFICES ASSUME LateAt(plan[u], got[u] + 1)
               PROVE  FALSE
    OBVIOUS
  <2>1. PICK m \in Periods : plan[u][got[u] + 1] = lockBudgetPeriod("FUEL", m)
    BY DEF LateAt
  <2>2. PICK g \in 1..got[u], v \in Fleet : plan[u][g] = lockVehicle(v)
    <3>1. (got[u] + 1) - 1 = got[u]
      BY <1>1
    <3> QED
      BY <3>1 DEF LateAt
  <2>3. lockVehicle(v) \in Held(u) /\ Request(u) = lockBudgetPeriod("FUEL", m)
    BY <2>1, <2>2 DEF Held, Request
  <2> QED
    BY <2>3 DEF LateRelease
<1>7. ~Sheltered(plan[u], i)
  <2> SUFFICES ASSUME NEW k \in Kinds, NEW g \in 1..(i - 1),
                      plan[u][g] = lockBudgetTimelineExclusive(k), OfKind(plan[u][i], k)
               PROVE  FALSE
    BY ZenonT(40) DEF Sheltered
  <2>1. OfKind(plan[t][got[t] + 1], k)
    <3>1. plan[u][i].resource = plan[t][got[t] + 1].resource
      BY <1>2, <1>4 DEF Request
    <3> QED
      BY <3>1 DEF OfKind
  <2>2. PICK f \in 1..got[t] : Opens(plan[t][f], k)
    <3>1. Opened(plan[t]) /\ got[t] + 1 \in DOMAIN plan[t] /\ (got[t] + 1) - 1 = got[t]
      BY <1>1 DEF Orderly
    <3> QED
      BY <2>1, <3>1 DEF Opened
  <2>3. g \in 1..got[u]
    BY <1>1, <1>2
  <2>4. ~Clash(plan[t][f], plan[u][g])
    BY <2>3 DEF LocksInv, NoTwoClash
  <2>5. Clash(plan[t][f], plan[u][g])
    <3>1. \/ plan[t][f] = [resource |-> <<"timeline", k>>, mode |-> "S"]
          \/ plan[t][f] = [resource |-> <<"timeline", k>>, mode |-> "X"]
      BY <2>2 DEF Opens, lockBudgetTimelineShared, lockBudgetTimelineExclusive, Lock
    <3>2. plan[u][g] = [resource |-> <<"timeline", k>>, mode |-> "X"]
      BY DEF lockBudgetTimelineExclusive, Lock
    <3>3. /\ plan[t][f].resource = plan[u][g].resource
          /\ plan[t][f].mode \in {"S", "X"} /\ plan[u][g].mode = "X"
      BY <3>1, <3>2
    <3>4. {plan[t][f].mode, plan[u][g].mode} \in {{"X"}, {"X", "S"}}
      BY <3>3
    <3> QED
      BY <3>3, <3>4 DEF Clash, Conflicting
  <2> QED
    BY <2>4, <2>5
<1> QED
  BY <1>1, <1>2, <1>3, <1>5, <1>6, <1>7 DEF Orderly, Request

(* In an interlock take, of those that ask for the highest rank, the one that asked
   first: whoever keeps it waiting asks for something higher, or asked before it. *)
LEMMA InterlocksAreKnown ==
  ASSUME LocksInv
  PROVE  OnlyKnownInterlocks
<1> SUFFICES ASSUME NEW S \in SUBSET Transactions, Interlocked(S),
                    \A t \in S : ~LateRelease(t) /\ ~DailyCheck(t)
             PROVE  FALSE
  BY DEF OnlyKnownInterlocks
<1>1. \A t \in S : Waits(t) /\ \E u \in S : Blocks(u, t)
  BY DEF Interlocked
<1>2. ASSUME NEW t \in S
      PROVE  Rank(Request(t)) \in 0..Highest
  <2>1. Waits(t) /\ t \in Transactions /\ ~DailyCheck(t)
    BY <1>1
  <2>2. got[t] < Len(plan[t]) /\ Len(plan[t]) \in Nat /\ got[t] \in Nat /\ plan[t] \in Seq(Locks)
    BY <2>1, PlanLengths DEF LocksInv
  <2>3. plan[t] # <<>>
    BY <2>2
  <2>4. plan[t] \in Plans
    BY <2>1, <2>3 DEF LocksInv
  <2>5. Orderly(plan[t])
    BY <2>1, <2>4, PlansAreDisciplined DEF DailyCheck
  <2>6. got[t] + 1 \in DOMAIN plan[t]
    BY <2>2, LenProperties
  <2> QED
    BY <2>5, <2>6 DEF Orderly, Request
<1>3. Highest \in Nat
  BY PeriodRange DEF Highest
<1>4. PICK t \in S : \A u \in S : Rank(Request(u)) <= Rank(Request(t))
  <2> DEFINE Gaps == {Highest - Rank(Request(t)) : t \in S}
  <2>1. Gaps \in SUBSET Nat /\ Gaps # {}
    BY <1>2, <1>3 DEF Interlocked
  <2>2. PICK g \in Gaps : \A f \in Gaps : g <= f
    BY <2>1, SmallestOf
  <2>3. PICK t \in S : g = Highest - Rank(Request(t))
    BY <2>2
  <2>4. ASSUME NEW u \in S
        PROVE  Rank(Request(u)) <= Rank(Request(t))
    <3>1. g <= Highest - Rank(Request(u))
      BY <2>2
    <3>2. Rank(Request(t)) \in Int /\ Rank(Request(u)) \in Int
      BY <1>2
    <3> QED
      BY <1>3, <2>3, <3>1, <3>2
  <2> QED
    BY <2>4
<1>5. PICK w \in S :
        /\ Rank(Request(w)) = Rank(Request(t))
        /\ \A u \in S : Rank(Request(u)) = Rank(Request(t)) => ~Ahead(w, u)
  <2> DEFINE Places == {i \in DOMAIN waiting : /\ waiting[i] \in S
                                               /\ Rank(Request(waiting[i])) = Rank(Request(t))}
  <2>1. DOMAIN waiting \in SUBSET Nat
    BY LenProperties DEF LocksInv
  <2>2. Places # {}
    BY <1>1 DEF Waits
  <2>3. PICK i \in Places : \A j \in Places : i <= j
    BY <2>1, <2>2, SmallestOf
  <2>4. ASSUME NEW u \in S, Rank(Request(u)) = Rank(Request(t)), Ahead(waiting[i], u)
        PROVE  FALSE
    <3>1. PICK h \in DOMAIN waiting, j \in DOMAIN waiting :
            h < j /\ waiting[h] = u /\ waiting[j] = waiting[i]
      BY <2>4 DEF Ahead
    <3>2. j = i
      BY <3>1 DEF LocksInv
    <3>3. h \in Places
      BY <2>4, <3>1
    <3> QED
      BY <2>1, <2>3, <3>1, <3>2, <3>3
  <2> QED
    BY <2>3, <2>4
<1>6. PICK u \in S : Blocks(u, w)
  BY <1>1
<1>7. u # w /\ Waits(u) /\ Waits(w)
  BY <1>1, <1>6 DEF Blocks
<1>8. CASE \E h \in Held(u) : Clash(h, Request(w))
  <2>1. Rank(Request(w)) < Rank(Request(u))
    BY <1>7, <1>8, HoldersAskHigher
  <2> QED
    BY <1>2, <1>3, <1>4, <1>5, <2>1
<1>9. CASE Ahead(w, u) /\ Clash(Request(u), Request(w))
  <2>1. Rank(Request(u)) = Rank(Request(w))
    BY <1>9 DEF Clash, Rank
  <2> QED
    BY <1>5, <1>9, <2>1
<1> QED
  BY <1>6, <1>7, <1>8, <1>9 DEF Blocks

(* "Orden global: timeline -> periodo -> vehiculo -> presupuesto" of              *)
(* budgetService.ts does keep captures, reviews, distributions, closings,       *)
(* removals, approvals and corrections from ever interlocking among themselves:    *)
(* where transactions wait for one another in a circle, one of them is a release    *)
(* of a load that goes on to a later month with its vehicle locked, or the daily    *)
(* check, which takes its vehicles in no order.                                     *)
THEOREM InterlocksKnown == LocksSpec => []OnlyKnownInterlocks
<1>1. LocksInit => LocksInv
  BY LocksInitially
<1>2. LocksInv /\ [LocksNext]_lockVars => LocksInv'
  BY LocksStep
<1>3. LocksInv => OnlyKnownInterlocks
  BY InterlocksAreKnown
<1> QED
  BY <1>1, <1>2, <1>3, PTL DEF LocksSpec

=============================================================================
