----------------------------- MODULE BudgetDesk -----------------------------
(* The page of the monthly budgets: the table of one period, the editor in its rows,     *)
(* the dialogs that give a budget to many units and that declare the pool, and the       *)
(* cache of queries they all read.  Amounts are left out: what matters is which period   *)
(* a figure was read for, and which period a request writes to.                          *)
EXTENDS Naturals, FiniteSets

CONSTANTS
  Periods,        \* the months that can be chosen
  Units,          \* the active vehicles
  Found,          \* what the search finds of them
  NoRead,         \* a query that has no answer yet
  MaxWrites       \* bound: requests to write on their way at once

VARIABLES
  book,           \* at the server: the rows, <<period, unit>>, that have a budget
  cache,          \* the cached answer of every query: the rows it was made from
  asked,          \* the queries that the page has asked so far
  desk,           \* what the page shows
  writes          \* the requests to write that are on their way

bookVars == <<book, cache, asked, desk, writes>>

Lenses == {"all", "search"}
Queries == Periods \X (Lenses \cup {"counts"})
NoEdit == <<>>

BookTypeOK ==
  /\ book \subseteq Periods \X Units
  /\ DOMAIN cache = Queries /\ asked \subseteq Queries
  /\ desk.period \in Periods /\ desk.lens \in Lenses /\ desk.dialog \in {"none", "mass", "pool"}

(* The queries that the page observes: the table and the counts of units.  Figures of    *)
(* the pool are left out.                                                                *)
Observed(d) == {d.period} \X {d.lens, "counts"}
Answered(query) == cache[query] # NoRead

(* The rows of the previous answer stand in for the table only within one period.        *)
(* A plausible mistake for Placeholder: the usual keepPreviousData.                      *)
PlaceholderOfAny(kept, period) == cache[kept]
Placeholder(kept, period) == IF kept[1] = period THEN cache[kept] ELSE NoRead

Rows(d) ==
  LET shown == IF Answered(<<d.period, d.lens>>) THEN cache[<<d.period, d.lens>>]
               ELSE Placeholder(d.kept, d.period)
  IN IF shown = NoRead THEN {} ELSE shown

(* The rows of the book that the server answers a query with.                            *)
Reads(query) ==
  {row \in book : row[1] = query[1] /\ (query[2] = "search" => row[2] \in Found)}

(* The units that a distribution would reach, as the page counts them.                   *)
Universe(mode, period) ==
  IF ~ Answered(<<period, "counts">>) THEN {}
  ELSE {unit \in Units : mode = "UNASSIGNED" => <<period, unit>> \notin cache[<<period, "counts">>]}

BudgetDeskInit ==
  /\ book \in {rows \in SUBSET (Periods \X Units) : rows # {}}
  /\ desk \in [period : Periods, lens : {"all"}, kept : {<<period, "all">> : period \in Periods},
               edit : {NoEdit}, dialog : {"none"}]
  /\ desk.kept[1] = desk.period
  /\ cache = [query \in Queries |-> NoRead]
  /\ asked = Observed(desk) /\ writes = {}

(* Another period or another search.  A period closes the editor.                        *)
Show(period, lens) ==
  LET old == <<desk.period, desk.lens>>
      new == [desk EXCEPT !.period = period, !.lens = lens,
                          !.kept = IF Answered(old) THEN old ELSE @,
                          !.edit = IF period = desk.period THEN @ ELSE NoEdit]
  IN /\ desk.dialog = "none" /\ old # <<period, lens>>
     /\ desk' = new /\ asked' = asked \cup Observed(new)
     /\ UNCHANGED <<book, cache, writes>>

(* A query is asked when it is shown for the first time, and again when it is old, when  *)
(* the window is looked at again and after a write: its answer may come at any time,     *)
(* also after the page has moved on.  One that fails leaves the cache as it is.          *)
QueryIsAnswered(query) ==
  /\ query \in asked
  /\ cache' = [cache EXCEPT ![query] = Reads(query)]
  /\ UNCHANGED <<book, asked, desk, writes>>

StartEdit(row) ==
  /\ row \in Rows(desk) /\ desk.dialog = "none"
  /\ desk' = [desk EXCEPT !.edit = row]
  /\ UNCHANGED <<book, cache, asked, writes>>

CancelEdit ==
  /\ desk.edit \in Rows(desk)
  /\ desk' = [desk EXCEPT !.edit = NoEdit]
  /\ UNCHANGED <<book, cache, asked, writes>>

OpenDialog(dialog) ==
  /\ desk.dialog = "none" /\ desk' = [desk EXCEPT !.dialog = dialog]
  /\ UNCHANGED <<book, cache, asked, writes>>

CloseDialog ==
  /\ desk.dialog # "none" /\ desk' = [desk EXCEPT !.dialog = "none"]
  /\ UNCHANGED <<book, cache, asked, writes>>

(* The request of an operation: the period it writes to, and the rows it was made from.  *)
Send(op, rows) ==
  /\ Cardinality(writes) < MaxWrites /\ \A w \in writes : w.op # op
  /\ writes' = writes \cup {[op |-> op, period |-> desk.period, rows |-> rows, state |-> "sent"]}
  /\ UNCHANGED <<book, cache, asked, desk>>

SaveEdit ==
  /\ desk.edit \in Rows(desk) /\ desk.dialog = "none"
  /\ Send("assign", {desk.edit})

HandleMassAssign(mode) ==
  /\ desk.dialog = "mass" /\ Universe(mode, desk.period) # {}
  /\ Send(mode, {desk.period} \X Universe(mode, desk.period))

SavePool ==
  /\ desk.dialog = "pool"
  /\ Send("pool", {})

(* The server writes to the period of the request, to the units as they are now.  It may *)
(* also refuse, for the pool, the spending or a closed month, or its answer be lost: the *)
(* page is only told that the request failed.                                            *)
Reached(w) ==
  CASE w.op = "assign" -> {row[2] : row \in w.rows}
    [] w.op = "ALL" -> Units
    [] w.op = "UNASSIGNED" -> {unit \in Units : <<w.period, unit>> \notin book}
    [] w.op = "pool" -> {}

WriteIsHandled(w) ==
  /\ w.state = "sent"
  /\ w.op \in {"ALL", "UNASSIGNED"} => Reached(w) # {}
  /\ book' = book \cup ({w.period} \X Reached(w))
  /\ writes' = (writes \ {w}) \cup {[w EXCEPT !.state = "done"]}
  /\ UNCHANGED <<cache, asked, desk>>

(* A success closes the editor that is open by then, whichever row it is in, or the      *)
(* dialog; the queries are asked again.                                                  *)
WriteSucceeds(w) ==
  /\ w.state = "done"
  /\ writes' = writes \ {w}
  /\ desk' = CASE w.op = "assign" -> [desk EXCEPT !.edit = NoEdit]
               [] w.op = "pool" -> [desk EXCEPT !.dialog = IF @ = "pool" THEN "none" ELSE @]
               [] OTHER -> [desk EXCEPT !.dialog = IF @ = "mass" THEN "none" ELSE @]
  /\ UNCHANGED <<book, cache, asked>>

WriteFails(w) ==
  /\ writes' = writes \ {w}
  /\ UNCHANGED <<book, cache, asked, desk>>

BudgetDeskNext ==
  \/ \E period \in Periods, lens \in Lenses : Show(period, lens)
  \/ \E query \in Queries : QueryIsAnswered(query)
  \/ \E row \in Periods \X Units : StartEdit(row)
  \/ CancelEdit \/ SaveEdit
  \/ \E dialog \in {"mass", "pool"} : OpenDialog(dialog)
  \/ CloseDialog \/ SavePool
  \/ \E mode \in {"ALL", "UNASSIGNED"} : HandleMassAssign(mode)
  \/ \E w \in writes : WriteIsHandled(w) \/ WriteSucceeds(w) \/ WriteFails(w)

BudgetDeskSpec == BudgetDeskInit /\ [][BudgetDeskNext]_bookVars

(* "Reutilizar filas de otro mes permite editar una unidad vieja usando year/month del   *)
(* periodo nuevo": whatever was switched, invalidated or answered late since, a request  *)
(* writes to the period whose row, or whose count of units, was on the page when it was  *)
(* made.                                                                                 *)
WrittenWhereShown ==
  \A w \in writes : \A row \in w.rows : row[1] = w.period
=============================================================================
