---------------------------- MODULE RacesProofs -----------------------------
(***************************************************************************)
(* Proofs about two systems whose steps race with each other: the requests *)
(* that write what they read earlier into a maintenance ticket, for any    *)
(* number of tickets, workshops and requests in flight, any amounts and    *)
(* balances; and the workers of the monthly reports, for any number of     *)
(* reports of a month, workers, dispatchers, attempts of a job and faults. *)
(***************************************************************************)
EXTENDS Tickets, ReportJobs, TLAPS

LEMMA NullIsApart == NULL \notin Nat /\ NULL \notin Workshops /\ NULL \notin Amounts /\ Amounts \subseteq Nat
BY TicketsAssumption

-----------------------------------------------------------------------------
(* Rows of tickets *)

(* What PaidOnce asks of one row. *)
Paid(row) ==
  /\ \/ row.orphaned
     \/ /\ Len(row.reserved) <= 1
        /\ row.status \in Approved => Len(row.reserved) = 1
        /\ row.status \in {"PENDING_ADMIN_APPROVAL", "AWAITING_QUOTES"} => row.reserved = <<>>
  /\ Len(row.records) = IF row.status = "COMPLETED" THEN 1 ELSE 0

(* The constraints hold of every row, only a row that lost its quote can be    *)
(* approved without a selected one, and a ticket starts without a reserve.     *)
Good(row) ==
  /\ Consistent(row)
  /\ row.status = "ABSENT" => row.reserved = <<>>
  /\ row.status \in Approved /\ row.selected = NULL => row.orphaned
  /\ Paid(row)

Closed == {"COMPLETED"} \cup Rejected

(* What a write may make of a row: what is closed stays closed, and what was   *)
(* approved stays so unless it lost its quote.                                 *)
Follows(row, old) ==
  /\ row \in Ticket /\ Good(row)
  /\ row.status # "ABSENT"
  /\ old.orphaned => row.orphaned
  /\ old.status \in Approved => row.status \in Approved \/ row.orphaned
  /\ old.status \in Closed => row.status \in Closed

LEMMA RowOfCreation ==
  ASSUME NEW old \in Ticket, Good(old), old.status = "ABSENT",
         NEW row, row = [old EXCEPT !.status = "PENDING_ADMIN_APPROVAL"], Consistent(row)
  PROVE  Follows(row, old)
<1>1. row \in Ticket
  BY DEF Ticket, Status
<1>2. /\ row.status = "PENDING_ADMIN_APPROVAL" /\ row.reserved = old.reserved /\ row.records = old.records
      /\ row.orphaned = old.orphaned /\ row.selected = old.selected
  BY DEF Ticket
<1>3. row.reserved = <<>> /\ Len(<<>>) = 0
  BY <1>2 DEF Good
<1>4. Len(row.records) = 0
  BY <1>2 DEF Good, Paid
<1>5. Paid(row)
  BY <1>2, <1>3, <1>4 DEF Paid, Approved
<1> QED
  BY <1>1, <1>2, <1>3, <1>5 DEF Follows, Good, Approved, Rejected, Closed

LEMMA RowOfPhoto ==
  ASSUME NEW old \in Ticket, Good(old), old.status # "ABSENT",
         NEW row, row = [old EXCEPT !.photos = @ + 1], Consistent(row)
  PROVE  Follows(row, old)
<1>1. row \in Ticket
  BY DEF Ticket
<1>2. /\ row.status = old.status /\ row.reserved = old.reserved /\ row.records = old.records
      /\ row.orphaned = old.orphaned /\ row.selected = old.selected
  BY DEF Ticket
<1>3. Paid(row) /\ (row.status \in Approved /\ row.selected = NULL => row.orphaned)
  BY <1>2 DEF Good, Paid
<1> QED
  BY <1>1, <1>2, <1>3 DEF Follows, Good

LEMMA RowOfRejection ==
  ASSUME NEW old \in Ticket, Good(old), old.status # "ABSENT", NEW status \in Rejected,
         NEW row, row = [old EXCEPT !.status = status, !.rejectedAt = TRUE], Consistent(row)
  PROVE  Follows(row, old)
BY NullIsApart
   DEF Follows, Ticket, Good, Paid, Consistent, Status, Approved, Rejected, Closed

LEMMA RowOfAssignment ==
  ASSUME NEW old \in Ticket, Good(old), old.status # "ABSENT",
         NEW row, row = [old EXCEPT !.status = "AWAITING_QUOTES"], Consistent(row)
  PROVE  Follows(row, old)
BY NullIsApart
   DEF Follows, Ticket, Good, Paid, Consistent, Status, Approved, Rejected, Closed

LEMMA RowOfReassignment ==
  ASSUME NEW old \in Ticket, Good(old), old.status # "ABSENT", NEW drop \in SUBSET Workshops,
         NEW row, row = [old EXCEPT !.selected = IF @ \in drop THEN NULL ELSE @,
                           !.orphaned = @ \/ old.selected \in drop], Consistent(row)
  PROVE  Follows(row, old)
BY NullIsApart
   DEF Follows, Ticket, Good, Paid, Consistent, Status, Approved, Rejected, Closed

LEMMA RowOfApproval ==
  ASSUME NEW old \in Ticket, Good(old), old.status = "AWAITING_QUOTES", NEW w \in Workshops, NEW amount \in Amounts,
         NEW row, row = [old EXCEPT !.status = "APPROVED_FOR_REPAIR", !.selected = w, !.reserved = Append(@, amount)], Consistent(row)
  PROVE  Follows(row, old)
<1> DEFINE reserved == Append(old.reserved, amount)
<1>0. old.reserved \in Seq(Amounts)
  BY DEF Ticket
<1>1. reserved \in Seq(Amounts) /\ (old.reserved = <<>> => Len(reserved) = 1)
  BY <1>0
<1> HIDE DEF reserved
<1>2. row \in Ticket
  BY <1>1 DEF Ticket, Status, Approved, reserved
<1>3. /\ row.status = "APPROVED_FOR_REPAIR" /\ row.reserved = reserved /\ row.records = old.records
      /\ row.orphaned = old.orphaned /\ row.selected = w
  BY DEF Ticket, reserved
<1>4. old.orphaned \/ old.reserved = <<>>
  BY DEF Good, Paid
<1>5. Paid(row)
  BY <1>1, <1>3, <1>4 DEF Good, Paid, Approved
<1> QED
  BY <1>2, <1>3, <1>5, NullIsApart DEF Follows, Good, Approved, Rejected, Closed

LEMMA RowOfStart ==
  ASSUME NEW old \in Ticket, Good(old), old.orphaned \/ old.status \in Approved, old.status # "ABSENT",
         NEW row, row = [old EXCEPT !.status = "IN_REPAIR", !.startedAt = TRUE], Consistent(row)
  PROVE  Follows(row, old)
BY NullIsApart
   DEF Follows, Ticket, Good, Paid, Consistent, Status, Approved, Rejected, Closed

LEMMA RowOfCompletion ==
  ASSUME NEW old \in Ticket, Good(old), old.status = "IN_REPAIR", NEW cost \in Amounts,
         NEW row, row = [old EXCEPT !.status = "COMPLETED", !.completedAt = TRUE, !.records = Append(@, cost)], Consistent(row)
  PROVE  Follows(row, old)
<1> DEFINE records == Append(old.records, cost)
<1>0. old.records \in Seq(Amounts) /\ Len(old.records) = 0
  BY DEF Ticket, Good, Paid
<1>1. records \in Seq(Amounts) /\ Len(records) = 1
  BY <1>0
<1> HIDE DEF records
<1>2. row \in Ticket
  BY <1>1 DEF Ticket, Status, Approved, records
<1>3. /\ row.status = "COMPLETED" /\ row.reserved = old.reserved /\ row.records = records
      /\ row.orphaned = old.orphaned /\ row.selected = old.selected
  BY DEF Ticket, records
<1>4. old.status \in Approved
  BY DEF Approved
<1>5. Paid(row) /\ (row.selected = NULL => row.orphaned)
  BY <1>1, <1>3, <1>4 DEF Good, Paid
<1> QED
  BY <1>2, <1>3, <1>4, <1>5 DEF Follows, Good, Approved, Rejected, Closed

-----------------------------------------------------------------------------
(* States *)

LEMMA RequestFields ==
  ASSUME NEW q \in Request
  PROVE  /\ q.ticket \in Tickets
         /\ q.op = "reject" => q.status \in Rejected
         /\ q.op \in {"assign", "reassign"} => q.add \subseteq Workshops
         /\ q.op = "reassign" => q.drop \subseteq Workshops
         /\ q.op \in {"approve", "submit", "decline"} => q.workshop \in Workshops
         /\ q.op \in {"approve", "submit"} => q.amount \in Amounts
         /\ q.op = "complete" => q.cost \in Amounts
BY DEF Request

Rows == \A t \in Tickets : Good(ticket[t])

HasAmount(t, w) == w \in Workshops /\ quote[t][w] # NULL /\ quote[t][w].amount \in Amounts

(* The quote that won a ticket is there, with an amount. *)
Won == \A t \in Tickets : ticket[t].selected # NULL => HasAmount(t, ticket[t].selected)

(* What a handler has read is still so when it writes, as far as it matters:   *)
(* the ticket is there, a repair that starts was approved, and the quote is    *)
(* there, with its amount where one was read.                                  *)
WellAsked(q) ==
  /\ ticket[q.ticket].status # "ABSENT"
  /\ q.op = "start" => ticket[q.ticket].orphaned \/ ticket[q.ticket].status \in Approved
  /\ q.op \in {"submit", "decline"} => quote[q.ticket][q.workshop] # NULL
  /\ q.op = "approve" => HasAmount(q.ticket, q.workshop)

TInv ==
  /\ TicketsTypeOK /\ Rows /\ Won
  /\ \A r \in Requests : request[r] # NULL => WellAsked(request[r])

(* How the tickets move in a step. *)
TicketMoves ==
  /\ ticket' \in [Tickets -> Ticket]
  /\ \A t \in Tickets : \/ ticket'[t] = ticket[t]
                        \/ /\ Follows(ticket'[t], ticket[t])
                           /\ active \/ ticket[t].status # "ABSENT"

LEMMA OneRowMoves ==
  ASSUME TInv, NEW t \in Tickets, NEW row, Follows(row, ticket[t]), SetTicket(t, row),
         active \/ ticket[t].status # "ABSENT"
  PROVE  TicketMoves
BY DEF TInv, TicketsTypeOK, TicketMoves, SetTicket, Follows

(* Every write of a handler makes a row that follows the one it replaces.      *)
LEMMA Moving == TInv /\ TicketsNext => TicketMoves
<1> SUFFICES ASSUME TInv, TicketsNext PROVE TicketMoves
  OBVIOUS
<1>1. ASSUME NEW t \in Tickets, createTicket(t)
      PROVE  TicketMoves
  <2> DEFINE row == [ticket[t] EXCEPT !.status = "PENDING_ADMIN_APPROVAL"]
  <2>1. /\ active /\ ticket[t].status = "ABSENT" /\ SetTicket(t, row) /\ Consistent(row)
        /\ ticket[t] \in Ticket /\ Good(ticket[t])
    BY <1>1 DEF createTicket, SetTicket, TInv, TicketsTypeOK, Rows
  <2>2. Follows(row, ticket[t])
    BY <2>1, RowOfCreation
  <2> QED
    BY <2>1, <2>2, OneRowMoves
<1>2. ASSUME NEW r \in Requests, NEW t \in Tickets, addAttachment(r, t)
      PROVE  TicketMoves
  <2>1. CASE UNCHANGED ticket
    BY <2>1 DEF TInv, TicketsTypeOK, TicketMoves
  <2>2. CASE ~UNCHANGED ticket
    <3> DEFINE q == request[r]
               row == [ticket[t] EXCEPT !.photos = @ + 1]
    <3>1. /\ Writing(r, "photo") /\ q.ticket = t /\ SetTicket(t, row)
      BY <1>2, <2>2 DEF addAttachment, Reads
    <3>2. /\ q \in Request /\ q # NULL /\ q.op = "photo" /\ WellAsked(q)
      BY <3>1 DEF Writing, TInv, TicketsTypeOK
    <3>3. /\ ticket[t] \in Ticket /\ Good(ticket[t]) /\ ticket[t].status # "ABSENT" /\ Consistent(row)
      BY <3>1, <3>2 DEF TInv, TicketsTypeOK, Rows, WellAsked, SetTicket
    <3>4. TRUE
      OBVIOUS
    <3>5. Follows(row, ticket[t])
      BY <3>1, <3>2, <3>3, <3>4, RowOfPhoto
    <3> QED
      BY <3>1, <3>3, <3>5, OneRowMoves
  <2> QED
    BY <2>1, <2>2
<1>3. ASSUME NEW r \in Requests, NEW t \in Tickets, rejectTicket(r, t)
      PROVE  TicketMoves
  <2>1. CASE UNCHANGED ticket
    BY <2>1 DEF TInv, TicketsTypeOK, TicketMoves
  <2>2. CASE ~UNCHANGED ticket
    <3> DEFINE q == request[r]
               row == [ticket[t] EXCEPT !.status = q.status, !.rejectedAt = TRUE]
    <3>1. /\ Writing(r, "reject") /\ q.ticket = t /\ SetTicket(t, row)
      BY <1>3, <2>2 DEF rejectTicket, Reads
    <3>2. /\ q \in Request /\ q # NULL /\ q.op = "reject" /\ WellAsked(q)
      BY <3>1 DEF Writing, TInv, TicketsTypeOK
    <3>3. /\ ticket[t] \in Ticket /\ Good(ticket[t]) /\ ticket[t].status # "ABSENT" /\ Consistent(row)
      BY <3>1, <3>2 DEF TInv, TicketsTypeOK, Rows, WellAsked, SetTicket
    <3>4. q.status \in Rejected
      BY <3>2, RequestFields
    <3>5. Follows(row, ticket[t])
      BY <3>1, <3>2, <3>3, <3>4, RowOfRejection
    <3> QED
      BY <3>1, <3>3, <3>5, OneRowMoves
  <2> QED
    BY <2>1, <2>2
<1>4. ASSUME NEW r \in Requests, NEW t \in Tickets, assignWorkshops(r, t)
      PROVE  TicketMoves
  <2>1. CASE UNCHANGED ticket
    BY <2>1 DEF TInv, TicketsTypeOK, TicketMoves
  <2>2. CASE ~UNCHANGED ticket
    <3> DEFINE q == request[r]
               row == [ticket[t] EXCEPT !.status = "AWAITING_QUOTES"]
    <3>1. /\ Writing(r, "assign") /\ q.ticket = t /\ SetTicket(t, row)
      BY <1>4, <2>2 DEF assignWorkshops, Reads
    <3>2. /\ q \in Request /\ q # NULL /\ q.op = "assign" /\ WellAsked(q)
      BY <3>1 DEF Writing, TInv, TicketsTypeOK
    <3>3. /\ ticket[t] \in Ticket /\ Good(ticket[t]) /\ ticket[t].status # "ABSENT" /\ Consistent(row)
      BY <3>1, <3>2 DEF TInv, TicketsTypeOK, Rows, WellAsked, SetTicket
    <3>4. TRUE
      OBVIOUS
    <3>5. Follows(row, ticket[t])
      BY <3>1, <3>2, <3>3, <3>4, RowOfAssignment
    <3> QED
      BY <3>1, <3>3, <3>5, OneRowMoves
  <2> QED
    BY <2>1, <2>2
<1>5. ASSUME NEW r \in Requests, NEW t \in Tickets, reassignWorkshops(r, t)
      PROVE  TicketMoves
  <2>1. CASE UNCHANGED ticket
    BY <2>1 DEF TInv, TicketsTypeOK, TicketMoves
  <2>2. CASE ~UNCHANGED ticket
    <3> DEFINE q == request[r]
               row == [ticket[t] EXCEPT !.selected = IF @ \in q.drop THEN NULL ELSE @,
                                      !.orphaned = @ \/ ticket[t].selected \in q.drop]
    <3>1. /\ Writing(r, "reassign") /\ q.ticket = t /\ SetTicket(t, row)
      BY <1>5, <2>2 DEF reassignWorkshops, Reads
    <3>2. /\ q \in Request /\ q # NULL /\ q.op = "reassign" /\ WellAsked(q)
      BY <3>1 DEF Writing, TInv, TicketsTypeOK
    <3>3. /\ ticket[t] \in Ticket /\ Good(ticket[t]) /\ ticket[t].status # "ABSENT" /\ Consistent(row)
      BY <3>1, <3>2 DEF TInv, TicketsTypeOK, Rows, WellAsked, SetTicket
    <3>4. q.drop \in SUBSET Workshops
      BY <3>2, RequestFields
    <3>5. Follows(row, ticket[t])
      BY <3>1, <3>2, <3>3, <3>4, RowOfReassignment
    <3> QED
      BY <3>1, <3>3, <3>5, OneRowMoves
  <2> QED
    BY <2>1, <2>2
<1>6. ASSUME NEW r \in Requests, NEW t \in Tickets, approveTicket(r, t)
      PROVE  TicketMoves
  <2>1. CASE UNCHANGED ticket
    BY <2>1 DEF TInv, TicketsTypeOK, TicketMoves
  <2>2. CASE ~UNCHANGED ticket
    <3> DEFINE q == request[r]
               row == [ticket[t] EXCEPT !.status = "APPROVED_FOR_REPAIR", !.selected = q.workshop,
                                      !.reserved = Append(@, q.amount)]
    <3>1. /\ Writing(r, "approve") /\ q.ticket = t /\ SetTicket(t, row) /\ ticket[t].status = "AWAITING_QUOTES"
      BY <1>6, <2>2 DEF approveTicket, Reads, Approvable
    <3>2. /\ q \in Request /\ q # NULL /\ q.op = "approve" /\ WellAsked(q)
      BY <3>1 DEF Writing, TInv, TicketsTypeOK
    <3>3. /\ ticket[t] \in Ticket /\ Good(ticket[t]) /\ ticket[t].status # "ABSENT" /\ Consistent(row)
      BY <3>1, <3>2 DEF TInv, TicketsTypeOK, Rows, WellAsked, SetTicket
    <3>4. q.workshop \in Workshops /\ q.amount \in Amounts
      BY <3>2, RequestFields
    <3>5. Follows(row, ticket[t])
      BY <3>1, <3>2, <3>3, <3>4, RowOfApproval
    <3> QED
      BY <3>1, <3>3, <3>5, OneRowMoves
  <2> QED
    BY <2>1, <2>2
<1>7. ASSUME NEW r \in Requests, NEW t \in Tickets, startRepair(r, t)
      PROVE  TicketMoves
  <2>1. CASE UNCHANGED ticket
    BY <2>1 DEF TInv, TicketsTypeOK, TicketMoves
  <2>2. CASE ~UNCHANGED ticket
    <3> DEFINE q == request[r]
               row == [ticket[t] EXCEPT !.status = "IN_REPAIR", !.startedAt = TRUE]
    <3>1. /\ Writing(r, "start") /\ q.ticket = t /\ SetTicket(t, row)
      BY <1>7, <2>2 DEF startRepair, Reads
    <3>2. /\ q \in Request /\ q # NULL /\ q.op = "start" /\ WellAsked(q)
      BY <3>1 DEF Writing, TInv, TicketsTypeOK
    <3>3. /\ ticket[t] \in Ticket /\ Good(ticket[t]) /\ ticket[t].status # "ABSENT" /\ Consistent(row)
      BY <3>1, <3>2 DEF TInv, TicketsTypeOK, Rows, WellAsked, SetTicket
    <3>4. ticket[t].orphaned \/ ticket[t].status \in Approved
      BY <3>1, <3>2 DEF WellAsked
    <3>5. Follows(row, ticket[t])
      BY <3>1, <3>2, <3>3, <3>4, RowOfStart
    <3> QED
      BY <3>1, <3>3, <3>5, OneRowMoves
  <2> QED
    BY <2>1, <2>2
<1>8. ASSUME NEW r \in Requests, NEW t \in Tickets, completeRepair(r, t)
      PROVE  TicketMoves
  <2>1. CASE UNCHANGED ticket
    BY <2>1 DEF TInv, TicketsTypeOK, TicketMoves
  <2>2. CASE ~UNCHANGED ticket
    <3> DEFINE q == request[r]
               row == [ticket[t] EXCEPT !.status = "COMPLETED", !.completedAt = TRUE,
                                      !.records = Append(@, q.cost)]
    <3>1. /\ Writing(r, "complete") /\ q.ticket = t /\ SetTicket(t, row) /\ ticket[t].status = "IN_REPAIR"
      BY <1>8, <2>2 DEF completeRepair, Reads, Completable
    <3>2. /\ q \in Request /\ q # NULL /\ q.op = "complete" /\ WellAsked(q)
      BY <3>1 DEF Writing, TInv, TicketsTypeOK
    <3>3. /\ ticket[t] \in Ticket /\ Good(ticket[t]) /\ ticket[t].status # "ABSENT" /\ Consistent(row)
      BY <3>1, <3>2 DEF TInv, TicketsTypeOK, Rows, WellAsked, SetTicket
    <3>4. q.cost \in Amounts
      BY <3>2, RequestFields
    <3>5. Follows(row, ticket[t])
      BY <3>1, <3>2, <3>3, <3>4, RowOfCompletion
    <3> QED
      BY <3>1, <3>3, <3>5, OneRowMoves
  <2> QED
    BY <2>1, <2>2
<1>9. CASE UNCHANGED ticket
  BY <1>9 DEF TInv, TicketsTypeOK, TicketMoves
<1> QED
  BY <1>1, <1>2, <1>3, <1>4, <1>5, <1>6, <1>7, <1>8, <1>9
     DEF TicketsNext, submitQuote, declineQuote, fail, deactivateVehicle, Reads

WillHaveAmount(t, w) == w \in Workshops /\ quote'[t][w] # NULL /\ quote'[t][w].amount \in Amounts

QuoteKept(t, w) ==
  /\ quote[t][w] # NULL => quote'[t][w] # NULL
  /\ HasAmount(t, w) => WillHaveAmount(t, w)

(* A handler that has just read is well asked, another one is as it was or over. *)
RequestsMove ==
  /\ request' \in [Requests -> Request \cup {NULL}]
  /\ \A s \in Requests :
       \/ request'[s] = NULL
       \/ request'[s] = request[s]
       \/ UNCHANGED <<ticket, quote>> /\ \E what \in Request : WellAsked(what) /\ request'[s] = what

MoneyMoves == active' \in BOOLEAN /\ balance' \in Nat \cup {NULL}

(* A ticket keeps the workshop it selected or takes one whose quote is there. *)
SelectedMoves ==
  \A t \in Tickets : \/ ticket'[t].selected \in {NULL, ticket[t].selected}
                     \/ WillHaveAmount(t, ticket'[t].selected)

LEMMA WellAskedStays ==
  ASSUME TInv, TicketMoves, NEW q \in Request, WellAsked(q),
         q.op \in {"approve", "submit", "decline"} => QuoteKept(q.ticket, q.workshop)
  PROVE  WellAsked(q)'
<1>1. q.ticket \in Tickets
  BY RequestFields, TicketsAssumption DEF Request
<1>2. \/ ticket'[q.ticket] = ticket[q.ticket]
      \/ Follows(ticket'[q.ticket], ticket[q.ticket])
  BY <1>1 DEF TicketMoves
<1>3. ticket'[q.ticket].status # "ABSENT"
  BY <1>2 DEF WellAsked, Follows
<1>4. q.op = "start" => ticket'[q.ticket].orphaned \/ ticket'[q.ticket].status \in Approved
  BY <1>2 DEF WellAsked, Follows
<1>5. /\ q.op \in {"submit", "decline"} => quote'[q.ticket][q.workshop] # NULL
      /\ q.op = "approve" => HasAmount(q.ticket, q.workshop)'
  BY DEF WellAsked, QuoteKept, HasAmount, WillHaveAmount
<1> QED
  BY <1>3, <1>4, <1>5 DEF WellAsked

LEMMA AllKept ==
  ASSUME TInv, TicketMoves, RequestsMove, MoneyMoves, SelectedMoves,
         quote' \in [Tickets -> [Workshops -> Quote \cup {NULL}]],
         \A t \in Tickets, w \in Workshops : QuoteKept(t, w)
  PROVE  TInv'
<1>1. TicketsTypeOK'
  BY DEF TicketsTypeOK, TicketMoves, RequestsMove, MoneyMoves
<1>2. Rows'
  BY DEF Rows, TicketMoves, Follows, TInv
<1>3. ASSUME NEW t \in Tickets, ticket'[t].selected # NULL
      PROVE  WillHaveAmount(t, ticket'[t].selected)
  <2>1. CASE ticket'[t].selected = ticket[t].selected
    <3>1. PICK w : w = ticket[t].selected
      OBVIOUS
    <3>2. HasAmount(t, w)
      BY <1>3, <2>1, <3>1 DEF TInv, Won
    <3>3. QuoteKept(t, w)
      BY <3>2 DEF HasAmount
    <3>4. WillHaveAmount(t, w)
      BY <3>2, <3>3 DEF QuoteKept
    <3> QED
      BY <2>1, <3>1, <3>4
  <2>2. CASE ticket'[t].selected # ticket[t].selected
    BY <1>3, <2>2 DEF SelectedMoves
  <2> QED
    BY <2>1, <2>2
<1>4. ASSUME NEW s \in Requests, request'[s] # NULL
      PROVE  WellAsked(request[s])'
  <2>1. CASE request'[s] = request[s]
    <3>1. PICK q : q = request[s]
      OBVIOUS
    <3>2. q \in Request /\ WellAsked(q) /\ request'[s] = q
      BY <1>4, <2>1, <3>1 DEF TInv, TicketsTypeOK
    <3>3. q.op \in {"approve", "submit", "decline"} => QuoteKept(q.ticket, q.workshop)
      BY <3>2, RequestFields DEF Request
    <3>4. WellAsked(q)'
      BY <3>2, <3>3, WellAskedStays
    <3> QED
      BY <3>2, <3>4 DEF WellAsked, HasAmount
  <2>2. CASE UNCHANGED <<ticket, quote>> /\ \E what \in Request : WellAsked(what) /\ request'[s] = what
    BY <2>2 DEF WellAsked, HasAmount
  <2> QED
    BY <1>4, <2>1, <2>2 DEF RequestsMove
<1> QED
  BY <1>1, <1>2, <1>3, <1>4 DEF TInv, Won, HasAmount, WillHaveAmount

(* A handler reads something that is so and writes nothing yet. *)
LEMMA ReadKeeps ==
  ASSUME TInv, NEW r \in Requests, NEW what \in Request, WellAsked(what), Reads(r, what)
  PROVE  TInv'
<1>1. UNCHANGED <<active, balance, ticket, quote>>
  BY DEF Reads
<1>2. TicketMoves
  BY <1>1 DEF TicketMoves, TInv, TicketsTypeOK
<1>3. RequestsMove
  BY <1>1 DEF Reads, RequestsMove, TInv, TicketsTypeOK
<1>4. /\ MoneyMoves /\ SelectedMoves /\ quote' \in [Tickets -> [Workshops -> Quote \cup {NULL}]]
      /\ \A t \in Tickets, w \in Workshops : QuoteKept(t, w)
  BY <1>1
     DEF MoneyMoves, SelectedMoves, TInv, TicketsTypeOK, QuoteKept, HasAmount,
         WillHaveAmount
<1> QED
  BY <1>2, <1>3, <1>4, AllKept

LEMMA DoneMoves ==
  ASSUME TInv, NEW r \in Requests, Done(r)
  PROVE  RequestsMove
BY DEF TInv, TicketsTypeOK, Done, RequestsMove

(* A handler that writes to its ticket alone is over, and selects nothing or a  *)
(* quote that is there.                                                         *)
LEMMA WriteKeeps ==
  ASSUME TInv, NEW r \in Requests, Done(r), TicketMoves, MoneyMoves, UNCHANGED quote, SelectedMoves
  PROVE  TInv'
<1>1. /\ quote' \in [Tickets -> [Workshops -> Quote \cup {NULL}]]
      /\ \A t \in Tickets, w \in Workshops : QuoteKept(t, w)
  BY DEF TInv, TicketsTypeOK, QuoteKept, HasAmount, WillHaveAmount
<1> QED
  BY <1>1, DoneMoves, AllKept

(* A workshop changes its own quote. *)
LEMMA OneQuoteChanges ==
  ASSUME TInv, TicketsNext, NEW t \in Tickets, NEW w \in Workshops, NEW new \in Quote,
         quote' = [quote EXCEPT ![t] = [quote[t] EXCEPT ![w] = new]],
         quote[t][w].amount \in Amounts => new.amount \in Amounts,
         MoneyMoves, RequestsMove, SelectedMoves
  PROVE  TInv'
<1>1. quote' \in [Tickets -> [Workshops -> Quote \cup {NULL}]]
  BY DEF TInv, TicketsTypeOK
<1>2. ASSUME NEW u \in Tickets, NEW v \in Workshops
      PROVE  QuoteKept(u, v)
  <2>1. quote'[u][v] = quote[u][v] \/ (u = t /\ v = w /\ quote'[u][v] = new)
    BY DEF TInv, TicketsTypeOK
  <2>2. new # NULL
    BY NullAssumption
  <2> QED
    BY <2>1, <2>2 DEF QuoteKept, HasAmount, WillHaveAmount
<1> QED
  BY <1>1, <1>2, Moving, AllKept

(* Types, rows, quotes and requests together are kept by every step. *)
LEMMA InvariantStep == TInv /\ TicketsNext => TInv'
<1> SUFFICES ASSUME TInv, TicketsNext PROVE TInv'
  OBVIOUS
<1>1. ASSUME NEW t \in Tickets, createTicket(t)
      PROVE  TInv'
  <2>1. /\ MoneyMoves /\ RequestsMove
        /\ quote' \in [Tickets -> [Workshops -> Quote \cup {NULL}]]
    BY <1>1 DEF createTicket, MoneyMoves, RequestsMove, TInv, TicketsTypeOK
  <2>2. SelectedMoves
    BY <1>1 DEF createTicket, SelectedMoves, SetTicket, TInv, TicketsTypeOK, Ticket
  <2>3. \A u \in Tickets, w \in Workshops : QuoteKept(u, w)
    BY <1>1 DEF createTicket, QuoteKept, HasAmount, WillHaveAmount
  <2> QED
    BY <2>1, <2>2, <2>3, Moving, AllKept
<1>2. ASSUME NEW r \in Requests, NEW t \in Tickets, addAttachment(r, t)
      PROVE  TInv'
  <2>1. ASSUME ticket[t].status \in {"PENDING_ADMIN_APPROVAL", "AWAITING_QUOTES"},
               Reads(r, [op |-> "photo", ticket |-> t])
        PROVE  TInv'
    <3> DEFINE what == [op |-> "photo", ticket |-> t]
    <3>1. what \in Request
      BY <2>1 DEF Request, Rejected
    <3>2. WellAsked(what)
      BY <2>1 DEF WellAsked
    <3> QED
      BY <2>1, <3>1, <3>2, ReadKeeps
  <2>2. CASE /\ SetTicket(t, [ticket[t] EXCEPT !.photos = @ + 1])
            /\ Done(r)
            /\ UNCHANGED <<active, balance, quote>>
    <3>1. MoneyMoves
      BY <2>2 DEF MoneyMoves, TInv, TicketsTypeOK
    <3>2. SelectedMoves
      BY <2>2 DEF SelectedMoves, SetTicket, TInv, TicketsTypeOK, Ticket
    <3> QED
      BY <2>2, <3>1, <3>2, Moving, WriteKeeps
  <2> QED
    BY <1>2, <2>1, <2>2 DEF addAttachment
<1>3. ASSUME NEW r \in Requests, NEW t \in Tickets, rejectTicket(r, t)
      PROVE  TInv'
  <2>1. ASSUME ticket[t].status = "PENDING_ADMIN_APPROVAL",
               Reads(r, [op |-> "reject", ticket |-> t, status |-> "REJECTED_BY_ADMIN"])
        PROVE  TInv'
    <3> DEFINE what == [op |-> "reject", ticket |-> t, status |-> "REJECTED_BY_ADMIN"]
    <3>1. what \in Request
      BY <2>1 DEF Request, Rejected
    <3>2. WellAsked(what)
      BY <2>1 DEF WellAsked
    <3> QED
      BY <2>1, <3>1, <3>2, ReadKeeps
  <2>2. ASSUME ticket[t].status = "AWAITING_QUOTES",
               Reads(r, [op |-> "reject", ticket |-> t, status |-> "REJECTED_FINAL"])
        PROVE  TInv'
    <3> DEFINE what == [op |-> "reject", ticket |-> t, status |-> "REJECTED_FINAL"]
    <3>1. what \in Request
      BY <2>2 DEF Request, Rejected
    <3>2. WellAsked(what)
      BY <2>2 DEF WellAsked
    <3> QED
      BY <2>2, <3>1, <3>2, ReadKeeps
  <2>3. CASE /\ SetTicket(t, [ticket[t] EXCEPT !.status = request[r].status, !.rejectedAt = TRUE])
            /\ Done(r)
            /\ UNCHANGED <<active, balance, quote>>
    <3>1. MoneyMoves
      BY <2>3 DEF MoneyMoves, TInv, TicketsTypeOK
    <3>2. SelectedMoves
      BY <2>3 DEF SelectedMoves, SetTicket, TInv, TicketsTypeOK, Ticket
    <3> QED
      BY <2>3, <3>1, <3>2, Moving, WriteKeeps
  <2> QED
    BY <1>3, <2>1, <2>2, <2>3 DEF rejectTicket
<1>4. ASSUME NEW r \in Requests, NEW t \in Tickets, startRepair(r, t)
      PROVE  TInv'
  <2>1. ASSUME ticket[t].status = "APPROVED_FOR_REPAIR",
               Reads(r, [op |-> "start", ticket |-> t])
        PROVE  TInv'
    <3> DEFINE what == [op |-> "start", ticket |-> t]
    <3>1. what \in Request
      BY <2>1 DEF Request, Rejected
    <3>2. WellAsked(what)
      BY <2>1 DEF WellAsked, Approved
    <3> QED
      BY <2>1, <3>1, <3>2, ReadKeeps
  <2>2. CASE /\ SetTicket(t, [ticket[t] EXCEPT !.status = "IN_REPAIR", !.startedAt = TRUE])
            /\ Done(r)
            /\ UNCHANGED <<active, balance, quote>>
    <3>1. MoneyMoves
      BY <2>2 DEF MoneyMoves, TInv, TicketsTypeOK
    <3>2. SelectedMoves
      BY <2>2 DEF SelectedMoves, SetTicket, TInv, TicketsTypeOK, Ticket
    <3> QED
      BY <2>2, <3>1, <3>2, Moving, WriteKeeps
  <2> QED
    BY <1>4, <2>1, <2>2 DEF startRepair
<1>5. ASSUME NEW r \in Requests, NEW t \in Tickets, completeRepair(r, t)
      PROVE  TInv'
  <2>1. ASSUME ticket[t].selected # NULL, ticket[t].status = "IN_REPAIR",
               Reads(r, [op |-> "complete", ticket |-> t, cost |-> quote[t][ticket[t].selected].amount])
        PROVE  TInv'
    <3> DEFINE what == [op |-> "complete", ticket |-> t, cost |-> quote[t][ticket[t].selected].amount]
    <3>0. quote[t][ticket[t].selected].amount \in Amounts
      BY <2>1 DEF TInv, Won, HasAmount
    <3>1. what \in Request
      BY <2>1, <3>0 DEF Request, Rejected
    <3>2. WellAsked(what)
      BY <2>1 DEF WellAsked
    <3> QED
      BY <2>1, <3>1, <3>2, ReadKeeps
  <2>2. CASE /\ SetTicket(t, [ticket[t] EXCEPT !.status = "COMPLETED", !.completedAt = TRUE,
                                              !.records = Append(@, request[r].cost)])
            /\ Done(r)
            /\ UNCHANGED <<active, balance, quote>>
    <3>1. MoneyMoves
      BY <2>2 DEF MoneyMoves, TInv, TicketsTypeOK
    <3>2. SelectedMoves
      BY <2>2 DEF SelectedMoves, SetTicket, TInv, TicketsTypeOK, Ticket
    <3> QED
      BY <2>2, <3>1, <3>2, Moving, WriteKeeps
  <2> QED
    BY <1>5, <2>1, <2>2 DEF completeRepair
<1>6. ASSUME NEW r \in Requests, NEW t \in Tickets, approveTicket(r, t)
      PROVE  TInv'
  <2>1. ASSUME NEW w \in Invites(t), ticket[t].status = "AWAITING_QUOTES", quote[t][w].amount # NULL,
               Reads(r, [op |-> "approve", ticket |-> t, workshop |-> w, amount |-> quote[t][w].amount])
        PROVE  TInv'
    <3> DEFINE what == [op |-> "approve", ticket |-> t, workshop |-> w, amount |-> quote[t][w].amount]
    <3>1. w \in Workshops /\ quote[t][w] # NULL /\ quote[t][w].amount \in Amounts
      BY <2>1 DEF Invites, TInv, TicketsTypeOK, Quote
    <3>2. what \in Request
      BY <3>1 DEF Request
    <3>3. WellAsked(what)
      BY <2>1, <3>1 DEF WellAsked, HasAmount
    <3> QED
      BY <2>1, <3>2, <3>3, ReadKeeps
  <2>2. CASE /\ Writing(r, "approve") /\ request[r].ticket = t
            /\ Covers(request[r].amount)
            /\ balance' = balance - request[r].amount
            /\ SetTicket(t, [ticket[t] EXCEPT !.status = "APPROVED_FOR_REPAIR",
                                              !.selected = request[r].workshop,
                                              !.reserved = Append(@, request[r].amount)])
            /\ Done(r)
            /\ UNCHANGED <<active, quote>>
    <3>1. PICK q : q = request[r]
      OBVIOUS
    <3>2. q \in Request /\ q.op = "approve" /\ q.ticket = t /\ WellAsked(q)
      BY <2>2, <3>1 DEF Writing, TInv, TicketsTypeOK
    <3>3. q.amount \in Amounts /\ HasAmount(t, q.workshop)
      BY <3>2, RequestFields DEF WellAsked
    <3>4. MoneyMoves
      <4>1. balance \in Nat /\ q.amount \in Nat /\ q.amount <= balance
        BY <2>2, <3>1, <3>3, NullIsApart DEF Covers, TInv, TicketsTypeOK
      <4> QED
        BY <2>2, <3>1, <4>1 DEF MoneyMoves, TInv, TicketsTypeOK
    <3>5. WillHaveAmount(t, q.workshop)
      BY <2>2, <3>3 DEF HasAmount, WillHaveAmount
    <3>6. /\ ticket'[t].selected = q.workshop
          /\ \A u \in Tickets : u # t => ticket'[u] = ticket[u]
      BY <2>2, <3>1 DEF SetTicket, TInv, TicketsTypeOK, Ticket
    <3>7. SelectedMoves
      BY <3>5, <3>6 DEF SelectedMoves
    <3> QED
      BY <2>2, <3>4, <3>7, Moving, WriteKeeps
  <2> QED
    BY <1>6, <2>1, <2>2 DEF approveTicket
<1>7. ASSUME NEW r \in Requests, NEW t \in Tickets, assignWorkshops(r, t)
      PROVE  TInv'
  <2>1. ASSUME ticket[t].status = "PENDING_ADMIN_APPROVAL", NEW W \in Selections,
               Reads(r, [op |-> "assign", ticket |-> t, add |-> W])
        PROVE  TInv'
    <3> DEFINE what == [op |-> "assign", ticket |-> t, add |-> W]
    <3>1. what \in Request
      BY DEF Request, Selections
    <3>2. WellAsked(what)
      BY <2>1 DEF WellAsked
    <3> QED
      BY <2>1, <3>1, <3>2, ReadKeeps
  <2>2. CASE /\ Writing(r, "assign") /\ request[r].ticket = t
            /\ request[r].add \cap Invites(t) = {}
            /\ quote' = [quote EXCEPT ![t] = [w \in Workshops |->
                           IF w \in request[r].add THEN Invited ELSE @[w]]]
            /\ SetTicket(t, [ticket[t] EXCEPT !.status = "AWAITING_QUOTES"])
            /\ Done(r)
            /\ UNCHANGED <<active, balance>>
    <3>1. /\ MoneyMoves /\ RequestsMove
      BY <2>2, DoneMoves DEF MoneyMoves, TInv, TicketsTypeOK
    <3>2. /\ SelectedMoves
      BY <2>2 DEF SelectedMoves, SetTicket, TInv, TicketsTypeOK, Ticket
    <3>3. quote' \in [Tickets -> [Workshops -> Quote \cup {NULL}]]
      BY <2>2 DEF TInv, TicketsTypeOK, Invited, Quote
    <3>4. ASSUME NEW u \in Tickets, NEW w \in Workshops
          PROVE  QuoteKept(u, w)
      <4>1. quote[u][w] # NULL => quote'[u][w] = quote[u][w]
        BY <2>2 DEF TInv, TicketsTypeOK, Invites
      <4> QED
        BY <4>1 DEF QuoteKept, HasAmount, WillHaveAmount
    <3> QED
      BY <3>1, <3>2, <3>3, <3>4, Moving, AllKept
  <2> QED
    BY <1>7, <2>1, <2>2 DEF assignWorkshops
<1>8. ASSUME NEW r \in Requests, NEW t \in Tickets, NEW w \in Workshops, submitQuote(r, t, w)
      PROVE  TInv'
  <2>1. ASSUME quote[t][w] # NULL, ticket[t].status = "AWAITING_QUOTES", NEW amount \in Amounts,
               Reads(r, [op |-> "submit", ticket |-> t, workshop |-> w, amount |-> amount])
        PROVE  TInv'
    <3> DEFINE what == [op |-> "submit", ticket |-> t, workshop |-> w, amount |-> amount]
    <3>1. what \in Request
      BY DEF Request
    <3>2. WellAsked(what)
      BY <2>1 DEF WellAsked
    <3> QED
      BY <2>1, <3>1, <3>2, ReadKeeps
  <2>2. CASE /\ Writing(r, "submit") /\ request[r].ticket = t /\ request[r].workshop = w
            /\ quote' = [quote EXCEPT ![t][w].amount = request[r].amount]
            /\ Done(r)
            /\ UNCHANGED <<active, balance, ticket>>
    <3>1. /\ MoneyMoves /\ RequestsMove /\ SelectedMoves
      BY <2>2, DoneMoves DEF MoneyMoves, SelectedMoves, TInv, TicketsTypeOK
    <3>2. PICK q : q = request[r]
      OBVIOUS
    <3>3. /\ q \in Request /\ q.op = "submit" /\ q.ticket = t /\ q.workshop = w /\ WellAsked(q)
      BY <2>2, <3>2 DEF Writing, TInv, TicketsTypeOK
    <3>4. quote[t][w] \in Quote /\ quote[t][w] # NULL /\ q.amount \in Amounts
      BY <3>3, RequestFields DEF WellAsked, TInv, TicketsTypeOK
    <3> DEFINE new == [quote[t][w] EXCEPT !.amount = q.amount]
    <3>5. new \in Quote /\ new.amount = q.amount
      BY <3>4 DEF Quote
    <3>6. quote' = [quote EXCEPT ![t] = [quote[t] EXCEPT ![w] = new]]
      BY <2>2, <3>2
    <3>7. quote[t][w].amount \in Amounts => new.amount \in Amounts
      BY <3>4, <3>5
    <3> HIDE DEF new
    <3> QED
      BY <3>1, <3>5, <3>6, <3>7, OneQuoteChanges
  <2> QED
    BY <1>8, <2>1, <2>2 DEF submitQuote
<1>9. ASSUME NEW r \in Requests, NEW t \in Tickets, NEW w \in Workshops, declineQuote(r, t, w)
      PROVE  TInv'
  <2>1. ASSUME quote[t][w] # NULL, ticket[t].status = "AWAITING_QUOTES",
               Reads(r, [op |-> "decline", ticket |-> t, workshop |-> w])
        PROVE  TInv'
    <3> DEFINE what == [op |-> "decline", ticket |-> t, workshop |-> w]
    <3>1. what \in Request
      BY DEF Request
    <3>2. WellAsked(what)
      BY <2>1 DEF WellAsked
    <3> QED
      BY <2>1, <3>1, <3>2, ReadKeeps
  <2>2. CASE /\ Writing(r, "decline") /\ request[r].ticket = t /\ request[r].workshop = w
            /\ quote' = [quote EXCEPT ![t][w].declined = TRUE]
            /\ Done(r)
            /\ UNCHANGED <<active, balance, ticket>>
    <3>1. /\ MoneyMoves /\ RequestsMove /\ SelectedMoves
      BY <2>2, DoneMoves DEF MoneyMoves, SelectedMoves, TInv, TicketsTypeOK
    <3>2. PICK q : q = request[r]
      OBVIOUS
    <3>3. /\ q \in Request /\ q.op = "decline" /\ q.ticket = t /\ q.workshop = w /\ WellAsked(q)
      BY <2>2, <3>2 DEF Writing, TInv, TicketsTypeOK
    <3>4. quote[t][w] \in Quote /\ quote[t][w] # NULL
      BY <3>3 DEF WellAsked, TInv, TicketsTypeOK
    <3> DEFINE new == [quote[t][w] EXCEPT !.declined = TRUE]
    <3>5. new \in Quote /\ new.amount = quote[t][w].amount
      BY <3>4 DEF Quote
    <3>6. quote' = [quote EXCEPT ![t] = [quote[t] EXCEPT ![w] = new]]
      BY <2>2
    <3>7. quote[t][w].amount \in Amounts => new.amount \in Amounts
      BY <3>5
    <3> HIDE DEF new
    <3> QED
      BY <3>1, <3>5, <3>6, <3>7, OneQuoteChanges
  <2> QED
    BY <1>9, <2>1, <2>2 DEF declineQuote
<1>10. ASSUME NEW r \in Requests, NEW t \in Tickets, reassignWorkshops(r, t)
       PROVE  TInv'
  <2>1. ASSUME ticket[t].status = "AWAITING_QUOTES", NEW W \in Selections,
               Reads(r, [op |-> "reassign", ticket |-> t, add |-> W \ Invites(t), drop |-> Invites(t) \ W])
        PROVE  TInv'
    <3> DEFINE what == [op |-> "reassign", ticket |-> t, add |-> W \ Invites(t), drop |-> Invites(t) \ W]
    <3>1. what \in Request
      BY DEF Request, Selections, Invites
    <3>2. WellAsked(what)
      BY <2>1 DEF WellAsked
    <3> QED
      BY <2>1, <3>1, <3>2, ReadKeeps
  <2>2. CASE /\ Writing(r, "reassign") /\ request[r].ticket = t
            /\ request[r].add \cap Invites(t) = {}
            /\ quote' = [quote EXCEPT ![t] = [w \in Workshops |->
                           IF w \in request[r].drop THEN NULL
                           ELSE IF w \in request[r].add THEN Invited ELSE @[w]]]
            /\ SetTicket(t, [ticket[t] EXCEPT !.selected = IF @ \in request[r].drop THEN NULL ELSE @,
                                              !.orphaned = @ \/ ticket[t].selected \in request[r].drop])
            /\ request' = [s \in Requests |->
                             IF s = r \/ HoldsQuote(request[s], t, request[r].drop) THEN NULL
                             ELSE request[s]]
            /\ UNCHANGED <<active, balance>>
    <3> DEFINE drop == request[r].drop
    <3>1. MoneyMoves /\ TicketMoves
      BY <2>2, Moving DEF MoneyMoves, TInv, TicketsTypeOK
    <3>2. quote' \in [Tickets -> [Workshops -> Quote \cup {NULL}]]
      BY <2>2 DEF TInv, TicketsTypeOK, Invited, Quote
    <3>3. ASSUME NEW u \in Tickets, NEW w \in Workshops, ~(u = t /\ w \in drop)
          PROVE  QuoteKept(u, w)
      <4>1. quote[u][w] # NULL => quote'[u][w] = quote[u][w]
        BY <2>2, <3>3 DEF TInv, TicketsTypeOK, Invites
      <4> QED
        BY <4>1 DEF QuoteKept, HasAmount, WillHaveAmount
    <3>4. TicketsTypeOK' /\ Rows'
      BY <2>2, <3>1, <3>2 DEF TInv, TicketsTypeOK, Rows, TicketMoves, MoneyMoves, Follows
    <3>5. ASSUME NEW u \in Tickets, ticket'[u].selected # NULL
          PROVE  WillHaveAmount(u, ticket'[u].selected)
      <4>1. PICK w : w = ticket[u].selected
        OBVIOUS
      <4>2. ticket'[u].selected = w /\ ~(u = t /\ w \in drop)
        BY <2>2, <3>5, <4>1 DEF SetTicket, TInv, TicketsTypeOK, Ticket
      <4>3. HasAmount(u, w)
        BY <3>5, <4>1, <4>2 DEF TInv, Won
      <4>4. WillHaveAmount(u, w)
        BY <3>3, <4>2, <4>3 DEF QuoteKept, HasAmount, WillHaveAmount
      <4> QED
        BY <4>2, <4>4
    <3>6. ASSUME NEW s \in Requests, request'[s] # NULL
          PROVE  WellAsked(request[s])'
      <4>1. PICK q : q = request[s]
        OBVIOUS
      <4>2. /\ q \in Request /\ q # NULL /\ WellAsked(q) /\ request'[s] = q /\ ~HoldsQuote(q, t, drop)
        BY <2>2, <3>6, <4>1 DEF TInv, TicketsTypeOK
      <4>3. q.op \in {"approve", "submit", "decline"} => QuoteKept(q.ticket, q.workshop)
        <5> SUFFICES ASSUME q.op \in {"approve", "submit", "decline"}
                     PROVE  QuoteKept(q.ticket, q.workshop)
          OBVIOUS
        <5>1. /\ q.ticket \in Tickets /\ q.workshop \in Workshops
              /\ ~(q.ticket = t /\ q.workshop \in drop)
          BY <4>2, RequestFields DEF HoldsQuote
        <5> QED
          BY <5>1, <3>3
      <4>4. WellAsked(q)'
        BY <3>1, <4>2, <4>3, WellAskedStays
      <4> QED
        BY <4>2, <4>4 DEF WellAsked, HasAmount
    <3> QED
      BY <3>4, <3>5, <3>6 DEF TInv, Won, HasAmount, WillHaveAmount
  <2> QED
    BY <1>10, <2>1, <2>2 DEF reassignWorkshops
<1>11. ASSUME NEW r \in Requests, fail(r)
       PROVE  TInv'
  <2>1. MoneyMoves /\ SelectedMoves /\ Done(r) /\ UNCHANGED quote
    BY <1>11 DEF fail, MoneyMoves, SelectedMoves, TInv, TicketsTypeOK
  <2> QED
    BY <2>1, Moving, WriteKeeps
<1>12. CASE deactivateVehicle
  <2>1. MoneyMoves /\ RequestsMove /\ SelectedMoves
    BY <1>12
       DEF deactivateVehicle, MoneyMoves, RequestsMove, SelectedMoves, TInv, TicketsTypeOK
  <2>2. /\ quote' \in [Tickets -> [Workshops -> Quote \cup {NULL}]]
        /\ \A u \in Tickets, w \in Workshops : QuoteKept(u, w)
    BY <1>12
       DEF deactivateVehicle, TInv, TicketsTypeOK, QuoteKept, HasAmount, WillHaveAmount
  <2> QED
    BY <2>1, <2>2, Moving, AllKept
<1> QED
  BY <1>1, <1>2, <1>3, <1>4, <1>5, <1>6, <1>7, <1>8, <1>9, <1>10, <1>11, <1>12
     DEF TicketsNext

LEMMA InvariantInit == TicketsInit => TInv
<1> SUFFICES ASSUME TicketsInit PROVE TInv
  OBVIOUS
<1>1. NewTicket \in Ticket /\ Good(NewTicket) /\ NewTicket.selected = NULL
  <2>1. NewTicket \in Ticket
    BY DEF NewTicket, Ticket, Status, Approved, Rejected
  <2>2. Len(NewTicket.records) = 0 /\ Len(NewTicket.reserved) = 0
    BY DEF NewTicket
  <2>3. Good(NewTicket)
    BY <2>2 DEF NewTicket, Good, Consistent, Paid, Approved, Rejected
  <2> QED
    BY <2>1, <2>3 DEF NewTicket
<1>2. \A t \in Tickets : ticket[t] = NewTicket
  BY DEF TicketsInit
<1>3. TicketsTypeOK
  BY <1>1, TicketsAssumption DEF TicketsInit, TicketsTypeOK
<1> QED
  BY <1>1, <1>2, <1>3 DEF TInv, Rows, Won, TicketsInit

LEMMA InvariantHolds == TicketsSpec => []TInv
<1>1. TInv /\ UNCHANGED ticketVars => TInv'
  <2> SUFFICES ASSUME TInv, UNCHANGED ticketVars PROVE TInv'
    OBVIOUS
  <2>1. UNCHANGED <<active, balance, ticket, quote, request>>
    BY DEF ticketVars
  <2>2. TicketsTypeOK'
    BY <2>1 DEF TInv, TicketsTypeOK
  <2> QED
    BY <2>1, <2>2 DEF TInv, Rows, Won, WellAsked, HasAmount
<1> QED
  BY <1>1, InvariantInit, InvariantStep, PTL DEF TicketsSpec

-----------------------------------------------------------------------------
(* Theorems *)

(* Tables and requests hold what they may, and an approval never overdraws    *)
(* the maintenance budget (reserveMaintenanceBudget).                         *)
THEOREM TicketsTypeCorrect == TicketsSpec => []TicketsTypeOK
BY InvariantHolds, PTL DEF TInv

(* A ticket reserves its budget once, and is completed into one maintenance   *)
(* record, in every interleaving of the handlers of createFlow, quoteFlow and *)
(* approveFlow.                                                              *)
THEOREM TicketsArePaidOnce == TicketsSpec => []PaidOnce
<1>1. TInv => PaidOnce
  BY DEF TInv, Rows, Good, Paid, PaidOnce
<1> QED
  BY <1>1, InvariantHolds, PTL

(* deactivateVehicle removes a vehicle without open tickets, and none is      *)
(* created or opened again afterwards, not even by a request that read its    *)
(* ticket before.                                                             *)
THEOREM RemovedVehicleHasNoOpenTicket == TicketsSpec => []InactiveHasNoOpenTicket
<1>1. TicketsInit => InactiveHasNoOpenTicket
  BY DEF TicketsInit, InactiveHasNoOpenTicket
<1>2. TInv /\ InactiveHasNoOpenTicket /\ [TicketsNext]_ticketVars => InactiveHasNoOpenTicket'
  <2> SUFFICES ASSUME TInv, InactiveHasNoOpenTicket, TicketsNext PROVE InactiveHasNoOpenTicket'
    BY DEF ticketVars, InactiveHasNoOpenTicket
  <2>1. CASE deactivateVehicle
    BY <2>1
       DEF deactivateVehicle, InactiveHasNoOpenTicket, TInv, TicketsTypeOK, Ticket, Status,
                NON_TERMINAL_TICKET_STATUSES, Approved
  <2>2. CASE ~deactivateVehicle
    <3>1. UNCHANGED active
      <4>1. ASSUME NEW t \in Tickets, createTicket(t)
            PROVE  UNCHANGED active
        BY <4>1 DEF createTicket, Reads
      <4>2. ASSUME NEW r \in Requests, NEW t \in Tickets, addAttachment(r, t)
            PROVE  UNCHANGED active
        BY <4>2 DEF addAttachment, Reads
      <4>3. ASSUME NEW r \in Requests, NEW t \in Tickets, rejectTicket(r, t)
            PROVE  UNCHANGED active
        BY <4>3 DEF rejectTicket, Reads
      <4>4. ASSUME NEW r \in Requests, NEW t \in Tickets, assignWorkshops(r, t)
            PROVE  UNCHANGED active
        BY <4>4 DEF assignWorkshops, Reads
      <4>5. ASSUME NEW r \in Requests, NEW t \in Tickets, reassignWorkshops(r, t)
            PROVE  UNCHANGED active
        BY <4>5 DEF reassignWorkshops, Reads
      <4>6. ASSUME NEW r \in Requests, NEW t \in Tickets, approveTicket(r, t)
            PROVE  UNCHANGED active
        BY <4>6 DEF approveTicket, Reads
      <4>7. ASSUME NEW r \in Requests, NEW t \in Tickets, startRepair(r, t)
            PROVE  UNCHANGED active
        BY <4>7 DEF startRepair, Reads
      <4>8. ASSUME NEW r \in Requests, NEW t \in Tickets, completeRepair(r, t)
            PROVE  UNCHANGED active
        BY <4>8 DEF completeRepair, Reads
      <4>9. ASSUME NEW r \in Requests, NEW t \in Tickets, NEW w \in Workshops, submitQuote(r, t, w)
            PROVE  UNCHANGED active
        BY <4>9 DEF submitQuote, Reads
      <4>10. ASSUME NEW r \in Requests, NEW t \in Tickets, NEW w \in Workshops, declineQuote(r, t, w)
            PROVE  UNCHANGED active
        BY <4>10 DEF declineQuote, Reads
      <4>11. ASSUME NEW r \in Requests, fail(r)
            PROVE  UNCHANGED active
        BY <4>11 DEF fail, Reads
      <4> QED
        BY <2>2, <4>1, <4>2, <4>3, <4>4, <4>5, <4>6, <4>7, <4>8, <4>9, <4>10, <4>11
           DEF TicketsNext
    <3> SUFFICES ASSUME ~active, NEW t \in Tickets
                 PROVE  ticket'[t].status \in {"ABSENT"} \cup Closed
      BY <3>1 DEF InactiveHasNoOpenTicket, Closed
    <3>2. ticket[t].status \in {"ABSENT"} \cup Closed
      BY DEF InactiveHasNoOpenTicket, Closed
    <3> QED
      BY <3>2, Moving DEF TicketMoves, Follows
  <2> QED
    BY <2>1, <2>2
<1> QED
  BY <1>1, <1>2, InvariantHolds, PTL DEF TicketsSpec

-----------------------------------------------------------------------------
(* The monthly reports.  Queue, outbox and dispatchers appear in none of the *)
(* invariants: whatever they hand out, and how often, the rows and the files *)
(* stay right.                                                               *)

-----------------------------------------------------------------------------
(* Types of the rows, the files and the workers *)

HasToken(w) == worker[w].pc \notin {"idle", "claim"}

Typed ==
  /\ report \in [Reports -> Report]
  /\ worker \in [Workers -> Worker]
  /\ runs \in Nat
  /\ files \subseteq Tokens /\ unconfirmed \subseteq Tokens
  /\ \A w \in Workers : worker[w].pc # "idle" => worker[w].report \in Reports
  /\ \A w \in Workers : HasToken(w) => worker[w].token \in Tokens
  /\ \A r \in Reports : report[r].artifacts \in Tokens \cup {None}

LEMMA NoneIsNoToken == None \notin Nat
BY ReportJobsAssumption

(* What a step does to the rows and the workers, with the queue left out. *)

(* The row of r becomes row. *)
Writes(r, row) ==
  /\ r \in Reports /\ row \in Report /\ row.artifacts \in Tokens' \cup {None}
  /\ report' = [report EXCEPT ![r] = row]

(* Worker w goes on as v; nobody else moves. *)
Moves(w, v) ==
  /\ v \in Worker
  /\ v.pc # "idle" => v.report \in Reports
  /\ v.pc \notin {"idle", "claim"} => v.token \in Tokens'
  /\ worker' = [worker EXCEPT ![w] = v]

LEMMA TypedAfterStep ==
  ASSUME Typed,
         \/ UNCHANGED report
         \/ \E r, row : Writes(r, row),
         \/ UNCHANGED worker
         \/ \E w \in Workers : \E v : Moves(w, v),
         runs' \in Nat, runs <= runs',
         files' \subseteq Tokens', unconfirmed' \subseteq Tokens'
  PROVE  Typed'
<1>1. Tokens \subseteq Tokens'
  BY DEF Tokens, Typed
<1> DEFINE RowsTyped == /\ report' \in [Reports -> Report]
                        /\ \A r \in Reports : report'[r].artifacts \in Tokens' \cup {None}
           WorkersTyped ==
             /\ worker' \in [Workers -> Worker]
             /\ \A w \in Workers : worker'[w].pc # "idle" => worker'[w].report \in Reports
             /\ \A w \in Workers : HasToken(w)' => worker'[w].token \in Tokens'
<1>2. RowsTyped
  <2>1. CASE UNCHANGED report
    BY <1>1, <2>1 DEF Typed
  <2>2. ASSUME NEW r, NEW row, Writes(r, row)
        PROVE  RowsTyped
    BY <1>1, <2>2 DEF Typed, Writes
  <2> QED
    BY <2>1, <2>2
<1>3. WorkersTyped
  <2>1. CASE UNCHANGED worker
    BY <1>1, <2>1 DEF Typed, HasToken
  <2>2. ASSUME NEW w \in Workers, NEW v, Moves(w, v)
        PROVE  WorkersTyped
    BY <1>1, <2>2 DEF Typed, HasToken, Moves
  <2> QED
    BY <2>1, <2>2
<1> QED
  BY <1>2, <1>3 DEF Typed

(* What a worker that has a token may be doing. *)
Attempting == {"generate", "commit", "committed", "cleanup", "close"}

LEMMA RestingIsWorker == Resting \in Worker /\ Resting.pc = "idle"
BY DEF Resting, Worker

(* A worker that rests, or goes on with the same report and token. *)
LEMMA WorkerRests ==
  ASSUME NEW w \in Workers, worker' = [worker EXCEPT ![w] = Resting]
  PROVE  \E v : Moves(w, v)
<1>1. Moves(w, Resting)
  BY RestingIsWorker DEF Moves
<1> QED
  BY <1>1

LEMMA WorkerGoesOn ==
  ASSUME Typed, NEW w \in Workers, HasToken(w), runs' \in Nat, runs <= runs',
         NEW pc \in Attempting,
         worker' = [worker EXCEPT ![w].pc = pc]
  PROVE  \E v : Moves(w, v)
<1>1. worker[w] \in Worker /\ worker[w].report \in Reports /\ worker[w].token \in Tokens'
  BY DEF Typed, HasToken, Tokens
<1> DEFINE v == [worker[w] EXCEPT !.pc = pc]
<1>2. v \in Worker /\ v.pc = pc /\ v.report = worker[w].report /\ v.token = worker[w].token
  BY <1>1 DEF Worker, Attempting
<1>3. worker' = [worker EXCEPT ![w] = v]
  OBVIOUS
<1> HIDE DEF v
<1>4. Moves(w, v)
  BY <1>1, <1>2, <1>3 DEF Moves
<1> QED
  BY <1>4

LEMMA WorkerClaims ==
  ASSUME Typed, NEW w \in Workers, worker[w].pc = "claim", runs' = runs + 1,
         worker' = [worker EXCEPT ![w].pc = "generate", ![w].token = runs + 1]
  PROVE  \E v : Moves(w, v)
<1> DEFINE t == runs + 1
           v == [worker[w] EXCEPT !.pc = "generate", !.token = t]
<1>1. worker[w] \in Worker /\ worker[w].report \in Reports /\ t \in Nat /\ t \in Tokens'
  BY DEF Typed, Tokens
<1>2. worker' = [worker EXCEPT ![w] = v]
  OBVIOUS
<1> HIDE DEF t
<1>3. v \in Worker /\ v.pc = "generate" /\ v.report = worker[w].report /\ v.token = t
  BY <1>1 DEF Worker
<1> HIDE DEF v
<1>4. Moves(w, v)
  BY <1>1, <1>2, <1>3 DEF Moves
<1> QED
  BY <1>4

LEMMA WorkerLosesLease ==
  ASSUME Typed, NEW w \in Workers, HasToken(w), runs' = runs,
         worker' = [worker EXCEPT ![w].leaseLost = TRUE]
  PROVE  \E v : Moves(w, v)
<1>1. worker[w] \in Worker /\ worker[w].report \in Reports /\ worker[w].token \in Tokens'
  BY DEF Typed, HasToken, Tokens
<1> DEFINE v == [worker[w] EXCEPT !.leaseLost = TRUE]
<1>2. v \in Worker /\ v.pc = worker[w].pc /\ v.report = worker[w].report /\ v.token = worker[w].token
  BY <1>1 DEF Worker, Attempting
<1>3. worker' = [worker EXCEPT ![w] = v]
  OBVIOUS
<1> HIDE DEF v
<1>4. Moves(w, v)
  BY <1>1, <1>2, <1>3 DEF Moves
<1> QED
  BY <1>4

(* The shapes in which a row is rewritten. *)
LEMMA RowUpdates ==
  ASSUME NEW row \in Report
  PROVE  /\ \A lease \in {"none", "held", "expired"} :
              /\ [row EXCEPT !.lease = lease] \in Report
              /\ [row EXCEPT !.lease = lease].status = row.status
              /\ [row EXCEPT !.lease = lease].artifacts = row.artifacts
         /\ LET u == [row EXCEPT !.status = "PROCESSING"]
            IN  u \in Report /\ u.status = "PROCESSING" /\ u.artifacts = row.artifacts
         /\ LET u == [row EXCEPT !.runToken = None, !.lease = "none"]
            IN  u \in Report /\ u.status = row.status /\ u.artifacts = row.artifacts
BY DEF Report

Fresh(status, t, lease, a) == [status |-> status, runToken |-> t, lease |-> lease, artifacts |-> a]


LEMMA TypedInit == Init => Typed
<1> SUFFICES ASSUME Init PROVE Typed
  OBVIOUS
<1>1. Unclaimed \in Report /\ Unclaimed.artifacts = None
  BY DEF Unclaimed, Report
<1> QED
  BY <1>1, RestingIsWorker DEF Init, Typed, HasToken, Tokens

(* Every step keeps the types. *)
LEMMA TypedStep == Typed /\ [Next]_vars => Typed'
<1> SUFFICES ASSUME Typed, [Next]_vars PROVE Typed'
  OBVIOUS
<1>1. ASSUME NEW r \in Reports, requestReportGeneration(r)
      PROVE  Typed'
  <2> DEFINE row == [report[r] EXCEPT !.status = "PROCESSING"]
  <2>1. report[r] \in Report /\ row \in Report /\ row.artifacts = report[r].artifacts
    BY RowUpdates DEF Typed
  <2>2. Writes(r, row)
    BY <2>1, <1>1 DEF requestReportGeneration, Writes, Typed, Tokens
  <2> QED
    BY <1>1, <2>2, TypedAfterStep DEF requestReportGeneration, Typed, Tokens
<1>2. ASSUME NEW r \in Reports, leaseExpires(r)
      PROVE  Typed'
  <2> DEFINE row == [report[r] EXCEPT !.lease = "expired"]
  <2>1. report[r] \in Report /\ row \in Report /\ row.artifacts = report[r].artifacts
    BY RowUpdates DEF Typed
  <2>2. Writes(r, row)
    BY <2>1, <1>2 DEF leaseExpires, Writes, Typed, Tokens
  <2> QED
    BY <1>2, <2>2, TypedAfterStep DEF leaseExpires, Typed, Tokens
<1>3. ASSUME NEW r \in Reports, recoverExpiredReportGenerations(r)
      PROVE  Typed'
  <2> DEFINE row == [report[r] EXCEPT !.runToken = None, !.lease = "none"]
  <2>1. report[r] \in Report /\ row \in Report /\ row.artifacts = report[r].artifacts
    BY RowUpdates DEF Typed
  <2>2. Writes(r, row)
    BY <2>1, <1>3 DEF recoverExpiredReportGenerations, Writes, Typed, Tokens
  <2> QED
    BY <1>3, <2>2, TypedAfterStep DEF recoverExpiredReportGenerations, Typed, Tokens
<1>4. ASSUME NEW w \in Workers, NEW r \in Reports, NEW n \in Dispatches, takeJob(w, r, n)
      PROVE  Typed'
  <2> DEFINE v == [Resting EXCEPT !.pc = "claim", !.report = r, !.dispatch = n]
  <2>0. n \in Nat /\ Resting \in Worker
    BY RestingIsWorker, ReportJobsAssumption DEF Dispatches
  <2>1. v \in Worker /\ v.pc = "claim" /\ v.report = r
    BY <2>0 DEF Worker
  <2>2. Moves(w, v)
    BY <2>1, <1>4 DEF takeJob, Moves
  <2> QED
    BY <1>4, <2>2, TypedAfterStep DEF takeJob, Typed, Tokens, db
<1>5. ASSUME NEW w \in Workers, claim_report_history(w)
      PROVE  Typed'
  <2> DEFINE r == worker[w].report
           row == Fresh("PROCESSING", runs + 1, "held", None)
  <2>1. r \in Reports /\ worker[w] \in Worker /\ runs \in Nat
    BY <1>5 DEF claim_report_history, Typed
  <2>2. CASE Claimable(r) /\ InProcess \subseteq {r}
    <3>1. /\ runs' = runs + 1 /\ report' = [report EXCEPT ![r] = row]
         /\ worker' = [worker EXCEPT ![w].pc = "generate", ![w].token = runs + 1]
      BY <1>5, <2>2 DEF claim_report_history, Fresh
    <3>a. row \in Report /\ row.artifacts = None
      BY <2>1 DEF Fresh, Report
    <3> HIDE DEF row
    <3>2. Writes(r, row)
      BY <2>1, <3>1, <3>a DEF Writes
    <3>3. \E v : Moves(w, v)
      BY <1>5, <3>1, WorkerClaims DEF claim_report_history
    <3> QED
      BY <1>5, <2>1, <3>1, <3>2, <3>3, TypedAfterStep
         DEF claim_report_history, Typed, Tokens
  <2>3. CASE ~(Claimable(r) /\ InProcess \subseteq {r})
    BY <1>5, <2>1, <2>3, WorkerRests, TypedAfterStep
       DEF claim_report_history, EndAttempt, Typed, Tokens
  <2> QED
    BY <2>2, <2>3
<1>6. ASSUME NEW w \in Workers, renew_report_history_lease(w)
      PROVE  Typed'
  <2> DEFINE r == worker[w].report
           row == [report[r] EXCEPT !.lease = "held"]
  <2>1. r \in Reports /\ HasToken(w) /\ report[r] \in Report
    BY <1>6 DEF renew_report_history_lease, Typed, HasToken
  <2>2. CASE report' = [report EXCEPT ![r].lease = "held"] /\ UNCHANGED worker
    <3>1. Writes(r, row)
      BY <2>1, <2>2, RowUpdates, <1>6 DEF Writes, Typed, Tokens, renew_report_history_lease
    <3> QED
      BY <1>6, <2>2, <3>1, TypedAfterStep DEF renew_report_history_lease, Typed, Tokens
  <2>3. CASE worker' = [worker EXCEPT ![w].leaseLost = TRUE] /\ UNCHANGED report
    <3>1. \E v : Moves(w, v)
      BY <1>6, <2>1, <2>3, WorkerLosesLease DEF renew_report_history_lease
    <3> QED
      BY <1>6, <2>3, <3>1, TypedAfterStep DEF renew_report_history_lease, Typed, Tokens
  <2> QED
    BY <1>6, <2>2, <2>3 DEF renew_report_history_lease
<1>7. ASSUME NEW w \in Workers, generate(w)
      PROVE  Typed'
  <2>1. HasToken(w) /\ worker' = [worker EXCEPT ![w].pc = "commit"]
    BY <1>7 DEF generate, HasToken
  <2> QED
    <3>1. runs' = runs /\ runs' \in Nat /\ runs <= runs' /\ "commit" \in Attempting
      BY <1>7 DEF generate, Typed, Attempting
    <3>2. \E v : Moves(w, v)
      BY <2>1, <3>1, WorkerGoesOn
    <3>3. files' \subseteq Tokens'
      BY <1>7, <2>1, <3>1 DEF generate, Typed, Tokens
    <3> QED
      BY <1>7, <3>1, <3>2, <3>3, TypedAfterStep DEF generate, Typed, Tokens, db
<1>8. ASSUME NEW w \in Workers, complete_report_history(w)
      PROVE  Typed'
  <2> DEFINE r == worker[w].report
           row == Fresh("COMPLETED", None, "none", worker[w].token)
  <2>1. r \in Reports /\ HasToken(w) /\ worker[w].token \in Tokens /\ Tokens' = Tokens /\ Tokens \subseteq Nat
    BY <1>8 DEF complete_report_history, Typed, HasToken, Tokens
  <2>2. UNCHANGED report \/ \E q, x : Writes(q, x)
    <3>1. CASE report' = Completed(w)
      <4>0. row \in Report /\ row.artifacts = worker[w].token /\ report' = [report EXCEPT ![r] = row]
        BY <2>1, <3>1 DEF Completed, Fresh, Report
      <4> HIDE DEF row
      <4>1. Writes(r, row)
        BY <2>1, <4>0 DEF Writes
      <4> QED
        BY <4>1
    <3> QED
      BY <3>1, <1>8 DEF complete_report_history
  <2>3. \E pc \in Attempting : worker' = [worker EXCEPT ![w].pc = pc]
    BY <1>8 DEF complete_report_history, Attempting
  <2>4. \E v : Moves(w, v)
    <3>1. runs' \in Nat /\ runs <= runs'
      BY <1>8 DEF complete_report_history, Typed
    <3> QED
      BY <2>1, <2>3, <3>1, WorkerGoesOn
  <2>5. unconfirmed' \subseteq Tokens'
    BY <1>8, <2>1 DEF complete_report_history, Typed
  <2> QED
    BY <1>8, <2>1, <2>2, <2>4, <2>5, TypedAfterStep DEF complete_report_history, Typed
<1>9. ASSUME NEW w \in Workers, raise(w)
      PROVE  Typed'
  <2>1. HasToken(w) /\ runs' = runs /\ UNCHANGED <<report, files, unconfirmed>>
    BY <1>9 DEF raise, HasToken, db
  <2>2. \/ worker' = [worker EXCEPT ![w].pc = "cleanup"]
        \/ worker' = [worker EXCEPT ![w] = Resting]
    BY <1>9 DEF raise, EndAttempt
  <2>3. \E v : Moves(w, v)
    <3>1. runs' \in Nat /\ runs <= runs' /\ "cleanup" \in Attempting
      BY <2>1 DEF Typed, Attempting
    <3> QED
      BY <2>1, <2>2, <3>1, WorkerGoesOn, WorkerRests
  <2> QED
    BY <2>1, <2>3, TypedAfterStep DEF Typed, Tokens
<1>10. ASSUME NEW w \in Workers, remove_generated_file(w)
      PROVE  Typed'
  <2>1. HasToken(w) /\ worker' = [worker EXCEPT ![w].pc = "close"]
    BY <1>10 DEF remove_generated_file, HasToken
  <2> QED
    <3>1. runs' = runs /\ runs' \in Nat /\ runs <= runs' /\ "close" \in Attempting
      BY <1>10 DEF remove_generated_file, Typed, Attempting
    <3>2. \E v : Moves(w, v)
      BY <2>1, <3>1, WorkerGoesOn
    <3>3. files' \subseteq Tokens'
      BY <1>10, <2>1, <3>1 DEF remove_generated_file, Typed, Tokens
    <3> QED
      BY <1>10, <3>1, <3>2, <3>3, TypedAfterStep
         DEF remove_generated_file, Typed, Tokens, db
<1>11. ASSUME NEW w \in Workers, fail_report_history(w)
      PROVE  Typed'
  <2> DEFINE r == worker[w].report
           row == Fresh("FAILED", None, "none", None)
  <2>1. r \in Reports /\ runs' = runs /\ UNCHANGED <<files, unconfirmed>>
    BY <1>11 DEF fail_report_history, Typed
  <2>2. UNCHANGED report \/ \E q, x : Writes(q, x)
    <3>1. CASE report' = [report EXCEPT ![r] = row]
      <4>0. row \in Report /\ row.artifacts = None
        BY DEF Fresh, Report
      <4> HIDE DEF row
      <4>1. Writes(r, row)
        BY <2>1, <3>1, <4>0 DEF Writes
      <4> QED
        BY <4>1
    <3> QED
      BY <3>1, <1>11 DEF fail_report_history, Fresh
  <2>3. \E v : Moves(w, v)
    BY <1>11, WorkerRests DEF fail_report_history, EndAttempt
  <2> QED
    BY <2>1, <2>2, <2>3, TypedAfterStep DEF Typed, Tokens
<1>12. ASSUME NEW w \in Workers, finish(w)
      PROVE  Typed'
  <2>1. \E v : Moves(w, v)
    BY <1>12, WorkerRests DEF finish, EndAttempt
  <2> QED
    BY <1>12, <2>1, TypedAfterStep DEF finish, Typed, Tokens, db
<1>13. ASSUME NEW w \in Workers, crashWorker(w)
      PROVE  Typed'
  <2>1. \E v : Moves(w, v)
    BY <1>13, WorkerRests DEF crashWorker
  <2> QED
    BY <1>13, <2>1, TypedAfterStep DEF crashWorker, Typed, Tokens, db
<1>14. CASE UNCHANGED <<report, worker, runs, files, unconfirmed>>
  BY <1>14, TypedAfterStep DEF Typed, Tokens
<1> QED
  BY <1>1, <1>2, <1>3, <1>4, <1>5, <1>6, <1>7, <1>8, <1>9, <1>10, <1>11, <1>12, <1>13, <1>14
     DEF Next, Sweep, Redeliver, Dispatch, Take, Attempt, redeliver, readEntry,
            consumeEntry, addJob, ackEntry, deferEntry,
         crashDispatcher, db, vars

-----------------------------------------------------------------------------
(* The order of the reports, and the refinement of ReportLifecycle *)

(* A report in process is the newest, and reports are requested in their order: *)
(* with the first part alone a request could find a newer report.               *)
Order ==
  /\ \A r, s \in Reports :
       report[r].status = "PROCESSING" /\ s > r => report[s].status = "NONE"
  /\ \A r, s \in Reports :
       s < r /\ report[r].status # "NONE" => report[s].status # "NONE"

(* What a step does to the states of the reports. *)
Keeps == \A q \in Reports : report'[q].status = report[q].status

Sets(r, status) ==
  /\ report'[r].status = status
  /\ \A q \in Reports \ {r} : report'[q].status = report[q].status

Begins(r) ==
  /\ InProcess = {}
  /\ \/ report[r].status = "NONE" /\ \A s \in Reports : s < r => report[s].status # "NONE"
     \/ report[r].status = "FAILED" /\ \A s \in Reports : s > r => report[s].status = "NONE"
  /\ Sets(r, "PROCESSING")

Ends(r) ==
  /\ report[r].status = "PROCESSING"
  /\ \E outcome \in {"COMPLETED", "FAILED"} : Sets(r, outcome)

StatusStep == Keeps \/ \E r \in Reports : Begins(r) \/ Ends(r)

(* Every step is one of these. *)
LEMMA EveryStepIsStatusStep == Typed /\ [Next]_vars => StatusStep
<1> SUFFICES ASSUME Typed, [Next]_vars PROVE StatusStep
  OBVIOUS
<1>1. ASSUME NEW r \in Reports, requestReportGeneration(r)
      PROVE  StatusStep
  <2>1. Begins(r)
    BY <1>1 DEF requestReportGeneration, Begins, Sets, Typed, Report
  <2> QED
    BY <2>1 DEF StatusStep
<1>2. ASSUME NEW r \in Reports, leaseExpires(r)
      PROVE  StatusStep
  BY <1>2 DEF leaseExpires, StatusStep, Keeps, Typed, Report
<1>3. ASSUME NEW r \in Reports, recoverExpiredReportGenerations(r)
      PROVE  StatusStep
  BY <1>3 DEF recoverExpiredReportGenerations, StatusStep, Keeps, Typed, Report
<1>4. ASSUME NEW w \in Workers, claim_report_history(w)
      PROVE  StatusStep
  <2> DEFINE r == worker[w].report
  <2>1. r \in Reports
    BY <1>4 DEF claim_report_history, Typed
  <2>2. CASE Claimable(r) /\ InProcess \subseteq {r} /\ report[r].status = "FAILED"
    <3>1. Sets(r, "PROCESSING")
      BY <1>4, <2>1, <2>2 DEF claim_report_history, Sets, Typed, Report
    <3>2. InProcess = {} /\ \A s \in Reports : s > r => report[s].status = "NONE"
      BY <2>2 DEF Claimable, InProcess
    <3> QED
      BY <2>1, <2>2, <3>1, <3>2 DEF StatusStep, Begins
  <2>3. CASE Claimable(r) /\ InProcess \subseteq {r} /\ report[r].status # "FAILED"
    <3>1. report[r].status = "PROCESSING"
      BY <2>3 DEF Claimable
    <3> QED
      BY <1>4, <2>1, <2>3, <3>1 DEF claim_report_history, StatusStep, Keeps, Typed, Report
  <2>4. CASE ~(Claimable(r) /\ InProcess \subseteq {r})
    BY <1>4, <2>4 DEF claim_report_history, StatusStep, Keeps
  <2> QED
    BY <2>2, <2>3, <2>4
<1>5. ASSUME NEW w \in Workers, renew_report_history_lease(w)
      PROVE  StatusStep
  BY <1>5 DEF renew_report_history_lease, StatusStep, Keeps, Typed, Report
<1>6. ASSUME NEW w \in Workers, complete_report_history(w)
      PROVE  StatusStep
  <2> DEFINE r == worker[w].report
  <2>1. CASE report' = Completed(w) /\ Owns(w)
    <3>1. r \in Reports /\ report[r].status = "PROCESSING"
      BY <1>6, <2>1 DEF complete_report_history, Typed, Owns
    <3>2. Sets(r, "COMPLETED")
      BY <2>1, <3>1 DEF Completed, Sets, Typed, Report
    <3> QED
      BY <3>1, <3>2 DEF StatusStep, Ends
  <2>2. CASE UNCHANGED report
    BY <2>2 DEF StatusStep, Keeps
  <2> QED
    BY <1>6, <2>1, <2>2 DEF complete_report_history
<1>7. ASSUME NEW w \in Workers, fail_report_history(w)
      PROVE  StatusStep
  <2> DEFINE r == worker[w].report
  <2>1. CASE UNCHANGED report
    BY <2>1 DEF StatusStep, Keeps
  <2>2. CASE ~UNCHANGED report
    <3>1. /\ r \in Reports /\ report[r].status = "PROCESSING"
          /\ report' = [report EXCEPT ![r] = Fresh("FAILED", None, "none", None)]
      BY <1>7, <2>2 DEF fail_report_history, Typed, Owns, Fresh
    <3>2. Sets(r, "FAILED")
      BY <3>1 DEF Sets, Typed, Report, Fresh
    <3> QED
      BY <3>1, <3>2 DEF StatusStep, Ends
  <2> QED
    BY <2>1, <2>2
<1>8. CASE UNCHANGED report
  BY <1>8 DEF StatusStep, Keeps
<1> QED
  BY <1>1, <1>2, <1>3, <1>4, <1>5, <1>6, <1>7, <1>8
     DEF Next, Sweep, Redeliver, Dispatch, Take, Attempt, redeliver, readEntry,
            consumeEntry, addJob, ackEntry, deferEntry,
         crashDispatcher, db, vars,
         takeJob, generate, raise, remove_generated_file, finish, crashWorker

LEMMA OrderInit == Init => Order
BY DEF Init, Order, Unclaimed

LEMMA OrderStep == Typed /\ Order /\ StatusStep => Order'
<1> SUFFICES ASSUME Typed, Order, StatusStep PROVE Order'
  OBVIOUS
<1>1. CASE Keeps
  BY <1>1 DEF Keeps, Order
<1>2. ASSUME NEW r \in Reports, Begins(r)
      PROVE  Order'
  <2>1. r \in Nat /\ Reports \subseteq Nat
    BY ReportJobsAssumption
  <2>2. \A s \in Reports : s > r => report[s].status = "NONE"
    BY <1>2, <2>1 DEF Begins, Order
  <2>3. \A s \in Reports : s < r => report[s].status # "NONE"
    BY <1>2, <2>1 DEF Begins, Order
  <2>4. \A s \in Reports : report[s].status # "PROCESSING"
    BY <1>2 DEF Begins, InProcess
  <2> QED
    BY <1>2, <2>1, <2>2, <2>3, <2>4 DEF Begins, Sets, Order
<1>3. ASSUME NEW r \in Reports, Ends(r)
      PROVE  Order'
  <2>1. Reports \subseteq Nat
    BY ReportJobsAssumption
  <2> QED
    BY <1>3, <2>1 DEF Ends, Sets, Order
<1> QED
  BY <1>1, <1>2, <1>3 DEF StatusStep

(* A step of the reports is a step of their life cycle, or none. *)
statuses == [r \in Reports |-> report[r].status]

LEMMA StepImplementsLifecycle ==
  Typed /\ Order /\ StatusStep => Lifecycle!Next \/ UNCHANGED statuses
<1> SUFFICES ASSUME Typed, Order, StatusStep
             PROVE  Lifecycle!Next \/ UNCHANGED statuses
  OBVIOUS
<1> USE ReportJobsAssumption
<1>1. CASE Keeps
  BY <1>1 DEF Keeps, statuses
<1>2. ASSUME NEW r \in Reports, Begins(r)
      PROVE  Lifecycle!Start(r)
  <2>1. \A s \in Reports : s > r => report[s].status = "NONE"
    BY <1>2 DEF Begins, Order
  <2>2. Lifecycle!InProcess = {} /\ Lifecycle!Newest(r)
    BY <1>2, <2>1 DEF Begins, InProcess, Lifecycle!InProcess, Lifecycle!Newest
  <2>3. statuses' = [statuses EXCEPT ![r] = "PROCESSING"]
    BY <1>2 DEF Begins, Sets, statuses
  <2> QED
    BY <1>2, <2>2, <2>3 DEF Begins, statuses, Lifecycle!Start
<1>3. ASSUME NEW r \in Reports, Ends(r)
      PROVE  Lifecycle!Close(r)
  <2>1. PICK outcome \in {"COMPLETED", "FAILED"} : Sets(r, outcome)
    BY <1>3 DEF Ends
  <2>2. statuses' = [statuses EXCEPT ![r] = outcome]
    BY <2>1 DEF Sets, statuses
  <2> QED
    BY <1>3, <2>2 DEF Ends, statuses, Lifecycle!Close
<1> QED
  BY <1>1, <1>2, <1>3 DEF StatusStep, Lifecycle!Next

(* Leases, retries, redeliveries and recoveries keep the promise of          *)
(* ReportLifecycle: at most one report of the month in process, the newest,  *)
(* and a completed one is final, for requestReportGeneration, the sweep and  *)
(* the worker (process_report).                                              *)
THEOREM ImplementsLifecycleHolds == Spec => ImplementsLifecycle
<1>1. Init => Typed /\ Order
  BY TypedInit, OrderInit
<1>2. Typed /\ Order /\ [Next]_vars => (Typed /\ Order)'
  BY TypedStep, EveryStepIsStatusStep, OrderStep
<1>3. Typed /\ Order /\ [Next]_vars => Lifecycle!Next \/ UNCHANGED statuses
  BY EveryStepIsStatusStep, StepImplementsLifecycle
<1>4. Init => Lifecycle!Init
  BY DEF Init, Unclaimed, Lifecycle!Init
<1> QED
  BY <1>1, <1>2, <1>3, <1>4, PTL DEF Spec, ImplementsLifecycle, Lifecycle!Spec, statuses

-----------------------------------------------------------------------------
(* The artifacts *)

(* A token has one owner; what it is about to commit is on disk; and a run     *)
(* that is not through with its commit has not been completed, unless it was   *)
(* not told: what its cleanup removes is no artifact of a report.              *)
OwnToken ==
  \A w, v \in Workers :
    w # v /\ HasToken(w) /\ HasToken(v) => worker[w].token # worker[v].token

CommitsWhatIsThere ==
  \A w \in Workers : worker[w].pc = "commit" => worker[w].token \in files

IsNamed(token) ==
  \E r \in Reports : report[r].status = "COMPLETED" /\ report[r].artifacts = token

CleansWhatIsNotNamed ==
  \A w \in Workers :
    HasToken(w) /\ worker[w].pc # "committed" /\ IsNamed(worker[w].token)
      => worker[w].token \in unconfirmed

Artifacts == OwnToken /\ CommitsWhatIsThere /\ CleansWhatIsNotNamed /\ CompletedHasArtifacts

LEMMA ArtifactsInit == Init => Artifacts
BY DEF Init, Artifacts, OwnToken, CommitsWhatIsThere, CleansWhatIsNotNamed,
   CompletedHasArtifacts,
       HasToken, Resting, Unclaimed

(* Every step keeps the artifacts. *)
LEMMA ArtifactsStep == Typed /\ Artifacts /\ [Next]_vars => Artifacts'
<1> SUFFICES ASSUME Typed, Artifacts, [Next]_vars PROVE Artifacts'
  OBVIOUS
<1> USE NoneIsNoToken
<1>1. ASSUME NEW r \in Reports, requestReportGeneration(r)
      PROVE  Artifacts'
  BY <1>1
     DEF requestReportGeneration, Artifacts, OwnToken, CommitsWhatIsThere,
         CleansWhatIsNotNamed, CompletedHasArtifacts, IsNamed, HasToken, Typed, Report,
         Worker
<1>2. ASSUME NEW r \in Reports, leaseExpires(r)
      PROVE  Artifacts'
  BY <1>2
     DEF leaseExpires, Artifacts, OwnToken, CommitsWhatIsThere, CleansWhatIsNotNamed,
         CompletedHasArtifacts, IsNamed, HasToken, Typed, Report, Worker
<1>3. ASSUME NEW r \in Reports, recoverExpiredReportGenerations(r)
      PROVE  Artifacts'
  BY <1>3
     DEF recoverExpiredReportGenerations, Artifacts, OwnToken, CommitsWhatIsThere,
         CleansWhatIsNotNamed, CompletedHasArtifacts, IsNamed, HasToken, Typed, Report,
         Worker
<1>4. ASSUME NEW w \in Workers, NEW r \in Reports, NEW n \in Dispatches, takeJob(w, r, n)
      PROVE  Artifacts'
  BY <1>4
     DEF takeJob, Artifacts, OwnToken, CommitsWhatIsThere, CleansWhatIsNotNamed,
         CompletedHasArtifacts, IsNamed, HasToken, Typed, Report, Worker, db, Resting
<1>5. ASSUME NEW w \in Workers, claim_report_history(w)
      PROVE  Artifacts'
  <2> DEFINE r == worker[w].report
  <2>1. CASE Claimable(r) /\ InProcess \subseteq {r}
    <3>0. r \in Reports /\ runs \in Nat /\ UNCHANGED <<files, unconfirmed>>
      BY <1>5, <2>1 DEF claim_report_history, Typed
    <3>1. /\ report' = [report EXCEPT ![r] = Fresh("PROCESSING", runs + 1, "held", None)]
          /\ worker' = [worker EXCEPT ![w].pc = "generate", ![w].token = runs + 1]
      BY <1>5, <2>1 DEF claim_report_history, Typed, Fresh
    <3>2. /\ worker'[w].pc = "generate" /\ worker'[w].token = runs + 1
          /\ \A v \in Workers \ {w} : worker'[v] = worker[v]
      BY <3>0, <3>1 DEF Typed, Worker
    <3>3. /\ report'[r].status = "PROCESSING"
          /\ \A q \in Reports \ {r} : report'[q] = report[q]
      BY <3>0, <3>1 DEF Typed, Report, Fresh
    <3>4. /\ \A v \in Workers : HasToken(v) => worker[v].token # runs + 1
          /\ \A q \in Reports : report[q].artifacts # runs + 1
      BY <3>0 DEF Typed, Tokens
    <3> HIDE DEF r
    <3>5. OwnToken' /\ CommitsWhatIsThere'
      BY <3>0, <3>2, <3>4 DEF Artifacts, OwnToken, CommitsWhatIsThere, HasToken
    <3>6. CleansWhatIsNotNamed' /\ CompletedHasArtifacts'
      BY <3>0, <3>2, <3>3, <3>4
         DEF Artifacts, CleansWhatIsNotNamed, CompletedHasArtifacts, IsNamed, HasToken
    <3> QED
      BY <3>5, <3>6 DEF Artifacts
  <2>2. CASE ~(Claimable(r) /\ InProcess \subseteq {r})
    <3>1. UNCHANGED <<report, files, unconfirmed>> /\ worker' = [worker EXCEPT ![w] = Resting]
      BY <1>5, <2>2 DEF claim_report_history, EndAttempt
    <3> QED
      BY <3>1
         DEF Artifacts, OwnToken, CommitsWhatIsThere, CleansWhatIsNotNamed,
             CompletedHasArtifacts, IsNamed, HasToken, Resting, Typed
  <2> QED
    BY <2>1, <2>2
<1>6. ASSUME NEW w \in Workers, renew_report_history_lease(w)
      PROVE  Artifacts'
  <2>1. CASE report' = [report EXCEPT ![worker[w].report].lease = "held"] /\ UNCHANGED worker
    BY <1>6, <2>1
       DEF renew_report_history_lease, Artifacts, OwnToken, CommitsWhatIsThere,
           CleansWhatIsNotNamed, CompletedHasArtifacts, IsNamed, HasToken, Typed, Report
  <2>2. CASE worker' = [worker EXCEPT ![w].leaseLost = TRUE] /\ UNCHANGED report
    <3>1. \A v \in Workers : worker'[v].pc = worker[v].pc /\ worker'[v].token = worker[v].token
      BY <2>2 DEF Typed, Worker
    <3> QED
      BY <1>6, <2>2, <3>1
         DEF renew_report_history_lease, Artifacts, OwnToken, CommitsWhatIsThere,
             CleansWhatIsNotNamed, CompletedHasArtifacts, IsNamed, HasToken
  <2> QED
    BY <1>6, <2>1, <2>2 DEF renew_report_history_lease
<1>7. ASSUME NEW w \in Workers, generate(w)
      PROVE  Artifacts'
  BY <1>7
     DEF generate, Artifacts, OwnToken, CommitsWhatIsThere, CleansWhatIsNotNamed,
         CompletedHasArtifacts, IsNamed, HasToken, Typed, Report, Worker, db
<1>8. ASSUME NEW w \in Workers, complete_report_history(w)
      PROVE  Artifacts'
  <2> DEFINE r == worker[w].report
  <2>1. /\ r \in Reports /\ HasToken(w) /\ worker[w].token \in files /\ UNCHANGED files
        /\ unconfirmed \subseteq unconfirmed'
    BY <1>8 DEF complete_report_history, Typed, HasToken, Artifacts, CommitsWhatIsThere
  <2>2. PICK pc \in {"committed", "cleanup"} : worker' = [worker EXCEPT ![w].pc = pc]
    BY <1>8 DEF complete_report_history
  <2>3. /\ worker'[w].pc = pc /\ worker'[w].token = worker[w].token
        /\ \A v \in Workers \ {w} : worker'[v] = worker[v]
    BY <2>2 DEF Typed, Worker
  <2>4. OwnToken' /\ CommitsWhatIsThere'
    BY <2>1, <2>3 DEF Artifacts, OwnToken, CommitsWhatIsThere, HasToken
  <2>5. CASE report' = Completed(w) /\ (pc = "committed" \/ worker[w].token \in unconfirmed')
    <3>1. /\ report'[r].artifacts = worker[w].token
          /\ \A q \in Reports \ {r} : report'[q] = report[q]
      BY <2>1, <2>5 DEF Completed, Typed, Report
    <3>2. CleansWhatIsNotNamed'
      BY <2>1, <2>3, <2>5, <3>1
         DEF Artifacts, OwnToken, CleansWhatIsNotNamed, IsNamed, HasToken
    <3>3. CompletedHasArtifacts'
      BY <2>1, <3>1 DEF Artifacts, CompletedHasArtifacts
    <3> QED
      BY <2>4, <3>2, <3>3 DEF Artifacts
  <2>6. CASE UNCHANGED report
    BY <2>1, <2>3, <2>4, <2>6, <1>8
       DEF complete_report_history, Artifacts, CleansWhatIsNotNamed, CompletedHasArtifacts,
              IsNamed, HasToken
  <2> QED
    BY <1>8, <2>2, <2>3, <2>5, <2>6 DEF complete_report_history, Typed, Worker
<1>9. ASSUME NEW w \in Workers, raise(w)
      PROVE  Artifacts'
  <2>1. HasToken(w) /\ UNCHANGED <<report, files, unconfirmed>>
    BY <1>9 DEF raise, HasToken, db
  <2>2. CASE worker[w].pc # "committed" /\ worker' = [worker EXCEPT ![w].pc = "cleanup"]
    <3>1. /\ worker'[w].pc = "cleanup" /\ worker'[w].token = worker[w].token
          /\ \A v \in Workers \ {w} : worker'[v] = worker[v]
      BY <2>2 DEF Typed, Worker
    <3> QED
      BY <2>1, <2>2, <3>1
         DEF Artifacts, OwnToken, CommitsWhatIsThere, CleansWhatIsNotNamed,
             CompletedHasArtifacts, IsNamed, HasToken
  <2>3. CASE worker' = [worker EXCEPT ![w] = Resting]
    BY <2>1, <2>3
       DEF Artifacts, OwnToken, CommitsWhatIsThere, CleansWhatIsNotNamed,
           CompletedHasArtifacts, IsNamed, HasToken, Resting, Typed
  <2> QED
    BY <1>9, <2>2, <2>3 DEF raise, Undone, EndAttempt
<1>10. ASSUME NEW w \in Workers, remove_generated_file(w)
      PROVE  Artifacts'
  BY <1>10
     DEF remove_generated_file, Artifacts, OwnToken, CommitsWhatIsThere,
         CleansWhatIsNotNamed, CompletedHasArtifacts, IsNamed, HasToken, Typed, Report,
         Worker, db
<1>11. ASSUME NEW w \in Workers, fail_report_history(w)
      PROVE  Artifacts'
  BY <1>11, SMTT(30)
     DEF fail_report_history, Artifacts, OwnToken, CommitsWhatIsThere,
         CleansWhatIsNotNamed, CompletedHasArtifacts, IsNamed, HasToken, Typed, Report,
         Worker, EndAttempt, Resting
<1>12. ASSUME NEW w \in Workers, finish(w)
      PROVE  Artifacts'
  BY <1>12
     DEF finish, Artifacts, OwnToken, CommitsWhatIsThere, CleansWhatIsNotNamed,
         CompletedHasArtifacts, IsNamed, HasToken, Typed, Report, Worker, db, EndAttempt,
         Resting
<1>13. ASSUME NEW w \in Workers, crashWorker(w)
      PROVE  Artifacts'
  BY <1>13
     DEF crashWorker, Artifacts, OwnToken, CommitsWhatIsThere, CleansWhatIsNotNamed,
         CompletedHasArtifacts, IsNamed, HasToken, Typed, Report, Worker, db, Resting
<1>14. CASE UNCHANGED <<report, worker, files, unconfirmed>>
  BY <1>14
     DEF Artifacts, OwnToken, CommitsWhatIsThere, CleansWhatIsNotNamed,
         CompletedHasArtifacts, IsNamed, HasToken, Typed, Report, Worker
<1> QED
  BY <1>1, <1>2, <1>3, <1>4, <1>5, <1>6, <1>7, <1>8, <1>9, <1>10, <1>11, <1>12, <1>13, <1>14
     DEF Next, Sweep, Redeliver, Dispatch, Take, Attempt, redeliver, readEntry,
            consumeEntry, addJob, ackEntry, deferEntry,
         crashDispatcher, db, vars

(* The artifacts a completed report names are on disk, however many runs of it *)
(* clean up after it (complete_report_history, remove_generated_file), but for *)
(* a run whose commit was not confirmed to it.                                 *)
THEOREM CompletedHasArtifactsHolds == Spec => []CompletedHasArtifacts
<1>1. Init => Typed /\ Artifacts
  BY TypedInit, ArtifactsInit
<1>2. Typed /\ Artifacts /\ [Next]_vars => (Typed /\ Artifacts)'
  BY TypedStep, ArtifactsStep
<1>3. Artifacts => CompletedHasArtifacts
  BY DEF Artifacts
<1> QED
  BY <1>1, <1>2, <1>3, PTL DEF Spec

=============================================================================
