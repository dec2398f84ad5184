------------------------------- MODULE Tickets -------------------------------
(***************************************************************************)
(* The maintenance tickets of one vehicle: the administrators, workshops   *)
(* and the executor who move them from request to repair, the quotes of    *)
(* the workshops, the maintenance budget an approval reserves, and the     *)
(* logical removal of the vehicle.                                         *)
(*                                                                         *)
(* A handler first reads the ticket and checks its status, outside of any  *)
(* transaction, and writes later, with what it read: reading and writing   *)
(* are two steps, and any other request may run in between.  What stands   *)
(* between a late write and the ticket is a compare-and-swap of the status *)
(* in two handlers and the CHECK constraints of the table in all others.   *)
(*                                                                         *)
(* One month and its balance are enough here, months are the subject of    *)
(* Budget; the odometer is the subject of FuelLoads; folios are unique by  *)
(* the row lock of their counter.                                          *)
(***************************************************************************)
EXTENDS Integers, FiniteSets, Sequences

CONSTANTS
  Tickets, Workshops,
  Requests,        \* bound on the requests that are in flight at a time
  Amounts,         \* what a workshop may ask for
  Balances,        \* what the maintenance budget of the month may hold
  MaxWorkshops,    \* workshops one request may name: 3
  MAX_ATTACHMENTS, \* 5
  NULL             \* absence of a row or of a value

ASSUME TicketsAssumption ==
  /\ Amounts \subseteq Nat \ {0} /\ Balances \subseteq Nat
  /\ MaxWorkshops \in Nat \ {0} /\ MAX_ATTACHMENTS \in Nat
  /\ NULL \notin Workshops \cup Nat

VARIABLES
  active,    \* isActive of the vehicle
  balance,   \* what its maintenance budget has available, or NULL
  ticket,    \* the rows of maintenance_tickets
  quote,     \* quote[t][w]: the row of ticket_quotes, or NULL
  request    \* what the handlers in flight have read and are about to write

ticketVars == <<active, balance, ticket, quote, request>>

Approved == {"APPROVED_FOR_REPAIR", "IN_REPAIR", "COMPLETED"}
Rejected == {"REJECTED_BY_ADMIN", "REJECTED_FINAL"}
Status == {"ABSENT", "PENDING_ADMIN_APPROVAL", "AWAITING_QUOTES"} \cup Approved \cup Rejected

\* a plausible mistake for NON_TERMINAL_TICKET_STATUSES: a status is missing from the list
NonTerminalBeforeRepair == {"PENDING_ADMIN_APPROVAL", "AWAITING_QUOTES", "APPROVED_FOR_REPAIR"}

NON_TERMINAL_TICKET_STATUSES ==
  {"PENDING_ADMIN_APPROVAL", "AWAITING_QUOTES", "APPROVED_FOR_REPAIR", "IN_REPAIR"}

(* History, for the properties: reserved and records list the amounts       *)
(* reserved for the ticket and the costs of its maintenance records;        *)
(* orphaned is set when its selected quote is removed.                      *)
Ticket == [status: Status, selected: Workshops \cup {NULL},
           rejectedAt: BOOLEAN, startedAt: BOOLEAN, completedAt: BOOLEAN,
           photos: Nat, reserved: Seq(Amounts), records: Seq(Amounts), orphaned: BOOLEAN]

Quote == [amount: Amounts \cup {NULL}, declined: BOOLEAN]

Request ==
  [op: {"reject"}, ticket: Tickets, status: Rejected]
    \cup [op: {"assign"}, ticket: Tickets, add: SUBSET Workshops]
    \cup [op: {"reassign"}, ticket: Tickets, add: SUBSET Workshops, drop: SUBSET Workshops]
    \cup [op: {"approve", "submit"}, ticket: Tickets, workshop: Workshops, amount: Amounts]
    \cup [op: {"decline"}, ticket: Tickets, workshop: Workshops]
    \cup [op: {"photo", "start"}, ticket: Tickets]
    \cup [op: {"complete"}, ticket: Tickets, cost: Amounts]

(* NULL is told from every row *)
ASSUME NullAssumption == NULL \notin Quote \cup Request

NewTicket == [status |-> "ABSENT", selected |-> NULL, rejectedAt |-> FALSE, startedAt |-> FALSE,
              completedAt |-> FALSE, photos |-> 0, reserved |-> <<>>, records |-> <<>>,
              orphaned |-> FALSE]

Invited == [amount |-> NULL, declined |-> FALSE]

TicketsInit ==
  /\ active = TRUE
  /\ balance \in Balances \cup {NULL}
  /\ ticket = [t \in Tickets |-> NewTicket]
  /\ quote = [t \in Tickets |-> [w \in Workshops |-> NULL]]
  /\ request = [r \in Requests |-> NULL]

-----------------------------------------------------------------------------
(* The database *)

(* The CHECK constraints tickets_*_consistency and tickets_quote_post_approval *)
Consistent(row) ==
  /\ row.selected # NULL => row.status \in Approved
  /\ row.startedAt <=> row.status \in {"IN_REPAIR", "COMPLETED"}
  /\ row.completedAt <=> row.status = "COMPLETED"
  /\ row.rejectedAt <=> row.status \in Rejected

SetTicket(t, row) == Consistent(row) /\ ticket' = [ticket EXCEPT ![t] = row]

(* reserveMaintenanceBudget: unlike fuel, no budget means no repair *)
Covers(amount) == active /\ balance # NULL /\ amount <= balance

Invites(t) == {w \in Workshops : quote[t][w] # NULL}

-----------------------------------------------------------------------------
(* Requests in flight *)

Reads(r, what) ==
  /\ request[r] = NULL
  /\ request' = [request EXCEPT ![r] = what]
  /\ UNCHANGED <<active, balance, ticket, quote>>

Writing(r, op) == request[r] # NULL /\ request[r].op = op

Done(r) == request' = [request EXCEPT ![r] = NULL]

(* Validation, constraints, lost connections and crashes end a request *)
fail(r) ==
  /\ request[r] # NULL
  /\ Done(r)
  /\ UNCHANGED <<active, balance, ticket, quote>>

-----------------------------------------------------------------------------
(* The executor *)

(* FOR KEY SHARE on the vehicle: one step with the check of isActive *)
createTicket(t) ==
  /\ active /\ ticket[t].status = "ABSENT"
  /\ SetTicket(t, [ticket[t] EXCEPT !.status = "PENDING_ADMIN_APPROVAL"])
  /\ UNCHANGED <<active, balance, quote, request>>

addAttachment(r, t) ==
  \/ /\ ticket[t].status \in {"PENDING_ADMIN_APPROVAL", "AWAITING_QUOTES"}
     /\ ticket[t].photos < MAX_ATTACHMENTS
     /\ Reads(r, [op |-> "photo", ticket |-> t])
  \/ /\ Writing(r, "photo") /\ request[r].ticket = t
     /\ SetTicket(t, [ticket[t] EXCEPT !.photos = @ + 1])
     /\ Done(r)
     /\ UNCHANGED <<active, balance, quote>>

-----------------------------------------------------------------------------
(* The administrators *)

rejectTicket(r, t) ==
  \/ /\ ticket[t].status = "PENDING_ADMIN_APPROVAL"
     /\ Reads(r, [op |-> "reject", ticket |-> t, status |-> "REJECTED_BY_ADMIN"])
  \/ /\ ticket[t].status = "AWAITING_QUOTES"
     /\ Reads(r, [op |-> "reject", ticket |-> t, status |-> "REJECTED_FINAL"])
  \/ /\ Writing(r, "reject") /\ request[r].ticket = t
     /\ SetTicket(t, [ticket[t] EXCEPT !.status = request[r].status, !.rejectedAt = TRUE])
     /\ Done(r)
     /\ UNCHANGED <<active, balance, quote>>

Selections == {W \in SUBSET Workshops : Cardinality(W) \in 1..MaxWorkshops}

(* The unique index (ticketId, workshopId) refuses a second row *)
assignWorkshops(r, t) ==
  \/ /\ ticket[t].status = "PENDING_ADMIN_APPROVAL"
     /\ \E W \in Selections : Reads(r, [op |-> "assign", ticket |-> t, add |-> W])
  \/ /\ Writing(r, "assign") /\ request[r].ticket = t
     /\ request[r].add \cap Invites(t) = {}
     /\ quote' = [quote EXCEPT ![t] = [w \in Workshops |->
                    IF w \in request[r].add THEN Invited ELSE @[w]]]
     /\ SetTicket(t, [ticket[t] EXCEPT !.status = "AWAITING_QUOTES"])
     /\ Done(r)
     /\ UNCHANGED <<active, balance>>

(* A request that holds the id of a removed quote can only fail *)
HoldsQuote(q, t, W) ==
  q # NULL /\ q.op \in {"approve", "submit", "decline"} /\ q.ticket = t /\ q.workshop \in W

(* ON DELETE SET NULL: removing the selected quote leaves the ticket without one *)
reassignWorkshops(r, t) ==
  \/ /\ ticket[t].status = "AWAITING_QUOTES"
     /\ \E W \in Selections :
          /\ W # Invites(t)
          /\ ticket[t].selected \notin Invites(t) \ W
          /\ Reads(r, [op |-> "reassign", ticket |-> t,
                       add |-> W \ Invites(t), drop |-> Invites(t) \ W])
  \/ /\ Writing(r, "reassign") /\ request[r].ticket = t
     /\ request[r].add \cap Invites(t) = {}
     /\ quote' = [quote EXCEPT ![t] = [w \in Workshops |->
                    IF w \in request[r].drop THEN NULL
                    ELSE IF w \in request[r].add THEN Invited ELSE @[w]]]
     /\ SetTicket(t, [ticket[t] EXCEPT !.selected = IF @ \in request[r].drop THEN NULL ELSE @,
                                       !.orphaned = @ \/ ticket[t].selected \in request[r].drop])
     /\ request' = [s \in Requests |->
                      IF s = r \/ HoldsQuote(request[s], t, request[r].drop) THEN NULL ELSE request[s]]
     /\ UNCHANGED <<active, balance>>

\* a plausible mistake for Approvable: the status was checked before
ApprovableAsRead(t) == TRUE

(* the compare-and-swap of the approval *)
Approvable(t) == ticket[t].status = "AWAITING_QUOTES"

approveTicket(r, t) ==
  \/ \E w \in Invites(t) :
       /\ ticket[t].status = "AWAITING_QUOTES"
       /\ quote[t][w].amount # NULL /\ ~quote[t][w].declined
       /\ Reads(r, [op |-> "approve", ticket |-> t, workshop |-> w, amount |-> quote[t][w].amount])
  \/ /\ Writing(r, "approve") /\ request[r].ticket = t
     /\ Approvable(t)
     /\ Covers(request[r].amount)
     /\ balance' = balance - request[r].amount
     /\ SetTicket(t, [ticket[t] EXCEPT !.status = "APPROVED_FOR_REPAIR",
                                       !.selected = request[r].workshop,
                                       !.reserved = Append(@, request[r].amount)])
     /\ Done(r)
     /\ UNCHANGED <<active, quote>>

-----------------------------------------------------------------------------
(* The workshops *)

submitQuote(r, t, w) ==
  \/ /\ quote[t][w] # NULL /\ ticket[t].status = "AWAITING_QUOTES" /\ ~quote[t][w].declined
     /\ \E amount \in Amounts :
          Reads(r, [op |-> "submit", ticket |-> t, workshop |-> w, amount |-> amount])
  \/ /\ Writing(r, "submit") /\ request[r].ticket = t /\ request[r].workshop = w
     /\ quote' = [quote EXCEPT ![t][w].amount = request[r].amount]
     /\ Done(r)
     /\ UNCHANGED <<active, balance, ticket>>

declineQuote(r, t, w) ==
  \/ /\ quote[t][w] # NULL /\ ticket[t].status = "AWAITING_QUOTES" /\ quote[t][w].amount = NULL
     /\ Reads(r, [op |-> "decline", ticket |-> t, workshop |-> w])
  \/ /\ Writing(r, "decline") /\ request[r].ticket = t /\ request[r].workshop = w
     /\ quote' = [quote EXCEPT ![t][w].declined = TRUE]
     /\ Done(r)
     /\ UNCHANGED <<active, balance, ticket>>

(* loadTicketForWinningWorkshop: only the selected workshop gets past it *)
startRepair(r, t) ==
  \/ /\ ticket[t].selected # NULL /\ ticket[t].status = "APPROVED_FOR_REPAIR" /\ active
     /\ Reads(r, [op |-> "start", ticket |-> t])
  \/ /\ Writing(r, "start") /\ request[r].ticket = t
     /\ SetTicket(t, [ticket[t] EXCEPT !.status = "IN_REPAIR", !.startedAt = TRUE])
     /\ Done(r)
     /\ UNCHANGED <<active, balance, quote>>

(* the compare-and-swap of the completion *)
Completable(t) == ticket[t].status = "IN_REPAIR"

completeRepair(r, t) ==
  \/ /\ ticket[t].selected # NULL /\ ticket[t].status = "IN_REPAIR"
     /\ Reads(r, [op |-> "complete", ticket |-> t, cost |-> quote[t][ticket[t].selected].amount])
  \/ /\ Writing(r, "complete") /\ request[r].ticket = t
     /\ active
     /\ Completable(t)
     /\ SetTicket(t, [ticket[t] EXCEPT !.status = "COMPLETED", !.completedAt = TRUE,
                                       !.records = Append(@, request[r].cost)])
     /\ Done(r)
     /\ UNCHANGED <<active, balance, quote>>

-----------------------------------------------------------------------------
(* The registry of vehicles: what is left of open budgets is released *)

deactivateVehicle ==
  /\ active
  /\ \A t \in Tickets : ticket[t].status \notin NON_TERMINAL_TICKET_STATUSES
  /\ active' = FALSE
  /\ balance' = IF balance = NULL THEN NULL ELSE 0
  /\ UNCHANGED <<ticket, quote, request>>

-----------------------------------------------------------------------------
TicketsNext ==
  \/ \E t \in Tickets : createTicket(t)
  \/ \E r \in Requests, t \in Tickets :
       \/ addAttachment(r, t) \/ rejectTicket(r, t)
       \/ assignWorkshops(r, t) \/ reassignWorkshops(r, t)
       \/ approveTicket(r, t) \/ startRepair(r, t) \/ completeRepair(r, t)
       \/ \E w \in Workshops : submitQuote(r, t, w) \/ declineQuote(r, t, w)
  \/ \E r \in Requests : fail(r)
  \/ deactivateVehicle

TicketsSpec == TicketsInit /\ [][TicketsNext]_ticketVars

-----------------------------------------------------------------------------
(* Properties *)

(* Every variable holds what its table or request may hold; in particular    *)
(* approvals never overdraw the maintenance budget.                          *)
TicketsTypeOK ==
  /\ active \in BOOLEAN /\ balance \in Nat \cup {NULL}
  /\ ticket \in [Tickets -> Ticket]
  /\ quote \in [Tickets -> [Workshops -> Quote \cup {NULL}]]
  /\ request \in [Requests -> Request \cup {NULL}]

(* A removed vehicle has no ticket that is still going on, also when a late  *)
(* write of a request that read the ticket before arrives after the removal. *)
InactiveHasNoOpenTicket ==
  ~active => \A t \in Tickets : ticket[t].status \in {"ABSENT", "COMPLETED"} \cup Rejected

(* "sin descontar el presupuesto dos veces": a ticket reserves once at most, *)
(* exactly once when it is approved, and not before; unless it lost the      *)
(* quote that won it, after which it can be assigned again.  And it produces *)
(* a maintenance record when it is completed, and only one, however often    *)
(* the workshop submits the completion.                                      *)
PaidOnce ==
  \A t \in Tickets :
    /\ \/ ticket[t].orphaned
       \/ /\ Len(ticket[t].reserved) <= 1
          /\ ticket[t].status \in Approved => Len(ticket[t].reserved) = 1
          /\ ticket[t].status \in {"PENDING_ADMIN_APPROVAL", "AWAITING_QUOTES"} =>
               ticket[t].reserved = <<>>
    /\ Len(ticket[t].records) = IF ticket[t].status = "COMPLETED" THEN 1 ELSE 0

(* "so a reserved amount cannot become stranded", "nunca borres uno": money   *)
(* reserved for a ticket belongs to a repair that was completed, or that can  *)
(* be, because the ticket still has the quote that won it; without one no     *)
(* workshop can start or complete it.                                         *)
ReserveNotStranded ==
  \A t \in Tickets :
    ticket[t].reserved # <<>> => ticket[t].status = "COMPLETED" \/ ticket[t].selected # NULL
=============================================================================
