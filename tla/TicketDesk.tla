------------------------------ MODULE TicketDesk ------------------------------
(* The pages on which a maintenance ticket is worked on: of the executor who asks for    *)
(* it, of the administrators and of the workshops.  A page shows what it has read last,  *)
(* offers what that allows, and reads again after its own requests were answered well,   *)
(* not after others' requests and not after an error.  An answer may get lost, or be an   *)
(* error although the ticket has changed: notifications are written after the commit.    *)
(* What lies between a handler's read and its write is the subject of Tickets; here a    *)
(* request is one step, since a page that waits for its answer stands still.             *)
EXTENDS Integers, FiniteSets

CONSTANTS
  Garages,       \* workshops
  Prices,        \* what a workshop may ask for
  Funds,         \* what the maintenance budget of the month may have left
  MaxGarages,    \* workshops a ticket may be given to: 3
  MaxPhotos,     \* photos of a ticket: 5
  MaxSends,      \* bound on the requests of administrator and workshops and on budget moves
  MaxTickets,    \* bound on the tickets that are made
  MaxLost        \* bound on the answers that get lost

ASSUME DeskConstants ==
  /\ IsFiniteSet(Garages) /\ Garages \cap {"executor", "admin"} = {}
  /\ Prices \subseteq Nat \ {0} /\ Funds \subseteq Nat
  /\ MaxGarages \in Nat /\ MaxPhotos \in Nat \ {0} /\ MaxSends \in Nat
  /\ MaxTickets \in Nat /\ MaxLost \in Nat

VARIABLES
  server,        \* the ticket, its quotes, and the budget of its vehicle
  page,          \* [Pages -> what the page has read]
  context,       \* what the page of the administrator has read of budget and quotes
  form,          \* where the executor is: at the form, sending its photos, at the ticket
                 \* (detail), or at a second one (elsewhere)
  picked,        \* the quote the administrator has chosen, as it was shown
  sends,         \* how many requests were sent
  lost           \* the requests that were done and answered with an error

deskVars == <<server, page, context, form, picked, sends, lost>>

Pages == {"executor", "admin"} \cup Garages

NoOffer == [id |-> 0, price |-> 0, declined |-> FALSE]
NoPick == [id |-> 0, price |-> 0]
NoContext == [left |-> 0, offers |-> [g \in Garages |-> NoOffer]]

-----------------------------------------------------------------------------
Attachable == {"PENDING_ADMIN_APPROVAL", "AWAITING_QUOTES"}

(* getTicketById, reduced to what a page does with it: for the executor and the           *)
(* administrator all is over once a quote is approved, a workshop sees its own quote.    *)
View(p, s) ==
  IF p \in Garages
  THEN [status |-> s.status, mine |-> s.offers[p], won |-> s.winner # 0 /\ s.winner = s.offers[p].id,
        photos |-> 0]
  ELSE [status |-> IF s.status \in Attachable THEN s.status ELSE "CLOSED",
        mine |-> NoOffer, won |-> FALSE,
        photos |-> IF p = "executor" THEN s.photos ELSE 0]

Context(s) == [left |-> s.left, offers |-> s.offers]

DeskInit ==
  /\ \E left \in Funds :
       server = [made |-> 0, status |-> "ABSENT", winner |-> 0, photos |-> 0, last |-> 0,
                 offers |-> [g \in Garages |-> NoOffer], resent |-> {},
                 left |-> left, reserved |-> {}]
  /\ page = [p \in Pages |-> [status |-> "ABSENT", mine |-> NoOffer, won |-> FALSE, photos |-> 0]]
  /\ context = NoContext
  /\ form = "form" /\ picked = NoPick /\ sends = 0 /\ lost = {}

-----------------------------------------------------------------------------
(* What the pages offer.                                                                *)
Sets == {G \in SUBSET Garages : Cardinality(G) \in 1..MaxGarages}

ExecutorOffers(seen) ==
  IF form = "form" THEN {[op |-> "create"]}
  ELSE IF form = "photos" THEN {[op |-> "photo"]}
  ELSE IF form = "detail" /\ seen.status \in Attachable /\ seen.photos < MaxPhotos
       THEN {[op |-> "photo"]} ELSE {}

(* AdminActions, ApprovePanel: the button waits for a quote to be chosen, once.          *)
AdminOffers(seen) ==
  IF seen.status = "PENDING_ADMIN_APPROVAL"
  THEN [op : {"assign"}, garages : Sets] \cup {[op |-> "reject"]}
  ELSE IF seen.status = "AWAITING_QUOTES"
  THEN [op : {"reassign"}, garages : Sets] \cup {[op |-> "reject"]}
         \cup IF picked = NoPick THEN {} ELSE {[op |-> "approve", id |-> picked.id]}
  ELSE {}

MayStillQuote(mine) == mine.id # 0 /\ ~mine.declined /\ mine.price = 0

WorkshopOffers(seen) ==
  LET mine == seen.mine
  IN  IF seen.status = "AWAITING_QUOTES"
      THEN IF MayStillQuote(mine)
           THEN [op : {"submit"}, id : {mine.id}, price : Prices] \cup {[op |-> "decline", id |-> mine.id]}
           ELSE {}
      ELSE IF ~seen.won THEN {}
      ELSE IF seen.status = "APPROVED_FOR_REPAIR" THEN {[op |-> "start"]}
      ELSE IF seen.status = "IN_REPAIR" THEN {[op |-> "complete"]}
      ELSE {}

Offered(p) ==
  CASE p = "executor" -> ExecutorOffers(page[p])
    [] p = "admin" -> AdminOffers(page[p])
    [] p \in Garages -> WorkshopOffers(page[p])

(* listTickets: a workshop sees the tickets with a quote of its own.                      *)
Lists(g, s) == s.offers[g].id # 0

(* WorkshopTicketsView: the list of a workshop, and what it sends the workshop there for. *)
Listed(g, s) ==
  LET mine == s.offers[g]
  IN  IF mine.declined THEN "NOT_SELECTED"
      ELSE IF s.status = "AWAITING_QUOTES"
           THEN IF mine.price # 0 THEN "AWAITING_DECISION" ELSE "TO_QUOTE"
      ELSE IF s.winner = mine.id /\ s.status = "APPROVED_FOR_REPAIR" THEN "TO_START"
      ELSE IF s.winner = mine.id /\ s.status = "IN_REPAIR" THEN "IN_REPAIR"
      ELSE IF s.winner = mine.id /\ s.status = "COMPLETED" THEN "COMPLETED"
      ELSE "NOT_SELECTED"

-----------------------------------------------------------------------------
(* Reading: a page is opened, or the budget is read again, which has a cache of its own.  *)
Open(p) ==
  /\ server.status # "ABSENT" /\ (p = "executor" => form # "elsewhere")
  /\ page' = [page EXCEPT ![p] = View(p, server)]
  /\ form' = IF p = "executor" THEN "detail" ELSE form
  /\ picked' = IF p = "admin" THEN NoPick ELSE picked
  /\ UNCHANGED <<server, context, sends, lost>>

ReadContext ==
  /\ page["admin"].status = "AWAITING_QUOTES"
  /\ context' = Context(server)
  /\ UNCHANGED <<server, page, form, picked, sends, lost>>

\* a plausible mistake for Selectable: a quote is compared with nothing
SelectableIfSent(offer, left) == offer.id # 0 /\ ~offer.declined /\ offer.price # 0

(* BudgetVsQuotesCard: quotes that exceed what is left cannot be chosen.                 *)
Selectable(offer, left) == offer.id # 0 /\ ~offer.declined /\ offer.price # 0 /\ offer.price <= left

Pick(g) ==
  /\ page["admin"].status = "AWAITING_QUOTES"
  /\ Selectable(context.offers[g], context.left)
  /\ picked' = [id |-> context.offers[g].id, price |-> context.offers[g].price]
  /\ UNCHANGED <<server, page, context, form, sends, lost>>

-----------------------------------------------------------------------------
(* The handlers.                                                                        *)
GarageOf(id, s) == {g \in Garages : s.offers[g].id = id}

\* a plausible mistake for Chosen: a quote of the ticket, whichever
ChosenAny(what, s) == {g \in Garages : s.offers[g].price # 0}

(* approveTicket: the quote that was chosen must belong to the ticket.                   *)
Chosen(what, s) == GarageOf(what.id, s)

Accepts(p, what, s) ==
  CASE what.op = "create" -> TRUE
    [] what.op = "photo" ->
         s.status \in Attachable /\ s.photos < MaxPhotos
    [] what.op = "assign" -> s.status = "PENDING_ADMIN_APPROVAL"
    [] what.op = "reassign" -> s.status = "AWAITING_QUOTES"
    [] what.op = "reject" -> s.status \in {"PENDING_ADMIN_APPROVAL", "AWAITING_QUOTES"}
    [] what.op = "approve" ->
         /\ s.status = "AWAITING_QUOTES"
         /\ \E g \in Chosen(what, s) :
              /\ s.offers[g].price # 0 /\ ~s.offers[g].declined /\ s.offers[g].price <= s.left
    [] what.op = "submit" ->
         s.status = "AWAITING_QUOTES" /\ \E g \in GarageOf(what.id, s) : ~s.offers[g].declined
    [] what.op = "decline" ->
         s.status = "AWAITING_QUOTES" /\ \E g \in GarageOf(what.id, s) : s.offers[g].price = 0
    [] what.op = "start" -> s.status = "APPROVED_FOR_REPAIR" /\ s.winner = s.offers[p].id
    [] what.op = "complete" -> s.status = "IN_REPAIR" /\ s.winner = s.offers[p].id

(* New quotes get ids that no page has seen; those of workshops that stay are untouched.  *)
Invite(s, G) ==
  LET new == {g \in G : s.offers[g].id = 0}
      IdFor == CHOOSE f \in [new -> s.last + 1 .. s.last + Cardinality(new)] :
                 \A g, h \in new : g # h => f[g] # f[h]
  IN  [s EXCEPT !.status = "AWAITING_QUOTES", !.last = s.last + Cardinality(new),
                !.offers = [g \in Garages |-> IF g \in new THEN [NoOffer EXCEPT !.id = IdFor[g]]
                                              ELSE IF g \in G THEN s.offers[g] ELSE NoOffer]]

Submitted(s, g, price) ==
  [s EXCEPT !.offers[g].price = price,
            !.resent = IF s.offers[g].price # 0 THEN @ \cup {s.offers[g].id} ELSE @]

ApprovedWith(s, g) ==
  [s EXCEPT !.status = "APPROVED_FOR_REPAIR", !.winner = s.offers[g].id,
            !.left = s.left - s.offers[g].price,
            !.reserved = @ \cup {[id |-> s.offers[g].id, price |-> s.offers[g].price, shown |-> picked.price]}]

Handled(p, what, s) ==
  CASE what.op = "create" ->
         IF s.made = 0 THEN [s EXCEPT !.made = 1, !.status = "PENDING_ADMIN_APPROVAL"]
         ELSE [s EXCEPT !.made = s.made + 1]
    [] what.op = "photo" -> [s EXCEPT !.photos = s.photos + 1]
    [] what.op \in {"assign", "reassign"} -> Invite(s, what.garages)
    [] what.op = "reject" ->
         [s EXCEPT !.status = IF s.status = "AWAITING_QUOTES" THEN "REJECTED_FINAL" ELSE "REJECTED_BY_ADMIN"]
    [] what.op = "approve" -> ApprovedWith(s, CHOOSE g \in Chosen(what, s) : TRUE)
    [] what.op = "submit" -> Submitted(s, CHOOSE g \in GarageOf(what.id, s) : TRUE, what.price)
    [] what.op = "decline" -> [s EXCEPT !.offers[p].declined = TRUE]
    [] what.op = "start" -> [s EXCEPT !.status = "IN_REPAIR"]
    [] what.op = "complete" -> [s EXCEPT !.status = "COMPLETED"]

-----------------------------------------------------------------------------
(* The answers.                                                                         *)
\* a plausible mistake for AfterError: any error in the form lets the executor send it again
FormAgain(what) == IF form = "detail" THEN "detail" ELSE "form"

(* TicketCreateForm: once the ticket is there, a photo that fails does not bring the form *)
(* back.                                                                                *)
AfterError(what) == IF what.op = "photo" THEN "detail" ELSE form

AfterAnswer(what) ==
  IF what.op = "create" THEN IF server.made = 0 THEN "photos" ELSE "elsewhere" ELSE IF what.op = "photo" THEN "detail" ELSE form

Sends(p, what) ==
  /\ what \in Offered(p)
  /\ IF p = "executor" THEN server.made < MaxTickets \/ what.op = "photo" ELSE sends < MaxSends
  /\ sends' = IF p = "executor" THEN sends ELSE sends + 1

(* Queries are invalidated when a request succeeds.                                     *)
Answer(p, what) ==
  /\ Sends(p, what) /\ Accepts(p, what, server)
  /\ server' = Handled(p, what, server)
  /\ page' = [page EXCEPT ![p] = View(p, server')]
  /\ context' = IF p = "admin" /\ server'.status = "AWAITING_QUOTES" THEN Context(server') ELSE context
  /\ form' = IF p = "executor" THEN AfterAnswer(what) ELSE form
  /\ UNCHANGED <<picked, lost>>

(* The answer is lost, or a notification fails: the ticket has changed all the same.      *)
AnswerIsLost(p, what) ==
  /\ Sends(p, what) /\ Accepts(p, what, server)
  /\ server' = Handled(p, what, server)
  /\ form' = IF p = "executor" THEN AfterError(what) ELSE form
  /\ Cardinality(lost) < MaxLost /\ lost' = lost \cup {what.op}
  /\ UNCHANGED <<page, context, picked>>

(* The handler refuses, or the request does not arrive: only the form of the executor    *)
(* makes something of it.                                                               *)
RequestFails(what) ==
  /\ what \in Offered("executor")
  /\ form' = AfterError(what)
  /\ UNCHANGED <<server, page, context, picked, sends, lost>>

(* Other tickets of the vehicle, or a distribution.                                     *)
BudgetMoves ==
  /\ \E left \in Funds : server' = [server EXCEPT !.left = left]
  /\ server.status = "AWAITING_QUOTES" /\ sends < MaxSends /\ sends' = sends + 1
  /\ UNCHANGED <<page, context, form, picked, lost>>

DeskNext ==
  \/ \E p \in Pages :
       \/ Open(p)
       \/ \E what \in Offered(p) : Answer(p, what) \/ AnswerIsLost(p, what)
  \/ \E what \in Offered("executor") : RequestFails(what)
  \/ ReadContext \/ BudgetMoves
  \/ \E g \in Garages : Pick(g)

DeskSpec == DeskInit /\ [][DeskNext]_deskVars

-----------------------------------------------------------------------------
(* TicketCreateForm.tsx:56-65: a form makes one ticket, however its photos fare; it makes *)
(* a second one only if the executor was told an error although the first was made.      *)
OneTicketPerForm == server.made > 1 => "create" \in lost

(* What is reserved is what the administrator was shown when the quote was chosen, unless *)
(* the workshop has sent that quote again.                                              *)
ApprovedAsShown ==
  \A r \in server.reserved : r.price = r.shown \/ r.id \in server.resent

UpToDate(p) ==
  /\ page[p] = View(p, server)
  /\ p = "admin" /\ picked # NoPick =>
       /\ context = Context(server)
       /\ \E g \in Garages : server.offers[g].id = picked.id /\ Selectable(server.offers[g], server.left)

(* A page that shows things as they are offers nothing that is refused; a quote stays     *)
(* chosen when the budget or the quote has changed since, and is offered still.  And the   *)
(* list of a workshop sends it to a ticket exactly when its page lets it do something.     *)
OffersAreTaken ==
  /\ \A p \in Pages : UpToDate(p) => \A what \in Offered(p) : Accepts(p, what, server)
  /\ \A g \in Garages : Lists(g, server) =>
       (Listed(g, server) \in {"TO_QUOTE", "TO_START", "IN_REPAIR"}
          <=> WorkshopOffers(View(g, server)) # {})
=============================================================================
