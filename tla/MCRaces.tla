------------------------------ MODULE MCRaces -------------------------------
(* One run for two systems whose steps race with each other: the requests that write *)
(* what they read earlier into a maintenance ticket, and the workers that a report    *)
(* may have at the same time.  part names the one of a behaviour; the variables of    *)
(* the other stand still.                                                             *)
EXTENDS Tickets, ReportJobs, TLC

VARIABLE part

racesVars == <<ticketVars, vars, part>>

TwoReports == 1..2

RacesInit == TicketsInit /\ Init /\ part \in {"tickets", "reports"}
             /\ (part = "reports" => balance = NULL)

RacesNext ==
  /\ \/ part = "tickets" /\ TicketsNext /\ UNCHANGED vars
     \/ part = "reports" /\ Next /\ UNCHANGED ticketVars
  /\ UNCHANGED part

RacesSpec == RacesInit /\ [][RacesNext]_racesVars

(* When three requests are in flight, they are about invitations and money.              *)
ThreeAboutMoney ==
  (\A r \in Requests : request[r] # NULL)
    => \A r \in Requests : request[r].op \notin {"photo", "decline", "start"}

(* The workshops are the workers, to have fewer permutations.                             *)
Interchangeable == Permutations(Workshops) \cup Permutations(Requests)
=============================================================================
