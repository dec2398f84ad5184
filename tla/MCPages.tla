------------------------------ MODULE MCPages -------------------------------
(* One run for what the pages make of the answers they get: a behaviour is one of the    *)
(* systems that part names, and the variables of the others stand still.                *)
EXTENDS TicketDesk, ExportPanel, FuelDesk, VehicleDesk, DocumentDesk, TLC

CONSTANTS
  x1, x2          \* workshops, filters, and browsers

VARIABLE part

pagesVars == <<deskVars, panelVars, fuelDeskVars, vehicleDeskVars, documentDeskVars, part>>

(* The budget covers every price to begin with, and may move later.                      *)
PagesInit ==
  /\ DeskInit /\ PanelInit /\ FuelDeskInit /\ VehicleDeskInit /\ DocumentDeskInit
  /\ \A left \in Funds : left <= server.left
  /\ part \in {"tickets", "exports", "fuel", "vehicles", "documents"}
  /\ (part # "exports" => panel = "export") /\ (part # "documents" => papers[1] = NoPaper)

PagesNext ==
  /\ (part = "tickets" /\ DeskNext) \/ (part # "tickets" /\ UNCHANGED deskVars)
  /\ (part = "exports" /\ PanelNext) \/ (part # "exports" /\ UNCHANGED panelVars)
  /\ (part = "fuel" /\ FuelDeskNext) \/ (part # "fuel" /\ UNCHANGED fuelDeskVars)
  /\ (part = "vehicles" /\ VehicleDeskNext) \/ (part # "vehicles" /\ UNCHANGED vehicleDeskVars)
  /\ (part = "documents" /\ DocumentDeskNext) \/ (part # "documents" /\ UNCHANGED documentDeskVars)
  /\ UNCHANGED part

PagesSpec == PagesInit /\ [][PagesNext]_pagesVars

(* A second job, or a second visit of the page.                                          *)
JobsOrVisits == Len(jobs) + mounts <= 3

Interchangeable == Permutations({x1, x2})
=============================================================================
