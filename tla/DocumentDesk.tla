----------------------------- MODULE DocumentDesk -----------------------------
(* The documents of one vehicle and their scans: the page of the vehicle with its dialog  *)
(* in several browsers, the upload that puts the scan on the disk before anything is       *)
(* known, and the transaction that holds the row of the vehicle while it looks and writes.  *)
EXTENDS Integers, FiniteSets

CONSTANTS
  Offices,      \* browsers
  MaxPapers,    \* bound on the documents of the vehicle
  MaxSaves      \* bound on the forms that are sent

ASSUME DocumentDeskConstants == {MaxPapers, MaxSaves} \subseteq Nat

VARIABLES
  papers,       \* the documents, by the order they were made in
  kept,         \* whether the vehicle is active
  scans,        \* the uploads on the disk
  holder,       \* whose transaction holds the row of the vehicle
  saves,        \* the form that every browser has sent
  paperSheet,   \* the dialog: nothing, a new document (0), or the one that is edited
  sentSaves,
  unsure        \* the scans of transactions that were committed, and failed for the API

documentDeskVars == <<papers, kept, scans, holder, saves, paperSheet, sentSaves, unsure>>

(* One kind of document is modelled; state: none yet, current, expired, or gone.          *)
NoPaper == [state |-> "none", scan |-> 0, edited |-> FALSE]
OldPaper == [state |-> "current", scan |-> MaxSaves + 1, edited |-> FALSE]
GonePaper == [state |-> "gone", scan |-> 0, edited |-> FALSE]
NoSave == [step |-> "none", paper |-> 0, scan |-> 0, clash |-> FALSE]
NoDialog == -1
There(p) == papers[p].state \in {"current", "expired"}
Current(p) == papers[p].state = "current"
ListedOnce == {p \in DOMAIN papers : papers[p] # NoPaper}
PapersThere == {p \in DOMAIN papers : There(p)}

DocumentDeskInit ==
  /\ papers \in {[p \in 1..MaxPapers |-> NoPaper],
                 [p \in 1..MaxPapers |-> IF p = 1 THEN OldPaper ELSE NoPaper]}
  /\ scans = {papers[1].scan} \ {0} /\ kept = TRUE /\ holder = {}
  /\ saves = [o \in Offices |-> NoSave] /\ paperSheet = [o \in Offices |-> NoDialog]
  /\ sentSaves = 0 /\ unsure = {}

(* handleAddDoc, handleEditDoc: the list of a browser may be old, and show what is gone.   *)
OpenPaperSheet(o, p) ==
  /\ paperSheet[o] = NoDialog /\ p \in ListedOnce \cup {0}
  /\ paperSheet' = [paperSheet EXCEPT ![o] = p]
  /\ UNCHANGED <<papers, kept, scans, holder, saves, sentSaves, unsure>>

(* Escape and a click outside close the dialog, also while it saves.                      *)
ClosePaperSheet(o) ==
  /\ paperSheet[o] # NoDialog
  /\ paperSheet' = [paperSheet EXCEPT ![o] = NoDialog]
  /\ UNCHANGED <<papers, kept, scans, holder, saves, sentSaves, unsure>>

(* handleSubmit, with the fields filled; a scan is optional, and gets a name of its own.  *)
SavePaper(o, withScan) ==
  /\ paperSheet[o] # NoDialog /\ saves[o].step = "none" /\ sentSaves < MaxSaves
  /\ saves' = [saves EXCEPT ![o] = [step |-> "sent", paper |-> paperSheet[o],
       scan |-> IF withScan THEN sentSaves + 1 ELSE 0, clash |-> FALSE]]
  /\ sentSaves' = sentSaves + 1
  /\ UNCHANGED <<papers, kept, scans, holder, paperSheet, unsure>>

At(o, step) == saves[o].step = step
Goes(o, step) == saves' = [saves EXCEPT ![o].step = step]
Ends(o, step) ==
  saves' = [saves EXCEPT ![o] = [NoSave EXCEPT !.step = step, !.scan = IF step = "refused" THEN saves[o].scan ELSE 0]]

(* The name under which multer stores the upload: a randomUUID.                           *)
UploadName(o) == saves[o].scan

(* The scan is stored, and the form is looked at afterwards: a kind that the page offers   *)
(* and the API does not know is refused, and so is the change of a document that is gone,   *)
(* which is read before the row of the vehicle is held.                                   *)
FormIsTaken(o, valid) ==
  LET s == saves[o]
  IN  /\ At(o, "sent")
      /\ saves' = [saves EXCEPT
           ![o].step = IF valid /\ (s.paper = 0 \/ There(s.paper)) THEN "found" ELSE "refused",
           ![o].scan = IF @ = 0 THEN 0 ELSE UploadName(o)]
      /\ scans' = IF s.scan = 0 THEN scans ELSE scans \cup {UploadName(o)}
      /\ UNCHANGED <<papers, kept, holder, paperSheet, sentSaves, unsure>>

\* a plausible mistake for RowIsFree: the row of the vehicle is read, and not locked
RowIsRead == TRUE

(* FOR UPDATE.                                                                           *)
RowIsFree == holder = {}

Clashing == \E p \in PapersThere : Current(p)

(* lockActiveVehicle, and what createDocument looks for next.                             *)
LockVehicle(o) ==
  /\ At(o, "found") /\ RowIsFree
  /\ saves' = [saves EXCEPT ![o].step = IF kept THEN "locked" ELSE "refused",
                            ![o].clash = Clashing]
  /\ holder' = IF kept THEN holder \cup {o} ELSE holder
  /\ UNCHANGED <<papers, kept, scans, paperSheet, sentSaves, unsure>>

Target(o) == IF saves[o].paper # 0 THEN saves[o].paper ELSE 1 + Cardinality(ListedOnce)

(* The document as the form leaves it: without a new scan the old one stays.               *)
Written(o) ==
  LET s == saves[o]
  IN  [state |-> "current", edited |-> s.paper # 0,
       scan |-> IF s.scan = 0 THEN papers[Target(o)].scan ELSE s.scan]

(* The end of createDocument and updateDocument.  A document that was deleted meanwhile is  *)
(* not updated; and a transaction may be committed although the API hears nothing of it.    *)
WritePaper(o, heard) ==
  LET s == saves[o]
      ok == IF s.paper = 0 THEN ~s.clash ELSE There(s.paper)
  IN  /\ At(o, "locked") /\ (ok => Target(o) <= MaxPapers) /\ (~heard => ok)
      /\ papers' = IF ok THEN [papers EXCEPT ![Target(o)] = Written(o)] ELSE papers
      /\ Ends(o, IF ok /\ heard THEN "saved" ELSE "refused")
      /\ unsure' = IF ok /\ ~heard THEN unsure \cup {s.scan} ELSE unsure
      /\ holder' = holder \ {o}
      /\ UNCHANGED <<kept, scans, paperSheet, sentSaves>>

(* cleanupUploadedFilesOnError.                                                           *)
CleanUp(o) ==
  /\ At(o, "refused") /\ Ends(o, "failed") /\ scans' = scans \ {saves[o].scan}
  /\ UNCHANGED <<papers, kept, holder, paperSheet, sentSaves, unsure>>

(* A success closes the dialog, of whichever document by now; an error, and an answer that   *)
(* is lost, leaves it.                                                                   *)
SaveIsAnswered(o, arrives) ==
  LET saved == At(o, "saved") /\ arrives
  IN  /\ At(o, "saved") \/ At(o, "failed")
      /\ saves' = [saves EXCEPT ![o] = NoSave]
      /\ paperSheet' = IF saved THEN [paperSheet EXCEPT ![o] = NoDialog] ELSE paperSheet
      /\ UNCHANGED <<papers, kept, scans, holder, sentSaves, unsure>>

(* handleDeleteDoc, deleteDocument; the scan stays on the disk.                            *)
DeletePaper(p) ==
  /\ holder = {} /\ kept /\ There(p)
  /\ papers' = [papers EXCEPT ![p] = GonePaper]
  /\ UNCHANGED <<kept, scans, holder, saves, paperSheet, sentSaves, unsure>>

(* The vehicle is deactivated; a document expires.                                        *)
VehicleGoes ==
  /\ kept /\ holder = {} /\ kept' = FALSE
  /\ UNCHANGED <<papers, scans, holder, saves, paperSheet, sentSaves, unsure>>

PaperExpires(p) ==
  /\ Current(p) /\ papers' = [papers EXCEPT ![p].state = "expired"]
  /\ UNCHANGED <<kept, scans, holder, saves, paperSheet, sentSaves, unsure>>

(* The API is stopped: open transactions are rolled back, and nobody cleans up.             *)
ApiStops ==
  /\ \E o \in Offices : saves[o].step \notin {"none", "failed"}
  /\ saves' = [o \in Offices |-> IF At(o, "none") THEN NoSave ELSE [NoSave EXCEPT !.step = "failed"]]
  /\ holder' = {}
  /\ UNCHANGED <<papers, kept, scans, paperSheet, sentSaves, unsure>>

DocumentDeskNext ==
  \/ VehicleGoes \/ ApiStops \/ \E p \in DOMAIN papers : PaperExpires(p) \/ DeletePaper(p)
  \/ \E o \in Offices :
       \/ ClosePaperSheet(o) \/ LockVehicle(o) \/ CleanUp(o)
       \/ \E p \in ListedOnce \cup {0} : OpenPaperSheet(o, p)
       \/ \E withScan \in BOOLEAN : SavePaper(o, withScan)
       \/ \E ok \in BOOLEAN : FormIsTaken(o, ok) \/ WritePaper(o, ok) \/ SaveIsAnswered(o, ok)

DocumentDeskSpec == DocumentDeskInit /\ [][DocumentDeskNext]_documentDeskVars

-----------------------------------------------------------------------------
(* A vehicle has at most one current document of the kind, whoever adds documents at the    *)
(* same time and whichever of them fail, unless one of the two was edited: createDocument     *)
(* holds the row of the vehicle from the look to the write.  And the scan that a document     *)
(* names is on the disk, whatever was uploaded, refused and cleaned up around it, except      *)
(* after a commit that the API took for a failure: cleanupUploadedFilesOnError.              *)
PapersAreInOrder ==
  /\ \A p, q \in PapersThere : Current(p) /\ Current(q) => p = q \/ papers[p].edited \/ papers[q].edited
  /\ \A p \in PapersThere : papers[p].scan \in scans \cup unsure \cup {0}
=============================================================================
