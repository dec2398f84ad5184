------------------------------ MODULE FuelDesk --------------------------------
(* The page on which supervisors and administrators decide the captured loads, in         *)
(* several browsers at a time.  A list is as old as its last read; a dialog may be closed  *)
(* and another opened while a decision is on its way, whose end closes whichever is open.   *)
EXTENDS Integers, Sequences, SequencesExt

CONSTANTS
  Reviewers,    \* browsers of reviewers
  Captured,     \* loads that were captured in the portal
  Historical,   \* those of them from before the reviews, which an administrator reconciles
  MaxDecisions  \* bound on the decisions that are sent

ASSUME FuelDeskConstants == Historical \subseteq Captured /\ MaxDecisions \in Nat

VARIABLES
  decided,      \* PostgreSQL: what was decided of every load
  listed,       \* the loads that the list of every browser shows with buttons
  dialog,       \* the dialog that is open in every browser
  decisions,    \* the decisions of every browser that are on their way, there or back
  made,         \* how many were sent
  told          \* the decisions that a browser was told were made

fuelDeskVars == <<decided, listed, dialog, decisions, made, told>>

Verdicts == {"APPROVE", "REJECT"}
Pending == "PENDING_REVIEW"
Outcome == [APPROVE |-> "APPROVED", REJECT |-> "REJECTED"]

Undecided == {load \in Captured : decided[load] = Pending}

(* What was applied to the odometer, and a corrected reading if one was typed, are for a   *)
(* historical load only.                                                                *)
Closed == [load |-> "none", verdict |-> "APPROVE", applied |-> FALSE, corrected |-> FALSE, busy |-> FALSE]
OpenOn(load, verdict) == [Closed EXCEPT !.load = load, !.verdict = verdict]

FuelDeskInit ==
  /\ decided = [load \in Captured |-> Pending] /\ listed = [r \in Reviewers |-> Captured]
  /\ dialog = [r \in Reviewers |-> Closed] /\ decisions = [r \in Reviewers |-> <<>>]
  /\ made = 0 /\ told = {}

(* useFuelLoads: after an own decision, and whenever the query is stale.                    *)
ReadLoads(r) ==
  /\ listed[r] # Undecided /\ listed' = [listed EXCEPT ![r] = Undecided]
  /\ UNCHANGED <<decided, dialog, decisions, made, told>>

(* The buttons of a row; opening resets the mutation, so that nothing seems on its way.     *)
StartReview(r, load, verdict) ==
  /\ made < MaxDecisions /\ dialog[r].load = "none" /\ load \in listed[r]
  /\ load \in Historical => verdict = "APPROVE"
  /\ dialog' = [dialog EXCEPT ![r] = OpenOn(load, verdict)]
  /\ UNCHANGED <<decided, listed, decisions, made, told>>

(* Escape closes a dialog although "Cancelar" waits.                                       *)
CloseReview(r) ==
  /\ dialog[r].load # "none" /\ dialog' = [dialog EXCEPT ![r] = Closed]
  /\ UNCHANGED <<decided, listed, decisions, made, told>>

(* The fields of a reconciliation; a reading is typed where its field is shown, and stays; *)
(* what was applied matters to a rejection.                                              *)
EditReconciliation(r) ==
  /\ dialog[r].load \in Historical /\ ~dialog[r].busy
  /\ \E verdict \in Verdicts, applied, corrected \in BOOLEAN :
       /\ (applied => verdict = "REJECT")
       /\ corrected # dialog[r].corrected => dialog[r].verdict = "REJECT" /\ dialog[r].applied
       /\ dialog' = [dialog EXCEPT ![r].verdict = verdict, ![r].applied = applied, ![r].corrected = corrected]
  /\ UNCHANGED <<decided, listed, decisions, made, told>>

CorrectionRequired(d) == d.load \in Historical /\ d.verdict = "REJECT" /\ d.applied

Correction(d) == CorrectionRequired(d) /\ d.corrected

(* submitReview, submitReconciliation.                                                    *)
ConfirmDecision(r) ==
  LET d == dialog[r]
  IN  /\ d.load # "none" /\ ~d.busy /\ made < MaxDecisions /\ made' = made + 1
      /\ CorrectionRequired(d) => d.corrected
      /\ decisions' = [decisions EXCEPT ![r] = Append(@,
           [load |-> d.load, verdict |-> d.verdict, applied |-> d.applied, correction |-> Correction(d), step |-> "sent"])]
      /\ dialog' = [dialog EXCEPT ![r].busy = TRUE]
      /\ UNCHANGED <<decided, listed, told>>

(* fuelLoadReviewSchema, legacyFuelLoadReconciliationSchema.                              *)
Valid(request) == request.correction = CorrectionRequired(request)

\* a plausible mistake for AlreadySo: a decided load answers every decision
AlreadySoAny(request) == decided[request.load] # Pending

(* A decision that was made already is answered like the first time.                       *)
AlreadySo(request) == decided[request.load] = Outcome[request.verdict]

(* Everything else that may refuse an approval (the month, the unit, an earlier capture) is  *)
(* in FuelLoads, and one choice here.                                                     *)
DecisionIsHandled(r, i, allowed) ==
  LET request == decisions[r][i]
      now == Valid(request) /\ allowed /\ decided[request.load] = Pending
      ok == Valid(request) /\ (AlreadySo(request) \/ now)
  IN  /\ request.step = "sent"
      /\ decided' = IF now THEN [decided EXCEPT ![request.load] = Outcome[request.verdict]] ELSE decided
      /\ decisions' = [decisions EXCEPT ![r][i].step = IF ok THEN "done" ELSE "refused"]
      /\ UNCHANGED <<listed, dialog, made, told>>

(* A success closes the dialog that is open, of whichever load, and the list is read again; *)
(* an error, or an answer that is lost, leaves it open with its fields.                     *)
DecisionIsAnswered(r, i, arrives) ==
  LET request == decisions[r][i]
      ok == arrives /\ request.step = "done"
  IN  /\ request.step \in {"done", "refused"}
      /\ decisions' = [decisions EXCEPT ![r] = RemoveAt(@, i)]
      /\ told' = IF ok THEN told \cup {[load |-> request.load, outcome |-> Outcome[request.verdict]]} ELSE told
      /\ dialog' = [dialog EXCEPT ![r] = IF ok THEN Closed ELSE [@ EXCEPT !.busy = FALSE]]
      /\ listed' = [listed EXCEPT ![r] = IF ok THEN Undecided ELSE @]
      /\ UNCHANGED <<decided, made>>

FuelDeskNext ==
  \E r \in Reviewers :
    \/ ReadLoads(r) \/ CloseReview(r) \/ EditReconciliation(r) \/ ConfirmDecision(r)
    \/ \E load \in Captured, verdict \in Verdicts : StartReview(r, load, verdict)
    \/ \E i \in DOMAIN decisions[r], ok \in BOOLEAN : DecisionIsHandled(r, i, ok) \/ DecisionIsAnswered(r, i, ok)

FuelDeskSpec == FuelDeskInit /\ [][FuelDeskNext]_fuelDeskVars

-----------------------------------------------------------------------------
(* What a reviewer was told stands, whatever another browser, a repeated decision or a     *)
(* dialog that was closed too early did; and what the page sends is what the schemas take:  *)
(* submitReview and submitReconciliation of the page, reviewFuelLoadInTransaction.         *)
DecisionsStand ==
  /\ \A word \in told : decided[word.load] = word.outcome
  /\ \A r \in Reviewers : \A i \in DOMAIN decisions[r] : Valid(decisions[r][i])
=============================================================================
